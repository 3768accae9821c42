--------------------------- MODULE PrefixCacheSim ---------------------------
(***************************************************************************)
(* The trace-based cache simulator of clawperf/trace_simulator.py: one     *)
(* trace is run through a block cache at every budget of a sweep, and      *)
(* through the unlimited cache whose hit rate is the ceiling.              *)
(*                                                                         *)
(* The program runs the budgets one after the other; they share nothing    *)
(* but the trace, so the model advances them together, request by request. *)
(* A hash id is a number, and the reference count of a block, which is     *)
(* back at zero before anything is evicted, is left out.                   *)
(*                                                                         *)
(* Definitions under a "Faulty" comment are not part of the model: each is *)
(* a mistake this code could contain, kept next to the definition it would *)
(* replace to show which property notices it.                              *)
(***************************************************************************)
EXTENDS Integers, Sequences, FiniteSets

CONSTANTS
    Requests,   \* requests a trace may hold: [ids : block ids, length : tokens]
    BlockSize,  \* tokens of a full block
    Levels,     \* budgets of the sweep, in tokens
    MaxRequests \* bound: length of the trace

ASSUME SimAssumption ==
    /\ BlockSize \in Nat \ {0} /\ Levels \subseteq Nat \ {0} /\ MaxRequests \in Nat
    /\ \A e \in Requests : e.ids \in Seq(Nat) \ {<<>>} /\ e.length \in Nat \ {0}

(* _block_tokens: full blocks, then the remainder, then one token each.    *)
BlockTokens(e, i) ==
    LET remaining == e.length - (i - 1) * BlockSize
    IN  IF remaining <= 0 THEN 1
        ELSE IF remaining < BlockSize THEN remaining ELSE BlockSize

(* A hash id stands for a content, so it has the same number of tokens     *)
(* wherever it occurs.  Nothing in load_trace enforces it.                 *)
ASSUME TraceAssumption ==
    \A e, f \in Requests : \A i \in DOMAIN e.ids, j \in DOMAIN f.ids :
        e.ids[i] = f.ids[j] => BlockTokens(e, i) = BlockTokens(f, j)

VARIABLES
    policy,  \* eviction policy of the sweep
    sims,    \* the PrefixCacheSim of each budget
    ceiling, \* the one of compute_ceiling
    served   \* requests of the trace processed so far

vars == <<policy, sims, ceiling, served>>

Policies == {"lru", "fifo"}
Blocks == UNION {{e.ids[i] : i \in DOMAIN e.ids} : e \in Requests}

Sim(cache, order, hit, miss, evictions) ==
    [cache |-> cache, order |-> order, hit |-> hit, miss |-> miss, evictions |-> evictions]

EmptySim == Sim(<<>>, <<>>, 0, 0, 0)

Init ==
    /\ policy \in Policies
    /\ sims = [b \in Levels |-> EmptySim]
    /\ ceiling = EmptySim
    /\ served = 0

-----------------------------------------------------------------------------
(* Faulty: a hit leaves the block where it was.                            *)
NotTouched(s, id) == s.order

(* _touch: the block becomes the most recently used one.                   *)
Touched(s, id) ==
    LET n == Len(s.order)
        k == CHOOSE k \in 1..n : s.order[k] = id
    IN  [i \in 1..n |-> IF i < k THEN s.order[i] ELSE IF i < n THEN s.order[i + 1] ELSE id]

(* Faulty: every block counts as a full one.                               *)
HitFullBlock(s, id, p) ==
    Sim(s.cache, IF p = "lru" THEN Touched(s, id) ELSE s.order,
        s.hit + BlockSize, s.miss, s.evictions)

Hit(s, id, p) ==
    Sim(s.cache, IF p = "lru" THEN Touched(s, id) ELSE s.order,
        s.hit + s.cache[id], s.miss, s.evictions)

Miss(s, id, tokens) ==
    Sim([x \in DOMAIN s.cache \cup {id} |-> IF x = id THEN tokens ELSE s.cache[x]],
        Append(s.order, id), s.hit, s.miss + tokens, s.evictions)

Access(s, id, tokens, p) ==
    IF id \in DOMAIN s.cache THEN Hit(s, id, p) ELSE Miss(s, id, tokens)

(* The cache after the first i blocks of the request, for each i; nothing  *)
(* is evicted before its last block.                                       *)
Accessed(s, e, p) ==
    LET after[i \in 0..Len(e.ids)] ==
            IF i = 0 THEN s
            ELSE Access(after[i - 1], e.ids[i], BlockTokens(e, i), p)
    IN  after[Len(e.ids)]

(* Tokens of the blocks from position k of the order on.                   *)
TokensFrom(s, k) ==
    LET sum[i \in 1..Len(s.order) + 1] ==
            IF i > Len(s.order) THEN 0 ELSE s.cache[s.order[i]] + sum[i + 1]
    IN  sum[k]

CacheTokens(s) == TokensFrom(s, 1)

EvictFirst(s, n) ==
    LET gone == {s.order[i] : i \in 1..n}
    IN  Sim([x \in DOMAIN s.cache \ gone |-> s.cache[x]],
            SubSeq(s.order, n + 1, Len(s.order)), s.hit, s.miss, s.evictions + n)

(* _ensure_budget: the head of the order goes until the rest fits.         *)
EnsureBudget(s, budget) ==
    LET n == CHOOSE n \in 0..Len(s.order) :
                /\ TokensFrom(s, n + 1) <= budget
                /\ \A m \in 0..n - 1 : TokensFrom(s, m + 1) > budget
    IN  EvictFirst(s, n)

Lookup(e) ==
    /\ served < MaxRequests
    /\ served' = served + 1
    /\ sims' = [b \in Levels |-> EnsureBudget(Accessed(sims[b], e, policy), b)]
    /\ ceiling' = Accessed(ceiling, e, "lru")
    /\ UNCHANGED policy

TraceEnds == served = MaxRequests /\ UNCHANGED vars

Next == (\E e \in Requests : Lookup(e)) \/ TraceEnds

Spec == Init /\ [][Next]_vars

-----------------------------------------------------------------------------
SimOK(s) ==
    /\ s.cache \in [DOMAIN s.cache -> Nat \ {0}] /\ DOMAIN s.cache \subseteq Blocks
    /\ s.hit \in Nat /\ s.miss \in Nat /\ s.evictions \in Nat
    /\ Len(s.order) = Cardinality(DOMAIN s.cache)
    /\ {s.order[i] : i \in DOMAIN s.order} = DOMAIN s.cache

(* The order holds every resident block exactly once.                      *)
TypeOK ==
    /\ policy \in Policies
    /\ \A b \in Levels : SimOK(sims[b])
    /\ SimOK(ceiling)
    /\ served \in 0..MaxRequests

IsSuffix(s, t) == Len(s) <= Len(t) /\ s = SubSeq(t, Len(t) - Len(s) + 1, Len(t))

(* Under LRU the cache of every budget is the longest run of most recently *)
(* used blocks that fits in it: the order of the unlimited cache is the    *)
(* recency order of everything seen, and one block more would not fit.     *)
ResidentsAreMostRecent ==
    policy = "lru" =>
        \A b \in Levels :
            LET kept == Len(ceiling.order) - Len(sims[b].order)
            IN  /\ IsSuffix(sims[b].order, ceiling.order)
                /\ CacheTokens(sims[b]) <= b
                /\ kept > 0 => TokensFrom(ceiling, kept) > b

(* More budget never hits less under LRU, request by request, whatever the *)
(* trace; so the sweep's curve, and the inflection point read from it, are *)
(* those of a non-decreasing function (test_sweep_increasing_hit_rate).    *)
HitsGrowWithBudget ==
    [][policy = "lru" =>
          \A b, c \in Levels : b <= c =>
              sims'[b].hit - sims[b].hit <= sims'[c].hit - sims[c].hit]_vars

(* The ceiling is one: under either policy no budget hits more, although   *)
(* it is computed by a separate LRU simulation ("max possible hit rate").  *)
CeilingIsMaximal ==
    \A b \in Levels :
        /\ sims[b].hit <= ceiling.hit
        /\ sims[b].hit + sims[b].miss = ceiling.hit + ceiling.miss
=============================================================================
