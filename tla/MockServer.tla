----------------------------- MODULE MockServer -----------------------------
(***************************************************************************)
(* The mock inference server of clawperf/mock_server.py: chat requests are *)
(* looked up in two prefix tries, inserted in both and counted, all under  *)
(* one lock; then they are answered at leisure, and their slot in the      *)
(* gauge of running requests is given back.                                *)
(*                                                                         *)
(* A prompt is the sequence of the hashed blocks its messages are cut      *)
(* into, of at least one token each; what is found is counted in blocks.   *)
(* Definitions under a "Faulty" comment are not part of the model: each is *)
(* a mistake this code could contain, kept next to the definition it would *)
(* replace to show which property notices it.                              *)
(***************************************************************************)
EXTENDS PrefixCacheTrie

CONSTANTS
    Chunks,
    Prompts,     \* prompts of the requests clients send
    MaxRequests, \* bound: requests of a run of the server
    MaxOpen      \* bound: requests under way

ASSUME MockAssumption ==
    /\ Prompts \subseteq Seq(Chunks)
    /\ MaxRequests \in Nat /\ MaxOpen \in Nat

VARIABLES
    hbm, ext, \* _hbm_trie, _ext_trie
    metrics,  \* _metrics_counters
    running,  \* its requests_running
    waiting,  \* streaming responses of which nothing has been asked yet
    open      \* responses under way

vars == <<hbm, ext, metrics, running, waiting, open>>

(* query                                                                   *)
Hit(t, s) == Cardinality(Found(t, s))

Init ==
    /\ hbm = EmptyTrie /\ ext = EmptyTrie
    /\ metrics = [requests |-> 0, hit |-> 0, evictions |-> 0, extRequests |-> 0, extHit |-> 0]
    /\ running = 0 /\ waiting = 0 /\ open = 0

-----------------------------------------------------------------------------
(* Faulty: the second tier takes only what the first one missed.           *)
InsertMissed(t, s) == IF Hit(hbm, s) = 0 THEN Insert(t, s) ELSE t

InsertExternal(t, s) == Insert(t, s)

(* _update_metrics_on_request                                              *)
Lookup(s) ==
    /\ metrics' = [requests    |-> metrics.requests + 1,
                   hit         |-> metrics.hit + Hit(hbm, s),
                   evictions   |-> metrics.evictions + (IF Overfull(hbm, s) THEN 1 ELSE 0),
                   extRequests |-> metrics.extRequests + (IF Hit(hbm, s) > 0 THEN 0 ELSE 1),
                   extHit      |-> metrics.extHit
                                     + (IF Hit(hbm, s) > 0 THEN 0 ELSE Hit(ext, s))]
    /\ ext' = InsertExternal(ext, s)
    /\ hbm' = Insert(hbm, s)
    /\ running' = running + 1

(* chat_completions: a streaming response is returned before its generator *)
(* has run, any other is under way at once.                                *)
ChatCompletions(s) ==
    /\ metrics.requests < MaxRequests /\ waiting + open < MaxOpen
    /\ Lookup(s)
    /\ \/ waiting' = waiting + 1 /\ UNCHANGED open
       \/ open' = open + 1 /\ UNCHANGED waiting

StreamStarts ==
    /\ waiting > 0
    /\ waiting' = waiting - 1 /\ open' = open + 1
    /\ UNCHANGED <<hbm, ext, metrics, running>>

(* Faulty: the slot is given back at the end of the stream and again when  *)
(* its generator is closed.                                                *)
ReleaseTwice == running' = IF running > 1 THEN running - 2 ELSE 0

(* _release_request_slot                                                   *)
ReleaseSlot == running' = IF running > 0 THEN running - 1 ELSE running

(* The response is complete, or its client disconnects on the way: the     *)
(* finally clause runs.                                                    *)
ResponseEnds ==
    /\ open > 0 /\ open' = open - 1
    /\ ReleaseSlot
    /\ UNCHANGED <<hbm, ext, metrics, waiting>>

(* The client disconnects before its stream has started: the generator is  *)
(* dropped before its try statement, and its slot is not given back.       *)
StreamDropped ==
    /\ waiting > 0 /\ waiting' = waiting - 1
    /\ UNCHANGED <<hbm, ext, metrics, running, open>>

AllAnswered == metrics.requests = MaxRequests /\ waiting + open = 0 /\ UNCHANGED vars

Next ==
    \/ \E s \in Prompts : ChatCompletions(s)
    \/ StreamStarts \/ ResponseEnds \/ StreamDropped \/ AllAnswered

Spec == Init /\ [][Next]_vars

-----------------------------------------------------------------------------
TrieOK(t) ==
    /\ \A p \in DOMAIN t.refs : t.refs[p] \in Nat \ {0}
    /\ \A p \in DOMAIN t.refs : Paths(p) \subseteq DOMAIN t.refs
    /\ Len(t.sequences) <= MaxPrefixes
    /\ \A i, j \in DOMAIN t.sequences : t.sequences[i] = t.sequences[j] => i = j

(* Nodes hang together and are all referenced; the gauge misses none of    *)
(* the requests under way.                                                 *)
TypeOK ==
    /\ TrieOK(hbm) /\ TrieOK(ext)
    /\ metrics \in [{"requests", "hit", "evictions", "extRequests", "extHit"} -> Nat]
    /\ waiting \in Nat /\ open \in Nat
    /\ running >= waiting + open

(* Eviction takes nothing from a sequence that is still live: "shared      *)
(* prefixes survive until no live sequence references them", over every    *)
(* order of insertions, repeats and evictions.                             *)
LiveIsCached == \A s \in Live(hbm) : Found(hbm, s) = Paths(s)

Excess(t, p) == Refs(t, p) - Cardinality({s \in Live(t) : p \in Paths(s)})

(* References nobody will give back come from repeats only: a step that    *)
(* brings in a new sequence, evicting another or not, keeps the account of *)
(* every node even.  A repeat raises it for its whole path, for good: its  *)
(* nodes then survive every live sequence.                                 *)
LeakOnlyByRepeats ==
    [][Live(hbm') # Live(hbm) =>
          \A p \in DOMAIN hbm.refs \cup DOMAIN hbm'.refs : Excess(hbm', p) = Excess(hbm, p)]_vars

(* The "external" tier is given what the first tier is given, and asked    *)
(* only when that one knows nothing: it never scores a hit.                *)
ExternalNeverHits == ext = hbm /\ metrics.extHit = 0
=============================================================================
