--------------------------- MODULE AgentRunProofs ---------------------------
(***************************************************************************)
(* Proofs about agent mode, for every number of tasks and steps, every     *)
(* bank and every set of replies a backend may give.                       *)
(***************************************************************************)
EXTENDS AgentRun, FiniteSetTheorems, SequenceTheorems, TLAPS

Contents == {Missing, Stale, Anything} \cup {Original(b) : b \in Int} \cup {By(t) : t \in Tasks}
Ids == {NoId} \cup ({"given", "call"} \X Nat)
Messages ==
    [role : {"system", "user", "assistant", "tool"}, text : Seq(STRING), calls : Seq(Slots),
     answers : Ids, content : Contents \cup {Done, Error}]

Phases == {"waiting", "asking", "streaming", "calling", "shell", "done", "failed", "cancelled"}
USE DEF Phases

RunType ==
    /\ bank \in Seq(BOOLEAN) /\ metrics \in BOOLEAN
    /\ main \in {"setup", "startSnapshot", "agents", "endSnapshot", "finalizing", "finished",
                 "cancelled", "crashed"}
    /\ workspace \in [Dirs -> Contents]
    /\ pc \in [Tasks -> Phases]
    /\ step \in [Tasks -> 1..MaxSteps] /\ tries \in [Tasks -> 0..SdkRetries]
    /\ DOMAIN reply = Tasks /\ DOMAIN left = Tasks /\ DOMAIN acc = Tasks
    /\ conv \in [Tasks -> Seq(Messages)]
    /\ todo \in [Tasks -> Seq(Slots)]
    /\ turns \in [Tasks -> Seq(Nat)]
    /\ finished \in [Tasks -> BOOLEAN] /\ raised \in [Tasks -> {"none", "message", "empty"}]
    /\ served \in Nat /\ start \in Nat \cup {NoPage} /\ end \in Nat \cup {NoPage}
    /\ faults \in Nat

(* The agents work only while the main task waits for them.                *)
MainInv ==
    /\ main = "setup" => \A d \in Dirs : workspace[d] \in {Missing, Stale}
    /\ main \in {"setup", "startSnapshot"} =>
          \A t \in Tasks : pc[t] = "waiting" /\ conv[t] = Opening /\ turns[t] = <<>>
                           /\ step[t] = 1 /\ raised[t] = "none" /\ tries[t] = 0
    /\ main = "agents" => \A t \in Tasks : pc[t] \notin {"waiting", "cancelled"}
    /\ main \in {"endSnapshot", "finalizing", "finished"} =>
          AgentsOver /\ results = [i \in 1..NumTasks |-> Result(i - 1)]
    /\ output = "agent" <=> main = "finished"

-----------------------------------------------------------------------------
(* The fragments of a call's arguments after the first p.                  *)
Rest(call, c, p) ==
    [k \in 1..Len(call.args) - p |-> Fragment(c, NoId, NoName, <<call.args[p + k]>>)]

(* What has come of a call, in the slots, and what is still to come.       *)
Half(call, c, rest, slots) ==
    \/ rest = Fragments(c, call) /\ c \notin DOMAIN slots
    \/ /\ c \in DOMAIN slots
       /\ \E p \in 0..Len(call.args) :
             /\ slots[c] = [id |-> call.id, name |-> call.name, args |-> SubSeq(call.args, 1, p)]
             /\ rest = Rest(call, c, p)

StreamOf(r, l, a) ==
    /\ r \in Replies
    /\ DOMAIN l = 0..Len(r.calls) /\ l[0] \in Seq(STRING) /\ a.text \in Seq(STRING)
    /\ DOMAIN a.slots \subseteq 1..Len(r.calls)
    /\ \A c \in 1..Len(r.calls) : Half(r.calls[c], c, l[c], a.slots)

InReply(t) == pc[t] \in {"streaming", "calling", "shell"}
Streamed(t) == InReply(t) => StreamOf(reply[t], left[t], acc[t])

-----------------------------------------------------------------------------
(* Every message after an assistant turn answers the next of its calls, as *)
(* far as they are answered, and answers are nowhere else.                 *)
Answered(m) ==
    /\ \A i \in DOMAIN m : m[i].role = "assistant" =>
          /\ \A k \in DOMAIN m[i].calls : i + k \in DOMAIN m =>
                m[i + k].role = "tool" /\ m[i + k].answers = m[i].calls[k].id
          /\ \A k, l \in DOMAIN m[i].calls : m[i].calls[k].id = m[i].calls[l].id => k = l
    /\ \A j \in DOMAIN m : m[j].role = "tool" =>
          \E i \in 1..j - 1 : m[i].role = "assistant" /\ j \in i + 1..i + Len(m[i].calls)

(* The turns up to position o are complete.                                *)
ClosedUpTo(m, o) ==
    \A i \in DOMAIN m : m[i].role = "assistant" /\ i # o =>
        m[i].calls # <<>> /\ i + Len(m[i].calls) < o

(* The turn at o is under way: the rest of its calls is still to be run.   *)
OpenAt(m, o, rest) ==
    /\ o \in DOMAIN m /\ m[o].role = "assistant"
    /\ Len(rest) = Len(m[o].calls) - (Len(m) - o)
    /\ \A k \in DOMAIN rest : rest[k] = m[o].calls[Len(m) - o + k]
    /\ ClosedUpTo(m, o)

Conversed(t) ==
    /\ pc[t] \in {"asking", "streaming"} =>
          Answered(conv[t]) /\ ClosedUpTo(conv[t], Len(conv[t]) + 1)
    /\ pc[t] \in {"calling", "shell"} =>
          /\ Answered(conv[t]) /\ todo[t] # <<>>
          /\ \E o \in DOMAIN conv[t] : OpenAt(conv[t], o, todo[t])
                                      /\ conv[t][o].calls = ToolCalls(acc[t].slots)

(* An agent's turns, its step and its conversation agree.                  *)
Turns(m) == {i \in DOMAIN m : m[i].role = "assistant"}
Spoken(t) == Cardinality(Turns(conv[t]))
Counted(t) ==
    /\ pc[t] \in {"asking", "streaming"} => Spoken(t) = Len(turns[t]) /\ step[t] = Len(turns[t]) + 1
    /\ pc[t] \in {"calling", "shell"} => Spoken(t) = Len(turns[t]) + 1 /\ step[t] = Spoken(t)
    /\ pc[t] = "done" =>
          /\ Spoken(t) = Len(turns[t]) /\ step[t] = Len(turns[t])
          /\ conv[t] # <<>> /\ (finished[t] <=> Last(conv[t]).role = "assistant")
          /\ finished[t] \/ step[t] = MaxSteps
    /\ pc[t] = "failed" => turns[t] = <<>>
    /\ pc[t] # "cancelled" => (raised[t] # "none" <=> pc[t] = "failed")

AgentInv(t) == Streamed(t) /\ Conversed(t) /\ Counted(t)

(* A command has made every directory uncertain before it can be answered. *)
FilesInv == FilesStayInReach /\ \A t \in Tasks : pc[t] = "shell" => CommandRun

(* The engine has counted every request of the turns recorded or under     *)
(* way; more only for attempts that were lost, each a fault and each one   *)
(* of the SDK's attempts at a turn, and for agents that failed.            *)
Started(t) == Len(turns[t]) + (IF InReply(t) THEN 1 ELSE 0)
Requested == {p \in Tasks \X (1..MaxSteps) : p[2] <= Started(p[1])}
Lost(p, k) == pc[p[1]] = "asking" /\ p[2] = Len(turns[p[1]]) + 1 /\ k < tries[p[1]]
Attempts == {a \in (Tasks \X (1..MaxSteps)) \X (0..SdkRetries) :
                a[1] \in Requested \/ Lost(a[1], a[2])}
Metered(n) ==
    /\ n - start >= Cardinality(Requested)
    /\ (\A t \in Tasks : raised[t] = "none") =>
          n - start <= Cardinality(Requested) + faults /\ n - start <= Cardinality(Attempts)
MetricsInv ==
    /\ main = "setup" => start = NoPage
    /\ main \in {"setup", "startSnapshot", "agents", "endSnapshot"} => end = NoPage
    /\ main \in {"agents", "endSnapshot"} /\ start # NoPage => Metered(served)
    /\ main \in {"finalizing", "finished"} /\ start # NoPage /\ end # NoPage => Metered(end)

ExitInv ==
    /\ main \in {"setup", "startSnapshot", "agents", "endSnapshot", "finalizing"} => exit = Running
    /\ main = "finished" => exit \in {Running, IF AllFailed THEN 2 ELSE 0}

IInv == RunType /\ MainInv /\ FilesInv /\ (\A t \in Tasks : AgentInv(t))
        /\ MetricsInv /\ ExitInv

-----------------------------------------------------------------------------
(* Facts about the operators.                                              *)

(* The greatest of one number.                                             *)
LEMMA MaxOfOne == ASSUME NEW x \in Int PROVE Max({x}) = x
BY DEF Max

(* Folding nothing changes nothing.                                        *)
LEMMA FoldNone == ASSUME NEW slots PROVE FoldLeft(Accumulate, slots, <<>>) = slots
<1>1. DOMAIN <<>> = {}
  OBVIOUS
<1>2. QED
  BY <1>1 DEF FoldLeft, MapThenFoldSet

(* Folding one element is one step.                                        *)
LEMMA FoldOne ==
    ASSUME NEW slots, NEW x
    PROVE  FoldLeft(Accumulate, slots, <<x>>) = Accumulate(slots, x)
<1> DEFINE Body(it) == [S \in SUBSET {1} |->
                          IF S = {} THEN slots ELSE Accumulate(it[S \ {Max(S)}], <<x>>[Max(S)])]
           It == [S \in SUBSET {1} |-> IF S = {} THEN slots ELSE Accumulate(slots, x)]
<1> HIDE DEF Accumulate
<1>1. DOMAIN <<x>> = {1} /\ <<x>>[1] = x /\ Max({1}) = 1
  BY MaxOfOne
<1>2. SUBSET {1} = {{}, {1}} /\ {1} \ {1} = {}
  OBVIOUS
<1>3. It = Body(It)
  <2>1. ASSUME NEW S \in SUBSET {1} PROVE It[S] = Body(It)[S]
    <3>1. CASE S = {}
      BY <3>1
    <3>2. CASE S = {1}
      <4>1. S \ {Max(S)} = {} /\ <<x>>[Max(S)] = x
        BY <1>1, <3>2
      <4>2. It[{}] = slots
        OBVIOUS
      <4>3. QED
        BY <3>2, <4>1, <4>2
    <3>3. QED
      BY <1>2, <3>1, <3>2
  <2>2. QED
    BY <2>1
<1>4. ASSUME NEW it, it = Body(it) PROVE it[{1}] = Accumulate(slots, x)
  <2>1. it[{}] = slots
    BY <1>4
  <2>2. it[{1}] = Accumulate(it[{1} \ {Max({1})}], <<x>>[Max({1})])
    BY <1>4
  <2>3. QED
    BY <1>1, <1>2, <2>1, <2>2
<1>5. (CHOOSE it : it = Body(it))[{1}] = Accumulate(slots, x)
  BY <1>3, <1>4
<1>6. QED
  BY <1>1, <1>5 DEF FoldLeft, MapThenFoldSet

(* A sequence is a function on its positions.                              *)
LEMMA FunctionAsSeq ==
    ASSUME NEW S, NEW n \in Nat, NEW f \in [1..n -> S]
    PROVE  f \in Seq(S) /\ Len(f) = n /\ DOMAIN f = 1..n
OBVIOUS

(* And the other way round.                                                *)
LEMMA SeqAsFunction ==
    ASSUME NEW S, NEW s \in Seq(S), NEW n, Len(s) = n
    PROVE  n \in Nat /\ DOMAIN s = 1..n /\ s = [k \in 1..n |-> s[k]]
OBVIOUS

(* The numbers up to n.                                                    *)
LEMMA CountingUp ==
    ASSUME NEW n \in Nat PROVE IsFiniteSet(1..n) /\ Cardinality(1..n) = n
BY FS_Interval

(* The elements of a set of numbers in order: every one once, and those of *)
(* an interval from 1 at their own place.                                  *)
LEMMA OrderedSet ==
    ASSUME NEW S \in SUBSET Nat, IsFiniteSet(S)
    PROVE  /\ Cardinality(S) \in Nat
           /\ \A k \in 1..Cardinality(S) : Ordered(S)[k] \in S
           /\ \A k, l \in 1..Cardinality(S) : Ordered(S)[k] = Ordered(S)[l] => k = l
           /\ \A n \in Nat : S = 1..n =>
                 Cardinality(S) = n /\ \A k \in 1..n : Ordered(S)[k] = k
<1> DEFINE n == Cardinality(S)
           Below(i) == {j \in S : j < i}
           rank == [i \in S |-> Cardinality(Below(i))]
           R == {rank[i] : i \in S}
<1>1. n \in Nat
  BY FS_CardinalityType
<1>2. \A i \in S : i \in Nat /\ Below(i) \in SUBSET S /\ i \notin Below(i)
  OBVIOUS
<1>3. ASSUME NEW i \in S, NEW j \in S, i < j
      PROVE  Below(i) \in SUBSET Below(j) /\ i \in Below(j)
  <2>1. \A k \in S : k < i => k < j
    BY <1>3
  <2>2. QED
    BY <1>3, <2>1
<1>4. \A i \in S : rank[i] = Cardinality(Below(i))
  OBVIOUS
<1>5. rank = [i \in S |-> rank[i]] /\ R = {rank[i] : i \in S}
  OBVIOUS
<1>6. \A k \in 1..n : Ordered(S)[k] = CHOOSE i \in S : rank[i] = k - 1
  BY <1>4 DEF Ordered
<1>7. \A m \in Nat : S = 1..m => \A i \in S : Below(i) = 1..i - 1
  OBVIOUS
<1>8. n = Cardinality(S)
  OBVIOUS
<1> HIDE DEF n, Below, rank, R
<1>9. ASSUME NEW i \in S PROVE IsFiniteSet(Below(i)) /\ rank[i] \in 0..n - 1
  <2>1. IsFiniteSet(Below(i)) /\ Cardinality(Below(i)) <= n /\ Cardinality(Below(i)) # n
    BY <1>2, <1>8, FS_Subset
  <2>2. Cardinality(Below(i)) \in Nat
    BY <2>1, FS_CardinalityType
  <2>3. QED
    BY <1>1, <1>4, <2>1, <2>2
<1>10. ASSUME NEW i \in S, NEW j \in S, i < j PROVE rank[i] < rank[j]
  <2>1. Below(i) \in SUBSET Below(j) /\ i \in Below(j) /\ i \notin Below(i)
    BY <1>2, <1>3, <1>10
  <2>2. /\ Cardinality(Below(i)) <= Cardinality(Below(j))
        /\ Cardinality(Below(i)) # Cardinality(Below(j))
    BY <1>9, <2>1, FS_Subset
  <2>3. rank[i] \in 0..n - 1 /\ rank[j] \in 0..n - 1
    BY <1>9
  <2>4. QED
    BY <1>1, <1>4, <2>2, <2>3
<1>11. ASSUME NEW i \in S, NEW j \in S, i # j PROVE rank[i] # rank[j]
  <2>1. i < j \/ j < i
    BY <1>2, <1>11
  <2>2. rank[i] \in Int /\ rank[j] \in Int
    BY <1>1, <1>9
  <2>3. QED
    BY <1>10, <2>1, <2>2
<1>12. R = 0..n - 1
  <2>1. rank \in Bijection(S, R)
    <3>1. rank \in [S -> R]
      BY <1>5
    <3>2. QED
      BY <1>5, <1>11, <3>1 DEF Bijection, Injection, Surjection, IsInjective
  <2>2. Cardinality(R) = n
    BY <1>8, <2>1, FS_Bijection DEF ExistsBijection
  <2>3. R \in SUBSET (0..n - 1)
    BY <1>5, <1>9
  <2>4. IsFiniteSet(0..n - 1) /\ Cardinality(0..n - 1) = n
    BY <1>1, FS_Interval
  <2>5. QED
    BY <2>2, <2>3, <2>4, FS_Subset
<1>13. ASSUME NEW k \in 1..n PROVE Ordered(S)[k] \in S /\ rank[Ordered(S)[k]] = k - 1
  <2>1. k - 1 \in R
    BY <1>1, <1>12
  <2>2. \E i \in S : rank[i] = k - 1
    BY <1>5, <2>1
  <2>3. QED
    BY <1>6, <2>2
<1>14. ASSUME NEW k \in 1..n, NEW l \in 1..n, Ordered(S)[k] = Ordered(S)[l] PROVE k = l
  <2>1. k - 1 = l - 1
    BY <1>13, <1>14
  <2>2. QED
    BY <1>1, <2>1
<1>15. ASSUME NEW m \in Nat, S = 1..m PROVE n = m /\ \A k \in 1..m : Ordered(S)[k] = k
  <2>1. n = m
    BY <1>8, <1>15, FS_Interval
  <2>2. ASSUME NEW i \in S PROVE rank[i] = i - 1
    <3>1. Below(i) = 1..i - 1 /\ i \in Nat /\ i >= 1
      BY <1>7, <1>15
    <3>2. i - 1 \in Nat
      BY <3>1
    <3>3. Cardinality(1..i - 1) = i - 1
      BY <3>2, CountingUp
    <3>4. QED
      BY <1>4, <3>1, <3>3
  <2>3. ASSUME NEW k \in 1..m PROVE Ordered(S)[k] = k
    <3>1. Ordered(S)[k] \in S /\ rank[Ordered(S)[k]] = k - 1
      BY <1>13, <2>1
    <3>2. rank[Ordered(S)[k]] = Ordered(S)[k] - 1
      BY <2>2, <3>1
    <3>3. Ordered(S)[k] \in Nat
      BY <3>1
    <3>4. QED
      BY <3>1, <3>2, <3>3
  <2>4. QED
    BY <2>1, <2>3
<1>16. QED
  BY <1>1, <1>8, <1>13, <1>14, <1>15

-----------------------------------------------------------------------------
(* A reply as it comes in.                                                 *)

(* A reply and its calls.                                                  *)
LEMMA ReplyType ==
    ASSUME NEW r \in Replies
    PROVE  /\ r.calls \in Seq(Requests) /\ r.text \in Seq(STRING)
           /\ Len(r.calls) \in Nat
           /\ \A c \in 1..Len(r.calls) : r.calls[c] \in Requests
BY ReplyAssumption

(* The head and the tail of the fragments of arguments.                    *)
LEMMA RestParts ==
    ASSUME NEW call \in Requests, NEW c, NEW p \in 0..Len(call.args)
    PROVE  /\ p = Len(call.args) <=> Rest(call, c, p) = <<>>
           /\ p < Len(call.args) =>
                 /\ Head(Rest(call, c, p)) = Fragment(c, NoId, NoName, <<call.args[p + 1]>>)
                 /\ Tail(Rest(call, c, p)) = Rest(call, c, p + 1)
<1> DEFINE n == Len(call.args) - p
           F == {Rest(call, c, p)[k] : k \in 1..n}
<1>1. call.args \in Seq({"opened", "closed"}) /\ Len(call.args) \in Nat /\ p \in Nat /\ n \in Nat
  BY DEF Requests, Pieced
<1>2. Rest(call, c, p) \in [1..n -> F]
  BY DEF Rest
<1> HIDE DEF F
<1>3. Rest(call, c, p) \in Seq(F) /\ Len(Rest(call, c, p)) = n
  BY <1>1, <1>2, FunctionAsSeq
<1>4. CASE p = Len(call.args)
  BY <1>1, <1>3, <1>4
<1>5. CASE p < Len(call.args)
  <2>1. Rest(call, c, p) # <<>> /\ 1 \in 1..n
    BY <1>1, <1>3, <1>5
  <2>2. Head(Rest(call, c, p)) = Fragment(c, NoId, NoName, <<call.args[p + 1]>>)
    BY <1>3, <2>1 DEF Rest
  <2>3. /\ Tail(Rest(call, c, p)) \in Seq(F) /\ Len(Tail(Rest(call, c, p))) = n - 1
        /\ \A k \in 1..n - 1 : Tail(Rest(call, c, p))[k] = Rest(call, c, p)[k + 1]
    BY <1>3, <2>1, HeadTailProperties
  <2>4. \A k \in 1..n - 1 : Rest(call, c, p)[k + 1] = Rest(call, c, p + 1)[k]
    <3> SUFFICES ASSUME NEW k \in 1..n - 1
                 PROVE  Rest(call, c, p)[k + 1] = Rest(call, c, p + 1)[k]
      OBVIOUS
    <3>1. k + 1 \in 1..n /\ k \in 1..Len(call.args) - (p + 1) /\ p + (k + 1) = p + 1 + k
      BY <1>1
    <3>2. QED
      BY <3>1 DEF Rest
  <2>5. Rest(call, c, p + 1) = [k \in 1..n - 1 |-> Rest(call, c, p + 1)[k]]
    <3>1. Len(call.args) - (p + 1) = n - 1
      BY <1>1
    <3>2. QED
      BY <3>1 DEF Rest
  <2>6. Tail(Rest(call, c, p)) = [k \in 1..n - 1 |-> Tail(Rest(call, c, p))[k]]
    BY <2>3, SeqAsFunction
  <2>7. Tail(Rest(call, c, p)) = Rest(call, c, p + 1)
    BY <2>3, <2>4, <2>5, <2>6
  <2>8. QED
    BY <1>1, <1>5, <2>1, <2>2, <2>7
<1>6. QED
  BY <1>1, <1>4, <1>5

(* The fragments of a call: its name, and those of its arguments.          *)
LEMMA FragmentsParts ==
    ASSUME NEW call \in Requests, NEW c
    PROVE  /\ Fragments(c, call) # <<>>
           /\ Head(Fragments(c, call)) = Fragment(c, call.id, call.name, <<>>)
           /\ Tail(Fragments(c, call)) = Rest(call, c, 0)
<1> DEFINE first == Fragment(c, call.id, call.name, <<>>)
           rest == Rest(call, c, 0)
           n == Len(call.args)
           F == {first} \cup {rest[k] : k \in 1..n}
<1>1. call.args \in Seq({"opened", "closed"}) /\ n \in Nat /\ DOMAIN call.args = 1..n
  BY DEF Requests, Pieced
<1>2. rest = [k \in DOMAIN call.args |-> Fragment(c, NoId, NoName, <<call.args[k]>>)]
  <2>1. \A k \in 1..n : 0 + k = k
    OBVIOUS
  <2>2. n - 0 = n
    BY <1>1
  <2>3. QED
    BY <1>1, <2>1, <2>2 DEF Rest
<1>3. Fragments(c, call) = <<first>> \o rest
  BY <1>2 DEF Fragments
<1>4. rest \in Seq(F)
  <2>1. rest \in [1..n -> F]
    BY <1>1, <1>2
  <2>2. QED
    BY <1>1, <2>1
<1>5. first \in F
  OBVIOUS
<1> HIDE DEF first, rest, F
<1>6. /\ <<first>> \o rest # <<>> /\ Head(<<first>> \o rest) = first
      /\ Tail(<<first>> \o rest) = rest
  BY <1>4, <1>5
<1>7. QED
  BY <1>3, <1>6 DEF first, rest

(* A fragment changes its slot and no other.                               *)
LEMMA Accumulated ==
    ASSUME NEW slots, NEW f
    PROVE  /\ DOMAIN Accumulate(slots, f) = DOMAIN slots \cup {f.index}
           /\ \A i \in DOMAIN slots : i # f.index => Accumulate(slots, f)[i] = slots[i]
BY DEF Accumulate

(* The first fragment of a call opens its slot.                            *)
LEMMA SlotOpened ==
    ASSUME NEW slots, NEW f, f.index \notin DOMAIN slots
    PROVE  Accumulate(slots, f)[f.index] = [id |-> f.id, name |-> f.name, args |-> <<>> \o f.args]
<1>1. f.index \in DOMAIN slots \cup {f.index}
  OBVIOUS
<1>2. /\ (IF f.id # NoId THEN f.id ELSE NoId) = f.id
      /\ (IF f.name # NoName THEN f.name ELSE NoName) = f.name
  OBVIOUS
<1>3. QED
  BY <1>1, <1>2 DEF Accumulate, NoSlot

(* Every other one adds to the arguments.                                  *)
LEMMA SlotExtended ==
    ASSUME NEW slots, NEW c \in DOMAIN slots, NEW f, f.index = c, f.id = NoId, f.name = NoName
    PROVE  Accumulate(slots, f)[c] =
               [id |-> slots[c].id, name |-> slots[c].name, args |-> slots[c].args \o f.args]
BY DEF Accumulate

(* The next piece of a call takes what has come of it one further.         *)
LEMMA HalfStep ==
    ASSUME NEW call \in Requests, NEW c, NEW rest, NEW slots, rest # <<>>,
           Half(call, c, rest, slots)
    PROVE  /\ Head(rest).index = c
           /\ Half(call, c, Tail(rest), Accumulate(slots, Head(rest)))
<1> DEFINE args == call.args
           next == Accumulate(slots, Head(rest))
<1>1. args \in Seq({"opened", "closed"}) /\ Len(args) \in Nat
  BY DEF Requests, Pieced
<1> HIDE DEF next
<1>2. next = Accumulate(slots, Head(rest))
  BY DEF next
<1>3. CASE rest = Fragments(c, call) /\ c \notin DOMAIN slots
  <2>1. Head(rest) = Fragment(c, call.id, call.name, <<>>) /\ Tail(rest) = Rest(call, c, 0)
    BY <1>3, FragmentsParts
  <2>2. /\ Head(rest).index = c /\ Head(rest).id = call.id /\ Head(rest).name = call.name
        /\ Head(rest).args = <<>>
    BY <2>1 DEF Fragment
  <2>3. c \in DOMAIN next
        /\ next[c] = [id |-> call.id, name |-> call.name, args |-> <<>> \o <<>>]
    <3>1. c \in DOMAIN next
      BY <1>2, <2>2, Accumulated
    <3>2. next[c] =
              [id |-> Head(rest).id, name |-> Head(rest).name, args |-> <<>> \o Head(rest).args]
      BY <1>2, <1>3, <2>2, SlotOpened
    <3>3. QED
      BY <2>2, <3>1, <3>2
  <2>4. <<>> \o <<>> = SubSeq(args, 1, 0) /\ 0 \in 0..Len(args)
    BY <1>1
  <2>5. Half(call, c, Tail(rest), next)
    BY <2>1, <2>3, <2>4 DEF Half
  <2>6. QED
    BY <1>2, <2>2, <2>5
<1>4. ASSUME c \in DOMAIN slots, NEW p \in 0..Len(args), rest = Rest(call, c, p),
             slots[c] = [id |-> call.id, name |-> call.name, args |-> SubSeq(args, 1, p)]
      PROVE  Head(rest).index = c /\ Half(call, c, Tail(rest), next)
  <2>1. p < Len(args) /\ p \in Nat /\ p + 1 \in 0..Len(args)
    <3>1. p # Len(args)
      BY <1>4, RestParts
    <3>2. p \in Nat /\ p <= Len(args)
      BY <1>1
    <3>3. QED
      BY <1>1, <3>1, <3>2
  <2>2. /\ Head(rest) = Fragment(c, NoId, NoName, <<args[p + 1]>>)
        /\ Tail(rest) = Rest(call, c, p + 1)
    BY <1>4, <2>1, RestParts
  <2>3. /\ Head(rest).index = c /\ Head(rest).id = NoId /\ Head(rest).name = NoName
        /\ Head(rest).args = <<args[p + 1]>>
    BY <2>2 DEF Fragment
  <2>4. c \in DOMAIN next
        /\ next[c] = [id |-> call.id, name |-> call.name,
                      args |-> SubSeq(args, 1, p) \o <<args[p + 1]>>]
    <3>1. c \in DOMAIN next
      BY <1>2, <2>3, Accumulated
    <3>2. next[c] = [id |-> slots[c].id, name |-> slots[c].name,
                     args |-> slots[c].args \o Head(rest).args]
      <4>1. c \in DOMAIN slots
        BY <1>4
      <4>2. Head(rest).index = c /\ Head(rest).id = NoId /\ Head(rest).name = NoName
        BY <2>3
      <4>3. Accumulate(slots, Head(rest))[c] =
                [id |-> slots[c].id, name |-> slots[c].name,
                 args |-> slots[c].args \o Head(rest).args]
        BY <4>1, <4>2, SlotExtended
      <4>4. QED
        BY <1>2, <4>3
    <3>3. /\ slots[c].id = call.id /\ slots[c].name = call.name
          /\ slots[c].args = SubSeq(args, 1, p) /\ Head(rest).args = <<args[p + 1]>>
      BY <1>4, <2>3
    <3>4. QED
      BY <3>1, <3>2, <3>3
  <2>5. SubSeq(args, 1, p) \o <<args[p + 1]>> = SubSeq(args, 1, p + 1)
    BY <1>1, <2>1
  <2>6. Half(call, c, Tail(rest), next)
    BY <2>1, <2>2, <2>4, <2>5 DEF Half
  <2>7. QED
    BY <1>2, <2>3, <2>6
<1>5. QED
  BY <1>2, <1>3, <1>4 DEF Half

(* What has come of one call is not changed by a piece of another.         *)
LEMMA HalfKept ==
    ASSUME NEW call, NEW c, NEW rest, NEW slots, NEW f, f.index # c, Half(call, c, rest, slots)
    PROVE  Half(call, c, rest, Accumulate(slots, f))
<1> DEFINE next == Accumulate(slots, f)
<1>1. next = Accumulate(slots, f)
  OBVIOUS
<1> HIDE DEF next
<1>2. (c \in DOMAIN next <=> c \in DOMAIN slots) /\ (c \in DOMAIN slots => next[c] = slots[c])
  <2>1. DOMAIN next = DOMAIN slots \cup {f.index}
    BY <1>1, Accumulated
  <2>2. c \in DOMAIN slots => next[c] = slots[c]
    BY <1>1, Accumulated
  <2>3. QED
    BY <2>1, <2>2
<1>3. Half(call, c, rest, next)
  BY <1>2 DEF Half
<1>4. QED
  BY <1>3 DEF next

(* A reply of which nothing has come yet.                                  *)
LEMMA StreamBegins == ASSUME NEW r \in Replies PROVE StreamOf(r, Pieces(r), Nothing)
<1>1. Len(r.calls) \in Nat /\ r.text \in Seq(STRING)
  BY ReplyType
<1>2. Nothing.text \in Seq(STRING) /\ DOMAIN Nothing.slots = {}
  BY DEF Nothing
<1>3. DOMAIN Pieces(r) = 0..Len(r.calls) /\ Pieces(r)[0] = r.text
  BY <1>1 DEF Pieces
<1>4. ASSUME NEW c \in 1..Len(r.calls) PROVE Pieces(r)[c] = Fragments(c, r.calls[c])
  BY <1>1 DEF Pieces
<1>5. QED
  BY <1>1, <1>2, <1>3, <1>4 DEF StreamOf, Half

(* The next chunk, from whichever part of the reply.                       *)
LEMMA StreamStep ==
    ASSUME NEW r, NEW l, NEW a, StreamOf(r, l, a), NEW c \in DOMAIN l, l[c] # <<>>,
           NEW chunk \in ChunksFrom(r, l, c)
    PROVE  StreamOf(r, Sent(l, c), Consume(a, chunk))
<1> DEFINE n == Len(r.calls)
           next == Consume(a, chunk)
<1>1. n = Len(r.calls) /\ next = Consume(a, chunk)
  OBVIOUS
<1> HIDE DEF n, next
<1>2. /\ r \in Replies /\ n \in Nat /\ DOMAIN l = 0..n /\ l[0] \in Seq(STRING)
      /\ a.text \in Seq(STRING) /\ DOMAIN a.slots \subseteq 1..n
      /\ \A i \in 1..n : r.calls[i] \in Requests /\ Half(r.calls[i], i, l[i], a.slots)
  BY <1>1, ReplyType DEF StreamOf, n, next
<1>3. /\ DOMAIN Sent(l, c) = 0..n /\ Sent(l, c)[c] = Tail(l[c])
      /\ \A i \in 0..n : i # c => Sent(l, c)[i] = l[i]
  BY <1>2 DEF Sent
<1>4. CASE c = 0
  <2>1. chunk.calls = <<>> /\ chunk.text = <<Head(l[0])>>
    <3>1. PICK t \in BOOLEAN : chunk = Chunk(t, <<Head(l[0])>>, <<>>)
      BY <1>4 DEF ChunksFrom
    <3>2. QED
      BY <3>1 DEF Chunk
  <2>2. next.slots = a.slots
    BY <1>1, <2>1, FoldNone DEF Consume
  <2>3. Head(l[0]) \in STRING /\ Tail(l[0]) \in Seq(STRING)
    <3>1. l[0] \in Seq(STRING) /\ l[0] # <<>>
      BY <1>2, <1>4
    <3>2. QED
      BY <3>1, HeadTailProperties
  <2>4. next.text \in Seq(STRING)
    <3>1. next.text \in {a.text, a.text \o <<Head(l[0])>>}
      BY <1>1, <2>1 DEF Consume
    <3>2. a.text \in Seq(STRING) /\ <<Head(l[0])>> \in Seq(STRING)
      BY <1>2, <2>3
    <3>3. a.text \o <<Head(l[0])>> \in Seq(STRING)
      BY <3>2, ConcatProperties
    <3>4. QED
      BY <3>1, <3>2, <3>3
  <2>5. Sent(l, c)[0] \in Seq(STRING) /\ \A i \in 1..n : Sent(l, c)[i] = l[i]
    <3>1. Sent(l, c)[0] = Tail(l[0])
      BY <1>3, <1>4
    <3>2. ASSUME NEW i \in 1..n PROVE Sent(l, c)[i] = l[i]
      <4>1. i \in 0..n /\ i # c
        BY <1>2, <1>4
      <4>2. QED
        BY <1>3, <4>1
    <3>3. QED
      BY <2>3, <3>1, <3>2
  <2>6. QED
    BY <1>2, <1>3, <2>2, <2>4, <2>5 DEF StreamOf, n, next
<1>5. CASE c # 0
  <2>1. c \in 1..n
    BY <1>2, <1>5
  <2>2. chunk = Chunk(FALSE, <<>>, <<Head(l[c])>>)
    BY <1>5 DEF ChunksFrom
  <2>3. ~chunk.reasoning /\ chunk.text = <<>> /\ chunk.calls = <<Head(l[c])>>
    BY <2>2 DEF Chunk
  <2>4. next.slots = Accumulate(a.slots, Head(l[c])) /\ next.text = a.text \o <<>>
    BY <1>1, <2>3, FoldOne DEF Consume
  <2>5. next.text \in Seq(STRING)
    BY <1>2, <2>4
  <2>6. Head(l[c]).index = c /\ Half(r.calls[c], c, Tail(l[c]), next.slots)
    BY <1>2, <2>1, <2>4, HalfStep
  <2>7. DOMAIN next.slots \subseteq 1..n
    <3>1. DOMAIN a.slots \subseteq 1..n
      BY <1>2
    <3>2. DOMAIN next.slots = DOMAIN a.slots \cup {Head(l[c]).index}
      BY <2>4, Accumulated
    <3>3. QED
      BY <2>1, <2>6, <3>1, <3>2
  <2>8. ASSUME NEW i \in 1..n, i # c PROVE Half(r.calls[i], i, Sent(l, c)[i], next.slots)
    BY <1>2, <1>3, <2>4, <2>6, <2>8, HalfKept
  <2>9. \A i \in 1..n : Half(r.calls[i], i, Sent(l, c)[i], next.slots)
    BY <1>3, <2>6, <2>8
  <2>10. Sent(l, c)[0] \in Seq(STRING)
    BY <1>2, <1>3, <2>1
  <2>11. QED
    BY <1>2, <1>3, <2>5, <2>7, <2>9, <2>10 DEF StreamOf, n, next
<1>6. QED
  BY <1>4, <1>5

(* What a slot makes of its call, with the first p pieces of the arguments.*)
MadeOf(call, o, p) ==
    [id |-> IF call.id # NoId THEN call.id ELSE <<"call", o>>, name |-> call.name,
     args |-> SubSeq(call.args, 1, p)]

(* Each tool call is made of a call of the reply, a different one each, and*)
(* the k-th of the k-th if the reply is complete.                          *)
LEMMA ToolCallsOf ==
    ASSUME NEW r, NEW l, NEW a, StreamOf(r, l, a)
    PROVE  /\ DOMAIN ToolCalls(a.slots) = 1..Cardinality(DOMAIN a.slots)
           /\ Cardinality(DOMAIN a.slots) \in Nat
           /\ \A k \in DOMAIN ToolCalls(a.slots) : LET o == Ordered(DOMAIN a.slots)[k] IN
                 /\ o \in 1..Len(r.calls)
                 /\ \E p \in 0..Len(r.calls[o].args) :
                       /\ ToolCalls(a.slots)[k] = MadeOf(r.calls[o], o, p)
                       /\ l[o] = Rest(r.calls[o], o, p)
<1> DEFINE S == DOMAIN a.slots
           n == Len(r.calls)
<1>1. /\ r \in Replies /\ n \in Nat /\ S \subseteq 1..n
      /\ \A o \in 1..n : Half(r.calls[o], o, l[o], a.slots)
  BY ReplyType DEF StreamOf
<1>2. S \in SUBSET Nat /\ IsFiniteSet(S)
  BY <1>1, CountingUp, FS_Subset
<1>3. Cardinality(S) \in Nat /\ \A k \in 1..Cardinality(S) : Ordered(S)[k] \in S
  BY <1>2, OrderedSet
<1>4. DOMAIN Ordered(S) = 1..Cardinality(S)
  BY DEF Ordered
<1>5. ToolCalls(a.slots) =
          [k \in DOMAIN Ordered(S) |->
              [a.slots[Ordered(S)[k]] EXCEPT
                  !.id = IF a.slots[Ordered(S)[k]].id # NoId THEN a.slots[Ordered(S)[k]].id
                         ELSE <<"call", Ordered(S)[k]>>]]
  BY DEF ToolCalls
<1> HIDE DEF S, n
<1>6. ASSUME NEW k \in 1..Cardinality(S)
      PROVE  /\ Ordered(S)[k] \in 1..n
             /\ \E p \in 0..Len(r.calls[Ordered(S)[k]].args) :
                   /\ ToolCalls(a.slots)[k] = MadeOf(r.calls[Ordered(S)[k]], Ordered(S)[k], p)
                   /\ l[Ordered(S)[k]] = Rest(r.calls[Ordered(S)[k]], Ordered(S)[k], p)
  <2>1. PICK o \in S : o = Ordered(S)[k]
    BY <1>3
  <2>2. o \in 1..n /\ Half(r.calls[o], o, l[o], a.slots)
    BY <1>1
  <2>3. PICK p \in 0..Len(r.calls[o].args) :
          /\ a.slots[o] = [id |-> r.calls[o].id, name |-> r.calls[o].name,
                           args |-> SubSeq(r.calls[o].args, 1, p)]
          /\ l[o] = Rest(r.calls[o], o, p)
    BY <2>1, <2>2 DEF Half, S
  <2>4. ToolCalls(a.slots)[k] = [a.slots[o] EXCEPT
            !.id = IF a.slots[o].id # NoId THEN a.slots[o].id ELSE <<"call", o>>]
    BY <1>4, <1>5, <2>1
  <2>5. ToolCalls(a.slots)[k] = MadeOf(r.calls[o], o, p)
    <3>1. a.slots[o].id = r.calls[o].id
      BY <2>3
    <3> DEFINE id == IF r.calls[o].id # NoId THEN r.calls[o].id ELSE <<"call", o>>
               name == r.calls[o].name
               args == SubSeq(r.calls[o].args, 1, p)
               slot == a.slots[o]
    <3>2. slot = [id |-> slot.id, name |-> name, args |-> args]
      BY <2>3
    <3>3. MadeOf(r.calls[o], o, p) = [id |-> id, name |-> name, args |-> args]
      BY DEF MadeOf
    <3>4. ToolCalls(a.slots)[k] = [slot EXCEPT !.id = id]
      BY <2>4, <3>1
    <3> HIDE DEF id, name, args, slot
    <3>5. QED
      BY <3>2, <3>3, <3>4
  <2>6. QED
    BY <2>1, <2>2, <2>3, <2>5
<1>7. DOMAIN ToolCalls(a.slots) = 1..Cardinality(S)
  BY <1>4, <1>5
<1>8. QED
  BY <1>3, <1>6, <1>7 DEF S, n

(* The tool calls are a sequence of calls with different ids.              *)
LEMMA ToolCallsType ==
    ASSUME NEW r, NEW l, NEW a, StreamOf(r, l, a)
    PROVE  /\ ToolCalls(a.slots) \in Seq(Slots)
           /\ Len(ToolCalls(a.slots)) = Cardinality(DOMAIN a.slots)
           /\ \A k, m \in DOMAIN ToolCalls(a.slots) :
                 ToolCalls(a.slots)[k].id = ToolCalls(a.slots)[m].id => k = m
<1> DEFINE S == DOMAIN a.slots
           calls == ToolCalls(a.slots)
           n == Cardinality(S)
           order == Ordered(S)
<1>1. r \in Replies /\ DOMAIN calls = 1..n /\ n \in Nat
  BY ToolCallsOf DEF StreamOf
<1>2. \A k \in 1..n : order[k] \in 1..Len(r.calls) /\ \E p \in 0..Len(r.calls[order[k]].args) :
          calls[k] = MadeOf(r.calls[order[k]], order[k], p)
  <2> SUFFICES ASSUME NEW k \in DOMAIN ToolCalls(a.slots)
               PROVE  /\ order[k] \in 1..Len(r.calls)
                      /\ \E p \in 0..Len(r.calls[order[k]].args) :
                            calls[k] = MadeOf(r.calls[order[k]], order[k], p)
    BY <1>1
  <2> QED
    BY ToolCallsOf
<1>3. \A k, m \in 1..n : order[k] = order[m] => k = m
  <2>1. Len(r.calls) \in Nat /\ S \subseteq 1..Len(r.calls)
    BY ReplyType DEF StreamOf
  <2>2. S \in SUBSET Nat /\ IsFiniteSet(S)
    BY <2>1, CountingUp, FS_Subset
  <2>3. QED
    BY <2>2, OrderedSet
<1>4. calls = [k \in 1..n |-> calls[k]]
  BY <1>1 DEF ToolCalls
<1> HIDE DEF S, calls, n, order
<1>5. ASSUME NEW o \in 1..Len(r.calls)
      PROVE  r.calls[o] \in Requests /\ o \in Nat
  BY <1>1, ReplyType
<1>6. ASSUME NEW k \in 1..n PROVE calls[k] \in Slots
  <2>1. PICK o \in 1..Len(r.calls) :
            \E p \in 0..Len(r.calls[o].args) : calls[k] = MadeOf(r.calls[o], o, p)
    BY <1>2
  <2>2. PICK p \in 0..Len(r.calls[o].args) : calls[k] = MadeOf(r.calls[o], o, p)
    BY <2>1
  <2>3. r.calls[o] \in Requests /\ o \in Nat
    BY <1>5
  <2>4. /\ r.calls[o].id \in {NoId} \cup ({"given"} \X Nat) /\ r.calls[o].name \in STRING
        /\ r.calls[o].args \in Pieced
    BY <2>3 DEF Requests
  <2>5. SubSeq(r.calls[o].args, 1, p) \in Pieced
    BY <2>4 DEF Pieced
  <2>6. <<"call", o>> \in {"given", "call"} \X Nat
    BY <2>3
  <2>7. QED
    BY <2>2, <2>4, <2>5, <2>6 DEF MadeOf, Slots
<1>7. calls \in Seq(Slots) /\ Len(calls) = n
  BY <1>1, <1>4, <1>6, FunctionAsSeq
<1>8. ASSUME NEW k \in 1..n, NEW m \in 1..n, calls[k].id = calls[m].id PROVE k = m
  <2>1. PICK o \in 1..Len(r.calls) :
            o = order[k] /\ \E p \in 0..Len(r.calls[o].args) : calls[k] = MadeOf(r.calls[o], o, p)
    BY <1>2
  <2>2. PICK q \in 1..Len(r.calls) :
            q = order[m] /\ \E p \in 0..Len(r.calls[q].args) : calls[m] = MadeOf(r.calls[q], q, p)
    BY <1>2
  <2>3. /\ calls[k].id = IF r.calls[o].id # NoId THEN r.calls[o].id ELSE <<"call", o>>
        /\ calls[m].id = IF r.calls[q].id # NoId THEN r.calls[q].id ELSE <<"call", q>>
    BY <2>1, <2>2 DEF MadeOf
  <2>4. /\ r.calls[o].id # NoId => r.calls[o].id \in {"given"} \X Nat
        /\ r.calls[q].id # NoId => r.calls[q].id \in {"given"} \X Nat
    BY <1>5 DEF Requests
  <2>5. /\ <<"call", o>> \notin {"given"} \X Nat /\ <<"call", q>> \notin {"given"} \X Nat
        /\ <<"call", o>> = <<"call", q>> => o = q
    OBVIOUS
  <2>6. r.calls[o].id = r.calls[q].id /\ r.calls[o].id # NoId => o = q
    BY <1>1, ReplyAssumption, ReplyType
  <2>7. o = q
    BY <1>8, <2>3, <2>4, <2>5, <2>6
  <2>8. QED
    BY <1>3, <2>1, <2>2, <2>7
<1>9. QED
  BY <1>1, <1>7, <1>8 DEF calls, n, S

(* A call with all its arguments is the call of the reply.                 *)
LEMMA MadeWhole ==
    ASSUME NEW call \in Requests, NEW o, NEW p, p = Len(call.args)
    PROVE  SameCall(MadeOf(call, o, p), call, o)
<1>1. call.args \in Seq({"opened", "closed"})
  BY DEF Requests, Pieced
<1>2. SubSeq(call.args, 1, p) = call.args
  BY <1>1
<1>3. QED
  BY <1>2 DEF MadeOf, SameCall

(* Arguments that parse are all there.                                     *)
LEMMA ParsedWhole ==
    ASSUME NEW r \in Replies, NEW o \in 1..Len(r.calls), NEW p \in 0..Len(r.calls[o].args),
           Parses(SubSeq(r.calls[o].args, 1, p))
    PROVE  p = Len(r.calls[o].args)
<1> DEFINE args == r.calls[o].args
<1>1. args \in Seq({"opened", "closed"}) /\ Len(args) \in Nat /\ p \in Nat /\ p <= Len(args)
  BY ReplyType DEF Requests, Pieced
<1>2. \A i \in 1..Len(args) - 1 : args[i] # "closed"
  <2>1. o \in DOMAIN r.calls
    BY ReplyType
  <2>2. QED
    BY <2>1, ReplyAssumption
<1> HIDE DEF args
<1>3. SubSeq(args, 1, p) # <<>> /\ Last(SubSeq(args, 1, p)) = "closed"
  BY DEF Parses, args
<1>4. Len(SubSeq(args, 1, p)) = p /\ \A i \in 1..p : SubSeq(args, 1, p)[i] = args[i]
  BY <1>1
<1>5. p # 0
  BY <1>1, <1>3
<1>6. args[p] = "closed"
  BY <1>1, <1>3, <1>4, <1>5 DEF Last
<1>7. QED
  BY <1>1, <1>2, <1>5, <1>6 DEF args

(* All the calls of a complete reply are made, each in its place, and of   *)
(* one that is cut short those that parse.                                 *)
LEMMA ToolCallsWhole ==
    ASSUME NEW r, NEW l, NEW a, StreamOf(r, l, a)
    PROVE  /\ AllSent(l) =>
                 /\ Len(ToolCalls(a.slots)) = Len(r.calls)
                 /\ \A k \in DOMAIN ToolCalls(a.slots) :
                       SameCall(ToolCalls(a.slots)[k], r.calls[k], k)
           /\ \A k \in DOMAIN ToolCalls(a.slots) : Parses(ToolCalls(a.slots)[k].args) =>
                 \E c \in DOMAIN r.calls : SameCall(ToolCalls(a.slots)[k], r.calls[c], c)
<1> DEFINE S == DOMAIN a.slots
           calls == ToolCalls(a.slots)
<1>1. r \in Replies /\ Len(r.calls) \in Nat /\ DOMAIN r.calls = 1..Len(r.calls)
  BY ReplyType DEF StreamOf
<1>2. \A o \in 1..Len(r.calls) : r.calls[o] \in Requests
  BY <1>1, ReplyType
<1>3. \A k \in DOMAIN calls : \E p \in 0..Len(r.calls[Ordered(S)[k]].args) :
            /\ calls[k] = MadeOf(r.calls[Ordered(S)[k]], Ordered(S)[k], p)
            /\ l[Ordered(S)[k]] = Rest(r.calls[Ordered(S)[k]], Ordered(S)[k], p)
  BY ToolCallsOf
<1>4. ASSUME NEW k \in DOMAIN calls, Parses(calls[k].args)
      PROVE  \E c \in DOMAIN r.calls : SameCall(calls[k], r.calls[c], c)
  <2> DEFINE c == Ordered(S)[k]
  <2>1. /\ c \in 1..Len(r.calls)
        /\ \E p \in 0..Len(r.calls[c].args) : calls[k] = MadeOf(r.calls[c], c, p)
    <3>1. c \in 1..Len(r.calls)
      BY ToolCallsOf
    <3>2. \E p \in 0..Len(r.calls[c].args) :
              calls[k] = MadeOf(r.calls[c], c, p) /\ l[c] = Rest(r.calls[c], c, p)
      BY <1>3
    <3> HIDE DEF S, calls, c
    <3>3. QED
      BY <3>1, <3>2
  <2> HIDE DEF c
  <2>2. PICK o \in 1..Len(r.calls) :
            \E p \in 0..Len(r.calls[o].args) : calls[k] = MadeOf(r.calls[o], o, p)
    BY <2>1
  <2>3. PICK p \in 0..Len(r.calls[o].args) : calls[k] = MadeOf(r.calls[o], o, p)
    BY <2>2
  <2>4. calls[k].args = SubSeq(r.calls[o].args, 1, p)
    BY <2>3 DEF MadeOf
  <2>5. p = Len(r.calls[o].args)
    BY <1>1, <1>4, <2>4, ParsedWhole
  <2>6. QED
    BY <1>1, <1>2, <2>3, <2>5, MadeWhole
<1>5. ASSUME AllSent(l)
      PROVE  Len(calls) = Len(r.calls) /\ \A k \in DOMAIN calls : SameCall(calls[k], r.calls[k], k)
  <2>1. S \subseteq 1..Len(r.calls) /\ DOMAIN l = 0..Len(r.calls)
        /\ \A o \in 1..Len(r.calls) : Half(r.calls[o], o, l[o], a.slots)
    BY DEF StreamOf
  <2>2. ASSUME NEW o \in 1..Len(r.calls) PROVE l[o] = <<>> /\ o \in S
    <3>1. l[o] = <<>>
      BY <1>1, <1>5, <2>1 DEF AllSent
    <3>2. l[o] # Fragments(o, r.calls[o])
      BY <1>2, <3>1, FragmentsParts
    <3>3. QED
      BY <2>1, <3>1, <3>2 DEF Half
  <2>3. S = 1..Len(r.calls)
    BY <2>1, <2>2
  <2>4. /\ Cardinality(S) = Len(r.calls)
        /\ \A k \in 1..Len(r.calls) : Ordered(S)[k] = k
    BY <1>1, <2>3, CountingUp, OrderedSet
  <2>5. Len(calls) = Len(r.calls) /\ DOMAIN calls = 1..Len(r.calls)
    BY <2>4, ToolCallsType, ToolCallsOf
  <2>6. ASSUME NEW k \in 1..Len(r.calls) PROVE SameCall(calls[k], r.calls[k], k)
    <3>1. Ordered(S)[k] = k /\ k \in DOMAIN calls
      BY <2>4, <2>5
    <3>2. \E p \in 0..Len(r.calls[Ordered(S)[k]].args) :
            /\ calls[k] = MadeOf(r.calls[Ordered(S)[k]], Ordered(S)[k], p)
            /\ l[Ordered(S)[k]] = Rest(r.calls[Ordered(S)[k]], Ordered(S)[k], p)
      BY <1>3, <3>1
    <3>3. PICK p \in 0..Len(r.calls[k].args) :
            calls[k] = MadeOf(r.calls[k], k, p) /\ l[k] = Rest(r.calls[k], k, p)
      BY <3>1, <3>2
    <3>4. p = Len(r.calls[k].args)
      BY <1>2, <2>2, <3>3, RestParts
    <3>5. QED
      BY <1>2, <3>3, <3>4, MadeWhole
  <2>7. QED
    BY <2>5, <2>6
<1>6. QED
  BY <1>4, <1>5

-----------------------------------------------------------------------------
(* A conversation as it grows.                                             *)

(* The calls of a message.                                                 *)
LEMMA MessageType ==
    ASSUME NEW x \in Messages
    PROVE  x.calls \in Seq(Slots) /\ Len(x.calls) \in Nat /\ DOMAIN x.calls = 1..Len(x.calls)
BY DEF Messages

(* A conversation with one more message.                                   *)
LEMMA Appended ==
    ASSUME NEW m \in Seq(Messages), NEW x \in Messages
    PROVE  /\ Append(m, x) \in Seq(Messages) /\ Len(m) \in Nat /\ Len(Append(m, x)) = Len(m) + 1
           /\ DOMAIN m = 1..Len(m) /\ DOMAIN Append(m, x) = 1..Len(m) + 1
           /\ \A i \in 1..Len(m) : Append(m, x)[i] = m[i]
           /\ Append(m, x)[Len(m) + 1] = x
OBVIOUS

(* The opening needs no answers.                                           *)
LEMMA OpeningAnswered ==
    /\ Opening \in Seq(Messages) /\ Turns(Opening) = {}
    /\ Answered(Opening) /\ ClosedUpTo(Opening, Len(Opening) + 1)
    /\ \A i \in DOMAIN Opening : Opening[i].content = Done
<1>1. /\ DOMAIN Opening = {1, 2} /\ Opening[1] = Message("system", <<>>, <<>>)
      /\ Opening[2] = Message("user", <<>>, <<>>)
  BY DEF Opening
<1>2. \A role \in {"system", "user"} :
          /\ Message(role, <<>>, <<>>) \in Messages /\ Message(role, <<>>, <<>>).role = role
          /\ Message(role, <<>>, <<>>).content = Done
  <2>1. <<>> \in Seq(STRING) /\ <<>> \in Seq(Slots) /\ NoId \in Ids
        /\ Done \in Contents \cup {Done, Error}
    BY DEF Ids
  <2>2. QED
    BY <2>1 DEF Message, Messages
<1>3. Opening \in Seq(Messages)
  BY <1>2 DEF Opening
<1>4. \A i \in DOMAIN Opening : Opening[i].role \in {"system", "user"} /\ Opening[i].content = Done
  BY <1>1, <1>2
<1>5. QED
  BY <1>3, <1>4 DEF Answered, ClosedUpTo, Turns

(* An assistant turn opens at the end.                                     *)
LEMMA TurnOpened ==
    ASSUME NEW m \in Seq(Messages), Answered(m), ClosedUpTo(m, Len(m) + 1),
           NEW x \in Messages, x.role = "assistant",
           \A k, l \in DOMAIN x.calls : x.calls[k].id = x.calls[l].id => k = l
    PROVE  Answered(Append(m, x)) /\ OpenAt(Append(m, x), Len(m) + 1, x.calls)
<1> DEFINE n == Len(m)
           next == Append(m, x)
<1>1. /\ n \in Nat /\ Len(next) = n + 1 /\ DOMAIN m = 1..n /\ DOMAIN next = 1..n + 1
      /\ (\A i \in 1..n : next[i] = m[i]) /\ next[n + 1] = x
  BY Appended
<1>2. \A i \in 1..n + 1 : i \in 1..n \/ i = n + 1
  BY <1>1
<1>3. \A i \in 1..n : m[i].calls \in Seq(Slots) /\ Len(m[i].calls) \in Nat
                      /\ DOMAIN m[i].calls = 1..Len(m[i].calls)
  <2>1. \A i \in 1..n : m[i] \in Messages
    BY <1>1
  <2>2. QED
    BY <2>1, MessageType
<1>4. x.calls \in Seq(Slots) /\ Len(x.calls) \in Nat /\ DOMAIN x.calls = 1..Len(x.calls)
  BY MessageType
<1> HIDE DEF n, next
<1>5. \A i \in 1..n : m[i].role = "assistant" => m[i].calls # <<>> /\ i + Len(m[i].calls) < n + 1
  BY <1>1 DEF ClosedUpTo, n
<1>6. ASSUME NEW i \in 1..n + 1, next[i].role = "assistant"
      PROVE  /\ \A k \in DOMAIN next[i].calls : i + k \in DOMAIN next =>
                   next[i + k].role = "tool" /\ next[i + k].answers = next[i].calls[k].id
             /\ \A k, l \in DOMAIN next[i].calls :
                   next[i].calls[k].id = next[i].calls[l].id => k = l
  <2>1. CASE i = n + 1
    <3>1. \A k \in DOMAIN x.calls : i + k \notin DOMAIN next
      BY <1>1, <1>4, <2>1
    <3>2. QED
      BY <1>1, <2>1, <3>1
  <2>2. CASE i \in 1..n
    <3>1. /\ next[i] = m[i] /\ m[i].role = "assistant"
      BY <1>1, <1>6, <2>2
    <3>2. \A k \in DOMAIN m[i].calls : i + k \in 1..n
      BY <1>1, <1>3, <1>5, <2>2, <3>1
    <3>3. QED
      BY <1>1, <2>2, <3>1, <3>2 DEF Answered
  <2>3. QED
    BY <1>2, <2>1, <2>2
<1>7. ASSUME NEW j \in 1..n + 1, next[j].role = "tool"
      PROVE  \E i \in 1..j - 1 : next[i].role = "assistant" /\ j \in i + 1..i + Len(next[i].calls)
  <2>1. j \in 1..n /\ m[j].role = "tool"
    BY <1>1, <1>2, <1>7
  <2>2. PICK i \in 1..j - 1 : m[i].role = "assistant" /\ j \in i + 1..i + Len(m[i].calls)
    BY <1>1, <2>1 DEF Answered
  <2>3. i \in 1..n
    BY <1>1, <2>1
  <2>4. next[i] = m[i]
    BY <1>1, <2>3
  <2>5. QED
    BY <2>2, <2>4
<1>8. Answered(next)
  BY <1>1, <1>6, <1>7 DEF Answered
<1>9. ClosedUpTo(next, n + 1)
  BY <1>1, <1>2, <1>5 DEF ClosedUpTo
<1>10. OpenAt(next, n + 1, x.calls)
  BY <1>1, <1>4, <1>9 DEF OpenAt
<1>11. QED
  BY <1>8, <1>10 DEF n, next

(* The next call of the open turn is answered at the end.                  *)
LEMMA CallAnswered ==
    ASSUME NEW m \in Seq(Messages), Answered(m), NEW o, NEW rest \in Seq(Slots), OpenAt(m, o, rest),
           rest # <<>>, NEW x \in Messages, x.role = "tool", x.answers = Head(rest).id
    PROVE  Answered(Append(m, x)) /\ OpenAt(Append(m, x), o, Tail(rest))
<1> DEFINE n == Len(m)
           next == Append(m, x)
           calls == m[o].calls
<1>1. /\ n \in Nat /\ Len(next) = n + 1 /\ DOMAIN m = 1..n /\ DOMAIN next = 1..n + 1
      /\ (\A i \in 1..n : next[i] = m[i]) /\ next[n + 1] = x
  BY Appended
<1>2. \A i \in 1..n + 1 : i \in 1..n \/ i = n + 1
  BY <1>1
<1>3. \A i \in 1..n : m[i].calls \in Seq(Slots) /\ Len(m[i].calls) \in Nat
                      /\ DOMAIN m[i].calls = 1..Len(m[i].calls)
  <2>1. \A i \in 1..n : m[i] \in Messages
    BY <1>1
  <2>2. QED
    BY <2>1, MessageType
<1>4. /\ o \in 1..n /\ m[o].role = "assistant" /\ Len(rest) = Len(calls) - (n - o)
      /\ \A k \in DOMAIN rest : rest[k] = calls[n - o + k]
      /\ \A i \in 1..n : m[i].role = "assistant" /\ i # o =>
            m[i].calls # <<>> /\ i + Len(m[i].calls) < o
  BY <1>1 DEF OpenAt, ClosedUpTo
<1>5. /\ Len(rest) \in Nat /\ Len(rest) >= 1 /\ DOMAIN rest = 1..Len(rest) /\ Head(rest) = rest[1]
      /\ Tail(rest) \in Seq(Slots) /\ Len(Tail(rest)) = Len(rest) - 1
      /\ DOMAIN Tail(rest) = 1..Len(rest) - 1
      /\ \A k \in 1..Len(rest) - 1 : Tail(rest)[k] = rest[k + 1]
  BY HeadTailProperties
<1>6. Len(calls) \in Nat /\ DOMAIN calls = 1..Len(calls)
  BY <1>3, <1>4
<1> HIDE DEF n, next
<1>7. x.answers = calls[n - o + 1].id /\ n - o + 1 \in 1..Len(calls)
  <2>1. n - o + 1 \in 1..Len(calls)
    BY <1>1, <1>4, <1>5, <1>6
  <2>2. rest[1] = calls[n - o + 1]
    BY <1>4, <1>5
  <2>3. QED
    BY <1>5, <2>1, <2>2
<1>8. ASSUME NEW i \in 1..n + 1, next[i].role = "assistant"
      PROVE  /\ \A k \in DOMAIN next[i].calls : i + k \in DOMAIN next =>
                   next[i + k].role = "tool" /\ next[i + k].answers = next[i].calls[k].id
             /\ \A k, l \in DOMAIN next[i].calls :
                   next[i].calls[k].id = next[i].calls[l].id => k = l
  <2>1. i \in 1..n /\ next[i] = m[i] /\ m[i].role = "assistant"
    BY <1>1, <1>2, <1>8
  <2>2. ASSUME NEW k \in DOMAIN m[i].calls, i + k \in 1..n + 1
        PROVE  next[i + k].role = "tool" /\ next[i + k].answers = m[i].calls[k].id
    <3>1. CASE i + k \in 1..n
      BY <1>1, <2>1, <2>2, <3>1 DEF Answered
    <3>2. CASE i + k = n + 1
      <4>1. k \in 1..Len(m[i].calls) /\ Len(m[i].calls) \in Nat
        BY <1>3, <2>1
      <4>2. i = o
        BY <1>1, <1>4, <2>1, <3>2, <4>1
      <4>3. k = n - o + 1
        BY <1>1, <1>4, <3>2, <4>1, <4>2
      <4>4. QED
        BY <1>1, <1>7, <3>2, <4>2, <4>3
    <3>3. QED
      BY <1>2, <2>2, <3>1, <3>2
  <2>3. QED
    BY <1>1, <2>1, <2>2 DEF Answered
<1>9. ASSUME NEW j \in 1..n + 1, next[j].role = "tool"
      PROVE  \E i \in 1..j - 1 : next[i].role = "assistant" /\ j \in i + 1..i + Len(next[i].calls)
  <2>1. CASE j \in 1..n
    <3>1. m[j].role = "tool"
      BY <1>1, <1>9, <2>1
    <3>2. PICK i \in 1..j - 1 : m[i].role = "assistant" /\ j \in i + 1..i + Len(m[i].calls)
      BY <1>1, <2>1, <3>1 DEF Answered
    <3>3. i \in 1..n
      BY <1>1, <2>1
    <3>4. next[i] = m[i]
      BY <1>1, <3>3
    <3>5. QED
      BY <3>2, <3>4
  <2>2. CASE j = n + 1
    <3>1. o \in 1..j - 1 /\ next[o] = m[o]
      BY <1>1, <1>4, <2>2
    <3>2. j \in o + 1..o + Len(calls)
      BY <1>1, <1>4, <1>6, <1>7, <2>2
    <3>3. QED
      BY <1>4, <3>1, <3>2
  <2>3. QED
    BY <1>2, <2>1, <2>2
<1>10. Answered(next)
  BY <1>1, <1>8, <1>9 DEF Answered
<1>11. ClosedUpTo(next, o)
  BY <1>1, <1>2, <1>4, <1>7 DEF ClosedUpTo
<1>12. OpenAt(next, o, Tail(rest))
  <2>1. o \in 1..n + 1 /\ next[o] = m[o]
    BY <1>1, <1>4
  <2>2. Len(Tail(rest)) = Len(calls) - (n + 1 - o)
    BY <1>1, <1>4, <1>5, <1>6
  <2>3. ASSUME NEW k \in 1..Len(rest) - 1 PROVE Tail(rest)[k] = calls[n + 1 - o + k]
    <3>1. k + 1 \in 1..Len(rest) /\ n - o + (k + 1) = n + 1 - o + k
      BY <1>1, <1>4, <1>5
    <3>2. QED
      BY <1>4, <1>5, <3>1
  <2>4. \A k \in DOMAIN Tail(rest) : Tail(rest)[k] = next[o].calls[Len(next) - o + k]
    BY <1>1, <1>5, <2>1, <2>3
  <2>5. o \in DOMAIN next /\ next[o].role = "assistant"
        /\ Len(Tail(rest)) = Len(next[o].calls) - (Len(next) - o)
    BY <1>1, <1>4, <2>1, <2>2
  <2>6. QED
    BY <1>11, <2>4, <2>5 DEF OpenAt
<1>13. QED
  BY <1>10, <1>12 DEF next

(* When its last call is answered the turn is closed.                      *)
LEMMA TurnClosed ==
    ASSUME NEW m \in Seq(Messages), NEW o, OpenAt(m, o, <<>>), m[o].calls # <<>>
    PROVE  ClosedUpTo(m, Len(m) + 1)
<1> DEFINE n == Len(m)
<1>1. n \in Nat /\ DOMAIN m = 1..n /\ \A i \in 1..n : m[i] \in Messages
  OBVIOUS
<1>2. o \in 1..n /\ Len(<<>>) = Len(m[o].calls) - (n - o) /\ ClosedUpTo(m, o)
  BY <1>1 DEF OpenAt
<1> HIDE DEF n
<1>3. ASSUME NEW i \in 1..n PROVE Len(m[i].calls) \in Nat
  BY <1>1, MessageType
<1>4. o + Len(m[o].calls) = n
  <2>1. Len(m[o].calls) \in Nat
    BY <1>2, <1>3
  <2>2. 0 = Len(m[o].calls) - (n - o)
    BY <1>2
  <2>3. QED
    BY <1>1, <1>2, <2>1, <2>2
<1>5. ASSUME NEW i \in 1..n, m[i].role = "assistant"
      PROVE  m[i].calls # <<>> /\ i + Len(m[i].calls) < n + 1
  <2>1. CASE i = o
    BY <1>1, <1>4, <2>1
  <2>2. CASE i # o
    <3>1. m[i].calls # <<>> /\ i + Len(m[i].calls) < o
      BY <1>1, <1>2, <1>5, <2>2 DEF ClosedUpTo
    <3>2. QED
      BY <1>1, <1>2, <1>3, <3>1
  <2>3. QED
    BY <2>1, <2>2
<1>6. QED
  BY <1>1, <1>5 DEF ClosedUpTo, n

(* The open turn is the assistant's last.                                  *)
LEMMA OpenIsLast ==
    ASSUME NEW m \in Seq(Messages), NEW o, NEW rest, OpenAt(m, o, rest)
    PROVE  Max(Turns(m)) = o
<1>1. DOMAIN m = 1..Len(m) /\ Len(m) \in Nat /\ o \in Turns(m) /\ ClosedUpTo(m, o)
  BY DEF OpenAt, Turns
<1>2. ASSUME NEW i \in Turns(m) PROVE i <= o /\ i \in Nat
  <2>1. i \in DOMAIN m /\ m[i].role = "assistant" /\ i \in Nat /\ o \in Nat
    BY <1>1 DEF Turns
  <2>2. m[i] \in Messages
    BY <2>1
  <2>3. Len(m[i].calls) \in Nat
    BY <2>2, MessageType
  <2>4. i # o => i + Len(m[i].calls) < o
    BY <1>1, <2>1 DEF ClosedUpTo
  <2>5. QED
    BY <2>1, <2>3, <2>4
<1>3. \A i \in Turns(m) : (\A j \in Turns(m) : i >= j) => i = o
  BY <1>1, <1>2
<1>4. o \in Turns(m) /\ \A j \in Turns(m) : o >= j
  BY <1>1, <1>2
<1>5. QED
  BY <1>3, <1>4 DEF Max

(* The number of the assistant's turns, as messages are added.             *)
LEMMA TurnsCounted ==
    ASSUME NEW m \in Seq(Messages), NEW x \in Messages
    PROVE  /\ Cardinality(Turns(m)) \in Nat
           /\ Cardinality(Turns(Append(m, x))) =
                  Cardinality(Turns(m)) + (IF x.role = "assistant" THEN 1 ELSE 0)
<1>1. /\ Len(m) \in Nat /\ DOMAIN m = 1..Len(m) /\ DOMAIN Append(m, x) = 1..Len(m) + 1
      /\ (\A i \in 1..Len(m) : Append(m, x)[i] = m[i]) /\ Append(m, x)[Len(m) + 1] = x
  BY Appended
<1>2. Turns(m) \in SUBSET (1..Len(m))
  BY <1>1 DEF Turns
<1>3. IsFiniteSet(Turns(m)) /\ Cardinality(Turns(m)) \in Nat
  BY <1>1, <1>2, CountingUp, FS_Subset, FS_CardinalityType
<1>4. \A i \in 1..Len(m) + 1 : i \in 1..Len(m) \/ i = Len(m) + 1
  BY <1>1
<1>5. CASE x.role = "assistant"
  <2>1. Turns(Append(m, x)) = Turns(m) \cup {Len(m) + 1}
    BY <1>1, <1>4, <1>5 DEF Turns
  <2>2. Len(m) + 1 \notin Turns(m)
    BY <1>1, <1>2
  <2>3. QED
    BY <1>3, <1>5, <2>1, <2>2, FS_AddElement
<1>6. CASE x.role # "assistant"
  <2>1. Turns(Append(m, x)) = Turns(m)
    BY <1>1, <1>4, <1>6 DEF Turns
  <2>2. QED
    BY <1>3, <1>6, <2>1
<1>7. QED
  BY <1>5, <1>6
-----------------------------------------------------------------------------
(* The agents, one step at a time.                                         *)

(* A step leaves an agent alone.                                           *)
Kept(t) ==
    /\ pc'[t] = pc[t] /\ step'[t] = step[t] /\ reply'[t] = reply[t] /\ left'[t] = left[t]
    /\ acc'[t] = acc[t] /\ conv'[t] = conv[t] /\ todo'[t] = todo[t] /\ turns'[t] = turns[t]
    /\ finished'[t] = finished[t] /\ raised'[t] = raised[t] /\ tries'[t] = tries[t]

(* Which keeps what is said of it.                                         *)
LEMMA KeptInv == ASSUME NEW t \in Tasks, Kept(t), AgentInv(t) PROVE AgentInv(t)'
<1>1. Streamed(t)'
  BY DEF Kept, AgentInv, Streamed, InReply
<1>2. Conversed(t)'
  BY DEF Kept, AgentInv, Conversed
<1>3. Counted(t)'
  BY DEF Kept, AgentInv, Counted, Spoken
<1>4. QED
  BY <1>1, <1>2, <1>3 DEF AgentInv

(* What Continue does to the agent, and to the others.                     *)
LEMMA Continued ==
    ASSUME RunType, NEW t \in Tasks, NEW n \in Nat, Continue(t, n)
    PROVE  /\ pc' \in [Tasks -> Phases]
           /\ step' \in [Tasks -> 1..MaxSteps] /\ turns' \in [Tasks -> Seq(Nat)]
           /\ finished' \in [Tasks -> BOOLEAN]
           /\ DOMAIN reply' = Tasks /\ DOMAIN left' = Tasks /\ DOMAIN acc' = Tasks
           /\ \A u \in Tasks : u # t =>
                 /\ pc'[u] = pc[u] /\ step'[u] = step[u] /\ reply'[u] = reply[u]
                 /\ left'[u] = left[u] /\ acc'[u] = acc[u] /\ turns'[u] = turns[u]
                 /\ finished'[u] = finished[u]
           /\ todo'[t] # <<>> =>
                 /\ pc'[t] = "calling" /\ step'[t] = step[t] /\ reply'[t] = reply[t]
                 /\ left'[t] = left[t] /\ acc'[t] = acc[t] /\ turns'[t] = turns[t]
           /\ todo'[t] = <<>> =>
                 /\ turns'[t] = Append(turns[t], n) /\ (finished'[t] <=> n = 0)
                 /\ IF n = 0 \/ LastStep(t) THEN pc'[t] = "done" /\ step'[t] = step[t]
                    ELSE pc'[t] = "asking" /\ step'[t] = step[t] + 1
<1>1. CASE todo'[t] # <<>>
  BY <1>1 DEF Continue, RunType
<1>2. CASE todo'[t] = <<>>
  <2>1. /\ turns' = [turns EXCEPT ![t] = Append(@, n)]
        /\ finished' = [finished EXCEPT ![t] = n = 0]
        /\ reply' = [reply EXCEPT ![t] = NoReply] /\ left' = [left EXCEPT ![t] = Pieces(NoReply)]
        /\ acc' = [acc EXCEPT ![t] = Nothing]
    BY <1>2 DEF Continue, Forget
  <2>2. /\ turns' \in [Tasks -> Seq(Nat)] /\ turns'[t] = Append(turns[t], n)
        /\ \A u \in Tasks : u # t => turns'[u] = turns[u]
    BY <2>1 DEF RunType
  <2>3. /\ finished' \in [Tasks -> BOOLEAN] /\ finished'[t] = (n = 0)
        /\ \A u \in Tasks : u # t => finished'[u] = finished[u]
    BY <2>1 DEF RunType
  <2>4. /\ DOMAIN reply' = Tasks /\ DOMAIN left' = Tasks /\ DOMAIN acc' = Tasks
        /\ \A u \in Tasks : u # t => reply'[u] = reply[u] /\ left'[u] = left[u] /\ acc'[u] = acc[u]
    BY <2>1 DEF RunType
  <2>5. /\ pc' \in [Tasks -> Phases]
        /\ step' \in [Tasks -> 1..MaxSteps]
        /\ \A u \in Tasks : u # t => pc'[u] = pc[u] /\ step'[u] = step[u]
        /\ IF n = 0 \/ LastStep(t) THEN pc'[t] = "done" /\ step'[t] = step[t]
           ELSE pc'[t] = "asking" /\ step'[t] = step[t] + 1
    <3>1. CASE n = 0 \/ LastStep(t)
      <4>1. pc' = [pc EXCEPT ![t] = "done"] /\ step' = step
        BY <1>2, <3>1 DEF Continue
      <4>2. QED
        BY <3>1, <4>1 DEF RunType
    <3>2. CASE ~(n = 0 \/ LastStep(t))
      <4>1. pc' = [pc EXCEPT ![t] = "asking"] /\ step' = [step EXCEPT ![t] = @ + 1]
        BY <1>2, <3>2 DEF Continue
      <4>2. step[t] + 1 \in 1..MaxSteps
        BY <3>2, AgentAssumption DEF LastStep, RunType
      <4>3. QED
        BY <3>2, <4>1, <4>2 DEF RunType
    <3>3. QED
      BY <3>1, <3>2
  <2>6. QED
    BY <1>2, <2>2, <2>3, <2>4, <2>5
<1>3. QED
  BY <1>1, <1>2

(* The calls of a reply under way.                                         *)
LEMMA CallsKnown ==
    ASSUME NEW t \in Tasks, AgentInv(t), InReply(t)
    PROVE  /\ ToolCalls(acc[t].slots) \in Seq(Slots) /\ CallsMade(t) \in Nat
           /\ Len(ToolCalls(acc[t].slots)) = CallsMade(t)
           /\ \A k, l \in DOMAIN ToolCalls(acc[t].slots) :
                 ToolCalls(acc[t].slots)[k].id = ToolCalls(acc[t].slots)[l].id => k = l
<1>1. StreamOf(reply[t], left[t], acc[t])
  BY DEF AgentInv, Streamed
<1>2. CallsMade(t) \in Nat
  BY <1>1, ToolCallsOf DEF CallsMade
<1>3. QED
  BY <1>1, <1>2, ToolCallsType DEF CallsMade

(* The others are left alone.                                              *)
LEMMA OthersKept ==
    ASSUME RunType, NEW t \in Tasks, AgentInv(t), AgentStep(t)
    PROVE  /\ main = "agents" /\ loop = "open" /\ AgentFrame
           /\ \A u \in Tasks : u # t => Kept(u)
<1>1. main = "agents" /\ loop = "open" /\ AgentFrame
  BY DEF AgentStep, Retry, Answer, NextChunk, EndOfStream, RunTool, StartShell, ShellEnds, Fail, Active
<1> SUFFICES ASSUME NEW u \in Tasks, u # t PROVE Kept(u)
  BY <1>1
<1>2. CASE Answer(t)
  BY <1>2 DEF Answer, Kept, RunType
<1>3. CASE NextChunk(t)
  BY <1>3 DEF NextChunk, Kept, RunType
<1>4. CASE EndOfStream(t)
  <2>1. Len(ToolCalls(acc[t].slots)) \in Nat
    BY <1>4, CallsKnown DEF EndOfStream, InReply
  <2>2. Continue(t, Len(ToolCalls(acc[t].slots)))
    BY <1>4 DEF EndOfStream
  <2>3. conv'[u] = conv[u] /\ todo'[u] = todo[u] /\ raised'[u] = raised[u] /\ tries'[u] = tries[u]
    BY <1>4 DEF EndOfStream, RunType
  <2>4. QED
    BY <2>1, <2>2, <2>3, Continued DEF Kept
<1>5. CASE RunTool(t)
  <2>1. CallsMade(t) \in Nat
    BY <1>5, CallsKnown DEF RunTool, InReply
  <2>2. Continue(t, CallsMade(t))
    BY <1>5 DEF RunTool
  <2>3. conv'[u] = conv[u] /\ todo'[u] = todo[u] /\ raised'[u] = raised[u] /\ tries'[u] = tries[u]
    BY <1>5 DEF RunTool, AnswerCall, ToolFrame, RunType
  <2>4. QED
    BY <2>1, <2>2, <2>3, Continued DEF Kept
<1>6. CASE StartShell(t)
  BY <1>6 DEF StartShell, ToolFrame, Kept, RunType
<1>7. CASE ShellEnds(t)
  <2>1. CallsMade(t) \in Nat
    BY <1>7, CallsKnown DEF ShellEnds, InReply
  <2>2. Continue(t, CallsMade(t))
    BY <1>7 DEF ShellEnds
  <2>3. conv'[u] = conv[u] /\ todo'[u] = todo[u] /\ raised'[u] = raised[u] /\ tries'[u] = tries[u]
    BY <1>7 DEF ShellEnds, AnswerCall, ToolFrame, RunType
  <2>4. QED
    BY <2>1, <2>2, <2>3, Continued DEF Kept
<1>8. CASE Fail(t)
  BY <1>8 DEF Fail, Forget, Kept, RunType
<1>9. CASE Retry(t)
  BY <1>9 DEF Retry, Kept, RunType
<1>10. QED
  BY <1>2, <1>3, <1>4, <1>5, <1>6, <1>7, <1>8, <1>9 DEF AgentStep
(* What is said in a turn.                                                 *)
LEMMA Said ==
    /\ \A text \in Seq(STRING), calls \in Seq(Slots) :
          LET x == Message("assistant", text, calls)
          IN  x \in Messages /\ x.role = "assistant" /\ x.calls = calls /\ x.content = Done
    /\ \A call \in Slots, content \in Contents \cup {Done, Error} :
          LET x == ToolMessage(call, content)
          IN  x \in Messages /\ x.role = "tool" /\ x.answers = call.id /\ x.content = content
<1>1. \A call \in Slots : call.id \in Ids
  BY DEF Slots, Ids
<1>2. /\ NoId \in Ids /\ Done \in Contents \cup {Done, Error}
      /\ <<>> \in Seq(STRING) /\ <<>> \in Seq(Slots)
  BY DEF Ids
<1>3. QED
  BY <1>1, <1>2 DEF Message, ToolMessage, Messages

(* A tool answers with Done, an error, or a file in its reach.             *)
LEMMA ToolSays ==
    ASSUME RunType, NEW t \in Tasks, NEW call, NEW content \in ToolContent(t, call)
    PROVE  /\ content \in {Done, Error} \/ \E d \in Dirs : Begins(t, d) /\ content = workspace[d]
           /\ content \in Contents \cup {Done, Error}
BY DEF ToolContent, Reach, SafePath, Dir, RunType

(* A tool writes at most one file, in its reach.                           *)
LEMMA ToolChanges ==
    ASSUME NEW t \in Tasks, NEW call, NEW content, workspace' \in ToolWrites(t, call, content)
    PROVE  \/ workspace' = workspace
           \/ \E d \in Dirs : /\ Begins(t, d)
                              /\ workspace' = [workspace EXCEPT ![d] = Written(t, d)]
BY DEF ToolWrites, Reach, SafePath, Dir

(* The first call that is left.                                            *)
LEMMA NextCall ==
    ASSUME RunType, NEW t \in Tasks, AgentInv(t), pc[t] \in {"calling", "shell"}
    PROVE  todo[t] \in Seq(Slots) /\ todo[t] # <<>> /\ Head(todo[t]) \in Slots
           /\ Tail(todo[t]) \in Seq(Slots)
<1>1. todo[t] \in Seq(Slots) /\ todo[t] # <<>>
  BY DEF RunType, AgentInv, Conversed
<1>2. QED
  BY <1>1, HeadTailProperties

(* The end of a reply keeps what is said of its agent.                     *)
LEMMA ReplyEnds ==
    ASSUME RunType, NEW t \in Tasks, AgentInv(t), EndOfStream(t)
    PROVE  AgentInv(t)'
<1> DEFINE m == conv[t]
           calls == ToolCalls(acc[t].slots)
           x == Message("assistant", acc[t].text, calls)
<1>1. InReply(t) /\ pc[t] = "streaming" /\ raised' = raised
  BY DEF EndOfStream, InReply
<1>2. calls \in Seq(Slots) /\ \A k, l \in DOMAIN calls : calls[k].id = calls[l].id => k = l
  BY <1>1, CallsKnown
<1>3. acc[t].text \in Seq(STRING)
  BY <1>1 DEF AgentInv, Streamed, StreamOf
<1>4. x \in Messages /\ x.role = "assistant" /\ x.calls = calls
  BY <1>2, <1>3, Said
<1>5. conv' = [conv EXCEPT ![t] = Append(@, x)] /\ todo' = [todo EXCEPT ![t] = calls]
      /\ Continue(t, Len(calls))
  BY DEF EndOfStream
<1>6. m \in Seq(Messages) /\ Answered(m) /\ ClosedUpTo(m, Len(m) + 1)
      /\ Spoken(t) = Len(turns[t]) /\ step[t] = Len(turns[t]) + 1 /\ raised[t] = "none"
      /\ turns[t] \in Seq(Nat)
  BY <1>1 DEF RunType, AgentInv, Conversed, Counted
<1>7. conv'[t] = Append(m, x) /\ todo'[t] = calls
  BY <1>5 DEF RunType
<1>8. Len(calls) \in Nat /\ (Len(calls) = 0 <=> calls = <<>>) /\ Len(turns[t]) \in Nat
  BY <1>2, <1>6
<1> HIDE DEF m, calls, x
<1>9. Answered(conv'[t]) /\ OpenAt(conv'[t], Len(m) + 1, calls) /\ Len(m) + 1 \in DOMAIN conv'[t]
      /\ conv'[t][Len(m) + 1] = x /\ conv'[t] # <<>> /\ Last(conv'[t]) = x
  <2>1. Answered(Append(m, x)) /\ OpenAt(Append(m, x), Len(m) + 1, calls)
    BY <1>2, <1>4, <1>6, TurnOpened
  <2>2. /\ Append(m, x) \in Seq(Messages) /\ Len(m) \in Nat /\ Len(Append(m, x)) = Len(m) + 1
        /\ DOMAIN Append(m, x) = 1..Len(m) + 1 /\ Append(m, x)[Len(m) + 1] = x
    BY <1>4, <1>6, Appended
  <2>3. QED
    BY <1>7, <2>1, <2>2 DEF Last
<1>10. Cardinality(Turns(conv'[t])) = Len(turns[t]) + 1
  BY <1>4, <1>6, <1>7, TurnsCounted DEF Spoken, m
<1>11. CASE calls # <<>>
  <2>1. /\ pc'[t] = "calling" /\ step'[t] = step[t] /\ reply'[t] = reply[t]
        /\ left'[t] = left[t] /\ acc'[t] = acc[t] /\ turns'[t] = turns[t]
    BY <1>5, <1>7, <1>8, <1>11, Continued
  <2>2. Streamed(t)'
    BY <1>1, <2>1 DEF AgentInv, Streamed, InReply
  <2>3. Conversed(t)'
    <3>1. conv'[t][Len(m) + 1].calls = ToolCalls(acc'[t].slots)
      BY <1>4, <1>9, <2>1 DEF calls
    <3>2. QED
      BY <1>7, <1>9, <1>11, <2>1, <3>1 DEF Conversed
  <2>4. Counted(t)'
    BY <1>1, <1>6, <1>8, <1>10, <2>1 DEF Counted, Spoken
  <2>5. QED
    BY <2>2, <2>3, <2>4 DEF AgentInv
<1>12. CASE calls = <<>>
  <2>1. turns'[t] = Append(turns[t], 0) /\ finished'[t] /\ pc'[t] = "done" /\ step'[t] = step[t]
    BY <1>5, <1>7, <1>8, <1>12, Continued
  <2>2. Len(turns'[t]) = Len(turns[t]) + 1
    BY <1>6, <2>1
  <2>3. Counted(t)'
    BY <1>1, <1>4, <1>6, <1>8, <1>9, <1>10, <2>1, <2>2 DEF Counted, Spoken
  <2>4. QED
    BY <2>1, <2>3 DEF AgentInv, Streamed, Conversed, InReply
<1>13. QED
  BY <1>11, <1>12

(* So does the answer of a tool.                                           *)
LEMMA CallDone ==
    ASSUME RunType, NEW t \in Tasks, AgentInv(t), pc[t] \in {"calling", "shell"},
           NEW content \in Contents \cup {Done, Error}, AnswerCall(t, content),
           Continue(t, CallsMade(t)), raised' = raised
    PROVE  AgentInv(t)'
<1> DEFINE m == conv[t]
           rest == todo[t]
           x == ToolMessage(Head(rest), content)
<1>1. rest \in Seq(Slots) /\ rest # <<>> /\ Head(rest) \in Slots /\ Tail(rest) \in Seq(Slots)
  BY NextCall
<1>2. x \in Messages /\ x.role = "tool" /\ x.answers = Head(rest).id
  BY <1>1, Said
<1>3. conv'[t] = Append(m, x) /\ todo'[t] = Tail(rest)
  BY DEF AnswerCall, RunType
<1>4. m \in Seq(Messages) /\ Answered(m)
      /\ Spoken(t) = Len(turns[t]) + 1 /\ step[t] = Spoken(t) /\ raised[t] = "none"
      /\ turns[t] \in Seq(Nat) /\ step[t] \in 1..MaxSteps
  BY DEF RunType, AgentInv, Conversed, Counted
<1>5. PICK o \in DOMAIN m : OpenAt(m, o, rest) /\ m[o].calls = ToolCalls(acc[t].slots)
  BY DEF AgentInv, Conversed
<1>6. InReply(t) /\ CallsMade(t) \in Nat /\ Len(ToolCalls(acc[t].slots)) = CallsMade(t)
  BY CallsKnown DEF InReply
<1> HIDE DEF m, rest, x
<1>7. Answered(conv'[t]) /\ OpenAt(conv'[t], o, Tail(rest))
  BY <1>1, <1>2, <1>3, <1>4, <1>5, CallAnswered
<1>8. /\ conv'[t] \in Seq(Messages) /\ Len(m) \in Nat /\ Len(conv'[t]) = Len(m) + 1
      /\ DOMAIN m = 1..Len(m) /\ DOMAIN conv'[t] = 1..Len(m) + 1
      /\ (\A i \in 1..Len(m) : conv'[t][i] = m[i]) /\ conv'[t][Len(m) + 1] = x
  BY <1>2, <1>3, <1>4, Appended
<1>9. o \in DOMAIN conv'[t] /\ conv'[t][o].calls = ToolCalls(acc[t].slots)
  BY <1>5, <1>8
<1>10. Cardinality(Turns(conv'[t])) = Len(turns[t]) + 1
  <2>1. Cardinality(Turns(m)) \in Nat
        /\ Cardinality(Turns(conv'[t])) = Cardinality(Turns(m)) + 0
    BY <1>2, <1>3, <1>4, TurnsCounted
  <2>2. QED
    BY <1>4, <2>1 DEF Spoken, m
<1>11. CallsMade(t) # 0
  <2>1. Len(rest) = CallsMade(t) - (Len(m) - o) /\ o <= Len(m) /\ o \in Nat
    BY <1>5, <1>6, <1>8 DEF OpenAt
  <2>2. Len(rest) \in Nat /\ Len(rest) # 0
    BY <1>1
  <2>3. QED
    BY <1>6, <1>8, <2>1, <2>2
<1>12. CASE Tail(rest) # <<>>
  <2>1. /\ pc'[t] = "calling" /\ step'[t] = step[t] /\ reply'[t] = reply[t]
        /\ left'[t] = left[t] /\ acc'[t] = acc[t] /\ turns'[t] = turns[t]
    BY <1>3, <1>6, <1>12, Continued
  <2>2. Streamed(t)'
    BY <1>6, <2>1 DEF AgentInv, Streamed, InReply
  <2>3. Conversed(t)'
    BY <1>3, <1>7, <1>9, <1>12, <2>1 DEF Conversed
  <2>4. Counted(t)'
    BY <1>4, <1>10, <2>1 DEF Counted, Spoken
  <2>5. QED
    BY <2>2, <2>3, <2>4 DEF AgentInv
<1>13. CASE Tail(rest) = <<>>
  <2>1. /\ turns'[t] = Append(turns[t], CallsMade(t)) /\ ~finished'[t]
        /\ IF LastStep(t) THEN pc'[t] = "done" /\ step'[t] = step[t]
           ELSE pc'[t] = "asking" /\ step'[t] = step[t] + 1
    BY <1>3, <1>6, <1>11, <1>13, Continued
  <2>2. Len(turns'[t]) = Len(turns[t]) + 1 /\ Len(turns[t]) \in Nat
    BY <1>4, <1>6, <2>1
  <2>3. conv'[t] # <<>> /\ Last(conv'[t]) = x
    BY <1>8 DEF Last
  <2>4. ClosedUpTo(conv'[t], Len(conv'[t]) + 1)
    <3>1. conv'[t][o].calls # <<>>
      BY <1>6, <1>9, <1>11
    <3>2. QED
      BY <1>7, <1>8, <1>13, <3>1, TurnClosed
  <2>5. CASE LastStep(t)
    <3>1. Counted(t)'
      BY <1>2, <1>4, <1>10, <2>1, <2>2, <2>3, <2>5 DEF Counted, Spoken, LastStep
    <3>2. QED
      BY <2>1, <2>5, <3>1 DEF AgentInv, Streamed, Conversed, InReply
  <2>6. CASE ~LastStep(t)
    <3>1. Counted(t)'
      BY <1>4, <1>10, <2>1, <2>2, <2>6 DEF Counted, Spoken
    <3>2. QED
      BY <1>7, <2>1, <2>4, <2>6, <3>1 DEF AgentInv, Streamed, Conversed, InReply
  <2>7. QED
    BY <2>5, <2>6
<1>14. QED
  BY <1>12, <1>13
(* Whatever an agent does keeps what is said of it.                        *)
LEMMA AgentInvKept ==
    ASSUME RunType, NEW t \in Tasks, AgentInv(t), AgentStep(t)
    PROVE  AgentInv(t)'
<1>1. CASE Answer(t)
  <2>1. PICK r \in Replies :
            reply' = [reply EXCEPT ![t] = r] /\ left' = [left EXCEPT ![t] = Pieces(r)]
    BY <1>1 DEF Answer
  <2>2. /\ pc[t] = "asking" /\ pc'[t] = "streaming" /\ reply'[t] = r /\ left'[t] = Pieces(r)
        /\ acc'[t] = Nothing /\ UNCHANGED <<step, conv, todo, turns, finished, raised>>
    BY <1>1, <2>1 DEF Answer, RunType
  <2>3. Streamed(t)'
    BY <2>2, StreamBegins DEF Streamed
  <2>4. Conversed(t)' /\ Counted(t)'
    BY <2>2 DEF AgentInv, Conversed, Counted, Spoken
  <2>5. QED
    BY <2>3, <2>4 DEF AgentInv
<1>2. CASE NextChunk(t)
  <2>1. PICK c \in DOMAIN left[t] :
          /\ left[t][c] # <<>>
          /\ \E chunk \in ChunksFrom(reply[t], left[t], c) :
                acc' = [acc EXCEPT ![t] = Consume(@, chunk)]
          /\ left' = [left EXCEPT ![t] = Sent(@, c)]
    BY <1>2 DEF NextChunk
  <2>2. PICK chunk \in ChunksFrom(reply[t], left[t], c) :
            acc' = [acc EXCEPT ![t] = Consume(@, chunk)]
    BY <2>1
  <2>3. /\ pc[t] = "streaming" /\ acc'[t] = Consume(acc[t], chunk) /\ left'[t] = Sent(left[t], c)
        /\ UNCHANGED <<pc, step, reply, conv, todo, turns, finished, raised>>
    BY <1>2, <2>1, <2>2 DEF NextChunk, RunType
  <2>4. StreamOf(reply[t], left[t], acc[t])
    BY <2>3 DEF AgentInv, Streamed, InReply
  <2>5. StreamOf(reply[t], Sent(left[t], c), Consume(acc[t], chunk))
    BY <2>1, <2>4, StreamStep
  <2>6. Streamed(t)'
    BY <2>3, <2>5 DEF Streamed
  <2>7. Conversed(t)' /\ Counted(t)'
    BY <2>3 DEF AgentInv, Conversed, Counted, Spoken
  <2>8. QED
    BY <2>6, <2>7 DEF AgentInv
<1>3. CASE EndOfStream(t)
  BY <1>3, ReplyEnds
<1>4. CASE RunTool(t)
  <2>1. PICK content \in ToolContent(t, Head(todo[t])) : AnswerCall(t, content)
    BY <1>4 DEF RunTool
  <2>2. content \in Contents \cup {Done, Error}
    BY ToolSays
  <2>3. pc[t] = "calling" /\ Continue(t, CallsMade(t)) /\ raised' = raised
    BY <1>4 DEF RunTool, ToolFrame
  <2>4. QED
    BY <2>1, <2>2, <2>3, CallDone
<1>5. CASE StartShell(t)
  <2>1. /\ pc[t] = "calling" /\ pc'[t] = "shell"
        /\ UNCHANGED <<step, reply, left, acc, conv, todo, turns, finished, raised>>
    BY <1>5 DEF StartShell, ToolFrame, RunType
  <2>2. Streamed(t)'
    BY <2>1 DEF AgentInv, Streamed, InReply
  <2>3. Conversed(t)' /\ Counted(t)'
    BY <2>1 DEF AgentInv, Conversed, Counted, Spoken
  <2>4. QED
    BY <2>2, <2>3 DEF AgentInv
<1>6. CASE ShellEnds(t)
  <2>1. PICK content \in {Anything, Error} : AnswerCall(t, content)
    BY <1>6 DEF ShellEnds
  <2>2. pc[t] = "shell" /\ Continue(t, CallsMade(t)) /\ raised' = raised
        /\ content \in Contents \cup {Done, Error}
    BY <1>6 DEF ShellEnds, ToolFrame, Contents
  <2>3. QED
    BY <2>1, <2>2, CallDone
<1>7. CASE Fail(t)
  <2>1. pc'[t] = "failed" /\ raised'[t] \in {"message", "empty"} /\ turns'[t] = <<>>
    BY <1>7 DEF Fail, RunType
  <2>2. QED
    BY <2>1 DEF AgentInv, Streamed, Conversed, Counted, InReply
<1>8. CASE Retry(t)
  <2>1. UNCHANGED <<pc, step, reply, left, acc, conv, todo, turns, finished, raised>>
    BY <1>8 DEF Retry
  <2>2. QED
    BY <2>1 DEF AgentInv, Streamed, Conversed, Counted, Spoken, InReply
<1>9. QED
  BY <1>1, <1>2, <1>3, <1>4, <1>5, <1>6, <1>7, <1>8 DEF AgentStep

(* The types of what an answer changes.                                    *)
LEMMA AnswerTyped ==
    ASSUME RunType, NEW t \in Tasks, AgentInv(t), pc[t] \in {"calling", "shell"},
           NEW content \in Contents \cup {Done, Error}, AnswerCall(t, content)
    PROVE  /\ conv' \in [Tasks -> Seq(Messages)] /\ todo' \in [Tasks -> Seq(Slots)]
           /\ conv'[t] = Append(conv[t], ToolMessage(Head(todo[t]), content))
           /\ ToolMessage(Head(todo[t]), content) \in Messages
           /\ ToolMessage(Head(todo[t]), content).content = content
<1> DEFINE x == ToolMessage(Head(todo[t]), content)
<1>1. Head(todo[t]) \in Slots /\ Tail(todo[t]) \in Seq(Slots)
  BY NextCall
<1>2. x \in Messages /\ x.content = content
  BY <1>1, Said
<1>3. conv' = [conv EXCEPT ![t] = Append(@, x)] /\ todo' = [todo EXCEPT ![t] = Tail(@)]
  BY DEF AnswerCall
<1> HIDE DEF x
<1>4. conv[t] \in Seq(Messages)
  BY DEF RunType
<1>5. Append(conv[t], x) \in Seq(Messages)
  BY <1>2, <1>4
<1>6. QED
  BY <1>1, <1>2, <1>3, <1>5 DEF RunType, x

(* An agent's steps keep the types.                                        *)
LEMMA AgentTyped ==
    ASSUME RunType, NEW t \in Tasks, AgentInv(t), AgentStep(t)
    PROVE  RunType'
<1>1. /\ UNCHANGED <<bank, metrics, main, start, end>>
  BY OthersKept DEF AgentFrame, config
<1>2. CASE Answer(t)
  <2>1. /\ pc' \in [Tasks -> Phases]
        /\ DOMAIN reply' = Tasks /\ DOMAIN left' = Tasks /\ DOMAIN acc' = Tasks /\ served' \in Nat
        /\ tries' \in [Tasks -> 0..SdkRetries]
    BY <1>2, AgentAssumption DEF Answer, RunType
  <2>2. UNCHANGED <<workspace, step, conv, todo, turns, finished, raised, faults>>
    BY <1>2 DEF Answer
  <2>3. QED
    BY <1>1, <2>1, <2>2 DEF RunType
<1>3. CASE NextChunk(t)
  <2>1. DOMAIN left' = Tasks /\ DOMAIN acc' = Tasks
    BY <1>3 DEF NextChunk, RunType
  <2>2. UNCHANGED <<workspace, pc, step, tries, reply, conv, todo, turns, finished, raised,
                    served, faults>>
    BY <1>3 DEF NextChunk
  <2>3. QED
    BY <1>1, <2>1, <2>2 DEF RunType
<1>4. CASE EndOfStream(t)
  <2> DEFINE calls == ToolCalls(acc[t].slots)
             x == Message("assistant", acc[t].text, calls)
  <2>1. InReply(t)
    BY <1>4 DEF EndOfStream, InReply
  <2>2. calls \in Seq(Slots) /\ Len(calls) \in Nat
    BY <2>1, CallsKnown
  <2>3. acc[t].text \in Seq(STRING)
    BY <2>1 DEF AgentInv, Streamed, StreamOf
  <2>4. x \in Messages
    BY <2>2, <2>3, Said
  <2>5. /\ conv' = [conv EXCEPT ![t] = Append(@, x)] /\ todo' = [todo EXCEPT ![t] = calls]
        /\ Continue(t, Len(calls)) /\ UNCHANGED <<workspace, tries, raised, served>>
        /\ faults' \in {faults, faults + 1}
    BY <1>4 DEF EndOfStream, Fault
  <2> HIDE DEF calls, x
  <2>6. Append(conv[t], x) \in Seq(Messages)
    <3>1. conv[t] \in Seq(Messages)
      BY DEF RunType
    <3>2. QED
      BY <2>4, <3>1
  <2>7. conv' \in [Tasks -> Seq(Messages)] /\ todo' \in [Tasks -> Seq(Slots)]
    BY <2>2, <2>5, <2>6 DEF RunType
  <2>8. /\ pc' \in [Tasks -> Phases]
        /\ step' \in [Tasks -> 1..MaxSteps] /\ turns' \in [Tasks -> Seq(Nat)]
        /\ finished' \in [Tasks -> BOOLEAN]
        /\ DOMAIN reply' = Tasks /\ DOMAIN left' = Tasks /\ DOMAIN acc' = Tasks
    BY <2>2, <2>5, Continued
  <2>9. /\ workspace' = workspace /\ tries' = tries /\ raised' = raised /\ served' = served
        /\ faults' \in Nat
    BY <2>5 DEF RunType
  <2>10. QED
    BY <1>1, <2>7, <2>8, <2>9 DEF RunType
<1>5. ASSUME NEW content \in Contents \cup {Done, Error}, AnswerCall(t, content),
             pc[t] \in {"calling", "shell"}, Continue(t, CallsMade(t)),
             raised' = raised, served' = served, tries' = tries, faults' = faults,
             \/ workspace' = workspace
             \/ \E d \in Dirs : workspace' = [workspace EXCEPT ![d] = Written(t, d)]
      PROVE  RunType'
  <2>1. conv' \in [Tasks -> Seq(Messages)] /\ todo' \in [Tasks -> Seq(Slots)]
    BY <1>5, AnswerTyped
  <2>2. CallsMade(t) \in Nat
    BY <1>5, CallsKnown DEF InReply
  <2>3. /\ pc' \in [Tasks -> Phases]
        /\ step' \in [Tasks -> 1..MaxSteps] /\ turns' \in [Tasks -> Seq(Nat)]
        /\ finished' \in [Tasks -> BOOLEAN]
        /\ DOMAIN reply' = Tasks /\ DOMAIN left' = Tasks /\ DOMAIN acc' = Tasks
    BY <1>5, <2>2, Continued
  <2>4. workspace' \in [Dirs -> Contents]
    <3>1. \A d \in Dirs : Written(t, d) \in Contents
      BY DEF Contents, Written
    <3>2. QED
      BY <1>5, <3>1 DEF RunType
  <2>5. QED
    BY <1>1, <1>5, <2>1, <2>3, <2>4 DEF RunType
<1>6. CASE RunTool(t)
  <2>1. PICK content \in ToolContent(t, Head(todo[t])) :
            AnswerCall(t, content) /\ workspace' \in ToolWrites(t, Head(todo[t]), content)
    BY <1>6 DEF RunTool
  <2>2. content \in Contents \cup {Done, Error}
    BY ToolSays
  <2>3. \/ workspace' = workspace
        \/ \E d \in Dirs : workspace' = [workspace EXCEPT ![d] = Written(t, d)]
    BY <2>1, ToolChanges
  <2>4. pc[t] = "calling" /\ Continue(t, CallsMade(t)) /\ UNCHANGED <<raised, served, tries, faults>>
    BY <1>6 DEF RunTool, ToolFrame
  <2>5. QED
    BY <1>5, <2>1, <2>2, <2>3, <2>4
<1>7. CASE StartShell(t)
  <2>1. pc' \in [Tasks -> Phases] /\ workspace' \in [Dirs -> Contents]
    BY <1>7 DEF StartShell, RunType, Contents
  <2>2. UNCHANGED <<step, tries, reply, left, acc, conv, todo, turns, finished, raised, served, faults>>
    BY <1>7 DEF StartShell, ToolFrame
  <2>3. QED
    BY <1>1, <2>1, <2>2 DEF RunType
<1>8. CASE ShellEnds(t)
  <2>1. PICK content \in {Anything, Error} : AnswerCall(t, content)
    BY <1>8 DEF ShellEnds
  <2>2. content \in Contents \cup {Done, Error}
    BY DEF Contents
  <2>3. /\ pc[t] = "shell" /\ Continue(t, CallsMade(t))
        /\ UNCHANGED <<workspace, raised, served, tries, faults>>
    BY <1>8 DEF ShellEnds, ToolFrame
  <2>4. QED
    BY <1>5, <2>1, <2>2, <2>3
<1>9. CASE Fail(t)
  <2>1. /\ pc' \in [Tasks -> Phases]
        /\ DOMAIN reply' = Tasks /\ DOMAIN left' = Tasks /\ DOMAIN acc' = Tasks
        /\ raised' \in [Tasks -> {"none", "message", "empty"}]
    BY <1>9 DEF Fail, Forget, RunType
  <2>2. turns' \in [Tasks -> Seq(Nat)] /\ conv' \in [Tasks -> Seq(Messages)]
    BY <1>9 DEF Fail, RunType
  <2>3. tries' \in [Tasks -> 0..SdkRetries]
    BY <1>9, AgentAssumption DEF Fail, RunType
  <2>4. served' \in Nat /\ faults' \in Nat
    BY <1>9 DEF Fail, Fault, RunType
  <2>5. UNCHANGED <<workspace, step, todo, finished>>
    BY <1>9 DEF Fail
  <2>6. QED
    BY <1>1, <2>1, <2>2, <2>3, <2>4, <2>5 DEF RunType
<1>10. CASE Retry(t)
  <2>1. tries' \in [Tasks -> 0..SdkRetries] /\ served' \in Nat /\ faults' \in Nat
    BY <1>10, AgentAssumption DEF Retry, Fault, RunType
  <2>2. UNCHANGED <<workspace, pc, step, reply, left, acc, conv, todo, turns, finished, raised>>
    BY <1>10 DEF Retry
  <2>3. QED
    BY <1>1, <2>1, <2>2 DEF RunType
<1>11. QED
  BY <1>2, <1>3, <1>4, <1>6, <1>7, <1>8, <1>9, <1>10 DEF AgentStep
(* An agent's steps keep to the files in its reach.                        *)
LEMMA AgentFiles ==
    ASSUME RunType, NEW t \in Tasks, AgentInv(t), AgentStep(t), FilesInv
    PROVE  FilesInv'
<1> DEFINE Told(u, content) ==
               \/ content \in {Done, Error}
               \/ \E d \in Dirs : Begins(u, d) /\ content \in Found(d)
               \/ content = Anything /\ CommandRun
<1>1. main = "agents" /\ main' = main /\ bank' = bank /\ \A u \in Tasks : u # t => Kept(u)
  BY OthersKept DEF AgentFrame, config
<1>2. \A d \in Dirs : Found(d)' = Found(d)
  BY <1>1 DEF Found, Brought, BaseFile, Base
<1>3. ASSUME CommandRun PROVE CommandRun'
  <2>1. CASE StartShell(t)
    BY <2>1 DEF StartShell, CommandRun
  <2>2. CASE RunTool(t)
    <3>1. \/ workspace' = workspace
          \/ \E d \in Dirs : workspace' = [workspace EXCEPT ![d] = Written(t, d)]
      BY <2>2, ToolChanges DEF RunTool
    <3>2. \A d \in Dirs : Written(t, d) = Anything
      BY <1>3 DEF Written, CommandRun
    <3>3. QED
      BY <1>3, <3>1, <3>2 DEF CommandRun, RunType
  <2>3. CASE ~StartShell(t) /\ ~RunTool(t)
    <3>1. workspace' = workspace
      BY <2>3 DEF AgentStep, Retry, Answer, NextChunk, EndOfStream, ShellEnds, Fail
    <3>2. QED
      BY <1>3, <3>1 DEF CommandRun
  <2>4. QED
    BY <2>1, <2>2, <2>3
<1>4. ASSUME NEW u \in Tasks, pc'[u] = "shell" PROVE CommandRun'
  <2>1. CASE u # t
    BY <1>1, <1>3, <1>4, <2>1 DEF FilesInv, Kept
  <2>2. CASE u = t /\ StartShell(t)
    BY <2>2 DEF StartShell, CommandRun
  <2>3. CASE u = t /\ ~StartShell(t)
    <3>1. ASSUME NEW n \in Nat, Continue(t, n) PROVE pc'[t] # "shell"
      BY <3>1, Continued
    <3>2. CASE EndOfStream(t)
      <4>1. InReply(t) /\ Continue(t, Len(ToolCalls(acc[t].slots)))
        BY <3>2 DEF EndOfStream, InReply
      <4>2. QED
        BY <1>4, <2>3, <3>1, <4>1, CallsKnown
    <3>3. CASE RunTool(t) \/ ShellEnds(t)
      <4>1. InReply(t) /\ Continue(t, CallsMade(t))
        BY <3>3 DEF RunTool, ShellEnds, InReply
      <4>2. QED
        BY <1>4, <2>3, <3>1, <4>1, CallsKnown
    <3>4. CASE Retry(t) \/ Answer(t) \/ NextChunk(t) \/ Fail(t)
      BY <1>4, <2>3, <3>4 DEF Retry, Answer, NextChunk, Fail, RunType
    <3>5. QED
      BY <2>3, <3>2, <3>3, <3>4 DEF AgentStep
  <2>4. QED
    BY <2>1, <2>2, <2>3
<1> SUFFICES ASSUME bank # <<>> PROVE FilesStayInReach'
  BY <1>1, <1>4 DEF FilesInv, FilesStayInReach
<1>5. /\ CommandRun \/ \A d \in Dirs : workspace[d] \in Found(d)
      /\ \A u \in Tasks : \A i \in DOMAIN conv[u] : Told(u, conv[u][i].content)
  BY <1>1 DEF FilesInv, FilesStayInReach
<1>6. CommandRun' \/ \A d \in Dirs : workspace'[d] \in Found(d)
  <2>1. CASE CommandRun
    BY <1>3, <2>1
  <2>2. CASE StartShell(t)
    BY <2>2 DEF StartShell, CommandRun
  <2>3. CASE ~CommandRun /\ RunTool(t)
    <3>1. \/ workspace' = workspace
          \/ \E d \in Dirs : /\ Begins(t, d)
                             /\ workspace' = [workspace EXCEPT ![d] = Written(t, d)]
      BY <2>3, ToolChanges DEF RunTool
    <3>2. \A d \in Dirs : Begins(t, d) => By(t) \in Found(d)
      BY DEF Found
    <3>3. \A d \in Dirs : Begins(t, d) => Written(t, d) \in Found(d)
      BY <1>5, <2>3, <3>2 DEF Written
    <3>4. QED
      BY <1>5, <2>3, <3>1, <3>3 DEF RunType
  <2>4. CASE ~CommandRun /\ ~StartShell(t) /\ ~RunTool(t)
    <3>1. workspace' = workspace
      BY <2>4 DEF AgentStep, Retry, Answer, NextChunk, EndOfStream, ShellEnds, Fail
    <3>2. QED
      BY <1>5, <2>4, <3>1
  <2>5. QED
    BY <2>1, <2>2, <2>3, <2>4
<1>7. ASSUME NEW u, NEW content, Told(u, content)
      PROVE  \/ content \in {Done, Error}
             \/ \E d \in Dirs : Begins(u, d) /\ content \in Found(d)
             \/ content = Anything /\ CommandRun'
  BY <1>3, <1>7
<1> HIDE DEF Told
<1>8. ASSUME NEW x \in Messages, conv' = [conv EXCEPT ![t] = Append(@, x)], Told(t, x.content)
      PROVE  \A i \in DOMAIN conv'[t] : Told(t, conv'[t][i].content)
  <2>1. conv'[t] = Append(conv[t], x) /\ conv[t] \in Seq(Messages)
    BY <1>8 DEF RunType
  <2>2. /\ Len(conv[t]) \in Nat /\ DOMAIN conv[t] = 1..Len(conv[t])
        /\ DOMAIN conv'[t] = 1..Len(conv[t]) + 1 /\ conv'[t][Len(conv[t]) + 1] = x
        /\ \A i \in 1..Len(conv[t]) : conv'[t][i] = conv[t][i]
    BY <2>1, Appended
  <2>3. \A i \in 1..Len(conv[t]) + 1 : i \in 1..Len(conv[t]) \/ i = Len(conv[t]) + 1
    BY <2>2
  <2>4. QED
    BY <1>5, <1>8, <2>2, <2>3
<1>9. ASSUME NEW content \in Contents \cup {Done, Error}, Told(t, content), AnswerCall(t, content),
             pc[t] \in {"calling", "shell"}
      PROVE  \A i \in DOMAIN conv'[t] : Told(t, conv'[t][i].content)
  <2>1. /\ ToolMessage(Head(todo[t]), content) \in Messages
        /\ ToolMessage(Head(todo[t]), content).content = content
    BY <1>9, AnswerTyped
  <2>2. conv' = [conv EXCEPT ![t] = Append(@, ToolMessage(Head(todo[t]), content))]
    BY <1>9 DEF AnswerCall
  <2>3. QED
    BY <1>8, <1>9, <2>1, <2>2
<1>10. \A i \in DOMAIN conv'[t] : Told(t, conv'[t][i].content)
  <2>1. CASE Retry(t) \/ Answer(t) \/ NextChunk(t) \/ StartShell(t)
    <3>1. conv' = conv
      BY <2>1 DEF Retry, Answer, NextChunk, StartShell
    <3>2. QED
      BY <1>5, <3>1
  <2>2. CASE EndOfStream(t)
    <3>1. InReply(t)
      BY <2>2 DEF EndOfStream, InReply
    <3>2. ToolCalls(acc[t].slots) \in Seq(Slots) /\ acc[t].text \in Seq(STRING)
      BY <3>1, CallsKnown DEF AgentInv, Streamed, StreamOf
    <3>3. conv' = [conv EXCEPT ![t] =
                      Append(@, Message("assistant", acc[t].text, ToolCalls(acc[t].slots)))]
      BY <2>2 DEF EndOfStream
    <3>4. Told(t, Done)
      BY DEF Told
    <3>5. QED
      BY <1>8, <3>2, <3>3, <3>4, Said
  <2>3. CASE RunTool(t)
    <3>1. PICK content \in ToolContent(t, Head(todo[t])) : AnswerCall(t, content)
      BY <2>3 DEF RunTool
    <3>2. /\ content \in {Done, Error} \/ \E d \in Dirs : Begins(t, d) /\ content = workspace[d]
          /\ content \in Contents \cup {Done, Error}
      BY ToolSays
    <3>3. Told(t, content)
      BY <1>5, <3>2 DEF Told, CommandRun
    <3>4. QED
      BY <1>9, <2>3, <3>1, <3>2, <3>3 DEF RunTool
  <2>4. CASE ShellEnds(t)
    <3>1. PICK content \in {Anything, Error} : AnswerCall(t, content)
      BY <2>4 DEF ShellEnds
    <3>2. pc[t] = "shell" /\ CommandRun
      BY <2>4 DEF ShellEnds, FilesInv
    <3>3. Told(t, content) /\ content \in Contents \cup {Done, Error}
      BY <3>2 DEF Told, Contents
    <3>4. QED
      BY <1>9, <3>1, <3>2, <3>3
  <2>5. CASE Fail(t)
    <3>1. conv'[t] = <<>>
      BY <2>5 DEF Fail, RunType
    <3>2. QED
      BY <3>1
  <2>6. QED
    BY <2>1, <2>2, <2>3, <2>4, <2>5 DEF AgentStep
<1>11. ASSUME NEW u \in Tasks PROVE \A i \in DOMAIN conv'[u] : Told(u, conv'[u][i].content)
  <2>1. CASE u = t
    BY <1>10, <2>1
  <2>2. CASE u # t
    BY <1>1, <1>5, <2>2 DEF Kept
  <2>3. QED
    BY <2>1, <2>2
<1>12. QED
  BY <1>2, <1>6, <1>7, <1>11 DEF FilesStayInReach

(* The requests are finitely many.                                         *)
LEMMA RequestedFinite == IsFiniteSet(Requested) /\ Cardinality(Requested) \in Nat
<1>1. IsFiniteSet(Tasks)
  BY AgentAssumption, FS_Interval DEF Tasks
<1>2. IsFiniteSet(1..MaxSteps)
  BY AgentAssumption, FS_Interval
<1>3. IsFiniteSet(Tasks \X (1..MaxSteps))
  BY <1>1, <1>2, FS_Product
<1>4. Requested \subseteq Tasks \X (1..MaxSteps)
  BY DEF Requested
<1>5. QED
  BY <1>3, <1>4, FS_Subset, FS_CardinalityType

(* And so are the attempts at them.                                        *)
LEMMA AttemptsFinite ==
    /\ IsFiniteSet(Attempts) /\ Cardinality(Attempts) \in Nat
    /\ IsFiniteSet(Attempts') /\ Cardinality(Attempts') \in Nat
<1>1. IsFiniteSet(Tasks) /\ IsFiniteSet(1..MaxSteps) /\ IsFiniteSet(0..SdkRetries)
  BY AgentAssumption, FS_Interval DEF Tasks
<1>2. IsFiniteSet(Tasks \X (1..MaxSteps))
  BY <1>1, FS_Product
<1>3. IsFiniteSet((Tasks \X (1..MaxSteps)) \X (0..SdkRetries))
  BY <1>1, <1>2, FS_Product
<1>4. /\ Attempts \subseteq (Tasks \X (1..MaxSteps)) \X (0..SdkRetries)
      /\ Attempts' \subseteq (Tasks \X (1..MaxSteps)) \X (0..SdkRetries)
  BY DEF Attempts
<1>5. QED
  BY <1>3, <1>4, FS_Subset, FS_CardinalityType

(* An agent's steps count its requests.                                    *)
LEMMA AgentMetered ==
    ASSUME RunType, NEW t \in Tasks, AgentInv(t), AgentStep(t), MetricsInv
    PROVE  MetricsInv'
<1>1. /\ main = "agents" /\ main' = main /\ start' = start /\ end' = end
      /\ \A u \in Tasks : u # t => Kept(u)
  BY OthersKept DEF AgentFrame
<1>2. SUFFICES ASSUME start # NoPage PROVE Metered(served)'
  BY <1>1 DEF MetricsInv
<1>3. start \in Nat /\ served \in Nat /\ faults \in Nat /\ Metered(served)
  BY <1>1, <1>2 DEF MetricsInv, RunType
<1>4. \A u \in Tasks : u # t =>
          /\ Started(u)' = Started(u) /\ raised'[u] = raised[u]
          /\ pc'[u] = pc[u] /\ turns'[u] = turns[u] /\ tries'[u] = tries[u]
  BY <1>1 DEF Kept, Started, InReply
<1>5. /\ Cardinality(Requested) \in Nat /\ IsFiniteSet(Requested)
      /\ Cardinality(Attempts) \in Nat /\ IsFiniteSet(Attempts)
      /\ Cardinality(Attempts') \in Nat /\ IsFiniteSet(Attempts')
  BY RequestedFinite, AttemptsFinite
<1>6. Started(t) \in Nat /\ turns[t] \in Seq(Nat) /\ Len(turns[t]) \in Nat
  BY DEF RunType, Started
<1>7. ASSUME Started(t)' = Started(t), raised' = raised, served' = served,
             pc[t] # "asking", faults' \in {faults, faults + 1}
      PROVE  Metered(served)'
  <2>1. Requested' = Requested
    BY <1>4, <1>7 DEF Requested
  <2>2. Attempts \subseteq Attempts'
    <3> SUFFICES ASSUME NEW p \in Tasks \X (1..MaxSteps), NEW k \in 0..SdkRetries, Lost(p, k)
                 PROVE  Lost(p, k)'
      BY <2>1 DEF Attempts
    <3> QED
      BY <1>4, <1>7 DEF Lost
  <2>3. Cardinality(Attempts) <= Cardinality(Attempts')
    BY <1>5, <2>2, FS_Subset
  <2>4. QED
    BY <1>1, <1>3, <1>5, <1>7, <2>1, <2>3 DEF Metered
<1>8. CASE Answer(t)
  <2>1. pc[t] = "asking" /\ pc'[t] = "streaming" /\ UNCHANGED <<turns, step, raised, faults>>
        /\ served' = served + 1
    BY <1>8 DEF Answer, RunType
  <2>2. Started(t) = Len(turns[t]) /\ Started(t)' = Len(turns[t]) + 1
    BY <1>6, <2>1 DEF Started, InReply
  <2>3. Len(turns[t]) + 1 \in 1..MaxSteps /\ tries[t] \in 0..SdkRetries
    BY <2>1 DEF RunType, AgentInv, Counted
  <2> DEFINE p == <<t, Len(turns[t]) + 1>>
  <2>4. p \notin Requested
    BY <1>6, <2>2 DEF Requested
  <2>5. Requested' = Requested \cup {p}
    <3>1. \A q \in Tasks \X (1..MaxSteps) :
              q[2] <= Started(q[1])' <=> q[2] <= Started(q[1]) \/ q = p
      <4> SUFFICES ASSUME NEW u \in Tasks, NEW i \in 1..MaxSteps
                   PROVE  i <= Started(u)' <=> i <= Started(u) \/ <<u, i>> = p
        OBVIOUS
      <4>1. CASE u = t
        BY <1>6, <2>2, <4>1
      <4>2. CASE u # t
        BY <1>4, <4>2
      <4>3. QED
        BY <4>1, <4>2
    <3>2. p \in Tasks \X (1..MaxSteps)
      BY <2>3
    <3>3. QED
      BY <3>1, <3>2 DEF Requested
  <2>6. Cardinality(Requested') = Cardinality(Requested) + 1
    BY <1>5, <2>4, <2>5, FS_AddElement
  <2>7. <<p, tries[t]>> \notin Attempts
    BY <2>3, <2>4 DEF Attempts, Lost
  <2>8. Attempts \cup {<<p, tries[t]>>} \subseteq Attempts'
    <3>1. p \in Requested' /\ p \in Tasks \X (1..MaxSteps)
      BY <2>3, <2>5
    <3>2. ASSUME NEW q \in Tasks \X (1..MaxSteps), NEW k \in 0..SdkRetries,
                 q \in Requested \/ Lost(q, k)
          PROVE  q \in Requested' \/ Lost(q, k)'
      <4>1. CASE q \in Requested
        BY <2>5, <4>1
      <4>2. CASE Lost(q, k) /\ q[1] = t
        <5>1. q = p
          BY <4>2 DEF Lost
        <5>2. QED
          BY <3>1, <5>1
      <4>3. CASE Lost(q, k) /\ q[1] # t
        BY <1>4, <4>3 DEF Lost
      <4>4. QED
        BY <3>2, <4>1, <4>2, <4>3
    <3> HIDE DEF p
    <3>3. QED
      BY <2>3, <3>1, <3>2 DEF Attempts
  <2> HIDE DEF p
  <2>9. Cardinality(Attempts) + 1 <= Cardinality(Attempts')
    <3>1. Cardinality(Attempts \cup {<<p, tries[t]>>}) = Cardinality(Attempts) + 1
      BY <1>5, <2>7, FS_AddElement
    <3>2. QED
      BY <1>5, <2>8, <3>1, FS_Subset
  <2>10. QED
    BY <1>1, <1>3, <1>5, <2>1, <2>6, <2>9 DEF Metered
<1>9. CASE Fail(t)
  <2>1. turns'[t] = <<>> /\ pc'[t] = "failed" /\ raised'[t] \in {"message", "empty"}
        /\ served' \in {served, served + 1}
    BY <1>9 DEF Fail, RunType
  <2>2. Started(t)' = 0
    BY <2>1 DEF Started, InReply
  <2>3. Requested' \subseteq Requested
    <3> SUFFICES ASSUME NEW u \in Tasks, NEW i \in 1..MaxSteps, i <= Started(u)'
                 PROVE  i <= Started(u)
      BY DEF Requested
    <3> QED
      BY <1>4, <2>2
  <2>4. Cardinality(Requested') <= Cardinality(Requested) /\ Cardinality(Requested') \in Nat
    BY <1>5, <2>3, FS_Subset, FS_CardinalityType
  <2>5. raised'[t] # "none"
    BY <2>1
  <2>6. QED
    BY <1>1, <1>3, <1>5, <2>1, <2>4, <2>5 DEF Metered
<1>10. CASE NextChunk(t)
  BY <1>7, <1>10 DEF NextChunk, Started, InReply
<1>11. CASE StartShell(t)
  <2>1. pc[t] = "calling" /\ pc'[t] = "shell" /\ UNCHANGED <<turns, raised, served, faults>>
    BY <1>11 DEF StartShell, ToolFrame, RunType
  <2>2. QED
    BY <1>7, <2>1 DEF Started, InReply
<1>12. ASSUME NEW n \in Nat, Continue(t, n), InReply(t), raised' = raised, served' = served,
              faults' \in {faults, faults + 1}
       PROVE  Metered(served)'
  <2>1. CASE todo'[t] # <<>>
    <3>1. pc'[t] = "calling" /\ turns'[t] = turns[t]
      BY <1>12, <2>1, Continued
    <3>2. QED
      BY <1>7, <1>12, <3>1 DEF Started, InReply
  <2>2. CASE todo'[t] = <<>>
    <3>1. turns'[t] = Append(turns[t], n) /\ pc'[t] \in {"done", "asking"}
      BY <1>12, <2>2, Continued
    <3>2. Len(turns'[t]) = Len(turns[t]) + 1
      BY <1>6, <3>1
    <3>3. Started(t) = Len(turns[t]) + 1
      BY <1>12 DEF Started
    <3>4. ~InReply(t)' /\ pc[t] # "asking"
      BY <1>12, <3>1 DEF InReply
    <3>5. Started(t)' = Len(turns'[t]) + 0
      BY <3>4 DEF Started
    <3>6. Len(turns'[t]) + 0 = Started(t)
      BY <1>6, <3>2, <3>3
    <3>7. QED
      BY <1>7, <1>12, <3>4, <3>5, <3>6
  <2>3. QED
    BY <2>1, <2>2
<1>13. CASE EndOfStream(t)
  <2>1. /\ InReply(t) /\ raised' = raised /\ served' = served
        /\ Continue(t, Len(ToolCalls(acc[t].slots))) /\ faults' \in {faults, faults + 1}
    BY <1>13 DEF EndOfStream, InReply, Fault
  <2>2. QED
    BY <1>12, <2>1, CallsKnown
<1>14. CASE RunTool(t) \/ ShellEnds(t)
  <2>1. InReply(t) /\ UNCHANGED <<raised, served, faults>> /\ Continue(t, CallsMade(t))
    BY <1>14 DEF RunTool, ShellEnds, ToolFrame, InReply
  <2>2. QED
    BY <1>12, <2>1, CallsKnown
<1>15. CASE Retry(t)
  <2>1. /\ pc[t] = "asking" /\ UNCHANGED <<pc, turns, step, raised>>
        /\ served' \in {served, served + 1} /\ faults' = faults + 1
        /\ tries[t] < SdkRetries /\ tries'[t] = tries[t] + 1 /\ tries[t] \in 0..SdkRetries
    BY <1>15 DEF Retry, Fault, RunType
  <2>2. Requested' = Requested
    BY <2>1 DEF Requested, Started, InReply
  <2> DEFINE p == <<t, Len(turns[t]) + 1>>
  <2>3. Len(turns[t]) + 1 \in 1..MaxSteps /\ p \in Tasks \X (1..MaxSteps)
    BY <2>1 DEF RunType, AgentInv, Counted
  <2>4. <<p, tries[t]>> \notin Attempts
    <3>1. Started(t) = Len(turns[t])
      BY <1>6, <2>1 DEF Started, InReply
    <3>2. p \notin Requested
      BY <1>6, <3>1 DEF Requested
    <3>3. QED
      BY <2>1, <3>2 DEF Attempts, Lost
  <2>5. Attempts \cup {<<p, tries[t]>>} \subseteq Attempts'
    <3>1. ASSUME NEW q \in Tasks \X (1..MaxSteps), NEW k \in 0..SdkRetries, q = p, k = tries[t]
          PROVE  Lost(q, k)'
      <4>1. q[1] = t /\ q[2] = Len(turns[t]) + 1
        BY <3>1
      <4>2. k < tries'[t]
        BY <2>1, <3>1
      <4>3. QED
        BY <2>1, <4>1, <4>2 DEF Lost
    <3>2. ASSUME NEW q \in Tasks \X (1..MaxSteps), NEW k \in 0..SdkRetries, Lost(q, k)
          PROVE  Lost(q, k)'
      <4>1. tries[q[1]] <= tries'[q[1]]
        <5>1. CASE q[1] = t
          BY <2>1, <5>1
        <5>2. CASE q[1] # t
          BY <1>4, <5>2 DEF RunType
        <5>3. QED
          BY <5>1, <5>2
      <4>2. tries[q[1]] \in Nat /\ tries'[q[1]] \in Nat
        <5>1. tries[q[1]] \in 0..SdkRetries
          BY DEF RunType
        <5>2. CASE q[1] = t
          BY <2>1, <5>1, <5>2, AgentAssumption
        <5>3. CASE q[1] # t
          BY <1>4, <5>1, <5>3, AgentAssumption
        <5>4. QED
          BY <5>2, <5>3
      <4>3. QED
        BY <2>1, <3>2, <4>1, <4>2 DEF Lost
    <3> HIDE DEF p
    <3>3. QED
      BY <2>1, <2>2, <2>3, <3>1, <3>2 DEF Attempts
  <2> HIDE DEF p
  <2>6. Cardinality(Attempts) + 1 <= Cardinality(Attempts')
    <3>1. Cardinality(Attempts \cup {<<p, tries[t]>>}) = Cardinality(Attempts) + 1
      BY <1>5, <2>4, FS_AddElement
    <3>2. QED
      BY <1>5, <2>5, <3>1, FS_Subset
  <2>7. QED
    BY <1>1, <1>3, <1>5, <2>1, <2>2, <2>6 DEF Metered
<1>16. QED
  BY <1>8, <1>9, <1>10, <1>11, <1>13, <1>14, <1>15 DEF AgentStep
(* An agent's steps leave the main task where it waits.                    *)
LEMMA AgentLeavesMain ==
    ASSUME RunType, NEW t \in Tasks, AgentInv(t), AgentStep(t), MainInv, ExitInv
    PROVE  MainInv' /\ ExitInv'
<1>1. /\ main = "agents" /\ main' = main /\ output' = output /\ exit' = exit
      /\ \A u \in Tasks : u # t => Kept(u)
  BY OthersKept DEF AgentFrame, endVars
<1>2. ASSUME NEW n \in Nat, Continue(t, n) PROVE pc'[t] \in {"calling", "done", "asking"}
  BY <1>2, Continued
<1>3. pc'[t] \notin {"waiting", "cancelled"}
  <2>1. CASE Answer(t) \/ StartShell(t) \/ Fail(t)
    BY <2>1 DEF Answer, StartShell, Fail, RunType
  <2>2. CASE NextChunk(t) \/ Retry(t)
    BY <1>1, <2>2 DEF NextChunk, Retry, MainInv
  <2>3. CASE EndOfStream(t)
    <3>1. InReply(t) /\ Continue(t, Len(ToolCalls(acc[t].slots)))
      BY <2>3 DEF EndOfStream, InReply
    <3>2. QED
      BY <1>2, <3>1, CallsKnown
  <2>4. CASE RunTool(t) \/ ShellEnds(t)
    <3>1. InReply(t) /\ Continue(t, CallsMade(t))
      BY <2>4 DEF RunTool, ShellEnds, InReply
    <3>2. QED
      BY <1>2, <3>1, CallsKnown
  <2>5. QED
    BY <2>1, <2>2, <2>3, <2>4 DEF AgentStep
<1>4. \A u \in Tasks : pc'[u] \notin {"waiting", "cancelled"}
  BY <1>1, <1>3 DEF MainInv, Kept
<1>5. MainInv'
  BY <1>1, <1>4 DEF MainInv
<1>6. ExitInv'
  BY <1>1 DEF ExitInv
<1>7. QED
  BY <1>5, <1>6

-----------------------------------------------------------------------------
(* The main task, and what ends it.                                        *)

(* A step that leaves the agents alone keeps what is said of them.         *)
LEMMA AgentsKept ==
    ASSUME IInv, UNCHANGED <<bank, agentVars>>
    PROVE  /\ \A t \in Tasks : AgentInv(t)'
           /\ Requested' = Requested /\ Attempts' = Attempts
           /\ main \notin {"setup", "cancelled"} => FilesStayInReach'
           /\ \A t \in Tasks : pc'[t] = "shell" => CommandRun'
<1>1. ASSUME NEW t \in Tasks PROVE AgentInv(t)'
  <2>1. Kept(t)
    BY DEF Kept, agentVars
  <2>2. QED
    BY <2>1, KeptInv DEF IInv
<1>2. Requested' = Requested
  BY DEF Requested, Started, InReply, agentVars
<1>3. Attempts' = Attempts
  BY <1>2 DEF Attempts, Lost, agentVars
<1>4. ASSUME main \notin {"setup", "cancelled"} PROVE FilesStayInReach'
  <2>1. (\A d \in Dirs : Found(d)' = Found(d)) /\ (CommandRun' <=> CommandRun)
    BY DEF Found, Brought, BaseFile, Base, CommandRun, agentVars
  <2>2. workspace' = workspace /\ conv' = conv /\ bank' = bank
    BY DEF agentVars
  <2>3. FilesStayInReach
    BY DEF IInv, FilesInv
  <2>4. QED
    BY <1>4, <2>1, <2>2, <2>3 DEF FilesStayInReach
<1>5. \A t \in Tasks : pc'[t] = "shell" => CommandRun'
  BY DEF IInv, FilesInv, CommandRun, agentVars
<1>6. QED
  BY <1>1, <1>2, <1>3, <1>4, <1>5
(* Before its first step an agent has said nothing.                        *)
LEMMA AgentsBegin ==
    ASSUME RunType, MainInv, main \in {"setup", "startSnapshot"},
           pc' \in {[t \in Tasks |-> "asking"], pc}, UNCHANGED <<conv, turns, step, raised>>
    PROVE  (\A t \in Tasks : AgentInv(t)' /\ pc'[t] # "shell") /\ Requested' = {}
<1>1. ASSUME NEW t \in Tasks
      PROVE  /\ pc'[t] \in {"waiting", "asking"} /\ conv'[t] = Opening /\ turns'[t] = <<>>
             /\ step'[t] = 1 /\ raised'[t] = "none"
  BY DEF MainInv
<1>2. ASSUME NEW t \in Tasks PROVE AgentInv(t)'
  <2>1. Streamed(t)'
    BY <1>1 DEF Streamed, InReply
  <2>2. Conversed(t)'
    BY <1>1, OpeningAnswered DEF Conversed
  <2>3. Cardinality(Turns(conv'[t])) = 0
    BY <1>1, OpeningAnswered, FS_EmptySet
  <2>4. Counted(t)'
    BY <1>1, <2>3 DEF Counted, Spoken
  <2>5. QED
    BY <2>1, <2>2, <2>4 DEF AgentInv
<1>3. ASSUME NEW t \in Tasks PROVE Started(t)' = 0
  <2>1. ~InReply(t)' /\ Len(turns'[t]) = 0
    BY <1>1 DEF InReply
  <2>2. QED
    BY <2>1 DEF Started
<1>4. Requested' = {}
  BY <1>3 DEF Requested
<1>5. QED
  BY <1>1, <1>2, <1>4

(* A workspace is given what its task brings, and the rest is left alone.  *)
LEMMA Given ==
    ASSUME RunType, bank # <<>>, NEW d \in Dirs
    PROVE  IF d \in Tasks
           THEN Materialized(workspace)[d] = BaseFile(d) /\ BaseFile(d) \in Contents
           ELSE Materialized(workspace)[d] = workspace[d]
<1>1. CASE d \in Tasks
  <2>1. {t \in Tasks : Dir(t) = d} = {d} /\ d \in Int
    BY <1>1 DEF Dir, Tasks
  <2>2. Max({d}) = d
    BY <2>1, MaxOfOne
  <2>3. Materialized(workspace)[d] = BaseFile(d)
    BY <2>1, <2>2 DEF Materialized
  <2>4. Len(bank) \in Nat \ {0} /\ d \in Nat
    BY <1>1 DEF RunType, Tasks
  <2>5. Base(d) \in Int
    BY <2>4 DEF Base
  <2>6. BaseFile(d) \in Contents
    BY <2>5 DEF BaseFile, Contents
  <2>7. QED
    BY <1>1, <2>3, <2>6
<1>2. CASE d \notin Tasks
  <2>1. {t \in Tasks : Dir(t) = d} = {}
    BY <1>2 DEF Dir
  <2>2. QED
    BY <1>2, <2>1 DEF Materialized
<1>3. QED
  BY <1>1, <1>2

(* The beginning.                                                          *)
LEMMA SetupInv == ASSUME IInv, Setup PROVE IInv'
<1>1. /\ main = "setup" /\ bank' = bank /\ metrics' = metrics
      /\ UNCHANGED <<step, tries, reply, left, acc, conv, todo, turns, finished, raised, served,
                     start, end, results, faults, output>>
  BY DEF Setup, config
<1>2. pc' \in {[t \in Tasks |-> "asking"], pc} /\ main' \in {"crashed", "startSnapshot", "agents"}
  BY DEF Setup
<1>3. \A t \in Tasks : AgentInv(t)' /\ pc'[t] # "shell"
  BY <1>1, <1>2, AgentsBegin DEF IInv
<1>4. CASE bank = <<>>
  <2>1. main' = "crashed" /\ workspace' = workspace /\ pc' = pc
    BY <1>4 DEF Setup
  <2>2. RunType'
    BY <1>1, <2>1 DEF IInv, RunType
  <2>3. MainInv'
    BY <1>1, <2>1 DEF IInv, MainInv
  <2>4. FilesInv'
    BY <1>1, <1>3, <1>4 DEF FilesInv, FilesStayInReach
  <2>5. MetricsInv' /\ ExitInv'
    BY <2>1 DEF MetricsInv, ExitInv
  <2>6. QED
    BY <1>3, <2>2, <2>3, <2>4, <2>5 DEF IInv
<1>5. CASE bank # <<>>
  <2>1. /\ workspace' = Materialized(workspace) /\ exit' = exit
        /\ \/ main' = "startSnapshot" /\ pc' = pc
           \/ main' = "agents" /\ pc' = [t \in Tasks |-> "asking"]
    BY <1>5 DEF Setup
  <2>2. \A d \in Dirs : IF d \in Tasks THEN workspace'[d] = BaseFile(d) /\ BaseFile(d) \in Contents
                         ELSE workspace'[d] \in {Missing, Stale}
    BY <1>1, <1>5, <2>1, Given DEF IInv, MainInv
  <2>3. workspace' \in [Dirs -> Contents]
    <3>1. workspace' = [d \in Dirs |-> workspace'[d]]
      BY <2>1 DEF Materialized
    <3>2. \A d \in Dirs : workspace'[d] \in Contents
      BY <2>2 DEF Contents
    <3>3. QED
      BY <3>1, <3>2
  <2>4. pc' \in [Tasks -> Phases]
    BY <2>1 DEF IInv, RunType
  <2>5. RunType'
    BY <1>1, <1>2, <2>3, <2>4 DEF IInv, RunType
  <2>6. MainInv'
    BY <1>1, <2>1 DEF IInv, MainInv
  <2>7. FilesInv'
    <3>1. \A d \in Dirs : workspace'[d] \in Found(d)'
      <4>1. \A t \in Tasks : BaseFile(t)' = BaseFile(t)
        BY <1>1 DEF BaseFile, Base
      <4>2. QED
        BY <2>2, <4>1 DEF Found, Brought
    <3>2. \A t \in Tasks : \A i \in DOMAIN conv'[t] : conv'[t][i].content = Done
      BY <1>1, OpeningAnswered DEF IInv, MainInv
    <3>3. QED
      BY <1>3, <3>1, <3>2 DEF FilesInv, FilesStayInReach
  <2>8. MetricsInv'
    BY <1>1, <2>1 DEF IInv, MetricsInv
  <2>9. ExitInv'
    BY <1>1, <2>1 DEF IInv, ExitInv
  <2>10. QED
    BY <1>3, <2>5, <2>6, <2>7, <2>8, <2>9 DEF IInv
<1>6. QED
  BY <1>4, <1>5

(* The first snapshot, and the start of the agents.                        *)
LEMMA StartInv == ASSUME IInv, StartSnapshot PROVE IInv'
<1>1. /\ main = "startSnapshot" /\ main' = "agents" /\ pc' = [t \in Tasks |-> "asking"]
      /\ start' \in {served, NoPage} /\ bank' = bank /\ metrics' = metrics
      /\ UNCHANGED <<workspace, step, tries, reply, left, acc, conv, todo, turns, finished, raised,
                     served, end, results, output, exit>>
      /\ faults' \in {faults, faults + 1}
  BY DEF StartSnapshot, Snapshot, Fault, MainFrame, config
<1>2. (\A t \in Tasks : AgentInv(t)' /\ pc'[t] # "shell") /\ Requested' = {}
  BY <1>1, AgentsBegin DEF IInv
<1>3. RunType'
  BY <1>1 DEF IInv, RunType
<1>4. MainInv'
  BY <1>1 DEF IInv, MainInv
<1>5. FilesInv'
  <2>1. (\A d \in Dirs : Found(d)' = Found(d)) /\ (CommandRun' <=> CommandRun)
    BY <1>1 DEF Found, Brought, BaseFile, Base, CommandRun
  <2>2. FilesStayInReach
    BY DEF IInv, FilesInv
  <2>3. QED
    BY <1>1, <1>2, <2>1, <2>2 DEF FilesInv, FilesStayInReach
<1>6. MetricsInv'
  <2>1. ASSUME start' # NoPage PROVE Metered(served)'
    <3>1. served \in Nat /\ faults' \in Nat
      BY <1>3 DEF IInv, RunType
    <3>2. served' = served /\ start' = served
      BY <1>1, <2>1
    <3>3. served' - start' = 0
      BY <3>1, <3>2
    <3>4. Cardinality(Requested') = 0
      BY <1>2, FS_EmptySet
    <3>5. Cardinality(Attempts') \in Nat
      BY AttemptsFinite
    <3>6. QED
      BY <3>1, <3>3, <3>4, <3>5 DEF Metered
  <2>2. QED
    BY <1>1, <2>1 DEF IInv, MetricsInv
<1>7. ExitInv'
  BY <1>1 DEF IInv, ExitInv
<1>8. QED
  BY <1>2, <1>3, <1>4, <1>5, <1>6, <1>7 DEF IInv
(* From the end of the agents to the report.                               *)
LEMMA EndInv == ASSUME IInv, Gathered \/ EndSnapshot \/ Finalize \/ SaveFails PROVE IInv'
<1>1. /\ main \in {"agents", "endSnapshot", "finalizing"} /\ UNCHANGED <<bank, metrics, agentVars>>
      /\ served' = served /\ start' = start /\ raised' = raised
      /\ faults' \in {faults, faults + 1}
  BY DEF Gathered, EndSnapshot, Finalize, SaveFails, Snapshot, Fault, MainFrame, config, agentVars
<1>2. /\ \A t \in Tasks : AgentInv(t)'
      /\ Requested' = Requested /\ Attempts' = Attempts /\ FilesInv'
  BY <1>1, AgentsKept DEF FilesInv
<1>3. /\ end' \in {end, served, NoPage}
      /\ main' \in {"endSnapshot", "finalizing", "finished", "crashed"}
  BY DEF Gathered, EndSnapshot, Finalize, SaveFails, MainFrame
<1>4. RunType'
  BY <1>1, <1>3 DEF IInv, RunType, agentVars
<1>5. /\ Metered(served) => Metered(served)' /\ (end' = served => Metered(end)')
      /\ Metered(end) /\ end' = end => Metered(end)'
  <2>1. Cardinality(Requested) \in Nat /\ faults \in Nat
    BY RequestedFinite DEF IInv, RunType
  <2>2. served - start \in Int /\ end - start \in Int
    BY DEF IInv, RunType, NoPage
  <2>3. QED
    BY <1>1, <1>2, <2>1, <2>2 DEF Metered
<1>6. \A t \in Tasks : Over(t)' = Over(t) /\ Result(t)' = Result(t)
  BY <1>1 DEF Over, Result, agentVars
<1>7. CASE Gathered
  <2>1. /\ main = "agents" /\ AgentsOver /\ results' = [i \in 1..NumTasks |-> Result(i - 1)]
        /\ main' \in {"endSnapshot", "finalizing"} /\ UNCHANGED <<end, output, exit>>
    BY <1>7 DEF Gathered
  <2>2. MainInv'
    <3>1. \A i \in 1..NumTasks : i - 1 \in Tasks
      BY AgentAssumption DEF Tasks
    <3>2. results' = [i \in 1..NumTasks |-> Result(i - 1)']
      BY <1>6, <2>1, <3>1
    <3>3. AgentsOver'
      BY <1>6, <2>1 DEF AgentsOver
    <3>4. QED
      BY <2>1, <3>2, <3>3 DEF IInv, MainInv
  <2>3. MetricsInv'
    BY <1>1, <1>5, <2>1 DEF IInv, MetricsInv
  <2>4. ExitInv'
    BY <2>1 DEF IInv, ExitInv
  <2>5. QED
    BY <1>2, <1>4, <2>2, <2>3, <2>4 DEF IInv
<1>8. ASSUME main \in {"endSnapshot", "finalizing"}, UNCHANGED results,
             main' \in {"finalizing", "finished"}, output' = "agent" <=> main' = "finished"
      PROVE  MainInv'
  <2>1. AgentsOver /\ results = [i \in 1..NumTasks |-> Result(i - 1)]
    BY <1>8 DEF IInv, MainInv
  <2>2. \A i \in 1..NumTasks : i - 1 \in Tasks
    BY AgentAssumption DEF Tasks
  <2>3. results' = [i \in 1..NumTasks |-> Result(i - 1)']
    BY <1>6, <1>8, <2>1, <2>2
  <2>4. AgentsOver'
    BY <1>6, <2>1 DEF AgentsOver
  <2>5. QED
    BY <1>8, <2>3, <2>4 DEF MainInv
<1>9. CASE EndSnapshot
  <2>1. /\ main = "endSnapshot" /\ main' = "finalizing" /\ end' \in {served, NoPage}
        /\ UNCHANGED <<results, output, exit>>
    BY <1>9 DEF EndSnapshot
  <2>2. MainInv'
    BY <1>8, <2>1 DEF IInv, MainInv
  <2>3. MetricsInv'
    BY <1>1, <1>5, <2>1 DEF IInv, MetricsInv
  <2>4. ExitInv'
    BY <2>1 DEF IInv, ExitInv
  <2>5. QED
    BY <1>2, <1>4, <2>2, <2>3, <2>4 DEF IInv
<1>10. CASE Finalize
  <2>1. /\ main = "finalizing" /\ main' = "finished" /\ output' = "agent"
        /\ UNCHANGED <<end, results, exit>>
    BY <1>10 DEF Finalize
  <2>2. MainInv'
    BY <1>8, <2>1
  <2>3. MetricsInv'
    BY <1>1, <1>5, <2>1 DEF IInv, MetricsInv
  <2>4. ExitInv'
    BY <2>1 DEF IInv, ExitInv
  <2>5. QED
    BY <1>2, <1>4, <2>2, <2>3, <2>4 DEF IInv
<1>11. CASE SaveFails
  <2>1. main = "finalizing" /\ main' = "crashed" /\ output' = output
    BY <1>11 DEF SaveFails
  <2>2. MainInv' /\ MetricsInv' /\ ExitInv'
    BY <2>1 DEF IInv, MainInv, MetricsInv, ExitInv
  <2>3. QED
    BY <1>2, <1>4, <2>2 DEF IInv
<1>12. QED
  BY <1>7, <1>9, <1>10, <1>11
(* Ctrl+C, the exit, and a step that changes nothing.                      *)
LEMMA OutsideInv == ASSUME IInv, Sigint \/ ForcedExit \/ CliExit \/ UNCHANGED vars PROVE IInv'
<1>1. CASE ForcedExit
  <2>1. /\ main' = "cancelled" /\ output' = "scenario" /\ exit' = 3
        /\ pc' = [t \in Tasks |-> "cancelled"] /\ conv' = [t \in Tasks |-> <<>>]
        /\ todo' = [t \in Tasks |-> <<>>] /\ turns' = [t \in Tasks |-> <<>>]
        /\ left' = [t \in Tasks |-> Pieces(NoReply)] /\ acc' = [t \in Tasks |-> Nothing]
        /\ reply' = [t \in Tasks |-> NoReply] /\ bank' = bank /\ metrics' = metrics
        /\ tries' = [t \in Tasks |-> 0] /\ faults' = faults
        /\ UNCHANGED <<workspace, step, finished, raised, served, start, end, results>>
    BY <1>1 DEF ForcedExit, config
  <2>2. RunType'
    BY <2>1, AgentAssumption DEF IInv, RunType
  <2>3. MainInv' /\ MetricsInv' /\ ExitInv' /\ FilesInv'
    BY <2>1 DEF MainInv, MetricsInv, ExitInv, FilesInv, FilesStayInReach
  <2>4. \A t \in Tasks : AgentInv(t)'
    BY <2>1 DEF AgentInv, Streamed, Conversed, Counted, InReply
  <2>5. QED
    BY <2>2, <2>3, <2>4 DEF IInv
<1>2. CASE Sigint \/ CliExit \/ UNCHANGED vars
  <2>1. /\ UNCHANGED <<bank, agentVars>>
        /\ UNCHANGED <<metrics, main, served, start, end, results, faults, output>>
        /\ UNCHANGED <<workspace, pc, conv, turns, step, tries, raised>>
    BY <1>2 DEF Sigint, CliExit, vars, config, endVars, agentVars
  <2>2. (\A t \in Tasks : AgentInv(t)') /\ Requested' = Requested /\ Attempts' = Attempts
        /\ (main \notin {"setup", "cancelled"} => FilesStayInReach')
        /\ \A t \in Tasks : pc'[t] = "shell" => CommandRun'
    BY <2>1, AgentsKept
  <2>3. FilesInv'
    BY <2>1, <2>2 DEF FilesInv, FilesStayInReach
  <2>4. RunType'
    BY <2>1 DEF IInv, RunType, agentVars
  <2>5. MainInv'
    <3>1. \A t \in Tasks : Over(t)' = Over(t) /\ Result(t)' = Result(t)
      BY <2>1 DEF Over, Result, agentVars
    <3>2. AgentsOver' <=> AgentsOver
      BY <3>1 DEF AgentsOver
    <3>3. \A i \in 1..NumTasks : i - 1 \in Tasks
      BY AgentAssumption DEF Tasks
    <3>4. [i \in 1..NumTasks |-> Result(i - 1)'] = [i \in 1..NumTasks |-> Result(i - 1)]
      BY <3>1, <3>3
    <3>5. QED
      BY <2>1, <3>2, <3>4 DEF IInv, MainInv
  <2>6. MetricsInv'
    <3>1. (Metered(served) => Metered(served)') /\ (Metered(end) => Metered(end)')
      BY <2>1, <2>2 DEF Metered
    <3>2. QED
      BY <2>1, <3>1 DEF IInv, MetricsInv
  <2>7. ExitInv'
    <3>1. AllFailed' <=> AllFailed
      BY <2>1 DEF AllFailed
    <3>2. exit' = exit \/ (main = "finished" /\ exit' = IF AllFailed THEN 2 ELSE 0)
      BY <1>2 DEF Sigint, CliExit, vars, endVars
    <3>3. QED
      BY <2>1, <3>1, <3>2 DEF IInv, ExitInv
  <2>8. QED
    BY <2>2, <2>3, <2>4, <2>5, <2>6, <2>7 DEF IInv
<1>3. QED
  BY <1>1, <1>2

-----------------------------------------------------------------------------
(* The invariant, and what follows from it.                                *)

(* The invariant holds at the start.                                       *)
LEMMA InitInv == ASSUME Init PROVE IInv
<1>1. /\ main = "setup" /\ served = 0 /\ start = NoPage /\ end = NoPage /\ results = <<>>
      /\ output = "none" /\ exit = Running /\ bank \in Seq(BOOLEAN) /\ metrics \in BOOLEAN
  BY AgentAssumption DEF Init
<1>2. workspace \in [Dirs -> {Missing, Stale}] /\ workspace \in [Dirs -> Contents]
  BY DEF Init, Contents
<1>3. /\ pc = [t \in Tasks |-> "waiting"] /\ step = [t \in Tasks |-> 1]
      /\ conv = [t \in Tasks |-> Opening] /\ todo = [t \in Tasks |-> <<>>]
      /\ turns = [t \in Tasks |-> <<>>] /\ finished = [t \in Tasks |-> FALSE]
      /\ raised = [t \in Tasks |-> "none"] /\ tries = [t \in Tasks |-> 0] /\ faults = 0
      /\ DOMAIN reply = Tasks /\ DOMAIN left = Tasks /\ DOMAIN acc = Tasks
  BY DEF Init
<1>4. RunType
  <2>1. Opening \in Seq(Messages) /\ 1 \in 1..MaxSteps
    BY OpeningAnswered, AgentAssumption
  <2>2. QED
    BY <1>1, <1>2, <1>3, <2>1, AgentAssumption DEF RunType
<1>5. MainInv /\ MetricsInv /\ ExitInv /\ FilesInv
  BY <1>1, <1>2, <1>3 DEF MainInv, MetricsInv, ExitInv, FilesInv, FilesStayInReach
<1>6. \A t \in Tasks : AgentInv(t)
  BY <1>3 DEF AgentInv, Streamed, Conversed, Counted, InReply
<1>7. QED
  BY <1>4, <1>5, <1>6 DEF IInv

(* Every step keeps the invariant.                                         *)
LEMMA NextInv == ASSUME IInv, [Next]_vars PROVE IInv'
<1>1. ASSUME NEW t \in Tasks, AgentStep(t) PROVE IInv'
  <2>1. RunType /\ AgentInv(t) /\ MainInv /\ ExitInv /\ MetricsInv /\ FilesInv
    BY DEF IInv
  <2>2. RunType'
    BY <1>1, <2>1, AgentTyped
  <2>3. MainInv' /\ ExitInv'
    BY <1>1, <2>1, AgentLeavesMain
  <2>4. FilesInv'
    BY <1>1, <2>1, AgentFiles
  <2>5. MetricsInv'
    BY <1>1, <2>1, AgentMetered
  <2>6. \A u \in Tasks : AgentInv(u)'
    <3>1. AgentInv(t)'
      BY <1>1, <2>1, AgentInvKept
    <3>2. ASSUME NEW u \in Tasks, u # t PROVE AgentInv(u)'
      <4>1. Kept(u) /\ AgentInv(u)
        BY <1>1, <2>1, <3>2, OthersKept DEF IInv
      <4>2. QED
        BY <4>1, KeptInv
    <3>3. QED
      BY <3>1, <3>2
  <2>7. QED
    BY <2>2, <2>3, <2>4, <2>5, <2>6 DEF IInv
<1>2. CASE Setup
  BY <1>2, SetupInv
<1>3. CASE StartSnapshot
  BY <1>3, StartInv
<1>4. CASE Gathered \/ EndSnapshot \/ Finalize \/ SaveFails
  BY <1>4, EndInv
<1>5. CASE Sigint \/ ForcedExit \/ CliExit \/ UNCHANGED vars
  BY <1>5, OutsideInv
<1>6. QED
  BY <1>1, <1>2, <1>3, <1>4, <1>5 DEF Next, MainStep, Ended

(* The invariant of agent mode.                                            *)
THEOREM RunInvariance == Spec => []IInv
<1>1. Init => IInv
  BY InitInv
<1>2. IInv /\ [Next]_vars => IInv'
  BY NextInv
<1>3. QED
  BY <1>1, <1>2, PTL DEF Spec

(* Until an agent runs a command, the file tools change a directory only   *)
(* for agents whose number begins its number, and tell an agent only what  *)
(* such directories hold; an earlier run's files are cleared.              *)
THEOREM AgentsKeepToTheirReach == Spec => []FilesStayInReach
<1>1. IInv => FilesStayInReach
  BY DEF IInv, FilesInv
<1>2. QED
  BY <1>1, RunInvariance, PTL

(* What the code promises ("concurrent agents never collide") holds for    *)
(* up to ten tasks, whose numbers have one digit, until an agent runs a    *)
(* command: each directory has what its task brought or its own agent      *)
(* wrote.                                                                  *)
THEOREM TenAgentsNeverCollide ==
    ASSUME NumTasks <= 10
    PROVE  Spec => [](main \notin {"setup", "cancelled"} /\ bank # <<>> /\ ~CommandRun =>
                         \A t \in Tasks : workspace[t] \in {BaseFile(t), By(t)})
<1>1. ASSUME NEW t \in Tasks, NEW u \in Tasks, Begins(u, t) PROVE u = t
  <2>1. t \in 0..9 /\ u \in 0..9
    BY AgentAssumption DEF Tasks
  <2>2. \A p \in Powers : t \div p = 0
    BY <2>1, SMT DEF Powers
  <2>3. QED
    BY <1>1, <2>2 DEF Begins
<1>2. ASSUME NEW t \in Tasks, workspace[t] \in Found(t) PROVE workspace[t] \in {BaseFile(t), By(t)}
  BY <1>1, <1>2 DEF Found, Brought
<1>3. IInv => (main \notin {"setup", "cancelled"} /\ bank # <<>> /\ ~CommandRun =>
                  \A t \in Tasks : workspace[t] \in {BaseFile(t), By(t)})
  BY <1>2 DEF IInv, FilesInv, FilesStayInReach, Dirs
<1>4. QED
  BY <1>3, RunInvariance, PTL

(* Every request carries a conversation a chat API accepts, whatever the   *)
(* replies and the tools.                                                  *)
THEOREM ConversationsAreAccepted == Spec => []RequestsAreWellFormed
<1>1. ASSUME NEW m \in Seq(Messages), Answered(m), ClosedUpTo(m, Len(m) + 1)
      PROVE  /\ \A i \in DOMAIN m : m[i].role = "assistant" =>
                  /\ m[i].calls # <<>> /\ i + 1..i + Len(m[i].calls) \subseteq DOMAIN m
                  /\ \A k \in DOMAIN m[i].calls :
                        /\ m[i + k].role = "tool" /\ m[i + k].answers = m[i].calls[k].id
                        /\ \A l \in DOMAIN m[i].calls : m[i].calls[k].id = m[i].calls[l].id => k = l
             /\ \A j \in DOMAIN m : m[j].role = "tool" =>
                  \E i \in 1..j - 1 :
                     m[i].role = "assistant" /\ j \in i + 1..i + Len(m[i].calls)
  <2>1. Len(m) \in Nat /\ DOMAIN m = 1..Len(m) /\ \A i \in 1..Len(m) : m[i] \in Messages
    OBVIOUS
  <2>2. ASSUME NEW i \in 1..Len(m), m[i].role = "assistant"
        PROVE  /\ m[i].calls # <<>> /\ i + 1..i + Len(m[i].calls) \subseteq 1..Len(m)
               /\ \A k \in DOMAIN m[i].calls :
                     /\ m[i + k].role = "tool" /\ m[i + k].answers = m[i].calls[k].id
                     /\ \A l \in DOMAIN m[i].calls : m[i].calls[k].id = m[i].calls[l].id => k = l
    <3>1. m[i].calls # <<>> /\ i + Len(m[i].calls) < Len(m) + 1
      BY <1>1, <2>1, <2>2 DEF ClosedUpTo
    <3>2. Len(m[i].calls) \in Nat /\ DOMAIN m[i].calls = 1..Len(m[i].calls)
      BY <2>1, MessageType
    <3>3. i + 1..i + Len(m[i].calls) \subseteq 1..Len(m)
          /\ \A k \in 1..Len(m[i].calls) : i + k \in 1..Len(m)
      BY <2>1, <3>1, <3>2
    <3>4. QED
      BY <1>1, <2>1, <2>2, <3>1, <3>2, <3>3 DEF Answered
  <2>3. QED
    BY <1>1, <2>1, <2>2 DEF Answered
<1>2. IInv => RequestsAreWellFormed
  <2> SUFFICES ASSUME IInv, NEW t \in Tasks, pc[t] \in {"asking", "streaming"}
               PROVE  conv[t] \in Seq(Messages) /\ Answered(conv[t])
                      /\ ClosedUpTo(conv[t], Len(conv[t]) + 1)
    BY <1>1 DEF RequestsAreWellFormed
  <2> QED
    BY DEF IInv, RunType, AgentInv, Conversed
<1>3. QED
  BY <1>2, RunInvariance, PTL

(* The tools are run with the calls of the reply, whole and in their       *)
(* order, however their fragments came.                                    *)
THEOREM NoCallIsMixed == Spec => []CallsAreWhole
<1>1. ASSUME IInv, NEW t \in Tasks, pc[t] \in {"calling", "shell"}
      PROVE  LET made == conv[t][Max(AssistantTurns(t))].calls
                 asked == reply[t].calls
             IN  /\ AllSent(left[t]) =>
                       /\ Len(made) = Len(asked)
                       /\ \A k \in DOMAIN made : SameCall(made[k], asked[k], k)
                 /\ \A k \in DOMAIN made : Parses(made[k].args) =>
                       \E l \in DOMAIN asked : SameCall(made[k], asked[l], l)
  <2>1. conv[t] \in Seq(Messages) /\ StreamOf(reply[t], left[t], acc[t])
    BY <1>1 DEF IInv, RunType, AgentInv, Streamed, InReply
  <2>2. PICK o \in DOMAIN conv[t] :
            OpenAt(conv[t], o, todo[t]) /\ conv[t][o].calls = ToolCalls(acc[t].slots)
    BY <1>1 DEF IInv, AgentInv, Conversed
  <2>3. Max(AssistantTurns(t)) = o
    BY <2>1, <2>2, OpenIsLast DEF AssistantTurns, Turns
  <2>4. QED
    BY <2>1, <2>2, <2>3, ToolCallsWhole
<1>2. IInv => CallsAreWhole
  BY <1>1 DEF CallsAreWhole
<1>3. QED
  BY <1>2, RunInvariance, PTL

(* The report, the metrics and the exit code agree with what the agents    *)
(* did.                                                                    *)
THEOREM TheReportIsTrue == Spec => []ReportMatchesRuns
<1>1. ASSUME IInv, output = "agent" PROVE ReportMatchesRuns
  <2>1. main = "finished" /\ AgentsOver
    BY <1>1 DEF IInv, MainInv
  <2>2. ASSUME NEW t \in Tasks PROVE results[t + 1] = Result(t)
    <3>1. results = [i \in 1..NumTasks |-> Result(i - 1)]
      BY <1>1, <2>1 DEF IInv, MainInv
    <3>2. t + 1 \in 1..NumTasks /\ (t + 1) - 1 = t
      BY AgentAssumption DEF Tasks
    <3>3. QED
      BY <3>1, <3>2
  <2>3. ASSUME NEW t \in Tasks
        PROVE  /\ pc[t] \in {"done", "failed"} /\ (raised[t] # "none" <=> pc[t] = "failed")
               /\ pc[t] = "done" =>
                     /\ Cardinality(AssistantTurns(t)) = Len(turns[t]) /\ step[t] = Len(turns[t])
                     /\ (finished[t] <=> Last(conv[t]).role = "assistant")
                     /\ finished[t] \/ step[t] = MaxSteps
               /\ pc[t] = "failed" => turns[t] = <<>>
    <3>1. pc[t] \in {"done", "failed"} /\ Counted(t)
      BY <1>1, <2>1 DEF IInv, AgentInv, AgentsOver, Over
    <3>2. QED
      BY <3>1 DEF Counted, Spoken, Turns, AssistantTurns
  <2>4. ASSUME NEW t \in Tasks
        PROVE  IF raised[t] # "none"
               THEN results[t + 1].error = raised[t] /\ ~results[t + 1].finished
               ELSE /\ Over(t) /\ results[t + 1].task = t /\ results[t + 1].error = "none"
                    /\ results[t + 1].steps = Cardinality(AssistantTurns(t))
                    /\ results[t + 1].steps <= MaxSteps
                    /\ results[t + 1].finished <=> Last(conv[t]).role = "assistant"
                    /\ results[t + 1].steps < MaxSteps => results[t + 1].finished
    <3>1. CASE pc[t] = "failed"
      <4>1. results[t + 1] = [NoResult EXCEPT !.error = raised[t]]
        BY <2>2, <3>1 DEF Result
      <4>2. QED
        BY <2>3, <3>1, <4>1 DEF NoResult
    <3>2. CASE pc[t] = "done"
      <4>1. results[t + 1] = [task |-> t, error |-> "none", steps |-> Len(turns[t]),
                              finished |-> finished[t]]
        BY <2>2, <3>2 DEF Result
      <4>2. step[t] \in 1..MaxSteps /\ MaxSteps \in Nat
        BY <1>1, AgentAssumption DEF IInv, RunType
      <4>3. QED
        BY <2>3, <3>2, <4>1, <4>2 DEF Over
    <3>3. QED
      BY <2>3, <3>1, <3>2
  <2>5. Steps = Cardinality(Requested)
    <3>1. ASSUME NEW t \in Tasks PROVE results[t + 1].steps = Started(t)
      <4>1. ~InReply(t)
        BY <2>3 DEF InReply
      <4>2. Len(turns[t]) \in Nat
        BY <1>1 DEF IInv, RunType
      <4>3. Started(t) = Len(turns[t]) + 0
        BY <4>1 DEF Started
      <4>4. CASE pc[t] = "failed"
        <5>1. results[t + 1] = [NoResult EXCEPT !.error = raised[t]]
          BY <2>2, <4>4 DEF Result
        <5>2. results[t + 1].steps = 0 /\ Len(turns[t]) = 0
          BY <2>3, <4>4, <5>1 DEF NoResult
        <5>3. QED
          BY <4>3, <5>2
      <4>5. CASE pc[t] = "done"
        <5>1. results[t + 1] = [task |-> t, error |-> "none", steps |-> Len(turns[t]),
                                finished |-> finished[t]]
          BY <2>2, <4>5 DEF Result
        <5>2. results[t + 1].steps = Len(turns[t])
          BY <5>1
        <5>3. QED
          BY <4>2, <4>3, <5>2
      <4>6. QED
        BY <2>3, <4>4, <4>5
    <3>2. {p \in Tasks \X (1..MaxSteps) : p[2] <= results[p[1] + 1].steps} = Requested
      BY <3>1 DEF Requested
    <3>3. QED
      BY <3>2 DEF Steps
  <2>6. ASSUME start # NoPage, end # NoPage
        PROVE  /\ end - start >= Steps
               /\ (\A t \in Tasks : raised[t] = "none") =>
                     end - start <= Steps + faults /\ end - start <= Steps * (1 + SdkRetries)
    <3>1. Metered(end)
      BY <1>1, <2>1, <2>6 DEF IInv, MetricsInv
    <3>2. Attempts = Requested \X (0..SdkRetries)
      <4>1. \A a \in (Tasks \X (1..MaxSteps)) \X (0..SdkRetries) : ~Lost(a[1], a[2])
        BY <2>3 DEF Lost
      <4>2. Requested \subseteq Tasks \X (1..MaxSteps)
        BY DEF Requested
      <4>3. QED
        BY <4>1, <4>2 DEF Attempts
    <3>3. IsFiniteSet(0..SdkRetries) /\ Cardinality(0..SdkRetries) = 1 + SdkRetries
      BY AgentAssumption, FS_Interval
    <3>4. Cardinality(Attempts) = Cardinality(Requested) * (1 + SdkRetries)
      BY <3>2, <3>3, RequestedFinite, FS_Product
    <3>5. QED
      BY <2>5, <3>1, <3>4 DEF Metered
  <2>7. ASSUME exit \in {0, 2}, \A t \in Tasks : raised[t] # "empty"
        PROVE  exit = 2 <=> \A t \in Tasks : raised[t] # "none"
    <3>1. exit = IF AllFailed THEN 2 ELSE 0
      BY <1>1, <2>1, <2>7 DEF IInv, ExitInv, Running
    <3>2. AllFailed <=> \A t \in Tasks : results[t + 1].error = "message"
      <4>1. DOMAIN results = 1..NumTasks
        BY <1>1, <2>1 DEF IInv, MainInv
      <4>2. \A i \in 1..NumTasks : i - 1 \in Tasks /\ (i - 1) + 1 = i
        BY AgentAssumption DEF Tasks
      <4>3. \A t \in Tasks : t + 1 \in 1..NumTasks
        BY AgentAssumption DEF Tasks
      <4>4. QED
        BY <4>1, <4>2, <4>3 DEF AllFailed
    <3>3. \A t \in Tasks : results[t + 1].error = "message" <=> raised[t] # "none"
      <4>1. \A t \in Tasks : raised[t] \in {"none", "message"}
        BY <1>1, <2>7 DEF IInv, RunType
      <4>2. \A t \in Tasks : IF raised[t] # "none" THEN results[t + 1].error = raised[t]
                             ELSE results[t + 1].error = "none"
        BY <2>4
      <4>3. QED
        BY <4>1, <4>2
    <3>4. QED
      BY <3>1, <3>2, <3>3
  <2>8. QED
    BY <2>4, <2>6, <2>7 DEF ReportMatchesRuns
<1>2. IInv => ReportMatchesRuns
  BY <1>1 DEF ReportMatchesRuns
<1>3. QED
  BY <1>2, RunInvariance, PTL
=============================================================================
