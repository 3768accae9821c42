-------------------------- MODULE HitRateProofs ---------------------------
(***************************************************************************)
(* Proofs about hit-rate mode, for every number of requests, prefixes and  *)
(* engines, any concurrency, failures and restarts.                        *)
(***************************************************************************)
EXTENDS HitRateRun, FiniteSetTheorems, WellFoundedInduction, TLAPS

EngineStates == [cached : SUBSET Prefixes, queries : Nat, hits : Nat, restarts : 0..MaxRestarts]
Pages == [answer : {"pending", "none", "read"}, queries : Nat, hits : Nat, restarts : Nat]
Mains == {"reset", "prefill", "startSnapshot", "measure", "endSnapshot", "finished",
          "cancelled", "crashed"}
Early == {"reset", "prefill", "startSnapshot"}
Late == {"measure", "endSnapshot", "finished"}

RunType ==
    /\ openLoop \in BOOLEAN /\ prefill \in BOOLEAN /\ prefixOf \in [Jobs -> Prefixes]
    /\ serving \in Deployments /\ main \in Mains
    /\ task \in [Jobs -> {"over", "queued", "posting", "served"}]
    /\ free \in 0..Concurrency
    /\ outcome \in [Jobs -> {"none", "ok", "failed"}]
    /\ consecutive \in Nat /\ shutdown \in BOOLEAN
    /\ sigints \in 0..MaxSigints /\ failures \in 0..MaxFailures
    /\ abandoned \subseteq Prefixes \X BOOLEAN /\ hits \in Nat
    /\ engine \in [Engines -> EngineStates] /\ start \in [Engines -> Pages]
    /\ end \in [Engines -> Pages]
    /\ \A e \in Engines : /\ engine[e].hits <= engine[e].queries
                          /\ start[e].hits <= start[e].queries /\ end[e].hits <= end[e].queries
    /\ loop \in {"open", "closed"} /\ output \in {"none", "hitrate", "scenario"}
    /\ exit \in {Running, 0, 1, 2, 3}

(* Requests are under way in the two phases only, a measured one until it  *)
(* is recorded; the first phase sends only prefixes, and before the second *)
(* nothing has been measured.                                              *)
PhaseInv ==
    /\ main \notin Gathering => TasksOver
    /\ main = "prefill" => \A j \in Jobs : j >= PrefixNum => task[j] = "over"
    /\ main \in Early =>
          /\ \A j \in Jobs : outcome[j] = "none"
          /\ hits = 0 /\ abandoned \subseteq Prefixes \X {FALSE}
    /\ main = "measure" => \A j \in Jobs : task[j] = "over" <=> outcome[j] # "none"
    /\ main \in {"endSnapshot", "finished"} => \A j \in Jobs : outcome[j] # "none"
    /\ failures = 0 => abandoned = {} /\ \A j \in Jobs : outcome[j] # "failed"

(* The program's end, its report and its exit code.                        *)
ExitInv ==
    /\ loop = "open" => main \notin {"cancelled", "crashed"} /\ exit = Running
    /\ output = "hitrate" <=> main = "finished"
    /\ main = "finished" => exit \in {Running, IF AllFailed THEN 2 ELSE 0}
    /\ main # "finished" => exit \notin {0, 2}

(* Whoever is at the endpoint holds a slot of the semaphore, if there is   *)
(* one, and all slots are free in between.                                 *)
InFlight == {j \in Jobs : task[j] \in {"posting", "served"}}
SlotInv == loop = "open" => free = Concurrency - (IF Unpaced THEN 0 ELSE Cardinality(InFlight))

(* Failures in a row are among the failures.                               *)
StreakInv == consecutive <= Cardinality({j \in Jobs : outcome[j] = "failed"})

(* An engine at two times: it restarted in between, or has only counted.   *)
Later(a, b) ==
    /\ a.restarts <= b.restarts
    /\ a.restarts = b.restarts =>
          a.queries <= b.queries /\ a.hits <= b.hits /\ b.hits - a.hits <= b.queries - a.queries

SnapshotInv ==
    /\ main \in {"reset", "prefill"} => \A e \in Engines : start[e] = Unread
    /\ main \in Early \cup {"measure"} => \A e \in Engines : end[e] = Unread
    /\ main \in Late => \A e \in Engines : start[e].answer # "pending"
    /\ main = "finished" => \A e \in Engines : end[e].answer # "pending"
    /\ \A e \in Engines : /\ start[e].answer = "pending" => start[e] = Unread
                          /\ end[e].answer = "pending" => end[e] = Unread
                          /\ start[e].answer = "read" => Later(start[e], engine[e])
                          /\ start[e].answer = "read" /\ end[e].answer = "read" =>
                                Later(start[e], end[e])
    /\ main = "startSnapshot" /\ failures = 0 =>
          \A e \in Engines : start[e].answer = "read" /\ start[e].restarts = engine[e].restarts =>
              start[e].queries = engine[e].queries /\ start[e].hits = engine[e].hits

(* What the second snapshot would say of an engine if the pages still to   *)
(* be read were read at once, and whether the two could be compared.       *)
Now(e) == IF end[e].answer = "pending" THEN Reading(e) ELSE end[e]
NowComparable == \A e \in Engines :
    start[e].answer = "read" /\ Now(e).answer = "read" /\ Now(e).restarts = start[e].restarts

QueriesAtStart == SumFunction([e \in Engines |-> start[e].queries])
QueriesNow == SumFunction([e \in Engines |-> Now(e).queries])
HitsAtStart == SumFunction([e \in Engines |-> start[e].hits])
HitsNow == SumFunction([e \in Engines |-> Now(e).hits])

(* The measured requests an engine is known to have looked up.             *)
Looked == {j \in Jobs : task[j] = "served" \/ outcome[j] = "ok"}

(* The account of the measurement.                                         *)
AccountInv ==
    main \in Late /\ NowComparable =>
        /\ QueriesNow >= QueriesAtStart + Cardinality(Looked) * Total
        /\ failures = 0 => /\ QueriesNow = QueriesAtStart + Cardinality(Looked) * Total
                           /\ HitsNow = HitsAtStart + hits

(* With one engine at work, and nothing failing, the injection fills its   *)
(* cache, and every measured request finds its prefix.                     *)
Calm(e) == prefill /\ serving = {e} /\ failures = 0 /\ engine[e].restarts = 0
CacheInv == \A e \in Engines : Calm(e) =>
    /\ main = "prefill" =>
          \A j \in Prefixes : task[j] \in {"served", "over"} => j \in engine[e].cached
    /\ main \in Late \cup {"startSnapshot"} => engine[e].cached = Prefixes
    /\ main \in Late => hits = Cardinality(Looked) * PrefixTokens

IInv ==
    /\ RunType /\ PhaseInv /\ ExitInv /\ SlotInv
    /\ StreakInv /\ SnapshotInv /\ AccountInv /\ CacheInv

-----------------------------------------------------------------------------
(* The sum of counts over a set is the number of things counted: pairs of  *)
(* an element and a number below its count.                                *)
Column(f, x) == {x} \X (0..f[x] - 1)
Units(f, T) == UNION {Column(f, x) : x \in T}

(* A count is the size of its column.                                      *)
LEMMA ColumnSize ==
    ASSUME NEW f, NEW x, f[x] \in Nat
    PROVE  IsFiniteSet(Column(f, x)) /\ Cardinality(Column(f, x)) = f[x]
<1>1. IsFiniteSet({x}) /\ Cardinality({x}) = 1
  BY FS_Singleton
<1>2. IsFiniteSet(0..f[x] - 1) /\ Cardinality(0..f[x] - 1) = f[x]
  <2> DEFINE n == f[x]
             m == n - 1
  <2>1. n \in Nat /\ m \in Int
    OBVIOUS
  <2>2. (0 > m => n = 0) /\ m - 0 + 1 = n
    BY <2>1
  <2> HIDE DEF m
  <2>3. IsFiniteSet(0..m) /\ Cardinality(0..m) = IF 0 > m THEN 0 ELSE m - 0 + 1
    BY <2>1, FS_Interval
  <2>4. IsFiniteSet(0..m) /\ Cardinality(0..m) = n
    BY <2>2, <2>3
  <2>5. QED
    BY <2>4 DEF m
<1>3. /\ IsFiniteSet({x} \X (0..f[x] - 1))
      /\ Cardinality({x} \X (0..f[x] - 1)) = Cardinality({x}) * Cardinality(0..f[x] - 1)
  BY <1>1, <1>2, FS_Product
<1>4. QED
  BY <1>1, <1>2, <1>3 DEF Column

(* The units of finitely many counts are finitely many.                    *)
LEMMA UnitsFinite ==
    ASSUME NEW S, IsFiniteSet(S), NEW f, \A x \in S : f[x] \in Nat
    PROVE  IsFiniteSet(Units(f, S)) /\ Cardinality(Units(f, S)) \in Nat
<1> DEFINE columns == [x \in S |-> Column(f, x)]
<1>1. columns \in Surjection(S, {Column(f, x) : x \in S})
  BY DEF Surjection
<1>2. IsFiniteSet({Column(f, x) : x \in S})
  BY <1>1, FS_Surjection
<1>3. \A C \in {Column(f, x) : x \in S} : IsFiniteSet(C)
  BY ColumnSize
<1>4. IsFiniteSet(Units(f, S))
  BY <1>2, <1>3, FS_UNION DEF Units
<1>5. QED
  BY <1>4, FS_CardinalityType

(* An element more adds its count.                                         *)
LEMMA UnitsStep ==
    ASSUME NEW S, IsFiniteSet(S), NEW f, \A y \in S : f[y] \in Nat,
           NEW T \in SUBSET S, NEW x \in T
    PROVE  /\ Cardinality(Units(f, T \ {x})) \in Nat
           /\ Cardinality(Units(f, T)) = f[x] + Cardinality(Units(f, T \ {x}))
<1> DEFINE rest == Units(f, T \ {x})
           col == Column(f, x)
<1>1. Units(f, T) = col \cup rest /\ Units(f, T) \subseteq Units(f, S) /\ rest \subseteq Units(f, S)
  BY DEF Units
<1>2. col \cap rest = {}
  BY DEF Units, Column
<1>3. IsFiniteSet(rest) /\ Cardinality(rest) \in Nat
  BY <1>1, UnitsFinite, FS_Subset, FS_CardinalityType
<1>4. f[x] \in Nat /\ IsFiniteSet(col) /\ Cardinality(col) = f[x]
  BY ColumnSize
<1> HIDE DEF rest, col
<1>5. Cardinality(col \cup rest) = Cardinality(col) + Cardinality(rest) - Cardinality(col \cap rest)
  BY <1>3, <1>4, FS_Union
<1>6. Cardinality(col \cap rest) = 0
  BY <1>2, FS_EmptySet
<1>7. Cardinality(Units(f, T)) = f[x] + Cardinality(rest)
  BY <1>1, <1>3, <1>4, <1>5, <1>6
<1>8. QED
  BY <1>3, <1>7 DEF rest

(* What holds of the sums over all smaller sets, and so of theirs, holds   *)
(* of all: a set of subsets, if there is one in it, has a smallest one.    *)
LEMMA Smallest ==
    ASSUME NEW S, IsFiniteSet(S), NEW Bad \in SUBSET (SUBSET S), Bad # {}
    PROVE  \E T \in Bad : \A U \in SUBSET T : U # T => U \notin Bad
<1>1. IsWellFoundedOn(StrictSubsetOrdering(S), SUBSET S)
  BY FS_StrictSubsetOrderingWellFounded, FS_FiniteSubsetsOfFinite
<1>2. \E T \in Bad : \A U \in Bad : ~(<<U, T>> \in StrictSubsetOrdering(S))
  BY <1>1, WFMin
<1>3. QED
  BY <1>2 DEF StrictSubsetOrdering

(* The fold counts the units.                                              *)
LEMMA SumIsUnits ==
    ASSUME NEW S, IsFiniteSet(S), NEW f, \A x \in S : f[x] \in Nat
    PROVE  SumFunctionOnSet(f, S) = Cardinality(Units(f, S))
<1> DEFINE pick(s) == CHOOSE x \in s : TRUE
           Body(it) == [s \in SUBSET S |-> IF s = {} THEN 0 ELSE f[pick(s)] + it[s \ {pick(s)}]]
           count == [s \in SUBSET S |-> Cardinality(Units(f, s))]
<1>1. SumFunctionOnSet(f, S) = (CHOOSE it : it = Body(it))[S]
  BY DEF SumFunctionOnSet, FoldFunctionOnSet, MapThenFoldSet
<1>2. ASSUME NEW s \in SUBSET S, s # {}
      PROVE  pick(s) \in s /\ count[s] = f[pick(s)] + count[s \ {pick(s)}]
  <2>1. pick(s) \in s
    BY <1>2
  <2> DEFINE x == pick(s)
  <2> HIDE DEF x
  <2>2. x \in s
    BY <2>1 DEF x
  <2>3. Cardinality(Units(f, s)) = f[x] + Cardinality(Units(f, s \ {x}))
    BY <2>2, UnitsStep
  <2>4. count[s] = f[x] + count[s \ {x}]
    BY <2>3
  <2>5. QED
    BY <2>1, <2>4 DEF x
<1>3. count[{}] = 0
  BY FS_EmptySet DEF Units
<1> HIDE DEF count, pick
<1>4. count = Body(count)
  <2>1. \A s \in SUBSET S : count[s] = IF s = {} THEN 0 ELSE f[pick(s)] + count[s \ {pick(s)}]
    BY <1>2, <1>3
  <2>2. count = [s \in SUBSET S |-> count[s]]
    BY DEF count
  <2>3. QED
    BY <2>1, <2>2
<1>5. ASSUME NEW it, it = Body(it) PROVE it[S] = count[S]
  <2> DEFINE Bad == {s \in SUBSET S : it[s] # count[s]}
  <2>1. CASE Bad # {}
    <3>1. PICK T \in Bad : \A U \in SUBSET T : U # T => U \notin Bad
      <4>1. Bad \in SUBSET (SUBSET S)
        OBVIOUS
      <4> HIDE DEF Bad
      <4>2. QED
        BY <2>1, <4>1, Smallest
    <3>2. T \in SUBSET S /\ it[T] = IF T = {} THEN 0 ELSE f[pick(T)] + it[T \ {pick(T)}]
      BY <1>5
    <3>3. T # {}
      BY <1>3, <3>1, <3>2
    <3>4. pick(T) \in T /\ count[T] = f[pick(T)] + count[T \ {pick(T)}]
      BY <1>2, <3>2, <3>3
    <3>5. it[T \ {pick(T)}] = count[T \ {pick(T)}]
      BY <3>1, <3>2, <3>4
    <3>6. QED
      BY <3>1, <3>2, <3>3, <3>4, <3>5
  <2>2. CASE Bad = {}
    BY <2>2
  <2>3. QED
    BY <2>1, <2>2
<1>6. (CHOOSE it : it = Body(it))[S] = count[S]
  BY <1>4, <1>5
<1>7. QED
  BY <1>1, <1>6 DEF count

(* Sums are taken an element at a time.                                    *)
LEMMA SumStep ==
    ASSUME NEW S, IsFiniteSet(S), NEW f, \A x \in S : f[x] \in Nat
    PROVE  /\ SumFunctionOnSet(f, {}) = 0
           /\ \A T \in SUBSET S : SumFunctionOnSet(f, T) \in Nat
           /\ \A T \in SUBSET S : \A x \in T :
                 SumFunctionOnSet(f, T) = f[x] + SumFunctionOnSet(f, T \ {x})
<1>1. ASSUME NEW T \in SUBSET S PROVE SumFunctionOnSet(f, T) = Cardinality(Units(f, T))
  <2>1. IsFiniteSet(T) /\ \A x \in T : f[x] \in Nat
    BY FS_Subset
  <2>2. QED
    BY <2>1, SumIsUnits
<1>2. Cardinality(Units(f, {})) = 0
  BY FS_EmptySet DEF Units
<1>3. ASSUME NEW T \in SUBSET S PROVE Cardinality(Units(f, T)) \in Nat
  <2>1. IsFiniteSet(T) /\ \A x \in T : f[x] \in Nat
    BY FS_Subset
  <2>2. QED
    BY <2>1, UnitsFinite
<1>4. ASSUME NEW T \in SUBSET S, NEW x \in T
      PROVE  SumFunctionOnSet(f, T) = f[x] + SumFunctionOnSet(f, T \ {x})
  <2>1. Cardinality(Units(f, T)) = f[x] + Cardinality(Units(f, T \ {x}))
    BY UnitsStep
  <2>2. QED
    BY <1>1, <2>1
<1>5. QED
  BY <1>1, <1>2, <1>3, <1>4

(* The sum of a sum.                                                       *)
LEMMA SumOfSums ==
    ASSUME NEW S, IsFiniteSet(S), NEW f \in [S -> Nat], NEW g \in [S -> Nat], NEW h \in [S -> Nat],
           \A x \in S : h[x] = f[x] + g[x]
    PROVE  SumFunction(h) = SumFunction(f) + SumFunction(g)
<1> DEFINE F(T) == SumFunctionOnSet(f, T)
           G(T) == SumFunctionOnSet(g, T)
           H(T) == SumFunctionOnSet(h, T)
           Bad == {T \in SUBSET S : H(T) # F(T) + G(T)}
<1>1. /\ F({}) = 0 /\ \A T \in SUBSET S : F(T) \in Nat
      /\ \A T \in SUBSET S : \A x \in T : F(T) = f[x] + F(T \ {x})
  BY SumStep
<1>2. /\ G({}) = 0 /\ \A T \in SUBSET S : G(T) \in Nat
      /\ \A T \in SUBSET S : \A x \in T : G(T) = g[x] + G(T \ {x})
  BY SumStep
<1>3. /\ H({}) = 0 /\ \A T \in SUBSET S : H(T) \in Nat
      /\ \A T \in SUBSET S : \A x \in T : H(T) = h[x] + H(T \ {x})
  BY SumStep
<1>4. Bad \in SUBSET (SUBSET S) /\ \A T \in SUBSET S : T \in Bad <=> H(T) # F(T) + G(T)
  OBVIOUS
<1> HIDE DEF F, G, H, Bad
<1>5. CASE Bad # {}
  <2>1. PICK T \in Bad : \A U \in SUBSET T : U # T => U \notin Bad
    BY <1>4, <1>5, Smallest
  <2>2. T \in SUBSET S /\ H(T) # F(T) + G(T)
    BY <1>4, <2>1
  <2>3. PICK x \in T : TRUE
    <3>1. H({}) = F({}) + G({})
      BY <1>1, <1>2, <1>3
    <3>2. QED
      BY <2>2, <3>1
  <2>4. x \in S /\ T \ {x} \in SUBSET S /\ T \ {x} \notin Bad
    BY <2>1, <2>2, <2>3
  <2>5. H(T \ {x}) = F(T \ {x}) + G(T \ {x})
    BY <1>4, <2>4
  <2>6. F(T) = f[x] + F(T \ {x}) /\ G(T) = g[x] + G(T \ {x}) /\ H(T) = h[x] + H(T \ {x})
    BY <1>1, <1>2, <1>3, <2>2, <2>3
  <2>7. /\ f[x] \in Nat /\ g[x] \in Nat /\ h[x] = f[x] + g[x]
        /\ F(T \ {x}) \in Nat /\ G(T \ {x}) \in Nat
    BY <1>1, <1>2, <2>4
  <2>8. H(T) = F(T) + G(T)
    BY <2>5, <2>6, <2>7
  <2>9. QED
    BY <2>2, <2>8
<1>6. CASE Bad = {}
  <2>1. H(S) = F(S) + G(S)
    BY <1>4, <1>6
  <2>2. QED
    BY <2>1 DEF F, G, H, SumFunction
<1>7. QED
  BY <1>5, <1>6

(* Sums of counts are counts, at least each of them.                       *)
LEMMA SumIsNatural ==
    ASSUME NEW S, IsFiniteSet(S), NEW f \in [S -> Nat]
    PROVE  SumFunction(f) \in Nat /\ \A x \in S : f[x] <= SumFunction(f)
<1>1. DOMAIN f = S
  OBVIOUS
<1>2. \A T \in SUBSET S : SumFunctionOnSet(f, T) \in Nat
  BY SumStep
<1>3. \A x \in S : SumFunctionOnSet(f, S) = f[x] + SumFunctionOnSet(f, S \ {x})
  BY SumStep
<1>4. SumFunction(f) = SumFunctionOnSet(f, S)
  BY <1>1 DEF SumFunction
<1>5. ASSUME NEW x \in S PROVE f[x] <= SumFunction(f)
  <2>1. SumFunctionOnSet(f, S \ {x}) \in Nat /\ f[x] \in Nat
    BY <1>2
  <2>2. QED
    BY <1>3, <1>4, <2>1
<1>6. QED
  BY <1>2, <1>4, <1>5

(* Sums are monotonic.                                                     *)
LEMMA SumAtMost ==
    ASSUME NEW S, IsFiniteSet(S), NEW f \in [S -> Nat], NEW g \in [S -> Nat],
           \A x \in S : f[x] <= g[x]
    PROVE  SumFunction(f) <= SumFunction(g)
<1> DEFINE d == [x \in S |-> g[x] - f[x]]
<1>1. d \in [S -> Nat] /\ \A x \in S : g[x] = f[x] + d[x]
  OBVIOUS
<1>2. SumFunction(g) = SumFunction(f) + SumFunction(d)
  BY <1>1, SumOfSums
<1>3. SumFunction(f) \in Nat /\ SumFunction(d) \in Nat
  BY <1>1, SumIsNatural
<1>4. QED
  BY <1>2, <1>3

(* Adding to one count adds to the sum.                                    *)
LEMMA SumOneMore ==
    ASSUME NEW S, IsFiniteSet(S), NEW f \in [S -> Nat], NEW g \in [S -> Nat],
           NEW e \in S, NEW n \in Nat, g[e] = f[e] + n, \A x \in S \ {e} : g[x] = f[x]
    PROVE  SumFunction(g) = SumFunction(f) + n
<1> DEFINE d == [x \in S |-> IF x = e THEN n ELSE 0]
<1>1. d \in [S -> Nat] /\ d[e] = n /\ \A x \in S : g[x] = f[x] + d[x]
  OBVIOUS
<1>2. SumFunction(g) = SumFunction(f) + SumFunction(d)
  BY <1>1, SumOfSums
<1>3. SumFunctionOnSet(d, S) = d[e] + SumFunctionOnSet(d, S \ {e})
  BY <1>1, SumStep
<1>4. SumFunctionOnSet(d, S \ {e}) = 0
  <2>1. \A x \in S \ {e} : d[x] = 0
    OBVIOUS
  <2>2. Units(d, S \ {e}) = {}
    BY <2>1 DEF Units, Column
  <2>3. IsFiniteSet(S \ {e}) /\ \A x \in S \ {e} : d[x] \in Nat
    BY <1>1, FS_RemoveElement
  <2>4. QED
    BY <2>2, <2>3, SumIsUnits, FS_EmptySet
<1>5. SumFunction(d) = n
  <2>1. DOMAIN d = S
    OBVIOUS
  <2> HIDE DEF d
  <2>2. QED
    BY <1>1, <1>3, <1>4, <2>1 DEF SumFunction
<1>6. QED
  BY <1>2, <1>5

-----------------------------------------------------------------------------
(* Requests and engines.                                                   *)
LEMMA Sizes ==
    /\ NumRequests \in Nat \ {0} /\ PrefixNum \in 1..NumRequests /\ Concurrency \in Nat \ {0}
    /\ PrefixTokens \in Nat \ {0} /\ SuffixTokens \in Nat \ {0} /\ Total \in Nat \ {0}
    /\ MaxFailures \in Nat /\ MaxRestarts \in Nat /\ MaxSigints \in Nat
    /\ IsFiniteSet(Engines) /\ IsFiniteSet(Jobs) /\ Cardinality(Jobs) = NumRequests
    /\ Prefixes \subseteq Jobs /\ Jobs \subseteq Nat
    /\ \A D \in Deployments : D \subseteq Engines
<1>1. NumRequests \in Nat \ {0} /\ PrefixNum \in 1..NumRequests
  BY HitRateAssumption
<1>2. IsFiniteSet(0..NumRequests - 1) /\ Cardinality(0..NumRequests - 1) = NumRequests
  BY <1>1, FS_Interval
<1>3. QED
  BY <1>1, <1>2, HitRateAssumption DEF Jobs, Prefixes, Total

(* Sets of requests are finite.                                            *)
LEMMA SomeJobs ==
    ASSUME NEW J \in SUBSET Jobs
    PROVE  /\ IsFiniteSet(J) /\ Cardinality(J) \in 0..NumRequests
           /\ J = {} => Cardinality(J) = 0
           /\ \A j \in Jobs : j \notin J => Cardinality(J \cup {j}) = Cardinality(J) + 1
           /\ \A j \in J : Cardinality(J) = Cardinality(J \ {j}) + 1
<1>1. IsFiniteSet(J) /\ Cardinality(J) <= Cardinality(Jobs)
  BY Sizes, FS_Subset
<1>2. Cardinality(J) \in Nat
  BY <1>1, FS_CardinalityType
<1>3. J = {} => Cardinality(J) = 0
  BY FS_EmptySet
<1>4. ASSUME NEW j \in Jobs, j \notin J PROVE Cardinality(J \cup {j}) = Cardinality(J) + 1
  BY <1>1, <1>4, FS_AddElement
<1>5. ASSUME NEW j \in J PROVE Cardinality(J) = Cardinality(J \ {j}) + 1
  <2>1. Cardinality(J \ {j}) = Cardinality(J) - 1
    BY <1>1, <1>5, FS_RemoveElement
  <2>2. QED
    BY <1>2, <2>1
<1>6. QED
  BY <1>1, <1>2, <1>3, <1>4, <1>5, Sizes

(* A lookup counts at one engine, whose cache grows.                       *)
LEMMA LookedUp ==
    ASSUME RunType, NEW e \in Engines, NEW p \in Prefixes, NEW measured \in BOOLEAN,
           Seen(e, p, measured)
    PROVE  /\ engine' \in [Engines -> EngineStates]
           /\ engine'[e].cached = engine[e].cached \cup {p}
           /\ engine'[e].restarts = engine[e].restarts
           /\ engine'[e].queries = engine[e].queries
                 + IF measured THEN Total ELSE PrefixTokens
           /\ engine'[e].hits = engine[e].hits
                 + IF p \in engine[e].cached THEN PrefixTokens ELSE 0
           /\ \A x \in Engines \ {e} : engine'[x] = engine[x]
           /\ hits' = hits + IF measured /\ p \in engine[e].cached THEN PrefixTokens ELSE 0
<1> DEFINE found == IF p \in engine[e].cached THEN PrefixTokens ELSE 0
           asked == IF measured THEN Total ELSE PrefixTokens
           new == [cached |-> engine[e].cached \cup {p}, queries |-> engine[e].queries + asked,
                   hits |-> engine[e].hits + found, restarts |-> engine[e].restarts]
<1>1. engine \in [Engines -> EngineStates] /\ hits \in Nat
  BY DEF RunType
<1>2. found \in Nat /\ asked \in Nat
  BY Sizes
<1>3. engine' = [engine EXCEPT ![e] = new] /\ hits' = IF measured THEN hits + found ELSE hits
  BY <1>1 DEF Seen, Total, EngineStates
<1>4. /\ engine[e].cached \in SUBSET Prefixes /\ engine[e].queries \in Nat
      /\ engine[e].hits \in Nat /\ engine[e].restarts \in 0..MaxRestarts
  BY <1>1 DEF EngineStates
<1> HIDE DEF found, asked
<1>5. /\ new.cached = engine[e].cached \cup {p} /\ new.queries = engine[e].queries + asked
      /\ new.hits = engine[e].hits + found /\ new.restarts = engine[e].restarts
  BY <1>1 DEF EngineStates
<1>6. new \in EngineStates
  <2>1. /\ engine[e].cached \cup {p} \in SUBSET Prefixes
        /\ engine[e].queries + asked \in Nat /\ engine[e].hits + found \in Nat
    BY <1>2, <1>4
  <2>2. QED
    BY <1>4, <2>1 DEF EngineStates
<1> HIDE DEF new
<1>7. /\ engine' \in [Engines -> EngineStates] /\ engine'[e] = new
      /\ \A x \in Engines \ {e} : engine'[x] = engine[x]
  BY <1>1, <1>3, <1>6
<1>8. hits' = hits + IF measured /\ p \in engine[e].cached THEN PrefixTokens ELSE 0
  BY <1>1, <1>3 DEF found
<1>9. QED
  BY <1>5, <1>7, <1>8 DEF found, asked

(* A restart forgets the cache and the counts of one engine.               *)
LEMMA Restarted ==
    ASSUME RunType, NEW e \in Engines, Restart(e)
    PROVE  /\ engine' \in [Engines -> EngineStates]
           /\ engine'[e].restarts = engine[e].restarts + 1
           /\ engine'[e].queries = 0 /\ engine'[e].hits = 0
           /\ \A x \in Engines \ {e} : engine'[x] = engine[x]
<1> DEFINE rs == [x \in Engines |-> engine[x].restarts]
           new == [Cold({}) EXCEPT !.restarts = engine[e].restarts + 1]
<1>1. engine \in [Engines -> EngineStates] /\ engine[e].restarts \in Nat
  BY Sizes DEF RunType, EngineStates
<1>2. rs \in [Engines -> Nat] /\ rs[e] = engine[e].restarts
  BY <1>1, Sizes DEF EngineStates
<1>3. rs[e] <= SumFunction(rs) /\ SumFunction(rs) \in Nat
  BY <1>2, Sizes, SumIsNatural
<1>4. engine[e].restarts < MaxRestarts
  BY <1>1, <1>2, <1>3, Sizes DEF Restart, Restarts
<1>5. new \in EngineStates /\ new.restarts = engine[e].restarts + 1
      /\ new.queries = 0 /\ new.hits = 0
  BY <1>1, <1>4, Sizes DEF Cold, EngineStates
<1>6. engine' = [engine EXCEPT ![e] = new]
  BY DEF Restart
<1> HIDE DEF new
<1>7. QED
  BY <1>1, <1>5, <1>6

-----------------------------------------------------------------------------
(* What a request's steps do to the slots and the records.                 *)
USE DEF configVars, phaseVars, engineVars, endVars, TaskFrame, MainFrame, EngineFrame

(* The prefix of a request at the endpoint is one of the prefixes.         *)
LEMMA PrefixType ==
    ASSUME RunType, PhaseInv, NEW j \in Jobs, task[j] # "over"
    PROVE  Prefix(j) \in Prefixes
<1>1. CASE main = "prefill"
  BY <1>1, Sizes DEF PhaseInv, Prefix, Prefixes, Jobs
<1>2. CASE main # "prefill"
  BY <1>2 DEF RunType, Prefix
<1>3. QED
  BY <1>1, <1>2

(* A request that leaves gives back a slot that is missing.                *)
LEMMA ReleaseType ==
    ASSUME RunType, SlotInv, loop = "open", NEW j \in InFlight, NEW ok, Release(ok)
    PROVE  free' \in 0..Concurrency
<1>1. Cardinality(InFlight) \in Nat /\ Cardinality(InFlight) >= 1
  <2>1. InFlight \in SUBSET Jobs /\ InFlight \ {j} \in SUBSET Jobs
    BY DEF InFlight
  <2>2. Cardinality(InFlight) = Cardinality(InFlight \ {j}) + 1
    BY <2>1, SomeJobs
  <2>3. Cardinality(InFlight) \in Nat /\ Cardinality(InFlight \ {j}) \in Nat
    BY <2>1, SomeJobs, Sizes
  <2>4. QED
    BY <2>2, <2>3
<1>2. free \in 0..Concurrency /\ Concurrency \in Nat
  BY Sizes DEF RunType
<1>3. CASE Unpaced
  BY <1>2, <1>3 DEF Release
<1>4. CASE ~Unpaced
  <2>1. free = Concurrency - Cardinality(InFlight)
    BY <1>4 DEF SlotInv
  <2>2. free' = free + 1
    BY <1>4 DEF Release
  <2>3. QED
    BY <1>1, <1>2, <2>1, <2>2
<1>5. QED
  BY <1>3, <1>4

(* The record of a request.                                                *)
LEMMA RecordedType ==
    ASSUME RunType, NEW j \in Jobs, NEW ok \in BOOLEAN, Recorded(j, ok)
    PROVE  /\ outcome' \in [Jobs -> {"none", "ok", "failed"}]
           /\ consecutive' \in Nat /\ shutdown' \in BOOLEAN
           /\ \A i \in Jobs : outcome'[i] =
                 IF i = j /\ main # "prefill" THEN IF ok THEN "ok" ELSE "failed" ELSE outcome[i]
<1>1. /\ outcome \in [Jobs -> {"none", "ok", "failed"}] /\ consecutive \in Nat
      /\ shutdown \in BOOLEAN
  BY DEF RunType
<1>2. CASE main = "prefill"
  BY <1>1, <1>2 DEF Recorded
<1>3. CASE main # "prefill"
  <2>1. /\ outcome' = [outcome EXCEPT ![j] = IF ok THEN "ok" ELSE "failed"]
        /\ consecutive' = IF ok THEN 0 ELSE consecutive + 1
        /\ shutdown' \in BOOLEAN
    BY <1>1, <1>3 DEF Recorded
  <2>2. (IF ok THEN "ok" ELSE "failed") \in {"none", "ok", "failed"}
    OBVIOUS
  <2>3. outcome' \in [Jobs -> {"none", "ok", "failed"}] /\ consecutive' \in Nat
    BY <1>1, <2>1, <2>2
  <2>4. QED
    BY <1>1, <1>3, <2>1, <2>3
<1>4. QED
  BY <1>2, <1>3

(* Every step preserves the types.                                         *)
LEMMA NextType == ASSUME IInv, [Next]_vars PROVE RunType'
<1>1. /\ RunType /\ PhaseInv /\ SlotInv
      /\ engine \in [Engines -> EngineStates] /\ start \in [Engines -> Pages]
      /\ end \in [Engines -> Pages]
  BY DEF IInv, RunType
<1>2. CASE ResetCaches
  <2>1. engine' \in [Engines -> EngineStates]
        /\ \A e \in Engines :
              engine'[e].hits = engine[e].hits /\ engine'[e].queries = engine[e].queries
    BY <1>1, <1>2 DEF ResetCaches, EngineStates
  <2>2. task' \in [Jobs -> {"over", "queued", "posting", "served"}] /\ main' \in Mains
    BY <1>1, <1>2 DEF ResetCaches, RunType, Mains
  <2>3. QED
    BY <1>1, <1>2, <2>1, <2>2 DEF ResetCaches, RunType
<1>3. CASE PrefillDone \/ StartMeasuring \/ Measured \/ Finalize
  BY <1>1, <1>3, Sizes DEF PrefillDone, StartMeasuring, Measured, Finalize, RunType, Mains
<1>4. ASSUME NEW e \in Engines, FetchStart(e) \/ FetchEnd(e) PROVE RunType'
  <2>1. /\ NoAnswer \in Pages /\ NoAnswer.hits <= NoAnswer.queries
        /\ Reading(e) \in Pages /\ Reading(e).hits <= Reading(e).queries
    BY <1>1, Sizes DEF NoAnswer, Unread, Reading, RunType, Pages, EngineStates
  <2>2. /\ start' \in [Engines -> Pages] /\ end' \in [Engines -> Pages]
        /\ \A x \in Engines : start'[x].hits <= start'[x].queries /\ end'[x].hits <= end'[x].queries
    <3> HIDE DEF NoAnswer, Reading
    <3>1. CASE FetchStart(e)
      <4>1. PICK r \in {NoAnswer, Reading(e)} : start' = [start EXCEPT ![e] = r]
        BY <3>1 DEF FetchStart
      <4>2. r \in Pages /\ r.hits <= r.queries /\ end' = end
        BY <2>1, <3>1 DEF FetchStart
      <4>3. QED
        BY <1>1, <4>1, <4>2 DEF RunType
    <3>2. CASE FetchEnd(e)
      <4>1. PICK r \in {NoAnswer, Reading(e)} : end' = [end EXCEPT ![e] = r]
        BY <3>2 DEF FetchEnd
      <4>2. r \in Pages /\ r.hits <= r.queries /\ start' = start
        BY <2>1, <3>2 DEF FetchEnd
      <4>3. QED
        BY <1>1, <4>1, <4>2 DEF RunType
    <3>3. QED
      BY <1>4, <3>1, <3>2
  <2>3. QED
    BY <1>1, <1>4, <2>2 DEF FetchStart, FetchEnd, RunType
<1>5. ASSUME NEW j \in Jobs, Send(j) PROVE RunType'
  <2>1. free' \in 0..Concurrency
    BY <1>1, <1>5, Sizes DEF Send, Acquire, RunType
  <2>2. QED
    BY <1>1, <1>5, <2>1 DEF Send, RunType
<1>6. ASSUME NEW j \in Jobs, Success(j) PROVE RunType'
  <2>1. free' \in 0..Concurrency
    BY <1>1, <1>6, ReleaseType DEF Success, InFlight
  <2>2. /\ outcome' \in [Jobs -> {"none", "ok", "failed"}] /\ consecutive' \in Nat
        /\ shutdown' \in BOOLEAN
    BY <1>1, <1>6, RecordedType DEF Success
  <2>3. QED
    BY <1>1, <1>6, <2>1, <2>2 DEF Success, RunType
<1>7. ASSUME NEW j \in Jobs, Failure(j) PROVE RunType'
  <2>1. free' \in 0..Concurrency
    BY <1>1, <1>7, ReleaseType DEF Failure, InFlight
  <2>2. /\ outcome' \in [Jobs -> {"none", "ok", "failed"}] /\ consecutive' \in Nat
        /\ shutdown' \in BOOLEAN
    BY <1>1, <1>7, RecordedType DEF Failure
  <2>3. failures' \in 0..MaxFailures /\ abandoned' \subseteq Prefixes \X BOOLEAN
    <3>1. failures' \in 0..MaxFailures
      BY <1>1, <1>7, Sizes DEF Failure, RunType
    <3>2. Prefix(j) \in Prefixes
      BY <1>1, <1>7, PrefixType DEF Failure
    <3>3. abandoned' = abandoned \/ abandoned' = abandoned \cup {<<Prefix(j), main = "measure">>}
      BY <1>7 DEF Failure
    <3> DEFINE a == <<Prefix(j), main = "measure">>
    <3>4. a \in Prefixes \X BOOLEAN
      BY <3>2, Zenon
    <3> HIDE DEF a
    <3>5. abandoned' \subseteq Prefixes \X BOOLEAN
      <4>1. abandoned' \subseteq abandoned \cup {a}
        BY <3>3 DEF a
      <4>2. QED
        BY <1>1, <3>4, <4>1 DEF RunType
    <3>6. QED
      BY <3>1, <3>5
  <2>4. QED
    BY <1>1, <1>7, <2>1, <2>2, <2>3 DEF Failure, RunType
<1>8. ASSUME NEW j \in Jobs, Crash(j) PROVE RunType'
  BY <1>1, <1>8, Sizes DEF Crash, RunType, Mains
<1>9. ASSUME NEW j \in Jobs, BuildFailed(j) PROVE RunType'
  <2>1. /\ outcome' \in [Jobs -> {"none", "ok", "failed"}] /\ consecutive' \in Nat
        /\ shutdown' \in BOOLEAN
    BY <1>1, <1>9, RecordedType DEF BuildFailed
  <2>2. failures' \in 0..MaxFailures
    BY <1>1, <1>9, Sizes DEF BuildFailed, RunType
  <2>3. QED
    BY <1>1, <1>9, <2>1, <2>2 DEF BuildFailed, RunType
<1>10. ASSUME NEW e \in Engines, NEW p \in Prefixes, NEW measured \in BOOLEAN, Seen(e, p, measured)
       PROVE  /\ engine' \in [Engines -> EngineStates] /\ hits' \in Nat
              /\ \A x \in Engines : engine'[x].hits <= engine'[x].queries
  <2>1. /\ engine[e].hits \in Nat /\ engine[e].queries \in Nat
        /\ engine[e].hits <= engine[e].queries
        /\ PrefixTokens \in Nat /\ Total \in Nat /\ PrefixTokens <= Total /\ hits \in Nat
    BY <1>1, Sizes DEF RunType, EngineStates, Total
  <2>2. engine'[e].hits <= engine'[e].queries /\ hits' \in Nat
    BY <1>1, <1>10, <2>1, LookedUp
  <2>3. engine' \in [Engines -> EngineStates] /\ \A x \in Engines \ {e} : engine'[x] = engine[x]
    BY <1>1, <1>10, LookedUp
  <2>4. QED
    BY <1>1, <2>2, <2>3 DEF RunType
<1>11. ASSUME NEW j \in Jobs, NEW e \in Engines, Serve(j, e) PROVE RunType'
  <2>1. /\ engine' \in [Engines -> EngineStates] /\ hits' \in Nat
        /\ \A x \in Engines : engine'[x].hits <= engine'[x].queries
    BY <1>1, <1>10, <1>11, PrefixType DEF Serve
  <2>2. QED
    BY <1>1, <1>11, <2>1 DEF Serve, RunType
<1>12. ASSUME NEW e \in Engines, ServeAbandoned(e) PROVE RunType'
  <2>1. /\ engine' \in [Engines -> EngineStates] /\ hits' \in Nat
        /\ \A x \in Engines : engine'[x].hits <= engine'[x].queries
    BY <1>1, <1>10, <1>12 DEF ServeAbandoned, RunType
  <2>2. QED
    BY <1>1, <1>12, <2>1 DEF ServeAbandoned, RunType
<1>13. ASSUME NEW e \in Engines, Restart(e) PROVE RunType'
  <2>1. /\ engine' \in [Engines -> EngineStates]
        /\ \A x \in Engines : engine'[x].hits <= engine'[x].queries
    BY <1>1, <1>13, Restarted DEF RunType
  <2>2. QED
    BY <1>1, <1>13, <2>1 DEF Restart, RunType
<1>14. CASE Sigint \/ ForcedExit \/ CliExit
  <2>1. sigints' \in 0..MaxSigints
    BY <1>1, <1>14, Sizes DEF Sigint, ForcedExit, CliExit, RunType
  <2>2. task' \in [Jobs -> {"over", "queued", "posting", "served"}] /\ main' \in Mains
        /\ loop' \in {"open", "closed"} /\ output' \in {"none", "hitrate", "scenario"}
        /\ exit' \in {Running, 0, 1, 2, 3} /\ shutdown' \in BOOLEAN
    BY <1>1, <1>14 DEF Sigint, ForcedExit, CliExit, RunType, Mains
  <2>3. QED
    BY <1>1, <1>14, <2>1, <2>2 DEF Sigint, ForcedExit, CliExit, RunType
<1>15. CASE UNCHANGED vars
  BY <1>1, <1>15 DEF vars, RunType
<1>16. QED
  BY <1>2, <1>3, <1>4, <1>5, <1>6, <1>7, <1>8, <1>9, <1>11, <1>12, <1>13, <1>14, <1>15
     DEF Next, MainStep, Ended

(* A request that leaves is over, and measured exactly if it is recorded.  *)
LEMMA Leaving ==
    ASSUME RunType, PhaseInv, NEW j \in Jobs, NEW ok \in BOOLEAN, Recorded(j, ok),
           main \in Gathering, main' = main, abandoned' = abandoned, hits' = hits,
           task[j] # "over", task' = [task EXCEPT ![j] = "over"],
           failures = 0 /\ failures' = 0 => ok
    PROVE  failures' \in Nat /\ (failures' = 0 => failures = 0) => PhaseInv'
<1> SUFFICES ASSUME failures' \in Nat, failures' = 0 => failures = 0 PROVE PhaseInv'
  OBVIOUS
<1>1. \A i \in Jobs : outcome'[i] =
         IF i = j /\ main # "prefill" THEN IF ok THEN "ok" ELSE "failed" ELSE outcome[i]
  BY RecordedType
<1>2. task' \in [Jobs -> {"over", "queued", "posting", "served"}] /\ task'[j] = "over"
      /\ \A i \in Jobs \ {j} : task'[i] = task[i]
  BY DEF RunType
<1>3. main = "prefill" \/ main = "measure"
  BY DEF Gathering
<1>4. failures' = 0 => abandoned' = {} /\ \A i \in Jobs : outcome'[i] # "failed"
  BY <1>1 DEF PhaseInv
<1>5. CASE main = "prefill"
  BY <1>1, <1>2, <1>4, <1>5 DEF PhaseInv, Gathering, Early
<1>6. CASE main = "measure"
  BY <1>1, <1>2, <1>4, <1>6 DEF PhaseInv, Gathering, Early
<1>7. QED
  BY <1>3, <1>5, <1>6

(* Every step preserves the account of the phases.                         *)
LEMMA NextPhase == ASSUME IInv, [Next]_vars PROVE PhaseInv'
<1>1. /\ RunType /\ PhaseInv /\ RunType'
      /\ task \in [Jobs -> {"over", "queued", "posting", "served"}]
      /\ failures \in Nat /\ failures' \in Nat
  BY NextType, Sizes DEF IInv, RunType
<1>2. CASE ResetCaches
  <2>1. /\ main = "reset" /\ hits' = hits /\ abandoned' = abandoned /\ outcome' = outcome
        /\ failures' = failures
    BY <1>2 DEF ResetCaches
  <2>2. \/ main' = "prefill" /\ task' = [j \in Jobs |-> IF j < PrefixNum THEN "queued" ELSE "over"]
        \/ main' = "startSnapshot" /\ task' = task
    BY <1>2 DEF ResetCaches
  <2>3. main' = "prefill" => \A j \in Jobs : j >= PrefixNum => task'[j] = "over"
    BY <2>2, Sizes
  <2>4. main' = "startSnapshot" => TasksOver'
    BY <1>1, <2>1, <2>2 DEF PhaseInv, TasksOver, Gathering
  <2>5. QED
    BY <1>1, <2>1, <2>2, <2>3, <2>4 DEF PhaseInv, Gathering, Early
<1>3. CASE PrefillDone \/ Measured \/ Finalize
  BY <1>1, <1>3 DEF PrefillDone, Measured, Finalize, PhaseInv, Gathering, Early, TasksOver
<1>4. CASE StartMeasuring
  BY <1>1, <1>4 DEF StartMeasuring, PhaseInv, Gathering, Early
<1>5. CASE \E e \in Engines : FetchStart(e) \/ FetchEnd(e)
  BY <1>1, <1>5 DEF FetchStart, FetchEnd, PhaseInv, TasksOver
<1>6. ASSUME NEW j \in Jobs, Send(j) PROVE PhaseInv'
  <2>1. task[j] = "queued" /\ task' = [task EXCEPT ![j] = "posting"] /\ main \in Gathering
        /\ main' = main /\ outcome' = outcome /\ hits' = hits /\ abandoned' = abandoned
        /\ failures' = failures
    BY <1>6 DEF Send, First
  <2>2. \A i \in Jobs : task'[i] = "over" <=> task[i] = "over"
    BY <1>1, <2>1
  <2>3. QED
    BY <1>1, <2>1, <2>2 DEF PhaseInv
<1>7. ASSUME NEW j \in Jobs, task[j] # "over" PROVE main \in Gathering
  BY <1>1, <1>7 DEF PhaseInv, TasksOver
<1>8. ASSUME NEW j \in Jobs, Success(j) PROVE PhaseInv'
  BY <1>1, <1>7, <1>8, Leaving DEF Success
<1>9. ASSUME NEW j \in Jobs, Failure(j) PROVE PhaseInv'
  <2>1. task[j] # "over" /\ failures' = failures + 1
    BY <1>9 DEF Failure
  <2>2. /\ Recorded(j, FALSE) /\ task[j] # "over" /\ task' = [task EXCEPT ![j] = "over"]
        /\ main' = main /\ hits' = hits /\ failures' # 0 /\ main \in Gathering
    <3>1. failures' # 0
      BY <1>1, <2>1
    <3>2. main \in Gathering
      BY <1>7, <2>1
    <3>3. QED
      BY <1>9, <2>1, <3>1, <3>2 DEF Failure
  <2>3. main \in Early => abandoned' \subseteq Prefixes \X {FALSE}
    <3> SUFFICES ASSUME main \in Early PROVE abandoned' \subseteq Prefixes \X {FALSE}
      OBVIOUS
    <3>1. (main = "measure") = FALSE
      BY DEF Early
    <3>2. abandoned' \subseteq abandoned \cup {<<Prefix(j), FALSE>>}
      BY <1>9, <3>1 DEF Failure
    <3>3. Prefix(j) \in Prefixes /\ abandoned \subseteq Prefixes \X {FALSE}
      BY <1>1, <2>2, PrefixType DEF PhaseInv
    <3>4. <<Prefix(j), FALSE>> \in Prefixes \X {FALSE}
      BY <3>3, Zenon
    <3>5. QED
      BY <3>2, <3>3, <3>4
  <2>4. \A i \in Jobs : outcome'[i] =
           IF i = j /\ main # "prefill" THEN "failed" ELSE outcome[i]
    BY <1>1, <2>2, RecordedType
  <2>5. task'[j] = "over" /\ \A i \in Jobs \ {j} : task'[i] = task[i]
    BY <1>1, <2>2
  <2>6. CASE main = "prefill"
    BY <1>1, <2>2, <2>3, <2>4, <2>5, <2>6 DEF PhaseInv, Gathering, Early
  <2>7. CASE main = "measure"
    BY <1>1, <2>2, <2>4, <2>5, <2>7 DEF PhaseInv, Gathering, Early
  <2>8. QED
    BY <2>2, <2>6, <2>7 DEF Gathering
<1>10. ASSUME NEW j \in Jobs, BuildFailed(j) PROVE PhaseInv'
  <2>1. task[j] # "over" /\ failures' = failures + 1 /\ Recorded(j, FALSE)
    BY <1>10 DEF BuildFailed, First
  <2>2. failures' # 0 /\ main \in Gathering
    BY <1>1, <1>7, <2>1
  <2>3. QED
    BY <1>1, <1>10, <2>1, <2>2, Leaving DEF BuildFailed
<1>11. ASSUME NEW j \in Jobs, Crash(j) PROVE PhaseInv'
  BY <1>1, <1>11 DEF Crash, PhaseInv, Gathering, Early, TasksOver
<1>12. ASSUME NEW j \in Jobs, NEW e \in Engines, Serve(j, e) PROVE PhaseInv'
  <2>1. /\ task[j] = "posting" /\ task' = [task EXCEPT ![j] = "served"] /\ main \in Gathering
        /\ main' = main /\ outcome' = outcome /\ abandoned' = abandoned /\ failures' = failures
    BY <1>7, <1>12 DEF Serve
  <2>2. \A i \in Jobs : task'[i] = "over" <=> task[i] = "over"
    BY <1>1, <2>1
  <2>3. main = "prefill" => hits' = hits
    <3>1. Prefix(j) \in Prefixes /\ (main = "measure") \in BOOLEAN
      BY <1>1, <2>1, PrefixType
    <3>2. hits' = hits + IF main = "measure" /\ Prefix(j) \in engine[e].cached
                         THEN PrefixTokens ELSE 0
      BY <1>1, <1>12, <3>1, LookedUp DEF Serve
    <3>3. QED
      BY <1>1, <3>2 DEF RunType
  <2>4. QED
    BY <1>1, <2>1, <2>2, <2>3 DEF PhaseInv, Gathering, Early
<1>13. ASSUME NEW e \in Engines, ServeAbandoned(e) PROVE PhaseInv'
  <2>1. PICK a \in abandoned : Seen(e, a[1], a[2]) /\ abandoned' = abandoned \ {a}
    BY <1>13 DEF ServeAbandoned
  <2>2. a[1] \in Prefixes /\ a[2] \in BOOLEAN
    BY <1>1 DEF RunType
  <2>3. main \in Early => hits' = hits
    <3> SUFFICES ASSUME main \in Early PROVE hits' = hits
      OBVIOUS
    <3>1. a[2] = FALSE
      BY <1>1 DEF PhaseInv
    <3>2. QED
      BY <1>1, <2>1, <3>1 DEF Seen
  <2>4. QED
    BY <1>1, <1>13, <2>1, <2>3 DEF ServeAbandoned, PhaseInv, TasksOver
<1>14. CASE Sigint \/ CliExit \/ ForcedExit
  BY <1>1, <1>14 DEF Sigint, CliExit, ForcedExit, PhaseInv, TasksOver, Gathering, Early
<1>15. CASE UNCHANGED vars \/ \E e \in Engines : Restart(e)
  BY <1>1, <1>15 DEF vars, Restart, PhaseInv, TasksOver
<1>16. QED
  BY <1>2, <1>3, <1>4, <1>5, <1>6, <1>8, <1>9, <1>10, <1>11, <1>12, <1>13, <1>14, <1>15
     DEF Next, MainStep, Ended

(* Every step preserves what is known of the end.                          *)
LEMMA NextExit == ASSUME IInv, [Next]_vars PROVE ExitInv'
<1>1. RunType /\ PhaseInv /\ ExitInv
  BY DEF IInv
<1>2. CASE MainStep
  <2>1. exit' = exit /\ loop' = loop /\ loop = "open" /\ main # "finished"
        /\ (main' = "finished" => output' = "hitrate") /\ main' \notin {"cancelled", "crashed"}
        /\ (main' # "finished" => output' = output)
    BY <1>1, <1>2 DEF MainStep, ResetCaches, PrefillDone, StartMeasuring, Measured, Finalize,
       FetchStart, FetchEnd, ExitInv
  <2>2. exit = Running /\ Running \notin {0, 2} /\ output # "hitrate"
    BY <1>1, <2>1 DEF ExitInv, Running
  <2>3. QED
    BY <2>1, <2>2 DEF ExitInv
<1>3. ASSUME NEW j \in Jobs,
             \/ Success(j) \/ Failure(j) \/ BuildFailed(j) \/ Send(j)
             \/ \E e \in Engines : Serve(j, e)
      PROVE  ExitInv'
  <2>1. task[j] # "over" /\ main' = main /\ loop' = loop /\ output' = output /\ exit' = exit
    BY <1>3 DEF Success, Failure, BuildFailed, Send, First, Serve
  <2>2. main # "finished"
    BY <1>1, <2>1 DEF PhaseInv, TasksOver, Gathering
  <2>3. QED
    BY <1>1, <2>1, <2>2 DEF ExitInv
<1>4. CASE \E j \in Jobs : Crash(j)
  BY <1>1, <1>4 DEF Crash, ExitInv
<1>5. CASE \E e \in Engines : ServeAbandoned(e) \/ Restart(e)
  BY <1>1, <1>5 DEF ServeAbandoned, Restart, ExitInv, AllFailed
<1>6. CASE Sigint \/ ForcedExit
  BY <1>1, <1>6 DEF Sigint, ForcedExit, ExitInv, AllFailed
<1>7. CASE CliExit
  BY <1>1, <1>7 DEF CliExit, ExitInv, AllFailed
<1>8. CASE UNCHANGED vars
  BY <1>1, <1>8 DEF vars, ExitInv, AllFailed
<1>9. QED
  BY <1>2, <1>3, <1>4, <1>5, <1>6, <1>7, <1>8 DEF Next, Ended

(* Every step preserves the account of the slots.                          *)
LEMMA NextSlot == ASSUME IInv, [Next]_vars PROVE SlotInv'
<1>1. /\ RunType /\ PhaseInv /\ ExitInv /\ SlotInv /\ RunType'
      /\ task \in [Jobs -> {"over", "queued", "posting", "served"}] /\ free \in Nat
      /\ Concurrency \in Nat /\ InFlight \in SUBSET Jobs /\ InFlight' \in SUBSET Jobs
      /\ Cardinality(InFlight) \in Nat /\ Cardinality(InFlight') \in Nat
  <2>1. InFlight \in SUBSET Jobs /\ InFlight' \in SUBSET Jobs
    BY DEF InFlight
  <2>2. Cardinality(InFlight) \in Nat /\ Cardinality(InFlight') \in Nat
    BY <2>1, SomeJobs, Sizes
  <2>3. QED
    BY <2>1, <2>2, NextType, Sizes DEF IInv, RunType
<1>2. TasksOver => InFlight = {} /\ Cardinality(InFlight) = 0
  BY SomeJobs DEF TasksOver, InFlight
<1>3. CASE ResetCaches \/ PrefillDone \/ StartMeasuring \/ Measured
  <2>1. loop = "open" /\ InFlight' = {}
    BY <1>1, <1>3 DEF ResetCaches, PrefillDone, StartMeasuring, Measured, PhaseInv, TasksOver,
       InFlight, Gathering
  <2>2. Cardinality(InFlight') = 0
    BY <2>1, SomeJobs
  <2>3. CASE ResetCaches \/ PrefillDone \/ Measured
    <3>1. TasksOver /\ free' = free
      BY <1>1, <2>3 DEF ResetCaches, PrefillDone, Measured, PhaseInv, Gathering
    <3>2. free = Concurrency
      BY <1>1, <1>2, <2>1, <3>1 DEF SlotInv
    <3>3. QED
      BY <1>1, <2>2, <3>1, <3>2 DEF SlotInv
  <2>4. CASE StartMeasuring
    <3>1. free' = Concurrency
      BY <2>4 DEF StartMeasuring
    <3>2. QED
      BY <1>1, <2>2, <3>1 DEF SlotInv
  <2>5. QED
    BY <1>3, <2>3, <2>4
<1>4. CASE Finalize
  <2>1. TasksOver /\ free' = free /\ InFlight' = InFlight /\ loop' = loop
    BY <1>1, <1>4 DEF Finalize, PhaseInv, Gathering, InFlight
  <2>2. QED
    BY <1>1, <1>2, <1>4, <2>1 DEF SlotInv, Finalize
<1>5. ASSUME NEW j \in Jobs, Send(j) PROVE SlotInv'
  <2>1. InFlight' = InFlight \cup {j} /\ j \notin InFlight
    BY <1>1, <1>5 DEF Send, First, InFlight
  <2>2. Cardinality(InFlight') = Cardinality(InFlight) + 1
    BY <1>1, <2>1, SomeJobs
  <2>3. loop = "open" /\ Acquire(j) /\ (Unpaced' <=> Unpaced)
    BY <1>5 DEF Send, Unpaced
  <2>4. QED
    BY <1>1, <2>2, <2>3 DEF SlotInv, Acquire
<1>6. ASSUME NEW j \in Jobs, Success(j) \/ Failure(j) PROVE SlotInv'
  <2>1. InFlight' = InFlight \ {j} /\ j \in InFlight
    BY <1>1, <1>6 DEF Success, Failure, InFlight
  <2>2. Cardinality(InFlight) = Cardinality(InFlight') + 1
    BY <1>1, <2>1, SomeJobs
  <2>3. loop = "open" /\ (Release(TRUE) \/ Release(FALSE)) /\ (Unpaced' <=> Unpaced)
    <3>1. CASE Success(j)
      BY <3>1 DEF Success, Unpaced
    <3>2. CASE Failure(j)
      BY <3>2 DEF Failure, Unpaced
    <3>3. QED
      BY <1>6, <3>1, <3>2
  <2>4. QED
    BY <1>1, <2>2, <2>3 DEF SlotInv, Release
<1>7. ASSUME NEW j \in Jobs, BuildFailed(j) \/ \E e \in Engines : Serve(j, e) PROVE SlotInv'
  <2>1. InFlight' = InFlight /\ free' = free /\ (Unpaced' <=> Unpaced) /\ loop' = loop
    <3>1. CASE BuildFailed(j)
      BY <1>1, <3>1 DEF BuildFailed, First, InFlight, Unpaced
    <3>2. CASE \E e \in Engines : Serve(j, e)
      BY <1>1, <3>2 DEF Serve, InFlight, Unpaced
    <3>3. QED
      BY <1>7, <3>1, <3>2
  <2>2. QED
    BY <1>1, <2>1 DEF SlotInv
<1>8. CASE \E j \in Jobs : Crash(j)
  BY <1>8 DEF Crash, SlotInv
<1>9. CASE ForcedExit \/ CliExit
  BY <1>9 DEF ForcedExit, CliExit, SlotInv
<1>10. CASE \/ UNCHANGED vars \/ Sigint
            \/ \E e \in Engines : FetchStart(e) \/ FetchEnd(e) \/ ServeAbandoned(e) \/ Restart(e)
  <2>1. InFlight' = InFlight /\ free' = free /\ (Unpaced' <=> Unpaced) /\ loop' = loop
    BY <1>10 DEF vars, Sigint, FetchStart, FetchEnd, ServeAbandoned, Restart, InFlight, Unpaced
  <2>2. QED
    BY <1>1, <2>1 DEF SlotInv
<1>11. QED
  BY <1>3, <1>4, <1>5, <1>6, <1>7, <1>8, <1>9, <1>10 DEF Next, MainStep, Ended

(* Every step preserves the bound on the failures in a row.                *)
LEMMA NextStreak == ASSUME IInv, [Next]_vars PROVE StreakInv'
<1> DEFINE lost == {j \in Jobs : outcome[j] = "failed"}
<1>1. /\ RunType /\ PhaseInv /\ RunType' /\ lost \in SUBSET Jobs /\ lost' \in SUBSET Jobs
      /\ Cardinality(lost) \in Nat /\ Cardinality(lost') \in Nat
      /\ consecutive \in Nat /\ consecutive <= Cardinality(lost)
      /\ outcome \in [Jobs -> {"none", "ok", "failed"}]
  <2>1. lost \in SUBSET Jobs /\ lost' \in SUBSET Jobs
    OBVIOUS
  <2> HIDE DEF lost
  <2>2. Cardinality(lost) \in Nat /\ Cardinality(lost') \in Nat
    BY <2>1, SomeJobs, Sizes
  <2>3. consecutive <= Cardinality(lost)
    BY DEF IInv, StreakInv, lost
  <2>4. QED
    BY <2>1, <2>2, <2>3, NextType DEF IInv, RunType
<1>2. ASSUME NEW j \in Jobs, NEW ok \in BOOLEAN, Recorded(j, ok), task[j] # "over"
      PROVE  StreakInv'
  <2>1. \A i \in Jobs : outcome'[i] =
           IF i = j /\ main # "prefill" THEN IF ok THEN "ok" ELSE "failed" ELSE outcome[i]
    BY <1>1, <1>2, RecordedType
  <2>2. CASE main = "prefill"
    <3>1. lost' = lost /\ consecutive' = consecutive
      BY <1>2, <2>2 DEF Recorded
    <3>2. QED
      BY <1>1, <3>1 DEF StreakInv
  <2>3. CASE main # "prefill"
    <3>1. main = "measure" /\ outcome[j] = "none"
      BY <1>1, <1>2, <2>3 DEF PhaseInv, TasksOver, Gathering
    <3>2. CASE ok
      <4>1. consecutive' = 0
        BY <1>2, <2>3, <3>2 DEF Recorded
      <4>2. QED
        BY <1>1, <4>1 DEF StreakInv
    <3>3. CASE ~ok
      <4>1. lost' = lost \cup {j} /\ j \notin lost
        BY <2>1, <2>3, <3>1, <3>3
      <4>2. consecutive' = consecutive + 1
        BY <1>2, <2>3, <3>3 DEF Recorded
      <4> HIDE DEF lost
      <4>3. Cardinality(lost') = Cardinality(lost) + 1
        BY <1>1, <4>1, SomeJobs
      <4>4. consecutive' <= Cardinality(lost')
        BY <1>1, <4>2, <4>3
      <4>5. QED
        BY <4>4 DEF StreakInv, lost
    <3>4. QED
      BY <3>2, <3>3
  <2>4. QED
    BY <2>2, <2>3
<1>3. ASSUME NEW j \in Jobs, Success(j) \/ Failure(j) \/ BuildFailed(j) PROVE StreakInv'
  <2>1. task[j] # "over" /\ (Recorded(j, TRUE) \/ Recorded(j, FALSE))
    BY <1>3 DEF Success, Failure, BuildFailed, First
  <2>2. QED
    BY <1>2, <2>1
<1>4. ASSUME consecutive' = consecutive, outcome' = outcome PROVE StreakInv'
  BY <1>1, <1>4 DEF StreakInv
<1>5. CASE MainStep \/ Sigint \/ ForcedExit \/ CliExit \/ UNCHANGED vars
  BY <1>4, <1>5 DEF MainStep, ResetCaches, PrefillDone, StartMeasuring, Measured, Finalize,
     FetchStart, FetchEnd, Sigint, ForcedExit, CliExit, vars
<1>6. CASE \E j \in Jobs, e \in Engines : Serve(j, e)
  BY <1>4, <1>6 DEF Serve
<1>7. CASE \E e \in Engines : ServeAbandoned(e) \/ Restart(e)
  BY <1>4, <1>7 DEF ServeAbandoned, Restart
<1>8. CASE \E j \in Jobs : Send(j) \/ Crash(j)
  BY <1>4, <1>8 DEF Send, Crash
<1>9. QED
  BY <1>3, <1>5, <1>6, <1>7, <1>8 DEF Next, Ended

-----------------------------------------------------------------------------
(* The engines' counters.                                                  *)
LEMMA LaterChain ==
    ASSUME NEW a, NEW b, NEW c,
           \A x \in {a, b, c} : x.queries \in Nat /\ x.hits \in Nat /\ x.restarts \in Nat,
           Later(a, b), Later(b, c)
    PROVE  Later(a, c)
BY DEF Later

(* Whatever a step does, an engine only counts on or restarts.             *)
LEMMA EnginesGrow ==
    ASSUME IInv, [Next]_vars, NEW x \in Engines
    PROVE  Later(engine[x], engine'[x])
<1>1. /\ RunType /\ PhaseInv /\ engine \in [Engines -> EngineStates]
      /\ engine[x].queries \in Nat /\ engine[x].hits \in Nat /\ engine[x].restarts \in Nat
      /\ PrefixTokens \in Nat /\ Total \in Nat /\ PrefixTokens <= Total
  BY Sizes DEF IInv, RunType, EngineStates, Total
<1>2. ASSUME engine'[x].queries = engine[x].queries, engine'[x].hits = engine[x].hits,
             engine'[x].restarts = engine[x].restarts
      PROVE  Later(engine[x], engine'[x])
  BY <1>1, <1>2 DEF Later
<1>3. ASSUME NEW e \in Engines, NEW p \in Prefixes, NEW measured \in BOOLEAN, Seen(e, p, measured)
      PROVE  Later(engine[x], engine'[x])
  <2>1. CASE e = x
    <3>1. /\ engine'[x].restarts = engine[x].restarts
          /\ engine'[x].queries = engine[x].queries + IF measured THEN Total ELSE PrefixTokens
          /\ engine'[x].hits = engine[x].hits + IF p \in engine[x].cached THEN PrefixTokens ELSE 0
      BY <1>1, <1>3, <2>1, LookedUp
    <3>2. QED
      BY <1>1, <3>1 DEF Later
  <2>2. CASE e # x
    <3>1. engine'[x] = engine[x]
      BY <1>1, <1>3, <2>2, LookedUp
    <3>2. QED
      BY <1>2, <3>1
  <2>3. QED
    BY <2>1, <2>2
<1>4. CASE ResetCaches
  <2>1. engine'[x].queries = engine[x].queries /\ engine'[x].hits = engine[x].hits
        /\ engine'[x].restarts = engine[x].restarts
    BY <1>1, <1>4 DEF ResetCaches, EngineStates
  <2>2. QED
    BY <1>2, <2>1
<1>5. ASSUME NEW j \in Jobs, NEW e \in Engines, Serve(j, e) PROVE Later(engine[x], engine'[x])
  <2>1. Prefix(j) \in Prefixes /\ Seen(e, Prefix(j), main = "measure")
    BY <1>1, <1>5, PrefixType DEF Serve
  <2>2. QED
    BY <1>3, <2>1
<1>6. ASSUME NEW e \in Engines, ServeAbandoned(e) PROVE Later(engine[x], engine'[x])
  <2>1. PICK a \in abandoned : Seen(e, a[1], a[2])
    BY <1>6 DEF ServeAbandoned
  <2>2. a[1] \in Prefixes /\ a[2] \in BOOLEAN
    BY <1>1 DEF RunType
  <2>3. QED
    BY <1>3, <2>1, <2>2
<1>7. ASSUME NEW e \in Engines, Restart(e) PROVE Later(engine[x], engine'[x])
  <2>1. CASE e = x
    <3>1. engine'[x].restarts = engine[x].restarts + 1
      BY <1>1, <1>7, <2>1, Restarted
    <3>2. QED
      BY <1>1, <3>1 DEF Later
  <2>2. CASE e # x
    <3>1. engine'[x] = engine[x]
      BY <1>1, <1>7, <2>2, Restarted
    <3>2. QED
      BY <1>2, <3>1
  <2>3. QED
    BY <2>1, <2>2
<1>8. CASE \/ PrefillDone \/ StartMeasuring \/ Measured \/ Finalize
           \/ Sigint \/ ForcedExit \/ CliExit
           \/ UNCHANGED vars
           \/ \E e \in Engines : FetchStart(e) \/ FetchEnd(e)
           \/ \E j \in Jobs : Send(j) \/ Success(j) \/ Failure(j) \/ Crash(j) \/ BuildFailed(j)
  <2>1. engine' = engine
    BY <1>8 DEF PrefillDone, StartMeasuring, Measured, Finalize, Sigint, ForcedExit, CliExit, vars,
       FetchStart, FetchEnd, Send, Success, Failure, Crash, BuildFailed
  <2>2. QED
    BY <1>2, <2>1
<1>9. QED
  BY <1>4, <1>5, <1>6, <1>7, <1>8 DEF Next, MainStep, Ended

(* The two snapshots and where the main task is.                           *)
LEMMA NextSnapshot == ASSUME IInv, [Next]_vars PROVE SnapshotInv'
<1>1. /\ RunType /\ PhaseInv /\ SnapshotInv
      /\ engine \in [Engines -> EngineStates] /\ engine' \in [Engines -> EngineStates]
      /\ start \in [Engines -> Pages] /\ end \in [Engines -> Pages]
      /\ failures \in Nat
  BY NextType, Sizes DEF IInv, RunType
<1>2. \A e \in Engines :
          /\ engine[e].queries \in Nat /\ engine[e].hits \in Nat /\ engine[e].restarts \in Nat
          /\ engine'[e].queries \in Nat /\ engine'[e].hits \in Nat /\ engine'[e].restarts \in Nat
          /\ start[e].queries \in Nat /\ start[e].hits \in Nat /\ start[e].restarts \in Nat
  BY <1>1, Sizes DEF EngineStates, Pages
<1>3. \A e \in Engines : start[e].answer = "read" => Later(start[e], engine'[e])
  <2> SUFFICES ASSUME NEW e \in Engines, start[e].answer = "read" PROVE Later(start[e], engine'[e])
    OBVIOUS
  <2>1. Later(start[e], engine[e]) /\ Later(engine[e], engine'[e])
    BY <1>1, EnginesGrow DEF SnapshotInv
  <2>2. QED
    BY <1>2, <2>1, LaterChain
<1>4. ASSUME NEW e \in Engines
      PROVE  /\ NoAnswer.answer = "none"
             /\ Reading(e).answer = "read" /\ Reading(e).queries = engine[e].queries
             /\ Reading(e).hits = engine[e].hits /\ Reading(e).restarts = engine[e].restarts
             /\ Unread.answer = "pending"
  BY DEF NoAnswer, Unread, Reading
<1>5. CASE \E e \in Engines : FetchStart(e)
  <2>1. PICK e \in Engines : FetchStart(e)
    BY <1>5
  <2>2. PICK r \in {NoAnswer, Reading(e)} : start' = [start EXCEPT ![e] = r]
    BY <2>1 DEF FetchStart
  <2>3. /\ main = "startSnapshot" /\ main' = main /\ engine' = engine /\ end' = end
        /\ failures' = failures
    BY <2>1 DEF FetchStart
  <2>4. /\ r.answer \in {"none", "read"}
        /\ r.answer = "read" => /\ r.queries = engine[e].queries /\ r.hits = engine[e].hits
                                /\ r.restarts = engine[e].restarts /\ Later(r, engine[e])
    BY <1>2, <1>4, <2>2 DEF Later
  <2>5. start'[e] = r /\ \A x \in Engines \ {e} : start'[x] = start[x]
    BY <1>1, <2>2
  <2>6. \A x \in Engines : end'[x].answer = "pending"
    BY <1>1, <1>4, <2>3 DEF SnapshotInv, Early
  <2>7. QED
    BY <1>1, <1>4, <2>3, <2>4, <2>5, <2>6 DEF SnapshotInv, Early, Late
<1>6. CASE \E e \in Engines : FetchEnd(e)
  <2>1. PICK e \in Engines : FetchEnd(e)
    BY <1>6
  <2>2. PICK r \in {NoAnswer, Reading(e)} : end' = [end EXCEPT ![e] = r]
    BY <2>1 DEF FetchEnd
  <2>3. main = "endSnapshot" /\ main' = main /\ engine' = engine /\ start' = start
    BY <2>1 DEF FetchEnd
  <2>4. r.answer \in {"none", "read"}
        /\ (r.answer = "read" /\ start[e].answer = "read" => Later(start[e], r))
    BY <1>1, <1>4, <2>2 DEF Later, SnapshotInv
  <2>5. end'[e] = r /\ \A x \in Engines \ {e} : end'[x] = end[x]
    BY <1>1, <2>2
  <2>6. QED
    BY <1>1, <2>3, <2>4, <2>5 DEF SnapshotInv, Early, Late
<1>7. ASSUME start' = start, end' = end,
             main' \in {"reset", "prefill"} => main \in {"reset", "prefill"},
             main' \in Early \cup {"measure"} => main \in Early \cup {"measure"},
             main' \in Late => \A e \in Engines : start[e].answer # "pending",
             main' = "finished" => \A e \in Engines : end[e].answer # "pending",
             main' = "startSnapshot" /\ failures' = 0 =>
                 \A e \in Engines :
                   start[e].answer = "read" /\ start[e].restarts = engine'[e].restarts =>
                     start[e].queries = engine'[e].queries /\ start[e].hits = engine'[e].hits
      PROVE  SnapshotInv'
  BY <1>1, <1>3, <1>7 DEF SnapshotInv
<1>8. CASE ResetCaches \/ PrefillDone
  <2>1. /\ start' = start /\ end' = end /\ main \in {"reset", "prefill"}
        /\ main' \in {"prefill", "startSnapshot"}
    BY <1>8 DEF ResetCaches, PrefillDone
  <2>2. \A e \in Engines : start[e].answer = "pending"
    BY <1>1, <1>4, <2>1 DEF SnapshotInv
  <2>3. main' \notin Late /\ main' # "finished" /\ main \in Early
    BY <2>1 DEF Late, Early
  <2>4. QED
    BY <1>7, <2>1, <2>2, <2>3
<1>9. CASE StartMeasuring
  <2>1. start' = start /\ end' = end /\ main = "startSnapshot" /\ main' = "measure"
        /\ \A e \in Engines : start[e] # Unread
    BY <1>9 DEF StartMeasuring
  <2>2. \A e \in Engines : start[e].answer # "pending"
    BY <1>1, <2>1 DEF SnapshotInv
  <2>3. QED
    BY <1>7, <2>1, <2>2 DEF Early
<1>10. CASE Measured
  <2>1. start' = start /\ end' = end /\ main = "measure" /\ main' = "endSnapshot"
    BY <1>10 DEF Measured
  <2>2. QED
    BY <1>1, <1>7, <2>1 DEF SnapshotInv, Early, Late
<1>11. CASE Finalize
  <2>1. start' = start /\ end' = end /\ main = "endSnapshot" /\ main' = "finished"
        /\ \A e \in Engines : end[e] # Unread
    BY <1>11 DEF Finalize
  <2>2. \A e \in Engines : start[e].answer # "pending" /\ end[e].answer # "pending"
    BY <1>1, <2>1 DEF SnapshotInv, Late
  <2>3. QED
    BY <1>7, <2>1, <2>2 DEF Early
<1>12. CASE ForcedExit \/ \E j \in Jobs : Crash(j)
  <2>1. start' = start /\ end' = end /\ main' \in {"cancelled", "crashed"}
    BY <1>12 DEF ForcedExit, Crash
  <2>2. QED
    BY <1>7, <2>1 DEF Early, Late
<1>13. ASSUME start' = start, end' = end, main' = main, failures' = 0 => failures = 0,
              main = "startSnapshot" /\ failures' = 0 =>
                 \A e \in Engines : \/ /\ engine'[e].queries = engine[e].queries
                                       /\ engine'[e].hits = engine[e].hits
                                       /\ engine'[e].restarts = engine[e].restarts
                                    \/ engine'[e].restarts > engine[e].restarts
       PROVE  SnapshotInv'
  <2>1. ASSUME main = "startSnapshot", failures' = 0, NEW e \in Engines, start[e].answer = "read",
               start[e].restarts = engine'[e].restarts
        PROVE  start[e].queries = engine'[e].queries /\ start[e].hits = engine'[e].hits
    <3>1. start[e].restarts <= engine[e].restarts
      BY <1>1, <2>1 DEF SnapshotInv, Later
    <3>2. engine'[e].queries = engine[e].queries /\ engine'[e].hits = engine[e].hits
          /\ engine'[e].restarts = engine[e].restarts
      BY <1>2, <1>13, <2>1, <3>1
    <3>3. QED
      BY <1>1, <1>13, <2>1, <3>2 DEF SnapshotInv
  <2>2. QED
    BY <1>1, <1>7, <1>13, <2>1 DEF SnapshotInv
<1>14. CASE \/ Sigint \/ CliExit \/ UNCHANGED vars
            \/ \E j \in Jobs : Send(j) \/ Success(j) \/ Failure(j) \/ BuildFailed(j)
  <2>1. start' = start /\ end' = end /\ main' = main /\ engine' = engine
        /\ (failures' = failures \/ failures' = failures + 1)
    BY <1>14 DEF Sigint, CliExit, vars, Send, Success, Failure, BuildFailed
  <2>2. failures' = 0 => failures = 0
    BY <1>1, <2>1
  <2>3. QED
    BY <1>13, <2>1, <2>2
<1>15. ASSUME NEW j \in Jobs, NEW e \in Engines, Serve(j, e) PROVE SnapshotInv'
  <2>1. /\ start' = start /\ end' = end /\ main' = main /\ failures' = failures
        /\ main # "startSnapshot"
    BY <1>1, <1>15 DEF Serve, PhaseInv, TasksOver, Gathering
  <2>2. QED
    BY <1>13, <2>1
<1>16. ASSUME NEW e \in Engines, ServeAbandoned(e) PROVE SnapshotInv'
  <2>1. start' = start /\ end' = end /\ main' = main /\ failures' = failures /\ failures # 0
    BY <1>1, <1>16 DEF ServeAbandoned, PhaseInv
  <2>2. QED
    BY <1>13, <2>1
<1>17. ASSUME NEW e \in Engines, Restart(e) PROVE SnapshotInv'
  <2>1. start' = start /\ end' = end /\ main' = main /\ failures' = failures
    BY <1>17 DEF Restart
  <2>2. engine'[e].restarts > engine[e].restarts /\ \A x \in Engines \ {e} : engine'[x] = engine[x]
    BY <1>1, <1>2, <1>17, Restarted
  <2>3. QED
    BY <1>13, <2>1, <2>2
<1>18. QED
  BY <1>5, <1>6, <1>8, <1>9, <1>10, <1>11, <1>12, <1>14, <1>15, <1>16, <1>17 DEF Next, MainStep,
     Ended

-----------------------------------------------------------------------------
(* The account of the measurement.                                         *)
LEMMA Times ==
    ASSUME NEW m \in Nat, NEW n \in Nat, NEW k \in Nat
    PROVE  m * k \in Nat /\ (m <= n => m * k <= n * k) /\ (m + 1) * k = m * k + k /\ 0 * k = 0
OBVIOUS

(* What is compared are counts of every engine.                            *)
CountsTyped ==
    /\ [e \in Engines |-> start[e].queries] \in [Engines -> Nat]
    /\ [e \in Engines |-> start[e].hits] \in [Engines -> Nat]
    /\ [e \in Engines |-> Now(e).queries] \in [Engines -> Nat]
    /\ [e \in Engines |-> Now(e).hits] \in [Engines -> Nat]
    /\ QueriesAtStart \in Nat /\ HitsAtStart \in Nat /\ QueriesNow \in Nat /\ HitsNow \in Nat
    /\ Looked \in SUBSET Jobs /\ Cardinality(Looked) \in Nat
    /\ Cardinality(Looked) * Total \in Nat

(* They are, in every typed state ...                                      *)
LEMMA CountTypes == RunType => CountsTyped
<1> SUFFICES ASSUME RunType PROVE CountsTyped
  OBVIOUS
<1>1. /\ \A e \in Engines : start[e].queries \in Nat /\ start[e].hits \in Nat
      /\ \A e \in Engines : Now(e).queries \in Nat /\ Now(e).hits \in Nat
  BY DEF RunType, Pages, EngineStates, Now, Reading
<1>2. /\ [e \in Engines |-> start[e].queries] \in [Engines -> Nat]
      /\ [e \in Engines |-> start[e].hits] \in [Engines -> Nat]
      /\ [e \in Engines |-> Now(e).queries] \in [Engines -> Nat]
      /\ [e \in Engines |-> Now(e).hits] \in [Engines -> Nat]
  BY <1>1
<1>3. QueriesAtStart \in Nat /\ HitsAtStart \in Nat /\ QueriesNow \in Nat /\ HitsNow \in Nat
  BY <1>2, Sizes, SumIsNatural DEF QueriesAtStart, HitsAtStart, QueriesNow, HitsNow
<1>4. Looked \in SUBSET Jobs
  BY DEF Looked
<1>5. Cardinality(Looked) \in Nat
  BY <1>4, SomeJobs, Sizes
<1>6. Cardinality(Looked) * Total \in Nat
  BY <1>5, Sizes, Times
<1>7. QED
  BY <1>2, <1>3, <1>4, <1>5, <1>6 DEF CountsTyped

(* ... and so in its successor.                                            *)
LEMMA CountTypesNext == RunType' => CountsTyped'
BY CountTypes, PTL

(* A step that changes nothing of what is compared.                        *)
LEMMA SameAccount ==
    ASSUME RunType, RunType', AccountInv, start' = start, \A e \in Engines : Now(e)' = Now(e),
           main' \in Late => main \in Late, Looked' \subseteq Looked,
           failures' = 0 => failures = 0 /\ Looked' = Looked /\ hits' = hits
    PROVE  AccountInv'
<1> SUFFICES ASSUME (main \in Late)', NowComparable'
             PROVE  /\ QueriesNow' >= QueriesAtStart' + Cardinality(Looked') * Total
                    /\ failures' = 0 =>
                          /\ QueriesNow' = QueriesAtStart' + Cardinality(Looked') * Total
                          /\ HitsNow' = HitsAtStart' + hits'
  BY DEF AccountInv
<1>1. main \in Late /\ NowComparable
  BY DEF NowComparable
<1>2. /\ QueriesNow' = QueriesNow /\ HitsNow' = HitsNow
      /\ QueriesAtStart' = QueriesAtStart /\ HitsAtStart' = HitsAtStart
  BY DEF QueriesNow, HitsNow, QueriesAtStart, HitsAtStart
<1>3. /\ QueriesNow >= QueriesAtStart + Cardinality(Looked) * Total
      /\ failures = 0 => /\ QueriesNow = QueriesAtStart + Cardinality(Looked) * Total
                         /\ HitsNow = HitsAtStart + hits
  BY <1>1 DEF AccountInv
<1>4. Cardinality(Looked') \in Nat /\ Cardinality(Looked) \in Nat /\ Total \in Nat
  BY CountTypes, CountTypesNext, Sizes DEF CountsTyped
<1>5. Cardinality(Looked') <= Cardinality(Looked)
  <2>1. IsFiniteSet(Looked)
    BY CountTypes, SomeJobs DEF CountsTyped
  <2>2. QED
    BY <2>1, FS_Subset
<1>6. Cardinality(Looked') * Total <= Cardinality(Looked) * Total
  BY <1>4, <1>5, Times
<1>7. /\ Cardinality(Looked') * Total \in Nat /\ Cardinality(Looked) * Total \in Nat
      /\ QueriesNow \in Nat /\ QueriesAtStart \in Nat
  BY <1>4, CountTypes, Times DEF CountsTyped
<1>8. QueriesNow >= QueriesAtStart + Cardinality(Looked') * Total
  <2> DEFINE x == Cardinality(Looked') * Total
             y == Cardinality(Looked) * Total
  <2>1. x \in Nat /\ y \in Nat /\ x <= y /\ QueriesNow >= QueriesAtStart + y
    BY <1>3, <1>6, <1>7
  <2> HIDE DEF x, y
  <2>2. QueriesNow >= QueriesAtStart + x
    BY <1>7, <2>1
  <2>3. QED
    BY <2>2 DEF x
<1>9. QED
  BY <1>2, <1>3, <1>8

(* A lookup at an engine, as far as the second snapshot is still to see it.*)
LEMMA LookupSeen ==
    ASSUME RunType, RunType', NEW e \in Engines, NEW p \in Prefixes, NEW measured \in BOOLEAN,
           Seen(e, p, measured), start' = start, end' = end
    PROVE  /\ NowComparable' => NowComparable
           /\ QueriesAtStart' = QueriesAtStart /\ HitsAtStart' = HitsAtStart
           /\ QueriesNow' = QueriesNow + IF end[e].answer # "pending" THEN 0
                                         ELSE IF measured THEN Total ELSE PrefixTokens
           /\ HitsNow' = HitsNow + IF end[e].answer = "pending" /\ p \in engine[e].cached
                                   THEN PrefixTokens ELSE 0
<1> DEFINE q == IF end[e].answer # "pending" THEN 0 ELSE IF measured THEN Total ELSE PrefixTokens
           h == IF end[e].answer = "pending" /\ p \in engine[e].cached THEN PrefixTokens ELSE 0
           nowQ == [x \in Engines |-> Now(x).queries]
           nowH == [x \in Engines |-> Now(x).hits]
<1>1. /\ engine'[e].restarts = engine[e].restarts
      /\ engine'[e].queries = engine[e].queries + IF measured THEN Total ELSE PrefixTokens
      /\ engine'[e].hits = engine[e].hits + IF p \in engine[e].cached THEN PrefixTokens ELSE 0
      /\ \A x \in Engines \ {e} : engine'[x] = engine[x]
  BY LookedUp
<1>2. q \in Nat /\ h \in Nat
  BY Sizes
<1>3. \A x \in Engines \ {e} : Now(x)' = Now(x)
  BY <1>1 DEF Now, Reading
<1>4. Now(e).queries \in Nat /\ Now(e).hits \in Nat
  BY DEF RunType, Pages, EngineStates, Now, Reading
<1>5. /\ Now(e)'.queries = Now(e).queries + q /\ Now(e)'.hits = Now(e).hits + h
      /\ Now(e)'.restarts = Now(e).restarts /\ Now(e)'.answer = Now(e).answer
  BY <1>1, <1>4 DEF Now, Reading
<1>6. /\ nowQ \in [Engines -> Nat] /\ nowQ' \in [Engines -> Nat]
      /\ nowH \in [Engines -> Nat] /\ nowH' \in [Engines -> Nat]
  BY CountTypes, CountTypesNext DEF CountsTyped
<1>7. /\ nowQ'[e] = nowQ[e] + q /\ nowH'[e] = nowH[e] + h
      /\ \A x \in Engines \ {e} : nowQ'[x] = nowQ[x] /\ nowH'[x] = nowH[x]
  BY <1>3, <1>5
<1> HIDE DEF q, h, nowQ, nowH
<1>8. SumFunction(nowQ') = SumFunction(nowQ) + q /\ SumFunction(nowH') = SumFunction(nowH) + h
  BY <1>2, <1>6, <1>7, Sizes, SumOneMore
<1>9. NowComparable' => NowComparable
  BY <1>3, <1>5 DEF NowComparable
<1>10. QueriesAtStart' = QueriesAtStart /\ HitsAtStart' = HitsAtStart
  BY DEF QueriesAtStart, HitsAtStart
<1>11. QED
  BY <1>8, <1>9, <1>10 DEF q, h, nowQ, nowH, QueriesNow, HitsNow

(* The measurement starts from engines that have only counted on since the *)
(* first snapshot, or not even that if nothing has failed.                 *)
LEMMA AccountOpens == ASSUME IInv, RunType', StartMeasuring PROVE AccountInv'
<1>1. /\ RunType /\ SnapshotInv /\ PhaseInv
      /\ engine \in [Engines -> EngineStates] /\ start \in [Engines -> Pages]
      /\ main = "startSnapshot" /\ engine' = engine /\ start' = start /\ end' = end
      /\ hits' = hits /\ outcome' = outcome /\ failures' = failures
      /\ task' = [j \in Jobs |-> "queued"]
  BY DEF IInv, RunType, StartMeasuring
<1>2. /\ \A e \in Engines : end[e].answer = "pending"
      /\ hits = 0 /\ \A j \in Jobs : outcome[j] = "none"
  BY <1>1 DEF SnapshotInv, PhaseInv, Early, Unread
<1>3. \A e \in Engines : /\ Now(e)'.queries = engine[e].queries /\ Now(e)'.hits = engine[e].hits
                         /\ Now(e)'.restarts = engine[e].restarts
  BY <1>1, <1>2 DEF Now, Reading
<1>4. Looked' = {}
  BY <1>1, <1>2 DEF Looked
<1>5. Cardinality(Looked') * Total = 0
  BY <1>4, Sizes, FS_EmptySet, Times
<1> SUFFICES ASSUME NowComparable'
             PROVE  /\ QueriesNow' >= QueriesAtStart'
                    /\ failures = 0 => QueriesNow' = QueriesAtStart' /\ HitsNow' = HitsAtStart'
  <2>1. QueriesNow' \in Nat /\ QueriesAtStart' \in Nat /\ HitsNow' \in Nat /\ HitsAtStart' \in Nat
    BY CountTypes, CountTypesNext DEF CountsTyped
  <2> DEFINE x == Cardinality(Looked') * Total
  <2>2. x = 0
    BY <1>5
  <2>3. AccountInv' <=> ((main \in Late)' /\ NowComparable' =>
            /\ QueriesNow' >= QueriesAtStart' + x
            /\ failures' = 0 => /\ QueriesNow' = QueriesAtStart' + x
                                /\ HitsNow' = HitsAtStart' + hits')
    BY DEF AccountInv
  <2> HIDE DEF x
  <2>4. hits' = 0 /\ failures' = failures
    BY <1>1, <1>2
  <2>5. \A n \in Nat : n + x = n /\ n + hits' = n
    BY <2>2, <2>4
  <2>6. QueriesAtStart' + x = QueriesAtStart' /\ HitsAtStart' + hits' = HitsAtStart'
    BY <2>1, <2>5
  <2>7. QED
    BY <2>3, <2>4, <2>6
<1>6. \A e \in Engines : start[e].answer = "read" /\ engine[e].restarts = start[e].restarts
  BY <1>1, <1>3 DEF NowComparable
<1> DEFINE startQ == [e \in Engines |-> start[e].queries]
           startH == [e \in Engines |-> start[e].hits]
           nowQ == [e \in Engines |-> Now(e).queries]
           nowH == [e \in Engines |-> Now(e).hits]
<1>7. startQ' \in [Engines -> Nat] /\ nowQ' \in [Engines -> Nat]
  BY CountTypes, CountTypesNext DEF CountsTyped
<1>8. \A e \in Engines : startQ'[e] <= nowQ'[e]
  BY <1>1, <1>3, <1>6 DEF SnapshotInv, Later
<1>9. failures = 0 => \A e \in Engines : startQ'[e] = nowQ'[e] /\ startH'[e] = nowH'[e]
  BY <1>1, <1>3, <1>6 DEF SnapshotInv
<1>10. failures = 0 => startQ' = nowQ' /\ startH' = nowH'
  BY <1>9
<1> HIDE DEF startQ, startH, nowQ, nowH
<1>11. SumFunction(startQ') <= SumFunction(nowQ')
  BY <1>7, <1>8, Sizes, SumAtMost
<1>12. /\ QueriesNow' = SumFunction(nowQ') /\ HitsNow' = SumFunction(nowH')
       /\ QueriesAtStart' = SumFunction(startQ') /\ HitsAtStart' = SumFunction(startH')
  BY DEF startQ, startH, nowQ, nowH, QueriesNow, HitsNow, QueriesAtStart, HitsAtStart
<1>13. QueriesNow' \in Nat /\ QueriesAtStart' \in Nat
  BY CountTypes, CountTypesNext DEF CountsTyped
<1>14. QED
  BY <1>10, <1>11, <1>12, <1>13

(* A request served during the measurement is one more looked up.          *)
LEMMA ServedIsLooked ==
    ASSUME RunType, PhaseInv, NEW j \in Jobs, NEW e \in Engines, Serve(j, e)
    PROVE  /\ Prefix(j) \in Prefixes /\ Seen(e, Prefix(j), main = "measure")
           /\ main = "measure" => /\ Looked' = Looked \cup {j}
                                  /\ Cardinality(Looked') = Cardinality(Looked) + 1
<1>1. Prefix(j) \in Prefixes /\ Seen(e, Prefix(j), main = "measure")
  BY PrefixType DEF Serve
<1>2. CASE main = "measure"
  <2>1. outcome[j] = "none" /\ task[j] = "posting"
    BY <1>2 DEF PhaseInv, Serve
  <2>2. task' = [task EXCEPT ![j] = "served"] /\ outcome' = outcome
    BY DEF Serve
  <2>3. Looked' = Looked \cup {j} /\ j \notin Looked /\ Looked \in SUBSET Jobs
    BY <2>1, <2>2 DEF Looked, RunType
  <2>4. Cardinality(Looked \cup {j}) = Cardinality(Looked) + 1
    BY <2>3, SomeJobs
  <2>5. QED
    BY <1>1, <2>3, <2>4
<1>3. QED
  BY <1>1, <1>2

(* An answer leaves the looked-up requests as they are; a failure may take *)
(* one away.                                                               *)
LEMMA LeavingLooked ==
    ASSUME RunType, PhaseInv, NEW j \in Jobs, Success(j) \/ Failure(j) \/ BuildFailed(j)
    PROVE  Looked' \subseteq Looked /\ (Success(j) /\ main = "measure" => Looked' = Looked)
<1>1. /\ task[j] # "over" /\ task' = [task EXCEPT ![j] = "over"]
      /\ task \in [Jobs -> {"over", "queued", "posting", "served"}]
  BY DEF Success, Failure, BuildFailed, First, RunType
<1>2. task'[j] = "over" /\ \A i \in Jobs \ {j} : task'[i] = task[i]
  BY <1>1
<1>3. main = "prefill" \/ main = "measure"
  BY <1>1 DEF PhaseInv, TasksOver, Gathering
<1>4. CASE Success(j)
  <2>1. Recorded(j, TRUE) /\ task[j] = "served"
    BY <1>4 DEF Success
  <2>2. \A i \in Jobs : outcome'[i] = IF i = j /\ main # "prefill" THEN "ok" ELSE outcome[i]
    BY <2>1, RecordedType
  <2>3. QED
    BY <1>2, <1>3, <2>1, <2>2 DEF Looked
<1>5. CASE Failure(j) \/ BuildFailed(j)
  <2>1. Recorded(j, FALSE)
    BY <1>5 DEF Failure, BuildFailed
  <2>2. \A i \in Jobs : outcome'[i] = IF i = j /\ main # "prefill" THEN "failed" ELSE outcome[i]
    BY <2>1, RecordedType
  <2>3. Looked' \subseteq Looked
    BY <1>2, <2>2 DEF Looked
  <2>4. CASE Success(j)
    BY <1>4, <2>4
  <2>5. QED
    BY <2>3, <2>4
<1>6. QED
  BY <1>4, <1>5

(* Every step preserves the account of the measurement.                    *)
LEMMA NextAccount == ASSUME IInv, [Next]_vars PROVE AccountInv'
<1>1. /\ RunType /\ RunType' /\ PhaseInv /\ SnapshotInv /\ AccountInv
      /\ engine \in [Engines -> EngineStates] /\ end \in [Engines -> Pages]
      /\ failures \in Nat /\ failures' \in Nat
  BY NextType, Sizes DEF IInv, RunType
<1>2. /\ QueriesAtStart \in Nat /\ HitsAtStart \in Nat /\ QueriesNow \in Nat /\ HitsNow \in Nat
      /\ Cardinality(Looked) \in Nat /\ Cardinality(Looked) * Total \in Nat
      /\ Total \in Nat /\ PrefixTokens \in Nat /\ hits \in Nat
  BY <1>1, CountTypes, Sizes DEF CountsTyped, RunType
<1>3. CASE ResetCaches \/ PrefillDone \/ ForcedExit \/ \E j \in Jobs : Crash(j)
  <2>1. main' \notin Late
    BY <1>3 DEF ResetCaches, PrefillDone, ForcedExit, Crash, Late
  <2>2. QED
    BY <2>1 DEF AccountInv
<1>4. CASE \E e \in Engines : FetchStart(e)
  <2>1. main' \notin Late
    BY <1>4 DEF FetchStart, Late
  <2>2. QED
    BY <2>1 DEF AccountInv
<1>5. CASE StartMeasuring
  BY <1>1, <1>5, AccountOpens
<1>6. CASE Measured \/ Finalize \/ CliExit \/ Sigint \/ UNCHANGED vars
  <2>1. /\ start' = start /\ end' = end /\ engine' = engine /\ task' = task /\ outcome' = outcome
        /\ failures' = failures /\ hits' = hits /\ (main' \in Late => main \in Late)
    BY <1>6 DEF Measured, Finalize, CliExit, Sigint, vars, Late
  <2>2. Looked' = Looked /\ \A e \in Engines : Now(e)' = Now(e)
    BY <2>1 DEF Looked, Now, Reading
  <2>3. QED
    BY <1>1, <2>1, <2>2, SameAccount
<1>7. ASSUME NEW e \in Engines, FetchEnd(e) PROVE AccountInv'
  <2>1. PICK r \in {NoAnswer, Reading(e)} : end' = [end EXCEPT ![e] = r]
    BY <1>7 DEF FetchEnd
  <2>2. /\ start' = start /\ engine' = engine /\ task' = task /\ outcome' = outcome /\ main' = main
        /\ failures' = failures /\ hits' = hits /\ end[e] = Unread
    BY <1>7 DEF FetchEnd
  <2>3. end'[e] = r /\ \A x \in Engines \ {e} : end'[x] = end[x]
    BY <1>1, <2>1
  <2>4. CASE r = NoAnswer
    <3>1. Now(e)'.answer = "none"
      BY <2>3, <2>4 DEF Now, NoAnswer, Unread
    <3>2. ~NowComparable'
      BY <3>1 DEF NowComparable
    <3>3. QED
      BY <3>2 DEF AccountInv
  <2>5. CASE r = Reading(e)
    <3>1. Now(e) = Reading(e) /\ Now(e)' = Reading(e) /\ \A x \in Engines \ {e} : Now(x)' = Now(x)
      BY <2>2, <2>3, <2>5 DEF Now, Reading, Unread
    <3>2. Looked' = Looked /\ \A x \in Engines : Now(x)' = Now(x)
      BY <2>2, <3>1 DEF Looked
    <3>3. QED
      BY <1>1, <2>2, <3>2, SameAccount
  <2>6. QED
    BY <2>1, <2>4, <2>5
<1>8. ASSUME NEW j \in Jobs, Send(j) PROVE AccountInv'
  <2>1. /\ start' = start /\ end' = end /\ engine' = engine /\ main' = main /\ outcome' = outcome
        /\ failures' = failures /\ hits' = hits /\ task' = [task EXCEPT ![j] = "posting"]
        /\ task[j] = "queued"
    BY <1>8 DEF Send, First
  <2>2. Looked' = Looked /\ \A e \in Engines : Now(e)' = Now(e)
    BY <1>1, <2>1 DEF Looked, Now, Reading, RunType
  <2>3. QED
    BY <1>1, <2>1, <2>2, SameAccount
<1>9. ASSUME NEW j \in Jobs, Success(j) \/ Failure(j) \/ BuildFailed(j) PROVE AccountInv'
  <2>1. /\ start' = start /\ end' = end /\ engine' = engine /\ main' = main /\ hits' = hits
        /\ task[j] # "over"
        /\ (Success(j) /\ failures' = failures) \/ failures' = failures + 1
    BY <1>9 DEF Success, Failure, BuildFailed, First
  <2>2. /\ Looked' \subseteq Looked /\ (Success(j) /\ main = "measure" => Looked' = Looked)
        /\ \A e \in Engines : Now(e)' = Now(e)
    BY <1>1, <1>9, <2>1, LeavingLooked DEF Now, Reading
  <2>3. main = "measure" \/ main = "prefill"
    BY <1>1, <2>1 DEF PhaseInv, TasksOver, Gathering
  <2>4. CASE main = "prefill"
    BY <2>1, <2>4 DEF AccountInv, Late
  <2>5. CASE main = "measure"
    <3>1. failures' = 0 => failures = 0 /\ Looked' = Looked
      BY <1>1, <2>1, <2>2, <2>5
    <3>2. QED
      BY <1>1, <2>1, <2>2, <3>1, SameAccount
  <2>6. QED
    BY <2>3, <2>4, <2>5
<1>10. ASSUME NEW j \in Jobs, NEW e \in Engines, Serve(j, e) PROVE AccountInv'
  <2>1. /\ start' = start /\ end' = end /\ main' = main /\ failures' = failures /\ task[j] # "over"
    BY <1>10 DEF Serve
  <2>2. main = "measure" \/ main = "prefill"
    BY <1>1, <2>1 DEF PhaseInv, TasksOver, Gathering
  <2>3. CASE main = "prefill"
    BY <2>1, <2>3 DEF AccountInv, Late
  <2>4. CASE main = "measure"
    <3>1. /\ Prefix(j) \in Prefixes /\ Seen(e, Prefix(j), TRUE)
          /\ Cardinality(Looked') = Cardinality(Looked) + 1
      BY <1>1, <1>10, <2>4, ServedIsLooked
    <3>2. end[e].answer = "pending"
      BY <1>1, <2>4 DEF SnapshotInv, Unread
    <3> DEFINE found == IF Prefix(j) \in engine[e].cached THEN PrefixTokens ELSE 0
    <3>3. /\ NowComparable' => NowComparable
          /\ QueriesAtStart' = QueriesAtStart /\ HitsAtStart' = HitsAtStart
          /\ QueriesNow' = QueriesNow + Total /\ HitsNow' = HitsNow + found
      BY <1>1, <2>1, <3>1, <3>2, LookupSeen
    <3>4. hits' = hits + found
      BY <1>1, <3>1, LookedUp
    <3>5. Cardinality(Looked') * Total = Cardinality(Looked) * Total + Total
      BY <1>2, <3>1, Times
    <3>6. found \in Nat
      BY <1>2
    <3> DEFINE x == Cardinality(Looked) * Total
               y == Cardinality(Looked') * Total
    <3>7. x \in Nat /\ y = x + Total
      BY <1>2, <3>5
    <3> HIDE DEF found, x, y
    <3>8. NowComparable => /\ QueriesNow >= QueriesAtStart + x
                           /\ failures = 0 => /\ QueriesNow = QueriesAtStart + x
                                              /\ HitsNow = HitsAtStart + hits
      BY <1>1, <2>4 DEF AccountInv, Late, x
    <3>9. NowComparable' => /\ QueriesNow' >= QueriesAtStart' + y
                            /\ failures' = 0 => /\ QueriesNow' = QueriesAtStart' + y
                                                /\ HitsNow' = HitsAtStart' + hits'
      BY <1>2, <2>1, <3>3, <3>4, <3>6, <3>7, <3>8
    <3>10. QED
      BY <3>9 DEF AccountInv, y
  <2>5. QED
    BY <2>2, <2>3, <2>4
<1>11. ASSUME NEW e \in Engines, ServeAbandoned(e) PROVE AccountInv'
  <2>1. PICK a \in abandoned : Seen(e, a[1], a[2])
    BY <1>11 DEF ServeAbandoned
  <2>2. a[1] \in Prefixes /\ a[2] \in BOOLEAN
    BY <1>1 DEF RunType
  <2>3. /\ start' = start /\ end' = end /\ main' = main /\ failures' = failures /\ failures # 0
        /\ task' = task /\ outcome' = outcome
    BY <1>1, <1>11 DEF ServeAbandoned, PhaseInv
  <2> DEFINE n == IF end[e].answer # "pending" THEN 0 ELSE IF a[2] THEN Total ELSE PrefixTokens
  <2>4. /\ NowComparable' => NowComparable
        /\ QueriesAtStart' = QueriesAtStart /\ QueriesNow' = QueriesNow + n
    BY <1>1, <2>1, <2>2, <2>3, LookupSeen
  <2>5. n \in Nat /\ Looked' = Looked
    BY <1>2, <2>3 DEF Looked
  <2> DEFINE x == Cardinality(Looked) * Total
  <2>6. main \in Late /\ NowComparable => QueriesNow >= QueriesAtStart + x
    BY <1>1 DEF AccountInv
  <2>7. x \in Nat
    BY <1>2
  <2> HIDE DEF n, x
  <2>8. main' \in Late /\ NowComparable' => QueriesNow' >= QueriesAtStart' + x
    BY <1>2, <2>3, <2>4, <2>5, <2>6, <2>7
  <2>9. QED
    BY <2>3, <2>5, <2>8 DEF AccountInv, x
<1>12. ASSUME NEW e \in Engines, Restart(e) PROVE AccountInv'
  <2>1. /\ start' = start /\ end' = end /\ main' = main /\ failures' = failures /\ hits' = hits
        /\ task' = task /\ outcome' = outcome
    BY <1>12 DEF Restart
  <2>2. /\ engine'[e].restarts = engine[e].restarts + 1
        /\ \A x \in Engines \ {e} : engine'[x] = engine[x]
    BY <1>1, <1>12, Restarted
  <2>3. CASE end[e].answer = "pending"
    <3>1. Now(e)'.restarts = engine[e].restarts + 1
      BY <2>1, <2>2, <2>3 DEF Now, Reading
    <3>2. start[e].answer = "read" => start[e].restarts <= engine[e].restarts
      BY <1>1 DEF SnapshotInv, Later
    <3>3. engine[e].restarts \in Nat /\ start[e].restarts \in Nat
      BY <1>1, Sizes DEF RunType, EngineStates, Pages
    <3>4. ~NowComparable'
      BY <2>1, <3>1, <3>2, <3>3 DEF NowComparable
    <3>5. QED
      BY <3>4 DEF AccountInv
  <2>4. CASE end[e].answer # "pending"
    <3>1. Looked' = Looked /\ \A x \in Engines : Now(x)' = Now(x)
      BY <2>1, <2>2, <2>4 DEF Looked, Now, Reading
    <3>2. QED
      BY <1>1, <2>1, <3>1, SameAccount
  <2>5. QED
    BY <2>3, <2>4
<1>13. QED
  BY <1>3, <1>4, <1>5, <1>6, <1>7, <1>8, <1>9, <1>10, <1>11, <1>12 DEF Next, MainStep, Ended

-----------------------------------------------------------------------------
(* With one engine at work and nothing failing, its cache stays complete.  *)
LEMMA NextCache == ASSUME IInv, [Next]_vars PROVE CacheInv'
<1> SUFFICES ASSUME NEW e \in Engines, Calm(e)'
             PROVE  /\ main' = "prefill" => \A j \in Prefixes :
                          task'[j] \in {"served", "over"} => j \in engine'[e].cached
                    /\ main' \in Late \cup {"startSnapshot"} => engine'[e].cached = Prefixes
                    /\ main' \in Late => hits' = Cardinality(Looked') * PrefixTokens
  BY DEF CacheInv
<1>1. /\ RunType /\ RunType' /\ PhaseInv /\ CacheInv
      /\ engine \in [Engines -> EngineStates] /\ engine[e].cached \in SUBSET Prefixes
      /\ engine[e].restarts \in Nat /\ engine'[e].restarts \in Nat
      /\ task \in [Jobs -> {"over", "queued", "posting", "served"}]
      /\ failures \in Nat /\ failures' \in Nat /\ Prefixes \subseteq Jobs
      /\ Looked \in SUBSET Jobs /\ Cardinality(Looked) \in Nat /\ PrefixTokens \in Nat
  BY NextType, CountTypes, Sizes DEF IInv, RunType, EngineStates, CountsTyped
<1>2. prefill' = prefill /\ serving' = serving
  BY DEF Next, MainStep, ResetCaches, PrefillDone, StartMeasuring, Measured, Finalize,
     FetchStart, FetchEnd, Send, Success, Failure, Crash, BuildFailed, Serve,
     ServeAbandoned, Restart, Sigint, ForcedExit, CliExit, Ended, vars
<1>3. prefill /\ serving = {e} /\ failures' = 0 /\ engine'[e].restarts = 0
  BY <1>2 DEF Calm
<1>4. ASSUME failures = 0
      PROVE  /\ Calm(e)
             /\ main = "prefill" => \A j \in Prefixes :
                    task[j] \in {"served", "over"} => j \in engine[e].cached
             /\ main \in Late \cup {"startSnapshot"} => engine[e].cached = Prefixes
             /\ main \in Late => hits = Cardinality(Looked) * PrefixTokens
  <2>1. Later(engine[e], engine'[e])
    BY EnginesGrow
  <2>2. engine[e].restarts = 0
    BY <1>1, <1>3, <2>1 DEF Later
  <2>3. Calm(e)
    BY <1>3, <1>4, <2>2 DEF Calm
  <2>4. QED
    BY <1>1, <2>3 DEF CacheInv
<1>5. CASE ResetCaches
  <2>1. main' = "prefill" /\ task' = [j \in Jobs |-> IF j < PrefixNum THEN "queued" ELSE "over"]
    BY <1>3, <1>5 DEF ResetCaches
  <2>2. \A j \in Prefixes : j \in Jobs /\ j < PrefixNum
    BY <1>1, Sizes DEF Prefixes
  <2>3. \A j \in Prefixes : task'[j] = "queued"
    BY <2>1, <2>2
  <2>4. QED
    BY <2>1, <2>3 DEF Late
<1>6. CASE PrefillDone
  BY <1>1, <1>3, <1>4, <1>6 DEF PrefillDone, TasksOver, Late
<1>7. CASE StartMeasuring
  <2>1. /\ main = "startSnapshot" /\ engine' = engine /\ hits' = hits /\ failures' = failures
        /\ main' = "measure" /\ hits = 0 /\ Looked' = {}
    BY <1>1, <1>7 DEF StartMeasuring, PhaseInv, Early, Looked
  <2>2. Cardinality(Looked') * PrefixTokens = 0
    BY <1>1, <2>1, FS_EmptySet, Times
  <2>3. QED
    BY <1>3, <1>4, <2>1, <2>2
<1>8. CASE \/ Measured \/ Finalize \/ CliExit \/ Sigint \/ UNCHANGED vars
           \/ \E x \in Engines : FetchStart(x) \/ FetchEnd(x)
  <2>1. /\ engine' = engine /\ hits' = hits /\ failures' = failures /\ task' = task
        /\ outcome' = outcome
        /\ (main' = main \/ (main \in Late /\ main' \in Late))
    BY <1>8 DEF Measured, Finalize, CliExit, Sigint, vars, FetchStart, FetchEnd, Late
  <2>2. Looked' = Looked
    BY <2>1 DEF Looked
  <2>3. QED
    BY <1>3, <1>4, <2>1, <2>2 DEF Late
<1>9. CASE ForcedExit \/ \E j \in Jobs : Crash(j)
  BY <1>9 DEF ForcedExit, Crash, Late
<1>10. ASSUME NEW j \in Jobs, Failure(j) \/ BuildFailed(j) PROVE FALSE
  <2>1. failures' = failures + 1
    BY <1>10 DEF Failure, BuildFailed
  <2>2. QED
    BY <1>1, <1>3, <2>1
<1>11. ASSUME NEW x \in Engines, ServeAbandoned(x) PROVE FALSE
  BY <1>1, <1>3, <1>11 DEF ServeAbandoned, PhaseInv
<1>12. ASSUME NEW x \in Engines, Restart(x) PROVE FALSE
  <2>1. x = e /\ engine'[e].restarts = engine[e].restarts + 1
    BY <1>1, <1>3, <1>12, Restarted DEF Restart
  <2>2. QED
    BY <1>1, <1>3, <2>1
<1>13. ASSUME NEW j \in Jobs, Send(j) \/ Success(j)
       PROVE  /\ main' = "prefill" => \A i \in Prefixes :
                    task'[i] \in {"served", "over"} => i \in engine'[e].cached
              /\ main' \in Late \cup {"startSnapshot"} => engine'[e].cached = Prefixes
              /\ main' \in Late => hits' = Cardinality(Looked') * PrefixTokens
  <2>1. /\ engine' = engine /\ hits' = hits /\ failures' = failures /\ main' = main
        /\ task[j] # "over"
        /\ \/ task[j] = "queued" /\ task' = [task EXCEPT ![j] = "posting"]
           \/ task[j] = "served" /\ task' = [task EXCEPT ![j] = "over"]
    BY <1>13 DEF Send, Success, First
  <2>2. \A i \in Jobs : task'[i] \in {"served", "over"} => task[i] \in {"served", "over"}
    BY <1>1, <2>1
  <2>3. main = "measure" \/ main = "prefill"
    BY <1>1, <2>1 DEF PhaseInv, TasksOver, Gathering
  <2>4. main = "measure" => Looked' = Looked
    <3>1. CASE Success(j)
      BY <1>1, <3>1, LeavingLooked
    <3>2. CASE Send(j)
      BY <1>1, <3>2 DEF Send, First, Looked
    <3>3. QED
      BY <1>13, <3>1, <3>2
  <2>5. QED
    BY <1>1, <1>3, <1>4, <2>1, <2>2, <2>3, <2>4 DEF Late
<1>14. ASSUME NEW j \in Jobs, NEW x \in Engines, Serve(j, x)
       PROVE  /\ main' = "prefill" => \A i \in Prefixes :
                    task'[i] \in {"served", "over"} => i \in engine'[e].cached
              /\ main' \in Late \cup {"startSnapshot"} => engine'[e].cached = Prefixes
              /\ main' \in Late => hits' = Cardinality(Looked') * PrefixTokens
  <2>1. /\ x = e /\ main' = main /\ failures' = failures /\ task[j] # "over"
        /\ task' = [task EXCEPT ![j] = "served"]
    BY <1>3, <1>14 DEF Serve
  <2>2. /\ Prefix(j) \in Prefixes /\ Seen(e, Prefix(j), main = "measure")
        /\ (main = "measure" => Cardinality(Looked') = Cardinality(Looked) + 1)
    BY <1>1, <1>14, <2>1, ServedIsLooked
  <2>3. main = "measure" \/ main = "prefill"
    BY <1>1, <2>1 DEF PhaseInv, TasksOver, Gathering
  <2>4. /\ engine'[e].cached = engine[e].cached \cup {Prefix(j)}
        /\ hits' = hits + IF main = "measure" /\ Prefix(j) \in engine[e].cached
                          THEN PrefixTokens ELSE 0
    BY <1>1, <2>2, LookedUp
  <2>5. CASE main = "prefill"
    BY <1>1, <1>3, <1>4, <2>1, <2>4, <2>5 DEF Prefix, Late
  <2>6. CASE main = "measure"
    <3>1. engine[e].cached = Prefixes /\ hits = Cardinality(Looked) * PrefixTokens
      BY <1>3, <1>4, <2>1, <2>6 DEF Late
    <3>2. engine'[e].cached = Prefixes /\ hits' = hits + PrefixTokens
      BY <2>2, <2>4, <2>6, <3>1
    <3>3. hits' = Cardinality(Looked') * PrefixTokens
      BY <1>1, <2>2, <2>6, <3>1, <3>2, Times
    <3>4. QED
      BY <2>1, <2>6, <3>2, <3>3
  <2>7. QED
    BY <2>3, <2>5, <2>6
<1>15. QED
  BY <1>5, <1>6, <1>7, <1>8, <1>9, <1>10, <1>11, <1>12, <1>13, <1>14 DEF Next, MainStep, Ended
-----------------------------------------------------------------------------
(* The first state.                                                        *)
LEMMA InitInv == Init => IInv
<1> SUFFICES ASSUME Init PROVE IInv
  OBVIOUS
<1>1. PICK c \in {{}, Prefixes} : engine = [e \in Engines |-> Cold(c)]
  BY DEF Init
<1>2. /\ engine \in [Engines -> EngineStates]
      /\ \A e \in Engines : engine[e].hits = 0 /\ engine[e].queries = 0
  BY <1>1, Sizes DEF Cold, EngineStates
<1>3. /\ start = [e \in Engines |-> Unread] /\ end = [e \in Engines |-> Unread]
      /\ start \in [Engines -> Pages] /\ end \in [Engines -> Pages]
  BY DEF Init, Unread, Pages
<1>4. /\ main = "reset" /\ free = Concurrency /\ hits = 0 /\ failures = 0 /\ abandoned = {}
      /\ consecutive = 0 /\ loop = "open" /\ output = "none" /\ exit = Running
      /\ \A j \in Jobs : task[j] = "over" /\ outcome[j] = "none"
      /\ task \in [Jobs -> {"over", "queued", "posting", "served"}]
      /\ outcome \in [Jobs -> {"none", "ok", "failed"}]
  BY DEF Init
<1>5. RunType
  <2>1. /\ openLoop \in BOOLEAN /\ prefill \in BOOLEAN /\ prefixOf \in [Jobs -> Prefixes]
        /\ serving \in Deployments /\ shutdown \in BOOLEAN /\ sigints = 0
    BY DEF Init
  <2>2. \A e \in Engines : /\ engine[e].hits <= engine[e].queries
                           /\ start[e].hits <= start[e].queries /\ end[e].hits <= end[e].queries
    BY <1>2, <1>3 DEF Unread
  <2>3. /\ main \in Mains /\ free \in 0..Concurrency /\ sigints \in 0..MaxSigints
        /\ failures \in 0..MaxFailures
    BY <1>4, <2>1, Sizes DEF Mains
  <2>4. QED
    BY <1>2, <1>3, <1>4, <2>1, <2>2, <2>3 DEF RunType
<1>6. PhaseInv
  BY <1>4 DEF PhaseInv, TasksOver, Gathering
<1>7. ExitInv
  BY <1>4 DEF ExitInv, Running
<1>8. InFlight = {} /\ {j \in Jobs : outcome[j] = "failed"} = {}
  BY <1>4 DEF InFlight
<1>9. Cardinality(InFlight) = 0 /\ Cardinality({j \in Jobs : outcome[j] = "failed"}) = 0
  BY <1>8, FS_EmptySet
<1>10. SlotInv /\ StreakInv
  BY <1>4, <1>9, Sizes DEF SlotInv, StreakInv
<1>11. SnapshotInv
  BY <1>3, <1>4 DEF SnapshotInv, Early, Late, Unread
<1>12. AccountInv /\ CacheInv
  BY <1>4 DEF AccountInv, CacheInv, Late
<1>13. QED
  BY <1>5, <1>6, <1>7, <1>10, <1>11, <1>12 DEF IInv

(* The invariant holds of every behaviour of a hit-rate run.               *)
THEOREM Invariance == Spec => []IInv
<1>1. IInv /\ [Next]_vars => IInv'
  BY NextType, NextPhase, NextExit, NextSlot, NextStreak, NextSnapshot, NextAccount, NextCache
     DEF IInv
<1>2. QED
  BY InitInv, <1>1, PTL DEF Spec

(* Every variable has its type: the semaphore never holds more than its    *)
(* slots, the streak never exceeds the requests, no page and no engine     *)
(* counts more hits than queries.                                          *)
THEOREM TypeCorrect == Spec => []TypeOK
<1>1. IInv => TypeOK
  <2> SUFFICES ASSUME IInv PROVE TypeOK
    OBVIOUS
  <2>1. RunType /\ StreakInv
    BY DEF IInv
  <2>2. Cardinality({j \in Jobs : outcome[j] = "failed"}) \in 0..NumRequests
    BY SomeJobs
  <2>3. consecutive \in 0..NumRequests
    BY <2>1, <2>2, Sizes DEF RunType, StreakInv
  <2>4. \A s \in {start, end} : \A e \in Engines :
            s[e].answer \in {"pending", "none", "read"} /\ s[e].hits \in 0..s[e].queries
    BY <2>1 DEF RunType, Pages
  <2>5. \A e \in Engines :
            /\ engine[e].cached \subseteq Prefixes
            /\ engine[e].queries \in Nat /\ engine[e].hits \in 0..engine[e].queries
            /\ engine[e].restarts \in 0..MaxRestarts
    BY <2>1 DEF RunType, EngineStates
  <2>6. main \in Gathering \cup {"reset", "startSnapshot", "endSnapshot", "finished",
                                 "cancelled", "crashed"}
    BY <2>1 DEF RunType, Mains, Gathering
  <2>7. QED
    BY <2>1, <2>3, <2>4, <2>5, <2>6 DEF RunType, TypeOK
<1>2. QED
  BY <1>1, Invariance, PTL

(* _run_hitrate reports only after every measured request is recorded, and *)
(* the exit code is that of the report.                                    *)
THEOREM ReportIsWhole == Spec => []ReportIsComplete
<1>1. IInv => ReportIsComplete
  <2> SUFFICES ASSUME IInv PROVE ReportIsComplete
    OBVIOUS
  <2>1. PhaseInv /\ ExitInv
    BY DEF IInv
  <2>2. Reported <=> main = "finished"
    BY <2>1 DEF ExitInv, Reported
  <2>3. Reported => \A j \in Jobs : outcome[j] # "none"
    BY <2>1, <2>2 DEF PhaseInv
  <2>4. ASSUME exit \in {0, 2} PROVE Reported /\ (exit = 2 <=> AllFailed)
    BY <2>1, <2>2, <2>4 DEF ExitInv, Running
  <2>5. QED
    BY <2>3, <2>4 DEF ReportIsComplete
<1>2. QED
  BY <1>1, Invariance, PTL

-----------------------------------------------------------------------------
(* What is reported of two comparable snapshots are sums over all engines, *)
(* and the account of the measurement is about them.                       *)
LEMMA ReportedDelta ==
    ASSUME IInv, Reported, Comparable
    PROVE  /\ QueryDelta = QueriesNow - QueriesAtStart /\ HitDelta = HitsNow - HitsAtStart
           /\ QueriesNow >= QueriesAtStart + Cardinality(Looked) * Total
           /\ failures = 0 => /\ QueriesNow = QueriesAtStart + Cardinality(Looked) * Total
                              /\ HitsNow = HitsAtStart + hits
           /\ \A e \in Engines : Later(start[e], end[e]) /\ start[e].restarts = end[e].restarts
           /\ \A e \in Engines : Now(e) = end[e]
<1>1. main = "finished"
  BY DEF IInv, ExitInv, Reported
<1>2. \A e \in Engines : /\ start[e].answer = "read" /\ end[e].answer = "read"
                         /\ start[e].restarts = end[e].restarts
  BY DEF Comparable, Answered
<1>3. \A e \in Engines : Later(start[e], end[e])
  BY <1>2 DEF IInv, SnapshotInv
<1>4. \A e \in Engines : Now(e) = end[e]
  BY <1>2 DEF Now
<1>5. NowComparable
  BY <1>2, <1>4 DEF NowComparable
<1>6. /\ QueriesNow >= QueriesAtStart + Cardinality(Looked) * Total
      /\ failures = 0 => /\ QueriesNow = QueriesAtStart + Cardinality(Looked) * Total
                         /\ HitsNow = HitsAtStart + hits
  BY <1>1, <1>5 DEF IInv, AccountInv, Late
<1>7. /\ Queries(start) = QueriesAtStart /\ Hits(start) = HitsAtStart
  BY DEF Comparable, Queries, Hits, QueriesAtStart, HitsAtStart
<1>8. /\ [e \in Engines |-> end[e].queries] = [e \in Engines |-> Now(e).queries]
      /\ [e \in Engines |-> end[e].hits] = [e \in Engines |-> Now(e).hits]
  BY <1>4
<1>9. Queries(end) = QueriesNow /\ Hits(end) = HitsNow
  BY <1>8 DEF Comparable, Queries, Hits, QueriesNow, HitsNow
<1>10. QED
  BY <1>2, <1>3, <1>4, <1>6, <1>7, <1>9 DEF QueryDelta, HitDelta

(* If every engine's hits grew by at most what its queries grew by, so did *)
(* their sums.                                                             *)
LEMMA DeltasOrdered ==
    ASSUME RunType, \A e \in Engines : Now(e) = end[e],
           \A e \in Engines : Later(start[e], end[e]) /\ start[e].restarts = end[e].restarts
    PROVE  /\ HitsAtStart <= HitsNow
           /\ HitsNow - HitsAtStart <= QueriesNow - QueriesAtStart
<1> DEFINE startQ == [e \in Engines |-> start[e].queries]
           startH == [e \in Engines |-> start[e].hits]
           nowQ == [e \in Engines |-> Now(e).queries]
           nowH == [e \in Engines |-> Now(e).hits]
           lower == [e \in Engines |-> startQ[e] + nowH[e]]
           upper == [e \in Engines |-> nowQ[e] + startH[e]]
<1>1. /\ startQ \in [Engines -> Nat] /\ startH \in [Engines -> Nat]
      /\ nowQ \in [Engines -> Nat] /\ nowH \in [Engines -> Nat]
  BY CountTypes DEF CountsTyped
<1>2. \A e \in Engines : startH[e] <= nowH[e] /\ nowH[e] - startH[e] <= nowQ[e] - startQ[e]
  BY DEF Later
<1>3. /\ QueriesAtStart = SumFunction(startQ) /\ HitsAtStart = SumFunction(startH)
      /\ QueriesNow = SumFunction(nowQ) /\ HitsNow = SumFunction(nowH)
  BY DEF QueriesAtStart, HitsAtStart, QueriesNow, HitsNow
<1>4. /\ QueriesAtStart \in Nat /\ HitsAtStart \in Nat /\ QueriesNow \in Nat /\ HitsNow \in Nat
  BY CountTypes DEF CountsTyped
<1> HIDE DEF startQ, startH, nowQ, nowH
<1>5. SumFunction(startH) <= SumFunction(nowH)
  BY <1>1, <1>2, Sizes, SumAtMost
<1>6. /\ lower \in [Engines -> Nat] /\ upper \in [Engines -> Nat]
      /\ \A e \in Engines : lower[e] <= upper[e]
  BY <1>1, <1>2
<1>7. /\ SumFunction(lower) = SumFunction(startQ) + SumFunction(nowH)
      /\ SumFunction(upper) = SumFunction(nowQ) + SumFunction(startH)
  BY <1>1, Sizes, SumOfSums
<1> HIDE DEF lower, upper
<1>8. SumFunction(lower) <= SumFunction(upper)
  BY <1>6, Sizes, SumAtMost
<1>9. QED
  BY <1>3, <1>4, <1>5, <1>7, <1>8

(* Without failures the reported deltas are the measured requests.         *)
LEMMA NothingElseCounted ==
    ASSUME IInv, Reported, Comparable, failures = 0
    PROVE  /\ Looked = Jobs
           /\ QueryDelta = NumRequests * Total /\ HitDelta = hits
<1>1. RunType /\ PhaseInv /\ ExitInv
  BY DEF IInv
<1>2. \A j \in Jobs : outcome[j] = "ok"
  BY <1>1 DEF PhaseInv, ExitInv, Reported, RunType
<1>3. Looked = Jobs /\ Cardinality(Looked) = NumRequests
  BY <1>2, Sizes DEF Looked
<1>4. /\ QueryDelta = QueriesNow - QueriesAtStart /\ HitDelta = HitsNow - HitsAtStart
      /\ QueriesNow = QueriesAtStart + NumRequests * Total /\ HitsNow = HitsAtStart + hits
  BY <1>3, ReportedDelta
<1>5. /\ QueriesAtStart \in Nat /\ HitsAtStart \in Nat /\ hits \in Nat
      /\ NumRequests * Total \in Nat
  BY <1>1, Sizes, CountTypes, Times DEF CountsTyped, RunType
<1> DEFINE n == NumRequests * Total
<1>6. QueriesNow = QueriesAtStart + n /\ n \in Nat
  BY <1>4, <1>5
<1> HIDE DEF n
<1>7. \A a \in Nat, d \in Nat : (a + d) - a = d
  OBVIOUS
<1>8. (QueriesAtStart + n) - QueriesAtStart = n /\ (HitsAtStart + hits) - HitsAtStart = hits
  BY <1>5, <1>6, <1>7
<1>9. QueryDelta = n /\ HitDelta = hits
  BY <1>4, <1>6, <1>8
<1>10. QED
  BY <1>3, <1>9 DEF n

(* The difference of two comparable snapshots is a rate, counts at least   *)
(* the successful requests, and exactly the measured ones if none failed:  *)
(* the injections of _run_hitrate are never part of it.                    *)
THEOREM DeltaIsTheMeasurement == Spec => []DeltaIsMeasured
<1>1. IInv => DeltaIsMeasured
  <2> SUFFICES ASSUME IInv, Reported, Comparable
               PROVE  /\ HitDelta \in 0..QueryDelta
                      /\ QueryDelta >= Cardinality(Successes) * Total
                      /\ failures = 0 => QueryDelta = NumRequests * Total /\ HitDelta = hits
    BY DEF DeltaIsMeasured
  <2>1. /\ QueryDelta = QueriesNow - QueriesAtStart /\ HitDelta = HitsNow - HitsAtStart
        /\ QueriesNow >= QueriesAtStart + Cardinality(Looked) * Total
    BY ReportedDelta
  <2>2. /\ QueriesAtStart \in Nat /\ HitsAtStart \in Nat /\ QueriesNow \in Nat /\ HitsNow \in Nat
        /\ Looked \in SUBSET Jobs /\ Cardinality(Looked) \in Nat
        /\ Cardinality(Looked) * Total \in Nat
    BY CountTypes DEF CountsTyped, IInv
  <2>3. HitsAtStart <= HitsNow /\ HitsNow - HitsAtStart <= QueriesNow - QueriesAtStart
    BY ReportedDelta, DeltasOrdered DEF IInv
  <2>4. HitDelta \in 0..QueryDelta
    BY <2>1, <2>2, <2>3
  <2>5. Cardinality(Successes) \in Nat /\ Cardinality(Successes) <= Cardinality(Looked)
    <3>1. Successes \subseteq Looked /\ Successes \in SUBSET Jobs
      BY DEF Successes, Looked
    <3>2. IsFiniteSet(Looked) /\ Cardinality(Successes) \in 0..NumRequests
      BY <2>2, <3>1, SomeJobs
    <3>3. QED
      BY <3>1, <3>2, FS_Subset
  <2>6. /\ Cardinality(Successes) * Total <= Cardinality(Looked) * Total
        /\ Cardinality(Successes) * Total \in Nat
    BY <2>2, <2>5, Sizes, Times
  <2>7. QueryDelta >= Cardinality(Successes) * Total
    <3> DEFINE x == Cardinality(Successes) * Total
               y == Cardinality(Looked) * Total
    <3>1. x <= y /\ x \in Nat /\ y \in Nat /\ QueriesNow >= QueriesAtStart + y
      BY <2>1, <2>2, <2>6
    <3> HIDE DEF x, y
    <3>2. QueryDelta >= x
      BY <2>1, <2>2, <3>1
    <3>3. QED
      BY <3>2 DEF x
  <2>8. QED
    BY <2>4, <2>7, NothingElseCounted
<1>2. QED
  BY <1>1, Invariance, PTL

(* Shares of a product.                                                    *)
LEMMA Shares ==
    ASSUME NEW n \in Nat \ {0}, NEW k \in Nat, NEW t \in Nat \ {0}
    PROVE  (n * k) * t = k * (n * t) /\ n * t > 0 /\ n * k >= 0
OBVIOUS

(* The claim of the hit-rate mode: with one engine serving, the injection  *)
(* done and nothing failing, the measured rate is the share of the prefix  *)
(* in the prompt, for any number of requests and prefixes.                 *)
THEOREM TargetIsHit == Spec => []TargetIsRealized
<1>1. IInv => TargetIsRealized
  <2> SUFFICES ASSUME IInv, Reported, Comparable, failures = 0, prefill, Cardinality(serving) = 1,
                      \A e \in serving : engine[e].restarts = 0
               PROVE  RateReported /\ HitDelta * Total = PrefixTokens * QueryDelta
    BY DEF TargetIsRealized
  <2>1. RunType /\ ExitInv /\ CacheInv
    BY DEF IInv
  <2>2. serving \subseteq Engines /\ IsFiniteSet(serving)
    <3>1. serving \subseteq Engines
      BY <2>1, Sizes DEF RunType
    <3>2. QED
      BY <3>1, Sizes, FS_Subset
  <2>3. PICK e : serving = {e}
    BY <2>2, FS_Singleton
  <2>4. e \in Engines /\ Calm(e) /\ main \in Late
    BY <2>1, <2>2, <2>3 DEF Calm, ExitInv, Reported, Late
  <2>5. /\ Looked = Jobs /\ QueryDelta = NumRequests * Total /\ HitDelta = hits
    BY NothingElseCounted
  <2>6. hits = NumRequests * PrefixTokens
    BY <2>1, <2>4, <2>5, Sizes DEF CacheInv
  <2>7. HitDelta * Total = PrefixTokens * QueryDelta /\ QueryDelta > 0 /\ HitDelta >= 0
    BY <2>5, <2>6, Sizes, Shares
  <2>8. ~None(start) /\ ~None(end)
    BY <2>4 DEF None, Comparable
  <2>9. QED
    BY <2>7, <2>8 DEF RateReported
<1>2. QED
  BY <1>1, Invariance, PTL
=============================================================================
