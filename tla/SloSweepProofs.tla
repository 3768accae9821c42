--------------------------- MODULE SloSweepProofs ---------------------------
(***************************************************************************)
(* Proofs about the sweep of SLO mode, for every range of levels, strategy,*)
(* number of turns and sequence of verdicts.                               *)
(***************************************************************************)
EXTENDS SloSweep, FiniteSetTheorems, TLAPS

Sweeping == main \in {"reset", "step"}

SearchType ==
    /\ main \in {"reset", "step", "closeClient", "finished", "cancelled"}
    /\ stage \in {"ramp", "refine"}
    /\ level \in Int /\ lo \in Int /\ hi \in Int
    /\ lastGood \in Levels \cup {NoLevel} /\ firstBad \in Levels \cup {NoLevel}
    /\ \A s \in steps : s.n \in Levels /\ s.met \in BOOLEAN

(* The good levels seen so far are bounded by the last of them, and it is  *)
(* one of them.                                                            *)
GoodUpToLast ==
    /\ \A n \in Good : n <= lastGood
    /\ lastGood # NoLevel => lastGood \in Good

(* The ramp climbs over levels that all passed.                            *)
RampInv ==
    Sweeping /\ stage = "ramp" =>
        /\ level \in Levels /\ lastGood < level /\ Bad = {}
        /\ lastGood = NoLevel => level = MinUsers

(* The refinement works in the open interval between the last level that   *)
(* passed and a level that failed, with every failure above it.            *)
RefineInv ==
    Sweeping /\ stage = "refine" =>
        /\ lastGood # NoLevel /\ lo = lastGood + 1
        /\ lo <= level /\ level <= hi
        /\ hi + 1 \in Bad
        /\ \A n \in Bad : hi < n

IInv == SearchType /\ GoodUpToLast /\ RampInv /\ RefineInv /\ KneeIsSharp

-----------------------------------------------------------------------------
(* Halving an interval stays inside it.                                    *)
LEMMA Midpoint ==
    ASSUME NEW a \in Int, NEW b \in Int, a <= b
    PROVE  /\ (a + b) \div 2 \in Int
           /\ a <= (a + b) \div 2 /\ (a + b) \div 2 <= b
OBVIOUS

(* The next level of the ramp is higher.                                   *)
LEMMA NextNGrows == ASSUME NEW n \in Int PROVE NextN(n) \in Int /\ NextN(n) > n
BY DEF NextN

(* A judged step adds its level to the good or to the bad ones.            *)
LEMMA JudgedSets ==
    ASSUME NEW met \in BOOLEAN, NEW r, r.n = level, r.met = met,
           \A s \in steps : s.met \in BOOLEAN,
           steps' = steps \cup {r}
    PROVE  /\ met => Good' = Good \cup {level} /\ Bad' = Bad
           /\ ~met => Good' = Good /\ Bad' = Bad \cup {level}
BY DEF Good, Bad

(* The invariant holds when the sweep starts.                              *)
LEMMA InitIInv == Init => IInv
BY SweepAssumption DEF Init, IInv, SearchType, GoodUpToLast, RampInv, RefineInv, KneeIsSharp,
    Good, Bad, Levels, NoLevel, SweepOver, Sweeping

(* The ramp: a level that passes leads to the next or to the end.          *)
LEMMA RampMetStep ==
    ASSUME IInv, main = "step", stage = "ramp", RampMet,
           NEW r, r.n = level, r.met = TRUE, steps' = steps \cup {r}
    PROVE  IInv'
<1>1. Good' = Good \cup {level} /\ Bad' = Bad /\ Bad = {}
  BY JudgedSets DEF IInv, SearchType, RampInv, Sweeping
<1>2. level \in Levels /\ lastGood < level /\ lastGood' = level
      /\ firstBad' = firstBad /\ stage' = "ramp" /\ lo' = lo /\ hi' = hi
  BY DEF IInv, RampInv, RampMet, Sweeping
<1>3. IF NextN(level) <= MaxUsers
      THEN level' = NextN(level) /\ main' = "reset"
      ELSE level' = level /\ main' = "closeClient"
  BY DEF RampMet, GoTo, StopSweep
<1>4. NextN(level) \in Int /\ NextN(level) > level
  BY <1>2, NextNGrows, SweepAssumption DEF Levels
<1>5. SearchType'
  BY <1>2, <1>3, <1>4, SweepAssumption DEF IInv, SearchType, Levels
<1>6. GoodUpToLast'
  BY <1>1, <1>2, SweepAssumption DEF IInv, SearchType, GoodUpToLast, Good, Levels, NoLevel
<1>7. RampInv'
  BY <1>1, <1>2, <1>3, <1>4, SweepAssumption DEF RampInv, Levels, NoLevel, Sweeping
<1>8. RefineInv' /\ KneeIsSharp'
  BY <1>1, <1>2 DEF RefineInv, KneeIsSharp
<1>9. QED
  BY <1>5, <1>6, <1>7, <1>8 DEF IInv

(* The ramp breaks: the failing level bounds the refinement, if any.       *)
LEMMA RampBrokenStep ==
    ASSUME IInv, main = "step", stage = "ramp", RampBroken,
           NEW r, r.n = level, r.met = FALSE, steps' = steps \cup {r}
    PROVE  IInv'
<1>1. Good' = Good /\ Bad' = {level}
  BY JudgedSets DEF IInv, SearchType, RampInv, Sweeping
<1>2. level \in Levels /\ lastGood < level /\ lastGood' = lastGood /\ firstBad' = level
      /\ (lastGood = NoLevel => level = MinUsers)
  BY DEF IInv, RampInv, RampBroken, Sweeping
<1>3. lastGood \in Levels \cup {NoLevel} /\ (\A n \in Good : n \in Levels)
  BY DEF IInv, SearchType, Good
<1>4. GoodUpToLast'
  BY <1>1, <1>2 DEF IInv, GoodUpToLast
<1>5. CASE lastGood # NoLevel /\ level - lastGood > 1
  <2>1. /\ stage' = "refine" /\ lo' = lastGood + 1 /\ hi' = level - 1
        /\ level' = (lo' + hi') \div 2 /\ main' = "reset"
    BY <1>5 DEF RampBroken, GoTo
  <2>2. lo' \in Int /\ hi' \in Int /\ lo' <= hi' /\ hi' + 1 = level
    BY <1>2, <1>3, <1>5, <2>1, SweepAssumption DEF Levels
  <2>3. level' \in Int /\ lo' <= level' /\ level' <= hi'
    BY <2>1, <2>2, Midpoint
  <2>4. SearchType'
    BY <1>2, <2>1, <2>2, <2>3 DEF IInv, SearchType
  <2>5. RefineInv'
    BY <1>1, <1>2, <1>5, <2>1, <2>2, <2>3 DEF RefineInv
  <2>6. QED
    BY <1>4, <2>1, <2>4, <2>5 DEF IInv, RampInv, KneeIsSharp, SweepOver, Sweeping
<1>6. CASE ~(lastGood # NoLevel /\ level - lastGood > 1)
  <2>1. level' = level /\ main' = "closeClient" /\ stage' = stage /\ lo' = lo /\ hi' = hi
    BY <1>6 DEF RampBroken, StopSweep
  <2>2. SearchType'
    BY <1>2, <2>1 DEF IInv, SearchType
  <2>3. KneeIsSharp'
    <3>1. CASE lastGood = NoLevel
      <4>1. Good = {} /\ level = MinUsers
        BY <1>2, <1>3, <3>1, SweepAssumption DEF IInv, GoodUpToLast, Levels, NoLevel
      <4>2. QED
        BY <1>1, <1>2, <3>1, <4>1 DEF KneeIsSharp
    <3>2. CASE lastGood # NoLevel
      <4>1. lastGood + 1 = level
        BY <1>2, <1>3, <1>6, <3>2, SweepAssumption DEF Levels
      <4>2. QED
        BY <1>1, <1>2, <3>2, <4>1 DEF IInv, GoodUpToLast, KneeIsSharp, Reported
    <3>3. QED
      BY <3>1, <3>2
  <2>4. QED
    BY <1>4, <2>1, <2>2, <2>3 DEF IInv, RampInv, RefineInv, Sweeping
<1>7. QED
  BY <1>5, <1>6

(* A refining step narrows the interval and keeps its two ends.            *)
LEMMA RefineStepInv ==
    ASSUME IInv, main = "step", stage = "refine", NEW met \in BOOLEAN, RefineStep(met),
           NEW r, r.n = level, r.met = met, steps' = steps \cup {r}
    PROVE  IInv'
<1>1. /\ met => Good' = Good \cup {level} /\ Bad' = Bad
      /\ ~met => Good' = Good /\ Bad' = Bad \cup {level}
  BY JudgedSets DEF IInv, SearchType
<1>2. /\ lastGood # NoLevel /\ lo = lastGood + 1 /\ lo <= level /\ level <= hi
      /\ hi + 1 \in Bad /\ \A n \in Bad : hi < n
  BY DEF IInv, RefineInv, Sweeping
<1>3. /\ level \in Int /\ lo \in Int /\ hi \in Int /\ lastGood \in Levels
      /\ \A n \in Good \cup Bad : n \in Levels
  BY <1>2 DEF IInv, SearchType, Good, Bad
<1>4. level \in Levels
  BY <1>2, <1>3, SweepAssumption DEF Levels
<1>5. /\ lastGood' = (IF met THEN level ELSE lastGood)
      /\ lo' = (IF met THEN level + 1 ELSE lo)
      /\ hi' = (IF met THEN hi ELSE level - 1)
      /\ firstBad' = firstBad /\ stage' = stage
      /\ IF lo' <= hi' THEN level' = (lo' + hi') \div 2 /\ main' = "reset"
                       ELSE level' = level /\ main' = "closeClient"
  BY DEF RefineStep, GoTo, StopSweep
<1>6. /\ lo' \in Int /\ hi' \in Int /\ lastGood' \in Levels /\ lo' = lastGood' + 1
      /\ lo' <= hi' + 1
  BY <1>2, <1>3, <1>4, <1>5
<1>7. hi' + 1 \in Bad' /\ \A n \in Bad' : hi' < n
  <2>1. CASE met
    BY <1>1, <1>2, <1>5, <2>1
  <2>2. CASE ~met
    <3>1. hi' = level - 1 /\ Bad' = Bad \cup {level}
      BY <1>1, <1>5, <2>2
    <3>2. \A n \in Bad : level - 1 < n
      BY <1>2, <1>3, SweepAssumption DEF Levels
    <3>3. QED
      BY <1>3, <3>1, <3>2
  <2>3. QED
    BY <2>1, <2>2
<1>8. GoodUpToLast'
  <2>1. CASE met
    BY <1>1, <1>2, <1>3, <1>5, <2>1, SweepAssumption DEF IInv, GoodUpToLast, Levels
  <2>2. CASE ~met
    BY <1>1, <1>5, <2>2 DEF IInv, GoodUpToLast
  <2>3. QED
    BY <2>1, <2>2
<1>9. lastGood' # NoLevel
  BY <1>6, SweepAssumption DEF Levels, NoLevel
<1>10. CASE lo' <= hi'
  <2>1. level' \in Int /\ lo' <= level' /\ level' <= hi' /\ main' = "reset"
    BY <1>5, <1>6, <1>10, Midpoint
  <2>2. SearchType'
    BY <1>4, <1>5, <1>6, <2>1 DEF IInv, SearchType
  <2>3. QED
    BY <1>5, <1>6, <1>7, <1>8, <1>9, <2>1, <2>2
       DEF IInv, RampInv, RefineInv, KneeIsSharp, SweepOver
<1>11. CASE ~(lo' <= hi')
  <2>1. level' = level /\ main' = "closeClient" /\ hi' + 1 = lastGood' + 1
    BY <1>5, <1>6, <1>11
  <2>2. SearchType'
    BY <1>4, <1>5, <1>6, <2>1 DEF IInv, SearchType
  <2>3. KneeIsSharp'
    BY <1>7, <1>8, <1>9, <2>1 DEF KneeIsSharp, GoodUpToLast, Reported
  <2>4. QED
    BY <1>8, <2>1, <2>2, <2>3 DEF IInv, RampInv, RefineInv, Sweeping
<1>12. QED
  BY <1>10, <1>11

(* Every step of the sweep and of its users preserves the invariant.       *)
LEMMA NextIInv == ASSUME IInv, [Next]_vars PROVE IInv'
<1>1. CASE Judge
  <2>1. /\ main = "step" /\ steps' = steps \cup {StepRecord}
        /\ StepRecord.n = level /\ StepRecord.met = Met /\ Met \in BOOLEAN
    BY <1>1 DEF Judge, StepRecord, Met
  <2>2. IF stage = "refine" THEN RefineStep(Met) ELSE IF Met THEN RampMet ELSE RampBroken
    BY <1>1 DEF Judge
  <2>3. stage \in {"ramp", "refine"}
    BY DEF IInv, SearchType
  <2>4. CASE stage = "refine"
    BY <2>1, <2>2, <2>4, RefineStepInv
  <2>5. CASE stage = "ramp" /\ Met
    BY <2>1, <2>2, <2>5, RampMetStep
  <2>6. CASE stage = "ramp" /\ ~Met
    BY <2>1, <2>2, <2>6, RampBrokenStep
  <2>7. QED
    BY <2>3, <2>4, <2>5, <2>6
<1>2. CASE StartStep \/ Finalize \/ LoopDrained
  <2>1. UNCHANGED searchVars
        /\ \/ main = "reset" /\ main' = "step"
           \/ main = "closeClient" /\ main' = "finished"
           \/ main' = "cancelled"
    BY <1>2 DEF StartStep, Finalize, LoopDrained
  <2>2. Good' = Good /\ Bad' = Bad
    BY <2>1 DEF searchVars, Good, Bad
  <2>3. QED
    BY <2>1, <2>2 DEF IInv, searchVars, SearchType, GoodUpToLast, RampInv, RefineInv,
        KneeIsSharp, SweepOver, Sweeping, Reported
<1>3. CASE UNCHANGED <<main, searchVars>>
  <2>1. Good' = Good /\ Bad' = Bad
    BY <1>3 DEF searchVars, Good, Bad
  <2>2. QED
    BY <1>3, <2>1 DEF IInv, searchVars, SearchType, GoodUpToLast, RampInv, RefineInv,
        KneeIsSharp, SweepOver, Sweeping, Reported
<1>4. CASE Timeout \/ Sigint \/ ShutdownAndSave \/ Ended \/ UNCHANGED vars
  <2>1. UNCHANGED <<main, searchVars>>
    BY <1>4 DEF Timeout, Sigint, ShutdownAndSave, Ended, vars
  <2>2. QED
    BY <1>3, <2>1
<1>5. CASE \E u \in Users : Turn(u) \/ Reply(u) \/ Raise(u)
  <2>1. UNCHANGED <<main, searchVars>>
    BY <1>5 DEF Turn, LeaveLoop, Unsent, Send, Cancelled, Reply, Raise, UserFrame
  <2>2. QED
    BY <1>3, <2>1
<1>6. QED
  BY <1>1, <1>2, <1>4, <1>5 DEF Next, MainStep

(* The inductive invariant holds throughout a sweep (_run_slo).            *)
THEOREM Invariance == Spec => []IInv
<1>1. Init => IInv
  BY InitIInv
<1>2. IInv /\ [Next]_vars => IInv'
  BY NextIInv
<1>3. QED
  BY <1>1, <1>2, PTL DEF Spec

(* The report of a sweep that saw a level fail is a sharp knee, whatever   *)
(* the range, the strategy and the verdicts (_run_slo).                    *)
THEOREM ReportIsSharp == Spec => []KneeIsSharp
<1>1. IInv => KneeIsSharp
  BY DEF IInv
<1>2. QED
  BY <1>1, Invariance, PTL

(* No level is measured twice, and none outside the range.                 *)
THEOREM LevelsTestedOnce == Spec => []TestedOnce
<1>1. ASSUME IInv PROVE TestedOnce
  <2> SUFFICES ASSUME Sweeping PROVE level \in Levels \ Tested
    BY DEF TestedOnce, Sweeping
  <2>1. Tested = Good \cup Bad
    BY <1>1 DEF IInv, SearchType, Tested, Good, Bad
  <2>2. \A n \in Good \cup Bad : n \in Levels
    BY <1>1 DEF IInv, SearchType, Good, Bad
  <2>3. level \in Int /\ stage \in {"ramp", "refine"} /\ lastGood \in Levels \cup {NoLevel}
        /\ hi \in Int
    BY <1>1 DEF IInv, SearchType
  <2>4. CASE stage = "ramp"
    <3>1. level \in Levels /\ lastGood < level /\ Bad = {}
      BY <1>1, <2>4 DEF IInv, RampInv
    <3>2. \A n \in Good : n <= lastGood
      BY <1>1 DEF IInv, GoodUpToLast
    <3>3. level \notin Good
      BY <2>3, <3>1, <3>2, SweepAssumption DEF Levels, NoLevel
    <3>4. QED
      BY <2>1, <3>1, <3>3
  <2>5. CASE stage = "refine"
    <3>1. /\ lastGood # NoLevel /\ lo = lastGood + 1 /\ lo <= level /\ level <= hi
          /\ hi + 1 \in Bad /\ \A n \in Bad : hi < n
      BY <1>1, <2>5 DEF IInv, RefineInv
    <3>2. \A n \in Good : n <= lastGood
      BY <1>1 DEF IInv, GoodUpToLast
    <3>3. level \in Levels
      BY <2>2, <2>3, <3>1, SweepAssumption DEF Levels
    <3>4. level \notin Good /\ level \notin Bad
      BY <2>3, <3>1, <3>2, <3>3, SweepAssumption DEF Levels
    <3>5. QED
      BY <2>1, <3>3, <3>4
  <2>6. QED
    BY <2>3, <2>4, <2>5
<1>2. QED
  BY <1>1, Invariance, PTL

-----------------------------------------------------------------------------
(* The users of a step.  Its measured turns are counted as a set of pairs, *)
(* a user and the number of a turn it is past.                             *)
MeasuredTurns ==
    {p \in (0..level - 1) \X (WarmupTurns + 1..TotalTurns) : p[2] < turn[p[1]]}

StepType ==
    /\ task \in [Users -> {"ready", "posting", "cancelling", "over"}]
    /\ turn \in [Users -> 1..TotalTurns + 1]
    /\ tally \in [Outcomes -> Nat]
    /\ timedOut \in BOOLEAN /\ raised \in BOOLEAN /\ shutdown \in BOOLEAN
    /\ \A u \in Users : task[u] = "posting" => turn[u] <= TotalTurns

(* The sample has every measured turn once.                                *)
SampleInv == main = "step" => Total(tally) = Cardinality(MeasuredTurns)

(* As long as nothing went wrong, a user that stopped has had all turns.   *)
Undisturbed == ~shutdown /\ ~timedOut /\ ~raised
WholeInv ==
    main = "step" /\ Undisturbed =>
        \A u \in Users :
            /\ task[u] # "cancelling"
            /\ u < level /\ task[u] = "over" => turn[u] = TotalTurns + 1

StepInv == StepType /\ StepsDoNotOverlap /\ SampleInv /\ WholeInv

(* The turns of a step are finitely many.                                  *)
LEMMA MeasuredFinite ==
    ASSUME level \in Levels
    PROVE  /\ IsFiniteSet(MeasuredTurns)
           /\ IsFiniteSet((0..level - 1) \X (WarmupTurns + 1..TotalTurns))
           /\ Cardinality((0..level - 1) \X (WarmupTurns + 1..TotalTurns)) = level * StepTurns
<1>1. level \in Nat /\ WarmupTurns \in Nat /\ StepTurns \in Nat
      /\ TotalTurns = WarmupTurns + StepTurns
  BY SweepAssumption DEF Levels, TotalTurns
<1>2. IsFiniteSet(0..level - 1) /\ Cardinality(0..level - 1) = level
  BY <1>1, FS_Interval
<1>3. IsFiniteSet(WarmupTurns + 1..TotalTurns)
      /\ Cardinality(WarmupTurns + 1..TotalTurns) = StepTurns
  BY <1>1, FS_Interval
<1>4. /\ IsFiniteSet((0..level - 1) \X (WarmupTurns + 1..TotalTurns))
      /\ Cardinality((0..level - 1) \X (WarmupTurns + 1..TotalTurns)) = level * StepTurns
  BY <1>2, <1>3, FS_Product
<1>5. MeasuredTurns \in SUBSET ((0..level - 1) \X (WarmupTurns + 1..TotalTurns))
  BY DEF MeasuredTurns
<1>6. QED
  BY <1>4, <1>5, FS_Subset

(* A user that goes on to its next turn adds the one it had to the         *)
(* measured turns, unless it was a warm-up turn.                           *)
LEMMA TurnMeasured ==
    ASSUME level \in Levels, NEW u \in Users, u < level, level' = level,
           turn \in [Users -> 1..TotalTurns + 1], turn[u] <= TotalTurns,
           turn' = [turn EXCEPT ![u] = @ + 1]
    PROVE  Cardinality(MeasuredTurns') =
               Cardinality(MeasuredTurns) + (IF turn[u] > WarmupTurns THEN 1 ELSE 0)
<1> DEFINE Turns == WarmupTurns + 1..TotalTurns
           Mine == <<u, turn[u]>>
<1>1. /\ level \in Nat /\ level <= MaxUsers /\ MaxUsers \in Nat /\ u \in 0..level - 1
      /\ WarmupTurns \in Nat /\ TotalTurns \in Nat /\ Users = 0..MaxUsers - 1
  BY SweepAssumption DEF Levels, Users, TotalTurns
<1>2. turn[u] \in Nat /\ turn'[u] = turn[u] + 1
      /\ \A v \in Users \ {u} : turn'[v] = turn[v]
  BY <1>1
<1>3. \A v \in 0..level - 1 : v \in Users /\ turn[v] \in Nat
  BY <1>1
<1>4. ASSUME NEW v \in 0..level - 1, NEW k \in Turns
      PROVE  k < turn'[v] <=> (k < turn[v] \/ (v = u /\ k = turn[u]))
  <2>1. CASE v = u
    BY <1>1, <1>2, <2>1
  <2>2. CASE v # u
    BY <1>2, <1>3, <2>2
  <2>3. QED
    BY <2>1, <2>2
<1>5. MeasuredTurns' = MeasuredTurns \cup {p \in {Mine} : turn[u] \in Turns}
  <2>1. MeasuredTurns' = {p \in (0..level - 1) \X Turns : p[2] < turn'[p[1]]}
    BY DEF MeasuredTurns, TotalTurns
  <2>2. ASSUME NEW p \in (0..level - 1) \X Turns
        PROVE  p[2] < turn'[p[1]] <=> (p[2] < turn[p[1]] \/ p = Mine)
    <3>1. PICK v \in 0..level - 1, k \in Turns : p = <<v, k>>
      OBVIOUS
    <3>2. QED
      BY <1>4, <3>1
  <2>3. Mine \in (0..level - 1) \X Turns <=> turn[u] \in Turns
    BY <1>1
  <2>4. QED
    BY <2>1, <2>2, <2>3 DEF MeasuredTurns
<1>6. Mine \notin MeasuredTurns
  BY <1>2 DEF MeasuredTurns
<1>7. turn[u] \in Turns <=> turn[u] > WarmupTurns
  BY <1>1, <1>2
<1>8. IsFiniteSet(MeasuredTurns) /\ Cardinality(MeasuredTurns) \in Nat
  BY MeasuredFinite, FS_CardinalityType
<1>9. CASE turn[u] > WarmupTurns
  <2>1. MeasuredTurns' = MeasuredTurns \cup {Mine}
    BY <1>5, <1>7, <1>9
  <2>2. QED
    BY <1>6, <1>8, <1>9, <2>1, FS_AddElement
<1>10. CASE ~(turn[u] > WarmupTurns)
  <2>1. MeasuredTurns' = MeasuredTurns
    BY <1>5, <1>7, <1>10
  <2>2. QED
    BY <1>8, <1>10, <2>1
<1>11. QED
  BY <1>9, <1>10

(* Counted adds one to the sample if the turn is measured.                 *)
LEMMA CountedTotal ==
    ASSUME tally \in [Outcomes -> Nat], NEW u \in Users, NEW o \in Outcomes
    PROVE  /\ Counted(u, o) \in [Outcomes -> Nat]
           /\ Total(Counted(u, o)) =
                  Total(tally) + (IF turn[u] > WarmupTurns THEN 1 ELSE 0)
<1>1. CASE turn[u] > WarmupTurns
  <2>1. Counted(u, o) = [tally EXCEPT ![o] = @ + 1]
    BY <1>1 DEF Counted
  <2>2. Counted(u, o) \in [Outcomes -> Nat]
    BY <2>1
  <2>3. Total(Counted(u, o)) = Total(tally) + 1
    <3>1. \A x \in Outcomes : /\ tally[x] \in Nat
                             /\ Counted(u, o)[x] = IF x = o THEN tally[x] + 1 ELSE tally[x]
      BY <2>1
    <3> HIDE DEF Counted
    <3>2. CASE o = "fast"
      BY <3>1, <3>2 DEF Outcomes, Total
    <3>3. CASE o = "slow"
      BY <3>1, <3>3 DEF Outcomes, Total
    <3>4. CASE o = "failed"
      BY <3>1, <3>4 DEF Outcomes, Total
    <3>5. QED
      BY <3>2, <3>3, <3>4 DEF Outcomes
  <2>4. QED
    BY <1>1, <2>2, <2>3
<1>2. CASE ~(turn[u] > WarmupTurns)
  BY <1>2 DEF Counted, Outcomes, Total
<1>3. QED
  BY <1>1, <1>2

(* The empty sample.                                                       *)
LEMMA NoTallyType == NoTally \in [Outcomes -> Nat] /\ Total(NoTally) = 0
<1>1. NoTally = [o \in Outcomes |-> 0]
  BY DEF NoTally, Outcomes
<1>2. QED
  BY <1>1 DEF NoTally, Outcomes, Total

(* A sweep starts without users.                                           *)
LEMMA InitStepInv == Init => StepInv
<1> SUFFICES ASSUME Init PROVE StepInv
  OBVIOUS
<1>1. /\ task = [u \in Users |-> "over"] /\ turn = [u \in Users |-> 1] /\ tally = NoTally
      /\ timedOut = FALSE /\ raised = FALSE /\ main # "step"
  BY DEF Init
<1>2. StepType
  <2>1. shutdown \in BOOLEAN
    BY DEF Init
  <2>2. 1 \in 1..TotalTurns + 1
    BY SweepAssumption DEF TotalTurns
  <2>3. turn \in [Users -> 1..TotalTurns + 1]
    BY <1>1, <2>2
  <2>4. task \in [Users -> {"ready", "posting", "cancelling", "over"}]
        /\ \A u \in Users : task[u] # "posting"
    BY <1>1
  <2>5. QED
    BY <1>1, <2>1, <2>3, <2>4, NoTallyType DEF StepType
<1>3. QED
  BY <1>1, <1>2 DEF StepInv, StepsDoNotOverlap, SampleInv, WholeInv

(* A step starts with all its users before their first turn.               *)
LEMMA StartedStepInv == ASSUME StepInv, TestedOnce, StartStep PROVE StepInv'
<1>1. /\ level \in Levels /\ level' = level /\ main' = "step"
      /\ task' = [u \in Users |-> IF u < level THEN "ready" ELSE "over"]
      /\ turn' = [u \in Users |-> 1] /\ tally' = NoTally
      /\ timedOut' = FALSE /\ raised' = FALSE /\ shutdown' = shutdown
  BY DEF StartStep, TestedOnce, searchVars
<1>2. /\ level \in Nat /\ level <= MaxUsers /\ MaxUsers \in Nat /\ Users = 0..MaxUsers - 1
      /\ WarmupTurns \in Nat /\ TotalTurns \in Nat
  BY <1>1, SweepAssumption DEF Levels, Users, TotalTurns
<1>3. StepType'
  <2>1. shutdown' \in BOOLEAN
    BY <1>1 DEF StepInv, StepType
  <2>2. 1 \in 1..TotalTurns + 1
    BY <1>2
  <2>3. turn' \in [Users -> 1..TotalTurns + 1]
    BY <1>1, <2>2
  <2>4. task' \in [Users -> {"ready", "posting", "cancelling", "over"}]
        /\ \A u \in Users : task'[u] # "posting"
    BY <1>1
  <2>5. QED
    BY <1>1, <2>1, <2>3, <2>4, NoTallyType DEF StepType
<1>4. StepsDoNotOverlap' /\ WholeInv'
  BY <1>1, <1>2 DEF StepsDoNotOverlap, WholeInv
<1>5. MeasuredTurns' = {}
  BY <1>1, <1>2 DEF MeasuredTurns
<1>6. SampleInv'
  BY <1>1, <1>5, NoTallyType, FS_EmptySet DEF SampleInv, Total
<1>7. QED
  BY <1>3, <1>4, <1>6 DEF StepInv

(* A user that takes a turn adds it to the sample.                         *)
LEMMA TurnTaken ==
    ASSUME StepInv, TestedOnce, NEW u \in Users, NEW o \in Outcomes,
           task[u] \in {"ready", "posting"}, turn[u] <= TotalTurns,
           turn' = [turn EXCEPT ![u] = @ + 1], tally' = Counted(u, o),
           task' = [task EXCEPT ![u] = "ready"], UNCHANGED raised, UserFrame
    PROVE  StepInv'
<1>1. /\ main = "step" /\ main' = main /\ level' = level /\ u < level /\ level \in Levels
      /\ timedOut' = timedOut /\ shutdown' = shutdown /\ raised' = raised
  BY DEF UserFrame, searchVars, StepInv, StepsDoNotOverlap, TestedOnce
<1>2. /\ StepType /\ TotalTurns \in Nat /\ StepsDoNotOverlap /\ SampleInv /\ WholeInv
      /\ Users \subseteq Nat
  BY SweepAssumption DEF StepInv, TotalTurns, Users
<1>3. /\ tally' \in [Outcomes -> Nat]
      /\ Total(tally') = Total(tally) + (IF turn[u] > WarmupTurns THEN 1 ELSE 0)
  BY <1>2, CountedTotal DEF StepType
<1>4. StepType'
  BY <1>1, <1>2, <1>3 DEF StepType
<1>5. StepsDoNotOverlap'
  BY <1>1, <1>2 DEF StepType, StepsDoNotOverlap
<1>6. SampleInv'
  BY <1>1, <1>2, <1>3, TurnMeasured DEF StepType, SampleInv
<1>7. WholeInv'
  <2> SUFFICES ASSUME Undisturbed, NEW v \in Users
               PROVE  /\ task'[v] # "cancelling"
                      /\ v < level /\ task'[v] = "over" => turn'[v] = TotalTurns + 1
    BY <1>1 DEF WholeInv, Undisturbed
  <2>1. CASE v = u
    BY <1>2, <2>1 DEF StepType
  <2>2. CASE v # u
    BY <1>1, <1>2, <2>2 DEF StepType, WholeInv
  <2>3. QED
    BY <2>1, <2>2
<1>8. QED
  BY <1>4, <1>5, <1>6, <1>7 DEF StepInv

(* A user that moves within a turn leaves the sample alone.                *)
LEMMA UserMoved ==
    ASSUME StepInv, NEW u \in Users, task[u] # "over",
           NEW s \in {"posting", "over"}, task' = [task EXCEPT ![u] = s],
           UNCHANGED <<turn, tally>>, UserFrame, raised' \in BOOLEAN,
           s = "posting" => turn[u] <= TotalTurns, raised => raised',
           s = "over" => ~Undisturbed \/ raised' \/ turn[u] = TotalTurns + 1
    PROVE  StepInv'
<1>1. /\ main = "step" /\ main' = main /\ level' = level /\ u < level
      /\ timedOut' = timedOut /\ shutdown' = shutdown /\ turn' = turn /\ tally' = tally
  BY DEF UserFrame, searchVars, StepInv, StepsDoNotOverlap
<1>2. StepType /\ StepsDoNotOverlap /\ SampleInv /\ WholeInv
  BY DEF StepInv
<1>3. StepType'
  BY <1>1, <1>2 DEF StepType
<1>4. StepsDoNotOverlap'
  BY <1>1, <1>2 DEF StepType, StepsDoNotOverlap
<1>5. SampleInv'
  BY <1>1, <1>2 DEF SampleInv, MeasuredTurns
<1>6. WholeInv'
  <2> SUFFICES ASSUME Undisturbed, ~raised', NEW v \in Users
               PROVE  /\ task'[v] # "cancelling"
                      /\ v < level /\ task'[v] = "over" => turn[v] = TotalTurns + 1
    BY <1>1 DEF WholeInv, Undisturbed
  <2>1. CASE v = u
    BY <1>2, <2>1 DEF StepType
  <2>2. CASE v # u
    BY <1>1, <1>2, <2>2 DEF StepType, WholeInv
  <2>3. QED
    BY <2>1, <2>2
<1>7. QED
  BY <1>3, <1>4, <1>5, <1>6 DEF StepInv

(* Cancelling what is under way leaves the sample alone.                   *)
LEMMA Cancelling ==
    ASSUME StepInv, task' \in {task, [u \in Users |->
                                 IF task[u] = "posting" THEN "cancelling" ELSE task[u]]},
           UNCHANGED <<main, searchVars, turn, tally, raised>>,
           timedOut' \in BOOLEAN, shutdown' \in BOOLEAN,
           timedOut => timedOut', shutdown => shutdown', task' # task => timedOut' \/ shutdown'
    PROVE  StepInv'
<1>1. StepType /\ StepsDoNotOverlap /\ SampleInv /\ WholeInv
  BY DEF StepInv
<1>2. level' = level
  BY DEF searchVars
<1>3. StepType'
  BY <1>1 DEF StepType
<1>4. StepsDoNotOverlap'
  BY <1>1, <1>2 DEF StepType, StepsDoNotOverlap
<1>5. SampleInv'
  BY <1>1, <1>2 DEF SampleInv, MeasuredTurns
<1>6. WholeInv'
  BY <1>1, <1>2 DEF WholeInv, Undisturbed, StepType
<1>7. QED
  BY <1>3, <1>4, <1>5, <1>6 DEF StepInv

(* Every step of the sweep and of its users preserves the invariant.       *)
LEMMA NextStepInv == ASSUME StepInv, TestedOnce, [Next]_vars PROVE StepInv'
<1>1. StepType /\ StepsDoNotOverlap /\ SampleInv /\ WholeInv
  BY DEF StepInv
<1>2. CASE StartStep
  BY <1>2, StartedStepInv
<1>3. CASE Judge \/ Finalize \/ LoopDrained
  <2>1. TasksOver /\ UNCHANGED <<stepVars, shutdown>> /\ main' # "step"
    <3>1. CASE Judge
      BY <1>3, <3>1 DEF Judge, JudgeFrame, RefineStep, RampMet, RampBroken, GoTo, StopSweep
    <3>2. CASE Finalize
      BY <1>1, <3>2 DEF Finalize, TasksOver, StepsDoNotOverlap
    <3>3. CASE LoopDrained
      BY <3>3 DEF LoopDrained
    <3>4. QED
      BY <1>3, <3>1, <3>2, <3>3
  <2>2. QED
    BY <1>1, <2>1 DEF StepInv, stepVars, TasksOver, StepType, StepsDoNotOverlap, SampleInv,
        WholeInv
<1>4. CASE Timeout \/ Sigint
  <2>1. StepType /\ timedOut \in BOOLEAN /\ shutdown \in BOOLEAN
    BY <1>1 DEF StepType
  <2>2. QED
    BY <1>4, <2>1, Cancelling DEF Timeout, Sigint
<1>5. CASE ShutdownAndSave \/ Ended \/ UNCHANGED vars
  <2>1. UNCHANGED <<main, searchVars, stepVars, shutdown>>
    BY <1>5 DEF ShutdownAndSave, Ended, vars
  <2>2. QED
    BY <1>1, <2>1, Cancelling DEF stepVars, StepType
<1>6. ASSUME NEW u \in Users, Turn(u) \/ Reply(u) \/ Raise(u) PROVE StepInv'
  <2>1. /\ task[u] \in {"ready", "posting", "cancelling", "over"}
        /\ turn[u] \in 1..TotalTurns + 1 /\ TotalTurns \in Nat
        /\ raised \in BOOLEAN /\ timedOut \in BOOLEAN /\ shutdown \in BOOLEAN
    BY <1>1, SweepAssumption DEF StepType, TotalTurns
  <2>2. CASE LeaveLoop(u)
    <3>1. task[u] = "ready" /\ (shutdown \/ turn[u] = TotalTurns + 1)
      BY <2>1, <2>2 DEF LeaveLoop, Runs
    <3>2. QED
      BY <2>1, <2>2, <3>1, UserMoved DEF LeaveLoop, Undisturbed
  <2>3. CASE Unsent(u)
    <3>1. task[u] = "ready" /\ task' = [task EXCEPT ![u] = "ready"]
      BY <1>1, <2>3 DEF Unsent, InTurn, Runs, StepType
    <3>2. QED
      BY <2>3, <3>1, TurnTaken DEF Unsent, InTurn, Outcomes
  <2>4. CASE Send(u)
    BY <2>1, <2>4, UserMoved DEF Send, InTurn, Runs
  <2>5. CASE Cancelled(u)
    <3>1. main = "step" /\ ~Undisturbed
      BY <1>1, <2>5 DEF Cancelled, WholeInv, StepsDoNotOverlap
    <3>2. QED
      BY <2>1, <2>5, <3>1, UserMoved DEF Cancelled
  <2>6. CASE Reply(u)
    <3>1. PICK o \in Outcomes : tally' = Counted(u, o)
      BY <2>6 DEF Reply
    <3>2. turn[u] <= TotalTurns
      BY <1>1, <2>6 DEF Reply, StepType
    <3>3. QED
      BY <2>6, <3>1, <3>2, TurnTaken DEF Reply
  <2>7. CASE Raise(u)
    BY <2>1, <2>7, UserMoved DEF Raise
  <2>8. QED
    BY <1>6, <2>2, <2>3, <2>4, <2>5, <2>6, <2>7 DEF Turn
<1>7. QED
  BY <1>2, <1>3, <1>4, <1>5, <1>6 DEF Next, MainStep

(* The invariant of the users holds throughout a sweep (_run_slo_step).    *)
THEOREM StepInvariance == Spec => []StepInv
<1>1. StepInv /\ TestedOnce /\ [Next]_vars => StepInv'
  BY NextStepInv
<1>2. QED
  BY <1>1, InitStepInv, LevelsTestedOnce, PTL DEF Spec

(* No request of a step is under way when the next one starts, and a step  *)
(* has no other users than its own (wait_for and gather in _run_slo_step). *)
THEOREM StepsAreSeparate == Spec => []StepsDoNotOverlap
<1>1. StepInv => StepsDoNotOverlap
  BY DEF StepInv
<1>2. QED
  BY <1>1, StepInvariance, PTL

(* A level that passes, undisturbed, has passed on every measured turn of  *)
(* each of its users (_slo_verdict on what _run_slo_step gathered).        *)
THEOREM FullSample == Spec => PassedOnFullSample
<1> DEFINE Judged == \A s \in steps' \ steps :
                        s.met /\ ~shutdown /\ ~raised => Total(tally) = s.n * StepTurns
<1>1. ASSUME StepInv, TestedOnce, [Next]_vars PROVE [Judged]_vars
  <2>1. CASE Judge
    <3> SUFFICES ASSUME NEW s \in steps' \ steps, s.met, ~shutdown, ~raised
                 PROVE  Total(tally) = s.n * StepTurns
      OBVIOUS
    <3>1. s = StepRecord /\ s.n = level /\ Met /\ main = "step" /\ TasksOver
      BY <2>1 DEF Judge, StepRecord
    <3>2. Undisturbed /\ level \in Levels /\ StepType /\ SampleInv /\ WholeInv
      BY <1>1, <3>1 DEF Met, Undisturbed, TestedOnce, StepInv
    <3>3. MeasuredTurns = (0..level - 1) \X (WarmupTurns + 1..TotalTurns)
      <4>1. /\ level \in Nat /\ level <= MaxUsers /\ MaxUsers \in Nat
            /\ Users = 0..MaxUsers - 1 /\ WarmupTurns \in Nat /\ TotalTurns \in Nat
        BY <3>2, SweepAssumption DEF Levels, Users, TotalTurns
      <4>2. \A u \in 0..level - 1 : turn[u] = TotalTurns + 1
        BY <3>1, <3>2, <4>1 DEF WholeInv, TasksOver
      <4>3. QED
        BY <4>1, <4>2 DEF MeasuredTurns
    <3>4. QED
      BY <3>1, <3>2, <3>3, MeasuredFinite DEF SampleInv
  <2>2. CASE UNCHANGED steps
    BY <2>2
  <2>3. ASSUME NEW u \in Users, Turn(u) \/ Reply(u) \/ Raise(u) PROVE UNCHANGED steps
    BY <2>3 DEF Turn, LeaveLoop, Unsent, Send, Cancelled, Reply, Raise, UserFrame, searchVars
  <2>4. QED
    BY <1>1, <2>1, <2>2, <2>3 DEF Next, MainStep, StartStep, Finalize, Timeout, Sigint,
        LoopDrained, ShutdownAndSave, Ended, vars, searchVars
<1>2. QED
  BY <1>1, StepInvariance, LevelsTestedOnce, PTL DEF Spec, PassedOnFullSample

(* Every variable keeps to its type: with the two invariants, what is left *)
(* are the levels and records of the sweep and how it ends.                *)
THEOREM TypeCorrect == Spec => []TypeOK
<1> DEFINE SweepType == /\ level \in Levels \cup {MinUsers}
                        /\ steps \subseteq [n : Levels, met : BOOLEAN]
                        /\ loop \in {"open", "closing", "closed"}
                        /\ output \in {"none", "sweep", "scenario"}
<1>1. Init => SweepType
  BY DEF Init
<1>2. ASSUME SweepType, TestedOnce, TestedOnce', [Next]_vars PROVE SweepType'
  <2>1. CASE Judge
    <3>1. StepRecord \in [n : Levels, met : BOOLEAN]
      BY <1>2, <2>1 DEF Judge, TestedOnce, StepRecord, Met
    <3>2. level' = level \/ main' = "reset"
      BY <2>1 DEF Judge, RefineStep, RampMet, RampBroken, GoTo, StopSweep
    <3>3. level' \in Levels \cup {MinUsers}
      BY <1>2, <3>2 DEF TestedOnce, Levels
    <3>4. QED
      BY <1>2, <2>1, <3>1, <3>3 DEF Judge, JudgeFrame
  <2>2. ASSUME NEW u \in Users, Turn(u) \/ Reply(u) \/ Raise(u) PROVE SweepType'
    BY <1>2, <2>2 DEF Turn, LeaveLoop, Unsent, Send, Cancelled, Reply, Raise, UserFrame,
        searchVars, Levels
  <2>3. CASE \/ StartStep \/ Finalize \/ Timeout \/ Sigint \/ LoopDrained \/ ShutdownAndSave
             \/ Ended \/ UNCHANGED vars
    BY <1>2, <2>3 DEF StartStep, Finalize, Timeout, Sigint, LoopDrained, ShutdownAndSave, Ended,
        vars, searchVars, Levels
  <2>4. QED
    BY <1>2, <2>1, <2>2, <2>3 DEF Next, MainStep
<1>3. IInv /\ StepInv /\ SweepType => TypeOK
  BY DEF IInv, SearchType, StepInv, StepType, TypeOK
<1>4. QED
  BY <1>1, <1>2, <1>3, Invariance, StepInvariance, LevelsTestedOnce, PTL DEF Spec
=============================================================================
