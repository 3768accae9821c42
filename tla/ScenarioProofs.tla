--------------------------- MODULE ScenarioProofs ---------------------------
(***************************************************************************)
(* Proofs about the scenario run, for every number of users and turns,     *)
(* every arrival discipline, threshold and set of faults; last, that every *)
(* user of it implements UserContext.                                      *)
(***************************************************************************)
EXTENDS ScenarioRefinement, SequenceTheorems, FiniteSetTheorems, TLAPS

(* Text has a natural number of tokens whatever length is asked for.       *)
LEMMA GeneratedType ==
    ASSUME NEW n \in Int, NEW j \in Jitter PROVE GeneratedTokens(n, j) \in Nat
BY ContextAssumption DEF GeneratedTokens

(* prepare_turn returns a context, whatever it was given.                  *)
LEMMA PrepareType ==
    ASSUME NEW c \in Contexts, NEW r \in PrepareOutcomes(c)
    PROVE  r.ctx \in Contexts /\ r.compacted \in BOOLEAN
<1>1. ASSUME NEW j \in Jitter PROVE Compacted(c, j) \in Contexts
  <2>1. /\ Cleared(c) \in Contexts /\ Cleared(c).history = <<>> /\ Cleared(c).tokens = 0
        /\ Cleared(c).content = c.content /\ Cleared(c).prefix = c.prefix
    <3>1. <<>> \in Seq(Nat)
      BY EmptySeq
    <3>2. QED
      BY <3>1 DEF Cleared, Contexts
  <2>2. c.prefix + Increment \in Int
    BY ContextAssumption DEF Contexts
  <2>3. GeneratedTokens(c.prefix + Increment, j) \in Nat
    BY <2>2, GeneratedType
  <2>4. Grown(c, j) \in Contexts
    BY <2>1, <2>2, <2>3 DEF Grown, Cleared, Contexts
  <2>5. QED
    BY <2>1, <2>4 DEF Compacted
<1>2. CASE \E j \in Jitter : r = Prepared(Compacted(c, j), TRUE)
  <2>1. PICK j \in Jitter : r = Prepared(Compacted(c, j), TRUE)
    BY <1>2
  <2>2. r.ctx = Compacted(c, j) /\ r.compacted = TRUE
    BY <2>1 DEF Prepared
  <2>3. QED
    BY <1>1, <2>2
<1>3. CASE r = Prepared(c, FALSE)
  <2>1. r.ctx = c /\ r.compacted = FALSE
    BY <1>3 DEF Prepared
  <2>2. QED
    BY <2>1
<1>4. QED
  BY <1>2, <1>3 DEF PrepareOutcomes

(* An exchange is appended to a context, and a new user has one.           *)
LEMMA AppendHistoryType ==
    ASSUME NEW c \in Contexts, NEW t \in Nat, NEW reply \in ReplySizes
    PROVE  AppendHistory(c, t, reply) \in Contexts
<1>1. c.tokens + InputTokens + reply \in Nat
  BY ContextAssumption DEF Contexts
<1>2. Append(c.history, t) \in Seq(Nat)
  BY AppendProperties DEF Contexts
<1>3. QED
  BY <1>1, <1>2 DEF AppendHistory, Contexts

LEMMA NewContextType ==
    ASSUME NEW j \in Jitter PROVE NewContext(j) \in Contexts
<1>1. InitialPrefix \in Int /\ GeneratedTokens(InitialPrefix, j) \in Nat
  BY ContextAssumption, GeneratedType
<1>2. <<>> \in Seq(Nat)
  BY EmptySeq
<1>3. QED
  BY <1>1, <1>2 DEF NewContext, Contexts

-----------------------------------------------------------------------------
TypeInv ==
    /\ TypeOK
    /\ \A u \in Users : task[u] = "posting" => turn[u] <= MaxTurns
    /\ main \notin MainEnds => history = 0
    /\ exit = Running => history <= 1

(* Tasks are created in order of arrival, none before the arrival loop.    *)
Started ==
    /\ \A u \in Users : u >= arrived => task[u] = "absent"
    /\ main \in {"preflight", "content", "refused"} => arrived = 0
    /\ main = "sleep" => arrived < NumUsers

(* A run asked to stop has no task that could send or take an answer: this *)
(* is what the cancellations and the checks of the flag are for.           *)
Quiet == shutdown => \A u \in Users : task[u] \notin {"ready", "posting"}

(* Past the gather, and in whatever way run() ended, every task is over.   *)
Closing == {"endSnapshot", "stopPoller", "closeClient"} \cup MainEnds

Over ==
    /\ main \in Closing => TasksOver
    /\ loop = "closed" => main \in MainEnds

SavedExact == Saved => main \in MainEnds /\ output = <<records>>

(* How the exit code is related to the end of run() and to the records.    *)
ExitInv ==
    /\ exit # Running => loop = "closed"
    /\ exit # 3 /\ main = "finished" => Saved
    /\ exit # 3 /\ Saved => main = "finished" \/ (main = "crashed" /\ "console" \in Faults)
    /\ exit \in {0, 2} => main = "finished" /\ (exit = 2 <=> AllFailed)
    /\ exit = 1 => main # "finished"

IInv == TypeInv /\ Started /\ Quiet /\ Over /\ SavedExact /\ ExitInv

-----------------------------------------------------------------------------
(* Cancelling every task that is not done.                                 *)
LEMMA CancelTasksProperties ==
    ASSUME NEW t \in [Users -> TaskStates]
    PROVE  /\ CancelTasks(t) \in [Users -> TaskStates]
           /\ \A u \in Users :
                 CancelTasks(t)[u] = IF t[u] \in {"ready", "posting"} THEN "cancelling" ELSE t[u]
BY DEF CancelTasks, TaskStates

(* Recording the outcome of a turn: the control state of the users.        *)
LEMMA RecordedTasks ==
    ASSUME task \in [Users -> TaskStates], shutdown \in BOOLEAN, NEW u \in Users, NEW new,
           NEW s \in TaskStates, Recorded(u, new, s)
    PROVE  /\ task' \in [Users -> TaskStates] /\ shutdown' \in BOOLEAN
           /\ shutdown => shutdown'
           /\ task'[u] = s \/ (s \in {"ready", "posting"} /\ task'[u] = "cancelling")
           /\ \A v \in Users \ {u} :
                 \/ task'[v] = task[v]
                 \/ task[v] \in {"ready", "posting"} /\ task'[v] = "cancelling"
           /\ shutdown' /\ ~shutdown => \A v \in Users : task'[v] \notin {"ready", "posting"}
<1> DEFINE t == [task EXCEPT ![u] = s]
<1>1. t \in [Users -> TaskStates] /\ t[u] = s /\ \A v \in Users \ {u} : t[v] = task[v]
  OBVIOUS
<1>2. /\ shutdown' = (shutdown \/ Aborts(consecutive'))
      /\ task' = IF Aborts(consecutive') THEN CancelTasks(t) ELSE t
  BY DEF Recorded
<1>3. Aborts(consecutive') \in BOOLEAN
  BY DEF Aborts
<1> HIDE DEF t
<1>4. CASE Aborts(consecutive')
  <2>1. task' = CancelTasks(t) /\ shutdown' = TRUE
    BY <1>2, <1>4
  <2>2. /\ task' \in [Users -> TaskStates]
        /\ \A v \in Users : task'[v] = IF t[v] \in {"ready", "posting"} THEN "cancelling" ELSE t[v]
    BY <1>1, <2>1, CancelTasksProperties
  <2>3. QED
    BY <1>1, <2>1, <2>2
<1>5. CASE ~Aborts(consecutive')
  BY <1>1, <1>2, <1>5
<1>6. QED
  BY <1>3, <1>4, <1>5

(* Recording the outcome of a turn: the types of what it changes.          *)
LEMMA RecordedTypes ==
    ASSUME records \in Seq(Records), completed \in Nat, errors \in Nat, consecutive \in Nat,
           turn \in [Users -> 1..MaxTurns + 1], NEW u \in Users, turn[u] <= MaxTurns,
           NEW new \in Seq(Records), Len(new) \in {1, 2}, NEW s, Recorded(u, new, s)
    PROVE  /\ records' \in Seq(Records)
           /\ completed' \in Nat /\ errors' \in Nat /\ consecutive' \in Nat
           /\ turn' \in [Users -> 1..MaxTurns + 1]
           /\ \A v \in Users \ {u} : turn'[v] = turn[v]
<1>1. records' \in Seq(Records)
  BY ConcatProperties DEF Recorded
<1>2. completed' \in Nat /\ consecutive' \in Nat
  BY DEF Recorded, NewConsecutive
<1>3. errors' \in Nat
  <2>1. IsFiniteSet(DOMAIN new)
    BY LenProperties, FS_Interval
  <2>2. Cardinality({i \in DOMAIN new : Failed(new[i])}) \in Nat
    BY <2>1, FS_Subset, FS_CardinalityType
  <2>3. QED
    BY <2>2 DEF Recorded
<1>4. turn' \in [Users -> 1..MaxTurns + 1] /\ \A v \in Users \ {u} : turn'[v] = turn[v]
  BY ScenarioAssumption DEF Recorded, NextTurn
<1>5. QED
  BY <1>1, <1>2, <1>3, <1>4

(* The records _run_user_loop builds are turn records of the user and      *)
(* turn at hand, provided the turn is one the loop reaches.                *)
LEMMA RecordTypes ==
    ASSUME NEW u \in Users, turn[u] \in 1..MaxTurns, NEW kind \in {"ok"} \cup Failures
    PROVE  TurnRecord(u, kind) \in Records /\ ErrorRecord(u) \in Records
BY DEF TurnRecord, ErrorRecord, Records, Failures

-----------------------------------------------------------------------------
(* What every step of a user does to the control state.                    *)
UserMove(u) ==
    /\ UNCHANGED <<mainVars, sigints, loop, savedVars, exit>>
    /\ task' \in [Users -> TaskStates] /\ shutdown' \in BOOLEAN
    /\ task[u] \in Live /\ task'[u] # "absent"
    /\ shutdown => shutdown' /\ records' = records
    /\ \A v \in Users \ {u} :
          \/ task'[v] = task[v]
          \/ task[v] \in {"ready", "posting"} /\ task'[v] = "cancelling"
    /\ task'[u] \in {"ready", "posting"} => ~shutdown'
    /\ shutdown' /\ ~shutdown => \A v \in Users : task'[v] \notin {"ready", "posting"}

(* A step that records: the state it starts from can record.               *)
LEMMA RecordedMove ==
    ASSUME IInv, NEW u \in Users, NEW new, ~shutdown, task[u] \in Live, UserFrame,
           NEW s \in {"ready", "running", "crashed"}, Recorded(u, new, s)
    PROVE  UserMove(u)
<1>1. s \in TaskStates
  BY DEF TaskStates
<1>2. task \in [Users -> TaskStates] /\ shutdown \in BOOLEAN
  BY DEF IInv, TypeInv, TypeOK
<1>3. /\ task' \in [Users -> TaskStates] /\ shutdown' \in BOOLEAN
      /\ task'[u] = s \/ (s \in {"ready", "posting"} /\ task'[u] = "cancelling")
      /\ \A v \in Users \ {u} :
            \/ task'[v] = task[v]
            \/ task[v] \in {"ready", "posting"} /\ task'[v] = "cancelling"
      /\ shutdown' /\ ~shutdown => \A v \in Users : task'[v] \notin {"ready", "posting"}
  BY <1>1, <1>2, RecordedTasks
<1>4. QED
  BY <1>3 DEF UserMove, UserFrame

(* What a step of a user task does to the state the invariant reads:       *)
(* which task moves, from where to where, and that it records only while   *)
(* the run has not been asked to stop.                                     *)
LEMMA UserMoves ==
    ASSUME IInv, NEW u \in Users, Turn(u) \/ Reply(u)
    PROVE  UserMove(u)
<1>1. task \in [Users -> TaskStates] /\ shutdown \in BOOLEAN
  BY DEF IInv, TypeInv, TypeOK
<1>2. AfterProgress \subseteq {"ready", "running", "crashed"}
  BY DEF AfterProgress
<1>3. CASE LeaveLoop(u)
  BY <1>1, <1>3 DEF LeaveLoop, UserMove, UserFrame, AtLoopTop, Live, TaskStates, tallyVars
<1>4. CASE Cancelled(u)
  BY <1>1, <1>4 DEF Cancelled, UserMove, UserFrame, Live, TaskStates, tallyVars
<1>5. CASE Send(u)
  BY <1>1, <1>5 DEF Send, PrepareTurn, UserMove, UserFrame, AtLoopTop, Live, TaskStates, tallyVars
<1>6. CASE Overflow(u) \/ BuildFailed(u)
  <2>1. AtLoopTop(u) /\ ~shutdown /\ UserFrame
    BY <1>6 DEF Overflow, BuildFailed, PrepareTurn
  <2>2. PICK s \in AfterProgress : \E new : Recorded(u, new, s)
    BY <1>6 DEF Overflow, BuildFailed
  <2>3. task[u] \in Live
    BY <2>1 DEF AtLoopTop, Live
  <2>4. QED
    BY <1>2, <2>1, <2>2, <2>3, RecordedMove
<1>7. CASE Reply(u)
  <2>1. task[u] = "posting" /\ UserFrame
    BY <1>7 DEF Reply, Success, Failure, ProcessingError
  <2>2. ~shutdown
    BY <2>1 DEF IInv, Quiet
  <2>3. \E s \in {"ready", "running", "crashed"} : \E new : Recorded(u, new, s)
    <3>1. CASE Success(u)
      BY <3>1 DEF Success
    <3>2. CASE Failure(u)
      BY <3>2 DEF Failure
    <3>3. CASE ProcessingError(u)
      <4>1. \E s \in AfterProgress : \E new : Recorded(u, new, s)
        BY <3>3 DEF ProcessingError
      <4>2. QED
        BY <1>2, <4>1
    <3>4. QED
      BY <1>7, <3>1, <3>2, <3>3 DEF Reply
  <2>4. QED
    BY <2>1, <2>2, <2>3, RecordedMove DEF Live
<1>8. QED
  BY <1>3, <1>4, <1>5, <1>6, <1>7 DEF Turn

(* The control invariants survive the step of a user.                      *)
LEMMA UserControl ==
    ASSUME IInv, NEW u \in Users, UserMove(u)
    PROVE  Started' /\ Quiet' /\ Over' /\ SavedExact' /\ ExitInv'
<1>1. UNCHANGED <<main, arrived, loop, output, exit>> /\ task[u] \in Live
  BY DEF UserMove, mainVars, savedVars
<1>2. main \notin Closing
  BY <1>1 DEF IInv, Over, TasksOver
<1>3. Started'
  BY <1>1 DEF UserMove, IInv, Started, Live
<1>4. Quiet'
  <2>1. CASE shutdown
    BY <2>1 DEF UserMove, IInv, Quiet
  <2>2. CASE ~shutdown
    BY <2>2 DEF UserMove, Quiet
  <2>3. QED
    BY <2>1, <2>2
<1>5. Over' /\ SavedExact' /\ ExitInv'
  <2>1. main \notin MainEnds /\ ~Saved /\ loop # "closed" /\ exit = Running
    BY <1>2 DEF IInv, Closing, Over, SavedExact, ExitInv
  <2>2. QED
    BY <1>1, <1>2, <2>1 DEF Over, SavedExact, ExitInv, Saved, Running, MainEnds
<1>6. QED
  BY <1>3, <1>4, <1>5

(* The parts of TypeOK that a step of a user can change.                   *)
UserTypeOK ==
    /\ task \in [Users -> TaskStates]
    /\ turn \in [Users -> 1..MaxTurns + 1]
    /\ ctx \in [Users -> Contexts]
    /\ compactions \in [Users -> SUBSET (1..MaxTurns)]
    /\ records \in Seq(Records)
    /\ completed \in Nat /\ errors \in Nat /\ consecutive \in Nat /\ measured \in Nat
    /\ shutdown \in BOOLEAN
    /\ \A u \in Users : task[u] = "posting" => turn[u] <= MaxTurns

(* prepare_turn keeps the user's context a context.                        *)
LEMMA PrepareTurnTypes ==
    ASSUME IInv, NEW u \in Users, NEW r \in PrepareOutcomes(ctx[u]), PrepareTurn(u, r)
    PROVE  /\ ctx' \in [Users -> Contexts]
           /\ compactions' \in [Users -> SUBSET (1..MaxTurns)]
           /\ turn[u] \in 1..MaxTurns
<1>1. ctx \in [Users -> Contexts] /\ compactions \in [Users -> SUBSET (1..MaxTurns)]
      /\ turn[u] \in 1..MaxTurns + 1
  BY DEF IInv, TypeInv, TypeOK
<1>2. turn[u] \in 1..MaxTurns
  BY <1>1, ScenarioAssumption DEF PrepareTurn, HasTurns
<1>3. r.ctx \in Contexts
  BY <1>1, PrepareType
<1>4. ctx' = [ctx EXCEPT ![u] = r.ctx]
      /\ compactions' = (IF r.compacted THEN [compactions EXCEPT ![u] = @ \cup {turn[u]}]
                                        ELSE compactions)
  BY DEF PrepareTurn
<1>5. QED
  BY <1>1, <1>2, <1>3, <1>4

(* A recording step keeps the types, given those of the context.           *)
LEMMA RecordingTypes ==
    ASSUME IInv, NEW u \in Users, turn[u] \in 1..MaxTurns,
           NEW new \in Seq(Records), Len(new) \in {1, 2},
           NEW s \in {"ready", "running", "crashed"}, Recorded(u, new, s),
           ctx' \in [Users -> Contexts], compactions' \in [Users -> SUBSET (1..MaxTurns)],
           measured' \in Nat
    PROVE  UserTypeOK'
<1>1. UserTypeOK
  BY DEF IInv, TypeInv, TypeOK, UserTypeOK
<1>2. s \in TaskStates
  BY DEF TaskStates
<1>3. /\ task' \in [Users -> TaskStates] /\ shutdown' \in BOOLEAN
      /\ task'[u] # "posting"
      /\ \A v \in Users \ {u} : task'[v] = task[v] \/ task'[v] = "cancelling"
  BY <1>1, <1>2, RecordedTasks DEF UserTypeOK
<1>4. turn[u] <= MaxTurns
  BY ScenarioAssumption
<1>5. /\ records' \in Seq(Records)
      /\ completed' \in Nat /\ errors' \in Nat /\ consecutive' \in Nat
      /\ turn' \in [Users -> 1..MaxTurns + 1]
      /\ \A v \in Users \ {u} : turn'[v] = turn[v]
  BY <1>1, <1>4, RecordedTypes DEF UserTypeOK
<1>6. \A v \in Users : task'[v] = "posting" => turn'[v] <= MaxTurns
  BY <1>1, <1>3, <1>5 DEF UserTypeOK
<1>7. QED
  BY <1>3, <1>5, <1>6 DEF UserTypeOK

(* Appending one record to the records leaves a sequence of records.       *)
LEMMA OneRecord ==
    ASSUME NEW r \in Records PROVE <<r>> \in Seq(Records) /\ Len(<<r>>) = 1
OBVIOUS

(* The same for the two records of a turn whose progress line raised.      *)
LEMMA TwoRecords ==
    ASSUME NEW r \in Records, NEW s \in Records
    PROVE  <<r, s>> \in Seq(Records) /\ Len(<<r, s>>) = 2
OBVIOUS

(* A step of a user task keeps the types of everything it changes.         *)
LEMMA UserTypes ==
    ASSUME IInv, NEW u \in Users, Turn(u) \/ Reply(u)
    PROVE  UserTypeOK'
<1>1. UserTypeOK
  BY DEF IInv, TypeInv, TypeOK, UserTypeOK
<1>2. AfterProgress \subseteq {"ready", "running", "crashed"}
  BY DEF AfterProgress
<1>3. CASE LeaveLoop(u) \/ Cancelled(u)
  <2>1. UNCHANGED <<turn, ctx, compactions, tallyVars, shutdown>>
        /\ task' = [task EXCEPT ![u] = "done"]
    BY <1>3 DEF LeaveLoop, Cancelled
  <2>2. task' \in [Users -> TaskStates]
        /\ \A v \in Users : task'[v] = "posting" => task[v] = "posting"
    BY <1>1, <2>1 DEF UserTypeOK, TaskStates
  <2>3. QED
    BY <1>1, <2>1, <2>2 DEF UserTypeOK, tallyVars
<1>4. CASE Send(u)
  <2>1. PICK r \in PrepareOutcomes(ctx[u]) : PrepareTurn(u, r)
    BY <1>4 DEF Send
  <2>2. /\ ctx' \in [Users -> Contexts]
        /\ compactions' \in [Users -> SUBSET (1..MaxTurns)] /\ turn[u] \in 1..MaxTurns
    BY <2>1, PrepareTurnTypes
  <2>3. task' = [task EXCEPT ![u] = "posting"] /\ UNCHANGED <<turn, tallyVars, shutdown>>
    BY <1>4 DEF Send
  <2>4. task' \in [Users -> TaskStates]
        /\ \A v \in Users \ {u} : task'[v] = task[v]
    BY <1>1, <2>3 DEF UserTypeOK, TaskStates
  <2>5. \A v \in Users : task'[v] = "posting" => turn[v] <= MaxTurns
    BY <1>1, <2>2, <2>4, ScenarioAssumption DEF UserTypeOK
  <2>6. QED
    BY <1>1, <2>2, <2>3, <2>4, <2>5 DEF UserTypeOK, tallyVars
<1>5. CASE Overflow(u) \/ BuildFailed(u)
  <2>1. PICK r \in PrepareOutcomes(ctx[u]) : PrepareTurn(u, r)
    BY <1>5 DEF Overflow, BuildFailed
  <2>2. /\ ctx' \in [Users -> Contexts]
        /\ compactions' \in [Users -> SUBSET (1..MaxTurns)] /\ turn[u] \in 1..MaxTurns
    BY <2>1, PrepareTurnTypes
  <2>3. PICK kind \in Failures, s \in AfterProgress :
           Recorded(u, <<TurnRecord(u, kind)>>, s)
    BY <1>5 DEF Overflow, BuildFailed, Failures
  <2>4. measured' = measured
    BY <1>5 DEF Overflow, BuildFailed
  <2>5. TurnRecord(u, kind) \in Records
    BY <2>2, RecordTypes
  <2>6. QED
    BY <1>1, <1>2, <2>2, <2>3, <2>4, <2>5, OneRecord, RecordingTypes DEF UserTypeOK
<1>6. CASE Reply(u)
  <2>1. task[u] = "posting" /\ compactions' = compactions /\ measured' \in Nat
    BY <1>1, <1>6 DEF Reply, Success, Failure, ProcessingError, UserTypeOK
  <2>2. turn[u] \in 1..MaxTurns
    BY <1>1, <2>1, ScenarioAssumption DEF UserTypeOK
  <2>3. ctx' \in [Users -> Contexts]
    <3>1. CASE Success(u)
      <4>1. PICK reply \in ReplySizes : ctx' = Appended(u, reply)
        BY <3>1 DEF Success
      <4>2. AppendHistory(ctx[u], turn[u], reply) \in Contexts
        BY <1>1, <2>2, AppendHistoryType DEF UserTypeOK
      <4>3. ctx' = [ctx EXCEPT ![u] = AppendHistory(ctx[u], turn[u], reply)]
        BY <4>1 DEF Appended
      <4>4. QED
        BY <1>1, <4>2, <4>3 DEF UserTypeOK
    <3>2. CASE Failure(u) \/ ProcessingError(u)
      BY <1>1, <3>2 DEF Failure, ProcessingError, UserTypeOK
    <3>3. QED
      BY <1>6, <3>1, <3>2 DEF Reply
  <2>4. /\ TurnRecord(u, "ok") \in Records /\ TurnRecord(u, "failed") \in Records
        /\ ErrorRecord(u) \in Records
    BY <2>2, RecordTypes DEF Failures
  <2>5. \E s \in {"ready", "running", "crashed"}, new \in Seq(Records) :
           Len(new) \in {1, 2} /\ Recorded(u, new, s)
    <3>1. CASE Success(u)
      BY <2>4, <3>1, OneRecord DEF Success
    <3>2. CASE Failure(u)
      BY <2>4, <3>2, OneRecord DEF Failure
    <3>3. CASE ProcessingError(u)
      <4>1. PICK s \in AfterProgress :
               \/ Recorded(u, <<ErrorRecord(u)>>, s)
               \/ Recorded(u, <<TurnRecord(u, "ok"), ErrorRecord(u)>>, s)
               \/ Recorded(u, <<TurnRecord(u, "failed"), ErrorRecord(u)>>, s)
        BY <3>3 DEF ProcessingError
      <4>2. CASE Recorded(u, <<ErrorRecord(u)>>, s)
        BY <1>2, <2>4, <4>2, OneRecord
      <4>3. CASE Recorded(u, <<TurnRecord(u, "ok"), ErrorRecord(u)>>, s)
        BY <1>2, <2>4, <4>3, TwoRecords
      <4>4. CASE Recorded(u, <<TurnRecord(u, "failed"), ErrorRecord(u)>>, s)
        BY <1>2, <2>4, <4>4, TwoRecords
      <4>5. QED
        BY <4>1, <4>2, <4>3, <4>4
    <3>4. QED
      BY <1>6, <3>1, <3>2, <3>3 DEF Reply
  <2>6. QED
    BY <1>1, <2>1, <2>2, <2>3, <2>5, RecordingTypes DEF UserTypeOK
<1>7. QED
  BY <1>3, <1>4, <1>5, <1>6 DEF Turn

(* A step of a user task (_run_user_loop, _advance_progress) preserves     *)
(* the invariant.                                                          *)
LEMMA UserStep == ASSUME IInv, NEW u \in Users, Turn(u) \/ Reply(u) PROVE IInv'
<1>1. UserMove(u)
  BY UserMoves
<1>2. UserTypeOK'
  BY UserTypes
<1>3. UNCHANGED <<mainVars, sigints, loop, savedVars, exit>>
  BY <1>1 DEF UserMove
<1>4. TypeInv'
  BY <1>2, <1>3 DEF IInv, TypeInv, TypeOK, UserTypeOK, mainVars, savedVars
<1>5. QED
  BY <1>1, <1>4, UserControl DEF IInv

-----------------------------------------------------------------------------
(* The invariant holds when run() has been entered.                        *)
LEMMA InitIInv == Init => IInv
<1> SUFFICES ASSUME Init PROVE IInv
  OBVIOUS
<1>1. ctx \in [Users -> Contexts]
  <2>1. {NewContext(j) : j \in Jitter} \subseteq Contexts
    BY NewContextType
  <2>2. QED
    BY <2>1 DEF Init
<1>2. TypeOK
  <2>1. 1 \in 1..MaxTurns + 1
    BY ScenarioAssumption
  <2>2. records \in Seq(Records) /\ output \in Seq(Seq(Records)) /\ Len(output) = 0
    BY EmptySeq DEF Init
  <2>3. /\ task \in [Users -> TaskStates] /\ turn \in [Users -> 1..MaxTurns + 1]
        /\ compactions \in [Users -> SUBSET (1..MaxTurns)]
    BY <2>1 DEF Init, TaskStates
  <2>4. main \in MainWaits \cup MainEnds \cup {"arrivals"}
    BY DEF Init, MainWaits
  <2>5. /\ attempt = 1 /\ arrived = 0 /\ sigints = 0 /\ history = 0 /\ exit = Running
        /\ completed = 0 /\ errors = 0 /\ consecutive = 0 /\ measured = 0
    BY DEF Init
  <2>6. shutdown \in BOOLEAN /\ interrupt \in BOOLEAN /\ loop = "open"
    BY DEF Init
  <2>7. QED
    BY <1>1, <2>2, <2>3, <2>4, <2>5, <2>6, ScenarioAssumption DEF TypeOK
<1>3. QED
  BY <1>2, ScenarioAssumption DEF Init, IInv, TypeInv, Started, Quiet, Over, SavedExact, ExitInv,
     Closing, MainEnds, Saved, Running

(* A step of the main task that neither starts a user nor saves: it moves  *)
(* to a later wait, past the gather only if every user is over.            *)
MainMove ==
    /\ UNCHANGED <<arrived, userVars, tallyVars, shutdown, sigints, loop, savedVars, exit>>
    /\ main \notin MainEnds
    /\ main' \in MainWaits \cup {"arrivals", "refused", "cancelled"}
    /\ attempt' \in Nat /\ interrupt' \in BOOLEAN
    /\ main' \in Closing => TasksOver
    /\ main' \in {"preflight", "content", "refused"} => arrived = 0
    /\ main' = "sleep" => arrived < NumUsers

(* A step that only moves the main task between two of its suspensions     *)
(* preserves the invariant.                                                *)
LEMMA MainMoveStep == ASSUME IInv, MainMove PROVE IInv'
<1>1. TypeInv'
  <2>1. TypeOK'
    BY DEF IInv, TypeInv, TypeOK, MainMove, userVars, tallyVars, savedVars, MainEnds
  <2>2. history = 0 /\ history' = history /\ UNCHANGED <<task, turn>>
    BY DEF MainMove, savedVars, userVars, IInv, TypeInv
  <2>3. QED
    BY <2>1, <2>2 DEF IInv, TypeInv
<1>2. ~Saved /\ loop # "closed" /\ exit = Running
  BY DEF MainMove, IInv, SavedExact, Over, ExitInv
<1>3. UNCHANGED <<arrived, task, shutdown, loop, output, exit>>
  BY DEF MainMove, userVars, savedVars
<1>4. Started'
  BY <1>3 DEF IInv, Started, MainMove
<1>5. Quiet' /\ Over'
  BY <1>2, <1>3 DEF IInv, Quiet, Over, MainMove, TasksOver
<1>6. SavedExact' /\ ExitInv'
  BY <1>2, <1>3 DEF SavedExact, ExitInv, MainMove, MainWaits, Saved, Running
<1>7. QED
  BY <1>1, <1>4, <1>5, <1>6 DEF IInv

(* With no user started there is nothing to wait for.                      *)
LEMMA NobodyStarted == ASSUME IInv, arrived = 0 PROVE TasksOver
<1>1. \A u \in Users : task[u] = "absent"
  BY DEF IInv, Started, Users
<1>2. QED
  BY <1>1 DEF TasksOver, Live

(* The steps of the main task that are such moves.                         *)
LEMMA MainMoves ==
    ASSUME IInv,
           \/ Probe \/ ContentReady \/ Gathered \/ EndSnapshot \/ PollerStopped \/ MainCancelled
    PROVE  MainMove
<1>1. attempt \in Nat /\ interrupt \in BOOLEAN
  BY DEF IInv, TypeInv, TypeOK
<1>2. CASE Probe
  <2>1. arrived = 0
    BY <1>2 DEF Probe, IInv, Started
  <2>2. main' \in {"preflight", "content", "refused"} /\ attempt' \in Nat
    BY <1>1, <1>2 DEF Probe
  <2>3. QED
    BY <1>1, <1>2, <2>1, <2>2, NobodyStarted
       DEF Probe, MainMove, MainOnly, MainWaits, MainEnds
<1>3. CASE ContentReady
  BY <1>1, <1>3 DEF ContentReady, MainMove, MainOnly, MainWaits, MainEnds, Closing
<1>4. CASE Gathered
  BY <1>1, <1>4 DEF Gathered, MainMove, MainOnly, MainWaits, MainEnds
<1>5. CASE EndSnapshot
  BY <1>1, <1>5 DEF EndSnapshot, MainMove, MainOnly, MainWaits, MainEnds, IInv, Over, Closing
<1>6. CASE PollerStopped
  BY <1>1, <1>6 DEF PollerStopped, MainMove, MainOnly, MainWaits, MainEnds, IInv, Over, Closing
<1>7. CASE MainCancelled
  <2>1. TasksOver
    <3>1. CASE main \in {"preflight", "content"}
      BY <3>1, NobodyStarted DEF IInv, Started
    <3>2. CASE main \in {"gather", "endSnapshot", "closeClient"}
      BY <1>7, <3>2 DEF MainCancelled, IInv, Over, Closing
    <3>3. QED
      BY <1>7, <3>1, <3>2 DEF MainCancelled
  <2>2. QED
    BY <1>1, <1>7, <2>1 DEF MainCancelled, MainMove, MainOnly, MainWaits, MainEnds
<1>8. QED
  BY <1>2, <1>3, <1>4, <1>5, <1>6, <1>7

(* Leaving the arrival loop.                                               *)
LEMMA StopArrivalsMove ==
    ASSUME IInv, main \in {"arrivals", "sleep"}, StopArrivals, ArrivalFrame,
           interrupt' \in BOOLEAN
    PROVE  MainMove
<1>1. attempt' \in Nat
  BY DEF IInv, TypeInv, TypeOK, ArrivalFrame
<1>2. main' \in {"endSnapshot", "gather"} /\ (main' = "endSnapshot" => arrived = 0)
  BY DEF StopArrivals
<1>3. main' \in Closing => TasksOver
  BY <1>2, NobodyStarted DEF Closing, MainEnds
<1>4. QED
  BY <1>1, <1>2, <1>3 DEF MainMove, StopArrivals, ArrivalFrame, userVars, MainWaits, MainEnds

(* Creating the task of the next user (runner.py:299) preserves the        *)
(* invariant.                                                              *)
LEMMA StartUserStep ==
    ASSUME IInv, main \in {"arrivals", "sleep"}, arrived < NumUsers, ~shutdown,
           StartUser, ArrivalFrame, interrupt' \in BOOLEAN
    PROVE  IInv'
<1>1. arrived \in Users /\ arrived' = arrived + 1 /\ arrived' \in 0..NumUsers
      /\ arrived \in Nat
  BY ScenarioAssumption DEF StartUser, IInv, TypeInv, TypeOK, Users
<1>2. /\ task' \in [Users -> TaskStates]
      /\ task'[arrived] = "ready" /\ \A u \in Users \ {arrived} : task'[u] = task[u]
  BY <1>1 DEF StartUser, IInv, TypeInv, TypeOK, TaskStates
<1>3. main' = "arrivals" /\ UNCHANGED <<attempt, turn, ctx, compactions, tallyVars, shutdown,
                                        sigints, loop, savedVars, exit>>
  BY DEF StartUser, ArrivalFrame
<1>4. TypeInv'
  <2>1. TypeOK'
    BY <1>1, <1>2, <1>3 DEF IInv, TypeInv, TypeOK, tallyVars, savedVars
  <2>2. history = 0 /\ exit' = exit /\ history' = history /\ turn' = turn
    BY <1>3 DEF IInv, TypeInv, MainEnds, savedVars
  <2>3. QED
    BY <1>2, <2>1, <2>2 DEF IInv, TypeInv
<1>5. Started'
  <2>1. \A u \in Users : u >= arrived' => u # arrived /\ u >= arrived
    BY <1>1 DEF Users
  <2>2. QED
    BY <1>2, <1>3, <2>1 DEF IInv, Started
<1>6. ~Saved /\ loop # "closed" /\ exit = Running
  BY DEF IInv, SavedExact, Over, ExitInv, MainEnds
<1>7. Quiet' /\ Over' /\ SavedExact' /\ ExitInv'
  BY <1>3, <1>6 DEF Quiet, Over, SavedExact, ExitInv, Closing, MainEnds, Saved, savedVars, Running
<1>8. QED
  BY <1>4, <1>5, <1>7 DEF IInv

(* The arrival loop, and the waking from its delay, preserve the           *)
(* invariant.                                                              *)
LEMMA ArrivalStep == ASSUME IInv, Arrive \/ Wake PROVE IInv'
<1>1. arrived \in 0..NumUsers /\ interrupt \in BOOLEAN
  BY DEF IInv, TypeInv, TypeOK
<1>2. interrupt' \in BOOLEAN /\ ArrivalFrame /\ main \in {"arrivals", "sleep"}
  BY <1>1 DEF Arrive, Wake
<1>3. CASE StopArrivals
  BY <1>2, <1>3, StopArrivalsMove, MainMoveStep
<1>4. CASE StartUser /\ ~shutdown /\ arrived < NumUsers
  BY <1>2, <1>4, StartUserStep
<1>5. CASE main' = "sleep" /\ UNCHANGED <<arrived, task>> /\ arrived < NumUsers
  <2>1. attempt' \in Nat
    BY <1>2 DEF ArrivalFrame, IInv, TypeInv, TypeOK
  <2>2. MainMove
    BY <1>2, <1>5, <2>1 DEF MainMove, ArrivalFrame, userVars, MainWaits, MainEnds, Closing
  <2>3. QED
    BY <2>2, MainMoveStep
<1>6. StopArrivals \/ (StartUser /\ ~shutdown /\ arrived < NumUsers)
      \/ (main' = "sleep" /\ UNCHANGED <<arrived, task>> /\ arrived < NumUsers)
  <2>1. CASE Arrive
    BY <1>1, <2>1, ScenarioAssumption DEF Arrive
  <2>2. CASE Wake
    BY <2>2 DEF Wake, IInv, Started
  <2>3. QED
    BY <2>1, <2>2
<1>7. QED
  BY <1>3, <1>4, <1>5, <1>6

-----------------------------------------------------------------------------
(* Saving: what the result file and the history hold afterwards.           *)
LEMMA SavingTypes ==
    ASSUME IInv, WriteResults \/ WriteFailed
    PROVE  /\ output' \in Seq(Seq(Records)) /\ Len(output') <= 1
           /\ history' \in {history, history + 1}
           /\ output' \in {<<records>>, output, <<>>}
<1>1. records \in Seq(Records) /\ output \in Seq(Seq(Records)) /\ Len(output) <= 1
  BY DEF IInv, TypeInv, TypeOK
<1>2. <<records>> \in Seq(Seq(Records)) /\ Len(<<records>>) = 1
  BY <1>1
<1>3. <<>> \in Seq(Seq(Records)) /\ Len(<<>>) = 0
  BY EmptySeq
<1>4. output' \in {<<records>>, output, <<>>} /\ history' \in {history, history + 1}
  BY DEF WriteResults, WriteFailed
<1>5. output' \in Seq(Seq(Records)) /\ Len(output') <= 1
  <2>1. CASE output' = <<records>>
    BY <1>2, <2>1
  <2>2. CASE output' = output
    BY <1>1, <2>2
  <2>3. CASE output' = <<>>
    BY <1>3, <2>3
  <2>4. QED
    BY <1>4, <2>1, <2>2, <2>3
<1>6. QED
  BY <1>4, <1>5

(* _finalize preserves the invariant, whether or not the write or the      *)
(* summary fails.                                                          *)
LEMMA FinalizeStep == ASSUME IInv, Finalize PROVE IInv'
<1>1. /\ main = "closeClient" /\ main' \in {"finished", "crashed"}
      /\ UNCHANGED <<attempt, arrived, interrupt, userVars, tallyVars, shutdown, sigints,
                     loop, exit>>
      /\ WriteResults \/ WriteFailed
  BY DEF Finalize, MainOnly
<1>2. output' \in Seq(Seq(Records)) /\ Len(output') <= 1
      /\ history' \in {history, history + 1} /\ output' \in {<<records>>, output, <<>>}
  BY <1>1, SavingTypes
<1>3. TasksOver /\ ~Saved /\ loop # "closed" /\ exit = Running /\ history = 0
  BY <1>1 DEF IInv, TypeInv, Over, SavedExact, ExitInv, Closing, MainEnds
<1>4. TypeInv'
  <2>1. TypeOK'
    BY <1>1, <1>2, <1>3 DEF IInv, TypeInv, TypeOK, userVars, tallyVars, MainEnds
  <2>2. QED
    BY <1>1, <1>2, <1>3, <2>1 DEF IInv, TypeInv, userVars, MainEnds
<1>5. UNCHANGED <<arrived, task, shutdown, loop, exit, records>>
  BY <1>1 DEF userVars, tallyVars
<1>6. Started' /\ Quiet' /\ Over'
  BY <1>1, <1>3, <1>5 DEF IInv, Started, Quiet, Over, TasksOver, MainEnds
<1>7. output' = <<records>> \/ output' = <<>>
  BY <1>2, <1>3 DEF Saved
<1>8. SavedExact'
  BY <1>1, <1>5, <1>7 DEF SavedExact, Saved, MainEnds
<1>9. ExitInv'
  <2>1. main' = "finished" => output' = <<records>>
    BY DEF Finalize, WriteResults
  <2>2. main' = "crashed" /\ "console" \notin Faults => output' \in {output, <<>>}
    BY DEF Finalize, WriteFailed
  <2>3. output = <<>>
    BY <1>3 DEF Saved
  <2>4. QED
    BY <1>1, <1>3, <1>5, <2>1, <2>2, <2>3 DEF ExitInv, Saved, Running
<1>10. QED
  BY <1>4, <1>6, <1>8, <1>9 DEF IInv

(* The signal handler preserves the invariant: its cancellations leave     *)
(* the tasks in a state that can still end.                                *)
LEMMA SigintStep == ASSUME IInv, Sigint PROVE IInv'
<1>1. /\ loop = "open" /\ sigints < MaxSigints /\ sigints' = sigints + 1
      /\ shutdown' = TRUE /\ task' = CancelTasks(task)
      /\ loop' \in {"open", "closing"}
      /\ UNCHANGED <<main, attempt, arrived, turn, ctx, compactions, tallyVars, savedVars, exit>>
  BY DEF Sigint
<1>2. interrupt' \in BOOLEAN
  <2>1. interrupt \in BOOLEAN
    BY DEF IInv, TypeInv, TypeOK
  <2>2. CASE shutdown
    <3>1. interrupt' = (main \in MainWaits)
      BY <2>2 DEF Sigint
    <3>2. CASE main \in MainWaits
      BY <3>1, <3>2
    <3>3. CASE main \notin MainWaits
      BY <3>1, <3>3
    <3>4. QED
      BY <3>2, <3>3
  <2>3. CASE ~shutdown
    BY <2>1, <2>3 DEF Sigint
  <2>4. QED
    BY <2>2, <2>3
<1>3. /\ task' \in [Users -> TaskStates]
      /\ \A u \in Users :
            task'[u] = IF task[u] \in {"ready", "posting"} THEN "cancelling" ELSE task[u]
  BY <1>1, CancelTasksProperties DEF IInv, TypeInv, TypeOK
<1>4. TypeInv'
  <2>1. TypeOK'
    BY <1>1, <1>2, <1>3, ScenarioAssumption DEF IInv, TypeInv, TypeOK, tallyVars, savedVars
  <2>2. QED
    BY <1>1, <1>3, <2>1 DEF IInv, TypeInv, savedVars
<1>5. UNCHANGED <<main, arrived, output, exit, records>>
  BY <1>1 DEF savedVars, tallyVars
<1>6. Started' /\ Quiet'
  BY <1>3, <1>5 DEF IInv, Started, Quiet
<1>7. Over'
  <2>1. TasksOver => TasksOver'
    BY <1>3 DEF TasksOver, Live
  <2>2. QED
    BY <1>1, <1>5, <2>1 DEF IInv, Over
<1>8. SavedExact' /\ ExitInv'
  <2>1. exit = Running
    BY <1>1 DEF IInv, ExitInv
  <2>2. QED
    BY <1>1, <1>5, <2>1 DEF IInv, SavedExact, ExitInv, Saved, Running
<1>9. QED
  BY <1>4, <1>6, <1>7, <1>8 DEF IInv

(* A step that changes neither the users nor what is saved, but how the    *)
(* program ends.                                                           *)
LEMMA CliStep == ASSUME IInv, CliExit \/ LoopDrained PROVE IInv'
<1>1. /\ UNCHANGED <<mainVars, userVars, tallyVars, shutdown, sigints, savedVars>>
      /\ main \in MainEnds /\ loop # "closed" /\ loop' = "closed"
  BY DEF CliExit, LoopDrained
<1>2. exit = Running
  BY <1>1 DEF IInv, ExitInv
<1>3. exit' \in {Running, 0, 1, 2}
  BY <1>2 DEF CliExit, LoopDrained, ExitCode
<1>4. TypeInv'
  <2>1. TypeOK'
    BY <1>1, <1>3 DEF IInv, TypeInv, TypeOK, mainVars, userVars, tallyVars, savedVars
  <2>2. QED
    BY <1>1, <1>2, <2>1 DEF IInv, TypeInv, mainVars, userVars, savedVars
<1>5. UNCHANGED <<main, arrived, task, shutdown, output, records>>
  BY <1>1 DEF mainVars, userVars, tallyVars, savedVars
<1>6. Started' /\ Quiet' /\ Over' /\ SavedExact'
  BY <1>1, <1>5 DEF IInv, Started, Quiet, Over, SavedExact, TasksOver, Saved
<1>7. ExitInv'
  <2>1. AllFailed' = AllFailed
    BY <1>5 DEF AllFailed, Failed
  <2>2. CASE CliExit
    <3>1. exit' = IF main = "finished" THEN (IF AllFailed THEN 2 ELSE 0) ELSE 1
      BY <2>2 DEF CliExit, ExitCode
    <3>2. exit' \in {0, 1, 2}
      BY <3>1
    <3>3. exit' \in {0, 2} => main = "finished" /\ (exit' = 2 <=> AllFailed)
      BY <3>1
    <3>4. exit' = 1 => main # "finished"
      BY <3>1
    <3>5. QED
      BY <1>1, <1>2, <1>5, <2>1, <3>2, <3>3, <3>4 DEF IInv, ExitInv, Saved, Running
  <2>3. CASE LoopDrained
    <3>1. exit' = exit
      BY <2>3 DEF LoopDrained
    <3>2. QED
      BY <1>1, <1>2, <1>5, <3>1 DEF IInv, ExitInv, Saved, Running
  <2>4. QED
    BY <2>2, <2>3
<1>8. QED
  BY <1>4, <1>6, <1>7 DEF IInv

(* shutdown_and_save preserves the invariant: it runs when every task is   *)
(* over.                                                                   *)
LEMMA ShutdownAndSaveStep == ASSUME IInv, ShutdownAndSave PROVE IInv'
<1>1. /\ loop = "closed" /\ exit = Running /\ exit' = 3
      /\ UNCHANGED <<mainVars, userVars, tallyVars, shutdown, sigints, loop>>
      /\ WriteResults \/ WriteFailed \/ UNCHANGED savedVars
  BY DEF ShutdownAndSave
<1>2. /\ output' \in Seq(Seq(Records)) /\ Len(output') <= 1
      /\ history' \in {history, history + 1}
      /\ output' \in {<<records>>, output, <<>>}
  <2>1. CASE WriteResults \/ WriteFailed
    BY <2>1, SavingTypes
  <2>2. CASE UNCHANGED savedVars
    BY <2>2 DEF savedVars, IInv, TypeInv, TypeOK
  <2>3. QED
    BY <1>1, <2>1, <2>2
<1>3. main \in MainEnds
  BY <1>1 DEF IInv, Over
<1>4. TypeInv'
  <2>1. history \in 0..1
    BY <1>1 DEF IInv, TypeInv, TypeOK
  <2>2. TypeOK'
    BY <1>1, <1>2, <2>1 DEF IInv, TypeInv, TypeOK, mainVars, userVars, tallyVars
  <2>3. QED
    BY <1>1, <1>3, <2>2 DEF IInv, TypeInv, mainVars, userVars, Running
<1>5. UNCHANGED <<main, arrived, task, shutdown, loop, records>>
  BY <1>1 DEF mainVars, userVars, tallyVars
<1>6. Started' /\ Quiet' /\ Over'
  BY <1>5 DEF IInv, Started, Quiet, Over, TasksOver
<1>7. SavedExact'
  BY <1>2, <1>3, <1>5 DEF IInv, SavedExact, Saved
<1>8. ExitInv'
  BY <1>1, <1>5 DEF ExitInv, Running
<1>9. QED
  BY <1>4, <1>6, <1>7, <1>8 DEF IInv

(* Every step of the program preserves the invariant.                      *)
LEMMA NextIInv == ASSUME IInv, [Next]_vars PROVE IInv'
<1>1. CASE MainStep
  BY <1>1, MainMoves, MainMoveStep, ArrivalStep, FinalizeStep DEF MainStep
<1>2. CASE \E u \in Users : Turn(u) \/ Reply(u)
  BY <1>2, UserStep
<1>3. CASE Sigint
  BY <1>3, SigintStep
<1>4. CASE CliExit \/ LoopDrained
  BY <1>4, CliStep
<1>5. CASE ShutdownAndSave
  BY <1>5, ShutdownAndSaveStep
<1>6. CASE UNCHANGED vars
  <2>1. UNCHANGED <<mainVars, userVars, tallyVars, shutdown, sigints, loop, savedVars, exit>>
    BY <1>6 DEF vars
  <2>2. TypeInv'
    BY <2>1 DEF IInv, TypeInv, TypeOK, mainVars, userVars, tallyVars, savedVars
  <2>3. QED
    BY <2>1, <2>2 DEF IInv, Started, Quiet, Over, SavedExact, ExitInv, TasksOver, Saved,
       AllFailed, Failed, mainVars, userVars, tallyVars, savedVars
<1>7. QED
  BY <1>1, <1>2, <1>3, <1>4, <1>5, <1>6 DEF Next, Ended

(* The inductive invariant holds throughout a run (BenchmarkRunner.run     *)
(* and cli.main).                                                          *)
THEOREM Invariance == Spec => []IInv
<1>1. Init => IInv
  BY InitIInv
<1>2. IInv /\ [Next]_vars => IInv'
  BY NextIInv
<1>3. QED
  BY <1>1, <1>2, PTL DEF Spec

-----------------------------------------------------------------------------
(* Type correctness.                                                       *)
THEOREM TypeCorrect == Spec => []TypeOK
<1>1. IInv => TypeOK
  BY DEF IInv, TypeInv
<1>2. QED
  BY <1>1, Invariance, PTL

(* Whatever was interrupted, failed or cancelled, a result file is written *)
(* only when every user is over, and is an image of the records from then  *)
(* on (_finalize, shutdown_and_save).                                      *)
THEOREM SavedIsComplete == Spec => []ResultsComplete
<1>1. IInv => ResultsComplete
  BY DEF IInv, ResultsComplete, SavedExact, Over, Closing
<1>2. QED
  BY <1>1, Invariance, PTL

(* No task is orphaned (runner.py:302, 2121).                              *)
THEOREM NothingOrphaned == Spec => []NoOrphans
<1>1. IInv => NoOrphans
  BY DEF IInv, NoOrphans, Over, Closing
<1>2. QED
  BY <1>1, Invariance, PTL

(* The exit code tells what is in the result file.                         *)
THEOREM ExitIsHonest == Spec => []ExitTellsResults
<1>1. ASSUME IInv PROVE ExitTellsResults
  <2>1. CASE exit \in {0, 2}
    <3>1. main = "finished" /\ (exit = 2 <=> AllFailed) /\ Saved /\ output[1] = records
      BY <1>1, <2>1 DEF IInv, ExitInv, SavedExact
    <3>2. \A i \in DOMAIN records : records[i].kind = "ok" \/ Failed(records[i])
      BY DEF Failed
    <3>3. QED
      BY <2>1, <3>1, <3>2 DEF ExitTellsResults, AllFailed, Failed
  <2>2. CASE exit = 1
    BY <1>1, <2>2 DEF IInv, ExitInv, ExitTellsResults
  <2>3. QED
    BY <2>1, <2>2 DEF ExitTellsResults
<1>2. QED
  BY <1>1, Invariance, PTL

(* Once the run is asked to stop nothing is started, sent or recorded.     *)
THEOREM ShutdownIsQuiet == Spec => QuietAfterShutdown
<1> DEFINE Silent ==
        shutdown => /\ records' = records /\ arrived' = arrived
                    /\ \A u \in Users : task'[u] = "posting" => task[u] = "posting"
<1>1. ASSUME IInv, Next PROVE Silent
  <2> SUFFICES ASSUME shutdown PROVE Silent
    OBVIOUS
  <2>1. CASE MainStep
    <3>1. CASE Arrive \/ Wake
      BY <3>1 DEF Arrive, Wake, StopArrivals, ArrivalFrame, tallyVars, Silent
    <3>2. CASE Finalize
      BY <3>2 DEF Finalize, MainOnly, tallyVars, userVars
    <3>3. CASE ~(Arrive \/ Wake \/ Finalize)
      <4>1. MainMove
        BY <1>1, <2>1, <3>3, MainMoves DEF MainStep
      <4>2. QED
        BY <4>1 DEF MainMove, tallyVars, userVars
    <3>4. QED
      BY <3>1, <3>2, <3>3
  <2>2. CASE \E u \in Users : Turn(u) \/ Reply(u)
    <3>1. PICK u \in Users : UserMove(u)
      BY <1>1, <2>2, UserMoves
    <3>2. shutdown' /\ records' = records /\ arrived' = arrived
      BY <3>1 DEF UserMove, mainVars
    <3>3. \A v \in Users : task'[v] = "posting" => task[v] = "posting"
      BY <3>1, <3>2 DEF UserMove
    <3>4. QED
      BY <3>2, <3>3
  <2>3. CASE Sigint
    <3>1. \A u \in Users :
             task'[u] = IF task[u] \in {"ready", "posting"} THEN "cancelling" ELSE task[u]
      BY <1>1, <2>3, CancelTasksProperties DEF Sigint, IInv, TypeInv, TypeOK
    <3>2. QED
      BY <2>3, <3>1 DEF Sigint, tallyVars
  <2>4. CASE CliExit \/ LoopDrained \/ ShutdownAndSave \/ Ended
    BY <2>4 DEF CliExit, LoopDrained, ShutdownAndSave, Ended, vars, mainVars, userVars, tallyVars
  <2>5. QED
    BY <1>1, <2>1, <2>2, <2>3, <2>4 DEF Next
<1>2. IInv /\ [Next]_vars => [Silent]_vars
  BY <1>1
<1>3. QED
  BY <1>2, Invariance, PTL DEF Spec, QuietAfterShutdown

-----------------------------------------------------------------------------
(* What a run records: the counters, the order and the completeness of the *)
(* records, and the threshold of the early abort.                          *)

(* What a step that records adds: the record of the user's turn, and after *)
(* it a second one if its progress line could not be printed.              *)
OfTurn(r, u) == r.user = u /\ r.turn = turn[u]

OneOutcome(u, new) == \E r \in Records : OfTurn(r, u) /\ new = <<r>>

TwoOutcomes(u, new) ==
    /\ "console" \in Faults
    /\ \E r, p \in Records :
          /\ OfTurn(r, u) /\ r.kind \in {"ok", "failed"}
          /\ OfTurn(p, u) /\ p.kind = "processing_error"
          /\ new = <<r, p>>

Outcome(u, new) == OneOutcome(u, new) \/ TwoOutcomes(u, new)

(* CountersMatchRecords, of any records and counters.                      *)
FailedIn(recs) == {i \in DOMAIN recs : Failed(recs[i])}

Tally(recs, n, e, c) ==
    /\ n = Len(recs)
    /\ e = Cardinality(FailedIn(recs))
    /\ c <= Len(recs)
    /\ \A i \in Len(recs) - c + 1 .. Len(recs) : Failed(recs[i])
    /\ c < Len(recs) => ~Failed(recs[Len(recs) - c])

(* A user is past every turn it has a record of, and has a record of every *)
(* turn it is past.                                                        *)
Past == \A i \in DOMAIN records : records[i].turn < turn[records[i].user]

Reached ==
    \A u \in Users : \A t \in 1..turn[u] - 1 :
        \E i \in DOMAIN records : records[i].user = u /\ records[i].turn = t

Ordered ==
    \A i, j \in DOMAIN records :
        i < j /\ records[i].user = records[j].user =>
            records[i].turn < records[j].turn \/ (j = i + 1 /\ RecordedAgain(j))

(* A task is cancelled only in a run asked to stop, and a loop that ended  *)
(* in any other run has used up its turns.                                 *)
EndsProperly ==
    /\ \A u \in Users : task[u] = "cancelling" => shutdown
    /\ \A u \in Users : task[u] = "done" /\ ~shutdown => turn[u] = MaxTurns + 1

RecordsInv ==
    CountersMatchRecords /\ Past /\ Reached /\ Ordered /\ EndsProperly /\ AbortAtThreshold

-----------------------------------------------------------------------------
(* The failed ones among the records, with one record more.                *)
LEMMA FailedAppend ==
    ASSUME NEW recs \in Seq(Records), NEW r \in Records
    PROVE  /\ Cardinality(FailedIn(recs)) \in Nat
           /\ Cardinality(FailedIn(Append(recs, r)))
                 = Cardinality(FailedIn(recs)) + IF Failed(r) THEN 1 ELSE 0
<1>1. /\ Append(recs, r) \in Seq(Records) /\ Len(Append(recs, r)) = Len(recs) + 1
      /\ \A i \in 1..Len(recs) : Append(recs, r)[i] = recs[i]
      /\ Append(recs, r)[Len(recs) + 1] = r
  BY AppendProperties
<1>2. Len(recs) \in Nat /\ DOMAIN recs = 1..Len(recs)
      /\ DOMAIN Append(recs, r) = 1..Len(recs) + 1
  BY <1>1, LenProperties
<1>3. IsFiniteSet(FailedIn(recs))
  <2>1. IsFiniteSet(1..Len(recs))
    BY <1>2, FS_Interval
  <2>2. QED
    BY <1>2, <2>1, FS_Subset DEF FailedIn
<1>4. CASE Failed(r)
  <2>1. FailedIn(Append(recs, r)) = FailedIn(recs) \cup {Len(recs) + 1}
    BY <1>1, <1>2, <1>4 DEF FailedIn
  <2>2. Len(recs) + 1 \notin FailedIn(recs)
    BY <1>2 DEF FailedIn
  <2>3. QED
    BY <1>3, <1>4, <2>1, <2>2, FS_AddElement, FS_CardinalityType
<1>5. CASE ~Failed(r)
  <2>1. FailedIn(Append(recs, r)) = FailedIn(recs)
    BY <1>1, <1>2, <1>5 DEF FailedIn
  <2>2. QED
    BY <1>3, <1>5, <2>1, FS_CardinalityType
<1>6. QED
  BY <1>4, <1>5

(* The counters of _advance_progress, kept for one record more.            *)
LEMMA TallyAppend ==
    ASSUME NEW recs \in Seq(Records), NEW r \in Records,
           NEW n, NEW e, NEW c \in Nat, Tally(recs, n, e, c)
    PROVE  Tally(Append(recs, r), n + 1, e + (IF Failed(r) THEN 1 ELSE 0),
                 IF Failed(r) THEN c + 1 ELSE 0)
<1>1. /\ Append(recs, r) \in Seq(Records) /\ Len(Append(recs, r)) = Len(recs) + 1
      /\ \A i \in 1..Len(recs) : Append(recs, r)[i] = recs[i]
      /\ Append(recs, r)[Len(recs) + 1] = r
  BY AppendProperties
<1>2. Len(recs) \in Nat /\ c <= Len(recs)
  BY LenProperties DEF Tally
<1>3. e + (IF Failed(r) THEN 1 ELSE 0) = Cardinality(FailedIn(Append(recs, r)))
  BY FailedAppend DEF Tally
<1>4. CASE Failed(r)
  <2>1. \A i \in Len(recs) - c + 1 .. Len(recs) + 1 : Failed(Append(recs, r)[i])
    <3> TAKE i \in Len(recs) - c + 1 .. Len(recs) + 1
    <3>1. CASE i = Len(recs) + 1
      BY <1>1, <1>4, <3>1
    <3>2. CASE i # Len(recs) + 1
      <4>1. i \in 1..Len(recs) /\ i \in Len(recs) - c + 1 .. Len(recs)
        BY <1>2, <3>2
      <4>2. QED
        BY <1>1, <4>1 DEF Tally
    <3>3. QED
      BY <3>1, <3>2
  <2>2. c < Len(recs) => ~Failed(Append(recs, r)[Len(recs) - c])
    <3>1. c < Len(recs) => Len(recs) - c \in 1..Len(recs)
      BY <1>2
    <3>2. QED
      BY <1>1, <3>1 DEF Tally
  <2>3. Len(recs) + 1 - (c + 1) = Len(recs) - c
    BY <1>2
  <2>4. QED
    BY <1>1, <1>2, <1>3, <1>4, <2>1, <2>2, <2>3 DEF Tally
<1>5. CASE ~Failed(r)
  <2>1. 0 < Len(recs) + 1 /\ Len(recs) + 1 - 0 = Len(recs) + 1
        /\ Len(recs) + 1 - 0 + 1 .. Len(recs) + 1 = {}
    BY <1>2
  <2>2. n + 1 = Len(Append(recs, r))
    BY <1>1, <1>2 DEF Tally
  <2>3. QED
    BY <1>1, <1>2, <1>3, <1>5, <2>1, <2>2 DEF Tally
<1>6. QED
  BY <1>4, <1>5

(* Adding the one or two records of a turn, one at a time.                 *)
LEMMA OneMore ==
    ASSUME NEW recs \in Seq(Records), NEW r \in Records
    PROVE  /\ recs \o <<r>> = Append(recs, r) /\ Append(recs, r) \in Seq(Records)
           /\ Len(<<r>>) = 1 /\ <<r>>[1] = r
           /\ Cardinality(FailedIn(<<r>>)) = IF Failed(r) THEN 1 ELSE 0
<1>1. recs \o <<r>> = Append(recs, r) /\ Append(recs, r) \in Seq(Records)
  BY AppendProperties, AppendIsConcat
<1>2. FailedIn(<<r>>) = IF Failed(r) THEN {1} ELSE {}
  BY DEF FailedIn
<1>3. QED
  BY <1>1, <1>2, FS_Singleton, FS_EmptySet

(* The same for the record of a turn and the error of its progress line.   *)
LEMMA TwoMore ==
    ASSUME NEW recs \in Seq(Records), NEW r \in Records, NEW p \in Records
    PROVE  /\ recs \o <<r, p>> = Append(Append(recs, r), p)
           /\ Len(<<r, p>>) = 2 /\ <<r, p>>[1] = r
           /\ Cardinality(FailedIn(<<r, p>>))
                 = (IF Failed(r) THEN 1 ELSE 0) + (IF Failed(p) THEN 1 ELSE 0)
<1>1. Append(Append(recs, r), p) \in Seq(Records) /\ <<r, p>> \in Seq(Records)
      /\ <<r>> \in Seq(Records)
  BY AppendProperties
<1>2. recs \o <<r, p>> = Append(Append(recs, r), p)
  BY <1>1
<1>3. <<r, p>> = Append(<<r>>, p)
  BY <1>1
<1>4. Cardinality(FailedIn(Append(<<r>>, p)))
         = Cardinality(FailedIn(<<r>>)) + IF Failed(p) THEN 1 ELSE 0
  BY <1>1, FailedAppend, Zenon
<1>5. Cardinality(FailedIn(<<r>>)) = IF Failed(r) THEN 1 ELSE 0
  BY OneMore
<1>6. QED
  BY <1>2, <1>3, <1>4, <1>5

(* Recording the outcome of a turn keeps the counters in step with the     *)
(* records.                                                                *)
LEMMA RecordedTally ==
    ASSUME IInv, CountersMatchRecords, NEW u \in Users, NEW new, NEW s,
           Outcome(u, new), Recorded(u, new, s)
    PROVE  CountersMatchRecords'
<1>1. records \in Seq(Records) /\ consecutive \in Nat /\ errors \in Nat /\ completed \in Nat
  BY DEF IInv, TypeInv, TypeOK
<1>2. Tally(records, completed, errors, consecutive)
  BY DEF CountersMatchRecords, Tally, FailedIn
<1>3. /\ records' = records \o new /\ completed' = completed + Len(new)
      /\ errors' = errors + Cardinality(FailedIn(new))
      /\ consecutive' = IF Failed(new[1]) THEN consecutive + Len(new) ELSE Len(new) - 1
  BY DEF Recorded, NewConsecutive, FailedIn
<1>4. CASE OneOutcome(u, new)
  <2>1. PICK r \in Records : new = <<r>>
    BY <1>4 DEF OneOutcome
  <2>2. /\ records' = Append(records, r)
        /\ completed' = completed + 1
        /\ errors' = errors + IF Failed(r) THEN 1 ELSE 0
        /\ consecutive' = IF Failed(r) THEN consecutive + 1 ELSE 0
    BY <1>1, <1>3, <2>1, OneMore
  <2>3. Tally(records', completed', errors', consecutive')
    BY <1>1, <1>2, <2>2, TallyAppend
  <2>4. QED
    BY <2>3 DEF CountersMatchRecords, Tally, FailedIn
<1>5. CASE TwoOutcomes(u, new)
  <2>1. PICK r \in Records, p \in Records : new = <<r, p>> /\ p.kind = "processing_error"
    BY <1>5 DEF TwoOutcomes
  <2>2. Failed(p)
    BY <2>1 DEF Failed
  <2> DEFINE e == errors + IF Failed(r) THEN 1 ELSE 0
             c == IF Failed(r) THEN consecutive + 1 ELSE 0
  <2>3. /\ Append(records, r) \in Seq(Records)
        /\ Tally(Append(records, r), completed + 1, e, c)
    BY <1>1, <1>2, OneMore, TallyAppend
  <2>4. c \in Nat /\ e \in Nat
    BY <1>1
  <2>5. /\ records' = Append(Append(records, r), p)
        /\ completed' = (completed + 1) + 1
        /\ errors' = e + 1
        /\ consecutive' = c + 1
    BY <1>1, <1>3, <2>1, <2>2, TwoMore
  <2> HIDE DEF e, c
  <2>6. Tally(records', completed', errors', consecutive')
    BY <2>2, <2>3, <2>4, <2>5, TallyAppend
  <2>7. QED
    BY <2>6 DEF CountersMatchRecords, Tally, FailedIn
<1>6. QED
  BY <1>4, <1>5 DEF Outcome

-----------------------------------------------------------------------------
(* The records after a step that records: the old ones, then those of the  *)
(* user's turn, the second of which is that turn recorded again.           *)
LEMMA NewRecords ==
    ASSUME IInv, NEW u \in Users, NEW new, NEW s, Outcome(u, new), Recorded(u, new, s)
    PROVE  /\ records \in Seq(Records) /\ records' \in Seq(Records) /\ Len(records) \in Nat
           /\ Len(records') \in {Len(records) + 1, Len(records) + 2}
           /\ \A i \in 1..Len(records) : records'[i] = records[i] /\ records[i] \in Records
           /\ \A i \in Len(records) + 1..Len(records') : OfTurn(records'[i], u)
           /\ Len(records') = Len(records) + 2 => RecordedAgain(Len(records))'
           /\ Len(new) = Len(records') - Len(records)
<1>1. records \in Seq(Records) /\ records' = records \o new
  BY DEF IInv, TypeInv, TypeOK, Recorded
<1>2. Len(records) \in Nat /\ \A i \in 1..Len(records) : records[i] \in Records
  BY <1>1, LenProperties, ElementOfSeq
<1>3. CASE OneOutcome(u, new)
  <2>1. PICK r \in Records : OfTurn(r, u) /\ new = <<r>>
    BY <1>3 DEF OneOutcome
  <2>2. records' = Append(records, r) /\ Len(new) = 1
    BY <1>1, <2>1, OneMore
  <2>3. /\ records' \in Seq(Records) /\ Len(records') = Len(records) + 1
        /\ \A i \in 1..Len(records) : records'[i] = records[i]
        /\ records'[Len(records) + 1] = r
    BY <1>1, <2>2, AppendProperties
  <2>4. \A i \in Len(records) + 1..Len(records') : OfTurn(records'[i], u)
    <3>1. \A i \in Len(records) + 1..Len(records') : i = Len(records) + 1
      BY <1>2, <2>3
    <3>2. QED
      BY <2>1, <2>3, <3>1
  <2>6. QED
    BY <1>1, <1>2, <2>2, <2>3, <2>4
<1>4. CASE TwoOutcomes(u, new)
  <2>1. PICK r \in Records, p \in Records :
           /\ OfTurn(r, u) /\ r.kind \in {"ok", "failed"}
           /\ OfTurn(p, u) /\ p.kind = "processing_error" /\ new = <<r, p>>
    BY <1>4 DEF TwoOutcomes
  <2>2. records' = Append(Append(records, r), p) /\ Len(new) = 2
    BY <1>1, <2>1, TwoMore
  <2> DEFINE one == Append(records, r)
  <2>3. /\ one \in Seq(Records) /\ Len(one) = Len(records) + 1
        /\ \A i \in 1..Len(records) : one[i] = records[i]
        /\ one[Len(records) + 1] = r
    BY <1>1, AppendProperties
  <2>4. records' = Append(one, p)
    BY <2>2
  <2> HIDE DEF one
  <2>5. /\ records' \in Seq(Records) /\ Len(records') = Len(one) + 1
        /\ \A i \in 1..Len(one) : records'[i] = one[i]
        /\ records'[Len(one) + 1] = p
    BY <2>3, <2>4, AppendProperties
  <2>6. /\ Len(records') = Len(records) + 2
        /\ \A i \in 1..Len(records) : records'[i] = records[i]
        /\ records'[Len(records) + 1] = r /\ records'[Len(records) + 2] = p
    BY <1>2, <2>3, <2>5
  <2>7. \A i \in Len(records) + 1..Len(records') : OfTurn(records'[i], u)
    <3>1. \A i \in Len(records) + 1..Len(records') :
             i = Len(records) + 1 \/ i = Len(records) + 2
      BY <1>2, <2>6
    <3>2. QED
      BY <2>1, <2>6, <3>1
  <2>8. RecordedAgain(Len(records))'
    <3>1. Len(records') > 1 /\ Len(records') - 1 = Len(records) + 1
      BY <1>2, <2>6
    <3>2. "console" \in Faults
      BY <1>4 DEF TwoOutcomes
    <3>3. records'[Len(records')] = p /\ records'[Len(records') - 1] = r
      BY <2>6, <3>1
    <3>4. QED
      BY <2>1, <3>1, <3>2, <3>3 DEF RecordedAgain, OfTurn
  <2>9. QED
    BY <1>1, <1>2, <2>2, <2>5, <2>6, <2>7, <2>8
<1>5. QED
  BY <1>3, <1>4 DEF Outcome

(* A step that records keeps each user just past the turns it has a record *)
(* of, and each turn's records together.                                   *)
LEMMA RecordedInOrder ==
    ASSUME IInv, Past, Reached, Ordered, NEW u \in Users, NEW new, NEW s,
           Outcome(u, new), Recorded(u, new, s)
    PROVE  Past' /\ Reached' /\ Ordered'
<1>1. /\ records \in Seq(Records) /\ records' \in Seq(Records) /\ Len(records) \in Nat
      /\ Len(records') \in {Len(records) + 1, Len(records) + 2}
      /\ \A i \in 1..Len(records) : records'[i] = records[i] /\ records[i] \in Records
      /\ \A i \in Len(records) + 1..Len(records') : OfTurn(records'[i], u)
      /\ Len(records') = Len(records) + 2 => RecordedAgain(Len(records))'
  BY NewRecords
<1>2. turn \in [Users -> 1..MaxTurns + 1] /\ turn' = [turn EXCEPT ![u] = turn[u] + 1]
      /\ turn[u] \in Nat
  BY ScenarioAssumption DEF IInv, TypeInv, TypeOK, Recorded, NextTurn
<1>3. turn'[u] = turn[u] + 1 /\ \A v \in Users \ {u} : turn'[v] = turn[v]
  BY <1>2
<1>4. \A i \in 1..Len(records) :
         records[i].user \in Users /\ records[i].turn \in Nat /\ turn[records[i].user] \in Nat
  <2>1. \A r \in Records : r.user \in Users /\ r.turn \in Nat
    BY ScenarioAssumption DEF Records
  <2>2. \A v \in Users : turn[v] \in Nat
    BY <1>2, ScenarioAssumption
  <2>3. QED
    BY <1>1, <2>1, <2>2
<1>5. \A i \in DOMAIN records' :
         i \in 1..Len(records) \/ i \in Len(records) + 1..Len(records')
  BY <1>1
<1>6. Past'
  <2> SUFFICES ASSUME NEW i \in DOMAIN records' PROVE records'[i].turn < turn'[records'[i].user]
    BY DEF Past
  <2>1. CASE i \in 1..Len(records)
    <3>1. records[i].turn < turn[records[i].user]
      BY <1>1, <2>1 DEF Past
    <3>2. turn'[records[i].user] >= turn[records[i].user]
      BY <1>2, <1>3, <1>4, <2>1
    <3>3. turn'[records[i].user] \in Nat
      BY <1>2, <1>3, <1>4, <2>1
    <3>4. QED
      BY <1>1, <1>4, <2>1, <3>1, <3>2, <3>3
  <2>2. CASE i \in Len(records) + 1..Len(records')
    BY <1>1, <1>2, <1>3, <2>2 DEF OfTurn
  <2>3. QED
    BY <1>5, <2>1, <2>2
<1>7. Reached'
  <2> SUFFICES ASSUME NEW v \in Users, NEW t \in 1..turn'[v] - 1
               PROVE  \E i \in DOMAIN records' : records'[i].user = v /\ records'[i].turn = t
    BY DEF Reached
  <2>1. CASE t \in 1..turn[v] - 1
    <3>1. PICK i \in DOMAIN records : records[i].user = v /\ records[i].turn = t
      BY <2>1 DEF Reached
    <3>2. i \in DOMAIN records' /\ records'[i] = records[i]
      BY <1>1, <3>1
    <3>3. QED
      BY <3>1, <3>2
  <2>2. CASE t \notin 1..turn[v] - 1
    <3>1. v = u /\ t = turn[u]
      BY <1>2, <1>3, <2>2
    <3>2. Len(records) + 1 \in DOMAIN records' /\ OfTurn(records'[Len(records) + 1], u)
      BY <1>1
    <3>3. QED
      BY <3>1, <3>2 DEF OfTurn
  <2>3. QED
    BY <2>1, <2>2
<1>8. Ordered'
  <2> SUFFICES ASSUME NEW i \in DOMAIN records', NEW j \in DOMAIN records',
                      i < j, records'[i].user = records'[j].user
               PROVE  \/ records'[i].turn < records'[j].turn
                      \/ j = i + 1 /\ RecordedAgain(j)'
    BY DEF Ordered
  <2>1. CASE j \in 1..Len(records)
    <3>1. i \in 1..Len(records) /\ records'[i] = records[i] /\ records'[j] = records[j]
      BY <1>1, <2>1
    <3>2. records[i].turn < records[j].turn \/ (j = i + 1 /\ RecordedAgain(j))
      BY <1>1, <2>1, <3>1 DEF Ordered
    <3>3. j = i + 1 /\ RecordedAgain(j) => RecordedAgain(j)'
      <4> SUFFICES ASSUME j = i + 1, RecordedAgain(j) PROVE RecordedAgain(j)'
        OBVIOUS
      <4>1. j - 1 = i /\ j > 1
        BY <1>1, <2>1, <3>1
      <4>2. QED
        BY <3>1, <4>1 DEF RecordedAgain
    <3>4. QED
      BY <3>1, <3>2, <3>3
  <2>2. CASE j \in Len(records) + 1..Len(records') /\ i \in 1..Len(records)
    <3>1. records[i].user = u /\ records'[i] = records[i] /\ records'[j].turn = turn[u]
      BY <1>1, <2>2 DEF OfTurn
    <3>2. QED
      BY <1>1, <2>2, <3>1 DEF Past
  <2>3. CASE j \in Len(records) + 1..Len(records') /\ i \in Len(records) + 1..Len(records')
    <3>1. Len(records') = Len(records) + 2 /\ j = Len(records') /\ j = i + 1
      BY <1>1, <2>3
    <3>2. QED
      BY <1>1, <3>1
  <2>4. QED
    BY <1>5, <2>1, <2>2, <2>3
<1>9. QED
  BY <1>6, <1>7, <1>8

(* The early abort acts on the record that reaches its threshold, and only *)
(* a turn recorded twice can go past it.                                   *)
LEMMA RecordedThreshold ==
    ASSUME IInv, AbortAtThreshold, ~shutdown, NEW u \in Users, NEW new, NEW s,
           Outcome(u, new), Recorded(u, new, s)
    PROVE  AbortAtThreshold'
<1> SUFFICES ASSUME MaxConsecutiveFailures > 0 PROVE AbortAtThreshold'
  BY DEF AbortAtThreshold
<1>1. /\ MaxConsecutiveFailures \in Nat /\ consecutive \in Nat
      /\ consecutive < MaxConsecutiveFailures
  BY ScenarioAssumption DEF AbortAtThreshold, IInv, TypeInv, TypeOK
<1>2. /\ consecutive' = NewConsecutive(new)
      /\ shutdown' = (shutdown \/ Aborts(consecutive'))
  BY DEF Recorded
<1>3. consecutive' >= MaxConsecutiveFailures => shutdown'
  BY <1>2 DEF Aborts
<1>4. CASE Len(new) = 1
  <2>1. consecutive' <= MaxConsecutiveFailures /\ consecutive' \in Int
    BY <1>1, <1>2, <1>4 DEF NewConsecutive
  <2>2. QED
    BY <1>1, <1>3, <2>1 DEF AbortAtThreshold
<1>5. CASE Len(new) = 2
  <2>1. consecutive' <= MaxConsecutiveFailures + 1 /\ consecutive' \in Int
    BY <1>1, <1>2, <1>5 DEF NewConsecutive
  <2>2. /\ Len(records) \in Nat /\ Len(new) = Len(records') - Len(records)
        /\ Len(records') \in {Len(records) + 1, Len(records) + 2}
        /\ Len(records') = Len(records) + 2 => RecordedAgain(Len(records))'
    BY NewRecords
  <2>3. Len(records') = Len(records) + 2
    <3>1. Len(records) \in Nat /\ Len(records') \in Nat
      BY <2>2
    <3>2. Len(records') - Len(records) = 2
      BY <1>5, <2>2
    <3>3. QED
      BY <3>1, <3>2
  <2>4. RecordedAgain(Len(records))'
    BY <2>2, <2>3, Zenon
  <2>5. QED
    BY <1>1, <1>3, <2>1, <2>4 DEF AbortAtThreshold
<1>6. QED
  <2>1. /\ Len(records) \in Nat /\ Len(new) = Len(records') - Len(records)
        /\ Len(records') \in {Len(records) + 1, Len(records) + 2}
    BY NewRecords
  <2>2. QED
    BY <1>4, <1>5, <2>1

(* A step that records ends no loop and cancels only to stop the run.      *)
LEMMA RecordedEnds ==
    ASSUME IInv, EndsProperly, ~shutdown, NEW u \in Users, NEW new,
           NEW s \in {"ready", "running", "crashed"}, task[u] \in Live, Recorded(u, new, s)
    PROVE  EndsProperly'
<1>1. /\ task \in [Users -> TaskStates] /\ turn \in [Users -> 1..MaxTurns + 1]
      /\ shutdown' = (shutdown \/ Aborts(consecutive'))
      /\ task' = LET t == [task EXCEPT ![u] = s]
                 IN  IF Aborts(consecutive') THEN CancelTasks(t) ELSE t
      /\ turn' = [turn EXCEPT ![u] = NextTurn(u, new)]
  BY DEF IInv, TypeInv, TypeOK, Recorded
<1>2. CASE Aborts(consecutive')
  BY <1>1, <1>2 DEF EndsProperly
<1>3. CASE ~Aborts(consecutive')
  <2>1. task' = [task EXCEPT ![u] = s] /\ shutdown' = FALSE
    BY <1>1, <1>3
  <2>2. \A v \in Users : task'[v] \in {"cancelling", "done"} => v # u /\ task'[v] = task[v]
    BY <1>1, <2>1
  <2>3. \A v \in Users : v # u => turn'[v] = turn[v]
    BY <1>1
  <2>4. QED
    BY <2>1, <2>2, <2>3 DEF EndsProperly
<1>4. QED
  BY <1>2, <1>3

-----------------------------------------------------------------------------
(* Every step of the program either records the outcome of a turn, in a    *)
(* run nobody has asked to stop, or leaves the records and the counters.   *)
SomeOutcome(u) ==
    \E new, s : /\ Outcome(u, new) /\ s \in {"ready", "running", "crashed"}
                /\ Recorded(u, new, s)

RecordsTurn(u) ==
    ~shutdown /\ task[u] \in Live /\ turn[u] \in 1..MaxTurns /\ SomeOutcome(u)

RecordsNothing ==
    /\ UNCHANGED <<turn, records, completed, errors, consecutive>>
    /\ shutdown => shutdown'
    /\ \A u \in Users : task'[u] = "cancelling" => task[u] = "cancelling" \/ shutdown'
    /\ \A u \in Users :
          task'[u] = "done" => task[u] = "done" \/ shutdown' \/ turn[u] = MaxTurns + 1

(* The records _run_user_loop builds are of the user and turn at hand.     *)
LEMMA OutcomeOfRecord ==
    ASSUME NEW u \in Users, turn[u] \in 1..MaxTurns, NEW kind \in {"ok"} \cup Failures
    PROVE  /\ Outcome(u, <<TurnRecord(u, kind)>>) /\ Outcome(u, <<ErrorRecord(u)>>)
           /\ "console" \in Faults /\ kind \in {"ok", "failed"}
                 => Outcome(u, <<TurnRecord(u, kind), ErrorRecord(u)>>)
<1>1. TurnRecord(u, kind) \in Records /\ ErrorRecord(u) \in Records
  BY RecordTypes
<1>2. /\ OfTurn(TurnRecord(u, kind), u) /\ TurnRecord(u, kind).kind = kind
      /\ OfTurn(ErrorRecord(u), u) /\ ErrorRecord(u).kind = "processing_error"
  BY DEF TurnRecord, ErrorRecord, OfTurn
<1>3. OneOutcome(u, <<TurnRecord(u, kind)>>) /\ OneOutcome(u, <<ErrorRecord(u)>>)
  BY <1>1, <1>2 DEF OneOutcome
<1>4. "console" \in Faults /\ kind \in {"ok", "failed"}
         => TwoOutcomes(u, <<TurnRecord(u, kind), ErrorRecord(u)>>)
  BY <1>1, <1>2 DEF TwoOutcomes
<1>5. QED
  BY <1>3, <1>4 DEF Outcome

(* What a user's step records.                                             *)
LEMMA UserRecords ==
    ASSUME IInv, EndsProperly, NEW u \in Users, Turn(u) \/ Reply(u)
    PROVE  RecordsTurn(u) \/ RecordsNothing
<1>1. /\ task \in [Users -> TaskStates] /\ shutdown \in BOOLEAN
      /\ turn \in [Users -> 1..MaxTurns + 1]
  BY DEF IInv, TypeInv, TypeOK
<1>2. AfterProgress \subseteq {"ready", "running", "crashed"}
  BY DEF AfterProgress
<1>3. CASE LeaveLoop(u)
  <2>1. shutdown \/ turn[u] = MaxTurns + 1
    BY <1>1, <1>3, ScenarioAssumption DEF LeaveLoop, HasTurns
  <2>2. QED
    BY <1>1, <1>3, <2>1 DEF LeaveLoop, RecordsNothing, tallyVars
<1>4. CASE Cancelled(u)
  <2>1. shutdown
    BY <1>4 DEF Cancelled, EndsProperly
  <2>2. QED
    BY <1>1, <1>4, <2>1 DEF Cancelled, RecordsNothing, tallyVars
<1>5. CASE Send(u)
  BY <1>1, <1>5 DEF Send, RecordsNothing, tallyVars
<1>6. CASE Overflow(u) \/ BuildFailed(u)
  <2>1. AtLoopTop(u) /\ ~shutdown /\ HasTurns(u)
    BY <1>6 DEF Overflow, BuildFailed, PrepareTurn
  <2>2. task[u] \in Live /\ turn[u] \in 1..MaxTurns
    BY <1>1, <2>1, ScenarioAssumption DEF AtLoopTop, Live, HasTurns
  <2>3. PICK s \in AfterProgress, kind \in Failures : Recorded(u, <<TurnRecord(u, kind)>>, s)
    BY <1>6 DEF Overflow, BuildFailed, Failures
  <2>4. Outcome(u, <<TurnRecord(u, kind)>>)
    BY <2>2, OutcomeOfRecord
  <2>5. QED
    BY <1>2, <2>1, <2>2, <2>3, <2>4 DEF RecordsTurn, SomeOutcome
<1>7. CASE Reply(u)
  <2>1. task[u] = "posting" /\ task[u] \in Live
    BY <1>7 DEF Reply, Success, Failure, ProcessingError, Live
  <2>2. ~shutdown /\ turn[u] \in 1..MaxTurns
    BY <1>1, <2>1, ScenarioAssumption DEF IInv, TypeInv, Quiet
  <2>3. /\ Outcome(u, <<TurnRecord(u, "ok")>>) /\ Outcome(u, <<TurnRecord(u, "failed")>>)
        /\ Outcome(u, <<ErrorRecord(u)>>)
        /\ "console" \in Faults => \A kind \in {"ok", "failed"} :
              Outcome(u, <<TurnRecord(u, kind), ErrorRecord(u)>>)
    BY <2>2, OutcomeOfRecord DEF Failures
  <2>4. SomeOutcome(u)
    <3>1. CASE Success(u)
      BY <2>3, <3>1 DEF Success, SomeOutcome
    <3>2. CASE Failure(u)
      BY <2>3, <3>2 DEF Failure, SomeOutcome
    <3>3. CASE ProcessingError(u)
      BY <1>2, <2>3, <3>3 DEF ProcessingError, SomeOutcome
    <3>4. QED
      BY <1>7, <3>1, <3>2, <3>3 DEF Reply
  <2>5. QED
    BY <2>1, <2>2, <2>4 DEF RecordsTurn
<1>8. QED
  BY <1>3, <1>4, <1>5, <1>6, <1>7 DEF Turn

(* What a step of the program records.                                     *)
LEMMA StepRecords ==
    ASSUME IInv, EndsProperly, [Next]_vars
    PROVE  (\E u \in Users : RecordsTurn(u)) \/ RecordsNothing
<1>1. task \in [Users -> TaskStates]
  BY DEF IInv, TypeInv, TypeOK
<1>2. CASE MainStep
  <2>1. CASE Arrive \/ Wake
    <3>1. UNCHANGED <<turn, records, completed, errors, consecutive, shutdown>>
      BY <2>1 DEF Arrive, Wake, ArrivalFrame, tallyVars
    <3>2. task' = task \/ task' = [task EXCEPT ![arrived] = "ready"]
      BY <2>1 DEF Arrive, Wake, StopArrivals, StartUser
    <3>3. QED
      BY <1>1, <3>1, <3>2 DEF RecordsNothing
  <2>2. CASE ~(Arrive \/ Wake)
    <3>1. UNCHANGED <<userVars, tallyVars, shutdown>>
      BY <1>2, <2>2 DEF MainStep, Probe, ContentReady, Gathered, EndSnapshot, PollerStopped,
         Finalize, MainCancelled, MainOnly
    <3>2. QED
      BY <3>1 DEF userVars, tallyVars, RecordsNothing
  <2>3. QED
    BY <2>1, <2>2
<1>3. CASE \E u \in Users : Turn(u) \/ Reply(u)
  BY <1>3, UserRecords
<1>4. CASE Sigint
  BY <1>4 DEF Sigint, RecordsNothing, tallyVars
<1>5. CASE CliExit \/ LoopDrained \/ ShutdownAndSave \/ UNCHANGED vars
  <2>1. UNCHANGED <<userVars, tallyVars, shutdown>>
    BY <1>5 DEF CliExit, LoopDrained, ShutdownAndSave, vars
  <2>2. QED
    BY <2>1 DEF userVars, tallyVars, RecordsNothing
<1>6. QED
  BY <1>2, <1>3, <1>4, <1>5 DEF Next, Ended

-----------------------------------------------------------------------------
(* Nothing is recorded and nothing counted when run() is entered.          *)
LEMMA InitRecords == Init => RecordsInv
<1> SUFFICES ASSUME Init PROVE RecordsInv
  OBVIOUS
<1>1. /\ records = <<>> /\ Len(records) = 0 /\ DOMAIN records = {}
      /\ completed = 0 /\ errors = 0 /\ consecutive = 0
      /\ task = [u \in Users |-> "absent"] /\ turn = [u \in Users |-> 1]
  BY DEF Init
<1>2. CountersMatchRecords
  <2>1. {i \in DOMAIN records : Failed(records[i])} = {}
    BY <1>1
  <2>2. Cardinality({i \in DOMAIN records : Failed(records[i])}) = 0
    BY <2>1, FS_EmptySet
  <2>3. QED
    BY <1>1, <2>2 DEF CountersMatchRecords
<1>3. Past /\ Ordered
  BY <1>1 DEF Past, Ordered
<1>4. Reached
  <2>1. \A u \in Users : 1..turn[u] - 1 = {}
    BY <1>1
  <2>2. QED
    BY <2>1 DEF Reached
<1>5. EndsProperly
  BY <1>1 DEF EndsProperly
<1>6. AbortAtThreshold
  BY <1>1, ScenarioAssumption DEF AbortAtThreshold
<1>7. QED
  BY <1>2, <1>3, <1>4, <1>5, <1>6 DEF RecordsInv

(* Every step keeps the records and the counters as they should be.        *)
LEMMA NextRecords == ASSUME IInv, RecordsInv, [Next]_vars PROVE RecordsInv'
<1>1. CASE \E u \in Users : RecordsTurn(u)
  <2>1. PICK u \in Users : RecordsTurn(u)
    BY <1>1
  <2>2. PICK new, s : /\ Outcome(u, new) /\ s \in {"ready", "running", "crashed"}
                      /\ Recorded(u, new, s)
    BY <2>1 DEF RecordsTurn, SomeOutcome
  <2>3. ~shutdown /\ task[u] \in Live
    BY <2>1 DEF RecordsTurn
  <2>4. CountersMatchRecords'
    BY <2>2, RecordedTally DEF RecordsInv
  <2>5. Past' /\ Reached' /\ Ordered'
    BY <2>2, RecordedInOrder DEF RecordsInv
  <2>6. EndsProperly'
    BY <2>2, <2>3, RecordedEnds DEF RecordsInv
  <2>7. AbortAtThreshold'
    BY <2>2, <2>3, RecordedThreshold DEF RecordsInv
  <2>8. QED
    BY <2>4, <2>5, <2>6, <2>7 DEF RecordsInv
<1>2. CASE RecordsNothing
  <2>1. UNCHANGED <<turn, records, completed, errors, consecutive>> /\ (shutdown => shutdown')
    BY <1>2 DEF RecordsNothing
  <2>2. CountersMatchRecords'
    BY <2>1 DEF RecordsInv, CountersMatchRecords, Failed
  <2>3. Past' /\ Reached' /\ Ordered'
    BY <2>1 DEF RecordsInv, Past, Reached, Ordered, RecordedAgain
  <2>4. EndsProperly'
    BY <1>2, <2>1 DEF RecordsNothing, RecordsInv, EndsProperly
  <2>5. AbortAtThreshold'
    BY <2>1 DEF RecordsInv, AbortAtThreshold, RecordedAgain
  <2>6. QED
    BY <2>2, <2>3, <2>4, <2>5 DEF RecordsInv
<1>3. QED
  BY <1>1, <1>2, StepRecords DEF RecordsInv

(* The invariant on the records holds throughout a run.                    *)
THEOREM RecordsInvariance == Spec => []RecordsInv
<1>1. Init => RecordsInv
  BY InitRecords
<1>2. IInv /\ RecordsInv /\ [Next]_vars => RecordsInv'
  BY NextRecords
<1>3. QED
  BY <1>1, <1>2, Invariance, PTL DEF Spec

(* The counters the users share agree with a scan of the records at every  *)
(* suspension (_advance_progress).                                         *)
THEOREM CountersAreExact == Spec => []CountersMatchRecords
<1>1. RecordsInv => CountersMatchRecords
  BY DEF RecordsInv
<1>2. QED
  BY <1>1, RecordsInvariance, PTL

(* Each turn is recorded once and in order, the one whose progress line    *)
(* failed twice, and no turn of a finished user is missing unless the run  *)
(* was asked to stop (_run_user_loop).                                     *)
THEOREM NoTurnLostOrRepeated == Spec => []TurnsRecordedOnce
<1>1. ASSUME IInv, RecordsInv PROVE TurnsRecordedOnce
  <2>1. Ordered /\ Reached /\ EndsProperly
    BY <1>1 DEF RecordsInv
  <2>2. ASSUME NEW u \in Users, task[u] = "done", ~shutdown, NEW t \in 1..MaxTurns
        PROVE  \E i \in DOMAIN records : records[i].user = u /\ records[i].turn = t
    <3>1. turn[u] = MaxTurns + 1
      BY <2>1, <2>2 DEF EndsProperly
    <3>2. t \in 1..turn[u] - 1
      BY <2>2, <3>1, ScenarioAssumption
    <3>3. QED
      BY <2>1, <3>2 DEF Reached
  <2>3. QED
    BY <2>1, <2>2 DEF TurnsRecordedOnce, Ordered
<1>2. QED
  BY <1>1, Invariance, RecordsInvariance, PTL

(* The early abort acts at its threshold, whichever users' failures make   *)
(* up the run (_advance_progress).                                         *)
THEOREM AbortIsPrompt == Spec => []AbortAtThreshold
<1>1. RecordsInv => AbortAtThreshold
  BY DEF RecordsInv
<1>2. QED
  BY <1>1, RecordsInvariance, PTL

-----------------------------------------------------------------------------
(* Every user by itself.                                                   *)
(* A user that will start no turn.                                         *)
Stopped(u) == task[u] \in {"cancelling", "done"}

(* The instance computes with the operators of this module.                *)
LEMMA SameOperators ==
    ASSUME NEW u \in Users, NEW c
    PROVE  /\ User(u)!PrepareOutcomes(c) = PrepareOutcomes(c)
           /\ \A t, reply : User(u)!AppendHistory(c, t, reply) = AppendHistory(c, t, reply)
           /\ \A j : User(u)!NewContext(j) = NewContext(j)
BY DEF User!PrepareOutcomes, User!AppendHistory, User!NewContext, User!GeneratedTokens,
   User!Prepared, User!Compacted, User!Grown, User!Cleared, User!BaseTokens,
   User!ContextTokens, User!Fits, PrepareOutcomes, AppendHistory, NewContext, GeneratedTokens,
   Prepared, Compacted, Grown, Cleared, BaseTokens, ContextTokens, Fits

-----------------------------------------------------------------------------
KindsOf(new) == {new[i].kind : i \in DOMAIN new}

(* What an outcome records is of the user's turn at hand.                  *)
LEMMA OutcomeRecords ==
    ASSUME NEW u \in Users, NEW new, Outcome(u, new)
    PROVE  new \in Seq(Records) /\ \A i \in 1..Len(new) : OfTurn(new[i], u)
<1>1. CASE OneOutcome(u, new)
  BY <1>1 DEF OneOutcome
<1>2. CASE TwoOutcomes(u, new)
  <2>1. PICK r \in Records, p \in Records : OfTurn(r, u) /\ OfTurn(p, u) /\ new = <<r, p>>
    BY <1>2 DEF TwoOutcomes
  <2>2. Len(new) = 2 /\ new[1] = r /\ new[2] = p /\ new \in Seq(Records)
    BY <2>1
  <2>3. \A i \in 1..2 : i = 1 \/ i = 2
    OBVIOUS
  <2>4. QED
    BY <2>1, <2>2, <2>3
<1>3. QED
  BY <1>1, <1>2 DEF Outcome

(* It adds that turn to the turns of its kinds, and to no other user's.    *)
LEMMA RecordedTurnsOf ==
    ASSUME IInv, NEW u \in Users, NEW new, NEW s, Outcome(u, new), Recorded(u, new, s),
           NEW v \in Users, NEW kind
    PROVE  TurnsOf(v, kind)'
              = TurnsOf(v, kind) \cup IF v = u /\ kind \in KindsOf(new) THEN {turn[u]} ELSE {}
<1>1. /\ records \in Seq(Records) /\ new \in Seq(Records) /\ records' = records \o new
      /\ \A i \in 1..Len(new) : OfTurn(new[i], u)
  BY OutcomeRecords DEF IInv, TypeInv, TypeOK, Recorded
<1>2. /\ Len(records) \in Nat /\ Len(new) \in Nat /\ Len(records') = Len(records) + Len(new)
      /\ records' \in Seq(Records)
      /\ \A i \in 1..Len(records) : records'[i] = records[i]
      /\ \A i \in 1..Len(new) : records'[Len(records) + i] = new[i]
  BY <1>1, ConcatProperties
<1>3. TurnsOf(v, kind) = {records[i].turn : i \in {k \in 1..Len(records) :
                             records[k].user = v /\ records[k].kind = kind}}
  BY <1>1 DEF TurnsOf
<1>4. TurnsOf(v, kind)' = {records'[i].turn : i \in {k \in 1..Len(records') :
                             records'[k].user = v /\ records'[k].kind = kind}}
  <2>1. records' \in Seq(Records)
    BY <1>2
  <2>2. QED
    BY <2>1 DEF TurnsOf
<1>5. KindsOf(new) = {new[i].kind : i \in 1..Len(new)}
  BY <1>1 DEF KindsOf
<1>6. \A i \in 1..Len(records') :
         i \in 1..Len(records) \/ \E j \in 1..Len(new) : i = Len(records) + j
  <2> TAKE i \in 1..Len(records')
  <2>1. i \notin 1..Len(records) => i - Len(records) \in 1..Len(new)
                                    /\ i = Len(records) + (i - Len(records))
    BY <1>2
  <2>2. QED
    BY <2>1
<1>7. \A j \in 1..Len(new) : Len(records) + j \in 1..Len(records')
  BY <1>2
<1>8. 1..Len(records) \subseteq 1..Len(records')
  BY <1>2
<1> DEFINE added == IF v = u /\ kind \in KindsOf(new) THEN {turn[u]} ELSE {}
<1>9. TurnsOf(v, kind)' \subseteq TurnsOf(v, kind) \cup added
  <2> SUFFICES ASSUME NEW i \in 1..Len(records'),
                      records'[i].user = v, records'[i].kind = kind
               PROVE  records'[i].turn \in TurnsOf(v, kind) \cup added
    BY <1>4
  <2>1. CASE i \in 1..Len(records)
    <3>1. records'[i] = records[i]
      BY <1>2, <2>1
    <3>2. records[i].turn \in TurnsOf(v, kind)
      BY <1>3, <2>1, <3>1
    <3>3. QED
      BY <3>1, <3>2
  <2>2. CASE \E j \in 1..Len(new) : i = Len(records) + j
    <3>1. PICK j \in 1..Len(new) : i = Len(records) + j
      BY <2>2
    <3>2. records'[i] = new[j] /\ OfTurn(new[j], u)
      BY <1>1, <1>2, <3>1
    <3>3. v = u /\ records'[i].turn = turn[u] /\ kind \in KindsOf(new)
      BY <1>5, <3>2 DEF OfTurn
    <3>4. QED
      BY <3>3
  <2>3. QED
    BY <1>6, <2>1, <2>2
<1>10. TurnsOf(v, kind) \subseteq TurnsOf(v, kind)'
  BY <1>2, <1>3, <1>4, <1>8
<1>11. v = u /\ kind \in KindsOf(new) => turn[u] \in TurnsOf(v, kind)'
  <2> SUFFICES ASSUME v = u, kind \in KindsOf(new) PROVE turn[u] \in TurnsOf(v, kind)'
    OBVIOUS
  <2>1. PICK j \in 1..Len(new) : new[j].kind = kind
    BY <1>5
  <2>2. records'[Len(records) + j] = new[j] /\ OfTurn(new[j], u)
    BY <1>1, <1>2
  <2>3. QED
    BY <1>4, <1>7, <2>1, <2>2 DEF OfTurn
<1>12. QED
  BY <1>9, <1>10, <1>11

(* The turn at hand has no record yet.                                     *)
LEMMA TurnIsNew ==
    ASSUME IInv, Past, NEW u \in Users, NEW kind
    PROVE  turn[u] \notin TurnsOf(u, kind)
<1>1. turn[u] \in Nat
  BY ScenarioAssumption DEF IInv, TypeInv, TypeOK
<1>2. QED
  BY <1>1 DEF TurnsOf, Past

-----------------------------------------------------------------------------
(* What the steps of a user's view need to know of the state.              *)
View(u) ==
    /\ turn[u] \in 1..MaxTurns + 1
    /\ task[u] = "posting" => turn[u] <= MaxTurns

SameRecords(u) == \A kind : TurnsOf(u, kind)' = TurnsOf(u, kind)

(* It holds in every state of a run.                                       *)
LEMMA ViewOfUser == ASSUME IInv, NEW u \in Users PROVE View(u)
BY DEF IInv, TypeInv, TypeOK, View

(* A step that leaves the user's conversation and records alone, and at    *)
(* most ends its task, is a Stop of the user or a stutter.                 *)
LEMMA StopOrStutter ==
    ASSUME NEW u \in Users, View(u), SameRecords(u),
           ctx'[u] = ctx[u] /\ turn'[u] = turn[u] /\ compactions'[u] = compactions[u],
           \/ Stopped(u)'
           \/ ~Stopped(u) /\ ~Stopped(u)' /\ (task'[u] = "posting" <=> task[u] = "posting")
    PROVE  User(u)!Stop \/ UNCHANGED User(u)!vars
<1>1. MaxTurns \in Nat
  BY ScenarioAssumption
<1>2. /\ TurnsOf(u, "context_overflow")' = TurnsOf(u, "context_overflow")
      /\ TurnsOf(u, "ok")' = TurnsOf(u, "ok")
      /\ TurnsOf(u, "processing_error")' = TurnsOf(u, "processing_error")
  BY DEF SameRecords
<1>3. CASE ~Stopped(u) /\ Stopped(u)' /\ turn[u] <= MaxTurns
  BY <1>1, <1>2, <1>3 DEF User!Stop, User!HasTurns, Stopped
<1>4. CASE ~(~Stopped(u) /\ Stopped(u)' /\ turn[u] <= MaxTurns)
  <2>1. Stopped(u) \/ Stopped(u)' => turn[u] > MaxTurns \/ (Stopped(u) /\ Stopped(u)')
    BY <1>1, <1>4 DEF View
  <2>2. (task'[u] = "posting") = (task[u] = "posting")
    BY <1>1, <2>1 DEF View, Stopped
  <2>3. (IF Stopped(u)' THEN MaxTurns + 1 ELSE turn'[u])
           = (IF Stopped(u) THEN MaxTurns + 1 ELSE turn[u])
    BY <1>1, <2>1 DEF View
  <2>4. QED
    BY <1>2, <2>2, <2>3 DEF User!vars, Stopped
<1>5. QED
  BY <1>3, <1>4

(* The preparation of a turn, as the user sees it.                         *)
LEMMA PrepareView ==
    ASSUME IInv, NEW u \in Users, NEW r \in PrepareOutcomes(ctx[u]), PrepareTurn(u, r)
    PROVE  /\ r \in User(u)!PrepareOutcomes(ctx[u])
           /\ ctx'[u] = r.ctx
           /\ compactions'[u] = IF r.compacted THEN compactions[u] \cup {turn[u]}
                                               ELSE compactions[u]
           /\ turn[u] <= MaxTurns /\ task[u] \in {"ready", "running"}
           /\ \A v \in Users \ {u} : ctx'[v] = ctx[v] /\ compactions'[v] = compactions[v]
<1>1. ctx \in [Users -> Contexts] /\ compactions \in [Users -> SUBSET (1..MaxTurns)]
  BY DEF IInv, TypeInv, TypeOK
<1>2. r \in User(u)!PrepareOutcomes(ctx[u])
  BY SameOperators
<1>3. QED
  BY <1>1, <1>2 DEF PrepareTurn, HasTurns, AtLoopTop

(* A turn that is sent (build_request, then the post).                     *)
LEMMA SendView ==
    ASSUME IInv, NEW u \in Users, Send(u)
    PROVE  User(u)!Prepare
<1>1. PICK r \in PrepareOutcomes(ctx[u]) : ~r.overflow /\ PrepareTurn(u, r)
  BY DEF Send
<1>2. /\ r \in User(u)!PrepareOutcomes(ctx[u]) /\ ctx'[u] = r.ctx
      /\ compactions'[u] = IF r.compacted THEN compactions[u] \cup {turn[u]}
                                          ELSE compactions[u]
      /\ turn[u] <= MaxTurns /\ task[u] \in {"ready", "running"}
  BY <1>1, PrepareView
<1>3. task'[u] = "posting" /\ UNCHANGED <<turn, records>>
  BY DEF Send, tallyVars, IInv, TypeInv, TypeOK
<1>4. SameRecords(u)
  BY <1>3 DEF SameRecords, TurnsOf
<1>5. /\ TurnsOf(u, "context_overflow")' = TurnsOf(u, "context_overflow")
      /\ TurnsOf(u, "ok")' = TurnsOf(u, "ok")
      /\ TurnsOf(u, "processing_error")' = TurnsOf(u, "processing_error")
  BY <1>4 DEF SameRecords
<1>6. /\ ~(task[u] \in {"cancelling", "done"}) /\ ~(task'[u] \in {"cancelling", "done"})
      /\ (task[u] = "posting") = FALSE /\ (task'[u] = "posting") = TRUE /\ turn'[u] = turn[u]
  BY <1>2, <1>3
<1>7. QED
  BY <1>1, <1>2, <1>5, <1>6 DEF User!Prepare, User!HasTurns

(* What recording the outcome of a turn changes of the user it is of.      *)
LEMMA RecordedView ==
    ASSUME IInv, Past, NEW u \in Users, NEW new, NEW s \in {"ready", "running", "crashed"},
           Outcome(u, new), Recorded(u, new, s)
    PROVE  /\ turn'[u] = turn[u] + 1
           /\ s # "ready" => task'[u] = s
           /\ ~Failed(new[1]) /\ Len(new) = 1 => task'[u] = s
           /\ \A kind : TurnsOf(u, kind)'
                 = TurnsOf(u, kind) \cup IF kind \in KindsOf(new) THEN {turn[u]} ELSE {}
<1>1. /\ task \in [Users -> TaskStates] /\ turn \in [Users -> 1..MaxTurns + 1]
      /\ shutdown \in BOOLEAN /\ s \in TaskStates
  BY DEF IInv, TypeInv, TypeOK, TaskStates
<1>2. turn'[u] = turn[u] + 1
  BY <1>1 DEF Recorded, NextTurn
<1>3. task'[u] = s \/ (s \in {"ready", "posting"} /\ task'[u] = "cancelling")
  BY <1>1, RecordedTasks
<1>4. ASSUME ~Failed(new[1]), Len(new) = 1 PROVE task'[u] = s
  <2>1. consecutive' = 0
    BY <1>4 DEF Recorded, NewConsecutive
  <2>2. ~Aborts(consecutive')
    BY <2>1, ScenarioAssumption DEF Aborts
  <2>3. QED
    BY <1>1, <2>2 DEF Recorded
<1>5. \A kind : TurnsOf(u, kind)'
         = TurnsOf(u, kind) \cup IF kind \in KindsOf(new) THEN {turn[u]} ELSE {}
  BY RecordedTurnsOf
<1>6. QED
  BY <1>2, <1>3, <1>4, <1>5

(* The kinds of the records of a turn.                                     *)
LEMMA KindsOfRecords ==
    ASSUME NEW u, NEW kind
    PROVE  /\ KindsOf(<<TurnRecord(u, kind)>>) = {kind}
           /\ KindsOf(<<ErrorRecord(u)>>) = {"processing_error"}
           /\ KindsOf(<<TurnRecord(u, kind), ErrorRecord(u)>>) = {kind, "processing_error"}
<1>1. TurnRecord(u, kind).kind = kind /\ ErrorRecord(u).kind = "processing_error"
  BY DEF TurnRecord, ErrorRecord
<1>2. \A r : KindsOf(<<r>>) = {r.kind}
  BY DEF KindsOf
<1>3. \A r, p : KindsOf(<<r, p>>) = {r.kind, p.kind}
  <2> TAKE r, p
  <2>1. DOMAIN <<r, p>> = {1, 2} /\ <<r, p>>[1] = r /\ <<r, p>>[2] = p
    OBVIOUS
  <2>2. QED
    BY <2>1 DEF KindsOf
<1>4. QED
  BY <1>1, <1>2, <1>3

(* A turn skipped for lack of room, or left for a request that could not   *)
(* be built.                                                               *)
LEMMA SkippedView ==
    ASSUME IInv, Past, NEW u \in Users, Overflow(u) \/ BuildFailed(u)
    PROVE  User(u)!Prepare \/ User(u)!BuildFailed
<1>1. AfterProgress \subseteq {"running", "crashed"}
  BY DEF AfterProgress
<1>2. PICK r \in PrepareOutcomes(ctx[u]) :
         /\ PrepareTurn(u, r)
         /\ \/ r.overflow /\ Overflow(u)
            \/ ~r.overflow /\ BuildFailed(u)
  BY DEF Overflow, BuildFailed
<1>3. /\ r \in User(u)!PrepareOutcomes(ctx[u]) /\ ctx'[u] = r.ctx
      /\ compactions'[u] = IF r.compacted THEN compactions[u] \cup {turn[u]}
                                          ELSE compactions[u]
      /\ turn[u] <= MaxTurns /\ task[u] \in {"ready", "running"}
  BY <1>2, PrepareView
<1>4. turn[u] \in 1..MaxTurns
  BY <1>3, ScenarioAssumption, ViewOfUser DEF View
<1> DEFINE kind == IF r.overflow THEN "context_overflow" ELSE "build_request_failed"
<1>5. PICK s \in AfterProgress : Recorded(u, <<TurnRecord(u, kind)>>, s)
  BY <1>2 DEF Overflow, BuildFailed
<1>6. kind \in Failures
  BY DEF Failures
<1> HIDE DEF kind
<1>7. Outcome(u, <<TurnRecord(u, kind)>>) /\ KindsOf(<<TurnRecord(u, kind)>>) = {kind}
  BY <1>4, <1>6, OutcomeOfRecord, KindsOfRecords
<1>8. /\ turn'[u] = turn[u] + 1 /\ task'[u] = s /\ s \in {"running", "crashed"}
      /\ \A k : TurnsOf(u, k)' = TurnsOf(u, k) \cup IF k \in {kind} THEN {turn[u]} ELSE {}
  BY <1>1, <1>5, <1>7, RecordedView
<1>9. /\ TurnsOf(u, "context_overflow")' = TurnsOf(u, "context_overflow")
            \cup IF r.overflow THEN {turn[u]} ELSE {}
      /\ TurnsOf(u, "ok")' = TurnsOf(u, "ok")
      /\ TurnsOf(u, "processing_error")' = TurnsOf(u, "processing_error")
  BY <1>8 DEF kind
<1>10. /\ ~(task[u] \in {"cancelling", "done"}) /\ ~(task'[u] \in {"cancelling", "done"})
       /\ (task[u] = "posting") = FALSE /\ (task'[u] = "posting") = FALSE
  BY <1>3, <1>8
<1>11. CASE r.overflow
  BY <1>3, <1>8, <1>9, <1>10, <1>11 DEF User!Prepare, User!HasTurns
<1>12. CASE ~r.overflow
  BY <1>3, <1>8, <1>9, <1>10, <1>12 DEF User!BuildFailed, User!HasTurns
<1>13. QED
  BY <1>11, <1>12

(* An answer that joins the history.                                       *)
LEMMA SuccessView ==
    ASSUME IInv, Past, NEW u \in Users, Success(u)
    PROVE  User(u)!Answer
<1>1. /\ task[u] = "posting" /\ compactions' = compactions
      /\ Recorded(u, <<TurnRecord(u, "ok")>>, "ready")
  BY DEF Success
<1>2. turn[u] \in 1..MaxTurns
  BY <1>1, ScenarioAssumption, ViewOfUser DEF View
<1>3. PICK reply \in ReplySizes : ctx' = Appended(u, reply)
  BY DEF Success
<1>4. ctx'[u] = User(u)!AppendHistory(ctx[u], turn[u], reply)
  BY <1>3, SameOperators DEF Appended, IInv, TypeInv, TypeOK
<1>5. /\ Outcome(u, <<TurnRecord(u, "ok")>>) /\ KindsOf(<<TurnRecord(u, "ok")>>) = {"ok"}
      /\ <<TurnRecord(u, "ok")>>[1] = TurnRecord(u, "ok") /\ Len(<<TurnRecord(u, "ok")>>) = 1
      /\ ~Failed(TurnRecord(u, "ok"))
  BY <1>2, OutcomeOfRecord, KindsOfRecords DEF Failed, TurnRecord
<1>6. /\ turn'[u] = turn[u] + 1 /\ task'[u] = "ready"
      /\ \A k : TurnsOf(u, k)' = TurnsOf(u, k) \cup IF k \in {"ok"} THEN {turn[u]} ELSE {}
  BY <1>1, <1>5, RecordedView
<1>7. /\ TurnsOf(u, "context_overflow")' = TurnsOf(u, "context_overflow")
      /\ TurnsOf(u, "ok")' = TurnsOf(u, "ok") \cup {turn[u]}
      /\ TurnsOf(u, "processing_error")' = TurnsOf(u, "processing_error")
  BY <1>6
<1>8. turn[u] \notin TurnsOf(u, "processing_error")
  BY TurnIsNew
<1>9. QED
  BY <1>1, <1>4, <1>6, <1>7, <1>8 DEF User!Answer

(* A turn that fails, or whose processing does: nothing joins the history, *)
(* and the turn does not count as answered, recorded as a success or not.  *)
LEMMA FailedView ==
    ASSUME IInv, Past, NEW u \in Users, Failure(u) \/ ProcessingError(u)
    PROVE  User(u)!Fail
<1>1. task[u] = "posting" /\ compactions' = compactions /\ ctx' = ctx
  BY DEF Failure, ProcessingError
<1>2. turn[u] \in 1..MaxTurns
  BY <1>1, ScenarioAssumption, ViewOfUser DEF View
<1>3. AfterProgress \subseteq {"running", "crashed"}
  BY DEF AfterProgress
<1> DEFINE Unanswered(new, s) ==
        /\ s \in {"running", "crashed"} /\ Outcome(u, new) /\ Recorded(u, new, s)
        /\ KindsOf(new) \in {{"failed"}, {"processing_error"},
              {"ok", "processing_error"}, {"failed", "processing_error"}}
<1>4. \E new, s : Unanswered(new, s)
  <2>1. \A kind \in {"ok", "failed"} :
           /\ Outcome(u, <<TurnRecord(u, kind)>>) /\ Outcome(u, <<ErrorRecord(u)>>)
           /\ "console" \in Faults => Outcome(u, <<TurnRecord(u, kind), ErrorRecord(u)>>)
    BY <1>2, OutcomeOfRecord DEF Failures
  <2>2. CASE Failure(u)
    <3>1. Recorded(u, <<TurnRecord(u, "failed")>>, "running")
      BY <2>2 DEF Failure
    <3>2. QED
      BY <2>1, <3>1, KindsOfRecords
  <2>3. CASE ProcessingError(u)
    <3>1. PICK s \in AfterProgress :
             \/ Recorded(u, <<ErrorRecord(u)>>, s)
             \/ "console" \in Faults /\ \E kind \in {"ok", "failed"} :
                   Recorded(u, <<TurnRecord(u, kind), ErrorRecord(u)>>, s)
      BY <2>3 DEF ProcessingError
    <3>2. CASE Recorded(u, <<ErrorRecord(u)>>, s)
      BY <1>3, <2>1, <3>2, KindsOfRecords
    <3>3. ASSUME "console" \in Faults, NEW kind \in {"ok", "failed"},
                 Recorded(u, <<TurnRecord(u, kind), ErrorRecord(u)>>, s)
          PROVE  \E n, t : Unanswered(n, t)
      BY <1>3, <2>1, <3>3, KindsOfRecords
    <3>4. QED
      BY <3>1, <3>2, <3>3
  <2>4. QED
    BY <2>2, <2>3
<1>5. PICK new, s : Unanswered(new, s)
  BY <1>4
<1>6. /\ turn'[u] = turn[u] + 1 /\ task'[u] = s
      /\ \A k : TurnsOf(u, k)'
            = TurnsOf(u, k) \cup IF k \in KindsOf(new) THEN {turn[u]} ELSE {}
  BY <1>5, RecordedView
<1>7. TurnsOf(u, "context_overflow")' = TurnsOf(u, "context_overflow")
  <2>1. "context_overflow" \notin KindsOf(new)
    BY <1>5
  <2>2. TurnsOf(u, "context_overflow")' = TurnsOf(u, "context_overflow")
           \cup IF "context_overflow" \in KindsOf(new) THEN {turn[u]} ELSE {}
    BY <1>6
  <2>3. QED
    BY <2>1, <2>2
<1>8. "ok" \in KindsOf(new) => "processing_error" \in KindsOf(new)
  BY <1>5
<1>9. turn[u] \notin TurnsOf(u, "ok")
  BY TurnIsNew
<1>10. TurnsOf(u, "ok")' \ TurnsOf(u, "processing_error")'
          = TurnsOf(u, "ok") \ TurnsOf(u, "processing_error")
  <2>1. /\ TurnsOf(u, "ok")' = TurnsOf(u, "ok")
              \cup IF "ok" \in KindsOf(new) THEN {turn[u]} ELSE {}
        /\ TurnsOf(u, "processing_error")' = TurnsOf(u, "processing_error")
              \cup IF "processing_error" \in KindsOf(new) THEN {turn[u]} ELSE {}
    BY <1>6
  <2>2. QED
    BY <1>8, <1>9, <2>1
<1>11. QED
  BY <1>1, <1>5, <1>6, <1>7, <1>10 DEF User!Fail

-----------------------------------------------------------------------------
(* The other users' steps, as a user sees them: its task may be cancelled, *)
(* nothing else happens to it.                                             *)
LEMMA OtherUserStep ==
    ASSUME IInv, EndsProperly, NEW u \in Users, Turn(u) \/ Reply(u), NEW v \in Users \ {u}
    PROVE  User(v)!Stop \/ UNCHANGED User(v)!vars
<1>1. /\ ctx \in [Users -> Contexts] /\ turn \in [Users -> 1..MaxTurns + 1]
      /\ compactions \in [Users -> SUBSET (1..MaxTurns)]
  BY DEF IInv, TypeInv, TypeOK
<1>2. \/ task'[v] = task[v]
      \/ task[v] \in {"ready", "posting"} /\ task'[v] = "cancelling"
  BY UserMoves DEF UserMove
<1>3. ctx'[v] = ctx[v] /\ compactions'[v] = compactions[v]
  <2>1. CASE LeaveLoop(u) \/ Cancelled(u)
    BY <2>1 DEF LeaveLoop, Cancelled
  <2>2. CASE Overflow(u) \/ BuildFailed(u) \/ Send(u)
    <3>1. PICK r \in PrepareOutcomes(ctx[u]) : PrepareTurn(u, r)
      BY <2>2 DEF Overflow, BuildFailed, Send
    <3>2. QED
      BY <3>1, PrepareView
  <2>3. CASE Reply(u)
    BY <1>1, <2>3 DEF Reply, Success, Failure, ProcessingError, Appended
  <2>4. QED
    BY <2>1, <2>2, <2>3 DEF Turn
<1>4. turn'[v] = turn[v] /\ SameRecords(v)
  <2>1. CASE UNCHANGED <<turn, records>>
    BY <2>1 DEF SameRecords, TurnsOf
  <2>2. CASE \E new, s : Outcome(u, new) /\ Recorded(u, new, s)
    <3>1. PICK new, s : Outcome(u, new) /\ Recorded(u, new, s)
      BY <2>2
    <3>2. turn'[v] = turn[v]
      BY <1>1, <3>1 DEF Recorded
    <3>3. \A kind : TurnsOf(v, kind)' = TurnsOf(v, kind)
      <4>1. \A kind : TurnsOf(v, kind)' = TurnsOf(v, kind)
               \cup IF v = u /\ kind \in KindsOf(new) THEN {turn[u]} ELSE {}
        BY <3>1, RecordedTurnsOf
      <4>2. QED
        BY <4>1
    <3>4. QED
      BY <3>2, <3>3 DEF SameRecords
  <2>3. QED
    BY <2>1, <2>2, UserRecords DEF RecordsTurn, SomeOutcome, RecordsNothing
<1>5. QED
  BY <1>2, <1>3, <1>4, StopOrStutter, ViewOfUser DEF Stopped

(* A user's own steps are those of UserContext.                            *)
LEMMA OwnStep ==
    ASSUME IInv, Past, NEW u \in Users, Turn(u) \/ Reply(u)
    PROVE  User(u)!Next \/ UNCHANGED User(u)!vars
<1>1. CASE LeaveLoop(u) \/ Cancelled(u)
  <2>1. UNCHANGED <<turn, ctx, compactions, records>> /\ task' = [task EXCEPT ![u] = "done"]
    BY <1>1 DEF LeaveLoop, Cancelled, tallyVars
  <2>2. SameRecords(u) /\ Stopped(u)'
    BY <2>1 DEF SameRecords, TurnsOf, Stopped, IInv, TypeInv, TypeOK
  <2>3. QED
    BY <2>1, <2>2, StopOrStutter, ViewOfUser DEF User!Next
<1>2. CASE Send(u)
  BY <1>2, SendView DEF User!Next
<1>3. CASE Overflow(u) \/ BuildFailed(u)
  BY <1>3, SkippedView DEF User!Next
<1>4. CASE Success(u)
  BY <1>4, SuccessView DEF User!Next
<1>5. CASE Failure(u) \/ ProcessingError(u)
  BY <1>5, FailedView DEF User!Next
<1>6. QED
  BY <1>1, <1>2, <1>3, <1>4, <1>5 DEF Turn, Reply

(* Of what the rest of the program does, a user sees its task created and  *)
(* cancelled.                                                              *)
LEMMA ProgramStep ==
    ASSUME IInv, MainStep \/ Sigint \/ CliExit \/ LoopDrained \/ ShutdownAndSave \/ UNCHANGED vars,
           NEW u \in Users
    PROVE  User(u)!Stop \/ UNCHANGED User(u)!vars
<1>1. task \in [Users -> TaskStates]
  BY DEF IInv, TypeInv, TypeOK
<1>2. UNCHANGED <<turn, ctx, compactions, records>>
  BY DEF MainStep, Probe, ContentReady, Arrive, Wake, ArrivalFrame, Gathered, EndSnapshot,
     PollerStopped, Finalize, MainCancelled, MainOnly, Sigint, CliExit, LoopDrained,
     ShutdownAndSave, vars, userVars, tallyVars
<1>3. SameRecords(u)
  BY <1>2 DEF SameRecords, TurnsOf
<1>4. \/ task'[u] = task[u]
      \/ task[u] = "absent" /\ task'[u] = "ready"
      \/ task'[u] = "cancelling"
  <2>1. CASE Arrive \/ Wake
    <3>1. task' = task \/ task' = [task EXCEPT ![arrived] = "ready"]
      BY <2>1 DEF Arrive, Wake, StopArrivals, StartUser
    <3>2. u = arrived => task[u] = "absent"
      BY DEF IInv, Started, Users
    <3>3. QED
      BY <1>1, <3>1, <3>2
  <2>2. CASE Sigint
    BY <1>1, <2>2, CancelTasksProperties DEF Sigint
  <2>3. CASE UNCHANGED userVars
    BY <2>3 DEF userVars
  <2>4. QED
    BY <2>1, <2>2, <2>3
       DEF MainStep, Probe, ContentReady, Gathered, EndSnapshot, PollerStopped, Finalize,
           MainCancelled, MainOnly, CliExit, LoopDrained, ShutdownAndSave, vars
<1>5. \/ Stopped(u)'
      \/ ~Stopped(u) /\ ~Stopped(u)' /\ (task'[u] = "posting" <=> task[u] = "posting")
  BY <1>4 DEF Stopped
<1>6. QED
  BY <1>2, <1>3, <1>5, StopOrStutter, ViewOfUser

(* Every step of the program is a step of each user, or a stutter.         *)
LEMMA UserSimulation ==
    ASSUME IInv, RecordsInv, [Next]_vars, NEW u \in Users
    PROVE  User(u)!Next \/ UNCHANGED User(u)!vars
<1>1. Past /\ EndsProperly
  BY DEF RecordsInv
<1>2. CASE \E v \in Users : Turn(v) \/ Reply(v)
  <2>1. PICK v \in Users : Turn(v) \/ Reply(v)
    BY <1>2
  <2>2. CASE v = u
    BY <1>1, <2>1, <2>2, OwnStep
  <2>3. CASE v # u
    <3>1. User(u)!Stop \/ UNCHANGED User(u)!vars
      BY <1>1, <2>1, <2>3, OtherUserStep
    <3>2. QED
      BY <3>1 DEF User!Next
  <2>4. QED
    BY <2>2, <2>3
<1>3. CASE MainStep \/ Sigint \/ CliExit \/ LoopDrained \/ ShutdownAndSave \/ UNCHANGED vars
  <2>1. User(u)!Stop \/ UNCHANGED User(u)!vars
    BY <1>3, ProgramStep
  <2>2. QED
    BY <2>1 DEF User!Next
<1>4. QED
  BY <1>2, <1>3 DEF Next, Ended

(* Users do not affect each other: every step of the program is, for each  *)
(* of them, a step of a user run alone or none (_run_user_loop).           *)
THEOREM UsersRunAlone == Spec => UsersAreIndependent
<1>1. IInv /\ RecordsInv /\ [Next]_vars
         => [\A u \in Users : User(u)!Next \/ UNCHANGED User(u)!vars]_vars
  BY UserSimulation
<1>2. QED
  BY <1>1, Invariance, RecordsInvariance, PTL DEF Spec, UsersAreIndependent

(* A scenario run implements UserContext, for each of its users: what is   *)
(* proved of one context holds of every context of the run.                *)
THEOREM ImplementsUserContext ==
    ASSUME NEW u \in Users
    PROVE  Spec => User(u)!Spec
<1>1. Init => User(u)!Init
  <2> SUFFICES ASSUME Init PROVE User(u)!Init
    OBVIOUS
  <2>1. PICK j \in Jitter : ctx[u] = NewContext(j)
    BY DEF Init
  <2>2. ctx[u] \in {User(u)!NewContext(i) : i \in Jitter}
    BY <2>1, SameOperators
  <2>3. task[u] = "absent" /\ turn[u] = 1 /\ compactions[u] = {} /\ records = <<>>
    BY DEF Init
  <2>4. \A kind : TurnsOf(u, kind) = {}
    BY <2>3 DEF TurnsOf
  <2>5. QED
    BY <2>2, <2>3, <2>4 DEF User!Init
<1>2. IInv /\ RecordsInv /\ [Next]_vars => [User(u)!Next]_(User(u)!vars)
  BY UserSimulation
<1>3. QED
  BY <1>1, <1>2, Invariance, RecordsInvariance, PTL DEF Spec, User!Spec
=============================================================================
