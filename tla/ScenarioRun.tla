---------------------------- MODULE ScenarioRun ----------------------------
(***************************************************************************)
(* One scenario-mode run of clawperf, from the pre-flight probe to the     *)
(* exit code: BenchmarkRunner.run, the user tasks it starts, the counters  *)
(* they share, the SIGINT handler, finalisation, and the command line's    *)
(* handling of what run() returns or raises.                               *)
(*                                                                         *)
(* The program is a set of coroutines on one event loop.  A task runs      *)
(* without interruption from one suspension to the next, so a step of the  *)
(* model is at most such a stretch; a stretch that takes several steps     *)
(* holds the loop (Idle is false) until it suspends.                       *)
(*                                                                         *)
(* Definitions under a "Faulty" comment are not part of the model: each is *)
(* a mistake this code could contain, kept next to the definition it would *)
(* replace to show which property notices it.                              *)
(***************************************************************************)
EXTENDS ContextWindow, FiniteSets

CONSTANTS
    NumUsers, MaxTurns,
    MaxConsecutiveFailures, \* 0 disables the early abort
    PreflightAttempts,      \* 0 stands for --no-preflight
    Paced,                  \* steady or Poisson arrivals rather than burst
    Sampling,               \* --metrics-samples: a poll task is to be stopped
    Faults,                 \* "console": progress output raises; "disk": saving raises
    MaxSigints,             \* bound: how many times the operator presses Ctrl+C
    GatherNeedsLiveLoop     \* also a Python <= 3.11: gather() calls into the tasks' loop

ASSUME ScenarioAssumption ==
    /\ NumUsers \in Nat /\ MaxTurns \in Nat
    /\ MaxConsecutiveFailures \in Nat
    /\ PreflightAttempts \in Nat /\ MaxSigints \in Nat
    /\ Paced \in BOOLEAN /\ Sampling \in BOOLEAN /\ GatherNeedsLiveLoop \in BOOLEAN
    /\ Faults \subseteq {"console", "disk"}

VARIABLES
    main,        \* where the main task is
    attempt,     \* pre-flight attempt under way
    arrived,     \* users 0..arrived-1 have a task
    task,        \* state of each user's task
    turn,        \* turn_id of each user's loop
    ctx,         \* _user_contexts
    compactions, \* compaction_events of each user: the turns that compacted
    records,     \* _turn_records
    completed, errors, consecutive, \* counters of _advance_progress
    measured,    \* responses the EvalScope accumulator has taken
    shutdown,    \* _shutdown
    sigints,     \* SIGINTs delivered
    interrupt,   \* a cancellation is pending on the main task
    loop,        \* "open", "closing" after KeyboardInterrupt, "closed"
    output,      \* contents of --output: <<>> or <<the records saved>>
    history,     \* lines this run added to the history file
    exit         \* exit code, or Running

mainVars == <<main, attempt, arrived, interrupt>>
userVars == <<task, turn, ctx, compactions>>
tallyVars == <<records, completed, errors, consecutive, measured>>
savedVars == <<output, history>>
vars == <<mainVars, userVars, tallyVars, shutdown, sigints, loop, savedVars, exit>>

Users == 0..NumUsers - 1
Running == -1

TaskStates == {"absent", "ready", "running", "posting", "cancelling", "done", "crashed"}
Live == {"ready", "running", "posting", "cancelling"}
MainWaits == {"preflight", "content", "sleep", "gather", "endSnapshot", "stopPoller", "closeClient"}
MainEnds == {"finished", "refused", "crashed", "cancelled"}
Failures == {"failed", "context_overflow", "build_request_failed", "processing_error"}
Records == [user : Users, turn : 1..MaxTurns, kind : {"ok"} \cup Failures, compacted : BOOLEAN]

-----------------------------------------------------------------------------
Init ==
    /\ main = IF PreflightAttempts > 0 THEN "preflight" ELSE "content"
    /\ attempt = 1 /\ arrived = 0 /\ interrupt = FALSE
    /\ task = [u \in Users |-> "absent"]
    /\ turn = [u \in Users |-> 1]
    /\ ctx \in [Users -> {NewContext(j) : j \in Jitter}]
    /\ compactions = [u \in Users |-> {}]
    /\ records = <<>>
    /\ completed = 0 /\ errors = 0 /\ consecutive = 0 /\ measured = 0
    /\ shutdown = FALSE /\ sigints = 0 /\ loop = "open"
    /\ output = <<>> /\ history = 0 /\ exit = Running

(* No coroutine holds the event loop: a callback or another task may run.  *)
Idle == loop # "closed" /\ main # "arrivals" /\ \A u \in Users : task[u] # "running"

(* Faulty: the flag is raised and the requests under way are left alone.   *)
CancelNothing(t) == t

(* task.cancel() on every task that is not done; the one that is running   *)
(* finds out at its next suspension, which it does not reach (LeaveLoop).  *)
CancelTasks(t) == [u \in Users |-> IF t[u] \in {"ready", "posting"} THEN "cancelling" ELSE t[u]]

(* Faulty: waits for every configured user, started or not.                *)
UsersOver == \A u \in Users : task[u] \in {"done", "crashed"}

TasksOver == \A u \in Users : task[u] \notin Live

-----------------------------------------------------------------------------
(* The main task: probe, generate the content, start the users, wait for   *)
(* them, save.                                                             *)
MainOnly == UNCHANGED <<userVars, tallyVars, shutdown, sigints, loop, exit>>

(* _preflight_check: a transient failure is retried while attempts last.   *)
Probe ==
    /\ main = "preflight" /\ Idle /\ ~interrupt
    /\ \/ main' = "content" /\ UNCHANGED attempt
       \/ main' = "refused" /\ UNCHANGED attempt
       \/ attempt < PreflightAttempts /\ attempt' = attempt + 1 /\ UNCHANGED main
    /\ UNCHANGED <<arrived, interrupt, savedVars>> /\ MainOnly

ContentReady ==
    /\ main = "content" /\ Idle /\ ~interrupt
    /\ main' = "arrivals"
    /\ UNCHANGED <<attempt, arrived, interrupt, savedVars>> /\ MainOnly

StartUser ==
    /\ task' = [task EXCEPT ![arrived] = "ready"]
    /\ arrived' = arrived + 1
    /\ main' = "arrivals"

StopArrivals ==
    /\ main' = IF arrived = 0 THEN "endSnapshot" ELSE "gather"
    /\ UNCHANGED <<arrived, task>>

ArrivalFrame == UNCHANGED <<attempt, turn, ctx, compactions, tallyVars, shutdown,
                            sigints, loop, savedVars, exit>>

(* The arrival loop, one user or one delay at a time; burst arrivals never *)
(* suspend.                                                                *)
Arrive ==
    /\ main = "arrivals"
    /\ IF shutdown \/ arrived = NumUsers THEN StopArrivals
       ELSE IF Paced /\ arrived > 0 THEN main' = "sleep" /\ UNCHANGED <<arrived, task>>
       ELSE StartUser
    /\ UNCHANGED interrupt /\ ArrivalFrame

(* Faulty: the flag is not read again after the sleep.                     *)
WakeAndStart ==
    /\ main = "sleep" /\ Idle
    /\ StartUser
    /\ interrupt' = FALSE /\ ArrivalFrame

(* _interruptible_sleep ends by its timer or by a cancellation, which it   *)
(* swallows; the flag is then read again.                                  *)
Wake ==
    /\ main = "sleep" /\ Idle
    /\ IF shutdown THEN StopArrivals ELSE StartUser
    /\ interrupt' = FALSE /\ ArrivalFrame

(* Faulty: the tasks are gathered without being awaited.                   *)
GatheredEarly ==
    /\ main = "gather" /\ Idle /\ ~interrupt
    /\ main' = "endSnapshot"
    /\ UNCHANGED <<attempt, arrived, interrupt, savedVars>> /\ MainOnly

Gathered ==
    /\ main = "gather" /\ Idle /\ TasksOver /\ ~interrupt
    /\ main' = "endSnapshot"
    /\ UNCHANGED <<attempt, arrived, interrupt, savedVars>> /\ MainOnly

EndSnapshot ==
    /\ main = "endSnapshot" /\ Idle /\ ~interrupt
    /\ main' = IF Sampling THEN "stopPoller" ELSE "closeClient"
    /\ UNCHANGED <<attempt, arrived, interrupt, savedVars>> /\ MainOnly

(* poller.stop() awaits the poll task it cancelled and swallows any        *)
(* CancelledError meanwhile, one meant for itself included.                *)
PollerStopped ==
    /\ main = "stopPoller" /\ Idle
    /\ main' = "closeClient" /\ interrupt' = FALSE
    /\ UNCHANGED <<attempt, arrived, savedVars>> /\ MainOnly

(* The synchronous tail of _finalize: the result file is replaced and a    *)
(* line appended to the history.  An OSError on the history is swallowed;  *)
(* one on the result file is not, and may leave the file truncated.        *)
WriteResults ==
    /\ output' = <<records>>
    /\ history' \in {history + 1} \cup (IF "disk" \in Faults THEN {history} ELSE {})

WriteFailed == "disk" \in Faults /\ output' \in {output, <<>>} /\ UNCHANGED history

(* The summary is printed after the save: an exception there ends run()    *)
(* although the results are on disk.                                       *)
Finalize ==
    /\ main = "closeClient" /\ Idle /\ ~interrupt
    /\ \/ WriteResults /\ main' = "finished"
       \/ "console" \in Faults /\ WriteResults /\ main' = "crashed"
       \/ WriteFailed /\ main' = "crashed"
    /\ UNCHANGED <<attempt, arrived, interrupt>> /\ MainOnly

(* A pending cancellation ends run() at any other suspension; gather waits *)
(* for its children first.                                                 *)
MainCancelled ==
    /\ interrupt /\ Idle
    /\ main \in {"preflight", "content", "gather", "endSnapshot", "closeClient"}
    /\ main = "gather" => TasksOver
    /\ main' = "cancelled" /\ interrupt' = FALSE
    /\ UNCHANGED <<attempt, arrived, savedVars>> /\ MainOnly

-----------------------------------------------------------------------------
(* A user task, one turn of _run_user_loop at a time.                      *)

Failed(r) == r.kind # "ok"

HasTurns(u) == turn[u] <= MaxTurns

NextTurn(u, new) == turn[u] + 1

(* Faulty: successes do not end a run of failures.                         *)
NeverReset(new) == consecutive + Cardinality({i \in DOMAIN new : Failed(new[i])})

(* At most the first of several records is a success.                      *)
NewConsecutive(new) == IF Failed(new[1]) THEN consecutive + Len(new) ELSE Len(new) - 1

(* Faulty: one failure too late.                                           *)
AbortsLate(n) == MaxConsecutiveFailures > 0 /\ n > MaxConsecutiveFailures

Aborts(n) == MaxConsecutiveFailures > 0 /\ n >= MaxConsecutiveFailures

(* _turn_records.append and _advance_progress for each record of new, in   *)
(* order; then the user is in state s at its next turn.                    *)
Recorded(u, new, s) ==
    /\ records' = records \o new
    /\ completed' = completed + Len(new)
    /\ errors' = errors + Cardinality({i \in DOMAIN new : Failed(new[i])})
    /\ consecutive' = NewConsecutive(new)
    /\ turn' = [turn EXCEPT ![u] = NextTurn(u, new)]
    /\ shutdown' = (shutdown \/ Aborts(consecutive'))
    /\ LET t == [task EXCEPT ![u] = s]
       IN  task' = IF Aborts(consecutive') THEN CancelTasks(t) ELSE t

TurnRecord(u, kind) ==
    [user |-> u, turn |-> turn[u], kind |-> kind, compacted |-> turn[u] \in compactions'[u]]

(* The error record of the except branch says nothing of a compaction.     *)
ErrorRecord(u) == [user |-> u, turn |-> turn[u], kind |-> "processing_error", compacted |-> FALSE]

(* Printing the progress line may raise: inside the try block the error is *)
(* recorded, anywhere else it ends the task.                               *)
AfterProgress == {"running"} \cup (IF "console" \in Faults THEN {"crashed"} ELSE {})

AtLoopTop(u) == task[u] = "running" \/ (task[u] = "ready" /\ Idle)

UserFrame == UNCHANGED <<mainVars, sigints, loop, savedVars, exit>>

LeaveLoop(u) ==
    /\ AtLoopTop(u)
    /\ shutdown \/ ~HasTurns(u)
    /\ task' = [task EXCEPT ![u] = "done"]
    /\ UNCHANGED <<turn, ctx, compactions, tallyVars, shutdown>> /\ UserFrame

PrepareTurn(u, r) ==
    /\ AtLoopTop(u) /\ ~shutdown /\ HasTurns(u)
    /\ ctx' = [ctx EXCEPT ![u] = r.ctx]
    /\ compactions' = IF r.compacted THEN [compactions EXCEPT ![u] = @ \cup {turn[u]}]
                                     ELSE compactions
    /\ UserFrame

Overflow(u) ==
    /\ \E r \in PrepareOutcomes(ctx[u]) : r.overflow /\ PrepareTurn(u, r)
    /\ \E s \in AfterProgress : Recorded(u, <<TurnRecord(u, "context_overflow")>>, s)
    /\ UNCHANGED measured

(* Faulty: the turn that cannot be built is passed over.                   *)
BuildFailedSilently(u) ==
    /\ \E r \in PrepareOutcomes(ctx[u]) : ~r.overflow /\ PrepareTurn(u, r)
    /\ task' = [task EXCEPT ![u] = "running"]
    /\ turn' = [turn EXCEPT ![u] = @ + 1]
    /\ UNCHANGED <<tallyVars, shutdown>>

BuildFailed(u) ==
    /\ \E r \in PrepareOutcomes(ctx[u]) : ~r.overflow /\ PrepareTurn(u, r)
    /\ \E s \in AfterProgress : Recorded(u, <<TurnRecord(u, "build_request_failed")>>, s)
    /\ UNCHANGED measured

Send(u) ==
    /\ \E r \in PrepareOutcomes(ctx[u]) : ~r.overflow /\ PrepareTurn(u, r)
    /\ task' = [task EXCEPT ![u] = "posting"]
    /\ UNCHANGED <<turn, tallyVars, shutdown>>

(* Faulty: the conversation the answer joins is the first user's.          *)
AppendedToFirst(u, reply) == [ctx EXCEPT ![0] = AppendHistory(@, turn[u], reply)]

Appended(u, reply) == [ctx EXCEPT ![u] = AppendHistory(@, turn[u], reply)]

(* The HTTP client returned and its result is processed without a fault.   *)
Success(u) ==
    /\ task[u] = "posting" /\ Idle
    /\ UNCHANGED compactions /\ UserFrame
    /\ measured' = measured + 1
    /\ Recorded(u, <<TurnRecord(u, "ok")>>, "ready")
    /\ \E reply \in ReplySizes : ctx' = Appended(u, reply)

Failure(u) ==
    /\ task[u] = "posting" /\ Idle
    /\ UNCHANGED compactions /\ UserFrame
    /\ measured' = measured + 1
    /\ Recorded(u, <<TurnRecord(u, "failed")>>, "running")
    /\ UNCHANGED ctx

(* An exception before the turn is recorded (finalize, the accumulator,    *)
(* the record itself), or after it (the progress line).                    *)
ProcessingError(u) ==
    /\ task[u] = "posting" /\ Idle
    /\ UNCHANGED compactions /\ UserFrame
    /\ \E s \in AfterProgress :
          \/ /\ measured' \in {measured, measured + 1}
             /\ Recorded(u, <<ErrorRecord(u)>>, s)
          \/ /\ "console" \in Faults
             /\ measured' = measured + 1
             /\ \E kind \in {"ok", "failed"} :
                   Recorded(u, <<TurnRecord(u, kind), ErrorRecord(u)>>, s)
    /\ UNCHANGED ctx

(* The CancelledError reaches the suspended task and ends it.              *)
Cancelled(u) ==
    /\ task[u] = "cancelling" /\ Idle
    /\ task' = [task EXCEPT ![u] = "done"]
    /\ UNCHANGED <<turn, ctx, compactions, tallyVars, shutdown>> /\ UserFrame

Turn(u) == \/ LeaveLoop(u) \/ Overflow(u) \/ BuildFailed(u) \/ Send(u) \/ Cancelled(u)
Reply(u) == Success(u) \/ Failure(u) \/ ProcessingError(u)

-----------------------------------------------------------------------------
(* The signal handler and the command line.                                *)

(* The first SIGINT asks for a graceful end; a SIGINT that finds the flag  *)
(* set raises KeyboardInterrupt out of asyncio.run, which then cancels     *)
(* every task and drains the loop.                                         *)
Sigint ==
    /\ loop = "open" /\ Idle /\ sigints < MaxSigints
    /\ sigints' = sigints + 1
    /\ shutdown' = TRUE
    /\ task' = CancelTasks(task)
    /\ IF shutdown
       THEN loop' = "closing" /\ interrupt' = (main \in MainWaits)
       ELSE UNCHANGED <<loop, interrupt>>
    /\ UNCHANGED <<main, attempt, arrived, turn, ctx, compactions, tallyVars,
                   savedVars, exit>>

(* _has_all_failures: no record counts as all failed.                      *)
AllFailed == \A i \in DOMAIN records : Failed(records[i])

(* Faulty: an exception of the run is caught and forgotten.                *)
ExitByRecords == IF AllFailed THEN 2 ELSE 0

(* A refusal by the pre-flight is a RuntimeError, any other exception of   *)
(* run() reaches the interpreter: both exit with 1.                        *)
ExitCode == IF main = "finished" THEN (IF AllFailed THEN 2 ELSE 0) ELSE 1

(* asyncio.run returned or raised, without a KeyboardInterrupt.            *)
CliExit ==
    /\ loop = "open" /\ Idle /\ main \in MainEnds
    /\ loop' = "closed"
    /\ exit' = ExitCode
    /\ UNCHANGED <<mainVars, userVars, tallyVars, shutdown, sigints, savedVars>>

LoopDrained ==
    /\ loop = "closing" /\ Idle /\ main \in MainEnds /\ TasksOver
    /\ loop' = "closed"
    /\ UNCHANGED <<mainVars, userVars, tallyVars, shutdown, sigints, savedVars, exit>>

(* KeyboardInterrupt: shutdown_and_save in an event loop of its own.  The  *)
(* exception its write may raise, or on an old Python its gather of tasks  *)
(* that belong to the closed loop, is only reported.                       *)
ShutdownAndSave ==
    /\ loop = "closed" /\ exit = Running
    /\ \/ WriteResults \/ WriteFailed
       \/ GatherNeedsLiveLoop /\ arrived > 0 /\ UNCHANGED savedVars
    /\ exit' = 3
    /\ UNCHANGED <<mainVars, userVars, tallyVars, shutdown, sigints, loop>>

Ended == exit # Running /\ UNCHANGED vars

MainStep == \/ Probe \/ ContentReady \/ Arrive \/ Wake \/ Gathered \/ EndSnapshot
            \/ PollerStopped \/ Finalize \/ MainCancelled

Next ==
    \/ MainStep
    \/ \E u \in Users : Turn(u) \/ Reply(u)
    \/ Sigint \/ CliExit \/ LoopDrained \/ ShutdownAndSave \/ Ended

Spec == Init /\ [][Next]_vars

(* The loop runs whatever is ready: the main task's waits are bounded by   *)
(* timers and timeouts, a ready or cancelled task is resumed, the command  *)
(* line goes on.  Nothing obliges the server to answer.                    *)
Scheduling ==
    /\ WF_vars(MainStep) /\ \A u \in Users : WF_vars(Turn(u))
    /\ WF_vars(CliExit) /\ WF_vars(LoopDrained) /\ WF_vars(ShutdownAndSave)

FairSpec == Spec /\ Scheduling

-----------------------------------------------------------------------------
TypeOK ==
    /\ main \in MainWaits \cup MainEnds \cup {"arrivals"}
    /\ attempt \in Nat /\ arrived \in 0..NumUsers
    /\ task \in [Users -> TaskStates]
    /\ turn \in [Users -> 1..MaxTurns + 1]
    /\ ctx \in [Users -> Contexts]
    /\ compactions \in [Users -> SUBSET (1..MaxTurns)]
    /\ records \in Seq(Records)
    /\ completed \in Nat /\ errors \in Nat /\ consecutive \in Nat /\ measured \in Nat
    /\ shutdown \in BOOLEAN /\ interrupt \in BOOLEAN
    /\ sigints \in 0..MaxSigints
    /\ loop \in {"open", "closing", "closed"}
    /\ output \in Seq(Seq(Records)) /\ Len(output) <= 1
    /\ history \in 0..2
    /\ exit \in {Running, 0, 1, 2, 3}

Saved == output # <<>>

(* The counters of _advance_progress, kept incrementally by whichever user *)
(* happens to run, agree at every suspension with a scan of the records:   *)
(* the consecutive-failure count is the length of the failing suffix.      *)
CountersMatchRecords ==
    /\ completed = Len(records)
    /\ errors = Cardinality({i \in DOMAIN records : Failed(records[i])})
    /\ consecutive <= Len(records)
    /\ \A i \in Len(records) - consecutive + 1 .. Len(records) : Failed(records[i])
    /\ consecutive < Len(records) => ~Failed(records[Len(records) - consecutive])

(* A second record of a turn: the progress line of the first could not be  *)
(* printed, and the except branch recorded the turn as an error.           *)
RecordedAgain(i) ==
    /\ i > 1 /\ "console" \in Faults
    /\ records[i].user = records[i - 1].user /\ records[i].turn = records[i - 1].turn
    /\ records[i].kind = "processing_error" /\ records[i - 1].kind \in {"ok", "failed"}

(* Each turn of each user is recorded once and in order, whatever the      *)
(* interleaving, errors and cancellations, but for the one that is         *)
(* recorded again at once when its progress line fails; and a user whose   *)
(* loop ended has a record for every turn, unless the run was asked to     *)
(* stop: overflowing, unbuildable and failing turns are counted.           *)
TurnsRecordedOnce ==
    /\ \A i, j \in DOMAIN records :
          i < j /\ records[i].user = records[j].user =>
              records[i].turn < records[j].turn \/ (j = i + 1 /\ RecordedAgain(j))
    /\ \A u \in Users : task[u] = "done" /\ ~shutdown =>
          \A t \in 1..MaxTurns : \E i \in DOMAIN records :
              records[i].user = u /\ records[i].turn = t

(* The early abort acts at its threshold: no other turn's failure, of any  *)
(* user, is added to the run that brought it about.                        *)
AbortAtThreshold ==
    MaxConsecutiveFailures > 0 =>
        /\ consecutive >= MaxConsecutiveFailures => shutdown
        /\ consecutive > MaxConsecutiveFailures =>
              consecutive = MaxConsecutiveFailures + 1 /\ RecordedAgain(Len(records))

(* Once the run is asked to stop, no user starts, nothing is sent and      *)
(* nothing more is recorded, answers already under way included.           *)
QuietAfterShutdown ==
    [][shutdown => /\ records' = records /\ arrived' = arrived
                   /\ \A u \in Users : task'[u] = "posting" => task[u] = "posting"]_vars

(* A result file is written only when every user task is over, and stays   *)
(* an exact image of the records of the run from then on.                  *)
ResultsComplete == Saved => TasksOver /\ output = <<records>>

(* Exit codes 0 and 2 are for runs whose results are on disk, and tell     *)
(* whether a turn in them succeeded; 1 leaves no results, unless it was    *)
(* the summary of the saved results that could not be printed.             *)
ExitTellsResults ==
    /\ exit \in {0, 2} => Saved
    /\ exit = 0 => \E i \in DOMAIN output[1] : output[1][i].kind = "ok"
    /\ exit = 2 => \A i \in DOMAIN output[1] : output[1][i].kind # "ok"
    /\ exit = 1 => ~Saved \/ "console" \in Faults

(* No task is left behind when the event loop is closed (runner.py:302,    *)
(* 2121), whichever of the ways the run ended.                             *)
NoOrphans == loop = "closed" => TasksOver /\ main \in MainEnds

(* With the request timeout of the HTTP client, every post returns.        *)
Served == \A u \in Users : WF_vars(Reply(u))

(* Every run whose requests all return reaches its exit code, the operator *)
(* pressing nothing.                                                       *)
Terminates == Served => <>(exit # Running)

(* A stop asked for by SIGINT or by the early abort takes effect even if   *)
(* the server never answers again.                                         *)
ShutdownTerminates == shutdown ~> exit # Running
=============================================================================
