------------------------------ MODULE SloSweep ------------------------------
(***************************************************************************)
(* SLO mode: the sweep over concurrency levels of _run_slo, each level a   *)
(* step in which that many users work through their turns (_run_slo_step), *)
(* the verdict of a step, the report, and what SIGINT does to all of it.   *)
(*                                                                         *)
(* A latency sample is fast or slow; a constraint is met by a non-empty    *)
(* sample without slow ones (the max aggregate), which keeps what every    *)
(* aggregate has in common: no sample, no verdict in its favour.           *)
(*                                                                         *)
(* Definitions under a "Faulty" comment are not part of the model: each is *)
(* a mistake this code could contain, kept next to the definition it would *)
(* replace to show which property notices it.                              *)
(***************************************************************************)
EXTENDS Integers, FiniteSets

CONSTANTS
    MinUsers, MaxUsers,
    Geometric,     \* --slo-step-strategy: geometric rather than linear
    WarmupTurns, StepTurns,
    ErrorPercent,  \* --slo-error-rate in percent, NoLimit if it is not given
    Constrained,   \* at least one latency constraint is configured
    TaskFaults,    \* an exception may escape a user's turn
    Interrupts     \* the operator may press Ctrl+C

NoLimit == -1
NoLevel == -1

ASSUME SweepAssumption ==
    /\ MinUsers \in Nat /\ MaxUsers \in Nat
    /\ WarmupTurns \in Nat /\ StepTurns \in Nat
    /\ ErrorPercent \in 0..100 \cup {NoLimit}
    /\ Geometric \in BOOLEAN /\ Constrained \in BOOLEAN
    /\ TaskFaults \in BOOLEAN /\ Interrupts \in BOOLEAN

VARIABLES
    main,     \* where _run_slo is
    stage,    \* "ramp" or "refine"
    level,    \* users of the step under way or next
    lo, hi,   \* bounds of the binary search
    lastGood, firstBad,
    steps,    \* one record for each step judged so far
    task, turn, \* the users of the step under way
    tally,    \* its measured turns, by outcome
    timedOut, \* its wall-clock budget ran out
    raised,   \* one of its tasks ended in an exception, which gather returns
    shutdown, \* _shutdown: a SIGINT was delivered
    loop,     \* "open", "closing" after a second SIGINT, "closed"
    output    \* what --output holds: nothing, the sweep, or a scenario report

searchVars == <<stage, level, lo, hi, lastGood, firstBad, steps>>
stepVars == <<task, turn, tally, timedOut, raised>>
vars == <<main, searchVars, stepVars, shutdown, loop, output>>

Users == 0..MaxUsers - 1
TotalTurns == WarmupTurns + StepTurns
NoTally == [fast |-> 0, slow |-> 0, failed |-> 0]
Outcomes == {"fast", "slow", "failed"}

Init ==
    /\ main = IF MinUsers <= MaxUsers THEN "reset" ELSE "closeClient"
    /\ stage = "ramp" /\ level = MinUsers
    /\ lo = 0 /\ hi = 0
    /\ lastGood = NoLevel /\ firstBad = NoLevel /\ steps = {}
    /\ task = [u \in Users |-> "over"] /\ turn = [u \in Users |-> 1]
    /\ tally = NoTally /\ timedOut = FALSE /\ raised = FALSE
    /\ shutdown \in IF Interrupts THEN BOOLEAN ELSE {FALSE}
    /\ loop = "open" /\ output = "none"

(* A task that can run does so, in the order of creation, before anything  *)
(* else gets the event loop.                                               *)
Idle == \A u \in Users : task[u] # "ready"
Runs(u) == task[u] = "ready" /\ \A v \in Users : v < u => task[v] # "ready"
TasksOver == \A u \in Users : task[u] = "over"

-----------------------------------------------------------------------------
(* The caches are reset and the users of the step are started, each with a *)
(* fresh context.                                                          *)
StartStep ==
    /\ main = "reset" /\ loop = "open"
    /\ main' = "step"
    /\ task' = [u \in Users |-> IF u < level THEN "ready" ELSE "over"]
    /\ turn' = [u \in Users |-> 1]
    /\ tally' = NoTally /\ timedOut' = FALSE /\ raised' = FALSE
    /\ UNCHANGED <<searchVars, shutdown, loop, output>>

UserFrame == UNCHANGED <<main, searchVars, timedOut, shutdown, loop, output>>

(* Faulty: warm-up turns are measured as well.                             *)
CountEveryTurn(u, o) == [tally EXCEPT ![o] = @ + 1]

Counted(u, o) == IF turn[u] > WarmupTurns THEN [tally EXCEPT ![o] = @ + 1] ELSE tally

LeaveLoop(u) ==
    /\ Runs(u)
    /\ shutdown \/ turn[u] > TotalTurns
    /\ task' = [task EXCEPT ![u] = "over"]
    /\ UNCHANGED <<turn, tally, raised>> /\ UserFrame

InTurn(u) == Runs(u) /\ ~shutdown /\ turn[u] <= TotalTurns

(* context_overflow or build_request_failed: a failed turn, without        *)
(* suspending.                                                             *)
Unsent(u) ==
    /\ InTurn(u)
    /\ turn' = [turn EXCEPT ![u] = @ + 1]
    /\ tally' = Counted(u, "failed")
    /\ UNCHANGED <<task, raised>> /\ UserFrame

Send(u) ==
    /\ InTurn(u)
    /\ task' = [task EXCEPT ![u] = "posting"]
    /\ UNCHANGED <<turn, tally, raised>> /\ UserFrame

Reply(u) ==
    /\ task[u] = "posting" /\ Idle
    /\ \E o \in Outcomes : tally' = Counted(u, o)
    /\ turn' = [turn EXCEPT ![u] = @ + 1]
    /\ task' = [task EXCEPT ![u] = "ready"]
    /\ UNCHANGED raised /\ UserFrame

(* There is no try block: the exception ends the task, and gather returns  *)
(* it as a result nobody looks at.                                         *)
Raise(u) ==
    /\ TaskFaults /\ task[u] = "posting" /\ Idle
    /\ task' = [task EXCEPT ![u] = "over"]
    /\ raised' = TRUE
    /\ UNCHANGED <<turn, tally>> /\ UserFrame

Cancelled(u) ==
    /\ task[u] = "cancelling" /\ Idle
    /\ task' = [task EXCEPT ![u] = "over"]
    /\ UNCHANGED <<turn, tally, raised>> /\ UserFrame

(* Faulty: the timer is noted and the tasks are left to finish.            *)
TimeoutNoted ==
    /\ main = "step" /\ loop = "open" /\ Idle /\ ~timedOut
    /\ timedOut' = TRUE
    /\ UNCHANGED <<main, searchVars, task, turn, tally, raised, shutdown, loop, output>>

(* wait_for's timer: the gather is cancelled and its children with it.     *)
Timeout ==
    /\ main = "step" /\ loop = "open" /\ Idle /\ ~timedOut
    /\ timedOut' = TRUE
    /\ task' = [u \in Users |-> IF task[u] = "posting" THEN "cancelling" ELSE task[u]]
    /\ UNCHANGED <<main, searchVars, turn, tally, raised, shutdown, loop, output>>

-----------------------------------------------------------------------------
(* The verdict of _slo_verdict on a step's measured turns.                 *)
Total(t) == t.fast + t.slow + t.failed

(* The error rate of a step without measured turns is 1.                   *)
ErrorsAllowed(t) ==
    ErrorPercent = NoLimit \/
    IF Total(t) = 0 THEN ErrorPercent = 100 ELSE t.failed * 100 <= ErrorPercent * Total(t)

ConstraintsMet(t) == Constrained => t.fast > 0 /\ t.slow = 0

Met == ~timedOut /\ ConstraintsMet(tally) /\ ErrorsAllowed(tally)

NextN(n) == IF Geometric /\ 2 * n > n + 1 THEN 2 * n ELSE n + 1

GoTo(n) == level' = n /\ main' = "reset"
StopSweep == main' = "closeClient" /\ UNCHANGED level

RampMet ==
    /\ lastGood' = level /\ UNCHANGED <<firstBad, stage, lo, hi>>
    /\ IF NextN(level) <= MaxUsers THEN GoTo(NextN(level)) ELSE StopSweep

(* Faulty: the search starts at the level that is known to be good.        *)
RefineFromLastGood ==
    /\ firstBad' = level /\ UNCHANGED lastGood
    /\ IF lastGood # NoLevel /\ level - lastGood > 1
       THEN /\ stage' = "refine" /\ lo' = lastGood /\ hi' = level - 1
            /\ GoTo((lo' + hi') \div 2)
       ELSE StopSweep /\ UNCHANGED <<stage, lo, hi>>

RampBroken ==
    /\ firstBad' = level /\ UNCHANGED lastGood
    /\ IF lastGood # NoLevel /\ level - lastGood > 1
       THEN /\ stage' = "refine" /\ lo' = lastGood + 1 /\ hi' = level - 1
            /\ GoTo((lo' + hi') \div 2)
       ELSE StopSweep /\ UNCHANGED <<stage, lo, hi>>

(* Faulty: the last candidate of the interval is left out.                 *)
RefineStopsEarly(met) ==
    /\ lastGood' = IF met THEN level ELSE lastGood
    /\ lo' = IF met THEN level + 1 ELSE lo
    /\ hi' = IF met THEN hi ELSE level - 1
    /\ IF lo' < hi' THEN GoTo((lo' + hi') \div 2) ELSE StopSweep
    /\ UNCHANGED <<firstBad, stage>>

RefineStep(met) ==
    /\ lastGood' = IF met THEN level ELSE lastGood
    /\ lo' = IF met THEN level + 1 ELSE lo
    /\ hi' = IF met THEN hi ELSE level - 1
    /\ IF lo' <= hi' THEN GoTo((lo' + hi') \div 2) ELSE StopSweep
    /\ UNCHANGED <<firstBad, stage>>

(* What the sweep and its report read of a step.                           *)
StepRecord == [n |-> level, met |-> Met]

JudgeFrame == UNCHANGED <<stepVars, shutdown, loop, output>>

(* Faulty: after a timeout the cancelled tasks are not waited for.         *)
JudgeAtOnce ==
    /\ main = "step" /\ loop = "open" /\ Idle /\ (TasksOver \/ timedOut)
    /\ steps' = steps \cup {StepRecord}
    /\ IF stage = "refine" THEN RefineStep(Met) ELSE IF Met THEN RampMet ELSE RampBroken
    /\ JudgeFrame

Judge ==
    /\ main = "step" /\ loop = "open" /\ TasksOver
    /\ steps' = steps \cup {StepRecord}
    /\ IF stage = "refine" THEN RefineStep(Met) ELSE IF Met THEN RampMet ELSE RampBroken
    /\ JudgeFrame

Reported == IF lastGood = NoLevel THEN 0 ELSE lastGood

(* _finalize_slo, after closing the client.                                *)
Finalize ==
    /\ main = "closeClient" /\ loop = "open"
    /\ main' = "finished"
    /\ output' = "sweep"
    /\ UNCHANGED <<searchVars, stepVars, shutdown, loop>>

-----------------------------------------------------------------------------
(* SIGINT: _user_tasks is empty in this mode, so the first one only sets   *)
(* the flag; the second leaves asyncio.run with a KeyboardInterrupt, and   *)
(* the tasks are cancelled.                                                *)
Sigint ==
    /\ Interrupts /\ loop = "open" /\ Idle /\ main # "finished"
    /\ shutdown' = TRUE
    /\ IF shutdown
       THEN /\ loop' = "closing"
            /\ task' = [u \in Users |-> IF task[u] = "posting" THEN "cancelling" ELSE task[u]]
       ELSE UNCHANGED <<loop, task>>
    /\ UNCHANGED <<main, searchVars, turn, tally, timedOut, raised, output>>

LoopDrained ==
    /\ loop = "closing" /\ TasksOver
    /\ loop' = "closed" /\ main' = "cancelled"
    /\ UNCHANGED <<searchVars, stepVars, shutdown, output>>

(* shutdown_and_save finalises as in scenario mode, whatever the mode: the *)
(* steps are a local variable of the coroutine that was cancelled.         *)
ShutdownAndSave ==
    /\ loop = "closed" /\ output = "none"
    /\ output' = "scenario"
    /\ UNCHANGED <<main, searchVars, stepVars, shutdown, loop>>

Ended == output # "none" /\ UNCHANGED vars

Turn(u) == LeaveLoop(u) \/ Unsent(u) \/ Send(u) \/ Cancelled(u)
MainStep == StartStep \/ Judge \/ Finalize

Next ==
    \/ MainStep \/ Timeout
    \/ \E u \in Users : Turn(u) \/ Reply(u) \/ Raise(u)
    \/ Sigint \/ LoopDrained \/ ShutdownAndSave \/ Ended

Spec == Init /\ [][Next]_vars

(* The loop runs what is ready and its timers fire; the server owes        *)
(* nothing.                                                                *)
Scheduling ==
    /\ WF_vars(MainStep) /\ WF_vars(Timeout) /\ \A u \in Users : WF_vars(Turn(u))
    /\ WF_vars(LoopDrained) /\ WF_vars(ShutdownAndSave)

FairSpec == Spec /\ Scheduling

-----------------------------------------------------------------------------
Levels == MinUsers..MaxUsers

TypeOK ==
    /\ main \in {"reset", "step", "closeClient", "finished", "cancelled"}
    /\ stage \in {"ramp", "refine"}
    /\ level \in Levels \cup {MinUsers}
    /\ lo \in Int /\ hi \in Int
    /\ lastGood \in Levels \cup {NoLevel} /\ firstBad \in Levels \cup {NoLevel}
    /\ steps \subseteq [n : Levels, met : BOOLEAN]
    /\ task \in [Users -> {"ready", "posting", "cancelling", "over"}]
    /\ turn \in [Users -> 1..TotalTurns + 1]
    /\ tally \in [Outcomes -> Nat]
    /\ timedOut \in BOOLEAN /\ raised \in BOOLEAN /\ shutdown \in BOOLEAN
    /\ loop \in {"open", "closing", "closed"}
    /\ output \in {"none", "sweep", "scenario"}

Tested == {s.n : s \in steps}
Good == {s.n : s \in {t \in steps : t.met}}
Bad == {s.n : s \in {t \in steps : ~t.met}}
SweepOver == main \in {"closeClient", "finished"}

(* The report of a sweep that saw a level fail is a knee of what was       *)
(* measured, however irregular the verdicts: the reported level passed,    *)
(* the one above it failed and no higher one passed.  If none passed, the  *)
(* first one failed.                                                       *)
KneeIsSharp ==
    SweepOver /\ Bad # {} =>
        /\ lastGood # NoLevel => lastGood \in Good /\ lastGood + 1 \in Bad
        /\ lastGood = NoLevel => Good = {} /\ MinUsers \in Bad
        /\ \A n \in Good : n <= Reported

(* A level is measured once: the refinement never goes back to a level     *)
(* the ramp has tried, nor out of the interval the ramp left open.         *)
TestedOnce == main \in {"reset", "step"} => level \in Levels \ Tested

(* Nothing of a step outlives it: between two levels no request of the     *)
(* first is under way, timed out or not, and a step has at most its own    *)
(* users.                                                                  *)
StepsDoNotOverlap ==
    \A u \in Users : task[u] # "over" => main = "step" /\ u < level

(* A level that passed was measured in full: every measured turn of every  *)
(* one of its users is in the sample, and only those.  A step cut by the   *)
(* shutdown flag, or one with a task that raised, has no such guarantee:   *)
(* the code judges it on whatever turns it recorded.                       *)
PassedOnFullSample ==
    [][\A s \in steps' \ steps :
          s.met /\ ~shutdown /\ ~raised => Total(tally) = s.n * StepTurns]_vars

(* The sweep ends even if the server stops answering: the wall-clock       *)
(* budget of each step is enough.                                          *)
SweepEnds == <>(output # "none")
=============================================================================
