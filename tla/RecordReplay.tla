---------------------------- MODULE RecordReplay ----------------------------
(***************************************************************************)
(* The life of a recording: sessions of agents recorded by --mode record,  *)
(* then replayed by --mode replay; or a trace replayed by --mode trace.    *)
(* The commands share the file and nothing else.                           *)
(***************************************************************************)
EXTENDS Integers, Sequences, FiniteSets

CONSTANTS
    Agents, MaxTurns, MaxEntries, MaxFaults,
    Concurrency, Absent, Null, MaxFailures,
    Traces,     \* traces that --mode trace may be given, their entries with a mark: fits
    ActiveUsers \* --trace-users

(* For both parts; they are instantiated here and nowhere else.            *)
ASSUME RecordReplayAssumption ==
    /\ IsFiniteSet(Agents)
    /\ MaxTurns \in Nat \ {0} /\ MaxEntries \in Nat /\ MaxFaults \in Nat
    /\ Concurrency \in Nat \ {0} /\ MaxFailures \in Nat /\ ActiveUsers \in Nat
    /\ \A t \in Traces : IsFiniteSet(DOMAIN t)

VARIABLES
    turn, awaited, up, run, index, requests, file, answers, delivered, faults,
    historyMode, openLoop, window, entries, task, free, results, failures, saved, exit,
    source \* what is being replayed

R == INSTANCE RecordingProxy
P == INSTANCE ReplayPlayer

recorderVars == <<turn, awaited, up, run, index, requests, file, answers, delivered, faults>>
playerVars == <<historyMode, openLoop, window, entries, task, free, results, failures, saved, exit>>
vars == <<recorderVars, playerVars, source>>

Init ==
    /\ R!Init
    /\ historyMode = "live" /\ openLoop = FALSE /\ window = 1
    /\ entries = <<>> /\ task = <<>> /\ free = Concurrency /\ results = <<>>
    /\ failures = 0 /\ saved = P!NotSaved /\ exit = P!Running
    /\ source = "none"

Record == source = "none" /\ R!Next /\ UNCHANGED <<playerVars, source>>

(* The recorder writes no user_id, and --mode replay passes no window.     *)
Recorded ==
    [i \in DOMAIN file |-> [user |-> Absent, agent |-> file[i].request.agent,
                            turn |-> file[i].request.turn]]

Replay ==
    /\ source = "none" /\ ~up
    /\ \E m \in {"live", "verbatim"}, o \in BOOLEAN : P!Load(Recorded, m, o, 1)
    /\ source' = "recording" /\ UNCHANGED recorderVars

(* What is left of a trace when the requests are set aside whose input     *)
(* alone does not fit the context window.                                  *)
Fitting(t) ==
    LET kept == {i \in DOMAIN t : t[i].fits}
    IN  [k \in 1..Cardinality(kept) |->
            t[CHOOSE i \in kept : Cardinality({j \in kept : j <= i}) = k]]

(* replay_trace_requests: verbatim, with --trace-users sessions at a time. *)
ReplayTrace ==
    /\ source = "none" /\ index = 0 /\ run = 1 /\ up
    /\ \E t \in Traces, o \in BOOLEAN : P!Load(Fitting(t), "verbatim", o, ActiveUsers)
    /\ source' = "trace" /\ UNCHANGED recorderVars

Play == source # "none" /\ P!Next /\ UNCHANGED <<recorderVars, source>>

Over == exit # P!Running /\ UNCHANGED vars

Next == Record \/ Replay \/ ReplayTrace \/ Play \/ Over

Spec == Init /\ [][Next]_vars

(* The player's tasks run, and every request ends by its timeout.          *)
PlayerStep == source # "none" /\ P!Step /\ UNCHANGED <<recorderVars, source>>
PlayerAnswer == source # "none" /\ (\E i \in P!Items : P!Answered(i)) /\ UNCHANGED <<recorderVars, source>>

FairSpec == Spec /\ WF_vars(PlayerStep) /\ WF_vars(PlayerAnswer)

-----------------------------------------------------------------------------
TypeOK == R!TypeOK /\ P!TypeOK /\ source \in {"none", "recording", "trace"}

SessionsKeepOrder == source # "none" => P!SessionsKeepOrder

(* What an agent was answered is replayed: when a replay has written its   *)
(* results, every delivered answer of the recording has exactly one, over  *)
(* errors, restarts, agents that gave up, and every way to schedule the    *)
(* replay; and in the recording an agent's answers are in order.           *)
AnsweredIsReplayed ==
    /\ R!DeliveredIsRecorded
    /\ source = "recording" /\ saved # P!NotSaved =>
          \A r \in delivered :
              Cardinality({k \in DOMAIN saved : file[saved[k].item].request = r}) = 1

(* Every replay ends.                                                      *)
ReplayEnds == source # "none" ~> exit # P!Running

(* One conversation, recorded without faults.                              *)
LivePrefixKept == source = "recording" => P!LivePrefixKept
=============================================================================
