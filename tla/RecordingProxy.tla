--------------------------- MODULE RecordingProxy ---------------------------
(***************************************************************************)
(* The recording proxy of clawperf/recorder.py: agents post through it to  *)
(* the upstream endpoint, and every round trip is appended to a JSONL      *)
(* file.  The agents and the upstream are the environment.                 *)
(*                                                                         *)
(* Definitions under a "Faulty" comment are not part of the model: each is *)
(* a mistake this code could contain, kept next to the definition it would *)
(* replace to show which property notices it.                              *)
(***************************************************************************)
EXTENDS Integers, Sequences, FiniteSets

CONSTANTS
    Agents,
    MaxTurns,    \* bound: turns of an agent
    MaxEntries,  \* bound: requests recorded and under way
    MaxFaults    \* bound: bad answers, agents giving up, restarts of the proxy

VARIABLES
    turn,      \* next turn of each agent
    awaited,   \* requests whose agent is waiting
    up, run,   \* the proxy, and how many times it has been started
    index,     \* _index: next index of this run
    requests,  \* requests forwarded upstream
    file,      \* the recording
    answers,   \* answers on their way to the agents
    delivered, \* requests whose answer reached its agent
    faults

proxyVars == <<up, run, index, requests, answers>>
vars == <<turn, awaited, proxyVars, file, delivered, faults>>

Runs == 1..MaxFaults + 1
Request == [agent : Agents, turn : 1..MaxTurns, run : Runs, index : 0..MaxEntries - 1]

(* The answer of the upstream: complete, an error status, a connection     *)
(* lost before or after the first chunk.                                   *)
Statuses == {"ok", "rejected", "broken", "truncated"}

(* A truncated answer is re-streamed as a complete one.                    *)
LooksComplete(status) == status \in {"ok", "truncated"}

Init ==
    /\ turn = [a \in Agents |-> 1] /\ awaited = {}
    /\ up = TRUE /\ run = 1 /\ index = 0 /\ requests = {}
    /\ file = <<>> /\ answers = {} /\ delivered = {} /\ faults = 0

Post(a) ==
    /\ up /\ turn[a] <= MaxTurns /\ Len(file) + Cardinality(requests) < MaxEntries
    /\ \A r \in awaited : r.agent # a
    /\ LET r == [agent |-> a, turn |-> turn[a], run |-> run, index |-> index]
       IN  requests' = requests \cup {r} /\ awaited' = awaited \cup {r}
    /\ index' = index + 1
    /\ UNCHANGED <<turn, up, run, file, answers, delivered, faults>>

(* Faulty: an error answer is passed on without an entry.                  *)
EntrySuccesses(r, status) ==
    file' = IF status = "ok" THEN Append(file, [request |-> r, status |-> status]) ELSE file

(* _record_entry: appended and flushed when the round trip is over.        *)
Entry(r, status) == file' = Append(file, [request |-> r, status |-> status])

Finish(r, status) ==
    /\ up /\ r \in requests
    /\ IF status = "ok" THEN UNCHANGED faults
       ELSE faults < MaxFaults /\ faults' = faults + 1
    /\ Entry(r, status)
    /\ requests' = requests \ {r}
    /\ answers' = answers \cup {[request |-> r, status |-> status]}
    /\ UNCHANGED <<turn, awaited, up, run, index, delivered>>

(* An agent repeats a turn that failed.                                    *)
Deliver(m) ==
    /\ m \in answers
    /\ answers' = answers \ {m}
    /\ IF m.request \in awaited
       THEN /\ awaited' = awaited \ {m.request}
            /\ delivered' = delivered \cup {m.request}
            /\ turn' = IF LooksComplete(m.status)
                       THEN [turn EXCEPT ![m.request.agent] = @ + 1] ELSE turn
       ELSE UNCHANGED <<awaited, delivered, turn>>
    /\ UNCHANGED <<up, run, index, requests, file, faults>>

(* An agent gives up; the proxy goes on with the request and records it.   *)
GiveUp(r) ==
    /\ r \in awaited /\ up /\ faults < MaxFaults
    /\ faults' = faults + 1
    /\ awaited' = awaited \ {r}
    /\ UNCHANGED <<turn, proxyVars, file, delivered>>

(* Ctrl+C, or the end of the process: what is under way is lost.           *)
Stop ==
    /\ up /\ up' = FALSE
    /\ requests' = {} /\ answers' = {} /\ awaited' = {}
    /\ UNCHANGED <<turn, run, index, file, delivered, faults>>

(* __init__: the file is opened for appending, the index starts over.      *)
Start ==
    /\ ~up /\ faults < MaxFaults /\ faults' = faults + 1
    /\ up' = TRUE /\ run' = run + 1 /\ index' = 0
    /\ UNCHANGED <<turn, awaited, requests, answers, file, delivered>>

Next ==
    \/ \E a \in Agents : Post(a)
    \/ \E r \in requests, s \in Statuses : Finish(r, s)
    \/ \E m \in answers : Deliver(m)
    \/ \E r \in awaited : GiveUp(r)
    \/ Stop \/ Start

Spec == Init /\ [][Next]_vars

-----------------------------------------------------------------------------
TypeOK ==
    /\ turn \in [Agents -> 1..MaxTurns + 1]
    /\ awaited \subseteq Request /\ requests \subseteq Request /\ delivered \subseteq Request
    /\ up \in BOOLEAN /\ run \in Runs /\ index \in 0..MaxEntries
    /\ \A i \in DOMAIN file : file[i] \in [request : Request, status : Statuses]
    /\ answers \subseteq [request : Request, status : Statuses]
    /\ faults \in 0..MaxFaults

Entries(r) == {i \in DOMAIN file : file[i].request = r}

(* Every answer an agent ever got is in the recording, once, also errors   *)
(* and across restarts of the proxy, and those of an agent are in the      *)
(* order of its turns ("every request/response pair").                     *)
DeliveredIsRecorded ==
    \A r \in delivered :
        /\ Cardinality(Entries(r)) = 1
        /\ \A s \in delivered : r.agent = s.agent /\ r.turn < s.turn =>
              \A i \in Entries(r), j \in Entries(s) : i < j
=============================================================================
