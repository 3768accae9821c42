---------------------------- MODULE ReplayPlayer ----------------------------
(***************************************************************************)
(* ReplayPlayer of clawperf/player.py: the entries of a recording or of a  *)
(* trace are sent to an endpoint, one after the other (live history), by   *)
(* session, or request by request.                                         *)
(*                                                                         *)
(* An entry is [user, agent, turn]: its messages are those of the agent's  *)
(* conversation up to that turn.  Definitions under a "Faulty" comment are *)
(* not part of the model: each is a mistake this code could contain, kept  *)
(* next to the definition it would replace to show which property notices  *)
(* it.                                                                     *)
(***************************************************************************)
EXTENDS Integers, Sequences, FiniteSets, SequencesExt

CONSTANTS
    Concurrency, \* --concurrency
    Absent, Null,\* user_id is missing, is null
    MaxFailures  \* bound: requests that fail

VARIABLES
    historyMode, openLoop, window, \* --history-mode, --request-rate > 0, active_users
    entries, \* what is replayed
    task,    \* where each request is
    free,    \* value of the semaphore in use
    results, \* in order of completion
    failures,
    saved,   \* the result file: a sequence of results, or not written
    exit     \* exit code of the command

vars == <<historyMode, openLoop, window, entries, task, free, results, failures, saved, exit>>

Items == DOMAIN entries
Running == -1
NotSaved == <<[item |-> 0, ok |-> FALSE, text |-> FALSE]>>

-----------------------------------------------------------------------------
(* Scheduling.                                                             *)
Sequential == historyMode = "live" /\ Concurrency <= 1

(* An entry without a user_id is a session of its own; a null is a value.  *)
Session(i) == <<entries[i].user, IF entries[i].user = Absent THEN i ELSE 0>>

SessionAware ==
    historyMode = "verbatim" /\ \E i \in Items : entries[i].user \notin {Absent, Null}

Fellows(i) == {j \in Items : Session(j) = Session(i)}
OpensSession(i) == \A j \in Fellows(i) : i <= j
EndsSession(i) == \A j \in Fellows(i) : j <= i

Over(S) == \A j \in S : task[j] = "over"
Begun(S) == \A j \in S : task[j] # "queued"

Slots(m, w, es) ==
    IF m = "verbatim" /\ \E i \in DOMAIN es : es[i].user \notin {Absent, Null}
    THEN IF w > 1 THEN w ELSE 1
    ELSE Concurrency

(* A new player, with what it is to replay.                                *)
Load(es, m, o, w) ==
    /\ historyMode' = m /\ openLoop' = o /\ window' = w
    /\ entries' = es
    /\ task' = [i \in DOMAIN es |-> "queued"]
    /\ free' = Slots(m, w, es)
    /\ results' = <<>> /\ failures' = 0 /\ saved' = NotSaved /\ exit' = Running

Frame == UNCHANGED <<historyMode, openLoop, window, entries, saved, exit>>

(* Sequential: one at a time, in the order of the entries.                 *)
SendNext(i) ==
    /\ Sequential /\ Over({j \in Items : j < i})
    /\ UNCHANGED free

(* Faulty: the requests of a session are sent without waiting.             *)
SendTurnAtOnce(i) ==
    /\ SessionAware
    /\ IF OpensSession(i)
       THEN free > 0 /\ free' = free - 1
       ELSE Begun({j \in Fellows(i) : j < i}) /\ UNCHANGED free

(* Sessions enter the window in the order of their first entries; within a *)
(* session, a turn waits for the answer to the one before.                 *)
SendTurn(i) ==
    /\ SessionAware
    /\ IF OpensSession(i)
       THEN /\ Begun({j \in Items : j < i /\ OpensSession(j)})
            /\ free > 0 /\ free' = free - 1
       ELSE Over({j \in Fellows(i) : j < i}) /\ UNCHANGED free

(* Request-level: as many as the semaphore lets through, or the limiter    *)
(* alone; both serve in order.                                             *)
SendAny(i) ==
    /\ ~Sequential /\ ~SessionAware /\ Begun({j \in Items : j < i})
    /\ IF openLoop THEN UNCHANGED free ELSE free > 0 /\ free' = free - 1

Send(i) ==
    /\ exit = Running /\ task[i] = "queued"
    /\ SendNext(i) \/ SendTurn(i) \/ SendAny(i)
    /\ task' = [task EXCEPT ![i] = "posting"]
    /\ UNCHANGED <<results, failures>> /\ Frame

(* Faulty: a request that fails keeps its slot.                            *)
ReleaseOnSuccess(i, ok) ==
    free' = IF ok /\ ((SessionAware /\ EndsSession(i)) \/ (~Sequential /\ ~SessionAware /\ ~openLoop))
            THEN free + 1 ELSE free

Release(i, ok) ==
    free' = IF (SessionAware /\ EndsSession(i)) \/ (~Sequential /\ ~SessionAware /\ ~openLoop)
            THEN free + 1 ELSE free

(* _send_request never raises; the text is empty in an answer of tool      *)
(* calls, which only live history tells apart.                             *)
Answer(i, ok, text) ==
    /\ exit = Running /\ task[i] = "posting"
    /\ IF ok THEN UNCHANGED failures
       ELSE ~text /\ failures < MaxFailures /\ failures' = failures + 1
    /\ historyMode = "verbatim" => text = ok
    /\ task' = [task EXCEPT ![i] = "over"]
    /\ results' = Append(results, [item |-> i, ok |-> ok, text |-> text])
    /\ Release(i, ok)
    /\ Frame

(* gather returns the results in the order of the requests.                *)
Report ==
    IF Sequential \/ SessionAware THEN results
    ELSE [i \in Items |-> results[CHOOSE k \in DOMAIN results : results[k].item = i]]

Succeeded == \E k \in DOMAIN results : results[k].ok

Save ==
    /\ exit = Running /\ Over(Items)
    /\ saved' = Report
    /\ exit' = IF Succeeded THEN 0 ELSE 2
    /\ UNCHANGED <<historyMode, openLoop, window, entries, task, free, results, failures>>

(* Ctrl+C: nothing is saved.                                               *)
Interrupt ==
    /\ exit = Running /\ exit' = 3
    /\ UNCHANGED <<historyMode, openLoop, window, entries, task, free, results, failures, saved>>

Step == (\E i \in Items : Send(i)) \/ Save
Answered(i) == \E ok, text \in BOOLEAN : Answer(i, ok, text)

Next == Step \/ (\E i \in Items : Answered(i)) \/ Interrupt

-----------------------------------------------------------------------------
(* What is sent.  A message is <<role, agent, turn>>; live answers are of  *)
(* the agent "live".                                                       *)
Messages(e) ==
    [k \in 1..2 * e.turn |->
        IF k = 1 THEN <<"system", e.agent, 0>>
        ELSE IF k % 2 = 0 THEN <<"user", e.agent, k \div 2>>
        ELSE <<"assistant", e.agent, k \div 2>>]

Live(k) == <<"assistant", "live", k>>

(* extract_new_client_messages: what follows the first Len(prev) messages, *)
(* without the assistant turns.                                            *)
NewClientMessages(prev, curr) ==
    LET new == IF Len(curr) > Len(prev) THEN SubSeq(curr, Len(prev) + 1, Len(curr)) ELSE <<>>
    IN  SelectSeq(new, LAMBDA m : m[1] # "assistant")

(* build_live_history: the k-th history of es; texts[k] tells whether the  *)
(* k-th live answer has a text.  An answer without one is never passed.    *)
BuildLiveHistory(es, texts, k) ==
    LET built[n \in 0..k] ==
            IF n = 0 THEN [history |-> <<>>, used |-> 0]
            ELSE LET prev == built[n - 1]
                     take == prev.used < Len(texts) /\ texts[prev.used + 1]
                 IN  [history |-> prev.history
                                    \o (IF take THEN <<Live(prev.used + 1)>> ELSE <<>>)
                                    \o NewClientMessages(prev.history, Messages(es[n])),
                      used |-> IF take THEN prev.used + 1 ELSE prev.used]
    IN  built[k].history

(* The body of request i.  When requests are sent one after the other, the *)
(* remaining histories are built anew after every answer.                  *)
Body(i) ==
    IF historyMode = "verbatim" THEN Messages(entries[i])
    ELSE IF ~Sequential \/ i = 1 THEN BuildLiveHistory(entries, <<>>, i)
    ELSE BuildLiveHistory(SubSeq(entries, i, Len(entries)),
                          [k \in 1..i - 1 |-> results[k].text], 1)

-----------------------------------------------------------------------------
TypeOK ==
    /\ historyMode \in {"live", "verbatim"} /\ openLoop \in BOOLEAN
    /\ task \in [Items -> {"queued", "posting", "over"}]
    /\ free \in 0..Slots(historyMode, window, entries)
    /\ \A k \in DOMAIN results : results[k] \in [item : Items, ok : BOOLEAN, text : BOOLEAN]
    /\ failures \in 0..MaxFailures
    /\ saved = NotSaved \/ Len(saved) <= Len(entries)
    /\ exit \in {Running, 0, 2, 3}

Sessions == {Session(i) : i \in Items}
Active(s) ==
    \E i \in Items : Session(i) = s /\ task[i] # "queued" /\ ~Over(Fellows(i))

(* "each session's turns in file order", "at most active_users sessions":  *)
(* a turn is sent after the answer to the session's turn before, in every  *)
(* interleaving, the window is never exceeded, and nobody waits while it   *)
(* has room.                                                               *)
SessionsKeepOrder ==
    SessionAware =>
        /\ \A i, j \in Items : Session(i) = Session(j) /\ i < j /\ task[j] # "queued" =>
              task[i] = "over"
        /\ Cardinality({s \in Sessions : Active(s)}) + free = Slots(historyMode, window, entries)

(* "ensures the KV-cache prefix matches between turns": when one           *)
(* conversation is replayed with live history, each request extends the    *)
(* one before and its live answer.                                         *)
LivePrefixKept ==
    Sequential =>
        \A i \in Items : i > 1 /\ task[i] # "queued" /\ results[i - 1].text =>
            IsPrefix(Append(Body(i - 1), Live(i - 1)), Body(i))
=============================================================================
