----------------------------- MODULE HitRateRun -----------------------------
(***************************************************************************)
(* Hit-rate mode (_run_hitrate): reset the engines' prefix caches, inject  *)
(* every distinct prefix, snapshot the engines' counters, fire the         *)
(* measured requests, snapshot again, and report the hit rate of the       *)
(* difference.  The engines behind the endpoint and their Prometheus pages *)
(* are the environment: requests are counted when the engine sees them, a  *)
(* page may not answer, an engine may restart with empty cache and         *)
(* counters.                                                               *)
(*                                                                         *)
(* Definitions under a "Faulty" comment are not part of the model: each is *)
(* a mistake this code could contain, kept next to the definition it would *)
(* replace to show which property notices it.                              *)
(***************************************************************************)
EXTENDS Integers, FiniteSets, Functions

CONSTANTS
    NumRequests, PrefixNum, Concurrency,
    PrefixTokens, SuffixTokens, \* SuffixTokens includes the boundary tokens
    MaxConsecutiveFailures,
    Engines,     \* each has a metrics page
    Deployments, \* sets of engines the endpoint may forward to
    MaxFailures, \* bound: requests that fail
    MaxRestarts, \* bound: restarts of engines
    MaxSigints   \* bound: how many times the operator presses Ctrl+C

ASSUME HitRateAssumption ==
    /\ PrefixNum \in 1..NumRequests /\ NumRequests \in Nat /\ Concurrency \in Nat \ {0}
    /\ PrefixTokens \in Nat \ {0} /\ SuffixTokens \in Nat \ {0}
    /\ MaxConsecutiveFailures \in Nat
    /\ IsFiniteSet(Engines) /\ Deployments \subseteq SUBSET Engines \ {{}}
    /\ MaxFailures \in Nat /\ MaxRestarts \in Nat /\ MaxSigints \in Nat

VARIABLES
    openLoop,  \* --request-rate is positive
    prefill,   \* --no-prefill was not given
    prefixOf,  \* prefix of each measured request, in sending order
    serving,   \* engines the endpoint forwards to
    main,      \* where the main task is
    task,      \* the requests of the phase under way
    free,      \* value of the phase's semaphore
    outcome,   \* records of the measured requests
    consecutive, shutdown, sigints,
    failures,  \* requests that failed, injections included
    abandoned, \* requests the client gave up on and the engine has yet to see
    engine,    \* cache and counters of each engine
    start, end, \* metrics snapshots
    hits,      \* hit tokens of the measured requests
    loop, output, exit

configVars == <<openLoop, prefill, prefixOf, serving>>
phaseVars == <<task, free, outcome, consecutive, shutdown>>
engineVars == <<abandoned, engine, hits>>
endVars == <<loop, output, exit>>
vars == <<configVars, main, phaseVars, sigints, failures, engineVars, start, end, endVars>>

Jobs == 0..NumRequests - 1
Prefixes == 0..PrefixNum - 1
Running == -1
Unread == [answer |-> "pending", queries |-> 0, hits |-> 0, restarts |-> 0]
NoAnswer == [Unread EXCEPT !.answer = "none"]

Cold(cached) == [cached |-> cached, queries |-> 0, hits |-> 0, restarts |-> 0]

(* prefixes[i % prefix_num] for the requests, shuffled; the caches may     *)
(* still hold the prefixes of an earlier run with the same seed.           *)
Init ==
    /\ openLoop \in BOOLEAN /\ prefill \in BOOLEAN
    /\ prefixOf \in {f \in [Jobs -> Prefixes] : \A p \in Prefixes :
                        Cardinality({j \in Jobs : f[j] = p})
                          = Cardinality({j \in Jobs : j % PrefixNum = p})}
    /\ serving \in Deployments
    /\ main = "reset"
    /\ task = [j \in Jobs |-> "over"] /\ free = Concurrency
    /\ outcome = [j \in Jobs |-> "none"]
    /\ consecutive = 0 /\ shutdown = FALSE /\ sigints = 0 /\ failures = 0
    /\ abandoned = {} /\ hits = 0
    /\ engine \in {[e \in Engines |-> Cold(c)] : c \in {{}, Prefixes}}
    /\ start = [e \in Engines |-> Unread] /\ end = [e \in Engines |-> Unread]
    /\ loop = "open" /\ output = "none" /\ exit = Running

-----------------------------------------------------------------------------
(* The main task.                                                          *)
Gathering == {"prefill", "measure"}
TasksOver == \A j \in Jobs : task[j] = "over"
MainFrame == UNCHANGED <<configVars, outcome, consecutive, shutdown, sigints, failures,
                         abandoned, hits, loop, output, exit>>

(* Each engine's reset endpoint answers, or only warns.  Then the phase's  *)
(* tasks are created, all at once.                                         *)
ResetCaches ==
    /\ main = "reset" /\ loop = "open"
    /\ \E done \in SUBSET Engines :
          engine' = [e \in Engines |-> IF e \in done THEN [engine[e] EXCEPT !.cached = {}]
                                                     ELSE engine[e]]
    /\ IF prefill
       THEN /\ main' = "prefill"
            /\ task' = [j \in Jobs |-> IF j < PrefixNum THEN "queued" ELSE "over"]
       ELSE main' = "startSnapshot" /\ UNCHANGED task
    /\ UNCHANGED <<free, start, end>> /\ MainFrame

(* Faulty: the injections are started and not waited for.                  *)
PrefillStarted ==
    /\ main = "prefill" /\ loop = "open"
    /\ main' = "startSnapshot"
    /\ task' = [j \in Jobs |-> "over"] /\ free' = Concurrency
    /\ abandoned' = abandoned \cup {<<j, FALSE>> : j \in {i \in Jobs : task[i] = "posting"}}
    /\ UNCHANGED <<configVars, outcome, consecutive, shutdown, sigints, failures, hits,
                   engine, start, end, endVars>>

PrefillDone ==
    /\ main = "prefill" /\ loop = "open" /\ TasksOver
    /\ main' = "startSnapshot"
    /\ UNCHANGED <<task, free, engine, start, end>> /\ MainFrame

Reading(e) == [answer |-> "read", queries |-> engine[e].queries, hits |-> engine[e].hits,
               restarts |-> engine[e].restarts]

(* _poll_once: the pages are fetched concurrently, so each is read at a    *)
(* moment of its own; a page that does not answer is left out.             *)
FetchStart(e) ==
    /\ main = "startSnapshot" /\ loop = "open" /\ start[e] = Unread
    /\ \E r \in {NoAnswer, Reading(e)} : start' = [start EXCEPT ![e] = r]
    /\ UNCHANGED <<main, task, free, engine, end>> /\ MainFrame

(* The semaphore of this phase is a new one.                               *)
StartMeasuring ==
    /\ main = "startSnapshot" /\ loop = "open"
    /\ \A e \in Engines : start[e] # Unread
    /\ main' = "measure"
    /\ task' = [j \in Jobs |-> "queued"] /\ free' = Concurrency
    /\ UNCHANGED <<engine, start, end>> /\ MainFrame

(* Faulty: the phase ends with its first failure.                          *)
MeasuredInPart ==
    /\ main = "measure" /\ loop = "open" /\ (TasksOver \/ failures > 0)
    /\ main' = "endSnapshot"
    /\ UNCHANGED <<task, free, engine, start, end>> /\ MainFrame

Measured ==
    /\ main = "measure" /\ loop = "open" /\ TasksOver
    /\ main' = "endSnapshot"
    /\ UNCHANGED <<task, free, engine, start, end>> /\ MainFrame

FetchEnd(e) ==
    /\ main = "endSnapshot" /\ loop = "open" /\ end[e] = Unread
    /\ \E r \in {NoAnswer, Reading(e)} : end' = [end EXCEPT ![e] = r]
    /\ UNCHANGED <<main, task, free, engine, start>> /\ MainFrame

Finalize ==
    /\ main = "endSnapshot" /\ loop = "open"
    /\ \A e \in Engines : end[e] # Unread
    /\ main' = "finished" /\ output' = "hitrate"
    /\ UNCHANGED <<configVars, phaseVars, sigints, failures, engineVars, start, end,
                   loop, exit>>

-----------------------------------------------------------------------------
(* One request of either phase: _one.                                      *)
Prefix(j) == IF main = "prefill" THEN j ELSE prefixOf[j]
TaskFrame == UNCHANGED <<configVars, main, sigints, start, end, endVars>>

Unpaced == openLoop /\ main = "measure"
First(j) == task[j] = "queued" /\ \A i \in Jobs : i < j => task[i] # "queued"

(* The semaphore and the rate limiter both serve in the order of creation. *)
Acquire(j) == IF Unpaced THEN UNCHANGED free ELSE free > 0 /\ free' = free - 1

Send(j) ==
    /\ main \in Gathering /\ loop = "open" /\ First(j)
    /\ Acquire(j)
    /\ task' = [task EXCEPT ![j] = "posting"]
    /\ UNCHANGED <<outcome, consecutive, shutdown, failures, engineVars>> /\ TaskFrame

(* The engine looks the prompt up, counts it and keeps its prefix.  An     *)
(* injection consists of the prefix alone.                                 *)
Seen(e, p, measured) ==
    LET found == IF p \in engine[e].cached THEN PrefixTokens ELSE 0
        asked == IF measured THEN PrefixTokens + SuffixTokens ELSE PrefixTokens
    IN  /\ engine' = [engine EXCEPT ![e] =
                [cached |-> @.cached \cup {p}, queries |-> @.queries + asked,
                 hits |-> @.hits + found, restarts |-> @.restarts]]
        /\ hits' = IF measured THEN hits + found ELSE hits

Serve(j, e) ==
    /\ task[j] = "posting" /\ e \in serving /\ loop = "open"
    /\ Seen(e, Prefix(j), main = "measure")
    /\ task' = [task EXCEPT ![j] = "served"]
    /\ UNCHANGED <<free, outcome, consecutive, shutdown, failures, abandoned>> /\ TaskFrame

(* Faulty: the slot is given back only by a request that succeeds.         *)
ReleaseOnSuccess(ok) == free' = IF Unpaced \/ ~ok THEN free ELSE free + 1

Release(ok) == free' = IF Unpaced THEN free ELSE free + 1

(* Injections are not recorded.  The failure threshold sets the flag, but  *)
(* _user_tasks is empty in this mode and nothing in it reads the flag.     *)
Recorded(j, ok) ==
    IF main = "prefill" THEN UNCHANGED <<outcome, consecutive, shutdown>>
    ELSE /\ outcome' = [outcome EXCEPT ![j] = IF ok THEN "ok" ELSE "failed"]
         /\ consecutive' = IF ok THEN 0 ELSE consecutive + 1
         /\ shutdown' = (shutdown \/ (MaxConsecutiveFailures > 0
                                      /\ consecutive' >= MaxConsecutiveFailures))

Success(j) ==
    /\ task[j] = "served" /\ loop = "open"
    /\ Recorded(j, TRUE) /\ Release(TRUE)
    /\ task' = [task EXCEPT ![j] = "over"]
    /\ UNCHANGED <<failures, engineVars>> /\ TaskFrame

(* An error answer, a lost connection or a timeout: the engine may not     *)
(* have looked at the request yet.                                         *)
Failure(j) ==
    /\ task[j] \in {"posting", "served"} /\ loop = "open" /\ failures < MaxFailures
    /\ failures' = failures + 1
    /\ Recorded(j, FALSE) /\ Release(FALSE)
    /\ task' = [task EXCEPT ![j] = "over"]
    /\ \/ UNCHANGED abandoned
       \/ /\ task[j] = "posting"
          /\ abandoned' = abandoned \cup {<<Prefix(j), main = "measure">>}
    /\ UNCHANGED <<engine, hits>> /\ TaskFrame

(* An exception of a measured request is that of the gather and of run():  *)
(* the other requests are cancelled with the loop and nothing is saved.    *)
(* One of an injection is only logged (Failure).                           *)
Crash(j) ==
    /\ main = "measure" /\ task[j] \in {"posting", "served"} /\ loop = "open"
    /\ failures < MaxFailures /\ failures' = failures + 1
    /\ main' = "crashed" /\ loop' = "closed" /\ exit' = 1
    /\ task' = [i \in Jobs |-> "over"]
    /\ UNCHANGED <<configVars, free, outcome, consecutive, shutdown, sigints, engineVars,
                   start, end, output>>

(* build_request returned no body: an injection is skipped, a measured     *)
(* request is recorded as failed.                                          *)
BuildFailed(j) ==
    /\ main \in Gathering /\ loop = "open" /\ First(j)
    /\ Unpaced \/ free > 0
    /\ failures < MaxFailures /\ failures' = failures + 1
    /\ Recorded(j, FALSE)
    /\ task' = [task EXCEPT ![j] = "over"]
    /\ UNCHANGED <<free, engineVars>> /\ TaskFrame

-----------------------------------------------------------------------------
(* The engines on their own, as long as somebody looks.                    *)
EngineFrame == UNCHANGED <<configVars, main, phaseVars, sigints, failures, start, end, endVars>>

ServeAbandoned(e) ==
    /\ e \in serving /\ loop = "open"
    /\ \E a \in abandoned : Seen(e, a[1], a[2]) /\ abandoned' = abandoned \ {a}
    /\ EngineFrame

Restarts == SumFunction([e \in Engines |-> engine[e].restarts])

Restart(e) ==
    /\ e \in serving /\ loop = "open" /\ Restarts < MaxRestarts
    /\ engine' = [engine EXCEPT ![e] = [Cold({}) EXCEPT !.restarts = engine[e].restarts + 1]]
    /\ UNCHANGED <<abandoned, hits>> /\ EngineFrame

-----------------------------------------------------------------------------
(* SIGINT and the command line.  The first SIGINT only raises the flag,    *)
(* and so does the failure threshold.                                      *)
Sigint ==
    /\ loop = "open" /\ main # "finished" /\ ~shutdown /\ sigints < MaxSigints
    /\ sigints' = sigints + 1 /\ shutdown' = TRUE
    /\ UNCHANGED <<configVars, main, task, free, outcome, consecutive, failures,
                   engineVars, start, end, endVars>>

(* A SIGINT that finds the flag raised leaves asyncio.run, which cancels   *)
(* everything, and shutdown_and_save finalises a scenario without turns.   *)
ForcedExit ==
    /\ loop = "open" /\ main # "finished" /\ shutdown /\ sigints < MaxSigints
    /\ sigints' = sigints + 1
    /\ main' = "cancelled" /\ task' = [j \in Jobs |-> "over"]
    /\ loop' = "closed" /\ output' = "scenario" /\ exit' = 3
    /\ UNCHANGED <<configVars, free, outcome, consecutive, shutdown, failures,
                   engineVars, start, end>>

AllFailed == \A j \in Jobs : outcome[j] # "ok"

CliExit ==
    /\ loop = "open" /\ main = "finished"
    /\ loop' = "closed"
    /\ exit' = IF AllFailed THEN 2 ELSE 0
    /\ UNCHANGED <<configVars, main, phaseVars, sigints, failures, engineVars, start, end, output>>

Ended == exit # Running /\ UNCHANGED vars

MainStep ==
    \/ ResetCaches \/ PrefillDone \/ StartMeasuring \/ Measured \/ Finalize
    \/ \E e \in Engines : FetchStart(e) \/ FetchEnd(e)

Next ==
    \/ MainStep
    \/ \E j \in Jobs : Send(j) \/ Success(j) \/ Failure(j) \/ Crash(j) \/ BuildFailed(j)
    \/ \E j \in Jobs, e \in Engines : Serve(j, e)
    \/ \E e \in Engines : ServeAbandoned(e) \/ Restart(e)
    \/ Sigint \/ ForcedExit \/ CliExit \/ Ended

Spec == Init /\ [][Next]_vars

(* The loop runs what is ready, and with the client's timeout every post   *)
(* returns.                                                                *)
Scheduling ==
    /\ WF_vars(MainStep) /\ WF_vars(CliExit)
    /\ \A j \in Jobs : /\ WF_vars(Send(j))
                       /\ WF_vars(Success(j) \/ Failure(j) \/ \E e \in Engines : Serve(j, e))

FairSpec == Spec /\ Scheduling

-----------------------------------------------------------------------------
(* What the report says: merge_endpoint_samples and                        *)
(* compute_prefix_cache_delta.  A snapshot is None if no page answered.    *)
Answered(s) == {e \in Engines : s[e].answer = "read"}
None(s) == Answered(s) = {}
Queries(s) == SumFunction([e \in Answered(s) |-> s[e].queries])
Hits(s) == SumFunction([e \in Answered(s) |-> s[e].hits])

QueryDelta == Queries(end) - Queries(start)
HitDelta == Hits(end) - Hits(start)

(* A rate is reported unless a counter went backwards or nothing was       *)
(* queried.                                                                *)
RateReported ==
    ~None(start) /\ ~None(end) /\ QueryDelta > 0 /\ HitDelta >= 0

-----------------------------------------------------------------------------
TypeOK ==
    /\ openLoop \in BOOLEAN /\ prefill \in BOOLEAN /\ prefixOf \in [Jobs -> Prefixes]
    /\ serving \in Deployments
    /\ main \in Gathering \cup {"reset", "startSnapshot", "endSnapshot", "finished", "cancelled", "crashed"}
    /\ task \in [Jobs -> {"over", "queued", "posting", "served"}]
    /\ free \in 0..Concurrency
    /\ outcome \in [Jobs -> {"none", "ok", "failed"}]
    /\ consecutive \in 0..NumRequests /\ shutdown \in BOOLEAN
    /\ sigints \in 0..MaxSigints /\ failures \in 0..MaxFailures
    /\ abandoned \subseteq Prefixes \X BOOLEAN
    /\ hits \in Nat
    /\ \A s \in {start, end} : \A e \in Engines :
          s[e].answer \in {"pending", "none", "read"} /\ s[e].hits \in 0..s[e].queries
    /\ \A e \in Engines :
          /\ engine[e].cached \subseteq Prefixes
          /\ engine[e].queries \in Nat /\ engine[e].hits \in 0..engine[e].queries
          /\ engine[e].restarts \in 0..MaxRestarts
    /\ loop \in {"open", "closed"} /\ output \in {"none", "hitrate", "scenario"}
    /\ exit \in {Running, 0, 1, 2, 3}

(* Both snapshots saw every engine, and the same life of it.               *)
Comparable ==
    /\ Answered(start) = Engines /\ Answered(end) = Engines
    /\ \A e \in Engines : start[e].restarts = end[e].restarts

Total == PrefixTokens + SuffixTokens
Successes == {j \in Jobs : outcome[j] = "ok"}
Reported == output = "hitrate"

(* The measured hit rate is one of the measured requests.  If every page   *)
(* answered twice and no engine restarted in between, it is a rate at all  *)
(* and covers the successful requests; if moreover no request failed, it   *)
(* counts the measured requests and nothing else, although injection,      *)
(* snapshots and measurement share the engines.                            *)
DeltaIsMeasured ==
    Reported /\ Comparable =>
        /\ HitDelta \in 0..QueryDelta
        /\ QueryDelta >= Cardinality(Successes) * Total
        /\ failures = 0 => QueryDelta = NumRequests * Total /\ HitDelta = hits

(* "the target hit rate is realized by construction": with one engine      *)
(* serving and nothing failing, the measured rate is the target exactly,   *)
(* at any concurrency and in either loop, whatever the caches held.        *)
TargetIsRealized ==
    Reported /\ Comparable /\ failures = 0 /\ prefill /\ Cardinality(serving) = 1
    /\ (\A e \in serving : engine[e].restarts = 0)
        => RateReported /\ HitDelta * Total = PrefixTokens * QueryDelta

(* A hit-rate report is about all its requests, and the exit code about    *)
(* the report: 0 if one succeeded, 2 if none did.                          *)
ReportIsComplete ==
    /\ Reported => \A j \in Jobs : outcome[j] # "none"
    /\ exit \in {0, 2} => Reported /\ (exit = 2 <=> AllFailed)

(* Every run ends, its semaphore notwithstanding.                          *)
Terminates == <>(exit # Running)
=============================================================================
