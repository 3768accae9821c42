------------------------------ MODULE AgentRun ------------------------------
(***************************************************************************)
(* Agent mode (_run_agent): tasks of a bank are given workspaces and run   *)
(* at the same time by agents, each a loop of a streamed request and the   *)
(* tool calls it asks for; then the report.  The backend, the shell and    *)
(* the engine's metrics page are the environment.                          *)
(*                                                                         *)
(* Definitions under a "Faulty" comment are not part of the model: each is *)
(* a mistake this code could contain, kept next to the definition it would *)
(* replace to show which property notices it.                              *)
(***************************************************************************)
EXTENDS Functions, FiniteSetsExt, ChatStream

CONSTANTS
    NumTasks,  \* --agent-tasks
    MaxSteps,  \* --agent-max-steps
    Configs,   \* task banks (for each base task, whether it brings the file), with
               \* and without a metrics page; bounds: how often Ctrl+C is pressed,
               \* and faults: requests that are lost or fail, outages of the
               \* metrics page, replies cut short, saves that fail
    Replies,   \* what the backend may reply
    OtherDirs, \* task directories a larger run may have left in the workdir
    SdkRetries \* max_retries of AsyncOpenAI, left at its default

Pieced == Seq({"opened", "closed"})
Requests == [id : {NoId} \cup ({"given"} \X Nat), name : STRING, args : Pieced]

(* Bound: numbers of directories have up to six digits.                    *)
Powers == {10, 100, 1000, 10000, 100000}
Numbers == 0..999999

ASSUME AgentAssumption ==
    /\ NumTasks \in Nat \ {0} /\ MaxSteps \in Nat \ {0}
    /\ Configs \subseteq [bank : Seq(BOOLEAN), metrics : BOOLEAN, sigints : Nat, faults : Nat]
    /\ NumTasks - 1 \in Numbers /\ OtherDirs \subseteq Numbers
    /\ SdkRetries \in Nat

(* What a reply is: different calls have different ids, if any, and none   *)
(* of the names that complete() makes up; no proper prefix of their        *)
(* arguments parses.                                                       *)
ASSUME ReplyAssumption == \A r \in Replies :
    /\ r \in [thinks : BOOLEAN, text : Seq(STRING), calls : Seq(Requests)]
    /\ \A k, l \in DOMAIN r.calls :
          r.calls[k].id = r.calls[l].id /\ r.calls[k].id # NoId => k = l
    /\ \A k \in DOMAIN r.calls : LET args == r.calls[k].args
                               IN  \A p \in 1..Len(args) - 1 : args[p] # "closed"

VARIABLES
    bank, metrics, maxSigints, maxFaults, \* configuration
    workspace,      \* the file of interest in each task directory of the workdir
    main,           \* where the main task is
    pc, step,       \* each agent, and its step
    tries,          \* attempts of its request that were lost before an answer
    reply, left,    \* the reply under way, and what of it is still to come
    acc,            \* what complete() has gathered of it
    conv,           \* messages
    todo,           \* tool calls of the turn still to be run
    turns,          \* number of tool calls of each recorded turn
    finished,       \* the model gave a final answer
    raised,         \* how the agent failed
    served,         \* requests the engine has counted
    start, end,     \* metrics snapshots
    results,        \* _agent_results
    shutdown, sigints, faults,
    loop, output, exit

agentVars == <<workspace, pc, step, tries, reply, left, acc, conv, todo, turns, finished, raised>>
endVars == <<loop, output, exit>>
config == <<bank, metrics, maxSigints, maxFaults>>
vars == <<config, main, agentVars, served, start, end, results,
          shutdown, sigints, faults, endVars>>

Tasks == 0..NumTasks - 1
Dirs == Tasks \cup OtherDirs
Running == -1
NoPage == -1

(* Contents of the file.                                                   *)
Missing == <<"missing">>
Stale == <<"stale">>
Anything == <<"anything">>
Original(base) == <<"original", base>>
By(t) == <<"by", t>>
(* What else a tool may answer.                                            *)
Done == <<"done">>
Error == <<"error">>

Message(role, text, calls) ==
    [role |-> role, text |-> text, calls |-> calls, answers |-> NoId, content |-> Done]
ToolMessage(call, content) ==
    [role |-> "tool", text |-> <<>>, calls |-> <<>>, answers |-> call.id, content |-> content]

Opening == <<Message("system", <<>>, <<>>), Message("user", <<>>, <<>>)>>
NoReply == [thinks |-> FALSE, text |-> <<>>, calls |-> <<>>]
Nothing == [text |-> <<>>, slots |-> <<>>]

(* A workdir may hold the task directories of an earlier run.              *)
Init ==
    /\ \E c \in Configs : /\ bank = c.bank /\ metrics = c.metrics
                          /\ maxSigints = c.sigints /\ maxFaults = c.faults
    /\ workspace \in [Dirs -> {Missing, Stale}]
    /\ main = "setup"
    /\ pc = [t \in Tasks |-> "waiting"] /\ step = [t \in Tasks |-> 1]
    /\ tries = [t \in Tasks |-> 0]
    /\ reply = [t \in Tasks |-> NoReply] /\ left = [t \in Tasks |-> Pieces(NoReply)]
    /\ acc = [t \in Tasks |-> Nothing]
    /\ conv = [t \in Tasks |-> Opening]
    /\ todo = [t \in Tasks |-> <<>>] /\ turns = [t \in Tasks |-> <<>>]
    /\ finished = [t \in Tasks |-> FALSE] /\ raised = [t \in Tasks |-> "none"]
    /\ served = 0 /\ start = NoPage /\ end = NoPage
    /\ results = <<>>
    /\ shutdown = FALSE /\ sigints = 0 /\ faults = 0
    /\ loop = "open" /\ output = "none" /\ exit = Running

-----------------------------------------------------------------------------
(* Tasks and their directories: build_task_instances cycles through the    *)
(* bank and numbers the instances.                                         *)
Base(t) == (t % Len(bank)) + 1

Dir(t) == t

BaseFile(t) == IF bank[Base(t)] THEN Original(Base(t)) ELSE Missing

(* materialize_workspace for every instance: what an earlier run left in   *)
(* its directory is removed.  The last one given a directory keeps it.     *)
Materialized(dirs) ==
    [d \in Dirs |-> LET owners == {t \in Tasks : Dir(t) = d}
                    IN  IF owners = {} THEN dirs[d] ELSE BaseFile(Max(owners))]

-----------------------------------------------------------------------------
(* The main task.                                                          *)
MainFrame == UNCHANGED <<config, tries, reply, left, acc, conv, todo, turns, finished,
                         raised, served, shutdown, sigints, loop>>

Fault == faults < maxFaults /\ faults' = faults + 1

(* snapshot(): None if the page does not answer.                           *)
Snapshot(s) == \/ s = served /\ UNCHANGED faults
               \/ s = NoPage /\ Fault

(* The bank and the workspaces; the agents start together when there is no *)
(* snapshot to take.  An empty bank is a ValueError nobody catches.        *)
Setup ==
    /\ main = "setup" /\ loop = "open"
    /\ IF bank = <<>>
       THEN /\ main' = "crashed" /\ exit' = 1 /\ loop' = "closed"
            /\ UNCHANGED <<workspace, pc>>
       ELSE /\ workspace' = Materialized(workspace)
            /\ IF metrics THEN main' = "startSnapshot" /\ UNCHANGED pc
               ELSE main' = "agents" /\ pc' = [t \in Tasks |-> "asking"]
            /\ UNCHANGED <<exit, loop>>
    /\ UNCHANGED <<config, step, tries, reply, left, acc, conv, todo, turns, finished, raised,
                   served, start, end, results, shutdown, sigints, faults, output>>

(* The caches are reset after the snapshot, which leaves the counters      *)
(* alone.  The semaphore around the agents has a place for each.           *)
StartSnapshot ==
    /\ main = "startSnapshot" /\ loop = "open"
    /\ \E s \in {served, NoPage} : Snapshot(s) /\ start' = s
    /\ main' = "agents" /\ pc' = [t \in Tasks |-> "asking"]
    /\ UNCHANGED <<workspace, step, end, results, output, exit>> /\ MainFrame

Over(t) == pc[t] \in {"done", "failed"}

NoResult == [task |-> -1, error |-> "none", steps |-> 0, finished |-> FALSE]

(* An exception leaves nothing of its agent's turns, not even its number.  *)
Result(t) ==
    IF pc[t] = "failed" THEN [NoResult EXCEPT !.error = raised[t]]
    ELSE [task |-> t, error |-> "none", steps |-> Len(turns[t]), finished |-> finished[t]]

(* Faulty: the main task waits for as many answers as there are tasks.     *)
AgentsDone == \A t \in Tasks : pc[t] = "done"

(* Faulty: the main task goes on with the first agent that ends.           *)
AnyOver == \E t \in Tasks : Over(t)

AgentsOver == \A t \in Tasks : Over(t)

(* gather(..., return_exceptions=True) and the results, in task order.     *)
Gathered ==
    /\ main = "agents" /\ loop = "open" /\ AgentsOver
    /\ results' = [i \in 1..NumTasks |-> Result(i - 1)]
    /\ main' = IF metrics THEN "endSnapshot" ELSE "finalizing"
    /\ UNCHANGED <<workspace, pc, step, start, end, faults, output, exit>> /\ MainFrame

EndSnapshot ==
    /\ main = "endSnapshot" /\ loop = "open"
    /\ \E s \in {served, NoPage} : Snapshot(s) /\ end' = s
    /\ main' = "finalizing"
    /\ UNCHANGED <<workspace, pc, step, start, results, output, exit>> /\ MainFrame

Finalize ==
    /\ main = "finalizing" /\ loop = "open"
    /\ main' = "finished" /\ output' = "agent"
    /\ UNCHANGED <<workspace, pc, step, start, end, results, faults, exit>> /\ MainFrame

(* The file cannot be written.                                             *)
SaveFails ==
    /\ main = "finalizing" /\ loop = "open" /\ Fault
    /\ main' = "crashed" /\ exit' = 1 /\ loop' = "closed"
    /\ UNCHANGED <<config, agentVars, served, start, end, results, shutdown, sigints, output>>

-----------------------------------------------------------------------------
(* AgentClient.complete.                                                   *)
NoSlot == [id |-> NoId, name |-> NoName, args |-> <<>>]

(* Faulty: a fragment goes to the slot opened last.                        *)
AccumulateLast(slots, f) ==
    LET i == IF f.name # NoName \/ DOMAIN slots = {} THEN f.index ELSE Max(DOMAIN slots)
        slot == IF i \in DOMAIN slots THEN slots[i] ELSE NoSlot
    IN  (i :> [id   |-> IF f.id # NoId THEN f.id ELSE slot.id,
               name |-> IF f.name # NoName THEN f.name ELSE slot.name,
               args |-> slot.args \o f.args]) @@ slots

Accumulate(slots, f) ==
    LET slot == IF f.index \in DOMAIN slots THEN slots[f.index] ELSE NoSlot
        filled == [id   |-> IF f.id # NoId THEN f.id ELSE slot.id,
                   name |-> IF f.name # NoName THEN f.name ELSE slot.name,
                   args |-> slot.args \o f.args]
    IN  [i \in DOMAIN slots \cup {f.index} |-> IF i = f.index THEN filled ELSE slots[i]]

(* A chunk with reasoning is only timed and counted, whatever else it has. *)
Consume(a, chunk) ==
    IF chunk.reasoning THEN a
    ELSE [text |-> a.text \o chunk.text, slots |-> FoldLeft(Accumulate, a.slots, chunk.calls)]

(* In the order of the indices; a call without an id is named after its    *)
(* index.                                                                  *)
ToolCalls(slots) ==
    LET order == Ordered(DOMAIN slots)
        Id(i) == IF slots[i].id # NoId THEN slots[i].id ELSE <<"call", i>>
    IN  [k \in DOMAIN order |-> [slots[order[k]] EXCEPT !.id = Id(order[k])]]

-----------------------------------------------------------------------------
(* One agent: Agent.run.                                                   *)
AgentFrame == UNCHANGED <<config, main, start, end, results, shutdown, sigints, endVars>>
Active(t) == main = "agents" /\ loop = "open" /\ pc[t] \notin {"waiting", "done", "failed"}

(* An attempt is refused, lost or timed out before its stream begins, and  *)
(* create() sends the request again; the engine may have counted it.       *)
Retry(t) ==
    /\ Active(t) /\ pc[t] = "asking" /\ tries[t] < SdkRetries /\ Fault
    /\ tries' = [tries EXCEPT ![t] = @ + 1]
    /\ served' \in {served, served + 1}
    /\ UNCHANGED <<workspace, pc, step, reply, left, acc, conv, todo, turns, finished, raised>>
    /\ AgentFrame

(* The stream begins, and the engine has counted this attempt.             *)
Answer(t) ==
    /\ Active(t) /\ pc[t] = "asking"
    /\ \E r \in Replies :
          /\ reply' = [reply EXCEPT ![t] = r]
          /\ left' = [left EXCEPT ![t] = Pieces(r)]
    /\ acc' = [acc EXCEPT ![t] = Nothing]
    /\ pc' = [pc EXCEPT ![t] = "streaming"] /\ tries' = [tries EXCEPT ![t] = 0]
    /\ served' = served + 1
    /\ UNCHANGED <<workspace, step, conv, todo, turns, finished, raised, faults>> /\ AgentFrame

NextChunk(t) ==
    /\ Active(t) /\ pc[t] = "streaming"
    /\ \E c \in DOMAIN left[t] :
          /\ left[t][c] # <<>>
          /\ \E chunk \in ChunksFrom(reply[t], left[t], c) :
                acc' = [acc EXCEPT ![t] = Consume(@, chunk)]
          /\ left' = [left EXCEPT ![t] = Sent(@, c)]
    /\ UNCHANGED <<workspace, pc, step, tries, reply, conv, todo, turns, finished, raised,
                   served, faults>> /\ AgentFrame

(* What complete() has gathered is gone with the turn.                     *)
Forget(t) ==
    /\ reply' = [reply EXCEPT ![t] = NoReply]
    /\ left' = [left EXCEPT ![t] = Pieces(NoReply)]
    /\ acc' = [acc EXCEPT ![t] = Nothing]

LastStep(t) == step[t] = MaxSteps

(* The rest of a turn is run without a pause up to the next shell command; *)
(* after its last tool the turn is recorded.                               *)
Continue(t, calls) ==
    IF todo'[t] # <<>> THEN
        /\ pc' = [pc EXCEPT ![t] = "calling"]
        /\ UNCHANGED <<step, reply, left, acc, turns, finished>>
    ELSE
        /\ turns' = [turns EXCEPT ![t] = Append(@, calls)]
        /\ finished' = [finished EXCEPT ![t] = calls = 0]
        /\ Forget(t)
        /\ IF calls = 0 \/ LastStep(t)
           THEN pc' = [pc EXCEPT ![t] = "done"] /\ UNCHANGED step
           ELSE pc' = [pc EXCEPT ![t] = "asking"] /\ step' = [step EXCEPT ![t] = @ + 1]

(* The reply is over, or was cut at --agent-max-tokens.                    *)
EndOfStream(t) ==
    /\ Active(t) /\ pc[t] = "streaming"
    /\ IF AllSent(left[t]) THEN UNCHANGED faults ELSE Fault
    /\ LET calls == ToolCalls(acc[t].slots)
       IN  /\ conv' = [conv EXCEPT ![t] = Append(@, Message("assistant", acc[t].text, calls))]
           /\ todo' = [todo EXCEPT ![t] = calls]
           /\ Continue(t, Len(calls))
    /\ UNCHANGED <<workspace, tries, raised, served>> /\ AgentFrame

(* Faulty: a tool that fails leaves no message.                            *)
AnswerSuccess(t, content) ==
    /\ conv' = [conv EXCEPT ![t] = IF content = Error THEN @
                                   ELSE Append(@, ToolMessage(Head(todo[t]), content))]
    /\ todo' = [todo EXCEPT ![t] = Tail(@)]

AnswerCall(t, content) ==
    /\ conv' = [conv EXCEPT ![t] = Append(@, ToolMessage(Head(todo[t]), content))]
    /\ todo' = [todo EXCEPT ![t] = Tail(@)]

CallsMade(t) == Cardinality(DOMAIN acc[t].slots)
ToolFrame == UNCHANGED <<tries, raised, served, faults>>
Shell(call) == call.name = "run_shell" /\ Parses(call.args)

(* The numeral of t begins that of d.                                      *)
Begins(t, d) == t = d \/ (t # 0 /\ \E p \in Powers : d \div p = t)

(* Faulty: no path is refused.                                             *)
AnyPath(t, d) == TRUE

(* _safe_path asks whether the path begins as the workspace's does: that   *)
(* of task_1 begins those of task_10 and task_123.                         *)
SafePath(t, d) == Begins(Dir(t), d)

Reach(t) == {d \in Dirs : SafePath(t, d)}

(* A tool answers with the error of any exception: of arguments that do    *)
(* not parse and are replaced by {}, of a path refused or without a file.  *)
ToolContent(t, call) ==
    {Error} \cup (IF call.name = "list_files" \/ (call.name = "write_file" /\ Parses(call.args))
                  THEN {Done} ELSE {})
            \cup (IF call.name = "read_file" /\ Parses(call.args)
                  THEN {workspace[d] : d \in Reach(t)} \ {Missing} ELSE {})

(* The workspaces after a tool with this answer, where a write may fail    *)
(* halfway; a file nothing was known of stays such.                        *)
Written(t, d) == IF workspace[d] = Anything THEN Anything ELSE By(t)

ToolWrites(t, call, content) ==
    (IF content = Error \/ call.name # "write_file" THEN {workspace} ELSE {}) \cup
        (IF call.name = "write_file" /\ Parses(call.args)
         THEN {[workspace EXCEPT ![d] = Written(t, d)] : d \in Reach(t)} ELSE {})

RunTool(t) ==
    /\ Active(t) /\ pc[t] = "calling" /\ ~Shell(Head(todo[t]))
    /\ \E content \in ToolContent(t, Head(todo[t])) :
          /\ AnswerCall(t, content)
          /\ workspace' \in ToolWrites(t, Head(todo[t]), content)
    /\ Continue(t, CallsMade(t))
    /\ ToolFrame /\ AgentFrame

(* A command only starts in the workspace.  From then on, and even after   *)
(* it is answered or killed (children and links outlive it), any directory *)
(* may hold anything.                                                      *)
StartShell(t) ==
    /\ Active(t) /\ pc[t] = "calling" /\ Shell(Head(todo[t]))
    /\ pc' = [pc EXCEPT ![t] = "shell"]
    /\ workspace' = [d \in Dirs |-> Anything]
    /\ UNCHANGED <<step, reply, left, acc, conv, todo, turns, finished>>
    /\ ToolFrame /\ AgentFrame

(* The command ends, whatever it wrote and printed, or cannot be started,  *)
(* or is killed at --agent-shell-timeout.                                  *)
ShellEnds(t) ==
    /\ Active(t) /\ pc[t] = "shell"
    /\ \E content \in {Anything, Error} : AnswerCall(t, content)
    /\ Continue(t, CallsMade(t))
    /\ UNCHANGED workspace /\ ToolFrame /\ AgentFrame

(* The request fails before the stream, with an error that is not retried  *)
(* or in its last attempt, or in the stream, where nothing is retried;     *)
(* str(e) may be empty, as that of a read timeout in the stream is.        *)
Fail(t) ==
    /\ Active(t) /\ pc[t] \in {"asking", "streaming"}
    /\ IF \E u \in Tasks : pc[u] = "failed" THEN UNCHANGED faults ELSE Fault
    /\ pc' = [pc EXCEPT ![t] = "failed"] /\ tries' = [tries EXCEPT ![t] = 0]
    /\ \E e \in {"message", "empty"} : raised' = [raised EXCEPT ![t] = e]
    /\ served' \in {served, IF pc[t] = "asking" THEN served + 1 ELSE served}
    /\ Forget(t)
    /\ conv' = [conv EXCEPT ![t] = <<>>] /\ turns' = [turns EXCEPT ![t] = <<>>]
    /\ UNCHANGED <<workspace, step, todo, finished>> /\ AgentFrame

-----------------------------------------------------------------------------
(* SIGINT and the command line.  The first SIGINT only raises the flag,    *)
(* which nothing in this mode reads.                                       *)
Sigint ==
    /\ loop = "open" /\ main # "finished" /\ ~shutdown /\ sigints < maxSigints
    /\ sigints' = sigints + 1 /\ shutdown' = TRUE
    /\ UNCHANGED <<config, main, agentVars, served, start, end, results, faults, endVars>>

(* The second one leaves asyncio.run, which cancels everything, and        *)
(* shutdown_and_save finalises a scenario without turns.                   *)
ForcedExit ==
    /\ loop = "open" /\ main # "finished" /\ shutdown /\ sigints < maxSigints
    /\ sigints' = sigints + 1
    /\ main' = "cancelled" /\ loop' = "closed" /\ output' = "scenario" /\ exit' = 3
    /\ pc' = [t \in Tasks |-> "cancelled"] /\ conv' = [t \in Tasks |-> <<>>]
    /\ todo' = [t \in Tasks |-> <<>>] /\ turns' = [t \in Tasks |-> <<>>]
    /\ left' = [t \in Tasks |-> Pieces(NoReply)] /\ acc' = [t \in Tasks |-> Nothing]
    /\ reply' = [t \in Tasks |-> NoReply] /\ tries' = [t \in Tasks |-> 0]
    /\ UNCHANGED <<config, workspace, step, finished, raised, served, start, end,
                   results, shutdown, faults>>

(* _has_all_failures: an error without a text is none.                     *)
AllFailed == \A i \in DOMAIN results : results[i].error = "message"

CliExit ==
    /\ loop = "open" /\ main = "finished"
    /\ loop' = "closed" /\ exit' = IF AllFailed THEN 2 ELSE 0
    /\ UNCHANGED <<config, main, agentVars, served, start, end, results,
                   shutdown, sigints, faults, output>>

Ended == exit # Running /\ UNCHANGED vars

MainStep == Setup \/ StartSnapshot \/ Gathered \/ EndSnapshot \/ Finalize \/ SaveFails

AgentStep(t) ==
    \/ Retry(t) \/ Answer(t) \/ NextChunk(t) \/ EndOfStream(t)
    \/ RunTool(t) \/ StartShell(t) \/ ShellEnds(t) \/ Fail(t)

Next ==
    \/ MainStep
    \/ \E t \in Tasks : AgentStep(t)
    \/ Sigint \/ ForcedExit \/ CliExit \/ Ended

Spec == Init /\ [][Next]_vars

(* The loop runs what is ready; the client's timeout ends every attempt    *)
(* and the shell's every command, and a reply ends at --agent-max-tokens.  *)
FairSpec ==
    /\ Spec
    /\ WF_vars(MainStep) /\ WF_vars(CliExit)
    /\ \A t \in Tasks : WF_vars(AgentStep(t))

-----------------------------------------------------------------------------
Slots == [id : {NoId} \cup ({"given", "call"} \X Nat), name : STRING, args : Pieced]
TypeOK ==
    /\ [bank |-> bank, metrics |-> metrics,
        sigints |-> maxSigints, faults |-> maxFaults] \in Configs
    /\ main \in {"setup", "startSnapshot", "agents", "endSnapshot", "finalizing", "finished",
                 "cancelled", "crashed"}
    /\ pc \in [Tasks -> {"waiting", "asking", "streaming", "calling", "shell",
                        "done", "failed", "cancelled"}]
    /\ step \in [Tasks -> 1..MaxSteps] /\ tries \in [Tasks -> 0..SdkRetries]
    /\ workspace \in [Dirs -> {Missing, Stale, Anything} \cup {By(t) : t \in Tasks}
                               \cup {Original(b) : b \in DOMAIN bank}]
    /\ \A t \in Tasks :
          /\ reply[t] \in Replies \cup {NoReply}
          /\ todo[t] \in Seq(Slots)
          /\ (pc[t] = "calling" => todo[t] # <<>>) /\ (pc[t] = "shell" => Shell(Head(todo[t])))
          /\ Len(turns[t]) <= step[t]
    /\ finished \in [Tasks -> BOOLEAN] /\ raised \in [Tasks -> {"none", "message", "empty"}]
    /\ served \in Nat /\ {start, end} \subseteq Nat \cup {NoPage}
    /\ shutdown \in BOOLEAN /\ sigints \in 0..maxSigints /\ faults \in 0..maxFaults
    /\ loop \in {"open", "closed"} /\ output \in {"none", "agent", "scenario"}
    /\ exit \in {Running, 0, 1, 2, 3}

AssistantTurns(t) == {i \in DOMAIN conv[t] : conv[t][i].role = "assistant"}
SameCall(made, call, k) ==
    /\ made.name = call.name /\ made.args = call.args
    /\ made.id = IF call.id = NoId THEN <<"call", k>> ELSE call.id

(* Whatever the model asks for and however its tools end, an agent sends   *)
(* only conversations a chat API accepts: every assistant turn in them     *)
(* made calls, under different ids, and is followed by one answer to each, *)
(* in the order of the calls; there is no other answer.                    *)
RequestsAreWellFormed ==
    \A t \in Tasks : pc[t] \in {"asking", "streaming"} =>
        LET m == conv[t]
            Answering(i) == i + 1..i + Len(m[i].calls)
        IN  /\ \A i \in DOMAIN m : m[i].role = "assistant" =>
                  /\ m[i].calls # <<>> /\ Answering(i) \subseteq DOMAIN m
                  /\ \A k \in DOMAIN m[i].calls :
                        /\ m[i + k].role = "tool" /\ m[i + k].answers = m[i].calls[k].id
                        /\ \A l \in DOMAIN m[i].calls : m[i].calls[k].id = m[i].calls[l].id => k = l
            /\ \A j \in DOMAIN m : m[j].role = "tool" =>
                  \E i \in 1..j - 1 : m[i].role = "assistant" /\ j \in Answering(i)

(* The calls an agent runs are those of the reply, however the fragments   *)
(* of parallel calls were interleaved; of a reply that was cut short, only *)
(* whole ones take effect.                                                 *)
CallsAreWhole ==
    \A t \in Tasks : pc[t] \in {"calling", "shell"} =>
        LET made == conv[t][Max(AssistantTurns(t))].calls
            asked == reply[t].calls
        IN  /\ AllSent(left[t]) =>
                  /\ Len(made) = Len(asked)
                  /\ \A k \in DOMAIN made : SameCall(made[k], asked[k], k)
            /\ \A k \in DOMAIN made : Parses(made[k].args) =>
                  \E l \in DOMAIN asked : SameCall(made[k], asked[l], l)

(* What a directory may hold before any command: what its task brought, or *)
(* an earlier run left there, and what agents whose tools reach it wrote.  *)
Brought(d) == IF d \in Tasks THEN {BaseFile(d)} ELSE {Missing, Stale}
Found(d) == Brought(d) \cup {By(t) : t \in {u \in Tasks : Begins(u, d)}}
CommandRun == \A d \in Dirs : workspace[d] = Anything

(* "fresh temp dir per task instance so concurrent agents never collide":  *)
(* as long as no agent has run a command, the file tools of all agents     *)
(* change a directory only if their own number begins its number, and tell *)
(* an agent only what such directories hold.  What an earlier run left in  *)
(* a task's directory is never found there.                                *)
FilesStayInReach ==
    main \notin {"setup", "cancelled"} /\ bank # <<>> =>
        /\ CommandRun \/ \A d \in Dirs : workspace[d] \in Found(d)
        /\ \A t \in Tasks : \A i \in DOMAIN conv[t] :
              LET told == conv[t][i].content
              IN  \/ told \in {Done, Error}
                  \/ \E d \in Dirs : Begins(t, d) /\ told \in Found(d)
                  \/ told = Anything /\ CommandRun

(* The number of turns in a report.                                        *)
Steps == Cardinality({p \in Tasks \X (1..MaxSteps) : p[2] <= results[p[1] + 1].steps})

(* A report has one result for every task: the exception of one that       *)
(* failed, and else the requests it made, at most --agent-max-steps and    *)
(* fewer only with a final answer, which is the last thing it was told.    *)
(* The metrics delta has every turn of the report; unless an agent failed, *)
(* what it has more are requests that were lost and sent again, at most    *)
(* SdkRetries for a turn.  The exit code agrees with the results, if every *)
(* exception has a text.                                                   *)
ReportMatchesRuns ==
    output = "agent" =>
        /\ \A t \in Tasks : LET r == results[t + 1] IN
              IF raised[t] # "none" THEN r.error = raised[t] /\ ~r.finished
              ELSE /\ Over(t) /\ r.task = t /\ r.error = "none"
                   /\ r.steps = Cardinality(AssistantTurns(t)) /\ r.steps <= MaxSteps
                   /\ r.finished <=> Last(conv[t]).role = "assistant"
                   /\ r.steps < MaxSteps => r.finished
        /\ start # NoPage /\ end # NoPage =>
              /\ end - start >= Steps
              /\ (\A t \in Tasks : raised[t] = "none") =>
                    end - start <= Steps + faults /\ end - start <= Steps * (1 + SdkRetries)
        /\ exit \in {0, 2} /\ (\A t \in Tasks : raised[t] # "empty") =>
              (exit = 2 <=> \A t \in Tasks : raised[t] # "none")

(* Every run ends, whatever the model asks for.                            *)
Terminates == <>(exit # Running)
=============================================================================
