# ClawPerf in TLA+

ClawPerf (`src/src/clawperf/`) is a command-line benchmark for LLM inference
endpoints. It simulates users with growing conversations, measures how the
endpoint's prefix cache and latency behave, searches the largest load that meets
an SLO, and records and replays the traffic of real agents. Everything runs as
coroutines on one asyncio event loop; the results are written when a run ends, or
when Ctrl+C ends it.

This directory holds TLA+ modules of the parts that keep state, the TLC runs that
check them, and TLAPS proofs of the properties that matter most for any number of
users, turns, levels and tokens.

## 1. Inventory

| part | source | state | operations | module |
|---|---|---|---|---|
| virtual user context | `context.py` | prefix, history, token count, compaction events of each user | prepare_turn (compact, grow, revert), append_history | `ContextWindow`, `UserContext` |
| scenario runner | `runner.py` run ... _finalize | user tasks, shared counters, records, shutdown flag, poller, result and history files | pre-flight, arrivals, turns, early abort, SIGINT, finalise, shutdown_and_save | `ScenarioRun`, `ScenarioRefinement` |
| command line | `cli.py:862-915` | exit code | KeyboardInterrupt and RuntimeError handling, exit code from the records | `ScenarioRun`, `HitRateRun`, `AgentRun` (single runs) |
| SLO sweep | `runner.py` _run_slo | bounds of the search, steps, tally of a step | ramp, refine, step, wall-clock budget, verdict, report | `SloSweep` |
| hit-rate mode | `runner.py` _run_hitrate, `hitrate.py` | two phases of requests, semaphore, snapshots | reset, inject, snapshot, measure, snapshot, report | `HitRateRun` |
| metrics poller | `system_metrics.py` | last sample per page, poll task | poll, merge, delta of two samples, stop | in `HitRateRun` (snapshots) and `ScenarioRun` (stop) |
| cache simulator | `trace_simulator.py` | block cache, order queue, counters | lookup, touch, insert, evict, sweep, ceiling | `PrefixCacheSim` |
| recording proxy | `recorder.py` | index, JSONL file, requests under way | forward, re-stream, record | `RecordingProxy` |
| replay player | `player.py`, `trace_simulator.py` replay | sessions, semaphore, live history, results | replay in three scheduling modes, save | `ReplayPlayer` |
| arrival schedulers | `scheduler.py` | next slot | burst, steady, Poisson | in `ScenarioRun` (suspends or not) |
| mock server | `mock_server.py` | prefix tries with reference counts, metrics | look up, insert, evict, count, release | `PrefixCacheTrie`, `MockServer` |
| agent mode | `agent.py`, `agent_tasks.py`, `runner.py` _run_agent | conversations, workspaces, turns, snapshots, results | build tasks and workspaces, stream a reply, run tools, gather, finalise | `ChatStream`, `AgentRun` |
| suites, profiles | `cli.py`, `context_profiles.py` | list of runs | run each scenario | not modelled |
| configuration | `config.py`, `cli.py` parse_args | merged options | layer, coerce, apply a profile, refuse | `Configuration` |
| translators | `translators.py`, `recorder.py` anthropic_messages | chunks of the answer under way | messages and stream events to and from the OpenAI API, accumulate calls | `Translators`, `AnthropicSession` |
| trace converter | `trace_converter.py` | hash ids carried from request to request | read turns, build requests, cap, hash | `TraceConverter`, `AnthropicSession` |
| tokenizer | `tokenizer.py` | loaded tokenizer | count, generate about n tokens | only the inaccuracy of generated text, in `ContextWindow` |
| reports, logging, entry points | `report.py`, `logging_setup.py` | none of their own | format | not modelled |

### How the parts interact

- The runner owns a `UserContext` per user and calls `prepare_turn` before and
  `append_history` after each request; nobody else writes it. The counters
  (`_completed_turns`, `_errors`, `_consecutive_failures`), the record list and the
  shutdown flag are shared by all user tasks, which update them between two
  suspensions.
- The signal handler runs in the event loop between callbacks. The first SIGINT
  raises the flag and cancels `_user_tasks`, a list only the scenario mode fills.
  The second raises `KeyboardInterrupt` out of `asyncio.run`, which cancels
  everything; the command line then calls `shutdown_and_save` in a second loop.
- The poller is a task of its own: the runner asks it for a snapshot before and
  after the work, and awaits its end in `stop()`.
- Agents share the event loop, the connection pool and the parent directory of their
  workspaces, nothing else. `_run_agent` gathers them and keeps exceptions as results.
- The recorder calls the translators on the way in (messages) and on the way out
  (events); `trace-convert` calls the same message translation on transcripts, without the
  step that takes tool results out of their message.
- The endpoint, its engines and their Prometheus pages, the agents behind the
  recording proxy, and the operator are the environment.
- The recorder and the player share a file and run as different commands.

### What makes each part correct, and what is hard about it

| part | correctness | hard because |
|---|---|---|
| context | never sends what does not fit; never grows a prefix that locks the user out; history = answers since the last compaction | long sequences of clear, grow, revert; generated text is only about as long as asked |
| scenario run | each turn recorded once; abort at the threshold; what is saved is complete; no task survives; exit code tells the results | shared counters, cancellation from inside a task, SIGINT between any two steps, `CancelledError` swallowed by library-style helpers, output and disk that fail |
| SLO sweep | a level reported passed while the next failed; a level measured once and on its own | time-outs cut a step with requests under way; irregular verdicts; shutdown flag read by steps and not by the sweep |
| hit rate | the reported delta is that of the measured requests | injected requests that time out at the client and are counted late; pages fetched one by one; engine restarts |
| cache simulator | LRU order, inclusion of small caches in large ones, ceiling | order queue and map kept in step over hits, repeats and evictions |
| mock server | eviction keeps what live prompts share; the gauge counts every request under way | reference counts over inserts, repeats and evictions; responses that end or vanish at any point |
| agents | an agent sends only conversations an API accepts; runs the calls it was sent; finds no files but those in its tools' reach; is reported as it ran | fragments of parallel calls interleave; replies cut short; requests lost and sent again; tools and commands that fail or time out; directories side by side, some left over; one agent's exception among others |
| translation | nothing said by either side is lost, doubled or reordered; a trace is the recording | parallel calls and results in one message, texts beside results, streams that end early, two APIs with different framing |
| record, replay | every answer is recorded and replayed once; sessions keep order; live histories extend each other | concurrent agents, retries, restarts on the same file, sliding windows, histories rebuilt from a cut list |

The single hazards, each at its line, are in `PROJECT.json` under `hazards`, with
the properties that would catch them.

## 2. Modules

```
ContextWindow          token arithmetic of a context, prepare_turn as a set of outcomes
  UserContext          one user driven alone: the abstract specification
    ConversationProofs (below)
  ScenarioRun          a whole run with any number of users
    ScenarioRefinement every user of ScenarioRun implements UserContext
      ScenarioProofs
SloSweep               _run_slo, its steps and its report       SloSweepProofs
HitRateRun             _run_hitrate and the engines behind it  HitRateProofs
PrefixCacheSim         the simulator at all budgets at once   PrefixCacheProofs
PrefixCacheTrie        a trie of prompts as operators
  MockServer           the mock server: two tries, counters, responses       MockServerProofs
RecordReplay           composes RecordingProxy and ReplayPlayer
  RecordReplayProofs
Configuration          the options of a run from their four layers
ChatStream             how a backend streams a reply (environment)
  AgentRun             _run_agent, its agents and their tools
    AgentRunProofs
  Translators          both APIs' messages and events
    TraceConverter     transcripts to traces
      AnthropicSession an Anthropic agent through the proxy, then trace-convert
        ConversationProofs the proofs of UserContext and of AnthropicSession
MC*                    the small instances
```

Definitions preceded by a comment that begins with "Faulty" are not part of any
specification. Each is a mistake this code could contain, kept next to the definition it
would replace, and each property of a run is broken by one of them
(`PROJECT.json`, `mutants`).

### ContextWindow and UserContext: `context.py`

Text is its token count. A context is the prefix length asked for (`prefix`), the
tokens of the text generated for it (`content`), the turns in the history, and
their tokens. `GeneratedTokens` adds a member of `Jitter` to the requested length,
because `generate_random_content` only comes near it. `PrepareOutcomes` is
`prepare_turn`: a context that fits is left alone; one whose base fits is compacted
(`Compacted`: history cleared, prefix grown, the growth undone if the base would not
fit); one whose base does not fit is returned unchanged, to be skipped. `UserContext` drives
one such context the way the runner does: `Prepare`, `Answer`, `Fail`, `BuildFailed`,
`Stop`. It is the abstract specification of a user.

### ScenarioRun: `runner.py`, `cli.py`, `scheduler.py`

A coroutine runs until it suspends, so a step is at most the stretch between two
suspensions. `Idle` says that nobody holds the loop; callbacks, resumed tasks and
the signal handler need it. A turn that does not suspend (`Overflow`, `BuildFailed`)
leaves its task `running`, with the loop in its hands.

| model | code |
|---|---|
| `main`: preflight, content, arrivals, sleep, gather, endSnapshot, stopPoller, closeClient, then finished, refused, crashed or cancelled | the awaits of `run()` |
| `task[u]`: absent, ready, running, posting, cancelling, done, crashed | the user's `asyncio.Task` |
| `Recorded` | `_turn_records.append` and `_advance_progress`, early abort included |
| `Sigint` | `_request_shutdown` and the `KeyboardInterrupt` of the second one |
| `interrupt`, `MainCancelled`, `Wake`, `PollerStopped` | the pending cancellation of `run()` and the two places that swallow it |
| `Finalize`, `WriteResults`, `WriteFailed` | `_finalize`, `_append_history` |
| `LoopDrained`, `ShutdownAndSave` | `asyncio.run`'s clean-up and `shutdown_and_save` |
| `ExitCode`, `CliExit` | `cli.py` |

`Faults` switches on failing output ("console") and a failing save ("disk").
With `GatherNeedsLiveLoop` Python may be one up to 3.11, where `gather` on finished
tasks of a closed loop raises. `ScenarioRefinement` reads every user off the shared
state and requires it to take only steps of `UserContext`.

### SloSweep: `runner.py` _run_slo, _run_slo_step, _slo_verdict, _next_n

A latency sample is fast or slow against the constraint, so a verdict is decided by
a tally of fast, slow and failed turns. `StartStep`, the user actions and `Timeout` are a
step; `Judge` is the verdict and the move of the search (`RampMet`, `RampBroken`,
`RefineStep`); `Finalize` the report.

### HitRateRun: `runner.py` _run_hitrate, `hitrate.py`, `system_metrics.py`

`ResetCaches`, the injection phase, `FetchStart` page by page, the measured phase,
`FetchEnd`, `Finalize`. The requests of a phase take the semaphore (closed loop) or a
limiter slot (open loop) in order of creation. The engine is a cache of prefixes and two counters.
`Serve` is the moment it looks a request up; `Failure` may leave that request to
`ServeAbandoned`, and `Restart` empties an engine. `QueryDelta`, `HitDelta` and
`RateReported` are `merge_endpoint_samples` and `compute_prefix_cache_delta`.

### PrefixCacheSim: `trace_simulator.py`

A request is a list of block ids and a length. `Accessed` runs its blocks through
`Hit` and `Miss`; `EnsureBudget` evicts from the head of the order. All budgets and the
ceiling advance together on the same trace, which is what lets a property compare
them. `TraceAssumption` says that an id has the same number of tokens wherever it
occurs; `load_trace` does not check it.

### PrefixCacheTrie, MockServer: `mock_server.py`

A prompt is the sequence of the hashed blocks of its messages. A node of the trie is the
path that leads to it, so the nested dictionaries are one function from paths to reference
counts, beside the order of live sequences (`_sequences`). `Found` is the walk of `query`, `Referenced` and
`Refreshed` are the two halves of `insert`, `EvictOldest` is `_evict_oldest`. `MockServer` has
one action per stage of a request: `ChatCompletions` (whose `Lookup` is
`_update_metrics_on_request`, atomic by its lock), `StreamStarts`, `ResponseEnds` (the
`finally` clauses), and `StreamDropped`, where the framework drops a response whose generator
has not begun. What is found is counted in blocks, not in tokens.

### RecordingProxy, ReplayPlayer, RecordReplay: `recorder.py`, `player.py`

Agents post through the proxy (`Post`), the upstream answers, rejects, breaks or truncates
(`Finish`, which records the entry), the answer reaches its agent (`Deliver`), agents give
up (`GiveUp`), the proxy stops and starts again on the same file with its index at zero. The
player sends the entries in the code's three ways: one after the other
(live history, concurrency 1), by session within a window, or request by request.
`Body` is the message list of a request, with `BuildLiveHistory` and `NewClientMessages`
translated from the code. `RecordReplay` composes both with the trace mode: a command
records, another replays what is then in the file. `Fitting` is what `replay_trace_requests`
leaves of a trace: the requests whose input fits the window.

### ChatStream, AgentRun: `agent.py`, `agent_tasks.py`, `runner.py` _run_agent

A reply is reasoning or not, text and calls. Each travels in a queue of pieces of its
own (`Pieces`), and any queue may move next, so that parallel calls interleave. Arguments are
two pieces and parse when the second one is there.

| model | code |
|---|---|
| `main`: setup, startSnapshot, agents, endSnapshot, finalizing, then finished, crashed or cancelled | the awaits of `_run_agent` |
| `pc[t]`: waiting, asking, streaming, calling, shell, done, failed, cancelled | the coroutine `Agent.run` of task `t` and what it awaits |
| `Answer`, `NextChunk`, `EndOfStream` (`Consume`, `Accumulate`, `ToolCalls`), `Fail` | `AgentClient.complete` |
| `Retry`, `tries` | the attempts the client library makes inside one `create()`; `AgentClient` leaves its `max_retries` at the default |
| `RunTool`, `StartShell`, `ShellEnds`, `Continue` | `AgentTools.run` and the loop over calls and steps; only a shell command suspends |
| `SafePath`, `Reach`, `ToolContent`, `ToolWrites` | `_safe_path` and the file tools: which directories a path may lead to, what may be read there and where a write may go |
| `workspace` | one file of each directory `task_n`, of this run or (`OtherDirs`) an earlier one: missing, left over, brought by the task, written by an agent, or anything |
| `conv`, `todo`, `turns`, `finished`, `raised` | `messages`, the calls not yet run, the result object, the exception |
| `Gathered`, `Result`, `Finalize`, `SaveFails` | `gather`, `_agent_result_to_dict`, `_finalize_agent` |
| `Sigint`, `ForcedExit`, `AllFailed`, `CliExit` | the handler, `shutdown_and_save`, `_has_all_failures`, `cli.py` |

A reply that ends before its last piece stands for a finish at `--agent-max-tokens`. The
engine counts a request when it begins to answer, and may have counted an attempt that is lost before its
stream begins. Such an attempt is made again up to `SdkRetries` times; then, after an error the library does not
retry, or in the stream, the agent fails.

A tool call may name any path. `_safe_path` accepts those that begin as the agent's own directory does, which
is a comparison of text: `task_1` begins `task_10` (`Begins`). Whichever accepted directory a path leads to, a
read may tell what is there and a write may change it. A command is only started in the directory: from its
start on, `workspace` is `Anything` everywhere, and so may be what any later tool or command tells.

### Translators, TraceConverter, AnthropicSession: `translators.py`, `trace_converter.py`, `recorder.py`

`ToOpenAI` and `ToAnthropic` are the two directions of a message list, `ChunkToEvents` and
`EventToChunk` those of a stream, `Feed` the accumulator of fragments. The key `_tool_results` is a field
of a message, and a message without a role is one whose role is empty. `AnthropicSession` has the
proxy's `/v1/messages` (`Post`, `NextChunk`, `UpstreamEnds`, `UpstreamFails`, `Events`), an agent that
answers all calls of a turn at once and may add a reminder (`Deliver`, `GoOn`, `EndSession`), and
`TraceConvert`, which converts the agent's transcript, its texts, or its recorded requests.

Abstractions: a content that is a string is one text block; thinking blocks (dropped by every translation) and
tool schemas are left out; a message fits in one hash block, which stands for its wire text, and
lengths in tokens are left out; one request is under way at a time (`RecordReplay` has several).
`Filter` and `Ordered` in `ChatStream` are a filter and a sort that can be proved about: the library's are recursive
operators. The parts of the specification have names of their own (`SessionInit`, `SessionNext`,
`SessionSpec`, `SessionTypeOK`), so that one module can hold the proofs about a user and about a session.
The client is not part of the repository: it starts over at each `message_start`, ends at the first
`message_stop`, and asks again when an answer is empty.

### Configuration: `cli.py` parse_args, `config.py` build_config

A single step from what is written, in the environment, in the file and on the command line, to the options of the
run or their refusal. Values are texts, each field is a number, a flag or a text. `CliArgs` keeps what the
code takes for explicitly passed, `Merged` layers, `ApplyProfile` lets a profile override its fields.

## 3. Runs

Nine runs pass; three show, each with one property, that the program does
something else than a document or comment of the repository says. Each property of a passing run fails when
the definition named in `mutants` is exchanged for its faulty form. Every state machine but
`Configuration`, which has a single step, has a `TypeOK` (`SessionTypeOK`). Most hold in the runs but are not among their properties: a
slip in the code that broke them would break another property, or TLC's evaluation, first.

| run | instance | what it checks and shows |
|---|---|---|
| `UserContext` | 1 user, 5 turns, window 12, prefix 8 off by -1..2, growth 1, replies of 0..2 tokens | A user is never locked out by its own compaction (`NeverTrapped`), the history is what was answered since the last compaction (`HistoryIsRecent`), compaction always forgets something (`CompactionForgets`). |
| `Scenario` | 2 users, 2 turns, paced, poller, threshold 2, 2 SIGINTs, 2 probes, output and disk may fail | Every interleaving of tasks, handler and main task: counters against records, each turn recorded once unless it was interrupted or its progress line failed (`TurnsRecordedOnce`), abort at the threshold, complete results, no orphans, an exit code that tells what the results say, quiet after shutdown, refinement of `UserContext` by each user, termination. |
| `SloSweep` | levels 3..6, geometric, one warm-up and one measured turn, SIGINTs, escaping exceptions | The report is a knee of what was measured (`KneeIsSharp`), each level once (`TestedOnce`), no request outlives its step (`StepsDoNotOverlap`), a pass rests on the full sample (`PassedOnFullSample`), the sweep ends. |
| `HitRate` | 2 requests, 1 prefix, slot 1, 1 or 2 engines, 2 failures, 1 restart, 1 SIGINT | The reported rate is that of the measured requests (`DeltaIsMeasured`), equals the target when nothing fails (`TargetIsRealized`), the report covers every request, the run ends. |
| `PrefixCache` | all traces of 7 requests over 5 blocks, 5 budgets, both policies | LRU keeps the most recent blocks that fit, more budget never hits less, the ceiling is one. |
| `MockServer` | all orders of 6 requests over 6 prompts of up to 3 blocks, room for 2, 2 at a time | A live prompt is matched whole (`LiveIsCached`); references nobody gives back come from repeated prompts only (`LeakOnlyByRepeats`); the external tier never hits (`ExternalNeverHits`); the gauge misses nobody. |
| `Replay` | 2 agents, 2 turns, 3 entries, 1 fault; 3 traces, window 2, concurrency 1 | What an agent was answered is recorded and replayed exactly once and in order; sessions keep order and the window is used; every replay ends. |
| `AgentRun` | 2 agents of up to 2 turns and `task_10` of a larger run; three settings: an empty bank, a bank of one task with up to two Ctrl+C, a bank of two with a metrics page and 1 fault | Requests are conversations an API accepts (`RequestsAreWellFormed`), the calls run are those sent (`CallsAreWhole`), until a command runs, file tools act and tell within the reach of their agent's number (`FilesStayInReach`), results, metrics delta and exit code agree with what the agents did (`ReportMatchesRuns`), the run ends. |
| `AnthropicSession` | 3 answers, 3 replies with up to two parallel calls, 1 failure, caps 0 to 2, 3 formats | A whole answer survives the translation and one back (`AnswersSurvive`), a request loses nothing and extends the ones before (`NothingIsLost`), the trace of a session is what was recorded of it (`TraceIsTheRecording`). |
| `ReplayLive` | violation | finding 1 |
| `EmptyMessage` | violation | finding 2 |
| `Precedence` | violation | finding 3 |

### Why the bounds are enough

- *UserContext*: with jitter -1..2 around a window of 12 the base fits with room to
  grow, fits without, or does not fit; five turns are two compactions with answers in
  between.
- *Scenario*: two users are enough for one to end or cancel the other's run, two
  turns for a turn after a compaction or a failure; a threshold of 2 lies between the
  single failure and all of the turns; two SIGINTs are all the handler distinguishes. Bursts, a run without
  poller or with fewer probes take a subset of these steps: the timer of a paced arrival may fire at once.
  `GatherNeedsLiveLoop` allows either version of Python.
- *SloSweep*: from 3, a geometric ramp tries 6 and then has 4 and 5 to refine, which takes
  one or two halvings with either outcome.
- *HitRate*: two requests over one prefix are a miss and a hit, a time-out of one
  and the success of the other. With two engines the second may be idle or serving.
- *PrefixCache*: 7 requests on budgets from less than two blocks to everything reach every
  eviction pattern of five blocks, one of them partial.
- *MockServer*: prompts that extend, branch from, repeat and miss each other, in room for
  two; six requests are two evictions after a repeat and an insertion over what it left.
- *Replay*: three entries hold a conversation of one agent and a turn of the
  other; the fault is an error answer, an agent giving up or a restart. Traces are given
  instead of enumerated: interleaved sessions, null user ids, a mixture with an entry too
  long for the window.
- *AgentRun*: two agents over a bank of one share its task, over a bank of two do not; two turns are one
  whose tools are followed by a request and one that ends at the step limit. SIGINTs are pressed in the setting
  without snapshots: they only raise a flag nobody reads, or end everything. Task 1 reaches the directory of
  task 10, and task 0 no other. One fault is one lost attempt, counted or not, which is enough
  for the delta to be one more than the turns; that nothing exceeds `SdkRetries` for a turn is the theorem's.
- *AnthropicSession*: three answers are two turns with results between them, of one or of two calls, and
  a cap of 1 or 2 drops some and keeps some. One failure may be a refusal, a break before or between the pieces.

Bounds named in the modules: `MaxTurns`, `NumUsers`, `PreflightAttempts`, `NumRequests`,
`NumTasks` and `MaxSteps` are the program's own options; `MaxSigints`, `MaxFailures`, `MaxRestarts`, `MaxFaults`,
`MaxEntries`, `MaxRequests`, `MaxOpen` and `MaxAnswers` are the model's. Deadlock is checked in every run: ended
runs stutter in an action of their own (`Ended`, `AllAnswered`, `Over`, `Finished`, `TraceEnds`).

### Fairness

The event loop runs whatever is ready: weak fairness of the main task, of each user task that
can move, of timers, and of the command line. Nothing else is assumed in general.
- `ShutdownTerminates` and `SweepEnds` hold under that alone: a server that never
  answers again does not keep a run from ending after Ctrl+C, or a sweep from ending.
- `Terminates` of a scenario is under `Served`, of the hit-rate mode and `ReplayEnds` of
  a replay under fairness of each request: the runner's client has `request_timeout` as its total
  timeout (`config.py:488`) and the player's a timeout of its own (`player.py:234`), so every post
  returns or raises.
- `Terminates` of the agent mode is under fairness of the main task, the command line and each agent: the client has a
  timeout for every attempt and finitely many attempts, a shell command is killed at `--agent-shell-timeout`, and a reply ends at `--agent-max-tokens`.
- Sigints, failures, restarts, agents and engines on their own are never fair.

## 4. Findings

1. `ReplayLive`: "ensures the KV-cache prefix matches between turns" (`player.py:11-13`).
   The histories rebuilt after each answer start with the first live answer, ahead of the
   system message.
2. `EmptyMessage`: an OpenAI message has a role, `{"role": "user"|"assistant"|"tool",`
   (`translators.py:36`). A user turn of several tool results and no text becomes `{}` followed by
   the results (`translators.py:119`), in the upstream request and in the recording.
3. `Precedence`: "CLI args (explicit) > `CLAWPERF_*` env vars > YAML (`--config`) > dataclass defaults"
   (`README.md:340`, also `cli.py:306`, `config.py:700`). `build_config` starts from the
   environment and updates it from the file (`config.py:703-705`): the file wins.

Further observations, which no run states as a violation. They are behaviours of the models, or were met on the way.

*Interrupted and failed runs.*
- After a second Ctrl+C the cancellation of `run()` is swallowed in `_interruptible_sleep` and in the wait for the
  poller; `run()` finalises, `shutdown_and_save` finalises again, and "each run adds exactly one line"
  (`runner.py:1749`) of history is two.
- On Python 3.10 and 3.11 the `gather` of `shutdown_and_save` raises, because the tasks belong to a closed
  loop; nothing is written, where `docs/reference.en.md:210` has "partial results are written".
- The first Ctrl+C is handled inside the run, which exits with 0 or 2; the same line gives interrupted runs 3.
  In agent mode nothing reads the flag it raises, and the second one saves an empty scenario.
- An exception whose text is empty, as that of a read timeout in a stream, makes a failed agent count as one that
  ran (`runner.py:1147`, `1199`); if all fail so, the run exits with 0 instead of 2.
- A failed agent loses its turns and its number: its result has task -1.

- A progress line that cannot be printed makes the except branch record its turn a second time, as an error
  (`runner.py:1469`); `TurnsRecordedOnce` and `AbortAtThreshold` allow this and nothing more.

*Options.*
- argparse accepts abbreviations, which `_explicit_dests` does not recognise: an abbreviated flag is ignored, an
  abbreviated option with the default value yields to the other layers.
- What `validate()` finds is logged and the run goes on (`runner.py:187`), where exit code 1 is for configuration errors.

*Searches and caches.*
- When the ramp's next level exceeds the maximum, the levels in between are never tried: the "exact max N"
  (`runner.py:616-617`) may be larger than the reported one.
- "shared prefixes survive until no live sequence references them" (`mock_server.py:64`) is half of the truth: they do
  survive (`LiveIsCached`), but a repeated prompt raises the counts of its path for good, and its nodes survive
  longer than that. `LeakOnlyByRepeats` says that nothing else leaks.

*Agents.*
- The `max_steps` of a task file (`README.md:265`) is read and never used: the agents get `--agent-max-steps`.
- Text that shares a chunk with reasoning is dropped (`agent.py:232`), against the comment there.
- The tools are "scoped to a working directory" (`agent.py:47`), and tasks have directories of their own "so
  concurrent agents never collide" (`agent_tasks.py:17`). `_safe_path` tests with `startswith` (`agent.py:90`), so with
  eleven tasks or the directories of an earlier, larger run the agent of `task_1` may read and write `../task_10/f`;
  and commands are not confined (`agent.py:109`). What holds is `FilesStayInReach`; the promise itself holds for up
  to ten tasks that run no commands (`TenAgentsNeverCollide`).
- `AsyncOpenAI` is built without `max_retries` (`agent.py:180`), so a request lost before its stream is sent again
  inside `create()`. If the engine had counted it, the metrics delta has more requests than the report has turns.
- The ids `call_{i}` given to calls without an id repeat from turn to turn; within a turn they are distinct.
- Turns without visible text have no time to first token and are not in the percentiles.

*Translation and conversion.*
- `/v1/messages` does not forward the request's `system`, so that the recording is not the session
  `docs/modes/record-replay.en.md:9` promises to replay; `--upstream-api anthropic` (`:36` there) is
  stored and not used.
- The event stream has two `message_start` and two `message_stop`, text deltas without a
  `content_block_start`, and ends like a whole answer when the upstream broke it off.
- A text beside tool results is put before them, between the calls and their answers.
- `trace-convert` leaves several results, or results with a text, inside their message (`_tool_results`): they count
  in neither `hash_ids` nor `input_length`, and the line differs from the recorded request (which is why
  `TraceIsTheRecording` compares the two only for sessions without such turns).
- With `--max-turns n` a ShareGPT conversation keeps answers among its first 2n messages: a system message
  costs the last turn.

## 5. Proofs

TLAPS checks the following for every value of the constants, from the named assumptions on
them (`ContextAssumption`, `MaxTurnsAssumption`, `ScenarioAssumption`, `SweepAssumption`, `HitRateAssumption`,
`SimAssumption`, `TraceAssumption`, `TrieAssumption`, `MockAssumption`, `RecordReplayAssumption`, `AgentAssumption`,
`ReplyAssumption`, `SessionAssumption`, `SessionReplyAssumption`), which TLC evaluates in the runs. All but
`TraceAssumption`, `ReplyAssumption` and `SessionReplyAssumption` only say that counts are naturals, agents and traces finite, numbers of task directories at most six digits long, prompts sequences of chunks, that an
exchange has at least one input token and that the choices on offer are not empty. `TraceAssumption` says that an id
has the same number of tokens wherever it occurs, as a hash of contents does; a trace file can contradict it. `ReplyAssumption` is what a
reply is: its calls have different ids, if any, and no proper prefix of the arguments of a call parses. JSON
objects have the latter property; the former is the API's, and `complete()` relies on it.
`SessionReplyAssumption` says that every call of a reply has a name, as the API has it and as the translation needs, which
begins a call only where there is one; ids may be missing or repeated there, and arguments cut off or empty.

| module | theorem | property |
|---|---|---|
| `ConversationProofs` | `TypeCorrect`, `NoUserIsTrapped`, `SentRequestsFit`, `HistoryIsExact` | `TypeOK`, `NeverTrapped`, `SentFits`, `HistoryIsRecent` (`TypeOK` and `SentFits` have no run of their own) |
| | `FitNeverChanges`, `CompactionIsNeverIdle` | `FitIsForever` (no run of its own), `CompactionForgets` |
| | `AnswersAreWhole`, `NothingGetsLost`, `TracesAreTheRecording` | `AnswersSurvive`, `NothingIsLost`, `TraceIsTheRecording` |
| | `SessionTypeCorrect` | `SessionTypeOK` (no run of its own) |
| `ScenarioProofs` | `TypeCorrect`, `SavedIsComplete`, `NothingOrphaned`, `ExitIsHonest`, `ShutdownIsQuiet` | `TypeOK` (no run of its own), `ResultsComplete`, `NoOrphans`, `ExitTellsResults`, `QuietAfterShutdown` |
| | `CountersAreExact`, `NoTurnLostOrRepeated`, `AbortIsPrompt` | `CountersMatchRecords`, `TurnsRecordedOnce`, `AbortAtThreshold` |
| | `UsersRunAlone` | `UsersAreIndependent` |
| | `ImplementsUserContext` | `Spec => User(u)!Spec`, for each user |
| `SloSweepProofs` | `TypeCorrect`, `ReportIsSharp`, `LevelsTestedOnce` | `TypeOK` (no run of its own), `KneeIsSharp`, `TestedOnce` |
| | `StepsAreSeparate`, `FullSample` | `StepsDoNotOverlap`, `PassedOnFullSample` |
| `HitRateProofs` | `TypeCorrect`, `DeltaIsTheMeasurement` | `TypeOK` (no run of its own), `DeltaIsMeasured` |
| | `TargetIsHit`, `ReportIsWhole` | `TargetIsRealized`, `ReportIsComplete` |
| `PrefixCacheProofs` | `MostRecentStay`, `HitsAreMonotone`, `CeilingBoundsEveryBudget`, `TypeCorrect` | `ResidentsAreMostRecent`, `HitsGrowWithBudget`, `CeilingIsMaximal`, `TypeOK` (no run of its own) |
| `MockServerProofs` | `TypeCorrect`, `LiveStaysCached`, `LeaksComeFromRepeats`, `ExternalIsIdle` | `TypeOK`, `LiveIsCached`, `LeakOnlyByRepeats`, `ExternalNeverHits` |
| `RecordReplayProofs` | `TypeCorrect`, `SessionsStayInOrder`, `AnswersAreReplayed` | `TypeOK` (no run of its own), `SessionsKeepOrder`, `AnsweredIsReplayed` |
| `AgentRunProofs` | `AgentsKeepToTheirReach`, `ConversationsAreAccepted` | `FilesStayInReach`, `RequestsAreWellFormed` |
| | `TenAgentsNeverCollide` | no property: the promise of `agent_tasks.py:17` for up to ten tasks, before any command |
| | `NoCallIsMixed`, `TheReportIsTrue` | `CallsAreWhole`, `ReportMatchesRuns` |

**A user.** The invariant is `TypeInv /\ NoTokensNoHistory /\ FitDecides /\ SentFits /\
HistoryIsRecent`. `NeverTrapped` is not inductive: it says what a skipped turn implies, and a
user with a fitting base has to be kept from ever skipping. `FitDecides` adds that converse. That
whether a base fits never changes rests on one lemma, `CompactedFits`: compaction of a
base that fits gives one that fits, by growth or by going back. An input of at least
one token makes an empty history the same as no tokens, so an overlong context with a fitting base has
something to forget.

**A scenario run.** The invariant is `TypeInv /\ Started /\ Quiet /\ Over /\ SavedExact
/\ ExitInv`. The heart is `Over`: every user task has ended once `run()` is
past its gather or has left by any other way; it needs `Started` (no task exists before the
arrival loop, and tasks are created in order) for the exits before the gather. `SavedExact`
needs `Over` to know that nobody adds a record after the save. `Quiet` is what the cancellations and the re-read
flag are for, and gives `QuietAfterShutdown`. The lemmas on `Recorded` say once
what an outcome does to the tasks, early abort included, and `UserControl` and
`UserTypes` reduce the user's actions to it.

**What a run records.** On top of it, `RecordsInv` is `CountersMatchRecords /\ Past /\ Reached /\
Ordered /\ EndsProperly /\ AbortAtThreshold`. A step that records adds one record of the user's
turn, or two when the progress line of the first could not be printed (`OutcomeRecords`). `Past` and `Reached` place
every record before the turn its user is at, and every turn before that among the records; `Ordered` says that the
records of one user and turn are at most such a pair, side by side, which is what is left of "once" when output fails. The
last turn is reached by a user that ended because `EndsProperly` allows no other end before a shutdown. For the
counters, `FailedAppend` says what one more record does to the cardinality of the failed ones, and is applied once or twice.

**Each user by itself.** `ScenarioRefinement` maps a run to `UserContext` by counting the records of a user as sets of
turns (`RecordedTurnsOf` says what an outcome adds to them). A prepared context, a request sent, an outcome is then
`Prepare`, `Answer`, `Fail` or `BuildFailed` of the user; an answer whose progress line could not be printed is a `Fail`. What
the main task, the handler and the other users do is a `Stop` or a stutter (`OtherUserStep`, `StopOrStutter`), and
`UserSimulation` puts them together. `TurnIsNew`, from `RecordsInv`, is
needed because a mapping to sets cannot see a repeated record. With `ImplementsUserContext`
the theorems on `UserContext` in `ConversationProofs` hold of each user of a run; tlapm cannot cite them through a parametrised instance,
so that last inference is not machine-checked.

**The sweep.** The invariant is `SearchType /\ GoodUpToLast /\ RampInv /\ RefineInv /\ KneeIsSharp`.
In the ramp nothing has failed yet; in the refinement the open interval is
`lo..hi`, with the last level that passed just below and a level that failed just
above, and every failure above. `Midpoint` keeps the search inside, so no level is
tried twice, and an empty interval is a sharp report. Tallies, tasks and time-outs
are irrelevant to it, whatever a verdict is based on.
The steps have an invariant of their own, `StepInv`: `SampleInv` equates the tally of a step with
the number of pairs of a user of the level and a measured turn it is past (`MeasuredTurns`), and
`WholeInv` says that without time-out, exception or shutdown a user that is over has done all of its turns. When all are
over, the pairs are a product, whose size is the full sample.

**The hit-rate mode.** The invariant is `RunType /\ PhaseInv /\ ExitInv /\ SlotInv /\ StreakInv /\
SnapshotInv /\ AccountInv /\ CacheInv`. The pages are read one by one while engines answer late requests and
restart, so the account cannot be of the snapshots as they are: `Now(e)` is what the second snapshot would say of an
engine if the pages still missing were read at once. `AccountInv` says that, as long as both snapshots can still be
compared (`NowComparable`), the queries since the first are those of the requests looked up since (`Looked`), or more
if something failed, and that without failures the hits agree too; a restart ends the comparison for good, because
`SnapshotInv` keeps every engine `Later` than its page: restarted, or only counted on. Late requests
of the injection are the reason for `failures = 0` in it. `CacheInv` follows one engine through a calm run: each injection
served is a prefix in its cache, so all are there when the measurement starts, and every request hits. Totals over engines
are sums of functions over finite sets. tlapm has no induction over those, as the theorems of the library take an
operator, so `SumIsUnits` counts a sum out instead, as the cardinality of the pairs of an element and a number below its
count, and proves that by a smallest counterexample (`Smallest`, from the well-founded order of finite subsets);
that sums add up, grow with each part and are monotonic (`SumOfSums`, `SumOneMore`, `SumAtMost`) follows in the same way.

**The cache simulator.** The invariant says of every budget that its cache is `Beneath` the
unlimited one: it has no block that one lacks, has hit no more and has counted the same tokens; and under LRU it
is `Longest`, a suffix of the unlimited order that one block more would push over the budget. An access keeps
that block by block (`StepLongest`): a block both know moves to the end of both orders, a new one is added to
both, and one that only the unlimited cache knows lay before the suffix, which its move makes one block longer at
the front and one at the end. In each case the block before the suffix has at least the tokens behind it that it had
before. Eviction then shortens the suffix to the longest that fits. `Nested` reads off that a
smaller budget holds a subset of a larger one's blocks, so that the same request hits
no less there (`AccessedBeside`); the ceiling is the case of an unlimited budget and needs no LRU
below. Tokens are sums along the order and a request is a recursive function over its blocks; instead of an induction
theorem the proofs take the least number where something would fail (`Least`, `NeverBad`, `NeverBadDown`), and
`AccessedSteps` and `TailTokens` show from it that the recursive functions exist and obey their equations.

**The mock server.** The invariant is `TrieInv(hbm)`, `Upward(hbm)`, the equality of both tries, and the gauge. In
`TrieInv`, `NodeOK` is the point: a node has at least as many references as live sequences pass it.
So a node that loses its last reference had the evicted sequence as its only user, and since the
nodes on the way to a node are on the path of whoever passes it, what goes with it was nobody
else's either. The lemmas `RefreshedKeeps` and `TailKeeps` keep the order free of duplicates, without which an eviction
would not end a user. `Upward` says that the excess of a node, its references beyond the live sequences
that pass it, is at most that of every node above it: a repeat raises a whole path. A child that goes
with an emptied node therefore has no excess of its own, and no reference is lost unaccounted: references are left
over only where a live sequence was entered again (`LeakOnlyByRepeats`).

**Record and replay.** The invariant is `RecorderInv /\ PlayerInv`; the commands share the file
alone, so each half is kept by its own steps. In the recorder, the index
starts over with every restart, and only the pair of run and index tells requests apart: `NumberInv` keeps it ahead
of every request under way or recorded, so a new request is never in the file, and `OnceInv` has each request
in one place, upstream or recorded, with its answer only behind the entry. The order of an agent's turns needs
what holds of requests it gave up (`TurnInv`): they may still be recorded, but not with a turn
later than the agent's. In the player, `OrderInv` decides what a step does to the
account of the window: an opening request finds its session idle (`TurnSent`), the answer
to the last one finds everything else of the session over (`TurnAnswered`), and all other
steps leave the session as it was, so active sessions and free slots add up to the window, whatever failed. `ResultInv`
counts the results as the requests that are over, each once; so when all are over, `Report` is whole
in completion order and in request order alike (`ReportIsWhole`), and with the entries of the recording
being unique there is one result for each answer.

**The agents.** The invariant is `RunType /\ MainInv /\ FilesInv /\ AgentInv(t)` for every
agent `/\ MetricsInv /\ ExitInv`. In a reply under way (`Streamed`), each call is `Half` there: its slot has the
first p pieces of its arguments and its queue the others, whatever pieces of other calls came in between. So a
slot whose arguments parse is the whole call, and at the end of an uncut reply all are (`ToolCallsWhole`); this is
`CallsAreWhole`. `Conversed` has one assistant turn that may be open (`OpenAt`), with the calls not yet run left to be
answered; all before it are closed and every answer has its place behind its call. `Counted` ties turns,
steps and messages together, so that the result of an agent that is over can be read off its conversation.
`FilesInv` adds to `FilesStayInReach` that a command which is running has made every directory uncertain, so that its
answer may be anything. `MetricsInv` counts the requests as pairs of an agent and a turn: the engine served at
least those. If no agent failed, each one more is a fault, and each is one of the `Attempts`, triples of an
agent, a turn and a number up to `SdkRetries`: those of a turn that has its answer, and those lost so far of one that waits. TLC checks all of it but `RunType`, whose sets are infinite, on the instance of `AgentRun`.

**An Anthropic session.** Everything here is a fold, a filter or sequences put together (`FlattenSeq`). Those are recursive
functions, so there is a layer of lemmas first that gets by without induction: a run of steps stays where its steps lead, or
equals another run, because there would otherwise be a first step where it does not (`NeverWrong`, `RunWithin`, `SameRun`);
`RunExists` and the lemmas on folds tie the recursive definitions to such runs. `Spread(s, f)` is
what a function makes of the elements of a sequence, one after another; that it goes over concatenations, filters and other
spreads is what nearly all translations need. The invariants are three, of which the later ones need the earlier.

- `StreamInv`: what came of an answer and what is still queued are the reply (`Halfway`), for the text and for each call on its
  own, whatever came in between; a whole answer is all pieces and the closing chunks, a broken one any pieces. So the events of
  a call, picked out by its index, are its name followed by its arguments in order, and `AnswersSurvive` follows:
  for a client that reads the events, for the accumulator over the chunks, and for the same accumulator over a translation back.
- `RecInv`: the request under way is the translation of the conversation, every request recorded begins it, those
  that were answered are just the translations of what came before each answer (`RequestsFor`), and in the translation every result is behind its call (`Wired`). An answer adds calls, the agent
  answers those of the last turn, so nothing else has to be known of ids. That a translation back has every text, call and
  result again rests on `ToAnthropic` merging neighbouring results and nothing else.
- `TraceIsTheRecording` itself, which `Traced` states of a trace and the answered requests: requests that grow (`Growing`),
  capped or not, make lines that grow (`Carries`), because adding the blocks of a longer request first adds those of the
  shorter one and then the rest.

`TraceIsTheRecording` compares the messages of a line with the recording for sessions of plain turns only (findings,
section 4); the rest of it holds of all sessions.

### Only model-checked

Liveness (`Terminates`, `ShutdownTerminates`, `SweepEnds`, `ReplayEnds`), which TLAPS
1.4.5 does not reach. Every other property of the passing runs is the property of a theorem. What `BuildLiveHistory` computes for
every recording is stated by none; finding 1 is about it.

## 6. What is left out

- Time. Timers may fire at any moment; arrival rates, slots of the limiter and latencies
  do not exist. The burst of overdue limiter slots (`scheduler.py:86`) is therefore not visible.
- Text, tokenization, report formatting, statistics and the syntax of YAML.
- Parsing of traces and pages, except for its result.
- Suites: several scenario runs in one command, with Ctrl+C ending one of them at a time.
- In the session, thinking blocks, tool schemas and concurrent requests; in the agents, the text of tools' answers beyond
  whose file it shows; files of a directory other than one, paths to directories with other names than
  `task_n`, links left over from an earlier run, and an engine that counts a lost request after its retry has been answered.
- The parsers of single option values and the rules of `validate()`.
- The order among several text blocks of one message (a reply has one text), and a prefix cache of the engine that
  evicts between injection and measurement (`HitRateRun` has one prefix and keeps it).
- What the exit code tells when the console failed: the last part of `ExitTellsResults` says something only where consoles work (`Faults` without "console").
- `DeltaIsMeasured` is silent on reports over pages missing in one of the snapshots and over
  restarted engines. The program reports a rate in both cases; no document says what it means.

## 7. Plan

Done, in this order, most important first: contexts and the scenario run with their
proofs, the sweep and its proofs, the hit-rate mode, the simulator, record and replay, the mock
server and its proofs, the agents, the translators and the converter; then the refinement of
`UserContext` by a run, what a run records, the steps of the sweep, the agents, the hit-rate mode,
record and replay, the cache simulator, and the Anthropic session, proved.

Next, these modules:

1. `Suite`: scenario runs one after the other, Ctrl+C between and inside them, the exit code of the whole.
2. `RateLimiter`: slots over a discrete clock with stalls of the loop.
