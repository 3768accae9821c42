-------------------------- MODULE AnthropicSession --------------------------
(***************************************************************************)
(* An Anthropic agent (Claude Code) at work through the recording proxy    *)
(* (recorder.py, POST /v1/messages), whose upstream speaks the OpenAI API; *)
(* afterwards the transcript of the agent, or its requests, are made a     *)
(* trace (clawperf trace-convert).  The agent and the upstream are the     *)
(* environment.  Restarts of the proxy and several agents at once are in   *)
(* RecordReplay.                                                           *)
(***************************************************************************)
EXTENDS TraceConverter

CONSTANTS
    Replies,     \* what the upstream may reply
    MaxAnswers,  \* bound: answers in a session
    MaxFaults,   \* bound: requests the upstream refuses or breaks off
    Caps         \* values of --max-turns of trace-convert, 0 for none

ASSUME SessionAssumption ==
    MaxAnswers \in Nat /\ MaxFaults \in Nat /\ Caps \subseteq Nat

(* What a reply is: the upstream names every call; what it passes as the   *)
(* arguments need not parse.                                               *)
Ids == {NoId} \cup ({"given"} \X Nat)
NamedCalls == [id : Ids, name : STRING \ {NoName}, args : Seq(STRING)]

ASSUME SessionReplyAssumption ==
    \A r \in Replies : r \in [thinks : BOOLEAN, text : Seq(STRING), calls : Seq(NamedCalls)]

VARIABLES
    pc,          \* whose turn it is
    conv,        \* the agent's conversation
    reply, left, \* what the upstream replies, and what of it is still to come
    chunks,      \* what forward_streaming has received of it
    entries,     \* recording: requests, and whether they were answered
    broken,      \* the answer under way was broken off
    trace,       \* what trace-convert has made of it
    faults

sessionVars == <<pc, conv, reply, left, chunks, entries, broken, trace, faults>>

User(blocks) == [role |-> "user", blocks |-> blocks]
Prompt == User(<<Text(<<"prompt">>)>>)
NoReply == [thinks |-> FALSE, text |-> <<>>, calls |-> <<>>]
NoTrace == [format |-> "none", cap |-> 0, lines |-> <<>>]

SessionInit ==
    /\ pc = "asking" /\ conv = <<Prompt>>
    /\ reply = NoReply /\ left = Pieces(NoReply) /\ chunks = <<>>
    /\ entries = <<>> /\ broken = FALSE
    /\ trace = NoTrace /\ faults = 0

Turns(role) == Filter(conv, LAMBDA m : m.role = role)

-----------------------------------------------------------------------------
(* The proxy: anthropic_messages and forward_streaming.  There is one      *)
(* request at a time, so its place in the recording is that of its post.   *)
Post ==
    /\ pc = "asking"
    /\ \E r \in Replies : reply' = r /\ left' = Pieces(r)
    /\ chunks' = <<>> /\ broken' = FALSE /\ pc' = "upstream"
    /\ entries' = Append(entries, [messages |-> ToOpenAI(conv), answered |-> FALSE])
    /\ UNCHANGED <<conv, faults, trace>>

NextChunk ==
    /\ pc = "upstream"
    /\ \E c \in DOMAIN left :
          /\ left[c] # <<>>
          /\ \E chunk \in ChunksFrom(reply, left, c) : chunks' = Append(chunks, chunk)
          /\ left' = Sent(left, c)
    /\ UNCHANGED <<pc, conv, reply, entries, broken, faults, trace>>

UpstreamEnds ==
    /\ pc = "upstream" /\ AllSent(left)
    /\ chunks' = chunks \o Closing(reply)
    /\ pc' = "answering"
    /\ UNCHANGED <<conv, reply, left, entries, broken, faults, trace>>

(* Refused, or broken off: the agent gets the error if it has a text and   *)
(* nothing came before it, and else what did come, like a whole answer.    *)
UpstreamFails ==
    /\ pc = "upstream" /\ faults < MaxFaults
    /\ faults' = faults + 1
    /\ \/ chunks = <<>> /\ pc' = "asking" /\ UNCHANGED broken
       \/ pc' = "answering" /\ broken' = TRUE
    /\ UNCHANGED <<conv, reply, left, chunks, entries, trace>>

(* The body of the answer.                                                 *)
Events == <<MessageStart>>
            \o FlattenSeq([i \in DOMAIN chunks |-> ChunkToEvents(chunks[i], Starts(chunks, i))])
            \o <<MessageStop>>

(* The agent begins anew at every message_start and ends at the first      *)
(* message_stop; it gathers each block by its index.  An input that does   *)
(* not parse is none.                                                      *)
Read(events) ==
    LET Is(e, i) == events[i].event = e
        first == Max({i \in DOMAIN events : Is("message_start", i)})
        last == Min({i \in DOMAIN events : Is("message_stop", i)})
    IN  SubSeq(events, first + 1, last - 1)

Said(events) ==
    LET Spoken == Filter(events, LAMBDA e : e.block.type = "text")
    IN  FlattenSeq([i \in DOMAIN Spoken |-> Spoken[i].block.text])

Begun(events) == Filter(events, LAMBDA e : e.event = "content_block_start")
Beginning(events, n) == Filter(Begun(events), LAMBDA e : e.index = n)[1].block

Input(events, n) ==
    LET Deltas == Filter(events, LAMBDA e : e.event = "content_block_delta"
                                              /\ e.block.type = "tool_use" /\ e.index = n)
    IN  FlattenSeq([i \in DOMAIN Deltas |-> Deltas[i].block.text])

Use(events, n) ==
    ToolUse(Beginning(events, n).id, Beginning(events, n).name,
            IF Parses(Input(events, n)) THEN Input(events, n) ELSE <<>>)

Gathered(events) ==
    LET order == Ordered({e.index : e \in Range(Begun(events))})
    IN  (IF Said(events) = <<>> THEN <<>> ELSE <<Text(Said(events))>>)
          \o [k \in DOMAIN order |-> Use(events, order[k])]

(* The agent asks again when there was nothing in the answer.              *)
Deliver ==
    /\ pc = "answering"
    /\ LET got == Gathered(Read(Events))
       IN  IF got = <<>> THEN pc' = "asking" /\ UNCHANGED <<conv, entries>>
           ELSE /\ conv' = Append(conv, [role |-> "assistant", blocks |-> got])
                /\ entries' = [entries EXCEPT ![Len(entries)].answered = TRUE]
                /\ pc' = "answered"
    /\ UNCHANGED <<reply, left, chunks, broken, faults, trace>>

-----------------------------------------------------------------------------
(* The agent: answers all calls of a turn in one message, to which it may  *)
(* add a text, or goes on with a prompt; an empty turn is not repeated.    *)
Forget == reply' = NoReply /\ left' = Pieces(NoReply) /\ chunks' = <<>> /\ broken' = FALSE
Calls == Of("tool_use", Last(conv).blocks)
Results == [i \in DOMAIN Calls |-> ToolResult(Calls[i].id, <<Calls[i].name>>)]

GoOn ==
    /\ pc = "answered" /\ Len(Turns("assistant")) < MaxAnswers
    /\ \E more \in IF Calls = <<>> THEN {Prompt.blocks} ELSE {<<>>, <<Text(<<"reminder">>)>>} :
          conv' = Append(conv, User(Results \o more))
    /\ pc' = "asking" /\ Forget
    /\ UNCHANGED <<entries, faults, trace>>

EndSession ==
    /\ pc = "answered"
    /\ pc' = "over" /\ Forget
    /\ UNCHANGED <<conv, entries, faults, trace>>

-----------------------------------------------------------------------------
(* Files for trace-convert: the agent's session, which has other lines     *)
(* too; the texts of it, with a system message or without; its requests.   *)
SessionLines == <<[type |-> "summary", message |-> Prompt]>>
    \o [i \in DOMAIN conv |-> [type |-> conv[i].role, message |-> conv[i]]]
Texts(system) ==
    (IF system THEN <<Message("system", <<"system">>, <<>>, NoId)>> ELSE <<>>)
      \o [i \in DOMAIN conv |-> Message(conv[i].role, Joined(Of("text", conv[i].blocks)), <<>>, NoId)]
Answered == Filter(entries, LAMBDA e : e.answered)
Requests == [i \in DOMAIN Answered |-> Answered[i].messages]

TraceConvert ==
    /\ pc = "over"
    /\ \E cap \in Caps, format \in {"claude", "sharegpt", "openai"}, system \in BOOLEAN :
          LET content == CASE format = "claude" -> SessionLines
                           [] format = "sharegpt" -> Texts(system)
                           [] format = "openai" -> Requests
          IN  trace' = [format |-> format, cap |-> cap, lines |-> ConvertFile(format, content, cap)]
    /\ pc' = "converted"
    /\ UNCHANGED <<conv, reply, left, chunks, entries, broken, faults>>

Ended == pc = "converted" /\ UNCHANGED sessionVars

SessionNext ==
    \/ Post \/ NextChunk \/ UpstreamEnds \/ UpstreamFails \/ Deliver
    \/ GoOn \/ EndSession \/ TraceConvert \/ Ended

SessionSpec == SessionInit /\ [][SessionNext]_sessionVars

-----------------------------------------------------------------------------
SessionTypeOK ==
    /\ pc \in {"asking", "upstream", "answering", "answered", "over", "converted"}
    /\ \A i \in DOMAIN conv : conv[i].role \in {"user", "assistant"}
    /\ reply \in Replies \cup {NoReply}
    /\ broken \in BOOLEAN /\ faults \in 0..MaxFaults
    /\ trace.cap \in Caps \cup {0} /\ trace.format \in {"none", "claude", "sharegpt", "openai"}

(* What the agent reads out of the events of a whole answer is what the    *)
(* upstream said, its text and its calls (those whose arguments do not     *)
(* parse without them), however the pieces of parallel calls were          *)
(* interleaved; so is what an OpenAI client reads after a translation      *)
(* back, which is told why the answer ended.                               *)
AnswersSurvive ==
    pc = "answering" /\ ~broken =>
        LET got == Gathered(Read(Events))
            back == FlattenSeq([i \in DOMAIN Events |-> EventToChunk(Events[i])])
        IN  /\ Joined(Of("text", got)) = reply.text
            /\ Of("tool_use", got) =
                  [i \in DOMAIN reply.calls |->
                      LET call == reply.calls[i]
                      IN  ToolUse(call.id, call.name, IF Parses(call.args) THEN call.args ELSE <<>>)]
            /\ Accumulated(chunks) = reply.calls /\ Accumulated(back) = reply.calls
            /\ {back[i].finish : i \in DOMAIN back} \ {""} = {Closing(reply)[1].finish}

All(type, messages) == FlattenSeq([i \in DOMAIN messages |-> Of(type, messages[i].blocks)])

(* A request carries to the upstream all texts, calls and results of the   *)
(* agent's conversation, each once and in order, so that the translation   *)
(* back has them too; a result comes after its call, and every request     *)
(* extends the ones before: the session keeps its prefix.                  *)
NothingIsLost ==
    pc = "upstream" =>
        LET sent == Last(entries).messages
        IN  /\ \A type \in {"text", "tool_use", "tool_result"} :
                  All(type, ToAnthropic(sent)) = All(type, conv)
            /\ \A j \in DOMAIN sent : sent[j].role = "tool" =>
                  \E i \in 1..j - 1 : \E c \in DOMAIN sent[i].calls : sent[i].calls[c].id = sent[j].answers
            /\ \A k \in DOMAIN entries : IsPrefix(entries[k].messages, sent)

(* The user turns of which trace-convert makes what the proxy did.         *)
Plain(m) == Of("tool_result", m.blocks) = <<>> \/ (Len(m.blocks) = 1)

Hashed(line) ==
    /\ Range(line.hash_ids) = {WireText(m) : m \in {n \in Range(line.messages) : BlockHashes(n) # <<>>}}
    /\ IsInjective(line.hash_ids)

(* Every line of a trace extends the one before, in messages and in        *)
(* blocks, and has the blocks of its own messages, each once, also when a  *)
(* cap dropped the requests before.  The trace of a session has the last   *)
(* answers up to the cap, and each line is the request that was recorded   *)
(* for it with its answer.                                                 *)
TraceIsTheRecording ==
    pc = "converted" =>
        LET lines == trace.lines
            n == Len(lines)
        IN  /\ \A k \in 1..n : Hashed(lines[k])
            /\ \A k \in 2..n : /\ IsPrefix(lines[k - 1].hash_ids, lines[k].hash_ids)
                               /\ IsPrefix(lines[k - 1].messages, lines[k].messages)
            /\ trace.format = "claude" =>
                  /\ n = IF trace.cap = 0 THEN Len(Requests) ELSE Min({Len(Requests), trace.cap})
                  /\ (\A i \in DOMAIN conv : conv[i].role = "user" => Plain(conv[i])) =>
                        \A k \in 1..n :
                            LET recorded == Requests[Len(Requests) - n + k]
                            IN  /\ Front(lines[k].messages) = recorded
                                /\ Last(lines[k].messages).role = "assistant"

(* A message has a role: "{role: user|assistant|tool, ...}".               *)
EveryMessageHasRole ==
    \A k \in DOMAIN entries : \A j \in DOMAIN entries[k].messages :
        entries[k].messages[j].role # NoRole
=============================================================================
