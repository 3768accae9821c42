----------------------------- MODULE Translators -----------------------------
(***************************************************************************)
(* translators.py: messages and streamed answers between the Anthropic and *)
(* the OpenAI chat API.  A content that is a plain string is a list of one *)
(* text block, save where the code tells them apart; thinking blocks, which *)
(* every translation drops, and tool schemas are left out.                 *)
(*                                                                         *)
(* Definitions under a "Faulty" comment are not part of the model: each is *)
(* a mistake this code could contain, kept next to the definition it would *)
(* replace to show which property notices it.                              *)
(***************************************************************************)
EXTENDS Functions, FiniteSetsExt, ChatStream

NoRole == ""

(* Content blocks of an Anthropic message.                                 *)
Block(type, text, id, name) == [type |-> type, text |-> text, id |-> id, name |-> name]
Text(text) == Block("text", text, NoId, NoName)
ToolUse(id, name, input) == Block("tool_use", input, id, name)
ToolResult(id, text) == Block("tool_result", text, id, NoName)

Of(type, blocks) == Filter(blocks, LAMBDA b : b.type = type)
Joined(blocks) == FlattenSeq([i \in DOMAIN blocks |-> blocks[i].text])

(* An OpenAI message.  "results" is the key "_tool_results".               *)
Message(role, text, calls, answers) ==
    [role |-> role, text |-> text, calls |-> calls, answers |-> answers, results |-> <<>>]

-----------------------------------------------------------------------------
(* Anthropic to OpenAI.                                                    *)

(* Faulty: of several results the first is returned.                       *)
FirstResult(tools) == tools[1]

(* A user turn with nothing but results.                                   *)
ResultsOnly(tools) ==
    IF Len(tools) = 1 THEN tools[1]
    ELSE [Message(NoRole, <<>>, <<>>, NoId) EXCEPT !.results = tools]

(* The calls belong to an assistant turn; the results of a user turn are   *)
(* messages of their own, which the caller takes out of the converted one. *)
ToOpenAIMessage(msg) ==
    LET text == Joined(Of("text", msg.blocks))
        uses == Of("tool_use", msg.blocks)
        results == Of("tool_result", msg.blocks)
        calls == [i \in DOMAIN uses |-> [id |-> uses[i].id, name |-> uses[i].name, args |-> uses[i].text]]
        tools == [i \in DOMAIN results |-> Message("tool", results[i].text, <<>>, results[i].id)]
    IN  IF msg.role = "assistant" THEN Message(msg.role, text, calls, NoId)
        ELSE IF results = <<>> THEN Message(msg.role, text, <<>>, NoId)
        ELSE IF text # <<>> THEN [Message(msg.role, text, <<>>, NoId) EXCEPT !.results = tools]
        ELSE ResultsOnly(tools)

(* What is left of a message without its results stays, empty as it may be. *)
ToOpenAI(messages) ==
    LET Split(m) == <<[m EXCEPT !.results = <<>>]>> \o m.results
    IN  FlattenSeq([i \in DOMAIN messages |->
            LET m == ToOpenAIMessage(messages[i]) IN IF m.results # <<>> THEN Split(m) ELSE <<m>>])

-----------------------------------------------------------------------------
(* OpenAI to Anthropic.                                                    *)
ToAnthropicMessage(m) ==
    LET Use(c) == ToolUse(c.id, c.name, IF Parses(c.args) THEN c.args ELSE <<>>)
    IN  [role |-> IF m.role = "assistant" THEN "assistant" ELSE "user",
         blocks |->
             IF m.role = "tool" THEN <<ToolResult(m.answers, m.text)>>
             ELSE (IF m.text = <<>> THEN <<>> ELSE <<Text(m.text)>>)
                      \o [i \in DOMAIN m.calls |-> Use(m.calls[i])]]

(* Only results are lists of blocks: a user's text is a string.            *)
IsList(m) == m.role = "user" /\ Of("tool_result", m.blocks) # <<>>

Merged(merged, m) ==
    IF merged # <<>> /\ IsList(m) /\ IsList(Last(merged))
    THEN [merged EXCEPT ![Len(merged)].blocks = @ \o m.blocks] ELSE Append(merged, m)

ToAnthropic(messages) ==
    FoldLeft(Merged, <<>>, [i \in DOMAIN messages |-> ToAnthropicMessage(messages[i])])

-----------------------------------------------------------------------------
(* Streamed answers.                                                       *)
Event(event, index, block) == [event |-> event, index |-> index, block |-> block]
NoBlock == Block("none", <<>>, NoId, NoName)
MessageStart == Event("message_start", 0, NoBlock)
MessageDelta(reason) == Event("message_delta", 0, [NoBlock EXCEPT !.name = reason])
MessageStop == Event("message_stop", 0, NoBlock)

(* A call begins with its name, under the id that comes with the name.     *)
CallEvents(f) ==
    (IF f.name # NoName THEN <<Event("content_block_start", f.index, ToolUse(f.id, f.name, <<>>))>> ELSE <<>>)
      \o (IF f.args # <<>> THEN <<Event("content_block_delta", f.index, ToolUse(NoId, NoName, f.args))>> ELSE <<>>)

(* Faulty: every chunk begins a message.                                   *)
AlwaysStarts(chunks, i) == ~chunks[i].usage

(* The first chunk with choices begins the message.                        *)
Starts(chunks, i) == ~chunks[i].usage /\ \A j \in 1..i - 1 : chunks[j].usage

(* Text has no content_block_start; the reason that comes with the usage   *)
(* is not where clients look for it.                                       *)
ChunkToEvents(chunk, starts) ==
    IF chunk.usage THEN <<MessageDelta(""), MessageStop>>
    ELSE (IF starts THEN <<MessageStart>> ELSE <<>>)
           \o (IF chunk.text # <<>> THEN <<Event("content_block_delta", 0, Text(chunk.text))>> ELSE <<>>)
           \o FlattenSeq([i \in DOMAIN chunk.calls |-> CallEvents(chunk.calls[i])])
           \o (IF chunk.finish = "" THEN <<>>
               ELSE <<MessageDelta(IF chunk.finish = "tool_calls" THEN "tool_use" ELSE "end_turn")>>)

(* And back; what says nothing to an OpenAI client is dropped.             *)
EventToChunk(e) ==
    CASE e.event = "content_block_delta" /\ e.block.type = "text" -> <<Chunk(FALSE, e.block.text, <<>>)>>
      [] e.event = "content_block_delta" /\ e.block.type # "text" ->
            <<Chunk(FALSE, <<>>, <<Fragment(e.index, NoId, NoName, e.block.text)>>)>>
      [] e.event = "content_block_start" ->
            <<Chunk(FALSE, <<>>, <<Fragment(e.index, e.block.id, e.block.name, <<>>)>>)>>
      [] e.event = "message_delta" /\ e.block.name # "" ->
            <<[Chunk(FALSE, <<>>, <<>>) EXCEPT
                  !.finish = IF e.block.name = "tool_use" THEN "tool_calls" ELSE "stop"]>>
      [] OTHER -> <<>>

(* StreamingToolCallAccumulator.                                           *)
Feed(slots, f) ==
    LET slot == IF f.index \in DOMAIN slots THEN slots[f.index] ELSE [id |-> NoId, name |-> NoName, args |-> <<>>]
        fed == [id   |-> IF f.id # NoId THEN f.id ELSE slot.id,
                name |-> IF f.name # NoName THEN f.name ELSE slot.name,
                args |-> slot.args \o f.args]
    IN  [c \in DOMAIN slots \cup {f.index} |-> IF c = f.index THEN fed ELSE slots[c]]

Accumulated(chunks) ==
    LET slots == FoldLeft(Feed, <<>>, FlattenSeq([i \in DOMAIN chunks |-> chunks[i].calls]))
        order == Ordered(DOMAIN slots)
    IN  [k \in DOMAIN order |-> slots[order[k]]]
=============================================================================
