--------------------------- MODULE TraceConverter ---------------------------
(***************************************************************************)
(* trace_converter.py: transcripts of agents as traces to be replayed.     *)
(* A message fits in one hash block, which stands for its wire text;       *)
(* lengths in tokens are left out.                                         *)
(***************************************************************************)
EXTENDS Translators

(* Lines of a Claude Code session that are not turns, or turns with        *)
(* nothing in them, are skipped.                                           *)
ExtractTurns(lines) ==
    LET kept == Filter(lines, LAMBDA l : l.type \in {"user", "assistant"} /\ l.message.blocks # <<>>)
    IN  [i \in DOMAIN kept |-> kept[i].message]

(* Faulty: the first requests are kept.                                    *)
CapFirst(requests, cap) ==
    IF cap > 0 /\ Len(requests) > cap THEN SubSeq(requests, 1, cap) ELSE requests

Cap(requests, cap) ==
    IF cap > 0 /\ Len(requests) > cap THEN SubSeq(requests, Len(requests) - cap + 1, Len(requests))
    ELSE requests

(* One request for each assistant turn, with everything up to it.  Results *)
(* that were not taken out of their message stay in it.                    *)
ClaudeRequests(turns, cap) ==
    LET history == [i \in DOMAIN turns |-> ToOpenAIMessage(turns[i])]
        Upto(i) == IF turns[i].role = "assistant" THEN <<SubSeq(history, 1, i)>> ELSE <<>>
    IN  Cap(FlattenSeq([i \in DOMAIN turns |-> Upto(i)]), cap)

(* Only conversations with an answer; with a cap, growing requests out of  *)
(* the first messages.                                                     *)
ShareGPTRequests(messages, cap) ==
    LET Upto(i) == IF messages[i].role = "assistant" THEN <<SubSeq(messages, 1, i)>> ELSE <<>>
    IN  IF \A i \in DOMAIN messages : messages[i].role # "assistant" THEN <<>>
        ELSE IF cap > 0 THEN FlattenSeq([i \in 1..Min({Len(messages), cap * 2}) |-> Upto(i)])
        ELSE <<messages>>

(* What block_hashes makes of a message: nothing of an empty one.          *)
WireText(m) == [text |-> m.text, calls |-> m.calls]
BlockHashes(m) == IF m.text = <<>> /\ m.calls = <<>> THEN <<>> ELSE <<WireText(m)>>

AddNew(ids, m) == ids \o Filter(BlockHashes(m), LAMBDA h : h \notin Range(ids))

Line(ids, request) == [hash_ids |-> ids, messages |-> request]

(* The hash ids of a Claude session are carried from request to request.   *)
Extended(lines, r) ==
    Append(lines, Line(FoldLeft(AddNew, IF lines = <<>> THEN <<>> ELSE Last(lines).hash_ids, r), r))
CumulativeLines(requests) == FoldLeft(Extended, <<>>, requests)

Lines(requests) == [k \in DOMAIN requests |-> Line(FoldLeft(AddNew, <<>>, requests[k]), requests[k])]

(* convert_file.  "openai" files hold one request in each line.            *)
ConvertFile(format, content, cap) ==
    CASE format = "claude" -> CumulativeLines(ClaudeRequests(ExtractTurns(content), cap))
      [] format = "sharegpt" -> Lines(ShareGPTRequests(content, cap))
      [] format = "openai" -> Lines(Filter(content, LAMBDA r : r # <<>>))
=============================================================================
