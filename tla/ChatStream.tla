----------------------------- MODULE ChatStream -----------------------------
(***************************************************************************)
(* How an OpenAI-compatible backend streams a reply: the environment of    *)
(* the agents and of the recording proxy.  A reply is text and tool calls; *)
(* each travels in pieces of its own, and pieces of different calls may    *)
(* come in any order.                                                      *)
(***************************************************************************)
EXTENDS Integers, Sequences, FiniteSets, SequencesExt

(* The elements of a sequence that pass a test, and those of a set of      *)
(* numbers, in their order (a SelectSeq and a SetToSortSeq to prove with). *)
Filter(s, Test(_)) == FlattenSeq([i \in DOMAIN s |-> IF Test(s[i]) THEN <<s[i]>> ELSE <<>>])
Ordered(S) == [k \in 1..Cardinality(S) |->
                  CHOOSE i \in S : Cardinality({j \in S : j < i}) = k - 1]

NoId == <<>>
NoName == ""

(* The arguments of a call are JSON, cut anywhere: here at one place.      *)
Arguments == <<"opened", "closed">>
Parses(args) == args # <<>> /\ Last(args) = "closed"

(* A piece of a call.  The first one names it.                             *)
Fragment(index, id, name, args) == [index |-> index, id |-> id, name |-> name, args |-> args]

Fragments(index, call) ==
    <<Fragment(index, call.id, call.name, <<>>)>>
      \o [k \in DOMAIN call.args |-> Fragment(index, NoId, NoName, <<call.args[k]>>)]

(* What is still to be sent, a queue for the text and one for each call.   *)
Pieces(reply) ==
    [c \in 0..Len(reply.calls) |-> IF c = 0 THEN reply.text ELSE Fragments(c, reply.calls[c])]

Sent(left, c) == [left EXCEPT ![c] = Tail(@)]
AllSent(left) == \A c \in DOMAIN left : left[c] = <<>>

Chunk(reasoning, text, calls) ==
    [reasoning |-> reasoning, text |-> text, calls |-> calls, finish |-> "", usage |-> FALSE]

(* After the last piece: the finish reason, then a chunk with the usage    *)
(* and no choices.                                                         *)
Closing(reply) ==
    <<[Chunk(FALSE, <<>>, <<>>) EXCEPT !.finish = IF reply.calls = <<>> THEN "stop" ELSE "tool_calls"],
      [Chunk(FALSE, <<>>, <<>>) EXCEPT !.usage = TRUE]>>

(* The next chunk when it comes from queue c.  The last of the reasoning   *)
(* may share a chunk with the first of the text.                           *)
ChunksFrom(reply, left, c) ==
    IF c # 0 THEN {Chunk(FALSE, <<>>, <<Head(left[c])>>)}
    ELSE {Chunk(r, <<Head(left[c])>>, <<>>) :
             r \in IF reply.thinks /\ left[c] = reply.text THEN BOOLEAN ELSE {FALSE}}
=============================================================================
