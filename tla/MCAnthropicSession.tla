------------------------- MODULE MCAnthropicSession -------------------------
EXTENDS AnthropicSession

Call(n, name, args) == [id |-> <<"given", n>>, name |-> name, args |-> args]
Reply(thinks, text, calls) == [thinks |-> thinks, text |-> text, calls |-> calls]

(* An answer after some thought; a text with a call; two calls, one of     *)
(* which is cut off.                                                       *)
MCReplies ==
    {Reply(TRUE, <<"some", "text">>, <<>>),
     Reply(FALSE, <<"text">>, <<Call(1, "read_file", Arguments)>>),
     Reply(FALSE, <<>>, <<Call(2, "read_file", Arguments), Call(3, "run_shell", <<"opened">>)>>)}
=============================================================================
