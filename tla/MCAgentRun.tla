----------------------------- MODULE MCAgentRun -----------------------------
EXTENDS AgentRun

Call(id, name, args) == [id |-> id, name |-> name, args |-> args]
Reply(thinks, text, calls) == [thinks |-> thinks, text |-> text, calls |-> calls]

Config(tasks, page, ctrlC, outages) ==
    [bank |-> tasks, metrics |-> page, sigints |-> ctrlC, faults |-> outages]

(* An empty bank; a bank smaller than the number of tasks, interrupted; a  *)
(* bank whose tasks bring a file and bring none, measured.                 *)
MCConfigs == {Config(<<>>, FALSE, 0, 0), Config(<<TRUE>>, FALSE, 2, 0), Config(<<TRUE, FALSE>>, TRUE, 0, 1)}

(* An answer after some thought; a read and a shell command in parallel,   *)
(* without ids; a write.                                                   *)
MCReplies ==
    {Reply(TRUE, <<"text">>, <<>>),
     Reply(FALSE, <<>>, <<Call(NoId, "read_file", <<"closed">>), Call(NoId, "run_shell", <<"closed">>)>>),
     Reply(FALSE, <<>>, <<Call(<<"given", 1>>, "write_file", Arguments)>>)}
=============================================================================
