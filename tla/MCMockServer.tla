---------------------------- MODULE MCMockServer ----------------------------
(* A growing conversation, another one with the same beginning, a prompt   *)
(* that repeats a chunk, and one that shares nothing.                      *)
EXTENDS MockServer
MCPrompts == {<<1>>, <<1, 2>>, <<1, 2, 3>>, <<1, 3>>, <<1, 1>>, <<2>>}
=============================================================================
