--------------------------- MODULE MCPrefixCache ---------------------------
EXTENDS PrefixCacheSim

(* Blocks of two tokens; block 3 is a partial block of one.                *)
MCRequests == {[ids |-> <<1, 2>>, length |-> 4], [ids |-> <<1, 3>>, length |-> 3],
               [ids |-> <<4, 2>>, length |-> 4], [ids |-> <<5>>, length |-> 2]}
=============================================================================
