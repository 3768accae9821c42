--------------------------- MODULE MCUserContext ---------------------------
(* A window of 12 tokens and a base of 9 to 12, so that some initial       *)
(* contexts never fit, some leave room for one exchange and some compact   *)
(* both with and without room to grow.                                     *)
EXTENDS UserContext
MCJitter == -1..2
MCReplySizes == 0..2
=============================================================================
