----------------------------- MODULE MCSloSweep -----------------------------
(* Levels 3 to 6 from a start of 3: a failing level 6 leaves 4 and 5 to a  *)
(* binary search of one or two steps.  Levels 1 to 3 for the sweep whose   *)
(* ramp jumps over its maximum.                                            *)
EXTENDS SloSweep
=============================================================================
