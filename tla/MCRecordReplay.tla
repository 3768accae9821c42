--------------------------- MODULE MCRecordReplay ---------------------------
EXTENDS RecordReplay

Turn(u, k) == [user |-> u, agent |-> u, turn |-> k, fits |-> TRUE]

(* Three sessions of two turns, interleaved; entries without user ids; a   *)
(* mixture, with one entry too long for the window.                        *)
MCTraces ==
    {<<Turn(1, 1), Turn(2, 1), Turn(2, 2), Turn(1, 2), Turn(3, 1), Turn(3, 2)>>,
     <<Turn(Null, 1), Turn(Null, 2), Turn(Null, 3)>>,
     <<Turn(Null, 1), Turn(1, 1), [Turn(1, 2) EXCEPT !.fits = FALSE], Turn(1, 3), Turn(Null, 2)>>}
=============================================================================
