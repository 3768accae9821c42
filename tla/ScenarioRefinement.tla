------------------------- MODULE ScenarioRefinement -------------------------
(***************************************************************************)
(* Every user of a scenario run, read off the shared state, behaves as     *)
(* UserContext says a single user does.                                    *)
(***************************************************************************)
EXTENDS ScenarioRun

TurnsOf(u, kind) ==
    {records[i].turn : i \in {k \in DOMAIN records : records[k].user = u /\ records[k].kind = kind}}

(* A task that was cancelled or has ended will start no turn.  An answer   *)
(* whose progress line failed is not in the history.                       *)
User(u) ==
    INSTANCE UserContext WITH
        ctx <- ctx[u],
        turn <- IF task[u] \in {"cancelling", "done"} THEN MaxTurns + 1 ELSE turn[u],
        inflight <- task[u] = "posting",
        compactions <- compactions[u],
        skipped <- TurnsOf(u, "context_overflow"),
        answered <- TurnsOf(u, "ok") \ TurnsOf(u, "processing_error")

(* However the users' turns interleave, each user's context, compactions   *)
(* and recorded outcomes are those of a user run alone: nothing of another *)
(* user's conversation, failure or cancellation leaks into them.           *)
UsersAreIndependent ==
    [][\A u \in Users : User(u)!Next \/ UNCHANGED User(u)!vars]_vars
=============================================================================
