----------------------------- MODULE MCHitRate -----------------------------
EXTENDS HitRateRun

(* One engine serves and the other only reports, or both serve.            *)
MCDeployments == {{1}, {1, 2}}
=============================================================================
