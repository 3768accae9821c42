----------------------------- MODULE MCScenario -----------------------------
EXTENDS ScenarioRefinement
MCJitter == {0, 2}
=============================================================================
