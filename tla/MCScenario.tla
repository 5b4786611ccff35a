----------------------------- MODULE MCScenario -----------------------------
EXTENDS Scenario
=============================================================================
