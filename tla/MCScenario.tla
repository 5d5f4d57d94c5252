----------------------------- MODULE MCScenario -----------------------------
EXTENDS ScenarioReconcile

CONSTANTS e1, w1

OneEnterer == {e1}
OneWaker   == {w1}
=============================================================================
