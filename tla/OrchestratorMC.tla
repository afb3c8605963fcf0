--------------------------- MODULE OrchestratorMC ---------------------------
(* Values for the constants of Orchestrator shared by its model-checking runs. *)
EXTENDS Orchestrator

CONSTANTS m1, m2, b1, b2

OneMachine == {m1}
TwoMachines == {m1, m2}
TwoBrowsers == {b1, b2}
Nobody == {}

Choice(subsync, original, existing) ==
  [enable_subsync |-> subsync, original |-> original, use_existing_model |-> existing]

\* A commentary written with an existing model: three steps from the writing on.
ExistingModel == Choice(FALSE, FALSE, TRUE)
\* A commentary that learns a model first: four steps.
LearnedModel == Choice(FALSE, FALSE, FALSE)
=============================================================================
