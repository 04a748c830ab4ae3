----------------------------- MODULE MCInjected -----------------------------
(* InjectedRun with the steps of src/agent/steps.py, for TLC. *)
EXTENDS InjectedRun, SeoSteps

CONSTANTS t1, evil, mock

MCChain == <<mock>>
MCInjectedFailures == {ScenarioToExc[fate] : fate \in Raising}
MCErrors == MCInjectedFailures \cup {"ValueError", "SelfTestFailed", "AllModelsExhausted",
                                     "ZombieStepDetected"}
MCPayloads == DOMAIN Raw
MCProfiles == {{"hang", "hallucinate"}, {"corrupt", "tool_failure"}}

=============================================================================
