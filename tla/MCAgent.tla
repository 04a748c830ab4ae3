------------------------------- MODULE MCAgent -------------------------------
(* Agent with the first two steps of src/agent/steps.py, for TLC. *)
EXTENDS Agent, SeoSteps

CONSTANTS t1, good, m1, m2

MCSteps == SubSeq(SeoPipelineSteps, 1, 2)
MCPromptInputs == [step \in {"voice", "keyword"} |-> SeoPromptInputs[step]]
MCChain == <<m1, m2>>
MCErrors == {"RateLimitError", "NotFoundError", "APITimeoutError", "SelfTestFailed",
             "AllModelsExhausted", "ZombieStepDetected"}
MCTriggers == FailoverTriggerNames

=============================================================================
