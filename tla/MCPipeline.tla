----------------------------- MODULE MCPipeline -----------------------------
(* Pipeline with the steps of src/agent/steps.py, for TLC. *)
EXTENDS PipelineInvariant, SeoSteps

CONSTANTS t1, t2, t3, good, evil, broken

MCErrors == {"ValueError", "InjectedTimeout"}
MCInjected == {"InjectedTimeout"}
=============================================================================
