------------------------------ MODULE SeoSteps ------------------------------
(***************************************************************************)
(* The five steps of the SEO pipeline as data (src/agent/steps.py): their  *)
(* order, and which entries of the outputs dictionary each one's prompt is *)
(* built from.  Every configuration of Pipeline uses these values.         *)
(***************************************************************************)
EXTENDS Sequences

\* PIPELINE_STEPS, by name.
SeoPipelineSteps == <<"voice", "keyword", "outline", "draft", "optimize">>

\* The keys of `outputs` that a step's build_user_prompt reads.
SeoPromptInputs ==
  [voice    |-> {"topic"},
   keyword  |-> {"topic", "voice"},
   outline  |-> {"topic", "voice", "keyword"},
   draft    |-> {"outline", "voice"},
   optimize |-> {"draft", "keyword"}]

=============================================================================
