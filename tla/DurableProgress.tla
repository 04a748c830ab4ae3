--------------------------- MODULE DurableProgress ---------------------------
(***************************************************************************)
(* What a pipeline_id promises the operator who keeps calling run_pipeline *)
(* on it: one topic, settled once, and a sequence of step outputs that     *)
(* only ever grows, one step at a time and in order, each output computed  *)
(* from inputs that passed the guardrail.  Nothing here is ever lost or    *)
(* replaced, whatever runs, retries and process deaths happen underneath.  *)
(***************************************************************************)
EXTENDS Integers, Sequences

CONSTANTS PIPELINE_STEPS, PromptInputs, Topics, Payloads, Poisoned, Absent

VARIABLES
  subject,  \* the topic every prompt of this pipeline is built from
  done      \* the outputs of the completed steps, in order

vars == <<subject, done>>

\* The entry of the outputs dictionary under a key, if the topic is `topic`.
Entry(key, topic) ==
  IF key = "topic"
  THEN topic
  ELSE done[CHOOSE i \in 1..Len(PIPELINE_STEPS) : PIPELINE_STEPS[i] = key]

\* No input of the next step trips the guardrail.
NextPromptClean(topic) ==
  \A key \in PromptInputs[PIPELINE_STEPS[Len(done) + 1]] :
    Entry(key, topic) \notin Poisoned

Init == subject = Absent /\ done = <<>>

\* A step completes; the first one also settles the topic.
Commit(topic, output) ==
  /\ Len(done) < Len(PIPELINE_STEPS)
  /\ subject \in {Absent, topic}
  /\ NextPromptClean(topic)
  /\ subject' = topic
  /\ done' = Append(done, output)

\* A blocked first step settles the topic too.
Settle(topic) ==
  /\ Len(done) < Len(PIPELINE_STEPS)
  /\ subject = Absent
  /\ ~NextPromptClean(topic)
  /\ subject' = topic
  /\ UNCHANGED done

Next == \E topic \in Topics :
  Settle(topic) \/ \E output \in Payloads : Commit(topic, output)

Spec == Init /\ [][Next]_vars

=============================================================================
