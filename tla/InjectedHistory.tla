--------------------------- MODULE InjectedHistory ---------------------------
(***************************************************************************)
(* What a run with an injecting client leaves behind: in the log, in the   *)
(* checkpoint and in the client.  The inductive invariants behind          *)
(* OutputsAreProper, PlanDecides, PoisonedAborts and ReportsAddUp, next to *)
(* those of Pipeline, of Agent and of the client's counter.                *)
(***************************************************************************)
EXTENDS InjectedRun, AgentInvariant, PipelineInvariant

\* The one run has not begun, or it has written a checkpoint.
OneRunSoFar ==
  /\ runs = 0 => /\ pc = "down" /\ outcome = "none" /\ disk = NoCheckpoint
                 /\ log = <<>> /\ calls = <<>>
  /\ runs # 0 => disk # NoCheckpoint

-----------------------------------------------------------------------------
(* The plan *)

\* The n-th call has number n and a fate that the scenario has for n, and it
\* ends as this fate has it.
CallAsPlanned(c) ==
  /\ wraps[c].at # "new" => wraps[c].index = c /\ wraps[c].fate \in FatesOf(c)
  /\ wraps[c].at = "asleep" => wraps[c].fate \in Sleeping
  /\ calls[c].status = "answered" =>
       wraps[c].fate \notin Raising /\ calls[c].result = Response(c)
  /\ calls[c].status = "raised" => wraps[c].fate \in Raising

CallsAsPlanned == \A c \in DOMAIN wraps : CallAsPlanned(c)

\* Each StepStarted of the log stands for a call, the last one for the call that
\* is waited for or about to be made.
StartsAreCalls ==
  /\ waiting # 0 => waiting = Len(calls)
  /\ pc \notin {"down", "blocked", "call"} => Cardinality(Logged("StepStarted")) = Len(calls)
  /\ pc = "call" =>
       /\ Len(log) \in Logged("StepStarted")
       /\ Cardinality(Logged("StepStarted")) = Len(calls) + (IF waiting = 0 THEN 1 ELSE 0)

PlanInv == CallsAsPlanned /\ StartsAreCalls /\ PlanDecides

-----------------------------------------------------------------------------
(* The outputs *)

Proper(s) ==
  \A i \in 1..s.current_step : s.outputs[PIPELINE_STEPS[i]] = NormalResponse[PIPELINE_STEPS[i]]

ProperInv == (disk # NoCheckpoint => Proper(disk)) /\ (Running => Proper(state))

-----------------------------------------------------------------------------
(* The poisoned topics *)

FirstStepBlocked == <<[step |-> PIPELINE_STEPS[1], error |-> "GuardrailBlocked"]>>

\* A run keeps the topic of its checkpoint.
TopicKept == Running => state.topic = disk.topic

\* A run on a poisoned topic gets as far as its first prompt.
NotPastFirstPrompt ==
  disk # NoCheckpoint /\ disk.topic \in Poisoned =>
    /\ calls = <<>>
    /\ disk.current_step = 0
    /\ Running =>
         /\ pc \in {"fresh", "loop", "call", "blocked"}
         /\ state.current_step = 0 /\ state.topic = disk.topic
         /\ state.outputs["topic"] = IF pc = "fresh" THEN Absent ELSE state.topic
         /\ state.failed_attempts = IF pc = "blocked" THEN FirstStepBlocked ELSE <<>>
    /\ ~Running =>
         \/ outcome = "killed"
         \/ outcome = "blocked" /\ disk.failed_attempts = FirstStepBlocked

PoisonInv == TopicKept /\ NotPastFirstPrompt

-----------------------------------------------------------------------------
(* The reports *)

FailureEvents == Logged("StepFailed") \cup Logged("GuardrailTriggered")

\* The failures of the step being run that only memory has.
Unsaved ==
  CASE pc = "saved" -> 0
    [] pc \in {"fallback", "failed"} -> attempt
    [] OTHER -> attempt - 1

\* Memory has a failure for each event, the checkpoint lacks those of its next
\* step, and a run that ends leaves it so.
FailuresRecorded ==
  /\ Running => Len(state.failed_attempts) = Cardinality(FailureEvents)
  /\ Running /\ pc # "blocked" =>
       Len(disk.failed_attempts) + Unsaved = Cardinality(FailureEvents)
  /\ pc \in {"down", "fresh"} \/ (pc = "loop" /\ state.current_step >= N) => attempt = 1
  /\ outcome = "exhausted" =>
       Len(disk.failed_attempts) + MaxRetries + 1 = Cardinality(FailureEvents)
  /\ outcome \in {"completed", "blocked"} =>
       Len(disk.failed_attempts) = Cardinality(FailureEvents)

\* A run ends with its outcome.
OutcomeOfTheRun ==
  /\ Running => outcome = "running"
  /\ ~Running => outcome \in {"none", "killed", "exhausted", "completed", "blocked"}
  /\ outcome = "completed" =>
       disk.current_step = N /\ \A c \in DOMAIN wraps : wraps[c].at # "new"

\* The calls that something was done to, without the one that is waited for.
Settled(fates) == Injections(fates) \ {waiting}

\* While nothing is blocked, the failures lie between the settled calls that had
\* to fail and those that may have.
FailuresAreInjections ==
  pc \notin {"down", "blocked"} \/ outcome = "completed" =>
    /\ Cardinality(Settled(Raising \cup Spoiling)) <= Cardinality(FailureEvents)
    /\ Cardinality(FailureEvents) <= Cardinality(Settled(Fates \ {"none"}))

ReportInv == FailuresRecorded /\ OutcomeOfTheRun /\ FailuresAreInjections

OutcomeInv == OneRunSoFar /\ PlanInv /\ ProperInv /\ PoisonInv /\ ReportInv

=============================================================================
