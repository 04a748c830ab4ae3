--------------------------- MODULE PipelineHistory ---------------------------
(***************************************************************************)
(* What the log of Pipeline says, counted: how often each step was tried   *)
(* in the latest run, how many answers were accepted, how many failures    *)
(* were recorded.  The inductive invariants behind LostWork,               *)
(* LogExplainsCheckpoint and RetryBudget, next to those of                 *)
(* PipelineInvariant.                                                      *)
(***************************************************************************)
EXTENDS PipelineInvariant

\* Positions of a log that hold an event of a type; Logged is this for `log`.
Positions(lines, type) == {i \in 1..Len(lines) : lines[i].type = type}

\* Positions that hold an event of a type about a step.
About(lines, type, step) == {i \in Positions(lines, type) : lines[i].step = step}

-----------------------------------------------------------------------------
(* The log explains memory as well as the checkpoint. *)

\* Indices of failed_attempts that are about a step.
FailuresOf(s, step) ==
  {i \in 1..Len(s.failed_attempts) : s.failed_attempts[i].step = step}

\* The events that go with them.
FailureLines(lines, step) ==
  About(lines, "StepFailed", step) \cup About(lines, "GuardrailTriggered", step)

Explains(lines, s) ==
  /\ \A i \in 1..s.current_step :
       About(lines, "StepSucceeded", PIPELINE_STEPS[i]) # {}
  /\ \A step \in StepNames :
       Cardinality(FailuresOf(s, step)) <= Cardinality(FailureLines(lines, step))

LogExplains ==
  /\ disk # NoCheckpoint => Explains(log, disk)
  /\ Running => Explains(log, state)

-----------------------------------------------------------------------------
(* The latest run *)

\* The first line of every run.
RunMarks == {"PipelineStarted", "PipelineResumed"}

\* No run begins after position i.
Latest(lines, i) == \A k \in 1..Len(lines) : lines[k].type \in RunMarks => k <= i

\* The events of one type about a step in the latest run.
Tries(lines, type, step) == {i \in About(lines, type, step) : Latest(lines, i)}

TimesTried(lines, type, step) == Cardinality(Tries(lines, type, step))

\* The position up to which PIPELINE_STEPS has been tried in the latest run.
Reached == IF pc \in {"save", "saved"} THEN state.current_step ELSE state.current_step + 1

Counts(started, failed) ==
  /\ TimesTried(log, "StepStarted", Step(state)) = started
  /\ TimesTried(log, "StepFailed", Step(state)) = failed

\* attempt counts what the log shows of the step being run, and no later step
\* has been tried.
AttemptsCounted ==
  /\ pc \in {"down", "fresh"} => attempt = 1
  /\ pc = "loop" /\ state.current_step < N => Counts(attempt - 1, attempt - 1)
  /\ pc = "call" => Counts(attempt, attempt - 1)
  /\ pc \in {"fallback", "failed"} => Counts(attempt, attempt)

LaterStepsUntried ==
  pc \notin {"down", "fresh"} =>
    \A i \in 1..N : i > Reached =>
      /\ Tries(log, "StepStarted", PIPELINE_STEPS[i]) = {}
      /\ Tries(log, "StepFailed", PIPELINE_STEPS[i]) = {}

\* A failed attempt is the last StepFailed of the log.
IsLastFailure(i) ==
  i \in Logged("StepFailed") /\ \A j \in Logged("StepFailed") : j <= i

LastFailureIsOurs ==
  pc \in {"fallback", "failed"} =>
    \E i \in Tries(log, "StepFailed", Step(state)) : IsLastFailure(i)

\* A run ends with its outcome, and a running one has none yet.
OutcomeOfRun == Running => outcome = "running"

\* Positions i and j were written by the same run.
Together(lines, i, j) ==
  \A k \in 1..Len(lines) : lines[k].type \in RunMarks => (k <= i <=> k <= j)

\* What the run that wrote position i has written about the same step.
Mates(lines, type, i) ==
  {j \in About(lines, type, lines[i].step) : Together(lines, i, j)}

WithinBudget(lines) ==
  \A i \in Positions(lines, "StepStarted") :
    Cardinality(Mates(lines, "StepStarted", i)) <= MaxRetries + 1

\* A run that gave up has used its budget up.
ExhaustedFairly ==
  outcome = "exhausted" =>
    \E i \in Logged("StepFailed") :
      IsLastFailure(i) /\ Cardinality(Mates(log, "StepFailed", i)) = MaxRetries + 1

RetryInv ==
  /\ AttemptsCounted
  /\ LaterStepsUntried
  /\ LastFailureIsOurs
  /\ OutcomeOfRun
  /\ WithinBudget(log)
  /\ ExhaustedFairly

HistoryInv == LostWork /\ LogExplains /\ RetryInv

=============================================================================
