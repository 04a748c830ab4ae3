------------------------------ MODULE Pipeline ------------------------------
(***************************************************************************)
(* The orchestrator: run_pipeline, _run_one_step, resume_or_start and the  *)
(* PipelineState they keep, run again and again for one pipeline_id.  A    *)
(* process may die between any two of its effects on the disk, and a later *)
(* run continues from the checkpoint it left.                              *)
(*                                                                         *)
(* Every action has at most one effect on the disk: it replaces state.json *)
(* (module StateStore shows that save_checkpoint does that atomically) or  *)
(* appends one line to event_log.jsonl.  What happens between building a   *)
(* prompt and checking the postcondition of the parsed answer touches no   *)
(* shared state; it is one step with an arbitrary outcome.                 *)
(***************************************************************************)
EXTENDS Integers, Sequences, FiniteSets, Functions

CONSTANTS
  PIPELINE_STEPS,  \* the step names, in order
  PromptInputs,    \* the keys of outputs a step's prompt is built from
  Topics,          \* topics a run may be started with
  Payloads,        \* outputs that pass a step's parser and postcondition
  Poisoned,        \* the values that trip the guardrail in a prompt
  Unstorable,      \* the values a UTF-8 text file cannot hold (lone surrogates)
  Errors,          \* exception types an attempt may end with
  Injected,        \* the ones that are InjectedFailure
  MaxRetries,      \* max_retries_per_step
  MaxRuns,         \* bound: how often run_pipeline is called
  MaxFaults,       \* bound: failed attempts and process deaths together
  Absent,          \* "no such key", "no such step"
  NoCheckpoint     \* state.json does not exist; no state in memory

N == Len(PIPELINE_STEPS)
StepNames == Range(PIPELINE_STEPS)
Keys == StepNames \cup {"topic"}
Values == Topics \cup Payloads

ASSUME StepsAssumption ==
  /\ PIPELINE_STEPS \in Seq(STRING)
  /\ IsInjective(PIPELINE_STEPS)
  /\ "topic" \notin StepNames

\* A step's prompt uses the topic and outputs of earlier steps only.
ASSUME PromptInputsAssumption ==
  /\ DOMAIN PromptInputs = StepNames
  /\ \A i \in 1..N : \A key \in PromptInputs[PIPELINE_STEPS[i]] :
       key = "topic" \/ \E j \in 1..(i - 1) : key = PIPELINE_STEPS[j]

ASSUME ValuesAssumption ==
  /\ Absent \notin Values \cup StepNames
  /\ Poisoned \subseteq Values
  /\ Unstorable \subseteq Values
  /\ Injected \subseteq Errors
  /\ "GuardrailBlocked" \notin Errors

ASSUME BoundsAssumption ==
  MaxRetries \in Nat /\ MaxRuns \in Nat /\ MaxFaults \in Nat

VARIABLES
  state,    \* the PipelineState of the running process
  disk,     \* what load_latest would return
  log,      \* the lines of event_log.jsonl
  pc,       \* the next effect of the running process, "down" when there is none
  attempt,  \* the loop variable of _run_one_step
  outcome,  \* how the latest run ended
  runs,     \* calls of run_pipeline so far
  faults    \* failed attempts, process deaths and saves that raised so far

vars == <<state, disk, log, pc, attempt, outcome, runs, faults>>

-----------------------------------------------------------------------------
(* Data *)

Failure == [step : StepNames, error : Errors \cup {"GuardrailBlocked"}]

PipelineState ==
  [topic : Topics,
   current_step : 0..N,
   completed_steps : Seq(StepNames),
   outputs : [Keys -> Values \cup {Absent}],
   failed_attempts : Seq(Failure)]

ASSUME NoCheckpointAssumption == NoCheckpoint \notin PipelineState

EventTypes ==
  {"PipelineStarted", "PipelineResumed", "PipelineCompleted", "StepStarted",
   "StepSucceeded", "StepFailed", "FallbackUsed", "GuardrailTriggered",
   "CheckpointWritten"}

\* step_index also stands for from_step of PipelineResumed; 0 where an event
\* has no such field.
Event ==
  [type : EventTypes, step : StepNames \cup {Absent},
   step_index : 0..N, attempt : 0..(MaxRetries + 1)]

PC == {"down", "fresh", "loop", "call", "fallback", "failed", "blocked", "save",
       "saved"}

Outcomes == {"none", "running", "completed", "exhausted", "blocked",
             "escaped", "killed"}

NewState(topic) ==
  [topic |-> topic,
   current_step |-> 0,
   completed_steps |-> <<>>,
   outputs |-> [key \in Keys |-> Absent],
   failed_attempts |-> <<>>]

\* Slip: a resumed run's topic replaces the one in outputs.
SlipSetTopic(s, topic) == [s EXCEPT !.outputs["topic"] = topic]

SetDefaultTopic(s, topic) ==
  IF s.outputs["topic"] = Absent
  THEN [s EXCEPT !.outputs["topic"] = topic]
  ELSE s

\* Slip: the output is not kept.
SlipMarkStepDone(s, step, output) ==
  [s EXCEPT !.completed_steps = Append(@, step), !.current_step = @ + 1]

MarkStepDone(s, step, output) ==
  [s EXCEPT !.completed_steps = Append(@, step),
            !.outputs = [@ EXCEPT ![step] = output],
            !.current_step = @ + 1]

MarkStepFailed(s, step, error) ==
  [s EXCEPT !.failed_attempts = Append(@, [step |-> step, error |-> error])]

\* save_checkpoint encodes every string of the state as UTF-8.
Storable(s) ==
  /\ s.topic \notin Unstorable
  /\ \A key \in Keys : s.outputs[key] \notin Unstorable

\* The step _run_one_step is called with.
Step(s) == PIPELINE_STEPS[s.current_step + 1]

\* build_user_prompt finds every key it reads.
PromptBuilds(s) == \A key \in PromptInputs[Step(s)] : s.outputs[key] # Absent

\* Slip: only the topic is screened.
SlipPromptPoisoned(s) == s.outputs["topic"] \in Poisoned

\* check_prompt_injection rejects the prompt.
PromptPoisoned(s) == \E key \in PromptInputs[Step(s)] : s.outputs[key] \in Poisoned

AppendEvent(type, step, step_index, try) ==
  log' = Append(log, [type |-> type, step |-> step,
                      step_index |-> step_index, attempt |-> try])

\* run_pipeline returns, raises, or the process dies.
Stop(how) ==
  /\ pc' = "down"
  /\ state' = NoCheckpoint
  /\ attempt' = 1
  /\ outcome' = how

Goto(label) == pc' = label /\ UNCHANGED outcome

\* run_pipeline is called.
BeginRun ==
  /\ pc = "down"
  /\ runs < MaxRuns
  /\ runs' = runs + 1

-----------------------------------------------------------------------------
(***************************************************************************)
(* Slips: variants of actions below, each with one mistake a maintainer    *)
(* could make.  No specification uses them; substituted for the action     *)
(* they vary, each one breaks a property stated at the end of this module. *)
(***************************************************************************)

\* The setdefault is done for new pipelines only.
SlipResumeWithoutTopic(topic) ==
  /\ BeginRun
  /\ disk # NoCheckpoint
  /\ AppendEvent("PipelineResumed", Absent, disk.current_step, 0)
  /\ state' = disk
  /\ pc' = "loop"
  /\ outcome' = "running"
  /\ UNCHANGED <<disk, attempt, faults>>

\* range(1, max_retries + 3).
SlipRetry ==
  /\ pc = "failed"
  /\ attempt <= MaxRetries + 1
  /\ attempt' = attempt + 1
  /\ Goto("loop")
  /\ UNCHANGED <<state, disk, log, runs, faults>>

\* The loop stops one step early.
SlipComplete ==
  /\ pc = "loop"
  /\ state.current_step >= N - 1
  /\ AppendEvent("PipelineCompleted", Absent, 0, 0)
  /\ Stop("completed")
  /\ UNCHANGED <<disk, runs, faults>>

\* A blocked prompt takes the generic handler and is retried.
SlipGuardrailBlocks ==
  /\ pc = "call"
  /\ PromptBuilds(state)
  /\ PromptPoisoned(state)
  /\ AppendEvent("GuardrailTriggered", Step(state), 0, 0)
  /\ state' = MarkStepFailed(state, Step(state), "GuardrailBlocked")
  /\ Goto("failed")
  /\ UNCHANGED <<disk, attempt, runs, faults>>

\* StepSucceeded is left for later.
SlipAttemptSucceeds(output) ==
  /\ pc = "call"
  /\ PromptBuilds(state)
  /\ ~PromptPoisoned(state)
  /\ state' = MarkStepDone(state, Step(state), output)
  /\ Goto("save")
  /\ UNCHANGED <<disk, log, attempt, runs, faults>>

\* Only the last step's checkpoint reaches the disk.
SlipSaveCheckpoint ==
  /\ pc = "save"
  /\ Storable(state)
  /\ disk' = IF state.current_step = N THEN state ELSE disk
  /\ Goto("saved")
  /\ UNCHANGED <<state, log, attempt, runs, faults>>

-----------------------------------------------------------------------------
Init ==
  /\ state = NoCheckpoint
  /\ disk = NoCheckpoint
  /\ log = <<>>
  /\ pc = "down"
  /\ attempt = 1
  /\ outcome = "none"
  /\ runs = 0
  /\ faults = 0

(***************************************************************************)
(* resume_or_start, and the setdefault of run_pipeline that follows it.    *)
(***************************************************************************)
Resume(topic) ==
  /\ BeginRun
  /\ disk # NoCheckpoint
  /\ AppendEvent("PipelineResumed", Absent, disk.current_step, 0)
  /\ state' = SetDefaultTopic(disk, topic)
  /\ pc' = "loop"
  /\ outcome' = "running"
  /\ UNCHANGED <<disk, attempt, faults>>

StartFresh(topic) ==
  /\ BeginRun
  /\ disk = NoCheckpoint
  /\ Storable(NewState(topic))
  /\ state' = NewState(topic)
  /\ disk' = state'
  /\ pc' = "fresh"
  /\ outcome' = "running"
  /\ UNCHANGED <<log, attempt, faults>>

StartFreshRaises(topic) ==
  /\ BeginRun
  /\ disk = NoCheckpoint
  /\ ~Storable(NewState(topic))
  /\ faults' = faults + 1
  /\ Stop("escaped")
  /\ UNCHANGED <<disk, log>>

LogPipelineStarted ==
  /\ pc = "fresh"
  /\ AppendEvent("PipelineStarted", Absent, 0, 0)
  /\ state' = SetDefaultTopic(state, state.topic)
  /\ Goto("loop")
  /\ UNCHANGED <<disk, attempt, runs, faults>>

(***************************************************************************)
(* The while loop of run_pipeline and the for loop of _run_one_step.       *)
(***************************************************************************)
StartAttempt ==
  /\ pc = "loop"
  /\ state.current_step < N
  /\ AppendEvent("StepStarted", Step(state), state.current_step, attempt)
  /\ Goto("call")
  /\ UNCHANGED <<state, disk, attempt, runs, faults>>

Complete ==
  /\ pc = "loop"
  /\ state.current_step >= N
  /\ AppendEvent("PipelineCompleted", Absent, 0, 0)
  /\ Stop("completed")
  /\ UNCHANGED <<disk, runs, faults>>

\* The guardrail rejects the prompt: terminal, no retry.
GuardrailBlocks ==
  /\ pc = "call"
  /\ PromptBuilds(state)
  /\ PromptPoisoned(state)
  /\ AppendEvent("GuardrailTriggered", Step(state), 0, 0)
  /\ state' = MarkStepFailed(state, Step(state), "GuardrailBlocked")
  /\ Goto("blocked")
  /\ UNCHANGED <<disk, attempt, runs, faults>>

SaveBlocked ==
  /\ pc = "blocked"
  /\ Storable(state)
  /\ disk' = state
  /\ Stop("blocked")
  /\ UNCHANGED <<log, runs, faults>>

EmitFailure(error) ==
  /\ AppendEvent("StepFailed", Step(state), state.current_step, 0)
  /\ state' = MarkStepFailed(state, Step(state), error)

\* Any other exception of the attempt, a KeyError of the prompt included.
AttemptFails(error) ==
  /\ pc = "call"
  /\ ~(PromptBuilds(state) /\ PromptPoisoned(state))
  /\ faults < MaxFaults
  /\ faults' = faults + 1
  /\ EmitFailure(error)
  /\ Goto(IF error \in Injected THEN "fallback" ELSE "failed")
  /\ UNCHANGED <<disk, attempt, runs>>

LogFallback ==
  /\ pc = "fallback"
  /\ AppendEvent("FallbackUsed", Step(state), 0, 0)
  /\ Goto("failed")
  /\ UNCHANGED <<state, disk, attempt, runs, faults>>

Retry ==
  /\ pc = "failed"
  /\ attempt <= MaxRetries
  /\ attempt' = attempt + 1
  /\ Goto("loop")
  /\ UNCHANGED <<state, disk, log, runs, faults>>

GiveUp ==
  /\ pc = "failed"
  /\ attempt > MaxRetries
  /\ Stop("exhausted")
  /\ UNCHANGED <<disk, log, runs, faults>>

AttemptSucceeds(output) ==
  /\ pc = "call"
  /\ PromptBuilds(state)
  /\ ~PromptPoisoned(state)
  /\ AppendEvent("StepSucceeded", Step(state), state.current_step, 0)
  /\ state' = MarkStepDone(state, Step(state), output)
  /\ Goto("save")
  /\ UNCHANGED <<disk, attempt, runs, faults>>

SaveCheckpoint ==
  /\ pc = "save"
  /\ Storable(state)
  /\ disk' = state
  /\ Goto("saved")
  /\ UNCHANGED <<state, log, attempt, runs, faults>>

\* The encoding error of save_checkpoint passes every handler of run_pipeline.
SaveRaises ==
  /\ pc \in {"save", "blocked"}
  /\ ~Storable(state)
  /\ faults' = faults + 1
  /\ Stop("escaped")
  /\ UNCHANGED <<disk, log, runs>>

\* The next call of _run_one_step begins with attempt 1.
LogCheckpointWritten ==
  /\ pc = "saved"
  /\ AppendEvent("CheckpointWritten", Absent, state.current_step, 0)
  /\ attempt' = 1
  /\ Goto("loop")
  /\ UNCHANGED <<state, disk, runs, faults>>

\* The process dies; its memory is gone.
Crash ==
  /\ pc # "down"
  /\ faults < MaxFaults
  /\ faults' = faults + 1
  /\ Stop("killed")
  /\ UNCHANGED <<disk, log, runs>>

Run ==
  \/ LogPipelineStarted
  \/ StartAttempt
  \/ Complete
  \/ GuardrailBlocks
  \/ SaveBlocked
  \/ \E error \in Errors : AttemptFails(error)
  \/ LogFallback
  \/ Retry
  \/ GiveUp
  \/ \E output \in Payloads : AttemptSucceeds(output)
  \/ SaveCheckpoint
  \/ SaveRaises
  \/ LogCheckpointWritten

Call == \E topic \in Topics :
  Resume(topic) \/ StartFresh(topic) \/ StartFreshRaises(topic)

Next == Run \/ Call \/ Crash

Spec == Init /\ [][Next]_vars

(***************************************************************************)
(* A running process keeps running, and an operator calls run_pipeline     *)
(* again, as the command line tool tells them to, until it has completed.  *)
(***************************************************************************)
CallAgain == outcome # "completed" /\ Call

FairSpec == Spec /\ WF_vars(Run) /\ WF_vars(CallAgain)

-----------------------------------------------------------------------------
(* Properties *)

TypeOK ==
  /\ state \in PipelineState \cup {NoCheckpoint}
  /\ disk \in PipelineState \cup {NoCheckpoint}
  /\ log \in Seq(Event)
  /\ pc \in PC
  /\ attempt \in 1..(MaxRetries + 1)
  /\ outcome \in Outcomes
  /\ runs \in 0..MaxRuns
  /\ faults \in Nat

\* Positions of the log that hold an event of a type.
Logged(type) == {i \in 1..Len(log) : log[i].type = type}

\* A checkpoint says the same thing three times: current_step, the list of
\* completed steps and the keys of outputs never disagree, so whichever of them
\* a resumed run (or an operator) reads, it continues at the same step.
CheckpointConsistent ==
  disk # NoCheckpoint =>
    /\ Len(disk.completed_steps) = disk.current_step
    /\ \A i \in 1..disk.current_step : disk.completed_steps[i] = PIPELINE_STEPS[i]
    /\ \A i \in 1..N :
         disk.outputs[PIPELINE_STEPS[i]] # Absent <=> i <= disk.current_step

\* Whatever run wrote the checkpoint and wherever it died, every later prompt
\* finds the outputs it is built from: no attempt fails with a KeyError.
PromptAlwaysBuilds == pc = "call" => PromptBuilds(state)

\* Once CheckpointWritten is in the log for a step, no run ever starts that
\* step, or an earlier one, again (CheckpointWritten carries the index of the
\* step that comes next).
NoReplay ==
  \A i \in Logged("CheckpointWritten"), j \in Logged("StepStarted") :
    i < j => log[i].step_index <= log[j].step_index

\* The log is ahead of the checkpoint, never behind it: every completed step
\* has its StepSucceeded, and every recorded failure an event of its own.
LogExplainsCheckpoint ==
  disk # NoCheckpoint =>
    /\ \A i \in 1..disk.current_step :
         \E j \in Logged("StepSucceeded") : log[j].step = PIPELINE_STEPS[i]
    /\ \A step \in StepNames :
         Cardinality({i \in 1..Len(disk.failed_attempts) :
                        disk.failed_attempts[i].step = step})
         <= Cardinality({i \in Logged("StepFailed") \cup Logged("GuardrailTriggered") :
                           log[i].step = step})

\* No completed step was computed from an input the guardrail rejects, judged
\* by the outputs the checkpoint holds now: a later run cannot swap the topic
\* or an output under a step that is already done.
CompletedFromClean ==
  disk # NoCheckpoint =>
    \A i \in 1..disk.current_step : \A key \in PromptInputs[PIPELINE_STEPS[i]] :
      disk.outputs[key] \notin Poisoned \cup {Absent}

\* A blocked prompt is terminal for its run: the next line of the log, if there
\* is one, is written by another run.
BlockIsTerminal ==
  \A i \in Logged("GuardrailTriggered") :
    i < Len(log) => log[i + 1].type = "PipelineResumed"

\* The events of the run that wrote position i.
SameRun(i, j) ==
  \A k \in Logged("PipelineStarted") \cup Logged("PipelineResumed") : k <= i <=> k <= j

\* No run takes a step more than MaxRetries + 1 times, and a run that gives up
\* has seen exactly that many failures of the step it gives up on.
RetryBudget ==
  /\ \A i \in Logged("StepStarted") :
       Cardinality({j \in Logged("StepStarted") :
                      SameRun(i, j) /\ log[j].step = log[i].step}) <= MaxRetries + 1
  /\ outcome = "exhausted" =>
       LET final == CHOOSE i \in Logged("StepFailed") :
                      \A j \in Logged("StepFailed") : j <= i
       IN  Cardinality({j \in Logged("StepFailed") :
                          SameRun(final, j) /\ log[j].step = log[final].step})
           = MaxRetries + 1

\* PipelineCompleted is written only when the checkpoint on disk holds all the
\* steps, and after it no run does any work.
CompletedIsFinal ==
  \A i \in Logged("PipelineCompleted") :
    /\ disk # NoCheckpoint /\ disk.current_step = N
    /\ \A j \in (i + 1)..Len(log) :
         log[j].type \in {"PipelineResumed", "PipelineCompleted"}

\* An answer that passed every check is lost only when its run is cut short,
\* by a process death or a save that raises, and each of those loses at most one.
CutShort == faults - Cardinality(Logged("StepFailed"))

LostWork ==
  Cardinality(Logged("StepSucceeded"))
  <= (IF disk = NoCheckpoint THEN 0 ELSE disk.current_step)
     + CutShort + (IF pc = "save" THEN 1 ELSE 0)

\* What a run has still to do: twice the steps, less one while a step that is done
\* waits for its CheckpointWritten; the attempts of the step; the effects of one.
StepsLeft == 2 * (N - state.current_step) + (IF pc \in {"save", "saved"} THEN 1 ELSE 0)
TriesLeft == MaxRetries + 1 - attempt
EffectsOfTry ==
  CASE pc = "fresh" -> 4
    [] pc = "loop" -> 3
    [] pc = "call" -> 2
    [] pc \in {"fallback", "save"} -> 1
    [] OTHER -> 0

\* No run goes round its two loops for ever, whatever its calls end in: each
\* effect that is not its last brings it down in the order of a finished step,
\* a spent attempt, a finished effect, and none of the three goes below zero.
EffectsRunOut ==
  [][pc # "down" /\ pc' # "down" =>
       /\ StepsLeft' >= 0 /\ TriesLeft' >= 0
       /\ \/ StepsLeft' < StepsLeft
          \/ StepsLeft' = StepsLeft /\ TriesLeft' < TriesLeft
          \/ /\ StepsLeft' = StepsLeft /\ TriesLeft' = TriesLeft
             /\ EffectsOfTry' < EffectsOfTry]_vars

\* The checkpoint's next step is built from an input that the guardrail rejects.
Stuck(s) ==
  /\ s # NoCheckpoint
  /\ s.current_step < N
  /\ PromptBuilds(s)
  /\ PromptPoisoned(s)

\* A block outlives the run: no topic that a later run is called with, and no
\* retry, gets a pipeline_id past a prompt that was blocked once.
BlockIsPermanent ==
  [][Stuck(disk) => Stuck(disk') /\ disk'.current_step = disk.current_step]_vars

\* The pipeline_id keeps the promise of DurableProgress: one topic, and the
\* outputs of completed steps only ever grow, whatever happens to the runs.
SettledTopic ==
  IF disk = NoCheckpoint THEN Absent ELSE disk.outputs["topic"]

CompletedOutputs ==
  IF disk = NoCheckpoint THEN <<>>
  ELSE [i \in 1..disk.current_step |-> disk.outputs[PIPELINE_STEPS[i]]]

Progress ==
  INSTANCE DurableProgress WITH subject <- SettledTopic, done <- CompletedOutputs

ImplementsDurableProgress == Progress!Spec

\* With finitely many faults and an operator who calls again, the pipeline
\* completes, unless a prompt of it is blocked for good.
EventuallySettled ==
  Unstorable = {} => <>(Logged("PipelineCompleted") # {} \/ Stuck(disk))

-----------------------------------------------------------------------------
(***************************************************************************)
(* What the documents say and the program does not do; each is refuted by  *)
(* a run of its own.                                                       *)
(***************************************************************************)

\* "Loading the latest checkpoint and continuing must be observationally
\* indistinguishable from never having crashed" (src/state/pipeline.py): the
\* prompts are about the topic the pipeline was started with.
TopicStable ==
  disk # NoCheckpoint => disk.outputs["topic"] \in {Absent, disk.topic}

\* "The on-disk JSON is the source of truth -- in-memory state is just a cache"
\* (src/state/pipeline.py): the failures of an exhausted step are in it.
FailuresPreserved ==
  outcome = "exhausted" =>
    Len(disk.failed_attempts) >= MaxRetries + 1

\* PipelineError is the "one type to catch" (src/agent/pipeline.py) and the
\* number of other exceptions that escape run_pipeline "MUST be zero"
\* (chaos/results/SUMMARY.md).
OnlyPipelineErrors == outcome # "escaped"

=============================================================================
