-------------------------- MODULE PipelineInvariant --------------------------
(***************************************************************************)
(* The inductive invariant of Pipeline: what relates the state in memory,  *)
(* the checkpoint and the log at each point of a run.                      *)
(***************************************************************************)
EXTENDS Pipeline

Running == pc # "down"

\* A running process has a state, and has saved or loaded a checkpoint.
RunHasState == Running => state # NoCheckpoint /\ disk # NoCheckpoint

\* Inside _run_one_step there is a step to run.
StepRemains ==
  pc \in {"call", "fallback", "failed", "blocked"} => state.current_step < N

\* current_step, completed_steps and outputs agree.
Consistent(s) ==
  /\ Len(s.completed_steps) = s.current_step
  /\ \A i \in 1..s.current_step : s.completed_steps[i] = PIPELINE_STEPS[i]
  /\ \A i \in 1..N : s.outputs[PIPELINE_STEPS[i]] # Absent <=> i <= s.current_step

\* A run sets the topic before its first step.
TopicSet(s) == s.current_step > 0 => s.outputs["topic"] # Absent

\* No completed step was computed from an input the guardrail rejects.
Clean(s) ==
  \A i \in 1..s.current_step : \A key \in PromptInputs[PIPELINE_STEPS[i]] :
    s.outputs[key] \notin Poisoned \cup {Absent}

\* The topic comes from a caller, the outputs of steps from the model.
WellSorted(s) ==
  /\ s.outputs["topic"] \in Topics \cup {Absent}
  /\ \A i \in 1..N : s.outputs[PIPELINE_STEPS[i]] \in Payloads \cup {Absent}

Sound(s) == Consistent(s) /\ TopicSet(s) /\ Clean(s) /\ WellSorted(s)

StatesSound ==
  /\ disk # NoCheckpoint => Sound(disk)
  /\ Running => Sound(state)
  /\ pc \notin {"down", "fresh"} => state.outputs["topic"] # Absent
  /\ pc = "blocked" => PromptPoisoned(state)

\* Memory only ever adds to the checkpoint: the topic, and one step while it is
\* being saved.
Adds(s, d) ==
  \A key \in Keys : d.outputs[key] # Absent => s.outputs[key] = d.outputs[key]

MemoryExtendsDisk ==
  /\ Running => Adds(state, disk)
  /\ pc = "fresh" => state.current_step = 0
  /\ pc = "save" => state.current_step = disk.current_step + 1
  /\ Running /\ pc # "save" => state.current_step = disk.current_step

MemInv == StatesSound /\ MemoryExtendsDisk

\* The log never promises more than the checkpoint holds, and its past is as the
\* properties say.
LogHistory ==
  /\ log # <<>> => disk # NoCheckpoint
  /\ \A i \in Logged("CheckpointWritten") : log[i].step_index <= disk.current_step
  /\ \A i \in Logged("PipelineCompleted") : disk.current_step = N
  /\ NoReplay
  /\ CompletedIsFinal
  /\ BlockIsTerminal

\* What the log can hold at each point of a run: nothing when the first run
\* starts, no PipelineCompleted while there is a step to run, and a blocked
\* prompt as its last line only until the run has ended.
LogPosition ==
  /\ pc = "fresh" => log = <<>>
  /\ pc \notin {"down", "loop"} => Logged("PipelineCompleted") = {}
  /\ log # <<>> /\ log[Len(log)].type = "GuardrailTriggered" =>
       pc \in {"down", "blocked"}

LogInv == LogHistory /\ LogPosition

TypeInv == TypeOK /\ RunHasState /\ StepRemains

IInv == TypeInv /\ MemInv /\ LogInv

=============================================================================
