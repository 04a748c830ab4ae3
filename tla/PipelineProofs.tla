--------------------------- MODULE PipelineProofs ---------------------------
(***************************************************************************)
(* Theorems about Pipeline, for every list of steps, every set of topics,  *)
(* outputs and errors, and every retry budget.                             *)
(***************************************************************************)
EXTENDS PipelineInvariant, TLAPS

-----------------------------------------------------------------------------
(* Steps and values *)

\* The names in PIPELINE_STEPS are distinct keys of outputs, none of them
\* "topic".
LEMMA StepFacts ==
  /\ N \in Nat
  /\ \A i \in 1..N :
       /\ PIPELINE_STEPS[i] \in StepNames
       /\ PIPELINE_STEPS[i] \in Keys
       /\ PIPELINE_STEPS[i] # "topic"
  /\ \A i, j \in 1..N : PIPELINE_STEPS[i] = PIPELINE_STEPS[j] => i = j
  /\ \A key \in Keys : key = "topic" \/ \E i \in 1..N : key = PIPELINE_STEPS[i]
BY StepsAssumption DEF N, StepNames, Keys, Range, IsInjective

\* The inputs of a step are the topic and outputs of earlier steps.
LEMMA InputFacts ==
  ASSUME NEW i \in 1..N, NEW key \in PromptInputs[PIPELINE_STEPS[i]]
  PROVE  /\ key \in Keys
         /\ key = "topic" \/ \E j \in 1..N : j < i /\ key = PIPELINE_STEPS[j]
BY StepFacts, PromptInputsAssumption DEF Keys

-----------------------------------------------------------------------------
(* Operations on PipelineState *)

\* A new state is a state; it holds no output and no topic.
LEMMA NewStateFacts ==
  ASSUME NEW topic \in Topics
  PROVE  /\ NewState(topic) \in PipelineState
         /\ NewState(topic).topic = topic
         /\ NewState(topic).current_step = 0
         /\ NewState(topic).completed_steps = <<>>
         /\ \A key \in Keys : NewState(topic).outputs[key] = Absent
BY StepFacts DEF NewState, PipelineState

\* setdefault changes nothing but an absent topic.
LEMMA SetDefaultFacts ==
  ASSUME NEW s \in PipelineState, NEW topic \in Topics
  PROVE  /\ SetDefaultTopic(s, topic) \in PipelineState
         /\ SetDefaultTopic(s, topic).topic = s.topic
         /\ SetDefaultTopic(s, topic).current_step = s.current_step
         /\ SetDefaultTopic(s, topic).completed_steps = s.completed_steps
         /\ \A key \in Keys \ {"topic"} :
              SetDefaultTopic(s, topic).outputs[key] = s.outputs[key]
         /\ SetDefaultTopic(s, topic).outputs["topic"] # Absent
         /\ s.outputs["topic"] # Absent =>
              SetDefaultTopic(s, topic).outputs["topic"] = s.outputs["topic"]
         /\ s.outputs["topic"] = Absent =>
              SetDefaultTopic(s, topic).outputs["topic"] = topic
BY ValuesAssumption DEF SetDefaultTopic, PipelineState, Keys, Values

\* mark_step_done adds the next step and its output.
LEMMA MarkStepDoneFacts ==
  ASSUME NEW s \in PipelineState, s.current_step < N, NEW output \in Payloads
  PROVE  /\ Step(s) \in StepNames
         /\ MarkStepDone(s, Step(s), output) \in PipelineState
         /\ MarkStepDone(s, Step(s), output).current_step = s.current_step + 1
         /\ MarkStepDone(s, Step(s), output).completed_steps
              = Append(s.completed_steps, Step(s))
         /\ \A key \in Keys \ {Step(s)} :
              MarkStepDone(s, Step(s), output).outputs[key] = s.outputs[key]
         /\ MarkStepDone(s, Step(s), output).outputs[Step(s)] = output
<1>1. s.current_step + 1 \in 1..N
  BY StepFacts DEF PipelineState
<1>2. Step(s) \in StepNames /\ Step(s) \in Keys
  BY <1>1, StepFacts DEF Step
<1>3. output \in Values
  BY DEF Values
<1>4. Append(s.completed_steps, Step(s)) \in Seq(StepNames)
  BY <1>2 DEF PipelineState
<1> DEFINE outs == [s.outputs EXCEPT ![Step(s)] = output]
           done == MarkStepDone(s, Step(s), output)
<1>5. /\ outs \in [Keys -> Values \cup {Absent}]
      /\ \A key \in Keys \ {Step(s)} : outs[key] = s.outputs[key]
      /\ outs[Step(s)] = output
  BY <1>2, <1>3 DEF PipelineState
<1>6. s.current_step + 1 \in 0..N
  BY <1>1
<1>7. done = [s EXCEPT !.completed_steps = Append(s.completed_steps, Step(s)),
                       !.outputs = outs,
                       !.current_step = s.current_step + 1]
  BY DEF MarkStepDone
<1> HIDE DEF outs, done
<1>8. done \in PipelineState
  BY <1>4, <1>5, <1>6, <1>7 DEF PipelineState
<1>9. /\ done.current_step = s.current_step + 1
      /\ done.completed_steps = Append(s.completed_steps, Step(s))
      /\ done.outputs = outs
  BY <1>7 DEF PipelineState
<1> QED
  BY <1>2, <1>5, <1>8, <1>9 DEF done

\* mark_step_failed adds a failure and changes nothing else.
LEMMA MarkStepFailedFacts ==
  ASSUME NEW s \in PipelineState, s.current_step < N,
         NEW error \in Errors \cup {"GuardrailBlocked"}
  PROVE  /\ MarkStepFailed(s, Step(s), error) \in PipelineState
         /\ MarkStepFailed(s, Step(s), error).topic = s.topic
         /\ MarkStepFailed(s, Step(s), error).current_step = s.current_step
         /\ MarkStepFailed(s, Step(s), error).completed_steps = s.completed_steps
         /\ MarkStepFailed(s, Step(s), error).outputs = s.outputs
<1>1. s.current_step + 1 \in 1..N
  BY StepFacts DEF PipelineState
<1>2. Step(s) \in StepNames
  BY <1>1, StepFacts DEF Step
<1>3. [step |-> Step(s), error |-> error] \in Failure
  BY <1>2 DEF Failure
<1>4. Append(s.failed_attempts, [step |-> Step(s), error |-> error]) \in Seq(Failure)
  BY <1>3 DEF PipelineState
<1> QED
  BY <1>4 DEF MarkStepFailed, PipelineState

-----------------------------------------------------------------------------
(* The log *)

\* append_event adds one line and leaves the others alone.
LEMMA AppendFacts ==
  ASSUME NEW lines \in Seq(Event), NEW event \in Event
  PROVE  /\ Append(lines, event) \in Seq(Event)
         /\ Len(lines) \in Nat
         /\ Len(Append(lines, event)) = Len(lines) + 1
         /\ \A i \in 1..Len(lines) : Append(lines, event)[i] = lines[i]
         /\ Append(lines, event)[Len(lines) + 1] = event
OBVIOUS

\* Every line has the index of a step, or of the end.
LEMMA LineFacts ==
  ASSUME NEW lines \in Seq(Event), NEW i \in 1..Len(lines)
  PROVE  lines[i] \in Event /\ lines[i].step_index \in 0..N
<1>1. lines[i] \in Event
  OBVIOUS
<1> QED
  BY <1>1 DEF Event

\* The positions of one type of event after append_event.
LEMMA LoggedFacts ==
  ASSUME log \in Seq(Event), NEW event \in Event, log' = Append(log, event), NEW type
  PROVE  Logged(type)' = IF type = event.type
                         THEN Logged(type) \cup {Len(log) + 1}
                         ELSE Logged(type)
BY AppendFacts DEF Logged

-----------------------------------------------------------------------------
(* Types *)

\* What a state in memory and on disk looks like when a process runs.
LEMMA RunningFacts ==
  ASSUME TypeInv, Running
  PROVE  state \in PipelineState /\ disk \in PipelineState
         /\ state.current_step \in 0..N /\ disk.current_step \in 0..N
BY DEF TypeInv, TypeOK, RunHasState, PipelineState

LEMMA TypeInvInit == Init => TypeInv
BY StepFacts, BoundsAssumption, NoCheckpointAssumption
   DEF Init, TypeInv, TypeOK, RunHasState, StepRemains, Running, PC, Outcomes

\* No step of a run, no call of run_pipeline and no process death breaks a type.
LEMMA TypeInvStep == TypeInv /\ [Next]_vars => TypeInv'
<1> SUFFICES ASSUME TypeInv, [Next]_vars PROVE TypeInv'
  OBVIOUS
<1> USE StepFacts, BoundsAssumption, ValuesAssumption, NoCheckpointAssumption
<1> USE DEF TypeInv, TypeOK, RunHasState, StepRemains, Running, PC, Outcomes, Goto, Stop
<1>1. ASSUME NEW topic \in Topics, Resume(topic) PROVE TypeInv'
  <2>1. disk \in PipelineState /\ disk.current_step \in 0..N
    BY <1>1 DEF Resume, PipelineState
  <2>2. log' \in Seq(Event)
    BY <1>1, <2>1, AppendFacts DEF Resume, AppendEvent, Event, EventTypes
  <2> QED
    BY <1>1, <2>1, <2>2, SetDefaultFacts DEF Resume, BeginRun
<1>2. ASSUME NEW topic \in Topics, StartFresh(topic) PROVE TypeInv'
  BY <1>2, NewStateFacts DEF StartFresh, BeginRun
<1>3. ASSUME NEW topic \in Topics, StartFreshRaises(topic) PROVE TypeInv'
  BY <1>3 DEF StartFreshRaises, BeginRun
<1>4. CASE LogPipelineStarted
  <2>1. log' \in Seq(Event)
    BY <1>4, AppendFacts DEF LogPipelineStarted, AppendEvent, Event, EventTypes
  <2>2. state \in PipelineState /\ state.topic \in Topics
    BY <1>4 DEF LogPipelineStarted, PipelineState
  <2>3. SetDefaultTopic(state, state.topic) \in PipelineState
    BY <2>2, SetDefaultFacts
  <2> QED
    BY <1>4, <2>1, <2>3 DEF LogPipelineStarted
<1>5. CASE StartAttempt
  <2>1. state \in PipelineState /\ Step(state) \in StepNames
        /\ state.current_step \in 0..N
    BY <1>5 DEF StartAttempt, PipelineState, Step
  <2>2. log' \in Seq(Event)
    BY <1>5, <2>1, AppendFacts DEF StartAttempt, AppendEvent, Event, EventTypes
  <2> QED
    BY <1>5, <2>2 DEF StartAttempt
<1>6. CASE Complete
  <2>1. log' \in Seq(Event)
    BY <1>6, AppendFacts DEF Complete, AppendEvent, Event, EventTypes
  <2> QED
    BY <1>6, <2>1 DEF Complete
<1>7. CASE GuardrailBlocks
  <2>1. state \in PipelineState /\ state.current_step < N /\ Step(state) \in StepNames
    BY <1>7 DEF GuardrailBlocks, PipelineState, Step
  <2>2. log' \in Seq(Event)
    BY <1>7, <2>1, AppendFacts DEF GuardrailBlocks, AppendEvent, Event, EventTypes
  <2> QED
    BY <1>7, <2>1, <2>2, MarkStepFailedFacts DEF GuardrailBlocks
<1>8. CASE SaveBlocked
  BY <1>8 DEF SaveBlocked
<1>9. ASSUME NEW error \in Errors, AttemptFails(error) PROVE TypeInv'
  <2>1. state \in PipelineState /\ state.current_step < N /\ Step(state) \in StepNames
        /\ state.current_step \in 0..N
    BY <1>9 DEF AttemptFails, EmitFailure, PipelineState, Step
  <2>2. log' \in Seq(Event)
    BY <1>9, <2>1, AppendFacts DEF AttemptFails, EmitFailure, AppendEvent, Event, EventTypes
  <2>3. pc' \in {"fallback", "failed"}
    BY <1>9 DEF AttemptFails, EmitFailure
  <2> QED
    BY <1>9, <2>1, <2>2, <2>3, MarkStepFailedFacts DEF AttemptFails, EmitFailure
<1>10. CASE LogFallback
  <2>1. state \in PipelineState /\ Step(state) \in StepNames
    BY <1>10 DEF LogFallback, PipelineState, Step
  <2>2. log' \in Seq(Event)
    BY <1>10, <2>1, AppendFacts DEF LogFallback, AppendEvent, Event, EventTypes
  <2> QED
    BY <1>10, <2>2 DEF LogFallback
<1>11. CASE Retry
  BY <1>11 DEF Retry
<1>12. CASE GiveUp
  BY <1>12 DEF GiveUp
<1>13. ASSUME NEW output \in Payloads, AttemptSucceeds(output) PROVE TypeInv'
  <2>1. state \in PipelineState /\ state.current_step < N /\ Step(state) \in StepNames
        /\ state.current_step \in 0..N
    BY <1>13 DEF AttemptSucceeds, PipelineState, Step
  <2>2. log' \in Seq(Event)
    BY <1>13, <2>1, AppendFacts DEF AttemptSucceeds, AppendEvent, Event, EventTypes
  <2> QED
    BY <1>13, <2>1, <2>2, MarkStepDoneFacts DEF AttemptSucceeds
<1>14. CASE SaveCheckpoint
  BY <1>14 DEF SaveCheckpoint
<1>15. CASE SaveRaises
  BY <1>15 DEF SaveRaises
<1>16. CASE LogCheckpointWritten
  <2>1. state.current_step \in 0..N
    BY <1>16 DEF LogCheckpointWritten, PipelineState
  <2>2. log' \in Seq(Event)
    BY <1>16, <2>1, AppendFacts DEF LogCheckpointWritten, AppendEvent, Event, EventTypes
  <2> QED
    BY <1>16, <2>2 DEF LogCheckpointWritten
<1>17. CASE Crash
  BY <1>17 DEF Crash
<1>18. CASE UNCHANGED vars
  BY <1>18 DEF vars
<1> QED
  BY <1>1, <1>2, <1>3, <1>4, <1>5, <1>6, <1>7, <1>8, <1>9, <1>10, <1>11, <1>12,
     <1>13, <1>14, <1>15, <1>16, <1>17, <1>18 DEF Next, Run, Call

\* Every variable keeps its type; a running process has a state and a checkpoint,
\* and inside _run_one_step there is a step to run.
THEOREM TypeCorrect == Spec => []TypeInv
BY TypeInvInit, TypeInvStep, PTL DEF Spec

\* The variables keep their types: the state in memory and the one on disk are
\* PipelineStates, attempt stays within range(1, max_retries + 2).
THEOREM TypesHold == Spec => []TypeOK
<1>1. TypeInv => TypeOK
  BY DEF TypeInv
<1> QED
  BY <1>1, TypeCorrect, PTL

-----------------------------------------------------------------------------
(* Sound states *)

\* A new state is sound.
LEMMA NewStateSound ==
  ASSUME NEW topic \in Topics
  PROVE  Sound(NewState(topic))
BY NewStateFacts, StepFacts DEF Sound, Consistent, TopicSet, Clean, WellSorted, Keys

\* setdefault keeps a state sound: the topic of a completed step is not absent.
LEMMA SetDefaultSound ==
  ASSUME NEW s \in PipelineState, Sound(s), NEW topic \in Topics
  PROVE  /\ Sound(SetDefaultTopic(s, topic))
         /\ Adds(SetDefaultTopic(s, topic), s)
<1> DEFINE t == SetDefaultTopic(s, topic)
<1>1. /\ t.current_step = s.current_step
      /\ t.completed_steps = s.completed_steps
      /\ t.outputs["topic"] # Absent
      /\ \A key \in Keys : s.outputs[key] # Absent => t.outputs[key] = s.outputs[key]
      /\ \A key \in Keys \ {"topic"} : t.outputs[key] = s.outputs[key]
      /\ t.outputs["topic"] \in {s.outputs["topic"], topic}
  BY SetDefaultFacts DEF Keys
<1>2. s.current_step \in 0..N
  BY DEF PipelineState
<1> HIDE DEF t
<1>3. Consistent(t)
  BY <1>1, <1>2, StepFacts DEF Sound, Consistent
<1>4. Clean(t)
  <2> SUFFICES ASSUME NEW i \in 1..t.current_step,
                      NEW key \in PromptInputs[PIPELINE_STEPS[i]]
               PROVE  t.outputs[key] \notin Poisoned \cup {Absent}
    BY DEF Clean
  <2>1. i \in 1..s.current_step /\ i \in 1..N
    BY <1>1, <1>2, StepFacts
  <2>2. key \in Keys
    BY <2>1, InputFacts
  <2>3. s.outputs[key] \notin Poisoned \cup {Absent}
    BY <2>1 DEF Sound, Clean
  <2> QED
    BY <1>1, <2>2, <2>3
<1>5. WellSorted(t)
  BY <1>1, StepFacts DEF Sound, WellSorted
<1> QED
  BY <1>1, <1>3, <1>4, <1>5 DEF Sound, TopicSet, Adds, t

\* mark_step_failed touches nothing that soundness is about.
LEMMA MarkStepFailedSound ==
  ASSUME NEW s \in PipelineState, s.current_step < N, Sound(s),
         NEW error \in Errors \cup {"GuardrailBlocked"}
  PROVE  /\ Sound(MarkStepFailed(s, Step(s), error))
         /\ Adds(MarkStepFailed(s, Step(s), error), s)
<1> DEFINE t == MarkStepFailed(s, Step(s), error)
<1>1. /\ t.current_step = s.current_step
      /\ t.completed_steps = s.completed_steps
      /\ t.outputs = s.outputs
  BY MarkStepFailedFacts
<1> HIDE DEF t
<1> QED
  BY <1>1 DEF Sound, Consistent, TopicSet, Clean, WellSorted, Adds, t

\* In a sound state with a topic, the prompt of the next step finds its inputs.
LEMMA SoundPromptBuilds ==
  ASSUME NEW s \in PipelineState, s.current_step < N, Sound(s),
         s.outputs["topic"] # Absent
  PROVE  PromptBuilds(s)
<1>1. s.current_step \in 0..N /\ s.current_step + 1 \in 1..N
  BY StepFacts DEF PipelineState
<1> SUFFICES ASSUME NEW key \in PromptInputs[PIPELINE_STEPS[s.current_step + 1]]
             PROVE  s.outputs[key] # Absent
  BY DEF PromptBuilds, Step
<1>2. key = "topic" \/ \E j \in 1..N : j < s.current_step + 1 /\ key = PIPELINE_STEPS[j]
  BY <1>1, InputFacts
<1> QED
  BY <1>1, <1>2, StepFacts DEF Sound, Consistent

\* The inputs of a step are not its own output.
LEMMA InputsAreEarlier ==
  ASSUME NEW s \in PipelineState, s.current_step < N,
         NEW i \in 1..(s.current_step + 1), NEW key \in PromptInputs[PIPELINE_STEPS[i]]
  PROVE  key \in Keys \ {Step(s)}
<1>1. s.current_step \in 0..N /\ s.current_step + 1 \in 1..N /\ i \in 1..N
  BY StepFacts DEF PipelineState
<1> QED
  BY <1>1, InputFacts, StepFacts DEF Step

\* mark_step_done keeps a state sound if the prompt was built and not blocked.
LEMMA MarkStepDoneSound ==
  ASSUME NEW s \in PipelineState, s.current_step < N, Sound(s),
         s.outputs["topic"] # Absent,
         PromptBuilds(s), ~PromptPoisoned(s), NEW output \in Payloads
  PROVE  /\ Sound(MarkStepDone(s, Step(s), output))
         /\ Adds(MarkStepDone(s, Step(s), output), s)
<1> DEFINE t == MarkStepDone(s, Step(s), output)
<1>1. /\ t.current_step = s.current_step + 1
      /\ t.completed_steps = Append(s.completed_steps, Step(s))
      /\ \A key \in Keys \ {Step(s)} : t.outputs[key] = s.outputs[key]
      /\ t.outputs[Step(s)] = output
  BY MarkStepDoneFacts
<1>2. /\ s.current_step \in 0..N /\ s.current_step + 1 \in 1..N
      /\ s.completed_steps \in Seq(StepNames)
      /\ Step(s) = PIPELINE_STEPS[s.current_step + 1]
  BY StepFacts DEF PipelineState, Step
<1>3. output # Absent
  BY ValuesAssumption DEF Values
<1>4. s.outputs[Step(s)] = Absent
  BY <1>2, StepFacts DEF Sound, Consistent
<1> HIDE DEF t
<1>5. Consistent(t)
  <2>1. Len(t.completed_steps) = t.current_step
    BY <1>1, <1>2 DEF Sound, Consistent
  <2>2. \A i \in 1..t.current_step : t.completed_steps[i] = PIPELINE_STEPS[i]
    BY <1>1, <1>2 DEF Sound, Consistent
  <2>3. ASSUME NEW i \in 1..N
        PROVE  t.outputs[PIPELINE_STEPS[i]] # Absent <=> i <= t.current_step
    <3>1. CASE i = s.current_step + 1
      BY <3>1, <1>1, <1>2, <1>3
    <3>2. CASE i # s.current_step + 1
      <4>1. PIPELINE_STEPS[i] \in Keys \ {Step(s)}
        BY <3>2, <1>2, StepFacts
      <4> QED
        BY <3>2, <4>1, <1>1, <1>2 DEF Sound, Consistent
    <3> QED
      BY <3>1, <3>2
  <2> QED
    BY <2>1, <2>2, <2>3 DEF Consistent
<1>6. TopicSet(t)
  BY <1>1, <1>2, StepFacts DEF TopicSet, Keys
<1>7. Clean(t)
  <2> SUFFICES ASSUME NEW i \in 1..t.current_step,
                      NEW key \in PromptInputs[PIPELINE_STEPS[i]]
               PROVE  t.outputs[key] \notin Poisoned \cup {Absent}
    BY DEF Clean
  <2>1. i \in 1..(s.current_step + 1)
    BY <1>1
  <2>2. t.outputs[key] = s.outputs[key]
    BY <2>1, <1>1, InputsAreEarlier
  <2>3. CASE i = s.current_step + 1
    BY <2>2, <2>3, <1>2 DEF PromptBuilds, PromptPoisoned
  <2>4. CASE i # s.current_step + 1
    BY <2>1, <2>2, <2>4, <1>2 DEF Sound, Clean
  <2> QED
    BY <2>3, <2>4
<1>8. Adds(t, s)
  BY <1>1, <1>4 DEF Adds
<1>9. WellSorted(t)
  <2>1. t.outputs["topic"] = s.outputs["topic"]
    BY <1>1, <1>2, StepFacts DEF Keys
  <2>2. ASSUME NEW i \in 1..N
        PROVE  t.outputs[PIPELINE_STEPS[i]] \in Payloads \cup {Absent}
    <3>1. PIPELINE_STEPS[i] = Step(s) \/ PIPELINE_STEPS[i] \in Keys \ {Step(s)}
      BY StepFacts
    <3> QED
      BY <3>1, <1>1 DEF Sound, WellSorted
  <2> QED
    BY <2>1, <2>2 DEF Sound, WellSorted
<1> QED
  BY <1>5, <1>6, <1>7, <1>8, <1>9 DEF Sound, t

\* What memory adds to memory that adds to the disk, it adds to the disk.
LEMMA AddsTransitive ==
  ASSUME NEW a, NEW b, NEW c, Adds(a, b), Adds(b, c)
  PROVE  Adds(a, c)
BY DEF Adds

-----------------------------------------------------------------------------
(* Memory and disk *)

LEMMA MemInvInit == Init => MemInv
BY DEF Init, MemInv, StatesSound, MemoryExtendsDisk, Running

\* A checkpoint extends itself.
LEMMA AddsReflexive ==
  ASSUME NEW s
  PROVE  Adds(s, s)
BY DEF Adds

LEMMA MemInvStep == TypeInv /\ TypeInv' /\ MemInv /\ [Next]_vars => MemInv'
<1> SUFFICES ASSUME TypeInv, TypeInv', MemInv, [Next]_vars PROVE MemInv'
  OBVIOUS
<1> USE NoCheckpointAssumption
<1> USE DEF MemInv, StatesSound, MemoryExtendsDisk, Running, Goto, Stop
<1>1. ASSUME NEW topic \in Topics, Resume(topic) PROVE MemInv'
  <2>1. disk \in PipelineState
    BY <1>1 DEF Resume, TypeInv, TypeOK
  <2> QED
    BY <1>1, <2>1, SetDefaultFacts, SetDefaultSound DEF Resume
<1>2. ASSUME NEW topic \in Topics, StartFresh(topic) PROVE MemInv'
  BY <1>2, NewStateFacts, NewStateSound, AddsReflexive DEF StartFresh
<1>3. ASSUME NEW topic \in Topics, StartFreshRaises(topic) PROVE MemInv'
  BY <1>3 DEF StartFreshRaises
<1>4. CASE LogPipelineStarted
  <2>1. state \in PipelineState /\ state.topic \in Topics
    BY <1>4, RunningFacts DEF LogPipelineStarted, PipelineState
  <2>2. SetDefaultTopic(state, state.topic).current_step = state.current_step
        /\ SetDefaultTopic(state, state.topic).outputs["topic"] # Absent
        /\ Sound(SetDefaultTopic(state, state.topic))
        /\ Adds(SetDefaultTopic(state, state.topic), state)
    BY <1>4, <2>1, SetDefaultFacts, SetDefaultSound DEF LogPipelineStarted
  <2> QED
    BY <1>4, <2>2, AddsTransitive DEF LogPipelineStarted
<1>5. CASE StartAttempt
  BY <1>5 DEF StartAttempt
<1>6. CASE Complete
  BY <1>6 DEF Complete
<1>7. CASE GuardrailBlocks
  <2>1. state \in PipelineState /\ state.current_step < N
    BY <1>7, RunningFacts DEF GuardrailBlocks, TypeInv, StepRemains
  <2>2. state' = MarkStepFailed(state, Step(state), "GuardrailBlocked")
    BY <1>7 DEF GuardrailBlocks
  <2>3. state'.current_step = state.current_step /\ state'.outputs = state.outputs
        /\ Sound(state') /\ Adds(state', state)
    BY <1>7, <2>1, <2>2, MarkStepFailedFacts, MarkStepFailedSound DEF GuardrailBlocks
  <2>4. PromptPoisoned(state')
    BY <1>7, <2>3 DEF GuardrailBlocks, PromptPoisoned, Step
  <2> QED
    BY <1>7, <2>3, <2>4, AddsTransitive DEF GuardrailBlocks
<1>8. CASE SaveBlocked
  BY <1>8 DEF SaveBlocked
<1>9. ASSUME NEW error \in Errors, AttemptFails(error) PROVE MemInv'
  <2>1. state \in PipelineState /\ state.current_step < N
    BY <1>9, RunningFacts DEF AttemptFails, EmitFailure, TypeInv, StepRemains
  <2>2. state' = MarkStepFailed(state, Step(state), error)
    BY <1>9 DEF AttemptFails, EmitFailure
  <2>3. state'.current_step = state.current_step /\ state'.outputs = state.outputs
        /\ Sound(state') /\ Adds(state', state)
    BY <1>9, <2>1, <2>2, MarkStepFailedFacts, MarkStepFailedSound DEF AttemptFails, EmitFailure
  <2>4. pc' \in {"fallback", "failed"}
    BY <1>9 DEF AttemptFails, EmitFailure
  <2> QED
    BY <1>9, <2>3, <2>4, AddsTransitive DEF AttemptFails, EmitFailure
<1>10. CASE LogFallback
  BY <1>10 DEF LogFallback
<1>11. CASE Retry
  BY <1>11 DEF Retry
<1>12. CASE GiveUp
  BY <1>12 DEF GiveUp
<1>13. ASSUME NEW output \in Payloads, AttemptSucceeds(output) PROVE MemInv'
  <2>1. state \in PipelineState /\ state.current_step < N
    BY <1>13, RunningFacts DEF AttemptSucceeds, TypeInv, StepRemains
  <2>2. state' = MarkStepDone(state, Step(state), output)
    BY <1>13 DEF AttemptSucceeds
  <2>3. state'.current_step = state.current_step + 1
        /\ Sound(state') /\ Adds(state', state)
    BY <1>13, <2>1, <2>2, MarkStepDoneFacts, MarkStepDoneSound DEF AttemptSucceeds
  <2>4. state'.outputs["topic"] # Absent
    BY <1>13, <2>3 DEF AttemptSucceeds, Adds, Keys
  <2> QED
    BY <1>13, <2>3, <2>4, AddsTransitive DEF AttemptSucceeds
<1>14. CASE SaveCheckpoint
  BY <1>14, AddsReflexive DEF SaveCheckpoint
<1>15. CASE SaveRaises
  BY <1>15 DEF SaveRaises
<1>16. CASE LogCheckpointWritten
  BY <1>16 DEF LogCheckpointWritten
<1>17. CASE Crash
  BY <1>17 DEF Crash
<1>18. CASE UNCHANGED vars
  BY <1>18 DEF vars
<1> QED
  BY <1>1, <1>2, <1>3, <1>4, <1>5, <1>6, <1>7, <1>8, <1>9, <1>10, <1>11, <1>12,
     <1>13, <1>14, <1>15, <1>16, <1>17, <1>18 DEF Next, Run, Call

\* Memory and disk stay sound and related, in every reachable state.
LEMMA MemCorrect == Spec => [](TypeInv /\ MemInv)
<1>1. Init => MemInv
  BY MemInvInit
<1>2. TypeInv /\ TypeInv' /\ MemInv /\ [Next]_vars => MemInv'
  BY MemInvStep
<1> QED
  BY <1>1, <1>2, TypeCorrect, PTL DEF Spec

\* A checkpoint never contradicts itself, whatever run wrote it.
THEOREM CheckpointAlwaysConsistent == Spec => []CheckpointConsistent
<1>1. MemInv => CheckpointConsistent
  BY DEF MemInv, StatesSound, Sound, Consistent, CheckpointConsistent
<1> QED
  BY <1>1, MemCorrect, PTL

\* No attempt fails because an earlier output is missing.
THEOREM PromptsAlwaysBuild == Spec => []PromptAlwaysBuilds
<1>1. TypeInv /\ MemInv => PromptAlwaysBuilds
  <2> SUFFICES ASSUME TypeInv, MemInv, pc = "call" PROVE PromptBuilds(state)
    BY DEF PromptAlwaysBuilds
  <2>1. state \in PipelineState /\ state.current_step < N
    BY RunningFacts DEF Running, TypeInv, StepRemains
  <2>2. Sound(state) /\ state.outputs["topic"] # Absent
    BY DEF MemInv, StatesSound, Running
  <2> QED
    BY <2>1, <2>2, SoundPromptBuilds
<1> QED
  BY <1>1, MemCorrect, PTL

\* The outputs on disk were computed from inputs that pass the guardrail.
THEOREM CompletedAlwaysClean == Spec => []CompletedFromClean
<1>1. MemInv => CompletedFromClean
  BY DEF MemInv, StatesSound, Sound, Clean, CompletedFromClean
<1> QED
  BY <1>1, MemCorrect, PTL

-----------------------------------------------------------------------------
(* The log and the disk *)

\* What an event must satisfy for the history to stay right when it is appended.
MayAppend(event) ==
  /\ disk # NoCheckpoint
  /\ event.type = "CheckpointWritten" => event.step_index <= disk.current_step
  /\ event.type = "StepStarted" => event.step_index >= disk.current_step
  /\ event.type = "PipelineCompleted" => disk.current_step = N
  /\ Logged("PipelineCompleted") # {} =>
       event.type \in {"PipelineResumed", "PipelineCompleted"}
  /\ log # <<>> /\ log[Len(log)].type = "GuardrailTriggered" =>
       event.type = "PipelineResumed"

\* Appending such an event keeps the history right.
LEMMA AppendKeepsHistory ==
  ASSUME TypeOK, LogHistory, NEW event \in Event, MayAppend(event),
         log' = Append(log, event), disk' = disk
  PROVE  LogHistory'
<1> DEFINE last == Len(log) + 1
<1>1. /\ log \in Seq(Event) /\ Len(log) \in Nat /\ Len(log') = last
      /\ \A i \in 1..Len(log) : log'[i] = log[i]
      /\ log'[last] = event
  BY AppendFacts DEF TypeOK
<1>2. disk \in PipelineState /\ disk.current_step \in 0..N
  BY DEF TypeOK, MayAppend, PipelineState
<1>3. \A i \in 1..Len(log) : log[i].step_index \in 0..N
  BY <1>1, LineFacts
<1>4. N \in Nat /\ event.step_index \in 0..N
  BY StepFacts DEF Event
<1>5. \A type : Logged(type)' =
        IF type = event.type THEN Logged(type) \cup {last} ELSE Logged(type)
  BY <1>1, LoggedFacts
<1>6. \A type : Logged(type) \subseteq 1..Len(log)
  BY DEF Logged
<1>7. \A i \in Logged("CheckpointWritten")' : log'[i].step_index <= disk.current_step
  BY <1>1, <1>5, <1>6 DEF LogHistory, MayAppend
<1>8. \A i \in Logged("PipelineCompleted")' : disk.current_step = N
  BY <1>5 DEF LogHistory, MayAppend
<1>9. NoReplay'
  <2> SUFFICES ASSUME NEW i \in Logged("CheckpointWritten")',
                      NEW j \in Logged("StepStarted")', i < j
               PROVE  log'[i].step_index <= log'[j].step_index
    BY DEF NoReplay
  <2>1. i \in 1..last /\ j \in 1..last
    BY <1>1 DEF Logged
  <2>2. i \in Logged("CheckpointWritten") /\ i \in 1..Len(log)
    BY <2>1, <1>1, <1>5, <1>6
  <2>3. CASE j = last
    <3>1. log'[j] = event /\ event.type = "StepStarted"
      BY <2>3, <1>1 DEF Logged
    <3>2. log[i].step_index <= disk.current_step
      BY <2>2 DEF LogHistory
    <3> QED
      BY <2>2, <3>1, <3>2, <1>1, <1>2, <1>3, <1>4 DEF MayAppend
  <2>4. CASE j # last
    <3>1. j \in Logged("StepStarted") /\ j \in 1..Len(log)
      BY <2>1, <2>4, <1>1, <1>5, <1>6
    <3> QED
      BY <2>2, <3>1, <1>1 DEF LogHistory, NoReplay
  <2> QED
    BY <2>3, <2>4
<1>10. CompletedIsFinal'
  <2> SUFFICES ASSUME NEW i \in Logged("PipelineCompleted")'
               PROVE  /\ disk # NoCheckpoint /\ disk.current_step = N
                      /\ \A j \in (i + 1)..last :
                           log'[j].type \in {"PipelineResumed", "PipelineCompleted"}
    BY <1>1 DEF CompletedIsFinal
  <2>1. disk # NoCheckpoint /\ disk.current_step = N
    BY <1>8 DEF MayAppend
  <2>2. ASSUME NEW j \in (i + 1)..last
        PROVE  log'[j].type \in {"PipelineResumed", "PipelineCompleted"}
    <3>1. i \in 1..Len(log) /\ i \in Logged("PipelineCompleted")
      BY <1>1, <1>5, <1>6
    <3>2. CASE j = last
      BY <3>1, <3>2, <1>1 DEF MayAppend
    <3>3. CASE j # last
      <4>1. j \in (i + 1)..Len(log) /\ j \in 1..Len(log)
        BY <3>1, <3>3, <1>1
      <4> QED
        BY <3>1, <4>1, <1>1 DEF LogHistory, CompletedIsFinal
    <3> QED
      BY <3>2, <3>3
  <2> QED
    BY <2>1, <2>2
<1>11. BlockIsTerminal'
  <2> SUFFICES ASSUME NEW i \in Logged("GuardrailTriggered")', i < last
               PROVE  log'[i + 1].type = "PipelineResumed"
    BY <1>1 DEF BlockIsTerminal
  <2>1. i \in Logged("GuardrailTriggered") /\ i \in 1..Len(log)
    BY <1>1, <1>5, <1>6
  <2>2. CASE i = Len(log)
    <3>1. log # <<>> /\ log[Len(log)].type = "GuardrailTriggered"
      BY <2>1, <2>2, <1>1 DEF Logged
    <3> QED
      BY <2>2, <3>1, <1>1 DEF MayAppend
  <2>3. CASE i < Len(log)
    <3>1. i + 1 \in 1..Len(log)
      BY <2>1, <2>3, <1>1
    <3> QED
      BY <2>1, <2>3, <3>1, <1>1 DEF LogHistory, BlockIsTerminal
  <2> QED
    BY <2>1, <2>2, <2>3, <1>1
<1> QED
  BY <1>7, <1>8, <1>9, <1>10, <1>11 DEF LogHistory, MayAppend

\* Without a new event, the history stays right if the checkpoint only advances
\* and a complete one stays.
LEMMA SaveKeepsHistory ==
  ASSUME TypeOK, TypeOK', LogHistory, log' = log,
         disk # NoCheckpoint =>
           /\ disk' # NoCheckpoint
           /\ disk'.current_step >= disk.current_step
           /\ Logged("PipelineCompleted") # {} => disk'.current_step = disk.current_step
  PROVE  LogHistory'
<1>1. \A type : Logged(type)' = Logged(type)
  BY DEF Logged
<1>2. CASE disk = NoCheckpoint
  BY <1>1, <1>2 DEF LogHistory, NoReplay, CompletedIsFinal, BlockIsTerminal, Logged
<1>3. CASE disk # NoCheckpoint
  <2>1. disk.current_step \in 0..N /\ disk'.current_step \in 0..N /\ N \in Nat
    BY <1>3, StepFacts DEF TypeOK, PipelineState
  <2>2. \A i \in 1..Len(log) : log[i].step_index \in 0..N
    BY LineFacts DEF TypeOK
  <2>3. \A i \in Logged("CheckpointWritten") : log[i].step_index <= disk'.current_step
    BY <1>3, <2>1, <2>2 DEF LogHistory, Logged
  <2> QED
    BY <1>1, <1>3, <2>1, <2>3
       DEF LogHistory, NoReplay, CompletedIsFinal, BlockIsTerminal
<1> QED
  BY <1>2, <1>3

LEMMA LogInvInit == Init => LogInv
BY DEF Init, LogInv, LogHistory, LogPosition, NoReplay, CompletedIsFinal,
       BlockIsTerminal, Logged

\* A step that appends: the history stays right and the last line is the event.
LEMMA AppendStep ==
  ASSUME TypeOK, LogHistory, NEW event \in Event, MayAppend(event),
         log' = Append(log, event), disk' = disk
  PROVE  /\ LogHistory'
         /\ log'[Len(log')] = event
         /\ event.type # "PipelineCompleted" =>
              Logged("PipelineCompleted")' = Logged("PipelineCompleted")
<1>1. log \in Seq(Event)
  BY DEF TypeOK
<1>2. log'[Len(log')] = event
  BY <1>1, AppendFacts
<1>3. Logged("PipelineCompleted")' = IF "PipelineCompleted" = event.type
        THEN Logged("PipelineCompleted") \cup {Len(log) + 1}
        ELSE Logged("PipelineCompleted")
  BY <1>1, LoggedFacts
<1> QED
  BY <1>2, <1>3, AppendKeepsHistory

LEMMA LogInvStep == TypeInv /\ TypeInv' /\ MemInv /\ LogInv /\ [Next]_vars => LogInv'
<1> SUFFICES ASSUME TypeInv, TypeInv', MemInv, LogInv, [Next]_vars PROVE LogInv'
  OBVIOUS
<1>0. /\ TypeOK /\ TypeOK' /\ LogHistory
      /\ Running => /\ state \in PipelineState /\ disk \in PipelineState
                    /\ disk # NoCheckpoint
                    /\ state.current_step \in 0..N /\ disk.current_step \in 0..N
                    /\ pc # "save" => state.current_step = disk.current_step
                    /\ pc = "save" => state.current_step = disk.current_step + 1
      /\ N \in Nat
  BY RunningFacts, StepFacts DEF TypeInv, LogInv, RunHasState, MemInv, MemoryExtendsDisk
<1> USE <1>0
<1> USE DEF LogInv, LogPosition, Running, Goto, Stop
<1>1. ASSUME NEW topic \in Topics, Resume(topic) PROVE LogInv'
  <2> DEFINE event == [type |-> "PipelineResumed", step |-> Absent,
                       step_index |-> disk.current_step, attempt |-> 0]
  <2>1. disk \in PipelineState /\ disk.current_step \in 0..N
    BY <1>1 DEF Resume, TypeOK, PipelineState
  <2>2. event \in Event /\ MayAppend(event)
    BY <1>1, <2>1, BoundsAssumption DEF Event, EventTypes, MayAppend, Resume
  <2>3. log' = Append(log, event) /\ disk' = disk
    BY <1>1 DEF Resume, AppendEvent
  <2> QED
    BY <1>1, <2>2, <2>3, AppendStep DEF Resume
<1>2. ASSUME NEW topic \in Topics, StartFresh(topic) PROVE LogInv'
  <2>1. log = <<>> /\ Logged("PipelineCompleted") = {}
    BY <1>2 DEF StartFresh, LogHistory, Logged
  <2>2. log' = log /\ disk = NoCheckpoint
    BY <1>2 DEF StartFresh
  <2> QED
    BY <1>2, <2>1, <2>2, SaveKeepsHistory DEF StartFresh, Logged
<1>3. ASSUME NEW topic \in Topics, StartFreshRaises(topic) PROVE LogInv'
  BY <1>3, SaveKeepsHistory DEF StartFreshRaises, Logged, TypeOK, PipelineState
<1>4. CASE LogPipelineStarted
  <2> DEFINE event == [type |-> "PipelineStarted", step |-> Absent,
                       step_index |-> 0, attempt |-> 0]
  <2>1. event \in Event /\ MayAppend(event)
    BY <1>4, BoundsAssumption DEF Event, EventTypes, MayAppend, LogPipelineStarted, Logged
  <2>2. log' = Append(log, event) /\ disk' = disk
    BY <1>4 DEF LogPipelineStarted, AppendEvent
  <2> QED
    BY <1>4, <2>1, <2>2, AppendStep DEF LogPipelineStarted
<1>5. CASE StartAttempt
  <2> DEFINE event == [type |-> "StepStarted", step |-> Step(state),
                       step_index |-> state.current_step, attempt |-> attempt]
  <2>1. Step(state) \in StepNames
    BY <1>5, StepFacts DEF StartAttempt, Step
  <2>2. Logged("PipelineCompleted") = {}
    BY <1>5 DEF StartAttempt, LogHistory
  <2>3. event \in Event /\ MayAppend(event)
    BY <1>5, <2>1, <2>2, BoundsAssumption
       DEF Event, EventTypes, MayAppend, StartAttempt, TypeOK
  <2>4. log' = Append(log, event) /\ disk' = disk
    BY <1>5 DEF StartAttempt, AppendEvent
  <2> QED
    BY <1>5, <2>2, <2>3, <2>4, AppendStep DEF StartAttempt
<1>6. CASE Complete
  <2> DEFINE event == [type |-> "PipelineCompleted", step |-> Absent,
                       step_index |-> 0, attempt |-> 0]
  <2>1. event \in Event /\ MayAppend(event)
    BY <1>6, BoundsAssumption DEF Event, EventTypes, MayAppend, Complete
  <2>2. log' = Append(log, event) /\ disk' = disk
    BY <1>6 DEF Complete, AppendEvent
  <2> QED
    BY <1>6, <2>1, <2>2, AppendStep DEF Complete
<1>7. CASE GuardrailBlocks
  <2> DEFINE event == [type |-> "GuardrailTriggered", step |-> Step(state),
                       step_index |-> 0, attempt |-> 0]
  <2>1. Step(state) \in StepNames
    BY <1>7, StepFacts DEF GuardrailBlocks, Step, TypeInv, StepRemains
  <2>2. event \in Event /\ MayAppend(event)
    BY <1>7, <2>1, BoundsAssumption DEF Event, EventTypes, MayAppend, GuardrailBlocks
  <2>3. log' = Append(log, event) /\ disk' = disk
    BY <1>7 DEF GuardrailBlocks, AppendEvent
  <2> QED
    BY <1>7, <2>2, <2>3, AppendStep DEF GuardrailBlocks
<1>8. CASE SaveBlocked
  <2>1. log' = log /\ disk' = state /\ state # NoCheckpoint
    BY <1>8 DEF SaveBlocked, TypeInv, RunHasState
  <2> QED
    BY <1>8, <2>1, SaveKeepsHistory DEF SaveBlocked, Logged
<1>9. ASSUME NEW error \in Errors, AttemptFails(error) PROVE LogInv'
  <2> DEFINE event == [type |-> "StepFailed", step |-> Step(state),
                       step_index |-> state.current_step, attempt |-> 0]
  <2>1. Step(state) \in StepNames
    BY <1>9, StepFacts DEF AttemptFails, EmitFailure, Step, TypeInv, StepRemains
  <2>2. event \in Event /\ MayAppend(event)
    BY <1>9, <2>1, BoundsAssumption DEF Event, EventTypes, MayAppend, AttemptFails
  <2>3. log' = Append(log, event) /\ disk' = disk
    BY <1>9 DEF AttemptFails, EmitFailure, AppendEvent
  <2>4. pc' \in {"fallback", "failed"}
    BY <1>9 DEF AttemptFails, EmitFailure
  <2> QED
    BY <1>9, <2>2, <2>3, <2>4, AppendStep DEF AttemptFails, EmitFailure
<1>10. CASE LogFallback
  <2> DEFINE event == [type |-> "FallbackUsed", step |-> Step(state),
                       step_index |-> 0, attempt |-> 0]
  <2>1. Step(state) \in StepNames
    BY <1>10, StepFacts DEF LogFallback, Step, TypeInv, StepRemains
  <2>2. event \in Event /\ MayAppend(event)
    BY <1>10, <2>1, BoundsAssumption DEF Event, EventTypes, MayAppend, LogFallback
  <2>3. log' = Append(log, event) /\ disk' = disk
    BY <1>10 DEF LogFallback, AppendEvent
  <2> QED
    BY <1>10, <2>2, <2>3, AppendStep DEF LogFallback
<1>11. CASE Retry
  BY <1>11, SaveKeepsHistory DEF Retry, Logged
<1>12. CASE GiveUp
  BY <1>12, SaveKeepsHistory DEF GiveUp, Logged
<1>13. ASSUME NEW output \in Payloads, AttemptSucceeds(output) PROVE LogInv'
  <2> DEFINE event == [type |-> "StepSucceeded", step |-> Step(state),
                       step_index |-> state.current_step, attempt |-> 0]
  <2>1. Step(state) \in StepNames
    BY <1>13, StepFacts DEF AttemptSucceeds, Step, TypeInv, StepRemains
  <2>2. event \in Event /\ MayAppend(event)
    BY <1>13, <2>1, BoundsAssumption DEF Event, EventTypes, MayAppend, AttemptSucceeds
  <2>3. log' = Append(log, event) /\ disk' = disk
    BY <1>13 DEF AttemptSucceeds, AppendEvent
  <2> QED
    BY <1>13, <2>2, <2>3, AppendStep DEF AttemptSucceeds
<1>14. CASE SaveCheckpoint
  <2>1. log' = log /\ disk' = state /\ state # NoCheckpoint
    BY <1>14 DEF SaveCheckpoint, TypeInv, RunHasState
  <2> QED
    BY <1>14, <2>1, SaveKeepsHistory DEF SaveCheckpoint, Logged
<1>15. CASE SaveRaises
  BY <1>15, SaveKeepsHistory DEF SaveRaises, Logged
<1>16. CASE LogCheckpointWritten
  <2> DEFINE event == [type |-> "CheckpointWritten", step |-> Absent,
                       step_index |-> state.current_step, attempt |-> 0]
  <2>1. event \in Event /\ MayAppend(event)
    BY <1>16, BoundsAssumption DEF Event, EventTypes, MayAppend, LogCheckpointWritten
  <2>2. log' = Append(log, event) /\ disk' = disk
    BY <1>16 DEF LogCheckpointWritten, AppendEvent
  <2> QED
    BY <1>16, <2>1, <2>2, AppendStep DEF LogCheckpointWritten
<1>17. CASE Crash
  BY <1>17, SaveKeepsHistory DEF Crash, Logged
<1>18. CASE UNCHANGED vars
  BY <1>18, SaveKeepsHistory DEF vars, Logged, TypeOK, PipelineState
<1> QED
  BY <1>1, <1>2, <1>3, <1>4, <1>5, <1>6, <1>7, <1>8, <1>9, <1>10, <1>11, <1>12,
     <1>13, <1>14, <1>15, <1>16, <1>17, <1>18 DEF Next, Run, Call

\* The log never promises more than the checkpoint holds, in every reachable state.
LEMMA LogCorrect == Spec => [](TypeInv /\ MemInv /\ LogInv)
<1>1. TypeInv /\ TypeInv' /\ MemInv /\ LogInv /\ [Next]_vars => LogInv'
  BY LogInvStep
<1> QED
  BY <1>1, LogInvInit, MemCorrect, PTL DEF Spec

\* The inductive invariant holds.
THEOREM InvariantHolds == Spec => []IInv
BY LogCorrect, PTL DEF IInv

\* No run starts a step again whose CheckpointWritten is in the log.
THEOREM NoReplayEver == Spec => []NoReplay
<1>1. LogInv => NoReplay
  BY DEF LogInv, LogHistory
<1> QED
  BY <1>1, LogCorrect, PTL

\* PipelineCompleted stands for a complete checkpoint and is the end of all work.
THEOREM CompletedAlwaysFinal == Spec => []CompletedIsFinal
<1>1. LogInv => CompletedIsFinal
  BY DEF LogInv, LogHistory
<1> QED
  BY <1>1, LogCorrect, PTL

\* A blocked prompt ends its run.
THEOREM BlockAlwaysTerminal == Spec => []BlockIsTerminal
<1>1. LogInv => BlockIsTerminal
  BY DEF LogInv, LogHistory
<1> QED
  BY <1>1, LogCorrect, PTL

-----------------------------------------------------------------------------
(* Steps of the checkpoint *)

\* The four ways a step of Pipeline treats the checkpoint.
LEMMA DiskSteps ==
  ASSUME [Next]_vars
  PROVE  \/ disk' = disk
         \/ \E topic \in Topics : disk = NoCheckpoint /\ disk' = NewState(topic)
         \/ pc = "blocked" /\ disk' = state
         \/ pc = "save" /\ disk' = state
BY DEF Next, Run, Call, vars, Resume, StartFresh, StartFreshRaises, LogPipelineStarted,
       StartAttempt, Complete, GuardrailBlocks, SaveBlocked, AttemptFails, LogFallback,
       Retry, GiveUp, AttemptSucceeds, SaveCheckpoint, SaveRaises,
       LogCheckpointWritten, Crash

\* The inputs of the checkpoint's next step are in memory as they are on disk.
LEMMA InputsOnDisk ==
  ASSUME TypeInv, MemInv, Running, disk.current_step < N,
         NEW key \in PromptInputs[Step(disk)], disk.outputs[key] # Absent
  PROVE  state.outputs[key] = disk.outputs[key]
<1>1. disk.current_step + 1 \in 1..N
  BY RunningFacts, StepFacts
<1>2. key \in Keys
  BY <1>1, InputFacts DEF Step
<1> QED
  BY <1>2 DEF MemInv, MemoryExtendsDisk, Adds

\* A pipeline_id whose next prompt is blocked stays at that step for ever.
THEOREM BlockAlwaysPermanent == Spec => BlockIsPermanent
<1>1. ASSUME TypeInv, TypeInv', MemInv, [Next]_vars, Stuck(disk)
      PROVE  Stuck(disk') /\ disk'.current_step = disk.current_step
  <2>1. CASE disk' = disk
    BY <1>1, <2>1
  <2>2. CASE Running /\ disk' = state
    <3>1. /\ disk.current_step \in 0..N /\ state.current_step \in 0..N
          /\ disk.current_step < N /\ state # NoCheckpoint
      BY <1>1, <2>2, RunningFacts DEF Stuck, TypeInv, RunHasState
    <3>2. \A key \in PromptInputs[Step(disk)] : state.outputs[key] = disk.outputs[key]
      BY <1>1, <2>2, <3>1, InputsOnDisk DEF Stuck, PromptBuilds
    <3>3. PICK key \in PromptInputs[Step(disk)] : disk.outputs[key] \in Poisoned
      BY <1>1 DEF Stuck, PromptPoisoned
    <3>4. state.current_step = disk.current_step
      <4>1. SUFFICES ASSUME state.current_step = disk.current_step + 1 PROVE FALSE
        BY <1>1, <2>2 DEF MemInv, MemoryExtendsDisk, Running
      <4>2. key \in PromptInputs[PIPELINE_STEPS[state.current_step]]
            /\ state.current_step \in 1..state.current_step
        BY <3>1, <4>1 DEF Step
      <4>3. state.outputs[key] \notin Poisoned
        BY <1>1, <2>2, <4>2 DEF MemInv, StatesSound, Sound, Clean
      <4> QED
        BY <3>2, <3>3, <4>3
    <3>5. Step(state) = Step(disk)
      BY <3>4 DEF Step
    <3> QED
      BY <1>1, <2>2, <3>1, <3>2, <3>4, <3>5 DEF Stuck, PromptBuilds, PromptPoisoned
  <2> QED
    BY <1>1, <2>1, <2>2, DiskSteps DEF Stuck, Running
<1>2. TypeInv /\ TypeInv' /\ MemInv /\ [Next]_vars =>
        [Stuck(disk) => Stuck(disk') /\ disk'.current_step = disk.current_step]_vars
  BY <1>1
<1> QED
  BY <1>2, MemCorrect, PTL DEF Spec, BlockIsPermanent

\* Every run ends: its effects go down in a well-founded order, for any number of
\* steps and any retry budget, so that only a call that never ends could stop it
\* from coming to its own end.
THEOREM EffectsAlwaysRunOut == Spec => EffectsRunOut
<1>1. ASSUME TypeInv, TypeInv', Running, Running', Next
      PROVE  /\ StepsLeft' >= 0 /\ TriesLeft' >= 0
             /\ \/ StepsLeft' < StepsLeft
                \/ StepsLeft' = StepsLeft /\ TriesLeft' < TriesLeft
                \/ /\ StepsLeft' = StepsLeft /\ TriesLeft' = TriesLeft
                   /\ EffectsOfTry' < EffectsOfTry
  <2>1. /\ state \in PipelineState /\ state' \in PipelineState
        /\ state.current_step \in 0..N /\ state'.current_step \in 0..N
        /\ attempt \in 1..(MaxRetries + 1) /\ attempt' \in 1..(MaxRetries + 1)
        /\ N \in Nat /\ MaxRetries \in Nat
    BY <1>1, StepFacts, BoundsAssumption DEF TypeInv, TypeOK, RunHasState, PipelineState, Running
  <2>2. /\ StepsLeft \in Nat /\ StepsLeft' \in Nat /\ TriesLeft \in Nat /\ TriesLeft' \in Nat
    <3>1. ASSUME NEW left \in 0..N, NEW more \in {0, 1}
          PROVE  2 * (N - left) + more \in Nat
      BY <2>1
    <3>2. StepsLeft \in Nat
      BY <2>1, <3>1 DEF StepsLeft
    <3>3. StepsLeft' \in Nat
      BY <2>1, <3>1 DEF StepsLeft
    <3>4. ASSUME NEW try \in 1..(MaxRetries + 1)
          PROVE  MaxRetries + 1 - try \in Nat
      BY <2>1
    <3>5. TriesLeft \in Nat
      BY <2>1, <3>4 DEF TriesLeft
    <3>6. TriesLeft' \in Nat
      BY <2>1, <3>4 DEF TriesLeft
    <3> QED
      BY <3>2, <3>3, <3>5, <3>6
  <2>3. ASSUME state'.current_step = state.current_step, attempt' = attempt,
               pc \in {"save", "saved"} <=> pc' \in {"save", "saved"}
        PROVE  StepsLeft' = StepsLeft /\ TriesLeft' = TriesLeft
    BY <2>3 DEF StepsLeft, TriesLeft
  <2>4. CASE LogPipelineStarted
    <3>1. pc = "fresh" /\ pc' = "loop" /\ attempt' = attempt
          /\ state' = SetDefaultTopic(state, state.topic)
      BY <2>4 DEF LogPipelineStarted, Goto
    <3>2. state'.current_step = state.current_step
      BY <2>1, <3>1 DEF SetDefaultTopic, PipelineState
    <3> QED
      BY <2>2, <2>3, <3>1, <3>2 DEF EffectsOfTry
  <2>5. CASE StartAttempt \/ LogFallback \/ SaveCheckpoint
    <3>1. /\ state' = state /\ attempt' = attempt
          /\ \/ pc = "loop" /\ pc' = "call"
             \/ pc = "fallback" /\ pc' = "failed"
             \/ pc = "save" /\ pc' = "saved"
      BY <2>5 DEF StartAttempt, LogFallback, SaveCheckpoint, Goto
    <3> QED
      BY <2>2, <2>3, <3>1 DEF EffectsOfTry
  <2>6. CASE GuardrailBlocks \/ \E error \in Errors : AttemptFails(error)
    <3>1. PICK error \in Errors \cup {"GuardrailBlocked"} :
            /\ pc = "call" /\ pc' \in {"blocked", "fallback", "failed"} /\ attempt' = attempt
            /\ state' = MarkStepFailed(state, Step(state), error)
      BY <2>6 DEF GuardrailBlocks, AttemptFails, EmitFailure, Goto
    <3>2. state'.current_step = state.current_step
      BY <1>1, <2>1, <3>1, MarkStepFailedFacts DEF TypeInv, StepRemains
    <3> QED
      BY <2>2, <2>3, <3>1, <3>2 DEF EffectsOfTry
  <2>7. ASSUME NEW output \in Payloads, AttemptSucceeds(output)
        PROVE  StepsLeft' < StepsLeft
    <3>1. /\ pc = "call" /\ pc' = "save"
          /\ state' = MarkStepDone(state, Step(state), output)
      BY <2>7 DEF AttemptSucceeds, Goto
    <3>2. state'.current_step = state.current_step + 1
      BY <1>1, <2>1, <3>1, MarkStepDoneFacts DEF TypeInv, StepRemains
    <3> QED
      BY <2>1, <3>1, <3>2 DEF StepsLeft
  <2>8. CASE Retry
    <3>1. pc = "failed" /\ pc' = "loop" /\ state' = state /\ attempt' = attempt + 1
      BY <2>8 DEF Retry, Goto
    <3> QED
      BY <2>1, <2>2, <3>1 DEF StepsLeft, TriesLeft
  <2>9. CASE LogCheckpointWritten
    <3>1. pc = "saved" /\ pc' = "loop" /\ state' = state
      BY <2>9 DEF LogCheckpointWritten, Goto
    <3> QED
      BY <2>1, <2>2, <3>1 DEF StepsLeft
  <2>10. ~(Complete \/ SaveBlocked \/ GiveUp \/ SaveRaises \/ Crash \/ Call)
    BY <1>1 DEF Complete, SaveBlocked, GiveUp, SaveRaises, Crash, Call, Resume, StartFresh,
       StartFreshRaises, BeginRun, Stop, Running
  <2> QED
    BY <1>1, <2>2, <2>4, <2>5, <2>6, <2>7, <2>8, <2>9, <2>10 DEF Next, Run
<1>2. TypeInv /\ TypeInv' /\ [Next]_vars =>
        [pc # "down" /\ pc' # "down" =>
           /\ StepsLeft' >= 0 /\ TriesLeft' >= 0
           /\ \/ StepsLeft' < StepsLeft
              \/ StepsLeft' = StepsLeft /\ TriesLeft' < TriesLeft
              \/ /\ StepsLeft' = StepsLeft /\ TriesLeft' = TriesLeft
                 /\ EffectsOfTry' < EffectsOfTry]_vars
  BY <1>1 DEF Running
<1> QED
  BY <1>2, TypeCorrect, PTL DEF Spec, EffectsRunOut

-----------------------------------------------------------------------------
(* Refinement *)

\* The completed outputs, as a sequence.
LEMMA CompletedFacts ==
  ASSUME TypeOK, disk # NoCheckpoint
  PROVE  /\ disk.current_step \in 0..N
         /\ Len(CompletedOutputs) = disk.current_step
         /\ CompletedOutputs
              = [i \in 1..disk.current_step |-> disk.outputs[PIPELINE_STEPS[i]]]
<1>1. disk.current_step \in 0..N /\ N \in Nat
  BY StepFacts DEF TypeOK, PipelineState
<1> QED
  BY <1>1 DEF CompletedOutputs

\* The entry that DurableProgress reads for an input of the next step is the one
\* the run reads in memory.
LEMMA EntryFacts ==
  ASSUME TypeInv, MemInv, Running, disk.current_step < N,
         NEW key \in PromptInputs[PIPELINE_STEPS[disk.current_step + 1]]
  PROVE  Progress!Entry(key, state.outputs["topic"]) = state.outputs[key]
<1>1. disk.current_step + 1 \in 1..N /\ disk.current_step \in 0..N /\ disk # NoCheckpoint
  BY RunningFacts, StepFacts DEF TypeInv, RunHasState
<1>2. CASE key = "topic"
  BY <1>2 DEF Progress!Entry
<1>3. CASE key # "topic"
  <2>1. PICK j \in 1..N : j < disk.current_step + 1 /\ key = PIPELINE_STEPS[j]
    BY <1>1, <1>3, InputFacts
  <2>2. (CHOOSE i \in 1..N : PIPELINE_STEPS[i] = key) = j
    BY <2>1, StepFacts
  <2>3. j \in 1..disk.current_step
    BY <1>1, <2>1
  <2>4. CompletedOutputs[j] = disk.outputs[key]
    BY <1>1, <2>1, <2>3, CompletedFacts DEF TypeInv
  <2>5. disk.outputs[key] # Absent
    BY <1>1, <2>1, <2>3 DEF MemInv, StatesSound, Sound, Consistent
  <2>6. state.outputs[key] = disk.outputs[key]
    BY <2>1, <2>5, StepFacts DEF MemInv, MemoryExtendsDisk, Adds
  <2>7. Progress!Entry(key, state.outputs["topic"]) = CompletedOutputs[j]
    BY <1>3, <2>2 DEF Progress!Entry, N
  <2> QED
    BY <2>4, <2>6, <2>7
<1> QED
  BY <1>2, <1>3

LEMMA RefinementInit == Init => Progress!Init
BY DEF Init, Progress!Init, SettledTopic, CompletedOutputs

\* Every step is a step of DurableProgress, or none.
LEMMA RefinementStep ==
  TypeInv /\ TypeInv' /\ MemInv /\ MemInv' /\ [Next]_vars
    => [Progress!Next]_(Progress!vars)
<1> SUFFICES ASSUME TypeInv, TypeInv', MemInv, MemInv', [Next]_vars
             PROVE  [Progress!Next]_(Progress!vars)
  OBVIOUS
<1> DEFINE topic == state.outputs["topic"]
           next == PIPELINE_STEPS[disk.current_step + 1]
<1>1. CASE disk' = disk
  BY <1>1 DEF Progress!vars, SettledTopic, CompletedOutputs
<1>2. ASSUME NEW t \in Topics, disk = NoCheckpoint, disk' = NewState(t)
      PROVE  UNCHANGED <<SettledTopic, CompletedOutputs>>
  <2>1. disk' # NoCheckpoint /\ disk'.current_step = 0 /\ disk'.outputs["topic"] = Absent
    BY <1>2, NewStateFacts, NoCheckpointAssumption DEF Keys
  <2>2. SettledTopic = Absent /\ SettledTopic' = Absent
    BY <1>2, <2>1 DEF SettledTopic
  <2>3. CompletedOutputs = <<>> /\ CompletedOutputs' = <<>>
    BY <1>2, <2>1 DEF CompletedOutputs
  <2> QED
    BY <2>2, <2>3
<1>3. ASSUME Running, disk' = state
      PROVE  /\ state \in PipelineState /\ disk # NoCheckpoint /\ disk' # NoCheckpoint
             /\ state.current_step \in 0..N /\ disk.current_step \in 0..N
             /\ SettledTopic = disk.outputs["topic"] /\ SettledTopic' = topic
             /\ Len(CompletedOutputs) = disk.current_step
             /\ CompletedOutputs
                  = [i \in 1..disk.current_step |-> disk.outputs[PIPELINE_STEPS[i]]]
             /\ CompletedOutputs'
                  = [i \in 1..state.current_step |-> state.outputs[PIPELINE_STEPS[i]]]
             /\ \A i \in 1..disk.current_step :
                  state.outputs[PIPELINE_STEPS[i]] = disk.outputs[PIPELINE_STEPS[i]]
  <2>1. /\ state \in PipelineState /\ disk # NoCheckpoint /\ disk' # NoCheckpoint
        /\ state.current_step \in 0..N /\ disk.current_step \in 0..N /\ N \in Nat
    BY <1>3, RunningFacts, StepFacts DEF TypeInv, RunHasState
  <2>2. SettledTopic = disk.outputs["topic"] /\ SettledTopic' = topic
    BY <1>3, <2>1 DEF SettledTopic
  <2>3. CompletedOutputs'
          = [i \in 1..state.current_step |-> state.outputs[PIPELINE_STEPS[i]]]
    BY <1>3, <2>1 DEF CompletedOutputs
  <2>4. ASSUME NEW i \in 1..disk.current_step
        PROVE  state.outputs[PIPELINE_STEPS[i]] = disk.outputs[PIPELINE_STEPS[i]]
    <3>1. i \in 1..N /\ PIPELINE_STEPS[i] \in Keys
      BY <2>1, StepFacts
    <3>2. disk.outputs[PIPELINE_STEPS[i]] # Absent
      BY <2>1, <3>1 DEF MemInv, StatesSound, Sound, Consistent
    <3> QED
      BY <1>3, <3>1, <3>2 DEF MemInv, MemoryExtendsDisk, Adds
  <2> QED
    BY <2>1, <2>2, <2>3, <2>4, CompletedFacts DEF TypeInv
<1>4. ASSUME Running, pc \notin {"down", "fresh"}
      PROVE  topic \in Topics /\ disk.outputs["topic"] \in {Absent, topic}
  BY <1>4 DEF MemInv, StatesSound, Sound, WellSorted, MemoryExtendsDisk, Adds, Keys, Running
<1>5. CASE pc = "blocked" /\ disk' = state
  <2>1. Running /\ state.current_step = disk.current_step /\ disk.current_step < N
    BY <1>5 DEF MemInv, MemoryExtendsDisk, Running, TypeInv, StepRemains
  <2>2. CompletedOutputs' = CompletedOutputs
    BY <1>3, <1>5, <2>1
  <2>3. CASE disk.outputs["topic"] = topic
    BY <1>3, <1>5, <2>1, <2>2, <2>3 DEF Progress!vars
  <2>4. CASE disk.outputs["topic"] = Absent
    <3>1. ~Progress!NextPromptClean(topic)
      <4>1. PICK key \in PromptInputs[next] : state.outputs[key] \in Poisoned
        BY <1>5, <2>1 DEF MemInv, StatesSound, PromptPoisoned, Step
      <4>2. Progress!Entry(key, topic) \in Poisoned
        BY <2>1, <4>1, EntryFacts
      <4> QED
        BY <1>3, <1>5, <2>1, <4>1, <4>2 DEF Progress!NextPromptClean
    <3>2. Progress!Settle(topic)
      BY <1>3, <1>4, <1>5, <2>1, <2>2, <2>4, <3>1 DEF Progress!Settle, N
    <3> QED
      BY <1>4, <1>5, <2>1, <3>2 DEF Progress!Next
  <2> QED
    BY <1>4, <1>5, <2>1, <2>3, <2>4
<1>6. CASE pc = "save" /\ disk' = state
  <2>1. /\ Running /\ state.current_step = disk.current_step + 1
        /\ disk.current_step < N /\ N \in Nat
        /\ disk.current_step + 1 \in 1..N
    BY <1>3, <1>6, StepFacts DEF MemInv, MemoryExtendsDisk, Running
  <2> DEFINE output == state.outputs[next]
  <2>2. output \in Payloads
    BY <2>1 DEF MemInv, StatesSound, Sound, WellSorted, Consistent
  <2>3. Progress!NextPromptClean(topic)
    <3>1. ASSUME NEW key \in PromptInputs[next]
          PROVE  Progress!Entry(key, topic) \notin Poisoned
      <4>1. state.outputs[key] \notin Poisoned
        BY <2>1 DEF MemInv, StatesSound, Sound, Clean
      <4> QED
        BY <2>1, <4>1, EntryFacts
    <3> QED
      BY <1>3, <1>6, <2>1, <3>1 DEF Progress!NextPromptClean
  <2>4. CompletedOutputs' = Append(CompletedOutputs, output)
    BY <1>3, <1>6, <2>1
  <2>5. Progress!Commit(topic, output)
    BY <1>3, <1>4, <1>6, <2>1, <2>3, <2>4 DEF Progress!Commit, N
  <2> QED
    BY <1>4, <1>6, <2>1, <2>2, <2>5 DEF Progress!Next
<1> QED
  BY <1>1, <1>2, <1>5, <1>6, DiskSteps DEF Progress!vars

\* A pipeline_id keeps the promise of DurableProgress, for every pipeline.
THEOREM ImplementsProgress == Spec => ImplementsDurableProgress
<1>1. Init => Progress!Init
  BY RefinementInit
<1>2. TypeInv /\ TypeInv' /\ MemInv /\ MemInv' /\ [Next]_vars
        => [Progress!Next]_(Progress!vars)
  BY RefinementStep
<1> QED
  BY <1>1, <1>2, MemCorrect, PTL DEF Spec, ImplementsDurableProgress, Progress!Spec

=============================================================================
