---------------------------- MODULE HistoryProofs ----------------------------
(***************************************************************************)
(* Theorems about the log of Pipeline: no answer is lost without a fault,  *)
(* the log explains the checkpoint, and no run exceeds its retry budget.   *)
(* For every list of steps, every retry budget and every number of runs.   *)
(***************************************************************************)
EXTENDS PipelineHistory, PipelineProofs, FiniteSetTheorems

-----------------------------------------------------------------------------
(* Counting positions *)

\* Sets of positions are finite, and a new last position adds one.
LEMMA CountFacts ==
  ASSUME NEW n \in Nat, NEW A \in SUBSET (1..n)
  PROVE  /\ IsFiniteSet(A)
         /\ Cardinality(A) \in Nat
         /\ Cardinality(A \cup {n + 1}) = Cardinality(A) + 1
<1>1. IsFiniteSet(1..n)
  BY FS_Interval
<1>2. IsFiniteSet(A)
  BY <1>1, FS_Subset
<1>3. n + 1 \notin A
  OBVIOUS
<1> QED
  BY <1>2, <1>3, FS_CardinalityType, FS_AddElement

\* append_event adds at most one position to the events of a type.
LEMMA CountLogged ==
  ASSUME log \in Seq(Event), NEW event \in Event, log' = Append(log, event), NEW type
  PROVE  /\ Cardinality(Logged(type)) \in Nat
         /\ Cardinality(Logged(type)')
              = Cardinality(Logged(type)) + (IF type = event.type THEN 1 ELSE 0)
<1> DEFINE here == Logged(type)
<1>1. Len(log) \in Nat /\ here \in SUBSET (1..Len(log))
  BY DEF Logged
<1>2. Logged(type)' = IF type = event.type THEN here \cup {Len(log) + 1} ELSE here
  BY LoggedFacts
<1> HIDE DEF here
<1>3. Cardinality(here) \in Nat /\ Cardinality(here \cup {Len(log) + 1}) = Cardinality(here) + 1
  BY <1>1, CountFacts
<1>4. Cardinality(Logged(type)')
        = Cardinality(here) + (IF type = event.type THEN 1 ELSE 0)
  BY <1>2, <1>3
<1> QED
  BY <1>3, <1>4 DEF here

-----------------------------------------------------------------------------
(* The line each action writes *)

\* append_event is called once, with a type and a step.
Writes(type, step) ==
  \E event \in Event : event.type = type /\ event.step = step /\ log' = Append(log, event)

\* A line of a well-typed log call is an event.
LEMMA AppendWrites ==
  ASSUME NEW type \in EventTypes, NEW step \in StepNames \cup {Absent},
         NEW step_index \in 0..N, NEW try \in 0..(MaxRetries + 1),
         AppendEvent(type, step, step_index, try)
  PROVE  Writes(type, step)
<1> DEFINE event == [type |-> type, step |-> step,
                     step_index |-> step_index, attempt |-> try]
<1>1. event \in Event
  BY DEF Event
<1>2. event.type = type /\ event.step = step /\ log' = Append(log, event)
  BY DEF AppendEvent
<1> HIDE DEF event
<1> QED
  BY <1>1, <1>2 DEF Writes

\* What is in memory and on disk while a process runs.
LEMMA RunFacts ==
  ASSUME TypeInv, MemInv, Running
  PROVE  /\ state \in PipelineState /\ disk \in PipelineState
         /\ disk # NoCheckpoint /\ state # NoCheckpoint
         /\ state.current_step \in 0..N /\ disk.current_step \in 0..N /\ N \in Nat
         /\ pc # "save" => state.current_step = disk.current_step
         /\ pc = "save" => state.current_step = disk.current_step + 1
         /\ state.current_step < N =>
              Step(state) \in StepNames /\ state.current_step + 1 \in 1..N
BY RunningFacts, StepFacts DEF TypeInv, RunHasState, MemInv, MemoryExtendsDisk, Step

\* Each action that writes to the log, with what it writes.
LEMMA LinesWritten ==
  ASSUME TypeInv, MemInv
  PROVE  /\ \A topic \in Topics : Resume(topic) => Writes("PipelineResumed", Absent)
         /\ LogPipelineStarted => Writes("PipelineStarted", Absent)
         /\ StartAttempt => Writes("StepStarted", Step(state))
         /\ Complete => Writes("PipelineCompleted", Absent)
         /\ GuardrailBlocks => Writes("GuardrailTriggered", Step(state))
         /\ \A error \in Errors : AttemptFails(error) => Writes("StepFailed", Step(state))
         /\ LogFallback => Writes("FallbackUsed", Step(state))
         /\ \A output \in Payloads :
              AttemptSucceeds(output) => Writes("StepSucceeded", Step(state))
         /\ LogCheckpointWritten => Writes("CheckpointWritten", Absent)
<1> USE AppendWrites, StepFacts, BoundsAssumption DEF EventTypes, Running
<1>1. ASSUME NEW topic \in Topics, Resume(topic) PROVE Writes("PipelineResumed", Absent)
  <2>1. disk.current_step \in 0..N
    BY <1>1 DEF Resume, TypeInv, TypeOK, PipelineState
  <2> QED
    BY <1>1, <2>1 DEF Resume
<1>2. LogPipelineStarted => Writes("PipelineStarted", Absent)
  BY DEF LogPipelineStarted
<1>3. StartAttempt => Writes("StepStarted", Step(state))
  BY RunFacts DEF StartAttempt, TypeInv, TypeOK
<1>4. Complete => Writes("PipelineCompleted", Absent)
  BY DEF Complete
<1>5. GuardrailBlocks => Writes("GuardrailTriggered", Step(state))
  BY RunFacts DEF GuardrailBlocks, TypeInv, StepRemains
<1>6. ASSUME NEW error \in Errors, AttemptFails(error)
      PROVE  Writes("StepFailed", Step(state))
  BY <1>6, RunFacts DEF AttemptFails, EmitFailure, TypeInv, StepRemains
<1>7. LogFallback => Writes("FallbackUsed", Step(state))
  BY RunFacts DEF LogFallback, TypeInv, StepRemains
<1>8. ASSUME NEW output \in Payloads, AttemptSucceeds(output)
      PROVE  Writes("StepSucceeded", Step(state))
  BY <1>8, RunFacts DEF AttemptSucceeds, TypeInv, StepRemains
<1>9. LogCheckpointWritten => Writes("CheckpointWritten", Absent)
  BY RunFacts DEF LogCheckpointWritten
<1> QED
  BY <1>1, <1>2, <1>3, <1>4, <1>5, <1>6, <1>7, <1>8, <1>9

-----------------------------------------------------------------------------
(* LostWork *)

\* The numbers LostWork compares.
Accepted == Cardinality(Logged("StepSucceeded"))
Rejected == Cardinality(Logged("StepFailed"))
Saved == IF disk = NoCheckpoint THEN 0 ELSE disk.current_step
Saving == IF pc = "save" THEN 1 ELSE 0

\* What a step may do to these numbers.
LEMMA Accounting ==
  ASSUME NEW accepted \in Nat, NEW rejected \in Nat,
         NEW saved \in Nat, NEW saving \in Nat, NEW fault \in Nat,
         NEW saved1 \in Nat, NEW saving1 \in Nat, NEW fault1 \in Nat,
         accepted <= saved + (fault - rejected) + saving,
         saved + saving + fault <= saved1 + saving1 + fault1
  PROVE  accepted <= saved1 + (fault1 - rejected) + saving1
OBVIOUS

LEMMA LostWorkInit == Init => LostWork
<1> SUFFICES ASSUME Init PROVE LostWork
  OBVIOUS
<1>1. Logged("StepSucceeded") = {} /\ Logged("StepFailed") = {}
  BY DEF Init, Logged
<1>2. Cardinality(Logged("StepSucceeded")) = 0 /\ Cardinality(Logged("StepFailed")) = 0
  BY <1>1, FS_EmptySet, Zenon
<1> QED
  BY <1>2 DEF Init, LostWork, CutShort

\* An accepted answer moves the process to its save; the save, or a fault, takes
\* it from there.
LEMMA LostWorkStep == TypeInv /\ TypeInv' /\ MemInv /\ LostWork /\ [Next]_vars => LostWork'
<1> SUFFICES ASSUME TypeInv, TypeInv', MemInv, LostWork, [Next]_vars PROVE LostWork'
  OBVIOUS
<1>1. /\ log \in Seq(Event) /\ faults \in Nat /\ faults' \in Nat
      /\ disk # NoCheckpoint => disk.current_step \in Nat
      /\ disk' # NoCheckpoint => disk'.current_step \in Nat
  BY StepFacts DEF TypeInv, TypeOK, PipelineState
<1>2. Accepted \in Nat /\ Rejected \in Nat
  <2>1. ASSUME NEW type PROVE Logged(type) \in SUBSET (1..Len(log)) /\ Len(log) \in Nat
    BY <1>1 DEF Logged
  <2> QED
    BY <2>1, CountFacts DEF Accepted, Rejected
<1>3. /\ Saved \in Nat /\ Saved' \in Nat /\ Saving \in Nat /\ Saving' \in Nat
      /\ Accepted <= Saved + (faults - Rejected) + Saving
  BY <1>1 DEF LostWork, CutShort, Accepted, Rejected, Saved, Saving
<1>0. ASSUME Accepted' <= Saved' + (faults' - Rejected') + Saving'
      PROVE  LostWork'
  BY <1>0 DEF LostWork, CutShort, Accepted, Rejected, Saved, Saving
<1>4. ASSUME log' = log PROVE Accepted' = Accepted /\ Rejected' = Rejected
  BY <1>4 DEF Accepted, Rejected, Logged
<1>5. ASSUME NEW event \in Event, log' = Append(log, event)
      PROVE  /\ Accepted' = Accepted + (IF event.type = "StepSucceeded" THEN 1 ELSE 0)
             /\ Rejected' = Rejected + (IF event.type = "StepFailed" THEN 1 ELSE 0)
  BY <1>1, <1>5, CountLogged DEF Accepted, Rejected
<1>6. ASSUME log' = log, Saved + Saving + faults <= Saved' + Saving' + faults'
      PROVE  LostWork'
  <2>1. Accepted' = Accepted /\ Rejected' = Rejected
    BY <1>4, <1>6
  <2>2. Accepted' <= Saved' + (faults' - Rejected') + Saving'
    BY <2>1, <1>1, <1>2, <1>3, <1>6, Accounting
  <2> QED
    BY <2>2, <1>0
<1>7. ASSUME NEW type, NEW step, Writes(type, step),
             type \notin {"StepSucceeded", "StepFailed"},
             disk' = disk, Saving' = Saving, faults' = faults
      PROVE  LostWork'
  <2>1. Saved' = Saved
    BY <1>7 DEF Saved
  <2>2. Accepted' = Accepted /\ Rejected' = Rejected
    BY <1>2, <1>5, <1>7 DEF Writes
  <2> QED
    BY <2>1, <2>2, <1>0, <1>1, <1>2, <1>3, <1>7
<1> USE DEF Goto, Stop
<1>8. CASE \E topic \in Topics : Resume(topic)
  <2>1. disk' = disk /\ Saving' = Saving /\ faults' = faults
    BY <1>8 DEF Resume, BeginRun, Saving
  <2> QED
    BY <1>7, <1>8, <2>1, LinesWritten
<1>9. CASE \E topic \in Topics : StartFresh(topic)
  <2>1. log' = log /\ faults' = faults /\ Saving' = Saving /\ Saved' = Saved
    BY <1>9, NewStateFacts DEF StartFresh, BeginRun, Saving, Saved
  <2> QED
    BY <1>3, <1>6, <2>1, <1>1
<1>10. CASE \E topic \in Topics : StartFreshRaises(topic)
  <2>1. log' = log /\ faults' = faults + 1 /\ Saving' = Saving /\ Saved' = Saved
    BY <1>10 DEF StartFreshRaises, BeginRun, Saving, Saved
  <2> QED
    BY <1>3, <1>6, <2>1, <1>1
<1>11. CASE LogPipelineStarted \/ StartAttempt \/ Complete \/ GuardrailBlocks
            \/ LogFallback \/ LogCheckpointWritten
  <2>1. disk' = disk /\ Saving' = Saving /\ faults' = faults
    BY <1>11 DEF Saving, LogPipelineStarted, StartAttempt, Complete, GuardrailBlocks,
                LogFallback, LogCheckpointWritten
  <2> QED
    BY <1>7, <1>11, <2>1, LinesWritten
<1>12. CASE SaveBlocked
  <2>1. log' = log /\ faults' = faults /\ Saving' = Saving /\ Saved' = Saved
    BY <1>12, RunFacts DEF SaveBlocked, Saving, Saved, Running
  <2> QED
    BY <1>3, <1>6, <2>1, <1>1
<1>13. CASE \E error \in Errors : AttemptFails(error)
  <2>1. faults' = faults + 1 /\ Saving' = Saving /\ Saved' = Saved
    BY <1>13 DEF AttemptFails, EmitFailure, Saving, Saved
  <2>2. Accepted' = Accepted /\ Rejected' = Rejected + 1
    BY <1>2, <1>5, <1>13, LinesWritten DEF Writes
  <2> QED
    BY <1>0, <1>1, <1>2, <1>3, <2>1, <2>2
<1>14. CASE Retry \/ GiveUp
  <2>1. log' = log /\ faults' = faults /\ Saving' = Saving /\ Saved' = Saved
    BY <1>14 DEF Retry, GiveUp, Saving, Saved
  <2> QED
    BY <1>3, <1>6, <2>1, <1>1
<1>15. CASE \E output \in Payloads : AttemptSucceeds(output)
  <2>1. faults' = faults /\ Saving = 0 /\ Saving' = 1 /\ Saved' = Saved
    BY <1>15 DEF AttemptSucceeds, Saving, Saved
  <2>2. Accepted' = Accepted + 1 /\ Rejected' = Rejected
    BY <1>2, <1>5, <1>15, LinesWritten DEF Writes
  <2> QED
    BY <1>0, <1>1, <1>2, <1>3, <2>1, <2>2
<1>16. CASE SaveCheckpoint
  <2>1. log' = log /\ faults' = faults /\ Saving = 1 /\ Saving' = 0 /\ Saved' = Saved + 1
    BY <1>16, RunFacts DEF SaveCheckpoint, Saving, Saved, Running
  <2> QED
    BY <1>3, <1>6, <2>1, <1>1
<1>17. CASE SaveRaises \/ Crash
  <2>1. log' = log /\ faults' = faults + 1 /\ Saving' = 0 /\ Saving <= 1 /\ Saved' = Saved
    BY <1>17 DEF SaveRaises, Crash, Saving, Saved
  <2> QED
    BY <1>3, <1>6, <2>1, <1>1
<1>18. CASE UNCHANGED vars
  <2>1. log' = log /\ faults' = faults /\ Saving' = Saving /\ Saved' = Saved
    BY <1>18 DEF vars, Saving, Saved
  <2> QED
    BY <1>3, <1>6, <2>1, <1>1
<1> QED
  BY <1>8, <1>9, <1>10, <1>11, <1>12, <1>13, <1>14, <1>15, <1>16, <1>17, <1>18
     DEF Next, Run, Call

\* An answer that passed every check is lost only to a fault, and each fault loses
\* at most one: for every number of runs, crashes and failed attempts.
THEOREM WorkLostOnlyToFaults == Spec => []LostWork
<1>1. TypeInv /\ TypeInv' /\ MemInv /\ LostWork /\ [Next]_vars => LostWork'
  BY LostWorkStep
<1> QED
  BY <1>1, LostWorkInit, MemCorrect, PTL DEF Spec

-----------------------------------------------------------------------------
(* LogExplainsCheckpoint *)

\* append_event adds at most its own position to the events about a step.
LEMMA AboutAppend ==
  ASSUME NEW lines \in Seq(Event), NEW event \in Event, NEW type, NEW step
  PROVE  /\ About(lines, type, step) \in SUBSET (1..Len(lines))
         /\ About(Append(lines, event), type, step)
              = IF event.type = type /\ event.step = step
                THEN About(lines, type, step) \cup {Len(lines) + 1}
                ELSE About(lines, type, step)
BY AppendFacts DEF About, Positions

\* The log's failures of a step are counted, and never become fewer.
LEMMA FailureLinesAppend ==
  ASSUME NEW lines \in Seq(Event), NEW event \in Event, NEW step
  PROVE  /\ Cardinality(FailureLines(lines, step)) \in Nat
         /\ Cardinality(FailureLines(Append(lines, event), step))
              = Cardinality(FailureLines(lines, step))
                + (IF event.type \in {"StepFailed", "GuardrailTriggered"} /\ event.step = step
                   THEN 1 ELSE 0)
<1> DEFINE before == FailureLines(lines, step)
           after == FailureLines(Append(lines, event), step)
<1>1. Len(lines) \in Nat /\ before \in SUBSET (1..Len(lines))
  BY AboutAppend DEF FailureLines
<1>2. after = IF event.type \in {"StepFailed", "GuardrailTriggered"} /\ event.step = step
              THEN before \cup {Len(lines) + 1} ELSE before
  BY AboutAppend DEF FailureLines
<1> HIDE DEF before, after
<1>3. Cardinality(before) \in Nat
      /\ Cardinality(before \cup {Len(lines) + 1}) = Cardinality(before) + 1
  BY <1>1, CountFacts
<1>4. Cardinality(after)
        = Cardinality(before)
          + (IF event.type \in {"StepFailed", "GuardrailTriggered"} /\ event.step = step
             THEN 1 ELSE 0)
  BY <1>2, <1>3
<1> QED
  BY <1>3, <1>4 DEF before, after

\* What a log explains, it explains with one more line.
LEMMA ExplainsKept ==
  ASSUME NEW lines \in Seq(Event), NEW event \in Event,
         NEW s \in PipelineState, Explains(lines, s)
  PROVE  Explains(Append(lines, event), s)
<1>1. ASSUME NEW i \in 1..s.current_step
      PROVE  About(Append(lines, event), "StepSucceeded", PIPELINE_STEPS[i]) # {}
  BY AboutAppend DEF Explains
<1>2. ASSUME NEW step \in StepNames
      PROVE  Cardinality(FailuresOf(s, step))
               <= Cardinality(FailureLines(Append(lines, event), step))
  <2>1. FailuresOf(s, step) \in SUBSET (1..Len(s.failed_attempts))
        /\ Len(s.failed_attempts) \in Nat
    BY DEF FailuresOf, PipelineState
  <2>2. Cardinality(FailuresOf(s, step)) \in Nat
    BY <2>1, CountFacts
  <2>3. Cardinality(FailuresOf(s, step)) <= Cardinality(FailureLines(lines, step))
    BY DEF Explains
  <2> QED
    BY <2>2, <2>3, FailureLinesAppend
<1> QED
  BY <1>1, <1>2 DEF Explains

\* mark_step_failed and the event of the failure go together.
LEMMA ExplainsFailure ==
  ASSUME NEW lines \in Seq(Event), NEW event \in Event,
         NEW s \in PipelineState, s.current_step < N, Explains(lines, s),
         NEW error \in Errors \cup {"GuardrailBlocked"},
         event.type \in {"StepFailed", "GuardrailTriggered"}, event.step = Step(s)
  PROVE  Explains(Append(lines, event), MarkStepFailed(s, Step(s), error))
<1> DEFINE t == MarkStepFailed(s, Step(s), error)
           failure == [step |-> Step(s), error |-> error]
<1>0. s.current_step + 1 \in 1..N /\ Step(s) \in StepNames
  BY StepFacts DEF PipelineState, Step
<1>1. t.current_step = s.current_step
  BY MarkStepFailedFacts
<1>2. /\ s.failed_attempts \in Seq(Failure)
      /\ failure \in Failure /\ failure.step = Step(s)
      /\ t.failed_attempts = Append(s.failed_attempts, failure)
  BY <1>0 DEF PipelineState, Failure, MarkStepFailed
<1>3. ASSUME NEW i \in 1..t.current_step
      PROVE  About(Append(lines, event), "StepSucceeded", PIPELINE_STEPS[i]) # {}
  BY <1>1, ExplainsKept DEF Explains
<1> HIDE DEF t, failure
<1>4. ASSUME NEW step \in StepNames
      PROVE  Cardinality(FailuresOf(t, step))
               <= Cardinality(FailureLines(Append(lines, event), step))
  <2> DEFINE old == FailuresOf(s, step)
             n == Len(s.failed_attempts)
  <2>1. old \in SUBSET (1..n) /\ n \in Nat
    BY <1>2 DEF FailuresOf
  <2>2. FailuresOf(t, step) = IF Step(s) = step THEN old \cup {n + 1} ELSE old
    <3>1. /\ Len(t.failed_attempts) = n + 1
          /\ \A i \in 1..n : t.failed_attempts[i] = s.failed_attempts[i]
          /\ t.failed_attempts[n + 1] = failure
      BY <1>2
    <3> QED
      BY <1>2, <2>1, <3>1 DEF FailuresOf
  <2>3. Cardinality(old) <= Cardinality(FailureLines(lines, step))
    BY DEF Explains
  <2> HIDE DEF old, n
  <2>4. Cardinality(old) \in Nat /\ Cardinality(old \cup {n + 1}) = Cardinality(old) + 1
    BY <2>1, CountFacts
  <2> QED
    BY <2>2, <2>3, <2>4, FailureLinesAppend
<1> QED
  BY <1>3, <1>4 DEF Explains, t

\* mark_step_done and StepSucceeded go together.
LEMMA ExplainsSuccess ==
  ASSUME NEW lines \in Seq(Event), NEW event \in Event,
         NEW s \in PipelineState, s.current_step < N, Explains(lines, s),
         NEW output \in Payloads,
         event.type = "StepSucceeded", event.step = Step(s)
  PROVE  Explains(Append(lines, event), MarkStepDone(s, Step(s), output))
<1> DEFINE t == MarkStepDone(s, Step(s), output)
<1>1. /\ t.current_step = s.current_step + 1
      /\ s.current_step \in 0..N /\ N \in Nat
      /\ Step(s) = PIPELINE_STEPS[s.current_step + 1]
  BY MarkStepDoneFacts, StepFacts DEF PipelineState, Step
<1>2. t.failed_attempts = s.failed_attempts
  BY DEF MarkStepDone, PipelineState
<1> HIDE DEF t
<1>3. ASSUME NEW i \in 1..t.current_step
      PROVE  About(Append(lines, event), "StepSucceeded", PIPELINE_STEPS[i]) # {}
  <2>1. CASE i = s.current_step + 1
    BY <1>1, <2>1, AboutAppend
  <2>2. CASE i \in 1..s.current_step
    BY <2>2, ExplainsKept DEF Explains
  <2> QED
    BY <1>1, <2>1, <2>2
<1>4. ASSUME NEW step \in StepNames
      PROVE  Cardinality(FailuresOf(t, step))
               <= Cardinality(FailureLines(Append(lines, event), step))
  <2>1. FailuresOf(t, step) = FailuresOf(s, step)
    BY <1>2 DEF FailuresOf
  <2> QED
    BY <2>1, ExplainsKept DEF Explains
<1> QED
  BY <1>3, <1>4 DEF Explains, t

\* A new state has nothing to explain.
LEMMA ExplainsNew ==
  ASSUME NEW topic \in Topics
  PROVE  Explains(<<>>, NewState(topic))
<1> DEFINE s == NewState(topic)
<1>1. s.current_step = 0 /\ s.failed_attempts = <<>>
  BY DEF NewState
<1>2. ASSUME NEW step
      PROVE  FailuresOf(s, step) = {} /\ FailureLines(<<>>, step) = {}
  BY <1>1 DEF FailuresOf, FailureLines, About, Positions
<1>3. Cardinality({}) <= Cardinality({})
  BY FS_EmptySet
<1> HIDE DEF s
<1>4. 1..s.current_step = {}
  BY <1>1
<1>5. Explains(<<>>, s)
  BY <1>2, <1>3, <1>4, Zenon DEF Explains
<1> QED
  BY <1>5 DEF s

\* A topic needs no explanation.
LEMMA ExplainsTopic ==
  ASSUME NEW lines \in Seq(Event), NEW s \in PipelineState, Explains(lines, s),
         NEW topic \in Topics
  PROVE  Explains(lines, SetDefaultTopic(s, topic))
<1> DEFINE t == SetDefaultTopic(s, topic)
<1>1. t.current_step = s.current_step /\ t.failed_attempts = s.failed_attempts
  BY DEF SetDefaultTopic, PipelineState
<1> HIDE DEF t
<1>2. \A step : FailuresOf(t, step) = FailuresOf(s, step)
  BY <1>1 DEF FailuresOf
<1> QED
  BY <1>1, <1>2 DEF Explains, t

LEMMA LogExplainsInit == Init => LogExplains
BY DEF Init, LogExplains, Running

\* The line a step writes is the one that its change of memory needs.
LEMMA LogExplainsStep ==
  TypeInv /\ TypeInv' /\ MemInv /\ LogInv /\ LogExplains /\ [Next]_vars => LogExplains'
<1> SUFFICES ASSUME TypeInv, TypeInv', MemInv, LogInv, LogExplains, [Next]_vars
             PROVE  LogExplains'
  OBVIOUS
<1>1. /\ log \in Seq(Event) /\ log' \in Seq(Event)
      /\ disk # NoCheckpoint => disk \in PipelineState /\ Explains(log, disk)
      /\ Running => Explains(log, state)
  BY DEF TypeInv, TypeOK, LogExplains
<1>2. ASSUME NEW type, NEW step, Writes(type, step), NEW s \in PipelineState, Explains(log, s)
      PROVE  Explains(log', s)
  BY <1>1, <1>2, ExplainsKept DEF Writes
<1> USE DEF Goto, Stop
<1>3. CASE \E topic \in Topics : Resume(topic)
  <2>1. PICK topic \in Topics : Resume(topic)
    BY <1>3
  <2>2. disk # NoCheckpoint /\ disk' = disk /\ state' = SetDefaultTopic(disk, topic)
    BY <2>1 DEF Resume
  <2>3. Writes("PipelineResumed", Absent)
    BY <2>1, LinesWritten
  <2>4. Explains(log', disk) /\ disk \in PipelineState
    BY <1>1, <1>2, <2>2, <2>3
  <2>5. Explains(log', state')
    BY <1>1, <2>2, <2>4, ExplainsTopic
  <2> QED
    BY <2>2, <2>4, <2>5 DEF LogExplains
<1>4. CASE \E topic \in Topics : StartFresh(topic)
  <2>1. PICK topic \in Topics : StartFresh(topic)
    BY <1>4
  <2>2. log' = <<>> /\ disk' = NewState(topic) /\ state' = NewState(topic)
    BY <2>1 DEF StartFresh, LogInv, LogHistory
  <2>3. Explains(log', disk') /\ Explains(log', state')
    BY <2>2, ExplainsNew
  <2> QED
    BY <2>3 DEF LogExplains
<1>5. CASE LogPipelineStarted
  <2>1. Running /\ state \in PipelineState /\ disk \in PipelineState /\ disk # NoCheckpoint
        /\ state.topic \in Topics
    BY <1>5, RunFacts DEF LogPipelineStarted, Running, PipelineState
  <2>2. Explains(log', disk) /\ Explains(log', state)
    BY <1>1, <1>2, <1>5, <2>1, LinesWritten
  <2>3. disk' = disk /\ state' = SetDefaultTopic(state, state.topic)
    BY <1>5 DEF LogPipelineStarted
  <2>4. Explains(log', state')
    BY <1>1, <2>1, <2>2, <2>3, ExplainsTopic
  <2> QED
    BY <2>2, <2>3, <2>4 DEF LogExplains
<1>6. CASE StartAttempt \/ LogFallback \/ LogCheckpointWritten
  <2>1. Running /\ disk' = disk /\ state' = state
    BY <1>6 DEF StartAttempt, LogFallback, LogCheckpointWritten, Running
  <2>2. Explains(log', disk) /\ Explains(log', state)
    BY <1>1, <1>2, <1>6, <2>1, RunFacts, LinesWritten
  <2> QED
    BY <2>1, <2>2 DEF LogExplains
<1>7. CASE Complete
  <2>1. Running /\ disk' = disk /\ ~Running'
    BY <1>7 DEF Complete, Running
  <2>2. Explains(log', disk)
    BY <1>1, <1>2, <1>7, <2>1, RunFacts, LinesWritten
  <2> QED
    BY <2>1, <2>2 DEF LogExplains
<1>8. CASE GuardrailBlocks \/ \E error \in Errors : AttemptFails(error)
  <2>1. PICK error \in Errors \cup {"GuardrailBlocked"} :
          /\ Running /\ state.current_step < N /\ disk' = disk
          /\ state' = MarkStepFailed(state, Step(state), error)
    BY <1>8 DEF GuardrailBlocks, AttemptFails, EmitFailure, Running, TypeInv, StepRemains
  <2>2. PICK event \in Event :
          /\ event.type \in {"StepFailed", "GuardrailTriggered"}
          /\ event.step = Step(state)
          /\ log' = Append(log, event)
    BY <1>8, LinesWritten DEF Writes
  <2>3. Explains(log', disk)
    BY <1>1, <2>1, <2>2, RunFacts, ExplainsKept
  <2>4. Explains(log', state')
    BY <1>1, <2>1, <2>2, RunFacts, ExplainsFailure
  <2> QED
    BY <2>1, <2>3, <2>4 DEF LogExplains
<1>9. CASE \E output \in Payloads : AttemptSucceeds(output)
  <2>1. PICK output \in Payloads : AttemptSucceeds(output)
    BY <1>9
  <2>2. /\ Running /\ state.current_step < N /\ disk' = disk
        /\ state' = MarkStepDone(state, Step(state), output)
    BY <2>1 DEF AttemptSucceeds, Running, TypeInv, StepRemains
  <2>3. PICK event \in Event : /\ event.type = "StepSucceeded" /\ event.step = Step(state)
                               /\ log' = Append(log, event)
    BY <2>1, LinesWritten DEF Writes
  <2>4. Explains(log', disk)
    BY <1>1, <2>2, <2>3, RunFacts, ExplainsKept
  <2>5. Explains(log', state')
    BY <1>1, <2>2, <2>3, RunFacts, ExplainsSuccess
  <2> QED
    BY <2>2, <2>4, <2>5 DEF LogExplains
<1>10. CASE SaveBlocked \/ SaveCheckpoint
  <2>1. Running /\ disk' = state /\ log' = log /\ (Running' => state' = state)
    BY <1>10 DEF SaveBlocked, SaveCheckpoint, Running
  <2> QED
    BY <1>1, <2>1 DEF LogExplains
<1>11. CASE Retry \/ GiveUp \/ SaveRaises \/ Crash \/ UNCHANGED vars
            \/ \E topic \in Topics : StartFreshRaises(topic)
  <2>1. disk' = disk /\ log' = log /\ (Running' => Running /\ state' = state)
    BY <1>11 DEF Retry, GiveUp, SaveRaises, Crash, vars, StartFreshRaises, Running
  <2> QED
    BY <1>1, <2>1 DEF LogExplains
<1> QED
  BY <1>3, <1>4, <1>5, <1>6, <1>7, <1>8, <1>9, <1>10, <1>11 DEF Next, Run, Call

\* The log explains memory and the checkpoint in every reachable state.
LEMMA ExplainsCorrect == Spec => []LogExplains
<1>1. TypeInv /\ TypeInv' /\ MemInv /\ LogInv /\ LogExplains /\ [Next]_vars => LogExplains'
  BY LogExplainsStep
<1> QED
  BY <1>1, LogExplainsInit, LogCorrect, PTL DEF Spec

\* Every step the checkpoint calls done has its StepSucceeded in the log, and
\* every failure it records an event of its own, wherever a process died.
THEOREM LogAlwaysExplains == Spec => []LogExplainsCheckpoint
<1>1. LogExplains => LogExplainsCheckpoint
  <2> SUFFICES ASSUME LogExplains, disk # NoCheckpoint
               PROVE  LogExplainsCheckpoint
    BY DEF LogExplainsCheckpoint
  <2>1. Explains(log, disk)
    BY DEF LogExplains
  <2>2. ASSUME NEW i \in 1..disk.current_step
        PROVE  \E j \in Logged("StepSucceeded") : log[j].step = PIPELINE_STEPS[i]
    BY <2>1 DEF Explains, About, Positions, Logged
  <2>3. ASSUME NEW step
        PROVE  FailureLines(log, step)
                 = {i \in Logged("StepFailed") \cup Logged("GuardrailTriggered") :
                      log[i].step = step}
    BY DEF FailureLines, About, Positions, Logged
  <2>4. ASSUME NEW step \in StepNames
        PROVE  Cardinality({i \in 1..Len(disk.failed_attempts) :
                              disk.failed_attempts[i].step = step})
               <= Cardinality({i \in Logged("StepFailed") \cup Logged("GuardrailTriggered") :
                                 log[i].step = step})
    BY <2>1, <2>3 DEF Explains, FailuresOf
  <2> QED
    BY <2>2, <2>4 DEF LogExplainsCheckpoint
<1> QED
  BY <1>1, ExplainsCorrect, PTL

-----------------------------------------------------------------------------
(* RetryBudget: operators on the log *)

\* append_event continues the latest run, or begins a run without tries.
LEMMA TriesAppend ==
  ASSUME NEW lines \in Seq(Event), NEW event \in Event, NEW type, NEW step,
         type \notin RunMarks
  PROVE  /\ Tries(lines, type, step) \in SUBSET (1..Len(lines))
         /\ event.type \notin RunMarks =>
              Tries(Append(lines, event), type, step)
                = IF event.type = type /\ event.step = step
                  THEN Tries(lines, type, step) \cup {Len(lines) + 1}
                  ELSE Tries(lines, type, step)
         /\ event.type \in RunMarks => Tries(Append(lines, event), type, step) = {}
<1> DEFINE longer == Append(lines, event)
           n == Len(lines)
<1>1. /\ n \in Nat /\ Len(longer) = n + 1 /\ longer[n + 1] = event
      /\ \A i \in 1..n : longer[i] = lines[i]
  BY AppendFacts
<1>2. About(lines, type, step) \in SUBSET (1..n)
  BY AboutAppend
<1>3. About(longer, type, step)
        = IF event.type = type /\ event.step = step
          THEN About(lines, type, step) \cup {n + 1} ELSE About(lines, type, step)
  BY AboutAppend
<1> HIDE DEF longer, n
<1>4. ASSUME event.type \notin RunMarks, NEW i \in 1..n
      PROVE  Latest(longer, i) <=> Latest(lines, i)
  BY <1>1, <1>4 DEF Latest, n
<1>5. event.type \notin RunMarks => Latest(longer, n + 1)
  BY <1>1 DEF Latest
<1>6. event.type \in RunMarks => \A i \in 1..n : ~Latest(longer, i)
  BY <1>1 DEF Latest
<1>7. Tries(lines, type, step) \in SUBSET (1..n)
  BY <1>2 DEF Tries
<1>8. ASSUME event.type \notin RunMarks
      PROVE  Tries(longer, type, step)
               = IF event.type = type /\ event.step = step
                 THEN Tries(lines, type, step) \cup {n + 1} ELSE Tries(lines, type, step)
  BY <1>2, <1>3, <1>4, <1>5, <1>8 DEF Tries
<1>9. ASSUME event.type \in RunMarks PROVE Tries(longer, type, step) = {}
  BY <1>2, <1>3, <1>6, <1>9 DEF Tries
<1> QED
  BY <1>7, <1>8, <1>9 DEF longer, n

\* The same, counted.
LEMMA TimesTriedAppend ==
  ASSUME NEW lines \in Seq(Event), NEW event \in Event, NEW type, NEW step,
         type \notin RunMarks, event.type \notin RunMarks
  PROVE  /\ TimesTried(lines, type, step) \in Nat
         /\ TimesTried(Append(lines, event), type, step)
              = TimesTried(lines, type, step)
                + (IF event.type = type /\ event.step = step THEN 1 ELSE 0)
<1> DEFINE before == Tries(lines, type, step)
           after == Tries(Append(lines, event), type, step)
<1>1. Len(lines) \in Nat /\ before \in SUBSET (1..Len(lines))
  BY TriesAppend
<1>2. after = IF event.type = type /\ event.step = step
              THEN before \cup {Len(lines) + 1} ELSE before
  BY TriesAppend
<1> HIDE DEF before, after
<1>3. Cardinality(before) \in Nat
      /\ Cardinality(before \cup {Len(lines) + 1}) = Cardinality(before) + 1
  BY <1>1, CountFacts
<1>4. Cardinality(after)
        = Cardinality(before) + (IF event.type = type /\ event.step = step THEN 1 ELSE 0)
  BY <1>2, <1>3
<1> QED
  BY <1>3, <1>4 DEF before, after, TimesTried

\* In the latest run, the mates of a position are the tries of its step.
LEMMA MatesInLatest ==
  ASSUME NEW lines \in Seq(Event), NEW type, NEW i \in 1..Len(lines), Latest(lines, i)
  PROVE  Mates(lines, type, i) = Tries(lines, type, lines[i].step)
<1>1. ASSUME NEW j \in 1..Len(lines)
      PROVE  Together(lines, i, j) <=> Latest(lines, j)
  BY DEF Together, Latest
<1>2. About(lines, type, lines[i].step) \subseteq 1..Len(lines)
  BY DEF About, Positions
<1> QED
  BY <1>1, <1>2 DEF Mates, Tries

\* A new line is no mate of a line of an earlier run, and no mate of the same
\* type unless it is about the same step.
LEMMA MatesAppend ==
  ASSUME NEW lines \in Seq(Event), NEW event \in Event, NEW type, NEW i \in 1..Len(lines),
         type \notin RunMarks,
         event.type = type /\ event.step = lines[i].step => ~Latest(lines, i)
  PROVE  Mates(Append(lines, event), type, i) = Mates(lines, type, i)
<1> DEFINE longer == Append(lines, event)
           n == Len(lines)
<1>1. /\ n \in Nat /\ Len(longer) = n + 1 /\ longer[n + 1] = event
      /\ \A j \in 1..n : longer[j] = lines[j]
  BY AppendFacts
<1>2. About(lines, type, lines[i].step) \in SUBSET (1..n)
  BY AboutAppend
<1>3. \A step : About(longer, type, step)
                  = IF event.type = type /\ event.step = step
                    THEN About(lines, type, step) \cup {n + 1} ELSE About(lines, type, step)
  BY AboutAppend
<1>4. i \in 1..n /\ longer[i] = lines[i]
  BY <1>1
<1> HIDE DEF longer, n
<1>5. ASSUME NEW j \in 1..n
      PROVE  Together(longer, i, j) <=> Together(lines, i, j)
  BY <1>1, <1>4 DEF Together, n
<1>6. ASSUME event.type = type, event.step = lines[i].step
      PROVE  ~Together(longer, i, n + 1)
  <2>1. PICK k \in 1..n : lines[k].type \in RunMarks /\ ~(k <= i)
    BY <1>6 DEF Latest, n
  <2>2. k \in 1..Len(longer) /\ longer[k].type \in RunMarks /\ k <= n + 1
    BY <1>1, <2>1
  <2> QED
    BY <2>1, <2>2 DEF Together
<1> QED
  BY <1>2, <1>3, <1>4, <1>5, <1>6 DEF Mates, longer

\* The budget is kept if a step is only started again while it has not been
\* started more than max_retries times.
LEMMA WithinBudgetAppend ==
  ASSUME NEW lines \in Seq(Event), NEW event \in Event, WithinBudget(lines),
         event.type = "StepStarted" =>
           TimesTried(lines, "StepStarted", event.step) <= MaxRetries
  PROVE  WithinBudget(Append(lines, event))
<1> DEFINE longer == Append(lines, event)
           n == Len(lines)
<1>1. /\ longer \in Seq(Event)
      /\ n \in Nat /\ Len(longer) = n + 1 /\ longer[n + 1] = event
      /\ \A j \in 1..n : longer[j] = lines[j]
  BY AppendFacts
<1> SUFFICES ASSUME NEW i \in Positions(longer, "StepStarted")
             PROVE  Cardinality(Mates(longer, "StepStarted", i)) <= MaxRetries + 1
  BY DEF WithinBudget
<1>2. i \in 1..(n + 1) /\ longer[i].type = "StepStarted"
  BY <1>1 DEF Positions
<1>3. "StepStarted" \notin RunMarks
  BY DEF RunMarks
<1>4. ASSUME event.type = "StepStarted", longer[i].step = event.step, Latest(longer, i)
      PROVE  Cardinality(Mates(longer, "StepStarted", i)) <= MaxRetries + 1
  <2>1. Mates(longer, "StepStarted", i) = Tries(longer, "StepStarted", event.step)
    BY <1>1, <1>2, <1>4, MatesInLatest
  <2>2. TimesTried(lines, "StepStarted", event.step) \in Nat
        /\ TimesTried(longer, "StepStarted", event.step)
             = TimesTried(lines, "StepStarted", event.step) + 1
    BY <1>3, <1>4, TimesTriedAppend
  <2>3. TimesTried(longer, "StepStarted", event.step) <= MaxRetries + 1
    BY <1>4, <2>2, BoundsAssumption
  <2> QED
    BY <2>1, <2>3 DEF TimesTried
<1>5. CASE i = n + 1
  <2>1. event.type = "StepStarted" /\ longer[i].step = event.step
    BY <1>1, <1>2, <1>5
  <2>2. Latest(longer, i)
    BY <1>1, <1>3, <1>5 DEF Latest
  <2> QED
    BY <2>1, <2>2, <1>4
<1>6. CASE i \in 1..n
  <2>1. i \in Positions(lines, "StepStarted") /\ longer[i] = lines[i]
    BY <1>1, <1>2, <1>6 DEF Positions
  <2>2. CASE event.type = "StepStarted" /\ event.step = lines[i].step /\ Latest(lines, i)
    <3>1. Latest(longer, i)
      BY <1>1, <1>3, <1>6, <2>2 DEF Latest
    <3> QED
      BY <2>1, <2>2, <3>1, <1>4
  <2>3. CASE ~(event.type = "StepStarted" /\ event.step = lines[i].step /\ Latest(lines, i))
    <3>1. Mates(longer, "StepStarted", i) = Mates(lines, "StepStarted", i)
      BY <1>3, <1>6, <2>3, MatesAppend
    <3> QED
      BY <2>1, <3>1 DEF WithinBudget
  <2> QED
    BY <2>2, <2>3
<1> QED
  BY <1>1, <1>2, <1>5, <1>6

-----------------------------------------------------------------------------
(* RetryBudget: steps *)

TryTypes == {"StepStarted", "StepFailed"}

\* What writing a line does to the tries of a step.
LEMMA WritesTries ==
  ASSUME log \in Seq(Event), NEW type, NEW step, Writes(type, step),
         NEW tried \in TryTypes, NEW name
  PROVE  /\ type \in RunMarks => Tries(log', tried, name) = {}
         /\ type \notin RunMarks =>
              /\ TimesTried(log, tried, name) \in Nat
              /\ TimesTried(log', tried, name)
                   = TimesTried(log, tried, name)
                     + (IF type = tried /\ step = name THEN 1 ELSE 0)
         /\ type \notin RunMarks /\ ~(type = tried /\ step = name) =>
              Tries(log', tried, name) = Tries(log, tried, name)
<1>1. tried \notin RunMarks
  BY DEF TryTypes, RunMarks
<1>2. PICK event \in Event : event.type = type /\ event.step = step
                             /\ log' = Append(log, event)
  BY DEF Writes
<1>3. type \in RunMarks => Tries(log', tried, name) = {}
  BY <1>1, <1>2, TriesAppend
<1>4. ASSUME type \notin RunMarks
      PROVE  /\ TimesTried(log, tried, name) \in Nat
             /\ TimesTried(log', tried, name)
                  = TimesTried(log, tried, name)
                    + (IF type = tried /\ step = name THEN 1 ELSE 0)
  BY <1>1, <1>2, <1>4, TimesTriedAppend
<1>5. ASSUME type \notin RunMarks, ~(type = tried /\ step = name)
      PROVE  Tries(log', tried, name) = Tries(log, tried, name)
  BY <1>1, <1>2, <1>5, TriesAppend
<1> QED
  BY <1>3, <1>4, <1>5

\* A line that is no try and begins no run leaves all tries as they were.
LEMMA WritesNoTry ==
  ASSUME log \in Seq(Event), NEW type, NEW step, Writes(type, step),
         type \notin TryTypes \cup RunMarks,
         NEW tried \in TryTypes, NEW name
  PROVE  /\ Tries(log', tried, name) = Tries(log, tried, name)
         /\ TimesTried(log', tried, name) = TimesTried(log, tried, name)
BY WritesTries DEF TimesTried

\* What has not been tried has been tried zero times.
LEMMA Untried ==
  ASSUME NEW lines, NEW type, NEW step, Tries(lines, type, step) = {}
  PROVE  TimesTried(lines, type, step) = 0
BY FS_EmptySet DEF TimesTried

CountsInv == AttemptsCounted /\ LaterStepsUntried

LEMMA CountsInit == Init => CountsInv
BY DEF Init, CountsInv, AttemptsCounted, LaterStepsUntried

\* attempt and the log count alike: StartAttempt and AttemptFails write the line
\* that the counter stands for, and the counter restarts with the next step.
LEMMA CountsStep ==
  TypeInv /\ TypeInv' /\ MemInv /\ CountsInv /\ [Next]_vars => CountsInv'
<1> SUFFICES ASSUME TypeInv, TypeInv', MemInv, CountsInv, [Next]_vars PROVE CountsInv'
  OBVIOUS
<1>0. log \in Seq(Event) /\ attempt \in 1..(MaxRetries + 1) /\ MaxRetries \in Nat
      /\ N \in Nat
  BY BoundsAssumption, StepFacts DEF TypeInv, TypeOK
<1>1. "StepStarted" \in TryTypes /\ "StepFailed" \in TryTypes
      /\ {"PipelineStarted", "PipelineResumed"} \subseteq RunMarks
      /\ \A type \in TryTypes \cup {"PipelineCompleted", "GuardrailTriggered",
             "FallbackUsed", "StepSucceeded", "CheckpointWritten"} : type \notin RunMarks
  BY DEF TryTypes, RunMarks
<1>2. ASSUME Running
      PROVE  /\ state.current_step \in 0..N
             /\ \A i \in 1..N : i > state.current_step + 1 => PIPELINE_STEPS[i] # Step(state)
             /\ state.current_step < N => state.current_step + 1 \in 1..N
  <2>1. state.current_step \in 0..N
    BY <1>2, RunFacts
  <2>2. ASSUME NEW i \in 1..N, i > state.current_step + 1
        PROVE  PIPELINE_STEPS[i] # Step(state)
    <3>1. state.current_step + 1 \in 1..N /\ i # state.current_step + 1
      BY <1>0, <2>1, <2>2
    <3> QED
      BY <3>1, StepFacts DEF Step
  <2> QED
    BY <1>0, <2>1, <2>2
<1>3. ASSUME pc' \in {"down", "fresh"}, attempt' = 1
      PROVE  CountsInv'
  BY <1>3 DEF CountsInv, AttemptsCounted, LaterStepsUntried
<1>4. ASSUME NEW type \in RunMarks, Writes(type, Absent), pc' = "loop", attempt' = 1
      PROVE  CountsInv'
  <2>1. \A tried \in TryTypes : \A name : Tries(log', tried, name) = {}
    BY <1>0, <1>4, WritesTries
  <2>2. LaterStepsUntried'
    BY <1>1, <2>1 DEF LaterStepsUntried
  <2>3. Counts(0, 0)'
    BY <1>1, <2>1, Untried DEF Counts
  <2>4. AttemptsCounted'
    BY <1>4, <2>3 DEF AttemptsCounted
  <2> QED
    BY <2>2, <2>4 DEF CountsInv
<1> USE DEF Goto, Stop, Running
<1>5. CASE \E topic \in Topics : Resume(topic)
  <2>1. pc' = "loop" /\ attempt' = 1
    BY <1>5 DEF Resume, BeginRun, CountsInv, AttemptsCounted
  <2> QED
    BY <1>1, <1>4, <1>5, <2>1, LinesWritten
<1>6. CASE LogPipelineStarted
  <2>1. pc' = "loop" /\ attempt' = 1
    BY <1>6 DEF LogPipelineStarted, CountsInv, AttemptsCounted
  <2> QED
    BY <1>1, <1>4, <1>6, <2>1, LinesWritten
<1>7. CASE Complete \/ SaveBlocked \/ GiveUp \/ SaveRaises \/ Crash
           \/ \E topic \in Topics : StartFreshRaises(topic)
  BY <1>3, <1>7 DEF Complete, SaveBlocked, GiveUp, SaveRaises, Crash, StartFreshRaises
<1>8. CASE \E topic \in Topics : StartFresh(topic)
  BY <1>3, <1>8 DEF StartFresh, BeginRun, CountsInv, AttemptsCounted
<1>9. CASE StartAttempt
  <2>1. /\ pc = "loop" /\ pc' = "call" /\ state.current_step < N
        /\ state' = state /\ attempt' = attempt
    BY <1>9 DEF StartAttempt
  <2>2. Writes("StepStarted", Step(state))
    BY <1>9, LinesWritten
  <2>3. Counts(attempt - 1, attempt - 1)
    BY <2>1 DEF CountsInv, AttemptsCounted
  <2>4. TimesTried(log', "StepStarted", Step(state)) = attempt
    BY <1>0, <1>1, <2>2, <2>3, WritesTries DEF Counts
  <2>5. TimesTried(log', "StepFailed", Step(state)) = attempt - 1
    BY <1>0, <1>1, <2>2, <2>3, WritesTries DEF Counts
  <2>6. AttemptsCounted'
    BY <2>1, <2>4, <2>5 DEF AttemptsCounted, Counts
  <2>7. LaterStepsUntried'
    <3>1. ASSUME NEW i \in 1..N, i > state.current_step + 1
          PROVE  /\ Tries(log', "StepStarted", PIPELINE_STEPS[i]) = {}
                 /\ Tries(log', "StepFailed", PIPELINE_STEPS[i]) = {}
      BY <1>0, <1>1, <1>2, <2>1, <2>2, <3>1, WritesTries
         DEF CountsInv, LaterStepsUntried, Reached
    <3> QED
      BY <2>1, <3>1 DEF LaterStepsUntried, Reached
  <2> QED
    BY <2>6, <2>7 DEF CountsInv
<1>10. CASE \E error \in Errors : AttemptFails(error)
  <2>1. PICK error \in Errors : AttemptFails(error)
    BY <1>10
  <2>2. /\ pc = "call" /\ pc' \in {"fallback", "failed"} /\ state.current_step < N
        /\ state' = MarkStepFailed(state, Step(state), error) /\ attempt' = attempt
    BY <2>1 DEF AttemptFails, EmitFailure, TypeInv, StepRemains
  <2>3. state'.current_step = state.current_step /\ Step(state') = Step(state)
    BY <2>2, RunFacts, MarkStepFailedFacts DEF Step
  <2>4. Writes("StepFailed", Step(state))
    BY <2>1, LinesWritten
  <2>5. Counts(attempt, attempt - 1)
    BY <2>2 DEF CountsInv, AttemptsCounted
  <2>6. TimesTried(log', "StepStarted", Step(state)) = attempt
    BY <1>0, <1>1, <2>4, <2>5, WritesTries DEF Counts
  <2>7. TimesTried(log', "StepFailed", Step(state)) = attempt
    BY <1>0, <1>1, <2>4, <2>5, WritesTries DEF Counts
  <2>8. AttemptsCounted'
    BY <2>2, <2>3, <2>6, <2>7 DEF AttemptsCounted, Counts
  <2>9. LaterStepsUntried'
    <3>1. ASSUME NEW i \in 1..N, i > state.current_step + 1
          PROVE  /\ Tries(log', "StepStarted", PIPELINE_STEPS[i]) = {}
                 /\ Tries(log', "StepFailed", PIPELINE_STEPS[i]) = {}
      BY <1>0, <1>1, <1>2, <2>2, <2>4, <3>1, WritesTries
         DEF CountsInv, LaterStepsUntried, Reached
    <3> QED
      BY <2>2, <2>3, <3>1 DEF LaterStepsUntried, Reached
  <2> QED
    BY <2>8, <2>9 DEF CountsInv
<1>11. ASSUME NEW type, NEW step, Writes(type, step), type \notin TryTypes \cup RunMarks,
              pc \notin {"down", "fresh"}, pc' # "down", Reached' = Reached
       PROVE  LaterStepsUntried'
  BY <1>0, <1>1, <1>11, WritesNoTry DEF CountsInv, LaterStepsUntried
<1>12. CASE LogFallback
  <2>1. pc = "fallback" /\ pc' = "failed" /\ state' = state /\ attempt' = attempt
    BY <1>12 DEF LogFallback
  <2>2. Writes("FallbackUsed", Step(state)) /\ "FallbackUsed" \notin TryTypes \cup RunMarks
    BY <1>1, <1>12, LinesWritten DEF TryTypes
  <2>3. AttemptsCounted'
    BY <1>0, <1>1, <2>1, <2>2, WritesNoTry DEF CountsInv, AttemptsCounted, Counts
  <2> QED
    BY <1>11, <2>1, <2>2, <2>3 DEF CountsInv, Reached
<1>13. CASE GuardrailBlocks
  <2>1. /\ pc = "call" /\ pc' = "blocked" /\ state.current_step < N
        /\ state' = MarkStepFailed(state, Step(state), "GuardrailBlocked")
    BY <1>13 DEF GuardrailBlocks, TypeInv, StepRemains
  <2>2. state'.current_step = state.current_step
    BY <2>1, RunFacts, MarkStepFailedFacts
  <2>3. Writes("GuardrailTriggered", Step(state))
        /\ "GuardrailTriggered" \notin TryTypes \cup RunMarks
    BY <1>1, <1>13, LinesWritten DEF TryTypes
  <2> QED
    BY <1>11, <2>1, <2>2, <2>3 DEF CountsInv, AttemptsCounted, Reached
<1>14. CASE \E output \in Payloads : AttemptSucceeds(output)
  <2>1. PICK output \in Payloads : AttemptSucceeds(output)
    BY <1>14
  <2>2. /\ pc = "call" /\ pc' = "save" /\ state.current_step < N
        /\ state' = MarkStepDone(state, Step(state), output)
    BY <2>1 DEF AttemptSucceeds, TypeInv, StepRemains
  <2>3. state'.current_step = state.current_step + 1
    BY <2>2, RunFacts, MarkStepDoneFacts
  <2>4. Writes("StepSucceeded", Step(state)) /\ "StepSucceeded" \notin TryTypes \cup RunMarks
    BY <1>1, <2>1, LinesWritten DEF TryTypes
  <2> QED
    BY <1>11, <2>2, <2>3, <2>4 DEF CountsInv, AttemptsCounted, Reached
<1>15. CASE LogCheckpointWritten
  <2>1. pc = "saved" /\ pc' = "loop" /\ state' = state /\ attempt' = 1
    BY <1>15 DEF LogCheckpointWritten
  <2>2. Writes("CheckpointWritten", Absent)
        /\ "CheckpointWritten" \notin TryTypes \cup RunMarks
    BY <1>1, <1>15, LinesWritten DEF TryTypes
  <2>3. ASSUME NEW i \in 1..N, i > state.current_step
        PROVE  /\ Tries(log', "StepStarted", PIPELINE_STEPS[i]) = {}
               /\ Tries(log', "StepFailed", PIPELINE_STEPS[i]) = {}
    BY <1>0, <1>1, <2>1, <2>2, <2>3, WritesNoTry DEF CountsInv, LaterStepsUntried, Reached
  <2>4. LaterStepsUntried'
    BY <1>2, <2>1, <2>3 DEF LaterStepsUntried, Reached
  <2>5. state.current_step < N => Counts(0, 0)'
    BY <1>2, <2>1, <2>3, Untried DEF Counts, Step
  <2>6. AttemptsCounted'
    BY <2>1, <2>5 DEF AttemptsCounted
  <2> QED
    BY <2>4, <2>6 DEF CountsInv
<1>16. CASE Retry
  <2>1. pc = "failed" /\ pc' = "loop" /\ state' = state /\ log' = log
        /\ attempt' = attempt + 1
    BY <1>16 DEF Retry
  <2>2. attempt' - 1 = attempt
    BY <1>0, <2>1
  <2>3. AttemptsCounted'
    BY <2>1, <2>2 DEF CountsInv, AttemptsCounted, Counts
  <2>4. LaterStepsUntried'
    BY <2>1 DEF CountsInv, LaterStepsUntried, Reached
  <2> QED
    BY <2>3, <2>4 DEF CountsInv
<1>17. CASE SaveCheckpoint \/ UNCHANGED vars
  <2>1. state' = state /\ log' = log /\ attempt' = attempt
        /\ (pc' = pc \/ (pc = "save" /\ pc' = "saved"))
    BY <1>17 DEF SaveCheckpoint, vars
  <2>2. AttemptsCounted'
    BY <2>1 DEF CountsInv, AttemptsCounted, Counts
  <2>3. LaterStepsUntried'
    BY <2>1 DEF CountsInv, LaterStepsUntried, Reached
  <2> QED
    BY <2>2, <2>3 DEF CountsInv
<1> QED
  BY <1>5, <1>6, <1>7, <1>8, <1>9, <1>10, <1>12, <1>13, <1>14, <1>15, <1>16, <1>17
     DEF Next, Run, Call

\* A run has the outcome "running" until it stops, and only GiveUp exhausts.
LEMMA OutcomeStep ==
  OutcomeOfRun /\ [Next]_vars =>
    /\ OutcomeOfRun'
    /\ outcome' = "exhausted" => GiveUp \/ (log' = log /\ outcome = "exhausted")
BY DEF OutcomeOfRun, Running, Next, Run, Call, vars, Goto, Stop, Resume, StartFresh,
       StartFreshRaises, LogPipelineStarted, StartAttempt, Complete, GuardrailBlocks,
       SaveBlocked, AttemptFails, LogFallback, Retry, GiveUp, AttemptSucceeds,
       SaveCheckpoint, SaveRaises, LogCheckpointWritten, Crash

\* A step writes no StepStarted, or it is StartAttempt.
LEMMA LogSteps ==
  ASSUME TypeInv, MemInv, [Next]_vars
  PROVE  \/ log' = log
         \/ StartAttempt /\ Writes("StepStarted", Step(state))
         \/ \E type \in EventTypes \ {"StepStarted"} : \E step : Writes(type, step)
<1> USE LinesWritten DEF EventTypes
<1>1. \A topic \in Topics :
        StartFresh(topic) \/ StartFreshRaises(topic) => log' = log
  BY DEF StartFresh, StartFreshRaises
<1>2. SaveBlocked \/ Retry \/ GiveUp \/ SaveCheckpoint \/ SaveRaises \/ Crash
        \/ UNCHANGED vars => log' = log
  BY DEF SaveBlocked, Retry, GiveUp, SaveCheckpoint, SaveRaises, Crash, vars
<1>3. CASE Call
  <2>1. PICK topic \in Topics : Resume(topic) \/ StartFresh(topic) \/ StartFreshRaises(topic)
    BY <1>3 DEF Call
  <2> QED
    BY <1>1, <2>1
<1>4. CASE Run
  BY <1>2, <1>4 DEF Run
<1>5. CASE Crash \/ UNCHANGED vars
  BY <1>2, <1>5
<1> QED
  BY <1>3, <1>4, <1>5 DEF Next

LEMMA WithinStep ==
  ASSUME TypeInv, MemInv, CountsInv, WithinBudget(log), [Next]_vars
  PROVE  WithinBudget(log')
<1>1. log \in Seq(Event) /\ attempt \in 1..(MaxRetries + 1) /\ MaxRetries \in Nat
  BY BoundsAssumption DEF TypeInv, TypeOK
<1>2. CASE log' = log
  BY <1>2
<1>3. CASE StartAttempt /\ Writes("StepStarted", Step(state))
  <2>1. PICK event \in Event : event.step = Step(state) /\ log' = Append(log, event)
    BY <1>3 DEF Writes
  <2>2. TimesTried(log, "StepStarted", Step(state)) = attempt - 1
    BY <1>3 DEF StartAttempt, CountsInv, AttemptsCounted, Counts
  <2>3. TimesTried(log, "StepStarted", event.step) <= MaxRetries
    BY <1>1, <2>1, <2>2
  <2> QED
    BY <1>1, <2>1, <2>3, WithinBudgetAppend
<1>4. CASE \E type \in EventTypes \ {"StepStarted"} : \E step : Writes(type, step)
  <2>1. PICK event \in Event : event.type # "StepStarted" /\ log' = Append(log, event)
    BY <1>4 DEF Writes
  <2> QED
    BY <1>1, <2>1, WithinBudgetAppend
<1> QED
  BY <1>2, <1>3, <1>4, LogSteps

\* The StepFailed of the attempt that just failed is the last of the log.
LEMMA LastFailureStep ==
  ASSUME TypeInv, MemInv, LastFailureIsOurs, [Next]_vars
  PROVE  LastFailureIsOurs'
<1>1. log \in Seq(Event) /\ Len(log) \in Nat
      /\ "StepFailed" \notin RunMarks /\ "FallbackUsed" \notin RunMarks
      /\ "StepFailed" \in TryTypes /\ "FallbackUsed" \notin TryTypes
  BY DEF TypeInv, TypeOK, RunMarks, TryTypes
<1> USE DEF Goto, Stop, Running
<1>2. ASSUME NEW error \in Errors, AttemptFails(error) PROVE LastFailureIsOurs'
  <2>1. state.current_step < N /\ state' = MarkStepFailed(state, Step(state), error)
        /\ pc = "call"
    BY <1>2 DEF AttemptFails, EmitFailure, TypeInv, StepRemains
  <2>2. Step(state') = Step(state)
    BY <2>1, RunFacts, MarkStepFailedFacts DEF Step
  <2>3. PICK event \in Event : /\ event.type = "StepFailed" /\ event.step = Step(state)
                               /\ log' = Append(log, event)
    BY <1>2, LinesWritten DEF Writes
  <2>4. Len(log) + 1 \in Tries(log', "StepFailed", Step(state))
    BY <1>1, <2>3, TriesAppend
  <2>5. Len(log) + 1 \in Logged("StepFailed")'
        /\ \A j \in Logged("StepFailed")' : j <= Len(log) + 1
    BY <1>1, <2>3, AppendFacts DEF Logged
  <2> QED
    BY <2>2, <2>4, <2>5 DEF LastFailureIsOurs, IsLastFailure
<1>3. CASE LogFallback
  <2>1. pc = "fallback" /\ state' = state
    BY <1>3 DEF LogFallback
  <2>2. Writes("FallbackUsed", Step(state))
    BY <1>3, LinesWritten
  <2>3. Tries(log', "StepFailed", Step(state)) = Tries(log, "StepFailed", Step(state))
    BY <1>1, <2>2, WritesNoTry
  <2>4. Logged("StepFailed")' = Logged("StepFailed")
    BY <1>1, <2>2, LoggedFacts DEF Writes
  <2> QED
    BY <2>1, <2>3, <2>4 DEF LastFailureIsOurs, IsLastFailure
<1>4. CASE UNCHANGED vars
  BY <1>4 DEF vars, LastFailureIsOurs, IsLastFailure, Logged
<1>5. ASSUME ~LogFallback, ~(UNCHANGED vars), \A error \in Errors : ~AttemptFails(error)
      PROVE  pc' \notin {"fallback", "failed"}
  BY <1>5 DEF Next, Run, Call, Resume, StartFresh, StartFreshRaises, LogPipelineStarted,
       StartAttempt, Complete, GuardrailBlocks, SaveBlocked, Retry, GiveUp,
       AttemptSucceeds, SaveCheckpoint, SaveRaises, LogCheckpointWritten, Crash
<1> QED
  BY <1>2, <1>3, <1>4, <1>5 DEF LastFailureIsOurs

\* GiveUp leaves the evidence of a used-up budget, which stays until the next call.
LEMMA ExhaustedStep ==
  ASSUME TypeInv, CountsInv, LastFailureIsOurs, OutcomeOfRun, ExhaustedFairly, [Next]_vars
  PROVE  ExhaustedFairly'
<1>1. CASE GiveUp
  <2>1. pc = "failed" /\ attempt > MaxRetries /\ log' = log
    BY <1>1 DEF GiveUp
  <2>2. attempt = MaxRetries + 1
    BY <2>1, BoundsAssumption DEF TypeInv, TypeOK
  <2>3. PICK i \in Tries(log, "StepFailed", Step(state)) : IsLastFailure(i)
    BY <2>1 DEF LastFailureIsOurs
  <2>4. i \in 1..Len(log) /\ log[i].step = Step(state) /\ Latest(log, i)
    BY <2>3 DEF Tries, About, Positions
  <2>5. Mates(log, "StepFailed", i) = Tries(log, "StepFailed", Step(state))
    BY <2>4, MatesInLatest DEF TypeInv, TypeOK
  <2>6. Cardinality(Tries(log, "StepFailed", Step(state))) = MaxRetries + 1
    BY <2>1, <2>2 DEF CountsInv, AttemptsCounted, Counts, TimesTried
  <2> QED
    BY <2>1, <2>3, <2>5, <2>6 DEF ExhaustedFairly, IsLastFailure, Logged
<1>2. CASE log' = log /\ outcome = "exhausted"
  BY <1>2 DEF ExhaustedFairly, IsLastFailure, Logged
<1>3. CASE outcome' # "exhausted"
  BY <1>3 DEF ExhaustedFairly
<1> QED
  BY <1>1, <1>2, <1>3, OutcomeStep

LEMMA RetryInvInit == Init => RetryInv
<1>1. Init => CountsInv
  BY CountsInit
<1> QED
  BY <1>1 DEF Init, RetryInv, CountsInv, LastFailureIsOurs, OutcomeOfRun, Running,
              WithinBudget, Positions, ExhaustedFairly

LEMMA RetryInvStep ==
  TypeInv /\ TypeInv' /\ MemInv /\ RetryInv /\ [Next]_vars => RetryInv'
<1> SUFFICES ASSUME TypeInv, TypeInv', MemInv, RetryInv, [Next]_vars PROVE RetryInv'
  OBVIOUS
<1>1. CountsInv
  BY DEF RetryInv, CountsInv
<1>2. CountsInv'
  BY <1>1, CountsStep
<1>3. OutcomeOfRun' /\ LastFailureIsOurs'
  BY OutcomeStep, LastFailureStep DEF RetryInv
<1>4. WithinBudget(log)'
  BY <1>1, WithinStep DEF RetryInv
<1>5. ExhaustedFairly'
  BY <1>1, ExhaustedStep DEF RetryInv
<1> QED
  BY <1>2, <1>3, <1>4, <1>5 DEF RetryInv, CountsInv

\* attempt, the log and the outcome agree in every reachable state.
LEMMA RetryCorrect == Spec => [](TypeInv /\ RetryInv)
<1>1. TypeInv /\ TypeInv' /\ MemInv /\ RetryInv /\ [Next]_vars => RetryInv'
  BY RetryInvStep
<1> QED
  BY <1>1, RetryInvInit, MemCorrect, PTL DEF Spec

\* What the invariant says of the budget is what the property says.
LEMMA BudgetFromInv ==
  ASSUME TypeInv, RetryInv
  PROVE  RetryBudget
<1>1. ASSUME NEW i, NEW j
      PROVE  Together(log, i, j) <=> SameRun(i, j)
  BY DEF Together, SameRun, Logged, RunMarks
<1>2. ASSUME NEW type, NEW i
      PROVE  Mates(log, type, i)
               = {j \in Logged(type) : SameRun(i, j) /\ log[j].step = log[i].step}
  BY <1>1 DEF Mates, About, Positions, Logged
<1>3. ASSUME NEW i \in Logged("StepStarted")
      PROVE  Cardinality({j \in Logged("StepStarted") :
                            SameRun(i, j) /\ log[j].step = log[i].step}) <= MaxRetries + 1
  BY <1>2 DEF RetryInv, WithinBudget, Positions, Logged
<1> DEFINE final == CHOOSE i \in Logged("StepFailed") :
                      \A j \in Logged("StepFailed") : j <= i
<1>4. ASSUME outcome = "exhausted"
      PROVE  Cardinality({j \in Logged("StepFailed") :
                            SameRun(final, j) /\ log[j].step = log[final].step})
               = MaxRetries + 1
  <2>1. PICK i \in Logged("StepFailed") :
          IsLastFailure(i) /\ Cardinality(Mates(log, "StepFailed", i)) = MaxRetries + 1
    BY <1>4 DEF RetryInv, ExhaustedFairly
  <2>2. Logged("StepFailed") \subseteq Int
    BY DEF Logged
  <2>3. final = i
    BY <2>1, <2>2 DEF IsLastFailure
  <2>4. Mates(log, "StepFailed", final)
          = {j \in Logged("StepFailed") : SameRun(final, j) /\ log[j].step = log[final].step}
    BY <1>2
  <2> HIDE DEF final
  <2>5. Cardinality(Mates(log, "StepFailed", final)) = MaxRetries + 1
    BY <2>1, <2>3
  <2> QED
    BY <2>4, <2>5
<1> QED
  BY <1>3, <1>4 DEF RetryBudget

\* No run of a pipeline tries a step more often than its budget allows, and one
\* that gives up has used exactly its budget, on one step.
THEOREM BudgetAlwaysKept == Spec => []RetryBudget
<1>1. TypeInv /\ RetryInv => RetryBudget
  BY BudgetFromInv
<1> QED
  BY <1>1, RetryCorrect, PTL

\* The invariant of the history holds.
THEOREM HistoryHolds == Spec => []HistoryInv
BY WorkLostOnlyToFaults, ExplainsCorrect, RetryCorrect, PTL DEF HistoryInv

=============================================================================
