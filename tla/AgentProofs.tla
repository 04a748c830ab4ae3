---------------------------- MODULE AgentProofs ----------------------------
(***************************************************************************)
(* Theorems about Agent, for every chain of models, every set of errors    *)
(* and either order of the two timeouts.                                   *)
(***************************************************************************)
EXTENDS AgentInvariant, PipelineProofs

-----------------------------------------------------------------------------
(* The threads *)

\* A call is a record of its own; a future has an answer or an error when it is
\* done.
LEMMA CallFacts ==
  ASSUME CallsSound, NEW c \in DOMAIN calls
  PROVE  /\ calls \in Seq(CallRecord) /\ calls[c] \in CallRecord
         /\ calls[c].model \in 1..Len(ModelChain)
         /\ calls[c].status = "answered" => calls[c].result \in Payloads
         /\ calls[c].status = "raised" => calls[c].result \in Errors
         /\ calls[c].status = "falling" => calls[c].model < Len(ModelChain)
<1>1. calls \in Seq(CallRecord) /\ calls[c] \in CallRecord
  BY DEF CallsSound
<1>2. calls[c].model \in 1..Len(ModelChain)
  BY <1>1 DEF CallRecord
<1> QED
  BY <1>1, <1>2 DEF CallsSound

\* A thread that changes its status or moves on along the chain leaves every
\* other call, and its own context, alone.
LEMMA CallUpdate ==
  ASSUME CallsSound, NEW c \in DOMAIN calls, NEW new \in CallRecord,
         new.status = "answered" => new.result \in Payloads,
         new.status = "raised" => new.result \in Errors,
         new.status = "falling" => new.model < Len(ModelChain),
         new.run = calls[c].run, new.step = calls[c].step,
         new.attempt = calls[c].attempt, calls[c].model <= new.model,
         calls' = [calls EXCEPT ![c] = new]
  PROVE  /\ CallsSound'
         /\ DOMAIN calls' = DOMAIN calls /\ Len(calls') = Len(calls)
         /\ calls'[c] = new
         /\ \A d \in DOMAIN calls :
              /\ calls'[d].run = calls[d].run /\ calls'[d].step = calls[d].step
              /\ calls'[d].attempt = calls[d].attempt
              /\ calls[d].model <= calls'[d].model
<1>1. calls \in Seq(CallRecord)
  BY CallFacts
<1>2. calls' \in Seq(CallRecord) /\ DOMAIN calls' = DOMAIN calls
      /\ Len(calls') = Len(calls)
  BY <1>1
<1>3. calls'[c] = new /\ \A d \in DOMAIN calls : d # c => calls'[d] = calls[d]
  BY <1>1
<1>4. CallsSound'
  BY <1>2, <1>3 DEF CallsSound
<1>5. \A d \in DOMAIN calls : calls[d].model \in Nat
  BY CallFacts
<1>6. \A d \in DOMAIN calls : d # c => calls[d].model <= calls'[d].model
  BY <1>3, <1>5
<1> QED
  BY <1>2, <1>3, <1>4, <1>6

\* What a worker may do: its call goes on or ends, and it writes a line only
\* when it leaves a model behind.
LEMMA WorkerFacts ==
  ASSUME CallsSound, Worker
  PROVE  /\ CallsSound'
         /\ UNCHANGED <<vars, waiting>>
         /\ DOMAIN calls' = DOMAIN calls /\ Len(calls') = Len(calls)
         /\ \A d \in DOMAIN calls :
              /\ calls'[d].run = calls[d].run /\ calls'[d].step = calls[d].step
              /\ calls'[d].attempt = calls[d].attempt
              /\ calls[d].model <= calls'[d].model
         /\ \/ UNCHANGED lines
            \/ \E c \in DOMAIN calls :
                 EmitFallback(c) /\ calls'[c].model = calls[c].model + 1
<1>1. PICK c \in DOMAIN calls :
        \/ \E output \in Payloads : ModelAnswers(c, output)
        \/ \E error \in ModelErrors : ModelFails(c, error)
        \/ FallsBack(c)
        \/ FallsBackUnlogged(c)
  BY DEF Worker
<1>2. /\ calls[c] \in CallRecord /\ calls \in Seq(CallRecord)
      /\ calls[c].model \in 1..Len(ModelChain)
      /\ calls[c].status = "falling" => calls[c].model < Len(ModelChain)
  BY CallFacts
<1> DEFINE Changes(new) ==
             /\ new.status = "answered" => new.result \in Payloads
             /\ new.status = "raised" => new.result \in Errors
             /\ new.status = "falling" => new.model < Len(ModelChain)
             /\ new.run = calls[c].run /\ new.step = calls[c].step
             /\ new.attempt = calls[c].attempt
             /\ calls' = [calls EXCEPT ![c] = new]
           Ends(new) == UNCHANGED lines /\ new.model = calls[c].model
           Falls(new) ==
             /\ UNCHANGED lines \/ EmitFallback(c)
             /\ new.model = calls[c].model + 1
<1>3. ASSUME NEW status \in Statuses,
             NEW result \in Payloads \cup Errors \cup {Absent},
             Finish(c, status, result), UNCHANGED lines,
             status = "answered" => result \in Payloads,
             status = "raised" => result \in Errors,
             status = "falling" => calls[c].model < Len(ModelChain)
      PROVE  \E new \in CallRecord : Changes(new) /\ Ends(new)
  <2> DEFINE new == [calls[c] EXCEPT !.status = status, !.result = result]
  <2>1. /\ new \in CallRecord
        /\ new.status = status /\ new.result = result /\ new.model = calls[c].model
        /\ new.run = calls[c].run /\ new.step = calls[c].step
        /\ new.attempt = calls[c].attempt
    BY <1>2 DEF CallRecord
  <2>2. calls' = [calls EXCEPT ![c] = new]
    BY <1>3, Zenon DEF Finish
  <2> HIDE DEF new
  <2> QED
    BY <1>3, <2>1, <2>2
<1>4. ASSUME NextModel(c), calls[c].status = "falling",
             UNCHANGED lines \/ EmitFallback(c)
      PROVE  \E new \in CallRecord : Changes(new) /\ Falls(new)
  <2> DEFINE new == [calls[c] EXCEPT !.model = calls[c].model + 1,
                                     !.status = "calling"]
  <2>1. calls[c].model + 1 \in 1..Len(ModelChain)
    BY <1>2, <1>4
  <2>2. /\ new \in CallRecord
        /\ new.status = "calling" /\ new.model = calls[c].model + 1
        /\ new.run = calls[c].run /\ new.step = calls[c].step
        /\ new.attempt = calls[c].attempt
    BY <1>2, <2>1 DEF CallRecord, Statuses
  <2>3. calls' = [calls EXCEPT ![c] = new]
    BY <1>4, Zenon DEF NextModel
  <2> HIDE DEF new
  <2> QED
    BY <1>4, <2>2, <2>3
<1>5. \E new \in CallRecord : Changes(new) /\ (Ends(new) \/ Falls(new))
  <2>1. ASSUME NEW output \in Payloads, ModelAnswers(c, output)
        PROVE  \E new \in CallRecord : Changes(new) /\ Ends(new)
    BY <1>3, <2>1 DEF ModelAnswers, Statuses
  <2>2. ASSUME NEW error \in ModelErrors, ModelFails(c, error)
        PROVE  \E new \in CallRecord : Changes(new) /\ Ends(new)
    <3>1. error \in Errors /\ "AllModelsExhausted" \in Errors
      BY AgentAssumption
    <3>2. UNCHANGED lines
      BY <2>2 DEF ModelFails
    <3>3. CASE Finish(c, "raised", error)
      BY <1>3, <3>1, <3>2, <3>3 DEF Statuses
    <3>4. CASE Finish(c, "raised", "AllModelsExhausted")
      BY <1>3, <3>1, <3>2, <3>4 DEF Statuses
    <3>5. CASE calls[c].model < Len(ModelChain) /\ Finish(c, "falling", Absent)
      BY <1>3, <3>2, <3>5 DEF Statuses
    <3> QED
      BY <2>2, <3>3, <3>4, <3>5 DEF ModelFails
  <2>3. ASSUME FallsBack(c) \/ FallsBackUnlogged(c)
        PROVE  \E new \in CallRecord : Changes(new) /\ Falls(new)
    <3>1. NextModel(c) /\ calls[c].status = "falling"
          /\ (UNCHANGED lines \/ EmitFallback(c))
      BY <2>3 DEF FallsBack, FallsBackUnlogged
    <3> QED
      BY <1>4, <3>1
  <2> QED
    BY <1>1, <2>1, <2>2, <2>3
<1>6. PICK new \in CallRecord : Changes(new) /\ (Ends(new) \/ Falls(new))
  BY <1>5
<1>7. calls[c].model <= new.model
  BY <1>2, <1>6
<1>8. /\ CallsSound'
      /\ DOMAIN calls' = DOMAIN calls /\ Len(calls') = Len(calls)
      /\ calls'[c] = new
      /\ \A d \in DOMAIN calls :
           /\ calls'[d].run = calls[d].run /\ calls'[d].step = calls[d].step
           /\ calls'[d].attempt = calls[d].attempt
           /\ calls[d].model <= calls'[d].model
  BY <1>6, <1>7, CallUpdate
<1>9. UNCHANGED <<vars, waiting>>
  BY <1>1 DEF ModelAnswers, ModelFails, FallsBack, FallsBackUnlogged
<1>10. UNCHANGED lines \/ (EmitFallback(c) /\ calls'[c].model = calls[c].model + 1)
  BY <1>6, <1>8
<1> QED
  BY <1>8, <1>9, <1>10

\* A call that is started belongs to the current attempt and has the first model.
LEMMA SubmitFacts ==
  ASSUME TypeInv, CallsSound, Submit
  PROVE  /\ CallsSound'
         /\ Len(calls') = Len(calls) + 1 /\ waiting' = Len(calls')
         /\ \A c \in DOMAIN calls : c \in DOMAIN calls' /\ calls'[c] = calls[c]
         /\ calls'[waiting'].run = runs /\ calls'[waiting'].step = Step(state)
         /\ calls'[waiting'].attempt = attempt
<1> DEFINE new == [run |-> runs, step |-> Step(state), attempt |-> attempt,
                   model |-> 1, status |-> "calling", result |-> Absent]
<1>1. state \in PipelineState /\ state.current_step \in 0..N /\ state.current_step < N
  BY RunningFacts DEF Submit, Running, TypeInv, StepRemains
<1>2. Step(state) \in StepNames
  BY <1>1, StepFacts DEF Step
<1>3. new \in CallRecord
  BY <1>2, AgentAssumption DEF CallRecord, Statuses, TypeInv, TypeOK
<1>4. new.status = "calling" /\ new.run = runs /\ new.step = Step(state)
      /\ new.attempt = attempt
  OBVIOUS
<1>5. calls' = Append(calls, new) /\ waiting' = Len(calls')
  BY DEF Submit
<1> HIDE DEF new
<1>6. calls \in Seq(CallRecord)
  BY DEF CallsSound
<1>7. /\ calls' \in Seq(CallRecord) /\ Len(calls') = Len(calls) + 1
      /\ \A c \in DOMAIN calls : c \in DOMAIN calls' /\ calls'[c] = calls[c]
      /\ calls'[Len(calls')] = new
      /\ \A c \in DOMAIN calls' : c \in DOMAIN calls \/ c = Len(calls')
  BY <1>3, <1>5, <1>6
<1>8. CallsSound'
  BY <1>4, <1>7 DEF CallsSound
<1> QED
  BY <1>4, <1>5, <1>7, <1>8

\* The death of a process takes its threads with it.
LEMMA DieFacts ==
  ASSUME CallsSound, Die
  PROVE  /\ CallsSound'
         /\ Len(calls') = Len(calls) /\ DOMAIN calls' = DOMAIN calls
         /\ \A c \in DOMAIN calls : calls'[c].model = calls[c].model
<1> DEFINE dead(c) == [calls[c] EXCEPT !.status = "dead"]
<1>1. calls \in Seq(CallRecord)
  BY DEF CallsSound
<1>2. \A c \in DOMAIN calls : calls[c] \in CallRecord
  BY <1>1
<1>3. ASSUME NEW c \in DOMAIN calls
      PROVE  /\ dead(c) \in CallRecord /\ dead(c).status = "dead"
             /\ dead(c).model = calls[c].model
  BY <1>2 DEF CallRecord, Statuses
<1>4. calls' = [c \in DOMAIN calls |->
                  IF calls[c].run = runs /\ Busy(c) THEN dead(c) ELSE calls[c]]
  BY DEF Die
<1> HIDE DEF dead
<1>5. \A c \in DOMAIN calls : calls'[c] = dead(c) \/ calls'[c] = calls[c]
  BY <1>4
<1>6. \A c \in DOMAIN calls : calls'[c] \in CallRecord
  BY <1>2, <1>3, <1>5
<1>7. DOMAIN calls = 1..Len(calls) /\ Len(calls) \in Nat
  BY <1>1
<1>8. calls' \in [1..Len(calls) -> CallRecord]
  BY <1>4, <1>6, <1>7
<1>9. calls' \in Seq(CallRecord) /\ Len(calls') = Len(calls)
      /\ DOMAIN calls' = DOMAIN calls
  BY <1>7, <1>8
<1>10. CallsSound'
  BY <1>3, <1>5, <1>9 DEF CallsSound
<1> QED
  BY <1>3, <1>5, <1>9, <1>10

-----------------------------------------------------------------------------
(* The main thread and Pipeline *)

\* A step of the main thread is a step of Pipeline, since what a future returns
\* is an answer or an error; Pipeline does not see the workers and Submit.
LEMMA AgentStep ==
  ASSUME AgentInv, [AgentNext]_agentVars
  PROVE  [Next]_vars
<1>1. CASE Orchestrate
  BY <1>1 DEF Orchestrate, Next, Run
<1>2. CASE Submit
  BY <1>2 DEF Submit, vars
<1>3. ASSUME waiting # 0 PROVE waiting \in DOMAIN calls
  BY <1>3 DEF AgentInv, CallsSound, WaitsForOwnCall
<1>4. CASE TakeAnswer
  <2>1. calls[waiting].result \in Payloads
    BY <1>3, <1>4, CallFacts DEF TakeAnswer, AgentInv
  <2> QED
    BY <1>4, <2>1 DEF TakeAnswer, Next, Run
<1>5. CASE RejectAnswer
  <2>1. PICK error \in CheckErrors : AttemptFails(error)
    BY <1>5 DEF RejectAnswer
  <2> QED
    BY <2>1, AgentAssumption DEF Next, Run
<1>6. CASE Reraise
  <2>1. calls[waiting].result \in Errors
    BY <1>3, <1>6, CallFacts DEF Reraise, AgentInv
  <2> QED
    BY <1>6, <2>1 DEF Reraise, Next, Run
<1>7. CASE TimesOut
  <2>1. AttemptFails("ZombieStepDetected")
    BY <1>7 DEF TimesOut
  <2> QED
    BY <2>1, AgentAssumption DEF Next, Run
<1>8. CASE Worker
  BY <1>8, WorkerFacts DEF AgentInv
<1>9. CASE Start
  BY <1>9 DEF Start, Next
<1>10. CASE Die
  BY <1>10 DEF Die, Next
<1>11. CASE UNCHANGED agentVars
  BY <1>11 DEF agentVars, vars
<1> QED
  BY <1>1, <1>2, <1>4, <1>5, <1>6, <1>7, <1>8, <1>9, <1>10, <1>11 DEF AgentNext, Main

\* A step of Pipeline leaves the log alone or appends one event.
LEMMA LogGrows ==
  ASSUME TypeInv, TypeInv', [Next]_vars
  PROVE  log' = log \/ \E event \in Event : log' = Append(log, event)
<1>1. log' = log \/ \E event : log' = Append(log, event)
  BY DEF Next, Run, Call, vars, Resume, StartFresh, StartFreshRaises, LogPipelineStarted,
         StartAttempt, Complete, GuardrailBlocks, SaveBlocked, AttemptFails, EmitFailure,
         LogFallback, Retry, GiveUp, AttemptSucceeds, SaveCheckpoint, SaveRaises,
         LogCheckpointWritten, Crash, AppendEvent
<1>2. ASSUME NEW event, log' = Append(log, event) PROVE event \in Event
  <2>1. log \in Seq(Event) /\ log' \in Seq(Event)
    BY DEF TypeInv, TypeOK
  <2>2. Len(log') = Len(log) + 1 /\ log'[Len(log) + 1] = event
    BY <1>2, <2>1
  <2>3. Len(log) + 1 \in 1..Len(log')
    BY <2>1, <2>2
  <2> QED
    BY <2>1, <2>2, <2>3
<1> QED
  BY <1>1, <1>2

-----------------------------------------------------------------------------
(* The lines of the workers *)

\* Lines that stay as they are, and lines of the main thread after them, disturb
\* neither the order of a call's lines nor its place ahead of them, since a call
\* never goes back along the chain.
LEMMA OldLinesKeepOrder ==
  ASSUME CallsSound, LinesBehind, ChainInOrder, CallsSound',
         lines' \in Seq(Line), Len(lines) <= Len(lines'),
         \A i \in 1..Len(lines) : lines'[i] = lines[i],
         \A i \in 1..Len(lines') : i <= Len(lines) \/ lines'[i].call = 0,
         \A c \in DOMAIN calls : c \in DOMAIN calls' /\ calls[c].model <= calls'[c].model
  PROVE  LinesBehind' /\ ChainInOrder'
<1>1. lines \in Seq(Line) /\ Len(lines) \in Nat /\ Len(lines') \in Nat
  BY DEF LinesBehind
<1>2. Fallbacks' = Fallbacks
  BY <1>1 DEF Fallbacks
<1>3. ASSUME NEW i \in Fallbacks
      PROVE  /\ lines'[i] = lines[i]
             /\ lines[i].call \in DOMAIN calls /\ lines[i].call \in DOMAIN calls'
             /\ lines[i].model \in Nat
             /\ lines[i].model < calls'[lines[i].call].model
  <2>1. i \in 1..Len(lines) /\ lines'[i] = lines[i]
    BY <1>3 DEF Fallbacks
  <2>2. lines[i] \in Line
    BY <1>1, <2>1
  <2>3. lines[i].model \in Nat
    BY <2>2, AgentAssumption DEF Line
  <2>4. lines[i].call \in DOMAIN calls /\ lines[i].model < calls[lines[i].call].model
    BY <1>3 DEF LinesBehind
  <2>5. lines[i].call \in DOMAIN calls'
        /\ calls[lines[i].call].model <= calls'[lines[i].call].model
    BY <2>4
  <2>6. calls[lines[i].call].model \in Nat
    BY <2>4, CallFacts
  <2>7. calls'[lines[i].call] \in CallRecord
    BY <2>5 DEF CallsSound
  <2>8. calls'[lines[i].call].model \in Nat
    BY <2>7 DEF CallRecord
  <2> QED
    BY <2>1, <2>3, <2>4, <2>5, <2>6, <2>8
<1>4. LinesBehind'
  BY <1>2, <1>3 DEF LinesBehind
<1>5. ChainInOrder'
  BY <1>2, <1>3 DEF ChainInOrder
<1> QED
  BY <1>4, <1>5

\* A new line of a call comes after all its lines, in the log and in the chain.
LEMMA NewLineKeepsOrder ==
  ASSUME CallsSound, LinesBehind, ChainInOrder, CallsSound',
         NEW c \in DOMAIN calls, EmitFallback(c), calls'[c].model = calls[c].model + 1,
         DOMAIN calls' = DOMAIN calls,
         \A d \in DOMAIN calls : calls[d].model <= calls'[d].model
  PROVE  LinesBehind' /\ ChainInOrder'
<1> DEFINE event == [type |-> "FallbackUsed", step |-> calls[c].step,
                     step_index |-> 0, attempt |-> 0]
           line == [event |-> event, call |-> c, model |-> calls[c].model]
           last == Len(lines) + 1
<1>1. calls \in Seq(CallRecord) /\ calls[c] \in CallRecord
      /\ calls[c].model \in 1..Len(ModelChain) /\ c \in Nat /\ c # 0
  BY CallFacts
<1>2. event \in Event
  BY <1>1, StepFacts, BoundsAssumption DEF CallRecord, Event, EventTypes
<1>3. line \in Line /\ line.call = c /\ line.model = calls[c].model
  BY <1>1, <1>2, AgentAssumption DEF Line
<1>4. lines' = Append(lines, line)
  BY DEF EmitFallback
<1> HIDE DEF event, line
<1>5. lines \in Seq(Line)
  BY DEF LinesBehind
<1>6. /\ lines' \in Seq(Line) /\ Len(lines) \in Nat /\ Len(lines') = last
      /\ \A i \in 1..Len(lines) : lines'[i] = lines[i]
      /\ lines'[last] = line
  BY <1>3, <1>4, <1>5
<1>7. Fallbacks' = Fallbacks \cup {last}
  BY <1>1, <1>3, <1>6 DEF Fallbacks
<1>8. ASSUME NEW i \in Fallbacks
      PROVE  /\ i \in 1..Len(lines) /\ lines'[i] = lines[i]
             /\ lines[i].call \in DOMAIN calls
             /\ lines[i].model \in Nat
             /\ lines[i].model < calls[lines[i].call].model
             /\ lines[i].model < calls'[lines[i].call].model
  <2>1. i \in 1..Len(lines) /\ lines'[i] = lines[i]
    BY <1>6, <1>8 DEF Fallbacks
  <2>2. lines[i] \in Line
    BY <1>5, <2>1
  <2>3. lines[i].model \in Nat
    BY <2>2, AgentAssumption DEF Line
  <2>4. lines[i].call \in DOMAIN calls /\ lines[i].model < calls[lines[i].call].model
    BY <1>8 DEF LinesBehind
  <2>5. calls[lines[i].call].model \in Nat
    BY <2>4, CallFacts
  <2>6. calls'[lines[i].call] \in CallRecord
    BY <2>4 DEF CallsSound
  <2>7. calls'[lines[i].call].model \in Nat
    BY <2>6 DEF CallRecord
  <2> QED
    BY <2>1, <2>3, <2>4, <2>5, <2>7
<1>9. LinesBehind'
  BY <1>1, <1>3, <1>6, <1>7, <1>8 DEF LinesBehind
<1>10. ASSUME NEW i \in Fallbacks', NEW j \in Fallbacks', lines'[i].call = lines'[j].call
       PROVE  /\ i < j => lines'[i].model < lines'[j].model
              /\ lines'[i].model < calls'[lines'[i].call].model
  <2>1. CASE i \in Fallbacks /\ j \in Fallbacks
    BY <1>8, <1>10, <2>1 DEF ChainInOrder
  <2>2. CASE i \in Fallbacks /\ j = last
    BY <1>3, <1>6, <1>8, <1>10, <2>2
  <2>3. CASE i = last
    <3>1. lines'[i] = line
      BY <1>6, <2>3
    <3>2. j \in 1..Len(lines) \/ j = last
      BY <1>7, <1>8
    <3>3. ~(i < j)
      BY <1>6, <2>3, <3>2
    <3> QED
      BY <1>1, <1>3, <3>1, <3>3
  <2> QED
    BY <1>7, <2>1, <2>2, <2>3
<1>11. ChainInOrder'
  BY <1>10 DEF ChainInOrder
<1> QED
  BY <1>9, <1>11

\* What Follow does to the lines.
LEMMA FollowFacts ==
  ASSUME TypeInv, TypeInv', [Next]_vars, lines \in Seq(Line), Follow
  PROVE  /\ lines' \in Seq(Line) /\ Len(lines) <= Len(lines')
         /\ \A i \in 1..Len(lines) : lines'[i] = lines[i]
         /\ \A i \in 1..Len(lines') : i <= Len(lines) \/ lines'[i].call = 0
<1>1. CASE log' = log
  BY <1>1 DEF Follow
<1>2. ASSUME NEW event \in Event, log' = Append(log, event), log' # log
      PROVE  /\ lines' \in Seq(Line) /\ Len(lines) <= Len(lines')
             /\ \A i \in 1..Len(lines) : lines'[i] = lines[i]
             /\ \A i \in 1..Len(lines') : i <= Len(lines) \/ lines'[i].call = 0
  <2> DEFINE line == [event |-> event, call |-> 0, model |-> 0]
  <2>1. log'[Len(log')] = event
    BY <1>2 DEF TypeInv, TypeOK
  <2>2. lines' = Append(lines, line)
    BY <1>2, <2>1 DEF Follow
  <2>3. line \in Line /\ line.call = 0
    BY AgentAssumption DEF Line
  <2> HIDE DEF line
  <2> QED
    BY <2>2, <2>3
<1> QED
  BY <1>1, <1>2, LogGrows

-----------------------------------------------------------------------------
(* The invariant *)

LEMMA AgentInvInit == AgentInit => AgentInv
BY DEF AgentInit, Init, AgentInv, CallsSound, WaitsForOwnCall, LinesBehind,
       ChainInOrder, Fallbacks

\* The main thread forgets its future before it leaves the attempt.
LEMMA WaitsStep ==
  ASSUME TypeInv, AgentInv, [AgentNext]_agentVars
  PROVE  WaitsForOwnCall'
<1>1. /\ CallsSound /\ calls \in Seq(CallRecord) /\ Len(calls) \in Nat
      /\ waiting \in 0..Len(calls)
      /\ waiting # 0 => pc = "call" /\ ~(PromptBuilds(state) /\ PromptPoisoned(state))
  BY DEF AgentInv, CallsSound, WaitsForOwnCall
<1>2. CASE Orchestrate
  <2>1. waiting = 0
    BY <1>1, <1>2 DEF Orchestrate, GuardrailBlocks
  <2> QED
    BY <1>1, <1>2, <2>1 DEF Orchestrate, WaitsForOwnCall
<1>3. CASE Submit
  <2>1. /\ Len(calls') = Len(calls) + 1 /\ waiting' = Len(calls')
        /\ calls'[waiting'].run = runs /\ calls'[waiting'].step = Step(state)
        /\ calls'[waiting'].attempt = attempt
    BY <1>1, <1>3, SubmitFacts
  <2>2. pc = "call" /\ ~PromptPoisoned(state) /\ UNCHANGED <<state, pc, runs, attempt>>
    BY <1>3 DEF Submit, vars
  <2> QED
    BY <1>1, <2>1, <2>2 DEF WaitsForOwnCall
<1>4. CASE TakeAnswer \/ RejectAnswer \/ Reraise \/ TimesOut
  <2>1. waiting' = 0 /\ calls' = calls
    BY <1>4 DEF TakeAnswer, RejectAnswer, Reraise, TimesOut
  <2> QED
    BY <1>1, <2>1 DEF WaitsForOwnCall
<1>5. CASE Worker
  <2>1. /\ UNCHANGED <<vars, waiting>> /\ Len(calls') = Len(calls)
        /\ \A d \in DOMAIN calls :
             /\ calls'[d].run = calls[d].run /\ calls'[d].step = calls[d].step
             /\ calls'[d].attempt = calls[d].attempt
    BY <1>1, <1>5, WorkerFacts
  <2>2. waiting # 0 => waiting \in DOMAIN calls
    BY <1>1
  <2> QED
    BY <2>1, <2>2 DEF AgentInv, WaitsForOwnCall, vars
<1>6. CASE Start
  <2>1. waiting = 0
    BY <1>1, <1>6 DEF Start, Call, Resume, StartFresh, StartFreshRaises, BeginRun
  <2> QED
    BY <1>1, <1>6, <2>1 DEF Start, WaitsForOwnCall
<1>7. CASE Die
  <2>1. waiting' = 0 /\ Len(calls') = Len(calls)
    BY <1>1, <1>7, DieFacts DEF Die
  <2> QED
    BY <1>1, <2>1 DEF WaitsForOwnCall
<1>8. CASE UNCHANGED agentVars
  BY <1>8 DEF agentVars, AgentInv, WaitsForOwnCall
<1> QED
  BY <1>2, <1>3, <1>4, <1>5, <1>6, <1>7, <1>8 DEF AgentNext, Main

\* Every step keeps the invariant.
LEMMA AgentInvStep ==
  ASSUME TypeInv, AgentInv, [AgentNext]_agentVars
  PROVE  TypeInv' /\ AgentInv'
<1>1. [Next]_vars
  BY AgentStep
<1>2. TypeInv'
  BY <1>1, TypeInvStep
<1>3. /\ CallsSound /\ LinesBehind /\ ChainInOrder /\ calls \in Seq(CallRecord)
      /\ lines \in Seq(Line) /\ Len(lines) \in Nat
      /\ \A c \in DOMAIN calls : calls[c].model \in Nat
  BY CallFacts DEF AgentInv, LinesBehind, CallsSound
<1>4. CASE Orchestrate \/ TakeAnswer \/ RejectAnswer \/ Reraise \/ TimesOut \/ Start
  <2>1. Follow /\ calls' = calls
    BY <1>4 DEF Orchestrate, TakeAnswer, RejectAnswer, Reraise, TimesOut, Start
  <2>2. CallsSound'
    BY <1>3, <2>1 DEF CallsSound
  <2>3. \A c \in DOMAIN calls : c \in DOMAIN calls' /\ calls[c].model <= calls'[c].model
    BY <1>3, <2>1
  <2> QED
    BY <1>1, <1>2, <1>3, <2>1, <2>2, <2>3, FollowFacts, OldLinesKeepOrder, WaitsStep
       DEF AgentInv
<1>5. ASSUME CallsSound', lines' = lines,
             \A c \in DOMAIN calls :
               c \in DOMAIN calls' /\ calls[c].model <= calls'[c].model
      PROVE  AgentInv'
  <2>1. LinesBehind' /\ ChainInOrder'
    BY <1>3, <1>5, OldLinesKeepOrder
  <2> QED
    BY <1>5, <2>1, WaitsStep DEF AgentInv
<1>6. CASE Submit
  <2>1. CallsSound' /\ \A c \in DOMAIN calls : c \in DOMAIN calls' /\ calls'[c] = calls[c]
    BY <1>3, <1>6, SubmitFacts
  <2>2. lines' = lines
    BY <1>6 DEF Submit
  <2> QED
    BY <1>2, <1>3, <1>5, <2>1, <2>2
<1>7. CASE Worker
  <2>1. /\ CallsSound' /\ DOMAIN calls' = DOMAIN calls
        /\ \A d \in DOMAIN calls : calls[d].model <= calls'[d].model
        /\ \/ UNCHANGED lines
           \/ \E c \in DOMAIN calls :
                EmitFallback(c) /\ calls'[c].model = calls[c].model + 1
    BY <1>3, <1>7, WorkerFacts
  <2>2. CASE UNCHANGED lines
    BY <1>2, <1>5, <2>1, <2>2
  <2>3. ASSUME NEW c \in DOMAIN calls, EmitFallback(c),
               calls'[c].model = calls[c].model + 1
        PROVE  LinesBehind' /\ ChainInOrder'
    BY <1>3, <2>1, <2>3, NewLineKeepsOrder
  <2> QED
    BY <1>2, <2>1, <2>2, <2>3, WaitsStep DEF AgentInv
<1>8. CASE Die
  <2>1. /\ CallsSound' /\ DOMAIN calls' = DOMAIN calls
        /\ \A c \in DOMAIN calls : calls'[c].model = calls[c].model
    BY <1>3, <1>8, DieFacts
  <2>2. lines' = lines
    BY <1>8 DEF Die
  <2> QED
    BY <1>2, <1>3, <1>5, <2>1, <2>2
<1>9. CASE UNCHANGED agentVars
  <2>1. CallsSound' /\ lines' = lines /\ calls' = calls
    BY <1>3, <1>9 DEF agentVars, CallsSound
  <2> QED
    BY <1>2, <1>3, <1>5, <2>1
<1> QED
  BY <1>4, <1>6, <1>7, <1>8, <1>9 DEF AgentNext, Main

\* The invariants of the main thread and of its workers hold together.
LEMMA AgentCorrect == AgentSpec => [](TypeInv /\ AgentInv)
<1>1. AgentInit => TypeInv /\ AgentInv
  BY AgentInvInit, TypeInvInit DEF AgentInit
<1>2. TypeInv /\ AgentInv /\ [AgentNext]_agentVars => TypeInv' /\ AgentInv'
  BY AgentInvStep
<1> QED
  BY <1>1, <1>2, PTL DEF AgentSpec

-----------------------------------------------------------------------------
(* Theorems *)

\* Every variable of the threads keeps its type, in every reachable state.
THEOREM AgentTypesHold == AgentSpec => []AgentTypeOK
<1>1. AgentInv => AgentTypeOK
  BY DEF AgentInv, AgentTypeOK, CallsSound, WaitsForOwnCall, LinesBehind
<1> QED
  BY <1>1, AgentCorrect, PTL

\* Whatever the workers do, and whenever they do it, the main thread does what
\* Pipeline allows: all that is proved of Pipeline holds of the threaded program.
THEOREM AgentImplementsPipeline == AgentSpec => ImplementsPipeline
<1>1. AgentInit => Init
  BY DEF AgentInit
<1>2. TypeInv /\ AgentInv /\ [AgentNext]_agentVars => [Next]_vars
  BY AgentStep
<1> QED
  BY <1>1, <1>2, AgentCorrect, PTL DEF AgentSpec, Spec, ImplementsPipeline

\* The fallbacks of each call go down the chain, for chains of every length.
THEOREM FallbacksInOrder == AgentSpec => []ChainInOrder
<1>1. AgentInv => ChainInOrder
  BY DEF AgentInv
<1> QED
  BY <1>1, AgentCorrect, PTL

\* No step ever takes the answer of a worker that was given up.
THEOREM AnswersOfOwnAttempt == AgentSpec => AnswerOfThisAttempt
<1> DEFINE Own == LET call == calls[waiting] IN
                  <<call.run, call.step, call.attempt>> = <<runs, Step(state), attempt>>
<1>1. AgentInv => (TakeAnswer => Own)
  BY DEF AgentInv, WaitsForOwnCall, TakeAnswer
<1>2. AgentInv => [TakeAnswer => Own]_agentVars
  BY <1>1
<1> QED
  BY <1>2, AgentCorrect, PTL DEF AnswerOfThisAttempt

=============================================================================
