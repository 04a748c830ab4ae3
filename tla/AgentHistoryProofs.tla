-------------------------- MODULE AgentHistoryProofs --------------------------
(***************************************************************************)
(* Theorems about the log of Agent: every line of a worker is explained by *)
(* the lines of the main thread before it, and every leaked thread is in   *)
(* the log.  For every chain of models and any number of workers.          *)
(***************************************************************************)
EXTENDS AgentHistory, AgentProofs, HistoryProofs

-----------------------------------------------------------------------------
(* One more line *)

\* append_event leaves the earlier lines alone.
LEMMA LineAppend ==
  ASSUME NEW text \in Seq(Line), NEW line \in Line
  PROVE  /\ Append(text, line) \in Seq(Line)
         /\ Len(text) \in Nat
         /\ Len(Append(text, line)) = Len(text) + 1
         /\ \A i \in 1..Len(text) : Append(text, line)[i] = text[i]
         /\ Append(text, line)[Len(text) + 1] = line
OBVIOUS

\* An attempt stays open while workers write, and the lines that announced one
\* and gave it up stay.
LEMMA LineKeeps ==
  ASSUME NEW text \in Seq(Line), NEW line \in Line, NEW step, NEW try
  PROVE  /\ GivenUp(text, step, try) => GivenUp(Append(text, line), step, try)
         /\ Open(text, step, try) /\ line.call # 0 => Open(Append(text, line), step, try)
<1> DEFINE longer == Append(text, line)
           n == Len(text)
<1>1. /\ n \in Nat /\ Len(longer) = n + 1 /\ longer[n + 1] = line
      /\ \A i \in 1..n : longer[i] = text[i]
  BY LineAppend
<1> HIDE DEF longer, n
<1>2. ASSUME NEW j \in 1..n, Announces(text, j, step, try)
      PROVE  j \in 1..Len(longer) /\ Announces(longer, j, step, try)
  BY <1>1, <1>2 DEF Announces
<1>3. ASSUME GivenUp(text, step, try) PROVE GivenUp(longer, step, try)
  <2>1. PICK j \in 1..n :
          /\ Announces(text, j, step, try)
          /\ \E k \in (j + 1)..n :
               text[k].call = 0 /\ text[k].event.type = "StepFailed" /\ text[k].event.step = step
    BY <1>3 DEF GivenUp, n
  <2>2. PICK k \in (j + 1)..n :
          text[k].call = 0 /\ text[k].event.type = "StepFailed" /\ text[k].event.step = step
    BY <2>1
  <2>3. k \in (j + 1)..Len(longer) /\ longer[k] = text[k]
    BY <1>1, <2>2
  <2> QED
    BY <1>2, <2>1, <2>2, <2>3 DEF GivenUp
<1>4. ASSUME Open(text, step, try), line.call # 0 PROVE Open(longer, step, try)
  <2>1. PICK j \in 1..n :
          Announces(text, j, step, try) /\ \A k \in (j + 1)..n : text[k].call # 0
    BY <1>4 DEF Open, n
  <2>2. \A k \in (j + 1)..Len(longer) : longer[k].call # 0
    BY <1>1, <1>4, <2>1
  <2> QED
    BY <1>2, <2>1, <2>2 DEF Open
<1> QED
  BY <1>3, <1>4 DEF longer

\* StepStarted opens an attempt.
LEMMA LineOpens ==
  ASSUME NEW text \in Seq(Line), NEW line \in Line, line.call = 0,
         line.event.type = "StepStarted"
  PROVE  Open(Append(text, line), line.event.step, line.event.attempt)
<1> DEFINE longer == Append(text, line)
           n == Len(text)
<1>1. n \in Nat /\ Len(longer) = n + 1 /\ longer[n + 1] = line
  BY LineAppend
<1> HIDE DEF longer, n
<1>2. n + 1 \in 1..Len(longer) /\ \A k \in (n + 1 + 1)..Len(longer) : longer[k].call # 0
  BY <1>1
<1>3. Announces(longer, n + 1, line.event.step, line.event.attempt)
  BY <1>1 DEF Announces
<1> QED
  BY <1>2, <1>3 DEF Open, longer

\* StepFailed gives up the attempt that is open.
LEMMA LineGivesUp ==
  ASSUME NEW text \in Seq(Line), NEW line \in Line, NEW step, NEW try,
         Open(text, step, try),
         line.call = 0, line.event.type = "StepFailed", line.event.step = step
  PROVE  GivenUp(Append(text, line), step, try)
<1> DEFINE longer == Append(text, line)
           n == Len(text)
<1>1. /\ n \in Nat /\ Len(longer) = n + 1 /\ longer[n + 1] = line
      /\ \A i \in 1..n : longer[i] = text[i]
  BY LineAppend
<1> HIDE DEF longer, n
<1>2. PICK j \in 1..n : Announces(text, j, step, try)
  BY DEF Open, n
<1>3. j \in 1..Len(longer) /\ Announces(longer, j, step, try)
  BY <1>1, <1>2 DEF Announces
<1>4. n + 1 \in (j + 1)..Len(longer)
  BY <1>1, <1>2
<1> QED
  BY <1>1, <1>3, <1>4 DEF GivenUp, longer

-----------------------------------------------------------------------------
(* FallbackExplained *)

\* What FallbackExplained asks of position i.
ExplainedAt(text, i, step, try) ==
  \E j \in 1..(i - 1) :
    /\ Announces(text, j, step, try)
    /\ \/ \A k \in (j + 1)..(i - 1) : text[k].call # 0
       \/ \E k \in (j + 1)..(i - 1) :
            /\ text[k].call = 0
            /\ text[k].event.type = "StepFailed"
            /\ text[k].event.step = step

\* It depends on the lines before position i only.
LEMMA ExplainedByPrefix ==
  ASSUME NEW text \in Seq(Line), NEW longer \in Seq(Line), Len(text) <= Len(longer),
         \A i \in 1..Len(text) : longer[i] = text[i],
         NEW i \in 1..(Len(text) + 1), NEW step, NEW try
  PROVE  ExplainedAt(longer, i, step, try) <=> ExplainedAt(text, i, step, try)
<1>1. \A k \in 1..(i - 1) : k \in 1..Len(text) /\ longer[k] = text[k]
  OBVIOUS
<1>2. \A j \in 1..(i - 1) : \A k \in (j + 1)..(i - 1) : k \in 1..(i - 1)
  OBVIOUS
<1> QED
  BY <1>1, <1>2 DEF ExplainedAt, Announces

\* For a line that is about to be written, it is what the invariant says.
LEMMA ExplainedNext ==
  ASSUME NEW text \in Seq(Line), NEW step, NEW try,
         Open(text, step, try) \/ GivenUp(text, step, try)
  PROVE  ExplainedAt(text, Len(text) + 1, step, try)
<1>1. (Len(text) + 1) - 1 = Len(text)
  OBVIOUS
<1> QED
  BY <1>1 DEF ExplainedAt, Open, GivenUp

LEMMA FallbackExplainedIs ==
  FallbackExplained <=>
    \A i \in Fallbacks :
      /\ lines[i].event.step = calls[lines[i].call].step
      /\ ExplainedAt(lines, i, calls[lines[i].call].step, calls[lines[i].call].attempt)
BY DEF FallbackExplained, ExplainedAt, Announces, OwnType

\* Contexts never change, so what is explained stays explained.
LEMMA OldFallbacksExplained ==
  ASSUME LinesBehind, FallbackExplained, lines' \in Seq(Line), Len(lines) <= Len(lines'),
         \A i \in 1..Len(lines) : lines'[i] = lines[i],
         \A c \in DOMAIN calls :
           calls'[c].step = calls[c].step /\ calls'[c].attempt = calls[c].attempt,
         NEW i \in Fallbacks
  PROVE  /\ lines'[i].event.step = calls'[lines'[i].call].step
         /\ ExplainedAt(lines', i, calls'[lines'[i].call].step, calls'[lines'[i].call].attempt)
<1>1. i \in 1..Len(lines) /\ lines'[i] = lines[i] /\ lines \in Seq(Line) /\ i \in 1..(Len(lines) + 1)
  BY DEF Fallbacks, LinesBehind
<1> DEFINE c == lines[i].call
<1>2. c \in DOMAIN calls
  BY DEF LinesBehind
<1>3. calls'[c].step = calls[c].step /\ calls'[c].attempt = calls[c].attempt
  BY <1>2
<1>4. lines[i].event.step = calls[c].step /\ ExplainedAt(lines, i, calls[c].step, calls[c].attempt)
  BY FallbackExplainedIs
<1>5. ExplainedAt(lines', i, calls[c].step, calls[c].attempt)
  BY <1>1, <1>4, ExplainedByPrefix
<1> QED
  BY <1>1, <1>3, <1>4, <1>5

-----------------------------------------------------------------------------
(* Steps of the threads *)

\* The main thread writes to the shared log what Pipeline writes to its own.
LEMMA FollowWrites ==
  ASSUME log \in Seq(Event), lines \in Seq(Line), Follow,
         NEW event \in Event, log' = Append(log, event)
  PROVE  \E line \in Line : /\ line.call = 0 /\ line.event = event
                             /\ lines' = Append(lines, line)
<1> DEFINE line == [event |-> event, call |-> 0, model |-> 0]
<1>1. log' # log /\ log'[Len(log')] = event
  BY AppendFacts
<1>2. lines' = Append(lines, line)
  BY <1>1 DEF Follow
<1>3. line \in Line /\ line.call = 0 /\ line.event = event
  BY AgentAssumption DEF Line
<1> HIDE DEF line
<1> QED
  BY <1>2, <1>3

\* A worker's line has its number and its step.
LEMMA EmitFacts ==
  ASSUME CallsSound, NEW c \in DOMAIN calls, EmitFallback(c)
  PROVE  \E line \in Line : /\ line.call = c /\ c # 0 /\ line.event.step = calls[c].step
                             /\ lines' = Append(lines, line)
<1> DEFINE event == [type |-> "FallbackUsed", step |-> calls[c].step,
                     step_index |-> 0, attempt |-> 0]
           line == [event |-> event, call |-> c, model |-> calls[c].model]
<1>1. calls \in Seq(CallRecord) /\ calls[c] \in CallRecord
      /\ calls[c].model \in 1..Len(ModelChain) /\ c \in Nat /\ c # 0
  BY CallFacts
<1>2. event \in Event /\ event.step = calls[c].step
  BY <1>1, StepFacts, BoundsAssumption DEF CallRecord, Event, EventTypes
<1>3. line \in Line /\ line.call = c /\ line.event = event
  BY <1>1, <1>2, AgentAssumption DEF Line
<1>4. lines' = Append(lines, line)
  BY DEF EmitFallback
<1> HIDE DEF event, line
<1> QED
  BY <1>1, <1>2, <1>3, <1>4

\* A worker that is busy was busy before.
LEMMA WorkerBusy ==
  ASSUME CallsSound, Worker, NEW d \in DOMAIN calls, Busy(d)'
  PROVE  Busy(d)
<1>1. PICK c \in DOMAIN calls :
        \/ \E output \in Payloads : ModelAnswers(c, output)
        \/ \E error \in ModelErrors : ModelFails(c, error)
        \/ FallsBack(c)
        \/ FallsBackUnlogged(c)
  BY DEF Worker
<1>2. Busy(c)
  BY <1>1 DEF ModelAnswers, ModelFails, FallsBack, FallsBackUnlogged, Busy
<1>3. calls \in Seq(CallRecord)
  BY CallFacts
<1>4. d # c => calls'[d] = calls[d]
  BY <1>1, <1>3 DEF ModelAnswers, ModelFails, FallsBack, FallsBackUnlogged, Finish, NextModel
<1> QED
  BY <1>2, <1>4 DEF Busy

\* The death of a process ends its busy workers, the one it waited for included;
\* contexts stay.
LEMMA DieBusy ==
  ASSUME CallsSound, WaitsForOwnCall, Die, NEW d \in DOMAIN calls
  PROVE  /\ Busy(d)' => Busy(d) /\ d # waiting
         /\ calls'[d].step = calls[d].step /\ calls'[d].attempt = calls[d].attempt
<1>1. calls \in Seq(CallRecord) /\ calls[d] \in CallRecord
  BY CallFacts
<1>2. calls'[d] = IF calls[d].run = runs /\ Busy(d)
                  THEN [calls[d] EXCEPT !.status = "dead"] ELSE calls[d]
  BY DEF Die
<1>3. /\ calls'[d].step = calls[d].step /\ calls'[d].attempt = calls[d].attempt
      /\ Busy(d)' => Busy(d) /\ calls[d].run # runs
  BY <1>1, <1>2 DEF Busy, CallRecord
<1>4. d = waiting => calls[d].run = runs
  BY <1>1 DEF WaitsForOwnCall
<1> QED
  BY <1>3, <1>4

\* Only StartAttempt enters an attempt.
LEMMA CallEntered ==
  ASSUME [Next]_vars, pc' = "call"
  PROVE  StartAttempt \/ UNCHANGED vars
BY DEF Next, Run, Call, Goto, Stop, Resume, StartFresh, StartFreshRaises,
       LogPipelineStarted, Complete, GuardrailBlocks, SaveBlocked, AttemptFails,
       LogFallback, Retry, GiveUp, AttemptSucceeds, SaveCheckpoint, SaveRaises,
       LogCheckpointWritten, Crash

\* A step leaves the shared log alone, or the main thread writes a line to it,
\* or a busy worker does.
LEMMA LinesGrow ==
  ASSUME TypeInv, TypeInv', AgentInv, [AgentNext]_agentVars
  PROVE  \/ lines' = lines
         \/ \E line \in Line : lines' = Append(lines, line) /\ line.call = 0 /\ Follow
         \/ \E line \in Line : \E c \in DOMAIN calls :
              /\ Busy(c) /\ lines' = Append(lines, line)
              /\ line.call = c /\ c # 0 /\ line.event.step = calls[c].step
<1>1. CallsSound /\ lines \in Seq(Line) /\ log \in Seq(Event) /\ [Next]_vars
  BY AgentStep DEF AgentInv, LinesBehind, TypeInv, TypeOK
<1>2. CASE Follow
  <2>1. log' = log \/ \E event \in Event : log' = Append(log, event)
    BY <1>1, LogGrows
  <2>2. log' = log => lines' = lines
    BY <1>2 DEF Follow
  <2> QED
    BY <1>1, <1>2, <2>1, <2>2, FollowWrites
<1>3. CASE Worker
  <2>1. UNCHANGED lines \/ \E c \in DOMAIN calls : EmitFallback(c) /\ Busy(c)
    BY <1>3 DEF Worker, ModelAnswers, ModelFails, FallsBack, FallsBackUnlogged, Busy
  <2> QED
    BY <1>1, <1>3, <2>1, EmitFacts
<1>4. CASE Submit \/ Die \/ UNCHANGED agentVars
  BY <1>4 DEF Submit, Die, agentVars
<1>5. Orchestrate \/ TakeAnswer \/ RejectAnswer \/ Reraise \/ TimesOut \/ Start => Follow
  BY DEF Orchestrate, TakeAnswer, RejectAnswer, Reraise, TimesOut, Start
<1> QED
  BY <1>2, <1>3, <1>4, <1>5 DEF AgentNext, Main

-----------------------------------------------------------------------------
(* The invariant *)

LEMMA LateWorkerInit == AgentInit => LateWorkerInv
BY DEF AgentInit, Init, LateWorkerInv, AttemptIsOpen, LeakedWereGivenUp,
       FallbackExplained, Fallbacks

\* An attempt is open from its StepStarted until the main thread goes on.
LEMMA AttemptOpenStep ==
  ASSUME TypeInv, TypeInv', AgentInv, AttemptIsOpen, [AgentNext]_agentVars
  PROVE  AttemptIsOpen'
<1> SUFFICES ASSUME pc' = "call" PROVE Open(lines', Step(state'), attempt')
  BY DEF AttemptIsOpen
<1>1. /\ CallsSound /\ lines \in Seq(Line) /\ log \in Seq(Event) /\ [Next]_vars
      /\ attempt \in 1..(MaxRetries + 1)
  BY AgentStep DEF AgentInv, LinesBehind, TypeInv, TypeOK
<1>2. CASE StartAttempt
  <2> DEFINE event == [type |-> "StepStarted", step |-> Step(state),
                       step_index |-> state.current_step, attempt |-> attempt]
  <2>1. state \in PipelineState /\ state.current_step \in 0..N /\ Step(state) \in StepNames
    BY <1>2, RunningFacts, StepFacts DEF StartAttempt, Running, Step
  <2>2. event \in Event
    BY <1>1, <2>1, BoundsAssumption DEF Event, EventTypes
  <2>3. log' = Append(log, event) /\ state' = state /\ attempt' = attempt
    BY <1>2 DEF StartAttempt, AppendEvent
  <2>4. event.type = "StepStarted" /\ event.step = Step(state) /\ event.attempt = attempt
    OBVIOUS
  <2> HIDE DEF event
  <2>5. log' # log
    BY <1>1, <2>2, <2>3, AppendFacts
  <2>6. Follow
    BY <2>5, <1>1, WorkerFacts DEF AgentNext, Main, agentVars, vars, Orchestrate, Submit,
       TakeAnswer, RejectAnswer, Reraise, TimesOut, Start, Die, Crash
  <2>7. PICK line \in Line : line.call = 0 /\ line.event = event /\ lines' = Append(lines, line)
    BY <1>1, <2>2, <2>3, <2>6, FollowWrites
  <2> QED
    BY <1>1, <2>3, <2>4, <2>7, LineOpens
<1>3. CASE UNCHANGED vars
  <2>1. pc = "call" /\ state' = state /\ attempt' = attempt /\ log' = log
    BY <1>3 DEF vars
  <2>2. Open(lines, Step(state), attempt)
    BY <2>1 DEF AttemptIsOpen
  <2>3. CASE lines' = lines
    BY <2>1, <2>2, <2>3
  <2>4. ASSUME NEW line \in Line, lines' = Append(lines, line), line.call = 0, Follow
        PROVE  lines' = lines
    BY <2>1, <2>4 DEF Follow
  <2>5. ASSUME NEW line \in Line, lines' = Append(lines, line), line.call # 0
        PROVE  Open(lines', Step(state), attempt)
    BY <1>1, <2>2, <2>5, LineKeeps
  <2>6. lines' = lines \/ \E line \in Line : lines' = Append(lines, line) /\ line.call # 0
    BY <2>4, LinesGrow
  <2> QED
    BY <2>1, <2>3, <2>5, <2>6
<1> QED
  BY <1>1, <1>2, <1>3, CallEntered

\* A worker that was given up stays given up.
LEMMA GivenUpKept ==
  ASSUME TypeInv, TypeInv', AgentInv, [AgentNext]_agentVars, NEW step, NEW try,
         GivenUp(lines, step, try)
  PROVE  GivenUp(lines', step, try)
<1>1. lines \in Seq(Line)
  BY DEF AgentInv, LinesBehind
<1>2. lines' = lines \/ \E line \in Line : lines' = Append(lines, line)
  BY LinesGrow
<1> QED
  BY <1>1, <1>2, LineKeeps

\* The main thread leaves a busy worker behind only when it times out, and then
\* its StepFailed follows the StepStarted of the attempt.
LEMMA LeakedStep ==
  ASSUME TypeInv, TypeInv', MemInv, AgentInv, AttemptIsOpen, LeakedWereGivenUp,
         [AgentNext]_agentVars
  PROVE  LeakedWereGivenUp'
<1>1. /\ CallsSound /\ WaitsForOwnCall /\ lines \in Seq(Line) /\ log \in Seq(Event)
      /\ calls \in Seq(CallRecord)
      /\ waiting # 0 => waiting \in DOMAIN calls
  BY DEF AgentInv, LinesBehind, CallsSound, WaitsForOwnCall, TypeInv, TypeOK
<1>2. ASSUME NEW c \in DOMAIN calls, Busy(c), c # waiting
      PROVE  GivenUp(lines', calls[c].step, calls[c].attempt)
  BY <1>2, GivenUpKept DEF LeakedWereGivenUp
<1>3. CASE Orchestrate \/ Start \/ UNCHANGED agentVars
  <2>1. calls' = calls /\ waiting' = waiting
    BY <1>3 DEF Orchestrate, Start, agentVars
  <2> QED
    BY <1>2, <2>1 DEF LeakedWereGivenUp, Busy
<1>4. CASE TakeAnswer \/ RejectAnswer \/ Reraise
  <2>1. calls' = calls /\ ~Busy(waiting)
    BY <1>4 DEF TakeAnswer, RejectAnswer, Reraise, Busy
  <2> QED
    BY <1>2, <2>1 DEF LeakedWereGivenUp, Busy
<1>5. CASE TimesOut
  <2>1. /\ calls' = calls /\ waiting # 0 /\ AttemptFails("ZombieStepDetected")
        /\ Follow /\ pc = "call"
    BY <1>5 DEF TimesOut, AttemptFails
  <2>2. calls[waiting].step = Step(state) /\ calls[waiting].attempt = attempt
    BY <1>1, <2>1 DEF WaitsForOwnCall
  <2>3. PICK event \in Event : /\ event.type = "StepFailed" /\ event.step = Step(state)
                               /\ log' = Append(log, event)
    BY <2>1, LinesWritten, AgentAssumption DEF Writes
  <2>4. PICK line \in Line : line.call = 0 /\ line.event = event /\ lines' = Append(lines, line)
    BY <1>1, <2>1, <2>3, FollowWrites
  <2>5. Open(lines, Step(state), attempt)
    BY <2>1 DEF AttemptIsOpen
  <2>6. GivenUp(lines', Step(state), attempt)
    BY <1>1, <2>3, <2>4, <2>5, LineGivesUp
  <2> QED
    BY <1>2, <2>1, <2>2, <2>6 DEF LeakedWereGivenUp, Busy
<1>6. CASE Submit
  <2>1. /\ CallsSound' /\ Len(calls') = Len(calls) + 1 /\ waiting' = Len(calls')
        /\ waiting = 0
        /\ \A c \in DOMAIN calls : calls'[c] = calls[c]
    BY <1>1, <1>6, SubmitFacts DEF Submit
  <2>2. ASSUME NEW c \in DOMAIN calls', c # waiting'
        PROVE  c \in DOMAIN calls /\ c # waiting
    BY <1>1, <2>1, <2>2 DEF CallsSound
  <2> QED
    BY <1>2, <2>1, <2>2 DEF LeakedWereGivenUp, Busy
<1>7. CASE Worker
  <2>1. /\ DOMAIN calls' = DOMAIN calls /\ waiting' = waiting
        /\ \A d \in DOMAIN calls :
             calls'[d].step = calls[d].step /\ calls'[d].attempt = calls[d].attempt
    BY <1>1, <1>7, WorkerFacts
  <2>2. \A d \in DOMAIN calls : Busy(d)' => Busy(d)
    BY <1>1, <1>7, WorkerBusy
  <2> QED
    BY <1>2, <2>1, <2>2 DEF LeakedWereGivenUp
<1>8. CASE Die
  <2>1. DOMAIN calls' = DOMAIN calls
    BY <1>1, <1>8, DieFacts
  <2>2. \A d \in DOMAIN calls :
          /\ Busy(d)' => Busy(d) /\ d # waiting
          /\ calls'[d].step = calls[d].step /\ calls'[d].attempt = calls[d].attempt
    BY <1>1, <1>8, DieBusy
  <2> QED
    BY <1>2, <2>1, <2>2 DEF LeakedWereGivenUp
<1> QED
  BY <1>3, <1>4, <1>5, <1>6, <1>7, <1>8 DEF AgentNext, Main

\* The contexts of the calls, and the lines, only ever grow.
LEMMA HistoryGrows ==
  ASSUME TypeInv, TypeInv', AgentInv, [AgentNext]_agentVars
  PROVE  \A c \in DOMAIN calls :
           calls'[c].step = calls[c].step /\ calls'[c].attempt = calls[c].attempt
<1>1. CallsSound /\ WaitsForOwnCall
  BY DEF AgentInv
<1>2. CASE Submit
  BY <1>1, <1>2, SubmitFacts
<1>3. CASE Worker
  BY <1>1, <1>3, WorkerFacts
<1>4. CASE Die
  BY <1>1, <1>4, DieBusy
<1>5. CASE ~Submit /\ ~Worker /\ ~Die
  BY <1>5 DEF AgentNext, Main, agentVars, Orchestrate, TakeAnswer, RejectAnswer, Reraise,
              TimesOut, Start
<1> QED
  BY <1>2, <1>3, <1>4, <1>5

\* A worker that writes is busy: it is the one the open attempt waits for, or it
\* was given up.
LEMMA FallbackStep ==
  ASSUME TypeInv, TypeInv', AgentInv, LateWorkerInv, [AgentNext]_agentVars
  PROVE  FallbackExplained'
<1>1. /\ CallsSound /\ WaitsForOwnCall /\ LinesBehind
      /\ lines \in Seq(Line) /\ Len(lines) \in Nat
  BY DEF AgentInv, LinesBehind
<1>2. ASSUME NEW i \in Fallbacks
      PROVE  /\ lines'[i].event.step = calls'[lines'[i].call].step
             /\ ExplainedAt(lines', i, calls'[lines'[i].call].step,
                            calls'[lines'[i].call].attempt)
  <2>1. \/ lines' = lines \/ \E line \in Line : lines' = Append(lines, line)
    BY LinesGrow
  <2>2. /\ lines' \in Seq(Line) /\ Len(lines) <= Len(lines')
        /\ \A j \in 1..Len(lines) : lines'[j] = lines[j]
    BY <1>1, <2>1, LineAppend
  <2> QED
    BY <1>1, <2>2, HistoryGrows, OldFallbacksExplained DEF LateWorkerInv
<1>3. ASSUME \A i \in Fallbacks' :
               /\ lines'[i].event.step = calls'[lines'[i].call].step
               /\ ExplainedAt(lines', i, calls'[lines'[i].call].step,
                              calls'[lines'[i].call].attempt)
      PROVE  FallbackExplained'
  BY <1>3 DEF FallbackExplained, ExplainedAt, Announces, OwnType
<1>4. CASE lines' = lines
  <2>1. Fallbacks' = Fallbacks
    BY <1>4 DEF Fallbacks
  <2> QED
    BY <1>2, <1>3, <2>1
<1>5. ASSUME NEW line \in Line, lines' = Append(lines, line), line.call = 0
      PROVE  FallbackExplained'
  <2>1. Fallbacks' = Fallbacks
    BY <1>1, <1>5, LineAppend DEF Fallbacks
  <2> QED
    BY <1>2, <1>3, <2>1
<1>6. ASSUME NEW line \in Line, NEW c \in DOMAIN calls, Busy(c),
             lines' = Append(lines, line),
             line.call = c, c # 0, line.event.step = calls[c].step
      PROVE  FallbackExplained'
  <2> DEFINE last == Len(lines) + 1
  <2>1. /\ lines' \in Seq(Line) /\ Len(lines') = last /\ lines'[last] = line
        /\ \A i \in 1..Len(lines) : lines'[i] = lines[i]
    BY <1>1, <1>6, LineAppend
  <2>2. Fallbacks' = Fallbacks \cup {last}
    BY <1>1, <1>6, <2>1 DEF Fallbacks
  <2>3. calls'[c].step = calls[c].step /\ calls'[c].attempt = calls[c].attempt
    BY HistoryGrows
  <2>4. Open(lines, calls[c].step, calls[c].attempt)
        \/ GivenUp(lines, calls[c].step, calls[c].attempt)
    <3>1. CASE c = waiting
      <4>1. pc = "call" /\ calls[c].step = Step(state) /\ calls[c].attempt = attempt
        BY <1>1, <1>6, <3>1 DEF WaitsForOwnCall
      <4> QED
        BY <4>1 DEF LateWorkerInv, AttemptIsOpen
    <3>2. CASE c # waiting
      BY <1>6, <3>2 DEF LateWorkerInv, LeakedWereGivenUp
    <3> QED
      BY <3>1, <3>2
  <2>5. ExplainedAt(lines, last, calls[c].step, calls[c].attempt)
    BY <1>1, <2>4, ExplainedNext
  <2>6. last \in 1..(Len(lines) + 1) /\ Len(lines) <= Len(lines')
    BY <1>1, <2>1
  <2> HIDE DEF last
  <2>7. ExplainedAt(lines', last, calls[c].step, calls[c].attempt)
    BY <1>1, <2>1, <2>5, <2>6, ExplainedByPrefix
  <2>8. /\ lines'[last].event.step = calls'[lines'[last].call].step
        /\ ExplainedAt(lines', last, calls'[lines'[last].call].step,
                       calls'[lines'[last].call].attempt)
    BY <1>6, <2>1, <2>3, <2>7
  <2> QED
    BY <1>2, <1>3, <2>2, <2>8
<1> QED
  BY <1>4, <1>5, <1>6, LinesGrow

LEMMA LateWorkerStep ==
  ASSUME TypeInv, TypeInv', MemInv, AgentInv, LateWorkerInv, [AgentNext]_agentVars
  PROVE  LateWorkerInv'
BY AttemptOpenStep, LeakedStep, FallbackStep DEF LateWorkerInv

\* What is proved of Pipeline's memory holds under the threads.
LEMMA AgentMem == AgentSpec => [](TypeInv /\ MemInv /\ AgentInv)
BY AgentImplementsPipeline, MemCorrect, AgentCorrect, PTL DEF ImplementsPipeline

\* The log tells of every worker, waited for or leaked, what it is about.
LEMMA LateWorkersCorrect == AgentSpec => []LateWorkerInv
<1>1. TypeInv /\ TypeInv' /\ MemInv /\ AgentInv /\ LateWorkerInv /\ [AgentNext]_agentVars
        => LateWorkerInv'
  BY LateWorkerStep
<1> QED
  BY <1>1, LateWorkerInit, AgentMem, PTL DEF AgentSpec

\* However late a worker writes its FallbackUsed, the step it names was started
\* by the main thread before, and has failed before anything else was logged.
THEOREM FallbacksExplained == AgentSpec => []FallbackExplained
<1>1. LateWorkerInv => FallbackExplained
  BY DEF LateWorkerInv
<1> QED
  BY <1>1, LateWorkersCorrect, PTL

-----------------------------------------------------------------------------
(* LeaksAreLogged *)

\* Threads are counted by their number.
LEMMA LeakedFacts ==
  ASSUME CallsSound, log \in Seq(Event)
  PROVE  /\ IsFiniteSet(Leaked) /\ Cardinality(Leaked) \in Nat
         /\ Cardinality(Logged("StepFailed")) \in Nat
<1>1. Len(calls) \in Nat /\ Leaked \in SUBSET (1..Len(calls))
  BY DEF CallsSound, Leaked
<1>2. Len(log) \in Nat /\ Logged("StepFailed") \in SUBSET (1..Len(log))
  BY DEF Logged
<1> QED
  BY <1>1, <1>2, CountFacts

\* StepFailed lines stay.
LEMMA FailuresLogged ==
  ASSUME TypeInv, TypeInv', [Next]_vars
  PROVE  Cardinality(Logged("StepFailed")) <= Cardinality(Logged("StepFailed")')
<1>1. log \in Seq(Event)
  BY DEF TypeInv, TypeOK
<1>2. CASE log' = log
  <2>1. Logged("StepFailed")' = Logged("StepFailed")
    BY <1>2 DEF Logged
  <2>2. Len(log) \in Nat /\ Logged("StepFailed") \in SUBSET (1..Len(log))
    BY <1>1 DEF Logged
  <2>3. Cardinality(Logged("StepFailed")) \in Nat
    BY <2>2, CountFacts
  <2> QED
    BY <2>1, <2>3
<1>3. ASSUME NEW event \in Event, log' = Append(log, event)
      PROVE  Cardinality(Logged("StepFailed")) <= Cardinality(Logged("StepFailed")')
  BY <1>1, <1>3, CountLogged
<1> QED
  BY <1>2, <1>3, LogGrows

LEMMA LeaksInit == AgentInit => Cardinality(Leaked) <= Cardinality(Logged("StepFailed"))
<1> SUFFICES ASSUME AgentInit PROVE Cardinality(Leaked) <= Cardinality(Logged("StepFailed"))
  OBVIOUS
<1>1. Leaked = {} /\ Logged("StepFailed") = {}
  BY DEF AgentInit, Init, Leaked, Logged
<1>2. Cardinality({}) <= Cardinality({})
  BY FS_EmptySet
<1> QED
  BY <1>1, <1>2

\* A time-out leaks one thread and logs one failure; no other step leaks any.
LEMMA LeaksStep ==
  ASSUME TypeInv, TypeInv', MemInv, AgentInv, [AgentNext]_agentVars,
         Cardinality(Leaked) <= Cardinality(Logged("StepFailed"))
  PROVE  Cardinality(Leaked') <= Cardinality(Logged("StepFailed")')
<1>1. /\ CallsSound /\ WaitsForOwnCall /\ log \in Seq(Event) /\ [Next]_vars
      /\ calls \in Seq(CallRecord)
      /\ waiting # 0 => waiting \in DOMAIN calls
  BY AgentStep DEF AgentInv, CallsSound, WaitsForOwnCall, TypeInv, TypeOK
<1>2. /\ IsFiniteSet(Leaked) /\ Cardinality(Leaked) \in Nat
      /\ Cardinality(Logged("StepFailed")) \in Nat
  BY <1>1, LeakedFacts
<1>3. /\ Cardinality(Logged("StepFailed")') \in Nat
      /\ Cardinality(Logged("StepFailed")) <= Cardinality(Logged("StepFailed")')
  <2>1. Len(log') \in Nat /\ Logged("StepFailed")' \in SUBSET (1..Len(log'))
    BY DEF Logged, TypeInv, TypeOK
  <2> QED
    BY <1>1, <2>1, CountFacts, FailuresLogged
<1>4. ASSUME Leaked' \subseteq Leaked
      PROVE  Cardinality(Leaked') <= Cardinality(Logged("StepFailed")')
  <2>1. Cardinality(Leaked') <= Cardinality(Leaked) /\ Cardinality(Leaked') \in Nat
    BY <1>2, <1>4, FS_Subset, FS_CardinalityType
  <2> QED
    BY <1>2, <1>3, <2>1
<1>5. CASE Orchestrate \/ Start \/ UNCHANGED agentVars
  <2>1. calls' = calls /\ waiting' = waiting
    BY <1>5 DEF Orchestrate, Start, agentVars
  <2> QED
    BY <1>4, <2>1 DEF Leaked, Busy
<1>6. CASE TakeAnswer \/ RejectAnswer \/ Reraise
  <2>1. calls' = calls /\ ~Busy(waiting)
    BY <1>6 DEF TakeAnswer, RejectAnswer, Reraise, Busy
  <2> QED
    BY <1>4, <2>1 DEF Leaked, Busy
<1>7. CASE TimesOut
  <2>1. calls' = calls /\ waiting # 0 /\ waiting' = 0 /\ AttemptFails("ZombieStepDetected")
        /\ Busy(waiting)
    BY <1>7 DEF TimesOut
  <2>2. Leaked' = Leaked \cup {waiting} /\ waiting \notin Leaked
    BY <1>1, <2>1 DEF Leaked, Busy
  <2>3. Cardinality(Leaked') = Cardinality(Leaked) + 1
    BY <1>2, <2>2, FS_AddElement
  <2>4. PICK event \in Event : event.type = "StepFailed" /\ log' = Append(log, event)
    BY <2>1, LinesWritten, AgentAssumption DEF Writes
  <2>5. Cardinality(Logged("StepFailed")') = Cardinality(Logged("StepFailed")) + 1
    BY <1>1, <2>4, CountLogged
  <2> QED
    BY <1>2, <2>3, <2>5
<1>8. CASE Submit
  <2>1. /\ CallsSound' /\ Len(calls') = Len(calls) + 1 /\ waiting' = Len(calls')
        /\ waiting = 0
        /\ \A c \in DOMAIN calls : calls'[c] = calls[c]
    BY <1>1, <1>8, SubmitFacts DEF Submit
  <2>2. ASSUME NEW c \in DOMAIN calls', c # waiting'
        PROVE  c \in DOMAIN calls /\ c # waiting
    BY <1>1, <2>1, <2>2 DEF CallsSound
  <2> QED
    BY <1>4, <2>1, <2>2 DEF Leaked, Busy
<1>9. CASE Worker
  <2>1. DOMAIN calls' = DOMAIN calls /\ waiting' = waiting
    BY <1>1, <1>9, WorkerFacts
  <2>2. \A d \in DOMAIN calls : Busy(d)' => Busy(d)
    BY <1>1, <1>9, WorkerBusy
  <2> QED
    BY <1>4, <2>1, <2>2 DEF Leaked
<1>10. CASE Die
  <2>1. DOMAIN calls' = DOMAIN calls
    BY <1>1, <1>10, DieFacts
  <2>2. \A d \in DOMAIN calls : Busy(d)' => Busy(d) /\ d # waiting
    BY <1>1, <1>10, DieBusy
  <2> QED
    BY <1>4, <2>1, <2>2 DEF Leaked
<1> QED
  BY <1>5, <1>6, <1>7, <1>8, <1>9, <1>10 DEF AgentNext, Main

\* Every thread that was left running has a StepFailed of its own in the log.
THEOREM LeaksAlwaysLogged == AgentSpec => []LeaksAreLogged
<1>1. AgentInit => LeaksAreLogged
  BY LeaksInit DEF LeaksAreLogged, Leaked
<1>2. ASSUME TypeInv, TypeInv', MemInv, AgentInv, LeaksAreLogged, [AgentNext]_agentVars
      PROVE  LeaksAreLogged'
  <2>1. Cardinality(Leaked) <= Cardinality(Logged("StepFailed"))
    BY <1>2 DEF LeaksAreLogged, Leaked
  <2>2. Cardinality(Leaked') <= Cardinality(Logged("StepFailed")')
    BY <1>2, <2>1, LeaksStep
  <2> QED
    BY <2>2 DEF LeaksAreLogged, Leaked
<1>3. TypeInv /\ TypeInv' /\ MemInv /\ AgentInv /\ LeaksAreLogged /\ [AgentNext]_agentVars
        => LeaksAreLogged'
  BY <1>2
<1> QED
  BY <1>1, <1>3, AgentMem, PTL DEF AgentSpec

\* With its threads the agent keeps what the orchestrator promises: however late
\* workers answer, fail or write, nothing saved is lost or swapped, the log
\* explains the checkpoint, and the effects of each run keep its budget and run out.
THEOREM AgentKeepsPromises ==
  AgentSpec => /\ ImplementsDurableProgress /\ EffectsRunOut
               /\ [](LostWork /\ LogExplainsCheckpoint /\ RetryBudget)
<1>1. AgentSpec => Spec
  BY AgentImplementsPipeline, PTL DEF ImplementsPipeline
<1>2. AgentSpec => ImplementsDurableProgress
  BY <1>1, ImplementsProgress
<1>3. AgentSpec => EffectsRunOut
  BY <1>1, EffectsAlwaysRunOut
<1>4. AgentSpec => [](LostWork /\ LogExplainsCheckpoint /\ RetryBudget)
  BY <1>1, WorkLostOnlyToFaults, LogAlwaysExplains, BudgetAlwaysKept, PTL
<1> QED
  BY <1>2, <1>3, <1>4

=============================================================================
