-------------------------------- MODULE Agent --------------------------------
(***************************************************************************)
(* The pipeline with the threads underneath it: call_with_watchdog runs    *)
(* each attempt's model call in a worker thread of its own and waits for   *)
(* it only so long; FailoverClient.complete, in that thread, goes down the *)
(* chain of models and appends FallbackUsed events to the log of the       *)
(* pipeline.  A worker whose attempt has timed out lives on, keeps going   *)
(* down the chain and keeps appending, while later attempts, steps and     *)
(* runs append their events.                                               *)
(*                                                                         *)
(* Every step of the main thread is a step of Pipeline, or one that        *)
(* Pipeline does not see.  Each run is a process of its own, as the        *)
(* command line tool has it; the threads of one that has returned live on  *)
(* until they end, because the interpreter joins them before it exits.     *)
(***************************************************************************)
EXTENDS Pipeline

CONSTANTS
  ModelChain,       \* the models, in order
  ModelErrors,      \* what one call of a model may raise
  Triggers,         \* the exceptions that make it try the next model
  CheckErrors,      \* what parse_output and the postcondition may raise
  WatchdogTimeout,  \* watchdog_timeout_sec of run_pipeline
  ClientTimeout     \* timeout_sec of TrueFoundryClient

ASSUME AgentAssumption ==
  /\ Len(ModelChain) \in Nat \ {0}
  /\ ModelErrors \cup CheckErrors \subseteq Errors
  /\ {"AllModelsExhausted", "ZombieStepDetected"} \subseteq Errors
  /\ WatchdogTimeout \in Nat \ {0} /\ ClientTimeout \in Nat \ {0}

\* _FAILOVER_TRIGGER_NAMES: the exceptions, by class name, that FailoverClient
\* takes for a model that is unhealthy.  A client without it has no triggers.
FailoverTriggerNames ==
  {"RateLimitError", "APIError", "APIStatusError", "APITimeoutError",
   "APIConnectionError", "InternalServerError", "BadRequestError",
   "AuthenticationError", "PermissionDeniedError",
   "RateLimit", "Outage", "Timeout", "ToolFailure", "ZombieStepDetected",
   "ConnectError", "ConnectTimeout", "ReadTimeout", "TimeoutException", "TimeoutError"}

ASSUME TriggersAssumption == Triggers \in {{}, FailoverTriggerNames}

VARIABLES
  calls,    \* the worker threads, in the order they were started
  waiting,  \* the one the main thread waits for, 0 if none
  lines     \* event_log.jsonl with the lines of the workers in it

agentVars == <<state, disk, log, pc, attempt, outcome, runs, faults,
               calls, waiting, lines>>

-----------------------------------------------------------------------------
(* A call has a copy of the context it was started in: the step, and which *)
(* run and attempt that is.                                                *)
Statuses == {"calling", "falling", "answered", "raised", "dead"}

CallRecord ==
  [run : 0..MaxRuns, step : StepNames, attempt : 1..(MaxRetries + 1),
   model : 1..Len(ModelChain), status : Statuses,
   result : Payloads \cup Errors \cup {Absent}]

Line == [event : Event, call : Nat, model : 0..Len(ModelChain)]

Busy(c) == calls[c].status \in {"calling", "falling"}

\* The main thread's line, if it appends one in this step.
Follow ==
  lines' = IF log' = log THEN lines
           ELSE Append(lines, [event |-> log'[Len(log')], call |-> 0, model |-> 0])

Finish(c, status, result) ==
  calls' = [calls EXCEPT ![c] = [@ EXCEPT !.status = status, !.result = result]]

\* Slip: the step comes from a global variable, not from a copied context.
SlipEmitFallback(c) ==
  lines' = Append(lines,
    [event |-> [type |-> "FallbackUsed",
                step |-> IF pc = "down" THEN Absent
                         ELSE IF state.current_step < N THEN Step(state) ELSE Absent,
                step_index |-> 0, attempt |-> 0],
     call |-> c, model |-> calls[c].model])

\* on_fallback of the command line, called in the worker thread.
EmitFallback(c) ==
  lines' = Append(lines,
    [event |-> [type |-> "FallbackUsed", step |-> calls[c].step,
                step_index |-> 0, attempt |-> 0],
     call |-> c, model |-> calls[c].model])

-----------------------------------------------------------------------------
(***************************************************************************)
(* call_with_watchdog, in the main thread.                                 *)
(***************************************************************************)

\* Slip: the prompt is screened when the answer is there.
SlipSubmit ==
  /\ pc = "call"
  /\ PromptBuilds(state)
  /\ waiting = 0
  /\ calls' = Append(calls,
       [run |-> runs, step |-> Step(state), attempt |-> attempt,
        model |-> 1, status |-> "calling", result |-> Absent])
  /\ waiting' = Len(calls')
  /\ UNCHANGED <<vars, lines>>

\* ThreadPoolExecutor(max_workers=1).submit(ctx.run, fn).
Submit ==
  /\ pc = "call"
  /\ PromptBuilds(state) /\ ~PromptPoisoned(state)
  /\ waiting = 0
  /\ calls' = Append(calls,
       [run |-> runs, step |-> Step(state), attempt |-> attempt,
        model |-> 1, status |-> "calling", result |-> Absent])
  /\ waiting' = Len(calls')
  /\ UNCHANGED <<vars, lines>>

\* future.result returns, and the answer passes the checks.
TakeAnswer ==
  /\ waiting # 0
  /\ calls[waiting].status = "answered"
  /\ AttemptSucceeds(calls[waiting].result)
  /\ waiting' = 0
  /\ Follow
  /\ UNCHANGED calls

\* It returns, and the parser or the postcondition rejects the answer.
RejectAnswer ==
  /\ waiting # 0
  /\ calls[waiting].status = "answered"
  /\ \E error \in CheckErrors : AttemptFails(error)
  /\ waiting' = 0
  /\ Follow
  /\ UNCHANGED calls

\* It raises what the client raised.
Reraise ==
  /\ waiting # 0
  /\ calls[waiting].status = "raised"
  /\ AttemptFails(calls[waiting].result)
  /\ waiting' = 0
  /\ Follow
  /\ UNCHANGED calls

\* Slip: the executor is closed with wait=True, as its `with` statement does.
SlipTimesOut ==
  /\ waiting # 0
  /\ ~Busy(waiting)
  /\ AttemptFails("ZombieStepDetected")
  /\ waiting' = 0
  /\ Follow
  /\ UNCHANGED calls

\* Slip: the next attempt waits for the same future.
SlipTimesOutKeepsFuture ==
  /\ waiting # 0
  /\ Busy(waiting)
  /\ AttemptFails("ZombieStepDetected")
  /\ Follow
  /\ UNCHANGED <<calls, waiting>>

\* Slip: a time-out is not counted as an attempt.
SlipTimesOutUncounted ==
  /\ waiting # 0
  /\ Busy(waiting)
  /\ Goto("loop")
  /\ waiting' = 0
  /\ UNCHANGED <<state, disk, log, attempt, runs, faults, calls, lines>>

\* The result is not there in time; the worker is left alone.
TimesOut ==
  /\ waiting # 0
  /\ Busy(waiting)
  /\ AttemptFails("ZombieStepDetected")
  /\ waiting' = 0
  /\ Follow
  /\ UNCHANGED calls

(***************************************************************************)
(* The rest of the main thread.                                            *)
(***************************************************************************)
Orchestrate ==
  /\ (pc # "call" /\ Run) \/ GuardrailBlocks
  /\ Follow
  /\ UNCHANGED <<calls, waiting>>

Start ==
  /\ Call
  /\ Follow
  /\ UNCHANGED <<calls, waiting>>

Die ==
  /\ Crash
  /\ calls' = [c \in DOMAIN calls |->
                 IF calls[c].run = runs /\ Busy(c)
                 THEN [calls[c] EXCEPT !.status = "dead"] ELSE calls[c]]
  /\ waiting' = 0
  /\ UNCHANGED lines

-----------------------------------------------------------------------------
(***************************************************************************)
(* FailoverClient.complete, in a worker thread.                            *)
(***************************************************************************)
ModelAnswers(c, output) ==
  /\ calls[c].status = "calling"
  /\ Finish(c, "answered", output)
  /\ UNCHANGED <<vars, waiting, lines>>

\* A call that hangs ends when the client gives up on it, which is later than
\* its attempt's end if the client is the more patient of the two.
MayRaise(c, error) ==
  error = "APITimeoutError" /\ ClientTimeout > WatchdogTimeout => waiting # c

\* Slip: the end of the chain is noticed one model late.
SlipModelFails(c, error) ==
  /\ calls[c].status = "calling"
  /\ MayRaise(c, error)
  /\ IF error \notin Triggers \/ calls[c].model > Len(ModelChain)
     THEN Finish(c, "raised", error)
     ELSE Finish(c, "falling", Absent)
  /\ UNCHANGED <<vars, waiting, lines>>

\* Slip: the chain starts over at its end.
SlipModelFailsRestart(c, error) ==
  /\ calls[c].status = "calling"
  /\ MayRaise(c, error)
  /\ \/ /\ error \notin Triggers
        /\ Finish(c, "raised", error)
     \/ /\ error \in Triggers
        /\ calls' = [calls EXCEPT ![c] =
             [@ EXCEPT !.model = (@ % Len(ModelChain)) + 1]]
  /\ UNCHANGED <<vars, waiting, lines>>

ModelFails(c, error) ==
  /\ calls[c].status = "calling"
  /\ MayRaise(c, error)
  /\ \/ /\ error \notin Triggers
        /\ Finish(c, "raised", error)
     \/ /\ error \in Triggers
        /\ calls[c].model = Len(ModelChain)
        /\ Finish(c, "raised", "AllModelsExhausted")
     \/ /\ error \in Triggers
        /\ calls[c].model < Len(ModelChain)
        /\ Finish(c, "falling", Absent)
  /\ UNCHANGED <<vars, waiting, lines>>

\* Slip: the same model again.
SlipNextModel(c) == calls' = [calls EXCEPT ![c] = [@ EXCEPT !.status = "calling"]]

NextModel(c) ==
  calls' = [calls EXCEPT ![c] = [@ EXCEPT !.model = calls[c].model + 1, !.status = "calling"]]

FallsBack(c) ==
  /\ calls[c].status = "falling"
  /\ EmitFallback(c)
  /\ NextModel(c)
  /\ UNCHANGED <<vars, waiting>>

\* Whatever the callback raises is ignored.
FallsBackUnlogged(c) ==
  /\ calls[c].status = "falling"
  /\ NextModel(c)
  /\ UNCHANGED <<vars, waiting, lines>>

-----------------------------------------------------------------------------
AgentInit == Init /\ calls = <<>> /\ waiting = 0 /\ lines = <<>>

Main ==
  \/ Orchestrate \/ Submit \/ TakeAnswer \/ RejectAnswer \/ Reraise \/ TimesOut

Worker == \E c \in DOMAIN calls :
  \/ \E output \in Payloads : ModelAnswers(c, output)
  \/ \E error \in ModelErrors : ModelFails(c, error)
  \/ FallsBack(c)
  \/ FallsBackUnlogged(c)

AgentNext == Main \/ Worker \/ Start \/ Die

AgentSpec == AgentInit /\ [][AgentNext]_agentVars

(***************************************************************************)
(* The main thread is scheduled.  Nothing is assumed of the models: a call *)
(* may hang for ever.                                                      *)
(***************************************************************************)
AgentFairSpec == AgentSpec /\ WF_agentVars(Main)

-----------------------------------------------------------------------------
(* Properties *)

AgentTypeOK ==
  /\ calls \in Seq(CallRecord)
  /\ waiting \in 0..Len(calls)
  /\ lines \in Seq(Line)

\* The lines of the workers.
Fallbacks == {i \in 1..Len(lines) : lines[i].call # 0}

OwnType(i, type) == lines[i].call = 0 /\ lines[i].event.type = type

\* A FallbackUsed event names the step whose call fell back, however late it
\* is: the step was started before, and if anything was written since by the
\* main thread, the step has failed first.
FallbackExplained ==
  \A i \in Fallbacks :
    LET call == calls[lines[i].call] IN
    /\ lines[i].event.step = call.step
    /\ \E j \in 1..(i - 1) :
         /\ OwnType(j, "StepStarted")
         /\ lines[j].event.step = call.step /\ lines[j].event.attempt = call.attempt
         /\ \/ \A k \in (j + 1)..(i - 1) : lines[k].call # 0
            \/ \E k \in (j + 1)..(i - 1) :
                 OwnType(k, "StepFailed") /\ lines[k].event.step = call.step

\* The FallbackUsed events of one call go down the chain, at most once for each
\* model but the last, and stop where the call stands.
ChainInOrder ==
  \A i, j \in Fallbacks : lines[i].call = lines[j].call =>
    /\ i < j => lines[i].model < lines[j].model
    /\ lines[i].model < calls[lines[i].call].model

\* The output of a step is the answer to the attempt announced last; the answer
\* of a worker that was given up is never used, not even for a retry of its step.
AnswerOfThisAttempt ==
  [][TakeAnswer =>
       LET call == calls[waiting] IN
       <<call.run, call.step, call.attempt>> = <<runs, Step(state), attempt>>]_agentVars

\* Every leaked thread is in the log: each call that still runs and is not
\* awaited stands for a StepFailed.
LeaksAreLogged ==
  Cardinality({c \in DOMAIN calls : Busy(c) /\ c # waiting})
  <= Cardinality(Logged("StepFailed"))

\* Threads or not, what the main thread does is Pipeline.
ImplementsPipeline == Spec

\* run_pipeline returns or raises, though models may hang for ever.
RunReturns == pc # "down" ~> pc = "down"

\* If every call of a model ends, as the client's timeout makes it, every leaked
\* thread ends too, whatever run has returned or died by then: the interpreter,
\* which joins the worker threads when it exits, is not kept alive.
WorkersEnd == (\E c \in DOMAIN calls : Busy(c)) ~> (\A c \in DOMAIN calls : ~Busy(c))

ProcessExits == WF_agentVars(Worker) => WorkersEnd

-----------------------------------------------------------------------------
(***************************************************************************)
(* What the documents say and the program does not do.                     *)
(***************************************************************************)

\* "On rate-limit / outage / country-block / timeout it transparently advances
\* to the next model and emits a FallbackUsed event" (README.md): if all that
\* goes wrong is that models hang, no step is given up before some attempt of
\* it has fallen back.
HangFailsOver ==
  outcome = "exhausted" /\ ModelErrors = {"APITimeoutError"} /\ CheckErrors = {} =>
    \E i \in Fallbacks : \E j \in 1..(i - 1) :
      /\ OwnType(j, "StepStarted")
      /\ lines[j].event.attempt = calls[lines[i].call].attempt
      /\ \A k \in (j + 1)..(i - 1) : lines[k].call # 0

=============================================================================
