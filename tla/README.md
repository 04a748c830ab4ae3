# Verification of the resilient SEO agent

TLA+ models of the pipeline in `src/`, TLC configurations that check them on
small instances, and theorems about them that TLAPS proves for every instance.
Paths below are relative to the repository.

The agent writes an SEO article in five steps, each one call of a language
model. It promises to survive what models, gateways and machines do: after any
failure, a later run continues from the last checkpoint, repeats nothing that
was saved and loses at most the step that was under way. Most of what follows
is about that promise.

## 1. The system

| component | code | state it keeps | operations |
|---|---|---|---|
| orchestrator | `src/agent/pipeline.py` | the loop variables of a run | `run_pipeline`, `_run_one_step`, `_emit_failure` |
| pipeline state | `src/state/pipeline.py` | `current_step`, `completed_steps`, `outputs`, `failed_attempts`, `topic` | `mark_step_done`, `mark_step_failed` |
| resume | `src/state/__init__.py` | none | `resume_or_start` |
| state store | `src/state/store.py` | `state.json`, temporary files | `save_checkpoint`, `load_latest`, `gc_temp_files` |
| event log | `src/state/events.py`, `store.py` | `event_log.jsonl` | `append_event`, `read_events` |
| steps | `src/agent/steps.py` | none (a constant list) | `build_user_prompt`, `parse_output`, `postcondition` |
| guardrail in code | `src/guardrails/prompt_injection.py` | none | `check_prompt_injection` |
| watchdog | `src/agent/watchdog.py` | worker threads, some leaked | `call_with_watchdog` |
| failover client | `src/agent/failover_client.py` | `current_step_var` | `complete`, the fallback callback of `main.py` |
| clients | `src/agent/client.py` | the mock's call counter | `complete` |
| self tests, JSON | `src/agent/self_test.py`, `_json.py` | none | five postconditions, `extract_json` |
| failure injection | `src/failure_inject/` | call counter, per-call plan | `wrap`, `reset` |
| chaos harness | `chaos/` | the root of all checkpoints, the records of an experiment | `run-all`, `_run_chaos`, `_run_one_pipeline`, `_aggregate`, `_check_probe` |
| command line | `src/agent/main.py` | none | one call of `run_pipeline` |
| Cedar policies, gateway configuration | `cedar/`, `guardrails/`, `gateway-config/` | none in this program | enforced by the gateway |
| demos | `demos/` | none | one run with an injecting client each |
| diagnostics | `diagnose_bedrock.py` | none | a script |

How they interact. The command line (or a demo, or the chaos harness) calls
`run_pipeline` with a `pipeline_id`. `resume_or_start` loads `state.json` or
creates it. For each step the orchestrator builds a prompt from earlier outputs,
screens it, and calls the client through the watchdog, which runs it in a
worker thread; the failover client tries a chain of models there and appends
`FallbackUsed` events from that thread. The answer is parsed and checked, the
step is logged, marked done in memory, saved, and logged as saved. A failure is
logged, remembered in memory and retried. All communication between runs is the
directory of the pipeline: `state.json` and `event_log.jsonl`.

What is hard, and what makes each component correct:

- **Orchestrator and resume.** A process can die between any two effects on the
  disk; the next run may be given another topic; outputs of one step are inputs
  of the next, so a poisoned one blocks later. Correct when the checkpoint and
  the log stay in step, no saved step is repeated, at most one step is lost, a
  block is terminal, the retry budget is kept, and the pipeline finishes if
  faults stop.
- **State store.** Writes, renames and write-back reach the platter in different
  orders; two processes may share a `pipeline_id`; temporary files pile up.
  Correct when it is an atomic register of whole states.
- **Watchdog and failover client.** Timed-out calls live on in threads that keep
  using the client and appending events; the watchdog's timeout races the client's
  and the answer. Correct when a late answer is never used, a timeout makes
  progress along the chain, events name the step that caused them and follow the
  chain, and a run returns whatever models do.
- **Failure injection and mock.** Call counters shared by live and timed-out
  calls. Correct when each planned failure hits the call it was planned for, and
  when the mock, which guesses the step from the wording of the prompt, answers
  the prompt it was given.
- **Self tests, JSON extraction.** Pure, and all that stands between a spoiled
  answer and the checkpoint. Correct when a completed step holds a proper answer.
- **Chaos harness.** Experiments that share a directory and the names in it, a pool
  whose jobs end in any order, records that join three sources, classes told
  apart by the text of a status. Correct when a verdict is about the pipelines of
  its own experiment, and a PASS means what the hypothesis says.

`PROJECT.json` lists every hazard at its line, with the properties that cover it.

## 2. Modules

```
SeoSteps            the five steps as data
Pipeline            orchestrator, pipeline state, resume, events  (core)
DurableProgress     abstract: what a pipeline_id promises
PipelineInvariant   the inductive invariant of Pipeline
PipelineProofs      theorems about Pipeline
PipelineHistory     the inductive invariant of Pipeline's log: tries, answers and
                    failures, counted
HistoryProofs       theorems about Pipeline's log
MCPipeline          Pipeline for TLC
Agent               Pipeline with the watchdog's worker threads and the failover
                    client in them
AgentInvariant      the inductive invariant of Agent
AgentProofs         theorems about Agent
AgentHistory        the inductive invariant of the log that workers write to as well
AgentHistoryProofs  theorems about Agent's log
MCAgent             Agent for TLC
Answers             what the mock answers, and what parsers and checks say of it
InjectedRun         Agent with an injecting client: demos and chaos pipelines
InjectedProofs      InjectedRun implements Agent and Pipeline
InjectedHistory     the inductive invariant of a run with an injecting client
OutcomeProofs       theorems about what such a run leaves behind
MCInjected          InjectedRun for TLC
ChaosExperiment     the harness: a pool of pipelines, records, metrics, verdicts
ChaosInvariant      the inductive invariant of ChaosExperiment
ChaosProofs         theorems about ChaosExperiment
MCChaos             ChaosExperiment for TLC
StateStore          save_checkpoint, load_latest, gc_temp_files and the event log,
                    by system call
AtomicCheckpoint    abstract: an atomic register that survives power failures
StoreInvariant      the inductive invariant of StateStore
StoreProofs         theorems about StateStore
MCStateStore        StateStore for TLC
```

### Pipeline

One action per effect on the disk, in the order of the code:

| action | code |
|---|---|
| `Resume`, `StartFresh`, `StartFreshRaises`, `LogPipelineStarted` | `resume_or_start` and the `setdefault` of `run_pipeline` |
| `StartAttempt` | the head of the loop of `_run_one_step`: `StepStarted` |
| `AttemptSucceeds`, `SaveCheckpoint`, `LogCheckpointWritten` | the success path |
| `AttemptFails`, `LogFallback`, `Retry`, `GiveUp` | the generic handler |
| `GuardrailBlocks`, `SaveBlocked` | the guardrail handler |
| `SaveRaises` | a save that cannot encode the state |
| `Complete` | the end of `run_pipeline` |
| `Crash` | the process dies, anywhere |

`state` is the `PipelineState` in memory, `disk` what `load_latest` returns,
`log` the event log, `pc` the next effect of the run, `attempt` the loop
variable, `outcome` how the latest run ended. `runs` and `faults` count calls
and failures for the bounds only.

`pc = "down"` means that no process runs. One run at a time is active:
concurrent runs of one `pipeline_id` are considered in `StateStore` only.
Between `StartAttempt` and its result nothing shared changes (prompt building,
screening, the model call, parsing and the postcondition), so they are one step:
it blocks if the prompt is poisoned, or else succeeds with any output or fails
with any error. A failure is possible whatever the inputs; a success only if the
prompt can be built.

Data is abstract. A topic or output is one of a few values; `Poisoned` are those
that make `check_prompt_injection` match in a prompt, `Unstorable` those with a
lone surrogate, which `json.dumps(ensure_ascii=False)` passes and the UTF-8
encoder of the file rejects. Screening is thus judged value by value: the
templates put text of their own between any two inputs. Timestamps,
latencies, models, messages and `metadata` are left out. So are error messages
in `failed_attempts` and in events, and with them the case that a message
cannot be encoded.

`Unstorable` topics matter only in `StartFreshRaises` (the very first save
raises) and, on resume of a checkpoint without a topic, in `SaveRaises`.

### DurableProgress

Two variables: the topic all prompts are built from, settled once, and the
sequence of completed outputs, which only grows, by one step at a time, from
inputs that pass the guardrail. `Pipeline` implements it under the mapping
`subject <- outputs["topic"]` of the checkpoint and `done <-` the outputs of its
completed steps. The topic is settled by the first save that carries it, and
that is the point of the finding `topic_stable`: until then a resume may choose
another one.

### Agent

`Agent` extends `Pipeline` by the threads underneath the attempt step, and
splits that step:

| action | code |
|---|---|
| `Submit` | `call_with_watchdog` starts a worker in a copy of the context |
| `TakeAnswer`, `RejectAnswer` | the future returns; the answer passes the checks, or not |
| `Reraise` | the future raises what the client raised |
| `TimesOut` | it does neither in time: `ZombieStepDetected`, the worker is left alone |
| `ModelAnswers`, `ModelFails`, `FallsBack`, `FallsBackUnlogged` | the loop of `FailoverClient.complete`, in the worker |
| `Orchestrate`, `Start`, `Die` | the rest of the main thread, as in `Pipeline` |

`calls` are the workers ever started, each with its context (run, step,
attempt), its place in the chain of models and its future (`status` and `result`,
the answer by name or the error); `waiting` is the one
the main thread waits for; `lines` is the event log with the workers' lines in
it, where `log` remains the main thread's own. An appended line is one step:
both sides open the file for appending and write one short line.

A worker that was given up goes on: it may answer, fail, fall back and log at
any later time, during another attempt, another step or another run. Each run is
a process of its own, as the command line has it. Its death takes its threads
with it; its return does not, because the interpreter joins them before it exits.

Time is left out but for one fact. A call that hangs ends with the client's
timeout (60 s), and the watchdog's limit (30 s), which started no later, has
ended the attempt by then: with `ClientTimeout > WatchdogTimeout` the awaited
call cannot raise `APITimeoutError` (`MayRaise`). `TimesOut` itself is possible
whenever the future is not done, however fast the models are.

`ImplementsPipeline` says that the threads are invisible to the orchestrator:
every step of `Agent` is a step of `Pipeline` or changes nothing of it. The
parameters of the two modules are related by what can be raised (`ModelErrors`,
`CheckErrors`, `AllModelsExhausted` and `ZombieStepDetected` are `Errors`).

### InjectedRun

The demos and the chaos harness run the pipeline with a client that fails on
purpose. `InjectedRun` restricts `Agent` to what such a client does:

| action | code |
|---|---|
| `InjectedSubmit` | a call is started, and will pass through the wrapper |
| `Enter` | it takes its number, and with it its *fate* (`wrap`, or the `complete` of `MockClient` or `RandomFailureClient`) |
| `Wake` | the sleep of a slow or hanging call ends |
| `Return` | it raises its `InjectedFailure`, or returns the `Response` its fate makes of the mock's answer |
| `InjectedResult` | the future ends or times out; the answer is judged by the parser and the postcondition of its step |
| `InjectedRest` | everything else, as in `Agent` |

A scenario is a client, the fate of its first calls and the set of fates that later
calls may meet: the six presets of `scenarios.py`, the plans of demos 7 and 9, and
one per chaos profile, whose draws are a choice from the profile at every call.
`Profiles` is any set of parts of the profiles in the experiments (`ChaosProfiles`).
A call has one fate, as in every preset, though a plan could combine a sleep and
an error. There is no failover client in a demo, so `NoFailover` asks for a chain
of one without triggers, in which `ModelFails` raises at once; and no resume,
since each demo and each chaos pipeline starts on a fresh directory.

What `Agent` leaves open, whether an answer passes, is decided here by module
`Answers`. An answer goes by its name. `Raw` gives what the code can tell of it:
the words and headers of the text, and the JSON value it parses to, with strings
by their length and, where a check compares them, by what they say. `Asked` runs
the mock's tests for words in the prompt, in its order, on the markers each prompt
contains; a later prompt quotes earlier outputs and has their markers too.
`Verdict` is the parser and the postcondition of a step applied to an answer,
written conjunct by conjunct from `self_test.py`. So `OutputsAreProper` rests on
the thresholds of the checks and the sizes of the answers in the code: the
"corrupted" text is rejected by the parser in four steps, but the draft step
parses nothing, and only the word count of `check_draft` keeps it out.

`Report` is the record `_run_one_pipeline` makes, from the way the run ended, the
log of the client and the reloaded checkpoint.

Time is again left out but for one fact: only a sleep is long enough for the
watchdog (its shortest limit anywhere is half a second), and it may be so or not.
That is what the demos span: scenario 3 sleeps 1 ms in the demo and 30 s, the
watchdog's own limit, by default. So a call cannot time out before it has its
number, and no call overtakes another on the way to the counter; this is what
makes the unlocked `call_count += 1` of `injector.py:73` safe, and `CountInv` of
`InjectedProofs` says it.

### ChaosExperiment

`python -m chaos run-all`, one level up: a pipeline is a job of the pool, known by
the step it is at.

| action | code |
|---|---|
| `Launch`, `NextExperiment`, `RunAllReturns`, `Kill` | `cmd_run_all`, from its start to its exit code, or to its death |
| `ClearRoot`, `SubmitJobs` | `_run_chaos`: `rmtree` one directory at a time, then the dice and the jobs |
| `Collect`, `CollectRaises`, `Unwind` | `as_completed` and `fut.result()`; a job that raised unwinds through the `with` block, which waits for the others |
| `Judge` | `_aggregate`, `_check_probe`, the verdict |
| `TakeJob`, `Begin`, `Completes`, `Blocks`, `GiveUp`, `Crashes`, `EndJob` | `_run_one_pipeline` in a thread of the pool, and what `run_pipeline` may end in |
| `StartCall`, `StepDone` | a model call with all its attempts, and the checkpoint after it |
| `StoreRaises` | the directory cannot be made, outside the `try` |

All six experiments have seed 42, and the root is named after the seed, so they
share it, and `chaos-0000` of one is `chaos-0000` of the next: what keeps them
apart is `rmtree` (`OwnCheckpoints`), and that nobody runs while it works
(`QuietRoot`). Rates are held as integers, a part and a whole, against tolerances
in percent. Two metrics are left out, `mean_retries`, which no hypothesis uses,
and `failures_per_pipeline`, which experiment 06 uses; so are printing and the
result files, which nothing reads back. Each experiment has one method, as all
in the repository have.

### StateStore and AtomicCheckpoint

`Open`, `Write`, `Flush`, `Fsync`, `Replace` are the system calls of
`save_checkpoint`, `WriteRaises` its failure, `AppendEvent` the `CheckpointWritten`
that follows, `GcTempFiles` is `gc_temp_files`.
The file system is the weakest one the code relies on: a directory whose changes
are journalled in order (a power failure keeps some prefix), and file data that
reaches the platter when the kernel writes it back, at the latest by `fsync`.
Data is empty, torn or a whole state. File names are sequences of their
dot-separated parts, because what `with_suffix` and the glob do with them is a
finding. `AtomicCheckpoint` is a register with the set of states a power failure
may bring back.

The event log is never synced. A power failure keeps some prefix of its lines, at
least those that survived the last one, and may keep the first part of one more.
A line of an atomic append cannot be torn by the death of a process alone. After
the reboot the next event is glued to the torn line, so `read_events` raises at
that place for ever and returns what is before it (`ReadEvents`). The size of the
log and the directory are metadata of one journal: a line is not on the platter
before the rename it reports, and this is what `EventsExplained` rests on.

`Pipeline` treats a save as one step. `StateStore` justifies it: `load_latest`
changes only at `Replace`, to the state being saved (`ImplementsAtomicCheckpoint`,
`InstallsOwnState`).

## 3. Runs

| run | module | expected | shows |
|---|---|---|---|
| `pipeline_safety` | MCPipeline | pass | the ten invariants, `BlockIsPermanent`, `EffectsRunOut`, `ImplementsDurableProgress` |
| `pipeline_liveness` | MCPipeline | pass | `EventuallySettled` under `FairSpec` |
| `store_atomic` | MCStateStore | pass | no torn checkpoint, no interference, an atomic register; what survives of the log is about checkpoints that survive |
| `agent_threads` | MCAgent | pass | late workers: events, answers and leaks are accounted for; `ImplementsPipeline` |
| `agent_returns` | MCAgent | pass | `RunReturns` under `AgentFairSpec`, with models that may hang for ever; `ProcessExits` if calls end |
| `injected_scenarios` | MCInjected | pass | a planned failure hits its attempt, outputs are proper, a poisoned topic reaches no model, the harness's record adds up; absorbable scenarios complete under `InjectedFairSpec` |
| `chaos_experiment` | MCChaos | pass | experiments do not disturb each other, a PASS is earned, `RunAllEnds` under `FairSpec` |
| `topic_stable` | MCPipeline | violation | a resume can change the topic |
| `failures_preserved` | MCPipeline | violation | exhausted failures are not on disk |
| `only_pipeline_errors` | MCPipeline | violation | an un-encodable output escapes `run_pipeline` |
| `store_gc` | MCStateStore | violation | orphans are never collected |
| `hang_fails_over` | MCAgent | violation | a model that hangs uses up the retries without a fallback |

The properties, in words, stand above their definitions.

**Bounds.** The five real steps with their real prompt inputs are used
everywhere. `pipeline_safety` has three topics (clean, poisoned, un-encodable),
two outputs (clean, poisoned), two errors (one injected), one retry, three calls
and three faults. Three calls are a run that dies, one that resumes and dies and
one more: what a run leaves behind is only the checkpoint and the log, so a
fourth call meets nothing a third does not. Three faults let a run use up its two
attempts and die once more, or die once in each run. One retry distinguishes the
first, a middle and the last pass of the loop only as first and last; there is no
code that treats a middle one differently. `pipeline_liveness` has two faults and
three calls, so every behaviour has a call left after its last fault.
`store_atomic` has two processes, which is what sharing takes, three saves (one of
the processes saves, fails and saves again while the other saves), three inodes (one
per save, so a new file never has to wait for an old one), and two failures (a
process killed, then a power failure, or two power failures: the second meets the
torn line of the first). Un-encodable states occur as a third
value. The saved states, and the processes, are symmetric: no definition tells
them apart, and no temporal property is checked there that symmetry could spoil
(the two properties are step properties).

The runs of `Agent` have the first two steps, which are two different names for
an event to carry, and a chain of two models: one to fall back from and one to
end at. `agent_threads` has two runs with one retry and two faults, so a worker
can outlive its attempt, its step, and its run, and two of them can be loose at
once. Its errors are one trigger, one non-trigger, the client's timeout and one
rejection by a postcondition. `agent_returns` has one run of two steps with two
attempts each: it cannot see more than four faults, so the bound of four never
keeps it from failing, and a run that does not return would be seen.
`hang_fails_over` has the two retries of the code.

`injected_scenarios` has the five steps, the two retries of the code, a clean and a
poisoned topic, and all eight planned scenarios from the source. It has two
profiles: hang and hallucination, corruption and tool failure, which are one fate
of each kind (raise, sleep, spoil, and spoil in the way only the checks notice),
since the fates of a kind differ only in the name of the error they leave behind.
Two calls of a run may sleep (`MaxSleeps`), so that one can still sleep while the
next is given up, and four attempts may fail: one step exhausted and one failure
before it, or one in each of four steps. No planned scenario reaches either bound,
so the bounds never keep anything from happening in `ScenarioRecovers`; profiles,
which the bounds do cut short, are not `Absorbable`.

`chaos_experiment` has two threads and three pipelines, so one waits for a thread;
two experiments, so the second meets the root of the first, one of them with
poisoned topics and probes on both sides of a rate; two steps, so a checkpoint can
be empty, half done and complete; two launches, so one meets what another left
when it was killed; and two faults, an exception and a kill, or two of three
pipelines lost. With four pipelines (2.9 million states) it finds nothing else.

Deadlock is not checked: a bounded number of calls really comes to an end.

**Fairness.** `FairSpec` assumes that a running process takes its next step
(`WF_vars(Run)`), which the sequential loop justifies since every wait in it is
bounded by the watchdog, and that after a run that did not complete somebody
calls `run_pipeline` again (`WF_vars(CallAgain)`), which is what the command line
tells the operator to do (`main.py`, "resume with: --pipeline-id"). Nothing
makes a failed attempt or a crash happen. `EventuallySettled` concludes that a
`PipelineCompleted` is written, or that the pipeline is stuck at a poisoned
prompt, the one case in which calling again cannot help. It assumes that no value
is un-encodable: an output that cannot be saved can come back for ever.

`AgentFairSpec` assumes of the main thread alone that it is scheduled
(`WF_agentVars(Main)`). The timer of `future.result` is part of it: `TimesOut`
stays enabled while the awaited call is not done. Nothing is assumed of workers or
models, which may hang for ever; `RunReturns` is exactly the claim that this does
not matter, and it is what justifies `WF_vars(Run)` above. `ProcessExits` adds what
it needs as a premise, that workers are scheduled and their models answer or fail
(`WF_agentVars(Worker)`): the interpreter joins every worker before it exits, so
without it the process of a finished run may stay.

`InjectedFairSpec` assumes the main thread scheduled (`Continue`) and the
workers too (`Client`): here, unlike with a real model, every sleep ends and the
mock answers at once. `ScenarioRecovers` concludes that a scenario in which no
`max_retries + 1` calls in a row may fail completes, unless its process is killed;
it says nothing of scenarios 2 and 6, which a budget of two retries cannot absorb,
nor of the profiles, which have no such bound, nor of poisoned topics.

`FairSpec` of `ChaosExperiment` assumes that the main thread and the pool are
scheduled (`WF_vars(Main)`, `WF_vars(Pool)`). That a call ends within the pool is
what `RunReturns` shows; a started call never waits for a thread of the pool,
because `call_with_watchdog` makes a pool of its own.

## 4. Proofs

`PipelineProofs` proves, for any list of distinct step names, any prompt inputs
that are topics or outputs of earlier steps, any values, errors and retry budget,
and with no bound on what the constants are (assumptions `StepsAssumption`,
`PromptInputsAssumption`, `ValuesAssumption`, `BoundsAssumption`,
`NoCheckpointAssumption` in `Pipeline`):

| theorem | property |
|---|---|
| `TypeCorrect`, `TypesHold` | `TypeOK` |
| `CheckpointAlwaysConsistent` | `CheckpointConsistent` |
| `PromptsAlwaysBuild` | `PromptAlwaysBuilds` |
| `CompletedAlwaysClean` | `CompletedFromClean` |
| `NoReplayEver` | `NoReplay` |
| `CompletedAlwaysFinal` | `CompletedIsFinal` |
| `BlockAlwaysTerminal` | `BlockIsTerminal` |
| `BlockAlwaysPermanent` | `BlockIsPermanent` |
| `EffectsAlwaysRunOut` | `EffectsRunOut` |
| `ImplementsProgress` | `ImplementsDurableProgress` |

None of the properties is inductive. The invariant `IInv` of `PipelineInvariant`
has three layers, each proved on top of the one before:

- `TypeInv`: types, and what the control point implies (a running process has a
  state and a checkpoint; inside `_run_one_step` there is a step to run).
- `MemInv`: the state in memory and the checkpoint are both *sound* (the three
  records of progress agree; the topic is set before a step completes; completed
  steps come from clean inputs), and memory only ever *adds* to the checkpoint:
  the topic, and one step while it is being saved. Without the second half a save
  could replace an output and nothing would say that the completed steps
  computed from it are still clean.
- `LogInv`: the log never promises more than the checkpoint. `CheckpointWritten`
  carries an index no larger than the checkpoint's, `PipelineCompleted` implies a
  complete one. `NoReplay` follows since a step that is started is the
  checkpoint's next one; `CompletedIsFinal` since after completion there is none;
  `BlockIsTerminal` since a block is the last line of the log until its run has
  ended.

The refinement theorem maps every step to a `Commit`, a `Settle` or a stutter by
cases on what was saved. `IInv` itself was also checked as an invariant with TLC
before it was proved.

`EffectsAlwaysRunOut` is the half of termination that can be proved here: the
effects of a run go down in a lexicographic order of three naturals (steps,
attempts, effects of the attempt), so a run that is scheduled, and whose calls
end, reaches an end of its own. That it is scheduled is `WF_vars(Run)`.

`HistoryProofs` proves, under the same assumptions, what the log of any number of
runs says:

| theorem | property |
|---|---|
| `WorkLostOnlyToFaults` | `LostWork` |
| `LogAlwaysExplains` | `LogExplainsCheckpoint` |
| `BudgetAlwaysKept` | `RetryBudget` |
| `HistoryHolds` | the three invariants together (`HistoryInv`) |

`LostWork` is inductive beside `IInv`: `faults` minus the `StepFailed` lines is what
cut runs short, and each cut loses at most the answer that was being saved.
`LogExplainsCheckpoint` speaks of the checkpoint and is not: the next save writes
what memory holds, so `LogExplains` says the same of memory. `RetryBudget` needs
most. A bound on the tries of a step in every run says nothing of the try about
to be made, so `RetryInv` counts those of the latest run: `attempt` is one more
than the `StepStarted` lines, and than the `StepFailed` lines, that this run has
written about its step (`AttemptsCounted`); it has written none about later steps
(`LaterStepsUntried`), or the count would not start from zero when `attempt` does;
and its failure is the last `StepFailed` of the log (`LastFailureIsOurs`), the one
from which `RetryBudget` looks back when a run gives up. Earlier runs keep their
counts since a new run begins with a line of its own. The counting lemmas come
first: an appended line adds one to the sets of positions it belongs to and
leaves the others alone.

`AgentProofs` proves about `Agent`, for any chain of models, sets of errors and
triggers and for either order of the two timeouts (`AgentAssumption`, and those
of `Pipeline`):

| theorem | property |
|---|---|
| `AgentImplementsPipeline` | `ImplementsPipeline` |
| `AnswersOfOwnAttempt` | `AnswerOfThisAttempt` |
| `FallbacksInOrder` | `ChainInOrder` |
| `AgentTypesHold` | `AgentTypeOK` |

`AgentImplementsPipeline` carries every theorem of `PipelineProofs` over to the
program with its threads. The invariant `AgentInv` says that a future holds an
answer or an error when it is done and a falling call has a model left; that the
main thread waits only inside an attempt, for the call it started in it; and that
the lines of a call are behind it in the chain. `AgentInv` alone is not
inductive: that a call is started with a step that exists is `TypeInv` of
`Pipeline`, so the two are proved together, the refinement of each step
(`AgentStep`) first.

`AgentHistoryProofs` proves about the log that main thread and workers share, for
any number of workers loose at once:

| theorem | property |
|---|---|
| `FallbacksExplained` | `FallbackExplained` |
| `LeaksAlwaysLogged` | `LeaksAreLogged` |
| `AgentKeepsPromises` | `ImplementsDurableProgress`, `EffectsRunOut`, `LostWork`, `LogExplainsCheckpoint`, `RetryBudget`, of `AgentSpec` |

`FallbackExplained` looks back from a worker's line and says nothing of the worker
that has not written yet. `LateWorkerInv` does: while the main thread waits, the
`StepStarted` of its attempt is the last line of its own (`AttemptIsOpen`), and a
worker that is still busy, and that nobody waits for, has its `StepStarted` and
after it a `StepFailed` of its step in the log (`LeakedWereGivenUp`). Lines are
only appended, so whenever such a worker writes, its line is explained.
`LeaksAreLogged` is inductive: one more leak takes a timeout, which logs a
`StepFailed`, and the death of a process, which takes its threads with it, only
makes it easier.

`InjectedProofs` proves about `InjectedRun`, for any retry budget, steps, errors
and profile (`ProfileAssumption`, `NoFailover`, `OneRun`, `InjectedErrors`):

| theorem | property |
|---|---|
| `InjectedImplementsAgent` | `InjectedSpec => AgentSpec` |
| `InjectedImplementsPipeline` | `InjectedSpec => Spec` |
| `InjectedTypesHold` | `InjectedTypeOK` |

The first says that an injected failure is nothing a real gateway could not do,
so what is proved of the agent is not disturbed by the test harness; the second
composes it with `AgentImplementsPipeline`. The counter's bound rests on
`CountInv`: only the call started last may still lack a number, and the main
thread waits for that call or the process has died. It is proved on top of
`TypeInv` and `AgentInv`, which the first theorem makes available.

`OutcomeProofs` proves what such a run leaves behind, for any order of the steps
that the prompts allow, any retry budget, each of the scenarios and any profiles:

| theorem | property |
|---|---|
| `PlanAlwaysDecides` | `PlanDecides` |
| `OutputsAlwaysProper` | `OutputsAreProper` |
| `PoisonedAlwaysAborts` | `PoisonedAborts` |
| `ReportsAlwaysAddUp` | `ReportsAddUp` |
| `OutcomeHolds` | the invariant behind them (`OutcomeInv`) |

It begins with the answers. That the mock answers each step's own prompt
(`AskedOwnStep`), that a step accepts its full answer (`NormalIsAccepted`) and that
it rejects whatever an injecting client may return instead (`SpoiltIsRejected`) are
lemmas about the operators of `Answers`, proved from the sizes and thresholds in
the code. Then `OutcomeInv` of `InjectedHistory`, on top of `TypeInv`, `MemInv`,
`AgentInv` and `CountInv`:

- `PlanInv`: call number n has a fate the plan has for n, and a future that ends
  as that fate has it (`CallsAsPlanned`); the n-th `StepStarted` stands for call n,
  and one that no call stands for yet is the last line (`StartsAreCalls`). `PlanDecides`
  joins the two: without the second part the log alone does not say which call an
  attempt made, once earlier calls are loose.
- `ProperInv`: memory holds full answers as well as the checkpoint, which the next
  save replaces by memory.
- `PoisonInv`: a run keeps the topic of its checkpoint, and on a poisoned one it is
  before its first call, with nothing done, nothing in flight and no failure but
  the block.
- `ReportInv`: memory has a failure for every failure line; the checkpoint lacks
  those of the step being tried, as many as `attempt` says (`FailuresRecorded`); and
  the failures lie between the settled calls that had to fail and those that may
  have (`FailuresAreInjections`). The call being waited for is left out of both
  counts: it has its number, and so counts as injected, before it has failed.

Two assumptions of `InjectedRun` come from the clients in the repository: their
answers are plain text that can be saved (`PlainTexts`; the topics are those of
the demos and the harness), and the first step's prompt contains the topic
(`FirstPromptHasTopic`), which is why a poisoned topic stops the run there. The
third, that `"ok"` is not the name of an exception (`InjectedErrors`), keeps verdicts
apart.

`ChaosProofs` proves about `ChaosExperiment`, for any sequence of experiments with
any number of pipelines, threads, launches and faults (`ExperimentsAssumption`,
`ChaosAssumption`):

| theorem | property |
|---|---|
| `ChaosCorrect`, `ChaosTypesHold` | `TypeOK` |
| `RootAlwaysQuiet` | `QuietRoot` |
| `CheckpointsAlwaysOwn` | `OwnCheckpoints` |
| `PassAlwaysEarned` | `PassIsEarned` |

Its `IInv` says of each job what may lie in its directory at each of its stages
(`JobInv`): nothing before the root is cleared for this experiment, and
afterwards only what this experiment put there. A kill leaves directories of any
stage behind, and only the clearing of the root, pipeline by pipeline, restores
the invariant of the next experiment; so `OwnCheckpoints` alone is not
inductive. `RecordsInv` says that each ended job has one record, of what it
ended in, and that a record is of a job that ended. `PassIsEarned` follows
since a verdict counts records and the property counts pipelines: the records
and the jobs that ended map one to one.

`StoreProofs` proves about `StateStore`, for any set of states and processes and
any number of saves, kills and power failures (`StoreAssumption`):

| theorem | property |
|---|---|
| `StoreCorrect`, `StoreTypesHold` | `TypeOK` |
| `TmpAlwaysInPlace` | `TmpInPlace` |
| `NeverTornEver` | `NeverTorn` |
| `EventsAlwaysExplained` | `EventsExplained` |
| `SavesInstallOwnState` | `InstallsOwnState` |
| `StoreImplementsRegister` | `ImplementsAtomicCheckpoint` |

`IInv` of `StoreInvariant` speaks of every directory in the journal, since a power
failure may bring back any of them. No file has two names (`NamesInv`); what a
process has done to its temporary file follows from the system call it is at
(`SaveInv`); and a file that is `state.json` in any of the directories is whole, on
the platter, and nobody's temporary file now (`FilesInv`). The last part is what
makes the rest hold: no process may open, truncate or write a file that a power
failure could bring back as the checkpoint. It needs that the temporary names
of different processes differ and that none of them is `state.json`
(`PathFacts`), that a new file gets an inode that no directory of the journal
uses, and that `fsync` comes before `os.replace`. For the log, `OrderInv` says
that later directories come with more lines and more saves, and `EventInv` is
`EventsExplained` line by line. `gc_temp_files` is a stutter because its pattern
matches no name (`NothingMatches`): with the corrected pattern `TmpInPlace` is
false, so this proof would fail where the run does.

So every invariant and every action property that a passing run checks is a
theorem. Only model-checked are the liveness properties `EventuallySettled`,
`RunReturns`, `ProcessExits`, `ScenarioRecovers` and `RunAllEnds`: the provers used
here do not reason about fairness, which speaks of `ENABLED`. No operator of the
models is recursive. The invariants `HistoryInv`, `LateWorkerInv` and `OutcomeInv` were
checked with TLC, on the instances of `pipeline_safety`, `agent_threads` and
`injected_scenarios`, before they were proved.

## 5. Findings

1. `topic_stable`: a resume before the first step is saved takes its topic from
   the caller and not from `state.topic` (`src/agent/pipeline.py:46`).
2. `failures_preserved`: on exhaustion `failed_attempts` is not saved
   (`src/agent/pipeline.py:151`).
3. `only_pipeline_errors`: `save_checkpoint` can raise `UnicodeEncodeError`
   through `run_pipeline` (`src/state/store.py:71`).
4. `store_gc`: the pattern of `gc_temp_files` matches no file that
   `save_checkpoint` creates (`src/state/store.py:111`). Correcting the pattern
   alone would let it unlink the file of a save in progress; `TmpInPlace` is the
   property that would then fail.

5. `hang_fails_over`: a timeout does not fail over. The watchdog wraps the client
   from outside and is the less patient of the two, and each retry enters the
   chain at its first model (`src/agent/failover_client.py:140`), so a first
   model that hangs exhausts the step without one `FallbackUsed`. The trigger
   `ZombieStepDetected` can never be seen there.

Other disagreements were met and have no run.

- `watchdog.py` says that a leaked thread dies with the process. The threads of a
  `ThreadPoolExecutor` are joined at exit, so the process lives as long as its
  slowest leaked call; `ProcessExits` says what that takes.
- A `TimeoutError` that the wrapped call itself raises is reported as a zombie step,
  because `concurrent.futures.TimeoutError` is the same class (`watchdog.py:77`).
  `FailoverClient` turns such an error of a model into one of its own, so only
  clients without it are affected, and none in the repository raises it.
- `_run_one_pipeline` says "No exceptions propagate from here"
  (`chaos/injectors.py:64`); its store and client are made outside the `try`. A job
  that raises there ends the experiment and the program, after the other jobs
  (`StoreRaises`, `Unwind`).
- All experiments have seed 42 and so one root; each clears what the previous left,
  and two harness processes at a time would clear each other's.
- `mixed_chaos` is run with hangs of 0.6 s and a watchdog of 1 s: no call of that
  experiment is ever given up by its hang alone.
- `FailoverClient` names the injected failures among its triggers' subclasses, but
  `SCENARIO_TO_EXC` raises `InjectedRateLimit` and its like, whose names are not on
  the list (`FailoverTriggerNames`). No program combines the two.
- `_json.py:1-2` speaks of prose around the JSON; `_FENCE.match` only strips a fence
  at the start of the text.
- `MockClient` looks for its markers in the whole prompt, topic included: with a
  topic that contains "optimize" every prompt gets the answer of the last step. The
  demos' topics have no marker in them.

The docstring of `scenario_6_cascading` (`src/failure_inject/scenarios.py:53`)
announces failures in "three pipeline steps in sequence". All three calls are
attempts of the first step, which they exhaust; the demo's own text says so
(`demos/scenario_6_cascading.py:3-7`), and `PlanDecides` makes it so.

Calling `run_pipeline` on a completed pipeline appends another
`PipelineCompleted`; no document forbids it, so `CompletedIsFinal` allows it.

## 6. Plan

In this order; the most important behaviour came first.

1. *Done.* `Pipeline`, `DurableProgress`, `StateStore`, `AtomicCheckpoint` and
   the proofs above.
2. *Done.* `Agent`: the watchdog and the failover client, with late workers, the
   composition with `Pipeline`, and its refinement proved.
3. *Done.* `InjectedRun` and `Answers`: the injecting clients of demos and chaos
   pipelines, which attempt a planned failure hits when timed-out calls are still
   under way, and which answers get past the parsers and the self tests.
4. *Done.* `ChaosExperiment`: the harness above them.
5. *Done.* Event lines under power failure, in `StateStore`.
6. *Done.* `ChaosProofs` and `StoreProofs`.
7. *Done.* Proofs of the properties that count lines of the log, and of those of a
   run with an injecting client.
8. The action-by-action facts from which the liveness properties follow, as far as
   they can be stated without `ENABLED`: after `EffectsRunOut`, the same measure for
   the jobs of the harness.

## 7. Not modelled

- The Cedar policies and the gateway's guardrail configurations: stateless rules
  that an external service enforces.
- The regular expressions of the guardrail, and which texts they match; `Poisoned`
  stands for the values that trip them.
- What the demos and the harness print, the result files, the command line's
  arguments, and the diagnostic script.
- `list_pipelines` and `reset`, which nothing in the program calls, and
  `model_override`, which `run_pipeline` never passes.
- Two harness processes on one root.
