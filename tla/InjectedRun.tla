----------------------------- MODULE InjectedRun -----------------------------
(***************************************************************************)
(* Agent with the clients of the demos and of the chaos harness in place   *)
(* of the gateway: the mock client, alone or behind a FailureInjector or a *)
(* RandomFailureClient.  Each numbers its calls and lets the number, or a  *)
(* random draw, decide what happens to a call.  The counter is shared by   *)
(* the worker of the current attempt and by those that were given up.      *)
(*                                                                         *)
(* There is no failover: a bare client is a chain of one with no triggers. *)
(* Nor is there a second run: each demo, and each pipeline of the harness, *)
(* calls run_pipeline once, with a client and a store of its own.          *)
(***************************************************************************)
EXTENDS Agent, Answers

CONSTANTS
  Profiles,  \* the failure profiles of the pipelines
  MaxSleeps  \* bound: how many calls of a pipeline sleep

\* SCENARIO_TO_EXC
ScenarioToExc ==
  [rate_limit |-> "InjectedRateLimit", outage |-> "InjectedOutage",
   timeout |-> "InjectedTimeout", tool_failure |-> "InjectedToolFailure"]

\* What the client may do to a call: raise, sleep before the answer, spoil it.
Raising == DOMAIN ScenarioToExc
Sleeping == {"slow", "hang"}
Spoiling == {"corrupt", "hallucinate"}
Fates == Raising \cup Sleeping \cup Spoiling \cup {"none"}

\* The fates that the profile of each experiment of the harness gives a
\* probability.
ChaosProfiles ==
  {{"rate_limit"}, {"outage"}, {"rate_limit", "outage", "tool_failure", "corrupt"},
   {}, {"hang"},
   {"rate_limit", "outage", "slow", "tool_failure", "corrupt", "hallucinate", "hang"}}

ASSUME ProfileAssumption ==
  \A profile \in Profiles : \E whole \in ChaosProfiles : profile \subseteq whole

\* The scenarios that are planned have one sleep at the most.
ASSUME SleepsAssumption == MaxSleeps \in Nat \ {0}

ASSUME NoFailover == Len(ModelChain) = 1 /\ Triggers = {}

ASSUME OneRun == MaxRuns = 1

ASSUME InjectedErrors ==
  /\ \A fate \in Raising : ScenarioToExc[fate] \in ModelErrors \cap Injected
  /\ {"ValueError", "SelfTestFailed"} \subseteq CheckErrors
  /\ "ok" \notin CheckErrors  \* a verdict, not an exception

ASSUME MockAnswers == Payloads = DOMAIN Raw /\ StepNames \subseteq DOMAIN PromptMarkers

\* The topics and the answers are literals of the source.
ASSUME PlainTexts == Unstorable = {}

ASSUME FirstPromptHasTopic == N > 0 /\ "topic" \in PromptInputs[PIPELINE_STEPS[1]]

\* A scenario is the fate of its first calls, and what the later ones may meet.
Planned(client, fates) == [client |-> client, first |-> fates, later |-> {"none"}]

FailureScenarios ==
  {Planned("injector", <<"rate_limit", "rate_limit">>),
   Planned("injector", <<"outage", "outage", "outage">>),
   Planned("injector", <<"slow">>),
   Planned("injector", <<"tool_failure">>),
   Planned("injector", <<"corrupt">>),
   Planned("injector", <<"outage", "rate_limit", "timeout">>)}

\* Demos 7 and 9.
HallucinationScenario == Planned("mock", <<"none", "hallucinate">>)
ZombieScenario == Planned("mock", <<"hang">>)

MockScenarios == {HallucinationScenario, ZombieScenario}

\* The dice of RandomFailureClient: any call may meet what the profile allows.
ChaosScenario(profile) ==
  [client |-> "chaos", first |-> <<>>, later |-> profile \cup {"none"}]

Scenarios ==
  FailureScenarios \cup MockScenarios \cup {ChaosScenario(profile) : profile \in Profiles}

VARIABLES
  scenario,  \* what the client of this pipeline is told to do
  count,     \* call_count, or the length of call_log
  wraps      \* the passage of each call through the client

injectedVars == <<state, disk, log, pc, attempt, outcome, runs, faults,
                  calls, waiting, lines, scenario, count, wraps>>

FatesOf(index) ==
  IF index \in DOMAIN scenario.first THEN {scenario.first[index]} ELSE scenario.later

MaySleep == Cardinality({c \in DOMAIN wraps : wraps[c].fate \in Sleeping}) < MaxSleeps

NewWrap == [index |-> 0, fate |-> "none", at |-> "new"]

\* What the client makes of the answer of the mock client.
Response(c) ==
  LET asked == Asked[calls[c].step]
  IN  CASE wraps[c].fate = "corrupt" -> "garbage"
        [] wraps[c].fate = "hallucinate" /\ scenario.client = "chaos" -> "braces"
        [] wraps[c].fate = "hallucinate" /\ scenario.client = "mock" ->
             HallucinatedResponse[asked]
        [] OTHER -> NormalResponse[asked]

-----------------------------------------------------------------------------
(***************************************************************************)
(* A call in its worker thread.                                            *)
(***************************************************************************)

\* Slip: a call that sleeps is counted when it wakes up, that is, too late.
SlipEnter(c) ==
  LET index == count + 1 IN
  /\ calls[c].status = "calling" /\ wraps[c].at = "new"
  /\ \E fate \in FatesOf(index) :
       /\ fate \in Sleeping => MaySleep
       /\ wraps' = [wraps EXCEPT ![c] =
                      [index |-> index, fate |-> fate,
                       at |-> IF fate \in Sleeping THEN "asleep" ELSE "awake"]]
       /\ count' = IF fate \in Sleeping THEN count ELSE index
  /\ UNCHANGED <<agentVars, scenario>>

\* Slip: the client is wrapped twice with the same injector.
SlipEnterTwice(c) ==
  LET index == count + 2 IN
  /\ calls[c].status = "calling" /\ wraps[c].at = "new"
  /\ count' = index
  /\ \E fate \in FatesOf(index) :
       /\ fate \in Sleeping => MaySleep
       /\ wraps' = [wraps EXCEPT ![c] =
                      [index |-> index, fate |-> fate,
                       at |-> IF fate \in Sleeping THEN "asleep" ELSE "awake"]]
  /\ UNCHANGED <<agentVars, scenario>>

\* The call gets its number, and with it its fate.
Enter(c) ==
  LET index == count + 1 IN
  /\ calls[c].status = "calling" /\ wraps[c].at = "new"
  /\ count' = index
  /\ \E fate \in FatesOf(index) :
       /\ fate \in Sleeping => MaySleep
       /\ wraps' = [wraps EXCEPT ![c] =
                      [index |-> index, fate |-> fate,
                       at |-> IF fate \in Sleeping THEN "asleep" ELSE "awake"]]
  /\ UNCHANGED <<agentVars, scenario>>

Wake(c) ==
  /\ calls[c].status = "calling" /\ wraps[c].at = "asleep"
  /\ wraps' = [wraps EXCEPT ![c] = [@ EXCEPT !.at = "awake"]]
  /\ UNCHANGED <<agentVars, scenario, count>>

Return(c) ==
  /\ wraps[c].at = "awake"
  /\ IF wraps[c].fate \in Raising
     THEN ModelFails(c, ScenarioToExc[wraps[c].fate])
     ELSE ModelAnswers(c, Response(c))
  /\ UNCHANGED <<scenario, count, wraps>>

-----------------------------------------------------------------------------
(***************************************************************************)
(* The main thread.  Nothing but a sleep takes long enough for the         *)
(* watchdog, whose shortest limit is half a second.                        *)
(***************************************************************************)
InjectedSubmit ==
  /\ Submit
  /\ wraps' = Append(wraps, NewWrap)
  /\ UNCHANGED <<scenario, count>>

Judgement == Verdict[Step(state)][calls[waiting].result]

LastError(s) == s.failed_attempts[Len(s.failed_attempts)].error

InjectedResult ==
  /\ \/ TakeAnswer /\ Judgement = "ok"
     \/ RejectAnswer /\ Judgement = LastError(state')
     \/ Reraise
     \/ TimesOut /\ wraps[waiting].at = "asleep"
  /\ UNCHANGED <<scenario, count, wraps>>

InjectedRest ==
  /\ Orchestrate \/ Start \/ Die
  /\ UNCHANGED <<scenario, count, wraps>>

-----------------------------------------------------------------------------
InjectedInit ==
  /\ AgentInit
  /\ scenario \in Scenarios
  /\ count = 0
  /\ wraps = <<>>

Client == \E c \in DOMAIN calls : Enter(c) \/ Wake(c) \/ Return(c)

InjectedNext == InjectedSubmit \/ InjectedResult \/ InjectedRest \/ Client

InjectedSpec == InjectedInit /\ [][InjectedNext]_injectedVars

(***************************************************************************)
(* The main thread is scheduled, and so are its workers: every sleep ends. *)
(***************************************************************************)
Continue ==
  \/ InjectedSubmit \/ InjectedResult
  \/ Orchestrate /\ UNCHANGED <<scenario, count, wraps>>

InjectedFairSpec ==
  InjectedSpec /\ WF_injectedVars(Continue) /\ WF_injectedVars(Client)

-----------------------------------------------------------------------------
(* Properties *)

\* The client has counted no more calls than were started.
InjectedTypeOK ==
  /\ scenario \in Scenarios
  /\ count \in 0..Len(calls)
  /\ Len(wraps) = Len(calls)
  /\ \A c \in DOMAIN wraps :
       wraps[c] \in [index : 0..Len(calls), fate : Fates, at : {"new", "asleep", "awake"}]

\* How many attempts have been announced, up to a line of the log.
Nth(i) == Cardinality({j \in Logged("StepStarted") : j <= i})

\* "scenario N always fails at the same call, every time" (injector.py): the
\* n-th attempt ends as the plan has it for call n, although calls that were
\* given up still sleep, wake and return.
PlanDecides ==
  \A i \in Logged("StepStarted") :
    i < Len(log) =>
      /\ log[i + 1].type = "StepSucceeded" =>
           FatesOf(Nth(i)) \cap (Sleeping \cup {"none"}) # {}
      /\ log[i + 1].type = "StepFailed" => FatesOf(Nth(i)) # {"none"}

\* Some call of any MaxRetries + 1 in a row is left alone.
Absorbable ==
  \A i \in 1..(Len(scenario.first) + 1) :
    \E j \in i..(i + MaxRetries) : FatesOf(j) = {"none"}

\* A scenario that the retry budget can absorb completes, in any order of
\* sleeps and time-outs, unless the process is killed or the topic is poisoned.
ScenarioRecovers ==
  Absorbable /\ pc # "down" /\ state.topic \notin Poisoned
    ~> outcome \in {"completed", "killed"}

\* Each completed step holds the mock client's full answer to its own prompt: no
\* spoiled answer and no answer to the prompt of another step gets past
\* parse_output and the postconditions, in whatever order workers return.
OutputsAreProper ==
  disk # NoCheckpoint =>
    \A i \in 1..disk.current_step :
      disk.outputs[PIPELINE_STEPS[i]] = NormalResponse[PIPELINE_STEPS[i]]

\* "all poisoned pipelines abort BEFORE any model call" (chaos/injectors.py), and
\* they leave a checkpoint that says why.
PoisonedAborts ==
  outcome \notin {"none", "running", "killed"} /\ disk.topic \in Poisoned =>
    /\ outcome = "blocked" /\ calls = <<>>
    /\ disk.current_step = 0
    /\ disk.failed_attempts =
         <<[step |-> PIPELINE_STEPS[1], error |-> "GuardrailBlocked"]>>

\* What _run_one_pipeline reports when run_pipeline has returned or raised.
Injections(fates) == {c \in DOMAIN wraps : wraps[c].at # "new" /\ wraps[c].fate \in fates}

Report ==
  [status |-> CASE outcome = "completed" -> "completed"
                [] outcome \in {"exhausted", "blocked"} -> "aborted"
                [] OTHER -> "crashed",
   completed_steps |-> IF disk = NoCheckpoint THEN <<>> ELSE disk.completed_steps,
   failed_attempts |-> IF disk = NoCheckpoint THEN 0 ELSE Len(disk.failed_attempts),
   injections |-> Cardinality(Injections(Fates \ {"none"})),
   state_file_valid |-> disk # NoCheckpoint]

\* The record of a pipeline agrees with what its client did to it: it never
\* counts as crashed or without a state; the failures reloaded from the
\* checkpoint are the logged ones less those of the step that was given up; and
\* if it completed, each call that raised or spoiled its answer is one of them,
\* and each of them is a call the client did something to.
ReportsAddUp ==
  outcome \notin {"none", "running", "killed"} =>
    LET lost == IF outcome = "exhausted" THEN MaxRetries + 1 ELSE 0
    IN  /\ Report.status # "crashed" /\ Report.state_file_valid
        /\ Report.failed_attempts + lost
             = Cardinality(Logged("StepFailed") \cup Logged("GuardrailTriggered"))
        /\ Report.status = "completed" =>
             /\ Len(Report.completed_steps) = N
             /\ Cardinality(Injections(Raising \cup Spoiling)) <= Report.failed_attempts
             /\ Report.failed_attempts <= Report.injections

=============================================================================
