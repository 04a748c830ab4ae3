--------------------------- MODULE InjectedProofs ---------------------------
(***************************************************************************)
(* Theorems about InjectedRun, for every retry budget, every scenario in   *)
(* its set and every profile.                                              *)
(***************************************************************************)
EXTENDS InjectedRun, AgentProofs

WrapRecord == [index : Nat, fate : Fates, at : {"new", "asleep", "awake"}]

IsNew(c) == wraps[c].at = "new"

\* The one run is over.
Stopped == pc = "down" /\ runs = MaxRuns

\* Only the call started last can be without a number; the main thread waits
\* for that call, or the process has died.  So nothing overtakes a call on its
\* way to the counter.
CountInv ==
  /\ scenario \in Scenarios
  /\ wraps \in Seq(WrapRecord) /\ Len(wraps) = Len(calls)
  /\ \A c \in DOMAIN wraps : wraps[c].index <= Len(calls)
  /\ pc # "down" => runs = MaxRuns
  /\ \A c \in DOMAIN wraps : IsNew(c) =>
       /\ c = Len(calls) /\ count = Len(calls) - 1
       /\ calls[c].status \in {"calling", "dead"}
       /\ waiting = c \/ Stopped
  /\ (\A c \in DOMAIN wraps : ~IsNew(c)) => count = Len(calls)

-----------------------------------------------------------------------------
(* What a client does to a call is something a gateway could do. *)

\* Each prompt is taken for that of some step, or for none.
LEMMA AskedTypes ==
  ASSUME NEW step \in StepNames
  PROVE  Asked[step] \in {"voice", "keyword", "outline", "draft", "optimize", "none"}
<1> DEFINE hits == {i \in DOMAIN Tests :
                      \E all \in Tests[i].on : all \subseteq PromptMarkers[step]}
           first == CHOOSE i \in hits : \A j \in hits : i <= j
<1>1. Asked[step] = IF hits = {} THEN "none" ELSE Tests[first].step
  BY MockAnswers DEF Asked
<1>2. DOMAIN Tests = 1..5
  BY DEF Tests
<1>3. hits # {} => first \in 1..5
  <2>1. hits \subseteq 1..5
    BY <1>2
  <2> HIDE DEF hits
  <2>2. \A i \in hits : i = 1 \/ i = 2 \/ i = 3 \/ i = 4 \/ i = 5
    BY <2>1
  <2>3. hits # {} => \E i \in hits : \A j \in hits : i <= j
    <3>1. CASE 1 \in hits
      BY <2>2, <3>1
    <3>2. CASE 1 \notin hits /\ 2 \in hits
      BY <2>2, <3>2
    <3>3. CASE 1 \notin hits /\ 2 \notin hits /\ 3 \in hits
      BY <2>2, <3>3
    <3>4. CASE 1 \notin hits /\ 2 \notin hits /\ 3 \notin hits
      BY <2>2, <3>4
    <3> QED
      BY <3>1, <3>2, <3>3, <3>4
  <2> QED
    BY <2>1, <2>3
<1>4. \A i \in 1..5 :
        Tests[i].step \in {"voice", "keyword", "outline", "draft", "optimize"}
  <2>1. /\ Tests[1].step = "optimize" /\ Tests[2].step = "outline"
        /\ Tests[3].step = "draft" /\ Tests[4].step = "keyword"
        /\ Tests[5].step = "voice"
    BY DEF Tests
  <2>2. \A i \in 1..5 : i = 1 \/ i = 2 \/ i = 3 \/ i = 4 \/ i = 5
    OBVIOUS
  <2> QED
    BY <2>1, <2>2
<1> HIDE DEF first
<1> QED
  BY <1>1, <1>3, <1>4

\* Every answer of a client is one a model could give.
LEMMA ResponseTypes ==
  ASSUME CallsSound, NEW c \in DOMAIN calls
  PROVE  Response(c) \in Payloads
<1>1. Asked[calls[c].step] \in
        {"voice", "keyword", "outline", "draft", "optimize", "none"}
  BY AskedTypes, CallFacts DEF CallRecord
<1>2. DOMAIN Raw =
        {"voice_answer", "keyword_answer", "outline_answer", "draft_answer",
         "optimize_answer", "hollow_voice", "hollow_keyword", "hollow_outline",
         "hollow_draft", "hollow_optimize", "braces", "garbage"}
  BY DEF Raw
<1> QED
  BY <1>1, <1>2, MockAnswers DEF Response, NormalResponse, HallucinatedResponse

LEMMA InjectedStep ==
  ASSUME CallsSound, [InjectedNext]_injectedVars
  PROVE  [AgentNext]_agentVars
<1>1. CASE InjectedSubmit
  BY <1>1 DEF InjectedSubmit, AgentNext, Main
<1>2. CASE InjectedResult
  BY <1>2 DEF InjectedResult, AgentNext, Main
<1>3. CASE InjectedRest
  BY <1>3 DEF InjectedRest, AgentNext, Main
<1>4. CASE Client
  <2> PICK c \in DOMAIN calls : Enter(c) \/ Wake(c) \/ Return(c)
    BY <1>4 DEF Client
  <2>1. CASE Enter(c) \/ Wake(c)
    BY <2>1 DEF Enter, Wake
  <2>2. CASE Return(c)
    <3>1. CASE wraps[c].fate \in Raising
      <4>1. ScenarioToExc[wraps[c].fate] \in ModelErrors
        BY <3>1, InjectedErrors
      <4> QED
        BY <2>2, <3>1, <4>1 DEF Return, AgentNext, Worker
    <3>2. CASE wraps[c].fate \notin Raising
      BY <2>2, <3>2, ResponseTypes DEF Return, AgentNext, Worker
    <3> QED
      BY <3>1, <3>2
  <2> QED
    BY <2>1, <2>2
<1>5. CASE UNCHANGED injectedVars
  BY <1>5 DEF injectedVars, agentVars
<1> QED
  BY <1>1, <1>2, <1>3, <1>4, <1>5 DEF InjectedNext

\* Whatever the scenario, a run with an injecting client is a run of the agent:
\* all that is proved of the agent holds for the demos and the chaos harness.
THEOREM InjectedImplementsAgent == InjectedSpec => AgentSpec
<1>1. InjectedInit => AgentInit /\ TypeInv /\ AgentInv
  BY AgentInvInit, TypeInvInit DEF InjectedInit, AgentInit
<1>2. AgentInv /\ [InjectedNext]_injectedVars => [AgentNext]_agentVars
  BY InjectedStep DEF AgentInv
<1>3. TypeInv /\ AgentInv /\ [AgentNext]_agentVars => TypeInv' /\ AgentInv'
  BY AgentInvStep
<1> QED
  BY <1>1, <1>2, <1>3, PTL DEF InjectedSpec, AgentSpec

\* In particular the main thread does what Pipeline allows.
THEOREM InjectedImplementsPipeline == InjectedSpec => Spec
BY InjectedImplementsAgent, AgentImplementsPipeline, PTL DEF ImplementsPipeline

-----------------------------------------------------------------------------
(* The counter *)

\* There is one run: it starts once and, when it is over, nothing follows.
LEMMA OneRunStep ==
  ASSUME TypeInv, [Next]_vars, pc # "down" => runs = MaxRuns
  PROVE  (pc' # "down" => runs' = MaxRuns) /\ (Stopped => Stopped')
<1>1. runs \in 0..1 /\ MaxRuns = 1
  BY OneRun DEF TypeInv, TypeOK
<1>2. CASE Run
  BY <1>2 DEF Run, LogPipelineStarted, StartAttempt, Complete, GuardrailBlocks, SaveBlocked,
     AttemptFails, LogFallback, Retry, GiveUp, AttemptSucceeds, SaveCheckpoint, SaveRaises,
     LogCheckpointWritten, Stopped
<1>3. CASE Call
  BY <1>1, <1>3 DEF Call, Resume, StartFresh, StartFreshRaises, BeginRun, Stopped
<1>4. CASE Crash
  BY <1>4 DEF Crash, Stopped
<1>5. CASE UNCHANGED vars
  BY <1>5 DEF vars, Stopped
<1> QED
  BY <1>2, <1>3, <1>4, <1>5 DEF Next

\* A step that leaves the client alone keeps the count right if the call that
\* has no number yet stays as it is.
LEMMA SameWraps ==
  ASSUME CountInv, Len(calls') = Len(calls), UNCHANGED <<scenario, count, wraps>>,
         pc' # "down" => runs' = MaxRuns,
         \A c \in DOMAIN wraps : IsNew(c) =>
           calls'[c].status \in {"calling", "dead"} /\ (waiting' = c \/ Stopped')
  PROVE  CountInv'
BY DEF CountInv, IsNew

\* While the main thread waits for no call, or for one that has its number,
\* every call has its number.
LEMMA AllCounted ==
  ASSUME CountInv, pc # "down", waiting \in DOMAIN wraps => ~IsNew(waiting)
  PROVE  \A c \in DOMAIN wraps : ~IsNew(c)
BY DEF CountInv, Stopped

LEMMA CountSubmit ==
  ASSUME TypeInv, CallsSound, CountInv, InjectedSubmit
  PROVE  CountInv'
<1>1. /\ CallsSound' /\ Len(calls') = Len(calls) + 1 /\ waiting' = Len(calls')
      /\ \A c \in DOMAIN calls : c \in DOMAIN calls' /\ calls'[c] = calls[c]
  BY SubmitFacts DEF InjectedSubmit
<1>2. /\ pc = "call" /\ waiting = 0 /\ wraps' = Append(wraps, NewWrap)
      /\ UNCHANGED <<vars, scenario, count>>
  BY DEF InjectedSubmit, Submit
<1>3. NewWrap \in WrapRecord /\ NewWrap.at = "new" /\ NewWrap.index = 0
  BY DEF NewWrap, WrapRecord, Fates
<1>4. wraps \in Seq(WrapRecord) /\ Len(wraps) = Len(calls) /\ Len(calls) \in Nat
  BY DEF CountInv, CallsSound
<1>5. \A c \in DOMAIN wraps : ~IsNew(c)
  <2>1. 0 \notin DOMAIN wraps
    BY <1>4
  <2> QED
    BY <1>2, <2>1, AllCounted
<1>6. /\ wraps' \in Seq(WrapRecord) /\ Len(wraps') = Len(wraps) + 1
      /\ wraps'[Len(wraps')] = NewWrap
      /\ \A c \in DOMAIN wraps' :
           c = Len(wraps') \/ (c \in DOMAIN wraps /\ wraps'[c] = wraps[c])
  BY <1>2, <1>3, <1>4
<1>7. calls'[Len(calls')].status = "calling"
  BY <1>4 DEF InjectedSubmit, Submit, CallsSound
<1>8. count = Len(calls) /\ (\A c \in DOMAIN wraps : wraps[c].index <= Len(calls))
  BY <1>5 DEF CountInv
<1>9. \A c \in DOMAIN wraps' : wraps'[c].at = "new" => c = Len(calls')
  BY <1>1, <1>4, <1>5, <1>6 DEF IsNew
<1>10. \A c \in DOMAIN wraps' : wraps'[c].index <= Len(calls')
  <2>1. \A c \in DOMAIN wraps : wraps[c].index \in Nat
    <3>1. \A c \in DOMAIN wraps : wraps[c] \in WrapRecord
      BY <1>4
    <3> QED
      BY <3>1 DEF WrapRecord
  <2> QED
    BY <1>1, <1>3, <1>4, <1>6, <1>8, <2>1
<1>11. Len(wraps') \in DOMAIN wraps' /\ wraps'[Len(wraps')].at = "new"
  BY <1>3, <1>4, <1>6
<1>12. scenario' \in Scenarios' /\ (pc' # "down" => runs' = MaxRuns)
  BY <1>2 DEF CountInv, vars
<1> QED
  <2>1. \A c \in DOMAIN wraps' : wraps'[c].at = "new" =>
          /\ c = Len(calls') /\ count' = Len(calls') - 1
          /\ calls'[c].status = "calling" /\ waiting' = c
    BY <1>1, <1>2, <1>4, <1>7, <1>8, <1>9
  <2> QED
    BY <1>1, <1>4, <1>6, <1>10, <1>11, <1>12, <2>1 DEF CountInv, IsNew

LEMMA CountMain ==
  ASSUME TypeInv, AgentInv, CountInv, InjectedResult \/ InjectedRest
  PROVE  CountInv'
<1>1. UNCHANGED <<scenario, count, wraps>>
  BY DEF InjectedResult, InjectedRest
<1>2. (pc' # "down" => runs' = MaxRuns) /\ (Stopped => Stopped')
  <2>1. [AgentNext]_agentVars
    BY InjectedStep DEF InjectedNext, AgentInv
  <2> QED
    BY <2>1, AgentStep, OneRunStep DEF CountInv
<1>3. CASE InjectedResult
  <2>1. pc = "call" /\ calls' = calls /\ waiting # 0
    BY <1>3 DEF InjectedResult, TakeAnswer, RejectAnswer, Reraise, TimesOut,
       AttemptSucceeds, AttemptFails
  <2>2. waiting \in DOMAIN wraps => ~IsNew(waiting)
    BY <1>3 DEF InjectedResult, TakeAnswer, RejectAnswer, Reraise, IsNew, CountInv
  <2>3. \A c \in DOMAIN wraps : ~IsNew(c)
    BY <2>1, <2>2, AllCounted
  <2> QED
    BY <1>1, <1>2, <2>1, <2>3, SameWraps
<1>4. CASE Orchestrate \/ Start
  <2>1. UNCHANGED <<calls, waiting>>
    BY <1>4 DEF Orchestrate, Start
  <2>2. \A c \in DOMAIN wraps : IsNew(c) =>
          calls[c].status \in {"calling", "dead"} /\ (waiting = c \/ Stopped)
    BY DEF CountInv
  <2> QED
    BY <1>1, <1>2, <2>1, <2>2, SameWraps
<1>5. CASE Die
  <2>1. Stopped'
    BY <1>5 DEF Die, Crash, Stop, CountInv, Stopped
  <2>2. Len(calls') = Len(calls)
    BY <1>5, DieFacts DEF AgentInv
  <2>3. \A c \in DOMAIN calls :
          calls'[c].status = calls[c].status \/ calls'[c].status = "dead"
    <3> DEFINE dead(c) == [calls[c] EXCEPT !.status = "dead"]
    <3>1. \A c \in DOMAIN calls : calls'[c] = dead(c) \/ calls'[c] = calls[c]
      BY <1>5 DEF Die
    <3>2. ASSUME NEW c \in DOMAIN calls PROVE dead(c).status = "dead"
      BY CallFacts DEF CallRecord, AgentInv
    <3> QED
      BY <3>1, <3>2
  <2>4. DOMAIN wraps = DOMAIN calls
    BY DEF CountInv, AgentInv, CallsSound
  <2>5. \A c \in DOMAIN wraps : IsNew(c) => calls[c].status \in {"calling", "dead"}
    BY DEF CountInv
  <2> QED
    BY <1>1, <1>2, <2>1, <2>2, <2>3, <2>4, <2>5, SameWraps
<1> QED
  BY <1>3, <1>4, <1>5 DEF InjectedRest

\* Every scenario plans fates that exist.
LEMMA FatesAreFates ==
  ASSUME scenario \in Scenarios, NEW index, NEW fate \in FatesOf(index)
  PROVE  fate \in Fates
<1>1. Fates = {"rate_limit", "outage", "timeout", "tool_failure", "slow", "hang",
               "corrupt", "hallucinate", "none"}
  BY DEF Fates, Raising, ScenarioToExc, Sleeping, Spoiling
<1>2. scenario.later \subseteq Fates
  <2>1. CASE scenario \in FailureScenarios \cup MockScenarios
    <3>1. \E client, fates : scenario = Planned(client, fates)
      BY <2>1 DEF FailureScenarios, MockScenarios, HallucinationScenario, ZombieScenario
    <3>2. scenario.later = {"none"}
      BY <3>1 DEF Planned
    <3> QED
      BY <1>1, <3>2
  <2>2. ASSUME NEW profile \in Profiles, scenario = ChaosScenario(profile)
        PROVE  scenario.later \subseteq Fates
    <3>1. scenario.later = profile \cup {"none"}
      BY <2>2 DEF ChaosScenario
    <3>2. profile \subseteq Fates
      <4>1. PICK whole \in ChaosProfiles : profile \subseteq whole
        BY ProfileAssumption
      <4> QED
        BY <1>1, <4>1 DEF ChaosProfiles
    <3> QED
      BY <1>1, <3>1, <3>2
  <2> QED
    BY <2>1, <2>2 DEF Scenarios
<1>3. \A i \in DOMAIN scenario.first : scenario.first[i] \in Fates
  <2>1. CASE scenario \in FailureScenarios
    BY <1>1, <2>1 DEF FailureScenarios, Planned
  <2>2. CASE scenario \in MockScenarios
    BY <1>1, <2>2 DEF MockScenarios, HallucinationScenario, ZombieScenario, Planned
  <2>3. CASE \E profile \in Profiles : scenario = ChaosScenario(profile)
    BY <2>3 DEF ChaosScenario
  <2> QED
    BY <2>1, <2>2, <2>3 DEF Scenarios
<1> QED
  BY <1>2, <1>3 DEF FatesOf

\* A call that is given its number makes the count right again.
LEMMA CountEnter ==
  ASSUME CallsSound, CountInv, NEW c \in DOMAIN calls, Enter(c)
  PROVE  CountInv'
<1>1. PICK fate \in FatesOf(count + 1) :
        wraps' = [wraps EXCEPT ![c] =
                    [index |-> count + 1, fate |-> fate,
                     at |-> IF fate \in Sleeping THEN "asleep" ELSE "awake"]]
  BY DEF Enter
<1> DEFINE new == [index |-> count + 1, fate |-> fate,
                   at |-> IF fate \in Sleeping THEN "asleep" ELSE "awake"]
<1>2. /\ wraps \in Seq(WrapRecord) /\ DOMAIN wraps = DOMAIN calls
      /\ Len(wraps) = Len(calls) /\ Len(calls) \in Nat /\ c \in 1..Len(calls)
  BY DEF CountInv, CallsSound
<1>3. c = Len(calls) /\ count = Len(calls) - 1
  BY <1>2 DEF Enter, CountInv, IsNew
<1>4. new \in WrapRecord /\ new.index = Len(calls) /\ new.at # "new"
  <2>1. fate \in Fates
    BY <1>1, FatesAreFates DEF CountInv
  <2> QED
    BY <1>2, <1>3, <2>1 DEF WrapRecord
<1>5. wraps' = [wraps EXCEPT ![c] = new]
  BY <1>1
<1> HIDE DEF new
<1>6. /\ wraps' \in Seq(WrapRecord) /\ Len(wraps') = Len(wraps)
      /\ DOMAIN wraps' = DOMAIN wraps /\ wraps'[c] = new
      /\ \A d \in DOMAIN wraps : d # c => wraps'[d] = wraps[d]
  BY <1>2, <1>4, <1>5
<1>7. /\ count' = Len(calls)
      /\ UNCHANGED <<calls, pc, runs, scenario>>
  BY <1>2, <1>3 DEF Enter, agentVars
<1>8. \A d \in DOMAIN wraps' : wraps'[d].at # "new"
  BY <1>3, <1>4, <1>6 DEF CountInv, IsNew
<1>9. \A d \in DOMAIN wraps' : wraps'[d].index <= Len(calls')
  BY <1>2, <1>4, <1>6, <1>7 DEF CountInv
<1> QED
  BY <1>2, <1>6, <1>7, <1>8, <1>9 DEF CountInv, IsNew

LEMMA CountWake ==
  ASSUME CallsSound, CountInv, NEW c \in DOMAIN calls, Wake(c)
  PROVE  CountInv'
<1> DEFINE new == [wraps[c] EXCEPT !.at = "awake"]
<1>1. /\ wraps \in Seq(WrapRecord) /\ DOMAIN wraps = DOMAIN calls
      /\ Len(wraps) = Len(calls) /\ wraps[c] \in WrapRecord /\ ~IsNew(c)
  BY DEF CountInv, CallsSound, Wake, IsNew
<1>2. new \in WrapRecord /\ new.index = wraps[c].index /\ new.at = "awake"
  BY <1>1 DEF WrapRecord
<1>3. wraps' = [wraps EXCEPT ![c] = new]
  BY Zenon DEF Wake
<1> HIDE DEF new
<1>4. /\ wraps' \in Seq(WrapRecord) /\ Len(wraps') = Len(wraps)
      /\ DOMAIN wraps' = DOMAIN wraps
      /\ \A d \in DOMAIN wraps :
           /\ wraps'[d].index = wraps[d].index
           /\ wraps'[d].at = "new" <=> wraps[d].at = "new"
  BY <1>1, <1>2, <1>3 DEF IsNew
<1>5. UNCHANGED <<calls, waiting, pc, runs, scenario, count>>
  BY DEF Wake, agentVars
<1> QED
  BY <1>4, <1>5 DEF CountInv, IsNew, Stopped

\* A call returns only with its number.
LEMMA CountReturn ==
  ASSUME AgentInv, CountInv, NEW c \in DOMAIN calls, Return(c)
  PROVE  CountInv'
<1>1. /\ UNCHANGED <<scenario, count, wraps, pc, runs, waiting>>
      /\ \E status, result : Finish(c, status, result)
  BY DEF Return, ModelFails, ModelAnswers, vars
<1>2. /\ Len(calls') = Len(calls) /\ ~IsNew(c)
      /\ \A d \in DOMAIN calls : d # c => calls'[d] = calls[d]
  BY <1>1 DEF Finish, Return, IsNew, AgentInv, CallsSound
<1>3. DOMAIN wraps = DOMAIN calls
  BY DEF CountInv, AgentInv, CallsSound
<1> QED
  BY <1>1, <1>2, <1>3, SameWraps DEF CountInv, Stopped

LEMMA CountInvStep ==
  ASSUME TypeInv, AgentInv, CountInv, [InjectedNext]_injectedVars
  PROVE  CountInv'
<1>1. CASE InjectedSubmit
  BY <1>1, CountSubmit DEF AgentInv
<1>2. CASE InjectedResult \/ InjectedRest
  BY <1>2, CountMain
<1>3. CASE Client
  BY <1>3, CountEnter, CountWake, CountReturn DEF Client, AgentInv
<1>4. CASE UNCHANGED injectedVars
  BY <1>4 DEF injectedVars, CountInv, IsNew, Stopped
<1> QED
  BY <1>1, <1>2, <1>3, <1>4 DEF InjectedNext

\* The number of a call, which decides its fate, never runs ahead of the calls
\* that were started.
THEOREM InjectedTypesHold == InjectedSpec => []InjectedTypeOK
<1>1. InjectedInit => CountInv
  BY DEF InjectedInit, AgentInit, Init, CountInv
<1>2. TypeInv /\ AgentInv /\ CountInv /\ [InjectedNext]_injectedVars => CountInv'
  BY CountInvStep
<1>3. AgentInv /\ CountInv => InjectedTypeOK
  <2> SUFFICES ASSUME AgentInv, CountInv
               PROVE  InjectedTypeOK
    OBVIOUS
  <2>1. /\ Len(wraps) = Len(calls) /\ Len(calls) \in Nat
        /\ DOMAIN wraps = 1..Len(calls)
        /\ \A c \in DOMAIN wraps : wraps[c] \in WrapRecord
    BY DEF AgentInv, CallsSound, CountInv
  <2>2. count \in 0..Len(calls)
    BY <2>1 DEF CountInv
  <2>3. \A c \in DOMAIN wraps :
          wraps[c] \in [index : 0..Len(calls), fate : Fates, at : {"new", "asleep", "awake"}]
    BY <2>1 DEF CountInv, WrapRecord
  <2> QED
    BY <2>1, <2>2, <2>3 DEF InjectedTypeOK, CountInv
<1> QED
  BY <1>1, <1>2, <1>3, InjectedImplementsAgent, AgentCorrect, PTL DEF InjectedSpec

=============================================================================
