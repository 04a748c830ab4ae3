--------------------------- MODULE ChaosExperiment ---------------------------
(***************************************************************************)
(* The chaos harness: `python -m chaos run-all` takes one experiment after *)
(* the other.  Each runs its pipelines in a pool of threads on directories *)
(* below one root, which it clears first; collects a record of each as it  *)
(* ends; aggregates the records; and holds the metrics against a           *)
(* hypothesis.  All experiments have one seed, so they share the root and  *)
(* the names of the pipelines in it.                                       *)
(*                                                                         *)
(* A pipeline is known by the step it is at.  What happens inside a step,  *)
(* with its retries, is module InjectedRun; here it is a call that is      *)
(* answered or given up.  The harness may be killed, and called again.     *)
(***************************************************************************)
EXTENDS Integers, Sequences, FiniteSets

CONSTANTS
  Experiments,   \* the files of EXPERIMENTS_DIR, sorted; each has one method
  n_pipelines,   \* how many pipelines an experiment runs
  concurrency,   \* max_workers of the pool
  Steps,         \* the steps of a pipeline
  MaxLaunches,   \* bound: how often the harness is started
  MaxFaults,     \* bound: exceptions, steps given up and kills together
  NoCheckpoint   \* no state.json

Pipelines == 1..n_pipelines

Metrics == {"completion_rate", "abort_rate", "crash_rate", "state_integrity_rate"}

\* A hypothesis is a set of probes, with tolerances in percent.
ASSUME ExperimentsAssumption ==
  /\ Experiments \in Seq([poison_prob : {0, 5, 30},
                         probes : SUBSET [name : STRING, min : 0..100, max : 0..100]])
  /\ Experiments # <<>>

ASSUME ChaosAssumption ==
  /\ n_pipelines \in Nat \ {0} /\ concurrency \in Nat \ {0} /\ Steps \in Nat \ {0}
  /\ MaxLaunches \in Nat /\ MaxFaults \in Nat
  /\ NoCheckpoint \notin 0..Steps

VARIABLES
  phase,     \* what the main thread is at
  index,     \* the experiment that is run
  jobs,      \* the pipelines: their futures, and what the threads of the pool are at
  disk,      \* current_step of the checkpoint below the root, by pipeline
  outcomes,  \* the records collected by _run_chaos, in the order of completion
  verdicts,  \* PASS or FAIL of the experiments of this launch
  exit,      \* the exit code of the latest launch
  launches, faults

vars == <<phase, index, jobs, disk, outcomes, verdicts, exit, launches, faults>>

-----------------------------------------------------------------------------
Phases == {"down", "clear", "collect", "unwind", "judged"}

Running == {"running", "stepping", "calling", "reporting"}
Finished == {"ended", "raised"}

Status(is, type) == [is |-> is, type |-> type]
Statuses ==
  {Status(is, "") : is \in {"unknown", "completed", "aborted"}}
    \cup {Status("crashed", "UnicodeEncodeError")}

JobRecord ==
  [at : {"none", "queued"} \cup Running \cup Finished, poisoned : BOOLEAN,
   step : 0..Steps, answered : 0..Steps, status : Statuses, valid : BOOLEAN]

NewJob(poisoned) ==
  [at |-> "queued", poisoned |-> poisoned, step |-> 0, answered |-> 0,
   status |-> Status("unknown", ""), valid |-> FALSE]

NoJob == [NewJob(FALSE) EXCEPT !.at = "none"]

Active == {j \in Pipelines : jobs[j].at \in Running}

\* The thread of pipeline j goes on, with some fields of its job changed.
Goes(j, at) == jobs' = [jobs EXCEPT ![j] = [@ EXCEPT !.at = at]]

Reports(j, status) ==
  jobs' = [jobs EXCEPT ![j] = [@ EXCEPT !.at = "reporting", !.status = status]]

Fault == faults < MaxFaults /\ faults' = faults + 1

mainVars == <<phase, index, outcomes, verdicts, exit, launches>>

-----------------------------------------------------------------------------
(***************************************************************************)
(* _run_one_pipeline, in a thread of the pool.                             *)
(***************************************************************************)

\* Slip: one thread too many.
SlipTakeJob(j) ==
  /\ jobs[j].at = "queued"
  /\ \A i \in 1..(j - 1) : jobs[i].at # "queued"
  /\ Cardinality(Active) <= concurrency
  /\ Goes(j, "running")
  /\ UNCHANGED <<mainVars, disk, faults>>

\* The pool takes jobs in the order they were submitted.
TakeJob(j) ==
  /\ jobs[j].at = "queued"
  /\ \A i \in 1..(j - 1) : jobs[i].at # "queued"
  /\ Cardinality(Active) < concurrency
  /\ Goes(j, "running")
  /\ UNCHANGED <<mainVars, disk, faults>>

\* The directory cannot be made: this is outside the try block.
StoreRaises(j) ==
  /\ jobs[j].at = "running"
  /\ Fault
  /\ Goes(j, "raised")
  /\ UNCHANGED <<mainVars, disk>>

\* resume_or_start.
Begin(j) ==
  /\ jobs[j].at = "running"
  /\ IF disk[j] = NoCheckpoint
     THEN /\ disk' = [disk EXCEPT ![j] = 0]
          /\ Goes(j, "stepping")
     ELSE /\ jobs' = [jobs EXCEPT ![j] = [@ EXCEPT !.at = "stepping", !.step = disk[j]]]
          /\ UNCHANGED disk
  /\ UNCHANGED <<mainVars, faults>>

\* The guardrail blocks the first prompt of a poisoned topic.
Blocks(j) ==
  /\ jobs[j].at = "stepping" /\ jobs[j].step < Steps
  /\ jobs[j].poisoned
  /\ Reports(j, Status("aborted", ""))
  /\ UNCHANGED <<mainVars, disk, faults>>

\* Slip: the model calls go to the pool of the pipelines.
SlipStartCall(j) ==
  /\ jobs[j].at = "stepping" /\ jobs[j].step < Steps
  /\ ~jobs[j].poisoned
  /\ Cardinality(Active) + Cardinality({i \in Pipelines : jobs[i].at = "calling"})
       < concurrency
  /\ Goes(j, "calling")
  /\ UNCHANGED <<mainVars, disk, faults>>

\* call_with_watchdog makes a pool of its own for each call.
StartCall(j) ==
  /\ jobs[j].at = "stepping" /\ jobs[j].step < Steps
  /\ ~jobs[j].poisoned
  /\ Goes(j, "calling")
  /\ UNCHANGED <<mainVars, disk, faults>>

StepDone(j) ==
  /\ jobs[j].at = "calling"
  /\ jobs' = [jobs EXCEPT ![j] =
       [@ EXCEPT !.at = "stepping", !.step = jobs[j].step + 1,
                 !.answered = jobs[j].answered + 1]]
  /\ disk' = [disk EXCEPT ![j] = jobs[j].step + 1]
  /\ UNCHANGED <<mainVars, faults>>

GiveUp(j) ==
  /\ jobs[j].at = "calling"
  /\ Fault
  /\ Reports(j, Status("aborted", ""))
  /\ UNCHANGED <<mainVars, disk>>

\* An exception that is not a PipelineError: the very first save, or one of a
\* step that was answered, cannot be encoded.
Crashes(j) ==
  /\ \/ jobs[j].at = "running" /\ disk[j] = NoCheckpoint
     \/ jobs[j].at = "calling"
  /\ Fault
  /\ Reports(j, Status("crashed", "UnicodeEncodeError"))
  /\ UNCHANGED <<mainVars, disk>>

Completes(j) ==
  /\ jobs[j].at = "stepping" /\ jobs[j].step = Steps
  /\ Reports(j, Status("completed", ""))
  /\ UNCHANGED <<mainVars, disk, faults>>

\* The state is loaded back, and the record returned.
EndJob(j) ==
  /\ jobs[j].at = "reporting"
  /\ jobs' = [jobs EXCEPT ![j] = [@ EXCEPT !.at = "ended", !.valid = disk[j] # NoCheckpoint]]
  /\ UNCHANGED <<mainVars, disk, faults>>

Pool == \E j \in Pipelines :
  \/ TakeJob(j) \/ StoreRaises(j) \/ Begin(j) \/ Blocks(j) \/ StartCall(j) \/ StepDone(j)
  \/ GiveUp(j) \/ Crashes(j) \/ Completes(j) \/ EndJob(j)

-----------------------------------------------------------------------------
(***************************************************************************)
(* _aggregate and _check_probe.                                            *)
(***************************************************************************)
\* The records of one way to end, and those with a checkpoint that loads.
Of(is) == {i \in DOMAIN outcomes : outcomes[i].status.is = is}

Valid == {i \in DOMAIN outcomes : outcomes[i].valid}

\* Slip: a status that is "crashed", not one that starts with it.
SlipAggregate ==
  [completion_rate |-> Cardinality(Of("completed")),
   abort_rate |-> Cardinality(Of("aborted")),
   crash_rate |-> Cardinality({i \in DOMAIN outcomes : outcomes[i].status = Status("crashed", "")}),
   state_integrity_rate |-> Cardinality(Valid)]

\* The parts of the rates; the whole is the number of records.
Aggregate ==
  [completion_rate |-> Cardinality(Of("completed")),
   abort_rate |-> Cardinality(Of("aborted")),
   crash_rate |-> Cardinality(Of("crashed")),
   state_integrity_rate |-> Cardinality(Valid)]

\* A probe of a metric that is not there is missed.
CheckProbe(probe) ==
  /\ probe.name \in DOMAIN Aggregate
  /\ LET part == 100 * Aggregate[probe.name]
         whole == Len(outcomes)
     IN  probe.min * whole <= part /\ part <= probe.max * whole

-----------------------------------------------------------------------------
(***************************************************************************)
(* The main thread: cmd_run_all, run_experiment and _run_chaos.            *)
(***************************************************************************)
poolVars == <<jobs, disk, faults>>

Launch ==
  /\ phase = "down" /\ launches < MaxLaunches
  /\ launches' = launches + 1
  /\ phase' = "clear" /\ index' = 1
  /\ verdicts' = <<>> /\ exit' = "none"
  /\ jobs' = [j \in Pipelines |-> NoJob]
  /\ UNCHANGED <<disk, outcomes, faults>>

\* rmtree, one directory at a time.
ClearRoot ==
  /\ phase = "clear"
  /\ \E j \in Pipelines :
       disk[j] # NoCheckpoint /\ disk' = [disk EXCEPT ![j] = NoCheckpoint]
  /\ UNCHANGED <<mainVars, jobs, faults>>

Topics == IF Experiments[index].poison_prob = 0 THEN {FALSE} ELSE BOOLEAN

\* Slip: the root is left as it is.
SlipSubmitJobs ==
  /\ phase = "clear"
  /\ \E poisoned \in [Pipelines -> Topics] :
       jobs' = [j \in Pipelines |-> NewJob(poisoned[j])]
  /\ outcomes' = <<>>
  /\ phase' = "collect"
  /\ UNCHANGED <<index, disk, verdicts, exit, launches, faults>>

\* The dice decide which topics are poisoned.
SubmitJobs ==
  /\ phase = "clear"
  /\ \A j \in Pipelines : disk[j] = NoCheckpoint
  /\ \E poisoned \in [Pipelines -> Topics] :
       jobs' = [j \in Pipelines |-> NewJob(poisoned[j])]
  /\ outcomes' = <<>>
  /\ phase' = "collect"
  /\ UNCHANGED <<index, disk, verdicts, exit, launches, faults>>

Collected(j) == \E i \in DOMAIN outcomes : outcomes[i].pipeline_id = j

\* as_completed: the next future that is done.
Collect ==
  /\ phase = "collect"
  /\ \E j \in Pipelines :
       /\ ~Collected(j) /\ jobs[j].at = "ended"
       /\ outcomes' = Append(outcomes,
            [pipeline_id |-> j, status |-> jobs[j].status, valid |-> jobs[j].valid])
  /\ UNCHANGED <<phase, index, verdicts, exit, launches, poolVars>>

\* The result of a future that raised is asked for.
CollectRaises ==
  /\ phase = "collect"
  /\ \E j \in Pipelines : jobs[j].at = "raised"
  /\ phase' = "unwind"
  /\ UNCHANGED <<index, outcomes, verdicts, exit, launches, poolVars>>

\* Slip: the pool is closed without waiting.
SlipUnwind ==
  /\ phase = "unwind"
  /\ phase' = "down" /\ exit' = "error"
  /\ UNCHANGED <<index, outcomes, verdicts, launches, poolVars>>

\* The with block waits for all its jobs; then the exception ends the program.
Unwind ==
  /\ phase = "unwind"
  /\ \A j \in Pipelines : jobs[j].at \in Finished
  /\ phase' = "down" /\ exit' = "error"
  /\ UNCHANGED <<index, outcomes, verdicts, launches, poolVars>>

Judge ==
  /\ phase = "collect"
  /\ \A j \in Pipelines : Collected(j)
  /\ verdicts' = Append(verdicts,
       IF \A probe \in Experiments[index].probes : CheckProbe(probe) THEN "PASS" ELSE "FAIL")
  /\ phase' = "judged"
  /\ UNCHANGED <<index, outcomes, exit, launches, poolVars>>

NextExperiment ==
  /\ phase = "judged" /\ index < Len(Experiments)
  /\ index' = index + 1
  /\ phase' = "clear"
  /\ UNCHANGED <<outcomes, verdicts, exit, launches, poolVars>>

RunAllReturns ==
  /\ phase = "judged" /\ index = Len(Experiments)
  /\ phase' = "down"
  /\ exit' = IF \A i \in DOMAIN verdicts : verdicts[i] = "PASS" THEN "success" ELSE "failure"
  /\ UNCHANGED <<index, outcomes, verdicts, launches, poolVars>>

Kill ==
  /\ phase # "down"
  /\ Fault
  /\ phase' = "down" /\ exit' = "killed"
  /\ jobs' = [j \in Pipelines |-> NoJob]
  /\ UNCHANGED <<index, disk, outcomes, verdicts, launches>>

Main ==
  \/ ClearRoot \/ SubmitJobs \/ Collect \/ CollectRaises \/ Unwind \/ Judge
  \/ NextExperiment \/ RunAllReturns

-----------------------------------------------------------------------------
Init ==
  /\ phase = "down" /\ index = 1
  /\ jobs = [j \in Pipelines |-> NoJob]
  /\ disk = [j \in Pipelines |-> NoCheckpoint]
  /\ outcomes = <<>> /\ verdicts = <<>> /\ exit = "none"
  /\ launches = 0 /\ faults = 0

Next == Main \/ Pool \/ Launch \/ Kill

Spec == Init /\ [][Next]_vars

(***************************************************************************)
(* The main thread and the threads of the pool are scheduled.  A call does *)
(* not last: it is answered, or the watchdog gives it up.                  *)
(***************************************************************************)
FairSpec == Spec /\ WF_vars(Main) /\ WF_vars(Pool)

-----------------------------------------------------------------------------
(* Properties *)

TypeOK ==
  /\ phase \in Phases
  /\ index \in DOMAIN Experiments
  /\ jobs \in [Pipelines -> JobRecord]
  /\ disk \in [Pipelines -> 0..Steps \cup {NoCheckpoint}]
  /\ \A i \in DOMAIN outcomes :
       outcomes[i] \in [pipeline_id : Pipelines, status : Statuses, valid : BOOLEAN]
  /\ \A i \in DOMAIN verdicts : verdicts[i] \in {"PASS", "FAIL"}
  /\ exit \in {"none", "success", "failure", "error", "killed"}
  /\ Cardinality(Active) <= concurrency

\* "pipelines are reproducible AND independent" (chaos/injectors.py): although
\* experiments share a root and the names in it, a checkpoint holds the steps
\* answered in this experiment, no less and no more.  No pipeline resumes what
\* an earlier experiment or a killed launch left, none loses what it saved.
OwnCheckpoints ==
  \A j \in Pipelines :
    jobs[j].at \in {"stepping", "calling", "reporting", "ended"} /\ phase # "clear" =>
      IF disk[j] = NoCheckpoint THEN jobs[j].status.is = "crashed" /\ jobs[j].answered = 0
      ELSE disk[j] = jobs[j].answered

\* No pipeline is under way when its root is cleared, when its experiment is
\* judged, or when the program is over, however it ended.
QuietRoot ==
  phase \in {"clear", "judged", "down"} =>
    \A j \in Pipelines : jobs[j].at \in {"none"} \cup Finished

\* What a hypothesis demands of a metric, at the least and at the most.
Demands(name, least, most) ==
  \E probe \in Experiments[index].probes :
    probe.name = name /\ probe.min >= least /\ probe.max <= most

\* A PASS is earned, whatever the order in which pipelines ended and failed.  If
\* the hypothesis has no tolerance for crashes and lost states, as all of the
\* repository have, every pipeline was run to its end, it is completed with an
\* answer to each step or aborted, and its state is on disk.
PassIsEarned ==
  phase = "judged" /\ verdicts[index] = "PASS"
    /\ Demands("crash_rate", 0, 0) /\ Demands("state_integrity_rate", 100, 100) =>
      /\ \A j \in Pipelines :
           /\ jobs[j].at = "ended" /\ disk[j] # NoCheckpoint
           /\ jobs[j].status.is \in {"completed", "aborted"}
           /\ jobs[j].status.is = "completed" <=> disk[j] = Steps
           /\ jobs[j].poisoned => jobs[j].answered = 0
      /\ \A probe \in Experiments[index].probes : probe.name = "completion_rate" =>
           100 * Cardinality({j \in Pipelines : jobs[j].answered = Steps})
             \in (probe.min * n_pipelines)..(probe.max * n_pipelines)

\* run-all ends: pipelines wait for their calls inside the pool, but no call
\* waits for the pool.
RunAllEnds == phase # "down" ~> phase = "down"

=============================================================================
