----------------------------- MODULE ChaosProofs -----------------------------
(***************************************************************************)
(* Theorems about ChaosExperiment, for any experiments, any number of      *)
(* pipelines and steps, and any size of the pool.                          *)
(***************************************************************************)
EXTENDS ChaosInvariant, FiniteSetTheorems, TLAPS

-----------------------------------------------------------------------------
(* Pipelines *)

DiskValues == 0..Steps \cup {NoCheckpoint}

LEMMA ConstantFacts ==
  /\ n_pipelines \in Nat \ {0} /\ concurrency \in Nat \ {0} /\ Steps \in Nat \ {0}
  /\ NoCheckpoint \notin 0..Steps
  /\ Len(Experiments) \in Nat \ {0} /\ DOMAIN Experiments = 1..Len(Experiments)
BY ChaosAssumption, ExperimentsAssumption

LEMMA JobFacts ==
  ASSUME TypeInv, NEW j \in Pipelines
  PROVE  /\ jobs[j] \in JobRecord /\ jobs[j].status \in Statuses
         /\ jobs[j].step \in 0..Steps /\ jobs[j].answered \in 0..Steps
         /\ jobs[j].poisoned \in BOOLEAN /\ jobs[j].valid \in BOOLEAN
         /\ disk[j] \in DiskValues
BY DEF TypeInv, JobRecord, DiskValues

\* The status of a record tells its class.
LEMMA StatusFacts ==
  /\ \A is \in {"unknown", "completed", "aborted"} :
       Status(is, "") \in Statuses /\ Status(is, "").is = is
  /\ Status("crashed", "UnicodeEncodeError") \in Statuses
  /\ Status("crashed", "UnicodeEncodeError").is = "crashed"
BY DEF Statuses, Status

\* What a step of a pipeline does to its own job and directory, and to nothing
\* else.
Moves(j, new, d) ==
  /\ jobs' = [jobs EXCEPT ![j] = new]
  /\ disk' = [disk EXCEPT ![j] = d]
  /\ jobs[j].at \in {"queued"} \cup Running
  /\ new.at \in Running \cup Finished
  /\ UNCHANGED mainVars

\* Between steps a pipeline is as JobInv has it, if its own step sees to it.
LEMMA MoveKeeps ==
  ASSUME TypeInv, QuietRoot, DiskInv, NEW j \in Pipelines,
         NEW new \in JobRecord, NEW d \in DiskValues, Moves(j, new, d),
         JobInv(j)'
  PROVE  TypeInv' /\ QuietRoot' /\ DiskInv'
<1>1. /\ jobs'[j] = new /\ disk'[j] = d
      /\ \A i \in Pipelines : i # j => jobs'[i] = jobs[i] /\ disk'[i] = disk[i]
  BY DEF TypeInv, Moves
<1>2. TypeInv'
  BY DEF TypeInv, Moves, DiskValues, mainVars
<1>3. phase \notin {"clear", "judged", "down"}
  BY DEF Moves, QuietRoot, Running, Finished
<1>4. QuietRoot'
  BY <1>3 DEF QuietRoot, Moves, mainVars
<1>5. \A i \in Pipelines : JobInv(i)'
  BY <1>1, <1>3 DEF DiskInv, JobInv
<1> QED
  BY <1>2, <1>4, <1>5 DEF DiskInv

LEMMA TakeJobMoves ==
  ASSUME TypeInv, QuietRoot, DiskInv, NEW j \in Pipelines, TakeJob(j)
  PROVE  \E new \in JobRecord, d \in DiskValues : Moves(j, new, d) /\ JobInv(j)'
<1> DEFINE new == [jobs[j] EXCEPT !.at = "running"]
<1>1. new \in JobRecord /\ jobs' = [jobs EXCEPT ![j] = new]
  BY JobFacts DEF TakeJob, Goes, JobRecord, Running
<1>2. disk[j] \in DiskValues /\ disk' = [disk EXCEPT ![j] = disk[j]]
  BY JobFacts DEF TakeJob, TypeInv
<1>3. Moves(j, new, disk[j])
  BY <1>1, <1>2, JobFacts DEF Moves, TakeJob, Running, JobRecord
<1>4. JobInv(j)'
  BY <1>1, <1>2, JobFacts DEF TakeJob, DiskInv, QuietRoot, JobInv, TypeInv, Finished, JobRecord
<1> QED
  BY <1>1, <1>2, <1>3, <1>4

LEMMA StoreRaisesMoves ==
  ASSUME TypeInv, QuietRoot, DiskInv, NEW j \in Pipelines, StoreRaises(j)
  PROVE  \E new \in JobRecord, d \in DiskValues : Moves(j, new, d) /\ JobInv(j)'
<1> DEFINE new == [jobs[j] EXCEPT !.at = "raised"]
<1>1. new \in JobRecord /\ jobs' = [jobs EXCEPT ![j] = new]
  BY JobFacts DEF StoreRaises, Goes, JobRecord, Running, Finished
<1>2. disk[j] \in DiskValues /\ disk' = [disk EXCEPT ![j] = disk[j]]
  BY JobFacts DEF StoreRaises, TypeInv, DiskValues
<1>3. Moves(j, new, disk[j])
  BY <1>1, <1>2, JobFacts DEF Moves, StoreRaises, Fault, Running, Finished, JobRecord, mainVars
<1>4. JobInv(j)'
  BY <1>1, <1>2, JobFacts, StatusFacts, ConstantFacts
  DEF StoreRaises, DiskInv, QuietRoot, JobInv, TypeInv, Finished, JobRecord
<1> QED
  BY <1>1, <1>2, <1>3, <1>4

LEMMA BlocksMoves ==
  ASSUME TypeInv, QuietRoot, DiskInv, NEW j \in Pipelines, Blocks(j)
  PROVE  \E new \in JobRecord, d \in DiskValues : Moves(j, new, d) /\ JobInv(j)'
<1> DEFINE new == [jobs[j] EXCEPT !.at = "reporting", !.status = Status("aborted", "")]
<1>1. new \in JobRecord /\ jobs' = [jobs EXCEPT ![j] = new]
  BY JobFacts, StatusFacts DEF Blocks, Reports, JobRecord, Running, Finished
<1>2. disk[j] \in DiskValues /\ disk' = [disk EXCEPT ![j] = disk[j]]
  BY JobFacts DEF Blocks, TypeInv, DiskValues
<1>3. Moves(j, new, disk[j])
  BY <1>1, <1>2, JobFacts DEF Moves, Blocks, Fault, Running, Finished, JobRecord, mainVars
<1>4. JobInv(j)'
  BY <1>1, <1>2, JobFacts, StatusFacts, ConstantFacts
  DEF Blocks, DiskInv, QuietRoot, JobInv, TypeInv, Finished, JobRecord
<1> QED
  BY <1>1, <1>2, <1>3, <1>4

LEMMA StartCallMoves ==
  ASSUME TypeInv, QuietRoot, DiskInv, NEW j \in Pipelines, StartCall(j)
  PROVE  \E new \in JobRecord, d \in DiskValues : Moves(j, new, d) /\ JobInv(j)'
<1> DEFINE new == [jobs[j] EXCEPT !.at = "calling"]
<1>1. new \in JobRecord /\ jobs' = [jobs EXCEPT ![j] = new]
  BY JobFacts DEF StartCall, Goes, JobRecord, Running, Finished
<1>2. disk[j] \in DiskValues /\ disk' = [disk EXCEPT ![j] = disk[j]]
  BY JobFacts DEF StartCall, TypeInv, DiskValues
<1>3. Moves(j, new, disk[j])
  BY <1>1, <1>2, JobFacts DEF Moves, StartCall, Fault, Running, Finished, JobRecord, mainVars
<1>4. JobInv(j)'
  BY <1>1, <1>2, JobFacts, StatusFacts, ConstantFacts
  DEF StartCall, DiskInv, QuietRoot, JobInv, TypeInv, Finished, JobRecord
<1> QED
  BY <1>1, <1>2, <1>3, <1>4

LEMMA StepDoneMoves ==
  ASSUME TypeInv, QuietRoot, DiskInv, NEW j \in Pipelines, StepDone(j)
  PROVE  \E new \in JobRecord, d \in DiskValues : Moves(j, new, d) /\ JobInv(j)'
<1> DEFINE new == [jobs[j] EXCEPT !.at = "stepping", !.step = jobs[j].step + 1,
                             !.answered = jobs[j].answered + 1]
<1>0. jobs[j].step + 1 \in 0..Steps /\ jobs[j].answered + 1 \in 0..Steps
  BY JobFacts, ConstantFacts DEF StepDone, DiskInv, QuietRoot, JobInv, Finished
<1>1. new \in JobRecord /\ jobs' = [jobs EXCEPT ![j] = new]
  BY <1>0, JobFacts DEF StepDone, JobRecord, Running, Finished
<1>2. jobs[j].step + 1 \in DiskValues /\ disk' = [disk EXCEPT ![j] = jobs[j].step + 1]
  BY <1>0, JobFacts DEF StepDone, TypeInv, DiskValues
<1>3. Moves(j, new, jobs[j].step + 1)
  BY <1>1, <1>2, JobFacts DEF Moves, StepDone, Fault, Running, Finished, JobRecord, mainVars
<1>4. JobInv(j)'
  <2>1. /\ jobs[j].at = "calling" /\ ~jobs[j].poisoned /\ jobs[j].step = jobs[j].answered
        /\ disk'[j] = jobs[j].step + 1
    BY <1>2, JobFacts DEF StepDone, DiskInv, QuietRoot, JobInv, TypeInv, Finished
  <2>2. /\ jobs'[j].at = "stepping" /\ jobs'[j].poisoned = jobs[j].poisoned
        /\ jobs'[j].step = jobs[j].step + 1 /\ jobs'[j].answered = jobs[j].answered + 1
    BY <1>1, JobFacts DEF JobRecord, TypeInv
  <2> QED
    BY <2>1, <2>2 DEF JobInv
<1> QED
  BY <1>1, <1>2, <1>3, <1>4

LEMMA GiveUpMoves ==
  ASSUME TypeInv, QuietRoot, DiskInv, NEW j \in Pipelines, GiveUp(j)
  PROVE  \E new \in JobRecord, d \in DiskValues : Moves(j, new, d) /\ JobInv(j)'
<1> DEFINE new == [jobs[j] EXCEPT !.at = "reporting", !.status = Status("aborted", "")]
<1>1. new \in JobRecord /\ jobs' = [jobs EXCEPT ![j] = new]
  BY JobFacts, StatusFacts DEF GiveUp, Reports, JobRecord, Running, Finished
<1>2. disk[j] \in DiskValues /\ disk' = [disk EXCEPT ![j] = disk[j]]
  BY JobFacts DEF GiveUp, TypeInv, DiskValues
<1>3. Moves(j, new, disk[j])
  BY <1>1, <1>2, JobFacts DEF Moves, GiveUp, Fault, Running, Finished, JobRecord, mainVars
<1>4. JobInv(j)'
  <2>1. /\ ~jobs[j].poisoned /\ jobs[j].answered < Steps
        /\ disk'[j] = jobs[j].answered
    BY <1>2, JobFacts DEF GiveUp, DiskInv, QuietRoot, JobInv, TypeInv, Finished
  <2>2. /\ jobs'[j].at = "reporting" /\ jobs'[j].poisoned = jobs[j].poisoned
        /\ jobs'[j].answered = jobs[j].answered
        /\ jobs'[j].status.is = "aborted"
    BY <1>1, JobFacts, StatusFacts DEF JobRecord, TypeInv
  <2> QED
    BY <2>1, <2>2, JobFacts, ConstantFacts DEF JobInv
<1> QED
  BY <1>1, <1>2, <1>3, <1>4

LEMMA CrashesMoves ==
  ASSUME TypeInv, QuietRoot, DiskInv, NEW j \in Pipelines, Crashes(j)
  PROVE  \E new \in JobRecord, d \in DiskValues : Moves(j, new, d) /\ JobInv(j)'
<1> DEFINE new == [jobs[j] EXCEPT !.at = "reporting", !.status = Status("crashed", "UnicodeEncodeError")]
<1>1. new \in JobRecord /\ jobs' = [jobs EXCEPT ![j] = new]
  BY JobFacts, StatusFacts DEF Crashes, Reports, JobRecord, Running, Finished
<1>2. disk[j] \in DiskValues /\ disk' = [disk EXCEPT ![j] = disk[j]]
  BY JobFacts DEF Crashes, TypeInv, DiskValues
<1>3. Moves(j, new, disk[j])
  BY <1>1, <1>2, JobFacts DEF Moves, Crashes, Fault, Running, Finished, JobRecord, mainVars
<1>4. JobInv(j)'
  <2>0. JobInv(j) /\ disk'[j] = disk[j] /\ jobs[j].at \in {"running", "calling"}
    BY <1>2, JobFacts DEF Crashes, DiskInv, QuietRoot, TypeInv, Finished
  <2>1. /\ \/ disk'[j] = NoCheckpoint /\ jobs[j].answered = 0
           \/ disk'[j] = jobs[j].answered
        /\ jobs[j].answered < Steps /\ (jobs[j].poisoned => jobs[j].answered = 0)
    BY <2>0, JobFacts, ConstantFacts DEF JobInv
  <2>2. /\ jobs'[j].at = "reporting" /\ jobs'[j].poisoned = jobs[j].poisoned
        /\ jobs'[j].answered = jobs[j].answered
        /\ jobs'[j].status.is = "crashed"
    BY <1>1, JobFacts, StatusFacts DEF JobRecord, TypeInv
  <2> QED
    BY <2>1, <2>2, JobFacts, ConstantFacts DEF JobInv
<1> QED
  BY <1>1, <1>2, <1>3, <1>4

LEMMA CompletesMoves ==
  ASSUME TypeInv, QuietRoot, DiskInv, NEW j \in Pipelines, Completes(j)
  PROVE  \E new \in JobRecord, d \in DiskValues : Moves(j, new, d) /\ JobInv(j)'
<1> DEFINE new == [jobs[j] EXCEPT !.at = "reporting", !.status = Status("completed", "")]
<1>1. new \in JobRecord /\ jobs' = [jobs EXCEPT ![j] = new]
  BY JobFacts, StatusFacts DEF Completes, Reports, JobRecord, Running, Finished
<1>2. disk[j] \in DiskValues /\ disk' = [disk EXCEPT ![j] = disk[j]]
  BY JobFacts DEF Completes, TypeInv, DiskValues
<1>3. Moves(j, new, disk[j])
  BY <1>1, <1>2, JobFacts DEF Moves, Completes, Fault, Running, Finished, JobRecord, mainVars
<1>4. JobInv(j)'
  BY <1>1, <1>2, JobFacts, StatusFacts, ConstantFacts
  DEF Completes, DiskInv, QuietRoot, JobInv, TypeInv, Finished, JobRecord
<1> QED
  BY <1>1, <1>2, <1>3, <1>4

LEMMA EndJobMoves ==
  ASSUME TypeInv, QuietRoot, DiskInv, NEW j \in Pipelines, EndJob(j)
  PROVE  \E new \in JobRecord, d \in DiskValues : Moves(j, new, d) /\ JobInv(j)'
<1> DEFINE new == [jobs[j] EXCEPT !.at = "ended", !.valid = disk[j] # NoCheckpoint]
<1>1. new \in JobRecord /\ jobs' = [jobs EXCEPT ![j] = new]
  BY JobFacts DEF EndJob, JobRecord, Running, Finished
<1>2. disk[j] \in DiskValues /\ disk' = [disk EXCEPT ![j] = disk[j]]
  BY JobFacts DEF EndJob, TypeInv, DiskValues
<1>3. Moves(j, new, disk[j])
  BY <1>1, <1>2, JobFacts DEF Moves, EndJob, Fault, Running, Finished, JobRecord, mainVars
<1>4. JobInv(j)'
  <2>1. JobInv(j) /\ disk'[j] = disk[j] /\ jobs[j].at = "reporting"
    BY <1>2, JobFacts DEF EndJob, DiskInv, QuietRoot, TypeInv, Finished
  <2>2. /\ jobs'[j].at = "ended" /\ jobs'[j].valid = (disk[j] # NoCheckpoint)
        /\ jobs'[j].poisoned = jobs[j].poisoned /\ jobs'[j].status = jobs[j].status
        /\ jobs'[j].answered = jobs[j].answered
    BY <1>1, JobFacts DEF JobRecord, TypeInv
  <2> QED
    BY <2>1, <2>2 DEF JobInv
<1> QED
  BY <1>1, <1>2, <1>3, <1>4

LEMMA BeginMoves ==
  ASSUME TypeInv, QuietRoot, DiskInv, NEW j \in Pipelines, Begin(j)
  PROVE  \E new \in JobRecord, d \in DiskValues : Moves(j, new, d) /\ JobInv(j)'
<1> DEFINE new == [jobs[j] EXCEPT !.at = "stepping"]
<1>0. disk[j] = NoCheckpoint /\ jobs[j].step = 0 /\ jobs[j].answered = 0
  BY JobFacts DEF Begin, DiskInv, QuietRoot, JobInv, Finished
<1>1. new \in JobRecord /\ jobs' = [jobs EXCEPT ![j] = new]
  BY <1>0, JobFacts DEF Begin, Goes, JobRecord, Running
<1>2. 0 \in DiskValues /\ disk' = [disk EXCEPT ![j] = 0]
  BY <1>0, ConstantFacts DEF Begin, DiskValues
<1>3. Moves(j, new, 0)
  BY <1>1, <1>2, JobFacts DEF Moves, Begin, Running, JobRecord
<1>4. JobInv(j)'
  <2>1. /\ jobs'[j].at = "stepping" /\ jobs'[j].step = 0 /\ jobs'[j].answered = 0
        /\ disk'[j] = 0
    BY <1>0, <1>1, <1>2, JobFacts DEF JobRecord, TypeInv
  <2> QED
    BY <2>1 DEF JobInv
<1> QED
  BY <1>1, <1>2, <1>3, <1>4

-----------------------------------------------------------------------------
(* The pool *)

\* Every step of the pool is a move of one pipeline.
LEMMA PoolMoves ==
  ASSUME TypeInv, QuietRoot, DiskInv, Pool
  PROVE  \E j \in Pipelines, new \in JobRecord, d \in DiskValues :
           /\ Moves(j, new, d) /\ JobInv(j)'
           /\ jobs[j].at = "queued" => Cardinality(Active) < concurrency
<1>1. PICK j \in Pipelines :
        \/ TakeJob(j) \/ StoreRaises(j) \/ Begin(j) \/ Blocks(j) \/ StartCall(j)
        \/ StepDone(j) \/ GiveUp(j) \/ Crashes(j) \/ Completes(j) \/ EndJob(j)
  BY DEF Pool
<1>2. jobs[j].at = "queued" => Cardinality(Active) < concurrency
  BY <1>1 DEF TakeJob, StoreRaises, Begin, Blocks, StartCall, StepDone, GiveUp,
              Crashes, Completes, EndJob
<1>3. \E new \in JobRecord, d \in DiskValues : Moves(j, new, d) /\ JobInv(j)'
  BY <1>1, TakeJobMoves, StoreRaisesMoves, BeginMoves, BlocksMoves, StartCallMoves,
     StepDoneMoves, GiveUpMoves, CrashesMoves, CompletesMoves, EndJobMoves
<1> QED
  BY <1>2, <1>3

LEMMA ActiveFinite == IsFiniteSet(Active) /\ Cardinality(Active) \in Nat
<1>1. IsFiniteSet(Pipelines)
  BY ConstantFacts, FS_Interval DEF Pipelines
<1>2. Active \subseteq Pipelines
  BY DEF Active
<1> QED
  BY <1>1, <1>2, FS_Subset, FS_CardinalityType

\* A pipeline becomes active only when there is a thread for it.
LEMMA PoolStaysSmall ==
  ASSUME TypeInv, PoolInv, NEW j \in Pipelines, NEW new \in JobRecord,
         NEW d \in DiskValues, Moves(j, new, d),
         jobs[j].at = "queued" => Cardinality(Active) < concurrency
  PROVE  PoolInv'
<1>1. \A i \in Pipelines : i # j => jobs'[i] = jobs[i]
  BY DEF TypeInv, Moves
<1>2. CASE j \in Active
  <2>1. Active' \subseteq Active
    BY <1>1, <1>2 DEF Active
  <2>2. Cardinality(Active') <= Cardinality(Active) /\ Cardinality(Active') \in Nat
    BY <2>1, ActiveFinite, FS_Subset, FS_CardinalityType
  <2> QED
    BY <2>2, ActiveFinite, ConstantFacts DEF PoolInv
<1>3. CASE j \notin Active
  <2>1. jobs[j].at = "queued"
    BY <1>3 DEF Moves, Active
  <2>2. Active' \subseteq Active \cup {j}
    BY <1>1 DEF Active
  <2>3. /\ IsFiniteSet(Active \cup {j})
        /\ Cardinality(Active \cup {j}) = Cardinality(Active) + 1
    BY <1>3, ActiveFinite, FS_AddElement
  <2>4. Cardinality(Active') <= Cardinality(Active) + 1 /\ Cardinality(Active') \in Nat
    BY <2>2, <2>3, FS_Subset, FS_CardinalityType
  <2> QED
    BY <2>1, <2>4, ActiveFinite, ConstantFacts DEF PoolInv
<1> QED
  BY <1>2, <1>3

-----------------------------------------------------------------------------
(* Records and verdicts *)

LEMMA RecordFacts ==
  ASSUME TypeInv
  PROVE  /\ Len(outcomes) \in Nat /\ DOMAIN outcomes = 1..Len(outcomes)
         /\ \A i \in DOMAIN outcomes :
              outcomes[i] \in Record /\ outcomes[i].pipeline_id \in Pipelines
<1>1. outcomes \in Seq(Record)
  BY DEF TypeInv
<1>2. \A i \in DOMAIN outcomes : outcomes[i] \in Record
  BY <1>1
<1> QED
  BY <1>1, <1>2 DEF Record

\* A pipeline that moves has not ended, so there is no record of it yet.
LEMMA MoveKeepsRecords ==
  ASSUME TypeInv, RecordsInv, NEW j \in Pipelines, NEW new, NEW d, Moves(j, new, d)
  PROVE  RecordsInv'
<1>1. \A i \in Pipelines : i # j => jobs'[i] = jobs[i]
  BY DEF TypeInv, Moves
<1>2. outcomes' = outcomes /\ phase' = phase /\ jobs[j].at # "ended"
  BY DEF Moves, mainVars, Running
<1>3. ASSUME phase \in Collecting, NEW i \in DOMAIN outcomes
      PROVE  /\ outcomes[i].pipeline_id \in Pipelines
             /\ jobs'[outcomes[i].pipeline_id] = jobs[outcomes[i].pipeline_id]
  BY <1>1, <1>2, <1>3, RecordFacts DEF RecordsInv
<1> QED
  BY <1>2, <1>3 DEF RecordsInv, Collected

\* Nothing but the records decides a probe.
LEMMA ProbeUnchanged ==
  ASSUME UNCHANGED outcomes, NEW probe
  PROVE  CheckProbe(probe)' <=> CheckProbe(probe)
BY DEF CheckProbe, Aggregate, Of, Valid

LEMMA VerdictUnchanged ==
  ASSUME VerdictInv, UNCHANGED <<phase, index, outcomes, verdicts>>
  PROVE  VerdictInv'
<1>1. \A probe : CheckProbe(probe)' <=> CheckProbe(probe)
  BY ProbeUnchanged
<1> QED
  BY <1>1 DEF VerdictInv

LEMMA PoolStep ==
  ASSUME IInv, Pool
  PROVE  IInv'
<1>1. PICK j \in Pipelines, new \in JobRecord, d \in DiskValues :
        /\ Moves(j, new, d) /\ JobInv(j)'
        /\ jobs[j].at = "queued" => Cardinality(Active) < concurrency
  BY PoolMoves DEF IInv
<1>2. TypeInv' /\ QuietRoot' /\ DiskInv'
  BY <1>1, MoveKeeps DEF IInv
<1>3. PoolInv'
  BY <1>1, PoolStaysSmall DEF IInv
<1>4. RecordsInv'
  BY <1>1, MoveKeepsRecords DEF IInv
<1>5. VerdictInv'
  BY <1>1, VerdictUnchanged DEF IInv, Moves, mainVars
<1> QED
  BY <1>2, <1>3, <1>4, <1>5 DEF IInv

-----------------------------------------------------------------------------
(* The main thread *)

\* Steps that leave the pool alone.
LEMMA PoolUnchanged ==
  ASSUME PoolInv, UNCHANGED jobs
  PROVE  PoolInv'
BY DEF PoolInv, Active

LEMMA ClearRootStep ==
  ASSUME IInv, ClearRoot
  PROVE  IInv'
<1>1. PICK j \in Pipelines : disk' = [disk EXCEPT ![j] = NoCheckpoint]
  BY DEF ClearRoot
<1>2. phase = "clear" /\ UNCHANGED <<mainVars, jobs, faults>>
  BY DEF ClearRoot
<1>3. TypeInv'
  BY <1>1, <1>2 DEF IInv, TypeInv, mainVars
<1>4. QuietRoot' /\ PoolInv' /\ DiskInv'
  BY <1>2, PoolUnchanged DEF IInv, QuietRoot, DiskInv, mainVars
<1>5. RecordsInv' /\ VerdictInv'
  BY <1>2, VerdictUnchanged DEF IInv, RecordsInv, Collecting, mainVars
<1> QED
  BY <1>3, <1>4, <1>5 DEF IInv

LEMMA NewJobFacts ==
  ASSUME NEW poisoned \in BOOLEAN
  PROVE  /\ NewJob(poisoned) \in JobRecord
         /\ NewJob(poisoned).at = "queued" /\ NewJob(poisoned).step = 0
         /\ NewJob(poisoned).answered = 0
<1>1. Status("unknown", "") \in Statuses
  BY StatusFacts
<1>2. 0 \in 0..Steps
  BY ConstantFacts
<1> QED
  BY <1>1, <1>2 DEF NewJob, JobRecord

LEMMA NoJobFacts == NoJob \in JobRecord /\ NoJob.at = "none"
<1>1. NewJob(FALSE) \in JobRecord
  BY NewJobFacts
<1> QED
  BY <1>1 DEF NoJob, JobRecord

LEMMA SubmitJobsStep ==
  ASSUME IInv, SubmitJobs
  PROVE  IInv'
<1>1. PICK poisoned \in [Pipelines -> Topics] :
        jobs' = [j \in Pipelines |-> NewJob(poisoned[j])]
  BY DEF SubmitJobs
<1>2. /\ phase = "clear" /\ phase' = "collect" /\ outcomes' = <<>>
      /\ \A j \in Pipelines : disk[j] = NoCheckpoint
      /\ UNCHANGED <<index, disk, verdicts, exit>>
  BY DEF SubmitJobs
<1>3. \A j \in Pipelines : poisoned[j] \in BOOLEAN /\ jobs'[j] = NewJob(poisoned[j])
  BY <1>1 DEF Topics
<1>4. TypeInv'
  BY <1>1, <1>2, <1>3, NewJobFacts DEF IInv, TypeInv, Phases
<1>5. QuietRoot' /\ DiskInv'
  BY <1>2, <1>3, NewJobFacts DEF QuietRoot, DiskInv, JobInv
<1>6. PoolInv'
  <2>1. Active' = {}
    BY <1>3, NewJobFacts DEF Active, Running
  <2> QED
    BY <2>1, FS_EmptySet, ConstantFacts DEF PoolInv
<1>7. RecordsInv' /\ VerdictInv'
  BY <1>2 DEF IInv, RecordsInv, VerdictInv
<1> QED
  BY <1>4, <1>5, <1>6, <1>7 DEF IInv

LEMMA CollectStep ==
  ASSUME IInv, Collect
  PROVE  IInv'
<1>1. PICK j \in Pipelines :
        /\ ~Collected(j) /\ jobs[j].at = "ended"
        /\ outcomes' = Append(outcomes,
             [pipeline_id |-> j, status |-> jobs[j].status, valid |-> jobs[j].valid])
  BY DEF Collect
<1> DEFINE new == [pipeline_id |-> j, status |-> jobs[j].status, valid |-> jobs[j].valid]
<1>2. phase = "collect" /\ UNCHANGED <<phase, index, verdicts, exit, jobs, disk>>
  BY DEF Collect, poolVars
<1>3. new \in Record
  BY JobFacts DEF IInv, Record
<1>4. /\ outcomes \in Seq(Record) /\ outcomes' \in Seq(Record)
      /\ DOMAIN outcomes' = DOMAIN outcomes \cup {Len(outcomes) + 1}
      /\ Len(outcomes) + 1 \notin DOMAIN outcomes
      /\ outcomes'[Len(outcomes) + 1] = new
      /\ \A i \in DOMAIN outcomes : outcomes'[i] = outcomes[i]
  BY <1>1, <1>3 DEF IInv, TypeInv
<1>5. TypeInv'
  BY <1>2, <1>4 DEF IInv, TypeInv
<1>6. QuietRoot' /\ PoolInv' /\ DiskInv'
  BY <1>2, PoolUnchanged DEF IInv, QuietRoot, DiskInv, JobInv
<1>7. \A i \in DOMAIN outcomes : outcomes[i].pipeline_id # j
  BY <1>1 DEF Collected
<1>8. RecordsInv'
  BY <1>1, <1>2, <1>4, <1>7 DEF IInv, RecordsInv, Collecting
<1>9. VerdictInv'
  BY <1>2 DEF IInv, VerdictInv
<1> QED
  BY <1>5, <1>6, <1>8, <1>9 DEF IInv

LEMMA CollectRaisesStep ==
  ASSUME IInv, CollectRaises
  PROVE  IInv'
<1>1. /\ phase = "collect" /\ phase' = "unwind"
      /\ UNCHANGED <<index, outcomes, verdicts, exit, jobs, disk>>
  BY DEF CollectRaises, poolVars
<1>2. TypeInv' /\ QuietRoot' /\ PoolInv' /\ DiskInv'
  BY <1>1, PoolUnchanged DEF IInv, TypeInv, Phases, QuietRoot, DiskInv, JobInv
<1>3. RecordsInv' /\ VerdictInv'
  BY <1>1 DEF IInv, RecordsInv, VerdictInv, Collecting
<1> QED
  BY <1>2, <1>3 DEF IInv

LEMMA UnwindStep ==
  ASSUME IInv, Unwind
  PROVE  IInv'
<1>1. /\ phase = "unwind" /\ phase' = "down" /\ exit' = "error"
      /\ \A j \in Pipelines : jobs[j].at \in Finished
      /\ UNCHANGED <<index, outcomes, verdicts, jobs, disk>>
  BY DEF Unwind, poolVars
<1>2. TypeInv' /\ QuietRoot' /\ PoolInv' /\ DiskInv'
  BY <1>1, PoolUnchanged DEF IInv, TypeInv, Phases, QuietRoot, DiskInv, JobInv
<1>3. RecordsInv' /\ VerdictInv'
  BY <1>1 DEF RecordsInv, VerdictInv, Collecting
<1> QED
  BY <1>2, <1>3 DEF IInv

LEMMA JudgeStep ==
  ASSUME IInv, Judge
  PROVE  IInv'
<1> DEFINE verdict ==
      IF \A probe \in Experiments[index].probes : CheckProbe(probe) THEN "PASS" ELSE "FAIL"
<1>1. /\ phase = "collect" /\ phase' = "judged" /\ verdicts' = Append(verdicts, verdict)
      /\ \A j \in Pipelines : Collected(j)
      /\ UNCHANGED <<index, outcomes, exit, jobs, disk>>
  BY DEF Judge, poolVars
<1>2. \A j \in Pipelines : jobs[j].at = "ended"
  BY <1>1 DEF IInv, RecordsInv, Collecting, Collected
<1>3. verdicts \in Seq({"PASS", "FAIL"}) /\ Len(verdicts) = index - 1 /\ index \in Nat
  BY <1>1, ConstantFacts DEF IInv, TypeInv, VerdictInv
<1>4. /\ verdicts' \in Seq({"PASS", "FAIL"}) /\ Len(verdicts') = index
      /\ verdicts'[index] = verdict
  BY <1>1, <1>3
<1>5. TypeInv'
  BY <1>1, <1>4 DEF IInv, TypeInv, Phases
<1>6. QuietRoot' /\ PoolInv' /\ DiskInv'
  BY <1>1, <1>2, PoolUnchanged DEF IInv, QuietRoot, Finished, DiskInv, JobInv
<1>7. RecordsInv'
  BY <1>1 DEF IInv, RecordsInv, Collecting, Collected
<1>8. VerdictInv'
  <2>1. verdict = "PASS" => \A probe \in Experiments[index].probes : CheckProbe(probe)
    OBVIOUS
  <2>2. \A probe : CheckProbe(probe)' <=> CheckProbe(probe)
    BY <1>1, ProbeUnchanged
  <2>3. verdict = "PASS" => \A probe \in Experiments[index].probes : CheckProbe(probe)'
    BY <2>1, <2>2
  <2> HIDE DEF verdict
  <2> QED
    BY <1>1, <1>4, <2>3 DEF VerdictInv
<1> QED
  BY <1>5, <1>6, <1>7, <1>8 DEF IInv

LEMMA NextExperimentStep ==
  ASSUME IInv, NextExperiment
  PROVE  IInv'
<1>1. /\ phase = "judged" /\ phase' = "clear"
      /\ index < Len(Experiments) /\ index' = index + 1
      /\ UNCHANGED <<outcomes, verdicts, exit, jobs, disk>>
  BY DEF NextExperiment, poolVars
<1>2. index' \in DOMAIN Experiments /\ index \in Nat
  BY <1>1, ConstantFacts DEF IInv, TypeInv
<1>3. TypeInv' /\ QuietRoot' /\ PoolInv' /\ DiskInv'
  BY <1>1, <1>2, PoolUnchanged DEF IInv, TypeInv, Phases, QuietRoot, DiskInv
<1>4. RecordsInv' /\ VerdictInv'
  BY <1>1, <1>2 DEF IInv, RecordsInv, VerdictInv, Collecting
<1> QED
  BY <1>3, <1>4 DEF IInv

LEMMA RunAllReturnsStep ==
  ASSUME IInv, RunAllReturns
  PROVE  IInv'
<1>1. /\ phase = "judged" /\ phase' = "down" /\ exit' \in {"success", "failure"}
      /\ UNCHANGED <<index, outcomes, verdicts, jobs, disk>>
  BY DEF RunAllReturns, poolVars
<1>2. TypeInv' /\ QuietRoot' /\ PoolInv' /\ DiskInv'
  BY <1>1, PoolUnchanged DEF IInv, TypeInv, Phases, QuietRoot, DiskInv, JobInv
<1>3. RecordsInv' /\ VerdictInv'
  BY <1>1 DEF RecordsInv, VerdictInv, Collecting
<1> QED
  BY <1>2, <1>3 DEF IInv

\* With no jobs there is nothing to say of them.
LEMMA NoJobs ==
  ASSUME jobs' = [j \in Pipelines |-> NoJob]
  PROVE  /\ jobs' \in [Pipelines -> JobRecord]
         /\ QuietRoot' /\ PoolInv' /\ DiskInv'
<1>1. \A j \in Pipelines : jobs'[j].at = "none"
  BY NoJobFacts
<1>2. QuietRoot' /\ DiskInv'
  BY <1>1 DEF QuietRoot, DiskInv, JobInv
<1>3. Active' = {}
  BY <1>1 DEF Active, Running
<1> QED
  BY <1>2, <1>3, NoJobFacts, FS_EmptySet, ConstantFacts DEF PoolInv

LEMMA LaunchStep ==
  ASSUME IInv, Launch
  PROVE  IInv'
<1>1. /\ phase' = "clear" /\ index' = 1 /\ verdicts' = <<>> /\ exit' = "none"
      /\ jobs' = [j \in Pipelines |-> NoJob]
      /\ UNCHANGED <<disk, outcomes>>
  BY DEF Launch
<1>2. TypeInv'
  BY <1>1, NoJobs, ConstantFacts DEF IInv, TypeInv, Phases
<1>3. RecordsInv' /\ VerdictInv'
  BY <1>1 DEF RecordsInv, VerdictInv, Collecting
<1> QED
  BY <1>1, <1>2, <1>3, NoJobs DEF IInv

LEMMA KillStep ==
  ASSUME IInv, Kill
  PROVE  IInv'
<1>1. /\ phase' = "down" /\ exit' = "killed"
      /\ jobs' = [j \in Pipelines |-> NoJob]
      /\ UNCHANGED <<index, disk, outcomes, verdicts>>
  BY DEF Kill
<1>2. TypeInv'
  BY <1>1, NoJobs DEF IInv, TypeInv, Phases
<1>3. RecordsInv' /\ VerdictInv'
  BY <1>1 DEF RecordsInv, VerdictInv, Collecting
<1> QED
  BY <1>1, <1>2, <1>3, NoJobs DEF IInv

LEMMA StutterStep ==
  ASSUME IInv, UNCHANGED vars
  PROVE  IInv'
<1>1. UNCHANGED <<phase, index, jobs, disk, outcomes, verdicts, exit>>
  BY DEF vars
<1>2. TypeInv' /\ QuietRoot' /\ PoolInv' /\ DiskInv'
  BY <1>1, PoolUnchanged DEF IInv, TypeInv, QuietRoot, DiskInv, JobInv
<1>3. RecordsInv' /\ VerdictInv'
  BY <1>1, VerdictUnchanged DEF IInv, RecordsInv, Collected
<1> QED
  BY <1>2, <1>3 DEF IInv

LEMMA InitHolds == Init => IInv
<1> SUFFICES ASSUME Init PROVE IInv
  OBVIOUS
<1>1. \A j \in Pipelines : jobs[j] = NoJob /\ disk[j] = NoCheckpoint
  BY DEF Init
<1>2. TypeInv
  BY ConstantFacts, NoJobFacts DEF Init, TypeInv, Phases
<1>3. QuietRoot /\ DiskInv
  BY <1>1, NoJobFacts DEF QuietRoot, DiskInv, JobInv
<1>4. Active = {}
  BY <1>1, NoJobFacts DEF Active, Running
<1>5. PoolInv
  BY <1>4, FS_EmptySet, ConstantFacts DEF PoolInv
<1>6. RecordsInv /\ VerdictInv
  BY DEF Init, RecordsInv, VerdictInv, Collecting
<1> QED
  BY <1>2, <1>3, <1>5, <1>6 DEF IInv

\* The invariant that relates jobs, checkpoints, records and verdicts holds in
\* every reachable state.
THEOREM ChaosCorrect == Spec => []IInv
<1>1. IInv /\ [Next]_vars => IInv'
  BY PoolStep, ClearRootStep, SubmitJobsStep, CollectStep, CollectRaisesStep,
     UnwindStep, JudgeStep, NextExperimentStep, RunAllReturnsStep, LaunchStep,
     KillStep, StutterStep
  DEF Next, Main
<1> QED
  BY <1>1, InitHolds, PTL DEF Spec

-----------------------------------------------------------------------------
(* Theorems *)

\* Jobs, checkpoints, records and verdicts keep their types, and the pool has no
\* more threads than it may.
THEOREM ChaosTypesHold == Spec => []TypeOK
<1>1. IInv => TypeOK
  BY RecordFacts DEF IInv, TypeInv, PoolInv, TypeOK, Record
<1> QED
  BY <1>1, ChaosCorrect, PTL

\* Nothing runs when the root is cleared, an experiment judged or the program
\* over, whatever raised or was killed.
THEOREM RootAlwaysQuiet == Spec => []QuietRoot
<1>1. IInv => QuietRoot
  BY DEF IInv
<1> QED
  BY <1>1, ChaosCorrect, PTL

\* No pipeline of any experiment sees a checkpoint of another.
THEOREM CheckpointsAlwaysOwn == Spec => []OwnCheckpoints
<1>1. IInv => OwnCheckpoints
  <2> SUFFICES ASSUME IInv, NEW j \in Pipelines, phase # "clear",
                      jobs[j].at \in {"stepping", "calling", "reporting", "ended"}
               PROVE  IF disk[j] = NoCheckpoint
                      THEN jobs[j].status.is = "crashed" /\ jobs[j].answered = 0
                      ELSE disk[j] = jobs[j].answered
    BY DEF OwnCheckpoints
  <2>1. JobInv(j) /\ jobs[j].answered \in 0..Steps
    BY JobFacts DEF IInv, DiskInv
  <2> QED
    BY <2>1, ConstantFacts DEF JobInv
<1> QED
  BY <1>1, ChaosCorrect, PTL

-----------------------------------------------------------------------------
(* What a verdict is worth *)

\* Where the records of the judged experiment are complete, counting records of
\* pipelines is counting pipelines.
LEMMA RecordsCountPipelines ==
  ASSUME IInv, phase = "judged", NEW S \in SUBSET DOMAIN outcomes,
         NEW T \in SUBSET Pipelines,
         \A i \in DOMAIN outcomes : i \in S <=> outcomes[i].pipeline_id \in T
  PROVE  Cardinality(S) = Cardinality(T) /\ Cardinality(S) \in Nat
<1> DEFINE f == [i \in S |-> outcomes[i].pipeline_id]
<1>1. IsFiniteSet(T)
  <2>1. IsFiniteSet(Pipelines)
    BY ConstantFacts, FS_Interval DEF Pipelines
  <2> QED
    BY <2>1, FS_Subset
<1>2. f \in [S -> T]
  OBVIOUS
<1>3. \A i, k \in S : f[i] = f[k] => i = k
  BY DEF IInv, RecordsInv, Collecting
<1>4. \A j \in T : \E i \in S : f[i] = j
  BY DEF IInv, RecordsInv, Collected
<1>5. f \in Injection(S, T) /\ f \in Surjection(S, T)
  BY <1>2, <1>3, <1>4 DEF Injection, Surjection, IsInjective
<1> HIDE DEF f
<1> QED
  BY <1>1, <1>5, FS_Injection, FS_CardinalityType

LEMMA AggregateFacts ==
  /\ Aggregate.completion_rate = Cardinality(Of("completed"))
  /\ Aggregate.crash_rate = Cardinality(Of("crashed"))
  /\ Aggregate.state_integrity_rate = Cardinality(Valid)
  /\ {"completion_rate", "crash_rate", "state_integrity_rate"} \subseteq DOMAIN Aggregate
BY DEF Aggregate

LEMMA RecordSetFacts ==
  ASSUME IInv, NEW S \in SUBSET DOMAIN outcomes
  PROVE  /\ IsFiniteSet(S) /\ Cardinality(S) \in Nat /\ Len(outcomes) \in Nat
         /\ Cardinality(S) = 0 => S = {}
         /\ Cardinality(S) = Len(outcomes) => S = DOMAIN outcomes
         /\ Cardinality(S) <= Len(outcomes)
         /\ Cardinality(DOMAIN outcomes) = Len(outcomes)
<1>1. /\ Len(outcomes) \in Nat /\ DOMAIN outcomes = 1..Len(outcomes)
      /\ IsFiniteSet(DOMAIN outcomes) /\ Cardinality(DOMAIN outcomes) = Len(outcomes)
  BY RecordFacts, FS_Interval DEF IInv
<1>2. IsFiniteSet(S) /\ Cardinality(S) \in Nat
  BY <1>1, FS_Subset, FS_CardinalityType
<1>3. Cardinality(S) = 0 => S = {}
  BY <1>2, FS_EmptySet
<1>4. /\ Cardinality(S) <= Cardinality(DOMAIN outcomes)
      /\ Cardinality(DOMAIN outcomes) = Cardinality(S) => DOMAIN outcomes = S
  BY <1>1, FS_Subset
<1> QED
  BY <1>1, <1>2, <1>3, <1>4

LEMMA ProbeFacts ==
  ASSUME TypeInv, NEW probe \in Experiments[index].probes
  PROVE  probe.name \in STRING /\ probe.min \in 0..100 /\ probe.max \in 0..100
<1> DEFINE Probes == [name : STRING, min : 0..100, max : 0..100]
<1> DEFINE Hypothesis == [poison_prob : {0, 5, 30}, probes : SUBSET Probes]
<1>1. Experiments \in Seq(Hypothesis) /\ index \in DOMAIN Experiments
  BY ExperimentsAssumption, Zenon DEF TypeInv
<1> HIDE DEF Hypothesis
<1>2. Experiments[index] \in Hypothesis
  BY <1>1
<1> HIDE DEF Probes
<1>3. Experiments[index] \in [poison_prob : {0, 5, 30}, probes : SUBSET Probes]
  BY <1>2 DEF Hypothesis
<1>4. probe \in Probes
  BY <1>3
<1> QED
  BY <1>4 DEF Probes

\* A probe that was passed bounds the part it counts.
LEMMA PassedProbe ==
  ASSUME IInv, phase = "judged", verdicts[index] = "PASS",
         NEW probe \in Experiments[index].probes
  PROVE  /\ probe.name \in DOMAIN Aggregate
         /\ probe.min * Len(outcomes) <= 100 * Aggregate[probe.name]
         /\ 100 * Aggregate[probe.name] <= probe.max * Len(outcomes)
BY DEF IInv, VerdictInv, CheckProbe

\* A PASS of a hypothesis without tolerance for crashes and lost states is
\* earned, for any experiments, pipelines, steps and failures.
THEOREM PassAlwaysEarned == Spec => []PassIsEarned
<1>1. IInv => PassIsEarned
  <2> SUFFICES ASSUME IInv, phase = "judged", verdicts[index] = "PASS",
                      Demands("crash_rate", 0, 0),
                      Demands("state_integrity_rate", 100, 100)
               PROVE  /\ \A j \in Pipelines :
                           /\ jobs[j].at = "ended" /\ disk[j] # NoCheckpoint
                           /\ jobs[j].status.is \in {"completed", "aborted"}
                           /\ jobs[j].status.is = "completed" <=> disk[j] = Steps
                           /\ jobs[j].poisoned => jobs[j].answered = 0
                      /\ \A probe \in Experiments[index].probes :
                           probe.name = "completion_rate" =>
                             100 * Cardinality({j \in Pipelines : jobs[j].answered = Steps})
                               \in (probe.min * n_pipelines)..(probe.max * n_pipelines)
    BY DEF PassIsEarned
  <2>1. Of("crashed") = {}
    <3>1. PICK probe \in Experiments[index].probes :
            probe.name = "crash_rate" /\ probe.min >= 0 /\ probe.max <= 0
      BY DEF Demands
    <3>2. probe.max = 0
      BY <3>1, ProbeFacts DEF IInv
    <3>3. 100 * Cardinality(Of("crashed")) <= 0 * Len(outcomes)
      BY <3>1, <3>2, PassedProbe, AggregateFacts
    <3>4. Cardinality(Of("crashed")) \in Nat /\ Len(outcomes) \in Nat
          /\ (Cardinality(Of("crashed")) = 0 => Of("crashed") = {})
      BY RecordSetFacts DEF Of
    <3> QED
      BY <3>3, <3>4
  <2>2. Valid = DOMAIN outcomes
    <3>1. PICK probe \in Experiments[index].probes :
            probe.name = "state_integrity_rate" /\ probe.min >= 100 /\ probe.max <= 100
      BY DEF Demands
    <3>2. probe.min = 100
      BY <3>1, ProbeFacts DEF IInv
    <3>3. 100 * Len(outcomes) <= 100 * Cardinality(Valid)
      BY <3>1, <3>2, PassedProbe, AggregateFacts
    <3>4. /\ Cardinality(Valid) \in Nat /\ Len(outcomes) \in Nat
          /\ Cardinality(Valid) <= Len(outcomes)
          /\ (Cardinality(Valid) = Len(outcomes) => Valid = DOMAIN outcomes)
      BY RecordSetFacts DEF Valid
    <3> QED
      BY <3>3, <3>4
  <2>3. ASSUME NEW j \in Pipelines
        PROVE  /\ jobs[j].at = "ended" /\ disk[j] # NoCheckpoint
               /\ jobs[j].status.is \in {"completed", "aborted"}
               /\ jobs[j].status.is = "completed" <=> jobs[j].answered = Steps
               /\ disk[j] = jobs[j].answered
               /\ jobs[j].poisoned => jobs[j].answered = 0
    <3>1. PICK i \in DOMAIN outcomes : outcomes[i].pipeline_id = j
      BY DEF IInv, RecordsInv, Collected
    <3>2. jobs[j].at = "ended" /\ outcomes[i].status = jobs[j].status
          /\ outcomes[i].valid = jobs[j].valid
      BY <3>1 DEF IInv, RecordsInv, Collecting
    <3>3. outcomes[i].valid /\ outcomes[i].status.is # "crashed"
      BY <2>1, <2>2 DEF Valid, Of
    <3>4. JobInv(j)
      BY DEF IInv, DiskInv
    <3> QED
      BY <3>2, <3>3, <3>4 DEF JobInv
  <2>4. ASSUME NEW probe \in Experiments[index].probes, probe.name = "completion_rate"
        PROVE  100 * Cardinality({j \in Pipelines : jobs[j].answered = Steps})
                 \in (probe.min * n_pipelines)..(probe.max * n_pipelines)
    <3> DEFINE All == {j \in Pipelines : jobs[j].answered = Steps}
    <3>1. \A i \in DOMAIN outcomes :
            /\ outcomes[i].pipeline_id \in Pipelines
            /\ outcomes[i].status = jobs[outcomes[i].pipeline_id].status
      BY RecordFacts DEF IInv, RecordsInv, Collecting
    <3>2. \A i \in DOMAIN outcomes :
            i \in Of("completed") <=> outcomes[i].pipeline_id \in All
      BY <2>3, <3>1 DEF Of
    <3>3. /\ Cardinality(Of("completed")) = Cardinality(All)
          /\ Cardinality(Of("completed")) \in Nat
      <4>1. Of("completed") \in SUBSET DOMAIN outcomes /\ All \in SUBSET Pipelines
        BY DEF Of
      <4> HIDE DEF All
      <4> QED
        BY <3>2, <4>1, RecordsCountPipelines
    <3>4. Len(outcomes) = n_pipelines
      <4>1. \A i \in DOMAIN outcomes :
              i \in DOMAIN outcomes <=> outcomes[i].pipeline_id \in Pipelines
        BY <3>1
      <4>2. Cardinality(DOMAIN outcomes) = Cardinality(Pipelines)
        BY <4>1, RecordsCountPipelines
      <4>3. Cardinality(Pipelines) = n_pipelines
        BY ConstantFacts, FS_Interval DEF Pipelines
      <4>4. Cardinality(DOMAIN outcomes) = Len(outcomes)
        BY RecordSetFacts
      <4> QED
        BY <4>2, <4>3, <4>4
    <3>5. /\ probe.min * n_pipelines <= 100 * Cardinality(All)
          /\ 100 * Cardinality(All) <= probe.max * n_pipelines
      BY <2>4, <3>3, <3>4, PassedProbe, AggregateFacts
    <3> HIDE DEF All
    <3>6. /\ probe.min * n_pipelines \in Int /\ probe.max * n_pipelines \in Int
          /\ 100 * Cardinality(All) \in Int
      <4>1. TypeInv /\ n_pipelines \in Nat
        BY ConstantFacts DEF IInv
      <4>2. probe.min \in 0..100 /\ probe.max \in 0..100
        BY <4>1, ProbeFacts
      <4> QED
        BY <3>3, <4>1, <4>2
    <3>7. 100 * Cardinality(All) \in (probe.min * n_pipelines)..(probe.max * n_pipelines)
      BY <3>5, <3>6
    <3> QED
      BY <3>7 DEF All
  <2> QED
    BY <2>3, <2>4
<1> QED
  BY <1>1, ChaosCorrect, PTL

=============================================================================
