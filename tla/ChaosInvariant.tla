--------------------------- MODULE ChaosInvariant ---------------------------
(* The inductive invariant of ChaosExperiment. *)
EXTENDS ChaosExperiment

Record == [pipeline_id : Pipelines, status : Statuses, valid : BOOLEAN]

TypeInv ==
  /\ phase \in Phases
  /\ index \in DOMAIN Experiments
  /\ jobs \in [Pipelines -> JobRecord]
  /\ disk \in [Pipelines -> 0..Steps \cup {NoCheckpoint}]
  /\ outcomes \in Seq(Record)
  /\ verdicts \in Seq({"PASS", "FAIL"})
  /\ exit \in {"none", "success", "failure", "error", "killed"}

\* The pool has no more threads than it may.
PoolInv == Cardinality(Active) <= concurrency

\* What the thread of a pipeline knows, and what is on the disk for it.
JobInv(j) ==
  /\ jobs[j].at \in {"queued", "running", "raised"} =>
       disk[j] = NoCheckpoint /\ jobs[j].step = 0 /\ jobs[j].answered = 0
  /\ jobs[j].at \in {"stepping", "calling"} =>
       /\ disk[j] = jobs[j].answered /\ jobs[j].step = jobs[j].answered
       /\ jobs[j].poisoned => jobs[j].answered = 0
  /\ jobs[j].at = "calling" => jobs[j].step < Steps /\ ~jobs[j].poisoned
  /\ jobs[j].at \in {"reporting", "ended"} =>
       /\ \/ disk[j] = NoCheckpoint /\ jobs[j].status.is = "crashed" /\ jobs[j].answered = 0
          \/ disk[j] = jobs[j].answered
       /\ jobs[j].status.is = "completed" <=> jobs[j].answered = Steps
       /\ jobs[j].status.is \in {"completed", "aborted", "crashed"}
       /\ jobs[j].poisoned => jobs[j].answered = 0
  /\ jobs[j].at = "ended" => jobs[j].valid = (disk[j] # NoCheckpoint)

\* While the root is cleared the checkpoints of the last experiment go away.
DiskInv == phase # "clear" => \A j \in Pipelines : JobInv(j)

Collecting == {"collect", "unwind", "judged"}

\* The records are those of jobs that have ended, one of each.
RecordsInv ==
  /\ phase \in Collecting =>
       /\ \A i \in DOMAIN outcomes :
            LET j == outcomes[i].pipeline_id
            IN  /\ jobs[j].at = "ended"
                /\ outcomes[i].status = jobs[j].status
                /\ outcomes[i].valid = jobs[j].valid
       /\ \A i, k \in DOMAIN outcomes :
            outcomes[i].pipeline_id = outcomes[k].pipeline_id => i = k
  /\ phase = "judged" => \A j \in Pipelines : Collected(j)

\* There is a verdict for each experiment that was judged, and the last one was
\* reached with the records that are still there.
VerdictInv ==
  /\ phase \in {"clear", "collect"} => Len(verdicts) = index - 1
  /\ phase = "judged" =>
       /\ Len(verdicts) = index
       /\ verdicts[index] = "PASS" =>
            \A probe \in Experiments[index].probes : CheckProbe(probe)

IInv ==
  TypeInv /\ QuietRoot /\ PoolInv /\ DiskInv /\ RecordsInv /\ VerdictInv

=============================================================================
