----------------------------- MODULE StateStore -----------------------------
(***************************************************************************)
(* StateStore.save_checkpoint, load_latest, append_event, read_events and  *)
(* gc_temp_files, one system call at a time, on the directory of one       *)
(* pipeline.  A process may be killed between any two calls, the whole     *)
(* machine may lose power, and the same pipeline_id may be run by several  *)
(* processes: nothing locks it.                                            *)
(*                                                                         *)
(* The file system is the weakest one the code relies on.  A directory     *)
(* maps names to inodes; changes to it are journalled in order, and after  *)
(* a power failure the directory is what some prefix of the journal says.  *)
(* Data written to an inode reaches the platter when the kernel writes it  *)
(* back, at the latest by fsync.  The event log is never fsynced: its size *)
(* is journalled at some time after each append, its data is written front *)
(* to back, and a power failure cuts it anywhere behind what is safe.      *)
(***************************************************************************)
EXTENDS Integers, Sequences, FiniteSets, SequencesExt

CONSTANTS
  States,        \* the PipelineStates saved
  Unencodable,   \* those that UTF-8 cannot encode
  Pids,          \* processes running this pipeline_id
  Inodes,        \* bound: files that exist at a time, one per save
  MaxSaves,      \* bound: calls of save_checkpoint
  MaxSweeps,     \* bound: calls of gc_temp_files
  MaxFailures,   \* bound: killed processes and power failures together
  NoCheckpoint,  \* no state.json
  Empty, Torn    \* file contents: none, and the first part of a state or line

ASSUME StoreAssumption ==
  /\ Unencodable \subseteq States
  /\ States \cap {NoCheckpoint, Empty, Torn} = {}
  /\ NoCheckpoint \notin {Empty, Torn} /\ Empty # Torn
  /\ MaxSaves \in Nat /\ MaxSweeps \in Nat /\ MaxFailures \in Nat

VARIABLES
  journal,   \* the directory after each change, with the lines of the log and
             \* the states saved until then; the first is on the platter, the
             \* last is current
  cached,    \* inode -> contents a process reads
  platter,   \* inode -> contents that survive a power failure
  log,       \* event_log.jsonl: CheckpointWritten lines, each as the state
             \* it is about
  safe,      \* how many of them survived the last power failure
  proc,      \* process -> where it is in save_checkpoint, or after it
  saves, sweeps, failures  \* calls and failures so far

vars == <<journal, cached, platter, log, safe, proc, saves, sweeps, failures>>

-----------------------------------------------------------------------------
(* A file name is the sequence of its dot-separated parts. *)

StatePath == <<"state", "json">>

\* Slip: one temporary file for all processes.
SlipTmpPath(p) == <<"state", "tmp">>

\* path.with_suffix replaces the last part of state.json.
TmpPath(p) == Front(StatePath) \o <<"tmp", p>>

\* The pattern state.json.tmp.* of gc_temp_files.
MatchesGlob(name) == IsStrictPrefix(<<"state", "json", "tmp">>, name)

\* The files save_checkpoint may leave in the directory.
Paths == {StatePath} \cup {<<"state", "tmp", p>> : p \in Pids}
Contents == States \cup {Empty, Torn}

Dir == Last(journal).dir

\* What load_latest returns, given a directory and the contents of inodes.
LoadFrom(dir, contents) ==
  IF StatePath \in DOMAIN dir THEN contents[dir[StatePath]] ELSE NoCheckpoint

UsedInodes ==
  (UNION {Range(journal[i].dir) : i \in 1..Len(journal)}) \cup {proc[p].fd : p \in Pids}

Link(dir, name, inode) ==
  [n \in DOMAIN dir \cup {name} |-> IF n = name THEN inode ELSE dir[n]]

Unlink(dir, names) == [n \in DOMAIN dir \ names |-> dir[n]]

Journal(dir, saved) ==
  journal' = Append(journal, [dir |-> dir, lines |-> Len(log), saved |-> saved])

Saved == Last(journal).saved

\* The lines that can be on the platter if the i-th directory is.
Reachable(i) == IF i < Len(journal) THEN journal[i + 1].lines ELSE Len(log)

\* read_events raises at the first line that is no JSON document.  What is
\* appended after the first part of a line continues that line.
ReadEvents(lines) ==
  {lines[i] : i \in {k \in 1..Len(lines) : \A j \in 1..k : lines[j] # Torn}}

\* Between calls of save_checkpoint; in it: the next system call, the state it
\* was called with and the inode it writes.
Idle == [pc |-> "idle", state |-> NoCheckpoint, fd |-> NoCheckpoint]

InSave(p) == proc[p].pc \in {"write", "flush", "fsync", "replace"}

-----------------------------------------------------------------------------
Init ==
  /\ journal = <<[dir |-> [name \in {} |-> NoCheckpoint], lines |-> 0, saved |-> {}]>>
  /\ cached = [i \in Inodes |-> Empty]
  /\ platter = [i \in Inodes |-> Empty]
  /\ log = <<>> /\ safe = 0
  /\ proc = [p \in Pids |-> Idle]
  /\ saves = 0 /\ sweeps = 0 /\ failures = 0

Advance(p, label) == proc' = [proc EXCEPT ![p].pc = label]

\* save_checkpoint has raised, the event is appended, or the process is gone.
Leave(p) == proc' = [proc EXCEPT ![p] = Idle]

\* save_checkpoint returns; the file is closed.
Return(p) == proc' = [proc EXCEPT ![p].pc = "saved", ![p].fd = NoCheckpoint]

\* Slip: CheckpointWritten is appended before the save, not after it.
SlipOpen(p, s) ==
  /\ proc[p] = Idle
  /\ saves < MaxSaves
  /\ saves' = saves + 1
  /\ LET inode == CHOOSE i \in Inodes : i \notin UsedInodes
     IN  /\ Journal(Link(Dir, TmpPath(p), inode), Saved)
         /\ platter' = [platter EXCEPT ![inode] = Empty]
         /\ cached' = [cached EXCEPT ![inode] = Empty]
         /\ proc' = [proc EXCEPT ![p] = [pc |-> "write", state |-> s, fd |-> inode]]
  /\ log' = Append(log, s)
  /\ UNCHANGED <<safe, sweeps, failures>>

\* open(tmp, "w") creates the file, or truncates the one a dead process with
\* the same pid left behind.
Open(p, s) ==
  /\ proc[p] = Idle
  /\ saves < MaxSaves
  /\ saves' = saves + 1
  /\ LET left == TmpPath(p) \in DOMAIN Dir
         free == Inodes \ UsedInodes
         inode == IF left THEN Dir[TmpPath(p)] ELSE CHOOSE i \in free : TRUE
     IN  /\ left \/ free # {}
         /\ IF left THEN UNCHANGED <<journal, platter>>
            ELSE /\ Journal(Link(Dir, TmpPath(p), inode), Saved)
                 /\ platter' = [platter EXCEPT ![inode] = Empty]
         /\ cached' = [cached EXCEPT ![inode] = Empty]
         /\ proc' = [proc EXCEPT ![p] = [pc |-> "write", state |-> s, fd |-> inode]]
  /\ UNCHANGED <<log, safe, sweeps, failures>>

\* f.write raises while it encodes; the empty file stays.
WriteRaises(p) ==
  /\ proc[p].pc = "write"
  /\ proc[p].state \in Unencodable
  /\ Leave(p)
  /\ UNCHANGED <<journal, cached, platter, log, safe, saves, sweeps, failures>>

\* f.write and f.flush: the first part of the state, then all of it.
Write(p) ==
  /\ proc[p].pc = "write"
  /\ proc[p].state \notin Unencodable
  /\ cached' = [cached EXCEPT ![proc[p].fd] = Torn]
  /\ Advance(p, "flush")
  /\ UNCHANGED <<journal, platter, log, safe, saves, sweeps, failures>>

Flush(p) ==
  /\ proc[p].pc = "flush"
  /\ cached' = [cached EXCEPT ![proc[p].fd] = proc[p].state]
  /\ Advance(p, "fsync")
  /\ UNCHANGED <<journal, platter, log, safe, saves, sweeps, failures>>

\* Slip: no os.fsync.
SlipFsync(p) ==
  /\ proc[p].pc = "fsync"
  /\ Advance(p, "replace")
  /\ UNCHANGED <<journal, cached, platter, log, safe, saves, sweeps, failures>>

Fsync(p) ==
  /\ proc[p].pc = "fsync"
  /\ platter' = [platter EXCEPT ![proc[p].fd] = cached[proc[p].fd]]
  /\ Advance(p, "replace")
  /\ UNCHANGED <<journal, cached, log, safe, saves, sweeps, failures>>

\* Slip: the old file is removed before the new one is renamed.
SlipReplace(p) ==
  /\ proc[p].pc = "replace"
  /\ TmpPath(p) \in DOMAIN Dir
  /\ LET saved == Saved \cup {proc[p].state} IN
     journal' = journal \o
       <<[dir |-> Unlink(Dir, {StatePath}), lines |-> Len(log), saved |-> Saved],
         [dir |-> Unlink(Link(Dir, StatePath, Dir[TmpPath(p)]), {TmpPath(p)}),
          lines |-> Len(log), saved |-> saved]>>
  /\ Return(p)
  /\ UNCHANGED <<cached, platter, log, safe, saves, sweeps, failures>>

\* os.replace(tmp, path); TmpInPlace says that it finds its source.
Replace(p) ==
  /\ proc[p].pc = "replace"
  /\ TmpPath(p) \in DOMAIN Dir
  /\ Journal(Unlink(Link(Dir, StatePath, Dir[TmpPath(p)]), {TmpPath(p)}),
             Saved \cup {proc[p].state})
  /\ Return(p)
  /\ UNCHANGED <<cached, platter, log, safe, saves, sweeps, failures>>

\* append_event of CheckpointWritten: one write of the whole line.
AppendEvent(p) ==
  /\ proc[p].pc = "saved"
  /\ log' = Append(log, proc[p].state)
  /\ Leave(p)
  /\ UNCHANGED <<journal, cached, platter, safe, saves, sweeps, failures>>

\* gc_temp_files, called by anyone at any time.
GcTempFiles ==
  /\ sweeps < MaxSweeps
  /\ sweeps' = sweeps + 1
  /\ LET matched == {name \in DOMAIN Dir : MatchesGlob(name)}
     IN  IF matched = {} THEN UNCHANGED journal ELSE Journal(Unlink(Dir, matched), Saved)
  /\ UNCHANGED <<cached, platter, log, safe, proc, saves, failures>>

(***************************************************************************)
(* The environment: the kernel writes back data and commits the journal in *)
(* its own time; processes are killed; the power fails.                    *)
(***************************************************************************)
WriteBack(inode) ==
  /\ platter[inode] # cached[inode]
  /\ platter' = [platter EXCEPT ![inode] = cached[inode]]
  /\ UNCHANGED <<journal, cached, log, safe, proc, saves, sweeps, failures>>

CommitJournal ==
  /\ Len(journal) > 1
  /\ journal' = Tail(journal)
  /\ UNCHANGED <<cached, platter, log, safe, proc, saves, sweeps, failures>>

Kill(p) ==
  /\ proc[p] # Idle
  /\ failures < MaxFailures
  /\ failures' = failures + 1
  /\ Leave(p)
  /\ UNCHANGED <<journal, cached, platter, log, safe, saves, sweeps>>

PowerFailure ==
  /\ failures < MaxFailures
  /\ failures' = failures + 1
  /\ \E i \in 1..Len(journal) : \E k \in safe..Reachable(i) :
       /\ \/ log' = SubSeq(log, 1, k)
          \/ k < Reachable(i) /\ log' = Append(SubSeq(log, 1, k), Torn)
       /\ journal' = <<[journal[i] EXCEPT !.lines = Len(log')]>>
  /\ safe' = Len(log')
  /\ cached' = platter
  /\ proc' = [p \in Pids |-> Idle]
  /\ UNCHANGED <<platter, saves, sweeps>>

Next ==
  \/ \E p \in Pids :
       \/ \E s \in States : Open(p, s)
       \/ WriteRaises(p) \/ Write(p) \/ Flush(p) \/ Fsync(p)
       \/ Replace(p) \/ AppendEvent(p) \/ Kill(p)
  \/ GcTempFiles
  \/ \E inode \in Inodes : WriteBack(inode)
  \/ CommitJournal
  \/ PowerFailure

Spec == Init /\ [][Next]_vars

-----------------------------------------------------------------------------
(* Properties *)

TypeOK ==
  /\ \A i \in 1..Len(journal) :
       /\ DOMAIN journal[i].dir \subseteq Paths /\ Range(journal[i].dir) \subseteq Inodes
       /\ journal[i].lines \in 0..Len(log) /\ journal[i].saved \subseteq States
  /\ cached \in [Inodes -> Contents]
  /\ platter \in [Inodes -> Contents]
  /\ log \in Seq(States \cup {Torn}) /\ safe \in 0..Len(log)
  /\ \A p \in Pids :
       \/ proc[p] = Idle
       \/ InSave(p) /\ proc[p].state \in States /\ proc[p].fd \in Inodes
       \/ proc[p] \in [pc : {"saved"}, state : States, fd : {NoCheckpoint}]

\* load_latest never meets a torn or an empty state.json: not now, whichever
\* process was killed where, and not after a power failure at this instant,
\* whatever part of the journal and of the written data survives it.
NeverTorn ==
  /\ LoadFrom(Dir, cached) \in States \cup {NoCheckpoint}
  /\ \A i \in 1..Len(journal) :
       LoadFrom(journal[i].dir, platter) \in States \cup {NoCheckpoint}

\* os.replace never raises: no other process's save or gc_temp_files takes the
\* temporary file away from under a save.
TmpInPlace ==
  \A p \in Pids : InSave(p) =>
    TmpPath(p) \in DOMAIN Dir /\ Dir[TmpPath(p)] = proc[p].fd

\* A save that returns has installed the state it was called with, also while
\* another process saves the same pipeline.
InstallsOwnState ==
  [][\A p \in Pids : Replace(p) => LoadFrom(Dir', cached') = proc[p].state]_vars

\* The log is never ahead of the checkpoints: each CheckpointWritten that
\* read_events can return, now or after a power failure at this instant, is
\* about a state that has been state.json in what survives of the directory,
\* however much of the log and of its last line is lost.
EventsExplained ==
  \A i \in 1..Len(journal) :
    ReadEvents(SubSeq(log, 1, Reachable(i))) \subseteq journal[i].saved

\* The directory keeps the promise of AtomicCheckpoint.
Checkpoint ==
  INSTANCE AtomicCheckpoint WITH
    current <- LoadFrom(Dir, cached),
    recoverable <- {LoadFrom(journal[i].dir, platter) : i \in 1..Len(journal)}

ImplementsAtomicCheckpoint == Checkpoint!Spec

\* "Remove orphan *.tmp.<pid> files left by previous crashes"
\* (src/state/store.py): no temporary file of a process that is not in
\* save_checkpoint is left after gc_temp_files.
Orphans == {p \in Pids : ~InSave(p) /\ TmpPath(p) \in DOMAIN Dir}

OrphansCollected == [][sweeps' # sweeps => Orphans' = {}]_vars

=============================================================================
