--------------------------- MODULE StoreInvariant ---------------------------
(***************************************************************************)
(* The inductive invariant of StateStore: what is true of every directory  *)
(* that a power failure may bring back, of the files in it and of the log. *)
(***************************************************************************)
EXTENDS StateStore

Dirs == UNION {[names -> Inodes] : names \in SUBSET Paths}

Entry == [dir : Dirs, lines : Nat, saved : SUBSET States]

Process ==
  [pc : {"idle", "write", "flush", "fsync", "replace", "saved"},
   state : States \cup {NoCheckpoint}, fd : Inodes \cup {NoCheckpoint}]

TypeInv ==
  /\ journal \in Seq(Entry) /\ journal # <<>>
  /\ cached \in [Inodes -> Contents]
  /\ platter \in [Inodes -> Contents]
  /\ log \in Seq(States \cup {Torn}) /\ safe \in 0..Len(log)
  /\ proc \in [Pids -> Process]
  /\ \A p \in Pids :
       /\ proc[p].pc = "idle" => proc[p] = Idle
       /\ proc[p].pc # "idle" => proc[p].state \in States
       /\ InSave(p) => proc[p].fd \in Inodes
       /\ proc[p].pc = "saved" => proc[p].fd = NoCheckpoint

\* No file has two names.
OneName(dir) == \A a, b \in DOMAIN dir : dir[a] = dir[b] => a = b

NamesInv == \A i \in DOMAIN journal : OneName(journal[i].dir)

\* What a process in save_checkpoint has done to its file so far.
SaveInv ==
  /\ TmpInPlace
  /\ \A p \in Pids :
       /\ proc[p].pc \in {"flush", "fsync", "replace"} => proc[p].state \notin Unencodable
       /\ proc[p].pc \in {"fsync", "replace"} => cached[proc[p].fd] = proc[p].state
       /\ proc[p].pc = "replace" => platter[proc[p].fd] = proc[p].state

\* A file that is state.json now, or may be after a power failure, is whole, is
\* on the platter, and will not be written again.
Installed(dir) ==
  StatePath \in DOMAIN dir =>
    LET inode == dir[StatePath]
    IN  /\ cached[inode] \in States /\ platter[inode] = cached[inode]
        /\ \A p \in Pids : TmpPath(p) \in DOMAIN Dir => Dir[TmpPath(p)] # inode

FilesInv == \A i \in DOMAIN journal : Installed(journal[i].dir)

\* Later directories come with more lines and more saves.
OrderInv ==
  /\ \A i \in DOMAIN journal : journal[i].lines <= Len(log)
  /\ \A i, k \in DOMAIN journal :
       i <= k => journal[i].lines <= journal[k].lines /\ journal[i].saved \subseteq journal[k].saved

\* A line that can be read if the i-th directory survives.
Readable(i, k) ==
  /\ k \in 1..Reachable(i)
  /\ \A j \in 1..k : log[j] # Torn

EventInv ==
  /\ \A i \in DOMAIN journal : \A k \in 1..Len(log) :
       Readable(i, k) => log[k] \in journal[i].saved
  /\ \A p \in Pids : proc[p].pc = "saved" => proc[p].state \in Saved

IInv ==
  TypeInv /\ NamesInv /\ SaveInv /\ FilesInv /\ OrderInv /\ EventInv

=============================================================================
