----------------------------- MODULE StoreProofs -----------------------------
(***************************************************************************)
(* Theorems about StateStore, for any number of processes, states, files,  *)
(* saves and failures.                                                     *)
(***************************************************************************)
EXTENDS StoreInvariant, SequenceTheorems, TLAPS

-----------------------------------------------------------------------------
(* Names *)

LEMMA TmpPathIs == \A p : TmpPath(p) = <<"state", "tmp", p>>
<1> SUFFICES ASSUME NEW p PROVE TmpPath(p) = <<"state", "tmp", p>>
  OBVIOUS
<1> DEFINE Parts == {"state", "json", "tmp", p}
<1>1. /\ StatePath \in Seq(Parts) /\ <<"tmp", p>> \in Seq(Parts)
      /\ <<"state">> \in Seq(Parts) /\ <<"state", "tmp", p>> \in Seq(Parts)
      /\ Len(StatePath) = 2 /\ StatePath[1] = "state"
  BY DEF StatePath
<1>2. /\ Front(StatePath) \in Seq(Parts) /\ Len(Front(StatePath)) = 1
      /\ Front(StatePath)[1] = "state"
  BY <1>1 DEF Front
<1>3. Front(StatePath) = <<"state">>
  BY <1>1, <1>2, SeqEqual
<1>4. /\ <<"state">> \o <<"tmp", p>> \in Seq(Parts)
      /\ Len(<<"state">> \o <<"tmp", p>>) = 3
      /\ \A i \in 1..3 : (<<"state">> \o <<"tmp", p>>)[i] = <<"state", "tmp", p>>[i]
  BY <1>1, ConcatProperties
<1>5. <<"state">> \o <<"tmp", p>> = <<"state", "tmp", p>>
  BY <1>1, <1>4, SeqEqual
<1> QED
  BY <1>3, <1>5 DEF TmpPath

\* Each process has a file name of its own, which is not state.json.
LEMMA PathFacts ==
  /\ StatePath \in Paths
  /\ \A p \in Pids : TmpPath(p) \in Paths /\ TmpPath(p) # StatePath
  /\ \A p, q \in Pids : TmpPath(p) = TmpPath(q) => p = q
<1>1. \A p \in Pids : TmpPath(p) \in Paths
  BY TmpPathIs DEF Paths
<1>2. \A p : Len(<<"state", "tmp", p>>) = 3 /\ <<"state", "tmp", p>>[3] = p
  OBVIOUS
<1>3. Len(StatePath) = 2
  BY DEF StatePath
<1> QED
  BY <1>1, <1>2, <1>3, TmpPathIs DEF Paths

\* The pattern of gc_temp_files matches no name that save_checkpoint uses.
LEMMA NothingMatches == \A name \in Paths : ~MatchesGlob(name)
<1> SUFFICES ASSUME NEW name \in Paths, MatchesGlob(name) PROVE FALSE
  OBVIOUS
<1> DEFINE glob == <<"state", "json", "tmp">>
<1>1. Len(glob) = 3 /\ glob[2] = "json"
  OBVIOUS
<1>2. 3 <= Len(name) /\ SubSeq(glob, 1, 3) = SubSeq(name, 1, 3)
  BY <1>1 DEF MatchesGlob, IsStrictPrefix, IsPrefix
<1>3. PICK p \in Pids : name = <<"state", "tmp", p>>
  <2>1. Len(StatePath) = 2
    BY DEF StatePath
  <2> QED
    BY <1>2, <2>1 DEF Paths
<1>4. SubSeq(glob, 1, 3)[2] = "json" /\ SubSeq(name, 1, 3)[2] = "tmp"
  BY <1>3
<1> QED
  BY <1>2, <1>4

-----------------------------------------------------------------------------
(* The journal *)

LEMMA DirFacts ==
  ASSUME NEW dir \in Dirs
  PROVE  /\ DOMAIN dir \subseteq Paths
         /\ \A name \in DOMAIN dir : dir[name] \in Inodes
BY DEF Dirs

LEMMA LinkIsDir ==
  ASSUME NEW dir \in Dirs, NEW name \in Paths, NEW inode \in Inodes
  PROVE  /\ Link(dir, name, inode) \in Dirs
         /\ DOMAIN Link(dir, name, inode) = DOMAIN dir \cup {name}
         /\ Link(dir, name, inode)[name] = inode
         /\ \A n \in DOMAIN dir : n # name => Link(dir, name, inode)[n] = dir[n]
<1>1. DOMAIN dir \cup {name} \in SUBSET Paths
  BY DirFacts
<1>2. Link(dir, name, inode) \in [DOMAIN dir \cup {name} -> Inodes]
  BY DirFacts DEF Link
<1> QED
  BY <1>1, <1>2 DEF Dirs, Link

LEMMA UnlinkIsDir ==
  ASSUME NEW dir \in Dirs, NEW names
  PROVE  /\ Unlink(dir, names) \in Dirs
         /\ DOMAIN Unlink(dir, names) = DOMAIN dir \ names
         /\ \A n \in DOMAIN dir \ names : Unlink(dir, names)[n] = dir[n]
<1>1. DOMAIN dir \ names \in SUBSET Paths
  BY DirFacts
<1>2. Unlink(dir, names) \in [DOMAIN dir \ names -> Inodes]
  BY DirFacts DEF Unlink
<1> QED
  BY <1>1, <1>2 DEF Dirs, Unlink

LEMMA JournalFacts ==
  ASSUME TypeInv
  PROVE  /\ journal \in Seq(Entry) /\ Len(journal) \in Nat \ {0}
         /\ DOMAIN journal = 1..Len(journal) /\ Len(journal) \in DOMAIN journal
         /\ Dir = journal[Len(journal)].dir /\ Saved = journal[Len(journal)].saved
         /\ Dir \in Dirs /\ Saved \in SUBSET States
         /\ \A i \in DOMAIN journal :
              /\ journal[i] \in Entry /\ journal[i].dir \in Dirs
              /\ journal[i].lines \in Nat /\ journal[i].saved \in SUBSET States
<1>1. /\ journal \in Seq(Entry) /\ Len(journal) \in Nat \ {0}
      /\ DOMAIN journal = 1..Len(journal) /\ Len(journal) \in DOMAIN journal
  BY EmptySeq DEF TypeInv
<1>2. \A i \in DOMAIN journal : journal[i] \in Entry
  BY <1>1
<1>3. Dir = journal[Len(journal)].dir /\ Saved = journal[Len(journal)].saved
  BY DEF Dir, Saved, Last
<1> QED
  BY <1>1, <1>2, <1>3 DEF Entry

\* A new entry is the last; the others stay where they are.
LEMMA JournalGrows ==
  ASSUME TypeInv, NEW dir \in Dirs, NEW saved \in SUBSET States, Journal(dir, saved)
  PROVE  /\ journal' \in Seq(Entry) /\ journal' # <<>>
         /\ Len(journal') = Len(journal) + 1
         /\ DOMAIN journal' = DOMAIN journal \cup {Len(journal) + 1}
         /\ Len(journal) + 1 \notin DOMAIN journal
         /\ \A i \in DOMAIN journal : journal'[i] = journal[i]
         /\ journal'[Len(journal) + 1] = [dir |-> dir, lines |-> Len(log), saved |-> saved]
         /\ Dir' = dir /\ Saved' = saved
<1> DEFINE entry == [dir |-> dir, lines |-> Len(log), saved |-> saved]
<1>1. entry \in Entry
  BY DEF TypeInv, Entry
<1>2. journal' = Append(journal, entry)
  BY DEF Journal
<1>3. /\ journal' \in Seq(Entry) /\ journal' # <<>> /\ Len(journal') = Len(journal) + 1
      /\ \A i \in DOMAIN journal : journal'[i] = journal[i]
      /\ journal'[Len(journal) + 1] = entry
  BY <1>1, <1>2, JournalFacts, AppendProperties
<1>4. /\ DOMAIN journal' = DOMAIN journal \cup {Len(journal) + 1}
      /\ Len(journal) + 1 \notin DOMAIN journal
  BY <1>3, JournalFacts
<1>5. Dir' = entry.dir /\ Saved' = entry.saved
  BY <1>3 DEF Dir, Saved, Last
<1> QED
  BY <1>3, <1>4, <1>5

-----------------------------------------------------------------------------
(* Steps that leave the directory and the log alone *)

\* A file that no step may change: it is on the platter, and no process has a
\* temporary file in it.
Settled(inode) ==
  /\ platter[inode] = cached[inode]
  /\ \A p \in Pids : TmpPath(p) \in DOMAIN Dir => Dir[TmpPath(p)] # inode

LEMMA FilesKept ==
  ASSUME TypeInv, FilesInv, UNCHANGED journal,
         \A inode \in Inodes : Settled(inode) =>
           cached'[inode] = cached[inode] /\ platter'[inode] = platter[inode]
  PROVE  FilesInv'
<1>1. Dir' = Dir
  BY DEF Dir
<1>2. ASSUME NEW i \in DOMAIN journal, StatePath \in DOMAIN journal[i].dir
      PROVE  LET inode == journal[i].dir[StatePath]
             IN  /\ cached'[inode] \in States /\ platter'[inode] = cached'[inode]
                 /\ \A p \in Pids : TmpPath(p) \in DOMAIN Dir => Dir[TmpPath(p)] # inode
  <2>1. journal[i].dir[StatePath] \in Inodes
    BY <1>2, JournalFacts, DirFacts
  <2> QED
    BY <1>2, <2>1 DEF FilesInv, Installed, Settled
<1> QED
  BY <1>1, <1>2 DEF FilesInv, Installed

LEMMA LogKept ==
  ASSUME OrderInv, EventInv, UNCHANGED <<journal, log>>,
         \A p \in Pids : proc'[p].pc = "saved" => proc'[p] = proc[p]
  PROVE  OrderInv' /\ EventInv'
<1>1. OrderInv'
  BY DEF OrderInv
<1>2. \A i, k : Readable(i, k)' <=> Readable(i, k)
  BY DEF Readable, Reachable
<1>3. Saved' = Saved
  BY DEF Saved
<1> QED
  BY <1>1, <1>2, <1>3 DEF EventInv

LEMMA NamesKept ==
  ASSUME NamesInv, UNCHANGED journal
  PROVE  NamesInv'
BY DEF NamesInv, OneName

LEMMA ProcFacts ==
  ASSUME TypeInv, NEW p \in Pids
  PROVE  /\ proc[p] \in Process
         /\ InSave(p) => proc[p].fd \in Inodes /\ proc[p].state \in States
BY DEF TypeInv, Process, InSave

\* A process in save_checkpoint writes the file behind its own name, and no
\* other.
LEMMA OwnFile ==
  ASSUME TypeInv, NamesInv, SaveInv, NEW p \in Pids, InSave(p)
  PROVE  /\ TmpPath(p) \in DOMAIN Dir /\ Dir[TmpPath(p)] = proc[p].fd
         /\ ~Settled(proc[p].fd)
         /\ \A q \in Pids : q # p /\ InSave(q) => proc[q].fd # proc[p].fd
<1>1. /\ TmpPath(p) \in DOMAIN Dir /\ Dir[TmpPath(p)] = proc[p].fd
      /\ \A q \in Pids : InSave(q) =>
           TmpPath(q) \in DOMAIN Dir /\ Dir[TmpPath(q)] = proc[q].fd
  BY DEF SaveInv, TmpInPlace
<1>2. OneName(Dir)
  BY JournalFacts DEF NamesInv
<1> QED
  BY <1>1, <1>2, PathFacts DEF OneName, Settled

\* A process that is no longer in save_checkpoint, whatever it leaves behind.
LEMMA LeaveStep ==
  ASSUME IInv, NEW p \in Pids, Leave(p),
         UNCHANGED <<journal, cached, platter, log, safe>>
  PROVE  IInv'
<1>1. /\ proc'[p] = Idle
      /\ \A q \in Pids : q # p => proc'[q] = proc[q]
  BY DEF IInv, TypeInv, Leave
<1>2. proc' \in [Pids -> Process]
  <2>1. Idle \in Process
    BY DEF Idle, Process
  <2> QED
    BY <2>1 DEF IInv, TypeInv, Leave
<1>3. TypeInv'
  BY <1>1, <1>2 DEF IInv, TypeInv, InSave, Idle
<1>4. SaveInv'
  BY <1>1 DEF IInv, SaveInv, TmpInPlace, InSave, Idle, Dir
<1>5. FilesInv' /\ NamesInv'
  BY FilesKept, NamesKept DEF IInv
<1>6. OrderInv' /\ EventInv'
  BY <1>1, LogKept DEF IInv, Idle
<1> QED
  BY <1>3, <1>4, <1>5, <1>6 DEF IInv

\* Write, Flush and Fsync: a process goes on to its next system call, and the
\* contents of its file change.
Writes(p, label, new, old) ==
  /\ proc[p].pc \in {"write", "flush", "fsync"}
  /\ label \in {"flush", "fsync", "replace"}
  /\ proc' = [proc EXCEPT ![p].pc = label]
  /\ cached' = [cached EXCEPT ![proc[p].fd] = new]
  /\ platter' = [platter EXCEPT ![proc[p].fd] = old]
  /\ new \in Contents /\ old \in Contents
  /\ proc[p].state \notin Unencodable
  /\ label \in {"fsync", "replace"} => new = proc[p].state
  /\ label = "replace" => old = proc[p].state
  /\ UNCHANGED <<journal, log, safe>>

LEMMA WritesStep ==
  ASSUME IInv, NEW p \in Pids, NEW label, NEW new, NEW old, Writes(p, label, new, old)
  PROVE  IInv'
<1> DEFINE fd == proc[p].fd
<1>1. InSave(p) /\ fd \in Inodes /\ proc[p].state \in States /\ proc[p] \in Process
  BY ProcFacts DEF IInv, Writes, InSave
<1>2. /\ proc' \in [Pids -> Process]
      /\ proc'[p].pc = label /\ proc'[p].fd = fd /\ proc'[p].state = proc[p].state
      /\ \A q \in Pids : q # p => proc'[q] = proc[q]
  BY <1>1 DEF IInv, TypeInv, Writes, Process
<1>3. /\ cached' \in [Inodes -> Contents] /\ platter' \in [Inodes -> Contents]
      /\ cached'[fd] = new /\ platter'[fd] = old
      /\ \A inode \in Inodes : inode # fd =>
           cached'[inode] = cached[inode] /\ platter'[inode] = platter[inode]
  BY <1>1 DEF IInv, TypeInv, Writes
<1>4. TypeInv'
  BY <1>1, <1>2, <1>3 DEF IInv, TypeInv, Writes, InSave
<1>5. SaveInv'
  <2>1. Dir' = Dir
    BY DEF Writes, Dir
  <2>2. \A q \in Pids : q # p /\ InSave(q) => proc[q].fd # fd /\ proc[q].fd \in Inodes
    BY <1>1, OwnFile, ProcFacts DEF IInv
  <2>3. TmpInPlace'
    BY <1>1, <1>2, <2>1 DEF IInv, SaveInv, TmpInPlace, InSave
  <2>4. ASSUME NEW q \in Pids
        PROVE  /\ proc'[q].pc \in {"flush", "fsync", "replace"} =>
                    proc'[q].state \notin Unencodable
               /\ proc'[q].pc \in {"fsync", "replace"} =>
                    cached'[proc'[q].fd] = proc'[q].state
               /\ proc'[q].pc = "replace" => platter'[proc'[q].fd] = proc'[q].state
    <3>1. CASE q = p
      BY <1>2, <1>3, <3>1 DEF Writes
    <3>2. CASE q # p
      BY <1>2, <1>3, <2>2, <3>2 DEF IInv, SaveInv, InSave
    <3> QED
      BY <3>1, <3>2
  <2> QED
    BY <2>3, <2>4 DEF SaveInv
<1>6. FilesInv' /\ NamesInv'
  BY <1>1, <1>3, OwnFile, FilesKept, NamesKept DEF IInv, Writes
<1>7. OrderInv' /\ EventInv'
  BY <1>2, LogKept DEF IInv, Writes
<1> QED
  BY <1>4, <1>5, <1>6, <1>7 DEF IInv

LEMMA WriteStep ==
  ASSUME IInv, NEW p \in Pids, Write(p) \/ Flush(p) \/ Fsync(p)
  PROVE  \E label, new, old : Writes(p, label, new, old)
<1> DEFINE fd == proc[p].fd
<1>1. /\ InSave(p) /\ fd \in Inodes /\ proc[p].state \in States
      /\ cached \in [Inodes -> Contents] /\ platter \in [Inodes -> Contents]
  BY ProcFacts DEF IInv, TypeInv, Write, Flush, Fsync, InSave
<1>2. /\ cached[fd] \in Contents /\ platter[fd] \in Contents
      /\ cached = [cached EXCEPT ![fd] = cached[fd]]
      /\ platter = [platter EXCEPT ![fd] = platter[fd]]
  BY <1>1
<1>3. CASE Write(p)
  <2>1. Writes(p, "flush", Torn, platter[fd])
    BY <1>2, <1>3 DEF Write, Advance, Writes, Contents
  <2> QED
    BY <2>1
<1>4. CASE Flush(p)
  <2>1. Writes(p, "fsync", proc[p].state, platter[fd])
    BY <1>1, <1>2, <1>4 DEF Flush, Advance, Writes, Contents, IInv, SaveInv
  <2> QED
    BY <2>1
<1>5. CASE Fsync(p)
  <2>1. cached[fd] = proc[p].state /\ proc[p].state \notin Unencodable
    BY <1>5 DEF Fsync, IInv, SaveInv
  <2>2. Writes(p, "replace", cached[fd], cached[fd])
    BY <1>1, <1>2, <1>5, <2>1 DEF Fsync, Advance, Writes, Contents
  <2> QED
    BY <2>2
<1> QED
  BY <1>3, <1>4, <1>5

LEMMA WriteBackStep ==
  ASSUME IInv, NEW inode \in Inodes, WriteBack(inode)
  PROVE  IInv'
<1>1. /\ platter[inode] # cached[inode]
      /\ platter' = [platter EXCEPT ![inode] = cached[inode]]
      /\ UNCHANGED <<journal, cached, log, safe, proc>>
  BY DEF WriteBack
<1>2. TypeInv'
  BY <1>1 DEF IInv, TypeInv, InSave
<1>3. SaveInv'
  <2>1. \A p \in Pids : proc[p].pc = "replace" =>
          proc[p].fd # inode /\ proc[p].fd \in Inodes
    BY <1>1, ProcFacts DEF IInv, SaveInv, InSave
  <2> QED
    BY <1>1, <2>1 DEF IInv, TypeInv, SaveInv, TmpInPlace, InSave, Dir
<1>4. FilesInv' /\ NamesInv'
  BY <1>1, FilesKept, NamesKept DEF IInv, TypeInv, Settled
<1>5. OrderInv' /\ EventInv'
  BY <1>1, LogKept DEF IInv
<1> QED
  BY <1>2, <1>3, <1>4, <1>5 DEF IInv

-----------------------------------------------------------------------------
(* Steps that change the directory *)

LEMMA OrderKept ==
  ASSUME TypeInv, OrderInv, EventInv, UNCHANGED log,
         NEW dir \in Dirs, NEW saved \in SUBSET States, Journal(dir, saved),
         Saved \subseteq saved,
         \A p \in Pids : proc'[p].pc = "saved" => proc'[p].state \in saved
  PROVE  OrderInv' /\ EventInv'
<1> DEFINE n == Len(journal)
<1>1. /\ n \in Nat \ {0} /\ DOMAIN journal = 1..n /\ Saved = journal[n].saved
      /\ \A i \in 1..n : journal[i].lines \in Nat
      /\ Len(log) \in Nat
  BY JournalFacts DEF TypeInv
<1>2. /\ Len(journal') = n + 1 /\ DOMAIN journal' = 1..(n + 1)
      /\ \A i \in 1..n : journal'[i] = journal[i]
      /\ journal'[n + 1].lines = Len(log) /\ journal'[n + 1].saved = saved
      /\ Saved' = saved
  <2>1. /\ Len(journal') = n + 1 /\ DOMAIN journal' = DOMAIN journal \cup {n + 1}
        /\ \A i \in DOMAIN journal : journal'[i] = journal[i]
        /\ journal'[n + 1] = [dir |-> dir, lines |-> Len(log), saved |-> saved]
        /\ Saved' = saved
    BY JournalGrows
  <2>2. 1..n \cup {n + 1} = 1..(n + 1)
    BY <1>1
  <2> QED
    BY <1>1, <2>1, <2>2
<1>3. \A i \in 1..n : journal[i].lines <= Len(log) /\ journal[i].saved \subseteq saved
  BY <1>1 DEF OrderInv
<1>4. OrderInv'
  <2>1. \A i \in 1..(n + 1) : journal'[i].lines <= Len(log)
    BY <1>1, <1>2, <1>3
  <2>2. ASSUME NEW i \in 1..(n + 1), NEW k \in 1..(n + 1), i <= k
        PROVE  journal'[i].lines <= journal'[k].lines
               /\ journal'[i].saved \subseteq journal'[k].saved
    <3>1. CASE k \in 1..n
      <4>1. i \in 1..n
        BY <1>1, <2>2, <3>1
      <4> QED
        BY <1>1, <1>2, <2>2, <3>1, <4>1 DEF OrderInv
    <3>2. CASE k = n + 1
      <4>1. i \in 1..n \/ i = n + 1
        BY <1>1
      <4> QED
        BY <1>1, <1>2, <1>3, <3>2, <4>1
    <3> QED
      BY <1>1, <3>1, <3>2
  <2> QED
    BY <1>2, <2>1, <2>2 DEF OrderInv
<1>5. ASSUME NEW i \in 1..(n + 1), NEW k \in 1..Len(log), Readable(i, k)'
      PROVE  log[k] \in journal'[i].saved
  <2>1. CASE i \in 1..n
    <3>1. Reachable(i)' = Reachable(i)
      BY <1>1, <1>2, <2>1 DEF Reachable
    <3>2. Readable(i, k)
      BY <1>5, <3>1 DEF Readable
    <3> QED
      BY <1>1, <1>2, <2>1, <3>2 DEF EventInv
  <2>2. CASE i = n + 1
    <3>1. Readable(n, k)
      BY <1>1, <1>2, <1>5, <2>2 DEF Readable, Reachable
    <3> QED
      BY <1>1, <1>2, <2>2, <3>1 DEF EventInv
  <2> QED
    BY <1>1, <2>1, <2>2
<1>6. EventInv'
  BY <1>2, <1>5 DEF EventInv
<1> QED
  BY <1>4, <1>6

LEMMA UnusedFile ==
  ASSUME NEW inode, inode \notin UsedInodes
  PROVE  /\ \A i \in 1..Len(journal) : \A name \in DOMAIN journal[i].dir :
              journal[i].dir[name] # inode
         /\ \A p \in Pids : proc[p].fd # inode
<1>1. \A p \in Pids : proc[p].fd # inode
  BY DEF UsedInodes
<1>2. \A i \in 1..Len(journal) : inode \notin Range(journal[i].dir)
  BY DEF UsedInodes
<1>3. \A i : \A name \in DOMAIN journal[i].dir : journal[i].dir[name] \in Range(journal[i].dir)
  BY DEF Range
<1> QED
  BY <1>1, <1>2, <1>3

\* The temporary file is new.
LEMMA OpenNewStep ==
  ASSUME IInv, NEW p \in Pids, NEW s \in States, Open(p, s), TmpPath(p) \notin DOMAIN Dir
  PROVE  IInv'
<1> DEFINE fd == CHOOSE i \in Inodes \ UsedInodes : TRUE
           tmp == TmpPath(p)
           n == Len(journal)
<1>1. /\ proc[p] = Idle
      /\ fd \in Inodes /\ fd \notin UsedInodes
      /\ Journal(Link(Dir, tmp, fd), Saved)
      /\ platter' = [platter EXCEPT ![fd] = Empty]
      /\ cached' = [cached EXCEPT ![fd] = Empty]
      /\ proc' = [proc EXCEPT ![p] = [pc |-> "write", state |-> s, fd |-> fd]]
      /\ UNCHANGED <<log, safe>>
  BY DEF Open
<1>2. /\ n \in Nat \ {0} /\ DOMAIN journal = 1..n /\ n \in 1..n
      /\ Dir = journal[n].dir /\ Dir \in Dirs /\ Saved \in SUBSET States
      /\ \A i \in 1..n : journal[i].dir \in Dirs
  BY JournalFacts DEF IInv
<1>3. /\ \A i \in 1..n : \A name \in DOMAIN journal[i].dir : journal[i].dir[name] # fd
      /\ \A q \in Pids : proc[q].fd # fd
  BY <1>1, UnusedFile
<1>4. /\ Link(Dir, tmp, fd) \in Dirs
      /\ DOMAIN Link(Dir, tmp, fd) = DOMAIN Dir \cup {tmp}
      /\ Link(Dir, tmp, fd)[tmp] = fd
      /\ \A name \in DOMAIN Dir : Link(Dir, tmp, fd)[name] = Dir[name]
  <2>1. tmp \in Paths /\ tmp \notin DOMAIN Dir
    BY PathFacts
  <2>2. Dir \in Dirs /\ fd \in Inodes
    BY <1>1, <1>2
  <2> HIDE DEF fd, tmp
  <2>3. /\ Link(Dir, tmp, fd) \in Dirs
        /\ DOMAIN Link(Dir, tmp, fd) = DOMAIN Dir \cup {tmp}
        /\ Link(Dir, tmp, fd)[tmp] = fd
        /\ \A m \in DOMAIN Dir : m # tmp => Link(Dir, tmp, fd)[m] = Dir[m]
    BY <2>1, <2>2, LinkIsDir
  <2> QED
    BY <2>1, <2>3
<1>5. /\ journal' \in Seq(Entry) /\ journal' # <<>>
      /\ DOMAIN journal' = 1..(n + 1)
      /\ \A i \in 1..n : journal'[i] = journal[i]
      /\ journal'[n + 1].dir = Dir' /\ Dir' = Link(Dir, tmp, fd) /\ Saved' = Saved
  <2> HIDE DEF fd, tmp
  <2>1. /\ journal' \in Seq(Entry) /\ journal' # <<>>
        /\ Len(journal') = n + 1 /\ DOMAIN journal' = DOMAIN journal \cup {n + 1}
        /\ \A i \in DOMAIN journal : journal'[i] = journal[i]
        /\ journal'[n + 1] =
             [dir |-> Link(Dir, tmp, fd), lines |-> Len(log), saved |-> Saved]
        /\ Dir' = Link(Dir, tmp, fd) /\ Saved' = Saved
    BY <1>1, <1>2, <1>4, JournalGrows DEF IInv
  <2>2. 1..n \cup {n + 1} = 1..(n + 1)
    BY <1>2
  <2> QED
    BY <1>2, <2>1, <2>2
<1>6. /\ cached' \in [Inodes -> Contents] /\ platter' \in [Inodes -> Contents]
      /\ \A inode \in Inodes : inode # fd =>
           cached'[inode] = cached[inode] /\ platter'[inode] = platter[inode]
  BY <1>1 DEF IInv, TypeInv, Contents
<1>7. /\ proc' \in [Pids -> Process]
      /\ proc'[p] = [pc |-> "write", state |-> s, fd |-> fd]
      /\ \A q \in Pids : q # p => proc'[q] = proc[q]
  <2>1. [pc |-> "write", state |-> s, fd |-> fd] \in Process
    BY <1>1 DEF Process
  <2> QED
    BY <1>1, <2>1 DEF IInv, TypeInv
<1>8. TypeInv'
  BY <1>1, <1>5, <1>6, <1>7 DEF IInv, TypeInv, InSave
<1>9. NamesInv'
  <2>1. OneName(Link(Dir, tmp, fd))
    BY <1>2, <1>3, <1>4 DEF IInv, NamesInv, OneName
  <2>2. ASSUME NEW i \in 1..(n + 1) PROVE OneName(journal'[i].dir)
    <3>1. CASE i \in 1..n
      BY <1>2, <1>5, <3>1 DEF IInv, NamesInv
    <3>2. CASE i = n + 1
      BY <1>5, <2>1, <3>2
    <3> QED
      BY <1>2, <3>1, <3>2
  <2> QED
    BY <1>5, <2>2 DEF NamesInv, OneName
<1>10. SaveInv'
  <2>1. ASSUME NEW q \in Pids, q # p
        PROVE  /\ InSave(q)' => TmpPath(q) \in DOMAIN Dir' /\ Dir'[TmpPath(q)] = proc'[q].fd
               /\ InSave(q) => proc[q].fd \in Inodes /\ proc[q].fd # fd
    BY <1>3, <1>4, <1>5, <1>7, <2>1, ProcFacts DEF IInv, SaveInv, TmpInPlace, InSave
  <2>2. TmpInPlace'
    <3>1. TmpPath(p) \in DOMAIN Dir' /\ Dir'[TmpPath(p)] = proc'[p].fd
      BY <1>4, <1>5, <1>7
    <3>2. \A q \in Pids : InSave(q)' => TmpPath(q) \in DOMAIN Dir' /\ Dir'[TmpPath(q)] = proc'[q].fd
      BY <2>1, <3>1
    <3> QED
      BY <3>2 DEF TmpInPlace
  <2>3. ASSUME NEW q \in Pids
        PROVE  /\ proc'[q].pc \in {"flush", "fsync", "replace"} =>
                    proc'[q].state \notin Unencodable
               /\ proc'[q].pc \in {"fsync", "replace"} =>
                    cached'[proc'[q].fd] = proc'[q].state
               /\ proc'[q].pc = "replace" => platter'[proc'[q].fd] = proc'[q].state
    BY <1>6, <1>7, <2>1 DEF IInv, SaveInv, InSave
  <2> QED
    BY <2>2, <2>3 DEF SaveInv
<1>11. FilesInv'
  <2>1. ASSUME NEW i \in 1..n, StatePath \in DOMAIN journal[i].dir
        PROVE  LET inode == journal[i].dir[StatePath]
               IN  /\ cached'[inode] \in States /\ platter'[inode] = cached'[inode]
                   /\ \A q \in Pids : TmpPath(q) \in DOMAIN Dir' => Dir'[TmpPath(q)] # inode
    <3> DEFINE inode == journal[i].dir[StatePath]
    <3>1. inode \in Inodes /\ inode # fd
      BY <1>2, <1>3, <2>1, DirFacts
    <3>2. /\ cached[inode] \in States /\ platter[inode] = cached[inode]
          /\ \A q \in Pids : TmpPath(q) \in DOMAIN Dir => Dir[TmpPath(q)] # inode
      BY <1>2, <2>1 DEF IInv, FilesInv, Installed
    <3>3. ASSUME NEW q \in Pids, TmpPath(q) \in DOMAIN Dir' PROVE Dir'[TmpPath(q)] # inode
      BY <1>4, <1>5, <3>1, <3>2, <3>3
    <3> QED
      BY <1>6, <3>1, <3>2, <3>3
  <2>2. StatePath \in DOMAIN Dir' =>
          StatePath \in DOMAIN journal[n].dir /\ Dir'[StatePath] = journal[n].dir[StatePath]
    BY <1>2, <1>4, <1>5, PathFacts
  <2>3. ASSUME NEW i \in 1..(n + 1) PROVE Installed(journal[i].dir)'
    <3>1. CASE i \in 1..n
      BY <1>5, <2>1, <3>1 DEF Installed
    <3>2. CASE i = n + 1
      BY <1>2, <1>5, <2>1, <2>2, <3>2 DEF Installed
    <3> QED
      BY <1>2, <3>1, <3>2
  <2> QED
    BY <1>5, <2>3 DEF FilesInv
<1>12. OrderInv' /\ EventInv'
  <2>1. \A q \in Pids : proc'[q].pc = "saved" => proc'[q].state \in Saved
    BY <1>7 DEF IInv, EventInv
  <2> QED
    BY <1>1, <1>2, <1>4, <2>1, OrderKept DEF IInv
<1> QED
  BY <1>8, <1>9, <1>10, <1>11, <1>12 DEF IInv

\* The temporary file is what a dead process with this pid left behind.
LEMMA OpenLeftStep ==
  ASSUME IInv, NEW p \in Pids, NEW s \in States, Open(p, s), TmpPath(p) \in DOMAIN Dir
  PROVE  IInv'
<1> DEFINE fd == Dir[TmpPath(p)]
<1>1. /\ proc[p] = Idle
      /\ cached' = [cached EXCEPT ![fd] = Empty]
      /\ proc' = [proc EXCEPT ![p] = [pc |-> "write", state |-> s, fd |-> fd]]
      /\ UNCHANGED <<journal, platter, log, safe>>
  BY DEF Open
<1>2. fd \in Inodes /\ Dir \in Dirs /\ OneName(Dir)
  BY JournalFacts, DirFacts DEF IInv, NamesInv
<1>3. Dir' = Dir
  BY <1>1 DEF Dir
<1> HIDE DEF fd
<1>4. /\ cached' \in [Inodes -> Contents]
      /\ \A inode \in Inodes : inode # fd => cached'[inode] = cached[inode]
  BY <1>1, <1>2 DEF IInv, TypeInv, Contents
<1>5. /\ proc' \in [Pids -> Process]
      /\ proc'[p] = [pc |-> "write", state |-> s, fd |-> fd]
      /\ \A q \in Pids : q # p => proc'[q] = proc[q]
  <2>1. [pc |-> "write", state |-> s, fd |-> fd] \in Process
    BY <1>2 DEF Process
  <2> QED
    BY <1>1, <2>1 DEF IInv, TypeInv
<1>6. TypeInv'
  BY <1>1, <1>2, <1>4, <1>5 DEF IInv, TypeInv, InSave
<1>7. SaveInv'
  <2>1. ASSUME NEW q \in Pids, q # p
        PROVE  /\ InSave(q)' => TmpPath(q) \in DOMAIN Dir /\ Dir[TmpPath(q)] = proc'[q].fd
               /\ InSave(q) => proc[q].fd \in Inodes /\ proc[q].fd # fd
    <3>1. TmpPath(q) # TmpPath(p)
      BY <2>1, PathFacts
    <3>2. InSave(q) => TmpPath(q) \in DOMAIN Dir /\ Dir[TmpPath(q)] = proc[q].fd
      BY DEF IInv, SaveInv, TmpInPlace
    <3>3. InSave(q)' => InSave(q)
      BY <1>5, <2>1 DEF InSave
    <3> QED
      BY <1>2, <1>5, <2>1, <3>1, <3>2, <3>3, ProcFacts DEF IInv, OneName, fd
  <2>2. TmpPath(p) \in DOMAIN Dir /\ Dir[TmpPath(p)] = proc'[p].fd
    BY <1>5 DEF fd
  <2>3. TmpInPlace'
    <3>1. \A q \in Pids : InSave(q)' => TmpPath(q) \in DOMAIN Dir' /\ Dir'[TmpPath(q)] = proc'[q].fd
      BY <1>3, <2>1, <2>2
    <3> QED
      BY <3>1 DEF TmpInPlace
  <2>4. ASSUME NEW q \in Pids
        PROVE  /\ proc'[q].pc \in {"flush", "fsync", "replace"} =>
                    proc'[q].state \notin Unencodable
               /\ proc'[q].pc \in {"fsync", "replace"} =>
                    cached'[proc'[q].fd] = proc'[q].state
               /\ proc'[q].pc = "replace" => platter'[proc'[q].fd] = proc'[q].state
    BY <1>1, <1>4, <1>5, <2>1 DEF IInv, SaveInv, InSave
  <2> QED
    BY <2>3, <2>4 DEF SaveInv
<1>8. FilesInv' /\ NamesInv'
  <2>1. ~Settled(fd)
    BY DEF Settled, fd
  <2> QED
    BY <1>1, <1>4, <2>1, FilesKept, NamesKept DEF IInv
<1>9. OrderInv' /\ EventInv'
  BY <1>1, <1>5, LogKept DEF IInv
<1> QED
  BY <1>6, <1>7, <1>8, <1>9 DEF IInv

LEMMA ReplaceStep ==
  ASSUME IInv, NEW p \in Pids, Replace(p)
  PROVE  IInv'
<1> DEFINE fd == proc[p].fd
           tmp == TmpPath(p)
           state == proc[p].state
           n == Len(journal)
           linked == Link(Dir, StatePath, fd)
           dir == Unlink(linked, {tmp})
<1>1. /\ InSave(p) /\ fd \in Inodes /\ state \in States
      /\ tmp \in DOMAIN Dir /\ Dir[tmp] = fd
      /\ cached[fd] = state /\ platter[fd] = state
  BY ProcFacts, OwnFile DEF IInv, Replace, InSave, SaveInv
<1>2. /\ Journal(dir, Saved \cup {state})
      /\ proc' = [proc EXCEPT ![p].pc = "saved", ![p].fd = NoCheckpoint]
      /\ UNCHANGED <<cached, platter, log, safe>>
  BY <1>1 DEF Replace, Return
<1>3. /\ n \in Nat \ {0} /\ DOMAIN journal = 1..n /\ n \in 1..n
      /\ Dir = journal[n].dir /\ Dir \in Dirs /\ Saved \in SUBSET States
      /\ OneName(Dir)
  BY JournalFacts DEF IInv, NamesInv
<1>4. StatePath \in Paths /\ tmp \in Paths /\ tmp # StatePath
  BY PathFacts
<1>5. /\ dir \in Dirs
      /\ DOMAIN dir = (DOMAIN Dir \cup {StatePath}) \ {tmp}
      /\ dir[StatePath] = fd
      /\ \A name \in DOMAIN Dir : name \notin {StatePath, tmp} => dir[name] = Dir[name]
  <2>1. /\ linked \in Dirs /\ DOMAIN linked = DOMAIN Dir \cup {StatePath}
        /\ linked[StatePath] = fd
        /\ \A name \in DOMAIN Dir : name # StatePath => linked[name] = Dir[name]
    <3> HIDE DEF fd
    <3> QED
      BY <1>1, <1>3, <1>4, LinkIsDir
  <2> HIDE DEF linked, fd, tmp
  <2>2. /\ dir \in Dirs /\ DOMAIN dir = DOMAIN linked \ {tmp}
        /\ \A name \in DOMAIN linked \ {tmp} : dir[name] = linked[name]
    BY <2>1, UnlinkIsDir
  <2> QED
    BY <1>4, <2>1, <2>2
<1> HIDE DEF dir
<1>6. /\ journal' \in Seq(Entry) /\ journal' # <<>>
      /\ DOMAIN journal' = 1..(n + 1)
      /\ \A i \in 1..n : journal'[i] = journal[i]
      /\ journal'[n + 1].dir = dir /\ Dir' = dir /\ Saved' = Saved \cup {state}
  <2> HIDE DEF state
  <2>1. Saved \cup {state} \in SUBSET States
    BY <1>1, <1>3
  <2>2. /\ journal' \in Seq(Entry) /\ journal' # <<>>
        /\ Len(journal') = n + 1 /\ DOMAIN journal' = DOMAIN journal \cup {n + 1}
        /\ \A i \in DOMAIN journal : journal'[i] = journal[i]
        /\ journal'[n + 1] = [dir |-> dir, lines |-> Len(log), saved |-> Saved \cup {state}]
        /\ Dir' = dir /\ Saved' = Saved \cup {state}
    BY <1>2, <1>5, <2>1, JournalGrows DEF IInv
  <2>3. 1..n \cup {n + 1} = 1..(n + 1)
    BY <1>3
  <2> QED
    BY <1>3, <2>2, <2>3
<1>7. /\ proc' \in [Pids -> Process]
      /\ proc'[p].pc = "saved" /\ proc'[p].state = state /\ proc'[p].fd = NoCheckpoint
      /\ \A q \in Pids : q # p => proc'[q] = proc[q]
  BY <1>2 DEF IInv, TypeInv, Process
<1>8. TypeInv'
  BY <1>1, <1>2, <1>6, <1>7 DEF IInv, TypeInv, InSave
<1>9. \A q \in Pids : q # p /\ TmpPath(q) \in DOMAIN dir =>
        TmpPath(q) \in DOMAIN Dir /\ dir[TmpPath(q)] = Dir[TmpPath(q)]
  BY <1>5, PathFacts
<1>10. NamesInv'
  <2>1. \A name \in DOMAIN Dir : name # tmp => Dir[name] # fd
    BY <1>1, <1>3 DEF OneName
  <2>2. OneName(dir)
    <3>1. ASSUME NEW a \in DOMAIN dir, NEW b \in DOMAIN dir, dir[a] = dir[b], a # StatePath
          PROVE  a = b
      <4>1. a \in DOMAIN Dir /\ dir[a] = Dir[a] /\ a # tmp
        BY <1>5, <3>1
      <4>2. b # StatePath
        BY <1>5, <2>1, <3>1, <4>1
      <4>3. b \in DOMAIN Dir /\ dir[b] = Dir[b]
        BY <1>5, <4>2
      <4> QED
        BY <1>3, <3>1, <4>1, <4>3 DEF OneName
    <3> QED
      BY <3>1 DEF OneName
  <2>3. ASSUME NEW i \in 1..(n + 1) PROVE OneName(journal'[i].dir)
    <3>1. CASE i \in 1..n
      BY <1>3, <1>6, <3>1 DEF IInv, NamesInv
    <3>2. CASE i = n + 1
      BY <1>6, <2>2, <3>2
    <3> QED
      BY <1>3, <3>1, <3>2
  <2> QED
    BY <1>6, <2>3 DEF NamesInv, OneName
<1>11. SaveInv'
  <2>1. ASSUME NEW q \in Pids, InSave(q)'
        PROVE  q # p /\ InSave(q) /\ TmpPath(q) \in DOMAIN dir /\ dir[TmpPath(q)] = proc[q].fd
    <3>1. q # p /\ InSave(q)
      BY <1>7, <2>1 DEF InSave
    <3>2. TmpPath(q) \in DOMAIN Dir /\ Dir[TmpPath(q)] = proc[q].fd
      BY <3>1 DEF IInv, SaveInv, TmpInPlace
    <3>3. TmpPath(q) \notin {StatePath, tmp}
      BY <3>1, PathFacts
    <3> QED
      BY <1>5, <3>1, <3>2, <3>3
  <2>2. TmpInPlace'
    <3>1. \A q \in Pids : InSave(q)' => TmpPath(q) \in DOMAIN Dir' /\ Dir'[TmpPath(q)] = proc'[q].fd
      BY <1>6, <1>7, <2>1
    <3> QED
      BY <3>1 DEF TmpInPlace
  <2>3. ASSUME NEW q \in Pids
        PROVE  /\ proc'[q].pc \in {"flush", "fsync", "replace"} =>
                    proc'[q].state \notin Unencodable
               /\ proc'[q].pc \in {"fsync", "replace"} =>
                    cached'[proc'[q].fd] = proc'[q].state
               /\ proc'[q].pc = "replace" => platter'[proc'[q].fd] = proc'[q].state
    BY <1>2, <1>7 DEF IInv, SaveInv
  <2> QED
    BY <2>2, <2>3 DEF SaveInv
<1>12. FilesInv'
  <2>1. ASSUME NEW q \in Pids, TmpPath(q) \in DOMAIN dir
        PROVE  TmpPath(q) \in DOMAIN Dir /\ dir[TmpPath(q)] = Dir[TmpPath(q)]
               /\ dir[TmpPath(q)] # fd
    <3>1. TmpPath(q) # tmp /\ TmpPath(q) # StatePath
      BY <1>5, <2>1, PathFacts
    <3>2. TmpPath(q) \in DOMAIN Dir /\ dir[TmpPath(q)] = Dir[TmpPath(q)]
      BY <1>5, <2>1, <3>1
    <3> QED
      BY <1>1, <1>3, <3>1, <3>2 DEF OneName
  <2>2. ASSUME NEW i \in 1..(n + 1) PROVE Installed(journal[i].dir)'
    <3>1. CASE i \in 1..n
      <4>1. Installed(journal[i].dir)
        BY <1>3, <3>1 DEF IInv, FilesInv
      <4> QED
        BY <1>2, <1>6, <2>1, <3>1, <4>1 DEF Installed
    <3>2. CASE i = n + 1
      BY <1>1, <1>2, <1>5, <1>6, <2>1, <3>2 DEF Installed
    <3> QED
      BY <1>3, <3>1, <3>2
  <2> QED
    BY <1>6, <2>2 DEF FilesInv
<1>13. OrderInv' /\ EventInv'
  <2>1. /\ \A q \in Pids : proc'[q].pc = "saved" => proc'[q].state \in Saved \cup {state}
        /\ Saved \cup {state} \in SUBSET States /\ Saved \subseteq Saved \cup {state}
    BY <1>1, <1>3, <1>7 DEF IInv, EventInv
  <2> HIDE DEF state
  <2> QED
    BY <1>2, <1>5, <2>1, OrderKept DEF IInv
<1> QED
  BY <1>8, <1>10, <1>11, <1>12, <1>13 DEF IInv

\* No file of a save matches the pattern: the sweep changes nothing.
LEMMA SweepKeeps ==
  ASSUME IInv, GcTempFiles
  PROVE  UNCHANGED <<journal, cached, platter, log, safe, proc>>
<1>1. \A name \in DOMAIN Dir : ~MatchesGlob(name)
  BY JournalFacts, DirFacts, NothingMatches DEF IInv
<1>2. {name \in DOMAIN Dir : MatchesGlob(name)} = {}
  BY <1>1
<1> QED
  BY <1>2 DEF GcTempFiles

LEMMA StutterStep ==
  ASSUME IInv, UNCHANGED <<journal, cached, platter, log, safe, proc>>
  PROVE  IInv'
<1>1. TypeInv'
  BY DEF IInv, TypeInv, InSave
<1>2. SaveInv'
  BY DEF IInv, SaveInv, TmpInPlace, InSave, Dir
<1>3. FilesInv' /\ NamesInv'
  BY FilesKept, NamesKept DEF IInv
<1>4. OrderInv' /\ EventInv'
  BY LogKept DEF IInv
<1> QED
  BY <1>1, <1>2, <1>3, <1>4 DEF IInv

LEMMA AppendEventStep ==
  ASSUME IInv, NEW p \in Pids, AppendEvent(p)
  PROVE  IInv'
<1> DEFINE state == proc[p].state
           n == Len(journal)
           m == Len(log)
<1>1. /\ proc[p].pc = "saved" /\ log' = Append(log, state)
      /\ proc' = [proc EXCEPT ![p] = Idle]
      /\ UNCHANGED <<journal, cached, platter, safe>>
  BY DEF AppendEvent, Leave
<1>2. state \in Saved /\ state \in States
  BY <1>1 DEF IInv, TypeInv, EventInv
<1>3. /\ log \in Seq(States \cup {Torn}) /\ m \in Nat /\ safe \in 0..m
      /\ log' \in Seq(States \cup {Torn}) /\ Len(log') = m + 1
      /\ log'[m + 1] = state /\ \A k \in 1..m : log'[k] = log[k]
  <2>1. log \in Seq(States \cup {Torn}) /\ safe \in 0..m /\ state \in States \cup {Torn}
    BY <1>2 DEF IInv, TypeInv
  <2> HIDE DEF state
  <2> QED
    BY <1>1, <2>1, AppendProperties
<1>4. /\ n \in Nat \ {0} /\ DOMAIN journal = 1..n /\ Saved = journal[n].saved
      /\ \A i \in 1..n : journal[i].lines \in Nat
  BY JournalFacts DEF IInv
<1>5. /\ proc' \in [Pids -> Process] /\ proc'[p] = Idle
      /\ \A q \in Pids : q # p => proc'[q] = proc[q]
  <2>1. Idle \in Process
    BY DEF Idle, Process
  <2> QED
    BY <1>1, <2>1 DEF IInv, TypeInv
<1>6. Dir' = Dir /\ Saved' = Saved
  BY <1>1 DEF Dir, Saved
<1>7. TypeInv'
  BY <1>1, <1>3, <1>5 DEF IInv, TypeInv, InSave, Idle
<1>8. SaveInv'
  BY <1>1, <1>5, <1>6 DEF IInv, SaveInv, TmpInPlace, InSave, Idle
<1>9. FilesInv' /\ NamesInv'
  BY <1>1, FilesKept, NamesKept DEF IInv
<1>10. OrderInv'
  BY <1>1, <1>3, <1>4 DEF IInv, OrderInv
<1>11. ASSUME NEW i \in 1..n, NEW k \in 1..(m + 1), Readable(i, k)'
       PROVE  log'[k] \in journal[i].saved
  <2>1. CASE k = m + 1
    <3>1. i = n
      <4>1. ASSUME i < n PROVE FALSE
        <5>1. k <= journal[i + 1].lines
          BY <1>1, <1>4, <1>11, <4>1 DEF Readable, Reachable
        <5>2. i + 1 \in 1..n
          BY <1>4, <4>1
        <5>3. journal[i + 1].lines <= m /\ journal[i + 1].lines \in Nat
          BY <1>4, <5>2 DEF IInv, OrderInv
        <5> QED
          BY <1>3, <2>1, <5>1, <5>3
      <4> QED
        BY <1>4, <4>1
    <3> QED
      BY <1>2, <1>3, <1>4, <2>1, <3>1
  <2>2. CASE k \in 1..m
    <3>1. \A j \in 1..k : log[j] # Torn
      BY <1>3, <1>11, <2>2 DEF Readable
    <3>2. k \in 1..Reachable(i)
      BY <1>1, <1>3, <1>11, <2>2 DEF Readable, Reachable
    <3> QED
      BY <1>3, <1>4, <2>2, <3>1, <3>2 DEF IInv, EventInv, Readable
  <2> QED
    BY <1>3, <2>1, <2>2
<1>12. EventInv'
  <2>1. \A q \in Pids : proc'[q].pc = "saved" => proc'[q].state \in Saved'
    BY <1>5, <1>6 DEF IInv, EventInv, Idle
  <2> QED
    BY <1>1, <1>3, <1>4, <1>11, <2>1 DEF EventInv
<1> QED
  BY <1>7, <1>8, <1>9, <1>10, <1>12 DEF IInv

LEMMA CommitStep ==
  ASSUME IInv, CommitJournal
  PROVE  IInv'
<1> DEFINE n == Len(journal)
<1>1. /\ n > 1 /\ journal' = Tail(journal)
      /\ UNCHANGED <<cached, platter, log, safe, proc>>
  BY DEF CommitJournal
<1>2. /\ n \in Nat /\ DOMAIN journal = 1..n /\ journal \in Seq(Entry)
      /\ Dir = journal[n].dir /\ Saved = journal[n].saved
  BY JournalFacts DEF IInv
<1>3. /\ journal' \in Seq(Entry) /\ journal' # <<>>
      /\ Len(journal') = n - 1 /\ DOMAIN journal' = 1..(n - 1)
      /\ \A i \in 1..(n - 1) : i + 1 \in 1..n /\ journal'[i] = journal[i + 1]
  <2>1. /\ journal' \in Seq(Entry) /\ Len(journal') = n - 1
        /\ \A i \in 1..Len(journal') : journal'[i] = journal[i + 1]
    BY <1>1, <1>2, HeadTailProperties
  <2>2. journal' # <<>>
    BY <1>1, <1>2, <2>1, EmptySeq
  <2> QED
    BY <1>2, <2>1, <2>2
<1>4. Dir' = Dir /\ Saved' = Saved
  <2>1. Dir' = journal'[n - 1].dir /\ Saved' = journal'[n - 1].saved
    BY <1>3 DEF Dir, Saved, Last
  <2> QED
    BY <1>1, <1>2, <1>3, <2>1
<1>5. TypeInv'
  BY <1>1, <1>3 DEF IInv, TypeInv, InSave
<1>6. SaveInv'
  BY <1>1, <1>4 DEF IInv, SaveInv, TmpInPlace, InSave
<1>7. NamesInv'
  BY <1>2, <1>3 DEF IInv, NamesInv, OneName
<1>8. FilesInv'
  <2>1. ASSUME NEW i \in 1..n, Installed(journal[i].dir)
        PROVE  StatePath \in DOMAIN journal[i].dir =>
                 LET inode == journal[i].dir[StatePath]
                 IN  /\ cached'[inode] \in States /\ platter'[inode] = cached'[inode]
                     /\ \A q \in Pids : TmpPath(q) \in DOMAIN Dir' => Dir'[TmpPath(q)] # inode
    BY <1>1, <1>4, <2>1 DEF Installed
  <2> QED
    BY <1>2, <1>3, <2>1 DEF IInv, FilesInv, Installed
<1>9. OrderInv'
  <2>1. \A i \in 1..(n - 1) : journal'[i].lines <= Len(log)
    BY <1>2, <1>3 DEF IInv, OrderInv
  <2>2. \A i, k \in 1..(n - 1) : i <= k =>
          journal'[i].lines <= journal'[k].lines /\ journal'[i].saved \subseteq journal'[k].saved
    BY <1>2, <1>3 DEF IInv, OrderInv
  <2> QED
    BY <1>1, <1>3, <2>1, <2>2 DEF OrderInv
<1>10. EventInv'
  <2>1. ASSUME NEW i \in 1..(n - 1), NEW k \in 1..Len(log), Readable(i, k)'
        PROVE  log[k] \in journal'[i].saved
    <3>1. Reachable(i)' = Reachable(i + 1)
      <4>1. CASE i < n - 1
        <5>1. i + 1 \in 1..(n - 1) /\ i + 1 < n
          BY <1>2, <4>1
        <5>2. journal'[i + 1] = journal[(i + 1) + 1]
          BY <1>3, <5>1
        <5>3. Reachable(i)' = journal'[i + 1].lines
          BY <1>3, <4>1 DEF Reachable
        <5>4. Reachable(i + 1) = journal[(i + 1) + 1].lines
          BY <5>1 DEF Reachable
        <5> QED
          BY <5>2, <5>3, <5>4
      <4>2. CASE i = n - 1
        <5>1. ~(i < n - 1) /\ ~(i + 1 < n)
          BY <1>2, <4>2
        <5>2. Reachable(i + 1) = Len(log)
          BY <5>1 DEF Reachable
        <5>3. ~(i < Len(journal'))
          BY <1>3, <5>1
        <5>4. Reachable(i)' = Len(log')
          BY <5>3 DEF Reachable
        <5> QED
          BY <1>1, <5>2, <5>4
      <4>3. i < n - 1 \/ i = n - 1
        <5>1. n \in Nat /\ i \in 1..(n - 1)
          BY <1>2
        <5> HIDE DEF n
        <5> QED
          BY <5>1
      <4> QED
        BY <4>1, <4>2, <4>3
    <3>2. Readable(i + 1, k)
      BY <1>1, <2>1, <3>1 DEF Readable
    <3> QED
      BY <1>2, <1>3, <3>2 DEF IInv, EventInv
  <2> QED
    BY <1>1, <1>3, <1>4, <2>1 DEF IInv, EventInv
<1> QED
  BY <1>5, <1>6, <1>7, <1>8, <1>9, <1>10 DEF IInv

\* What is left of the log: a prefix of it, perhaps with a torn line behind it.
LEMMA TornLog ==
  ASSUME log \in Seq(States \cup {Torn}), NEW k \in 0..Len(log),
         \/ log' = SubSeq(log, 1, k)
         \/ log' = Append(SubSeq(log, 1, k), Torn)
  PROVE  /\ log' \in Seq(States \cup {Torn}) /\ Len(log') \in {k, k + 1}
         /\ \A j \in 1..Len(log') : j <= k \/ log'[j] = Torn
         /\ \A j \in 1..k : log'[j] = log[j]
<1> DEFINE kept == SubSeq(log, 1, k)
<1>1. /\ kept \in Seq(States \cup {Torn}) /\ Len(kept) = k
      /\ \A j \in 1..k : kept[j] = log[j]
  BY SubSeqProperties
<1>2. CASE log' = kept
  BY <1>1, <1>2
<1>3. CASE log' = Append(kept, Torn)
  <2> HIDE DEF kept
  <2>1. /\ log' \in Seq(States \cup {Torn}) /\ Len(log') = k + 1
        /\ log'[k + 1] = Torn /\ \A j \in 1..k : log'[j] = kept[j]
    BY <1>1, <1>3, AppendProperties
  <2> QED
    BY <1>1, <2>1
<1> QED
  BY <1>2, <1>3

LEMMA PowerFailureStep ==
  ASSUME IInv, PowerFailure
  PROVE  IInv'
<1>a. PICK i \in 1..Len(journal) : \E k \in safe..Reachable(i) :
        /\ \/ log' = SubSeq(log, 1, k)
           \/ log' = Append(SubSeq(log, 1, k), Torn)
        /\ journal' = <<[journal[i] EXCEPT !.lines = Len(log')]>>
  BY DEF PowerFailure
<1>1. PICK k \in safe..Reachable(i) :
        /\ \/ log' = SubSeq(log, 1, k)
           \/ log' = Append(SubSeq(log, 1, k), Torn)
        /\ journal' = <<[journal[i] EXCEPT !.lines = Len(log')]>>
  BY <1>a
<1>2. /\ safe' = Len(log') /\ cached' = platter /\ platter' = platter
      /\ proc' = [p \in Pids |-> Idle]
  BY DEF PowerFailure
<1>3. /\ i \in DOMAIN journal /\ journal[i] \in Entry /\ journal[i].dir \in Dirs
      /\ \A j \in 1..Len(journal) : journal[j].lines \in Nat /\ journal[j].lines <= Len(log)
      /\ Len(journal) \in Nat /\ log \in Seq(States \cup {Torn})
      /\ Len(log) \in Nat /\ safe \in 0..Len(log)
  BY <1>1, JournalFacts DEF IInv, OrderInv, TypeInv
<1>4. Reachable(i) \in 0..Len(log)
  <2>1. CASE i < Len(journal)
    <3>1. i + 1 \in 1..Len(journal)
      BY <1>3, <2>1
    <3>2. journal[i + 1].lines \in 0..Len(log)
      BY <1>3, <3>1
    <3> QED
      BY <2>1, <3>2 DEF Reachable
  <2>2. CASE ~(i < Len(journal))
    BY <1>3, <2>2 DEF Reachable
  <2> QED
    BY <2>1, <2>2
<1>5. k \in 0..Len(log) /\ k <= Reachable(i)
  BY <1>1, <1>3, <1>4
<1>6. /\ log' \in Seq(States \cup {Torn}) /\ Len(log') \in Nat
      /\ \A j \in 1..Len(log') : j <= k \/ log'[j] = Torn
      /\ \A j \in 1..k : log'[j] = log[j]
  <2>1. \/ log' = SubSeq(log, 1, k)
        \/ log' = Append(SubSeq(log, 1, k), Torn)
    BY <1>1
  <2>2. /\ log' \in Seq(States \cup {Torn}) /\ Len(log') \in {k, k + 1}
        /\ \A j \in 1..Len(log') : j <= k \/ log'[j] = Torn
        /\ \A j \in 1..k : log'[j] = log[j]
    BY <1>3, <1>5, <2>1, TornLog
  <2> QED
    BY <1>5, <2>2
<1>7. /\ journal' \in Seq(Entry) /\ journal' # <<>> /\ Len(journal') = 1
      /\ DOMAIN journal' = {1}
      /\ journal'[1].dir = journal[i].dir /\ journal'[1].saved = journal[i].saved
      /\ journal'[1].lines = Len(log')
  <2> DEFINE entry == [journal[i] EXCEPT !.lines = Len(log')]
  <2>1. /\ entry \in Entry /\ entry.dir = journal[i].dir /\ entry.saved = journal[i].saved
        /\ entry.lines = Len(log')
    BY <1>3, <1>6 DEF Entry
  <2>2. journal' = <<entry>>
    BY <1>1
  <2> HIDE DEF entry
  <2> QED
    BY <2>1, <2>2
<1>8. Dir' = journal[i].dir /\ Saved' = journal[i].saved
  BY <1>7 DEF Dir, Saved, Last
<1>9. TypeInv'
  <2>1. proc' \in [Pids -> Process] /\ \A p \in Pids : proc'[p] = Idle
    <3>1. Idle \in Process
      BY DEF Idle, Process
    <3> QED
      BY <1>2, <3>1
  <2> QED
    BY <1>2, <1>6, <1>7, <2>1 DEF IInv, TypeInv, InSave, Idle
<1>10. NamesInv'
  <2>1. OneName(journal[i].dir)
    BY <1>3 DEF IInv, NamesInv
  <2> QED
    BY <1>7, <2>1 DEF NamesInv, OneName
<1>11. SaveInv'
  BY <1>2 DEF SaveInv, TmpInPlace, InSave, Idle
<1>12. FilesInv'
  <2>1. OneName(journal[i].dir)
    BY <1>3 DEF IInv, NamesInv
  <2>2. ASSUME StatePath \in DOMAIN journal[i].dir
        PROVE  LET inode == journal[i].dir[StatePath]
               IN  /\ platter[inode] \in States
                   /\ \A p \in Pids : TmpPath(p) \in DOMAIN journal[i].dir =>
                        journal[i].dir[TmpPath(p)] # inode
    <3>1. LET inode == journal[i].dir[StatePath]
          IN  cached[inode] \in States /\ platter[inode] = cached[inode]
      BY <1>3, <2>2 DEF IInv, FilesInv, Installed
    <3> QED
      BY <2>1, <2>2, <3>1, PathFacts DEF OneName
  <2>3. StatePath \in DOMAIN journal[i].dir =>
          LET inode == journal[i].dir[StatePath]
          IN  /\ cached'[inode] \in States /\ platter'[inode] = cached'[inode]
              /\ \A p \in Pids : TmpPath(p) \in DOMAIN Dir' => Dir'[TmpPath(p)] # inode
    BY <1>2, <1>8, <2>2
  <2> QED
    BY <1>7, <2>3 DEF FilesInv, Installed
<1>13. OrderInv'
  BY <1>6, <1>7 DEF OrderInv
<1>14. ASSUME NEW j \in 1..Len(log'), Readable(1, j)'
       PROVE  log'[j] \in journal[i].saved
  <2>1. j \in 1..k /\ log'[j] = log[j]
    BY <1>5, <1>6, <1>14 DEF Readable
  <2>2. Readable(i, j) /\ j \in 1..Len(log)
    <3>1. j \in 1..Len(log) /\ j \in 1..Reachable(i)
      BY <1>3, <1>4, <1>5, <2>1
    <3>2. \A h \in 1..j : log[h] # Torn
      BY <1>5, <1>6, <1>14, <2>1 DEF Readable
    <3> QED
      BY <3>1, <3>2 DEF Readable
  <2> QED
    BY <1>3, <2>1, <2>2 DEF IInv, EventInv
<1>15. EventInv'
  BY <1>2, <1>7, <1>14 DEF EventInv, Idle
<1> QED
  BY <1>9, <1>10, <1>11, <1>12, <1>13, <1>15 DEF IInv

-----------------------------------------------------------------------------
(* The invariant *)

LEMMA InitIsIInv == Init => IInv
<1> SUFFICES ASSUME Init PROVE IInv
  OBVIOUS
<1> DEFINE first == [dir |-> [name \in {} |-> NoCheckpoint], lines |-> 0, saved |-> {}]
<1>1. /\ journal = <<first>>
      /\ cached = [i \in Inodes |-> Empty] /\ platter = [i \in Inodes |-> Empty]
      /\ log = <<>> /\ safe = 0 /\ proc = [p \in Pids |-> Idle]
  BY DEF Init
<1>2. first \in Entry /\ DOMAIN first.dir = {} /\ first.lines = 0 /\ first.saved = {}
  <2>1. [name \in {} |-> NoCheckpoint] \in [{} -> Inodes]
    OBVIOUS
  <2>2. [name \in {} |-> NoCheckpoint] \in Dirs
    BY <2>1 DEF Dirs
  <2> QED
    BY <2>2 DEF Entry
<1> HIDE DEF first
<1>3. /\ journal \in Seq(Entry) /\ Len(journal) = 1 /\ DOMAIN journal = {1}
      /\ journal[1] = first /\ journal # <<>>
  BY <1>1, <1>2
<1>4. Dir = first.dir /\ Saved = first.saved
  BY <1>3 DEF Dir, Saved, Last
<1>5. log \in Seq(States \cup {Torn}) /\ Len(log) = 0
  BY <1>1
<1>6. proc \in [Pids -> Process] /\ \A p \in Pids : proc[p] = Idle
  <2>1. Idle \in Process
    BY DEF Idle, Process
  <2> QED
    BY <1>1, <2>1
<1>7. TypeInv
  BY <1>1, <1>3, <1>5, <1>6 DEF TypeInv, InSave, Idle, Contents
<1>8. SaveInv
  BY <1>6 DEF SaveInv, TmpInPlace, InSave, Idle
<1>9. NamesInv /\ FilesInv
  BY <1>2, <1>3 DEF NamesInv, OneName, FilesInv, Installed
<1>10. OrderInv /\ EventInv
  BY <1>2, <1>3, <1>5, <1>6 DEF OrderInv, EventInv, Idle
<1> QED
  BY <1>7, <1>8, <1>9, <1>10 DEF IInv

LEMMA NextKeepsIInv ==
  ASSUME IInv, [Next]_vars
  PROVE  IInv'
<1>1. ASSUME NEW p \in Pids, NEW s \in States, Open(p, s) PROVE IInv'
  BY <1>1, OpenNewStep, OpenLeftStep
<1>2. ASSUME NEW p \in Pids, WriteRaises(p) PROVE IInv'
  BY <1>2, LeaveStep DEF WriteRaises
<1>3. ASSUME NEW p \in Pids, Write(p) \/ Flush(p) \/ Fsync(p) PROVE IInv'
  BY <1>3, WriteStep, WritesStep
<1>4. ASSUME NEW p \in Pids, Replace(p) PROVE IInv'
  BY <1>4, ReplaceStep
<1>5. ASSUME NEW p \in Pids, AppendEvent(p) PROVE IInv'
  BY <1>5, AppendEventStep
<1>6. ASSUME NEW p \in Pids, Kill(p) PROVE IInv'
  BY <1>6, LeaveStep DEF Kill
<1>7. CASE GcTempFiles
  BY <1>7, SweepKeeps, StutterStep
<1>8. ASSUME NEW inode \in Inodes, WriteBack(inode) PROVE IInv'
  BY <1>8, WriteBackStep
<1>9. CASE CommitJournal
  BY <1>9, CommitStep
<1>10. CASE PowerFailure
  BY <1>10, PowerFailureStep
<1>11. CASE UNCHANGED vars
  BY <1>11, StutterStep DEF vars
<1> QED
  BY <1>1, <1>2, <1>3, <1>4, <1>5, <1>6, <1>7, <1>8, <1>9, <1>10, <1>11 DEF Next

\* In every execution the directory, the files in it and the log are related
\* as StoreInvariant says, however many processes save, are killed or lose power.
THEOREM StoreCorrect == Spec => []IInv
<1>1. Init => IInv
  BY InitIsIInv
<1>2. IInv /\ [Next]_vars => IInv'
  BY NextKeepsIInv
<1> QED
  BY <1>1, <1>2, PTL DEF Spec

\* The variables have their types.
THEOREM StoreTypesHold == Spec => []TypeOK
<1>1. IInv => TypeOK
  <2> SUFFICES ASSUME IInv PROVE TypeOK
    OBVIOUS
  <2>1. ASSUME NEW i \in 1..Len(journal)
        PROVE  /\ DOMAIN journal[i].dir \subseteq Paths /\ Range(journal[i].dir) \subseteq Inodes
               /\ journal[i].lines \in 0..Len(log) /\ journal[i].saved \subseteq States
    <3>1. /\ journal[i].dir \in Dirs /\ journal[i].lines \in Nat
          /\ journal[i].saved \in SUBSET States /\ journal[i].lines <= Len(log)
      BY JournalFacts DEF IInv, OrderInv
    <3>2. Len(log) \in Nat
      BY DEF IInv, TypeInv
    <3>3. Range(journal[i].dir) \subseteq Inodes
      BY <3>1, DirFacts DEF Range
    <3> QED
      BY <3>1, <3>2, <3>3, DirFacts
  <2>2. ASSUME NEW p \in Pids
        PROVE  \/ proc[p] = Idle
               \/ InSave(p) /\ proc[p].state \in States /\ proc[p].fd \in Inodes
               \/ proc[p] \in [pc : {"saved"}, state : States, fd : {NoCheckpoint}]
    BY DEF IInv, TypeInv, Process, InSave
  <2> QED
    BY <2>1, <2>2 DEF TypeOK, IInv, TypeInv
<1> QED
  BY <1>1, StoreCorrect, PTL

\* os.replace always finds the temporary file that its save wrote.
THEOREM TmpAlwaysInPlace == Spec => []TmpInPlace
<1>1. IInv => TmpInPlace
  BY DEF IInv, SaveInv
<1> QED
  BY <1>1, StoreCorrect, PTL

\* load_latest never meets a torn or an empty state.json, now or after a power
\* failure at any instant.
THEOREM NeverTornEver == Spec => []NeverTorn
<1>1. IInv => NeverTorn
  <2> SUFFICES ASSUME IInv PROVE NeverTorn
    OBVIOUS
  <2>1. \A i \in 1..Len(journal) :
          LET dir == journal[i].dir
          IN  StatePath \in DOMAIN dir =>
                cached[dir[StatePath]] \in States /\ platter[dir[StatePath]] \in States
    BY JournalFacts DEF IInv, FilesInv, Installed
  <2>2. Dir = journal[Len(journal)].dir /\ Len(journal) \in 1..Len(journal)
    BY JournalFacts DEF IInv
  <2> QED
    BY <2>1, <2>2 DEF NeverTorn, LoadFrom
<1> QED
  BY <1>1, StoreCorrect, PTL

\* No CheckpointWritten that can be read, now or after a power failure, is
\* about a state that was not installed in what survives of the directory.
THEOREM EventsAlwaysExplained == Spec => []EventsExplained
<1>1. IInv => EventsExplained
  <2> SUFFICES ASSUME IInv, NEW i \in 1..Len(journal),
                      NEW s \in ReadEvents(SubSeq(log, 1, Reachable(i)))
               PROVE  s \in journal[i].saved
    BY DEF EventsExplained
  <2> DEFINE m == Reachable(i)
             kept == SubSeq(log, 1, m)
  <2>1. /\ log \in Seq(States \cup {Torn}) /\ Len(log) \in Nat /\ Len(journal) \in Nat
        /\ \A k \in 1..Len(journal) : journal[k].lines \in 0..Len(log)
    BY JournalFacts DEF IInv, TypeInv, OrderInv
  <2>2. m \in 0..Len(log)
    <3>1. CASE i < Len(journal)
      <4>1. i + 1 \in 1..Len(journal)
        BY <2>1, <3>1
      <4> QED
        BY <2>1, <3>1, <4>1 DEF Reachable
    <3>2. CASE ~(i < Len(journal))
      BY <2>1, <3>2 DEF Reachable
    <3> QED
      BY <3>1, <3>2
  <2>3. Len(kept) = m /\ \A k \in 1..m : kept[k] = log[k]
    <3> HIDE DEF m
    <3> QED
      BY <2>1, <2>2, SubSeqProperties
  <2>4. PICK k \in 1..Len(kept) : s = kept[k] /\ \A j \in 1..k : kept[j] # Torn
    BY DEF ReadEvents
  <2> HIDE DEF m, kept
  <2>5. k \in 1..Len(log) /\ s = log[k] /\ \A j \in 1..k : log[j] # Torn
    BY <2>1, <2>2, <2>3, <2>4
  <2>6. Readable(i, k)
    BY <2>3, <2>4, <2>5 DEF Readable, m
  <2> QED
    BY <2>1, <2>5, <2>6, JournalFacts DEF IInv, EventInv
<1> QED
  BY <1>1, StoreCorrect, PTL

\* A save that returns has installed the state that it was called with.
THEOREM SavesInstallOwnState == Spec => InstallsOwnState
<1>1. ASSUME IInv, NEW p \in Pids, Replace(p)
      PROVE  LoadFrom(Dir', cached') = proc[p].state
  <2> DEFINE fd == proc[p].fd
  <2>1. /\ TmpPath(p) \in DOMAIN Dir /\ Dir[TmpPath(p)] = fd /\ fd \in Inodes
        /\ cached' = cached /\ cached[fd] = proc[p].state
        /\ proc[p].state \in States
        /\ Journal(Unlink(Link(Dir, StatePath, Dir[TmpPath(p)]), {TmpPath(p)}),
                   Saved \cup {proc[p].state})
    BY <1>1, OwnFile, ProcFacts DEF IInv, SaveInv, Replace, InSave
  <2>2. Dir \in Dirs /\ Saved \in SUBSET States /\ StatePath \in Paths /\ TmpPath(p) # StatePath
    BY <1>1, JournalFacts, PathFacts DEF IInv
  <2> DEFINE linked == Link(Dir, StatePath, fd)
             dir == Unlink(linked, {TmpPath(p)})
  <2>3. linked \in Dirs /\ DOMAIN linked = DOMAIN Dir \cup {StatePath} /\ linked[StatePath] = fd
    <3> HIDE DEF fd
    <3> QED
      BY <2>1, <2>2, LinkIsDir
  <2> HIDE DEF linked
  <2>4. dir \in Dirs /\ StatePath \in DOMAIN dir /\ dir[StatePath] = fd
    <3> HIDE DEF fd
    <3>1. StatePath \in DOMAIN linked \ {TmpPath(p)}
      BY <2>2, <2>3
    <3>2. /\ dir \in Dirs /\ DOMAIN dir = DOMAIN linked \ {TmpPath(p)}
          /\ \A name \in DOMAIN linked \ {TmpPath(p)} : dir[name] = linked[name]
      BY <2>3, UnlinkIsDir
    <3> QED
      BY <2>3, <3>1, <3>2
  <2>5. Dir' = dir
    <3>1. Journal(dir, Saved \cup {proc[p].state}) /\ Saved \cup {proc[p].state} \in SUBSET States
      BY <2>1, <2>2 DEF linked
    <3> HIDE DEF dir
    <3> QED
      BY <1>1, <2>4, <3>1, JournalGrows DEF IInv
  <2> QED
    BY <2>1, <2>4, <2>5 DEF LoadFrom
<1>2. IInv /\ [Next]_vars => [\A p \in Pids : Replace(p) => LoadFrom(Dir', cached') = proc[p].state]_vars
  BY <1>1
<1> QED
  BY <1>2, StoreCorrect, PTL DEF Spec, InstallsOwnState

-----------------------------------------------------------------------------
(* The directory implements AtomicCheckpoint *)

Current == LoadFrom(Dir, cached)

Recoverable == {LoadFrom(journal[i].dir, platter) : i \in 1..Len(journal)}

\* An installed state.json reads the same before and after a power failure, and
\* after a step that leaves settled files alone.
LEMMA LoadsAlike ==
  ASSUME IInv, NEW i \in 1..Len(journal)
  PROVE  /\ LoadFrom(journal[i].dir, cached) = LoadFrom(journal[i].dir, platter)
         /\ (\A inode \in Inodes : Settled(inode) =>
               cached'[inode] = cached[inode] /\ platter'[inode] = platter[inode])
            => /\ LoadFrom(journal[i].dir, cached') = LoadFrom(journal[i].dir, cached)
               /\ LoadFrom(journal[i].dir, platter') = LoadFrom(journal[i].dir, platter)
<1> DEFINE dir == journal[i].dir
<1>1. dir \in Dirs /\ Installed(dir)
  BY JournalFacts DEF IInv, FilesInv
<1>2. CASE StatePath \in DOMAIN dir
  <2>1. dir[StatePath] \in Inodes /\ Settled(dir[StatePath])
    BY <1>1, <1>2, DirFacts DEF Installed, Settled
  <2> QED
    BY <1>2, <2>1 DEF LoadFrom, Settled
<1>3. CASE StatePath \notin DOMAIN dir
  BY <1>3 DEF LoadFrom
<1> QED
  BY <1>2, <1>3

LEMMA LoadsKept ==
  ASSUME IInv, UNCHANGED journal,
         \A inode \in Inodes : Settled(inode) =>
           cached'[inode] = cached[inode] /\ platter'[inode] = platter[inode]
  PROVE  UNCHANGED <<Current, Recoverable>>
<1>1. Dir' = Dir /\ Dir = journal[Len(journal)].dir /\ Len(journal) \in 1..Len(journal)
  BY JournalFacts DEF IInv, Dir
<1>2. \A i \in 1..Len(journal) :
        /\ LoadFrom(journal[i].dir, cached') = LoadFrom(journal[i].dir, cached)
        /\ LoadFrom(journal[i].dir, platter') = LoadFrom(journal[i].dir, platter)
  BY LoadsAlike
<1>3. Current' = Current
  BY <1>1, <1>2 DEF Current
<1>4. Recoverable' = Recoverable
  BY <1>2 DEF Recoverable
<1> QED
  BY <1>3, <1>4

\* A new temporary file hides no state.json.
LEMMA OpenNewLoads ==
  ASSUME IInv, NEW p \in Pids, NEW s \in States, Open(p, s), TmpPath(p) \notin DOMAIN Dir
  PROVE  UNCHANGED <<Current, Recoverable>>
<1> DEFINE fd == CHOOSE i \in Inodes \ UsedInodes : TRUE
           tmp == TmpPath(p)
           dir == Link(Dir, tmp, fd)
           n == Len(journal)
<1>1. /\ fd \in Inodes /\ fd \notin UsedInodes
      /\ Journal(dir, Saved)
      /\ platter' = [platter EXCEPT ![fd] = Empty]
      /\ cached' = [cached EXCEPT ![fd] = Empty]
  BY DEF Open
<1>2. /\ n \in Nat \ {0} /\ DOMAIN journal = 1..n /\ n \in 1..n
      /\ Dir = journal[n].dir /\ Dir \in Dirs /\ Saved \in SUBSET States
      /\ \A i \in 1..n : journal[i].dir \in Dirs
  BY JournalFacts DEF IInv
<1>3. \A i \in 1..n : \A name \in DOMAIN journal[i].dir : journal[i].dir[name] # fd
  BY <1>1, UnusedFile
<1>4. tmp \in Paths /\ tmp # StatePath /\ tmp \notin DOMAIN Dir
  BY PathFacts
<1> HIDE DEF fd, tmp
<1>5. /\ dir \in Dirs /\ DOMAIN dir = DOMAIN Dir \cup {tmp}
      /\ \A name \in DOMAIN Dir : name # tmp => dir[name] = Dir[name]
  BY <1>1, <1>2, <1>4, LinkIsDir
<1> HIDE DEF dir
<1>6. /\ Len(journal') = n + 1 /\ \A i \in 1..n : journal'[i] = journal[i]
      /\ journal'[n + 1].dir = dir /\ Dir' = dir
  <2>1. /\ Len(journal') = n + 1 /\ \A i \in DOMAIN journal : journal'[i] = journal[i]
        /\ journal'[n + 1] = [dir |-> dir, lines |-> Len(log), saved |-> Saved]
        /\ Dir' = dir
    BY <1>1, <1>2, <1>5, JournalGrows DEF IInv
  <2> QED
    BY <1>2, <2>1
<1>7. \A inode \in Inodes : inode # fd =>
        cached'[inode] = cached[inode] /\ platter'[inode] = platter[inode]
  BY <1>1 DEF IInv, TypeInv
<1>8. ASSUME NEW i \in 1..n
      PROVE  /\ LoadFrom(journal[i].dir, cached') = LoadFrom(journal[i].dir, cached)
             /\ LoadFrom(journal[i].dir, platter') = LoadFrom(journal[i].dir, platter)
  <2>1. CASE StatePath \in DOMAIN journal[i].dir
    <3>1. journal[i].dir[StatePath] \in Inodes /\ journal[i].dir[StatePath] # fd
      BY <1>2, <1>3, <2>1, DirFacts
    <3> QED
      BY <1>7, <2>1, <3>1 DEF LoadFrom
  <2>2. CASE StatePath \notin DOMAIN journal[i].dir
    BY <2>2 DEF LoadFrom
  <2> QED
    BY <2>1, <2>2
<1>9. \A contents : LoadFrom(dir, contents) = LoadFrom(Dir, contents)
  BY <1>4, <1>5 DEF LoadFrom
<1>10. Current' = Current
  BY <1>2, <1>6, <1>8, <1>9 DEF Current
<1>11. Recoverable' = Recoverable
  <2>1. Recoverable' = {LoadFrom(journal'[i].dir, platter') : i \in 1..(n + 1)}
    BY <1>6 DEF Recoverable
  <2>2. \A i \in 1..n : LoadFrom(journal'[i].dir, platter') = LoadFrom(journal[i].dir, platter)
    BY <1>6, <1>8
  <2>3. LoadFrom(journal'[n + 1].dir, platter') = LoadFrom(journal[n].dir, platter)
    BY <1>2, <1>6, <1>8, <1>9
  <2>4. \A i \in 1..(n + 1) : i \in 1..n \/ i = n + 1
    BY <1>2
  <2>5. \A i \in 1..n : i \in 1..(n + 1)
    BY <1>2
  <2> HIDE DEF n
  <2>6. {LoadFrom(journal'[i].dir, platter') : i \in 1..(n + 1)}
          = {LoadFrom(journal[i].dir, platter) : i \in 1..n}
    BY <1>2, <2>2, <2>3, <2>4, <2>5
  <2> QED
    BY <2>1, <2>6 DEF Recoverable, n
<1> QED
  BY <1>10, <1>11

LEMMA ReplaceSaves ==
  ASSUME IInv, NEW p \in Pids, Replace(p)
  PROVE  /\ Current' = proc[p].state /\ proc[p].state \in States
         /\ Recoverable' = Recoverable \cup {proc[p].state}
<1> DEFINE fd == proc[p].fd
           state == proc[p].state
           linked == Link(Dir, StatePath, fd)
           dir == Unlink(linked, {TmpPath(p)})
           n == Len(journal)
<1>1. /\ TmpPath(p) \in DOMAIN Dir /\ Dir[TmpPath(p)] = fd /\ fd \in Inodes
      /\ cached' = cached /\ platter' = platter
      /\ cached[fd] = state /\ platter[fd] = state /\ state \in States
      /\ Journal(dir, Saved \cup {state})
  BY OwnFile, ProcFacts DEF IInv, SaveInv, Replace, InSave
<1>2. /\ n \in Nat \ {0} /\ DOMAIN journal = 1..n
      /\ Dir \in Dirs /\ Saved \cup {state} \in SUBSET States
      /\ StatePath \in Paths /\ TmpPath(p) # StatePath
  BY <1>1, JournalFacts, PathFacts DEF IInv
<1> HIDE DEF fd, state
<1>3. linked \in Dirs /\ DOMAIN linked = DOMAIN Dir \cup {StatePath} /\ linked[StatePath] = fd
  BY <1>1, <1>2, LinkIsDir
<1> HIDE DEF linked
<1>4. dir \in Dirs /\ StatePath \in DOMAIN dir /\ dir[StatePath] = fd
  <2>1. StatePath \in DOMAIN linked \ {TmpPath(p)}
    BY <1>2, <1>3
  <2>2. /\ dir \in Dirs /\ DOMAIN dir = DOMAIN linked \ {TmpPath(p)}
        /\ \A name \in DOMAIN linked \ {TmpPath(p)} : dir[name] = linked[name]
    BY <1>3, UnlinkIsDir
  <2> QED
    BY <1>3, <2>1, <2>2
<1> HIDE DEF dir
<1>5. /\ Len(journal') = n + 1 /\ \A i \in 1..n : journal'[i] = journal[i]
      /\ journal'[n + 1].dir = dir /\ Dir' = dir
  <2>1. /\ Len(journal') = n + 1 /\ \A i \in DOMAIN journal : journal'[i] = journal[i]
        /\ journal'[n + 1] = [dir |-> dir, lines |-> Len(log), saved |-> Saved \cup {state}]
        /\ Dir' = dir
    BY <1>1, <1>2, <1>4, JournalGrows DEF IInv
  <2> QED
    BY <1>2, <2>1
<1>6. Current' = state
  BY <1>1, <1>4, <1>5 DEF Current, LoadFrom
<1>7. Recoverable' = Recoverable \cup {state}
  <2>1. Recoverable' = {LoadFrom(journal'[i].dir, platter) : i \in 1..(n + 1)}
    BY <1>1, <1>5 DEF Recoverable
  <2>2. LoadFrom(journal'[n + 1].dir, platter) = state
    BY <1>1, <1>4, <1>5 DEF LoadFrom
  <2>3. \A i : i \in 1..(n + 1) <=> i \in 1..n \/ i = n + 1
    BY <1>2
  <2> HIDE DEF n
  <2>4. {LoadFrom(journal'[i].dir, platter) : i \in 1..(n + 1)}
          = {LoadFrom(journal[i].dir, platter) : i \in 1..n} \cup {state}
    BY <1>5, <2>2, <2>3
  <2> QED
    BY <2>1, <2>4 DEF Recoverable, n
<1> QED
  BY <1>1, <1>6, <1>7 DEF state

LEMMA CommitSettles ==
  ASSUME IInv, CommitJournal
  PROVE  /\ Current' = Current
         /\ Recoverable' \in SUBSET Recoverable /\ Current \in Recoverable'
<1> DEFINE n == Len(journal)
<1>1. /\ n > 1 /\ journal' = Tail(journal) /\ cached' = cached /\ platter' = platter
  BY DEF CommitJournal
<1>2. /\ n \in Nat /\ journal \in Seq(Entry) /\ Dir = journal[n].dir /\ n \in 1..n
  BY JournalFacts DEF IInv
<1>3. /\ Len(journal') = n - 1 /\ \A i \in 1..(n - 1) : journal'[i] = journal[i + 1]
  <2>1. /\ Len(journal') = n - 1
        /\ \A i \in 1..Len(journal') : journal'[i] = journal[i + 1]
    BY <1>1, <1>2, HeadTailProperties, EmptySeq
  <2> QED
    BY <2>1
<1>4. Dir' = Dir
  <2>1. Dir' = journal'[n - 1].dir
    BY <1>3 DEF Dir, Last
  <2>2. n - 1 \in 1..(n - 1) /\ (n - 1) + 1 = n
    BY <1>1, <1>2
  <2> QED
    BY <1>2, <1>3, <2>1, <2>2
<1>5. Current' = Current
  BY <1>1, <1>4 DEF Current
<1>6. Recoverable' = {LoadFrom(journal'[i].dir, platter) : i \in 1..(n - 1)}
  BY <1>1, <1>3 DEF Recoverable
<1>7. Recoverable' \in SUBSET Recoverable
  <2>1. \A i \in 1..(n - 1) : i + 1 \in 1..n
    BY <1>2
  <2> QED
    BY <1>3, <1>6, <2>1 DEF Recoverable
<1>8. Current \in Recoverable'
  <2>1. n - 1 \in 1..(n - 1) /\ journal'[n - 1].dir = Dir
    <3>1. n - 1 \in 1..(n - 1) /\ (n - 1) + 1 = n
      BY <1>1, <1>2
    <3> QED
      BY <1>2, <1>3, <3>1
  <2>2. Current = LoadFrom(Dir, platter)
    BY <1>2, LoadsAlike DEF Current
  <2> QED
    BY <1>6, <2>1, <2>2
<1> QED
  BY <1>5, <1>7, <1>8

LEMMA PowerFailureLoads ==
  ASSUME IInv, PowerFailure
  PROVE  Current' \in Recoverable /\ Recoverable' = {Current'}
<1>1. PICK i \in 1..Len(journal) : journal' = <<[journal[i] EXCEPT !.lines = Len(log')]>>
  BY DEF PowerFailure
<1>2. cached' = platter /\ platter' = platter
  BY DEF PowerFailure
<1>3. Len(journal') = 1 /\ journal'[1].dir = journal[i].dir
  <2>1. journal[i] \in Entry
    BY JournalFacts DEF IInv
  <2>2. [journal[i] EXCEPT !.lines = Len(log')].dir = journal[i].dir
    BY <2>1 DEF Entry
  <2> DEFINE entry == [journal[i] EXCEPT !.lines = Len(log')]
  <2>3. journal' = <<entry>> /\ entry.dir = journal[i].dir
    BY <1>1, <2>2
  <2> HIDE DEF entry
  <2> QED
    BY <2>3
<1>4. Dir' = journal[i].dir
  BY <1>3 DEF Dir, Last
<1>5. Current' = LoadFrom(journal[i].dir, platter)
  BY <1>2, <1>4 DEF Current
<1>6. Recoverable' = {LoadFrom(journal[i].dir, platter)}
  BY <1>2, <1>3 DEF Recoverable
<1> QED
  BY <1>5, <1>6 DEF Recoverable

\* Every step of the file system is a step of the register, or none.
LEMMA NextMaps ==
  ASSUME IInv, [Next]_vars
  PROVE  \/ UNCHANGED <<Current, Recoverable>>
         \/ \E s \in States : Current' = s /\ Recoverable' = Recoverable \cup {s}
         \/ /\ Current' = Current
            /\ Recoverable' \in SUBSET Recoverable /\ Current \in Recoverable'
         \/ Current' \in Recoverable /\ Recoverable' = {Current'}
<1>1. ASSUME NEW p \in Pids, NEW s \in States, Open(p, s), TmpPath(p) \in DOMAIN Dir
      PROVE  UNCHANGED <<Current, Recoverable>>
  <2>1. ~Settled(Dir[TmpPath(p)])
    BY <1>1 DEF Settled
  <2>2. UNCHANGED <<journal, platter>> /\ cached' = [cached EXCEPT ![Dir[TmpPath(p)]] = Empty]
    BY <1>1 DEF Open
  <2>3. \A inode \in Inodes : Settled(inode) =>
          cached'[inode] = cached[inode] /\ platter'[inode] = platter[inode]
    BY <2>1, <2>2 DEF IInv, TypeInv
  <2> QED
    BY <2>2, <2>3, LoadsKept
<1>2. ASSUME NEW p \in Pids, NEW s \in States, Open(p, s)
      PROVE  UNCHANGED <<Current, Recoverable>>
  BY <1>1, <1>2, OpenNewLoads
<1>3. ASSUME UNCHANGED <<journal, cached, platter>>
      PROVE  UNCHANGED <<Current, Recoverable>>
  BY <1>3, LoadsKept
<1>4. ASSUME NEW p \in Pids, WriteRaises(p) \/ AppendEvent(p) \/ Kill(p)
      PROVE  UNCHANGED <<Current, Recoverable>>
  BY <1>3, <1>4 DEF WriteRaises, AppendEvent, Kill
<1>5. ASSUME NEW p \in Pids, Write(p) \/ Flush(p) \/ Fsync(p)
      PROVE  UNCHANGED <<Current, Recoverable>>
  <2>1. PICK label, new, old : Writes(p, label, new, old)
    BY <1>5, WriteStep
  <2>2. InSave(p) /\ ~Settled(proc[p].fd)
    BY <2>1, OwnFile DEF IInv, Writes, InSave
  <2>3. \A inode \in Inodes : Settled(inode) =>
          cached'[inode] = cached[inode] /\ platter'[inode] = platter[inode]
    BY <2>1, <2>2 DEF IInv, TypeInv, Writes
  <2> QED
    BY <2>1, <2>3, LoadsKept DEF Writes
<1>6. ASSUME NEW p \in Pids, Replace(p)
      PROVE  \E s \in States : Current' = s /\ Recoverable' = Recoverable \cup {s}
  BY <1>6, ReplaceSaves
<1>7. CASE GcTempFiles
  BY <1>3, <1>7, SweepKeeps
<1>8. ASSUME NEW inode \in Inodes, WriteBack(inode)
      PROVE  UNCHANGED <<Current, Recoverable>>
  <2>1. /\ UNCHANGED <<journal, cached>> /\ ~Settled(inode)
        /\ platter' = [platter EXCEPT ![inode] = cached[inode]]
    BY <1>8 DEF WriteBack, Settled
  <2>2. \A other \in Inodes : Settled(other) =>
          cached'[other] = cached[other] /\ platter'[other] = platter[other]
    BY <2>1 DEF IInv, TypeInv
  <2> QED
    BY <2>1, <2>2, LoadsKept
<1>9. CASE CommitJournal
  BY <1>9, CommitSettles
<1>10. CASE PowerFailure
  BY <1>10, PowerFailureLoads
<1>11. CASE UNCHANGED vars
  BY <1>3, <1>11 DEF vars
<1> QED
  BY <1>2, <1>4, <1>5, <1>6, <1>7, <1>8, <1>9, <1>10, <1>11 DEF Next

\* The directory with its files implements the atomic register that
\* AtomicCheckpoint specifies: current is what load_latest returns, recoverable
\* what it may return after a power failure.
THEOREM StoreImplementsRegister == Spec => ImplementsAtomicCheckpoint
<1>1. Init => Checkpoint!Init
  <2> SUFFICES ASSUME Init PROVE Current = NoCheckpoint /\ Recoverable = {NoCheckpoint}
    BY DEF Checkpoint!Init, Current, Recoverable
  <2>1. Len(journal) = 1 /\ DOMAIN journal[1].dir = {}
    BY DEF Init
  <2>2. \A contents : LoadFrom(journal[1].dir, contents) = NoCheckpoint
    BY <2>1 DEF LoadFrom
  <2>3. Dir = journal[1].dir
    BY <2>1 DEF Dir, Last
  <2> QED
    BY <2>1, <2>2, <2>3 DEF Current, Recoverable
<1>2. IInv /\ [Next]_vars => [Checkpoint!Next]_<<Current, Recoverable>>
  <2> SUFFICES ASSUME IInv, [Next]_vars PROVE [Checkpoint!Next]_<<Current, Recoverable>>
    OBVIOUS
  <2>1. CASE UNCHANGED <<Current, Recoverable>>
    BY <2>1
  <2>2. ASSUME NEW s \in States, Current' = s, Recoverable' = Recoverable \cup {s}
        PROVE  Checkpoint!Save(s)
    BY <2>2 DEF Checkpoint!Save, Current, Recoverable
  <2>3. CASE /\ Current' = Current
             /\ Recoverable' \in SUBSET Recoverable /\ Current \in Recoverable'
    <3>1. Checkpoint!Settle
      BY <2>3 DEF Checkpoint!Settle, Current, Recoverable
    <3> QED
      BY <3>1 DEF Checkpoint!Next
  <2>4. CASE Current' \in Recoverable /\ Recoverable' = {Current'}
    <3>1. Checkpoint!PowerFailure
      BY <2>4 DEF Checkpoint!PowerFailure, Current, Recoverable
    <3> QED
      BY <3>1 DEF Checkpoint!Next
  <2> QED
    BY <2>1, <2>2, <2>3, <2>4, NextMaps DEF Checkpoint!Next
<1>3. IInv /\ [Next]_vars => [Checkpoint!Next]_<<LoadFrom(Dir, cached),
        {LoadFrom(journal[i].dir, platter) : i \in 1..Len(journal)}>>
  BY <1>2 DEF Current, Recoverable
<1> QED
  BY <1>1, <1>3, StoreCorrect, PTL DEF Spec, ImplementsAtomicCheckpoint, Checkpoint!Spec

=============================================================================
