-------------------------- MODULE AtomicCheckpoint --------------------------
(***************************************************************************)
(* What save_checkpoint and load_latest promise: a register that always    *)
(* holds one of the states that were saved, whole.  Nothing but a save     *)
(* changes it while the machine is up; a power failure may bring back an   *)
(* earlier saved state, never a mixture and never nothing at all once the  *)
(* first save has settled.                                                 *)
(***************************************************************************)
CONSTANTS States, NoCheckpoint

VARIABLES
  current,     \* what load_latest returns
  recoverable  \* what it may return after a power failure

Init == current = NoCheckpoint /\ recoverable = {NoCheckpoint}

Save(s) ==
  /\ current' = s
  /\ recoverable' = recoverable \cup {s}

\* The file system commits its journal: older states are out of reach.
Settle ==
  /\ recoverable' \in SUBSET recoverable
  /\ current \in recoverable'
  /\ UNCHANGED current

PowerFailure ==
  /\ current' \in recoverable
  /\ recoverable' = {current'}

Next == Settle \/ PowerFailure \/ \E s \in States : Save(s)

Spec == Init /\ [][Next]_<<current, recoverable>>

=============================================================================
