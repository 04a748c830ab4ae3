---------------------------- MODULE MCStateStore ----------------------------
(* StateStore for TLC: two processes save two states and one that UTF-8 cannot *)
(* encode. *)
EXTENDS StateStore, TLC

CONSTANTS s1, s2, bad, p1, p2, i1, i2, i3, i4

\* Neither the states that can be saved nor the processes are told apart.
MCSymmetry == Permutations({s1, s2}) \cup Permutations({p1, p2})

=============================================================================
