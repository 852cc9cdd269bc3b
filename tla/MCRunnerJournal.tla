-------------------------- MODULE MCRunnerJournal --------------------------
(* Model values and symmetry for checking RunnerJournal. *)
EXTENDS RunnerJournal, TLC

CONSTANTS s1, s2, r1, r2, r3, t1

Symmetry == Permutations(Request)

\* Sound where no ship is told apart: Polled is empty.
ShipSymmetry == Permutations(Request) \cup Permutations(Instance)
=============================================================================
