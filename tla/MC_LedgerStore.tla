---------------------------- MODULE MC_LedgerStore ----------------------------
(* Model checking of LedgerStore on small instances. *)
EXTENDS LedgerStore, TLC
CONSTANTS p1, p2, t1, ra, rb
Symmetry == Permutations(Procs) \cup Permutations(Runs)
=============================================================================
