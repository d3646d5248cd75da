------------------------------- MODULE MC_Daemon -------------------------------
(* Model checking of Daemon on small instances. *)
EXTENDS Daemon
CONSTANTS l1, r1, s1
=============================================================================
