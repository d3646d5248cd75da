-------------------------- MODULE MC_ActionOutcomes --------------------------
(* Model checking of ActionOutcomes on small instances. *)
EXTENDS ActionOutcomes
CONSTANTS a1, a2
=============================================================================
