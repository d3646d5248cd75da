----------------------------- MODULE MC_EventSink -----------------------------
(* Model checking of EventSink on small instances. *)
EXTENDS EventSink
=============================================================================
