------------------------------- MODULE MC_Wal -------------------------------
(* Instances of Wal for TLC. *)
EXTENDS Wal

\* A good disk, one that refuses writes, and each kind of damage an append can do.
AllFaults == {{}, {"no_write"}, {"part_header"}, {"part_frame"}, {"sync"}}
PartialFrame == {{"part_frame"}}

=============================================================================
