---------------------------- MODULE DurableLog ----------------------------
(***************************************************************************)
(* What the write-ahead log promises the pipeline, without segments:       *)
(* records with consecutive numbers that never start over, of which only   *)
(* those up to a checkpoint disappear.                                     *)
(***************************************************************************)
EXTENDS Naturals

CONSTANT Drafts

VARIABLES
    pending,    \* the records above the checkpoint
    last        \* the highest number ever used

vars == <<pending, last>>

Init == pending = {} /\ last = 0

Add(d) ==
    /\ pending' = pending \cup {[seq |-> last + 1, draft |-> d]}
    /\ last' = last + 1

Apply(n) ==
    /\ pending' = {r \in pending : r.seq > n}
    /\ UNCHANGED last

Next ==
    \/ \E d \in Drafts : Add(d)
    \/ \E n \in 1..last : Apply(n)

Spec == Init /\ [][Next]_vars

=============================================================================
