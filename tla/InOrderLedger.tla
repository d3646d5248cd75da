-------------------------- MODULE InOrderLedger --------------------------
(***************************************************************************)
(* What the durable pipeline promises, without queues, threads or crashes: *)
(* accepted events form an inbox; each is booked in the ledger or parked,  *)
(* in the order of the inbox, an event id is booked at most once, and the  *)
(* watermark only covers events that were booked or parked.                *)
(* An event is a record with an id and a hash.                             *)
(***************************************************************************)
EXTENDS Naturals, Sequences

CONSTANT Events

VARIABLES
    inbox,  \* accepted events, in the order they were accepted
    book,   \* the ledger
    parked, \* events that ended in the explicit failure state
    mark    \* every inbox position up to it is booked or parked

vars == <<inbox, book, parked, mark>>

Booked(e) == \E i \in 1..Len(book) : book[i] = e
KnownId(i) == \E k \in 1..Len(book) : book[k].id = i
Done(e) == Booked(e) \/ e \in parked

\* Position s is the next one to be handled, or one handled before.
InTurn(s) == s \in 1..Len(inbox) /\ \A t \in 1..(s - 1) : Done(inbox[t])

Init == inbox = <<>> /\ book = <<>> /\ parked = {} /\ mark = 0

Accept(e) ==
    /\ inbox' = Append(inbox, e)
    /\ UNCHANGED <<book, parked, mark>>

\* A fresh id is booked when its turn has come.
Book(s) ==
    /\ InTurn(s)
    /\ ~KnownId(inbox[s].id)
    /\ book' = Append(book, inbox[s])
    /\ UNCHANGED <<inbox, parked, mark>>

\* The event cannot be booked: another hash has its id, or the store refuses it.
Park(s) ==
    /\ InTurn(s)
    /\ ~Booked(inbox[s])
    /\ parked' = parked \cup {inbox[s]}
    /\ UNCHANGED <<inbox, book, mark>>

\* A conflicting event is refused before it is accepted, and recorded.
Refuse(e) ==
    /\ KnownId(e.id) /\ ~Booked(e)
    /\ parked' = parked \cup {e}
    /\ UNCHANGED <<inbox, book, mark>>

Advance(n) ==
    /\ n > mark /\ n <= Len(inbox)
    /\ \A s \in 1..n : Done(inbox[s])
    /\ mark' = n
    /\ UNCHANGED <<inbox, book, parked>>

Next ==
    \/ \E e \in Events : Accept(e) \/ Refuse(e)
    \/ \E s \in 1..Len(inbox) : Book(s) \/ Park(s) \/ Advance(s)

Spec == Init /\ [][Next]_vars

=============================================================================
