------------------------------ MODULE EventSink ------------------------------
(***************************************************************************)
(* The event pipeline of one connector session (connector/src/events.ts):  *)
(* a bounded queue in memory, one batch in flight, a bounded spool file for *)
(* evidence while the cloud is unreachable, and the notices that report     *)
(* what was dropped. JavaScript runs to its next await, so a step is the    *)
(* code between two awaits; what is emitted while a send is awaited finds   *)
(* the state that the flush left at that await.                             *)
(*                                                                          *)
(* A line of the spool is one unit of maxSpoolBytes. Event identifiers are  *)
(* numbered in the order of creation over every process that writes to the  *)
(* session's spool, so order, loss and repetition are visible in them.      *)
(***************************************************************************)
EXTENDS Integers, Sequences, FiniteSets, SequencesExt, Subsequences

CONSTANTS
    MaxBuffered,  \* opts.maxBuffered
    BatchSize,    \* opts.batchSize
    MaxSpool,     \* opts.maxSpoolBytes, in lines
    MaxEmit,      \* bound: events emitted
    MaxFail,      \* bound: sends that fail
    MaxCrash      \* bound: crashes of the process

ASSUME SinkAssumption ==
    /\ MaxBuffered \in Nat \ {0} /\ BatchSize \in Nat \ {0} /\ MaxSpool \in Nat
    /\ MaxEmit \in Nat /\ MaxFail \in Nat /\ MaxCrash \in Nat

VARIABLES
    queue,     \* events waiting in memory
    spool,     \* the lines of the spool file
    dropped,   \* events dropped and not reported yet
    fl,        \* doFlush: pc, the lines read and sent of the spool, inflight
    life,      \* the sink: "open", "closing" or "down"
    seq,       \* identifiers given so far
    cloud,     \* events the cloud has, in the order it first received them
    lost,      \* ghost: identifiers counted in dropped at some time
    gone,      \* ghost: identifiers a crash took
    reported,  \* ghost: the sum of the counts of all notices
    unsaid,    \* ghost: what was counted when a sink ended and never reported
    unsure,    \* ghost: received, but the sink was not told or forgot it
    again,     \* ghost: received more than once
    emits, fails, crashes

sink  == <<queue, spool, dropped, fl, life, seq>>
ghost == <<lost, gone, reported, unsaid, unsure, again, emits, fails, crashes>>
vars  == <<sink, cloud, ghost>>

\* "error" events, the notices among them, are evidence (MANDATORY).
Kinds == {"evidence", "other", "notice"}
Event == [id : Nat \ {0}, kind : Kinds, count : Nat]
Mandatory(e) == e.kind # "other"

\* A line whose write was cut by a crash: it has no newline.
Torn == [id |-> 0, kind |-> "torn", count |-> 0]

Ids(s) == {e.id : e \in ToSet(s)} \ {0}
Held == Ids(queue) \cup Ids(fl.batch) \cup Ids(spool)

Idle   == [pc |-> "idle", upto |-> 0, sent |-> 0, batch |-> <<>>]
Resume == [Idle EXCEPT !.pc = "resume"]

-----------------------------------------------------------------------------
\* The first n members of a set of positions.
FirstOf(idx, n) == {i \in idx : Rank(i, idx) <= n}

\* What follows a torn line is part of that line, and neither can be parsed.
Readable(sp) == {i \in DOMAIN sp : sp[i] # Torn /\ (i > 1 => sp[i - 1] # Torn)}
BadLines(sp) == Cardinality({i \in DOMAIN sp : sp[i] = Torn})
Unread(sp)   == Ids(sp) \ {sp[i].id : i \in Readable(sp)}

\* Sending the first `upto` lines, `sent` of them done: the lines left to send, the
\* last line of the next batch, and its events.
Unsent(sp, sent, upto) == {i \in Readable(sp) : sent < i /\ i <= upto}

BatchEnd(sp, sent, upto) ==
    LET left == Unsent(sp, sent, upto)
    IN  IF BatchSize <= Cardinality(left) THEN CHOOSE i \in left : Rank(i, left) = BatchSize
        ELSE upto

LineBatch(sp, sent, upto) == Pick(sp, Unsent(sp, sent, BatchEnd(sp, sent, upto)))

\* Mutant: the room left is not looked at.
KeptAll(sp, es) == es

\* spill: the events that fit in the room left, evidence first, each in its order.
Kept(sp, es) ==
    LET room == Max({0, MaxSpool - Len(sp)})
        ev   == FirstOf({i \in DOMAIN es : Mandatory(es[i])}, room)
        rest == FirstOf({i \in DOMAIN es : ~Mandatory(es[i])}, room - Cardinality(ev))
    IN  Pick(es, ev \cup rest)

Unkept(sp, es) == Ids(es) \ Ids(Kept(sp, es))

Evidence(es) == Pick(es, {i \in DOMAIN es : Mandatory(es[i])})

\* d is the count of dropped before the step; the events of ids are dropped in it.
Drop(d, ids) ==
    /\ dropped' = d + Cardinality(ids)
    /\ lost' = lost \cup ids

Receive(es) ==
    /\ cloud' = cloud \o Pick(es, {i \in DOMAIN es : es[i].id \notin Ids(cloud)})
    /\ again' = again \cup (Ids(es) \cap Ids(cloud))

-----------------------------------------------------------------------------
\* flushSpool up to its next await, on a spool sp with d events dropped: it sends the
\* first batch of the lines, or finds nothing to send.
ReadSpool(sp, d) ==
    /\ dropped' = d + BadLines(sp)
    /\ IF Readable(sp) = {}
       THEN spool' = <<>> /\ fl' = Resume
       ELSE /\ spool' = sp
            /\ fl' = [pc |-> "spool", upto |-> Len(sp), sent |-> 0,
                      batch |-> LineBatch(sp, 0, Len(sp))]
    /\ gone' = gone \cup Unread(sp)

\* doFlush up to its first await: the notice of what was dropped goes first.
BeginFlush(q, sp, d, n) ==
    LET notice == [id |-> n + 1, kind |-> "notice", count |-> d] IN
    /\ queue' = IF d > 0 THEN <<notice>> \o q ELSE q
    /\ seq' = IF d > 0 THEN n + 1 ELSE n
    /\ reported' = reported + d
    /\ ReadSpool(sp, 0)

\* Mutant: the timer does nothing while the queue is empty.
TickQueueOnly ==
    /\ life = "open" /\ fl.pc = "idle" /\ queue # <<>>
    /\ BeginFlush(queue, spool, dropped, seq)
    /\ UNCHANGED <<life, cloud, lost, unsaid, unsure, again, emits, fails, crashes>>

\* The interval timer, while the sink is not closed.
Tick ==
    /\ life = "open" /\ fl.pc = "idle"
    /\ BeginFlush(queue, spool, dropped, seq)
    /\ UNCHANGED <<life, cloud, lost, unsaid, unsure, again, emits, fails, crashes>>

\* Mutant: a full queue drops its oldest event, evidence or not.
ShedOldest ==
    IF Len(queue) < MaxBuffered THEN [q |-> queue, sp |-> spool, out |-> {}]
    ELSE [q |-> Tail(queue), sp |-> spool, out |-> {Head(queue).id}]

\* The room of emit: what a full queue gives up, the oldest event that is no
\* evidence, or else its oldest event to the spool.
Shed ==
    LET others == {i \in DOMAIN queue : ~Mandatory(queue[i])}
        oldest == <<Head(queue)>>
    IN  IF Len(queue) < MaxBuffered THEN [q |-> queue, sp |-> spool, out |-> {}]
        ELSE IF others # {}
        THEN [q |-> RemoveAt(queue, Min(others)), sp |-> spool,
              out |-> {queue[Min(others)].id}]
        ELSE [q |-> Tail(queue), sp |-> spool \o Kept(spool, oldest),
              out |-> Unkept(spool, oldest)]

\* emit; a queue of batchSize events starts a flush unless one runs.
Emit(kind) ==
    LET e == [id |-> seq + 1, kind |-> kind, count |-> 0]
        d == dropped + Cardinality(Shed.out)
        q == Append(Shed.q, e)
    IN  /\ life # "down" /\ emits < MaxEmit
        /\ emits' = emits + 1
        /\ lost' = lost \cup Shed.out
        /\ IF Len(q) >= BatchSize /\ fl.pc = "idle"
           THEN BeginFlush(q, Shed.sp, d, seq + 1)
           ELSE /\ queue' = q /\ spool' = Shed.sp /\ dropped' = d /\ seq' = seq + 1
                /\ UNCHANGED <<fl, gone, reported>>
        /\ UNCHANGED <<life, cloud, unsaid, unsure, again, fails, crashes>>

\* trimSpool: the lines that were sent, and not what was appended since.
Trim(n) == SubSeq(spool, n + 1, Len(spool))

\* The send of a batch of the spool is answered; the last one trims the file, which
\* is then read again.
SpoolSent ==
    LET done == BatchEnd(spool, fl.sent, fl.upto)
        more == Unsent(spool, done, fl.upto) # {}
    IN  /\ fl.pc = "spool"
        /\ Receive(fl.batch)
        /\ IF more
           THEN /\ fl' = [fl EXCEPT !.sent = done, !.batch = LineBatch(spool, done, fl.upto)]
                /\ UNCHANGED <<spool, dropped, gone>>
           ELSE ReadSpool(Trim(fl.upto), dropped)
        /\ UNCHANGED <<queue, life, seq, lost, reported, unsaid, unsure, emits, fails, crashes>>

\* A send that fails was received or not.
SendFails ==
    /\ fails < MaxFail /\ fails' = fails + 1
    /\ \/ Receive(fl.batch) /\ unsure' = unsure \cup Ids(fl.batch)
       \/ UNCHANGED <<cloud, again, unsure>>

\* Mutant: nothing is trimmed unless the whole spool was sent.
SpoolFailsUntrimmed ==
    /\ fl.pc = "spool"
    /\ SendFails
    /\ fl' = Idle
    /\ UNCHANGED <<spool, queue, dropped, life, seq, lost, gone, reported, unsaid, emits,
                   crashes>>

\* The flush ends; the batches of the spool that were sent are trimmed.
SpoolFails ==
    /\ fl.pc = "spool"
    /\ SendFails
    /\ spool' = Trim(fl.sent) /\ fl' = Idle
    /\ UNCHANGED <<queue, dropped, life, seq, lost, gone, reported, unsaid, emits, crashes>>

\* doFlush after flushSpool returned true: what was spilled meanwhile goes first.
Continue ==
    /\ fl.pc = "resume"
    /\ IF spool # <<>> THEN ReadSpool(spool, dropped) /\ UNCHANGED queue
       ELSE /\ fl' = IF queue = <<>> THEN Idle
                     ELSE [pc |-> "batch", upto |-> 0, sent |-> 0,
                           batch |-> SubSeq(queue, 1, Min({BatchSize, Len(queue)}))]
            /\ queue' = SubSeq(queue, BatchSize + 1, Len(queue))
            /\ UNCHANGED <<spool, dropped, gone>>
    /\ UNCHANGED <<life, seq, cloud, lost, reported, unsaid, unsure, again, emits, fails, crashes>>

BatchSent ==
    /\ fl.pc = "batch"
    /\ Receive(fl.batch)
    /\ ReadSpool(spool, dropped)
    /\ UNCHANGED <<queue, life, seq, lost, reported, unsaid, unsure, emits, fails, crashes>>

\* Mutant: the batch always goes back to the queue.
RequeuedInMemory == [q |-> fl.batch \o queue, sp |-> spool, out |-> {}]

\* requeue: back to the front of the queue, or, when queued events were spilled while
\* the batch was in flight, ahead of them in the spool, its evidence only.
Requeued ==
    LET ev == Evidence(fl.batch) IN
    IF spool = <<>> THEN [q |-> fl.batch \o queue, sp |-> spool, out |-> {}]
    ELSE [q |-> queue, sp |-> Kept(spool, ev) \o spool,
          out |-> Ids(fl.batch) \ Ids(Kept(spool, ev))]

\* A queue more than half full goes to the spool, its evidence only.
BatchFails ==
    LET r  == Requeued
        ev == Evidence(r.q)
    IN  /\ fl.pc = "batch"
        /\ SendFails
        /\ fl' = Idle
        /\ IF 2 * Len(r.q) > MaxBuffered
           THEN /\ queue' = <<>> /\ spool' = r.sp \o Kept(r.sp, ev)
                /\ Drop(dropped, r.out \cup (Ids(r.q) \ Ids(Kept(r.sp, ev))))
           ELSE /\ queue' = r.q /\ spool' = r.sp
                /\ Drop(dropped, r.out)
        /\ UNCHANGED <<life, seq, gone, reported, unsaid, emits, crashes>>

\* close stops the timer and joins the flush that runs, or starts one.
Close ==
    /\ life = "open" /\ life' = "closing"
    /\ IF fl.pc = "idle" THEN BeginFlush(queue, spool, dropped, seq)
       ELSE UNCHANGED <<queue, spool, dropped, fl, seq, gone, reported>>
    /\ UNCHANGED <<cloud, lost, unsaid, unsure, again, emits, fails, crashes>>

\* Mutant: close leaves what its flush could not send.
CloseDoneForgets ==
    /\ life = "closing" /\ fl.pc = "idle"
    /\ life' = "down" /\ queue' = <<>>
    /\ UNCHANGED <<spool, dropped, lost>>
    /\ UNCHANGED <<fl, seq, cloud, gone, reported, unsaid, unsure, again, emits, fails, crashes>>

\* The flush is over: what is left in the queue goes to the spool.
CloseDone ==
    /\ life = "closing" /\ fl.pc = "idle"
    /\ life' = "down" /\ queue' = <<>>
    /\ spool' = spool \o Kept(spool, queue)
    /\ Drop(dropped, Unkept(spool, queue))
    /\ UNCHANGED <<fl, seq, cloud, gone, reported, unsaid, unsure, again, emits, fails, crashes>>

\* The process dies: memory is gone, and a spill that was being written may have left
\* a torn line. What of the spool was received stays in it.
Crash ==
    /\ life # "down" /\ crashes < MaxCrash /\ crashes' = crashes + 1
    /\ life' = "down" /\ queue' = <<>> /\ fl' = Idle /\ dropped' = 0
    /\ \/ UNCHANGED spool
       \/ Len(queue) >= MaxBuffered /\ Len(spool) < MaxSpool /\ spool' = Append(spool, Torn)
    /\ unsaid' = unsaid + dropped
    /\ gone' = gone \cup (Held \ Ids(spool))
    /\ unsure' = unsure \cup (Ids(spool) \cap Ids(cloud))
    /\ UNCHANGED <<seq, cloud, lost, reported, again, emits, fails>>

\* A sink of the same session in the next process, or after its close.
Open ==
    /\ life = "down" /\ life' = "open"
    /\ dropped' = 0 /\ unsaid' = unsaid + dropped
    /\ UNCHANGED <<queue, spool, fl, seq, cloud, lost, gone, reported, unsure, again, emits,
                   fails, crashes>>

-----------------------------------------------------------------------------
Init ==
    /\ queue = <<>> /\ spool = <<>> /\ dropped = 0 /\ fl = Idle /\ life = "open" /\ seq = 0
    /\ cloud = <<>>
    /\ lost = {} /\ gone = {} /\ reported = 0 /\ unsaid = 0 /\ unsure = {} /\ again = {}
    /\ emits = 0 /\ fails = 0 /\ crashes = 0

Next ==
    \/ \E kind \in {"evidence", "other"} : Emit(kind)
    \/ Tick \/ SpoolSent \/ SpoolFails \/ Continue \/ BatchSent \/ BatchFails
    \/ Close \/ CloseDone \/ Crash \/ Open

Spec == Init /\ [][Next]_vars

\* The timer fires, an await resumes, and a send that is not one of the MaxFail
\* failures is answered.
FairSpec == Spec /\ WF_vars(Tick) /\ WF_vars(Continue) /\ WF_vars(SpoolSent)
                 /\ WF_vars(BatchSent) /\ WF_vars(CloseDone)

-----------------------------------------------------------------------------
\* Properties

(* The types; the spool never grows past maxSpoolBytes, and a flush has read no   *)
(* more of it than there is.                                                    *)
TypeOK ==
    /\ ToSet(queue) \cup ToSet(cloud) \cup ToSet(fl.batch) \subseteq Event
    /\ ToSet(spool) \subseteq Event \cup {Torn} /\ Len(spool) <= MaxSpool
    /\ dropped \in Nat /\ seq \in Nat /\ reported \in Nat
    /\ fl.pc \in {"idle", "resume", "spool", "batch"}
    /\ fl.sent \in 0..fl.upto /\ fl.upto <= Len(spool)
    /\ life \in {"open", "closing", "down"}
    /\ Held \cup Ids(cloud) \cup lost \cup gone \cup unsure \cup again \subseteq 1..seq

(* "Sends the spooled and queued events, oldest first": whatever is spilled,    *)
(* requeued or sent meanwhile, the cloud first receives the events of a session *)
(* in the order they were emitted (the notices of doFlush excepted).            *)
InOrder ==
    \A i, j \in DOMAIN cloud :
        i < j /\ cloud[i].kind # "notice" /\ cloud[j].kind # "notice"
            => cloud[i].id < cloud[j].id

(* No event vanishes between the queue, the batch in flight, the spool and the  *)
(* cloud: what is in none of them was dropped or taken by a crash; and without  *)
(* a crash every event that was dropped is counted once and nothing else is: in *)
(* dropped, in a notice, or in what a closed sink never reported.               *)
NothingVanishes ==
    /\ 1..seq \subseteq Held \cup Ids(cloud) \cup lost \cup gone
    /\ crashes = 0 => dropped + reported + unsaid = Cardinality(lost)

(* At-least-once is no licence to send again: the cloud receives an event twice *)
(* only when the answer to its first send was lost, or a crash came before the  *)
(* spool was trimmed (trimSpool removes what was sent, splice what is sent).    *)
NoNeedlessResend == again \subseteq unsure

(* MANDATORY events are dropped only in a step that leaves the spool full.      *)
EvidenceKept ==
    [][\A e \in ToSet(queue) \cup ToSet(fl.batch) :
           Mandatory(e) /\ e.id \in lost' \ lost => Len(spool') >= MaxSpool]_vars

(* Once sends succeed again, a sink that stays open gets rid of everything it    *)
(* holds: flush after flush the spool and the queue drain (NothingVanishes says  *)
(* where to).                                                                    *)
Drains == <>[](life = "open") => []<>(Held = {})

=============================================================================
