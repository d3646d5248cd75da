------------------------ MODULE LedgerPipelineInv ------------------------
(***************************************************************************)
(* The inductive invariants of the pipeline.  IInv is behind AtMostOnce    *)
(* and WatermarkSound: which thread may stand where, and why a record may  *)
(* be passed by the watermark.  JInv counts and numbers the line behind it *)
(* (LedgerPipelineProofs).                                                 *)
(***************************************************************************)
EXTENDS LedgerPipeline

(* Whoever is inside a call works on a real event, and no number in memory     *)
(* points past the end of the WAL.                                             *)
Proper ==
    /\ \A p \in Producers : prod[p].pc # "idle" => prod[p].ev \in Events
    /\ seal.pc # "none" => seal.item.ev \in Events
    /\ \A i \in 1..Len(queue) : queue[i].ev \in Events
    /\ work.pc = "lock" => work.item.ev \in Events

Bounded ==
    /\ ckpt <= Len(wal) /\ applied <= Len(wal)
    /\ todo.from >= 1 /\ todo.to <= Len(wal)
    /\ seal.item.seq <= Len(wal) /\ work.item.seq <= Len(wal)
    /\ \A i \in 1..Len(queue) : queue[i].seq <= Len(wal)
    /\ \A p \in Producers : prod[p].seq <= Len(wal)

TypeInv == TypeOK /\ Proper /\ Bounded

(* A pipeline that is not running has no thread in it; only the start runs     *)
(* during recovery.                                                            *)
Asleep ==
    /\ phase \in {"down", "stopped"} => seal.pc = "none"
    /\ phase \in {"down", "stopped", "recovering"} =>
          work.pc = "none" /\ \A p \in Producers : prod[p].pc = "idle"

(* At most one thread is between lock and unlock, and seal_one runs for it.    *)
LockInv ==
    /\ phase = "recovering" <=> lock = "start"
    /\ \A p \in Producers :
          /\ prod[p].pc \in {"wal", "dispatch", "backlog", "seal"} => lock = p
          /\ prod[p].pc = "seal" <=> lock = p /\ seal.pc # "none"
    /\ work.pc \in {"seal", "scan", "replay"} => lock = "worker"
    /\ lock = "worker" /\ seal.pc # "none" => work.pc \in {"seal", "replay"}
    /\ work.pc = "seal" => seal.pc # "none" /\ seal.item.seq = work.item.seq
    /\ seal.pc # "none" => lock # "none"
    /\ seal.pc = "none" => seal.item.seq = 0
    /\ work.pc \notin {"lock", "seal"} => work.item.seq = 0

(* Each mode uses its own part of the pipeline.                                *)
ModeInv ==
    /\ conf.mode = "best_effort" => wal = <<>>
    /\ conf.mode = "strict" => queue = <<>> /\ backlog = 0 /\ work.pc = "none"
    /\ \A p \in Producers :
          /\ prod[p].pc = "wal" => UsesWal
          /\ prod[p].pc \in {"dispatch", "backlog"} => conf.mode = "durable"
          /\ prod[p].pc = "send" => conf.mode = "best_effort"
          /\ prod[p].pc = "seal" => conf.mode = "strict"
          /\ prod[p].pc = "depth" => conf.mode # "strict"

ThreadInv == Asleep /\ LockInv /\ ModeInv

(* The dedup map is the ledger seen by id, so a draft that is about to be      *)
(* appended has an id the ledger does not know.                                *)
DedupAgrees ==
    phase \notin {"down", "stopped"} =>
        \A i \in EventIds :
            /\ dedup[i] = NoHash => ~IdInLedger(i)
            /\ dedup[i] # NoHash => InLedger([id |-> i, hash |-> dedup[i]])

TryFresh == seal.pc = "try" => ~IdInLedger(seal.item.ev.id)

OnceInv == DedupAgrees /\ TryFresh /\ AtMostOnce

(* A number in memory stands for its record of the WAL.                        *)
Linked ==
    /\ seal.item.seq > 0 => wal[seal.item.seq] = seal.item.ev
    /\ work.item.seq > 0 => wal[work.item.seq] = work.item.ev
    /\ \A i \in 1..Len(queue) : queue[i].seq > 0 => wal[queue[i].seq] = queue[i].ev
    /\ \A p \in Producers : prod[p].pc = "dispatch" =>
          prod[p].seq = Len(wal) /\ wal[Len(wal)] = prod[p].ev

\* The records of the WAL that have reached a terminal state.
Done == {t \in 1..Len(wal) : Settled(wal[t])}

\* Record t is settled or in the hands of the thread that will settle it.
InHand(t) == t \in Done \/ t = seal.item.seq \/ t = work.item.seq

\* Or it is in one of the first n places of the queue.
InLine(t, n) == InHand(t) \/ \E j \in 1..n : queue[j].seq = t

(* The checkpoint and the watermark in memory pass settled records only.       *)
MarksSettled == 1..ckpt \subseteq Done /\ 1..applied \subseteq Done

(* Whoever took a record out of the WAL order has only settled ones before it, *)
(* and seal_one moves the watermark for a record that has its terminal state.  *)
HandSettled ==
    /\ 1..(seal.item.seq - 1) \subseteq Done
    /\ 1..(work.item.seq - 1) \subseteq Done
    /\ seal.pc \in {"mark", "block", "done"} => 1..seal.item.seq \subseteq Done

(* A replay leaves nothing unsettled behind, and recovery goes to the end.     *)
BatchSettled ==
    /\ (phase = "recovering" \/ work.pc = "replay") =>
          \A t \in 1..(todo.from - 1) : t \in Done \/ t = seal.item.seq
    /\ phase = "recovering" => todo.to = Len(wal) \/ todo.from > Len(wal)

(* What is queued has only settled records and the line itself before it.      *)
QueueSettled ==
    \A i \in 1..Len(queue) : \A t \in 1..(queue[i].seq - 1) : InLine(t, i - 1)

(* Without a backlog every record of a running pipeline is settled, in line,   *)
(* or about to be put there by the append that holds the lock.                 *)
NoneMissing ==
    (phase \in {"up", "closing", "draining"} /\ backlog = 0) =>
        \A t \in 1..Len(wal) :
            \/ InLine(t, Len(queue))
            \/ \E p \in Producers :
                  prod[p].pc \in {"dispatch", "backlog"} /\ prod[p].seq = t

SettleInv == MarksSettled /\ HandSettled /\ BatchSettled /\ QueueSettled /\ NoneMissing

IInv == TypeInv /\ ThreadInv /\ OnceInv /\ (Lossless => Linked /\ SettleInv)

-----------------------------------------------------------------------------
(* The second invariant: the line of the durable mode, counted and numbered.   *)

(* A null item is held by nobody; the sealed one is that of whoever waits for  *)
(* it; a record on its way from the WAL to the queue is the last one, and      *)
(* holds the lock.                                                             *)
ItemInv ==
    /\ seal.pc = "none" => seal.item = NoItem
    /\ work.pc \notin {"lock", "seal"} => work.item = NoItem
    /\ work.pc = "seal" => work.item = seal.item
    /\ \A p \in Producers : prod[p].pc = "seal" => prod[p].ev = seal.item.ev
    /\ conf.mode = "durable" =>
          \A p \in Producers : prod[p].pc \in {"dispatch", "backlog", "depth"} =>
              /\ lock = p /\ prod[p].seq = Len(wal) /\ prod[p].seq > 0
              /\ wal[Len(wal)] = prod[p].ev

(* A drain runs behind a backlog, which keeps appends from the queue.          *)
DrainInv ==
    /\ phase \in {"down", "stopped", "recovering"} =>
          queue = <<>> /\ backlog = 0 /\ depth = 0 /\ fl.pc = "idle"
    /\ phase \in {"up", "closing", "draining"} /\ work.pc = "none" => conf.mode = "strict"
    /\ conf.mode # "durable" => backlog = 0
    /\ conf.mode = "durable" =>
          /\ work.pc \in {"drainDepth", "drainLock", "scan", "replay"} => backlog > 0
          /\ work.pc \in {"drainLock", "scan", "replay"} => queue = <<>>
          /\ \A p \in Producers : prod[p].pc = "depth" => backlog = 0
    /\ conf.mode = "best_effort" =>
          work.pc \notin {"drainDepth", "drainLock", "scan", "replay"}

\* The items in the queue and in the worker's hand, and the one sent but not counted.
InHands == IF work.pc \in {"lock", "seal", "sub"} THEN 1 ELSE 0
Uncounted == IF \E p \in Producers : prod[p].pc = "depth" THEN 1 ELSE 0

(* queue_depth counts the line exactly: an append counts before it unlocks, and *)
(* until then its item is behind the lock.                                      *)
DepthExact ==
    /\ Len(queue) <= QueueCap
    /\ conf.mode = "strict" => depth = 0
    /\ conf.mode = "durable" =>
          /\ depth + Uncounted = Len(queue) + InHands
          /\ Uncounted = 1 => queue # <<>> \/ work.pc = "lock"

(* No call is in progress once the pipeline is closing; the worker that saw the *)
(* sender gone has an empty queue, and goes when the backlog is empty.          *)
CloseInv ==
    /\ phase \in {"closing", "draining"} => \A p \in Producers : prod[p].pc = "idle"
    /\ work.last =>
          /\ phase = "draining" /\ queue = <<>>
          /\ work.pc \in {"drain", "drainDepth", "drainLock", "scan", "replay", "gone"}
    /\ work.pc = "gone" => work.last /\ backlog = 0

CountInv == ItemInv /\ DrainInv /\ DepthExact /\ CloseInv

\* seal_one has not moved the watermark for its record yet.
Sealing == seal.pc \in {"check", "try", "mark"}

\* The record before the first one in the queue.
Front == IF work.pc \in {"lock", "seal"} THEN work.item.seq ELSE Watermark

\* A record of the WAL that is not in the queue or counted as spilled yet.
Appending == IF \E p \in Producers : prod[p].pc \in {"dispatch", "backlog"} THEN 1 ELSE 0

(* Records are sealed one after the other, from the watermark on.              *)
NextInHand ==
    /\ Sealing => seal.item.seq = Watermark + 1
    /\ seal.pc \in {"block", "done"} => seal.item.seq = Watermark
    /\ work.pc = "lock" => work.item.seq = Watermark + 1
    /\ phase = "recovering" \/ work.pc = "replay" =>
          todo.from = Watermark + (IF Sealing THEN 2 ELSE 1)

(* The queue goes on where the hand ends, the spilled records where the queue   *)
(* ends, until a drain takes them up to the end of the WAL.  The strict mode has *)
(* sealed every record but the one in hand.                                     *)
LineInv ==
    /\ \A i \in 1..Len(queue) : queue[i].seq = Front + i
    /\ phase \in {"up", "closing", "draining"} =>
          /\ conf.mode = "durable" /\ work.pc \notin {"scan", "replay"} =>
                Len(wal) = Front + Len(queue) + Appending + backlog
          /\ conf.mode = "strict" => Len(wal) = Watermark + (IF Sealing THEN 1 ELSE 0)

OrderInv == NextInHand /\ LineInv

(* Whatever seal_one is done with is booked or parked.                         *)
SealedInv ==
    /\ seal.res = "appended" => InLedger(seal.item.ev)
    /\ Lossless /\ seal.pc \in {"mark", "block", "done"} => Settled(seal.item.ev)

\* Record t of the WAL was handed over: it is queued, spilled or sealed.
HandedOver(t) ==
    \A p \in Producers : prod[p].pc \in {"dispatch", "backlog", "depth"} => prod[p].seq # t

(* Where an acknowledged event is until it is settled: a strict append waits for *)
(* the seal, a durable one for the WAL, a best-effort one for the queue.        *)
AckedSealed == conf.mode = "strict" => \A e \in acked : Settled(e)
AckedInWal ==
    conf.mode = "durable" =>
        \A e \in acked : Settled(e) \/ \E t \in 1..Len(wal) : wal[t] = e /\ HandedOver(t)
AckedInProcess ==
    conf.mode = "best_effort" =>
        /\ \A e \in acked : Settled(e) \/ InProcess(e)
        /\ \A p \in Producers : prod[p].pc = "depth" =>
              Settled(prod[p].ev) \/ InProcess(prod[p].ev)
AckInv == AckedSealed /\ AckedInWal /\ AckedInProcess

(* A flush that read an empty queue still has the backlog to wait for, or has   *)
(* nothing to wait for any more.                                                *)
FlushInv ==
    UsesWal =>
        /\ fl.must \subseteq acked
        /\ fl.pc = "backlog" /\ fl.queued = 0 =>
              backlog > 0 \/ \A e \in fl.must : Settled(e)
        /\ fl.pc = "ok" => \A e \in fl.must : Settled(e)

PromiseInv == SealedInv /\ (Lossless => AckInv /\ FlushInv /\ ShutdownComplete)

\* Calls that have neither reached the WAL nor returned.
Open == {p \in Producers : prod[p].pc \in {"invalid", "lock", "wal"}}
Calling == Cardinality(Open)

\* The events that were taken in, and those that have an outcome, in the statistics.
Taken == cnt.received + cnt.replayed
Outcomes == cnt.appended + cnt.duplicates + cnt.busy + cnt.deadLettered

\* The sealed record has its outcome one step before the watermark moves.
Marking == IF seal.pc = "mark" THEN 1 ELSE 0

(* An event is in an open call, above the watermark in the WAL, or has its       *)
(* outcome.  A strict append that the WAL refused is in none of them.           *)
Found == Outcomes + Calling + Len(wal)
Owed  == Taken + Watermark + Marking
StatsInv ==
    phase \notin {"down", "stopped"} =>
        /\ conf.mode = "strict" => Found <= Owed
        /\ conf.mode # "strict" => Found = Owed

JInv == IInv /\ CountInv /\ (UsesWal /\ Lossless => OrderInv) /\ PromiseInv

=============================================================================
