-------------------------- MODULE LedgerPipeline --------------------------
(***************************************************************************)
(* The ingestion pipeline of crates/agenomic-ledger-local (pipeline.rs):   *)
(* producers call `append`, one sealer worker moves accepted events from   *)
(* the bounded queue, or from the WAL backlog once the queue overflowed,   *)
(* into the signed ledger, and a start after a crash replays the WAL.      *)
(*                                                                         *)
(* A step is what one thread does between two points where another thread  *)
(* or a crash can be told apart: each durable write, each atomic counter   *)
(* that is read without the core mutex, and each lock or channel operation *)
(* is a step of its own.  The WAL is taken at its interface (a sequence    *)
(* indexed by wal_seq plus the checkpoint); the module Wal models its      *)
(* segments.                                                               *)
(***************************************************************************)
EXTENDS Naturals, Sequences, FiniteSets

CONSTANTS
    Producers,          \* threads that call append
    EventIds, Hashes,   \* an event is its id and its payload hash
    NoHash, NoEvent,    \* null values
    Configs,            \* the configurations a pipeline may be started with
    QueueCap,           \* queue_max_memory_events
    RetryMax,           \* retry_max_attempts
    BlockMax,           \* block_max_entries, 0 for None
    BlockAge,           \* whether block_max_age_ms is set
    Wrap,               \* the modulus of the u64 counters
    MaxSubmit,          \* bound: calls of append
    MaxFlush,           \* bound: calls of flush per process
    MaxCrash            \* bound: crashes

FaultKinds == {"wal_append", "wal_scan", "ledger_append", "checkpoint_write",
               "dead_letter_write", "block_seal"}

\* The mode and dead_letter_enabled of the LedgerConfig, fixed per pipeline, with
\* the I/O operations that may fail in its environment.
ASSUME ConfigsAssumption ==
    Configs \subseteq [mode : {"best_effort", "durable", "strict"},
                       deadLetter : BOOLEAN, faults : SUBSET FaultKinds]
ASSUME LimitsAssumption ==
    /\ QueueCap \in Nat \ {0} /\ RetryMax \in Nat /\ BlockMax \in Nat
    /\ BlockAge \in BOOLEAN
ASSUME BoundsAssumption ==
    {MaxSubmit, MaxFlush, MaxCrash} \subseteq Nat /\ Wrap \in Nat \ {0}
\* No channel holds as many items as a u64 counts.
ASSUME WrapAssumption == QueueCap + 1 < Wrap
\* A process has a finite number of threads.
ASSUME ThreadsAssumption == IsFiniteSet(Producers)
ASSUME NullAssumption ==
    /\ NoHash \notin Hashes
    /\ NoEvent \notin [id : EventIds, hash : Hashes]
    /\ Producers \cap {"none", "worker", "start"} = {}

VARIABLES
    \* On disk.
    wal,        \* accepted drafts, wal[s] has wal_seq s
    ckpt,       \* checkpoint.json: applied_wal_seq
    ledger,     \* the appended entries
    dead,       \* the dead-letter records
    sealedTo,   \* entries below this sequence number are in a block
    \* The pipeline in memory.
    phase, lock, applied, dedup, timer, seal, todo, queue, depth, backlog, cnt,
    \* The threads.
    prod, work, fl,
    \* What callers were told, the bounds, the configuration.
    acked, submits, crashes, conf

disk    == <<wal, ckpt, ledger, dead, sealedTo>>
core    == <<applied, dedup, timer, seal, todo>>
chan    == <<queue, depth, backlog>>
threads == <<prod, work, fl>>
told    == <<acked, submits, crashes, conf>>
vars == <<disk, phase, lock, core, chan, cnt, threads, told>>

-----------------------------------------------------------------------------
(* Types and null values *)

Events  == [id : EventIds, hash : Hashes]
Items   == [seq : Nat, ev : Events \cup {NoEvent}]
Reasons == {"invalid", "conflict", "exhausted"}
CounterNames == {"received", "appended", "duplicates", "conflicts", "invalid", "busy",
                 "deadLettered", "replayed"}

NoItem == [seq |-> 0, ev |-> NoEvent]
NoSeal == [pc |-> "none", item |-> NoItem, try |-> 0, res |-> "none"]
NoTodo == [from |-> 1, to |-> 0]
NoWork == [pc |-> "none", item |-> NoItem, last |-> FALSE]
NoFlush == [pc |-> "idle", must |-> {}, queued |-> 0, calls |-> 0]
NoCall == [pc |-> "idle", ev |-> NoEvent, seq |-> 0]
NoCounts == [c \in CounterNames |-> 0]
NoDedup == [i \in EventIds |-> NoHash]

CallPcs == {"idle", "invalid", "lock", "wal", "dispatch", "send", "depth", "backlog",
            "seal"}
Calls == [pc : CallPcs, ev : Events \cup {NoEvent}, seq : Nat]

SealPcs == {"none", "check", "try", "mark", "block", "done"}
Results == {"none", "appended", "duplicate", "terminal", "error"}
Seals == [pc : SealPcs, item : Items, try : Nat, res : Results]

WorkPcs == {"none", "idle", "lock", "seal", "sub", "drain", "drainDepth", "drainLock",
            "scan", "replay", "age", "gone"}
Works == [pc : WorkPcs, item : Items, last : BOOLEAN]

Flushes == [pc : {"idle", "depth", "backlog", "ok", "timeout"}, must : SUBSET Events,
            queued : Nat, calls : Nat]

CallGoes(p, pc) ==
    prod' = [prod EXCEPT ![p] = [pc |-> pc, ev |-> prod[p].ev, seq |-> prod[p].seq]]
Returns(p) == prod' = [prod EXCEPT ![p] = NoCall]

\* The counters named in names go up by one.
Count(names) ==
    cnt' = [c \in CounterNames |-> IF c \in names THEN cnt[c] + 1 ELSE cnt[c]]

UsesWal == conf.mode # "best_effort"

MaxOf(a, b) == IF a > b THEN a ELSE b

InLedger(e) == \E i \in 1..Len(ledger) : ledger[i] = e
IdInLedger(i) == \E k \in 1..Len(ledger) : ledger[k].id = i
Parked(e)   == \E r \in Reasons \ {"invalid"} : [ev |-> e, reason |-> r] \in dead

\* An accepted event has reached one of its two terminal states.
Settled(e) == InLedger(e) \/ Parked(e)

\* The HashMap that start builds from ledger.read_all().
DedupOf(entries) ==
    [i \in EventIds |->
        IF \E k \in 1..Len(entries) : entries[k].id = i
        THEN entries[CHOOSE k \in 1..Len(entries) : entries[k].id = i].hash
        ELSE NoHash]

\* Mutant: the filter skips the first pending record.
PendingAboveLate(mark) == [from |-> mark + 2, to |-> Len(wal)]

\* wal.pending() above the in-memory watermark; numbers are contiguous.
PendingAbove(mark) == [from |-> mark + 1, to |-> Len(wal)]

\* The records below it are settled as far as this process can tell.
Watermark == MaxOf(applied, ckpt)

-----------------------------------------------------------------------------
Init ==
    /\ wal = <<>> /\ ckpt = 0 /\ ledger = <<>> /\ dead = {} /\ sealedTo = 0
    /\ phase = "stopped" /\ lock = "none" /\ applied = 0 /\ dedup = NoDedup
    /\ timer = FALSE /\ seal = NoSeal /\ todo = NoTodo
    /\ queue = <<>> /\ depth = 0 /\ backlog = 0 /\ cnt = NoCounts
    /\ prod = [p \in Producers |-> NoCall]
    /\ work = NoWork /\ fl = NoFlush
    /\ acked = {} /\ submits = 0 /\ crashes = 0 /\ conf \in Configs

-----------------------------------------------------------------------------
(* append: validation, idempotency check and mode dispatch *)

Submit(p, e, valid) ==
    /\ phase = "up" /\ prod[p].pc = "idle" /\ submits < MaxSubmit
    /\ submits' = submits + 1
    /\ Count({"received"} \cup IF valid THEN {} ELSE {"invalid"})
    /\ prod' = [prod EXCEPT ![p] =
                  [pc |-> IF valid THEN "lock" ELSE "invalid", ev |-> e, seq |-> 0]]
    /\ UNCHANGED <<disk, phase, lock, core, chan, work, fl, acked, crashes, conf>>

\* DeadLetterStore::record behind `if let Some(dl)`: returns Ok or Err through ok.
RecordDeadLetter(e, reason, ok) ==
    /\ ok \/ (conf.deadLetter /\ "dead_letter_write" \in conf.faults)
    /\ dead' = IF ok /\ conf.deadLetter
               THEN dead \cup {[ev |-> e, reason |-> reason]} ELSE dead

DeadLettered(ok) == IF ok /\ conf.deadLetter THEN {"deadLettered"} ELSE {}

RefuseInvalid(p) ==
    /\ prod[p].pc = "invalid" /\ lock = "none"
    /\ \E ok \in BOOLEAN :
          /\ RecordDeadLetter(prod[p].ev, "invalid", ok)
          /\ Count(DeadLettered(ok))
    /\ Returns(p)
    /\ UNCHANGED <<wal, ckpt, ledger, sealedTo, phase, lock, core, chan, work, fl,
                   told>>

\* The lock is taken, the id is known with the same hash: idempotent success.
AnswerDuplicate(p) ==
    /\ prod[p].pc = "lock" /\ lock = "none"
    /\ dedup[prod[p].ev.id] = prod[p].ev.hash
    /\ Count({"duplicates"})
    /\ Returns(p)
    /\ UNCHANGED <<disk, phase, lock, core, chan, work, fl, told>>

\* The id is known with another hash: dead-lettered and refused.
RefuseConflict(p) ==
    /\ prod[p].pc = "lock" /\ lock = "none"
    /\ dedup[prod[p].ev.id] \notin {NoHash, prod[p].ev.hash}
    /\ \E ok \in BOOLEAN :
          /\ RecordDeadLetter(prod[p].ev, "conflict", ok)
          /\ Count({"conflicts"} \cup DeadLettered(ok))
    /\ Returns(p)
    /\ UNCHANGED <<wal, ckpt, ledger, sealedTo, phase, lock, core, chan, work, fl,
                   told>>

\* A fresh id: best effort drops the lock, the other modes keep it.
PassDedup(p) ==
    /\ prod[p].pc = "lock" /\ lock = "none"
    /\ dedup[prod[p].ev.id] = NoHash
    /\ lock' = IF UsesWal THEN p ELSE "none"
    /\ CallGoes(p, IF UsesWal THEN "wal" ELSE "send")
    /\ UNCHANGED <<disk, phase, core, chan, cnt, work, fl, told>>

\* seal_one is called with record s, which holds e.
StartSeal(s, e) ==
    [pc |-> "check", item |-> [seq |-> s, ev |-> e], try |-> 0, res |-> "none"]

WalAppend(p) ==
    /\ prod[p].pc = "wal"
    /\ wal' = Append(wal, prod[p].ev)
    /\ prod' = [prod EXCEPT ![p] =
                  [pc |-> IF conf.mode = "strict" THEN "seal" ELSE "dispatch",
                   ev |-> prod[p].ev, seq |-> Len(wal) + 1]]
    /\ seal' = IF conf.mode = "strict" THEN StartSeal(Len(wal) + 1, prod[p].ev)
               ELSE seal
    /\ UNCHANGED <<ckpt, ledger, dead, sealedTo, phase, lock, applied, dedup, timer,
                   todo, chan, cnt, work, fl, told>>

\* Disk budget or I/O failure; only the durable mode counts it as busy.
WalRefuse(p) ==
    /\ prod[p].pc = "wal" /\ "wal_append" \in conf.faults
    /\ Count(IF conf.mode = "durable" THEN {"busy"} ELSE {})
    /\ Returns(p)
    /\ lock' = "none"
    /\ UNCHANGED <<disk, phase, core, chan, work, fl, told>>

\* Mutant: only a full queue spills, an existing backlog is ignored.
SpillsWhenFull == Len(queue) = QueueCap

\* The spill decision of the durable mode, under the core lock.
Spills == backlog > 0 \/ Len(queue) = QueueCap

Spill(p) ==
    /\ prod[p].pc = "dispatch" /\ Spills
    /\ CallGoes(p, "backlog")
    /\ UNCHANGED <<disk, phase, lock, core, chan, cnt, work, fl, told>>

Enqueue(p) ==
    /\ prod[p].pc = "dispatch" /\ ~Spills
    /\ queue' = Append(queue, [seq |-> prod[p].seq, ev |-> prod[p].ev])
    /\ CallGoes(p, "depth")
    /\ UNCHANGED <<disk, phase, lock, core, depth, backlog, cnt, work, fl, told>>

\* The best-effort enqueue holds no lock; a full queue is an explicit refusal.
SendBestEffort(p) ==
    /\ prod[p].pc = "send" /\ Len(queue) < QueueCap
    /\ queue' = Append(queue, [seq |-> 0, ev |-> prod[p].ev])
    /\ CallGoes(p, "depth")
    /\ UNCHANGED <<disk, phase, lock, core, depth, backlog, cnt, work, fl, told>>

RefuseFull(p) ==
    /\ prod[p].pc = "send" /\ Len(queue) = QueueCap
    /\ Count({"busy"})
    /\ Returns(p)
    /\ UNCHANGED <<disk, phase, lock, core, chan, work, fl, told>>

\* queue_depth.fetch_add after the send, and the caller's answer.
CountQueued(p) ==
    /\ prod[p].pc = "depth"
    /\ depth' = (depth + 1) % Wrap
    /\ acked' = acked \cup {prod[p].ev}
    /\ Returns(p)
    /\ lock' = IF lock = p THEN "none" ELSE lock
    /\ UNCHANGED <<disk, phase, core, queue, backlog, cnt, work, fl, submits,
                   crashes, conf>>

\* wal_backlog.fetch_add for a spilled record, and the caller's answer.
CountSpilled(p) ==
    /\ prod[p].pc = "backlog"
    /\ backlog' = backlog + 1
    /\ acked' = acked \cup {prod[p].ev}
    /\ Returns(p)
    /\ lock' = "none"
    /\ UNCHANGED <<disk, phase, core, queue, depth, cnt, work, fl, submits,
                   crashes, conf>>

\* The strict append returns once seal_one has.
StrictReply(p) ==
    /\ prod[p].pc = "seal" /\ seal.pc = "done"
    /\ acked' = IF seal.res = "appended" THEN acked \cup {prod[p].ev} ELSE acked
    /\ Returns(p)
    /\ lock' = "none" /\ seal' = NoSeal
    /\ UNCHANGED <<disk, phase, applied, dedup, timer, todo, chan, cnt, work, fl,
                   submits, crashes, conf>>

-----------------------------------------------------------------------------
(* seal_one: run by the worker, by recovery and by a strict append, always    *)
(* with the core lock held (recovery owns the core outright)                  *)

SealGoes(pc, res) ==
    seal' = [pc |-> pc, item |-> seal.item, try |-> seal.try, res |-> res]
SealTries(n) == seal' = [pc |-> "try", item |-> seal.item, try |-> n, res |-> "none"]
SealEnds(res) == SealGoes("done", res)

SealUnchanged == UNCHANGED <<wal, phase, lock, todo, chan, threads, told>>

\* Mutant: a replay of an appended event is not counted.
SealCheckDuplicateUncounted ==
    /\ seal.pc = "check"
    /\ dedup[seal.item.ev.id] = seal.item.ev.hash
    /\ SealGoes("mark", "duplicate")
    /\ UNCHANGED <<ckpt, ledger, dead, sealedTo, applied, dedup, timer, cnt>>
    /\ SealUnchanged

\* The recheck at seal time: racing producers and recovery replays.
SealCheckDuplicate ==
    /\ seal.pc = "check"
    /\ dedup[seal.item.ev.id] = seal.item.ev.hash
    /\ Count({"duplicates"})
    /\ SealGoes("mark", "duplicate")
    /\ UNCHANGED <<ckpt, ledger, dead, sealedTo, applied, dedup, timer>>
    /\ SealUnchanged

SealCheckConflict ==
    /\ seal.pc = "check"
    /\ dedup[seal.item.ev.id] \notin {NoHash, seal.item.ev.hash}
    /\ \E ok \in BOOLEAN :
          /\ RecordDeadLetter(seal.item.ev, "conflict", ok)
          /\ Count({"conflicts"} \cup DeadLettered(ok))
          /\ IF ok THEN SealGoes("mark", "terminal") ELSE SealEnds("error")
    /\ UNCHANGED <<ckpt, ledger, sealedTo, applied, dedup, timer>>
    /\ SealUnchanged

\* Mutant: no recheck, the hot path has checked already.
SealCheckFreshUnchecked ==
    /\ seal.pc = "check"
    /\ SealTries(1)
    /\ UNCHANGED <<ckpt, ledger, dead, sealedTo, applied, dedup, timer, cnt>>
    /\ SealUnchanged

\* Mutant: the checkpoint is written before the append.
SealCheckFreshMarksFirst ==
    /\ seal.pc = "check"
    /\ dedup[seal.item.ev.id] = NoHash
    /\ SealTries(1)
    /\ ckpt' = MaxOf(ckpt, seal.item.seq)
    /\ UNCHANGED <<ledger, dead, sealedTo, applied, dedup, timer, cnt>>
    /\ SealUnchanged

SealCheckFresh ==
    /\ seal.pc = "check"
    /\ dedup[seal.item.ev.id] = NoHash
    /\ SealTries(1)
    /\ UNCHANGED <<ckpt, ledger, dead, sealedTo, applied, dedup, timer, cnt>>
    /\ SealUnchanged

SealAppend ==
    /\ seal.pc = "try"
    /\ ledger' = Append(ledger, seal.item.ev)
    /\ dedup' = [dedup EXCEPT ![seal.item.ev.id] = seal.item.ev.hash]
    /\ Count({"appended"})
    /\ SealGoes("mark", "appended")
    /\ UNCHANGED <<ckpt, dead, sealedTo, applied, timer>>
    /\ SealUnchanged

SealRetry ==
    /\ seal.pc = "try" /\ "ledger_append" \in conf.faults /\ seal.try <= RetryMax
    /\ SealTries(seal.try + 1)
    /\ UNCHANGED <<ckpt, ledger, dead, sealedTo, applied, dedup, timer, cnt>>
    /\ SealUnchanged

SealExhaust ==
    /\ seal.pc = "try" /\ "ledger_append" \in conf.faults /\ seal.try > RetryMax
    /\ \E ok \in BOOLEAN :
          /\ RecordDeadLetter(seal.item.ev, "exhausted", ok)
          /\ Count(DeadLettered(ok))
          /\ IF ok THEN SealGoes("mark", "terminal") ELSE SealEnds("error")
    /\ UNCHANGED <<ckpt, ledger, sealedTo, applied, dedup, timer>>
    /\ SealUnchanged

\* advance_watermark: the memory watermark first, then checkpoint.json; an
\* error of the second leaves seal_one through `?` before the block trigger.
AdvanceWatermark ==
    LET s == seal.item.seq IN
    /\ seal.pc = "mark"
    /\ applied' = MaxOf(applied, s)
    /\ \/ /\ ckpt' = IF s > applied THEN s ELSE ckpt
          /\ IF seal.res = "appended"
             THEN SealGoes("block", seal.res) ELSE SealEnds(seal.res)
       \/ /\ "checkpoint_write" \in conf.faults /\ s > applied
          /\ ckpt' = ckpt
          /\ SealEnds("error")
    /\ UNCHANGED <<ledger, dead, sealedTo, dedup, timer, cnt>>
    /\ SealUnchanged

\* Mutant: the end of the range is taken to be inclusive.
SealRangeInclusive == sealedTo' = Len(ledger) - 1 /\ timer' = FALSE

\* seal_unsealed_range: the whole unsealed tail becomes one block.
SealRange == sealedTo' = Len(ledger) /\ timer' = FALSE

BlockDue == BlockMax > 0 /\ Len(ledger) >= sealedTo + BlockMax

\* The age timer is armed, then maybe_seal_by_count.
SealByCount ==
    /\ seal.pc = "block"
    /\ \/ /\ IF BlockDue THEN SealRange ELSE sealedTo' = sealedTo /\ timer' = TRUE
          /\ SealEnds(seal.res)
       \/ /\ BlockDue /\ "block_seal" \in conf.faults
          /\ sealedTo' = sealedTo /\ timer' = TRUE
          /\ SealEnds("error")
    /\ UNCHANGED <<ckpt, ledger, dead, applied, dedup, cnt>>
    /\ SealUnchanged

-----------------------------------------------------------------------------
(* The worker: spawn_worker, process_item, drain_backlog, maybe_seal_by_age *)

WorkerGoes(pc) == work' = [pc |-> pc, item |-> work.item, last |-> work.last]

\* recv_timeout returns the oldest queued item.
WorkerRecv ==
    /\ work.pc = "idle" /\ queue # <<>>
    /\ work' = [pc |-> "lock", item |-> Head(queue), last |-> FALSE]
    /\ queue' = Tail(queue)
    /\ UNCHANGED <<disk, phase, lock, core, depth, backlog, cnt, prod, fl, told>>

WorkerLock ==
    /\ work.pc = "lock" /\ lock = "none"
    /\ lock' = "worker"
    /\ WorkerGoes("seal")
    /\ seal' = StartSeal(work.item.seq, work.item.ev)
    /\ UNCHANGED <<disk, phase, applied, dedup, timer, todo, chan, cnt, prod, fl,
                   told>>

\* The guard is dropped; whatever seal_one returned is discarded.
WorkerUnlock ==
    /\ work.pc = "seal" /\ seal.pc = "done"
    /\ lock' = "none" /\ seal' = NoSeal
    /\ work' = [pc |-> "sub", item |-> NoItem, last |-> FALSE]
    /\ UNCHANGED <<disk, phase, applied, dedup, timer, todo, chan, cnt, prod, fl,
                   told>>

\* queue_depth.fetch_sub, after the unlock.
WorkerUncount ==
    /\ work.pc = "sub"
    /\ depth' = (depth + Wrap - 1) % Wrap
    /\ WorkerGoes("idle")
    /\ UNCHANGED <<disk, phase, lock, core, queue, backlog, cnt, prod, fl, told>>

\* Timeout on an empty queue, or, once the sender is gone, Disconnected.
WorkerIdle ==
    /\ work.pc = "idle" /\ queue = <<>>
    /\ work' = [pc |-> "drain", item |-> NoItem, last |-> (phase = "draining")]
    /\ UNCHANGED <<disk, phase, lock, core, chan, cnt, prod, fl, told>>

AfterDrain == IF work.last THEN "gone" ELSE IF BlockAge THEN "age" ELSE "idle"

\* drain_backlog reads the two counters one after the other, without the lock.
DrainReadBacklog ==
    /\ work.pc = "drain"
    /\ WorkerGoes(IF backlog = 0 THEN AfterDrain ELSE "drainDepth")
    /\ UNCHANGED <<disk, phase, lock, core, chan, cnt, prod, fl, told>>

\* Mutant: the comparison lets nothing through.
DrainReadDepthAlways ==
    /\ work.pc = "drainDepth"
    /\ WorkerGoes(AfterDrain)
    /\ UNCHANGED <<disk, phase, lock, core, chan, cnt, prod, fl, told>>

DrainReadDepth ==
    /\ work.pc = "drainDepth"
    /\ WorkerGoes(IF depth > 0 THEN AfterDrain ELSE "drainLock")
    /\ UNCHANGED <<disk, phase, lock, core, chan, cnt, prod, fl, told>>

DrainLock ==
    /\ work.pc = "drainLock" /\ lock = "none"
    /\ lock' = "worker"
    /\ WorkerGoes("scan")
    /\ UNCHANGED <<disk, phase, core, chan, cnt, prod, fl, told>>

\* Mutant: the filter keeps the record at the watermark, so no scan is empty.
DrainScanInclusive ==
    /\ work.pc = "scan" /\ Watermark <= Len(wal)
    /\ todo' = PendingAbove(Watermark)
    /\ WorkerGoes("replay")
    /\ UNCHANGED <<disk, phase, lock, applied, dedup, timer, seal, chan, cnt, prod, fl,
                   told>>

\* One evaluation of the `while let Some(Ok(pending))`.
DrainScan ==
    /\ work.pc = "scan" /\ Watermark < Len(wal)
    /\ todo' = PendingAbove(Watermark)
    /\ WorkerGoes("replay")
    /\ UNCHANGED <<disk, phase, lock, applied, dedup, timer, seal, chan, cnt, prod,
                   fl, told>>

\* Mutant: the reset does not wait for an empty scan.
DrainResetUnguarded ==
    /\ work.pc = "scan"
    /\ backlog' = 0
    /\ lock' = "none"
    /\ WorkerGoes(AfterDrain)
    /\ UNCHANGED <<disk, phase, core, queue, depth, cnt, prod, fl, told>>

\* The scan is clean and empty, or it failed: both leave the loop to the reset.
DrainReset ==
    /\ work.pc = "scan"
    /\ Watermark >= Len(wal) \/ "wal_scan" \in conf.faults
    /\ backlog' = 0
    /\ lock' = "none"
    /\ WorkerGoes(AfterDrain)
    /\ UNCHANGED <<disk, phase, core, queue, depth, cnt, prod, fl, told>>

\* The for loop over todo, shared by the drain and by recovery.
TakeRecord ==
    /\ todo.from <= todo.to
    /\ seal' = StartSeal(todo.from, wal[todo.from])
    /\ todo' = [from |-> todo.from + 1, to |-> todo.to]

NoMoreRecords == todo.from > todo.to /\ seal' = NoSeal /\ todo' = NoTodo

DrainNext ==
    /\ work.pc = "replay" /\ seal.pc \in {"none", "done"}
    /\ TakeRecord
    /\ UNCHANGED <<disk, phase, lock, applied, dedup, timer, chan, cnt, threads, told>>

\* The batch is sealed; the WAL is scanned again.
DrainBatchDone ==
    /\ work.pc = "replay" /\ seal.pc \in {"none", "done"}
    /\ NoMoreRecords
    /\ WorkerGoes("scan")
    /\ UNCHANGED <<disk, phase, lock, applied, dedup, timer, chan, cnt, prod, fl,
                   told>>

\* maybe_seal_by_age; whether the oldest unsealed entry is due is up to the clock.
AgeNotDue ==
    /\ work.pc = "age" /\ lock = "none"
    /\ WorkerGoes("idle")
    /\ UNCHANGED <<disk, phase, lock, core, chan, cnt, prod, fl, told>>

AgeDue ==
    /\ work.pc = "age" /\ lock = "none"
    /\ timer
    /\ SealRange
    /\ WorkerGoes("idle")
    /\ UNCHANGED <<wal, ckpt, ledger, dead, phase, lock, applied, dedup, seal, todo,
                   chan, cnt, prod, fl, told>>

-----------------------------------------------------------------------------
(* start, crash, flush, seal, shutdown *)

ResetMemory ==
    /\ lock' = "none" /\ applied' = 0 /\ dedup' = NoDedup /\ timer' = FALSE
    /\ seal' = NoSeal /\ todo' = NoTodo /\ queue' = <<>> /\ depth' = 0
    /\ backlog' = 0 /\ cnt' = NoCounts /\ prod' = [p \in Producers |-> NoCall]
    /\ work' = NoWork /\ fl' = NoFlush

\* Mutant: the watermark starts at the last record, pending ones included.
StartAtLast ==
    /\ phase \in {"down", "stopped"}
    /\ phase' = "recovering" /\ lock' = "start"
    /\ dedup' = DedupOf(ledger)
    /\ applied' = Len(wal)
    /\ todo' = PendingAbove(ckpt)
    /\ cnt' = [c \in CounterNames |-> IF c = "replayed" THEN Len(wal) - ckpt ELSE 0]
    /\ UNCHANGED <<disk, timer, seal, chan, threads, told>>

\* WalWriter::open reports the records above the checkpoint.  When there is none,
\* its last_wal_seq is that of the last segment, or 0 if an earlier open removed it.
Start ==
    /\ phase \in {"down", "stopped"}
    /\ phase' = "recovering" /\ lock' = "start"
    /\ dedup' = DedupOf(ledger)
    /\ IF ckpt < Len(wal) THEN applied' = ckpt ELSE applied' \in {0, Len(wal)}
    /\ todo' = PendingAbove(ckpt)
    /\ cnt' = [c \in CounterNames |-> IF c = "replayed" THEN Len(wal) - ckpt ELSE 0]
    /\ UNCHANGED <<disk, timer, seal, chan, threads, told>>

\* A failed seal_one leaves the loop through `?`.
Replaying ==
    phase = "recovering" /\ (seal.pc = "none" \/ (seal.pc = "done" /\ seal.res # "error"))

RecoverNext ==
    /\ Replaying
    /\ TakeRecord
    /\ UNCHANGED <<disk, phase, lock, applied, dedup, timer, chan, cnt, threads, told>>

\* The worker is spawned, except in strict mode, and start returns.
RecoverDone ==
    /\ Replaying
    /\ NoMoreRecords
    /\ phase' = "up" /\ lock' = "none"
    /\ work' = [pc |-> IF conf.mode = "strict" THEN "none" ELSE "idle",
                item |-> NoItem, last |-> FALSE]
    /\ UNCHANGED <<disk, applied, dedup, timer, chan, cnt, prod, fl, told>>

\* An error of seal_one fails the start; everything pending stays pending.
StartFails ==
    /\ phase = "recovering" /\ seal.pc = "done" /\ seal.res = "error"
    /\ phase' = "down"
    /\ ResetMemory
    /\ UNCHANGED <<disk, told>>

\* The memory is lost; best effort promises nothing for what it only queued.
Crash ==
    /\ phase \notin {"down", "stopped"} /\ crashes < MaxCrash
    /\ crashes' = crashes + 1
    /\ phase' = "down"
    /\ ResetMemory
    /\ acked' = IF UsesWal THEN acked ELSE {e \in acked : Settled(e)}
    /\ UNCHANGED <<disk, submits, conf>>

FlushBegin ==
    /\ phase = "up" /\ fl.pc \in {"idle", "ok", "timeout"} /\ fl.calls < MaxFlush
    /\ fl' = [pc |-> "depth", must |-> acked, queued |-> 0, calls |-> fl.calls + 1]
    /\ UNCHANGED <<disk, phase, lock, core, chan, cnt, prod, work, told>>

FlushGoes(pc, n) == fl' = [pc |-> pc, must |-> fl.must, queued |-> n, calls |-> fl.calls]

FlushReadDepth ==
    /\ fl.pc = "depth"
    /\ FlushGoes("backlog", depth)
    /\ UNCHANGED <<disk, phase, lock, core, chan, cnt, prod, work, told>>

\* Mutant: the backlog is not looked at.
FlushReadBacklogIgnored ==
    /\ fl.pc = "backlog"
    /\ IF fl.queued = 0
       THEN FlushGoes("ok", 0)
       ELSE \E pc \in {"depth", "timeout"} : FlushGoes(pc, 0)
    /\ UNCHANGED <<disk, phase, lock, core, chan, cnt, prod, work, told>>

\* Both counters read zero, or one of them did not: poll again or time out.
FlushReadBacklog ==
    /\ fl.pc = "backlog"
    /\ IF fl.queued = 0 /\ backlog = 0
       THEN FlushGoes("ok", 0)
       ELSE \E pc \in {"depth", "timeout"} : FlushGoes(pc, 0)
    /\ UNCHANGED <<disk, phase, lock, core, chan, cnt, prod, work, told>>

\* LedgerPipeline::seal, the explicit trigger.
ExplicitSeal ==
    /\ phase = "up" /\ lock = "none"
    /\ SealRange
    /\ UNCHANGED <<wal, ckpt, ledger, dead, phase, lock, applied, dedup, seal, todo,
                   chan, cnt, threads, told>>

\* shutdown consumes the pipeline, so no call is in progress; it flushes first.
ShutdownBegin ==
    /\ phase = "up" /\ \A p \in Producers : prod[p].pc = "idle"
    /\ fl.pc \in {"idle", "ok", "timeout"}
    /\ phase' = "closing"
    /\ fl' = [pc |-> "depth", must |-> acked, queued |-> 0, calls |-> fl.calls]
    /\ UNCHANGED <<disk, lock, core, chan, cnt, prod, work, told>>

\* The sender is dropped whether or not the flush timed out.
DropSender ==
    /\ phase = "closing" /\ fl.pc \in {"ok", "timeout"}
    /\ phase' = "draining"
    /\ UNCHANGED <<disk, lock, core, chan, cnt, threads, told>>

\* Drop joins the worker without a flush.
DropPipeline ==
    /\ phase = "up" /\ \A p \in Producers : prod[p].pc = "idle"
    /\ fl.pc \in {"idle", "ok", "timeout"}
    /\ phase' = "draining"
    /\ fl' = NoFlush
    /\ UNCHANGED <<disk, lock, core, chan, cnt, prod, work, told>>

\* Mutant: the worker is not joined.
ShutdownWithoutJoin ==
    /\ phase = "draining"
    /\ sealedTo' = IF fl.pc = "ok" THEN Len(ledger) ELSE sealedTo
    /\ phase' = "stopped"
    /\ ResetMemory
    /\ UNCHANGED <<wal, ckpt, ledger, dead, told>>

\* The worker is joined; the tail is sealed only if the flush succeeded.
ShutdownJoin ==
    /\ phase = "draining" /\ work.pc \in {"none", "gone"}
    /\ sealedTo' = IF fl.pc = "ok" THEN Len(ledger) ELSE sealedTo
    /\ phase' = "stopped"
    /\ ResetMemory
    /\ UNCHANGED <<wal, ckpt, ledger, dead, told>>

-----------------------------------------------------------------------------
Produce(p) ==
    \/ RefuseInvalid(p) \/ AnswerDuplicate(p) \/ RefuseConflict(p) \/ PassDedup(p)
    \/ WalAppend(p) \/ WalRefuse(p) \/ Spill(p) \/ Enqueue(p) \/ SendBestEffort(p)
    \/ RefuseFull(p) \/ CountQueued(p) \/ CountSpilled(p) \/ StrictReply(p)

SealOne ==
    \/ SealCheckDuplicate \/ SealCheckConflict \/ SealCheckFresh \/ SealAppend
    \/ SealRetry \/ SealExhaust \/ AdvanceWatermark \/ SealByCount

Worker ==
    \/ WorkerRecv \/ WorkerLock \/ WorkerUnlock \/ WorkerUncount \/ WorkerIdle
    \/ DrainReadBacklog \/ DrainReadDepth \/ DrainLock \/ DrainScan \/ DrainReset
    \/ DrainNext \/ DrainBatchDone \/ AgeNotDue \/ AgeDue

Recover == RecoverNext \/ RecoverDone \/ StartFails

Flush == FlushReadDepth \/ FlushReadBacklog

Shutdown == DropSender \/ ShutdownJoin

Next ==
    \/ \E p \in Producers, e \in Events, valid \in BOOLEAN : Submit(p, e, valid)
    \/ \E p \in Producers : Produce(p)
    \/ SealOne
    \/ Worker
    \/ Start \/ Recover
    \/ Crash
    \/ FlushBegin \/ Flush
    \/ ExplicitSeal
    \/ ShutdownBegin \/ DropPipeline \/ Shutdown

Spec == Init /\ [][Next]_vars

(* Threads that are inside a call go on; a process that is down is started     *)
(* again.  The clock of the age trigger runs: an armed timer is due in the end. *)
Fairness ==
    /\ \A p \in Producers : WF_vars(Produce(p))
    /\ WF_vars(SealOne) /\ WF_vars(Worker) /\ WF_vars(Recover) /\ WF_vars(Start)
    /\ WF_vars(Flush) /\ WF_vars(Shutdown)
    /\ SF_vars(AgeDue)

FairSpec == Spec /\ Fairness

-----------------------------------------------------------------------------
(* Properties *)

DiskType ==
    /\ wal \in Seq(Events) /\ ckpt \in Nat /\ ledger \in Seq(Events)
    /\ dead \subseteq [ev : Events, reason : Reasons] /\ sealedTo \in Nat

CoreType ==
    /\ phase \in {"down", "recovering", "up", "closing", "draining", "stopped"}
    /\ lock \in Producers \cup {"none", "worker", "start"}
    /\ applied \in Nat /\ dedup \in [EventIds -> Hashes \cup {NoHash}]
    /\ timer \in BOOLEAN /\ todo \in [from : Nat, to : Nat]
    /\ queue \in Seq(Items) /\ depth \in Nat /\ backlog \in Nat
    /\ cnt \in [CounterNames -> Nat]

ThreadType ==
    prod \in [Producers -> Calls] /\ seal \in Seals /\ work \in Works /\ fl \in Flushes

ToldType == acked \subseteq Events /\ submits \in Nat /\ crashes \in Nat /\ conf \in Configs

TypeOK == DiskType /\ CoreType /\ ThreadType /\ ToldType

(* Every failure is recorded somewhere and every WAL scan succeeds.               *)
Lossless == conf.deadLetter /\ conf.faults \cap {"dead_letter_write", "wal_scan"} = {}

(* checkpoint.json means "every record with wal_seq <= applied_wal_seq is in the   *)
(* signed ledger" (wal.rs), or parked: recovery and the drain never look below it. *)
WatermarkSound ==
    Lossless => \A s \in 1..Watermark : s <= Len(wal) /\ Settled(wal[s])

(* Replays after a lagging checkpoint, racing producers and retries of append      *)
(* never give one event_id two entries (seal_one rechecks the dedup map).          *)
AtMostOnce == \A i, j \in 1..Len(ledger) : ledger[i].id = ledger[j].id => i = j

(* What append answered with success for is settled, or still somewhere a thread   *)
(* or the next start will take it from: nothing is silently dropped.               *)
InProcess(e) ==
    \/ \E i \in 1..Len(queue) : queue[i].ev = e
    \/ work.item.ev = e
    \/ seal.item.ev = e
AckedNotLost ==
    Lossless => \A e \in acked :
        \/ Settled(e)
        \/ \E s \in ckpt + 1 .. Len(wal) : wal[s] = e
        \/ ~UsesWal /\ InProcess(e)

(* The spill rule and the drain keep arrival order: no queued or in-hand record    *)
(* is older than the watermark or than a record queued before it.                  *)
QueueInWalOrder ==
    UsesWal /\ Lossless =>
        /\ \A i \in 1..Len(queue) :
              queue[i].seq > Watermark /\ wal[queue[i].seq] = queue[i].ev
        /\ \A i, j \in 1..Len(queue) : i < j => queue[i].seq < queue[j].seq
        /\ work.pc = "lock" =>
              /\ work.item.seq = Watermark + 1
              /\ \A i \in 1..Len(queue) : queue[i].seq > work.item.seq

(* No record is stranded: what is above the watermark is queued, in the worker's   *)
(* hand, or covered by a non-zero backlog that makes the worker scan the WAL.      *)
NothingStranded ==
    (Lossless /\ conf.mode = "durable" /\ phase \in {"up", "closing", "draining"}
       /\ lock = "none" /\ backlog = 0) =>
        \A s \in Watermark + 1 .. Len(wal) :
            \/ \E i \in 1..Len(queue) : queue[i].seq = s
            \/ work.pc = "lock" /\ work.item.seq = s

(* "Block until the queue and WAL backlog are fully drained": when flush returns   *)
(* Ok, everything acknowledged before it was called is settled.                    *)
FlushComplete == (Lossless /\ fl.pc = "ok") => \A e \in fl.must : Settled(e)

(* A clean shutdown leaves nothing behind, even when its flush timed out.          *)
ShutdownComplete == (Lossless /\ phase = "stopped") => \A e \in acked : Settled(e)

\* No call, seal or drain is half way.
Quiescent ==
    /\ phase = "up" /\ lock = "none"
    /\ \A p \in Producers : prod[p].pc = "idle"
    /\ work.pc \in {"none", "idle", "drain", "drainDepth", "drainLock", "age"}

(* Every event received or replayed has exactly one counted outcome or is in       *)
(* flight; a dead letter stands for conflicts, invalid and exhausted events.  The  *)
(* strict mode does not count a refused WAL append, so there the outcomes may fall *)
(* short.                                                                          *)
Explained ==
    cnt.appended + cnt.duplicates + cnt.busy + cnt.deadLettered + depth + backlog
Accounted ==
    (Quiescent /\ Lossless) =>
        IF conf.mode = "strict" THEN Explained <= cnt.received + cnt.replayed
        ELSE Explained = cnt.received + cnt.replayed

(* The pipeline implements the in-order, exactly-once ledger of InOrderLedger: the *)
(* WAL is the inbox, the dead letters of accepted or conflicting events are parked *)
(* and checkpoint.json is the watermark.                                           *)
ParkedEvents == {e \in Events : Parked(e)}
InOrder == INSTANCE InOrderLedger WITH inbox <- wal, book <- ledger,
                                       parked <- ParkedEvents, mark <- ckpt
ImplementsInOrderLedger == InOrder!Spec

(* With a WAL every acknowledged event is settled in the end, through crashes and  *)
(* restarts.                                                                       *)
AckedEventuallySettled ==
    \A e \in Events : (Lossless /\ UsesWal /\ e \in acked) ~> Settled(e)

(* Every call returns: no producer waits for ever on the core mutex, and a          *)
(* shutdown ends: the worker drains, exits and is joined.                          *)
CallsReturn ==
    /\ \A p \in Producers : (prod[p].pc # "idle") ~> (prod[p].pc = "idle")
    /\ (phase = "closing") ~> (phase \in {"stopped", "down"})

=============================================================================
