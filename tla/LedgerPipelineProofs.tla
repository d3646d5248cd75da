----------------------- MODULE LedgerPipelineProofs -----------------------
(***************************************************************************)
(* Proofs about LedgerPipeline.  IInv is inductive, hence AtMostOnce and   *)
(* WatermarkSound hold for all constants; it is proved in layers, each of  *)
(* which uses the ones before: types (TypeInv), threads and the lock, the  *)
(* dedup map, and what the watermark may pass.  Then the line: records are *)
(* sealed in the order of the WAL, flush and shutdown keep what they       *)
(* promise, the pipeline implements InOrderLedger, and its statistics add  *)
(* up.  JInv is inductive on top of IInv, StatsInv on top of JInv.         *)
(***************************************************************************)
EXTENDS LedgerPipelineInv, FiniteSetTheorems, TLAPS

-----------------------------------------------------------------------------
(* Types: one lemma per group of actions, one step per action *)

LEMMA TypeInit == Init => TypeInv
<1> SUFFICES ASSUME Init PROVE TypeInv
  OBVIOUS
<1> USE DEF Init, NoSeal, NoItem, NoTodo, NoCounts, NoCall, NoWork, NoFlush, NoDedup
<1>1. DiskType
  BY DEF DiskType
<1>2. todo \in [from : Nat, to : Nat] /\ queue \in Seq(Items)
  BY DEF Items
<1>3. dedup \in [EventIds -> Hashes \cup {NoHash}]
  OBVIOUS
<1>4. cnt \in [CounterNames -> Nat]
  OBVIOUS
<1>5. CoreType
  BY <1>2, <1>3, <1>4 DEF CoreType
<1>6. ThreadType
  BY DEF ThreadType, Items, Calls, CallPcs, Seals, SealPcs, Results, Works, WorkPcs,
         Flushes
<1>7. ToldType
  BY DEF ToldType
<1>8. Proper /\ Bounded
  BY DEF Proper, Bounded
<1> QED
  BY <1>1, <1>5, <1>6, <1>7, <1>8 DEF TypeInv, TypeOK

LEMMA QueueItems ==
  ASSUME queue \in Seq(Items)
  PROVE  \A i \in 1..Len(queue) : queue[i] \in Items /\ queue[i].seq \in Nat
<1>1. \A i \in 1..Len(queue) : queue[i] \in Items
  OBVIOUS
<1> QED
  BY <1>1 DEF Items

\* What leaves the queue is one of its items.
LEMMA QueueHead ==
  ASSUME queue \in Seq(Items), queue # <<>>
  PROVE  /\ Head(queue) = queue[1] /\ Head(queue) \in Items
         /\ Tail(queue) \in Seq(Items) /\ Len(Tail(queue)) = Len(queue) - 1
         /\ \A i \in 1..Len(Tail(queue)) : Tail(queue)[i] = queue[i + 1]
  OBVIOUS

\* What enters the queue takes its last place.
LEMMA QueueAppend ==
  ASSUME queue \in Seq(Items), NEW it \in Items
  PROVE  /\ Append(queue, it) \in Seq(Items)
         /\ Len(Append(queue, it)) = Len(queue) + 1
         /\ \A i \in 1..Len(queue) : Append(queue, it)[i] = queue[i]
         /\ Append(queue, it)[Len(queue) + 1] = it
  OBVIOUS

\* The map start builds from the ledger is total and has proper values.
LEMMA DedupOfType ==
  ASSUME NEW entries \in Seq(Events)
  PROVE  DedupOf(entries) \in [EventIds -> Hashes \cup {NoHash}]
<1> SUFFICES ASSUME NEW i \in EventIds,
                    \E k \in 1..Len(entries) : entries[k].id = i
             PROVE  entries[CHOOSE k \in 1..Len(entries) : entries[k].id = i].hash \in Hashes
  BY DEF DedupOf
<1>1. (CHOOSE k \in 1..Len(entries) : entries[k].id = i) \in 1..Len(entries)
  OBVIOUS
<1>2. \A e \in Events : e.hash \in Hashes
  BY DEF Events
<1>3. \A k \in 1..Len(entries) : entries[k] \in Events
  OBVIOUS
<1> QED
  BY <1>1, <1>2, <1>3

LEMMA DepthType ==
  ASSUME depth \in Nat
  PROVE  (depth + 1) % Wrap \in Nat /\ (depth + Wrap - 1) % Wrap \in Nat
<1>1. Wrap \in Nat \ {0}
  BY BoundsAssumption
<1> QED
  BY <1>1

-----------------------------------------------------------------------------
LEMMA SubmitTypes ==
  ASSUME TypeInv, NEW p \in Producers, NEW e \in Events, NEW valid \in BOOLEAN,
         Submit(p, e, valid)
  PROVE  TypeInv'
  BY DEF TypeInv, TypeOK, DiskType, CoreType, ThreadType, ToldType, Proper, Bounded,
         Submit, Calls, CallPcs, Count, disk, core, chan

LEMMA ProduceTypes ==
  ASSUME TypeInv, NEW p \in Producers, Produce(p)
  PROVE  TypeInv'
<1> USE DEF TypeInv, TypeOK, DiskType, CoreType, ThreadType, ToldType, Proper, Bounded,
            Calls, CallPcs, NoCall, CallGoes, Returns, disk, core, chan, threads, told
<1>1. CASE RefuseInvalid(p)
  BY <1>1 DEF RefuseInvalid, RecordDeadLetter, DeadLettered, Count, Reasons
<1>2. CASE AnswerDuplicate(p)
  BY <1>2 DEF AnswerDuplicate, Count
<1>3. CASE RefuseConflict(p)
  <2>1. DiskType'
    BY <1>3 DEF RefuseConflict, RecordDeadLetter, Reasons
  <2>2. cnt' \in [CounterNames -> Nat]
    BY <1>3 DEF RefuseConflict, Count
  <2> QED
    BY <1>3, <2>1, <2>2 DEF RefuseConflict
<1>4. CASE PassDedup(p)
  BY <1>4 DEF PassDedup
<1>5. CASE WalAppend(p)
  <2>1. prod[p].ev \in Events /\ wal' \in Seq(Events) /\ Len(wal') = Len(wal) + 1
    BY <1>5 DEF WalAppend
  <2>2. prod' \in [Producers -> Calls] /\ seal' \in Seals /\ Proper'
    BY <1>5, <2>1 DEF WalAppend, StartSeal, Seals, SealPcs, Results, Items
  <2>3. /\ seal'.item.seq <= Len(wal)'
        /\ \A q \in Producers : prod'[q].seq <= Len(wal)'
    BY <1>5, <2>1 DEF WalAppend, StartSeal, Seals, Items
  <2>4. /\ todo.to <= Len(wal)' /\ work.item.seq <= Len(wal)'
        /\ ckpt <= Len(wal)' /\ applied <= Len(wal)'
    BY <2>1 DEF Works, Items
  <2>6. \A i \in 1..Len(queue) : queue[i].seq <= Len(wal)'
    BY <2>1, QueueItems
  <2>5. Bounded'
    BY <1>5, <2>3, <2>4, <2>6 DEF WalAppend
  <2> QED
    BY <1>5, <2>1, <2>2, <2>5 DEF WalAppend
<1>6. CASE WalRefuse(p)
  BY <1>6 DEF WalRefuse, Count
<1>7. CASE Spill(p)
  BY <1>7 DEF Spill
<1>8. CASE Enqueue(p)
  <2> DEFINE it == [seq |-> prod[p].seq, ev |-> prod[p].ev]
  <2>1. it \in Items /\ it.seq <= Len(wal) /\ it.ev \in Events
    BY <1>8 DEF Enqueue, Items
  <2>2. queue' = Append(queue, it)
    BY <1>8 DEF Enqueue
  <2>3. /\ queue' \in Seq(Items)
        /\ \A i \in 1..Len(queue)' : queue'[i].seq <= Len(wal) /\ queue'[i].ev \in Events
    BY <2>1, <2>2, QueueAppend
  <2> QED
    BY <1>8, <2>3 DEF Enqueue
<1>12. CASE SendBestEffort(p)
  <2> DEFINE it == [seq |-> 0, ev |-> prod[p].ev]
  <2>1. it \in Items /\ it.seq <= Len(wal) /\ it.ev \in Events
    BY <1>12 DEF SendBestEffort, Items
  <2>2. queue' = Append(queue, it)
    BY <1>12 DEF SendBestEffort
  <2>3. /\ queue' \in Seq(Items)
        /\ \A i \in 1..Len(queue)' : queue'[i].seq <= Len(wal) /\ queue'[i].ev \in Events
    BY <2>1, <2>2, QueueAppend
  <2> QED
    BY <1>12, <2>3 DEF SendBestEffort
<1>13. CASE RefuseFull(p)
  <2>1. cnt' \in [CounterNames -> Nat]
    BY <1>13 DEF RefuseFull, Count
  <2> QED
    BY <1>13, <2>1 DEF RefuseFull
<1>9. CASE CountQueued(p)
  BY <1>9, DepthType DEF CountQueued
<1>10. CASE CountSpilled(p)
  BY <1>10 DEF CountSpilled
<1>11. CASE StrictReply(p)
  BY <1>11 DEF StrictReply, NoSeal, NoItem, Seals, SealPcs, Results, Items
<1> QED
  BY <1>1, <1>2, <1>3, <1>4, <1>5, <1>6, <1>7, <1>8, <1>9, <1>10, <1>11, <1>12,
     <1>13 DEF Produce

LEMMA SealTypes ==
  ASSUME TypeInv, SealOne
  PROVE  TypeInv'
<1> USE DEF TypeInv, TypeOK, DiskType, CoreType, ThreadType, ToldType, Proper, Bounded,
            Seals, SealPcs, Results, Items, SealGoes, SealEnds, SealTries, SealUnchanged,
            chan, threads, told
<1>1. CASE SealCheckDuplicate
  BY <1>1 DEF SealCheckDuplicate, Count
<1>2. CASE SealCheckConflict
  BY <1>2 DEF SealCheckConflict, RecordDeadLetter, DeadLettered, Count, Reasons
<1>3. CASE SealCheckFresh
  BY <1>3 DEF SealCheckFresh
<1>4. CASE SealAppend
  <2>1. ledger' \in Seq(Events)
    BY <1>4 DEF SealAppend
  <2>2. dedup' \in [EventIds -> Hashes \cup {NoHash}]
    BY <1>4 DEF SealAppend, Events
  <2> QED
    BY <1>4, <2>1, <2>2 DEF SealAppend, Count
<1>5. CASE SealRetry
  BY <1>5 DEF SealRetry
<1>6. CASE SealExhaust
  BY <1>6 DEF SealExhaust, RecordDeadLetter, DeadLettered, Count, Reasons
<1>7. CASE AdvanceWatermark
  BY <1>7 DEF AdvanceWatermark, MaxOf
<1>8. CASE SealByCount
  <2>1. timer' \in BOOLEAN
    BY <1>8 DEF SealByCount, SealRange
  <2>2. sealedTo' \in Nat
    BY <1>8 DEF SealByCount, SealRange
  <2>3. seal' \in Seals /\ seal'.item = seal.item /\ seal'.pc = "done"
    BY <1>8 DEF SealByCount
  <2> QED
    BY <1>8, <2>1, <2>2, <2>3 DEF SealByCount
<1> QED
  BY <1>1, <1>2, <1>3, <1>4, <1>5, <1>6, <1>7, <1>8 DEF SealOne

LEMMA WorkerTypes ==
  ASSUME TypeInv, Worker
  PROVE  TypeInv'
<1> USE DEF TypeInv, TypeOK, DiskType, CoreType, ThreadType, ToldType, Proper, Bounded,
            Works, WorkPcs, WorkerGoes, AfterDrain, disk, core, chan, threads, told
<1>1. CASE WorkerRecv
  <2>1. /\ Head(queue) \in Items /\ Head(queue).seq <= Len(wal)
        /\ queue' \in Seq(Items)
        /\ \A i \in 1..Len(queue)' : queue'[i].seq <= Len(wal)
    BY <1>1, QueueHead DEF WorkerRecv
  <2>2. /\ Head(queue).ev \in Events
        /\ \A i \in 1..Len(queue)' : queue'[i].ev \in Events
    BY <1>1, QueueHead DEF WorkerRecv
  <2> QED
    BY <1>1, <2>1, <2>2 DEF WorkerRecv
<1>2. CASE WorkerLock
  BY <1>2 DEF WorkerLock, StartSeal, Seals, SealPcs, Results, Items
<1>3. CASE WorkerUnlock
  BY <1>3 DEF WorkerUnlock, NoSeal, NoItem, Seals, SealPcs, Results, Items
<1>4. CASE WorkerUncount
  BY <1>4, DepthType DEF WorkerUncount
<1>5. CASE WorkerIdle
  BY <1>5 DEF WorkerIdle, NoItem, Items
<1>6. CASE DrainReadBacklog
  BY <1>6 DEF DrainReadBacklog
<1>7. CASE DrainReadDepth
  BY <1>7 DEF DrainReadDepth
<1>8. CASE DrainLock
  BY <1>8 DEF DrainLock
<1>9. CASE DrainScan
  BY <1>9 DEF DrainScan, PendingAbove, Watermark, MaxOf
<1>10. CASE DrainReset
  BY <1>10 DEF DrainReset
<1>11. CASE DrainNext
  <2>1. todo.from \in 1..Len(wal) /\ wal[todo.from] \in Events
    BY <1>11 DEF DrainNext, TakeRecord
  <2>2. /\ todo' \in [from : Nat, to : Nat] /\ todo'.from >= 1 /\ todo'.to <= Len(wal)
        /\ seal' = StartSeal(todo.from, wal[todo.from])
    BY <1>11, <2>1 DEF DrainNext, TakeRecord
  <2>3. seal' \in Seals /\ seal'.item.seq <= Len(wal) /\ seal'.item.ev \in Events
    BY <2>1, <2>2 DEF StartSeal, Seals, SealPcs, Results, Items
  <2> QED
    BY <1>11, <2>2, <2>3 DEF DrainNext
<1>12. CASE DrainBatchDone
  <2>1. todo' \in [from : Nat, to : Nat] /\ todo'.from >= 1 /\ todo'.to <= Len(wal)
    BY <1>12 DEF DrainBatchDone, NoMoreRecords, NoTodo
  <2>2. seal' \in Seals /\ seal'.pc = "none" /\ seal'.item.seq = 0
    BY <1>12 DEF DrainBatchDone, NoMoreRecords, NoSeal, NoItem, Seals, SealPcs, Results,
                 Items
  <2>3. work' \in Works /\ work'.item = work.item
        /\ (work'.pc = "lock" => work.pc = "lock")
    BY <1>12 DEF DrainBatchDone, Works, WorkPcs
  <2>4. /\ UNCHANGED <<wal, ckpt, ledger, dead, sealedTo, phase, lock, applied, dedup, timer>>
        /\ UNCHANGED <<queue, depth, backlog, cnt, prod, fl, acked, submits, crashes, conf>>
    BY <1>12 DEF DrainBatchDone
  <2>5. DiskType' /\ CoreType' /\ ThreadType' /\ ToldType'
    BY <2>1, <2>2, <2>3, <2>4
  <2>6. Proper'
    BY <2>2, <2>3, <2>4
  <2>7. Bounded'
    BY <2>1, <2>2, <2>3, <2>4
  <2> QED
    BY <2>5, <2>6, <2>7
<1>13. CASE AgeNotDue
  BY <1>13 DEF AgeNotDue
<1>14. CASE AgeDue
  <2>1. timer' \in BOOLEAN
    BY <1>14 DEF AgeDue, SealRange
  <2> QED
    BY <1>14, <2>1 DEF AgeDue, SealRange
<1> QED
  BY <1>1, <1>2, <1>3, <1>4, <1>5, <1>6, <1>7, <1>8, <1>9, <1>10, <1>11, <1>12, <1>13,
     <1>14 DEF Worker

-----------------------------------------------------------------------------
\* Whatever a process lost, its memory is empty again.
LEMMA ResetTypes ==
  ASSUME TypeInv, ResetMemory, phase' \in {"down", "stopped"}
  PROVE  CoreType' /\ ThreadType'
<1> USE DEF ResetMemory, NoSeal, NoItem, NoTodo, NoCounts, NoCall, NoWork, NoFlush, NoDedup
<1>1. dedup' \in [EventIds -> Hashes \cup {NoHash}] /\ cnt' \in [CounterNames -> Nat]
  OBVIOUS
<1>2. todo' \in [from : Nat, to : Nat] /\ queue' \in Seq(Items)
  OBVIOUS
<1>5. timer' \in BOOLEAN
  OBVIOUS
<1>4. CoreType'
  BY <1>1, <1>2, <1>5 DEF CoreType
<1>3. ThreadType'
  BY DEF ThreadType, Items, Calls, CallPcs, Seals, SealPcs, Results, Works, WorkPcs,
         Flushes
<1> QED
  BY <1>3, <1>4

LEMMA ResetBounds ==
  ASSUME TypeInv, ResetMemory, UNCHANGED <<wal, ckpt>>
  PROVE  Proper' /\ Bounded'
  BY DEF TypeInv, TypeOK, DiskType, Proper, Bounded, ResetMemory, NoSeal, NoItem, NoTodo,
         NoCall, NoWork

LEMMA ResetFrame ==
  ASSUME TypeInv, ResetMemory, phase' \in {"down", "stopped"}, sealedTo' \in Nat,
         crashes' \in Nat, acked' \subseteq Events,
         UNCHANGED <<wal, ckpt, ledger, dead, submits, conf>>
  PROVE  TypeInv'
<1>1. CoreType' /\ ThreadType' /\ Proper' /\ Bounded'
  BY ResetTypes, ResetBounds
<1>2. DiskType' /\ ToldType'
  BY DEF TypeInv, TypeOK, DiskType, ToldType
<1> QED
  BY <1>1, <1>2 DEF TypeInv, TypeOK

LEMMA ResetStep ==
  ASSUME TypeInv, StartFails \/ Crash \/ ShutdownJoin
  PROVE  TypeInv'
<1>1. /\ sealedTo \in Nat /\ Len(ledger) \in Nat /\ crashes \in Nat
      /\ acked \subseteq Events
  BY DEF TypeInv, TypeOK, DiskType, ToldType
<1>2. CASE StartFails
  <2>1. /\ ResetMemory /\ phase' = "down"
        /\ UNCHANGED <<wal, ckpt, ledger, dead, sealedTo, acked, submits, conf, crashes>>
    BY <1>2 DEF StartFails, disk, told
  <2> QED
    BY <1>1, <2>1, ResetFrame
<1>3. CASE Crash
  <2>1. /\ ResetMemory /\ phase' = "down" /\ crashes' = crashes + 1
        /\ UNCHANGED <<wal, ckpt, ledger, dead, sealedTo, submits, conf>>
        /\ acked' \subseteq acked
    BY <1>3 DEF Crash, disk
  <2> QED
    BY <1>1, <2>1, ResetFrame
<1>4. CASE ShutdownJoin
  <2>1. /\ ResetMemory /\ phase' = "stopped" /\ sealedTo' \in {sealedTo, Len(ledger)}
        /\ UNCHANGED <<wal, ckpt, ledger, dead, acked, submits, conf, crashes>>
    BY <1>4 DEF ShutdownJoin, told
  <2> QED
    BY <1>1, <2>1, ResetFrame
<1> QED
  BY <1>2, <1>3, <1>4

LEMMA LifeTypes ==
  ASSUME TypeInv,
         Start \/ Recover \/ Crash \/ FlushBegin \/ Flush \/ ExplicitSeal \/ ShutdownBegin
           \/ DropPipeline \/ Shutdown
  PROVE  TypeInv'
<1> USE DEF TypeInv, TypeOK, DiskType, CoreType, ThreadType, ToldType, Proper, Bounded,
            disk, core, chan, threads, told
<1>1. CASE Start
  <2>1. dedup' \in [EventIds -> Hashes \cup {NoHash}] /\ cnt' \in [CounterNames -> Nat]
    BY <1>1, DedupOfType DEF Start
  <2>2. applied' \in Nat /\ applied' <= Len(wal)
    BY <1>1 DEF Start
  <2> QED
    BY <1>1, <2>1, <2>2 DEF Start, PendingAbove
<1>2. CASE RecoverNext
  <2>1. todo.from \in 1..Len(wal) /\ wal[todo.from] \in Events
    BY <1>2 DEF RecoverNext, TakeRecord
  <2>2. /\ todo' \in [from : Nat, to : Nat] /\ todo'.from >= 1 /\ todo'.to <= Len(wal)
        /\ seal' = StartSeal(todo.from, wal[todo.from])
    BY <1>2, <2>1 DEF RecoverNext, TakeRecord
  <2>3. seal' \in Seals /\ seal'.item.seq <= Len(wal) /\ seal'.item.ev \in Events
    BY <2>1, <2>2 DEF StartSeal, Seals, SealPcs, Results, Items
  <2> QED
    BY <1>2, <2>2, <2>3 DEF RecoverNext
<1>3. CASE RecoverDone
  <2>1. todo' \in [from : Nat, to : Nat] /\ todo'.from >= 1 /\ todo'.to <= Len(wal)
    BY <1>3 DEF RecoverDone, NoMoreRecords, NoTodo
  <2>2. seal' \in Seals /\ seal'.pc = "none" /\ seal'.item.seq = 0
    BY <1>3 DEF RecoverDone, NoMoreRecords, NoSeal, NoItem, Seals, SealPcs, Results, Items
  <2>3. work' \in Works /\ work'.pc # "lock" /\ work'.item.seq = 0
    BY <1>3 DEF RecoverDone, NoItem, Works, WorkPcs, Items
  <2>4. /\ phase' = "up" /\ lock' = "none"
        /\ UNCHANGED <<wal, ckpt, ledger, dead, sealedTo, applied, dedup, timer>>
        /\ UNCHANGED <<queue, depth, backlog, cnt, prod, fl, acked, submits, crashes, conf>>
    BY <1>3 DEF RecoverDone
  <2>5. DiskType' /\ CoreType' /\ ThreadType' /\ ToldType'
    BY <2>1, <2>2, <2>3, <2>4
  <2>6. Proper'
    BY <2>2, <2>3, <2>4
  <2>7. Bounded'
    BY <2>1, <2>2, <2>3, <2>4
  <2> QED
    BY <2>5, <2>6, <2>7
<1>4. CASE StartFails
  BY <1>4, ResetStep
<1>5. CASE Crash
  BY <1>5, ResetStep
<1>6. CASE FlushBegin
  BY <1>6 DEF FlushBegin, Flushes
<1>7. CASE FlushReadDepth
  BY <1>7 DEF FlushReadDepth, FlushGoes, Flushes
<1>8. CASE FlushReadBacklog
  BY <1>8 DEF FlushReadBacklog, FlushGoes, Flushes
<1>9. CASE ExplicitSeal
  <2>1. timer' \in BOOLEAN
    BY <1>9 DEF ExplicitSeal, SealRange
  <2> QED
    BY <1>9, <2>1 DEF ExplicitSeal, SealRange
<1>10. CASE ShutdownBegin
  BY <1>10 DEF ShutdownBegin, Flushes
<1>11. CASE DropSender
  BY <1>11 DEF DropSender
<1>12. CASE DropPipeline
  BY <1>12 DEF DropPipeline, NoFlush, Flushes
<1>13. CASE ShutdownJoin
  BY <1>13, ResetStep
<1> QED
  BY <1>1, <1>2, <1>3, <1>4, <1>5, <1>6, <1>7, <1>8, <1>9, <1>10, <1>11, <1>12, <1>13
  DEF Recover, Flush, Shutdown

LEMMA TypeStep ==
  ASSUME TypeInv, [Next]_vars
  PROVE  TypeInv'
<1>1. CASE Next
  BY <1>1, SubmitTypes, ProduceTypes, SealTypes, WorkerTypes, LifeTypes DEF Next
<1>2. CASE UNCHANGED vars
  BY <1>2 DEF vars, disk, core, chan, threads, told, TypeInv, TypeOK, DiskType, CoreType,
              ThreadType, ToldType, Proper, Bounded
<1> QED
  BY <1>1, <1>2

(* Every variable of the pipeline keeps its type, and no number the process     *)
(* holds in memory points past the end of the WAL, whatever the limits and the  *)
(* failures.                                                                    *)
THEOREM TypeCorrect == Spec => [](TypeOK /\ Proper /\ Bounded)
  BY TypeInit, TypeStep, PTL DEF Spec, TypeInv

-----------------------------------------------------------------------------
(* Threads and the lock *)

LEMMA ThreadInit == Init => ThreadInv
  BY NullAssumption
  DEF Init, ThreadInv, Asleep, LockInv, ModeInv, NoCall, NoSeal, NoItem, NoWork

LEMMA ThreadSubmit ==
  ASSUME TypeInv, ThreadInv, NEW p \in Producers, NEW e \in Events,
         NEW valid \in BOOLEAN, Submit(p, e, valid)
  PROVE  ThreadInv'
  BY NullAssumption
  DEF TypeInv, TypeOK, ThreadType, Calls, ThreadInv, Asleep, LockInv, ModeInv, UsesWal,
      Submit, disk, core, chan

LEMMA ThreadProduce ==
  ASSUME TypeInv, ThreadInv, NEW p \in Producers, Produce(p)
  PROVE  ThreadInv'
<1> USE NullAssumption DEF TypeInv, TypeOK, CoreType, ThreadType, Calls, Seals, Works,
       Items, ThreadInv, Asleep, LockInv, ModeInv, UsesWal, disk, core, chan, threads,
       told
<1>1. CASE RefuseInvalid(p)
  BY <1>1 DEF RefuseInvalid, Returns, NoCall
<1>2. CASE AnswerDuplicate(p)
  BY <1>2 DEF AnswerDuplicate, Returns, NoCall
<1>3. CASE RefuseConflict(p)
  BY <1>3 DEF RefuseConflict, Returns, NoCall
<1>4. CASE PassDedup(p)
  BY <1>4 DEF PassDedup, CallGoes
<1>5. CASE WalAppend(p)
  <2>1. Asleep' /\ LockInv'
    BY <1>5 DEF WalAppend, StartSeal
  <2>2. conf.mode \in {"durable", "strict"} /\ conf' = conf
    BY <1>5, ConfigsAssumption DEF WalAppend, ToldType
  <2>3. ModeInv'
    BY <1>5, <2>2 DEF WalAppend
  <2> QED
    BY <2>1, <2>3
<1>6. CASE WalRefuse(p)
  BY <1>6 DEF WalRefuse, Returns, NoCall
<1>7. CASE Spill(p)
  BY <1>7 DEF Spill, CallGoes
<1>8. CASE Enqueue(p)
  BY <1>8 DEF Enqueue, CallGoes
<1>9. CASE SendBestEffort(p)
  BY <1>9 DEF SendBestEffort, CallGoes
<1>10. CASE RefuseFull(p)
  BY <1>10 DEF RefuseFull, Returns, NoCall
<1>11. CASE CountQueued(p)
  BY <1>11 DEF CountQueued, Returns, NoCall
<1>12. CASE CountSpilled(p)
  BY <1>12 DEF CountSpilled, Returns, NoCall
<1>13. CASE StrictReply(p)
  BY <1>13 DEF StrictReply, Returns, NoCall, NoSeal, NoItem
<1> QED
  BY <1>1, <1>2, <1>3, <1>4, <1>5, <1>6, <1>7, <1>8, <1>9, <1>10, <1>11, <1>12, <1>13
     DEF Produce

LEMMA ThreadSeal ==
  ASSUME TypeInv, ThreadInv, SealOne
  PROVE  ThreadInv'
<1> USE NullAssumption DEF TypeInv, TypeOK, CoreType, ThreadType, Calls, Seals, Works,
       Items, ThreadInv, Asleep, LockInv, ModeInv, UsesWal, disk, core, chan, threads,
       told
<1>1. CASE SealCheckDuplicate
  BY <1>1 DEF SealCheckDuplicate, SealUnchanged, SealGoes
<1>2. CASE SealCheckConflict
  BY <1>2 DEF SealCheckConflict, SealUnchanged, SealGoes, SealEnds
<1>3. CASE SealCheckFresh
  BY <1>3 DEF SealCheckFresh, SealUnchanged, SealTries
<1>4. CASE SealAppend
  BY <1>4 DEF SealAppend, SealUnchanged, SealGoes
<1>5. CASE SealRetry
  BY <1>5 DEF SealRetry, SealUnchanged, SealTries
<1>6. CASE SealExhaust
  BY <1>6 DEF SealExhaust, SealUnchanged, SealGoes, SealEnds
<1>7. CASE AdvanceWatermark
  BY <1>7 DEF AdvanceWatermark, SealUnchanged, SealGoes, SealEnds
<1>8. CASE SealByCount
  BY <1>8 DEF SealByCount, SealUnchanged, SealGoes, SealEnds
<1> QED
  BY <1>1, <1>2, <1>3, <1>4, <1>5, <1>6, <1>7, <1>8 DEF SealOne

LEMMA ThreadWorker ==
  ASSUME TypeInv, ThreadInv, Worker
  PROVE  ThreadInv'
<1> USE NullAssumption DEF TypeInv, TypeOK, CoreType, ThreadType, Calls, Seals, Works,
       Items, ThreadInv, Asleep, LockInv, ModeInv, UsesWal, disk, core, chan, threads,
       told
<1>1. CASE WorkerRecv
  BY <1>1 DEF WorkerRecv
<1>2. CASE WorkerLock
  BY <1>2 DEF WorkerLock, WorkerGoes, StartSeal
<1>3. CASE WorkerUnlock
  BY <1>3 DEF WorkerUnlock, NoSeal, NoItem
<1>4. CASE WorkerUncount
  BY <1>4 DEF WorkerUncount, WorkerGoes
<1>5. CASE WorkerIdle
  BY <1>5 DEF WorkerIdle, NoItem
<1>6. CASE DrainReadBacklog
  BY <1>6 DEF DrainReadBacklog, WorkerGoes, AfterDrain
<1>7. CASE DrainReadDepth
  BY <1>7 DEF DrainReadDepth, WorkerGoes, AfterDrain
<1>8. CASE DrainLock
  BY <1>8 DEF DrainLock, WorkerGoes
<1>9. CASE DrainScan
  BY <1>9 DEF DrainScan, WorkerGoes, PendingAbove, Watermark, MaxOf
<1>10. CASE DrainReset
  BY <1>10 DEF DrainReset, WorkerGoes, AfterDrain
<1>11. CASE DrainNext
  BY <1>11 DEF DrainNext, TakeRecord, StartSeal
<1>12. CASE DrainBatchDone
  BY <1>12 DEF DrainBatchDone, NoMoreRecords, WorkerGoes, NoSeal, NoItem, NoTodo
<1>13. CASE AgeNotDue
  BY <1>13 DEF AgeNotDue, WorkerGoes
<1>14. CASE AgeDue
  BY <1>14 DEF AgeDue, WorkerGoes, SealRange
<1> QED
  BY <1>1, <1>2, <1>3, <1>4, <1>5, <1>6, <1>7, <1>8, <1>9, <1>10, <1>11, <1>12, <1>13,
     <1>14 DEF Worker

LEMMA ThreadLife ==
  ASSUME TypeInv, ThreadInv, Start \/ Recover \/ Crash \/ FlushBegin \/ Flush \/ ExplicitSeal
           \/ ShutdownBegin \/ DropPipeline \/ Shutdown
  PROVE  ThreadInv'
<1> USE NullAssumption DEF TypeInv, TypeOK, CoreType, ThreadType, Calls, Seals, Works,
       Items, ThreadInv, Asleep, LockInv, ModeInv, UsesWal, disk, core, chan, threads,
       told
<1>1. CASE Start
  BY <1>1 DEF Start, PendingAbove
<1>2. CASE RecoverNext
  BY <1>2 DEF RecoverNext, Replaying, TakeRecord, StartSeal
<1>3. CASE RecoverDone
  BY <1>3 DEF RecoverDone, Replaying, NoMoreRecords, NoSeal, NoItem, NoTodo
<1>4. CASE StartFails
  BY <1>4 DEF StartFails, ResetMemory, NoSeal, NoItem, NoTodo, NoCall, NoWork
<1>5. CASE Crash
  BY <1>5 DEF Crash, ResetMemory, NoSeal, NoItem, NoTodo, NoCall, NoWork
<1>6. CASE FlushBegin
  BY <1>6 DEF FlushBegin
<1>7. CASE FlushReadDepth
  BY <1>7 DEF FlushReadDepth
<1>8. CASE FlushReadBacklog
  BY <1>8 DEF FlushReadBacklog
<1>9. CASE ExplicitSeal
  BY <1>9 DEF ExplicitSeal, SealRange
<1>10. CASE ShutdownBegin
  BY <1>10 DEF ShutdownBegin
<1>11. CASE DropSender
  BY <1>11 DEF DropSender
<1>12. CASE DropPipeline
  BY <1>12 DEF DropPipeline
<1>13. CASE ShutdownJoin
  BY <1>13 DEF ShutdownJoin, ResetMemory, NoSeal, NoItem, NoTodo, NoCall, NoWork
<1> QED
  BY <1>1, <1>2, <1>3, <1>4, <1>5, <1>6, <1>7, <1>8, <1>9, <1>10, <1>11, <1>12, <1>13
     DEF Recover, Flush, Shutdown
LEMMA ThreadStep ==
  ASSUME TypeInv, ThreadInv, [Next]_vars
  PROVE  ThreadInv'
<1>1. CASE Next
  BY <1>1, ThreadSubmit, ThreadProduce, ThreadSeal, ThreadWorker, ThreadLife DEF Next
<1>2. CASE UNCHANGED vars
  BY <1>2 DEF vars, disk, core, chan, threads, told, ThreadInv, Asleep, LockInv, ModeInv,
              UsesWal
<1> QED
  BY <1>1, <1>2

-----------------------------------------------------------------------------
(* One entry per event id *)

LEMMA OnceInit == Init => OnceInv
  BY DEF Init, OnceInv, DedupAgrees, TryFresh, AtMostOnce, NoSeal

\* The ledger, the map and the draft about to be appended are what they were,
\* or the process lost its memory.
OnceSame ==
    /\ ledger' = ledger
    /\ phase' \in {"down", "stopped"} \/ (dedup' = dedup /\ phase \notin {"down", "stopped"})
    /\ seal'.pc = "try" => seal.pc = "try" /\ seal'.item = seal.item

LEMMA OnceFrame ==
  ASSUME OnceInv, OnceSame
  PROVE  OnceInv'
  BY DEF OnceInv, OnceSame, DedupAgrees, TryFresh, AtMostOnce, InLedger, IdInLedger

LEMMA OnceProduce ==
  ASSUME TypeInv, ThreadInv, NEW p \in Producers, Produce(p)
  PROVE  OnceSame
  BY DEF ThreadInv, Asleep, Produce, OnceSame, RefuseInvalid, AnswerDuplicate,
         RefuseConflict, PassDedup, WalAppend, WalRefuse, Spill, Enqueue, SendBestEffort,
         RefuseFull, CountQueued, CountSpilled, StrictReply, StartSeal, NoSeal, disk, core

LEMMA OnceWorker ==
  ASSUME TypeInv, ThreadInv, Worker
  PROVE  OnceSame
  BY DEF ThreadInv, Asleep, Worker, OnceSame, WorkerRecv, WorkerLock, WorkerUnlock,
         WorkerUncount, WorkerIdle, DrainReadBacklog, DrainReadDepth, DrainLock, DrainScan,
         DrainReset, DrainNext, DrainBatchDone, AgeNotDue, AgeDue, TakeRecord,
         NoMoreRecords, StartSeal, NoSeal, disk, core

LEMMA OnceSeal ==
  ASSUME TypeInv, ThreadInv, SealOne, ~SealCheckFresh, ~SealAppend
  PROVE  OnceSame
<1>1. seal.pc # "none" /\ phase' = phase
  BY DEF SealOne, SealCheckDuplicate, SealCheckConflict, SealRetry, SealExhaust,
         AdvanceWatermark, SealByCount, SealUnchanged
<1>2. ledger' = ledger /\ dedup' = dedup
  BY DEF SealOne, SealCheckDuplicate, SealCheckConflict, SealRetry, SealExhaust,
         AdvanceWatermark, SealByCount
<1>3. seal'.pc = "try" => seal.pc = "try" /\ seal'.item = seal.item
  <2>1. CASE SealRetry
    BY <2>1 DEF SealRetry, SealTries
  <2>2. CASE AdvanceWatermark \/ SealByCount
    BY <2>2 DEF AdvanceWatermark, SealByCount, SealGoes, SealEnds
  <2>3. CASE SealCheckDuplicate \/ SealCheckConflict \/ SealExhaust
    <3>1. \/ SealGoes("mark", "duplicate") \/ SealGoes("mark", "terminal")
          \/ SealEnds("error")
      BY <2>3 DEF SealCheckDuplicate, SealCheckConflict, SealExhaust
    <3> QED
      BY <3>1 DEF SealGoes, SealEnds
  <2> QED
    BY <2>1, <2>2, <2>3 DEF SealOne
<1> QED
  BY <1>1, <1>2, <1>3 DEF ThreadInv, Asleep, OnceSame

LEMMA OnceLife ==
  ASSUME TypeInv, ThreadInv,
         Recover \/ Crash \/ FlushBegin \/ Flush \/ ExplicitSeal
           \/ ShutdownBegin \/ DropPipeline \/ Shutdown
  PROVE  OnceSame
  BY DEF ThreadInv, Asleep, OnceSame, Recover, RecoverNext, RecoverDone, StartFails,
         Replaying, Crash, FlushBegin, Flush, FlushReadDepth, FlushReadBacklog, ExplicitSeal,
         ShutdownBegin, DropPipeline, Shutdown, DropSender, ShutdownJoin, ResetMemory,
         TakeRecord, NoMoreRecords, StartSeal, NoSeal, disk, core

\* A fresh id is one the ledger does not have.
LEMMA OnceFresh ==
  ASSUME TypeInv, OnceInv, ThreadInv, SealCheckFresh
  PROVE  OnceInv'
<1>1. seal.item.ev \in Events /\ seal.item.ev.id \in EventIds
  BY DEF TypeInv, Proper, SealCheckFresh, Events
<1>2. phase \notin {"down", "stopped"}
  BY DEF ThreadInv, Asleep, SealCheckFresh
<1>3. ~IdInLedger(seal.item.ev.id)
  BY <1>1, <1>2 DEF OnceInv, DedupAgrees, SealCheckFresh
<1>4. UNCHANGED <<ledger, dedup, phase>> /\ seal'.item = seal.item
  BY DEF SealCheckFresh, SealTries, SealUnchanged
<1>5. TryFresh'
  BY <1>3, <1>4 DEF TryFresh, IdInLedger
<1> QED
  BY <1>4, <1>5 DEF OnceInv, DedupAgrees, AtMostOnce, InLedger, IdInLedger

\* The entry that is appended is the only one with its id.
LEMMA OnceAppend ==
  ASSUME TypeInv, OnceInv, ThreadInv, SealAppend
  PROVE  OnceInv'
<1> DEFINE ev == seal.item.ev
<1>1. /\ ev \in Events /\ ev.id \in EventIds /\ ev.hash \in Hashes
      /\ ev = [id |-> ev.id, hash |-> ev.hash]
  BY DEF TypeInv, Proper, SealAppend, Events
<1>2. /\ Len(ledger') = Len(ledger) + 1 /\ Len(ledger) \in Nat
      /\ ledger'[Len(ledger) + 1] = ev
      /\ \A i \in 1..Len(ledger) : ledger'[i] = ledger[i]
  BY <1>1 DEF SealAppend, TypeInv, TypeOK, DiskType
<1>3. \A i \in 1..Len(ledger) : ledger[i].id # ev.id
  BY DEF OnceInv, TryFresh, IdInLedger, SealAppend
<1>4. AtMostOnce'
  BY <1>2, <1>3 DEF OnceInv, AtMostOnce
<1>5. TryFresh'
  BY DEF TryFresh, SealAppend, SealGoes
<1>6. phase' = phase /\ phase \notin {"down", "stopped"}
  BY DEF ThreadInv, Asleep, SealAppend, SealUnchanged
<1>7. /\ dedup'[ev.id] = ev.hash
      /\ \A i \in EventIds : i # ev.id => dedup'[i] = dedup[i]
  BY <1>1 DEF SealAppend, TypeInv, TypeOK, CoreType
<1>8. ASSUME NEW i \in EventIds
      PROVE  /\ dedup'[i] = NoHash => ~IdInLedger(i)'
             /\ dedup'[i] # NoHash => InLedger([id |-> i, hash |-> dedup[i]])'
  <2>1. CASE i = ev.id
    BY <2>1, <1>1, <1>2, <1>7, NullAssumption DEF InLedger
  <2>2. CASE i # ev.id
    BY <2>2, <1>2, <1>6, <1>7 DEF OnceInv, DedupAgrees, InLedger, IdInLedger
  <2> QED
    BY <2>1, <2>2
<1>9. DedupAgrees'
  BY <1>6, <1>8 DEF DedupAgrees
<1> QED
  BY <1>4, <1>5, <1>9 DEF OnceInv

\* The map that start builds agrees with the ledger it is built from.
LEMMA DedupOfAgrees ==
  ASSUME ledger \in Seq(Events), NEW i \in EventIds
  PROVE  /\ DedupOf(ledger)[i] = NoHash => ~IdInLedger(i)
         /\ DedupOf(ledger)[i] # NoHash => InLedger([id |-> i, hash |-> DedupOf(ledger)[i]])
<1>1. CASE ~IdInLedger(i)
  BY <1>1 DEF DedupOf, IdInLedger
<1>2. CASE IdInLedger(i)
  <2> DEFINE k == CHOOSE n \in 1..Len(ledger) : ledger[n].id = i
  <2>1. k \in 1..Len(ledger) /\ ledger[k].id = i
    BY <1>2 DEF IdInLedger
  <2>2. DedupOf(ledger)[i] = ledger[k].hash
    BY <1>2 DEF DedupOf, IdInLedger
  <2>3. ledger[k] \in Events
    BY <2>1
  <2>4. /\ ledger[k].hash # NoHash
        /\ ledger[k] = [id |-> i, hash |-> ledger[k].hash]
    BY <2>1, <2>3, NullAssumption DEF Events
  <2> QED
    BY <2>1, <2>2, <2>4 DEF InLedger
<1> QED
  BY <1>1, <1>2

LEMMA OnceStart ==
  ASSUME TypeInv, OnceInv, ThreadInv, Start
  PROVE  OnceInv'
<1>1. /\ UNCHANGED <<ledger, seal>> /\ dedup' = DedupOf(ledger)
      /\ phase' = "recovering" /\ seal.pc = "none"
  BY DEF Start, disk, ThreadInv, Asleep
<1>2. AtMostOnce' /\ TryFresh'
  BY <1>1 DEF OnceInv, AtMostOnce, TryFresh
<1>3. ledger \in Seq(Events)
  BY DEF TypeInv, TypeOK, DiskType
<1>4. DedupAgrees'
  BY <1>1, <1>3, DedupOfAgrees DEF DedupAgrees, InLedger, IdInLedger
<1> QED
  BY <1>2, <1>4 DEF OnceInv

LEMMA OnceStep ==
  ASSUME TypeInv, ThreadInv, OnceInv, [Next]_vars
  PROVE  OnceInv'
<1>1. ASSUME NEW p \in Producers, NEW e \in Events, NEW valid \in BOOLEAN,
             Submit(p, e, valid)
      PROVE  OnceSame
  BY <1>1 DEF ThreadInv, Asleep, OnceSame, Submit, disk, core
<1>2. CASE Next
  BY <1>1, <1>2, OnceProduce, OnceWorker, OnceSeal, OnceLife, OnceFrame, OnceFresh,
     OnceAppend, OnceStart DEF Next
<1>3. CASE UNCHANGED vars
  BY <1>3 DEF vars, disk, core, OnceInv, DedupAgrees, TryFresh, AtMostOnce, InLedger,
              IdInLedger
<1> QED
  BY <1>2, <1>3

(* However calls race, appends fail and are retried, and crashes replay the WAL: *)
(* no event id is in the ledger twice.                                           *)
THEOREM OnceCorrect == Spec => []AtMostOnce
<1>1. Init => TypeInv /\ ThreadInv /\ OnceInv
  BY TypeInit, ThreadInit, OnceInit
<1>2. TypeInv /\ ThreadInv /\ OnceInv /\ [Next]_vars => (TypeInv /\ ThreadInv /\ OnceInv)'
  BY TypeStep, ThreadStep, OnceStep
<1>3. OnceInv => AtMostOnce
  BY DEF OnceInv
<1> QED
  BY <1>1, <1>2, <1>3, PTL DEF Spec

-----------------------------------------------------------------------------
(* The watermark only passes settled records *)

LEMMA SettleInit == Init => Linked /\ SettleInv
  BY DEF Init, Linked, SettleInv, MarksSettled, HandSettled, BatchSettled, QueueSettled,
         NoneMissing, NoSeal, NoItem, NoWork, NoCall

\* What is on disk stays there, and conf is fixed.
LEMMA DiskGrows ==
  ASSUME TypeInv, [Next]_vars
  PROVE  /\ wal' = wal \/ \E e \in Events : wal' = Append(wal, e)
         /\ ledger' = ledger \/ \E e \in Events : ledger' = Append(ledger, e)
         /\ dead \subseteq dead'
         /\ conf' = conf
<1>1. CASE UNCHANGED vars
  BY <1>1 DEF vars, disk, told
<1>2. ASSUME NEW p \in Producers, NEW e \in Events, NEW valid \in BOOLEAN,
             Submit(p, e, valid)
      PROVE  UNCHANGED <<wal, ledger, dead, conf>>
  BY <1>2 DEF Submit, disk
<1>3. ASSUME NEW p \in Producers, Produce(p), ~WalAppend(p)
      PROVE  UNCHANGED <<wal, ledger, conf>> /\ dead \subseteq dead'
  BY <1>3 DEF Produce, RefuseInvalid, AnswerDuplicate, RefuseConflict, PassDedup, WalRefuse,
              Spill, Enqueue, SendBestEffort, RefuseFull, CountQueued, CountSpilled,
              StrictReply, RecordDeadLetter, disk, told
<1>4. ASSUME NEW p \in Producers, WalAppend(p)
      PROVE  /\ UNCHANGED <<ledger, dead, conf>>
             /\ \E e \in Events : wal' = Append(wal, e)
  BY <1>4 DEF WalAppend, told, TypeInv, Proper
<1>5. ASSUME SealOne, ~SealAppend
      PROVE  UNCHANGED <<wal, ledger, conf>> /\ dead \subseteq dead'
  BY <1>5 DEF SealOne, SealCheckDuplicate, SealCheckConflict, SealCheckFresh, SealRetry,
              SealExhaust, AdvanceWatermark, SealByCount, RecordDeadLetter, SealUnchanged,
              told
<1>6. CASE SealAppend
  BY <1>6 DEF SealAppend, SealUnchanged, told, TypeInv, Proper
<1>7. ASSUME Worker
      PROVE  UNCHANGED <<wal, ledger, dead, conf>>
  BY <1>7 DEF Worker, WorkerRecv, WorkerLock, WorkerUnlock, WorkerUncount, WorkerIdle,
              DrainReadBacklog, DrainReadDepth, DrainLock, DrainScan, DrainReset, DrainNext,
              DrainBatchDone, AgeNotDue, AgeDue, disk, told
<1>8. ASSUME Start \/ Recover \/ Crash \/ FlushBegin \/ Flush \/ ExplicitSeal
               \/ ShutdownBegin \/ DropPipeline \/ Shutdown
      PROVE  UNCHANGED <<wal, ledger, dead, conf>>
  BY <1>8 DEF Start, Recover, RecoverNext, RecoverDone, StartFails, Crash, FlushBegin,
              Flush, FlushReadDepth, FlushReadBacklog, ExplicitSeal, ShutdownBegin,
              DropPipeline, Shutdown, DropSender, ShutdownJoin, disk, told
<1> QED
  BY <1>1, <1>2, <1>3, <1>4, <1>5, <1>6, <1>7, <1>8 DEF Next

\* A record that is settled stays settled.
LEMMA DoneGrows ==
  ASSUME TypeInv, [Next]_vars
  PROVE  Done \subseteq Done'
<1>1. Len(wal) <= Len(wal)' /\ \A t \in 1..Len(wal) : wal'[t] = wal[t]
  BY DiskGrows DEF TypeInv, TypeOK, DiskType
<1>2. Len(ledger) <= Len(ledger)' /\ \A i \in 1..Len(ledger) : ledger'[i] = ledger[i]
  BY DiskGrows DEF TypeInv, TypeOK, DiskType
<1>3. Len(wal) \in Nat /\ Len(ledger) \in Nat /\ Len(wal') \in Nat /\ Len(ledger') \in Nat
  BY TypeStep DEF TypeInv, TypeOK, DiskType
<1>4. dead \subseteq dead'
  BY DiskGrows
<1>5. ASSUME NEW t \in 1..Len(wal), Settled(wal[t])
      PROVE  t \in 1..Len(wal)' /\ Settled(wal[t])'
  <2>1. t \in 1..Len(wal)' /\ wal'[t] = wal[t]
    BY <1>1, <1>3
  <2>2. CASE InLedger(wal[t])
    BY <2>1, <2>2, <1>2, <1>3 DEF Settled, InLedger
  <2>3. CASE Parked(wal[t])
    BY <2>1, <2>3, <1>4 DEF Settled, Parked
  <2> QED
    BY <1>5, <2>1, <2>2, <2>3 DEF Settled
<1> QED
  BY <1>5 DEF Done

\* Neither the marks, nor the queue, nor the hands, nor the batch have changed.
SettleSame ==
    /\ UNCHANGED <<wal, ckpt, applied, queue, todo>>
    /\ seal'.item = seal.item /\ work'.item.seq = work.item.seq
    /\ work'.item.seq > 0 => work'.item = work.item
    /\ seal'.pc \in {"mark", "block", "done"} => seal.pc \in {"mark", "block", "done"}
    /\ phase' = "recovering" => phase = "recovering"
    /\ work'.pc = "replay" => work.pc = "replay"
    /\ phase' \in {"up", "closing", "draining"} /\ backlog' = 0 =>
          /\ phase \in {"up", "closing", "draining"} /\ backlog = 0
          /\ \A p \in Producers : prod[p].pc \in {"dispatch", "backlog"} =>
                prod'[p].pc \in {"dispatch", "backlog"} /\ prod'[p].seq = prod[p].seq
    /\ \A p \in Producers : prod'[p].pc = "dispatch" => prod'[p] = prod[p]

LEMMA SettleFrame ==
  ASSUME Linked, SettleInv, SettleSame, Done \subseteq Done'
  PROVE  Linked' /\ SettleInv'
<1> USE DEF SettleSame
<1>1. Linked'
  BY DEF Linked
<1>2. MarksSettled' /\ HandSettled' /\ BatchSettled'
  BY DEF SettleInv, MarksSettled, HandSettled, BatchSettled
<1>3. \A t, n : InLine(t, n) => InLine(t, n)'
  BY DEF InLine, InHand
<1>4. QueueSettled'
  BY <1>3 DEF SettleInv, QueueSettled
<1>5. NoneMissing'
  BY <1>3 DEF SettleInv, NoneMissing
<1> QED
  BY <1>1, <1>2, <1>4, <1>5 DEF SettleInv

LEMMA SameSubmit ==
  ASSUME TypeInv, ThreadInv, NEW p \in Producers, NEW e \in Events,
         NEW valid \in BOOLEAN, Submit(p, e, valid)
  PROVE  SettleSame
  BY DEF SettleSame, TypeInv, TypeOK, ThreadType, Submit, disk, core, chan

LEMMA SameProduce ==
  ASSUME TypeInv, ThreadInv, NEW p \in Producers,
         \/ RefuseInvalid(p) \/ AnswerDuplicate(p) \/ RefuseConflict(p) \/ PassDedup(p)
         \/ WalRefuse(p) \/ Spill(p) \/ RefuseFull(p) \/ CountQueued(p) \/ CountSpilled(p)
  PROVE  SettleSame
<1> USE DEF SettleSame, TypeInv, TypeOK, CoreType, ThreadType, Calls, CallGoes, Returns,
            NoCall, disk, core, chan
<1>1. CASE RefuseInvalid(p)
  BY <1>1 DEF RefuseInvalid
<1>2. CASE AnswerDuplicate(p)
  BY <1>2 DEF AnswerDuplicate
<1>3. CASE RefuseConflict(p)
  BY <1>3 DEF RefuseConflict
<1>4. CASE PassDedup(p)
  BY <1>4 DEF PassDedup
<1>5. CASE WalRefuse(p)
  BY <1>5 DEF WalRefuse
<1>6. CASE Spill(p)
  BY <1>6 DEF Spill
<1>7. CASE RefuseFull(p)
  BY <1>7 DEF RefuseFull
<1>8. CASE CountQueued(p)
  BY <1>8 DEF CountQueued
<1>9. CASE CountSpilled(p)
  BY <1>9 DEF CountSpilled
<1> QED
  BY <1>1, <1>2, <1>3, <1>4, <1>5, <1>6, <1>7, <1>8, <1>9

LEMMA SameSeal ==
  ASSUME TypeInv, ThreadInv, SealCheckFresh \/ SealRetry \/ SealByCount
  PROVE  SettleSame
<1>1. UNCHANGED <<wal, ckpt, applied, queue, todo, work, phase, backlog, prod>>
  BY DEF SealCheckFresh, SealRetry, SealByCount, SealUnchanged, chan, threads
<1>2. /\ seal'.item = seal.item
      /\ seal'.pc \in {"mark", "block", "done"} => seal.pc \in {"mark", "block", "done"}
  BY DEF SealCheckFresh, SealRetry, SealByCount, SealGoes, SealEnds, SealTries
<1> QED
  BY <1>1, <1>2 DEF SettleSame

LEMMA SameWorker ==
  ASSUME TypeInv, ThreadInv,
         \/ WorkerUncount \/ WorkerIdle \/ DrainReadBacklog \/ DrainReadDepth \/ DrainLock
         \/ AgeNotDue \/ AgeDue
  PROVE  SettleSame
<1>1. /\ UNCHANGED <<wal, ckpt, applied, queue, todo, seal, phase, backlog, prod>>
      /\ work'.pc \notin {"replay"}
  BY DEF WorkerUncount, WorkerIdle, DrainReadBacklog, DrainReadDepth, DrainLock, AgeNotDue,
         AgeDue, WorkerGoes, AfterDrain, disk, core, chan
<1>2. work'.item.seq = work.item.seq /\ (work'.item.seq > 0 => work'.item = work.item)
  BY DEF WorkerUncount, WorkerIdle, DrainReadBacklog, DrainReadDepth, DrainLock, AgeNotDue,
         AgeDue, WorkerGoes, NoItem, ThreadInv, LockInv
<1> QED
  BY <1>1, <1>2 DEF SettleSame

LEMMA SameLife ==
  ASSUME TypeInv, ThreadInv,
         FlushBegin \/ Flush \/ ExplicitSeal \/ ShutdownBegin \/ DropPipeline \/ DropSender
  PROVE  SettleSame
  BY DEF SettleSame, FlushBegin, Flush, FlushReadDepth, FlushReadBacklog, ExplicitSeal,
         ShutdownBegin, DropPipeline, DropSender, disk, core, chan, threads

-----------------------------------------------------------------------------
(* The steps that move records *)

\* A start, a crash and a join leave nothing but the disk.
LEMMA SettleReset ==
  ASSUME TypeInv, SettleInv, Done \subseteq Done', ResetMemory, UNCHANGED <<wal, ckpt>>,
         phase' \in {"down", "stopped"}
  PROVE  Linked' /\ SettleInv'
  BY DEF ResetMemory, Linked, SettleInv, MarksSettled, HandSettled, BatchSettled,
         QueueSettled, NoneMissing, NoSeal, NoItem, NoWork, NoCall

LEMMA SettleStart ==
  ASSUME TypeInv, ThreadInv, Linked, SettleInv, Done \subseteq Done', Start
  PROVE  Linked' /\ SettleInv'
<1>1. /\ UNCHANGED <<wal, ckpt, seal, queue, prod, work>> /\ phase' = "recovering"
      /\ todo' = [from |-> ckpt + 1, to |-> Len(wal)] /\ seal.pc = "none"
  BY DEF Start, PendingAbove, disk, chan, threads, ThreadInv, Asleep
<1>2. Linked' /\ QueueSettled' /\ NoneMissing'
  BY <1>1 DEF Linked, SettleInv, QueueSettled, NoneMissing, InLine, InHand
<1>3. HandSettled' /\ BatchSettled'
  BY <1>1 DEF SettleInv, MarksSettled, HandSettled, BatchSettled, TypeInv, TypeOK, DiskType
<1>4. 1..applied' \subseteq Done'
  <2>1. CASE ckpt < Len(wal)
    BY <1>1, <2>1 DEF Start, SettleInv, MarksSettled
  <2>2. CASE ~(ckpt < Len(wal))
    BY <1>1, <2>2 DEF Start, SettleInv, MarksSettled, TypeInv, TypeOK, DiskType, Bounded
  <2> QED
    BY <2>1, <2>2
<1> QED
  BY <1>1, <1>2, <1>3, <1>4 DEF SettleInv, MarksSettled

\* The new record is the only one that nobody handles yet, and its append holds
\* the lock; a strict append has found every earlier record settled.
LEMMA SettleWalAppend ==
  ASSUME TypeInv, TypeInv', ThreadInv, ThreadInv', Linked, SettleInv, Done \subseteq Done',
         NEW p \in Producers, WalAppend(p)
  PROVE  Linked' /\ SettleInv'
<1>1. /\ Len(wal') = Len(wal) + 1 /\ wal'[Len(wal) + 1] = prod[p].ev
      /\ \A t \in 1..Len(wal) : wal'[t] = wal[t]
      /\ Len(wal) \in Nat
  BY DEF WalAppend, TypeInv, TypeOK, DiskType, Proper
<1>2. /\ UNCHANGED <<ckpt, applied, queue, todo, backlog, phase, work, conf>>
      /\ lock = p /\ conf.mode # "best_effort"
      /\ phase # "recovering" /\ work.pc \notin {"replay", "seal"}
  BY NullAssumption DEF WalAppend, chan, told, ThreadInv, LockInv, ModeInv, UsesWal
<1>3. /\ \A q \in Producers : q # p => prod'[q] = prod[q]
      /\ \A q \in Producers : prod[q].pc # "dispatch"
      /\ prod'[p].seq = Len(wal) + 1 /\ prod'[p].ev = prod[p].ev
      /\ prod[p].pc = "wal"
  <2>1. \A q \in Producers : prod[q].pc = "dispatch" => lock = q
    BY DEF ThreadInv, LockInv
  <2> QED
    BY <1>2, <2>1 DEF WalAppend, TypeInv, TypeOK, ThreadType
<1>4. seal.pc = "none" /\ seal.item.seq = 0
  BY <1>2, <1>3 DEF ThreadInv, LockInv
<1>5. phase \in {"up", "closing", "draining"}
  BY <1>3 DEF ThreadInv, Asleep, TypeInv, TypeOK, CoreType
<1>6. CASE conf.mode = "strict"
  <2>1. /\ seal' = StartSeal(Len(wal) + 1, prod[p].ev)
        /\ prod'[p].pc = "seal"
        /\ queue = <<>> /\ backlog = 0 /\ work.item.seq = 0
        /\ \A q \in Producers : prod[q].pc \notin {"dispatch", "backlog"}
    BY <1>6 DEF WalAppend, ThreadInv, ModeInv, LockInv, TypeInv, TypeOK, ThreadType
  <2>2. 1..Len(wal) \subseteq Done
    BY <1>4, <1>5, <2>1 DEF SettleInv, NoneMissing, InLine, InHand
  <2>3. Linked'
    BY <1>1, <1>2, <1>3, <2>1 DEF Linked, StartSeal
  <2>4. MarksSettled' /\ HandSettled'
    BY <1>1, <1>2, <2>1, <2>2 DEF SettleInv, MarksSettled, HandSettled, StartSeal
  <2>5. BatchSettled' /\ QueueSettled'
    BY <1>2, <2>1 DEF BatchSettled, QueueSettled
  <2>6. NoneMissing'
    <3>1. seal'.item.seq = Len(wal) + 1 /\ Len(wal)' = Len(wal) + 1 /\ Len(wal) \in Nat
      BY <1>1, <2>1 DEF StartSeal
    <3>2. \A t \in 1..Len(wal)' : t \in 1..Len(wal) \/ t = seal'.item.seq
      BY <3>1
    <3>3. \A t \in 1..Len(wal)' : t \in Done' \/ t = seal'.item.seq
      BY <1>1, <2>2, <3>2
    <3> QED
      BY <3>3 DEF NoneMissing, InLine, InHand
  <2> QED
    BY <2>3, <2>4, <2>5, <2>6 DEF SettleInv
<1>7. CASE conf.mode # "strict"
  <2>1. seal' = seal /\ prod'[p].pc = "dispatch"
    BY <1>7 DEF WalAppend, TypeInv, TypeOK, ThreadType
  <2>2. Linked'
    <3>1. \A i \in 1..Len(queue) : queue[i].seq \in Nat /\ queue[i].seq <= Len(wal)
      BY QueueItems DEF TypeInv, TypeOK, CoreType, Bounded
    <3>2. work.item.seq \in Nat /\ work.item.seq <= Len(wal)
      BY DEF TypeInv, TypeOK, ThreadType, Works, Items, Bounded
    <3>3. seal'.item.seq = 0
      BY <1>4, <2>1
    <3>4. work'.item.seq > 0 => wal'[work'.item.seq] = work'.item.ev
      BY <1>1, <1>2, <3>2 DEF Linked
    <3>5. \A i \in 1..Len(queue') : queue'[i].seq > 0 => wal'[queue'[i].seq] = queue'[i].ev
      BY <1>1, <1>2, <3>1 DEF Linked
    <3>6. \A q \in Producers : prod'[q].pc = "dispatch" =>
             prod'[q].seq = Len(wal') /\ wal'[Len(wal')] = prod'[q].ev
      BY <1>1, <1>3
    <3> QED
      BY <3>3, <3>4, <3>5, <3>6 DEF Linked
  <2>3. MarksSettled' /\ HandSettled' /\ BatchSettled'
    BY <1>2, <1>4, <2>1 DEF SettleInv, MarksSettled, HandSettled, BatchSettled
  <2>4. \A t, n : InLine(t, n) => InLine(t, n)'
    BY <1>2, <2>1 DEF InLine, InHand
  <2>5. QueueSettled'
    BY <1>2, <2>4 DEF SettleInv, QueueSettled
  <2>6. NoneMissing'
    BY <1>1, <1>2, <1>3, <1>5, <2>1, <2>4 DEF SettleInv, NoneMissing
  <2> QED
    BY <2>2, <2>3, <2>5, <2>6 DEF SettleInv
<1> QED
  BY <1>6, <1>7

\* An event enters the queue behind everything that is not settled yet.
LEMMA SettleEnqueue ==
  ASSUME TypeInv, TypeInv', ThreadInv, Linked, SettleInv, Done \subseteq Done',
         NEW p \in Producers, Enqueue(p)
  PROVE  Linked' /\ SettleInv'
<1> DEFINE it == [seq |-> prod[p].seq, ev |-> prod[p].ev]
<1>1. /\ Len(queue') = Len(queue) + 1 /\ queue'[Len(queue) + 1] = it
      /\ \A i \in 1..Len(queue) : queue'[i] = queue[i]
      /\ Len(queue) \in Nat /\ backlog = 0
  <2>1. queue' = Append(queue, it) /\ it \in Items
    BY DEF Enqueue, TypeInv, TypeOK, ThreadType, Calls, Items
  <2>2. backlog = 0
    BY DEF Enqueue, Spills, TypeInv, TypeOK, CoreType
  <2> QED
    BY <2>1, <2>2, QueueAppend DEF TypeInv, TypeOK, CoreType
<1>2. /\ UNCHANGED <<wal, ckpt, applied, seal, todo, phase, work, backlog>>
      /\ \A q \in Producers : q # p => prod'[q] = prod[q]
      /\ prod[p].pc = "dispatch" /\ prod'[p].pc = "depth"
  BY DEF Enqueue, CallGoes, disk, core, TypeInv, TypeOK, ThreadType
<1>3. phase \in {"up", "closing", "draining"} /\ lock = p
  BY <1>2 DEF ThreadInv, Asleep, LockInv, TypeInv, TypeOK, CoreType
<1>4. \A q \in Producers : prod[q].pc \in {"dispatch", "backlog"} => q = p
  BY <1>3 DEF ThreadInv, LockInv
<1>5. it.seq = Len(wal) /\ wal[Len(wal)] = it.ev
  BY <1>2 DEF Linked
<1>6. Linked'
  BY <1>1, <1>2, <1>5 DEF Linked
<1>7. MarksSettled' /\ HandSettled' /\ BatchSettled'
  BY <1>2 DEF SettleInv, MarksSettled, HandSettled, BatchSettled
<1>8. \A t : \A n \in 0..Len(queue) : InLine(t, n) => InLine(t, n)'
  BY <1>1, <1>2 DEF InLine, InHand
<1>9. \A t \in 1..Len(wal) : InLine(t, Len(queue)) \/ t = Len(wal)
  BY <1>1, <1>3, <1>4, <1>5 DEF SettleInv, NoneMissing
<1>10. QueueSettled'
  <2> SUFFICES ASSUME NEW i \in 1..Len(queue)', NEW t \in 1..(queue'[i].seq - 1)
               PROVE  InLine(t, i - 1)'
    BY DEF QueueSettled
  <2>1. CASE i \in 1..Len(queue)
    BY <2>1, <1>1, <1>8 DEF SettleInv, QueueSettled
  <2>2. CASE i = Len(queue) + 1
    <3>1. t \in 1..Len(wal) /\ t # Len(wal)
      BY <2>2, <1>1, <1>5, <1>2 DEF TypeInv, TypeOK, DiskType
    <3> QED
      BY <2>2, <3>1, <1>1, <1>8, <1>9
  <2> QED
    BY <2>1, <2>2, <1>1
<1>11. NoneMissing'
  <2> SUFFICES ASSUME NEW t \in 1..Len(wal)
               PROVE  InHand(t)' \/ \E j \in 1..Len(queue') : queue'[j].seq = t
    BY <1>2 DEF NoneMissing, InLine
  <2>1. CASE t = Len(wal)
    BY <2>1, <1>1, <1>5
  <2>2. CASE InLine(t, Len(queue))
    BY <2>2, <1>1, <1>2 DEF InLine, InHand
  <2> QED
    BY <2>1, <2>2, <1>9
<1> QED
  BY <1>6, <1>7, <1>10, <1>11 DEF SettleInv

\* A best-effort event has no record in the WAL, and there is none.
LEMMA SettleBestEffort ==
  ASSUME TypeInv, TypeInv', ThreadInv, Linked, SettleInv, Done \subseteq Done',
         NEW p \in Producers, SendBestEffort(p)
  PROVE  Linked' /\ SettleInv'
<1> DEFINE it == [seq |-> 0, ev |-> prod[p].ev]
<1>1. /\ Len(queue') = Len(queue) + 1 /\ queue'[Len(queue) + 1] = it
      /\ \A i \in 1..Len(queue) : queue'[i] = queue[i]
      /\ Len(queue) \in Nat
  <2>1. queue' = Append(queue, it) /\ it \in Items
    BY DEF SendBestEffort, TypeInv, TypeOK, ThreadType, Calls, Items
  <2> QED
    BY <2>1, QueueAppend DEF TypeInv, TypeOK, CoreType
<1>2. /\ UNCHANGED <<wal, ckpt, applied, seal, todo, phase, work, backlog>>
      /\ \A q \in Producers : q # p => prod'[q] = prod[q]
      /\ prod'[p].pc = "depth" /\ wal = <<>>
  BY DEF SendBestEffort, CallGoes, disk, core, TypeInv, TypeOK, ThreadType, ThreadInv,
         ModeInv
<1>3. Linked' /\ MarksSettled' /\ HandSettled' /\ BatchSettled'
  BY <1>1, <1>2 DEF Linked, SettleInv, MarksSettled, HandSettled, BatchSettled
<1>4. NoneMissing'
  BY <1>2 DEF NoneMissing
<1>5. \A i \in 1..Len(queue') : queue'[i].seq = 0
  <2>1. \A i \in 1..Len(queue) : queue[i].seq \in Nat /\ queue[i].seq <= 0
    BY <1>2, QueueItems DEF TypeInv, TypeOK, CoreType, Bounded
  <2> QED
    BY <1>1, <2>1
<1>6. QueueSettled'
  BY <1>5 DEF QueueSettled
<1> QED
  BY <1>3, <1>4, <1>6 DEF SettleInv

\* A strict append returns for a record that is settled or failed; either way
\* nothing was queued behind it.
LEMMA SettleStrictReply ==
  ASSUME TypeInv, ThreadInv, Linked, SettleInv, Done \subseteq Done',
         NEW p \in Producers, StrictReply(p)
  PROVE  Linked' /\ SettleInv'
<1>1. /\ UNCHANGED <<wal, ckpt, applied, queue, todo, phase, work, backlog>>
      /\ \A q \in Producers : q # p => prod'[q] = prod[q]
      /\ prod[p].pc = "seal" /\ prod'[p].pc = "idle"
      /\ seal'.item.seq = 0 /\ seal'.pc = "none" /\ seal.pc = "done"
  BY DEF StrictReply, Returns, NoCall, NoSeal, NoItem, disk, chan, TypeInv, TypeOK,
         ThreadType
<1>2. queue = <<>> /\ lock = p /\ phase # "recovering" /\ work.pc = "none"
  BY <1>1, NullAssumption DEF ThreadInv, ModeInv, LockInv
<1>3. 1..seal.item.seq \subseteq Done
  BY <1>1 DEF SettleInv, HandSettled
<1>4. Linked' /\ MarksSettled' /\ HandSettled' /\ BatchSettled' /\ QueueSettled'
  BY <1>1, <1>2 DEF Linked, SettleInv, MarksSettled, HandSettled, BatchSettled,
                    QueueSettled
<1>5. NoneMissing'
  BY <1>1, <1>2, <1>3 DEF SettleInv, NoneMissing, InLine, InHand, TypeInv, TypeOK,
                          ThreadType, Seals, Items
<1> QED
  BY <1>4, <1>5 DEF SettleInv

\* The record in seal_one's hand reaches a terminal state.
LEMMA SettleSeals ==
  ASSUME TypeInv, ThreadInv, Linked, SettleInv, Lossless, Done \subseteq Done',
         SealCheckDuplicate \/ SealCheckConflict \/ SealExhaust \/ SealAppend, OnceInv
  PROVE  Linked' /\ SettleInv'
<1>1. UNCHANGED <<wal, ckpt, applied, queue, todo, work, phase, backlog, prod>>
  BY DEF SealCheckDuplicate, SealCheckConflict, SealExhaust, SealAppend, SealUnchanged, chan,
         threads
<1>2. seal'.item = seal.item
  <2>1. \E pc \in SealPcs, res \in Results : SealGoes(pc, res)
    BY DEF SealCheckDuplicate, SealCheckConflict, SealExhaust, SealAppend, SealEnds, SealPcs,
           Results
  <2> QED
    BY <2>1 DEF SealGoes
<1>3. Settled(seal.item.ev)'
  <2>1. CASE SealCheckDuplicate
    <3>1. /\ seal.item.ev \in Events /\ phase \notin {"down", "stopped"}
          /\ dedup[seal.item.ev.id] = seal.item.ev.hash
      BY <2>1 DEF SealCheckDuplicate, TypeInv, Proper, ThreadInv, Asleep
    <3>2. /\ seal.item.ev.id \in EventIds /\ seal.item.ev.hash # NoHash
          /\ seal.item.ev = [id |-> seal.item.ev.id, hash |-> seal.item.ev.hash]
      BY <3>1, NullAssumption DEF Events
    <3>3. InLedger(seal.item.ev)
      BY <3>1, <3>2 DEF OnceInv, DedupAgrees
    <3> QED
      BY <2>1, <3>3, <1>2 DEF SealCheckDuplicate, Settled, InLedger
  <2>2. CASE SealCheckConflict \/ SealExhaust
    <3>1. \E r \in {"conflict", "exhausted"} : [ev |-> seal.item.ev, reason |-> r] \in dead'
      BY <2>2 DEF SealCheckConflict, SealExhaust, RecordDeadLetter, Lossless
    <3> QED
      BY <3>1, <1>2 DEF Settled, Parked, Reasons
  <2>3. CASE SealAppend
    <3>1. ledger'[Len(ledger) + 1] = seal.item.ev /\ Len(ledger') = Len(ledger) + 1
          /\ Len(ledger) \in Nat
      BY <2>3 DEF SealAppend, TypeInv, TypeOK, DiskType, Proper
    <3> QED
      BY <3>1, <1>2 DEF Settled, InLedger
  <2> QED
    BY <2>1, <2>2, <2>3
<1>4. 1..seal.item.seq \subseteq Done'
  <2>1. seal.item.seq \in Nat /\ seal.item.seq <= Len(wal) /\ Len(wal) \in Nat
    BY DEF TypeInv, TypeOK, DiskType, ThreadType, Seals, Items, Bounded
  <2>2. seal.item.seq > 0 => seal.item.seq \in Done'
    BY <1>1, <1>2, <1>3, <2>1 DEF Linked, Done
  <2> QED
    BY <2>1, <2>2 DEF SettleInv, HandSettled
<1>5. Linked' /\ MarksSettled' /\ HandSettled' /\ BatchSettled'
  BY <1>1, <1>2, <1>4 DEF Linked, SettleInv, MarksSettled, HandSettled, BatchSettled
<1>6. \A t, n : InLine(t, n) => InLine(t, n)'
  BY <1>1, <1>2 DEF InLine, InHand
<1>7. QueueSettled' /\ NoneMissing'
  BY <1>1, <1>6 DEF SettleInv, QueueSettled, NoneMissing
<1> QED
  BY <1>5, <1>7 DEF SettleInv

-----------------------------------------------------------------------------
\* The watermark and the checkpoint move to the record seal_one settled.
LEMMA SettleAdvance ==
  ASSUME TypeInv, ThreadInv, Linked, SettleInv, Done \subseteq Done', AdvanceWatermark
  PROVE  Linked' /\ SettleInv'
<1>1. UNCHANGED <<wal, queue, todo, work, phase, backlog, prod>>
  BY DEF AdvanceWatermark, SealUnchanged, chan, threads
<1>2. seal'.item = seal.item /\ seal.pc = "mark"
  BY DEF AdvanceWatermark, SealGoes, SealEnds
<1>3. 1..seal.item.seq \subseteq Done
  BY <1>2 DEF SettleInv, HandSettled
<1>4. applied' \in {applied, seal.item.seq} /\ ckpt' \in {ckpt, seal.item.seq}
  BY DEF AdvanceWatermark, MaxOf
<1>5. Linked' /\ MarksSettled' /\ HandSettled' /\ BatchSettled'
  BY <1>1, <1>2, <1>3, <1>4 DEF Linked, SettleInv, MarksSettled, HandSettled, BatchSettled
<1>6. \A t, n : InLine(t, n) => InLine(t, n)'
  BY <1>1, <1>2 DEF InLine, InHand
<1>7. QueueSettled' /\ NoneMissing'
  BY <1>1, <1>6 DEF SettleInv, QueueSettled, NoneMissing
<1> QED
  BY <1>5, <1>7 DEF SettleInv

\* While the worker is idle nobody seals, or there is no queue.
LEMMA SealIdle ==
  ASSUME TypeInv, ThreadInv, work.pc \in {"idle", "lock"}
  PROVE  seal.pc = "none"
<1>1. phase # "recovering" /\ conf.mode # "strict"
  BY DEF ThreadInv, Asleep, ModeInv
<1>2. \A p \in Producers : prod[p].pc # "seal"
  BY <1>1 DEF ThreadInv, ModeInv
<1>3. lock # "start" /\ (lock = "worker" => seal.pc = "none")
  BY <1>1 DEF ThreadInv, LockInv
<1>4. seal.pc = "none"
  BY <1>2, <1>3 DEF ThreadInv, LockInv, TypeInv, TypeOK, CoreType
<1> QED
  BY <1>4

\* The worker takes the head of the line in its hand.
LEMMA SettleRecv ==
  ASSUME TypeInv, TypeInv', ThreadInv, Linked, SettleInv, Done \subseteq Done', WorkerRecv
  PROVE  Linked' /\ SettleInv'
<1>1. /\ queue # <<>> /\ work'.item = queue[1] /\ work'.pc = "lock"
      /\ Len(queue) \in Nat /\ Len(queue') = Len(queue) - 1 /\ Len(queue) >= 1
      /\ \A i \in 1..Len(queue') : queue'[i] = queue[i + 1]
  BY QueueHead DEF WorkerRecv, TypeInv, TypeOK, CoreType
<1>2. /\ UNCHANGED <<wal, ckpt, applied, seal, todo, phase, backlog, prod>>
      /\ work.item.seq = 0
  BY DEF WorkerRecv, disk, core, ThreadInv, LockInv
<1>3. Linked'
  BY <1>1, <1>2 DEF Linked
<1>4. \A i \in 1..Len(queue) : \A t \in 1..(queue[i].seq - 1) : InLine(t, i - 1)
  BY DEF SettleInv, QueueSettled
<1>5. seal.item.seq = 0
  BY <1>1, SealIdle DEF WorkerRecv, ThreadInv, LockInv
<1>6. 1..(queue[1].seq - 1) \subseteq Done
  BY <1>1, <1>2, <1>4, <1>5 DEF InLine, InHand
<1>7. MarksSettled' /\ HandSettled' /\ BatchSettled'
  BY <1>1, <1>2, <1>5, <1>6 DEF SettleInv, MarksSettled, HandSettled, BatchSettled
<1>8. ASSUME NEW n \in 1..Len(queue), NEW t \in 1..Len(wal), InLine(t, n)
      PROVE  InHand(t)' \/ \E j \in 1..(n - 1) : queue'[j].seq = t
  <2>1. CASE InHand(t)
    BY <2>1, <1>2, <1>5 DEF InHand
  <2>2. CASE \E j \in 1..n : queue[j].seq = t
    <3>1. PICK j \in 1..n : queue[j].seq = t
      BY <2>2
    <3>2. CASE j = 1
      BY <3>1, <3>2, <1>1 DEF InHand
    <3>3. CASE j # 1
      <4>1. j - 1 \in 1..(n - 1) /\ j - 1 \in 1..Len(queue') /\ queue'[j - 1] = queue[j]
        BY <3>3, <1>1
      <4> QED
        BY <3>1, <4>1
    <3> QED
      BY <3>2, <3>3
  <2> QED
    BY <1>8, <2>1, <2>2 DEF InLine
<1>9. QueueSettled'
  <2> SUFFICES ASSUME NEW i \in 1..Len(queue'), NEW t \in 1..(queue'[i].seq - 1)
               PROVE  InHand(t)' \/ \E j \in 1..(i - 1) : queue'[j].seq = t
    BY DEF QueueSettled, InLine
  <2>1. i + 1 \in 1..Len(queue) /\ queue'[i] = queue[i + 1]
    BY <1>1
  <2>2. InLine(t, (i + 1) - 1)
    BY <2>1, <1>4
  <2>3. queue[i + 1].seq \in Nat /\ queue[i + 1].seq <= Len(wal) /\ Len(wal) \in Nat
    <3>1. queue \in Seq(Items) /\ Len(wal) \in Nat
      BY DEF TypeInv, TypeOK, CoreType, DiskType
    <3> QED
      BY <2>1, <3>1, QueueItems DEF TypeInv, Bounded
  <2>4. t \in 1..Len(wal) /\ i \in 1..Len(queue) /\ (i + 1) - 1 = i
    BY <2>1, <2>3, <1>1
  <2> QED
    BY <2>2, <2>4, <1>8
<1>10. NoneMissing'
  <2> SUFFICES ASSUME phase \in {"up", "closing", "draining"}, backlog = 0,
                      NEW t \in 1..Len(wal)
               PROVE  \/ InHand(t)' \/ \E j \in 1..Len(queue') : queue'[j].seq = t
                      \/ \E p \in Producers :
                           prod[p].pc \in {"dispatch", "backlog"} /\ prod[p].seq = t
    BY <1>2 DEF NoneMissing, InLine
  <2>1. CASE InLine(t, Len(queue))
    BY <2>1, <1>1, <1>8
  <2> QED
    BY <2>1 DEF SettleInv, NoneMissing
<1> QED
  BY <1>3, <1>7, <1>9, <1>10 DEF SettleInv

\* The worker drops a record that seal_one is done with.
LEMMA SettleUnlock ==
  ASSUME TypeInv, ThreadInv, Linked, SettleInv, Done \subseteq Done', WorkerUnlock
  PROVE  Linked' /\ SettleInv'
<1>1. /\ UNCHANGED <<wal, ckpt, applied, queue, todo, phase, backlog, prod>>
      /\ work'.pc = "sub" /\ work'.item.seq = 0 /\ seal'.item.seq = 0
      /\ seal'.pc = "none"
  BY DEF WorkerUnlock, NoSeal, NoItem, disk, chan
<1>2. work.item.seq = seal.item.seq /\ seal.pc = "done" /\ phase # "recovering"
  BY DEF WorkerUnlock, ThreadInv, LockInv, Asleep
<1>3. 1..seal.item.seq \subseteq Done
  BY <1>2 DEF SettleInv, HandSettled
<1>4. Linked' /\ MarksSettled' /\ HandSettled' /\ BatchSettled'
  BY <1>1, <1>2 DEF Linked, SettleInv, MarksSettled, HandSettled, BatchSettled
<1>5. \A n : \A t \in Nat \ {0} : InLine(t, n) => InLine(t, n)'
  BY <1>1, <1>2, <1>3 DEF InLine, InHand, TypeInv, TypeOK, ThreadType, Seals, Items
<1>6. QueueSettled'
  BY <1>1, <1>5 DEF SettleInv, QueueSettled
<1>7. NoneMissing'
  BY <1>1, <1>5 DEF SettleInv, NoneMissing
<1> QED
  BY <1>4, <1>6, <1>7 DEF SettleInv

LEMMA SettleLock ==
  ASSUME TypeInv, ThreadInv, Linked, SettleInv, Done \subseteq Done', WorkerLock
  PROVE  Linked' /\ SettleInv'
<1>1. /\ UNCHANGED <<wal, ckpt, applied, queue, todo, phase, backlog, prod>>
      /\ work'.pc = "seal" /\ work'.item = work.item /\ seal'.item = work.item
      /\ seal'.pc = "check" /\ seal.item.seq = 0 /\ phase # "recovering"
  BY DEF WorkerLock, WorkerGoes, StartSeal, disk, chan, ThreadInv, LockInv, Asleep,
         TypeInv, TypeOK, ThreadType, Works, Items
<1>2. Linked' /\ MarksSettled' /\ HandSettled' /\ BatchSettled'
  BY <1>1 DEF Linked, SettleInv, MarksSettled, HandSettled, BatchSettled
<1>3. \A n : \A t \in Nat \ {0} : InLine(t, n) => InLine(t, n)'
  BY <1>1 DEF InLine, InHand
<1>4. QueueSettled' /\ NoneMissing'
  BY <1>1, <1>3 DEF SettleInv, QueueSettled, NoneMissing
<1> QED
  BY <1>2, <1>4 DEF SettleInv

\* A scan starts above the watermark; an empty one proves that nothing is left.
LEMMA SettleScan ==
  ASSUME TypeInv, ThreadInv, Linked, SettleInv, Done \subseteq Done', Lossless,
         DrainScan \/ DrainReset
  PROVE  Linked' /\ SettleInv'
<1>1. /\ UNCHANGED <<wal, ckpt, applied, queue, seal, phase, prod>>
      /\ work'.item = work.item /\ phase # "recovering"
  <2>1. UNCHANGED <<wal, ckpt, applied, queue, seal, phase, prod>> /\ work.pc = "scan"
    BY DEF DrainScan, DrainReset, disk, core, chan
  <2>2. work'.item = work.item
    BY DEF DrainScan, DrainReset, WorkerGoes
  <2> QED
    BY <2>1, <2>2 DEF ThreadInv, Asleep
<1>2. 1..Watermark \subseteq Done
  BY DEF SettleInv, MarksSettled, Watermark, MaxOf
<1>3. Linked' /\ MarksSettled' /\ HandSettled'
  BY <1>1 DEF Linked, SettleInv, MarksSettled, HandSettled
<1>4. \A t, n : InLine(t, n) => InLine(t, n)'
  BY <1>1 DEF InLine, InHand
<1>5. QueueSettled'
  BY <1>1, <1>4 DEF SettleInv, QueueSettled
<1>6. CASE DrainScan
  <2>1. /\ todo'.from = Watermark + 1 /\ backlog' = backlog
    BY <1>6 DEF DrainScan, PendingAbove, chan
  <2>2. BatchSettled'
    BY <1>1, <1>2, <2>1 DEF BatchSettled, Watermark, MaxOf, TypeInv, TypeOK, DiskType,
                            CoreType
  <2>3. NoneMissing'
    BY <1>1, <1>4, <2>1 DEF SettleInv, NoneMissing
  <2> QED
    BY <1>3, <1>5, <2>2, <2>3 DEF SettleInv
<1>7. CASE DrainReset
  <2>1. Watermark >= Len(wal)
    BY <1>7 DEF DrainReset, Lossless
  <2>2. 1..Len(wal) \subseteq Done
    BY <1>2, <2>1 DEF Watermark, MaxOf, TypeInv, TypeOK, DiskType, CoreType
  <2>3. BatchSettled' /\ NoneMissing'
    BY <1>1, <1>7, <2>2 DEF DrainReset, WorkerGoes, AfterDrain, BatchSettled, NoneMissing,
                            InLine, InHand
  <2> QED
    BY <1>3, <1>5, <2>3 DEF SettleInv
<1> QED
  BY <1>6, <1>7

\* The next record of a batch has only settled records before it.
LEMMA SettleNext ==
  ASSUME TypeInv, TypeInv', ThreadInv, Linked, SettleInv, Done \subseteq Done',
         DrainNext \/ RecoverNext
  PROVE  Linked' /\ SettleInv'
<1>1. /\ UNCHANGED <<wal, ckpt, applied, queue, phase, prod, work, backlog>>
      /\ TakeRecord /\ seal.pc \in {"none", "done"}
      /\ phase = "recovering" \/ work.pc = "replay"
  BY DEF DrainNext, RecoverNext, Replaying, disk, chan, threads
<1>2. /\ seal'.item.seq = todo.from /\ seal'.item.ev = wal[todo.from]
      /\ seal'.pc = "check" /\ todo'.from = todo.from + 1 /\ todo'.to = todo.to
      /\ todo.from <= todo.to /\ todo.from \in Nat
  BY <1>1 DEF TakeRecord, StartSeal, TypeInv, TypeOK, CoreType
<1>3. seal.pc = "none" => seal.item.seq = 0
  BY DEF ThreadInv, LockInv
<1>4. seal.item.seq > 0 => seal.item.seq \in Done
  BY <1>1, <1>3 DEF SettleInv, HandSettled, TypeInv, TypeOK, ThreadType, Seals, Items
<1>5. 1..(todo.from - 1) \subseteq Done
  BY <1>1, <1>4 DEF SettleInv, BatchSettled
<1>6. Linked' /\ MarksSettled' /\ HandSettled' /\ BatchSettled'
  BY <1>1, <1>2, <1>5 DEF Linked, SettleInv, MarksSettled, HandSettled, BatchSettled
<1>7. \A n : \A t \in Nat \ {0} : InLine(t, n) => InLine(t, n)'
  BY <1>1, <1>4 DEF InLine, InHand
<1>8. QueueSettled' /\ NoneMissing'
  BY <1>1, <1>7 DEF SettleInv, QueueSettled, NoneMissing
<1> QED
  BY <1>6, <1>8 DEF SettleInv

\* After the last record of a batch the hand is empty; recovery has then settled
\* the whole WAL.
LEMMA SettleBatchDone ==
  ASSUME TypeInv, ThreadInv, Linked, SettleInv, Done \subseteq Done',
         DrainBatchDone \/ RecoverDone
  PROVE  Linked' /\ SettleInv'
<1>1. /\ UNCHANGED <<wal, ckpt, applied, queue, prod, backlog>>
      /\ seal.pc \in {"none", "done"} /\ seal'.pc = "none" /\ seal'.item.seq = 0
      /\ todo.from > todo.to /\ phase' # "recovering" /\ work'.pc # "replay"
      /\ work.item.seq = 0 /\ work'.item.seq = 0
  <2>1. CASE DrainBatchDone
    BY <2>1 DEF DrainBatchDone, NoMoreRecords, NoSeal, NoItem, WorkerGoes, ThreadInv, Asleep,
                LockInv, disk, chan
  <2>2. CASE RecoverDone
    BY <2>2 DEF RecoverDone, Replaying, NoMoreRecords, NoSeal, NoItem, ThreadInv, Asleep,
                LockInv, disk, chan
  <2> QED
    BY <2>1, <2>2
<1>2. seal.item.seq > 0 => seal.item.seq \in Done
  BY <1>1 DEF ThreadInv, LockInv, SettleInv, HandSettled, TypeInv, TypeOK, ThreadType, Seals,
              Items
<1>3. Linked' /\ MarksSettled' /\ HandSettled' /\ BatchSettled'
  BY <1>1 DEF Linked, SettleInv, MarksSettled, HandSettled, BatchSettled
<1>4. \A n : \A t \in Nat \ {0} : InLine(t, n) => InLine(t, n)'
  BY <1>1, <1>2 DEF InLine, InHand
<1>5. QueueSettled'
  BY <1>1, <1>4 DEF SettleInv, QueueSettled
<1>6. CASE DrainBatchDone
  BY <1>1, <1>3, <1>4, <1>5, <1>6 DEF DrainBatchDone, SettleInv, NoneMissing
<1>7. CASE RecoverDone
  <2>1. phase = "recovering" /\ Len(wal) < todo.from
    BY <1>1, <1>7 DEF RecoverDone, Replaying, SettleInv, BatchSettled, TypeInv, TypeOK,
                      CoreType, DiskType
  <2>2. 1..Len(wal) \subseteq Done
    <3>1. \A t \in 1..(todo.from - 1) : t \in Done \/ t = seal.item.seq
      BY <2>1 DEF SettleInv, BatchSettled
    <3>2. todo.from \in Nat /\ Len(wal) \in Nat
      BY DEF TypeInv, TypeOK, CoreType, DiskType
    <3>3. SUFFICES ASSUME NEW t \in 1..Len(wal)
                   PROVE  t \in Done
      OBVIOUS
    <3>4. t \in 1..(todo.from - 1) /\ t > 0
      BY <2>1, <3>2
    <3> QED
      BY <1>2, <3>1, <3>4
  <2>3. NoneMissing'
    BY <1>1, <2>2 DEF NoneMissing, InLine, InHand
  <2> QED
    BY <1>3, <1>5, <2>3 DEF SettleInv
<1> QED
  BY <1>6, <1>7

-----------------------------------------------------------------------------
LEMMA SettleStep ==
  ASSUME TypeInv, ThreadInv, OnceInv, Lossless, Linked, SettleInv, [Next]_vars
  PROVE  Linked' /\ SettleInv'
<1>1. TypeInv' /\ ThreadInv' /\ Done \subseteq Done'
  BY TypeStep, ThreadStep, DoneGrows
<1>2. CASE UNCHANGED vars
  BY <1>1, <1>2, SettleFrame DEF vars, disk, core, chan, threads, SettleSame
<1>3. CASE \E p \in Producers, e \in Events, valid \in BOOLEAN : Submit(p, e, valid)
  BY <1>1, <1>3, SameSubmit, SettleFrame
<1>4. CASE \E p \in Producers : Produce(p)
  BY <1>1, <1>4, SameProduce, SettleFrame, SettleWalAppend, SettleEnqueue, SettleBestEffort,
     SettleStrictReply DEF Produce
<1>5. CASE SealOne
  BY <1>1, <1>5, SameSeal, SettleFrame, SettleSeals, SettleAdvance DEF SealOne
<1>6. CASE Worker
  BY <1>1, <1>6, SameWorker, SettleFrame, SettleRecv, SettleLock, SettleUnlock, SettleScan,
     SettleNext, SettleBatchDone DEF Worker
<1>7. CASE \/ Start \/ Recover \/ Crash \/ FlushBegin \/ Flush \/ ExplicitSeal
           \/ ShutdownBegin \/ DropPipeline \/ Shutdown
  <2>1. CASE FlushBegin \/ Flush \/ ExplicitSeal \/ ShutdownBegin \/ DropPipeline \/ DropSender
    BY <1>1, <2>1, SameLife, SettleFrame
  <2>2. CASE Start
    BY <1>1, <2>2, SettleStart
  <2>3. CASE RecoverNext \/ RecoverDone
    BY <1>1, <2>3, SettleNext, SettleBatchDone
  <2>4. CASE StartFails \/ Crash \/ ShutdownJoin
    <3>1. ResetMemory /\ UNCHANGED <<wal, ckpt>> /\ phase' \in {"down", "stopped"}
      BY <2>4 DEF StartFails, Crash, ShutdownJoin, disk
    <3> QED
      BY <1>1, <3>1, SettleReset
  <2> QED
    BY <1>7, <2>1, <2>2, <2>3, <2>4 DEF Recover, Shutdown
<1> QED
  BY <1>2, <1>3, <1>4, <1>5, <1>6, <1>7 DEF Next

LEMMA IInvInit == Init => IInv
  BY TypeInit, ThreadInit, OnceInit, SettleInit DEF IInv

LEMMA IInvStep ==
  ASSUME IInv, [Next]_vars
  PROVE  IInv'
<1>1. Lossless' = Lossless
  BY DiskGrows DEF IInv, Lossless
<1> QED
  BY <1>1, TypeStep, ThreadStep, OnceStep, SettleStep DEF IInv

\* What the watermark passed exists and is settled.
LEMMA IInvMarks == IInv => WatermarkSound
<1> SUFFICES ASSUME IInv, Lossless, NEW s \in 1..Watermark
             PROVE  s <= Len(wal) /\ Settled(wal[s])
  BY DEF WatermarkSound
<1>1. s \in 1..ckpt \/ s \in 1..applied
  BY DEF Watermark, MaxOf
<1>2. s \in Done
  BY <1>1 DEF IInv, SettleInv, MarksSettled
<1> QED
  BY <1>2 DEF Done, IInv, TypeInv, TypeOK, DiskType

(* checkpoint.json and the watermark in memory never pass a record that is in    *)
(* neither the ledger nor the dead letters, so recovery and the drain, which     *)
(* look above them only, miss nothing; in every mode, for every queue size and   *)
(* through every crash, as long as each failure leaves its dead letter.          *)
THEOREM WatermarkCorrect == Spec => []WatermarkSound
<1>1. IInv /\ [Next]_vars => IInv'
  BY IInvStep
<1> QED
  BY <1>1, IInvInit, IInvMarks, PTL DEF Spec

-----------------------------------------------------------------------------
(* Arithmetic of the depth counter *)

LEMMA ModSmall ==
  ASSUME NEW w \in Nat \ {0}, NEW x \in Nat, x < w
  PROVE  x % w = x
  OBVIOUS

LEMMA ModDown ==
  ASSUME NEW w \in Nat \ {0}, NEW x \in Nat, 0 < x, x <= w
  PROVE  (x + w - 1) % w = x - 1
  OBVIOUS

\* queue_depth neither wraps when it counts an item of the line nor below zero.
LEMMA DepthSteps ==
  ASSUME depth \in Nat
  PROVE  /\ depth <= QueueCap => (depth + 1) % Wrap = depth + 1
         /\ 0 < depth /\ depth <= QueueCap + 1 => (depth + Wrap - 1) % Wrap = depth - 1
<1>1. Wrap \in Nat \ {0} /\ QueueCap \in Nat /\ QueueCap + 1 < Wrap
  BY BoundsAssumption, LimitsAssumption, WrapAssumption
<1> QED
  BY <1>1, ModSmall, ModDown

-----------------------------------------------------------------------------
(* Items, drains, the depth and the end of the worker *)

LEMMA CountInit == Init => CountInv
  BY LimitsAssumption
  DEF Init, CountInv, ItemInv, DrainInv, DepthExact, CloseInv, Uncounted, InHands, NoSeal,
      NoWork, NoCall, NoFlush

LEMMA CountSubmit ==
  ASSUME TypeInv, ThreadInv, CountInv, NEW p \in Producers, NEW e \in Events,
         NEW valid \in BOOLEAN, Submit(p, e, valid)
  PROVE  CountInv'
  BY NullAssumption
  DEF TypeInv, TypeOK, CoreType, ThreadType, Calls, CountInv, ItemInv, DrainInv, DepthExact,
      CloseInv, Uncounted, InHands, Submit, disk, core, chan

\* seal_one works on one record, and touches neither the queue nor the threads.
LEMMA SealKeeps ==
  ASSUME SealOne
  PROVE  SealUnchanged /\ seal'.item = seal.item /\ seal.pc # "none" /\ seal'.pc # "none"
<1>1. CASE SealCheckDuplicate \/ SealAppend
  BY <1>1 DEF SealCheckDuplicate, SealAppend, SealGoes
<1>2. CASE SealCheckFresh \/ SealRetry
  BY <1>2 DEF SealCheckFresh, SealRetry, SealTries
<1>3. CASE SealCheckConflict \/ SealExhaust
  <2>1. SealUnchanged /\ seal.pc # "none" /\ (SealGoes("mark", "terminal") \/ SealEnds("error"))
    BY <1>3 DEF SealCheckConflict, SealExhaust
  <2> QED
    BY <2>1 DEF SealGoes, SealEnds
<1>4. CASE AdvanceWatermark \/ SealByCount
  BY <1>4 DEF AdvanceWatermark, SealByCount, SealGoes, SealEnds
<1> QED
  BY <1>1, <1>2, <1>3, <1>4 DEF SealOne

LEMMA CountSeal ==
  ASSUME TypeInv, ThreadInv, CountInv, SealOne
  PROVE  CountInv'
  BY SealKeeps
     DEF SealUnchanged, threads, chan, told, CountInv, ItemInv, DrainInv, DepthExact,
     CloseInv, Uncounted, InHands

LEMMA ItemProduce ==
  ASSUME TypeInv, ThreadInv, CountInv, NEW p \in Producers, Produce(p)
  PROVE  ItemInv'
<1> USE NullAssumption DEF TypeInv, TypeOK, CoreType, ThreadType, Calls, Seals, Works,
       Items,
       ThreadInv, Asleep, LockInv, ModeInv, UsesWal, CountInv, ItemInv, NoItem, disk,
       core, chan,
       threads, told
<1>1. CASE RefuseInvalid(p)
  BY <1>1 DEF RefuseInvalid, Returns, NoCall
<1>2. CASE AnswerDuplicate(p)
  BY <1>2 DEF AnswerDuplicate, Returns, NoCall
<1>3. CASE RefuseConflict(p)
  BY <1>3 DEF RefuseConflict, Returns, NoCall
<1>4. CASE PassDedup(p)
  BY <1>4 DEF PassDedup, CallGoes
<1>5. CASE WalAppend(p)
  BY <1>5 DEF WalAppend, StartSeal
<1>6. CASE WalRefuse(p)
  BY <1>6 DEF WalRefuse, Returns, NoCall
<1>7. CASE Spill(p)
  BY <1>7 DEF Spill, CallGoes
<1>8. CASE Enqueue(p)
  BY <1>8 DEF Enqueue, CallGoes, Spills
<1>9. CASE SendBestEffort(p)
  BY <1>9 DEF SendBestEffort, CallGoes
<1>10. CASE RefuseFull(p)
  BY <1>10 DEF RefuseFull, Returns, NoCall
<1>11. CASE CountQueued(p)
  BY <1>11 DEF CountQueued, Returns, NoCall
<1>12. CASE CountSpilled(p)
  BY <1>12 DEF CountSpilled, Returns, NoCall
<1>13. CASE StrictReply(p)
  BY <1>13 DEF StrictReply, Returns, NoCall, NoSeal
<1> QED
  BY <1>1, <1>2, <1>3, <1>4, <1>5, <1>6, <1>7, <1>8, <1>9, <1>10, <1>11, <1>12, <1>13
     DEF Produce

LEMMA ItemWorker ==
  ASSUME TypeInv, ThreadInv, CountInv, Worker
  PROVE  ItemInv'
<1> USE NullAssumption DEF TypeInv, TypeOK, CoreType, ThreadType, Calls, Seals, Works,
       Items,
       ThreadInv, Asleep, LockInv, ModeInv, UsesWal, CountInv, ItemInv, NoItem, disk,
       core, chan,
       threads, told
<1>1. CASE WorkerRecv
  BY <1>1 DEF WorkerRecv
<1>2. CASE WorkerLock
  BY <1>2 DEF WorkerLock, WorkerGoes, StartSeal
<1>3. CASE WorkerUnlock
  BY <1>3 DEF WorkerUnlock, NoSeal
<1>4. CASE WorkerUncount
  BY <1>4 DEF WorkerUncount, WorkerGoes
<1>5. CASE WorkerIdle
  BY <1>5 DEF WorkerIdle
<1>6. CASE DrainReadBacklog
  BY <1>6 DEF DrainReadBacklog, WorkerGoes, AfterDrain
<1>7. CASE DrainReadDepth
  BY <1>7 DEF DrainReadDepth, WorkerGoes, AfterDrain
<1>8. CASE DrainLock
  BY <1>8 DEF DrainLock, WorkerGoes
<1>9. CASE DrainScan
  BY <1>9 DEF DrainScan, WorkerGoes
<1>10. CASE DrainReset
  BY <1>10 DEF DrainReset, WorkerGoes, AfterDrain
<1>11. CASE DrainNext
  BY <1>11 DEF DrainNext, TakeRecord, StartSeal
<1>12. CASE DrainBatchDone
  BY <1>12 DEF DrainBatchDone, NoMoreRecords, WorkerGoes, NoSeal
<1>13. CASE AgeNotDue
  BY <1>13 DEF AgeNotDue, WorkerGoes
<1>14. CASE AgeDue
  BY <1>14 DEF AgeDue, WorkerGoes, SealRange
<1> QED
  BY <1>1, <1>2, <1>3, <1>4, <1>5, <1>6, <1>7, <1>8, <1>9, <1>10, <1>11, <1>12, <1>13, <1>14
     DEF Worker

LEMMA ItemLife ==
  ASSUME TypeInv, ThreadInv, CountInv,
         Start \/ Recover \/ Crash \/ FlushBegin \/ Flush \/ ExplicitSeal
           \/ ShutdownBegin \/ DropPipeline \/ Shutdown
  PROVE  ItemInv'
<1> USE NullAssumption DEF TypeInv, TypeOK, CoreType, ThreadType, Calls, Seals, Works,
       Items,
       ThreadInv, Asleep, LockInv, ModeInv, UsesWal, CountInv, ItemInv, NoItem, disk,
       core, chan,
       threads, told
<1>1. CASE Start
  BY <1>1 DEF Start
<1>2. CASE RecoverNext
  BY <1>2 DEF RecoverNext, Replaying, TakeRecord, StartSeal
<1>3. CASE RecoverDone
  BY <1>3 DEF RecoverDone, Replaying, NoMoreRecords, NoSeal
<1>4. CASE StartFails
  BY <1>4 DEF StartFails, ResetMemory, NoSeal, NoCall, NoWork, NoFlush
<1>5. CASE Crash
  BY <1>5 DEF Crash, ResetMemory, NoSeal, NoCall, NoWork, NoFlush
<1>6. CASE FlushBegin
  BY <1>6 DEF FlushBegin
<1>7. CASE FlushReadDepth
  BY <1>7 DEF FlushReadDepth, FlushGoes
<1>8. CASE FlushReadBacklog
  BY <1>8 DEF FlushReadBacklog, FlushGoes
<1>9. CASE ExplicitSeal
  BY <1>9 DEF ExplicitSeal, SealRange
<1>10. CASE ShutdownBegin
  BY <1>10 DEF ShutdownBegin
<1>11. CASE DropSender
  BY <1>11 DEF DropSender
<1>12. CASE DropPipeline
  BY <1>12 DEF DropPipeline, NoFlush
<1>13. CASE ShutdownJoin
  BY <1>13 DEF ShutdownJoin, ResetMemory, NoSeal, NoCall, NoWork, NoFlush
<1> QED
  BY <1>1, <1>2, <1>3, <1>4, <1>5, <1>6, <1>7, <1>8, <1>9, <1>10, <1>11, <1>12, <1>13
     DEF Recover, Flush, Shutdown

LEMMA DrainProduce ==
  ASSUME TypeInv, ThreadInv, CountInv, NEW p \in Producers, Produce(p)
  PROVE  DrainInv'
<1> USE NullAssumption DEF TypeInv, TypeOK, CoreType, ThreadType, Calls, Seals, Works,
       Items,
       ThreadInv, Asleep, LockInv, ModeInv, UsesWal, CountInv, DrainInv, ItemInv, disk,
       core, chan,
       threads, told
<1>1. CASE RefuseInvalid(p)
  BY <1>1 DEF RefuseInvalid, Returns, NoCall
<1>2. CASE AnswerDuplicate(p)
  BY <1>2 DEF AnswerDuplicate, Returns, NoCall
<1>3. CASE RefuseConflict(p)
  BY <1>3 DEF RefuseConflict, Returns, NoCall
<1>4. CASE PassDedup(p)
  BY <1>4 DEF PassDedup, CallGoes
<1>5. CASE WalAppend(p)
  BY <1>5 DEF WalAppend, StartSeal
<1>6. CASE WalRefuse(p)
  BY <1>6 DEF WalRefuse, Returns, NoCall
<1>7. CASE Spill(p)
  BY <1>7 DEF Spill, CallGoes
<1>8. CASE Enqueue(p)
  BY <1>8 DEF Enqueue, CallGoes, Spills
<1>9. CASE SendBestEffort(p)
  BY <1>9 DEF SendBestEffort, CallGoes
<1>10. CASE RefuseFull(p)
  BY <1>10 DEF RefuseFull, Returns, NoCall
<1>11. CASE CountQueued(p)
  BY <1>11 DEF CountQueued, Returns, NoCall
<1>12. CASE CountSpilled(p)
  BY <1>12 DEF CountSpilled, Returns, NoCall
<1>13. CASE StrictReply(p)
  BY <1>13 DEF StrictReply, Returns, NoCall, NoSeal
<1> QED
  BY <1>1, <1>2, <1>3, <1>4, <1>5, <1>6, <1>7, <1>8, <1>9, <1>10, <1>11, <1>12, <1>13
     DEF Produce

LEMMA DrainWorker ==
  ASSUME TypeInv, ThreadInv, CountInv, Worker
  PROVE  DrainInv'
<1> USE NullAssumption DEF TypeInv, TypeOK, CoreType, ThreadType, Calls, Seals, Works,
       Items,
       ThreadInv, Asleep, LockInv, ModeInv, UsesWal, CountInv, DrainInv, ItemInv, disk,
       core, chan,
       threads, told
<1>1. CASE WorkerRecv
  BY <1>1 DEF WorkerRecv
<1>2. CASE WorkerLock
  BY <1>2 DEF WorkerLock, WorkerGoes, StartSeal
<1>3. CASE WorkerUnlock
  BY <1>3 DEF WorkerUnlock, NoSeal
<1>4. CASE WorkerUncount
  BY <1>4 DEF WorkerUncount, WorkerGoes
<1>5. CASE WorkerIdle
  BY <1>5 DEF WorkerIdle
<1>6. CASE DrainReadBacklog
  BY <1>6 DEF DrainReadBacklog, WorkerGoes, AfterDrain
<1>7. CASE DrainReadDepth
  <2>1. conf.mode = "durable" /\ depth = 0 => queue = <<>>
    BY <1>7 DEF DrainReadDepth, DepthExact, Uncounted, InHands
  <2> QED
    BY <1>7, <2>1 DEF DrainReadDepth, WorkerGoes, AfterDrain
<1>8. CASE DrainLock
  BY <1>8 DEF DrainLock, WorkerGoes
<1>9. CASE DrainScan
  BY <1>9 DEF DrainScan, WorkerGoes
<1>10. CASE DrainReset
  BY <1>10 DEF DrainReset, WorkerGoes, AfterDrain
<1>11. CASE DrainNext
  BY <1>11 DEF DrainNext, TakeRecord, StartSeal
<1>12. CASE DrainBatchDone
  BY <1>12 DEF DrainBatchDone, NoMoreRecords, WorkerGoes, NoSeal
<1>13. CASE AgeNotDue
  BY <1>13 DEF AgeNotDue, WorkerGoes
<1>14. CASE AgeDue
  BY <1>14 DEF AgeDue, WorkerGoes, SealRange
<1> QED
  BY <1>1, <1>2, <1>3, <1>4, <1>5, <1>6, <1>7, <1>8, <1>9, <1>10, <1>11, <1>12, <1>13, <1>14
     DEF Worker

LEMMA DrainLife ==
  ASSUME TypeInv, ThreadInv, CountInv,
         Start \/ Recover \/ Crash \/ FlushBegin \/ Flush \/ ExplicitSeal
           \/ ShutdownBegin \/ DropPipeline \/ Shutdown
  PROVE  DrainInv'
<1> USE NullAssumption DEF TypeInv, TypeOK, CoreType, ThreadType, Calls, Seals, Works,
       Items,
       ThreadInv, Asleep, LockInv, ModeInv, UsesWal, CountInv, DrainInv, ItemInv, disk,
       core, chan,
       threads, told
<1>1. CASE Start
  BY <1>1 DEF Start
<1>2. CASE RecoverNext
  BY <1>2 DEF RecoverNext, Replaying, TakeRecord, StartSeal
<1>3. CASE RecoverDone
  BY <1>3 DEF RecoverDone, Replaying, NoMoreRecords, NoSeal
<1>4. CASE StartFails
  BY <1>4 DEF StartFails, ResetMemory, NoSeal, NoCall, NoWork, NoFlush
<1>5. CASE Crash
  BY <1>5 DEF Crash, ResetMemory, NoSeal, NoCall, NoWork, NoFlush
<1>6. CASE FlushBegin
  BY <1>6 DEF FlushBegin
<1>7. CASE FlushReadDepth
  BY <1>7 DEF FlushReadDepth, FlushGoes
<1>8. CASE FlushReadBacklog
  BY <1>8 DEF FlushReadBacklog, FlushGoes
<1>9. CASE ExplicitSeal
  BY <1>9 DEF ExplicitSeal, SealRange
<1>10. CASE ShutdownBegin
  BY <1>10 DEF ShutdownBegin
<1>11. CASE DropSender
  BY <1>11 DEF DropSender
<1>12. CASE DropPipeline
  BY <1>12 DEF DropPipeline, NoFlush
<1>13. CASE ShutdownJoin
  BY <1>13 DEF ShutdownJoin, ResetMemory, NoSeal, NoCall, NoWork, NoFlush
<1> QED
  BY <1>1, <1>2, <1>3, <1>4, <1>5, <1>6, <1>7, <1>8, <1>9, <1>10, <1>11, <1>12, <1>13
     DEF Recover, Flush, Shutdown

LEMMA CloseProduce ==
  ASSUME TypeInv, ThreadInv, CountInv, NEW p \in Producers, Produce(p)
  PROVE  CloseInv'
<1> USE NullAssumption DEF TypeInv, TypeOK, CoreType, ThreadType, Calls, Seals, Works,
       Items,
       ThreadInv, Asleep, LockInv, ModeInv, UsesWal, CountInv, CloseInv, DrainInv, disk,
       core, chan,
       threads, told
<1>1. CASE RefuseInvalid(p)
  BY <1>1 DEF RefuseInvalid, Returns, NoCall
<1>2. CASE AnswerDuplicate(p)
  BY <1>2 DEF AnswerDuplicate, Returns, NoCall
<1>3. CASE RefuseConflict(p)
  BY <1>3 DEF RefuseConflict, Returns, NoCall
<1>4. CASE PassDedup(p)
  BY <1>4 DEF PassDedup, CallGoes
<1>5. CASE WalAppend(p)
  BY <1>5 DEF WalAppend, StartSeal
<1>6. CASE WalRefuse(p)
  BY <1>6 DEF WalRefuse, Returns, NoCall
<1>7. CASE Spill(p)
  BY <1>7 DEF Spill, CallGoes
<1>8. CASE Enqueue(p)
  BY <1>8 DEF Enqueue, CallGoes, Spills
<1>9. CASE SendBestEffort(p)
  BY <1>9 DEF SendBestEffort, CallGoes
<1>10. CASE RefuseFull(p)
  BY <1>10 DEF RefuseFull, Returns, NoCall
<1>11. CASE CountQueued(p)
  BY <1>11 DEF CountQueued, Returns, NoCall
<1>12. CASE CountSpilled(p)
  BY <1>12 DEF CountSpilled, Returns, NoCall
<1>13. CASE StrictReply(p)
  BY <1>13 DEF StrictReply, Returns, NoCall, NoSeal
<1> QED
  BY <1>1, <1>2, <1>3, <1>4, <1>5, <1>6, <1>7, <1>8, <1>9, <1>10, <1>11, <1>12, <1>13
     DEF Produce

LEMMA CloseWorker ==
  ASSUME TypeInv, ThreadInv, CountInv, Worker
  PROVE  CloseInv'
<1> USE NullAssumption DEF TypeInv, TypeOK, CoreType, ThreadType, Calls, Seals, Works,
       Items,
       ThreadInv, Asleep, LockInv, ModeInv, UsesWal, CountInv, CloseInv, DrainInv, disk,
       core, chan,
       threads, told
<1>1. CASE WorkerRecv
  BY <1>1 DEF WorkerRecv
<1>2. CASE WorkerLock
  BY <1>2 DEF WorkerLock, WorkerGoes, StartSeal
<1>3. CASE WorkerUnlock
  BY <1>3 DEF WorkerUnlock, NoSeal
<1>4. CASE WorkerUncount
  BY <1>4 DEF WorkerUncount, WorkerGoes
<1>5. CASE WorkerIdle
  BY <1>5 DEF WorkerIdle
<1>6. CASE DrainReadBacklog
  BY <1>6 DEF DrainReadBacklog, WorkerGoes, AfterDrain
<1>7. CASE DrainReadDepth
  <2>1. work.last /\ conf.mode = "durable" => depth = 0
    <3> SUFFICES ASSUME work.last, conf.mode = "durable" PROVE depth = 0
      OBVIOUS
    <3>1. InHands = 0 /\ Uncounted \in Nat
      BY <1>7 DEF DrainReadDepth, Uncounted, InHands
    <3>2. Len(queue) = 0
      OBVIOUS
    <3>3. depth + Uncounted = Len(queue) + InHands /\ depth \in Nat
      BY DEF DepthExact
    <3> QED
      BY <3>1, <3>2, <3>3
  <2>2. ASSUME work.last
        PROVE  work'.pc = "drainLock" \/ (work'.pc = "gone" /\ backlog = 0)
    <3>1. CASE depth > 0
      <4>1. backlog = 0
        BY <2>1, <2>2, <3>1
      <4> QED
        BY <1>7, <2>2, <3>1, <4>1 DEF DrainReadDepth, WorkerGoes, AfterDrain
    <3>2. CASE ~(depth > 0)
      BY <1>7, <3>2 DEF DrainReadDepth, WorkerGoes
    <3> QED
      BY <3>1, <3>2
  <2>3. ~work.last => work'.pc \in {"age", "idle", "drainLock"}
    BY <1>7 DEF DrainReadDepth, WorkerGoes, AfterDrain
  <2>4. work'.last = work.last /\ UNCHANGED <<phase, prod, queue, backlog>>
    BY <1>7 DEF DrainReadDepth, WorkerGoes
  <2> QED
    BY <2>2, <2>3, <2>4
<1>8. CASE DrainLock
  BY <1>8 DEF DrainLock, WorkerGoes
<1>9. CASE DrainScan
  BY <1>9 DEF DrainScan, WorkerGoes
<1>10. CASE DrainReset
  BY <1>10 DEF DrainReset, WorkerGoes, AfterDrain
<1>11. CASE DrainNext
  BY <1>11 DEF DrainNext, TakeRecord, StartSeal
<1>12. CASE DrainBatchDone
  BY <1>12 DEF DrainBatchDone, NoMoreRecords, WorkerGoes, NoSeal
<1>13. CASE AgeNotDue
  BY <1>13 DEF AgeNotDue, WorkerGoes
<1>14. CASE AgeDue
  BY <1>14 DEF AgeDue, WorkerGoes, SealRange
<1> QED
  BY <1>1, <1>2, <1>3, <1>4, <1>5, <1>6, <1>7, <1>8, <1>9, <1>10, <1>11, <1>12, <1>13, <1>14
     DEF Worker

LEMMA CloseLife ==
  ASSUME TypeInv, ThreadInv, CountInv,
         Start \/ Recover \/ Crash \/ FlushBegin \/ Flush \/ ExplicitSeal
           \/ ShutdownBegin \/ DropPipeline \/ Shutdown
  PROVE  CloseInv'
<1> USE NullAssumption DEF TypeInv, TypeOK, CoreType, ThreadType, Calls, Seals, Works,
       Items,
       ThreadInv, Asleep, LockInv, ModeInv, UsesWal, CountInv, CloseInv, DrainInv, disk,
       core, chan,
       threads, told
<1>1. CASE Start
  BY <1>1 DEF Start
<1>2. CASE RecoverNext
  BY <1>2 DEF RecoverNext, Replaying, TakeRecord, StartSeal
<1>3. CASE RecoverDone
  BY <1>3 DEF RecoverDone, Replaying, NoMoreRecords, NoSeal
<1>4. CASE StartFails
  BY <1>4 DEF StartFails, ResetMemory, NoSeal, NoCall, NoWork, NoFlush
<1>5. CASE Crash
  BY <1>5 DEF Crash, ResetMemory, NoSeal, NoCall, NoWork, NoFlush
<1>6. CASE FlushBegin
  BY <1>6 DEF FlushBegin
<1>7. CASE FlushReadDepth
  BY <1>7 DEF FlushReadDepth, FlushGoes
<1>8. CASE FlushReadBacklog
  BY <1>8 DEF FlushReadBacklog, FlushGoes
<1>9. CASE ExplicitSeal
  BY <1>9 DEF ExplicitSeal, SealRange
<1>10. CASE ShutdownBegin
  BY <1>10 DEF ShutdownBegin
<1>11. CASE DropSender
  BY <1>11 DEF DropSender
<1>12. CASE DropPipeline
  BY <1>12 DEF DropPipeline, NoFlush
<1>13. CASE ShutdownJoin
  BY <1>13 DEF ShutdownJoin, ResetMemory, NoSeal, NoCall, NoWork, NoFlush
<1> QED
  BY <1>1, <1>2, <1>3, <1>4, <1>5, <1>6, <1>7, <1>8, <1>9, <1>10, <1>11, <1>12, <1>13
     DEF Recover, Flush, Shutdown

LEMMA DepthProduce ==
  ASSUME TypeInv, ThreadInv, CountInv, NEW p \in Producers, Produce(p)
  PROVE  DepthExact'
<1> USE NullAssumption DEF TypeInv, TypeOK, CoreType, ThreadType, Calls, Seals, Works,
       Items,
       ThreadInv, Asleep, LockInv, ModeInv, UsesWal, CountInv, DepthExact, ItemInv,
       DrainInv, InHands, Uncounted, disk, core, chan,
       threads, told
<1>1. CASE RefuseInvalid(p)
  BY <1>1 DEF RefuseInvalid, Returns, NoCall
<1>2. CASE AnswerDuplicate(p)
  BY <1>2 DEF AnswerDuplicate, Returns, NoCall
<1>3. CASE RefuseConflict(p)
  BY <1>3 DEF RefuseConflict, Returns, NoCall
<1>4. CASE PassDedup(p)
  BY <1>4 DEF PassDedup, CallGoes
<1>5. CASE WalAppend(p)
  BY <1>5 DEF WalAppend, StartSeal
<1>6. CASE WalRefuse(p)
  BY <1>6 DEF WalRefuse, Returns, NoCall
<1>7. CASE Spill(p)
  BY <1>7 DEF Spill, CallGoes
<1>8. CASE Enqueue(p)
  <2>1. /\ conf.mode = "durable" /\ lock = p /\ Len(queue) < QueueCap
        /\ prod'[p].pc = "depth" /\ UNCHANGED <<depth, work, conf>>
    BY <1>8, LimitsAssumption DEF Enqueue, CallGoes, Spills
  <2>2. Uncounted = 0
    BY <2>1, <1>8 DEF Enqueue
  <2>3. Uncounted' = 1 /\ InHands' = InHands
    BY <2>1
  <2>4. Len(queue') = Len(queue) + 1 /\ queue' # <<>>
    BY <1>8 DEF Enqueue
  <2> QED
    BY <2>1, <2>2, <2>3, <2>4, LimitsAssumption
<1>9. CASE SendBestEffort(p)
  <2>1. conf' = conf /\ conf.mode = "best_effort" /\ Len(queue') = Len(queue) + 1
    BY <1>9 DEF SendBestEffort
  <2> QED
    BY <1>9, <2>1, LimitsAssumption DEF SendBestEffort
<1>10. CASE RefuseFull(p)
  BY <1>10 DEF RefuseFull, Returns, NoCall
<1>11. CASE CountQueued(p)
  <2>1. /\ depth' = (depth + 1) % Wrap /\ prod[p].pc = "depth"
        /\ prod' = [prod EXCEPT ![p] = NoCall] /\ UNCHANGED <<queue, work, conf>>
    BY <1>11 DEF CountQueued, Returns
  <2>2. CASE conf.mode # "durable"
    BY <2>1, <2>2
  <2>3. CASE conf.mode = "durable"
    <3>1. Uncounted = 1 /\ Uncounted' = 0 /\ InHands' = InHands
      BY <2>1, <2>3 DEF NoCall
    <3>2. depth + 1 = Len(queue) + InHands /\ depth <= QueueCap
      BY <2>3, <3>1, LimitsAssumption
    <3> QED
      BY <2>1, <2>3, <3>1, <3>2, DepthSteps
  <2> QED
    BY <2>2, <2>3
<1>12. CASE CountSpilled(p)
  BY <1>12 DEF CountSpilled, Returns, NoCall
<1>13. CASE StrictReply(p)
  BY <1>13 DEF StrictReply, Returns, NoCall, NoSeal
<1> QED
  BY <1>1, <1>2, <1>3, <1>4, <1>5, <1>6, <1>7, <1>8, <1>9, <1>10, <1>11, <1>12, <1>13
     DEF Produce

LEMMA DepthWorker ==
  ASSUME TypeInv, ThreadInv, CountInv, Worker
  PROVE  DepthExact'
<1> USE NullAssumption DEF TypeInv, TypeOK, CoreType, ThreadType, Calls, Seals, Works,
       Items,
       ThreadInv, Asleep, LockInv, ModeInv, UsesWal, CountInv, DepthExact, ItemInv,
       DrainInv, InHands, Uncounted, disk, core, chan,
       threads, told
<1>1. CASE WorkerRecv
  <2>1. /\ Len(queue') = Len(queue) - 1 /\ InHands = 0 /\ InHands' = 1
        /\ work'.pc = "lock" /\ UNCHANGED <<depth, prod, conf>>
    BY <1>1, QueueHead DEF WorkerRecv
  <2> QED
    BY <2>1, LimitsAssumption
<1>2. CASE WorkerLock
  BY <1>2 DEF WorkerLock, WorkerGoes, StartSeal
<1>3. CASE WorkerUnlock
  BY <1>3 DEF WorkerUnlock, NoSeal
<1>4. CASE WorkerUncount
  <2>1. /\ depth' = (depth + Wrap - 1) % Wrap /\ InHands = 1 /\ InHands' = 0
        /\ Uncounted' = Uncounted /\ UNCHANGED <<queue, conf>>
    BY <1>4 DEF WorkerUncount, WorkerGoes
  <2>2. CASE conf.mode # "durable"
    BY <2>1, <2>2
  <2>3. CASE conf.mode = "durable"
    <3>1. 0 < depth /\ depth <= QueueCap + 1
      BY <1>4, <2>1, <2>3, LimitsAssumption DEF WorkerUncount
    <3>2. depth' = depth - 1
      BY <2>1, <3>1, DepthSteps
    <3> QED
      BY <1>4, <2>1, <2>3, <3>1, <3>2 DEF WorkerUncount
  <2> QED
    BY <2>2, <2>3
<1>5. CASE WorkerIdle
  BY <1>5 DEF WorkerIdle
<1>6. CASE DrainReadBacklog
  BY <1>6 DEF DrainReadBacklog, WorkerGoes, AfterDrain
<1>7. CASE DrainReadDepth
  BY <1>7 DEF DrainReadDepth, WorkerGoes, AfterDrain
<1>8. CASE DrainLock
  BY <1>8 DEF DrainLock, WorkerGoes
<1>9. CASE DrainScan
  BY <1>9 DEF DrainScan, WorkerGoes
<1>10. CASE DrainReset
  BY <1>10 DEF DrainReset, WorkerGoes, AfterDrain
<1>11. CASE DrainNext
  BY <1>11 DEF DrainNext, TakeRecord, StartSeal
<1>12. CASE DrainBatchDone
  BY <1>12 DEF DrainBatchDone, NoMoreRecords, WorkerGoes, NoSeal
<1>13. CASE AgeNotDue
  BY <1>13 DEF AgeNotDue, WorkerGoes
<1>14. CASE AgeDue
  BY <1>14 DEF AgeDue, WorkerGoes, SealRange
<1> QED
  BY <1>1, <1>2, <1>3, <1>4, <1>5, <1>6, <1>7, <1>8, <1>9, <1>10, <1>11, <1>12, <1>13, <1>14
     DEF Worker

LEMMA DepthLife ==
  ASSUME TypeInv, ThreadInv, CountInv,
         Start \/ Recover \/ Crash \/ FlushBegin \/ Flush \/ ExplicitSeal
           \/ ShutdownBegin \/ DropPipeline \/ Shutdown
  PROVE  DepthExact'
<1> USE NullAssumption, LimitsAssumption DEF TypeInv, TypeOK, CoreType, ThreadType,
       Calls, Seals, Works, Items,
       ThreadInv, Asleep, LockInv, ModeInv, UsesWal, CountInv, DepthExact, ItemInv,
       DrainInv, InHands, Uncounted, disk, core, chan,
       threads, told
<1>1. CASE Start
  BY <1>1 DEF Start
<1>2. CASE RecoverNext
  BY <1>2 DEF RecoverNext, Replaying, TakeRecord, StartSeal
<1>3. CASE RecoverDone
  BY <1>3 DEF RecoverDone, Replaying, NoMoreRecords, NoSeal
<1>4. CASE StartFails
  BY <1>4 DEF StartFails, ResetMemory, NoSeal, NoCall, NoWork, NoFlush
<1>5. CASE Crash
  BY <1>5 DEF Crash, ResetMemory, NoSeal, NoCall, NoWork, NoFlush
<1>6. CASE FlushBegin
  BY <1>6 DEF FlushBegin
<1>7. CASE FlushReadDepth
  BY <1>7 DEF FlushReadDepth, FlushGoes
<1>8. CASE FlushReadBacklog
  BY <1>8 DEF FlushReadBacklog, FlushGoes
<1>9. CASE ExplicitSeal
  BY <1>9 DEF ExplicitSeal, SealRange
<1>10. CASE ShutdownBegin
  BY <1>10 DEF ShutdownBegin
<1>11. CASE DropSender
  BY <1>11 DEF DropSender
<1>12. CASE DropPipeline
  BY <1>12 DEF DropPipeline, NoFlush
<1>13. CASE ShutdownJoin
  BY <1>13 DEF ShutdownJoin, ResetMemory, NoSeal, NoCall, NoWork, NoFlush
<1> QED
  BY <1>1, <1>2, <1>3, <1>4, <1>5, <1>6, <1>7, <1>8, <1>9, <1>10, <1>11, <1>12, <1>13
     DEF Recover, Flush, Shutdown

LEMMA CountStep ==
  ASSUME TypeInv, ThreadInv, CountInv, [Next]_vars
  PROVE  CountInv'
<1>1. CASE UNCHANGED vars
  BY <1>1
     DEF vars, disk, core, chan, threads, told, CountInv, ItemInv, DrainInv, DepthExact,
              CloseInv, Uncounted, InHands
<1>2. CASE \E p \in Producers, e \in Events, valid \in BOOLEAN : Submit(p, e, valid)
  BY <1>2, CountSubmit
<1>3. CASE \E p \in Producers : Produce(p)
  BY <1>3, ItemProduce, DrainProduce, DepthProduce, CloseProduce DEF CountInv
<1>4. CASE SealOne
  BY <1>4, CountSeal
<1>5. CASE Worker
  BY <1>5, ItemWorker, DrainWorker, DepthWorker, CloseWorker DEF CountInv
<1>6. CASE \/ Start \/ Recover \/ Crash \/ FlushBegin \/ Flush \/ ExplicitSeal
           \/ ShutdownBegin \/ DropPipeline \/ Shutdown
  BY <1>6, ItemLife, DrainLife, DepthLife, CloseLife DEF CountInv
<1> QED
  BY <1>1, <1>2, <1>3, <1>4, <1>5, <1>6 DEF Next

-----------------------------------------------------------------------------
(* The order of the line *)

\* The invariant that the order is proved on.
Base == TypeInv /\ ThreadInv /\ CountInv

LEMMA Numbers ==
  ASSUME TypeInv
  PROVE  /\ Len(wal) \in Nat /\ ckpt \in Nat /\ applied \in Nat /\ Watermark \in Nat
         /\ seal.item.seq \in Nat /\ work.item.seq \in Nat /\ Front \in Nat
         /\ todo.from \in Nat /\ todo.to \in Nat /\ backlog \in Nat /\ Len(queue) \in Nat
         /\ Appending \in Nat
         /\ \A i \in 1..Len(queue) : queue[i].seq \in Nat /\ queue[i] \in Items
<1>1. Len(wal) \in Nat /\ ckpt \in Nat /\ applied \in Nat /\ backlog \in Nat
  BY DEF TypeInv, TypeOK, DiskType, CoreType
<1>2. seal.item.seq \in Nat /\ work.item.seq \in Nat /\ todo.from \in Nat /\ todo.to \in Nat
  BY DEF TypeInv, TypeOK, CoreType, ThreadType, Seals, Works, Items
<1>3. Len(queue) \in Nat /\ \A i \in 1..Len(queue) : queue[i].seq \in Nat /\ queue[i] \in Items
  BY QueueItems DEF TypeInv, TypeOK, CoreType, Items
<1>4. Appending \in Nat
  BY DEF Appending
<1> QED
  BY <1>1, <1>2, <1>3, <1>4 DEF Watermark, MaxOf, Front

LEMMA Modes ==
  ASSUME TypeInv
  PROVE  conf.mode \in {"best_effort", "durable", "strict"}
BY ConfigsAssumption DEF TypeInv, TypeOK, ToldType

\* A step that moves neither the marks nor the line.
OrderSame ==
    /\ UNCHANGED <<wal, ckpt, applied, queue, conf>>
    /\ Sealing' <=> Sealing
    /\ seal'.pc # "none" => seal.pc # "none" /\ seal'.item = seal.item
    /\ work'.pc = "lock" => work.pc = "lock" /\ work'.item = work.item
    /\ Front' = Front
    /\ phase' = "recovering" \/ work'.pc = "replay" =>
          (phase = "recovering" \/ work.pc = "replay") /\ todo' = todo
    /\ phase' \in {"up", "closing", "draining"} => phase \in {"up", "closing", "draining"}
    /\ work'.pc \notin {"scan", "replay"} => work.pc \notin {"scan", "replay"}
    /\ Appending' + backlog' = Appending + backlog

LEMMA OrderFrame ==
  ASSUME TypeInv, TypeInv', OrderInv, OrderSame
  PROVE  OrderInv'
<1>1. Watermark' = Watermark /\ Front' = Front
  BY DEF OrderSame, Watermark
<1>2. seal.pc \in SealPcs /\ seal'.pc \in SealPcs
  BY DEF TypeInv, TypeOK, ThreadType, Seals
<1>3. NextInHand'
  BY <1>1, <1>2 DEF OrderInv, OrderSame, NextInHand, Sealing, SealPcs
<1>4. LineInv'
  <2>1. Appending + backlog = Appending' + backlog' /\ Appending \in Nat /\ Appending' \in Nat
    BY DEF OrderSame, Appending
  <2>2. Len(queue) \in Nat /\ Front \in Nat /\ backlog \in Nat /\ backlog' \in Nat
    BY Numbers DEF TypeInv, TypeOK, CoreType
  <2> QED
    <3>1. \A i \in 1..Len(queue') : queue'[i].seq = Front' + i
      BY <1>1 DEF OrderInv, OrderSame, LineInv
    <3>2. ASSUME phase' \in {"up", "closing", "draining"}, conf'.mode = "durable",
                 work'.pc \notin {"scan", "replay"}
          PROVE  Len(wal') = Front' + Len(queue') + Appending' + backlog'
      <4>1. Len(wal) = Front + Len(queue) + Appending + backlog
        BY <3>2 DEF OrderInv, OrderSame, LineInv
      <4>2. Len(wal') = Len(wal) /\ Len(queue') = Len(queue)
        BY DEF OrderSame
      <4>3. Len(wal) = (Front + Len(queue)) + (Appending + backlog)
        BY <2>1, <2>2, <4>1
      <4>4. Len(wal) = (Front + Len(queue)) + (Appending' + backlog')
        BY <2>1, <4>3
      <4>5. Len(wal) = Front + Len(queue) + Appending' + backlog'
        BY <2>1, <2>2, <4>4
      <4> QED
        BY <1>1, <4>2, <4>5
    <3>3. phase' \in {"up", "closing", "draining"} /\ conf'.mode = "strict" =>
             Len(wal') = Watermark' + (IF Sealing' THEN 1 ELSE 0)
      BY <1>1 DEF OrderInv, OrderSame, LineInv
    <3> QED
      BY <3>1, <3>2, <3>3 DEF LineInv
<1> QED
  BY <1>3, <1>4 DEF OrderInv

LEMMA OrderSubmit ==
  ASSUME Base, NEW p \in Producers, NEW e \in Events, NEW valid \in BOOLEAN,
         Submit(p, e, valid)
  PROVE  OrderSame
<1>1. UNCHANGED <<disk, phase, core, queue, backlog, work, conf>>
  BY DEF Submit, chan
<1>2. Appending' = Appending
  BY DEF Base, TypeInv, TypeOK, ThreadType, Submit, Appending
<1> QED
  BY <1>1, <1>2 DEF OrderSame, disk, core, Sealing, Front, Watermark

LEMMA OrderProduceSame ==
  ASSUME Base, NEW p \in Producers,
         \/ RefuseInvalid(p) \/ AnswerDuplicate(p) \/ RefuseConflict(p) \/ PassDedup(p)
         \/ WalRefuse(p) \/ Spill(p) \/ RefuseFull(p) \/ CountQueued(p) \/ CountSpilled(p)
         \/ StrictReply(p)
  PROVE  OrderSame
<1> USE DEF Base, TypeInv, TypeOK, CoreType, ThreadType, disk, core, chan, told
<1>1. /\ UNCHANGED <<wal, ckpt, applied, queue, todo, conf, phase, work>>
      /\ seal' = seal \/ (seal.pc = "done" /\ seal' = NoSeal)
      /\ backlog' = backlog \/ (backlog' = backlog + 1 /\ prod[p].pc = "backlog")
  BY DEF RefuseInvalid, AnswerDuplicate, RefuseConflict, PassDedup, WalRefuse, Spill,
         RefuseFull, CountQueued, CountSpilled, StrictReply
<1>2. Appending' + backlog' = Appending + backlog
  <2> SUFFICES ASSUME ~CountSpilled(p)
               PROVE  /\ \A q \in Producers : prod'[q].pc \in {"dispatch", "backlog"}
                                       <=> prod[q].pc \in {"dispatch", "backlog"}
                      /\ backlog' = backlog
    <3>1. CASE CountSpilled(p)
      <4>1. lock = p /\ prod[p].pc = "backlog" /\ prod'[p].pc = "idle"
            /\ backlog' = backlog + 1 /\ \A q \in Producers \ {p} : prod'[q] = prod[q]
        BY <3>1 DEF CountSpilled, Returns, NoCall, ThreadInv, LockInv
      <4>2. Appending = 1
        BY <4>1 DEF Appending
      <4>3. Appending' = 0
        BY <4>1 DEF Appending, ThreadInv, LockInv
      <4> QED
        BY <4>1, <4>2, <4>3
    <3> QED
      BY <3>1 DEF Appending
  <2> USE DEF Returns, NoCall, CallGoes
  <2>1. CASE RefuseInvalid(p) \/ AnswerDuplicate(p) \/ RefuseConflict(p) \/ WalRefuse(p)
               \/ RefuseFull(p) \/ StrictReply(p) \/ CountQueued(p)
    BY <2>1 DEF RefuseInvalid, AnswerDuplicate, RefuseConflict, WalRefuse, RefuseFull,
                StrictReply, CountQueued
  <2>2. CASE PassDedup(p) \/ Spill(p)
    BY <2>2 DEF PassDedup, Spill
  <2> QED
    BY <2>1, <2>2
<1> QED
  BY <1>1, <1>2 DEF OrderSame, Sealing, Front, Watermark, NoSeal

LEMMA OrderSealSame ==
  ASSUME Base, SealOne, ~AdvanceWatermark, Lossless
  PROVE  OrderSame
<1>1. /\ UNCHANGED <<wal, ckpt, applied, queue, todo, conf, phase, work, backlog, prod>>
      /\ seal.pc # "none" /\ seal'.item = seal.item
  <2>1. UNCHANGED <<ckpt, applied>>
    BY DEF SealOne, SealCheckDuplicate, SealCheckConflict, SealCheckFresh, SealAppend,
           SealRetry, SealExhaust, SealByCount
  <2> QED
    BY <2>1, SealKeeps DEF SealUnchanged, chan, threads, told
<1>2. Sealing' <=> Sealing
  <2>1. CASE SealCheckDuplicate \/ SealCheckFresh \/ SealAppend \/ SealRetry \/ SealByCount
    BY <2>1 DEF SealCheckDuplicate, SealCheckFresh, SealAppend, SealRetry, SealByCount,
                SealGoes, SealEnds, SealTries, Sealing
  <2>2. CASE SealCheckConflict \/ SealExhaust
    <3>1. seal.pc \in {"check", "try"} /\ SealGoes("mark", "terminal")
      BY <2>2 DEF SealCheckConflict, SealExhaust, RecordDeadLetter, Lossless
    <3> QED
      BY <3>1 DEF SealGoes, Sealing
  <2> QED
    BY <2>1, <2>2 DEF SealOne
<1> QED
  BY <1>1, <1>2 DEF OrderSame, Front, Watermark, Appending

LEMMA OrderWorkerSame ==
  ASSUME Base,
         \/ WorkerUncount \/ WorkerIdle \/ DrainReadBacklog \/ DrainReadDepth \/ DrainLock
         \/ AgeNotDue \/ AgeDue
  PROVE  OrderSame
<1>1. /\ UNCHANGED <<wal, ckpt, applied, queue, todo, conf, phase, seal, backlog, prod>>
      /\ work.pc \notin {"lock", "seal", "replay"}
  BY DEF WorkerUncount, WorkerIdle, DrainReadBacklog, DrainReadDepth, DrainLock, AgeNotDue,
         AgeDue, disk, core, chan, told
<1>2. work'.pc \notin {"lock", "seal", "replay"}
  BY DEF WorkerUncount, WorkerIdle, DrainReadBacklog, DrainReadDepth, DrainLock, AgeNotDue,
         AgeDue, WorkerGoes, AfterDrain
<1>3. Appending' + backlog' = Appending + backlog
  BY <1>1 DEF Appending
<1>4. work'.pc \notin {"scan", "replay"} => work.pc \notin {"scan", "replay"}
  BY DEF WorkerUncount, WorkerIdle, DrainReadBacklog, DrainReadDepth, DrainLock, AgeNotDue,
         AgeDue
<1> QED
  BY <1>1, <1>2, <1>3, <1>4 DEF OrderSame, Sealing, Front, Watermark

LEMMA OrderLifeSame ==
  ASSUME Base,
         FlushBegin \/ Flush \/ ExplicitSeal \/ ShutdownBegin \/ DropPipeline \/ DropSender
  PROVE  OrderSame
<1>1. /\ UNCHANGED <<wal, ckpt, applied, queue, todo, conf, seal, backlog, prod, work>>
      /\ phase' = phase \/ (phase \in {"up", "closing"} /\ phase' \in {"closing", "draining"})
  BY DEF FlushBegin, Flush, FlushReadDepth, FlushReadBacklog, ExplicitSeal, ShutdownBegin,
         DropPipeline, DropSender, disk, core, chan, threads, told
<1>2. Appending' + backlog' = Appending + backlog
  BY <1>1 DEF Appending
<1> QED
  BY <1>1, <1>2 DEF OrderSame, Sealing, Front, Watermark

\* A thread that holds the core lock is the only one between the WAL and the queue.
LEMMA NoneAppending ==
  ASSUME ThreadInv, lock \notin Producers
  PROVE  Appending = 0
BY DEF ThreadInv, LockInv, Appending

LEMMA OrderReset ==
  ASSUME Base, ResetMemory, phase' \in {"down", "stopped"}
  PROVE  OrderInv'
BY DEF ResetMemory, OrderInv, NextInHand, LineInv, Sealing, NoSeal, NoWork

LEMMA OrderStart ==
  ASSUME Base, Start
  PROVE  OrderInv'
<1>1. /\ wal' = wal /\ ckpt' = ckpt /\ phase' = "recovering" /\ todo'.from = ckpt + 1
      /\ UNCHANGED <<queue, seal, work>>
      /\ seal.pc = "none" /\ queue = <<>> /\ work.pc = "none"
  BY DEF Start, PendingAbove, disk, chan, threads, Base, ThreadInv, Asleep, CountInv, DrainInv
<1>2. Watermark' = ckpt
  BY <1>1, Numbers DEF Start, Watermark, MaxOf, Base, TypeInv, Bounded
<1> QED
  BY <1>1, <1>2 DEF OrderInv, NextInHand, LineInv, Sealing

\* A strict append seals at once, behind everything; a durable one has to be queued.
LEMMA OrderWalAppend ==
  ASSUME Base, OrderInv, NEW p \in Producers, WalAppend(p)
  PROVE  OrderInv'
<1>1. /\ Len(wal') = Len(wal) + 1 /\ lock = p /\ prod[p].pc = "wal"
      /\ UNCHANGED <<ckpt, applied, queue, todo, backlog, phase, work, conf>>
  BY DEF WalAppend, chan, told, Base, TypeInv, TypeOK, DiskType, ThreadInv, LockInv
<1>2. seal.pc = "none" /\ ~Sealing /\ phase # "recovering" /\ work.pc \notin {"replay", "seal"}
  BY <1>1, NullAssumption DEF Base, ThreadInv, LockInv, Sealing
<1>3. Watermark' = Watermark /\ Front' = Front
  BY <1>1 DEF Watermark, Front
<1>4. phase \in {"up", "closing", "draining"} /\ conf.mode # "best_effort"
  BY <1>1 DEF Base, ThreadInv, Asleep, ModeInv, UsesWal, TypeInv, TypeOK, CoreType
<1>5. CASE conf.mode = "strict"
  <2>1. /\ seal' = StartSeal(Len(wal) + 1, prod[p].ev) /\ work.pc = "none" /\ queue = <<>>
    BY <1>5 DEF WalAppend, Base, ThreadInv, ModeInv
  <2>2. Len(wal) = Watermark
    BY <1>2, <1>4, <1>5, Numbers DEF Base, OrderInv, LineInv
  <2>3. Sealing' /\ seal'.item.seq = Len(wal) + 1 /\ seal'.pc = "check"
    BY <2>1 DEF StartSeal, Sealing
  <2> QED
    BY <1>1, <1>2, <1>3, <1>5, <2>1, <2>2, <2>3 DEF OrderInv, NextInHand, LineInv
<1>6. CASE conf.mode # "strict"
  <2>1. seal' = seal /\ prod'[p].pc = "dispatch"
    BY <1>6 DEF WalAppend, Base, TypeInv, TypeOK, ThreadType
  <2>2. Appending = 0
    BY <1>1 DEF Appending, Base, ThreadInv, LockInv
  <2>3. Appending' = 1
    BY <2>1 DEF Appending
  <2>4. NextInHand'
    BY <1>1, <1>2, <1>3, <2>1 DEF OrderInv, NextInHand, Sealing
  <2>5. LineInv'
    BY <1>1, <1>3, <1>4, <1>6, <2>2, <2>3, Numbers DEF Base, OrderInv, LineInv
  <2> QED
    BY <2>4, <2>5 DEF OrderInv
<1> QED
  BY <1>5, <1>6

LEMMA OrderEnqueue ==
  ASSUME Base, OrderInv, NEW p \in Producers, Enqueue(p)
  PROVE  OrderInv'
<1> DEFINE it == [seq |-> prod[p].seq, ev |-> prod[p].ev]
<1>1. /\ Len(queue') = Len(queue) + 1 /\ queue'[Len(queue) + 1] = it
      /\ \A i \in 1..Len(queue) : queue'[i] = queue[i]
      /\ Len(queue) \in Nat /\ backlog = 0
  <2>1. queue' = Append(queue, it) /\ it \in Items
    BY DEF Enqueue, Base, TypeInv, TypeOK, ThreadType, Calls, Items
  <2>2. backlog = 0
    BY Numbers DEF Base, Enqueue, Spills
  <2> QED
    BY <2>1, <2>2, QueueAppend DEF Base, TypeInv, TypeOK, CoreType
<1>2. /\ UNCHANGED <<wal, ckpt, applied, seal, todo, backlog, phase, work, conf>>
      /\ lock = p /\ prod[p].pc = "dispatch" /\ prod'[p].pc = "depth"
      /\ \A q \in Producers : q # p => prod'[q] = prod[q]
  BY DEF Enqueue, CallGoes, disk, core, told, Base, TypeInv, TypeOK, ThreadType, ThreadInv,
         LockInv
<1>3. /\ phase \in {"up", "closing", "draining"} /\ conf.mode = "durable"
      /\ it.seq = Len(wal)
  BY <1>2 DEF Base, ThreadInv, Asleep, ModeInv, CountInv, ItemInv, TypeInv, TypeOK, CoreType
<1>4. Appending = 1 /\ Appending' = 0
  <2>1. Appending = 1
    BY <1>2 DEF Appending
  <2>2. \A q \in Producers : prod'[q].pc \notin {"dispatch", "backlog"}
    BY <1>2 DEF Base, ThreadInv, LockInv
  <2> QED
    BY <2>1, <2>2 DEF Appending
<1>5. Watermark' = Watermark /\ Front' = Front
  BY <1>2 DEF Watermark, Front
<1>6. Len(wal) = Front + Len(queue) + 1
  <2>1. work.pc \notin {"scan", "replay"}
    BY <1>2, NullAssumption DEF Base, ThreadInv, LockInv
  <2>2. Len(wal) = Front + Len(queue) + Appending + backlog
    BY <1>3, <2>1 DEF OrderInv, LineInv
  <2> QED
    BY <1>1, <1>4, <2>2, Numbers DEF Base
<1>7. NextInHand'
  BY <1>2, <1>5 DEF OrderInv, NextInHand, Sealing
<1>8. ASSUME NEW i \in 1..Len(queue')
      PROVE  queue'[i].seq = Front' + i
  <2>1. CASE i \in 1..Len(queue)
    BY <2>1, <1>1, <1>5 DEF OrderInv, LineInv
  <2>2. CASE i = Len(queue) + 1
    <3>1. queue'[i].seq = it.seq
      BY <2>2, <1>1
    <3> HIDE DEF it
    <3> QED
      BY <2>2, <3>1, <1>1, <1>3, <1>5, <1>6, Numbers DEF Base
  <2> QED
    BY <2>1, <2>2, <1>1
<1> HIDE DEF it
<1>9. Len(wal') = Front' + Len(queue') + Appending' + backlog'
  BY <1>1, <1>2, <1>4, <1>5, <1>6, Numbers DEF Base
<1>10. LineInv'
  BY <1>2, <1>3, <1>8, <1>9 DEF LineInv
<1> QED
  BY <1>7, <1>10 DEF OrderInv

\* The record in hand is passed: it was the next one.
LEMMA OrderAdvance ==
  ASSUME Base, OrderInv, UsesWal, AdvanceWatermark
  PROVE  OrderInv'
<1>1. /\ UNCHANGED <<wal, queue, todo, phase, backlog, work, prod, conf>>
      /\ seal'.item = seal.item /\ seal.pc = "mark" /\ seal'.pc \in {"block", "done"}
  BY DEF AdvanceWatermark, SealUnchanged, SealGoes, SealEnds, chan, threads, told
<1>2. seal.item.seq = Watermark + 1
  BY <1>1 DEF OrderInv, NextInHand, Sealing
<1>3. Watermark' = Watermark + 1
  <2>1. applied' = Watermark + 1 /\ ckpt' \in {ckpt, Watermark + 1}
    BY <1>2, Numbers DEF Base, AdvanceWatermark, MaxOf, Watermark
  <2> QED
    BY <2>1, Numbers DEF Base, Watermark, MaxOf
<1>4. Sealing /\ ~Sealing' /\ work.pc # "lock"
  BY <1>1, SealIdle DEF Sealing, Base
<1>5. NextInHand'
  BY <1>1, <1>2, <1>3, <1>4, Numbers DEF Base, OrderInv, NextInHand
<1>6. CASE work.pc = "seal"
  <2>1. Front' = Front /\ conf.mode # "strict"
    BY <1>1, <1>6 DEF Front, Base, ThreadInv, ModeInv
  <2> QED
    BY <1>1, <1>5, <2>1 DEF OrderInv, LineInv, Appending
<1>7. CASE work.pc # "seal"
  <2>1. /\ phase = "recovering" \/ work.pc = "replay" \/ conf.mode = "strict"
    BY <1>1, <1>7 DEF Base, ThreadInv, LockInv, ModeInv, TypeInv, TypeOK, CoreType
  <2>2. /\ queue = <<>>
        /\ phase = "recovering" \/ work.pc = "replay" \/ conf.mode = "strict"
    BY <2>1, <1>4, Modes
       DEF Base, CountInv, DrainInv, ThreadInv, Asleep, ModeInv, UsesWal
  <2>3. LineInv'
    BY <1>1, <1>3, <1>4, <2>2, Numbers, SMTT(20) DEF Base, OrderInv, LineInv
  <2> QED
    BY <1>5, <2>3 DEF OrderInv
<1> QED
  BY <1>6, <1>7

LEMMA OrderRecv ==
  ASSUME Base, OrderInv, WorkerRecv
  PROVE  OrderInv'
<1>1. /\ queue # <<>> /\ work'.item = queue[1] /\ work'.pc = "lock" /\ work.pc = "idle"
      /\ Len(queue) \in Nat /\ Len(queue') = Len(queue) - 1 /\ Len(queue) >= 1
      /\ \A i \in 1..Len(queue') : queue'[i] = queue[i + 1]
  BY QueueHead DEF WorkerRecv, Base, TypeInv, TypeOK, CoreType
<1>2. UNCHANGED <<wal, ckpt, applied, seal, todo, phase, backlog, prod, conf>>
  BY DEF WorkerRecv, disk, core, told
<1>3. seal.pc = "none" /\ phase # "recovering" /\ conf.mode # "strict"
  BY <1>1, SealIdle DEF Base, ThreadInv, Asleep, ModeInv
<1>4. Watermark' = Watermark /\ Front = Watermark /\ Front' = queue[1].seq
  BY <1>1, <1>2 DEF Watermark, Front
<1>5. queue[1].seq = Watermark + 1
  BY <1>1, <1>4 DEF OrderInv, LineInv
<1>6. NextInHand'
  BY <1>1, <1>2, <1>3, <1>4, <1>5 DEF NextInHand, Sealing
<1>7. ASSUME NEW i \in 1..Len(queue')
      PROVE  queue'[i].seq = Front' + i
  <2>1. i + 1 \in 1..Len(queue) /\ queue'[i] = queue[i + 1]
    BY <1>1
  <2>2. queue[i + 1].seq = Front + (i + 1)
    BY <2>1 DEF OrderInv, LineInv
  <2> QED
    BY <2>1, <2>2, <1>4, <1>5, Numbers DEF Base
<1>8. conf.mode = "durable" /\ phase \in {"up", "closing", "draining"} =>
         Len(wal) = Front' + Len(queue') + Appending + backlog
  BY <1>1, <1>4, <1>5, Numbers, SMTT(20) DEF Base, OrderInv, LineInv
<1>9. LineInv'
  BY <1>2, <1>3, <1>7, <1>8 DEF LineInv, Appending
<1> QED
  BY <1>6, <1>9 DEF OrderInv

LEMMA OrderLock ==
  ASSUME Base, OrderInv, WorkerLock
  PROVE  OrderInv'
<1>1. /\ UNCHANGED <<wal, ckpt, applied, queue, todo, phase, backlog, prod, conf>>
      /\ work.pc = "lock" /\ work'.pc = "seal" /\ work'.item = work.item
      /\ seal'.item.seq = work.item.seq /\ seal'.pc = "check"
  BY DEF WorkerLock, WorkerGoes, StartSeal, disk, chan, told
<1>2. phase # "recovering" /\ conf.mode # "strict"
  BY <1>1 DEF Base, ThreadInv, Asleep, ModeInv
<1>3. Watermark' = Watermark /\ Front' = Front /\ Sealing' /\ Appending' = Appending
  BY <1>1 DEF Watermark, Front, Sealing, Appending
<1>4. NextInHand' /\ LineInv'
  BY <1>1, <1>2, <1>3 DEF OrderInv, NextInHand, LineInv
<1> QED
  BY <1>4 DEF OrderInv

LEMMA OrderUnlock ==
  ASSUME Base, OrderInv, WorkerUnlock
  PROVE  OrderInv'
<1>1. /\ UNCHANGED <<wal, ckpt, applied, queue, todo, phase, backlog, prod, conf>>
      /\ work.pc = "seal" /\ seal.pc = "done" /\ work'.pc = "sub" /\ seal'.pc = "none"
  BY DEF WorkerUnlock, NoSeal, disk, chan, told
<1>2. phase # "recovering" /\ conf.mode # "strict" /\ work.item.seq = seal.item.seq
  BY <1>1 DEF Base, ThreadInv, Asleep, ModeInv, LockInv
<1>3. seal.item.seq = Watermark
  BY <1>1 DEF OrderInv, NextInHand
<1>4. Watermark' = Watermark /\ Front' = Front /\ ~Sealing' /\ Appending' = Appending
  BY <1>1, <1>2, <1>3 DEF Watermark, Front, Sealing, Appending
<1>5. NextInHand' /\ LineInv'
  BY <1>1, <1>2, <1>4 DEF OrderInv, NextInHand, LineInv
<1> QED
  BY <1>5 DEF OrderInv

\* A scan finds an empty queue, and an append cannot run.
LEMMA OrderScan ==
  ASSUME Base, OrderInv, UsesWal, Lossless, DrainScan \/ DrainReset
  PROVE  OrderInv'
<1>1. /\ UNCHANGED <<wal, ckpt, applied, queue, seal, phase, prod, conf>>
      /\ work.pc = "scan"
  BY DEF DrainScan, DrainReset, disk, core, chan, told
<1>2. /\ lock = "worker" /\ seal.pc = "none" /\ phase # "recovering"
      /\ conf.mode = "durable" /\ queue = <<>> /\ backlog > 0
  BY <1>1, Modes
     DEF Base, ThreadInv, Asleep, LockInv, ModeInv, UsesWal, CountInv, DrainInv
<1>3. work'.pc \notin {"lock", "seal"}
  BY DEF DrainScan, DrainReset, WorkerGoes, AfterDrain
<1>4. /\ Watermark' = Watermark /\ Front' = Watermark /\ ~Sealing'
      /\ Appending' = Appending
  BY <1>1, <1>2, <1>3 DEF Watermark, Front, Sealing, Appending
<1>5. CASE DrainScan
  <2>1. todo'.from = Watermark + 1 /\ work'.pc = "replay"
    BY <1>5 DEF DrainScan, PendingAbove, WorkerGoes
  <2> QED
    BY <1>1, <1>2, <1>3, <1>4, <2>1, Numbers DEF Base, OrderInv, NextInHand, LineInv
<1>6. CASE DrainReset
  <2>1. Appending = 0
    BY <1>2, NoneAppending, NullAssumption DEF Base
  <2>2. Len(wal) = Watermark
    <3>1. Watermark >= Len(wal) /\ Watermark <= Len(wal)
      BY <1>6 DEF DrainReset, Lossless, Base, TypeInv, Bounded, Watermark, MaxOf
    <3> QED
      BY <3>1, Numbers DEF Base
  <2>3. work'.pc # "replay"
    BY <1>6 DEF DrainReset, WorkerGoes, AfterDrain
  <2>4. NextInHand'
    BY <1>1, <1>2, <1>3, <1>4, <2>3 DEF NextInHand
  <2>5. backlog' = 0
    BY <1>6 DEF DrainReset
  <2>6. LineInv'
    BY <1>1, <1>2, <1>4, <2>1, <2>2, <2>5, Numbers DEF Base, LineInv
  <2> QED
    BY <2>4, <2>6 DEF OrderInv
<1> QED
  BY <1>5, <1>6

\* A batch goes on where the watermark is, with nobody in the line.
LEMMA OrderNext ==
  ASSUME Base, OrderInv, UsesWal, DrainNext \/ RecoverNext
  PROVE  OrderInv'
<1>1. /\ UNCHANGED <<wal, ckpt, applied, queue, phase, prod, work, backlog, conf>>
      /\ TakeRecord /\ seal.pc \in {"none", "done"}
      /\ phase = "recovering" \/ work.pc = "replay"
  BY DEF DrainNext, RecoverNext, Replaying, disk, chan, threads, told
<1>2. /\ seal'.item.seq = todo.from /\ seal'.pc = "check" /\ todo'.from = todo.from + 1
  BY <1>1 DEF TakeRecord, StartSeal
<1>3. work.pc # "lock" /\ (phase # "recovering" => conf.mode # "strict")
  BY <1>1 DEF Base, ThreadInv, Asleep, ModeInv
<1>4. Watermark' = Watermark /\ Front' = Front /\ ~Sealing /\ Sealing' /\ Appending' = Appending
  BY <1>1, <1>2 DEF Watermark, Front, Sealing, Appending
<1>5. todo.from = Watermark + 1
  BY <1>1, <1>4 DEF OrderInv, NextInHand
<1>6. NextInHand'
  BY <1>1, <1>2, <1>3, <1>4, <1>5, Numbers DEF Base, OrderInv, NextInHand
<1>7. LineInv'
  BY <1>1, <1>3, <1>4 DEF OrderInv, LineInv
<1> QED
  BY <1>6, <1>7 DEF OrderInv

\* Recovery ends with the watermark at the end of the WAL.
LEMMA OrderBatchDone ==
  ASSUME Base, OrderInv, UsesWal, BatchSettled, DrainBatchDone \/ RecoverDone
  PROVE  OrderInv'
<1>1. /\ UNCHANGED <<wal, ckpt, applied, queue, prod, backlog, conf>>
      /\ NoMoreRecords /\ seal.pc \in {"none", "done"}
      /\ phase = "recovering" \/ work.pc = "replay"
  BY DEF DrainBatchDone, RecoverDone, Replaying, disk, chan, threads, told
<1>2. /\ seal'.pc = "none" /\ phase' # "recovering"
      /\ work.pc \notin {"lock", "seal"} /\ work'.pc \notin {"lock", "seal", "replay"}
  BY <1>1 DEF NoMoreRecords, NoSeal, DrainBatchDone, RecoverDone, Replaying, WorkerGoes, Base,
              ThreadInv, Asleep
<1>3. /\ Watermark' = Watermark /\ Front' = Watermark /\ Front = Watermark /\ ~Sealing
      /\ ~Sealing' /\ Appending' = Appending
  BY <1>1, <1>2 DEF Watermark, Front, Sealing, Appending
<1>4. todo.from = Watermark + 1
  BY <1>1, <1>3 DEF OrderInv, NextInHand
<1>5. NextInHand'
  BY <1>2, <1>3 DEF NextInHand
<1>6. CASE DrainBatchDone
  <2>1. work'.pc = "scan" /\ phase' = phase
    BY <1>6 DEF DrainBatchDone, WorkerGoes
  <2> QED
    BY <1>1, <1>2, <1>3, <1>5, <2>1 DEF OrderInv, LineInv, Base, ThreadInv, ModeInv
<1>7. CASE RecoverDone
  <2>1. phase = "recovering" /\ queue = <<>> /\ backlog = 0 /\ lock = "start"
    BY <1>7 DEF RecoverDone, Replaying, Base, CountInv, DrainInv, ThreadInv, LockInv
  <2>2. Len(wal) = Watermark
    <3>1. Watermark <= Len(wal)
      BY DEF Base, TypeInv, Bounded, Watermark, MaxOf
    <3>2. Len(wal) < todo.from
      BY <1>1, <2>1, Numbers DEF NoMoreRecords, BatchSettled, Base
    <3> QED
      BY <3>1, <3>2, <1>4, Numbers DEF Base
  <2>3. Appending = 0
    BY <2>1, NoneAppending, NullAssumption DEF Base
  <2>4. LineInv'
    BY <1>1, <1>3, <2>1, <2>2, <2>3, Numbers DEF Base, LineInv
  <2> QED
    BY <1>5, <2>4 DEF OrderInv
<1> QED
  BY <1>6, <1>7

LEMMA OrderInit == Init => OrderInv
  BY DEF Init, OrderInv, NextInHand, LineInv, Sealing, NoSeal, NoWork

LEMMA OrderStep ==
  ASSUME Base, OrderInv, UsesWal, Lossless, BatchSettled, [Next]_vars
  PROVE  OrderInv'
<1> USE OrderFrame
<1>1. TypeInv /\ TypeInv'
  BY TypeStep DEF Base
<1>2. CASE UNCHANGED vars
  BY <1>1, <1>2 DEF vars, disk, core, chan, threads, told, OrderSame, Sealing, Front,
                    Watermark, Appending
<1>3. CASE \E p \in Producers, e \in Events, valid \in BOOLEAN : Submit(p, e, valid)
  BY <1>1, <1>3, OrderSubmit
<1>4. CASE \E p \in Producers : Produce(p)
  <2>1. PICK p \in Producers : Produce(p)
    BY <1>4
  <2>2. CASE SendBestEffort(p)
    BY <2>2 DEF SendBestEffort, Base, ThreadInv, ModeInv, UsesWal
  <2> QED
    BY <1>1, <2>1, <2>2, OrderProduceSame, OrderWalAppend, OrderEnqueue DEF Produce
<1>5. CASE SealOne
  BY <1>1, <1>5, OrderSealSame, OrderAdvance
<1>6. CASE Worker
  BY <1>1, <1>6, OrderWorkerSame, OrderRecv, OrderLock, OrderUnlock, OrderScan, OrderNext,
     OrderBatchDone DEF Worker
<1>7. CASE FlushBegin \/ Flush \/ ExplicitSeal \/ ShutdownBegin \/ DropPipeline \/ DropSender
  BY <1>1, <1>7, OrderLifeSame
<1>8. CASE Start
  BY <1>8, OrderStart
<1>9. CASE RecoverNext \/ RecoverDone
  BY <1>9, OrderNext, OrderBatchDone
<1>10. CASE StartFails \/ Crash \/ ShutdownJoin
  BY <1>10, OrderReset DEF StartFails, Crash, ShutdownJoin
<1> QED
  BY <1>2, <1>3, <1>4, <1>5, <1>6, <1>7, <1>8, <1>9, <1>10 DEF Next, Recover, Shutdown

-----------------------------------------------------------------------------
(* What seal_one is done with, and what was acknowledged *)

\* Nothing that is booked or parked goes away.
LEMMA SettledStays ==
  ASSUME TypeInv, [Next]_vars
  PROVE  /\ \A e : InLedger(e) => InLedger(e)'
         /\ \A e : Settled(e) => Settled(e)'
         /\ conf' = conf /\ Lossless' = Lossless /\ UsesWal' = UsesWal
<1>1. dead \subseteq dead' /\ conf' = conf
  BY DiskGrows
<1>2. /\ Len(ledger) \in Nat /\ Len(ledger') \in Nat /\ Len(ledger) <= Len(ledger')
      /\ \A i \in 1..Len(ledger) : ledger'[i] = ledger[i]
  BY DiskGrows, SMTT(20) DEF TypeInv, TypeOK, DiskType
<1>3. \A e : InLedger(e) => InLedger(e)'
  BY <1>2 DEF InLedger
<1>4. \A e : Parked(e) => Parked(e)'
  BY <1>1 DEF Parked
<1> QED
  BY <1>1, <1>3, <1>4 DEF Settled, Lossless, UsesWal

\* Apart from its own steps, seal_one is entered with a record or left.
LEMMA SealStarts ==
  ASSUME [Next]_vars, ~SealOne
  PROVE  seal' = seal \/ (seal'.pc \in {"none", "check"} /\ seal'.res = "none")
<1> USE DEF NoSeal, StartSeal, TakeRecord, NoMoreRecords, ResetMemory, disk, core, chan,
            threads, told
<1>1. CASE UNCHANGED vars
  BY <1>1 DEF vars
<1>2. CASE \E p \in Producers, e \in Events, valid \in BOOLEAN : Submit(p, e, valid)
  BY <1>2 DEF Submit
<1>3. CASE \E p \in Producers : Produce(p)
  BY <1>3 DEF Produce, RefuseInvalid, AnswerDuplicate, RefuseConflict, PassDedup, WalAppend,
              WalRefuse, Spill, Enqueue, SendBestEffort, RefuseFull, CountQueued, CountSpilled,
              StrictReply
<1>4. CASE Worker
  BY <1>4 DEF Worker, WorkerRecv, WorkerLock, WorkerUnlock, WorkerUncount, WorkerIdle,
              DrainReadBacklog, DrainReadDepth, DrainLock, DrainScan, DrainReset, DrainNext,
              DrainBatchDone, AgeNotDue, AgeDue
<1>5. CASE \/ Start \/ Recover \/ Crash \/ FlushBegin \/ Flush \/ ExplicitSeal
           \/ ShutdownBegin \/ DropPipeline \/ Shutdown
  BY <1>5 DEF Start, Recover, RecoverNext, RecoverDone, StartFails, Crash, FlushBegin, Flush,
              FlushReadDepth, FlushReadBacklog, ExplicitSeal, ShutdownBegin, DropPipeline,
              Shutdown, DropSender, ShutdownJoin
<1> QED
  BY <1>1, <1>2, <1>3, <1>4, <1>5 DEF Next

\* A record leaves the checks and the retries booked, parked or known to be booked.
LEMMA SealedStep ==
  ASSUME Base, OnceInv, SealedInv, [Next]_vars
  PROVE  SealedInv'
<1>0. TypeInv
  BY DEF Base
<1>ev. PICK ev : ev = seal.item.ev
  OBVIOUS
<1>1. Lossless' = Lossless /\ (InLedger(ev) => InLedger(ev)') /\ (Settled(ev) => Settled(ev)')
  BY <1>0, SettledStays
<1>2. CASE ~SealOne
  <2>1. CASE seal' = seal
    BY <1>1, <2>1, <1>ev DEF SealedInv, InLedger, Settled, Parked
  <2>2. CASE seal'.pc \in {"none", "check"} /\ seal'.res = "none"
    BY <2>2 DEF SealedInv
  <2> QED
    BY <1>2, <2>1, <2>2, SealStarts
<1>3. CASE SealOne
  <2>1. seal'.item.ev = ev /\ seal.pc # "none"
    BY <1>3, <1>ev, SealKeeps
  <2>2. SUFFICES /\ seal'.res = "appended" => InLedger(ev)'
                 /\ Lossless /\ seal'.pc \in {"mark", "block", "done"} => Settled(ev)'
    BY <1>1, <2>1 DEF SealedInv, InLedger, Settled, Parked
  <2>3. CASE SealCheckDuplicate
    <3>1. /\ ev \in Events /\ phase \notin {"down", "stopped"}
          /\ dedup[ev.id] = ev.hash /\ seal'.res = "duplicate"
      BY <2>1, <2>3, <1>ev
         DEF SealCheckDuplicate, SealGoes, Base, TypeInv, Proper, ThreadInv, Asleep
    <3>2. ev.id \in EventIds /\ ev.hash # NoHash /\ ev = [id |-> ev.id, hash |-> ev.hash]
      BY <3>1, NullAssumption DEF Events
    <3>3. InLedger(ev)
      BY <3>1, <3>2 DEF OnceInv, DedupAgrees
    <3> QED
      BY <1>1, <3>1, <3>3 DEF Settled
  <2>4. CASE SealCheckConflict \/ SealExhaust
    <3>1. PICK ok \in BOOLEAN, r \in {"conflict", "exhausted"} :
             /\ RecordDeadLetter(ev, r, ok)
             /\ IF ok THEN SealGoes("mark", "terminal") ELSE SealEnds("error")
      BY <2>4, <1>ev DEF SealCheckConflict, SealExhaust
    <3>2. seal'.res # "appended"
      BY <3>1 DEF SealGoes, SealEnds
    <3>3. Lossless => [ev |-> ev, reason |-> r] \in dead'
      BY <3>1 DEF RecordDeadLetter, Lossless
    <3>4. Lossless => Parked(ev)'
      BY <3>3 DEF Parked, Reasons
    <3> QED
      BY <3>2, <3>4 DEF Settled
  <2>5. CASE SealAppend
    <3>1. ledger' = Append(ledger, ev) /\ ledger \in Seq(Events) /\ ev \in Events
      BY <2>1, <2>5, <1>ev DEF SealAppend, Base, TypeInv, TypeOK, DiskType, Proper
    <3>2. Len(ledger') = Len(ledger) + 1 /\ ledger'[Len(ledger) + 1] = ev /\ Len(ledger) \in Nat
      BY <3>1
    <3>3. InLedger(ev)'
      BY <3>2 DEF InLedger
    <3> QED
      BY <3>3 DEF Settled
  <2>6. CASE SealCheckFresh \/ SealRetry
    BY <2>6 DEF SealCheckFresh, SealRetry, SealTries
  <2>7. CASE AdvanceWatermark \/ SealByCount
    <3>1. seal.pc \in {"mark", "block"} /\ seal'.res \in {seal.res, "error"}
      BY <2>7 DEF AdvanceWatermark, SealByCount, SealGoes, SealEnds
    <3> QED
      BY <1>1, <3>1, <1>ev DEF SealedInv
  <2> QED
    BY <1>3, <2>3, <2>4, <2>5, <2>6, <2>7 DEF SealOne
<1> QED
  BY <1>2, <1>3

\* Who is told that an event is accepted: the caller whose record was queued,
\* spilled or sealed.  A crash takes back only what best effort did not settle.
LEMMA AckedSteps ==
  ASSUME TypeInv, [Next]_vars
  PROVE  /\ \A e \in acked' : \/ e \in acked
                              \/ \E p \in Producers :
                                    /\ CountQueued(p) \/ CountSpilled(p)
                                       \/ (StrictReply(p) /\ seal.res = "appended")
                                    /\ e = prod[p].ev
         /\ acked \subseteq acked' \/ (~UsesWal /\ Crash)
         /\ Crash /\ ~UsesWal => \A e \in acked' : Settled(e)
<1> USE DEF told
<1>1. CASE UNCHANGED vars \/ SealOne \/ Worker
  <2>1. acked' = acked
    BY <1>1 DEF vars, SealOne, SealCheckDuplicate, SealCheckConflict, SealCheckFresh,
       SealAppend, SealRetry, SealExhaust, AdvanceWatermark, SealByCount, SealUnchanged,
       Worker, WorkerRecv, WorkerLock, WorkerUnlock, WorkerUncount, WorkerIdle,
       DrainReadBacklog, DrainReadDepth, DrainLock, DrainScan, DrainReset, DrainNext,
       DrainBatchDone, AgeNotDue, AgeDue
  <2>2. ~Crash
    BY <1>1 DEF Crash, vars, SealOne, SealCheckDuplicate, SealCheckConflict, SealCheckFresh,
       SealAppend, SealRetry, SealExhaust, AdvanceWatermark, SealByCount, SealUnchanged,
       Worker, WorkerRecv, WorkerLock, WorkerUnlock, WorkerUncount, WorkerIdle,
       DrainReadBacklog, DrainReadDepth, DrainLock, DrainScan, DrainReset, DrainNext,
       DrainBatchDone, AgeNotDue, AgeDue, TypeInv, TypeOK, ToldType
  <2> QED
    BY <2>1, <2>2
<1>2. CASE \E p \in Producers, e \in Events, valid \in BOOLEAN : Submit(p, e, valid)
  BY <1>2 DEF Submit, Crash, TypeInv, TypeOK, ToldType
<1>3. ASSUME NEW p \in Producers, Produce(p)
      PROVE  /\ \/ acked' = acked
                \/ /\ CountQueued(p) \/ CountSpilled(p)
                      \/ (StrictReply(p) /\ seal.res = "appended")
                   /\ acked' = acked \cup {prod[p].ev}
             /\ ~Crash
  <2>1. crashes' = crashes /\ crashes \in Nat
    BY <1>3 DEF Produce, RefuseInvalid, AnswerDuplicate, RefuseConflict, PassDedup, WalAppend,
       WalRefuse, Spill, Enqueue, SendBestEffort, RefuseFull, CountQueued, CountSpilled,
       StrictReply, TypeInv, TypeOK, ToldType
  <2> QED
    BY <1>3, <2>1 DEF Produce, RefuseInvalid, AnswerDuplicate, RefuseConflict, PassDedup,
       WalAppend, WalRefuse, Spill, Enqueue, SendBestEffort, RefuseFull, CountQueued,
       CountSpilled, StrictReply, Crash
<1>4. CASE \/ Start \/ Recover \/ FlushBegin \/ Flush \/ ExplicitSeal
           \/ ShutdownBegin \/ DropPipeline \/ Shutdown
  <2>1. acked' = acked /\ crashes' = crashes
    BY <1>4 DEF Start, Recover, RecoverNext, RecoverDone, StartFails, FlushBegin, Flush,
       FlushReadDepth, FlushReadBacklog, ExplicitSeal, ShutdownBegin, DropPipeline,
       Shutdown, DropSender, ShutdownJoin
  <2> QED
    BY <2>1 DEF Crash, TypeInv, TypeOK, ToldType
<1>5. CASE Crash
  <2>1. acked' = IF UsesWal THEN acked ELSE {e \in acked : Settled(e)}
    BY <1>5 DEF Crash
  <2> QED
    BY <1>5, <2>1
<1>6. CASE \E p \in Producers : Produce(p)
  BY <1>3, <1>6
<1> QED
  BY <1>1, <1>2, <1>4, <1>5, <1>6 DEF Next

\* A strict append answers with success for what is in the ledger.
LEMMA AckSealedStep ==
  ASSUME Base, SealedInv, AckedSealed, [Next]_vars
  PROVE  AckedSealed'
<1>1. TypeInv /\ conf' = conf
  BY SettledStays DEF Base
<1>2. SUFFICES ASSUME conf.mode = "strict", NEW e \in acked'
               PROVE  Settled(e)'
  BY <1>1 DEF AckedSealed
<1>3. Settled(e) => Settled(e)'
  BY <1>1, SettledStays
<1>4. CASE e \in acked
  BY <1>2, <1>3, <1>4 DEF AckedSealed
<1>5. CASE \E p \in Producers : (CountQueued(p) \/ CountSpilled(p)) /\ e = prod[p].ev
  BY <1>2, <1>5 DEF CountQueued, CountSpilled, Base, ThreadInv, ModeInv
<1>6. CASE \E p \in Producers : StrictReply(p) /\ seal.res = "appended" /\ e = prod[p].ev
  <2>1. InLedger(e)
    BY <1>6 DEF StrictReply, SealedInv, Base, CountInv, ItemInv
  <2> QED
    BY <1>3, <2>1 DEF Settled
<1> QED
  BY <1>1, <1>4, <1>5, <1>6, AckedSteps

\* A record that was handed over stays so: a call that is past the dispatch only
\* moves on, and a new one has the next number.
LEMMA CallsMoveOn ==
  ASSUME TypeInv, ThreadInv, conf.mode = "durable", [Next]_vars, NEW q \in Producers,
         prod'[q].pc \in {"dispatch", "backlog", "depth"}
  PROVE  \/ /\ prod[q].pc \in {"dispatch", "backlog", "depth"}
            /\ prod'[q].seq = prod[q].seq
         \/ prod'[q].seq = Len(wal) + 1
<1> USE DEF TypeInv, TypeOK, ThreadType, Calls
<1>1. CASE \E p \in Producers, e \in Events, valid \in BOOLEAN : Submit(p, e, valid)
  BY <1>1 DEF Submit
<1>2. ASSUME NEW p \in Producers, Produce(p)
      PROVE  \/ /\ prod[q].pc \in {"dispatch", "backlog", "depth"}
                /\ prod'[q].seq = prod[q].seq
             \/ prod'[q].seq = Len(wal) + 1
  <2> USE DEF Returns, NoCall, CallGoes
  <2>1. CASE \/ RefuseInvalid(p) \/ AnswerDuplicate(p) \/ RefuseConflict(p) \/ WalRefuse(p)
             \/ RefuseFull(p) \/ CountQueued(p) \/ CountSpilled(p) \/ StrictReply(p)
    BY <2>1 DEF RefuseInvalid, AnswerDuplicate, RefuseConflict, WalRefuse, RefuseFull,
                CountQueued, CountSpilled, StrictReply
  <2>2. CASE PassDedup(p)
    BY <2>2 DEF PassDedup
  <2>3. CASE Spill(p) \/ Enqueue(p)
    BY <2>3 DEF Spill, Enqueue
  <2>4. CASE WalAppend(p)
    BY <2>4 DEF WalAppend
  <2>5. CASE SendBestEffort(p)
    BY <2>5 DEF SendBestEffort, ThreadInv, ModeInv
  <2> QED
    BY <1>2, <2>1, <2>2, <2>3, <2>4, <2>5 DEF Produce
<1>3. CASE UNCHANGED vars \/ SealOne \/ Worker
  BY <1>3 DEF vars, threads, SealOne, SealCheckDuplicate, SealCheckConflict, SealCheckFresh,
     SealAppend, SealRetry, SealExhaust, AdvanceWatermark, SealByCount, SealUnchanged,
     Worker, WorkerRecv, WorkerLock, WorkerUnlock, WorkerUncount, WorkerIdle,
     DrainReadBacklog, DrainReadDepth, DrainLock, DrainScan, DrainReset, DrainNext,
     DrainBatchDone, AgeNotDue, AgeDue
<1>4. CASE \/ Start \/ Recover \/ Crash \/ FlushBegin \/ Flush \/ ExplicitSeal
           \/ ShutdownBegin \/ DropPipeline \/ Shutdown
  BY <1>4 DEF threads, Start, Recover, RecoverNext, RecoverDone, StartFails, Crash,
     FlushBegin, Flush, FlushReadDepth, FlushReadBacklog, ExplicitSeal, ShutdownBegin,
     DropPipeline, Shutdown, DropSender, ShutdownJoin, ResetMemory, NoCall
<1> QED
  BY <1>1, <1>2, <1>3, <1>4 DEF Next

LEMMA AckInWalStep ==
  ASSUME Base, AckedInWal, [Next]_vars
  PROVE  AckedInWal'
<1>1. TypeInv /\ ThreadInv /\ conf' = conf
  BY SettledStays DEF Base
<1>2. /\ Len(wal) \in Nat /\ Len(wal') \in Nat /\ Len(wal) <= Len(wal')
      /\ \A t \in 1..Len(wal) : wal'[t] = wal[t]
  BY <1>1, DiskGrows DEF TypeInv, TypeOK, DiskType
<1>3. SUFFICES ASSUME conf.mode = "durable", NEW e \in acked'
               PROVE  Settled(e)' \/ \E t \in 1..Len(wal') : wal'[t] = e /\ HandedOver(t)'
  BY <1>1 DEF AckedInWal
<1>4. Settled(e) => Settled(e)'
  BY <1>1, SettledStays
<1>5. CASE e \in acked
  <2>1. CASE Settled(e)
    BY <1>4, <2>1
  <2>2. CASE ~Settled(e)
    <3>1. PICK t \in 1..Len(wal) : wal[t] = e /\ HandedOver(t)
      BY <1>3, <1>5, <2>2 DEF AckedInWal
    <3>2. ASSUME NEW q \in Producers, prod'[q].pc \in {"dispatch", "backlog", "depth"}
          PROVE  prod'[q].seq # t
      <4>1. CASE prod'[q].seq = Len(wal) + 1
        BY <1>2, <3>1, <4>1
      <4>2. CASE /\ prod[q].pc \in {"dispatch", "backlog", "depth"}
                 /\ prod'[q].seq = prod[q].seq
        BY <3>1, <4>2 DEF HandedOver
      <4> QED
        BY <1>1, <1>3, <3>2, <4>1, <4>2, CallsMoveOn
    <3>3. HandedOver(t)' /\ t \in 1..Len(wal') /\ wal'[t] = e
      BY <1>2, <3>1, <3>2 DEF HandedOver
    <3> QED
      BY <3>3
  <2> QED
    BY <2>1, <2>2
<1>6. CASE \E p \in Producers : (CountQueued(p) \/ CountSpilled(p)) /\ e = prod[p].ev
  <2>1. PICK p \in Producers : (CountQueued(p) \/ CountSpilled(p)) /\ e = prod[p].ev
    BY <1>6
  <2>2. /\ lock = p /\ Len(wal) > 0 /\ wal[Len(wal)] = e
        /\ \A q \in Producers : prod[q].pc \in {"dispatch", "backlog", "depth"} => q = p
    BY <1>3, <2>1 DEF CountQueued, CountSpilled, Base, CountInv, ItemInv
  <2>3. wal' = wal /\ prod' = [prod EXCEPT ![p] = NoCall]
    BY <2>1 DEF CountQueued, CountSpilled, Returns, disk
  <2>4. \A q \in Producers : prod'[q].pc \notin {"dispatch", "backlog", "depth"}
    BY <2>2, <2>3 DEF NoCall, Base, TypeInv, TypeOK, ThreadType
  <2>5. HandedOver(Len(wal))' /\ Len(wal) \in 1..Len(wal') /\ wal'[Len(wal)] = e
    BY <1>2, <2>2, <2>3, <2>4 DEF HandedOver
  <2> QED
    BY <2>3, <2>4, <2>5 DEF HandedOver
<1>7. CASE \E p \in Producers : StrictReply(p) /\ seal.res = "appended" /\ e = prod[p].ev
  BY <1>3, <1>7 DEF StrictReply, Base, ThreadInv, ModeInv
<1> QED
  BY <1>1, <1>5, <1>6, <1>7, AckedSteps

\* Best effort: what is queued or in a hand stays there until it is settled.
ProcessSame == queue' = queue /\ work'.item = work.item /\ seal'.item = seal.item

LEMMA ProcessSteps ==
  ASSUME Base, conf.mode = "best_effort", [Next]_vars, ~Crash
  PROVE  \/ ProcessSame
         \/ \E p \in Producers : SendBestEffort(p)
         \/ WorkerRecv \/ WorkerLock \/ WorkerUnlock \/ RecoverNext \/ RecoverDone
         \/ StartFails \/ ShutdownJoin
<1> USE DEF ProcessSame, disk, core, chan, threads, told
<1>1. CASE UNCHANGED vars
  BY <1>1 DEF vars
<1>2. CASE \E p \in Producers, e \in Events, valid \in BOOLEAN : Submit(p, e, valid)
  BY <1>2 DEF Submit
<1>3. CASE \E p \in Producers : Produce(p)
  <2>1. PICK p \in Producers : Produce(p)
    BY <1>3
  <2>2. prod[p].pc \notin {"wal", "dispatch", "backlog", "seal"}
    BY DEF Base, ThreadInv, ModeInv, UsesWal
  <2> QED
    BY <2>1, <2>2 DEF Produce, RefuseInvalid, AnswerDuplicate, RefuseConflict, PassDedup,
       WalAppend, WalRefuse, Spill, Enqueue, RefuseFull, CountQueued, CountSpilled,
       StrictReply
<1>4. CASE SealOne
  BY <1>4, SealKeeps DEF SealUnchanged
<1>5. CASE Worker
  <2>1. work.pc \notin {"drainDepth", "drainLock", "scan", "replay"}
    BY DEF Base, CountInv, DrainInv
  <2>2. work.pc = "idle" => work.item = NoItem
    BY DEF Base, CountInv, ItemInv
  <2> QED
    BY <1>5, <2>1, <2>2 DEF Worker, WorkerUncount, WorkerIdle, DrainReadBacklog,
       DrainReadDepth, DrainLock, DrainScan, DrainReset, DrainNext, DrainBatchDone,
       AgeNotDue, AgeDue, WorkerGoes
<1>6. CASE \/ Start \/ Recover \/ FlushBegin \/ Flush \/ ExplicitSeal
           \/ ShutdownBegin \/ DropPipeline \/ Shutdown
  BY <1>6 DEF Start, Recover, FlushBegin, Flush, FlushReadDepth, FlushReadBacklog,
     ExplicitSeal, ShutdownBegin, DropPipeline, Shutdown, DropSender
<1> QED
  BY <1>1, <1>2, <1>3, <1>4, <1>5, <1>6 DEF Next

\* The join finds nobody in the process: no call, nothing queued or in a hand.
LEMMA JoinedEmpty ==
  ASSUME Base, ShutdownJoin
  PROVE  /\ \A p \in Producers : prod[p].pc = "idle"
         /\ queue = <<>> /\ backlog = 0 /\ seal.pc = "none" /\ work.pc \in {"none", "gone"}
         /\ phase = "draining"
<1>1. phase = "draining" /\ work.pc \in {"none", "gone"}
  BY DEF ShutdownJoin
<1>2. \A p \in Producers : prod[p].pc = "idle"
  BY <1>1 DEF Base, CountInv, CloseInv
<1>3. queue = <<>> /\ backlog = 0
  BY <1>1 DEF Base, CountInv, CloseInv, DrainInv, ThreadInv, ModeInv
<1>4. seal.pc = "none"
  <2>1. lock # "start" /\ (lock = "worker" => seal.pc = "none")
    BY <1>1 DEF Base, ThreadInv, LockInv
  <2>2. \A p \in Producers : lock = p => seal.pc = "none"
    BY <1>2 DEF Base, ThreadInv, LockInv
  <2> QED
    BY <2>1, <2>2 DEF Base, ThreadInv, LockInv, TypeInv, TypeOK, CoreType
<1> QED
  BY <1>1, <1>2, <1>3, <1>4

\* Nobody holds a real event in a null item.
LEMMA ItemsOfNobody ==
  ASSUME CountInv, NEW e \in Events
  PROVE  /\ seal.item.ev = e => seal.pc # "none"
         /\ work.item.ev = e => work.pc \in {"lock", "seal"}
BY NullAssumption DEF CountInv, ItemInv, NoItem, Events

LEMMA ProcessKeeps ==
  ASSUME Base, Lossless, SealedInv, conf.mode = "best_effort", [Next]_vars, ~Crash
  PROVE  \A e \in Events : Settled(e) \/ InProcess(e) => Settled(e)' \/ InProcess(e)'
<1>1. TypeInv
  BY DEF Base
<1> SUFFICES ASSUME NEW e \in Events, Settled(e) \/ InProcess(e)
             PROVE  Settled(e)' \/ InProcess(e)'
  OBVIOUS
<1>2. Settled(e) => Settled(e)'
  BY <1>1, SettledStays
<1>3. /\ seal.item.ev = e => seal.pc # "none"
      /\ work.item.ev = e => work.pc \in {"lock", "seal"}
  BY ItemsOfNobody DEF Base
<1>4. seal.pc = "done" => Settled(seal.item.ev)
  BY DEF SealedInv
<1>5. ASSUME ~Settled(e)
      PROVE  InProcess(e)' \/ Settled(e)'
  <2>1. InProcess(e)
    BY <1>5
  <2>2. CASE ProcessSame
    BY <2>1, <2>2 DEF ProcessSame, InProcess
  <2>3. CASE \E p \in Producers : SendBestEffort(p)
    <3>1. PICK p \in Producers : SendBestEffort(p)
      BY <2>3
    <3>2. /\ queue' = Append(queue, [seq |-> 0, ev |-> prod[p].ev])
          /\ seal' = seal /\ work' = work
      BY <3>1 DEF SendBestEffort, core
    <3>3. [seq |-> 0, ev |-> prod[p].ev] \in Items /\ queue \in Seq(Items)
      BY <1>1 DEF TypeInv, TypeOK, CoreType, ThreadType, Calls, Items
    <3>4. Len(queue') = Len(queue) + 1 /\ \A i \in 1..Len(queue) : queue'[i] = queue[i]
      BY <3>2, <3>3, QueueAppend
    <3>5. Len(queue) \in Nat
      BY <3>3
    <3> QED
      BY <2>1, <3>2, <3>4, <3>5 DEF InProcess
  <2>4. CASE WorkerRecv
    <3>1. /\ queue # <<>> /\ work'.item = queue[1] /\ seal' = seal /\ work.pc = "idle"
          /\ Len(queue) \in Nat /\ Len(queue') = Len(queue) - 1 /\ Len(queue) >= 1
          /\ \A i \in 1..Len(queue') : queue'[i] = queue[i + 1]
      BY <1>1, <2>4, QueueHead DEF WorkerRecv, TypeInv, TypeOK, CoreType, core
    <3>2. CASE \E i \in 1..Len(queue) : queue[i].ev = e
      <4>1. PICK i \in 1..Len(queue) : queue[i].ev = e
        BY <3>2
      <4>2. CASE i = 1
        BY <3>1, <4>1, <4>2 DEF InProcess
      <4>3. CASE i # 1
        <5>1. i - 1 \in 1..Len(queue') /\ queue'[i - 1] = queue[i]
          BY <3>1, <4>3
        <5> QED
          BY <4>1, <5>1 DEF InProcess
      <4> QED
        BY <4>2, <4>3
    <3>3. CASE seal.item.ev = e
      BY <3>1, <3>3 DEF InProcess
    <3> QED
      BY <1>3, <2>1, <3>1, <3>2, <3>3 DEF InProcess
  <2>5. CASE WorkerLock
    <3>1. /\ queue' = queue /\ work'.item = work.item /\ lock = "none"
      BY <2>5 DEF WorkerLock, WorkerGoes, chan
    <3>2. seal.pc = "none"
      BY <3>1 DEF Base, ThreadInv, LockInv
    <3> QED
      BY <1>3, <2>1, <3>1, <3>2 DEF InProcess
  <2>6. CASE WorkerUnlock
    <3>1. queue' = queue /\ seal.pc = "done" /\ work.item = seal.item
      BY <2>6 DEF WorkerUnlock, chan, Base, CountInv, ItemInv
    <3> QED
      BY <1>4, <1>5, <2>1, <3>1 DEF InProcess
  <2>7. CASE RecoverNext \/ RecoverDone
    <3>1. queue' = queue /\ seal.pc \in {"none", "done"} /\ phase = "recovering"
      BY <2>7 DEF RecoverNext, RecoverDone, Replaying, chan
    <3>2. work.pc = "none"
      BY <3>1 DEF Base, ThreadInv, Asleep
    <3> QED
      BY <1>3, <1>4, <1>5, <2>1, <3>1, <3>2 DEF InProcess
  <2>8. CASE StartFails
    <3>1. seal.pc = "done" /\ phase = "recovering"
      BY <2>8 DEF StartFails
    <3>2. work.pc = "none" /\ queue = <<>>
      BY <3>1 DEF Base, ThreadInv, Asleep, CountInv, DrainInv
    <3> QED
      BY <1>3, <1>4, <1>5, <2>1, <3>1, <3>2 DEF InProcess
  <2>9. CASE ShutdownJoin
    BY <1>3, <2>1, <2>9, JoinedEmpty DEF InProcess
  <2> QED
    BY <2>2, <2>3, <2>4, <2>5, <2>6, <2>7, <2>8, <2>9, ProcessSteps
<1> QED
  BY <1>2, <1>5

\* A call that is about to count its item was so already, or has just sent it.
LEMMA DepthCalls ==
  ASSUME Base, conf.mode = "best_effort", [Next]_vars, NEW q \in Producers,
         prod'[q].pc = "depth"
  PROVE  (prod[q].pc = "depth" /\ prod'[q].ev = prod[q].ev) \/ SendBestEffort(q)
<1> USE DEF Base, TypeInv, TypeOK, ThreadType, Calls
<1>1. CASE \E p \in Producers, e \in Events, valid \in BOOLEAN : Submit(p, e, valid)
  BY <1>1 DEF Submit
<1>2. ASSUME NEW p \in Producers, Produce(p)
      PROVE  (prod[q].pc = "depth" /\ prod'[q].ev = prod[q].ev) \/ SendBestEffort(q)
  <2> USE DEF Returns, NoCall, CallGoes
  <2>1. CASE \/ RefuseInvalid(p) \/ AnswerDuplicate(p) \/ RefuseConflict(p) \/ WalRefuse(p)
             \/ RefuseFull(p) \/ CountQueued(p) \/ CountSpilled(p) \/ StrictReply(p)
    BY <2>1 DEF RefuseInvalid, AnswerDuplicate, RefuseConflict, WalRefuse, RefuseFull,
                CountQueued, CountSpilled, StrictReply
  <2>2. CASE PassDedup(p)
    BY <2>2 DEF PassDedup
  <2>3. CASE Spill(p) \/ Enqueue(p) \/ WalAppend(p)
    BY <2>3 DEF Spill, Enqueue, WalAppend, ThreadInv, ModeInv, UsesWal
  <2>4. CASE SendBestEffort(p)
    BY <2>4 DEF SendBestEffort
  <2> QED
    BY <1>2, <2>1, <2>2, <2>3, <2>4 DEF Produce
<1>3. CASE UNCHANGED vars \/ SealOne \/ Worker
  BY <1>3 DEF vars, threads, SealOne, SealCheckDuplicate, SealCheckConflict, SealCheckFresh,
     SealAppend, SealRetry, SealExhaust, AdvanceWatermark, SealByCount, SealUnchanged,
     Worker, WorkerRecv, WorkerLock, WorkerUnlock, WorkerUncount, WorkerIdle,
     DrainReadBacklog, DrainReadDepth, DrainLock, DrainScan, DrainReset, DrainNext,
     DrainBatchDone, AgeNotDue, AgeDue
<1>4. CASE \/ Start \/ Recover \/ Crash \/ FlushBegin \/ Flush \/ ExplicitSeal
           \/ ShutdownBegin \/ DropPipeline \/ Shutdown
  BY <1>4 DEF threads, Start, Recover, RecoverNext, RecoverDone, StartFails, Crash,
     FlushBegin, Flush, FlushReadDepth, FlushReadBacklog, ExplicitSeal, ShutdownBegin,
     DropPipeline, Shutdown, DropSender, ShutdownJoin, ResetMemory, NoCall
<1> QED
  BY <1>1, <1>2, <1>3, <1>4 DEF Next

\* A sent event is in the queue when its caller counts it.
LEMMA AckInProcessStep ==
  ASSUME Base, Lossless, SealedInv, AckedInProcess, [Next]_vars
  PROVE  AckedInProcess'
<1>1. TypeInv /\ TypeInv' /\ conf' = conf
  BY SettledStays, TypeStep DEF Base
<1>2. SUFFICES ASSUME conf.mode = "best_effort"
               PROVE  /\ \A e \in acked' : Settled(e)' \/ InProcess(e)'
                      /\ \A p \in Producers, e \in Events :
                            prod'[p].pc = "depth" /\ e = prod'[p].ev =>
                               Settled(e)' \/ InProcess(e)'
  <2>1. \A p \in Producers : prod'[p].pc = "depth" => prod'[p].ev \in Events
    BY <1>1 DEF TypeInv, Proper
  <2> QED
    BY <1>1, <1>2, <2>1 DEF AckedInProcess, Settled, InLedger, Parked, InProcess
<1>3. CASE Crash
  <2>1. \A e \in acked' : Settled(e)
    BY <1>1, <1>2, <1>3, AckedSteps DEF UsesWal
  <2>2. \A p \in Producers : prod'[p].pc # "depth"
    BY <1>3 DEF Crash, ResetMemory, NoCall
  <2> QED
    BY <1>1, <2>1, <2>2, SettledStays
<1>4. CASE ~Crash
  <2>1. \A e \in Events : Settled(e) \/ InProcess(e) => Settled(e)' \/ InProcess(e)'
    BY <1>2, <1>4, ProcessKeeps
  <2>2. ASSUME NEW e \in acked'
        PROVE  Settled(e)' \/ InProcess(e)'
    <3>1. e \in Events
      BY <1>1, <2>2 DEF TypeInv, TypeOK, ToldType
    <3>2. Settled(e) \/ InProcess(e)
      <4>1. CASE e \in acked
        BY <1>2, <4>1 DEF AckedInProcess
      <4>2. CASE \E p \in Producers : /\ CountQueued(p) \/ CountSpilled(p)
                                         \/ (StrictReply(p) /\ seal.res = "appended")
                                      /\ e = prod[p].ev
        BY <1>2, <4>2 DEF CountQueued, CountSpilled, StrictReply, AckedInProcess, Base,
                          ThreadInv, ModeInv
      <4> QED
        BY <1>1, <2>2, <4>1, <4>2, AckedSteps
    <3> QED
      BY <2>1, <3>1, <3>2
  <2>3. ASSUME NEW q \in Producers, NEW e \in Events, prod'[q].pc = "depth",
               e = prod'[q].ev
        PROVE  Settled(e)' \/ InProcess(e)'
    <3>1. CASE prod[q].pc = "depth" /\ prod'[q].ev = prod[q].ev
      <4>1. Settled(e) \/ InProcess(e)
        BY <1>2, <2>3, <3>1 DEF AckedInProcess
      <4> QED
        BY <2>1, <4>1
    <3>2. CASE SendBestEffort(q)
      <4>1. queue' = Append(queue, [seq |-> 0, ev |-> prod[q].ev]) /\ prod'[q].ev = prod[q].ev
        BY <1>1, <3>2 DEF SendBestEffort, CallGoes, TypeInv, TypeOK, ThreadType
      <4>2. [seq |-> 0, ev |-> prod[q].ev] \in Items /\ queue \in Seq(Items)
        BY <1>1 DEF TypeInv, TypeOK, CoreType, ThreadType, Calls, Items
      <4>3. Len(queue') = Len(queue) + 1 /\ queue'[Len(queue) + 1].ev = e
        BY <2>3, <4>1, <4>2, QueueAppend
      <4>4. Len(queue) + 1 \in 1..Len(queue')
        BY <4>2, <4>3
      <4> QED
        BY <4>3, <4>4 DEF InProcess
    <3> QED
      BY <1>1, <1>2, <2>3, <3>1, <3>2, DepthCalls
  <2> QED
    BY <2>2, <2>3
<1> QED
  BY <1>3, <1>4

-----------------------------------------------------------------------------
(* Flush and shutdown *)

\* Once every record of the WAL is settled, so is everything acknowledged.
LEMMA WalSettled ==
  ASSUME AckedInWal, conf.mode = "durable", 1..Len(wal) \subseteq Done
  PROVE  \A e \in acked : Settled(e)
BY DEF AckedInWal, Done

LEMMA MarkSettled ==
  ASSUME TypeInv, SettleInv
  PROVE  1..Watermark \subseteq Done
BY DEF SettleInv, MarksSettled, Watermark, MaxOf

\* Only the join ends in "stopped", and nothing is acknowledged there.
LEMMA StopSteps ==
  ASSUME Base, [Next]_vars, phase' = "stopped", ~ShutdownJoin
  PROVE  phase = "stopped"
<1>1. CASE \E p \in Producers : Produce(p)
  BY <1>1 DEF Produce, RefuseInvalid, AnswerDuplicate, RefuseConflict, PassDedup, WalAppend,
     WalRefuse, Spill, Enqueue, SendBestEffort, RefuseFull, CountQueued, CountSpilled,
     StrictReply
<1>2. CASE UNCHANGED vars \/ SealOne \/ Worker
  BY <1>2 DEF vars, SealOne, SealCheckDuplicate, SealCheckConflict, SealCheckFresh,
     SealAppend, SealRetry, SealExhaust, AdvanceWatermark, SealByCount, SealUnchanged,
     Worker, WorkerRecv, WorkerLock, WorkerUnlock, WorkerUncount, WorkerIdle,
     DrainReadBacklog, DrainReadDepth, DrainLock, DrainScan, DrainReset, DrainNext,
     DrainBatchDone, AgeNotDue, AgeDue
<1>3. CASE \E p \in Producers, e \in Events, valid \in BOOLEAN : Submit(p, e, valid)
  BY <1>3 DEF Submit
<1>4. CASE \/ Start \/ Recover \/ Crash \/ FlushBegin \/ Flush \/ ExplicitSeal
           \/ ShutdownBegin \/ DropPipeline \/ Shutdown
  BY <1>4 DEF Start, Recover, RecoverNext, RecoverDone, StartFails, Crash,
     FlushBegin, Flush, FlushReadDepth, FlushReadBacklog, ExplicitSeal, ShutdownBegin,
     DropPipeline, Shutdown, DropSender
<1> QED
  BY <1>1, <1>2, <1>3, <1>4 DEF Next

\* The worker that is joined has emptied the queue and the backlog first.
LEMMA ShutdownStep ==
  ASSUME Base, Lossless, SettleInv, UsesWal => OrderInv, AckInv, ShutdownComplete, [Next]_vars
  PROVE  ShutdownComplete'
<1>1. TypeInv
  BY DEF Base
<1>2. SUFFICES ASSUME phase' = "stopped"
               PROVE  \A e \in acked' : Settled(e)
  BY <1>1, SettledStays DEF ShutdownComplete
<1>3. CASE ShutdownJoin
  <2>1. acked' = acked
    BY <1>3 DEF ShutdownJoin, told
  <2>2. /\ \A p \in Producers : prod[p].pc = "idle"
        /\ queue = <<>> /\ backlog = 0 /\ seal.pc = "none" /\ work.pc \in {"none", "gone"}
        /\ phase = "draining"
    BY <1>3, JoinedEmpty
  <2>3. CASE conf.mode = "strict"
    BY <2>1, <2>3 DEF AckInv, AckedSealed
  <2>4. CASE conf.mode = "durable"
    <3>1. Appending = 0 /\ Front = Watermark
      BY <2>2 DEF Appending, Front
    <3>2. Len(wal) = Watermark
      BY <1>1, <2>2, <2>4, <3>1, Numbers DEF OrderInv, LineInv, UsesWal
    <3>3. 1..Len(wal) \subseteq Done
      BY <1>1, <3>2, MarkSettled
    <3> QED
      BY <2>1, <2>4, <3>3, WalSettled DEF AckInv
  <2>5. CASE conf.mode = "best_effort"
    <3>1. ASSUME NEW e \in acked
          PROVE  Settled(e)
      <4>1. e \in Events
        BY <1>1 DEF TypeInv, TypeOK, ToldType
      <4>2. ~InProcess(e)
        BY <2>2, <4>1, ItemsOfNobody DEF InProcess, Base
      <4> QED
        BY <2>5, <4>2 DEF AckInv, AckedInProcess
    <3> QED
      BY <2>1, <3>1
  <2> QED
    BY <1>1, <2>3, <2>4, <2>5, Modes
<1>4. CASE ~ShutdownJoin
  <2>1. phase = "stopped"
    BY <1>2, <1>4, StopSteps
  <2>2. \A p \in Producers : prod[p].pc = "idle"
    BY <2>1 DEF Base, ThreadInv, Asleep
  <2>3. \A e \in acked' : e \in acked
    BY <1>1, <2>2, AckedSteps DEF CountQueued, CountSpilled, StrictReply
  <2> QED
    BY <2>1, <2>3 DEF ShutdownComplete
<1> QED
  BY <1>3, <1>4

\* The two counters read zero: what was handed over is behind the watermark.
LEMMA DepthZero ==
  ASSUME Base, OrderInv, phase \in {"up", "closing", "draining"}, conf.mode = "durable",
         backlog = 0, depth = 0, NEW t \in 1..Len(wal), HandedOver(t)
  PROVE  t <= Watermark
<1>1. Len(wal) = Front + Len(queue) + Appending
  BY Numbers DEF OrderInv, LineInv, Base, CountInv, DrainInv
<1>2. /\ Uncounted = Len(queue) + InHands
      /\ Uncounted = 1 => queue # <<>> \/ work.pc = "lock"
  BY Numbers DEF Base, CountInv, DepthExact, Uncounted, InHands
<1>3. /\ \A p \in Producers : prod[p].pc \in {"dispatch", "backlog", "depth"} =>
            lock = p /\ prod[p].seq = Len(wal)
  BY DEF Base, CountInv, ItemInv
<1>4. CASE Uncounted = 0
  <2>1. Len(queue) = 0 /\ InHands = 0
    BY <1>2, <1>4, Numbers DEF Base, InHands
  <2>2. Front = Watermark
    BY <2>1 DEF InHands, Front
  <2>3. Appending = 1 => t # Len(wal)
    BY <1>3 DEF Appending, HandedOver
  <2> QED
    BY <1>1, <2>1, <2>2, <2>3, Numbers DEF Base, Appending
<1>5. CASE Uncounted # 0
  <2>1. PICK p \in Producers : prod[p].pc = "depth"
    BY <1>5 DEF Uncounted
  <2>2. Uncounted = 1 /\ Appending = 0 /\ t # Len(wal)
    BY <1>3, <2>1 DEF Uncounted, Appending, HandedOver
  <2>3. CASE queue # <<>>
    <3>1. Len(queue) >= 1
      BY <2>3 DEF Base, TypeInv, TypeOK, CoreType
    <3>2. Len(queue) = 1 /\ InHands = 0
      BY <1>2, <2>2, <3>1, Numbers DEF Base, InHands
    <3>3. Front = Watermark
      BY <3>2 DEF InHands, Front
    <3> QED
      BY <1>1, <2>2, <3>2, <3>3, Numbers DEF Base
  <2>4. CASE work.pc = "lock"
    <3>1. InHands = 1 /\ Len(queue) = 0
      BY <1>2, <2>2, <2>4, Numbers DEF Base, InHands
    <3>2. Front = Watermark + 1
      BY <2>4 DEF Front, OrderInv, NextInHand
    <3> QED
      BY <1>1, <2>2, <3>1, <3>2, Numbers DEF Base
  <2> QED
    BY <1>2, <2>2, <2>3, <2>4
<1> QED
  BY <1>4, <1>5

LEMMA FlushSteps ==
  ASSUME [Next]_vars
  PROVE  \/ fl' = fl
         \/ fl'.pc = "depth" /\ fl'.must = acked /\ acked' = acked
         \/ fl' = NoFlush
         \/ FlushReadDepth \/ FlushReadBacklog
<1> USE DEF threads, told, ResetMemory
<1>1. CASE \E p \in Producers : Produce(p)
  BY <1>1 DEF Produce, RefuseInvalid, AnswerDuplicate, RefuseConflict, PassDedup, WalAppend,
     WalRefuse, Spill, Enqueue, SendBestEffort, RefuseFull, CountQueued, CountSpilled,
     StrictReply
<1>2. CASE UNCHANGED vars \/ SealOne \/ Worker
  BY <1>2 DEF vars, SealOne, SealCheckDuplicate, SealCheckConflict, SealCheckFresh,
     SealAppend, SealRetry, SealExhaust, AdvanceWatermark, SealByCount, SealUnchanged,
     Worker, WorkerRecv, WorkerLock, WorkerUnlock, WorkerUncount, WorkerIdle,
     DrainReadBacklog, DrainReadDepth, DrainLock, DrainScan, DrainReset, DrainNext,
     DrainBatchDone, AgeNotDue, AgeDue
<1>3. CASE \E p \in Producers, e \in Events, valid \in BOOLEAN : Submit(p, e, valid)
  BY <1>3 DEF Submit
<1>4. CASE \/ Start \/ Recover \/ Crash \/ FlushBegin \/ Flush \/ ExplicitSeal
           \/ ShutdownBegin \/ DropPipeline \/ Shutdown
  BY <1>4 DEF Start, Recover, RecoverNext, RecoverDone, StartFails, Crash,
     FlushBegin, Flush, ExplicitSeal, ShutdownBegin,
     DropPipeline, Shutdown, DropSender, ShutdownJoin
<1> QED
  BY <1>1, <1>2, <1>3, <1>4 DEF Next

\* The backlog of a running pipeline falls to zero only by the reset of the drain.
LEMMA BacklogFalls ==
  ASSUME TypeInv, [Next]_vars, backlog > 0, backlog' = 0, fl' = fl, fl.pc # "idle"
  PROVE  DrainReset
<1> USE DEF chan
<1>0. backlog \in Nat
  BY DEF TypeInv, TypeOK, CoreType
<1>1. CASE \E p \in Producers : Produce(p)
  BY <1>0, <1>1 DEF Produce, RefuseInvalid, AnswerDuplicate, RefuseConflict, PassDedup,
     WalAppend, WalRefuse, Spill, Enqueue, SendBestEffort, RefuseFull, CountQueued,
     CountSpilled, StrictReply
<1>2. CASE UNCHANGED vars \/ SealOne \/ Worker
  BY <1>2 DEF vars, SealOne, SealCheckDuplicate, SealCheckConflict, SealCheckFresh,
     SealAppend, SealRetry, SealExhaust, AdvanceWatermark, SealByCount, SealUnchanged,
     Worker, WorkerRecv, WorkerLock, WorkerUnlock, WorkerUncount, WorkerIdle,
     DrainReadBacklog, DrainReadDepth, DrainLock, DrainScan, DrainNext,
     DrainBatchDone, AgeNotDue, AgeDue
<1>3. CASE \E p \in Producers, e \in Events, valid \in BOOLEAN : Submit(p, e, valid)
  BY <1>3 DEF Submit
<1>4. CASE \/ Start \/ Recover \/ Crash \/ FlushBegin \/ Flush \/ ExplicitSeal
           \/ ShutdownBegin \/ DropPipeline \/ Shutdown
  BY <1>4 DEF Start, Recover, RecoverNext, RecoverDone, StartFails, Crash,
     FlushBegin, Flush, FlushReadDepth, FlushReadBacklog, ExplicitSeal, ShutdownBegin,
     DropPipeline, Shutdown, DropSender, ShutdownJoin, ResetMemory, NoFlush
<1> QED
  BY <1>1, <1>2, <1>3, <1>4 DEF Next

LEMMA FlushStep ==
  ASSUME Base, Lossless, SettleInv, UsesWal => OrderInv, AckInv, FlushInv, [Next]_vars
  PROVE  FlushInv'
<1>1. TypeInv /\ UsesWal' = UsesWal
  BY SettledStays DEF Base
<1>2. SUFFICES ASSUME UsesWal
               PROVE  /\ fl'.must \subseteq acked'
                      /\ fl'.pc = "backlog" /\ fl'.queued = 0 =>
                            backlog' > 0 \/ \A e \in fl'.must : Settled(e)
                      /\ fl'.pc = "ok" => \A e \in fl'.must : Settled(e)
  BY <1>1, SettledStays DEF FlushInv
<1>3. acked \subseteq acked' /\ fl.must \subseteq acked /\ OrderInv
  BY <1>1, <1>2, AckedSteps DEF FlushInv
<1>4. conf.mode = "strict" => \A e \in acked : Settled(e)
  BY DEF AckInv, AckedSealed
<1>5. backlog \in Nat /\ backlog' \in Nat /\ Len(wal) \in Nat /\ Watermark \in Nat
  BY <1>1, TypeStep, Numbers DEF TypeInv, TypeOK, CoreType
<1>6. CASE fl' = fl
  <2>1. CASE fl.pc = "backlog" /\ fl.queued = 0 /\ backlog > 0 /\ ~(backlog' > 0)
    <3>1. DrainReset
      BY <1>1, <1>5, <1>6, <2>1, BacklogFalls
    <3>2. Watermark >= Len(wal) /\ work.pc # "none"
      BY <3>1 DEF DrainReset, Lossless
    <3>3. conf.mode = "durable"
      BY <1>1, <1>2, <3>2, Modes DEF Base, ThreadInv, ModeInv, UsesWal
    <3>4. 1..Len(wal) \subseteq Done
      BY <1>1, <1>5, <3>2, MarkSettled
    <3> QED
      BY <1>3, <1>6, <2>1, <3>3, <3>4, WalSettled DEF AckInv
  <2> QED
    BY <1>2, <1>3, <1>6, <2>1 DEF FlushInv
<1>7. CASE fl' = NoFlush
  BY <1>7 DEF NoFlush
<1>8. CASE fl'.pc = "depth" /\ fl'.must = acked /\ acked' = acked
  BY <1>8
<1>9. CASE FlushReadDepth
  <2>1. /\ fl'.pc = "backlog" /\ fl'.queued = depth /\ fl'.must = fl.must
        /\ acked' = acked /\ backlog' = backlog /\ fl.pc = "depth"
    BY <1>9 DEF FlushReadDepth, FlushGoes, chan, told
  <2>2. phase \in {"up", "closing", "draining"}
    BY <1>1, <2>1 DEF Base, CountInv, DrainInv, TypeInv, TypeOK, CoreType
  <2>3. ASSUME depth = 0, backlog = 0, conf.mode = "durable", NEW e \in acked
        PROVE  Settled(e)
    <3>1. CASE ~Settled(e)
      <4>1. PICK t \in 1..Len(wal) : wal[t] = e /\ HandedOver(t)
        BY <2>3, <3>1 DEF AckInv, AckedInWal
      <4>2. t \in 1..Watermark
        BY <1>3, <1>5, <2>2, <2>3, <4>1, DepthZero
      <4> QED
        BY <1>1, <4>1, <4>2, MarkSettled DEF Done
    <3> QED
      BY <3>1
  <2>4. conf.mode \in {"strict", "durable"}
    BY <1>1, <1>2, Modes DEF UsesWal
  <2> QED
    BY <1>3, <1>4, <1>5, <2>1, <2>3, <2>4
<1>10. CASE FlushReadBacklog
  <2>1. /\ fl'.must = fl.must /\ fl.pc = "backlog" /\ fl'.pc # "backlog"
        /\ fl'.pc = "ok" => fl.queued = 0 /\ backlog = 0
    BY <1>10 DEF FlushReadBacklog, FlushGoes
  <2> QED
    BY <1>2, <1>3, <2>1 DEF FlushInv
<1> QED
  BY <1>6, <1>7, <1>8, <1>9, <1>10, FlushSteps

-----------------------------------------------------------------------------
(* The theorems *)

LEMMA JInvInit == Init => JInv
<1> SUFFICES ASSUME Init
             PROVE  JInv
  OBVIOUS
<1>1. SealedInv /\ ShutdownComplete
  BY DEF Init, SealedInv, ShutdownComplete, NoSeal
<1>2. AckInv /\ FlushInv
  BY DEF Init, AckInv, AckedSealed, AckedInWal, AckedInProcess, FlushInv, NoFlush, NoCall
<1> QED
  BY <1>1, <1>2, IInvInit, CountInit, OrderInit DEF JInv, PromiseInv

LEMMA JInvStep ==
  ASSUME JInv, [Next]_vars
  PROVE  JInv'
<1>1. IInv' /\ Base /\ TypeInv /\ ThreadInv /\ OnceInv /\ (Lossless => SettleInv)
  BY IInvStep DEF JInv, IInv, Base
<1>2. CountInv'
  BY <1>1, CountStep DEF JInv
<1>3. UsesWal' = UsesWal /\ Lossless' = Lossless
  BY <1>1, SettledStays
<1>4. UsesWal /\ Lossless => OrderInv'
  BY <1>1, OrderStep DEF JInv, SettleInv
<1>5. SealedInv'
  BY <1>1, SealedStep DEF JInv, PromiseInv
<1>6. Lossless => AckInv'
  BY <1>1, AckSealedStep, AckInWalStep, AckInProcessStep DEF JInv, PromiseInv, AckInv
<1>7. Lossless => FlushInv' /\ ShutdownComplete'
  BY <1>1, FlushStep, ShutdownStep DEF JInv, PromiseInv
<1> QED
  BY <1>1, <1>2, <1>3, <1>4, <1>5, <1>6, <1>7 DEF JInv, PromiseInv

LEMMA JInvAlways == Spec => []JInv
<1>1. JInv /\ [Next]_vars => JInv'
  BY JInvStep
<1> QED
  BY <1>1, JInvInit, PTL DEF Spec

(* The record in the worker's hand is the next above the watermark and the queue   *)
(* goes on from there without a gap: recv, the spill rule and the drain never      *)
(* reorder what append accepted, for every number of producers and queue size.     *)
THEOREM OrderCorrect == Spec => []QueueInWalOrder
<1>1. ASSUME JInv
      PROVE  QueueInWalOrder
  <2> SUFFICES ASSUME UsesWal, Lossless
               PROVE  /\ \A i \in 1..Len(queue) :
                            queue[i].seq > Watermark /\ wal[queue[i].seq] = queue[i].ev
                      /\ \A i, j \in 1..Len(queue) : i < j => queue[i].seq < queue[j].seq
                      /\ work.pc = "lock" =>
                            /\ work.item.seq = Watermark + 1
                            /\ \A i \in 1..Len(queue) : queue[i].seq > work.item.seq
    BY DEF QueueInWalOrder
  <2>1. TypeInv /\ ThreadInv /\ CountInv /\ OrderInv /\ Linked
    BY <1>1 DEF JInv, IInv
  <2>2. \A i \in 1..Len(queue) : queue[i].seq = Front + i
    BY <2>1 DEF OrderInv, LineInv
  <2>3. work.pc = "lock" => work.item.seq = Watermark + 1
    BY <2>1 DEF OrderInv, NextInHand
  <2>4. Front >= Watermark
    <3>1. CASE work.pc = "seal"
      <4>1. seal.pc \in {"check", "try", "mark", "block", "done"}
        BY <2>1, <3>1 DEF ThreadInv, LockInv, TypeInv, TypeOK, ThreadType, Seals, SealPcs
      <4>2. seal.item.seq \in {Watermark, Watermark + 1} /\ work.item.seq = seal.item.seq
        BY <2>1, <3>1, <4>1 DEF OrderInv, NextInHand, Sealing, ThreadInv, LockInv
      <4> QED
        BY <2>1, <3>1, <4>2, Numbers DEF Front
    <3> QED
      BY <2>1, <2>3, <3>1, Numbers DEF Front
  <2>5. \A i \in 1..Len(queue) : queue[i].seq > Watermark /\ wal[queue[i].seq] = queue[i].ev
    <3>1. Front \in Nat /\ Watermark \in Nat
      BY <2>1, Numbers
    <3>2. \A i \in 1..Len(queue) : queue[i].seq > Watermark /\ queue[i].seq > 0
      BY <2>2, <2>4, <3>1
    <3> QED
      BY <2>1, <3>2 DEF Linked
  <2>6. \A i, j \in 1..Len(queue) : i < j => queue[i].seq < queue[j].seq
    BY <2>1, <2>2, Numbers
  <2>7. work.pc = "lock" => \A i \in 1..Len(queue) : queue[i].seq > work.item.seq
    BY <2>1, <2>2, Numbers, SMTT(20) DEF Front
  <2> QED
    BY <2>3, <2>5, <2>6, <2>7
<1> QED
  BY <1>1, JInvAlways, PTL

(* While wal_backlog reads zero and nobody holds the lock, every record above the  *)
(* watermark is in the queue or in the worker's hand: none waits for a scan that   *)
(* nothing would start.                                                            *)
THEOREM StrandedCorrect == Spec => []NothingStranded
<1>1. ASSUME JInv
      PROVE  NothingStranded
  <2> SUFFICES ASSUME Lossless, conf.mode = "durable", phase \in {"up", "closing", "draining"},
                      lock = "none", backlog = 0, NEW s \in Watermark + 1 .. Len(wal)
               PROVE  \/ \E i \in 1..Len(queue) : queue[i].seq = s
                      \/ work.pc = "lock" /\ work.item.seq = s
    BY DEF NothingStranded
  <2>1. TypeInv /\ ThreadInv /\ OrderInv
    BY <1>1 DEF JInv, IInv, UsesWal
  <2>2. Appending = 0 /\ work.pc \notin {"seal", "scan", "replay"}
    BY <2>1, NoneAppending, NullAssumption DEF ThreadInv, LockInv
  <2>3. Len(wal) = Front + Len(queue)
    BY <2>1, <2>2, Numbers DEF OrderInv, LineInv
  <2>4. CASE s <= Front
    BY <2>1, <2>2, <2>4, Numbers DEF Front, OrderInv, NextInHand
  <2>5. CASE s > Front
    <3>1. s - Front \in 1..Len(queue)
      BY <2>1, <2>3, <2>5, Numbers
    <3>2. queue[s - Front].seq = s
      BY <2>1, <3>1, Numbers DEF OrderInv, LineInv
    <3> QED
      BY <3>1, <3>2
  <2> QED
    BY <2>1, <2>4, <2>5, Numbers
<1> QED
  BY <1>1, JInvAlways, PTL

(* What append answered with success for is settled, or above the checkpoint in    *)
(* the WAL, where the next start looks for it; best effort keeps it in the process. *)
THEOREM AckedCorrect == Spec => []AckedNotLost
<1>1. ASSUME JInv
      PROVE  AckedNotLost
  <2> SUFFICES ASSUME Lossless, NEW e \in acked, ~Settled(e)
               PROVE  \/ \E s \in ckpt + 1 .. Len(wal) : wal[s] = e
                      \/ ~UsesWal /\ InProcess(e)
    BY DEF AckedNotLost
  <2>1. TypeInv /\ AckInv /\ SettleInv
    BY <1>1 DEF JInv, IInv, PromiseInv
  <2>2. CASE conf.mode = "durable"
    <3>1. PICK t \in 1..Len(wal) : wal[t] = e
      BY <2>1, <2>2 DEF AckInv, AckedInWal
    <3>2. ~(t <= ckpt)
      BY <2>1, <3>1, Numbers, SMTT(20) DEF SettleInv, MarksSettled, Done
    <3> QED
      BY <2>1, <3>1, <3>2, Numbers
  <2>3. CASE conf.mode = "strict"
    BY <2>1, <2>3 DEF AckInv, AckedSealed
  <2>4. CASE conf.mode = "best_effort"
    BY <2>1, <2>4 DEF AckInv, AckedInProcess, UsesWal
  <2> QED
    BY <2>1, <2>2, <2>3, <2>4, Modes
<1> QED
  BY <1>1, JInvAlways, PTL

(* With a WAL, a flush that returns Ok has waited for everything acknowledged      *)
(* before it was called, though it reads the two counters one after the other;     *)
(* the best-effort mode is the exception that a run shows.                          *)
THEOREM FlushCorrect == Spec => [](UsesWal => FlushComplete)
<1>1. JInv => (UsesWal => FlushComplete)
  BY DEF JInv, PromiseInv, FlushInv, FlushComplete
<1> QED
  BY <1>1, JInvAlways, PTL

(* A pipeline that was shut down or dropped has settled everything acknowledged,   *)
(* in every mode, even when the flush before it timed out.                         *)
THEOREM ShutdownCorrect == Spec => []ShutdownComplete
<1>1. JInv => ShutdownComplete
  BY DEF JInv, PromiseInv, ShutdownComplete
<1> QED
  BY <1>1, JInvAlways, PTL

-----------------------------------------------------------------------------
(* The refinement of InOrderLedger *)

\* What the abstract ledger calls done and booked.
LEMMA AbstractDone ==
  ASSUME NEW e
  PROVE  /\ InOrder!Booked(e) <=> InLedger(e)
         /\ e \in Events => (InOrder!Done(e) <=> Settled(e))
BY DEF InOrder!Booked, InOrder!Done, InLedger, Settled, ParkedEvents

\* An id whose dedup entry has another hash is booked, and not with this event.
LEMMA ConflictFacts ==
  ASSUME TypeInv, OnceInv, phase \notin {"down", "stopped"}, NEW e \in Events,
         dedup[e.id] \notin {NoHash, e.hash}
  PROVE  InOrder!KnownId(e.id) /\ ~InLedger(e)
<1>1. e.id \in EventIds /\ InLedger([id |-> e.id, hash |-> dedup[e.id]])
  BY DEF OnceInv, DedupAgrees, Events
<1>2. PICK k \in 1..Len(ledger) : ledger[k] = [id |-> e.id, hash |-> dedup[e.id]]
  BY <1>1 DEF InLedger
<1>3. InOrder!KnownId(e.id)
  BY <1>2 DEF InOrder!KnownId
<1>4. ASSUME NEW i \in 1..Len(ledger), ledger[i] = e
      PROVE  FALSE
  <2>1. i = k
    BY <1>2, <1>4 DEF OnceInv, AtMostOnce
  <2> QED
    BY <1>2, <1>4, <2>1
<1> QED
  BY <1>3, <1>4 DEF InLedger

\* The record seal_one works on is the next in turn.
LEMMA SealInTurn ==
  ASSUME JInv, UsesWal, Lossless, Sealing
  PROVE  /\ seal.item.seq \in 1..Len(wal) /\ wal[seal.item.seq] = seal.item.ev
         /\ seal.item.ev \in Events /\ seal.item.seq = Watermark + 1
         /\ InOrder!InTurn(seal.item.seq)
<1>1. TypeInv /\ Linked /\ SettleInv /\ OrderInv
  BY DEF JInv, IInv
<1>2. seal.item.seq = Watermark + 1 /\ seal.item.seq <= Len(wal)
  BY <1>1 DEF OrderInv, NextInHand, TypeInv, Bounded
<1>3. seal.item.seq \in 1..Len(wal) /\ wal[seal.item.seq] = seal.item.ev
  BY <1>1, <1>2, Numbers DEF Linked
<1>4. seal.item.ev \in Events
  BY <1>1 DEF TypeInv, Proper, Sealing
<1>5. ASSUME NEW t \in 1..(seal.item.seq - 1)
      PROVE  InOrder!Done(wal[t])
  <2>1. t \in Done
    BY <1>1 DEF SettleInv, HandSettled
  <2>2. Settled(wal[t]) /\ wal[t] \in Events
    BY <1>1, <2>1 DEF Done, TypeInv, TypeOK, DiskType
  <2> QED
    BY <2>2, AbstractDone
<1> QED
  BY <1>2, <1>3, <1>4, <1>5 DEF InOrder!InTurn

\* A dead letter for an accepted or conflicting event parks it.
LEMMA ParksOne ==
  ASSUME Lossless, NEW e \in Events, NEW r \in {"conflict", "exhausted"}, NEW ok \in BOOLEAN,
         RecordDeadLetter(e, r, ok)
  PROVE  ParkedEvents' = ParkedEvents \cup {e}
<1>1. dead' = dead \cup {[ev |-> e, reason |-> r]}
  BY DEF RecordDeadLetter, Lossless
<1> QED
  BY <1>1 DEF ParkedEvents, Parked, Reasons

\* Every other step leaves the disk, as the abstract ledger sees it, alone.
LEMMA DiskStutters ==
  ASSUME [Next]_vars, ~SealOne, \A p \in Producers : ~Produce(p)
  PROVE  UNCHANGED <<wal, ckpt, ledger, dead>>
<1> USE DEF disk
<1>1. CASE UNCHANGED vars \/ Worker
  BY <1>1 DEF vars,
     Worker, WorkerRecv, WorkerLock, WorkerUnlock, WorkerUncount, WorkerIdle,
     DrainReadBacklog, DrainReadDepth, DrainLock, DrainScan, DrainReset, DrainNext,
     DrainBatchDone, AgeNotDue, AgeDue
<1>2. CASE \E p \in Producers, e \in Events, valid \in BOOLEAN : Submit(p, e, valid)
  BY <1>2 DEF Submit
<1>3. CASE \/ Start \/ Recover \/ Crash \/ FlushBegin \/ Flush \/ ExplicitSeal
           \/ ShutdownBegin \/ DropPipeline \/ Shutdown
  BY <1>3 DEF Start, Recover, RecoverNext, RecoverDone, StartFails, Crash,
     FlushBegin, Flush, FlushReadDepth, FlushReadBacklog, ExplicitSeal, ShutdownBegin,
     DropPipeline, Shutdown, DropSender, ShutdownJoin
<1> QED
  BY <1>1, <1>2, <1>3 DEF Next

LEMMA ProduceMaps ==
  ASSUME JInv, UsesWal, Lossless, NEW p \in Producers, Produce(p)
  PROVE  InOrder!Next \/ UNCHANGED <<wal, ledger, ParkedEvents, ckpt>>
<1>1. TypeInv /\ ThreadInv /\ OnceInv
  BY DEF JInv, IInv
<1>2. CASE WalAppend(p)
  <2>1. prod[p].ev \in Events
    BY <1>1, <1>2 DEF WalAppend, TypeInv, Proper
  <2>2. InOrder!Accept(prod[p].ev)
    BY <1>2 DEF WalAppend, InOrder!Accept, ParkedEvents, Parked
  <2> QED
    BY <2>1, <2>2 DEF InOrder!Next
<1>3. CASE RefuseConflict(p)
  <2>1. prod[p].ev \in Events /\ phase \notin {"down", "stopped"}
    BY <1>1, <1>3 DEF RefuseConflict, TypeInv, Proper, ThreadInv, Asleep
  <2>2. InOrder!KnownId(prod[p].ev.id) /\ ~InOrder!Booked(prod[p].ev)
    BY <1>1, <1>3, <2>1, ConflictFacts, AbstractDone DEF RefuseConflict
  <2>3. ParkedEvents' = ParkedEvents \cup {prod[p].ev} /\ UNCHANGED <<wal, ledger, ckpt>>
    BY <1>3, <2>1, ParksOne DEF RefuseConflict
  <2>4. InOrder!Refuse(prod[p].ev)
    BY <2>2, <2>3 DEF InOrder!Refuse
  <2> QED
    BY <2>1, <2>4 DEF InOrder!Next
<1>4. CASE RefuseInvalid(p)
  <2>1. /\ UNCHANGED <<wal, ledger, ckpt>>
        /\ dead' = dead \/ dead' = dead \cup {[ev |-> prod[p].ev, reason |-> "invalid"]}
    BY <1>4 DEF RefuseInvalid, RecordDeadLetter
  <2> QED
    BY <2>1 DEF ParkedEvents, Parked
<1>5. CASE ~WalAppend(p) /\ ~RefuseConflict(p) /\ ~RefuseInvalid(p)
  <2>1. UNCHANGED <<wal, ledger, ckpt, dead>>
    BY <1>5 DEF Produce, AnswerDuplicate, PassDedup, WalRefuse, Spill, Enqueue,
       SendBestEffort, RefuseFull, CountQueued, CountSpilled, StrictReply, disk
  <2> QED
    BY <2>1 DEF ParkedEvents, Parked
<1> QED
  BY <1>2, <1>3, <1>4, <1>5

LEMMA SealMaps ==
  ASSUME JInv, UsesWal, Lossless, SealOne
  PROVE  InOrder!Next \/ UNCHANGED <<wal, ledger, ParkedEvents, ckpt>>
<1> DEFINE s == seal.item.seq
<1>1. TypeInv /\ ThreadInv /\ OnceInv /\ SettleInv /\ OrderInv
  BY DEF JInv, IInv
<1>2. wal' = wal
  BY SealKeeps DEF SealUnchanged
<1>3. CASE SealAppend
  <2>1. Sealing /\ ~IdInLedger(seal.item.ev.id)
    BY <1>1, <1>3 DEF SealAppend, Sealing, OnceInv, TryFresh
  <2>2. s \in 1..Len(wal) /\ wal[s] = seal.item.ev /\ InOrder!InTurn(s)
    BY <2>1, SealInTurn
  <2>3. ~InOrder!KnownId(wal[s].id)
    BY <2>1, <2>2 DEF InOrder!KnownId, IdInLedger
  <2>4. /\ ledger' = Append(ledger, wal[s]) /\ ckpt' = ckpt /\ ParkedEvents' = ParkedEvents
    BY <1>3, <2>2 DEF SealAppend, ParkedEvents, Parked
  <2>5. InOrder!Book(s)
    BY <1>2, <2>2, <2>3, <2>4 DEF InOrder!Book
  <2> QED
    BY <2>2, <2>5 DEF InOrder!Next
<1>4. CASE SealCheckConflict \/ SealExhaust
  <2>1. Sealing /\ phase \notin {"down", "stopped"}
    BY <1>1, <1>4 DEF SealCheckConflict, SealExhaust, Sealing, ThreadInv, Asleep
  <2>2. /\ s \in 1..Len(wal) /\ wal[s] = seal.item.ev /\ InOrder!InTurn(s)
        /\ seal.item.ev \in Events
    BY <2>1, SealInTurn
  <2>3. ~InLedger(seal.item.ev)
    <3>1. CASE SealCheckConflict
      BY <1>1, <2>1, <2>2, <3>1, ConflictFacts DEF SealCheckConflict
    <3>2. CASE SealExhaust
      BY <1>1, <3>2 DEF SealExhaust, OnceInv, TryFresh, IdInLedger, InLedger
    <3> QED
      BY <1>4, <3>1, <3>2
  <2>4. ParkedEvents' = ParkedEvents \cup {wal[s]} /\ UNCHANGED <<ledger, ckpt>>
    BY <1>4, <2>2, ParksOne DEF SealCheckConflict, SealExhaust
  <2>5. InOrder!Park(s)
    BY <1>2, <2>2, <2>3, <2>4, AbstractDone DEF InOrder!Park
  <2> QED
    BY <2>2, <2>5 DEF InOrder!Next
<1>5. CASE AdvanceWatermark
  <2>1. Sealing /\ UNCHANGED <<ledger, dead>> /\ ckpt' \in {s, ckpt} /\ seal.pc = "mark"
    BY <1>5 DEF AdvanceWatermark, Sealing
  <2>2. s \in 1..Len(wal) /\ s = Watermark + 1
    BY <2>1, SealInTurn
  <2>3. ParkedEvents' = ParkedEvents
    BY <2>1 DEF ParkedEvents, Parked
  <2>4. s > ckpt
    BY <1>1, <2>2, Numbers DEF Watermark, MaxOf
  <2>5. ASSUME NEW t \in 1..s
        PROVE  InOrder!Done(wal[t])
    <3>1. t \in Done
      BY <1>1, <2>1 DEF SettleInv, HandSettled
    <3>2. Settled(wal[t]) /\ wal[t] \in Events
      BY <1>1, <3>1 DEF Done, TypeInv, TypeOK, DiskType
    <3> QED
      BY <3>2, AbstractDone
  <2>6. CASE ckpt' = ckpt
    BY <1>2, <2>1, <2>3, <2>6
  <2>7. CASE ckpt' = s
    <3>1. s <= Len(wal)
      BY <2>2
    <3>2. InOrder!Advance(s)
      BY <1>2, <2>1, <2>3, <2>4, <2>5, <2>7, <3>1 DEF InOrder!Advance
    <3> QED
      BY <2>2, <3>2 DEF InOrder!Next
  <2> QED
    BY <2>1, <2>6, <2>7
<1>6. CASE SealCheckDuplicate \/ SealCheckFresh \/ SealRetry \/ SealByCount
  BY <1>2, <1>6 DEF SealCheckDuplicate, SealCheckFresh, SealRetry, SealByCount, ParkedEvents,
                    Parked
<1> QED
  BY <1>3, <1>4, <1>5, <1>6 DEF SealOne

LEMMA MapsStep ==
  ASSUME JInv, UsesWal, Lossless, [Next]_vars
  PROVE  [InOrder!Next]_<<wal, ledger, ParkedEvents, ckpt>>
<1>1. CASE SealOne
  BY <1>1, SealMaps
<1>2. CASE \E p \in Producers : Produce(p)
  BY <1>2, ProduceMaps
<1>3. CASE ~SealOne /\ \A p \in Producers : ~Produce(p)
  BY <1>3, DiskStutters DEF ParkedEvents, Parked
<1> QED
  BY <1>1, <1>2, <1>3

(* With a WAL and a dead-letter store that takes what it is given, the queue, the  *)
(* backlog, the drain, the retries and every crash and restart implement the       *)
(* in-order, exactly-once ledger: a step of seal_one books, parks or passes the    *)
(* record whose turn it is, and no other step touches what the ledger shows.       *)
THEOREM InOrderCorrect == Spec /\ UsesWal /\ Lossless => ImplementsInOrderLedger
<1>1. Init => InOrder!Init
  BY DEF Init, InOrder!Init, ParkedEvents, Parked
<1>2. JInv /\ UsesWal /\ Lossless /\ [Next]_vars => UsesWal' /\ Lossless'
  BY SettledStays DEF JInv, IInv
<1>3. JInv /\ UsesWal /\ Lossless /\ [Next]_vars => [InOrder!Next]_(InOrder!vars)
  BY MapsStep DEF InOrder!vars
<1> QED
  BY <1>1, <1>2, <1>3, JInvAlways, PTL DEF Spec, ImplementsInOrderLedger, InOrder!Spec


-----------------------------------------------------------------------------
(* The statistics *)

LEMMA OpenFinite == IsFiniteSet(Open) /\ IsFiniteSet(Open')
<1>1. Open \in SUBSET Producers /\ Open' \in SUBSET Producers
  BY DEF Open
<1> QED
  BY <1>1, ThreadsAssumption, FS_Subset

LEMMA StatsTypes ==
  ASSUME TypeInv
  PROVE  /\ Taken \in Nat /\ Outcomes \in Nat /\ Calling \in Nat /\ Marking \in Nat
         /\ Watermark \in Nat /\ Len(wal) \in Nat
         /\ Found \in Nat /\ Owed \in Nat
         /\ \A c \in CounterNames : cnt[c] \in Nat
<1>1. \A c \in CounterNames : cnt[c] \in Nat
  BY DEF TypeInv, TypeOK, CoreType
<1>2. Taken \in Nat /\ Outcomes \in Nat /\ Marking \in Nat
  BY <1>1 DEF Taken, Outcomes, Marking, CounterNames
<1>3. Calling \in Nat
  BY OpenFinite, FS_CardinalityType DEF Calling
<1>4. Watermark \in Nat /\ Len(wal) \in Nat
  BY Numbers
<1>5. Found \in Nat /\ Owed \in Nat
  BY <1>2, <1>3, <1>4 DEF Found, Owed
<1> QED
  BY <1>1, <1>2, <1>3, <1>4, <1>5

\* A call of p starts, or it ends or its event reaches the WAL.
LEMMA CallOpens ==
  ASSUME NEW p \in Producers, p \notin Open, Open' = Open \cup {p}
  PROVE  Calling' = Calling + 1
BY OpenFinite, FS_AddElement DEF Calling

LEMMA CallLeaves ==
  ASSUME NEW p \in Producers, p \in Open, Open' = Open \ {p}
  PROVE  Calling' = Calling - 1
BY OpenFinite, FS_RemoveElement DEF Calling

\* One event gets its outcome; the counter of conflicts is on top of that.
LEMMA OneOutcome ==
  ASSUME TypeInv, NEW n \in {"appended", "duplicates", "busy", "deadLettered"},
         Count({n}) \/ Count({"conflicts"} \cup {n})
  PROVE  Taken' = Taken /\ Outcomes' = Outcomes + 1
<1> DEFINE Four == {"appended", "duplicates", "busy", "deadLettered"}
<1>1. \A c \in Four \cup {"received", "replayed"} :
         cnt'[c] = IF c = n THEN cnt[c] + 1 ELSE cnt[c]
  BY DEF Count, CounterNames
<1>2. cnt'["received"] = cnt["received"] /\ cnt'["replayed"] = cnt["replayed"]
  BY <1>1
<1>3. \A c \in Four : cnt[c] \in Nat
  BY StatsTypes DEF CounterNames
<1>4. CASE n = "appended"
  BY <1>1, <1>2, <1>3, <1>4 DEF Taken, Outcomes
<1>5. CASE n = "duplicates"
  BY <1>1, <1>2, <1>3, <1>5 DEF Taken, Outcomes
<1>6. CASE n = "busy"
  BY <1>1, <1>2, <1>3, <1>6 DEF Taken, Outcomes
<1>7. CASE n = "deadLettered"
  BY <1>1, <1>2, <1>3, <1>7 DEF Taken, Outcomes
<1> QED
  BY <1>4, <1>5, <1>6, <1>7

LEMMA NoOutcome ==
  ASSUME TypeInv, Count({})
  PROVE  Taken' = Taken /\ Outcomes' = Outcomes
BY DEF Count, CounterNames, Taken, Outcomes

\* A step that takes no event in and gives none its outcome.
StatsSame ==
    /\ UNCHANGED <<conf, wal, Open, Taken, Outcomes, Marking, Watermark>>
    /\ phase' \notin {"down", "stopped"} => phase \notin {"down", "stopped"}

LEMMA StatsFrame ==
  ASSUME StatsInv, StatsSame
  PROVE  StatsInv'
BY DEF StatsInv, StatsSame, Calling, Found, Owed

LEMMA StatsSubmit ==
  ASSUME TypeInv, StatsInv, NEW p \in Producers, NEW e \in Events, NEW valid \in BOOLEAN,
         Submit(p, e, valid)
  PROVE  StatsInv'
<1>1. UNCHANGED <<conf, wal, phase, Marking, Watermark>>
  BY DEF Submit, disk, core, Marking, Watermark
<1>2. p \notin Open /\ Open' = Open \cup {p}
  BY DEF Submit, Open, TypeInv, TypeOK, ThreadType
<1>3. Taken' = Taken + 1 /\ Outcomes' = Outcomes
  BY StatsTypes DEF Submit, Count, CounterNames, Taken, Outcomes
<1>4. Calling' = Calling + 1
  BY <1>2, CallOpens
<1>5. Found' = Found + 1
  BY <1>1, <1>3, <1>4, StatsTypes DEF Found
<1>6. Owed' = Owed + 1
  <2>1. Owed' = (Taken + 1) + Watermark + Marking
    BY <1>1, <1>3 DEF Owed
  <2> QED
    BY <2>1, StatsTypes DEF Owed
<1> QED
  BY <1>1, <1>5, <1>6, StatsTypes DEF StatsInv

\* The calls that return with a counted outcome, or without one in the strict mode.
LEMMA StatsAnswer ==
  ASSUME TypeInv, StatsInv, UsesWal, Lossless, NEW p \in Producers,
         RefuseInvalid(p) \/ AnswerDuplicate(p) \/ RefuseConflict(p) \/ WalRefuse(p)
  PROVE  StatsInv'
<1>1. UNCHANGED <<conf, wal, phase, Marking, Watermark>>
  BY DEF RefuseInvalid, AnswerDuplicate, RefuseConflict, WalRefuse, disk, core, told,
     Marking, Watermark
<1>2. p \in Open /\ Open' = Open \ {p}
  BY DEF RefuseInvalid, AnswerDuplicate, RefuseConflict, WalRefuse, Returns, NoCall, Open,
     TypeInv, TypeOK, ThreadType
<1>3. Calling' = Calling - 1
  BY <1>2, CallLeaves
<1>4. /\ Taken' = Taken
      /\ Outcomes' = Outcomes + 1 \/ (conf.mode = "strict" /\ Outcomes' = Outcomes)
  <2>1. CASE RefuseInvalid(p) \/ RefuseConflict(p)
    <3>1. Count({"deadLettered"}) \/ Count({"conflicts"} \cup {"deadLettered"})
      BY <2>1 DEF RefuseInvalid, RefuseConflict, RecordDeadLetter, DeadLettered, Lossless
    <3> QED
      BY <3>1, OneOutcome
  <2>2. CASE AnswerDuplicate(p)
    BY <2>2, OneOutcome DEF AnswerDuplicate
  <2>3. CASE WalRefuse(p)
    BY <2>3, Modes, OneOutcome, NoOutcome DEF WalRefuse, UsesWal
  <2> QED
    BY <2>1, <2>2, <2>3
<1>5. Owed' = Owed
  BY <1>1, <1>4 DEF Owed
<1>6. Found' = Outcomes' + (Calling - 1) + Len(wal)
  BY <1>1, <1>3 DEF Found
<1>7. Found' = Found \/ (conf.mode = "strict" /\ Found' = Found - 1)
  BY <1>4, <1>6, StatsTypes DEF Found
<1> QED
  BY <1>1, <1>5, <1>7, StatsTypes DEF StatsInv

LEMMA StatsWalAppend ==
  ASSUME TypeInv, ThreadInv, StatsInv, NEW p \in Producers, WalAppend(p)
  PROVE  StatsInv'
<1>1. UNCHANGED <<conf, phase, Watermark, Taken, Outcomes>>
  BY DEF WalAppend, told, Watermark, Taken, Outcomes
<1>2. Marking' = Marking
  BY DEF WalAppend, StartSeal, Marking, ThreadInv, LockInv
<1>3. Calling' = Calling - 1
  <2>1. p \in Open /\ Open' = Open \ {p}
    BY DEF WalAppend, Open, TypeInv, TypeOK, ThreadType
  <2> QED
    BY <2>1, CallLeaves
<1>4. Len(wal') = Len(wal) + 1
  BY DEF WalAppend, TypeInv, TypeOK, DiskType
<1>5. Found' = Found /\ Owed' = Owed
  BY <1>1, <1>2, <1>3, <1>4, StatsTypes, SMTT(20) DEF Found, Owed
<1> QED
  BY <1>1, <1>5 DEF StatsInv

LEMMA StatsProduce ==
  ASSUME TypeInv, ThreadInv, StatsInv, UsesWal, Lossless, NEW p \in Producers, Produce(p)
  PROVE  StatsInv'
<1>1. CASE \/ PassDedup(p) \/ Spill(p) \/ Enqueue(p) \/ CountQueued(p) \/ CountSpilled(p)
  <2>1. UNCHANGED <<conf, phase, wal, seal, applied, ckpt, cnt>>
    BY <1>1 DEF PassDedup, Spill, Enqueue, CountQueued, CountSpilled, disk, core, told
  <2>2. Open' = Open
    BY <1>1 DEF PassDedup, Spill, Enqueue, CountQueued, CountSpilled, CallGoes, Returns,
       NoCall, Open, TypeInv, TypeOK, ThreadType
  <2> QED
    BY <2>1, <2>2, StatsFrame DEF StatsSame, Taken, Outcomes, Marking, Watermark
<1>2. CASE StrictReply(p)
  <2>1. UNCHANGED <<conf, phase, wal, applied, ckpt, cnt, Marking>>
    BY <1>2 DEF StrictReply, disk, NoSeal, Marking
  <2>2. Open' = Open
    BY <1>2 DEF StrictReply, Returns, NoCall, Open, TypeInv, TypeOK, ThreadType
  <2> QED
    BY <2>1, <2>2, StatsFrame DEF StatsSame, Taken, Outcomes, Watermark
<1>3. ~SendBestEffort(p) /\ ~RefuseFull(p)
  BY DEF SendBestEffort, RefuseFull, ThreadInv, ModeInv, UsesWal
<1> QED
  BY <1>1, <1>2, <1>3, StatsAnswer, StatsWalAppend DEF Produce

LEMMA StatsAdvance ==
  ASSUME TypeInv, OrderInv, StatsInv, AdvanceWatermark
  PROVE  StatsInv'
<1>1. /\ UNCHANGED <<conf, phase, wal, cnt, prod>>
      /\ seal.pc = "mark" /\ seal'.pc # "mark"
  BY DEF AdvanceWatermark, SealUnchanged, SealGoes, SealEnds, threads, told
<1>2. UNCHANGED <<Taken, Outcomes, Calling>> /\ Marking = 1 /\ Marking' = 0
  BY <1>1 DEF Taken, Outcomes, Calling, Open, Marking
<1>3. seal.item.seq = Watermark + 1
  BY <1>1 DEF OrderInv, NextInHand, Sealing
<1>4. Watermark' = Watermark + 1
  <2>1. applied' = Watermark + 1 /\ ckpt' \in {ckpt, Watermark + 1}
    BY <1>3, Numbers DEF AdvanceWatermark, MaxOf, Watermark
  <2> QED
    BY <2>1, Numbers DEF Watermark, MaxOf
<1>5. Found' = Found /\ Owed' = Owed
  BY <1>1, <1>2, <1>4, StatsTypes DEF Found, Owed
<1> QED
  BY <1>1, <1>5 DEF StatsInv

LEMMA StatsSeal ==
  ASSUME TypeInv, OrderInv, StatsInv, Lossless, SealOne
  PROVE  StatsInv'
<1>1. UNCHANGED <<conf, phase, wal, Open, Calling>>
  BY SealKeeps DEF SealUnchanged, threads, told, Open, Calling
<1>2. CASE SealCheckFresh \/ SealRetry \/ SealByCount
  <2>1. UNCHANGED <<cnt, applied, ckpt, Marking>>
    BY <1>2 DEF SealCheckFresh, SealRetry, SealByCount, SealTries, SealGoes, SealEnds, Marking
  <2> QED
    BY <1>1, <2>1, StatsFrame DEF StatsSame, Taken, Outcomes, Watermark
<1>3. CASE SealCheckDuplicate \/ SealCheckConflict \/ SealAppend \/ SealExhaust
  <2>1. UNCHANGED <<applied, ckpt>> /\ seal.pc # "mark" /\ seal'.pc = "mark"
    <3>1. CASE SealCheckDuplicate \/ SealAppend
      BY <3>1 DEF SealCheckDuplicate, SealAppend, SealGoes
    <3>2. CASE SealCheckConflict
      <4>1. PICK ok \in BOOLEAN :
              /\ RecordDeadLetter(seal.item.ev, "conflict", ok)
              /\ IF ok THEN SealGoes("mark", "terminal") ELSE SealEnds("error")
        BY <3>2 DEF SealCheckConflict
      <4>2. ok = TRUE
        BY <4>1 DEF RecordDeadLetter, Lossless
      <4> QED
        BY <3>2, <4>1, <4>2 DEF SealCheckConflict, SealGoes
    <3>3. CASE SealExhaust
      <4>1. PICK ok \in BOOLEAN :
              /\ RecordDeadLetter(seal.item.ev, "exhausted", ok)
              /\ IF ok THEN SealGoes("mark", "terminal") ELSE SealEnds("error")
        BY <3>3 DEF SealExhaust
      <4>2. ok = TRUE
        BY <4>1 DEF RecordDeadLetter, Lossless
      <4> QED
        BY <3>3, <4>1, <4>2 DEF SealExhaust, SealGoes
    <3> QED
      BY <1>3, <3>1, <3>2, <3>3
  <2>2. Taken' = Taken /\ Outcomes' = Outcomes + 1
    <3>1. CASE SealCheckConflict \/ SealExhaust
      <4>1. Count({"deadLettered"}) \/ Count({"conflicts"} \cup {"deadLettered"})
        BY <3>1 DEF SealCheckConflict, SealExhaust, RecordDeadLetter, DeadLettered, Lossless
      <4> QED
        BY <4>1, OneOutcome
    <3>2. CASE SealCheckDuplicate \/ SealAppend
      BY <3>2, OneOutcome DEF SealCheckDuplicate, SealAppend
    <3> QED
      BY <1>3, <3>1, <3>2
  <2>3. Watermark' = Watermark /\ Marking = 0 /\ Marking' = 1
    BY <2>1 DEF Watermark, Marking
  <2>4. Found' = Found + 1 /\ Owed' = Owed + 1
    BY <1>1, <2>2, <2>3, StatsTypes DEF Found, Owed
  <2> QED
    BY <1>1, <2>4, StatsTypes DEF StatsInv
<1> QED
  BY <1>2, <1>3, StatsAdvance DEF SealOne

LEMMA StatsWorker ==
  ASSUME TypeInv, ThreadInv, StatsInv, Worker
  PROVE  StatsInv'
<1>1. UNCHANGED <<conf, phase, wal, applied, ckpt, cnt, prod>>
  BY DEF disk, core, threads, told,
     Worker, WorkerRecv, WorkerLock, WorkerUnlock, WorkerUncount, WorkerIdle,
     DrainReadBacklog, DrainReadDepth, DrainLock, DrainScan, DrainReset, DrainNext,
     DrainBatchDone, AgeNotDue, AgeDue
<1>2. Marking' = Marking
  <2>1. CASE WorkerLock
    BY <2>1, SealIdle DEF WorkerLock, StartSeal, Marking
  <2>2. CASE WorkerUnlock \/ DrainNext \/ DrainBatchDone
    BY <2>2 DEF WorkerUnlock, DrainNext, DrainBatchDone, NoSeal, StartSeal, TakeRecord,
       NoMoreRecords, Marking
  <2>3. CASE ~(WorkerLock \/ WorkerUnlock \/ DrainNext \/ DrainBatchDone)
    <3>1. seal' = seal
      BY <2>3 DEF core, Worker, WorkerRecv, WorkerUncount, WorkerIdle, DrainReadBacklog,
         DrainReadDepth, DrainLock, DrainScan, DrainReset, AgeNotDue, AgeDue
    <3> QED
      BY <3>1 DEF Marking
  <2> QED
    BY <2>1, <2>2, <2>3
<1> QED
  BY <1>1, <1>2, StatsFrame DEF StatsSame, Taken, Outcomes, Watermark, Open

LEMMA StatsStart ==
  ASSUME TypeInv, ThreadInv, Start
  PROVE  StatsInv'
<1>1. /\ UNCHANGED <<conf, wal, ckpt, prod, seal>>
      /\ seal.pc = "none" /\ \A p \in Producers : prod[p].pc = "idle"
  BY DEF Start, disk, threads, told, ThreadInv, Asleep
<1>2. Calling' = 0 /\ Marking' = 0
  <2>1. Open' = {}
    BY <1>1 DEF Open
  <2> QED
    BY <1>1, <2>1, FS_EmptySet DEF Calling, Marking
<1>3. Watermark' \in {ckpt, Len(wal)} /\ (ckpt < Len(wal) => Watermark' = ckpt)
  BY <1>1, Numbers DEF Start, Watermark, MaxOf, TypeInv, Bounded
<1>4. ckpt <= Len(wal)
  BY DEF TypeInv, Bounded
<1>5. Outcomes' = 0 /\ Taken' = Len(wal) - ckpt
  BY Numbers, <1>4 DEF Start, Outcomes, Taken, CounterNames
<1>6. Len(wal') = Taken' + Watermark'
  BY <1>1, <1>3, <1>4, <1>5, Numbers
<1>7. Found' = Len(wal') /\ Owed' = Taken' + Watermark'
  BY <1>1, <1>2, <1>3, <1>4, <1>5, Numbers DEF Found, Owed
<1> QED
  BY <1>6, <1>7, Numbers, <1>1 DEF StatsInv

LEMMA StatsLife ==
  ASSUME TypeInv, ThreadInv, StatsInv,
         \/ Start \/ Recover \/ Crash \/ FlushBegin \/ Flush \/ ExplicitSeal
         \/ ShutdownBegin \/ DropPipeline \/ Shutdown
  PROVE  StatsInv'
<1>1. CASE Crash \/ StartFails \/ ShutdownJoin
  BY <1>1 DEF Crash, StartFails, ShutdownJoin, StatsInv
<1>2. CASE \/ RecoverNext \/ RecoverDone \/ FlushBegin \/ Flush \/ ExplicitSeal
           \/ ShutdownBegin \/ DropPipeline \/ DropSender
  <2>1. UNCHANGED <<conf, wal, applied, ckpt, cnt, prod>>
    BY <1>2 DEF disk, core, told, threads,
       RecoverNext, RecoverDone, FlushBegin, Flush, FlushReadDepth, FlushReadBacklog,
       ExplicitSeal, ShutdownBegin, DropPipeline, DropSender
  <2>2. /\ seal' = seal \/ (seal.pc \in {"none", "done"} /\ seal'.pc \in {"none", "check"})
        /\ phase \notin {"down", "stopped"} \/ phase' = phase
    BY <1>2 DEF core, NoSeal, StartSeal, TakeRecord, NoMoreRecords, Replaying,
       RecoverNext, RecoverDone, FlushBegin, Flush, FlushReadDepth, FlushReadBacklog,
       ExplicitSeal, ShutdownBegin, DropPipeline, DropSender
  <2>3. Marking' = Marking
    BY <2>2 DEF Marking
  <2> QED
    BY <2>1, <2>2, <2>3, StatsFrame DEF StatsSame, Taken, Outcomes, Watermark, Open
<1> QED
  BY <1>1, <1>2, StatsStart DEF Recover, Shutdown

LEMMA StatsStep ==
  ASSUME TypeInv, ThreadInv, OrderInv, StatsInv, UsesWal, Lossless, [Next]_vars
  PROVE  StatsInv'
<1>1. CASE \E p \in Producers, e \in Events, valid \in BOOLEAN : Submit(p, e, valid)
  BY <1>1, StatsSubmit
<1>2. CASE \E p \in Producers : Produce(p)
  BY <1>2, StatsProduce
<1>3. CASE UNCHANGED vars
  <2>1. UNCHANGED <<conf, phase, wal, applied, ckpt, cnt, prod, seal>>
    BY <1>3 DEF vars, disk, core, threads, told
  <2> QED
    BY <2>1, StatsFrame DEF StatsSame, Taken, Outcomes, Watermark, Open, Marking
<1> QED
  BY <1>1, <1>2, <1>3, StatsSeal, StatsWorker, StatsLife DEF Next

\* Between calls, seals and drains the records above the watermark are those that
\* depth and backlog count.
LEMMA QuiescentLine ==
  ASSUME JInv, UsesWal, Lossless, Quiescent
  PROVE  Len(wal) = Watermark + depth + backlog
<1>1. TypeInv /\ ThreadInv /\ CountInv /\ OrderInv
  BY DEF JInv, IInv
<1>2. seal.pc = "none" /\ ~Sealing /\ Appending = 0 /\ Uncounted = 0 /\ InHands = 0
  <2>1. seal.pc = "none"
    BY <1>1 DEF Quiescent, ThreadInv, LockInv
  <2> QED
    BY <2>1 DEF Quiescent, Sealing, Appending, Uncounted, InHands
<1>3. CASE conf.mode = "strict"
  BY <1>1, <1>2, <1>3, Numbers
     DEF Quiescent, OrderInv, LineInv, CountInv, DepthExact, DrainInv
<1>4. CASE conf.mode = "durable"
  <2>1. depth = Len(queue)
    BY <1>1, <1>2, <1>4, Numbers DEF CountInv, DepthExact, TypeInv, TypeOK, CoreType
  <2>2. Front = Watermark /\ Len(wal) = Front + Len(queue) + Appending + backlog
    BY <1>1, <1>4 DEF Quiescent, OrderInv, LineInv, Front
  <2> QED
    BY <1>1, <1>2, <2>1, <2>2, Numbers
<1> QED
  BY <1>1, <1>3, <1>4, Modes DEF UsesWal

(* Accounted: with a WAL and without an unrecorded failure, every event received   *)
(* or replayed has exactly one counted outcome or is counted as pending.           *)
THEOREM AccountedCorrect == Spec => [](UsesWal => Accounted)
<1> DEFINE K == JInv /\ (UsesWal /\ Lossless => StatsInv)
<1>1. Init => K
  BY JInvInit DEF Init, StatsInv
<1>2. K /\ [Next]_vars => K'
  <2> SUFFICES ASSUME K, [Next]_vars
               PROVE  K'
    OBVIOUS
  <2>1. TypeInv /\ ThreadInv /\ (UsesWal /\ Lossless => OrderInv)
    BY DEF JInv, IInv
  <2>2. UsesWal' = UsesWal /\ Lossless' = Lossless
    BY <2>1, SettledStays
  <2> QED
    BY <2>1, <2>2, JInvStep, StatsStep
<1>3. K => (UsesWal => Accounted)
  <2> SUFFICES ASSUME K, UsesWal, Quiescent, Lossless
               PROVE  IF conf.mode = "strict" THEN Explained <= cnt.received + cnt.replayed
                      ELSE Explained = cnt.received + cnt.replayed
    BY DEF Accounted
  <2>1. TypeInv /\ ThreadInv
    BY DEF JInv, IInv
  <2>2. Calling = 0 /\ Marking = 0
    <3>1. Open = {} /\ seal.pc = "none"
      BY <2>1 DEF Quiescent, Open, ThreadInv, LockInv
    <3> QED
      BY <3>1, FS_EmptySet DEF Calling, Marking
  <2>3. Len(wal) = Watermark + depth + backlog
    BY QuiescentLine
  <2>4. /\ conf.mode = "strict" => Outcomes + Len(wal) <= Taken + Watermark
        /\ conf.mode # "strict" => Outcomes + Len(wal) = Taken + Watermark
    BY <2>1, <2>2, StatsTypes DEF StatsInv, Quiescent, Found, Owed
  <2>5. depth \in Nat /\ backlog \in Nat
    BY <2>1 DEF TypeInv, TypeOK, CoreType
  <2>6. Outcomes + Len(wal) = (Outcomes + depth + backlog) + Watermark
    BY <2>1, <2>3, <2>5, StatsTypes
  <2>7. /\ conf.mode = "strict" => Outcomes + depth + backlog <= Taken
        /\ conf.mode # "strict" => Outcomes + depth + backlog = Taken
    BY <2>1, <2>4, <2>5, <2>6, StatsTypes, SMTT(20)
  <2> QED
    BY <2>7 DEF Explained, Outcomes, Taken
<1> QED
  BY <1>1, <1>2, <1>3, PTL DEF Spec

=============================================================================
