# A verification project for agenomic-cli

TLA+ modules, TLC configurations and TLAPS proofs about the program in `src/`.
The repository is a Rust workspace (a command line around 25 crates) and a
TypeScript connector. Most crates are one-shot transformations of documents; the
parts that have to survive concurrency, crashes, failing disks and lost requests
are the local ledger and the connector daemon, and these two are modelled: the
ledger in three modules (`LedgerPipeline`, `Wal`, `LedgerStore`), the connector in
three (`EventSink`, `ActionOutcomes`, `Daemon`).

All definitions were written from the code. `PROJECT.json` maps each one to the
lines it stands for; line numbers below are of
`src/crates/agenomic-ledger-local/src/` unless a path is given.

## 1. Inventory

### 1.1 The local ledger (`crates/agenomic-ledger-local`)

| Part | State | Operations | What makes it correct |
|---|---|---|---|
| Pipeline, `pipeline.rs` | the core behind one mutex (ledger, dedup map, WAL, dead letters, memory watermark, block timer); a bounded channel; atomic counters, among them `queue_depth` and `wal_backlog` | `start` (recovery), `append` in three modes, `seal_one`, the sealer worker, `drain_backlog`, `flush`, `seal`, `shutdown`, `Drop` | each accepted event is booked once or parked, in the order it was accepted; nothing is skipped by the watermark; flush and shutdown mean what they say; every event has a counted outcome |
| WAL, `wal.rs` | segment files, `checkpoint.json`, the writer's lengths and next number | `open` (truncate, quarantine, remove), `append` (budget, rotation), `checkpoint`, `pending` | an acknowledged record survives; numbers never start over; the budget is kept |
| Dead letters, `deadletter.rs` | one file per record | `record`, `list` | a failure is recorded before the watermark passes it |
| Ledger and store, `ledger.rs`, `store.rs`, `chain.rs` | `ledger.jsonl`, `manifest.json`, the chain heads | `open`, `append`, `read_all` | sequence and hash links are unbroken; the manifest never runs ahead of the log |
| Blocks, `block.rs` | `blocks.jsonl` | `open`, `seal` | blocks partition a prefix of the ledger |
| Key store, `keystore.rs` | the manifest of keys and their status | `generate`, `rotate`, `revoke` | one active key; memory and disk agree |
| Verification, proofs, canonical form | none | pure functions | inclusion proofs are sound and complete |

Interactions: producers call `append`, which takes the core mutex, checks the
dedup map, writes the WAL and sends the event to the worker's channel, or, when
the channel is full or older events wait in the WAL, leaves it there and counts
it in `wal_backlog`. The worker receives, locks the core, and runs `seal_one`:
recheck the dedup map, append to the ledger with retries or record a dead letter,
then move the watermark (memory, then `checkpoint.json`), then perhaps seal a
block. On an idle tick it drains the backlog under the lock and looks at the age
trigger. `start` replays what the WAL holds above the checkpoint through the same
`seal_one`.

Hard behaviours: producers racing on one id; the counters that are read outside
the mutex; a crash between any two of the durable writes; a checkpoint that fails
after the append; a spill racing a drain; a shutdown whose flush timed out; a WAL
write that fails half way; a crash inside recovery.

### 1.2 The connector (`connector/src`)

One Node.js process: interleaving happens at each `await`.

| Part | State | Hard behaviour | What makes it correct |
|---|---|---|---|
| `events.ts`, EventSink | queue, batch in flight, spool file, dropped count | emit, spill and requeue around a send in flight; a spool trimmed after a send | evidence is delivered in order or counted as dropped |
| `session.ts`, SessionContext | verdicts, open actions with their retained outcomes, settlements | settle, report and close racing for one action; approvals that expire while they are polled | each admitted action is reported in the end, an observed outcome is never replaced |
| `daemon.ts`, Daemon | sessions, persisted launches, commands in flight and finished, saved outcomes, chained state reports | commands delivered again, restart between persisting and starting, stop during deliveries | one process per launch, results repeated not recomputed, state reports in order |
| `claude.ts`, `codex.ts` | a child process, its turn | exit racing a stop | the session's status follows the process |
| others | none or files | | I/O, git, redaction, configuration |

### 1.3 The other crates

`agenomic-atep` (segments and a manifest), `agenomic-track` (sessions, loop and
drift detection), `agenomic-rmp` (ledger-first monitoring, findings, enrichment
proposals), `agenomic-gate` (decisions over tool calls), `agenomic-os` (resolver
and cache) keep state or decide, each within one process; section 11 says why they
are left out. The remaining crates
(bundles, hashing, prompts, compilation, detection, validation, diff, replay,
reports, configuration, diagnostics, the cloud client, the command line) run once
over their inputs. `PROJECT.json` lists every component with its status and the
hazards, each at its line, with the properties that cover it.

## 2. Plan

The order followed, most important behaviour first:

1. `LedgerPipeline` with the abstract `InOrderLedger`, and its proofs.
2. `Wal` with the abstract `DurableLog`, and its proofs.
3. `LedgerStore`: the files below the pipeline, with several processes, and the
   proof about its keys.
4. `EventSink`, the delivery of a session's events, and its proofs.
5. `ActionOutcomes`, the life of a session's actions up to the saved outcomes of
   the daemon, and its proofs.
6. `Daemon`, the commands of a launched session, and the proof that they start one
   runtime.

Compositions: `LedgerPipeline` uses the WAL through the interface that
`DurableLog` states and `Wal` implements. `ActionOutcomes` composes the session
context with the parts of the daemon that end it and save what it leaves.
`LedgerStore` shows what the pipeline's `SealAppend` may find below it: an append
that fails is not always without effect there, and the loss is noticed by `open`.

What could come next: a model of the monitor (`agenomic-rmp/src/monitor.rs`) and of
the segment store (`agenomic-atep/src/store.rs`), whose hazards are listed; a
refinement of an at-least-once delivery by `EventSink`; what the gateway shows of a
session that has several stops.

## 3. `LedgerPipeline`

### 3.1 State

| Variable | Code |
|---|---|
| `wal`, `ckpt` | the records of the WAL by `wal_seq`; `checkpoint.json` |
| `ledger`, `dead`, `sealedTo` | the entries, the dead letters (a set), `next_start_sequence` of the block chain |
| `phase` | `stopped`, `down` (crashed or a failed start), `recovering` (inside `start`), `up`, `closing` (the flush of `shutdown`), `draining` (the sender is dropped) |
| `lock` | the holder of the core mutex |
| `applied`, `dedup`, `timer` | `applied_wal_seq`, `dedup`, `oldest_unsealed_since.is_some()` |
| `seal`, `todo` | where `seal_one` stands and with which record; what is left of the batch of a replay |
| `queue`, `depth`, `backlog`, `cnt` | the channel, `queue_depth` (modulo `Wrap`, it is a `u64`), `wal_backlog`, the other counters |
| `prod`, `work`, `fl` | the program counters of the producers, of the worker, and of one flushing thread |
| `acked` | events whose `append` returned success; a crash in best-effort mode removes those that were only queued (`config.rs:19-21`) |
| `conf` | mode, `dead_letter_enabled`, and which I/O operations may fail |

### 3.2 Actions

`append` is `Submit`, then `RefuseInvalid`, `AnswerDuplicate`, `RefuseConflict` or
`PassDedup`, then `WalAppend` or `WalRefuse`, then by mode `Spill`/`CountSpilled`,
`Enqueue`/`CountQueued`, `SendBestEffort`/`RefuseFull`, or the seal of the strict
mode with `StrictReply`. `seal_one` is `SealCheck…`, `SealAppend`, `SealRetry`,
`SealExhaust`, `AdvanceWatermark`, `SealByCount`. The worker is `WorkerRecv` to
`WorkerIdle`, `Drain…`, `AgeDue` and `AgeNotDue`. `start` is `Start`,
`RecoverNext`, `RecoverDone`, `StartFails`. `flush` reads its two counters in
`FlushReadDepth` and `FlushReadBacklog`. `shutdown` is `ShutdownBegin`, the flush,
`DropSender`, `ShutdownJoin`; `Drop` is `DropPipeline`.

A step ends where another thread or a crash can look: at each durable write, each
atomic counter read outside the mutex, each lock and channel operation. So
`try_send` and `queue_depth.fetch_add` are two steps, and so are the ledger append,
the checkpoint and the block.

Abstractions. An event is an id and a hash. `retries` is not counted. Blocks are
enabled. An event whose draft is invalid is a choice of `Submit`. Retry delays and
the 20 ms tick are left to fairness. A failing ledger append leaves nothing behind
(that of `FileLedgerStore` may: the subject of `LedgerStore`).
`RetryMax`, `QueueCap`, `BlockMax` are parameters. A poisoned mutex and two
processes on one directory are left out: no step of the code panics with the
mutex held, and no file lock keeps a second process away, so nothing could be
said. A Disconnected channel cannot meet an `append`, because `shutdown` consumes
the pipeline. Records of one WAL are contiguous: with a clean disk that is what
`Wal` shows (`ImplementsDurableLog`).

### 3.3 Runs

| Run | Instance | Shows |
|---|---|---|
| `faults` | durable and strict, two producers, two ids with two hashes, queue 1, one retry, blocks of 2, three appends, one crash; ledger, checkpoint, WAL and block failures | `TypeOK`, `WatermarkSound`, `AtMostOnce`, `ShutdownComplete`, `Accounted`, `ImplementsInOrderLedger` |
| `spill` | durable, two producers, two ids, queue 1, four appends, one flush, one crash | `AckedNotLost`, `QueueInWalOrder`, `NothingStranded`, `FlushComplete` |
| `live` | all modes, one producer, three appends, a crash, the age trigger, failing scans, dead letters and checkpoints; under `FairSpec`, without symmetry | `AckedEventuallySettled`, `CallsReturn` |
| `besteffort` | best effort, two producers | violates `FlushComplete`, finding 1 |
| `fulldisk` | durable, one producer, a ledger and a dead-letter store that can fail, four appends, fairness | violates `CallsReturn`, finding 2 |

Bounds. With a queue of one, the second event that waits overflows it; with three
events one is in the worker's hand, one queued, one spilled, and a fourth finds the
backlog non-empty, which is the sticky spill. Two hashes for one id give the
conflict at append time and at seal time. One crash with pending records gives a
recovery, and the crash may fall into a recovery as well; a second crash repeats
it from a disk state of the same shape. One retry distinguishes a failure that
passes from one that exhausts. `Wrap` is far above the number of queued events;
it only has to make `0 - 1` a large number. `MaxSubmit`, `MaxFlush` and `MaxCrash`
are the only bounds in guards. `CHECK_DEADLOCK FALSE`: when the bounds are used up
a pipeline that was shut down need not be started again.

### 3.4 Fairness

A producer inside a call, `seal_one`, the worker, recovery, a flush and a shutdown
are running threads: weak fairness. `std::sync::Mutex` is not fair, and weak
fairness of a waiting thread would not be enough if others could lock for ever;
the calls are bounded by `MaxSubmit`, and the worker, when it has nothing to do,
does not lock (the age trigger locks, which is why the wait of a producer is also
checked with it). `Start` is weakly fair: a process that is down is started again.
`AgeDue` is strongly fair: an armed timer is due after a finite time and the worker
looks at it at every idle tick; in between `AgeNotDue` may be taken. Nothing is
assumed about `Submit`, `FlushBegin`, `ExplicitSeal`, `ShutdownBegin` or `Crash`,
nor about failures ending: a ledger that always fails runs out of retries.

### 3.5 `Lossless`

Several properties are stated for `Lossless` configurations: dead letters are
enabled and written, and WAL scans succeed. Without them the code does lose track:
a dead letter that cannot be written is dropped by the worker (`pipeline.rs:821-825`),
and a failed scan resets the backlog (`pipeline.rs:852`, `872`). With
`dead_letter_enabled = false` an event whose retries are exhausted leaves no trace
and no count at all (`pipeline.rs:697`), although `config.rs:86-88` reads as if a
failure were still recorded. These are hazards in `PROJECT.json`. The `live` run includes failing scans, and failing dead letters
in best-effort mode, where no backlog exists, and checks that calls and shutdowns
still end (`CallsReturn` is about `append` and `shutdown`); with a
backlog they need not, which is finding 2.

## 4. `Wal`

`files` maps a segment's index to its header and frames; a frame has its place in the
file (`at`) and its length, is whole or torn, and nothing behind a torn one is
readable, as in `read_segment`. `open` is `OpenBegin`, one `OpenSegment` per listed
file in the order of the names (truncate, quarantine, remove or keep), `OpenDone`,
which sorts what was found. `append` is `AppendBusy` or `AppendBegin` (budget, rotation,
creation), `WriteHeader`, `WriteFrame`, `Sync`, each of which may fail or be cut by
a crash. `Seal` and `Checkpoint` are the pipeline as the log sees it: records are
settled in order, and a checkpoint covers what was settled.

A write that is cut leaves nothing or `TornLen` bytes, no more than what was to be
written (`SizesAssumption`); a frame is synced or, after
a crash, absent, torn or whole. A torn frame never has a matching CRC. A header
written behind a part of a header is bad magic or a header with garbage behind it,
depending on where it was cut. `FaultSets` gives the kinds of failure a disk may
have; `Clean` means that a failed write leaves nothing. Directory entries are
durable once created.

| Run | Instance | Shows |
|---|---|---|
| `wal_recovery` | frames of 2 and 3 units, segments of 5, a budget of 9, four appends, two failures of one kind, two crashes | `TypeOK`, `AckedRecoverable`, `FreshAboveCheckpoint`, `RecoveryComplete`, `ImplementsDurableLog` |
| `wal_halfwritten` | three appends, one frame written in part | violates `AckedOnDisk`, finding 3 |

Segments of 5 are full after two frames, so four appends rotate; the budget of 9
refuses some of them, and is overrun by a header in others, which is what
`TypeOK` bounds. Two crashes let one fall into the recovery from the other.
`RecoveryComplete` compares what `open` reports with what the directory held when
it began, on every disk, so that quarantine is covered too; it also says that the
report is in the order of the appends and holds no record twice, so that sorting it
by `wal_seq` changes nothing. `ImplementsDurableLog`
and `AckedRecoverable` are for a clean disk: finding 3 is what happens otherwise.
Every behaviour is bounded, hence `CHECK_DEADLOCK FALSE`.

## 5. `LedgerStore`

The files of the ledger as bytes on a disk: `log` and `blk` are `ledger.jsonl` and
`blocks.jsonl`, sequences of whole texts, newlines and pieces of a text whose write
was cut, with the length that is synced; `man` and `kman` are the two manifests,
replaced whole. `proc` is a process that has the ledger open, with what it read
(manifest, chain, blocks, active key) and where its `append` or `seal` stands;
`tool` is a key command between reading and replacing the key manifest.

`open` is `OpenStore` (manifest and keys) and `OpenLedger` (log and blocks). `append`
is `AppendText`, `AppendNewLine`, `AppendSync`, `AppendSave`: `writeln!` on an
unbuffered file makes two writes, then `sync_all`, then the manifest, and only then
does the chain in memory move. `seal` is `SealText`, `SealNewLine`, `SealSync`. Each
call may fail and leave what was written (`AppendTextFails`, `LaterCallFails`,
`SealTextFails`); `ProcessEnds` is an exit or a kill anywhere; `PowerLoss` keeps the
synced part of each file and some of the rest. `ReadKeys`, `Rotate`, `Revoke` and
`KeyCommandEnds` are `ledger keys`. `Passes` is the verdict of `verify_ledger`.

Two processes share the files because nothing keeps them apart: each command of the
command line opens the ledger for itself (`agenomic-cli/src/ledger.rs:116,136,1067`).

| Run | Instance | Shows |
|---|---|---|
| `files` | two processes, one key command, two runs, two entries and a block (or one and two), one rotation, one failing call or loss of power | `NoSilentLoss`, `ManifestNotAhead`, `KeysResolve`, `VerdictSound` |

The bounds: two appends and two processes give repeated numbers, joined lines and
lines of one process between those of the other; a third text is a block over them;
one rotation gives two keys, of which a process may still hold the first. One fault
is a failing call or a loss of power; kills are not counted. The processes and the
runs are interchangeable, so the run uses their permutations as symmetry.

What the properties do not say, because the code does not give it:

- The log need not stay readable. A process killed between the text and its newline
  leaves a text to which the next append joins its own; that append is synced and
  acknowledged, and every later `open` refuses the log. `NoSilentLoss` says the loss
  is noticed.
- The manifest is never brought up to date with a log that is ahead of it, so its
  count stays short.
- Two `keys rotate` at the same time each replace the manifest they read: the first
  new key loses its record, and with it the entries signed with it their check
  (`KeysResolve` fails with two `Tools`, three keys). A process that has the ledger
  open goes on signing with a key that was rotated and revoked meanwhile.
- A block line that failed to sync stays, and its range is sealed again behind it;
  `verify` then reports an overlap for ever. `verify` reads the entries before the
  blocks, so a block sealed in between is reported too.

Assumed: `write_atomic` is durable at once; a sync that succeeds covers what an
earlier failed one left; key files and event ids are not modelled.

## 6. `EventSink`

One sink per session. `queue`, `spool`, `dropped` are the code's; `fl` is `doFlush`
at its await (which batch of the queue or of the spool is in flight); `life` is the
sink's, and `cloud` what the gateway has received. JavaScript runs from await to
await, so a step is the code between two of them: `Tick` or `Emit` starts a flush and
runs to its first send, `SpoolSent`, `SpoolFails`, `BatchSent`, `BatchFails` are the
answers, `Continue` is the loop after an emptied spool. `Close`, `CloseDone` are
`close`; `Crash` and `Open` are a process that dies and the next one, which finds the
spool with what was already received still in it, and perhaps with a torn last line.

Identifiers are numbered in the order of creation, and the ghosts `lost`, `gone`,
`reported`, `unsaid`, `unsure`, `again` account for each of them.

| Run | Instance | Shows |
|---|---|---|
| `spool` | queue 2, batch 2, spool 3 lines, four events of either kind, two failing sends, one crash; under `FairSpec` | `TypeOK`, `InOrder`, `NothingVanishes`, `NoNeedlessResend`, `EvidenceKept`, `Drains` |

A queue of two overflows with the third event while a batch of two is in flight, so
that events are spilled around a send; a spool of three lines is filled and is sent
in two batches, of which the second can fail. Fairness: the timer fires, an await
that was resolved resumes, and a send is answered; only `MaxFail` sends fail, so
`Drains` says that the sink recovers once they succeed, and assumes that it stays
open. Nothing is assumed about `Emit`, `Close` or `Crash`.

Two facts beside the properties: each failed flush that counted drops adds a notice
to the queue past its bound (`events.ts:206`), although the class is documented to
use bounded memory; and drops that the last flush of `close` counts are never
reported (`unsaid`).

## 7. `ActionOutcomes`

The actions of one session between three parties: the tool call of the runtime
(`call`), the session context (`open`, the retained outcomes; `sends`, reports in
flight; `settling`), and the gateway (`gw` its decision, `got` the outcomes it has).
Around them the daemon: `session`, `tracked` (`settlingContexts`), `saved` (the file)
and `sending` (`deliverSaved`).

`authorize` is `Ask`, `Answered`, `Unanswered` (`failClosed`), with `Review` at the
gateway and `ApprovalEnds` in `waitForApproval`. `report` is the operator `Report`,
used by `ToolReports` and by every settlement; its send ends in `Acked` or
`ReportFails`. `settleOpen` is `SettleOpen`, used by `TurnEnds`, `SettleAgain` and
`settleFinal` (`SessionEnds`, `StopSettles`). `stop` is `Stop`, `StopSettles`,
`StopSaves`, and the file is delivered by `Deliver`, `Delivered`, `DeliverFails`.
`Crash` loses the context; `Start` begins a new one.

| Run | Instance | Shows |
|---|---|---|
| `stop` | two actions in enforce mode, two failing requests, one crash; under `FairSpec` | `AdmittedOnly`, `ObservedKept`, `NoneLeftOpen`, `NoUnknownAfter`, `SavedDelivered` |

Two actions let one be settled while the other is still asked for; two failures give
a report that fails twice, or an authorization and a report. The actions do not
interact beyond that. Stops and starts are not bounded. Fairness: a daemon that is up
sends what it saved, and a send is answered (`MaxFail` of them may fail);
`SavedDelivered` assumes that the daemon stays up in the end. No deadlock: a daemon
that is down can be started.

The gateway is external, modelled from the requests: it decides an action once,
answers a repeated request alike, consumes an approval once, and may refuse an
outcome for good when it already has one.

`ObservedKept` and `NoneLeftOpen` leave out actions that were admitted, or reported,
while their session was ending (`late`). Such an admission opens an action in a
context that is about to be forgotten, `unacknowledged()` does not count it, and
`stop` no longer reaches it: the action stays open on the gateway. They also leave
out crashes, where the context in memory is lost by design; the gateway then settles
by itself.

## 8. `Daemon`

The commands of one launched session. `issued` and `recorded` are the gateway's;
`cmd` is the handler of each command at its await, with the values it captured;
`finished` the results kept to be posted again; `record` the persisted launch;
`objs` the `Managed` objects with their chained reports, `cur` the one in `sessions`;
`procs` the adapters and what is left of their processes; `due` the prompts to hand
over; `shown` the status the gateway has.

`deliver` is `Received` with `DeliverDone`, or one of the handlers: `launch`
(`LaunchAlready`, `LaunchRefused`, `Launch`, `StartAdapter`, `Spawn`,
`RegisterNative`, `AdapterStarts`, `StartFails`, `LaunchFailed`), `resume`
(`Resume`, `ResumeRefused`, `ResumeFailed`), `stop_process` (`Stop`, `StopApplied`,
`StopUnknown`, `StopRefused`). `Connect` and `Prompt` are `connect` and
`deliverPrompt`; `ReportDelivered`, `ReportFails`, `ReportRefused` the chain of
reports; `RuntimeStatus`, `RuntimeEnds`, `ProcessExits` the runtime. `Post` is the
post of a result, whose answer may be lost. `Crash` keeps the record and may leave a
process behind.

| Run | Instance | Shows |
|---|---|---|
| `commands` | Codex; one launch, one resume, one stop; one failing request, one crash, two kept results; under `FairSpec` | `TypeOK`, `LaunchOnce`, `ModeFirst`, `ShownIsStatus`, `LaunchedStatus`, `RefusedLaunchLeavesNothing`, `OneRuntime`, `Answered` |
| `resumed` | the same without failures and crashes | violates `ResumedStatus`, finding 4 |

Three commands and two kept results make one result forgotten, which is what 500
does for a longer list of commands. A poll is not a step of its own: any command
whose result the gateway lacks may arrive at any time, and arrives again. Fairness:
the handlers run, reports are answered, and a daemon that is down is started again;
`Answered` needs no more, since only `MaxFail` requests fail. `MaxReports` bounds the
statuses that wait in a chain.

What the properties do not say:

- `OneRuntime`, `ModeFirst` and `LaunchedStatus` need the gateway to give launches and
  resumes one at a time (`OneAtATime`, section 9.3). Two resume commands at once both
  find no live runtime until the child is spawned (`codex.ts:235-252`) and start two.
- `ShownIsStatus` is for one command of each kind (proved so, section 9.3). With two
  launches, resumes or stops it fails, also when they come one after the other:
  a stop may have captured an object that is no longer the session's; its `stopped`
  (`daemon.ts:508-511`) is then reported after the new object's statuses, and the
  gateway shows it for a session that runs.
- `RefusedLaunchLeavesNothing` is for one launch: with two, the record of the second is
  there when the first is refused, and a crash leaves it without a runtime.
- `ModeFirst` is for connecting reports the gateway did not refuse: a refusal (any
  4xx, `daemon.ts:564`) is final, and later statuses go out without a mode.
- A resume that is delivered again after a restart starts the session again and hands
  over its prompt again.
- With Claude Code, `alive()` is false while the process of a closed session still
  exits, so that a late `stop_process` may set `stopped` over a resumed session
  (`daemon.ts:511`, `claude.ts:433-435`).

Left out: `send_message`, `answer` and `interrupt` (each one call of the adapter),
`refreshMode`, `registerLocal`, the hook socket, the heartbeat; `stop` is in
`ActionOutcomes`.

## 9. What is proved

### 9.1 `LedgerPipeline`

Every safety property of `LedgerPipeline`, and its refinement, is a theorem: for any
finite set of producers, any events and hashes, any queue, retry and block limit, any
set of modes and faults, and any bounds. The assumptions are those of the module:
`ConfigsAssumption`, `ThreadsAssumption` (finitely many producers), `LimitsAssumption`
(the queue holds at least one), `WrapAssumption` (the counter of the queue does not
wrap while the queue and one producer's item are counted: a `u64` against a channel in
memory), `BoundsAssumption` and `NullAssumption` (the null values and the names of the
threads differ from the parameters).

| Theorem | Property | Holds for |
|---|---|---|
| `TypeCorrect` | `TypeOK` | everything |
| `OnceCorrect` | `AtMostOnce` | everything |
| `WatermarkCorrect` | `WatermarkSound` | lossless configurations |
| `OrderCorrect` | `QueueInWalOrder` | a WAL, lossless |
| `StrandedCorrect` | `NothingStranded` | lossless |
| `AckedCorrect` | `AckedNotLost` | lossless |
| `FlushCorrect` | `FlushComplete` | a WAL, lossless |
| `ShutdownCorrect` | `ShutdownComplete` | lossless |
| `AccountedCorrect` | `Accounted` | a WAL, lossless |
| `InOrderCorrect` | `ImplementsInOrderLedger` | a WAL, lossless |

Lossless is section 3.5 and part of the properties themselves. The hypothesis of a WAL
(`UsesWal`, durable or strict) is in the theorems that need it: in best-effort mode
`flush` is not complete (finding 1), and the counter it reads may wrap, so that nothing
adds up while a producer is between its send and its count.

None of these is inductive alone. `LedgerPipelineInv` strengthens them to `IInv`, in
layers that are proved one after the other:

- `TypeInv`: types; a call in progress has an event; no number in memory points
  past the end of the WAL.
- `ThreadInv`: who may stand where. At most one thread is between lock and unlock,
  `seal_one` runs for it, nothing runs while the pipeline is down, and each mode
  uses its own part. Without it two seals could interleave.
- `OnceInv`: the dedup map is the ledger seen by id, and a draft about to be
  appended has an id the ledger does not know. It gives `AtMostOnce`, and it holds
  with every fault, since it is the recheck under the lock that carries it.
- `Linked` and `SettleInv`, for lossless configurations: a number in memory stands
  for its record; whoever takes a record has only settled ones before it; what is
  queued has only settled records and the line itself before it; and when the
  backlog is zero every record is settled, in line, or in the hand of the append
  that holds the lock. The last part is the sticky spill: it is what allows the
  next `Enqueue` to keep the order, and `DrainReset` re-establishes it because the
  scan was empty while the lock was held. `MarksSettled`, and with it
  `WatermarkSound`, follows.

`JInv` adds to it what the order of the line and the promises need:

- `CountInv`: an item in a hand is the one that is being sealed (`ItemInv`); a drain
  runs behind a backlog that is not zero, and behind an empty queue (`DrainInv`);
  `queue_depth` is exact, but for the one producer between its send and its count
  (`DepthExact`); and once a pipeline is closing nobody appends any more, so that a
  worker that saw the sender gone has nothing left (`CloseInv`).
- `OrderInv`: the record in the hand is the next one above the watermark
  (`NextInHand`); the queue goes on where the hand ends, and the length of the WAL is
  the watermark, the hand, the queue, the append in progress and the backlog, added
  up (`LineInv`). It is the sum that makes the backlog an exact count: when the worker
  resets it, nothing is stranded; when it is zero, the queue ends at the end of the
  WAL. `OrderCorrect`, `StrandedCorrect` and `InOrderCorrect` follow from it.
- `PromiseInv`: an event that was acknowledged is settled, or handed over in the WAL
  (durable), or in the process (best effort) (`AckInv`); a flush that found the queue
  empty waits for the backlog or has nothing to wait for (`FlushInv`). That
  `queue_depth = 0` says that the queue is empty is `DepthExact`; best effort has no
  such invariant, which is finding 1.

`StatsInv`, on top of `JInv`, balances the statistics at every step and not only when
nothing is in progress: outcomes, calls still open and records of the WAL on one side,
events taken in and the watermark on the other.

`InOrderCorrect` maps the WAL to the inbox, the ledger to the book, the dead letters to
what is parked (a conflict refused before the WAL is `Refuse`), and `checkpoint.json` to
the watermark. Each action
of the pipeline is a step of `InOrderLedger` or leaves it alone. `SealAppend` and the
steps that park a record are `Book` and `Park` of the next record, because the record
in hand is the next one above the watermark in memory (`NextInHand`), and everything
below it has its terminal state.

### 9.2 `Wal`

Every safety property of `Wal`, and its refinement, is a theorem (`WalProofs`), without
a hypothesis: for any frame lengths, segment size, budget, sets of failures, and bounds
(`SizesAssumption`, `FaultsAssumption`).

| Theorem | Property | Disk |
|---|---|---|
| `FreshAboveCheckpointCorrect` | `FreshAboveCheckpoint` | any |
| `RecoveryCompleteCorrect` | `RecoveryComplete` | any |
| `TypeOKCorrect` | `TypeOK` | types any; the budget on a clean one |
| `AckedRecoverableCorrect` | `AckedRecoverable` | clean |
| `ImplementsDurableLogCorrect` | `ImplementsDurableLog` | clean |

Clean is part of the properties: a failed write leaves nothing. Finding 3 is why it is
needed.

`Base` is the part that holds whatever fails:

- `Types`: besides the types, an `append` at work belongs to an open log whose current
  segment exists.
- `Numbers`: in an open log the checkpoint is not above what was applied, and that is
  below the next number, as is everything still to seal.
- `Ordered`: the whole frames of all segments, in the order of the names, are in the
  order of their drafts, and their numbers never go down (they may repeat when a frame
  was written and its sync failed). No segment lies behind the current one, and no frame
  has a number above the next.
- `Scanned`: a segment that `open` has passed and kept is undamaged, lies before those
  still to be read, and its records above the checkpoint are in the report; the report
  is in the order of the drafts and everything left to read comes behind it; and
  report and rest together hold what the directory held at the start, which is
  `RecoveryComplete`. A crash inside `open` throws the report away; that nothing readable
  was removed or cut before is what makes the next `open` find it again.

`CleanInv` adds, for a clean disk:

- `CleanDisk`: no bad header, frames behind each other, and a torn frame only in the
  last segment: so `open` truncates and never quarantines, and nothing hides behind it.
- `CleanWriter`, `CleanBudget`: `current_len` and `total_len` are the bytes of the
  current segment and of all of them, and a write that has begun fits, the first header
  of a segment aside. The bytes on disk are a set of places, and a step changes those of
  one segment (`BytesReplaced`, `DiskMoves`), so that no sum over the segments is needed.
- `CleanLine`: what is still to seal is above what was applied and in order, so a
  checkpoint covers nothing unsettled.
- `CleanNumber`: the highest number in use is that of a readable record or the checkpoint,
  so that the next `open` counts on without a gap.
- `CleanAcked`: an acknowledged record is settled, or readable above the checkpoint and,
  in an open log, in the line to be sealed.

For the refinement, `Counts` and `Highest` say which records and numbers of a disk the
mapping shows: `Sync`, and a crash that leaves the frame being written whole, are `Add`
with the next number; `Checkpoint` is `Apply`; every other step, each of `open`
included, leaves both as they are (`LogStep`).

### 9.3 The other modules

`ActionOutcomesProofs` proves, for any set of actions, either mode, and any number of
failing requests and crashes (`OutcomesAssumption`): `TypeCorrect`, `AdmittedSafe`
(`AdmittedOnly`), `NoUnknown` (`NoUnknownAfter`), `LeftCorrect` (`NoneLeftOpen`),
`ObservedCorrect` (`ObservedKept`) and `SavedCorrect` (`SavedKept`, a saved outcome
leaves the file only when it was settled or replaced, which no run repeats).
`AdmittedOnly` is inductive with the types. The others need two strengthenings:

- `Retained`: a daemon that is down holds nothing (`DownEmpty`); an observed action
  has reported once and its entry is `completed` or acknowledged (`ObservedOpen`); a
  send that may remove the entry of an observed action carries `completed`, and a
  settlement only awaits such a send (`LiveSends`). Without the last one a settlement
  that wakes up could report `unknown` over what was observed.
- `Closing`: what is being settled for good has an outcome (`SettlingOpen`); once the
  session is ending every action known before has one (`EndingOpen`); and a context
  that is no longer tracked retains none of them (`Forgotten`). It is why `Untrack`
  may forget a context, and `StopSaves` reaches all the others.

`LedgerStoreProofs` proves the four invariants of the run, for any number of processes,
runs, entries, keys and failures, along three inductive invariants.

- `KeysCorrect`: `KeysResolve`, under the hypothesis `OneTool` (at most one key command
  runs at a time: the manifest is read and written back without a lock, so two of them
  can lose each other's key). `KeyInv` adds that the key a process took when it opened
  the ledger, and the one on the item it is writing, are in the manifest
  (`SnapshotKnown`), and that a key command which has read the manifest still holds
  what is on disk (`ReadIsCurrent`). With these a key command only ever adds keys,
  which is what keeps old entries verifiable.
- `NoSilentLossCorrect` and `ManifestCorrect`, without a hypothesis. `LogInv` says that
  what an append wrote is in the log until its process ends, synced before the manifest
  is saved (`ItemWritten`), that what was acknowledged is synced (`AckedSynced`), and
  that no manifest, on disk or in a process, counts more texts than are synced
  (`CountsSynced`). The last part needs that a process between its text and its sync
  holds a count below the place of its own text (`Ahead`): other processes write in
  between, and each counts from the manifest it read. A loss of power keeps the synced
  part, so all of it survives. A log that `open` accepts is wired, so the place of an
  entry is its number, and an acknowledged entry is where it says it is.
- `VerdictCorrect`, without a hypothesis. `VerdictInv` adds that every text of the log
  has a number and every text of `blocks.jsonl` a range, also the ones that processes
  hold, and that a sealed block is synced. When `verify` finds the entries complete
  and wired, sorting by number puts each one at its number (`SortedAtNumber`), so what
  a block covers has the entry `e` at place `e.seq - from + 1` (`CoveredAtNumber`).

The lines of a file, the sorted entries and what the sink keeps, batches or receives
are defined by counting (`Subsequences`) and not with `SelectSeq` and `SortSeq`, which the provers do not know;
`SubsequencesProofs` has the lemmas.

`EventSinkProofs` proves every safety property of the sink, without a hypothesis, for
any size of the queue, the batches and the spool and any number of events, failing
sends and crashes (`SinkAssumption`): `SinkTypes` (`TypeOK`), `SinkInOrder`
(`InOrder`), `NothingIsLostSilently` (`NothingVanishes`), `SinkSendsAgainForCause`
(`NoNeedlessResend`) and the action property `EvidenceIsKept` (`EvidenceKept`). The
inductive invariant `SinkInv` reads the sink as one line of events:

- `Order`: a batch out of the queue, the spool and the queue, one after the other, are
  in the order of emission and hold no event twice. A batch of the spool is not in the
  line beside its own lines, which is why trimming only what was sent, and putting a
  failed batch before what was spilled, matter.
- `Fresh`: whatever may still be sent (`Pending`) comes after all that the cloud has,
  or is repeated for a cause that `unsure` records. `InOrder` and `NoNeedlessResend`
  follow. The lines that a flush has sent are not pending, but stay in the file until
  it is trimmed; a crash makes them pending again, with a cause.
- `FlushOf`: the lines a flush has passed are received or were unreadable and are
  gone, and its batch is the next readable ones of what it read, also after lines were
  appended. That no line before the first one left is torn keeps the readable lines
  readable when a failed flush trims in the middle.
- `Numbers` and `Counts`: every identifier is in exactly the places it should be, and
  no dropped one is held, so a drop adds to `lost` as much as it adds to `dropped`.

`EvidenceIsKept` needs `Alive` as well: whenever an event can be dropped into the
spool, the spool is empty or has a readable line, so that the flush that `emit` starts
in the same step does not empty a full spool as unreadable.

`DaemonProofs` proves `LaunchOnceCorrect`: `LaunchOnce`, for any sets of commands,
number of kept results, failing requests and crashes (`DaemonAssumption`).
`LaunchInv` is the inductive invariant. From the record on disk until the start has
succeeded or was undone a launch is beginning; at most one is, its record is on disk
and no launch has started a runtime before it (`OneActive`); the runtime that was
started is the only one and stays recorded (`OneLaunched`); and the adapter that a
command starts is its own (`OwnAdapter`), so that a start that succeeds is charged to
the launch that began it. A crash takes the beginning launch and leaves the record,
which is why the redelivered command finds it and starts nothing.

`DaemonSession` goes on from it, with the same constants. The steps are described once,
field by field (`LaunchEffect` to `RestEffect`); the layers use the descriptions.

| Theorem | Property | Hypothesis |
|---|---|---|
| `DaemonTypes` | `TypeOK` | none |
| `PromptsAfterMode` | a prompt is handed over only once the gateway has the mode | none |
| `OneRuntimeCorrect` | `OneRuntime` | `[]OneAtATime` |
| `ModeFirstCorrect` | `ModeFirst` | `[]OneAtATime` |
| `LaunchedStatusCorrect` | `LaunchedStatus` | `[]OneAtATime` |
| `RefusedLaunchCorrect` | `RefusedLaunchLeavesNothing` | `OneLaunch` |
| `ShownIsStatusCorrect` | `ShownIsStatus` | `OneLaunch`, `OneResume`, `OneStop` |
| `OneOfEach` | `[]OneAtATime` | `OneLaunch`, `OneResume` |

`OneAtATime` says that of the launches and resumes the gateway has given, at most one
has no result yet. It is a hypothesis on the gateway, which is not in the repository,
and it is needed: with two resumes outstanding `OneRuntime` and `ModeFirst` fail.
`OneLaunch` and `OneResume` say that there is at most one command of the kind, which
may be redelivered at will; `OneOfEach` derives the hypothesis from them, since a resume
is given only for a session whose launch has its result (`Issue`), so the three
theorems with that hypothesis hold for the commands of the run and for any number of stops, failing requests,
crashes and kept results.

- `Types`: what a handler captured is there (its object, its adapter), a report names an
  adapter that was started, and what is posted is a result.
- `Base`: a command that is handled has no result yet (`Handled`), and waits for at most
  one report, where it awaits one (`Waiters`). A result that arrives therefore resumes
  the one handler that waits for it.
- `SessionInv`: a runtime that is alive is the one of the session's object, or its
  handler is about to stop it (`OwnRuntime`); one that is not up yet has a handler that
  starts it (`StartedByOne`); and a start that is under way finds its object still the
  session's, with nothing connected (`Start`). `OneAtATime` is used here: no second
  handler replaces the adapter in the meantime.
- `StatusInv`: while a launch waits for its runtime, the end of that runtime is held on
  the object (`HeldEnd`), so that `connect` takes it over; the status is not `stopped`
  before (`NotStopped`); and a stop that captured the object has its adapter
  (`StopsOwn`).
- `ModeInv`: a `connected` status that waits without a mode is preceded in its chain by
  the report that tells the mode of its runtime, unless the gateway has that mode or has
  refused it (`BareComes`, `UpTold`). A report that fails is sent again in its place.
- `RefusedInv`: from the moment a launch is answered with a refusal, in its handler, in
  the kept results and at the gateway, there is no record on disk, unless a launch has
  started its runtime. It uses `LaunchInv`.
- `ShownInv`: the last status sent of the session's object, which is the last one that
  waits in its chain or the one shown, is the object's status, unless a report was
  refused or dropped, or the session is being resumed anew (`AgreeInv`). A report that
  is retried keeps its place before the later ones, so the chain never changes its last
  status while it is sent. What can still go wrong is that two objects report at once:
  `StrayInv` says that while anything is left to report of an object that is not the
  session's, there is no session, every command that could start one is over
  (`NoStart`), and a command awaits its last report (`LastWaits`), so its result comes
  after the report. `Fresh` adds that a session that is resumed anew begins with an
  empty chain, and `Kinds` which commands wait at which point. The three hypotheses say
  at most one command of the kind is ever given, to be redelivered at will; TLC finds
  `ShownIsStatus` violated when any one of them is dropped, so none is there for the
  proof's sake.

### 9.4 Only model-checked

The liveness properties (`AckedEventuallySettled`, `CallsReturn`, `Drains`,
`SavedDelivered`, `Answered`) are outside the prover's reach. Every invariant, action
property and refinement that a passing run checks is a theorem; those of `Daemon` that
need few commands, or commands one at a time, say so in their hypotheses, and so does
`KeysCorrect` of the key store.

## 10. Findings

1. **A best-effort flush may return early** (`pipeline.rs:571`). The item is sent
   before `queue_depth` counts it, without the lock; the worker's decrement of
   another item then hides one that is still queued. Run `besteffort`.
2. **A drain that can settle nothing blocks every append** (`pipeline.rs:861`).
   When the ledger and the dead-letter store both refuse a spilled record, the
   drain rescans it for ever with the core mutex held. Run `fulldisk`.
3. **A half-written WAL frame hides the records behind it** (`wal.rs:412`). The
   failed append leaves its bytes, later acknowledged frames follow them, and the
   reader stops at the torn one. Run `wal_halfwritten`.
4. **A resumed session that ends at once is shown as running**
   (`daemon.ts:765`). `resume` of a session that is still managed keeps the status
   `stopped` of its earlier runtime; the end of the new one is skipped because of
   it, nothing is held, and `connect` reports `running`. Run `resumed`.

## 11. Not modelled

- In the ledger: `strict_cloud` (refused by `start`), the read-only operations
  (`status`, `blocks`, `scan_health`, `list`), `proof.rs` and the canonical form,
  which are pure functions over data of any size.
- In the connector: what section 8 leaves out, and the hooks, configuration, HTTP,
  redaction and git helpers, which are I/O and text.
- `agenomic-rmp` and `agenomic-atep`: sequential objects of one process. Each has one
  ordering hazard (`monitor.rs:212`, `store.rs:155`), listed in `PROJECT.json` with
  the reason why no property states it.
- `agenomic-track`, `-gate`, `-governance`, `-os`: computations over the events or the
  rules of one call, without interleaving.
- The rest (bundles, hashing, attestation, compilation, detection, prompts,
  validation, diff, replay, reports, the command line, the cloud client) runs once
  over its inputs. It is most of the repository's lines, and holds no behaviour over
  time to check.

Signatures and hashes are never computed here; a hash is a value.

## 12. Files

| File | Contents |
|---|---|
| `InOrderLedger.tla` | the abstract ledger |
| `LedgerPipeline.tla` | the pipeline, its properties, its refinement mapping |
| `LedgerPipelineInv.tla` | the inductive invariants |
| `LedgerPipelineProofs.tla` | the proofs |
| `MC_LedgerPipeline.tla`, `LedgerPipeline_*.cfg` | the instances and runs |
| `DurableLog.tla`, `Wal.tla`, `WalProofs.tla` | the abstract and the detailed log, and the proofs |
| `MC_Wal.tla`, `Wal_*.cfg` | its instances and runs |
| `LedgerStore.tla`, `LedgerStoreProofs.tla` | the ledger's files, and the proofs |
| `Subsequences.tla`, `SubsequencesProofs.tla` | part of a sequence, and a sequence in order, by counting positions, and lemmas |
| `MC_LedgerStore.tla`, `LedgerStore_files.cfg` | their run |
| `EventSink.tla`, `EventSinkProofs.tla` | the event sink, and the proofs |
| `MC_EventSink.tla`, `EventSink_spool.cfg` | its run |
| `ActionOutcomes.tla`, `ActionOutcomesProofs.tla` | the actions of a session, and the proofs |
| `MC_ActionOutcomes.tla`, `ActionOutcomes_stop.cfg` | its run |
| `Daemon.tla`, `DaemonProofs.tla`, `DaemonSession.tla` | the daemon's commands, the proof that the launches start one runtime, and the proofs about the session |
| `MC_Daemon.tla`, `Daemon_*.cfg` | their runs |

Definitions whose comment begins with "Mutant:" are wrong on purpose: each is a
plausible bug, and putting it in place of the definition that follows it makes the
property named in `PROJECT.json` fail.
