-------------------------------- MODULE Wal --------------------------------
(***************************************************************************)
(* The write-ahead log of crates/agenomic-ledger-local (wal.rs): framed    *)
(* records in size-bounded segments under a disk budget, a checkpoint, and *)
(* an open that truncates, quarantines and removes segments.               *)
(*                                                                         *)
(* Every write that a crash can split is a step of its own.  A segment is  *)
(* its header and its frames; a frame is whole (its CRC matches) or torn,  *)
(* and nothing behind a torn frame can be read.  The pipeline around the   *)
(* log is reduced to what drives it: calls of append, sealing in order,    *)
(* and checkpoints.                                                        *)
(***************************************************************************)
EXTENDS Naturals, Sequences, FiniteSets, SequencesExt, FiniteSetsExt, Subsequences

CONSTANTS
    HeaderLen,      \* HEADER_LEN
    FrameLens,      \* the lengths of a frame, its header included
    TornLen,        \* the bytes a write that was cut leaves
    SegmentMax,     \* wal_segment_max_bytes
    DiskMax,        \* queue_max_disk_bytes
    FaultSets,      \* the sets of I/O failures a disk may have
    MaxAppend,      \* bound: calls of append
    MaxFail,        \* bound: I/O failures
    MaxCrash        \* bound: crashes

\* A write that fails leaves nothing or a part; an fsync fails after a whole write.
FaultKinds == {"no_write", "part_header", "part_frame", "sync"}

ASSUME SizesAssumption ==
    /\ {HeaderLen, TornLen, SegmentMax} \subseteq Nat \ {0} /\ DiskMax \in Nat
    /\ FrameLens \subseteq Nat \ {0}
    /\ \A len \in FrameLens \cup {HeaderLen} : TornLen <= len
ASSUME FaultsAssumption ==
    /\ FaultSets \subseteq SUBSET FaultKinds
    /\ MaxAppend \in Nat \ {0} /\ {MaxFail, MaxCrash} \subseteq Nat

VARIABLES
    \* On disk: the live wal-<n>.wal files, the .corrupt files, checkpoint.json.
    files, corrupt, ckpt,
    \* The writer: its fields, and where append is.
    phase, current, currentLen, totalLen, nextSeq, pc, writing,
    \* WalWriter::open: the segments left, the last one listed, the report, and
    \* what the directory held when it began.
    left, lastIndex, report, found,
    \* The pipeline: records still to seal, the highest sealed, what is settled.
    line, applied, sealed, acked,
    \* Bounds and environment.
    calls, fails, crashes, faults

disk   == <<files, corrupt, ckpt>>
writer == <<current, currentLen, totalLen, nextSeq>>
scan   == <<left, lastIndex, report, found>>
owner  == <<line, applied, sealed, acked>>
env    == <<calls, fails, crashes, faults>>
vars == <<disk, phase, writer, pc, writing, scan, owner, env>>

-----------------------------------------------------------------------------
(* Segments *)

Drafts  == 1..MaxAppend
Records == [seq : Nat, draft : Drafts]
\* A frame, and where it begins in its file.
Frames  == [rec : Records, at : Nat, len : Nat, whole : BOOLEAN]
Heads   == {"none", "part", "ok", "bad"}

NoFile   == [head |-> "none", frames |-> <<>>]
NoReport == [pending |-> <<>>, last |-> 0]
NoWrite  == [draft |-> 1, len |-> 0]

HeadBytes(f) ==
    CASE f.head = "none" -> 0
      [] f.head = "part" -> TornLen
      [] f.head = "ok"   -> HeaderLen
      [] f.head = "bad"  -> TornLen + HeaderLen
Bytes(f) ==
    IF f.frames = <<>> THEN HeadBytes(f) ELSE Last(f.frames).at + Last(f.frames).len
\* The bytes of the segments, each with its place, and how many they are.
BytesOf(fs) == UNION {{i} \X (1..Bytes(fs[i])) : i \in DOMAIN fs}
DiskBytes == Cardinality(BytesOf(files))

\* The frames in front of the first torn one.
Good(f, n) ==
    /\ \A k \in 1..n : f.frames[k].whole
    /\ n < Len(f.frames) => ~f.frames[n + 1].whole
GoodLen(f) == CHOOSE n \in 0..Len(f.frames) : Good(f, n)
GoodFrames(f) == SubSeq(f.frames, 1, GoodLen(f))

\* read_segment: bad magic is an error, a file shorter than a header is torn.
Unreadable(f) == f.head = "bad"
Torn(f) == ~Unreadable(f) /\ (f.head # "ok" \/ GoodLen(f) < Len(f.frames))
RecordsOf(f) ==
    IF f.head = "ok" THEN [k \in 1..GoodLen(f) |-> f.frames[k].rec] ELSE <<>>

Above(recs, n) == Pick(recs, {k \in DOMAIN recs : recs[k].seq > n})
PendingIn(f) == Above(RecordsOf(f), ckpt)

\* What WalWriter::pending finds in these segments, when they can be read.
PendingOf(indexes) == UNION {ToSet(PendingIn(files[i])) : i \in indexes}

HighestSeq(recs, n) == Max({n} \cup {recs[k].seq : k \in 1..Len(recs)})

Without(i) == [j \in DOMAIN files \ {i} |-> files[j]]
WithFile(i, f) == [j \in DOMAIN files \cup {i} |-> IF j = i THEN f ELSE files[j]]
FileAt(i) == IF i \in DOMAIN files THEN files[i] ELSE NoFile

-----------------------------------------------------------------------------
Init ==
    /\ files = <<>> /\ corrupt = <<>> /\ ckpt = 0
    /\ phase = "down" /\ current = 1 /\ currentLen = 0 /\ totalLen = 0 /\ nextSeq = 1
    /\ pc = "idle" /\ writing = NoWrite
    /\ left = {} /\ lastIndex = 0 /\ report = NoReport /\ found = {}
    /\ line = <<>> /\ applied = 0 /\ sealed = {} /\ acked = {}
    /\ calls = 0 /\ fails = 0 /\ crashes = 0 /\ faults \in FaultSets

-----------------------------------------------------------------------------
(* WalWriter::open *)

OpenBegin ==
    /\ phase = "down"
    /\ phase' = "opening"
    /\ left' = DOMAIN files
    /\ lastIndex' = Max({0} \cup DOMAIN files)
    /\ report' = NoReport
    /\ found' = PendingOf(DOMAIN files)
    /\ UNCHANGED <<disk, writer, pc, writing, owner, env>>

\* The records of segment i enter the report, whatever becomes of its file.
Collect(i) ==
    /\ left' = left \ {i}
    /\ report' = [pending |-> report.pending \o PendingIn(files[i]),
                  last |-> HighestSeq(RecordsOf(files[i]), report.last)]
    /\ UNCHANGED <<ckpt, phase, writer, pc, writing, lastIndex, found, owner, env>>

\* Mutant: the file is cut behind its header.
OpenTruncateAll(i) ==
    /\ Torn(files[i]) /\ i = lastIndex
    /\ files' = [files EXCEPT ![i] = [head |-> "ok", frames |-> <<>>]]
    /\ Collect(i)
    /\ UNCHANGED corrupt

\* A torn tail of the last segment is a crash artifact: set_len to the good prefix.
OpenTruncate(i) ==
    /\ Torn(files[i]) /\ i = lastIndex
    /\ files' = [files EXCEPT ![i] =
                   IF @.head = "ok" THEN [head |-> "ok", frames |-> GoodFrames(@)]
                   ELSE NoFile]
    /\ Collect(i)
    /\ UNCHANGED corrupt

\* rename to .corrupt, which replaces a file of that name.
Quarantine(i) ==
    /\ files' = Without(i)
    /\ corrupt' = [j \in DOMAIN corrupt \cup {i} |->
                     IF j = i THEN files[i] ELSE corrupt[j]]

\* Mutant: the loop goes on to the next segment at once.
OpenQuarantineTornOnly(i) ==
    /\ Torn(files[i]) /\ i # lastIndex
    /\ Quarantine(i)
    /\ left' = left \ {i}
    /\ UNCHANGED <<ckpt, phase, writer, pc, writing, lastIndex, report, found, owner,
                   env>>

OpenQuarantineTorn(i) ==
    /\ Torn(files[i]) /\ i # lastIndex
    /\ Quarantine(i)
    /\ Collect(i)

OpenQuarantineUnreadable(i) ==
    /\ Unreadable(files[i])
    /\ Quarantine(i)
    /\ left' = left \ {i}
    /\ UNCHANGED <<ckpt, phase, writer, pc, writing, lastIndex, report, found, owner,
                   env>>

Intact(f) == ~Unreadable(f) /\ ~Torn(f)

OpenRemove(i) ==
    /\ Intact(files[i]) /\ PendingIn(files[i]) = <<>>
    /\ files' = Without(i)
    /\ Collect(i)
    /\ UNCHANGED corrupt

OpenKeep(i) ==
    /\ Intact(files[i]) /\ PendingIn(files[i]) # <<>>
    /\ Collect(i)
    /\ UNCHANGED <<files, corrupt>>

\* The next segment in the order of list_segments.
OpenSegment ==
    /\ phase = "opening"
    /\ \E i \in left :
          /\ \A j \in left : i <= j
          /\ \/ OpenTruncate(i)
             \/ OpenQuarantineTorn(i)
             \/ OpenQuarantineUnreadable(i)
             \/ OpenRemove(i)
             \/ OpenKeep(i)

\* The writer over segment i, numbering from n, with the report's records to seal.
Opened(i, n) ==
    /\ phase = "opening" /\ left = {}
    /\ phase' = "open"
    /\ current' = i
    /\ currentLen' = Bytes(FileAt(i))
    /\ totalLen' = DiskBytes
    /\ nextSeq' = n
    /\ line' = SortedBySeq(report.pending)
    /\ report' = NoReport /\ found' = {}
    /\ applied' = ckpt
    /\ UNCHANGED <<disk, pc, writing, left, lastIndex, sealed, acked, env>>

\* Mutant: numbering goes on from what the segments hold, not from the checkpoint.
OpenDoneFromReport == Opened(Max({lastIndex, 1}), report.last + 1)

OpenDone == Opened(Max({lastIndex, 1}), Max({report.last, ckpt}) + 1)

-----------------------------------------------------------------------------
(* WalWriter::append *)

\* Mutant: the budget is compared with the open segment alone.
FitsSegment(len) == currentLen + len <= DiskMax

Fits(len) == totalLen + len <= DiskMax

Called == phase = "open" /\ pc = "idle" /\ calls < MaxAppend /\ calls' = calls + 1

AppendBusy(len) ==
    /\ Called
    /\ ~Fits(len)
    /\ UNCHANGED <<disk, phase, writer, pc, writing, scan, owner, fails, crashes, faults>>

\* Rotates a full segment, then opens the file; an empty one needs a header.
AppendBegin(len) ==
    /\ Called
    /\ Fits(len)
    /\ LET full == currentLen >= SegmentMax
           i == IF full THEN current + 1 ELSE current
       IN  /\ current' = i
           /\ currentLen' = IF full THEN 0 ELSE currentLen
           /\ files' = WithFile(i, FileAt(i))
           /\ pc' = IF i \notin DOMAIN files \/ full \/ currentLen = 0
                    THEN "header" ELSE "frame"
    /\ writing' = [draft |-> calls + 1, len |-> len]
    /\ UNCHANGED <<corrupt, ckpt, phase, totalLen, nextSeq, scan, owner, fails, crashes,
                   faults>>

Garbage ==
    [rec |-> [seq |-> 0, draft |-> 1], at |-> HeaderLen, len |-> TornLen, whole |-> FALSE]

\* A header behind a part of a header: bad magic, or a good header and then garbage.
Headed(f) ==
    CASE f.head = "none" -> {[f EXCEPT !.head = "ok"]}
      [] f.head = "part" -> {[f EXCEPT !.head = "bad"],
                             [head |-> "ok", frames |-> <<Garbage>>]}
      [] OTHER -> {f}

\* A header that was cut: two parts may be long enough to be read as a header.
CutHeader(f) ==
    IF f.head = "none" THEN {[f EXCEPT !.head = "part"]} ELSE {f} \cup Headed(f)

WriteHeader ==
    /\ pc = "header"
    /\ \E f \in Headed(files[current]) : files' = [files EXCEPT ![current] = f]
    /\ currentLen' = HeaderLen
    /\ totalLen' = totalLen + HeaderLen
    /\ pc' = "frame"
    /\ UNCHANGED <<corrupt, ckpt, phase, current, nextSeq, writing, scan, owner, env>>

FrameOf(f, whole) ==
    [rec |-> [seq |-> nextSeq, draft |-> writing.draft], at |-> Bytes(f),
     len |-> IF whole THEN writing.len ELSE TornLen, whole |-> whole]
WithFrame(f, whole) == [f EXCEPT !.frames = Append(@, FrameOf(f, whole))]

WriteFrame ==
    /\ pc = "frame"
    /\ files' = [files EXCEPT ![current] = WithFrame(@, TRUE)]
    /\ pc' = "sync"
    /\ UNCHANGED <<corrupt, ckpt, phase, writer, writing, scan, owner, env>>

\* The frame is durable: count it and answer with its wal_seq.
SyncAs(next) ==
    /\ pc = "sync"
    /\ currentLen' = currentLen + writing.len
    /\ totalLen' = totalLen + writing.len
    /\ nextSeq' = next
    /\ pc' = "idle" /\ writing' = NoWrite
    /\ LET r == [seq |-> nextSeq, draft |-> writing.draft]
       IN  line' = Append(line, r) /\ acked' = acked \cup {r}
    /\ UNCHANGED <<disk, phase, current, scan, applied, sealed, env>>

\* Mutant: the sequence number is not moved on.
SyncSameSeq == SyncAs(nextSeq)

Sync == SyncAs(nextSeq + 1)

\* append returns the error: what it wrote stays, its fields are not updated.
Refused(f, kind) ==
    /\ kind \in faults /\ fails < MaxFail
    /\ fails' = fails + 1
    /\ files' = [files EXCEPT ![current] = f]
    /\ pc' = "idle" /\ writing' = NoWrite
    /\ UNCHANGED <<corrupt, ckpt, phase, writer, scan, owner, calls, crashes, faults>>

HeaderFails ==
    /\ pc = "header"
    /\ \/ Refused(files[current], "no_write")
       \/ \E f \in CutHeader(files[current]) : Refused(f, "part_header")

FrameFails ==
    /\ pc = "frame"
    /\ \/ Refused(files[current], "no_write")
       \/ Refused(WithFrame(files[current], FALSE), "part_frame")

SyncFails ==
    /\ pc = "sync"
    /\ Refused(files[current], "sync")

-----------------------------------------------------------------------------
(* The pipeline that owns the log: it seals in order and checkpoints *)

Seal ==
    /\ phase = "open" /\ pc = "idle" /\ line # <<>>
    /\ sealed' = sealed \cup {Head(line).draft}
    /\ applied' = Max({applied, Head(line).seq})
    /\ line' = Tail(line)
    /\ UNCHANGED <<disk, phase, writer, pc, writing, scan, acked, env>>

\* write_atomic replaces checkpoint.json; a failed write is made up for by a later one.
Checkpoint ==
    /\ phase = "open" /\ pc = "idle" /\ applied > ckpt
    /\ ckpt' = applied
    /\ UNCHANGED <<files, corrupt, phase, writer, pc, writing, scan, owner, env>>

\* What a crash leaves of the write in progress, which was not synced.
Remains ==
    CASE pc = "header" -> {files[current]} \cup CutHeader(files[current])
      [] pc = "frame"  -> {files[current], WithFrame(files[current], FALSE)}
      [] pc = "sync"   -> LET before == [files[current] EXCEPT !.frames = Front(@)]
                          IN  {files[current], before, WithFrame(before, FALSE)}

Crash ==
    /\ phase # "down" /\ crashes < MaxCrash
    /\ crashes' = crashes + 1
    /\ IF pc = "idle" THEN UNCHANGED files
       ELSE \E f \in Remains : files' = [files EXCEPT ![current] = f]
    /\ phase' = "down" /\ current' = 1 /\ currentLen' = 0 /\ totalLen' = 0 /\ nextSeq' = 1
    /\ pc' = "idle" /\ writing' = NoWrite
    /\ left' = {} /\ lastIndex' = 0 /\ report' = NoReport /\ found' = {}
    /\ line' = <<>> /\ applied' = 0
    /\ UNCHANGED <<corrupt, ckpt, sealed, acked, calls, fails, faults>>

-----------------------------------------------------------------------------
Next ==
    \/ OpenBegin \/ OpenSegment \/ OpenDone
    \/ \E len \in FrameLens : AppendBusy(len) \/ AppendBegin(len)
    \/ WriteHeader \/ WriteFrame \/ Sync
    \/ HeaderFails \/ FrameFails \/ SyncFails
    \/ Seal \/ Checkpoint
    \/ Crash

Spec == Init /\ [][Next]_vars

-----------------------------------------------------------------------------
(* Properties *)

Files == [head : Heads, frames : Seq(Frames)]
Indexes == Nat \ {0}

\* A disk whose failing writes leave nothing behind.
Clean == faults \subseteq {"no_write"}

(* The types, and the budget of the disk: the segments never outgrow               *)
(* queue_max_disk_bytes by more than one header, which the check of append does    *)
(* not count, and total_len is what is on the disk.                                *)
TypeOK ==
    /\ sealed \subseteq Drafts /\ acked \subseteq Records /\ faults \in FaultSets
    /\ Clean => /\ DiskBytes <= DiskMax + HeaderLen
                /\ (phase = "open" /\ pc = "idle") => totalLen = DiskBytes
    /\ \A d \in {files, corrupt} :
          DOMAIN d \subseteq Indexes /\ \A i \in DOMAIN d : d[i] \in Files
    /\ phase \in {"down", "opening", "open"} /\ pc \in {"idle", "header", "frame", "sync"}
    /\ {ckpt, currentLen, totalLen, lastIndex, applied, calls, fails, crashes} \subseteq Nat
    /\ {current, nextSeq} \subseteq Indexes
    /\ writing \in [draft : Drafts, len : FrameLens \cup {0}]
    /\ left \subseteq Indexes /\ report \in [pending : Seq(Records), last : Nat]
    /\ found \subseteq Records /\ line \in Seq(Records)

(* "Durable: the event is safe in the WAL either way" (pipeline.rs): a record that *)
(* append acknowledged is settled, or the next open finds it above the checkpoint. *)
AckedOnDisk ==
    \A r \in acked :
        \/ r.draft \in sealed
        \/ r \in PendingOf(DOMAIN files)

(* On a clean disk no crash, inside append or inside open, and no rotation loses an *)
(* acknowledged record.                                                            *)
AckedRecoverable == Clean => AckedOnDisk

(* "the sequence must not restart below the checkpoint, or recovery would skip     *)
(* fresh records as already-applied" (wal.rs): whatever failed before, the next    *)
(* record gets a number above the checkpoint.                                      *)
FreshAboveCheckpoint == phase = "open" => nextSeq > Max({ckpt, applied})

(* Truncating, quarantining and removing segments loses no readable record: what   *)
(* the report holds and what is still to be read is what the directory held, also  *)
(* when a crash interrupted an earlier open; and the report holds it in the order  *)
(* it was appended, once, so that sorting by wal_seq changes nothing.              *)
RecoveryComplete ==
    phase = "opening" =>
        /\ found = ToSet(report.pending) \cup PendingOf(left)
        /\ \A k, l \in 1..Len(report.pending) : k < l =>
              /\ report.pending[k].seq <= report.pending[l].seq
              /\ report.pending[k].draft < report.pending[l].draft

(* On a clean disk the segments implement the log the pipeline is written against: *)
(* consecutive numbers, appended at the end, removed only by a checkpoint.  A      *)
(* frame counts once it is synced, or once a crash has left it whole.              *)
Durable ==
    LET f == files[current]
    IN  IF pc = "sync" THEN [files EXCEPT ![current].frames = Front(f.frames)] ELSE files
OnDisk == UNION {ToSet(PendingIn(Durable[i])) : i \in DOMAIN files}
HighestUsed ==
    Max({ckpt} \cup {r.seq : r \in UNION {ToSet(RecordsOf(Durable[i])) : i \in DOMAIN files}})
Log == INSTANCE DurableLog WITH pending <- OnDisk, last <- HighestUsed
ImplementsDurableLog ==
    /\ Clean => Log!Init
    /\ [][Clean => [Log!Next]_(Log!vars)]_vars

=============================================================================
