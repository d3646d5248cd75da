------------------------------ MODULE WalProofs ------------------------------
(***************************************************************************)
(* Proofs about Wal.  Four invariants hold whatever fails: the types, the  *)
(* numbers of the writer, the order of the frames on the disk, and what an *)
(* open has read.  CleanInv adds what holds of a disk whose failing writes *)
(* leave nothing behind: where frames stand, what the segments weigh, and  *)
(* that no acknowledged record is lost.                                    *)
(***************************************************************************)
EXTENDS Wal, SubsequencesProofs

-----------------------------------------------------------------------------
(* The invariant *)

(* A frame that is whole, and one that is read: no frame in front of it is torn. *)
Whole(f, k) == k \in 1..Len(f.frames) /\ f.frames[k].whole
Readable(f, k) ==
  f.head = "ok" /\ k \in 1..Len(f.frames) /\ \A j \in 1..k : f.frames[j].whole

(* A file that open has passed, or that append alone has written. *)
Sound(f) == f.head \in {"none", "ok"} /\ \A k \in 1..Len(f.frames) : f.frames[k].whole

(* The frames stand behind the header and behind each other. *)
Placed(f) ==
  \A k \in 1..Len(f.frames) :
     /\ HeadBytes(f) <= f.frames[k].at
     /\ \A l \in 1..Len(f.frames) : k < l => f.frames[k].at + f.frames[k].len <= f.frames[l].at

(* What is whole in one file was whole in another, and both hold the same      *)
(* readable records.                                                            *)
Keeps(f, g) ==
  \A k \in Nat : Whole(g, k) => Whole(f, k) /\ g.frames[k].rec = f.frames[k].rec
SameRead(f, g) ==
  \A k \in Nat : /\ Readable(f, k) => Readable(g, k) /\ g.frames[k].rec = f.frames[k].rec
                 /\ Readable(g, k) => Readable(f, k)

FilesOk ==
  /\ IsFiniteSet(DOMAIN files) /\ DOMAIN files \subseteq Indexes
  /\ \A i \in DOMAIN files : files[i] \in Files
CorruptOk ==
  DOMAIN corrupt \subseteq Indexes /\ \A i \in DOMAIN corrupt : corrupt[i] \in Files
WriterOk ==
  /\ phase \in {"down", "opening", "open"} /\ pc \in {"idle", "header", "frame", "sync"}
  /\ currentLen \in Nat /\ totalLen \in Nat /\ current \in Indexes /\ nextSeq \in Indexes
  /\ writing \in [draft : Drafts, len : FrameLens \cup {0}]
  /\ calls \in 0..MaxAppend /\ fails \in Nat /\ crashes \in Nat
  /\ pc # "idle" => /\ phase = "open" /\ current \in DOMAIN files
                    /\ writing.draft = calls /\ writing.len \in FrameLens
ScanOk ==
  /\ left \subseteq DOMAIN files /\ (phase # "opening" => left = {})
  /\ lastIndex \in Nat /\ report \in [pending : Seq(Records), last : Nat]
  /\ found \subseteq Records
OwnerOk ==
  /\ line \in Seq(Records) /\ ckpt \in Nat /\ applied \in Nat
  /\ sealed \subseteq Drafts /\ acked \subseteq Records /\ faults \in FaultSets

(* The types, and what ties the fields of the writer to each other.             *)
Types == FilesOk /\ CorruptOk /\ WriterOk /\ ScanOk /\ OwnerOk

(* What the number of a record says: it was appended before another one. *)
Before(q, r, strict) == q.draft < r.draft /\ q.seq <= r.seq /\ (strict => q.seq < r.seq)

Numbers ==
  /\ phase = "open" =>
       /\ ckpt < nextSeq /\ ckpt <= applied /\ applied < nextSeq
       /\ \A n \in 1..Len(line) : line[n].seq < nextSeq
  /\ phase = "opening" =>
       \A n \in 1..Len(report.pending) :
          ckpt < report.pending[n].seq /\ report.pending[n].seq <= report.last

(* The frames of all segments, in the order of the segments.                    *)
InLine ==
  \A i, j \in DOMAIN files : \A k, l \in Nat :
     Whole(files[i], k) /\ Whole(files[j], l) /\ (i < j \/ (i = j /\ k < l)) =>
        Before(files[i].frames[k].rec, files[j].frames[l].rec, Clean)

(* What the writer knows of a record that is on the disk.                       *)
Known(r) ==
  /\ r.draft <= calls /\ (pc \in {"header", "frame"} => r.draft < calls)
  /\ phase = "open" => r.seq <= nextSeq /\ (Clean /\ pc # "sync" => r.seq < nextSeq)

Ordered ==
  /\ \A i \in DOMAIN files : phase = "open" => i <= current
  /\ \A i \in DOMAIN files : \A k \in Nat :
        Whole(files[i], k) => Known(files[i].frames[k].rec)
  /\ InLine

(* What open has reported, and what is left to be read. *)
Scanned ==
  /\ \A i \in DOMAIN files : phase = "opening" => i <= lastIndex
  /\ left # {} => lastIndex \in left
  /\ \A i \in DOMAIN files \ left : phase = "opening" =>
        /\ \A j \in left : i < j
        /\ Sound(files[i])
        /\ \A k \in 1..Len(files[i].frames) : files[i].frames[k].rec.seq <= report.last
        /\ ToSet(PendingIn(files[i])) \subseteq ToSet(report.pending)
  /\ phase = "opening" =>
        /\ found = ToSet(report.pending) \cup PendingOf(left)
        /\ \A m, n \in 1..Len(report.pending) : m < n =>
              Before(report.pending[m], report.pending[n], Clean)
        /\ \A n \in 1..Len(report.pending) : \A i \in left : \A k \in Nat :
              Whole(files[i], k) => Before(report.pending[n], files[i].frames[k].rec, Clean)

(* On a clean disk a header is whole or missing, a torn frame is the last write of  *)
(* a crash, and a log that is open has none.                                         *)
CleanFile(f) == f.head # "bad" /\ Placed(f) /\ (f.head # "ok" => f.frames = <<>>)
TornLast ==
  \A i \in DOMAIN files : \A k \in 1..Len(files[i].frames) :
     ~files[i].frames[k].whole => \A j \in DOMAIN files : j <= i
CleanDisk ==
  /\ \A i \in DOMAIN files : CleanFile(files[i])
  /\ TornLast
  /\ \A i \in DOMAIN files : phase = "open" => Sound(files[i])

(* The writer knows the segment it writes to.                                        *)
LastFrame(f) == f.frames[Len(f.frames)]
CleanWriter ==
  /\ pc = "header" => files[current].head = "none"
  /\ pc \in {"frame", "sync"} => files[current].head = "ok"
  /\ pc = "sync" =>
       /\ files[current].frames # <<>>
       /\ LastFrame(files[current]).rec = [seq |-> nextSeq, draft |-> writing.draft]
       /\ LastFrame(files[current]).len = writing.len
       /\ LastFrame(files[current]).at = currentLen
  /\ phase = "open" /\ pc # "sync" => currentLen = Bytes(FileAt(current))

(* total_len is what is on the disk, and a write that has begun fits the budget.      *)
CleanBudget ==
  /\ DiskBytes <= DiskMax + HeaderLen
  /\ phase = "open" /\ pc # "sync" => totalLen = DiskBytes
  /\ pc = "header" => totalLen + writing.len <= DiskMax
  /\ pc = "frame" => totalLen + writing.len <= DiskMax + HeaderLen
  /\ pc = "sync" => totalLen + writing.len = DiskBytes

(* What is still to seal lies above what has been applied.                            *)
CleanLine ==
  phase = "open" =>
    /\ \A n \in 1..Len(line) : applied < line[n].seq
    /\ \A m, n \in 1..Len(line) : m < n => line[m].seq < line[n].seq

(* The highest number in use is the checkpoint or that of a record on the disk.       *)
InUse(I, n) ==
  n <= ckpt \/ \E i \in I : \E k \in Nat : Readable(files[i], k) /\ n = files[i].frames[k].rec.seq
CleanNumber ==
  /\ phase = "open" => InUse(DOMAIN files, nextSeq - 1)
  /\ phase = "opening" => InUse(DOMAIN files \ left, report.last)

(* An acknowledged record is settled, or it is on the disk above the checkpoint and,  *)
(* in a log that is open, still to seal.                                              *)
Held(r) == \E i \in DOMAIN files : \E k \in Nat : Readable(files[i], k) /\ files[i].frames[k].rec = r
CleanAcked ==
  \A r \in acked :
     /\ r.draft <= calls /\ (pc # "idle" => r.draft < calls)
     /\ \/ r.draft \in sealed
        \/ Held(r) /\ r.seq > ckpt /\ (phase = "open" => r \in ToSet(line))

CleanInv ==
  Clean => CleanDisk /\ CleanWriter /\ CleanBudget /\ CleanLine /\ CleanNumber /\ CleanAcked


-----------------------------------------------------------------------------
(* Lemmas about numbers and sets *)

(* A set of numbers has a least one.                                         *)
LEMMA LeastNumber ==
  ASSUME NEW T, T \subseteq Nat, T # {}
  PROVE  \E x \in T : \A y \in T : x <= y
<1>1. \E x \in T : \A y \in T : ~(<<y, x>> \in OpToRel(<, Nat))
  BY NatLessThanWellFounded, WFMin, Zenon
<1>2. \E x \in T : \A y \in T : ~(y < x)
  BY <1>1, Zenon DEF OpToRel
<1> QED
  BY <1>2

(* A bounded set of numbers has a greatest one, and Max is it.               *)
LEMMA MaxBounded ==
  ASSUME NEW S, S \subseteq Nat, S # {}, NEW b \in Nat, \A x \in S : x <= b
  PROVE  Max(S) \in S /\ \A x \in S : x <= Max(S)
<1> DEFINE T == {n \in Nat : \A x \in S : x <= n}
<1>1. T # {} /\ T \subseteq Nat
  OBVIOUS
<1>2. PICK m \in T : \A n \in T : m <= n
  BY <1>1, LeastNumber
<1>3. m \in S
  <2>1. SUFFICES ASSUME m \notin S PROVE FALSE
    OBVIOUS
  <2>2. \A x \in S : x < m
    BY <1>2, <2>1
  <2>3. PICK y \in S : TRUE
    OBVIOUS
  <2>4. m - 1 \in Nat /\ \A x \in S : x <= m - 1
    BY <1>2, <2>2, <2>3
  <2> QED
    BY <1>2, <2>4
<1>4. \E x \in S : \A y \in S : x >= y
  BY <1>2, <1>3
<1>5. Max(S) \in S /\ \A y \in S : Max(S) >= y
  BY <1>4 DEF Max
<1> QED
  BY <1>5

(* A finite set of numbers is bounded: take an unbounded one with the fewest  *)
(* elements, and leave one of them out.                                       *)
LEMMA FiniteBounded ==
  ASSUME NEW S, S \subseteq Nat, IsFiniteSet(S)
  PROVE  \E b \in Nat : \A x \in S : x <= b
<1> DEFINE Free(T) == \A b \in Nat : \E x \in T : ~(x <= b)
<1> DEFINE C == {n \in Nat : \E T \in SUBSET Nat :
                    IsFiniteSet(T) /\ Cardinality(T) = n /\ Free(T)}
<1>1. SUFFICES ASSUME Free(S) PROVE FALSE
  OBVIOUS
<1>2. Cardinality(S) \in C
  BY <1>1, FS_CardinalityType
<1>3. C \subseteq Nat /\ C # {}
  BY <1>2
<1> HIDE DEF C
<1>4. PICK n \in C : \A m \in C : n <= m
  BY <1>3, LeastNumber
<1> USE DEF C
<1>5. PICK T \in SUBSET Nat : IsFiniteSet(T) /\ Cardinality(T) = n /\ Free(T)
  BY <1>4
<1>6. PICK x \in T : TRUE
  BY <1>5
<1>7. IsFiniteSet(T \ {x}) /\ Cardinality(T \ {x}) = n - 1
  BY <1>5, <1>6, FS_RemoveElement
<1>8. n - 1 \in Nat /\ ~(n <= n - 1) /\ T \ {x} \in SUBSET Nat
  BY <1>5, <1>7, FS_CardinalityType
<1>11. ~Free(T \ {x})
  <2>1. n - 1 \notin C
    BY <1>4, <1>8
  <2> HIDE DEF Free
  <2> QED
    BY <2>1, <1>7, <1>8
<1>9. PICK b \in Nat : \A y \in T \ {x} : y <= b
  BY <1>11
<1>10. \A y \in T : y <= b + x
  BY <1>6, <1>9
<1> QED
  BY <1>5, <1>6, <1>10

(* So a finite set of numbers has its Max.                                    *)
LEMMA MaxFinite ==
  ASSUME NEW S, S \subseteq Nat, S # {}, IsFiniteSet(S)
  PROVE  Max(S) \in S /\ \A x \in S : x <= Max(S)
<1>1. PICK b \in Nat : \A x \in S : x <= b
  BY FiniteBounded
<1> QED
  BY <1>1, MaxBounded

LEMMA MaxOfTwo ==
  ASSUME NEW a \in Nat, NEW b \in Nat
  PROVE  Max({a, b}) = IF a >= b THEN a ELSE b
<1>1. Max({a, b}) \in {a, b} /\ \A x \in {a, b} : x <= Max({a, b})
  BY MaxBounded, \A x \in {a, b} : x <= a + b
<1> QED
  BY <1>1

(* The elements of a sequence are finitely many.                              *)
LEMMA RangeFinite ==
  ASSUME NEW S, NEW s \in Seq(S)
  PROVE  IsFiniteSet(ToSet(s)) /\ ToSet(s) \subseteq S
<1> DEFINE D == 1..Len(s)
<1>1. IsFiniteSet(D)
  BY FS_Interval
<1>2. s \in Surjection(D, ToSet(s))
  BY DEF Surjection, ToSet
<1> QED
  BY <1>1, <1>2, FS_Surjection DEF ToSet

LEMMA ImageFinite ==
  ASSUME NEW D, IsFiniteSet(D), NEW f, f = [x \in D |-> f[x]]
  PROVE  IsFiniteSet({f[x] : x \in D})
<1>1. f \in Surjection(D, {f[x] : x \in D})
  BY DEF Surjection
<1> QED
  BY <1>1, FS_Surjection

-----------------------------------------------------------------------------
(* Lemmas about a segment *)

LEMMA FrameType ==
  ASSUME NEW f \in Files, NEW k \in 1..Len(f.frames)
  PROVE  /\ f.frames[k] \in Frames /\ f.frames[k].rec \in Records
         /\ f.frames[k].rec.seq \in Nat /\ f.frames[k].rec.draft \in Drafts
         /\ f.frames[k].at \in Nat /\ f.frames[k].len \in Nat /\ f.frames[k].whole \in BOOLEAN
<1>1. f.frames[k] \in Frames
  BY DEF Files
<1>2. f.frames[k].rec \in Records
  BY <1>1 DEF Frames
<1> QED
  BY <1>1, <1>2 DEF Frames, Records

(* The frames in front of the first torn one have a number.                   *)
LEMMA GoodLenIs ==
  ASSUME NEW f \in Files
  PROVE  GoodLen(f) \in 0..Len(f.frames) /\ Good(f, GoodLen(f))
<1>1. f.frames \in Seq(Frames) /\ Len(f.frames) \in Nat
  BY DEF Files
<1> DEFINE B == {k \in 1..Len(f.frames) : ~f.frames[k].whole}
<1>2. CASE B = {}
  <2>1. Good(f, Len(f.frames)) /\ Len(f.frames) \in 0..Len(f.frames)
    BY <1>1, <1>2 DEF Good
  <2> QED
    BY <2>1 DEF GoodLen
<1>3. CASE B # {}
  <2>0. B \subseteq Nat
    OBVIOUS
  <2>1. PICK b \in B : \A k \in B : b <= k
    BY <1>3, <2>0, LeastNumber
  <2>2. b - 1 \in 0..Len(f.frames) /\ (b - 1) + 1 = b
    BY <1>1
  <2>3. \A k \in 1..(b - 1) : f.frames[k].whole
    BY <1>1, <2>1
  <2>4. Good(f, b - 1)
    BY <2>2, <2>3 DEF Good
  <2> QED
    BY <2>2, <2>4 DEF GoodLen
<1> QED
  BY <1>2, <1>3

(* A frame is among them when no frame up to it is torn.                      *)
LEMMA GoodFrame ==
  ASSUME NEW f \in Files, NEW k \in 1..Len(f.frames)
  PROVE  k <= GoodLen(f) <=> \A j \in 1..k : f.frames[j].whole
<1>1. Len(f.frames) \in Nat
  BY DEF Files
<1>2. GoodLen(f) \in 0..Len(f.frames) /\ \A j \in 1..GoodLen(f) : f.frames[j].whole
  BY GoodLenIs DEF Good
<1>3. GoodLen(f) < Len(f.frames) => ~f.frames[GoodLen(f) + 1].whole
  BY GoodLenIs DEF Good
<1>4. ASSUME k <= GoodLen(f) PROVE \A j \in 1..k : f.frames[j].whole
  BY <1>1, <1>2, <1>4
<1>5. ASSUME ~(k <= GoodLen(f)) PROVE ~f.frames[GoodLen(f) + 1].whole /\ GoodLen(f) + 1 \in 1..k
  BY <1>1, <1>2, <1>3, <1>5
<1> QED
  BY <1>4, <1>5

(* A segment is torn when its header or one of its frames is.                 *)
LEMMA TornIs ==
  ASSUME NEW f \in Files
  PROVE  Torn(f) <=> /\ f.head # "bad"
                     /\ f.head # "ok" \/ \E k \in 1..Len(f.frames) : ~f.frames[k].whole
<1>1. Len(f.frames) \in Nat /\ GoodLen(f) \in 0..Len(f.frames)
  BY GoodLenIs DEF Files
<1>2. GoodLen(f) < Len(f.frames) <=> \E k \in 1..Len(f.frames) : ~(k <= GoodLen(f))
  BY <1>1
<1>3. ASSUME NEW k \in 1..Len(f.frames), ~f.frames[k].whole PROVE ~(k <= GoodLen(f))
  BY <1>1, <1>3, GoodFrame
<1>4. ASSUME NEW k \in 1..Len(f.frames), ~(k <= GoodLen(f))
      PROVE  \E j \in 1..Len(f.frames) : ~f.frames[j].whole
  BY <1>1, <1>4, GoodFrame
<1> QED
  BY <1>2, <1>3, <1>4 DEF Torn, Unreadable

(* What set_len leaves of a torn segment is its good frames.                  *)
LEMMA GoodFramesAre ==
  ASSUME NEW f \in Files
  PROVE  /\ GoodFrames(f) \in Seq(Frames) /\ Len(GoodFrames(f)) = GoodLen(f)
         /\ \A k \in 1..GoodLen(f) :
               k \in 1..Len(f.frames) /\ GoodFrames(f)[k] = f.frames[k] /\ f.frames[k].whole
<1>1. f.frames \in Seq(Frames) /\ Len(f.frames) \in Nat /\ GoodLen(f) \in 0..Len(f.frames)
  BY GoodLenIs DEF Files
<1>2. \A k \in 1..GoodLen(f) : k \in 1..Len(f.frames) /\ f.frames[k].whole
  BY <1>1, GoodLenIs DEF Good
<1> QED
  BY <1>1, <1>2 DEF GoodFrames

(* The records of a segment are those of its readable frames.                 *)
LEMMA RecordsAre ==
  ASSUME NEW f \in Files
  PROVE  /\ RecordsOf(f) \in Seq(Records)
         /\ \A k \in 1..Len(RecordsOf(f)) :
               Readable(f, k) /\ RecordsOf(f)[k] = f.frames[k].rec
         /\ \A k \in 1..Len(f.frames) : Readable(f, k) => k \in 1..Len(RecordsOf(f))
<1>1. f.frames \in Seq(Frames) /\ Len(f.frames) \in Nat /\ GoodLen(f) \in 0..Len(f.frames)
  BY GoodLenIs DEF Files
<1>2. \A k \in 1..Len(f.frames) : f.frames[k].rec \in Records
  BY FrameType
<1>3. CASE f.head = "ok"
  <2>1. RecordsOf(f) = [k \in 1..GoodLen(f) |-> f.frames[k].rec]
    BY <1>3 DEF RecordsOf
  <2>2. RecordsOf(f) \in Seq(Records) /\ Len(RecordsOf(f)) = GoodLen(f)
    BY <1>1, <1>2, <2>1
  <2>3. \A k \in 1..Len(f.frames) : Readable(f, k) <=> k \in 1..GoodLen(f)
    BY <1>1, <1>3, GoodFrame DEF Readable
  <2> QED
    BY <1>1, <2>1, <2>2, <2>3
<1>4. CASE f.head # "ok"
  <2>1. RecordsOf(f) = <<>> /\ \A k : ~Readable(f, k)
    BY <1>4 DEF RecordsOf, Readable
  <2> QED
    BY <2>1
<1> QED
  BY <1>3, <1>4

(* The records of a segment above a number, and their order.                   *)
LEMMA AboveAre ==
  ASSUME NEW f \in Files, NEW n \in Nat
  PROVE  /\ Above(RecordsOf(f), n) \in Seq(Records)
         /\ \A r : r \in ToSet(Above(RecordsOf(f), n)) <=>
               \E k \in 1..Len(f.frames) :
                  Readable(f, k) /\ f.frames[k].rec = r /\ r.seq > n
         /\ \A p, q \in 1..Len(Above(RecordsOf(f), n)) : p < q =>
               \E k, l \in 1..Len(f.frames) :
                  /\ Readable(f, k) /\ Readable(f, l) /\ k < l
                  /\ Above(RecordsOf(f), n)[p] = f.frames[k].rec
                  /\ Above(RecordsOf(f), n)[q] = f.frames[l].rec
<1> DEFINE recs == RecordsOf(f)
           idx == {k \in DOMAIN recs : recs[k].seq > n}
           part == Above(recs, n)
<1>1. recs \in Seq(Records) /\ DOMAIN recs = 1..Len(recs) /\ Len(recs) \in Nat
  BY RecordsAre
<1>2. \A k \in 1..Len(recs) : k \in 1..Len(f.frames) /\ Readable(f, k) /\ recs[k] = f.frames[k].rec
  BY RecordsAre DEF Readable
<1>3. \A k \in 1..Len(f.frames) : Readable(f, k) => k \in 1..Len(recs)
  BY RecordsAre
<1> HIDE DEF recs
<1>4. idx \in SUBSET DOMAIN recs /\ idx \in SUBSET Nat /\ part = Pick(recs, idx)
  BY <1>1 DEF Above
<1>0. \A k : k \in idx <=> k \in 1..Len(recs) /\ recs[k].seq > n
  BY <1>1
<1> HIDE DEF idx, part
<1>5. IsFiniteSet(idx) /\ Cardinality(idx) \in Nat /\ part \in Seq(Records)
      /\ Len(part) = Cardinality(idx)
  BY <1>1, <1>4, PickLen
<1>6. \A p \in 1..Len(part) : \E k \in idx : Rank(k, idx) = p /\ part[p] = recs[k]
  BY <1>4, <1>5, PickFrom
<1>7. \A k \in idx : Rank(k, idx) \in 1..Len(part) /\ part[Rank(k, idx)] = recs[k]
  BY <1>4, <1>5, PickHolds
<1>8. \A r : r \in ToSet(part) <=> \E k \in idx : recs[k] = r
  <2>1. DOMAIN part = 1..Len(part)
    BY <1>5
  <2> QED
    BY <2>1, <1>6, <1>7 DEF ToSet
<1>9. ASSUME NEW p \in 1..Len(part), NEW q \in 1..Len(part), p < q
      PROVE  \E k, l \in idx : k < l /\ part[p] = recs[k] /\ part[q] = recs[l]
  <2>1. PICK k \in idx : Rank(k, idx) = p /\ part[p] = recs[k]
    BY <1>6
  <2>2. PICK l \in idx : Rank(l, idx) = q /\ part[q] = recs[l]
    BY <1>6
  <2>3. k \in Nat /\ l \in Nat /\ p \in Nat /\ q \in Nat
    BY <1>4, <1>5
  <2>4. ~(l < k) /\ l # k
    BY <1>4, <1>5, <1>9, <2>1, <2>2, <2>3, RankGrows
  <2> QED
    BY <2>1, <2>2, <2>3, <2>4
<1>10. \A r : r \in ToSet(part) <=>
          \E k \in 1..Len(f.frames) : Readable(f, k) /\ f.frames[k].rec = r /\ r.seq > n
  BY <1>0, <1>1, <1>2, <1>3, <1>8
<1>11. \A p, q \in 1..Len(part) : p < q =>
          \E k, l \in 1..Len(f.frames) :
             /\ Readable(f, k) /\ Readable(f, l) /\ k < l
             /\ part[p] = f.frames[k].rec /\ part[q] = f.frames[l].rec
  <2>1. SUFFICES ASSUME NEW p \in 1..Len(part), NEW q \in 1..Len(part), p < q
                 PROVE  \E k, l \in 1..Len(f.frames) :
                           /\ Readable(f, k) /\ Readable(f, l) /\ k < l
                           /\ part[p] = f.frames[k].rec /\ part[q] = f.frames[l].rec
    OBVIOUS
  <2>2. PICK k, l \in idx : k < l /\ part[p] = recs[k] /\ part[q] = recs[l]
    BY <1>9, <2>1
  <2>3. k \in 1..Len(f.frames) /\ Readable(f, k) /\ part[p] = f.frames[k].rec
    BY <1>0, <1>2, <2>2
  <2>4. l \in 1..Len(f.frames) /\ Readable(f, l) /\ part[q] = f.frames[l].rec
    BY <1>0, <1>2, <2>2
  <2> QED
    BY <2>2, <2>3, <2>4
<1> QED
  BY <1>5, <1>10, <1>11 DEF recs, part

LEMMA RecordType ==
  ASSUME NEW recs \in Seq(Records), NEW k \in 1..Len(recs)
  PROVE  /\ recs[k] \in Records /\ recs[k].seq \in Nat /\ recs[k].draft \in Drafts
         /\ recs[k] = [seq |-> recs[k].seq, draft |-> recs[k].draft]
<1>1. recs[k] \in Records
  OBVIOUS
<1> QED
  BY <1>1 DEF Records

(* The number the report has come to after a segment.                          *)
LEMMA HighestSeqIs ==
  ASSUME NEW recs \in Seq(Records), NEW n \in Nat
  PROVE  LET h == HighestSeq(recs, n)
         IN  /\ h \in Nat /\ n <= h
             /\ \A k \in 1..Len(recs) : recs[k].seq <= h
             /\ h = n \/ \E k \in 1..Len(recs) : h = recs[k].seq
<1> DEFINE S == {recs[k].seq : k \in 1..Len(recs)}
           s == [k \in 1..Len(recs) |-> recs[k].seq]
<1>0. \A k \in 1..Len(recs) : recs[k].seq \in Nat
  BY RecordType
<1>1. Len(recs) \in Nat /\ \A k \in 1..Len(recs) : recs[k].seq \in Nat
  BY <1>0
<1>2. s \in Seq(Nat) /\ ToSet(s) = S
  BY <1>1 DEF ToSet
<1>3. IsFiniteSet(S) /\ S \subseteq Nat
  BY <1>2, RangeFinite
<1> HIDE DEF S
<1>4. IsFiniteSet({n} \cup S) /\ {n} \cup S \subseteq Nat /\ {n} \cup S # {}
  BY <1>3, FS_Singleton, FS_Union
<1>5. Max({n} \cup S) \in {n} \cup S /\ \A x \in {n} \cup S : x <= Max({n} \cup S)
  BY <1>4, MaxFinite
<1> QED
  BY <1>4, <1>5 DEF S, HighestSeq

(* A sequence whose numbers do not fall is in order as it stands.              *)
LEMMA InOrderIs ==
  ASSUME NEW s \in Seq(Records), \A k, l \in 1..Len(s) : k < l => s[k].seq <= s[l].seq
  PROVE  SortedBySeq(s) = s
<1>0. \A k \in 1..Len(s) : s[k].seq \in Nat
  BY RecordType
<1>1. DOMAIN s = 1..Len(s) /\ Len(s) \in Nat /\ \A k \in 1..Len(s) : s[k].seq \in Nat
  BY <1>0
<1>2. ASSUME NEW i \in 1..Len(s) PROVE Place(s, i) = i
  <2>1. {j \in DOMAIN s : s[j].seq < s[i].seq \/ (s[j].seq = s[i].seq /\ j <= i)} = 1..i
    <3>1. \A j \in 1..Len(s) : j < i => s[j].seq <= s[i].seq
      OBVIOUS
    <3>2. \A j \in 1..Len(s) : i < j => s[i].seq <= s[j].seq
      OBVIOUS
    <3> QED
      BY <1>1, <3>1, <3>2
  <2>2. i \in Int /\ Cardinality(1..i) = i
    BY <1>1, FS_Interval
  <2> QED
    BY <2>1, <2>2 DEF Place
<1>3. \A n \in 1..Len(s) : (CHOOSE i \in DOMAIN s : Place(s, i) = n) = n
  BY <1>1, <1>2
<1>5. \A n \in 1..Len(s) : s[CHOOSE i \in DOMAIN s : Place(s, i) = n] = s[n]
  BY <1>3, Zenon
<1>4. SortedBySeq(s) = [n \in 1..Len(s) |-> s[n]]
  BY <1>5, Zenon DEF SortedBySeq
<1> QED
  BY <1>1, <1>4

-----------------------------------------------------------------------------
(* Lemmas about the bytes of the segments *)

LEMMA BytesType ==
  ASSUME NEW f \in Files
  PROVE  /\ HeadBytes(f) \in Nat /\ Bytes(f) \in Nat
         /\ f.frames = <<>> => Bytes(f) = HeadBytes(f)
         /\ f.frames # <<>> =>
              /\ Len(f.frames) \in 1..Len(f.frames)
              /\ Bytes(f) = f.frames[Len(f.frames)].at + f.frames[Len(f.frames)].len
<1>1. f.head \in Heads /\ f.frames \in Seq(Frames)
  BY DEF Files
<1>2. HeadBytes(f) \in Nat
  BY <1>1, SizesAssumption DEF HeadBytes, Heads
<1>3. CASE f.frames = <<>>
  BY <1>2, <1>3 DEF Bytes
<1>4. CASE f.frames # <<>>
  <2>1. Len(f.frames) \in 1..Len(f.frames)
    BY <1>1, <1>4
  <2>2. f.frames[Len(f.frames)].at \in Nat /\ f.frames[Len(f.frames)].len \in Nat
    BY <2>1, FrameType
  <2> QED
    BY <1>2, <1>4, <2>1, <2>2 DEF Bytes, Last
<1> QED
  BY <1>3, <1>4

(* What the segments but one weigh, and that one.                              *)
BytesBut(fs, i) == UNION {{j} \X (1..Bytes(fs[j])) : j \in DOMAIN fs \ {i}}
Weight(fs, i) == IF i \in DOMAIN fs THEN Bytes(fs[i]) ELSE 0

LEMMA BytesSplit ==
  ASSUME NEW fs, IsFiniteSet(DOMAIN fs), \A j \in DOMAIN fs : Bytes(fs[j]) \in Nat, NEW i
  PROVE  /\ Cardinality(BytesBut(fs, i)) \in Nat
         /\ Cardinality(BytesOf(fs)) = Cardinality(BytesBut(fs, i)) + Weight(fs, i)
         /\ Weight(fs, i) \in Nat
<1> DEFINE D == DOMAIN fs \ {i}
           part == [j \in D |-> {j} \X (1..Bytes(fs[j]))]
           parts == {{j} \X (1..Bytes(fs[j])) : j \in D}
           own == {i} \X (1..Weight(fs, i))
<1>1. IsFiniteSet(D)
  BY FS_Difference
<1>2. part \in Surjection(D, parts)
  BY DEF Surjection
<1>3. IsFiniteSet(parts)
  BY <1>1, <1>2, FS_Surjection
<1>4. ASSUME NEW x, NEW n \in Nat
      PROVE  IsFiniteSet({x} \X (1..n)) /\ Cardinality({x} \X (1..n)) = n
  <2>1. IsFiniteSet(1..n) /\ Cardinality(1..n) = n
    BY FS_Interval
  <2>2. IsFiniteSet({x}) /\ Cardinality({x}) = 1
    BY FS_Singleton
  <2>3. IsFiniteSet({x} \X (1..n)) /\ Cardinality({x} \X (1..n)) = 1 * n
    BY <2>1, <2>2, FS_Product
  <2> QED
    BY <2>3
<1>5. \A T \in parts : IsFiniteSet(T)
  BY <1>4
<1>6. IsFiniteSet(BytesBut(fs, i)) /\ Cardinality(BytesBut(fs, i)) \in Nat
  <2>1. IsFiniteSet(UNION parts)
    BY <1>3, <1>5, FS_UNION
  <2> QED
    BY <2>1, FS_CardinalityType DEF BytesBut
<1>7. Weight(fs, i) \in Nat
  BY DEF Weight
<1>8. IsFiniteSet(own) /\ Cardinality(own) = Weight(fs, i)
  BY <1>4, <1>7
<1>9. BytesBut(fs, i) \cap own = {}
  BY DEF BytesBut
<1>10. BytesOf(fs) = BytesBut(fs, i) \cup own
  <2>1. CASE i \in DOMAIN fs
    <3>1. Weight(fs, i) = Bytes(fs[i])
      BY <2>1 DEF Weight
    <3> QED
      BY <2>1, <3>1 DEF BytesOf, BytesBut
  <2>2. CASE i \notin DOMAIN fs
    <3>1. Weight(fs, i) = 0 /\ 1..0 = {}
      BY <2>2 DEF Weight
    <3>2. own = {}
      BY <3>1
    <3>3. D = DOMAIN fs
      BY <2>2
    <3> QED
      BY <3>2, <3>3 DEF BytesOf, BytesBut
  <2> QED
    BY <2>1, <2>2
<1> HIDE DEF own
<1>11. Cardinality(BytesOf(fs)) =
         Cardinality(BytesBut(fs, i)) + Cardinality(own) - Cardinality(BytesBut(fs, i) \cap own)
  BY <1>6, <1>8, <1>10, FS_Union
<1>12. Cardinality(BytesBut(fs, i) \cap own) = 0
  BY <1>9, FS_EmptySet
<1> QED
  BY <1>6, <1>7, <1>8, <1>11, <1>12

(* Another content of one segment changes the total by what it weighs.         *)
LEMMA BytesReplaced ==
  ASSUME NEW fs, IsFiniteSet(DOMAIN fs), \A j \in DOMAIN fs : Bytes(fs[j]) \in Nat,
         NEW gs, IsFiniteSet(DOMAIN gs), \A j \in DOMAIN gs : Bytes(gs[j]) \in Nat,
         NEW i, DOMAIN fs \ {i} = DOMAIN gs \ {i},
         \A j \in DOMAIN fs \ {i} : fs[j] = gs[j]
  PROVE  /\ Cardinality(BytesOf(fs)) \in Nat /\ Cardinality(BytesOf(gs)) \in Nat
         /\ Weight(fs, i) \in Nat /\ Weight(gs, i) \in Nat
         /\ Cardinality(BytesOf(gs)) + Weight(fs, i) = Cardinality(BytesOf(fs)) + Weight(gs, i)
<1>1. BytesBut(fs, i) = BytesBut(gs, i)
  BY DEF BytesBut
<1>2. /\ Cardinality(BytesBut(fs, i)) \in Nat
      /\ Cardinality(BytesOf(fs)) = Cardinality(BytesBut(fs, i)) + Weight(fs, i)
      /\ Weight(fs, i) \in Nat
  BY BytesSplit
<1>3. /\ Cardinality(BytesOf(gs)) = Cardinality(BytesBut(gs, i)) + Weight(gs, i)
      /\ Weight(gs, i) \in Nat
  BY BytesSplit
<1> QED
  BY <1>1, <1>2, <1>3

(* A frame written behind a file: where it stands, and what the file weighs.   *)
LEMMA FrameWritten ==
  ASSUME NEW f \in Files, NEW fr \in Frames, NEW g, g = [f EXCEPT !.frames = Append(@, fr)]
  PROVE  /\ g \in Files /\ g.head = f.head /\ g.frames = Append(f.frames, fr)
         /\ Len(g.frames) = Len(f.frames) + 1 /\ Len(f.frames) \in Nat
         /\ g.frames[Len(f.frames) + 1] = fr
         /\ \A k \in 1..Len(f.frames) : g.frames[k] = f.frames[k]
         /\ Bytes(g) = fr.at + fr.len /\ HeadBytes(g) = HeadBytes(f)
<1>1. f.head \in Heads /\ f.frames \in Seq(Frames)
  BY DEF Files
<1>2. g = [head |-> f.head, frames |-> Append(f.frames, fr)]
  BY DEF Files
<1>3. g.head = f.head /\ g.frames = Append(f.frames, fr) /\ g.frames \in Seq(Frames)
  BY <1>1, <1>2
<1>4. g \in Files
  BY <1>1, <1>2, <1>3 DEF Files
<1>5. /\ Len(g.frames) = Len(f.frames) + 1 /\ Len(f.frames) \in Nat
      /\ g.frames[Len(f.frames) + 1] = fr
      /\ \A k \in 1..Len(f.frames) : g.frames[k] = f.frames[k]
      /\ g.frames # <<>>
  BY <1>1, <1>3
<1>6. Bytes(g) = fr.at + fr.len
  BY <1>4, <1>5, BytesType
<1> QED
  BY <1>3, <1>4, <1>5, <1>6 DEF HeadBytes

(* And the last frame taken from it.                                            *)
LEMMA FrameTaken ==
  ASSUME NEW f \in Files, NEW g, g = [f EXCEPT !.frames = Front(@)]
  PROVE  /\ g \in Files /\ g.head = f.head /\ HeadBytes(g) = HeadBytes(f)
         /\ f.frames = <<>> => g = f
         /\ f.frames # <<>> => Len(g.frames) = Len(f.frames) - 1
         /\ Len(g.frames) \in Nat /\ Len(g.frames) <= Len(f.frames)
         /\ \A k \in 1..Len(g.frames) :
               k \in 1..Len(f.frames) /\ g.frames[k] = f.frames[k]
<1>1. f.head \in Heads /\ f.frames \in Seq(Frames) /\ f = [head |-> f.head, frames |-> f.frames]
  BY DEF Files
<1>2. g = [head |-> f.head, frames |-> Front(f.frames)]
  BY DEF Files
<1>3. g.head = f.head /\ g.frames = SubSeq(f.frames, 1, Len(f.frames) - 1)
  BY <1>2 DEF Front
<1>4. CASE f.frames = <<>>
  <2>1. g.frames = <<>>
    BY <1>3, <1>4
  <2>2. g = f
    BY <1>1, <1>2, <1>3, <1>4, <2>1
  <2> QED
    BY <1>1, <1>4, <2>2
<1>5. CASE f.frames # <<>>
  <2>1. Len(f.frames) - 1 \in Nat /\ Len(f.frames) \in Nat
    BY <1>1, <1>5
  <2>2. /\ g.frames \in Seq(Frames) /\ Len(g.frames) = Len(f.frames) - 1
        /\ \A k \in 1..Len(g.frames) : g.frames[k] = f.frames[k]
    BY <1>1, <1>3, <2>1
  <2>3. g \in Files
    BY <1>1, <1>2, <1>3, <2>2 DEF Files
  <2>4. HeadBytes(g) = HeadBytes(f)
    BY <1>3 DEF HeadBytes
  <2> QED
    BY <1>1, <1>3, <1>5, <2>1, <2>2, <2>3, <2>4
<1> QED
  BY <1>4, <1>5

-----------------------------------------------------------------------------
(* Lemmas about what a write leaves *)

(* A file changed in its head keeps its frames.                                *)
LEMMA HeadChanged ==
  ASSUME NEW f \in Files, NEW h \in Heads
  PROVE  LET g == [f EXCEPT !.head = h]
         IN  g \in Files /\ g.head = h /\ g.frames = f.frames /\ Keeps(f, g)
<1> DEFINE g == [f EXCEPT !.head = h]
<1>1. g = [head |-> h, frames |-> f.frames] /\ f.frames \in Seq(Frames)
  BY DEF Files
<1>2. g \in Files /\ g.head = h /\ g.frames = f.frames
  BY <1>1 DEF Files
<1> QED
  BY <1>2 DEF Keeps, Whole

LEMMA GarbageType ==
  LET g == [head |-> "ok", frames |-> <<Garbage>>]
  IN  Garbage \in Frames /\ g \in Files /\ \A k \in Nat : ~Whole(g, k)
<1>1. [seq |-> 0, draft |-> 1] \in Records
  BY FaultsAssumption DEF Records, Drafts
<1>2. Garbage \in Frames /\ ~Garbage.whole
  BY <1>1, SizesAssumption DEF Garbage, Frames
<1>3. <<Garbage>> \in Seq(Frames) /\ Len(<<Garbage>>) = 1 /\ <<Garbage>>[1] = Garbage
  BY <1>2
<1>4. \A k \in Nat : k \in 1..1 => k = 1
  OBVIOUS
<1> QED
  BY <1>2, <1>3, <1>4 DEF Files, Heads, Whole

(* A header that was written, and one that was cut.                            *)
LEMMA HeadedAre ==
  ASSUME NEW f \in Files, NEW g \in {f} \cup Headed(f) \cup CutHeader(f)
  PROVE  /\ g \in Files /\ Keeps(f, g)
         /\ g \in Headed(f) /\ f.head = "none" => g.head = "ok" /\ g.frames = f.frames
         /\ g \in CutHeader(f) /\ f.head = "none" => g.head = "part" /\ g.frames = f.frames
<1>1. f.head \in Heads /\ f.frames \in Seq(Frames)
  BY DEF Files
<1>2. Keeps(f, f)
  BY DEF Keeps
<1>3. ASSUME NEW h \in Heads, g = [f EXCEPT !.head = h]
      PROVE  g \in Files /\ Keeps(f, g) /\ g.head = h /\ g.frames = f.frames
  BY <1>3, HeadChanged
<1>4. ASSUME g = [head |-> "ok", frames |-> <<Garbage>>]
      PROVE  g \in Files /\ Keeps(f, g)
  BY <1>4, GarbageType DEF Keeps
<1>5. "ok" \in Heads /\ "part" \in Heads /\ "bad" \in Heads
  BY DEF Heads
<1>6. CASE f.head = "none"
  <2>1. Headed(f) = {[f EXCEPT !.head = "ok"]} /\ CutHeader(f) = {[f EXCEPT !.head = "part"]}
    BY <1>6 DEF Headed, CutHeader
  <2>2. g = f \/ g = [f EXCEPT !.head = "ok"] \/ g = [f EXCEPT !.head = "part"]
    BY <2>1
  <2>3. g \in Headed(f) => g = [f EXCEPT !.head = "ok"]
    BY <2>1
  <2>4. g \in CutHeader(f) => g = [f EXCEPT !.head = "part"]
    BY <2>1
  <2> HIDE DEF Headed, CutHeader
  <2> QED
    BY <1>2, <1>3, <1>5, <2>2, <2>3, <2>4
<1>7. CASE f.head = "part"
  <2>1. Headed(f) = {[f EXCEPT !.head = "bad"], [head |-> "ok", frames |-> <<Garbage>>]}
    BY <1>7 DEF Headed
  <2>2. CutHeader(f) = {f} \cup Headed(f)
    BY <1>7 DEF CutHeader
  <2>3. g = f \/ g = [f EXCEPT !.head = "bad"] \/ g = [head |-> "ok", frames |-> <<Garbage>>]
    BY <2>1, <2>2
  <2> QED
    BY <1>2, <1>3, <1>4, <1>5, <1>7, <2>3
<1>8. CASE f.head \notin {"none", "part"}
  <2>1. Headed(f) = {f} /\ CutHeader(f) = {f}
    BY <1>8 DEF Headed, CutHeader
  <2> QED
    BY <1>2, <1>8, <2>1
<1> QED
  BY <1>6, <1>7, <1>8

(* The frame that append writes.                                                *)
LEMMA FrameOfType ==
  ASSUME Types, NEW f \in Files, NEW w \in BOOLEAN, pc # "idle"
  PROVE  /\ FrameOf(f, w) \in Frames
         /\ FrameOf(f, w).rec = [seq |-> nextSeq, draft |-> writing.draft]
         /\ FrameOf(f, w).rec \in Records
         /\ FrameOf(f, w).at = Bytes(f) /\ FrameOf(f, w).whole = w
         /\ FrameOf(f, w).len = (IF w THEN writing.len ELSE TornLen)
         /\ TornLen \in Nat /\ TornLen <= writing.len /\ writing.len \in Nat \ {0}
<1>1. nextSeq \in Nat /\ writing.draft \in Drafts /\ writing.len \in FrameLens
  BY DEF Types, WriterOk, Indexes
<1>2. TornLen \in Nat /\ TornLen <= writing.len /\ writing.len \in Nat \ {0}
  BY <1>1, SizesAssumption
<1>3. Bytes(f) \in Nat
  BY BytesType
<1>4. [seq |-> nextSeq, draft |-> writing.draft] \in Records
  BY <1>1 DEF Records
<1> QED
  BY <1>2, <1>3, <1>4 DEF FrameOf, Frames

(* A whole frame adds its record, a torn one adds nothing.                      *)
LEMMA WithFrameAre ==
  ASSUME Types, NEW f \in Files, NEW w \in BOOLEAN, pc # "idle"
  PROVE  LET g == WithFrame(f, w) n == Len(f.frames) + 1
         IN  /\ g \in Files /\ g.head = f.head /\ n \in Nat \ {0} /\ Len(g.frames) = n
             /\ \A k \in 1..Len(f.frames) : g.frames[k] = f.frames[k]
             /\ g.frames[n].rec = [seq |-> nextSeq, draft |-> writing.draft]
             /\ g.frames[n].at = Bytes(f) /\ g.frames[n].whole = w
             /\ g.frames[n].len = (IF w THEN writing.len ELSE TornLen)
             /\ Bytes(g) = Bytes(f) + (IF w THEN writing.len ELSE TornLen)
             /\ HeadBytes(g) = HeadBytes(f)
             /\ \A k \in Nat : Whole(g, k) => (Whole(f, k) /\ g.frames[k] = f.frames[k]) \/ (w /\ k = n)
             /\ ~w => Keeps(f, g) /\ SameRead(f, g)
<1> DEFINE g == WithFrame(f, w)
           n == Len(f.frames) + 1
           fr == FrameOf(f, w)
<1>1. fr \in Frames /\ fr.rec = [seq |-> nextSeq, draft |-> writing.draft]
      /\ fr.at = Bytes(f) /\ fr.whole = w /\ fr.len = (IF w THEN writing.len ELSE TornLen)
  BY FrameOfType
<1>2. g = [f EXCEPT !.frames = Append(@, fr)]
  BY DEF WithFrame
<1> HIDE DEF fr, g
<1>3. /\ g \in Files /\ g.head = f.head /\ Len(g.frames) = n /\ Len(f.frames) \in Nat
      /\ g.frames[n] = fr
      /\ \A k \in 1..Len(f.frames) : g.frames[k] = f.frames[k]
      /\ Bytes(g) = fr.at + fr.len /\ HeadBytes(g) = HeadBytes(f)
  BY <1>1, <1>2, FrameWritten
<1>4. \A k \in Nat : Whole(g, k) => (Whole(f, k) /\ g.frames[k] = f.frames[k]) \/ (w /\ k = n)
  BY <1>1, <1>3 DEF Whole
<1>5. ASSUME ~w PROVE Keeps(f, g) /\ SameRead(f, g)
  <2>1. Keeps(f, g)
    BY <1>4, <1>5 DEF Keeps
  <2>2. ~g.frames[n].whole
    BY <1>1, <1>3, <1>5
  <2>3. ASSUME NEW k \in Nat, Readable(f, k)
        PROVE  Readable(g, k) /\ g.frames[k].rec = f.frames[k].rec
    BY <1>3, <2>3 DEF Readable
  <2>4. ASSUME NEW k \in Nat, Readable(g, k) PROVE Readable(f, k)
    <3>1. k \in 1..n /\ k # n
      BY <1>3, <2>2, <2>4 DEF Readable
    <3> QED
      BY <1>3, <2>4, <3>1 DEF Readable
  <2> QED
    BY <2>1, <2>3, <2>4, Zenon DEF SameRead
<1> QED
  BY <1>1, <1>3, <1>4, <1>5 DEF g

(* What a crash leaves of the file that was written keeps what was whole.        *)
LEMMA FrontKeeps ==
  ASSUME NEW f \in Files, NEW g, g = [f EXCEPT !.frames = Front(@)]
  PROVE  g \in Files /\ Keeps(f, g)
<1>1. /\ g \in Files /\ Len(g.frames) \in Nat
      /\ \A k \in 1..Len(g.frames) : k \in 1..Len(f.frames) /\ g.frames[k] = f.frames[k]
  BY FrameTaken
<1> QED
  BY <1>1 DEF Keeps, Whole

LEMMA KeepsTransitive ==
  ASSUME NEW f, NEW g, NEW h, Keeps(f, g), Keeps(g, h)
  PROVE  Keeps(f, h)
BY DEF Keeps

LEMMA RemainsAre ==
  ASSUME Types, pc # "idle", NEW g \in Remains
  PROVE  g \in Files /\ Keeps(files[current], g)
<1> DEFINE f == files[current]
<1>1. f \in Files /\ pc \in {"header", "frame", "sync"}
  BY DEF Types, WriterOk, FilesOk
<1>2. Keeps(f, f)
  BY DEF Keeps
<1> HIDE DEF f
<1>3. CASE pc = "header"
  <2>1. g \in {f} \cup CutHeader(f)
    BY <1>3 DEF Remains, f
  <2>2. g \in {f} \cup Headed(f) \cup CutHeader(f)
    BY <2>1
  <2> QED
    BY <1>1, <2>2, HeadedAre DEF f
<1>4. CASE pc = "frame"
  <2>1. g = f \/ g = WithFrame(f, FALSE)
    BY <1>4 DEF Remains, f
  <2> QED
    BY <1>1, <1>2, <2>1, WithFrameAre DEF f
<1>5. CASE pc = "sync"
  <2> DEFINE before == [f EXCEPT !.frames = Front(@)]
  <2>1. g = f \/ g = before \/ g = WithFrame(before, FALSE)
    BY <1>5 DEF Remains, f
  <2>2. before \in Files /\ Keeps(f, before)
    BY <1>1, FrontKeeps
  <2> HIDE DEF before
  <2>3. WithFrame(before, FALSE) \in Files /\ Keeps(before, WithFrame(before, FALSE))
    BY <1>5, <2>2, WithFrameAre
  <2>4. Keeps(f, WithFrame(before, FALSE))
    BY <2>2, <2>3, KeepsTransitive
  <2> QED
    BY <1>1, <1>2, <2>1, <2>2, <2>3, <2>4 DEF f
<1> QED
  BY <1>1, <1>3, <1>4, <1>5

(* What open makes of a torn tail: the readable records, and no others.          *)
Truncated(f) ==
  IF f.head = "ok" THEN [head |-> "ok", frames |-> GoodFrames(f)] ELSE NoFile
LEMMA NoFileIs ==
  /\ NoFile \in Files /\ Len(NoFile.frames) = 0 /\ NoFile.frames = <<>> /\ NoFile.head = "none"
  /\ Bytes(NoFile) = 0 /\ Sound(NoFile) /\ Placed(NoFile)
  /\ \A k \in Nat : ~Whole(NoFile, k) /\ ~Readable(NoFile, k)
<1>1. NoFile \in Files /\ Len(NoFile.frames) = 0 /\ NoFile.frames = <<>> /\ NoFile.head = "none"
  BY DEF NoFile, Files, Heads
<1>2. Bytes(NoFile) = 0
  BY <1>1, BytesType DEF HeadBytes
<1> QED
  BY <1>1, <1>2 DEF Sound, Placed, Whole, Readable

LEMMA TruncatedIs ==
  ASSUME NEW f \in Files
  PROVE  /\ Truncated(f) \in Files /\ Sound(Truncated(f))
         /\ Keeps(f, Truncated(f)) /\ SameRead(f, Truncated(f))
         /\ Truncated(f).head # "ok" => Truncated(f).frames = <<>>
<1> DEFINE g == Truncated(f)
<1>1. CASE f.head = "ok"
  <2>1. g.head = "ok" /\ g.frames = GoodFrames(f) /\ g = [head |-> "ok", frames |-> GoodFrames(f)]
    BY <1>1 DEF Truncated
  <2>2. /\ g.frames \in Seq(Frames) /\ Len(g.frames) = GoodLen(f) /\ GoodLen(f) \in Nat
        /\ \A k \in 1..GoodLen(f) : k \in 1..Len(f.frames) /\ g.frames[k] = f.frames[k]
                                    /\ f.frames[k].whole
    BY <2>1, GoodFramesAre, GoodLenIs DEF Files
  <2>3. g \in Files /\ Sound(g)
    BY <2>1, <2>2 DEF Files, Heads, Sound
  <2> HIDE DEF g
  <2>4. Keeps(f, g)
    BY <2>2 DEF Keeps, Whole
  <2>5. \A k \in Nat : Readable(f, k) => k \in 1..GoodLen(f)
    BY <2>2, GoodFrame DEF Readable
  <2>6. \A k \in Nat : Readable(g, k) <=> k \in 1..GoodLen(f)
    BY <2>1, <2>2 DEF Readable
  <2>7. \A k \in Nat : k \in 1..GoodLen(f) => Readable(f, k)
    BY <1>1, <2>2 DEF Readable
  <2>8. SameRead(f, g)
    <3>1. \A k \in Nat : Readable(f, k) => Readable(g, k) /\ g.frames[k].rec = f.frames[k].rec
      BY <2>2, <2>5, <2>6
    <3>2. \A k \in Nat : Readable(g, k) => Readable(f, k)
      BY <2>6, <2>7
    <3> QED
      BY <3>1, <3>2, Zenon DEF SameRead
  <2> QED
    BY <2>1, <2>3, <2>4, <2>8 DEF g
<1>2. CASE f.head # "ok"
  <2>1. g = NoFile
    BY <1>2 DEF Truncated
  <2>2. \A k \in Nat : ~Readable(f, k)
    BY <1>2 DEF Readable
  <2>3. Keeps(f, g)
    BY <2>1, NoFileIs DEF Keeps
  <2>4. SameRead(f, g)
    BY <2>1, <2>2, NoFileIs, Zenon DEF SameRead
  <2> QED
    BY <2>1, <2>3, <2>4, NoFileIs
<1> QED
  BY <1>1, <1>2

-----------------------------------------------------------------------------
(* Types *)

LEMMA TypesInit == Init => Types
<1> SUFFICES ASSUME Init PROVE Types
  OBVIOUS
<1> USE DEF Init
<1>1. DOMAIN <<>> = {} /\ IsFiniteSet({})
  BY FS_EmptySet
<1>2. FilesOk /\ CorruptOk
  BY <1>1 DEF FilesOk, CorruptOk
<1>3. WriterOk
  BY FaultsAssumption DEF WriterOk, NoWrite, Indexes, Drafts
<1>4. ScanOk
  BY DEF ScanOk, NoReport
<1>5. OwnerOk
  BY DEF OwnerOk
<1> QED
  BY <1>2, <1>3, <1>4, <1>5 DEF Types

(* A segment that open reads, and what it adds to the report.                   *)
LEMMA SegmentRead ==
  ASSUME Types, NEW i \in left
  PROVE  /\ i \in DOMAIN files /\ files[i] \in Files /\ i \in Indexes
         /\ ckpt \in Nat /\ report.last \in Nat /\ report.pending \in Seq(Records)
         /\ RecordsOf(files[i]) \in Seq(Records)
         /\ PendingIn(files[i]) \in Seq(Records)
         /\ report.pending \o PendingIn(files[i]) \in Seq(Records)
         /\ HighestSeq(RecordsOf(files[i]), report.last) \in Nat
<1>1. i \in DOMAIN files /\ files[i] \in Files /\ i \in Indexes
  BY DEF Types, ScanOk, FilesOk
<1>2. ckpt \in Nat /\ report.last \in Nat /\ report.pending \in Seq(Records)
  BY DEF Types, ScanOk, OwnerOk
<1>3. RecordsOf(files[i]) \in Seq(Records)
  BY <1>1, RecordsAre
<1>4. PendingIn(files[i]) \in Seq(Records)
  BY <1>1, <1>2, AboveAre DEF PendingIn
<1>5. HighestSeq(RecordsOf(files[i]), report.last) \in Nat
  BY <1>2, <1>3, HighestSeqIs
<1> QED
  BY <1>1, <1>2, <1>3, <1>4, <1>5

(* What a step of open does to the segment it reads.                            *)
Opens(i) ==
  \/ OpenTruncate(i) \/ OpenQuarantineTorn(i) \/ OpenQuarantineUnreadable(i)
  \/ OpenRemove(i) \/ OpenKeep(i)

LEMMA OpensAre ==
  ASSUME NEW i, Opens(i)
  PROVE  /\ left' = left \ {i}
         /\ \/ files' = [files EXCEPT ![i] = Truncated(files[i])]
            \/ files' = Without(i)
            \/ files' = files
         /\ \/ corrupt' = [j \in DOMAIN corrupt \cup {i} |->
                             IF j = i THEN files[i] ELSE corrupt[j]]
            \/ corrupt' = corrupt
         /\ \/ report' = report
            \/ report' = [pending |-> report.pending \o PendingIn(files[i]),
                          last |-> HighestSeq(RecordsOf(files[i]), report.last)]
         /\ UNCHANGED <<ckpt, phase, writer, pc, writing, lastIndex, found, owner, env>>
<1>1. CASE OpenTruncate(i)
  BY <1>1 DEF OpenTruncate, Collect, Truncated
<1>2. CASE OpenQuarantineTorn(i)
  BY <1>2 DEF OpenQuarantineTorn, Quarantine, Collect
<1>3. CASE OpenQuarantineUnreadable(i)
  BY <1>3 DEF OpenQuarantineUnreadable, Quarantine
<1>4. CASE OpenRemove(i)
  BY <1>4 DEF OpenRemove, Collect
<1>5. CASE OpenKeep(i)
  BY <1>5 DEF OpenKeep, Collect
<1> QED
  BY <1>1, <1>2, <1>3, <1>4, <1>5 DEF Opens

LEMMA WithoutIs ==
  ASSUME NEW i
  PROVE  DOMAIN Without(i) = DOMAIN files \ {i} /\ \A j \in DOMAIN files \ {i} : Without(i)[j] = files[j]
BY DEF Without

LEMMA WithFileIs ==
  ASSUME NEW i, NEW f
  PROVE  /\ DOMAIN WithFile(i, f) = DOMAIN files \cup {i} /\ WithFile(i, f)[i] = f
         /\ \A j \in DOMAIN files \ {i} : WithFile(i, f)[j] = files[j]
BY DEF WithFile

LEMMA TypesOpens ==
  ASSUME Types, NEW i \in left, Opens(i)
  PROVE  Types'
<1>1. /\ i \in DOMAIN files /\ files[i] \in Files /\ i \in Indexes
      /\ report.pending \o PendingIn(files[i]) \in Seq(Records)
      /\ HighestSeq(RecordsOf(files[i]), report.last) \in Nat
  BY SegmentRead
<1>2. FilesOk'
  <2>1. FilesOk
    BY DEF Types
  <2>2. CASE files' = [files EXCEPT ![i] = Truncated(files[i])]
    <3>1. Truncated(files[i]) \in Files
      BY <1>1, TruncatedIs
    <3> QED
      BY <2>1, <2>2, <3>1 DEF FilesOk
  <2>3. CASE files' = Without(i)
    <3>1. DOMAIN files' = DOMAIN files \ {i} /\ \A j \in DOMAIN files \ {i} : files'[j] = files[j]
      BY <2>3, WithoutIs
    <3>2. IsFiniteSet(DOMAIN files \ {i})
      BY <2>1, FS_Difference DEF FilesOk
    <3> QED
      BY <2>1, <3>1, <3>2 DEF FilesOk
  <2>4. CASE files' = files
    BY <2>1, <2>4 DEF FilesOk
  <2> QED
    BY <2>2, <2>3, <2>4, OpensAre
<1>3. CorruptOk'
  <2>1. CorruptOk
    BY DEF Types
  <2>2. CASE corrupt' = corrupt
    BY <2>1, <2>2 DEF CorruptOk
  <2>3. CASE corrupt' = [j \in DOMAIN corrupt \cup {i} |->
                             IF j = i THEN files[i] ELSE corrupt[j]]
    BY <1>1, <2>1, <2>3 DEF CorruptOk
  <2> QED
    BY <2>2, <2>3, OpensAre
<1>4. left # {} => phase = "opening" /\ pc = "idle"
  BY DEF Types, ScanOk, WriterOk
<1>5. WriterOk'
  <2>1. WriterOk /\ pc = "idle"
    BY <1>4 DEF Types
  <2> QED
    BY <2>1, OpensAre DEF WriterOk, writer, env
<1>6. ScanOk'
  <2>1. ScanOk /\ phase = "opening"
    BY <1>4 DEF Types
  <2>2. report' \in [pending : Seq(Records), last : Nat]
    <3>1. report \in [pending : Seq(Records), last : Nat]
      BY <2>1 DEF ScanOk
    <3>2. [pending |-> report.pending \o PendingIn(files[i]),
           last |-> HighestSeq(RecordsOf(files[i]), report.last)]
            \in [pending : Seq(Records), last : Nat]
      BY <1>1
    <3> QED
      BY <3>1, <3>2, OpensAre
  <2>3. DOMAIN files \ {i} \subseteq DOMAIN files'
    BY WithoutIs, OpensAre
  <2>4. left' \subseteq DOMAIN files'
    BY <2>1, <2>3, OpensAre DEF ScanOk
  <2> QED
    BY <2>1, <2>2, <2>4, OpensAre DEF ScanOk
<1>7. OwnerOk'
  BY OpensAre DEF Types, OwnerOk, owner, env
<1> QED
  BY <1>2, <1>3, <1>5, <1>6, <1>7 DEF Types

LEMMA PendingOfType ==
  ASSUME Types, NEW I, I \subseteq DOMAIN files
  PROVE  PendingOf(I) \subseteq Records
<1>1. SUFFICES ASSUME NEW i \in I PROVE ToSet(PendingIn(files[i])) \subseteq Records
  BY DEF PendingOf
<1>2. files[i] \in Files /\ ckpt \in Nat
  BY DEF Types, FilesOk, OwnerOk
<1>3. PendingIn(files[i]) \in Seq(Records)
  BY <1>2, AboveAre DEF PendingIn
<1> QED
  BY <1>3, RangeFinite

LEMMA TypesOpenBegin ==
  ASSUME Types, OpenBegin
  PROVE  /\ Types' /\ lastIndex' \in Nat
         /\ \A i \in DOMAIN files : i <= lastIndex'
         /\ (DOMAIN files # {} => lastIndex' \in DOMAIN files)
<1> USE DEF OpenBegin
<1> DEFINE S == {0} \cup DOMAIN files
<1>1. IsFiniteSet(S) /\ S \subseteq Nat /\ S # {}
  <2>1. IsFiniteSet(DOMAIN files) /\ DOMAIN files \subseteq Nat
    BY DEF Types, FilesOk, Indexes
  <2>2. IsFiniteSet({0})
    BY FS_Singleton
  <2>3. IsFiniteSet({0} \cup DOMAIN files)
    BY <2>1, <2>2, FS_Union
  <2> QED
    BY <2>1, <2>3
<1>2. Max(S) \in S /\ \A x \in S : x <= Max(S)
  BY <1>1, MaxFinite
<1>3. lastIndex' \in Nat /\ \A i \in DOMAIN files : i <= lastIndex'
  BY <1>1, <1>2
<1>4. ASSUME NEW i \in DOMAIN files PROVE lastIndex' \in DOMAIN files
  <2>1. i \in Nat \ {0} /\ i <= lastIndex'
    BY <1>3 DEF Types, FilesOk, Indexes
  <2>2. lastIndex' # 0
    BY <1>3, <2>1
  <2> QED
    BY <1>2, <2>2
<1>5. pc = "idle"
  BY DEF Types, WriterOk
<1>6. FilesOk' /\ CorruptOk'
  BY DEF disk, Types, FilesOk, CorruptOk
<1>7. WriterOk'
  BY <1>5 DEF disk, writer, env, Types, WriterOk
<1>8. ScanOk'
  <2>1. PendingOf(DOMAIN files) \subseteq Records
    BY PendingOfType
  <2> QED
    BY <1>3, <2>1 DEF disk, Types, ScanOk, NoReport
<1>9. OwnerOk'
  BY DEF disk, owner, env, Types, OwnerOk
<1> QED
  BY <1>3, <1>4, <1>6, <1>7, <1>8, <1>9 DEF Types

LEMMA FileAtType ==
  ASSUME Types, NEW i
  PROVE  FileAt(i) \in Files /\ Bytes(FileAt(i)) \in Nat
<1>1. FileAt(i) \in Files
  BY NoFileIs DEF FileAt, Types, FilesOk
<1> QED
  BY <1>1, BytesType

LEMMA DiskBytesType ==
  ASSUME Types
  PROVE  DiskBytes \in Nat
<1>1. IsFiniteSet(DOMAIN files) /\ \A j \in DOMAIN files : Bytes(files[j]) \in Nat
  BY BytesType DEF Types, FilesOk
<1>2. Cardinality(BytesOf(files)) = Cardinality(BytesBut(files, 0)) + Weight(files, 0)
      /\ Cardinality(BytesBut(files, 0)) \in Nat /\ Weight(files, 0) \in Nat
  BY <1>1, BytesSplit
<1> QED
  BY <1>2 DEF DiskBytes

(* The number that open goes on with, and the segment.                          *)
LEMMA OpenDoneIs ==
  ASSUME Types, OpenDone
  PROVE  /\ current' \in Indexes /\ lastIndex <= current'
         /\ nextSeq' = (IF report.last >= ckpt THEN report.last ELSE ckpt) + 1
         /\ nextSeq' \in Indexes
<1>1. lastIndex \in Nat /\ report.last \in Nat /\ ckpt \in Nat
  BY DEF Types, ScanOk, OwnerOk
<1>2. current' = Max({lastIndex, 1}) /\ nextSeq' = Max({report.last, ckpt}) + 1
  BY DEF OpenDone, Opened
<1>3. current' = IF lastIndex >= 1 THEN lastIndex ELSE 1
  BY <1>1, <1>2, MaxOfTwo
<1>4. nextSeq' = (IF report.last >= ckpt THEN report.last ELSE ckpt) + 1
  BY <1>1, <1>2, MaxOfTwo
<1> QED
  BY <1>1, <1>3, <1>4 DEF Indexes

(* Sorting does not depend on the order of the report: its records stay records. *)
LEMMA TypesOpenDone ==
  ASSUME Types, OpenDone, SortedBySeq(report.pending) = report.pending
  PROVE  Types'
<1>1. /\ pc = "idle" /\ phase = "opening"
  BY DEF Types, WriterOk, OpenDone, Opened
<1>2. FilesOk' /\ CorruptOk'
  BY DEF OpenDone, Opened, disk, Types, FilesOk, CorruptOk
<1>3. WriterOk'
  <2>1. current' \in Indexes /\ nextSeq' \in Indexes
    BY OpenDoneIs
  <2>2. currentLen' \in Nat /\ totalLen' \in Nat
    <3>1. PICK i : currentLen' = Bytes(FileAt(i)) /\ totalLen' = DiskBytes
      BY DEF OpenDone, Opened
    <3> QED
      BY <3>1, FileAtType, DiskBytesType
  <2> QED
    BY <1>1, <2>1, <2>2 DEF OpenDone, Opened, disk, env, Types, WriterOk
<1>4. ScanOk'
  BY DEF OpenDone, Opened, disk, Types, ScanOk, NoReport
<1>5. OwnerOk'
  BY DEF OpenDone, Opened, disk, env, Types, ScanOk, OwnerOk
<1> QED
  BY <1>2, <1>3, <1>4, <1>5 DEF Types

(* The segment that append opens, and whether it needs a header.                  *)
LEMMA AppendBeginIs ==
  ASSUME Types, NEW len \in FrameLens, AppendBegin(len)
  PROVE  /\ phase = "open" /\ pc = "idle" /\ calls < MaxAppend /\ calls' = calls + 1
         /\ current' \in Indexes
         /\ current' = (IF currentLen >= SegmentMax THEN current + 1 ELSE current)
         /\ currentLen' = (IF currentLen >= SegmentMax THEN 0 ELSE currentLen)
         /\ files' = WithFile(current', FileAt(current'))
         /\ DOMAIN files' = DOMAIN files \cup {current'}
         /\ \A j \in DOMAIN files : files'[j] = files[j]
         /\ files'[current'] = FileAt(current')
         /\ pc' \in {"header", "frame"}
         /\ pc' = "frame" <=> /\ current' \in DOMAIN files
                              /\ ~(currentLen >= SegmentMax) /\ currentLen # 0
         /\ writing' = [draft |-> calls + 1, len |-> len]
<1>1. /\ phase = "open" /\ pc = "idle" /\ calls < MaxAppend /\ calls' = calls + 1
      /\ current' = (IF currentLen >= SegmentMax THEN current + 1 ELSE current)
      /\ currentLen' = (IF currentLen >= SegmentMax THEN 0 ELSE currentLen)
      /\ files' = WithFile(current', FileAt(current'))
      /\ pc' = IF current' \notin DOMAIN files \/ currentLen >= SegmentMax \/ currentLen = 0
               THEN "header" ELSE "frame"
      /\ writing' = [draft |-> calls + 1, len |-> len]
  BY DEF AppendBegin, Called
<1>2. current' \in Indexes
  BY <1>1 DEF Types, WriterOk, Indexes
<1>3. /\ DOMAIN files' = DOMAIN files \cup {current'} /\ files'[current'] = FileAt(current')
      /\ \A j \in DOMAIN files \ {current'} : files'[j] = files[j]
  <2> DEFINE c == current'
             f == FileAt(c)
  <2>1. files' = WithFile(c, f)
    BY <1>1
  <2> HIDE DEF c, f
  <2>2. /\ DOMAIN WithFile(c, f) = DOMAIN files \cup {c} /\ WithFile(c, f)[c] = f
        /\ \A j \in DOMAIN files \ {c} : WithFile(c, f)[j] = files[j]
    BY WithFileIs
  <2> QED
    BY <2>1, <2>2 DEF c, f
<1>4. current' \in DOMAIN files => files'[current'] = files[current']
  BY <1>3 DEF FileAt
<1> QED
  BY <1>1, <1>2, <1>3, <1>4

LEMMA TypesAppendBegin ==
  ASSUME Types, NEW len \in FrameLens, AppendBegin(len)
  PROVE  Types'
<1>1. /\ phase = "open" /\ pc = "idle" /\ calls < MaxAppend /\ calls' = calls + 1
      /\ current' \in Indexes
      /\ currentLen' = (IF currentLen >= SegmentMax THEN 0 ELSE currentLen)
      /\ DOMAIN files' = DOMAIN files \cup {current'}
      /\ \A j \in DOMAIN files : files'[j] = files[j]
      /\ files'[current'] = FileAt(current')
      /\ pc' \in {"header", "frame"}
      /\ writing' = [draft |-> calls + 1, len |-> len]
  BY AppendBeginIs
<1>2. FilesOk'
  <2>1. IsFiniteSet(DOMAIN files')
    <3>1. IsFiniteSet(DOMAIN files \cup {current'})
      BY FS_AddElement DEF Types, FilesOk
    <3> QED
      BY <1>1, <3>1
  <2>2. files'[current'] \in Files
    BY <1>1, NoFileIs DEF FileAt, Types, FilesOk
  <2> QED
    BY <1>1, <2>1, <2>2 DEF Types, FilesOk
<1>3. CorruptOk'
  BY DEF AppendBegin, Types, CorruptOk
<1>4. WriterOk'
  <2>1. calls + 1 \in 1..MaxAppend
    BY <1>1, FaultsAssumption DEF Types, WriterOk
  <2>2. writing' \in [draft : Drafts, len : FrameLens \cup {0}]
    BY <1>1, <2>1 DEF Drafts
  <2>3. currentLen' \in Nat
    BY <1>1 DEF Types, WriterOk
  <2>4. writing'.draft = calls' /\ writing'.len = len /\ calls' \in 0..MaxAppend
    BY <1>1, <2>1
  <2>5. UNCHANGED <<phase, totalLen, nextSeq, fails, crashes>> /\ current' \in DOMAIN files'
    BY <1>1 DEF AppendBegin
  <2> QED
    BY <1>1, <2>2, <2>3, <2>4, <2>5 DEF Types, WriterOk
<1>5. ScanOk'
  BY <1>1 DEF AppendBegin, scan, Types, ScanOk
<1>6. OwnerOk'
  BY DEF AppendBegin, owner, Types, OwnerOk
<1> QED
  BY <1>2, <1>3, <1>4, <1>5, <1>6 DEF Types

(* A write that changes the file append has open.                                 *)
LEMMA FilesWritten ==
  ASSUME Types, NEW g \in Files, files' = [files EXCEPT ![current] = g]
  PROVE  /\ FilesOk' /\ DOMAIN files' = DOMAIN files
         /\ \A j \in DOMAIN files \ {current} : files'[j] = files[j]
         /\ current \in DOMAIN files => files'[current] = g
<1>1. FilesOk
  BY DEF Types
<1>2. /\ DOMAIN files' = DOMAIN files
      /\ \A j \in DOMAIN files \ {current} : files'[j] = files[j]
      /\ current \in DOMAIN files => files'[current] = g
  BY <1>1 DEF FilesOk
<1> QED
  BY <1>1, <1>2 DEF FilesOk

LEMMA CurrentType ==
  ASSUME Types, pc # "idle"
  PROVE  /\ current \in DOMAIN files /\ files[current] \in Files /\ phase = "open"
         /\ writing.draft = calls /\ writing.draft \in Drafts /\ writing.len \in Nat \ {0}
BY SizesAssumption DEF Types, WriterOk, FilesOk

(* What a failing write leaves, and what a crash leaves, is a file that keeps      *)
(* what was whole.                                                                  *)
LEMMA FailsAre ==
  ASSUME Types, HeaderFails \/ FrameFails \/ SyncFails
  PROVE  /\ pc # "idle" /\ pc' = "idle" /\ writing' = NoWrite /\ fails < MaxFail
         /\ \E g \in Files : Keeps(files[current], g) /\ files' = [files EXCEPT ![current] = g]
         /\ UNCHANGED <<corrupt, ckpt, phase, writer, scan, owner, calls, crashes, faults>>
         /\ fails' = fails + 1
<1> DEFINE f == files[current]
<1>1. PICK g, kind : Refused(g, kind) /\ pc # "idle" /\
         \/ g = f
         \/ pc = "header" /\ g \in CutHeader(f)
         \/ pc = "frame" /\ g = WithFrame(f, FALSE)
  BY DEF HeaderFails, FrameFails, SyncFails
<1>2. f \in Files
  BY <1>1, CurrentType
<1>3. Keeps(f, f)
  BY DEF Keeps
<1> HIDE DEF f
<1>4. g \in Files /\ Keeps(f, g)
  <2>1. CASE g = f
    BY <1>2, <1>3, <2>1
  <2>2. CASE g \in CutHeader(f)
    BY <1>2, <2>2, HeadedAre
  <2>3. CASE g = WithFrame(f, FALSE)
    BY <1>1, <1>2, <2>3, WithFrameAre
  <2> QED
    BY <1>1, <2>1, <2>2, <2>3
<1> QED
  BY <1>1, <1>4 DEF Refused, f

LEMMA TypesFails ==
  ASSUME Types, HeaderFails \/ FrameFails \/ SyncFails
  PROVE  Types'
<1>1. PICK g \in Files : files' = [files EXCEPT ![current] = g]
  BY FailsAre
<1>2. FilesOk' /\ DOMAIN files' = DOMAIN files
  BY <1>1, FilesWritten
<1>3. CorruptOk'
  BY FailsAre DEF Types, CorruptOk
<1>4. NoWrite \in [draft : Drafts, len : FrameLens \cup {0}]
  BY FaultsAssumption DEF NoWrite, Drafts
<1>5. WriterOk'
  BY <1>4, FailsAre DEF Types, WriterOk, writer
<1>6. ScanOk'
  BY <1>2, FailsAre DEF Types, ScanOk, scan
<1>7. OwnerOk'
  BY FailsAre DEF Types, OwnerOk, owner
<1> QED
  BY <1>2, <1>3, <1>5, <1>6, <1>7 DEF Types

LEMMA CrashIs ==
  ASSUME Types, Crash
  PROVE  /\ \/ pc = "idle" /\ files' = files
            \/ pc # "idle" /\ \E g \in Remains : g \in Files /\ Keeps(files[current], g)
                                /\ files' = [files EXCEPT ![current] = g]
         /\ phase # "down" /\ phase' = "down" /\ pc' = "idle" /\ left' = {}
<1>1. ASSUME NEW g \in Remains, pc # "idle" PROVE g \in Files /\ Keeps(files[current], g)
  BY <1>1, RemainsAre
<1> QED
  BY <1>1 DEF Crash

LEMMA TypesCrash ==
  ASSUME Types, Crash
  PROVE  Types'
<1>1. FilesOk' /\ DOMAIN files' = DOMAIN files
  <2>1. CASE files' = files
    BY <2>1 DEF Types, FilesOk
  <2>2. ASSUME NEW g \in Files, files' = [files EXCEPT ![current] = g]
        PROVE  FilesOk' /\ DOMAIN files' = DOMAIN files
    BY <2>2, FilesWritten
  <2> QED
    BY <2>1, <2>2, CrashIs
<1>2. CorruptOk'
  BY DEF Crash, Types, CorruptOk
<1>3. NoWrite \in [draft : Drafts, len : FrameLens \cup {0}]
  BY FaultsAssumption DEF NoWrite, Drafts
<1>4. WriterOk'
  BY <1>3 DEF Crash, Types, WriterOk, Indexes
<1>5. ScanOk'
  BY DEF Crash, ScanOk, NoReport
<1>6. OwnerOk'
  BY DEF Crash, Types, OwnerOk
<1> QED
  BY <1>1, <1>2, <1>4, <1>5, <1>6 DEF Types

LEMMA TypesWriteHeader ==
  ASSUME Types, WriteHeader
  PROVE  Types' /\ pc = "header" /\ \E g \in Headed(files[current]) :
            g \in Files /\ Keeps(files[current], g) /\ files' = [files EXCEPT ![current] = g]
<1>1. PICK g \in Headed(files[current]) : files' = [files EXCEPT ![current] = g]
  BY DEF WriteHeader
<1>2. pc = "header" /\ phase = "open" /\ current \in DOMAIN files /\ files[current] \in Files
  BY CurrentType DEF WriteHeader
<1>3. g \in Files /\ Keeps(files[current], g)
  BY <1>2, HeadedAre
<1>4. FilesOk' /\ DOMAIN files' = DOMAIN files
  BY <1>1, <1>3, FilesWritten
<1>5. CorruptOk'
  BY DEF WriteHeader, Types, CorruptOk
<1>6. WriterOk'
  BY <1>2, <1>4, SizesAssumption DEF WriteHeader, Types, WriterOk, env
<1>7. ScanOk'
  BY <1>4 DEF WriteHeader, Types, ScanOk, scan
<1>8. OwnerOk'
  BY DEF WriteHeader, Types, OwnerOk, owner, env
<1> QED
  BY <1>1, <1>2, <1>3, <1>4, <1>5, <1>6, <1>7, <1>8 DEF Types

LEMMA TypesWriteFrame ==
  ASSUME Types, WriteFrame
  PROVE  Types' /\ pc = "frame" /\ pc' = "sync"
         /\ files' = [files EXCEPT ![current] = WithFrame(files[current], TRUE)]
<1>1. files' = [files EXCEPT ![current] = WithFrame(files[current], TRUE)]
  BY DEF WriteFrame
<1>2. pc = "frame" /\ phase = "open" /\ current \in DOMAIN files /\ files[current] \in Files
  BY CurrentType DEF WriteFrame
<1>3. WithFrame(files[current], TRUE) \in Files
  BY <1>2, WithFrameAre
<1>4. FilesOk' /\ DOMAIN files' = DOMAIN files
  BY <1>1, <1>3, FilesWritten
<1>5. CorruptOk'
  BY DEF WriteFrame, Types, CorruptOk
<1>6. WriterOk'
  BY <1>2, <1>4 DEF WriteFrame, Types, WriterOk, writer, env
<1>7. ScanOk'
  BY <1>4 DEF WriteFrame, Types, ScanOk, scan
<1>8. OwnerOk'
  BY DEF WriteFrame, Types, OwnerOk, owner, env
<1> QED
  BY <1>1, <1>2, <1>4, <1>5, <1>6, <1>7, <1>8 DEF Types, WriteFrame

(* The record that append acknowledges.                                            *)
Written == [seq |-> nextSeq, draft |-> writing.draft]

LEMMA SyncIs ==
  ASSUME Types, Sync
  PROVE  /\ pc = "sync" /\ pc' = "idle" /\ phase = "open" /\ phase' = "open" /\ files' = files
         /\ nextSeq' = nextSeq + 1 /\ writing' = NoWrite
         /\ Written \in Records /\ line' = Append(line, Written) /\ acked' = acked \cup {Written}
         /\ totalLen' = totalLen + writing.len /\ currentLen' = currentLen + writing.len
         /\ UNCHANGED <<disk, phase, current, scan, applied, sealed, env>>
<1>1. pc = "sync" /\ phase = "open" /\ nextSeq \in Nat /\ writing.draft \in Drafts
  BY CurrentType DEF Sync, SyncAs, Types, WriterOk, Indexes
<1>2. Written \in Records
  BY <1>1 DEF Written, Records
<1> QED
  BY <1>1, <1>2 DEF Sync, SyncAs, Written, disk

LEMMA TypesSync ==
  ASSUME Types, Sync
  PROVE  Types'
<1>1. FilesOk' /\ CorruptOk'
  BY SyncIs DEF Types, FilesOk, CorruptOk, disk
<1>2. NoWrite \in [draft : Drafts, len : FrameLens \cup {0}]
  BY FaultsAssumption DEF NoWrite, Drafts
<1>3. nextSeq + 1 \in Indexes /\ totalLen + writing.len \in Nat /\ currentLen + writing.len \in Nat
  <2>1. writing.len \in Nat
    BY CurrentType, SyncIs
  <2> QED
    BY <2>1 DEF Types, WriterOk, Indexes
<1>4. WriterOk'
  BY <1>2, <1>3, SyncIs DEF Types, WriterOk, env
<1>5. ScanOk'
  BY SyncIs DEF Types, ScanOk, scan
<1>6. OwnerOk'
  <2>1. line' \in Seq(Records) /\ acked' \subseteq Records
    BY SyncIs DEF Types, OwnerOk
  <2> QED
    BY <2>1, SyncIs DEF Types, OwnerOk, disk, env
<1> QED
  BY <1>1, <1>4, <1>5, <1>6 DEF Types

LEMMA SealIs ==
  ASSUME Types, Seal
  PROVE  /\ phase = "open" /\ pc = "idle" /\ line # <<>> /\ Len(line) \in Nat \ {0}
         /\ Head(line) = line[1] /\ line[1] \in Records /\ line[1].seq \in Nat
         /\ sealed' = sealed \cup {line[1].draft} /\ line[1].draft \in Drafts
         /\ applied' = (IF applied >= line[1].seq THEN applied ELSE line[1].seq)
         /\ line' \in Seq(Records) /\ Len(line') = Len(line) - 1
         /\ \A n \in 1..Len(line') : n + 1 \in 1..Len(line) /\ line'[n] = line[n + 1]
         /\ UNCHANGED <<disk, phase, writer, pc, writing, scan, acked, env>>
<1>1. line \in Seq(Records) /\ line # <<>> /\ applied \in Nat
  BY DEF Types, OwnerOk, Seal
<1>2. Len(line) \in Nat \ {0} /\ 1 \in 1..Len(line) /\ Head(line) = line[1]
  BY <1>1
<1>3. line[1] \in Records /\ line[1].seq \in Nat /\ line[1].draft \in Drafts
  BY <1>1, <1>2, RecordType
<1>4. applied' = (IF applied >= line[1].seq THEN applied ELSE line[1].seq)
  BY <1>1, <1>2, <1>3, MaxOfTwo DEF Seal
<1>5. Tail(line) \in Seq(Records) /\ Len(Tail(line)) = Len(line) - 1
      /\ \A n \in 1..Len(Tail(line)) : n + 1 \in 1..Len(line) /\ Tail(line)[n] = line[n + 1]
  BY <1>1
<1> QED
  BY <1>2, <1>3, <1>4, <1>5 DEF Seal

LEMMA TypesSeal ==
  ASSUME Types, Seal
  PROVE  Types'
<1>1. FilesOk' /\ CorruptOk'
  BY SealIs DEF Types, FilesOk, CorruptOk, disk
<1>2. WriterOk'
  BY SealIs DEF Types, WriterOk, writer, env, disk
<1>3. ScanOk'
  BY SealIs DEF Types, ScanOk, scan, disk
<1>4. OwnerOk'
  BY SealIs DEF Types, OwnerOk, env, disk
<1> QED
  BY <1>1, <1>2, <1>3, <1>4 DEF Types

(* The steps that change neither the disk's segments nor the writer.               *)
Quiet == Checkpoint \/ UNCHANGED vars \/ \E len \in FrameLens : AppendBusy(len)

LEMMA TypesOther ==
  ASSUME Types, Quiet
  PROVE  /\ Types'
         /\ UNCHANGED <<files, corrupt, phase, writer, pc, writing, scan, owner, faults>>
         /\ calls' \in {calls, calls + 1}
         /\ calls' = calls \/ pc = "idle"
         /\ ckpt' = ckpt \/ (phase = "open" /\ pc = "idle" /\ ckpt' = applied /\ applied > ckpt)
<1>1. /\ UNCHANGED <<files, corrupt, phase, writer, pc, writing, scan, owner, faults, fails, crashes>>
      /\ calls' = calls \/ (pc = "idle" /\ calls < MaxAppend /\ calls' = calls + 1)
      /\ ckpt' = ckpt \/ (phase = "open" /\ pc = "idle" /\ ckpt' = applied /\ applied > ckpt)
  BY DEF Quiet, Checkpoint, AppendBusy, Called, vars, disk, env
<1>2. FilesOk' /\ CorruptOk'
  BY <1>1 DEF Types, FilesOk, CorruptOk
<1>3. WriterOk'
  BY <1>1, FaultsAssumption DEF Types, WriterOk, writer
<1>4. ScanOk'
  BY <1>1 DEF Types, ScanOk, scan
<1>5. OwnerOk'
  BY <1>1 DEF Types, OwnerOk, owner
<1> QED
  BY <1>1, <1>2, <1>3, <1>4, <1>5 DEF Types

-----------------------------------------------------------------------------
(* What a segment adds to the report *)

LEMMA ReportGrows ==
  ASSUME Types, NEW i \in left
  PROVE  LET old == report.pending
             new == report.pending \o PendingIn(files[i])
             h == HighestSeq(RecordsOf(files[i]), report.last)
             f == files[i]
         IN  /\ Len(old) \in Nat /\ Len(new) \in Nat /\ Len(old) <= Len(new)
             /\ \A n \in 1..Len(new) :
                  \/ n \in 1..Len(old) /\ new[n] = old[n]
                  \/ /\ ~(n <= Len(old))
                     /\ \E k \in Nat : Readable(f, k) /\ new[n] = f.frames[k].rec
                                       /\ f.frames[k].rec.seq > ckpt
             /\ \A m, n \in 1..Len(new) : m < n /\ ~(m <= Len(old)) =>
                  \E k, l \in Nat : /\ Readable(f, k) /\ Readable(f, l) /\ k < l
                                    /\ new[m] = f.frames[k].rec /\ new[n] = f.frames[l].rec
             /\ ToSet(new) = ToSet(old) \cup ToSet(PendingIn(f))
             /\ h \in Nat /\ report.last <= h
             /\ \A k \in Nat : Readable(f, k) => f.frames[k].rec.seq <= h
             /\ h = report.last \/ \E k \in Nat : Readable(f, k) /\ h = f.frames[k].rec.seq
<1> DEFINE old == report.pending
           f == files[i]
           P == PendingIn(f)
           new == old \o P
           recs == RecordsOf(f)
           h == HighestSeq(recs, report.last)
<1>1. /\ f \in Files /\ ckpt \in Nat /\ report.last \in Nat /\ old \in Seq(Records)
      /\ recs \in Seq(Records) /\ P \in Seq(Records)
  BY SegmentRead
<1>2. /\ \A r : r \in ToSet(P) <=>
               \E k \in 1..Len(f.frames) : Readable(f, k) /\ f.frames[k].rec = r /\ r.seq > ckpt
      /\ \A p, q \in 1..Len(P) : p < q =>
               \E k, l \in 1..Len(f.frames) :
                  /\ Readable(f, k) /\ Readable(f, l) /\ k < l
                  /\ P[p] = f.frames[k].rec /\ P[q] = f.frames[l].rec
  BY <1>1, AboveAre DEF PendingIn
<1>3. /\ \A k \in 1..Len(recs) : Readable(f, k) /\ recs[k] = f.frames[k].rec
      /\ \A k \in 1..Len(f.frames) : Readable(f, k) => k \in 1..Len(recs)
  BY <1>1, RecordsAre
<1>4. /\ h \in Nat /\ report.last <= h
      /\ \A k \in 1..Len(recs) : recs[k].seq <= h
      /\ h = report.last \/ \E k \in 1..Len(recs) : h = recs[k].seq
  BY <1>1, HighestSeqIs
<1>5. \A k \in Nat : Readable(f, k) => k \in 1..Len(f.frames)
  BY DEF Readable
<1> HIDE DEF old, f, P, recs, h
<1>6. Len(old) \in Nat /\ Len(P) \in Nat /\ Len(new) = Len(old) + Len(P)
      /\ \A n \in 1..Len(new) : new[n] = IF n <= Len(old) THEN old[n] ELSE P[n - Len(old)]
  BY <1>1
<1>7. DOMAIN old = 1..Len(old) /\ DOMAIN P = 1..Len(P) /\ DOMAIN new = 1..Len(new)
  BY <1>1
<1> HIDE DEF new
<1>8. ASSUME NEW p \in 1..Len(P)
      PROVE  \E k \in Nat : Readable(f, k) /\ P[p] = f.frames[k].rec /\ f.frames[k].rec.seq > ckpt
  <2>1. P[p] \in ToSet(P)
    BY <1>7 DEF ToSet
  <2>2. PICK k \in 1..Len(f.frames) : Readable(f, k) /\ f.frames[k].rec = P[p] /\ P[p].seq > ckpt
    BY <1>2, <2>1
  <2> QED
    BY <2>2
<1>9. \A n \in 1..Len(new) :
        \/ n \in 1..Len(old) /\ new[n] = old[n]
        \/ /\ ~(n <= Len(old))
           /\ \E k \in Nat : Readable(f, k) /\ new[n] = f.frames[k].rec
                             /\ f.frames[k].rec.seq > ckpt
  <2>1. SUFFICES ASSUME NEW n \in 1..Len(new), ~(n <= Len(old))
                 PROVE  \E k \in Nat : Readable(f, k) /\ new[n] = f.frames[k].rec
                                       /\ f.frames[k].rec.seq > ckpt
    BY <1>6
  <2>2. n - Len(old) \in 1..Len(P) /\ new[n] = P[n - Len(old)]
    BY <1>6, <2>1
  <2> QED
    BY <1>8, <2>2
<1>10. \A m, n \in 1..Len(new) : m < n /\ ~(m <= Len(old)) =>
         \E k, l \in Nat : /\ Readable(f, k) /\ Readable(f, l) /\ k < l
                           /\ new[m] = f.frames[k].rec /\ new[n] = f.frames[l].rec
  <2>1. SUFFICES ASSUME NEW m \in 1..Len(new), NEW n \in 1..Len(new), m < n, ~(m <= Len(old))
                 PROVE  \E k, l \in Nat : /\ Readable(f, k) /\ Readable(f, l) /\ k < l
                                          /\ new[m] = f.frames[k].rec /\ new[n] = f.frames[l].rec
    OBVIOUS
  <2>2. /\ m - Len(old) \in 1..Len(P) /\ new[m] = P[m - Len(old)]
        /\ n - Len(old) \in 1..Len(P) /\ new[n] = P[n - Len(old)]
        /\ m - Len(old) < n - Len(old)
    BY <1>6, <2>1
  <2>3. PICK k, l \in 1..Len(f.frames) :
           /\ Readable(f, k) /\ Readable(f, l) /\ k < l
           /\ P[m - Len(old)] = f.frames[k].rec /\ P[n - Len(old)] = f.frames[l].rec
    BY <1>2, <2>2
  <2> QED
    BY <2>2, <2>3
<1>11. ToSet(new) = ToSet(old) \cup ToSet(P)
  <2>1. ASSUME NEW n \in 1..Len(new) PROVE new[n] \in ToSet(old) \cup ToSet(P)
    <3>1. CASE n <= Len(old)
      BY <1>6, <1>7, <3>1 DEF ToSet
    <3>2. CASE ~(n <= Len(old))
      <4>1. n - Len(old) \in 1..Len(P) /\ new[n] = P[n - Len(old)]
        BY <1>6, <3>2
      <4> QED
        BY <1>7, <4>1 DEF ToSet
    <3> QED
      BY <3>1, <3>2
  <2>2. ASSUME NEW n \in 1..Len(old) PROVE old[n] \in ToSet(new)
    <3>1. n \in 1..Len(new) /\ new[n] = old[n]
      BY <1>6
    <3> QED
      BY <1>7, <3>1 DEF ToSet
  <2>3. ASSUME NEW n \in 1..Len(P) PROVE P[n] \in ToSet(new)
    <3>1. n + Len(old) \in 1..Len(new) /\ new[n + Len(old)] = P[n]
      BY <1>6
    <3> QED
      BY <1>7, <3>1 DEF ToSet
  <2> QED
    BY <1>7, <2>1, <2>2, <2>3 DEF ToSet
<1>12. \A k \in Nat : Readable(f, k) => f.frames[k].rec.seq <= h
  BY <1>3, <1>4, <1>5
<1>13. h = report.last \/ \E k \in Nat : Readable(f, k) /\ h = f.frames[k].rec.seq
  BY <1>3, <1>4
<1>14. Len(new) \in Nat /\ Len(old) <= Len(new)
  BY <1>6
<1> QED
  BY <1>4, <1>6, <1>9, <1>10, <1>11, <1>12, <1>13, <1>14, Zenon DEF old, f, P, recs, h, new

-----------------------------------------------------------------------------
(* Numbers *)

LEMMA NumbersOpens ==
  ASSUME Types, Numbers, NEW i \in left, Opens(i)
  PROVE  Numbers'
<1>1. phase = "opening" /\ phase' = "opening" /\ ckpt' = ckpt
  BY OpensAre DEF Types, ScanOk
<1>2. CASE report' = report
  BY <1>1, <1>2 DEF Numbers
<1>3. CASE report' = [pending |-> report.pending \o PendingIn(files[i]),
                      last |-> HighestSeq(RecordsOf(files[i]), report.last)]
  <2> DEFINE new == report.pending \o PendingIn(files[i])
             h == HighestSeq(RecordsOf(files[i]), report.last)
  <2>1. report'.pending = new /\ report'.last = h
    BY <1>3
  <2>2. /\ h \in Nat /\ report.last <= h /\ report.last \in Nat
        /\ \A k \in Nat : Readable(files[i], k) => files[i].frames[k].rec.seq <= h
        /\ \A n \in 1..Len(new) :
             \/ n \in 1..Len(report.pending) /\ new[n] = report.pending[n]
             \/ \E k \in Nat : Readable(files[i], k) /\ new[n] = files[i].frames[k].rec
                               /\ files[i].frames[k].rec.seq > ckpt
    BY ReportGrows, SegmentRead
  <2>3. ASSUME NEW n \in 1..Len(report.pending)
        PROVE  report.pending[n].seq \in Nat /\ ckpt < report.pending[n].seq
               /\ report.pending[n].seq <= report.last
    BY <1>1, SegmentRead, RecordType DEF Numbers
  <2> HIDE DEF new, h
  <2>4. \A n \in 1..Len(new) : ckpt < new[n].seq /\ new[n].seq <= h
    <3>1. SUFFICES ASSUME NEW n \in 1..Len(new) PROVE ckpt < new[n].seq /\ new[n].seq <= h
      OBVIOUS
    <3>2. CASE n \in 1..Len(report.pending) /\ new[n] = report.pending[n]
      BY <2>2, <2>3, <3>2
    <3>3. ASSUME NEW k \in Nat, Readable(files[i], k), new[n] = files[i].frames[k].rec,
                 files[i].frames[k].rec.seq > ckpt
          PROVE  ckpt < new[n].seq /\ new[n].seq <= h
      <4>1. files[i].frames[k].rec.seq <= h
        BY <2>2, <3>3
      <4>2. files[i].frames[k].rec.seq \in Nat /\ ckpt \in Nat
        BY <3>3, SegmentRead, FrameType DEF Readable
      <4> QED
        BY <3>3, <4>1, <4>2
    <3> QED
      BY <2>2, <3>2, <3>3
  <2> QED
    BY <1>1, <2>1, <2>4 DEF Numbers
<1> QED
  BY <1>2, <1>3, OpensAre

LEMMA NumbersOpenDone ==
  ASSUME Types, Numbers, OpenDone, SortedBySeq(report.pending) = report.pending
  PROVE  Numbers'
<1>1. /\ phase = "opening" /\ phase' = "open" /\ line' = report.pending
      /\ ckpt' = ckpt /\ applied' = ckpt
  BY DEF OpenDone, Opened, disk
<1>2. ckpt \in Nat /\ report.last \in Nat /\ report.pending \in Seq(Records)
  BY DEF Types, ScanOk, OwnerOk
<1>3. ckpt < nextSeq' /\ report.last < nextSeq'
  BY <1>2, OpenDoneIs
<1>4. ASSUME NEW n \in 1..Len(report.pending) PROVE report.pending[n].seq < nextSeq'
  <2>1. report.pending[n].seq \in Nat /\ report.pending[n].seq <= report.last
    BY <1>1, <1>2, RecordType DEF Numbers
  <2> QED
    BY <1>2, <1>3, <2>1, OpenDoneIs DEF Indexes
<1> QED
  BY <1>1, <1>2, <1>3, <1>4 DEF Numbers

LEMMA NumbersSync ==
  ASSUME Types, Numbers, Sync
  PROVE  Numbers'
<1>1. /\ phase = "open" /\ phase' = "open" /\ nextSeq' = nextSeq + 1 /\ ckpt' = ckpt
      /\ applied' = applied /\ line' = Append(line, Written)
  BY SyncIs DEF disk
<1>2. nextSeq \in Nat /\ ckpt \in Nat /\ applied \in Nat /\ line \in Seq(Records)
  BY DEF Types, WriterOk, OwnerOk, Indexes
<1>3. ASSUME NEW n \in 1..Len(line') PROVE line'[n].seq < nextSeq + 1
  <2>1. CASE n \in 1..Len(line)
    <3>1. line'[n] = line[n]
      BY <1>1, <1>2, <2>1
    <3>2. line[n].seq \in Nat /\ line[n].seq < nextSeq
      BY <1>1, <1>2, <2>1, RecordType DEF Numbers
    <3> QED
      BY <1>2, <3>1, <3>2
  <2>2. CASE n = Len(line) + 1
    BY <1>1, <1>2, <2>2 DEF Written
  <2> QED
    BY <1>1, <1>2, <2>1, <2>2
<1> QED
  BY <1>1, <1>2, <1>3 DEF Numbers

LEMMA NumbersSeal ==
  ASSUME Types, Numbers, Seal
  PROVE  Numbers'
<1>1. /\ phase = "open" /\ phase' = "open" /\ nextSeq' = nextSeq /\ ckpt' = ckpt
      /\ nextSeq \in Nat /\ ckpt \in Nat /\ applied \in Nat /\ line \in Seq(Records)
  BY SealIs DEF disk, writer, Types, WriterOk, OwnerOk, Indexes
<1>2. line[1].seq < nextSeq
  BY <1>1, SealIs DEF Numbers
<1>3. \A n \in 1..Len(line') : line'[n].seq < nextSeq
  BY <1>1, SealIs DEF Numbers
<1>4. ckpt <= applied' /\ applied' < nextSeq
  BY <1>1, <1>2, SealIs DEF Numbers
<1> QED
  BY <1>1, <1>3, <1>4 DEF Numbers

LEMMA NumbersOther ==
  ASSUME Types, Numbers, Quiet
  PROVE  Numbers'
<1>0. /\ UNCHANGED <<files, corrupt, phase, writer, pc, writing, scan, owner, faults>>
      /\ ckpt' = ckpt \/ (phase = "open" /\ pc = "idle" /\ ckpt' = applied /\ applied > ckpt)
  BY TypesOther
<1>1. /\ UNCHANGED <<phase, nextSeq, line, report, applied>>
      /\ ckpt' = ckpt \/ (phase = "open" /\ ckpt' = applied /\ applied > ckpt)
  BY <1>0 DEF writer, scan, owner
<1>2. applied \in Nat
  BY DEF Types, OwnerOk
<1> QED
  BY <1>1, <1>2 DEF Numbers, Types, ScanOk

(* A step that leaves the numbers alone, or that ends the writer.                  *)
LEMMA NumbersSame ==
  ASSUME Types, Numbers,
         \/ UNCHANGED <<phase, nextSeq, line, report, applied, ckpt>>
         \/ phase' = "down"
         \/ phase' = "opening" /\ report' = NoReport
  PROVE  Numbers'
BY DEF Numbers, NoReport

-----------------------------------------------------------------------------
(* Order *)

(* No file holds a whole frame it did not hold before.                             *)
NothingNew ==
  \A i \in DOMAIN files' : \A k \in Nat :
     Whole(files'[i], k) => /\ i \in DOMAIN files /\ Whole(files[i], k)
                            /\ files'[i].frames[k].rec = files[i].frames[k].rec

LEMMA InLineKept ==
  ASSUME InLine, faults' = faults, NothingNew
  PROVE  InLine'
<1>1. SUFFICES ASSUME NEW i \in DOMAIN files', NEW j \in DOMAIN files', NEW k \in Nat, NEW l \in Nat,
                      Whole(files'[i], k), Whole(files'[j], l), i < j \/ (i = j /\ k < l)
               PROVE  Before(files'[i].frames[k].rec, files'[j].frames[l].rec, Clean')
  BY DEF InLine
<1>2. Before(files[i].frames[k].rec, files[j].frames[l].rec, Clean)
  BY <1>1 DEF InLine, NothingNew
<1>3. /\ files'[i].frames[k].rec = files[i].frames[k].rec
      /\ files'[j].frames[l].rec = files[j].frames[l].rec
  BY <1>1 DEF NothingNew
<1> QED
  BY <1>2, <1>3 DEF Clean

(* Any file that has changed at one place only and keeps what was whole.           *)
LEMMA OneKept ==
  ASSUME Types, NEW i, NEW g,
         DOMAIN files' = DOMAIN files, \A j \in DOMAIN files \ {i} : files'[j] = files[j],
         i \in DOMAIN files => files'[i] = g /\ Keeps(files[i], g)
  PROVE  NothingNew
<1>1. SUFFICES ASSUME NEW j \in DOMAIN files, NEW k \in Nat, Whole(files'[j], k)
               PROVE  Whole(files[j], k) /\ files'[j].frames[k].rec = files[j].frames[k].rec
  BY DEF NothingNew
<1>2. CASE j = i
  BY <1>1, <1>2 DEF Keeps
<1>3. CASE j # i
  BY <1>1, <1>3
<1> QED
  BY <1>2, <1>3

LEMMA OpensKeep ==
  ASSUME Types, NEW i \in left, Opens(i)
  PROVE  /\ NothingNew /\ DOMAIN files' \subseteq DOMAIN files
         /\ \A j \in DOMAIN files' \ {i} : files'[j] = files[j]
         /\ DOMAIN files \ {i} \subseteq DOMAIN files'
<1>1. CASE files' = [files EXCEPT ![i] = Truncated(files[i])]
  <2>1. /\ DOMAIN files' = DOMAIN files /\ \A j \in DOMAIN files \ {i} : files'[j] = files[j]
        /\ i \in DOMAIN files => files'[i] = Truncated(files[i])
    BY <1>1
  <2>2. Keeps(files[i], Truncated(files[i]))
    BY SegmentRead, TruncatedIs
  <2> QED
    BY <2>1, <2>2, OneKept
<1>2. CASE files' = Without(i)
  <2>1. DOMAIN files' = DOMAIN files \ {i} /\ \A j \in DOMAIN files \ {i} : files'[j] = files[j]
    BY <1>2, WithoutIs
  <2> QED
    BY <2>1 DEF NothingNew
<1>3. CASE files' = files
  BY <1>3 DEF NothingNew
<1> QED
  BY <1>1, <1>2, <1>3, OpensAre

(* A record of the disk stays known when nothing new is written.                   *)
LEMMA OrderedKept ==
  ASSUME Types, Ordered, faults' = faults, NothingNew,
         \A i \in DOMAIN files' : phase' = "open" => i <= current',
         \A i \in DOMAIN files : \A k \in Nat : \A r :
            Whole(files[i], k) /\ r = files[i].frames[k].rec => Known(r)'
  PROVE  Ordered'
<1>1. InLine'
  BY InLineKept DEF Ordered
<1>2. ASSUME NEW i \in DOMAIN files', NEW k \in Nat, Whole(files'[i], k)
      PROVE  Known(files[i].frames[k].rec)'
  <2>1. PICK r : r = files[i].frames[k].rec
    OBVIOUS
  <2>2. Known(r)' /\ files'[i].frames[k].rec = r
    BY <1>2, <2>1 DEF NothingNew
  <2> QED
    BY <2>2 DEF Known
<1> QED
  BY <1>1, <1>2 DEF Ordered

LEMMA RecType ==
  ASSUME Types, NEW i \in DOMAIN files, NEW k \in Nat, Whole(files[i], k)
  PROVE  /\ files[i].frames[k].rec.seq \in Nat /\ files[i].frames[k].rec.draft \in Nat
         /\ files[i] \in Files /\ k \in 1..Len(files[i].frames)
<1>1. files[i] \in Files /\ k \in 1..Len(files[i].frames)
  BY DEF Types, FilesOk, Whole
<1> QED
  BY <1>1, FrameType, FaultsAssumption DEF Drafts
(* A record that is on the disk is known.                                           *)
LEMMA KnownNow ==
  ASSUME Types, Ordered, NEW i \in DOMAIN files, NEW k \in Nat, NEW r,
         Whole(files[i], k) /\ r = files[i].frames[k].rec
  PROVE  /\ r.seq \in Nat /\ r.draft \in Nat /\ r.draft <= calls /\ calls \in Nat
         /\ pc \in {"header", "frame"} => r.draft < calls
         /\ phase = "open" => r.seq <= nextSeq /\ (Clean /\ pc # "sync" => r.seq < nextSeq)
         /\ nextSeq \in Nat
<1>1. Known(r)
  BY DEF Ordered, Known
<1>2. calls \in Nat /\ nextSeq \in Nat
  BY DEF Types, WriterOk, Indexes
<1> QED
  BY <1>1, <1>2, RecType DEF Known

LEMMA OrderedOpens ==
  ASSUME Types, Ordered, NEW i \in left, Opens(i)
  PROVE  Ordered'
<1>1. /\ phase' = "opening" /\ pc' = "idle" /\ calls' = calls /\ faults' = faults
  BY OpensAre DEF Types, ScanOk, WriterOk, env
<1>2. ASSUME NEW j \in DOMAIN files, NEW k \in Nat, NEW r,
             Whole(files[j], k) /\ r = files[j].frames[k].rec
      PROVE  Known(r)'
  BY <1>1, <1>2, KnownNow DEF Known
<1> QED
  BY <1>1, <1>2, OpensKeep, OrderedKept

LEMMA FilesSame ==
  ASSUME files' = files
  PROVE  NothingNew
BY DEF NothingNew

LEMMA OrderedOpenBegin ==
  ASSUME Types, Ordered, OpenBegin
  PROVE  Ordered'
<1>1. /\ phase' = "opening" /\ pc' = "idle" /\ calls' = calls /\ faults' = faults /\ files' = files
  BY DEF OpenBegin, Types, ScanOk, WriterOk, env, disk
<1>2. ASSUME NEW j \in DOMAIN files, NEW k \in Nat, NEW r,
             Whole(files[j], k) /\ r = files[j].frames[k].rec
      PROVE  Known(r)'
  BY <1>1, <1>2, KnownNow DEF Known
<1> QED
  BY <1>1, <1>2, FilesSame, OrderedKept

LEMMA OrderedOpenDone ==
  ASSUME Types, Ordered, Scanned, OpenDone
  PROVE  Ordered'
<1>1. /\ phase = "opening" /\ left = {} /\ pc' = pc /\ pc = "idle" /\ calls' = calls
      /\ faults' = faults /\ files' = files
  BY DEF OpenDone, Opened, Types, WriterOk, env, disk
<1>2. report.last \in Nat /\ ckpt \in Nat /\ report.last < nextSeq' /\ nextSeq' \in Nat
  BY OpenDoneIs DEF Types, ScanOk, OwnerOk
<1>3. \A j \in DOMAIN files : j <= current'
  <2>1. SUFFICES ASSUME NEW j \in DOMAIN files PROVE j <= current'
    OBVIOUS
  <2>2. j <= lastIndex /\ j \in Nat /\ lastIndex \in Nat
    BY <1>1 DEF Scanned, Types, FilesOk, ScanOk, Indexes
  <2>3. lastIndex <= current' /\ current' \in Nat
    BY OpenDoneIs DEF Indexes
  <2> QED
    BY <2>2, <2>3
<1>4. ASSUME NEW j \in DOMAIN files, NEW k \in Nat, NEW r,
             Whole(files[j], k) /\ r = files[j].frames[k].rec
      PROVE  Known(r)'
  <2>1. r.seq \in Nat /\ r.draft \in Nat /\ r.draft <= calls
    BY <1>4, KnownNow
  <2>2. r.seq <= report.last
    BY <1>1, <1>4 DEF Scanned, Whole
  <2> QED
    BY <1>1, <1>2, <2>1, <2>2 DEF Known
<1> QED
  BY <1>1, <1>3, <1>4, FilesSame, OrderedKept

LEMMA OrderedAppendBegin ==
  ASSUME Types, Ordered, NEW len \in FrameLens, AppendBegin(len)
  PROVE  Ordered'
<1>1. /\ phase = "open" /\ pc = "idle" /\ calls' = calls + 1 /\ calls \in Nat
      /\ current' \in Nat /\ current \in Nat /\ current <= current'
      /\ DOMAIN files' = DOMAIN files \cup {current'}
      /\ \A j \in DOMAIN files : files'[j] = files[j]
      /\ files'[current'] = FileAt(current')
      /\ phase' = phase /\ nextSeq' = nextSeq /\ faults' = faults
  <2>1. current' = (IF currentLen >= SegmentMax THEN current + 1 ELSE current) /\ current \in Nat
    BY AppendBeginIs DEF Types, WriterOk, Indexes
  <2> QED
    BY <2>1, AppendBeginIs DEF AppendBegin, Types, WriterOk, Indexes
<1>2. NothingNew
  <2>1. SUFFICES ASSUME NEW j \in DOMAIN files', NEW k \in Nat, Whole(files'[j], k)
                 PROVE  /\ j \in DOMAIN files /\ Whole(files[j], k)
                        /\ files'[j].frames[k].rec = files[j].frames[k].rec
    BY DEF NothingNew
  <2>2. CASE j \in DOMAIN files
    BY <1>1, <2>1, <2>2
  <2>3. CASE j \notin DOMAIN files
    <3>1. files'[j] = NoFile
      BY <1>1, <2>1, <2>3 DEF FileAt
    <3> QED
      BY <2>1, <3>1, NoFileIs
  <2> QED
    BY <2>2, <2>3
<1>3. \A j \in DOMAIN files' : j <= current'
  <2>1. SUFFICES ASSUME NEW j \in DOMAIN files PROVE j <= current'
    BY <1>1
  <2>2. j <= current /\ j \in Nat
    BY <1>1 DEF Ordered, Types, FilesOk, Indexes
  <2> QED
    BY <1>1, <2>2
<1>4. ASSUME NEW j \in DOMAIN files, NEW k \in Nat, NEW r,
             Whole(files[j], k) /\ r = files[j].frames[k].rec
      PROVE  Known(r)'
  BY <1>1, <1>4, KnownNow DEF Known, Clean
<1> QED
  BY <1>1, <1>2, <1>3, <1>4, OrderedKept

LEMMA OrderedWriteHeader ==
  ASSUME Types, Ordered, WriteHeader
  PROVE  Ordered'
<1>1. PICK g \in Files : Keeps(files[current], g) /\ files' = [files EXCEPT ![current] = g]
  BY TypesWriteHeader
<1>2. /\ pc = "header" /\ pc' = "frame"
      /\ UNCHANGED <<phase, current, nextSeq, calls, faults>>
  BY DEF WriteHeader, env
<1>3. /\ DOMAIN files' = DOMAIN files
      /\ \A j \in DOMAIN files \ {current} : files'[j] = files[j]
      /\ current \in DOMAIN files => files'[current] = g
  BY <1>1, FilesWritten
<1>4. NothingNew
  BY <1>1, <1>3, OneKept
<1>5. ASSUME NEW j \in DOMAIN files, NEW k \in Nat, NEW r,
             Whole(files[j], k) /\ r = files[j].frames[k].rec
      PROVE  Known(r)'
  BY <1>2, <1>5, KnownNow DEF Known, Clean
<1>6. \A j \in DOMAIN files' : phase' = "open" => j <= current'
  BY <1>2, <1>3 DEF Ordered
<1> QED
  BY <1>2, <1>4, <1>5, <1>6, OrderedKept

(* A frame that was written whole: every whole frame is an old one, or this one.     *)
LEMMA FrameIsLast ==
  ASSUME Types, WriteFrame
  PROVE  LET last == Len(files[current].frames) + 1
         IN  /\ last \in Nat \ {0} /\ current \in DOMAIN files /\ DOMAIN files' = DOMAIN files
             /\ \A j \in DOMAIN files : \A k \in Nat : Whole(files'[j], k) =>
                  \/ /\ Whole(files[j], k) /\ files'[j].frames[k].rec = files[j].frames[k].rec
                     /\ j = current => k < last
                  \/ j = current /\ k = last /\ files'[j].frames[k].rec = Written
<1> DEFINE f == files[current]
           g == WithFrame(f, TRUE)
           last == Len(f.frames) + 1
<1>1. pc = "frame" /\ files' = [files EXCEPT ![current] = g]
  BY TypesWriteFrame
<1>2. current \in DOMAIN files /\ f \in Files
  BY <1>1, CurrentType
<1>3. /\ g \in Files /\ last \in Nat \ {0}
      /\ g.frames[last].rec = Written
      /\ \A k \in Nat : Whole(g, k) => (Whole(f, k) /\ g.frames[k] = f.frames[k]) \/ k = last
  BY <1>1, <1>2, WithFrameAre DEF Written
<1>4. Len(f.frames) \in Nat
  BY <1>2 DEF Files
<1> HIDE DEF g
<1>5. /\ DOMAIN files' = DOMAIN files /\ files'[current] = g
      /\ \A j \in DOMAIN files \ {current} : files'[j] = files[j]
  BY <1>1, <1>2, <1>3, FilesWritten
<1>6. \A k \in Nat : Whole(f, k) => k < last
  BY <1>4 DEF Whole
<1> HIDE DEF f
<1>7. ASSUME NEW j \in DOMAIN files, NEW k \in Nat, Whole(files'[j], k)
      PROVE  \/ /\ Whole(files[j], k) /\ files'[j].frames[k].rec = files[j].frames[k].rec
                /\ j = current => k < last
             \/ j = current /\ k = last /\ files'[j].frames[k].rec = Written
  <2>1. CASE j # current
    BY <1>5, <1>7, <2>1
  <2>2. CASE j = current
    <3>1. Whole(g, k) /\ files'[j] = g /\ files[j] = f
      BY <1>5, <1>7, <2>2 DEF f
    <3> QED
      BY <1>3, <1>6, <2>2, <3>1
  <2> QED
    BY <2>1, <2>2
<1> QED
  BY <1>2, <1>3, <1>5, <1>7 DEF f

LEMMA OrderedWriteFrame ==
  ASSUME Types, Ordered, WriteFrame
  PROVE  Ordered'
<1> DEFINE last == Len(files[current].frames) + 1
<1>1. /\ pc = "frame" /\ pc' = "sync" /\ phase = "open"
      /\ UNCHANGED <<phase, current, nextSeq, calls, faults>>
      /\ writing.draft = calls /\ calls \in Nat /\ nextSeq \in Nat /\ current \in Nat
  BY CurrentType DEF WriteFrame, writer, env, Types, WriterOk, Indexes
<1>2. /\ last \in Nat \ {0} /\ current \in DOMAIN files /\ DOMAIN files' = DOMAIN files
      /\ \A j \in DOMAIN files : \A k \in Nat : Whole(files'[j], k) =>
           \/ /\ Whole(files[j], k) /\ files'[j].frames[k].rec = files[j].frames[k].rec
              /\ j = current => k < last
           \/ j = current /\ k = last /\ files'[j].frames[k].rec = Written
  BY FrameIsLast
<1> HIDE DEF last
<1>3. Written.seq = nextSeq /\ Written.draft = calls
  BY <1>1 DEF Written
<1>4. ASSUME NEW j \in DOMAIN files, NEW k \in Nat, NEW r,
             Whole(files[j], k) /\ r = files[j].frames[k].rec
      PROVE  /\ r.seq \in Nat /\ r.draft \in Nat /\ r.draft < calls /\ r.seq <= nextSeq
             /\ Clean => r.seq < nextSeq
             /\ j <= current
  BY <1>1, <1>4, KnownNow DEF Ordered
<1>5. InLine'
  <2>1. SUFFICES ASSUME NEW i \in DOMAIN files, NEW j \in DOMAIN files, NEW k \in Nat, NEW l \in Nat,
                        Whole(files'[i], k), Whole(files'[j], l), i < j \/ (i = j /\ k < l)
                 PROVE  Before(files'[i].frames[k].rec, files'[j].frames[l].rec, Clean')
    BY <1>2 DEF InLine
  <2>2. i \in Nat /\ j \in Nat
    BY DEF Types, FilesOk, Indexes
  <2>3. CASE i = current /\ k = last
    <3>1. ~(j = current /\ l = last)
      BY <1>2, <2>1, <2>2, <2>3
    <3>2. Whole(files[j], l) /\ (j = current => l < last)
      BY <1>2, <2>1, <3>1
    <3>3. j <= current
      BY <3>2, <1>4
    <3> QED
      BY <1>1, <1>2, <2>1, <2>2, <2>3, <3>2, <3>3
  <2>4. CASE ~(i = current /\ k = last)
    <3>1. Whole(files[i], k) /\ files'[i].frames[k].rec = files[i].frames[k].rec
      BY <1>2, <2>1, <2>4
    <3>2. CASE Whole(files[j], l) /\ files'[j].frames[l].rec = files[j].frames[l].rec
      <4>1. Before(files[i].frames[k].rec, files[j].frames[l].rec, Clean)
        BY <2>1, <3>1, <3>2 DEF Ordered, InLine
      <4> QED
        BY <1>1, <3>1, <3>2, <4>1 DEF Clean
    <3>3. CASE files'[j].frames[l].rec = Written
      <4>1. PICK r : r = files[i].frames[k].rec
        OBVIOUS
      <4>2. r.draft < calls /\ r.seq <= nextSeq /\ (Clean => r.seq < nextSeq)
        BY <1>4, <3>1, <4>1
      <4>3. Before(r, Written, Clean')
        BY <1>1, <1>3, <4>2 DEF Before, Clean
      <4> QED
        BY <3>1, <3>3, <4>1, <4>3
    <3> QED
      BY <1>2, <2>1, <3>2, <3>3
  <2> QED
    BY <2>3, <2>4
<1>6. ASSUME NEW j \in DOMAIN files', NEW k \in Nat, Whole(files'[j], k)
      PROVE  Known(files[j].frames[k].rec)'
  <2>1. PICK r : r = files'[j].frames[k].rec
    OBVIOUS
  <2>2. CASE Whole(files[j], k) /\ files'[j].frames[k].rec = files[j].frames[k].rec
    <3>1. /\ r.seq \in Nat /\ r.draft \in Nat /\ r.draft < calls /\ r.seq <= nextSeq
      BY <1>2, <1>4, <1>6, <2>1, <2>2
    <3>2. Known(r)'
      BY <1>1, <3>1 DEF Known
    <3> QED
      BY <2>1, <3>2 DEF Known
  <2>3. CASE files'[j].frames[k].rec = Written
    <3>1. r.seq = nextSeq /\ r.draft = calls
      BY <1>3, <2>1, <2>3
    <3>2. Known(r)'
      BY <1>1, <3>1 DEF Known
    <3> QED
      BY <2>1, <3>2 DEF Known
  <2> QED
    BY <1>2, <1>6, <2>2, <2>3
<1>7. \A j \in DOMAIN files' : phase' = "open" => j <= current'
  BY <1>1, <1>2 DEF Ordered
<1> QED
  BY <1>5, <1>6, <1>7 DEF Ordered

LEMMA OrderedSync ==
  ASSUME Types, Ordered, Sync
  PROVE  Ordered'
<1>1. /\ phase = "open" /\ phase' = "open" /\ pc' = "idle" /\ files' = files
      /\ nextSeq' = nextSeq + 1 /\ current' = current /\ calls' = calls /\ faults' = faults
  BY SyncIs DEF env
<1>2. ASSUME NEW j \in DOMAIN files, NEW k \in Nat, NEW r,
             Whole(files[j], k) /\ r = files[j].frames[k].rec
      PROVE  Known(r)'
  BY <1>1, <1>2, KnownNow DEF Known, Clean
<1>3. \A j \in DOMAIN files' : phase' = "open" => j <= current'
  BY <1>1 DEF Ordered
<1> QED
  BY <1>1, <1>2, <1>3, FilesSame, OrderedKept

(* On a clean disk a write that fails has changed nothing, and no fsync fails.        *)
LEMMA CleanFails ==
  ASSUME Types, HeaderFails \/ FrameFails \/ SyncFails, Clean
  PROVE  /\ pc \in {"header", "frame"} /\ DOMAIN files' = DOMAIN files
         /\ \A j \in DOMAIN files : files'[j] = files[j]
<1>1. pc \in {"header", "frame"} /\ Refused(files[current], "no_write")
  BY DEF HeaderFails, FrameFails, SyncFails, Refused, Clean
<1>2. files' = [files EXCEPT ![current] = files[current]]
  BY <1>1 DEF Refused
<1> QED
  BY <1>1, <1>2

LEMMA OrderedFails ==
  ASSUME Types, Ordered, HeaderFails \/ FrameFails \/ SyncFails
  PROVE  Ordered'
<1>1. PICK g \in Files : Keeps(files[current], g) /\ files' = [files EXCEPT ![current] = g]
  BY FailsAre
<1>2. /\ pc # "idle" /\ pc' = "idle"
      /\ UNCHANGED <<phase, current, nextSeq, calls, faults>>
  BY FailsAre DEF writer
<1>3. /\ DOMAIN files' = DOMAIN files
      /\ \A j \in DOMAIN files \ {current} : files'[j] = files[j]
      /\ current \in DOMAIN files => files'[current] = g
  BY <1>1, FilesWritten
<1>4. NothingNew
  BY <1>1, <1>3, OneKept
<1>5. ASSUME NEW j \in DOMAIN files, NEW k \in Nat, NEW r,
             Whole(files[j], k) /\ r = files[j].frames[k].rec
      PROVE  Known(r)'
  <2>1. Clean => pc # "sync"
    BY CleanFails
  <2> QED
    BY <1>2, <1>5, <2>1, KnownNow DEF Known, Clean
<1>6. \A j \in DOMAIN files' : phase' = "open" => j <= current'
  BY <1>2, <1>3 DEF Ordered
<1> QED
  BY <1>2, <1>4, <1>5, <1>6, OrderedKept

LEMMA OrderedSeal ==
  ASSUME Types, Ordered, Seal
  PROVE  Ordered'
<1>1. UNCHANGED <<phase, current, nextSeq, calls, faults, pc, files>>
  BY SealIs DEF writer, env, disk
<1>2. ASSUME NEW j \in DOMAIN files, NEW k \in Nat, NEW r,
             Whole(files[j], k) /\ r = files[j].frames[k].rec
      PROVE  Known(r)'
  BY <1>1, <1>2, KnownNow DEF Known, Clean
<1>3. \A j \in DOMAIN files' : phase' = "open" => j <= current'
  BY <1>1 DEF Ordered
<1> QED
  BY <1>1, <1>2, <1>3, FilesSame, OrderedKept

LEMMA OrderedOther ==
  ASSUME Types, Ordered, Quiet
  PROVE  Ordered'
<1>1. /\ UNCHANGED <<phase, current, nextSeq, faults, pc, files>>
      /\ calls' = calls \/ (pc = "idle" /\ calls' = calls + 1)
  BY TypesOther DEF writer
<1>2. ASSUME NEW j \in DOMAIN files, NEW k \in Nat, NEW r,
             Whole(files[j], k) /\ r = files[j].frames[k].rec
      PROVE  Known(r)'
  BY <1>1, <1>2, KnownNow DEF Known, Clean
<1>3. \A j \in DOMAIN files' : phase' = "open" => j <= current'
  BY <1>1 DEF Ordered
<1> QED
  BY <1>1, <1>2, <1>3, FilesSame, OrderedKept

LEMMA OrderedCrash ==
  ASSUME Types, Ordered, Crash
  PROVE  Ordered'
<1>1. phase' = "down" /\ pc' = "idle" /\ calls' = calls /\ faults' = faults
  BY DEF Crash
<1>2. NothingNew
  <2>1. CASE files' = files
    BY <2>1, FilesSame
  <2>2. ASSUME NEW g \in Files, Keeps(files[current], g), files' = [files EXCEPT ![current] = g]
        PROVE  NothingNew
    <3>1. /\ DOMAIN files' = DOMAIN files
          /\ \A j \in DOMAIN files \ {current} : files'[j] = files[j]
          /\ current \in DOMAIN files => files'[current] = g
      BY <2>2, FilesWritten
    <3> QED
      BY <2>2, <3>1, OneKept
  <2> QED
    BY <2>1, <2>2, CrashIs
<1>3. ASSUME NEW j \in DOMAIN files, NEW k \in Nat, NEW r,
             Whole(files[j], k) /\ r = files[j].frames[k].rec
      PROVE  Known(r)'
  BY <1>1, <1>3, KnownNow DEF Known
<1> QED
  BY <1>1, <1>2, <1>3, OrderedKept

-----------------------------------------------------------------------------
(* What an open has read *)

(* A segment that open keeps is sound, and one it does not report holds nothing.    *)
LEMMA OpensMore ==
  ASSUME Types, NEW i \in left, Opens(i)
  PROVE  /\ \/ report' = [pending |-> report.pending \o PendingIn(files[i]),
                          last |-> HighestSeq(RecordsOf(files[i]), report.last)]
            \/ /\ report' = report /\ files[i].head = "bad"
               /\ i \notin DOMAIN files'
         /\ i \in DOMAIN files' =>
              /\ files'[i] \in Files /\ Sound(files'[i]) /\ SameRead(files[i], files'[i])
              /\ files'[i].head # "ok" => files'[i].frames = <<>>
<1> DEFINE new == [pending |-> report.pending \o PendingIn(files[i]),
                   last |-> HighestSeq(RecordsOf(files[i]), report.last)]
           f == files[i]
<1>1. f \in Files
  BY SegmentRead
<1>2. CASE OpenTruncate(i)
  <2>1. report' = new /\ files' = [files EXCEPT ![i] = Truncated(f)]
    BY <1>2 DEF OpenTruncate, Collect, Truncated
  <2>2. i \in DOMAIN files' => files'[i] = Truncated(f)
    BY <2>1
  <2> QED
    BY <1>1, <2>1, <2>2, TruncatedIs
<1>3. CASE OpenQuarantineTorn(i)
  <2>1. report' = new /\ files' = Without(i)
    BY <1>3 DEF OpenQuarantineTorn, Quarantine, Collect
  <2> QED
    BY <2>1, WithoutIs
<1>4. CASE OpenQuarantineUnreadable(i)
  <2>1. report' = report /\ files' = Without(i) /\ f.head = "bad"
    BY <1>4 DEF OpenQuarantineUnreadable, Quarantine, Unreadable
  <2> QED
    BY <2>1, WithoutIs
<1>5. CASE OpenRemove(i)
  <2>1. report' = new /\ files' = Without(i)
    BY <1>5 DEF OpenRemove, Collect
  <2> QED
    BY <2>1, WithoutIs
<1>6. CASE OpenKeep(i)
  <2>1. report' = new /\ files' = files /\ ~Unreadable(f) /\ ~Torn(f)
    BY <1>6 DEF OpenKeep, Collect, Intact
  <2>2. f.head = "ok" /\ \A k \in 1..Len(f.frames) : f.frames[k].whole
    BY <1>1, <2>1, TornIs DEF Unreadable
  <2>3. Sound(f) /\ SameRead(f, f)
    BY <2>2 DEF Sound, SameRead
  <2> QED
    BY <1>1, <2>1, <2>2, <2>3
<1> QED
  BY <1>2, <1>3, <1>4, <1>5, <1>6 DEF Opens

(* What is read is whole. *)
LEMMA ReadableWhole ==
  ASSUME NEW f, NEW k \in Nat, Readable(f, k)
  PROVE  Whole(f, k) /\ k \in 1..Len(f.frames)
BY DEF Readable, Whole

(* The same records are read from both. *)
LEMMA SameReadAre ==
  ASSUME NEW f, NEW g, SameRead(f, g), NEW k \in Nat
  PROVE  /\ Readable(f, k) <=> Readable(g, k)
         /\ Readable(f, k) => g.frames[k].rec = f.frames[k].rec
BY DEF SameRead

(* What can be read can be reported.                                                 *)
LEMMA SamePending ==
  ASSUME NEW f \in Files, NEW g \in Files, SameRead(f, g), NEW n \in Nat
  PROVE  ToSet(Above(RecordsOf(g), n)) = ToSet(Above(RecordsOf(f), n))
<1>1. ASSUME NEW r, r \in ToSet(Above(RecordsOf(f), n)) PROVE r \in ToSet(Above(RecordsOf(g), n))
  <2>1. PICK k \in 1..Len(f.frames) : Readable(f, k) /\ f.frames[k].rec = r /\ r.seq > n
    BY <1>1, AboveAre
  <2>2. k \in Nat
    OBVIOUS
  <2>3. Readable(g, k) /\ g.frames[k].rec = r
    BY <2>1, <2>2, SameReadAre
  <2>4. k \in 1..Len(g.frames)
    BY <2>2, <2>3, ReadableWhole
  <2> QED
    BY <2>1, <2>3, <2>4, AboveAre
<1>2. ASSUME NEW r, r \in ToSet(Above(RecordsOf(g), n)) PROVE r \in ToSet(Above(RecordsOf(f), n))
  <2>1. PICK k \in 1..Len(g.frames) : Readable(g, k) /\ g.frames[k].rec = r /\ r.seq > n
    BY <1>2, AboveAre
  <2>2. k \in Nat
    OBVIOUS
  <2>3. Readable(f, k) /\ f.frames[k].rec = r
    BY <2>1, <2>2, SameReadAre
  <2>4. k \in 1..Len(f.frames)
    BY <2>2, <2>3, ReadableWhole
  <2> QED
    BY <2>1, <2>3, <2>4, AboveAre
<1> QED
  BY <1>1, <1>2

LEMMA UnreadableEmpty ==
  ASSUME NEW f \in Files, f.head # "ok", NEW n \in Nat
  PROVE  ToSet(Above(RecordsOf(f), n)) = {}
BY AboveAre DEF Readable

(* Sound files with a header are read to the end.                                     *)
LEMMA SoundRead ==
  ASSUME NEW f \in Files, Sound(f), f.head # "ok" => f.frames = <<>>, NEW k \in 1..Len(f.frames)
  PROVE  Readable(f, k) /\ k \in Nat
BY DEF Sound, Readable

LEMMA ScannedOpens ==
  ASSUME Types, Ordered, Scanned, NEW i \in left, \A j \in left : i <= j, Opens(i)
  PROVE  Scanned'
<1> DEFINE new == report.pending \o PendingIn(files[i])
           h == HighestSeq(RecordsOf(files[i]), report.last)
           old == report.pending
<1>1. /\ phase = "opening" /\ phase' = "opening" /\ left' = left \ {i}
      /\ UNCHANGED <<ckpt, lastIndex, found, faults>>
  BY OpensAre DEF Types, ScanOk, env
<1>2. /\ DOMAIN files' \subseteq DOMAIN files
      /\ \A j \in DOMAIN files' \ {i} : files'[j] = files[j]
      /\ DOMAIN files \ {i} \subseteq DOMAIN files'
  BY OpensKeep
<1>3. /\ \A j \in DOMAIN files : j \in Nat /\ files[j] \in Files
      /\ left \subseteq DOMAIN files /\ lastIndex \in Nat /\ ckpt \in Nat
  BY DEF Types, FilesOk, ScanOk, OwnerOk, Indexes
<1>4. \/ report'.pending = new /\ report'.last = h
      \/ report' = report /\ files[i].head = "bad" /\ i \notin DOMAIN files'
  <2>1. \/ report' = [pending |-> new, last |-> h]
        \/ report' = report /\ files[i].head = "bad" /\ i \notin DOMAIN files'
    BY OpensMore
  <2> HIDE DEF new, h
  <2> QED
    BY <2>1
<1>5. i \in DOMAIN files' =>
         /\ files'[i] \in Files /\ Sound(files'[i]) /\ SameRead(files[i], files'[i])
         /\ files'[i].head # "ok" => files'[i].frames = <<>>
  BY OpensMore
<1>6. /\ Len(old) \in Nat /\ Len(new) \in Nat /\ Len(old) <= Len(new)
      /\ \A n \in 1..Len(new) :
           \/ n \in 1..Len(old) /\ new[n] = old[n]
           \/ /\ ~(n <= Len(old))
              /\ \E k \in Nat : Readable(files[i], k) /\ new[n] = files[i].frames[k].rec
      /\ \A m, n \in 1..Len(new) : m < n /\ ~(m <= Len(old)) =>
           \E k, l \in Nat : /\ Readable(files[i], k) /\ Readable(files[i], l) /\ k < l
                             /\ new[m] = files[i].frames[k].rec /\ new[n] = files[i].frames[l].rec
      /\ ToSet(new) = ToSet(old) \cup ToSet(PendingIn(files[i]))
      /\ h \in Nat /\ report.last <= h /\ report.last \in Nat
      /\ \A k \in Nat : Readable(files[i], k) => files[i].frames[k].rec.seq <= h
  BY ReportGrows, SegmentRead
<1> HIDE DEF new, h, old
<1>7. \A j \in DOMAIN files' : j <= lastIndex
  BY <1>1, <1>2 DEF Scanned
<1>8. left' # {} => lastIndex \in left'
  <2>1. SUFFICES ASSUME NEW j \in left, j # i PROVE lastIndex # i /\ lastIndex \in left
    BY <1>1
  <2>2. lastIndex \in left /\ j <= lastIndex
    BY <1>1, <1>3, <2>1 DEF Scanned
  <2>3. i <= j /\ i \in Nat /\ j \in Nat
    BY <1>3, <2>1
  <2> QED
    BY <2>1, <2>2, <2>3
<1>9. ASSUME NEW j \in DOMAIN files' \ left'
      PROVE  /\ \A l \in left' : j < l
             /\ Sound(files'[j])
             /\ \A k \in 1..Len(files'[j].frames) : files'[j].frames[k].rec.seq <= report'.last
             /\ ToSet(PendingIn(files[j]))' \subseteq ToSet(report'.pending)
  <2>1. CASE j = i
    <3>1. /\ files'[i] \in Files /\ files[i] \in Files
          /\ Sound(files'[i]) /\ SameRead(files[i], files'[i])
          /\ files'[i].head # "ok" => files'[i].frames = <<>>
          /\ report'.pending = new /\ report'.last = h
      BY <1>2, <1>3, <1>4, <1>5, <1>9, <2>1
    <3>2. \A l \in left' : i < l
      BY <1>1, <1>3
    <3>3. ASSUME NEW k \in 1..Len(files'[i].frames) PROVE files'[i].frames[k].rec.seq <= h
      <4>1. Readable(files'[i], k) /\ k \in Nat
        BY <3>1, SoundRead
      <4>2. Readable(files[i], k) /\ files'[i].frames[k].rec = files[i].frames[k].rec
        BY <3>1, <4>1, SameReadAre
      <4> QED
        BY <1>6, <4>1, <4>2
    <3>4. ToSet(Above(RecordsOf(files'[i]), ckpt)) = ToSet(PendingIn(files[i]))
      BY <1>3, <3>1, SamePending DEF PendingIn
    <3>5. ToSet(PendingIn(files[j]))' = ToSet(Above(RecordsOf(files'[i]), ckpt))
      BY <1>1, <2>1 DEF PendingIn
    <3> QED
      BY <1>6, <2>1, <3>1, <3>2, <3>3, <3>4, <3>5
  <2>2. CASE j # i
    <3>1. j \in DOMAIN files \ left /\ files'[j] = files[j] /\ files[j] \in Files
      BY <1>1, <1>2, <1>3, <1>9, <2>2
    <3>2. /\ \A l \in left : j < l
          /\ Sound(files[j])
          /\ \A k \in 1..Len(files[j].frames) : files[j].frames[k].rec.seq <= report.last
          /\ ToSet(PendingIn(files[j])) \subseteq ToSet(old)
      BY <1>1, <3>1 DEF Scanned, old
    <3>3. ToSet(PendingIn(files[j]))' = ToSet(PendingIn(files[j]))
      BY <1>1, <3>1 DEF PendingIn
    <3>4. ToSet(old) \subseteq ToSet(report'.pending)
      BY <1>4, <1>6 DEF old
    <3>5. ASSUME NEW k \in 1..Len(files[j].frames) PROVE files[j].frames[k].rec.seq <= report'.last
      <4>1. files[j].frames[k].rec.seq \in Nat /\ files[j].frames[k].rec.seq <= report.last
        BY <3>1, <3>2, FrameType
      <4>2. report.last <= report'.last /\ report'.last \in Nat
        BY <1>4, <1>6
      <4> QED
        BY <1>6, <4>1, <4>2
    <3> QED
      BY <1>1, <3>1, <3>2, <3>3, <3>4, <3>5
  <2> QED
    BY <2>1, <2>2
<1>10. found' = ToSet(report'.pending) \cup PendingOf(left)'
  <2>1. PendingOf(left)' = PendingOf(left \ {i})
    <3>1. \A j \in left \ {i} : files'[j] = files[j]
      BY <1>2, <1>3
    <3> QED
      BY <1>1, <3>1 DEF PendingOf, PendingIn
  <2>2. PendingOf(left) = ToSet(PendingIn(files[i])) \cup PendingOf(left \ {i})
    BY DEF PendingOf
  <2>3. found = ToSet(old) \cup PendingOf(left)
    BY <1>1 DEF Scanned, old
  <2>4. CASE report'.pending = new
    BY <1>1, <1>6, <2>1, <2>2, <2>3, <2>4
  <2>5. CASE report' = report /\ files[i].head = "bad"
    <3>1. ToSet(PendingIn(files[i])) = {}
      BY <1>3, <2>5, UnreadableEmpty DEF PendingIn
    <3> QED
      BY <1>1, <2>1, <2>2, <2>3, <2>5, <3>1 DEF old
  <2> QED
    BY <1>4, <2>4, <2>5
<1>11. ASSUME NEW k \in Nat, NEW l \in Nat, Readable(files[i], k), Readable(files[i], l), k < l
       PROVE  Before(files[i].frames[k].rec, files[i].frames[l].rec, Clean)
  BY <1>3, <1>11, ReadableWhole DEF Ordered, InLine
<1>12. ASSUME NEW n \in 1..Len(old), NEW j \in left, NEW k \in Nat, Whole(files[j], k)
       PROVE  Before(old[n], files[j].frames[k].rec, Clean)
  BY <1>1, <1>12 DEF Scanned, old
<1>13. ASSUME NEW m \in 1..Len(old), NEW n \in 1..Len(old), m < n
       PROVE  Before(old[m], old[n], Clean)
  BY <1>1, <1>13 DEF Scanned, old
<1>14. ASSUME NEW m \in 1..Len(new), NEW n \in 1..Len(new), m < n
       PROVE  Before(new[m], new[n], Clean)
  <2>1. CASE m <= Len(old) /\ n <= Len(old)
    <3>1. m \in 1..Len(old) /\ n \in 1..Len(old) /\ new[m] = old[m] /\ new[n] = old[n]
      BY <1>6, <2>1
    <3> QED
      BY <1>13, <1>14, <3>1
  <2>2. CASE m <= Len(old) /\ ~(n <= Len(old))
    <3>1. m \in 1..Len(old) /\ new[m] = old[m]
      BY <1>6, <2>2
    <3>2. PICK k \in Nat : Readable(files[i], k) /\ new[n] = files[i].frames[k].rec
      BY <1>6, <2>2
    <3> QED
      BY <1>12, <3>1, <3>2, ReadableWhole
  <2>3. CASE ~(m <= Len(old))
    <3>1. PICK k, l \in Nat : /\ Readable(files[i], k) /\ Readable(files[i], l) /\ k < l
                              /\ new[m] = files[i].frames[k].rec /\ new[n] = files[i].frames[l].rec
      BY <1>6, <1>14, <2>3
    <3> QED
      BY <1>11, <3>1
  <2> QED
    BY <1>6, <1>14, <2>1, <2>2, <2>3
<1>15. ASSUME NEW n \in 1..Len(new), NEW j \in left, j # i, NEW k \in Nat, Whole(files[j], k)
       PROVE  Before(new[n], files[j].frames[k].rec, Clean)
  <2>1. CASE n \in 1..Len(old) /\ new[n] = old[n]
    BY <1>12, <1>15, <2>1
  <2>2. ASSUME NEW l \in Nat, Readable(files[i], l), new[n] = files[i].frames[l].rec
        PROVE  Before(new[n], files[j].frames[k].rec, Clean)
    <3>1. i < j /\ Whole(files[i], l)
      BY <1>3, <1>15, <2>2, ReadableWhole
    <3> QED
      BY <1>3, <1>15, <2>2, <3>1 DEF Ordered, InLine
  <2> QED
    BY <1>6, <2>1, <2>2
<1>16. \A j \in left' : j \in left /\ j # i /\ files'[j] = files[j]
  BY <1>1, <1>2, <1>3
<1>17. /\ \A m, n \in 1..Len(report'.pending) : m < n =>
              Before(report'.pending[m], report'.pending[n], Clean')
       /\ \A n \in 1..Len(report'.pending) : \A j \in left' : \A k \in Nat :
              Whole(files'[j], k) => Before(report'.pending[n], files'[j].frames[k].rec, Clean')
  <2>1. Clean' = Clean
    BY <1>1 DEF Clean
  <2>2. CASE report'.pending = new
    BY <1>14, <1>15, <1>16, <2>1, <2>2
  <2>3. CASE report'.pending = old
    BY <1>12, <1>13, <1>16, <2>1, <2>3
  <2> QED
    BY <1>4, <2>2, <2>3 DEF old
<1> QED
  BY <1>1, <1>7, <1>8, <1>9, <1>10, <1>17 DEF Scanned

LEMMA ScannedOpenBegin ==
  ASSUME Types, OpenBegin
  PROVE  Scanned'
<1>1. /\ left' = DOMAIN files /\ files' = files /\ report' = NoReport /\ phase' = "opening"
      /\ found' = PendingOf(DOMAIN files) /\ ckpt' = ckpt
  BY DEF OpenBegin, disk
<1>2. /\ \A i \in DOMAIN files : i <= lastIndex'
      /\ DOMAIN files # {} => lastIndex' \in DOMAIN files
  BY TypesOpenBegin
<1>3. report'.pending = <<>> /\ 1..Len(<<>>) = {} /\ ToSet(<<>>) = {}
  BY <1>1 DEF NoReport, ToSet
<1>4. PendingOf(left)' = PendingOf(DOMAIN files)
  BY <1>1 DEF PendingOf, PendingIn
<1>5. DOMAIN files' \ left' = {}
  BY <1>1
<1> QED
  BY <1>1, <1>2, <1>3, <1>4, <1>5 DEF Scanned

LEMMA ScannedOver ==
  ASSUME Types', phase' # "opening"
  PROVE  Scanned'
BY DEF Types, ScanOk, Scanned

LEMMA ScannedSame ==
  ASSUME Scanned, UNCHANGED <<files, ckpt, phase, left, lastIndex, report, found, faults>>
  PROVE  Scanned'
<1>1. PendingOf(left)' = PendingOf(left) /\ Clean' = Clean
  BY DEF PendingOf, PendingIn, Clean
<1>2. \A i : ToSet(PendingIn(files[i]))' = ToSet(PendingIn(files[i]))
  BY DEF PendingIn
<1> QED
  BY <1>1, <1>2 DEF Scanned

-----------------------------------------------------------------------------
(* What holds on every disk *)

Base == Types /\ Numbers /\ Ordered /\ Scanned

LEMMA BaseInit == Init => Base
<1> SUFFICES ASSUME Init PROVE Base
  OBVIOUS
<1>1. Types
  BY TypesInit
<1>2. files = <<>> /\ phase = "down" /\ left = {}
  BY DEF Init
<1>3. DOMAIN files = {}
  BY <1>2
<1>4. Numbers
  BY <1>2 DEF Numbers
<1>5. Ordered
  BY <1>3 DEF Ordered, InLine
<1>6. Scanned
  BY <1>2, <1>3 DEF Scanned
<1> QED
  BY <1>1, <1>4, <1>5, <1>6 DEF Base

(* Sorting what has been reported changes nothing.                                   *)
LEMMA ReportInOrder ==
  ASSUME Types, Scanned, phase = "opening"
  PROVE  SortedBySeq(report.pending) = report.pending
<1>1. report.pending \in Seq(Records)
  BY DEF Types, ScanOk
<1>2. \A k, l \in 1..Len(report.pending) : k < l =>
         report.pending[k].seq <= report.pending[l].seq
  BY DEF Scanned, Before
<1> QED
  BY <1>1, <1>2, InOrderIs

(* Every step is one of these.                                                        *)
LEMMA Steps ==
  ASSUME [Next]_vars
  PROVE  \/ OpenBegin
         \/ \E i \in left : (\A j \in left : i <= j) /\ Opens(i)
         \/ OpenDone
         \/ \E len \in FrameLens : AppendBegin(len)
         \/ WriteHeader \/ WriteFrame \/ Sync
         \/ HeaderFails \/ FrameFails \/ SyncFails
         \/ Seal \/ Crash \/ Quiet
BY DEF Next, OpenSegment, Opens, Quiet

LEMMA BaseStep ==
  ASSUME Base, [Next]_vars
  PROVE  Base'
<1>1. Types /\ Numbers /\ Ordered /\ Scanned
  BY DEF Base
<1> SUFFICES Types' /\ Numbers' /\ Ordered' /\ Scanned'
  BY DEF Base
<1>2. CASE OpenBegin
  <2>1. phase' = "opening" /\ report' = NoReport
    BY <1>2 DEF OpenBegin
  <2> QED
    BY <1>1, <1>2, <2>1, TypesOpenBegin, NumbersSame, OrderedOpenBegin, ScannedOpenBegin
<1>3. ASSUME NEW i \in left, \A j \in left : i <= j, Opens(i)
      PROVE  Types' /\ Numbers' /\ Ordered' /\ Scanned'
  BY <1>1, <1>3, TypesOpens, NumbersOpens, OrderedOpens, ScannedOpens
<1>4. CASE OpenDone
  <2>1. phase = "opening" /\ phase' # "opening"
    BY <1>4 DEF OpenDone, Opened
  <2>2. SortedBySeq(report.pending) = report.pending
    BY <1>1, <2>1, ReportInOrder
  <2>3. Types'
    BY <1>1, <1>4, <2>2, TypesOpenDone
  <2> QED
    BY <1>1, <1>4, <2>1, <2>2, <2>3, NumbersOpenDone, OrderedOpenDone, ScannedOver
<1>5. ASSUME NEW len \in FrameLens, AppendBegin(len)
      PROVE  Types' /\ Numbers' /\ Ordered' /\ Scanned'
  <2>1. phase' = "open" /\ UNCHANGED <<phase, nextSeq, line, report, applied, ckpt>>
    BY <1>5 DEF AppendBegin, Called, scan, owner
  <2>2. Types' /\ Numbers' /\ Ordered'
    BY <1>1, <1>5, <2>1, TypesAppendBegin, NumbersSame, OrderedAppendBegin
  <2> QED
    BY <2>1, <2>2, ScannedOver
<1>6. CASE WriteHeader
  <2>1. UNCHANGED <<phase, nextSeq, line, report, applied, ckpt>> /\ phase = "open"
    BY <1>1, <1>6, CurrentType DEF WriteHeader, scan, owner
  <2>2. Types' /\ Numbers' /\ Ordered'
    BY <1>1, <1>6, <2>1, TypesWriteHeader, NumbersSame, OrderedWriteHeader
  <2> QED
    BY <2>1, <2>2, ScannedOver
<1>7. CASE WriteFrame
  <2>1. UNCHANGED <<phase, nextSeq, line, report, applied, ckpt>> /\ phase = "open"
    BY <1>1, <1>7, CurrentType DEF WriteFrame, writer, scan, owner
  <2>2. Types' /\ Numbers' /\ Ordered'
    BY <1>1, <1>7, <2>1, TypesWriteFrame, NumbersSame, OrderedWriteFrame
  <2> QED
    BY <2>1, <2>2, ScannedOver
<1>8. CASE Sync
  <2>1. phase' = "open"
    BY <1>1, <1>8, SyncIs
  <2> QED
    BY <1>1, <1>8, <2>1, TypesSync, NumbersSync, OrderedSync, ScannedOver
<1>9. CASE HeaderFails \/ FrameFails \/ SyncFails
  <2>1. UNCHANGED <<phase, nextSeq, line, report, applied, ckpt>> /\ phase = "open"
    BY <1>1, <1>9, FailsAre, CurrentType DEF writer, scan, owner
  <2>2. Types' /\ Numbers' /\ Ordered'
    BY <1>1, <1>9, <2>1, TypesFails, NumbersSame, OrderedFails
  <2> QED
    BY <2>1, <2>2, ScannedOver
<1>10. CASE Seal
  <2>1. phase' = "open"
    BY <1>1, <1>10, SealIs
  <2> QED
    BY <1>1, <1>10, <2>1, TypesSeal, NumbersSeal, OrderedSeal, ScannedOver
<1>11. CASE Crash
  <2>1. phase' = "down"
    BY <1>11 DEF Crash
  <2> QED
    BY <1>1, <1>11, <2>1, TypesCrash, NumbersSame, OrderedCrash, ScannedOver
<1>12. CASE Quiet
  <2>1. Types' /\ Numbers' /\ Ordered'
    BY <1>1, <1>12, TypesOther, NumbersOther, OrderedOther
  <2>2. /\ UNCHANGED <<files, phase, left, lastIndex, report, found, faults>>
        /\ ckpt' = ckpt \/ phase = "open"
    BY <1>1, <1>12, TypesOther DEF scan
  <2>3. Scanned'
    BY <1>1, <2>1, <2>2, ScannedOver, ScannedSame
  <2> QED
    BY <2>1, <2>3
<1> QED
  BY <1>2, <1>3, <1>4, <1>5, <1>6, <1>7, <1>8, <1>9, <1>10, <1>11, <1>12, Steps

LEMMA BaseHolds == Spec => []Base
<1>1. Init => Base
  BY BaseInit
<1>2. Base /\ [Next]_vars => Base'
  BY BaseStep
<1> QED
  BY <1>1, <1>2, PTL DEF Spec

(* The number of the next record is above the checkpoint and above everything that  *)
(* has been applied (the comment in WalWriter::open), whatever write has failed.     *)
THEOREM FreshAboveCheckpointCorrect == Spec => []FreshAboveCheckpoint
<1>1. Base => FreshAboveCheckpoint
  <2> SUFFICES ASSUME Base, phase = "open" PROVE nextSeq > Max({ckpt, applied})
    BY DEF FreshAboveCheckpoint
  <2>1. ckpt \in Nat /\ applied \in Nat /\ nextSeq \in Nat
    BY DEF Base, Types, OwnerOk, WriterOk, Indexes
  <2>2. ckpt < nextSeq /\ applied < nextSeq
    BY DEF Base, Numbers
  <2> QED
    BY <2>1, <2>2, MaxOfTwo
<1> QED
  BY <1>1, BaseHolds, PTL

(* While open goes through the segments, its report and the segments left hold what  *)
(* could be read when it began, in the order of append, whatever damage they have.   *)
THEOREM RecoveryCompleteCorrect == Spec => []RecoveryComplete
<1>1. Base => RecoveryComplete
  BY DEF Base, Scanned, RecoveryComplete, Before
<1> QED
  BY <1>1, BaseHolds, PTL
-----------------------------------------------------------------------------
(* Where frames stand, and what a segment weighs *)

LEMMA PlacedBytes ==
  ASSUME NEW f \in Files, Placed(f)
  PROVE  /\ HeadBytes(f) <= Bytes(f)
         /\ \A k \in 1..Len(f.frames) : f.frames[k].at + f.frames[k].len <= Bytes(f)
<1>1. /\ HeadBytes(f) \in Nat /\ Bytes(f) \in Nat /\ Len(f.frames) \in Nat
      /\ f.frames = <<>> => Bytes(f) = HeadBytes(f) /\ Len(f.frames) = 0
      /\ f.frames # <<>> =>
           /\ Len(f.frames) \in 1..Len(f.frames)
           /\ Bytes(f) = f.frames[Len(f.frames)].at + f.frames[Len(f.frames)].len
  BY BytesType DEF Files
<1>2. \A k \in 1..Len(f.frames) : f.frames[k].at \in Nat /\ f.frames[k].len \in Nat
  BY FrameType
<1>3. HeadBytes(f) <= Bytes(f)
  <2>1. CASE f.frames = <<>>
    BY <1>1, <2>1
  <2>2. CASE f.frames # <<>>
    <3>1. HeadBytes(f) <= f.frames[Len(f.frames)].at
      BY <1>1, <2>2 DEF Placed
    <3> QED
      BY <1>1, <1>2, <2>2, <3>1
  <2> QED
    BY <2>1, <2>2
<1>4. ASSUME NEW k \in 1..Len(f.frames)
      PROVE  f.frames[k].at + f.frames[k].len <= Bytes(f)
  <2>1. f.frames # <<>> /\ Len(f.frames) \in 1..Len(f.frames)
    BY <1>1
  <2>2. CASE k = Len(f.frames)
    BY <1>1, <1>2, <2>1, <2>2
  <2>3. CASE k < Len(f.frames)
    <3>1. f.frames[k].at + f.frames[k].len <= f.frames[Len(f.frames)].at
      BY <2>1, <2>3 DEF Placed
    <3>2. /\ f.frames[k].at \in Nat /\ f.frames[k].len \in Nat
          /\ f.frames[Len(f.frames)].at \in Nat /\ f.frames[Len(f.frames)].len \in Nat
      BY <1>2, <2>1
    <3>3. Bytes(f) = f.frames[Len(f.frames)].at + f.frames[Len(f.frames)].len
      BY <1>1, <2>1
    <3> QED
      BY <3>1, <3>2, <3>3
  <2> QED
    BY <1>1, <2>2, <2>3
<1> QED
  BY <1>3, <1>4

LEMMA HeaderWeighs ==
  ASSUME NEW f \in Files, Placed(f), f.head = "ok"
  PROVE  /\ HeadBytes(f) = HeaderLen /\ HeaderLen \in Nat \ {0} /\ Bytes(f) \in Nat
         /\ Bytes(f) # 0 /\ (f.frames = <<>> => Bytes(f) = HeaderLen)
<1>1. HeadBytes(f) = HeaderLen /\ HeaderLen \in Nat \ {0}
  BY SizesAssumption DEF HeadBytes
<1> QED
  BY <1>1, PlacedBytes, BytesType

LEMMA EmptyWeighs ==
  ASSUME NEW f \in Files, f.frames = <<>>
  PROVE  /\ Placed(f) /\ \A k \in Nat : ~Readable(f, k)
         /\ f.head = "none" => Bytes(f) = 0
         /\ f.head = "part" => Bytes(f) = TornLen
         /\ f.head = "ok" => Bytes(f) = HeaderLen
<1>1. Len(f.frames) = 0 /\ 1..0 = {}
  BY DEF Files
<1>2. Bytes(f) = HeadBytes(f)
  BY BytesType
<1> QED
  BY <1>1, <1>2 DEF Placed, Readable, HeadBytes

LEMMA PlacedAppend ==
  ASSUME Types, NEW f \in Files, NEW w \in BOOLEAN, pc # "idle", Placed(f)
  PROVE  Placed(WithFrame(f, w))
<1> DEFINE g == WithFrame(f, w)
           n == Len(f.frames) + 1
<1>1. /\ g \in Files /\ n \in Nat \ {0} /\ Len(g.frames) = n
      /\ \A k \in 1..Len(f.frames) : g.frames[k] = f.frames[k]
      /\ g.frames[n].at = Bytes(f) /\ HeadBytes(g) = HeadBytes(f)
  BY WithFrameAre
<1>2. /\ HeadBytes(f) <= Bytes(f) /\ Len(f.frames) \in Nat
      /\ \A k \in 1..Len(f.frames) : f.frames[k].at + f.frames[k].len <= Bytes(f)
  BY PlacedBytes DEF Files
<1> HIDE DEF g
<1>3. ASSUME NEW k \in 1..n PROVE HeadBytes(g) <= g.frames[k].at
  <2>1. CASE k = n
    BY <1>1, <1>2, <2>1
  <2>2. CASE k # n
    <3>1. k \in 1..Len(f.frames)
      BY <1>2, <2>2
    <3> QED
      BY <1>1, <3>1 DEF Placed
  <2> QED
    BY <2>1, <2>2
<1>4. ASSUME NEW k \in 1..n, NEW l \in 1..n, k < l
      PROVE  g.frames[k].at + g.frames[k].len <= g.frames[l].at
  <2>1. k \in 1..Len(f.frames)
    BY <1>2, <1>4
  <2>2. CASE l = n
    BY <1>1, <1>2, <2>1, <2>2
  <2>3. CASE l # n
    <3>1. l \in 1..Len(f.frames)
      BY <1>2, <2>3
    <3> QED
      BY <1>1, <1>4, <2>1, <3>1 DEF Placed
  <2> QED
    BY <2>2, <2>3
<1> QED
  BY <1>1, <1>3, <1>4 DEF Placed, g

(* The first frames of a file weigh no more than what follows them is placed at.       *)
LEMMA FrontWeighs ==
  ASSUME NEW f \in Files, NEW g \in Files, Placed(f), g.head = f.head,
         Len(g.frames) <= Len(f.frames),
         \A k \in 1..Len(g.frames) : g.frames[k] = f.frames[k]
  PROVE  /\ Placed(g) /\ Bytes(g) <= Bytes(f) /\ Bytes(g) \in Nat /\ Bytes(f) \in Nat
         /\ \A k \in 1..Len(f.frames) : Len(g.frames) < k => Bytes(g) <= f.frames[k].at
<1>1. /\ Len(f.frames) \in Nat /\ Len(g.frames) \in Nat /\ HeadBytes(g) = HeadBytes(f)
      /\ 1..Len(g.frames) \subseteq 1..Len(f.frames)
      /\ Bytes(g) \in Nat /\ Bytes(f) \in Nat
  BY BytesType DEF Files, HeadBytes
<1>2. Placed(g)
  BY <1>1 DEF Placed
<1>3. CASE g.frames = <<>>
  <2>1. Bytes(g) = HeadBytes(f)
    BY <1>1, <1>3, BytesType
  <2> QED
    BY <1>1, <1>2, <2>1, PlacedBytes DEF Placed
<1>4. CASE g.frames # <<>>
  <2> DEFINE n == Len(g.frames)
  <2>1. /\ n \in 1..n /\ Bytes(g) = g.frames[n].at + g.frames[n].len /\ n \in 1..Len(f.frames)
    BY <1>1, <1>4, BytesType
  <2>2. g.frames[n] = f.frames[n]
    BY <2>1
  <2>3. Bytes(g) = f.frames[n].at + f.frames[n].len
    BY <2>1, <2>2
  <2> HIDE DEF n
  <2>4. Bytes(g) <= Bytes(f)
    BY <2>1, <2>3, PlacedBytes
  <2>5. ASSUME NEW k \in 1..Len(f.frames), n < k PROVE Bytes(g) <= f.frames[k].at
    BY <2>1, <2>3, <2>5 DEF Placed
  <2> QED
    BY <1>1, <1>2, <2>4, <2>5 DEF n
<1> QED
  BY <1>3, <1>4

LEMMA TruncatedWeighs ==
  ASSUME NEW f \in Files, Placed(f)
  PROVE  /\ Placed(Truncated(f)) /\ Bytes(Truncated(f)) <= Bytes(f)
         /\ Truncated(f).head # "bad" /\ Truncated(f) \in Files
<1>0. Truncated(f) \in Files
  BY TruncatedIs
<1>1. CASE f.head = "ok"
  <2>1. Truncated(f).head = "ok" /\ Truncated(f).frames = GoodFrames(f)
    BY <1>1 DEF Truncated
  <2>2. /\ Len(GoodFrames(f)) = GoodLen(f) /\ GoodLen(f) \in 0..Len(f.frames)
        /\ \A k \in 1..GoodLen(f) : GoodFrames(f)[k] = f.frames[k]
    BY GoodFramesAre, GoodLenIs
  <2>3. Len(f.frames) \in Nat
    BY DEF Files
  <2> QED
    BY <1>0, <1>1, <2>1, <2>2, <2>3, FrontWeighs
<1>2. CASE f.head # "ok"
  <2>1. Truncated(f) = NoFile
    BY <1>2 DEF Truncated
  <2>2. Bytes(f) \in Nat
    BY BytesType
  <2> QED
    BY <1>0, <2>1, <2>2, NoFileIs
<1> QED
  BY <1>1, <1>2

(* A step that changes one segment moves what is on the disk by what the segment       *)
(* gains or loses.                                                                      *)
LEMMA DiskMoves ==
  ASSUME Types, Types', NEW i, DOMAIN files \ {i} = DOMAIN files' \ {i},
         \A j \in DOMAIN files \ {i} : files'[j] = files[j]
  PROVE  /\ DiskBytes \in Nat /\ DiskBytes' \in Nat
         /\ Weight(files, i) \in Nat /\ Weight(files', i) \in Nat
         /\ DiskBytes' + Weight(files, i) = DiskBytes + Weight(files', i)
<1>1. /\ IsFiniteSet(DOMAIN files) /\ \A j \in DOMAIN files : Bytes(files[j]) \in Nat
  BY BytesType DEF Types, FilesOk
<1>2. /\ IsFiniteSet(DOMAIN files') /\ \A j \in DOMAIN files' : Bytes(files'[j]) \in Nat
  BY BytesType DEF Types, FilesOk
<1> QED
  BY <1>1, <1>2, BytesReplaced DEF DiskBytes
-----------------------------------------------------------------------------
(* A clean disk: the segments *)

LEMMA SoundTorn ==
  ASSUME \A i \in DOMAIN files : Sound(files[i])
  PROVE  TornLast
BY DEF Sound, TornLast

(* The segments of a clean disk are files.                                             *)
LEMMA CleanType ==
  ASSUME Types, CleanDisk, NEW i \in DOMAIN files
  PROVE  /\ files[i] \in Files /\ i \in Nat /\ Placed(files[i]) /\ files[i].head # "bad"
         /\ files[i].head # "ok" => files[i].frames = <<>>
         /\ phase = "open" => Sound(files[i])
BY DEF Types, FilesOk, Indexes, CleanDisk, CleanFile

LEMMA CleanDiskSame ==
  ASSUME CleanDisk, DOMAIN files' = DOMAIN files, \A i \in DOMAIN files : files'[i] = files[i],
         phase' = "open" => phase = "open" \/ \A i \in DOMAIN files : Sound(files[i])
  PROVE  CleanDisk'
<1>1. \A i \in DOMAIN files' : CleanFile(files'[i])
  BY DEF CleanDisk
<1>2. TornLast'
  BY DEF CleanDisk, TornLast
<1>3. \A i \in DOMAIN files' : phase' = "open" => Sound(files'[i])
  BY DEF CleanDisk
<1> QED
  BY <1>1, <1>2, <1>3 DEF CleanDisk

LEMMA CleanDiskOpens ==
  ASSUME Types, CleanDisk, NEW i \in left, Opens(i)
  PROVE  /\ CleanDisk'
         /\ i \in DOMAIN files' => Bytes(files'[i]) <= Bytes(files[i])
         /\ Bytes(files[i]) \in Nat
<1>1. /\ phase' = "opening"
      /\ \/ files' = [files EXCEPT ![i] = Truncated(files[i])]
         \/ files' = Without(i)
         \/ files' = files
  BY OpensAre DEF Types, ScanOk
<1>2. /\ DOMAIN files' \subseteq DOMAIN files
      /\ \A j \in DOMAIN files' \ {i} : files'[j] = files[j]
  BY OpensKeep
<1>3. i \in DOMAIN files /\ files[i] \in Files /\ CleanFile(files[i]) /\ Bytes(files[i]) \in Nat
  BY SegmentRead, BytesType DEF CleanDisk
<1>4. i \in DOMAIN files' => files'[i] \in {files[i], Truncated(files[i])}
  BY <1>1, <1>3, WithoutIs
<1>5. i \in DOMAIN files' => CleanFile(files'[i]) /\ Bytes(files'[i]) <= Bytes(files[i])
  <2>1. CleanFile(files[i]) /\ Bytes(files[i]) <= Bytes(files[i])
    BY <1>3
  <2>2. CleanFile(Truncated(files[i])) /\ Bytes(Truncated(files[i])) <= Bytes(files[i])
    <3>1. Placed(files[i])
      BY <1>3 DEF CleanFile
    <3>2. Truncated(files[i]).head # "ok" => Truncated(files[i]).frames = <<>>
      BY <1>3, TruncatedIs
    <3> QED
      BY <1>3, <3>1, <3>2, TruncatedWeighs DEF CleanFile
  <2> QED
    BY <1>4, <2>1, <2>2
<1>6. \A j \in DOMAIN files' : CleanFile(files'[j])
  BY <1>2, <1>5 DEF CleanDisk
<1>7. TornLast'
  <2>1. SUFFICES ASSUME NEW j \in DOMAIN files', NEW k \in 1..Len(files'[j].frames),
                        ~files'[j].frames[k].whole
                 PROVE  \A l \in DOMAIN files' : l <= j
    BY DEF TornLast
  <2>2. j # i
    BY <2>1, OpensMore DEF Sound
  <2> QED
    BY <1>2, <2>1, <2>2 DEF CleanDisk, TornLast
<1> QED
  BY <1>1, <1>3, <1>5, <1>6, <1>7 DEF CleanDisk

(* append leaves sound segments.                                                        *)
LEMMA CleanDiskWrites ==
  ASSUME CleanDisk, phase = "open", NEW g, Sound(g), CleanFile(g), NEW i,
         DOMAIN files' = DOMAIN files \cup {i},
         \A j \in DOMAIN files \ {i} : files'[j] = files[j], files'[i] = g
  PROVE  CleanDisk'
<1>1. \A j \in DOMAIN files' : CleanFile(files'[j]) /\ Sound(files'[j])
  BY DEF CleanDisk
<1>2. TornLast'
  BY <1>1 DEF Sound, TornLast
<1> QED
  BY <1>1, <1>2 DEF CleanDisk

(* The file that append writes to, as it was and as it becomes.                         *)
LEMMA CleanBegins ==
  ASSUME Types, Ordered, CleanDisk, CleanWriter, NEW len \in FrameLens, AppendBegin(len)
  PROVE  /\ FileAt(current') \in Files /\ CleanFile(FileAt(current')) /\ Sound(FileAt(current'))
         /\ currentLen' = Bytes(FileAt(current'))
         /\ pc' = "header" => FileAt(current').head = "none"
         /\ pc' = "frame" => FileAt(current').head = "ok"
<1> DEFINE f == FileAt(current')
<1>1. /\ phase = "open" /\ pc = "idle" /\ current \in Nat /\ currentLen \in Nat
      /\ current' = (IF currentLen >= SegmentMax THEN current + 1 ELSE current)
      /\ currentLen' = (IF currentLen >= SegmentMax THEN 0 ELSE currentLen)
      /\ pc' \in {"header", "frame"}
      /\ pc' = "frame" <=> /\ current' \in DOMAIN files
                           /\ ~(currentLen >= SegmentMax) /\ currentLen # 0
  BY AppendBeginIs DEF Types, WriterOk, Indexes
<1>2. f \in Files
  BY FileAtType
<1>3. CleanFile(f) /\ Sound(f)
  <2>1. CASE current' \in DOMAIN files
    BY <1>1, <2>1 DEF CleanDisk, FileAt
  <2>2. CASE current' \notin DOMAIN files
    BY <2>2, NoFileIs DEF FileAt, CleanFile
  <2> QED
    BY <2>1, <2>2
<1>4. currentLen' = Bytes(f)
  <2>1. CASE currentLen >= SegmentMax
    <3>1. current + 1 \notin DOMAIN files
      <4>1. SUFFICES ASSUME current + 1 \in DOMAIN files PROVE FALSE
        OBVIOUS
      <4>2. current + 1 <= current
        BY <1>1, <4>1 DEF Ordered
      <4> QED
        BY <1>1, <4>2
    <3> QED
      BY <1>1, <2>1, <3>1, NoFileIs DEF FileAt
  <2>2. CASE ~(currentLen >= SegmentMax)
    BY <1>1, <2>2 DEF CleanWriter
  <2> QED
    BY <2>1, <2>2
<1>5. f.head \in {"none", "ok"} /\ Placed(f) /\ (f.head = "none" => f.frames = <<>>)
  BY <1>3 DEF Sound, CleanFile
<1> HIDE DEF f
<1>6. f.head = "none" => Bytes(f) = 0
  BY <1>2, <1>5, EmptyWeighs
<1>7. f.head = "ok" => Bytes(f) # 0
  BY <1>2, <1>5, HeaderWeighs
<1>8. pc' = "header" => f.head = "none"
  <2>1. SUFFICES ASSUME pc' = "header", f.head = "ok" PROVE FALSE
    BY <1>5
  <2>2. current' \in DOMAIN files
    <3>1. SUFFICES ASSUME current' \notin DOMAIN files PROVE FALSE
      OBVIOUS
    <3> QED
      BY <2>1, <3>1, NoFileIs DEF FileAt, f
  <2>3. currentLen' # 0
    BY <1>4, <1>7, <2>1
  <2> QED
    BY <1>1, <2>1, <2>2, <2>3
<1>9. pc' = "frame" => f.head = "ok"
  BY <1>1, <1>4, <1>5, <1>6
<1> QED
  BY <1>2, <1>3, <1>4, <1>8, <1>9 DEF f

(* The header of an empty segment, and a frame behind what was there.                    *)
LEMMA CleanHeads ==
  ASSUME Types, CleanDisk, CleanWriter, WriteHeader
  PROVE  \E g \in Files :
            /\ files' = [files EXCEPT ![current] = g] /\ Sound(g) /\ CleanFile(g)
            /\ g.head = "ok" /\ g.frames = <<>> /\ Bytes(g) = HeaderLen
            /\ Bytes(files[current]) = 0 /\ files[current].frames = <<>>
<1>1. pc = "header" /\ current \in DOMAIN files /\ files[current] \in Files
  BY CurrentType DEF WriteHeader
<1>2. /\ files[current].head = "none" /\ files[current].frames = <<>>
      /\ Bytes(files[current]) = 0
  BY <1>1, EmptyWeighs DEF CleanWriter, CleanDisk, CleanFile
<1>3. PICK g \in Headed(files[current]) : g \in Files /\ files' = [files EXCEPT ![current] = g]
  BY TypesWriteHeader
<1>4. g.head = "ok" /\ g.frames = <<>>
  BY <1>1, <1>2, <1>3, HeadedAre
<1>5. Placed(g) /\ Bytes(g) = HeaderLen
  BY <1>3, <1>4, EmptyWeighs
<1>6. Sound(g) /\ CleanFile(g)
  BY <1>4, <1>5 DEF Sound, CleanFile
<1> QED
  BY <1>2, <1>3, <1>4, <1>5, <1>6

LEMMA CleanFrames ==
  ASSUME Types, CleanDisk, CleanWriter, WriteFrame
  PROVE  LET f == files[current]
         IN  \E g \in Files :
            /\ files' = [files EXCEPT ![current] = g] /\ Sound(g) /\ CleanFile(g)
            /\ g.head = "ok" /\ f.head = "ok" /\ Len(g.frames) = Len(f.frames) + 1
            /\ Len(f.frames) \in Nat /\ g.frames # <<>>
            /\ \A k \in 1..Len(f.frames) : g.frames[k] = f.frames[k]
            /\ LastFrame(g).rec = [seq |-> nextSeq, draft |-> writing.draft]
            /\ LastFrame(g).len = writing.len /\ LastFrame(g).at = Bytes(f)
            /\ Bytes(g) = Bytes(f) + writing.len
<1> DEFINE f == files[current]
           g == WithFrame(f, TRUE)
<1>1. /\ pc = "frame" /\ current \in DOMAIN files /\ f \in Files /\ phase = "open"
      /\ files' = [files EXCEPT ![current] = g]
  BY CurrentType, TypesWriteFrame DEF WriteFrame
<1>2. f.head = "ok" /\ Sound(f) /\ Placed(f)
  BY <1>1 DEF CleanWriter, CleanDisk, CleanFile
<1> HIDE DEF f
<1>3. LET n == Len(f.frames) + 1
      IN  /\ g \in Files /\ g.head = f.head /\ n \in Nat \ {0} /\ Len(g.frames) = n
          /\ \A k \in 1..Len(f.frames) : g.frames[k] = f.frames[k]
          /\ g.frames[n].rec = [seq |-> nextSeq, draft |-> writing.draft]
          /\ g.frames[n].at = Bytes(f) /\ g.frames[n].whole = TRUE
          /\ g.frames[n].len = writing.len /\ Bytes(g) = Bytes(f) + writing.len
  BY <1>1, WithFrameAre
<1>4. Placed(g)
  BY <1>1, <1>2, PlacedAppend
<1>5. Len(f.frames) \in Nat
  BY <1>1 DEF Files
<1> HIDE DEF g
<1>6. Sound(g)
  <2>1. SUFFICES ASSUME NEW k \in 1..Len(g.frames) PROVE g.frames[k].whole
    BY <1>2, <1>3 DEF Sound
  <2>2. CASE k = Len(f.frames) + 1
    BY <1>3, <2>2
  <2>3. CASE k # Len(f.frames) + 1
    <3>1. k \in 1..Len(f.frames)
      BY <1>3, <1>5, <2>3
    <3> QED
      BY <1>2, <1>3, <3>1 DEF Sound
  <2> QED
    BY <2>2, <2>3
<1>7. CleanFile(g) /\ g.frames # <<>>
  BY <1>2, <1>3, <1>4, <1>5 DEF CleanFile
<1>8. LastFrame(g) = g.frames[Len(f.frames) + 1]
  BY <1>3 DEF LastFrame
<1> QED
  BY <1>1, <1>2, <1>3, <1>5, <1>6, <1>7, <1>8 DEF f
(* What a crash leaves of a segment of a clean disk: its acknowledged frames, and no    *)
(* more bytes than the write would have made of it.                                     *)
LEMMA CleanRemains ==
  ASSUME Types, CleanDisk, CleanWriter, pc # "idle", NEW g \in Remains
  PROVE  LET f == files[current]
         IN  /\ g \in Files /\ CleanFile(g)
             /\ pc = "header" => Bytes(g) <= Bytes(f) + HeaderLen
             /\ pc = "frame" => Bytes(g) <= Bytes(f) + writing.len
             /\ pc = "sync" => Bytes(g) <= Bytes(f)
             /\ \A k \in Nat : Readable(f, k) /\ (pc = "sync" => k < Len(f.frames)) =>
                  Readable(g, k) /\ g.frames[k].rec = f.frames[k].rec
<1> DEFINE f == files[current]
<1>1. /\ f \in Files /\ current \in DOMAIN files /\ writing.len \in Nat \ {0} /\ CleanFile(f)
      /\ Bytes(f) \in Nat /\ Sound(f)
  BY CurrentType, BytesType DEF CleanDisk
<1>2. g \in Files
  BY RemainsAre
<1>3. HeaderLen \in Nat /\ TornLen \in Nat /\ TornLen <= HeaderLen /\ TornLen <= writing.len
  <2>1. TornLen \in Nat /\ TornLen <= HeaderLen /\ HeaderLen \in Nat
    BY SizesAssumption
  <2> QED
    BY <1>1, <2>1, FrameOfType
<1>4. CASE g = f
  BY <1>1, <1>3, <1>4
<1>5. CASE pc = "header" /\ g # f
  <2>1. f.head = "none" /\ f.frames = <<>>
    BY <1>1, <1>5 DEF CleanWriter, CleanFile
  <2>2. g \in CutHeader(f)
    BY <1>5 DEF Remains
  <2>3. g.head = "part" /\ g.frames = <<>>
    BY <1>1, <2>1, <2>2, HeadedAre
  <2>4. Bytes(g) = TornLen /\ Placed(g) /\ \A k \in Nat : ~Readable(f, k)
    BY <1>1, <1>2, <2>1, <2>3, EmptyWeighs
  <2>5. CleanFile(g)
    BY <2>3, <2>4 DEF CleanFile
  <2> QED
    BY <1>1, <1>2, <1>3, <1>5, <2>4, <2>5
<1>6. CASE pc = "frame" /\ g # f
  <2>1. g = WithFrame(f, FALSE) /\ f.head = "ok" /\ Placed(f)
    BY <1>1, <1>6 DEF Remains, CleanWriter, CleanFile
  <2> HIDE DEF f
  <2>2. /\ g.head = "ok" /\ Bytes(g) = Bytes(f) + TornLen /\ SameRead(f, g)
    BY <1>1, <1>6, <2>1, WithFrameAre
  <2>3. Placed(g)
    BY <1>1, <1>6, <2>1, PlacedAppend
  <2>4. CleanFile(g)
    BY <2>2, <2>3 DEF CleanFile
  <2>5. \A k \in Nat : Readable(f, k) => Readable(g, k) /\ g.frames[k].rec = f.frames[k].rec
    BY <2>2, SameReadAre
  <2> QED
    BY <1>1, <1>2, <1>3, <1>6, <2>2, <2>4, <2>5 DEF f
<1>7. CASE pc = "sync" /\ g # f
  <2> DEFINE b == [f EXCEPT !.frames = Front(@)]
             n == Len(f.frames)
  <2>1. /\ f.head = "ok" /\ f.frames # <<>> /\ LastFrame(f).len = writing.len /\ Placed(f)
        /\ g \in {b, WithFrame(b, FALSE)}
    BY <1>1, <1>7 DEF Remains, CleanWriter, CleanFile
  <2> HIDE DEF f
  <2>2. /\ b \in Files /\ b.head = f.head /\ Len(b.frames) = n - 1 /\ n \in Nat \ {0}
        /\ \A k \in 1..Len(b.frames) : b.frames[k] = f.frames[k]
    BY <1>1, <2>1, FrameTaken DEF Files
  <2> HIDE DEF b
  <2>3. /\ Placed(b) /\ Bytes(b) <= Bytes(f) /\ Bytes(b) \in Nat
        /\ Bytes(b) <= f.frames[n].at
    BY <1>1, <2>1, <2>2, FrontWeighs
  <2>4. Bytes(f) = f.frames[n].at + writing.len /\ f.frames[n].at \in Nat
    <3>1. n \in 1..Len(f.frames) /\ f.frames[n].len = writing.len
      BY <2>1, <2>2 DEF LastFrame
    <3> QED
      BY <1>1, <2>1, <3>1, BytesType, FrameType
  <2>5. \A k \in Nat : Readable(f, k) /\ k < n =>
           Readable(b, k) /\ b.frames[k].rec = f.frames[k].rec
    <3>1. SUFFICES ASSUME NEW k \in Nat, Readable(f, k), k < n
                   PROVE  Readable(b, k) /\ b.frames[k].rec = f.frames[k].rec
      OBVIOUS
    <3>2. k \in 1..Len(f.frames) /\ \A j \in 1..k : f.frames[j].whole
      BY <3>1 DEF Readable
    <3>3. k \in 1..Len(b.frames) /\ \A j \in 1..k : j \in 1..Len(b.frames)
      BY <2>2, <3>1, <3>2
    <3> QED
      BY <2>1, <2>2, <3>2, <3>3 DEF Readable
  <2>6. CASE g = b
    <3>1. CleanFile(g)
      BY <2>1, <2>2, <2>3, <2>6 DEF CleanFile
    <3> QED
      BY <1>2, <1>7, <2>3, <2>5, <2>6, <3>1 DEF f
  <2>7. CASE g = WithFrame(b, FALSE)
    <3>1. g.head = "ok" /\ Bytes(g) = Bytes(b) + TornLen /\ SameRead(b, g)
      BY <1>7, <2>1, <2>2, <2>7, WithFrameAre
    <3>2. Placed(g)
      BY <1>7, <2>2, <2>3, <2>7, PlacedAppend
    <3>3. CleanFile(g)
      BY <3>1, <3>2 DEF CleanFile
    <3>4. \A k \in Nat : Readable(b, k) => Readable(g, k) /\ g.frames[k].rec = b.frames[k].rec
      BY <3>1, SameReadAre
    <3>5. Bytes(g) <= Bytes(f)
      BY <1>1, <1>3, <2>3, <2>4, <3>1
    <3> QED
      BY <1>2, <1>7, <2>5, <3>3, <3>4, <3>5 DEF f
  <2> QED
    BY <2>1, <2>6, <2>7
<1>8. pc \in {"header", "frame", "sync"}
  BY DEF Types, WriterOk
<1> QED
  BY <1>4, <1>5, <1>6, <1>7, <1>8

LEMMA CleanDiskCrash ==
  ASSUME Types, Ordered, CleanDisk, CleanWriter, Crash
  PROVE  CleanDisk'
<1>1. phase' = "down"
  BY CrashIs
<1>2. CASE files' = files
  BY <1>1, <1>2, CleanDiskSame
<1>3. ASSUME pc # "idle", NEW g \in Remains, files' = [files EXCEPT ![current] = g]
      PROVE  CleanDisk'
  <2>1. CleanFile(g) /\ current \in DOMAIN files /\ phase = "open"
    BY <1>3, CleanRemains, CurrentType
  <2>2. \A j \in DOMAIN files' : CleanFile(files'[j])
    BY <1>3, <2>1 DEF CleanDisk
  <2>3. TornLast'
    <3>1. SUFFICES ASSUME NEW j \in DOMAIN files', NEW k \in 1..Len(files'[j].frames),
                          ~files'[j].frames[k].whole
                   PROVE  \A l \in DOMAIN files' : l <= j
      BY DEF TornLast
    <3>2. j = current
      BY <1>3, <2>1, <3>1 DEF CleanDisk, Sound
    <3> QED
      BY <1>3, <2>1, <3>2 DEF Ordered
  <2> QED
    BY <1>1, <2>2, <2>3 DEF CleanDisk
<1> QED
  BY <1>2, <1>3, CrashIs
LEMMA CleanDiskOther ==
  ASSUME Types, CleanDisk, Scanned, Clean,
         OpenBegin \/ OpenDone \/ Sync \/ HeaderFails \/ FrameFails \/ SyncFails \/ Seal \/ Quiet
  PROVE  CleanDisk'
<1>1. DOMAIN files' = DOMAIN files /\ \A i \in DOMAIN files : files'[i] = files[i]
  <2>1. CASE HeaderFails \/ FrameFails \/ SyncFails
    BY <2>1, CleanFails
  <2>2. CASE OpenBegin \/ OpenDone \/ Sync \/ Seal \/ Quiet
    <3>1. files' = files
      BY <2>2, SyncIs, SealIs, TypesOther DEF OpenBegin, OpenDone, Opened, disk
    <3> QED
      BY <3>1
  <2> QED
    BY <2>1, <2>2
<1>2. phase' = "open" => phase = "open" \/ \A i \in DOMAIN files : Sound(files[i])
  <2>1. CASE OpenDone
    <3>1. phase = "opening" /\ left = {}
      BY <2>1 DEF OpenDone, Opened
    <3> QED
      BY <3>1 DEF Scanned
  <2>2. CASE HeaderFails \/ FrameFails \/ SyncFails
    BY <2>2, FailsAre
  <2>3. CASE OpenBegin \/ Sync \/ Seal \/ Quiet
    BY <2>3, SyncIs, SealIs, TypesOther DEF OpenBegin
  <2> QED
    BY <2>1, <2>2, <2>3
<1> QED
  BY <1>1, <1>2, CleanDiskSame

LEMMA CleanDiskStep ==
  ASSUME Types, Ordered, Scanned, CleanDisk, CleanWriter, Clean, [Next]_vars
  PROVE  CleanDisk'
<1>1. ASSUME NEW i \in left, Opens(i) PROVE CleanDisk'
  BY <1>1, CleanDiskOpens
<1>2. ASSUME NEW len \in FrameLens, AppendBegin(len) PROVE CleanDisk'
  <2>1. PICK g : g = FileAt(current')
    OBVIOUS
  <2>2. CleanFile(g) /\ Sound(g)
    BY <1>2, <2>1, CleanBegins
  <2>3. /\ phase = "open" /\ DOMAIN files' = DOMAIN files \cup {current'}
        /\ \A j \in DOMAIN files : files'[j] = files[j]
        /\ files'[current'] = g
    BY <1>2, <2>1, AppendBeginIs
  <2> QED
    BY <2>2, <2>3, CleanDiskWrites
<1>3. CASE WriteHeader \/ WriteFrame
  <2>1. phase = "open" /\ current \in DOMAIN files
    BY <1>3, CurrentType DEF WriteHeader, WriteFrame
  <2>2. PICK g \in Files : files' = [files EXCEPT ![current] = g] /\ Sound(g) /\ CleanFile(g)
    BY <1>3, CleanHeads, CleanFrames
  <2>3. /\ DOMAIN files' = DOMAIN files \cup {current} /\ files'[current] = g
        /\ \A j \in DOMAIN files \ {current} : files'[j] = files[j]
    BY <2>1, <2>2, FilesWritten
  <2> QED
    BY <2>1, <2>2, <2>3, CleanDiskWrites
<1>4. CASE Crash
  BY <1>4, CleanDiskCrash
<1>5. CASE OpenBegin \/ OpenDone \/ Sync \/ HeaderFails \/ FrameFails \/ SyncFails \/ Seal \/ Quiet
  BY <1>5, CleanDiskOther
<1> QED
  BY <1>1, <1>2, <1>3, <1>4, <1>5, Steps

-----------------------------------------------------------------------------
(* A clean disk: the writer and the budget *)

LEMMA CleanWriterSame ==
  ASSUME CleanWriter, UNCHANGED <<pc, phase, current, currentLen>>, pc = "idle",
         DOMAIN files' = DOMAIN files, \A i \in DOMAIN files : files'[i] = files[i]
  PROVE  CleanWriter'
<1>1. FileAt(current)' = FileAt(current)
  BY DEF FileAt
<1> QED
  BY <1>1 DEF CleanWriter

LEMMA CleanWriterStep ==
  ASSUME Types, Types', Ordered, CleanDisk, CleanWriter, Clean, [Next]_vars
  PROVE  CleanWriter'
<1>1. ASSUME pc' = "idle", phase' # "open" PROVE CleanWriter'
  BY <1>1 DEF CleanWriter
<1>2. CASE OpenBegin \/ Crash
  <2>1. pc' = "idle" /\ phase' # "open"
    BY <1>2 DEF OpenBegin, Crash, Types, WriterOk
  <2> QED
    BY <1>1, <2>1
<1>3. ASSUME NEW i \in left, Opens(i) PROVE CleanWriter'
  <2>1. pc' = "idle" /\ phase' # "open"
    BY <1>3, OpensAre DEF Types, ScanOk, WriterOk
  <2> QED
    BY <1>1, <2>1
<1>4. CASE OpenDone
  <2>1. pc' = "idle" /\ currentLen' = Bytes(FileAt(current')) /\ files' = files
    BY <1>4 DEF OpenDone, Opened, Types, WriterOk, disk
  <2>2. FileAt(current)' = FileAt(current')
    BY <2>1 DEF FileAt
  <2> QED
    BY <2>1, <2>2 DEF CleanWriter
<1>5. ASSUME NEW len \in FrameLens, AppendBegin(len) PROVE CleanWriter'
  <2>1. PICK g : g = FileAt(current')
    OBVIOUS
  <2>2. /\ currentLen' = Bytes(g)
        /\ pc' = "header" => g.head = "none"
        /\ pc' = "frame" => g.head = "ok"
    BY <1>5, <2>1, CleanBegins
  <2>3. files'[current'] = g /\ current' \in DOMAIN files' /\ pc' \in {"header", "frame"}
    BY <1>5, <2>1, AppendBeginIs
  <2>4. FileAt(current)' = g
    BY <2>3 DEF FileAt
  <2> QED
    BY <2>2, <2>3, <2>4 DEF CleanWriter
<1>6. CASE WriteHeader
  <2>1. PICK g \in Files : /\ files' = [files EXCEPT ![current] = g]
                           /\ g.head = "ok" /\ Bytes(g) = HeaderLen
    BY <1>6, CleanHeads
  <2>2. pc' = "frame" /\ currentLen' = HeaderLen /\ current' = current /\ current \in DOMAIN files
    BY <1>6, CurrentType DEF WriteHeader
  <2>3. files'[current'] = g /\ FileAt(current)' = g
    BY <2>1, <2>2 DEF FileAt
  <2> QED
    BY <2>1, <2>2, <2>3 DEF CleanWriter
<1>7. CASE WriteFrame
  <2>1. PICK g \in Files : /\ files' = [files EXCEPT ![current] = g]
                           /\ g.head = "ok" /\ g.frames # <<>>
                           /\ LastFrame(g).rec = [seq |-> nextSeq, draft |-> writing.draft]
                           /\ LastFrame(g).len = writing.len
                           /\ LastFrame(g).at = Bytes(files[current])
    BY <1>7, CleanFrames
  <2>2. /\ pc = "frame" /\ pc' = "sync" /\ current \in DOMAIN files /\ phase = "open"
        /\ UNCHANGED <<current, currentLen, nextSeq, writing>>
    BY <1>7, CurrentType DEF WriteFrame, writer
  <2>3. currentLen = Bytes(files[current])
    BY <2>2 DEF CleanWriter, FileAt
  <2>4. files'[current'] = g
    BY <2>1, <2>2
  <2> QED
    BY <2>1, <2>2, <2>3, <2>4 DEF CleanWriter
<1>8. CASE Sync
  <2> DEFINE f == files[current]
  <2>1. /\ pc = "sync" /\ current \in DOMAIN files /\ f \in Files /\ pc' = "idle"
        /\ files' = files /\ current' = current /\ currentLen' = currentLen + writing.len
    BY <1>8, SyncIs, CurrentType
  <2>2. f.frames # <<>> /\ LastFrame(f).at = currentLen /\ LastFrame(f).len = writing.len
    BY <2>1 DEF CleanWriter
  <2>3. Bytes(f) = currentLen'
    BY <2>1, <2>2, BytesType DEF LastFrame
  <2>4. FileAt(current)' = f
    BY <2>1 DEF FileAt
  <2> QED
    BY <2>1, <2>3, <2>4 DEF CleanWriter
<1>9. CASE HeaderFails \/ FrameFails \/ SyncFails
  <2>1. /\ pc \in {"header", "frame"} /\ DOMAIN files' = DOMAIN files
        /\ \A j \in DOMAIN files : files'[j] = files[j]
    BY <1>9, CleanFails
  <2>2. pc' = "idle" /\ UNCHANGED <<phase, current, currentLen>> /\ phase = "open"
    BY <1>9, FailsAre, CurrentType DEF writer
  <2>3. FileAt(current)' = FileAt(current)
    BY <2>1, <2>2 DEF FileAt
  <2> QED
    BY <2>1, <2>2, <2>3 DEF CleanWriter
<1>10. CASE Seal
  BY <1>10, SealIs, CleanWriterSame DEF disk, writer
<1>11. CASE Quiet
  <2>1. UNCHANGED <<files, pc, phase, current, currentLen, nextSeq, writing>>
    BY <1>11, TypesOther DEF writer
  <2>2. FileAt(current)' = FileAt(current)
    BY <2>1 DEF FileAt
  <2> QED
    BY <2>1, <2>2 DEF CleanWriter
<1> QED
  BY <1>2, <1>3, <1>4, <1>5, <1>6, <1>7, <1>8, <1>9, <1>10, <1>11, Steps
LEMMA BudgetTypes ==
  ASSUME Types
  PROVE  /\ DiskBytes \in Nat /\ totalLen \in Nat /\ writing.len \in Nat
         /\ DiskMax \in Nat /\ HeaderLen \in Nat \ {0}
         /\ pc # "idle" => writing.len \in Nat \ {0}
         /\ pc \in {"idle", "header", "frame", "sync"}
<1>1. writing.len \in FrameLens \cup {0}
  BY DEF Types, WriterOk
<1>2. DiskMax \in Nat /\ HeaderLen \in Nat \ {0} /\ FrameLens \subseteq Nat \ {0}
  BY SizesAssumption
<1>3. writing.len \in Nat
  <2>1. \A len \in FrameLens \cup {0} : len \in Nat
    BY <1>2
  <2> QED
    BY <1>1, <2>1
<1>4. totalLen \in Nat /\ pc \in {"idle", "header", "frame", "sync"}
  BY DEF Types, WriterOk
<1>5. pc # "idle" => writing.len \in Nat \ {0}
  BY CurrentType
<1> QED
  BY <1>2, <1>3, <1>4, <1>5, DiskBytesType

(* The segments weigh the same when none of them changes.                               *)
LEMMA DiskSame ==
  ASSUME Types, Types', DOMAIN files' = DOMAIN files, \A i \in DOMAIN files : files'[i] = files[i]
  PROVE  DiskBytes' = DiskBytes
<1>1. DiskBytes' + Weight(files, 0) = DiskBytes + Weight(files', 0) /\ DiskBytes \in Nat
      /\ DiskBytes' \in Nat /\ Weight(files, 0) \in Nat
  BY DiskMoves
<1>2. Weight(files', 0) = Weight(files, 0)
  BY DEF Weight
<1> QED
  BY <1>1, <1>2

(* What the disk weighs when append or a crash has changed the segment it writes to.    *)
LEMMA DiskWritten ==
  ASSUME Types, Types', NEW g \in Files, current \in DOMAIN files,
         files' = [files EXCEPT ![current] = g]
  PROVE  /\ DiskBytes' + Bytes(files[current]) = DiskBytes + Bytes(g)
         /\ DiskBytes \in Nat /\ DiskBytes' \in Nat /\ Bytes(g) \in Nat
         /\ Bytes(files[current]) \in Nat
<1>1. /\ DOMAIN files' = DOMAIN files /\ files'[current] = g
      /\ \A j \in DOMAIN files \ {current} : files'[j] = files[j]
  BY FilesWritten
<1>2. /\ DiskBytes' + Weight(files, current) = DiskBytes + Weight(files', current)
      /\ DiskBytes \in Nat /\ DiskBytes' \in Nat
  BY <1>1, DiskMoves
<1>3. Weight(files, current) = Bytes(files[current]) /\ Weight(files', current) = Bytes(g)
  BY <1>1 DEF Weight
<1>4. Bytes(g) \in Nat /\ Bytes(files[current]) \in Nat
  BY BytesType DEF Types, FilesOk
<1> QED
  BY <1>2, <1>3, <1>4

LEMMA BudgetOpens ==
  ASSUME Types, Types', CleanDisk, NEW i \in left, Opens(i)
  PROVE  DiskBytes' <= DiskBytes /\ DiskBytes' \in Nat
<1>1. /\ DOMAIN files' \subseteq DOMAIN files
      /\ \A j \in DOMAIN files' \ {i} : files'[j] = files[j]
      /\ DOMAIN files \ {i} \subseteq DOMAIN files'
  BY OpensKeep
<1>2. /\ DiskBytes \in Nat /\ DiskBytes' \in Nat
      /\ Weight(files, i) \in Nat /\ Weight(files', i) \in Nat
      /\ DiskBytes' + Weight(files, i) = DiskBytes + Weight(files', i)
  BY <1>1, DiskMoves
<1>3. Weight(files', i) <= Weight(files, i)
  <2>1. /\ i \in DOMAIN files' => Bytes(files'[i]) <= Bytes(files[i])
        /\ Bytes(files[i]) \in Nat /\ i \in DOMAIN files
    BY CleanDiskOpens, SegmentRead
  <2> QED
    BY <2>1 DEF Weight
<1> QED
  BY <1>2, <1>3

LEMMA BudgetCrash ==
  ASSUME Types, Types', CleanDisk, CleanWriter, CleanBudget, Crash
  PROVE  DiskBytes' <= DiskMax + HeaderLen
<1>1. CASE files' = files
  BY <1>1, DiskSame DEF CleanBudget
<1>2. ASSUME pc # "idle", NEW g \in Remains, files' = [files EXCEPT ![current] = g]
      PROVE  DiskBytes' <= DiskMax + HeaderLen
  <2>1. /\ g \in Files
        /\ pc = "header" => Bytes(g) <= Bytes(files[current]) + HeaderLen
        /\ pc = "frame" => Bytes(g) <= Bytes(files[current]) + writing.len
        /\ pc = "sync" => Bytes(g) <= Bytes(files[current])
        /\ current \in DOMAIN files /\ phase = "open"
    BY <1>2, CleanRemains, CurrentType
  <2>2. /\ DiskBytes' + Bytes(files[current]) = DiskBytes + Bytes(g)
        /\ DiskBytes \in Nat /\ DiskBytes' \in Nat /\ Bytes(g) \in Nat
        /\ Bytes(files[current]) \in Nat
    BY <1>2, <2>1, DiskWritten
  <2>3. CASE pc = "header"
    BY <2>1, <2>2, <2>3, BudgetTypes DEF CleanBudget
  <2>4. CASE pc = "frame"
    BY <2>1, <2>2, <2>4, BudgetTypes DEF CleanBudget
  <2>5. CASE pc = "sync"
    BY <2>1, <2>2, <2>5, BudgetTypes DEF CleanBudget
  <2> QED
    BY <1>2, <2>3, <2>4, <2>5, BudgetTypes
<1> QED
  BY <1>1, <1>2, CrashIs

LEMMA CleanBudgetStep ==
  ASSUME Types, Types', Ordered, CleanDisk, CleanWriter, CleanBudget, Clean, [Next]_vars
  PROVE  CleanBudget'
<1>1. /\ DiskBytes \in Nat /\ totalLen \in Nat /\ writing.len \in Nat
      /\ DiskMax \in Nat /\ HeaderLen \in Nat \ {0}
      /\ pc # "idle" => writing.len \in Nat \ {0}
      /\ pc \in {"idle", "header", "frame", "sync"}
  BY BudgetTypes
<1>2. ASSUME DiskBytes' <= DiskMax + HeaderLen, pc' = "idle",
             phase' = "open" => totalLen' = DiskBytes'
      PROVE  CleanBudget'
  BY <1>2 DEF CleanBudget
<1>3. CASE OpenBegin
  <2>1. pc' = "idle" /\ phase' # "open" /\ files' = files
    BY <1>3 DEF OpenBegin, Types, WriterOk, disk
  <2> QED
    BY <1>2, <2>1, DiskSame DEF CleanBudget
<1>4. ASSUME NEW i \in left, Opens(i) PROVE CleanBudget'
  <2>1. pc' = "idle" /\ phase' # "open"
    BY <1>4, OpensAre DEF Types, ScanOk, WriterOk
  <2>2. DiskBytes' <= DiskBytes /\ DiskBytes' \in Nat
    BY <1>4, BudgetOpens
  <2>3. DiskBytes' <= DiskMax + HeaderLen
    BY <1>1, <2>2 DEF CleanBudget
  <2> QED
    BY <1>2, <2>1, <2>3
<1>5. CASE OpenDone
  <2>1. pc' = "idle" /\ totalLen' = DiskBytes /\ files' = files
    BY <1>5 DEF OpenDone, Opened, Types, WriterOk, disk
  <2> QED
    BY <1>2, <2>1, DiskSame DEF CleanBudget
<1>6. ASSUME NEW len \in FrameLens, AppendBegin(len) PROVE CleanBudget'
  <2>1. /\ phase = "open" /\ pc = "idle" /\ pc' \in {"header", "frame"} /\ writing'.len = len
        /\ DOMAIN files' = DOMAIN files \cup {current'}
        /\ \A j \in DOMAIN files : files'[j] = files[j]
        /\ files'[current'] = FileAt(current')
    BY <1>6, AppendBeginIs
  <2>2. totalLen' = totalLen /\ totalLen + len <= DiskMax /\ len \in Nat
    BY <1>6, SizesAssumption DEF AppendBegin, Fits
  <2>3. PICK i : i = current'
    OBVIOUS
  <2>4. Weight(files', i) = Weight(files, i)
    <3>1. CASE i \in DOMAIN files
      BY <2>1, <3>1 DEF Weight
    <3>2. CASE i \notin DOMAIN files
      BY <2>1, <2>3, <3>2, NoFileIs DEF Weight, FileAt
    <3> QED
      BY <3>1, <3>2
  <2>5. DiskBytes' = DiskBytes
    <3>1. /\ DOMAIN files \ {i} = DOMAIN files' \ {i}
          /\ \A j \in DOMAIN files \ {i} : files'[j] = files[j]
      BY <2>1, <2>3
    <3>2. /\ DiskBytes \in Nat /\ DiskBytes' \in Nat
          /\ Weight(files, i) \in Nat /\ Weight(files', i) \in Nat
          /\ DiskBytes' + Weight(files, i) = DiskBytes + Weight(files', i)
      BY <3>1, DiskMoves
    <3> QED
      BY <2>4, <3>2
  <2>6. DiskBytes <= DiskMax + HeaderLen /\ totalLen = DiskBytes
    BY <2>1 DEF CleanBudget
  <2> QED
    BY <1>1, <2>1, <2>2, <2>5, <2>6 DEF CleanBudget
<1>7. CASE WriteHeader
  <2>1. PICK g \in Files : /\ files' = [files EXCEPT ![current] = g] /\ Bytes(g) = HeaderLen
                           /\ Bytes(files[current]) = 0
    BY <1>7, CleanHeads
  <2>2. /\ pc = "header" /\ pc' = "frame" /\ totalLen' = totalLen + HeaderLen
        /\ writing' = writing /\ phase = "open" /\ current \in DOMAIN files
    BY <1>7, CurrentType DEF WriteHeader
  <2>3. /\ DiskBytes' + Bytes(files[current]) = DiskBytes + Bytes(g)
        /\ DiskBytes' \in Nat
    BY <2>1, <2>2, DiskWritten
  <2>4. totalLen = DiskBytes /\ totalLen + writing.len <= DiskMax
    BY <2>2 DEF CleanBudget
  <2>5. /\ totalLen' = DiskBytes' /\ DiskBytes' <= DiskMax + HeaderLen
        /\ totalLen' + writing'.len <= DiskMax + HeaderLen
    <3>1. DiskBytes' = DiskBytes + HeaderLen
      <4>1. DiskBytes' + 0 = DiskBytes + HeaderLen /\ DiskBytes' \in Nat
        BY <2>1, <2>3
      <4> QED
        BY <4>1
    <3>2. totalLen' = totalLen + HeaderLen /\ writing'.len = writing.len
      BY <2>2
    <3> QED
      BY <1>1, <2>4, <3>1, <3>2
  <2> QED
    BY <2>2, <2>5 DEF CleanBudget
<1>8. CASE WriteFrame
  <2>1. PICK g \in Files : /\ files' = [files EXCEPT ![current] = g]
                           /\ Bytes(g) = Bytes(files[current]) + writing.len
    BY <1>8, CleanFrames
  <2>2. /\ pc = "frame" /\ pc' = "sync" /\ totalLen' = totalLen
        /\ writing' = writing /\ phase = "open" /\ current \in DOMAIN files
    BY <1>8, CurrentType DEF WriteFrame, writer
  <2>3. /\ DiskBytes' + Bytes(files[current]) = DiskBytes + Bytes(g)
        /\ DiskBytes' \in Nat /\ Bytes(files[current]) \in Nat
    BY <2>1, <2>2, DiskWritten
  <2>4. DiskBytes' = DiskBytes + writing.len
    BY <1>1, <2>1, <2>3
  <2>5. totalLen = DiskBytes /\ totalLen + writing.len <= DiskMax + HeaderLen
    BY <2>2 DEF CleanBudget
  <2> QED
    BY <1>1, <2>2, <2>4, <2>5 DEF CleanBudget
<1>9. CASE Sync
  <2>1. /\ pc = "sync" /\ pc' = "idle" /\ files' = files /\ totalLen' = totalLen + writing.len
    BY <1>9, SyncIs
  <2> QED
    BY <1>2, <2>1, DiskSame DEF CleanBudget
<1>10. CASE HeaderFails \/ FrameFails \/ SyncFails
  <2>1. /\ pc \in {"header", "frame"} /\ DOMAIN files' = DOMAIN files
        /\ \A j \in DOMAIN files : files'[j] = files[j]
    BY <1>10, CleanFails
  <2>2. pc' = "idle" /\ totalLen' = totalLen /\ phase = "open"
    BY <1>10, FailsAre, CurrentType DEF writer
  <2> QED
    BY <1>2, <2>1, <2>2, DiskSame DEF CleanBudget
<1>11. CASE Seal \/ Quiet
  <2>1. UNCHANGED <<files, pc, phase, totalLen, writing>>
    BY <1>11, SealIs, TypesOther DEF writer, disk
  <2>2. DiskBytes' = DiskBytes
    BY <2>1, DiskSame
  <2> QED
    BY <2>1, <2>2 DEF CleanBudget
<1>12. CASE Crash
  <2>1. pc' = "idle" /\ phase' # "open"
    BY <1>12, CrashIs
  <2> QED
    BY <1>2, <1>12, <2>1, BudgetCrash
<1> QED
  BY <1>3, <1>4, <1>5, <1>6, <1>7, <1>8, <1>9, <1>10, <1>11, <1>12, Steps
-----------------------------------------------------------------------------
(* A clean disk: the line of records to seal *)

LEMMA CleanLineStep ==
  ASSUME Types, Types', Numbers, Scanned, Clean, CleanLine, [Next]_vars
  PROVE  CleanLine'
<1>1. ASSUME phase' # "open" PROVE CleanLine'
  BY <1>1 DEF CleanLine
<1>2. ASSUME phase = "open", line' = line, applied' = applied PROVE CleanLine'
  BY <1>2 DEF CleanLine
<1>3. CASE OpenBegin \/ Crash
  BY <1>1, <1>3 DEF OpenBegin, Crash
<1>4. ASSUME NEW i \in left, Opens(i) PROVE CleanLine'
  <2>1. phase' # "open"
    BY <1>4, OpensAre DEF Types, ScanOk
  <2> QED
    BY <1>1, <2>1
<1>5. CASE OpenDone
  <2>1. phase = "opening" /\ line' = SortedBySeq(report.pending) /\ applied' = ckpt
    BY <1>5 DEF OpenDone, Opened
  <2>2. line' = report.pending
    BY <2>1, ReportInOrder
  <2>3. \A n \in 1..Len(report.pending) : ckpt < report.pending[n].seq
    BY <2>1 DEF Numbers
  <2>4. \A m, n \in 1..Len(report.pending) : m < n => report.pending[m].seq < report.pending[n].seq
    BY <2>1 DEF Scanned, Before
  <2> QED
    BY <2>1, <2>2, <2>3, <2>4 DEF CleanLine
<1>6. CASE (\E len \in FrameLens : AppendBegin(len)) \/ WriteHeader \/ WriteFrame
  <2>1. phase = "open" /\ line' = line /\ applied' = applied
    BY <1>6, CurrentType DEF AppendBegin, Called, WriteHeader, WriteFrame, owner
  <2> QED
    BY <1>2, <2>1
<1>7. CASE HeaderFails \/ FrameFails \/ SyncFails
  <2>1. phase = "open" /\ line' = line /\ applied' = applied
    BY <1>7, FailsAre, CurrentType DEF owner
  <2> QED
    BY <1>2, <2>1
<1>8. CASE Quiet
  <2>1. phase' = phase /\ line' = line /\ applied' = applied
    BY <1>8, TypesOther DEF owner
  <2> QED
    BY <1>1, <1>2, <2>1
<1>9. CASE Sync
  <2>1. /\ phase = "open" /\ line' = Append(line, Written) /\ Written.seq = nextSeq
        /\ applied' = applied
    BY <1>9, SyncIs DEF Written
  <2>2. line \in Seq(Records) /\ Written \in Records
    BY <1>9, SyncIs DEF Types, OwnerOk
  <2>3. /\ Len(line') = Len(line) + 1 /\ Len(line) \in Nat
        /\ line'[Len(line) + 1] = Written
        /\ \A n \in 1..Len(line) : line'[n] = line[n]
    BY <2>1, <2>2
  <2>4. applied < nextSeq /\ \A n \in 1..Len(line) : line[n].seq < nextSeq
    BY <2>1 DEF Numbers
  <2>5. ASSUME NEW n \in 1..Len(line') PROVE applied' < line'[n].seq
    <3>1. n \in 1..Len(line) \/ n = Len(line) + 1
      BY <2>3
    <3> QED
      BY <2>1, <2>3, <2>4, <3>1 DEF CleanLine
  <2>6. ASSUME NEW m \in 1..Len(line'), NEW n \in 1..Len(line'), m < n
        PROVE  line'[m].seq < line'[n].seq
    <3>1. m \in 1..Len(line) /\ (n \in 1..Len(line) \/ n = Len(line) + 1)
      BY <2>3, <2>6
    <3> QED
      BY <2>1, <2>3, <2>4, <2>6, <3>1 DEF CleanLine
  <2> QED
    BY <2>5, <2>6 DEF CleanLine
<1>10. CASE Seal
  <2>1. /\ phase = "open" /\ Len(line) \in Nat \ {0} /\ line[1].seq \in Nat
        /\ applied' = (IF applied >= line[1].seq THEN applied ELSE line[1].seq)
        /\ Len(line') = Len(line) - 1
        /\ \A n \in 1..Len(line') : n + 1 \in 1..Len(line) /\ line'[n] = line[n + 1]
    BY <1>10, SealIs
  <2>2. applied \in Nat /\ applied < line[1].seq
    BY <2>1 DEF CleanLine, Types, OwnerOk
  <2>3. applied' = line[1].seq
    BY <2>1, <2>2
  <2>4. ASSUME NEW n \in 1..Len(line') PROVE applied' < line'[n].seq
    <3>1. n + 1 \in 1..Len(line) /\ 1 \in 1..Len(line) /\ 1 < n + 1 /\ line'[n] = line[n + 1]
      BY <2>1
    <3> QED
      BY <2>1, <2>3, <3>1 DEF CleanLine
  <2>5. ASSUME NEW m \in 1..Len(line'), NEW n \in 1..Len(line'), m < n
        PROVE  line'[m].seq < line'[n].seq
    <3>1. /\ m + 1 \in 1..Len(line) /\ n + 1 \in 1..Len(line) /\ m + 1 < n + 1
          /\ line'[m] = line[m + 1] /\ line'[n] = line[n + 1]
      BY <2>1, <2>5
    <3> QED
      BY <2>1, <3>1 DEF CleanLine
  <2> QED
    BY <2>4, <2>5 DEF CleanLine
<1> QED
  BY <1>3, <1>4, <1>5, <1>6, <1>7, <1>8, <1>9, <1>10, Steps

-----------------------------------------------------------------------------
(* A clean disk: the numbers and the acknowledged records *)

(* A step that leaves these records above the checkpoint where they can be read.          *)
Keeping(R) ==
  \A i \in DOMAIN files : \A k \in Nat :
     Readable(files[i], k) /\ files[i].frames[k].rec \in R /\ files[i].frames[k].rec.seq > ckpt =>
        /\ i \in DOMAIN files' /\ Readable(files'[i], k)
        /\ files'[i].frames[k].rec = files[i].frames[k].rec

LEMMA KeepingSame ==
  ASSUME DOMAIN files \subseteq DOMAIN files', \A i \in DOMAIN files : files'[i] = files[i], NEW R
  PROVE  Keeping(R)
BY DEF Keeping

LEMMA KeepingWrites ==
  ASSUME NEW i, NEW g, DOMAIN files' = DOMAIN files,
         \A j \in DOMAIN files \ {i} : files'[j] = files[j], i \in DOMAIN files => files'[i] = g,
         NEW R,
         i \in DOMAIN files => \A k \in Nat :
            Readable(files[i], k) /\ files[i].frames[k].rec \in R =>
               Readable(g, k) /\ g.frames[k].rec = files[i].frames[k].rec
  PROVE  Keeping(R)
BY DEF Keeping

LEMMA RecordsRead ==
  ASSUME Types, NEW i \in DOMAIN files, NEW k \in Nat, Readable(files[i], k)
  PROVE  /\ files[i].frames[k].rec \in Records /\ files[i].frames[k].rec.seq \in Nat
         /\ files[i].frames[k].rec.draft \in Nat /\ Whole(files[i], k)
         /\ files[i] \in Files /\ k \in 1..Len(files[i].frames)
<1>1. files[i] \in Files /\ k \in 1..Len(files[i].frames) /\ Whole(files[i], k)
  BY ReadableWhole DEF Types, FilesOk
<1> QED
  BY <1>1, FrameType DEF Drafts

(* On a clean disk open takes away only segments whose records the checkpoint covers.     *)
LEMMA KeepingOpens ==
  ASSUME Types, Scanned, CleanDisk, NEW i \in left, \A j \in left : i <= j, Opens(i)
  PROVE  Keeping(Records)
<1>1. /\ DOMAIN files' \subseteq DOMAIN files
      /\ \A j \in DOMAIN files' \ {i} : files'[j] = files[j]
      /\ DOMAIN files \ {i} \subseteq DOMAIN files'
  BY OpensKeep
<1>2. /\ i \in DOMAIN files /\ files[i] \in Files /\ ckpt \in Nat /\ lastIndex \in Nat /\ i \in Nat
      /\ phase = "opening" /\ left \subseteq DOMAIN files /\ \A j \in DOMAIN files : j \in Nat
  BY SegmentRead DEF Types, FilesOk, ScanOk, OwnerOk, Indexes
<1>3. SUFFICES ASSUME NEW k \in Nat, Readable(files[i], k), files[i].frames[k].rec.seq > ckpt
               PROVE  /\ i \in DOMAIN files' /\ Readable(files'[i], k)
                      /\ files'[i].frames[k].rec = files[i].frames[k].rec
  BY <1>1 DEF Keeping
<1>4. i \in DOMAIN files' => SameRead(files[i], files'[i])
  BY OpensMore
<1>5. i \in DOMAIN files'
  <2>1. SUFFICES ASSUME i \notin DOMAIN files' PROVE FALSE
    OBVIOUS
  <2>2. CASE OpenQuarantineTorn(i)
    <3>1. Torn(files[i]) /\ i # lastIndex
      BY <2>2 DEF OpenQuarantineTorn
    <3>2. files[i].head = "ok"
      BY <1>3 DEF Readable
    <3>3. PICK l \in 1..Len(files[i].frames) : ~files[i].frames[l].whole
      BY <1>2, <3>1, <3>2, TornIs
    <3>4. \A j \in DOMAIN files : j <= i
      BY <1>2, <3>3 DEF CleanDisk, TornLast
    <3>5. lastIndex \in DOMAIN files /\ i <= lastIndex
      BY <1>2 DEF Scanned
    <3> QED
      BY <1>2, <3>1, <3>4, <3>5
  <2>3. CASE OpenQuarantineUnreadable(i)
    BY <1>2, <2>3 DEF OpenQuarantineUnreadable, Unreadable, CleanDisk, CleanFile
  <2>4. CASE OpenRemove(i)
    <3>1. Above(RecordsOf(files[i]), ckpt) = <<>>
      BY <2>4 DEF OpenRemove, PendingIn
    <3>2. files[i].frames[k].rec \in ToSet(Above(RecordsOf(files[i]), ckpt))
      BY <1>2, <1>3, AboveAre DEF Readable
    <3> QED
      BY <3>1, <3>2 DEF ToSet
  <2>5. CASE OpenTruncate(i) \/ OpenKeep(i)
    BY <1>2, <2>1, <2>5 DEF OpenTruncate, OpenKeep
  <2> QED
    BY <2>2, <2>3, <2>4, <2>5 DEF Opens
<1> QED
  BY <1>3, <1>4, <1>5, SameReadAre
LEMMA FilesWrittenKeep ==
  ASSUME Types, CleanDisk, CleanWriter, Clean,
         WriteHeader \/ WriteFrame \/ HeaderFails \/ FrameFails \/ SyncFails
  PROVE  Keeping(Records) /\ Keeping(acked)
<1>1. CASE HeaderFails \/ FrameFails \/ SyncFails
  <2>1. DOMAIN files' = DOMAIN files /\ \A j \in DOMAIN files : files'[j] = files[j]
    BY <1>1, CleanFails
  <2> QED
    BY <2>1, KeepingSame
<1>2. CASE WriteHeader \/ WriteFrame
  <2>1. current \in DOMAIN files /\ files[current] \in Files
    BY <1>2, CurrentType DEF WriteHeader, WriteFrame
  <2>2. PICK g \in Files :
           /\ files' = [files EXCEPT ![current] = g] /\ Sound(g) /\ g.head = "ok"
           /\ \A k \in 1..Len(files[current].frames) :
                k \in 1..Len(g.frames) /\ g.frames[k] = files[current].frames[k]
    <3>1. CASE WriteHeader
      <4>1. PICK g \in Files : /\ files' = [files EXCEPT ![current] = g] /\ Sound(g)
                               /\ g.head = "ok" /\ files[current].frames = <<>>
        BY <3>1, CleanHeads
      <4>2. 1..Len(files[current].frames) = {}
        BY <4>1
      <4> QED
        BY <4>1, <4>2
    <3>2. CASE WriteFrame
      BY <3>2, CleanFrames
    <3> QED
      BY <1>2, <3>1, <3>2
  <2>3. ASSUME NEW k \in Nat, Readable(files[current], k)
        PROVE  Readable(g, k) /\ g.frames[k].rec = files[current].frames[k].rec
    <3>1. k \in 1..Len(files[current].frames)
      BY <2>3, ReadableWhole
    <3>2. k \in 1..Len(g.frames) /\ g.frames[k] = files[current].frames[k]
      BY <2>2, <3>1
    <3>3. \A j \in 1..k : j \in 1..Len(g.frames)
      BY <2>2, <3>2 DEF Files
    <3> QED
      BY <2>2, <3>2, <3>3 DEF Sound, Readable
  <2>4. /\ DOMAIN files' = DOMAIN files /\ files'[current] = g
        /\ \A j \in DOMAIN files \ {current} : files'[j] = files[j]
    BY <2>1, <2>2, FilesWritten
  <2> QED
    BY <2>3, <2>4, KeepingWrites
<1> QED
  BY <1>1, <1>2

(* What append leaves alone before its frame is synced, and when it fails.                *)
LEMMA WritesKeep ==
  ASSUME Types, CleanDisk, CleanWriter, Clean,
         \/ \E len \in FrameLens : AppendBegin(len)
         \/ WriteHeader \/ WriteFrame \/ HeaderFails \/ FrameFails \/ SyncFails
  PROVE  /\ phase = "open" /\ phase' = "open"
         /\ UNCHANGED <<nextSeq, ckpt, line, applied, acked, sealed>>
         /\ Keeping(Records) /\ Keeping(acked)
         /\ calls \in Nat /\ calls' \in Nat /\ calls <= calls'
         /\ pc' # "idle" => pc # "idle" \/ calls < calls'
<1>1. ASSUME NEW len \in FrameLens, AppendBegin(len)
      PROVE  /\ phase = "open" /\ phase' = "open" /\ calls' = calls + 1
             /\ UNCHANGED <<nextSeq, ckpt, line, applied, acked, sealed>>
             /\ Keeping(Records) /\ Keeping(acked)
  <2>1. /\ phase = "open" /\ phase' = "open" /\ calls' = calls + 1
        /\ UNCHANGED <<nextSeq, ckpt, line, applied, acked, sealed>>
    BY <1>1 DEF AppendBegin, Called, owner
  <2>2. DOMAIN files \subseteq DOMAIN files' /\ \A j \in DOMAIN files : files'[j] = files[j]
    BY <1>1, AppendBeginIs
  <2> QED
    BY <2>1, <2>2, KeepingSame
<1>2. CASE WriteHeader \/ WriteFrame
  <2>1. /\ phase = "open" /\ phase' = "open" /\ calls' = calls /\ pc # "idle"
        /\ UNCHANGED <<nextSeq, ckpt, line, applied, acked, sealed>>
    BY <1>2, CurrentType DEF WriteHeader, WriteFrame, writer, owner, env
  <2> QED
    BY <1>2, <2>1, FilesWrittenKeep DEF Types, WriterOk
<1>3. CASE HeaderFails \/ FrameFails \/ SyncFails
  <2>1. /\ phase = "open" /\ phase' = "open" /\ calls' = calls /\ pc # "idle"
        /\ UNCHANGED <<nextSeq, ckpt, line, applied, acked, sealed>>
    BY <1>3, FailsAre, CurrentType DEF writer, owner
  <2> QED
    BY <1>3, <2>1, FilesWrittenKeep DEF Types, WriterOk
<1> QED
  BY <1>1, <1>2, <1>3 DEF Types, WriterOk

(* The frame that has been written and not yet been acknowledged.                         *)
LEMMA LastRead ==
  ASSUME Types, CleanDisk, CleanWriter, pc = "sync"
  PROVE  LET n == Len(files[current].frames)
         IN  /\ current \in DOMAIN files /\ n \in Nat \ {0} /\ Readable(files[current], n)
             /\ files[current].frames[n].rec = Written
<1>1. /\ current \in DOMAIN files /\ files[current] \in Files /\ phase = "open"
  BY CurrentType
<1>2. /\ files[current].head = "ok" /\ files[current].frames # <<>> /\ Sound(files[current])
      /\ LastFrame(files[current]).rec = Written
  BY <1>1 DEF CleanWriter, CleanDisk, Written
<1>3. Len(files[current].frames) \in Nat \ {0}
  BY <1>1, <1>2 DEF Files
<1> QED
  BY <1>1, <1>2, <1>3 DEF LastFrame, Readable, Sound

LEMMA NumberKept ==
  ASSUME Types, CleanNumber, phase = "open", phase' = "open", nextSeq' = nextSeq,
         ckpt' = ckpt, Keeping(Records)
  PROVE  CleanNumber'
<1> DEFINE n == nextSeq - 1
<1>1. InUse(DOMAIN files, n)
  BY DEF CleanNumber
<1>2. nextSeq' - 1 = n /\ n \in Nat /\ ckpt \in Nat
  BY DEF Types, WriterOk, OwnerOk, Indexes
<1> HIDE DEF n
<1>3. CASE n <= ckpt
  BY <1>2, <1>3 DEF CleanNumber, InUse
<1>4. CASE ~(n <= ckpt)
  <2>1. PICK i \in DOMAIN files, k \in Nat : Readable(files[i], k) /\ n = files[i].frames[k].rec.seq
    BY <1>1, <1>4 DEF InUse
  <2>2. files[i].frames[k].rec \in Records /\ files[i].frames[k].rec.seq > ckpt
    BY <1>2, <1>4, <2>1, RecordsRead
  <2>3. /\ i \in DOMAIN files' /\ Readable(files'[i], k)
        /\ files'[i].frames[k].rec = files[i].frames[k].rec
    BY <2>1, <2>2 DEF Keeping
  <2> QED
    BY <1>2, <2>1, <2>3 DEF CleanNumber, InUse
<1> QED
  BY <1>3, <1>4

LEMMA NumberOpens ==
  ASSUME Types, Scanned, CleanDisk, CleanNumber, NEW i \in left, \A j \in left : i <= j, Opens(i)
  PROVE  CleanNumber'
<1>1. /\ phase = "opening" /\ phase' = "opening" /\ left' = left \ {i} /\ ckpt' = ckpt
  BY OpensAre DEF Types, ScanOk
<1>2. /\ \A j \in DOMAIN files' \ {i} : files'[j] = files[j]
      /\ DOMAIN files \ {i} \subseteq DOMAIN files'
  BY OpensKeep
<1>3. Keeping(Records) /\ i \in DOMAIN files /\ files[i] \in Files /\ ckpt \in Nat
  BY KeepingOpens, SegmentRead
<1>4. PICK h : h = HighestSeq(RecordsOf(files[i]), report.last)
  OBVIOUS
<1>5. /\ report.last \in Nat /\ h \in Nat
      /\ h = report.last \/ \E k \in Nat : Readable(files[i], k) /\ h = files[i].frames[k].rec.seq
  BY <1>4, ReportGrows, SegmentRead
<1>6. report'.last = report.last \/ report'.last = h
  <2> DEFINE new == report.pending \o PendingIn(files[i])
  <2>1. report' = report \/ report' = [pending |-> new, last |-> h]
    BY <1>4, OpensAre
  <2> HIDE DEF new
  <2> QED
    BY <2>1
<1>7. PICK n : n = report'.last
  OBVIOUS
<1>8. SUFFICES ASSUME ~(n <= ckpt)
               PROVE  \E j \in DOMAIN files' \ left' : \E k \in Nat :
                         Readable(files'[j], k) /\ n = files'[j].frames[k].rec.seq
  BY <1>1, <1>7 DEF CleanNumber, InUse
<1>9. CASE n = report.last
  <2>1. PICK j \in DOMAIN files \ left, k \in Nat :
           Readable(files[j], k) /\ n = files[j].frames[k].rec.seq
    BY <1>1, <1>8, <1>9 DEF CleanNumber, InUse
  <2>2. j \in DOMAIN files' \ left' /\ files'[j] = files[j]
    BY <1>1, <1>2, <2>1
  <2> QED
    BY <2>1, <2>2
<1>10. CASE n = h /\ h # report.last
  <2>1. PICK k \in Nat : Readable(files[i], k) /\ n = files[i].frames[k].rec.seq
    BY <1>5, <1>10
  <2>2. files[i].frames[k].rec \in Records /\ files[i].frames[k].rec.seq > ckpt
    BY <1>3, <1>5, <1>8, <1>10, <2>1, RecordsRead
  <2>3. /\ i \in DOMAIN files' /\ Readable(files'[i], k)
        /\ files'[i].frames[k].rec = files[i].frames[k].rec
    BY <1>3, <2>1, <2>2 DEF Keeping
  <2> QED
    BY <1>1, <2>1, <2>3
<1> QED
  BY <1>6, <1>7, <1>9, <1>10

LEMMA CleanNumberStep ==
  ASSUME Types, Types', Numbers, Scanned, CleanDisk, CleanWriter, CleanNumber, Clean, [Next]_vars
  PROVE  CleanNumber'
<1>1. CASE OpenBegin
  BY <1>1 DEF OpenBegin, CleanNumber, InUse, NoReport, Types, OwnerOk, disk
<1>2. CASE Crash
  BY <1>2 DEF Crash, CleanNumber
<1>3. ASSUME NEW i \in left, \A j \in left : i <= j, Opens(i) PROVE CleanNumber'
  BY <1>3, NumberOpens
<1>4. CASE OpenDone
  <2>1. /\ phase = "opening" /\ phase' = "open" /\ left = {} /\ files' = files /\ ckpt' = ckpt
    BY <1>4 DEF OpenDone, Opened, disk
  <2>2. /\ nextSeq' = (IF report.last >= ckpt THEN report.last ELSE ckpt) + 1
        /\ report.last \in Nat /\ ckpt \in Nat
    BY <1>4, OpenDoneIs DEF Types, ScanOk, OwnerOk
  <2>3. InUse(DOMAIN files, report.last)
    BY <2>1 DEF CleanNumber
  <2>4. nextSeq' - 1 = report.last \/ nextSeq' - 1 = ckpt
    BY <2>2
  <2> QED
    BY <2>1, <2>2, <2>3, <2>4 DEF CleanNumber, InUse
<1>5. CASE \/ \E len \in FrameLens : AppendBegin(len)
           \/ WriteHeader \/ WriteFrame \/ HeaderFails \/ FrameFails \/ SyncFails
  <2>1. phase = "open" /\ phase' = "open" /\ nextSeq' = nextSeq /\ ckpt' = ckpt /\ Keeping(Records)
    BY <1>5, WritesKeep
  <2> QED
    BY <2>1, NumberKept
<1>6. CASE Sync
  <2>1. /\ pc = "sync" /\ phase' = "open" /\ nextSeq' = nextSeq + 1 /\ files' = files
    BY <1>6, SyncIs
  <2>2. PICK k \in Nat : /\ current \in DOMAIN files /\ Readable(files[current], k)
                         /\ files[current].frames[k].rec = Written
    BY <2>1, LastRead
  <2>3. nextSeq' - 1 = Written.seq
    BY <2>1 DEF Written, Types, WriterOk, Indexes
  <2> QED
    BY <2>1, <2>2, <2>3 DEF CleanNumber, InUse
<1>7. CASE Seal
  <2>1. phase = "open" /\ phase' = "open" /\ UNCHANGED <<nextSeq, ckpt, files>>
    BY <1>7, SealIs DEF writer, disk
  <2> QED
    BY <2>1, KeepingSame, NumberKept
<1>8. CASE Quiet
  <2>1. /\ UNCHANGED <<phase, nextSeq, files, left, report>>
        /\ ckpt' = ckpt \/ (ckpt' = applied /\ applied > ckpt)
    BY <1>8, TypesOther DEF writer, scan
  <2>2. ckpt \in Nat /\ ckpt' \in Nat /\ ckpt <= ckpt' /\ nextSeq - 1 \in Nat /\ report.last \in Nat
    BY <2>1 DEF Types, OwnerOk, WriterOk, ScanOk, Indexes
  <2>3. \A n \in Nat : n <= ckpt => n <= ckpt'
    BY <2>2
  <2> QED
    BY <2>1, <2>2, <2>3 DEF CleanNumber, InUse
<1> QED
  BY <1>1, <1>2, <1>3, <1>4, <1>5, <1>6, <1>7, <1>8, Steps
LEMMA AckedKept ==
  ASSUME Types, CleanAcked, acked' = acked, sealed' = sealed, ckpt' = ckpt, Keeping(acked),
         calls \in Nat, calls' \in Nat, calls <= calls',
         pc' # "idle" => pc # "idle" \/ calls < calls',
         phase' = "open" => phase = "open" /\ line' = line
  PROVE  CleanAcked'
<1>1. SUFFICES ASSUME NEW r \in acked
               PROVE  /\ r.draft <= calls' /\ (pc' # "idle" => r.draft < calls')
                      /\ \/ r.draft \in sealed
                         \/ Held(r)' /\ r.seq > ckpt /\ (phase' = "open" => r \in ToSet(line'))
  BY DEF CleanAcked
<1>2. r.draft \in Nat /\ r.seq \in Nat
  BY DEF Types, OwnerOk, Records, Drafts
<1>3. r.draft <= calls' /\ (pc' # "idle" => r.draft < calls')
  BY <1>2 DEF CleanAcked
<1>4. ASSUME r.draft \notin sealed
      PROVE  Held(r)' /\ r.seq > ckpt /\ (phase' = "open" => r \in ToSet(line'))
  <2>1. Held(r) /\ r.seq > ckpt /\ (phase = "open" => r \in ToSet(line))
    BY <1>4 DEF CleanAcked
  <2>2. PICK i \in DOMAIN files, k \in Nat : Readable(files[i], k) /\ files[i].frames[k].rec = r
    BY <2>1 DEF Held
  <2>3. i \in DOMAIN files' /\ Readable(files'[i], k) /\ files'[i].frames[k].rec = r
    BY <2>1, <2>2 DEF Keeping
  <2> QED
    BY <2>1, <2>3 DEF Held
<1> QED
  BY <1>3, <1>4

(* The write that a crash interrupts has not been acknowledged.                            *)
LEMMA KeepingCrash ==
  ASSUME Types, CleanDisk, CleanWriter, CleanAcked, Crash
  PROVE  Keeping(acked)
<1>1. CASE files' = files
  BY <1>1, KeepingSame
<1>2. ASSUME pc # "idle", NEW g \in Remains, files' = [files EXCEPT ![current] = g]
      PROVE  Keeping(acked)
  <2>1. /\ g \in Files /\ current \in DOMAIN files /\ files[current] \in Files
        /\ writing.draft = calls /\ calls \in Nat
        /\ \A k \in Nat : Readable(files[current], k)
                            /\ (pc = "sync" => k < Len(files[current].frames)) =>
             Readable(g, k) /\ g.frames[k].rec = files[current].frames[k].rec
    BY <1>2, CleanRemains, CurrentType DEF Types, WriterOk
  <2>2. /\ DOMAIN files' = DOMAIN files /\ files'[current] = g
        /\ \A j \in DOMAIN files \ {current} : files'[j] = files[j]
    BY <1>2, <2>1, FilesWritten
  <2>3. ASSUME NEW k \in Nat, Readable(files[current], k), files[current].frames[k].rec \in acked
        PROVE  Readable(g, k) /\ g.frames[k].rec = files[current].frames[k].rec
    <3>1. k \in 1..Len(files[current].frames) /\ Len(files[current].frames) \in Nat
      BY <2>1, <2>3, ReadableWhole DEF Files
    <3>2. SUFFICES ASSUME pc = "sync", k = Len(files[current].frames) PROVE FALSE
      BY <2>1, <2>3, <3>1
    <3>3. files[current].frames[k].rec = Written
      BY <3>2, LastRead
    <3>4. Written.draft = calls
      BY <2>1 DEF Written
    <3>5. Written.draft < calls
      BY <1>2, <2>3, <3>3 DEF CleanAcked
    <3> QED
      BY <2>1, <3>4, <3>5
  <2> QED
    BY <2>2, <2>3, KeepingWrites
<1> QED
  BY <1>1, <1>2, CrashIs

LEMMA AckedOpenDone ==
  ASSUME Types, Scanned, CleanAcked, OpenDone
  PROVE  CleanAcked'
<1>1. /\ phase = "opening" /\ left = {} /\ line' = SortedBySeq(report.pending) /\ ckpt \in Nat
      /\ UNCHANGED <<files, ckpt, pc, calls, sealed, acked>>
  BY DEF OpenDone, Opened, disk, env, Types, OwnerOk
<1>2. line' = report.pending
  BY <1>1, ReportInOrder
<1>3. ASSUME NEW r, Held(r), r.seq > ckpt PROVE r \in ToSet(report.pending)
  <2>1. PICK i \in DOMAIN files, k \in Nat : Readable(files[i], k) /\ files[i].frames[k].rec = r
    BY <1>3 DEF Held
  <2>2. k \in 1..Len(files[i].frames) /\ files[i] \in Files
    BY <2>1, RecordsRead
  <2>3. r \in ToSet(PendingIn(files[i]))
    BY <1>1, <1>3, <2>1, <2>2, AboveAre DEF PendingIn
  <2> QED
    BY <1>1, <2>3 DEF Scanned
<1>4. \A r : Held(r)' <=> Held(r)
  BY <1>1 DEF Held
<1> QED
  BY <1>1, <1>2, <1>3, <1>4 DEF CleanAcked

LEMMA AckedSync ==
  ASSUME Types, Numbers, CleanDisk, CleanWriter, CleanAcked, Sync
  PROVE  CleanAcked'
<1>1. /\ pc = "sync" /\ pc' = "idle" /\ phase = "open" /\ phase' = "open" /\ files' = files
      /\ Written \in Records /\ line' = Append(line, Written) /\ acked' = acked \cup {Written}
      /\ calls' = calls /\ sealed' = sealed /\ ckpt' = ckpt /\ line \in Seq(Records)
  BY SyncIs DEF env, disk, Types, OwnerOk
<1>2. Written.draft = calls /\ Written.seq = nextSeq /\ calls \in Nat
  BY <1>1, CurrentType DEF Written, Types, WriterOk
<1>3. ckpt < nextSeq /\ ckpt \in Nat /\ nextSeq \in Nat
  BY <1>1 DEF Numbers, Types, OwnerOk, WriterOk, Indexes
<1>4. Held(Written)
  <2>1. PICK k \in Nat : /\ current \in DOMAIN files /\ Readable(files[current], k)
                         /\ files[current].frames[k].rec = Written
    BY <1>1, LastRead
  <2> QED
    BY <2>1 DEF Held
<1>5. ToSet(line') = ToSet(line) \cup {Written}
  <2>1. /\ Len(line') = Len(line) + 1 /\ Len(line) \in Nat /\ line'[Len(line) + 1] = Written
        /\ \A n \in 1..Len(line) : line'[n] = line[n]
        /\ DOMAIN line = 1..Len(line) /\ DOMAIN line' = 1..Len(line')
    BY <1>1
  <2>2. \A n \in 1..Len(line') : n \in 1..Len(line) \/ n = Len(line) + 1
    BY <2>1
  <2>3. 1..Len(line) \subseteq 1..Len(line') /\ Len(line) + 1 \in 1..Len(line')
    BY <2>1
  <2> QED
    BY <2>1, <2>2, <2>3 DEF ToSet
<1>6. \A r : Held(r)' <=> Held(r)
  BY <1>1 DEF Held
<1>7. ASSUME NEW r \in acked'
      PROVE  /\ r.draft <= calls
             /\ \/ r.draft \in sealed
                \/ Held(r) /\ r.seq > ckpt /\ r \in ToSet(line')
  <2>1. CASE r = Written
    BY <1>2, <1>3, <1>4, <1>5, <2>1
  <2>2. CASE r \in acked
    BY <1>1, <1>5, <2>2 DEF CleanAcked
  <2> QED
    BY <1>1, <1>7, <2>1, <2>2
<1> QED
  BY <1>1, <1>6, <1>7 DEF CleanAcked

LEMMA AckedSeal ==
  ASSUME Types, CleanAcked, Seal
  PROVE  CleanAcked'
<1>1. /\ phase = "open" /\ pc = "idle" /\ Len(line) \in Nat \ {0} /\ Len(line') = Len(line) - 1
      /\ sealed' = sealed \cup {line[1].draft} /\ line \in Seq(Records) /\ line' \in Seq(Records)
      /\ \A n \in 1..Len(line') : n + 1 \in 1..Len(line) /\ line'[n] = line[n + 1]
      /\ UNCHANGED <<files, ckpt, phase, pc, acked, calls>>
  BY SealIs DEF disk, env, Types, OwnerOk
<1>2. ASSUME NEW r \in ToSet(line), r.draft \notin sealed' PROVE r \in ToSet(line')
  <2>1. PICK n \in 1..Len(line) : r = line[n]
    BY <1>1 DEF ToSet
  <2>2. n # 1
    BY <1>1, <1>2, <2>1
  <2>3. n - 1 \in 1..Len(line')
    BY <1>1, <2>2
  <2>4. line'[n - 1] = r
    BY <1>1, <2>1, <2>3
  <2>5. DOMAIN line' = 1..Len(line')
    BY <1>1
  <2> QED
    BY <2>3, <2>4, <2>5 DEF ToSet
<1>3. \A r : Held(r)' <=> Held(r)
  BY <1>1 DEF Held
<1> QED
  BY <1>1, <1>2, <1>3 DEF CleanAcked

LEMMA AckedQuiet ==
  ASSUME Types, CleanLine, CleanAcked, Quiet
  PROVE  CleanAcked'
<1>1. /\ UNCHANGED <<files, phase, pc, line, applied, sealed, acked>>
      /\ calls' \in {calls, calls + 1} /\ (calls' = calls \/ pc = "idle")
      /\ ckpt' = ckpt \/ (phase = "open" /\ ckpt' = applied)
      /\ calls \in Nat /\ line \in Seq(Records)
  BY TypesOther DEF owner, Types, WriterOk, OwnerOk
<1>2. ASSUME phase = "open", NEW r \in ToSet(line) PROVE r.seq > applied
  <2>1. PICK n \in 1..Len(line) : r = line[n]
    BY <1>1, <1>2 DEF ToSet
  <2>2. applied < line[n].seq
    BY <1>2 DEF CleanLine
  <2> QED
    BY <2>1, <2>2
<1>3. \A r : Held(r)' <=> Held(r)
  BY <1>1 DEF Held
<1>4. ASSUME NEW r \in acked
      PROVE  /\ r.draft <= calls' /\ (pc # "idle" => r.draft < calls')
             /\ \/ r.draft \in sealed
                \/ Held(r) /\ r.seq > ckpt' /\ (phase = "open" => r \in ToSet(line))
  <2>1. /\ r.draft <= calls /\ (pc # "idle" => r.draft < calls)
        /\ \/ r.draft \in sealed
           \/ Held(r) /\ r.seq > ckpt /\ (phase = "open" => r \in ToSet(line))
    BY DEF CleanAcked
  <2>2. r.draft \in Nat
    BY DEF Types, OwnerOk, Records, Drafts
  <2>3. r.draft <= calls' /\ (pc # "idle" => r.draft < calls')
    BY <1>1, <2>1, <2>2
  <2> QED
    BY <1>1, <1>2, <2>1, <2>3
<1> QED
  BY <1>1, <1>3, <1>4 DEF CleanAcked

LEMMA CleanAckedStep ==
  ASSUME Types, Numbers, Scanned, CleanDisk, CleanWriter, CleanLine, CleanAcked, Clean,
         [Next]_vars
  PROVE  CleanAcked'
<1>0. acked \subseteq Records /\ calls \in Nat
  BY DEF Types, OwnerOk, WriterOk
<1>1. CASE OpenBegin
  <2>1. /\ phase' # "open" /\ UNCHANGED <<files, acked, sealed, ckpt, calls, pc>>
    BY <1>1 DEF OpenBegin, disk, owner, env
  <2> QED
    BY <1>0, <2>1, KeepingSame, AckedKept
<1>2. ASSUME NEW i \in left, \A j \in left : i <= j, Opens(i) PROVE CleanAcked'
  <2>1. /\ phase' # "open" /\ UNCHANGED <<acked, sealed, ckpt, calls, pc>>
    BY <1>2, OpensAre DEF Types, ScanOk, owner, env
  <2>2. Keeping(acked)
    BY <1>0, <1>2, KeepingOpens DEF Keeping
  <2> QED
    BY <1>0, <2>1, <2>2, AckedKept
<1>3. CASE \/ \E len \in FrameLens : AppendBegin(len)
           \/ WriteHeader \/ WriteFrame \/ HeaderFails \/ FrameFails \/ SyncFails
  BY <1>3, WritesKeep, AckedKept
<1>4. CASE Crash
  <2>1. phase' # "open" /\ pc' = "idle" /\ UNCHANGED <<acked, sealed, ckpt, calls>>
    BY <1>4 DEF Crash
  <2>2. Keeping(acked)
    BY <1>4, KeepingCrash
  <2> QED
    BY <1>0, <2>1, <2>2, AckedKept
<1> QED
  BY <1>1, <1>2, <1>3, <1>4, AckedOpenDone, AckedSync, AckedSeal, AckedQuiet, Steps
-----------------------------------------------------------------------------
(* What holds on a clean disk *)

LEMMA CleanInit == Init => CleanInv
<1> SUFFICES ASSUME Init PROVE CleanInv
  OBVIOUS
<1>1. /\ files = <<>> /\ DOMAIN files = {} /\ phase = "down" /\ pc = "idle" /\ acked = {}
  BY DEF Init
<1>2. CleanDisk /\ CleanWriter /\ CleanLine /\ CleanNumber /\ CleanAcked
  BY <1>1 DEF CleanDisk, TornLast, CleanWriter, CleanLine, CleanNumber, CleanAcked
<1>3. DiskBytes = 0
  <2>1. BytesOf(files) = {}
    BY <1>1 DEF BytesOf
  <2> QED
    BY <2>1, FS_EmptySet DEF DiskBytes
<1>4. CleanBudget
  BY <1>1, <1>3, SizesAssumption DEF CleanBudget
<1> QED
  BY <1>2, <1>4 DEF CleanInv

(* No step changes what the disk can do.                                                  *)
LEMMA FaultsStay ==
  ASSUME [Next]_vars
  PROVE  faults' = faults
<1>1. ASSUME NEW i \in left, Opens(i) PROVE faults' = faults
  BY <1>1, OpensAre DEF env
<1>2. CASE HeaderFails \/ FrameFails \/ SyncFails
  BY <1>2 DEF HeaderFails, FrameFails, SyncFails, Refused
<1>3. CASE Quiet
  BY <1>3 DEF Quiet, Checkpoint, AppendBusy, vars, env
<1>4. CASE OpenBegin \/ OpenDone \/ WriteHeader \/ WriteFrame \/ Sync \/ Seal \/ Crash
  BY <1>4 DEF OpenBegin, OpenDone, Opened, WriteHeader, WriteFrame, Sync, SyncAs, Seal, Crash, env
<1>5. ASSUME NEW len \in FrameLens, AppendBegin(len) PROVE faults' = faults
  BY <1>5 DEF AppendBegin
<1> QED
  BY <1>1, <1>2, <1>3, <1>4, <1>5, Steps

LEMMA CleanStep ==
  ASSUME Base, CleanInv, [Next]_vars
  PROVE  CleanInv'
<1>1. Base' /\ Clean' = Clean
  BY BaseStep, FaultsStay DEF Clean
<1>2. SUFFICES ASSUME Clean
               PROVE  /\ CleanDisk' /\ CleanWriter' /\ CleanBudget' /\ CleanLine'
                      /\ CleanNumber' /\ CleanAcked'
  BY <1>1 DEF CleanInv
<1>3. /\ Types /\ Numbers /\ Ordered /\ Scanned /\ Types'
      /\ CleanDisk /\ CleanWriter /\ CleanBudget /\ CleanLine /\ CleanNumber /\ CleanAcked
  BY <1>1, <1>2 DEF Base, CleanInv
<1> QED
  BY <1>2, <1>3, CleanDiskStep, CleanWriterStep, CleanBudgetStep, CleanLineStep,
     CleanNumberStep, CleanAckedStep

LEMMA CleanHolds == Spec => [](Base /\ CleanInv)
<1>1. Init => Base /\ CleanInv
  BY BaseInit, CleanInit
<1>2. Base /\ CleanInv /\ [Next]_vars => (Base /\ CleanInv)'
  BY BaseStep, CleanStep
<1> QED
  BY <1>1, <1>2, PTL DEF Spec

(* The types of the log, and its budget: on a disk whose failing writes leave nothing,    *)
(* the segments never weigh more than queue_max_disk_bytes and one header, which append   *)
(* does not count, and total_len is what they weigh whenever append is not at work.        *)
THEOREM TypeOKCorrect == Spec => []TypeOK
<1>1. Base /\ CleanInv => TypeOK
  <2> SUFFICES ASSUME Base, CleanInv PROVE TypeOK
    OBVIOUS
  <2>1. FilesOk /\ CorruptOk /\ WriterOk /\ ScanOk /\ OwnerOk
    BY DEF Base, Types
  <2>2. Clean => /\ DiskBytes <= DiskMax + HeaderLen
                 /\ (phase = "open" /\ pc = "idle") => totalLen = DiskBytes
    BY DEF CleanInv, CleanBudget
  <2>3. \A d \in {files, corrupt} :
          DOMAIN d \subseteq Indexes /\ \A i \in DOMAIN d : d[i] \in Files
    BY <2>1 DEF FilesOk, CorruptOk
  <2>4. /\ {ckpt, currentLen, totalLen, lastIndex, applied, calls, fails, crashes} \subseteq Nat
        /\ {current, nextSeq} \subseteq Indexes
    BY <2>1 DEF OwnerOk, WriterOk, ScanOk
  <2>5. left \subseteq Indexes
    BY <2>1 DEF FilesOk, ScanOk
  <2> QED
    BY <2>1, <2>2, <2>3, <2>4, <2>5 DEF OwnerOk, WriterOk, ScanOk, TypeOK
<1> QED
  BY <1>1, CleanHolds, PTL

(* Whatever append acknowledged is settled, or the next open finds it above the            *)
(* checkpoint, through rotations, checkpoints, crashes inside append and inside open, and   *)
(* writes that fail without leaving anything.                                               *)
THEOREM AckedRecoverableCorrect == Spec => []AckedRecoverable
<1>1. Base /\ CleanInv => AckedRecoverable
  <2> SUFFICES ASSUME Base, CleanInv, Clean, NEW r \in acked, r.draft \notin sealed
               PROVE  r \in PendingOf(DOMAIN files)
    BY DEF AckedRecoverable, AckedOnDisk
  <2>1. Types /\ Held(r) /\ r.seq > ckpt /\ ckpt \in Nat
    BY DEF Base, CleanInv, CleanAcked, Types, OwnerOk
  <2>2. PICK i \in DOMAIN files, k \in Nat : Readable(files[i], k) /\ files[i].frames[k].rec = r
    BY <2>1 DEF Held
  <2>3. k \in 1..Len(files[i].frames) /\ files[i] \in Files
    BY <2>1, <2>2, RecordsRead
  <2>4. r \in ToSet(PendingIn(files[i]))
    BY <2>1, <2>2, <2>3, AboveAre DEF PendingIn
  <2> QED
    BY <2>4 DEF PendingOf
<1> QED
  BY <1>1, CleanHolds, PTL
-----------------------------------------------------------------------------
(* The log that the segments implement *)

(* A record that counts: it can be read, and it is not the one append is still to sync.   *)
Counts(i, k) ==
  /\ i \in DOMAIN files /\ k \in Nat /\ Readable(files[i], k)
  /\ pc = "sync" /\ i = current => k < Len(files[i].frames)
Logged(r) == \E i, k : Counts(i, k) /\ files[i].frames[k].rec = r

(* What the mapping of Log says, record by record.                                        *)
OnDiskHas == \A r : r \in OnDisk <=> Logged(r) /\ r.seq > ckpt
Highest(n) ==
  /\ n \in Nat /\ ckpt <= n /\ \A r : Logged(r) => r.seq \in Nat /\ r.seq <= n
  /\ n = ckpt \/ \E r : Logged(r) /\ r.seq = n
Mapped == OnDiskHas /\ Highest(HighestUsed)

LEMMA DurableAre ==
  ASSUME Types, CleanWriter
  PROVE  /\ DOMAIN Durable = DOMAIN files
         /\ \A i \in DOMAIN files :
              /\ Durable[i] \in Files
              /\ \A k \in Nat :
                   /\ Readable(Durable[i], k) <=> Counts(i, k)
                   /\ Readable(Durable[i], k) => Durable[i].frames[k].rec = files[i].frames[k].rec
<1>1. CASE pc # "sync"
  BY <1>1 DEF Durable, Counts, Types, FilesOk
<1>2. CASE pc = "sync"
  <2> DEFINE f == files[current]
             g == [f EXCEPT !.frames = Front(@)]
  <2>1. current \in DOMAIN files /\ f \in Files /\ f.frames # <<>>
    BY <1>2, CurrentType DEF CleanWriter
  <2>2. /\ g \in Files /\ g.head = f.head /\ Len(g.frames) = Len(f.frames) - 1
        /\ \A k \in 1..Len(g.frames) : k \in 1..Len(f.frames) /\ g.frames[k] = f.frames[k]
        /\ Len(f.frames) \in Nat
    BY <2>1, FrameTaken DEF Files
  <2>3. Durable = [files EXCEPT ![current] = g]
    BY <1>2 DEF Durable
  <2> HIDE DEF g
  <2>4. ASSUME NEW k \in Nat
        PROVE  /\ Readable(g, k) <=> Readable(f, k) /\ k < Len(f.frames)
               /\ Readable(g, k) => g.frames[k].rec = f.frames[k].rec
    <3>1. k \in 1..Len(g.frames) <=> k \in 1..Len(f.frames) /\ k < Len(f.frames)
      BY <2>2
    <3>2. ASSUME k \in 1..Len(g.frames)
          PROVE  \A j \in 1..k : j \in 1..Len(g.frames) /\ g.frames[j] = f.frames[j]
      BY <2>2, <3>2
    <3> QED
      BY <2>2, <3>1, <3>2 DEF Readable
  <2>5. /\ DOMAIN Durable = DOMAIN files /\ Durable[current] = g
        /\ \A i \in DOMAIN files \ {current} : Durable[i] = files[i]
    BY <2>1, <2>3
  <2>6. ASSUME NEW i \in DOMAIN files
        PROVE  /\ Durable[i] \in Files
               /\ \A k \in Nat :
                    /\ Readable(Durable[i], k) <=> Counts(i, k)
                    /\ Readable(Durable[i], k) => Durable[i].frames[k].rec = files[i].frames[k].rec
    <3>1. CASE i = current
      BY <1>2, <2>1, <2>2, <2>4, <2>5, <3>1 DEF Counts
    <3>2. CASE i # current
      BY <2>5, <3>2 DEF Counts, Types, FilesOk
    <3> QED
      BY <3>1, <3>2
  <2> QED
    BY <2>5, <2>6
<1> QED
  BY <1>1, <1>2

LEMMA MappedIs == Types /\ CleanWriter => Mapped
<1> SUFFICES ASSUME Types, CleanWriter PROVE Mapped
  OBVIOUS
<1>1. /\ \A i \in DOMAIN files :
           /\ Durable[i] \in Files
           /\ \A k \in Nat :
                /\ Readable(Durable[i], k) <=> Counts(i, k)
                /\ Readable(Durable[i], k) => Durable[i].frames[k].rec = files[i].frames[k].rec
      /\ ckpt \in Nat /\ IsFiniteSet(DOMAIN files)
  BY DurableAre DEF Types, OwnerOk, FilesOk
<1>2. ASSUME NEW r, Logged(r)
      PROVE  \E i \in DOMAIN files : \E k \in 1..Len(Durable[i].frames) :
                Readable(Durable[i], k) /\ Durable[i].frames[k].rec = r
  <2>1. PICK i, k : Counts(i, k) /\ files[i].frames[k].rec = r
    BY <1>2 DEF Logged
  <2>2. i \in DOMAIN files /\ k \in Nat
    BY <2>1 DEF Counts
  <2>3. Readable(Durable[i], k) /\ Durable[i].frames[k].rec = r
    BY <1>1, <2>1, <2>2
  <2>4. k \in 1..Len(Durable[i].frames)
    BY <2>2, <2>3, ReadableWhole
  <2> QED
    BY <2>2, <2>3, <2>4
<1>3. ASSUME NEW i \in DOMAIN files, NEW k \in Nat, Readable(Durable[i], k)
      PROVE  Logged(Durable[i].frames[k].rec)
  BY <1>1, <1>3 DEF Logged
<1>4. OnDiskHas
  <2>1. ASSUME NEW r, r \in OnDisk PROVE Logged(r) /\ r.seq > ckpt
    <3>1. PICK i \in DOMAIN files : r \in ToSet(PendingIn(Durable[i]))
      BY <2>1 DEF OnDisk
    <3>2. PICK k \in 1..Len(Durable[i].frames) :
             Readable(Durable[i], k) /\ Durable[i].frames[k].rec = r /\ r.seq > ckpt
      BY <1>1, <3>1, AboveAre DEF PendingIn
    <3> QED
      BY <1>3, <3>2
  <2>2. ASSUME NEW r, Logged(r), r.seq > ckpt PROVE r \in OnDisk
    <3>1. PICK i \in DOMAIN files : \E k \in 1..Len(Durable[i].frames) :
             Readable(Durable[i], k) /\ Durable[i].frames[k].rec = r
      BY <1>2, <2>2
    <3>2. r \in ToSet(PendingIn(Durable[i]))
      BY <1>1, <2>2, <3>1, AboveAre DEF PendingIn
    <3> QED
      BY <3>2 DEF OnDisk
  <2> QED
    BY <2>1, <2>2 DEF OnDiskHas
<1>5. Highest(HighestUsed)
  <2> DEFINE R == UNION {ToSet(RecordsOf(Durable[i])) : i \in DOMAIN files}
             S == {ckpt} \cup {r.seq : r \in R}
  <2>1. \A i \in DOMAIN files : /\ RecordsOf(Durable[i]) \in Seq(Records)
                                /\ IsFiniteSet(ToSet(RecordsOf(Durable[i])))
                                /\ ToSet(RecordsOf(Durable[i])) \subseteq Records
    BY <1>1, RecordsAre, RangeFinite
  <2>2. \A r : r \in R <=> Logged(r)
    <3>1. ASSUME NEW r, r \in R PROVE Logged(r)
      <4>1. PICK i \in DOMAIN files : r \in ToSet(RecordsOf(Durable[i]))
        BY <3>1
      <4>2. PICK k \in 1..Len(RecordsOf(Durable[i])) : r = RecordsOf(Durable[i])[k]
        BY <2>1, <4>1 DEF ToSet
      <4>3. Readable(Durable[i], k) /\ r = Durable[i].frames[k].rec
        BY <1>1, <4>2, RecordsAre
      <4> QED
        BY <1>3, <4>3
    <3>2. ASSUME NEW r, Logged(r) PROVE r \in R
      <4>0. PICK i \in DOMAIN files : \E k \in 1..Len(Durable[i].frames) :
               Readable(Durable[i], k) /\ Durable[i].frames[k].rec = r
        BY <1>2, <3>2
      <4>1. PICK k \in 1..Len(Durable[i].frames) :
               Readable(Durable[i], k) /\ Durable[i].frames[k].rec = r
        BY <4>0
      <4>2. k \in 1..Len(RecordsOf(Durable[i]))
        BY <1>1, <4>1, RecordsAre
      <4>3. RecordsOf(Durable[i])[k] = r
        BY <1>1, <4>1, <4>2, RecordsAre
      <4>4. DOMAIN RecordsOf(Durable[i]) = 1..Len(RecordsOf(Durable[i]))
        BY <2>1
      <4>5. r \in ToSet(RecordsOf(Durable[i]))
        BY <4>2, <4>3, <4>4 DEF ToSet
      <4> QED
        BY <4>5
    <3> QED
      BY <3>1, <3>2
  <2>3. IsFiniteSet(R)
    <3>1. IsFiniteSet({ToSet(RecordsOf(Durable[i])) : i \in DOMAIN files})
      <4> DEFINE h == [i \in DOMAIN files |-> ToSet(RecordsOf(Durable[i]))]
      <4>1. h = [i \in DOMAIN files |-> h[i]]
        OBVIOUS
      <4>2. {h[i] : i \in DOMAIN files} = {ToSet(RecordsOf(Durable[i])) : i \in DOMAIN files}
        OBVIOUS
      <4> HIDE DEF h
      <4>3. IsFiniteSet({h[i] : i \in DOMAIN files})
        BY <1>1, <4>1, ImageFinite
      <4> QED
        BY <4>2, <4>3
    <3> QED
      BY <2>1, <3>1, FS_UNION
  <2>4. R \subseteq Records
    BY <2>1
  <2> HIDE DEF R
  <2>5. IsFiniteSet({r.seq : r \in R}) /\ {r.seq : r \in R} \subseteq Nat
    <3> DEFINE h == [r \in R |-> r.seq]
    <3>1. h = [r \in R |-> h[r]]
      OBVIOUS
    <3>2. {h[r] : r \in R} = {r.seq : r \in R}
      OBVIOUS
    <3> HIDE DEF h
    <3>3. IsFiniteSet({h[r] : r \in R})
      BY <2>3, <3>1, ImageFinite
    <3>4. \A r \in R : r.seq \in Nat
      BY <2>4 DEF Records
    <3> QED
      BY <3>2, <3>3, <3>4
  <2>6. IsFiniteSet(S) /\ S \subseteq Nat /\ S # {}
    BY <1>1, <2>5, FS_Singleton, FS_Union
  <2>7. Max(S) \in S /\ \A x \in S : x <= Max(S)
    BY <2>6, MaxFinite
  <2>8. HighestUsed = Max(S)
    BY DEF HighestUsed, R
  <2>9. \A r : Logged(r) => r.seq \in S
    BY <2>2
  <2>10. Max(S) = ckpt \/ \E r : Logged(r) /\ r.seq = Max(S)
    BY <2>2, <2>7
  <2> HIDE DEF S
  <2>11. Max(S) \in Nat /\ ckpt <= Max(S)
    BY <2>6, <2>7 DEF S
  <2> QED
    BY <2>6, <2>7, <2>8, <2>9, <2>10, <2>11 DEF Highest
<1> QED
  BY <1>4, <1>5 DEF Mapped

LEMMA MappedNext == (Types /\ CleanWriter => Mapped)'
BY MappedIs, PTL

LEMMA HighestOnly ==
  ASSUME NEW m, NEW n, Highest(m), Highest(n)
  PROVE  m = n
<1>1. ckpt <= m /\ ckpt <= n /\ m \in Nat /\ n \in Nat
  BY DEF Highest
<1>2. m <= n
  BY <1>1 DEF Highest
<1>3. n <= m
  BY <1>1 DEF Highest
<1> QED
  BY <1>1, <1>2, <1>3

LEMMA HighestNext == (\A m, n : Highest(m) /\ Highest(n) => m = n)'
<1>1. \A m, n : Highest(m) /\ Highest(n) => m = n
  BY HighestOnly
<1> QED
  BY <1>1, PTL

(* The log stays when the records above the checkpoint stay.                               *)
LEMMA LogSame ==
  ASSUME Types, CleanWriter, Types', CleanWriter', ckpt' = ckpt,
         \A r : Logged(r) /\ r.seq > ckpt => Logged(r)',
         \A r : Logged(r)' /\ r.seq > ckpt => Logged(r)
  PROVE  UNCHANGED Log!vars
<1>1. Mapped /\ Mapped' /\ ckpt \in Nat
  BY MappedIs, MappedNext DEF Types, OwnerOk
<1>2. OnDisk' = OnDisk
  <2>1. \A r : r \in OnDisk <=> Logged(r) /\ r.seq > ckpt
    BY <1>1 DEF Mapped, OnDiskHas
  <2>2. \A r : r \in OnDisk' <=> Logged(r)' /\ r.seq > ckpt
    BY <1>1 DEF Mapped, OnDiskHas
  <2>3. \A r : r \in OnDisk' <=> r \in OnDisk
    BY <2>1, <2>2
  <2> QED
    BY <2>3
<1>3. HighestUsed' = HighestUsed
  <2>1. PICK n : n = HighestUsed
    OBVIOUS
  <2>2. /\ n \in Nat /\ ckpt <= n /\ \A r : Logged(r) => r.seq \in Nat /\ r.seq <= n
        /\ n = ckpt \/ \E r : Logged(r) /\ r.seq = n
    BY <1>1, <2>1 DEF Mapped, Highest
  <2>3. \A r : Logged(r)' => r.seq \in Nat
    BY <1>1 DEF Mapped, Highest
  <2>4. ASSUME NEW r, Logged(r)' PROVE r.seq \in Nat /\ r.seq <= n
    <3>1. CASE r.seq > ckpt
      BY <2>2, <2>4, <3>1
    <3>2. CASE ~(r.seq > ckpt)
      BY <1>1, <2>2, <2>3, <2>4, <3>2
    <3> QED
      BY <3>1, <3>2
  <2>5. n = ckpt \/ \E r : Logged(r)' /\ r.seq = n
    <3>1. SUFFICES ASSUME n # ckpt PROVE \E r : Logged(r)' /\ r.seq = n
      OBVIOUS
    <3>2. PICK r : Logged(r) /\ r.seq = n
      BY <2>2, <3>1
    <3>3. r.seq > ckpt
      BY <1>1, <2>2, <3>1, <3>2
    <3> QED
      BY <3>2, <3>3
  <2>6. Highest(n)'
    BY <2>2, <2>4, <2>5 DEF Highest
  <2> QED
    BY <1>1, <2>1, <2>6, HighestNext DEF Mapped
<1> QED
  BY <1>2, <1>3 DEF Log!vars

(* A step that makes nothing readable.                                                      *)
OldReads ==
  \A i \in DOMAIN files' : \A k \in Nat :
     Readable(files'[i], k) => /\ i \in DOMAIN files /\ Readable(files[i], k)
                               /\ files'[i].frames[k].rec = files[i].frames[k].rec

LEMMA LoggedSame ==
  ASSUME Types, CleanWriter, Types', CleanWriter', ckpt' = ckpt,
         pc # "sync", pc' # "sync", Keeping(Records), OldReads
  PROVE  UNCHANGED Log!vars
<1>1. ASSUME NEW r, Logged(r), r.seq > ckpt PROVE Logged(r)'
  <2>1. PICK i \in DOMAIN files, k \in Nat : Readable(files[i], k) /\ files[i].frames[k].rec = r
    BY <1>1 DEF Logged, Counts
  <2>2. r \in Records
    BY <2>1, RecordsRead
  <2>3. /\ i \in DOMAIN files' /\ Readable(files'[i], k) /\ files'[i].frames[k].rec = r
    BY <1>1, <2>1, <2>2 DEF Keeping
  <2> QED
    BY <2>3 DEF Logged, Counts
<1>2. ASSUME NEW r, Logged(r)' PROVE Logged(r)
  <2>1. PICK i \in DOMAIN files', k \in Nat : Readable(files'[i], k) /\ files'[i].frames[k].rec = r
    BY <1>2 DEF Logged, Counts
  <2>2. i \in DOMAIN files /\ Readable(files[i], k) /\ files[i].frames[k].rec = r
    BY <2>1 DEF OldReads
  <2> QED
    BY <2>2 DEF Logged, Counts
<1> QED
  BY <1>1, <1>2, LogSame

(* The highest number in use in a log that is open.                                         *)
LEMMA HighestOpen ==
  ASSUME Types, Numbers, Ordered, CleanDisk, CleanWriter, CleanNumber, Clean, phase = "open"
  PROVE  Highest(nextSeq - 1)
<1>1. ckpt \in Nat /\ nextSeq \in Nat /\ nextSeq - 1 \in Nat /\ ckpt <= nextSeq - 1
  BY DEF Types, OwnerOk, WriterOk, Numbers, Indexes
<1>2. ASSUME NEW i, NEW k, Counts(i, k)
      PROVE  files[i].frames[k].rec.seq \in Nat /\ files[i].frames[k].rec.seq < nextSeq
  <2>1. i \in DOMAIN files /\ k \in Nat /\ Readable(files[i], k)
    BY <1>2 DEF Counts
  <2>2. Whole(files[i], k) /\ files[i].frames[k].rec.seq \in Nat
    BY <2>1, RecordsRead
  <2>3. CASE pc # "sync"
    <3>1. PICK r : r = files[i].frames[k].rec
      OBVIOUS
    <3>2. r.seq < nextSeq
      BY <2>1, <2>2, <2>3, <3>1, KnownNow
    <3> QED
      BY <2>2, <3>1, <3>2
  <2>4. CASE pc = "sync"
    <3>1. PICK n \in Nat : /\ current \in DOMAIN files /\ n = Len(files[current].frames)
                           /\ Readable(files[current], n) /\ files[current].frames[n].rec = Written
      BY <2>4, LastRead
    <3>2. Whole(files[current], n)
      BY <3>1, ReadableWhole
    <3>3. i < current \/ (i = current /\ k < n)
      BY <1>2, <2>1, <2>4, <3>1 DEF Counts, Ordered, Types, FilesOk, WriterOk, Indexes
    <3>4. Before(files[i].frames[k].rec, files[current].frames[n].rec, Clean)
      BY <2>1, <2>2, <3>1, <3>2, <3>3 DEF Ordered, InLine
    <3>5. files[i].frames[k].rec.seq < Written.seq
      BY <3>1, <3>4 DEF Before
    <3> QED
      BY <2>2, <3>5 DEF Written
  <2> QED
    BY <2>3, <2>4
<1>3. ASSUME nextSeq - 1 # ckpt PROVE \E r : Logged(r) /\ r.seq = nextSeq - 1
  <2>1. PICK i \in DOMAIN files, k \in Nat :
           Readable(files[i], k) /\ nextSeq - 1 = files[i].frames[k].rec.seq
    BY <1>1, <1>3 DEF CleanNumber, InUse
  <2>2. Counts(i, k)
    <3>1. SUFFICES ASSUME pc = "sync", i = current, ~(k < Len(files[i].frames)) PROVE FALSE
      BY <2>1 DEF Counts
    <3>2. k \in 1..Len(files[i].frames)
      BY <2>1, ReadableWhole
    <3>3. Len(files[i].frames) \in Nat
      BY <2>1, RecordsRead DEF Files
    <3>4. k = Len(files[i].frames)
      BY <3>1, <3>2, <3>3
    <3>5. files[i].frames[k].rec = Written
      BY <3>1, <3>4, LastRead
    <3> QED
      BY <1>1, <2>1, <3>5 DEF Written
  <2> QED
    BY <2>1, <2>2 DEF Logged
<1>4. \A r : Logged(r) => r.seq \in Nat /\ r.seq <= nextSeq - 1
  <2>1. SUFFICES ASSUME NEW r, Logged(r) PROVE r.seq \in Nat /\ r.seq <= nextSeq - 1
    OBVIOUS
  <2>2. r.seq \in Nat /\ r.seq < nextSeq
    BY <1>2, <2>1 DEF Logged
  <2> QED
    BY <1>1, <2>2
<1> QED
  BY <1>1, <1>3, <1>4 DEF Highest

(* A frame that is synced, or that a crash leaves whole, is added to the log.               *)
LEMMA LastCounts ==
  ASSUME Types, Numbers, Ordered, CleanDisk, CleanWriter, CleanNumber, Clean,
         Types', CleanWriter', pc = "sync", pc' # "sync", ckpt' = ckpt,
         DOMAIN files' = DOMAIN files, \A i \in DOMAIN files : files'[i] = files[i]
  PROVE  Log!Add(writing.draft)
<1>1. Mapped /\ Mapped'
  BY MappedIs, MappedNext
<1>2. phase = "open" /\ ckpt < nextSeq /\ ckpt \in Nat /\ nextSeq \in Nat
  BY CurrentType DEF Numbers, Types, OwnerOk, WriterOk, Indexes
<1>3. Highest(nextSeq - 1)
  BY <1>2, HighestOpen
<1>4. HighestUsed = nextSeq - 1
  BY <1>1, <1>3, HighestOnly DEF Mapped
<1>5. PICK n \in Nat : /\ current \in DOMAIN files /\ n = Len(files[current].frames)
                       /\ Readable(files[current], n) /\ files[current].frames[n].rec = Written
  BY LastRead
<1>6. Written = [seq |-> HighestUsed + 1, draft |-> writing.draft] /\ Written.seq = nextSeq
  BY <1>2, <1>4 DEF Written
<1>7. ASSUME NEW r PROVE Logged(r)' <=> Logged(r) \/ r = Written
  <2>1. ASSUME Logged(r) PROVE Logged(r)'
    BY <2>1 DEF Logged, Counts
  <2>2. ASSUME r = Written PROVE Logged(r)'
    BY <1>5, <2>2 DEF Logged, Counts
  <2>3. ASSUME Logged(r)', r # Written PROVE Logged(r)
    <3>1. PICK i \in DOMAIN files, k \in Nat : Readable(files[i], k) /\ files[i].frames[k].rec = r
      BY <2>3 DEF Logged, Counts
    <3>2. Counts(i, k)
      <4>1. SUFFICES ASSUME i = current, ~(k < Len(files[i].frames)) PROVE FALSE
        BY <3>1 DEF Counts
      <4>2. k \in 1..Len(files[i].frames)
        BY <3>1, ReadableWhole
      <4>3. k = n
        BY <1>5, <4>1, <4>2
      <4> QED
        BY <1>5, <2>3, <3>1, <4>1, <4>3
    <3> QED
      BY <3>1, <3>2 DEF Logged
  <2> QED
    BY <2>1, <2>2, <2>3
<1>8. OnDisk' = OnDisk \cup {Written}
  <2>1. \A r : r \in OnDisk <=> Logged(r) /\ r.seq > ckpt
    BY <1>1 DEF Mapped, OnDiskHas
  <2>2. \A r : r \in OnDisk' <=> Logged(r)' /\ r.seq > ckpt
    BY <1>1 DEF Mapped, OnDiskHas
  <2>3. \A r : r \in OnDisk' <=> r \in OnDisk \/ r = Written
    BY <1>2, <1>6, <1>7, <2>1, <2>2
  <2> QED
    BY <2>3
<1>9. HighestUsed' = nextSeq
  <2>1. PICK m : m = nextSeq
    OBVIOUS
  <2>2. \A r : Logged(r) => r.seq \in Nat /\ r.seq <= nextSeq - 1
    BY <1>3 DEF Highest
  <2>3. ASSUME NEW r, Logged(r)' PROVE r.seq \in Nat /\ r.seq <= m
    <3>1. CASE r = Written
      BY <1>2, <1>6, <2>1, <3>1
    <3>2. CASE Logged(r)
      BY <1>2, <2>1, <2>2, <3>2
    <3> QED
      BY <1>7, <2>3, <3>1, <3>2
  <2>4. \E r : Logged(r)' /\ r.seq = m
    <3>1. PICK w : w = Written
      OBVIOUS
    <3>2. Logged(w)'
      BY <1>7, <3>1
    <3> QED
      BY <1>6, <2>1, <3>1, <3>2
  <2>5. Highest(m)'
    BY <1>2, <2>1, <2>3, <2>4 DEF Highest
  <2> QED
    BY <1>1, <2>1, <2>5, HighestNext DEF Mapped
<1> QED
  BY <1>2, <1>4, <1>6, <1>8, <1>9 DEF Log!Add

LEMMA CheckpointApplies ==
  ASSUME Types, Numbers, Ordered, CleanDisk, CleanWriter, CleanNumber, Clean,
         Types', CleanWriter', Checkpoint
  PROVE  \E n \in 1..HighestUsed : Log!Apply(n)
<1>1. Mapped /\ Mapped'
  BY MappedIs, MappedNext
<1>2. /\ phase = "open" /\ pc = "idle" /\ files' = files /\ pc' = pc /\ ckpt' = applied
      /\ applied > ckpt /\ applied \in Nat /\ ckpt \in Nat /\ nextSeq \in Nat /\ applied < nextSeq
  BY DEF Checkpoint, Types, OwnerOk, WriterOk, Numbers, Indexes
<1>3. HighestUsed = nextSeq - 1
  BY <1>1, <1>2, HighestOpen, HighestOnly DEF Mapped
<1>4. applied \in 1..HighestUsed
  BY <1>2, <1>3
<1>5. \A r : Logged(r)' <=> Logged(r)
  BY <1>2 DEF Logged, Counts
<1>6. /\ \A r : Logged(r) => r.seq \in Nat /\ r.seq <= HighestUsed
      /\ HighestUsed \in Nat
      /\ HighestUsed = ckpt \/ \E r : Logged(r) /\ r.seq = HighestUsed
  BY <1>1 DEF Mapped, Highest
<1>7. OnDisk' = {r \in OnDisk : r.seq > applied}
  <2>1. \A r : r \in OnDisk <=> Logged(r) /\ r.seq > ckpt
    BY <1>1 DEF Mapped, OnDiskHas
  <2>2. \A r : r \in OnDisk' <=> Logged(r)' /\ r.seq > applied
    BY <1>1, <1>2 DEF Mapped, OnDiskHas
  <2>3. \A r : r \in OnDisk' <=> r \in OnDisk /\ r.seq > applied
    BY <1>2, <1>5, <1>6, <2>1, <2>2
  <2> QED
    BY <2>3
<1>8. HighestUsed' = HighestUsed
  <2>1. PICK m : m = HighestUsed
    OBVIOUS
  <2>2. \E r : Logged(r) /\ r.seq = m
    BY <1>2, <1>3, <1>6, <2>1
  <2>3. Highest(m)'
    BY <1>2, <1>4, <1>5, <1>6, <2>1, <2>2 DEF Highest
  <2> QED
    BY <1>1, <2>1, <2>3, HighestNext DEF Mapped
<1> QED
  BY <1>4, <1>7, <1>8 DEF Log!Apply

(* What an interrupted write leaves was readable before, and is not the frame to sync.      *)
LEMMA RemainsRead ==
  ASSUME Types, CleanDisk, CleanWriter, pc # "idle", NEW g \in Remains, NEW k \in Nat,
         Readable(g, k)
  PROVE  LET f == files[current]
         IN  /\ Readable(f, k) /\ g.frames[k].rec = f.frames[k].rec
             /\ pc = "sync" /\ g # f => k < Len(f.frames)
<1> DEFINE f == files[current]
           b == [f EXCEPT !.frames = Front(@)]
<1>1. current \in DOMAIN files /\ f \in Files /\ phase = "open" /\ Sound(f) /\ CleanFile(f)
  BY CurrentType DEF CleanDisk
<1>2. Whole(f, k) /\ g.frames[k].rec = f.frames[k].rec
  BY RemainsAre, ReadableWhole DEF Keeps
<1>3. k \in 1..Len(f.frames) /\ Len(f.frames) \in Nat
  BY <1>1, <1>2 DEF Whole, Files
<1>4. f.head = "ok"
  BY <1>1, <1>3 DEF CleanFile
<1>5. Readable(f, k)
  BY <1>1, <1>3, <1>4 DEF Readable, Sound
<1>6. ASSUME pc = "sync", g # f PROVE k < Len(f.frames)
  <2>1. g \in {b, WithFrame(b, FALSE)} /\ f.frames # <<>>
    BY <1>1, <1>6 DEF Remains, CleanWriter
  <2>2. b \in Files /\ Len(b.frames) = Len(f.frames) - 1
    BY <1>1, <2>1, FrameTaken
  <2> HIDE DEF b, f
  <2>3. Whole(g, k)
    BY ReadableWhole
  <2>4. Whole(b, k)
    <3>1. CASE g = b
      BY <2>3, <3>1
    <3>2. CASE g = WithFrame(b, FALSE)
      BY <1>6, <2>2, <2>3, <3>2, WithFrameAre
    <3> QED
      BY <2>1, <3>1, <3>2
  <2>5. k \in 1..Len(b.frames)
    BY <2>4 DEF Whole
  <2> QED
    BY <1>3, <2>2, <2>5
<1> QED
  BY <1>2, <1>5, <1>6

LEMMA OldReadsSame ==
  ASSUME DOMAIN files' = DOMAIN files, \A i \in DOMAIN files : files'[i] = files[i]
  PROVE  OldReads
BY DEF OldReads

LEMMA LogOpens ==
  ASSUME Types, Scanned, CleanDisk, CleanWriter, Types', CleanWriter',
         NEW i \in left, \A j \in left : i <= j, Opens(i)
  PROVE  UNCHANGED Log!vars
<1>1. ckpt' = ckpt /\ pc = "idle" /\ pc' = "idle"
  BY OpensAre DEF Types, ScanOk, WriterOk
<1>2. /\ DOMAIN files' \subseteq DOMAIN files
      /\ \A j \in DOMAIN files' \ {i} : files'[j] = files[j]
  BY OpensKeep
<1>3. ASSUME NEW k \in Nat, i \in DOMAIN files', Readable(files'[i], k)
      PROVE  Readable(files[i], k) /\ files'[i].frames[k].rec = files[i].frames[k].rec
  <2>1. SameRead(files[i], files'[i])
    BY <1>3, OpensMore
  <2> QED
    BY <1>3, <2>1, SameReadAre
<1>4. OldReads
  BY <1>2, <1>3 DEF OldReads
<1>5. Keeping(Records)
  BY KeepingOpens
<1> QED
  BY <1>1, <1>4, <1>5, LoggedSame

LEMMA LogAppendBegin ==
  ASSUME Types, CleanDisk, CleanWriter, Types', CleanWriter', Clean,
         NEW len \in FrameLens, AppendBegin(len)
  PROVE  UNCHANGED Log!vars
<1>1. /\ pc = "idle" /\ pc' \in {"header", "frame"} /\ ckpt' = ckpt
      /\ DOMAIN files' = DOMAIN files \cup {current'}
      /\ \A j \in DOMAIN files : files'[j] = files[j]
      /\ files'[current'] = FileAt(current')
  BY AppendBeginIs, WritesKeep
<1>2. ASSUME NEW j \in DOMAIN files', NEW k \in Nat, Readable(files'[j], k)
      PROVE  j \in DOMAIN files
  <2>1. SUFFICES ASSUME j \notin DOMAIN files PROVE FALSE
    OBVIOUS
  <2>2. files'[j] = NoFile
    BY <1>1, <2>1 DEF FileAt
  <2> QED
    BY <1>2, <2>2, NoFileIs
<1>3. OldReads
  BY <1>1, <1>2 DEF OldReads
<1>4. Keeping(Records)
  BY WritesKeep
<1> QED
  BY <1>1, <1>3, <1>4, LoggedSame

LEMMA LogWriteHeader ==
  ASSUME Types, CleanDisk, CleanWriter, Types', CleanWriter', Clean, WriteHeader
  PROVE  UNCHANGED Log!vars
<1>1. pc = "header" /\ pc' = "frame" /\ ckpt' = ckpt
  BY DEF WriteHeader
<1>2. PICK g \in Files : files' = [files EXCEPT ![current] = g] /\ g.frames = <<>>
  BY CleanHeads
<1>3. /\ DOMAIN files' = DOMAIN files /\ current \in DOMAIN files /\ files'[current] = g
      /\ \A j \in DOMAIN files \ {current} : files'[j] = files[j]
  BY <1>1, <1>2, CurrentType, FilesWritten
<1>4. \A k \in Nat : ~Readable(g, k)
  BY <1>2, EmptyWeighs
<1>5. OldReads
  BY <1>3, <1>4 DEF OldReads
<1>6. Keeping(Records)
  BY FilesWrittenKeep
<1> QED
  BY <1>1, <1>5, <1>6, LoggedSame

(* A frame that is written and not yet synced is not in the log.                            *)
LEMMA LogWriteFrame ==
  ASSUME Types, CleanDisk, CleanWriter, Types', CleanWriter', Clean, WriteFrame
  PROVE  UNCHANGED Log!vars
<1> DEFINE f == files[current]
<1>1. /\ pc = "frame" /\ pc' = "sync" /\ ckpt' = ckpt /\ current' = current
      /\ current \in DOMAIN files /\ f \in Files
  BY CurrentType DEF WriteFrame, writer
<1>2. PICK g \in Files :
         /\ files' = [files EXCEPT ![current] = g] /\ g.head = "ok" /\ f.head = "ok"
         /\ Len(g.frames) = Len(f.frames) + 1 /\ Len(f.frames) \in Nat
         /\ \A k \in 1..Len(f.frames) : g.frames[k] = f.frames[k]
  BY CleanFrames
<1>3. /\ DOMAIN files' = DOMAIN files /\ files'[current] = g
      /\ \A j \in DOMAIN files \ {current} : files'[j] = files[j]
  BY <1>1, <1>2, FilesWritten
<1>4. ASSUME NEW k \in Nat
      PROVE  /\ Readable(g, k) /\ k < Len(g.frames) <=> Readable(f, k)
             /\ Readable(f, k) => g.frames[k].rec = f.frames[k].rec
  <2>1. k \in 1..Len(g.frames) /\ k < Len(g.frames) <=> k \in 1..Len(f.frames)
    BY <1>2
  <2>2. ASSUME k \in 1..Len(f.frames)
        PROVE  \A j \in 1..k : j \in 1..Len(f.frames) /\ g.frames[j] = f.frames[j]
    BY <1>2, <2>2
  <2> QED
    BY <1>2, <2>1, <2>2 DEF Readable
<1>5. ASSUME NEW r, Logged(r) PROVE Logged(r)'
  <2>1. PICK i \in DOMAIN files, k \in Nat : Readable(files[i], k) /\ files[i].frames[k].rec = r
    BY <1>5 DEF Logged, Counts
  <2>2. CASE i = current
    BY <1>1, <1>3, <1>4, <2>1, <2>2 DEF Logged, Counts
  <2>3. CASE i # current
    BY <1>1, <1>3, <2>1, <2>3 DEF Logged, Counts
  <2> QED
    BY <2>2, <2>3
<1>6. ASSUME NEW r, Logged(r)' PROVE Logged(r)
  <2>1. PICK i \in DOMAIN files', k \in Nat :
           /\ Readable(files'[i], k) /\ files'[i].frames[k].rec = r
           /\ i = current => k < Len(files'[i].frames)
    BY <1>1, <1>6 DEF Logged, Counts
  <2>2. CASE i = current
    BY <1>1, <1>3, <1>4, <2>1, <2>2 DEF Logged, Counts
  <2>3. CASE i # current
    BY <1>1, <1>3, <2>1, <2>3 DEF Logged, Counts
  <2> QED
    BY <2>2, <2>3
<1> QED
  BY <1>1, <1>5, <1>6, LogSame

LEMMA LogCrash ==
  ASSUME Types, Numbers, Ordered, CleanDisk, CleanWriter, CleanNumber, Clean,
         Types', CleanWriter', Crash
  PROVE  \/ UNCHANGED Log!vars
         \/ Log!Add(writing.draft) /\ pc = "sync"
<1>1. pc' = "idle" /\ ckpt' = ckpt
  BY DEF Crash
<1>2. CASE pc = "idle"
  <2>1. files' = files
    BY <1>2, CrashIs
  <2> QED
    BY <1>1, <1>2, <2>1, KeepingSame, OldReadsSame, LoggedSame
<1>3. ASSUME pc # "idle", NEW g \in Remains, files' = [files EXCEPT ![current] = g]
      PROVE  \/ UNCHANGED Log!vars
             \/ Log!Add(writing.draft) /\ pc = "sync"
  <2> DEFINE f == files[current]
  <2>1. current \in DOMAIN files /\ g \in Files
    BY <1>3, CurrentType, RemainsAre
  <2>2. /\ DOMAIN files' = DOMAIN files /\ files'[current] = g
        /\ \A j \in DOMAIN files \ {current} : files'[j] = files[j]
    BY <1>3, <2>1, FilesWritten
  <2>3. CASE pc = "sync" /\ g = f
    <3>1. \A j \in DOMAIN files : files'[j] = files[j]
      BY <2>2, <2>3
    <3> QED
      BY <1>1, <2>2, <2>3, <3>1, LastCounts
  <2>4. CASE ~(pc = "sync" /\ g = f)
    <3>1. ASSUME NEW r, Logged(r) PROVE Logged(r)'
      <4>1. PICK i, k : Counts(i, k) /\ files[i].frames[k].rec = r
        BY <3>1 DEF Logged
      <4>2. CASE i = current
        <5>1. k \in Nat /\ Readable(f, k) /\ (pc = "sync" => k < Len(f.frames)) /\ f.frames[k].rec = r
          BY <4>1, <4>2 DEF Counts
        <5>2. Readable(g, k) /\ g.frames[k].rec = r
          BY <1>3, <5>1, CleanRemains
        <5> QED
          BY <1>1, <2>1, <2>2, <5>1, <5>2 DEF Logged, Counts
      <4>3. CASE i # current
        BY <1>1, <2>2, <4>1, <4>3 DEF Logged, Counts
      <4> QED
        BY <4>2, <4>3
    <3>2. ASSUME NEW r, Logged(r)' PROVE Logged(r)
      <4>1. PICK i \in DOMAIN files, k \in Nat : Readable(files'[i], k) /\ files'[i].frames[k].rec = r
        BY <2>2, <3>2 DEF Logged, Counts
      <4>2. CASE i = current
        <5>1. /\ Readable(f, k) /\ g.frames[k].rec = f.frames[k].rec
              /\ pc = "sync" /\ g # f => k < Len(f.frames)
          BY <1>3, <2>2, <4>1, <4>2, RemainsRead
        <5> QED
          BY <2>1, <2>2, <2>4, <4>1, <4>2, <5>1 DEF Logged, Counts
      <4>3. CASE i # current
        BY <2>2, <4>1, <4>3 DEF Logged, Counts
      <4> QED
        BY <4>2, <4>3
    <3> QED
      BY <1>1, <3>1, <3>2, LogSame
  <2> QED
    BY <2>3, <2>4
<1> QED
  BY <1>2, <1>3, CrashIs

LEMMA LogQuiet ==
  ASSUME Types, CleanWriter, Types', CleanWriter', Quiet, ~Checkpoint
  PROVE  UNCHANGED Log!vars
<1>1. UNCHANGED <<files, pc, ckpt, current>>
  BY DEF Quiet, AppendBusy, vars, writer, disk
<1>2. \A r : Logged(r)' <=> Logged(r)
  BY <1>1 DEF Logged, Counts
<1> QED
  BY <1>1, <1>2, LogSame

LEMMA LogStep ==
  ASSUME Base, CleanInv, Base', CleanInv', Clean, [Next]_vars
  PROVE  [Log!Next]_(Log!vars)
<1>1. /\ Types /\ Numbers /\ Ordered /\ Scanned /\ Types'
      /\ CleanDisk /\ CleanWriter /\ CleanNumber /\ CleanWriter'
  BY FaultsStay DEF Base, CleanInv, Clean
<1>2. ASSUME Log!Add(writing.draft), pc = "sync" PROVE Log!Next
  <2>1. writing.draft \in Drafts
    BY <1>1, <1>2, CurrentType
  <2> QED
    BY <1>2, <2>1 DEF Log!Next
<1>3. CASE OpenBegin \/ OpenDone \/ Seal
  <2>1. UNCHANGED <<files, pc, ckpt>> /\ pc = "idle"
    BY <1>1, <1>3, SealIs DEF OpenBegin, OpenDone, Opened, disk, Types, WriterOk
  <2> QED
    BY <1>1, <2>1, KeepingSame, OldReadsSame, LoggedSame
<1>4. ASSUME NEW i \in left, \A j \in left : i <= j, Opens(i) PROVE UNCHANGED Log!vars
  BY <1>1, <1>4, LogOpens
<1>5. ASSUME NEW len \in FrameLens, AppendBegin(len) PROVE UNCHANGED Log!vars
  BY <1>1, <1>5, LogAppendBegin
<1>6. CASE WriteHeader \/ WriteFrame
  BY <1>1, <1>6, LogWriteHeader, LogWriteFrame
<1>7. CASE Sync
  <2>1. /\ pc = "sync" /\ pc' = "idle" /\ files' = files /\ ckpt' = ckpt
    BY <1>1, <1>7, SyncIs DEF disk
  <2> QED
    BY <1>1, <1>2, <2>1, LastCounts
<1>8. CASE HeaderFails \/ FrameFails \/ SyncFails
  <2>1. /\ pc \in {"header", "frame"} /\ DOMAIN files' = DOMAIN files
        /\ \A j \in DOMAIN files : files'[j] = files[j]
        /\ pc' = "idle" /\ ckpt' = ckpt
    BY <1>1, <1>8, CleanFails, FailsAre
  <2> QED
    BY <1>1, <2>1, KeepingSame, OldReadsSame, LoggedSame
<1>9. CASE Crash
  BY <1>1, <1>2, <1>9, LogCrash
<1>10. CASE Checkpoint
  BY <1>1, <1>10, CheckpointApplies DEF Log!Next
<1>11. CASE Quiet /\ ~Checkpoint
  BY <1>1, <1>11, LogQuiet
<1> QED
  BY <1>3, <1>4, <1>5, <1>6, <1>7, <1>8, <1>9, <1>10, <1>11, Steps

LEMMA LogInit ==
  ASSUME Init
  PROVE  Log!Init
<1>1. files = <<>> /\ DOMAIN files = {} /\ pc = "idle" /\ ckpt = 0
  BY DEF Init
<1>2. Mapped
  <2>1. Types
    BY TypesInit
  <2>2. CleanWriter
    BY <1>1 DEF Init, CleanWriter
  <2> QED
    BY <2>1, <2>2, MappedIs
<1>3. \A r : ~Logged(r)
  BY <1>1 DEF Logged, Counts
<1>4. OnDisk = {}
  BY <1>2, <1>3 DEF Mapped, OnDiskHas
<1>5. HighestUsed = 0
  BY <1>1, <1>2, <1>3 DEF Mapped, Highest
<1> QED
  BY <1>4, <1>5 DEF Log!Init

(* On a clean disk the segments implement DurableLog: a record is added with the next       *)
(* number when it is synced, or when a crash leaves its frame whole, a checkpoint takes     *)
(* away what it covers, and nothing else that append, open, a failed write or a crash does   *)
(* can be seen from the outside.                                                             *)
THEOREM ImplementsDurableLogCorrect == Spec => ImplementsDurableLog
<1>1. Init => (Clean => Log!Init)
  BY LogInit
<1>2. Base /\ CleanInv /\ (Base /\ CleanInv)' /\ [Next]_vars =>
         [Clean => [Log!Next]_(Log!vars)]_vars
  BY LogStep
<1>3. Spec => [][Clean => [Log!Next]_(Log!vars)]_vars
  BY <1>2, CleanHolds, PTL DEF Spec
<1>4. Spec => (Clean => Log!Init)
  BY <1>1, PTL DEF Spec
<1> QED
  BY <1>3, <1>4 DEF ImplementsDurableLog

=============================================================================
