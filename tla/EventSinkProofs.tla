--------------------------- MODULE EventSinkProofs ---------------------------
(***************************************************************************)
(* Proofs about the event pipeline of a session, for every size of the      *)
(* queue, the batches and the spool and any number of failing sends and     *)
(* crashes. What carries them: the batch in flight, the spool and the queue, *)
(* one after the other, are in the order of emission and hold no event       *)
(* twice, and whatever they hold that may still be sent either comes after   *)
(* all that the cloud has, or is repeated because an answer was lost. That   *)
(* evidence is dropped only in a step that leaves the spool full             *)
(* (EvidenceKept) is proved from the same invariant.                         *)
(***************************************************************************)
EXTENDS EventSink, SubsequencesProofs, SequenceTheorems

\* f may come after e: it is another event and, notices aside, a later one.
Follows(e, f) ==
    e # Torn /\ f # Torn =>
        e.id # f.id /\ (e.kind # "notice" /\ f.kind # "notice" => e.id < f.id)

Sorted(s)      == \A i, j \in DOMAIN s : i < j => Follows(s[i], s[j])
Precedes(s, t) == \A e \in ToSet(s), f \in ToSet(t) : Follows(e, f)

\* The cloud may receive e: after all it has, or again, with a reason.
Fits(e, cl, un) ==
    \/ e = Torn
    \/ e.id \in Ids(cl) /\ e.id \in un
    \/ \A f \in ToSet(cl) : Follows(f, e)

Line == Event \cup {Torn}

\* What is held, oldest first: a batch out of the queue, the spool, the queue.
Order(b, sp, q) ==
    /\ b \in Seq(Event) /\ sp \in Seq(Line) /\ q \in Seq(Event)
    /\ Sorted(b) /\ Sorted(sp) /\ Sorted(q)
    /\ Precedes(b, sp) /\ Precedes(b, q) /\ Precedes(sp, q)
    /\ Len(sp) <= MaxSpool

All(b, sp, q) == Ids(b) \cup Ids(sp) \cup Ids(q)

\* Every identifier given is held, received, dropped or taken by a crash.
Numbers(b, sp, q, cl, n, lo, go, un) ==
    /\ n \in Nat
    /\ All(b, sp, q) \cup Ids(cl) \cup lo \cup go \cup un \subseteq 1..n
    /\ 1..n \subseteq All(b, sp, q) \cup Ids(cl) \cup lo \cup go
    /\ All(b, sp, q) \cap lo = {}

\* What may still be sent, the lines of the spool at the positions ok among it.
Fresh(b, sp, ok, q, cl, un) ==
    /\ cl \in Seq(Event) /\ Sorted(cl)
    /\ \A e \in ToSet(b) \cup ToSet(q) : Fits(e, cl, un)
    /\ \A i \in ok : Fits(sp[i], cl, un)

Batch == IF fl.pc = "batch" THEN fl.batch ELSE <<>>

\* The lines that a flush has not sent yet; one that it has read torn, or that no
\* reader can tell from a torn one, is never sent.
Pending(f, sp) ==
    IF f.pc = "spool"
    THEN {i \in DOMAIN sp : f.sent < i /\ (i \in Readable(sp) \/ f.upto < i)}
    ELSE Readable(sp)

FlushShape ==
    /\ fl \in [pc : {"idle", "resume", "spool", "batch"}, upto : Nat, sent : Nat, batch : Seq(Event)]
    /\ fl.pc # "spool" => fl.upto = 0 /\ fl.sent = 0
    /\ fl.pc \in {"idle", "resume"} => fl.batch = <<>>

\* What a flush has read of the spool.
FlushOf(f, sp, cl, go) ==
    /\ f.sent < f.upto /\ f.upto <= Len(sp)
    /\ f.sent # 0 => sp[f.sent] # Torn
    /\ Sorted(f.batch)
    /\ ToSet(f.batch) = {sp[i] : i \in Unsent(sp, f.sent, BatchEnd(sp, f.sent, f.upto))}
    /\ Unsent(sp, f.sent, f.upto) # {}
    /\ \A i \in Readable(sp) : i <= f.sent => sp[i].id \in Ids(cl)
    /\ \A i \in DOMAIN sp : i <= f.upto /\ i \notin Readable(sp) /\ sp[i] # Torn => sp[i].id \in go

Counts ==
    /\ dropped \in Nat /\ reported \in Nat /\ unsaid \in Nat
    /\ crashes \in Nat /\ life \in {"open", "closing", "down"}
    /\ crashes = 0 => /\ Torn \notin ToSet(spool)
                      /\ dropped + reported + unsaid = Cardinality(lost)

SinkInv ==
    /\ FlushShape
    /\ Order(Batch, spool, queue)
    /\ Numbers(Batch, spool, queue, cloud, seq, lost, gone, unsure)
    /\ Fresh(Batch, spool, Pending(fl, spool), queue, cloud, unsure)
    /\ fl.pc = "spool" => FlushOf(fl, spool, cloud, gone)
    /\ again \subseteq unsure
    /\ Counts

-----------------------------------------------------------------------------
(* Sequences: what they hold, and in which order                            *)

LEMMA ToSetConcat ==
  ASSUME NEW S, NEW s \in Seq(S), NEW t \in Seq(S)
  PROVE  /\ s \o t \in Seq(S) /\ Len(s \o t) = Len(s) + Len(t)
         /\ ToSet(s \o t) = ToSet(s) \cup ToSet(t)
<1> DEFINE u == s \o t
<1>1. /\ u \in Seq(S) /\ Len(u) = Len(s) + Len(t)
      /\ \A i \in 1..(Len(s) + Len(t)) : u[i] = IF i <= Len(s) THEN s[i] ELSE t[i - Len(s)]
  BY ConcatProperties
<1>2. /\ DOMAIN s = 1..Len(s) /\ DOMAIN t = 1..Len(t) /\ Len(s) \in Nat /\ Len(t) \in Nat
      /\ DOMAIN u = 1..Len(u)
  BY <1>1, LenProperties
<1> HIDE DEF u
<1>3. \A i \in DOMAIN s : i \in DOMAIN u /\ u[i] = s[i]
  BY <1>1, <1>2
<1>4. \A i \in DOMAIN t : i + Len(s) \in DOMAIN u /\ u[i + Len(s)] = t[i]
  BY <1>1, <1>2
<1>5. \A i \in DOMAIN u : u[i] \in ToSet(s) \cup ToSet(t)
  <2> SUFFICES ASSUME NEW i \in DOMAIN u PROVE u[i] \in ToSet(s) \cup ToSet(t)
    OBVIOUS
  <2>1. CASE i <= Len(s)
    <3>1. i \in DOMAIN s /\ u[i] = s[i]
      BY <1>1, <1>2, <2>1
    <3> QED
      BY <3>1 DEF ToSet
  <2>2. CASE ~(i <= Len(s))
    <3>1. i - Len(s) \in DOMAIN t /\ u[i] = t[i - Len(s)]
      BY <1>1, <1>2, <2>2
    <3> QED
      BY <3>1 DEF ToSet
  <2> QED
    BY <2>1, <2>2
<1>6. ToSet(u) = ToSet(s) \cup ToSet(t)
  BY <1>3, <1>4, <1>5 DEF ToSet
<1> QED
  BY <1>1, <1>6 DEF u

LEMMA SortedConcat ==
  ASSUME NEW S, NEW s \in Seq(S), NEW t \in Seq(S)
  PROVE  Sorted(s \o t) <=> Sorted(s) /\ Sorted(t) /\ Precedes(s, t)
<1> DEFINE u == s \o t
<1> DEFINE m == Len(s)
<1>1. /\ u \in Seq(S) /\ Len(u) = m + Len(t)
      /\ \A i \in 1..(m + Len(t)) : u[i] = IF i <= m THEN s[i] ELSE t[i - m]
  BY ConcatProperties
<1>2. /\ DOMAIN s = 1..m /\ DOMAIN t = 1..Len(t) /\ m \in Nat /\ Len(t) \in Nat
      /\ DOMAIN u = 1..Len(u)
  BY <1>1, LenProperties
<1> HIDE DEF u, m
<1>3. \A i \in DOMAIN s : i \in DOMAIN u /\ u[i] = s[i]
  BY <1>1, <1>2
<1>4. \A i \in DOMAIN t : i + m \in DOMAIN u /\ u[i + m] = t[i]
  BY <1>1, <1>2
<1>5. ASSUME Sorted(u) PROVE Sorted(s) /\ Sorted(t) /\ Precedes(s, t)
  <2>1. Sorted(s)
    BY <1>3, <1>5 DEF Sorted
  <2>2. Sorted(t)
    <3> SUFFICES ASSUME NEW i \in DOMAIN t, NEW j \in DOMAIN t, i < j
                 PROVE  Follows(t[i], t[j])
      BY DEF Sorted
    <3>1. i + m < j + m
      BY <1>2
    <3> QED
      BY <1>4, <1>5, <3>1 DEF Sorted
  <2>3. ASSUME NEW i \in DOMAIN s, NEW j \in DOMAIN t PROVE Follows(s[i], t[j])
    <3>1. i < j + m
      BY <1>2
    <3> QED
      BY <1>3, <1>4, <1>5, <3>1 DEF Sorted
  <2> QED
    BY <2>1, <2>2, <2>3 DEF Precedes, ToSet
<1>6. ASSUME Sorted(s), Sorted(t), Precedes(s, t) PROVE Sorted(u)
  <2> SUFFICES ASSUME NEW i \in DOMAIN u, NEW j \in DOMAIN u, i < j
               PROVE  Follows(u[i], u[j])
    BY DEF Sorted
  <2>1. CASE j <= m
    <3>1. i \in DOMAIN s /\ j \in DOMAIN s /\ u[i] = s[i] /\ u[j] = s[j]
      BY <1>1, <1>2, <2>1
    <3> QED
      BY <1>6, <3>1 DEF Sorted
  <2>2. CASE ~(i <= m)
    <3>1. /\ i - m \in DOMAIN t /\ j - m \in DOMAIN t /\ i - m < j - m
          /\ u[i] = t[i - m] /\ u[j] = t[j - m]
      BY <1>1, <1>2, <2>2
    <3> QED
      BY <1>6, <3>1 DEF Sorted
  <2>3. CASE i <= m /\ ~(j <= m)
    <3>1. i \in DOMAIN s /\ j - m \in DOMAIN t /\ u[i] = s[i] /\ u[j] = t[j - m]
      BY <1>1, <1>2, <2>3
    <3> QED
      BY <1>6, <3>1 DEF Precedes, ToSet
  <2> QED
    BY <2>1, <2>2, <2>3
<1> QED
  BY <1>5, <1>6 DEF u

LEMMA PickPart ==
  ASSUME NEW S, NEW s \in Seq(S), NEW idx \in SUBSET DOMAIN s
  PROVE  /\ Pick(s, idx) \in Seq(S) /\ Len(Pick(s, idx)) = Cardinality(idx)
         /\ ToSet(Pick(s, idx)) = {s[i] : i \in idx}
         /\ Sorted(s) => Sorted(Pick(s, idx))
<1> DEFINE t == Pick(s, idx)
<1>1. /\ IsFiniteSet(idx) /\ Cardinality(idx) \in Nat
      /\ t \in Seq(S) /\ Len(t) = Cardinality(idx)
  BY PickLen
<1>2. idx \in SUBSET Nat /\ DOMAIN t = 1..Cardinality(idx)
  BY <1>1, LenProperties
<1>3. \A n \in DOMAIN t : \E i \in idx : Rank(i, idx) = n /\ t[n] = s[i]
  BY <1>1, <1>2, PickFrom
<1>4. \A i \in idx : Rank(i, idx) \in DOMAIN t /\ t[Rank(i, idx)] = s[i]
  BY <1>1, <1>2, PickHolds
<1> HIDE DEF t
<1>5. ToSet(t) = {s[i] : i \in idx}
  BY <1>3, <1>4 DEF ToSet
<1>6. ASSUME Sorted(s) PROVE Sorted(t)
  <2> SUFFICES ASSUME NEW m \in DOMAIN t, NEW n \in DOMAIN t, m < n
               PROVE  Follows(t[m], t[n])
    BY DEF Sorted
  <2>1. PICK i \in idx : Rank(i, idx) = m /\ t[m] = s[i]
    BY <1>3
  <2>2. PICK j \in idx : Rank(j, idx) = n /\ t[n] = s[j]
    BY <1>3
  <2>3. i \in Nat /\ j \in Nat /\ m \in Nat /\ n \in Nat
    BY <1>1, <1>2
  <2>4. ~(j < i)
    BY <1>1, <1>2, <2>1, <2>2, <2>3, RankGrows
  <2>5. i # j
    BY <2>1, <2>2, <2>3
  <2>6. i < j
    BY <2>3, <2>4, <2>5
  <2> QED
    BY <1>6, <2>1, <2>2, <2>6 DEF Sorted
<1> QED
  BY <1>1, <1>5, <1>6 DEF t

LEMMA SubSeqPart ==
  ASSUME NEW S, NEW s \in Seq(S), NEW m \in Nat \ {0}, NEW n \in Nat, n <= Len(s)
  PROVE  /\ SubSeq(s, m, n) \in Seq(S)
         /\ Len(SubSeq(s, m, n)) = IF m <= n THEN n - m + 1 ELSE 0
         /\ \A i \in DOMAIN SubSeq(s, m, n) :
               i + m - 1 \in m..n /\ SubSeq(s, m, n)[i] = s[i + m - 1]
         /\ ToSet(SubSeq(s, m, n)) = {s[i] : i \in m..n}
         /\ Sorted(s) => Sorted(SubSeq(s, m, n))
<1> DEFINE t == SubSeq(s, m, n)
<1>1. DOMAIN s = 1..Len(s) /\ Len(s) \in Nat /\ \A i \in m..n : s[i] \in S
  BY LenProperties
<1>2. /\ t \in Seq(S) /\ Len(t) = IF m <= n THEN n - m + 1 ELSE 0
      /\ \A i \in 1..(n - m + 1) : t[i] = s[m + i - 1]
  BY <1>1, SubSeqProperties
<1>3. DOMAIN t = 1..(n - m + 1)
  BY <1>2, LenProperties
<1> HIDE DEF t
<1>4. \A i \in DOMAIN t : i + m - 1 \in m..n /\ i + m - 1 = m + i - 1
  BY <1>3
<1>5. \A i \in DOMAIN t : i + m - 1 \in m..n /\ t[i] = s[i + m - 1]
  BY <1>2, <1>3, <1>4
<1>6. \A j \in m..n : j - m + 1 \in DOMAIN t /\ t[j - m + 1] = s[j]
  BY <1>3, <1>5
<1>7. ToSet(t) = {s[i] : i \in m..n}
  BY <1>5, <1>6 DEF ToSet
<1>8. ASSUME Sorted(s) PROVE Sorted(t)
  <2> SUFFICES ASSUME NEW i \in DOMAIN t, NEW j \in DOMAIN t, i < j
               PROVE  Follows(t[i], t[j])
    BY DEF Sorted
  <2>1. i + m - 1 \in DOMAIN s /\ j + m - 1 \in DOMAIN s /\ i + m - 1 < j + m - 1
    BY <1>1, <1>3
  <2> QED
    BY <1>5, <1>8, <2>1 DEF Sorted
<1> QED
  BY <1>2, <1>5, <1>7, <1>8 DEF t

LEMMA SubSeqMembers ==
  ASSUME NEW S, NEW s \in Seq(S), NEW m \in Nat \ {0}, NEW n \in Nat, n <= Len(s), NEW x
  PROVE  x \in ToSet(SubSeq(s, m, n)) <=> \E i \in m..n : x = s[i]
<1>1. ToSet(SubSeq(s, m, n)) = {s[i] : i \in m..n}
  BY SubSeqPart
<1> QED
  BY <1>1, Zenon

-----------------------------------------------------------------------------
(* Identifiers                                                              *)

LEMMA Kinship == Event \subseteq Line /\ Torn \in Line /\ Torn \notin Event
BY DEF Line, Event, Torn

LEMMA IdsDef ==
  ASSUME NEW s, NEW id
  PROVE  id \in Ids(s) <=> id # 0 /\ \E e \in ToSet(s) : id = e.id
BY DEF Ids

LEMMA IdsConcat ==
  ASSUME NEW S, NEW s \in Seq(S), NEW t \in Seq(S)
  PROVE  Ids(s \o t) = Ids(s) \cup Ids(t)
BY ToSetConcat DEF Ids

\* Two sequences, one before the other, have no event in common.
LEMMA Disjoint ==
  ASSUME NEW s, NEW t, Precedes(s, t)
  PROVE  Ids(s) \cap Ids(t) = {}
<1> SUFFICES ASSUME NEW e \in ToSet(s), NEW f \in ToSet(t), e.id = f.id, e.id # 0 PROVE FALSE
  BY IdsDef
<1>1. e # Torn /\ f # Torn
  BY DEF Torn
<1> QED
  BY <1>1 DEF Precedes, Follows

LEMMA SameEvent ==
  ASSUME NEW S, NEW s \in Seq(S), Sorted(s), NEW i \in DOMAIN s, NEW j \in DOMAIN s,
         s[i].id = s[j].id, s[i].id # 0
  PROVE  i = j
<1>1. i \in Nat /\ j \in Nat
  BY LenProperties
<1>2. s[i] # Torn /\ s[j] # Torn
  BY DEF Torn
<1>3. ~(i < j) /\ ~(j < i)
  BY <1>2 DEF Sorted, Follows
<1> QED
  BY <1>1, <1>3

LEMMA EventId ==
  ASSUME NEW e \in Event
  PROVE  e # Torn /\ e.id \in Nat \ {0} /\ e.kind \in Kinds
BY DEF Event, Torn

\* A sequence of events holds no more identifiers than a part of it and the rest.
LEMMA FinitelyMany ==
  ASSUME NEW n \in Nat, NEW T \in SUBSET (1..n)
  PROVE  IsFiniteSet(T) /\ Cardinality(T) \in Nat
<1>1. IsFiniteSet(1..n)
  BY FS_Interval
<1> QED
  BY <1>1, FS_Subset, FS_CardinalityType

\* The count of what was dropped.
LEMMA CountUnion ==
  ASSUME NEW n \in Nat, NEW A \in SUBSET (1..n), NEW B \in SUBSET (1..n), A \cap B = {}
  PROVE  Cardinality(A \cup B) = Cardinality(A) + Cardinality(B)
<1>1. IsFiniteSet(A) /\ IsFiniteSet(B) /\ Cardinality(A) \in Nat /\ Cardinality(B) \in Nat
  BY FinitelyMany
<1>2. Cardinality(A \cup B) = Cardinality(A) + Cardinality(B) - Cardinality(A \cap B)
  BY <1>1, FS_Union
<1>3. Cardinality(A \cap B) = 0
  BY FS_EmptySet
<1> QED
  BY <1>1, <1>2, <1>3

-----------------------------------------------------------------------------
(* What fits in the room left                                               *)

LEMMA MaxOfTwo ==
  ASSUME NEW x \in Int
  PROVE  Max({0, x}) = IF x > 0 THEN x ELSE 0
<1> DEFINE P(y) == y \in {0, x} /\ \A z \in {0, x} : y >= z
<1> DEFINE v == IF x > 0 THEN x ELSE 0
<1>1. P(v) /\ \A y : P(y) => y = v
  OBVIOUS
<1>2. (CHOOSE y : P(y)) = v
  BY <1>1
<1>3. Max({0, x}) = CHOOSE y : P(y)
  BY DEF Max
<1> QED
  BY <1>2, <1>3

\* The first n of some positions are at most n, and are all of them unless they are n.
LEMMA FirstOfSize ==
  ASSUME NEW idx \in SUBSET Nat, IsFiniteSet(idx), NEW n \in Nat
  PROVE  /\ FirstOf(idx, n) \in SUBSET idx
         /\ Cardinality(FirstOf(idx, n)) \in 0..n
         /\ FirstOf(idx, n) # idx => Cardinality(FirstOf(idx, n)) = n
<1> DEFINE F == FirstOf(idx, n)
<1> DEFINE f == [i \in F |-> Rank(i, idx)]
<1>1. F \in SUBSET idx /\ \A i \in idx : i \in F <=> Rank(i, idx) <= n
  BY DEF FirstOf
<1>2. IsFiniteSet(F) /\ Cardinality(F) \in Nat
  BY <1>1, FS_Subset, FS_CardinalityType
<1> HIDE DEF F
<1>3. \A i, j \in F : Rank(i, idx) = Rank(j, idx) => i = j
  <2> SUFFICES ASSUME NEW i \in F, NEW j \in F, Rank(i, idx) = Rank(j, idx) PROVE i = j
    OBVIOUS
  <2>1. i \in idx /\ j \in idx /\ i \in Nat /\ j \in Nat
    BY <1>1
  <2>2. Rank(i, idx) \in Nat /\ Rank(j, idx) \in Nat
    BY <2>1, RankType
  <2>3. ~(i < j) /\ ~(j < i)
    BY <2>1, <2>2, RankGrows
  <2> QED
    BY <2>1, <2>3
<1>4. \A i \in F : Rank(i, idx) \in 1..n
  <2> SUFFICES ASSUME NEW i \in F PROVE Rank(i, idx) \in 1..n
    OBVIOUS
  <2>1. Rank(i, idx) \in 1..Cardinality(idx) /\ Rank(i, idx) <= n /\ Cardinality(idx) \in Nat
    BY <1>1, RankMember, FS_CardinalityType
  <2> QED
    BY <2>1
<1>5. IsFiniteSet(1..n) /\ Cardinality(1..n) = n
  BY FS_Interval
<1>6. f \in Injection(F, 1..n)
  BY <1>3, <1>4 DEF Injection, IsInjective
<1>7. Cardinality(F) <= n
  BY <1>2, <1>5, <1>6, FS_Injection
<1>8. ASSUME F # idx PROVE Cardinality(F) = n
  <2>1. PICK k \in idx : k \notin F
    BY <1>1, <1>8
  <2>2. Rank(k, idx) \in 1..Cardinality(idx) /\ n < Rank(k, idx)
    <3>1. Rank(k, idx) \in 1..Cardinality(idx) /\ Cardinality(idx) \in Nat
      BY RankMember, FS_CardinalityType
    <3> QED
      BY <1>1, <2>1, <3>1
  <2>3. \A m \in 1..n : \E i \in F : f[i] = m
    <3> SUFFICES ASSUME NEW m \in 1..n PROVE \E i \in F : f[i] = m
      OBVIOUS
    <3>1. m \in 1..Cardinality(idx)
      BY <2>2, FS_CardinalityType
    <3>2. PICK i \in idx : Rank(i, idx) = m
      BY <3>1, RankOnto
    <3> QED
      BY <1>1, <3>2
  <2>4. f \in Surjection(F, 1..n)
    BY <1>4, <2>3 DEF Surjection
  <2>5. Cardinality(1..n) <= Cardinality(F)
    BY <1>2, <2>4, FS_Surjection
  <2> QED
    BY <1>2, <1>5, <1>7, <2>5
<1> QED
  BY <1>1, <1>2, <1>7, <1>8 DEF F

\* spill keeps part of the events, in their order, in the room there is; evidence is
\* left out only when there is none left.
LEMMA KeptPart ==
  ASSUME NEW sp, NEW n \in Nat, Len(sp) = n, n <= MaxSpool, NEW es \in Seq(Event)
  PROVE  /\ Kept(sp, es) \in Seq(Event) /\ ToSet(Kept(sp, es)) \subseteq ToSet(es)
         /\ Sorted(es) => Sorted(Kept(sp, es))
         /\ n + Len(Kept(sp, es)) <= MaxSpool
         /\ \A e \in ToSet(es) : Mandatory(e) /\ e \notin ToSet(Kept(sp, es)) =>
                n + Len(Kept(sp, es)) = MaxSpool
<1> DEFINE man == {i \in DOMAIN es : Mandatory(es[i])}
<1> DEFINE oth == {i \in DOMAIN es : ~Mandatory(es[i])}
<1> DEFINE room == MaxSpool - n
<1> DEFINE ev == FirstOf(man, room)
<1> DEFINE rest == FirstOf(oth, room - Cardinality(ev))
<1>1. MaxSpool \in Nat /\ room \in Nat
  BY SinkAssumption
<1>2. Max({0, room}) = room
  BY <1>1, MaxOfTwo
<1>3. IsFiniteSet(DOMAIN es) /\ DOMAIN es \in SUBSET Nat
  <2>1. DOMAIN es = 1..Len(es) /\ Len(es) \in Nat
    BY LenProperties
  <2> QED
    BY <2>1, FS_Interval
<1>4. /\ man \in SUBSET DOMAIN es /\ oth \in SUBSET DOMAIN es
      /\ man \cap oth = {}
  OBVIOUS
<1>5. /\ man \in SUBSET Nat /\ oth \in SUBSET Nat
      /\ IsFiniteSet(man) /\ IsFiniteSet(oth)
  BY <1>3, <1>4, FS_Subset
<1>6. Kept(sp, es) = Pick(es, ev \cup rest)
  BY <1>2 DEF Kept
<1>7. \A i \in DOMAIN es : i \in man <=> Mandatory(es[i])
  OBVIOUS
<1> HIDE DEF man, oth, room
<1>8. /\ ev \in SUBSET man /\ Cardinality(ev) \in 0..room
      /\ ev # man => Cardinality(ev) = room
  BY <1>1, <1>5, FirstOfSize
<1>9. room - Cardinality(ev) \in Nat
  BY <1>1, <1>8
<1> HIDE DEF ev
<1>10. rest \in SUBSET oth /\ Cardinality(rest) \in 0..(room - Cardinality(ev))
  BY <1>5, <1>9, FirstOfSize
<1> HIDE DEF rest
<1>11. ev \cup rest \in SUBSET DOMAIN es /\ ev \cap rest = {}
  BY <1>4, <1>8, <1>10
<1>12. IsFiniteSet(ev) /\ IsFiniteSet(rest)
  BY <1>5, <1>8, <1>10, FS_Subset
<1>13. Cardinality(ev \cup rest) = Cardinality(ev) + Cardinality(rest)
  <2>1. Cardinality(ev \cup rest) = Cardinality(ev) + Cardinality(rest) - Cardinality(ev \cap rest)
    BY <1>12, FS_Union
  <2>2. Cardinality(ev \cap rest) = 0
    BY <1>11, FS_EmptySet
  <2> QED
    BY <1>8, <1>10, <1>1, <2>1, <2>2
<1> DEFINE t == Pick(es, ev \cup rest)
<1>14. /\ t \in Seq(Event) /\ Len(t) = Cardinality(ev \cup rest)
       /\ ToSet(t) = {es[i] : i \in ev \cup rest}
       /\ Sorted(es) => Sorted(t)
  BY <1>11, PickPart
<1> HIDE DEF t
<1>15. ToSet(t) \subseteq ToSet(es)
  BY <1>11, <1>14 DEF ToSet
<1>16. n + Len(t) <= MaxSpool
  BY <1>1, <1>8, <1>10, <1>13, <1>14 DEF room
<1>17. ASSUME NEW e \in ToSet(es), Mandatory(e), e \notin ToSet(t)
       PROVE  n + Len(t) = MaxSpool
  <2>1. PICK i \in DOMAIN es : es[i] = e
    BY <1>17 DEF ToSet
  <2>2. i \in man /\ i \notin ev
    BY <1>7, <1>14, <1>17, <2>1
  <2>3. Cardinality(ev) = room
    BY <1>8, <2>2
  <2> QED
    BY <1>1, <1>10, <1>13, <1>14, <2>3 DEF room
<1> QED
  BY <1>6, <1>14, <1>15, <1>16, <1>17 DEF t

-----------------------------------------------------------------------------
(* The cloud receives                                                       *)

LEMMA EventSeq ==
  ASSUME NEW s \in Seq(Line), Torn \notin ToSet(s)
  PROVE  s \in Seq(Event)
<1>1. DOMAIN s = 1..Len(s) /\ Len(s) \in Nat /\ s \in [1..Len(s) -> Line]
  BY LenProperties
<1>2. \A i \in 1..Len(s) : s[i] \in Event
  BY <1>1 DEF ToSet, Line
<1>3. s \in [1..Len(s) -> Event]
  BY <1>1, <1>2
<1> QED
  BY <1>1, <1>3, SeqDef

LEMMA Elements ==
  ASSUME NEW S, NEW s \in Seq(S)
  PROVE  ToSet(s) \subseteq S
BY LenProperties DEF ToSet

\* Each event of es that the cloud does not have comes after all it has.
LEMMA ReceiveEffect ==
  ASSUME cloud \in Seq(Event), Sorted(cloud), again \subseteq unsure,
         NEW es \in Seq(Event), Sorted(es),
         \A e \in ToSet(es) : Fits(e, cloud, unsure), Receive(es)
  PROVE  /\ cloud' \in Seq(Event) /\ Sorted(cloud') /\ Ids(cloud') = Ids(cloud) \cup Ids(es)
         /\ again' \subseteq unsure
         /\ \A e : /\ Fits(e, cloud, unsure)
                   /\ \A f \in ToSet(es) : Follows(f, e)
                   => Fits(e, cloud', unsure)
<1> DEFINE idx == {i \in DOMAIN es : es[i].id \notin Ids(cloud)}
<1> DEFINE new == Pick(es, idx)
<1>1. idx \in SUBSET DOMAIN es /\ \A i \in DOMAIN es : i \in idx <=> es[i].id \notin Ids(cloud)
  OBVIOUS
<1>2. cloud' = cloud \o new /\ again' = again \cup (Ids(es) \cap Ids(cloud))
  BY DEF Receive
<1> HIDE DEF idx
<1>3. new \in Seq(Event) /\ ToSet(new) = {es[i] : i \in idx} /\ Sorted(new)
  BY <1>1, PickPart
<1> HIDE DEF new
<1>4. \A e \in ToSet(es) : e \in Event /\ e # Torn /\ e.id # 0
  <2>1. ToSet(es) \subseteq Event
    BY Elements
  <2> QED
    BY <2>1, EventId
<1>5. \A e \in ToSet(new) : e \in ToSet(es) /\ e.id \notin Ids(cloud)
  BY <1>1, <1>3 DEF ToSet
<1>6. \A e \in ToSet(es) : e.id \in Ids(cloud) \/ e \in ToSet(new)
  BY <1>1, <1>3 DEF ToSet
<1>7. Precedes(cloud, new)
  BY <1>4, <1>5 DEF Precedes, Fits
<1>8. cloud' \in Seq(Event) /\ ToSet(cloud') = ToSet(cloud) \cup ToSet(new) /\ Sorted(cloud')
  BY <1>2, <1>3, <1>7, ToSetConcat, SortedConcat
<1>9. Ids(cloud') = Ids(cloud) \cup Ids(es)
  <2>1. \A id : id \in Ids(es) => id \in Ids(cloud) \/ \E e \in ToSet(new) : id = e.id
    BY <1>6, IdsDef
  <2>2. \A id : id \in Ids(es) => id \in Ids(cloud')
    BY <1>8, <2>1, IdsDef
  <2>3. \A id : id \in Ids(cloud') => id \in Ids(cloud) \/ id \in Ids(es)
    BY <1>5, <1>8, IdsDef
  <2>4. \A id : id \in Ids(cloud) => id \in Ids(cloud')
    BY <1>8, IdsDef
  <2> QED
    BY <2>2, <2>3, <2>4
<1>10. again' \subseteq unsure
  <2> SUFFICES ASSUME NEW id \in Ids(es), id \in Ids(cloud) PROVE id \in unsure
    BY <1>2
  <2>1. PICK e \in ToSet(es) : id = e.id
    BY IdsDef
  <2>2. PICK f \in ToSet(cloud) : id = f.id
    BY IdsDef
  <2>3. f # Torn
    <3>1. f \in Event
      BY <2>2, Elements
    <3> QED
      BY <3>1, EventId
  <2>4. ~Follows(f, e)
    BY <1>4, <2>1, <2>2, <2>3 DEF Follows
  <2> QED
    BY <1>4, <2>1, <2>2, <2>4 DEF Fits
<1>11. ASSUME NEW e, Fits(e, cloud, unsure), \A f \in ToSet(es) : Follows(f, e)
       PROVE  Fits(e, cloud', unsure)
  BY <1>5, <1>8, <1>9, <1>11 DEF Fits
<1> QED
  BY <1>8, <1>9, <1>10, <1>11

-----------------------------------------------------------------------------
(* The lines of the spool                                                   *)

LEMMA ReadableLines ==
  ASSUME NEW sp \in Seq(Line)
  PROVE  /\ Readable(sp) \subseteq DOMAIN sp /\ DOMAIN sp = 1..Len(sp) /\ Len(sp) \in Nat
         /\ \A i \in Readable(sp) : sp[i] \in Event /\ sp[i] # Torn
<1>1. DOMAIN sp = 1..Len(sp) /\ Len(sp) \in Nat /\ \A i \in DOMAIN sp : sp[i] \in Line
  BY LenProperties
<1> QED
  BY <1>1 DEF Readable, Line

LEMMA UnsentLines ==
  ASSUME NEW sp \in Seq(Line), NEW sent, NEW upto
  PROVE  /\ Unsent(sp, sent, upto) \subseteq Readable(sp)
         /\ Unsent(sp, sent, upto) \subseteq DOMAIN sp
         /\ \A i : i \in Unsent(sp, sent, upto) <=> i \in Readable(sp) /\ sent < i /\ i <= upto
BY ReadableLines DEF Unsent

\* The end of a batch: the last line read, or one that a reader can tell.
LEMMA BatchEndLine ==
  ASSUME NEW sp \in Seq(Line), NEW sent \in Nat, NEW upto \in Nat, sent < upto, upto <= Len(sp),
         Unsent(sp, sent, upto) # {}
  PROVE  LET end == BatchEnd(sp, sent, upto) IN
         /\ end \in Nat /\ sent < end /\ end <= upto
         /\ end # upto => end \in Readable(sp)
         /\ Unsent(sp, sent, end) # {}
<1> DEFINE end == BatchEnd(sp, sent, upto)
<1> DEFINE left == Unsent(sp, sent, upto)
<1>1. /\ Readable(sp) \subseteq DOMAIN sp /\ DOMAIN sp = 1..Len(sp) /\ Len(sp) \in Nat
      /\ \A i : i \in left <=> i \in Readable(sp) /\ sent < i /\ i <= upto
  BY ReadableLines, UnsentLines
<1>2. BatchSize \in Nat \ {0}
  BY SinkAssumption
<1>3. end = IF BatchSize <= Cardinality(left) THEN CHOOSE i \in left : Rank(i, left) = BatchSize
            ELSE upto
  BY DEF BatchEnd
<1> HIDE DEF end, left
<1>4. left \in SUBSET Nat /\ IsFiniteSet(left) /\ Cardinality(left) \in Nat
  <2>1. IsFiniteSet(DOMAIN sp)
    BY <1>1, FS_Interval
  <2>2. left \in SUBSET DOMAIN sp
    BY <1>1
  <2> QED
    BY <1>1, <2>1, <2>2, FS_Subset, FS_CardinalityType
<1>5. CASE BatchSize <= Cardinality(left)
  <2>1. BatchSize \in 1..Cardinality(left)
    BY <1>2, <1>4, <1>5
  <2>2. \E i \in left : Rank(i, left) = BatchSize
    BY <1>4, <2>1, RankOnto
  <2>3. end \in left
    BY <1>3, <1>5, <2>2
  <2>4. end \in Nat /\ end \in Readable(sp) /\ sent < end /\ end <= upto /\ end <= end
    BY <1>1, <1>4, <2>3
  <2>5. end \in Unsent(sp, sent, end)
    BY <2>4, UnsentLines
  <2> QED
    BY <2>4, <2>5 DEF end
<1>6. CASE ~(BatchSize <= Cardinality(left))
  BY <1>3, <1>6 DEF end, left
<1> QED
  BY <1>5, <1>6

\* What was read of the spool says the same of a spool that has grown at its end.
LEMMA GrownReadable ==
  ASSUME NEW sp \in Seq(Line), NEW t \in Seq(Line)
  PROVE  /\ \A i \in DOMAIN sp : i \in DOMAIN (sp \o t) /\ (sp \o t)[i] = sp[i]
         /\ \A i \in DOMAIN sp : i \in Readable(sp \o t) <=> i \in Readable(sp)
         /\ \A i \in DOMAIN (sp \o t) : i \notin DOMAIN sp =>
                Len(sp) < i /\ (sp \o t)[i] \in ToSet(t)
<1> DEFINE u == sp \o t
<1>1. /\ u \in Seq(Line) /\ Len(u) = Len(sp) + Len(t)
      /\ \A i \in 1..(Len(sp) + Len(t)) : u[i] = IF i <= Len(sp) THEN sp[i] ELSE t[i - Len(sp)]
  BY ConcatProperties
<1>2. /\ DOMAIN sp = 1..Len(sp) /\ DOMAIN t = 1..Len(t) /\ DOMAIN u = 1..Len(u)
      /\ Len(sp) \in Nat /\ Len(t) \in Nat
  BY <1>1, LenProperties
<1> HIDE DEF u
<1>3. \A i \in DOMAIN sp : i \in DOMAIN u /\ u[i] = sp[i]
  BY <1>1, <1>2
<1>4. \A i \in DOMAIN sp : i > 1 => i - 1 \in DOMAIN sp
  BY <1>2
<1>5. \A i \in DOMAIN sp : i \in Readable(u) <=> i \in Readable(sp)
  BY <1>3, <1>4 DEF Readable
<1>6. \A i \in DOMAIN u : i \notin DOMAIN sp =>
          Len(sp) < i /\ i - Len(sp) \in DOMAIN t /\ u[i] = t[i - Len(sp)]
  BY <1>1, <1>2
<1> QED
  BY <1>3, <1>5, <1>6 DEF u, ToSet

LEMMA GrownUnsent ==
  ASSUME NEW sp \in Seq(Line), NEW t \in Seq(Line), NEW sent, NEW upto \in Nat, upto <= Len(sp)
  PROVE  Unsent(sp \o t, sent, upto) = Unsent(sp, sent, upto)
<1>1. /\ Readable(sp) \subseteq DOMAIN sp /\ DOMAIN sp = 1..Len(sp) /\ Len(sp) \in Nat
      /\ \A i \in DOMAIN sp : i \in Readable(sp \o t) <=> i \in Readable(sp)
  BY ReadableLines, GrownReadable
<1>2. /\ Readable(sp \o t) \subseteq DOMAIN (sp \o t) /\ DOMAIN (sp \o t) \subseteq Nat \ {0}
  <2> DEFINE u == sp \o t
  <2>1. u \in Seq(Line)
    BY ConcatProperties
  <2> HIDE DEF u
  <2>2. Readable(u) \subseteq DOMAIN u /\ DOMAIN u = 1..Len(u)
    BY <2>1, ReadableLines
  <2> QED
    BY <2>2 DEF u
<1>3. \A i \in Readable(sp \o t) : i <= upto => i \in DOMAIN sp
  BY <1>1, <1>2
<1>4. \A i : i \in Readable(sp \o t) /\ i <= upto <=> i \in Readable(sp) /\ i <= upto
  BY <1>1, <1>3, GrownReadable
<1> QED
  BY <1>4 DEF Unsent

\* A flush goes on as before when the spool grows, more is received, or a line is lost.
LEMMA GrownFlush ==
  ASSUME NEW sp \in Seq(Line), NEW t \in Seq(Line), NEW f, f.sent \in Nat, f.upto \in Nat,
         NEW cl, NEW dl, NEW go, NEW ho, Ids(cl) \subseteq Ids(dl), go \subseteq ho,
         FlushOf(f, sp, cl, go)
  PROVE  FlushOf(f, sp \o t, dl, ho)
<1> DEFINE u == sp \o t
<1>1. /\ u \in Seq(Line) /\ Len(u) = Len(sp) + Len(t)
      /\ \A i \in DOMAIN sp : i \in DOMAIN u /\ u[i] = sp[i]
      /\ \A i \in DOMAIN sp : i \in Readable(u) <=> i \in Readable(sp)
  BY ToSetConcat, GrownReadable
<1>2. /\ DOMAIN sp = 1..Len(sp) /\ Len(sp) \in Nat /\ Len(t) \in Nat
      /\ Readable(sp) \subseteq DOMAIN sp
  BY ReadableLines, LenProperties
<1>3. /\ Readable(u) \subseteq DOMAIN u /\ DOMAIN u = 1..Len(u)
  BY <1>1, ReadableLines
<1>4. f.sent < f.upto /\ f.upto <= Len(sp) /\ Unsent(sp, f.sent, f.upto) # {}
  BY DEF FlushOf
<1> DEFINE end == BatchEnd(sp, f.sent, f.upto)
<1>5. end \in Nat /\ end <= f.upto
  BY <1>4, BatchEndLine
<1>6. Unsent(u, f.sent, f.upto) = Unsent(sp, f.sent, f.upto)
  BY <1>4, GrownUnsent
<1>7. BatchEnd(u, f.sent, f.upto) = end
  BY <1>6 DEF BatchEnd
<1> HIDE DEF end
<1>8. Unsent(u, f.sent, end) = Unsent(sp, f.sent, end)
  <2>1. end <= Len(sp)
    BY <1>2, <1>4, <1>5
  <2> QED
    BY <1>5, <2>1, GrownUnsent
<1>9. \A i \in Unsent(sp, f.sent, end) : i \in DOMAIN sp
  BY UnsentLines
<1> HIDE DEF u
<1>10. {u[i] : i \in Unsent(u, f.sent, end)} = {sp[i] : i \in Unsent(sp, f.sent, end)}
  BY <1>1, <1>8, <1>9
<1>11. ToSet(f.batch) = {u[i] : i \in Unsent(u, f.sent, BatchEnd(u, f.sent, f.upto))}
  BY <1>7, <1>10 DEF FlushOf, end
<1>12. f.upto <= Len(u)
  BY <1>1, <1>2, <1>4
<1>13. \A i \in DOMAIN u : i <= f.upto => i \in DOMAIN sp
  BY <1>2, <1>3, <1>4
<1>14. f.sent # 0 => f.sent \in DOMAIN sp
  BY <1>2, <1>4
<1>15. f.sent # 0 => u[f.sent] # Torn
  BY <1>1, <1>14 DEF FlushOf
<1>16. ASSUME NEW i \in Readable(u), i <= f.sent PROVE u[i].id \in Ids(dl)
  <2>1. i <= f.upto /\ i \in DOMAIN u
    BY <1>3, <1>4, <1>16
  <2>2. i \in DOMAIN sp
    BY <1>13, <2>1
  <2> QED
    BY <1>1, <1>16, <2>2 DEF FlushOf
<1>17. ASSUME NEW i \in DOMAIN u, i <= f.upto, i \notin Readable(u), u[i] # Torn
       PROVE  u[i].id \in ho
  BY <1>1, <1>13, <1>17 DEF FlushOf
<1>18. Sorted(f.batch)
  BY DEF FlushOf
<1> QED
  BY <1>4, <1>6, <1>11, <1>12, <1>15, <1>16, <1>17, <1>18 DEF FlushOf, u

\* flushSpool, of a spool and a queue in order: it sends the first lines it can read.
LEMMA ReadEffect ==
  ASSUME NEW sp, NEW d \in Nat, ReadSpool(sp, d), NEW q, NEW cl, NEW n, NEW lo, NEW un,
         Order(<<>>, sp, q), Numbers(<<>>, sp, q, cl, n, lo, gone, un),
         Fresh(<<>>, sp, Readable(sp), q, cl, un)
  PROVE  /\ FlushShape' /\ Order(Batch', spool', q)
         /\ Numbers(Batch', spool', q, cl, n, lo, gone', un)
         /\ Fresh(Batch', spool', Pending(fl', spool'), q, cl, un)
         /\ fl'.pc = "spool" => FlushOf(fl', spool', cl, gone')
         /\ dropped' \in Nat
         /\ Torn \notin ToSet(sp) => dropped' = d /\ Torn \notin ToSet(spool')
<1>1. /\ sp \in Seq(Line) /\ q \in Seq(Event) /\ Sorted(sp) /\ Sorted(q) /\ Precedes(sp, q)
      /\ Len(sp) <= MaxSpool
  BY DEF Order
<1>2. /\ Readable(sp) \subseteq DOMAIN sp /\ DOMAIN sp = 1..Len(sp) /\ Len(sp) \in Nat
      /\ \A i \in Readable(sp) : sp[i] \in Event /\ sp[i] # Torn
  BY <1>1, ReadableLines
<1>3. dropped' = d + BadLines(sp) /\ gone' = gone \cup Unread(sp)
  BY DEF ReadSpool
<1>4. IsFiniteSet(DOMAIN sp)
  BY <1>2, FS_Interval
<1>5. BadLines(sp) \in Nat /\ (Torn \notin ToSet(sp) => BadLines(sp) = 0)
  <2> DEFINE bad == {i \in DOMAIN sp : sp[i] = Torn}
  <2>1. bad \in SUBSET DOMAIN sp /\ (Torn \notin ToSet(sp) => bad = {})
    BY DEF ToSet
  <2> HIDE DEF bad
  <2>2. IsFiniteSet(bad) /\ Cardinality(bad) \in Nat
    BY <1>4, <2>1, FS_Subset, FS_CardinalityType
  <2>3. Torn \notin ToSet(sp) => Cardinality(bad) = 0
    BY <2>1, FS_EmptySet
  <2> QED
    BY <2>2, <2>3 DEF BadLines, bad
<1>6. dropped' \in Nat /\ (Torn \notin ToSet(sp) => dropped' = d)
  BY <1>3, <1>5
<1>7. Unread(sp) \subseteq Ids(sp)
  BY DEF Unread
<1>8. CASE Readable(sp) = {}
  <2>1. spool' = <<>> /\ fl' = Resume
    BY <1>8 DEF ReadSpool
  <2>2. fl' = [pc |-> "resume", upto |-> 0, sent |-> 0, batch |-> <<>>]
    BY <2>1 DEF Resume, Idle
  <2>3. /\ fl'.pc = "resume" /\ fl'.upto = 0 /\ fl'.sent = 0 /\ fl'.batch = <<>>
        /\ fl' \in [pc : {"idle", "resume", "spool", "batch"}, upto : Nat, sent : Nat, batch : Seq(Event)]
    BY <2>2
  <2>4. FlushShape' /\ Batch' = <<>>
    BY <2>3 DEF FlushShape, Batch
  <2>5. ToSet(<<>>) = {} /\ Ids(<<>>) = {} /\ Readable(<<>>) = {} /\ <<>> \in Seq(Line) /\ Len(<<>>) = 0
    BY DEF ToSet, Ids, Readable
  <2>6. Pending(fl', spool') = {}
    BY <2>1, <2>3, <2>5 DEF Pending
  <2>7. MaxSpool \in Nat
    BY SinkAssumption
  <2>8. Order(<<>>, <<>>, q)
    BY <1>1, <2>5, <2>7 DEF Order, Sorted, Precedes
  <2>9. Unread(sp) = Ids(sp)
    BY <1>8 DEF Unread
  <2>10. Numbers(<<>>, <<>>, q, cl, n, lo, gone', un)
    BY <1>3, <2>5, <2>9 DEF Numbers, All
  <2>11. Fresh(<<>>, <<>>, {}, q, cl, un)
    BY DEF Fresh
  <2> QED
    BY <1>6, <2>1, <2>3, <2>4, <2>5, <2>6, <2>8, <2>10, <2>11
<1>9. CASE Readable(sp) # {}
  <2> DEFINE end == BatchEnd(sp, 0, Len(sp))
  <2> DEFINE idx == Unsent(sp, 0, end)
  <2>1. /\ spool' = sp
        /\ fl' = [pc |-> "spool", upto |-> Len(sp), sent |-> 0, batch |-> Pick(sp, idx)]
    BY <1>9 DEF ReadSpool, LineBatch
  <2>2. \A i \in Readable(sp) : i \in Nat /\ 0 < i /\ i <= Len(sp)
    BY <1>2
  <2>3. Unsent(sp, 0, Len(sp)) = Readable(sp)
    BY <2>2 DEF Unsent
  <2>4. 0 < Len(sp)
    BY <1>2, <1>9
  <2>5. idx \subseteq Readable(sp) /\ idx \in SUBSET DOMAIN sp
    BY <1>1, UnsentLines
  <2> HIDE DEF idx
  <2> DEFINE b == Pick(sp, idx)
  <2>6. b \in Seq(Line) /\ ToSet(b) = {sp[i] : i \in idx} /\ Sorted(b)
    BY <1>1, <2>5, PickPart
  <2> HIDE DEF b
  <2>7. b \in Seq(Event)
    BY <1>2, <2>5, <2>6, EventSeq
  <2>8. fl' = [pc |-> "spool", upto |-> Len(sp), sent |-> 0, batch |-> b]
    BY <2>1 DEF b
  <2>9. /\ fl'.pc = "spool" /\ fl'.upto = Len(sp) /\ fl'.sent = 0 /\ fl'.batch = b
        /\ fl' \in [pc : {"idle", "resume", "spool", "batch"}, upto : Nat, sent : Nat, batch : Seq(Event)]
    BY <1>2, <2>7, <2>8
  <2>10. FlushShape' /\ Batch' = <<>>
    BY <2>9 DEF FlushShape, Batch
  <2>11. Pending(fl', spool') = Readable(sp)
    BY <1>2, <2>1, <2>2, <2>9 DEF Pending
  <2>12. Numbers(<<>>, sp, q, cl, n, lo, gone', un)
    BY <1>3, <1>7 DEF Numbers, All
  <2>13. ASSUME NEW i \in DOMAIN sp, i \notin Readable(sp), sp[i] # Torn
         PROVE  sp[i].id \in gone'
    <3>1. sp[i].id # 0 /\ sp[i] \in ToSet(sp)
      <4>1. sp[i] \in Event
        BY <1>1, <2>13, LenProperties DEF Line
      <4> QED
        BY <4>1, EventId DEF ToSet
    <3>2. sp[i].id \in Ids(sp)
      BY <3>1, IdsDef
    <3>3. \A j \in Readable(sp) : sp[j].id # sp[i].id
      BY <1>1, <1>2, <2>13, <3>1, SameEvent
    <3> QED
      BY <1>3, <3>2, <3>3 DEF Unread
  <2>14. FlushOf(fl', sp, cl, gone')
    <3>1. \A i \in Readable(sp) : ~(i <= 0)
      BY <2>2
    <3>2. ToSet(b) = {sp[i] : i \in Unsent(sp, 0, BatchEnd(sp, 0, Len(sp)))}
      BY <2>6 DEF idx
    <3> QED
      BY <1>2, <1>9, <2>3, <2>4, <2>6, <2>9, <2>13, <3>1, <3>2 DEF FlushOf
  <2> QED
    BY <1>6, <2>1, <2>10, <2>11, <2>12, <2>14
<1> QED
  BY <1>8, <1>9

-----------------------------------------------------------------------------
(* A new event, and the notice that opens a flush                           *)

LEMMA NewEvent ==
  ASSUME NEW n \in Nat, NEW e \in Event, e.id = n + 1, NEW s \in Seq(Line), Ids(s) \subseteq 1..n
  PROVE  Precedes(s, <<e>>) /\ (e.kind = "notice" => Precedes(<<e>>, s))
<1>1. ToSet(<<e>>) = {e}
  BY DEF ToSet
<1>2. ASSUME NEW f \in ToSet(s), f # Torn PROVE f.id \in 1..n
  <2>1. f \in Event
    BY <1>2, Elements DEF Line
  <2>2. f.id \in Ids(s)
    BY <1>2, <2>1, EventId, IdsDef
  <2> QED
    BY <2>2
<1>3. \A f \in ToSet(s) : f # Torn => f.id \in Nat /\ f.id # e.id /\ f.id < e.id
  BY <1>2
<1> QED
  BY <1>1, <1>3 DEF Precedes, Follows

LEMMA Added ==
  ASSUME NEW b, NEW sp, NEW q, NEW cl, NEW n, NEW lo, NEW go, NEW un, NEW ok,
         Order(b, sp, q), Numbers(b, sp, q, cl, n, lo, go, un), Fresh(b, sp, ok, q, cl, un),
         NEW e \in Event, e.id = n + 1,
         NEW p, p = Append(q, e) \/ (e.kind = "notice" /\ p = <<e>> \o q)
  PROVE  /\ Order(b, sp, p) /\ Numbers(b, sp, p, cl, n + 1, lo, go, un)
         /\ Fresh(b, sp, ok, p, cl, un)
<1>1. /\ b \in Seq(Event) /\ sp \in Seq(Line) /\ q \in Seq(Event) /\ cl \in Seq(Event) /\ n \in Nat
      /\ Sorted(b) /\ Sorted(sp) /\ Sorted(q) /\ Len(sp) <= MaxSpool
      /\ Precedes(b, sp) /\ Precedes(b, q) /\ Precedes(sp, q)
  BY DEF Order, Numbers, Fresh
<1>2. b \in Seq(Line) /\ q \in Seq(Line) /\ cl \in Seq(Line)
  BY <1>1, Kinship, SeqMonotonic
<1>3. Ids(b) \subseteq 1..n /\ Ids(sp) \subseteq 1..n /\ Ids(q) \subseteq 1..n /\ Ids(cl) \subseteq 1..n
  BY DEF Numbers, All
<1>4. /\ Precedes(b, <<e>>) /\ Precedes(sp, <<e>>) /\ Precedes(q, <<e>>) /\ Precedes(cl, <<e>>)
      /\ e.kind = "notice" => Precedes(<<e>>, q)
  BY <1>1, <1>2, <1>3, NewEvent
<1>5. <<e>> \in Seq(Event) /\ ToSet(<<e>>) = {e} /\ Sorted(<<e>>)
  <2>1. ToSet(<<e>>) = {e}
    BY DEF ToSet
  <2> QED
    BY <2>1 DEF Sorted
<1>6. Append(q, e) = q \o <<e>>
  BY <1>1, AppendIsConcat
<1> DEFINE one == <<e>>
<1>7. p \in Seq(Event) /\ Sorted(p) /\ ToSet(p) = ToSet(q) \cup {e}
  <2>1. /\ one \in Seq(Event) /\ ToSet(one) = {e} /\ Sorted(one) /\ Precedes(q, one)
        /\ e.kind = "notice" => Precedes(one, q)
        /\ p = q \o one \/ (e.kind = "notice" /\ p = one \o q)
    BY <1>4, <1>5, <1>6
  <2> HIDE DEF one
  <2>2. CASE p = q \o one
    <3>1. p \in Seq(Event) /\ ToSet(p) = ToSet(q) \cup ToSet(one)
      BY <1>1, <2>1, <2>2, ToSetConcat
    <3>2. Sorted(p)
      BY <1>1, <2>1, <2>2, SortedConcat, SMTT(20)
    <3> QED
      BY <2>1, <3>1, <3>2
  <2>3. CASE e.kind = "notice" /\ p = one \o q
    <3>1. p \in Seq(Event) /\ ToSet(p) = ToSet(one) \cup ToSet(q)
      BY <1>1, <2>1, <2>3, ToSetConcat
    <3>2. Sorted(p)
      BY <1>1, <2>1, <2>3, SortedConcat, SMTT(20)
    <3> QED
      BY <2>1, <3>1, <3>2
  <2> QED
    BY <2>1, <2>2, <2>3
<1>8. Precedes(b, p) /\ Precedes(sp, p)
  BY <1>1, <1>4, <1>5, <1>7 DEF Precedes
<1>9. Ids(p) = Ids(q) \cup {n + 1}
  <2>1. n + 1 # 0
    BY <1>1
  <2>2. \A id : id \in Ids(p) <=> id \in Ids(q) \/ id = n + 1
    BY <1>7, <2>1, IdsDef
  <2> QED
    BY <2>2
<1>10. Fits(e, cl, un)
  BY <1>4, <1>5 DEF Fits, Precedes
<1>11. /\ 1..(n + 1) = (1..n) \cup {n + 1} /\ n + 1 \in Nat
       /\ \A T : T \subseteq 1..n => n + 1 \notin T
  BY <1>1
<1>12. Numbers(b, sp, p, cl, n + 1, lo, go, un)
  <2>1. lo \subseteq 1..n
    BY DEF Numbers
  <2>2. n + 1 \notin lo
    BY <1>11, <2>1
  <2> HIDE DEF Fits
  <2> QED
    BY <1>9, <1>11, <2>2 DEF Numbers, All
<1>13. Fresh(b, sp, ok, p, cl, un)
  BY <1>7, <1>10 DEF Fresh
<1>14. Order(b, sp, p)
  BY <1>1, <1>7, <1>8 DEF Order
<1> QED
  BY <1>12, <1>13, <1>14

LEMMA BeginEffect ==
  ASSUME NEW q, NEW sp, NEW d \in Nat, NEW n, BeginFlush(q, sp, d, n), reported \in Nat,
         NEW cl, NEW lo, NEW un,
         Order(<<>>, sp, q), Numbers(<<>>, sp, q, cl, n, lo, gone, un),
         Fresh(<<>>, sp, Readable(sp), q, cl, un)
  PROVE  /\ FlushShape' /\ Order(Batch', spool', queue')
         /\ Numbers(Batch', spool', queue', cl, seq', lo, gone', un)
         /\ Fresh(Batch', spool', Pending(fl', spool'), queue', cl, un)
         /\ fl'.pc = "spool" => FlushOf(fl', spool', cl, gone')
         /\ dropped' \in Nat /\ reported' \in Nat
         /\ Torn \notin ToSet(sp) =>
                dropped' + reported' = d + reported /\ Torn \notin ToSet(spool')
<1> DEFINE notice == [id |-> n + 1, kind |-> "notice", count |-> d]
<1>1. n \in Nat
  BY DEF Numbers
<1>2. notice \in Event /\ notice.id = n + 1 /\ notice.kind = "notice"
  BY <1>1 DEF Event, Kinds
<1>3. /\ queue' = IF d > 0 THEN <<notice>> \o q ELSE q
      /\ seq' = IF d > 0 THEN n + 1 ELSE n
      /\ reported' = reported + d
      /\ ReadSpool(sp, 0)
  BY DEF BeginFlush
<1> HIDE DEF notice
<1>4. /\ Order(<<>>, sp, queue') /\ Numbers(<<>>, sp, queue', cl, seq', lo, gone, un)
      /\ Fresh(<<>>, sp, Readable(sp), queue', cl, un)
  <2>1. CASE d > 0
    <3>1. queue' = <<notice>> \o q /\ seq' = n + 1
      BY <1>3, <2>1
    <3>2. /\ Order(<<>>, sp, <<notice>> \o q)
          /\ Numbers(<<>>, sp, <<notice>> \o q, cl, n + 1, lo, gone, un)
          /\ Fresh(<<>>, sp, Readable(sp), <<notice>> \o q, cl, un)
      BY <1>2, Added
    <3> QED
      BY <3>1, <3>2
  <2>2. CASE ~(d > 0)
    BY <1>3, <2>2
  <2> QED
    BY <2>1, <2>2
<1>5. /\ FlushShape' /\ Order(Batch', spool', queue')
      /\ Numbers(Batch', spool', queue', cl, seq', lo, gone', un)
      /\ Fresh(Batch', spool', Pending(fl', spool'), queue', cl, un)
      /\ fl'.pc = "spool" => FlushOf(fl', spool', cl, gone')
      /\ dropped' \in Nat
      /\ Torn \notin ToSet(sp) => dropped' = 0 /\ Torn \notin ToSet(spool')
  BY <1>3, <1>4, ReadEffect
<1>6. reported' \in Nat /\ reported' = reported + d
  BY <1>3
<1>7. Torn \notin ToSet(sp) => dropped' + reported' = d + reported
  BY <1>5, <1>6
<1> QED
  BY <1>5, <1>6, <1>7

-----------------------------------------------------------------------------
(* Events that go to the spool                                              *)

LEMMA UnkeptRest ==
  ASSUME NEW sp, NEW n \in Nat, Len(sp) = n, n <= MaxSpool, NEW es \in Seq(Event)
  PROVE  /\ Ids(Kept(sp, es)) \cup Unkept(sp, es) = Ids(es)
         /\ Ids(Kept(sp, es)) \cap Unkept(sp, es) = {}
<1>1. ToSet(Kept(sp, es)) \subseteq ToSet(es)
  BY KeptPart
<1>2. Ids(Kept(sp, es)) \subseteq Ids(es)
  BY <1>1, IdsDef
<1> QED
  BY <1>2 DEF Unkept

\* Events that come after the spool are appended to it.
LEMMA Spilled ==
  ASSUME NEW sp \in Seq(Line), Sorted(sp), Len(sp) <= MaxSpool,
         NEW es \in Seq(Event), Sorted(es), Precedes(sp, es)
  PROVE  /\ sp \o Kept(sp, es) \in Seq(Line) /\ Sorted(sp \o Kept(sp, es))
         /\ Len(sp \o Kept(sp, es)) <= MaxSpool
         /\ ToSet(sp \o Kept(sp, es)) = ToSet(sp) \cup ToSet(Kept(sp, es))
         /\ Ids(sp \o Kept(sp, es)) = Ids(sp) \cup Ids(Kept(sp, es))
         /\ \A e \in ToSet(es) : Mandatory(e) /\ e \notin ToSet(Kept(sp, es)) =>
                Len(sp \o Kept(sp, es)) = MaxSpool
<1> DEFINE t == Kept(sp, es)
<1>1. Len(sp) \in Nat
  BY LenProperties
<1>2. /\ t \in Seq(Event) /\ ToSet(t) \subseteq ToSet(es) /\ Sorted(t)
      /\ Len(sp) + Len(t) <= MaxSpool
      /\ \A e \in ToSet(es) : Mandatory(e) /\ e \notin ToSet(t) => Len(sp) + Len(t) = MaxSpool
  BY <1>1, KeptPart
<1> HIDE DEF t
<1>3. t \in Seq(Line)
  BY <1>2, Kinship, SeqMonotonic
<1>4. Precedes(sp, t)
  BY <1>2 DEF Precedes
<1>5. /\ sp \o t \in Seq(Line) /\ Len(sp \o t) = Len(sp) + Len(t)
      /\ ToSet(sp \o t) = ToSet(sp) \cup ToSet(t)
      /\ Sorted(sp \o t) /\ Ids(sp \o t) = Ids(sp) \cup Ids(t)
  BY <1>2, <1>3, <1>4, ToSetConcat, SortedConcat, IdsConcat
<1> QED
  BY <1>2, <1>5 DEF t

LEMMA GrownPending ==
  ASSUME NEW sp \in Seq(Line), NEW t \in Seq(Line), NEW f, NEW i \in Pending(f, sp \o t)
  PROVE  \/ i \in Pending(f, sp) /\ (sp \o t)[i] = sp[i]
         \/ (sp \o t)[i] \in ToSet(t)
<1> DEFINE u == sp \o t
<1>1. u \in Seq(Line)
  BY ConcatProperties
<1>2. /\ \A j \in DOMAIN sp : u[j] = sp[j]
      /\ \A j \in DOMAIN sp : j \in Readable(u) <=> j \in Readable(sp)
      /\ \A j \in DOMAIN u : j \notin DOMAIN sp => u[j] \in ToSet(t)
  BY GrownReadable
<1> HIDE DEF u
<1>3. Readable(u) \subseteq DOMAIN u
  BY <1>1, ReadableLines
<1>4. i \in Pending(f, u)
  BY DEF u
<1>5. i \in DOMAIN u
  BY <1>3, <1>4 DEF Pending
<1>6. CASE i \in DOMAIN sp
  BY <1>2, <1>4, <1>6 DEF Pending, u
<1>7. CASE i \notin DOMAIN sp
  BY <1>2, <1>5, <1>7 DEF u
<1> QED
  BY <1>6, <1>7

LEMMA GrownFresh ==
  ASSUME NEW sp \in Seq(Line), NEW t \in Seq(Line), NEW f, NEW b, NEW q, NEW cl, NEW un,
         Fresh(b, sp, Pending(f, sp), q, cl, un), \A e \in ToSet(t) : Fits(e, cl, un),
         NEW p, ToSet(p) \subseteq ToSet(q)
  PROVE  Fresh(b, sp \o t, Pending(f, sp \o t), p, cl, un)
<1>1. \A i \in Pending(f, sp \o t) : Fits((sp \o t)[i], cl, un)
  BY GrownPending DEF Fresh
<1> QED
  BY <1>1 DEF Fresh

\* The first position of a set.
LEMMA MinMember ==
  ASSUME NEW idx \in SUBSET Nat, IsFiniteSet(idx), idx # {}
  PROVE  Min(idx) \in idx
<1>1. Cardinality(idx) \in Nat /\ Cardinality(idx) # 0
  BY FS_CardinalityType, FS_EmptySet
<1>2. 1 \in 1..Cardinality(idx)
  BY <1>1
<1>3. PICK i \in idx : Rank(i, idx) = 1
  BY <1>2, RankOnto
<1>4. ASSUME NEW j \in idx PROVE i <= j
  <2>1. Rank(j, idx) \in 1..Cardinality(idx)
    BY RankMember
  <2>2. ~(j < i)
    BY <1>1, <1>3, <2>1, RankGrows
  <2> QED
    BY <2>2
<1>5. \E x \in idx : \A y \in idx : x =< y
  BY <1>4
<1> QED
  BY <1>5 DEF Min

LEMMA Removed ==
  ASSUME NEW s \in Seq(Event), Sorted(s), NEW i \in DOMAIN s
  PROVE  /\ RemoveAt(s, i) \in Seq(Event) /\ Sorted(RemoveAt(s, i))
         /\ ToSet(RemoveAt(s, i)) \subseteq ToSet(s)
         /\ Ids(RemoveAt(s, i)) \cup {s[i].id} = Ids(s) /\ s[i].id \notin Ids(RemoveAt(s, i))
<1>1. DOMAIN s = 1..Len(s) /\ Len(s) \in Nat /\ \A j \in DOMAIN s : s[j] \in Event
  BY LenProperties
<1>2. i - 1 \in Nat /\ i - 1 <= Len(s) /\ i + 1 \in Nat \ {0} /\ 1 \in Nat \ {0} /\ Len(s) <= Len(s)
  BY <1>1
<1> DEFINE a == SubSeq(s, 1, i - 1)
<1> DEFINE c == SubSeq(s, i + 1, Len(s))
<1>3. /\ a \in Seq(Event) /\ ToSet(a) = {s[j] : j \in 1..(i - 1)} /\ Sorted(a)
  <2> DEFINE from == 1
  <2> DEFINE to == i - 1
  <2>1. from \in Nat \ {0} /\ to \in Nat /\ to <= Len(s)
    BY <1>2
  <2> HIDE DEF from, to
  <2> DEFINE u == SubSeq(s, from, to)
  <2>2. u \in Seq(Event) /\ ToSet(u) = {s[j] : j \in from..to} /\ Sorted(u)
    <3>1. u \in Seq(Event)
      BY <2>1, SubSeqPart, ZenonT(20)
    <3>2. \A x : x \in ToSet(u) <=> \E j \in from..to : x = s[j]
      BY <2>1, SubSeqMembers
    <3>3. Sorted(u)
      BY <2>1, SubSeqPart, ZenonT(20)
    <3> HIDE DEF u
    <3>4. ToSet(u) = {s[j] : j \in from..to}
      BY <3>2
    <3> QED
      BY <3>1, <3>3, <3>4
  <2>3. from = 1 /\ to = i - 1
    BY DEF from, to
  <2>4. a = SubSeq(s, from, to) /\ from..to = 1..(i - 1)
    BY <2>3
  <2> HIDE DEF a
  <2> QED
    BY <2>2, <2>4
<1>4. /\ c \in Seq(Event) /\ ToSet(c) = {s[j] : j \in (i + 1)..Len(s)} /\ Sorted(c)
  <2> DEFINE m == i + 1
  <2> DEFINE n == Len(s)
  <2>1. m \in Nat \ {0} /\ n \in Nat /\ n <= Len(s)
    BY <1>1, <1>2
  <2> HIDE DEF m, n
  <2> DEFINE u == SubSeq(s, m, n)
  <2>2. u \in Seq(Event) /\ ToSet(u) = {s[j] : j \in m..n} /\ Sorted(u)
    <3>1. u \in Seq(Event)
      BY <2>1, SubSeqPart, ZenonT(20)
    <3>2. \A x : x \in ToSet(u) <=> \E j \in m..n : x = s[j]
      BY <2>1, SubSeqMembers
    <3>3. Sorted(u)
      BY <2>1, SubSeqPart, ZenonT(20)
    <3> HIDE DEF u
    <3>4. ToSet(u) = {s[j] : j \in m..n}
      BY <3>2
    <3> QED
      BY <3>1, <3>3, <3>4
  <2> QED
    BY <2>2 DEF m, n
<1> HIDE DEF a, c
<1>5. Precedes(a, c)
  <2> SUFFICES ASSUME NEW j \in 1..(i - 1), NEW k \in (i + 1)..Len(s)
               PROVE  Follows(s[j], s[k])
    BY <1>3, <1>4 DEF Precedes
  <2>1. j \in DOMAIN s /\ k \in DOMAIN s /\ j < k
    BY <1>1
  <2> QED
    BY <2>1 DEF Sorted
<1> DEFINE t == a \o c
<1>6. t \in Seq(Event) /\ ToSet(t) = ToSet(a) \cup ToSet(c) /\ Sorted(t)
  BY <1>3, <1>4, <1>5, ToSetConcat, SortedConcat
<1>7. RemoveAt(s, i) = t
  BY DEF RemoveAt, a, c
<1> HIDE DEF t
<1>8. \A j \in DOMAIN s : j # i <=> j \in 1..(i - 1) \/ j \in (i + 1)..Len(s)
  BY <1>1
<1>9. \A j : j \in 1..(i - 1) \/ j \in (i + 1)..Len(s) => j \in DOMAIN s /\ j # i
  BY <1>1
<1>10. ToSet(t) = {s[j] : j \in DOMAIN s \ {i}}
  <2>1. \A x : x \in ToSet(t) <=> \E j : (j \in 1..(i - 1) \/ j \in (i + 1)..Len(s)) /\ x = s[j]
    BY <1>3, <1>4, <1>6
  <2>2. \A x : x \in ToSet(t) <=> \E j \in DOMAIN s : j # i /\ x = s[j]
    BY <1>8, <1>9, <2>1
  <2> QED
    BY <2>2
<1>11. \A id : id \in Ids(t) <=> \E j \in DOMAIN s : j # i /\ id = s[j].id
  <2>1. \A j \in DOMAIN s : s[j].id # 0
    BY <1>1, EventId
  <2> QED
    BY <1>10, <2>1, IdsDef
<1>12. \A id : id \in Ids(s) <=> \E j \in DOMAIN s : id = s[j].id
  <2>1. \A j \in DOMAIN s : s[j].id # 0
    BY <1>1, EventId
  <2> QED
    BY <2>1, IdsDef DEF ToSet
<1>13. \A j \in DOMAIN s : s[j].id = s[i].id => j = i
  BY <1>1, EventId, SameEvent
<1>14. s[i].id \notin Ids(t)
  BY <1>11, <1>13
<1>15. Ids(t) \cup {s[i].id} = Ids(s)
  BY <1>11, <1>12
<1>16. ToSet(t) \subseteq ToSet(s)
  BY <1>10 DEF ToSet
<1> QED
  BY <1>6, <1>7, <1>14, <1>15, <1>16

-----------------------------------------------------------------------------
(* emit                                                                     *)

\* What a full queue gives up: an event that is dropped, or its oldest to the spool.
LEMMA ShedEffect ==
  ASSUME NEW b, NEW cl, NEW n, NEW lo, NEW go, NEW un,
         Order(b, spool, queue), Numbers(b, spool, queue, cl, n, lo, go, un)
  PROVE  /\ Order(b, Shed.sp, Shed.q)
         /\ Numbers(b, Shed.sp, Shed.q, cl, n, lo \cup Shed.out, go, un)
         /\ Shed.out \cap lo = {} /\ Shed.out \subseteq 1..n /\ lo \subseteq 1..n
         /\ ToSet(Shed.q) \subseteq ToSet(queue)
         /\ \E t \in Seq(Line) : Shed.sp = spool \o t /\ ToSet(t) \subseteq ToSet(queue)
         /\ \A e \in ToSet(queue) : Mandatory(e) /\ e.id \in Shed.out => Len(Shed.sp) >= MaxSpool
<1>1. /\ b \in Seq(Event) /\ spool \in Seq(Line) /\ queue \in Seq(Event)
      /\ Sorted(b) /\ Sorted(spool) /\ Sorted(queue) /\ Len(spool) <= MaxSpool
      /\ Precedes(b, spool) /\ Precedes(b, queue) /\ Precedes(spool, queue)
  BY DEF Order
<1>2. DOMAIN queue = 1..Len(queue) /\ Len(queue) \in Nat /\ \A i \in DOMAIN queue : queue[i] \in Event
  BY <1>1, LenProperties
<1>3. spool \o <<>> = spool /\ <<>> \in Seq(Line) /\ ToSet(<<>>) = {}
  BY <1>1 DEF ToSet
<1>4. lo \subseteq 1..n
  BY DEF Numbers
<1> DEFINE others == {i \in DOMAIN queue : ~Mandatory(queue[i])}
<1> DEFINE oldest == <<Head(queue)>>
<1>5. Shed = IF Len(queue) < MaxBuffered THEN [q |-> queue, sp |-> spool, out |-> {}]
             ELSE IF others # {}
             THEN [q |-> RemoveAt(queue, Min(others)), sp |-> spool,
                   out |-> {queue[Min(others)].id}]
             ELSE [q |-> Tail(queue), sp |-> spool \o Kept(spool, oldest),
                   out |-> Unkept(spool, oldest)]
  BY DEF Shed
<1>6. MaxBuffered \in Nat \ {0} /\ MaxSpool \in Nat
  BY SinkAssumption
<1>7. CASE Len(queue) < MaxBuffered
  <2>1. Shed.q = queue /\ Shed.sp = spool /\ Shed.out = {}
    BY <1>5, <1>7
  <2>2. lo \cup {} = lo
    OBVIOUS
  <2> QED
    BY <1>3, <1>4, <2>1, <2>2
<1>8. CASE ~(Len(queue) < MaxBuffered) /\ others # {}
  <2> DEFINE i == Min(others)
  <2>1. others \in SUBSET Nat /\ IsFiniteSet(others)
    <3>1. IsFiniteSet(DOMAIN queue) /\ others \in SUBSET DOMAIN queue
      BY <1>2, FS_Interval
    <3> QED
      BY <1>2, <3>1, FS_Subset
  <2>2. i \in others
    <3> HIDE DEF others
    <3> QED
      BY <1>8, <2>1, MinMember
  <2>3. i \in DOMAIN queue /\ ~Mandatory(queue[i])
    BY <2>2
  <2>4. Shed.q = RemoveAt(queue, i) /\ Shed.sp = spool /\ Shed.out = {queue[i].id}
    BY <1>5, <1>8
  <2> HIDE DEF i, others
  <2> DEFINE q == RemoveAt(queue, i)
  <2>5. /\ q \in Seq(Event) /\ Sorted(q) /\ ToSet(q) \subseteq ToSet(queue)
        /\ Ids(q) \cup {queue[i].id} = Ids(queue) /\ queue[i].id \notin Ids(q)
    BY <1>1, <2>3, Removed
  <2> HIDE DEF q
  <2>6. Order(b, spool, q)
    BY <1>1, <2>5 DEF Order, Precedes
  <2>7. queue[i].id \notin Ids(b) /\ queue[i].id \notin Ids(spool)
    <3>1. Ids(b) \cap Ids(queue) = {} /\ Ids(spool) \cap Ids(queue) = {}
      BY <1>1, Disjoint
    <3> QED
      BY <2>5, <3>1
  <2> DEFINE out == {queue[i].id}
  <2>8. /\ All(b, spool, q) \cup out = All(b, spool, queue)
        /\ All(b, spool, q) \cap out = {}
    BY <2>5, <2>7 DEF All
  <2>9. /\ Numbers(b, spool, q, cl, n, lo \cup out, go, un)
        /\ out \cap lo = {} /\ out \subseteq 1..n
    <3> HIDE DEF out
    <3> QED
      BY <2>8 DEF Numbers
  <2>10. ASSUME NEW e \in ToSet(queue), Mandatory(e), e.id = queue[i].id PROVE FALSE
    <3>1. PICK j \in DOMAIN queue : e = queue[j]
      BY <2>10 DEF ToSet
    <3>2. queue[i].id # 0
      BY <1>2, <2>3, EventId
    <3>3. j = i
      BY <1>1, <2>3, <2>10, <3>1, <3>2, SameEvent
    <3> QED
      BY <2>3, <2>10, <3>1, <3>3
  <2> QED
    BY <1>3, <1>4, <2>4, <2>5, <2>6, <2>9, <2>10 DEF q
<1>9. CASE ~(Len(queue) < MaxBuffered) /\ others = {}
  <2>1. queue # <<>>
    BY <1>1, <1>2, <1>6, <1>9
  <2> DEFINE t == Tail(queue)
  <2> DEFINE k == Kept(spool, oldest)
  <2>2. /\ Head(queue) = queue[1] /\ 1 \in DOMAIN queue
        /\ t = SubSeq(queue, 2, Len(queue))
    <3>1. Len(queue) # 0
      BY <1>2, <1>6, <1>9
    <3>2. t = SubSeq(queue, 2, Len(queue))
      BY <1>1, <2>1, TailIsSubSeq
    <3> QED
      BY <1>1, <1>2, <3>1, <3>2
  <2>3. 2 \in Nat \ {0} /\ Len(queue) <= Len(queue)
    BY <1>2
  <2>4. t \in Seq(Event) /\ ToSet(t) = {queue[i] : i \in 2..Len(queue)} /\ Sorted(t)
    <3> DEFINE from == 2
    <3> DEFINE to == Len(queue)
    <3>1. from \in Nat \ {0} /\ to \in Nat /\ to <= Len(queue)
      BY <1>2, <2>3
    <3> HIDE DEF from, to
    <3> DEFINE u == SubSeq(queue, from, to)
    <3>2. u \in Seq(Event)
      BY <1>1, <3>1, SubSeqPart, ZenonT(20)
    <3>3. \A x : x \in ToSet(u) <=> \E i \in from..to : x = queue[i]
      BY <1>1, <3>1, SubSeqMembers
    <3>4. Sorted(u)
      BY <1>1, <3>1, SubSeqPart, ZenonT(20)
    <3>5. u = t
      BY <2>2 DEF from, to
    <3> HIDE DEF u, t
    <3>6. ToSet(t) = {queue[i] : i \in 2..Len(queue)}
      BY <3>3, <3>5 DEF from, to
    <3> QED
      BY <3>2, <3>4, <3>5, <3>6
  <2>5. /\ oldest \in Seq(Event) /\ ToSet(oldest) = {queue[1]} /\ Sorted(oldest)
    <3>1. ToSet(oldest) = {queue[1]}
      BY <2>2 DEF ToSet
    <3>2. oldest \in Seq(Event)
      BY <1>2, <2>2
    <3> QED
      BY <3>1, <3>2 DEF Sorted
  <2> HIDE DEF t, oldest
  <2>6. ToSet(t) \subseteq ToSet(queue) /\ ToSet(oldest) \subseteq ToSet(queue)
        /\ ToSet(queue) = ToSet(oldest) \cup ToSet(t)
    <3>1. \A i \in 2..Len(queue) : i \in DOMAIN queue
      BY <1>2
    <3>2. \A i \in DOMAIN queue : i = 1 \/ i \in 2..Len(queue)
      BY <1>2
    <3> QED
      BY <2>2, <2>4, <2>5, <3>1, <3>2 DEF ToSet
  <2>7. Precedes(oldest, t)
    <3>1. \A i \in 2..Len(queue) : i \in DOMAIN queue /\ 1 < i
      BY <1>2
    <3>2. \A i \in 2..Len(queue) : Follows(queue[1], queue[i])
      BY <1>1, <2>2, <3>1 DEF Sorted
    <3> QED
      BY <2>4, <2>5, <3>2 DEF Precedes
  <2>8. Precedes(spool, oldest)
    BY <1>1, <2>6 DEF Precedes
  <2>9. Len(spool) \in Nat
    BY <1>1, LenProperties
  <2>10. /\ k \in Seq(Event) /\ ToSet(k) \subseteq ToSet(oldest) /\ k \in Seq(Line)
         /\ Ids(k) \cup Unkept(spool, oldest) = Ids(oldest)
         /\ Ids(k) \cap Unkept(spool, oldest) = {}
    BY <1>1, <2>5, <2>9, KeptPart, UnkeptRest, Kinship, SeqMonotonic
  <2>11. /\ spool \o k \in Seq(Line) /\ Sorted(spool \o k) /\ Len(spool \o k) <= MaxSpool
         /\ ToSet(spool \o k) = ToSet(spool) \cup ToSet(k)
         /\ Ids(spool \o k) = Ids(spool) \cup Ids(k)
         /\ \A e \in ToSet(oldest) : Mandatory(e) /\ e \notin ToSet(k) => Len(spool \o k) = MaxSpool
    BY <1>1, <2>5, <2>8, Spilled
  <2>12. Shed.q = t /\ Shed.sp = spool \o k /\ Shed.out = Unkept(spool, oldest)
    BY <1>5, <1>9 DEF t, oldest
  <2> HIDE DEF k, others
  <2> DEFINE out == Unkept(spool, oldest)
  <2> DEFINE sp == spool \o k
  <2>13. Order(b, sp, t)
    <3>1. Precedes(b, sp) /\ Precedes(b, t) /\ Precedes(sp, t)
      BY <1>1, <2>6, <2>7, <2>10, <2>11 DEF Precedes
    <3> QED
      BY <1>1, <2>4, <2>11, <3>1 DEF Order
  <2>14. Ids(queue) = Ids(oldest) \cup Ids(t)
    <3>1. \A id : id \in Ids(queue) <=> id \in Ids(oldest) \/ id \in Ids(t)
      BY <2>6, IdsDef
    <3> QED
      BY <3>1
  <2>15. /\ Ids(b) \cap Ids(queue) = {} /\ Ids(spool) \cap Ids(queue) = {}
         /\ Ids(oldest) \cap Ids(t) = {}
    BY <1>1, <2>7, Disjoint
  <2> HIDE DEF out
  <2>16. /\ Ids(k) \cup out = Ids(oldest) /\ Ids(k) \cap out = {}
    BY <2>10 DEF out
  <2>17. All(b, sp, t) \cup out = All(b, spool, queue) /\ All(b, sp, t) \cap out = {}
    BY <2>11, <2>14, <2>15, <2>16 DEF All
  <2>18. /\ Numbers(b, sp, t, cl, n, lo \cup out, go, un) /\ out \cap lo = {} /\ out \subseteq 1..n
    <3> HIDE DEF sp
    <3> QED
      BY <2>17 DEF Numbers
  <2>19. ASSUME NEW e \in ToSet(queue), Mandatory(e), e.id \in out PROVE Len(sp) >= MaxSpool
    <3>1. e.id \in Ids(oldest) /\ e.id \notin Ids(t) /\ e.id \notin Ids(k) /\ e.id # 0
      <4>1. e.id \in Ids(oldest)
        BY <2>16, <2>19
      <4> QED
        BY <2>15, <2>16, <2>19, <4>1, IdsDef
    <3>2. e \notin ToSet(t) /\ e \notin ToSet(k)
      BY <3>1, IdsDef
    <3>3. e \in ToSet(oldest)
      BY <2>6, <2>19, <3>2
    <3>4. Len(sp) = MaxSpool
      BY <2>11, <2>19, <3>2, <3>3
    <3> QED
      BY <1>6, <3>4
  <2>20. \E u \in Seq(Line) : sp = spool \o u /\ ToSet(u) \subseteq ToSet(queue)
    BY <2>6, <2>10
  <2> QED
    BY <1>4, <2>6, <2>12, <2>13, <2>18, <2>19, <2>20 DEF out, sp
<1> QED
  BY <1>7, <1>8, <1>9

\* The count goes on: what a step drops was not counted before.
LEMMA Counted ==
  ASSUME NEW n \in Nat, NEW A \in SUBSET (1..n), NEW B \in SUBSET (1..n), A \cap B = {}
  PROVE  /\ Cardinality(B) \in Nat /\ Cardinality(A \cup B) = Cardinality(A) + Cardinality(B)
         /\ Cardinality(A) \in Nat
BY CountUnion, FinitelyMany

LEMMA EmitStep ==
  ASSUME SinkInv, NEW kind \in {"evidence", "other"}, Emit(kind)
  PROVE  SinkInv'
<1> DEFINE e == [id |-> seq + 1, kind |-> kind, count |-> 0]
<1> DEFINE out == Shed.out
<1> DEFINE sp == Shed.sp
<1> DEFINE d == dropped + Cardinality(out)
<1> DEFINE q == Append(Shed.q, e)
<1>1. /\ FlushShape /\ Order(Batch, spool, queue)
      /\ Numbers(Batch, spool, queue, cloud, seq, lost, gone, unsure)
      /\ Fresh(Batch, spool, Pending(fl, spool), queue, cloud, unsure)
      /\ fl.pc = "spool" => FlushOf(fl, spool, cloud, gone)
      /\ again \subseteq unsure /\ Counts
  BY DEF SinkInv
<1>2. /\ lost' = lost \cup out
      /\ \/ fl.pc = "idle" /\ BeginFlush(q, sp, d, seq + 1)
         \/ /\ queue' = q /\ spool' = sp /\ dropped' = d /\ seq' = seq + 1
            /\ fl' = fl /\ gone' = gone /\ reported' = reported
      /\ life' = life /\ cloud' = cloud /\ unsaid' = unsaid /\ unsure' = unsure /\ again' = again
      /\ fails' = fails /\ crashes' = crashes
  BY DEF Emit
<1>3. /\ Order(Batch, sp, Shed.q)
      /\ Numbers(Batch, sp, Shed.q, cloud, seq, lost \cup out, gone, unsure)
      /\ out \cap lost = {} /\ out \subseteq 1..seq /\ lost \subseteq 1..seq
      /\ ToSet(Shed.q) \subseteq ToSet(queue)
  BY <1>1, ShedEffect
<1>4. PICK t \in Seq(Line) : sp = spool \o t /\ ToSet(t) \subseteq ToSet(queue)
  BY <1>1, ShedEffect
<1>5. spool \in Seq(Line) /\ seq \in Nat
  BY <1>1 DEF Order, Numbers
<1>6. e \in Event /\ e.id = seq + 1
  BY <1>5 DEF Event, Kinds
<1> HIDE DEF e, out, sp
<1>7. \A f \in ToSet(t) : Fits(f, cloud, unsure)
  BY <1>1, <1>4 DEF Fresh
<1>8. Fresh(Batch, sp, Pending(fl, sp), Shed.q, cloud, unsure)
  BY <1>1, <1>3, <1>4, <1>5, <1>7, GrownFresh
<1>9. q = Append(Shed.q, e)
  OBVIOUS
<1> HIDE DEF q
<1> DEFINE lo == lost \cup out
<1>10. Numbers(Batch, sp, Shed.q, cloud, seq, lo, gone, unsure) /\ lost' = lo
  BY <1>2, <1>3
<1>11. /\ Cardinality(out) \in Nat /\ Cardinality(lost) \in Nat
       /\ Cardinality(lo) = Cardinality(lost) + Cardinality(out)
  <2>1. out \in SUBSET (1..seq) /\ lost \in SUBSET (1..seq) /\ lost \cap out = {}
    BY <1>3
  <2> QED
    BY <1>5, <2>1, Counted
<1> HIDE DEF lo
<1>12. /\ Order(Batch, sp, q)
       /\ Numbers(Batch, sp, q, cloud, seq + 1, lo, gone, unsure)
       /\ Fresh(Batch, sp, Pending(fl, sp), q, cloud, unsure)
  BY <1>3, <1>6, <1>8, <1>9, <1>10, Added, ZenonT(20)
<1>13. /\ dropped \in Nat /\ reported \in Nat /\ unsaid \in Nat /\ crashes \in Nat
       /\ life \in {"open", "closing", "down"}
       /\ crashes = 0 => /\ Torn \notin ToSet(spool)
                         /\ dropped + reported + unsaid = Cardinality(lost)
  BY <1>1 DEF Counts
<1>14. Torn \notin ToSet(spool) => Torn \notin ToSet(sp)
  <2>1. queue \in Seq(Event)
    BY <1>1 DEF Order
  <2>2. Torn \notin ToSet(queue)
    BY <2>1, Elements, Kinship
  <2> QED
    BY <1>4, <1>5, <2>2, ToSetConcat
<1>15. d \in Nat /\ (crashes = 0 => d + reported + unsaid = Cardinality(lo))
  BY <1>11, <1>13
<1> HIDE DEF d
<1>16. CASE fl.pc = "idle" /\ BeginFlush(q, sp, d, seq + 1)
  <2>1. Batch = <<>> /\ Pending(fl, sp) = Readable(sp)
    BY <1>16 DEF Batch, Pending
  <2>2. /\ Order(<<>>, sp, q)
        /\ Numbers(<<>>, sp, q, cloud, seq + 1, lo, gone, unsure)
        /\ Fresh(<<>>, sp, Readable(sp), q, cloud, unsure)
    BY <1>12, <2>1
  <2>3. /\ FlushShape' /\ Order(Batch', spool', queue')
        /\ Numbers(Batch', spool', queue', cloud, seq', lo, gone', unsure)
        /\ Fresh(Batch', spool', Pending(fl', spool'), queue', cloud, unsure)
        /\ fl'.pc = "spool" => FlushOf(fl', spool', cloud, gone')
        /\ dropped' \in Nat /\ reported' \in Nat
        /\ Torn \notin ToSet(sp) =>
               dropped' + reported' = d + reported /\ Torn \notin ToSet(spool')
    BY <1>13, <1>15, <1>16, <2>2, BeginEffect
  <2>4. Counts'
    <3>1. crashes = 0 => /\ Torn \notin ToSet(spool')
                         /\ dropped' + reported' + unsaid = Cardinality(lo)
      BY <1>13, <1>14, <1>15, <2>3
    <3> QED
      BY <1>2, <1>13, <1>10, <2>3, <3>1 DEF Counts
  <2> QED
    BY <1>1, <1>2, <1>10, <2>3, <2>4 DEF SinkInv
<1>17. CASE /\ queue' = q /\ spool' = sp /\ dropped' = d /\ seq' = seq + 1
            /\ fl' = fl /\ gone' = gone /\ reported' = reported
  <2>1. FlushShape' /\ Batch' = Batch
    BY <1>1, <1>17 DEF FlushShape, Batch
  <2>2. fl.pc = "spool" => FlushOf(fl, sp, cloud, gone)
    <3>1. fl.sent \in Nat /\ fl.upto \in Nat
      BY <1>1 DEF FlushShape
    <3> QED
      BY <1>1, <1>4, <1>5, <3>1, GrownFlush
  <2>3. Counts'
    BY <1>2, <1>13, <1>14, <1>15, <1>17, <1>10 DEF Counts
  <2>4. /\ Order(Batch', spool', queue')
        /\ Numbers(Batch', spool', queue', cloud', seq', lost', gone', unsure')
        /\ Fresh(Batch', spool', Pending(fl', spool'), queue', cloud', unsure')
        /\ fl'.pc = "spool" => FlushOf(fl', spool', cloud', gone')
    BY <1>2, <1>12, <1>17, <1>10, <2>1, <2>2
  <2> QED
    BY <1>1, <1>2, <2>1, <2>3, <2>4 DEF SinkInv
<1> QED
  BY <1>2, <1>16, <1>17

-----------------------------------------------------------------------------
(* The flushes that the timer and close start                               *)

LEMMA FlushBegins ==
  ASSUME SinkInv, fl.pc = "idle", BeginFlush(queue, spool, dropped, seq),
         UNCHANGED <<cloud, lost, unsaid, unsure, again, emits, fails, crashes>>,
         life' \in {"open", "closing"}
  PROVE  SinkInv'
<1>1. Batch = <<>> /\ Pending(fl, spool) = Readable(spool)
  BY DEF Batch, Pending
<1>2. /\ Order(<<>>, spool, queue)
      /\ Numbers(<<>>, spool, queue, cloud, seq, lost, gone, unsure)
      /\ Fresh(<<>>, spool, Readable(spool), queue, cloud, unsure)
      /\ again \subseteq unsure /\ Counts
  BY <1>1 DEF SinkInv
<1>3. /\ dropped \in Nat /\ reported \in Nat /\ unsaid \in Nat /\ crashes \in Nat
      /\ crashes = 0 => /\ Torn \notin ToSet(spool)
                        /\ dropped + reported + unsaid = Cardinality(lost)
  BY <1>2 DEF Counts
<1>4. /\ FlushShape' /\ Order(Batch', spool', queue')
      /\ Numbers(Batch', spool', queue', cloud, seq', lost, gone', unsure)
      /\ Fresh(Batch', spool', Pending(fl', spool'), queue', cloud, unsure)
      /\ fl'.pc = "spool" => FlushOf(fl', spool', cloud, gone')
      /\ dropped' \in Nat /\ reported' \in Nat
      /\ Torn \notin ToSet(spool) =>
             dropped' + reported' = dropped + reported /\ Torn \notin ToSet(spool')
  BY <1>2, <1>3, BeginEffect
<1>5. Counts'
  <2>1. crashes = 0 => /\ Torn \notin ToSet(spool')
                       /\ dropped' + reported' + unsaid = Cardinality(lost)
    BY <1>3, <1>4
  <2> QED
    BY <1>3, <1>4, <2>1 DEF Counts
<1> QED
  BY <1>2, <1>4, <1>5 DEF SinkInv

LEMMA TickStep ==
  ASSUME SinkInv, Tick
  PROVE  SinkInv'
BY FlushBegins DEF Tick

LEMMA CloseStep ==
  ASSUME SinkInv, Close
  PROVE  SinkInv'
<1>1. CASE fl.pc = "idle"
  BY <1>1, FlushBegins DEF Close
<1>2. CASE fl.pc # "idle"
  <2>1. /\ UNCHANGED <<queue, spool, dropped, fl, seq, gone, reported>>
        /\ UNCHANGED <<cloud, lost, unsaid, unsure, again, emits, fails, crashes>>
        /\ life' = "closing"
    BY <1>2 DEF Close
  <2> QED
    BY <2>1 DEF SinkInv, FlushShape, Batch, Counts
<1> QED
  BY <1>1, <1>2

-----------------------------------------------------------------------------
(* Sending the spool                                                        *)

\* t is what is left of the lines sp once the first m of them are gone.
Trimmed(sp, m, t) ==
    /\ t \in Seq(Line) /\ Sorted(t) /\ Len(t) <= Len(sp) /\ ToSet(t) \subseteq ToSet(sp)
    /\ \A i \in Readable(t) :
          /\ i + m \in DOMAIN sp /\ m < i + m /\ t[i] = sp[i + m]
          /\ i + m \in Readable(sp) \/ i = 1
    /\ \A id \in Ids(sp) : id \in Ids(t) \/ \E i \in DOMAIN sp : i <= m /\ sp[i].id = id

LEMMA TrimEffect ==
  ASSUME NEW sp \in Seq(Line), Sorted(sp), NEW n \in Nat, n = Len(sp),
         NEW m \in Nat, m <= n, NEW l \in Nat \ {0}, l = m + 1, NEW t, t = SubSeq(sp, l, n)
  PROVE  Trimmed(sp, m, t)
<1>1. DOMAIN sp = 1..n /\ n <= Len(sp)
  BY LenProperties
<1>2. l = m + 1
  OBVIOUS
<1>3. /\ t \in Seq(Line)
      /\ Len(t) = IF l <= n THEN n - l + 1 ELSE 0
      /\ \A i \in DOMAIN t : i + l - 1 \in l..n /\ t[i] = sp[i + l - 1]
      /\ \A x : x \in ToSet(t) <=> \E i \in l..n : x = sp[i]
      /\ Sorted(t)
  <2>1. SubSeq(sp, l, n) \in Seq(Line)
    BY <1>1, SubSeqPart
  <2>5. Len(SubSeq(sp, l, n)) = IF l <= n THEN n - l + 1 ELSE 0
    BY <1>1, SubSeqPart
  <2>2. \A i \in DOMAIN SubSeq(sp, l, n) :
           i + l - 1 \in l..n /\ SubSeq(sp, l, n)[i] = sp[i + l - 1]
    BY <1>1, SubSeqPart
  <2>3. \A x : x \in ToSet(SubSeq(sp, l, n)) <=> \E i \in l..n : x = sp[i]
    BY <1>1, SubSeqMembers
  <2>4. Sorted(SubSeq(sp, l, n))
    BY <1>1, SubSeqPart
  <2> QED
    BY <2>1, <2>2, <2>3, <2>4, <2>5
<1>4. Len(t) <= n
  <2>1. Len(t) = IF l <= n THEN n - l + 1 ELSE 0
    BY <1>3
  <2> QED
    BY <1>1, <1>2, <2>1
<1>5. DOMAIN t = 1..Len(t) /\ Len(t) \in Nat /\ Readable(t) \subseteq DOMAIN t
  BY <1>3, ReadableLines
<1>6. ASSUME NEW i \in DOMAIN t PROVE i + m \in DOMAIN sp /\ m < i + m /\ t[i] = sp[i + m]
  <2>1. i + l - 1 = i + m /\ i \in Nat \ {0}
    BY <1>2, <1>5
  <2>2. i + l - 1 \in l..n /\ t[i] = sp[i + l - 1]
    BY <1>3
  <2>3. i + m \in l..n /\ t[i] = sp[i + m]
    BY <2>1, <2>2
  <2> QED
    BY <1>1, <1>2, <2>1, <2>3
<1>7. ASSUME NEW i \in Readable(t), i # 1 PROVE i + m \in Readable(sp)
  <2>1. i \in DOMAIN t /\ i - 1 \in DOMAIN t /\ i > 1
    BY <1>5, <1>7
  <2>2. t[i] # Torn /\ t[i - 1] # Torn
    BY <1>7, <2>1 DEF Readable
  <2>3. (i - 1) + m = (i + m) - 1
    BY <1>1, <1>2, <2>1, <1>5
  <2>4. /\ i + m \in DOMAIN sp /\ sp[i + m] # Torn
        /\ sp[(i + m) - 1] # Torn
    BY <1>6, <2>1, <2>2, <2>3
  <2> QED
    BY <2>4 DEF Readable
<1>8. ASSUME NEW id \in Ids(sp)
      PROVE  id \in Ids(t) \/ \E i \in DOMAIN sp : i <= m /\ sp[i].id = id
  <2>1. PICK i \in DOMAIN sp : sp[i].id = id /\ id # 0
    BY IdsDef DEF ToSet
  <2>2. CASE i <= m
    BY <2>1, <2>2
  <2>3. CASE ~(i <= m)
    <3>1. i \in l..n
      BY <1>1, <1>2, <2>3
    <3>2. sp[i] \in ToSet(t)
      BY <1>3, <3>1
    <3> QED
      BY <2>1, <3>2, IdsDef
  <2> QED
    BY <2>2, <2>3
<1>9. ToSet(t) \subseteq ToSet(sp)
  <2>1. \A i \in l..n : i \in DOMAIN sp
    BY <1>1
  <2> QED
    BY <1>3, <2>1 DEF ToSet
<1>10. \A i \in Readable(t) : /\ i + m \in DOMAIN sp /\ m < i + m /\ t[i] = sp[i + m]
                              /\ i + m \in Readable(sp) \/ i = 1
  BY <1>5, <1>6, <1>7
<1> QED
  BY <1>3, <1>4, <1>8, <1>9, <1>10 DEF Trimmed

\* A send that failed: the events of es are received and repeated, or were not received.
LEMMA FailEffect ==
  ASSUME cloud \in Seq(Event), Sorted(cloud), again \subseteq unsure,
         fl.batch \in Seq(Event), Sorted(fl.batch),
         \A e \in ToSet(fl.batch) : Fits(e, cloud, unsure), SendFails
  PROVE  /\ cloud' \in Seq(Event) /\ Sorted(cloud')
         /\ Ids(cloud) \subseteq Ids(cloud') /\ Ids(cloud') \subseteq Ids(cloud) \cup Ids(fl.batch)
         /\ unsure \subseteq unsure' /\ unsure' \subseteq unsure \cup Ids(fl.batch)
         /\ again' \subseteq unsure'
         /\ \A e : /\ Fits(e, cloud, unsure)
                   /\ e \in ToSet(fl.batch) \/ \A f \in ToSet(fl.batch) : Follows(f, e)
                   => Fits(e, cloud', unsure')
<1>1. CASE Receive(fl.batch) /\ unsure' = unsure \cup Ids(fl.batch)
  <2> DEFINE es == fl.batch
  <2>1. /\ cloud' \in Seq(Event) /\ Sorted(cloud') /\ Ids(cloud') = Ids(cloud) \cup Ids(es)
        /\ again' \subseteq unsure
        /\ \A e : /\ Fits(e, cloud, unsure)
                  /\ \A f \in ToSet(es) : Follows(f, e)
                  => Fits(e, cloud', unsure)
    BY <1>1, ReceiveEffect
  <2> HIDE DEF es
  <2>2. \A e : Fits(e, cloud', unsure) => Fits(e, cloud', unsure')
    BY <1>1 DEF Fits
  <2>3. ASSUME NEW e \in ToSet(es) PROVE Fits(e, cloud', unsure')
    <3>1. e \in Event
      BY <2>3, Elements DEF es
    <3>2. e.id \in Ids(es)
      BY <2>3, <3>1, EventId, IdsDef
    <3> QED
      BY <1>1, <2>1, <3>2 DEF Fits, es
  <2> QED
    BY <1>1, <2>1, <2>2, <2>3 DEF es
<1>2. CASE UNCHANGED <<cloud, again, unsure>>
  BY <1>2
<1> QED
  BY <1>1, <1>2 DEF SendFails

\* The batch of a flush of the spool, and what it leaves for later.
LEMMA SpoolBatch ==
  ASSUME SinkInv, fl.pc = "spool", NEW end, end = BatchEnd(spool, fl.sent, fl.upto)
  PROVE  /\ end \in Nat /\ fl.sent < end /\ end <= fl.upto /\ fl.upto <= Len(spool)
         /\ fl.sent \in Nat /\ fl.upto \in Nat /\ Len(spool) \in Nat
         /\ end # fl.upto => end \in Readable(spool)
         /\ fl.batch \in Seq(Event) /\ Sorted(fl.batch)
         /\ \A e \in ToSet(fl.batch) : Fits(e, cloud, unsure)
         /\ Ids(fl.batch) \subseteq Ids(spool)
         /\ \A i \in Readable(spool) : fl.sent < i /\ i <= end => spool[i] \in ToSet(fl.batch)
         /\ \A i \in DOMAIN spool : end < i => \A f \in ToSet(fl.batch) : Follows(f, spool[i])
         /\ \A e \in ToSet(queue) : \A f \in ToSet(fl.batch) : Follows(f, e)
<1>1. /\ FlushShape /\ Order(Batch, spool, queue)
      /\ Fresh(Batch, spool, Pending(fl, spool), queue, cloud, unsure)
      /\ FlushOf(fl, spool, cloud, gone)
  BY DEF SinkInv
<1>2. /\ spool \in Seq(Line) /\ Sorted(spool) /\ Precedes(spool, queue)
  BY <1>1 DEF Order
<1>3. /\ fl.sent < fl.upto /\ fl.upto <= Len(spool) /\ Unsent(spool, fl.sent, fl.upto) # {}
      /\ fl.sent \in Nat /\ fl.upto \in Nat /\ fl.batch \in Seq(Event)
      /\ Sorted(fl.batch)
      /\ ToSet(fl.batch) = {spool[i] : i \in Unsent(spool, fl.sent, end)}
  BY <1>1 DEF FlushOf, FlushShape
<1>4. /\ end \in Nat /\ fl.sent < end /\ end <= fl.upto
      /\ end # fl.upto => end \in Readable(spool)
  BY <1>2, <1>3, BatchEndLine
<1>5. /\ Readable(spool) \subseteq DOMAIN spool /\ DOMAIN spool = 1..Len(spool)
      /\ Len(spool) \in Nat
  BY <1>2, ReadableLines
<1>6. \A i : i \in Unsent(spool, fl.sent, end) <=> i \in Readable(spool) /\ fl.sent < i /\ i <= end
  BY <1>2, UnsentLines
<1>7. \A i \in Unsent(spool, fl.sent, end) : i \in Pending(fl, spool) /\ i \in DOMAIN spool
  BY <1>5, <1>6 DEF Pending
<1>8. \A e \in ToSet(fl.batch) : Fits(e, cloud, unsure) /\ e \in ToSet(spool)
  BY <1>1, <1>3, <1>7 DEF Fresh, ToSet
<1>9. Ids(fl.batch) \subseteq Ids(spool)
  BY <1>8, IdsDef
<1>10. ASSUME NEW i \in DOMAIN spool, end < i, NEW f \in ToSet(fl.batch)
       PROVE  Follows(f, spool[i])
  <2>1. PICK j \in Unsent(spool, fl.sent, end) : f = spool[j]
    BY <1>3
  <2>2. j \in DOMAIN spool /\ j < i
    BY <1>4, <1>5, <1>6, <1>7, <1>10, <2>1
  <2> QED
    BY <1>2, <2>1, <2>2 DEF Sorted
<1>11. \A e \in ToSet(queue) : \A f \in ToSet(fl.batch) : Follows(f, e)
  BY <1>2, <1>8 DEF Precedes
<1>12. \A i \in Readable(spool) : fl.sent < i /\ i <= end => spool[i] \in ToSet(fl.batch)
  BY <1>3, <1>6
<1> QED
  BY <1>3, <1>4, <1>5, <1>8, <1>9, <1>10, <1>11, <1>12

\* A flush that goes on with the spool sp, which holds lines of the spool only.
LEMMA ReadStep ==
  ASSUME NEW sp, ReadSpool(sp, dropped), ToSet(sp) \subseteq ToSet(spool),
         UNCHANGED <<queue, life, seq, lost, reported, unsaid, unsure, crashes>>,
         Counts, Order(<<>>, sp, queue),
         Numbers(<<>>, sp, queue, cloud', seq, lost, gone, unsure),
         Fresh(<<>>, sp, Readable(sp), queue, cloud', unsure), again' \subseteq unsure
  PROVE  SinkInv'
<1> DEFINE cl == cloud'
<1>1. /\ Numbers(<<>>, sp, queue, cl, seq, lost, gone, unsure)
      /\ Fresh(<<>>, sp, Readable(sp), queue, cl, unsure)
  OBVIOUS
<1>2. cloud' = cl
  OBVIOUS
<1> HIDE DEF cl
<1>3. /\ dropped \in Nat /\ reported \in Nat /\ unsaid \in Nat /\ crashes \in Nat
      /\ life \in {"open", "closing", "down"}
      /\ crashes = 0 => /\ Torn \notin ToSet(spool)
                        /\ dropped + reported + unsaid = Cardinality(lost)
  BY DEF Counts
<1>4. /\ FlushShape' /\ Order(Batch', spool', queue)
      /\ Numbers(Batch', spool', queue, cl, seq, lost, gone', unsure)
      /\ Fresh(Batch', spool', Pending(fl', spool'), queue, cl, unsure)
      /\ fl'.pc = "spool" => FlushOf(fl', spool', cl, gone')
      /\ dropped' \in Nat
      /\ Torn \notin ToSet(sp) => dropped' = dropped /\ Torn \notin ToSet(spool')
  BY <1>1, <1>3, ReadEffect
<1>5. Counts'
  BY <1>3, <1>4 DEF Counts
<1> QED
  BY <1>2, <1>4, <1>5 DEF SinkInv

\* Another batch of the lines that the flush has read.
LEMMA NextBatch ==
  ASSUME NEW sp \in Seq(Line), Sorted(sp), NEW sent, NEW upto
  PROVE  /\ LineBatch(sp, sent, upto) \in Seq(Event) /\ Sorted(LineBatch(sp, sent, upto))
         /\ ToSet(LineBatch(sp, sent, upto)) =
                {sp[i] : i \in Unsent(sp, sent, BatchEnd(sp, sent, upto))}
<1> DEFINE idx == Unsent(sp, sent, BatchEnd(sp, sent, upto))
<1>1. idx \subseteq Readable(sp) /\ idx \in SUBSET DOMAIN sp
  BY UnsentLines
<1>2. LineBatch(sp, sent, upto) = Pick(sp, idx)
  BY DEF LineBatch
<1> HIDE DEF idx
<1> DEFINE b == Pick(sp, idx)
<1>3. b \in Seq(Line) /\ ToSet(b) = {sp[i] : i \in idx} /\ Sorted(b)
  BY <1>1, PickPart
<1> HIDE DEF b
<1>4. Torn \notin ToSet(b)
  BY <1>1, <1>3, ReadableLines
<1>5. b \in Seq(Event)
  BY <1>3, <1>4, EventSeq
<1> QED
  BY <1>2, <1>3, <1>5 DEF b, idx

LEMMA SpoolSentStep ==
  ASSUME SinkInv, SpoolSent
  PROVE  SinkInv'
<1> DEFINE end == BatchEnd(spool, fl.sent, fl.upto)
<1> DEFINE up == fl.upto
<1>1. /\ fl.pc = "spool" /\ Receive(fl.batch)
      /\ queue' = queue /\ life' = life /\ seq' = seq /\ lost' = lost /\ reported' = reported
      /\ unsaid' = unsaid /\ unsure' = unsure /\ crashes' = crashes
      /\ \/ /\ Unsent(spool, end, up) # {}
            /\ fl' = [fl EXCEPT !.sent = end, !.batch = LineBatch(spool, end, up)]
            /\ spool' = spool /\ dropped' = dropped /\ gone' = gone
         \/ /\ Unsent(spool, end, up) = {}
            /\ ReadSpool(Trim(up), dropped)
  BY DEF SpoolSent
<1>2. /\ FlushShape /\ Order(Batch, spool, queue)
      /\ Numbers(Batch, spool, queue, cloud, seq, lost, gone, unsure)
      /\ Fresh(Batch, spool, Pending(fl, spool), queue, cloud, unsure)
      /\ FlushOf(fl, spool, cloud, gone) /\ again \subseteq unsure /\ Counts
  BY <1>1 DEF SinkInv
<1>3. Batch = <<>>
  BY <1>1 DEF Batch
<1>4. end = BatchEnd(spool, fl.sent, fl.upto) /\ up = fl.upto
  OBVIOUS
<1> HIDE DEF end, up
<1>5. /\ end \in Nat /\ fl.sent < end /\ end <= up /\ up <= Len(spool)
      /\ fl.sent \in Nat /\ up \in Nat /\ Len(spool) \in Nat
      /\ end # up => end \in Readable(spool)
      /\ fl.batch \in Seq(Event) /\ Sorted(fl.batch)
      /\ \A e \in ToSet(fl.batch) : Fits(e, cloud, unsure)
      /\ Ids(fl.batch) \subseteq Ids(spool)
      /\ \A i \in Readable(spool) : fl.sent < i /\ i <= end => spool[i] \in ToSet(fl.batch)
      /\ \A i \in DOMAIN spool : end < i => \A f \in ToSet(fl.batch) : Follows(f, spool[i])
      /\ \A e \in ToSet(queue) : \A f \in ToSet(fl.batch) : Follows(f, e)
  BY <1>1, <1>4, SpoolBatch
<1>6. /\ spool \in Seq(Line) /\ Sorted(spool) /\ queue \in Seq(Event) /\ Sorted(queue)
      /\ Precedes(spool, queue) /\ Len(spool) <= MaxSpool
  BY <1>2 DEF Order
<1>7. /\ cloud' \in Seq(Event) /\ Sorted(cloud') /\ Ids(cloud') = Ids(cloud) \cup Ids(fl.batch)
      /\ again' \subseteq unsure
      /\ \A e : /\ Fits(e, cloud, unsure)
                /\ \A f \in ToSet(fl.batch) : Follows(f, e)
                => Fits(e, cloud', unsure)
  BY <1>1, <1>2, <1>5, ReceiveEffect DEF Fresh
<1>8. Numbers(<<>>, spool, queue, cloud', seq, lost, gone, unsure)
  BY <1>2, <1>3, <1>5, <1>7 DEF Numbers, All
<1>9. \A e \in ToSet(queue) : Fits(e, cloud', unsure)
  BY <1>2, <1>5, <1>7 DEF Fresh
<1>10. \A i \in Pending(fl, spool) : end < i => Fits(spool[i], cloud', unsure)
  <2>1. \A i \in Pending(fl, spool) : i \in DOMAIN spool
    BY <1>1 DEF Pending
  <2> QED
    BY <1>2, <1>5, <1>7, <2>1 DEF Fresh
<1>11. /\ Readable(spool) \subseteq DOMAIN spool /\ DOMAIN spool = 1..Len(spool)
       /\ \A i \in Readable(spool) : spool[i] \in Event /\ spool[i] # Torn
  BY <1>6, ReadableLines
<1>12. \A i \in Readable(spool) : i <= end => spool[i].id \in Ids(cloud')
  <2> SUFFICES ASSUME NEW i \in Readable(spool), i <= end PROVE spool[i].id \in Ids(cloud')
    OBVIOUS
  <2>1. CASE i <= fl.sent
    BY <1>2, <1>7, <2>1 DEF FlushOf
  <2>2. CASE ~(i <= fl.sent)
    <3>1. fl.sent < i
      BY <1>5, <1>11, <2>2
    <3>2. spool[i] \in ToSet(fl.batch) /\ spool[i].id # 0
      BY <1>5, <1>11, <3>1, EventId
    <3> QED
      BY <1>7, <3>2, IdsDef
  <2> QED
    BY <2>1, <2>2
<1>13. \A i : i \in Unsent(spool, end, up) <=> i \in Readable(spool) /\ end < i /\ i <= up
  BY <1>6, UnsentLines
<1>14. CASE /\ Unsent(spool, end, up) # {}
            /\ fl' = [fl EXCEPT !.sent = end, !.batch = LineBatch(spool, end, up)]
            /\ spool' = spool /\ dropped' = dropped /\ gone' = gone
  <2> DEFINE b == LineBatch(spool, end, up)
  <2>1. /\ b \in Seq(Event) /\ Sorted(b)
        /\ ToSet(b) = {spool[i] : i \in Unsent(spool, end, BatchEnd(spool, end, up))}
    BY <1>6, NextBatch
  <2>2. fl' = [fl EXCEPT !.sent = end, !.batch = b]
    BY <1>14
  <2> HIDE DEF b
  <2>3. fl \in [pc : {"idle", "resume", "spool", "batch"}, upto : Nat, sent : Nat, batch : Seq(Event)]
    BY <1>2 DEF FlushShape
  <2>4. /\ fl'.pc = "spool" /\ fl'.upto = up /\ fl'.sent = end /\ fl'.batch = b
        /\ fl' \in [pc : {"idle", "resume", "spool", "batch"}, upto : Nat, sent : Nat, batch : Seq(Event)]
    BY <1>1, <1>4, <1>5, <2>1, <2>2, <2>3
  <2>5. FlushShape' /\ Batch' = <<>>
    BY <2>4 DEF FlushShape, Batch
  <2>6. end < up
    BY <1>5, <1>11, <1>13, <1>14
  <2>7. spool[end] # Torn
    BY <1>5, <1>11, <2>6
  <2>8. \A i \in DOMAIN spool : i <= up /\ i \notin Readable(spool) /\ spool[i] # Torn
                                   => spool[i].id \in gone
    BY <1>2, <1>4 DEF FlushOf
  <2>9. FlushOf(fl', spool, cloud', gone)
    BY <1>5, <1>12, <1>14, <2>1, <2>4, <2>6, <2>7, <2>8 DEF FlushOf
  <2>10. \A i \in Pending(fl', spool) : i \in Pending(fl, spool) /\ end < i
    BY <1>1, <1>4, <1>5, <1>11, <2>4 DEF Pending
  <2>11. Fresh(<<>>, spool, Pending(fl', spool), queue, cloud', unsure)
    <3>1. ToSet(<<>>) = {}
      BY DEF ToSet
    <3> QED
      BY <1>7, <1>9, <1>10, <2>10, <3>1 DEF Fresh
  <2>12. Counts'
    BY <1>1, <1>2, <1>14 DEF Counts
  <2> QED
    BY <1>1, <1>2, <1>3, <1>7, <1>8, <1>14, <2>5, <2>9, <2>11, <2>12 DEF SinkInv
<1>15. CASE Unsent(spool, end, up) = {} /\ ReadSpool(Trim(up), dropped)
  <2> DEFINE t == SubSeq(spool, up + 1, Len(spool))
  <2>1. /\ t \in Seq(Line) /\ Sorted(t) /\ Len(t) <= Len(spool) /\ ToSet(t) \subseteq ToSet(spool)
        /\ \A i \in Readable(t) :
              /\ i + up \in DOMAIN spool /\ up < i + up /\ t[i] = spool[i + up]
              /\ i + up \in Readable(spool) \/ i = 1
        /\ \A id \in Ids(spool) : id \in Ids(t) \/ \E i \in DOMAIN spool : i <= up /\ spool[i].id = id
    <3> DEFINE l == up + 1
    <3> DEFINE n == Len(spool)
    <3>1. l = up + 1 /\ l \in Nat \ {0} /\ n = Len(spool) /\ n \in Nat /\ up <= n
      BY <1>5
    <3>2. t = SubSeq(spool, l, n)
      OBVIOUS
    <3>3. spool \in Seq(Line) /\ Sorted(spool) /\ up \in Nat
      BY <1>5, <1>6
    <3> HIDE DEF t, l, n
    <3>4. Trimmed(spool, up, t)
      BY <3>1, <3>2, <3>3, TrimEffect
    <3> QED
      BY <3>4 DEF Trimmed
  <2>2. ReadSpool(t, dropped)
    BY <1>15 DEF Trim
  <2> HIDE DEF t
  <2>3. Len(t) \in Nat /\ MaxSpool \in Nat
    BY <2>1, LenProperties, SinkAssumption
  <2>4. Order(<<>>, t, queue)
    <3>1. Len(t) <= MaxSpool
      BY <1>5, <1>6, <2>1, <2>3
    <3> QED
      BY <1>2, <1>3, <1>6, <2>1, <3>1 DEF Order, Precedes
  <2>5. \A i \in DOMAIN spool : i <= up => \/ spool[i] = Torn
                                           \/ spool[i].id \in Ids(cloud') \/ spool[i].id \in gone
    <3> SUFFICES ASSUME NEW i \in DOMAIN spool, i <= up, spool[i] # Torn
                 PROVE  spool[i].id \in Ids(cloud') \/ spool[i].id \in gone
      OBVIOUS
    <3>1. CASE i \in Readable(spool)
      <4>1. ~(end < i)
        BY <1>13, <1>15, <3>1
      <4>2. i <= end
        BY <1>5, <1>11, <4>1
      <4> QED
        BY <1>12, <3>1, <4>2
    <3>2. CASE i \notin Readable(spool)
      BY <1>2, <1>4, <3>2 DEF FlushOf
    <3> QED
      BY <3>1, <3>2
  <2>6. \A id \in Ids(spool) : id \in Ids(t) \/ id \in Ids(cloud') \/ id \in gone
    <3> SUFFICES ASSUME NEW id \in Ids(spool), id \notin Ids(t)
                 PROVE  id \in Ids(cloud') \/ id \in gone
      OBVIOUS
    <3>1. PICK i \in DOMAIN spool : i <= up /\ spool[i].id = id
      BY <2>1
    <3>2. spool[i] # Torn
      BY <3>1, IdsDef DEF Torn
    <3> QED
      BY <2>5, <3>1, <3>2
  <2>7. Ids(t) \subseteq Ids(spool)
    BY <2>1, IdsDef
  <2>8. Numbers(<<>>, t, queue, cloud', seq, lost, gone, unsure)
    BY <1>8, <2>6, <2>7 DEF Numbers, All
  <2>9. \A i \in Readable(t) : Fits(t[i], cloud', unsure)
    <3> SUFFICES ASSUME NEW i \in Readable(t) PROVE Fits(t[i], cloud', unsure)
      OBVIOUS
    <3> DEFINE j == i + up
    <3>1. j \in DOMAIN spool /\ up < j /\ t[i] = spool[j]
      BY <2>1
    <3> HIDE DEF j
    <3>2. end < j /\ fl.sent < j
      BY <1>5, <1>11, <3>1
    <3>3. j \in Pending(fl, spool)
      BY <1>1, <1>4, <3>1, <3>2 DEF Pending
    <3> QED
      BY <1>10, <3>1, <3>2, <3>3
  <2>10. Fresh(<<>>, t, Readable(t), queue, cloud', unsure)
    <3>1. ToSet(<<>>) = {}
      BY DEF ToSet
    <3> QED
      BY <1>7, <1>9, <2>9, <3>1 DEF Fresh
  <2> QED
    BY <1>1, <1>2, <1>7, <2>1, <2>2, <2>4, <2>8, <2>10, ReadStep
<1> QED
  BY <1>1, <1>14, <1>15

LEMMA SpoolFailsStep ==
  ASSUME SinkInv, SpoolFails
  PROVE  SinkInv'
<1> DEFINE end == BatchEnd(spool, fl.sent, fl.upto)
<1> DEFINE m == fl.sent
<1> DEFINE t == SubSeq(spool, m + 1, Len(spool))
<1>1. /\ fl.pc = "spool" /\ SendFails /\ spool' = t /\ fl' = Idle
      /\ queue' = queue /\ dropped' = dropped /\ life' = life /\ seq' = seq /\ lost' = lost
      /\ gone' = gone /\ reported' = reported /\ unsaid' = unsaid /\ crashes' = crashes
  BY DEF SpoolFails, Trim
<1>2. /\ FlushShape /\ Order(Batch, spool, queue)
      /\ Numbers(Batch, spool, queue, cloud, seq, lost, gone, unsure)
      /\ Fresh(Batch, spool, Pending(fl, spool), queue, cloud, unsure)
      /\ FlushOf(fl, spool, cloud, gone) /\ again \subseteq unsure /\ Counts
  BY <1>1 DEF SinkInv
<1>3. Batch = <<>>
  BY <1>1 DEF Batch
<1>4. end = BatchEnd(spool, fl.sent, fl.upto) /\ m = fl.sent
  OBVIOUS
<1> HIDE DEF end
<1>5. /\ end \in Nat /\ m < end /\ end <= fl.upto /\ fl.upto <= Len(spool)
      /\ m \in Nat /\ fl.upto \in Nat /\ Len(spool) \in Nat
      /\ fl.batch \in Seq(Event) /\ Sorted(fl.batch)
      /\ \A e \in ToSet(fl.batch) : Fits(e, cloud, unsure)
      /\ Ids(fl.batch) \subseteq Ids(spool)
      /\ \A i \in Readable(spool) : m < i /\ i <= end => spool[i] \in ToSet(fl.batch)
      /\ \A i \in DOMAIN spool : end < i => \A f \in ToSet(fl.batch) : Follows(f, spool[i])
      /\ \A e \in ToSet(queue) : \A f \in ToSet(fl.batch) : Follows(f, e)
  BY <1>1, <1>4, SpoolBatch
<1> HIDE DEF m
<1>6. /\ spool \in Seq(Line) /\ Sorted(spool) /\ queue \in Seq(Event) /\ Sorted(queue)
      /\ Precedes(spool, queue) /\ Len(spool) <= MaxSpool
  BY <1>2 DEF Order
<1>7. /\ cloud' \in Seq(Event) /\ Sorted(cloud')
      /\ Ids(cloud) \subseteq Ids(cloud') /\ Ids(cloud') \subseteq Ids(cloud) \cup Ids(fl.batch)
      /\ unsure \subseteq unsure' /\ unsure' \subseteq unsure \cup Ids(fl.batch)
      /\ again' \subseteq unsure'
      /\ \A e : /\ Fits(e, cloud, unsure)
                /\ e \in ToSet(fl.batch) \/ \A f \in ToSet(fl.batch) : Follows(f, e)
                => Fits(e, cloud', unsure')
  BY <1>1, <1>2, <1>5, FailEffect DEF Fresh
<1>8. Trimmed(spool, m, t)
  <2> DEFINE l == m + 1
  <2> DEFINE n == Len(spool)
  <2>1. l = m + 1 /\ l \in Nat \ {0} /\ n = Len(spool) /\ n \in Nat /\ m <= n
    BY <1>5
  <2>2. t = SubSeq(spool, l, n)
    OBVIOUS
  <2> HIDE DEF t, l, n
  <2> QED
    BY <1>5, <1>6, <2>1, <2>2, TrimEffect
<1> HIDE DEF t
<1>9. Ids(t) \subseteq Ids(spool) /\ t \in Seq(Line) /\ Sorted(t) /\ Len(t) <= MaxSpool
  <2>1. Len(t) \in Nat /\ MaxSpool \in Nat /\ Len(t) <= Len(spool)
    BY <1>8, LenProperties, SinkAssumption DEF Trimmed
  <2>2. ToSet(t) \subseteq ToSet(spool)
    BY <1>8 DEF Trimmed
  <2>3. Ids(t) \subseteq Ids(spool)
    BY <2>2, IdsDef
  <2> QED
    BY <1>5, <1>6, <1>8, <2>1, <2>3 DEF Trimmed
<1>10. Order(<<>>, t, queue)
  BY <1>2, <1>3, <1>8, <1>9 DEF Order, Precedes, Trimmed
<1>11. \A i \in DOMAIN spool : i <= m => \/ spool[i] = Torn
                                         \/ spool[i].id \in Ids(cloud) \/ spool[i].id \in gone
  <2>1. DOMAIN spool = 1..Len(spool)
    BY <1>6, LenProperties
  <2>2. \A i \in DOMAIN spool : i <= m => i <= fl.upto
    BY <1>5, <2>1
  <2> QED
    BY <1>2, <1>4, <2>2 DEF FlushOf
<1>12. \A id \in Ids(spool) : id \in Ids(t) \/ id \in Ids(cloud) \/ id \in gone
  <2> SUFFICES ASSUME NEW id \in Ids(spool), id \notin Ids(t)
               PROVE  id \in Ids(cloud) \/ id \in gone
    OBVIOUS
  <2>1. PICK i \in DOMAIN spool : i <= m /\ spool[i].id = id
    BY <1>8 DEF Trimmed
  <2>2. spool[i] # Torn
    BY <2>1, IdsDef DEF Torn
  <2> QED
    BY <1>11, <2>1, <2>2
<1>13. Numbers(<<>>, t, queue, cloud', seq, lost, gone, unsure')
  BY <1>2, <1>3, <1>5, <1>7, <1>9, <1>12 DEF Numbers, All
<1>14. \A i \in Readable(t) : Fits(t[i], cloud', unsure')
  <2> SUFFICES ASSUME NEW i \in Readable(t) PROVE Fits(t[i], cloud', unsure')
    OBVIOUS
  <2> DEFINE j == i + m
  <2>1. j \in DOMAIN spool /\ m < j /\ t[i] = spool[j] /\ (j \in Readable(spool) \/ i = 1)
    BY <1>8 DEF Trimmed
  <2>2. i = 1 => j \in Readable(spool)
    <3> SUFFICES ASSUME i = 1 PROVE j \in Readable(spool)
      OBVIOUS
    <3>1. spool[j] # Torn
      BY <2>1 DEF Readable
    <3>2. m # 0 => spool[m] # Torn
      BY <1>2, <1>4 DEF FlushOf
    <3>3. j - 1 = m /\ (j > 1 => m # 0)
      BY <1>5
    <3> HIDE DEF j
    <3> QED
      BY <2>1, <3>1, <3>2, <3>3 DEF Readable
  <2> HIDE DEF j
  <2>3. j \in Readable(spool) /\ j \in Pending(fl, spool)
    BY <1>1, <1>4, <2>1, <2>2 DEF Pending
  <2>4. Fits(spool[j], cloud, unsure)
    BY <1>2, <2>3 DEF Fresh
  <2>5. j <= end \/ end < j
    BY <1>5, <1>6, <2>1, LenProperties
  <2> QED
    BY <1>5, <1>7, <2>1, <2>3, <2>4, <2>5
<1>15. \A e \in ToSet(queue) : Fits(e, cloud', unsure')
  BY <1>2, <1>5, <1>7 DEF Fresh
<1>16. Fresh(<<>>, t, Readable(t), queue, cloud', unsure')
  <2>1. ToSet(<<>>) = {}
    BY DEF ToSet
  <2> QED
    BY <1>7, <1>14, <1>15, <2>1 DEF Fresh
<1>17. /\ fl'.pc = "idle" /\ fl'.upto = 0 /\ fl'.sent = 0 /\ fl'.batch = <<>>
       /\ fl' \in [pc : {"idle", "resume", "spool", "batch"}, upto : Nat, sent : Nat, batch : Seq(Event)]
  BY <1>1 DEF Idle
<1>18. FlushShape' /\ Batch' = <<>> /\ Pending(fl', t) = Readable(t)
  BY <1>17 DEF FlushShape, Batch, Pending
<1>19. Counts'
  <2>1. ToSet(t) \subseteq ToSet(spool)
    BY <1>8 DEF Trimmed
  <2> QED
    BY <1>1, <1>2, <2>1 DEF Counts
<1> QED
  BY <1>1, <1>7, <1>10, <1>13, <1>16, <1>17, <1>18, <1>19 DEF SinkInv

-----------------------------------------------------------------------------
(* Sending the queue                                                        *)

LEMMA BatchSentStep ==
  ASSUME SinkInv, BatchSent
  PROVE  SinkInv'
<1>1. /\ fl.pc = "batch" /\ Receive(fl.batch) /\ ReadSpool(spool, dropped)
      /\ UNCHANGED <<queue, life, seq, lost, reported, unsaid, unsure, crashes>>
  BY DEF BatchSent
<1> DEFINE b == fl.batch
<1>2. Batch = b /\ Pending(fl, spool) = Readable(spool)
  BY <1>1 DEF Batch, Pending
<1>3. /\ Order(b, spool, queue)
      /\ Numbers(b, spool, queue, cloud, seq, lost, gone, unsure)
      /\ Fresh(b, spool, Readable(spool), queue, cloud, unsure)
      /\ again \subseteq unsure /\ Counts
  BY <1>2 DEF SinkInv
<1>4. Receive(b)
  BY <1>1
<1> HIDE DEF b
<1>5. /\ b \in Seq(Event) /\ Sorted(b) /\ Precedes(b, spool) /\ Precedes(b, queue)
      /\ spool \in Seq(Line)
  BY <1>3 DEF Order
<1>6. /\ cloud' \in Seq(Event) /\ Sorted(cloud') /\ Ids(cloud') = Ids(cloud) \cup Ids(b)
      /\ again' \subseteq unsure
      /\ \A e : /\ Fits(e, cloud, unsure)
                /\ \A f \in ToSet(b) : Follows(f, e)
                => Fits(e, cloud', unsure)
  BY <1>3, <1>4, <1>5, ReceiveEffect DEF Fresh
<1>7. ToSet(<<>>) = {} /\ Ids(<<>>) = {}
  BY DEF ToSet, Ids
<1>8. Order(<<>>, spool, queue)
  BY <1>3, <1>7 DEF Order, Sorted, Precedes
<1>9. Numbers(<<>>, spool, queue, cloud', seq, lost, gone, unsure)
  BY <1>3, <1>6, <1>7 DEF Numbers, All
<1>10. \A e \in ToSet(queue) : Fits(e, cloud', unsure)
  BY <1>3, <1>5, <1>6 DEF Fresh, Precedes
<1>11. \A i \in Readable(spool) : Fits(spool[i], cloud', unsure)
  <2>1. \A i \in Readable(spool) : spool[i] \in ToSet(spool)
    BY <1>5, ReadableLines DEF ToSet
  <2> QED
    BY <1>3, <1>5, <1>6, <2>1 DEF Fresh, Precedes
<1>12. Fresh(<<>>, spool, Readable(spool), queue, cloud', unsure)
  BY <1>6, <1>7, <1>10, <1>11 DEF Fresh
<1> QED
  BY <1>1, <1>3, <1>6, <1>8, <1>9, <1>12, ReadStep

LEMMA MinOfTwo ==
  ASSUME NEW x \in Nat, NEW y \in Nat
  PROVE  Min({x, y}) = IF x <= y THEN x ELSE y
<1> DEFINE P(z) == z \in {x, y} /\ \A w \in {x, y} : z =< w
<1> DEFINE v == IF x <= y THEN x ELSE y
<1>1. P(v) /\ \A z : P(z) => z = v
  OBVIOUS
<1>2. (CHOOSE z : P(z)) = v
  BY <1>1
<1>3. Min({x, y}) = CHOOSE z : P(z)
  BY DEF Min
<1> QED
  BY <1>2, <1>3

\* The queue s is a batch b followed by the rest r.
Halves(s, b, r) ==
    /\ b \in Seq(Event) /\ r \in Seq(Event) /\ Sorted(b) /\ Sorted(r) /\ Precedes(b, r)
    /\ ToSet(b) \cup ToSet(r) = ToSet(s) /\ Ids(b) \cup Ids(r) = Ids(s)

\* The queue s, cut after its first k events: those at l and later are left.
LEMMA Cut ==
  ASSUME NEW s \in Seq(Event), Sorted(s), NEW n \in Nat, n = Len(s), NEW k \in Nat, k <= n,
         NEW l \in Nat \ {0}, k < l, l = k + 1 \/ (k = n /\ n < l),
         NEW one \in Nat \ {0}, one = 1,
         NEW b, b = SubSeq(s, one, k), NEW r, r = SubSeq(s, l, n)
  PROVE  Halves(s, b, r)
<1>1. DOMAIN s = 1..n /\ k <= Len(s) /\ n <= Len(s)
  BY LenProperties
<1>2. /\ b \in Seq(Event) /\ Sorted(b)
      /\ \A x : x \in ToSet(b) <=> \E i \in one..k : x = s[i]
  <2>1. SubSeq(s, one, k) \in Seq(Event)
    BY <1>1, SubSeqPart
  <2>2. Sorted(SubSeq(s, one, k))
    BY <1>1, SubSeqPart
  <2>3. \A x : x \in ToSet(SubSeq(s, one, k)) <=> \E i \in one..k : x = s[i]
    BY <1>1, SubSeqPart
  <2> QED
    BY <2>1, <2>2, <2>3
<1>3. /\ r \in Seq(Event) /\ Sorted(r)
      /\ \A x : x \in ToSet(r) <=> \E i \in l..n : x = s[i]
  <2>1. SubSeq(s, l, n) \in Seq(Event)
    BY <1>1, SubSeqPart
  <2>2. Sorted(SubSeq(s, l, n))
    BY <1>1, SubSeqPart
  <2>3. \A x : x \in ToSet(SubSeq(s, l, n)) <=> \E i \in l..n : x = s[i]
    BY <1>1, SubSeqPart
  <2> QED
    BY <2>1, <2>2, <2>3
<1>4. ASSUME NEW e \in ToSet(b), NEW f \in ToSet(r) PROVE Follows(e, f)
  <2>1. PICK i \in one..k : e = s[i]
    BY <1>2
  <2>2. PICK j \in l..n : f = s[j]
    BY <1>3
  <2>3. i \in DOMAIN s /\ j \in DOMAIN s /\ i < j
    BY <1>1
  <2> QED
    BY <2>1, <2>2, <2>3 DEF Sorted
<1>5. \A i \in DOMAIN s : i \in one..k \/ i \in l..n
  BY <1>1
<1>6. \A i : (i \in one..k \/ i \in l..n) => i \in DOMAIN s
  BY <1>1
<1>7. \A x : x \in ToSet(s) <=> x \in ToSet(b) \/ x \in ToSet(r)
  <2>1. ASSUME NEW x \in ToSet(s) PROVE x \in ToSet(b) \/ x \in ToSet(r)
    <3>1. PICK i \in DOMAIN s : x = s[i]
      BY DEF ToSet
    <3>2. i \in one..k \/ i \in l..n
      BY <1>5
    <3> QED
      BY <1>2, <1>3, <3>1, <3>2
  <2>2. \A i \in DOMAIN s : s[i] \in ToSet(s)
    BY DEF ToSet
  <2>3. ASSUME NEW x, x \in ToSet(b) \/ x \in ToSet(r) PROVE x \in ToSet(s)
    <3>1. PICK i : (i \in one..k \/ i \in l..n) /\ x = s[i]
      BY <1>2, <1>3, <2>3
    <3> QED
      BY <1>6, <2>2, <3>1
  <2> QED
    BY <2>1, <2>3
<1>8. \A id : id \in Ids(s) <=> id \in Ids(b) \/ id \in Ids(r)
  BY <1>7, IdsDef
<1> QED
  BY <1>2, <1>3, <1>4, <1>7, <1>8 DEF Precedes, Halves

LEMMA ContinueStep ==
  ASSUME SinkInv, Continue
  PROVE  SinkInv'
<1>1. /\ fl.pc = "resume"
      /\ UNCHANGED <<life, seq, cloud, lost, reported, unsaid, unsure, again, crashes>>
  BY DEF Continue
<1>2. Batch = <<>> /\ Pending(fl, spool) = Readable(spool)
  BY <1>1 DEF Batch, Pending
<1>3. /\ FlushShape /\ Order(<<>>, spool, queue)
      /\ Numbers(<<>>, spool, queue, cloud, seq, lost, gone, unsure)
      /\ Fresh(<<>>, spool, Readable(spool), queue, cloud, unsure)
      /\ again \subseteq unsure /\ Counts
  BY <1>2 DEF SinkInv
<1>4. CASE spool # <<>>
  <2>1. ReadSpool(spool, dropped) /\ queue' = queue
    BY <1>4 DEF Continue
  <2>2. /\ Numbers(<<>>, spool, queue, cloud', seq, lost, gone, unsure)
        /\ Fresh(<<>>, spool, Readable(spool), queue, cloud', unsure)
        /\ again' \subseteq unsure
    BY <1>1, <1>3
  <2> QED
    BY <1>1, <1>3, <2>1, <2>2, ReadStep
<1>5. CASE spool = <<>>
  <2> DEFINE k == Min({BatchSize, Len(queue)})
  <2> DEFINE b == SubSeq(queue, 1, k)
  <2> DEFINE r == SubSeq(queue, BatchSize + 1, Len(queue))
  <2>1. /\ fl' = IF queue = <<>> THEN Idle
                 ELSE [pc |-> "batch", upto |-> 0, sent |-> 0, batch |-> b]
        /\ queue' = r /\ spool' = <<>> /\ dropped' = dropped /\ gone' = gone
    BY <1>5 DEF Continue
  <2>2. queue \in Seq(Event) /\ Sorted(queue) /\ Len(queue) \in Nat /\ BatchSize \in Nat \ {0}
    BY <1>3, LenProperties, SinkAssumption DEF Order
  <2>3. k = IF BatchSize <= Len(queue) THEN BatchSize ELSE Len(queue)
    BY <2>2, MinOfTwo
  <2>4. /\ b \in Seq(Event) /\ r \in Seq(Event) /\ Sorted(b) /\ Sorted(r) /\ Precedes(b, r)
        /\ ToSet(b) \cup ToSet(r) = ToSet(queue) /\ Ids(b) \cup Ids(r) = Ids(queue)
    <3> DEFINE n == Len(queue)
    <3> DEFINE l == BatchSize + 1
    <3> DEFINE one == 1
    <3>1. /\ n \in Nat /\ n = Len(queue) /\ k \in Nat /\ k <= n /\ l \in Nat \ {0} /\ k < l
          /\ l = k + 1 \/ (k = n /\ n < l)
          /\ one \in Nat \ {0} /\ one = 1
      BY <2>2, <2>3
    <3>2. b = SubSeq(queue, one, k) /\ r = SubSeq(queue, l, n)
      OBVIOUS
    <3> HIDE DEF b, r, k, n, l, one
    <3>3. Halves(queue, b, r)
      BY <2>2, <3>1, <3>2, Cut
    <3> QED
      BY <3>3 DEF Halves
  <2> HIDE DEF k, b, r
  <2>5. ToSet(<<>>) = {} /\ Ids(<<>>) = {} /\ Readable(<<>>) = {} /\ <<>> \in Seq(Line) /\ Len(<<>>) = 0
    BY DEF ToSet, Ids, Readable
  <2> DEFINE c == IF queue = <<>> THEN <<>> ELSE b
  <2>6. /\ c \in Seq(Event) /\ Sorted(c) /\ Precedes(c, r)
        /\ ToSet(c) \cup ToSet(r) = ToSet(queue) /\ Ids(c) \cup Ids(r) = Ids(queue)
    <3>1. CASE queue = <<>>
      <4>1. c = <<>> /\ ToSet(b) = {} /\ ToSet(r) = {} /\ Ids(b) = {} /\ Ids(r) = {}
        BY <2>4, <2>5, <3>1
      <4> QED
        BY <2>5, <3>1, <4>1 DEF Sorted, Precedes
    <3>2. CASE queue # <<>>
      BY <2>4, <3>2
    <3> QED
      BY <3>1, <3>2
  <2>7. FlushShape' /\ Batch' = c /\ Pending(fl', <<>>) = {} /\ fl'.pc # "spool"
    <3>1. CASE queue = <<>>
      <4>1. /\ fl'.pc = "idle" /\ fl'.upto = 0 /\ fl'.sent = 0 /\ fl'.batch = <<>>
            /\ fl' \in [pc : {"idle", "resume", "spool", "batch"}, upto : Nat, sent : Nat,
                        batch : Seq(Event)]
        BY <2>1, <3>1 DEF Idle
      <4> QED
        BY <2>5, <3>1, <4>1 DEF FlushShape, Batch, Pending
    <3>2. CASE queue # <<>>
      <4>1. /\ fl'.pc = "batch" /\ fl'.upto = 0 /\ fl'.sent = 0 /\ fl'.batch = b
            /\ fl' \in [pc : {"idle", "resume", "spool", "batch"}, upto : Nat, sent : Nat,
                        batch : Seq(Event)]
        BY <2>1, <2>4, <3>2
      <4> QED
        BY <2>5, <3>2, <4>1 DEF FlushShape, Batch, Pending
    <3> QED
      BY <3>1, <3>2
  <2> HIDE DEF c
  <2>8. Order(c, <<>>, r)
    <3>1. MaxSpool \in Nat
      BY SinkAssumption
    <3> QED
      BY <2>4, <2>5, <2>6, <3>1 DEF Order, Sorted, Precedes
  <2>9. Numbers(c, <<>>, r, cloud, seq, lost, gone, unsure)
    BY <1>3, <1>5, <2>5, <2>6 DEF Numbers, All
  <2>10. Fresh(c, <<>>, {}, r, cloud, unsure)
    BY <1>3, <2>6 DEF Fresh
  <2>11. Counts'
    BY <1>1, <1>3, <1>5, <2>1 DEF Counts
  <2> QED
    BY <1>1, <1>3, <2>1, <2>7, <2>8, <2>9, <2>10, <2>11 DEF SinkInv
<1> QED
  BY <1>4, <1>5

\* The queue q was spilled: the spool sp has become t, and the events of out are dropped.
AfterSpill(sp, q, t, out, cl, n, lo, go, un) ==
    /\ Order(<<>>, t, <<>>)
    /\ Numbers(<<>>, t, <<>>, cl, n, lo \cup out, go, un)
    /\ Fresh(<<>>, t, Readable(t), <<>>, cl, un)
    /\ out \cap lo = {} /\ out \subseteq 1..n /\ lo \subseteq 1..n
    /\ ToSet(t) \subseteq ToSet(sp) \cup ToSet(q)

\* The events of es, some of the queue, go to the spool as far as there is room; the
\* rest of the queue is dropped.
LEMMA SpillAll ==
  ASSUME NEW sp, NEW q, NEW es \in Seq(Event), Sorted(es), ToSet(es) \subseteq ToSet(q),
         NEW cl, NEW n, NEW lo, NEW go, NEW un,
         Order(<<>>, sp, q), Numbers(<<>>, sp, q, cl, n, lo, go, un),
         Fresh(<<>>, sp, Readable(sp), q, cl, un),
         NEW kept, kept = Kept(sp, es), NEW t, t = sp \o kept,
         NEW out, out = Ids(q) \ Ids(kept)
  PROVE  AfterSpill(sp, q, t, out, cl, n, lo, go, un)
<1>1. /\ sp \in Seq(Line) /\ q \in Seq(Event) /\ Sorted(sp) /\ Sorted(q) /\ Precedes(sp, q)
      /\ Len(sp) <= MaxSpool
  BY DEF Order
<1>2. Precedes(sp, es)
  BY <1>1 DEF Precedes
<1>3. /\ t \in Seq(Line) /\ Sorted(t) /\ Len(t) <= MaxSpool
      /\ ToSet(t) = ToSet(sp) \cup ToSet(kept) /\ Ids(t) = Ids(sp) \cup Ids(kept)
  BY <1>1, <1>2, Spilled
<1>4. /\ kept \in Seq(Event) /\ kept \in Seq(Line) /\ ToSet(kept) \subseteq ToSet(es)
  <2>1. Len(sp) \in Nat
    BY <1>1, LenProperties
  <2>2. kept \in Seq(Event) /\ ToSet(kept) \subseteq ToSet(es)
    BY <1>1, <2>1, KeptPart
  <2>3. kept \in Seq(Line)
    BY <2>2, Kinship
  <2> QED
    BY <2>2, <2>3
<1>5. Ids(kept) \subseteq Ids(q)
  BY <1>4, IdsDef
<1>6. ToSet(<<>>) = {} /\ Ids(<<>>) = {}
  BY DEF ToSet, Ids
<1>7. Order(<<>>, t, <<>>)
  BY <1>3, <1>6 DEF Order, Sorted, Precedes
<1>8. Ids(kept) \cap Ids(sp) = {}
  BY <1>1, <1>5, Disjoint
<1>9. Ids(q) = Ids(kept) \cup out /\ Ids(kept) \cap out = {} /\ out \cap Ids(sp) = {}
  <2>1. Ids(q) \cap Ids(sp) = {}
    BY <1>1, Disjoint
  <2> QED
    BY <1>5, <2>1
<1>10. /\ out \cap lo = {} /\ out \subseteq 1..n /\ lo \subseteq 1..n
  BY <1>9 DEF Numbers, All
<1>11. Numbers(<<>>, t, <<>>, cl, n, lo \cup out, go, un)
  BY <1>3, <1>6, <1>9, <1>10 DEF Numbers, All
<1>12. \A f \in ToSet(kept) : Fits(f, cl, un)
  BY <1>4 DEF Fresh
<1>13. ASSUME NEW i \in Readable(t) PROVE Fits(t[i], cl, un)
  <2>1. i \in DOMAIN t
    BY <1>3, <1>13, ReadableLines
  <2>2. CASE i \in DOMAIN sp
    <3>1. i \in Readable(sp) /\ t[i] = sp[i]
      BY <1>1, <1>4, <1>13, <2>2, GrownReadable
    <3> QED
      BY <3>1 DEF Fresh
  <2>3. CASE i \notin DOMAIN sp
    <3>1. t[i] \in ToSet(kept)
      BY <1>1, <1>4, <2>1, <2>3, GrownReadable
    <3> QED
      BY <1>12, <3>1
  <2> QED
    BY <2>2, <2>3
<1>14. Fresh(<<>>, t, Readable(t), <<>>, cl, un)
  BY <1>6, <1>13 DEF Fresh
<1>15. ToSet(t) \subseteq ToSet(sp) \cup ToSet(q)
  BY <1>3, <1>4
<1> QED
  BY <1>7, <1>10, <1>11, <1>14, <1>15 DEF AfterSpill

\* What is dropped is counted once.
LEMMA DropEffect ==
  ASSUME Counts, NEW n \in Nat, NEW ids, ids \subseteq 1..n, lost \subseteq 1..n, ids \cap lost = {},
         Drop(dropped, ids), UNCHANGED <<reported, unsaid, crashes>>,
         life' \in {"open", "closing", "down"},
         Torn \notin ToSet(spool) => Torn \notin ToSet(spool')
  PROVE  Counts'
<1>1. /\ dropped \in Nat /\ reported \in Nat /\ unsaid \in Nat /\ crashes \in Nat
      /\ crashes = 0 => /\ Torn \notin ToSet(spool)
                        /\ dropped + reported + unsaid = Cardinality(lost)
  BY DEF Counts
<1>2. dropped' = dropped + Cardinality(ids) /\ lost' = lost \cup ids
  BY DEF Drop
<1> DEFINE lo == lost \cup ids
<1>3. Cardinality(ids) \in Nat /\ Cardinality(lost) \in Nat
      /\ Cardinality(lo) = Cardinality(lost) + Cardinality(ids)
  <2>1. ids \in SUBSET (1..n) /\ lost \in SUBSET (1..n) /\ lost \cap ids = {}
    OBVIOUS
  <2> QED
    BY <2>1, Counted
<1>4. lost' = lo
  BY <1>2
<1> HIDE DEF lo
<1>5. /\ dropped' \in Nat
      /\ crashes = 0 => dropped' + reported + unsaid = Cardinality(lo)
  BY <1>1, <1>2, <1>3
<1> QED
  BY <1>1, <1>4, <1>5 DEF Counts

LEMMA CloseDoneStep ==
  ASSUME SinkInv, CloseDone
  PROVE  SinkInv'
<1> DEFINE kept == Kept(spool, queue)
<1> DEFINE t == spool \o kept
<1> DEFINE out == Ids(queue) \ Ids(kept)
<1>1. /\ fl.pc = "idle" /\ life' = "down" /\ queue' = <<>> /\ spool' = t
      /\ Drop(dropped, out) /\ lost' = lost \cup out
      /\ UNCHANGED <<fl, seq, cloud, gone, reported, unsaid, unsure, again, crashes>>
  BY DEF CloseDone, Unkept, Drop
<1>2. Batch = <<>> /\ Pending(fl, spool) = Readable(spool)
  BY <1>1 DEF Batch, Pending
<1>3. /\ FlushShape /\ Order(<<>>, spool, queue)
      /\ Numbers(<<>>, spool, queue, cloud, seq, lost, gone, unsure)
      /\ Fresh(<<>>, spool, Readable(spool), queue, cloud, unsure)
      /\ again \subseteq unsure /\ Counts
  BY <1>2 DEF SinkInv
<1>4. queue \in Seq(Event) /\ Sorted(queue) /\ ToSet(queue) \subseteq ToSet(queue) /\ seq \in Nat
  BY <1>3 DEF Order, Numbers
<1>5. kept = Kept(spool, queue) /\ t = spool \o kept /\ out = Ids(queue) \ Ids(kept)
  OBVIOUS
<1> HIDE DEF kept, t, out
<1>6. AfterSpill(spool, queue, t, out, cloud, seq, lost, gone, unsure)
  BY <1>3, <1>4, <1>5, SpillAll
<1>7. Counts'
  <2>1. Torn \notin ToSet(queue)
    BY <1>4, Elements, Kinship
  <2>2. Torn \notin ToSet(spool) => Torn \notin ToSet(spool')
    BY <1>1, <1>6, <2>1 DEF AfterSpill
  <2>3. out \cap lost = {} /\ out \subseteq 1..seq /\ lost \subseteq 1..seq
    BY <1>6 DEF AfterSpill
  <2> QED
    BY <1>1, <1>3, <1>4, <2>2, <2>3, DropEffect
<1>8. FlushShape' /\ Batch' = <<>> /\ Pending(fl', t) = Readable(t)
  BY <1>1, <1>3 DEF FlushShape, Batch, Pending
<1> QED
  BY <1>1, <1>3, <1>6, <1>7, <1>8 DEF SinkInv, AfterSpill

LEMMA OpenStep ==
  ASSUME SinkInv, Open
  PROVE  SinkInv'
<1>1. /\ life' = "open" /\ dropped' = 0 /\ unsaid' = unsaid + dropped
      /\ UNCHANGED <<queue, spool, fl, seq, cloud, lost, gone, reported, unsure, again, crashes>>
  BY DEF Open
<1>2. Counts'
  BY <1>1 DEF SinkInv, Counts
<1>3. FlushShape' /\ Batch' = Batch
  BY <1>1 DEF SinkInv, FlushShape, Batch
<1> QED
  BY <1>1, <1>2, <1>3 DEF SinkInv

\* What the batch in flight holds is held by the queue's batch or still by the spool.
LEMMA HeldIds ==
  ASSUME SinkInv
  PROVE  Held = All(Batch, spool, queue)
<1>1. FlushShape
  BY DEF SinkInv
<1>2. CASE fl.pc = "batch"
  BY <1>2 DEF Held, All, Batch
<1>3. CASE fl.pc = "spool"
  <2>1. Ids(fl.batch) \subseteq Ids(spool)
    BY <1>3, SpoolBatch
  <2>2. Ids(Batch) = {}
    BY <1>3 DEF Batch, Ids, ToSet
  <2> QED
    BY <2>1, <2>2 DEF Held, All
<1>4. CASE fl.pc \in {"idle", "resume"}
  BY <1>1, <1>4 DEF Held, All, Batch, FlushShape
<1> QED
  BY <1>1, <1>2, <1>3, <1>4 DEF FlushShape

LEMMA CrashStep ==
  ASSUME SinkInv, Crash
  PROVE  SinkInv'
<1>1. /\ crashes' = crashes + 1 /\ life' = "down" /\ queue' = <<>> /\ fl' = Idle /\ dropped' = 0
      /\ spool' = spool \/ (Len(spool) < MaxSpool /\ spool' = Append(spool, Torn))
      /\ unsaid' = unsaid + dropped
      /\ gone' = gone \cup (Held \ Ids(spool))
      /\ unsure' = unsure \cup (Ids(spool) \cap Ids(cloud))
      /\ UNCHANGED <<seq, cloud, lost, reported, again>>
  BY DEF Crash
<1>2. /\ FlushShape /\ Order(Batch, spool, queue)
      /\ Numbers(Batch, spool, queue, cloud, seq, lost, gone, unsure)
      /\ Fresh(Batch, spool, Pending(fl, spool), queue, cloud, unsure)
      /\ fl.pc = "spool" => FlushOf(fl, spool, cloud, gone)
      /\ again \subseteq unsure /\ Counts
  BY DEF SinkInv
<1>3. /\ spool \in Seq(Line) /\ Sorted(spool) /\ Len(spool) <= MaxSpool
  BY <1>2 DEF Order
<1>4. /\ Readable(spool) \subseteq DOMAIN spool /\ DOMAIN spool = 1..Len(spool) /\ Len(spool) \in Nat
      /\ \A i \in Readable(spool) : spool[i] \in Event /\ spool[i] # Torn
  BY <1>3, ReadableLines
<1>5. Held = All(Batch, spool, queue)
  BY HeldIds
<1>6. /\ spool' \in Seq(Line) /\ Sorted(spool') /\ Len(spool') <= MaxSpool /\ Ids(spool') = Ids(spool)
      /\ \A i \in Readable(spool') : i \in Readable(spool) /\ spool'[i] = spool[i]
  <2>1. CASE spool' = spool
    BY <1>3, <2>1
  <2>2. CASE Len(spool) < MaxSpool /\ spool' = Append(spool, Torn)
    <3> DEFINE t == Append(spool, Torn)
    <3>1. /\ t \in Seq(Line) /\ Len(t) = Len(spool) + 1 /\ DOMAIN t = 1..(Len(spool) + 1)
          /\ \A i \in 1..Len(spool) : t[i] = spool[i]
          /\ t[Len(spool) + 1] = Torn
      BY <1>3, <1>4, Kinship, AppendProperties, LenProperties
    <3> HIDE DEF t
    <3>2. \A i \in DOMAIN t : t[i] = Torn \/ (i \in DOMAIN spool /\ t[i] = spool[i])
      BY <1>4, <3>1
    <3>3. Sorted(t)
      BY <1>3, <3>2 DEF Sorted, Follows
    <3>4. Len(t) <= MaxSpool
      BY <1>4, <2>2, <3>1, SinkAssumption
    <3>5. ASSUME NEW i \in Readable(t) PROVE i \in Readable(spool) /\ t[i] = spool[i]
      <4>1. i \in DOMAIN t /\ t[i] # Torn /\ (i > 1 => t[i - 1] # Torn)
        BY DEF Readable
      <4>2. i \in DOMAIN spool /\ t[i] = spool[i]
        BY <3>2, <4>1
      <4>3. i > 1 => i - 1 \in 1..Len(spool)
        BY <1>4, <4>2
      <4> QED
        BY <3>1, <4>1, <4>2, <4>3 DEF Readable
    <3>6. Ids(t) = Ids(spool)
      <4>1. \A e \in ToSet(t) : e = Torn \/ e \in ToSet(spool)
        BY <3>2 DEF ToSet
      <4>2. \A e \in ToSet(spool) : e \in ToSet(t)
        <5>1. \A i \in DOMAIN spool : i \in DOMAIN t /\ t[i] = spool[i]
          BY <1>4, <3>1
        <5> QED
          BY <5>1 DEF ToSet
      <4>3. Torn.id = 0
        BY DEF Torn
      <4>4. \A id : id \in Ids(t) <=> id \in Ids(spool)
        BY <4>1, <4>2, <4>3, IdsDef
      <4> QED
        BY <4>4
    <3>7. spool' = t
      BY <2>2 DEF t
    <3> QED
      BY <3>1, <3>3, <3>4, <3>5, <3>6, <3>7
  <2> QED
    BY <1>1, <2>1, <2>2
<1> DEFINE sp == spool'
<1>7. ToSet(<<>>) = {} /\ Ids(<<>>) = {}
  BY DEF ToSet, Ids
<1>8. Order(<<>>, sp, <<>>)
  BY <1>6, <1>7 DEF Order, Sorted, Precedes
<1>9. Ids(sp) = Ids(spool)
  BY <1>6
<1> HIDE DEF sp
<1>10. Numbers(<<>>, sp, <<>>, cloud, seq, lost, gone', unsure')
  BY <1>1, <1>2, <1>5, <1>7, <1>9 DEF Numbers, All
<1>11. ASSUME NEW i \in Readable(spool) PROVE Fits(spool[i], cloud, unsure')
  <2>1. CASE i \in Pending(fl, spool)
    BY <1>1, <1>2, <2>1 DEF Fresh, Fits
  <2>2. CASE i \notin Pending(fl, spool)
    <3>1. fl.pc = "spool" /\ ~(fl.sent < i)
      BY <1>4, <2>2 DEF Pending
    <3>2. i <= fl.sent
      BY <1>2, <1>4, <3>1 DEF FlushShape
    <3>3. spool[i].id \in Ids(cloud)
      BY <1>2, <3>1, <3>2 DEF FlushOf
    <3>4. spool[i] \in ToSet(spool) /\ spool[i].id # 0
      BY <1>4, EventId DEF ToSet
    <3>5. spool[i].id \in Ids(spool)
      BY <3>4, IdsDef
    <3> QED
      BY <1>1, <3>3, <3>5 DEF Fits
  <2> QED
    BY <2>1, <2>2
<1>12. Fresh(<<>>, sp, Readable(sp), <<>>, cloud, unsure')
  BY <1>2, <1>6, <1>7, <1>11 DEF Fresh, sp
<1>13. /\ fl'.pc = "idle" /\ fl'.upto = 0 /\ fl'.sent = 0 /\ fl'.batch = <<>>
       /\ fl' \in [pc : {"idle", "resume", "spool", "batch"}, upto : Nat, sent : Nat, batch : Seq(Event)]
  BY <1>1 DEF Idle
<1>14. FlushShape' /\ Batch' = <<>> /\ Pending(fl', sp) = Readable(sp)
  BY <1>13 DEF FlushShape, Batch, Pending
<1>15. Counts'
  BY <1>1, <1>2 DEF Counts
<1>16. spool' = sp
  BY DEF sp
<1> QED
  BY <1>1, <1>2, <1>8, <1>10, <1>12, <1>13, <1>14, <1>15, <1>16 DEF SinkInv

\* The batch b that could not be sent was put back: the spool sp has become t, the
\* queue p, and the events of out are dropped.
AfterRequeue(b, sp, t, p, out, cl, n, lo, go, un) ==
    /\ Order(<<>>, t, p)
    /\ Numbers(<<>>, t, p, cl, n, lo \cup out, go, un)
    /\ Fresh(<<>>, t, Readable(t), p, cl, un)
    /\ out \cap lo = {} /\ out \subseteq 1..n /\ lo \subseteq 1..n
    /\ ToSet(t) \subseteq ToSet(b) \cup ToSet(sp)

\* What is put before the lines of a spool leaves the readable ones among them readable.
LEMMA ShiftedReadable ==
  ASSUME NEW k \in Seq(Line), NEW sp \in Seq(Line), NEW t, t = k \o sp, NEW cl, NEW un,
         \A e \in ToSet(k) : Fits(e, cl, un), \A j \in Readable(sp) : Fits(sp[j], cl, un),
         NEW i \in Readable(t)
  PROVE  Fits(t[i], cl, un)
<1>1. /\ t \in Seq(Line) /\ DOMAIN t = 1..(Len(k) + Len(sp)) /\ Len(k) \in Nat /\ Len(sp) \in Nat
      /\ \A j \in 1..(Len(k) + Len(sp)) : t[j] = IF j <= Len(k) THEN k[j] ELSE sp[j - Len(k)]
      /\ DOMAIN k = 1..Len(k) /\ DOMAIN sp = 1..Len(sp)
  BY ConcatProperties, LenProperties
<1>2. i \in DOMAIN t /\ t[i] # Torn /\ (i > 1 => t[i - 1] # Torn)
  BY DEF Readable
<1>3. CASE i <= Len(k)
  <2>1. i \in DOMAIN k /\ t[i] = k[i]
    BY <1>1, <1>2, <1>3
  <2> QED
    BY <2>1 DEF ToSet
<1>4. CASE ~(i <= Len(k))
  <2> DEFINE j == i - Len(k)
  <2>1. j \in DOMAIN sp /\ t[i] = sp[j]
    BY <1>1, <1>2, <1>4
  <2>2. j > 1 => i > 1 /\ t[i - 1] = sp[j - 1]
    <3> SUFFICES ASSUME j > 1 PROVE i > 1 /\ t[i - 1] = sp[j - 1]
      OBVIOUS
    <3>1. i - 1 \in 1..(Len(k) + Len(sp)) /\ ~(i - 1 <= Len(k)) /\ (i - 1) - Len(k) = j - 1 /\ i > 1
      BY <1>1, <1>2, <1>4
    <3>2. t[i - 1] = sp[(i - 1) - Len(k)]
      BY <1>1, <3>1
    <3> QED
      BY <3>1, <3>2
  <2> HIDE DEF j
  <2>3. j \in Readable(sp)
    BY <1>2, <2>1, <2>2 DEF Readable
  <2> QED
    BY <2>1, <2>3
<1> QED
  BY <1>3, <1>4

LEMMA RequeueEffect ==
  ASSUME NEW b, b = fl.batch, NEW cl, NEW n, NEW lo, NEW go, NEW un,
         Order(b, spool, queue), Numbers(b, spool, queue, cl, n, lo, go, un),
         Fresh(b, spool, Readable(spool), queue, cl, un)
  PROVE  AfterRequeue(b, spool, Requeued.sp, Requeued.q, Requeued.out, cl, n, lo, go, un)
<1>1. /\ b \in Seq(Event) /\ spool \in Seq(Line) /\ queue \in Seq(Event)
      /\ Sorted(b) /\ Sorted(spool) /\ Sorted(queue)
      /\ Precedes(b, spool) /\ Precedes(b, queue) /\ Precedes(spool, queue)
      /\ Len(spool) <= MaxSpool
  BY DEF Order
<1>2. ToSet(<<>>) = {} /\ Ids(<<>>) = {}
  BY DEF ToSet, Ids
<1>3. lo \subseteq 1..n
  BY DEF Numbers
<1>4. CASE spool = <<>>
  <2> DEFINE p == b \o queue
  <2>1. Requeued.sp = spool /\ Requeued.q = p /\ Requeued.out = {}
    BY <1>4 DEF Requeued
  <2>2. p \in Seq(Event) /\ ToSet(p) = ToSet(b) \cup ToSet(queue)
    BY <1>1, ToSetConcat
  <2>3. Sorted(p)
    BY <1>1, SortedConcat
  <2>4. Ids(p) = Ids(b) \cup Ids(queue)
    BY <1>1, IdsConcat
  <2> HIDE DEF p
  <2>5. Order(<<>>, spool, p)
    BY <1>1, <1>2, <1>4, <2>2, <2>3 DEF Order, Sorted, Precedes
  <2>6. Numbers(<<>>, spool, p, cl, n, lo \cup {}, go, un)
    BY <1>2, <2>4 DEF Numbers, All
  <2>7. Fresh(<<>>, spool, Readable(spool), p, cl, un)
    BY <1>2, <2>2 DEF Fresh
  <2> QED
    BY <1>3, <2>1, <2>5, <2>6, <2>7 DEF AfterRequeue
<1>5. CASE spool # <<>>
  <2> DEFINE idx == {i \in DOMAIN b : Mandatory(b[i])}
  <2> DEFINE ev == Pick(b, idx)
  <2> DEFINE k == Kept(spool, ev)
  <2> DEFINE t == k \o spool
  <2> DEFINE out == Ids(b) \ Ids(k)
  <2>1. Requeued.sp = t /\ Requeued.q = queue /\ Requeued.out = out
    BY <1>5 DEF Requeued, Evidence
  <2>2. idx \in SUBSET DOMAIN b
    OBVIOUS
  <2> HIDE DEF idx
  <2>3. ev \in Seq(Event) /\ ToSet(ev) = {b[i] : i \in idx} /\ Sorted(ev)
    BY <1>1, <2>2, PickPart
  <2> HIDE DEF ev
  <2>4. ToSet(ev) \subseteq ToSet(b)
    BY <2>2, <2>3 DEF ToSet
  <2>5. Len(spool) \in Nat
    BY <1>1, LenProperties
  <2>6. /\ k \in Seq(Event) /\ ToSet(k) \subseteq ToSet(ev) /\ Sorted(k)
        /\ Len(spool) + Len(k) <= MaxSpool
    BY <1>1, <2>3, <2>5, KeptPart
  <2>7. t = k \o spool /\ out = Ids(b) \ Ids(k)
    OBVIOUS
  <2> HIDE DEF k, t, out
  <2>8. k \in Seq(Line) /\ ToSet(k) \subseteq ToSet(b) /\ Len(k) \in Nat /\ MaxSpool \in Nat
    BY <2>4, <2>6, Kinship, LenProperties, SinkAssumption
  <2>9. Precedes(k, spool) /\ Precedes(k, queue) /\ Ids(k) \subseteq Ids(b)
    <3>1. Ids(k) \subseteq Ids(b)
      BY <2>8, IdsDef
    <3> QED
      BY <1>1, <2>8, <3>1 DEF Precedes
  <2>10. /\ t \in Seq(Line) /\ Len(t) = Len(k) + Len(spool)
         /\ ToSet(t) = ToSet(k) \cup ToSet(spool)
    BY <1>1, <2>7, <2>8, ToSetConcat
  <2>11. Sorted(t)
    BY <1>1, <2>6, <2>7, <2>8, <2>9, SortedConcat
  <2>12. Ids(t) = Ids(k) \cup Ids(spool)
    BY <1>1, <2>7, <2>8, IdsConcat
  <2>13. Len(t) <= MaxSpool
    BY <2>5, <2>6, <2>8, <2>10
  <2>14. Precedes(t, queue)
    BY <1>1, <2>9, <2>10 DEF Precedes
  <2>15. Order(<<>>, t, queue)
    BY <1>1, <1>2, <2>10, <2>11, <2>13, <2>14 DEF Order, Sorted, Precedes
  <2>16. Ids(b) \cap Ids(spool) = {} /\ Ids(b) \cap Ids(queue) = {}
    BY <1>1, Disjoint
  <2>17. /\ Ids(b) = Ids(k) \cup out /\ out \cap Ids(k) = {} /\ out \cap Ids(spool) = {}
         /\ out \cap Ids(queue) = {}
    BY <2>7, <2>9, <2>16
  <2>18. out \cap lo = {} /\ out \subseteq 1..n
    BY <2>17 DEF Numbers, All
  <2>19. Numbers(<<>>, t, queue, cl, n, lo \cup out, go, un)
    BY <1>2, <2>12, <2>17, <2>18 DEF Numbers, All
  <2>20. ASSUME NEW i \in Readable(t) PROVE Fits(t[i], cl, un)
    <3>1. /\ \A e \in ToSet(k) : Fits(e, cl, un)
          /\ \A j \in Readable(spool) : Fits(spool[j], cl, un)
      BY <2>8 DEF Fresh
    <3> QED
      BY <1>1, <2>7, <2>8, <3>1, ShiftedReadable
  <2>21. Fresh(<<>>, t, Readable(t), queue, cl, un)
    BY <1>2, <2>20 DEF Fresh
  <2> QED
    BY <1>3, <2>1, <2>8, <2>10, <2>15, <2>18, <2>19, <2>21 DEF AfterRequeue
<1> QED
  BY <1>4, <1>5

LEMMA BatchFailsStep ==
  ASSUME SinkInv, BatchFails
  PROVE  SinkInv'
<1> DEFINE b == fl.batch
<1> DEFINE t == Requeued.sp
<1> DEFINE p == Requeued.q
<1> DEFINE out == Requeued.out
<1> DEFINE idx == {i \in DOMAIN p : Mandatory(p[i])}
<1> DEFINE ev == Pick(p, idx)
<1> DEFINE kept == Kept(t, ev)
<1> DEFINE u == t \o kept
<1> DEFINE rest == Ids(p) \ Ids(kept)
<1> DEFINE cl == cloud'
<1> DEFINE un == unsure'
<1>1. /\ fl.pc = "batch" /\ SendFails /\ fl' = Idle
      /\ \/ queue' = <<>> /\ spool' = u /\ Drop(dropped, out \cup rest)
         \/ queue' = p /\ spool' = t /\ Drop(dropped, out)
      /\ UNCHANGED <<life, seq, gone, reported, unsaid, crashes>>
  BY DEF BatchFails, Evidence
<1>2. Batch = b /\ Pending(fl, spool) = Readable(spool)
  BY <1>1 DEF Batch, Pending
<1>3. /\ Order(b, spool, queue)
      /\ Numbers(b, spool, queue, cloud, seq, lost, gone, unsure)
      /\ Fresh(b, spool, Readable(spool), queue, cloud, unsure)
      /\ again \subseteq unsure /\ Counts
  BY <1>2 DEF SinkInv
<1>4. /\ b \in Seq(Event) /\ Sorted(b) /\ Precedes(b, spool) /\ Precedes(b, queue)
      /\ spool \in Seq(Line)
  BY <1>3 DEF Order
<1>5. /\ cl \in Seq(Event) /\ Sorted(cl)
      /\ Ids(cloud) \subseteq Ids(cl) /\ Ids(cl) \subseteq Ids(cloud) \cup Ids(b)
      /\ unsure \subseteq un /\ un \subseteq unsure \cup Ids(b)
      /\ again' \subseteq un
      /\ \A e : /\ Fits(e, cloud, unsure)
                /\ e \in ToSet(b) \/ \A f \in ToSet(b) : Follows(f, e)
                => Fits(e, cl, un)
  BY <1>1, <1>3, <1>4, FailEffect DEF Fresh
<1>6. b = fl.batch /\ cloud' = cl /\ unsure' = un
  OBVIOUS
<1> HIDE DEF b, cl, un
<1>7. Numbers(b, spool, queue, cl, seq, lost, gone, un)
  BY <1>3, <1>5 DEF Numbers, All
<1>8. Fresh(b, spool, Readable(spool), queue, cl, un)
  <2>1. \A e \in ToSet(b) \cup ToSet(queue) : Fits(e, cl, un)
    BY <1>3, <1>4, <1>5 DEF Fresh, Precedes
  <2>2. \A i \in Readable(spool) : spool[i] \in ToSet(spool)
    BY <1>4, ReadableLines DEF ToSet
  <2>3. \A i \in Readable(spool) : Fits(spool[i], cl, un)
    BY <1>3, <1>4, <1>5, <2>2 DEF Fresh, Precedes
  <2> QED
    BY <1>5, <2>1, <2>3 DEF Fresh
<1>9. AfterRequeue(b, spool, t, p, out, cl, seq, lost, gone, un)
  BY <1>3, <1>6, <1>7, <1>8, RequeueEffect
<1> HIDE DEF t, p, out
<1> DEFINE lo == lost \cup out
<1>10. /\ Order(<<>>, t, p) /\ Numbers(<<>>, t, p, cl, seq, lo, gone, un)
       /\ Fresh(<<>>, t, Readable(t), p, cl, un)
       /\ out \cap lost = {} /\ out \subseteq 1..seq /\ lost \subseteq 1..seq
       /\ ToSet(t) \subseteq ToSet(b) \cup ToSet(spool)
  BY <1>9 DEF AfterRequeue
<1>11. p \in Seq(Event) /\ Sorted(p) /\ seq \in Nat
  BY <1>10 DEF Order, Numbers
<1>12. idx \in SUBSET DOMAIN p
  OBVIOUS
<1> HIDE DEF idx
<1>13. ev \in Seq(Event) /\ ToSet(ev) = {p[i] : i \in idx} /\ Sorted(ev)
  BY <1>11, <1>12, PickPart
<1> HIDE DEF ev
<1>14. ToSet(ev) \subseteq ToSet(p)
  BY <1>12, <1>13 DEF ToSet
<1>15. kept = Kept(t, ev) /\ u = t \o kept /\ rest = Ids(p) \ Ids(kept) /\ lo = lost \cup out
  OBVIOUS
<1> HIDE DEF kept, u, rest, lo
<1>16. AfterSpill(t, p, u, rest, cl, seq, lo, gone, un)
  BY <1>10, <1>13, <1>14, <1>15, SpillAll
<1>17. /\ fl'.pc = "idle" /\ fl'.upto = 0 /\ fl'.sent = 0 /\ fl'.batch = <<>>
       /\ fl' \in [pc : {"idle", "resume", "spool", "batch"}, upto : Nat, sent : Nat, batch : Seq(Event)]
  BY <1>1 DEF Idle
<1>18. FlushShape' /\ Batch' = <<>> /\ Pending(fl', spool') = Readable(spool')
  BY <1>17 DEF FlushShape, Batch, Pending
<1>19. Torn \notin ToSet(b) /\ Torn \notin ToSet(p)
  BY <1>4, <1>11, Elements, Kinship
<1>20. life' \in {"open", "closing", "down"}
  BY <1>1, <1>3 DEF Counts
<1>21. CASE queue' = p /\ spool' = t /\ Drop(dropped, out)
  <2>1. lost' = lo
    BY <1>15, <1>21 DEF Drop
  <2>2. Torn \notin ToSet(spool) => Torn \notin ToSet(spool')
    BY <1>10, <1>19, <1>21
  <2>3. Counts'
    BY <1>1, <1>3, <1>10, <1>11, <1>20, <1>21, <2>2, DropEffect
  <2> QED
    BY <1>1, <1>5, <1>6, <1>10, <1>17, <1>18, <1>21, <2>1, <2>3 DEF SinkInv
<1>22. CASE queue' = <<>> /\ spool' = u /\ Drop(dropped, out \cup rest)
  <2> DEFINE ids == out \cup rest
  <2>1. /\ Order(<<>>, u, <<>>)
        /\ Numbers(<<>>, u, <<>>, cl, seq, lo \cup rest, gone, un)
        /\ Fresh(<<>>, u, Readable(u), <<>>, cl, un)
        /\ rest \cap lo = {} /\ rest \subseteq 1..seq
        /\ ToSet(u) \subseteq ToSet(t) \cup ToSet(p)
    BY <1>16 DEF AfterSpill
  <2>2. lost' = lo \cup rest
    BY <1>15, <1>22 DEF Drop
  <2>3. ids \subseteq 1..seq /\ ids \cap lost = {}
    BY <1>10, <1>15, <2>1
  <2>4. Drop(dropped, ids)
    BY <1>22
  <2> HIDE DEF ids
  <2>5. Torn \notin ToSet(spool) => Torn \notin ToSet(spool')
    BY <1>10, <1>19, <1>22, <2>1
  <2>6. Counts'
    BY <1>1, <1>3, <1>10, <1>11, <1>20, <2>3, <2>4, <2>5, DropEffect
  <2> QED
    BY <1>1, <1>5, <1>6, <1>17, <1>18, <1>22, <2>1, <2>2, <2>6 DEF SinkInv
<1> QED
  BY <1>1, <1>21, <1>22

-----------------------------------------------------------------------------
(* The theorems                                                             *)

LEMMA SinkInit ==
  ASSUME Init
  PROVE  SinkInv
<1>1. /\ queue = <<>> /\ spool = <<>> /\ dropped = 0 /\ fl = Idle /\ life = "open" /\ seq = 0
      /\ cloud = <<>> /\ lost = {} /\ gone = {} /\ reported = 0 /\ unsaid = 0 /\ unsure = {}
      /\ again = {} /\ crashes = 0
  BY DEF Init
<1>2. /\ ToSet(<<>>) = {} /\ Ids(<<>>) = {} /\ Readable(<<>>) = {} /\ Len(<<>>) = 0
      /\ <<>> \in Seq(Line) /\ <<>> \in Seq(Event) /\ Sorted(<<>>) /\ MaxSpool \in Nat
  BY SinkAssumption DEF ToSet, Ids, Readable, Sorted
<1>3. /\ fl.pc = "idle" /\ fl.upto = 0 /\ fl.sent = 0 /\ fl.batch = <<>>
      /\ fl \in [pc : {"idle", "resume", "spool", "batch"}, upto : Nat, sent : Nat, batch : Seq(Event)]
  BY <1>1, <1>2 DEF Idle
<1>4. FlushShape /\ Batch = <<>> /\ Pending(fl, <<>>) = {}
  BY <1>2, <1>3 DEF FlushShape, Batch, Pending
<1>5. Order(<<>>, <<>>, <<>>)
  BY <1>2 DEF Order, Precedes
<1>6. Numbers(<<>>, <<>>, <<>>, <<>>, 0, {}, {}, {})
  BY <1>2 DEF Numbers, All
<1>7. Fresh(<<>>, <<>>, {}, <<>>, <<>>, {})
  BY <1>2 DEF Fresh
<1>8. Counts
  <2>1. Cardinality({}) = 0
    BY FS_EmptySet
  <2> QED
    BY <1>1, <1>2, <2>1 DEF Counts
<1> QED
  BY <1>1, <1>3, <1>4, <1>5, <1>6, <1>7, <1>8 DEF SinkInv

LEMMA SinkNext ==
  ASSUME SinkInv, [Next]_vars
  PROVE  SinkInv'
<1>1. CASE UNCHANGED vars
  <2>1. UNCHANGED <<queue, spool, dropped, fl, life, seq, cloud, lost, gone, reported, unsaid,
                    unsure, again, crashes>>
    BY <1>1 DEF vars, sink, ghost
  <2>2. FlushShape' /\ Batch' = Batch /\ Counts'
    BY <2>1 DEF SinkInv, FlushShape, Batch, Counts
  <2> QED
    BY <2>1, <2>2 DEF SinkInv
<1>2. CASE \E kind \in {"evidence", "other"} : Emit(kind)
  BY <1>2, EmitStep
<1>3. CASE Tick
  BY <1>3, TickStep
<1>4. CASE SpoolSent
  BY <1>4, SpoolSentStep
<1>5. CASE SpoolFails
  BY <1>5, SpoolFailsStep
<1>6. CASE Continue
  BY <1>6, ContinueStep
<1>7. CASE BatchSent
  BY <1>7, BatchSentStep
<1>8. CASE BatchFails
  BY <1>8, BatchFailsStep
<1>9. CASE Close
  BY <1>9, CloseStep
<1>10. CASE CloseDone
  BY <1>10, CloseDoneStep
<1>11. CASE Crash
  BY <1>11, CrashStep
<1>12. CASE Open
  BY <1>12, OpenStep
<1> QED
  BY <1>1, <1>2, <1>3, <1>4, <1>5, <1>6, <1>7, <1>8, <1>9, <1>10, <1>11, <1>12 DEF Next

LEMMA SinkSafe == Spec => []SinkInv
<1>1. Init => SinkInv
  BY SinkInit
<1>2. SinkInv /\ [Next]_vars => SinkInv'
  BY SinkNext
<1> QED
  BY <1>1, <1>2, PTL DEF Spec

(* What the sink holds are events and lines of events, the spool stays within    *)
(* maxSpoolBytes, and every identifier in use was given.                         *)
THEOREM SinkTypes == Spec => []TypeOK
<1>1. ASSUME SinkInv PROVE TypeOK
  <2>1. /\ FlushShape /\ Order(Batch, spool, queue)
        /\ Numbers(Batch, spool, queue, cloud, seq, lost, gone, unsure)
        /\ Fresh(Batch, spool, Pending(fl, spool), queue, cloud, unsure)
        /\ fl.pc = "spool" => FlushOf(fl, spool, cloud, gone)
        /\ again \subseteq unsure /\ Counts
    BY <1>1 DEF SinkInv
  <2>2. fl.batch \in Seq(Event) /\ fl.upto \in Nat /\ fl.sent \in Nat
    BY <2>1 DEF FlushShape
  <2>3. ToSet(queue) \cup ToSet(cloud) \cup ToSet(fl.batch) \subseteq Event
    <3>1. queue \in Seq(Event) /\ cloud \in Seq(Event)
      BY <2>1 DEF Order, Fresh
    <3> QED
      BY <2>2, <3>1, Elements
  <2>4. spool \in Seq(Line) /\ Len(spool) <= MaxSpool /\ Len(spool) \in Nat
    BY <2>1, LenProperties DEF Order
  <2>5. ToSet(spool) \subseteq Event \cup {Torn}
    BY <2>4, Elements DEF Line
  <2>6. fl.sent \in 0..fl.upto /\ fl.upto <= Len(spool)
    <3>1. CASE fl.pc = "spool"
      BY <2>1, <2>2, <3>1 DEF FlushOf
    <3>2. CASE fl.pc # "spool"
      BY <2>1, <2>4, <3>2 DEF FlushShape
    <3> QED
      BY <3>1, <3>2
  <2>7. Held \cup Ids(cloud) \cup lost \cup gone \cup unsure \cup again \subseteq 1..seq
    BY <1>1, <2>1, HeldIds DEF Numbers
  <2>8. /\ seq \in Nat /\ dropped \in Nat /\ reported \in Nat
        /\ life \in {"open", "closing", "down"} /\ fl.pc \in {"idle", "resume", "spool", "batch"}
    BY <2>1 DEF Numbers, Counts, FlushShape
  <2> QED
    BY <2>3, <2>4, <2>5, <2>6, <2>7, <2>8 DEF TypeOK
<1> QED
  BY <1>1, SinkSafe, PTL

(* Whatever is spilled, requeued or sent meanwhile, the cloud first receives the *)
(* events of a session in the order they were emitted (notices excepted).        *)
THEOREM SinkInOrder == Spec => []InOrder
<1>1. ASSUME SinkInv PROVE InOrder
  <2>1. cloud \in Seq(Event) /\ Sorted(cloud)
    BY <1>1 DEF SinkInv, Fresh
  <2>2. \A i \in DOMAIN cloud : cloud[i] # Torn
    BY <2>1, LenProperties, EventId
  <2> QED
    BY <2>1, <2>2 DEF InOrder, Sorted, Follows
<1> QED
  BY <1>1, SinkSafe, PTL

(* Every event is in the queue, the batch, the spool or the cloud, or was        *)
(* dropped or taken by a crash; without a crash every drop is counted once.      *)
THEOREM NothingIsLostSilently == Spec => []NothingVanishes
<1>1. ASSUME SinkInv PROVE NothingVanishes
  <2>1. 1..seq \subseteq Held \cup Ids(cloud) \cup lost \cup gone
    BY <1>1, HeldIds DEF SinkInv, Numbers
  <2>2. crashes = 0 => dropped + reported + unsaid = Cardinality(lost)
    BY <1>1 DEF SinkInv, Counts
  <2> QED
    BY <2>1, <2>2 DEF NothingVanishes
<1> QED
  BY <1>1, SinkSafe, PTL

(* The cloud receives an event again only when the answer to an earlier send of  *)
(* it was lost, or a crash came before the spool was trimmed.                    *)
THEOREM SinkSendsAgainForCause == Spec => []NoNeedlessResend
<1>1. SinkInv => NoNeedlessResend
  BY DEF SinkInv, NoNeedlessResend
<1> QED
  BY <1>1, SinkSafe, PTL

-----------------------------------------------------------------------------
(* Evidence is dropped only when the spool is left full. What a flush may   *)
(* empty is a spool with no readable line, and the spool has one whenever   *)
(* something can be dropped into it: no torn line outlives a whole flush,   *)
(* and a queue fills up only while one runs or after one has failed.        *)

Alive ==
    \/ fl.pc = "spool"
    \/ fl.pc = "idle" /\ Len(queue) < BatchSize
    \/ spool = <<>> \/ Readable(spool) # {}

LEMMA ReadAlive ==
  ASSUME NEW sp, NEW d, ReadSpool(sp, d)
  PROVE  Alive'
BY DEF ReadSpool, Alive

\* The first line of a spool is readable unless it is torn, whatever follows.
LEMMA GrownAlive ==
  ASSUME NEW sp \in Seq(Line), NEW k \in Seq(Event), sp = <<>> \/ Readable(sp) # {},
         NEW t, t = sp \o k
  PROVE  t = <<>> \/ Readable(t) # {}
<1>1. k \in Seq(Line)
  BY Kinship
<1>2. CASE Readable(sp) # {}
  <2>1. PICK i \in Readable(sp) : TRUE
    BY <1>2
  <2>2. i \in DOMAIN sp
    BY ReadableLines
  <2>3. i \in Readable(sp \o k)
    BY <1>1, <2>1, <2>2, GrownReadable
  <2> QED
    BY <2>3
<1>3. CASE sp = <<>> /\ k = <<>>
  BY <1>3
<1>4. CASE sp = <<>> /\ k # <<>>
  <2>1. t = k
    BY <1>4
  <2>2. 1 \in DOMAIN k /\ k[1] \in Event
    BY <1>4, LenProperties, EmptySeq
  <2>3. 1 \in Readable(k)
    BY <2>2, EventId DEF Readable
  <2> QED
    BY <2>1, <2>3
<1> QED
  BY <1>2, <1>3, <1>4

LEMMA FrontAlive ==
  ASSUME NEW sp \in Seq(Line), NEW k \in Seq(Event), sp = <<>> \/ Readable(sp) # {},
         NEW t, t = k \o sp
  PROVE  t = <<>> \/ Readable(t) # {}
<1>1. CASE k = <<>>
  BY <1>1
<1>2. CASE k # <<>>
  <2>1. 1 \in DOMAIN k /\ k[1] \in Event /\ DOMAIN k = 1..Len(k) /\ Len(k) \in Nat /\ Len(sp) \in Nat
    BY <1>2, LenProperties, EmptySeq
  <2>2. k \in Seq(Line)
    BY Kinship
  <2>3. /\ DOMAIN t = 1..(Len(k) + Len(sp))
        /\ \A j \in 1..(Len(k) + Len(sp)) : t[j] = IF j <= Len(k) THEN k[j] ELSE sp[j - Len(k)]
    BY <2>2, ConcatProperties, LenProperties
  <2>4. 1 \in DOMAIN t /\ t[1] = k[1]
    BY <2>1, <2>3
  <2>5. 1 \in Readable(t)
    BY <2>1, <2>4, EventId DEF Readable
  <2> QED
    BY <2>5
<1> QED
  BY <1>1, <1>2

\* What a full queue gives up was in it, and makes room for one event.
LEMMA ShedRoom ==
  ASSUME queue \in Seq(Event)
  PROVE  /\ Shed.out \subseteq Ids(queue)
         /\ Shed.out # {} => Len(Shed.q) + 1 = Len(queue)
<1>1. DOMAIN queue = 1..Len(queue) /\ Len(queue) \in Nat /\ \A i \in DOMAIN queue : queue[i] \in Event
  BY LenProperties
<1> DEFINE others == {i \in DOMAIN queue : ~Mandatory(queue[i])}
<1> DEFINE oldest == <<Head(queue)>>
<1>2. Shed = IF Len(queue) < MaxBuffered THEN [q |-> queue, sp |-> spool, out |-> {}]
             ELSE IF others # {}
             THEN [q |-> RemoveAt(queue, Min(others)), sp |-> spool,
                   out |-> {queue[Min(others)].id}]
             ELSE [q |-> Tail(queue), sp |-> spool \o Kept(spool, oldest),
                   out |-> Unkept(spool, oldest)]
  BY DEF Shed
<1>3. MaxBuffered \in Nat \ {0}
  BY SinkAssumption
<1>4. CASE Len(queue) < MaxBuffered
  BY <1>2, <1>4
<1>5. CASE ~(Len(queue) < MaxBuffered) /\ others # {}
  <2> DEFINE i == Min(others)
  <2>1. others \in SUBSET Nat /\ IsFiniteSet(others)
    <3>1. IsFiniteSet(DOMAIN queue) /\ others \in SUBSET DOMAIN queue
      BY <1>1, FS_Interval
    <3> QED
      BY <1>1, <3>1, FS_Subset
  <2>2. i \in others
    <3> HIDE DEF others
    <3> QED
      BY <1>5, <2>1, MinMember
  <2>3. i \in DOMAIN queue
    BY <2>2
  <2>4. Shed.q = RemoveAt(queue, i) /\ Shed.out = {queue[i].id}
    BY <1>2, <1>5
  <2> HIDE DEF i
  <2>5. queue[i] \in ToSet(queue) /\ queue[i].id # 0
    BY <1>1, <2>3, EventId DEF ToSet
  <2>6. Len(RemoveAt(queue, i)) + 1 = Len(queue)
    <3> DEFINE a == SubSeq(queue, 1, i - 1)
    <3> DEFINE c == SubSeq(queue, i + 1, Len(queue))
    <3>1. a \in Seq(Event) /\ Len(a) = i - 1
      <4>1. i - 1 \in Nat /\ i - 1 <= Len(queue) /\ 1 \in Nat \ {0}
        BY <1>1, <2>3
      <4>2. a \in Seq(Event) /\ Len(a) = IF 1 <= i - 1 THEN (i - 1) - 1 + 1 ELSE 0
        BY <4>1, SubSeqPart
      <4> HIDE DEF a
      <4> QED
        BY <1>1, <2>3, <4>1, <4>2
    <3>2. c \in Seq(Event) /\ Len(c) = Len(queue) - i
      <4> DEFINE m == i + 1
      <4> DEFINE n == Len(queue)
      <4>1. m \in Nat \ {0} /\ n \in Nat /\ n <= Len(queue) /\ m = i + 1 /\ n = Len(queue)
        BY <1>1, <2>3
      <4> HIDE DEF m, n
      <4>2. LET u == SubSeq(queue, m, n) IN
               u \in Seq(Event) /\ Len(u) = IF m <= n THEN n - m + 1 ELSE 0
        BY <4>1, SubSeqPart
      <4>3. c = SubSeq(queue, m, n)
        BY DEF m, n
      <4> HIDE DEF c
      <4> QED
        BY <1>1, <2>3, <4>1, <4>2, <4>3
    <3> HIDE DEF a, c
    <3>3. Len(a \o c) = Len(a) + Len(c)
      BY <3>1, <3>2, ToSetConcat
    <3>4. RemoveAt(queue, i) = a \o c
      BY DEF RemoveAt, a, c
    <3>5. Len(a) + Len(c) + 1 = Len(queue)
      BY <1>1, <2>3, <3>1, <3>2
    <3> QED
      BY <3>3, <3>4, <3>5
  <2>7. queue[i].id \in Ids(queue)
    BY <2>5, IdsDef
  <2> QED
    BY <2>4, <2>6, <2>7
<1>6. CASE ~(Len(queue) < MaxBuffered) /\ others = {}
  <2>1. queue # <<>> /\ Len(queue) # 0
    BY <1>1, <1>3, <1>6
  <2>2. Head(queue) = queue[1] /\ 1 \in DOMAIN queue /\ Len(Tail(queue)) = Len(queue) - 1
    BY <1>1, <2>1, HeadTailProperties
  <2>3. oldest \in Seq(Event) /\ ToSet(oldest) = {queue[1]}
    <3>1. ToSet(oldest) = {queue[1]}
      BY <2>2 DEF ToSet
    <3> QED
      BY <1>1, <2>2, <3>1
  <2>4. Shed.q = Tail(queue) /\ Shed.out = Unkept(spool, oldest)
    BY <1>2, <1>6
  <2> HIDE DEF oldest
  <2>5. Unkept(spool, oldest) \subseteq Ids(queue)
    <3>1. Unkept(spool, oldest) \subseteq Ids(oldest)
      BY DEF Unkept
    <3>2. queue[1] \in ToSet(queue)
      BY <2>2 DEF ToSet
    <3>3. Ids(oldest) \subseteq Ids(queue)
      BY <2>3, <3>2, IdsDef
    <3> QED
      BY <3>1, <3>3
  <2> QED
    BY <1>1, <2>1, <2>2, <2>4, <2>5
<1> QED
  BY <1>4, <1>5, <1>6

\* What emit puts into the spool leaves it alive.
LEMMA ShedAlive ==
  ASSUME SinkInv, spool = <<>> \/ Readable(spool) # {}
  PROVE  Shed.sp = <<>> \/ Readable(Shed.sp) # {}
<1>1. /\ Order(Batch, spool, queue)
      /\ Numbers(Batch, spool, queue, cloud, seq, lost, gone, unsure)
  BY DEF SinkInv
<1>2. spool \in Seq(Line) /\ queue \in Seq(Event)
  BY <1>1 DEF Order
<1>3. PICK t \in Seq(Line) : Shed.sp = spool \o t /\ ToSet(t) \subseteq ToSet(queue)
  BY <1>1, ShedEffect
<1>4. t \in Seq(Event)
  <2>1. Torn \notin ToSet(t)
    BY <1>2, <1>3, Elements, Kinship
  <2> QED
    BY <2>1, EventSeq
<1> DEFINE sp == Shed.sp
<1>5. sp = spool \o t
  BY <1>3
<1> HIDE DEF sp
<1>6. sp = <<>> \/ Readable(sp) # {}
  BY <1>2, <1>4, <1>5, GrownAlive
<1> QED
  BY <1>6 DEF sp

LEMMA TrimmedAlive ==
  ASSUME NEW sp \in Seq(Line), NEW m \in Nat, NEW i \in Readable(sp), m < i,
         NEW t, t = SubSeq(sp, m + 1, Len(sp))
  PROVE  Readable(t) # {}
<1>1. /\ DOMAIN sp = 1..Len(sp) /\ Len(sp) \in Nat /\ i \in 1..Len(sp)
  BY ReadableLines
<1> DEFINE l == m + 1
<1> DEFINE n == Len(sp)
<1>2. l \in Nat \ {0} /\ l = m + 1 /\ n \in Nat /\ n = Len(sp) /\ n <= Len(sp) /\ l <= n
  BY <1>1
<1>3. t = SubSeq(sp, l, n)
  OBVIOUS
<1> HIDE DEF l, n
<1>4. /\ SubSeq(sp, l, n) \in Seq(Line)
      /\ Len(SubSeq(sp, l, n)) = IF l <= n THEN n - l + 1 ELSE 0
  BY <1>2, SubSeqPart
<1>5. \A j \in DOMAIN SubSeq(sp, l, n) : SubSeq(sp, l, n)[j] = sp[j + l - 1]
  BY <1>2, SubSeqPart
<1>6. t \in Seq(Line) /\ Len(t) = n - m /\ \A j \in DOMAIN t : t[j] = sp[j + l - 1]
  <2>1. n - l + 1 = n - m
    BY <1>2
  <2> QED
    BY <1>2, <1>3, <1>4, <1>5, <2>1
<1>7. DOMAIN t = 1..(n - m)
  BY <1>6, LenProperties
<1> DEFINE j == i - m
<1>8. /\ j \in DOMAIN t /\ j + l - 1 = i
      /\ j > 1 => /\ i > 1 /\ j - 1 \in DOMAIN t /\ (j - 1) + l - 1 = i - 1
  BY <1>1, <1>2, <1>7
<1> HIDE DEF j
<1>9. t[j] = sp[i] /\ (j > 1 => i > 1 /\ t[j - 1] = sp[i - 1])
  <2>1. t[j] = sp[i]
    BY <1>6, <1>8
  <2>2. ASSUME j > 1 PROVE i > 1 /\ t[j - 1] = sp[i - 1]
    <3>1. t[j - 1] = sp[(j - 1) + l - 1]
      BY <1>6, <1>8, <2>2
    <3> QED
      BY <1>8, <2>2, <3>1
  <2> QED
    BY <2>1, <2>2
<1>10. j \in Readable(t)
  BY <1>8, <1>9 DEF Readable
<1> QED
  BY <1>10

LEMMA EvidencePart ==
  ASSUME NEW p \in Seq(Event)
  PROVE  /\ Evidence(p) \in Seq(Event)
         /\ \A e \in ToSet(p) : Mandatory(e) => e \in ToSet(Evidence(p))
<1> DEFINE idx == {i \in DOMAIN p : Mandatory(p[i])}
<1>1. Evidence(p) = Pick(p, idx)
  BY DEF Evidence
<1>2. idx \in SUBSET DOMAIN p
  OBVIOUS
<1>3. \A e \in ToSet(p) : Mandatory(e) => \E i \in idx : e = p[i]
  BY DEF ToSet
<1> HIDE DEF idx
<1>4. Pick(p, idx) \in Seq(Event) /\ ToSet(Pick(p, idx)) = {p[j] : j \in idx}
  BY <1>2, PickPart
<1> QED
  BY <1>1, <1>3, <1>4

\* Evidence that does not fit finds the spool full.
LEMMA KeptFull ==
  ASSUME NEW sp \in Seq(Line), Len(sp) <= MaxSpool, NEW es \in Seq(Event),
         NEW e \in ToSet(es), Mandatory(e), NEW kept, kept = Kept(sp, es), e.id \notin Ids(kept)
  PROVE  kept \in Seq(Event) /\ Len(sp) + Len(kept) = MaxSpool
<1> DEFINE n == Len(sp)
<1>1. n \in Nat /\ Len(sp) = n /\ n <= MaxSpool
  BY LenProperties
<1>2. e \notin ToSet(kept)
  <2>1. e \in Event
    BY Elements
  <2> QED
    BY <2>1, EventId, IdsDef
<1> HIDE DEF n
<1>3. kept \in Seq(Event) /\ n + Len(kept) = MaxSpool
  BY <1>1, <1>2, KeptPart
<1> QED
  BY <1>1, <1>3

LEMMA AliveNext ==
  ASSUME SinkInv, Alive, [Next]_vars
  PROVE  Alive'
<1>1. /\ FlushShape /\ Order(Batch, spool, queue)
      /\ fl.pc = "spool" => FlushOf(fl, spool, cloud, gone)
  BY DEF SinkInv
<1>2. spool \in Seq(Line) /\ queue \in Seq(Event)
  BY <1>1 DEF Order
<1>3. fl.batch \in Seq(Event) /\ fl.upto \in Nat /\ fl.sent \in Nat
      /\ fl.pc \in {"idle", "resume", "spool", "batch"}
  BY <1>1 DEF FlushShape
<1>4. BatchSize \in Nat \ {0} /\ Len(<<>>) = 0
  BY SinkAssumption
<1>5. CASE UNCHANGED <<fl, queue, spool>>
  BY <1>5 DEF Alive
<1>6. ASSUME NEW kind \in {"evidence", "other"}, Emit(kind) PROVE Alive'
  <2> DEFINE e == [id |-> seq + 1, kind |-> kind, count |-> 0]
  <2> DEFINE d == dropped + Cardinality(Shed.out)
  <2> DEFINE q == Append(Shed.q, e)
  <2>1. IF Len(q) >= BatchSize /\ fl.pc = "idle"
        THEN BeginFlush(q, Shed.sp, d, seq + 1)
        ELSE queue' = q /\ spool' = Shed.sp /\ fl' = fl
    BY <1>6 DEF Emit
  <2>2. CASE Len(q) >= BatchSize /\ fl.pc = "idle"
    BY <2>1, <2>2, ReadAlive DEF BeginFlush
  <2>3. CASE fl.pc = "idle" /\ ~(Len(q) >= BatchSize)
    <3>1. q \in Seq(Event)
      <4>1. Order(Batch, Shed.sp, Shed.q)
        <5>1. Numbers(Batch, spool, queue, cloud, seq, lost, gone, unsure)
          BY DEF SinkInv
        <5> QED
          BY <1>1, <5>1, ShedEffect
      <4>2. seq \in Nat
        BY DEF SinkInv, Numbers
      <4>3. e \in Event
        BY <4>2 DEF Event, Kinds
      <4> QED
        BY <4>1, <4>3 DEF Order
    <3>2. Len(q) \in Nat
      BY <3>1, LenProperties
    <3> HIDE DEF q
    <3>3. fl'.pc = "idle" /\ Len(queue') < BatchSize
      BY <1>4, <2>1, <2>3, <3>2
    <3> QED
      BY <3>3 DEF Alive
  <2>4. CASE fl.pc = "spool"
    BY <2>1, <2>4 DEF Alive
  <2>5. CASE fl.pc \in {"resume", "batch"}
    <3>1. spool = <<>> \/ Readable(spool) # {}
      BY <2>5 DEF Alive
    <3>2. Shed.sp = <<>> \/ Readable(Shed.sp) # {}
      BY <3>1, ShedAlive
    <3>3. spool' = Shed.sp
      BY <2>1, <2>5
    <3> QED
      BY <3>2, <3>3 DEF Alive
  <2> QED
    BY <1>3, <2>2, <2>3, <2>4, <2>5
<1>7. CASE Tick
  BY <1>7, ReadAlive DEF Tick, BeginFlush
<1>8. CASE SpoolSent
  <2>1. fl.pc = "spool"
    BY <1>8 DEF SpoolSent
  <2>2. fl \in [pc : {"idle", "resume", "spool", "batch"}, upto : Nat, sent : Nat, batch : Seq(Event)]
    BY <1>1 DEF FlushShape
  <2>3. fl'.pc = "spool" \/ ReadSpool(Trim(fl.upto), dropped)
    BY <1>8, <2>1, <2>2 DEF SpoolSent
  <2> QED
    BY <2>3, ReadAlive DEF Alive
<1>9. CASE SpoolFails
  <2> DEFINE t == SubSeq(spool, fl.sent + 1, Len(spool))
  <2>1. fl.pc = "spool" /\ spool' = t
    BY <1>9 DEF SpoolFails, Trim
  <2>2. Unsent(spool, fl.sent, fl.upto) # {}
    BY <1>1, <2>1 DEF FlushOf
  <2>3. PICK i \in Readable(spool) : fl.sent < i
    BY <1>2, <2>2, UnsentLines
  <2>4. Readable(t) # {}
    <3> DEFINE m == fl.sent
    <3>1. t = SubSeq(spool, m + 1, Len(spool)) /\ m \in Nat /\ m < i
      BY <1>3, <2>3
    <3> HIDE DEF t, m
    <3> QED
      BY <1>2, <3>1, TrimmedAlive
  <2> QED
    BY <2>1, <2>4 DEF Alive
<1>10. CASE Continue
  <2>1. CASE spool # <<>>
    BY <1>10, <2>1, ReadAlive DEF Continue
  <2>2. CASE spool = <<>>
    <3>1. spool' = spool
      BY <1>10, <2>2 DEF Continue
    <3> QED
      BY <2>2, <3>1 DEF Alive
  <2> QED
    BY <2>1, <2>2
<1>11. CASE BatchSent
  BY <1>11, ReadAlive DEF BatchSent
<1>12. CASE BatchFails
  <2> DEFINE k == Kept(spool, Evidence(fl.batch))
  <2> DEFINE t == Requeued.sp
  <2> DEFINE p == Requeued.q
  <2> DEFINE kept == Kept(t, Evidence(p))
  <2>1. fl.pc = "batch" /\ (spool' = t \/ spool' = t \o kept)
    BY <1>12 DEF BatchFails
  <2>2. spool = <<>> \/ Readable(spool) # {}
    BY <2>1 DEF Alive
  <2>3. AfterRequeue(fl.batch, spool, t, p, Requeued.out, cloud, seq, lost, gone, unsure)
    <3>1. Batch = fl.batch /\ Pending(fl, spool) = Readable(spool)
      BY <2>1 DEF Batch, Pending
    <3> DEFINE b == fl.batch
    <3>2. /\ b = fl.batch /\ Order(b, spool, queue)
          /\ Numbers(b, spool, queue, cloud, seq, lost, gone, unsure)
          /\ Fresh(b, spool, Readable(spool), queue, cloud, unsure)
      BY <3>1 DEF SinkInv
    <3> HIDE DEF b
    <3>3. AfterRequeue(b, spool, Requeued.sp, Requeued.q, Requeued.out, cloud, seq, lost, gone, unsure)
      BY <3>2, RequeueEffect
    <3> QED
      BY <3>2, <3>3
  <2>4. t \in Seq(Line) /\ p \in Seq(Event) /\ Len(t) <= MaxSpool
    BY <2>3 DEF AfterRequeue, Order
  <2>5. t = spool \/ t = k \o spool
    BY DEF Requeued
  <2> DEFINE n == Len(spool)
  <2>6. n \in Nat /\ Len(spool) = n /\ n <= MaxSpool /\ Evidence(fl.batch) \in Seq(Event)
    BY <1>1, <1>2, <1>3, LenProperties, EvidencePart DEF Order
  <2> HIDE DEF n
  <2>7. k \in Seq(Event)
    BY <2>6, KeptPart
  <2> DEFINE m == Len(t)
  <2>8. m \in Nat /\ Len(t) = m /\ m <= MaxSpool /\ Evidence(p) \in Seq(Event)
    BY <2>4, LenProperties, EvidencePart
  <2> HIDE DEF k, t, m, p
  <2>9. kept \in Seq(Event)
    BY <2>8, KeptPart
  <2> HIDE DEF kept
  <2>10. t = <<>> \/ Readable(t) # {}
    BY <1>2, <2>2, <2>5, <2>7, FrontAlive
  <2> DEFINE u == t \o kept
  <2>11. u = t \o kept /\ (spool' = t \/ spool' = u)
    BY <2>1
  <2> HIDE DEF u
  <2>12. u = <<>> \/ Readable(u) # {}
    BY <2>4, <2>9, <2>10, <2>11, GrownAlive
  <2>13. spool' = <<>> \/ Readable(spool') # {}
    <3>1. CASE spool' = t
      BY <2>10, <3>1
    <3>2. CASE spool' = u
      BY <2>12, <3>2
    <3> QED
      BY <2>11, <3>1, <3>2
  <2> QED
    BY <2>13 DEF Alive
<1>13. CASE Close
  BY <1>5, <1>13, ReadAlive DEF Close, BeginFlush
<1>14. CASE CloseDone
  <2>1. fl'.pc = "idle" /\ queue' = <<>>
    BY <1>14 DEF CloseDone
  <2> QED
    BY <1>4, <2>1 DEF Alive
<1>15. CASE Crash
  <2>1. fl'.pc = "idle" /\ queue' = <<>>
    BY <1>15 DEF Crash, Idle
  <2> QED
    BY <1>4, <2>1 DEF Alive
<1>16. CASE Open
  BY <1>5, <1>16 DEF Open
<1>17. CASE UNCHANGED vars
  BY <1>5, <1>17 DEF vars, sink
<1> QED
  BY <1>6, <1>7, <1>8, <1>9, <1>10, <1>11, <1>12, <1>13, <1>14, <1>15, <1>16, <1>17 DEF Next

LEMMA EmitEvidence ==
  ASSUME SinkInv, Alive, NEW kind \in {"evidence", "other"}, Emit(kind),
         NEW e \in ToSet(queue) \cup ToSet(fl.batch), Mandatory(e), e.id \in lost', e.id \notin lost
  PROVE  Len(spool') >= MaxSpool
<1> DEFINE f == [id |-> seq + 1, kind |-> kind, count |-> 0]
<1> DEFINE d == dropped + Cardinality(Shed.out)
<1> DEFINE q == Append(Shed.q, f)
<1>1. /\ FlushShape /\ Order(Batch, spool, queue)
      /\ Numbers(Batch, spool, queue, cloud, seq, lost, gone, unsure)
  BY DEF SinkInv
<1>2. /\ queue \in Seq(Event) /\ spool \in Seq(Line) /\ Precedes(Batch, queue)
      /\ Precedes(spool, queue) /\ fl.batch \in Seq(Event)
  BY <1>1 DEF Order, FlushShape
<1>3. e.id \in Shed.out
  BY DEF Emit
<1>4. Shed.out \subseteq Ids(queue) /\ Len(Shed.q) + 1 = Len(queue)
  BY <1>2, <1>3, ShedRoom
<1>5. e.id \in Ids(queue) /\ e.id # 0
  BY <1>3, <1>4, IdsDef
<1>6. e \in ToSet(queue)
  <2> SUFFICES ASSUME e \in ToSet(fl.batch) PROVE FALSE
    OBVIOUS
  <2>1. e.id \in Ids(fl.batch)
    BY <1>5, IdsDef
  <2>2. CASE fl.pc = "batch"
    <3>1. Ids(fl.batch) \cap Ids(queue) = {}
      BY <1>2, <2>2, Disjoint DEF Batch
    <3> QED
      BY <1>5, <2>1, <3>1
  <2>3. CASE fl.pc = "spool"
    <3>1. Ids(fl.batch) \subseteq Ids(spool)
      BY <2>3, SpoolBatch
    <3>2. Ids(spool) \cap Ids(queue) = {}
      BY <1>2, Disjoint
    <3> QED
      BY <1>5, <2>1, <3>1, <3>2
  <2>4. CASE fl.pc \in {"idle", "resume"}
    BY <1>1, <2>1, <2>4 DEF FlushShape, Ids, ToSet
  <2> QED
    BY <1>1, <2>2, <2>3, <2>4 DEF FlushShape
<1>7. Len(Shed.sp) >= MaxSpool
  BY <1>1, <1>3, <1>6, ShedEffect
<1>8. IF Len(q) >= BatchSize /\ fl.pc = "idle"
      THEN BeginFlush(q, Shed.sp, d, seq + 1)
      ELSE spool' = Shed.sp
  BY DEF Emit
<1>9. CASE ~(Len(q) >= BatchSize /\ fl.pc = "idle")
  BY <1>7, <1>8, <1>9
<1>10. CASE Len(q) >= BatchSize /\ fl.pc = "idle"
  <2>1. Len(q) = Len(Shed.q) + 1 /\ Len(Shed.q) \in Nat
    <3>1. Shed.q \in Seq(Event)
      BY <1>1, ShedEffect DEF Order
    <3>2. f \in Event
      BY <1>1 DEF Event, Kinds, Numbers
    <3> HIDE DEF f
    <3> QED
      BY <3>1, <3>2, AppendProperties, LenProperties
  <2>2. ~(Len(queue) < BatchSize)
    <3> HIDE DEF q
    <3> QED
      BY <1>4, <1>10, <2>1, SinkAssumption
  <2>3. spool = <<>> \/ Readable(spool) # {}
    BY <1>10, <2>2 DEF Alive
  <2>4. Shed.sp = <<>> \/ Readable(Shed.sp) # {}
    BY <2>3, ShedAlive
  <2>5. spool' = Shed.sp
    BY <1>8, <1>10, <2>4 DEF BeginFlush, ReadSpool
  <2> QED
    BY <1>7, <2>5
<1> QED
  BY <1>9, <1>10

LEMMA CloseEvidence ==
  ASSUME SinkInv, CloseDone,
         NEW e \in ToSet(queue) \cup ToSet(fl.batch), Mandatory(e), e.id \in lost', e.id \notin lost
  PROVE  Len(spool') >= MaxSpool
<1> DEFINE kept == Kept(spool, queue)
<1>1. /\ FlushShape /\ Order(Batch, spool, queue)
  BY DEF SinkInv
<1>2. /\ queue \in Seq(Event) /\ spool \in Seq(Line) /\ Len(spool) <= MaxSpool
  BY <1>1 DEF Order
<1>3. fl.batch = <<>> /\ spool' = spool \o kept /\ e.id \notin Ids(kept)
  BY <1>1 DEF CloseDone, FlushShape, Drop, Unkept
<1>4. e \in ToSet(queue)
  BY <1>3 DEF ToSet
<1>5. kept = Kept(spool, queue)
  OBVIOUS
<1> HIDE DEF kept
<1>6. kept \in Seq(Event) /\ Len(spool) + Len(kept) = MaxSpool
  BY <1>2, <1>3, <1>4, <1>5, KeptFull
<1>7. Len(spool \o kept) = Len(spool) + Len(kept)
  <2>1. kept \in Seq(Line)
    BY <1>6, Kinship
  <2> QED
    BY <1>2, <2>1, ToSetConcat
<1> QED
  BY <1>3, <1>6, <1>7, SinkAssumption

LEMMA FailsEvidence ==
  ASSUME SinkInv, BatchFails,
         NEW e \in ToSet(queue) \cup ToSet(fl.batch), Mandatory(e), e.id \in lost', e.id \notin lost
  PROVE  Len(spool') >= MaxSpool
<1> DEFINE b == fl.batch
<1> DEFINE k == Kept(spool, Evidence(b))
<1> DEFINE t == Requeued.sp
<1> DEFINE p == Requeued.q
<1> DEFINE out == Requeued.out
<1> DEFINE kept == Kept(t, Evidence(p))
<1>1. /\ fl.pc = "batch"
      /\ \/ spool' = t \o kept /\ lost' = lost \cup (out \cup (Ids(p) \ Ids(kept)))
         \/ spool' = t /\ lost' = lost \cup out
  BY DEF BatchFails, Drop
<1>2. Batch = b /\ Pending(fl, spool) = Readable(spool)
  BY <1>1 DEF Batch, Pending
<1>3. /\ b = fl.batch /\ Order(b, spool, queue)
      /\ Numbers(b, spool, queue, cloud, seq, lost, gone, unsure)
      /\ Fresh(b, spool, Readable(spool), queue, cloud, unsure)
  BY <1>2 DEF SinkInv
<1>4. IF spool = <<>> THEN t = spool /\ p = b \o queue /\ out = {}
      ELSE t = k \o spool /\ p = queue /\ out = Ids(b) \ Ids(k)
  BY DEF Requeued
<1> HIDE DEF b
<1>5. AfterRequeue(b, spool, t, p, out, cloud, seq, lost, gone, unsure)
  BY <1>3, RequeueEffect
<1> HIDE DEF t, p, out
<1>6. /\ b \in Seq(Event) /\ Sorted(b) /\ spool \in Seq(Line) /\ queue \in Seq(Event)
      /\ Precedes(b, queue) /\ Len(spool) <= MaxSpool
  BY <1>3 DEF Order
<1>7. t \in Seq(Line) /\ p \in Seq(Event) /\ Len(t) <= MaxSpool /\ Len(t) \in Nat /\ Len(spool) \in Nat
  BY <1>5, <1>6, LenProperties DEF AfterRequeue, Order
<1>8. e \in ToSet(b) \cup ToSet(queue) /\ e \in Event /\ e.id # 0
  <2>1. e \in ToSet(b) \cup ToSet(queue)
    BY <1>3
  <2>2. e \in Event
    BY <1>6, <2>1, Elements
  <2> QED
    BY <2>1, <2>2, EventId
<1>9. /\ Evidence(b) \in Seq(Event) /\ (e \in ToSet(b) => e \in ToSet(Evidence(b)))
      /\ Evidence(p) \in Seq(Event) /\ (e \in ToSet(p) => e \in ToSet(Evidence(p)))
  BY <1>6, <1>7, EvidencePart
<1>10. k = Kept(spool, Evidence(b)) /\ kept = Kept(t, Evidence(p))
  OBVIOUS
<1> HIDE DEF k, kept
<1>11. kept \in Seq(Event) /\ kept \in Seq(Line) /\ Len(kept) \in Nat
  <2> DEFINE n == Len(t)
  <2>1. n \in Nat /\ Len(t) = n /\ n <= MaxSpool
    BY <1>7
  <2> HIDE DEF n
  <2>2. kept \in Seq(Event)
    BY <1>9, <1>10, <2>1, KeptPart
  <2> QED
    BY <2>2, Kinship, LenProperties
<1>12. Len(t \o kept) = Len(t) + Len(kept)
  BY <1>7, <1>11, ToSetConcat
<1>13. MaxSpool \in Nat
  BY SinkAssumption
<1>14. CASE e.id \in out
  <2>1. spool # <<>> /\ out = Ids(b) \ Ids(k) /\ t = k \o spool
    BY <1>4, <1>14
  <2>2. e \in ToSet(b)
    <3>1. e.id \in Ids(b) /\ Ids(b) \cap Ids(queue) = {}
      BY <1>6, <1>14, <2>1, Disjoint
    <3>2. e \in ToSet(queue) => e.id \in Ids(queue)
      BY <1>8, IdsDef
    <3> QED
      BY <1>8, <3>1, <3>2
  <2>3. k \in Seq(Event) /\ Len(spool) + Len(k) = MaxSpool
    BY <1>6, <1>9, <1>10, <1>14, <2>1, <2>2, KeptFull
  <2>4. Len(t) = Len(k) + Len(spool)
    <3>1. k \in Seq(Line)
      BY <2>3, Kinship
    <3> QED
      BY <1>6, <2>1, <3>1, ToSetConcat
  <2>5. Len(t) = MaxSpool
    <3>1. Len(k) \in Nat
      BY <2>3, LenProperties
    <3> QED
      BY <1>7, <2>3, <2>4, <3>1
  <2>6. Len(t \o kept) >= MaxSpool /\ Len(t) >= MaxSpool
    BY <1>11, <1>12, <1>13, <2>5
  <2> QED
    BY <1>1, <2>6
<1>15. CASE e.id \notin out
  <2>1. spool' = t \o kept /\ e.id \in Ids(p) /\ e.id \notin Ids(kept)
    BY <1>1, <1>15
  <2>2. e \in ToSet(p)
    <3>1. CASE spool = <<>>
      <4>1. p = b \o queue
        BY <1>4, <3>1
      <4>2. ToSet(p) = ToSet(b) \cup ToSet(queue)
        BY <1>6, <4>1, ToSetConcat
      <4> QED
        BY <1>8, <4>2
    <3>2. CASE spool # <<>>
      <4>1. p = queue
        BY <1>4, <3>2
      <4>2. Ids(b) \cap Ids(queue) = {}
        BY <1>6, Disjoint
      <4>3. e \in ToSet(b) => e.id \in Ids(b)
        BY <1>8, IdsDef
      <4> QED
        BY <1>8, <2>1, <4>1, <4>2, <4>3
    <3> QED
      BY <3>1, <3>2
  <2>3. Len(t) + Len(kept) = MaxSpool
    BY <1>7, <1>9, <1>10, <2>1, <2>2, KeptFull
  <2> QED
    BY <1>12, <1>13, <2>1, <2>3
<1> QED
  BY <1>14, <1>15

(* Evidence, from the queue or a batch that could not be sent, is dropped only in *)
(* a step that leaves the spool full.                                            *)
THEOREM EvidenceIsKept == Spec => EvidenceKept
<1> DEFINE Full == \A e \in ToSet(queue) \cup ToSet(fl.batch) :
                       Mandatory(e) /\ e.id \in lost' \ lost => Len(spool') >= MaxSpool
<1>1. Init => Alive
  <2>1. Len(<<>>) = 0 /\ BatchSize \in Nat \ {0}
    BY SinkAssumption
  <2> QED
    BY <2>1 DEF Init, Alive
<1>2. SinkInv /\ Alive /\ [Next]_vars => Alive'
  BY AliveNext
<1>3. SinkInv /\ Alive /\ [Next]_vars => [Full]_vars
  <2> SUFFICES ASSUME SinkInv, Alive, Next PROVE Full
    OBVIOUS
  <2> SUFFICES ASSUME NEW e \in ToSet(queue) \cup ToSet(fl.batch), Mandatory(e),
                      e.id \in lost', e.id \notin lost
               PROVE  Len(spool') >= MaxSpool
    OBVIOUS
  <2>1. lost' # lost
    OBVIOUS
  <2>2. CASE \E kind \in {"evidence", "other"} : Emit(kind)
    BY <2>2, EmitEvidence
  <2>3. CASE BatchFails
    BY <2>3, FailsEvidence
  <2>4. CASE CloseDone
    BY <2>4, CloseEvidence
  <2> QED
    BY <2>1, <2>2, <2>3, <2>4 DEF Next, Tick, SpoolSent, SpoolFails, Continue, BatchSent, Close,
       Crash, Open
<1>4. Spec => [][Full]_vars
  <2> HIDE DEF Full
  <2> QED
    BY <1>1, <1>2, <1>3, SinkSafe, PTL DEF Spec
<1> QED
  BY <1>4 DEF EvidenceKept

=============================================================================
