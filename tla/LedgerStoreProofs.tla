-------------------------- MODULE LedgerStoreProofs --------------------------
(***************************************************************************)
(* Proofs about LedgerStore, for any number of processes, runs, entries,     *)
(* keys and failures.  In three parts: the keys (at most one key command at  *)
(* a time), the log and its manifest, and the verdict of "ledger verify".    *)
(***************************************************************************)
EXTENDS LedgerStore, SubsequencesProofs

OneTool == \A t, u \in Tools : t = u

Writing == {"newline", "sync", "save", "bnewline", "bsync"}

\* The fields of a process and of a key command, whatever their values.
ProcShape ==
    /\ proc = [p \in Procs |-> proc[p]]
    /\ \A p \in Procs :
         proc[p] = [pc |-> proc[p].pc, man |-> proc[p].man, chain |-> proc[p].chain,
                    blocks |-> proc[p].blocks, key |-> proc[p].key, item |-> proc[p].item]

ToolShape ==
    /\ tool = [t \in Tools |-> tool[t]]
    /\ \A t \in Tools : tool[t] = [pc |-> tool[t].pc, keys |-> tool[t].keys]

KeysShape ==
    /\ kman = [active |-> kman.active, status |-> kman.status]
    /\ kman.active \in Known(kman)

\* Whoever has the ledger open signs with a key of the manifest, and so is what it
\* writes signed.
SnapshotKnown ==
    \A p \in Procs :
        /\ proc[p].pc # "down" => proc[p].key \in Known(kman)
        /\ proc[p].pc \in Writing => proc[p].item.key \in Known(kman)

\* A key command that has read the manifest replaces what it read.
ReadIsCurrent == \A t \in Tools : tool[t].pc = "read" => tool[t].keys = kman

Shape   == ProcShape /\ ToolShape /\ KeysShape
KeyInv  == Shape /\ SnapshotKnown /\ ReadIsCurrent /\ KeysResolve

-----------------------------------------------------------------------------

LEMMA InitKeys == Init => KeyInv
<1> SUFFICES ASSUME Init PROVE KeyInv
  OBVIOUS
<1> USE DEF Init, Closed, NoCommand
<1>1. ProcShape
  BY DEF ProcShape
<1>2. ToolShape
  BY DEF ToolShape
<1>3. KeysShape
  BY DEF KeysShape, Known, FirstKeys
<1>4. SnapshotKnown /\ ReadIsCurrent /\ KeysResolve
  BY DEF SnapshotKnown, Writing, ReadIsCurrent, KeysResolve
<1> QED
  BY <1>1, <1>2, <1>3, <1>4 DEF KeyInv, Shape

\* The key commands only add keys: with one of them at a time, what it replaces is
\* what it read.
LEMMA KeyCommands ==
  ASSUME OneTool, KeyInv, NEW t \in Tools, ToolStep(t)
  PROVE  ToolShape' /\ KeysShape' /\ ReadIsCurrent' /\ Known(kman) \subseteq Known(kman)'
<1> USE DEF KeyInv, Shape, ToolShape, KeysShape, ReadIsCurrent, Known, NoCommand
<1>1. CASE ReadKeys(t)
  BY <1>1 DEF ReadKeys, files
<1>2. CASE Rotate(t)
  <2>1. tool[t].keys = kman
    BY <1>2 DEF Rotate
  <2>2. /\ kman'.active = keyids + 1
        /\ kman' = [active |-> kman'.active, status |-> kman'.status]
        /\ DOMAIN kman'.status = DOMAIN kman.status \cup {keyids + 1}
    BY <1>2, <2>1 DEF Rotate, Rotated
  <2>3. ToolShape' /\ \A u \in Tools : tool'[u].pc # "read"
    BY <1>2 DEF Rotate, OneTool
  <2> QED
    BY <2>2, <2>3
<1>3. ASSUME NEW k, Revoke(t, k)
      PROVE  ToolShape' /\ KeysShape' /\ ReadIsCurrent' /\ Known(kman) \subseteq Known(kman)'
  <2>1. tool[t].keys = kman
    BY <1>3 DEF Revoke
  <2>2. /\ kman'.active = kman.active
        /\ kman' = [active |-> kman'.active, status |-> kman'.status]
        /\ DOMAIN kman'.status = DOMAIN kman.status
    BY <1>3, <2>1 DEF Revoke
  <2>3. ToolShape' /\ \A u \in Tools : tool'[u].pc # "read"
    BY <1>3 DEF Revoke, OneTool
  <2> QED
    BY <2>2, <2>3
<1>4. CASE KeyCommandEnds(t)
  BY <1>4 DEF KeyCommandEnds, files
<1> QED
  BY <1>1, <1>2, <1>3, <1>4 DEF ToolStep

\* The step changes proc at p only.
Only(p) ==
    /\ proc' = [q \in Procs |-> proc'[q]]
    /\ \A q \in Procs \ {p} : proc'[q] = proc[q]

\* A step of p that keeps its key and the key manifest, and leaves in its hand what is
\* signed with a known one.
LEMMA Moved ==
  ASSUME KeyInv, NEW p \in Procs, proc[p].pc # "down", Only(p), UNCHANGED kman,
         NEW pc, NEW man_, NEW chain, NEW blocks, NEW item,
         proc'[p] = [pc |-> pc, man |-> man_, chain |-> chain, blocks |-> blocks,
                     key |-> proc[p].key, item |-> item],
         pc \in Writing => item.key \in Known(kman)
  PROVE  ProcShape' /\ SnapshotKnown'
<1>1. proc[p].key \in Known(kman)
  BY DEF KeyInv, SnapshotKnown
<1>2. ProcShape'
  <2>1. proc'[p] = [pc |-> proc'[p].pc, man |-> proc'[p].man, chain |-> proc'[p].chain,
                    blocks |-> proc'[p].blocks, key |-> proc'[p].key, item |-> proc'[p].item]
    OBVIOUS
  <2> QED
    BY <2>1 DEF KeyInv, Shape, ProcShape, Only
<1>3. SnapshotKnown'
  BY <1>1 DEF KeyInv, SnapshotKnown, Only, Known
<1> QED
  BY <1>2, <1>3

\* A step that closes p.
LEMMA ClosedKeys ==
  ASSUME KeyInv, NEW p \in Procs, proc' = [proc EXCEPT ![p] = Closed], UNCHANGED kman
  PROVE  ProcShape' /\ SnapshotKnown'
BY DEF KeyInv, Shape, ProcShape, SnapshotKnown, Closed, Known, Writing

\* What a step of a process must leave true while the key manifest stays.
Steady == ProcShape /\ SnapshotKnown /\ KeysResolve

LEMMA ProcessKeys ==
  ASSUME KeyInv, NEW p \in Procs, ProcStep(p)
  PROVE  Steady' /\ UNCHANGED <<kman, tool>>
<1> USE DEF files, counts
<1>0. /\ proc = [q \in Procs |-> proc[q]]
      /\ proc[p] = [pc |-> proc[p].pc, man |-> proc[p].man, chain |-> proc[p].chain,
                    blocks |-> proc[p].blocks, key |-> proc[p].key, item |-> proc[p].item]
  BY DEF KeyInv, Shape, ProcShape
<1>00. KeysResolve /\ (proc[p].pc # "down" => proc[p].key \in Known(kman))
       /\ (proc[p].pc \in Writing => proc[p].item.key \in Known(kman))
  BY DEF KeyInv, SnapshotKnown
<1>1. CASE OpenStore(p)
  BY <1>1 DEF KeyInv, Shape, ProcShape, KeysShape, Known, Writing, OpenStore, Closed, Steady,
              SnapshotKnown, KeysResolve
<1>2. CASE OpenLedger(p)
  <2>1. proc[p].pc = "opening" /\ UNCHANGED <<kman, tool, acked, sealed>>
    BY <1>2 DEF OpenLedger
  <2>2. CASE proc' = [proc EXCEPT ![p] = Closed]
    BY <2>1, <2>2, <1>00, ClosedKeys DEF Steady, KeysResolve, Known
  <2>3. CASE proc' = [proc EXCEPT ![p] = [@ EXCEPT !.pc = "ready", !.chain = ChainOf(Lines(log)),
                                                   !.blocks = Lines(blk)]]
    <3> DEFINE c == ChainOf(Lines(log))
    <3> DEFINE bs == Lines(blk)
    <3> HIDE DEF c, bs
    <3>1. proc' = [proc EXCEPT ![p] = [@ EXCEPT !.pc = "ready", !.chain = c, !.blocks = bs]]
      BY <2>3 DEF c, bs
    <3>2. Only(p)
      BY <1>0, <3>1 DEF Only
    <3>3. proc'[p] = [pc |-> "ready", man |-> proc[p].man, chain |-> c, blocks |-> bs,
                      key |-> proc[p].key, item |-> proc[p].item]
      BY <1>0, <3>1
    <3> QED
      BY <1>00, <2>1, <3>2, <3>3, Moved DEF Writing, Steady, KeysResolve, Known
  <2> QED
    BY <1>2, <2>2, <2>3 DEF OpenLedger
<1>3. ASSUME NEW run \in Runs, AppendText(p, run)
      PROVE  Steady' /\ UNCHANGED <<kman, tool>>
  <2> DEFINE e == Entry(ids + 1, run, proc[p].chain, proc[p].key)
  <2>1. e.key = proc[p].key
    BY DEF Entry
  <2> HIDE DEF e
  <2>2. proc' = [proc EXCEPT ![p].pc = "newline", ![p].item = e]
    BY <1>3 DEF AppendText, e
  <2>3. proc[p].pc = "ready" /\ UNCHANGED <<kman, tool, acked, sealed>>
    BY <1>3 DEF AppendText
  <2>4. Only(p)
    BY <1>0, <2>2 DEF Only
  <2>5. proc'[p] = [pc |-> "newline", man |-> proc[p].man, chain |-> proc[p].chain,
                    blocks |-> proc[p].blocks, key |-> proc[p].key, item |-> e]
    BY <1>0, <2>2
  <2> QED
    BY <1>00, <2>1, <2>3, <2>4, <2>5, Moved DEF Steady, KeysResolve, Known
<1>4. CASE AppendNewLine(p)
  <2>1. proc' = [proc EXCEPT ![p].pc = "sync"]
    BY <1>4 DEF AppendNewLine, To
  <2>2. proc[p].pc = "newline" /\ UNCHANGED <<kman, tool, acked, sealed>>
    BY <1>4 DEF AppendNewLine
  <2>3. Only(p)
    BY <1>0, <2>1 DEF Only
  <2>4. proc'[p] = [pc |-> "sync", man |-> proc[p].man, chain |-> proc[p].chain,
                    blocks |-> proc[p].blocks, key |-> proc[p].key, item |-> proc[p].item]
    BY <1>0, <2>1
  <2> QED
    BY <1>00, <2>2, <2>3, <2>4, Moved DEF Writing, Steady, KeysResolve, Known
<1>5. CASE AppendSync(p)
  <2> DEFINE m == [count |-> proc[p].man.count + 1, head |-> proc[p].item.id]
  <2> HIDE DEF m
  <2>1. proc' = [proc EXCEPT ![p].pc = "save", ![p].man = m]
    BY <1>5, <1>0 DEF AppendSync, m
  <2>2. proc[p].pc = "sync" /\ UNCHANGED <<kman, tool, acked, sealed>>
    BY <1>5 DEF AppendSync
  <2>3. Only(p)
    BY <1>0, <2>1 DEF Only
  <2>4. proc'[p] = [pc |-> "save", man |-> m, chain |-> proc[p].chain,
                    blocks |-> proc[p].blocks, key |-> proc[p].key, item |-> proc[p].item]
    BY <1>0, <2>1
  <2> QED
    BY <1>00, <2>2, <2>3, <2>4, Moved DEF Writing, Steady, KeysResolve, Known
<1>6. CASE AppendSave(p)
  <2> DEFINE c == Advance(proc[p].chain, proc[p].item)
  <2> HIDE DEF c
  <2>1. proc' = [[proc EXCEPT ![p].pc = "ready", ![p].item = NoItem] EXCEPT ![p].chain = c]
    BY <1>6, <1>0 DEF AppendSave, BackToReady, c
  <2>2. /\ proc[p].pc = "save" /\ UNCHANGED <<kman, tool, sealed>>
        /\ acked' = acked \cup {proc[p].item}
    BY <1>6 DEF AppendSave
  <2>3. Only(p)
    BY <1>0, <2>1 DEF Only
  <2>4. proc'[p] = [pc |-> "ready", man |-> proc[p].man, chain |-> c,
                    blocks |-> proc[p].blocks, key |-> proc[p].key, item |-> NoItem]
    BY <1>0, <2>1
  <2>5. ProcShape' /\ SnapshotKnown'
    BY <2>2, <2>3, <2>4, Moved DEF Writing
  <2> QED
    BY <1>00, <2>2, <2>5 DEF Writing, Steady, KeysResolve, Known
<1>7. CASE AppendTextFails(p) \/ SealTextFails(p)
  BY <1>7 DEF KeyInv, Shape, ProcShape, AppendTextFails, SealTextFails, Steady, SnapshotKnown,
              KeysResolve, Known
<1>8. CASE SealText(p)
  <2> DEFINE b == Block(bids + 1, Unsealed(p), proc[p].blocks, proc[p].key)
  <2>1. b.key = proc[p].key
    BY DEF Block
  <2> HIDE DEF b
  <2>2. proc' = [proc EXCEPT ![p].pc = "bnewline", ![p].item = b]
    BY <1>8 DEF SealText, b
  <2>3. proc[p].pc = "ready" /\ UNCHANGED <<kman, tool, acked, sealed>>
    BY <1>8 DEF SealText
  <2>4. Only(p)
    BY <1>0, <2>2 DEF Only
  <2>5. proc'[p] = [pc |-> "bnewline", man |-> proc[p].man, chain |-> proc[p].chain,
                    blocks |-> proc[p].blocks, key |-> proc[p].key, item |-> b]
    BY <1>0, <2>2
  <2> QED
    BY <1>00, <2>1, <2>3, <2>4, <2>5, Moved DEF Steady, KeysResolve, Known
<1>9. CASE SealNewLine(p)
  <2>1. proc' = [proc EXCEPT ![p].pc = "bsync"]
    BY <1>9 DEF SealNewLine, To
  <2>2. proc[p].pc = "bnewline" /\ UNCHANGED <<kman, tool, acked, sealed>>
    BY <1>9 DEF SealNewLine
  <2>3. Only(p)
    BY <1>0, <2>1 DEF Only
  <2>4. proc'[p] = [pc |-> "bsync", man |-> proc[p].man, chain |-> proc[p].chain,
                    blocks |-> proc[p].blocks, key |-> proc[p].key, item |-> proc[p].item]
    BY <1>0, <2>1
  <2> QED
    BY <1>00, <2>2, <2>3, <2>4, Moved DEF Writing, Steady, KeysResolve, Known
<1>10. CASE SealSync(p)
  <2> DEFINE bs == Append(proc[p].blocks, proc[p].item)
  <2> HIDE DEF bs
  <2>1. proc' = [[proc EXCEPT ![p].pc = "ready", ![p].item = NoItem] EXCEPT ![p].blocks = bs]
    BY <1>10, <1>0 DEF SealSync, BackToReady, bs
  <2>2. /\ proc[p].pc = "bsync" /\ UNCHANGED <<kman, tool, acked>>
        /\ sealed' = sealed \cup {proc[p].item}
    BY <1>10 DEF SealSync
  <2>3. Only(p)
    BY <1>0, <2>1 DEF Only
  <2>4. proc'[p] = [pc |-> "ready", man |-> proc[p].man, chain |-> proc[p].chain,
                    blocks |-> bs, key |-> proc[p].key, item |-> NoItem]
    BY <1>0, <2>1
  <2>5. ProcShape' /\ SnapshotKnown'
    BY <2>2, <2>3, <2>4, Moved DEF Writing
  <2> QED
    BY <1>00, <2>2, <2>5 DEF Writing, Steady, KeysResolve, Known
<1>11. CASE LaterCallFails(p)
  <2>1. proc' = [proc EXCEPT ![p].pc = "ready", ![p].item = NoItem]
    BY <1>11 DEF LaterCallFails, BackToReady
  <2>2. proc[p].pc # "down" /\ UNCHANGED <<kman, tool, acked, sealed>>
    BY <1>11 DEF LaterCallFails
  <2>3. Only(p)
    BY <1>0, <2>1 DEF Only
  <2>4. proc'[p] = [pc |-> "ready", man |-> proc[p].man, chain |-> proc[p].chain,
                    blocks |-> proc[p].blocks, key |-> proc[p].key, item |-> NoItem]
    BY <1>0, <2>1
  <2> QED
    BY <1>00, <2>2, <2>3, <2>4, Moved DEF Writing, Steady, KeysResolve, Known
<1>12. CASE ProcessEnds(p)
  BY <1>12, <1>00, ClosedKeys DEF ProcessEnds, Steady, KeysResolve, Known
<1> QED
  BY <1>1, <1>2, <1>3, <1>4, <1>5, <1>6, <1>7, <1>8, <1>9, <1>10, <1>11, <1>12
     DEF ProcStep, AppendStep, SealStep

LEMMA KeyStep == OneTool /\ KeyInv /\ [Next]_vars => KeyInv'
<1> SUFFICES ASSUME OneTool, KeyInv, [Next]_vars PROVE KeyInv'
  OBVIOUS
<1> USE DEF KeyInv, Shape
<1>1. ASSUME NEW p \in Procs, ProcStep(p) PROVE KeyInv'
  BY <1>1, ProcessKeys DEF Steady, ToolShape, KeysShape, Known, ReadIsCurrent
<1>2. ASSUME NEW t \in Tools, ToolStep(t) PROVE KeyInv'
  <2>1. UNCHANGED <<proc, acked, sealed>>
    BY <1>2 DEF ToolStep, ReadKeys, Rotate, Revoke, KeyCommandEnds
  <2> QED
    BY <1>2, <2>1, KeyCommands DEF ProcShape, SnapshotKnown, KeysResolve
<1>3. CASE PowerLoss
  BY <1>3 DEF PowerLoss, Closed, NoCommand, ProcShape, ToolShape, KeysShape, Known, SnapshotKnown,
              Writing, ReadIsCurrent, KeysResolve
<1>4. CASE UNCHANGED vars
  BY <1>4 DEF vars, files, counts, ProcShape, ToolShape, KeysShape, Known, SnapshotKnown,
              ReadIsCurrent, KeysResolve
<1> QED
  BY <1>1, <1>2, <1>3, <1>4 DEF Next

(* Rotated keys verify history: with one key command at a time, the key of  *)
(* every acknowledged entry and block stays in the key manifest, whatever   *)
(* snapshot its process signed with and whatever failed (keystore.rs,       *)
(* rotate and revoke; ledger.rs, append; block.rs, seal).                   *)
THEOREM KeysCorrect == OneTool => (Spec => []KeysResolve)
<1> SUFFICES ASSUME OneTool PROVE Spec => []KeysResolve
  OBVIOUS
<1>1. Init => KeyInv
  BY InitKeys
<1>2. KeyInv /\ [Next]_vars => KeyInv'
  BY KeyStep
<1>3. KeyInv => KeysResolve
  BY DEF KeyInv
<1> QED
  BY <1>1, <1>2, <1>3, PTL DEF Spec

-----------------------------------------------------------------------------
(* The log and its manifest *)

\* A file as it was written: a sequence of texts, newlines and pieces.
FileShape(f) ==
    /\ f = [text |-> f.text, synced |-> f.synced]
    /\ \E S : f.text \in Seq(S)
    /\ f.synced \in 0..Len(f.text)

\* e is one of the first n things written to f.
Stored(e, f, n) == \E i \in 1..n : f.text[i] = e

\* A manifest counts no more than the texts among the first n, and its head is one.
Counted(m, f, n) ==
    /\ m.count \in Nat /\ m.count <= Rank(n, Texts(f))
    /\ m.count > 0 => \E i \in Texts(f) : i <= n /\ f.text[i].id = m.head

\* e is written in f where more texts are counted than the manifest m does.
Ahead(m, e, f) == \E i \in Texts(f) : f.text[i] = e /\ m.count < Rank(i, Texts(f))

\* The first n things of f are those of g.
SameTo(f, g, n) == n <= Len(g.text) /\ \A i \in 1..n : g.text[i] = f.text[i]

Appending == {"newline", "sync", "save"}

(* What an append wrote is in the log until its process ends; it is synced when   *)
(* the manifest is saved, and so is all that was acknowledged.  No manifest, in a  *)
(* process or on disk, counts a text that is not synced.                          *)
ItemWritten ==
    \A p \in Procs :
        /\ proc[p].pc \in Appending =>
              proc[p].item.kind = "entry" /\ Stored(proc[p].item, log, Len(log.text))
        /\ proc[p].pc = "save" => Stored(proc[p].item, log, log.synced)
AckedSynced == \A e \in acked : e.kind = "entry" /\ Stored(e, log, log.synced)
CountsSynced ==
    /\ Counted(man, log, log.synced)
    /\ \A p \in Procs :
          /\ proc[p].pc # "down" => Counted(proc[p].man, log, log.synced)
          /\ proc[p].pc \in {"newline", "sync"} => Ahead(proc[p].man, proc[p].item, log)

LogInv == FileShape(log) /\ ProcShape /\ ItemWritten /\ AckedSynced /\ CountsSynced

\* The positions of the texts of a file are finitely many, and among those of the file.
LEMMA TextsFinite ==
  ASSUME NEW f, FileShape(f)
  PROVE  /\ DOMAIN f.text = 1..Len(f.text) /\ Len(f.text) \in Nat
         /\ Texts(f) \in SUBSET Nat /\ Texts(f) \in SUBSET DOMAIN f.text
         /\ IsFiniteSet(Texts(f)) /\ Cardinality(Texts(f)) \in Nat
<1>1. PICK S : f.text \in Seq(S)
  BY DEF FileShape
<1>2. DOMAIN f.text = 1..Len(f.text) /\ Len(f.text) \in Nat
  BY <1>1
<1>3. Texts(f) \in SUBSET DOMAIN f.text
  BY DEF Texts
<1>4. Texts(f) \in SUBSET Nat
  BY <1>2, <1>3
<1>5. IsFiniteSet(Texts(f)) /\ Cardinality(Texts(f)) \in Nat
  BY <1>1, <1>3, PickLen
<1> QED
  BY <1>2, <1>3, <1>4, <1>5

\* What is counted up to a position grows with the position.
LEMMA RankUpTo ==
  ASSUME NEW f, FileShape(f), NEW k \in Nat, NEW n \in Nat, k <= n
  PROVE  /\ Rank(k, Texts(f)) \in Nat /\ Rank(n, Texts(f)) \in Nat
         /\ Rank(k, Texts(f)) <= Rank(n, Texts(f))
<1> DEFINE low == {j \in Texts(f) : j <= k}
<1> DEFINE high == {j \in Texts(f) : j <= n}
<1>1. \A j \in Texts(f) : j <= k => j <= n
  BY TextsFinite
<1>2. low \in SUBSET high /\ high \in SUBSET Texts(f)
  BY <1>1
<1> HIDE DEF low, high
<1>3. IsFiniteSet(high) /\ IsFiniteSet(low)
  BY <1>2, TextsFinite, FS_Subset
<1>4. Cardinality(high) \in Nat /\ Cardinality(low) \in Nat
  BY <1>3, FS_CardinalityType
<1>5. Cardinality(low) <= Cardinality(high)
  BY <1>2, <1>3, FS_Subset
<1> QED
  BY <1>4, <1>5 DEF Rank, low, high

\* Where two files are the same they count the same.
LEMMA RankSame ==
  ASSUME NEW f, NEW g, FileShape(f), FileShape(g), NEW n \in 0..Len(f.text), SameTo(f, g, n),
         NEW k \in 0..n
  PROVE  Rank(k, Texts(f)) = Rank(k, Texts(g))
<1>1. \A j \in Nat : j <= k => (j \in Texts(f) <=> j \in Texts(g))
  BY TextsFinite DEF Texts, SameTo
<1>2. {j \in Texts(f) : j <= k} = {j \in Texts(g) : j <= k}
  BY <1>1, TextsFinite
<1> QED
  BY <1>2 DEF Rank

\* A manifest that is covered by what stays of a log remains covered.
LEMMA CountedStays ==
  ASSUME NEW f, NEW g, FileShape(f), FileShape(g), NEW n \in 0..Len(f.text), SameTo(f, g, n),
         NEW k \in n..Len(g.text), NEW m, Counted(m, f, n)
  PROVE  Counted(m, g, k)
<1>1. n \in Nat /\ k \in Nat /\ n <= k
  BY TextsFinite
<1>2. Rank(n, Texts(g)) = Rank(n, Texts(f))
  BY <1>1, RankSame
<1>3. Rank(n, Texts(g)) <= Rank(k, Texts(g)) /\ Rank(n, Texts(g)) \in Nat /\ Rank(k, Texts(g)) \in Nat
  BY <1>1, RankUpTo
<1>4. m.count <= Rank(k, Texts(g))
  BY <1>2, <1>3 DEF Counted
<1>5. ASSUME NEW i \in Texts(f), i <= n PROVE i \in Texts(g) /\ i <= k /\ g.text[i] = f.text[i]
  BY <1>1, <1>5, TextsFinite DEF Texts, SameTo
<1> QED
  BY <1>4, <1>5 DEF Counted

\* What is written stays so in a file that begins the same way.
LEMMA StoredStays ==
  ASSUME NEW f, NEW g, FileShape(f), FileShape(g), NEW n \in 0..Len(f.text), SameTo(f, g, n),
         NEW k \in n..Len(g.text), NEW e, Stored(e, f, n)
  PROVE  Stored(e, g, k)
BY TextsFinite DEF Stored, SameTo

\* A text the manifest does not count yet stays so when the file grows.
LEMMA AheadStays ==
  ASSUME NEW f, NEW g, FileShape(f), FileShape(g), SameTo(f, g, Len(f.text)),
         NEW m, NEW e, Ahead(m, e, f)
  PROVE  Ahead(m, e, g)
<1>1. PICK i \in Texts(f) : f.text[i] = e /\ m.count < Rank(i, Texts(f))
  BY DEF Ahead
<1>2. i \in 1..Len(f.text) /\ Len(f.text) \in 0..Len(f.text)
  BY TextsFinite
<1>3. Rank(i, Texts(g)) = Rank(i, Texts(f))
  BY <1>2, RankSame
<1>4. i \in Texts(g) /\ g.text[i] = e
  BY <1>1, <1>2, TextsFinite DEF Texts, SameTo
<1> QED
  BY <1>1, <1>3, <1>4 DEF Ahead

\* Writing behind a file leaves what it was.
LEMMA Written ==
  ASSUME NEW f, FileShape(f), NEW t
  PROVE  /\ FileShape(Write(f, t)) /\ SameTo(f, Write(f, t), Len(f.text))
         /\ Write(f, t).synced = f.synced
         /\ Len(Write(f, t).text) = Len(f.text) + 1
         /\ Write(f, t).text[Len(f.text) + 1] = t
<1>1. PICK S : f.text \in Seq(S)
  BY DEF FileShape
<1>2. /\ Write(f, t) = [text |-> Append(f.text, t), synced |-> f.synced]
  BY DEF FileShape, Write
<1>3. /\ Append(f.text, t) \in Seq(S \cup {t})
      /\ Len(Append(f.text, t)) = Len(f.text) + 1
      /\ Append(f.text, t)[Len(f.text) + 1] = t
      /\ \A i \in 1..Len(f.text) : Append(f.text, t)[i] = f.text[i]
      /\ Len(f.text) \in Nat
  BY <1>1
<1> QED
  BY <1>2, <1>3 DEF FileShape, SameTo

\* p takes another step of its own; the six fields of it are given.
LEMMA ShapeStays ==
  ASSUME ProcShape, NEW p \in Procs, Only(p),
         NEW pc, NEW m, NEW chain, NEW blocks, NEW key, NEW item,
         proc'[p] = [pc |-> pc, man |-> m, chain |-> chain, blocks |-> blocks,
                     key |-> key, item |-> item]
  PROVE  ProcShape'
<1>1. proc'[p] = [pc |-> proc'[p].pc, man |-> proc'[p].man, chain |-> proc'[p].chain,
                  blocks |-> proc'[p].blocks, key |-> proc'[p].key, item |-> proc'[p].item]
  OBVIOUS
<1> QED
  BY <1>1 DEF ProcShape, Only

\* A step of p outside an append: it leaves the log and the manifest alone, and holds
\* a manifest it had or has just read.
Aside(p) ==
    /\ UNCHANGED <<log, man, acked>> /\ Only(p) /\ ProcShape'
    /\ proc'[p].pc \notin Appending
    /\ \/ proc'[p].pc = "down"
       \/ proc'[p].man = man
       \/ proc[p].pc # "down" /\ proc'[p].man = proc[p].man

\* Opening the ledger and ending are steps outside an append.
LEMMA OpenAside ==
  ASSUME ProcShape, NEW p \in Procs, OpenStore(p) \/ OpenLedger(p) \/ ProcessEnds(p)
  PROVE  Aside(p)
<1>0. /\ proc = [q \in Procs |-> proc[q]]
      /\ proc[p] = [pc |-> proc[p].pc, man |-> proc[p].man, chain |-> proc[p].chain,
                    blocks |-> proc[p].blocks, key |-> proc[p].key, item |-> proc[p].item]
  BY DEF ProcShape
<1> USE DEF files, counts, Appending
<1>1. CASE OpenStore(p)
  <2>1. UNCHANGED <<log, man, acked>>
    BY <1>1 DEF OpenStore
  <2>2. ProcShape'
    BY <1>1 DEF OpenStore, Closed, ProcShape
  <2>3. Only(p)
    BY <1>0, <1>1 DEF OpenStore, Only
  <2>4. proc'[p].pc = "opening" /\ proc'[p].man = man
    BY <1>0, <1>1 DEF OpenStore, Closed
  <2> QED
    BY <2>1, <2>2, <2>3, <2>4 DEF Aside
<1>2. ASSUME proc' = [proc EXCEPT ![p] = Closed], UNCHANGED <<log, man, acked>>
      PROVE  Aside(p)
  <2>1. Only(p) /\ proc'[p] = Closed
    BY <1>0, <1>2 DEF Only
  <2> DEFINE c == ChainOf(<<>>)
  <2>2. Closed = [pc |-> "down", man |-> NoManifest, chain |-> c, blocks |-> <<>>,
                  key |-> FirstKeys.active, item |-> NoItem]
    BY DEF Closed
  <2> HIDE DEF c
  <2> QED
    BY <1>2, <2>1, <2>2, ShapeStays DEF Aside
<1>3. CASE OpenLedger(p)
  <2> DEFINE c == ChainOf(Lines(log))
  <2> DEFINE bs == Lines(blk)
  <2> HIDE DEF c, bs
  <2>1. proc[p].pc = "opening" /\ UNCHANGED <<log, man, acked>>
    BY <1>3 DEF OpenLedger
  <2>2. CASE proc' = [proc EXCEPT ![p] = [@ EXCEPT !.pc = "ready", !.chain = c, !.blocks = bs]]
    <3>1. Only(p)
      BY <1>0, <2>2 DEF Only
    <3>2. proc'[p] = [pc |-> "ready", man |-> proc[p].man, chain |-> c, blocks |-> bs,
                      key |-> proc[p].key, item |-> proc[p].item]
      BY <1>0, <2>2
    <3> QED
      BY <2>1, <3>1, <3>2, ShapeStays DEF Aside
  <2> QED
    BY <1>3, <1>2, <2>1, <2>2 DEF OpenLedger, c, bs
<1>4. CASE ProcessEnds(p)
  BY <1>2, <1>4 DEF ProcessEnds
<1> QED
  BY <1>1, <1>3, <1>4

\* So are the steps of a seal, and a call that fails.
LEMMA SealAside ==
  ASSUME ProcShape, NEW p \in Procs, SealStep(p) \/ LaterCallFails(p)
  PROVE  Aside(p)
<1>0. /\ proc = [q \in Procs |-> proc[q]]
      /\ proc[p] = [pc |-> proc[p].pc, man |-> proc[p].man, chain |-> proc[p].chain,
                    blocks |-> proc[p].blocks, key |-> proc[p].key, item |-> proc[p].item]
  BY DEF ProcShape
<1> USE DEF files, counts, Appending
<1>1. ASSUME NEW pc, NEW bs, NEW item, Only(p), UNCHANGED <<log, man, acked>>,
             proc[p].pc # "down", pc \notin Appending,
             proc'[p] = [pc |-> pc, man |-> proc[p].man, chain |-> proc[p].chain,
                         blocks |-> bs, key |-> proc[p].key, item |-> item]
      PROVE  Aside(p)
  BY <1>1, ShapeStays DEF Aside
<1>2. CASE SealText(p)
  <2> DEFINE b == Block(bids + 1, Unsealed(p), proc[p].blocks, proc[p].key)
  <2> HIDE DEF b
  <2>1. /\ proc' = [proc EXCEPT ![p].pc = "bnewline", ![p].item = b]
        /\ proc[p].pc = "ready" /\ UNCHANGED <<log, man, acked>>
    BY <1>2 DEF SealText, b
  <2>2. Only(p)
    BY <1>0, <2>1 DEF Only
  <2>3. proc'[p] = [pc |-> "bnewline", man |-> proc[p].man, chain |-> proc[p].chain,
                    blocks |-> proc[p].blocks, key |-> proc[p].key, item |-> b]
    BY <1>0, <2>1
  <2> QED
    BY <1>1, <2>1, <2>2, <2>3
<1>3. CASE SealNewLine(p)
  <2>1. /\ proc' = [proc EXCEPT ![p].pc = "bsync"]
        /\ proc[p].pc = "bnewline" /\ UNCHANGED <<log, man, acked>>
    BY <1>3 DEF SealNewLine, To
  <2>2. Only(p)
    BY <1>0, <2>1 DEF Only
  <2>3. proc'[p] = [pc |-> "bsync", man |-> proc[p].man, chain |-> proc[p].chain,
                    blocks |-> proc[p].blocks, key |-> proc[p].key, item |-> proc[p].item]
    BY <1>0, <2>1
  <2> QED
    BY <1>1, <2>1, <2>2, <2>3
<1>4. CASE SealSync(p)
  <2> DEFINE bs == Append(proc[p].blocks, proc[p].item)
  <2> HIDE DEF bs
  <2>1. /\ proc' = [[proc EXCEPT ![p].pc = "ready", ![p].item = NoItem] EXCEPT ![p].blocks = bs]
        /\ proc[p].pc = "bsync" /\ UNCHANGED <<log, man, acked>>
    BY <1>4 DEF SealSync, BackToReady, bs
  <2>2. Only(p)
    BY <1>0, <2>1 DEF Only
  <2>3. proc'[p] = [pc |-> "ready", man |-> proc[p].man, chain |-> proc[p].chain,
                    blocks |-> bs, key |-> proc[p].key, item |-> NoItem]
    BY <1>0, <2>1
  <2> QED
    BY <1>1, <2>1, <2>2, <2>3
<1>5. CASE SealTextFails(p)
  <2>1. proc' = proc /\ proc[p].pc = "ready" /\ UNCHANGED <<log, man, acked>>
    BY <1>5 DEF SealTextFails
  <2> QED
    BY <1>0, <2>1 DEF Aside, Only, ProcShape
<1>6. CASE LaterCallFails(p)
  <2>1. /\ proc' = [proc EXCEPT ![p].pc = "ready", ![p].item = NoItem]
        /\ proc[p].pc # "down" /\ UNCHANGED <<log, man, acked>>
    BY <1>6 DEF LaterCallFails, BackToReady
  <2>2. Only(p)
    BY <1>0, <2>1 DEF Only
  <2>3. proc'[p] = [pc |-> "ready", man |-> proc[p].man, chain |-> proc[p].chain,
                    blocks |-> proc[p].blocks, key |-> proc[p].key, item |-> NoItem]
    BY <1>0, <2>1
  <2> QED
    BY <1>1, <2>1, <2>2, <2>3
<1> QED
  BY <1>2, <1>3, <1>4, <1>5, <1>6 DEF SealStep

\* What must be true of process q after a step, with the log it leaves.
Knows(q) ==
    /\ proc'[q].pc \in Appending =>
          /\ proc'[q].item.kind = "entry"
          /\ Stored(proc'[q].item, log', Len(log'.text))
    /\ proc'[q].pc = "save" => Stored(proc'[q].item, log', log'.synced)
    /\ proc'[q].pc # "down" => Counted(proc'[q].man, log', log'.synced)
    /\ proc'[q].pc \in {"newline", "sync"} => Ahead(proc'[q].man, proc'[q].item, log')

\* The invariant after a step, with the values of the files written out.
LEMMA AfterStep ==
  ASSUME FileShape(log'), ProcShape',
         \A q \in Procs : Knows(q),
         \A e \in acked' : e.kind = "entry" /\ Stored(e, log', log'.synced),
         Counted(man', log', log'.synced)
  PROVE  LogInv'
<1>1. FileShape(log)'
  BY DEF FileShape
<1>2. ItemWritten' /\ AckedSynced'
  BY DEF Knows, ItemWritten, AckedSynced, Stored
<1>3. CountsSynced'
  BY DEF Knows, CountsSynced, Counted, Ahead, Rank, Texts, IsText
<1> QED
  BY <1>1, <1>2, <1>3 DEF LogInv

\* They keep what is known of the log.
LEMMA AsideKeeps ==
  ASSUME LogInv, NEW p \in Procs, Aside(p)
  PROVE  LogInv'
<1>1. /\ log' = log /\ man' = man /\ acked' = acked /\ ProcShape'
      /\ \A q \in Procs \ {p} : proc'[q] = proc[q]
  BY DEF Aside, Only
<1>2. FileShape(log') /\ Counted(man', log', log'.synced)
  BY <1>1 DEF LogInv, CountsSynced
<1>3. \A e \in acked' : e.kind = "entry" /\ Stored(e, log', log'.synced)
  BY <1>1 DEF LogInv, AckedSynced
<1>4. ASSUME NEW q \in Procs PROVE Knows(q)
  <2>1. CASE q # p
    BY <1>1, <2>1 DEF Knows, LogInv, ItemWritten, CountsSynced
  <2>2. CASE q = p
    BY <1>1, <2>2 DEF Knows, LogInv, CountsSynced, Aside, Appending
  <2> QED
    BY <2>1, <2>2
<1> QED
  BY <1>1, <1>2, <1>3, <1>4, AfterStep

\* What a growing log keeps, whoever knows it.
LEMMA LogGrows ==
  ASSUME FileShape(log), FileShape(log'), SameTo(log, log', Len(log.text)),
         log.synced <= log'.synced
  PROVE  /\ \A m : Counted(m, log, log.synced) => Counted(m, log', log'.synced)
         /\ \A e : Stored(e, log, Len(log.text)) => Stored(e, log', Len(log'.text))
         /\ \A e : Stored(e, log, log.synced) => Stored(e, log', log'.synced)
         /\ \A m, e : Ahead(m, e, log) => Ahead(m, e, log')
<1>1. /\ log.synced \in 0..Len(log.text) /\ log'.synced \in 0..Len(log'.text)
      /\ Len(log.text) \in Nat /\ Len(log'.text) \in Nat
  BY TextsFinite DEF FileShape
<1>2. Len(log.text) <= Len(log'.text) /\ SameTo(log, log', log.synced)
  BY <1>1 DEF SameTo
<1>3. log'.synced \in log.synced..Len(log'.text) /\ Len(log'.text) \in Len(log.text)..Len(log'.text)
      /\ Len(log.text) \in 0..Len(log.text)
  BY <1>1, <1>2
<1>4. ASSUME NEW m, Counted(m, log, log.synced) PROVE Counted(m, log', log'.synced)
  BY <1>1, <1>2, <1>3, <1>4, CountedStays
<1>5. ASSUME NEW e, Stored(e, log, Len(log.text)) PROVE Stored(e, log', Len(log'.text))
  BY <1>3, <1>5, StoredStays
<1>6. ASSUME NEW e, Stored(e, log, log.synced) PROVE Stored(e, log', log'.synced)
  BY <1>1, <1>2, <1>3, <1>6, StoredStays
<1>7. ASSUME NEW m, NEW e, Ahead(m, e, log) PROVE Ahead(m, e, log')
  BY <1>7, AheadStays
<1> QED
  BY <1>4, <1>5, <1>6, <1>7

\* A step that writes to the log, or syncs it, keeps what the other processes know.
LEMMA OthersKeep ==
  ASSUME LogInv, FileShape(log'), SameTo(log, log', Len(log.text)), log.synced <= log'.synced,
         NEW q \in Procs, proc'[q] = proc[q]
  PROVE  Knows(q)
BY LogGrows DEF Knows, LogInv, ItemWritten, CountsSynced

LEMMA AppendTextLog ==
  ASSUME LogInv, NEW p \in Procs, NEW run \in Runs, AppendText(p, run)
  PROVE  LogInv'
<1>0. /\ proc = [q \in Procs |-> proc[q]]
      /\ proc[p] = [pc |-> proc[p].pc, man |-> proc[p].man, chain |-> proc[p].chain,
                    blocks |-> proc[p].blocks, key |-> proc[p].key, item |-> proc[p].item]
      /\ ProcShape /\ FileShape(log)
  BY DEF LogInv, ProcShape
<1> DEFINE e == Entry(ids + 1, run, proc[p].chain, proc[p].key)
<1>1. e.kind = "entry"
  BY DEF Entry
<1>2. /\ proc[p].pc = "ready" /\ log' = Write(log, e) /\ UNCHANGED <<man, acked>>
      /\ proc' = [proc EXCEPT ![p].pc = "newline", ![p].item = e]
  BY DEF AppendText
<1> HIDE DEF e
<1>3. Only(p)
  BY <1>0, <1>2 DEF Only
<1>4. proc'[p] = [pc |-> "newline", man |-> proc[p].man, chain |-> proc[p].chain,
                  blocks |-> proc[p].blocks, key |-> proc[p].key, item |-> e]
  BY <1>0, <1>2
<1>5. ProcShape'
  BY <1>0, <1>3, <1>4, ShapeStays
<1> DEFINE i == Len(log.text) + 1
<1>6. /\ FileShape(log') /\ SameTo(log, log', Len(log.text)) /\ log'.synced = log.synced
      /\ Len(log'.text) = i /\ log'.text[i] = e
  BY <1>0, <1>2, Written
<1>7. log.synced \in Nat /\ log.synced <= Len(log.text) /\ Len(log.text) \in Nat
  BY <1>0, TextsFinite DEF FileShape
<1>8. /\ Counted(man', log', log'.synced) /\ Counted(proc'[p].man, log', log'.synced)
      /\ \A x \in acked' : x.kind = "entry" /\ Stored(x, log', log'.synced)
  BY <1>0, <1>2, <1>4, <1>6, <1>7, LogGrows DEF LogInv, CountsSynced, AckedSynced
<1>9. i \in Texts(log')
  BY <1>1, <1>6, <1>7, TextsFinite DEF Texts, IsText
<1>10. Rank(log'.synced, Texts(log')) < Rank(i, Texts(log'))
  BY <1>6, <1>7, <1>9, TextsFinite, RankGrows
<1>11. /\ Rank(log'.synced, Texts(log')) \in Nat /\ Rank(i, Texts(log')) \in Nat
       /\ proc'[p].man.count \in Nat
  BY <1>6, <1>7, <1>8, RankUpTo, SMTT(20) DEF Counted
<1>12. proc'[p].man.count < Rank(i, Texts(log'))
  BY <1>8, <1>10, <1>11 DEF Counted
<1>13. Ahead(proc'[p].man, proc'[p].item, log')
  BY <1>4, <1>6, <1>9, <1>12 DEF Ahead
<1>14. Stored(proc'[p].item, log', Len(log'.text)) /\ proc'[p].item.kind = "entry"
  BY <1>1, <1>4, <1>6, <1>7 DEF Stored
<1>15. ASSUME NEW q \in Procs PROVE Knows(q)
  <2>1. CASE q # p
    BY <1>3, <1>6, <1>7, <2>1, OthersKeep DEF Only
  <2>2. CASE q = p
    BY <1>4, <1>8, <1>13, <1>14, <2>2 DEF Knows
  <2> QED
    BY <2>1, <2>2
<1> QED
  BY <1>5, <1>6, <1>8, <1>15, AfterStep

LEMMA AppendNewLineLog ==
  ASSUME LogInv, NEW p \in Procs, AppendNewLine(p)
  PROVE  LogInv'
<1>0. /\ proc = [q \in Procs |-> proc[q]]
      /\ proc[p] = [pc |-> proc[p].pc, man |-> proc[p].man, chain |-> proc[p].chain,
                    blocks |-> proc[p].blocks, key |-> proc[p].key, item |-> proc[p].item]
      /\ ProcShape /\ FileShape(log)
  BY DEF LogInv, ProcShape
<1>2. /\ proc[p].pc = "newline" /\ log' = Write(log, NewLine) /\ UNCHANGED <<man, acked>>
      /\ proc' = [proc EXCEPT ![p].pc = "sync"]
  BY DEF AppendNewLine, To
<1>3. Only(p)
  BY <1>0, <1>2 DEF Only
<1>4. proc'[p] = [pc |-> "sync", man |-> proc[p].man, chain |-> proc[p].chain,
                  blocks |-> proc[p].blocks, key |-> proc[p].key, item |-> proc[p].item]
  BY <1>0, <1>2
<1>5. ProcShape'
  BY <1>0, <1>3, <1>4, ShapeStays
<1>6. FileShape(log') /\ SameTo(log, log', Len(log.text)) /\ log'.synced = log.synced
  BY <1>0, <1>2, Written
<1>7. log.synced \in Nat
  BY <1>0, TextsFinite DEF FileShape
<1>8. /\ Counted(man', log', log'.synced) /\ Counted(proc'[p].man, log', log'.synced)
      /\ Stored(proc'[p].item, log', Len(log'.text)) /\ proc'[p].item.kind = "entry"
      /\ Ahead(proc'[p].man, proc'[p].item, log')
      /\ \A x \in acked' : x.kind = "entry" /\ Stored(x, log', log'.synced)
  BY <1>0, <1>2, <1>4, <1>6, <1>7, LogGrows
     DEF LogInv, CountsSynced, AckedSynced, ItemWritten, Appending
<1>9. ASSUME NEW q \in Procs PROVE Knows(q)
  <2>1. CASE q # p
    BY <1>3, <1>6, <1>7, <2>1, OthersKeep DEF Only
  <2>2. CASE q = p
    BY <1>4, <1>8, <2>2 DEF Knows
  <2> QED
    BY <2>1, <2>2
<1> QED
  BY <1>5, <1>6, <1>8, <1>9, AfterStep

LEMMA AppendSyncLog ==
  ASSUME LogInv, NEW p \in Procs, AppendSync(p)
  PROVE  LogInv'
<1>0. /\ proc = [q \in Procs |-> proc[q]]
      /\ proc[p] = [pc |-> proc[p].pc, man |-> proc[p].man, chain |-> proc[p].chain,
                    blocks |-> proc[p].blocks, key |-> proc[p].key, item |-> proc[p].item]
      /\ ProcShape /\ FileShape(log)
  BY DEF LogInv, ProcShape
<1> DEFINE m == [count |-> proc[p].man.count + 1, head |-> proc[p].item.id]
<1> HIDE DEF m
<1>1. proc[p].pc = "sync" /\ log' = AllSynced(log) /\ UNCHANGED <<man, acked>>
  BY DEF AppendSync
<1>2. proc' = [proc EXCEPT ![p].pc = "save", ![p].man = m]
  BY <1>0 DEF AppendSync, m
<1>3. Only(p)
  BY <1>0, <1>2 DEF Only
<1>4. proc'[p] = [pc |-> "save", man |-> m, chain |-> proc[p].chain,
                  blocks |-> proc[p].blocks, key |-> proc[p].key, item |-> proc[p].item]
  BY <1>0, <1>2
<1>5. ProcShape'
  BY <1>0, <1>3, <1>4, ShapeStays
<1>6. /\ log' = [text |-> log.text, synced |-> Len(log.text)]
      /\ Len(log.text) \in Nat /\ log.synced \in Nat /\ log.synced <= Len(log.text)
  BY <1>0, <1>1, TextsFinite DEF AllSynced, FileShape
<1>7. /\ FileShape(log') /\ SameTo(log, log', Len(log.text)) /\ log.synced <= log'.synced
      /\ log'.synced = Len(log'.text)
  BY <1>0, <1>6 DEF FileShape, SameTo
<1>8. /\ Counted(proc[p].man, log, log.synced) /\ Ahead(proc[p].man, proc[p].item, log)
      /\ Stored(proc[p].item, log, Len(log.text)) /\ proc[p].item.kind = "entry"
  BY <1>1 DEF LogInv, CountsSynced, ItemWritten, Appending
<1>9. /\ Counted(man', log', log'.synced) /\ Ahead(proc[p].man, proc[p].item, log')
      /\ Stored(proc[p].item, log', Len(log'.text))
      /\ \A x \in acked' : x.kind = "entry" /\ Stored(x, log', log'.synced)
  BY <1>0, <1>1, <1>7, <1>8, LogGrows DEF LogInv, CountsSynced, AckedSynced
<1>10. PICK i \in Texts(log') : log'.text[i] = proc[p].item /\ proc[p].man.count < Rank(i, Texts(log'))
  BY <1>9 DEF Ahead
<1>11. i \in Nat /\ i <= log'.synced /\ log'.synced \in Nat
  BY <1>7, TextsFinite
<1>12. /\ Rank(i, Texts(log')) <= Rank(log'.synced, Texts(log')) /\ Rank(i, Texts(log')) \in Nat
       /\ Rank(log'.synced, Texts(log')) \in Nat /\ proc[p].man.count \in Nat
  BY <1>7, <1>8, <1>11, RankUpTo DEF Counted
<1>13. m.count \in Nat /\ m.count <= Rank(log'.synced, Texts(log')) /\ m.head = log'.text[i].id
  BY <1>10, <1>12 DEF m
<1>14. Counted(m, log', log'.synced)
  BY <1>11, <1>13 DEF Counted
<1>15. ASSUME NEW q \in Procs PROVE Knows(q)
  <2>1. CASE q # p
    BY <1>3, <1>7, <2>1, OthersKeep DEF Only
  <2>2. CASE q = p
    BY <1>4, <1>7, <1>8, <1>9, <1>14, <2>2 DEF Knows
  <2> QED
    BY <2>1, <2>2
<1> QED
  BY <1>5, <1>7, <1>9, <1>15, AfterStep

LEMMA AppendSaveLog ==
  ASSUME LogInv, NEW p \in Procs, AppendSave(p)
  PROVE  LogInv'
<1>0. /\ proc = [q \in Procs |-> proc[q]]
      /\ proc[p] = [pc |-> proc[p].pc, man |-> proc[p].man, chain |-> proc[p].chain,
                    blocks |-> proc[p].blocks, key |-> proc[p].key, item |-> proc[p].item]
      /\ ProcShape /\ FileShape(log)
  BY DEF LogInv, ProcShape
<1> DEFINE c == Advance(proc[p].chain, proc[p].item)
<1> HIDE DEF c
<1>1. proc' = [[proc EXCEPT ![p].pc = "ready", ![p].item = NoItem] EXCEPT ![p].chain = c]
  BY <1>0 DEF AppendSave, BackToReady, c
<1>2. /\ proc[p].pc = "save" /\ log' = log /\ man' = proc[p].man
      /\ acked' = acked \cup {proc[p].item}
  BY DEF AppendSave
<1>3. Only(p)
  BY <1>0, <1>1 DEF Only
<1>4. proc'[p] = [pc |-> "ready", man |-> proc[p].man, chain |-> c,
                  blocks |-> proc[p].blocks, key |-> proc[p].key, item |-> NoItem]
  BY <1>0, <1>1
<1>5. ProcShape'
  BY <1>0, <1>3, <1>4, ShapeStays
<1>6. FileShape(log') /\ Counted(man', log', log'.synced)
  BY <1>0, <1>2 DEF LogInv, CountsSynced
<1>7. \A x \in acked' : x.kind = "entry" /\ Stored(x, log', log'.synced)
  BY <1>2 DEF LogInv, AckedSynced, ItemWritten, Appending
<1>8. ASSUME NEW q \in Procs PROVE Knows(q)
  <2>1. CASE q # p
    BY <1>2, <1>3, <2>1 DEF Only, Knows, LogInv, ItemWritten, CountsSynced
  <2>2. CASE q = p
    BY <1>2, <1>4, <1>6, <2>2 DEF Knows, Appending
  <2> QED
    BY <2>1, <2>2
<1> QED
  BY <1>5, <1>6, <1>7, <1>8, AfterStep

LEMMA AppendTextFailsLog ==
  ASSUME LogInv, NEW p \in Procs, AppendTextFails(p)
  PROVE  LogInv'
<1>1. ProcShape /\ FileShape(log) /\ log.synced \in Nat /\ Len(log.text) \in Nat
  BY TextsFinite DEF LogInv, FileShape
<1>2. (log' = log \/ log' = Write(log, Piece)) /\ proc' = proc /\ UNCHANGED <<man, acked>>
  BY DEF AppendTextFails
<1>3. FileShape(log') /\ SameTo(log, log', Len(log.text)) /\ log.synced <= log'.synced
  BY <1>1, <1>2, Written DEF SameTo
<1>4. Counted(man', log', log'.synced)
      /\ \A x \in acked' : x.kind = "entry" /\ Stored(x, log', log'.synced)
  BY <1>1, <1>2, <1>3, LogGrows DEF LogInv, CountsSynced, AckedSynced
<1>5. \A q \in Procs : Knows(q)
  BY <1>2, <1>3, OthersKeep
<1>6. ProcShape'
  BY <1>1, <1>2 DEF ProcShape
<1> QED
  BY <1>3, <1>4, <1>5, <1>6, AfterStep

\* What a loss of power leaves of a file keeps what is synced, and has no new text.
LEMMA CutShape ==
  ASSUME NEW f, FileShape(f), NEW g \in Cuts(f)
  PROVE  /\ FileShape(g) /\ f.synced <= g.synced /\ g.synced = Len(g.text)
         /\ SameTo(f, g, f.synced)
         /\ \A i \in Texts(g) : i \in Texts(f) /\ g.text[i] = f.text[i]
<1>1. f.synced \in Nat /\ Len(f.text) \in Nat /\ f.synced <= Len(f.text)
  BY TextsFinite DEF FileShape
<1>2. PICK S : f.text \in Seq(S)
  BY DEF FileShape
<1>3. PICK n \in f.synced..Len(f.text) :
         \/ g = [text |-> SubSeq(f.text, 1, n), synced |-> Len(SubSeq(f.text, 1, n))]
         \/ g = [text |-> Append(SubSeq(f.text, 1, n), Piece),
                 synced |-> Len(Append(SubSeq(f.text, 1, n), Piece))]
  BY <1>1 DEF Cuts
<1>4. /\ SubSeq(f.text, 1, n) \in Seq(S) /\ Len(SubSeq(f.text, 1, n)) = n
      /\ \A i \in 1..n : SubSeq(f.text, 1, n)[i] = f.text[i]
  BY <1>1, <1>2
<1>5. /\ Append(SubSeq(f.text, 1, n), Piece) \in Seq(S \cup {Piece})
      /\ Len(Append(SubSeq(f.text, 1, n), Piece)) = n + 1
      /\ Append(SubSeq(f.text, 1, n), Piece)[n + 1] = Piece
      /\ \A i \in 1..n : Append(SubSeq(f.text, 1, n), Piece)[i] = f.text[i]
  BY <1>1, <1>4
<1>6. ASSUME NEW t, NEW T, t \in Seq(T), n <= Len(t), Len(t) <= n + 1,
             \A i \in 1..n : t[i] = f.text[i], Len(t) = n + 1 => t[n + 1] = Piece,
             g = [text |-> t, synced |-> Len(t)]
      PROVE  /\ FileShape(g) /\ f.synced <= g.synced /\ g.synced = Len(g.text)
             /\ SameTo(f, g, f.synced)
             /\ \A i \in Texts(g) : i \in Texts(f) /\ g.text[i] = f.text[i]
  <2>1. g.text = t /\ g.synced = Len(t) /\ Len(t) \in Nat /\ DOMAIN t = 1..Len(t)
    BY <1>6
  <2>2. FileShape(g)
    BY <1>6, <2>1 DEF FileShape
  <2>3. SameTo(f, g, f.synced) /\ f.synced <= g.synced
    BY <1>1, <1>6, <2>1 DEF SameTo
  <2>4. ASSUME NEW i \in Texts(g) PROVE i \in Texts(f) /\ g.text[i] = f.text[i]
    <3>1. i \in 1..Len(t) /\ IsText(t[i])
      BY <2>1 DEF Texts
    <3>2. i # n + 1
      BY <1>1, <1>6, <2>1, <3>1 DEF IsText, Piece
    <3>3. i \in 1..n /\ i \in DOMAIN f.text
      BY <1>1, <1>2, <1>6, <2>1, <3>1, <3>2
    <3> QED
      BY <1>6, <2>1, <3>1, <3>3 DEF Texts
  <2> QED
    BY <2>1, <2>2, <2>3, <2>4
<1>7. CASE g = [text |-> SubSeq(f.text, 1, n), synced |-> Len(SubSeq(f.text, 1, n))]
  <2> DEFINE t == SubSeq(f.text, 1, n)
  <2>1. /\ t \in Seq(S) /\ n <= Len(t) /\ Len(t) <= n + 1 /\ Len(t) # n + 1
        /\ \A i \in 1..n : t[i] = f.text[i]
    BY <1>1, <1>4, <1>7
  <2>2. g = [text |-> t, synced |-> Len(t)]
    BY <1>7
  <2> HIDE DEF t
  <2> QED
    BY <1>6, <2>1, <2>2
<1>8. CASE g = [text |-> Append(SubSeq(f.text, 1, n), Piece),
                synced |-> Len(Append(SubSeq(f.text, 1, n), Piece))]
  <2> DEFINE t == Append(SubSeq(f.text, 1, n), Piece)
  <2>1. /\ t \in Seq(S \cup {Piece}) /\ n <= Len(t) /\ Len(t) <= n + 1 /\ t[n + 1] = Piece
        /\ \A i \in 1..n : t[i] = f.text[i]
    BY <1>1, <1>5
  <2>2. g = [text |-> t, synced |-> Len(t)]
    BY <1>8
  <2> HIDE DEF t
  <2> QED
    BY <1>6, <2>1, <2>2
<1> QED
  BY <1>3, <1>7, <1>8

\* A loss of power keeps what is synced; nobody holds anything after it.
LEMMA PowerLossLog ==
  ASSUME LogInv, PowerLoss
  PROVE  LogInv'
<1>1. FileShape(log) /\ log.synced \in Nat /\ Len(log.text) \in Nat /\ log.synced <= Len(log.text)
  BY TextsFinite DEF LogInv, FileShape
<1>2. log' \in Cuts(log) /\ UNCHANGED <<man, acked>> /\ proc' = [p \in Procs |-> Closed]
  BY DEF PowerLoss
<1>3. /\ FileShape(log') /\ log'.synced = Len(log'.text) /\ log.synced <= log'.synced
      /\ SameTo(log, log', log.synced)
  BY <1>1, <1>2, CutShape
<1>4. log.synced \in 0..Len(log.text) /\ log'.synced \in log.synced..Len(log'.text)
  BY <1>1, <1>3, TextsFinite
<1>5. Counted(man', log', log'.synced)
  BY <1>1, <1>2, <1>3, <1>4, CountedStays DEF LogInv, CountsSynced
<1>6. \A x \in acked' : x.kind = "entry" /\ Stored(x, log', log'.synced)
  BY <1>1, <1>2, <1>3, <1>4, StoredStays DEF LogInv, AckedSynced
<1>7. ProcShape' /\ \A q \in Procs : Knows(q)
  BY <1>2 DEF Closed, ProcShape, Knows, Appending
<1> QED
  BY <1>3, <1>5, <1>6, <1>7, AfterStep

LEMMA LogStep == LogInv /\ [Next]_vars => LogInv'
<1> SUFFICES ASSUME LogInv, [Next]_vars PROVE LogInv'
  OBVIOUS
<1>0. ProcShape
  BY DEF LogInv
<1>1. ASSUME NEW p \in Procs, ProcStep(p) PROVE LogInv'
  BY <1>0, <1>1, OpenAside, SealAside, AsideKeeps, AppendTextLog, AppendNewLineLog,
     AppendSyncLog, AppendSaveLog, AppendTextFailsLog DEF ProcStep, AppendStep
<1>2. ASSUME UNCHANGED <<log, man, proc, acked>> PROVE LogInv'
  <2>1. FileShape(log') /\ Counted(man', log', log'.synced) /\ ProcShape'
        /\ \A x \in acked' : x.kind = "entry" /\ Stored(x, log', log'.synced)
    BY <1>2 DEF LogInv, CountsSynced, AckedSynced, ProcShape
  <2>2. \A q \in Procs : Knows(q)
    BY <1>2 DEF Knows, LogInv, ItemWritten, CountsSynced
  <2> QED
    BY <2>1, <2>2, AfterStep
<1>3. ASSUME NEW t \in Tools, ToolStep(t) PROVE LogInv'
  BY <1>2, <1>3 DEF ToolStep, ReadKeys, Rotate, Revoke, KeyCommandEnds, files
<1>4. CASE UNCHANGED vars
  BY <1>2, <1>4 DEF vars, files
<1> QED
  BY <1>1, <1>3, <1>4, PowerLossLog DEF Next

LEMMA InitLog == Init => LogInv
<1> SUFFICES ASSUME Init PROVE LogInv
  OBVIOUS
<1> USE DEF Init, Empty
<1>1. log.text = <<>> /\ log.synced = 0 /\ <<>> \in Seq({}) /\ Len(<<>>) = 0
  OBVIOUS
<1>2. FileShape(log)
  BY <1>1 DEF FileShape
<1>3. ProcShape
  BY DEF ProcShape, Closed
<1>4. ItemWritten /\ AckedSynced
  BY DEF ItemWritten, AckedSynced, Closed, Appending
<1>5. Rank(0, Texts(log)) \in Nat
  BY <1>2, RankUpTo
<1>6. CountsSynced
  BY <1>1, <1>5 DEF CountsSynced, Counted, Closed, NoManifest
<1> QED
  BY <1>2, <1>3, <1>4, <1>6 DEF LogInv

\* Every text of a file is one of its lines, and every line is one of its texts.
LEMMA TextsAreLines ==
  ASSUME NEW f, FileShape(f)
  PROVE  /\ \E S : Lines(f) \in Seq(S)
         /\ Len(Lines(f)) = Cardinality(Texts(f)) /\ Len(Lines(f)) \in Nat
         /\ \A i \in Texts(f) : \E n \in 1..Len(Lines(f)) : Lines(f)[n] = f.text[i]
         /\ \A n \in 1..Len(Lines(f)) : \E i \in Texts(f) : Lines(f)[n] = f.text[i]
<1>1. PICK S : f.text \in Seq(S)
  BY DEF FileShape
<1>2. /\ Lines(f) \in Seq(S) /\ Len(Lines(f)) = Cardinality(Texts(f))
      /\ Len(Lines(f)) \in Nat
  BY <1>1, TextsFinite, PickLen DEF Lines
<1>3. \A i \in Texts(f) : \E n \in 1..Len(Lines(f)) : Lines(f)[n] = f.text[i]
  BY <1>2, TextsFinite, PickHolds DEF Lines
<1>4. \A n \in 1..Len(Lines(f)) : \E i \in Texts(f) : Lines(f)[n] = f.text[i]
  BY <1>2, TextsFinite, PickFrom DEF Lines
<1> QED
  BY <1>2, <1>3, <1>4

(* An acknowledged append is never lost without notice: whatever was torn,    *)
(* repeated, joined by other processes or lost with the power, a log that      *)
(* Ledger::open accepts holds every acknowledged entry at its own number       *)
(* (store.rs, append syncs before it answers; ledger.rs, open checks the       *)
(* chain).                                                                     *)
THEOREM NoSilentLossCorrect == Spec => []NoSilentLoss
<1>1. LogInv => NoSilentLoss
  <2> SUFFICES ASSUME LogInv, Wired(Lines(log)), NEW e \in acked
               PROVE  e.seq < Len(Lines(log)) /\ Lines(log)[e.seq + 1] = e
    BY DEF NoSilentLoss
  <2>1. FileShape(log) /\ e.kind = "entry"
    BY DEF LogInv, AckedSynced
  <2>2. PICK i \in 1..log.synced : log.text[i] = e
    BY DEF LogInv, AckedSynced, Stored
  <2>3. i \in Texts(log)
    BY <2>1, <2>2, TextsFinite DEF FileShape, Texts, IsText
  <2>4. PICK S : Lines(log) \in Seq(S)
    BY <2>1, TextsAreLines
  <2>5. PICK n \in 1..Len(Lines(log)) : Lines(log)[n] = e
    BY <2>1, <2>2, <2>3, TextsAreLines
  <2>6. e.seq = Len(SubSeq(Lines(log), 1, n - 1))
    BY <2>5 DEF Wired, Extends, ChainOf
  <2>7. n \in Nat /\ n <= Len(Lines(log)) /\ Len(Lines(log)) \in Nat
    BY <2>4, <2>5
  <2>8. Len(SubSeq(Lines(log), 1, n - 1)) = n - 1
    BY <2>4, <2>5, <2>7
  <2> QED
    BY <2>5, <2>6, <2>7, <2>8
<1> QED
  BY <1>1, InitLog, LogStep, PTL DEF Spec

(* A crash never yields a manifest ahead of the log: whatever processes       *)
(* append, fail, are killed or lose their power, manifest.json counts no more  *)
(* entries than the log has, and its head is one of them (store.rs, append).   *)
THEOREM ManifestCorrect == Spec => []ManifestNotAhead
<1>1. LogInv => ManifestNotAhead
  <2> SUFFICES ASSUME LogInv
               PROVE  /\ man.count <= Len(Lines(log))
                      /\ man.count > 0 =>
                            \E n \in 1..Len(Lines(log)) : Lines(log)[n].id = man.head
    BY DEF ManifestNotAhead
  <2>1. FileShape(log) /\ Counted(man, log, log.synced)
    BY DEF LogInv, CountsSynced
  <2>2. log.synced \in Nat
    BY <2>1, TextsFinite DEF FileShape
  <2>3. Rank(log.synced, Texts(log)) \in 0..Cardinality(Texts(log))
    BY <2>1, <2>2, TextsFinite, RankType
  <2>4. man.count <= Len(Lines(log))
    BY <2>1, <2>3, TextsAreLines, TextsFinite DEF Counted
  <2>5. ASSUME man.count > 0
        PROVE  \E n \in 1..Len(Lines(log)) : Lines(log)[n].id = man.head
    <3>1. PICK i \in Texts(log) : log.text[i].id = man.head
      BY <2>1, <2>5 DEF Counted
    <3> QED
      BY <2>1, <3>1, TextsAreLines
  <2> QED
    BY <2>4, <2>5
<1> QED
  BY <1>1, InitLog, LogStep, PTL DEF Spec

-----------------------------------------------------------------------------
(* The verdict of verify *)

\* A text with a number, and a block with a range.
Numbered(e) == e.kind = "entry" /\ e.seq \in Nat
Ranged(b)   == b.kind = "block" /\ b.from \in Nat /\ b.to \in Nat

Sealing == {"bnewline", "bsync"}

\* Blocks a process has read: a sequence of ranges.
Listed(bs) == (\E S : bs \in Seq(S)) /\ \A n \in DOMAIN bs : Ranged(bs[n])

AllNumbered(f) == \A i \in Texts(f) : Numbered(f.text[i])
AllRanged(f)   == \A i \in Texts(f) : Ranged(f.text[i])

(* Every text of the log has a number, and what a process would append next has *)
(* one.                                                                          *)
EntriesNumbered ==
    /\ AllNumbered(log)
    /\ \A p \in Procs :
          /\ proc[p].pc # "down" => proc[p].chain.next \in Nat
          /\ proc[p].pc \in Appending => Numbered(proc[p].item)

\* A sealed block is in the file of blocks, in its synced part; one in hand is written.
BlocksStored ==
    /\ FileShape(blk) /\ AllRanged(blk)
    /\ \A p \in Procs :
          /\ proc[p].pc # "down" => Listed(proc[p].blocks)
          /\ proc[p].pc \in Sealing =>
                Ranged(proc[p].item) /\ Stored(proc[p].item, blk, Len(blk.text))
    /\ \A b \in sealed : Ranged(b) /\ Stored(b, blk, blk.synced)

VerdictInv == LogInv /\ EntriesNumbered /\ BlocksStored

\* The first n positions.
LEMMA FirstPositions ==
  ASSUME NEW n \in Nat
  PROVE  IsFiniteSet(1..n) /\ Cardinality(1..n) = n
BY FS_Interval

\* Two different entries of a complete log have different places.
LEMMA PlaceGrows ==
  ASSUME NEW S, NEW s \in Seq(S), \A k \in DOMAIN s : s[k].seq \in Nat,
         NEW i \in DOMAIN s, NEW j \in DOMAIN s, s[i].seq < s[j].seq
  PROVE  /\ Place(s, i) < Place(s, j)
         /\ Place(s, i) \in 1..Len(s) /\ Place(s, j) \in 1..Len(s)
<1> DEFINE low == {k \in DOMAIN s : s[k].seq < s[i].seq \/ (s[k].seq = s[i].seq /\ k <= i)}
<1> DEFINE high == {k \in DOMAIN s : s[k].seq < s[j].seq \/ (s[k].seq = s[j].seq /\ k <= j)}
<1>1. /\ DOMAIN s = 1..Len(s) /\ Len(s) \in Nat /\ i <= i /\ j <= j
      /\ s[i].seq \in Nat /\ s[j].seq \in Nat
      /\ \A k \in DOMAIN s : s[k].seq \in Nat
  OBVIOUS
<1>2. /\ low \in SUBSET high /\ high \in SUBSET DOMAIN s
      /\ i \in low /\ j \in high /\ j \notin low
  <2>1. \A k \in DOMAIN s : s[k].seq < s[i].seq \/ s[k].seq = s[i].seq => s[k].seq < s[j].seq
    BY <1>1
  <2>2. ~(s[j].seq < s[i].seq) /\ s[j].seq # s[i].seq
    BY <1>1
  <2>3. low \in SUBSET high
    <3> SUFFICES ASSUME NEW k \in low PROVE k \in high
      OBVIOUS
    <3> QED
      BY <2>1
  <2>4. j \notin low
    BY <2>2
  <2> QED
    BY <1>1, <2>3, <2>4
<1> HIDE DEF low, high
<1>3. IsFiniteSet(DOMAIN s) /\ Cardinality(DOMAIN s) = Len(s)
  <2>1. IsFiniteSet(1..Len(s)) /\ Cardinality(1..Len(s)) = Len(s)
    BY <1>1, FirstPositions
  <2> QED
    BY <1>1, <2>1
<1>4. IsFiniteSet(high) /\ IsFiniteSet(low) /\ Cardinality(high) <= Len(s)
  BY <1>2, <1>3, FS_Subset
<1>5. Cardinality(high) \in Nat /\ Cardinality(low) \in Nat
  BY <1>4, FS_CardinalityType
<1>6. Cardinality(low) <= Cardinality(high) /\ Cardinality(low) # Cardinality(high)
  BY <1>2, <1>4, FS_Subset
<1>7. Cardinality(low) # 0
  BY <1>2, <1>4, FS_EmptySet
<1>8. Cardinality(low) < Cardinality(high) /\ Cardinality(low) \in 1..Len(s)
      /\ Cardinality(high) \in 1..Len(s)
  BY <1>1, <1>4, <1>5, <1>6, <1>7
<1> QED
  BY <1>8 DEF Place, low, high

\* The place of every entry holds it.
LEMMA PlaceHolds ==
  ASSUME NEW S, NEW s \in Seq(S), \A k \in DOMAIN s : s[k].seq \in Nat,
         \A k, l \in DOMAIN s : s[k].seq = s[l].seq => k = l, NEW i \in DOMAIN s
  PROVE  Place(s, i) \in 1..Len(s) /\ SortedBySeq(s)[Place(s, i)] = s[i]
<1>1. Place(s, i) \in 1..Len(s)
  <2> DEFINE at == {k \in DOMAIN s : s[k].seq < s[i].seq \/ (s[k].seq = s[i].seq /\ k <= i)}
  <2>1. DOMAIN s = 1..Len(s) /\ Len(s) \in Nat /\ i <= i
    OBVIOUS
  <2>2. at \in SUBSET DOMAIN s /\ i \in at
    BY <2>1
  <2> HIDE DEF at
  <2>3. IsFiniteSet(DOMAIN s) /\ Cardinality(DOMAIN s) = Len(s)
    BY <2>1, FS_Interval, SMTT(20)
  <2>4. IsFiniteSet(at) /\ Cardinality(at) <= Len(s)
    BY <2>2, <2>3, FS_Subset
  <2>5. Cardinality(at) \in Nat /\ Cardinality(at) # 0
    BY <2>2, <2>4, FS_CardinalityType, FS_EmptySet
  <2>6. Cardinality(at) \in 1..Len(s)
    BY <2>1, <2>4, <2>5
  <2> QED
    BY <2>6 DEF Place, at
<1>2. ASSUME NEW j \in DOMAIN s, Place(s, j) = Place(s, i) PROVE j = i
  <2>1. s[i].seq \in Nat /\ s[j].seq \in Nat /\ Place(s, i) \in Nat
    BY <1>1
  <2>2. ~(s[i].seq < s[j].seq) /\ ~(s[j].seq < s[i].seq)
    BY <1>2, <2>1, PlaceGrows
  <2> QED
    BY <2>1, <2>2
<1>3. (CHOOSE j \in DOMAIN s : Place(s, j) = Place(s, i)) = i
  BY <1>2
<1> QED
  BY <1>1, <1>3 DEF SortedBySeq

\* In a complete and wired log every entry stands at its number.
LEMMA SortedAtNumber ==
  ASSUME NEW S, NEW s \in Seq(S), \A k \in DOMAIN s : s[k].seq \in Nat, Complete(s),
         Wired(SortedBySeq(s)), NEW i \in DOMAIN s
  PROVE  /\ Len(SortedBySeq(s)) = Len(s) /\ DOMAIN SortedBySeq(s) = 1..Len(s) /\ Len(s) \in Nat
         /\ \A n \in 1..Len(s) : SortedBySeq(s)[n].seq = n - 1
         /\ s[i].seq + 1 \in 1..Len(s) /\ SortedBySeq(s)[s[i].seq + 1] = s[i]
<1> DEFINE m == SortedBySeq(s)
<1>1. DOMAIN m = 1..Len(s) /\ DOMAIN s = 1..Len(s) /\ Len(s) \in Nat
  BY DEF SortedBySeq
<1>2. m = [n \in 1..Len(s) |-> m[n]]
  BY DEF SortedBySeq
<1> HIDE DEF m
<1> DEFINE values == {m[n] : n \in 1..Len(s)}
<1>a. m \in [1..Len(s) -> values]
  BY <1>2
<1> HIDE DEF values
<1>3. m \in Seq(values) /\ Len(m) = Len(s)
  BY <1>1, <1>a
<1>4. ASSUME NEW n \in 1..Len(s) PROVE m[n].seq = n - 1
  <2>1. m[n].seq = Len(SubSeq(m, 1, n - 1))
    BY <1>3 DEF Wired, Extends, ChainOf, m
  <2>2. Len(SubSeq(m, 1, n - 1)) = n - 1
    BY <1>1, <1>3
  <2> QED
    BY <2>1, <2>2
<1>5. \A k, l \in DOMAIN s : s[k].seq = s[l].seq => k = l
  BY <1>1 DEF Complete
<1>6. Place(s, i) \in 1..Len(s) /\ m[Place(s, i)] = s[i]
  BY <1>5, PlaceHolds DEF m
<1>7. s[i].seq = Place(s, i) - 1
  BY <1>4, <1>6
<1>8. s[i].seq + 1 = Place(s, i)
  BY <1>6, <1>7
<1> QED
  BY <1>1, <1>3, <1>4, <1>6, <1>8 DEF m

\* What a block covers is the entries of its range, each at its place in the range.
LEMMA CoveredAtNumber ==
  ASSUME NEW S, NEW s \in Seq(S), \A k \in DOMAIN s : s[k].seq \in Nat, Complete(s),
         Wired(SortedBySeq(s)), NEW i \in DOMAIN s, NEW b, Ranged(b), s[i].seq \in b.from..b.to
  PROVE  Covered(b, s)[s[i].seq - b.from + 1] = s[i].id
<1> DEFINE m == SortedBySeq(s)
<1> DEFINE idx == {n \in DOMAIN m : m[n].seq \in b.from..b.to}
<1> DEFINE k == s[i].seq + 1
<1>1. /\ DOMAIN m = 1..Len(s) /\ Len(s) \in Nat /\ \A n \in 1..Len(s) : m[n].seq = n - 1
      /\ k \in 1..Len(s) /\ m[k] = s[i]
  BY SortedAtNumber
<1>2. b.from \in Nat /\ b.to \in Nat /\ s[i].seq \in Nat /\ b.from <= s[i].seq /\ s[i].seq <= b.to
  BY DEF Ranged
<1>3. Covered(b, s) = Hashes(Pick(m, idx))
  BY DEF Covered
<1> HIDE DEF m
<1>4. idx \in SUBSET Nat /\ idx \in SUBSET (1..Len(s)) /\ k \in idx
  BY <1>1, <1>2
<1>5. {j \in idx : j <= k} = (b.from + 1)..k
  <2>1. ASSUME NEW j \in idx, j <= k PROVE j \in (b.from + 1)..k
    <3>1. j \in 1..Len(s) /\ m[j].seq = j - 1 /\ m[j].seq \in b.from..b.to
      BY <1>1, <1>4
    <3> QED
      BY <1>1, <1>2, <2>1, <3>1
  <2>2. ASSUME NEW j \in (b.from + 1)..k PROVE j \in idx /\ j <= k
    <3>1. j \in 1..Len(s) /\ j - 1 \in b.from..b.to /\ j <= k
      BY <1>1, <1>2, <2>2
    <3>2. m[j].seq = j - 1
      BY <1>1, <3>1
    <3> QED
      BY <1>1, <3>1, <3>2
  <2> QED
    BY <2>1, <2>2
<1> HIDE DEF idx
<1>6. IsFiniteSet(idx)
  <2>1. IsFiniteSet(1..Len(s))
    BY <1>1, FS_Interval
  <2> QED
    BY <1>4, <2>1, FS_Subset
<1>7. Cardinality((b.from + 1)..k) = s[i].seq - b.from + 1
  <2>1. k \in Int /\ b.from + 1 \in Int /\ k = s[i].seq + 1 /\ ~(b.from + 1 > k)
    BY <1>2
  <2> HIDE DEF k
  <2>2. Cardinality((b.from + 1)..k) = k - (b.from + 1) + 1
    BY <2>1, FS_Interval
  <2> QED
    BY <1>2, <2>1, <2>2
<1>8. Rank(k, idx) = s[i].seq - b.from + 1
  BY <1>5, <1>7 DEF Rank
<1>9. Rank(k, idx) \in 1..Cardinality(idx) /\ Pick(m, idx)[Rank(k, idx)] = m[k]
  BY <1>4, <1>6, PickHolds
<1>10. DOMAIN Pick(m, idx) = 1..Cardinality(idx)
  BY DEF Pick
<1> QED
  BY <1>1, <1>3, <1>8, <1>9, <1>10 DEF Hashes

\* The texts of a file that something is written behind.
LEMMA TextsOfWritten ==
  ASSUME NEW f, FileShape(f), NEW t, NEW i \in Texts(Write(f, t))
  PROVE  \/ i \in Texts(f) /\ Write(f, t).text[i] = f.text[i]
         \/ IsText(t) /\ Write(f, t).text[i] = t
<1>1. /\ FileShape(Write(f, t)) /\ SameTo(f, Write(f, t), Len(f.text))
      /\ Len(Write(f, t).text) = Len(f.text) + 1 /\ Write(f, t).text[Len(f.text) + 1] = t
  BY Written
<1>2. i \in 1..(Len(f.text) + 1) /\ Len(f.text) \in Nat /\ DOMAIN f.text = 1..Len(f.text)
  BY <1>1, TextsFinite DEF FileShape
<1> HIDE DEF Write
<1>3. CASE i = Len(f.text) + 1
  BY <1>1, <1>3 DEF Texts
<1>4. CASE i \in 1..Len(f.text)
  BY <1>1, <1>2, <1>4 DEF Texts, SameTo
<1> QED
  BY <1>2, <1>3, <1>4

\* What a process knows of numbers and blocks after a step.
KnowsBlocks(q) ==
    /\ proc'[q].pc # "down" => proc'[q].chain.next \in Nat /\ Listed(proc'[q].blocks)
    /\ proc'[q].pc \in Appending => Numbered(proc'[q].item)
    /\ proc'[q].pc \in Sealing =>
          Ranged(proc'[q].item) /\ Stored(proc'[q].item, blk', Len(blk'.text))

\* The invariant after a step, with the values of the files written out.
LEMMA AfterVerdictStep ==
  ASSUME LogInv', AllNumbered(log'), FileShape(blk'), AllRanged(blk'),
         \A q \in Procs : KnowsBlocks(q),
         \A b \in sealed' : Ranged(b) /\ Stored(b, blk', blk'.synced)
  PROVE  VerdictInv'
<1>1. FileShape(blk)'
  BY DEF FileShape
<1>2. AllNumbered(log)' /\ AllRanged(blk)'
  BY DEF AllNumbered, AllRanged, Texts, IsText, Numbered, Ranged
<1>3. EntriesNumbered'
  BY <1>2 DEF EntriesNumbered, KnowsBlocks, Numbered
<1>4. BlocksStored'
  BY <1>1, <1>2 DEF BlocksStored, KnowsBlocks, Stored, Ranged, Listed
<1> QED
  BY <1>3, <1>4 DEF VerdictInv

\* What a growing file of blocks keeps.
LEMMA BlocksGrow ==
  ASSUME VerdictInv, FileShape(blk'), SameTo(blk, blk', Len(blk.text)), blk.synced <= blk'.synced
  PROVE  /\ \A q \in Procs : proc'[q] = proc[q] => KnowsBlocks(q)
         /\ \A b \in sealed : Ranged(b) /\ Stored(b, blk', blk'.synced)
         /\ \A b : Stored(b, blk, Len(blk.text)) => Stored(b, blk', Len(blk'.text))
<1>0. FileShape(blk)
  BY DEF VerdictInv, BlocksStored
<1>1. /\ blk.synced \in 0..Len(blk.text) /\ blk'.synced \in 0..Len(blk'.text)
      /\ Len(blk.text) \in Nat /\ Len(blk'.text) \in Nat
  BY <1>0, TextsFinite DEF FileShape
<1>2. Len(blk.text) <= Len(blk'.text) /\ SameTo(blk, blk', blk.synced)
  BY <1>1 DEF SameTo
<1>3. blk'.synced \in blk.synced..Len(blk'.text) /\ Len(blk'.text) \in Len(blk.text)..Len(blk'.text)
      /\ Len(blk.text) \in 0..Len(blk.text)
  BY <1>1, <1>2
<1>4. ASSUME NEW b, Stored(b, blk, Len(blk.text)) PROVE Stored(b, blk', Len(blk'.text))
  BY <1>0, <1>3, <1>4, StoredStays
<1>5. ASSUME NEW b \in sealed PROVE Ranged(b) /\ Stored(b, blk', blk'.synced)
  <2>1. Ranged(b) /\ Stored(b, blk, blk.synced)
    BY DEF VerdictInv, BlocksStored
  <2> QED
    BY <1>0, <1>1, <1>2, <1>3, <2>1, StoredStays
<1>6. ASSUME NEW q \in Procs, proc'[q] = proc[q] PROVE KnowsBlocks(q)
  BY <1>4, <1>6 DEF KnowsBlocks, VerdictInv, EntriesNumbered, BlocksStored
<1> QED
  BY <1>4, <1>5, <1>6

\* A step of p that leaves the blocks alone.
LEMMA BlocksAside ==
  ASSUME VerdictInv, LogInv', AllNumbered(log'), UNCHANGED <<blk, sealed>>,
         NEW p \in Procs, Only(p), KnowsBlocks(p)
  PROVE  VerdictInv'
<1>1. FileShape(blk') /\ AllRanged(blk') /\ blk' = blk /\ Len(blk.text) \in Nat
  BY TextsFinite DEF VerdictInv, BlocksStored
<1>2. SameTo(blk, blk', Len(blk.text)) /\ blk.synced <= blk'.synced
  BY <1>1 DEF SameTo, FileShape
<1>3. \A q \in Procs : KnowsBlocks(q)
  BY <1>1, <1>2, BlocksGrow DEF Only
<1>4. \A b \in sealed' : Ranged(b) /\ Stored(b, blk', blk'.synced)
  BY <1>1, <1>2, BlocksGrow
<1> QED
  BY <1>1, <1>3, <1>4, AfterVerdictStep

\* The blocks that are read from a file of ranges.
LEMMA ReadBlocks ==
  ASSUME NEW f, FileShape(f), AllRanged(f)
  PROVE  Listed(Lines(f))
<1>1. PICK S : Lines(f) \in Seq(S)
  BY TextsAreLines
<1>2. DOMAIN Lines(f) = 1..Len(Lines(f))
  BY <1>1
<1>3. \A n \in DOMAIN Lines(f) : Ranged(Lines(f)[n])
  BY <1>2, TextsAreLines DEF AllRanged
<1> QED
  BY <1>1, <1>3 DEF Listed

LEMMA OpenVerdict ==
  ASSUME VerdictInv, LogInv', NEW p \in Procs, OpenStore(p) \/ OpenLedger(p) \/ ProcessEnds(p)
  PROVE  VerdictInv'
<1>0. /\ proc = [q \in Procs |-> proc[q]] /\ ProcShape /\ FileShape(log) /\ FileShape(blk)
      /\ proc[p] = [pc |-> proc[p].pc, man |-> proc[p].man, chain |-> proc[p].chain,
                    blocks |-> proc[p].blocks, key |-> proc[p].key, item |-> proc[p].item]
  BY DEF VerdictInv, LogInv, ProcShape, BlocksStored
<1>1. Only(p) /\ log' = log
  BY <1>0, OpenAside DEF Aside
<1>2. UNCHANGED <<blk, sealed>>
  BY DEF OpenStore, OpenLedger, ProcessEnds, files
<1>3. AllNumbered(log')
  BY <1>1 DEF VerdictInv, EntriesNumbered
<1>4. KnowsBlocks(p)
  <2>1. CASE proc' = [proc EXCEPT ![p] = Closed]
    BY <1>0, <2>1 DEF KnowsBlocks, Closed, Appending, Sealing
  <2>2. CASE OpenStore(p)
    <3>1. proc'[p].pc = "opening" /\ proc'[p].chain = ChainOf(<<>>) /\ proc'[p].blocks = <<>>
      BY <1>0, <2>2 DEF OpenStore, Closed
    <3>2. ChainOf(<<>>).next \in Nat /\ Listed(<<>>)
      BY DEF ChainOf, Listed
    <3> QED
      BY <3>1, <3>2 DEF KnowsBlocks, Appending, Sealing
  <2>3. CASE OpenLedger(p) /\ proc' # [proc EXCEPT ![p] = Closed]
    <3> DEFINE c == ChainOf(Lines(log))
    <3> DEFINE bs == Lines(blk)
    <3>1. c.next \in Nat /\ Listed(bs)
      BY <1>0, TextsAreLines, ReadBlocks DEF ChainOf, VerdictInv, BlocksStored
    <3> HIDE DEF c, bs
    <3>2. proc' = [proc EXCEPT ![p] = [@ EXCEPT !.pc = "ready", !.chain = c, !.blocks = bs]]
      BY <2>3 DEF OpenLedger, c, bs
    <3>3. proc'[p].pc = "ready" /\ proc'[p].chain = c /\ proc'[p].blocks = bs
      BY <1>0, <3>2
    <3> QED
      BY <3>1, <3>3 DEF KnowsBlocks, Appending, Sealing
  <2> QED
    BY <2>1, <2>2, <2>3 DEF ProcessEnds
<1> QED
  BY <1>1, <1>2, <1>3, <1>4, BlocksAside

LEMMA AppendTextVerdict ==
  ASSUME VerdictInv, LogInv', NEW p \in Procs, NEW run \in Runs, AppendText(p, run)
  PROVE  VerdictInv'
<1>0. /\ proc = [q \in Procs |-> proc[q]] /\ FileShape(log) /\ AllNumbered(log)
      /\ proc[p] = [pc |-> proc[p].pc, man |-> proc[p].man, chain |-> proc[p].chain,
                    blocks |-> proc[p].blocks, key |-> proc[p].key, item |-> proc[p].item]
  BY DEF VerdictInv, LogInv, ProcShape, EntriesNumbered
<1> DEFINE e == Entry(ids + 1, run, proc[p].chain, proc[p].key)
<1>1. /\ proc[p].pc = "ready" /\ log' = Write(log, e) /\ UNCHANGED <<blk, sealed>>
      /\ proc' = [proc EXCEPT ![p].pc = "newline", ![p].item = e]
  BY DEF AppendText
<1>2. proc[p].chain.next \in Nat /\ Listed(proc[p].blocks)
  BY <1>1 DEF VerdictInv, EntriesNumbered, BlocksStored
<1>3. Numbered(e)
  BY <1>2 DEF Numbered, Entry
<1> HIDE DEF e
<1>4. /\ Only(p) /\ proc'[p].pc = "newline" /\ proc'[p].chain = proc[p].chain
      /\ proc'[p].blocks = proc[p].blocks /\ proc'[p].item = e
  BY <1>0, <1>1 DEF Only
<1>5. AllNumbered(log')
  BY <1>0, <1>1, <1>3, TextsOfWritten DEF AllNumbered
<1>6. KnowsBlocks(p)
  BY <1>2, <1>3, <1>4 DEF KnowsBlocks, Sealing
<1> QED
  BY <1>1, <1>4, <1>5, <1>6, BlocksAside

\* The rest of an append, and a call that fails: no text is written to a file.
LEMMA AppendVerdict ==
  ASSUME VerdictInv, LogInv', NEW p \in Procs,
         AppendNewLine(p) \/ AppendSync(p) \/ AppendSave(p) \/ AppendTextFails(p)
            \/ LaterCallFails(p)
  PROVE  VerdictInv'
<1>0. /\ proc = [q \in Procs |-> proc[q]] /\ FileShape(log) /\ AllNumbered(log)
      /\ proc[p] = [pc |-> proc[p].pc, man |-> proc[p].man, chain |-> proc[p].chain,
                    blocks |-> proc[p].blocks, key |-> proc[p].key, item |-> proc[p].item]
  BY DEF VerdictInv, LogInv, ProcShape, EntriesNumbered
<1>1. UNCHANGED <<blk, sealed>> /\ proc[p].pc # "down"
  BY DEF AppendNewLine, AppendSync, AppendSave, AppendTextFails, LaterCallFails, files
<1>2. proc[p].chain.next \in Nat /\ Listed(proc[p].blocks)
  BY <1>1 DEF VerdictInv, EntriesNumbered, BlocksStored
<1>3. AllNumbered(log')
  <2>1. ASSUME NEW t, ~IsText(t), log' = Write(log, t) PROVE AllNumbered(log')
    BY <1>0, <2>1, TextsOfWritten DEF AllNumbered
  <2>2. ~IsText(NewLine) /\ ~IsText(Piece)
    BY DEF IsText, NewLine, Piece
  <2>3. CASE log' = AllSynced(log)
    BY <1>0, <2>3 DEF AllNumbered, Texts, AllSynced, FileShape
  <2>4. CASE AppendNewLine(p) \/ AppendTextFails(p)
    BY <1>0, <2>1, <2>2, <2>4 DEF AppendNewLine, AppendTextFails
  <2> QED
    BY <1>0, <2>3, <2>4 DEF AppendSync, AppendSave, LaterCallFails, files
<1>4. Only(p) /\ KnowsBlocks(p)
  <2>1. CASE AppendNewLine(p)
    <3>1. proc[p].pc = "newline" /\ proc' = [proc EXCEPT ![p].pc = "sync"]
      BY <2>1 DEF AppendNewLine, To
    <3>2. Numbered(proc[p].item)
      BY <3>1 DEF VerdictInv, EntriesNumbered, Appending
    <3>3. /\ Only(p) /\ proc'[p].pc = "sync" /\ proc'[p].chain = proc[p].chain
          /\ proc'[p].blocks = proc[p].blocks /\ proc'[p].item = proc[p].item
      BY <1>0, <3>1 DEF Only
    <3> QED
      BY <1>2, <3>2, <3>3 DEF KnowsBlocks, Sealing
  <2>2. CASE AppendSync(p)
    <3> DEFINE m == [count |-> proc[p].man.count + 1, head |-> proc[p].item.id]
    <3> HIDE DEF m
    <3>1. proc[p].pc = "sync" /\ proc' = [proc EXCEPT ![p].pc = "save", ![p].man = m]
      BY <1>0, <2>2 DEF AppendSync, m
    <3>2. Numbered(proc[p].item)
      BY <3>1 DEF VerdictInv, EntriesNumbered, Appending
    <3>3. /\ Only(p) /\ proc'[p].pc = "save" /\ proc'[p].chain = proc[p].chain
          /\ proc'[p].blocks = proc[p].blocks /\ proc'[p].item = proc[p].item
      BY <1>0, <3>1 DEF Only
    <3> QED
      BY <1>2, <3>2, <3>3 DEF KnowsBlocks, Sealing
  <2>3. CASE AppendSave(p)
    <3> DEFINE c == Advance(proc[p].chain, proc[p].item)
    <3>1. proc[p].pc = "save"
      BY <2>3 DEF AppendSave
    <3>2. Numbered(proc[p].item)
      BY <3>1 DEF VerdictInv, EntriesNumbered, Appending
    <3>3. c.next \in Nat
      BY <3>2 DEF Advance, Numbered
    <3> HIDE DEF c
    <3>4. proc' = [[proc EXCEPT ![p].pc = "ready", ![p].item = NoItem] EXCEPT ![p].chain = c]
      BY <1>0, <2>3 DEF AppendSave, BackToReady, c
    <3>5. /\ Only(p) /\ proc'[p].pc = "ready" /\ proc'[p].chain = c
          /\ proc'[p].blocks = proc[p].blocks
      BY <1>0, <3>4 DEF Only
    <3> QED
      BY <1>2, <3>3, <3>5 DEF KnowsBlocks, Sealing, Appending
  <2>4. CASE AppendTextFails(p)
    <3>1. proc' = proc /\ proc[p].pc = "ready"
      BY <2>4 DEF AppendTextFails
    <3> QED
      BY <1>0, <1>2, <3>1 DEF Only, KnowsBlocks, Sealing, Appending
  <2>5. CASE LaterCallFails(p)
    <3>1. proc' = [proc EXCEPT ![p].pc = "ready", ![p].item = NoItem]
      BY <2>5 DEF LaterCallFails, BackToReady
    <3>2. /\ Only(p) /\ proc'[p].pc = "ready" /\ proc'[p].chain = proc[p].chain
          /\ proc'[p].blocks = proc[p].blocks
      BY <1>0, <3>1 DEF Only
    <3> QED
      BY <1>2, <3>2 DEF KnowsBlocks, Sealing, Appending
  <2> QED
    BY <2>1, <2>2, <2>3, <2>4, <2>5
<1> QED
  BY <1>1, <1>3, <1>4, BlocksAside

\* A block is made of numbered entries, so it has a range.
LEMMA BlockRanged ==
  ASSUME VerdictInv, NEW p \in Procs, Listed(proc[p].blocks), Sealable(p), NEW id, NEW key
  PROVE  Ranged(Block(id, Unsealed(p), proc[p].blocks, key))
<1> DEFINE s == Lines(log)
<1> DEFINE from == NextStart(proc[p].blocks)
<1> DEFINE u == SubSeq(s, from + 1, Len(s))
<1>1. from \in Nat
  <2> DEFINE bs == proc[p].blocks
  <2>1. PICK S : bs \in Seq(S)
    BY DEF Listed
  <2>2. CASE bs = <<>>
    BY <2>2 DEF NextStart
  <2>3. CASE bs # <<>>
    <3>1. Len(bs) \in DOMAIN bs
      BY <2>1, <2>3
    <3>2. bs[Len(bs)].to \in Nat
      BY <3>1 DEF Listed, Ranged
    <3> QED
      BY <2>3, <3>2 DEF NextStart, Last
  <2> QED
    BY <2>2, <2>3
<1>2. FileShape(log) /\ AllNumbered(log)
  BY DEF VerdictInv, LogInv, EntriesNumbered
<1>3. PICK S : s \in Seq(S)
  BY <1>2, TextsAreLines
<1>4. \A n \in 1..Len(s) : s[n].seq \in Nat
  BY <1>2, TextsAreLines DEF AllNumbered, Numbered
<1>5. u # <<>> /\ u = Unsealed(p)
  BY DEF Sealable, Unsealed
<1> HIDE DEF s, from
<1>6. Len(s) \in Nat /\ from + 1 \in 1..Len(s)
  BY <1>1, <1>3, <1>5
<1>7. u \in Seq(S) /\ Len(u) = Len(s) - from /\ u[1] = s[from + 1] /\ u[Len(u)] = s[Len(s)]
  BY <1>1, <1>3, <1>6
<1> HIDE DEF u
<1>8. u[1].seq \in Nat /\ Last(u).seq \in Nat
  <2>1. Len(s) \in 1..Len(s)
    BY <1>6
  <2>2. s[from + 1].seq \in Nat /\ s[Len(s)].seq \in Nat
    BY <1>4, <1>6, <2>1
  <2> QED
    BY <1>7, <2>2 DEF Last
<1> QED
  BY <1>5, <1>8 DEF Block, Ranged

\* A step of p that writes blocks.
LEMMA BlocksStep ==
  ASSUME VerdictInv, LogInv', log' = log, NEW p \in Procs, Only(p), KnowsBlocks(p),
         FileShape(blk'), AllRanged(blk'), SameTo(blk, blk', Len(blk.text)),
         blk.synced <= blk'.synced,
         \A b \in sealed' \ sealed : Ranged(b) /\ Stored(b, blk', blk'.synced)
  PROVE  VerdictInv'
<1>1. \A q \in Procs : KnowsBlocks(q)
  BY BlocksGrow DEF Only
<1>2. \A b \in sealed' : Ranged(b) /\ Stored(b, blk', blk'.synced)
  BY BlocksGrow
<1>3. AllNumbered(log')
  BY DEF VerdictInv, EntriesNumbered
<1> QED
  BY <1>1, <1>2, <1>3, AfterVerdictStep

LEMMA SealTextVerdict ==
  ASSUME VerdictInv, LogInv', NEW p \in Procs, SealText(p)
  PROVE  VerdictInv'
<1>0. /\ proc = [q \in Procs |-> proc[q]] /\ FileShape(blk) /\ AllRanged(blk)
      /\ proc[p] = [pc |-> proc[p].pc, man |-> proc[p].man, chain |-> proc[p].chain,
                    blocks |-> proc[p].blocks, key |-> proc[p].key, item |-> proc[p].item]
  BY DEF VerdictInv, LogInv, ProcShape, BlocksStored
<1> DEFINE b == Block(bids + 1, Unsealed(p), proc[p].blocks, proc[p].key)
<1>1. /\ proc[p].pc = "ready" /\ blk' = Write(blk, b) /\ UNCHANGED <<log, sealed>>
      /\ proc' = [proc EXCEPT ![p].pc = "bnewline", ![p].item = b] /\ Sealable(p)
  BY DEF SealText
<1>2. proc[p].chain.next \in Nat /\ Listed(proc[p].blocks)
  BY <1>1 DEF VerdictInv, EntriesNumbered, BlocksStored
<1>3. Ranged(b)
  BY <1>1, <1>2, BlockRanged
<1> HIDE DEF b
<1>4. /\ Only(p) /\ proc'[p].pc = "bnewline" /\ proc'[p].chain = proc[p].chain
      /\ proc'[p].blocks = proc[p].blocks /\ proc'[p].item = b
  BY <1>0, <1>1 DEF Only
<1>5. AllRanged(blk')
  BY <1>0, <1>1, <1>3, TextsOfWritten DEF AllRanged
<1>6. /\ FileShape(blk') /\ SameTo(blk, blk', Len(blk.text)) /\ blk'.synced = blk.synced
      /\ Len(blk'.text) = Len(blk.text) + 1 /\ blk'.text[Len(blk.text) + 1] = b
  BY <1>0, <1>1, Written
<1>7. blk.synced \in Nat /\ Len(blk.text) \in Nat
  BY <1>0, TextsFinite DEF FileShape
<1>8. Stored(b, blk', Len(blk'.text))
  BY <1>6, <1>7 DEF Stored
<1>9. KnowsBlocks(p)
  BY <1>2, <1>3, <1>4, <1>8 DEF KnowsBlocks, Appending
<1> QED
  BY <1>1, <1>4, <1>5, <1>6, <1>7, <1>9, BlocksStep

LEMMA SealVerdict ==
  ASSUME VerdictInv, LogInv', NEW p \in Procs,
         SealNewLine(p) \/ SealSync(p) \/ SealTextFails(p)
  PROVE  VerdictInv'
<1>0. /\ proc = [q \in Procs |-> proc[q]] /\ FileShape(blk) /\ AllRanged(blk)
      /\ proc[p] = [pc |-> proc[p].pc, man |-> proc[p].man, chain |-> proc[p].chain,
                    blocks |-> proc[p].blocks, key |-> proc[p].key, item |-> proc[p].item]
      /\ blk.synced \in Nat /\ Len(blk.text) \in Nat /\ blk.synced <= Len(blk.text)
  BY TextsFinite DEF VerdictInv, LogInv, ProcShape, BlocksStored, FileShape
<1>1. log' = log /\ proc[p].pc # "down"
  BY DEF SealNewLine, SealSync, SealTextFails
<1>2. proc[p].chain.next \in Nat /\ Listed(proc[p].blocks)
  BY <1>1 DEF VerdictInv, EntriesNumbered, BlocksStored
<1>3. ASSUME NEW t, ~IsText(t), blk' = Write(blk, t)
      PROVE  /\ AllRanged(blk') /\ FileShape(blk') /\ SameTo(blk, blk', Len(blk.text))
             /\ blk.synced <= blk'.synced
  BY <1>0, <1>3, TextsOfWritten, Written DEF AllRanged
<1>4. ~IsText(NewLine) /\ ~IsText(Piece)
  BY DEF IsText, NewLine, Piece
<1>5. CASE SealNewLine(p)
  <2>1. /\ proc[p].pc = "bnewline" /\ proc' = [proc EXCEPT ![p].pc = "bsync"]
        /\ blk' = Write(blk, NewLine) /\ sealed' = sealed
    BY <1>5 DEF SealNewLine, To
  <2>2. Ranged(proc[p].item) /\ Stored(proc[p].item, blk, Len(blk.text))
    BY <2>1 DEF VerdictInv, BlocksStored, Sealing
  <2>3. /\ Only(p) /\ proc'[p].pc = "bsync" /\ proc'[p].chain = proc[p].chain
        /\ proc'[p].blocks = proc[p].blocks /\ proc'[p].item = proc[p].item
    BY <1>0, <2>1 DEF Only
  <2>4. /\ AllRanged(blk') /\ FileShape(blk') /\ SameTo(blk, blk', Len(blk.text))
        /\ blk.synced <= blk'.synced
    BY <1>3, <1>4, <2>1
  <2>5. KnowsBlocks(p)
    BY <1>2, <2>2, <2>3, <2>4, BlocksGrow DEF KnowsBlocks, Appending
  <2> QED
    BY <1>1, <2>1, <2>3, <2>4, <2>5, BlocksStep
<1>6. CASE SealSync(p)
  <2> DEFINE b == proc[p].item
  <2> DEFINE bs == Append(proc[p].blocks, b)
  <2>1. /\ proc[p].pc = "bsync" /\ blk' = AllSynced(blk) /\ sealed' = sealed \cup {b}
    BY <1>6 DEF SealSync
  <2>2. Ranged(b) /\ Stored(b, blk, Len(blk.text))
    BY <2>1 DEF VerdictInv, BlocksStored, Sealing
  <2>3. Listed(bs)
    <3>1. PICK S : proc[p].blocks \in Seq(S)
      BY <1>2 DEF Listed
    <3>2. bs \in Seq(S \cup {b}) /\ Len(bs) = Len(proc[p].blocks) + 1
      BY <3>1
    <3>3. ASSUME NEW n \in DOMAIN bs PROVE Ranged(bs[n])
      <4>1. n \in 1..Len(proc[p].blocks) \/ n = Len(proc[p].blocks) + 1
        BY <3>1, <3>2
      <4>2. CASE n \in 1..Len(proc[p].blocks)
        <5>1. bs[n] = proc[p].blocks[n] /\ n \in DOMAIN proc[p].blocks
          BY <3>1, <4>2
        <5> QED
          BY <1>2, <5>1 DEF Listed
      <4>3. CASE n = Len(proc[p].blocks) + 1
        <5>1. bs[n] = b
          BY <3>1, <4>3
        <5> QED
          BY <2>2, <5>1
      <4> QED
        BY <4>1, <4>2, <4>3
    <3> QED
      BY <3>2, <3>3 DEF Listed
  <2> HIDE DEF bs
  <2>4. proc' = [[proc EXCEPT ![p].pc = "ready", ![p].item = NoItem] EXCEPT ![p].blocks = bs]
    BY <1>0, <1>6 DEF SealSync, BackToReady, bs
  <2>5. /\ Only(p) /\ proc'[p].pc = "ready" /\ proc'[p].chain = proc[p].chain
        /\ proc'[p].blocks = bs
    BY <1>0, <2>4 DEF Only
  <2>6. blk' = [text |-> blk.text, synced |-> Len(blk.text)]
    BY <1>0, <2>1 DEF AllSynced, FileShape
  <2>7. /\ AllRanged(blk') /\ FileShape(blk') /\ SameTo(blk, blk', Len(blk.text))
        /\ blk.synced <= blk'.synced
    BY <1>0, <2>6 DEF AllRanged, Texts, FileShape, SameTo
  <2>8. KnowsBlocks(p)
    BY <1>2, <2>3, <2>5 DEF KnowsBlocks, Appending, Sealing
  <2>9. \A x \in sealed' \ sealed : Ranged(x) /\ Stored(x, blk', blk'.synced)
    BY <2>1, <2>2, <2>6 DEF Stored
  <2> QED
    BY <1>1, <2>5, <2>7, <2>8, <2>9, BlocksStep
<1>7. CASE SealTextFails(p)
  <2>1. /\ proc[p].pc = "ready" /\ proc' = proc /\ blk' = Write(blk, Piece) /\ sealed' = sealed
    BY <1>7 DEF SealTextFails
  <2>2. /\ AllRanged(blk') /\ FileShape(blk') /\ SameTo(blk, blk', Len(blk.text))
        /\ blk.synced <= blk'.synced
    BY <1>3, <1>4, <2>1
  <2>3. Only(p) /\ KnowsBlocks(p)
    BY <1>0, <1>2, <2>1 DEF Only, KnowsBlocks, Appending, Sealing
  <2> QED
    BY <1>1, <2>1, <2>2, <2>3, BlocksStep
<1> QED
  BY <1>5, <1>6, <1>7

LEMMA PowerLossVerdict ==
  ASSUME VerdictInv, LogInv', PowerLoss
  PROVE  VerdictInv'
<1>1. /\ log' \in Cuts(log) /\ blk' \in Cuts(blk) /\ sealed' = sealed
      /\ proc' = [p \in Procs |-> Closed]
  BY DEF PowerLoss
<1>2. FileShape(log) /\ AllNumbered(log) /\ FileShape(blk) /\ AllRanged(blk)
  BY DEF VerdictInv, LogInv, EntriesNumbered, BlocksStored
<1>3. AllNumbered(log')
  BY <1>1, <1>2, CutShape DEF AllNumbered
<1>4. /\ FileShape(blk') /\ AllRanged(blk') /\ blk.synced <= blk'.synced
      /\ blk'.synced = Len(blk'.text) /\ SameTo(blk, blk', blk.synced)
  BY <1>1, <1>2, CutShape DEF AllRanged
<1>5. /\ blk.synced \in 0..Len(blk.text) /\ blk'.synced \in blk.synced..Len(blk'.text)
  BY <1>2, <1>4, TextsFinite DEF FileShape
<1>6. ASSUME NEW b \in sealed' PROVE Ranged(b) /\ Stored(b, blk', blk'.synced)
  <2>1. Ranged(b) /\ Stored(b, blk, blk.synced)
    BY <1>1 DEF VerdictInv, BlocksStored
  <2> QED
    BY <1>2, <1>4, <1>5, <2>1, StoredStays
<1>7. \A q \in Procs : KnowsBlocks(q)
  BY <1>1 DEF KnowsBlocks, Closed, Appending, Sealing
<1> QED
  BY <1>3, <1>4, <1>6, <1>7, AfterVerdictStep

LEMMA VerdictStep == VerdictInv /\ [Next]_vars => VerdictInv'
<1> SUFFICES ASSUME VerdictInv, [Next]_vars PROVE VerdictInv'
  OBVIOUS
<1>0. LogInv'
  BY LogStep DEF VerdictInv
<1>1. ASSUME NEW p \in Procs, ProcStep(p) PROVE VerdictInv'
  BY <1>0, <1>1, OpenVerdict, AppendTextVerdict, AppendVerdict, SealTextVerdict, SealVerdict
     DEF ProcStep, AppendStep, SealStep
<1>2. ASSUME UNCHANGED <<log, blk, proc, sealed>> PROVE VerdictInv'
  <2>1. /\ FileShape(blk') /\ AllRanged(blk') /\ AllNumbered(log')
        /\ \A b \in sealed' : Ranged(b) /\ Stored(b, blk', blk'.synced)
    BY <1>2 DEF VerdictInv, BlocksStored, EntriesNumbered
  <2>2. \A q \in Procs : KnowsBlocks(q)
    BY <1>2 DEF KnowsBlocks, VerdictInv, EntriesNumbered, BlocksStored
  <2> QED
    BY <1>0, <2>1, <2>2, AfterVerdictStep
<1>3. ASSUME NEW t \in Tools, ToolStep(t) PROVE VerdictInv'
  BY <1>2, <1>3 DEF ToolStep, ReadKeys, Rotate, Revoke, KeyCommandEnds, files
<1>4. CASE UNCHANGED vars
  BY <1>2, <1>4 DEF vars, files
<1> QED
  BY <1>0, <1>1, <1>3, <1>4, PowerLossVerdict DEF Next

LEMMA InitVerdict == Init => VerdictInv
<1> SUFFICES ASSUME Init PROVE VerdictInv
  OBVIOUS
<1>1. log = Empty /\ blk = Empty /\ sealed = {} /\ \A p \in Procs : proc[p].pc = "down"
  BY DEF Init, Closed
<1>2. Empty.text = <<>> /\ Empty.synced = 0 /\ <<>> \in Seq({}) /\ Len(<<>>) = 0
  BY DEF Empty
<1>3. FileShape(Empty) /\ Texts(Empty) = {}
  BY <1>2 DEF FileShape, Texts, Empty
<1>4. AllNumbered(Empty) /\ AllRanged(Empty)
  BY <1>3 DEF AllNumbered, AllRanged
<1> QED
  BY <1>1, <1>3, <1>4, InitLog
     DEF VerdictInv, EntriesNumbered, BlocksStored, Appending, Sealing

\* What is synced and is a text is a line.
LEMMA StoredIsLine ==
  ASSUME NEW f, FileShape(f), NEW e, IsText(e), Stored(e, f, f.synced)
  PROVE  \E n \in 1..Len(Lines(f)) : Lines(f)[n] = e
<1>1. PICK i \in 1..f.synced : f.text[i] = e
  BY DEF Stored
<1>2. i \in Texts(f)
  BY <1>1, TextsFinite DEF FileShape, Texts
<1> QED
  BY <1>1, <1>2, TextsAreLines

(* A verdict that passes is right about what was acknowledged: whatever torn   *)
(* writes, processes and losses of power came before, if "ledger verify" finds *)
(* nothing wrong then every acknowledged entry and sealed block is in its      *)
(* file, and each sealed block commits to the acknowledged entries of its      *)
(* range (verify.rs, verify_ledger; ledger.rs, append and seal_block).         *)
THEOREM VerdictCorrect == Spec => []VerdictSound
<1>1. VerdictInv => VerdictSound
  <2> SUFFICES ASSUME VerdictInv, Passes PROVE VerdictSound
    BY DEF VerdictSound
  <2> DEFINE s == Lines(log)
  <2>1. FileShape(log) /\ AllNumbered(log) /\ FileShape(blk)
    BY DEF VerdictInv, LogInv, EntriesNumbered, BlocksStored
  <2>2. PICK S : s \in Seq(S)
    BY <2>1, TextsAreLines
  <2>3. \A k \in DOMAIN s : s[k].seq \in Nat
    BY <2>1, <2>2, TextsAreLines, SMTT(20) DEF AllNumbered, Numbered
  <2>4. Complete(s) /\ Wired(SortedBySeq(s)) /\ BlocksPass(Lines(blk), s, kman)
    BY DEF Passes, EntriesPass
  <2>5. ASSUME NEW e \in acked PROVE \E n \in 1..Len(s) : s[n] = e
    BY <2>1, StoredIsLine DEF VerdictInv, LogInv, AckedSynced, IsText
  <2>6. ASSUME NEW b \in sealed
        PROVE  Ranged(b) /\ \E n \in 1..Len(Lines(blk)) : Lines(blk)[n] = b
    BY <2>1, StoredIsLine DEF VerdictInv, BlocksStored, Ranged, IsText
  <2> HIDE DEF s
  <2>7. ASSUME NEW b \in sealed, NEW e \in acked, e.seq \in b.from..b.to
        PROVE  b.hashes[e.seq - b.from + 1] = e.id
    <3>1. PICK n \in 1..Len(Lines(blk)) : Lines(blk)[n] = b
      BY <2>6
    <3>2. Covered(b, s) = b.hashes
      BY <2>4, <3>1 DEF BlocksPass
    <3>3. PICK k \in DOMAIN s : s[k] = e
      BY <2>2, <2>5
    <3>4. Covered(b, s)[s[k].seq - b.from + 1] = s[k].id
      BY <2>2, <2>3, <2>4, <2>6, <2>7, <3>3, CoveredAtNumber
    <3> QED
      BY <3>2, <3>3, <3>4
  <2> QED
    BY <2>5, <2>6, <2>7 DEF VerdictSound, s
<1> QED
  BY <1>1, InitVerdict, VerdictStep, PTL DEF Spec

=============================================================================
