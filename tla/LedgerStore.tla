----------------------------- MODULE LedgerStore -----------------------------
(***************************************************************************)
(* The files of the ledger (crates/agenomic-ledger-local: store.rs,         *)
(* chain.rs, ledger.rs, block.rs, keystore.rs, verify.rs): ledger.jsonl and *)
(* its manifest, blocks.jsonl and the key manifest, under the processes of  *)
(* the command line. No lock is held between two processes; within one,    *)
(* append and seal exclude each other (the core mutex of the pipeline).    *)
(*                                                                          *)
(* A line is written by two calls, the text and then the newline, and is    *)
(* synced by a third. A file is a sequence of what was written: whole       *)
(* texts, newlines, and pieces of a text whose write was cut short. Hashes  *)
(* are the identities of the entries and blocks they commit to, so bytes    *)
(* nobody alters always match their hash and signature.                     *)
(***************************************************************************)
EXTENDS Integers, Sequences, FiniteSets, SequencesExt, Subsequences

CONSTANTS
    Procs,      \* processes that have the ledger open (append, seal, track)
    Tools,      \* processes of "ledger keys rotate" and "ledger keys revoke"
    Runs,       \* run identifiers
    MaxEntries, \* bound: entries whose text is written
    MaxTexts,   \* bound: entries and blocks together
    MaxKeys,    \* bound: keys generated
    MaxFault    \* bound: calls that fail and losses of power

ASSUME StoreAssumption ==
    /\ MaxEntries \in Nat /\ MaxTexts \in Nat /\ MaxKeys \in Nat \ {0}
    /\ MaxFault \in Nat

VARIABLES
    log,     \* ledger.jsonl: what was written, and how much of it is synced
    blk,     \* blocks.jsonl, the same
    man,     \* manifest.json: the number of entries and the hash of the last
    kman,    \* keys-manifest.json: the active key and the status of each
    proc,    \* the processes: pc, manifest, chain, blocks, active key, item
    tool,    \* the key commands: pc and the manifest read
    acked,   \* ghost: entries whose append has returned Ok
    sealed,  \* ghost: blocks whose seal has returned Ok
    ids, bids, keyids, faults

files  == <<log, blk, man, kman>>
counts == <<ids, bids, keyids, faults>>
vars   == <<files, proc, tool, acked, sealed, counts>>

-----------------------------------------------------------------------------
(* Lines, entries, chains                                                   *)

NewLine == [kind |-> "newline"]
Piece   == [kind |-> "piece"]
IsText(t) == t.kind \notin {"newline", "piece"}

\* A line is one whole text or is refused, whoever wrote what it holds.
Readable(f) ==
    \A i \in 1..Len(f.text) :
        /\ f.text[i] # Piece
        /\ f.text[i] # NewLine /\ i < Len(f.text) => f.text[i + 1] = NewLine

Texts(f) == {i \in DOMAIN f.text : IsText(f.text[i])}
Lines(f) == Pick(f.text, Texts(f))

Genesis == 0
Hashes(s) == [i \in DOMAIN s |-> s[i].id]
HeadOf(s) == IF s = <<>> THEN Genesis ELSE Last(s).id

\* The chain over entries that are wired; it is the head of the whole ledger
\* and of each run.
OfRun(s, r) == SelectSeq(s, LAMBDA e : e.run = r)
ChainOf(s) == [next |-> Len(s), head |-> HeadOf(s),
               runs |-> [r \in Runs |-> [next |-> Len(OfRun(s, r)),
                                         head |-> HeadOf(OfRun(s, r))]]]

\* Mutant: a number that was given before is accepted again.
ExtendsOrRepeats(e, chain) == e.seq <= chain.next

Extends(e, chain) ==
    /\ e.seq = chain.next /\ e.prev = chain.head
    /\ e.rseq = chain.runs[e.run].next /\ e.rprev = chain.runs[e.run].head

Wired(s) == \A i \in 1..Len(s) : Extends(s[i], ChainOf(SubSeq(s, 1, i - 1)))

Entry(id, run, chain, key) ==
    [kind |-> "entry", id |-> id, run |-> run, seq |-> chain.next,
     prev |-> chain.head, rseq |-> chain.runs[run].next,
     rprev |-> chain.runs[run].head, key |-> key]

Advance(chain, e) ==
    [next |-> e.seq + 1, head |-> e.id,
     runs |-> [chain.runs EXCEPT ![e.run] = [next |-> e.rseq + 1, head |-> e.id]]]

NextStart(bs) == IF bs = <<>> THEN 0 ELSE Last(bs).to + 1

Contiguous(s, start) == \A i \in 1..Len(s) : s[i].seq = start + i - 1

Block(id, s, bs, key) ==
    [kind |-> "block", id |-> id, from |-> s[1].seq, to |-> Last(s).seq,
     n |-> Len(s), hashes |-> Hashes(s), prev |-> HeadOf(bs), key |-> key]

-----------------------------------------------------------------------------
(* Opening, and the end of a process                                        *)

Empty == [text |-> <<>>, synced |-> 0]
NoManifest == [count |-> 0, head |-> Genesis]
NoItem == [kind |-> "none"]
FirstKeys == [active |-> 1, status |-> [k \in {1} |-> "active"]]
Closed == [pc |-> "down", man |-> NoManifest, chain |-> ChainOf(<<>>),
           blocks |-> <<>>, key |-> FirstKeys.active, item |-> NoItem]
NoCommand == [pc |-> "idle", keys |-> FirstKeys]

\* After "ledger init".
Init ==
    /\ log = Empty /\ blk = Empty
    /\ man = NoManifest /\ kman = FirstKeys
    /\ proc = [p \in Procs |-> Closed]
    /\ tool = [t \in Tools |-> NoCommand]
    /\ acked = {} /\ sealed = {}
    /\ ids = 0 /\ bids = 0 /\ keyids = 1 /\ faults = 0

OpenStore(p) ==
    /\ proc[p].pc = "down"
    /\ proc' = [proc EXCEPT ![p] = [Closed EXCEPT !.pc = "opening",
                                                  !.man = man, !.key = kman.active]]
    /\ UNCHANGED <<files, tool, acked, sealed, counts>>

\* A log that cannot be read or whose chain is broken is not opened.
OpenLedger(p) ==
    /\ proc[p].pc = "opening"
    /\ proc' = [proc EXCEPT ![p] =
         IF Readable(log) /\ Wired(Lines(log)) /\ Readable(blk)
         THEN [@ EXCEPT !.pc = "ready", !.chain = ChainOf(Lines(log)),
                        !.blocks = Lines(blk)]
         ELSE Closed]
    /\ UNCHANGED <<files, tool, acked, sealed, counts>>

\* The process exits or is killed, wherever it is.
ProcessEnds(p) ==
    /\ proc[p].pc # "down"
    /\ proc' = [proc EXCEPT ![p] = Closed]
    /\ UNCHANGED <<files, tool, acked, sealed, counts>>

\* What is left of a file: what was synced, and some of what was not.
Cuts(f) ==
    LET Kept(n) == SubSeq(f.text, 1, n)
        texts == {Kept(n) : n \in f.synced..Len(f.text)} \cup
                 {Append(Kept(n), Piece) :
                    n \in {k \in f.synced..Len(f.text) - 1 : IsText(f.text[k + 1])}}
    IN  {[text |-> t, synced |-> Len(t)] : t \in texts}

PowerLoss ==
    /\ faults < MaxFault
    /\ log' \in Cuts(log) /\ blk' \in Cuts(blk)
    /\ proc' = [p \in Procs |-> Closed]
    /\ tool' = [t \in Tools |-> NoCommand]
    /\ faults' = faults + 1
    /\ UNCHANGED <<man, kman, acked, sealed, ids, bids, keyids>>

-----------------------------------------------------------------------------
(* Appending an entry                                                       *)

Write(f, t) == [f EXCEPT !.text = Append(@, t)]
AllSynced(f) == [f EXCEPT !.synced = Len(f.text)]
To(p, pc) == [proc EXCEPT ![p].pc = pc]
BackToReady(p) == [proc EXCEPT ![p].pc = "ready", ![p].item = NoItem]

AppendText(p, run) ==
    /\ proc[p].pc = "ready" /\ ids < MaxEntries /\ ids + bids < MaxTexts
    /\ LET e == Entry(ids + 1, run, proc[p].chain, proc[p].key)
       IN  /\ log' = Write(log, e)
           /\ proc' = [proc EXCEPT ![p].pc = "newline", ![p].item = e]
    /\ ids' = ids + 1
    /\ UNCHANGED <<blk, man, kman, tool, acked, sealed, bids, keyids, faults>>

\* Mutant: the manifest is saved before the log is synced.
AppendNewLineSaves(p) ==
    /\ proc[p].pc = "newline"
    /\ log' = Write(log, NewLine)
    /\ man' = [count |-> proc[p].man.count + 1, head |-> proc[p].item.id]
    /\ proc' = To(p, "sync")
    /\ UNCHANGED <<blk, kman, tool, acked, sealed, counts>>

AppendNewLine(p) ==
    /\ proc[p].pc = "newline"
    /\ log' = Write(log, NewLine)
    /\ proc' = To(p, "sync")
    /\ UNCHANGED <<blk, man, kman, tool, acked, sealed, counts>>

AppendSync(p) ==
    /\ proc[p].pc = "sync"
    /\ log' = AllSynced(log)
    /\ proc' = [proc EXCEPT ![p].pc = "save",
                            ![p].man = [count |-> @.count + 1,
                                        head |-> proc[p].item.id]]
    /\ UNCHANGED <<blk, man, kman, tool, acked, sealed, counts>>

\* The chain advances only here, when every write has succeeded.
AppendSave(p) ==
    /\ proc[p].pc = "save"
    /\ man' = proc[p].man
    /\ proc' = [BackToReady(p) EXCEPT ![p].chain = Advance(@, proc[p].item)]
    /\ acked' = acked \cup {proc[p].item}
    /\ UNCHANGED <<log, blk, kman, tool, sealed, counts>>

\* A text that is not written, or not all of it: the append is an error.
AppendTextFails(p) ==
    /\ proc[p].pc = "ready" /\ faults < MaxFault
    /\ log' \in {log, Write(log, Piece)}
    /\ faults' = faults + 1
    /\ UNCHANGED <<blk, man, kman, proc, tool, acked, sealed, ids, bids, keyids>>

\* A later call of an append or of a seal fails: what was written stays.
LaterCallFails(p) ==
    /\ proc[p].pc \in {"newline", "sync", "save", "bnewline", "bsync"}
    /\ faults < MaxFault
    /\ proc' = BackToReady(p)
    /\ faults' = faults + 1
    /\ UNCHANGED <<files, tool, acked, sealed, ids, bids, keyids>>

-----------------------------------------------------------------------------
(* Sealing a block: the lines of the log from the first uncovered number on *)

Unsealed(p) ==
    SubSeq(Lines(log), NextStart(proc[p].blocks) + 1, Len(Lines(log)))

Sealable(p) ==
    /\ Readable(log) /\ Unsealed(p) # <<>>
    /\ Contiguous(Unsealed(p), NextStart(proc[p].blocks))

SealText(p) ==
    /\ proc[p].pc = "ready" /\ ids + bids < MaxTexts /\ Sealable(p)
    /\ LET b == Block(bids + 1, Unsealed(p), proc[p].blocks, proc[p].key)
       IN  /\ blk' = Write(blk, b)
           /\ proc' = [proc EXCEPT ![p].pc = "bnewline", ![p].item = b]
    /\ bids' = bids + 1
    /\ UNCHANGED <<log, man, kman, tool, acked, sealed, ids, keyids, faults>>

SealNewLine(p) ==
    /\ proc[p].pc = "bnewline"
    /\ blk' = Write(blk, NewLine)
    /\ proc' = To(p, "bsync")
    /\ UNCHANGED <<log, man, kman, tool, acked, sealed, counts>>

SealSync(p) ==
    /\ proc[p].pc = "bsync"
    /\ blk' = AllSynced(blk)
    /\ proc' = [BackToReady(p) EXCEPT ![p].blocks = Append(@, proc[p].item)]
    /\ sealed' = sealed \cup {proc[p].item}
    /\ UNCHANGED <<log, man, kman, tool, acked, counts>>

SealTextFails(p) ==
    /\ proc[p].pc = "ready" /\ faults < MaxFault /\ Sealable(p)
    /\ blk' = Write(blk, Piece)
    /\ faults' = faults + 1
    /\ UNCHANGED <<log, man, kman, proc, tool, acked, sealed, ids, bids, keyids>>

-----------------------------------------------------------------------------
(* Key commands: a manifest is read, changed in memory and replaced whole   *)

Known(k) == DOMAIN k.status

ReadKeys(t) ==
    /\ tool[t].pc = "idle"
    /\ tool' = [tool EXCEPT ![t] = [pc |-> "read", keys |-> kman]]
    /\ UNCHANGED <<files, proc, acked, sealed, counts>>

\* Mutant: the new key takes the place of the previous one.
RotatedReplaces(k, new) ==
    [active |-> new,
     status |-> [x \in (Known(k) \ {k.active}) \cup {new} |->
                   IF x = new THEN "active" ELSE k.status[x]]]

\* The previous key stays in the manifest, the new one is active.
Rotated(k, new) ==
    [active |-> new,
     status |-> [x \in Known(k) \cup {new} |->
                   CASE x = new      -> "active"
                     [] x = k.active -> "rotated"
                     [] OTHER        -> k.status[x]]]

Rotate(t) ==
    /\ tool[t].pc = "read" /\ keyids < MaxKeys
    /\ kman' = Rotated(tool[t].keys, keyids + 1)
    /\ tool' = [tool EXCEPT ![t] = NoCommand]
    /\ keyids' = keyids + 1
    /\ UNCHANGED <<log, blk, man, proc, acked, sealed, ids, bids, faults>>

Revoke(t, k) ==
    /\ tool[t].pc = "read"
    /\ k \in Known(tool[t].keys) /\ tool[t].keys.status[k] = "rotated"
    /\ kman' = [tool[t].keys EXCEPT !.status[k] = "revoked"]
    /\ tool' = [tool EXCEPT ![t] = NoCommand]
    /\ UNCHANGED <<log, blk, man, proc, acked, sealed, counts>>

\* A command that is refused, or whose save fails: the process ends.
KeyCommandEnds(t) ==
    /\ tool[t].pc = "read"
    /\ tool' = [tool EXCEPT ![t] = NoCommand]
    /\ UNCHANGED <<files, proc, acked, sealed, counts>>

-----------------------------------------------------------------------------
(* The verdict of "ledger verify" on the files                              *)

Complete(s) ==
    /\ {s[i].seq : i \in 1..Len(s)} = 0..Len(s) - 1
    /\ \A i, j \in 1..Len(s) : s[i].seq = s[j].seq => i = j

EntriesPass(s, keys) ==
    /\ Complete(s) /\ Wired(SortedBySeq(s))
    /\ \A i \in 1..Len(s) : s[i].key \in Known(keys)

Covered(b, s) ==
    LET m == SortedBySeq(s)
    IN  Hashes(Pick(m, {i \in DOMAIN m : m[i].seq \in b.from..b.to}))

\* Mutant: a block is checked to cover as many entries as it says, not which.
BlocksPassCountOnly(bs, s, keys) ==
    \A i \in 1..Len(bs) :
        LET before == SubSeq(bs, 1, i - 1) IN
        /\ bs[i].prev = HeadOf(before) /\ bs[i].from = NextStart(before)
        /\ bs[i].key \in Known(keys)
        /\ Len(Covered(bs[i], s)) = bs[i].n

BlocksPass(bs, s, keys) ==
    \A i \in 1..Len(bs) :
        LET before == SubSeq(bs, 1, i - 1) IN
        /\ bs[i].prev = HeadOf(before) /\ bs[i].from = NextStart(before)
        /\ bs[i].key \in Known(keys)
        /\ Len(Covered(bs[i], s)) = bs[i].n /\ Covered(bs[i], s) = bs[i].hashes

Passes ==
    /\ Readable(log) /\ Readable(blk)
    /\ EntriesPass(Lines(log), kman)
    /\ BlocksPass(Lines(blk), Lines(log), kman)

-----------------------------------------------------------------------------

AppendStep(p) ==
    \/ \E run \in Runs : AppendText(p, run)
    \/ AppendNewLine(p) \/ AppendSync(p) \/ AppendSave(p) \/ AppendTextFails(p)

SealStep(p) ==
    SealText(p) \/ SealNewLine(p) \/ SealSync(p) \/ SealTextFails(p)

ProcStep(p) ==
    OpenStore(p) \/ OpenLedger(p) \/ AppendStep(p) \/ SealStep(p)
        \/ LaterCallFails(p) \/ ProcessEnds(p)

ToolStep(t) ==
    \/ ReadKeys(t) \/ Rotate(t) \/ KeyCommandEnds(t)
    \/ \E k \in 1..MaxKeys : Revoke(t, k)

Next ==
    \/ \E p \in Procs : ProcStep(p)
    \/ \E t \in Tools : ToolStep(t)
    \/ PowerLoss

Spec == Init /\ [][Next]_vars

-----------------------------------------------------------------------------
(* Properties                                                               *)

(* An acknowledged append is never lost without notice (docs/atep-ledger.md: *)
(* no event loss; ledger.rs, Ledger::open: a broken store must not be       *)
(* silently extended). Whatever was torn, repeated, joined by two           *)
(* processes or lost with the power, a log that open accepts holds every    *)
(* acknowledged entry at its own number.                                    *)
NoSilentLoss ==
    Readable(log) /\ Wired(Lines(log)) =>
        \A e \in acked : e.seq < Len(Lines(log)) /\ Lines(log)[e.seq + 1] = e

(* A crash never yields a manifest ahead of the log (store.rs, append): if  *)
(* the log can be read, the manifest counts no more entries than it has,    *)
(* and its head is one of them.                                             *)
ManifestNotAhead ==
    Readable(log) =>
        /\ man.count <= Len(Lines(log))
        /\ man.count > 0 => \E i \in 1..Len(Lines(log)) : Lines(log)[i].id = man.head

(* Rotated keys verify history forever (docs/atep-ledger.md; keystore.rs):  *)
(* the key of every acknowledged entry and block is in the key manifest,    *)
(* whatever snapshot of the keys its process signed with.                   *)
KeysResolve ==
    \A x \in acked \cup sealed : x.key \in Known(kman)

(* A verdict of "ledger verify" that passes (verify.rs: every evaluated     *)
(* check passed and nothing was missing) is right about everything that was *)
(* acknowledged: each entry is at its number, each block that was sealed is *)
(* in the chain, and it commits to the acknowledged entries of its range.   *)
VerdictSound ==
    Passes =>
        /\ \A e \in acked : \E i \in 1..Len(Lines(log)) : Lines(log)[i] = e
        /\ \A b \in sealed : \E i \in 1..Len(Lines(blk)) : Lines(blk)[i] = b
        /\ \A b \in sealed, e \in acked :
              e.seq \in b.from..b.to => b.hashes[e.seq - b.from + 1] = e.id
=============================================================================
