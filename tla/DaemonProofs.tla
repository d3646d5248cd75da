----------------------------- MODULE DaemonProofs -----------------------------
(***************************************************************************)
(* Proof that the launches of a session start at most one runtime, for any *)
(* number of commands, kept results, failing requests and crashes. What    *)
(* carries it is the record on disk: it is there from before a launch       *)
(* starts its runtime until that start has failed, and as long as it is     *)
(* there no launch begins.                                                  *)
(***************************************************************************)
EXTENDS Daemon, FiniteSetTheorems, SequenceTheorems, TLAPS

IsSeq(s) == Len(s) \in Nat /\ s = [k \in 1..Len(s) |-> s[k]]

CmdShape(f) ==
    /\ f = [c \in Commands |-> f[c]]
    /\ \A c \in Commands : {"at", "o", "k"} \subseteq DOMAIN f[c]

ProcShape(s) ==
    /\ IsSeq(s)
    /\ \A k \in 1..Len(s) : {"st", "by", "ok"} \subseteq DOMAIN s[k]

Shape == CmdShape(cmd) /\ ProcShape(procs)

\* A launch that has begun, until its start has succeeded or was undone.
Beginning == {"reporting", "start", "starting", "failing"}
Active(c) == c \in Launches /\ cmd[c].at \in Beginning

\* A runtime that a launch started.
Launched(k) == k \in 1..Len(procs) /\ procs[k].by \in Launches /\ procs[k].ok

\* The adapter that a command starts is its own.
OwnAdapter ==
    \A c \in Commands : cmd[c].at = "starting" =>
        cmd[c].k \in 1..Len(procs) /\ procs[cmd[c].k].by = c

\* One launch at a time begins, with its record on disk, and no other has succeeded.
OneActive ==
    /\ \A c, d \in Commands : Active(c) /\ Active(d) => c = d
    /\ \A c \in Commands : Active(c) => record # "none" /\ \A k : ~Launched(k)

\* The runtime that was started is the only one, and is recorded.
OneLaunched ==
    /\ \A j, k : Launched(j) /\ Launched(k) => j = k
    /\ \A k : Launched(k) => record # "none"

LaunchInv == Shape /\ OwnAdapter /\ OneActive /\ OneLaunched

-----------------------------------------------------------------------------
(* Sequences whose elements are of no particular set                        *)

LEMMA Appended ==
  ASSUME NEW s, NEW e, IsSeq(s)
  PROVE  /\ IsSeq(Append(s, e)) /\ Len(Append(s, e)) = Len(s) + 1
         /\ Append(s, e)[Len(s) + 1] = e
         /\ \A k \in 1..Len(s) : Append(s, e)[k] = s[k]
<1> DEFINE S == {s[k] : k \in 1..Len(s)} \cup {e}
<1>1. s \in [1..Len(s) -> S] /\ Len(s) \in Nat
  BY DEF IsSeq
<1>2. s \in Seq(S)
  BY <1>1, SeqDef
<1>3. e \in S
  OBVIOUS
<1> HIDE DEF S
<1> DEFINE t == Append(s, e)
<1>4. /\ t \in Seq(S) /\ Len(t) = Len(s) + 1 /\ t[Len(s) + 1] = e
      /\ \A k \in 1..Len(s) : t[k] = s[k]
  BY <1>2, <1>3, AppendProperties
<1>5. t \in [1..Len(t) -> S] /\ Len(t) \in Nat
  BY <1>4, LenProperties
<1> HIDE DEF t
<1>6. IsSeq(t)
  BY <1>5 DEF IsSeq
<1> QED
  BY <1>4, <1>6 DEF t

LEMMA SameLength ==
  ASSUME NEW s, NEW t, IsSeq(s), t = [k \in 1..Len(s) |-> t[k]]
  PROVE  IsSeq(t) /\ Len(t) = Len(s)
<1> DEFINE S == {t[k] : k \in 1..Len(s)}
<1>1. t \in [1..Len(s) -> S] /\ Len(s) \in Nat
  BY DEF IsSeq
<1>2. t \in Seq(S)
  BY <1>1, SeqDef
<1> HIDE DEF S
<1>3. Len(t) \in Nat /\ DOMAIN t = 1..Len(t)
  BY <1>2, LenProperties
<1>4. DOMAIN t = 1..Len(s)
  BY <1>1
<1>5. Len(t) = Len(s)
  BY <1>1, <1>3, <1>4
<1> QED
  BY <1>3, <1>5 DEF IsSeq

-----------------------------------------------------------------------------
(* The steps that start no runtime and begin no launch                      *)

\* The command that awaited a report goes on: only a launch that reported starts.
LEMMA WokenEffect ==
  ASSUME CmdShape(cmd), NEW r, NEW d, cmd' = Woken(r, d)
  PROVE  /\ CmdShape(cmd')
         /\ \A c \in Commands :
               /\ cmd'[c].k = cmd[c].k
               /\ \/ cmd'[c].at = cmd[c].at
                  \/ cmd[c].at = "reporting" /\ cmd'[c].at = "start"
                  \/ cmd'[c].at \in {"prompting", "connected", "reported"}
<1> DEFINE at(x) == IF x = "reporting" THEN "start"
                    ELSE IF x = "connecting" THEN (IF d THEN "prompting" ELSE "connected")
                    ELSE "reported"
<1>1. \A x : (CASE x = "reporting"  -> "start"
                [] x = "connecting" -> IF d THEN "prompting" ELSE "connected"
                [] OTHER            -> "reported") = at(x)
  OBVIOUS
<1>2. \/ cmd' = cmd
      \/ cmd' = [cmd EXCEPT ![r.waits].at = at(@)]
  BY <1>1 DEF Woken
<1>3. \A x : \/ x = "reporting" /\ at(x) = "start"
             \/ at(x) \in {"prompting", "connected", "reported"}
  OBVIOUS
<1> HIDE DEF at
<1>4. CASE cmd' = cmd
  BY <1>4
<1>5. CASE cmd' = [cmd EXCEPT ![r.waits].at = at(@)]
  <2> DEFINE w == r.waits
  <2> DEFINE x == at(cmd[w].at)
  <2>1. cmd' = [cmd EXCEPT ![w].at = x]
    BY <1>5
    <2>2. (cmd[w].at = "reporting" /\ x = "start") \/ x \in {"prompting", "connected", "reported"}
    BY <1>3
  <2> HIDE DEF w, x
  <2>3. CASE w \in Commands
    BY <2>1, <2>2, <2>3 DEF CmdShape
  <2>4. CASE w \notin Commands
    BY <2>1, <2>4 DEF CmdShape
  <2> QED
    BY <2>3, <2>4
<1> QED
  BY <1>2, <1>4, <1>5

\* A command moves on, or is replaced.
LEMMA MovedOn ==
  ASSUME CmdShape(cmd), NEW c \in Commands, NEW at, At(c, at)
  PROVE  /\ CmdShape(cmd') /\ cmd'[c].at = at /\ cmd'[c].k = cmd[c].k
         /\ \A d \in Commands \ {c} : cmd'[d] = cmd[d]
BY DEF At, CmdShape

LEMMA ReplacedBy ==
  ASSUME CmdShape(cmd), NEW c \in Commands, NEW f, {"at", "o", "k"} \subseteq DOMAIN f,
         cmd' = [cmd EXCEPT ![c] = f]
  PROVE  /\ CmdShape(cmd') /\ cmd'[c] = f
         /\ \A d \in Commands \ {c} : cmd'[d] = cmd[d]
BY DEF CmdShape

LEMMA PostingEffect ==
  ASSUME CmdShape(cmd), NEW c \in Commands, NEW res, Posting(c, res)
  PROVE  /\ CmdShape(cmd') /\ cmd'[c].at = "posting"
         /\ \A d \in Commands \ {c} : cmd'[d] = cmd[d]
<1> DEFINE f == [Idle EXCEPT !.at = "posting", !.res = res]
<1>1. {"at", "o", "k"} \subseteq DOMAIN f /\ f.at = "posting"
  BY DEF Idle
<1>2. cmd' = [cmd EXCEPT ![c] = f]
  BY DEF Posting
<1> HIDE DEF f
<1> QED
  BY <1>1, <1>2, ReplacedBy

\* The runtimes keep who started them, and whether the start succeeded.
SameRuntimes ==
    /\ Len(procs') = Len(procs)
    /\ \A k \in 1..Len(procs) : procs'[k].by = procs[k].by /\ procs'[k].ok = procs[k].ok

LEMMA SetProcEffect ==
  ASSUME ProcShape(procs), NEW k, NEW st, SetProc(k, st)
  PROVE  ProcShape(procs') /\ SameRuntimes
<1>1. /\ procs' = [j \in 1..Len(procs) |-> procs'[j]]
      /\ \A j \in 1..Len(procs) : /\ {"st", "by", "ok"} \subseteq DOMAIN procs'[j]
                                  /\ procs'[j].by = procs[j].by /\ procs'[j].ok = procs[j].ok
  BY DEF SetProc, ProcShape, IsSeq
<1>2. IsSeq(procs') /\ Len(procs') = Len(procs)
  BY <1>1, SameLength DEF ProcShape
<1> QED
  BY <1>1, <1>2 DEF ProcShape, SameRuntimes

\* What a command may do without a launch beginning or a start succeeding.
Steps(c) ==
    \/ cmd'[c].at = cmd[c].at /\ cmd'[c].k = cmd[c].k
    \/ cmd'[c].at \notin Beginning
    \/ cmd[c].at = "reporting" /\ cmd'[c].at = "start"
    \/ cmd[c].at = "starting" /\ cmd'[c].at = "failing"

LEMMA Quiet ==
  ASSUME LaunchInv, CmdShape(cmd'), ProcShape(procs'), SameRuntimes,
         record' # "none" \/ record' = record,
         \A c \in Commands : Steps(c)
  PROVE  LaunchInv'
<1> USE DEF LaunchInv, SameRuntimes
<1>1. \A k : Launched(k)' => Launched(k)
  BY DEF Launched
<1>2. \A c \in Commands : Active(c)' => Active(c)
  BY DEF Steps, Active, Beginning
<1>3. OwnAdapter'
  BY DEF OwnAdapter, Steps, Beginning
<1>4. OneActive'
  BY <1>1, <1>2 DEF OneActive
<1>5. OneLaunched'
  BY <1>1 DEF OneLaunched
<1> QED
  BY <1>3, <1>4, <1>5 DEF Shape

\* Neither the commands nor the record change, and the runtimes at most their state.
LEMMA CommandsStay ==
  ASSUME LaunchInv, UNCHANGED <<cmd, record>>,
         UNCHANGED procs \/ \E k, st : SetProc(k, st)
  PROVE  LaunchInv'
<1>1. ProcShape(procs') /\ SameRuntimes
  BY SetProcEffect DEF LaunchInv, Shape, SameRuntimes
<1>2. \A c \in Commands : Steps(c)
  BY DEF Steps
<1> QED
  BY <1>1, <1>2, Quiet DEF LaunchInv, Shape

\* One command moves to where no launch begins.
LEMMA OneMoves ==
  ASSUME LaunchInv, NEW c \in Commands, CmdShape(cmd'), cmd'[c].at \notin Beginning,
         \A d \in Commands \ {c} : cmd'[d] = cmd[d],
         UNCHANGED procs \/ \E k, st : SetProc(k, st), UNCHANGED record
  PROVE  LaunchInv'
<1>1. ProcShape(procs') /\ SameRuntimes
  BY SetProcEffect DEF LaunchInv, Shape, SameRuntimes
<1>2. \A d \in Commands : Steps(d)
  BY DEF Steps
<1> QED
  BY <1>1, <1>2, Quiet

LEMMA CommandStep ==
  ASSUME LaunchInv, NEW c \in Commands,
         \/ Issue(c) \/ DeliverDone(c)
         \/ LaunchAlready(c) \/ LaunchRefused(c) \/ ResumeRefused(c) \/ StopRefused(c) \/ Stop(c)
         \/ Spawn(c) \/ RegisterNative(c) \/ StartFails(c) \/ ResumeFailed(c) \/ Connect(c)
         \/ CommandApplied(c) \/ CommandReported(c) \/ StopApplied(c) \/ StopUnknown(c) \/ Post(c)
  PROVE  LaunchInv'
<1>0. CmdShape(cmd) /\ ProcShape(procs)
  BY DEF LaunchInv, Shape
<1>1. CASE Issue(c) \/ DeliverDone(c)
  BY <1>1, CommandsStay DEF Issue, DeliverDone, daemon
<1>2. CASE \/ LaunchAlready(c) \/ LaunchRefused(c) \/ ResumeRefused(c) \/ StopRefused(c)
           \/ CommandApplied(c) \/ CommandReported(c) \/ StopUnknown(c)
  <2>1. (\E res : Posting(c, res)) /\ UNCHANGED <<procs, record>>
    BY <1>2 DEF LaunchAlready, LaunchRefused, ResumeRefused, StopRefused, CommandApplied,
                CommandReported, StopUnknown
  <2> QED
    BY <1>0, <2>1, PostingEffect, OneMoves DEF Beginning
<1>3. CASE ResumeFailed(c)
  <2>1. Posting(c, "refused") /\ UNCHANGED record /\ \E k, st : SetProc(k, st)
    BY <1>3 DEF ResumeFailed, Stopped
  <2> QED
    BY <1>0, <2>1, PostingEffect, OneMoves DEF Beginning
<1>4. CASE Stop(c)
  <2> DEFINE f == [Idle EXCEPT !.at = "stopping", !.o = cur, !.k = Adapter]
  <2>1. {"at", "o", "k"} \subseteq DOMAIN f /\ f.at = "stopping"
    BY DEF Idle
  <2>2. cmd' = [cmd EXCEPT ![c] = f] /\ UNCHANGED <<procs, record>>
    BY <1>4 DEF Stop
  <2> HIDE DEF f
  <2> QED
    BY <1>0, <2>1, <2>2, ReplacedBy, OneMoves DEF Beginning
<1>5. CASE Post(c)
  <2>1. {"at", "o", "k"} \subseteq DOMAIN Idle /\ Idle.at = "idle"
    BY DEF Idle
  <2>2. cmd' = [cmd EXCEPT ![c] = Idle] /\ UNCHANGED <<procs, record>>
    BY <1>5 DEF Post
  <2> QED
    BY <1>0, <2>1, <2>2, ReplacedBy, OneMoves DEF Beginning
<1>6. CASE Spawn(c)
  BY <1>6, CommandsStay DEF Spawn, daemon
<1>7. CASE RegisterNative(c)
  <2>1. record' = "native" /\ UNCHANGED <<cmd, procs>>
    BY <1>7 DEF RegisterNative, daemon
  <2>2. \A d \in Commands : Steps(d)
    BY <2>1 DEF Steps
  <2> QED
    BY <1>0, <2>1, <2>2, Quiet DEF SameRuntimes
<1>8. CASE StartFails(c)
  <2>1. At(c, "failing") /\ cmd[c].at = "starting" /\ UNCHANGED <<procs, record>>
    BY <1>8 DEF StartFails
  <2>2. /\ CmdShape(cmd') /\ cmd'[c].at = "failing"
        /\ \A d \in Commands \ {c} : cmd'[d] = cmd[d]
    BY <1>0, <2>1, MovedOn
  <2>3. \A d \in Commands : Steps(d)
    BY <2>1, <2>2 DEF Steps
  <2> QED
    BY <1>0, <2>1, <2>2, <2>3, Quiet DEF SameRuntimes
<1>9. CASE Connect(c) \/ StopApplied(c)
  <2>1. (At(c, "connecting") \/ At(c, "stopped")) /\ UNCHANGED <<procs, record>>
    BY <1>9 DEF Connect, StopApplied
  <2> QED
    BY <1>0, <2>1, MovedOn, OneMoves DEF Beginning
<1> QED
  BY <1>1, <1>2, <1>3, <1>4, <1>5, <1>6, <1>7, <1>8, <1>9

LEMMA ReportStep ==
  ASSUME LaunchInv, NEW o, ReportDelivered(o) \/ ReportFails(o) \/ ReportRefused(o)
  PROVE  LaunchInv'
<1>1. (\E r, d : cmd' = Woken(r, d)) /\ UNCHANGED <<procs, record>>
  BY DEF ReportDelivered, ReportFails, ReportRefused
<1>2. PICK r, d : cmd' = Woken(r, d)
  BY <1>1
<1>3. CmdShape(cmd') /\ \A c \in Commands : Steps(c)
  BY <1>2, WokenEffect DEF LaunchInv, Shape, Steps, Beginning
<1> QED
  BY <1>1, <1>3, Quiet DEF LaunchInv, Shape, SameRuntimes

LEMMA CrashStep ==
  ASSUME LaunchInv, Crash
  PROVE  LaunchInv'
<1>1. CmdShape(cmd') /\ \A c \in Commands : Steps(c)
  BY DEF Crash, CmdShape, Idle, Steps, Beginning
<1>2. ProcShape(procs) /\ UNCHANGED record
  BY DEF LaunchInv, Shape, Crash
<1>3. PICK st : procs' = [k \in DOMAIN procs |->
            IF procs[k].st \in {"created", "gone"} THEN [procs[k] EXCEPT !.st = "gone"]
            ELSE [procs[k] EXCEPT !.st = st]]
  BY DEF Crash
<1>4. /\ procs' = [j \in 1..Len(procs) |-> procs'[j]]
      /\ \A j \in 1..Len(procs) : /\ {"st", "by", "ok"} \subseteq DOMAIN procs'[j]
                                  /\ procs'[j].by = procs[j].by /\ procs'[j].ok = procs[j].ok
  BY <1>2, <1>3 DEF ProcShape, IsSeq
<1>5. IsSeq(procs') /\ Len(procs') = Len(procs)
  BY <1>2, <1>4, SameLength DEF ProcShape
<1> QED
  BY <1>1, <1>2, <1>4, <1>5, Quiet DEF ProcShape, SameRuntimes

LEMMA RuntimeStep ==
  ASSUME LaunchInv, NEW k, Prompt(k) \/ RuntimeStatus(k) \/ RuntimeEnds(k) \/ ProcessExits(k)
  PROVE  LaunchInv'
BY CommandsStay DEF Prompt, RuntimeStatus, RuntimeEnds, ProcessExits, daemon

-----------------------------------------------------------------------------
(* The steps of a launch                                                    *)

\* An adapter is added, not started yet, for a command that starts it.
LEMMA Added ==
  ASSUME LaunchInv, NEW c \in Commands, NEW o, procs' = NewProc(o, c),
         CmdShape(cmd'), cmd'[c].at = "starting", cmd'[c].k = Len(procs) + 1,
         Active(c)' => Active(c),
         \A d \in Commands \ {c} : cmd'[d] = cmd[d],
         UNCHANGED record
  PROVE  LaunchInv'
<1> DEFINE e == [st |-> Begun, o |-> o, by |-> c, ok |-> FALSE]
<1>1. {"st", "by", "ok"} \subseteq DOMAIN e /\ e.by = c /\ e.ok = FALSE
  OBVIOUS
<1>2. procs' = Append(procs, e) /\ ProcShape(procs)
  BY DEF NewProc, LaunchInv, Shape
<1> HIDE DEF e
<1>3. /\ IsSeq(procs') /\ Len(procs') = Len(procs) + 1 /\ procs'[Len(procs) + 1] = e
      /\ \A k \in 1..Len(procs) : procs'[k] = procs[k]
  BY <1>2, Appended DEF ProcShape
<1>4. Len(procs) \in Nat
  BY <1>2 DEF ProcShape, IsSeq
<1>5. ProcShape(procs')
  BY <1>1, <1>2, <1>3, <1>4 DEF ProcShape
<1>6. \A k : Launched(k)' => Launched(k)
  BY <1>1, <1>3, <1>4 DEF Launched
<1>7. \A d \in Commands : Active(d)' => Active(d)
  BY DEF Active
<1>8. OwnAdapter'
  BY <1>1, <1>3, <1>4 DEF OwnAdapter, LaunchInv
<1>9. OneActive' /\ OneLaunched'
  BY <1>6, <1>7 DEF OneActive, OneLaunched, LaunchInv
<1> QED
  BY <1>5, <1>8, <1>9 DEF LaunchInv, Shape

LEMMA StartStep ==
  ASSUME LaunchInv, NEW c \in Commands, StartAdapter(c)
  PROVE  LaunchInv'
<1> DEFINE n == Len(procs) + 1
<1>1. /\ cmd[c].at = "start" /\ procs' = NewProc(cmd[c].o, c) /\ UNCHANGED record
      /\ cmd' = [cmd EXCEPT ![c].at = "starting", ![c].k = n]
  BY DEF StartAdapter
<1>2. CmdShape(cmd)
  BY DEF LaunchInv, Shape
<1> HIDE DEF n
<1>3. /\ CmdShape(cmd') /\ cmd'[c].at = "starting" /\ cmd'[c].k = n
      /\ \A d \in Commands \ {c} : cmd'[d] = cmd[d]
  BY <1>1, <1>2 DEF CmdShape
<1>4. Active(c)' => Active(c)
  BY <1>1 DEF Active, Beginning
<1> QED
  BY <1>1, <1>3, <1>4, Added DEF n

\* A resume is no launch.
LEMMA ResumeStep ==
  ASSUME LaunchInv, NEW c \in Commands, Resume(c)
  PROVE  LaunchInv'
<1>1. PICK o, l, w, h :
        cmd' = [cmd EXCEPT ![c] = [at |-> "starting", o |-> o, k |-> Len(procs) + 1, res |-> None,
                                   live |-> l, was |-> w, held |-> h]]
        /\ procs' = NewProc(o, c)
  BY DEF Resume
<1> DEFINE f == [at |-> "starting", o |-> o, k |-> Len(procs) + 1, res |-> None,
                 live |-> l, was |-> w, held |-> h]
<1>2. {"at", "o", "k"} \subseteq DOMAIN f /\ f.at = "starting" /\ f.k = Len(procs) + 1
  OBVIOUS
<1>3. cmd' = [cmd EXCEPT ![c] = f] /\ CmdShape(cmd) /\ UNCHANGED record
  BY <1>1 DEF LaunchInv, Shape, Resume
<1> HIDE DEF f
<1>4. CmdShape(cmd') /\ cmd'[c] = f /\ \A d \in Commands \ {c} : cmd'[d] = cmd[d]
  BY <1>2, <1>3, ReplacedBy
<1>5. ~Active(c)'
  BY DaemonAssumption DEF Resume, Active
<1> QED
  BY <1>1, <1>2, <1>3, <1>4, <1>5, Added

\* With no session and no record there is neither a launch that begins nor one that
\* succeeded: this one is alone.
LEMMA LaunchBegins ==
  ASSUME LaunchInv, NEW c \in Commands, Launch(c)
  PROVE  LaunchInv'
<1> DEFINE f == [Idle EXCEPT !.at = "reporting", !.o = Len(objs) + 1]
<1>1. {"at", "o", "k"} \subseteq DOMAIN f /\ f.at = "reporting"
  BY DEF Idle
<1>2. cmd' = [cmd EXCEPT ![c] = f] /\ record = "none" /\ record' = "recorded" /\ UNCHANGED procs
  BY DEF Launch, Already
<1> HIDE DEF f
<1>3. /\ CmdShape(cmd') /\ cmd'[c].at = "reporting"
      /\ \A d \in Commands \ {c} : cmd'[d] = cmd[d]
  BY <1>1, <1>2, ReplacedBy DEF LaunchInv, Shape
<1>4. (\A d \in Commands : ~Active(d)) /\ \A k : ~Launched(k)
  BY <1>2 DEF LaunchInv, OneActive, OneLaunched
<1>5. (\A d \in Commands \ {c} : ~Active(d)') /\ \A k : ~Launched(k)'
  BY <1>2, <1>3, <1>4 DEF Active, Launched
<1>6. OneActive' /\ OneLaunched'
  BY <1>2, <1>5 DEF OneActive, OneLaunched
<1>7. OwnAdapter'
  BY <1>2, <1>3 DEF OwnAdapter, LaunchInv
<1> QED
  BY <1>2, <1>3, <1>6, <1>7 DEF LaunchInv, Shape

\* The start succeeds: of a launch, the only one that had begun.
LEMMA StartSucceeds ==
  ASSUME LaunchInv, NEW c \in Commands, AdapterStarts(c)
  PROVE  LaunchInv'
<1> DEFINE k == cmd[c].k
<1>1. cmd[c].at = "starting" /\ UNCHANGED record /\ At(c, "started")
  BY DEF AdapterStarts
<1>2. k \in 1..Len(procs) /\ procs[k].by = c /\ ProcShape(procs) /\ CmdShape(cmd)
  BY <1>1 DEF LaunchInv, OwnAdapter, Shape
<1>3. procs' = [procs EXCEPT ![k].st = "up", ![k].ok = TRUE]
  BY DEF AdapterStarts
<1> HIDE DEF k
<1>4. /\ procs' = [j \in 1..Len(procs) |-> procs'[j]]
      /\ \A j \in 1..Len(procs) : /\ {"st", "by", "ok"} \subseteq DOMAIN procs'[j]
                                  /\ procs'[j].by = procs[j].by
                                  /\ j # k => procs'[j].ok = procs[j].ok
  BY <1>2, <1>3 DEF ProcShape, IsSeq
<1>5. IsSeq(procs') /\ Len(procs') = Len(procs)
  BY <1>2, <1>4, SameLength DEF ProcShape
<1>6. ProcShape(procs')
  BY <1>4, <1>5 DEF ProcShape
<1>7. /\ CmdShape(cmd') /\ cmd'[c].at = "started"
      /\ \A d \in Commands \ {c} : cmd'[d] = cmd[d]
  BY <1>1, <1>2, MovedOn
<1>8. OwnAdapter'
  BY <1>4, <1>5, <1>7 DEF OwnAdapter, LaunchInv
<1>9. \A d \in Commands : Active(d)' => Active(d) /\ d # c
  BY <1>7 DEF Active, Beginning
<1>10. \A j : Launched(j)' => Launched(j) \/ (j = k /\ c \in Launches)
  BY <1>2, <1>4, <1>5 DEF Launched
<1>11. CASE c \in Launches
  <2>1. Active(c)
    BY <1>1, <1>11 DEF Active, Beginning
  <2>2. record # "none" /\ (\A j : ~Launched(j)) /\ \A d \in Commands : Active(d) => d = c
    BY <2>1 DEF LaunchInv, OneActive
  <2>3. OneActive' /\ OneLaunched'
    BY <1>1, <1>9, <1>10, <2>2 DEF OneActive, OneLaunched
  <2> QED
    BY <1>6, <1>7, <1>8, <2>3 DEF LaunchInv, Shape
<1>12. CASE c \notin Launches
  <2>1. OneActive' /\ OneLaunched'
    BY <1>1, <1>9, <1>10, <1>12 DEF OneActive, OneLaunched, LaunchInv
  <2> QED
    BY <1>6, <1>7, <1>8, <2>1 DEF LaunchInv, Shape
<1> QED
  BY <1>11, <1>12

\* A launch whose start failed takes its record with it: it was the only one.
LEMMA LaunchUndone ==
  ASSUME LaunchInv, NEW c \in Commands, LaunchFailed(c)
  PROVE  LaunchInv'
<1>1. Active(c) /\ At(c, "undone") /\ \E k, st : SetProc(k, st)
  BY DEF LaunchFailed, Stopped, Active, Beginning
<1>2. /\ CmdShape(cmd') /\ cmd'[c].at = "undone"
      /\ \A d \in Commands \ {c} : cmd'[d] = cmd[d]
  BY <1>1, MovedOn DEF LaunchInv, Shape
<1>3. ProcShape(procs') /\ SameRuntimes
  BY <1>1, SetProcEffect DEF LaunchInv, Shape
<1>4. (\A d \in Commands : Active(d) => d = c) /\ \A k : ~Launched(k)
  BY <1>1 DEF LaunchInv, OneActive
<1>5. (\A d \in Commands : ~Active(d)') /\ \A k : ~Launched(k)'
  BY <1>2, <1>3, <1>4 DEF Active, Beginning, Launched, SameRuntimes
<1>6. OneActive' /\ OneLaunched'
  BY <1>5 DEF OneActive, OneLaunched
<1>7. OwnAdapter'
  BY <1>2, <1>3 DEF OwnAdapter, LaunchInv, SameRuntimes
<1> QED
  BY <1>2, <1>3, <1>6, <1>7 DEF LaunchInv, Shape

-----------------------------------------------------------------------------

LEMMA InitLaunch == Init => LaunchInv
<1> SUFFICES ASSUME Init PROVE LaunchInv
  OBVIOUS
<1>1. CmdShape(cmd) /\ \A c \in Commands : cmd[c].at = "idle"
  BY DEF Init, CmdShape, Idle
<1>2. procs = <<>> /\ Len(procs) = 0
  BY DEF Init
<1>3. ProcShape(procs)
  BY <1>2 DEF ProcShape, IsSeq
<1>4. \A k : ~Launched(k)
  BY <1>2 DEF Launched
<1>5. \A c \in Commands : ~Active(c)
  BY <1>1 DEF Active, Beginning
<1>6. OwnAdapter
  BY <1>1 DEF OwnAdapter
<1> QED
  BY <1>1, <1>3, <1>4, <1>5, <1>6 DEF LaunchInv, Shape, OneActive, OneLaunched

LEMMA LaunchStep == LaunchInv /\ [Next]_vars => LaunchInv'
<1> SUFFICES ASSUME LaunchInv, [Next]_vars PROVE LaunchInv'
  OBVIOUS
<1>1. ASSUME NEW c \in Commands, Issue(c) \/ Handle(c) \/ Continue(c) \/ StartFails(c)
      PROVE  LaunchInv'
  <2>1. CASE StartAdapter(c)
    BY <2>1, StartStep
  <2>2. CASE Resume(c)
    BY <2>2, ResumeStep
  <2>3. CASE Launch(c)
    BY <2>3, LaunchBegins
  <2>4. CASE AdapterStarts(c)
    BY <2>4, StartSucceeds
  <2>5. CASE LaunchFailed(c)
    BY <2>5, LaunchUndone
  <2> QED
    BY <1>1, <2>1, <2>2, <2>3, <2>4, <2>5, CommandStep DEF Handle, Continue
<1>2. CASE \E o \in DOMAIN objs : ReportDelivered(o) \/ ReportFails(o) \/ ReportRefused(o)
  BY <1>2, ReportStep
<1>3. CASE \E k \in DOMAIN procs : Prompt(k) \/ RuntimeStatus(k) \/ RuntimeEnds(k) \/ ProcessExits(k)
  BY <1>3, RuntimeStep
<1>4. CASE Crash
  BY <1>4, CrashStep
<1>5. CASE Restart \/ UNCHANGED vars
  BY <1>5, CommandsStay DEF Restart, vars, daemon
<1> QED
  BY <1>1, <1>2, <1>3, <1>4, <1>5 DEF Next

LEMMA LaunchInvOnce == LaunchInv => LaunchOnce
<1> SUFFICES ASSUME LaunchInv PROVE LaunchOnce
  OBVIOUS
<1> DEFINE S == {k \in Procs : procs[k].by \in Launches /\ procs[k].ok}
<1>1. \A j, k \in S : j = k
  BY DEF LaunchInv, OneLaunched, Launched, Procs
<1>2. LaunchOnce <=> Cardinality(S) <= 1
  BY DEF LaunchOnce
<1> HIDE DEF S
<1>3. CASE S = {}
  BY <1>2, <1>3, FS_EmptySet
<1>4. CASE S # {}
  <2>1. PICK x : S = {x}
    BY <1>1, <1>4
  <2> QED
    BY <1>2, <2>1, FS_Singleton
<1> QED
  BY <1>3, <1>4

(* LaunchOnce, for every run of the daemon: launch (daemon.ts) writes the record  *)
(* before it starts the runtime and treats a recorded session as one already       *)
(* handled, so redelivered, forgotten and crashed launches start one runtime.      *)
THEOREM LaunchOnceCorrect == Spec => []LaunchOnce
<1>1. LaunchInv /\ [Next]_vars => LaunchInv'
  BY LaunchStep
<1> QED
  BY InitLaunch, <1>1, LaunchInvOnce, PTL DEF Spec

=============================================================================
