---------------------------- MODULE DaemonSession ----------------------------
(***************************************************************************)
(* What holds of a session as a whole: its types, its one runtime, the      *)
(* status the daemon keeps of it, the mode and the prompt it gives to the   *)
(* runtime, and what a refused launch leaves behind.  The invariant is      *)
(* proved in layers, each of which uses the ones before:                    *)
(*   Types    what handlers, objects and reports name is there;             *)
(*   Base     a command that is handled has no result yet, and waits for    *)
(*            at most one report;                                           *)
(*   Session  a runtime that is alive is the session's or about to be       *)
(*            stopped, and a start that is under way finds it so;           *)
(*   Status   what a launched session has for a status until it connects;   *)
(*   Mode     a report that tells the mode waits before the bare connected  *)
(*            ones, and a prompt waits for it;                              *)
(*   Shown    the last status sent of the session is its status, and what   *)
(*            is left to report of earlier ones is awaited.                 *)
(* Types and prompts need no hypothesis on the commands.  The others hold   *)
(* as long as the gateway gives launches and resumes one at a time          *)
(* (OneAtATime): two resumes that are outstanding at once do start two      *)
(* runtimes; the last needs one launch, one resume and one stop at all,     *)
(* which give OneAtATime.  A step is first described by what it does to     *)
(* each field of the objects, the handlers and the runtimes, and the        *)
(* layers are proved from these descriptions.                               *)
(***************************************************************************)
EXTENDS DaemonProofs

-----------------------------------------------------------------------------
(* The types                                                                *)

Points == {"idle", "posting", "reporting", "start", "starting", "started", "failing", "undone",
           "connecting", "prompting", "connected", "stopping", "stopped", "reported"}
Live   == {"created", "starting", "up"}
States == Live \cup {"closing", "gone", "orphan"}
Known  == Statuses \cup {None}

Handler == [at : Points, o : Nat, k : Nat, res : Results \cup {None},
            live : BOOLEAN, was : BOOLEAN, held : Known]
Report  == [status : Statuses, k : Nat, waits : Commands \cup {None}, mode : BOOLEAN]
Managed == [status : Statuses, connected : BOOLEAN, held : Known, adapter : Nat,
            reports : Seq(Report)]
Runtime == [st : States, o : Nat, by : Commands, ok : BOOLEAN]

\* What a handler captured is there: its session, its adapter.
HasObject  == {"reporting", "start", "starting", "started", "failing", "stopping"}
HasAdapter == {"starting", "started", "failing", "stopping"}

HandlerFits(h, m, n) ==
    /\ h.o <= m /\ h.k <= n
    /\ h.at \in HasObject => h.o # 0
    /\ h.at \in HasAdapter => h.k # 0
    /\ h.at = "posting" => h.res # None

ManagedFits(f, n) == f.adapter <= n /\ \A i \in 1..Len(f.reports) : f.reports[i].k <= n

CoreTypes ==
    /\ cmd \in [Commands -> Handler] /\ objs \in Seq(Managed) /\ procs \in Seq(Runtime)
    /\ cur \in 0..Len(objs)
    /\ \A c \in Commands : HandlerFits(cmd[c], Len(objs), Len(procs))
    /\ \A o \in 1..Len(objs) : ManagedFits(objs[o], Len(procs))
    /\ \A k \in 1..Len(procs) : procs[k].st \in Live => procs[k].o \in 1..Len(objs)

GatewayTypes ==
    /\ issued \subseteq Commands /\ recorded \in [Commands -> Results \cup {None}]
    /\ shown \in Known /\ record \in {"none", "recorded", "native"}
    /\ up \in BOOLEAN /\ dropped \in BOOLEAN
    /\ fails \in Nat /\ fails <= MaxFail /\ crashes \in Nat /\ crashes <= MaxCrash

GhostTypes == due \cup modes \cup prompts \cup bare \cup denied \subseteq 0..Len(procs)

FinishedTypes ==
    finished \in Seq([c : Commands, res : Results]) /\ Len(finished) <= MaxFinished

Types == CoreTypes /\ GatewayTypes /\ GhostTypes /\ FinishedTypes

-----------------------------------------------------------------------------
(* The commands                                                             *)

\* The commands that start a runtime.
Starters == Launches \cup Resumes

\* The gateway gives the next of them once it has the result of the last.
OneAtATime ==
    \A c, d \in issued \cap Starters : recorded[c] = None /\ recorded[d] = None => c = d

Begins    == {"reporting", "start"}
StartsUp  == {"starting", "started"}
Waiting   == {"reporting", "connecting", "undone", "stopped"}

\* A command that is handled has no result yet; only a launch or a resume starts a runtime.
Handled ==
    \A c \in Commands :
        /\ cmd[c].at # "idle" => c \in issued /\ recorded[c] = None
        /\ cmd[c].at \in Begins => c \in Launches
        /\ cmd[c].at \in StartsUp \cup {"failing"} => c \in Starters
        /\ cmd[c].at = "stopping" => c \in Stops

Waits(o, i, c) ==
    o \in 1..Len(objs) /\ i \in 1..Len(objs[o].reports) /\ objs[o].reports[i].waits = c

\* A command waits for at most one report, and only where it awaits one.
Waiters ==
    /\ \A o, i, c : Waits(o, i, c) /\ c # None => c \in Commands /\ cmd[c].at \in Waiting
    /\ \A o, i, p, j, c : Waits(o, i, c) /\ Waits(p, j, c) /\ c # None => o = p /\ i = j

-----------------------------------------------------------------------------
(* The session and its runtime                                              *)

\* A runtime that is alive is the session's, or is about to be stopped.
OwnRuntime ==
    \A k \in 1..Len(procs) : procs[k].st \in Live =>
        \/ cur # 0 /\ objs[cur].adapter = k /\ procs[k].o = cur
        \/ \E c \in Commands : cmd[c].at = "failing" /\ cmd[c].k = k

\* A runtime that is not up yet is being started, or is about to be stopped.
StartedByOne ==
    \A k \in 1..Len(procs) : procs[k].st \in {"created", "starting"} =>
        \E c \in Commands : cmd[c].at \in {"starting", "failing"} /\ cmd[c].k = k

\* What a start that is under way finds.
Start(c) ==
    LET o == cmd[c].o
        k == cmd[c].k IN
    /\ cmd[c].at \in Begins \cup StartsUp \cup {"failing"} =>
          cur = o /\ ~objs[o].connected
    /\ cmd[c].at \in Begins =>
          objs[o].adapter = 0 /\ objs[o].held = None
          /\ \A j \in 1..Len(procs) : procs[j].st \notin Live
    /\ cmd[c].at = "starting" =>
          objs[o].adapter = k /\ objs[o].held = None /\ procs[k].st \in {"created", "starting"}
    /\ cmd[c].at = "started" =>
          objs[o].adapter = k
    /\ cmd[c].at = "failing" =>
          objs[o].adapter = 0 /\ procs[k].st \in {"created", "starting"}

SessionInv == OwnRuntime /\ StartedByOne /\ \A c \in Commands : Start(c)

-----------------------------------------------------------------------------
(* The status of a launched session                                         *)

ByLaunch(k) == k # 0 /\ procs[k].by \in Launches

\* The runtime ended before the session is connected: its end is held.
HeldEnd(c) ==
    cmd[c].at = "started" =>
        /\ procs[cmd[c].k].st \in {"up", "closing", "gone"}
        /\ objs[cmd[c].o].held = "stopped" <=> procs[cmd[c].k].st # "up"

\* A launch starts with a status of its own.
NotStopped(c) ==
    cmd[c].at \in Begins \cup StartsUp /\ objs[cmd[c].o].status = "stopped" =>
        cmd[c].at = "started" /\ procs[cmd[c].k].st # "up"

StartedBy(c) == cmd[c].at \in StartsUp => procs[cmd[c].k].by = c

\* A stop has captured the adapter of a launched session.
StopsOwn(s) ==
    cmd[s].at = "stopping" =>
        /\ ByLaunch(objs[cmd[s].o].adapter) => cmd[s].k = objs[cmd[s].o].adapter
        /\ \A c \in Launches : cmd[c].at \in Begins => cmd[c].o # cmd[s].o

StatusInv ==
    /\ \A c \in Launches : HeldEnd(c) /\ NotStopped(c)
    /\ \A c \in Commands : StartedBy(c)
    /\ \A s \in Stops : StopsOwn(s)
    /\ LaunchedStatus

-----------------------------------------------------------------------------
(* The mode of a runtime                                                    *)

\* The gateway has the mode of k, or refused it; or it is told by one of the first n reports of o.
Told1(k) == k \in modes \cup denied
ModeComes(o, n, k) == \E j \in 1..n : objs[o].reports[j].mode /\ objs[o].reports[j].k = k

PromptInv == prompts \subseteq modes /\ \A k \in due : k \in modes \/ Connecting(k)

\* A connected status that waits without a mode comes after the mode, unless it was refused.
BareComes ==
    \A o \in 1..Len(objs) : \A i \in 1..Len(objs[o].reports) :
        LET r == objs[o].reports[i] IN
        r.status \in Connected /\ ~r.mode => Told1(r.k) \/ ModeComes(o, i - 1, r.k)

\* So will the next one, of the session's runtime.
UpTold ==
    cur # 0 /\ objs[cur].connected =>
        LET k == objs[cur].adapter IN
        k # 0 /\ procs[k].st = "up" => Told1(k) \/ ModeComes(cur, Len(objs[cur].reports), k)

ModeInv == bare \subseteq denied /\ BareComes /\ UpTold

-----------------------------------------------------------------------------
(* What a step does to the objects of the sessions, field by field          *)

\* Only the object o changes.
ObjOnly(o) ==
    /\ objs' \in Seq(Managed) /\ Len(objs') = Len(objs)
    /\ \A p \in 1..Len(objs) : p # o => objs'[p] = objs[p]

LEMMA OneObject ==
  ASSUME objs \in Seq(Managed), NEW o \in 1..Len(objs), NEW f \in Managed,
         objs' = [objs EXCEPT ![o] = f]
  PROVE  ObjOnly(o) /\ objs'[o] = f
BY ExceptSeq DEF ObjOnly

\* One more report waits, one less, or the first of them waits again.
Gains(o, r) ==
    /\ Len(objs'[o].reports) = Len(objs[o].reports) + 1
    /\ objs'[o].reports[Len(objs[o].reports) + 1] = r
    /\ \A i \in 1..Len(objs[o].reports) : objs'[o].reports[i] = objs[o].reports[i]

Loses(o) ==
    /\ Len(objs[o].reports) \in Nat \ {0} /\ Len(objs'[o].reports) = Len(objs[o].reports) - 1
    /\ \A i \in 1..(Len(objs[o].reports) - 1) : objs'[o].reports[i] = objs[o].reports[i + 1]

Repeats(o) ==
    /\ Len(objs[o].reports) \in Nat \ {0} /\ Len(objs'[o].reports) = Len(objs[o].reports)
    /\ \A i \in 2..Len(objs[o].reports) : objs'[o].reports[i] = objs[o].reports[i]
    /\ objs'[o].reports[1] = [objs[o].reports[1] EXCEPT !.waits = None]

LEMMA Updated ==
  ASSUME objs \in Seq(Managed), NEW o \in 1..Len(objs), NEW r \in Report, objs' = Update(o, r)
  PROVE  /\ ObjOnly(o) /\ Gains(o, r) /\ objs'[o].status = r.status
         /\ objs'[o].connected = objs[o].connected /\ objs'[o].held = objs[o].held
         /\ objs'[o].adapter = objs[o].adapter
<1>1. objs[o] \in Managed
  OBVIOUS
<1> DEFINE rs == Append(objs[o].reports, r)
<1> DEFINE f == [objs[o] EXCEPT !.status = r.status, !.reports = rs]
<1>2. /\ rs \in Seq(Report) /\ Len(rs) = Len(objs[o].reports) + 1
      /\ rs[Len(objs[o].reports) + 1] = r
      /\ \A i \in 1..Len(objs[o].reports) : rs[i] = objs[o].reports[i]
  BY <1>1, AppendProperties DEF Managed
<1>3. objs' = [objs EXCEPT ![o] = f]
  BY DEF Update
<1> HIDE DEF rs
<1>4. /\ f \in Managed /\ f.status = r.status /\ f.reports = rs
      /\ f.connected = objs[o].connected /\ f.held = objs[o].held /\ f.adapter = objs[o].adapter
  BY <1>1, <1>2 DEF Managed, Report
<1> HIDE DEF f
<1>5. ObjOnly(o) /\ objs'[o] = f
  BY <1>3, <1>4, OneObject
<1> QED
  BY <1>2, <1>4, <1>5 DEF Gains

SameFields(o) ==
    /\ objs'[o].status = objs[o].status /\ objs'[o].connected = objs[o].connected
    /\ objs'[o].held = objs[o].held /\ objs'[o].adapter = objs[o].adapter

LEMMA HeldSet ==
  ASSUME objs \in Seq(Managed), NEW o \in 1..Len(objs), NEW h \in Known,
         objs' = [objs EXCEPT ![o].held = h]
  PROVE  /\ ObjOnly(o)
         /\ objs'[o].held = h
         /\ objs'[o].status = objs[o].status /\ objs'[o].connected = objs[o].connected
         /\ objs'[o].adapter = objs[o].adapter /\ objs'[o].reports = objs[o].reports
<1>1. objs[o] \in Managed
  OBVIOUS
<1> DEFINE f == [objs[o] EXCEPT !.held = h]
<1>2. objs' = [objs EXCEPT ![o] = f]
  OBVIOUS
<1>3. /\ f \in Managed /\ f.held = h
      /\ f.status = objs[o].status /\ f.connected = objs[o].connected
      /\ f.adapter = objs[o].adapter /\ f.reports = objs[o].reports
  BY <1>1 DEF Managed
<1> HIDE DEF f
<1>4. ObjOnly(o) /\ objs'[o] = f
  BY <1>2, <1>3, OneObject
<1> QED
  BY <1>3, <1>4

LEMMA AdapterSet ==
  ASSUME objs \in Seq(Managed), NEW o \in 1..Len(objs), NEW a \in Nat,
         objs' = [objs EXCEPT ![o].adapter = a]
  PROVE  /\ ObjOnly(o)
         /\ objs'[o].adapter = a
         /\ objs'[o].status = objs[o].status /\ objs'[o].connected = objs[o].connected
         /\ objs'[o].held = objs[o].held /\ objs'[o].reports = objs[o].reports
<1>1. objs[o] \in Managed
  OBVIOUS
<1> DEFINE f == [objs[o] EXCEPT !.adapter = a]
<1>2. objs' = [objs EXCEPT ![o] = f]
  OBVIOUS
<1>3. /\ f \in Managed /\ f.adapter = a
      /\ f.status = objs[o].status /\ f.connected = objs[o].connected
      /\ f.held = objs[o].held /\ f.reports = objs[o].reports
  BY <1>1 DEF Managed
<1> HIDE DEF f
<1>4. ObjOnly(o) /\ objs'[o] = f
  BY <1>2, <1>3, OneObject
<1> QED
  BY <1>3, <1>4

LEMMA ConnectedSet ==
  ASSUME objs \in Seq(Managed), NEW o \in 1..Len(objs), NEW c \in BOOLEAN, NEW h \in Known,
         objs' = [objs EXCEPT ![o].connected = c, ![o].held = h]
  PROVE  /\ ObjOnly(o)
         /\ objs'[o].connected = c /\ objs'[o].held = h
         /\ objs'[o].status = objs[o].status /\ objs'[o].adapter = objs[o].adapter
         /\ objs'[o].reports = objs[o].reports
<1>1. objs[o] \in Managed
  OBVIOUS
<1> DEFINE f == [objs[o] EXCEPT !.connected = c, !.held = h]
<1>2. objs' = [objs EXCEPT ![o] = f]
  OBVIOUS
<1>3. /\ f \in Managed /\ f.connected = c /\ f.held = h
      /\ f.status = objs[o].status /\ f.adapter = objs[o].adapter /\ f.reports = objs[o].reports
  BY <1>1 DEF Managed
<1> HIDE DEF f
<1>4. ObjOnly(o) /\ objs'[o] = f
  BY <1>2, <1>3, OneObject
<1> QED
  BY <1>3, <1>4

LEMMA Replaced ==
  ASSUME objs \in Seq(Managed), NEW o \in 1..Len(objs), NEW a \in Nat, None \in Known,
         objs' = [objs EXCEPT ![o].connected = FALSE, ![o].held = None, ![o].adapter = a]
  PROVE  /\ ObjOnly(o)
         /\ objs'[o].connected = FALSE /\ objs'[o].held = None /\ objs'[o].adapter = a
         /\ objs'[o].status = objs[o].status /\ objs'[o].reports = objs[o].reports
<1>1. objs[o] \in Managed
  OBVIOUS
<1> DEFINE f == [objs[o] EXCEPT !.connected = FALSE, !.held = None, !.adapter = a]
<1>2. objs' = [objs EXCEPT ![o] = f]
  OBVIOUS
<1>3. /\ f \in Managed /\ f.connected = FALSE /\ f.held = None /\ f.adapter = a
      /\ f.status = objs[o].status /\ f.reports = objs[o].reports
  BY <1>1 DEF Managed
<1> HIDE DEF f
<1>4. ObjOnly(o) /\ objs'[o] = f
  BY <1>2, <1>3, OneObject
<1> QED
  BY <1>3, <1>4

LEMMA ReportsSet ==
  ASSUME objs \in Seq(Managed), NEW o \in 1..Len(objs), NEW rs \in Seq(Report),
         objs' = [objs EXCEPT ![o].reports = rs]
  PROVE  /\ ObjOnly(o) /\ objs'[o].reports = rs /\ objs'[o].status = objs[o].status
         /\ objs'[o].connected = objs[o].connected /\ objs'[o].held = objs[o].held
         /\ objs'[o].adapter = objs[o].adapter
<1>1. objs[o] \in Managed
  OBVIOUS
<1> DEFINE f == [objs[o] EXCEPT !.reports = rs]
<1>2. objs' = [objs EXCEPT ![o] = f]
  OBVIOUS
<1>3. /\ f \in Managed /\ f.reports = rs /\ f.status = objs[o].status
      /\ f.connected = objs[o].connected /\ f.held = objs[o].held /\ f.adapter = objs[o].adapter
  BY <1>1 DEF Managed
<1> HIDE DEF f
<1>4. ObjOnly(o) /\ objs'[o] = f
  BY <1>2, <1>3, OneObject
<1> QED
  BY <1>3, <1>4

\* The first report of o was attempted: it is gone, or waits to be sent again.
LEMMA Attempted ==
  ASSUME objs \in Seq(Managed), NEW o \in 1..Len(objs), objs[o].reports # <<>>
  PROVE  /\ Head(objs[o].reports) = objs[o].reports[1] /\ objs[o].reports[1] \in Report
         /\ Len(objs[o].reports) \in Nat \ {0}
         /\ Pop(o) => ObjOnly(o) /\ SameFields(o) /\ Loses(o)
         /\ Retry(o, Head(objs[o].reports)) => ObjOnly(o) /\ SameFields(o) /\ Repeats(o)
<1> DEFINE s == objs[o].reports
<1>1. s \in Seq(Report) /\ s # <<>>
  <2>1. objs[o] \in Managed
    OBVIOUS
  <2> QED
    BY <2>1 DEF Managed
<1> HIDE DEF s
<1>2. Len(s) \in Nat \ {0} /\ Head(s) = s[1] /\ s[1] \in Report
  BY <1>1
<1>3. ASSUME Pop(o) PROVE ObjOnly(o) /\ SameFields(o) /\ Loses(o)
  <2> DEFINE t == Tail(s)
  <2>1. /\ t \in Seq(Report) /\ Len(t) = Len(s) - 1
        /\ \A i \in 1..(Len(s) - 1) : t[i] = s[i + 1]
    BY <1>1, <1>2
  <2>2. objs' = [objs EXCEPT ![o].reports = t]
    BY <1>3 DEF Pop, s
  <2> HIDE DEF t
  <2> QED
    BY <1>2, <2>1, <2>2, ReportsSet DEF SameFields, Loses, s
<1>4. ASSUME Retry(o, Head(s)) PROVE ObjOnly(o) /\ SameFields(o) /\ Repeats(o)
  <2> DEFINE x == [s[1] EXCEPT !.waits = None]
  <2> DEFINE t == <<x>> \o Tail(s)
  <2>1. x \in Report
    BY <1>2 DEF Report
  <2>2. objs' = [objs EXCEPT ![o].reports = t]
    BY <1>2, <1>4 DEF Retry, s
  <2>3. Repeats(o) <=> /\ Len(objs'[o].reports) = Len(s) /\ objs'[o].reports[1] = x
                       /\ \A i \in 2..Len(s) : objs'[o].reports[i] = s[i]
    BY <1>2 DEF Repeats, s
  <2> HIDE DEF x
  <2>4. t \in Seq(Report) /\ Len(t) = Len(s) /\ t[1] = x /\ \A i \in 2..Len(s) : t[i] = s[i]
    <3>1. /\ Tail(s) \in Seq(Report) /\ Len(Tail(s)) = Len(s) - 1
          /\ \A i \in 1..(Len(s) - 1) : Tail(s)[i] = s[i + 1]
      BY <1>1, <1>2
    <3> QED
      BY <1>2, <2>1, <3>1
  <2> HIDE DEF t
  <2> QED
    BY <2>2, <2>3, <2>4, ReportsSet DEF SameFields
<1> QED
  BY <1>2, <1>3, <1>4 DEF s

LEMMA Connects ==
  ASSUME objs \in Seq(Managed), NEW o \in 1..Len(objs), NEW r \in Report,
         objs' = [objs EXCEPT ![o].connected = TRUE, ![o].held = None, ![o].status = r.status,
                              ![o].reports = Append(@, r)]
  PROVE  /\ ObjOnly(o) /\ Gains(o, r) /\ objs'[o].status = r.status
         /\ objs'[o].connected = TRUE /\ objs'[o].held = None
         /\ objs'[o].adapter = objs[o].adapter
<1>1. objs[o] \in Managed
  OBVIOUS
<1> DEFINE rs == Append(objs[o].reports, r)
<1> DEFINE f == [objs[o] EXCEPT !.connected = TRUE, !.held = None, !.status = r.status,
                                !.reports = rs]
<1>2. /\ rs \in Seq(Report) /\ Len(rs) = Len(objs[o].reports) + 1
      /\ rs[Len(objs[o].reports) + 1] = r
      /\ \A i \in 1..Len(objs[o].reports) : rs[i] = objs[o].reports[i]
  BY <1>1, AppendProperties DEF Managed
<1>3. objs' = [objs EXCEPT ![o] = f]
  OBVIOUS
<1> HIDE DEF rs
<1>4. /\ f \in Managed /\ f.status = r.status /\ f.reports = rs
      /\ f.connected = TRUE /\ f.held = None /\ f.adapter = objs[o].adapter
  BY <1>1, <1>2 DEF Managed, Report, Known
<1> HIDE DEF f
<1>5. ObjOnly(o) /\ objs'[o] = f
  BY <1>3, <1>4, OneObject
<1> QED
  BY <1>2, <1>4, <1>5 DEF Gains

\* A status a runtime reports: told at once, or held until the session is connected.
LEMMA Tells ==
  ASSUME objs \in Seq(Managed), NEW o \in 1..Len(objs), NEW k \in Nat, NEW s \in Statuses,
         objs' = Told(o, k, s)
  PROVE  /\ ObjOnly(o)
         /\ objs'[o].connected = objs[o].connected /\ objs'[o].adapter = objs[o].adapter
         /\ \/ /\ objs[o].connected /\ objs'[o].status = s /\ objs'[o].held = objs[o].held
               /\ Gains(o, Rep(s, k, None, FALSE))
            \/ /\ ~objs[o].connected /\ objs'[o].status = objs[o].status /\ objs'[o].held = s
               /\ objs'[o].reports = objs[o].reports
<1>1. objs[o] \in Managed
  OBVIOUS
<1>2. objs[o].connected \in BOOLEAN /\ objs[o].adapter \in Nat
  BY <1>1 DEF Managed
<1>3. CASE objs[o].connected
  <2> DEFINE r == Rep(s, k, None, FALSE)
  <2>1. r \in Report /\ r.status = s
    BY DEF Rep, Report
  <2>2. objs' = Update(o, r)
    BY <1>3 DEF Told
  <2> HIDE DEF r
  <2>3. /\ ObjOnly(o) /\ Gains(o, r) /\ objs'[o].status = s
        /\ objs'[o].connected = objs[o].connected /\ objs'[o].held = objs[o].held
        /\ objs'[o].adapter = objs[o].adapter
    BY <2>1, <2>2, Updated
  <2> QED
    BY <1>3, <2>3 DEF r
<1>4. CASE ~objs[o].connected
  <2>1. s \in Known /\ objs' = [objs EXCEPT ![o].held = s]
    BY <1>4 DEF Told, Known
  <2> QED
    BY <1>4, <2>1, HeldSet
<1> QED
  BY <1>2, <1>3, <1>4

\* An object is made, for a session that has none.
LEMMA Made ==
  ASSUME objs \in Seq(Managed), NEW f \in Managed, objs' = Append(objs, f)
  PROVE  /\ objs' \in Seq(Managed) /\ Len(objs') = Len(objs) + 1 /\ objs'[Len(objs) + 1] = f
         /\ \A p \in 1..Len(objs) : objs'[p] = objs[p]
BY AppendProperties

-----------------------------------------------------------------------------
(* What a step does to the handlers and to the runtimes                     *)

\* Only the handler of c changes.
CmdOnly(c) ==
    /\ cmd' \in [Commands -> Handler]
    /\ \A d \in Commands : d # c => cmd'[d] = cmd[d]

Elsewhere(h, g) ==
    h.o = g.o /\ h.k = g.k /\ h.res = g.res /\ h.live = g.live /\ h.was = g.was /\ h.held = g.held

LEMMA Moves ==
  ASSUME cmd \in [Commands -> Handler], NEW c \in Commands, NEW at \in Points, At(c, at)
  PROVE  CmdOnly(c) /\ cmd'[c].at = at /\ Elsewhere(cmd'[c], cmd[c])
<1>1. cmd[c] \in Handler
  OBVIOUS
<1> DEFINE f == [cmd[c] EXCEPT !.at = at]
<1>2. cmd' = [cmd EXCEPT ![c] = f]
  BY DEF At
<1>3. f \in Handler /\ f.at = at /\ Elsewhere(f, cmd[c])
  BY <1>1 DEF Handler, Elsewhere
<1> HIDE DEF f
<1> QED
  BY <1>2, <1>3 DEF CmdOnly

LEMMA Replaces ==
  ASSUME cmd \in [Commands -> Handler], NEW c \in Commands, NEW f \in Handler,
         cmd' = [cmd EXCEPT ![c] = f]
  PROVE  CmdOnly(c) /\ cmd'[c] = f
BY DEF CmdOnly

LEMMA IdleHandler ==
  /\ Idle \in Handler /\ Idle.at = "idle" /\ Idle.o = 0 /\ Idle.k = 0
  /\ \A res \in Results : LET f == [Idle EXCEPT !.at = "posting", !.res = res] IN
        f \in Handler /\ f.at = "posting" /\ f.o = 0 /\ f.k = 0 /\ f.res = res
BY DEF Idle, Handler, Points, Known

LEMMA Posts ==
  ASSUME cmd \in [Commands -> Handler], NEW c \in Commands, NEW res \in Results, Posting(c, res)
  PROVE  CmdOnly(c) /\ cmd'[c].at = "posting" /\ cmd'[c].o = 0 /\ cmd'[c].k = 0 /\ cmd'[c].res = res
<1> DEFINE f == [Idle EXCEPT !.at = "posting", !.res = res]
<1>1. f \in Handler /\ f.at = "posting" /\ f.o = 0 /\ f.k = 0 /\ f.res = res
  BY IdleHandler
<1>2. cmd' = [cmd EXCEPT ![c] = f]
  BY DEF Posting
<1> HIDE DEF f
<1> QED
  BY <1>1, <1>2, Replaces

\* Where a command goes that awaited the attempt of a report.
GoesOn(from, to) ==
    \/ from = "reporting" /\ to = "start"
    \/ from = "connecting" /\ to \in {"prompting", "connected"}
    \/ from \notin {"reporting", "connecting"} /\ to = "reported"

LEMMA Wakes ==
  ASSUME cmd \in [Commands -> Handler], NEW r \in Report, NEW d \in BOOLEAN, cmd' = Woken(r, d)
  PROVE  /\ r.waits = None => cmd' = cmd
         /\ r.waits # None => /\ r.waits \in Commands /\ CmdOnly(r.waits)
                              /\ GoesOn(cmd[r.waits].at, cmd'[r.waits].at)
                              /\ Elsewhere(cmd'[r.waits], cmd[r.waits])
<1>1. CASE r.waits = None
  BY <1>1 DEF Woken
<1>2. CASE r.waits # None
  <2> DEFINE w == r.waits
  <2> DEFINE at(x) == IF x = "reporting" THEN "start"
                      ELSE IF x = "connecting" THEN (IF d THEN "prompting" ELSE "connected")
                      ELSE "reported"
  <2>1. w \in Commands
    BY <1>2 DEF Report
  <2>2. \A x : (CASE x = "reporting"  -> "start"
                  [] x = "connecting" -> IF d THEN "prompting" ELSE "connected"
                  [] OTHER            -> "reported") = at(x)
    OBVIOUS
  <2>3. cmd' = [cmd EXCEPT ![w].at = at(@)]
    BY <1>2, <2>2 DEF Woken
  <2> DEFINE x == at(cmd[w].at)
  <2>4. At(w, x)
    BY <2>3 DEF At
  <2>5. GoesOn(cmd[w].at, x) /\ x \in Points
    BY DEF GoesOn, Points
  <2> HIDE DEF x, w
  <2>6. CmdOnly(w) /\ cmd'[w].at = x /\ Elsewhere(cmd'[w], cmd[w])
    BY <2>1, <2>4, <2>5, Moves
  <2> QED
    BY <1>2, <2>1, <2>5, <2>6 DEF w
<1> QED
  BY <1>1, <1>2

\* The runtimes are the same ones, k has another state.
ProcOnly(k) ==
    /\ procs' \in Seq(Runtime) /\ Len(procs') = Len(procs)
    /\ \A j \in 1..Len(procs) :
          /\ procs'[j].o = procs[j].o /\ procs'[j].by = procs[j].by
          /\ j # k => procs'[j].st = procs[j].st

LEMMA Sets ==
  ASSUME procs \in Seq(Runtime), NEW k \in 1..Len(procs), NEW st \in States,
         SetProc(k, st) \/ procs' = [procs EXCEPT ![k].st = st, ![k].ok = TRUE]
  PROVE  ProcOnly(k) /\ procs'[k].st = st
<1>1. procs[k] \in Runtime
  OBVIOUS
<1>2. PICK ok \in BOOLEAN : procs' = [procs EXCEPT ![k] = [procs[k] EXCEPT !.st = st, !.ok = ok]]
  <2>1. CASE SetProc(k, st)
    <3>1. [procs[k] EXCEPT !.st = st] = [procs[k] EXCEPT !.st = st, !.ok = procs[k].ok]
      BY <1>1 DEF Runtime
    <3>2. procs' = [procs EXCEPT ![k] = [procs[k] EXCEPT !.st = st]] /\ procs[k].ok \in BOOLEAN
      BY <1>1, <2>1 DEF SetProc, Runtime
    <3> QED
      BY <3>1, <3>2
  <2>2. CASE procs' = [procs EXCEPT ![k].st = st, ![k].ok = TRUE]
    <3>1. procs' = [procs EXCEPT ![k] = [procs[k] EXCEPT !.st = st, !.ok = TRUE]]
      BY <2>2
    <3> QED
      BY <3>1
  <2> QED
    BY <2>1, <2>2
<1> DEFINE f == [procs[k] EXCEPT !.st = st, !.ok = ok]
<1>3. f \in Runtime /\ f.st = st /\ f.o = procs[k].o /\ f.by = procs[k].by
  BY <1>1 DEF Runtime
<1> HIDE DEF f
<1>4. procs' = [procs EXCEPT ![k] = f]
  BY <1>2 DEF f
<1> QED
  BY <1>3, <1>4, ExceptSeq DEF ProcOnly

LEMMA Joins ==
  ASSUME procs \in Seq(Runtime), NEW o \in Nat, NEW c \in Commands, procs' = NewProc(o, c)
  PROVE  LET n == Len(procs) + 1 IN
         /\ procs' \in Seq(Runtime) /\ Len(procs') = n
         /\ procs'[n].st \in {"created", "starting"} /\ procs'[n].o = o /\ procs'[n].by = c
         /\ \A j \in 1..Len(procs) : procs'[j] = procs[j]
<1> DEFINE f == [st |-> Begun, o |-> o, by |-> c, ok |-> FALSE]
<1>1. f \in Runtime /\ f.st \in {"created", "starting"} /\ f.o = o /\ f.by = c
  BY DEF Runtime, Begun, States, Live
<1>2. procs' = Append(procs, f)
  BY DEF NewProc
<1> HIDE DEF f
<1> QED
  BY <1>1, <1>2, AppendProperties

LEMMA Dies ==
  ASSUME procs \in Seq(Runtime), Crash
  PROVE  /\ procs' \in Seq(Runtime) /\ Len(procs') = Len(procs)
         /\ \A j \in 1..Len(procs) : procs'[j].st \in {"gone", "orphan"}
<1>1. PICK st \in {"gone", "orphan"} : procs' = [k \in DOMAIN procs |->
            IF procs[k].st \in {"created", "gone"} THEN [procs[k] EXCEPT !.st = "gone"]
            ELSE [procs[k] EXCEPT !.st = st]]
  BY DEF Crash
<1> DEFINE f(k) == IF procs[k].st \in {"created", "gone"} THEN [procs[k] EXCEPT !.st = "gone"]
                   ELSE [procs[k] EXCEPT !.st = st]
<1>2. DOMAIN procs = 1..Len(procs) /\ Len(procs) \in Nat
  BY LenProperties
<1>3. \A k \in 1..Len(procs) : f(k) \in Runtime /\ f(k).st \in {"gone", "orphan"}
  <2> SUFFICES ASSUME NEW k \in 1..Len(procs) PROVE f(k) \in Runtime /\ f(k).st \in {"gone", "orphan"}
    OBVIOUS
  <2>1. procs[k] \in Runtime
    BY <1>2
  <2> QED
    BY <2>1 DEF Runtime, States
<1>4. procs' = [k \in 1..Len(procs) |-> f(k)]
  BY <1>1, <1>2
<1> HIDE DEF f
<1>5. procs' \in [1..Len(procs) -> Runtime]
  BY <1>3, <1>4
<1>6. procs' \in Seq(Runtime)
  BY <1>2, <1>5, SeqDef
<1>7. Len(procs') = Len(procs)
  BY <1>2, <1>5, <1>6, LenProperties
<1> QED
  BY <1>3, <1>4, <1>6, <1>7

-----------------------------------------------------------------------------
(* The steps, field by field                                                *)

KeepProcs == procs' = procs
KeepObjs  == objs' = objs /\ cur' = cur

LEMMA CoreFacts ==
  ASSUME CoreTypes
  PROVE  /\ cmd \in [Commands -> Handler] /\ objs \in Seq(Managed) /\ procs \in Seq(Runtime)
         /\ Len(objs) \in Nat /\ Len(procs) \in Nat /\ cur \in Nat /\ cur <= Len(objs)
         /\ DOMAIN objs = 1..Len(objs) /\ DOMAIN procs = 1..Len(procs)
         /\ \A c \in Commands : cmd[c] \in Handler /\ HandlerFits(cmd[c], Len(objs), Len(procs))
         /\ \A o \in 1..Len(objs) : objs[o] \in Managed /\ ManagedFits(objs[o], Len(procs))
         /\ \A k \in 1..Len(procs) : procs[k] \in Runtime
BY LenProperties DEF CoreTypes

\* A handler that captured its session and its adapter.
LEMMA Captured ==
  ASSUME CoreTypes, NEW c \in Commands
  PROVE  /\ cmd[c].o \in Nat /\ cmd[c].k \in Nat /\ cmd[c].at \in Points /\ cmd[c].held \in Known
         /\ cmd[c].was \in BOOLEAN /\ cmd[c].live \in BOOLEAN /\ cmd[c].res \in Results \cup {None}
         /\ cmd[c].at = "posting" => cmd[c].res \in Results
         /\ cmd[c].at \in HasObject => cmd[c].o \in 1..Len(objs)
         /\ cmd[c].at \in HasAdapter => cmd[c].k \in 1..Len(procs)
BY CoreFacts DEF HandlerFits, Handler

LEMMA ReportTypes ==
  ASSUME CoreTypes, NEW o \in 1..Len(objs)
  PROVE  /\ objs[o].reports \in Seq(Report) /\ Len(objs[o].reports) \in Nat
         /\ \A i \in 1..Len(objs[o].reports) :
               objs[o].reports[i] \in Report /\ objs[o].reports[i].k \in Nat
<1>1. objs[o].reports \in Seq(Report)
  BY CoreFacts DEF Managed
<1>2. Len(objs[o].reports) \in Nat /\ \A i \in 1..Len(objs[o].reports) : objs[o].reports[i] \in Report
  BY <1>1, LenProperties
<1>3. \A r \in Report : r.k \in Nat
  BY DEF Report
<1> QED
  BY <1>1, <1>2, <1>3

LEMMA StartAdapterEffect ==
  ASSUME CoreTypes, NEW c \in Commands, StartAdapter(c)
  PROVE  LET o == cmd[c].o
             n == Len(procs) + 1 IN
         /\ cmd[c].at = "start" /\ o \in 1..Len(objs) /\ cur' = cur
         /\ CmdOnly(c) /\ cmd'[c].at = "starting" /\ cmd'[c].k = n /\ cmd'[c].o = o
         /\ ObjOnly(o) /\ objs'[o].adapter = n /\ objs'[o].status = objs[o].status
         /\ objs'[o].connected = objs[o].connected /\ objs'[o].held = objs[o].held
         /\ objs'[o].reports = objs[o].reports
         /\ procs' \in Seq(Runtime) /\ Len(procs') = n
         /\ procs'[n].st \in {"created", "starting"} /\ procs'[n].o = o /\ procs'[n].by = c
         /\ \A j \in 1..Len(procs) : procs'[j] = procs[j]
<1> DEFINE o == cmd[c].o
<1> DEFINE n == Len(procs) + 1
<1>1. /\ cmd[c].at = "start" /\ cur' = cur /\ procs' = NewProc(o, c)
      /\ objs' = [objs EXCEPT ![o].adapter = n]
      /\ cmd' = [cmd EXCEPT ![c].at = "starting", ![c].k = n]
  BY DEF StartAdapter
<1>2. o \in 1..Len(objs) /\ n \in Nat /\ cmd[c] \in Handler
  BY <1>1, Captured, CoreFacts DEF HasObject
<1> DEFINE f == [cmd[c] EXCEPT !.at = "starting", !.k = n]
<1>3. f \in Handler /\ f.at = "starting" /\ f.k = n /\ f.o = o
  BY <1>2 DEF Handler, Points
<1>4. cmd' = [cmd EXCEPT ![c] = f]
  BY <1>1
<1> HIDE DEF f
<1>5. CmdOnly(c) /\ cmd'[c] = f
  BY <1>3, <1>4, Replaces, CoreFacts
<1> HIDE DEF o
<1>6. /\ procs' \in Seq(Runtime) /\ Len(procs') = n
      /\ procs'[n].st \in {"created", "starting"} /\ procs'[n].o = o /\ procs'[n].by = c
      /\ \A j \in 1..Len(procs) : procs'[j] = procs[j]
  BY <1>1, <1>2, Joins, CoreFacts
<1> HIDE DEF n
<1>7. /\ ObjOnly(o) /\ objs'[o].adapter = n /\ objs'[o].status = objs[o].status
      /\ objs'[o].connected = objs[o].connected /\ objs'[o].held = objs[o].held
      /\ objs'[o].reports = objs[o].reports
  BY <1>1, <1>2, AdapterSet, CoreFacts
<1> QED
  BY <1>1, <1>2, <1>3, <1>5, <1>6, <1>7 DEF o, n

LEMMA StateEffect ==
  ASSUME CoreTypes, NEW c \in Commands, Spawn(c) \/ AdapterStarts(c)
  PROVE  LET k == cmd[c].k IN
         /\ cmd[c].at = "starting" /\ k \in 1..Len(procs) /\ KeepObjs /\ ProcOnly(k)
         /\ procs[k].st \in {"created", "starting"}
         /\ Spawn(c) => procs'[k].st = "starting" /\ cmd' = cmd
         /\ AdapterStarts(c) => /\ procs'[k].st = "up" /\ CmdOnly(c)
                                /\ cmd'[c].at = "started" /\ Elsewhere(cmd'[c], cmd[c])
<1> DEFINE k == cmd[c].k
<1>1. cmd[c].at = "starting" /\ KeepObjs /\ procs[k].st \in {"created", "starting"}
  BY DEF Spawn, AdapterStarts, daemon, KeepObjs
<1>2. k \in 1..Len(procs)
  BY <1>1, Captured DEF HasAdapter
<1>3. ASSUME Spawn(c) PROVE ProcOnly(k) /\ procs'[k].st = "starting" /\ cmd' = cmd
  <2>1. SetProc(k, "starting") /\ "starting" \in States /\ cmd' = cmd
    BY <1>3 DEF Spawn, daemon, States, Live
  <2> HIDE DEF k
  <2> QED
    BY <1>2, <2>1, Sets, CoreFacts
<1>4. ASSUME AdapterStarts(c)
      PROVE  /\ ProcOnly(k) /\ procs'[k].st = "up" /\ CmdOnly(c)
             /\ cmd'[c].at = "started" /\ Elsewhere(cmd'[c], cmd[c])
  <2>1. /\ procs' = [procs EXCEPT ![k].st = "up", ![k].ok = TRUE] /\ "up" \in States
        /\ At(c, "started") /\ "started" \in Points
    BY <1>4 DEF AdapterStarts, States, Live, Points
  <2>2. CmdOnly(c) /\ cmd'[c].at = "started" /\ Elsewhere(cmd'[c], cmd[c])
    BY <2>1, Moves, CoreFacts
  <2> HIDE DEF k
  <2>3. ProcOnly(k) /\ procs'[k].st = "up"
    BY <1>2, <2>1, Sets, CoreFacts
  <2> QED
    BY <2>2, <2>3
<1> QED
  BY <1>1, <1>2, <1>3, <1>4

LEMMA StartFailsEffect ==
  ASSUME CoreTypes, NEW c \in Commands, StartFails(c)
  PROVE  LET o == cmd[c].o IN
         /\ cmd[c].at = "starting" /\ o \in 1..Len(objs) /\ cmd[c].k \in 1..Len(procs)
         /\ cur' = cur /\ KeepProcs
         /\ CmdOnly(c) /\ cmd'[c].at = "failing" /\ Elsewhere(cmd'[c], cmd[c])
         /\ ObjOnly(o) /\ objs'[o].adapter = 0 /\ objs'[o].status = objs[o].status
         /\ objs'[o].connected = objs[o].connected /\ objs'[o].held = objs[o].held
         /\ objs'[o].reports = objs[o].reports
<1> DEFINE o == cmd[c].o
<1>1. /\ cmd[c].at = "starting" /\ cur' = cur /\ KeepProcs
      /\ objs' = [objs EXCEPT ![o].adapter = 0] /\ At(c, "failing") /\ "failing" \in Points
  BY DEF StartFails, KeepProcs, Points
<1>2. o \in 1..Len(objs) /\ cmd[c].k \in 1..Len(procs)
  BY <1>1, Captured DEF HasObject, HasAdapter
<1>3. CmdOnly(c) /\ cmd'[c].at = "failing" /\ Elsewhere(cmd'[c], cmd[c])
  BY <1>1, Moves, CoreFacts
<1> HIDE DEF o
<1>4. /\ ObjOnly(o) /\ objs'[o].adapter = 0 /\ objs'[o].status = objs[o].status
      /\ objs'[o].connected = objs[o].connected /\ objs'[o].held = objs[o].held
      /\ objs'[o].reports = objs[o].reports
  BY <1>1, <1>2, AdapterSet, CoreFacts
<1> QED
  BY <1>1, <1>2, <1>3, <1>4 DEF o

\* The process of k is stopped, or may still run.
LEMMA StopsProcess ==
  ASSUME CoreTypes, NEW k \in 1..Len(procs), Stopped(k)
  PROVE  ProcOnly(k) /\ procs'[k].st \in {"gone", "orphan"}
<1>1. \E st \in {"gone", "orphan"} : SetProc(k, st)
  BY DEF Stopped
<1>2. {"gone", "orphan"} \subseteq States
  BY DEF States
<1> QED
  BY <1>1, <1>2, Sets, CoreFacts

LEMMA LaunchFailedEffect ==
  ASSUME CoreTypes, NEW c \in Commands, LaunchFailed(c)
  PROVE  LET o == cmd[c].o
             k == cmd[c].k
             r == Rep("failed", k, c, FALSE) IN
         /\ cmd[c].at = "failing" /\ o \in 1..Len(objs) /\ k \in 1..Len(procs) /\ cur' = 0
         /\ r \in Report /\ r.waits = c
         /\ ProcOnly(k) /\ procs'[k].st \in {"gone", "orphan"}
         /\ CmdOnly(c) /\ cmd'[c].at = "undone" /\ Elsewhere(cmd'[c], cmd[c])
         /\ ObjOnly(o) /\ Gains(o, r) /\ objs'[o].adapter = objs[o].adapter
         /\ objs'[o].connected = objs[o].connected /\ objs'[o].held = objs[o].held
<1> DEFINE o == cmd[c].o
<1> DEFINE k == cmd[c].k
<1> DEFINE r == Rep("failed", k, c, FALSE)
<1>1. /\ cmd[c].at = "failing" /\ cur' = 0 /\ Stopped(k)
      /\ objs' = Update(o, r) /\ At(c, "undone") /\ "undone" \in Points
  BY DEF LaunchFailed, Points
<1>2. o \in 1..Len(objs) /\ k \in 1..Len(procs)
  BY <1>1, Captured DEF HasObject, HasAdapter
<1>3. r \in Report /\ r.waits = c
  BY <1>2, CoreFacts DEF Rep, Report, Statuses
<1>4. CmdOnly(c) /\ cmd'[c].at = "undone" /\ Elsewhere(cmd'[c], cmd[c])
  BY <1>1, Moves, CoreFacts
<1> HIDE DEF o, r
<1>5. /\ ObjOnly(o) /\ Gains(o, r) /\ objs'[o].adapter = objs[o].adapter
      /\ objs'[o].connected = objs[o].connected /\ objs'[o].held = objs[o].held
  BY <1>1, <1>2, <1>3, Updated, CoreFacts
<1> HIDE DEF k
<1>6. ProcOnly(k) /\ procs'[k].st \in {"gone", "orphan"}
  BY <1>1, <1>2, StopsProcess
<1> QED
  BY <1>1, <1>2, <1>3, <1>4, <1>5, <1>6 DEF o, k, r

LEMMA ResumeFailedEffect ==
  ASSUME CoreTypes, NEW c \in Commands, ResumeFailed(c)
  PROVE  LET o == cmd[c].o
             k == cmd[c].k IN
         /\ cmd[c].at = "failing" /\ o \in 1..Len(objs) /\ k \in 1..Len(procs)
         /\ ProcOnly(k) /\ procs'[k].st \in {"gone", "orphan"}
         /\ CmdOnly(c) /\ cmd'[c].at = "posting" /\ cmd'[c].o = 0 /\ cmd'[c].k = 0
         /\ cmd'[c].res \in Results
         /\ \/ ~cmd[c].live /\ cur' = 0 /\ objs' = objs
            \/ /\ cmd[c].live /\ cur' = cur /\ ObjOnly(o) /\ objs'[o].adapter = objs[o].adapter
               /\ objs'[o].status = objs[o].status /\ objs'[o].reports = objs[o].reports
<1> DEFINE o == cmd[c].o
<1> DEFINE k == cmd[c].k
<1> DEFINE w == cmd[c].was
<1> DEFINE h == cmd[c].held
<1>1. /\ cmd[c].at = "failing" /\ Stopped(k) /\ Posting(c, "refused") /\ "refused" \in Results
      /\ \/ cmd[c].live /\ objs' = [objs EXCEPT ![o].connected = w, ![o].held = h] /\ cur' = cur
         \/ ~cmd[c].live /\ cur' = 0 /\ objs' = objs
  BY DEF ResumeFailed, Results
<1>2. o \in 1..Len(objs) /\ k \in 1..Len(procs) /\ w \in BOOLEAN /\ h \in Known
  BY <1>1, Captured DEF HasObject, HasAdapter
<1>3. /\ CmdOnly(c) /\ cmd'[c].at = "posting" /\ cmd'[c].o = 0 /\ cmd'[c].k = 0
      /\ cmd'[c].res \in Results
  BY <1>1, Posts, CoreFacts
<1> HIDE DEF o, w, h
<1>4. ASSUME objs' = [objs EXCEPT ![o].connected = w, ![o].held = h]
      PROVE  /\ ObjOnly(o) /\ objs'[o].adapter = objs[o].adapter
             /\ objs'[o].status = objs[o].status /\ objs'[o].reports = objs[o].reports
  BY <1>2, <1>4, ConnectedSet, CoreFacts
<1> HIDE DEF k
<1>5. ProcOnly(k) /\ procs'[k].st \in {"gone", "orphan"}
  BY <1>1, <1>2, StopsProcess
<1> QED
  BY <1>1, <1>2, <1>3, <1>4, <1>5 DEF o, k

LEMMA ConnectEffect ==
  ASSUME CoreTypes, NEW c \in Commands, Connect(c)
  PROVE  LET o == cmd[c].o
             k == cmd[c].k
             r == Rep(Held(o), k, c, TRUE) IN
         /\ cmd[c].at = "started" /\ o \in 1..Len(objs) /\ k \in 1..Len(procs)
         /\ cur' = cur /\ KeepProcs
         /\ r \in Report /\ r.waits = c /\ r.k = k /\ r.mode = TRUE /\ r.status = Held(o)
         /\ CmdOnly(c) /\ cmd'[c].at = "connecting" /\ Elsewhere(cmd'[c], cmd[c])
         /\ ObjOnly(o) /\ Gains(o, r) /\ objs'[o].adapter = objs[o].adapter
         /\ objs'[o].status = Held(o) /\ objs'[o].connected = TRUE /\ objs'[o].held = None
<1> DEFINE o == cmd[c].o
<1> DEFINE k == cmd[c].k
<1> DEFINE s == Held(o)
<1> DEFINE r == Rep(s, k, c, TRUE)
<1>1. /\ cmd[c].at = "started" /\ cur' = cur /\ KeepProcs
      /\ objs' = [objs EXCEPT ![o].connected = TRUE, ![o].held = None, ![o].status = s,
                              ![o].reports = Append(@, r)]
      /\ At(c, "connecting") /\ "connecting" \in Points
  BY DEF Connect, KeepProcs, Points
<1>2. o \in 1..Len(objs) /\ k \in 1..Len(procs) /\ k \in Nat
  BY <1>1, Captured DEF HasObject, HasAdapter
<1>3. s \in Statuses
  <2>1. objs[o] \in Managed
    BY <1>2, CoreFacts
  <2>2. objs[o].held \in Known
    BY <2>1 DEF Managed
  <2> QED
    BY <2>2 DEF Held, Known, Statuses, Connected
<1> HIDE DEF s, k
<1>4. r \in Report /\ r.waits = c /\ r.k = k /\ r.mode = TRUE /\ r.status = s
  BY <1>2, <1>3 DEF Rep, Report
<1>5. CmdOnly(c) /\ cmd'[c].at = "connecting" /\ Elsewhere(cmd'[c], cmd[c])
  BY <1>1, Moves, CoreFacts
<1> HIDE DEF o, r
<1>6. objs' = [objs EXCEPT ![o].connected = TRUE, ![o].held = None, ![o].status = r.status,
                           ![o].reports = Append(@, r)]
  BY <1>1, <1>4
<1>7. /\ ObjOnly(o) /\ Gains(o, r) /\ objs'[o].adapter = objs[o].adapter
      /\ objs'[o].status = r.status /\ objs'[o].connected = TRUE /\ objs'[o].held = None
  BY <1>2, <1>4, <1>6, Connects, CoreFacts
<1> QED
  BY <1>1, <1>2, <1>4, <1>5, <1>7 DEF o, k, s, r

\* What is told of o: o is as it was, or has another status, told or held.
ToldEffect(o, k, s) ==
    /\ ObjOnly(o)
    /\ objs'[o].connected = objs[o].connected /\ objs'[o].adapter = objs[o].adapter
    /\ \/ /\ objs[o].connected /\ objs'[o].status = s /\ objs'[o].held = objs[o].held
          /\ Gains(o, Rep(s, k, None, FALSE))
       \/ /\ ~objs[o].connected /\ objs'[o].status = objs[o].status /\ objs'[o].held = s
          /\ objs'[o].reports = objs[o].reports

LEMMA RuntimeStatusEffect ==
  ASSUME CoreTypes, NEW k \in DOMAIN procs, RuntimeStatus(k)
  PROVE  /\ k \in 1..Len(procs) /\ procs[k].st = "up" /\ procs[k].o \in 1..Len(objs)
         /\ cmd' = cmd /\ cur' = cur /\ KeepProcs
         /\ \E s \in Connected : ToldEffect(procs[k].o, k, s)
<1> DEFINE o == procs[k].o
<1>1. /\ procs[k].st = "up" /\ cmd' = cmd /\ cur' = cur /\ KeepProcs
      /\ \E s \in Connected : objs' = Told(o, k, s)
  BY DEF RuntimeStatus, KeepProcs
<1>2. k \in 1..Len(procs) /\ o \in 1..Len(objs) /\ k \in Nat
  BY <1>1, CoreFacts DEF CoreTypes, Live
<1>3. PICK s \in Connected : objs' = Told(o, k, s)
  BY <1>1
<1>4. s \in Statuses
  BY DEF Statuses
<1> HIDE DEF o
<1>5. ToldEffect(o, k, s)
  BY <1>2, <1>3, <1>4, Tells, CoreFacts DEF ToldEffect
<1> QED
  BY <1>1, <1>2, <1>5 DEF o

LEMMA RuntimeEndsEffect ==
  ASSUME CoreTypes, NEW k \in DOMAIN procs, RuntimeEnds(k)
  PROVE  LET o == procs[k].o IN
         /\ k \in 1..Len(procs) /\ procs[k].st = "up" /\ o \in 1..Len(objs)
         /\ cmd' = cmd /\ cur' = cur
         /\ ProcOnly(k) /\ procs'[k].st \in {"gone", "closing"}
         /\ IF objs[o].status # "stopped" THEN ToldEffect(o, k, "stopped") ELSE objs' = objs
<1> DEFINE o == procs[k].o
<1> DEFINE st == IF Codex THEN "gone" ELSE "closing"
<1>1. /\ procs[k].st = "up" /\ cmd' = cmd /\ cur' = cur /\ SetProc(k, st)
      /\ objs' = IF objs[o].status # "stopped" THEN Told(o, k, "stopped") ELSE objs
  BY DEF RuntimeEnds
<1>2. k \in 1..Len(procs) /\ o \in 1..Len(objs) /\ k \in Nat
  BY <1>1, CoreFacts DEF CoreTypes, Live
<1>3. st \in {"gone", "closing"} /\ st \in States /\ "stopped" \in Statuses
  BY DEF States, Statuses
<1> HIDE DEF o, st
<1>4. ASSUME objs[o].status # "stopped" PROVE ToldEffect(o, k, "stopped")
  BY <1>1, <1>2, <1>3, <1>4, Tells, CoreFacts DEF ToldEffect
<1>5. ProcOnly(k) /\ procs'[k].st = st
  BY <1>1, <1>2, <1>3, Sets, CoreFacts
<1> QED
  BY <1>1, <1>2, <1>3, <1>4, <1>5 DEF o

LEMMA ProcessExitsEffect ==
  ASSUME CoreTypes, NEW k \in DOMAIN procs, ProcessExits(k)
  PROVE  /\ k \in 1..Len(procs) /\ procs[k].st \in {"closing", "orphan"}
         /\ cmd' = cmd /\ KeepObjs /\ ProcOnly(k) /\ procs'[k].st = "gone"
<1>1. /\ procs[k].st \in {"closing", "orphan"} /\ cmd' = cmd /\ KeepObjs
      /\ SetProc(k, "gone") /\ "gone" \in States
  BY DEF ProcessExits, daemon, KeepObjs, States
<1>2. k \in 1..Len(procs)
  BY CoreFacts
<1> QED
  BY <1>1, <1>2, Sets, CoreFacts

LEMMA LaunchEffect ==
  ASSUME CoreTypes, NEW c \in Commands, Launch(c)
  PROVE  LET n == Len(objs) + 1 IN
         /\ cur = 0 /\ cur' = n /\ KeepProcs
         /\ CmdOnly(c) /\ cmd'[c].at = "reporting" /\ cmd'[c].o = n /\ cmd'[c].k = 0
         /\ objs' \in Seq(Managed) /\ Len(objs') = n
         /\ \A p \in 1..Len(objs) : objs'[p] = objs[p]
         /\ objs'[n].adapter = 0 /\ objs'[n].status = "starting" /\ ~objs'[n].connected
         /\ objs'[n].held = None /\ Len(objs'[n].reports) = 1
         /\ objs'[n].reports[1] = Rep("starting", 0, c, FALSE)
<1> DEFINE n == Len(objs) + 1
<1> DEFINE r == Rep("starting", 0, c, FALSE)
<1> DEFINE g == [Idle EXCEPT !.at = "reporting", !.o = n]
<1> DEFINE f == [NewObj EXCEPT !.reports = <<r>>]
<1>1. /\ cur = 0 /\ cur' = n /\ KeepProcs
      /\ cmd' = [cmd EXCEPT ![c] = g] /\ objs' = Append(objs, f)
  BY DEF Launch, Already, KeepProcs
<1>2. n \in Nat
  BY CoreFacts
<1>3. g \in Handler /\ g.at = "reporting" /\ g.o = n /\ g.k = 0
  BY <1>2 DEF Idle, Handler, Points, Known
<1> HIDE DEF g
<1>4. CmdOnly(c) /\ cmd'[c] = g
  BY <1>1, <1>3, Replaces, CoreFacts
<1>5. r \in Report
  BY DEF Rep, Report, Statuses
<1> HIDE DEF r
<1>6. <<r>> \in Seq(Report) /\ Len(<<r>>) = 1 /\ <<r>>[1] = r
  BY <1>5
<1> DEFINE rs == <<r>>
<1> HIDE DEF rs
<1>7. /\ f \in Managed /\ f.adapter = 0 /\ f.status = "starting" /\ ~f.connected
      /\ f.held = None /\ f.reports = rs
  BY <1>6 DEF NewObj, Managed, Statuses, Known, rs
<1> HIDE DEF f
<1>8. /\ objs' \in Seq(Managed) /\ Len(objs') = n /\ objs'[n] = f
      /\ \A p \in 1..Len(objs) : objs'[p] = objs[p]
  BY <1>1, <1>7, Made, CoreFacts
<1> QED
  BY <1>1, <1>3, <1>4, <1>6, <1>7, <1>8 DEF r, rs

\* A session that is in memory goes on; one that is not is made.
LEMMA ResumeEffect ==
  ASSUME CoreTypes, NEW c \in Commands, Resume(c)
  PROVE  LET o == cur'
             k == Len(procs) + 1 IN
         /\ ~Alive(Adapter) /\ c \in Resumes
         /\ CmdOnly(c) /\ cmd'[c].at = "starting" /\ cmd'[c].o = o /\ cmd'[c].k = k
         /\ procs' \in Seq(Runtime) /\ Len(procs') = k
         /\ procs'[k].st \in {"created", "starting"} /\ procs'[k].o = o /\ procs'[k].by = c
         /\ \A j \in 1..Len(procs) : procs'[j] = procs[j]
         /\ o \in 1..Len(objs')
         /\ objs' \in Seq(Managed)
         /\ objs'[o].adapter = k /\ ~objs'[o].connected /\ objs'[o].held = None
         /\ \A p \in 1..Len(objs) : p # o => objs'[p] = objs[p]
         /\ \/ /\ cur # 0 /\ o = cur /\ Len(objs') = Len(objs) /\ objs'[o].reports = objs[o].reports
               /\ objs'[o].status = objs[o].status /\ cmd'[c].live
            \/ /\ cur = 0 /\ o = Len(objs) + 1 /\ Len(objs') = o /\ objs'[o].reports = <<>>
               /\ ~cmd'[c].live
<1> DEFINE k == Len(procs) + 1
<1> DEFINE o == IF cur = 0 THEN Len(objs) + 1 ELSE cur
<1> DEFINE ms == IF cur = 0 THEN Append(objs, NewObj) ELSE objs
<1> DEFINE g == [at |-> "starting", o |-> o, k |-> k, res |-> None, live |-> cur # 0,
                 was |-> ms[o].connected, held |-> ms[o].held]
<1>1. /\ ~Alive(Adapter) /\ c \in Resumes /\ cur' = o /\ procs' = NewProc(o, c)
      /\ objs' = [ms EXCEPT ![o].connected = FALSE, ![o].held = None, ![o].adapter = k]
      /\ cmd' = [cmd EXCEPT ![c] = g]
  BY DEF Resume
<1>2. NewObj \in Managed /\ NewObj.reports = <<>>
  BY DEF NewObj, Managed, Statuses, Known
<1>3. /\ ms \in Seq(Managed) /\ o \in 1..Len(ms) /\ o \in Nat /\ k \in Nat
      /\ \A p \in 1..Len(objs) : ms[p] = objs[p]
      /\ \/ cur # 0 /\ o = cur /\ Len(ms) = Len(objs)
         \/ cur = 0 /\ o = Len(objs) + 1 /\ Len(ms) = o /\ ms[o].reports = <<>>
  <2>1. CASE cur = 0
    BY <1>2, <2>1, AppendProperties, CoreFacts
  <2>2. CASE cur # 0
    BY <2>2, CoreFacts
  <2> QED
    BY <2>1, <2>2
<1> HIDE DEF o, ms, k
<1>4. ms[o] \in Managed
  BY <1>3
<1>5. g \in Handler /\ g.at = "starting" /\ g.o = o /\ g.k = k /\ (g.live <=> cur # 0)
  BY <1>3, <1>4 DEF Handler, Points, Managed
<1> HIDE DEF g
<1>6. CmdOnly(c) /\ cmd'[c] = g
  BY <1>1, <1>5, Replaces, CoreFacts
<1>7. /\ procs' \in Seq(Runtime) /\ Len(procs') = k
      /\ procs'[k].st \in {"created", "starting"} /\ procs'[k].o = o /\ procs'[k].by = c
      /\ \A j \in 1..Len(procs) : procs'[j] = procs[j]
  BY <1>1, <1>3, Joins, CoreFacts DEF k
<1> DEFINE f == [ms[o] EXCEPT !.connected = FALSE, !.held = None, !.adapter = k]
<1>8. objs' = [ms EXCEPT ![o] = f]
  BY <1>1
<1>9. /\ f \in Managed /\ f.adapter = k /\ ~f.connected /\ f.held = None
      /\ f.reports = ms[o].reports /\ f.status = ms[o].status
  BY <1>3, <1>4 DEF Managed, Known
<1> HIDE DEF f
<1>10. /\ objs' \in Seq(Managed) /\ Len(objs') = Len(ms) /\ objs'[o] = f
       /\ \A p \in 1..Len(ms) : p # o => objs'[p] = ms[p]
  BY <1>3, <1>8, <1>9, ExceptSeq
<1>11. \A p \in 1..Len(objs) : p # o => objs'[p] = objs[p]
  BY <1>3, <1>10, CoreFacts
<1>12. \/ /\ cur # 0 /\ o = cur /\ Len(objs') = Len(objs) /\ objs'[o].reports = objs[o].reports
          /\ objs'[o].status = objs[o].status
       \/ cur = 0 /\ o = Len(objs) + 1 /\ Len(objs') = o /\ objs'[o].reports = <<>>
  BY <1>3, <1>9, <1>10, CoreFacts
<1> QED
  BY <1>1, <1>3, <1>5, <1>6, <1>7, <1>9, <1>10, <1>11, <1>12 DEF k

LEMMA StopAppliedEffect ==
  ASSUME CoreTypes, NEW c \in Commands, StopApplied(c)
  PROVE  LET o == cmd[c].o
             k == cmd[c].k
             r == Rep("stopped", k, c, FALSE) IN
         /\ cmd[c].at = "stopping" /\ o \in 1..Len(objs) /\ k \in 1..Len(procs)
         /\ procs[k].st = "gone" /\ cur' = cur /\ KeepProcs
         /\ r \in Report /\ r.waits = c
         /\ CmdOnly(c) /\ cmd'[c].at = "stopped" /\ Elsewhere(cmd'[c], cmd[c])
         /\ ObjOnly(o) /\ Gains(o, r) /\ objs'[o].adapter = objs[o].adapter
         /\ objs'[o].status = "stopped"
         /\ objs'[o].connected = objs[o].connected /\ objs'[o].held = objs[o].held
<1> DEFINE o == cmd[c].o
<1> DEFINE k == cmd[c].k
<1> DEFINE r == Rep("stopped", k, c, FALSE)
<1>1. /\ cmd[c].at = "stopping" /\ procs[k].st = "gone" /\ cur' = cur /\ KeepProcs
      /\ objs' = Update(o, r) /\ At(c, "stopped") /\ "stopped" \in Points
  BY DEF StopApplied, KeepProcs, Points
<1>2. o \in 1..Len(objs) /\ k \in 1..Len(procs)
  BY <1>1, Captured DEF HasObject, HasAdapter
<1>3. r \in Report /\ r.waits = c /\ r.status = "stopped"
  BY <1>2, CoreFacts DEF Rep, Report, Statuses
<1>4. CmdOnly(c) /\ cmd'[c].at = "stopped" /\ Elsewhere(cmd'[c], cmd[c])
  BY <1>1, Moves, CoreFacts
<1> HIDE DEF o, r
<1>5. /\ ObjOnly(o) /\ Gains(o, r) /\ objs'[o].adapter = objs[o].adapter
      /\ objs'[o].status = "stopped"
      /\ objs'[o].connected = objs[o].connected /\ objs'[o].held = objs[o].held
  BY <1>1, <1>2, <1>3, Updated, CoreFacts
<1> QED
  BY <1>1, <1>2, <1>3, <1>4, <1>5 DEF o, k, r

LEMMA StopEffect ==
  ASSUME CoreTypes, NEW c \in Commands, Stop(c)
  PROVE  /\ c \in Stops /\ cur # 0 /\ objs[cur].adapter # 0 /\ KeepObjs /\ KeepProcs
         /\ CmdOnly(c) /\ cmd'[c].at = "stopping" /\ cmd'[c].o = cur
         /\ cmd'[c].k = objs[cur].adapter
<1> DEFINE a == objs[cur].adapter
<1> DEFINE g == [Idle EXCEPT !.at = "stopping", !.o = cur, !.k = a]
<1>1. c \in Stops /\ cur # 0 /\ a # 0 /\ Adapter = a /\ KeepObjs /\ KeepProcs
  BY DEF Stop, Adapter, KeepObjs, KeepProcs
<1>2. cmd' = [cmd EXCEPT ![c] = g]
  BY <1>1 DEF Stop
<1>3. a \in Nat /\ cur \in Nat
  <2>1. objs[cur] \in Managed
    BY <1>1, CoreFacts
  <2> QED
    BY <2>1, CoreFacts DEF Managed
<1> HIDE DEF a
<1>4. g \in Handler /\ g.at = "stopping" /\ g.o = cur /\ g.k = a
  BY <1>3 DEF Idle, Handler, Points, Known
<1> HIDE DEF g
<1>5. CmdOnly(c) /\ cmd'[c] = g
  BY <1>2, <1>4, Replaces, CoreFacts
<1> QED
  BY <1>1, <1>4, <1>5 DEF a

\* A command whose result is posted, or was.
Ends(c) ==
    \/ LaunchAlready(c) \/ LaunchRefused(c) \/ ResumeRefused(c) \/ StopRefused(c)
    \/ CommandApplied(c) \/ CommandReported(c) \/ StopUnknown(c) \/ Post(c)

LEMMA EndsEffect ==
  ASSUME CoreTypes, NEW c \in Commands, Ends(c)
  PROVE  /\ KeepObjs /\ KeepProcs
         /\ cmd[c].at \in {"idle", "connected", "prompting", "reported", "stopping", "posting"}
         /\ CmdOnly(c) /\ cmd'[c].o = 0 /\ cmd'[c].k = 0
         /\ \/ cmd'[c].at = "posting" /\ cmd'[c].res \in Results
            \/ cmd'[c].at = "idle"
<1>1. /\ KeepObjs /\ KeepProcs
      /\ cmd[c].at \in {"idle", "connected", "prompting", "reported", "stopping", "posting"}
  BY DEF Ends, LaunchAlready, LaunchRefused, ResumeRefused, StopRefused, CommandApplied,
         CommandReported, StopUnknown, Post, KeepObjs, KeepProcs, Handling, Received
<1>2. CASE Post(c)
  <2>1. cmd' = [cmd EXCEPT ![c] = Idle]
    BY <1>2 DEF Post
  <2> QED
    BY <1>1, <2>1, IdleHandler, Replaces, CoreFacts
<1>3. CASE ~Post(c)
  <2>1. PICK res \in Results : Posting(c, res)
    BY <1>3 DEF Ends, LaunchAlready, LaunchRefused, ResumeRefused, StopRefused, CommandApplied,
                CommandReported, StopUnknown, Results
  <2> QED
    BY <1>1, <2>1, Posts, CoreFacts
<1> QED
  BY <1>2, <1>3

LEMMA ReportEffect ==
  ASSUME CoreTypes, NEW o \in DOMAIN objs, ReportDelivered(o) \/ ReportFails(o) \/ ReportRefused(o)
  PROVE  LET r == objs[o].reports[1] IN
         /\ o \in 1..Len(objs) /\ r \in Report /\ Len(objs[o].reports) \in Nat \ {0}
         /\ cur' = cur /\ KeepProcs /\ ObjOnly(o) /\ SameFields(o)
         /\ Loses(o) \/ (r.mode /\ Repeats(o))
         /\ r.waits = None => cmd' = cmd
         /\ r.waits # None => /\ r.waits \in Commands /\ CmdOnly(r.waits)
                              /\ GoesOn(cmd[r.waits].at, cmd'[r.waits].at)
                              /\ Elsewhere(cmd'[r.waits], cmd[r.waits])
<1> DEFINE r == objs[o].reports[1]
<1>1. o \in 1..Len(objs) /\ objs[o].reports # <<>>
  BY CoreFacts DEF ReportDelivered, ReportFails, ReportRefused
<1>2. /\ Head(objs[o].reports) = r /\ r \in Report /\ Len(objs[o].reports) \in Nat \ {0}
      /\ Pop(o) => ObjOnly(o) /\ SameFields(o) /\ Loses(o)
      /\ Retry(o, Head(objs[o].reports)) => ObjOnly(o) /\ SameFields(o) /\ Repeats(o)
  BY <1>1, Attempted, CoreFacts
<1>3. /\ cur' = cur /\ KeepProcs
      /\ Pop(o) \/ (r.mode /\ Retry(o, Head(objs[o].reports)))
      /\ \E d \in BOOLEAN : cmd' = Woken(r, d)
  BY <1>2 DEF ReportDelivered, ReportFails, ReportRefused, KeepProcs
<1>4. PICK d \in BOOLEAN : cmd' = Woken(r, d)
  BY <1>3
<1> HIDE DEF r
<1>5. /\ r.waits = None => cmd' = cmd
      /\ r.waits # None => /\ r.waits \in Commands /\ CmdOnly(r.waits)
                           /\ GoesOn(cmd[r.waits].at, cmd'[r.waits].at)
                           /\ Elsewhere(cmd'[r.waits], cmd[r.waits])
  BY <1>2, <1>4, Wakes, CoreFacts
<1> QED
  BY <1>1, <1>2, <1>3, <1>5 DEF r

LEMMA CrashEffect ==
  ASSUME CoreTypes, Crash
  PROVE  /\ cmd' \in [Commands -> Handler] /\ objs' = <<>> /\ cur' = 0
         /\ \A c \in Commands : cmd'[c].at = "idle" /\ cmd'[c].o = 0 /\ cmd'[c].k = 0
         /\ procs' \in Seq(Runtime) /\ Len(procs') = Len(procs)
         /\ \A j \in 1..Len(procs) : procs'[j].st \in {"gone", "orphan"}
<1>1. cmd' = [c \in Commands |-> Idle] /\ objs' = <<>> /\ cur' = 0
  BY DEF Crash
<1> QED
  BY <1>1, IdleHandler, Dies, CoreFacts

\* What changes neither the handlers, the objects nor the runtimes.
LEMMA RestEffect ==
  ASSUME \/ \E c \in Commands : Issue(c) \/ DeliverDone(c) \/ RegisterNative(c)
         \/ \E k : Prompt(k)
         \/ Restart \/ UNCHANGED vars
  PROVE  cmd' = cmd /\ KeepObjs /\ KeepProcs
BY DEF Issue, DeliverDone, RegisterNative, Prompt, Restart, vars, daemon, KeepObjs, KeepProcs

-----------------------------------------------------------------------------
(* The types hold                                                           *)

LEMMA CoreKept ==
  ASSUME CoreTypes,
         cmd' \in [Commands -> Handler], objs' \in Seq(Managed), procs' \in Seq(Runtime),
         Len(objs) <= Len(objs'), Len(procs) <= Len(procs'), cur' \in 0..Len(objs'),
         \A c \in Commands : cmd'[c] = cmd[c] \/ HandlerFits(cmd'[c], Len(objs'), Len(procs')),
         \A o \in 1..Len(objs') : \/ o <= Len(objs) /\ objs'[o] = objs[o]
                                  \/ ManagedFits(objs'[o], Len(procs')),
         \A k \in 1..Len(procs') : procs'[k].st \in Live =>
             \/ k <= Len(procs) /\ procs[k].st \in Live /\ procs'[k].o = procs[k].o
             \/ procs'[k].o \in 1..Len(objs')
  PROVE  CoreTypes'
<1>1. /\ Len(objs) \in Nat /\ Len(procs) \in Nat /\ Len(objs') \in Nat /\ Len(procs') \in Nat
  BY LenProperties DEF CoreTypes
<1>2. \A c \in Commands : HandlerFits(cmd'[c], Len(objs'), Len(procs'))
  <2> SUFFICES ASSUME NEW c \in Commands, cmd'[c] = cmd[c]
               PROVE  HandlerFits(cmd'[c], Len(objs'), Len(procs'))
    OBVIOUS
  <2>1. cmd[c] \in Handler /\ HandlerFits(cmd[c], Len(objs), Len(procs))
    BY CoreFacts
  <2>2. cmd[c].o \in Nat /\ cmd[c].k \in Nat
    BY <2>1 DEF Handler
  <2> QED
    BY <1>1, <2>1, <2>2 DEF HandlerFits
<1>3. \A o \in 1..Len(objs') : ManagedFits(objs'[o], Len(procs'))
  <2> SUFFICES ASSUME NEW o \in 1..Len(objs), objs'[o] = objs[o]
               PROVE  ManagedFits(objs'[o], Len(procs'))
    BY <1>1
  <2>1. objs[o] \in Managed /\ ManagedFits(objs[o], Len(procs))
    BY CoreFacts
  <2>2. objs[o].adapter \in Nat /\ objs[o].reports \in Seq(Report)
    BY <2>1 DEF Managed
  <2>3. \A i \in 1..Len(objs[o].reports) : objs[o].reports[i].k \in Nat
    BY ReportTypes
  <2> QED
    BY <1>1, <2>1, <2>2, <2>3 DEF ManagedFits
<1>4. \A k \in 1..Len(procs') : procs'[k].st \in Live => procs'[k].o \in 1..Len(objs')
  <2>1. \A k \in 1..Len(procs) : procs[k].st \in Live => procs[k].o \in 1..Len(objs)
    BY DEF CoreTypes
  <2> QED
    BY <1>1, <2>1
<1> QED
  BY <1>1, <1>2, <1>3, <1>4 DEF CoreTypes

\* The reports that wait are about adapters that were started.
LEMMA FitsGains ==
  ASSUME CoreTypes, NEW o \in 1..Len(objs), NEW r, Gains(o, r), r.k <= Len(procs),
         objs'[o].adapter <= Len(procs)
  PROVE  ManagedFits(objs'[o], Len(procs))
<1>1. Len(objs[o].reports) \in Nat /\ ManagedFits(objs[o], Len(procs))
  BY CoreFacts, ReportTypes
<1>2. \A i \in 1..(Len(objs[o].reports) + 1) :
         i \in 1..Len(objs[o].reports) \/ i = Len(objs[o].reports) + 1
  BY <1>1
<1>3. \A i \in 1..Len(objs'[o].reports) : objs'[o].reports[i].k <= Len(procs)
  BY <1>1, <1>2 DEF ManagedFits, Gains
<1> QED
  BY <1>3 DEF ManagedFits

LEMMA FitsSame ==
  ASSUME CoreTypes, NEW o \in 1..Len(objs), objs'[o].reports = objs[o].reports,
         NEW n \in Nat, Len(procs) <= n, objs'[o].adapter <= n
  PROVE  ManagedFits(objs'[o], n)
<1>1. objs[o].reports \in Seq(Report) /\ ManagedFits(objs[o], Len(procs))
  BY CoreFacts DEF Managed
<1>2. \A i \in 1..Len(objs[o].reports) : objs[o].reports[i].k \in Nat
  BY ReportTypes
<1>3. Len(procs) \in Nat
  BY CoreFacts
<1> QED
  BY <1>1, <1>2, <1>3 DEF ManagedFits

LEMMA FitsLess ==
  ASSUME CoreTypes, NEW o \in 1..Len(objs), SameFields(o), Loses(o) \/ Repeats(o)
  PROVE  ManagedFits(objs'[o], Len(procs))
<1>1. objs[o].reports \in Seq(Report) /\ ManagedFits(objs[o], Len(procs))
  BY CoreFacts DEF Managed
<1>2. CASE Loses(o)
  <2>1. \A i \in 1..Len(objs'[o].reports) :
           i + 1 \in 1..Len(objs[o].reports) /\ objs'[o].reports[i] = objs[o].reports[i + 1]
    BY <1>2 DEF Loses
  <2> QED
    BY <1>1, <2>1 DEF ManagedFits, SameFields
<1>3. CASE Repeats(o)
  <2>1. 1 \in 1..Len(objs[o].reports)
    BY <1>3 DEF Repeats
  <2>2. objs[o].reports[1] \in Report
    BY <1>1, <2>1
  <2>3. objs'[o].reports[1].k = objs[o].reports[1].k
    BY <1>3, <2>2 DEF Repeats, Report
  <2>4. \A i \in 1..Len(objs[o].reports) : i = 1 \/ i \in 2..Len(objs[o].reports)
    BY <1>3 DEF Repeats
  <2>5. \A i \in 1..Len(objs'[o].reports) : objs'[o].reports[i].k = objs[o].reports[i].k
    BY <1>3, <2>3, <2>4 DEF Repeats
  <2> QED
    BY <1>1, <1>3, <2>5 DEF ManagedFits, SameFields, Repeats
<1> QED
  BY <1>2, <1>3

\* One handler changes, in the same world.
LEMMA CoreOneHandler ==
  ASSUME CoreTypes, KeepObjs, KeepProcs, NEW c \in Commands, CmdOnly(c),
         HandlerFits(cmd'[c], Len(objs), Len(procs))
  PROVE  CoreTypes'
BY CoreKept, CoreFacts DEF CoreTypes, KeepObjs, KeepProcs, CmdOnly

\* One object changes, and perhaps the handlers.
LEMMA CoreOneObject ==
  ASSUME CoreTypes, KeepProcs, cur' \in 0..Len(objs), NEW o \in 1..Len(objs), ObjOnly(o),
         ManagedFits(objs'[o], Len(procs)),
         cmd' \in [Commands -> Handler],
         \A c \in Commands : cmd'[c] = cmd[c] \/ HandlerFits(cmd'[c], Len(objs), Len(procs))
  PROVE  CoreTypes'
BY CoreKept, CoreFacts DEF CoreTypes, KeepProcs, ObjOnly

LEMMA CoreCommand ==
  ASSUME CoreTypes, NEW c \in Commands, Handle(c) \/ Continue(c) \/ Issue(c) \/ StartFails(c)
  PROVE  CoreTypes'
<1> USE CoreFacts DEF KeepObjs, KeepProcs
<1>1. CASE Issue(c) \/ DeliverDone(c) \/ RegisterNative(c)
  BY <1>1, RestEffect DEF CoreTypes
<1>2. CASE Ends(c)
  <2>1. HandlerFits(cmd'[c], Len(objs), Len(procs))
    BY <1>2, EndsEffect DEF HandlerFits, HasObject, HasAdapter, Results, None
  <2> QED
    BY <1>2, <2>1, EndsEffect, CoreOneHandler
<1>3. CASE Stop(c)
  <2>1. objs[cur].adapter \in Nat /\ objs[cur].adapter <= Len(procs) /\ cur # 0
    BY <1>3, StopEffect DEF Managed, ManagedFits
  <2>2. HandlerFits(cmd'[c], Len(objs), Len(procs))
    BY <1>3, <2>1, StopEffect DEF HandlerFits, HasObject, HasAdapter
  <2> QED
    BY <1>3, <2>2, StopEffect, CoreOneHandler
<1>4. CASE StopApplied(c)
  <2> DEFINE o == cmd[c].o
  <2> DEFINE r == Rep("stopped", cmd[c].k, c, FALSE)
  <2>1. /\ o \in 1..Len(objs) /\ ObjOnly(o) /\ Gains(o, r) /\ objs'[o].adapter = objs[o].adapter
        /\ KeepProcs /\ cur' = cur /\ CmdOnly(c) /\ cmd'[c].at = "stopped"
        /\ Elsewhere(cmd'[c], cmd[c]) /\ r.k = cmd[c].k
    BY <1>4, StopAppliedEffect DEF Rep
  <2> HIDE DEF o, r
  <2>2. r.k <= Len(procs)
    BY <2>1 DEF HandlerFits
  <2>3. ManagedFits(objs'[o], Len(procs))
    BY <2>1, <2>2, FitsGains DEF ManagedFits
  <2>4. HandlerFits(cmd'[c], Len(objs), Len(procs))
    BY <2>1 DEF HandlerFits, HasObject, HasAdapter, Elsewhere
  <2> QED
    BY <2>1, <2>3, <2>4, CoreOneObject DEF CmdOnly, CoreTypes
<1>5. CASE Connect(c)
  <2> DEFINE o == cmd[c].o
  <2> DEFINE r == Rep(Held(o), cmd[c].k, c, TRUE)
  <2>1. /\ o \in 1..Len(objs) /\ ObjOnly(o) /\ Gains(o, r) /\ objs'[o].adapter = objs[o].adapter
        /\ KeepProcs /\ cur' = cur /\ CmdOnly(c) /\ cmd'[c].at = "connecting"
        /\ Elsewhere(cmd'[c], cmd[c]) /\ r.k = cmd[c].k
    BY <1>5, ConnectEffect
  <2> HIDE DEF o, r
  <2>2. r.k <= Len(procs)
    BY <2>1 DEF HandlerFits
  <2>3. ManagedFits(objs'[o], Len(procs))
    BY <2>1, <2>2, FitsGains DEF ManagedFits
  <2>4. HandlerFits(cmd'[c], Len(objs), Len(procs))
    BY <2>1 DEF HandlerFits, HasObject, HasAdapter, Elsewhere
  <2> QED
    BY <2>1, <2>3, <2>4, CoreOneObject DEF CmdOnly, CoreTypes
<1>6. CASE StartFails(c)
  <2> DEFINE o == cmd[c].o
  <2>1. /\ o \in 1..Len(objs) /\ ObjOnly(o) /\ objs'[o].adapter = 0
        /\ objs'[o].reports = objs[o].reports
        /\ KeepProcs /\ cur' = cur /\ CmdOnly(c) /\ cmd'[c].at = "failing"
        /\ Elsewhere(cmd'[c], cmd[c]) /\ cmd[c].k # 0 /\ o = cmd[c].o /\ o # 0
    BY <1>6, StartFailsEffect
  <2> HIDE DEF o
  <2>2. ManagedFits(objs'[o], Len(procs))
    BY <2>1, FitsSame
  <2>3. HandlerFits(cmd'[c], Len(objs), Len(procs))
    BY <2>1 DEF HandlerFits, Elsewhere
  <2> QED
    BY <2>1, <2>2, <2>3, CoreOneObject DEF CmdOnly, CoreTypes
<1>7. CASE StartAdapter(c)
  <2> DEFINE o == cmd[c].o
  <2> DEFINE n == Len(procs) + 1
  <2>1. /\ o \in 1..Len(objs) /\ cur' = cur
        /\ CmdOnly(c) /\ cmd'[c].at = "starting" /\ cmd'[c].k = n /\ cmd'[c].o = o
        /\ ObjOnly(o) /\ objs'[o].adapter = n /\ objs'[o].reports = objs[o].reports
        /\ procs' \in Seq(Runtime) /\ Len(procs') = n /\ procs'[n].o = o
        /\ \A j \in 1..Len(procs) : procs'[j] = procs[j]
    BY <1>7, StartAdapterEffect
  <2>2. n \in Nat /\ Len(procs) <= n /\ n # 0
    OBVIOUS
  <2>3. ManagedFits(objs'[o], n)
    BY <2>1, <2>2, FitsSame
  <2>4. HandlerFits(cmd'[c], Len(objs), n)
    BY <2>1, <2>2 DEF HandlerFits
  <2> HIDE DEF o
  <2>5. \A k \in 1..n : k \in 1..Len(procs) \/ k = n
    OBVIOUS
  <2> HIDE DEF n
  <2> QED
    BY <2>1, <2>2, <2>3, <2>4, <2>5, CoreKept DEF CmdOnly, ObjOnly, CoreTypes
<1>8. CASE Spawn(c) \/ AdapterStarts(c)
  <2> DEFINE k == cmd[c].k
  <2>1. /\ k \in 1..Len(procs) /\ KeepObjs /\ ProcOnly(k) /\ procs[k].st \in Live
        /\ cmd' = cmd \/ (CmdOnly(c) /\ cmd'[c].at = "started" /\ Elsewhere(cmd'[c], cmd[c])
                             /\ cmd[c].at = "starting")
    BY <1>8, StateEffect DEF Live
  <2> HIDE DEF k
  <2>2. /\ cmd' \in [Commands -> Handler]
        /\ \A d \in Commands : cmd'[d] = cmd[d] \/ HandlerFits(cmd'[d], Len(objs), Len(procs))
    BY <2>1 DEF CmdOnly, HandlerFits, HasObject, HasAdapter, Elsewhere
  <2> QED
    BY <2>1, <2>2, CoreKept DEF ProcOnly, CoreTypes
<1>9. CASE LaunchFailed(c)
  <2> DEFINE o == cmd[c].o
  <2> DEFINE k == cmd[c].k
  <2> DEFINE r == Rep("failed", k, c, FALSE)
  <2>1. /\ o \in 1..Len(objs) /\ ObjOnly(o) /\ Gains(o, r) /\ objs'[o].adapter = objs[o].adapter
        /\ cur' = 0 /\ CmdOnly(c) /\ cmd'[c].at = "undone"
        /\ Elsewhere(cmd'[c], cmd[c]) /\ r.k = k /\ k \in 1..Len(procs)
        /\ ProcOnly(k) /\ procs'[k].st \in {"gone", "orphan"}
    BY <1>9, LaunchFailedEffect DEF Rep
  <2> HIDE DEF o, r, k
  <2>2. ManagedFits(objs'[o], Len(procs))
    BY <2>1, FitsGains DEF ManagedFits
  <2>3. HandlerFits(cmd'[c], Len(objs), Len(procs))
    BY <2>1 DEF HandlerFits, HasObject, HasAdapter, Elsewhere
  <2>4. \A j \in 1..Len(procs) : procs'[j].st \in Live =>
           procs[j].st \in Live /\ procs'[j].o = procs[j].o
    BY <2>1 DEF ProcOnly, Live
  <2> QED
    BY <2>1, <2>2, <2>3, <2>4, CoreKept DEF CmdOnly, ObjOnly, ProcOnly
<1>10. CASE ResumeFailed(c)
  <2> DEFINE o == cmd[c].o
  <2> DEFINE k == cmd[c].k
  <2>1. /\ o \in 1..Len(objs) /\ k \in 1..Len(procs)
        /\ ProcOnly(k) /\ procs'[k].st \in {"gone", "orphan"}
        /\ CmdOnly(c) /\ cmd'[c].at = "posting" /\ cmd'[c].o = 0 /\ cmd'[c].k = 0
        /\ cmd'[c].res \in Results
        /\ \/ cur' = 0 /\ objs' = objs
           \/ /\ cur' = cur /\ ObjOnly(o) /\ objs'[o].adapter = objs[o].adapter
              /\ objs'[o].reports = objs[o].reports
    BY <1>10, ResumeFailedEffect
  <2> HIDE DEF o, k
  <2>2. ASSUME ObjOnly(o), objs'[o].adapter = objs[o].adapter, objs'[o].reports = objs[o].reports
        PROVE  ManagedFits(objs'[o], Len(procs))
    BY <2>1, <2>2 DEF ManagedFits
  <2>3. HandlerFits(cmd'[c], Len(objs), Len(procs))
    BY <2>1 DEF HandlerFits, HasObject, HasAdapter, Results, None
  <2>4. \A j \in 1..Len(procs) : procs'[j].st \in Live =>
           procs[j].st \in Live /\ procs'[j].o = procs[j].o
    BY <2>1 DEF ProcOnly, Live
  <2>5. CASE cur' = 0 /\ objs' = objs
    BY <2>1, <2>3, <2>4, <2>5, CoreKept DEF CmdOnly, ProcOnly
  <2>6. CASE cur' = cur /\ ObjOnly(o) /\ ManagedFits(objs'[o], Len(procs))
    BY <2>1, <2>3, <2>4, <2>6, CoreKept DEF CmdOnly, ObjOnly, ProcOnly
  <2> QED
    BY <2>1, <2>2, <2>5, <2>6
<1>11. CASE Launch(c)
  <2> DEFINE n == Len(objs) + 1
  <2> DEFINE r == Rep("starting", 0, c, FALSE)
  <2>1. /\ cur' = n /\ KeepProcs
        /\ CmdOnly(c) /\ cmd'[c].at = "reporting" /\ cmd'[c].o = n /\ cmd'[c].k = 0
        /\ objs' \in Seq(Managed) /\ Len(objs') = n
        /\ \A p \in 1..Len(objs) : objs'[p] = objs[p]
        /\ objs'[n].adapter = 0 /\ Len(objs'[n].reports) = 1 /\ objs'[n].reports[1] = r /\ r.k = 0
    BY <1>11, LaunchEffect DEF Rep
  <2> HIDE DEF r
  <2>2. ManagedFits(objs'[n], Len(procs))
    BY <2>1 DEF ManagedFits
  <2>3. HandlerFits(cmd'[c], n, Len(procs))
    BY <2>1 DEF HandlerFits, HasAdapter
  <2>4. \A p \in 1..n : p \in 1..Len(objs) \/ p = n
    OBVIOUS
  <2>5. n \in Nat /\ Len(objs) <= n /\ cur' \in 0..n
    BY <2>1
  <2> HIDE DEF n
  <2> QED
    BY <2>1, <2>2, <2>3, <2>4, <2>5, CoreKept DEF CmdOnly, CoreTypes
<1>12. CASE Resume(c)
  <2> DEFINE o == cur'
  <2> DEFINE k == Len(procs) + 1
  <2>1. /\ CmdOnly(c) /\ cmd'[c].at = "starting" /\ cmd'[c].o = o /\ cmd'[c].k = k
        /\ procs' \in Seq(Runtime) /\ Len(procs') = k /\ procs'[k].o = o
        /\ \A j \in 1..Len(procs) : procs'[j] = procs[j]
        /\ o \in 1..Len(objs') /\ objs' \in Seq(Managed) /\ objs'[o].adapter = k
        /\ \A p \in 1..Len(objs) : p # o => objs'[p] = objs[p]
        /\ \/ cur # 0 /\ o = cur /\ Len(objs') = Len(objs) /\ objs'[o].reports = objs[o].reports
           \/ cur = 0 /\ o = Len(objs) + 1 /\ Len(objs') = o /\ objs'[o].reports = <<>>
    BY <1>12, ResumeEffect
  <2> HIDE DEF o
  <2>2. k \in Nat /\ k # 0 /\ Len(procs) <= k /\ \A j \in 1..k : j \in 1..Len(procs) \/ j = k
    OBVIOUS
  <2>3. ManagedFits(objs'[o], k)
    <3>1. CASE cur # 0 /\ o = cur /\ objs'[o].reports = objs[o].reports
      BY <2>1, <2>2, <3>1, FitsSame
    <3>2. CASE objs'[o].reports = <<>>
      BY <2>1, <2>2, <3>2 DEF ManagedFits
    <3> QED
      BY <2>1, <3>1, <3>2
  <2>4. HandlerFits(cmd'[c], Len(objs'), k)
    BY <2>1, <2>2 DEF HandlerFits
  <2>5. Len(objs') \in Nat /\ Len(objs) <= Len(objs')
        /\ \A p \in 1..Len(objs') : p \in 1..Len(objs) \/ p = o
    BY <2>1
  <2>6. cur' \in 0..Len(objs')
    BY <2>1, <2>5 DEF o
  <2> HIDE DEF k
  <2> QED
    BY <2>1, <2>2, <2>3, <2>4, <2>5, <2>6, CoreKept DEF CmdOnly
<1> QED
  BY <1>1, <1>2, <1>3, <1>4, <1>5, <1>6, <1>7, <1>8, <1>9, <1>10, <1>11, <1>12
     DEF Handle, Continue, Ends

LEMMA CoreReport ==
  ASSUME CoreTypes, NEW o \in DOMAIN objs, ReportDelivered(o) \/ ReportFails(o) \/ ReportRefused(o)
  PROVE  CoreTypes'
<1> DEFINE w == objs[o].reports[1].waits
<1>1. /\ o \in 1..Len(objs) /\ cur' = cur /\ KeepProcs /\ ObjOnly(o) /\ SameFields(o)
      /\ Loses(o) \/ Repeats(o)
      /\ cmd' = cmd \/ (w \in Commands /\ CmdOnly(w) /\ GoesOn(cmd[w].at, cmd'[w].at)
                          /\ Elsewhere(cmd'[w], cmd[w]))
  BY ReportEffect
<1> HIDE DEF w
<1>2. ManagedFits(objs'[o], Len(procs))
  BY <1>1, FitsLess
<1>3. /\ cmd' \in [Commands -> Handler]
      /\ \A c \in Commands : cmd'[c] = cmd[c] \/ HandlerFits(cmd'[c], Len(objs), Len(procs))
  BY <1>1, CoreFacts DEF CmdOnly, HandlerFits, HasObject, HasAdapter, Elsewhere, GoesOn
<1> QED
  BY <1>1, <1>2, <1>3, CoreOneObject DEF CoreTypes

LEMMA CoreTold ==
  ASSUME CoreTypes, NEW k \in 1..Len(procs), NEW o \in 1..Len(objs), NEW s, ToldEffect(o, k, s),
         cmd' = cmd, cur' = cur, procs' \in Seq(Runtime), Len(procs') = Len(procs),
         \A j \in 1..Len(procs) : procs'[j].st \in Live =>
            procs[j].st \in Live /\ procs'[j].o = procs[j].o
  PROVE  CoreTypes'
<1>1. ManagedFits(objs'[o], Len(procs))
  <2>1. objs'[o].adapter <= Len(procs)
    BY CoreFacts DEF ToldEffect, ManagedFits
  <2> DEFINE r == Rep(s, k, None, FALSE)
  <2>2. r.k = k
    BY DEF Rep
  <2> HIDE DEF r
  <2>3. ASSUME Gains(o, r) PROVE ManagedFits(objs'[o], Len(procs))
    BY <2>1, <2>2, <2>3, FitsGains
  <2>4. ASSUME objs'[o].reports = objs[o].reports PROVE ManagedFits(objs'[o], Len(procs))
    BY <2>1, <2>4, FitsSame, CoreFacts
  <2> QED
    BY <2>3, <2>4 DEF ToldEffect, r
<1> QED
  BY <1>1, CoreKept, CoreFacts DEF ToldEffect, ObjOnly, CoreTypes

LEMMA CoreRuntime ==
  ASSUME CoreTypes, NEW k \in DOMAIN procs,
         Prompt(k) \/ RuntimeStatus(k) \/ RuntimeEnds(k) \/ ProcessExits(k)
  PROVE  CoreTypes'
<1>1. CASE Prompt(k)
  BY <1>1, RestEffect DEF CoreTypes, KeepObjs, KeepProcs
<1>2. CASE RuntimeStatus(k)
  <2> DEFINE o == procs[k].o
  <2>1. PICK s : /\ k \in 1..Len(procs) /\ o \in 1..Len(objs) /\ cmd' = cmd /\ cur' = cur /\ procs' = procs
                 /\ ToldEffect(o, k, s)
    BY <1>2, RuntimeStatusEffect DEF KeepProcs
  <2> HIDE DEF o
  <2> QED
    BY <2>1, CoreTold, CoreFacts
<1>3. CASE RuntimeEnds(k)
  <2> DEFINE o == procs[k].o
  <2>1. /\ k \in 1..Len(procs) /\ o \in 1..Len(objs) /\ cmd' = cmd /\ cur' = cur
        /\ ProcOnly(k) /\ procs'[k].st \in {"gone", "closing"}
        /\ ToldEffect(o, k, "stopped") \/ objs' = objs
    BY <1>3, RuntimeEndsEffect
  <2> HIDE DEF o
  <2>2. \A j \in 1..Len(procs) : procs'[j].st \in Live =>
           procs[j].st \in Live /\ procs'[j].o = procs[j].o
    BY <2>1 DEF ProcOnly, Live
  <2>3. CASE ToldEffect(o, k, "stopped")
    BY <2>1, <2>2, <2>3, CoreTold DEF ProcOnly
  <2>4. CASE objs' = objs
    BY <2>1, <2>2, <2>4, CoreKept, CoreFacts DEF ProcOnly, CoreTypes
  <2> QED
    BY <2>1, <2>3, <2>4
<1>4. CASE ProcessExits(k)
  <2>1. k \in 1..Len(procs) /\ cmd' = cmd /\ KeepObjs /\ ProcOnly(k) /\ procs'[k].st = "gone"
    BY <1>4, ProcessExitsEffect
  <2>2. \A j \in 1..Len(procs) : procs'[j].st \in Live =>
           procs[j].st \in Live /\ procs'[j].o = procs[j].o
    BY <2>1 DEF ProcOnly, Live
  <2> QED
    BY <2>1, <2>2, CoreKept, CoreFacts DEF ProcOnly, KeepObjs, CoreTypes
<1> QED
  BY <1>1, <1>2, <1>3, <1>4

LEMMA CoreCrash ==
  ASSUME CoreTypes, Crash
  PROVE  CoreTypes'
<1>1. /\ cmd' \in [Commands -> Handler] /\ objs' = <<>> /\ cur' = 0
      /\ \A c \in Commands : cmd'[c].at = "idle" /\ cmd'[c].o = 0 /\ cmd'[c].k = 0
      /\ procs' \in Seq(Runtime) /\ Len(procs') = Len(procs)
      /\ \A j \in 1..Len(procs) : procs'[j].st \in {"gone", "orphan"}
  BY CrashEffect
<1>2. objs' \in Seq(Managed) /\ Len(objs') = 0 /\ Len(procs) \in Nat
  BY <1>1, CoreFacts
<1>3. \A c \in Commands : HandlerFits(cmd'[c], Len(objs'), Len(procs'))
  BY <1>1, <1>2 DEF HandlerFits, HasObject, HasAdapter
<1>4. \A k \in 1..Len(procs') : procs'[k].st \notin Live
  BY <1>1 DEF Live
<1>5. /\ 1..Len(objs') = {} /\ cur' \in 0..Len(objs')
  BY <1>1, <1>2
<1> QED
  BY <1>1, <1>2, <1>3, <1>4, <1>5 DEF CoreTypes

LEMMA CoreStep == CoreTypes /\ [Next]_vars => CoreTypes'
<1> SUFFICES ASSUME CoreTypes, [Next]_vars PROVE CoreTypes'
  OBVIOUS
<1>1. CASE Restart \/ UNCHANGED vars
  BY <1>1, RestEffect DEF CoreTypes, KeepObjs, KeepProcs
<1>2. CASE \E c \in Commands : Issue(c) \/ Handle(c) \/ Continue(c) \/ StartFails(c)
  <2>1. PICK c \in Commands : Issue(c) \/ Handle(c) \/ Continue(c) \/ StartFails(c)
    BY <1>2
  <2> QED
    BY <2>1, CoreCommand
<1>3. CASE \E o \in DOMAIN objs : ReportDelivered(o) \/ ReportFails(o) \/ ReportRefused(o)
  BY <1>3, CoreReport
<1>4. CASE \E k \in DOMAIN procs : Prompt(k) \/ RuntimeStatus(k) \/ RuntimeEnds(k) \/ ProcessExits(k)
  BY <1>4, CoreRuntime
<1>5. CASE Crash
  BY <1>5, CoreCrash
<1> QED
  BY <1>1, <1>2, <1>3, <1>4, <1>5 DEF Next

LEMMA CoreInit == Init => CoreTypes
<1> SUFFICES ASSUME Init PROVE CoreTypes
  OBVIOUS
<1>1. cmd \in [Commands -> Handler] /\ \A c \in Commands : cmd[c].at = "idle" /\ cmd[c].o = 0 /\ cmd[c].k = 0
  BY IdleHandler DEF Init
<1>2. objs \in Seq(Managed) /\ procs \in Seq(Runtime) /\ Len(objs) = 0 /\ Len(procs) = 0 /\ cur = 0
  BY DEF Init
<1> QED
  BY <1>1, <1>2 DEF CoreTypes, HandlerFits, HasObject, HasAdapter

-----------------------------------------------------------------------------
(* What is handled has no result                                            *)

Kind(c, at) ==
    /\ at \in Begins => c \in Launches
    /\ at \in StartsUp \cup {"failing"} => c \in Starters
    /\ at = "stopping" => c \in Stops

LEMMA PostedOne ==
  ASSUME NEW c \in Commands, NEW res, Posted(c, res)
  PROVE  \A d \in Commands : d # c => recorded'[d] = recorded[d]
<1> DEFINE x == IF recorded[c] = None THEN res ELSE recorded[c]
<1>1. recorded' = recorded \/ recorded' = [recorded EXCEPT ![c] = x]
  BY DEF Posted
<1> HIDE DEF x
<1>2. CASE recorded' = [recorded EXCEPT ![c] = x]
  BY <1>2
<1> QED
  BY <1>1, <1>2

LEMMA HandledOne ==
  ASSUME Handled, NEW c \in Commands, \A d \in Commands : d # c => cmd'[d] = cmd[d],
         UNCHANGED gateway, cmd[c].at # "idle" \/ Received(c), Kind(c, cmd'[c].at)
  PROVE  Handled'
BY DEF Handled, gateway, Received, Kind

LEMMA HandledCommand ==
  ASSUME CoreTypes, Handled, NEW c \in Commands, Handle(c) \/ Continue(c) \/ Issue(c) \/ StartFails(c)
  PROVE  Handled'
<1>1. CASE Issue(c)
  BY <1>1 DEF Issue, Handled, daemon
<1>2. CASE DeliverDone(c)
  <2>1. /\ cmd' = cmd /\ issued' = issued /\ cmd[c].at = "idle"
        /\ \A d \in Commands : d # c => recorded'[d] = recorded[d]
    BY <1>2, PostedOne DEF DeliverDone, daemon, Received
  <2> QED
    BY <2>1 DEF Handled
<1>3. CASE Post(c)
  <2>1. /\ CmdOnly(c) /\ issued' = issued
        /\ \A d \in Commands : d # c => recorded'[d] = recorded[d]
    BY <1>3, EndsEffect, PostedOne DEF Post, Ends
  <2>2. cmd'[c].at = "idle"
    <3>1. cmd' = [cmd EXCEPT ![c] = Idle]
      BY <1>3 DEF Post
    <3> QED
      BY <3>1, IdleHandler, CoreFacts
  <2> QED
    BY <2>1, <2>2 DEF Handled, CmdOnly, Begins, StartsUp
<1>4. CASE Ends(c) /\ ~Post(c)
  <2>1. UNCHANGED gateway /\ (cmd[c].at # "idle" \/ Received(c))
    BY <1>4 DEF Ends, LaunchAlready, LaunchRefused, ResumeRefused, StopRefused, CommandApplied,
                CommandReported, StopUnknown, gateway, Handling
  <2>2. CmdOnly(c) /\ Kind(c, cmd'[c].at)
    BY <1>4, EndsEffect DEF Kind, Begins, StartsUp
  <2> QED
    BY <2>1, <2>2, HandledOne DEF CmdOnly
<1>5. CASE Launch(c)
  <2>1. UNCHANGED gateway /\ Received(c) /\ c \in Launches
    BY <1>5 DEF Launch, gateway, Handling
  <2>2. CmdOnly(c) /\ cmd'[c].at = "reporting"
    BY <1>5, LaunchEffect
  <2> QED
    BY <2>1, <2>2, HandledOne DEF CmdOnly, Kind, Begins, StartsUp
<1>6. CASE Resume(c)
  <2>1. UNCHANGED gateway /\ Received(c) /\ c \in Resumes
    BY <1>6 DEF Resume, gateway, Handling
  <2>2. CmdOnly(c) /\ cmd'[c].at = "starting"
    BY <1>6, ResumeEffect
  <2> QED
    BY <2>1, <2>2, HandledOne DEF CmdOnly, Kind, Begins, StartsUp, Starters
<1>7. CASE Stop(c)
  <2>1. UNCHANGED gateway /\ Received(c) /\ c \in Stops
    BY <1>7 DEF Stop, gateway, Handling
  <2>2. CmdOnly(c) /\ cmd'[c].at = "stopping"
    BY <1>7, StopEffect
  <2> QED
    BY <2>1, <2>2, HandledOne DEF CmdOnly, Kind, Begins, StartsUp
<1>8. CASE StartAdapter(c)
  <2>1. UNCHANGED gateway /\ cmd[c].at = "start" /\ c \in Launches
    BY <1>8 DEF StartAdapter, gateway, Handled, Begins
  <2>2. CmdOnly(c) /\ cmd'[c].at = "starting"
    BY <1>8, StartAdapterEffect
  <2> QED
    BY <2>1, <2>2, HandledOne DEF CmdOnly, Kind, Begins, StartsUp, Starters
<1>9. CASE Spawn(c) \/ RegisterNative(c)
  BY <1>9 DEF Spawn, RegisterNative, Handled, gateway, daemon
<1>10. CASE AdapterStarts(c)
  <2>1. UNCHANGED gateway /\ cmd[c].at = "starting" /\ c \in Starters
    BY <1>10 DEF AdapterStarts, gateway, Handled, StartsUp
  <2>2. CmdOnly(c) /\ cmd'[c].at = "started"
    BY <1>10, StateEffect
  <2> QED
    BY <2>1, <2>2, HandledOne DEF CmdOnly, Kind, Begins
<1>11. CASE StartFails(c)
  <2>1. UNCHANGED gateway /\ cmd[c].at = "starting" /\ c \in Starters
    BY <1>11 DEF StartFails, gateway, Handled, StartsUp
  <2>2. CmdOnly(c) /\ cmd'[c].at = "failing"
    BY <1>11, StartFailsEffect
  <2> QED
    BY <2>1, <2>2, HandledOne DEF CmdOnly, Kind, Begins
<1>12. CASE LaunchFailed(c) \/ ResumeFailed(c) \/ Connect(c) \/ StopApplied(c)
  <2>1. UNCHANGED gateway /\ cmd[c].at # "idle"
    BY <1>12 DEF LaunchFailed, ResumeFailed, Connect, StopApplied, gateway
  <2>2. CmdOnly(c) /\ cmd'[c].at \in {"undone", "posting", "connecting", "stopped"}
    <3>1. CASE LaunchFailed(c)
      BY <3>1, LaunchFailedEffect
    <3>2. CASE ResumeFailed(c)
      BY <3>2, ResumeFailedEffect
    <3>3. CASE Connect(c)
      BY <3>3, ConnectEffect
    <3>4. CASE StopApplied(c)
      BY <3>4, StopAppliedEffect
    <3> QED
      BY <1>12, <3>1, <3>2, <3>3, <3>4
  <2> QED
    BY <2>1, <2>2, HandledOne DEF CmdOnly, Kind, Begins, StartsUp
<1> QED
  BY <1>1, <1>2, <1>3, <1>4, <1>5, <1>6, <1>7, <1>8, <1>9, <1>10, <1>11, <1>12
     DEF Handle, Continue, Ends

LEMMA HandledReport ==
  ASSUME CoreTypes, Handled, Waiters, NEW o \in DOMAIN objs,
         ReportDelivered(o) \/ ReportFails(o) \/ ReportRefused(o)
  PROVE  Handled'
<1> DEFINE w == objs[o].reports[1].waits
<1>1. /\ o \in 1..Len(objs) /\ Len(objs[o].reports) \in Nat \ {0}
      /\ w = None => cmd' = cmd
      /\ w # None => w \in Commands /\ CmdOnly(w) /\ GoesOn(cmd[w].at, cmd'[w].at)
  BY ReportEffect
<1>2. UNCHANGED gateway
  BY DEF ReportDelivered, ReportFails, ReportRefused, gateway
<1>3. 1 \in 1..Len(objs[o].reports) /\ Waits(o, 1, w)
  BY <1>1 DEF Waits
<1> HIDE DEF w
<1>4. CASE w = None
  BY <1>1, <1>2, <1>4 DEF Handled, gateway
<1>5. CASE w # None
  <2>1. cmd[w].at \in Waiting
    BY <1>3, <1>5 DEF Waiters
  <2>2. cmd[w].at # "idle" /\ Kind(w, cmd'[w].at)
    BY <1>1, <1>5, <2>1 DEF Handled, Kind, Waiting, GoesOn, Begins, StartsUp
  <2> QED
    BY <1>1, <1>2, <1>5, <2>2, HandledOne DEF CmdOnly
<1> QED
  BY <1>4, <1>5

-----------------------------------------------------------------------------
(* A command waits for one report                                           *)

\* A command that awaits a report still does, but for w.
Stay(w) == \A c \in Commands : cmd[c].at \in Waiting /\ c # w => cmd'[c].at \in Waiting

LEMMA StayOne ==
  ASSUME NEW c \in Commands, CmdOnly(c), cmd[c].at \notin Waiting
  PROVE  Stay(None)
BY DEF Stay, CmdOnly

LEMMA NoneIsNoCommand == None \notin Commands
BY DaemonAssumption DEF None

\* No command waits that did not.
LEMMA WaitSame ==
  ASSUME Waiters, Stay(None), \A o, i, c : Waits(o, i, c)' /\ c # None => Waits(o, i, c)
  PROVE  Waiters'
BY NoneIsNoCommand DEF Waiters, Stay

\* Only w waits that did not, for one report.
OneMore(p, j, w) ==
    \A o, i, c : Waits(o, i, c)' => Waits(o, i, c) \/ (o = p /\ i = j /\ c = w)

LEMMA WaitMore ==
  ASSUME Waiters, Stay(None), NEW w \in Commands, cmd[w].at \notin Waiting, cmd'[w].at \in Waiting,
         NEW p, NEW j, OneMore(p, j, w)
  PROVE  Waiters'
<1> USE DEF OneMore
<1>1. \A o, i : ~Waits(o, i, w)
  BY NoneIsNoCommand DEF Waiters
<1>2. ASSUME NEW o, NEW i, NEW c, Waits(o, i, c)', c # None
      PROVE  c \in Commands /\ cmd'[c].at \in Waiting
  BY <1>2, NoneIsNoCommand DEF Waiters, Stay
<1>3. ASSUME NEW o, NEW i, NEW q, NEW l, NEW c, Waits(o, i, c)', Waits(q, l, c)', c # None
      PROVE  o = q /\ i = l
  BY <1>1, <1>3 DEF Waiters
<1> QED
  BY <1>2, <1>3 DEF Waiters

LEMMA WaitGains ==
  ASSUME CoreTypes, Waiters, Stay(None), NEW o \in 1..Len(objs), ObjOnly(o), NEW r, Gains(o, r),
         r.waits # None => /\ r.waits \in Commands /\ cmd[r.waits].at \notin Waiting
                           /\ cmd'[r.waits].at \in Waiting
  PROVE  Waiters'
<1> DEFINE j == Len(objs[o].reports) + 1
<1>1. Len(objs[o].reports) \in Nat
  BY ReportTypes
<1>2. \A p, i, c : Waits(p, i, c)' => Waits(p, i, c) \/ (p = o /\ i = j /\ c = r.waits)
  BY <1>1, SMTT(30) DEF Waits, ObjOnly, Gains
<1> HIDE DEF j
<1>3. CASE r.waits = None
  BY <1>2, <1>3, WaitSame
<1>4. CASE r.waits # None
  <2>1. OneMore(o, j, r.waits)
    BY <1>2 DEF OneMore
  <2> QED
    BY <1>4, <2>1, WaitMore
<1> QED
  BY <1>3, <1>4

\* The reports that wait are the same.
LEMMA WaitKept ==
  ASSUME Waiters, Stay(None), Len(objs') = Len(objs),
         \A o \in 1..Len(objs) : objs'[o].reports = objs[o].reports
  PROVE  Waiters'
<1>1. \A o, i, c : Waits(o, i, c)' => Waits(o, i, c)
  BY DEF Waits
<1> QED
  BY <1>1, WaitSame

\* The first report of o was attempted; the command that waited for it goes on.
LEMMA WaitLoses ==
  ASSUME Waiters, NEW o \in 1..Len(objs), ObjOnly(o),
         Loses(o) \/ Repeats(o), Stay(objs[o].reports[1].waits), objs[o].reports[1] \in Report
  PROVE  Waiters'
<1>1. Len(objs[o].reports) \in Nat /\ 1 \in 1..Len(objs[o].reports)
  BY DEF Loses, Repeats
<1> DEFINE w == objs[o].reports[1].waits
<1>2. Waits(o, 1, w)
  BY <1>1 DEF Waits
<1>3. \A c \in Commands : cmd[c].at \in Waiting /\ c # w => cmd'[c].at \in Waiting
  BY DEF Stay
<1>0. [objs[o].reports[1] EXCEPT !.waits = None].waits = None
  BY DEF Report
<1> HIDE DEF w
<1>4. CASE Loses(o)
  <2>1. \A p, i, c : Waits(p, i, c)' =>
           (p # o /\ Waits(p, i, c)) \/ (p = o /\ i \in Nat /\ i + 1 # 1 /\ Waits(p, i + 1, c))
    <3> SUFFICES ASSUME NEW p, NEW i, NEW c, Waits(p, i, c)'
                 PROVE  \/ p # o /\ Waits(p, i, c)
                        \/ p = o /\ i \in Nat /\ i + 1 # 1 /\ Waits(p, i + 1, c)
      OBVIOUS
    <3>1. CASE p # o
      BY <3>1 DEF Waits, ObjOnly
    <3>2. CASE p = o
      BY <1>1, <1>4, <3>2 DEF Waits, Loses, ObjOnly
    <3> QED
      BY <3>1, <3>2
  <2>2. \A p, i, c : Waits(p, i, c)' /\ c # None => c # w /\ c \in Commands /\ cmd[c].at \in Waiting
    BY <1>2, <2>1 DEF Waiters
  <2>3. ASSUME NEW p, NEW i, NEW q, NEW j, NEW c, Waits(p, i, c)', Waits(q, j, c)', c # None
        PROVE  p = q /\ i = j
    <3>1. CASE p = o /\ q = o
      <4>1. i \in Nat /\ j \in Nat /\ i + 1 = j + 1
        BY <2>1, <2>3, <3>1 DEF Waiters
      <4> QED
        BY <3>1, <4>1
    <3>2. CASE ~(p = o /\ q = o)
      BY <2>1, <2>3, <3>2 DEF Waiters
    <3> QED
      BY <3>1, <3>2
  <2> QED
    BY <1>3, <2>2, <2>3 DEF Waiters
<1>5. CASE Repeats(o)
  <2>1. \A p, i, c : Waits(p, i, c)' /\ c # None => Waits(p, i, c) /\ ~(p = o /\ i = 1)
    <3> SUFFICES ASSUME NEW p, NEW i, NEW c, Waits(p, i, c)', c # None
                 PROVE  Waits(p, i, c) /\ ~(p = o /\ i = 1)
      OBVIOUS
    <3>1. CASE p # o
      BY <3>1 DEF Waits, ObjOnly
    <3>2. CASE p = o
      <4>1. i # 1
        BY <1>0, <1>5, <3>2 DEF Waits, Repeats
      <4>2. i \in 1..Len(objs[o].reports)
        BY <1>5, <3>2 DEF Waits, Repeats
      <4>3. i \in 2..Len(objs[o].reports)
        BY <1>1, <4>1, <4>2
      <4> QED
        BY <1>5, <3>2, <4>1, <4>2, <4>3 DEF Waits, Repeats
    <3> QED
      BY <3>1, <3>2
  <2>2. \A p, i, c : Waits(p, i, c)' /\ c # None => c # w
    BY <1>2, <2>1 DEF Waiters
  <2> QED
    BY <1>3, <2>1, <2>2 DEF Waiters
<1> QED
  BY <1>4, <1>5

LEMMA WaitTold ==
  ASSUME CoreTypes, Waiters, NEW k \in 1..Len(procs), NEW o \in 1..Len(objs), NEW s,
         ToldEffect(o, k, s), cmd' = cmd
  PROVE  Waiters'
<1>1. Stay(None)
  BY DEF Stay
<1> DEFINE r == Rep(s, k, None, FALSE)
<1>2. r.waits = None
  BY DEF Rep
<1> HIDE DEF r
<1>3. ASSUME Gains(o, r) PROVE Waiters'
  BY <1>1, <1>2, <1>3, WaitGains DEF ToldEffect
<1>4. ASSUME objs'[o].reports = objs[o].reports PROVE Waiters'
  BY <1>1, <1>4, WaitKept DEF ToldEffect, ObjOnly
<1> QED
  BY <1>3, <1>4 DEF ToldEffect, r

LEMMA WaitersCommand ==
  ASSUME CoreTypes, Waiters, NEW c \in Commands, Handle(c) \/ Continue(c) \/ Issue(c) \/ StartFails(c)
  PROVE  Waiters'
<1>1. CASE Issue(c) \/ DeliverDone(c) \/ RegisterNative(c) \/ Spawn(c)
  <2>1. cmd' = cmd /\ objs' = objs
    BY <1>1 DEF Issue, DeliverDone, RegisterNative, Spawn, daemon
  <2> QED
    BY <2>1, WaitKept DEF Stay
<1>2. CASE Ends(c) \/ Stop(c) \/ AdapterStarts(c)
  <2>1. KeepObjs /\ CmdOnly(c) /\ cmd[c].at \notin Waiting
    <3>1. CASE Ends(c)
      BY <3>1, EndsEffect DEF Waiting
    <3>2. CASE Stop(c)
      BY <3>2, StopEffect DEF Stop, Handling, Received, Waiting
    <3>3. CASE AdapterStarts(c)
      BY <3>3, StateEffect DEF Waiting
    <3> QED
      BY <1>2, <3>1, <3>2, <3>3
  <2> QED
    BY <2>1, StayOne, WaitKept DEF KeepObjs
<1>3. CASE StartAdapter(c) \/ StartFails(c)
  <2> DEFINE o == cmd[c].o
  <2>1. ObjOnly(o) /\ objs'[o].reports = objs[o].reports /\ CmdOnly(c) /\ cmd[c].at \notin Waiting
    BY <1>3, StartAdapterEffect, StartFailsEffect DEF Waiting
  <2> HIDE DEF o
  <2> QED
    BY <2>1, StayOne, WaitKept DEF ObjOnly
<1>4. CASE ResumeFailed(c)
  <2> DEFINE o == cmd[c].o
  <2>1. /\ CmdOnly(c) /\ cmd[c].at \notin Waiting
        /\ objs' = objs \/ (ObjOnly(o) /\ objs'[o].reports = objs[o].reports)
    BY <1>4, ResumeFailedEffect DEF Waiting
  <2> HIDE DEF o
  <2> QED
    BY <2>1, StayOne, WaitKept DEF ObjOnly
<1>5. CASE Resume(c)
  <2> DEFINE o == cur'
  <2>1. /\ CmdOnly(c) /\ \A p \in 1..Len(objs) : p # o => objs'[p] = objs[p]
        /\ \/ cur # 0 /\ o = cur /\ Len(objs') = Len(objs) /\ objs'[o].reports = objs[o].reports
           \/ cur = 0 /\ o = Len(objs) + 1 /\ Len(objs') = o /\ objs'[o].reports = <<>>
    BY <1>5, ResumeEffect
  <2>2. cmd[c].at \notin Waiting /\ Len(objs) \in Nat
    BY <1>5, CoreFacts DEF Resume, Handling, Received, Waiting
  <2> HIDE DEF o
  <2>3. \A p, i, d : Waits(p, i, d)' => Waits(p, i, d)
    BY <2>1, <2>2 DEF Waits
  <2> QED
    BY <2>1, <2>2, <2>3, StayOne, WaitSame
<1>6. CASE Launch(c)
  <2> DEFINE o == Len(objs) + 1
  <2> DEFINE r == Rep("starting", 0, c, FALSE)
  <2>1. /\ CmdOnly(c) /\ cmd'[c].at = "reporting" /\ Len(objs') = o
        /\ \A p \in 1..Len(objs) : objs'[p] = objs[p]
        /\ Len(objs'[o].reports) = 1 /\ objs'[o].reports[1] = r /\ r.waits = c
    BY <1>6, LaunchEffect DEF Rep
  <2>2. cmd[c].at \notin Waiting /\ Len(objs) \in Nat /\ cmd'[c].at \in Waiting
    BY <1>6, <2>1, CoreFacts DEF Launch, Handling, Received, Waiting
  <2>3. \A p \in 1..o : p \in 1..Len(objs) \/ p = o
    BY <2>2
  <2> HIDE DEF o, r
  <2>4. \A p, i, d : Waits(p, i, d)' => Waits(p, i, d) \/ (p = o /\ i = 1 /\ d = c)
    BY <2>1, <2>3 DEF Waits
  <2> QED
    <3>1. OneMore(o, 1, c) /\ Stay(None)
      BY <2>1, <2>2, <2>4, StayOne DEF OneMore
    <3> QED
      BY <2>2, <3>1, WaitMore
<1>7. CASE LaunchFailed(c) \/ Connect(c) \/ StopApplied(c)
  <2> DEFINE o == cmd[c].o
  <2> DEFINE k == cmd[c].k
  <2>1. PICK r \in {Rep("failed", k, c, FALSE), Rep(Held(o), k, c, TRUE), Rep("stopped", k, c, FALSE)} :
           /\ o \in 1..Len(objs) /\ ObjOnly(o) /\ Gains(o, r) /\ r.waits = c
           /\ CmdOnly(c) /\ cmd[c].at \notin Waiting /\ cmd'[c].at \in Waiting
    <3>1. CASE LaunchFailed(c)
      BY <3>1, LaunchFailedEffect DEF Waiting
    <3>2. CASE Connect(c)
      BY <3>2, ConnectEffect DEF Waiting
    <3>3. CASE StopApplied(c)
      BY <3>3, StopAppliedEffect DEF Waiting
    <3> QED
      BY <1>7, <3>1, <3>2, <3>3
  <2> HIDE DEF o
  <2>2. Stay(None)
    BY <2>1, StayOne
  <2> QED
    BY <2>1, <2>2, WaitGains
<1> QED
  BY <1>1, <1>2, <1>3, <1>4, <1>5, <1>6, <1>7 DEF Handle, Continue, Ends

LEMMA WaitersReport ==
  ASSUME CoreTypes, Waiters, NEW o \in DOMAIN objs,
         ReportDelivered(o) \/ ReportFails(o) \/ ReportRefused(o)
  PROVE  Waiters'
<1> DEFINE w == objs[o].reports[1].waits
<1>1. /\ o \in 1..Len(objs) /\ objs[o].reports[1] \in Report /\ ObjOnly(o)
      /\ Loses(o) \/ Repeats(o)
      /\ w = None => cmd' = cmd
      /\ w # None => w \in Commands /\ CmdOnly(w)
  BY ReportEffect
<1> HIDE DEF w
<1>2. Stay(w)
  BY <1>1 DEF Stay, CmdOnly
<1> QED
  BY <1>1, <1>2, WaitLoses DEF w

LEMMA WaitersRuntime ==
  ASSUME CoreTypes, Waiters, NEW k \in DOMAIN procs,
         Prompt(k) \/ RuntimeStatus(k) \/ RuntimeEnds(k) \/ ProcessExits(k)
  PROVE  Waiters'
<1>1. CASE Prompt(k) \/ ProcessExits(k)
  <2>1. cmd' = cmd /\ objs' = objs
    BY <1>1 DEF Prompt, ProcessExits, daemon
  <2> QED
    BY <2>1, WaitKept DEF Stay
<1>2. CASE RuntimeStatus(k)
  BY <1>2, RuntimeStatusEffect, WaitTold
<1>3. CASE RuntimeEnds(k)
  <2> DEFINE o == procs[k].o
  <2>1. /\ k \in 1..Len(procs) /\ o \in 1..Len(objs) /\ cmd' = cmd
        /\ ToldEffect(o, k, "stopped") \/ objs' = objs
    BY <1>3, RuntimeEndsEffect
  <2> HIDE DEF o
  <2>2. CASE ToldEffect(o, k, "stopped")
    BY <2>1, <2>2, WaitTold
  <2>3. CASE objs' = objs
    BY <2>1, <2>3, WaitKept DEF Stay
  <2> QED
    BY <2>1, <2>2, <2>3
<1> QED
  BY <1>1, <1>2, <1>3

\* What carries the rest: the types, and where each command is.
Base == CoreTypes /\ Handled /\ Waiters

LEMMA BaseStep == Base /\ [Next]_vars => Base'
<1> SUFFICES ASSUME Base, [Next]_vars PROVE Handled' /\ Waiters'
  BY CoreStep DEF Base
<1> USE DEF Base
<1>1. CASE Restart \/ UNCHANGED vars
  <2>1. cmd' = cmd /\ objs' = objs /\ UNCHANGED gateway
    BY <1>1 DEF Restart, vars, daemon, gateway
  <2> QED
    BY <2>1, WaitKept DEF Stay, Handled, gateway
<1>2. CASE \E c \in Commands : Issue(c) \/ Handle(c) \/ Continue(c) \/ StartFails(c)
  <2>1. PICK c \in Commands : Issue(c) \/ Handle(c) \/ Continue(c) \/ StartFails(c)
    BY <1>2
  <2> QED
    BY <2>1, HandledCommand, WaitersCommand
<1>3. CASE \E o \in DOMAIN objs : ReportDelivered(o) \/ ReportFails(o) \/ ReportRefused(o)
  BY <1>3, HandledReport, WaitersReport
<1>4. CASE \E k \in DOMAIN procs : Prompt(k) \/ RuntimeStatus(k) \/ RuntimeEnds(k) \/ ProcessExits(k)
  <2>1. cmd' = cmd /\ UNCHANGED gateway
    BY <1>4 DEF Prompt, RuntimeStatus, RuntimeEnds, ProcessExits, daemon, gateway
  <2> QED
    BY <1>4, <2>1, WaitersRuntime DEF Handled, gateway
<1>5. CASE Crash
  <2>1. objs' = <<>> /\ \A c \in Commands : cmd'[c].at = "idle"
    BY <1>5, CrashEffect
  <2>2. \A o, i, c : ~Waits(o, i, c)'
    BY <2>1 DEF Waits
  <2> QED
    BY <2>1, <2>2 DEF Handled, Waiters, Begins, StartsUp
<1> QED
  BY <1>1, <1>2, <1>3, <1>4, <1>5 DEF Next

LEMMA BaseInit == Init => Base
<1> SUFFICES ASSUME Init PROVE Handled /\ Waiters
  BY CoreInit DEF Base
<1>1. objs = <<>> /\ \A c \in Commands : cmd[c].at = "idle"
  BY IdleHandler DEF Init
<1> QED
  BY <1>1 DEF Handled, Waiters, Waits, Begins, StartsUp

-----------------------------------------------------------------------------
(* The types of what the gateway has, and of the results kept               *)

LEMMA PostedTypes ==
  ASSUME GatewayTypes, NEW c \in Commands, NEW res \in Results, Posted(c, res)
  PROVE  /\ recorded' \in [Commands -> Results \cup {None}]
         /\ fails' \in Nat /\ fails' <= MaxFail
<1> DEFINE x == IF recorded[c] = None THEN res ELSE recorded[c]
<1>1. recorded' = recorded \/ recorded' = [recorded EXCEPT ![c] = x]
  BY DEF Posted
<1>2. recorded \in [Commands -> Results \cup {None}]
  BY DEF GatewayTypes
<1>3. x \in Results \cup {None}
  BY <1>2
<1> HIDE DEF x
<1>4. recorded' \in [Commands -> Results \cup {None}]
  BY <1>1, <1>2, <1>3
<1>5. fails' = fails \/ (fails < MaxFail /\ fails' = fails + 1)
  BY DEF Posted
<1>6. fails' \in Nat /\ fails' <= MaxFail
  BY <1>5, DaemonAssumption DEF GatewayTypes
<1> QED
  BY <1>4, <1>6

LEMMA RememberTypes ==
  ASSUME FinishedTypes, NEW c \in Commands, NEW res \in Results, Remember(c, res)
  PROVE  FinishedTypes'
<1> DEFINE E == [c : Commands, res : Results]
<1> DEFINE e == Entry(c, res)
<1> DEFINE g == [i \in DOMAIN finished |-> IF i \in Done(c) THEN e ELSE finished[i]]
<1> DEFINE kept == IF Done(c) # {} THEN g ELSE Append(finished, e)
<1>1. finished \in Seq(E) /\ Len(finished) \in Nat /\ Len(finished) <= MaxFinished
      /\ DOMAIN finished = 1..Len(finished)
  BY LenProperties DEF FinishedTypes
<1>2. e \in E
  BY DEF Entry
<1>3. finished' = IF Len(kept) > MaxFinished THEN Tail(kept) ELSE kept
  BY DEF Remember
<1>4. MaxFinished \in Nat \ {0}
  BY DaemonAssumption
<1> HIDE DEF E, e
<1>5. kept \in Seq(E) /\ Len(kept) \in Nat /\ Len(kept) <= MaxFinished + 1
  <2>1. CASE Done(c) # {}
    <3>1. g \in [1..Len(finished) -> E]
      <4>1. \A i \in 1..Len(finished) : finished[i] \in E
        BY <1>1
      <4> QED
        BY <1>1, <1>2, <4>1
    <3> HIDE DEF g
    <3>2. g \in Seq(E)
      BY <1>1, <3>1, SeqDef
    <3>3. Len(g) = Len(finished)
      BY <1>1, <3>1, <3>2, LenProperties
    <3> QED
      BY <1>1, <1>4, <2>1, <3>2, <3>3
  <2>2. CASE Done(c) = {}
    <3>1. Append(finished, e) \in Seq(E) /\ Len(Append(finished, e)) = Len(finished) + 1
      BY <1>1, <1>2, AppendProperties
    <3> QED
      BY <1>1, <1>4, <2>2, <3>1
  <2> QED
    BY <2>1, <2>2
<1> HIDE DEF kept
<1>6. CASE Len(kept) > MaxFinished
  <2>1. kept # <<>> /\ finished' = Tail(kept)
    BY <1>3, <1>4, <1>5, <1>6
  <2>2. Tail(kept) \in Seq(E) /\ Len(Tail(kept)) = Len(kept) - 1
    BY <1>5, <2>1, HeadTailProperties
  <2> QED
    BY <1>4, <1>5, <2>1, <2>2 DEF FinishedTypes, E
<1>7. CASE ~(Len(kept) > MaxFinished)
  BY <1>3, <1>4, <1>5, <1>7 DEF FinishedTypes, E
<1> QED
  BY <1>6, <1>7

\* The commands that remember their result.
LEMMA PostsResult ==
  ASSUME NEW c \in Commands,
         \/ LaunchAlready(c) \/ LaunchRefused(c) \/ ResumeRefused(c) \/ StopRefused(c)
         \/ CommandApplied(c) \/ CommandReported(c) \/ StopUnknown(c) \/ ResumeFailed(c)
  PROVE  /\ \E res \in Results : Posting(c, res)
         /\ UNCHANGED <<gateway, shown, record, up, ghost, fails, crashes>>
         /\ due' = due
<1>1. CASE LaunchAlready(c) \/ LaunchRefused(c) \/ ResumeRefused(c) \/ StopRefused(c)
  BY <1>1 DEF LaunchAlready, LaunchRefused, ResumeRefused, StopRefused, Results, gateway
<1>2. CASE CommandApplied(c) \/ CommandReported(c) \/ StopUnknown(c) \/ ResumeFailed(c)
  BY <1>2 DEF CommandApplied, CommandReported, StopUnknown, ResumeFailed, Results
<1> QED
  BY <1>1, <1>2

FinishedKept ==
    \/ finished' = finished \/ finished' = <<>>
    \/ \E c \in Commands : \E res \in Results : Remember(c, res)

LEMMA FinishedStep ==
  ASSUME FinishedTypes, FinishedKept
  PROVE  FinishedTypes'
<1>1. CASE finished' = finished
  BY <1>1 DEF FinishedTypes
<1>2. CASE finished' = <<>>
  BY <1>2, DaemonAssumption DEF FinishedTypes
<1>3. CASE \E c \in Commands : \E res \in Results : Remember(c, res)
  BY <1>3, RememberTypes
<1> QED
  BY <1>1, <1>2, <1>3 DEF FinishedKept

\* A result posted again was kept.
LEMMA KeptResult ==
  ASSUME FinishedTypes, NEW c \in Commands, NEW i \in Done(c)
  PROVE  finished[i].res \in Results
<1>1. finished[i] \in [c : Commands, res : Results]
  BY LenProperties DEF FinishedTypes, Done
<1> QED
  BY <1>1

LEMMA OthersCommand ==
  ASSUME CoreTypes, GatewayTypes, FinishedTypes, NEW c \in Commands,
         Handle(c) \/ Continue(c) \/ Issue(c) \/ StartFails(c)
  PROVE  /\ GatewayTypes' /\ FinishedKept
         /\ UNCHANGED ghost /\ (due' = due \/ Connect(c))
<1>1. CASE Issue(c)
  BY <1>1 DEF Issue, GatewayTypes, FinishedKept, daemon, ghost
<1>2. CASE DeliverDone(c)
  <2>1. PICK i \in Done(c) : Posted(c, finished[i].res)
    BY <1>2 DEF DeliverDone
  <2>2. finished[i].res \in Results
    BY KeptResult
  <2> QED
    BY <1>2, <2>1, <2>2, PostedTypes DEF DeliverDone, GatewayTypes, FinishedKept, daemon, ghost
<1>3. CASE Post(c)
  <2>1. Posted(c, cmd[c].res) /\ cmd[c].res \in Results
    BY <1>3, Captured DEF Post
  <2> QED
    BY <1>3, <2>1, PostedTypes DEF Post, GatewayTypes, FinishedKept, ghost
<1>4. CASE \/ LaunchAlready(c) \/ LaunchRefused(c) \/ ResumeRefused(c) \/ StopRefused(c)
           \/ CommandApplied(c) \/ CommandReported(c) \/ StopUnknown(c) \/ ResumeFailed(c)
  <2>1. /\ \E res \in Results : Posting(c, res)
        /\ UNCHANGED <<gateway, shown, record, up, ghost, fails, crashes>>
        /\ due' = due
    BY <1>4, PostsResult
  <2> QED
    BY <2>1 DEF Posting, gateway, ghost, GatewayTypes, FinishedKept
<1>5. CASE StartFails(c)
  <2>1. fails' \in Nat /\ fails' <= MaxFail
    BY <1>5, DaemonAssumption DEF StartFails, GatewayTypes
  <2> QED
    BY <1>5, <2>1 DEF StartFails, GatewayTypes, FinishedKept, gateway, ghost
<1>6. CASE RegisterNative(c) \/ Launch(c) \/ LaunchFailed(c)
  BY <1>6 DEF RegisterNative, Launch, LaunchFailed, GatewayTypes, FinishedKept, gateway, daemon, ghost
<1>7. CASE StartAdapter(c) \/ Spawn(c) \/ AdapterStarts(c) \/ Connect(c) \/ StopApplied(c)
  BY <1>7 DEF StartAdapter, Spawn, AdapterStarts, Connect, StopApplied, GatewayTypes, FinishedKept,
              gateway, daemon, ghost
<1>8. CASE Resume(c) \/ Stop(c)
  BY <1>8 DEF Resume, Stop, GatewayTypes, FinishedKept, gateway, ghost
<1> QED
  BY <1>1, <1>2, <1>3, <1>4, <1>5, <1>6, <1>7, <1>8 DEF Handle, Continue

LEMMA OthersReport ==
  ASSUME CoreTypes, GatewayTypes, NEW o \in DOMAIN objs,
         ReportDelivered(o) \/ ReportFails(o) \/ ReportRefused(o)
  PROVE  GatewayTypes' /\ FinishedKept
<1> DEFINE r == Head(objs[o].reports)
<1>1. objs[o].reports # <<>> /\ o \in 1..Len(objs)
  BY CoreFacts DEF ReportDelivered, ReportFails, ReportRefused
<1>2. r \in Report
  BY <1>1, Attempted, CoreFacts
<1>3. r.status \in Known
  BY <1>2 DEF Report, Known
<1>4. shown' = shown \/ shown' = r.status
  BY DEF ReportDelivered, ReportFails, ReportRefused, Show
<1>5. fails' = fails \/ (fails < MaxFail /\ fails' = fails + 1)
  BY DEF ReportDelivered, ReportFails, ReportRefused
<1>6. UNCHANGED <<gateway, record, up, crashes, finished>> /\ dropped' \in {dropped, TRUE}
  BY DEF ReportDelivered, ReportFails, ReportRefused
<1> HIDE DEF r
<1>7. fails' \in Nat /\ fails' <= MaxFail
  BY <1>5, DaemonAssumption DEF GatewayTypes
<1> QED
  BY <1>3, <1>4, <1>6, <1>7 DEF GatewayTypes, FinishedKept, gateway

LEMMA OthersStep ==
  ASSUME CoreTypes, GatewayTypes, FinishedTypes, [Next]_vars
  PROVE  GatewayTypes' /\ FinishedTypes'
<1>0. GatewayTypes' /\ FinishedKept
  <2>1. CASE Restart \/ UNCHANGED vars
    BY <2>1 DEF Restart, vars, daemon, ghost, gateway, GatewayTypes, FinishedKept
  <2>2. CASE \E c \in Commands : Issue(c) \/ Handle(c) \/ Continue(c) \/ StartFails(c)
    <3>1. PICK c \in Commands : Issue(c) \/ Handle(c) \/ Continue(c) \/ StartFails(c)
      BY <2>2
    <3> QED
      BY <3>1, OthersCommand
  <2>3. CASE \E o \in DOMAIN objs : ReportDelivered(o) \/ ReportFails(o) \/ ReportRefused(o)
    BY <2>3, OthersReport
  <2>4. CASE \E k \in DOMAIN procs : Prompt(k) \/ RuntimeStatus(k) \/ RuntimeEnds(k) \/ ProcessExits(k)
    BY <2>4 DEF Prompt, RuntimeStatus, RuntimeEnds, ProcessExits, daemon, ghost, gateway,
                GatewayTypes, FinishedKept
  <2>5. CASE Crash
    <3>1. crashes' \in Nat /\ crashes' <= MaxCrash
      BY <2>5, DaemonAssumption DEF Crash, GatewayTypes
    <3> QED
      BY <2>5, <3>1 DEF Crash, ghost, GatewayTypes, FinishedKept
  <2> QED
    BY <2>1, <2>2, <2>3, <2>4, <2>5 DEF Next
<1> QED
  BY <1>0, FinishedStep

-----------------------------------------------------------------------------
(* The adapters the ghosts name were started                                *)

\* The ghosts name nothing but what they named, and adapters that were started.
LEMMA GhostKept ==
  ASSUME CoreTypes, CoreTypes', GhostTypes, Len(procs) <= Len(procs'), NEW k \in 0..Len(procs'),
         due' \cup modes' \cup prompts' \cup bare' \cup denied'
            \subseteq due \cup modes \cup prompts \cup bare \cup denied \cup {k}
  PROVE  GhostTypes'
<1>1. Len(procs) \in Nat /\ Len(procs') \in Nat
  BY LenProperties DEF CoreTypes
<1>2. 0..Len(procs) \subseteq 0..Len(procs')
  BY <1>1
<1> QED
  BY <1>2 DEF GhostTypes

LEMMA ProcsGrow ==
  ASSUME CoreTypes, [Next]_vars
  PROVE  Len(procs) <= Len(procs')
<1>0. Len(procs) \in Nat
  BY CoreFacts
<1>1. CASE Restart \/ UNCHANGED vars
  BY <1>0, <1>1, RestEffect DEF KeepProcs
<1>2. CASE \E c \in Commands : Issue(c) \/ Handle(c) \/ Continue(c) \/ StartFails(c)
  <2>1. PICK c \in Commands : Issue(c) \/ Handle(c) \/ Continue(c) \/ StartFails(c)
    BY <1>2
  <2>2. CASE \/ Issue(c) \/ DeliverDone(c) \/ RegisterNative(c) \/ Ends(c) \/ Stop(c)
             \/ StopApplied(c) \/ Connect(c) \/ StartFails(c) \/ Launch(c)
    <3>1. KeepProcs
      BY <2>2, RestEffect, EndsEffect, StopEffect, StopAppliedEffect, ConnectEffect,
         StartFailsEffect, LaunchEffect
    <3> QED
      BY <1>0, <3>1 DEF KeepProcs
  <2>3. CASE Spawn(c) \/ AdapterStarts(c) \/ LaunchFailed(c) \/ ResumeFailed(c)
    <3>1. ProcOnly(cmd[c].k)
      BY <2>3, StateEffect, LaunchFailedEffect, ResumeFailedEffect
    <3> QED
      BY <1>0, <3>1 DEF ProcOnly
  <2>4. CASE StartAdapter(c) \/ Resume(c)
    <3>1. Len(procs') = Len(procs) + 1
      BY <2>4, StartAdapterEffect, ResumeEffect
    <3> QED
      BY <1>0, <3>1
  <2> QED
    BY <2>1, <2>2, <2>3, <2>4 DEF Handle, Continue, Ends
<1>3. CASE \E o \in DOMAIN objs : ReportDelivered(o) \/ ReportFails(o) \/ ReportRefused(o)
  BY <1>0, <1>3, ReportEffect DEF KeepProcs
<1>4. CASE \E k \in DOMAIN procs : Prompt(k) \/ RuntimeStatus(k) \/ RuntimeEnds(k) \/ ProcessExits(k)
  BY <1>0, <1>4, RestEffect, RuntimeStatusEffect, RuntimeEndsEffect, ProcessExitsEffect
     DEF KeepProcs, ProcOnly
<1>5. CASE Crash
  BY <1>0, <1>5, CrashEffect
<1> QED
  BY <1>1, <1>2, <1>3, <1>4, <1>5 DEF Next

LEMMA GhostStep ==
  ASSUME Types, [Next]_vars
  PROVE  GhostTypes'
<1> USE DEF Types
<1>0. CoreTypes' /\ Len(procs) <= Len(procs') /\ Len(procs) \in Nat /\ Len(procs') \in Nat
  <2>1. CoreTypes'
    BY CoreStep
  <2> QED
    BY <2>1, ProcsGrow, CoreFacts, LenProperties DEF CoreTypes
<1> DEFINE old == due \cup modes \cup prompts \cup bare \cup denied
<1> DEFINE new == due' \cup modes' \cup prompts' \cup bare' \cup denied'
<1> SUFFICES \E k \in 0..Len(procs') : new \subseteq old \cup {k}
  BY <1>0, GhostKept
<1>1. ASSUME new \subseteq old PROVE \E k \in 0..Len(procs') : new \subseteq old \cup {k}
  <2>1. 0 \in 0..Len(procs')
    BY <1>0
  <2> QED
    BY <1>1, <2>1
<1>2. CASE Restart \/ UNCHANGED vars
  <2>1. new \subseteq old
    BY <1>2 DEF Restart, vars, daemon, ghost
  <2> QED
    BY <1>1, <2>1
<1>3. CASE \E c \in Commands : Issue(c) \/ Handle(c) \/ Continue(c) \/ StartFails(c)
  <2>1. PICK c \in Commands : Issue(c) \/ Handle(c) \/ Continue(c) \/ StartFails(c)
    BY <1>3
  <2>2. UNCHANGED ghost /\ (due' = due \/ Connect(c))
    BY <2>1, OthersCommand
  <2>3. CASE due' = due
    BY <1>1, <2>2, <2>3 DEF ghost
  <2>4. CASE Connect(c)
    <3>1. due' = due \cup {cmd[c].k}
      BY <2>4 DEF Connect
    <3>2. cmd[c].k \in 0..Len(procs')
      <4>1. cmd[c].k \in 1..Len(procs)
        BY <2>4, ConnectEffect
      <4> QED
        BY <1>0, <4>1
    <3>3. new \subseteq old \cup {cmd[c].k}
      BY <2>2, <3>1 DEF ghost
    <3> QED
      BY <3>2, <3>3
  <2> QED
    BY <2>2, <2>3, <2>4
<1>4. CASE \E o \in DOMAIN objs : ReportDelivered(o) \/ ReportFails(o) \/ ReportRefused(o)
  <2>1. PICK o \in DOMAIN objs : ReportDelivered(o) \/ ReportFails(o) \/ ReportRefused(o)
    BY <1>4
  <2> DEFINE r == Head(objs[o].reports)
  <2>2. objs[o].reports # <<>> /\ o \in 1..Len(objs)
    BY <2>1, CoreFacts DEF ReportDelivered, ReportFails, ReportRefused
  <2>3. r = objs[o].reports[1] /\ 1 \in 1..Len(objs[o].reports)
    BY <2>2, Attempted, CoreFacts
  <2>4. r.k \in 0..Len(procs')
    BY <1>0, <2>2, <2>3, ReportTypes DEF CoreTypes, ManagedFits
  <2>5. /\ due' \subseteq due /\ prompts' = prompts
        /\ modes' = modes \/ modes' = modes \cup {r.k}
        /\ bare' = bare \/ bare' = bare \cup {r.k}
        /\ denied' = denied \/ denied' = denied \cup {r.k}
    BY <2>1 DEF ReportDelivered, ReportFails, ReportRefused, Show
  <2> HIDE DEF r
  <2>6. new \subseteq old \cup {r.k}
    BY <2>5
  <2> QED
    BY <2>4, <2>6
<1>5. CASE \E k \in DOMAIN procs : Prompt(k) \/ RuntimeStatus(k) \/ RuntimeEnds(k) \/ ProcessExits(k)
  <2>1. PICK k \in DOMAIN procs : Prompt(k) \/ RuntimeStatus(k) \/ RuntimeEnds(k) \/ ProcessExits(k)
    BY <1>5
  <2>2. k \in 0..Len(procs')
    BY <1>0, CoreFacts
  <2>3. /\ due' \subseteq due /\ UNCHANGED <<modes, bare, denied>>
        /\ prompts' = prompts \/ prompts' = prompts \cup {k}
    BY <2>1 DEF Prompt, RuntimeStatus, RuntimeEnds, ProcessExits, daemon, ghost
  <2>4. new \subseteq old \cup {k}
    BY <2>3
  <2> QED
    BY <2>2, <2>4
<1>6. CASE Crash
  <2>1. new \subseteq old
    BY <1>6 DEF Crash, ghost
  <2> QED
    BY <1>1, <2>1
<1> QED
  BY <1>2, <1>3, <1>4, <1>5, <1>6 DEF Next

LEMMA TypesStep == Types /\ [Next]_vars => Types'
BY CoreStep, OthersStep, GhostStep DEF Types

LEMMA TypesInit == Init => Types
<1> SUFFICES ASSUME Init PROVE GatewayTypes /\ GhostTypes /\ FinishedTypes
  BY CoreInit DEF Types
<1>1. GatewayTypes
  <2>1. recorded \in [Commands -> Results \cup {None}] /\ 0 \in Nat /\ 0 <= MaxFail /\ 0 <= MaxCrash
    BY DaemonAssumption DEF Init
  <2> QED
    BY <2>1 DEF Init, GatewayTypes, Known
<1>2. GhostTypes /\ FinishedTypes
  BY DaemonAssumption DEF Init, GhostTypes, FinishedTypes
<1> QED
  BY <1>1, <1>2

LEMMA TypesImply == Types => TypeOK
<1> SUFFICES ASSUME Types PROVE TypeOK
  OBVIOUS
<1> USE DEF Types
<1>1. \A c \in Commands : cmd[c].o \in 0..Len(objs) /\ cmd[c].k \in 0..Len(procs)
  BY Captured, CoreFacts DEF HandlerFits
<1>2. \A o \in 1..Len(objs) :
         /\ objs[o].status \in Statuses /\ objs[o].held \in Statuses \cup {None}
         /\ objs[o].adapter \in 0..Len(procs)
  <2> SUFFICES ASSUME NEW o \in 1..Len(objs)
               PROVE  /\ objs[o].status \in Statuses /\ objs[o].held \in Statuses \cup {None}
                      /\ objs[o].adapter \in 0..Len(procs)
    OBVIOUS
  <2>1. objs[o] \in Managed /\ ManagedFits(objs[o], Len(procs)) /\ Len(procs) \in Nat
    BY CoreFacts
  <2> QED
    BY <2>1 DEF Managed, ManagedFits, Known
<1>3. \A k \in Procs : procs[k].st \in {"created", "starting", "up", "closing", "gone", "orphan"}
  <2> SUFFICES ASSUME NEW k \in 1..Len(procs) PROVE procs[k].st \in States
    BY DEF Procs, States, Live
  <2>1. procs[k] \in Runtime
    BY CoreFacts
  <2> QED
    BY <2>1 DEF Runtime
<1>4. /\ issued \subseteq Commands /\ recorded \in [Commands -> Results \cup {None}]
      /\ shown \in Statuses \cup {None} /\ Len(finished) <= MaxFinished
      /\ record \in {"none", "recorded", "native"} /\ cur \in 0..Len(objs)
      /\ due \cup modes \cup prompts \cup bare \cup denied \subseteq 0..Len(procs)
      /\ up \in BOOLEAN /\ dropped \in BOOLEAN /\ fails <= MaxFail /\ crashes <= MaxCrash
  BY DEF GatewayTypes, GhostTypes, FinishedTypes, CoreTypes, Known
<1> QED
  BY <1>1, <1>2, <1>3, <1>4 DEF TypeOK

(* The commands, the sessions, the runtimes and what the gateway has are what   *)
(* they should be: no handler names a session or an adapter that is not there,  *)
(* and no more results are kept than the limit.                                  *)
THEOREM DaemonTypes == Spec => []TypeOK
<1>1. Init => Types
  BY TypesInit
<1>2. Types /\ [Next]_vars => Types'
  BY TypesStep
<1>3. Types => TypeOK
  BY TypesImply
<1> QED
  BY <1>1, <1>2, <1>3, PTL DEF Spec

-----------------------------------------------------------------------------
(* A prompt is delivered once the gateway has the mode                       *)

\* The report i of o tells the gateway the mode of k.
Comes(o, i, k) ==
    /\ o \in 1..Len(objs) /\ i \in 1..Len(objs[o].reports)
    /\ objs[o].reports[i].mode /\ objs[o].reports[i].k = k

LEMMA ReportDomains ==
  ASSUME NEW s \in Seq(Managed)
  PROVE  /\ DOMAIN s = 1..Len(s)
         /\ \A o \in 1..Len(s) : DOMAIN s[o].reports = 1..Len(s[o].reports)
<1>1. DOMAIN s = 1..Len(s) /\ \A o \in 1..Len(s) : s[o] \in Managed
  BY LenProperties
<1>2. \A m \in Managed : DOMAIN m.reports = 1..Len(m.reports)
  BY LenProperties DEF Managed
<1> QED
  BY <1>1, <1>2

LEMMA ConnectingComes ==
  ASSUME CoreTypes, NEW k
  PROVE  Connecting(k) <=> \E o, i : Comes(o, i, k)
BY ReportDomains DEF Connecting, Comes, CoreTypes

LEMMA ConnectingComesNext ==
  ASSUME CoreTypes', NEW k
  PROVE  Connecting(k)' <=> \E o, i : Comes(o, i, k)'
BY ReportDomains DEF Connecting, Comes, CoreTypes

\* The reports that wait still do, at their place.
ReportsKept ==
    \A o \in 1..Len(objs) :
        /\ o \in 1..Len(objs')
        /\ \A i \in 1..Len(objs[o].reports) :
              /\ i \in 1..Len(objs'[o].reports)
              /\ objs'[o].reports[i] = objs[o].reports[i]

LEMMA KeptSame ==
  ASSUME Len(objs') = Len(objs), \A o \in 1..Len(objs) : objs'[o].reports = objs[o].reports
  PROVE  ReportsKept
BY DEF ReportsKept

LEMMA KeptGains ==
  ASSUME CoreTypes, NEW o \in 1..Len(objs), ObjOnly(o), NEW r, Gains(o, r)
  PROVE  ReportsKept
<1>1. Len(objs[o].reports) \in Nat
  BY ReportTypes
<1>2. \A i \in 1..Len(objs[o].reports) : i \in 1..Len(objs'[o].reports)
  BY <1>1 DEF Gains
<1> QED
  BY <1>2 DEF ReportsKept, ObjOnly, Gains

LEMMA KeptTold ==
  ASSUME CoreTypes, NEW o \in 1..Len(objs), NEW k, NEW s, ToldEffect(o, k, s)
  PROVE  ReportsKept
<1> DEFINE r == Rep(s, k, None, FALSE)
<1> HIDE DEF r
<1>1. ASSUME Gains(o, r) PROVE ReportsKept
  BY <1>1, KeptGains DEF ToldEffect
<1>2. ASSUME objs'[o].reports = objs[o].reports PROVE ReportsKept
  BY <1>2, KeptSame DEF ToldEffect, ObjOnly
<1> QED
  BY <1>1, <1>2 DEF ToldEffect, r

LEMMA CommandKeepsReports ==
  ASSUME CoreTypes, NEW c \in Commands, Handle(c) \/ Continue(c) \/ Issue(c) \/ StartFails(c)
  PROVE  ReportsKept
<1>1. CASE Issue(c) \/ DeliverDone(c) \/ RegisterNative(c) \/ Spawn(c)
  <2>1. objs' = objs
    BY <1>1 DEF Issue, DeliverDone, RegisterNative, Spawn, daemon
  <2> QED
    BY <2>1, KeptSame
<1>2. CASE Ends(c) \/ Stop(c) \/ AdapterStarts(c)
  <2>1. KeepObjs
    BY <1>2, EndsEffect, StopEffect, StateEffect
  <2> QED
    BY <2>1, KeptSame DEF KeepObjs
<1>3. CASE StartAdapter(c) \/ StartFails(c) \/ ResumeFailed(c)
  <2> DEFINE o == cmd[c].o
  <2>1. objs' = objs \/ (ObjOnly(o) /\ objs'[o].reports = objs[o].reports)
    BY <1>3, StartAdapterEffect, StartFailsEffect, ResumeFailedEffect
  <2> HIDE DEF o
  <2> QED
    BY <2>1, KeptSame DEF ObjOnly
<1>5. CASE Resume(c)
  <2> DEFINE o == cur'
  <2>1. /\ \A p \in 1..Len(objs) : p # o => objs'[p] = objs[p]
        /\ \/ cur # 0 /\ o = cur /\ Len(objs') = Len(objs) /\ objs'[o].reports = objs[o].reports
           \/ cur = 0 /\ o = Len(objs) + 1 /\ Len(objs') = o /\ objs'[o].reports = <<>>
    BY <1>5, ResumeEffect
  <2>2. Len(objs) \in Nat
    BY CoreFacts
  <2> HIDE DEF o
  <2> QED
    BY <2>1, <2>2 DEF ReportsKept
<1>6. CASE Launch(c)
  <2>1. Len(objs') = Len(objs) + 1 /\ \A p \in 1..Len(objs) : objs'[p] = objs[p]
    BY <1>6, LaunchEffect
  <2>2. Len(objs) \in Nat
    BY CoreFacts
  <2> QED
    BY <2>1, <2>2 DEF ReportsKept
<1>7. CASE LaunchFailed(c) \/ Connect(c) \/ StopApplied(c)
  <2> DEFINE o == cmd[c].o
  <2> DEFINE k == cmd[c].k
  <2>1. PICK r \in {Rep("failed", k, c, FALSE), Rep(Held(o), k, c, TRUE), Rep("stopped", k, c, FALSE)} :
           o \in 1..Len(objs) /\ ObjOnly(o) /\ Gains(o, r)
    BY <1>7, LaunchFailedEffect, ConnectEffect, StopAppliedEffect
  <2> HIDE DEF o
  <2> QED
    BY <2>1, KeptGains
<1> QED
  BY <1>1, <1>2, <1>3, <1>5, <1>6, <1>7 DEF Handle, Continue, Ends

LEMMA RuntimeKeepsReports ==
  ASSUME CoreTypes, NEW k \in DOMAIN procs,
         Prompt(k) \/ RuntimeStatus(k) \/ RuntimeEnds(k) \/ ProcessExits(k)
  PROVE  ReportsKept
<1>1. CASE Prompt(k) \/ ProcessExits(k)
  <2>1. objs' = objs
    BY <1>1 DEF Prompt, ProcessExits, daemon
  <2> QED
    BY <2>1, KeptSame
<1>2. CASE RuntimeStatus(k)
  BY <1>2, RuntimeStatusEffect, KeptTold
<1>3. CASE RuntimeEnds(k)
  <2> DEFINE o == procs[k].o
  <2>1. o \in 1..Len(objs) /\ (ToldEffect(o, k, "stopped") \/ objs' = objs)
    BY <1>3, RuntimeEndsEffect
  <2> HIDE DEF o
  <2> QED
    BY <2>1, KeptTold, KeptSame
<1> QED
  BY <1>1, <1>2, <1>3

\* Nothing is due that was not, and no mode that was to come no longer does.
LEMMA PromptSame ==
  ASSUME CoreTypes, CoreTypes', PromptInv, ReportsKept, UNCHANGED <<modes, prompts>>, due' \subseteq due
  PROVE  PromptInv'
<1>1. \A o, i, k : Comes(o, i, k) => Comes(o, i, k)'
  BY DEF Comes, ReportsKept
<1>2. ASSUME NEW k \in due', k \notin modes
      PROVE  Connecting(k)'
  <2>1. Connecting(k)
    BY <1>2 DEF PromptInv
  <2>2. PICK o, i : Comes(o, i, k)
    BY <2>1, ConnectingComes
  <2>3. Comes(o, i, k)'
    BY <1>1, <2>2
  <2> QED
    BY <2>3, ConnectingComesNext
<1> QED
  BY <1>2 DEF PromptInv

LEMMA PromptConnect ==
  ASSUME CoreTypes, CoreTypes', PromptInv, NEW c \in Commands, Connect(c), UNCHANGED <<modes, prompts>>
  PROVE  PromptInv'
<1>0. PICK o, k, r : /\ k = cmd[c].k /\ o \in 1..Len(objs) /\ ObjOnly(o) /\ Gains(o, r)
                     /\ r.k = k /\ r.mode = TRUE
  <2> DEFINE x == Rep(Held(cmd[c].o), cmd[c].k, c, TRUE)
  <2>1. /\ cmd[c].o \in 1..Len(objs) /\ ObjOnly(cmd[c].o) /\ Gains(cmd[c].o, x)
        /\ x.k = cmd[c].k /\ x.mode = TRUE
    BY ConnectEffect
  <2> HIDE DEF x
  <2> QED
    BY <2>1
<1>1. o \in 1..Len(objs) /\ ObjOnly(o) /\ Gains(o, r) /\ r.k = k /\ r.mode = TRUE
  BY <1>0
<1>2. due' = due \cup {k}
  BY <1>0 DEF Connect
<1>3. ReportsKept
  BY <1>1, KeptGains
<1>4. \A p, i, j : Comes(p, i, j) => Comes(p, i, j)'
  BY <1>3 DEF Comes, ReportsKept
<1>5. Connecting(k)'
  <2>1. Len(objs[o].reports) \in Nat
    BY <1>1, ReportTypes
  <2>2. PICK n : /\ o \in 1..Len(objs') /\ n \in 1..Len(objs'[o].reports)
                 /\ objs'[o].reports[n] = r
    <3> DEFINE l == Len(objs[o].reports) + 1
    <3>1. /\ o \in 1..Len(objs') /\ l \in 1..Len(objs'[o].reports)
          /\ objs'[o].reports[l] = r
      BY <1>1, <2>1 DEF Gains, ObjOnly
    <3> HIDE DEF l
    <3> QED
      BY <3>1
  <2>3. Comes(o, n, k)'
    BY <1>1, <2>2 DEF Comes
  <2> QED
    BY <2>3, ConnectingComesNext
<1>6. ASSUME NEW j \in due, j \notin modes PROVE Connecting(j)'
  <2>1. PICK p, i : Comes(p, i, j)
    BY <1>6, ConnectingComes DEF PromptInv
  <2> QED
    BY <1>4, <2>1, ConnectingComesNext
<1>7. \A j \in due' : j \in modes' \/ Connecting(j)'
  BY <1>2, <1>5, <1>6
<1> QED
  BY <1>7 DEF PromptInv

LEMMA PromptReport ==
  ASSUME CoreTypes, CoreTypes', PromptInv, NEW o \in DOMAIN objs,
         ReportDelivered(o) \/ ReportFails(o) \/ ReportRefused(o)
  PROVE  PromptInv'
<1> DEFINE r == objs[o].reports[1]
<1>1. /\ o \in 1..Len(objs) /\ r \in Report /\ ObjOnly(o)
      /\ Loses(o) \/ Repeats(o)
  BY ReportEffect
<1>2. objs[o].reports # <<>> /\ Head(objs[o].reports) = r
  BY <1>1, Attempted, CoreFacts DEF ReportDelivered, ReportFails, ReportRefused
<1>3. /\ prompts' = prompts /\ modes \subseteq modes' /\ due' \subseteq due
      /\ Loses(o) => \/ ~r.mode \/ r.k \in modes' \/ r.k \notin due'
  <2>1. CASE ReportDelivered(o)
    BY <1>2, <2>1 DEF ReportDelivered, Show
  <2>2. CASE ReportFails(o)
    <3>1. ASSUME Loses(o) PROVE ~r.mode
      <4>1. r.mode => Retry(o, r)
        BY <1>2, <2>2 DEF ReportFails
      <4>2. Retry(o, r) => Repeats(o)
        BY <1>1, <1>2, Attempted, CoreFacts
      <4>3. ~(Loses(o) /\ Repeats(o))
        BY DEF Loses, Repeats
      <4> QED
        BY <3>1, <4>1, <4>2, <4>3
    <3> QED
      BY <1>2, <2>2, <3>1 DEF ReportFails, Show
  <2>3. CASE ReportRefused(o)
    BY <1>2, <2>3 DEF ReportRefused
  <2> QED
    BY <2>1, <2>2, <2>3
<1>4. \A p, i, k : Comes(p, i, k) /\ (p # o \/ (i # 1 /\ Loses(o))) => \E j : Comes(p, j, k)'
  <2> SUFFICES ASSUME NEW p, NEW i, NEW k, Comes(p, i, k), p # o \/ (i # 1 /\ Loses(o))
               PROVE  \E j : Comes(p, j, k)'
    OBVIOUS
  <2>1. CASE p # o
    BY <1>1, <2>1 DEF Comes, ObjOnly
  <2>2. CASE p = o /\ i # 1 /\ Loses(o)
    <3>1. Comes(p, i - 1, k)'
      <4>1. i \in Nat /\ i - 1 \in 1..(Len(objs[o].reports) - 1) /\ (i - 1) + 1 = i
        BY <2>2 DEF Comes, Loses
      <4> QED
        BY <1>1, <2>2, <4>1 DEF Comes, Loses, ObjOnly
    <3> QED
      BY <3>1
  <2> QED
    BY <2>1, <2>2
<1>5. ASSUME Repeats(o), NEW p, NEW i, NEW k, Comes(p, i, k) PROVE \E j : Comes(p, j, k)'
  <2>0. i \in 1..Len(objs[p].reports) /\ p \in 1..Len(objs)
    BY <1>5 DEF Comes
  <2>1. CASE p # o
    BY <1>1, <1>5, <2>1 DEF Comes, ObjOnly
  <2>2. CASE p = o /\ i = 1
    <3>1. [r EXCEPT !.waits = None].mode = r.mode /\ [r EXCEPT !.waits = None].k = r.k
      BY <1>1 DEF Report
    <3>2. Comes(o, 1, k)'
      BY <1>1, <1>5, <2>2, <3>1 DEF Comes, Repeats, ObjOnly
    <3> QED
      BY <2>2, <3>2
  <2>3. CASE p = o /\ i # 1
    <3>1. i \in 2..Len(objs[o].reports)
      BY <1>5, <2>0, <2>3 DEF Repeats
    <3>2. Comes(o, i, k)'
      BY <1>1, <1>5, <2>3, <3>1 DEF Comes, Repeats, ObjOnly
    <3> QED
      BY <2>3, <3>2
  <2> QED
    BY <2>1, <2>2, <2>3
<1>6. ASSUME NEW k \in due', k \notin modes' PROVE Connecting(k)'
  <2>1. PICK p, i : Comes(p, i, k)
    BY <1>3, <1>6, ConnectingComes DEF PromptInv
  <2>2. CASE Loses(o)
    <3>1. ~(p = o /\ i = 1)
      BY <1>3, <1>6, <2>1, <2>2 DEF Comes
    <3> QED
      BY <1>4, <2>1, <2>2, <3>1, ConnectingComesNext
  <2>3. CASE Repeats(o)
    BY <1>5, <2>1, <2>3, ConnectingComesNext
  <2> QED
    BY <1>1, <2>2, <2>3
<1> QED
  BY <1>3, <1>6 DEF PromptInv

LEMMA PromptStep == CoreTypes /\ PromptInv /\ [Next]_vars => PromptInv'
<1> SUFFICES ASSUME CoreTypes, PromptInv, [Next]_vars PROVE PromptInv'
  OBVIOUS
<1>0. CoreTypes'
  BY CoreStep
<1>1. CASE Restart \/ UNCHANGED vars
  <2>1. objs' = objs /\ UNCHANGED <<modes, prompts>> /\ due' = due
    BY <1>1 DEF Restart, vars, daemon, ghost
  <2> QED
    BY <1>0, <2>1, KeptSame, PromptSame
<1>2. CASE \E c \in Commands : Issue(c) \/ Handle(c) \/ Continue(c) \/ StartFails(c)
  <2>1. PICK c \in Commands : Issue(c) \/ Handle(c) \/ Continue(c) \/ StartFails(c)
    BY <1>2
  <2>2. UNCHANGED <<modes, prompts>>
    <3>1. CASE Issue(c) \/ DeliverDone(c) \/ LaunchAlready(c) \/ LaunchRefused(c) \/ Launch(c)
               \/ ResumeRefused(c) \/ Resume(c) \/ StopRefused(c) \/ Stop(c)
      BY <3>1 DEF Issue, DeliverDone, LaunchAlready, LaunchRefused, Launch, ResumeRefused, Resume,
                  StopRefused, Stop, ghost
    <3>2. CASE \/ StartAdapter(c) \/ Spawn(c) \/ RegisterNative(c) \/ AdapterStarts(c)
               \/ LaunchFailed(c) \/ ResumeFailed(c) \/ Connect(c) \/ CommandApplied(c)
      BY <3>2 DEF StartAdapter, Spawn, RegisterNative, AdapterStarts, LaunchFailed, ResumeFailed,
                  Connect, CommandApplied, ghost
    <3>3. CASE CommandReported(c) \/ StopApplied(c) \/ StopUnknown(c) \/ Post(c) \/ StartFails(c)
      BY <3>3 DEF CommandReported, StopApplied, StopUnknown, Post, StartFails, ghost
    <3> QED
      BY <2>1, <3>1, <3>2, <3>3 DEF Handle, Continue
  <2>3. CASE Connect(c)
    BY <1>0, <2>2, <2>3, PromptConnect
  <2>4. CASE ~Connect(c)
    <3>1. due' = due
      <4>1. CASE Issue(c) \/ DeliverDone(c) \/ LaunchAlready(c) \/ LaunchRefused(c) \/ Launch(c)
                 \/ ResumeRefused(c) \/ Resume(c) \/ StopRefused(c) \/ Stop(c)
        BY <4>1 DEF Issue, DeliverDone, LaunchAlready, LaunchRefused, Launch, ResumeRefused, Resume,
                    StopRefused, Stop, daemon
      <4>2. CASE \/ StartAdapter(c) \/ Spawn(c) \/ RegisterNative(c) \/ AdapterStarts(c)
                 \/ LaunchFailed(c) \/ ResumeFailed(c) \/ CommandApplied(c)
        BY <4>2 DEF StartAdapter, Spawn, RegisterNative, AdapterStarts, LaunchFailed, ResumeFailed,
                    CommandApplied, daemon
      <4>3. CASE CommandReported(c) \/ StopApplied(c) \/ StopUnknown(c) \/ Post(c) \/ StartFails(c)
        BY <4>3 DEF CommandReported, StopApplied, StopUnknown, Post, StartFails
      <4> QED
        BY <2>1, <2>4, <4>1, <4>2, <4>3 DEF Handle, Continue
    <3> QED
      BY <1>0, <2>1, <2>2, <3>1, CommandKeepsReports, PromptSame
  <2> QED
    BY <2>3, <2>4
<1>3. CASE \E o \in DOMAIN objs : ReportDelivered(o) \/ ReportFails(o) \/ ReportRefused(o)
  BY <1>0, <1>3, PromptReport
<1>4. CASE \E k \in DOMAIN procs : Prompt(k) \/ RuntimeStatus(k) \/ RuntimeEnds(k) \/ ProcessExits(k)
  <2>1. PICK k \in DOMAIN procs : Prompt(k) \/ RuntimeStatus(k) \/ RuntimeEnds(k) \/ ProcessExits(k)
    BY <1>4
  <2>2. ReportsKept
    BY <2>1, RuntimeKeepsReports
  <2>3. CASE Prompt(k)
    <3>1. /\ due' \subseteq due /\ modes' = modes /\ k \in modes
          /\ prompts' = prompts \/ prompts' = prompts \cup {k}
      BY <2>3 DEF Prompt, PromptInv
    <3>2. \A j \in due' : j \in modes \/ Connecting(j)'
      <4> SUFFICES ASSUME NEW j \in due', j \notin modes PROVE Connecting(j)'
        OBVIOUS
      <4>1. PICK p, i : Comes(p, i, j)
        BY <3>1, ConnectingComes DEF PromptInv
      <4>2. Comes(p, i, j)'
        BY <2>2, <4>1 DEF Comes, ReportsKept
      <4> QED
        BY <1>0, <4>2, ConnectingComesNext
    <3> QED
      BY <3>1, <3>2 DEF PromptInv
  <2>4. CASE RuntimeStatus(k) \/ RuntimeEnds(k) \/ ProcessExits(k)
    <3>1. UNCHANGED <<modes, prompts>> /\ due' = due
      BY <2>4 DEF RuntimeStatus, RuntimeEnds, ProcessExits, daemon, ghost
    <3> QED
      BY <1>0, <2>2, <3>1, PromptSame
  <2> QED
    BY <2>1, <2>3, <2>4
<1>5. CASE Crash
  BY <1>5 DEF Crash, ghost, PromptInv
<1> QED
  BY <1>1, <1>2, <1>3, <1>4, <1>5 DEF Next

-----------------------------------------------------------------------------
(* The session and its runtime, when its commands come one at a time         *)

Busy == Begins \cup StartsUp \cup {"failing"}

LEMMA BusyStarts ==
  ASSUME Handled, NEW c \in Commands, cmd[c].at \in Busy
  PROVE  c \in Starters /\ c \in issued /\ recorded[c] = None
BY DEF Handled, Busy, Begins, StartsUp, Starters

\* Only one command starts a runtime at a time.
LEMMA BusyOne ==
  ASSUME Handled, OneAtATime, NEW c \in Commands, cmd[c].at \in Busy,
         NEW d \in Commands, cmd[d].at \in Busy
  PROVE  c = d
BY BusyStarts DEF OneAtATime

LEMMA NoneBusy ==
  ASSUME Handled, OneAtATime, NEW c \in Commands, c \in Starters, Received(c), NEW d \in Commands
  PROVE  cmd[d].at \notin Busy
<1>1. c \in issued /\ recorded[c] = None /\ cmd[c].at = "idle"
  BY DEF Received
<1>2. "idle" \notin Busy
  BY DEF Busy, Begins, StartsUp
<1> QED
  BY <1>1, <1>2, BusyStarts DEF OneAtATime

\* What the invariant of the session looks at, unchanged.
SameStarts ==
    \A c \in Commands :
        \/ cmd[c].at \notin Busy /\ cmd'[c].at \notin Busy
        \/ /\ cmd'[c].o = cmd[c].o /\ cmd'[c].k = cmd[c].k
           /\ \/ cmd'[c].at = cmd[c].at
              \/ cmd[c].at = "reporting" /\ cmd'[c].at = "start"

SameObjects ==
    \A o \in 1..Len(objs) :
        /\ objs'[o].adapter = objs[o].adapter /\ objs'[o].connected = objs[o].connected
        /\ objs'[o].held = objs[o].held

SameStates ==
    /\ Len(procs') = Len(procs)
    /\ \A k \in 1..Len(procs) :
          /\ procs'[k].o = procs[k].o /\ procs'[k].by = procs[k].by
          /\ \/ procs'[k].st = procs[k].st
             \/ procs[k].st \in {"closing", "orphan"} /\ procs'[k].st = "gone"

LEMMA SessionQuiet ==
  ASSUME CoreTypes, SessionInv, cur' = cur, SameStarts, SameObjects, SameStates
  PROVE  SessionInv'
<1>0. cur = 0 \/ cur \in 1..Len(objs)
  BY CoreFacts
<1>1. OwnRuntime'
  <2> SUFFICES ASSUME NEW k \in 1..Len(procs'), procs'[k].st \in Live
               PROVE  \/ cur' # 0 /\ objs'[cur'].adapter = k /\ procs'[k].o = cur'
                      \/ \E c \in Commands : cmd'[c].at = "failing" /\ cmd'[c].k = k
    BY DEF OwnRuntime
  <2>1. k \in 1..Len(procs) /\ procs[k].st \in Live /\ procs'[k].o = procs[k].o
    BY DEF SameStates, Live
  <2>2. CASE cur # 0 /\ objs[cur].adapter = k /\ procs[k].o = cur
    BY <1>0, <2>1, <2>2 DEF SameObjects
  <2>3. CASE \E c \in Commands : cmd[c].at = "failing" /\ cmd[c].k = k
    BY <2>3 DEF SameStarts, Busy
  <2> QED
    BY <2>1, <2>2, <2>3 DEF SessionInv, OwnRuntime
<1>2. StartedByOne'
  <2> SUFFICES ASSUME NEW k \in 1..Len(procs'), procs'[k].st \in {"created", "starting"}
               PROVE  \E c \in Commands : cmd'[c].at \in {"starting", "failing"} /\ cmd'[c].k = k
    BY DEF StartedByOne
  <2>1. k \in 1..Len(procs) /\ procs[k].st \in {"created", "starting"}
    BY DEF SameStates, Live
  <2>2. PICK c \in Commands : cmd[c].at \in {"starting", "failing"} /\ cmd[c].k = k
    BY <2>1 DEF SessionInv, StartedByOne
  <2> QED
    BY <2>2 DEF SameStarts, Busy, StartsUp
<1>3. ASSUME NEW c \in Commands PROVE Start(c)'
  <2>1. CASE cmd'[c].at \notin Busy
    BY <2>1 DEF Start, Busy, Begins, StartsUp
  <2>2. CASE cmd'[c].at \in Busy
    <3>1. /\ cmd'[c].o = cmd[c].o /\ cmd'[c].k = cmd[c].k
          /\ cmd'[c].at = cmd[c].at \/ (cmd[c].at = "reporting" /\ cmd'[c].at = "start")
      BY <2>2 DEF SameStarts
    <3>2. cmd[c].at \in Busy
      BY <2>2, <3>1 DEF Busy, Begins
    <3>3. cmd[c].o \in 1..Len(objs)
      BY <3>2, Captured DEF Busy, Begins, StartsUp, HasObject
    <3>4. Start(c)
      BY DEF SessionInv
    <3>5. cmd[c].at \in {"starting", "failing"} => cmd[c].k \in 1..Len(procs)
      BY Captured DEF HasAdapter
    <3> DEFINE o == cmd[c].o
    <3>6. /\ objs'[o].adapter = objs[o].adapter /\ objs'[o].connected = objs[o].connected
          /\ objs'[o].held = objs[o].held
      BY <3>3 DEF SameObjects
    <3>7. /\ cmd'[c].at \in Begins \cup StartsUp \cup {"failing"} => cur' = o /\ ~objs'[o].connected
          /\ cmd'[c].at = "started" => objs'[o].adapter = cmd[c].k
      BY <3>1, <3>2, <3>4, <3>6 DEF Start, Busy
    <3>8. cmd'[c].at \in Begins =>
             objs'[o].adapter = 0 /\ objs'[o].held = None
             /\ \A j \in 1..Len(procs') : procs'[j].st \notin Live
      BY <3>1, <3>4, <3>6 DEF Start, Begins, SameStates, Live
    <3>9. /\ cmd'[c].at = "starting" => /\ objs'[o].adapter = cmd[c].k /\ objs'[o].held = None
                                        /\ procs'[cmd[c].k].st \in {"created", "starting"}
          /\ cmd'[c].at = "failing" => /\ objs'[o].adapter = 0
                                       /\ procs'[cmd[c].k].st \in {"created", "starting"}
      BY <3>1, <3>4, <3>5, <3>6 DEF Start, SameStates, Live
    <3> HIDE DEF o
    <3>10. cmd'[c].o = o
      BY <3>1 DEF o
    <3> QED
      BY <3>1, <3>7, <3>8, <3>9, <3>10 DEF Start
  <2> QED
    BY <2>1, <2>2
<1> QED
  BY <1>1, <1>2, <1>3 DEF SessionInv

\* The steps that change nothing of a start.
QuietFor(c) ==
    \/ Issue(c) \/ DeliverDone(c) \/ RegisterNative(c) \/ Ends(c) \/ Stop(c) \/ StopApplied(c)

QuietParts == cur' = cur /\ SameStarts /\ SameObjects /\ SameStates

LEMMA QuietCommand ==
  ASSUME CoreTypes, NEW c \in Commands, QuietFor(c)
  PROVE  QuietParts
<1> USE DEF QuietParts
<1>1. CASE Issue(c) \/ DeliverDone(c) \/ RegisterNative(c)
  BY <1>1, RestEffect DEF KeepObjs, KeepProcs, SameStarts, SameObjects, SameStates
<1>2. CASE Ends(c)
  <2>1. KeepObjs /\ KeepProcs /\ CmdOnly(c) /\ cmd[c].at \notin Busy /\ cmd'[c].at \notin Busy
    BY <1>2, EndsEffect DEF Busy, Begins, StartsUp
  <2> QED
    BY <2>1 DEF KeepObjs, KeepProcs, SameStarts, SameObjects, SameStates, CmdOnly
<1>3. CASE Stop(c)
  <2>1. KeepObjs /\ KeepProcs /\ CmdOnly(c) /\ cmd[c].at \notin Busy /\ cmd'[c].at \notin Busy
    BY <1>3, StopEffect DEF Busy, Begins, StartsUp, Stop, Handling, Received
  <2> QED
    BY <2>1 DEF KeepObjs, KeepProcs, SameStarts, SameObjects, SameStates, CmdOnly
<1>4. CASE StopApplied(c)
  <2> DEFINE o == cmd[c].o
  <2>1. /\ cur' = cur /\ KeepProcs /\ CmdOnly(c) /\ cmd[c].at \notin Busy /\ cmd'[c].at \notin Busy
        /\ ObjOnly(o) /\ objs'[o].adapter = objs[o].adapter
        /\ objs'[o].connected = objs[o].connected /\ objs'[o].held = objs[o].held
    BY <1>4, StopAppliedEffect DEF Busy, Begins, StartsUp
  <2> HIDE DEF o
  <2> QED
    BY <2>1 DEF KeepProcs, SameStarts, SameObjects, SameStates, CmdOnly, ObjOnly
<1> QED
  BY <1>1, <1>2, <1>3, <1>4 DEF QuietFor

LEMMA QuietReport ==
  ASSUME CoreTypes, Waiters, NEW o \in DOMAIN objs,
         ReportDelivered(o) \/ ReportFails(o) \/ ReportRefused(o)
  PROVE  QuietParts
<1> DEFINE w == objs[o].reports[1].waits
<1>1. /\ o \in 1..Len(objs) /\ Len(objs[o].reports) \in Nat \ {0}
      /\ cur' = cur /\ KeepProcs /\ ObjOnly(o) /\ SameFields(o)
      /\ w = None => cmd' = cmd
      /\ w # None => /\ w \in Commands /\ CmdOnly(w) /\ GoesOn(cmd[w].at, cmd'[w].at)
                     /\ Elsewhere(cmd'[w], cmd[w])
  BY ReportEffect
<1>2. Waits(o, 1, w)
  BY <1>1 DEF Waits
<1> HIDE DEF w
<1>3. w # None => cmd[w].at \in Waiting
  BY <1>2 DEF Waiters
<1>4. SameStarts
  <2>1. CASE w = None
    BY <1>1, <2>1 DEF SameStarts
  <2>2. CASE w # None
    <3>1. \/ cmd[w].at \notin Busy /\ cmd'[w].at \notin Busy
          \/ cmd[w].at = "reporting" /\ cmd'[w].at = "start"
      BY <1>1, <1>3, <2>2 DEF GoesOn, Waiting, Busy, Begins, StartsUp
    <3> QED
      BY <1>1, <2>2, <3>1 DEF SameStarts, CmdOnly, Elsewhere
  <2> QED
    BY <2>1, <2>2
<1>5. SameObjects
  BY <1>1 DEF SameObjects, ObjOnly, SameFields
<1> QED
  BY <1>1, <1>4, <1>5 DEF QuietParts, SameStates, KeepProcs

LEMMA QuietRuntime ==
  ASSUME CoreTypes, NEW k \in DOMAIN procs, Prompt(k) \/ ProcessExits(k)
  PROVE  QuietParts
<1> USE DEF QuietParts
<1>1. CASE Prompt(k)
  BY <1>1, RestEffect DEF KeepObjs, KeepProcs, SameStarts, SameObjects, SameStates
<1>2. CASE ProcessExits(k)
  <2>1. /\ k \in 1..Len(procs) /\ procs[k].st \in {"closing", "orphan"} /\ procs'[k].st = "gone"
        /\ cmd' = cmd /\ KeepObjs /\ ProcOnly(k)
    BY <1>2, ProcessExitsEffect
  <2>2. SameStates
    BY <2>1 DEF SameStates, ProcOnly
  <2> QED
    BY <2>1, <2>2 DEF KeepObjs, SameStarts, SameObjects
<1> QED
  BY <1>1, <1>2

\* A start that c carries out is the only one.
LEMMA OthersIdle ==
  ASSUME Handled, OneAtATime, NEW c \in Commands, cmd[c].at \in Busy, CmdOnly(c)
  PROVE  \A d \in Commands : d # c => cmd[d].at \notin Busy /\ cmd'[d].at \notin Busy
BY BusyOne DEF CmdOnly

\* Only c can have a start under way after the step.
LEMMA StartOne ==
  ASSUME NEW c \in Commands, \A d \in Commands : d # c => cmd'[d].at \notin Busy, Start(c)'
  PROVE  \A d \in Commands : Start(d)'
<1> SUFFICES ASSUME NEW d \in Commands, d # c PROVE Start(d)'
  OBVIOUS
<1>1. cmd'[d].at \notin Busy
  OBVIOUS
<1> QED
  BY <1>1 DEF Start, Busy, Begins, StartsUp

\* No runtime is alive, and none is being started: nothing is left to show.
LEMMA NoneLive ==
  ASSUME \A k \in 1..Len(procs') : procs'[k].st \notin Live, \A c \in Commands : Start(c)'
  PROVE  SessionInv'
<1>1. \A k \in 1..Len(procs') : procs'[k].st \notin {"created", "starting"}
  BY DEF Live
<1> QED
  BY <1>1 DEF SessionInv, OwnRuntime, StartedByOne

\* While c starts a runtime, or stops one, no other is alive.
LEMMA OnlyLive ==
  ASSUME CoreTypes, Handled, OneAtATime, SessionInv, NEW c \in Commands,
         cmd[c].at \in StartsUp \cup {"failing"}
  PROVE  \A j \in 1..Len(procs) : procs[j].st \in Live => j = cmd[c].k
<1> SUFFICES ASSUME NEW j \in 1..Len(procs), procs[j].st \in Live PROVE j = cmd[c].k
  OBVIOUS
<1>1. cmd[c].at \in Busy
  BY DEF Busy
<1>2. Start(c) /\ cmd[c].o \in 1..Len(objs)
  BY Captured DEF SessionInv, StartsUp, HasObject
<1>3. CASE \E d \in Commands : cmd[d].at = "failing" /\ cmd[d].k = j
  BY <1>1, <1>3, BusyOne DEF Busy
<1>4. CASE cur # 0 /\ objs[cur].adapter = j
  <2>1. cur = cmd[c].o
    BY <1>2 DEF Start
  <2>2. objs[cmd[c].o].adapter = cmd[c].k \/ objs[cmd[c].o].adapter = 0
    BY <1>2 DEF Start, StartsUp
  <2> QED
    BY <1>4, <2>1, <2>2
<1> QED
  BY <1>3, <1>4 DEF SessionInv, OwnRuntime

LEMMA SessionState ==
  ASSUME Base, OneAtATime, SessionInv, NEW c \in Commands, Spawn(c) \/ AdapterStarts(c)
  PROVE  SessionInv'
<1> USE DEF Base
<1> DEFINE k == cmd[c].k
<1> DEFINE o == cmd[c].o
<1>1. /\ cmd[c].at = "starting" /\ k \in 1..Len(procs) /\ KeepObjs /\ ProcOnly(k)
      /\ Spawn(c) => procs'[k].st = "starting" /\ cmd' = cmd
      /\ AdapterStarts(c) => /\ procs'[k].st = "up" /\ CmdOnly(c)
                             /\ cmd'[c].at = "started" /\ Elsewhere(cmd'[c], cmd[c])
  BY StateEffect
<1>2. cmd[c].at \in Busy /\ Start(c) /\ o \in 1..Len(objs)
  BY <1>1, Captured DEF Busy, StartsUp, SessionInv, HasObject
<1>3. /\ \A d \in Commands : d # c => cmd[d].at \notin Busy /\ cmd'[d].at \notin Busy
      /\ cmd'[c].o = o /\ cmd'[c].k = k
  <2>1. CmdOnly(c) \/ cmd' = cmd
    BY <1>1
  <2> QED
    BY <1>1, <1>2, <2>1, BusyOne DEF CmdOnly, Elsewhere
<1>4. cur = o /\ ~objs[o].connected /\ objs[o].adapter = k /\ objs[o].held = None
      /\ procs[k].st \in {"created", "starting"}
  BY <1>1, <1>2 DEF Start, StartsUp
<1>5. procs[k].o = cur /\ cur # 0
  <2>1. procs[k].st \in Live
    BY <1>4 DEF Live
  <2>2. ~ \E d \in Commands : cmd[d].at = "failing" /\ cmd[d].k = k
    BY <1>1, <1>3 DEF Busy
  <2> QED
    BY <1>1, <2>1, <2>2 DEF SessionInv, OwnRuntime
<1>6. \A j \in 1..Len(procs) : procs[j].st \in Live => j = k
  BY <1>1, OnlyLive DEF StartsUp
<1>7. /\ cur' = cur /\ objs' = objs /\ Len(procs') = Len(procs) /\ procs'[k].o = cur
      /\ \A j \in 1..Len(procs') : procs'[j].st \in Live => j = k
  BY <1>1, <1>5, <1>6 DEF KeepObjs, ProcOnly
<1> HIDE DEF k, o
<1>8. OwnRuntime'
  BY <1>4, <1>5, <1>7 DEF OwnRuntime
<1>9. StartedByOne'
  <2>1. CASE Spawn(c)
    BY <1>1, <1>3, <1>7, <2>1 DEF StartedByOne, Live
  <2>2. CASE AdapterStarts(c)
    BY <1>1, <1>7, <2>2 DEF StartedByOne, Live
  <2> QED
    BY <2>1, <2>2
<1>10. Start(c)'
  <2>1. CASE Spawn(c)
    BY <1>1, <1>3, <1>4, <1>7, <2>1 DEF Start, Begins, StartsUp
  <2>2. CASE AdapterStarts(c)
    BY <1>1, <1>3, <1>4, <1>7, <2>2 DEF Start, Begins, StartsUp
  <2> QED
    BY <2>1, <2>2
<1> QED
  BY <1>3, <1>8, <1>9, <1>10, StartOne DEF SessionInv

LEMMA SessionStart ==
  ASSUME Base, OneAtATime, SessionInv, NEW c \in Commands, StartAdapter(c)
  PROVE  SessionInv'
<1> USE DEF Base
<1> DEFINE o == cmd[c].o
<1> DEFINE n == Len(procs) + 1
<1>1. /\ cmd[c].at = "start" /\ o \in 1..Len(objs) /\ cur' = cur
      /\ CmdOnly(c) /\ cmd'[c].at = "starting" /\ cmd'[c].k = n /\ cmd'[c].o = o
      /\ objs'[o].adapter = n /\ objs'[o].connected = objs[o].connected /\ objs'[o].held = objs[o].held
      /\ Len(procs') = n
      /\ procs'[n].st \in {"created", "starting"} /\ procs'[n].o = o
      /\ \A j \in 1..Len(procs) : procs'[j] = procs[j]
  BY StartAdapterEffect
<1>2. cmd[c].at \in Busy /\ Start(c)
  BY <1>1 DEF Busy, Begins, SessionInv
<1>3. \A d \in Commands : d # c => cmd'[d].at \notin Busy
  BY <1>1, <1>2, OthersIdle
<1>4. /\ cur = o /\ ~objs[o].connected /\ objs[o].held = None
      /\ \A j \in 1..Len(procs) : procs[j].st \notin Live
  BY <1>1, <1>2 DEF Start, Begins
<1>5. \A j \in 1..n : j \in 1..Len(procs) \/ j = n
  BY CoreFacts
<1>6. \A j \in 1..Len(procs') : procs'[j].st \in Live => j = n
  BY <1>1, <1>4, <1>5
<1> HIDE DEF o, n
<1>7. OwnRuntime'
  BY <1>1, <1>4, <1>6 DEF OwnRuntime
<1>8. StartedByOne'
  BY <1>1, <1>6 DEF StartedByOne, Live
<1>9. Start(c)'
  BY <1>1, <1>4 DEF Start, Begins, StartsUp
<1> QED
  BY <1>3, <1>7, <1>8, <1>9, StartOne DEF SessionInv

LEMMA SessionStartFails ==
  ASSUME Base, OneAtATime, SessionInv, NEW c \in Commands, StartFails(c)
  PROVE  SessionInv'
<1> USE DEF Base
<1> DEFINE o == cmd[c].o
<1> DEFINE k == cmd[c].k
<1>1. /\ cmd[c].at = "starting" /\ o \in 1..Len(objs) /\ k \in 1..Len(procs)
      /\ cur' = cur /\ KeepProcs
      /\ CmdOnly(c) /\ cmd'[c].at = "failing" /\ cmd'[c].o = o /\ cmd'[c].k = k
      /\ objs'[o].adapter = 0 /\ objs'[o].connected = objs[o].connected
  BY StartFailsEffect DEF Elsewhere
<1>2. cmd[c].at \in Busy /\ Start(c)
  BY <1>1 DEF Busy, StartsUp, SessionInv
<1>3. \A d \in Commands : d # c => cmd'[d].at \notin Busy
  BY <1>1, <1>2, OthersIdle
<1>4. cur = o /\ ~objs[o].connected /\ procs[k].st \in {"created", "starting"}
  BY <1>1, <1>2 DEF Start, StartsUp
<1>5. \A j \in 1..Len(procs) : procs[j].st \in Live => j = k
  BY <1>1, OnlyLive DEF StartsUp
<1> HIDE DEF o, k
<1>6. OwnRuntime'
  BY <1>1, <1>5 DEF OwnRuntime, KeepProcs
<1>7. StartedByOne'
  BY <1>1, <1>5 DEF StartedByOne, KeepProcs, Live
<1>8. Start(c)'
  BY <1>1, <1>4 DEF Start, Begins, StartsUp, KeepProcs
<1> QED
  BY <1>3, <1>6, <1>7, <1>8, StartOne DEF SessionInv

\* A start that failed leaves no runtime that is alive.
LEMMA SessionUndone ==
  ASSUME Base, OneAtATime, SessionInv, NEW c \in Commands, LaunchFailed(c) \/ ResumeFailed(c)
  PROVE  SessionInv' /\ (\A d \in Commands : cmd'[d].at \notin Busy)
                     /\ (\A j \in 1..Len(procs') : procs'[j].st \notin Live)
<1> USE DEF Base
<1> DEFINE k == cmd[c].k
<1>1. /\ cmd[c].at = "failing" /\ k \in 1..Len(procs)
      /\ ProcOnly(k) /\ procs'[k].st \in {"gone", "orphan"}
      /\ CmdOnly(c) /\ cmd'[c].at \in {"undone", "posting"}
  BY LaunchFailedEffect, ResumeFailedEffect
<1>2. cmd[c].at \in Busy /\ cmd'[c].at \notin Busy
  BY <1>1 DEF Busy, Begins, StartsUp
<1>3. \A d \in Commands : cmd'[d].at \notin Busy
  BY <1>1, <1>2, OthersIdle
<1>4. \A j \in 1..Len(procs) : procs[j].st \in Live => j = k
  BY <1>1, OnlyLive
<1> HIDE DEF k
<1>5. \A j \in 1..Len(procs') : procs'[j].st \notin Live
  BY <1>1, <1>4 DEF ProcOnly, Live
<1>6. \A d \in Commands : Start(d)'
  BY <1>3 DEF Start, Busy, Begins, StartsUp
<1> QED
  BY <1>3, <1>5, <1>6, NoneLive

LEMMA SessionConnect ==
  ASSUME Base, OneAtATime, SessionInv, NEW c \in Commands, Connect(c)
  PROVE  SessionInv' /\ (\A d \in Commands : cmd'[d].at \notin Busy)
<1> USE DEF Base
<1> DEFINE o == cmd[c].o
<1>1. /\ cmd[c].at = "started" /\ o \in 1..Len(objs) /\ cur' = cur /\ KeepProcs
      /\ CmdOnly(c) /\ cmd'[c].at = "connecting"
      /\ ObjOnly(o) /\ objs'[o].adapter = objs[o].adapter
  BY ConnectEffect
<1>2. cmd[c].at \in Busy /\ cmd'[c].at \notin Busy
  BY <1>1 DEF Busy, Begins, StartsUp
<1>3. \A d \in Commands : d # c => cmd[d].at \notin Busy /\ cmd'[d].at \notin Busy
  BY <1>1, <1>2, OthersIdle
<1> HIDE DEF o
<1>4. \A d \in Commands : cmd[d].at \notin {"starting", "failing"} /\ cmd'[d].at \notin Busy
  BY <1>1, <1>2, <1>3 DEF Busy, StartsUp
<1>5. OwnRuntime'
  <2>1. \A j \in 1..Len(procs) : procs[j].st \in Live =>
           cur # 0 /\ objs[cur].adapter = j /\ procs[j].o = cur
    BY <1>4 DEF SessionInv, OwnRuntime
  <2>2. cur = 0 \/ cur \in 1..Len(objs)
    BY CoreFacts
  <2>3. cur # 0 => objs'[cur].adapter = objs[cur].adapter
    BY <1>1, <2>2 DEF ObjOnly
  <2> QED
    BY <1>1, <2>1, <2>3 DEF OwnRuntime, KeepProcs
<1>6. StartedByOne'
  BY <1>1, <1>4 DEF SessionInv, StartedByOne, KeepProcs
<1>7. \A d \in Commands : Start(d)'
  BY <1>4 DEF Start, Busy, Begins, StartsUp
<1> QED
  BY <1>4, <1>5, <1>6, <1>7 DEF SessionInv

LEMMA SessionLaunch ==
  ASSUME Base, OneAtATime, SessionInv, NEW c \in Commands, Launch(c)
  PROVE  SessionInv' /\ (\A d \in Commands : d # c => cmd'[d].at \notin Busy)
<1> USE DEF Base
<1> DEFINE n == Len(objs) + 1
<1>1. /\ cur = 0 /\ cur' = n /\ KeepProcs
      /\ CmdOnly(c) /\ cmd'[c].at = "reporting" /\ cmd'[c].o = n
      /\ objs'[n].adapter = 0 /\ ~objs'[n].connected /\ objs'[n].held = None
  BY LaunchEffect
<1>2. Received(c) /\ c \in Starters
  BY DEF Launch, Handling, Starters
<1>3. \A d \in Commands : cmd[d].at \notin Busy
  BY <1>2, NoneBusy
<1> HIDE DEF n
<1>4. \A d \in Commands : d # c => cmd'[d].at \notin Busy
  BY <1>1, <1>3 DEF CmdOnly
<1>5. \A j \in 1..Len(procs') : procs'[j].st \notin Live
  BY <1>1, <1>3 DEF SessionInv, OwnRuntime, KeepProcs, Busy
<1>6. Start(c)'
  BY <1>1, <1>5 DEF Start, Begins, StartsUp
<1> QED
  BY <1>4, <1>5, <1>6, StartOne, NoneLive

LEMMA SessionResume ==
  ASSUME Base, OneAtATime, SessionInv, NEW c \in Commands, Resume(c)
  PROVE  /\ SessionInv' /\ (\A d \in Commands : d # c => cmd'[d].at \notin Busy)
         /\ \A d \in Commands : cmd[d].at \notin Busy
         /\ \A j \in 1..Len(procs) : procs[j].st \notin Live
<1> USE DEF Base
<1> DEFINE o == cur'
<1> DEFINE k == Len(procs) + 1
<1>1. /\ ~Alive(Adapter) /\ c \in Resumes
      /\ CmdOnly(c) /\ cmd'[c].at = "starting" /\ cmd'[c].o = o /\ cmd'[c].k = k
      /\ Len(procs') = k
      /\ procs'[k].st \in {"created", "starting"} /\ procs'[k].o = o
      /\ \A j \in 1..Len(procs) : procs'[j] = procs[j]
      /\ o \in 1..Len(objs')
      /\ objs'[o].adapter = k /\ ~objs'[o].connected /\ objs'[o].held = None
  BY ResumeEffect
<1>2. Received(c) /\ c \in Starters
  BY <1>1 DEF Resume, Handling, Starters
<1>3. \A d \in Commands : cmd[d].at \notin Busy
  BY <1>2, NoneBusy
<1>4. \A j \in 1..Len(procs) : procs[j].st \notin Live
  <2> SUFFICES ASSUME NEW j \in 1..Len(procs), procs[j].st \in Live PROVE FALSE
    OBVIOUS
  <2>1. cur # 0 /\ objs[cur].adapter = j
    BY <1>3 DEF SessionInv, OwnRuntime, Busy
  <2>2. procs[j].st \notin {"created", "starting"}
    BY <1>3 DEF SessionInv, StartedByOne, Busy, StartsUp
  <2>3. procs[j].st = "up" /\ j # 0 /\ Adapter = j
    BY <2>1, <2>2 DEF Live, Adapter
  <2> QED
    BY <1>1, <2>3 DEF Alive
<1>5. \A d \in Commands : d # c => cmd'[d].at \notin Busy
  BY <1>1, <1>3 DEF CmdOnly
<1>6. \A j \in 1..k : j \in 1..Len(procs) \/ j = k
  BY CoreFacts
<1>7. \A j \in 1..Len(procs') : procs'[j].st \in Live => j = k
  BY <1>1, <1>4, <1>6
<1> HIDE DEF k
<1>8. cur' = o /\ o # 0
  BY <1>1
<1> HIDE DEF o
<1>9. OwnRuntime'
  BY <1>1, <1>7, <1>8 DEF OwnRuntime
<1>10. StartedByOne'
  BY <1>1, <1>7 DEF StartedByOne, Live
<1>11. Start(c)'
  BY <1>1, <1>8 DEF Start, Begins, StartsUp
<1> QED
  BY <1>3, <1>4, <1>5, <1>9, <1>10, <1>11, StartOne DEF SessionInv

\* A runtime that is up is the session's.
LEMMA UpIsOwn ==
  ASSUME CoreTypes, SessionInv, NEW k \in 1..Len(procs), procs[k].st = "up"
  PROVE  /\ cur # 0 /\ cur \in 1..Len(objs) /\ objs[cur].adapter = k /\ procs[k].o = cur
         /\ \A c \in Commands : cmd[c].at \in Busy => cmd[c].at = "started" /\ cmd[c].k = k /\ cmd[c].o = cur
<1>1. ~ \E c \in Commands : cmd[c].at = "failing" /\ cmd[c].k = k
  BY DEF SessionInv, Start
<1>2. cur # 0 /\ objs[cur].adapter = k /\ procs[k].o = cur
  BY <1>1 DEF SessionInv, OwnRuntime, Live
<1>3. cur \in 1..Len(objs)
  BY <1>2, CoreFacts
<1>4. ASSUME NEW c \in Commands, cmd[c].at \in Busy
      PROVE  cmd[c].at = "started" /\ cmd[c].k = k /\ cmd[c].o = cur
  <2>1. Start(c) /\ cur = cmd[c].o
    BY <1>4 DEF SessionInv, Start, Busy
  <2>2. cmd[c].at \notin Begins
    BY <2>1 DEF Start, Live
  <2>3. cmd[c].at \notin {"starting", "failing"}
    BY <1>2, <2>1 DEF Start
  <2> QED
    BY <1>2, <1>4, <2>1, <2>2, <2>3 DEF Start, Busy, StartsUp
<1> QED
  BY <1>2, <1>3, <1>4

LEMMA SessionTells ==
  ASSUME CoreTypes, SessionInv, NEW k \in DOMAIN procs, RuntimeStatus(k) \/ RuntimeEnds(k)
  PROVE  SessionInv'
<1>1. /\ k \in 1..Len(procs) /\ procs[k].st = "up" /\ cmd' = cmd /\ cur' = cur
      /\ \A j \in 1..Len(procs) : procs'[j].o = procs[j].o /\ (j # k => procs'[j].st = procs[j].st)
      /\ Len(procs') = Len(procs) /\ procs'[k].st \in {"up", "gone", "closing"}
      /\ (\E s : ToldEffect(procs[k].o, k, s)) \/ objs' = objs
  BY RuntimeStatusEffect, RuntimeEndsEffect DEF KeepProcs, ProcOnly
<1>2. /\ cur # 0 /\ cur \in 1..Len(objs) /\ objs[cur].adapter = k /\ procs[k].o = cur
      /\ \A c \in Commands : cmd[c].at \in Busy => cmd[c].at = "started" /\ cmd[c].k = k /\ cmd[c].o = cur
  BY <1>1, UpIsOwn
<1>3. \A o \in 1..Len(objs) : /\ objs'[o].adapter = objs[o].adapter
                              /\ objs'[o].connected = objs[o].connected
  BY <1>1, <1>2 DEF ToldEffect, ObjOnly
<1>4. OwnRuntime'
  <2> SUFFICES ASSUME NEW j \in 1..Len(procs'), procs'[j].st \in Live
               PROVE  \/ cur' # 0 /\ objs'[cur'].adapter = j /\ procs'[j].o = cur'
                      \/ \E c \in Commands : cmd'[c].at = "failing" /\ cmd'[c].k = j
    BY DEF OwnRuntime
  <2>1. j \in 1..Len(procs) /\ procs[j].st \in Live
    BY <1>1 DEF Live
  <2> QED
    BY <1>1, <1>2, <1>3, <2>1 DEF SessionInv, OwnRuntime
<1>5. StartedByOne'
  BY <1>1 DEF SessionInv, StartedByOne
<1>6. ASSUME NEW c \in Commands PROVE Start(c)'
  <2>1. CASE cmd[c].at \notin Busy
    BY <1>1, <2>1 DEF Start, Busy, Begins, StartsUp
  <2>2. CASE cmd[c].at \in Busy
    <3>1. cmd[c].at = "started" /\ cmd[c].k = k /\ cmd[c].o = cur /\ ~objs[cur].connected
      BY <1>2, <2>2 DEF SessionInv, Start, Busy
    <3> QED
      BY <1>1, <1>2, <1>3, <3>1 DEF Start, Begins
  <2> QED
    BY <2>1, <2>2
<1> QED
  BY <1>4, <1>5, <1>6 DEF SessionInv

LEMMA SessionCrash ==
  ASSUME CoreTypes, Crash
  PROVE  SessionInv'
<1>1. /\ \A c \in Commands : cmd'[c].at = "idle"
      /\ Len(procs') = Len(procs) /\ \A j \in 1..Len(procs) : procs'[j].st \in {"gone", "orphan"}
  BY CrashEffect
<1>2. \A j \in 1..Len(procs') : procs'[j].st \notin Live
  BY <1>1 DEF Live
<1>3. \A c \in Commands : Start(c)'
  BY <1>1 DEF Start, Begins, StartsUp
<1> QED
  BY <1>2, <1>3, NoneLive

LEMMA SessionStep == Base /\ OneAtATime /\ SessionInv /\ [Next]_vars => SessionInv'
<1> SUFFICES ASSUME Base, OneAtATime, SessionInv, [Next]_vars PROVE SessionInv'
  OBVIOUS
<1>0. CoreTypes /\ Waiters
  BY DEF Base
<1>1. CASE Restart \/ UNCHANGED vars
  <2>1. QuietParts
    BY <1>1, RestEffect DEF QuietParts, KeepObjs, KeepProcs, SameStarts, SameObjects, SameStates
  <2> QED
    BY <1>0, <2>1, SessionQuiet DEF QuietParts
<1>2. CASE \E c \in Commands : Issue(c) \/ Handle(c) \/ Continue(c) \/ StartFails(c)
  <2>1. PICK c \in Commands : Issue(c) \/ Handle(c) \/ Continue(c) \/ StartFails(c)
    BY <1>2
  <2>2. CASE QuietFor(c)
    BY <1>0, <2>2, QuietCommand, SessionQuiet DEF QuietParts
  <2>3. CASE ~QuietFor(c)
    BY <2>1, <2>3, SessionState, SessionStart, SessionStartFails, SessionUndone, SessionConnect,
       SessionLaunch, SessionResume DEF QuietFor, Ends, Handle, Continue
  <2> QED
    BY <2>2, <2>3
<1>3. CASE \E o \in DOMAIN objs : ReportDelivered(o) \/ ReportFails(o) \/ ReportRefused(o)
  BY <1>0, <1>3, QuietReport, SessionQuiet DEF QuietParts
<1>4. CASE \E k \in DOMAIN procs : Prompt(k) \/ RuntimeStatus(k) \/ RuntimeEnds(k) \/ ProcessExits(k)
  <2>1. PICK k \in DOMAIN procs : Prompt(k) \/ RuntimeStatus(k) \/ RuntimeEnds(k) \/ ProcessExits(k)
    BY <1>4
  <2>2. CASE Prompt(k) \/ ProcessExits(k)
    BY <1>0, <2>2, QuietRuntime, SessionQuiet DEF QuietParts
  <2>3. CASE RuntimeStatus(k) \/ RuntimeEnds(k)
    BY <1>0, <2>3, SessionTells
  <2> QED
    BY <2>1, <2>2, <2>3
<1>5. CASE Crash
  BY <1>0, <1>5, SessionCrash
<1> QED
  BY <1>1, <1>2, <1>3, <1>4, <1>5 DEF Next

LEMMA SessionInit == Init => SessionInv
<1> SUFFICES ASSUME Init PROVE SessionInv
  OBVIOUS
<1>1. procs = <<>> /\ \A c \in Commands : cmd[c].at = "idle"
  BY IdleHandler DEF Init
<1> QED
  BY <1>1 DEF SessionInv, OwnRuntime, StartedByOne, Start, Begins, StartsUp

LEMMA SessionImplies == Base /\ OneAtATime /\ SessionInv => OneRuntime
<1> SUFFICES ASSUME Base, OneAtATime, SessionInv PROVE OneRuntime
  OBVIOUS
<1> DEFINE S == {k \in Procs : procs[k].st \in {"starting", "up"}}
<1>1. \A j, k \in S : j = k
  <2> SUFFICES ASSUME NEW j \in 1..Len(procs), NEW k \in 1..Len(procs),
                      procs[j].st \in Live, procs[k].st \in Live
               PROVE  j = k
    BY DEF Procs, Live
  <2>1. CASE \E c \in Commands : cmd[c].at = "failing"
    BY <2>1, OnlyLive DEF Base
  <2>2. CASE ~ \E c \in Commands : cmd[c].at = "failing"
    BY <2>2 DEF SessionInv, OwnRuntime
  <2> QED
    BY <2>1, <2>2
<1> HIDE DEF S
<1>2. Cardinality(S) <= 1
  <2>1. CASE S = {}
    BY <2>1, FS_EmptySet
  <2>2. CASE S # {}
    <3>1. PICK x : S = {x}
      BY <1>1, <2>2
    <3>2. Cardinality(S) = 1
      BY <3>1, FS_Singleton
    <3> QED
      BY <3>2
  <2> QED
    BY <2>1, <2>2
<1> QED
  BY <1>2 DEF OneRuntime, S

-----------------------------------------------------------------------------
(* A launched session has the status of its runtime                          *)

SameStatuses == \A o \in 1..Len(objs) : objs'[o].status = objs[o].status

\* No stop captures a session anew.
SameStops ==
    \A s \in Stops : cmd'[s].at = "stopping" =>
        cmd[s].at = "stopping" /\ cmd'[s].o = cmd[s].o /\ cmd'[s].k = cmd[s].k

\* What a command that starts a runtime captured is there.
LEMMA BusyCaptured ==
  ASSUME CoreTypes, NEW c \in Commands
  PROVE  /\ cmd[c].at \in Busy => cmd[c].o \in 1..Len(objs)
         /\ cmd[c].at \in StartsUp \cup {"failing"} => cmd[c].k \in 1..Len(procs)
         /\ cmd[c].at = "stopping" => cmd[c].o \in 1..Len(objs)
BY Captured DEF Busy, Begins, StartsUp, HasObject, HasAdapter

LEMMA AdapterStarted ==
  ASSUME CoreTypes, NEW o \in 1..Len(objs), objs[o].adapter # 0
  PROVE  objs[o].adapter \in 1..Len(procs)
<1>1. objs[o] \in Managed /\ ManagedFits(objs[o], Len(procs)) /\ Len(procs) \in Nat
  BY CoreFacts
<1>2. objs[o].adapter \in Nat /\ objs[o].adapter <= Len(procs)
  BY <1>1 DEF Managed, ManagedFits
<1> QED
  BY <1>1, <1>2

\* The session is not connected, or has no adapter.
LEMMA StatusVacuous ==
  ASSUME cur' = 0 \/ ~objs'[cur'].connected \/ objs'[cur'].adapter = 0
  PROVE  LaunchedStatus'
BY DEF LaunchedStatus, StatusOf

LEMMA StatusPrimed ==
  ASSUME \A a : a = objs'[cur'].adapter /\ cur' # 0 /\ objs'[cur'].connected /\ a # 0
                 /\ procs'[a].by \in Launches =>
            (objs'[cur'].status = "stopped" <=> procs'[a].st \notin {"starting", "up"})
  PROVE  LaunchedStatus'
BY DEF LaunchedStatus, StatusOf, Alive

LEMMA SameLaunchedStatus ==
  ASSUME CoreTypes, LaunchedStatus, cur' = cur, SameObjects, SameStates, SameStatuses
  PROVE  LaunchedStatus'
<1> SUFFICES ASSUME NEW a, a = objs'[cur'].adapter, cur' # 0, objs'[cur'].connected, a # 0,
                    procs'[a].by \in Launches
             PROVE  objs'[cur'].status = "stopped" <=> procs'[a].st \notin {"starting", "up"}
  BY StatusPrimed
<1>1. cur \in 1..Len(objs)
  BY CoreFacts
<1>2. a = objs[cur].adapter /\ objs[cur].connected /\ objs'[cur].status = objs[cur].status
  BY <1>1 DEF SameObjects, SameStatuses
<1>3. a \in 1..Len(procs)
  BY <1>1, <1>2, AdapterStarted
<1>4. /\ procs[a].by \in Launches
      /\ procs'[a].st \in {"starting", "up"} <=> procs[a].st \in {"starting", "up"}
  BY <1>3 DEF SameStates
<1>5. objs[cur].status = "stopped" <=> procs[a].st \notin {"starting", "up"}
  BY <1>1, <1>2, <1>4 DEF LaunchedStatus, StatusOf, Alive
<1> QED
  BY <1>2, <1>4, <1>5

\* The launches and the session, when nothing of a start changes.
LEMMA LaunchesQuiet ==
  ASSUME CoreTypes, StatusInv, QuietParts, SameStatuses
  PROVE  /\ \A c \in Launches : HeldEnd(c)' /\ NotStopped(c)'
         /\ \A c \in Commands : StartedBy(c)'
         /\ LaunchedStatus'
<1> USE DEF QuietParts
<1>1. LaunchedStatus'
  BY SameLaunchedStatus DEF StatusInv
<1>2. ASSUME NEW c \in Commands, cmd'[c].at \in Begins \cup StartsUp
      PROVE  /\ cmd'[c].o = cmd[c].o /\ cmd'[c].k = cmd[c].k
             /\ cmd[c].at \in Begins \cup StartsUp
             /\ cmd'[c].at \in StartsUp => cmd'[c].at = cmd[c].at
             /\ cmd'[c].at \in Begins <=> cmd[c].at \in Begins
             /\ cmd[c].o \in 1..Len(objs) /\ (cmd[c].at \in StartsUp => cmd[c].k \in 1..Len(procs))
  <2>1. /\ cmd'[c].o = cmd[c].o /\ cmd'[c].k = cmd[c].k
        /\ cmd'[c].at = cmd[c].at \/ (cmd[c].at = "reporting" /\ cmd'[c].at = "start")
    BY <1>2 DEF SameStarts, Busy
  <2>2. cmd[c].at \in Begins \cup StartsUp
    BY <1>2, <2>1 DEF Begins
  <2> QED
    BY <1>2, <2>1, <2>2, BusyCaptured DEF Begins, StartsUp, Busy
<1>3. ASSUME NEW c \in Launches PROVE HeldEnd(c)'
  <2>1. CASE cmd'[c].at = "started"
    <3>1. /\ cmd'[c].o = cmd[c].o /\ cmd'[c].k = cmd[c].k /\ cmd[c].at = "started"
          /\ cmd[c].o \in 1..Len(objs) /\ cmd[c].k \in 1..Len(procs) /\ c \in Commands
      BY <1>2, <2>1 DEF StartsUp, Commands
    <3>2. /\ objs'[cmd[c].o].held = objs[cmd[c].o].held
          /\ \/ procs'[cmd[c].k].st = procs[cmd[c].k].st
             \/ procs[cmd[c].k].st \in {"closing", "orphan"} /\ procs'[cmd[c].k].st = "gone"
      BY <3>1 DEF SameObjects, SameStates
    <3>3. HeldEnd(c)
      BY DEF StatusInv
    <3> QED
      BY <3>1, <3>2, <3>3 DEF HeldEnd
  <2> QED
    BY <2>1 DEF HeldEnd
<1>4. ASSUME NEW c \in Launches PROVE NotStopped(c)'
  <2>1. CASE cmd'[c].at \in Begins \cup StartsUp
    <3>0. c \in Commands /\ NotStopped(c)
      BY DEF Commands, StatusInv
    <3>1. /\ cmd'[c].o = cmd[c].o /\ cmd'[c].k = cmd[c].k /\ cmd[c].o \in 1..Len(objs)
          /\ cmd[c].at \in Begins \cup StartsUp
          /\ cmd'[c].at \in StartsUp => cmd'[c].at = cmd[c].at
          /\ cmd'[c].at \in Begins <=> cmd[c].at \in Begins
          /\ cmd[c].at \in StartsUp => cmd[c].k \in 1..Len(procs)
      BY <1>2, <2>1, <3>0
    <3>2. objs'[cmd[c].o].status = objs[cmd[c].o].status
      BY <3>1 DEF SameStatuses
    <3>3. ASSUME objs[cmd[c].o].status = "stopped"
          PROVE  cmd'[c].at = "started" /\ procs'[cmd[c].k].st # "up"
      <4>1. cmd[c].at = "started" /\ procs[cmd[c].k].st # "up"
        BY <3>0, <3>1, <3>3 DEF NotStopped
      <4> QED
        BY <2>1, <3>1, <4>1 DEF SameStates, Begins, StartsUp
    <3> QED
      BY <3>1, <3>2, <3>3 DEF NotStopped
  <2> QED
    BY <2>1 DEF NotStopped
<1>5. ASSUME NEW c \in Commands PROVE StartedBy(c)'
  BY <1>2 DEF StatusInv, StartedBy, SameStates
<1> QED
  BY <1>1, <1>3, <1>4, <1>5

\* The adapter of o is the one it had, or none a launch started, or no stop has captured o.
SameAdapter(o) ==
    \/ objs'[o].adapter = objs[o].adapter /\ objs[o].adapter \in 0..Len(procs)
    \/ objs'[o].adapter = 0
    \/ procs'[objs'[o].adapter].by \notin Launches
    \/ \A s \in Stops : cmd[s].at = "stopping" => cmd[s].o # o

\* A launch that begins did before, or for an object that was not there.
SameBegins ==
    \A c \in Commands : cmd'[c].at \in Begins =>
        (cmd[c].at \in Begins /\ cmd'[c].o = cmd[c].o) \/ cmd'[c].o \notin 1..Len(objs)

LEMMA StopsKept ==
  ASSUME CoreTypes, StatusInv, SameStops, SameBegins,
         \A k \in 1..Len(procs) : procs'[k].by = procs[k].by,
         \A o \in 1..Len(objs) : SameAdapter(o)
  PROVE  \A s \in Stops : StopsOwn(s)'
<1> SUFFICES ASSUME NEW s \in Stops, cmd'[s].at = "stopping" PROVE StopsOwn(s)'
  BY DEF StopsOwn
<1>1. /\ s \in Commands /\ StopsOwn(s)
      /\ cmd[s].at = "stopping" /\ cmd'[s].o = cmd[s].o /\ cmd'[s].k = cmd[s].k
  BY DEF Commands, StatusInv, SameStops
<1>2. PICK o : o = cmd[s].o /\ o \in 1..Len(objs)
  BY <1>1, BusyCaptured
<1>3. PICK a : a = objs'[o].adapter
  OBVIOUS
<1>4. ASSUME a # 0, procs'[a].by \in Launches PROVE cmd[s].k = a
  <2>1. objs[o].adapter = a /\ a \in 1..Len(procs)
    <3>1. objs[o].adapter = a /\ a \in 0..Len(procs)
      BY <1>1, <1>2, <1>3, <1>4 DEF SameAdapter
    <3> QED
      BY <1>4, <3>1
  <2>2. procs[a].by \in Launches
    BY <1>4, <2>1
  <2> QED
    BY <1>1, <1>2, <1>4, <2>1, <2>2 DEF StopsOwn, ByLaunch
<1>5. \A c \in Launches : cmd'[c].at \in Begins => cmd'[c].o # o
  BY <1>1, <1>2 DEF StopsOwn, SameBegins, Commands
<1> QED
  BY <1>1, <1>2, <1>3, <1>4, <1>5 DEF StopsOwn, ByLaunch

\* The adapters are the ones there were.
LEMMA SameAdapters ==
  ASSUME CoreTypes, \A o \in 1..Len(objs) : objs'[o].adapter = objs[o].adapter
  PROVE  \A o \in 1..Len(objs) : SameAdapter(o)
<1> SUFFICES ASSUME NEW o \in 1..Len(objs) PROVE objs[o].adapter \in 0..Len(procs)
  BY DEF SameAdapter
<1>1. Len(procs) \in Nat
  BY CoreFacts
<1> QED
  BY <1>1, AdapterStarted

LEMMA StatusQuiet ==
  ASSUME CoreTypes, StatusInv, QuietParts, SameStatuses, SameStops
  PROVE  StatusInv'
<1>1. \A o \in 1..Len(objs) : SameAdapter(o)
  BY SameAdapters DEF QuietParts, SameObjects
<1>2. SameBegins
  BY DEF QuietParts, SameStarts, SameBegins, Busy, Begins
<1>3. \A s \in Stops : StopsOwn(s)'
  BY <1>1, <1>2, StopsKept DEF QuietParts, SameStates
<1> QED
  BY <1>3, LaunchesQuiet DEF StatusInv

LEMMA StatusCommand ==
  ASSUME Base, OneAtATime, SessionInv, StatusInv, NEW c \in Commands, QuietFor(c)
  PROVE  StatusInv'
<1> USE DEF Base
<1>1. CASE Issue(c) \/ DeliverDone(c) \/ RegisterNative(c)
  <2>1. SameStatuses /\ SameStops
    BY <1>1, RestEffect DEF KeepObjs, SameStatuses, SameStops
  <2> QED
    BY <2>1, QuietCommand, StatusQuiet
<1>2. CASE Ends(c)
  <2>1. SameStatuses /\ SameStops
    <3>1. KeepObjs /\ CmdOnly(c) /\ cmd'[c].at # "stopping"
      BY <1>2, EndsEffect
    <3> QED
      BY <3>1 DEF KeepObjs, SameStatuses, SameStops, CmdOnly, Commands
  <2> QED
    BY <2>1, QuietCommand, StatusQuiet
<1>3. CASE Stop(c)
  <2>1. /\ c \in Stops /\ cur # 0 /\ objs[cur].adapter # 0 /\ KeepObjs /\ KeepProcs
        /\ CmdOnly(c) /\ cmd'[c].at = "stopping" /\ cmd'[c].o = cur
        /\ cmd'[c].k = objs[cur].adapter
    BY <1>3, StopEffect
  <2>2. \A d \in Commands : cmd[d].at \notin Begins /\ cmd'[d].at \notin Begins
    BY <2>1 DEF SessionInv, Start, CmdOnly, Begins
  <2>3. SameStatuses
    BY <2>1 DEF KeepObjs, SameStatuses
  <2>4. ASSUME NEW s \in Stops PROVE StopsOwn(s)'
    <3>1. CASE s = c
      BY <2>1, <2>2, <3>1 DEF StopsOwn, KeepObjs, Commands
    <3>2. CASE s # c
      BY <2>1, <2>2, <3>2 DEF StopsOwn, StatusInv, KeepObjs, KeepProcs, ByLaunch, CmdOnly, Commands
    <3> QED
      BY <3>1, <3>2
  <2> QED
    BY <2>3, <2>4, QuietCommand, LaunchesQuiet DEF StatusInv
<1>4. CASE StopApplied(c)
  <2>1. PICK o, k : /\ o = cmd[c].o /\ k = cmd[c].k
                    /\ cmd[c].at = "stopping" /\ o \in 1..Len(objs) /\ k \in 1..Len(procs)
                    /\ procs[k].st = "gone" /\ cur' = cur /\ KeepProcs
                    /\ CmdOnly(c) /\ cmd'[c].at = "stopped"
                    /\ ObjOnly(o) /\ objs'[o].adapter = objs[o].adapter /\ objs'[o].status = "stopped"
                    /\ objs'[o].connected = objs[o].connected /\ objs'[o].held = objs[o].held
    <3>1. /\ cmd[c].at = "stopping" /\ cmd[c].o \in 1..Len(objs) /\ cmd[c].k \in 1..Len(procs)
          /\ procs[cmd[c].k].st = "gone" /\ cur' = cur /\ KeepProcs
          /\ CmdOnly(c) /\ cmd'[c].at = "stopped"
          /\ ObjOnly(cmd[c].o) /\ objs'[cmd[c].o].adapter = objs[cmd[c].o].adapter
          /\ objs'[cmd[c].o].status = "stopped"
          /\ objs'[cmd[c].o].connected = objs[cmd[c].o].connected
          /\ objs'[cmd[c].o].held = objs[cmd[c].o].held
      BY <1>4, StopAppliedEffect
    <3> QED
      BY <3>1
  <2>2. /\ c \in Stops /\ StopsOwn(c)
    BY <2>1 DEF Handled, StatusInv
  <2>3. QuietParts /\ SameStops
    BY <2>1, QuietCommand DEF SameStops, CmdOnly, Commands
  <2>4. \A s \in Stops : StopsOwn(s)'
    <3>1. \A p \in 1..Len(objs) : SameAdapter(p)
      BY <2>3, SameAdapters DEF QuietParts, SameObjects
    <3>2. SameBegins
      BY <2>3 DEF QuietParts, SameStarts, SameBegins, Busy, Begins
    <3> QED
      BY <2>3, <3>1, <3>2, StopsKept DEF QuietParts, SameStates
  <2>5. LaunchedStatus'
    <3> SUFFICES ASSUME NEW a, a = objs'[cur'].adapter, cur' # 0, objs'[cur'].connected, a # 0,
                        procs'[a].by \in Launches
                 PROVE  objs'[cur'].status = "stopped" <=> procs'[a].st \notin {"starting", "up"}
      BY StatusPrimed
    <3>1. cur \in 1..Len(objs)
      BY <2>1, CoreFacts
    <3>2. a = objs[cur].adapter /\ objs[cur].connected /\ procs[a].by \in Launches
      BY <2>1, <3>1 DEF ObjOnly, KeepProcs
    <3>3. CASE cur = o
      BY <2>1, <2>2, <3>2, <3>3 DEF StopsOwn, ByLaunch, KeepProcs
    <3>4. CASE cur # o
      BY <2>1, <3>1, <3>2, <3>4 DEF ObjOnly, StatusInv, LaunchedStatus, StatusOf, Alive, KeepProcs
    <3> QED
      BY <3>3, <3>4
  <2>6. ASSUME NEW d \in Launches PROVE HeldEnd(d)' /\ NotStopped(d)'
    <3>1. d \in Commands /\ d # c /\ cmd'[d] = cmd[d] /\ HeldEnd(d) /\ NotStopped(d)
      BY <2>1, <2>2, DaemonAssumption DEF Commands, CmdOnly, StatusInv
    <3>2. cmd[d].at \in Busy => cmd[d].o \in 1..Len(objs)
      BY <3>1, BusyCaptured
    <3>3. HeldEnd(d)'
      <4>1. cmd[d].at = "started" => objs'[cmd[d].o].held = objs[cmd[d].o].held
        BY <2>1, <3>2 DEF ObjOnly, Busy, StartsUp
      <4> QED
        BY <2>1, <3>1, <4>1 DEF HeldEnd, KeepProcs
    <3>4. NotStopped(d)'
      <4>1. CASE cmd[d].at \in Begins \cup StartsUp /\ cmd[d].o = o
        <5>1. cmd[d].at \notin Begins
          BY <2>1, <2>2, <4>1 DEF StopsOwn
        <5>2. Start(d) /\ StartedBy(d)
          BY <3>1 DEF SessionInv, StatusInv
        <5>3. objs[o].adapter = cmd[d].k /\ procs[cmd[d].k].by = d
          BY <4>1, <5>1, <5>2 DEF Start, StartedBy, StartsUp
        <5>4. cmd[d].k \in 1..Len(procs)
          BY <3>1, <4>1, <5>1, BusyCaptured
        <5>5. cmd[d].k = k
          BY <2>1, <2>2, <5>3, <5>4 DEF StopsOwn, ByLaunch
        <5>6. cmd[d].at = "started"
          BY <2>1, <4>1, <5>1, <5>2, <5>5 DEF Start, StartsUp
        <5> QED
          BY <2>1, <3>1, <5>5, <5>6 DEF NotStopped, KeepProcs
      <4>2. CASE ~(cmd[d].at \in Begins \cup StartsUp /\ cmd[d].o = o)
        BY <2>1, <3>1, <3>2, <4>2 DEF NotStopped, ObjOnly, Busy, KeepProcs
      <4> QED
        BY <4>1, <4>2
    <3> QED
      BY <3>3, <3>4
  <2>7. ASSUME NEW d \in Commands PROVE StartedBy(d)'
    BY <2>1 DEF StatusInv, StartedBy, CmdOnly, KeepProcs, StartsUp
  <2> QED
    BY <2>4, <2>5, <2>6, <2>7 DEF StatusInv
<1> QED
  BY <1>1, <1>2, <1>3, <1>4 DEF QuietFor

LEMMA StatusReport ==
  ASSUME Base, StatusInv, NEW o \in DOMAIN objs,
         ReportDelivered(o) \/ ReportFails(o) \/ ReportRefused(o)
  PROVE  StatusInv'
<1> USE DEF Base
<1> DEFINE w == objs[o].reports[1].waits
<1>1. /\ ObjOnly(o) /\ SameFields(o)
      /\ w = None => cmd' = cmd
      /\ w # None => w \in Commands /\ CmdOnly(w) /\ GoesOn(cmd[w].at, cmd'[w].at)
  BY ReportEffect
<1> HIDE DEF w
<1>2. SameStatuses
  BY <1>1 DEF SameStatuses, ObjOnly, SameFields
<1>3. SameStops
  BY <1>1 DEF SameStops, CmdOnly, GoesOn, Commands
<1> QED
  BY <1>2, <1>3, QuietReport, StatusQuiet

\* After the step only c can have a start under way.
LEMMA StatusOne ==
  ASSUME NEW c \in Commands, \A d \in Commands : d # c => cmd'[d].at \notin Busy,
         c \in Launches => HeldEnd(c)' /\ NotStopped(c)', StartedBy(c)', LaunchedStatus',
         \A s \in Stops : StopsOwn(s)'
  PROVE  StatusInv'
<1>1. ASSUME NEW d \in Commands, d # c
      PROVE  HeldEnd(d)' /\ NotStopped(d)' /\ StartedBy(d)'
  BY <1>1 DEF HeldEnd, NotStopped, StartedBy, Busy, Begins, StartsUp
<1>2. \A d \in Launches : d \in Commands
  BY DEF Commands
<1> QED
  BY <1>1, <1>2 DEF StatusInv

LEMMA StatusState ==
  ASSUME Base, OneAtATime, SessionInv, StatusInv, NEW c \in Commands, Spawn(c) \/ AdapterStarts(c)
  PROVE  StatusInv'
<1> USE DEF Base
<1>1. PICK o, k : o = cmd[c].o /\ k = cmd[c].k
  OBVIOUS
<1>2. /\ cmd[c].at = "starting" /\ k \in 1..Len(procs) /\ KeepObjs /\ ProcOnly(k)
      /\ Spawn(c) => cmd' = cmd
      /\ AdapterStarts(c) => /\ procs'[k].st = "up" /\ CmdOnly(c)
                             /\ cmd'[c].at = "started" /\ Elsewhere(cmd'[c], cmd[c])
  BY <1>1, StateEffect
<1>3. CmdOnly(c) /\ cmd'[c].at \in StartsUp /\ cmd'[c].o = o /\ cmd'[c].k = k
  BY <1>1, <1>2 DEF CmdOnly, CoreTypes, Elsewhere, StartsUp
<1>4. /\ cur = o /\ ~objs[o].connected /\ objs[o].held = None
      /\ o \in 1..Len(objs) /\ procs[k].by = c
  BY <1>1, <1>2, BusyCaptured DEF SessionInv, Start, StatusInv, StartedBy, StartsUp, Busy
<1>5. \A d \in Commands : d # c => cmd'[d].at \notin Busy
  BY <1>2, <1>3, OthersIdle DEF Busy, StartsUp
<1>6. LaunchedStatus'
  BY <1>2, <1>4, StatusVacuous DEF KeepObjs
<1>7. StartedBy(c)'
  BY <1>2, <1>3, <1>4 DEF StartedBy, ProcOnly
<1>8. ASSUME c \in Launches PROVE HeldEnd(c)' /\ NotStopped(c)'
  <2>1. objs[o].status # "stopped"
    BY <1>1, <1>2, <1>8 DEF StatusInv, NotStopped, StartsUp
  <2>2. CASE Spawn(c)
    BY <1>1, <1>2, <1>4, <2>1, <2>2 DEF HeldEnd, NotStopped, KeepObjs
  <2>3. CASE AdapterStarts(c)
    BY <1>2, <1>3, <1>4, <2>1, <2>3 DEF HeldEnd, NotStopped, KeepObjs, None
  <2> QED
    BY <2>2, <2>3
<1>9. SameStops /\ SameBegins
  BY <1>2, <1>3 DEF SameStops, SameBegins, CmdOnly, Commands, StartsUp, Begins
<1>10. \A p \in 1..Len(objs) : SameAdapter(p)
  BY <1>2, SameAdapters DEF KeepObjs
<1>11. \A s \in Stops : StopsOwn(s)'
  BY <1>2, <1>9, <1>10, StopsKept DEF ProcOnly
<1> QED
  BY <1>5, <1>6, <1>7, <1>8, <1>11, StatusOne

LEMMA StatusStart ==
  ASSUME Base, OneAtATime, SessionInv, StatusInv, NEW c \in Commands, StartAdapter(c)
  PROVE  StatusInv'
<1> USE DEF Base
<1>1. PICK o, n : o = cmd[c].o /\ n = Len(procs) + 1
  OBVIOUS
<1>2. /\ cmd[c].at = "start" /\ o \in 1..Len(objs) /\ cur' = cur
      /\ CmdOnly(c) /\ cmd'[c].at = "starting" /\ cmd'[c].k = n /\ cmd'[c].o = o
      /\ ObjOnly(o) /\ objs'[o].status = objs[o].status /\ objs'[o].connected = objs[o].connected
      /\ procs'[n].by = c /\ \A j \in 1..Len(procs) : procs'[j] = procs[j]
  BY <1>1, StartAdapterEffect
<1>3. cur = o /\ ~objs[o].connected /\ c \in Launches
  BY <1>1, <1>2 DEF SessionInv, Start, Begins, Handled
<1>4. \A d \in Commands : d # c => cmd'[d].at \notin Busy
  BY <1>2, OthersIdle DEF Busy, Begins
<1>5. LaunchedStatus'
  BY <1>2, <1>3, StatusVacuous
<1>6. HeldEnd(c)' /\ StartedBy(c)' /\ NotStopped(c)'
  <2>1. objs[o].status # "stopped"
    BY <1>1, <1>2, <1>3 DEF StatusInv, NotStopped, Begins
  <2> QED
    BY <1>2, <2>1 DEF HeldEnd, StartedBy, NotStopped
<1>7. SameStops /\ SameBegins
  BY <1>2 DEF SameStops, SameBegins, CmdOnly, Commands, Begins
<1>8. ASSUME NEW p \in 1..Len(objs) PROVE SameAdapter(p)
  <2>1. CASE p = o
    <3>1. \A s \in Stops : cmd[s].at = "stopping" => cmd[s].o # o
      BY <1>1, <1>2, <1>3 DEF StatusInv, StopsOwn, Begins
    <3> QED
      BY <2>1, <3>1 DEF SameAdapter
  <2>2. CASE p # o
    <3>1. objs'[p].adapter = objs[p].adapter
      BY <1>2, <2>2 DEF ObjOnly
    <3>2. Len(procs) \in Nat
      BY CoreFacts
    <3>3. objs[p].adapter \in 0..Len(procs)
      BY <3>2, AdapterStarted
    <3> QED
      BY <3>1, <3>3 DEF SameAdapter
  <2> QED
    BY <2>1, <2>2
<1>9. \A s \in Stops : StopsOwn(s)'
  BY <1>2, <1>7, <1>8, StopsKept
<1> QED
  BY <1>4, <1>5, <1>6, <1>9, StatusOne

LEMMA StatusStartFails ==
  ASSUME Base, OneAtATime, SessionInv, StatusInv, NEW c \in Commands, StartFails(c)
  PROVE  StatusInv'
<1> USE DEF Base
<1>1. PICK o : o = cmd[c].o
  OBVIOUS
<1>2. /\ cmd[c].at = "starting" /\ o \in 1..Len(objs) /\ cur' = cur /\ KeepProcs
      /\ CmdOnly(c) /\ cmd'[c].at = "failing" /\ ObjOnly(o) /\ objs'[o].adapter = 0
  BY <1>1, StartFailsEffect
<1>3. cur = o
  BY <1>1, <1>2 DEF SessionInv, Start, StartsUp
<1>4. \A d \in Commands : d # c => cmd'[d].at \notin Busy
  BY <1>2, OthersIdle DEF Busy, StartsUp
<1>5. LaunchedStatus'
  BY <1>2, <1>3, StatusVacuous
<1>6. HeldEnd(c)' /\ NotStopped(c)' /\ StartedBy(c)'
  BY <1>2 DEF HeldEnd, NotStopped, StartedBy, Begins, StartsUp
<1>7. SameStops /\ SameBegins
  BY <1>2 DEF SameStops, SameBegins, CmdOnly, Commands, Begins
<1>8. ASSUME NEW p \in 1..Len(objs) PROVE SameAdapter(p)
  <2>1. Len(procs) \in Nat
    BY CoreFacts
  <2>2. objs[p].adapter \in 0..Len(procs)
    BY <2>1, AdapterStarted
  <2> QED
    BY <1>2, <2>2 DEF SameAdapter, ObjOnly
<1>9. \A s \in Stops : StopsOwn(s)'
  BY <1>2, <1>7, <1>8, StopsKept DEF KeepProcs
<1> QED
  BY <1>4, <1>5, <1>6, <1>9, StatusOne

LEMMA StatusUndone ==
  ASSUME Base, OneAtATime, SessionInv, StatusInv, NEW c \in Commands, LaunchFailed(c) \/ ResumeFailed(c)
  PROVE  StatusInv'
<1> USE DEF Base
<1>1. PICK o, k : o = cmd[c].o /\ k = cmd[c].k
  OBVIOUS
<1>2. /\ cmd[c].at = "failing" /\ o \in 1..Len(objs) /\ ProcOnly(k)
      /\ CmdOnly(c) /\ cmd'[c].at \in {"undone", "posting"}
      /\ \A p \in 1..Len(objs) : objs'[p].adapter = objs[p].adapter
      /\ cur' = 0 \/ cur' = cur
  <2>1. CASE LaunchFailed(c)
    BY <1>1, <2>1, LaunchFailedEffect DEF ObjOnly
  <2>2. CASE ResumeFailed(c)
    <3>1. /\ cmd[c].at = "failing" /\ o \in 1..Len(objs) /\ ProcOnly(k)
          /\ CmdOnly(c) /\ cmd'[c].at = "posting"
          /\ \/ cur' = 0 /\ objs' = objs
             \/ cur' = cur /\ ObjOnly(o) /\ objs'[o].adapter = objs[o].adapter
      BY <1>1, <2>2, ResumeFailedEffect
    <3> QED
      BY <3>1 DEF ObjOnly
  <2> QED
    BY <2>1, <2>2
<1>3. cur = o /\ objs[o].adapter = 0
  BY <1>1, <1>2 DEF SessionInv, Start
<1>4. \A d \in Commands : d # c => cmd'[d].at \notin Busy
  BY SessionUndone
<1>5. LaunchedStatus'
  BY <1>2, <1>3, StatusVacuous
<1>6. HeldEnd(c)' /\ NotStopped(c)' /\ StartedBy(c)'
  BY <1>2 DEF HeldEnd, NotStopped, StartedBy, Begins, StartsUp
<1>7. SameStops /\ SameBegins
  BY <1>2 DEF SameStops, SameBegins, CmdOnly, Commands, Begins
<1>8. \A p \in 1..Len(objs) : SameAdapter(p)
  BY <1>2, SameAdapters
<1>9. \A s \in Stops : StopsOwn(s)'
  BY <1>2, <1>7, <1>8, StopsKept DEF ProcOnly
<1> QED
  BY <1>4, <1>5, <1>6, <1>9, StatusOne

LEMMA StatusConnect ==
  ASSUME Base, OneAtATime, SessionInv, StatusInv, NEW c \in Commands, Connect(c)
  PROVE  StatusInv'
<1> USE DEF Base
<1>1. PICK o, k : o = cmd[c].o /\ k = cmd[c].k
  OBVIOUS
<1>2. /\ cmd[c].at = "started" /\ o \in 1..Len(objs) /\ k \in 1..Len(procs)
      /\ cur' = cur /\ KeepProcs /\ CmdOnly(c) /\ cmd'[c].at = "connecting"
      /\ ObjOnly(o) /\ objs'[o].adapter = objs[o].adapter /\ objs'[o].status = Held(o)
  BY <1>1, ConnectEffect
<1>3. cur = o /\ objs[o].adapter = k /\ procs[k].by = c
  BY <1>1, <1>2 DEF SessionInv, StatusInv, Start, StartedBy, StartsUp
<1>4. \A d \in Commands : d # c => cmd'[d].at \notin Busy
  BY SessionConnect
<1>5. LaunchedStatus'
  <2> SUFFICES ASSUME NEW a, a = objs'[cur'].adapter, procs'[a].by \in Launches
               PROVE  objs'[cur'].status = "stopped" <=> procs'[a].st \notin {"starting", "up"}
    BY StatusPrimed
  <2>1. a = k /\ c \in Launches
    BY <1>2, <1>3 DEF KeepProcs
  <2>2. /\ procs[k].st \in {"up", "closing", "gone"}
        /\ objs[o].held = "stopped" <=> procs[k].st # "up"
    BY <1>1, <1>2, <2>1 DEF StatusInv, HeldEnd
  <2>3. objs'[o].status = "stopped" <=> procs[k].st # "up"
    BY <1>2, <2>2 DEF Held, None
  <2> QED
    BY <1>2, <1>3, <2>1, <2>2, <2>3 DEF KeepProcs
<1>6. HeldEnd(c)' /\ NotStopped(c)' /\ StartedBy(c)'
  BY <1>2 DEF HeldEnd, NotStopped, StartedBy, Begins, StartsUp
<1>7. SameStops /\ SameBegins
  BY <1>2 DEF SameStops, SameBegins, CmdOnly, Commands, Begins
<1>8. \A p \in 1..Len(objs) : SameAdapter(p)
  BY <1>2, SameAdapters DEF ObjOnly
<1>9. \A s \in Stops : StopsOwn(s)'
  BY <1>2, <1>7, <1>8, StopsKept DEF KeepProcs
<1> QED
  BY <1>4, <1>5, <1>6, <1>9, StatusOne

LEMMA StatusLaunch ==
  ASSUME Base, OneAtATime, SessionInv, StatusInv, NEW c \in Commands, Launch(c)
  PROVE  StatusInv'
<1> USE DEF Base
<1>1. PICK n : n = Len(objs) + 1
  OBVIOUS
<1>2. /\ cur' = n /\ KeepProcs /\ CmdOnly(c) /\ cmd'[c].at = "reporting" /\ cmd'[c].o = n
      /\ \A p \in 1..Len(objs) : objs'[p] = objs[p]
      /\ objs'[n].adapter = 0 /\ objs'[n].status = "starting" /\ Len(objs) \in Nat
  BY <1>1, LaunchEffect, CoreFacts
<1>3. \A d \in Commands : d # c => cmd'[d].at \notin Busy
  BY SessionLaunch
<1>4. LaunchedStatus'
  BY <1>2, StatusVacuous
<1>5. HeldEnd(c)' /\ NotStopped(c)' /\ StartedBy(c)'
  BY <1>2 DEF HeldEnd, NotStopped, StartedBy, Begins, StartsUp
<1>6. SameStops /\ SameBegins
  BY <1>1, <1>2 DEF SameStops, SameBegins, CmdOnly, Commands, Begins
<1>7. \A p \in 1..Len(objs) : SameAdapter(p)
  BY <1>2, SameAdapters
<1>8. \A s \in Stops : StopsOwn(s)'
  BY <1>2, <1>6, <1>7, StopsKept DEF KeepProcs
<1> QED
  BY <1>3, <1>4, <1>5, <1>8, StatusOne

LEMMA StatusResume ==
  ASSUME Base, OneAtATime, SessionInv, StatusInv, NEW c \in Commands, Resume(c)
  PROVE  StatusInv'
<1> USE DEF Base
<1>1. PICK o, k : o = cur' /\ k = Len(procs) + 1
  OBVIOUS
<1>2. /\ c \in Resumes /\ CmdOnly(c) /\ cmd'[c].at = "starting" /\ cmd'[c].o = o /\ cmd'[c].k = k
      /\ procs'[k].by = c /\ \A j \in 1..Len(procs) : procs'[j] = procs[j]
      /\ objs'[o].adapter = k /\ ~objs'[o].connected
      /\ \A p \in 1..Len(objs) : p # o => objs'[p] = objs[p]
  BY <1>1, ResumeEffect
<1>3. c \notin Launches /\ c \notin Stops
  BY <1>2, DaemonAssumption
<1>4. \A d \in Commands : d # c => cmd'[d].at \notin Busy
  BY SessionResume
<1>5. LaunchedStatus'
  BY <1>1, <1>2, StatusVacuous
<1>6. StartedBy(c)'
  BY <1>2 DEF StartedBy
<1>7. SameStops /\ SameBegins
  BY <1>2 DEF SameStops, SameBegins, CmdOnly, Commands, Begins
<1>8. ASSUME NEW p \in 1..Len(objs) PROVE SameAdapter(p)
  <2>1. CASE p = o
    BY <1>2, <1>3, <2>1 DEF SameAdapter
  <2>2. CASE p # o
    <3>1. Len(procs) \in Nat
      BY CoreFacts
    <3>2. objs[p].adapter \in 0..Len(procs)
      BY <3>1, AdapterStarted
    <3> QED
      BY <1>2, <2>2, <3>2 DEF SameAdapter
  <2> QED
    BY <2>1, <2>2
<1>9. \A s \in Stops : StopsOwn(s)'
  BY <1>2, <1>7, <1>8, StopsKept
<1> QED
  BY <1>3, <1>4, <1>5, <1>6, <1>9, StatusOne

\* The runtime of the session reports a status, or that it ended.
LEMMA StatusTells ==
  ASSUME Base, OneAtATime, SessionInv, StatusInv, NEW k \in DOMAIN procs,
         RuntimeStatus(k) \/ RuntimeEnds(k)
  PROVE  StatusInv'
<1> USE DEF Base
<1>1. PICK o : o = procs[k].o
  OBVIOUS
<1>2. /\ k \in 1..Len(procs) /\ procs[k].st = "up" /\ cmd' = cmd /\ cur' = cur /\ ProcOnly(k)
      /\ \/ procs'[k].st = "up" /\ \E s \in Connected : ToldEffect(o, k, s)
         \/ /\ procs'[k].st \in {"gone", "closing"}
            /\ IF objs[o].status # "stopped" THEN ToldEffect(o, k, "stopped") ELSE objs' = objs
  BY <1>1, RuntimeStatusEffect, RuntimeEndsEffect DEF KeepProcs, ProcOnly, CoreTypes
<1>3. /\ cur # 0 /\ cur \in 1..Len(objs) /\ objs[cur].adapter = k /\ o = cur
      /\ \A c \in Commands : cmd[c].at \in Busy => cmd[c].at = "started" /\ cmd[c].k = k /\ cmd[c].o = cur
  BY <1>1, <1>2, UpIsOwn
<1>4. \A p \in 1..Len(objs) : objs'[p].adapter = objs[p].adapter
  BY <1>2, <1>3 DEF ToldEffect, ObjOnly
<1>5. \A s \in Connected : s # "stopped"
  BY DEF Connected
<1>6. LaunchedStatus'
  <2> SUFFICES ASSUME NEW a, a = objs'[cur'].adapter, objs'[cur'].connected
               PROVE  objs'[cur'].status = "stopped" <=> procs'[a].st \notin {"starting", "up"}
    BY StatusPrimed
  <2>1. a = k
    BY <1>2, <1>3, <1>4
  <2> QED
    BY <1>2, <1>3, <1>5, <2>1 DEF ToldEffect
<1>7. ASSUME NEW c \in Launches PROVE HeldEnd(c)' /\ NotStopped(c)'
  <2>0. c \in Commands
    BY DEF Commands
  <2>1. CASE cmd[c].at \in Busy
    <3>1. cmd[c].at = "started" /\ cmd[c].k = k /\ cmd[c].o = o
      BY <1>3, <2>0, <2>1
    <3>2. ~objs[o].connected /\ objs[o].status # "stopped"
      BY <1>2, <2>0, <3>1 DEF SessionInv, Start, StatusInv, NotStopped, StartsUp
    <3>3. /\ objs'[o].status = objs[o].status
          /\ objs'[o].held = "stopped" <=> procs'[k].st # "up"
      BY <1>2, <1>5, <3>2 DEF ToldEffect
    <3> QED
      BY <1>2, <3>1, <3>2, <3>3 DEF HeldEnd, NotStopped
  <2>2. CASE cmd[c].at \notin Busy
    BY <1>2, <2>2 DEF HeldEnd, NotStopped, Busy, StartsUp
  <2> QED
    BY <2>1, <2>2
<1>8. ASSUME NEW c \in Commands PROVE StartedBy(c)'
  <2>1. cmd[c].at \in StartsUp => cmd[c].k \in 1..Len(procs)
    BY BusyCaptured
  <2> QED
    BY <1>2, <2>1 DEF StatusInv, StartedBy, ProcOnly
<1>9. SameStops /\ SameBegins
  BY <1>2 DEF SameStops, SameBegins
<1>10. \A p \in 1..Len(objs) : SameAdapter(p)
  BY <1>4, SameAdapters
<1>11. \A s \in Stops : StopsOwn(s)'
  BY <1>2, <1>9, <1>10, StopsKept DEF ProcOnly
<1> QED
  BY <1>6, <1>7, <1>8, <1>11 DEF StatusInv

LEMMA StatusStep == Base /\ OneAtATime /\ SessionInv /\ StatusInv /\ [Next]_vars => StatusInv'
<1> SUFFICES ASSUME Base, OneAtATime, SessionInv, StatusInv, [Next]_vars PROVE StatusInv'
  OBVIOUS
<1>0. CoreTypes /\ Waiters
  BY DEF Base
<1>1. CASE Restart \/ UNCHANGED vars
  <2>1. QuietParts /\ SameStatuses /\ SameStops
    BY <1>1, RestEffect DEF QuietParts, KeepObjs, KeepProcs, SameStarts, SameObjects, SameStates,
                            SameStatuses, SameStops
  <2> QED
    BY <1>0, <2>1, StatusQuiet
<1>2. CASE \E c \in Commands : Issue(c) \/ Handle(c) \/ Continue(c) \/ StartFails(c)
  <2>1. PICK c \in Commands : Issue(c) \/ Handle(c) \/ Continue(c) \/ StartFails(c)
    BY <1>2
  <2>2. CASE QuietFor(c)
    BY <2>2, StatusCommand
  <2>3. CASE ~QuietFor(c)
    BY <2>1, <2>3, StatusState, StatusStart, StatusStartFails, StatusUndone, StatusConnect,
       StatusLaunch, StatusResume DEF QuietFor, Ends, Handle, Continue
  <2> QED
    BY <2>2, <2>3
<1>3. CASE \E o \in DOMAIN objs : ReportDelivered(o) \/ ReportFails(o) \/ ReportRefused(o)
  BY <1>3, StatusReport
<1>4. CASE \E k \in DOMAIN procs : Prompt(k) \/ RuntimeStatus(k) \/ RuntimeEnds(k) \/ ProcessExits(k)
  <2>1. PICK k \in DOMAIN procs : Prompt(k) \/ RuntimeStatus(k) \/ RuntimeEnds(k) \/ ProcessExits(k)
    BY <1>4
  <2>2. CASE Prompt(k) \/ ProcessExits(k)
    <3>1. SameStatuses /\ SameStops
      BY <1>0, <2>2, RestEffect, ProcessExitsEffect DEF SameStatuses, SameStops, KeepObjs
    <3> QED
      BY <1>0, <2>2, <3>1, QuietRuntime, StatusQuiet
  <2>3. CASE RuntimeStatus(k) \/ RuntimeEnds(k)
    BY <2>3, StatusTells
  <2> QED
    BY <2>1, <2>2, <2>3
<1>5. CASE Crash
  <2>1. cur' = 0 /\ \A c \in Commands : cmd'[c].at = "idle"
    BY <1>0, <1>5, CrashEffect
  <2>2. \A c \in Commands : HeldEnd(c)' /\ NotStopped(c)' /\ StartedBy(c)' /\ StopsOwn(c)'
    BY <2>1 DEF HeldEnd, NotStopped, StartedBy, StopsOwn, Begins, StartsUp
  <2> QED
    BY <2>1, <2>2, StatusVacuous DEF StatusInv, Commands
<1> QED
  BY <1>1, <1>2, <1>3, <1>4, <1>5 DEF Next

LEMMA StatusInit == Init => StatusInv
<1> SUFFICES ASSUME Init PROVE StatusInv
  OBVIOUS
<1>1. cur = 0 /\ \A c \in Commands : cmd[c].at = "idle"
  BY IdleHandler DEF Init
<1>2. \A c \in Commands : HeldEnd(c) /\ NotStopped(c) /\ StartedBy(c) /\ StopsOwn(c)
  BY <1>1 DEF HeldEnd, NotStopped, StartedBy, StopsOwn, Begins, StartsUp
<1> QED
  BY <1>1, <1>2 DEF StatusInv, LaunchedStatus, StatusOf, Commands

-----------------------------------------------------------------------------
(* The mode of a runtime comes before its connected statuses                 *)

\* A report that joins tells a mode, or no connected status.
NoBare ==
    \A o \in 1..Len(objs') : \A i \in 1..Len(objs'[o].reports) :
        \/ o \in 1..Len(objs) /\ i \in 1..Len(objs[o].reports)
        \/ objs'[o].reports[i].mode
        \/ objs'[o].reports[i].status \notin Connected

SameTold == modes \subseteq modes' /\ denied \subseteq denied'

\* A mode that was to come still is, when the reports wait at their place.
LEMMA ComesKept ==
  ASSUME CoreTypes, ReportsKept, SameTold, NEW o \in 1..Len(objs), NEW n \in Nat,
         n <= Len(objs[o].reports), NEW m \in Nat, n <= m, NEW k, Told1(k) \/ ModeComes(o, n, k)
  PROVE  Told1(k)' \/ ModeComes(o, m, k)'
<1>1. CASE Told1(k)
  BY <1>1 DEF Told1, SameTold
<1>2. CASE ModeComes(o, n, k)
  <2>1. PICK j \in 1..n : objs[o].reports[j].mode /\ objs[o].reports[j].k = k
    BY <1>2 DEF ModeComes
  <2>2. Len(objs[o].reports) \in Nat
    BY ReportTypes
  <2>3. j \in 1..Len(objs[o].reports) /\ j \in 1..m
    BY <2>2
  <2>4. objs'[o].reports[j] = objs[o].reports[j]
    BY <2>3 DEF ReportsKept
  <2> QED
    BY <2>1, <2>3, <2>4 DEF ModeComes
<1> QED
  BY <1>1, <1>2

\* A report that waits at its place.
LEMMA BareKept ==
  ASSUME CoreTypes, BareComes, ReportsKept, SameTold,
         NEW o \in 1..Len(objs), NEW i \in 1..Len(objs[o].reports),
         objs'[o].reports[i].status \in Connected, ~objs'[o].reports[i].mode,
         NEW k, k = objs'[o].reports[i].k
  PROVE  Told1(k)' \/ ModeComes(o, i - 1, k)'
<1>1. objs'[o].reports[i] = objs[o].reports[i]
  BY DEF ReportsKept
<1>2. Told1(k) \/ ModeComes(o, i - 1, k)
  BY <1>1 DEF BareComes
<1>3. Len(objs[o].reports) \in Nat
  BY ReportTypes
<1>4. i - 1 \in Nat /\ i - 1 <= Len(objs[o].reports)
  BY <1>3
<1> QED
  BY <1>2, <1>4, ComesKept

LEMMA BareNext ==
  ASSUME \A o \in 1..Len(objs') : \A i \in 1..Len(objs'[o].reports) : \A k :
            /\ objs'[o].reports[i].status \in Connected /\ ~objs'[o].reports[i].mode
            /\ k = objs'[o].reports[i].k
            => Told1(k)' \/ ModeComes(o, i - 1, k)'
  PROVE  BareComes'
BY DEF BareComes

LEMMA BareSame ==
  ASSUME CoreTypes, BareComes, ReportsKept, NoBare, SameTold
  PROVE  BareComes'
<1> SUFFICES ASSUME NEW o \in 1..Len(objs'), NEW i \in 1..Len(objs'[o].reports), NEW k,
                    objs'[o].reports[i].status \in Connected, ~objs'[o].reports[i].mode,
                    k = objs'[o].reports[i].k
             PROVE  Told1(k)' \/ ModeComes(o, i - 1, k)'
  BY BareNext
<1>1. o \in 1..Len(objs) /\ i \in 1..Len(objs[o].reports)
  BY DEF NoBare
<1> QED
  BY <1>1, BareKept

LEMMA UpNext ==
  ASSUME \A o, k, n : /\ cur' # 0 /\ o = cur' /\ objs'[o].connected /\ k = objs'[o].adapter
                      /\ k # 0 /\ procs'[k].st = "up" /\ n = Len(objs'[o].reports)
                      => Told1(k)' \/ ModeComes(o, n, k)'
  PROVE  UpTold'
<1> DEFINE N == Len(objs[cur].reports)
<1> DEFINE K == objs[cur].adapter
<1> SUFFICES ASSUME cur' # 0, objs'[cur'].connected, K' # 0, procs'[K'].st = "up"
             PROVE  Told1(K)' \/ ModeComes(cur, N, K)'
  BY DEF UpTold
<1>1. PICK o, k, n : o = cur' /\ k = K' /\ n = N'
  OBVIOUS
<1>2. Told1(k)' \/ ModeComes(o, n, k)'
  BY <1>1
<1> QED
  BY <1>1, <1>2 DEF Told1, ModeComes

LEMMA UpVacuous ==
  ASSUME cur' = 0 \/ ~objs'[cur'].connected \/ objs'[cur'].adapter = 0
  PROVE  UpTold'
BY DEF UpTold

\* The session is as connected as it was, and its reports wait at their place.
LEMMA UpSame ==
  ASSUME CoreTypes, CoreTypes', UpTold, cur' = cur, ReportsKept, SameTold,
         \A o \in 1..Len(objs) : objs'[o].adapter = objs[o].adapter /\ objs'[o].connected = objs[o].connected,
         \A k \in 1..Len(procs) : procs'[k].st = "up" => procs[k].st = "up"
  PROVE  UpTold'
<1> SUFFICES ASSUME NEW o, NEW k, NEW n, cur' # 0, o = cur', objs'[o].connected,
                    k = objs'[o].adapter, k # 0, procs'[k].st = "up", n = Len(objs'[o].reports)
             PROVE  Told1(k)' \/ ModeComes(o, n, k)'
  BY UpNext
<1>1. o = cur /\ o \in 1..Len(objs)
  BY CoreFacts
<1>2. k = objs[o].adapter /\ objs[o].connected
  BY <1>1
<1>3. k \in 1..Len(procs)
  BY <1>1, <1>2, AdapterStarted
<1>4. Told1(k) \/ ModeComes(o, Len(objs[o].reports), k)
  BY <1>1, <1>2, <1>3 DEF UpTold
<1>5. Len(objs[o].reports) \in Nat /\ n \in Nat /\ Len(objs[o].reports) <= n
  <2>1. Len(objs[o].reports) \in Nat
    BY <1>1, ReportTypes
  <2>2. o \in 1..Len(objs')
    BY <1>1 DEF ReportsKept
  <2>3. n \in Nat
    <3>1. objs' \in Seq(Managed)
      BY DEF CoreTypes
    <3>2. objs'[o] \in Managed
      BY <2>2, <3>1
    <3> QED
      BY <3>2 DEF Managed
  <2>4. ASSUME Len(objs[o].reports) # 0 PROVE Len(objs[o].reports) \in 1..n
    BY <1>1, <2>1, <2>4 DEF ReportsKept
  <2> QED
    BY <2>1, <2>3, <2>4
<1> QED
  BY <1>1, <1>4, <1>5, ComesKept

LEMMA NoBareSame ==
  ASSUME CoreTypes, Len(objs') = Len(objs), \A o \in 1..Len(objs) : objs'[o].reports = objs[o].reports
  PROVE  NoBare
BY DEF NoBare

LEMMA NoBareGains ==
  ASSUME CoreTypes, NEW o \in 1..Len(objs), ObjOnly(o), NEW r, Gains(o, r),
         r.mode \/ r.status \notin Connected
  PROVE  NoBare
<1>1. Len(objs[o].reports) \in Nat
  BY ReportTypes
<1>2. SUFFICES ASSUME NEW p \in 1..Len(objs'), NEW i \in 1..Len(objs'[p].reports)
               PROVE  \/ p \in 1..Len(objs) /\ i \in 1..Len(objs[p].reports)
                      \/ objs'[p].reports[i].mode
                      \/ objs'[p].reports[i].status \notin Connected
  BY DEF NoBare
<1>3. p \in 1..Len(objs)
  BY DEF ObjOnly
<1>4. CASE p # o
  BY <1>3, <1>4 DEF ObjOnly
<1>5. CASE p = o
  <2>1. i \in 1..Len(objs[o].reports) \/ i = Len(objs[o].reports) + 1
    BY <1>1, <1>5 DEF Gains
  <2> QED
    BY <1>3, <1>5, <2>1 DEF Gains
<1> QED
  BY <1>4, <1>5

LEMMA NoBareCommand ==
  ASSUME CoreTypes, NEW c \in Commands, Handle(c) \/ Continue(c) \/ Issue(c) \/ StartFails(c)
  PROVE  NoBare
<1>1. CASE Issue(c) \/ DeliverDone(c) \/ RegisterNative(c) \/ Spawn(c)
  <2>1. objs' = objs
    BY <1>1 DEF Issue, DeliverDone, RegisterNative, Spawn, daemon
  <2> QED
    BY <2>1, NoBareSame
<1>2. CASE Ends(c) \/ Stop(c) \/ AdapterStarts(c)
  <2>1. KeepObjs
    BY <1>2, EndsEffect, StopEffect, StateEffect
  <2> QED
    BY <2>1, NoBareSame DEF KeepObjs
<1>3. CASE StartAdapter(c) \/ StartFails(c) \/ ResumeFailed(c)
  <2> DEFINE o == cmd[c].o
  <2>1. objs' = objs \/ (ObjOnly(o) /\ objs'[o].reports = objs[o].reports)
    BY <1>3, StartAdapterEffect, StartFailsEffect, ResumeFailedEffect
  <2> HIDE DEF o
  <2> QED
    BY <2>1, NoBareSame DEF ObjOnly
<1>4. CASE Resume(c)
  <2> DEFINE o == cur'
  <2>1. /\ \A p \in 1..Len(objs) : p # o => objs'[p] = objs[p]
        /\ \/ cur # 0 /\ o = cur /\ Len(objs') = Len(objs) /\ objs'[o].reports = objs[o].reports
           \/ cur = 0 /\ o = Len(objs) + 1 /\ Len(objs') = o /\ objs'[o].reports = <<>>
    BY <1>4, ResumeEffect
  <2>2. Len(objs) \in Nat
    BY CoreFacts
  <2> HIDE DEF o
  <2>3. ASSUME NEW p \in 1..Len(objs'), NEW i \in 1..Len(objs'[p].reports)
        PROVE  p \in 1..Len(objs) /\ i \in 1..Len(objs[p].reports)
    BY <2>1, <2>2
  <2> QED
    BY <2>3 DEF NoBare
<1>5. CASE Launch(c)
  <2>1. PICK n : n = Len(objs) + 1
    OBVIOUS
  <2>2. /\ Len(objs') = n /\ \A p \in 1..Len(objs) : objs'[p] = objs[p]
        /\ Len(objs'[n].reports) = 1 /\ objs'[n].reports[1] = Rep("starting", 0, c, FALSE)
        /\ Len(objs) \in Nat
    BY <1>5, <2>1, LaunchEffect, CoreFacts
  <2>3. objs'[n].reports[1].status \notin Connected
    BY <2>2 DEF Rep, Connected
  <2>4. ASSUME NEW p \in 1..Len(objs'), NEW i \in 1..Len(objs'[p].reports)
        PROVE  \/ p \in 1..Len(objs) /\ i \in 1..Len(objs[p].reports)
               \/ p = n /\ i = 1
    <3>1. CASE p = n
      <4>1. i \in 1..1
        BY <2>2, <3>1
      <4> QED
        BY <3>1, <4>1
    <3>2. CASE p # n
      <4>1. p \in 1..Len(objs)
        BY <2>1, <2>2, <3>2
      <4>2. objs'[p] = objs[p]
        BY <2>2, <4>1
      <4> QED
        BY <4>1, <4>2
    <3> QED
      BY <3>1, <3>2
  <2> QED
    BY <2>3, <2>4 DEF NoBare
<1>6. CASE LaunchFailed(c) \/ Connect(c) \/ StopApplied(c)
  <2> DEFINE o == cmd[c].o
  <2> DEFINE k == cmd[c].k
  <2>1. PICK r \in {Rep("failed", k, c, FALSE), Rep(Held(o), k, c, TRUE), Rep("stopped", k, c, FALSE)} :
           o \in 1..Len(objs) /\ ObjOnly(o) /\ Gains(o, r)
    BY <1>6, LaunchFailedEffect, ConnectEffect, StopAppliedEffect
  <2>2. r.mode \/ r.status \notin Connected
    BY DEF Rep, Connected
  <2> HIDE DEF o
  <2> QED
    BY <2>1, <2>2, NoBareGains
<1> QED
  BY <1>1, <1>2, <1>3, <1>4, <1>5, <1>6 DEF Handle, Continue, Ends

LEMMA ModeCommand ==
  ASSUME Types, Base, OneAtATime, SessionInv, ModeInv, NEW c \in Commands,
         Handle(c) \/ Continue(c) \/ Issue(c) \/ StartFails(c)
  PROVE  ModeInv'
<1> USE DEF Base
<1>1. UNCHANGED ghost
  BY OthersCommand DEF Types
<1>2. SameTold /\ bare' \subseteq denied'
  BY <1>1 DEF ghost, SameTold, ModeInv
<1>3. ReportsKept /\ NoBare
  BY CommandKeepsReports, NoBareCommand
<1>4. BareComes'
  BY <1>2, <1>3, BareSame DEF ModeInv
<1>5. CoreTypes'
  BY CoreCommand
<1>6. CASE QuietFor(c)
  <2>1. QuietParts
    BY <1>6, QuietCommand
  <2>2. \A k \in 1..Len(procs) : procs'[k].st = "up" => procs[k].st = "up"
    BY <2>1 DEF QuietParts, SameStates
  <2>3. UpTold'
    BY <1>2, <1>3, <1>5, <2>1, <2>2, UpSame DEF ModeInv, QuietParts, SameObjects
  <2> QED
    BY <1>2, <1>4, <2>3 DEF ModeInv
<1>7. CASE Spawn(c) \/ AdapterStarts(c) \/ StartAdapter(c) \/ StartFails(c)
  <2>1. PICK o : o = cmd[c].o
    OBVIOUS
  <2>2. cmd[c].at \in Begins \cup StartsUp /\ cur' = cur /\ objs'[o].connected = objs[o].connected
    BY <1>7, <2>1, StateEffect, StartAdapterEffect, StartFailsEffect DEF KeepObjs, Begins, StartsUp
  <2>3. cur = o /\ ~objs[o].connected
    BY <2>1, <2>2 DEF SessionInv, Start
  <2>4. UpTold'
    BY <2>2, <2>3, UpVacuous
  <2> QED
    BY <1>2, <1>4, <2>4 DEF ModeInv
<1>8. CASE LaunchFailed(c) \/ ResumeFailed(c)
  <2>1. PICK o : o = cmd[c].o
    OBVIOUS
  <2>2. cmd[c].at = "failing" /\ (cur' = 0 \/ (cur' = cur /\ objs'[o].adapter = objs[o].adapter))
    BY <1>8, <2>1, LaunchFailedEffect, ResumeFailedEffect
  <2>3. cur = o /\ objs[o].adapter = 0
    BY <2>1, <2>2 DEF SessionInv, Start
  <2>4. UpTold'
    BY <2>2, <2>3, UpVacuous
  <2> QED
    BY <1>2, <1>4, <2>4 DEF ModeInv
<1>9. CASE Launch(c) \/ Resume(c)
  <2>1. ~objs'[cur'].connected
    BY <1>9, LaunchEffect, ResumeEffect
  <2> QED
    BY <1>2, <1>4, <2>1, UpVacuous DEF ModeInv
<1>10. CASE Connect(c)
  <2>1. PICK o, k, r, n : /\ o = cmd[c].o /\ k = cmd[c].k /\ r = Rep(Held(o), k, c, TRUE)
                          /\ n = Len(objs'[o].reports)
    OBVIOUS
  <2>2. /\ cmd[c].at = "started" /\ o \in 1..Len(objs) /\ cur' = cur
        /\ Gains(o, r) /\ objs'[o].adapter = objs[o].adapter
    BY <1>10, <2>1, ConnectEffect
  <2>3. cur = o /\ objs[o].adapter = k
    BY <2>1, <2>2 DEF SessionInv, Start, StartsUp
  <2>4. ModeComes(o, n, k)'
    <3>1. Len(objs[o].reports) \in Nat
      BY <2>2, ReportTypes
    <3>2. n \in 1..n /\ objs'[o].reports[n] = r
      BY <2>1, <2>2, <3>1 DEF Gains
    <3>3. r.mode /\ r.k = k
      BY <2>1 DEF Rep
    <3> QED
      BY <3>2, <3>3 DEF ModeComes
  <2>5. UpTold'
    BY <2>1, <2>2, <2>3, <2>4, UpNext
  <2> QED
    BY <1>2, <1>4, <2>5 DEF ModeInv
<1> QED
  BY <1>6, <1>7, <1>8, <1>9, <1>10 DEF QuietFor, Ends, Handle, Continue

\* The first report of o was attempted: once it is gone, its mode is known, or refused.
LEMMA ModeAttempted ==
  ASSUME CoreTypes, BareComes, NEW o \in DOMAIN objs,
         ReportDelivered(o) \/ ReportFails(o) \/ ReportRefused(o)
  PROVE  LET r == objs[o].reports[1] IN
         /\ o \in 1..Len(objs) /\ r \in Report /\ ObjOnly(o) /\ SameFields(o) /\ SameTold
         /\ bare' = bare \/ (bare' = bare \cup {r.k} /\ r.k \in denied)
         /\ \/ Loses(o) /\ (r.mode => r.k \in modes' \cup denied')
            \/ Repeats(o)
<1> DEFINE r == objs[o].reports[1]
<1>1. /\ o \in 1..Len(objs) /\ r \in Report /\ ObjOnly(o) /\ SameFields(o)
      /\ Len(objs[o].reports) \in Nat \ {0} /\ (Loses(o) \/ Repeats(o))
  BY ReportEffect
<1>2. objs[o].reports # <<>> /\ Head(objs[o].reports) = r
  BY <1>1, Attempted, CoreFacts DEF ReportDelivered, ReportFails, ReportRefused
<1>3. r.status \in Connected /\ ~r.mode => Told1(r.k)
  BY <1>1 DEF BareComes, ModeComes
<1>4. SameTold
  BY DEF ReportDelivered, ReportFails, ReportRefused, Show, SameTold
<1>5. bare' = bare \/ (bare' = bare \cup {r.k} /\ r.k \in denied)
  BY <1>2, <1>3 DEF ReportDelivered, ReportFails, ReportRefused, Show, Told1
<1>6. (Loses(o) /\ (r.mode => r.k \in modes' \cup denied')) \/ Repeats(o)
  <2>1. CASE ReportDelivered(o)
    <3>1. r.mode => r.k \in modes'
      BY <1>2, <2>1 DEF ReportDelivered, Show
    <3> QED
      BY <1>1, <3>1
  <2>2. CASE ReportFails(o)
    <3>1. r.mode => Retry(o, r)
      BY <1>2, <2>2 DEF ReportFails
    <3>2. Retry(o, r) => Repeats(o)
      BY <1>1, <1>2, Attempted, CoreFacts
    <3> QED
      BY <1>1, <3>1, <3>2
  <2>3. CASE ReportRefused(o)
    <3>1. r.k \in denied'
      BY <1>2, <2>3 DEF ReportRefused
    <3> QED
      BY <1>1, <3>1
  <2> QED
    BY <2>1, <2>2, <2>3
<1> QED
  BY <1>1, <1>4, <1>5, <1>6

\* A mode that was to come still is, one place sooner if the first report is gone.
LEMMA ComesSooner ==
  ASSUME CoreTypes, NEW o \in 1..Len(objs), ObjOnly(o), SameTold, Loses(o),
         objs[o].reports[1].mode => objs[o].reports[1].k \in modes' \cup denied',
         NEW n \in Nat, n <= Len(objs[o].reports), NEW k, Told1(k) \/ ModeComes(o, n, k)
  PROVE  Told1(k)' \/ ModeComes(o, n - 1, k)'
<1>1. CASE Told1(k)
  BY <1>1 DEF Told1, SameTold
<1>2. CASE ModeComes(o, n, k)
  <2>1. PICK j \in 1..n : objs[o].reports[j].mode /\ objs[o].reports[j].k = k
    BY <1>2 DEF ModeComes
  <2>2. CASE j = 1
    BY <2>1, <2>2 DEF Told1
  <2>3. CASE j # 1
    <3>1. j - 1 \in 1..(n - 1) /\ j - 1 \in 1..(Len(objs[o].reports) - 1) /\ (j - 1) + 1 = j
      BY <2>3 DEF Loses
    <3>2. objs'[o].reports[j - 1] = objs[o].reports[j]
      BY <3>1 DEF Loses
    <3> QED
      BY <2>1, <3>1, <3>2 DEF ModeComes
  <2> QED
    BY <2>2, <2>3
<1> QED
  BY <1>1, <1>2

LEMMA RepeatsAt ==
  ASSUME NEW o \in 1..Len(objs), objs[o].reports[1] \in Report, Repeats(o),
         NEW i \in 1..Len(objs[o].reports)
  PROVE  /\ objs'[o].reports[i].mode = objs[o].reports[i].mode
         /\ objs'[o].reports[i].k = objs[o].reports[i].k
         /\ objs'[o].reports[i].status = objs[o].reports[i].status
<1>1. CASE i = 1
  BY <1>1 DEF Repeats, Report
<1>2. CASE i # 1
  BY <1>2 DEF Repeats
<1> QED
  BY <1>1, <1>2

LEMMA ComesAgain ==
  ASSUME CoreTypes, NEW o \in 1..Len(objs), SameTold, Repeats(o), objs[o].reports[1] \in Report,
         NEW n \in Nat, n <= Len(objs[o].reports), NEW k, Told1(k) \/ ModeComes(o, n, k)
  PROVE  Told1(k)' \/ ModeComes(o, n, k)'
<1>1. CASE Told1(k)
  BY <1>1 DEF Told1, SameTold
<1>2. CASE ModeComes(o, n, k)
  <2>1. PICK j \in 1..n : objs[o].reports[j].mode /\ objs[o].reports[j].k = k
    BY <1>2 DEF ModeComes
  <2>2. j \in 1..Len(objs[o].reports)
    BY DEF Repeats
  <2> QED
    BY <2>1, <2>2, RepeatsAt DEF ModeComes
<1> QED
  BY <1>1, <1>2

LEMMA ModeReport ==
  ASSUME Base, ModeInv, NEW o \in DOMAIN objs,
         ReportDelivered(o) \/ ReportFails(o) \/ ReportRefused(o)
  PROVE  ModeInv'
<1> USE DEF Base
<1>1. PICK r, l : r = objs[o].reports[1] /\ l = Len(objs[o].reports)
  OBVIOUS
<1>2. /\ o \in 1..Len(objs) /\ r \in Report /\ ObjOnly(o) /\ SameFields(o) /\ SameTold
      /\ bare' = bare \/ (bare' = bare \cup {r.k} /\ r.k \in denied)
      /\ (Loses(o) /\ (r.mode => r.k \in modes' \cup denied')) \/ Repeats(o)
  BY <1>1, ModeAttempted DEF ModeInv
<1>3. bare' \subseteq denied'
  BY <1>2 DEF ModeInv, SameTold
<1>4. l \in Nat /\ 0 < l
  BY <1>1, <1>2 DEF Loses, Repeats
<1>5. BareComes'
  <2> SUFFICES ASSUME NEW p \in 1..Len(objs'), NEW i \in 1..Len(objs'[p].reports), NEW k,
                      objs'[p].reports[i].status \in Connected, ~objs'[p].reports[i].mode,
                      k = objs'[p].reports[i].k
               PROVE  Told1(k)' \/ ModeComes(p, i - 1, k)'
    BY BareNext
  <2>1. p \in 1..Len(objs)
    BY <1>2 DEF ObjOnly
  <2>2. CASE p # o
    <3>1. objs'[p] = objs[p]
      BY <1>2, <2>1, <2>2 DEF ObjOnly
    <3>2. Told1(k) \/ ModeComes(p, i - 1, k)
      BY <2>1, <3>1 DEF ModeInv, BareComes
    <3> QED
      BY <1>2, <3>1, <3>2 DEF Told1, SameTold, ModeComes
  <2>3. CASE p = o /\ Loses(o)
    <3>1. /\ i \in 1..(l - 1) /\ i + 1 \in 1..l /\ (i + 1) - 1 = i /\ i \in Nat /\ i <= l
          /\ objs'[o].reports[i] = objs[o].reports[i + 1]
      BY <1>1, <1>4, <2>3, SMTT(30) DEF Loses
    <3>2. Told1(k) \/ ModeComes(o, i, k)
      <4>1. /\ objs[o].reports[i + 1].status \in Connected /\ ~objs[o].reports[i + 1].mode
            /\ k = objs[o].reports[i + 1].k
        BY <2>3, <3>1
      <4>2. Told1(k) \/ ModeComes(o, (i + 1) - 1, k)
        BY <1>1, <1>2, <3>1, <4>1 DEF ModeInv, BareComes
      <4> QED
        BY <3>1, <4>2
    <3>3. r.mode => r.k \in modes' \cup denied'
      BY <1>2, <2>3 DEF Loses, Repeats
    <3> QED
      BY <1>1, <1>2, <2>3, <3>1, <3>2, <3>3, ComesSooner
  <2>4. CASE p = o /\ Repeats(o)
    <3>1. i \in 1..l /\ i - 1 \in Nat /\ i - 1 <= l
      BY <1>1, <1>4, <2>4 DEF Repeats
    <3>2. /\ objs[o].reports[i].status \in Connected /\ ~objs[o].reports[i].mode
          /\ k = objs[o].reports[i].k
      BY <1>1, <1>2, <2>4, <3>1, RepeatsAt
    <3>3. Told1(k) \/ ModeComes(o, i - 1, k)
      BY <1>1, <1>2, <3>1, <3>2 DEF ModeInv, BareComes
    <3> QED
      BY <1>1, <1>2, <2>4, <3>1, <3>3, ComesAgain
  <2> QED
    BY <1>2, <2>2, <2>3, <2>4
<1>6. UpTold'
  <2> SUFFICES ASSUME NEW p, NEW k, NEW n, cur' # 0, p = cur', objs'[p].connected,
                      k = objs'[p].adapter, k # 0, procs'[k].st = "up", n = Len(objs'[p].reports)
               PROVE  Told1(k)' \/ ModeComes(p, n, k)'
    BY UpNext
  <2>1. cur' = cur /\ KeepProcs
    BY ReportEffect
  <2>2. p = cur /\ p \in 1..Len(objs)
    BY <2>1, CoreFacts
  <2>3. k = objs[p].adapter /\ objs[p].connected
    BY <1>2, <2>2 DEF ObjOnly, SameFields
  <2>4. Told1(k) \/ ModeComes(p, Len(objs[p].reports), k)
    BY <2>1, <2>2, <2>3 DEF ModeInv, UpTold, KeepProcs
  <2>5. CASE p # o
    BY <1>2, <2>2, <2>4, <2>5 DEF ObjOnly, Told1, SameTold, ModeComes
  <2>6. CASE p = o /\ Loses(o)
    <3>1. n = l - 1
      BY <1>1, <2>6 DEF Loses
    <3>2. r.mode => r.k \in modes' \cup denied'
      BY <1>2, <2>6 DEF Loses, Repeats
    <3>3. Told1(k) \/ ModeComes(o, l, k)
      BY <1>1, <2>4, <2>6
    <3>4. l <= Len(objs[o].reports)
      BY <1>1, <1>4
    <3>5. Told1(k)' \/ ModeComes(o, l - 1, k)'
      BY <1>1, <1>2, <1>4, <2>6, <3>2, <3>3, <3>4, ComesSooner
    <3> QED
      BY <2>6, <3>1, <3>5
  <2>7. CASE p = o /\ Repeats(o)
    <3>1. n = l
      BY <1>1, <2>7 DEF Repeats
    <3> QED
      BY <1>1, <1>2, <1>4, <2>4, <2>7, <3>1, ComesAgain
  <2> QED
    BY <1>2, <2>5, <2>6, <2>7
<1> QED
  BY <1>3, <1>5, <1>6 DEF ModeInv

LEMMA ModeTells ==
  ASSUME Base, SessionInv, ModeInv, NEW k \in DOMAIN procs, RuntimeStatus(k) \/ RuntimeEnds(k)
  PROVE  ModeInv'
<1> USE DEF Base
<1>1. /\ k \in 1..Len(procs) /\ procs[k].st = "up" /\ cur' = cur
      /\ \A j \in 1..Len(procs) : procs'[j].st = "up" => procs[j].st = "up"
  BY RuntimeStatusEffect, RuntimeEndsEffect DEF KeepProcs, ProcOnly
<1>2. cur # 0 /\ cur \in 1..Len(objs) /\ objs[cur].adapter = k /\ procs[k].o = cur
  BY <1>1, UpIsOwn
<1>3. objs' = objs \/ \E s : ToldEffect(cur, k, s)
  BY <1>2, RuntimeStatusEffect, RuntimeEndsEffect
<1>4. UNCHANGED ghost
  BY DEF RuntimeStatus, RuntimeEnds
<1>5. SameTold /\ bare' \subseteq denied' /\ ReportsKept /\ CoreTypes'
  BY <1>4, RuntimeKeepsReports, CoreRuntime DEF ghost, SameTold, ModeInv
<1>6. UpTold'
  BY <1>1, <1>2, <1>3, <1>5, UpSame DEF ModeInv, ToldEffect, ObjOnly
<1>7. BareComes'
  <2> SUFFICES ASSUME NEW p \in 1..Len(objs'), NEW i \in 1..Len(objs'[p].reports), NEW j,
                      objs'[p].reports[i].status \in Connected, ~objs'[p].reports[i].mode,
                      j = objs'[p].reports[i].k
               PROVE  Told1(j)' \/ ModeComes(p, i - 1, j)'
    BY BareNext
  <2>1. CASE p \in 1..Len(objs) /\ i \in 1..Len(objs[p].reports)
    BY <1>5, <2>1, BareKept DEF ModeInv
  <2>2. CASE ~(p \in 1..Len(objs) /\ i \in 1..Len(objs[p].reports))
    <3>1. PICK s : ToldEffect(cur, k, s)
      BY <1>3, <2>2
    <3>2. p \in 1..Len(objs)
      BY <3>1 DEF ToldEffect, ObjOnly
    <3>3. p = cur
      BY <2>2, <3>1, <3>2 DEF ToldEffect, ObjOnly
    <3>4. objs[cur].connected /\ Gains(cur, Rep(s, k, None, FALSE))
      BY <2>2, <3>1, <3>2, <3>3 DEF ToldEffect
    <3>5. PICK n \in Nat : n = Len(objs[cur].reports)
      BY <1>2, ReportTypes
    <3>6. i - 1 = n /\ objs'[cur].reports[i] = Rep(s, k, None, FALSE)
      <4>1. Len(objs'[p].reports) = n + 1 /\ objs'[p].reports[n + 1] = Rep(s, k, None, FALSE)
        BY <3>3, <3>4, <3>5 DEF Gains
      <4>2. i \in 1..(n + 1) /\ ~(i \in 1..n)
        BY <2>2, <3>2, <3>3, <3>5, <4>1
      <4>3. i = n + 1
        BY <4>2
      <4>4. i - 1 = n
        BY <4>3
      <4>5. objs'[p].reports[i] = Rep(s, k, None, FALSE)
        BY <4>1, <4>3, Zenon
      <4> QED
        BY <3>3, <4>4, <4>5
    <3>7. j = k
      BY <3>3, <3>6 DEF Rep
    <3>8. k # 0
      BY <1>1
    <3>9. Told1(k) \/ ModeComes(cur, Len(objs[cur].reports), k)
      BY <1>1, <1>2, <3>4, <3>8 DEF ModeInv, UpTold
    <3>10. Told1(k)' \/ ModeComes(p, n, k)'
      <4>1. n <= Len(objs[p].reports) /\ n <= n
        BY <3>3, <3>5
      <4>2. Told1(k) \/ ModeComes(p, n, k)
        BY <3>3, <3>5, <3>9
      <4> QED
        BY <3>2, <1>5, <4>1, <4>2, ComesKept
    <3> QED
      BY <3>6, <3>7, <3>10
  <2> QED
    BY <2>1, <2>2
<1> QED
  BY <1>5, <1>6, <1>7 DEF ModeInv

LEMMA ModeQuiet ==
  ASSUME CoreTypes, CoreTypes', ModeInv, QuietParts, ReportsKept, NoBare, SameTold, bare' = bare
  PROVE  ModeInv'
<1>1. BareComes'
  BY BareSame DEF ModeInv
<1>2. \A k \in 1..Len(procs) : procs'[k].st = "up" => procs[k].st = "up"
  BY DEF QuietParts, SameStates
<1>3. UpTold'
  BY <1>2, UpSame DEF ModeInv, QuietParts, SameObjects
<1> QED
  BY <1>1, <1>3 DEF ModeInv, SameTold

LEMMA ModeStep ==
  Types /\ Base /\ OneAtATime /\ SessionInv /\ ModeInv /\ [Next]_vars => ModeInv'
<1> SUFFICES ASSUME Types, Base, OneAtATime, SessionInv, ModeInv, [Next]_vars PROVE ModeInv'
  OBVIOUS
<1>0. CoreTypes /\ CoreTypes'
  BY CoreStep DEF Base
<1>1. CASE Restart \/ UNCHANGED vars
  <2>1. cmd' = cmd /\ KeepObjs /\ KeepProcs
    BY <1>1, RestEffect
  <2>2. ReportsKept /\ NoBare
    BY <1>0, <2>1, KeptSame, NoBareSame DEF KeepObjs
  <2>3. SameTold /\ bare' = bare
    BY <1>1 DEF Restart, vars, ghost, SameTold
  <2>4. QuietParts
    BY <2>1 DEF QuietParts, KeepObjs, KeepProcs, SameStarts, SameObjects, SameStates
  <2> QED
    BY <1>0, <2>2, <2>3, <2>4, ModeQuiet
<1>2. CASE \E c \in Commands : Issue(c) \/ Handle(c) \/ Continue(c) \/ StartFails(c)
  BY <1>2, ModeCommand
<1>3. CASE \E o \in DOMAIN objs : ReportDelivered(o) \/ ReportFails(o) \/ ReportRefused(o)
  BY <1>3, ModeReport
<1>4. CASE \E k \in DOMAIN procs : Prompt(k) \/ RuntimeStatus(k) \/ RuntimeEnds(k) \/ ProcessExits(k)
  <2>1. PICK k \in DOMAIN procs : Prompt(k) \/ RuntimeStatus(k) \/ RuntimeEnds(k) \/ ProcessExits(k)
    BY <1>4
  <2>2. CASE Prompt(k) \/ ProcessExits(k)
    <3>1. KeepObjs
      BY <1>0, <2>2, RestEffect, ProcessExitsEffect
    <3>2. ReportsKept /\ NoBare
      BY <1>0, <3>1, KeptSame, NoBareSame DEF KeepObjs
    <3>3. SameTold /\ bare' = bare
      BY <2>2 DEF Prompt, ProcessExits, ghost, SameTold
    <3>4. QuietParts
      BY <1>0, <2>2, QuietRuntime
    <3> QED
      BY <1>0, <3>2, <3>3, <3>4, ModeQuiet
  <2>3. CASE RuntimeStatus(k) \/ RuntimeEnds(k)
    BY <2>3, ModeTells
  <2> QED
    BY <2>1, <2>2, <2>3
<1>5. CASE Crash
  <2>1. objs' = <<>> /\ cur' = 0
    BY <1>0, <1>5, CrashEffect
  <2>2. bare' = bare /\ denied' = denied
    BY <1>5 DEF Crash, ghost
  <2> QED
    BY <2>1, <2>2, UpVacuous DEF ModeInv, BareComes
<1> QED
  BY <1>1, <1>2, <1>3, <1>4, <1>5 DEF Next

LEMMA ModeInit == Init => PromptInv /\ ModeInv
BY DEF Init, PromptInv, ModeInv, BareComes, UpTold

-----------------------------------------------------------------------------
(* The properties                                                            *)

(* A runtime is handed its prompt only once the gateway has its mode, whatever  *)
(* commands are given: deliverPrompt waits for the connecting report.            *)
THEOREM PromptsAfterMode == Spec => [](prompts \subseteq modes)
<1>1. CoreTypes /\ PromptInv /\ [Next]_vars => (CoreTypes /\ PromptInv)'
  BY CoreStep, PromptStep
<1>2. Init => CoreTypes /\ PromptInv
  BY CoreInit, ModeInit
<1>3. PromptInv => prompts \subseteq modes
  BY DEF PromptInv
<1> QED
  BY <1>1, <1>2, <1>3, PTL DEF Spec

Session == Types /\ Base /\ SessionInv /\ PromptInv /\ ModeInv /\ StatusInv

LEMMA SessionInvariant == Spec /\ []OneAtATime => []Session
<1>1. Session /\ OneAtATime /\ [Next]_vars => Session'
  BY TypesStep, BaseStep, SessionStep, PromptStep, ModeStep, StatusStep DEF Session, Base
<1>2. Init => Session
  BY TypesInit, BaseInit, SessionInit, ModeInit, StatusInit DEF Session
<1> QED
  BY <1>1, <1>2, PTL DEF Spec

(* A session that still runs is not resumed: as long as the gateway gives the   *)
(* next launch or resume only once it has the result of the last one, no two     *)
(* runtimes of the session run at the same time.                                 *)
THEOREM OneRuntimeCorrect == Spec /\ []OneAtATime => []OneRuntime
<1>1. Session /\ OneAtATime => OneRuntime
  BY SessionImplies DEF Session
<1> QED
  BY <1>1, SessionInvariant, PTL

(* The gateway has the mode of a runtime before its prompt and before any        *)
(* connected status of it, unless it refused the report that tells the mode:     *)
(* reports are sent in order, and a connecting one is retried ahead of the rest. *)
THEOREM ModeFirstCorrect == Spec /\ []OneAtATime => []ModeFirst
<1>1. Session => ModeFirst
  BY DEF Session, PromptInv, ModeInv, ModeFirst
<1> QED
  BY <1>1, SessionInvariant, PTL

(* A connected session that was launched is stopped exactly when its runtime has  *)
(* ended: what the runtime reports before the session is connected is held, and   *)
(* connect takes it over.                                                         *)
THEOREM LaunchedStatusCorrect == Spec /\ []OneAtATime => []LaunchedStatus
<1>1. Session => LaunchedStatus
  BY DEF Session, StatusInv
<1> QED
  BY <1>1, SessionInvariant, PTL

-----------------------------------------------------------------------------
(* A launch the gateway records as refused leaves nothing                    *)

\* The session of a launch is launched by one command.
OneLaunch == \A c, d \in Launches : c = d
OneResume == \A c, d \in Resumes : c = d

\* What is left of a launch is a runtime that was started, or no record.
Cleared == record = "none" \/ \E k : Launched(k)

\* A launch is refused, or is going to be.
Refusing(l) ==
    \/ recorded[l] = "refused"
    \/ cmd[l].at = "posting" /\ cmd[l].res = "refused"
    \/ cmd[l].at \in {"undone", "reported"}
    \/ \E i \in 1..Len(finished) : finished[i].c = l /\ finished[i].res = "refused"

RefusedInv ==
    \A l \in Launches : cmd[l].at \notin {"stopping", "stopped"} /\ (Refusing(l) => Cleared)

LEMMA StaysLaunched ==
  ASSUME CoreTypes, LaunchInv, [Next]_vars, NEW k, Launched(k)
  PROVE  Launched(k)'
<1>0. ProcShape(procs) /\ k \in 1..Len(procs) /\ Len(procs) \in Nat
  BY CoreFacts DEF LaunchInv, Shape, Launched
<1>1. CASE procs' = procs
  BY <1>1 DEF Launched
<1>2. ASSUME NEW j, NEW st, SetProc(j, st) PROVE Launched(k)'
  BY <1>0, <1>2, SetProcEffect DEF Launched, SameRuntimes
<1>3. ASSUME NEW c \in Commands, Issue(c) \/ Handle(c) \/ Continue(c) \/ StartFails(c)
      PROVE  Launched(k)'
  <2>1. CASE \/ Issue(c) \/ DeliverDone(c) \/ RegisterNative(c) \/ Ends(c) \/ Stop(c)
             \/ StopApplied(c) \/ Connect(c) \/ StartFails(c) \/ Launch(c)
    BY <1>1, <2>1, RestEffect, EndsEffect, StopEffect, StopAppliedEffect, ConnectEffect,
       StartFailsEffect, LaunchEffect DEF KeepProcs
  <2>2. CASE Spawn(c) \/ LaunchFailed(c) \/ ResumeFailed(c)
    BY <1>2, <2>2 DEF Spawn, LaunchFailed, ResumeFailed, Stopped
  <2>3. CASE StartAdapter(c) \/ Resume(c)
    <3>1. Len(procs') = Len(procs) + 1 /\ \A j \in 1..Len(procs) : procs'[j] = procs[j]
      BY <2>3, StartAdapterEffect, ResumeEffect
    <3> QED
      BY <1>0, <3>1 DEF Launched
  <2>4. CASE AdapterStarts(c)
    <3>1. PICK j : procs' = [procs EXCEPT ![j].st = "up", ![j].ok = TRUE]
      BY <2>4 DEF AdapterStarts
    <3>2. Len(procs') = Len(procs) /\ procs'[k].by = procs[k].by
      BY <1>0, <2>4, StateEffect DEF ProcOnly
    <3>3. procs'[k].ok
      BY <1>0, <3>1 DEF Launched, ProcShape, IsSeq
    <3> QED
      BY <3>2, <3>3 DEF Launched
  <2> QED
    BY <1>3, <2>1, <2>2, <2>3, <2>4 DEF Handle, Continue, Ends
<1>4. CASE \E o \in DOMAIN objs : ReportDelivered(o) \/ ReportFails(o) \/ ReportRefused(o)
  BY <1>1, <1>4, ReportEffect DEF KeepProcs
<1>5. ASSUME NEW j \in DOMAIN procs, Prompt(j) \/ RuntimeStatus(j) \/ RuntimeEnds(j) \/ ProcessExits(j)
      PROVE  Launched(k)'
  BY <1>1, <1>2, <1>5 DEF Prompt, RuntimeStatus, RuntimeEnds, ProcessExits
<1>6. CASE Crash
  <2>1. PICK st : procs' = [j \in DOMAIN procs |->
            IF procs[j].st \in {"created", "gone"} THEN [procs[j] EXCEPT !.st = "gone"]
            ELSE [procs[j] EXCEPT !.st = st]]
    BY <1>6 DEF Crash
  <2>2. Len(procs') = Len(procs)
    BY <1>6, CrashEffect
  <2>3. procs'[k].by = procs[k].by /\ procs'[k].ok = procs[k].ok
    BY <1>0, <2>1 DEF ProcShape, IsSeq
  <2> QED
    BY <2>2, <2>3 DEF Launched
<1>7. CASE Restart \/ UNCHANGED vars
  BY <1>1, <1>7, RestEffect DEF KeepProcs
<1> QED
  BY <1>3, <1>4, <1>5, <1>6, <1>7 DEF Next

\* Once it is cleared it is, but for the next launch.
LEMMA StaysCleared ==
  ASSUME CoreTypes, LaunchInv, [Next]_vars, Cleared, \A c \in Commands : ~Launch(c)
  PROVE  Cleared'
<1>1. CASE \E k : Launched(k)
  BY <1>1, StaysLaunched DEF Cleared
<1>2. CASE record = "none"
  <2>1. record' = record \/ record' = "none" \/ record = "recorded"
    <3>1. ASSUME NEW c \in Commands, Issue(c) \/ Handle(c) \/ Continue(c) \/ StartFails(c)
          PROVE  record' = record \/ record' = "none" \/ record = "recorded"
      <4>1. CASE Issue(c) \/ DeliverDone(c) \/ LaunchAlready(c) \/ LaunchRefused(c)
                 \/ ResumeRefused(c) \/ Resume(c) \/ StopRefused(c) \/ Stop(c)
        BY <4>1 DEF Issue, DeliverDone, LaunchAlready, LaunchRefused, ResumeRefused, Resume,
                    StopRefused, Stop
      <4>2. CASE \/ StartAdapter(c) \/ Spawn(c) \/ RegisterNative(c) \/ AdapterStarts(c)
                 \/ LaunchFailed(c) \/ ResumeFailed(c) \/ Connect(c) \/ CommandApplied(c)
        BY <4>2 DEF StartAdapter, Spawn, RegisterNative, AdapterStarts, LaunchFailed, ResumeFailed,
                    Connect, CommandApplied
      <4>3. CASE CommandReported(c) \/ StopApplied(c) \/ StopUnknown(c) \/ Post(c) \/ StartFails(c)
        BY <4>3 DEF CommandReported, StopApplied, StopUnknown, Post, StartFails
      <4> QED
        BY <3>1, <4>1, <4>2, <4>3 DEF Handle, Continue
    <3>2. CASE \E o \in DOMAIN objs : ReportDelivered(o) \/ ReportFails(o) \/ ReportRefused(o)
      BY <3>2 DEF ReportDelivered, ReportFails, ReportRefused
    <3>3. CASE \E k \in DOMAIN procs : Prompt(k) \/ RuntimeStatus(k) \/ RuntimeEnds(k) \/ ProcessExits(k)
      BY <3>3 DEF Prompt, RuntimeStatus, RuntimeEnds, ProcessExits
    <3>4. CASE Crash \/ Restart \/ UNCHANGED vars
      BY <3>4 DEF Crash, Restart, vars
    <3> QED
      BY <3>1, <3>2, <3>3, <3>4 DEF Next
  <2> QED
    BY <1>2, <2>1 DEF Cleared
<1> QED
  BY <1>1, <1>2 DEF Cleared

\* A result that is kept is the one remembered, or was kept.
LEMMA RememberEntries ==
  ASSUME FinishedTypes, NEW c \in Commands, NEW res \in Results, Remember(c, res)
  PROVE  \A i \in 1..Len(finished') :
            \/ finished'[i] = Entry(c, res)
            \/ \E j \in 1..Len(finished) : finished'[i] = finished[j]
<1> DEFINE E == [c : Commands, res : Results]
<1> DEFINE e == Entry(c, res)
<1> DEFINE g == [i \in DOMAIN finished |-> IF i \in Done(c) THEN e ELSE finished[i]]
<1> DEFINE kept == IF Done(c) # {} THEN g ELSE Append(finished, e)
<1>1. finished \in Seq(E) /\ Len(finished) \in Nat /\ DOMAIN finished = 1..Len(finished)
  BY LenProperties DEF FinishedTypes
<1>2. e \in E
  BY DEF Entry
<1>3. finished' = IF Len(kept) > MaxFinished THEN Tail(kept) ELSE kept
  BY DEF Remember
<1>4. e = Entry(c, res) /\ MaxFinished \in Nat \ {0}
  BY DaemonAssumption
<1> HIDE DEF E, e
<1>5. kept \in Seq(E) /\ \A i \in 1..Len(kept) :
         kept[i] = e \/ \E j \in 1..Len(finished) : kept[i] = finished[j]
  <2>1. CASE Done(c) # {}
    <3>1. \A i \in 1..Len(finished) : g[i] = e \/ g[i] = finished[i]
      BY <1>1
    <3>2. g \in [1..Len(finished) -> E]
      <4>1. \A i \in 1..Len(finished) : finished[i] \in E
        BY <1>1
      <4> QED
        BY <1>1, <1>2, <4>1
    <3> HIDE DEF g
    <3>3. g \in Seq(E) /\ Len(g) = Len(finished)
      <4>1. g \in Seq(E)
        BY <1>1, <3>2, SeqDef
      <4> QED
        BY <1>1, <3>2, <4>1, LenProperties
    <3> QED
      BY <2>1, <3>1, <3>3
  <2>2. CASE Done(c) = {}
    <3>1. /\ Append(finished, e) \in Seq(E) /\ Len(Append(finished, e)) = Len(finished) + 1
          /\ \A i \in 1..Len(finished) : Append(finished, e)[i] = finished[i]
          /\ Append(finished, e)[Len(finished) + 1] = e
      BY <1>1, <1>2, AppendProperties
    <3> QED
      BY <1>1, <2>2, <3>1
  <2> QED
    BY <2>1, <2>2
<1> HIDE DEF kept
<1>6. CASE Len(kept) > MaxFinished
  <2>1. kept # <<>> /\ finished' = Tail(kept) /\ Len(kept) \in Nat
    BY <1>3, <1>4, <1>5, <1>6, LenProperties
  <2>2. Len(Tail(kept)) = Len(kept) - 1 /\ \A i \in 1..(Len(kept) - 1) : Tail(kept)[i] = kept[i + 1]
    BY <1>5, <2>1, HeadTailProperties
  <2> QED
    BY <1>4, <1>5, <2>1, <2>2
<1>7. CASE ~(Len(kept) > MaxFinished)
  BY <1>3, <1>4, <1>5, <1>7
<1> QED
  BY <1>6, <1>7

\* The result of a launch is a refusal only where nothing is left.
LEMMA PostsRefusal ==
  ASSUME RefusedInv, NEW c \in Commands,
         \/ LaunchAlready(c) \/ LaunchRefused(c) \/ ResumeRefused(c) \/ StopRefused(c)
         \/ CommandApplied(c) \/ CommandReported(c) \/ StopUnknown(c) \/ ResumeFailed(c)
  PROVE  \E res \in Results : Posting(c, res) /\ (c \in Launches /\ res = "refused" => Cleared)
<1>1. CASE LaunchAlready(c)
  BY <1>1 DEF LaunchAlready, Results
<1>2. CASE LaunchRefused(c)
  BY <1>2 DEF LaunchRefused, Already, Cleared, Results
<1>3. CASE ResumeRefused(c) \/ StopRefused(c) \/ ResumeFailed(c)
  BY <1>3, DaemonAssumption DEF ResumeRefused, StopRefused, ResumeFailed, Results
<1>4. CASE CommandApplied(c)
  BY <1>4 DEF CommandApplied, Results
<1>5. CASE CommandReported(c)
  BY <1>5 DEF CommandReported, RefusedInv, Refusing, Results
<1>6. CASE StopUnknown(c)
  BY <1>6 DEF StopUnknown, Results
<1> QED
  BY <1>1, <1>2, <1>3, <1>4, <1>5, <1>6

LEMMA RefusedNext ==
  ASSUME RefusedInv, Cleared => Cleared',
         \A l \in Launches : /\ cmd'[l].at \notin {"stopping", "stopped"}
                             /\ Refusing(l)' => Refusing(l) \/ Cleared'
  PROVE  RefusedInv'
BY DEF RefusedInv

\* Neither the results nor where the launches are change.
LEMMA RefusedSame ==
  ASSUME RefusedInv, Cleared => Cleared', UNCHANGED <<recorded, finished>>,
         \A l \in Launches : \/ cmd'[l].at = cmd[l].at /\ cmd'[l].res = cmd[l].res
                             \/ cmd'[l].at \in
                                  Begins \cup StartsUp \cup {"failing", "connecting", "prompting", "connected"}
                             \/ cmd[l].at = "undone" /\ cmd'[l].at = "reported"
  PROVE  RefusedInv'
<1> SUFFICES ASSUME NEW l \in Launches
             PROVE  /\ cmd'[l].at \notin {"stopping", "stopped"}
                    /\ Refusing(l)' => Refusing(l)
  BY RefusedNext
<1> QED
  BY DEF RefusedInv, Refusing, Begins, StartsUp

LEMMA RefusedPosts ==
  ASSUME CoreTypes, FinishedTypes, RefusedInv, Cleared => Cleared', NEW c \in Commands,
         \/ LaunchAlready(c) \/ LaunchRefused(c) \/ ResumeRefused(c) \/ StopRefused(c)
         \/ CommandApplied(c) \/ CommandReported(c) \/ StopUnknown(c) \/ ResumeFailed(c)
  PROVE  RefusedInv'
<1>1. PICK res \in Results : Posting(c, res) /\ (c \in Launches /\ res = "refused" => Cleared)
  BY PostsRefusal
<1>2. recorded' = recorded
  BY PostsResult DEF gateway
<1>3. CmdOnly(c) /\ cmd'[c].at = "posting" /\ cmd'[c].res = res
  BY <1>1, Posts DEF CoreTypes
<1>4. \A i \in 1..Len(finished') :
        \/ finished'[i] = Entry(c, res)
        \/ \E j \in 1..Len(finished) : finished'[i] = finished[j]
  BY <1>1, RememberEntries DEF Posting
<1> SUFFICES ASSUME NEW l \in Launches
             PROVE  /\ cmd'[l].at \notin {"stopping", "stopped"}
                    /\ Refusing(l)' => Refusing(l) \/ Cleared'
  BY RefusedNext
<1>5. l \in Commands
  BY DEF Commands
<1>6. CASE l = c
  BY <1>1, <1>2, <1>3, <1>4, <1>6 DEF Refusing, Entry
<1>7. CASE l # c
  <2>1. cmd'[l] = cmd[l]
    BY <1>3, <1>5, <1>7 DEF CmdOnly
  <2>2. \A i \in 1..Len(finished') : finished'[i].c = l =>
         \E j \in 1..Len(finished) : finished'[i] = finished[j]
    BY <1>4, <1>7 DEF Entry
  <2> QED
    BY <1>2, <2>1, <2>2 DEF Refusing, RefusedInv
<1> QED
  BY <1>6, <1>7

\* A result is recorded.
LEMMA RefusedRecorded ==
  ASSUME CoreTypes, GatewayTypes, FinishedTypes, RefusedInv, Cleared => Cleared', NEW c \in Commands,
         DeliverDone(c) \/ Post(c)
  PROVE  RefusedInv'
<1>1. finished' = finished
  BY DEF DeliverDone, Post, daemon
<1>2. \A d \in Commands : d # c => recorded'[d] = recorded[d] /\ cmd'[d] = cmd[d]
  <2>1. CASE DeliverDone(c)
    BY <2>1, PostedOne, RestEffect DEF DeliverDone
  <2>2. CASE Post(c)
    BY <2>2, PostedOne, EndsEffect DEF Post, Ends, CmdOnly
  <2> QED
    BY <2>1, <2>2
<1>3. c \in Launches => /\ cmd'[c].at \notin {"posting", "undone", "reported", "stopping", "stopped"}
                           \/ cmd'[c] = cmd[c]
                        /\ recorded'[c] = "refused" => Refusing(c)
  <2>1. CASE DeliverDone(c)
    <3>1. PICK i \in Done(c) : Posted(c, finished[i].res)
      BY <2>1 DEF DeliverDone
    <3>2. recorded'[c] = recorded[c] \/ recorded'[c] = finished[i].res
      BY <3>1 DEF Posted, GatewayTypes
    <3>3. i \in 1..Len(finished) /\ finished[i].c = c
      BY <3>1 DEF Done, FinishedTypes
    <3> QED
      BY <2>1, <3>2, <3>3, RestEffect DEF Refusing
  <2>2. CASE Post(c)
    <3>1. Posted(c, cmd[c].res) /\ cmd[c].at = "posting" /\ cmd' = [cmd EXCEPT ![c] = Idle]
      BY <2>2 DEF Post
    <3>2. recorded'[c] = recorded[c] \/ recorded'[c] = cmd[c].res
      BY <3>1 DEF Posted, GatewayTypes
    <3>3. cmd'[c].at = "idle"
      BY <3>1, IdleHandler DEF CoreTypes
    <3> QED
      BY <3>1, <3>2, <3>3 DEF Refusing
  <2> QED
    BY <2>1, <2>2
<1> SUFFICES ASSUME NEW l \in Launches
             PROVE  /\ cmd'[l].at \notin {"stopping", "stopped"}
                    /\ Refusing(l)' => Refusing(l) \/ Cleared'
  BY RefusedNext
<1>4. l \in Commands
  BY DEF Commands
<1>5. CASE l = c
  BY <1>1, <1>3, <1>5 DEF Refusing, RefusedInv
<1>6. CASE l # c
  BY <1>1, <1>2, <1>4, <1>6 DEF Refusing, RefusedInv
<1> QED
  BY <1>5, <1>6

LEMMA RefusedCommand ==
  ASSUME OneLaunch, Types, Base, LaunchInv, RefusedInv, NEW c \in Commands,
         Issue(c) \/ Handle(c) \/ Continue(c) \/ StartFails(c),
         (\A d \in Commands : ~Launch(d)) /\ Cleared => Cleared'
  PROVE  RefusedInv'
<1> USE DEF Base
<1>0. CoreTypes /\ GatewayTypes /\ FinishedTypes
  BY DEF Types
<1>2. CASE \E d \in Commands : Launch(d)
  <2>1. PICK d \in Commands : Launch(d)
    BY <1>2
  <2>2. /\ recorded' = recorded /\ recorded[d] = None /\ finished' = finished
        /\ Done(d) = {} /\ d \in Launches
    BY <2>1 DEF Launch, Handling, Received
  <2>3. cmd'[d].at = "reporting"
    BY <1>0, <2>1, LaunchEffect
  <2>4. DOMAIN finished = 1..Len(finished)
    BY <1>0 DEF FinishedTypes
  <2>5. ~Refusing(d)'
    BY <2>2, <2>3, <2>4 DEF Refusing, Done, None
  <2>6. \A l \in Launches : l = d
    BY <2>2 DEF OneLaunch
  <2> QED
    BY <2>3, <2>5, <2>6 DEF RefusedInv
<1>3. CASE \A d \in Commands : ~Launch(d)
  <2>0. Cleared => Cleared'
    BY <1>3
  <2>1. CASE Issue(c) \/ RegisterNative(c) \/ Spawn(c)
    <3>1. cmd' = cmd /\ UNCHANGED <<recorded, finished>>
      BY <2>1 DEF Issue, RegisterNative, Spawn, gateway, daemon
    <3> QED
      BY <2>0, <3>1, RefusedSame
  <2>2. CASE DeliverDone(c) \/ Post(c)
    BY <1>0, <2>0, <2>2, RefusedRecorded
  <2>3. CASE \/ LaunchAlready(c) \/ LaunchRefused(c) \/ ResumeRefused(c) \/ StopRefused(c)
             \/ CommandApplied(c) \/ CommandReported(c) \/ StopUnknown(c) \/ ResumeFailed(c)
    BY <1>0, <2>0, <2>3, RefusedPosts
  <2>4. CASE StartAdapter(c) \/ AdapterStarts(c) \/ StartFails(c) \/ Connect(c)
    <3>1. UNCHANGED <<recorded, finished>>
      BY <2>4 DEF StartAdapter, AdapterStarts, StartFails, Connect, gateway
    <3>2. CmdOnly(c) /\ cmd'[c].at \in StartsUp \cup {"failing", "connecting"}
      BY <1>0, <2>4, StartAdapterEffect, StateEffect, StartFailsEffect, ConnectEffect DEF StartsUp
    <3> QED
      BY <2>0, <3>1, <3>2, RefusedSame DEF CmdOnly, Commands
  <2>5. CASE StopApplied(c) \/ Stop(c) \/ Resume(c)
    <3>1. UNCHANGED <<recorded, finished>>
      BY <2>5 DEF StopApplied, Stop, Resume, gateway
    <3>2. CmdOnly(c) /\ c \notin Launches
      BY <1>0, <2>5, StopAppliedEffect, StopEffect, ResumeEffect, DaemonAssumption DEF Handled
    <3> QED
      BY <2>0, <3>1, <3>2, RefusedSame DEF CmdOnly, Commands
  <2>6. CASE LaunchFailed(c)
    <3>1. Cleared'
      BY <2>6 DEF LaunchFailed, Cleared
    <3>2. UNCHANGED <<recorded, finished>>
      BY <2>6 DEF LaunchFailed, gateway
    <3>3. CmdOnly(c) /\ cmd'[c].at = "undone"
      BY <1>0, <2>6, LaunchFailedEffect
    <3> QED
      BY <3>1, <3>3, RefusedNext DEF CmdOnly, Commands, RefusedInv
  <2> QED
    BY <1>3, <2>1, <2>2, <2>3, <2>4, <2>5, <2>6 DEF Handle, Continue
<1> QED
  BY <1>2, <1>3

LEMMA RefusedStep ==
  OneLaunch /\ Types /\ Base /\ LaunchInv /\ RefusedInv /\ [Next]_vars => RefusedInv'
<1> SUFFICES ASSUME OneLaunch, Types, Base, LaunchInv, RefusedInv, [Next]_vars PROVE RefusedInv'
  OBVIOUS
<1>0. CoreTypes /\ Waiters
  BY DEF Base
<1>1. (\A d \in Commands : ~Launch(d)) /\ Cleared => Cleared'
  BY <1>0, StaysCleared
<1>2. CASE \E c \in Commands : Issue(c) \/ Handle(c) \/ Continue(c) \/ StartFails(c)
  BY <1>1, <1>2, RefusedCommand
<1>3. ASSUME ~ \E c \in Commands : Issue(c) \/ Handle(c) \/ Continue(c) \/ StartFails(c)
      PROVE  Cleared => Cleared'
  BY <1>1, <1>3 DEF Handle
<1>4. CASE /\ ~ \E c \in Commands : Issue(c) \/ Handle(c) \/ Continue(c) \/ StartFails(c)
           /\ \E o \in DOMAIN objs : ReportDelivered(o) \/ ReportFails(o) \/ ReportRefused(o)
  <2>1. PICK o \in DOMAIN objs : ReportDelivered(o) \/ ReportFails(o) \/ ReportRefused(o)
    BY <1>4
  <2>2. UNCHANGED <<recorded, finished>>
    BY <2>1 DEF ReportDelivered, ReportFails, ReportRefused, gateway
  <2>3. PICK w : w = objs[o].reports[1].waits
    OBVIOUS
  <2>4. /\ w = None => cmd' = cmd
        /\ w # None => /\ w \in Commands /\ CmdOnly(w) /\ cmd[w].at \in Waiting
                       /\ GoesOn(cmd[w].at, cmd'[w].at) /\ Elsewhere(cmd'[w], cmd[w])
    <3>1. /\ o \in 1..Len(objs) /\ Len(objs[o].reports) \in Nat \ {0}
          /\ w = None => cmd' = cmd
          /\ w # None => /\ w \in Commands /\ CmdOnly(w)
                         /\ GoesOn(cmd[w].at, cmd'[w].at) /\ Elsewhere(cmd'[w], cmd[w])
      BY <1>0, <2>1, <2>3, ReportEffect
    <3>2. Waits(o, 1, w)
      BY <2>3, <3>1 DEF Waits
    <3> QED
      BY <1>0, <3>1, <3>2 DEF Waiters
  <2>5. \A l \in Launches : \/ cmd'[l] = cmd[l]
                            \/ cmd'[l].at \in Begins \cup {"prompting", "connected"}
                            \/ cmd[l].at = "undone" /\ cmd'[l].at = "reported"
    BY <2>4 DEF CmdOnly, GoesOn, Waiting, Begins, Commands, RefusedInv
  <2> QED
    BY <1>3, <1>4, <2>2, <2>5, RefusedSame
<1>5. CASE /\ ~ \E c \in Commands : Issue(c) \/ Handle(c) \/ Continue(c) \/ StartFails(c)
           /\ (\E k \in DOMAIN procs : Prompt(k) \/ RuntimeStatus(k) \/ RuntimeEnds(k) \/ ProcessExits(k))
              \/ Restart \/ UNCHANGED vars
  <2>1. cmd' = cmd /\ UNCHANGED <<recorded, finished>>
    BY <1>5 DEF Prompt, RuntimeStatus, RuntimeEnds, ProcessExits, Restart, vars, gateway, daemon
  <2> QED
    BY <1>3, <1>5, <2>1, RefusedSame
<1>6. CASE /\ ~ \E c \in Commands : Issue(c) \/ Handle(c) \/ Continue(c) \/ StartFails(c)
           /\ Crash
  <2>1. \A l \in Launches : cmd'[l].at = "idle"
    BY <1>0, <1>6, CrashEffect DEF Commands
  <2>2. finished' = <<>> /\ recorded' = recorded
    BY <1>6 DEF Crash
  <2>3. \A l \in Launches : Refusing(l)' => Refusing(l)
    BY <2>1, <2>2 DEF Refusing
  <2> QED
    BY <1>3, <1>6, <2>1, <2>3, RefusedNext
<1> QED
  BY <1>2, <1>4, <1>5, <1>6 DEF Next

LEMMA RefusedInit == Init => RefusedInv
<1> SUFFICES ASSUME Init, NEW l \in Launches PROVE cmd[l].at \notin {"stopping", "stopped"} /\ ~Refusing(l)
  BY DEF RefusedInv
<1>1. cmd[l].at = "idle" /\ recorded[l] = None /\ finished = <<>>
  BY IdleHandler DEF Init, Commands
<1> QED
  BY <1>1 DEF Refusing, None

(* A launch the gateway records as refused left no record, or a runtime that     *)
(* started: neither its redelivery nor a new launch takes it for one already      *)
(* handled.                                                                        *)
THEOREM RefusedLaunchCorrect == ASSUME OneLaunch PROVE Spec => []RefusedLaunchLeavesNothing
<1> DEFINE Inv == Types /\ Base /\ LaunchInv /\ RefusedInv
<1>1. Inv /\ [Next]_vars => Inv'
  BY TypesStep, BaseStep, LaunchStep, RefusedStep
<1>2. Init => Inv
  BY TypesInit, BaseInit, InitLaunch, RefusedInit
<1>3. Inv => RefusedLaunchLeavesNothing
  BY DEF RefusedInv, Refusing, Cleared, Launched, RefusedLaunchLeavesNothing, Procs
<1> HIDE DEF Inv
<1> QED
  BY <1>1, <1>2, <1>3, PTL DEF Spec

-----------------------------------------------------------------------------
(* One launch and one resume come one at a time                              *)

\* The session is resumed once a launch has its result.
ResumedLater == \A r \in Resumes \cap issued : \E l \in Launches : recorded[l] # None

LEMMA RecordedStays ==
  ASSUME GatewayTypes, [Next]_vars, NEW c \in Commands, recorded[c] # None
  PROVE  recorded'[c] # None
<1>1. ASSUME NEW d, NEW res, Posted(d, res) PROVE recorded'[c] # None
  BY <1>1 DEF Posted, GatewayTypes
<1>2. ASSUME NEW d \in Commands, Issue(d) \/ Handle(d) \/ Continue(d) \/ StartFails(d)
      PROVE  recorded'[c] # None
  <2>1. CASE Issue(d) \/ LaunchAlready(d) \/ LaunchRefused(d) \/ Launch(d)
             \/ ResumeRefused(d) \/ Resume(d) \/ StopRefused(d) \/ Stop(d)
    BY <2>1 DEF Issue, LaunchAlready, LaunchRefused, Launch, ResumeRefused, Resume, StopRefused, Stop
  <2>2. CASE \/ StartAdapter(d) \/ Spawn(d) \/ RegisterNative(d) \/ AdapterStarts(d)
             \/ LaunchFailed(d) \/ ResumeFailed(d) \/ Connect(d) \/ CommandApplied(d)
    BY <2>2 DEF StartAdapter, Spawn, RegisterNative, AdapterStarts, LaunchFailed, ResumeFailed,
                Connect, CommandApplied, gateway
  <2>3. CASE CommandReported(d) \/ StopApplied(d) \/ StopUnknown(d) \/ StartFails(d)
    BY <2>3 DEF CommandReported, StopApplied, StopUnknown, StartFails, gateway
  <2>4. CASE DeliverDone(d) \/ Post(d)
    BY <1>1, <2>4 DEF DeliverDone, Post
  <2> QED
    BY <1>2, <2>1, <2>2, <2>3, <2>4 DEF Handle, Continue
<1>3. CASE \E o \in DOMAIN objs : ReportDelivered(o) \/ ReportFails(o) \/ ReportRefused(o)
  BY <1>3 DEF ReportDelivered, ReportFails, ReportRefused, gateway
<1>4. CASE \E k \in DOMAIN procs : Prompt(k) \/ RuntimeStatus(k) \/ RuntimeEnds(k) \/ ProcessExits(k)
  BY <1>4 DEF Prompt, RuntimeStatus, RuntimeEnds, ProcessExits, gateway
<1>5. CASE Crash \/ Restart \/ UNCHANGED vars
  BY <1>5 DEF Crash, Restart, vars, gateway
<1> QED
  BY <1>2, <1>3, <1>4, <1>5 DEF Next

LEMMA ResumedStep == GatewayTypes /\ ResumedLater /\ [Next]_vars => ResumedLater'
<1> SUFFICES ASSUME GatewayTypes, ResumedLater, [Next]_vars, NEW r \in Resumes, r \in issued'
             PROVE  \E l \in Launches : recorded'[l] # None
  BY DEF ResumedLater
<1>1. \A l \in Launches : recorded[l] # None => recorded'[l] # None
  BY RecordedStays DEF Commands
<1>2. CASE r \in issued
  BY <1>1, <1>2 DEF ResumedLater
<1>3. CASE r \notin issued
  <2>1. \E l \in Launches : recorded[l] # None
    <3>1. ASSUME NEW d \in Commands, Issue(d) \/ Handle(d) \/ Continue(d) \/ StartFails(d)
          PROVE  \E l \in Launches : recorded[l] # None
      <4>1. CASE Issue(d)
        BY <1>3, <4>1 DEF Issue
      <4>2. CASE DeliverDone(d) \/ LaunchAlready(d) \/ LaunchRefused(d) \/ Launch(d)
                 \/ ResumeRefused(d) \/ Resume(d) \/ StopRefused(d) \/ Stop(d)
        BY <1>3, <4>2 DEF DeliverDone, LaunchAlready, LaunchRefused, Launch, ResumeRefused, Resume,
                          StopRefused, Stop
      <4>3. CASE \/ StartAdapter(d) \/ Spawn(d) \/ RegisterNative(d) \/ AdapterStarts(d)
                 \/ LaunchFailed(d) \/ ResumeFailed(d) \/ Connect(d) \/ CommandApplied(d)
        BY <1>3, <4>3 DEF StartAdapter, Spawn, RegisterNative, AdapterStarts, LaunchFailed,
                          ResumeFailed, Connect, CommandApplied, gateway
      <4>4. CASE CommandReported(d) \/ StopApplied(d) \/ StopUnknown(d) \/ Post(d) \/ StartFails(d)
        BY <1>3, <4>4 DEF CommandReported, StopApplied, StopUnknown, Post, StartFails, gateway
      <4> QED
        BY <3>1, <4>1, <4>2, <4>3, <4>4 DEF Handle, Continue
    <3>2. CASE \E o \in DOMAIN objs : ReportDelivered(o) \/ ReportFails(o) \/ ReportRefused(o)
      BY <1>3, <3>2 DEF ReportDelivered, ReportFails, ReportRefused, gateway
    <3>3. CASE \E k \in DOMAIN procs : Prompt(k) \/ RuntimeStatus(k) \/ RuntimeEnds(k) \/ ProcessExits(k)
      BY <1>3, <3>3 DEF Prompt, RuntimeStatus, RuntimeEnds, ProcessExits, gateway
    <3>4. CASE Crash \/ Restart \/ UNCHANGED vars
      BY <1>3, <3>4 DEF Crash, Restart, vars, gateway
    <3> QED
      BY <3>1, <3>2, <3>3, <3>4 DEF Next
  <2> QED
    BY <1>1, <2>1
<1> QED
  BY <1>2, <1>3

(* The gateway resumes a session once its launch has its result, so that one     *)
(* launch and one resume, redelivered at will, always come one at a time.         *)
THEOREM OneOfEach == ASSUME OneLaunch, OneResume PROVE Spec => []OneAtATime
<1>1. Types /\ ResumedLater /\ [Next]_vars => (Types /\ ResumedLater)'
  BY TypesStep, ResumedStep DEF Types
<1>2. Init => Types /\ ResumedLater
  BY TypesInit DEF Init, ResumedLater
<1>3. ResumedLater => OneAtATime
  BY DEF OneLaunch, OneResume, ResumedLater, OneAtATime, Starters
<1> QED
  BY <1>1, <1>2, <1>3, PTL DEF Spec

-----------------------------------------------------------------------------
(* The status the gateway shows                                              *)

\* The session is stopped by one command.
OneStop == \A c, d \in Stops : c = d

\* A launch that failed leaves nothing behind, one that connects is the session, and
\* only a launch awaits that its failure is reported, only a stop that its end is.
Kinds(c) ==
    /\ cmd[c].at = "undone" => c \in Launches
    /\ cmd[c].at = "stopped" => c \in Stops
    /\ c \in Launches /\ cmd[c].at \in {"undone", "reported"} => cur = 0 /\ record = "none"
    /\ c \in Launches /\ cmd[c].at \in {"connecting", "connected", "prompting"} => cur # 0

\* A command that is refused, or has its result, starts nothing more.
Over(c) == cmd[c].at \in {"undone", "reported"} \/ Done(c) # {} \/ recorded[c] # None
NoStart == \A l \in Launches : Over(l) /\ (record # "none" => \A r \in Resumes : Over(r))

\* A command awaits the last report of o, and no report of a mode.
LastWaits(o) ==
    LET n == Len(objs[o].reports) IN
    \E c \in Commands : Waits(o, n, c) /\ ~objs[o].reports[n].mode /\ cmd[c].at \in {"undone", "stopped"}

\* Something is still to be reported of an object.
StopsOf(o) == \E s \in Stops : cmd[s].at = "stopping" /\ cmd[s].o = o
Stray(o) == Len(objs[o].reports) # 0 \/ StopsOf(o)

\* Then there is no session and nothing starts one, and a command awaits its last report.
Left(o) ==
    o # cur => /\ Len(objs[o].reports) # 0 => LastWaits(o)
               /\ Stray(o) => cur = 0 /\ NoStart

StrayInv == \A o \in 1..Len(objs) : Left(o)

\* A session that is resumed anew has no report yet, and a stop waits for its runtime.
Anew(c) == c \in Resumes /\ ~cmd[c].live
Fresh(c) ==
    Anew(c) /\ cmd[c].at \in {"starting", "failing"} =>
        /\ Len(objs[cmd[c].o].reports) = 0
        /\ \A s \in Stops : cmd[s].at = "stopping" /\ cmd[s].o = cmd[c].o => cmd[s].k = cmd[c].k

\* The last status sent of the session is its status, but for one that is resumed anew.
Sent(o) ==
    LET n == Len(objs[o].reports) IN IF n = 0 THEN shown ELSE objs[o].reports[n].status
Reviving == \E c \in Commands : Anew(c) /\ cmd[c].at \in StartsUp \cup {"failing"}
AgreeInv == cur # 0 /\ ~dropped /\ denied = {} => Sent(cur) = objs[cur].status \/ Reviving

ShownInv == (\A c \in Commands : Kinds(c) /\ Fresh(c)) /\ StrayInv /\ AgreeInv

\* One command of each kind, and what holds of the session then.
Alone ==
    /\ OneLaunch /\ OneResume /\ OneStop
    /\ Types /\ Base /\ OneAtATime /\ SessionInv /\ ResumedLater

\* What is handled, but the launch, waits until the launch has its result.
LEMMA LaunchAlone ==
  ASSUME Alone, NEW l \in Launches, cmd[l].at # "idle",
         NEW d \in Starters, d \in issued
  PROVE  d = l
<1>1. l \in issued /\ recorded[l] = None
  BY DEF Alone, Base, Handled, Commands
<1>2. d \notin Resumes
  BY <1>1 DEF Alone, ResumedLater, OneLaunch
<1> QED
  BY <1>2 DEF Alone, OneLaunch, Starters

\* The handlers that change nothing of the session.
LEMMA CurRecord ==
  ASSUME NEW d \in Commands, Issue(d) \/ Handle(d) \/ Continue(d) \/ StartFails(d)
  PROVE  \/ Launch(d) \/ Resume(d) \/ LaunchFailed(d) \/ ResumeFailed(d)
         \/ RegisterNative(d) /\ cur' = cur /\ record = "recorded" /\ record' = "native"
         \/ cur' = cur /\ record' = record
<1>1. CASE Issue(d) \/ DeliverDone(d) \/ LaunchAlready(d) \/ LaunchRefused(d)
           \/ ResumeRefused(d) \/ StopRefused(d) \/ Stop(d)
  BY <1>1 DEF Issue, DeliverDone, LaunchAlready, LaunchRefused, ResumeRefused, StopRefused, Stop, daemon
<1>2. CASE \/ StartAdapter(d) \/ Spawn(d) \/ AdapterStarts(d) \/ Connect(d) \/ StartFails(d)
  BY <1>2 DEF StartAdapter, Spawn, AdapterStarts, Connect, StartFails, daemon
<1>3. CASE \/ CommandApplied(d) \/ CommandReported(d) \/ StopApplied(d) \/ StopUnknown(d) \/ Post(d)
  BY <1>3 DEF CommandApplied, CommandReported, StopApplied, StopUnknown, Post
<1>4. CASE RegisterNative(d)
  BY <1>4 DEF RegisterNative, daemon
<1> QED
  BY <1>1, <1>2, <1>3, <1>4 DEF Handle, Continue

\* Where a step takes the handler of a command.
LEMMA CommandMoves ==
  ASSUME CoreTypes, NEW d \in Commands, Issue(d) \/ Handle(d) \/ Continue(d) \/ StartFails(d)
  PROVE  \/ cmd' = cmd
         \/ /\ CmdOnly(d)
            /\ \/ cmd'[d].at \in {"posting", "idle"}
               \/ cmd'[d].at = "reporting" /\ Launch(d)
               \/ cmd'[d].at = "starting" /\ (Resume(d) \/ cmd[d].at = "start")
               \/ cmd'[d].at \in {"started", "failing"} /\ cmd[d].at = "starting"
               \/ cmd'[d].at = "undone" /\ LaunchFailed(d)
               \/ cmd'[d].at = "connecting" /\ Connect(d)
               \/ cmd'[d].at = "stopping" /\ Stop(d)
               \/ cmd'[d].at = "stopped" /\ StopApplied(d)
<1>1. CASE Issue(d) \/ DeliverDone(d) \/ RegisterNative(d)
  BY <1>1, RestEffect
<1>2. CASE Spawn(d) \/ AdapterStarts(d)
  BY <1>2, StateEffect
<1>3. CASE Ends(d)
  BY <1>3, EndsEffect
<1>4. CASE Launch(d) \/ Resume(d)
  BY <1>4, LaunchEffect, ResumeEffect
<1>5. CASE Stop(d) \/ StopApplied(d)
  BY <1>5, StopEffect, StopAppliedEffect
<1>6. CASE StartAdapter(d) \/ StartFails(d)
  BY <1>6, StartAdapterEffect, StartFailsEffect
<1>7. CASE LaunchFailed(d)
  BY <1>7, LaunchFailedEffect
<1>8. CASE ResumeFailed(d)
  BY <1>8, ResumeFailedEffect
<1>9. CASE Connect(d)
  BY <1>9, ConnectEffect
<1> QED
  BY <1>1, <1>2, <1>3, <1>4, <1>5, <1>6, <1>7, <1>8, <1>9 DEF Handle, Continue, Ends

LEMMA KindsKept ==
  ASSUME NEW c, Kinds(c), cmd'[c] = cmd[c],
         c \in Launches /\ cmd[c].at # "idle" =>
            /\ cur = 0 /\ record = "none" => cur' = 0 /\ record' = "none"
            /\ cur # 0 => cur' # 0
  PROVE  Kinds(c)'
BY DEF Kinds

LEMMA KindsCommand ==
  ASSUME Alone, \A c \in Commands : Kinds(c), NEW d \in Commands,
         Issue(d) \/ Handle(d) \/ Continue(d) \/ StartFails(d)
  PROVE  \A c \in Commands : Kinds(c)'
<1>0. CoreTypes /\ Handled /\ SessionInv
  BY DEF Alone, Base
<1>1. ASSUME NEW c \in Commands, cmd'[c] = cmd[c], c # d \/ cmd' = cmd PROVE Kinds(c)'
  <2> SUFFICES ASSUME c \in Launches, cmd[c].at # "idle"
               PROVE  /\ cur = 0 /\ record = "none" => cur' = 0 /\ record' = "none"
                      /\ cur # 0 => cur' # 0
    BY <1>1, KindsKept
  <2>1. \A l \in Launches : cmd[l].at # "idle" => l = c
    BY DEF Alone, OneLaunch
  <2>2. ~Launch(d) /\ ~LaunchFailed(d)
    <3>1. CASE Launch(d)
      <4>1. d \in Launches /\ cmd[d].at = "idle" /\ cmd'[d].at = "reporting"
        BY <1>0, <3>1, LaunchEffect DEF Launch, Handling, Received
      <4> QED
        BY <1>1, <4>1 DEF Alone, OneLaunch
    <3>2. CASE LaunchFailed(d)
      <4>1. d \in Launches /\ cmd[d].at = "failing" /\ cmd'[d].at = "undone"
        BY <1>0, <3>2, LaunchFailedEffect DEF LaunchFailed
      <4> QED
        BY <1>1, <4>1 DEF Alone, OneLaunch
    <3> QED
      BY <3>1, <3>2
  <2>3. ~Resume(d) /\ ~ResumeFailed(d)
    <3>1. Resume(d) \/ ResumeFailed(d) => d \in Resumes /\ d \in issued
      BY <1>0 DEF Resume, ResumeFailed, Handling, Received, Handled
    <3>2. d \in Resumes /\ d \in issued => d = c
      BY LaunchAlone DEF Starters
    <3> QED
      BY <3>1, <3>2, DaemonAssumption
  <2> QED
    BY <2>2, <2>3, CurRecord
<1>2. CASE cmd' = cmd
  BY <1>1, <1>2
<1>3. CASE CmdOnly(d) /\ cmd'[d].at \notin {"undone", "stopped", "reported", "connecting", "connected", "prompting"}
  <2>1. Kinds(d)'
    BY <1>3 DEF Kinds
  <2> QED
    BY <1>1, <1>3, <2>1 DEF CmdOnly
<1>4. CASE LaunchFailed(d)
  <2>1. /\ d \in Launches /\ CmdOnly(d) /\ cmd'[d].at = "undone" /\ cur' = 0 /\ record' = "none"
    BY <1>0, <1>4, LaunchFailedEffect DEF LaunchFailed
  <2>2. Kinds(d)'
    BY <2>1 DEF Kinds
  <2> QED
    BY <1>1, <2>1, <2>2 DEF CmdOnly
<1>5. CASE Connect(d)
  <2>1. /\ CmdOnly(d) /\ cmd'[d].at = "connecting" /\ cur' = cur
        /\ cmd[d].at = "started" /\ cmd[d].o \in 1..Len(objs)
    BY <1>0, <1>5, ConnectEffect
  <2>2. cur = cmd[d].o
    BY <1>0, <2>1 DEF SessionInv, Start, StartsUp
  <2>3. Kinds(d)'
    BY <2>1, <2>2 DEF Kinds
  <2> QED
    BY <1>1, <2>1, <2>3 DEF CmdOnly
<1>6. CASE StopApplied(d)
  <2>1. cmd[d].at = "stopping" /\ CmdOnly(d) /\ cmd'[d].at = "stopped"
    BY <1>0, <1>6, StopAppliedEffect
  <2>2. Kinds(d)'
    BY <1>0, <2>1 DEF Kinds, Handled
  <2> QED
    BY <1>1, <2>1, <2>2 DEF CmdOnly
<1> QED
  BY <1>0, <1>2, <1>3, <1>4, <1>5, <1>6, CommandMoves

LEMMA KindsReport ==
  ASSUME Alone, \A c \in Commands : Kinds(c), NEW o \in DOMAIN objs,
         ReportDelivered(o) \/ ReportFails(o) \/ ReportRefused(o)
  PROVE  \A c \in Commands : Kinds(c)'
<1>0. CoreTypes /\ Waiters
  BY DEF Alone, Base
<1>1. PICK w : w = objs[o].reports[1].waits
  OBVIOUS
<1>2. /\ cur' = cur /\ record' = record
      /\ w = None => cmd' = cmd
      /\ w # None => w \in Commands /\ CmdOnly(w) /\ GoesOn(cmd[w].at, cmd'[w].at) /\ cmd[w].at \in Waiting
  <2>1. /\ o \in 1..Len(objs) /\ Len(objs[o].reports) \in Nat \ {0} /\ cur' = cur
        /\ w = None => cmd' = cmd
        /\ w # None => w \in Commands /\ CmdOnly(w) /\ GoesOn(cmd[w].at, cmd'[w].at)
    BY <1>0, <1>1, ReportEffect
  <2>2. Waits(o, 1, w)
    BY <1>1, <2>1 DEF Waits
  <2> QED
    BY <1>0, <2>1, <2>2 DEF Waiters, ReportDelivered, ReportFails, ReportRefused
<1> SUFFICES ASSUME NEW c \in Commands PROVE Kinds(c)'
  OBVIOUS
<1>3. CASE cmd'[c] = cmd[c]
  BY <1>2, <1>3, KindsKept
<1>4. CASE w # None /\ c = w
  BY <1>2, <1>4, DaemonAssumption DEF Kinds, GoesOn, Waiting
<1> QED
  BY <1>2, <1>3, <1>4 DEF CmdOnly

LEMMA KindsStep == Alone /\ (\A c \in Commands : Kinds(c)) /\ [Next]_vars => \A c \in Commands : Kinds(c)'
<1> SUFFICES ASSUME Alone, \A c \in Commands : Kinds(c), [Next]_vars PROVE \A c \in Commands : Kinds(c)'
  OBVIOUS
<1>0. CoreTypes
  BY DEF Alone, Base
<1>1. CASE \E c \in Commands : Issue(c) \/ Handle(c) \/ Continue(c) \/ StartFails(c)
  BY <1>1, KindsCommand
<1>2. CASE \E o \in DOMAIN objs : ReportDelivered(o) \/ ReportFails(o) \/ ReportRefused(o)
  BY <1>2, KindsReport
<1>3. CASE \/ \E k \in DOMAIN procs : Prompt(k) \/ RuntimeStatus(k) \/ RuntimeEnds(k) \/ ProcessExits(k)
           \/ Restart \/ UNCHANGED vars
  <2>1. cmd' = cmd /\ cur' = cur /\ record' = record
    BY <1>3 DEF Prompt, RuntimeStatus, RuntimeEnds, ProcessExits, Restart, vars, daemon
  <2> QED
    BY <2>1, KindsKept
<1>4. CASE Crash
  BY <1>0, <1>4, CrashEffect DEF Kinds
<1> QED
  BY <1>1, <1>2, <1>3, <1>4 DEF Next

-----------------------------------------------------------------------------
\* A session that is resumed anew

\* Where the first reports of a session that is resumed are, and who stops it.
LEMMA FreshKept ==
  ASSUME NEW c \in Commands, Fresh(c), cmd[c].at \in {"starting", "failing"},
         Elsewhere(cmd'[c], cmd[c]),
         objs'[cmd[c].o].reports = objs[cmd[c].o].reports,
         \A s \in Stops : cmd'[s].at = "stopping" =>
            cmd[s].at = "stopping" /\ cmd'[s].o = cmd[s].o /\ cmd'[s].k = cmd[s].k
  PROVE  Fresh(c)'
BY DEF Fresh, Anew, Elsewhere

\* One that c is resuming is the session, and nothing else is started.
LEMMA Resuming ==
  ASSUME Alone, NEW c \in Resumes, cmd[c].at \in {"starting", "failing"}
  PROVE  /\ c \in Commands /\ cmd[c].o \in 1..Len(objs) /\ cmd[c].o = cur
         /\ cmd[c].k \in 1..Len(procs) /\ procs[cmd[c].k].st \in {"created", "starting"}
         /\ cmd[c].at = "starting" => objs[cur].adapter = cmd[c].k
         /\ cmd[c].at = "failing" => objs[cur].adapter = 0
         /\ \A d \in Commands : d # c => cmd[d].at \notin Busy /\ ~(d \in Starters /\ Received(d))
<1>0. CoreTypes /\ Handled /\ OneAtATime
  BY DEF Alone, Base
<1>1. c \in Commands /\ cmd[c].at \in Busy
  BY DEF Commands, Busy, StartsUp
<1>2. cmd[c].o \in 1..Len(objs) /\ cmd[c].k \in 1..Len(procs)
  BY <1>0, <1>1, Captured DEF HasObject, HasAdapter
<1>3. Start(c)
  BY <1>1 DEF Alone, SessionInv
<1>4. \A d \in Commands : d # c => cmd[d].at \notin Busy /\ ~(d \in Starters /\ Received(d))
  BY <1>0, <1>1, BusyOne, NoneBusy
<1> QED
  BY <1>1, <1>2, <1>3, <1>4 DEF Start, StartsUp

LEMMA FreshCommand ==
  ASSUME Alone, NEW c \in Resumes, Fresh(c), cmd[c].at \in {"starting", "failing"},
         cmd'[c].at \in {"starting", "failing"}, Anew(c)', NEW d \in Commands,
         Issue(d) \/ Handle(d) \/ Continue(d) \/ StartFails(d)
  PROVE  Fresh(c)'
<1>0. CoreTypes /\ Handled
  BY DEF Alone, Base
<1>1. /\ c \in Commands /\ cmd[c].o \in 1..Len(objs) /\ cmd[c].o = cur
      /\ procs[cmd[c].k].st \in {"created", "starting"}
      /\ cmd[c].at = "starting" => objs[cur].adapter = cmd[c].k
      /\ cmd[c].at = "failing" => objs[cur].adapter = 0
      /\ \A e \in Commands : e # c => cmd[e].at \notin Busy /\ ~(e \in Starters /\ Received(e))
  BY Resuming
<1>2. c \notin Stops /\ \A s \in Stops : s \in Commands
  BY DaemonAssumption DEF Commands
<1>3. CASE /\ KeepObjs /\ \A e \in Commands : Elsewhere(cmd'[e], cmd[e]) \/ cmd'[e].at \notin {"stopping", "starting", "failing"}
           /\ \A s \in Stops : cmd'[s].at = "stopping" => cmd[s].at = "stopping"
  BY <1>1, <1>2, <1>3, FreshKept DEF KeepObjs, Elsewhere
<1>4. CASE Issue(d) \/ DeliverDone(d) \/ RegisterNative(d) \/ Spawn(d)
  <2>1. cmd' = cmd /\ KeepObjs
    BY <1>0, <1>4, RestEffect, StateEffect
  <2> QED
    BY <1>3, <2>1 DEF Elsewhere
<1>5. CASE Ends(d)
  <2>1. KeepObjs /\ CmdOnly(d) /\ cmd'[d].at \in {"posting", "idle"}
    BY <1>0, <1>5, EndsEffect
  <2> QED
    BY <1>2, <1>3, <2>1 DEF CmdOnly, Elsewhere
<1>6. CASE d # c /\ (StartAdapter(d) \/ AdapterStarts(d) \/ LaunchFailed(d) \/ ResumeFailed(d)
                     \/ Connect(d) \/ StartFails(d))
  <2>1. cmd[d].at \in Busy
    BY <1>6 DEF StartAdapter, AdapterStarts, LaunchFailed, ResumeFailed, Connect, StartFails,
                Busy, Begins, StartsUp
  <2> QED
    BY <1>1, <1>6, <2>1
<1>7. CASE Launch(d) \/ Resume(d)
  <2>1. d \in Starters /\ Received(d) /\ cmd[d].at = "idle"
    BY <1>7 DEF Launch, Resume, Handling, Received, Starters
  <2> QED
    BY <1>1, <2>1
<1>8. CASE d = c /\ (StartAdapter(d) \/ AdapterStarts(d) \/ LaunchFailed(d) \/ ResumeFailed(d) \/ Connect(d))
  BY <1>0, <1>8, StartAdapterEffect, StateEffect, LaunchFailedEffect, ResumeFailedEffect, ConnectEffect
<1>9. CASE d = c /\ StartFails(d)
  <2>1. /\ CmdOnly(c) /\ Elsewhere(cmd'[c], cmd[c])
        /\ objs'[cmd[c].o].reports = objs[cmd[c].o].reports
    BY <1>0, <1>9, StartFailsEffect
  <2> QED
    BY <1>1, <1>2, <2>1, FreshKept DEF CmdOnly
<1>10. CASE Stop(d)
  <2>1. /\ d \in Stops /\ objs[cur].adapter # 0 /\ KeepObjs /\ CmdOnly(d)
        /\ cmd'[d].k = objs[cur].adapter
    BY <1>0, <1>10, StopEffect
  <2> QED
    BY <1>1, <1>2, <2>1 DEF CmdOnly, Fresh, Anew, KeepObjs
<1>11. CASE StopApplied(d)
  <2>1. /\ cmd[d].at = "stopping" /\ procs[cmd[d].k].st = "gone" /\ CmdOnly(d)
        /\ cmd'[d].at = "stopped" /\ ObjOnly(cmd[d].o)
    BY <1>0, <1>11, StopAppliedEffect
  <2>2. d \in Stops /\ cmd'[c] = cmd[c]
    BY <1>0, <1>1, <1>2, <2>1 DEF Handled, CmdOnly
  <2>3. cmd[d].o # cmd[c].o
    BY <1>1, <2>1, <2>2 DEF Fresh, Anew
  <2>4. objs'[cmd[c].o] = objs[cmd[c].o]
    BY <1>1, <2>1, <2>3 DEF ObjOnly
  <2> QED
    BY <1>1, <1>2, <2>1, <2>2, <2>4, FreshKept DEF CmdOnly, Elsewhere
<1> QED
  BY <1>4, <1>5, <1>6, <1>7, <1>8, <1>9, <1>10, <1>11 DEF Handle, Continue, Ends

LEMMA FreshResumed ==
  ASSUME Alone, NEW c \in Commands, Resume(c)
  PROVE  Fresh(c)'
<1>0. CoreTypes
  BY DEF Alone, Base
<1>1. /\ c \in Resumes /\ CmdOnly(c) /\ cmd'[c].o = cur'
      /\ \/ cmd'[c].live
         \/ cur' = Len(objs) + 1 /\ objs'[cur'].reports = <<>>
  BY <1>0, ResumeEffect
<1>2. \A s \in Stops : s \in Commands /\ s # c /\ cmd[s].o <= Len(objs) /\ cmd[s].o \in Nat
  BY <1>0, <1>1, CoreFacts, Captured, DaemonAssumption DEF Commands, HandlerFits
<1> QED
  BY <1>0, <1>1, <1>2, CoreFacts DEF Fresh, Anew, CmdOnly

LEMMA FreshReport ==
  ASSUME Alone, NEW c \in Resumes, Fresh(c), Anew(c), cmd[c].at \in {"starting", "failing"}, NEW o \in DOMAIN objs,
         ReportDelivered(o) \/ ReportFails(o) \/ ReportRefused(o)
  PROVE  Fresh(c)'
<1>0. CoreTypes /\ Waiters
  BY DEF Alone, Base
<1>1. PICK w : w = objs[o].reports[1].waits
  OBVIOUS
<1>2. /\ o \in 1..Len(objs) /\ Len(objs[o].reports) \in Nat \ {0} /\ ObjOnly(o)
      /\ w = None => cmd' = cmd
      /\ w # None => w \in Commands /\ CmdOnly(w) /\ GoesOn(cmd[w].at, cmd'[w].at)
  BY <1>0, <1>1, ReportEffect
<1>3. w # None => cmd[w].at \in Waiting
  <2>1. Waits(o, 1, w)
    BY <1>1, <1>2 DEF Waits
  <2> QED
    BY <1>0, <2>1 DEF Waiters
<1>4. o # cmd[c].o
  BY <1>2 DEF Fresh
<1>5. objs'[cmd[c].o] = objs[cmd[c].o]
  BY <1>2, <1>4, Resuming DEF ObjOnly
<1>6. c \in Commands /\ \A s \in Stops : s \in Commands
  BY DEF Commands
<1>7. \A d \in Commands : cmd'[d] = cmd[d] \/ (d = w /\ cmd[d].at \in Waiting /\ cmd'[d].at # "stopping")
  BY <1>2, <1>3 DEF CmdOnly, GoesOn
<1>8. cmd'[c] = cmd[c] /\ \A s \in Stops : cmd'[s].at = "stopping" => cmd'[s] = cmd[s]
  BY <1>6, <1>7 DEF Waiting
<1> QED
  BY <1>5, <1>6, <1>8, FreshKept DEF Elsewhere

LEMMA FreshStep == Alone /\ (\A c \in Commands : Fresh(c)) /\ [Next]_vars => \A c \in Commands : Fresh(c)'
<1> SUFFICES ASSUME Alone, \A c \in Commands : Fresh(c), [Next]_vars, NEW c \in Resumes,
                    Anew(c)', cmd'[c].at \in {"starting", "failing"}
             PROVE  Fresh(c)'
  BY DEF Fresh, Anew
<1>0. CoreTypes /\ SessionInv /\ c \in Commands
  BY DEF Alone, Base, Commands
<1>1. CASE \E d \in Commands : Issue(d) \/ Handle(d) \/ Continue(d) \/ StartFails(d)
  <2>1. PICK d \in Commands : Issue(d) \/ Handle(d) \/ Continue(d) \/ StartFails(d)
    BY <1>1
  <2>2. CASE cmd[c].at \in {"starting", "failing"}
    BY <1>0, <2>1, <2>2, FreshCommand
  <2>3. CASE cmd[c].at \notin {"starting", "failing"} /\ ~Resume(c)
    <3>1. cmd[c].at # "start"
      BY <1>0, DaemonAssumption DEF Alone, Base, Handled, Begins
    <3>2. cmd' = cmd \/ CmdOnly(d)
      BY <1>0, <2>1, CommandMoves
    <3>3. cmd' # cmd /\ d = c
      BY <1>0, <2>3, <3>2 DEF CmdOnly
    <3> QED
      BY <1>0, <2>1, <2>3, <3>1, <3>3, CommandMoves
  <2>4. CASE Resume(c)
    BY <1>0, <2>4, FreshResumed
  <2> QED
    BY <2>2, <2>3, <2>4
<1>2. CASE \E o \in DOMAIN objs : ReportDelivered(o) \/ ReportFails(o) \/ ReportRefused(o)
  <2>1. PICK o \in DOMAIN objs : ReportDelivered(o) \/ ReportFails(o) \/ ReportRefused(o)
    BY <1>2
  <2>2. CASE cmd'[c] = cmd[c]
    BY <1>0, <2>1, <2>2, FreshReport DEF Anew
  <2>3. CASE cmd'[c] # cmd[c]
    <3>1. PICK w \in Commands : CmdOnly(w) /\ GoesOn(cmd[w].at, cmd'[w].at)
      BY <1>0, <2>1, <2>3, ReportEffect
    <3> QED
      BY <1>0, <2>3, <3>1 DEF CmdOnly, GoesOn
  <2> QED
    BY <2>2, <2>3
<1>3. CASE Restart \/ UNCHANGED vars \/ \E k \in DOMAIN procs : Prompt(k) \/ ProcessExits(k)
  <2>1. cmd' = cmd /\ KeepObjs
    BY <1>0, <1>3, RestEffect, ProcessExitsEffect
  <2> QED
    BY <1>0, <2>1, FreshKept DEF KeepObjs, Elsewhere
<1>4. CASE \E k \in DOMAIN procs : RuntimeStatus(k) \/ RuntimeEnds(k)
  <2>1. PICK k \in DOMAIN procs : RuntimeStatus(k) \/ RuntimeEnds(k)
    BY <1>4
  <2>2. k \in 1..Len(procs) /\ procs[k].st = "up" /\ cmd' = cmd
    BY <1>0, <2>1, RuntimeStatusEffect, RuntimeEndsEffect
  <2>3. cmd[c].at \in Busy => cmd[c].at = "started"
    BY <1>0, <2>2, UpIsOwn
  <2> QED
    BY <2>2, <2>3 DEF Busy, StartsUp
<1>5. CASE Crash
  BY <1>0, <1>5, CrashEffect
<1> QED
  BY <1>1, <1>2, <1>3, <1>4, <1>5 DEF Next

-----------------------------------------------------------------------------
\* The last status sent

LEMMA AgreeNext ==
  ASSUME AgreeInv, cur' = cur, UNCHANGED <<shown, ghost>>, Reviving => Reviving',
         cur # 0 => objs'[cur].status = objs[cur].status /\ objs'[cur].reports = objs[cur].reports
  PROVE  AgreeInv'
<1> SUFFICES ASSUME cur # 0, ~dropped, denied = {} PROVE Sent(cur)' = objs'[cur].status \/ Reviving'
  BY DEF AgreeInv, ghost
<1>1. Sent(cur) = objs[cur].status \/ Reviving
  BY DEF AgreeInv
<1>2. Sent(cur)' = Sent(cur)
  BY DEF Sent
<1> QED
  BY <1>1, <1>2

LEMMA AgreeNone ==
  ASSUME cur' = 0
  PROVE  AgreeInv'
BY DEF AgreeInv

\* The status is set as it is reported.
LEMMA AgreeGains ==
  ASSUME CoreTypes, NEW o \in 1..Len(objs), NEW r, Gains(o, r), objs'[o].status = r.status, cur' = o
  PROVE  AgreeInv'
<1>1. Len(objs[o].reports) \in Nat
  BY ReportTypes
<1>2. Sent(cur)' = r.status
  BY <1>1 DEF Sent, Gains
<1> QED
  BY <1>2 DEF AgreeInv

LEMMA ShownSame ==
  ASSUME Alone, NEW d \in Commands, Issue(d) \/ Handle(d) \/ Continue(d) \/ StartFails(d)
  PROVE  UNCHANGED <<shown, ghost>>
<1>1. UNCHANGED ghost
  BY OthersCommand DEF Alone, Types
<1>2. CASE Issue(d) \/ DeliverDone(d) \/ LaunchAlready(d) \/ LaunchRefused(d) \/ Launch(d)
           \/ ResumeRefused(d) \/ Resume(d) \/ StopRefused(d) \/ Stop(d)
  BY <1>1, <1>2 DEF Issue, DeliverDone, LaunchAlready, LaunchRefused, Launch, ResumeRefused, Resume,
                    StopRefused, Stop
<1>3. CASE \/ StartAdapter(d) \/ Spawn(d) \/ RegisterNative(d) \/ AdapterStarts(d)
           \/ LaunchFailed(d) \/ ResumeFailed(d) \/ Connect(d) \/ CommandApplied(d)
  BY <1>1, <1>3 DEF StartAdapter, Spawn, RegisterNative, AdapterStarts, LaunchFailed, ResumeFailed,
                    Connect, CommandApplied
<1>4. CASE CommandReported(d) \/ StopApplied(d) \/ StopUnknown(d) \/ Post(d) \/ StartFails(d)
  BY <1>1, <1>4 DEF CommandReported, StopApplied, StopUnknown, Post, StartFails
<1> QED
  BY <1>2, <1>3, <1>4 DEF Handle, Continue

\* A session that is resumed anew is, until it connects or fails to start.
LEMMA RevivingKept ==
  ASSUME \A c \in Commands : cmd[c].at \in StartsUp \cup {"failing"} =>
            cmd'[c].at \in StartsUp \cup {"failing"} /\ cmd'[c].live = cmd[c].live
  PROVE  Reviving => Reviving'
BY DEF Reviving, Anew

\* No other command resumes a session while d starts or is received.
LEMMA RevivesAlone ==
  ASSUME Alone, NEW d \in Commands, cmd[d].at \in Busy \/ (d \in Starters /\ Received(d)), Reviving
  PROVE  Anew(d) /\ cmd[d].at \in StartsUp \cup {"failing"}
<1>1. PICK c \in Commands : Anew(c) /\ cmd[c].at \in StartsUp \cup {"failing"}
  BY DEF Reviving
<1>2. cmd[c].at \in Busy
  BY <1>1 DEF Busy
<1>3. c = d
  BY <1>2, BusyOne, NoneBusy DEF Alone, Base
<1> QED
  BY <1>1, <1>3

LEMMA AgreeCommand ==
  ASSUME Alone, StrayInv, AgreeInv, NEW d \in Commands,
         Issue(d) \/ Handle(d) \/ Continue(d) \/ StartFails(d)
  PROVE  AgreeInv'
<1>0. CoreTypes /\ Handled /\ SessionInv
  BY DEF Alone, Base
<1>1. UNCHANGED <<shown, ghost>>
  BY ShownSame
<1>2. cur \in Nat /\ (cur # 0 => cur \in 1..Len(objs))
  BY <1>0, CoreFacts
<1>3. CASE KeepObjs /\ (cmd' = cmd \/ (CmdOnly(d) /\ cmd[d].at \notin StartsUp \cup {"failing"}))
  <2>1. Reviving => Reviving'
    BY <1>3, RevivingKept DEF CmdOnly
  <2> QED
    BY <1>1, <1>3, <2>1, AgreeNext DEF KeepObjs
<1>4. CASE Issue(d) \/ DeliverDone(d) \/ RegisterNative(d) \/ Spawn(d)
  BY <1>0, <1>3, <1>4, RestEffect, StateEffect
<1>5. CASE Ends(d)
  BY <1>0, <1>3, <1>5, EndsEffect DEF StartsUp
<1>6. CASE Stop(d)
  <2>1. cmd[d].at = "idle"
    BY <1>6 DEF Stop, Handling, Received
  <2> QED
    BY <1>0, <1>3, <1>6, <2>1, StopEffect DEF StartsUp
<1>7. CASE AdapterStarts(d)
  <2>1. KeepObjs /\ CmdOnly(d) /\ cmd'[d].at = "started" /\ Elsewhere(cmd'[d], cmd[d])
    BY <1>0, <1>7, StateEffect
  <2>2. Reviving => Reviving'
    BY <2>1, RevivingKept DEF CmdOnly, Elsewhere, StartsUp
  <2> QED
    BY <1>1, <2>1, <2>2, AgreeNext DEF KeepObjs
<1>8. CASE StartAdapter(d) \/ StartFails(d)
  <2>1. PICK o \in 1..Len(objs) :
          /\ cur' = cur /\ ObjOnly(o) /\ objs'[o].status = objs[o].status
          /\ objs'[o].reports = objs[o].reports /\ CmdOnly(d)
          /\ \/ cmd[d].at = "start"
             \/ cmd'[d].at = "failing" /\ Elsewhere(cmd'[d], cmd[d])
    <3>1. CASE StartAdapter(d)
      BY <1>0, <3>1, StartAdapterEffect
    <3>2. CASE StartFails(d)
      BY <1>0, <3>2, StartFailsEffect
    <3> QED
      BY <1>8, <3>1, <3>2
  <2>2. Reviving => Reviving'
    BY <2>1, RevivingKept DEF CmdOnly, Elsewhere, StartsUp
  <2> QED
    BY <1>1, <1>2, <2>1, <2>2, AgreeNext DEF ObjOnly
<1>9. CASE LaunchFailed(d)
  BY <1>0, <1>9, LaunchFailedEffect, AgreeNone
<1>10. CASE ResumeFailed(d)
  <2>1. PICK o : /\ cmd[d].at = "failing"
                 /\ \/ cur' = 0
                    \/ /\ cmd[d].live /\ cur' = cur /\ ObjOnly(o)
                       /\ objs'[o].status = objs[o].status /\ objs'[o].reports = objs[o].reports
    BY <1>0, <1>10, ResumeFailedEffect
  <2>2. cmd[d].live => ~Reviving
    BY <2>1, RevivesAlone DEF Busy, Anew
  <2>3. CASE cmd[d].live /\ cur' = cur
    BY <1>1, <1>2, <2>1, <2>2, <2>3, AgreeNext, AgreeNone DEF ObjOnly
  <2> QED
    BY <2>1, <2>3, AgreeNone
<1>11. CASE Connect(d)
  <2> DEFINE o == cmd[d].o
  <2> DEFINE r == Rep(Held(o), cmd[d].k, d, TRUE)
  <2>1. /\ cmd[d].at = "started" /\ o \in 1..Len(objs) /\ cur' = cur
        /\ Gains(o, r) /\ objs'[o].status = r.status
    BY <1>0, <1>11, ConnectEffect
  <2>2. cur = o
    BY <1>0, <2>1 DEF SessionInv, Start, StartsUp
  <2> HIDE DEF o, r
  <2> QED
    BY <1>0, <2>1, <2>2, AgreeGains
<1>12. CASE Launch(d)
  <2>1. PICK n : /\ cur' = n /\ objs'[n].status = "starting" /\ Len(objs'[n].reports) = 1
                 /\ objs'[n].reports[1] = Rep("starting", 0, d, FALSE)
    BY <1>0, <1>12, LaunchEffect
  <2>2. Sent(cur)' = "starting"
    BY <2>1 DEF Sent, Rep
  <2> QED
    BY <2>1, <2>2 DEF AgreeInv
<1>13. CASE Resume(d)
  <2>1. d \in Starters /\ Received(d) /\ cmd[d].at = "idle"
    BY <1>13 DEF Resume, Handling, Received, Starters
  <2>2. ~Reviving
    BY <2>1, RevivesAlone DEF StartsUp
  <2>3. PICK o : /\ o = cur' /\ d \in Resumes /\ cmd'[d].at = "starting"
                 /\ \/ /\ cur # 0 /\ o = cur /\ objs'[o].reports = objs[o].reports
                       /\ objs'[o].status = objs[o].status
                    \/ ~cmd'[d].live
    BY <1>0, <1>13, ResumeEffect
  <2>4. CASE ~cmd'[d].live
    <3>1. Reviving'
      BY <2>3, <2>4 DEF Reviving, Anew, StartsUp
    <3> QED
      BY <3>1 DEF AgreeInv
  <2> QED
    BY <1>1, <2>2, <2>3, <2>4, AgreeNext
<1>14. CASE StopApplied(d)
  <2> DEFINE o == cmd[d].o
  <2> DEFINE r == Rep("stopped", cmd[d].k, d, FALSE)
  <2>1. /\ cmd[d].at = "stopping" /\ o \in 1..Len(objs) /\ cur' = cur
        /\ Gains(o, r) /\ objs'[o].status = r.status
    <3>1. r.status = "stopped"
      BY DEF Rep
    <3> QED
      BY <1>0, <1>14, <3>1, StopAppliedEffect
  <2>5. cmd[d].o = o
    OBVIOUS
  <2> HIDE DEF o, r
  <2>2. CASE o = cur
    BY <1>0, <2>1, <2>2, AgreeGains
  <2>3. CASE o # cur
    <3>1. Stray(o)
      BY <1>0, <2>1, <2>5 DEF Handled, Stray, StopsOf
    <3> QED
      BY <2>1, <2>3, <3>1, AgreeNone DEF StrayInv, Left
  <2> QED
    BY <2>2, <2>3
<1> QED
  BY <1>4, <1>5, <1>6, <1>7, <1>8, <1>9, <1>10, <1>11, <1>12, <1>13, <1>14 DEF Handle, Continue, Ends

\* What is shown once a report was attempted, if none is refused or dropped.
LEMMA ReportShows ==
  ASSUME CoreTypes, NEW o \in DOMAIN objs, ReportDelivered(o) \/ ReportFails(o) \/ ReportRefused(o),
         ~dropped', denied' = {}
  PROVE  /\ ~dropped /\ denied = {}
         /\ \/ Loses(o) /\ shown' = objs[o].reports[1].status
            \/ Repeats(o)
<1>1. o \in 1..Len(objs) /\ objs[o].reports # <<>>
  BY CoreFacts DEF ReportDelivered, ReportFails, ReportRefused
<1>2. /\ Head(objs[o].reports) = objs[o].reports[1]
      /\ Pop(o) => Loses(o)
      /\ Retry(o, Head(objs[o].reports)) => Repeats(o)
  BY <1>1, Attempted, CoreFacts
<1>3. ~ReportRefused(o)
  BY DEF ReportRefused
<1>4. CASE ReportDelivered(o)
  BY <1>2, <1>4 DEF ReportDelivered, Show
<1>5. CASE ReportFails(o)
  BY <1>2, <1>5 DEF ReportFails
<1> QED
  BY <1>3, <1>4, <1>5

LEMMA AgreeReport ==
  ASSUME Alone, StrayInv, AgreeInv, NEW o \in DOMAIN objs,
         ReportDelivered(o) \/ ReportFails(o) \/ ReportRefused(o)
  PROVE  AgreeInv'
<1>0. CoreTypes /\ Waiters
  BY DEF Alone, Base
<1>1. PICK n : n = Len(objs[o].reports)
  OBVIOUS
<1>2. /\ o \in 1..Len(objs) /\ n \in Nat \ {0} /\ cur' = cur
      /\ objs'[o].status = objs[o].status
  BY <1>0, <1>1, ReportEffect DEF SameFields
<1>3. CASE o # cur
  <2>1. Stray(o)
    BY <1>1, <1>2 DEF Stray
  <2> QED
    BY <1>2, <1>3, <2>1, AgreeNone DEF StrayInv, Left
<1>4. CASE o = cur
  <2> SUFFICES ASSUME ~dropped', denied' = {} PROVE Sent(o)' = objs[o].status \/ Reviving'
    BY <1>2, <1>4 DEF AgreeInv
  <2>1. /\ ~dropped /\ denied = {}
        /\ \/ Loses(o) /\ shown' = objs[o].reports[1].status
           \/ Repeats(o)
    BY <1>0, ReportShows
  <2>2. objs[o].reports[n].status = objs[o].status \/ Reviving
    BY <1>1, <1>2, <1>4, <2>1 DEF AgreeInv, Sent
  <2>3. Sent(o)' = objs[o].reports[n].status
    <3>1. CASE Loses(o) /\ shown' = objs[o].reports[1].status
      <4>1. CASE n = 1
        BY <1>1, <3>1, <4>1 DEF Loses, Sent
      <4>2. CASE n # 1
        <5>0. n - 1 \in 1..(n - 1)
          BY <1>2, <4>2
        <5>1. Len(objs'[o].reports) = n - 1
          BY <1>1, <3>1 DEF Loses
        <5>2. objs'[o].reports[n - 1] = objs[o].reports[n - 1 + 1]
          BY <1>1, <3>1, <5>0 DEF Loses
        <5>3. n - 1 + 1 = n /\ n - 1 # 0
          BY <1>2, <4>2
        <5> QED
          BY <5>1, <5>2, <5>3 DEF Sent
      <4> QED
        BY <4>1, <4>2
    <3>2. CASE Repeats(o)
      <4>1. CASE n = 1
        <5>1. objs[o].reports[1] \in Report
          BY <1>0, <1>1, <1>2, ReportTypes
        <5>2. [objs[o].reports[1] EXCEPT !.waits = None].status = objs[o].reports[1].status
          BY <5>1 DEF Report
        <5> QED
          BY <1>1, <3>2, <4>1, <5>2 DEF Repeats, Sent
      <4>2. CASE n # 1
        <5>1. n \in 2..n /\ n # 0
          BY <1>2, <4>2
        <5>2. Len(objs'[o].reports) = n /\ objs'[o].reports[n] = objs[o].reports[n]
          BY <1>1, <3>2, <5>1 DEF Repeats
        <5> QED
          BY <5>1, <5>2 DEF Sent
      <4> QED
        BY <4>1, <4>2
    <3> QED
      BY <2>1, <3>1, <3>2
  <2>4. Reviving => Reviving'
    <3>1. PICK w : w = objs[o].reports[1].waits
      OBVIOUS
    <3>2. /\ w = None => cmd' = cmd
          /\ w # None => w \in Commands /\ CmdOnly(w)
      BY <1>0, <3>1, ReportEffect
    <3>3. w # None => cmd[w].at \in Waiting
      <4>1. Waits(o, 1, w)
        BY <1>1, <1>2, <3>1 DEF Waits
      <4> QED
        BY <1>0, <4>1 DEF Waiters
    <3> QED
      BY <3>2, <3>3, RevivingKept DEF CmdOnly, Waiting, StartsUp
  <2> QED
    BY <2>2, <2>3, <2>4
<1> QED
  BY <1>3, <1>4

LEMMA AgreeTells ==
  ASSUME Alone, AgreeInv, NEW k \in DOMAIN procs, RuntimeStatus(k) \/ RuntimeEnds(k)
  PROVE  AgreeInv'
<1>0. CoreTypes /\ SessionInv
  BY DEF Alone, Base
<1>1. PICK o : o = procs[k].o
  OBVIOUS
<1>2. /\ k \in 1..Len(procs) /\ procs[k].st = "up" /\ cmd' = cmd /\ cur' = cur
      /\ objs' = objs \/ \E s : ToldEffect(o, k, s)
  BY <1>0, <1>1, RuntimeStatusEffect, RuntimeEndsEffect
<1>3. cur \in 1..Len(objs) /\ o = cur
  BY <1>0, <1>1, <1>2, UpIsOwn
<1>4. UNCHANGED <<shown, ghost>> /\ (Reviving => Reviving')
  BY <1>2, RevivingKept DEF RuntimeStatus, RuntimeEnds
<1>5. CASE objs' = objs
  BY <1>2, <1>4, <1>5, AgreeNext
<1>6. ASSUME NEW s, ToldEffect(o, k, s) PROVE AgreeInv'
  <2>1. CASE objs[o].connected
    <3>1. Gains(o, Rep(s, k, None, FALSE)) /\ objs'[o].status = Rep(s, k, None, FALSE).status
      BY <1>6, <2>1 DEF ToldEffect, Rep
    <3> QED
      BY <1>0, <1>2, <1>3, <3>1, AgreeGains
  <2>2. CASE ~objs[o].connected
    <3>1. objs'[o].status = objs[o].status /\ objs'[o].reports = objs[o].reports
      BY <1>6, <2>2 DEF ToldEffect
    <3> QED
      BY <1>2, <1>3, <1>4, <3>1, AgreeNext
  <2> QED
    BY <2>1, <2>2
<1> QED
  BY <1>2, <1>5, <1>6

LEMMA AgreeStep == Alone /\ StrayInv /\ AgreeInv /\ [Next]_vars => AgreeInv'
<1> SUFFICES ASSUME Alone, StrayInv, AgreeInv, [Next]_vars PROVE AgreeInv'
  OBVIOUS
<1>0. CoreTypes
  BY DEF Alone, Base
<1>1. CASE \E c \in Commands : Issue(c) \/ Handle(c) \/ Continue(c) \/ StartFails(c)
  BY <1>1, AgreeCommand
<1>2. CASE \E o \in DOMAIN objs : ReportDelivered(o) \/ ReportFails(o) \/ ReportRefused(o)
  BY <1>2, AgreeReport
<1>3. CASE Restart \/ UNCHANGED vars \/ \E k \in DOMAIN procs : Prompt(k) \/ ProcessExits(k)
  <2>1. cmd' = cmd /\ KeepObjs
    BY <1>0, <1>3, RestEffect, ProcessExitsEffect
  <2>2. shown' = shown /\ dropped' = dropped /\ denied' = denied
    BY <1>3 DEF Restart, vars, Prompt, ProcessExits, ghost
  <2> QED
    BY <2>1, <2>2 DEF KeepObjs, AgreeInv, Sent, Reviving, Anew
<1>4. CASE \E k \in DOMAIN procs : RuntimeStatus(k) \/ RuntimeEnds(k)
  BY <1>4, AgreeTells
<1>5. CASE Crash
  BY <1>0, <1>5, CrashEffect, AgreeNone
<1> QED
  BY <1>1, <1>2, <1>3, <1>4, <1>5 DEF Next

-----------------------------------------------------------------------------
\* What is left of the sessions before

LEMMA NoneLeft ==
  ASSUME StrayInv, cur # 0 \/ ~NoStart, NEW o \in 1..Len(objs), o # cur
  PROVE  ~Stray(o)
BY DEF StrayInv, Left

LEMMA LeftNone ==
  ASSUME NEW o, ~Stray(o)
  PROVE  Left(o)
BY DEF Left, Stray

LEMMA StillNone ==
  ASSUME NEW o, ~Stray(o), objs'[o].reports = objs[o].reports, StopsOf(o)' => StopsOf(o)
  PROVE  ~Stray(o)'
BY DEF Stray

\* There is a session, and it stays: nothing is left of the others.
LEMMA CurKept ==
  ASSUME CoreTypes, StrayInv, cur # 0, cur' = cur, Len(objs') = Len(objs),
         \A o \in 1..Len(objs) : o # cur => objs'[o].reports = objs[o].reports,
         \A s \in Stops : cmd'[s].at = "stopping" =>
            cmd'[s].o = cur \/ (cmd[s].at = "stopping" /\ cmd'[s].o = cmd[s].o)
  PROVE  StrayInv'
<1> SUFFICES ASSUME NEW o \in 1..Len(objs), o # cur PROVE Left(o)'
  BY DEF StrayInv, Left
<1>1. StopsOf(o)' => StopsOf(o)
  BY DEF StopsOf
<1>2. ~Stray(o)'
  BY <1>1, NoneLeft, StillNone
<1> QED
  BY <1>2 DEF Left, Stray

\* What is left of o stays as it is.
LEMMA LeftKept ==
  ASSUME NEW o \in 1..Len(objs), o # cur, Left(o), cur' = cur, Len(objs') = Len(objs),
         objs'[o].reports = objs[o].reports,
         StopsOf(o)' => StopsOf(o),
         \A c \in Commands : Waits(o, Len(objs[o].reports), c) /\ cmd[c].at \in {"undone", "stopped"} =>
            cmd'[c].at = cmd[c].at,
         cur = 0 /\ NoStart /\ Stray(o)' => NoStart'
  PROVE  Left(o)'
<1>1. LastWaits(o) => LastWaits(o)'
  BY DEF LastWaits, Waits
<1>2. Stray(o)' => Stray(o)
  BY DEF Stray
<1> QED
  BY <1>1, <1>2 DEF Left

\* A command awaits the report that o gains.
LEMMA LastAwaited ==
  ASSUME CoreTypes, NEW o \in 1..Len(objs), Len(objs') = Len(objs), NEW r, Gains(o, r), ~r.mode,
         NEW c \in Commands, r.waits = c, cmd'[c].at \in {"undone", "stopped"}
  PROVE  LastWaits(o)'
<1>1. PICK n : n = Len(objs'[o].reports)
  OBVIOUS
<1>2. n \in 1..n
  BY <1>1, ReportTypes DEF Gains
<1>3. objs'[o].reports[n] = r
  BY <1>1 DEF Gains
<1>4. Waits(o, n, c)'
  BY <1>1, <1>2, <1>3 DEF Waits
<1> QED
  BY <1>1, <1>3, <1>4 DEF LastWaits

\* What is over stays so, unless its result is forgotten.
LEMMA OverKept ==
  ASSUME finished' = finished,
         \A c \in Commands : recorded[c] # None => recorded'[c] # None,
         \A c \in Starters : cmd[c].at \in {"undone", "reported"} => cmd'[c].at \in {"undone", "reported"},
         record = "none" => record' = "none",
         NoStart
  PROVE  NoStart'
<1>1. ASSUME NEW c \in Starters, Over(c) PROVE Over(c)'
  BY <1>1 DEF Over, Done, Starters, Commands
<1> QED
  BY <1>1 DEF NoStart, Starters

\* A result is remembered, however few are kept.
LEMMA Remembered ==
  ASSUME FinishedTypes, NEW c \in Commands, NEW res \in Results, Remember(c, res)
  PROVE  Done(c)' # {}
<1> DEFINE E == [c : Commands, res : Results]
<1> DEFINE e == Entry(c, res)
<1> DEFINE g == [i \in DOMAIN finished |-> IF i \in Done(c) THEN e ELSE finished[i]]
<1> DEFINE kept == IF Done(c) # {} THEN g ELSE Append(finished, e)
<1>1. finished \in Seq(E) /\ Len(finished) \in Nat /\ DOMAIN finished = 1..Len(finished)
      /\ Len(finished) <= MaxFinished
  BY LenProperties DEF FinishedTypes
<1>2. e \in E /\ e.c = c
  BY DEF Entry
<1>3. finished' = IF Len(kept) > MaxFinished THEN Tail(kept) ELSE kept
  BY DEF Remember
<1>4. MaxFinished \in Nat \ {0}
  BY DaemonAssumption
<1> SUFFICES \E i \in DOMAIN finished' : finished'[i].c = c
  BY DEF Done
<1> HIDE DEF E, e
<1>5. CASE Done(c) # {}
  <2>1. PICK i \in 1..Len(finished) : i \in Done(c)
    BY <1>1, <1>5 DEF Done
  <2>2. kept = g
    BY <1>5
  <2>3. g[i] = e
    BY <1>1, <2>1
  <2>4. g \in [1..Len(finished) -> E]
    <3>1. \A j \in 1..Len(finished) : finished[j] \in E
      BY <1>1
    <3> QED
      BY <1>1, <1>2, <3>1
  <2> HIDE DEF g, kept
  <2>5. g \in Seq(E)
    BY <1>1, <2>4, SeqDef
  <2>6. Len(g) = Len(finished) /\ DOMAIN g = 1..Len(finished)
    BY <1>1, <2>4, <2>5, LenProperties
  <2>7. ~(Len(kept) > MaxFinished)
    BY <1>1, <1>4, <2>2, <2>6
  <2>8. finished' = g
    BY <1>3, <2>2, <2>7
  <2> QED
    BY <1>2, <2>1, <2>3, <2>6, <2>8
<1>6. CASE Done(c) = {}
  <2> DEFINE k == Append(finished, e)
  <2> DEFINE n == Len(finished) + 1
  <2>1. k \in Seq(E) /\ Len(k) = n /\ k[n] = e
    BY <1>1, <1>2, AppendProperties
  <2>2. finished' = IF Len(k) > MaxFinished THEN Tail(k) ELSE k
    BY <1>3, <1>6
  <2> HIDE DEF k
  <2>3. CASE Len(k) > MaxFinished
    <3>1. finished' = Tail(k) /\ n - 1 \in 1..(n - 1) /\ n - 1 + 1 = n /\ k # <<>>
      BY <1>1, <1>4, <2>1, <2>2, <2>3
    <3>2. /\ Tail(k) \in Seq(E) /\ Len(Tail(k)) = n - 1
          /\ \A i \in 1..(n - 1) : Tail(k)[i] = k[i + 1]
      BY <2>1, <3>1, HeadTailProperties
    <3>3. Tail(k)[n - 1] = e
      BY <2>1, <3>1, <3>2
    <3>4. DOMAIN Tail(k) = 1..(n - 1)
      BY <3>2, LenProperties
    <3> QED
      BY <1>2, <3>1, <3>3, <3>4
  <2>4. CASE ~(Len(k) > MaxFinished)
    <3>1. finished' = k /\ n \in 1..n
      BY <1>1, <2>2, <2>4
    <3>2. DOMAIN k = 1..n
      BY <2>1, LenProperties
    <3> QED
      BY <1>2, <2>1, <3>1, <3>2
  <2> QED
    BY <2>3, <2>4
<1> QED
  BY <1>5, <1>6

\* The steps that remember a result.
Answers(d) ==
    \/ LaunchAlready(d) \/ LaunchRefused(d) \/ ResumeRefused(d) \/ StopRefused(d)
    \/ CommandApplied(d) \/ CommandReported(d) \/ StopUnknown(d) \/ ResumeFailed(d)

LEMMA AnswersEffect ==
  ASSUME Alone, NEW d \in Commands, Answers(d)
  PROVE  /\ CmdOnly(d) /\ cmd'[d].at = "posting" /\ cmd[d].at \notin {"undone", "stopped"}
         /\ Done(d)' # {} /\ recorded' = recorded /\ record' = record /\ d \in issued
<1>0. CoreTypes /\ FinishedTypes /\ Handled
  BY DEF Alone, Base, Types
<1>1. PICK res \in Results : Posting(d, res)
  BY PostsResult DEF Answers
<1>2. recorded' = recorded /\ record' = record
  BY PostsResult DEF Answers, gateway
<1>3. CmdOnly(d) /\ cmd'[d].at = "posting"
  BY <1>0, <1>1, Posts DEF CoreTypes
<1>4. Done(d)' # {}
  BY <1>0, <1>1, Remembered DEF Posting
<1>5. cmd[d].at \notin {"undone", "stopped"} /\ d \in issued
  <2>1. CASE LaunchAlready(d) \/ LaunchRefused(d) \/ ResumeRefused(d) \/ StopRefused(d)
    BY <2>1 DEF LaunchAlready, LaunchRefused, ResumeRefused, StopRefused, Handling, Received
  <2>2. CASE CommandApplied(d) \/ CommandReported(d) \/ StopUnknown(d) \/ ResumeFailed(d)
    BY <1>0, <2>2 DEF CommandApplied, CommandReported, StopUnknown, ResumeFailed, Handled
  <2> QED
    BY <2>1, <2>2 DEF Answers
<1> QED
  BY <1>2, <1>3, <1>4, <1>5

\* The result of a resume is the last of the launch and the resume.
LEMMA ResumeAnswered ==
  ASSUME Alone, NEW d \in Resumes, Answers(d)
  PROVE  NoStart'
<1>1. Done(d)' # {} /\ recorded' = recorded /\ d \in issued
  BY AnswersEffect DEF Commands
<1>2. \A l \in Launches : recorded'[l] # None
  BY <1>1 DEF Alone, ResumedLater, OneLaunch
<1>3. \A r \in Resumes : r = d
  BY DEF Alone, OneResume
<1> QED
  BY <1>1, <1>2, <1>3 DEF NoStart, Over

\* A result is remembered, another forgotten: the launch is over all the same.
LEMMA NoStartAnswered ==
  ASSUME Alone, \A c \in Commands : Kinds(c), StrayInv, NoStart, cur = 0,
         NEW d \in Commands, Answers(d), KeepObjs, NEW o \in 1..Len(objs), Stray(o)'
  PROVE  NoStart'
<1>0. CoreTypes /\ Handled
  BY DEF Alone, Base
<1>1. /\ CmdOnly(d) /\ cmd'[d].at = "posting" /\ cmd[d].at \notin {"undone", "stopped"}
      /\ Done(d)' # {} /\ record' = record
  BY AnswersEffect
<1>2. CASE d \in Resumes
  BY <1>2, ResumeAnswered
<1>3. CASE d \in Launches
  <2>1. Over(d)' /\ \A l \in Launches : l = d
    BY <1>1, <1>3 DEF Over, Alone, OneLaunch
  <2>2. ~LaunchAlready(d) /\ ~LaunchRefused(d)
    BY <1>3 DEF LaunchAlready, LaunchRefused, Handling, Received, NoStart, Over
  <2>3. ~CommandApplied(d)
    BY <1>3 DEF CommandApplied, Kinds
  <2>4. CommandReported(d)
    BY <1>0, <1>3, <2>2, <2>3, DaemonAssumption
       DEF Answers, ResumeRefused, StopRefused, StopUnknown, ResumeFailed, Handled
  <2>5. record = "none"
    BY <1>3, <2>4 DEF CommandReported, Kinds
  <2> QED
    BY <1>1, <2>1, <2>5 DEF NoStart
<1>4. CASE d \in Stops
  <2>1. \A s \in Stops : s = d
    BY <1>4 DEF Alone, OneStop
  <2>2. ~StopsOf(o)' /\ objs'[o].reports = objs[o].reports
    BY <1>1, <2>1 DEF StopsOf, KeepObjs
  <2>3. LastWaits(o)
    <3>1. Len(objs[o].reports) # 0 /\ o # cur
      BY <2>2 DEF Stray
    <3> QED
      BY <3>1 DEF StrayInv, Left
  <2>4. PICK c \in Commands : cmd[c].at \in {"undone", "stopped"}
    BY <2>3 DEF LastWaits
  <2>5. c # d /\ cmd[c].at = "undone" /\ c \in Launches /\ record = "none"
    BY <1>1, <2>1, <2>4 DEF Kinds
  <2>6. Over(c)'
    BY <1>1, <2>5 DEF Over, CmdOnly
  <2>7. \A l \in Launches : l = c
    BY <2>5 DEF Alone, OneLaunch
  <2> QED
    BY <1>1, <2>5, <2>6, <2>7 DEF NoStart
<1> QED
  BY <1>2, <1>3, <1>4 DEF Commands

\* The steps of a handler that keep the objects and the session.
LEMMA LeftObjs ==
  ASSUME Alone, StrayInv, KeepObjs, NEW d \in Commands,
         \/ cmd' = cmd
         \/ CmdOnly(d) /\ cmd'[d].at # "stopping" /\ cmd[d].at \notin {"undone", "stopped"},
         ASSUME NEW o \in 1..Len(objs), cur = 0, NoStart, Stray(o)' PROVE NoStart'
  PROVE  StrayInv'
<1> SUFFICES ASSUME NEW o \in 1..Len(objs), o # cur PROVE Left(o)'
  BY DEF StrayInv, KeepObjs, Left
<1>1. StopsOf(o)' => StopsOf(o)
  BY DEF StopsOf, CmdOnly, Commands
<1>2. \A c \in Commands : cmd[c].at \in {"undone", "stopped"} => cmd'[c].at = cmd[c].at
  BY DEF CmdOnly
<1>3. cur = 0 /\ NoStart /\ Stray(o)' => NoStart'
  OBVIOUS
<1> QED
  BY <1>1, <1>2, <1>3, LeftKept DEF StrayInv, KeepObjs

LEMMA LeftCommand ==
  ASSUME Alone, \A c \in Commands : Kinds(c) /\ Fresh(c), StrayInv, NEW d \in Commands,
         Issue(d) \/ Handle(d) \/ Continue(d) \/ StartFails(d),
         \A c \in Commands : recorded[c] # None => recorded'[c] # None
  PROVE  StrayInv'
<1>0. CoreTypes /\ Handled /\ SessionInv /\ Len(objs) \in Nat /\ cur \in Nat /\ cur <= Len(objs)
  BY CoreFacts DEF Alone, Base
<1>1. CASE \/ Issue(d) \/ DeliverDone(d) \/ RegisterNative(d) \/ Spawn(d) \/ AdapterStarts(d) \/ Post(d)
  <2>1. KeepObjs /\ (cmd' = cmd \/ (CmdOnly(d) /\ cmd'[d].at \in {"started", "idle", "posting"}))
    BY <1>0, <1>1, RestEffect, StateEffect, EndsEffect DEF Ends
  <2>2. cmd' = cmd \/ cmd[d].at \notin {"undone", "stopped", "reported"}
    BY <1>1 DEF Issue, DeliverDone, RegisterNative, Spawn, AdapterStarts, Post, daemon
  <2>3. finished' = finished
    BY <1>1 DEF Issue, DeliverDone, RegisterNative, Spawn, AdapterStarts, Post, daemon
  <2>4. record = "none" => record' = "none"
    BY <1>1 DEF Issue, DeliverDone, RegisterNative, Spawn, AdapterStarts, Post
  <2>5. NoStart => NoStart'
    BY <2>1, <2>2, <2>3, <2>4, OverKept DEF CmdOnly, Starters, Commands
  <2> QED
    BY <2>1, <2>2, <2>5, LeftObjs
<1>2. CASE Answers(d) /\ ~ResumeFailed(d)
  <2>1. KeepObjs
    BY <1>0, <1>2, EndsEffect DEF Answers, Ends
  <2>2. CmdOnly(d) /\ cmd'[d].at = "posting" /\ cmd[d].at \notin {"undone", "stopped"}
    BY <1>2, AnswersEffect
  <2>3. ASSUME NEW o \in 1..Len(objs), cur = 0, NoStart, Stray(o)' PROVE NoStart'
    BY <1>2, <2>1, <2>3, NoStartAnswered
  <2> QED
    BY <2>1, <2>2, <2>3, LeftObjs
<1>3. CASE Stop(d)
  <2>1. cur # 0 /\ KeepObjs /\ CmdOnly(d) /\ cmd'[d].o = cur
    BY <1>0, <1>3, StopEffect
  <2> QED
    BY <1>0, <2>1, CurKept DEF KeepObjs, CmdOnly, Commands
<1>4. CASE StartAdapter(d) \/ StartFails(d) \/ Connect(d)
  <2>1. /\ cmd[d].at \in Busy /\ CmdOnly(d) /\ cmd'[d].at # "stopping" /\ cur' = cur
        /\ ObjOnly(cmd[d].o) /\ cmd[d].o \in 1..Len(objs)
    BY <1>0, <1>4, StartAdapterEffect, StartFailsEffect, ConnectEffect DEF Busy, Begins, StartsUp
  <2>2. cur = cmd[d].o
    BY <1>0, <2>1 DEF SessionInv, Start, Busy
  <2> QED
    BY <1>0, <2>1, <2>2, CurKept DEF ObjOnly, CmdOnly, Commands
<1>5. CASE LaunchFailed(d)
  <2> DEFINE o == cmd[d].o
  <2> DEFINE r == Rep("failed", cmd[d].k, d, FALSE)
  <2>1. /\ cmd[d].at = "failing" /\ o \in 1..Len(objs) /\ cur' = 0 /\ CmdOnly(d)
        /\ cmd'[d].at = "undone" /\ ObjOnly(o) /\ Gains(o, r) /\ r.waits = d
    BY <1>0, <1>5, LaunchFailedEffect
  <2>2. ~r.mode
    BY DEF Rep
  <2>3. cur = o
    BY <1>0, <2>1 DEF SessionInv, Start
  <2>4. d \in Launches /\ record' = "none"
    BY <1>5 DEF LaunchFailed
  <2> HIDE DEF o, r
  <2>5. NoStart'
    BY <2>1, <2>4 DEF NoStart, Over, Alone, OneLaunch
  <2>6. ASSUME NEW p \in 1..Len(objs), p = o PROVE LastWaits(p)'
    <3>1. Gains(p, r) /\ Len(objs') = Len(objs)
      BY <2>1, <2>6 DEF ObjOnly
    <3> QED
      BY <1>0, <2>1, <2>2, <3>1, LastAwaited
  <2>7. ASSUME NEW p \in 1..Len(objs), p # o PROVE Len(objs'[p].reports) = 0
    <3>1. ~Stray(p) /\ objs'[p] = objs[p]
      BY <2>1, <2>3, <2>7, NoneLeft DEF ObjOnly
    <3> QED
      BY <3>1 DEF Stray
  <2> SUFFICES ASSUME NEW p \in 1..Len(objs) PROVE Left(p)'
    BY <2>1 DEF StrayInv, ObjOnly
  <2> QED
    BY <2>1, <2>5, <2>6, <2>7 DEF Left
<1>6. CASE ResumeFailed(d)
  <2>1. /\ d \in Resumes /\ cmd[d].at = "failing" /\ cmd[d].o \in 1..Len(objs) /\ CmdOnly(d) /\ cmd'[d].at = "posting"
        /\ \/ ~cmd[d].live /\ cur' = 0 /\ objs' = objs
           \/ cmd[d].live /\ cur' = cur /\ ObjOnly(cmd[d].o) /\ objs'[cmd[d].o].reports = objs[cmd[d].o].reports
    BY <1>0, <1>6, ResumeFailedEffect DEF ResumeFailed
  <2>2. cur = cmd[d].o
    BY <1>0, <2>1 DEF SessionInv, Start
  <2>3. CASE cur' = cur
    BY <1>0, <2>1, <2>2, <2>3, CurKept DEF ObjOnly, CmdOnly, Commands
  <2>4. CASE ~cmd[d].live /\ cur' = 0 /\ objs' = objs
    <3>1. NoStart'
      BY <1>6, <2>1, ResumeAnswered DEF Answers
    <3>2. ASSUME NEW p \in 1..Len(objs) PROVE Len(objs[p].reports) = 0
      <4>1. CASE p = cur
        BY <2>1, <2>2, <2>4, <4>1 DEF Fresh, Anew
      <4>2. CASE p # cur
        BY <2>1, <2>2, <4>2, NoneLeft DEF Stray
      <4> QED
        BY <4>1, <4>2
    <3> QED
      BY <2>4, <3>1, <3>2 DEF StrayInv, Left
  <2> QED
    BY <2>1, <2>3, <2>4
<1>7. CASE Launch(d)
  <2>1. /\ CmdOnly(d) /\ cmd'[d].at = "reporting" /\ cur = 0 /\ cur' = Len(objs) + 1 /\ Len(objs') = Len(objs) + 1
        /\ \A p \in 1..Len(objs) : objs'[p] = objs[p]
    BY <1>0, <1>7, LaunchEffect
  <2>2. ~NoStart
    BY <1>7 DEF Launch, Handling, Received, NoStart, Over
  <2>3. ASSUME NEW o \in 1..Len(objs) PROVE ~Stray(o)'
    <3>1. ~Stray(o)
      BY <1>0, <2>1, <2>2, NoneLeft
    <3>2. StopsOf(o)' => StopsOf(o)
      BY <2>1 DEF StopsOf, CmdOnly, Commands
    <3> QED
      BY <2>1, <3>1, <3>2, StillNone
  <2> QED
    BY <1>0, <2>1, <2>3 DEF StrayInv, Left, Stray
<1>8. CASE Resume(d)
  <2>1. /\ CmdOnly(d) /\ cmd'[d].at = "starting" /\ d \in Resumes
        /\ \/ cur # 0 /\ cur' = cur /\ Len(objs') = Len(objs)
           \/ cur = 0 /\ cur' = Len(objs) + 1 /\ Len(objs') = Len(objs) + 1
        /\ \A p \in 1..Len(objs) : p # cur' => objs'[p] = objs[p]
    BY <1>0, <1>8, ResumeEffect
  <2>2. CASE cur # 0
    BY <1>0, <2>1, <2>2, CurKept DEF CmdOnly, Commands
  <2>3. CASE cur = 0
    <3>1. ~NoStart
      <4>1. ~Over(d) /\ record # "none" /\ d \in issued
        BY <1>8 DEF Resume, Handling, Received, Over
      <4>2. \E l \in Launches : TRUE
        BY <2>1, <4>1 DEF Alone, ResumedLater
      <4> QED
        BY <2>1, <4>1, <4>2 DEF NoStart
    <3>2. ASSUME NEW o \in 1..Len(objs) PROVE ~Stray(o)'
      <4>1. ~Stray(o) /\ objs'[o] = objs[o]
        BY <1>0, <2>1, <2>3, <3>1, NoneLeft
      <4>2. StopsOf(o)' => StopsOf(o)
        BY <2>1 DEF StopsOf, CmdOnly, Commands
      <4> QED
        BY <4>1, <4>2, StillNone
    <3> QED
      BY <1>0, <2>1, <2>3, <3>2 DEF StrayInv, Left, Stray
  <2> QED
    BY <2>2, <2>3
<1>9. CASE StopApplied(d)
  <2> DEFINE o == cmd[d].o
  <2> DEFINE r == Rep("stopped", cmd[d].k, d, FALSE)
  <2>1. /\ cmd[d].at = "stopping" /\ o \in 1..Len(objs) /\ cur' = cur /\ CmdOnly(d)
        /\ cmd'[d].at = "stopped" /\ ObjOnly(o) /\ Gains(o, r) /\ r.waits = d
    BY <1>0, <1>9, StopAppliedEffect
  <2>2. ~r.mode /\ d \in Stops
    BY <1>0, <2>1 DEF Rep, Handled
  <2>3. cmd[d].o = o
    OBVIOUS
  <2> HIDE DEF o, r
  <2>4. CASE o = cur
    BY <1>0, <2>1, <2>4, CurKept DEF ObjOnly, CmdOnly, Commands
  <2>5. CASE o # cur
    <3>1. cur = 0 /\ NoStart
      BY <2>1, <2>2, <2>3, <2>5 DEF StrayInv, Left, Stray, StopsOf
    <3>2. NoStart'
      <4>1. finished' = finished /\ record' = record
        BY <1>9 DEF StopApplied
      <4> QED
        BY <2>1, <3>1, <4>1, OverKept DEF CmdOnly, Starters, Commands
    <3>3. ASSUME NEW p \in 1..Len(objs), p = o PROVE Left(p)'
      <4>1. Gains(p, r) /\ Len(objs') = Len(objs)
        BY <2>1, <3>3 DEF ObjOnly
      <4>2. LastWaits(p)'
        BY <1>0, <2>1, <2>2, <4>1, LastAwaited
      <4> QED
        BY <2>1, <3>1, <3>2, <4>2 DEF Left
    <3>4. ASSUME NEW p \in 1..Len(objs), p # o PROVE Left(p)'
      <4>1. objs'[p] = objs[p] /\ Len(objs') = Len(objs)
        BY <2>1, <3>4 DEF ObjOnly
      <4>2. StopsOf(p)' => StopsOf(p)
        BY <2>1 DEF StopsOf, CmdOnly, Commands
      <4>3. \A c \in Commands : cmd[c].at \in {"undone", "stopped"} => cmd'[c].at = cmd[c].at
        BY <2>1 DEF CmdOnly
      <4>4. Left(p) /\ p # cur
        BY <3>1 DEF StrayInv
      <4> QED
        BY <2>1, <3>1, <3>2, <4>1, <4>2, <4>3, <4>4, LeftKept
    <3> SUFFICES ASSUME NEW p \in 1..Len(objs) PROVE Left(p)'
      BY <2>1 DEF StrayInv, ObjOnly
    <3> QED
      BY <3>3, <3>4
  <2> QED
    BY <2>4, <2>5
<1> QED
  BY <1>1, <1>2, <1>3, <1>4, <1>5, <1>6, <1>7, <1>8, <1>9 DEF Handle, Continue, Answers

\* The report of an object that no session has any more: another command awaits its last one.
LEMMA LeftReport ==
  ASSUME Alone, StrayInv, NEW o \in DOMAIN objs,
         ReportDelivered(o) \/ ReportFails(o) \/ ReportRefused(o)
  PROVE  StrayInv'
<1>0. CoreTypes /\ Waiters /\ cur \in Nat
  BY CoreFacts DEF Alone, Base
<1>1. PICK w : w = objs[o].reports[1].waits
  OBVIOUS
<1>2. PICK n : n = Len(objs[o].reports)
  OBVIOUS
<1>3. /\ o \in 1..Len(objs) /\ n \in Nat \ {0} /\ cur' = cur /\ ObjOnly(o)
      /\ Loses(o) \/ (objs[o].reports[1].mode /\ Repeats(o))
      /\ w = None => cmd' = cmd
      /\ w # None => w \in Commands /\ CmdOnly(w) /\ GoesOn(cmd[w].at, cmd'[w].at)
  BY <1>0, <1>1, <1>2, ReportEffect
<1>4. Waits(o, 1, w)
  BY <1>1, <1>2, <1>3 DEF Waits
<1>5. w # None => cmd[w].at \in Waiting
  BY <1>0, <1>4 DEF Waiters
<1>6. \A c \in Commands : \/ cmd'[c] = cmd[c]
                          \/ /\ c = w /\ cmd'[c].at # "stopping" /\ cmd[c].at \in Waiting
                             /\ cmd[c].at = "undone" => cmd'[c].at = "reported"
  BY <1>3, <1>5 DEF CmdOnly, GoesOn
<1>7. \A p : StopsOf(p)' => StopsOf(p)
  BY <1>6 DEF StopsOf, Commands
<1>8. \A p \in 1..Len(objs) : p # o => objs'[p].reports = objs[p].reports
  BY <1>3 DEF ObjOnly
<1>9. Len(objs') = Len(objs)
  BY <1>3 DEF ObjOnly
<1>12. n \in Nat \ {0}
  BY <1>3
<1>10. CASE o = cur
  <2>1. \A s \in Stops : cmd'[s].at = "stopping" => cmd[s].at = "stopping" /\ cmd'[s].o = cmd[s].o
    BY <1>6 DEF Commands
  <2> QED
    BY <1>0, <1>3, <1>8, <1>9, <1>10, <2>1, CurKept
<1>11. CASE o # cur
  <2>1. LastWaits(o) /\ cur = 0 /\ NoStart
    BY <1>2, <1>3, <1>11 DEF StrayInv, Left, Stray
  <2>2. NoStart'
    <3>1. UNCHANGED <<finished, recorded, record>>
      BY DEF ReportDelivered, ReportFails, ReportRefused, gateway
    <3>2. \A c \in Starters : cmd[c].at \in {"undone", "reported"} => cmd'[c].at \in {"undone", "reported"}
      BY <1>6 DEF Starters, Commands, Waiting
    <3> QED
      BY <2>1, <3>1, <3>2, OverKept
  <2>3. ASSUME NEW p \in 1..Len(objs), NEW i, NEW c \in Commands, Waits(p, i, c), p # o \/ i # 1
        PROVE  cmd'[c] = cmd[c]
    <3>1. c # None
      BY NoneIsNoCommand
    <3>2. c # w
      BY <1>0, <1>4, <2>3, <3>1 DEF Waiters
    <3> QED
      BY <1>6, <3>2
  <2> SUFFICES ASSUME NEW p \in 1..Len(objs), p # cur PROVE Left(p)'
    BY <1>3, <1>9 DEF StrayInv, Left
  <2>4. CASE p # o
    <3>1. \A c \in Commands : Waits(p, Len(objs[p].reports), c) => cmd'[c].at = cmd[c].at
      BY <2>3, <2>4
    <3> QED
      BY <1>3, <1>7, <1>8, <1>9, <2>2, <2>4, <3>1, LeftKept DEF StrayInv
  <2>5. CASE p = o
    <3>1. PICK c \in Commands :
            Waits(p, n, c) /\ ~objs[p].reports[n].mode /\ cmd[c].at \in {"undone", "stopped"}
      BY <1>2, <2>1, <2>5 DEF LastWaits
    <3>2. CASE n = 1
      <4>1. Loses(o)
        BY <1>3, <2>5, <3>1, <3>2
      <4>2. Len(objs'[o].reports) = n - 1
        BY <1>2, <4>1 DEF Loses
      <4>3. Len(objs'[p].reports) = 0
        BY <2>5, <3>2, <4>2
      <4> QED
        BY <1>3, <2>1, <2>2, <4>3 DEF Left
    <3>3. CASE n # 1
      <4>1. cmd'[c] = cmd[c]
        BY <2>3, <3>1, <3>3
      <4>2. PICK m : m = Len(objs'[p].reports)
        OBVIOUS
      <4>3. m \in 1..m /\ objs'[p].reports[m] = objs[p].reports[n]
        <5>1. CASE Loses(o)
          <6>1. n - 1 \in 1..(n - 1) /\ n - 1 + 1 = n
            BY <1>12, <3>3
          <6>2. Len(objs'[o].reports) = n - 1
            BY <1>2, <5>1 DEF Loses
          <6>3. objs'[o].reports[n - 1] = objs[o].reports[n - 1 + 1]
            BY <1>2, <5>1, <6>1 DEF Loses
          <6> QED
            BY <2>5, <4>2, <6>1, <6>2, <6>3
        <5>2. CASE Repeats(o)
          <6>1. n \in 2..n /\ n \in 1..n
            BY <1>12, <3>3
          <6>2. Len(objs'[o].reports) = n
            BY <1>2, <5>2 DEF Repeats
          <6>3. objs'[o].reports[n] = objs[o].reports[n]
            BY <1>2, <5>2, <6>1 DEF Repeats
          <6> QED
            BY <2>5, <4>2, <6>1, <6>2, <6>3
        <5> QED
          BY <1>3, <5>1, <5>2
      <4>4. Waits(p, m, c)'
        BY <1>9, <3>1, <4>2, <4>3 DEF Waits
      <4>5. LastWaits(p)'
        BY <3>1, <4>1, <4>2, <4>3, <4>4 DEF LastWaits
      <4> QED
        BY <1>3, <2>1, <2>2, <4>5 DEF Left
    <3> QED
      BY <3>2, <3>3
  <2> QED
    BY <2>4, <2>5
<1> QED
  BY <1>10, <1>11

LEMMA LeftTells ==
  ASSUME Alone, StrayInv, NEW k \in DOMAIN procs, RuntimeStatus(k) \/ RuntimeEnds(k)
  PROVE  StrayInv'
<1>0. CoreTypes /\ SessionInv
  BY DEF Alone, Base
<1>1. PICK o : o = procs[k].o
  OBVIOUS
<1>2. /\ k \in 1..Len(procs) /\ procs[k].st = "up" /\ cmd' = cmd /\ cur' = cur
      /\ objs' = objs \/ ObjOnly(o)
  BY <1>0, <1>1, RuntimeStatusEffect, RuntimeEndsEffect DEF ToldEffect
<1>3. cur # 0 /\ o = cur
  BY <1>0, <1>1, <1>2, UpIsOwn
<1> QED
  BY <1>0, <1>2, <1>3, CurKept DEF ObjOnly

LEMMA LeftStep ==
  Alone /\ (\A c \in Commands : Kinds(c) /\ Fresh(c)) /\ StrayInv /\ [Next]_vars => StrayInv'
<1> SUFFICES ASSUME Alone, \A c \in Commands : Kinds(c) /\ Fresh(c), StrayInv, [Next]_vars
             PROVE  StrayInv'
  OBVIOUS
<1>0. CoreTypes
  BY DEF Alone, Base
<1>1. CASE \E c \in Commands : Issue(c) \/ Handle(c) \/ Continue(c) \/ StartFails(c)
  <2>1. \A c \in Commands : recorded[c] # None => recorded'[c] # None
    BY RecordedStays DEF Alone, Types
  <2> QED
    BY <1>1, <2>1, LeftCommand
<1>2. CASE \E o \in DOMAIN objs : ReportDelivered(o) \/ ReportFails(o) \/ ReportRefused(o)
  BY <1>2, LeftReport
<1>3. CASE Restart \/ UNCHANGED vars \/ \E k \in DOMAIN procs : Prompt(k) \/ ProcessExits(k)
  <2>1. cmd' = cmd /\ objs' = objs /\ cur' = cur
    BY <1>0, <1>3, RestEffect, ProcessExitsEffect DEF KeepObjs
  <2>2. UNCHANGED <<finished, recorded, record>>
    BY <1>3 DEF Restart, vars, Prompt, ProcessExits, gateway, daemon
  <2> QED
    BY <2>1, <2>2 DEF StrayInv, Left, LastWaits, Waits, Stray, StopsOf, NoStart, Over, Done
<1>4. CASE \E k \in DOMAIN procs : RuntimeStatus(k) \/ RuntimeEnds(k)
  BY <1>4, LeftTells
<1>5. CASE Crash
  <2>1. Len(objs') = 0
    BY <1>0, <1>5, CrashEffect
  <2> QED
    BY <2>1 DEF StrayInv
<1> QED
  BY <1>1, <1>2, <1>3, <1>4, <1>5 DEF Next

LEMMA ShownInit == Init => ShownInv
<1> SUFFICES ASSUME Init PROVE ShownInv
  OBVIOUS
<1>1. Len(objs) = 0 /\ cur = 0 /\ \A c \in Commands : cmd[c].at = "idle"
  BY IdleHandler DEF Init
<1> QED
  BY <1>1 DEF ShownInv, Kinds, Fresh, StrayInv, AgreeInv

LEMMA ShownStep == Alone /\ ShownInv /\ [Next]_vars => ShownInv'
<1>1. ASSUME Alone, ShownInv, [Next]_vars PROVE ShownInv'
  <2>1. \A c \in Commands : Kinds(c)'
    BY <1>1, KindsStep DEF ShownInv
  <2>2. \A c \in Commands : Fresh(c)'
    BY <1>1, FreshStep DEF ShownInv
  <2>3. StrayInv'
    BY <1>1, LeftStep DEF ShownInv
  <2>4. AgreeInv'
    BY <1>1, AgreeStep DEF ShownInv
  <2> QED
    BY <2>1, <2>2, <2>3, <2>4 DEF ShownInv
<1> QED
  BY <1>1

\* A session that is connected is not being resumed.
LEMMA ShownImplies == Alone /\ ShownInv => ShownIsStatus
<1> SUFFICES ASSUME Alone, ShownInv, cur # 0, objs[cur].connected, objs[cur].reports = <<>>,
                    ~dropped, denied = {}
             PROVE  shown = objs[cur].status
  BY DEF ShownIsStatus
<1>1. Sent(cur) = shown
  BY DEF Sent
<1>2. ~Reviving
  BY DEF Reviving, Alone, SessionInv, Start
<1> QED
  BY <1>1, <1>2 DEF ShownInv, AgreeInv

(* Once the reports of a connected session were sent and none was dropped or      *)
(* refused, the gateway shows the status of the session, if it is given one        *)
(* launch, one resume and one stop of it: a report that is retried goes ahead of   *)
(* the later ones, and what is left to report of a session that did not start is    *)
(* sent before the launch or the resume has its result, so before another starts.   *)
THEOREM ShownIsStatusCorrect == ASSUME OneLaunch, OneResume, OneStop PROVE Spec => []ShownIsStatus
<1> DEFINE Inv == Types /\ Base /\ SessionInv /\ ResumedLater /\ ShownInv
<1>1. Init => Inv
  BY TypesInit, BaseInit, SessionInit, ShownInit DEF Init, ResumedLater
<1>2. Inv /\ OneAtATime => Alone
  BY DEF Alone
<1>3. Inv /\ OneAtATime /\ [Next]_vars => Inv'
  BY <1>2, TypesStep, BaseStep, SessionStep, ResumedStep, ShownStep DEF Types
<1>4. Inv /\ OneAtATime => ShownIsStatus
  BY <1>2, ShownImplies
<1>5. Spec => []OneAtATime
  BY OneOfEach
<1> HIDE DEF Inv
<1> QED
  BY <1>1, <1>3, <1>4, <1>5, PTL DEF Spec
=============================================================================
