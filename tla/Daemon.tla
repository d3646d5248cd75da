-------------------------------- MODULE Daemon --------------------------------
(***************************************************************************)
(* The commands of one launched session (connector/src/daemon.ts): the      *)
(* gateway redelivers a command until it has its result; a launch is         *)
(* recorded on disk before its runtime starts, connects the session with     *)
(* one report of its status and mode, and hands it the prompt; a resume      *)
(* starts the recorded native session again; a stop ends the process. The    *)
(* state reports of a session are sent one after the other. The daemon may   *)
(* crash at any point; the record stays.                                      *)
(*                                                                          *)
(* The gateway is modelled from the requests made to it: it answers a poll   *)
(* with every command whose result it does not have, and keeps the last      *)
(* status it was sent.                                                        *)
(***************************************************************************)
EXTENDS Naturals, Sequences, FiniteSets

CONSTANTS
    Launches, Resumes, Stops,  \* the command ids of each kind
    Codex,       \* the runtime: Codex (hooks are installed before its process is
                 \* spawned), else Claude Code (a closed session's process exits later)
    MaxFinished, \* results kept to be posted again (500 in the code)
    MaxProc,     \* bound: adapters started
    MaxReports,  \* bound: statuses a runtime reports while reports wait
    MaxFail,     \* bound: requests that fail
    MaxCrash     \* bound: crashes of the daemon

Commands == Launches \cup Resumes \cup Stops

ASSUME DaemonAssumption ==
    /\ Launches \cap Resumes = {} /\ Launches \cap Stops = {} /\ Resumes \cap Stops = {}
    /\ Codex \in BOOLEAN /\ MaxFinished \in Nat \ {0}
    /\ MaxProc \in Nat /\ MaxReports \in Nat /\ MaxFail \in Nat /\ MaxCrash \in Nat
    /\ "none" \notin Commands

VARIABLES
    issued,    \* gateway: the commands given so far
    recorded,  \* gateway: the result it has of each command
    shown,     \* gateway: the last status it was sent
    cmd,       \* the handler of each command: where it awaits, and its captured values
    finished,  \* Daemon.finished: the results posted, oldest first
    record,    \* persisted[session], on disk: "none", "recorded" or "native" (with native_id)
    objs,      \* the Managed objects made by this process
    cur,       \* sessions.get(session): one of objs, 0 for none
    procs,     \* the adapters started, and what is left of their processes
    due,       \* adapters whose prompt is not delivered yet
    up,        \* the daemon runs
    modes,     \* ghost: adapters whose connecting report the gateway has
    prompts,   \* ghost: adapters that were handed their prompt
    bare,      \* ghost: adapters whose connected status came before their mode
    denied,    \* ghost: adapters whose connecting report the gateway refused
    dropped,   \* ghost: a report that is not retried has failed
    fails, crashes

gateway == <<issued, recorded>>
daemon  == <<cmd, finished, objs, cur, due>>
ghost   == <<modes, prompts, bare, denied, dropped>>
vars    == <<gateway, shown, daemon, record, procs, up, ghost, fails, crashes>>

Results   == {"applied", "refused", "unknown"}
Connected == {"running", "idle"}
Statuses  == {"starting", "stopped", "failed"} \cup Connected
None      == "none"

Idle == [at |-> "idle", o |-> 0, k |-> 0, res |-> None, live |-> FALSE, was |-> FALSE, held |-> None]
At(c, at) == cmd' = [cmd EXCEPT ![c].at = at]

Alive(k) == k # 0 /\ procs[k].st \in {"starting", "up"}
Adapter  == IF cur = 0 THEN 0 ELSE objs[cur].adapter

-----------------------------------------------------------------------------
\* Results

Entry(c, res) == [c |-> c, res |-> res]
Done(c) == {i \in DOMAIN finished : finished[i].c = c}

\* Mutant: the results are never forgotten.
RememberAll(c, res) ==
    finished' = IF Done(c) # {}
                THEN [i \in DOMAIN finished |-> IF i \in Done(c) THEN Entry(c, res) ELSE finished[i]]
                ELSE Append(finished, Entry(c, res))

\* result: remembered before it is posted; past the limit the oldest is forgotten.
Remember(c, res) ==
    LET kept == IF Done(c) # {}
                THEN [i \in DOMAIN finished |-> IF i \in Done(c) THEN Entry(c, res) ELSE finished[i]]
                ELSE Append(finished, Entry(c, res))
    IN finished' = IF Len(kept) > MaxFinished THEN Tail(kept) ELSE kept

Posting(c, res) ==
    /\ cmd' = [cmd EXCEPT ![c] = [Idle EXCEPT !.at = "posting", !.res = res]]
    /\ Remember(c, res)

\* The post is recorded (the first result stays) or fails, received or not.
Posted(c, res) ==
    /\ \/ recorded' = [recorded EXCEPT ![c] = IF @ = None THEN res ELSE @] /\ UNCHANGED fails
       \/ /\ fails < MaxFail /\ fails' = fails + 1
          /\ \/ recorded' = [recorded EXCEPT ![c] = IF @ = None THEN res ELSE @]
             \/ UNCHANGED recorded

Post(c) ==
    /\ up /\ cmd[c].at = "posting"
    /\ Posted(c, cmd[c].res)
    /\ cmd' = [cmd EXCEPT ![c] = Idle]
    /\ UNCHANGED <<issued, shown, finished, record, objs, cur, procs, due, up, ghost, crashes>>

-----------------------------------------------------------------------------
\* State reports: one after the other, a connecting one until it is delivered.

Rep(status, k, c, mode) == [status |-> status, k |-> k, waits |-> c, mode |-> mode]
Queue(o, rep) == [objs EXCEPT ![o].reports = Append(@, rep)]
Update(o, rep) == [objs EXCEPT ![o].status = rep.status, ![o].reports = Append(@, rep)]

\* Mutant: a status is reported as it comes.
ToldAtOnce(o, k, status) == Update(o, Rep(status, k, None, FALSE))

\* adapterStatus: held until the session is connected.
Told(o, k, status) ==
    IF objs[o].connected THEN Update(o, Rep(status, k, None, FALSE))
    ELSE [objs EXCEPT ![o].held = status]

\* The command that awaits the first attempt of a report goes on.
Woken(r, delivered) ==
    IF r.waits = None THEN cmd
    ELSE [cmd EXCEPT ![r.waits].at =
            CASE @ = "reporting"  -> "start"
              [] @ = "connecting" -> IF delivered THEN "prompting" ELSE "connected"
              [] OTHER            -> "reported"]

Show(r) ==
    /\ shown' = r.status
    /\ modes' = IF r.mode THEN modes \cup {r.k} ELSE modes
    /\ bare' = IF r.status \in Connected /\ ~r.mode /\ r.k \notin modes THEN bare \cup {r.k} ELSE bare

Pop(o) == objs' = [objs EXCEPT ![o].reports = Tail(@)]

ReportDelivered(o) ==
    /\ up /\ objs[o].reports # <<>>
    /\ LET r == Head(objs[o].reports) IN Show(r) /\ cmd' = Woken(r, TRUE)
    /\ Pop(o)
    /\ UNCHANGED <<gateway, finished, record, cur, procs, due, up, prompts, denied, dropped, fails, crashes>>

\* Mutant: a connecting report that failed is sent again after the later ones.
RetryLast(o, r) == objs' = [objs EXCEPT ![o].reports = Append(Tail(@), [r EXCEPT !.waits = None])]

\* A persistent report is retried ahead of the later ones.
Retry(o, r) == objs' = [objs EXCEPT ![o].reports = <<[r EXCEPT !.waits = None]>> \o Tail(@)]

\* The attempt failed: the gateway may have had it.
ReportFails(o) ==
    /\ up /\ objs[o].reports # <<>> /\ fails < MaxFail /\ fails' = fails + 1
    /\ LET r == Head(objs[o].reports) IN
        /\ Show(r) \/ UNCHANGED <<shown, modes, bare>>
        /\ cmd' = Woken(r, FALSE)
        /\ IF r.mode THEN Retry(o, r) /\ UNCHANGED dropped
           ELSE Pop(o) /\ dropped' = TRUE
    /\ UNCHANGED <<gateway, finished, record, cur, procs, due, up, prompts, denied, crashes>>

\* The gateway refuses the connecting report (4xx): the prompt stays undelivered.
ReportRefused(o) ==
    /\ up /\ fails < MaxFail /\ fails' = fails + 1 /\ objs[o].reports # <<>> /\ Head(objs[o].reports).mode
    /\ LET r == Head(objs[o].reports) IN
        cmd' = Woken(r, FALSE) /\ due' = due \ {r.k} /\ denied' = denied \cup {r.k}
    /\ Pop(o)
    /\ UNCHANGED <<gateway, shown, finished, record, cur, procs, up, modes, prompts, bare, dropped, crashes>>

-----------------------------------------------------------------------------
\* Starting an adapter

Begun == IF Codex THEN "created" ELSE "starting"
NewProc(o, c) == Append(procs, [st |-> Begun, o |-> o, by |-> c, ok |-> FALSE])
NewObj == [status |-> "starting", connected |-> FALSE, held |-> None, adapter |-> 0, reports |-> <<>>]

\* launch after its starting report: the adapter is the session's as it starts.
StartAdapter(c) ==
    /\ up /\ cmd[c].at = "start" /\ Len(procs) < MaxProc
    /\ procs' = NewProc(cmd[c].o, c)
    /\ objs' = [objs EXCEPT ![cmd[c].o].adapter = Len(procs) + 1]
    /\ cmd' = [cmd EXCEPT ![c].at = "starting", ![c].k = Len(procs) + 1]
    /\ UNCHANGED <<gateway, shown, finished, record, cur, due, up, ghost, fails, crashes>>

SetProc(k, st) == procs' = [procs EXCEPT ![k].st = st]

Spawn(c) ==
    /\ up /\ cmd[c].at = "starting" /\ procs[cmd[c].k].st = "created"
    /\ SetProc(cmd[c].k, "starting")
    /\ UNCHANGED <<gateway, shown, daemon, record, up, ghost, fails, crashes>>

\* registerNative: the native id is in the record before the gateway is told.
RegisterNative(c) ==
    /\ up /\ cmd[c].at = "starting" /\ procs[cmd[c].k].st = "starting" /\ record = "recorded"
    /\ record' = "native"
    /\ UNCHANGED <<gateway, shown, daemon, procs, up, ghost, fails, crashes>>

AdapterStarts(c) ==
    /\ up /\ cmd[c].at = "starting" /\ procs[cmd[c].k].st = "starting" /\ record # "recorded"
    /\ procs' = [procs EXCEPT ![cmd[c].k].st = "up", ![cmd[c].k].ok = TRUE]
    /\ At(c, "started")
    /\ UNCHANGED <<gateway, shown, finished, record, objs, cur, due, up, ghost, fails, crashes>>

\* start throws: commands no longer reach the adapter, and its process is stopped.
StartFails(c) ==
    /\ up /\ cmd[c].at = "starting" /\ fails < MaxFail /\ fails' = fails + 1
    /\ objs' = [objs EXCEPT ![cmd[c].o].adapter = 0]
    /\ At(c, "failing")
    /\ UNCHANGED <<gateway, shown, finished, record, cur, procs, due, up, ghost, crashes>>

\* The process is gone, or could not be confirmed gone.
Stopped(k) ==
    \/ SetProc(k, "gone")
    \/ procs[k].st = "starting" /\ SetProc(k, "orphan")

\* Mutant: a launch whose start failed keeps its record.
LaunchFailedKeepsRecord(c) ==
    /\ up /\ c \in Launches /\ cmd[c].at = "failing"
    /\ Stopped(cmd[c].k)
    /\ cur' = 0
    /\ objs' = Update(cmd[c].o, Rep("failed", cmd[c].k, c, FALSE)) /\ At(c, "undone")
    /\ UNCHANGED <<gateway, shown, finished, record, due, up, ghost, fails, crashes>>

\* A launch whose start failed leaves no session, no record and no worktree.
LaunchFailed(c) ==
    /\ up /\ c \in Launches /\ cmd[c].at = "failing"
    /\ Stopped(cmd[c].k)
    /\ cur' = 0 /\ record' = "none"
    /\ objs' = Update(cmd[c].o, Rep("failed", cmd[c].k, c, FALSE)) /\ At(c, "undone")
    /\ UNCHANGED <<gateway, shown, finished, due, up, ghost, fails, crashes>>

\* A resume whose start failed puts a live session back as it was.
ResumeFailed(c) ==
    /\ up /\ c \in Resumes /\ cmd[c].at = "failing"
    /\ Stopped(cmd[c].k)
    /\ IF cmd[c].live
       THEN /\ objs' = [objs EXCEPT ![cmd[c].o].connected = cmd[c].was, ![cmd[c].o].held = cmd[c].held]
            /\ UNCHANGED cur
       ELSE cur' = 0 /\ UNCHANGED objs
    /\ Posting(c, "refused")
    /\ UNCHANGED <<gateway, shown, record, due, up, ghost, fails, crashes>>

-----------------------------------------------------------------------------
\* Connecting, and the prompt

\* Mutant: the session connects as running, whatever its runtime reported.
HeldIgnored(o) == "running"

Held(o) == IF objs[o].held = None THEN "running" ELSE objs[o].held

\* connect: what the runtime reported meanwhile and the mode, in one report.
Connect(c) ==
    /\ up /\ cmd[c].at = "started"
    /\ LET o == cmd[c].o
           k == cmd[c].k
           s == Held(o) IN
        /\ objs' = [objs EXCEPT ![o].connected = TRUE, ![o].held = None, ![o].status = s,
                                ![o].reports = Append(@, Rep(s, k, c, TRUE))]
        /\ due' = due \cup {k}
    /\ At(c, "connecting")
    /\ UNCHANGED <<gateway, shown, finished, record, cur, procs, up, ghost, fails, crashes>>

\* deliverPrompt: once the connecting report was delivered; a runtime that ended
\* meanwhile refuses it.
Connecting(k) == \E o \in DOMAIN objs : \E i \in DOMAIN objs[o].reports :
                    objs[o].reports[i].mode /\ objs[o].reports[i].k = k

Prompt(k) ==
    /\ up /\ k \in due /\ ~Connecting(k)
    /\ due' = due \ {k}
    /\ prompts' = IF Alive(k) THEN prompts \cup {k} ELSE prompts
    /\ UNCHANGED <<gateway, shown, cmd, finished, objs, cur, record, procs, up, modes, bare, denied, dropped, fails, crashes>>

\* The command's result does not wait for a connecting report that is retried.
CommandApplied(c) ==
    /\ up
    /\ cmd[c].at = "connected" \/ (cmd[c].at = "prompting" /\ cmd[c].k \notin due)
    /\ Posting(c, "applied")
    /\ UNCHANGED <<gateway, shown, objs, cur, record, procs, due, up, ghost, fails, crashes>>

\* The report of a stop, or of a launch that failed, was attempted.
CommandReported(c) ==
    /\ up /\ cmd[c].at = "reported"
    /\ Posting(c, IF c \in Launches THEN "refused" ELSE "applied")
    /\ UNCHANGED <<gateway, shown, objs, cur, record, procs, due, up, ghost, fails, crashes>>

-----------------------------------------------------------------------------
\* Runtimes

\* A turn starts or ends.
RuntimeStatus(k) ==
    /\ up /\ procs[k].st = "up"
    /\ LET o == procs[k].o IN
        /\ Len(objs[o].reports) < MaxReports
        /\ \E s \in Connected \ {objs[o].status, objs[o].held} : objs' = Told(o, k, s)
    /\ UNCHANGED <<gateway, shown, cmd, finished, cur, record, procs, due, up, ghost, fails, crashes>>

\* The session of the runtime ends, on its own or by a stop.
RuntimeEnds(k) ==
    /\ up /\ procs[k].st = "up"
    /\ SetProc(k, IF Codex THEN "gone" ELSE "closing")
    /\ objs' = IF objs[procs[k].o].status # "stopped" THEN Told(procs[k].o, k, "stopped") ELSE objs
    /\ UNCHANGED <<gateway, shown, cmd, finished, cur, record, due, up, ghost, fails, crashes>>

\* The process of a session that was closed exits, or one that no daemon stopped.
ProcessExits(k) ==
    /\ procs[k].st \in {"closing", "orphan"}
    /\ SetProc(k, "gone")
    /\ UNCHANGED <<gateway, shown, daemon, record, up, ghost, fails, crashes>>

-----------------------------------------------------------------------------
\* Commands

\* A session is stopped once it is launched, and resumed once a launch has its result.
Issue(c) ==
    /\ c \notin issued
    /\ c \in Stops => \E l \in Launches : l \in issued
    /\ c \in Resumes => \E l \in Launches : recorded[l] # None
    /\ issued' = issued \cup {c}
    /\ UNCHANGED <<recorded, shown, daemon, record, procs, up, ghost, fails, crashes>>

\* A poll answers with the commands whose result the gateway does not have, again and
\* again; deliver ignores one that still runs (cmd[c].at # "idle").
Received(c) == up /\ c \in issued /\ recorded[c] = None /\ cmd[c].at = "idle"

\* Mutant: a command that was done is not started again, and that is all.
DeliverDoneSilently(c) ==
    /\ Received(c) /\ Done(c) # {}
    /\ UNCHANGED <<issued, recorded, shown, daemon, record, procs, up, ghost, fails, crashes>>

\* One that was done gets its result posted again.
DeliverDone(c) ==
    /\ Received(c)
    /\ \E i \in Done(c) : Posted(c, finished[i].res)
    /\ UNCHANGED <<issued, shown, daemon, record, procs, up, ghost, crashes>>

Handling(c) == Received(c) /\ Done(c) = {}

\* Mutant: only a session of this process counts as a launch already handled.
AlreadyManaged == cur # 0

\* A retried launch never starts a second process.
Already == cur # 0 \/ record # "none"

LaunchAlready(c) ==
    /\ Handling(c) /\ c \in Launches /\ Already
    /\ Posting(c, IF Alive(Adapter) THEN "applied" ELSE "unknown")
    /\ UNCHANGED <<issued, recorded, shown, objs, cur, record, procs, due, up, ghost, fails, crashes>>

\* The workspace, the runtime, the sandbox or the worktree refuses it.
LaunchRefused(c) ==
    /\ Handling(c) /\ c \in Launches /\ ~Already
    /\ Posting(c, "refused")
    /\ UNCHANGED <<issued, recorded, shown, objs, cur, record, procs, due, up, ghost, fails, crashes>>

\* The launch is recorded, then reported as starting.
Launch(c) ==
    /\ Handling(c) /\ c \in Launches /\ ~Already
    /\ record' = "recorded"
    /\ objs' = Append(objs, [NewObj EXCEPT !.reports = <<Rep("starting", 0, c, FALSE)>>])
    /\ cur' = Len(objs) + 1
    /\ cmd' = [cmd EXCEPT ![c] = [Idle EXCEPT !.at = "reporting", !.o = Len(objs) + 1]]
    /\ UNCHANGED <<issued, recorded, shown, finished, procs, due, up, ghost, fails, crashes>>

\* Still running, no native session recorded, or refused like a launch.
ResumeRefused(c) ==
    /\ Handling(c) /\ c \in Resumes
    /\ Posting(c, "refused")
    /\ UNCHANGED <<issued, recorded, shown, objs, cur, record, procs, due, up, ghost, fails, crashes>>

\* Mutant: a session that still runs is resumed too.
ResumeAnyway(c) ==
    /\ Handling(c) /\ c \in Resumes /\ record = "native" /\ Len(procs) < MaxProc
    /\ LET o == IF cur = 0 THEN Len(objs) + 1 ELSE cur
           ms == IF cur = 0 THEN Append(objs, NewObj) ELSE objs
           k == Len(procs) + 1 IN
        /\ objs' = [ms EXCEPT ![o].connected = FALSE, ![o].held = None, ![o].adapter = k]
        /\ procs' = NewProc(o, c)
        /\ cur' = o
        /\ cmd' = [cmd EXCEPT ![c] = [at |-> "starting", o |-> o, k |-> k, res |-> None, live |-> cur # 0,
                                      was |-> ms[o].connected, held |-> ms[o].held]]
    /\ UNCHANGED <<issued, recorded, shown, finished, record, due, up, ghost, fails, crashes>>

\* The session is not connected again until its mode is re-established.
Resume(c) ==
    /\ Handling(c) /\ c \in Resumes /\ ~Alive(Adapter) /\ record = "native" /\ Len(procs) < MaxProc
    /\ LET o == IF cur = 0 THEN Len(objs) + 1 ELSE cur
           ms == IF cur = 0 THEN Append(objs, NewObj) ELSE objs
           k == Len(procs) + 1 IN
        /\ objs' = [ms EXCEPT ![o].connected = FALSE, ![o].held = None, ![o].adapter = k]
        /\ procs' = NewProc(o, c)
        /\ cur' = o
        /\ cmd' = [cmd EXCEPT ![c] = [at |-> "starting", o |-> o, k |-> k, res |-> None, live |-> cur # 0,
                                      was |-> ms[o].connected, held |-> ms[o].held]]
    /\ UNCHANGED <<issued, recorded, shown, finished, record, due, up, ghost, fails, crashes>>

StopRefused(c) ==
    /\ Handling(c) /\ c \in Stops /\ Adapter = 0
    /\ Posting(c, "refused")
    /\ UNCHANGED <<issued, recorded, shown, objs, cur, record, procs, due, up, ghost, fails, crashes>>

Stop(c) ==
    /\ Handling(c) /\ c \in Stops /\ Adapter # 0
    /\ cmd' = [cmd EXCEPT ![c] = [Idle EXCEPT !.at = "stopping", !.o = cur, !.k = Adapter]]
    /\ UNCHANGED <<issued, recorded, shown, finished, objs, cur, record, procs, due, up, ghost, fails, crashes>>

\* The process exited: the session is reported stopped, then the result.
StopApplied(c) ==
    /\ up /\ cmd[c].at = "stopping" /\ procs[cmd[c].k].st = "gone"
    /\ objs' = Update(cmd[c].o, Rep("stopped", cmd[c].k, c, FALSE))
    /\ At(c, "stopped")
    /\ UNCHANGED <<gateway, shown, finished, cur, record, procs, due, up, ghost, fails, crashes>>

\* It could not be confirmed gone.
StopUnknown(c) ==
    /\ up /\ cmd[c].at = "stopping" /\ procs[cmd[c].k].st # "gone"
    /\ Posting(c, "unknown")
    /\ UNCHANGED <<gateway, shown, objs, cur, record, procs, due, up, ghost, fails, crashes>>

-----------------------------------------------------------------------------
\* The daemon's process ends; a runtime exits with it or is left to itself.
Crash ==
    /\ up /\ crashes < MaxCrash /\ crashes' = crashes + 1
    /\ up' = FALSE
    /\ cmd' = [c \in Commands |-> Idle] /\ finished' = <<>> /\ objs' = <<>> /\ cur' = 0 /\ due' = {}
    /\ \E st \in {"gone", "orphan"} :
         procs' = [k \in DOMAIN procs |->
            IF procs[k].st \in {"created", "gone"} THEN [procs[k] EXCEPT !.st = "gone"]
            ELSE [procs[k] EXCEPT !.st = st]]
    /\ UNCHANGED <<issued, recorded, shown, record, ghost, fails>>

Restart ==
    /\ ~up /\ up' = TRUE
    /\ UNCHANGED <<gateway, shown, daemon, record, procs, ghost, fails, crashes>>

Init ==
    /\ issued = {} /\ recorded = [c \in Commands |-> None] /\ shown = None
    /\ cmd = [c \in Commands |-> Idle] /\ finished = <<>> /\ record = "none"
    /\ objs = <<>> /\ cur = 0 /\ procs = <<>> /\ due = {} /\ up = TRUE
    /\ modes = {} /\ prompts = {} /\ bare = {} /\ denied = {} /\ dropped = FALSE
    /\ fails = 0 /\ crashes = 0

Handle(c) ==
    \/ DeliverDone(c)
    \/ LaunchAlready(c) \/ LaunchRefused(c) \/ Launch(c)
    \/ ResumeRefused(c) \/ Resume(c) \/ StopRefused(c) \/ Stop(c)

Continue(c) ==
    \/ StartAdapter(c) \/ Spawn(c) \/ RegisterNative(c) \/ AdapterStarts(c)
    \/ LaunchFailed(c) \/ ResumeFailed(c)
    \/ Connect(c) \/ CommandApplied(c) \/ CommandReported(c)
    \/ StopApplied(c) \/ StopUnknown(c) \/ Post(c)

Next ==
    \/ \E c \in Commands : Issue(c) \/ Handle(c) \/ Continue(c) \/ StartFails(c)
    \/ \E o \in DOMAIN objs : ReportDelivered(o) \/ ReportFails(o) \/ ReportRefused(o)
    \/ \E k \in DOMAIN procs : Prompt(k) \/ RuntimeStatus(k) \/ RuntimeEnds(k) \/ ProcessExits(k)
    \/ Crash \/ Restart

Spec == Init /\ [][Next]_vars

\* The event loop runs what can run, requests are answered (but for MaxFail of them)
\* and the daemon is started again.
FairSpec ==
    /\ Spec
    /\ WF_vars(Restart)
    /\ \A c \in Commands : WF_vars(Handle(c)) /\ WF_vars(Continue(c))
    /\ \A o \in 1..MaxProc + 1 : WF_vars(o \in DOMAIN objs /\ ReportDelivered(o))
    /\ \A k \in 1..MaxProc : WF_vars(k \in DOMAIN procs /\ Prompt(k))

-----------------------------------------------------------------------------
\* Properties

Procs == 1..Len(procs)

TypeOK ==
    /\ issued \subseteq Commands /\ recorded \in [Commands -> Results \cup {None}]
    /\ shown \in Statuses \cup {None}
    /\ \A c \in Commands : cmd[c].o \in 0..Len(objs) /\ cmd[c].k \in 0..Len(procs)
    /\ Len(finished) <= MaxFinished /\ record \in {"none", "recorded", "native"}
    /\ cur \in 0..Len(objs)
    /\ \A o \in 1..Len(objs) :
         /\ objs[o].status \in Statuses /\ objs[o].held \in Statuses \cup {None}
         /\ objs[o].adapter \in 0..Len(procs)
    /\ \A k \in Procs : procs[k].st \in {"created", "starting", "up", "closing", "gone", "orphan"}
    /\ due \cup modes \cup prompts \cup bare \cup denied \subseteq 0..Len(procs)
    /\ up \in BOOLEAN /\ dropped \in BOOLEAN /\ fails <= MaxFail /\ crashes <= MaxCrash

(* "never start a second process": the launches of a session, redelivered after a *)
(* lost result, after their result was forgotten or after a crash, start at most   *)
(* one runtime.                                                                    *)
LaunchOnce == Cardinality({k \in Procs : procs[k].by \in Launches /\ procs[k].ok}) <= 1

(* The gateway has the mode of a runtime before that runtime is handed its prompt, *)
(* and before any connected status of it, unless it refused the report that would   *)
(* have told it.                                                                   *)
ModeFirst == prompts \subseteq modes /\ bare \subseteq denied

(* Once the reports of a connected session were sent and none was dropped, the    *)
(* gateway shows its status: reports are never applied out of order.              *)
ShownIsStatus ==
    cur # 0 /\ objs[cur].connected /\ objs[cur].reports = <<>> /\ ~dropped /\ denied = {}
        => shown = objs[cur].status

(* A connected session is stopped exactly when its runtime has ended, whenever it  *)
(* did: during the start, while the session connects, by a stop or on its own.      *)
StatusOf(cs) ==
    cur # 0 /\ objs[cur].connected /\ objs[cur].adapter # 0
        /\ procs[objs[cur].adapter].by \in cs =>
        (objs[cur].status = "stopped" <=> ~Alive(objs[cur].adapter))

(* A launched session has the status of its runtime.                               *)
LaunchedStatus == StatusOf(Launches)

(* A resumed one has too: the connected status is "the one the runtime reported    *)
(* meanwhile".                                                                     *)
ResumedStatus == StatusOf(Resumes)

(* A launch the gateway records as refused left nothing that would take its        *)
(* redelivery, or a new launch, for one already handled.                           *)
RefusedLaunchLeavesNothing ==
    (\E l \in Launches : recorded[l] = "refused") /\ (\A l \in Launches : cmd[l].at = "idle") =>
        record = "none" \/ \E k \in Procs : procs[k].by \in Launches /\ procs[k].ok

(* No two runtimes of the session run at the same time: a session that still runs  *)
(* is not resumed.                                                                 *)
OneRuntime == Cardinality({k \in Procs : procs[k].st \in {"starting", "up"}}) <= 1

(* Every command gets its result recorded, whatever results were lost on the way.  *)
Answered == \A c \in Commands : c \in issued ~> recorded[c] # None

=============================================================================
