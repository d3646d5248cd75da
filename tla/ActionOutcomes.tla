---------------------------- MODULE ActionOutcomes ----------------------------
(***************************************************************************)
(* The life of the actions of one session between its runtime, the         *)
(* connector and the gateway (connector/src/session.ts, and the parts of   *)
(* daemon.ts that end a session, stop the daemon and deliver what was       *)
(* saved): a tool call is authorized, perhaps after an approval; the         *)
(* outcome of an admitted action is reported and retained until the gateway *)
(* acknowledges it; turns, the session's end and the daemon's stop settle    *)
(* what never reported; a stop saves what is left for the next start.       *)
(*                                                                          *)
(* The gateway is modelled from the requests made to it: it decides an      *)
(* action once, and answers a retry of a decided action alike.              *)
(***************************************************************************)
EXTENDS Naturals, FiniteSets

CONSTANTS
    Actions,   \* the tool calls, one gateway action each
    Enforce,   \* mode = "enforce": what cannot be authorized is denied
    MaxFail,   \* bound: requests that fail while the daemon is up
    MaxCrash   \* bound: crashes of the daemon

ASSUME OutcomesAssumption == Enforce \in BOOLEAN /\ MaxFail \in Nat /\ MaxCrash \in Nat

VARIABLES
    call,      \* the runtime's tool calls and the hook requests about them
    gw,        \* the gateway: its decision of each action
    got,       \* the gateway: the outcomes it received for each action
    open,      \* SessionContext.open: "none", "admitted" (no outcome yet) or the outcome
    sends,     \* reports in flight; live: of the retained entry; wait: settleOpen awaits it
    settling,  \* SessionContext.settling: what final settlements deliver
    session,   \* the daemon's session: "on", "ending" or "ended" (forgotten)
    tracked,   \* settlingContexts has the context: "no", "settling" or "kept"
    daemon,    \* "up", "stopping" (hooks are cut), "settling" or "down"
    saved,     \* the outcomes file: pairs of an action and its outcome
    sending,   \* deliverSaved: the saved outcomes being sent (at most one)
    known,     \* ghost: actions that were in a context's open
    late,      \* ghost: those admitted or reported once the session was ending
    observed,  \* ghost: actions whose tool reported
    settled,   \* ghost: actions with an outcome acknowledged or refused for good
    fails, crashes

context == <<open, sends, settling>>
ghost   == <<known, late, observed, settled>>
life    == <<session, tracked, daemon>>
vars    == <<call, gw, got, context, life, saved, sending, ghost, fails, crashes>>

Calls     == {"idle", "asking", "waiting", "again", "refusing", "running", "done",
              "blocked", "gone"}
Decisions == {"none", "pending", "approved", "rejected", "admitted", "refused"}
Outcomes  == {"completed", "unknown"}
Pending   == [a : Actions, out : Outcomes]
Sends     == [a : Actions, out : Outcomes, live : BOOLEAN, wait : BOOLEAN]

Live(a) == \E s \in sends : s.a = a /\ s.live
Opened  == {a \in Actions : open[a] # "none"}
Late(a) == late' = IF session = "on" THEN late ELSE late \cup {a}

-----------------------------------------------------------------------------
\* report: the outcome is retained, and its send is the one that may remove it.

Superseded(a) == {IF s.a = a THEN [s EXCEPT !.live = FALSE, !.wait = FALSE] ELSE s : s \in sends}
Fresh(a, out) == [a |-> a, out |-> out, live |-> TRUE, wait |-> FALSE]
Report(a, out) ==
    /\ open' = [open EXCEPT ![a] = out]
    /\ sends' = Superseded(a) \cup {Fresh(a, out)}

\* What settling an open action reports: what was observed, else unknown.
Due(a) == IF open[a] = "admitted" THEN "unknown" ELSE open[a]

\* Mutant: what was not reported is settled as unknown, whatever is in flight.
SettleOpenAtOnce(ids) ==
    LET open_ == {a \in ids : open[a] # "none"} IN
    /\ open' = [a \in Actions |-> IF a \in open_ THEN "unknown" ELSE open[a]]
    /\ sends' = {IF s.a \in open_ THEN [s EXCEPT !.live = FALSE] ELSE s : s \in sends}
                \cup {Fresh(a, "unknown") : a \in open_}

\* settleOpen: a report in flight is awaited rather than duplicated.
SettleOpen(ids) ==
    LET open_ == {a \in ids : open[a] # "none"} IN
    /\ open' = [a \in Actions |-> IF a \in open_ THEN Due(a) ELSE open[a]]
    /\ sends' = {IF s.a \in open_ /\ s.live THEN [s EXCEPT !.wait = TRUE] ELSE s : s \in sends}
                \cup {Fresh(a, Due(a)) : a \in {b \in open_ : ~Live(b)}}

-----------------------------------------------------------------------------
\* Authorization

\* The first request of a call; a forgotten session has no route to the daemon.
Ask(a) ==
    /\ daemon = "up" /\ session # "ended" /\ call[a] = "idle"
    /\ call' = [call EXCEPT ![a] = "asking"]
    /\ UNCHANGED <<gw, got, context, life, saved, sending, ghost, fails, crashes>>

\* The gateway decides: an approval that was given is consumed.
Decided(d) ==
    CASE d = "none"     -> {"pending", "admitted", "refused"}
      [] d = "approved" -> {"admitted"}
      [] d = "rejected" -> {"refused"}
      [] OTHER          -> {d}

Requesting(a) == daemon # "down" /\ call[a] \in {"asking", "again", "refusing"}

\* The answer of the gateway: an admitted action is open until its outcome is
\* acknowledged; one that `refusing` finds admitted is denied all the same.
Answered(a) ==
    /\ Requesting(a)
    /\ \E d \in Decided(gw[a]) :
        /\ gw' = [gw EXCEPT ![a] = d]
        /\ call' = [call EXCEPT ![a] =
              CASE d = "pending" /\ @ = "asking"    -> "waiting"
                [] d = "admitted" /\ @ # "refusing" -> "running"
                [] OTHER                            -> "blocked"]
        /\ IF d = "admitted"
           THEN /\ open' = [open EXCEPT ![a] = IF @ = "none" THEN "admitted" ELSE @]
                /\ known' = known \cup {a}
                /\ Late(a)
           ELSE UNCHANGED <<open, known, late>>
    /\ UNCHANGED <<got, sends, settling, life, saved, sending, observed, settled, fails, crashes>>

\* Mutant: a request that fails leaves the decision to the runtime in every mode.
UnansweredAllows(a) ==
    /\ Requesting(a)
    /\ fails < MaxFail /\ fails' = fails + 1
    /\ call' = [call EXCEPT ![a] = "running"]
    /\ UNCHANGED <<gw, got, context, life, saved, sending, ghost, crashes>>

\* failClosed: the request failed, or the stop of the daemon cut it; the gateway may
\* have decided.
Unanswered(a) ==
    /\ Requesting(a)
    /\ IF daemon = "up" THEN fails < MaxFail /\ fails' = fails + 1 ELSE UNCHANGED fails
    /\ \E d \in Decided(gw[a]) \cup {gw[a]} : gw' = [gw EXCEPT ![a] = d]
    /\ call' = [call EXCEPT ![a] = IF Enforce \/ @ = "refusing" THEN "blocked" ELSE "running"]
    /\ UNCHANGED <<got, context, life, saved, sending, ghost, crashes>>

\* A reviewer decides, or the approval expires.
Review(a) ==
    /\ gw[a] = "pending"
    /\ \E d \in {"approved", "rejected"} : gw' = [gw EXCEPT ![a] = d]
    /\ UNCHANGED <<call, got, context, life, saved, sending, ghost, fails, crashes>>

\* waitForApproval: an approved call is submitted again; for any other end, the
\* deadline and the daemon's stop included, a request lets the gateway record it.
ApprovalEnds(a) ==
    /\ call[a] = "waiting" /\ daemon # "down"
    /\ \/ gw[a] = "approved" /\ call' = [call EXCEPT ![a] = "again"]
       \/ call' = [call EXCEPT ![a] = "refusing"]
    /\ UNCHANGED <<gw, got, context, life, saved, sending, ghost, fails, crashes>>

-----------------------------------------------------------------------------
\* Outcomes

\* PostToolUse: the observed outcome, reported when the call has an action.
ToolReports(a) ==
    /\ daemon = "up" /\ session # "ended" /\ call[a] = "running"
    /\ call' = [call EXCEPT ![a] = "done"]
    /\ IF a \in known
       THEN Report(a, "completed") /\ observed' = observed \cup {a} /\ Late(a)
       ELSE UNCHANGED <<open, sends, observed, late>>
    /\ UNCHANGED <<gw, got, settling, life, saved, sending, known, settled, fails, crashes>>

Finished(s) == sends \ {s}

\* The gateway acknowledges a report, or refuses it for good once it has an outcome:
\* the entry is removed if it is still the retained one.
Acked(s) ==
    /\ s \in sends /\ daemon # "down"
    /\ \/ got' = [got EXCEPT ![s.a] = @ \cup {s.out}]
       \/ got[s.a] # {} /\ UNCHANGED got
    /\ settled' = settled \cup {<<s.a, s.out>>}
    /\ sends' = Finished(s)
    /\ IF s.live
       THEN open' = [open EXCEPT ![s.a] = "none"] /\ settling' = settling \ {s.a}
       ELSE UNCHANGED <<open, settling>>
    /\ UNCHANGED <<call, gw, life, saved, sending, known, late, observed, fails, crashes>>

\* A report fails, received or not; a settlement that awaited it reports again.
ReportFails(s) ==
    /\ s \in sends /\ daemon # "down" /\ fails < MaxFail /\ fails' = fails + 1
    /\ \/ got' = [got EXCEPT ![s.a] = @ \cup {s.out}]
       \/ UNCHANGED got
    /\ sends' = IF s.wait THEN Finished(s) \cup {Fresh(s.a, s.out)} ELSE Finished(s)
    /\ UNCHANGED <<call, gw, open, settling, life, saved, sending, ghost, crashes>>

\* The Stop hook: the end of a turn.
TurnEnds ==
    /\ daemon = "up" /\ session # "ended" /\ Opened # {}
    /\ SettleOpen(Actions)
    /\ UNCHANGED <<call, gw, got, settling, life, saved, sending, ghost, fails, crashes>>

\* settleFinal of what is open and not settling yet.
SettleFinal ==
    /\ SettleOpen(Opened \ settling)
    /\ settling' = Opened

\* A settlement after its delay delivers again, until its budget is spent.
SettleAgain(a) ==
    /\ daemon # "down" /\ a \in settling /\ open[a] # "none" /\ ~Live(a)
    /\ SettleOpen({a})
    /\ UNCHANGED <<call, gw, got, settling, life, saved, sending, ghost, fails, crashes>>

SettleGivesUp(a) ==
    /\ daemon # "down" /\ a \in settling /\ ~Live(a)
    /\ settling' = settling \ {a}
    /\ UNCHANGED <<call, gw, got, open, sends, life, saved, sending, ghost, fails, crashes>>

\* SessionEnd of a local session: its final settlement, then its status report, and
\* the daemon forgets it.
SessionEnds ==
    /\ daemon = "up" /\ session = "on" /\ session' = "ending" /\ tracked' = "settling"
    /\ SettleFinal
    /\ UNCHANGED <<call, gw, got, daemon, saved, sending, ghost, fails, crashes>>

Forget ==
    /\ daemon # "down" /\ session = "ending" /\ session' = "ended"
    /\ UNCHANGED <<call, gw, got, context, tracked, daemon, saved, sending, ghost, fails, crashes>>

\* The settlement is over: the context is kept only for outcomes it retains.
Unacknowledged == \E a \in Actions : open[a] \in Outcomes

\* Mutant: the context is forgotten with its settlement.
UntrackAlways ==
    /\ daemon # "down" /\ tracked = "settling" /\ settling = {}
    /\ tracked' = "no"
    /\ UNCHANGED <<call, gw, got, context, session, daemon, saved, sending, ghost, fails, crashes>>

Untrack ==
    /\ daemon # "down" /\ tracked = "settling" /\ settling = {}
    /\ tracked' = IF Unacknowledged THEN "kept" ELSE "no"
    /\ UNCHANGED <<call, gw, got, context, session, daemon, saved, sending, ghost, fails, crashes>>

-----------------------------------------------------------------------------
\* The daemon

\* stop: nothing new is admitted, and the hook requests are cut.
Stop ==
    /\ daemon = "up" /\ daemon' = "stopping"
    /\ sending' = {}
    /\ \/ UNCHANGED got
       \/ got' = [a \in Actions |-> got[a] \cup {o.out : o \in {p \in sending : p.a = a}}]
    /\ UNCHANGED <<call, gw, context, session, tracked, saved, ghost, fails, crashes>>

\* The hook requests are answered or the deadline has passed: what is open settles.
StopSettles ==
    /\ daemon = "stopping" /\ daemon' = "settling"
    /\ IF session # "ended" THEN SettleFinal ELSE UNCHANGED context
    /\ UNCHANGED <<call, gw, got, session, tracked, saved, sending, ghost, fails, crashes>>

Reachable == session # "ended" \/ tracked # "no"

\* Mutant: only what has an outcome is handed over.
LeftObserved ==
    IF Reachable THEN {[a |-> a, out |-> open[a]] : a \in {b \in Opened : open[b] # "admitted"}}
    ELSE {}

Left == IF Reachable THEN {[a |-> a, out |-> Due(a)] : a \in Opened} ELSE {}

\* The settlements are over or the deadline has passed: close cuts the reports in
\* flight and hands over every outcome that is not acknowledged.
StopSaves ==
    /\ daemon = "settling" /\ daemon' = "down"
    /\ saved' = Left \cup {o \in saved : \A l \in Left : l.a # o.a}
    /\ open' = [a \in Actions |-> "none"] /\ sends' = {} /\ settling' = {}
    /\ call' = [a \in Actions |-> IF call[a] = "idle" THEN "idle" ELSE "gone"]
    /\ \E cut \in SUBSET sends :
          got' = [a \in Actions |-> got[a] \cup {s.out : s \in {t \in cut : t.a = a}}]
    /\ UNCHANGED <<gw, session, tracked, sending, ghost, fails, crashes>>

Crash ==
    /\ daemon # "down" /\ crashes < MaxCrash /\ crashes' = crashes + 1
    /\ daemon' = "down"
    /\ open' = [a \in Actions |-> "none"] /\ sends' = {} /\ settling' = {} /\ sending' = {}
    /\ call' = [a \in Actions |-> IF call[a] = "idle" THEN "idle" ELSE "gone"]
    /\ UNCHANGED <<gw, got, session, tracked, saved, ghost, fails>>

Start ==
    /\ daemon = "down" /\ daemon' = "up" /\ session' = "on" /\ tracked' = "no"
    /\ UNCHANGED <<call, gw, got, context, saved, sending, ghost, fails, crashes>>

\* deliverSaved sends the saved outcomes one after the other.
Deliver ==
    /\ daemon = "up" /\ sending = {}
    /\ \E o \in saved : sending' = {o}
    /\ UNCHANGED <<call, gw, got, context, life, saved, ghost, fails, crashes>>

\* Mutant: an outcome that the gateway refuses for good is kept for another try.
DeliveredIfAccepted ==
    /\ daemon = "up"
    /\ \E o \in sending :
        \/ /\ got' = [got EXCEPT ![o.a] = @ \cup {o.out}]
           /\ saved' = saved \ {o} /\ settled' = settled \cup {<<o.a, o.out>>}
        \/ got[o.a] # {} /\ UNCHANGED <<got, saved, settled>>
    /\ sending' = {}
    /\ UNCHANGED <<call, gw, context, life, known, late, observed, fails, crashes>>

Delivered ==
    /\ daemon = "up"
    /\ \E o \in sending :
        /\ \/ got' = [got EXCEPT ![o.a] = @ \cup {o.out}]
           \/ got[o.a] # {} /\ UNCHANGED got
        /\ saved' = saved \ {o} /\ settled' = settled \cup {<<o.a, o.out>>}
    /\ sending' = {}
    /\ UNCHANGED <<call, gw, context, life, known, late, observed, fails, crashes>>

DeliverFails ==
    /\ daemon = "up" /\ fails < MaxFail /\ fails' = fails + 1
    /\ \E o \in sending :
        \/ got' = [got EXCEPT ![o.a] = @ \cup {o.out}]
        \/ UNCHANGED got
    /\ sending' = {}
    /\ UNCHANGED <<call, gw, context, life, saved, ghost, crashes>>

-----------------------------------------------------------------------------
Init ==
    /\ call = [a \in Actions |-> "idle"] /\ gw = [a \in Actions |-> "none"]
    /\ got = [a \in Actions |-> {}]
    /\ open = [a \in Actions |-> "none"] /\ sends = {} /\ settling = {}
    /\ session = "on" /\ tracked = "no" /\ daemon = "up"
    /\ saved = {} /\ sending = {}
    /\ known = {} /\ late = {} /\ observed = {} /\ settled = {}
    /\ fails = 0 /\ crashes = 0

Next ==
    \/ \E a \in Actions :
          \/ Ask(a) \/ Answered(a) \/ Unanswered(a) \/ Review(a) \/ ApprovalEnds(a)
          \/ ToolReports(a) \/ SettleAgain(a) \/ SettleGivesUp(a)
    \/ \E s \in sends : Acked(s) \/ ReportFails(s)
    \/ TurnEnds \/ SessionEnds \/ Forget \/ Untrack
    \/ Stop \/ StopSettles \/ StopSaves \/ Crash \/ Start
    \/ Deliver \/ Delivered \/ DeliverFails

Spec == Init /\ [][Next]_vars

\* The daemon that is up sends what it saved, and a send that is not one of the
\* MaxFail failures is answered.
FairSpec == Spec /\ WF_vars(Deliver) /\ WF_vars(Delivered)

-----------------------------------------------------------------------------
\* Properties

Opens == {"none", "admitted"} \cup Outcomes

TypeOK ==
    /\ call \in [Actions -> Calls] /\ gw \in [Actions -> Decisions]
    /\ got \in [Actions -> SUBSET Outcomes] /\ open \in [Actions -> Opens]
    /\ sends \subseteq Sends /\ settling \subseteq Actions
    /\ session \in {"on", "ending", "ended"} /\ tracked \in {"no", "settling", "kept"}
    /\ daemon \in {"up", "stopping", "settling", "down"}
    /\ saved \subseteq Pending /\ sending \subseteq Pending
    /\ known \cup late \cup observed \subseteq Actions /\ settled \subseteq Actions \X Outcomes
    /\ fails \in Nat /\ crashes \in Nat

Ended(a)   == \E out \in Outcomes : <<a, out>> \in settled
IsSaved(a) == \E o \in saved : o.a = a

(* In enforce mode a tool runs only if the gateway admitted its action, whatever *)
(* request about it failed, was cut or was answered late.                        *)
AdmittedOnly ==
    Enforce => \A a \in Actions : call[a] \in {"running", "done"} => gw[a] = "admitted"

(* An outcome that a tool reported is retained until the gateway acknowledges    *)
(* it, through settlements, the end of the session and the stop of the daemon,   *)
(* as long as no process crashed and the tool reported before its session was    *)
(* ending.                                                                       *)
ObservedKept ==
    crashes = 0 => \A a \in observed \ late :
        \/ <<a, "completed">> \in settled
        \/ open[a] = "completed" /\ Reachable
        \/ [a |-> a, out |-> "completed"] \in saved

(* close hands over "every other admitted action whose tool never reported":     *)
(* without a crash no action the daemon knew is left open on the gateway, unless *)
(* its admission came while its session was ending.                              *)
NoneLeftOpen ==
    crashes = 0 => \A a \in known \ late :
        Ended(a) \/ IsSaved(a) \/ (open[a] # "none" /\ Reachable)

(* Once an outcome was observed the connector starts no report of "unknown" for  *)
(* that action: a settlement that waited looks again at what is retained.        *)
NoUnknownAfter ==
    [][\A s \in sends' \ sends : s.live /\ s.out = "unknown" => s.a \notin observed']_vars

(* A saved outcome leaves the file only once the gateway settled it, or for a     *)
(* newer outcome of the same action, whatever crash or stop interrupts its        *)
(* delivery.                                                                      *)
SavedKept ==
    [][\A o \in saved \ saved' :
         <<o.a, o.out>> \in settled' \/ \E l \in saved' : l.a = o.a]_vars

(* Saved outcomes reach the gateway once a daemon stays up.                      *)
SavedDelivered == <>[](daemon = "up") => <>[](saved = {})

=============================================================================
