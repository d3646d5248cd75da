------------------------- MODULE ActionOutcomesProofs -------------------------
(***************************************************************************)
(* Proofs about ActionOutcomes, for any set of actions and any number of   *)
(* failures: what is retained (Retained) and what the ends of the session   *)
(* leave (Closing) are inductive, and the properties of the run follow.     *)
(***************************************************************************)
EXTENDS ActionOutcomes, TLAPS

\* The context of a daemon that is down is gone, and so are its requests.
DownEmpty ==
    daemon = "down" => sends = {} /\ settling = {} /\ \A a \in Actions : open[a] = "none"

\* A tool reports once, after its authorization; its action then waits for
\* nothing but the acknowledgement of "completed".
ObservedOpen ==
    \A a \in observed :
        /\ a \in known /\ call[a] \in {"done", "gone"}
        /\ open[a] \in {"none", "completed"}

\* The retained entry of an observed action has no other send, and a settlement
\* only awaits the send of the retained entry.
LiveSends ==
    \A s \in sends :
        /\ s.wait => s.live
        /\ s.live /\ s.a \in observed => s.out = "completed"

\* What is settled for good has an outcome, and no action known before the session
\* was ending is without one after.
SettlingOpen == \A a \in settling : open[a] \in Outcomes
EndingOpen   == session # "on" => \A a \in known \ late : open[a] # "admitted"
Forgotten    == session # "on" /\ tracked = "no" => \A a \in known \ late : open[a] = "none"

Retained == DownEmpty /\ ObservedOpen /\ LiveSends
Closing  == SettlingOpen /\ EndingOpen /\ Forgotten

-----------------------------------------------------------------------------
(* Types                                                                    *)

\* The steps that leave the retained outcomes and the session alone.
GatewayStep == \E a \in Actions : Ask(a) \/ Unanswered(a) \/ Review(a) \/ ApprovalEnds(a)

LEMMA SettleEffect ==
  ASSUME TypeOK, NEW ids \in SUBSET Actions, SettleOpen(ids)
  PROVE  /\ open' \in [Actions -> Opens] /\ sends' \subseteq Sends
         /\ \A a \in Actions :
               open'[a] = IF a \in ids /\ open[a] = "admitted" THEN "unknown" ELSE open[a]
         /\ \A t \in sends' :
               \/ t \in sends
               \/ \E s \in sends : s.live /\ t = [s EXCEPT !.wait = TRUE]
               \/ \E a \in ids : /\ open[a] # "none" /\ ~Live(a)
                                 /\ t = Fresh(a, Due(a))
<1> USE DEF TypeOK, Opens, Outcomes
<1>1. \A a \in ids : open[a] # "none" => Due(a) \in Outcomes
  BY DEF Due
<1>2. \A a \in Actions :
         open'[a] = IF a \in ids /\ open[a] = "admitted" THEN "unknown" ELSE open[a]
  BY DEF SettleOpen, Due
<1>3. open' \in [Actions -> Opens]
  BY <1>1 DEF SettleOpen, Due
<1>4. \A t \in sends' :
         \/ t \in sends
         \/ \E s \in sends : s.live /\ t = [s EXCEPT !.wait = TRUE]
         \/ \E a \in ids : open[a] # "none" /\ ~Live(a) /\ t = Fresh(a, Due(a))
  BY DEF SettleOpen
<1>5. \A s \in sends : [s EXCEPT !.wait = TRUE] \in Sends
  BY DEF Sends
<1>6. \A a \in ids : open[a] # "none" => Fresh(a, Due(a)) \in Sends
  BY <1>1 DEF Sends, Fresh
<1> QED
  BY <1>2, <1>3, <1>4, <1>5, <1>6

LEMMA TypeInit == Init => TypeOK
  BY DEF Init, TypeOK, Calls, Decisions, Outcomes, Opens

LEMMA TypeStep == TypeOK /\ [Next]_vars => TypeOK'
<1> SUFFICES ASSUME TypeOK, [Next]_vars PROVE TypeOK'
  OBVIOUS
<1> USE DEF vars, context, ghost, life
<1>1. CASE GatewayStep
  BY <1>1 DEF GatewayStep, Ask, Unanswered, Review, ApprovalEnds, Decided, TypeOK, Calls,
              Decisions
<1>2. ASSUME NEW a \in Actions, Answered(a) PROVE TypeOK'
  BY <1>2 DEF Answered, Decided, Late, TypeOK, Calls, Decisions, Opens
<1>3. ASSUME NEW a \in Actions, ToolReports(a) PROVE TypeOK'
  <2>1. Superseded(a) \subseteq Sends
    BY DEF Superseded, Sends, TypeOK
  <2>2. Fresh(a, "completed") \in Sends
    BY DEF Fresh, Sends, Outcomes
  <2> QED
    BY <1>3, <2>1, <2>2 DEF ToolReports, Report, Late, TypeOK, Calls, Opens, Outcomes
<1>4. ASSUME NEW s \in sends, Acked(s) PROVE TypeOK'
  BY <1>4 DEF Acked, Finished, TypeOK, Sends, Opens, Outcomes
<1>5. ASSUME NEW s \in sends, ReportFails(s) PROVE TypeOK'
  <2>1. s \in Sends /\ Fresh(s.a, s.out) \in Sends
    BY DEF TypeOK, Sends, Fresh
  <2>2. sends' \subseteq Sends /\ got' \in [Actions -> SUBSET Outcomes]
    BY <1>5, <2>1 DEF ReportFails, Finished, TypeOK, Sends
  <2> QED
    BY <1>5, <2>2 DEF ReportFails, TypeOK
<1>6. CASE TurnEnds
  BY <1>6, SettleEffect DEF TurnEnds, TypeOK
<1>7. ASSUME NEW a \in Actions, SettleAgain(a) PROVE TypeOK'
  <2>1. {a} \in SUBSET Actions
    OBVIOUS
  <2> QED
    BY <1>7, <2>1, SettleEffect DEF SettleAgain, TypeOK
<1>8. ASSUME NEW a \in Actions, SettleGivesUp(a) PROVE TypeOK'
  BY <1>8 DEF SettleGivesUp, TypeOK
<1>9. ASSUME SettleFinal
      PROVE  open' \in [Actions -> Opens] /\ sends' \subseteq Sends /\ settling' \subseteq Actions
  BY <1>9, SettleEffect DEF SettleFinal, Opened
<1>10. CASE SessionEnds
  BY <1>9, <1>10 DEF SessionEnds, TypeOK
<1>11. CASE StopSettles
  BY <1>9, <1>11 DEF StopSettles, TypeOK
<1>12. CASE Forget \/ Untrack \/ Start \/ Deliver
  BY <1>12 DEF Forget, Untrack, Start, Deliver, TypeOK
<1>13. CASE Stop
  BY <1>13 DEF Stop, TypeOK, Pending
<1>14. CASE StopSaves
  <2>1. Left \subseteq Pending
    BY DEF Left, Pending, TypeOK, Opened, Due, Opens, Outcomes
  <2>2. got' \in [Actions -> SUBSET Outcomes]
    BY <1>14 DEF StopSaves, TypeOK, Sends
  <2> QED
    BY <1>14, <2>1, <2>2 DEF StopSaves, TypeOK, Calls, Opens, Pending
<1>15. CASE Crash
  BY <1>15 DEF Crash, TypeOK, Calls, Opens
<1>16. CASE Delivered \/ DeliverFails
  BY <1>16 DEF Delivered, DeliverFails, TypeOK, Pending
<1>17. CASE UNCHANGED vars
  BY <1>17 DEF TypeOK
<1> QED
  BY <1>1, <1>2, <1>3, <1>4, <1>5, <1>6, <1>7, <1>8, <1>10, <1>11, <1>12, <1>13, <1>14,
     <1>15, <1>16, <1>17 DEF Next, GatewayStep

(* Every variable keeps its type, whatever requests fail, stops and crashes *)
(* (session.ts and daemon.ts, every operation on the retained outcomes).    *)
THEOREM TypeCorrect == Spec => []TypeOK
  BY TypeInit, TypeStep, PTL DEF Spec

-----------------------------------------------------------------------------
(* Authorization                                                            *)

\* No step lets a call run, or keep running, whose action was not admitted.
LEMMA AdmittedStep == TypeOK /\ AdmittedOnly /\ [Next]_vars => AdmittedOnly'
<1> SUFFICES ASSUME TypeOK, AdmittedOnly, [Next]_vars, Enforce PROVE AdmittedOnly'
  BY DEF AdmittedOnly
<1> USE DEF vars, context, ghost, life, AdmittedOnly
<1>1. ASSUME NEW a \in Actions, Answered(a) PROVE AdmittedOnly'
  BY <1>1 DEF Answered, Requesting, Decided, TypeOK
<1>2. ASSUME NEW a \in Actions, Unanswered(a) PROVE AdmittedOnly'
  BY <1>2 DEF Unanswered, Requesting, Decided, TypeOK
<1>3. ASSUME NEW a \in Actions, Ask(a) \/ Review(a) \/ ApprovalEnds(a) \/ ToolReports(a)
      PROVE  AdmittedOnly'
  BY <1>3 DEF Ask, Review, ApprovalEnds, ToolReports, TypeOK
<1>4. CASE StopSaves \/ Crash
  BY <1>4 DEF StopSaves, Crash, TypeOK
<1>5. ASSUME UNCHANGED <<call, gw>> PROVE AdmittedOnly'
  BY <1>5
<1>6. ASSUME NEW a \in Actions, SettleAgain(a) \/ SettleGivesUp(a) PROVE UNCHANGED <<call, gw>>
  BY <1>6 DEF SettleAgain, SettleGivesUp
<1>7. ASSUME NEW s \in sends, Acked(s) \/ ReportFails(s) PROVE UNCHANGED <<call, gw>>
  BY <1>7 DEF Acked, ReportFails
<1>8. CASE TurnEnds \/ SessionEnds \/ Forget \/ Untrack \/ Stop \/ StopSettles
  BY <1>5, <1>8 DEF TurnEnds, SessionEnds, Forget, Untrack, Stop, StopSettles
<1>9. CASE Start \/ Deliver \/ Delivered \/ DeliverFails
  BY <1>5, <1>9 DEF Start, Deliver, Delivered, DeliverFails
<1> QED
  BY <1>1, <1>2, <1>3, <1>4, <1>5, <1>6, <1>7, <1>8, <1>9 DEF Next

(* In enforce mode a tool runs only if the gateway admitted its action      *)
(* (session.ts, authorize and failClosed).                                  *)
THEOREM AdmittedSafe == Spec => []AdmittedOnly
<1>1. Init => AdmittedOnly
  BY DEF Init, AdmittedOnly
<1> QED
  BY <1>1, TypeInit, TypeStep, AdmittedStep, PTL DEF Spec

-----------------------------------------------------------------------------
(* Retained outcomes                                                        *)

LEMMA DownStep == TypeOK /\ DownEmpty /\ [Next]_vars => DownEmpty'
<1> SUFFICES ASSUME TypeOK, DownEmpty, [Next]_vars PROVE DownEmpty'
  OBVIOUS
<1> USE DEF vars, context, ghost, life, DownEmpty
<1>1. ASSUME NEW a \in Actions, Answered(a) \/ ToolReports(a) PROVE DownEmpty'
  BY <1>1 DEF Answered, Requesting, ToolReports
<1>2. CASE GatewayStep
  BY <1>2 DEF GatewayStep, Ask, Unanswered, Review, ApprovalEnds
<1>3. ASSUME NEW s \in sends, Acked(s) \/ ReportFails(s) PROVE DownEmpty'
  BY <1>3 DEF Acked, ReportFails
<1>4. ASSUME NEW a \in Actions, SettleAgain(a) \/ SettleGivesUp(a) PROVE DownEmpty'
  BY <1>4 DEF SettleAgain, SettleGivesUp
<1>5. CASE TurnEnds \/ SessionEnds \/ Forget \/ Untrack \/ Stop \/ StopSettles
  BY <1>5 DEF TurnEnds, SessionEnds, Forget, Untrack, Stop, StopSettles
<1>6. CASE StopSaves \/ Crash
  BY <1>6 DEF StopSaves, Crash
<1>7. CASE Start \/ Deliver \/ Delivered \/ DeliverFails
  BY <1>7 DEF Start, Deliver, Delivered, DeliverFails
<1> QED
  BY <1>1, <1>2, <1>3, <1>4, <1>5, <1>6, <1>7 DEF Next, GatewayStep

\* A settlement changes no outcome that was observed.
LEMMA SettleObserved ==
  ASSUME TypeOK, ObservedOpen, LiveSends, NEW ids \in SUBSET Actions, SettleOpen(ids)
  PROVE  /\ \A a \in observed : open'[a] = open[a]
         /\ \A t \in sends' : /\ t.wait => t.live
                              /\ t.live /\ t.a \in observed => t.out = "completed"
         /\ \A t \in sends' \ sends : t.live /\ t.out = "unknown" => t.a \notin observed
<1>1. \A a \in observed : a \in Actions /\ open[a] \in {"none", "completed"}
  BY DEF ObservedOpen, TypeOK
<1>2. \A a \in observed : open'[a] = open[a]
  BY <1>1, SettleEffect
<1>3. ASSUME NEW t \in sends'
      PROVE  /\ t.wait => t.live
             /\ t.live /\ t.a \in observed => t.out = "completed"
             /\ t \notin sends /\ t.live /\ t.out = "unknown" => t.a \notin observed
  <2>1. CASE t \in sends
    BY <2>1 DEF LiveSends
  <2>2. ASSUME NEW s \in sends, s.live, t = [s EXCEPT !.wait = TRUE]
        PROVE  t.live /\ t.a = s.a /\ t.out = s.out
    BY <2>2 DEF TypeOK, Sends
  <2>3. CASE \E s \in sends : s.live /\ t = [s EXCEPT !.wait = TRUE]
    BY <2>2, <2>3 DEF LiveSends
  <2>4. ASSUME NEW a \in ids, open[a] # "none", t = Fresh(a, Due(a))
        PROVE  t.a = a /\ t.live /\ t.wait = FALSE
               /\ (a \in observed => t.out = "completed")
    BY <1>1, <2>4 DEF Fresh, Due
  <2>5. CASE \E a \in ids : open[a] # "none" /\ ~Live(a) /\ t = Fresh(a, Due(a))
    BY <2>4, <2>5
  <2> QED
    BY <2>1, <2>3, <2>5, SettleEffect
<1> QED
  BY <1>2, <1>3

UnknownSend(s) == s.live /\ s.out = "unknown"

\* One step: what was observed stays so, and no report of unknown starts for it.
LEMMA ObservedStep ==
  TypeOK /\ Retained /\ [Next]_vars =>
    /\ ObservedOpen' /\ LiveSends'
    /\ \A s \in sends' \ sends : UnknownSend(s) => s.a \notin observed'
<1> DEFINE Kept == /\ ObservedOpen' /\ LiveSends'
                   /\ \A s \in sends' \ sends : UnknownSend(s) => s.a \notin observed'
<1> SUFFICES ASSUME TypeOK, Retained, [Next]_vars PROVE Kept
  BY DEF Retained
<1> USE DEF vars, context, ghost, life, Retained
<1>0. ASSUME UNCHANGED <<call, open, sends, observed, known>> PROVE Kept
  BY <1>0 DEF ObservedOpen, LiveSends
<1>1. ASSUME NEW a \in Actions, Ask(a) \/ Unanswered(a) \/ ApprovalEnds(a) PROVE Kept
  <2>1. call[a] \notin {"done", "gone"}
    BY <1>1 DEF Ask, Unanswered, ApprovalEnds, Requesting
  <2>2. a \notin observed
    BY <2>1 DEF ObservedOpen
  <2>3. /\ UNCHANGED <<open, sends, observed, known>>
        /\ \A b \in Actions \ {a} : call'[b] = call[b]
    BY <1>1 DEF Ask, Unanswered, ApprovalEnds, TypeOK
  <2> QED
    BY <2>2, <2>3 DEF ObservedOpen, LiveSends, TypeOK
<1>2. ASSUME NEW a \in Actions, Answered(a) PROVE Kept
  <2>1. a \notin observed
    BY <1>2 DEF Answered, Requesting, ObservedOpen
  <2>2. /\ UNCHANGED <<sends, observed>> /\ known \subseteq known'
        /\ \A b \in Actions \ {a} : call'[b] = call[b] /\ open'[b] = open[b]
    BY <1>2 DEF Answered, TypeOK
  <2> QED
    BY <2>1, <2>2 DEF ObservedOpen, LiveSends, TypeOK
<1>3. ASSUME NEW a \in Actions, ToolReports(a) PROVE Kept
  <2>1. CASE a \notin known
    <3>1. /\ UNCHANGED <<open, sends, observed, known>> /\ a \notin observed
          /\ \A b \in Actions \ {a} : call'[b] = call[b]
      BY <1>3, <2>1 DEF ToolReports, ObservedOpen, TypeOK
    <3> QED
      BY <3>1 DEF ObservedOpen, LiveSends, TypeOK
  <2>2. CASE a \in known
    <3>1. /\ open' = [open EXCEPT ![a] = "completed"] /\ observed' = observed \cup {a}
          /\ sends' = Superseded(a) \cup {Fresh(a, "completed")}
          /\ known' = known /\ call' = [call EXCEPT ![a] = "done"]
      BY <1>3, <2>2 DEF ToolReports, Report
    <3>2. ObservedOpen'
      BY <2>2, <3>1 DEF ObservedOpen, TypeOK
    <3>3. ASSUME NEW t \in sends'
          PROVE  /\ t.wait => t.live
                 /\ t.live /\ t.a \in observed' => t.out = "completed"
                 /\ t \notin sends /\ UnknownSend(t) => t.a \notin observed'
      <4>1. CASE t = Fresh(a, "completed")
        BY <4>1 DEF Fresh, UnknownSend
      <4>2. CASE t \in Superseded(a)
        <5>1. PICK s \in sends :
                t = IF s.a = a THEN [s EXCEPT !.live = FALSE, !.wait = FALSE] ELSE s
          BY <4>2 DEF Superseded
        <5>2. CASE s.a = a
          BY <5>1, <5>2 DEF TypeOK, Sends, UnknownSend
        <5>3. CASE s.a # a
          BY <3>1, <5>1, <5>3 DEF LiveSends, UnknownSend
        <5> QED
          BY <5>2, <5>3
      <4> QED
        BY <3>1, <4>1, <4>2
    <3> QED
      BY <3>2, <3>3 DEF LiveSends
  <2> QED
    BY <2>1, <2>2
<1>4. ASSUME NEW s \in sends, Acked(s) PROVE Kept
  <2>1. s.a \in Actions /\ UNCHANGED <<call, known, observed>> /\ sends' \subseteq sends
    BY <1>4 DEF Acked, Finished, TypeOK, Sends
  <2>2. \A a \in Actions : open'[a] \in {open[a], "none"}
    BY <1>4, <2>1 DEF Acked, TypeOK
  <2> QED
    BY <2>1, <2>2 DEF ObservedOpen, LiveSends, TypeOK
<1>5. ASSUME NEW s \in sends, ReportFails(s) PROVE Kept
  <2>1. /\ UNCHANGED <<call, open, known, observed>>
        /\ \A t \in sends' : t \in sends \/ (s.wait /\ t = Fresh(s.a, s.out))
    BY <1>5 DEF ReportFails, Finished
  <2>2. s.wait => s.live /\ (s.a \in observed => s.out = "completed")
    BY DEF LiveSends
  <2>3. \A t \in sends' \ sends : /\ t.wait = FALSE /\ t.a = s.a /\ t.out = s.out
                                  /\ s.a \in observed => s.out = "completed"
    BY <2>1, <2>2 DEF Fresh
  <2> QED
    BY <2>1, <2>3 DEF ObservedOpen, LiveSends, UnknownSend
<1>6. ASSUME NEW ids \in SUBSET Actions, SettleOpen(ids), UNCHANGED <<call, known, observed>>
      PROVE  Kept
  BY <1>6, SettleObserved DEF ObservedOpen, LiveSends, UnknownSend, TypeOK
<1>7. CASE TurnEnds
  BY <1>6, <1>7 DEF TurnEnds
<1>8. ASSUME NEW a \in Actions, SettleAgain(a) PROVE Kept
  <2>1. {a} \in SUBSET Actions
    OBVIOUS
  <2> QED
    BY <1>6, <1>8, <2>1 DEF SettleAgain
<1>9. CASE SessionEnds \/ (StopSettles /\ session # "ended")
  <2>1. Opened \ settling \in SUBSET Actions
    BY DEF Opened
  <2> QED
    BY <1>6, <1>9, <2>1 DEF SessionEnds, StopSettles, SettleFinal
<1>10. CASE StopSettles /\ session = "ended"
  BY <1>0, <1>10 DEF StopSettles
<1>11. CASE StopSaves \/ Crash
  <2>1. /\ UNCHANGED <<known, observed>> /\ sends' = {}
        /\ \A a \in Actions : open'[a] = "none" /\ call'[a] \in {"gone", "idle"}
        /\ \A a \in Actions : call[a] # "idle" => call'[a] = "gone"
    BY <1>11 DEF StopSaves, Crash
  <2> QED
    BY <2>1 DEF ObservedOpen, LiveSends, TypeOK
<1>12. ASSUME NEW a \in Actions, Review(a) \/ SettleGivesUp(a) PROVE Kept
  BY <1>0, <1>12 DEF Review, SettleGivesUp
<1>13. CASE Forget \/ Untrack \/ Stop \/ Start \/ Deliver \/ Delivered \/ DeliverFails
  BY <1>0, <1>13 DEF Forget, Untrack, Stop, Start, Deliver, Delivered, DeliverFails
<1> QED
  BY <1>0, <1>1, <1>2, <1>3, <1>4, <1>5, <1>7, <1>8, <1>9, <1>10, <1>11, <1>12, <1>13
     DEF Next

LEMMA RetainedInit == Init => Retained
  BY DEF Init, Retained, DownEmpty, ObservedOpen, LiveSends

LEMMA RetainedStep == TypeOK /\ Retained /\ [Next]_vars => Retained'
  BY DownStep, ObservedStep DEF Retained

(* Once an outcome was observed the connector starts no report of "unknown" *)
(* for its action (session.ts, settleOpen and sendOutcome).                 *)
THEOREM NoUnknown == Spec => NoUnknownAfter
<1>1. TypeOK /\ Retained /\ [Next]_vars
        => [\A s \in sends' \ sends :
              s.live /\ s.out = "unknown" => s.a \notin observed']_vars
  BY ObservedStep DEF UnknownSend
<1> QED
  BY <1>1, TypeInit, TypeStep, RetainedInit, RetainedStep, PTL DEF Spec, NoUnknownAfter

-----------------------------------------------------------------------------
(* The end of the session and of the daemon                                 *)

\* A final settlement leaves nothing that was open without an outcome.
LEMMA FinalEffect ==
  ASSUME TypeOK, Retained, SettlingOpen, SettleFinal
  PROVE  /\ \A a \in Actions : open'[a] = IF open[a] = "admitted" THEN "unknown" ELSE open[a]
         /\ SettlingOpen'
         /\ \A a \in observed : open'[a] = open[a]
<1>1. Opened \ settling \in SUBSET Actions /\ SettleOpen(Opened \ settling) /\ settling' = Opened
  BY DEF SettleFinal, Opened
<1>2. \A a \in Actions :
        open'[a] = IF a \in Opened \ settling /\ open[a] = "admitted" THEN "unknown" ELSE open[a]
  BY <1>1, SettleEffect
<1>3. \A a \in Actions : open[a] = "admitted" => a \in Opened \ settling
  BY DEF Opened, SettlingOpen, Outcomes
<1>4. \A a \in Actions : open'[a] = IF open[a] = "admitted" THEN "unknown" ELSE open[a]
  BY <1>2, <1>3
<1>5. SettlingOpen'
  BY <1>1, <1>4 DEF SettlingOpen, Opened, TypeOK, Opens, Outcomes
<1>6. \A a \in observed : a \in Actions /\ open[a] # "admitted"
  BY DEF Retained, ObservedOpen, TypeOK
<1> QED
  BY <1>4, <1>5, <1>6

\* What a settlement of a turn, or of one action, does to the conjuncts of Closing.
LEMMA SettleClosing ==
  ASSUME TypeOK, Closing, NEW ids \in SUBSET Actions, SettleOpen(ids),
         UNCHANGED <<settling, life, ghost>>
  PROVE  Closing'
<1>1. \A a \in Actions :
        open'[a] = IF a \in ids /\ open[a] = "admitted" THEN "unknown" ELSE open[a]
  BY SettleEffect
<1>2. known' = known /\ late' = late /\ known \subseteq Actions /\ settling \subseteq Actions
      /\ settling' = settling /\ session' = session /\ tracked' = tracked
  BY DEF ghost, life, TypeOK
<1> QED
  BY <1>1, <1>2 DEF Closing, SettlingOpen, EndingOpen, Forgotten, Outcomes

LEMMA ClosingStep == TypeOK /\ Retained /\ Closing /\ [Next]_vars => Closing'
<1> SUFFICES ASSUME TypeOK, Retained, Closing, [Next]_vars PROVE Closing'
  OBVIOUS
<1> USE DEF vars, context, ghost, life
<1>0. ASSUME UNCHANGED <<open, settling, session, tracked, known, late>> PROVE Closing'
  BY <1>0 DEF Closing, SettlingOpen, EndingOpen, Forgotten
<1>1. ASSUME NEW a \in Actions, Ask(a) \/ Unanswered(a) \/ Review(a) \/ ApprovalEnds(a)
      PROVE  Closing'
  BY <1>0, <1>1 DEF Ask, Unanswered, Review, ApprovalEnds
<1>2. ASSUME NEW a \in Actions, Answered(a) PROVE Closing'
  <2>1. CASE UNCHANGED <<open, known, late>>
    BY <1>0, <1>2, <2>1 DEF Answered
  <2>2. CASE /\ open' = [open EXCEPT ![a] = IF @ = "none" THEN "admitted" ELSE @]
             /\ known' = known \cup {a} /\ Late(a)
    <3>1. /\ UNCHANGED <<settling, session, tracked>>
          /\ \A b \in Actions : b # a \/ open[b] # "none" => open'[b] = open[b]
          /\ \A b \in known' \ late' : session # "on" => b \in known \ late /\ b # a
      BY <1>2, <2>2 DEF Answered, Late, TypeOK
    <3>2. SettlingOpen'
      BY <3>1 DEF Closing, SettlingOpen, TypeOK, Outcomes
    <3> QED
      BY <3>1, <3>2 DEF Closing, EndingOpen, Forgotten, TypeOK
  <2> QED
    BY <1>2, <2>1, <2>2 DEF Answered
<1>3. ASSUME NEW a \in Actions, ToolReports(a) PROVE Closing'
  <2>1. CASE a \notin known
    BY <1>0, <1>3, <2>1 DEF ToolReports
  <2>2. CASE a \in known
    <3>1. /\ UNCHANGED <<settling, session, tracked, known>>
          /\ open' = [open EXCEPT ![a] = "completed"]
          /\ \A b \in known' \ late' : session # "on" => b \in known \ late /\ b # a
      BY <1>3, <2>2 DEF ToolReports, Report, Late, TypeOK
    <3> QED
      BY <3>1 DEF Closing, SettlingOpen, EndingOpen, Forgotten, TypeOK, Outcomes
  <2> QED
    BY <2>1, <2>2
<1>4. ASSUME NEW s \in sends, Acked(s) PROVE Closing'
  <2>1. CASE s.live
    <3>1. /\ open' = [open EXCEPT ![s.a] = "none"] /\ settling' = settling \ {s.a}
          /\ UNCHANGED <<session, tracked, known, late>>
      BY <1>4, <2>1 DEF Acked
    <3> QED
      BY <3>1 DEF Closing, SettlingOpen, EndingOpen, Forgotten, TypeOK
  <2>2. CASE ~s.live
    BY <1>0, <1>4, <2>2 DEF Acked
  <2> QED
    BY <2>1, <2>2
<1>5. ASSUME NEW s \in sends, ReportFails(s) PROVE Closing'
  BY <1>0, <1>5 DEF ReportFails
<1>6. CASE TurnEnds
  BY <1>6, SettleClosing DEF TurnEnds
<1>7. ASSUME NEW a \in Actions, SettleAgain(a) PROVE Closing'
  <2>1. {a} \in SUBSET Actions
    OBVIOUS
  <2> QED
    BY <1>7, <2>1, SettleClosing DEF SettleAgain
<1>8. ASSUME NEW a \in Actions, SettleGivesUp(a) PROVE Closing'
  BY <1>8 DEF SettleGivesUp, Closing, SettlingOpen, EndingOpen, Forgotten
<1>9. CASE SessionEnds
  <2>1. SettleFinal /\ session' = "ending" /\ tracked' = "settling"
        /\ known' = known /\ late' = late
    BY <1>9 DEF SessionEnds
  <2> QED
    BY <2>1, FinalEffect DEF Closing, EndingOpen, Forgotten, TypeOK
<1>10. CASE StopSettles
  <2>1. UNCHANGED <<session, tracked, known, late>>
    BY <1>10 DEF StopSettles
  <2>2. CASE session = "ended"
    BY <1>0, <1>10, <2>1, <2>2 DEF StopSettles
  <2>3. CASE session # "ended"
    <3>1. SettleFinal
      BY <1>10, <2>3 DEF StopSettles
    <3> QED
      BY <2>1, <3>1, FinalEffect DEF Closing, EndingOpen, Forgotten, TypeOK
  <2> QED
    BY <2>2, <2>3
<1>11. CASE Forget
  BY <1>11 DEF Forget, Closing, SettlingOpen, EndingOpen, Forgotten
<1>12. CASE Untrack
  BY <1>12 DEF Untrack, Unacknowledged, Closing, SettlingOpen, EndingOpen, Forgotten,
               TypeOK, Opens
<1>13. CASE StopSaves \/ Crash
  <2>1. settling' = {} /\ \A a \in Actions : open'[a] = "none"
    BY <1>13 DEF StopSaves, Crash
  <2>2. known' \subseteq Actions
    BY <1>13 DEF StopSaves, Crash, TypeOK
  <2> QED
    BY <2>1, <2>2 DEF Closing, SettlingOpen, EndingOpen, Forgotten
<1>14. CASE Start
  BY <1>14 DEF Start, Closing, SettlingOpen, EndingOpen, Forgotten
<1>15. CASE Stop \/ Deliver \/ Delivered \/ DeliverFails
  BY <1>0, <1>15 DEF Stop, Deliver, Delivered, DeliverFails
<1> QED
  BY <1>0, <1>1, <1>2, <1>3, <1>4, <1>5, <1>6, <1>7, <1>8, <1>9, <1>10, <1>11, <1>12,
     <1>13, <1>14, <1>15 DEF Next

LEMMA ClosingInit == Init => Closing
  BY DEF Init, Closing, SettlingOpen, EndingOpen, Forgotten

-----------------------------------------------------------------------------
(* Nothing the daemon admitted is left without an outcome                   *)

\* What the stop of the daemon writes: every open action, and what was saved before
\* for the others.
LEMMA LeftSaved ==
  ASSUME TypeOK, StopSaves
  PROVE  /\ \A a \in Actions : IsSaved(a) => IsSaved(a)'
         /\ \A a \in Actions : open[a] # "none" /\ Reachable => [a |-> a, out |-> Due(a)] \in saved'
         /\ \A o \in saved : \/ o \in saved'
                             \/ Due(o.a) # "none" /\ [a |-> o.a, out |-> Due(o.a)] \in saved'
<1>1. saved' = Left \cup {o \in saved : \A l \in Left : l.a # o.a}
  BY DEF StopSaves
<1>2. \A a \in Actions : open[a] # "none" /\ Reachable => [a |-> a, out |-> Due(a)] \in Left
  BY DEF Left, Opened
<1>3. \A l \in Left : l.a \in Actions /\ Due(l.a) # "none" /\ l = [a |-> l.a, out |-> Due(l.a)]
  BY DEF Left, Opened, Due
<1>4. \A o \in saved : \/ o \in saved'
                       \/ Due(o.a) # "none" /\ [a |-> o.a, out |-> Due(o.a)] \in saved'
  BY <1>1, <1>3
<1>5. \A a \in Actions : IsSaved(a) => \E o \in saved' : o.a = a
  BY <1>4 DEF IsSaved
<1> QED
  BY <1>1, <1>2, <1>4, <1>5 DEF IsSaved

LEMMA LeftStep ==
  TypeOK /\ Retained /\ Closing /\ NoneLeftOpen /\ [Next]_vars => NoneLeftOpen'
<1> SUFFICES ASSUME TypeOK, Retained, Closing, NoneLeftOpen, [Next]_vars PROVE NoneLeftOpen'
  OBVIOUS
<1> USE DEF vars, context, ghost, life
<1> DEFINE Held(a) == Ended(a) \/ IsSaved(a) \/ (open[a] # "none" /\ Reachable)
<1>0. ASSUME UNCHANGED <<crashes, known, late, settled, saved, session, tracked>>,
             \A a \in known : open[a] # "none" => open'[a] # "none"
      PROVE  NoneLeftOpen'
  BY <1>0 DEF NoneLeftOpen, Ended, IsSaved, Reachable
<1>1. ASSUME NEW a \in Actions, Ask(a) \/ Unanswered(a) \/ Review(a) \/ ApprovalEnds(a)
                                 \/ SettleGivesUp(a)
      PROVE  NoneLeftOpen'
  BY <1>0, <1>1 DEF Ask, Unanswered, Review, ApprovalEnds, SettleGivesUp
<1>2. ASSUME NEW a \in Actions, Answered(a) PROVE NoneLeftOpen'
  <2>1. CASE UNCHANGED <<open, known, late>>
    BY <1>0, <1>2, <2>1 DEF Answered
  <2>2. CASE /\ open' = [open EXCEPT ![a] = IF @ = "none" THEN "admitted" ELSE @]
             /\ known' = known \cup {a} /\ Late(a)
    <3>1. /\ UNCHANGED <<crashes, settled, saved, session, tracked>> /\ open'[a] # "none"
          /\ \A b \in known : open[b] # "none" => open'[b] # "none"
          /\ a \in known' \ late' => session # "ended"
          /\ \A b \in known' \ late' : b = a \/ b \in known \ late
      BY <1>2, <2>2 DEF Answered, Late, TypeOK
    <3> QED
      BY <3>1 DEF NoneLeftOpen, Ended, IsSaved, Reachable
  <2> QED
    BY <1>2, <2>1, <2>2 DEF Answered
<1>3. ASSUME NEW a \in Actions, ToolReports(a) PROVE NoneLeftOpen'
  <2>1. CASE a \notin known
    BY <1>0, <1>3, <2>1 DEF ToolReports
  <2>2. CASE a \in known
    <3>1. /\ UNCHANGED <<crashes, settled, saved, session, tracked, known>>
          /\ open' = [open EXCEPT ![a] = "completed"] /\ late \subseteq late'
      BY <1>3, <2>2 DEF ToolReports, Report, Late
    <3> QED
      BY <3>1 DEF NoneLeftOpen, Ended, IsSaved, Reachable, TypeOK
  <2> QED
    BY <2>1, <2>2
<1>4. ASSUME NEW s \in sends, Acked(s) PROVE NoneLeftOpen'
  <2>1. /\ UNCHANGED <<crashes, known, late, saved, session, tracked>>
        /\ settled' = settled \cup {<<s.a, s.out>>} /\ s.out \in Outcomes
        /\ \A b \in Actions : b # s.a => open'[b] = open[b]
    BY <1>4 DEF Acked, TypeOK, Sends
  <2>2. Ended(s.a)' /\ \A b \in Actions : Ended(b) => Ended(b)'
    BY <2>1 DEF Ended
  <2>3. ASSUME NEW b \in known' \ late', crashes' = 0, b # s.a PROVE Held(b)'
    BY <2>1, <2>2, <2>3 DEF NoneLeftOpen, IsSaved, Reachable, TypeOK
  <2> QED
    BY <2>2, <2>3 DEF NoneLeftOpen
<1>5. ASSUME NEW s \in sends, ReportFails(s) PROVE NoneLeftOpen'
  BY <1>0, <1>5 DEF ReportFails
<1>6. ASSUME NEW ids \in SUBSET Actions, SettleOpen(ids) PROVE \A a \in known : open[a] # "none" => open'[a] # "none"
  BY <1>6, SettleEffect DEF TypeOK
<1>7. CASE TurnEnds
  BY <1>0, <1>6, <1>7 DEF TurnEnds
<1>8. ASSUME NEW a \in Actions, SettleAgain(a) PROVE NoneLeftOpen'
  <2>1. {a} \in SUBSET Actions
    OBVIOUS
  <2> QED
    BY <1>0, <1>6, <1>8, <2>1 DEF SettleAgain
<1>9. SettleFinal => \A a \in known : open[a] # "none" => open'[a] # "none"
  BY FinalEffect DEF Closing, TypeOK
<1>10. CASE SessionEnds
  BY <1>9, <1>10 DEF SessionEnds, NoneLeftOpen, Ended, IsSaved, Reachable
<1>11. CASE StopSettles
  BY <1>0, <1>9, <1>11 DEF StopSettles
<1>12. CASE Forget \/ Untrack
  <2>1. UNCHANGED <<crashes, known, late, settled, saved, open>>
    BY <1>12 DEF Forget, Untrack
  <2>2. ASSUME NEW a \in known \ late, open[a] # "none", Reachable PROVE Reachable'
    BY <1>12, <2>2 DEF Forget, Untrack, Unacknowledged, Reachable, Closing, EndingOpen,
                       Forgotten, TypeOK, Opens
  <2> QED
    BY <2>1, <2>2 DEF NoneLeftOpen, Ended, IsSaved
<1>13. CASE StopSaves
  <2>1. UNCHANGED <<crashes, known, late, settled>>
    BY <1>13 DEF StopSaves
  <2>2. ASSUME NEW a \in Actions, open[a] # "none", Reachable PROVE IsSaved(a)'
    BY <1>13, <2>2, LeftSaved DEF IsSaved
  <2>3. ASSUME NEW a \in Actions, IsSaved(a) PROVE IsSaved(a)'
    BY <1>13, <2>3, LeftSaved
  <2> QED
    BY <2>1, <2>2, <2>3 DEF NoneLeftOpen, Ended, TypeOK
<1>14. CASE Crash
  <2>1. crashes \in Nat /\ crashes' = crashes + 1
    BY <1>14 DEF Crash, TypeOK
  <2>2. crashes' # 0
    BY <2>1
  <2> QED
    BY <2>2 DEF NoneLeftOpen
<1>15. CASE Start
  BY <1>15 DEF Start, NoneLeftOpen, Ended, IsSaved, Reachable
<1>16. CASE Delivered
  <2>1. PICK o \in sending :
          saved' = saved \ {o} /\ settled' = settled \cup {<<o.a, o.out>>}
    BY <1>16 DEF Delivered
  <2>2. o.out \in Outcomes /\ UNCHANGED <<crashes, known, late, open, session, tracked>>
    BY <1>16 DEF Delivered, TypeOK, Pending
  <2>3. \A a \in Actions : (Ended(a) => Ended(a)') /\ (IsSaved(a) => IsSaved(a)' \/ Ended(a)')
    BY <2>1, <2>2 DEF Ended, IsSaved
  <2> QED
    BY <2>2, <2>3 DEF NoneLeftOpen, Reachable, TypeOK
<1>17. CASE Stop \/ Deliver \/ DeliverFails
  BY <1>0, <1>17 DEF Stop, Deliver, DeliverFails
<1> QED
  BY <1>0, <1>1, <1>2, <1>3, <1>4, <1>5, <1>7, <1>8, <1>10, <1>11, <1>12, <1>13, <1>14,
     <1>15, <1>16, <1>17 DEF Next

(* Without a crash, every action admitted before its session was ending has an  *)
(* acknowledged or saved outcome, or is retained in a context that the stop of  *)
(* the daemon will reach (session.ts, close; daemon.ts, settling contexts).     *)
THEOREM LeftCorrect == Spec => []NoneLeftOpen
<1>1. Init => NoneLeftOpen
  BY DEF Init, NoneLeftOpen
<1> QED
  BY <1>1, TypeInit, TypeStep, RetainedInit, RetainedStep, ClosingInit, ClosingStep, LeftStep,
     PTL DEF Spec

-----------------------------------------------------------------------------
(* What a tool reported reaches the gateway or the outcomes file            *)

LEMMA KeptStep ==
  TypeOK /\ Retained /\ Closing /\ ObservedKept /\ [Next]_vars => ObservedKept'
<1> SUFFICES ASSUME TypeOK, Retained, Closing, ObservedKept, [Next]_vars PROVE ObservedKept'
  OBVIOUS
<1> USE DEF vars, context, ghost, life
<1> DEFINE Written(a) == [a |-> a, out |-> "completed"]
<1>a. observed \subseteq Actions /\ \A a \in observed : open[a] \in {"none", "completed"}
  BY DEF Retained, ObservedOpen, TypeOK
<1>0. ASSUME UNCHANGED <<crashes, late, settled, saved, session, tracked, observed>>,
             \A a \in observed : open'[a] = open[a]
      PROVE  ObservedKept'
  BY <1>0 DEF ObservedKept, Reachable
<1>1. ASSUME NEW a \in Actions, Ask(a) \/ Unanswered(a) \/ Review(a) \/ ApprovalEnds(a)
                                 \/ SettleGivesUp(a)
      PROVE  ObservedKept'
  BY <1>0, <1>1 DEF Ask, Unanswered, Review, ApprovalEnds, SettleGivesUp
<1>2. ASSUME NEW a \in Actions, Answered(a) PROVE ObservedKept'
  <2>1. /\ UNCHANGED <<crashes, settled, saved, session, tracked, observed>>
        /\ late \subseteq late' /\ \A b \in Actions \ {a} : open'[b] = open[b]
    BY <1>2 DEF Answered, Late, TypeOK
  <2>2. a \notin observed
    BY <1>2 DEF Answered, Requesting, Retained, ObservedOpen
  <2> QED
    BY <1>a, <2>1, <2>2 DEF ObservedKept, Reachable
<1>3. ASSUME NEW a \in Actions, ToolReports(a) PROVE ObservedKept'
  <2>1. CASE a \notin known
    BY <1>0, <1>3, <2>1 DEF ToolReports
  <2>2. CASE a \in known
    <3>1. /\ UNCHANGED <<crashes, settled, saved, session, tracked>> /\ session # "ended"
          /\ open' = [open EXCEPT ![a] = "completed"] /\ late \subseteq late'
          /\ observed' = observed \cup {a}
      BY <1>3, <2>2 DEF ToolReports, Report, Late
    <3> QED
      BY <1>a, <3>1 DEF ObservedKept, Reachable, TypeOK
  <2> QED
    BY <2>1, <2>2
<1>4. ASSUME NEW s \in sends, Acked(s) PROVE ObservedKept'
  <2>1. /\ UNCHANGED <<crashes, late, saved, session, tracked, observed>>
        /\ settled' = settled \cup {<<s.a, s.out>>}
    BY <1>4 DEF Acked
  <2>2. CASE s.live
    <3>1. open' = [open EXCEPT ![s.a] = "none"] /\ (s.a \in observed => s.out = "completed")
      BY <1>4, <2>2 DEF Acked, Retained, LiveSends
    <3> QED
      BY <1>a, <2>1, <3>1 DEF ObservedKept, Reachable, TypeOK
  <2>3. CASE ~s.live
    BY <1>4, <2>1, <2>3 DEF Acked, ObservedKept, Reachable
  <2> QED
    BY <2>2, <2>3
<1>5. ASSUME NEW s \in sends, ReportFails(s) PROVE ObservedKept'
  BY <1>0, <1>5 DEF ReportFails
<1>6. ASSUME NEW ids \in SUBSET Actions, SettleOpen(ids) PROVE \A a \in observed : open'[a] = open[a]
  BY <1>6, SettleObserved DEF Retained
<1>7. CASE TurnEnds
  BY <1>0, <1>6, <1>7 DEF TurnEnds
<1>8. ASSUME NEW a \in Actions, SettleAgain(a) PROVE ObservedKept'
  <2>1. {a} \in SUBSET Actions
    OBVIOUS
  <2> QED
    BY <1>0, <1>6, <1>8, <2>1 DEF SettleAgain
<1>9. SettleFinal => \A a \in observed : open'[a] = open[a]
  BY FinalEffect DEF Closing
<1>10. CASE SessionEnds
  BY <1>9, <1>10 DEF SessionEnds, ObservedKept, Reachable
<1>11. CASE StopSettles
  BY <1>0, <1>9, <1>11 DEF StopSettles
<1>12. CASE Forget \/ Untrack
  <2>1. UNCHANGED <<crashes, late, settled, saved, open, observed>>
    BY <1>12 DEF Forget, Untrack
  <2>2. ASSUME NEW a \in observed \ late, open[a] = "completed", Reachable PROVE Reachable'
    <3>1. a \in known \ late /\ a \in Actions
      BY <2>2 DEF Retained, ObservedOpen, TypeOK
    <3> QED
      BY <1>12, <2>2, <3>1 DEF Forget, Untrack, Unacknowledged, Reachable, Closing, Forgotten,
                               Outcomes
  <2> QED
    BY <2>1, <2>2 DEF ObservedKept
<1>13. CASE StopSaves
  <2>1. UNCHANGED <<crashes, late, settled, observed>>
    BY <1>13 DEF StopSaves
  <2>2. \A a \in observed : Due(a) \in {"none", "completed"}
    BY <1>a DEF Due
  <2>3. ASSUME NEW a \in observed, open[a] = "completed", Reachable PROVE Written(a) \in saved'
    <3>1. a \in Actions /\ Due(a) = "completed"
      BY <1>a, <2>3 DEF Due
    <3> QED
      BY <1>13, <2>3, <3>1, LeftSaved
  <2>4. ASSUME NEW a \in observed, Written(a) \in saved PROVE Written(a) \in saved'
    <3>1. \/ Written(a) \in saved'
          \/ Due(a) # "none" /\ [a |-> a, out |-> Due(a)] \in saved'
      BY <1>13, <2>4, LeftSaved
    <3> QED
      BY <2>2, <3>1
  <2> QED
    BY <2>1, <2>3, <2>4 DEF ObservedKept
<1>14. CASE Crash
  <2>1. crashes \in Nat /\ crashes' = crashes + 1
    BY <1>14 DEF Crash, TypeOK
  <2>2. crashes' # 0
    BY <2>1
  <2> QED
    BY <2>2 DEF ObservedKept
<1>15. CASE Start
  BY <1>15 DEF Start, ObservedKept, Reachable
<1>16. CASE Delivered
  <2>1. PICK o \in sending :
          saved' = saved \ {o} /\ settled' = settled \cup {<<o.a, o.out>>}
    BY <1>16 DEF Delivered
  <2>2. UNCHANGED <<crashes, late, open, session, tracked, observed>>
    BY <1>16 DEF Delivered
  <2>3. ASSUME NEW a \in observed, Written(a) \in saved
        PROVE  Written(a) \in saved' \/ <<a, "completed">> \in settled'
    BY <2>1, <2>3
  <2> QED
    BY <2>1, <2>2, <2>3 DEF ObservedKept, Reachable
<1>17. CASE Stop \/ Deliver \/ DeliverFails
  BY <1>0, <1>17 DEF Stop, Deliver, DeliverFails
<1> QED
  BY <1>0, <1>1, <1>2, <1>3, <1>4, <1>5, <1>7, <1>8, <1>10, <1>11, <1>12, <1>13, <1>14,
     <1>15, <1>16, <1>17 DEF Next

(* Without a crash, the outcome of a tool that reported before its session was  *)
(* ending is acknowledged, retained where the stop will find it, or in the      *)
(* outcomes file (session.ts, report and settleFinal; daemon.ts, stop).         *)
THEOREM ObservedCorrect == Spec => []ObservedKept
<1>1. Init => ObservedKept
  BY DEF Init, ObservedKept
<1> QED
  BY <1>1, TypeInit, TypeStep, RetainedInit, RetainedStep, ClosingInit, ClosingStep, KeptStep,
     PTL DEF Spec

(* An outcome leaves the file only settled, or for a newer outcome of its      *)
(* action: crashes and stops during its delivery keep it (daemon.ts,           *)
(* deliverSaved and stop).                                                     *)
THEOREM SavedCorrect == Spec => SavedKept
<1> DEFINE Replaced == \A o \in saved \ saved' :
                         <<o.a, o.out>> \in settled' \/ \E l \in saved' : l.a = o.a
<1>1. TypeOK /\ [Next]_vars => [Replaced]_vars
  <2> SUFFICES ASSUME TypeOK, [Next]_vars PROVE Replaced
    OBVIOUS
  <2>0. ASSUME saved' = saved PROVE Replaced
    BY <2>0
  <2>1. CASE StopSaves
    BY <2>1, LeftSaved DEF IsSaved
  <2>2. CASE Delivered
    BY <2>2 DEF Delivered
  <2>3. ASSUME NEW a \in Actions, Ask(a) \/ Unanswered(a) \/ Answered(a) \/ Review(a)
               \/ ApprovalEnds(a) \/ ToolReports(a) \/ SettleAgain(a) \/ SettleGivesUp(a)
        PROVE  saved' = saved
    BY <2>3 DEF Ask, Unanswered, Answered, Review, ApprovalEnds, ToolReports, SettleAgain,
                SettleGivesUp
  <2>4. ASSUME NEW s \in sends, Acked(s) \/ ReportFails(s) PROVE saved' = saved
    BY <2>4 DEF Acked, ReportFails
  <2>5. CASE TurnEnds \/ SessionEnds \/ Forget \/ Untrack \/ Stop \/ StopSettles \/ Crash
             \/ Start \/ Deliver \/ DeliverFails \/ UNCHANGED vars
    BY <2>0, <2>5 DEF TurnEnds, SessionEnds, Forget, Untrack, Stop, StopSettles, Crash, Start,
                      Deliver, DeliverFails, vars
  <2> QED
    BY <2>0, <2>1, <2>2, <2>3, <2>4, <2>5 DEF Next
<1> QED
  BY <1>1, TypeInit, TypeStep, PTL DEF Spec, SavedKept
=============================================================================
