---------------------------- MODULE OrgApprovals ----------------------------
(***************************************************************************)
(* One decision that an organisation rule routes to an approver (ADR 0014  *)
(* section 4): RouteApprovals of internal/capability/boundaries, run by    *)
(* the daemon, the hook processes' Guard on the same decision, and the     *)
(* team plane.  They share pending/<id>.json and answers/<id>.json, with   *)
(* no lock: every read or write of a file is a step, and RouteApprovals    *)
(* holds the pending decision it read across a call over the network.      *)
(***************************************************************************)
EXTENDS Integers, Sequences, FiniteSets

CONSTANTS
  OrgSetups,    \* the schedules and faults explored, see OrgSetup
  OrgTTL,       \* approvalsTTL
  MaxRequests,  \* bound on the requests the team plane holds
  OrgMaxFaults, \* bound on lost calls and crashes
  OrgMaxTime    \* bound on the clock

OrgSetup == [
  calls   : Nat,       \* tool calls of the session, each its own hook process
  overlap : BOOLEAN,   \* may a hook be evaluating while the daemon writes?
  lossy   : BOOLEAN,   \* may a request or its reply be lost?
  crash   : BOOLEAN]   \* may the daemon be killed, or a ledger append fail?

ASSUME OrgAssumption ==
  /\ \A s \in OrgSetups : s \in OrgSetup
  /\ {OrgTTL, MaxRequests, OrgMaxFaults, OrgMaxTime} \subseteq Nat

VARIABLES
  orgSetup,    \* the schedule and the faults, chosen once
  orgPending,  \* pending/<id>.json, or NotPending
  orgAnswer,   \* answers/<id>.json, or Unanswered
  orgCall,     \* per call: where its Guard is, the answer and pending it read
  router,      \* RouteApprovals: its place, the pending and the reply it holds
  requests,    \* the team plane's requests for this decision, oldest first
  orgNow,      \* the clock
  orgFaults,   \* lost calls and crashes so far
  applied      \* history: the requests whose answer was written

orgFiles  == <<orgPending, orgAnswer>>
orgWorld  == <<orgNow, orgFaults>>
orgMoving == <<orgPending, orgAnswer, orgCall, router, requests, orgNow, orgFaults,
               applied>>
orgVars   == <<orgSetup, orgMoving>>

NotPending == [there |-> FALSE, routed |-> FALSE, at |-> 0]
Unanswered == [approved |-> FALSE, scope |-> "none"]
NoReply    == [status |-> "none", scope |-> "none", n |-> 0]
Waiting    == [at |-> "idle", p |-> NotPending, a |-> NoReply]

OrgInit ==
  /\ orgSetup \in OrgSetups
  /\ orgPending = NotPending /\ orgAnswer = Unanswered
  /\ orgCall = [c \in 1 .. orgSetup.calls |-> [at |-> "idle", a |-> Unanswered, p |-> NotPending,
                                    verdict |-> "none"]]
  /\ router = Waiting /\ requests = << >> /\ orgNow = 0 /\ orgFaults = 0
  /\ applied = {}

-----------------------------------------------------------------------------
(***************************************************************************)
(* Guard on a routed rule, in call c's hook process.                       *)
(***************************************************************************)

Evaluating == {c \in DOMAIN orgCall : orgCall[c].at \notin {"idle", "returned"}}

\* The daemon's writes, between which its files are half updated.
Writing == router.at \in {"stamp", "put", "note", "clear"}

OrgReturn(c, v) ==
  orgCall' = [orgCall EXCEPT ![c].at = "returned", ![c].verdict = v, ![c].p = NotPending]

\* answered: the answer is read; a session-long one settles the call.
OrgGetAnswer(c) ==
  /\ orgCall[c].at = "idle" /\ (orgSetup.overlap \/ ~Writing)
  /\ c > 1 => orgCall[c - 1].at # "idle"
  /\ orgCall' = [orgCall EXCEPT ![c].a = orgAnswer,
       ![c].at = IF orgAnswer = Unanswered THEN "raise"
                 ELSE IF orgAnswer.scope = "once" THEN "spend" ELSE "returned",
       ![c].verdict = IF orgAnswer.scope # "session" THEN @
                      ELSE IF orgAnswer.approved THEN "pass" ELSE "held"]
  /\ UNCHANGED <<orgFiles, router, requests, orgWorld, applied>>

\* ConsumeAnswer: the rename succeeds once; a loser raises the decision.
OrgSpend(c) ==
  /\ orgCall[c].at = "spend"
  /\ orgAnswer' = Unanswered
  /\ IF orgAnswer = Unanswered THEN orgCall' = [orgCall EXCEPT ![c].at = "raise"]
     ELSE IF orgCall[c].a.approved THEN orgCall' = [orgCall EXCEPT ![c].at = "retire"]
     ELSE OrgReturn(c, "held")
  /\ UNCHANGED <<orgPending, router, requests, orgWorld, applied>>

\* retireChallenge reads the pending decision, and ...
OrgRetire(c) ==
  /\ orgCall[c].at = "retire"
  /\ IF orgPending.there
     THEN orgCall' = [orgCall EXCEPT ![c].at = "renew", ![c].p = orgPending]
     ELSE OrgReturn(c, "pass")
  /\ UNCHANGED <<orgFiles, router, requests, orgWorld, applied>>

\* ... writes it back with a fresh challenge.
OrgRenew(c) ==
  /\ orgCall[c].at = "renew"
  /\ orgPending' = orgCall[c].p
  /\ OrgReturn(c, "pass")
  /\ UNCHANGED <<orgAnswer, router, requests, orgWorld, applied>>

\* bind reads the pending decision it replaces, and ...
OrgRaise(c) ==
  /\ orgCall[c].at = "raise"
  /\ orgCall' = [orgCall EXCEPT ![c].at = "write", ![c].p = orgPending]
  /\ UNCHANGED <<orgFiles, router, requests, orgWorld, applied>>

\* ... writes it, keeping when it was first raised and whether it was sent.
OrgPutPending(c) ==
  LET prev == orgCall[c].p
  IN  /\ orgCall[c].at = "write"
      /\ orgPending' = [there |-> TRUE, routed |-> prev.routed,
                        at |-> IF prev.there THEN prev.at ELSE orgNow]
      /\ OrgReturn(c, "held")
      /\ UNCHANGED <<orgAnswer, router, requests, orgWorld, applied>>

-----------------------------------------------------------------------------
(***************************************************************************)
(* RouteApprovals, every teamApprovalsEvery.                               *)
(***************************************************************************)

Young(p) == orgNow - p.at <= OrgTTL

\* ListPending.
RouteList ==
  /\ router.at = "idle" /\ orgPending.there /\ Young(orgPending)
  /\ router' = [Waiting EXCEPT !.at = "listed", !.p = orgPending]
  /\ UNCHANGED <<orgFiles, orgCall, requests, orgWorld, applied>>

\* An answer that still waits to be used is not asked for again.
RouteCheck ==
  /\ router.at = "listed"
  /\ router' = IF orgAnswer # Unanswered THEN Waiting ELSE [router EXCEPT !.at = "ask"]
  /\ UNCHANGED <<orgFiles, orgCall, requests, orgWorld, applied>>

Latest == IF requests = << >> THEN NoReply ELSE requests[Len(requests)]

\* The team plane returns an existing request while it is pending or was
\* answered for the session (RequestApproval); any other is a new request.
Reusable == Latest.status = "pending" \/ Latest.scope = "session"

Fresh == [status |-> "pending", scope |-> "none", n |-> Len(requests) + 1]

\* RequestApproval, the first time, or ApprovalFor; the team plane handles it.
Ask ==
  /\ router.at = "ask"
  /\ IF router.p.routed \/ Reusable
     THEN /\ requests' = requests
          /\ router' = [router EXCEPT !.at = "waiting", !.a = Latest]
     ELSE /\ Len(requests) < MaxRequests
          /\ requests' = Append(requests, Fresh)
          /\ router' = [router EXCEPT !.at = "waiting", !.a = Fresh]
  /\ UNCHANGED <<orgFiles, orgCall, orgWorld, applied>>

\* The request or its reply is lost: the error is joined, and the next round
\* tries again.
Lost ==
  /\ orgSetup.lossy /\ router.at \in {"ask", "waiting"} /\ orgFaults < OrgMaxFaults
  /\ router' = Waiting /\ orgFaults' = orgFaults + 1
  /\ UNCHANGED <<orgFiles, orgCall, requests, orgNow, applied>>

\* settle goes on with an answer, and is done with anything else.
Settling(a) == IF a.status \in {"approved", "denied"} THEN "put" ELSE "idle"

\* The reply is here: route stamps the decision first.
Reply ==
  /\ router.at = "waiting" /\ (orgSetup.overlap \/ Evaluating = {})
  /\ router' = IF ~router.p.routed THEN [router EXCEPT !.at = "stamp"]
               ELSE IF Settling(router.a) = "idle" THEN Waiting
               ELSE [router EXCEPT !.at = "put"]
  /\ UNCHANGED <<orgFiles, orgCall, requests, orgWorld, applied>>

\* route writes its copy of the pending decision back, with RoutedAt.
Stamp ==
  /\ router.at = "stamp"
  /\ orgPending' = [router.p EXCEPT !.routed = TRUE]
  /\ router' = IF Settling(router.a) = "idle" THEN Waiting
               ELSE [router EXCEPT !.at = "put"]
  /\ UNCHANGED <<orgAnswer, orgCall, requests, orgWorld, applied>>

\* Seeded fault: the pending decision is cleared before its answer is written.
SettlePut_ClearsFirst ==
  /\ router.at = "put"
  /\ IF orgPending.there
     THEN orgPending' = NotPending /\ UNCHANGED <<orgAnswer, applied, router>>
     ELSE /\ orgAnswer' = [approved |-> router.a.status = "approved", scope |-> router.a.scope]
          /\ applied' = applied \cup {router.a.n}
          /\ router' = [router EXCEPT !.at = "note"]
          /\ UNCHANGED orgPending
  /\ UNCHANGED <<orgCall, requests, orgWorld>>

\* settle: the answer is written where the pause point reads it, ...
SettlePut ==
  /\ router.at = "put"
  /\ orgAnswer' = [approved |-> router.a.status = "approved", scope |-> router.a.scope]
  /\ applied' = applied \cup {router.a.n}
  /\ router' = [router EXCEPT !.at = "note"]
  /\ UNCHANGED <<orgPending, orgCall, requests, orgWorld>>

\* ... recorded in the ledger, ...
SettleNote ==
  /\ router.at = "note"
  /\ router' = [router EXCEPT !.at = "clear"]
  /\ UNCHANGED <<orgFiles, orgCall, requests, orgWorld, applied>>

\* Seeded fault: the decision goes on waiting after its answer is written.
SettleClear_Keeps ==
  /\ router.at = "clear"
  /\ orgPending' = orgPending
  /\ router' = Waiting
  /\ UNCHANGED <<orgAnswer, orgCall, requests, orgWorld, applied>>

\* ... and the pending decision is cleared.
SettleClear ==
  /\ router.at = "clear"
  /\ orgPending' = NotPending
  /\ router' = Waiting
  /\ UNCHANGED <<orgAnswer, orgCall, requests, orgWorld, applied>>

\* The daemon is killed, or a write fails; the next round starts over.
RouterFails ==
  /\ orgSetup.crash /\ router.at # "idle" /\ orgFaults < OrgMaxFaults
  /\ router' = Waiting /\ orgFaults' = orgFaults + 1
  /\ UNCHANGED <<orgFiles, orgCall, requests, orgNow, applied>>

-----------------------------------------------------------------------------
(***************************************************************************)
(* The approver and the clock.                                             *)
(***************************************************************************)

\* The role the rule names answers in the team plane.
Approver ==
  /\ Latest.status = "pending"
  /\ \E s \in {"approved", "denied"}, o \in {"once", "session"} :
       requests' = [requests EXCEPT ![Len(requests)].status = s,
                                    ![Len(requests)].scope = o]
  /\ UNCHANGED <<orgFiles, orgCall, router, orgWorld, applied>>

\* A request nobody answered within a day expires.
Expire ==
  /\ Latest.status = "pending" /\ orgNow > OrgTTL
  /\ requests' = [requests EXCEPT ![Len(requests)].status = "expired"]
  /\ UNCHANGED <<orgFiles, orgCall, router, orgWorld, applied>>

OrgTick ==
  /\ orgNow < OrgMaxTime
  /\ orgNow' = orgNow + 1
  /\ UNCHANGED <<orgFiles, orgCall, router, requests, orgFaults, applied>>

-----------------------------------------------------------------------------

OrgGuard(c) ==
  \/ OrgGetAnswer(c) \/ OrgSpend(c) \/ OrgRetire(c) \/ OrgRenew(c)
  \/ OrgRaise(c) \/ OrgPutPending(c)

RouteApprovals ==
  \/ RouteList \/ RouteCheck \/ Ask \/ Reply
  \/ Stamp \/ SettlePut \/ SettleNote \/ SettleClear

OrgNext ==
  /\ \/ \E c \in DOMAIN orgCall : OrgGuard(c)
     \/ RouteApprovals \/ Lost \/ RouterFails
     \/ Approver \/ Expire \/ OrgTick
  /\ UNCHANGED orgSetup

(***************************************************************************)
(* An evaluation that has begun ends, and the daemon's rounds go on.       *)
(***************************************************************************)
OrgEvaluation == \E c \in Evaluating : OrgGuard(c)

OrgFairness == WF_orgMoving(OrgEvaluation) /\ WF_orgMoving(RouteApprovals)

OrgSpec == OrgInit /\ [][OrgNext]_orgVars /\ OrgFairness

-----------------------------------------------------------------------------
(***************************************************************************)
(* Properties.                                                             *)
(***************************************************************************)

OneSteps == {c \in DOMAIN orgCall : orgCall[c].verdict = "pass" /\ orgCall[c].a.scope = "once"}

Given(scope) == {i \in DOMAIN requests : /\ requests[i].status = "approved"
                                         /\ requests[i].scope = scope}

\* ADR 0014: "A one-step approval is spent." The approver's approvals for one
\* step let no more steps through than were given.
OrgOneStepEach == Cardinality(OneSteps) <= Cardinality(Given("once"))

\* The same where no hook evaluates between the daemon's writes and no write
\* fails: hooks may still run while the daemon waits on the network, and calls
\* may be lost.
OrgOneStepApart ==
  (~orgSetup.overlap /\ ~orgSetup.crash) => OrgOneStepEach

\* RouteApprovals: "records the answers that came back". An answer is
\* written where the pause point reads it, or asked for again in a newer
\* request, unless a day has passed since the decision was raised: whatever
\* hooks overlap, whichever calls are lost, and wherever the daemon is killed.
OrgAnswerArrives ==
  \A i \in 1 .. MaxRequests - 1 :
    (Len(requests) = i /\ requests[i].status \in {"approved", "denied"})
      ~> (i \in applied \/ Len(requests) > i \/ ~Young(orgPending))
=============================================================================
