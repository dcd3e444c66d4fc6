------------------------- MODULE OrgApprovalsProofs -------------------------
(***************************************************************************)
(* An approver's approval for one step lets one step through, for any      *)
(* number of calls, rounds, requests and lost messages, where no hook      *)
(* evaluates between the daemon's writes and none of those fails.  The     *)
(* argument: a request for one step is settled at most once, because the   *)
(* decision it was sent for is cleared before anyone can send it again;    *)
(* and an answer that was settled is spent by at most one call.            *)
(***************************************************************************)
EXTENDS OrgApprovals, FiniteSetTheorems, TLAPS

-----------------------------------------------------------------------------
(***************************************************************************)
(* The invariant.                                                          *)
(***************************************************************************)

Decision == [there : BOOLEAN, routed : BOOLEAN, at : Nat]

Scope == {"none", "once", "session"}

Answer == [approved : BOOLEAN, scope : Scope]

RequestRow == [status : {"none", "pending", "approved", "denied", "expired"},
               scope : Scope, n : Nat]

HookCall == [at : {"idle", "spend", "retire", "renew", "raise", "write", "returned"},
             a : Answer, p : Decision, verdict : {"none", "pass", "held"}]

Round == [at : {"idle", "listed", "ask", "waiting", "stamp", "put", "note", "clear"},
          p : Decision, a : RequestRow]

OrgType ==
  /\ orgSetup \in OrgSetups
  /\ orgPending \in Decision /\ orgAnswer \in Answer
  /\ orgCall \in [1 .. orgSetup.calls -> HookCall]
  /\ router \in Round /\ requests \in Seq(RequestRow)
  /\ orgNow \in Nat

Answers == {"approved", "denied"}

\* The team plane's requests are numbered, and an answer has a scope and
\* stays; a reply the daemon holds is of one of them.
RequestInv ==
  /\ \A i \in DOMAIN requests :
       /\ requests[i].n = i /\ requests[i].status # "none"
       /\ requests[i].status \in Answers <=> requests[i].scope # "none"
  /\ \A i \in applied : i \in DOMAIN requests /\ requests[i].status \in Answers
  /\ router.at \in {"waiting", "stamp", "put"} =>
       /\ router.a.n \in DOMAIN requests
       /\ router.a.status \in Answers <=> router.a.scope # "none"
       /\ router.a.status \in Answers => requests[router.a.n] = router.a
  /\ router.at = "put" => router.a.status \in Answers

Apart == ~orgSetup.overlap /\ ~orgSetup.crash

\* Where a hook's Guard is, what it holds.
HookInv ==
  \A c \in DOMAIN orgCall : LET k == orgCall[c] IN
    /\ k.at \notin {"renew", "write"} => k.p = NotPending
    /\ k.at = "spend" => k.a.scope = "once" /\ orgAnswer \in {Unanswered, k.a}
    /\ k.at \in {"retire", "renew"} => k.a.scope = "once" /\ k.a.approved
    /\ k.at # "returned" => k.verdict = "none"
    /\ k.verdict = "pass" /\ k.a.scope = "once" => k.a.approved

\* No hook is evaluating while the daemon writes.
ApartInv == Writing => Evaluating = {}

\* The latest request is not one for a step that was settled.
Usable == requests # << >> /\ (Len(requests) \notin applied \/ Latest.scope = "session")

\* A decision that says it was sent, wherever a copy of it is held, was sent in
\* a request that can still be settled.
RoutedInv ==
  /\ router.at \notin {"note", "clear"} =>
       /\ orgPending.routed => Usable
       /\ router.p.routed => Usable
       /\ \A c \in DOMAIN orgCall : orgCall[c].p.routed => Usable
  /\ router.at \in {"waiting", "stamp"} => Usable
  /\ router.at \in {"waiting", "stamp", "put"} /\ router.a.scope = "once"
       => router.a.n \notin applied

\* The calls that spent an answer for one step.
Spent ==
  {c \in DOMAIN orgCall : /\ orgCall[c].a.scope = "once" /\ orgCall[c].a.approved
                          /\ \/ orgCall[c].verdict = "pass"
                             \/ orgCall[c].at \in {"retire", "renew"}}

\* The answer for one step that waits to be spent.
Outstanding == IF orgAnswer.approved /\ orgAnswer.scope = "once" THEN 1 ELSE 0

\* The requests for one step that were settled.
Settled == applied \cap Given("once")

CountInv == Cardinality(Spent) + Outstanding <= Cardinality(Settled)

OrgInv ==
  /\ OrgType
  /\ Apart => RequestInv /\ HookInv /\ ApartInv /\ RoutedInv /\ CountInv

-----------------------------------------------------------------------------
(***************************************************************************)
(* What each step makes of the process that takes it.                      *)
(***************************************************************************)

HookBecomes(c, place, a, p, v) ==
  /\ orgCall'[c].at = place /\ orgCall'[c].a = a /\ orgCall'[c].p = p
  /\ orgCall'[c].verdict = v

RouterBecomes(place, p, a) == router'.at = place /\ router'.p = p /\ router'.a = a

\* A step of one call's Guard leaves the other calls where they are.
LEMMA HookAlone ==
  ASSUME OrgType, NEW c \in DOMAIN orgCall, OrgGuard(c)
  PROVE  /\ \A d \in DOMAIN orgCall \ {c} : orgCall'[d] = orgCall[d]
         /\ orgCall' = [d \in DOMAIN orgCall |-> orgCall'[d]]
         /\ orgCall'[c] = [at |-> orgCall'[c].at, a |-> orgCall'[c].a,
                           p |-> orgCall'[c].p, verdict |-> orgCall'[c].verdict]
         /\ UNCHANGED <<router, requests, orgNow, applied>>
PROOF
<1> USE DEF OrgType, HookCall, orgFiles, orgWorld
<1>1. CASE OrgGetAnswer(c)
  BY <1>1 DEF OrgGetAnswer
<1>2. CASE OrgSpend(c)
  BY <1>2 DEF OrgSpend, OrgReturn
<1>3. CASE OrgRetire(c)
  BY <1>3 DEF OrgRetire, OrgReturn
<1>4. CASE OrgRenew(c)
  BY <1>4 DEF OrgRenew, OrgReturn
<1>5. CASE OrgRaise(c)
  BY <1>5 DEF OrgRaise
<1>6. CASE OrgPutPending(c)
  BY <1>6 DEF OrgPutPending, OrgReturn
<1> QED BY <1>1, <1>2, <1>3, <1>4, <1>5, <1>6 DEF OrgGuard

\* Guard returns its verdict.
LEMMA HookReturns ==
  ASSUME OrgType, NEW c \in DOMAIN orgCall, NEW v, OrgReturn(c, v)
  PROVE  HookBecomes(c, "returned", orgCall[c].a, NotPending, v)
<1>1. orgCall[c] \in HookCall
  BY DEF OrgType
<1>2. orgCall'[c] = [orgCall[c] EXCEPT !.at = "returned", !.verdict = v, !.p = NotPending]
  BY Zenon DEF OrgReturn
<1>3. DOMAIN orgCall[c] = {"at", "a", "p", "verdict"}
  BY <1>1 DEF HookCall
<1> QED BY <1>2, <1>3 DEF HookBecomes

\* Guard, step by step.
LEMMA HookSteps ==
  ASSUME OrgType, NEW c \in DOMAIN orgCall
  PROVE  LET k == orgCall[c] IN
    /\ OrgGetAnswer(c) =>
         /\ UNCHANGED orgFiles
         /\ \/ /\ orgAnswer = Unanswered
               /\ HookBecomes(c, "raise", orgAnswer, k.p, k.verdict)
            \/ /\ orgAnswer.scope = "once"
               /\ HookBecomes(c, "spend", orgAnswer, k.p, k.verdict)
            \/ /\ orgAnswer # Unanswered /\ orgAnswer.scope # "once"
               /\ \E v \in {k.verdict, "pass", "held"} :
                    HookBecomes(c, "returned", orgAnswer, k.p, v)
    /\ OrgSpend(c) =>
         /\ orgPending' = orgPending /\ orgAnswer' = Unanswered
         /\ \/ orgAnswer = Unanswered /\ HookBecomes(c, "raise", k.a, k.p, k.verdict)
            \/ /\ orgAnswer # Unanswered /\ k.a.approved
               /\ HookBecomes(c, "retire", k.a, k.p, k.verdict)
            \/ HookBecomes(c, "returned", k.a, NotPending, "held")
    /\ OrgRetire(c) =>
         /\ UNCHANGED orgFiles
         /\ \/ HookBecomes(c, "renew", k.a, orgPending, k.verdict)
            \/ HookBecomes(c, "returned", k.a, NotPending, "pass")
    /\ OrgRenew(c) =>
         /\ orgAnswer' = orgAnswer /\ orgPending' = k.p
         /\ HookBecomes(c, "returned", k.a, NotPending, "pass")
    /\ OrgRaise(c) =>
         UNCHANGED orgFiles /\ HookBecomes(c, "write", k.a, orgPending, k.verdict)
    /\ OrgPutPending(c) =>
         /\ orgAnswer' = orgAnswer /\ orgPending'.routed = k.p.routed
         /\ orgPending' \in Decision
         /\ HookBecomes(c, "returned", k.a, NotPending, "held")
PROOF
<1> DEFINE k == orgCall[c]
<1> USE DEF OrgType, HookCall, HookBecomes
<1>1. ASSUME OrgGetAnswer(c)
      PROVE  /\ UNCHANGED orgFiles
             /\ \/ /\ orgAnswer = Unanswered
                   /\ HookBecomes(c, "raise", orgAnswer, k.p, k.verdict)
                \/ /\ orgAnswer.scope = "once"
                   /\ HookBecomes(c, "spend", orgAnswer, k.p, k.verdict)
                \/ /\ orgAnswer # Unanswered /\ orgAnswer.scope # "once"
                   /\ \E v \in {k.verdict, "pass", "held"} :
                        HookBecomes(c, "returned", orgAnswer, k.p, v)
  <2>1. /\ orgCall'[c].a = orgAnswer /\ orgCall'[c].p = k.p /\ UNCHANGED orgFiles
        /\ orgCall'[c].at = (IF orgAnswer = Unanswered THEN "raise"
                             ELSE IF orgAnswer.scope = "once" THEN "spend" ELSE "returned")
        /\ orgCall'[c].verdict = (IF orgAnswer.scope # "session" THEN k.verdict
                                  ELSE IF orgAnswer.approved THEN "pass" ELSE "held")
    BY <1>1 DEF OrgGetAnswer
  <2>2. orgAnswer = Unanswered => orgAnswer.scope = "none"
    BY DEF Unanswered
  <2> QED BY <2>1, <2>2
<1>2. ASSUME OrgSpend(c)
      PROVE  /\ orgPending' = orgPending /\ orgAnswer' = Unanswered
             /\ \/ orgAnswer = Unanswered /\ HookBecomes(c, "raise", k.a, k.p, k.verdict)
                \/ /\ orgAnswer # Unanswered /\ k.a.approved
                   /\ HookBecomes(c, "retire", k.a, k.p, k.verdict)
                \/ HookBecomes(c, "returned", k.a, NotPending, "held")
  <2>1. orgPending' = orgPending /\ orgAnswer' = Unanswered
    BY <1>2 DEF OrgSpend
  <2>2. CASE orgAnswer = Unanswered
    BY <1>2, <2>1, <2>2 DEF OrgSpend
  <2>3. CASE orgAnswer # Unanswered /\ k.a.approved
    BY <1>2, <2>1, <2>3 DEF OrgSpend
  <2>4. CASE orgAnswer # Unanswered /\ ~k.a.approved
    <3>1. OrgReturn(c, "held")
      BY <1>2, <2>4 DEF OrgSpend
    <3>2. HookBecomes(c, "returned", k.a, NotPending, "held")
      BY <3>1, HookReturns
    <3> QED BY <2>1, <3>2
  <2> QED BY <2>2, <2>3, <2>4
<1>3. ASSUME OrgRetire(c)
      PROVE  /\ UNCHANGED orgFiles
             /\ \/ HookBecomes(c, "renew", k.a, orgPending, k.verdict)
                \/ HookBecomes(c, "returned", k.a, NotPending, "pass")
  <2>1. CASE orgPending.there
    <3>1. orgCall' = [orgCall EXCEPT ![c].at = "renew", ![c].p = orgPending]
      BY <1>3, <2>1 DEF OrgRetire
    <3>2. HookBecomes(c, "renew", k.a, orgPending, k.verdict)
      BY <3>1
    <3> QED BY <1>3, <3>2 DEF OrgRetire
  <2>2. CASE ~orgPending.there
    <3>1. OrgReturn(c, "pass")
      BY <1>3, <2>2 DEF OrgRetire
    <3>2. HookBecomes(c, "returned", k.a, NotPending, "pass")
      BY <3>1, HookReturns
    <3> QED BY <1>3, <3>2 DEF OrgRetire
  <2> QED BY <2>1, <2>2
<1>4. ASSUME OrgRenew(c)
      PROVE  /\ orgAnswer' = orgAnswer /\ orgPending' = k.p
             /\ HookBecomes(c, "returned", k.a, NotPending, "pass")
  BY <1>4, HookReturns DEF OrgRenew
<1>5. ASSUME OrgRaise(c)
      PROVE  UNCHANGED orgFiles /\ HookBecomes(c, "write", k.a, orgPending, k.verdict)
  BY <1>5 DEF OrgRaise
<1>6. ASSUME OrgPutPending(c)
      PROVE  /\ orgAnswer' = orgAnswer /\ orgPending'.routed = k.p.routed
             /\ orgPending' \in Decision
             /\ HookBecomes(c, "returned", k.a, NotPending, "held")
  <2>1. /\ orgAnswer' = orgAnswer /\ orgPending'.routed = k.p.routed
        /\ HookBecomes(c, "returned", k.a, NotPending, "held")
    BY <1>6, HookReturns DEF OrgPutPending
  <2>2. orgPending' \in Decision
    <3>1. k.p \in Decision
      OBVIOUS
    <3>2. /\ k.p.routed \in BOOLEAN
          /\ (IF k.p.there THEN k.p.at ELSE orgNow) \in Nat
      BY <3>1 DEF Decision
    <3> QED BY <1>6, <3>2 DEF OrgPutPending, Decision
  <2> QED BY <2>1, <2>2
<1> QED BY <1>1, <1>2, <1>3, <1>4, <1>5, <1>6

\* RouteApprovals, step by step.
LEMMA RouterSteps ==
  ASSUME OrgType
  PROVE
    /\ RouteList => RouterBecomes("listed", orgPending, NoReply) /\ router.at = "idle"
    /\ RouteCheck => router' = Waiting \/ RouterBecomes("ask", router.p, router.a)
    /\ Ask =>
         \/ /\ router.p.routed \/ Reusable
            /\ requests' = requests /\ RouterBecomes("waiting", router.p, Latest)
         \/ /\ ~router.p.routed /\ ~Reusable
            /\ requests' = Append(requests, Fresh) /\ RouterBecomes("waiting", router.p, Fresh)
    /\ Reply =>
         \/ ~router.p.routed /\ RouterBecomes("stamp", router.p, router.a)
         \/ router' = Waiting
         \/ router.a.status \in Answers /\ RouterBecomes("put", router.p, router.a)
    /\ Stamp =>
         /\ orgPending' \in Decision /\ orgPending'.routed = TRUE
         /\ \/ router' = Waiting
            \/ router.a.status \in Answers /\ RouterBecomes("put", router.p, router.a)
    /\ SettlePut => RouterBecomes("note", router.p, router.a)
    /\ SettleNote => RouterBecomes("clear", router.p, router.a)
PROOF
<1> USE DEF OrgType, RouterBecomes
<1>1. ASSUME RouteList
      PROVE  RouterBecomes("listed", orgPending, NoReply) /\ router.at = "idle"
  BY <1>1 DEF RouteList, Waiting
<1>2. \A place : RouterBecomes(place, router.p, router.a) \/ router' # [router EXCEPT !.at = place]
  BY DEF Round
<1>3. ASSUME RouteCheck
      PROVE  router' = Waiting \/ RouterBecomes("ask", router.p, router.a)
  BY <1>2, <1>3 DEF RouteCheck
<1>4. ASSUME Ask
      PROVE  \/ /\ router.p.routed \/ Reusable
                /\ requests' = requests /\ RouterBecomes("waiting", router.p, Latest)
             \/ /\ ~router.p.routed /\ ~Reusable
                /\ requests' = Append(requests, Fresh)
                /\ RouterBecomes("waiting", router.p, Fresh)
  <2>1. \A a : router' = [router EXCEPT !.at = "waiting", !.a = a]
                 => RouterBecomes("waiting", router.p, a)
    BY DEF Round
  <2>2. CASE router.p.routed \/ Reusable
    BY <1>4, <2>1, <2>2 DEF Ask
  <2>3. CASE ~(router.p.routed \/ Reusable)
    BY <1>4, <2>1, <2>3 DEF Ask
  <2> QED BY <2>2, <2>3
<1>5. Settling(router.a) # "idle" => router.a.status \in Answers
  BY DEF Settling, Answers
<1>6. ASSUME Reply
      PROVE  \/ ~router.p.routed /\ RouterBecomes("stamp", router.p, router.a)
             \/ router' = Waiting
             \/ router.a.status \in Answers /\ RouterBecomes("put", router.p, router.a)
  BY <1>2, <1>5, <1>6 DEF Reply
<1>7. ASSUME Stamp
      PROVE  /\ orgPending' \in Decision /\ orgPending'.routed = TRUE
             /\ \/ router' = Waiting
                \/ router.a.status \in Answers /\ RouterBecomes("put", router.p, router.a)
  <2>1. router.p \in Decision
    BY DEF Round
  <2>2. orgPending' \in Decision /\ orgPending'.routed = TRUE
    BY <1>7, <2>1 DEF Stamp, Decision
  <2> QED BY <1>2, <1>5, <1>7, <2>2 DEF Stamp
<1>8. SettlePut => RouterBecomes("note", router.p, router.a)
  BY <1>2 DEF SettlePut
<1>9. SettleNote => RouterBecomes("clear", router.p, router.a)
  BY <1>2 DEF SettleNote
<1> QED BY <1>1, <1>3, <1>4, <1>6, <1>7, <1>8, <1>9

-----------------------------------------------------------------------------
(***************************************************************************)
(* Types.                                                                  *)
(***************************************************************************)

\* The constants, by their assumptions.
LEMMA ConstantsTyped ==
  /\ NotPending \in Decision /\ Unanswered \in Answer /\ NoReply \in RequestRow
  /\ Waiting \in Round /\ Waiting.at = "idle" /\ Waiting.p = NotPending /\ Waiting.a = NoReply
  /\ ~NotPending.routed /\ ~NotPending.there
PROOF
<1>1. NotPending \in Decision /\ ~NotPending.routed /\ ~NotPending.there
  BY DEF NotPending, Decision
<1>2. Unanswered \in Answer /\ NoReply \in RequestRow
  BY DEF Unanswered, Answer, NoReply, RequestRow, Scope
<1>3. Waiting \in Round /\ Waiting.at = "idle" /\ Waiting.p = NotPending /\ Waiting.a = NoReply
  BY <1>1, <1>2 DEF Waiting, Round
<1> QED BY <1>1, <1>2, <1>3

\* The approver, or the clock, settles the latest request and leaves the others.
LEMMA LatestSettled ==
  ASSUME OrgType, Approver \/ Expire
  PROVE  LET L == Len(requests) IN
         /\ L \in DOMAIN requests /\ requests[L].status = "pending"
         /\ requests' \in Seq(RequestRow) /\ Len(requests') = L
         /\ \A i \in DOMAIN requests \ {L} : requests'[i] = requests[i]
         /\ requests'[L].n = requests[L].n
         /\ \/ requests'[L].status \in Answers /\ requests'[L].scope \in {"once", "session"}
            \/ requests'[L].status = "expired" /\ requests'[L].scope = requests[L].scope
PROOF
<1> DEFINE L == Len(requests)
<1>1. requests \in Seq(RequestRow)
  BY DEF OrgType
<1>2. requests # << >> /\ requests[L].status = "pending"
  BY DEF Approver, Expire, Latest, NoReply
<1>3. L \in Nat /\ L \in DOMAIN requests /\ requests[L] \in RequestRow /\ DOMAIN requests = 1 .. L
  BY <1>1, <1>2
<1>4. requests[L].n \in Nat /\ requests[L].scope \in Scope
  BY <1>3 DEF RequestRow
<1>5. /\ requests' = [i \in 1 .. L |-> requests'[i]]
      /\ \A i \in DOMAIN requests \ {L} : requests'[i] = requests[i]
      /\ requests'[L] = [status |-> requests'[L].status, scope |-> requests'[L].scope,
                         n |-> requests'[L].n]
      /\ requests'[L].n = requests[L].n
  <2>1. CASE Approver
    <3>1. PICK s \in {"approved", "denied"}, o \in {"once", "session"} :
            requests' = [requests EXCEPT ![L].status = s, ![L].scope = o]
      BY <2>1 DEF Approver
    <3>2. requests'[L] = [status |-> s, scope |-> o, n |-> requests[L].n]
      BY <1>3, <3>1 DEF RequestRow
    <3>3. DOMAIN requests' = 1 .. L /\ \A i \in DOMAIN requests \ {L} : requests'[i] = requests[i]
      BY <1>3, <3>1
    <3>4. requests' = [i \in 1 .. L |-> requests'[i]]
      BY <1>3, <3>1
    <3> QED BY <3>2, <3>3, <3>4
  <2>2. CASE Expire
    BY <2>2, <1>3 DEF Expire, RequestRow
  <2> QED BY <2>1, <2>2
<1>6. \/ requests'[L].status \in Answers /\ requests'[L].scope \in {"once", "session"}
      \/ requests'[L].status = "expired" /\ requests'[L].scope = requests[L].scope
  <2>1. CASE Approver
    <3>1. PICK s \in {"approved", "denied"}, o \in {"once", "session"} :
            requests' = [requests EXCEPT ![L].status = s, ![L].scope = o]
      BY <2>1 DEF Approver
    <3>2. requests'[L].status = s /\ requests'[L].scope = o
      BY <1>3, <3>1 DEF RequestRow
    <3> QED BY <3>1, <3>2 DEF Answers
  <2>2. CASE Expire
    BY <2>2, <1>3 DEF Expire, RequestRow
  <2> QED BY <2>1, <2>2
<1>7. requests'[L] \in RequestRow
  <2>1. /\ requests'[L].status \in {"approved", "denied", "expired"}
        /\ requests'[L].scope \in Scope /\ requests'[L].n \in Nat
    BY <1>4, <1>5, <1>6 DEF Answers, Scope
  <2>2. requests'[L] = [status |-> requests'[L].status, scope |-> requests'[L].scope,
                        n |-> requests'[L].n]
    BY <1>5
  <2> QED BY <2>1, <2>2 DEF RequestRow
<1>8. requests' \in Seq(RequestRow) /\ Len(requests') = L
  <2>1. \A i \in 1 .. L : requests'[i] \in RequestRow
    BY <1>1, <1>3, <1>5, <1>7
  <2>2. requests' = [i \in 1 .. L |-> requests'[i]]
    BY <1>5
  <2>3. requests' \in [1 .. L -> RequestRow]
    BY <2>1, <2>2
  <2> QED BY <1>3, <2>3
<1> HIDE DEF L
<1> QED BY <1>2, <1>3, <1>5, <1>6, <1>8 DEF L

\* Nothing is asked, routed or answered.
LEMMA OrgTypeInit == OrgInit => OrgType
PROOF
<1> SUFFICES ASSUME OrgInit PROVE OrgType
  OBVIOUS
<1>1. [at |-> "idle", a |-> Unanswered, p |-> NotPending, verdict |-> "none"] \in HookCall
  BY ConstantsTyped DEF HookCall
<1> QED BY <1>1, ConstantsTyped DEF OrgInit, OrgType

\* Every step keeps the types.
LEMMA OrgTypeStep == OrgType /\ [OrgNext]_orgVars => OrgType'
PROOF
<1> SUFFICES ASSUME OrgType, [OrgNext]_orgVars PROVE OrgType'
  OBVIOUS
<1>0. orgSetup' = orgSetup
  BY DEF OrgNext, orgVars
<1>t. /\ orgPending \in Decision /\ orgAnswer \in Answer
      /\ orgCall \in [1 .. orgSetup.calls -> HookCall] /\ router \in Round
      /\ requests \in Seq(RequestRow) /\ orgNow \in Nat
      /\ router.p \in Decision /\ router.a \in RequestRow
      /\ router.at \in {"idle", "listed", "ask", "waiting", "stamp", "put", "note", "clear"}
  BY DEF OrgType, Round
<1>1. ASSUME NEW c \in DOMAIN orgCall, OrgGuard(c) PROVE OrgType'
  <2>1. orgCall[c] \in HookCall
    BY <1>t, <1>1
  <2>2. /\ orgCall[c].a \in Answer /\ orgCall[c].p \in Decision
        /\ orgCall[c].verdict \in {"none", "pass", "held"}
    BY <2>1 DEF HookCall
  <2>3. /\ orgPending' \in Decision /\ orgAnswer' \in Answer
        /\ orgCall'[c].at \in {"spend", "retire", "renew", "raise", "write", "returned"}
        /\ orgCall'[c].a \in Answer /\ orgCall'[c].p \in Decision
        /\ orgCall'[c].verdict \in {"none", "pass", "held"}
    <3> USE <1>t, <2>2, ConstantsTyped DEF HookBecomes, orgFiles
    <3>1. CASE OrgGetAnswer(c)
      BY <1>1, <3>1, HookSteps
    <3>2. CASE OrgSpend(c)
      BY <1>1, <3>2, HookSteps
    <3>3. CASE OrgRetire(c)
      BY <1>1, <3>3, HookSteps
    <3>4. CASE OrgRenew(c)
      BY <1>1, <3>4, HookSteps
    <3>5. CASE OrgRaise(c)
      BY <1>1, <3>5, HookSteps
    <3>6. CASE OrgPutPending(c)
      BY <1>1, <3>6, HookSteps
    <3> QED BY <1>1, <3>1, <3>2, <3>3, <3>4, <3>5, <3>6 DEF OrgGuard
  <2>4. orgCall'[c] \in HookCall
    <3>1. orgCall'[c] = [at |-> orgCall'[c].at, a |-> orgCall'[c].a,
                         p |-> orgCall'[c].p, verdict |-> orgCall'[c].verdict]
      BY <1>1, HookAlone
    <3> QED BY <2>3, <3>1 DEF HookCall
  <2>5. orgCall' \in [1 .. orgSetup.calls -> HookCall]
    <3>1. /\ orgCall' = [d \in 1 .. orgSetup.calls |-> orgCall'[d]]
          /\ \A d \in 1 .. orgSetup.calls : d # c => orgCall'[d] = orgCall[d]
      BY <1>1, <1>t, HookAlone
    <3>2. \A d \in 1 .. orgSetup.calls : orgCall'[d] \in HookCall
      BY <1>t, <2>4, <3>1
    <3> QED BY <3>1, <3>2
  <2>6. UNCHANGED <<router, requests, orgNow>>
    BY <1>1, HookAlone
  <2> QED BY <1>0, <1>t, <2>3, <2>5, <2>6 DEF OrgType
<1>2. ASSUME router' \in Round, requests' \in Seq(RequestRow), orgPending' \in Decision,
             orgAnswer' \in Answer, UNCHANGED <<orgCall, orgNow>>
      PROVE  OrgType'
  BY <1>0, <1>t, <1>2 DEF OrgType
<1>3. ASSUME router' = Waiting \/ router' = router,
             UNCHANGED <<orgFiles, orgCall, requests, orgNow>>
      PROVE  OrgType'
  BY <1>2, <1>3, <1>t, ConstantsTyped DEF orgFiles
<1>4. CASE RouteList
  <2>1. router' \in Round
    BY <1>4, <1>t, ConstantsTyped DEF RouteList, Round
  <2> QED BY <1>2, <1>4, <1>t, <2>1 DEF RouteList, orgFiles, orgWorld
<1>5. CASE RouteCheck
  <2>1. router' \in Round
    BY <1>5, <1>t, ConstantsTyped DEF RouteCheck, Round
  <2> QED BY <1>2, <1>5, <1>t, <2>1 DEF RouteCheck, orgFiles, orgWorld
<1>6. CASE Ask
  <2>1. Latest \in RequestRow /\ Fresh \in RequestRow
    <3>1. Latest \in RequestRow
      <4>1. CASE requests = << >>
        BY <4>1, ConstantsTyped DEF Latest
      <4>2. CASE requests # << >>
        BY <4>2, <1>t DEF Latest
      <4> QED BY <4>1, <4>2
    <3>2. Len(requests) + 1 \in Nat
      BY <1>t
    <3> QED BY <3>1, <3>2 DEF Fresh, RequestRow, Scope
  <2>2. requests' \in Seq(RequestRow)
    <3>1. requests' = requests \/ requests' = Append(requests, Fresh)
      BY <1>6 DEF Ask
    <3>2. requests \in Seq(RequestRow)
      BY <1>t
    <3>3. \A x \in RequestRow : Append(requests, x) \in Seq(RequestRow)
      BY <3>2
    <3> QED BY <2>1, <3>1, <3>2, <3>3
  <2>3. \A a \in RequestRow : [router EXCEPT !.at = "waiting", !.a = a] \in Round
    <3> SUFFICES ASSUME NEW a \in RequestRow
                 PROVE  [router EXCEPT !.at = "waiting", !.a = a] \in Round
      OBVIOUS
    <3> DEFINE r == [router EXCEPT !.at = "waiting"]
    <3>1. r \in Round
      BY <1>t DEF Round
    <3>2. [router EXCEPT !.at = "waiting", !.a = a] = [r EXCEPT !.a = a]
      BY <1>t DEF Round
    <3> HIDE DEF r
    <3>3. [r EXCEPT !.a = a] \in Round
      BY <3>1 DEF Round
    <3> QED BY <3>2, <3>3
  <2>4. router' \in Round
    BY <1>6, <2>1, <2>3 DEF Ask
  <2> QED BY <1>2, <1>6, <1>t, <2>2, <2>4 DEF Ask, orgFiles, orgWorld
<1>7. CASE Lost \/ RouterFails
  BY <1>3, <1>7 DEF Lost, RouterFails
<1>8. CASE Reply
  <2>1. router' \in Round
    BY <1>8, <1>t, ConstantsTyped DEF Reply, Round
  <2> QED BY <1>2, <1>8, <1>t, <2>1 DEF Reply, orgFiles, orgWorld
<1>9. CASE Stamp
  <2>1. router' \in Round
    BY <1>9, <1>t, ConstantsTyped DEF Stamp, Round
  <2>2. orgPending' \in Decision
    BY <1>9, RouterSteps
  <2> QED BY <1>2, <1>9, <1>t, <2>1, <2>2 DEF Stamp, orgWorld
<1>10. CASE SettlePut
  <2>1. router' \in Round
    BY <1>10, <1>t DEF SettlePut, Round
  <2>2. orgAnswer' \in Answer
    <3>1. router.a.scope \in Scope /\ (router.a.status = "approved") \in BOOLEAN
      BY <1>t DEF RequestRow
    <3> QED BY <1>10, <3>1 DEF SettlePut, Answer
  <2> QED BY <1>2, <1>10, <1>t, <2>1, <2>2 DEF SettlePut, orgWorld
<1>11. CASE SettleNote
  <2>1. router' \in Round
    BY <1>11, <1>t DEF SettleNote, Round
  <2> QED BY <1>2, <1>11, <1>t, <2>1 DEF SettleNote, orgFiles, orgWorld
<1>12. CASE SettleClear
  BY <1>2, <1>12, <1>t, ConstantsTyped DEF SettleClear, orgWorld
<1>13. CASE Approver \/ Expire
  <2>1. requests' \in Seq(RequestRow)
    BY <1>13, LatestSettled
  <2> QED BY <1>2, <1>13, <1>t, <2>1 DEF Approver, Expire, orgFiles, orgWorld
<1>14. CASE OrgTick
  BY <1>0, <1>14, <1>t DEF OrgTick, OrgType, orgFiles
<1>15. CASE UNCHANGED orgVars
  BY <1>15, <1>t DEF orgVars, orgMoving, OrgType
<1> QED
  BY <1>1, <1>4, <1>5, <1>6, <1>7, <1>8, <1>9, <1>10, <1>11, <1>12, <1>13, <1>14, <1>15
     DEF OrgNext, RouteApprovals

-----------------------------------------------------------------------------
(***************************************************************************)
(* The parts of the invariant, where the daemon's writes are apart.        *)
(***************************************************************************)

ApartParts == RequestInv /\ HookInv /\ ApartInv /\ RoutedInv /\ CountInv

Counted ==
  /\ IsFiniteSet(Spent) /\ IsFiniteSet(Settled) /\ IsFiniteSet(Given("once"))
  /\ Cardinality(Spent) \in Nat /\ Cardinality(Settled) \in Nat
  /\ Outstanding \in {0, 1}

\* The sets that are counted are finite.
LEMMA CountedFinite == OrgType /\ RequestInv => Counted
PROOF
<1> SUFFICES ASSUME OrgType, RequestInv PROVE Counted
  OBVIOUS
<1>1. orgSetup.calls \in Int /\ Len(requests) \in Int
  BY OrgAssumption DEF OrgType, OrgSetup
<1>2. IsFiniteSet(1 .. orgSetup.calls) /\ IsFiniteSet(1 .. Len(requests))
  BY <1>1, FS_Interval
<1>3. /\ Spent \in SUBSET (1 .. orgSetup.calls)
      /\ Settled \in SUBSET (1 .. Len(requests))
      /\ Given("once") \in SUBSET (1 .. Len(requests))
  BY DEF OrgType, Spent, Settled, Given, RequestInv
<1>4. IsFiniteSet(Spent) /\ IsFiniteSet(Settled) /\ IsFiniteSet(Given("once"))
  BY <1>2, <1>3, FS_Subset
<1> QED BY <1>4, FS_CardinalityType DEF Outstanding, Counted

\* Fewer spent, more settled: the count stays right.
LEMMA CountKept ==
  ASSUME OrgType, RequestInv, CountInv, OrgType', RequestInv',
         Spent' \subseteq Spent, Outstanding' <= Outstanding, Settled \subseteq Settled'
  PROVE  CountInv'
PROOF
<1>1. /\ IsFiniteSet(Spent) /\ IsFiniteSet(Settled)
      /\ Cardinality(Spent) \in Nat /\ Cardinality(Settled) \in Nat
      /\ Outstanding \in {0, 1}
  BY CountedFinite DEF Counted
<1>2. /\ IsFiniteSet(Spent') /\ IsFiniteSet(Settled')
      /\ Cardinality(Spent') \in Nat /\ Cardinality(Settled') \in Nat
      /\ Outstanding' \in {0, 1}
  <2>1. Counted'
    BY CountedFinite, PTL
  <2> QED BY <2>1 DEF Counted
<1>3. Cardinality(Spent') <= Cardinality(Spent)
  BY <1>1, FS_Subset
<1>4. Cardinality(Settled) <= Cardinality(Settled')
  BY <1>2, FS_Subset
<1>5. Cardinality(Spent) + Outstanding <= Cardinality(Settled)
  BY DEF CountInv
<1>6. Cardinality(Spent') + Outstanding' <= Cardinality(Settled')
  BY <1>1, <1>2, <1>3, <1>4, <1>5
<1> QED BY <1>6 DEF CountInv

\* A hook's evaluation keeps the invariant.
LEMMA HookKeeps ==
  ASSUME OrgType, Apart, ApartParts, OrgType', NEW c \in DOMAIN orgCall, OrgGuard(c)
  PROVE  ApartParts'
PROOF
<1> USE DEF ApartParts
<1>k. ~Writing
  <2>1. CASE OrgGetAnswer(c)
    BY <2>1 DEF OrgGetAnswer, Apart
  <2>2. CASE ~OrgGetAnswer(c)
    <3>1. c \in Evaluating
      BY <2>2 DEF OrgGuard, OrgSpend, OrgRetire, OrgRenew, OrgRaise, OrgPutPending, Evaluating
    <3> QED BY <3>1 DEF ApartInv
  <2> QED BY <2>1, <2>2
<1>1. /\ \A d \in DOMAIN orgCall \ {c} : orgCall'[d] = orgCall[d]
      /\ DOMAIN orgCall' = DOMAIN orgCall
      /\ UNCHANGED <<router, requests, orgNow, applied>>
  <2>1. orgCall' = [d \in DOMAIN orgCall |-> orgCall'[d]]
    BY HookAlone
  <2>2. DOMAIN orgCall' = DOMAIN orgCall
    BY <2>1
  <2> QED BY <2>2, HookAlone
<1>2. RequestInv'
  BY <1>1 DEF RequestInv
<1>3. ApartInv' /\ router.at \notin {"note", "clear"}
  BY <1>1, <1>k DEF ApartInv, Writing
<1> DEFINE k == orgCall[c]
           n == orgCall'[c]
<1>4. /\ k.at \notin {"renew", "write"} => k.p = NotPending
      /\ k.at = "spend" => k.a.scope = "once" /\ orgAnswer \in {Unanswered, k.a}
      /\ k.at \in {"retire", "renew"} => k.a.scope = "once" /\ k.a.approved
      /\ k.at # "returned" => k.verdict = "none"
      /\ k.verdict = "pass" /\ k.a.scope = "once" => k.a.approved
  BY DEF HookInv
<1>5. /\ n.at \notin {"renew", "write"} => n.p = NotPending
      /\ n.at = "spend" => n.a.scope = "once" /\ orgAnswer' \in {Unanswered, n.a}
      /\ n.at \in {"retire", "renew"} => n.a.scope = "once" /\ n.a.approved
      /\ n.at # "returned" => n.verdict = "none"
      /\ n.verdict = "pass" /\ n.a.scope = "once" => n.a.approved
      /\ orgAnswer' \in {orgAnswer, Unanswered}
      /\ orgPending'.routed => orgPending.routed \/ k.p.routed
      /\ n.p.routed => orgPending.routed \/ k.p.routed
      /\ \/ n.a.scope = "once" /\ n.a.approved /\ (n.verdict = "pass" \/ n.at \in {"retire", "renew"})
              => c \in Spent
         \/ /\ k.a.scope = "once" /\ k.a.approved /\ orgAnswer = k.a
            /\ orgAnswer' = Unanswered /\ c \notin Spent
  <2> USE ConstantsTyped
  <2> HIDE DEF ApartParts
  <2>s. c \in Spent <=> /\ k.a.scope = "once" /\ k.a.approved
                        /\ k.verdict = "pass" \/ k.at \in {"retire", "renew"}
    BY DEF Spent
  <2>1. CASE OrgGetAnswer(c)
    <3>1. k.at = "idle"
      BY <2>1 DEF OrgGetAnswer
    <3> QED BY <1>4, <2>s, <2>1, <3>1, HookSteps DEF HookBecomes, orgFiles
  <2>2. CASE OrgSpend(c)
    <3>1. k.at = "spend"
      BY <2>2 DEF OrgSpend
    <3> QED BY <1>4, <2>s, <2>2, <3>1, HookSteps DEF HookBecomes
  <2>3. CASE OrgRetire(c)
    <3>1. k.at = "retire"
      BY <2>3 DEF OrgRetire
    <3> QED BY <1>4, <2>s, <2>3, <3>1, HookSteps DEF HookBecomes, orgFiles
  <2>4. CASE OrgRenew(c)
    <3>1. k.at = "renew"
      BY <2>4 DEF OrgRenew
    <3> QED BY <1>4, <2>s, <2>4, <3>1, HookSteps DEF HookBecomes
  <2>5. CASE OrgRaise(c)
    <3>1. k.at = "raise"
      BY <2>5 DEF OrgRaise
    <3> QED BY <1>4, <2>s, <2>5, <3>1, HookSteps DEF HookBecomes, orgFiles
  <2>6. CASE OrgPutPending(c)
    <3>1. k.at = "write"
      BY <2>6 DEF OrgPutPending
    <3> QED BY <1>4, <2>s, <2>6, <3>1, HookSteps DEF HookBecomes
  <2> QED BY <2>1, <2>2, <2>3, <2>4, <2>5, <2>6 DEF OrgGuard
<1>6. HookInv'
  <2> HIDE DEF n
  <2> SUFFICES ASSUME NEW d \in DOMAIN orgCall
               PROVE  /\ orgCall'[d].at \notin {"renew", "write"} => orgCall'[d].p = NotPending
                      /\ orgCall'[d].at = "spend" =>
                           /\ orgCall'[d].a.scope = "once"
                           /\ orgAnswer' \in {Unanswered, orgCall'[d].a}
                      /\ orgCall'[d].at \in {"retire", "renew"} =>
                           orgCall'[d].a.scope = "once" /\ orgCall'[d].a.approved
                      /\ orgCall'[d].at # "returned" => orgCall'[d].verdict = "none"
                      /\ orgCall'[d].verdict = "pass" /\ orgCall'[d].a.scope = "once"
                           => orgCall'[d].a.approved
    BY <1>1 DEF HookInv
  <2>1. CASE d = c
    BY <1>5, <2>1 DEF n
  <2>2. CASE d # c
    BY <1>1, <1>5, <2>2 DEF HookInv
  <2> QED BY <2>1, <2>2
<1>7. RoutedInv'
  <2>1. Usable' <=> Usable
    BY <1>1 DEF Usable, Latest
  <2>2. /\ orgPending.routed \/ k.p.routed => Usable
        /\ router.p.routed => Usable
        /\ \A d \in DOMAIN orgCall : orgCall[d].p.routed => Usable
    BY <1>3 DEF RoutedInv
  <2>3. \A d \in DOMAIN orgCall : orgCall'[d].p.routed => Usable
    BY <1>1, <1>5, <2>2
  <2> QED BY <1>1, <1>5, <2>1, <2>2, <2>3 DEF RoutedInv
<1>8. CountInv'
  <2>1. Settled' = Settled
    BY <1>1 DEF Settled, Given
  <2>2. Spent' \subseteq Spent \cup {c}
    BY <1>1 DEF Spent
  <2>3. Outstanding' <= Outstanding
    BY <1>5 DEF Outstanding, Unanswered
  <2>4. c \in Spent' <=> /\ n.a.scope = "once" /\ n.a.approved
                         /\ n.verdict = "pass" \/ n.at \in {"retire", "renew"}
    BY <1>1 DEF Spent
  <2>5. CASE c \in Spent' => c \in Spent
    <3>1. Spent' \subseteq Spent
      BY <2>2, <2>5
    <3> QED BY <1>2, <2>1, <2>3, <3>1, CountKept
  <2>6. CASE c \in Spent' /\ c \notin Spent
    <3>1. /\ k.a.scope = "once" /\ k.a.approved /\ orgAnswer = k.a
          /\ orgAnswer' = Unanswered
      BY <1>5, <2>4, <2>6
    <3>2. Outstanding = 1 /\ Outstanding' = 0
      BY <3>1 DEF Outstanding, Unanswered
    <3>3. Spent' = Spent \cup {c}
      <4>1. \A d \in Spent : d \in Spent'
        BY <1>1, <2>6 DEF Spent
      <4> QED BY <2>2, <2>6, <4>1
    <3>4. /\ IsFiniteSet(Spent) /\ Cardinality(Spent) \in Nat /\ Cardinality(Settled) \in Nat
      BY CountedFinite DEF Counted
    <3>5. Cardinality(Spent') = Cardinality(Spent) + 1
      BY <2>6, <3>3, <3>4, FS_AddElement
    <3>6. Cardinality(Spent) + Outstanding <= Cardinality(Settled)
      BY DEF CountInv
    <3>7. Cardinality(Spent') + Outstanding' <= Cardinality(Settled')
      BY <2>1, <3>2, <3>4, <3>5, <3>6
    <3> QED BY <3>7 DEF CountInv
  <2> QED BY <2>5, <2>6
<1> QED BY <1>2, <1>3, <1>6, <1>7, <1>8

\* What no step of the daemon's but a write of the answer disturbs.
LEMMA RouterFrame ==
  ASSUME OrgType, ApartParts, UNCHANGED <<orgAnswer, orgCall, requests, applied>>
  PROVE  HookInv' /\ CountInv' /\ Evaluating' = Evaluating /\ (Usable' <=> Usable)
PROOF
<1>1. HookInv' /\ Evaluating' = Evaluating
  BY DEF ApartParts, HookInv, Evaluating
<1>2. Spent' = Spent /\ Settled' = Settled /\ Outstanding' = Outstanding
  BY DEF Spent, Settled, Outstanding, Given
<1>3. CountInv'
  BY <1>2 DEF ApartParts, CountInv
<1> QED BY <1>1, <1>3 DEF Usable, Latest

\* RouteApprovals asking the team plane keeps the invariant.
LEMMA AskKeeps ==
  ASSUME OrgType, Apart, ApartParts, OrgType', Ask
  PROVE  ApartParts'
PROOF
<1> USE DEF ApartParts
<1>1. UNCHANGED <<orgPending, orgAnswer, orgCall, applied>> /\ router.at = "ask"
  BY DEF Ask, orgFiles
<1>t. requests \in Seq(RequestRow) /\ Len(requests) \in Nat /\ DOMAIN requests = 1 .. Len(requests)
  BY DEF OrgType
<1>2. HookInv'
  BY <1>1 DEF HookInv
<1>3. RouterBecomes("waiting", router.p, router'.a)
  BY RouterSteps DEF RouterBecomes
<1>4. ApartInv'
  BY <1>3 DEF ApartInv, Writing, RouterBecomes
<1>5. Spent' = Spent /\ Outstanding' = Outstanding
  BY <1>1 DEF Spent, Outstanding
<1>6. CASE /\ router.p.routed \/ Reusable
           /\ requests' = requests /\ RouterBecomes("waiting", router.p, Latest)
  <2>1. requests # << >>
    BY <1>1, <1>6 DEF RoutedInv, Usable, Reusable, Latest, NoReply
  <2>2. /\ Latest = requests[Len(requests)] /\ Len(requests) \in DOMAIN requests
        /\ Latest.n = Len(requests)
        /\ Latest.status \in Answers <=> Latest.scope # "none"
        /\ Len(requests) \in applied => Latest.status \in Answers
    BY <1>t, <2>1 DEF Latest, RequestInv
  <2>3. Usable
    <3>1. CASE router.p.routed
      BY <1>1, <3>1 DEF RoutedInv
    <3>2. CASE Latest.status = "pending"
      BY <2>1, <2>2, <3>2 DEF Usable, Answers
    <3>3. CASE Latest.scope = "session"
      BY <2>1, <3>3 DEF Usable
    <3> QED BY <1>6, <3>1, <3>2, <3>3 DEF Reusable
  <2>4. Usable'
    BY <1>1, <1>6, <2>3 DEF Usable, Latest
  <2>5. router'.at = "waiting" /\ router'.a = Latest
    BY <1>6 DEF RouterBecomes
  <2>6. RequestInv'
    BY <1>1, <1>6, <2>2, <2>5 DEF RequestInv
  <2>7. RoutedInv'
    BY <1>1, <2>2, <2>3, <2>4, <2>5 DEF RoutedInv, Usable
  <2>8. CountInv'
    BY <1>1, <1>5, <1>6 DEF CountInv, Settled, Given
  <2> QED BY <1>2, <1>4, <2>6, <2>7, <2>8
<1>7. CASE /\ requests' = Append(requests, Fresh)
           /\ RouterBecomes("waiting", router.p, Fresh)
  <2> DEFINE N == Len(requests) + 1
  <2>1. /\ DOMAIN requests' = 1 .. N /\ Len(requests') = N /\ requests' # << >>
        /\ \A i \in DOMAIN requests : requests'[i] = requests[i] /\ i \in DOMAIN requests'
        /\ requests'[N] = Fresh /\ N \notin DOMAIN requests
        /\ DOMAIN requests' = DOMAIN requests \cup {N}
    BY <1>t, <1>7
  <2>2. Fresh.status = "pending" /\ Fresh.scope = "none" /\ Fresh.n = N
    BY DEF Fresh
  <2>3. router'.at = "waiting" /\ router'.a = Fresh
    BY <1>7 DEF RouterBecomes
  <2> HIDE DEF N
  <2>4. RequestInv'
    <3>1. ASSUME NEW i \in DOMAIN requests'
          PROVE  /\ requests'[i].n = i /\ requests'[i].status # "none"
                 /\ requests'[i].status \in Answers <=> requests'[i].scope # "none"
      <4>1. CASE i \in DOMAIN requests
        BY <2>1, <4>1 DEF RequestInv
      <4>2. CASE i = N
        BY <2>1, <2>2, <4>2 DEF Answers
      <4> QED BY <2>1, <4>1, <4>2
    <3>2. \A i \in applied' : i \in DOMAIN requests' /\ requests'[i].status \in Answers
      BY <1>1, <2>1 DEF RequestInv
    <3>3. /\ router'.a.n \in DOMAIN requests'
          /\ router'.a.status \notin Answers /\ router'.a.scope = "none"
      BY <2>1, <2>2, <2>3 DEF Answers
    <3> QED BY <2>3, <3>1, <3>2, <3>3 DEF RequestInv
  <2>5. Usable'
    BY <1>1, <2>1 DEF Usable, RequestInv
  <2>6. RoutedInv'
    BY <1>1, <2>2, <2>3, <2>5 DEF RoutedInv
  <2>7. Settled \subseteq Settled'
    BY <1>1, <2>1 DEF Settled, Given
  <2>8. CountInv'
    <3>1. Spent' \subseteq Spent /\ Outstanding' <= Outstanding
      BY <1>5 DEF Outstanding
    <3> QED BY <2>4, <2>7, <3>1, CountKept
  <2> QED BY <1>2, <1>4, <2>4, <2>6, <2>8
<1> QED BY <1>6, <1>7, RouterSteps

\* RouteApprovals writing an answer down keeps the invariant.
LEMMA SettlePutKeeps ==
  ASSUME OrgType, Apart, ApartParts, OrgType', SettlePut
  PROVE  ApartParts'
PROOF
<1> USE DEF ApartParts
<1> DEFINE a == router.a
<1>1. /\ UNCHANGED <<orgPending, orgCall, requests>> /\ router.at = "put"
      /\ orgAnswer' = [approved |-> a.status = "approved", scope |-> a.scope]
      /\ applied' = applied \cup {a.n}
  BY DEF SettlePut
<1>2. router'.at = "note" /\ router'.a = a
  BY RouterSteps DEF RouterBecomes
<1>3. Evaluating = {} /\ Evaluating' = Evaluating
  BY <1>1 DEF ApartInv, Writing, Evaluating
<1>4. /\ a.n \in DOMAIN requests /\ requests[a.n] = a /\ a.status \in Answers
      /\ a.scope = "once" => a.n \notin applied
  BY <1>1 DEF RequestInv, RoutedInv
<1>5. RequestInv'
  BY <1>1, <1>2, <1>4 DEF RequestInv
<1>6. ApartInv' /\ RoutedInv'
  BY <1>2, <1>3 DEF ApartInv, RoutedInv
<1>7. HookInv'
  <2>1. \A c \in DOMAIN orgCall : orgCall[c].at \in {"idle", "returned"}
    BY <1>3 DEF Evaluating
  <2> QED BY <1>1, <2>1 DEF HookInv
<1>8. CountInv'
  <2>1. Spent' = Spent
    BY <1>1 DEF Spent
  <2>2. Settled \subseteq Settled'
    BY <1>1 DEF Settled, Given
  <2>3. orgAnswer'.approved = (a.status = "approved") /\ orgAnswer'.scope = a.scope
    BY <1>1
  <2>4. CASE a.status = "approved" /\ a.scope = "once"
    <3>1. a.n \notin Settled
      BY <1>4, <2>4 DEF Settled
    <3>2. Settled' = Settled \cup {a.n}
      BY <1>1, <1>4, <2>4 DEF Settled, Given
    <3>3. /\ IsFiniteSet(Settled) /\ Cardinality(Spent) \in Nat /\ Cardinality(Settled) \in Nat
          /\ Outstanding \in {0, 1}
      BY CountedFinite DEF Counted
    <3>4. Cardinality(Settled') = Cardinality(Settled) + 1
      BY <3>1, <3>2, <3>3, FS_AddElement
    <3>5. Outstanding' = 1
      BY <2>3, <2>4 DEF Outstanding
    <3>6. Cardinality(Spent) + Outstanding <= Cardinality(Settled)
      BY DEF CountInv
    <3>7. Cardinality(Spent') + Outstanding' <= Cardinality(Settled')
      BY <2>1, <3>3, <3>4, <3>5, <3>6
    <3> QED BY <3>7 DEF CountInv
  <2>5. CASE ~(a.status = "approved" /\ a.scope = "once")
    <3>1. ~(orgAnswer'.approved /\ orgAnswer'.scope = "once")
      BY <2>3, <2>5
    <3>2. Outstanding' = 0
      BY <3>1 DEF Outstanding
    <3>3. Outstanding' <= Outstanding
      BY <3>2 DEF Outstanding
    <3> QED BY <1>5, <2>1, <2>2, <3>3, CountKept
  <2> QED BY <2>4, <2>5
<1> QED BY <1>5, <1>6, <1>7, <1>8

\* The daemon's other steps move its round, and write the pending decision.
LEMMA RouterKeeps ==
  ASSUME OrgType, Apart, ApartParts, OrgType',
         RouteList \/ RouteCheck \/ Lost \/ Reply \/ Stamp \/ SettleNote \/ SettleClear
  PROVE  ApartParts'
PROOF
<1>a. RequestInv /\ HookInv /\ ApartInv /\ RoutedInv
  BY DEF ApartParts
<1>0. UNCHANGED <<orgAnswer, orgCall, requests, applied>>
  BY DEF RouteList, RouteCheck, Lost, Reply, Stamp, SettleNote, SettleClear, orgFiles
<1>1. HookInv' /\ CountInv' /\ Evaluating' = Evaluating /\ (Usable' <=> Usable)
  BY <1>0, RouterFrame
<1>2. ASSUME router'.at \in {"idle", "listed", "ask"}, orgPending'.routed => Usable,
             router'.p.routed => Usable,
             \A c \in DOMAIN orgCall : orgCall[c].p.routed => Usable
      PROVE  ApartParts'
  <2>1. RequestInv' /\ ApartInv'
    BY <1>a, <1>0, <1>2 DEF RequestInv, ApartInv, Writing
  <2>2. RoutedInv'
    BY <1>0, <1>1, <1>2 DEF RoutedInv
  <2> QED BY <1>1, <2>1, <2>2 DEF ApartParts
<1>3. ASSUME router.at \notin {"note", "clear"}
      PROVE  /\ orgPending.routed => Usable
             /\ router.p.routed => Usable
             /\ \A c \in DOMAIN orgCall : orgCall[c].p.routed => Usable
  BY <1>a, <1>3 DEF RoutedInv
<1>4. ASSUME router.at \notin {"note", "clear"}, router' = Waiting,
             orgPending' = orgPending \/ Usable
      PROVE  ApartParts'
  BY <1>2, <1>3, <1>4, ConstantsTyped
<1>5. CASE RouteList
  <2>1. router.at = "idle" /\ orgPending' = orgPending
    BY <1>5 DEF RouteList, orgFiles
  <2>2. router'.at = "listed" /\ router'.p = orgPending
    BY <1>5, RouterSteps DEF RouterBecomes
  <2> QED BY <1>2, <1>3, <2>1, <2>2
<1>6. CASE RouteCheck
  <2>1. router.at = "listed" /\ orgPending' = orgPending
    BY <1>6 DEF RouteCheck, orgFiles
  <2>2. CASE router' = Waiting
    BY <1>4, <2>1, <2>2
  <2>3. CASE RouterBecomes("ask", router.p, router.a)
    BY <1>2, <1>3, <2>1, <2>3 DEF RouterBecomes
  <2> QED BY <1>6, <2>2, <2>3, RouterSteps
<1>7. CASE Lost
  <2>1. router.at \in {"ask", "waiting"} /\ orgPending' = orgPending /\ router' = Waiting
    BY <1>7 DEF Lost, orgFiles
  <2> QED BY <1>4, <2>1
\* Where the daemon goes on to write, no hook is evaluating.
<1>8. ASSUME router.at \in {"waiting", "stamp"}, Evaluating = {}, router'.a = router.a,
             router'.p = router.p, Usable,
             router'.at = "stamp" \/ (router'.at = "put" /\ router.a.status \in Answers)
      PROVE  ApartParts'
  <2>1. RequestInv'
    BY <1>a, <1>0, <1>8 DEF RequestInv
  <2>2. ApartInv'
    BY <1>1, <1>8 DEF ApartInv
  <2>3. RoutedInv'
    BY <1>a, <1>0, <1>1, <1>8 DEF RoutedInv
  <2> QED BY <1>1, <2>1, <2>2, <2>3 DEF ApartParts
<1>9. CASE Reply
  <2>1. router.at = "waiting" /\ Evaluating = {} /\ orgPending' = orgPending
    BY <1>9 DEF Reply, orgFiles, Apart
  <2>2. Usable
    BY <1>a, <2>1 DEF RoutedInv
  <2>3. CASE router' = Waiting
    BY <1>4, <2>1, <2>3
  <2>4. CASE RouterBecomes("stamp", router.p, router.a)
    BY <1>8, <2>1, <2>2, <2>4 DEF RouterBecomes
  <2>5. CASE router.a.status \in Answers /\ RouterBecomes("put", router.p, router.a)
    BY <1>8, <2>1, <2>2, <2>5 DEF RouterBecomes
  <2> QED BY <1>9, <2>3, <2>4, <2>5, RouterSteps
<1>10. CASE Stamp
  <2>1. router.at = "stamp"
    BY <1>10 DEF Stamp
  <2>2. Usable /\ Evaluating = {}
    BY <1>a, <2>1 DEF RoutedInv, ApartInv, Writing
  <2>3. CASE router' = Waiting
    BY <1>4, <2>1, <2>2, <2>3
  <2>4. CASE router.a.status \in Answers /\ RouterBecomes("put", router.p, router.a)
    BY <1>8, <2>1, <2>2, <2>4 DEF RouterBecomes
  <2> QED BY <1>10, <2>3, <2>4, RouterSteps
<1>11. CASE SettleNote
  <2>1. router.at = "note" /\ orgPending' = orgPending
    BY <1>11 DEF SettleNote, orgFiles
  <2>2. router'.at = "clear"
    BY <1>11, RouterSteps DEF RouterBecomes
  <2>3. Evaluating = {}
    BY <1>a, <2>1 DEF ApartInv, Writing
  <2>4. RequestInv' /\ ApartInv' /\ RoutedInv'
    BY <1>a, <1>0, <1>1, <2>2, <2>3 DEF RequestInv, ApartInv, RoutedInv
  <2> QED BY <1>1, <2>4 DEF ApartParts
\* The decision is cleared, and no hook holds a copy of it.
<1>12. CASE SettleClear
  <2>1. router.at = "clear" /\ orgPending' = NotPending /\ router' = Waiting
    BY <1>12 DEF SettleClear
  <2>2. Evaluating = {}
    BY <1>a, <2>1 DEF ApartInv, Writing
  <2>3. \A c \in DOMAIN orgCall : orgCall[c].p = NotPending
    BY <1>a, <2>2 DEF HookInv, Evaluating
  <2> QED BY <1>2, <2>1, <2>3, ConstantsTyped
<1> QED BY <1>5, <1>6, <1>7, <1>9, <1>10, <1>11, <1>12

\* A request is answered, or expires, once.
LEMMA RequestKeeps ==
  ASSUME OrgType, Apart, ApartParts, OrgType', Approver \/ Expire
  PROVE  ApartParts'
PROOF
<1>a. RequestInv /\ HookInv /\ ApartInv /\ RoutedInv /\ CountInv
  BY DEF ApartParts
<1> DEFINE L == Len(requests)
<1>0. UNCHANGED <<orgPending, orgAnswer, orgCall, router, applied>>
  BY DEF Approver, Expire, orgFiles
<1>1. /\ L \in DOMAIN requests /\ requests[L].status = "pending" /\ Len(requests') = L
      /\ \A i \in DOMAIN requests \ {L} : requests'[i] = requests[i]
      /\ requests'[L].n = requests[L].n
      /\ \/ requests'[L].status \in Answers /\ requests'[L].scope \in {"once", "session"}
         \/ requests'[L].status = "expired" /\ requests'[L].scope = requests[L].scope
  BY LatestSettled
<1>2. DOMAIN requests' = DOMAIN requests /\ requests' # << >> /\ requests # << >>
  <2>1. requests \in Seq(RequestRow) /\ requests' \in Seq(RequestRow)
    BY DEF OrgType
  <2> QED BY <1>1, <2>1
<1>3. L \notin applied
  BY <1>a, <1>1 DEF RequestInv, Answers
<1> HIDE DEF L
<1>4. RequestInv'
  <2>1. ASSUME NEW i \in DOMAIN requests
        PROVE  /\ requests'[i].n = i /\ requests'[i].status # "none"
               /\ requests'[i].status \in Answers <=> requests'[i].scope # "none"
    <3>1. CASE i = L
      BY <1>a, <1>1, <3>1 DEF RequestInv, Answers
    <3>2. CASE i # L
      BY <1>a, <1>1, <3>2 DEF RequestInv
    <3> QED BY <3>1, <3>2
  <2>2. \A i \in applied : i \in DOMAIN requests /\ requests'[i].status \in Answers
    BY <1>a, <1>1, <1>3 DEF RequestInv
  <2>3. router.at \in {"waiting", "stamp", "put"} =>
          /\ router.a.n \in DOMAIN requests
          /\ router.a.status \in Answers <=> router.a.scope # "none"
          /\ router.a.status \in Answers => requests'[router.a.n] = router.a
    <3>1. SUFFICES ASSUME router.at \in {"waiting", "stamp", "put"}
                   PROVE  router.a.status \in Answers => router.a.n # L
      BY <1>a, <1>1 DEF RequestInv
    <3> QED BY <1>a, <1>1, <3>1 DEF RequestInv, Answers
  <2> QED BY <1>a, <1>0, <1>2, <2>1, <2>2, <2>3 DEF RequestInv
<1>5. Usable'
  BY <1>0, <1>1, <1>2, <1>3 DEF Usable, L
<1>6. HookInv' /\ ApartInv'
  BY <1>a, <1>0 DEF HookInv, ApartInv, Writing, Evaluating
<1>7. RoutedInv'
  BY <1>a, <1>0, <1>5 DEF RoutedInv
<1>8. CountInv'
  <2>1. Spent' \subseteq Spent /\ Outstanding' = Outstanding
    BY <1>0 DEF Spent, Outstanding
  <2>2. Settled \subseteq Settled'
    <3>1. \A i \in Settled : i \in applied /\ i \in DOMAIN requests /\ i # L
      BY <1>3 DEF Settled, Given
    <3> QED BY <1>0, <1>1, <1>2, <3>1 DEF Settled, Given
  <2>3. Outstanding' <= Outstanding
    BY <2>1 DEF Outstanding
  <2> QED BY <1>a, <1>4, <2>1, <2>2, <2>3, CountKept
<1> QED BY <1>4, <1>6, <1>7, <1>8 DEF ApartParts

\* No step was approved.
LEMMA OrgInvInit == OrgInit => OrgInv
PROOF
<1> SUFFICES ASSUME OrgInit PROVE OrgInv
  OBVIOUS
<1>1. OrgType
  BY OrgTypeInit
<1>2. /\ requests = << >> /\ applied = {} /\ router.at = "idle" /\ ~router.p.routed
      /\ ~orgPending.routed /\ Outstanding = 0
  BY ConstantsTyped DEF OrgInit, Outstanding, Unanswered
<1>3. \A c \in DOMAIN orgCall : /\ orgCall[c].at = "idle" /\ orgCall[c].p = NotPending
                                /\ orgCall[c].verdict = "none"
  BY DEF OrgInit
<1>4. RequestInv
  BY <1>2 DEF RequestInv
<1>5. HookInv /\ ApartInv
  BY <1>2, <1>3 DEF HookInv, ApartInv, Writing
<1>6. RoutedInv
  BY <1>2, <1>3, ConstantsTyped DEF RoutedInv
<1>7. CountInv
  <2>1. Spent = {} /\ Settled = {}
    BY <1>2, <1>3 DEF Spent, Settled
  <2> QED BY <1>2, <2>1, FS_EmptySet DEF CountInv
<1> QED BY <1>1, <1>4, <1>5, <1>6, <1>7 DEF OrgInv

\* Every step keeps the invariant.
LEMMA OrgInvStep == OrgInv /\ [OrgNext]_orgVars => OrgInv'
PROOF
<1> SUFFICES ASSUME OrgInv, [OrgNext]_orgVars PROVE OrgInv'
  OBVIOUS
<1>1. OrgType /\ OrgType'
  BY OrgTypeStep DEF OrgInv
<1>2. SUFFICES ASSUME Apart' PROVE ApartParts'
  BY <1>1 DEF OrgInv, ApartParts
<1>3. Apart
  BY <1>2 DEF Apart, OrgNext, orgVars
<1>4. ApartParts
  BY <1>3 DEF OrgInv, ApartParts
<1>5. CASE \E c \in DOMAIN orgCall : OrgGuard(c)
  BY <1>1, <1>3, <1>4, <1>5, HookKeeps
<1>6. CASE RouteApprovals
  BY <1>1, <1>3, <1>4, <1>6, AskKeeps, SettlePutKeeps, RouterKeeps DEF RouteApprovals
<1>7. CASE Lost
  BY <1>1, <1>3, <1>4, <1>7, RouterKeeps
<1>8. CASE RouterFails
  BY <1>3, <1>8 DEF RouterFails, Apart
<1>9. CASE Approver \/ Expire
  BY <1>1, <1>3, <1>4, <1>9, RequestKeeps
<1>10. CASE OrgTick \/ UNCHANGED orgVars
  <2>1. UNCHANGED <<orgPending, orgAnswer, orgCall, router, requests, applied>>
    BY <1>10 DEF OrgTick, orgVars, orgMoving, orgFiles
  <2>2. HookInv' /\ CountInv' /\ Evaluating' = Evaluating /\ (Usable' <=> Usable)
    BY <1>1, <1>4, <2>1, RouterFrame
  <2> QED BY <1>4, <2>1, <2>2 DEF ApartParts, RequestInv, ApartInv, RoutedInv, Writing
<1> QED BY <1>5, <1>6, <1>7, <1>8, <1>9, <1>10 DEF OrgNext

\* The approver's approvals for one step let no more steps through than were
\* given (ADR 0014: "A one-step approval is spent."), for every number of
\* calls, of requests and of lost messages, where no hook evaluates between
\* RouteApprovals' writes and none of them fails.
THEOREM OrgOneStepsApart == OrgSpec => []OrgOneStepApart
PROOF
<1>1. OrgInv => OrgOneStepApart
  <2> SUFFICES ASSUME OrgInv, Apart PROVE OrgOneStepEach
    BY DEF OrgOneStepApart, Apart
  <2>1. OrgType /\ RequestInv /\ HookInv /\ CountInv
    BY DEF OrgInv
  <2>2. Counted
    BY <2>1, CountedFinite
  <2>3. OneSteps \subseteq Spent /\ Settled \subseteq Given("once")
    BY <2>1 DEF OneSteps, Spent, Settled, HookInv
  <2>4. IsFiniteSet(OneSteps) /\ Cardinality(OneSteps) <= Cardinality(Spent)
    BY <2>2, <2>3, FS_Subset DEF Counted
  <2>5. Cardinality(Settled) <= Cardinality(Given("once"))
    BY <2>2, <2>3, FS_Subset DEF Counted
  <2>6. /\ Cardinality(OneSteps) \in Nat /\ Cardinality(Given("once")) \in Nat
        /\ Cardinality(Spent) \in Nat /\ Cardinality(Settled) \in Nat /\ Outstanding \in {0, 1}
    BY <2>2, <2>4, FS_CardinalityType DEF Counted
  <2>7. Cardinality(Spent) + Outstanding <= Cardinality(Settled)
    BY <2>1 DEF CountInv
  <2>8. Cardinality(OneSteps) <= Cardinality(Given("once"))
    BY <2>4, <2>5, <2>6, <2>7
  <2> QED BY <2>8 DEF OrgOneStepEach
<1> QED BY <1>1, OrgInvInit, OrgInvStep, PTL DEF OrgSpec
=============================================================================
