----------------------- MODULE BoundaryApprovalProofs -----------------------
(***************************************************************************)
(* Proofs about BoundaryApproval, for any number of tool calls, any        *)
(* installation, any number of answers and any life of an answer.          *)
(***************************************************************************)
EXTENDS BoundaryApproval, FiniteSetTheorems, SequenceTheorems, TLAPS

-----------------------------------------------------------------------------
(***************************************************************************)
(* Types.                                                                  *)
(***************************************************************************)

Scopes   == {"none", "once", "session"}
Stages   == {"none", "applied", "accepted", "proposed"}
Verdicts == {"none", "pass", "ask", "held", "declined", "failed"}
Tools    == Calls \cup {NoCall}
Places   == {"idle", "answer", "check", "spend", "retire", "renew", "apply", "allow", "refuse",
             "note", "prompt", "settle", "accept", "raise", "put", "propose", "save", "returned"}

Answers   == [approved : BOOLEAN, scope : Scopes, at : Nat, challenge : Nat, tool : Tools]
Pendings  == [tool : Tools, challenge : Nat]
Hooks     == [at : Places, t : Nat, rec : Stages, changed : BOOLEAN, a : Answers,
              p : Pendings, verdict : Verdicts]
Operators == [at : {"away", "signed", "decided", "answered"},
              d : [approved : BOOLEAN, scope : Scopes], challenge : Nat]
Outcomes  == {"unseen", "ran", "declined", "stopped", "hook"}

\* The types, and what goes with a place: only a call that has decided has a
\* verdict, an operator who is at it has one of the installation's answers.
ApprovalType ==
  /\ setup \in Setups
  /\ answer \in Answers /\ pending \in Pendings /\ recorded \in Stages
  /\ hook \in [Calls -> Hooks] /\ outcome \in [Calls -> Outcomes]
  /\ operator \in Operators
  /\ now \in Nat /\ given \in Seq(Answers) /\ minted \in Nat
  /\ \A c \in Calls : hook[c].at \notin {"save", "returned"} => hook[c].verdict = "none"
  /\ operator.at # "away" => operator.d \in setup.decisions

\* Call c's Guard goes on to a place; t is set by Load alone.
Becomes(c, place, t, rec, a, p, v) ==
  /\ hook'[c].at = place /\ hook'[c].t = t /\ hook'[c].rec = rec /\ hook'[c].a = a
  /\ hook'[c].p = p /\ hook'[c].verdict = v

\* Where GetAnswer goes.
AfterAnswer(c) ==
  IF ~Honoured(answer, hook[c].t) THEN Raising
  ELSE IF answer.approved THEN "check"
  ELSE IF answer.scope = "once" THEN "spend" ELSE "save"

VerdictOfAnswer(c) ==
  IF /\ Honoured(answer, hook[c].t) /\ ~answer.approved /\ answer.scope = "session"
  THEN "declined" ELSE hook[c].verdict

AfterCheck(c) ==
  IF ~PresenceHolds(hook[c].a) THEN "refuse"
  ELSE IF hook[c].a.scope = "once" THEN "spend" ELSE "allow"

\* What settlePrompt sees of the call the pending decision names.
Seen(c) == IF pending.tool \in {NoCall, c} THEN "unseen" ELSE Classify(outcome[pending.tool])

PromptAnswer(c) ==
  [approved |-> TRUE, scope |-> "session", at |-> hook[c].t, challenge |-> 0,
   tool |-> hook[c].p.tool]

\* A step of one call's Guard leaves the other hook processes where they are,
\* and its own a hook process.
LEMMA Elsewhere ==
  ASSUME NEW c \in Calls, hook \in [Calls -> Hooks], Guard(c)
  PROVE  /\ \A d \in Calls \ {c} : hook'[d] = hook[d]
         /\ hook' = [d \in Calls |-> hook'[d]]
         /\ hook'[c] = [at |-> hook'[c].at, t |-> hook'[c].t, rec |-> hook'[c].rec,
                        changed |-> hook'[c].changed, a |-> hook'[c].a, p |-> hook'[c].p,
                        verdict |-> hook'[c].verdict]
         /\ hook'[c].changed \in BOOLEAN
<1>1. CASE Load(c) \/ GetAnswer(c) \/ Check(c) \/ Spend(c) \/ Retire(c) \/ Renew(c)
  BY <1>1 DEF Hooks, Load, GetAnswer, Check, Spend, Retire, Renew, Goto, Decided
<1>2. CASE Apply(c) \/ Allow(c) \/ Refuse(c) \/ NoteRefusal(c) \/ SettlePrompt(c) \/ Settle(c)
  BY <1>2 DEF Hooks, Apply, Allow, Refuse, NoteRefusal, SettlePrompt, Settle, Goto, Decided,
              RecordOnce
<1>3. CASE Accept(c) \/ Raise(c) \/ PutPending(c) \/ Propose(c)
  BY <1>3 DEF Hooks, Accept, Raise, PutPending, Propose, RecordOnce
<1>4. CASE Save(c)
  BY <1>4 DEF Hooks, Save, Return, NoHook
<1>5. CASE Fail(c)
  BY <1>5 DEF Hooks, Fail, Return, NoHook
<1> QED BY <1>1, <1>2, <1>3, <1>4, <1>5 DEF Guard

\* What each step of Guard makes of its hook process, up to the use of an answer.
LEMMA Answering ==
  ASSUME NEW c \in Calls, hook \in [Calls -> Hooks]
  PROVE  LET h == hook[c] IN
    /\ Load(c) => Becomes(c, "answer", now, recorded, h.a, h.p, h.verdict)
    /\ GetAnswer(c) =>
         Becomes(c, AfterAnswer(c), h.t, h.rec, answer, h.p, VerdictOfAnswer(c))
    /\ Check(c) => Becomes(c, AfterCheck(c), h.t, h.rec, h.a, h.p, h.verdict)
    /\ Spend(c) =>
         IF answer # NoAnswer /\ ~h.a.approved
         THEN Becomes(c, "save", h.t, h.rec, h.a, h.p, "declined")
         ELSE Becomes(c, IF answer = NoAnswer THEN Raising ELSE "retire", h.t, h.rec,
                      h.a, h.p, h.verdict)
    /\ Retire(c) => Becomes(c, IF pending = NoPending THEN "apply" ELSE "renew", h.t, h.rec,
                            h.a, pending, h.verdict)
    /\ Renew(c) => Becomes(c, "apply", h.t, h.rec, h.a, NoPending, h.verdict)
    /\ Apply(c) => Becomes(c, "save", h.t, h.rec, h.a, h.p, "pass")
    /\ Allow(c) => Becomes(c, "save", h.t, "applied", h.a, h.p, "pass")
    /\ Refuse(c) => Becomes(c, "note", h.t, h.rec, h.a, h.p, h.verdict)
<1> DEFINE h == hook[c]
<1> USE DEF Becomes, Hooks
<1>1. ASSUME Load(c)
      PROVE  Becomes(c, "answer", now, recorded, h.a, h.p, h.verdict)
  BY <1>1 DEF Load
<1>2. ASSUME GetAnswer(c)
      PROVE Becomes(c, AfterAnswer(c), h.t, h.rec, answer, h.p, VerdictOfAnswer(c))
  BY <1>2 DEF GetAnswer, AfterAnswer, VerdictOfAnswer
<1>3. ASSUME Check(c)
      PROVE  Becomes(c, AfterCheck(c), h.t, h.rec, h.a, h.p, h.verdict)
  BY <1>3 DEF Check, Goto, AfterCheck
<1>4. ASSUME Spend(c), answer # NoAnswer, ~h.a.approved
      PROVE  Becomes(c, "save", h.t, h.rec, h.a, h.p, "declined")
  BY <1>4 DEF Spend, Decided
<1>5. ASSUME Spend(c), ~(answer # NoAnswer /\ ~h.a.approved)
      PROVE  Becomes(c, IF answer = NoAnswer THEN Raising ELSE "retire", h.t, h.rec,
                     h.a, h.p, h.verdict)
  BY <1>5 DEF Spend, Goto
<1>6. ASSUME Retire(c)
      PROVE  Becomes(c, IF pending = NoPending THEN "apply" ELSE "renew", h.t, h.rec,
                     h.a, pending, h.verdict)
  BY <1>6 DEF Retire
<1>7. ASSUME Renew(c)
      PROVE  Becomes(c, "apply", h.t, h.rec, h.a, NoPending, h.verdict)
  BY <1>7 DEF Renew
<1>8. ASSUME Apply(c)
      PROVE  Becomes(c, "save", h.t, h.rec, h.a, h.p, "pass")
  BY <1>8 DEF Apply, Decided
<1>9. ASSUME Allow(c)
      PROVE  Becomes(c, "save", h.t, "applied", h.a, h.p, "pass")
  BY <1>9 DEF Allow, RecordOnce
<1>10. ASSUME Refuse(c)
       PROVE  Becomes(c, "note", h.t, h.rec, h.a, h.p, h.verdict)
  BY <1>10 DEF Refuse, Goto
<1> HIDE DEF Becomes
<1> QED BY <1>1, <1>2, <1>3, <1>4, <1>5, <1>6, <1>7, <1>8, <1>9, <1>10

\* The same from there on.
LEMMA Binding ==
  ASSUME NEW c \in Calls, hook \in [Calls -> Hooks]
  PROVE  LET h == hook[c] IN
    /\ NoteRefusal(c) => Becomes(c, Raising, h.t, h.rec, h.a, h.p, h.verdict)
    /\ SettlePrompt(c) => Becomes(c, IF Seen(c) = "ran" THEN "settle" ELSE "raise", h.t, h.rec,
                                  h.a, pending, h.verdict)
    /\ Settle(c) => Becomes(c, "accept", h.t, h.rec, PromptAnswer(c), NoPending, h.verdict)
    /\ Accept(c) => Becomes(c, "save", h.t, "accepted", h.a, h.p, "pass")
    /\ Raise(c) => Becomes(c, "put", h.t, h.rec, h.a, pending, h.verdict)
    /\ PutPending(c) => Becomes(c, "propose", h.t, h.rec, h.a, NoPending, h.verdict)
    /\ Propose(c) => Becomes(c, "save", h.t, "proposed", h.a, h.p,
                             IF Prompt THEN "ask" ELSE "held")
    /\ Save(c) => Becomes(c, "returned", h.t, "none", h.a, NoPending, h.verdict)
    /\ Fail(c) => Becomes(c, "returned", h.t, "none", h.a, NoPending, "failed")
<1> DEFINE h == hook[c]
<1> USE DEF Becomes, Hooks
<1>1. ASSUME NoteRefusal(c)
      PROVE  Becomes(c, Raising, h.t, h.rec, h.a, h.p, h.verdict)
  BY <1>1 DEF NoteRefusal, Goto
<1>2. ASSUME SettlePrompt(c)
      PROVE  Becomes(c, IF Seen(c) = "ran" THEN "settle" ELSE "raise", h.t, h.rec, h.a, pending,
                     h.verdict)
  BY <1>2 DEF SettlePrompt, Seen
<1>3. ASSUME Settle(c)
      PROVE  Becomes(c, "accept", h.t, h.rec, PromptAnswer(c), NoPending, h.verdict)
  BY <1>3 DEF Settle, PromptAnswer
<1>4. ASSUME Accept(c)
      PROVE  Becomes(c, "save", h.t, "accepted", h.a, h.p, "pass")
  BY <1>4 DEF Accept
<1>5. ASSUME Raise(c)
      PROVE  Becomes(c, "put", h.t, h.rec, h.a, pending, h.verdict)
  BY <1>5 DEF Raise
<1>6. ASSUME PutPending(c)
      PROVE  Becomes(c, "propose", h.t, h.rec, h.a, NoPending, h.verdict)
  BY <1>6 DEF PutPending
<1>7. ASSUME Propose(c)
      PROVE  Becomes(c, "save", h.t, "proposed", h.a, h.p, IF Prompt THEN "ask" ELSE "held")
  BY <1>7 DEF Propose, RecordOnce
<1>8. ASSUME Save(c)
      PROVE  Becomes(c, "returned", h.t, "none", h.a, NoPending, h.verdict)
  BY <1>8 DEF Save, Return, NoHook
<1>9. ASSUME Fail(c)
      PROVE  Becomes(c, "returned", h.t, "none", h.a, NoPending, "failed")
  BY <1>9 DEF Fail, Return, NoHook
<1> HIDE DEF Becomes
<1> QED BY <1>1, <1>2, <1>3, <1>4, <1>5, <1>6, <1>7, <1>8, <1>9

\* No file, no hook and no prompt yet.
LEMMA TypeInit == Init => ApprovalType
<1> SUFFICES ASSUME Init PROVE ApprovalType
  OBVIOUS
<1>1. NoAnswer \in Answers /\ NoPending \in Pendings
  BY DEF NoAnswer, Answers, NoPending, Pendings, Scopes, Tools
<1>2. NoHook \in Hooks /\ NoHook.verdict = "none"
  BY <1>1 DEF NoHook, Hooks, Places, Stages, Verdicts
<1>3. Away \in Operators /\ Away.at = "away"
  BY DEF Away, Operators, Scopes
<1>4. given \in Seq(Answers)
  BY EmptySeq DEF Init
<1> QED BY <1>1, <1>2, <1>3, <1>4 DEF Init, ApprovalType, Stages, Outcomes

\* The hook processes keep their types, and only a call that has decided has a
\* verdict.
LEMMA HooksTyped ==
  ASSUME ApprovalType, NEW c \in Calls, Guard(c)
  PROVE  /\ hook' \in [Calls -> Hooks]
         /\ \A d \in Calls : hook'[d].at \notin {"save", "returned"} => hook'[d].verdict = "none"
<1> DEFINE h == hook[c]
<1> DEFINE g == hook'[c]
<1>1. /\ hook \in [Calls -> Hooks]
      /\ h.at \in Places /\ h.t \in Nat /\ h.rec \in Stages
      /\ h.a \in Answers /\ h.p \in Pendings /\ h.verdict \in Verdicts
      /\ h.at \notin {"save", "returned"} => h.verdict = "none"
      /\ answer \in Answers /\ pending \in Pendings /\ recorded \in Stages /\ now \in Nat
  BY DEF ApprovalType, Hooks
<1>2. NoAnswer \in Answers /\ NoPending \in Pendings /\ Raising \in {"prompt", "raise"}
  BY DEF NoAnswer, Answers, NoPending, Pendings, Scopes, Tools, Raising
<1>3. SUFFICES /\ g.at \in Places /\ g.t \in Nat /\ g.rec \in Stages /\ g.a \in Answers
               /\ g.p \in Pendings /\ g.verdict \in Verdicts
               /\ g.at \notin {"save", "returned"} => g.verdict = "none"
  <2>1. /\ \A d \in Calls \ {c} : hook'[d] = hook[d]
        /\ hook' = [d \in Calls |-> hook'[d]]
        /\ g = [at |-> g.at, t |-> g.t, rec |-> g.rec, changed |-> g.changed, a |-> g.a,
                p |-> g.p, verdict |-> g.verdict]
        /\ g.changed \in BOOLEAN
    BY <1>1, Elsewhere
  <2>2. g \in Hooks
    BY <1>3, <2>1 DEF Hooks
  <2>3. \A d \in Calls : hook'[d] \in Hooks
    BY <1>1, <2>1, <2>2
  <2>4. hook' \in [Calls -> Hooks]
    BY <2>1, <2>3
  <2> QED BY <1>3, <2>1, <2>4 DEF ApprovalType
<1> USE DEF Places, Verdicts, Stages
<1>4. CASE Load(c)
  <2>1. h.verdict = "none"
    BY <1>1, <1>4 DEF Load
  <2> QED BY <1>1, <1>4, <2>1, Answering DEF Becomes
<1>5. CASE GetAnswer(c)
  <2>1. /\ AfterAnswer(c) \in {"prompt", "raise", "check", "spend", "save"}
        /\ VerdictOfAnswer(c) \in {"declined", "none"}
        /\ VerdictOfAnswer(c) = "declined" => AfterAnswer(c) = "save"
    BY <1>1, <1>2, <1>5 DEF AfterAnswer, VerdictOfAnswer, GetAnswer
  <2> QED BY <1>1, <1>5, <2>1, Answering DEF Becomes
<1>6. CASE Check(c)
  <2>1. AfterCheck(c) \in {"refuse", "spend", "allow"} /\ h.verdict = "none"
    BY <1>1, <1>6 DEF AfterCheck, Check
  <2> QED BY <1>1, <1>6, <2>1, Answering DEF Becomes
<1>7. CASE Spend(c) \/ Retire(c) \/ Renew(c) \/ Refuse(c)
  <2>1. h.verdict = "none"
    BY <1>1, <1>7 DEF Spend, Retire, Renew, Refuse
  <2> QED BY <1>1, <1>2, <1>7, <2>1, Answering DEF Becomes
<1>8. CASE Apply(c) \/ Allow(c)
  BY <1>1, <1>8, Answering DEF Becomes
<1>9. CASE NoteRefusal(c) \/ SettlePrompt(c) \/ Raise(c) \/ PutPending(c)
  <2>1. h.verdict = "none"
    BY <1>1, <1>9 DEF NoteRefusal, SettlePrompt, Raise, PutPending
  <2> QED BY <1>1, <1>2, <1>9, <2>1, Binding DEF Becomes
<1>10. CASE Settle(c)
  <2>1. h.verdict = "none"
    BY <1>1, <1>10 DEF Settle
  <2>2. PromptAnswer(c) \in Answers
    BY <1>1 DEF PromptAnswer, Answers, Pendings, Scopes
  <2> QED BY <1>1, <1>2, <1>10, <2>1, <2>2, Binding DEF Becomes
<1>11. CASE Accept(c) \/ Propose(c) \/ Save(c) \/ Fail(c)
  BY <1>1, <1>2, <1>11, Binding DEF Becomes
<1> QED BY <1>4, <1>5, <1>6, <1>7, <1>8, <1>9, <1>10, <1>11 DEF Guard

\* Every step keeps the types.
LEMMA TypeStep == ApprovalType /\ [Next]_vars => ApprovalType'
<1> SUFFICES ASSUME ApprovalType, [Next]_vars PROVE ApprovalType'
  OBVIOUS
<1>1. NoAnswer \in Answers
  BY DEF NoAnswer, Answers, Scopes, Tools
<1>2. ASSUME NEW c \in Calls, Guard(c) PROVE ApprovalType'
  <2>1. /\ hook' \in [Calls -> Hooks]
        /\ \A d \in Calls : hook'[d].at \notin {"save", "returned"} => hook'[d].verdict = "none"
    BY <1>2, HooksTyped
  <2>2. hook[c].p \in Pendings /\ hook[c].t \in Nat /\ hook[c].rec \in Stages
    BY DEF ApprovalType, Hooks
  <2>3. UNCHANGED <<setup, outcome, operator, now>>
    BY <1>2 DEF Guard, Load, GetAnswer, Check, Spend, Retire, Renew, Apply, Allow, Refuse,
         NoteRefusal, SettlePrompt, Settle, Accept, Raise, PutPending, Propose, Save, Fail, world
  <2>4. answer' \in Answers /\ given' \in Seq(Answers)
    <3>1. CASE Settle(c)
      <4>1. PromptAnswer(c) \in Answers
        BY <2>2 DEF PromptAnswer, Answers, Pendings, Scopes
      <4> QED BY <3>1, <4>1, AppendProperties DEF Settle, Put, PromptAnswer, ApprovalType
    <3>2. CASE ~Settle(c)
      BY <1>1, <1>2, <3>2 DEF ApprovalType, Guard, Load, GetAnswer, Check, Spend, Retire, Renew,
           Apply, Allow, Refuse, NoteRefusal, SettlePrompt, Accept, Raise, PutPending, Propose,
           Save, Fail, files, notes
    <3> QED BY <3>1, <3>2
  <2>5. pending' \in Pendings /\ minted' \in Nat
    <3>1. CASE Renew(c)
      <4>1. minted' = minted + 1 /\ pending' = [hook[c].p EXCEPT !.challenge = minted + 1]
        BY <3>1 DEF Renew
      <4> QED BY <2>2, <4>1 DEF Pendings, ApprovalType
    <3>2. CASE PutPending(c)
      <4>1. Keep(hook[c].p) \in Nat
        BY <2>2 DEF Keep, Pendings, ApprovalType
      <4> QED BY <3>2, <4>1 DEF PutPending, Pendings, ApprovalType, Tools
    <3>3. CASE ~Renew(c) /\ ~PutPending(c)
      BY <1>2, <3>3 DEF ApprovalType, Guard, Load, GetAnswer, Check, Spend, Retire, Apply, Allow,
           Refuse, NoteRefusal, SettlePrompt, Settle, Accept, Raise, Propose, Save, Fail, files,
           notes
    <3> QED BY <3>1, <3>2, <3>3
  <2>6. recorded' \in Stages
    BY <1>2, <2>2 DEF ApprovalType, Guard, Load, GetAnswer, Check, Spend, Retire, Renew, Apply,
         Allow, Refuse, NoteRefusal, SettlePrompt, Settle, Accept, Raise, PutPending, Propose,
         Save, Fail, files, RecordOnce
  <2> QED BY <2>1, <2>3, <2>4, <2>5, <2>6 DEF ApprovalType
<1>3. ASSUME NEW c \in Calls, Harness(c) PROVE ApprovalType'
  BY <1>3 DEF ApprovalType, Harness, Outcomes, files, notes
<1>4. ASSUME NEW d \in setup.decisions, Prepare(d) PROVE ApprovalType'
  <2>1. d \in [approved : BOOLEAN, scope : {"once", "session"}]
    BY SetupsAssumption DEF ApprovalType, Setup
  <2>2. operator' \in Operators /\ operator'.d \in setup.decisions
    <3>1. d \in [approved : BOOLEAN, scope : Scopes] /\ pending.challenge \in Nat
      BY <2>1 DEF ApprovalType, Pendings, Scopes
    <3>2. CASE Enforced /\ d.approved
      BY <1>4, <3>1, <3>2 DEF Prepare, Operators
    <3>3. CASE ~(Enforced /\ d.approved)
      BY <1>4, <3>1, <3>3 DEF Prepare, Operators
    <3> QED BY <3>2, <3>3
  <2> QED BY <1>4, <2>2 DEF ApprovalType, Prepare, files, notes
<1>5. CASE CheckAnswerProof
  BY <1>5 DEF ApprovalType, CheckAnswerProof, Operators, Away, Scopes, files, notes
<1>6. CASE Decide
  <2> DEFINE a == [approved |-> operator.d.approved, scope |-> operator.d.scope, at |-> now,
                   challenge |-> operator.challenge, tool |-> NoCall]
  <2>1. a \in Answers
    BY DEF ApprovalType, Operators, Answers, Tools
  <2>2. answer' = a /\ given' = Append(given, a)
    BY <1>6 DEF Decide, Put
  <2>3. given' \in Seq(Answers)
    BY <2>1, <2>2, AppendProperties DEF ApprovalType
  <2>4. operator' \in Operators /\ operator'.d = operator.d /\ operator.at = "decided"
    BY <1>6 DEF Decide, ApprovalType, Operators
  <2> QED BY <1>6, <2>1, <2>2, <2>3, <2>4 DEF ApprovalType, Decide
<1>7. CASE RecordAnswer
  BY <1>7 DEF ApprovalType, RecordAnswer, Operators, Away, Scopes, notes
<1>8. CASE Tick \/ Terminated \/ UNCHANGED vars
  BY <1>8 DEF ApprovalType, Tick, Terminated, vars, files, notes
<1> QED BY <1>2, <1>3, <1>4, <1>5, <1>6, <1>7, <1>8 DEF Next

-----------------------------------------------------------------------------
(***************************************************************************)
(* A call passes on a live approval.                                       *)
(***************************************************************************)

Given(a) == \E i \in DOMAIN given : given[i] = a

\* The answer call c holds was given, approves, and was young enough.
Young(c) ==
  hook[c].a.approved /\ Given(hook[c].a) /\ hook[c].t - hook[c].a.at <= TTL

\* Call c is on its way to pass, or has.
Approving(c) ==
  \/ hook[c].at \in {"check", "retire", "renew", "apply", "allow", "accept"}
  \/ hook[c].at = "spend" /\ hook[c].a.approved
  \/ hook[c].verdict = "pass"

PassInv ==
  /\ answer = NoAnswer \/ Given(answer)
  /\ \A c \in Calls : Approving(c) => Young(c)

\* A sequence that gets one element more keeps the others.
LEMMA Extended ==
  ASSUME NEW S, NEW s \in Seq(S), NEW e \in S
  PROVE  /\ DOMAIN s = 1 .. Len(s) /\ Len(s) \in Nat
         /\ DOMAIN Append(s, e) = 1 .. Len(s) + 1
         /\ \A i \in DOMAIN s : i \in DOMAIN Append(s, e) /\ Append(s, e)[i] = s[i]
         /\ Append(s, e)[Len(s) + 1] = e
BY AppendProperties, LenProperties

\* A step puts an answer or leaves the answers given alone.
LEMMA Gives ==
  ASSUME ApprovalType, [Next]_vars
  PROVE  \/ given' = given /\ answer' \in {answer, NoAnswer}
         \/ answer' \in Answers /\ given' = Append(given, answer')
<1>1. ASSUME NEW c \in Calls, Guard(c)
      PROVE  \/ given' = given /\ answer' \in {answer, NoAnswer}
             \/ given' = Append(given, answer')
  BY <1>1 DEF Guard, Load, GetAnswer, Check, Spend, Retire, Renew, Apply, Allow, Refuse,
       NoteRefusal, SettlePrompt, Settle, Accept, Raise, PutPending, Propose, Save, Fail, files,
       notes, Put
<1>2. ASSUME Decide PROVE given' = Append(given, answer')
  BY <1>2 DEF Decide, Put
<1>3. CASE \/ (\E c \in Calls : Harness(c)) \/ (\E d \in setup.decisions : Prepare(d))
           \/ CheckAnswerProof \/ RecordAnswer \/ Tick \/ Terminated \/ UNCHANGED vars
  BY <1>3 DEF Harness, Prepare, CheckAnswerProof, RecordAnswer, Tick, Terminated, vars, files,
              notes
<1>4. \/ given' = given /\ answer' \in {answer, NoAnswer}
      \/ given' = Append(given, answer')
  BY <1>1, <1>2, <1>3 DEF Next
<1>5. answer' \in Answers
  BY TypeStep DEF ApprovalType
<1> QED BY <1>4, <1>5

\* What was given stays given, and the answer on file was given.
LEMMA GivenStays ==
  ASSUME ApprovalType, [Next]_vars
  PROVE  /\ \A a : Given(a) => Given(a)'
         /\ (answer = NoAnswer \/ Given(answer)) => (answer' = NoAnswer \/ Given(answer)')
<1>1. CASE given' = given /\ answer' \in {answer, NoAnswer}
  BY <1>1 DEF Given
<1>2. CASE answer' \in Answers /\ given' = Append(given, answer')
  <2>1. /\ \A i \in DOMAIN given : i \in DOMAIN given' /\ given'[i] = given[i]
        /\ Len(given) + 1 \in DOMAIN given' /\ given'[Len(given) + 1] = answer'
    BY <1>2, Extended DEF ApprovalType
  <2> QED BY <2>1 DEF Given
<1> QED BY <1>1, <1>2, Gives

\* The hook processes that a step of another actor leaves alone.
LEMMA Still ==
  ASSUME [Next]_vars, ~(\E c \in Calls : Guard(c))
  PROVE  hook' = hook /\ UNCHANGED <<pending, recorded, minted, used, refused>>
BY DEF Next, Harness, Prepare, CheckAnswerProof, Decide, RecordAnswer, Tick, Terminated, vars,
       files, notes

\* Nothing has passed.
LEMMA PassInit == Init => PassInv
BY DEF Init, PassInv, Approving, NoHook

\* Every step keeps what lets a call through on an approval.
LEMMA PassStep == ApprovalType /\ PassInv /\ [Next]_vars => PassInv'
<1> SUFFICES ASSUME ApprovalType, PassInv, [Next]_vars PROVE PassInv'
  OBVIOUS
<1>1. /\ \A a : Given(a) => Given(a)'
      /\ answer' = NoAnswer \/ Given(answer)'
  BY GivenStays DEF PassInv
<1>2. CASE ~(\E c \in Calls : Guard(c))
  <2>1. hook' = hook
    BY <1>2, Still
  <2> QED BY <1>1, <2>1 DEF PassInv, Approving, Young
<1>3. ASSUME NEW c \in Calls, Guard(c) PROVE PassInv'
  <2> DEFINE h == hook[c]
  <2>1. /\ hook \in [Calls -> Hooks] /\ h.t \in Nat /\ Raising \in {"prompt", "raise"}
        /\ h.at \notin {"save", "returned"} => h.verdict = "none"
    BY DEF ApprovalType, Hooks, Raising
  <2>2. \A d \in Calls \ {c} : hook'[d] = hook[d]
    BY <1>3, <2>1, Elsewhere
  <2>3. SUFFICES Approving(c)' => Young(c)'
    BY <1>1, <2>2, <2>3 DEF PassInv, Approving, Young
  <2>4. ASSUME Approving(c), hook'[c].a = h.a, hook'[c].t = h.t PROVE Young(c)'
    BY <1>1, <2>4 DEF PassInv, Young
  <2>5. CASE Load(c)
    <3>1. h.verdict = "none"
      BY <2>1, <2>5 DEF Load
    <3> QED BY <2>1, <2>5, <3>1, Answering DEF Becomes, Approving
  <2>6. CASE GetAnswer(c)
    <3>1. Becomes(c, AfterAnswer(c), h.t, h.rec, answer, h.p, VerdictOfAnswer(c))
      BY <2>1, <2>6, Answering
    <3>2. h.verdict = "none"
      BY <2>1, <2>6 DEF GetAnswer
    <3>3. CASE Honoured(answer, h.t) /\ answer.approved
      <4>1. Given(answer) /\ h.t - answer.at <= TTL
        BY <3>3 DEF PassInv, Honoured
      <4> QED BY <1>1, <3>1, <3>3, <4>1 DEF Becomes, Young
    <3>4. CASE ~(Honoured(answer, h.t) /\ answer.approved)
      BY <2>1, <3>1, <3>2, <3>4 DEF Becomes, Approving, AfterAnswer, VerdictOfAnswer
    <3> QED BY <3>3, <3>4
  <2>7. CASE Check(c)
    BY <2>1, <2>4, <2>7, Answering DEF Becomes, Approving, Check
  <2>8. CASE Spend(c)
    <3>1. CASE ~h.a.approved \/ answer = NoAnswer
      BY <2>1, <2>8, <3>1, Answering DEF Becomes, Approving, Spend
    <3>2. CASE h.a.approved /\ answer # NoAnswer
      BY <2>1, <2>4, <2>8, <3>2, Answering DEF Becomes, Approving, Spend
    <3> QED BY <3>1, <3>2
  <2>9. CASE Retire(c) \/ Renew(c) \/ Apply(c) \/ Allow(c)
    <3>1. hook'[c].a = h.a /\ hook'[c].t = h.t
      BY <2>1, <2>9, Answering DEF Becomes
    <3> QED BY <2>4, <2>9, <3>1 DEF Approving, Retire, Renew, Apply, Allow
  <2>10. CASE Refuse(c)
    BY <2>1, <2>10, Answering DEF Becomes, Approving, Refuse
  <2>11. CASE NoteRefusal(c) \/ SettlePrompt(c) \/ Raise(c) \/ PutPending(c)
    <3>1. h.verdict = "none"
      BY <2>1, <2>11 DEF NoteRefusal, SettlePrompt, Raise, PutPending
    <3> QED BY <2>1, <2>11, <3>1, Binding DEF Becomes, Approving
  <2>12. CASE Settle(c)
    <3>1. hook'[c].a = PromptAnswer(c) /\ hook'[c].t = h.t
      BY <2>1, <2>12, Binding DEF Becomes
    <3>2. answer' = PromptAnswer(c) /\ answer' # NoAnswer
      BY <2>12 DEF Settle, Put, PromptAnswer, NoAnswer
    <3>3. PromptAnswer(c).approved /\ PromptAnswer(c).at = h.t
      BY DEF PromptAnswer
    <3>4. h.t - h.t <= TTL
      BY <2>1, TTLAssumption
    <3>5. hook'[c].a.approved /\ hook'[c].t - hook'[c].a.at <= TTL
      BY <3>1, <3>3, <3>4
    <3>6. hook'[c].a = answer' /\ Given(answer)'
      BY <1>1, <3>1, <3>2
    <3>7. Given(hook[c].a)'
      BY <3>6 DEF Given
    <3> QED BY <3>5, <3>7 DEF Young
  <2>13. CASE Accept(c)
    BY <2>1, <2>4, <2>13, Binding DEF Becomes, Approving, Accept
  <2>14. CASE Save(c)
    BY <2>1, <2>4, <2>14, Binding DEF Becomes, Approving, Save
  <2>15. CASE Propose(c) \/ Fail(c)
    BY <2>1, <2>15, Binding DEF Becomes, Approving
  <2> QED BY <1>3, <2>5, <2>6, <2>7, <2>8, <2>9, <2>10, <2>11, <2>12, <2>13, <2>14, <2>15
          DEF Guard
<1> QED BY <1>2, <1>3

-----------------------------------------------------------------------------
(***************************************************************************)
(* Verdicts are on record.                                                 *)
(***************************************************************************)

\* The stage a session's file, or a call's copy of it, names is in the ledger.
RecordInv ==
  /\ recorded = "none" \/ recorded \in ledger
  /\ \A c \in Calls : hook[c].rec = "none" \/ hook[c].rec \in ledger
  /\ DecisionsAreRecorded

\* No verdict yet.
LEMMA RecordInit == Init => RecordInv
BY DEF Init, RecordInv, DecisionsAreRecorded, NoHook

\* Every step keeps the verdicts recorded.
LEMMA RecordStep == ApprovalType /\ RecordInv /\ [Next]_vars => RecordInv'
<1> SUFFICES ASSUME ApprovalType, RecordInv, [Next]_vars PROVE RecordInv'
  OBVIOUS
<1>1. CASE ~(\E c \in Calls : Guard(c))
  <2>1. hook' = hook /\ recorded' = recorded
    BY <1>1, Still
  <2>2. ledger \subseteq ledger'
    BY <1>1 DEF Next, Harness, Prepare, CheckAnswerProof, Decide, RecordAnswer, Tick, Terminated,
                vars, files, Record
  <2> QED BY <2>1, <2>2 DEF RecordInv, DecisionsAreRecorded
<1>2. ASSUME NEW c \in Calls, Guard(c) PROVE RecordInv'
  <2> DEFINE h == hook[c]
  <2> DEFINE g == hook'[c]
  <2>1. /\ hook \in [Calls -> Hooks] /\ h.verdict \in Verdicts
        /\ h.at \notin {"save", "returned"} => h.verdict = "none"
    BY DEF ApprovalType, Hooks
  <2>2. \A d \in Calls \ {c} : hook'[d] = hook[d]
    BY <1>2, <2>1, Elsewhere
  <2>3. ledger \subseteq ledger' /\ recorded' \in {recorded, h.rec}
    BY <1>2 DEF Guard, Load, GetAnswer, Check, Spend, Retire, Renew, Apply, Allow, Refuse,
         NoteRefusal, SettlePrompt, Settle, Accept, Raise, PutPending, Propose, Save, Fail,
         files, Record, RecordOnce
  <2>4. SUFFICES /\ g.rec = "none" \/ g.rec \in ledger'
                 /\ g.verdict = "pass" => {"applied", "accepted"} \cap ledger' # {}
                 /\ g.verdict \in {"ask", "held"} => "proposed" \in ledger'
    BY <2>2, <2>3, <2>4 DEF RecordInv, DecisionsAreRecorded
  <2>5. /\ h.rec = "none" \/ h.rec \in ledger'
        /\ recorded = "none" \/ recorded \in ledger'
        /\ h.verdict = "pass" => {"applied", "accepted"} \cap ledger' # {}
        /\ h.verdict \in {"ask", "held"} => "proposed" \in ledger'
    BY <2>3 DEF RecordInv, DecisionsAreRecorded
  <2>6. CASE Load(c) \/ Check(c) \/ Retire(c) \/ Renew(c) \/ Refuse(c)
    BY <2>1, <2>5, <2>6, Answering DEF Becomes
  <2>7. CASE GetAnswer(c) \/ Spend(c)
    BY <2>1, <2>5, <2>7, Answering DEF Becomes, VerdictOfAnswer
  <2>8. CASE Apply(c)
    BY <2>1, <2>5, <2>8, Answering DEF Becomes, Apply, Record
  <2>9. CASE Allow(c)
    <3>1. "applied" \in ledger'
      BY <2>5, <2>9 DEF Allow, RecordOnce, Record
    <3> QED BY <2>1, <2>9, <3>1, Answering DEF Becomes
  <2>10. CASE NoteRefusal(c) \/ SettlePrompt(c) \/ Settle(c) \/ Raise(c) \/ PutPending(c)
    BY <2>1, <2>5, <2>10, Binding DEF Becomes
  <2>11. CASE Accept(c)
    <3>1. "accepted" \in ledger'
      BY <2>11 DEF Accept, Record
    <3> QED BY <2>1, <2>11, <3>1, Binding DEF Becomes
  <2>12. CASE Propose(c)
    <3>1. "proposed" \in ledger'
      BY <2>5, <2>12 DEF Propose, RecordOnce, Record
    <3> QED BY <2>1, <2>12, <3>1, Binding DEF Becomes
  <2>13. CASE Save(c) \/ Fail(c)
    BY <2>1, <2>5, <2>13, Binding DEF Becomes
  <2> QED BY <1>2, <2>6, <2>7, <2>8, <2>9, <2>10, <2>11, <2>12, <2>13 DEF Guard
<1> QED BY <1>1, <1>2

-----------------------------------------------------------------------------
(***************************************************************************)
(* The prompt's approvals.                                                 *)
(***************************************************************************)

\* Where somebody answers prompts, no evaluation fails open and no other hook
\* refuses in its own words: without this `approval_failed_open` is reachable.
Attended == Prompt => ~setup.mayFail /\ ~setup.otherHooks

\* Call c is about to be asked about, or was.
Asked(c) == Prompt /\ (hook[c].at = "propose" \/ hook[c].verdict = "ask")

\* A decision names only calls that were asked about; a call whose result is in
\* the transcript has returned; the call a settling Guard credits has run.
PromptInv ==
  /\ \A c \in Calls : outcome[c] # "unseen" => hook[c].at = "returned"
  /\ \A c \in Calls : outcome[c] = "hook" =>
       setup.otherHooks \/ hook[c].verdict \in {"held", "declined"}
  /\ \A c \in Calls : hook[c].at \in {"prompt", "settle"} => Prompt
  /\ Attended =>
     /\ pending.tool # NoCall => Asked(pending.tool)
     /\ \A c \in Calls : hook[c].p.tool # NoCall => Asked(hook[c].p.tool)
     /\ \A c \in Calls : hook[c].at = "settle" /\ hook[c].p.tool # NoCall =>
          outcome[hook[c].p.tool] = "ran"
     /\ PromptWasAnswered

\* No prompt yet.
LEMMA PromptInit == Init => PromptInv
BY DEF Init, PromptInv, PromptWasAnswered, NoHook, NoPending

\* A call's Guard has not returned when it takes a step, and leaves the world
\* around it alone.
LEMMA Running ==
  ASSUME ApprovalType, NEW c \in Calls, Guard(c)
  PROVE  /\ hook[c].at # "returned"
         /\ UNCHANGED <<setup, outcome, operator, now>>
BY DEF Guard, Load, GetAnswer, Check, Spend, Retire, Renew, Apply, Allow, Refuse, NoteRefusal,
       SettlePrompt, Settle, Accept, Raise, PutPending, Propose, Save, Fail, InFlight, world

\* The steps of a hook's Guard.
LEMMA PromptStepGuard ==
  ASSUME ApprovalType, PromptInv, [Next]_vars, NEW c \in Calls, Guard(c)
  PROVE  PromptInv'
<1> DEFINE h == hook[c]
<1> DEFINE g == hook'[c]
<1>1. /\ hook \in [Calls -> Hooks] /\ h.p \in Pendings /\ pending \in Pendings
      /\ h.at \notin {"save", "returned"} => h.verdict = "none"
      /\ outcome \in [Calls -> Outcomes] /\ given \in Seq(Answers)
  BY DEF ApprovalType, Hooks
<1>2. \A d \in Calls \ {c} : hook'[d] = hook[d]
  BY <1>1, Elsewhere
<1>3. h.at # "returned" /\ UNCHANGED <<setup, outcome>> /\ outcome[c] = "unseen"
  BY Running DEF PromptInv
<1>4. (Prompt' <=> Prompt) /\ (Attended' <=> Attended)
  BY <1>3 DEF Prompt, Attended
<1>5. /\ \A d \in Calls : outcome'[d] # "unseen" => hook'[d].at = "returned"
      /\ \A d \in Calls : outcome'[d] = "hook" =>
           setup'.otherHooks \/ hook'[d].verdict \in {"held", "declined"}
  BY <1>2, <1>3 DEF PromptInv
<1>6. g.at \in {"prompt", "settle"} => Prompt
  <2>1. Raising = "raise" \/ (Raising = "prompt" /\ Prompt)
    BY DEF Raising
  <2>2. CASE GetAnswer(c)
    BY <1>1, <2>1, <2>2, Answering DEF Becomes, AfterAnswer
  <2>3. CASE Load(c) \/ Spend(c) \/ Retire(c) \/ Renew(c) \/ Apply(c) \/ Allow(c) \/ Refuse(c)
    BY <1>1, <2>1, <2>3, Answering DEF Becomes
  <2>4. CASE Check(c)
    BY <1>1, <2>4, Answering DEF Becomes, AfterCheck
  <2>5. CASE SettlePrompt(c)
    BY <2>5 DEF SettlePrompt, PromptInv
  <2>6. CASE \/ NoteRefusal(c) \/ Settle(c) \/ Accept(c) \/ Raise(c) \/ PutPending(c)
             \/ Propose(c) \/ Save(c) \/ Fail(c)
    BY <1>1, <2>1, <2>6, Binding DEF Becomes
  <2> QED BY <2>2, <2>3, <2>4, <2>5, <2>6 DEF Guard
<1>7. ASSUME Attended
      PROVE  /\ pending'.tool # NoCall => Asked(pending.tool)'
             /\ \A d \in Calls : hook'[d].p.tool # NoCall => Asked(hook[d].p.tool)'
             /\ \A d \in Calls : hook'[d].at = "settle" /\ hook'[d].p.tool # NoCall =>
                  outcome'[hook'[d].p.tool] = "ran"
             /\ PromptWasAnswered'
  <2>1. ASSUME NEW d \in Calls, Asked(d)
        PROVE  Prompt' /\ (hook'[d].at = "propose" \/ hook'[d].verdict = "ask")
    <3>1. CASE d # c
      BY <1>2, <1>4, <2>1, <3>1 DEF Asked
    <3>2. CASE d = c
      <4>1. (Propose(c) /\ h.at = "propose") \/ (Save(c) /\ h.verdict = "ask")
        <5>1. ~Fail(c)
          BY <1>7, <2>1 DEF Asked, Attended, Fail
        <5>2. h.at = "propose" \/ h.at = "save"
          BY <1>1, <1>3, <2>1, <3>2 DEF Asked
        <5>3. Propose(c) \/ Save(c)
          BY <5>1, <5>2 DEF Guard, Load, GetAnswer, Check, Spend, Retire, Renew, Apply, Allow,
               Refuse, NoteRefusal, SettlePrompt, Settle, Accept, Raise, PutPending
        <5>4. Save(c) => h.at = "save"
          BY DEF Save
        <5>5. Propose(c) => h.at = "propose"
          BY DEF Propose
        <5> QED BY <2>1, <3>2, <5>3, <5>4, <5>5 DEF Asked
      <4> QED BY <1>1, <1>4, <2>1, <3>2, <4>1, Binding DEF Becomes, Asked
    <3> QED BY <3>1, <3>2
  <2> DEFINE Named(t) == t # NoCall =>
               t \in Calls /\ Prompt' /\ (hook'[t].at = "propose" \/ hook'[t].verdict = "ask")
  <2>2. Named(pending.tool) /\ \A d \in Calls : Named(hook[d].p.tool)
    <3>1. pending.tool \in Tools /\ \A d \in Calls : hook[d].p.tool \in Tools
      BY DEF ApprovalType, Hooks, Pendings
    <3> QED BY <1>7, <2>1, <3>1 DEF Tools, PromptInv
  <2>3. Named(pending'.tool)
    <3>1. CASE Renew(c)
      <4>1. pending'.tool = h.p.tool
        BY <1>1, <3>1 DEF Renew, Pendings
      <4> QED BY <2>2, <4>1
    <3>2. CASE PutPending(c)
      <4>1. pending'.tool = IF Prompt THEN c ELSE NoCall
        BY <3>2 DEF PutPending
      <4>2. g.at = "propose"
        BY <1>1, <3>2, Binding DEF Becomes
      <4> QED BY <1>4, <4>1, <4>2
    <3>3. CASE ~Renew(c) /\ ~PutPending(c)
      <4>1. pending' = pending
        BY <3>3 DEF Guard, Load, GetAnswer, Check, Spend, Retire, Apply, Allow, Refuse,
             NoteRefusal, SettlePrompt, Settle, Accept, Raise, Propose, Save, Fail, files
      <4> QED BY <2>2, <4>1
    <3> QED BY <3>1, <3>2, <3>3
  <2>4. g.p \in {h.p, pending, NoPending}
    <3>1. CASE \/ Load(c) \/ GetAnswer(c) \/ Check(c) \/ Spend(c) \/ Retire(c) \/ Renew(c)
               \/ Apply(c) \/ Allow(c) \/ Refuse(c)
      BY <1>1, <3>1, Answering DEF Becomes
    <3>2. CASE \/ NoteRefusal(c) \/ SettlePrompt(c) \/ Settle(c) \/ Accept(c) \/ Raise(c)
               \/ PutPending(c) \/ Propose(c) \/ Save(c) \/ Fail(c)
      BY <1>1, <3>2, Binding DEF Becomes
    <3> QED BY <3>1, <3>2 DEF Guard
  <2>5. \A d \in Calls : Named(hook'[d].p.tool)
    BY <1>2, <2>2, <2>4 DEF NoPending
  <2>6. ASSUME NEW d \in Calls, hook'[d].at = "settle", hook'[d].p.tool # NoCall
        PROVE  outcome'[hook'[d].p.tool] = "ran"
    <3>1. CASE d # c
      BY <1>2, <1>3, <1>7, <2>6, <3>1 DEF PromptInv
    <3>2. CASE d = c
      <4>1. SettlePrompt(c) /\ Seen(c) = "ran" /\ g.p = pending
        <5>1. CASE \/ Load(c) \/ Spend(c) \/ Retire(c) \/ Renew(c) \/ Apply(c) \/ Allow(c)
                   \/ Refuse(c) \/ GetAnswer(c) \/ Check(c)
          BY <1>1, <2>6, <3>2, <5>1, Answering DEF Becomes, AfterAnswer, AfterCheck, Raising
        <5>2. CASE SettlePrompt(c)
          BY <1>1, <2>6, <3>2, <5>2, Binding DEF Becomes
        <5>3. CASE \/ NoteRefusal(c) \/ Settle(c) \/ Accept(c) \/ Raise(c) \/ PutPending(c)
                   \/ Propose(c) \/ Save(c) \/ Fail(c)
          BY <1>1, <2>6, <3>2, <5>3, Binding DEF Becomes, Raising
        <5> QED BY <5>1, <5>2, <5>3 DEF Guard
      <4> DEFINE tool == pending.tool
      <4>2. tool \in Calls /\ tool # c /\ outcome[tool] \in {"ran", "hook"}
        BY <1>1, <4>1 DEF Seen, Classify, Pendings, Tools, Outcomes
      <4>3. Prompt /\ ~setup.otherHooks
        BY <1>7, <4>1 DEF SettlePrompt, PromptInv, Attended
      <4>4. Asked(tool) /\ hook[tool].at = "returned"
        BY <1>7, <2>6, <3>2, <4>1, <4>2 DEF PromptInv
      <4>5. outcome[tool] # "hook"
        BY <4>2, <4>3, <4>4 DEF PromptInv, Asked
      <4> QED BY <1>3, <3>2, <4>1, <4>2, <4>5
    <3> QED BY <3>1, <3>2
  <2>7. PromptWasAnswered'
    <3>1. \A d \in Calls : hook[d].verdict = "ask" /\ outcome[d] = "ran" =>
            hook'[d].verdict = "ask" /\ outcome'[d] = "ran"
      BY <1>2, <1>3
    <3>2. \A i \in DOMAIN given : given[i].tool # NoCall => given[i].tool \in Calls
      <4>1. \A i \in DOMAIN given : given[i] \in Answers
        BY <1>1
      <4> QED BY <4>1 DEF Answers, Tools
    <3>3. CASE Settle(c)
      <4>1. given' = Append(given, PromptAnswer(c)) /\ PromptAnswer(c).tool = h.p.tool
            /\ h.at = "settle"
        BY <3>3 DEF Settle, Put, PromptAnswer
      <4>2. PromptAnswer(c) \in Answers
        BY <1>1 DEF PromptAnswer, Answers, Pendings, Scopes, ApprovalType, Hooks
      <4>3. /\ DOMAIN given' = 1 .. Len(given) + 1 /\ DOMAIN given = 1 .. Len(given)
            /\ Len(given) \in Nat
            /\ \A i \in DOMAIN given : given'[i] = given[i]
            /\ given'[Len(given) + 1] = PromptAnswer(c)
        BY <1>1, <4>1, <4>2, Extended
      <4>4. ASSUME h.p.tool # NoCall
            PROVE  hook'[h.p.tool].verdict = "ask" /\ outcome'[h.p.tool] = "ran"
        <5>1. h.p.tool \in Calls /\ Asked(h.p.tool) /\ outcome[h.p.tool] = "ran"
          BY <1>1, <1>7, <4>1, <4>4 DEF PromptInv, Pendings, Tools
        <5>2. hook[h.p.tool].at = "returned" /\ hook[h.p.tool].verdict = "ask"
          BY <5>1 DEF PromptInv, Asked
        <5> QED BY <3>1, <5>1, <5>2
      <4>5. \A i \in DOMAIN given' : i \in DOMAIN given \/ i = Len(given) + 1
        BY <4>3
      <4> QED BY <1>7, <3>1, <3>2, <4>1, <4>3, <4>4, <4>5 DEF PromptInv, PromptWasAnswered
    <3>4. CASE ~Settle(c)
      <4>1. given' = given
        BY <3>4 DEF Guard, Load, GetAnswer, Check, Spend, Retire, Renew, Apply, Allow, Refuse,
             NoteRefusal, SettlePrompt, Accept, Raise, PutPending, Propose, Save, Fail, notes
      <4> QED BY <1>7, <3>1, <3>2, <4>1 DEF PromptInv, PromptWasAnswered
    <3> QED BY <3>3, <3>4
  <2> QED BY <2>3, <2>5, <2>6, <2>7 DEF Asked
<1>8. \A d \in Calls : hook'[d].at \in {"prompt", "settle"} => Prompt'
  BY <1>2, <1>4, <1>6 DEF PromptInv
<1> QED BY <1>4, <1>5, <1>7, <1>8 DEF PromptInv

\* Every step keeps the prompts answered.
LEMMA PromptStep == ApprovalType /\ PromptInv /\ [Next]_vars => PromptInv'
<1> SUFFICES ASSUME ApprovalType, PromptInv, [Next]_vars PROVE PromptInv'
  OBVIOUS
<1>1. CASE \E c \in Calls : Guard(c)
  BY <1>1, PromptStepGuard
<1>2. ASSUME ~(\E c \in Calls : Guard(c)) PROVE PromptInv'
  <2>1. UNCHANGED <<setup, hook, pending>>
    BY <1>2, Still DEF Next, Harness, Prepare, CheckAnswerProof, Decide, RecordAnswer, Tick,
                       Terminated, vars
  <2>2. (Prompt' <=> Prompt) /\ (Attended' <=> Attended)
        /\ \A d \in Calls : Asked(d)' <=> Asked(d)
    BY <2>1 DEF Prompt, Attended, Asked
  <2>3. ASSUME NEW c \in Calls, Harness(c) PROVE PromptInv'
    <3>1. /\ outcome[c] = "unseen" /\ hook[c].at = "returned" /\ given' = given
          /\ \A d \in Calls \ {c} : outcome'[d] = outcome[d]
          /\ outcome'[c] = "hook" => setup.otherHooks \/ hook[c].verdict \in {"held", "declined"}
      BY <2>3 DEF Harness, ApprovalType, notes
    <3>2. \A d \in Calls : outcome[d] = "ran" => outcome'[d] = "ran"
      BY <3>1
    <3>3. /\ \A d \in Calls : hook[d].p.tool \in Tools
          /\ \A i \in DOMAIN given : given[i].tool \in Tools
      <4>1. \A i \in DOMAIN given : given[i] \in Answers
        BY DEF ApprovalType
      <4> QED BY <4>1 DEF ApprovalType, Hooks, Pendings, Answers
    <3> QED BY <2>1, <2>2, <3>1, <3>2, <3>3 DEF PromptInv, PromptWasAnswered, Tools, Asked
  <2>4. CASE UNCHANGED <<outcome, given>>
    BY <2>1, <2>2, <2>4 DEF PromptInv, PromptWasAnswered, Asked
  <2>5. CASE Decide
    <3> DEFINE a == [approved |-> operator.d.approved, scope |-> operator.d.scope, at |-> now,
                     challenge |-> operator.challenge, tool |-> NoCall]
    <3>1. a \in Answers /\ a.tool = NoCall /\ outcome' = outcome /\ given' = Append(given, a)
      BY <2>5 DEF Decide, Put, ApprovalType, Operators, Answers, Tools
    <3>2. /\ DOMAIN given' = 1 .. Len(given) + 1 /\ DOMAIN given = 1 .. Len(given)
          /\ Len(given) \in Nat
          /\ \A i \in DOMAIN given : given'[i] = given[i]
          /\ given'[Len(given) + 1] = a
      BY <3>1, Extended DEF ApprovalType
    <3>3. \A i \in DOMAIN given' : i \in DOMAIN given \/ i = Len(given) + 1
      BY <3>2
    <3>4. PromptWasAnswered => PromptWasAnswered'
      BY <2>1, <3>1, <3>2, <3>3 DEF PromptWasAnswered
    <3> QED BY <2>1, <2>2, <3>1, <3>4 DEF PromptInv, Asked
  <2> QED BY <1>2, <2>3, <2>4, <2>5 DEF Next, Prepare, CheckAnswerProof, RecordAnswer, Tick,
                                        Terminated, vars, notes
<1> QED BY <1>1, <1>2

-----------------------------------------------------------------------------
(***************************************************************************)
(* Challenges, with one call at a time.                                    *)
(***************************************************************************)

\* Approvals are signed and the harness runs one call at a time.
AtATime == Enforced /\ setup.maxInFlight <= 1

\* A challenge the pending decision still carries, or that was spent.
Live(challenge) ==
  challenge \in used \/ (challenge # 0 /\ challenge = pending.challenge)

\* An approval is the prompt's, or signed for a challenge that is live.
Proper(a) ==
  a.approved => IF a.tool # NoCall THEN Prompt /\ a.scope = "session" ELSE Live(a.challenge)

OneAtATime ==
  /\ \A c, d \in InFlight : c = d
  /\ pending = NoPending \/ pending.challenge # 0
  /\ Proper(answer)
  /\ operator.at \in {"signed", "decided"} /\ operator.d.approved => Live(operator.challenge)
  /\ \A c \in InFlight :
       /\ hook[c].at \in {"check", "spend"} => Proper(hook[c].a)
       /\ hook[c].at = "spend" /\ hook[c].a.approved => hook[c].a.challenge = pending.challenge
       /\ hook[c].at \in {"retire", "renew"} => pending.challenge \in used
       /\ hook[c].at \in {"renew", "put"} => hook[c].p = pending
       /\ hook[c].at = "settle" => hook[c].p.tool # NoCall
       /\ hook[c].at = "refuse" => hook[c].a.challenge \in used

\* Only where presence is enforced is an approval refused, and then, with one
\* call at a time, its challenge was spent.
ChallengeInv ==
  /\ IsFiniteSet(Begun)
  /\ ~Enforced => refused = {} /\ \A c \in Calls : hook[c].at # "refuse"
  /\ AtATime => OneAtATime /\ RefusedWasUsed

\* No challenge was raised.
LEMMA ChallengeInit == Init => ChallengeInv
<1> SUFFICES ASSUME Init PROVE ChallengeInv
  OBVIOUS
<1>1. \A c \in Calls : hook[c].at = "idle"
  BY DEF Init, NoHook
<1>2. Begun = {} /\ InFlight = {}
  BY <1>1 DEF Begun, InFlight
<1>3. IsFiniteSet(Begun)
  BY <1>2, FS_EmptySet
<1>4. Proper(answer) /\ operator.at = "away" /\ refused = {} /\ pending = NoPending
  BY DEF Init, Proper, NoAnswer, Away
<1> QED BY <1>1, <1>2, <1>3, <1>4 DEF ChallengeInv, OneAtATime, RefusedWasUsed

\* The calls that have begun stay finitely many, and with one at a time the
\* call whose Guard steps is the only one in flight.
LEMMA Alone ==
  ASSUME ApprovalType, ChallengeInv, NEW c \in Calls, Guard(c)
  PROVE  /\ IsFiniteSet(Begun)'
         /\ ~Load(c) => c \in InFlight
         /\ AtATime => InFlight' \subseteq {c}
<1>1. hook \in [Calls -> Hooks]
  BY DEF ApprovalType
<1>2. \A d \in Calls \ {c} : hook'[d] = hook[d]
  BY <1>1, Elsewhere
<1>3. Begun' \subseteq Begun \cup {c}
  BY <1>2 DEF Begun
<1>4. IsFiniteSet(Begun')
  BY <1>3, FS_AddElement, FS_Subset DEF ChallengeInv
<1>5. ASSUME ~Load(c) PROVE c \in InFlight
  BY <1>5 DEF Guard, GetAnswer, Check, Spend, Retire, Renew, Apply, Allow, Refuse, NoteRefusal,
       SettlePrompt, Settle, Accept, Raise, PutPending, Propose, Save, Fail, InFlight
<1>6. ASSUME AtATime PROVE InFlight \subseteq {c}
  <2>1. CASE Load(c)
    <3>1. Cardinality(InFlight) < setup.maxInFlight /\ setup.maxInFlight <= 1
      BY <1>6, <2>1 DEF Load, AtATime
    <3>2. IsFiniteSet(InFlight)
      BY FS_Subset DEF ChallengeInv, InFlight, Begun
    <3>3. Cardinality(InFlight) \in Nat /\ setup.maxInFlight \in Nat
      BY <3>2, FS_CardinalityType, SetupsAssumption DEF ApprovalType, Setup
    <3>4. Cardinality(InFlight) = 0
      BY <3>1, <3>3
    <3> QED BY <3>2, <3>4, FS_EmptySet
  <2>2. CASE ~Load(c)
    BY <1>5, <1>6, <2>2 DEF ChallengeInv, OneAtATime
  <2> QED BY <2>1, <2>2
<1>7. InFlight' \subseteq InFlight \cup {c}
  BY <1>2 DEF InFlight
<1> QED BY <1>4, <1>5, <1>6, <1>7

\* A live challenge stays live.
LEMMA StaysLive ==
  ASSUME ApprovalType, ChallengeInv, AtATime, NEW c \in Calls, Guard(c)
  PROVE  /\ \A x : Live(x) => Live(x)'
         /\ pending' = NoPending \/ pending'.challenge # 0
<1>1. hook[c].p \in Pendings /\ pending \in Pendings /\ minted \in Nat
  BY DEF ApprovalType, Hooks
<1>2. used \subseteq used'
  BY DEF Guard, Load, GetAnswer, Check, Spend, Retire, Renew, Apply, Allow, Refuse, NoteRefusal,
       SettlePrompt, Settle, Accept, Raise, PutPending, Propose, Save, Fail, notes
<1>3. CASE Renew(c)
  <2>1. pending.challenge \in used
    BY <1>3 DEF Renew, ChallengeInv, OneAtATime, InFlight
  <2>2. pending'.challenge = minted + 1
    BY <1>1, <1>3 DEF Renew, Pendings
  <2> QED BY <1>1, <1>2, <2>1, <2>2 DEF Live
<1>4. CASE PutPending(c)
  <2>1. hook[c].p = pending
    BY <1>4 DEF PutPending, ChallengeInv, OneAtATime, InFlight
  <2>2. pending'.challenge = IF pending.challenge = 0 THEN minted + 1 ELSE pending.challenge
    BY <1>4, <2>1 DEF PutPending, Keep
  <2> QED BY <1>1, <1>2, <2>2 DEF Live
<1>5. CASE ~Renew(c) /\ ~PutPending(c)
  <2>1. pending' = pending
    BY <1>5 DEF Guard, Load, GetAnswer, Check, Spend, Retire, Apply, Allow, Refuse, NoteRefusal,
         SettlePrompt, Settle, Accept, Raise, Propose, Save, Fail, files
  <2> QED BY <1>2, <2>1 DEF Live, ChallengeInv, OneAtATime
<1> QED BY <1>3, <1>4, <1>5

\* The steps of a hook's Guard.
LEMMA ChallengeStepGuard ==
  ASSUME ApprovalType, PassInv, PromptInv, ChallengeInv, NEW c \in Calls, Guard(c)
  PROVE  ChallengeInv'
<1> DEFINE h == hook[c]
<1> DEFINE g == hook'[c]
<1>1. hook \in [Calls -> Hooks] /\ h.a \in Answers /\ h.p \in Pendings /\ pending \in Pendings
      /\ answer \in Answers
  BY DEF ApprovalType, Hooks
<1>2. \A d \in Calls \ {c} : hook'[d] = hook[d]
  BY <1>1, Elsewhere
<1>3. /\ UNCHANGED <<setup, operator>>
      /\ (Enforced' <=> Enforced) /\ (Prompt' <=> Prompt) /\ (AtATime' <=> AtATime)
  BY Running DEF Enforced, Prompt, AtATime
<1>4. g.at = "refuse" => Check(c) /\ ~PresenceHolds(h.a) /\ g.a = h.a
  <2>1. CASE \/ Load(c) \/ GetAnswer(c) \/ Check(c) \/ Spend(c) \/ Retire(c) \/ Renew(c)
             \/ Apply(c) \/ Allow(c) \/ Refuse(c)
    BY <1>1, <2>1, Answering DEF Becomes, AfterAnswer, AfterCheck, Raising
  <2>2. CASE \/ NoteRefusal(c) \/ SettlePrompt(c) \/ Settle(c) \/ Accept(c) \/ Raise(c)
             \/ PutPending(c) \/ Propose(c) \/ Save(c) \/ Fail(c)
    BY <1>1, <2>2, Binding DEF Becomes, Raising
  <2> QED BY <2>1, <2>2 DEF Guard
<1>5. refused' = refused \/ (Refuse(c) /\ refused' = refused \cup {h.a.challenge})
  BY DEF Guard, Load, GetAnswer, Check, Spend, Retire, Renew, Apply, Allow, Refuse, NoteRefusal,
       SettlePrompt, Settle, Accept, Raise, PutPending, Propose, Save, Fail, notes
<1>6. ASSUME ~Enforced PROVE refused' = {} /\ \A d \in Calls : hook'[d].at # "refuse"
  <2>1. PresenceHolds(h.a) /\ ~Refuse(c)
    BY <1>6 DEF PresenceHolds, Refuse, ChallengeInv
  <2> QED BY <1>2, <1>4, <1>5, <1>6, <2>1 DEF ChallengeInv
<1>7. ASSUME AtATime PROVE OneAtATime' /\ RefusedWasUsed'
  <2>1. /\ \A x : Live(x) => Live(x)'
        /\ pending' = NoPending \/ pending'.challenge # 0
    BY <1>7, StaysLive
  <2>2. \A a : Proper(a) => Proper(a)'
    BY <1>3, <2>1 DEF Proper
  <2>3. InFlight' \subseteq {c} /\ (~Load(c) => c \in InFlight)
    BY <1>7, Alone
  <2>4. used \subseteq used'
    BY DEF Guard, Load, GetAnswer, Check, Spend, Retire, Renew, Apply, Allow, Refuse,
         NoteRefusal, SettlePrompt, Settle, Accept, Raise, PutPending, Propose, Save, Fail, notes
  <2>5. Enforced /\ OneAtATime /\ RefusedWasUsed
    BY <1>7 DEF ChallengeInv, AtATime
  <2>6. RefusedWasUsed'
    <3>1. Refuse(c) => h.a.challenge \in used
      BY <2>3, <2>5 DEF Refuse, OneAtATime, Load
    <3> QED BY <1>5, <2>4, <2>5, <3>1 DEF RefusedWasUsed
  <2>7. Proper(answer)'
    <3>1. CASE Settle(c)
      <4>1. h.p.tool # NoCall /\ Prompt
        BY <2>3, <2>5, <3>1 DEF Settle, OneAtATime, PromptInv, Load
      <4>2. answer' = PromptAnswer(c)
        BY <3>1 DEF Settle, Put, PromptAnswer
      <4>3. answer'.tool = h.p.tool /\ answer'.scope = "session"
        BY <4>2 DEF PromptAnswer
      <4> QED BY <1>3, <4>1, <4>3 DEF Proper
    <3>2. CASE ~Settle(c)
      <4>1. answer' = answer \/ answer' = NoAnswer
        BY <3>2 DEF Guard, Load, GetAnswer, Check, Spend, Retire, Renew, Apply, Allow, Refuse,
             NoteRefusal, SettlePrompt, Accept, Raise, PutPending, Propose, Save, Fail, files
      <4>2. CASE answer' = answer
        <5>1. Proper(answer)
          BY <2>5 DEF OneAtATime
        <5> QED BY <1>3, <2>1, <4>2, <5>1 DEF Proper
      <4>3. CASE answer' = NoAnswer
        BY <4>3 DEF Proper, NoAnswer
      <4> QED BY <4>1, <4>2, <4>3
    <3> QED BY <3>1, <3>2
  <2>8. operator'.at \in {"signed", "decided"} /\ operator'.d.approved
          => Live(operator.challenge)'
    <3>1. operator.at \in {"signed", "decided"} /\ operator.d.approved => Live(operator.challenge)
      BY <2>5 DEF OneAtATime
    <3> QED BY <1>3, <2>1, <3>1 DEF Live
  <2>9. /\ g.at \in {"check", "spend"} => Proper(hook[c].a)'
        /\ g.at = "spend" /\ g.a.approved => g.a.challenge = pending'.challenge
        /\ g.at \in {"retire", "renew"} => pending'.challenge \in used'
        /\ g.at \in {"renew", "put"} => g.p = pending'
        /\ g.at = "settle" => g.p.tool # NoCall
        /\ g.at = "refuse" => g.a.challenge \in used'
    <3>1. ASSUME ~Load(c)
          PROVE  /\ h.at \in {"check", "spend"} => Proper(h.a)
                 /\ h.at = "spend" /\ h.a.approved => h.a.challenge = pending.challenge
                 /\ h.at \in {"retire", "renew"} => pending.challenge \in used
      BY <2>3, <2>5, <3>1 DEF OneAtATime
    <3>2. CASE Load(c) \/ Renew(c) \/ Apply(c) \/ Allow(c) \/ Refuse(c)
      BY <1>1, <3>2, Answering DEF Becomes
    <3>3. CASE GetAnswer(c)
      <4>1. g.a = answer /\ g.at = AfterAnswer(c)
        BY <1>1, <3>3, Answering DEF Becomes
      <4>2. AfterAnswer(c) \in {"prompt", "raise", "check", "save"}
            \/ (AfterAnswer(c) = "spend" /\ ~answer.approved)
        BY DEF AfterAnswer, Raising
      <4>3. Proper(answer)
        BY <2>5 DEF OneAtATime
      <4>4. Proper(hook[c].a)'
        BY <1>3, <2>1, <4>1, <4>3 DEF Proper
      <4> QED BY <4>1, <4>2, <4>4
    <3>4. CASE Check(c)
      <4>1. /\ g.a = h.a /\ g.at = AfterCheck(c) /\ h.at = "check" /\ h.a.approved
            /\ ~Load(c) /\ pending' = pending
        <5>1. g.a = h.a /\ g.at = AfterCheck(c)
          BY <1>1, <3>4, Answering DEF Becomes
        <5>2. h.at = "check" /\ pending' = pending
          BY <3>4 DEF Check, files
        <5> QED BY <5>1, <5>2 DEF PassInv, Approving, Young, Load
      <4>2. Proper(h.a)
        BY <3>1, <4>1
      <4>3. Proper(hook[c].a)'
        BY <1>3, <2>1, <4>1, <4>2 DEF Proper
      <4>4. h.a.tool # NoCall => PresenceHolds(h.a) /\ h.a.scope = "session"
        BY <2>5, <4>1, <4>2 DEF Proper, PresenceHolds, Prompt, Enforced
      <4>5. h.a.tool = NoCall /\ ~PresenceHolds(h.a) => h.a.challenge \in used
        BY <4>1, <4>2 DEF Proper, Live, PresenceHolds
      <4>6. h.a.tool = NoCall /\ PresenceHolds(h.a) => h.a.challenge = pending.challenge
        BY <2>5 DEF PresenceHolds
      <4> QED BY <2>4, <4>1, <4>3, <4>4, <4>5, <4>6 DEF AfterCheck
    <3>5. CASE Spend(c)
      <4>1. g.at \in {"save", "prompt", "raise"} \/ (g.at = "retire" /\ h.a.approved)
        BY <1>1, <3>5, Answering DEF Becomes, Raising
      <4>2. g.at = "retire" => answer # NoAnswer
        BY <1>1, <3>5, Answering DEF Becomes, Raising
      <4>3. ASSUME g.at = "retire" PROVE pending'.challenge \in used'
        <5>1. h.a.challenge = pending.challenge
          BY <3>1, <3>5, <4>1, <4>3 DEF Spend, Load
        <5>2. pending' = pending /\ used' = used \cup {h.a.challenge}
          BY <3>5, <4>1, <4>2, <4>3 DEF Spend
        <5> QED BY <5>1, <5>2
      <4> QED BY <4>1, <4>3
    <3>6. CASE Retire(c)
      <4>1. pending.challenge \in used /\ pending' = pending
        BY <3>1, <3>6 DEF Retire, Load, files
      <4> QED BY <1>1, <2>4, <3>6, <4>1, Answering DEF Becomes
    <3>7. CASE SettlePrompt(c)
      <4>1. g.at = "raise" \/ (g.at = "settle" /\ g.p = pending /\ pending.tool # NoCall)
        BY <1>1, <3>7, Binding DEF Becomes, Seen
      <4> QED BY <4>1
    <3>8. CASE Raise(c)
      <4>1. pending' = pending
        BY <3>8 DEF Raise, files
      <4> QED BY <1>1, <3>8, <4>1, Binding DEF Becomes
    <3>9. CASE \/ NoteRefusal(c) \/ Settle(c) \/ Accept(c) \/ PutPending(c) \/ Propose(c)
               \/ Save(c) \/ Fail(c)
      BY <1>1, <3>9, Binding DEF Becomes, Raising
    <3> QED BY <3>2, <3>3, <3>4, <3>5, <3>6, <3>7, <3>8, <3>9 DEF Guard
  <2> QED BY <2>1, <2>3, <2>6, <2>7, <2>8, <2>9 DEF OneAtATime, Proper, Live
<1>8. IsFiniteSet(Begun)'
  BY Alone
<1> QED BY <1>3, <1>6, <1>7, <1>8 DEF ChallengeInv

\* Every step keeps the challenges accounted for.
LEMMA ChallengeStep ==
  ApprovalType /\ PassInv /\ PromptInv /\ ChallengeInv /\ [Next]_vars => ChallengeInv'
<1> SUFFICES ASSUME ApprovalType, PassInv, PromptInv, ChallengeInv, [Next]_vars
             PROVE  ChallengeInv'
  OBVIOUS
<1>1. CASE \E c \in Calls : Guard(c)
  BY <1>1, ChallengeStepGuard
<1>2. ASSUME ~(\E c \in Calls : Guard(c)) PROVE ChallengeInv'
  <2>1. UNCHANGED <<setup, hook, pending, used, refused>>
    BY <1>2, Still DEF Next, Harness, Prepare, CheckAnswerProof, Decide, RecordAnswer, Tick,
                       Terminated, vars
  <2>2. /\ Begun' = Begun /\ InFlight' = InFlight
        /\ (Enforced' <=> Enforced) /\ (Prompt' <=> Prompt) /\ (AtATime' <=> AtATime)
    BY <2>1 DEF Begun, InFlight, Enforced, Prompt, AtATime
  <2>3. ASSUME AtATime
        PROVE  /\ Proper(answer)'
               /\ operator'.at \in {"signed", "decided"} /\ operator'.d.approved
                    => Live(operator.challenge)'
    <3>1. /\ Enforced /\ (pending = NoPending \/ pending.challenge # 0) /\ Proper(answer)
          /\ operator.at \in {"signed", "decided"} /\ operator.d.approved
               => Live(operator.challenge)
      BY <2>3 DEF ChallengeInv, OneAtATime, AtATime
    <3>2. operator \in Operators
      BY DEF ApprovalType
    <3>3. ASSUME NEW d \in setup.decisions, Prepare(d)
          PROVE  /\ answer' = answer
                 /\ operator'.at \in {"signed", "decided"} /\ operator'.d.approved
                      => Live(operator.challenge)'
      BY <2>1, <3>1, <3>3 DEF Prepare, Live, files
    <3>4. CASE CheckAnswerProof
      <4>1. answer' = answer /\ operator.at = "signed"
            /\ (operator' = Away \/ operator' = [operator EXCEPT !.at = "decided"])
        BY <3>4 DEF CheckAnswerProof, files
      <4>2. LET o == [operator EXCEPT !.at = "decided"] IN
              o.d = operator.d /\ o.challenge = operator.challenge
        BY <3>2 DEF Operators
      <4>3. Proper(answer)'
        BY <2>1, <2>2, <3>1, <4>1 DEF Proper, Live
      <4>4. CASE operator' = Away
        BY <4>3, <4>4 DEF Away
      <4>5. CASE operator' = [operator EXCEPT !.at = "decided"]
        <5>1. operator'.d = operator.d /\ operator'.challenge = operator.challenge
          BY <4>2, <4>5
        <5> QED BY <2>1, <3>1, <4>1, <4>3, <5>1 DEF Live
      <4> QED BY <4>1, <4>4, <4>5
    <3>5. CASE Decide
      <4>1. /\ answer'.approved = operator.d.approved /\ answer'.tool = NoCall
            /\ answer'.challenge = operator.challenge /\ operator.at = "decided"
        BY <3>5 DEF Decide, Put
      <4>2. operator'.at = "answered"
        BY <3>2, <3>5 DEF Decide, Operators
      <4> QED BY <2>1, <3>1, <4>1, <4>2 DEF Proper, Live
    <3>6. CASE RecordAnswer
      BY <2>1, <2>2, <3>1, <3>6 DEF RecordAnswer, Away, Proper, Live
    <3>7. CASE UNCHANGED <<answer, operator>>
      BY <2>1, <2>2, <3>1, <3>7 DEF Proper, Live
    <3>8. \/ UNCHANGED <<answer, operator>> \/ RecordAnswer \/ Decide \/ CheckAnswerProof
          \/ \E d \in setup.decisions : Prepare(d)
      BY <1>2 DEF Next, Harness, Tick, Terminated, vars, files
    <3> QED BY <2>1, <2>2, <3>1, <3>3, <3>4, <3>5, <3>6, <3>7, <3>8 DEF Proper, Live
  <2> QED BY <2>1, <2>2, <2>3 DEF ChallengeInv, OneAtATime, RefusedWasUsed, Proper, Live
<1> QED BY <1>1, <1>2

-----------------------------------------------------------------------------
(***************************************************************************)
(* One approval, one step.                                                 *)
(***************************************************************************)

OneStep(a) == a.approved /\ a.scope = "once"

\* The operator gives approvals for one step and nothing else is put; or gives
\* none. With denials or session-long answers between them, an answer can be
\* spent that is not the one a call read (`approval_denied`).
OnlyOneSteps == ~Prompt /\ \A d \in setup.decisions : OneStep(d)
NoOneSteps   == \A d \in setup.decisions : ~OneStep(d)

\* The calls that spent an approval for one step.
Spenders ==
  {c \in Calls : \/ hook[c].at \in {"retire", "renew", "apply"}
                 \/ hook[c].verdict = "pass" /\ hook[c].a.scope = "once"}

OneStepsGiven == {i \in DOMAIN given : OneStep(given[i])}

\* Each approval for one step is on file or spent by at most one call.
OneStepInv ==
  /\ \A c \in Calls : hook[c].at \in {"allow", "accept"} => hook[c].a.scope # "once"
  /\ \A c \in Calls : hook[c].at \in {"spend", "retire", "renew", "apply"} =>
       hook[c].a.scope = "once"
  /\ OnlyOneSteps =>
       Cardinality(Spenders) + (IF answer = NoAnswer THEN 0 ELSE 1) <= Cardinality(OneStepsGiven)
  /\ NoOneSteps => OneStepsGiven = {}

\* No step was approved.
LEMMA OneStepInit == Init => OneStepInv
<1> SUFFICES ASSUME Init PROVE OneStepInv
  OBVIOUS
<1>1. \A c \in Calls : hook[c].at = "idle" /\ hook[c].verdict = "none"
  BY DEF Init, NoHook
<1>2. Spenders = {} /\ OneStepsGiven = {} /\ answer = NoAnswer
  BY <1>1 DEF Spenders, OneStepsGiven, Init
<1>3. Cardinality({}) = 0
  BY FS_EmptySet
<1> QED BY <1>1, <1>2, <1>3 DEF OneStepInv

\* The sets counted are finite.
LEMMA Finite ==
  ASSUME ApprovalType, ChallengeInv
  PROVE  /\ IsFiniteSet(Spenders) /\ Cardinality(Spenders) \in Nat
         /\ IsFiniteSet(OneStepsGiven) /\ Cardinality(OneStepsGiven) \in Nat
<1>1. Spenders \subseteq Begun
  BY DEF Spenders, Begun, ApprovalType
<1>2. IsFiniteSet(Spenders)
  BY <1>1, FS_Subset DEF ChallengeInv
<1>3. DOMAIN given = 1 .. Len(given) /\ Len(given) \in Nat
  BY LenProperties DEF ApprovalType
<1>4. IsFiniteSet(1 .. Len(given))
  BY <1>3, FS_Interval
<1>5. IsFiniteSet(OneStepsGiven)
  BY <1>3, <1>4, FS_Subset DEF OneStepsGiven
<1> QED BY <1>2, <1>5, FS_CardinalityType

\* An answer put counts once when it approves one step, and not otherwise.
LEMMA GivenCounts ==
  ASSUME ApprovalType, ChallengeInv, NEW a \in Answers, given' = Append(given, a)
  PROVE  /\ OneStep(a) => Cardinality(OneStepsGiven') = Cardinality(OneStepsGiven) + 1
         /\ ~OneStep(a) => OneStepsGiven' = OneStepsGiven
<1>1. /\ DOMAIN given' = 1 .. Len(given) + 1 /\ DOMAIN given = 1 .. Len(given)
      /\ Len(given) \in Nat
      /\ \A i \in DOMAIN given : given'[i] = given[i]
      /\ given'[Len(given) + 1] = a
  BY Extended DEF ApprovalType
<1>2. /\ DOMAIN given' = DOMAIN given \cup {Len(given) + 1}
      /\ Len(given) + 1 \notin DOMAIN given
  BY <1>1
<1>3. OneStep(a) => OneStepsGiven' = OneStepsGiven \cup {Len(given) + 1}
  BY <1>1, <1>2 DEF OneStepsGiven
<1>4. ~OneStep(a) => OneStepsGiven' = OneStepsGiven
  BY <1>1, <1>2 DEF OneStepsGiven
<1>5. Len(given) + 1 \notin OneStepsGiven /\ IsFiniteSet(OneStepsGiven)
  BY <1>2, Finite DEF OneStepsGiven
<1> QED BY <1>3, <1>4, <1>5, FS_AddElement

\* Only by spending an approval that is on file does a call become a spender.
LEMMA SpendersGrow ==
  ASSUME ApprovalType, OneStepInv, NEW c \in Calls, Guard(c)
  PROVE  /\ Spenders' \subseteq Spenders \/ (Spend(c) /\ answer # NoAnswer)
         /\ Spenders' \subseteq Spenders \cup {c}
         /\ Spend(c) => c \notin Spenders
         /\ \A d \in Calls : /\ hook'[d].at \in {"allow", "accept"} => hook'[d].a.scope # "once"
                             /\ hook'[d].at \in {"spend", "retire", "renew", "apply"} =>
                                  hook'[d].a.scope = "once"
<1> DEFINE h == hook[c]
<1> DEFINE g == hook'[c]
<1>1. hook \in [Calls -> Hooks] /\ (h.at \notin {"save", "returned"} => h.verdict = "none")
  BY DEF ApprovalType
<1>2. \A d \in Calls \ {c} : hook'[d] = hook[d]
  BY <1>1, Elsewhere
<1>3. Spenders' \subseteq Spenders \cup {c}
  BY <1>2 DEF Spenders
<1>4. Spend(c) => c \notin Spenders
  BY <1>1 DEF Spend, Spenders
<1>5. /\ h.at \in {"allow", "accept"} => h.a.scope # "once"
      /\ h.at \in {"spend", "retire", "renew", "apply"} => h.a.scope = "once"
  BY DEF OneStepInv
<1> DEFINE In(x) == \/ x.at \in {"retire", "renew", "apply"}
                    \/ x.verdict = "pass" /\ x.a.scope = "once"
<1>6. SUFFICES /\ In(g) => In(h) \/ (Spend(c) /\ answer # NoAnswer)
               /\ g.at \in {"allow", "accept"} => g.a.scope # "once"
               /\ g.at \in {"spend", "retire", "renew", "apply"} => g.a.scope = "once"
  <2>1. \A d \in Calls \ {c} : d \in Spenders' => d \in Spenders
    BY <1>2 DEF Spenders
  <2>2. c \in Spenders' => c \in Spenders \/ (Spend(c) /\ answer # NoAnswer)
    BY <1>6 DEF Spenders
  <2>3. Spenders' \subseteq Calls
    BY DEF Spenders
  <2>4. \A d \in Calls : /\ hook'[d].at \in {"allow", "accept"} => hook'[d].a.scope # "once"
                         /\ hook'[d].at \in {"spend", "retire", "renew", "apply"} =>
                              hook'[d].a.scope = "once"
    BY <1>2, <1>6 DEF OneStepInv
  <2> QED BY <1>3, <1>4, <2>1, <2>2, <2>3, <2>4
<1>7. CASE Load(c) \/ Refuse(c)
  <2>1. h.verdict = "none"
    BY <1>1, <1>7 DEF Load, Refuse
  <2> QED BY <1>1, <1>7, <2>1, Answering DEF Becomes
<1>8. CASE GetAnswer(c)
  <2>1. h.verdict = "none"
    BY <1>1, <1>8 DEF GetAnswer
  <2>2. /\ g.at = AfterAnswer(c) /\ g.a = answer /\ g.verdict = VerdictOfAnswer(c)
    BY <1>1, <1>8, Answering DEF Becomes
  <2>3. /\ AfterAnswer(c) \in {"prompt", "raise", "check", "spend", "save"}
        /\ AfterAnswer(c) = "spend" => answer.scope = "once"
        /\ VerdictOfAnswer(c) # "pass"
    BY <2>1 DEF AfterAnswer, VerdictOfAnswer, Raising
  <2> QED BY <2>2, <2>3
<1>9. CASE Check(c)
  <2>1. h.verdict = "none"
    BY <1>1, <1>9 DEF Check
  <2> QED BY <1>1, <1>9, <2>1, Answering DEF Becomes, AfterCheck
<1>10. CASE Spend(c)
  <2>1. h.at = "spend" /\ h.verdict = "none"
    BY <1>1, <1>10 DEF Spend
  <2> QED BY <1>1, <1>5, <1>10, <2>1, Answering DEF Becomes, Raising
<1>11. CASE Retire(c) \/ Renew(c) \/ Apply(c)
  <2>1. h.at \in {"retire", "renew", "apply"}
    BY <1>11 DEF Retire, Renew, Apply
  <2> QED BY <1>1, <1>5, <1>11, <2>1, Answering DEF Becomes
<1>12. CASE Allow(c)
  <2>1. h.at = "allow"
    BY <1>12 DEF Allow
  <2> QED BY <1>1, <1>5, <1>12, <2>1, Answering DEF Becomes
<1>13. CASE NoteRefusal(c) \/ SettlePrompt(c) \/ Raise(c) \/ PutPending(c)
  <2>1. h.verdict = "none"
    BY <1>1, <1>13 DEF NoteRefusal, SettlePrompt, Raise, PutPending
  <2> QED BY <1>1, <1>13, <2>1, Binding DEF Becomes, Raising
<1>14. CASE Settle(c)
  <2>1. h.verdict = "none"
    BY <1>1, <1>14 DEF Settle
  <2>2. g.at = "accept" /\ g.a = PromptAnswer(c) /\ g.verdict = "none"
    BY <1>1, <1>14, <2>1, Binding DEF Becomes
  <2> QED BY <2>2 DEF PromptAnswer
<1>15. CASE Accept(c)
  <2>1. h.at = "accept"
    BY <1>15 DEF Accept
  <2> QED BY <1>1, <1>5, <1>15, <2>1, Binding DEF Becomes
<1>16. CASE Propose(c) \/ Save(c) \/ Fail(c)
  BY <1>1, <1>16, Binding DEF Becomes
<1> QED BY <1>7, <1>8, <1>9, <1>10, <1>11, <1>12, <1>13, <1>14, <1>15, <1>16 DEF Guard

\* Every step keeps the single steps counted.
LEMMA OneStepStep ==
  ApprovalType /\ PromptInv /\ ChallengeInv /\ OneStepInv /\ [Next]_vars => OneStepInv'
<1> SUFFICES ASSUME ApprovalType, PromptInv, ChallengeInv, OneStepInv, [Next]_vars
             PROVE  OneStepInv'
  OBVIOUS
<1>1. /\ IsFiniteSet(Spenders) /\ Cardinality(Spenders) \in Nat
      /\ IsFiniteSet(OneStepsGiven) /\ Cardinality(OneStepsGiven) \in Nat
  BY Finite
<1> DEFINE Filed == IF answer = NoAnswer THEN 0 ELSE 1
<1>2. ASSUME NEW c \in Calls, Guard(c) PROVE OneStepInv'
  <2>1. setup' = setup
    BY <1>2, Running
  <2>2. (OnlyOneSteps' <=> OnlyOneSteps) /\ (NoOneSteps' <=> NoOneSteps)
    BY <2>1 DEF OnlyOneSteps, NoOneSteps, Prompt
  <2>3. /\ Spenders' \subseteq Spenders \/ (Spend(c) /\ answer # NoAnswer)
        /\ Spenders' \subseteq Spenders \cup {c}
        /\ Spend(c) => c \notin Spenders
        /\ \A d \in Calls : /\ hook'[d].at \in {"allow", "accept"} => hook'[d].a.scope # "once"
                            /\ hook'[d].at \in {"spend", "retire", "renew", "apply"} =>
                                 hook'[d].a.scope = "once"
    BY <1>2, SpendersGrow
  <2>4. CASE Settle(c)
    <3>1. Prompt
      BY <2>4 DEF Settle, PromptInv
    <3>2. given' = Append(given, PromptAnswer(c)) /\ ~OneStep(PromptAnswer(c))
      BY <2>4 DEF Settle, Put, PromptAnswer, OneStep
    <3>3. PromptAnswer(c) \in Answers
      BY DEF PromptAnswer, Answers, Pendings, Scopes, ApprovalType, Hooks
    <3>4. OneStepsGiven' = OneStepsGiven
      BY <3>2, <3>3, GivenCounts
    <3> QED BY <2>2, <2>3, <3>1, <3>4 DEF OneStepInv, OnlyOneSteps
  <2>5. CASE ~Settle(c)
    <3>1. given' = given /\ answer' \in {answer, NoAnswer} /\ (Spend(c) => answer' = NoAnswer)
      BY <1>2, <2>5 DEF Guard, Load, GetAnswer, Check, Spend, Retire, Renew, Apply, Allow, Refuse,
           NoteRefusal, SettlePrompt, Accept, Raise, PutPending, Propose, Save, Fail, files, notes
    <3>2. OneStepsGiven' = OneStepsGiven
      BY <3>1 DEF OneStepsGiven
    <3>3. Cardinality(Spenders') + Filed' <= Cardinality(Spenders) + Filed
      <4>1. CASE Spenders' \subseteq Spenders
        <5>1. Cardinality(Spenders') \in Nat /\ Cardinality(Spenders') <= Cardinality(Spenders)
          BY <1>1, <4>1, FS_Subset, FS_CardinalityType
        <5>2. Filed' <= Filed /\ Filed' \in Nat /\ Filed \in Nat
          BY <3>1
        <5> QED BY <1>1, <5>1, <5>2
      <4>2. CASE Spend(c) /\ answer # NoAnswer
        <5>1. /\ IsFiniteSet(Spenders \cup {c})
              /\ Cardinality(Spenders \cup {c}) = Cardinality(Spenders) + 1
          BY <1>1, <2>3, <4>2, FS_AddElement
        <5>2. Cardinality(Spenders') \in Nat /\ Cardinality(Spenders') <= Cardinality(Spenders) + 1
          BY <2>3, <5>1, FS_Subset, FS_CardinalityType
        <5>3. Filed' = 0 /\ Filed = 1
          BY <3>1, <4>2
        <5> QED BY <1>1, <5>2, <5>3
      <4> QED BY <2>3, <4>1, <4>2
    <3>4. Cardinality(Spenders') \in Nat
      <4>1. IsFiniteSet(Spenders \cup {c})
        BY <1>1, FS_AddElement
      <4> QED BY <2>3, <4>1, FS_Subset, FS_CardinalityType
    <3>5. OnlyOneSteps => Cardinality(Spenders') + Filed' <= Cardinality(OneStepsGiven')
      <4>1. OnlyOneSteps => Cardinality(Spenders) + Filed <= Cardinality(OneStepsGiven)
        BY DEF OneStepInv
      <4>2. Filed \in Nat /\ Filed' \in Nat
        OBVIOUS
      <4> QED BY <1>1, <3>2, <3>3, <3>4, <4>1, <4>2
    <3> QED BY <2>2, <2>3, <3>2, <3>5 DEF OneStepInv
  <2> QED BY <2>4, <2>5
<1>3. ASSUME ~(\E c \in Calls : Guard(c)) PROVE OneStepInv'
  <2>1. UNCHANGED <<setup, hook>>
    BY <1>3, Still DEF Next, Harness, Prepare, CheckAnswerProof, Decide, RecordAnswer, Tick,
                       Terminated, vars
  <2>2. (OnlyOneSteps' <=> OnlyOneSteps) /\ (NoOneSteps' <=> NoOneSteps) /\ Spenders' = Spenders
    BY <2>1 DEF OnlyOneSteps, NoOneSteps, Prompt, Spenders
  <2>3. CASE Decide
    <3> DEFINE a == [approved |-> operator.d.approved, scope |-> operator.d.scope, at |-> now,
                     challenge |-> operator.challenge, tool |-> NoCall]
    <3>1. a \in Answers /\ given' = Append(given, a)
      BY <2>3 DEF Decide, Put, ApprovalType, Operators, Answers, Tools
    <3>2. operator.d \in setup.decisions
      BY <2>3 DEF Decide, ApprovalType
    <3>3. OneStep(a) <=> OneStep(operator.d)
      BY DEF OneStep
    <3>4. /\ OneStep(a) => Cardinality(OneStepsGiven') = Cardinality(OneStepsGiven) + 1
          /\ ~OneStep(a) => OneStepsGiven' = OneStepsGiven
      BY <3>1, GivenCounts
    <3>5. OnlyOneSteps => OneStep(a)
      BY <3>2, <3>3 DEF OnlyOneSteps
    <3>6. NoOneSteps => ~OneStep(a)
      BY <3>2, <3>3 DEF NoOneSteps
    <3>7. OnlyOneSteps => Cardinality(Spenders') + Filed' <= Cardinality(OneStepsGiven')
      <4>1. OnlyOneSteps => Cardinality(Spenders) + Filed <= Cardinality(OneStepsGiven)
        BY DEF OneStepInv
      <4>2. Filed \in {0, 1} /\ Filed' \in {0, 1}
        OBVIOUS
      <4> QED BY <1>1, <2>2, <3>4, <3>5, <4>1, <4>2
    <3> QED BY <2>1, <2>2, <3>4, <3>6, <3>7 DEF OneStepInv
  <2>4. CASE UNCHANGED <<answer, given>>
    BY <2>1, <2>2, <2>4 DEF OneStepInv, OneStepsGiven
  <2> QED BY <1>3, <2>3, <2>4 DEF Next, Harness, Prepare, CheckAnswerProof, RecordAnswer, Tick,
                                  Terminated, vars, files, notes
<1> QED BY <1>2, <1>3

-----------------------------------------------------------------------------
(***************************************************************************)
(* Theorems.                                                               *)
(***************************************************************************)

\* The types of the shared files, the hook processes and the operator.
THEOREM ApprovalTyped == Spec => []ApprovalType
BY TypeInit, TypeStep, PTL DEF Spec

\* A call is let through only on an approval that was given and was young
\* enough when its Guard began, whatever other calls, the operator and the
\* clock do between its reads and writes of the files.
THEOREM PassApproved == Spec => []PassIsApproved
<1>1. ApprovalType /\ PassInv => PassIsApproved
  <2> SUFFICES ASSUME PassInv, NEW c \in Calls, hook[c].verdict = "pass"
               PROVE  \E i \in DOMAIN given : given[i].approved /\ hook[c].t - given[i].at <= TTL
    BY DEF PassIsApproved
  <2>1. Young(c)
    BY DEF PassInv, Approving
  <2> QED BY <2>1 DEF Young, Given
<1> QED BY <1>1, TypeInit, TypeStep, PassInit, PassStep, PTL DEF Spec

\* The stage behind every verdict is in the ledger, whatever calls race for the
\* session's file and wherever an evaluation fails.
THEOREM VerdictsRecorded == Spec => []DecisionsAreRecorded
<1>1. RecordInv => DecisionsAreRecorded
  BY DEF RecordInv
<1> QED BY <1>1, TypeInit, TypeStep, RecordInit, RecordStep, PTL DEF Spec

\* Where somebody answers prompts, no evaluation fails open and no other hook
\* refuses in its own words, an approval credited to the prompt stands for a
\* call that was asked about and ran. `approval_failed_open` shows what happens
\* otherwise.
THEOREM PromptAnswered == Spec => [](Attended => PromptWasAnswered)
<1>1. PromptInv => (Attended => PromptWasAnswered)
  BY DEF PromptInv
<1> QED BY <1>1, TypeInit, TypeStep, PromptInit, PromptStep, PTL DEF Spec

\* With presence enforced and one call at a time, an approval Decide accepted
\* is refused only when its raising's challenge was already spent; without
\* presence none is refused.
THEOREM RefusedUsed == Spec => []((Enforced => AtATime) => RefusedWasUsed)
<1>1. ChallengeInv => ((Enforced => AtATime) => RefusedWasUsed)
  BY DEF ChallengeInv, RefusedWasUsed
<1> QED BY <1>1, TypeInit, TypeStep, PassInit, PassStep, PromptInit, PromptStep, ChallengeInit,
           ChallengeStep, PTL DEF Spec

\* ConsumeAnswer: while the operator only approves single steps and no prompt
\* answers for the session, or approves no single step, calls that race for the
\* answer file pass no oftener than they were approved. `approval_denied` shows
\* that a denial put in between is spent as an approval.
THEOREM OneStepsCounted == Spec => []((OnlyOneSteps \/ NoOneSteps) => OneStepEach)
<1>1. ApprovalType /\ PassInv /\ ChallengeInv /\ OneStepInv
        => ((OnlyOneSteps \/ NoOneSteps) => OneStepEach)
  <2> SUFFICES ASSUME ApprovalType, PassInv, ChallengeInv, OneStepInv, OnlyOneSteps \/ NoOneSteps
               PROVE  OneStepEach
    OBVIOUS
  <2> DEFINE Passed == {c \in Calls : hook[c].verdict = "pass" /\ hook[c].a.scope = "once"}
  <2>1. OneStepEach <=> Cardinality(Passed) <= Cardinality(OneStepsGiven)
    BY DEF OneStepEach, OneStepsGiven, OneStep
  <2>2. /\ IsFiniteSet(Spenders) /\ Cardinality(Spenders) \in Nat
        /\ Cardinality(OneStepsGiven) \in Nat
    BY Finite
  <2>3. Passed \subseteq Spenders
    BY DEF Spenders
  <2>4. Cardinality(Passed) \in Nat /\ Cardinality(Passed) <= Cardinality(Spenders)
    BY <2>2, <2>3, FS_Subset, FS_CardinalityType
  <2>5. CASE OnlyOneSteps
    <3>1. Cardinality(Spenders) <= Cardinality(OneStepsGiven)
      BY <2>2, <2>5 DEF OneStepInv
    <3> QED BY <2>1, <2>2, <2>4, <3>1
  <2>6. CASE NoOneSteps
    <3>1. Passed = {}
      <4>1. ASSUME NEW c \in Passed PROVE FALSE
        <5>1. Young(c) /\ OneStep(hook[c].a)
          BY <4>1 DEF PassInv, Approving, Young, OneStep
        <5>2. OneStepsGiven # {}
          BY <5>1 DEF Young, Given, OneStepsGiven
        <5> QED BY <2>6, <5>2 DEF OneStepInv
      <4> QED BY <4>1
    <3>2. Cardinality(Passed) = 0
      BY <3>1, FS_EmptySet
    <3> HIDE DEF Passed
    <3> QED BY <2>1, <2>2, <3>2
  <2> QED BY <2>5, <2>6
<1> QED BY <1>1, TypeInit, TypeStep, PassInit, PassStep, PromptInit, PromptStep, ChallengeInit,
           ChallengeStep, OneStepInit, OneStepStep, PTL DEF Spec
=============================================================================
