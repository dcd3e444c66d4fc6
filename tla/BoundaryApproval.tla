-------------------------- MODULE BoundaryApproval --------------------------
(***************************************************************************)
(* One boundary decision that asks (ADR 0014): Guard of                    *)
(* internal/capability/boundaries, run by a hook process for each tool     *)
(* call of a session, the operator's Decide, and the files of              *)
(* internal/infra/boundaryledger they share.  There is no lock: every read *)
(* or write of a file is a step, a write replaces the file (writeAtomic).  *)
(*                                                                         *)
(* The rule is enforced, requires ask, and holds on every call.  A proof   *)
(* is valid when it names the pending decision's challenge; its age, key   *)
(* and crossings are left out.                                             *)
(***************************************************************************)
EXTENDS Integers, Sequences, FiniteSets, Functions

CONSTANTS
  Calls,    \* tool calls of the session, each its own tool use id
  Setups,   \* the installations explored, see Setup
  TTL       \* answerTTL

\* One installation, and the bounds it is explored within.
Setup == [
  attended   : BOOLEAN,   \* can someone answer a permission prompt?
  mode       : {"channel", "presence", "presence-strict"},  \* boundary_approval
  otherHooks : BOOLEAN,   \* may another PreToolUse hook refuse a call in its own words?
  decisions  : SUBSET [approved : BOOLEAN, scope : {"once", "session"}],
                          \* the answers the operator may give
  mayFail    : BOOLEAN,   \* may an evaluation fail, overrun or be killed?
  maxCalls   : Nat,
  maxInFlight: Nat,
  maxAnswers : Nat,
  maxTime    : Nat]

ASSUME SetupsAssumption == \A s \in Setups : s \in Setup
ASSUME TTLAssumption == TTL \in Nat

VARIABLES
  setup,     \* the installation, chosen once
  answer,    \* answers/<id>.json, or NoAnswer
  pending,   \* pending/<id>.json, or NoPending
  recorded,  \* Session.Recorded[id] in the session's file
  ledger,    \* the stages recorded in decisions.jsonl
  hook,      \* per call: where its Guard is, and Guard's variables
  outcome,   \* per call: its result in the transcript
  operator,  \* Decide's place
  now,
  given,     \* history: every answer put, in order
  minted,    \* challenges minted
  used,      \* history: challenges of one-step approvals a call has spent
  refused    \* history: challenges of approvals that were refused

files == <<answer, pending, recorded, ledger>>
world == <<setup, outcome, operator, now>>
notes == <<given, minted, used, refused>>
vars  == <<setup, answer, pending, recorded, ledger, hook, outcome, operator, now,
           given, minted, used, refused>>

Enforced == setup.mode \in {"presence", "presence-strict"}

NoCall    == "none"
NoAnswer  == [approved |-> FALSE, scope |-> "none", at |-> 0, challenge |-> 0,
              tool |-> NoCall]
NoPending == [tool |-> NoCall, challenge |-> 0]
NoHook    == [at |-> "idle", t |-> 0, rec |-> "none", changed |-> FALSE,
              a |-> NoAnswer, p |-> NoPending, verdict |-> "none"]
Away      == [at |-> "away", d |-> [approved |-> FALSE, scope |-> "none"],
              challenge |-> 0]

Init ==
  /\ setup \in Setups
  /\ answer = NoAnswer /\ pending = NoPending /\ recorded = "none"
  /\ ledger = {}
  /\ hook = [c \in Calls |-> NoHook] /\ outcome = [c \in Calls |-> "unseen"]
  /\ operator = Away /\ now = 0
  /\ given = << >> /\ minted = 0 /\ used = {} /\ refused = {}

-----------------------------------------------------------------------------
(***************************************************************************)
(* Guard, in call c's hook process.                                        *)
(***************************************************************************)

Begun == {c \in Calls : hook[c].at # "idle"}

InFlight == {c \in Calls : hook[c].at \notin {"idle", "returned"}}

\* Guard's variables but the answer it read are dead once it returns.
Return(c, v) == hook' = [hook EXCEPT ![c] = [NoHook EXCEPT
                  !.at = "returned", !.t = hook[c].t, !.a = hook[c].a, !.verdict = v]]

Goto(c, place) == hook' = [hook EXCEPT ![c].at = place]

Decided(c, v) == hook' = [hook EXCEPT ![c].at = "save", ![c].verdict = v]

Record(stage) == ledger' = ledger \cup {stage}

\* bind's prompt: under presence-strict the harness's prompt does not approve.
Prompt == setup.attended /\ setup.mode # "presence-strict"

\* Where bind goes when no answer applies.
Raising == IF Prompt THEN "prompt" ELSE "raise"

\* load: the session's file is read.
Load(c) ==
  /\ hook[c].at = "idle" /\ Cardinality(InFlight) < setup.maxInFlight
  /\ Cardinality(Begun) < setup.maxCalls
  /\ hook' = [hook EXCEPT ![c].at = "answer", ![c].t = now, ![c].rec = recorded]
  /\ UNCHANGED <<files, world, notes>>

\* Seeded fault: an answer is honoured for ever.
Honoured_NoTTL(a, t) == a # NoAnswer

\* GetAnswer: is there an answer, and is it young enough?
Honoured(a, t) == a # NoAnswer /\ t - a.at <= TTL

\* answered reads the answer: none, a denial for one step or for the session,
\* or an approval.
GetAnswer(c) ==
  /\ hook[c].at = "answer"
  /\ hook' = [hook EXCEPT ![c].a = answer,
       ![c].at = IF ~Honoured(answer, hook[c].t) THEN Raising
                 ELSE IF answer.approved THEN "check"
                 ELSE IF answer.scope = "once" THEN "spend"
                 ELSE "save",
       ![c].verdict = IF /\ Honoured(answer, hook[c].t)
                         /\ ~answer.approved /\ answer.scope = "session"
                      THEN "declined" ELSE @]
  /\ UNCHANGED <<files, world, notes>>

\* checkPresence and honoured.
PresenceHolds(a) ==
  \/ ~Enforced
  \/ a.tool # NoCall /\ setup.mode = "presence"
  \/ a.challenge # 0 /\ a.challenge = pending.challenge

\* A session-long approval is recorded once and lets the call through.
Check(c) ==
  /\ hook[c].at = "check"
  /\ Goto(c, IF ~PresenceHolds(hook[c].a) THEN "refuse"
             ELSE IF hook[c].a.scope = "once" THEN "spend" ELSE "allow")
  /\ UNCHANGED <<files, world, notes>>

\* Seeded fault: losing the rename is taken for winning it.
Spend_IgnoresLoss(c) ==
  /\ hook[c].at = "spend"
  /\ answer' = NoAnswer
  /\ IF hook[c].a.approved THEN Goto(c, "retire") ELSE Decided(c, "declined")
  /\ UNCHANGED <<pending, recorded, ledger, world, notes>>

\* ConsumeAnswer: whoever renames the file wins; a loser asks afresh.
Spend(c) ==
  /\ hook[c].at = "spend"
  /\ answer' = NoAnswer
  /\ IF answer = NoAnswer THEN Goto(c, Raising)
     ELSE IF hook[c].a.approved THEN Goto(c, "retire")
     ELSE Decided(c, "declined")
  /\ used' = IF answer # NoAnswer /\ hook[c].a.approved
             THEN used \cup {hook[c].a.challenge} ELSE used
  /\ UNCHANGED <<pending, recorded, ledger, world, given, minted, refused>>

\* retireChallenge reads the pending decision ...
Retire(c) ==
  /\ hook[c].at = "retire"
  /\ hook' = [hook EXCEPT ![c].p = pending,
                          ![c].at = IF pending = NoPending THEN "apply" ELSE "renew"]
  /\ UNCHANGED <<files, world, notes>>

\* ... and gives it a fresh challenge.
Renew(c) ==
  /\ hook[c].at = "renew"
  /\ pending' = [hook[c].p EXCEPT !.challenge = minted + 1]
  /\ minted' = minted + 1
  /\ hook' = [hook EXCEPT ![c].at = "apply", ![c].p = NoPending]
  /\ UNCHANGED <<answer, recorded, ledger, world, given, used, refused>>

\* A one-step approval is recorded each time it is used.
Apply(c) ==
  /\ hook[c].at = "apply"
  /\ Record("applied")
  /\ Decided(c, "pass")
  /\ UNCHANGED <<answer, pending, recorded, world, notes>>

\* Seeded fault: the session's file is written first and the ledger after it.
RecordOnce_SaveFirst(c, stage, v) ==
  IF hook[c].rec = stage
  THEN /\ hook' = [hook EXCEPT ![c].at = "save", ![c].verdict = v]
       /\ IF hook[c].changed THEN Record(stage) ELSE ledger' = ledger
       /\ recorded' = recorded
  ELSE /\ hook' = [hook EXCEPT ![c].rec = stage, ![c].changed = TRUE]
       /\ recorded' = stage
       /\ ledger' = ledger

\* recordOnce: a stage is recorded once per session, as the session's file was
\* when this call read it.
RecordOnce(c, stage, v) ==
  /\ hook' = [hook EXCEPT ![c].at = "save", ![c].verdict = v, ![c].rec = stage,
                          ![c].changed = @ \/ hook[c].rec # stage]
  /\ IF hook[c].rec = stage THEN ledger' = ledger ELSE Record(stage)
  /\ recorded' = recorded

Allow(c) ==
  /\ hook[c].at = "allow"
  /\ RecordOnce(c, "applied", "pass")
  /\ UNCHANGED <<answer, pending, world, notes>>

\* refuse: an approval the check does not honour is removed ...
Refuse(c) ==
  /\ hook[c].at = "refuse"
  /\ answer' = NoAnswer
  /\ refused' = refused \cup {hook[c].a.challenge}
  /\ Goto(c, "note")
  /\ UNCHANGED <<pending, recorded, ledger, world, given, minted, used>>

\* ... and recorded, and the decision is raised again.
NoteRefusal(c) ==
  /\ hook[c].at = "note"
  /\ Record("refused")
  /\ Goto(c, Raising)
  /\ UNCHANGED <<answer, pending, recorded, world, notes>>

\* classify: a hook's own reason cannot be told from a call that ran and failed.
Classify(o) == IF o = "hook" THEN "ran" ELSE o

\* Seeded fault: any result in the transcript is read as an approval.
SettlePrompt_AnyResult(c) ==
  LET tool == pending.tool
      seen == IF tool \in {NoCall, c} THEN "unseen" ELSE Classify(outcome[tool])
  IN  /\ hook[c].at = "prompt"
      /\ hook' = [hook EXCEPT ![c].p = pending,
                    ![c].at = IF seen = "unseen" THEN "raise" ELSE "settle"]
      /\ UNCHANGED <<files, world, notes>>

\* settlePrompt reads back the last ask: a call the vendor stopped is recorded
\* on the decision, one that ran was approved.
SettlePrompt(c) ==
  LET tool == pending.tool
      seen == IF tool \in {NoCall, c} THEN "unseen" ELSE Classify(outcome[tool])
  IN  /\ hook[c].at = "prompt"
      /\ hook' = [hook EXCEPT ![c].p = pending,
                              ![c].at = IF seen = "ran" THEN "settle" ELSE "raise"]
      /\ IF seen = "stopped" THEN Record("proposed") ELSE ledger' = ledger
      /\ UNCHANGED <<answer, pending, recorded, world, notes>>

Put(a) == answer' = a /\ given' = Append(given, a)

\* The prompt's approval holds for the rest of the session.
Settle(c) ==
  /\ hook[c].at = "settle"
  /\ LET a == [approved |-> TRUE, scope |-> "session", at |-> hook[c].t,
               challenge |-> 0, tool |-> hook[c].p.tool]
     IN  Put(a) /\ hook' = [hook EXCEPT ![c].at = "accept", ![c].a = a,
                                               ![c].p = NoPending]
  /\ UNCHANGED <<pending, recorded, ledger, world, minted, used, refused>>

Accept(c) ==
  /\ hook[c].at = "accept"
  /\ Record("accepted")
  /\ hook' = [hook EXCEPT ![c].at = "save", ![c].verdict = "pass",
                          ![c].rec = "accepted", ![c].changed = TRUE]
  /\ UNCHANGED <<answer, pending, recorded, world, notes>>

\* bind reads the pending decision it is about to replace ...
Raise(c) ==
  /\ hook[c].at = "raise"
  /\ hook' = [hook EXCEPT ![c].p = pending, ![c].at = "put"]
  /\ UNCHANGED <<files, world, notes>>

\* Seeded fault: every raising mints its own challenge.
Keep_FreshChallenge(p) == minted + 1

\* The raising goes on while it waits: its challenge is kept.
Keep(p) == IF p.challenge = 0 THEN minted + 1 ELSE p.challenge

\* ... and writes it, naming this call when the prompt will ask about it.
PutPending(c) ==
  /\ hook[c].at = "put"
  /\ pending' = [tool |-> IF Prompt THEN c ELSE NoCall,
                 challenge |-> Keep(hook[c].p)]
  /\ minted' = IF Keep(hook[c].p) > minted THEN minted + 1 ELSE minted
  /\ hook' = [hook EXCEPT ![c].at = "propose", ![c].p = NoPending]
  /\ UNCHANGED <<answer, recorded, ledger, world, given, used, refused>>

Propose(c) ==
  /\ hook[c].at = "propose"
  /\ RecordOnce(c, "proposed", IF Prompt THEN "ask" ELSE "held")
  /\ UNCHANGED <<answer, pending, world, notes>>

\* save: the session's file is written when a stage was recorded.
Save(c) ==
  /\ hook[c].at = "save"
  /\ recorded' = IF hook[c].changed THEN hook[c].rec ELSE recorded
  /\ Return(c, hook[c].verdict)
  /\ UNCHANGED <<answer, pending, ledger, world, notes>>

\* guardWithTimeout: an evaluation that fails or overruns is recorded and the
\* call goes ahead.
Fail(c) ==
  /\ setup.mayFail /\ c \in InFlight
  /\ Record("failed")
  /\ Return(c, "failed")
  /\ UNCHANGED <<answer, pending, recorded, world, notes>>

-----------------------------------------------------------------------------
(***************************************************************************)
(* The harness, the operator and the clock.                                *)
(***************************************************************************)

\* Claude Code takes the verdict: a refused call is stopped with this hook's
\* reason; any other may run, be declined at a prompt, or be stopped by its own
\* rules or another hook.
Harness(c) ==
  /\ hook[c].at = "returned" /\ outcome[c] = "unseen"
  /\ \E o \in IF hook[c].verdict \in {"held", "declined"} THEN {"hook"}
             ELSE {"ran", "declined", "stopped"}
                    \cup (IF setup.otherHooks THEN {"hook"} ELSE {}) :
       outcome' = [outcome EXCEPT ![c] = o]
  /\ UNCHANGED <<setup, files, hook, operator, now, notes>>

\* Decide reads the decision that waits; with presence enforced an approval is
\* signed first, naming the challenge PrepareApproval read.
Prepare(d) ==
  /\ operator = Away /\ pending # NoPending
  /\ Cardinality({i \in DOMAIN given : given[i].tool = NoCall}) < setup.maxAnswers
  /\ operator' = IF Enforced /\ d.approved
                 THEN [at |-> "signed", d |-> d, challenge |-> pending.challenge]
                 ELSE [at |-> "decided", d |-> d, challenge |-> 0]
  /\ UNCHANGED <<setup, files, hook, outcome, now, notes>>

\* checkAnswerProof: a proof for another raising is an input error.
CheckAnswerProof ==
  /\ operator.at = "signed"
  /\ operator' = IF operator.challenge = pending.challenge
                 THEN [operator EXCEPT !.at = "decided"] ELSE Away
  /\ UNCHANGED <<setup, files, hook, outcome, now, notes>>

\* The answer is written ...
Decide ==
  /\ operator.at = "decided"
  /\ Put([approved |-> operator.d.approved, scope |-> operator.d.scope,
          at |-> now, challenge |-> operator.challenge, tool |-> NoCall])
  /\ operator' = [operator EXCEPT !.at = "answered"]
  /\ UNCHANGED <<setup, pending, recorded, ledger, hook, outcome, now, minted,
                 used, refused>>

\* ... and then recorded on the decision.
RecordAnswer ==
  /\ operator.at = "answered"
  /\ Record(IF operator.d.approved THEN "accepted" ELSE "rejected")
  /\ operator' = Away
  /\ UNCHANGED <<setup, answer, pending, recorded, hook, outcome, now, notes>>

Tick ==
  /\ now < setup.maxTime
  /\ now' = now + 1
  /\ UNCHANGED <<setup, files, hook, outcome, operator, notes>>

Terminated ==
  /\ Cardinality(Begun) = setup.maxCalls
  /\ \A c \in Begun : outcome[c] # "unseen"
  /\ UNCHANGED vars

-----------------------------------------------------------------------------

Guard(c) ==
  \/ Load(c) \/ GetAnswer(c) \/ Check(c) \/ Spend(c) \/ Retire(c) \/ Renew(c)
  \/ Apply(c) \/ Allow(c) \/ Refuse(c) \/ NoteRefusal(c) \/ SettlePrompt(c) \/ Settle(c)
  \/ Accept(c) \/ Raise(c) \/ PutPending(c) \/ Propose(c) \/ Save(c) \/ Fail(c)

Next == \/ \E c \in Calls : Guard(c) \/ Harness(c)
        \/ \E d \in setup.decisions : Prepare(d)
        \/ CheckAnswerProof \/ Decide \/ RecordAnswer \/ Tick \/ Terminated

Spec == Init /\ [][Next]_vars

-----------------------------------------------------------------------------
(***************************************************************************)
(* Properties.                                                             *)
(***************************************************************************)

\* ConsumeAnswer: "Exactly one caller wins when parallel tool calls race for
\* it." Approvals for one step let no more steps through than were given.
OneStepEach ==
  Cardinality({c \in Calls : /\ hook[c].verdict = "pass"
                             /\ hook[c].a.scope = "once"})
    <= Cardinality({i \in DOMAIN given : /\ given[i].approved
                                         /\ given[i].scope = "once"})

\* A call is let through only on an approval that was young enough when its
\* evaluation began.
PassIsApproved ==
  \A c \in Calls : hook[c].verdict = "pass" =>
    \E i \in DOMAIN given : given[i].approved /\ hook[c].t - given[i].at <= TTL

\* PutSession: "A lost update under a race costs a decision stage being
\* recorded twice, never a decision." Whatever calls race, fail or are killed
\* between two file operations, the stage behind every verdict is in the
\* ledger.
DecisionsAreRecorded ==
  \A c \in Calls :
    /\ hook[c].verdict = "pass" => {"applied", "accepted"} \cap ledger # {}
    /\ hook[c].verdict \in {"ask", "held"} => "proposed" \in ledger

\* settlePrompt: "a call that ran was approved." An approval credited to the
\* prompt stands for a call somebody was asked about and that ran.
PromptWasAnswered ==
  \A i \in DOMAIN given : given[i].tool # NoCall =>
    hook[given[i].tool].verdict = "ask" /\ outcome[given[i].tool] = "ran"

\* bind: "keep its challenge, so an approval signed for it still names it."
\* An approval that Decide accepted is refused only when another call has
\* already spent an approval of the same raising.
RefusedWasUsed == refused \subseteq used
=============================================================================
