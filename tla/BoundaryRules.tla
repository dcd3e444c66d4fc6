--------------------------- MODULE BoundaryRules ---------------------------
(***************************************************************************)
(* Which boundary binds a tool call: Evaluate, Rule.Match and the plan     *)
(* condition of internal/contexts/boundaries, and liftExtras of            *)
(* internal/capability/boundaries, which takes the rules an extra          *)
(* allowance lifts out of the decision.                                    *)
(*                                                                         *)
(* The state is what an evaluation reads: the rules in config order, the   *)
(* share of each plan window left, and the rules lifted.  Every change of  *)
(* it is a step, so a property of a step compares two evaluations.         *)
(***************************************************************************)
EXTENDS Integers, Sequences, FiniteSets, SequencesExt

CONSTANTS
  RuleMenu,   \* the rules that may be written, each with its own name
  MaxRules,   \* bound on the rules in config.yaml
  LeftPct     \* the readings a plan window may have

Windows == {"5h", "week"}
AnyWindow == "any"
Unknown == -1

Require  == {"allow", "ask", "approver", "deny"}
Ops      == {"<", "<=", ">", ">=", "=="}

Rule == [name : STRING, require : Require, org : BOOLEAN, enforced : BOOLEAN,
         op : Ops \cup {"none"}, number : Nat, window : Windows \cup {AnyWindow}]

ASSUME RulesAssumption ==
  /\ LeftPct \subseteq Nat /\ MaxRules \in Nat
  /\ RuleMenu \subseteq Rule
  /\ \A r, s \in RuleMenu : r.name = s.name => r = s

VARIABLES
  ruleList,   \* the rules, in config order, each with its stage
  planLeftPct,\* Facts.PlanLeftPct: [Windows -> LeftPct \cup {Unknown}]
  lifted      \* the names the honoured extra allowances cover

ruleVars == <<ruleList, planLeftPct, lifted>>

-----------------------------------------------------------------------------
(***************************************************************************)
(* The evaluation.                                                         *)
(***************************************************************************)

compare(a, op, b) ==
  CASE op = "<"  -> a < b
    [] op = "<=" -> a <= b
    [] op = ">"  -> a > b
    [] op = ">=" -> a >= b
    [] op = "==" -> a = b

\* The named window, or the tightest one known.
planLeft(left, w) ==
  IF w # AnyWindow THEN left[w]
  ELSE IF left["5h"] = Unknown \/ (left["week"] # Unknown /\ left["week"] < left["5h"])
  THEN left["week"] ELSE left["5h"]

\* Match, for a rule with one condition on the plan or with none. An unknown
\* figure never holds.
Match(r, left) ==
  \/ r.op = "none"
  \/ LET v == planLeft(left, r.window) IN v # Unknown /\ compare(v, r.op, r.number)

strictness(r) ==
  CASE r.require = "allow" -> 0 [] r.require = "ask" -> 1
    [] r.require = "approver" -> 2 [] r.require = "deny" -> 3

NoRule == [name |-> "none", require |-> "allow", enforced |-> FALSE, org |-> FALSE]

\* One round of Evaluate's loop, after which b binds: an enforced match that is
\* stricter does from here on.
stricter(b, r, left, out) ==
  IF /\ r.name \notin out /\ Match(r, left) /\ r.enforced
     /\ b = NoRule \/ strictness(r) > strictness(b)
  THEN r ELSE b

\* The strictest enforced match binds, the first of equals; the rules named in
\* out were deleted from the list before.
Evaluate(rules, left, out) ==
  FoldLeft(LAMBDA b, r : stricter(b, r, left, out), NoRule, rules)

\* Seeded fault: only the binding rule is taken out, not every lifted one.
Binding_OnlyTheFirst ==
  LET first == Evaluate(ruleList, planLeftPct, {})
  IN  IF first.name \notin lifted THEN first
      ELSE Evaluate(ruleList, planLeftPct, {first.name})

\* Guard: liftExtras evaluates the rest again when a matching rule is lifted.
Binding ==
  LET first == Evaluate(ruleList, planLeftPct, {})
  IN  IF first = NoRule \/ ~ \E i \in DOMAIN ruleList :
           ruleList[i].enforced /\ Match(ruleList[i], planLeftPct) /\ ruleList[i].name \in lifted
      THEN first
      ELSE Evaluate(ruleList, planLeftPct, lifted)

-----------------------------------------------------------------------------
(***************************************************************************)
(* What changes between two calls.                                         *)
(***************************************************************************)

Names == {ruleList[i].name : i \in DOMAIN ruleList}

RulesInit ==
  /\ ruleList = << >> /\ lifted = {}
  /\ planLeftPct \in [Windows -> LeftPct \cup {Unknown}]

\* A rule is added at the end, as written (Parse refuses a name twice).
AddRule(r) ==
  /\ Len(ruleList) < MaxRules /\ r.name \notin Names
  /\ ruleList' = Append(ruleList, r)
  /\ UNCHANGED <<planLeftPct, lifted>>

\* Promote.
Promote(i) ==
  /\ ~ruleList[i].enforced
  /\ ruleList' = [ruleList EXCEPT ![i].enforced = TRUE]
  /\ UNCHANGED <<planLeftPct, lifted>>

\* extraRules: the organisation's rules are its own to lift.
extraRules == {n \in Names : \E i \in DOMAIN ruleList : ruleList[i].name = n /\ ~ruleList[i].org}

\* An extra allowance is granted, or the ones in force end.
Lift ==
  /\ lifted' \in SUBSET extraRules
  /\ lifted' # lifted
  /\ UNCHANGED <<ruleList, planLeftPct>>

\* A plan window is measured, resets, or is no longer known.
Measure ==
  /\ \E w \in Windows, v \in LeftPct \cup {Unknown} :
       planLeftPct' = [planLeftPct EXCEPT ![w] = v]
  /\ planLeftPct' # planLeftPct
  /\ UNCHANGED <<ruleList, lifted>>

RulesNext ==
  \/ \E r \in RuleMenu : AddRule(r)
  \/ \E i \in DOMAIN ruleList : Promote(i)
  \/ Lift \/ Measure

RulesSpec == RulesInit /\ [][RulesNext]_ruleVars

-----------------------------------------------------------------------------
(***************************************************************************)
(* Properties.                                                             *)
(***************************************************************************)

\* What a plan condition means: of the windows it names that are known, one
\* is low enough, or, for the conditions that hold above a value, all are.
KnownWindows(w) == {x \in Windows : w \in {x, AnyWindow} /\ planLeftPct[x] # Unknown}

Means(r) ==
  LET known == KnownWindows(r.window)
      above == \A x \in known : planLeftPct[x] >= r.number
      below == \E x \in known : planLeftPct[x] <= r.number
      equal == \E x \in known : planLeftPct[x] = r.number
  IN  \/ r.op = "none"
      \/ /\ known # {}
         /\ CASE r.op = ">=" -> above
              [] r.op = ">"  -> above /\ ~equal
              [] r.op = "<=" -> below
              [] r.op = "<"  -> \E x \in known : planLeftPct[x] < r.number
              [] r.op = "==" -> above /\ equal

Binds(i) ==
  LET r == ruleList[i] IN r.enforced /\ Means(r) /\ (r.org \/ r.name \notin lifted)

\* "the strictest matching rule wins" (boundaries.go), "the strictest enforced
\* match among the rest binds instead" (liftExtras), "the organisation's rules
\* are its own to lift" (extraRules): what binds is the first of the strictest
\* enforced rules whose condition holds as an operator reads it, leaving out
\* local rules that are lifted and never an organisation's.
BindsTheStrictest ==
  LET binding == {i \in DOMAIN ruleList : Binds(i)}
      strictest == {i \in binding : \A j \in binding : strictness(ruleList[j]) <= strictness(ruleList[i])}
  IN  IF binding = {} THEN Binding = NoRule
      ELSE \E i \in strictest : (\A j \in strictest : i <= j) /\ Binding = ruleList[i]
=============================================================================
