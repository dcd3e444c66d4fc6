---------------------------- MODULE MCSubsystems ----------------------------
(***************************************************************************)
(* Small instances of the subsystems around the bus and the boundaries.    *)
(* They do not interact with each other, so `world` picks one of them and  *)
(* the others stay as they start: the states are the sum of theirs.        *)
(***************************************************************************)
EXTENDS OrgApprovals, LedgerFile, SinkChain, BoundaryRules, ExtraAllowances, LoopBreaker,
        RuleHours, UsageMeter, GlanceSnapshots, Experiments, TLC

VARIABLE world

Worlds == {"org", "ledger", "chain", "rules", "extras", "loop", "hours", "meter",
           "glance", "trials"}

-----------------------------------------------------------------------------
(***************************************************************************)
(* Values of the constants.                                                *)
(***************************************************************************)

\* Lost calls with hooks that evaluate between the daemon's rounds, and every
\* fault with hooks at any time.
MCOrgSetups == {
  [calls |-> 3, overlap |-> FALSE, lossy |-> TRUE, crash |-> FALSE],
  [calls |-> 2, overlap |-> TRUE, lossy |-> TRUE, crash |-> TRUE]}

\* The same without faults, hooks at any time.
MCOrgOverlap == {[calls |-> 3, overlap |-> TRUE, lossy |-> FALSE, crash |-> FALSE]}

\* Hook processes alone, and with the daemon.
MCLedgerSetups == {[lines |-> 3, ingested |-> FALSE], [lines |-> 2, ingested |-> TRUE]}
MCLineSize == <<2, 1, 1>>

MCFeeds == ("p" :> <<"a", "b">>) @@ ("q" :> <<"m">>)

\* A failing store; the same with events the exporter can build no request
\* with, or no request at all and a snapshot that hangs; a share rule that
\* changes as time passes.
MCChainSetups == {
  [unsendable |-> {}, hangs |-> FALSE, refusals |-> 2, edits |-> 0, time |-> 0],
  [unsendable |-> {"m"}, hangs |-> FALSE, refusals |-> 1, edits |-> 0, time |-> 0],
  [unsendable |-> {"a", "b", "m"}, hangs |-> TRUE, refusals |-> 1, edits |-> 0, time |-> 0],
  [unsendable |-> {}, hangs |-> FALSE, refusals |-> 0, edits |-> 1, time |-> 3]}

MCRule(name, require, org, op, number, window) ==
  [name |-> name, require |-> require, org |-> org, enforced |-> FALSE,
   op |-> op, number |-> number, window |-> window]

\* A rule of each kind, with each comparison and each choice of window.
MCRuleMenu == {
  MCRule("low", "ask", FALSE, "<=", 1, AnyWindow),
  MCRule("high", "ask", FALSE, ">", 0, AnyWindow),
  MCRule("week", "approver", TRUE, "<", 1, "week"),
  MCRule("spent", "deny", FALSE, "==", 0, AnyWindow),
  MCRule("always", "allow", FALSE, "none", 0, AnyWindow),
  MCRule("fresh", "deny", TRUE, ">=", 1, "5h")}

\* Days within the week and over its end; every start and end of the day.
MCHours == {h \in HoursSpec : h.start # h.end /\ h.first \in {0, 5} /\ h.last \in {0, 1, 5}}

\* Refreshes alone; the interval, with an operator who signs in again. A call
\* may fail in both.
MCMeterSetups == {
  [interval |-> FALSE, logins |-> FALSE, faults |-> 1, time |-> 2],
  [interval |-> TRUE, logins |-> TRUE, faults |-> 1, time |-> 0]}

\* A reader beside the one who acts; a restart, with a rule to promote.
MCGlanceSetups == {
  [keys |-> {"tip"}, readers |-> {"d"}, actors |-> {"c"}, restarts |-> 0, time |-> 2],
  [keys |-> {"pause"}, readers |-> {"c"}, actors |-> {"c"}, restarts |-> 1, time |-> 3]}

\* A trial of one pair with more executions than it has places, of which one
\* has two requests at once; a trial of two pairs; an execution with two
\* requests between two trials, of which the second ends first.
MCTrial(name, pairs, lasts) == [name |-> name, pairs |-> pairs, lasts |-> lasts]
MCTrialSetups == {
  [trials |-> {MCTrial("r", 1, 5)}, requests |-> {"e1", "e2", "f1", "g1"}, time |-> 4],
  [trials |-> {MCTrial("s", 2, 5)}, requests |-> {"e1", "f1", "g1"}, time |-> 5],
  [trials |-> {MCTrial("u", 1, 5), MCTrial("t", 1, 3)}, requests |-> {"e1", "e2"},
   time |-> 5]}
MCExecutionOf == ("e1" :> "e") @@ ("e2" :> "e") @@ ("f1" :> "f") @@ ("g1" :> "g")
MCTrials == UNION {s.trials : s \in MCTrialSetups}
MCVariantFirst == {<<"r", 1>>, <<"s", 1>>, <<"t", 1>>}

-----------------------------------------------------------------------------

Idle(w) == world # w

\* Each subsystem starts as its Init says; of one that is not explored, one
\* such state is taken.
Init ==
  /\ world \in Worlds
  /\ OrgInit /\ (Idle("org") => orgSetup = CHOOSE s \in OrgSetups : TRUE)
  /\ LedgerInit /\ (Idle("ledger") => ledgerSetup = CHOOSE s \in LedgerSetups : TRUE)
  /\ ChainInit /\ (Idle("chain") => chainSetup = CHOOSE s \in ChainSetups : TRUE)
  /\ RulesInit /\ (Idle("rules") => planLeftPct = [w \in Windows |-> Unknown])
  /\ ExtrasInit /\ LoopInit
  /\ HoursInit /\ (Idle("hours") => hours = CHOOSE h \in Hours : TRUE)
  /\ MeterInit /\ (Idle("meter") => ~meterSetup.logins)
  /\ GlanceInit /\ (Idle("glance") => glanceSetup.restarts = 0)
  /\ TrialsInit /\ (Idle("trials") => trialSetup = CHOOSE s \in TrialSetups : TRUE)

Org == world = "org" /\ OrgNext
       /\ UNCHANGED <<world, ledgerVars, chainVars, ruleVars, extraVars,
                      loopVars, hoursVars, meterVars, glanceVars, trialVars>>
Ledger == world = "ledger" /\ LedgerNext
          /\ UNCHANGED <<world, orgVars, chainVars, ruleVars, extraVars,
                         loopVars, hoursVars, meterVars, glanceVars, trialVars>>
Chain == world = "chain" /\ ChainNext
         /\ UNCHANGED <<world, orgVars, ledgerVars, ruleVars, extraVars,
                        loopVars, hoursVars, meterVars, glanceVars, trialVars>>
Rules == world = "rules" /\ RulesNext
         /\ UNCHANGED <<world, orgVars, ledgerVars, chainVars, extraVars,
                        loopVars, hoursVars, meterVars, glanceVars, trialVars>>
Extras == world = "extras" /\ ExtrasNext
          /\ UNCHANGED <<world, orgVars, ledgerVars, chainVars, ruleVars,
                         loopVars, hoursVars, meterVars, glanceVars, trialVars>>
Loop == world = "loop" /\ LoopNext
        /\ UNCHANGED <<world, orgVars, ledgerVars, chainVars, ruleVars,
                       extraVars, hoursVars, meterVars, glanceVars, trialVars>>
Week == world = "hours" /\ Minute
        /\ UNCHANGED <<world, orgVars, ledgerVars, chainVars, ruleVars,
                       extraVars, loopVars, meterVars, glanceVars, trialVars>>
Meter == world = "meter" /\ MeterNext
         /\ UNCHANGED <<world, orgVars, ledgerVars, chainVars, ruleVars,
                        extraVars, loopVars, hoursVars, glanceVars, trialVars>>
Glance == world = "glance" /\ GlanceNext
          /\ UNCHANGED <<world, orgVars, ledgerVars, chainVars, ruleVars,
                         extraVars, loopVars, hoursVars, meterVars, trialVars>>
Trial == world = "trials" /\ TrialsNext
         /\ UNCHANGED <<world, orgVars, ledgerVars, chainVars, ruleVars,
                        extraVars, loopVars, hoursVars, meterVars, glanceVars>>

Next == Org \/ Ledger \/ Chain \/ Rules \/ Extras \/ Loop \/ Week \/ Meter
          \/ Glance \/ Trial

\* OrgFairness, LedgerFairness, ChainFairness and MeterFairness, each in its world.
Fairness ==
  /\ WF_orgMoving(world = "org" /\ OrgEvaluation)
  /\ WF_orgMoving(world = "org" /\ RouteApprovals)
  /\ WF_ledgerMoving(world = "ledger" /\ Once)
  /\ WF_ledgerMoving(world = "ledger" /\ SettleLines)
  /\ WF_ledgerMoving(world = "ledger" /\ Restart)
  /\ WF_chainMoving(world = "chain" /\ EndSnapshot)
  /\ \A p \in DOMAIN Feeds : WF_chainMoving(world = "chain" /\ Publisher(p))
  /\ WF_meterMoving(world = "meter" /\ ScanStep)
  /\ WF_meterMoving(world = "meter" /\ ForwardStep)
  /\ WF_meterMoving(world = "meter" /\ Interval)

Spec ==
  Init /\ [][Next]_<<world, orgVars, ledgerVars, chainVars, ruleVars, extraVars, loopVars,
                     hoursVars, meterVars, glanceVars, trialVars>> /\ Fairness
=============================================================================
