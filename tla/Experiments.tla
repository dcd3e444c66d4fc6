---------------------------- MODULE Experiments ----------------------------
(***************************************************************************)
(* Routing trials: the experiment manager of                               *)
(* internal/capability/experiments/experiments.go over its append-only     *)
(* ledger, the event store.                                                *)
(*                                                                         *)
(* The proxy's requests, of which one execution may have several at once,  *)
(* call Assign under the manager's lock; Start and Stop are other          *)
(* processes (the CLI, the MCP server) and take none.  The trials here are *)
(* over one route, which every request asks for.  Times are nanoseconds    *)
(* and no two are alike, so the clock counts the times taken.              *)
(***************************************************************************)
EXTENDS Naturals, Sequences, FiniteSets, FiniteSetsExt

CONSTANTS
  Trials,         \* [name, pairs : MaxPairs, lasts : Duration]
  TrialSetups,    \* [trials : those an operator may start, requests : those sent,
                  \*  time : bound on the clock]
  Requests,       \* what a client has open at a time: each sends one request after another
  ExecutionOf,    \* [Requests -> execution ids]: the execution they are made for
  VariantFirst    \* randomizedFirst: the <<trial, pair>>s whose first arm is the variant

ASSUME TrialsAssumption ==
  /\ \A t \in Trials : t.pairs \in Nat \ {0} /\ t.lasts \in Nat \ {0}
  /\ \A t, u \in Trials : t.name = u.name => t = u
  /\ \A s \in TrialSetups :
       s.trials \subseteq Trials /\ s.requests \subseteq Requests /\ s.time \in Nat
  /\ DOMAIN ExecutionOf = Requests

Executions == {ExecutionOf[r] : r \in Requests}

VARIABLES
  trialSetup, \* which of TrialSetups, chosen once
  trialLog,   \* the ledger, in the order of its appends
  stopCall,   \* per trial: the time Stop took for its event, or NotStopping
  assignCall, \* per request: its Assign: place, time, the event to append
  locked,     \* Manager.mu
  trialNow,
  arms        \* history: per execution, the assignments its requests were given

trialVars == <<trialSetup, trialLog, stopCall, assignCall, locked, trialNow, arms>>

NotStopping == Max({s.time : s \in TrialSetups}) + 1
NoExecution == "none"
NoEvent == [trial |-> "none", stage |-> "none", at |-> 0, execution |-> NoExecution,
            pair |-> 0, arm |-> "none"]
NoAssign == [at |-> "idle", time |-> 0, event |-> NoEvent]

TrialsInit ==
  /\ trialSetup \in TrialSetups
  /\ trialLog = << >> /\ locked = FALSE /\ trialNow = 0
  /\ stopCall = [t \in Trials |-> NotStopping]
  /\ assignCall = [r \in Requests |-> NoAssign]
  /\ arms = [e \in Executions |-> {}]

\* utcNow
TakeTime == trialNow < trialSetup.time /\ trialNow' = trialNow + 1

-----------------------------------------------------------------------------
(***************************************************************************)
(* Fold: what the ledger says of a trial.                                  *)
(***************************************************************************)

EventsOf(t) == {i \in DOMAIN trialLog : trialLog[i].trial = t.name}

Known(t) == EventsOf(t) # {}

\* The last event by time, wherever it is in the ledger.
LastOf(t) == CHOOSE i \in EventsOf(t) : \A j \in EventsOf(t) : trialLog[j].at <= trialLog[i].at

Assignments(t) == Cardinality({i \in EventsOf(t) : trialLog[i].stage = "assigned"})

\* EndsAt, as every event of a trial repeats it.
EndsAt(t) ==
  Min({trialLog[i].at : i \in {j \in EventsOf(t) : trialLog[j].stage = "started"}}) + t.lasts

\* Active: neither stopped, nor over, nor full.
IsActive(t, at) ==
  /\ Known(t)
  /\ trialLog[LastOf(t)].stage \in {"started", "assigned"}
  /\ EndsAt(t) > at
  /\ Assignments(t) < t.pairs * 2

-----------------------------------------------------------------------------
(***************************************************************************)
(* Start and Stop.                                                         *)
(***************************************************************************)

\* Start, with a policy ValidateUtilityPolicy takes: one append.
StartTrial(t) ==
  /\ t \in trialSetup.trials /\ ~Known(t) /\ TakeTime
  /\ trialLog' = Append(trialLog, [NoEvent EXCEPT !.trial = t.name, !.stage = "started",
                                                  !.at = trialNow])
  /\ UNCHANGED <<trialSetup, stopCall, assignCall, locked, arms>>

\* Stop has found the trial, and takes the time for its event.
StopTrial(t) ==
  /\ Known(t) /\ stopCall[t] = NotStopping /\ TakeTime
  /\ stopCall' = [stopCall EXCEPT ![t] = trialNow]
  /\ UNCHANGED <<trialSetup, trialLog, assignCall, locked, arms>>

\* Stop's append, which may fail.
AppendStop(t) ==
  /\ stopCall[t] # NotStopping
  /\ trialLog' \in {trialLog, Append(trialLog, [NoEvent EXCEPT !.trial = t.name,
                                                  !.stage = "stopped", !.at = stopCall[t]])}
  /\ stopCall' = [stopCall EXCEPT ![t] = NotStopping]
  /\ UNCHANGED <<trialSetup, assignCall, locked, trialNow, arms>>

-----------------------------------------------------------------------------
(***************************************************************************)
(* Assign.                                                                 *)
(***************************************************************************)

\* A request takes its time and calls Assign, for its execution.
RouteRequest(r) ==
  /\ r \in trialSetup.requests /\ assignCall[r] = NoAssign /\ TakeTime
  /\ assignCall' = [assignCall EXCEPT ![r].at = "called", ![r].time = trialNow]
  /\ UNCHANGED <<trialSetup, trialLog, stopCall, locked, arms>>

\* The assignments an execution already has.
Own(e) == {i \in DOMAIN trialLog : trialLog[i].stage = "assigned" /\ trialLog[i].execution = e}

AssignmentOf(event) == [trial |-> event.trial, pair |-> event.pair, arm |-> event.arm]

\* The request goes on, with the arm it is given.
Gives(r, event) == arms' = [arms EXCEPT ![ExecutionOf[r]] = @ \cup {AssignmentOf(event)}]

Returns(r) == assignCall' = [assignCall EXCEPT ![r] = NoAssign]

\* The next arm of a trial's pairs.
NextEvent(t, r) ==
  LET used  == Assignments(t)
      pair  == used \div 2 + 1
      first == <<t.name, pair>> \in VariantFirst
      isVariant == IF used % 2 = 0 THEN first ELSE ~first
  IN  [trial |-> t.name, stage |-> "assigned", at |-> assignCall[r].time,
       execution |-> ExecutionOf[r], pair |-> pair,
       arm |-> IF isVariant THEN "variant" ELSE "baseline"]

\* The trial that ends first, of the active ones.
Eligible(at) ==
  {t \in Trials : IsActive(t, at) /\ \A u \in Trials : IsActive(u, at) => EndsAt(t) <= EndsAt(u)}

\* The execution keeps the arm it has, also of a trial that is over.
Reuse(r) ==
  /\ Own(ExecutionOf[r]) # {}
  /\ Gives(r, trialLog[Max(Own(ExecutionOf[r]))])
  /\ Returns(r) /\ locked' = locked

\* Otherwise it gets the next arm of a trial, which is written before it counts.
Choose(r) ==
  /\ Own(ExecutionOf[r]) = {}
  /\ \E t \in Eligible(assignCall[r].time) :
       assignCall' = [assignCall EXCEPT ![r].at = "append", ![r].event = NextEvent(t, r)]
  /\ locked' = TRUE /\ arms' = arms

\* Or none: the ordinary policy.
NotEnrolled(r) ==
  /\ Own(ExecutionOf[r]) = {} /\ Eligible(assignCall[r].time) = {}
  /\ Returns(r) /\ UNCHANGED <<locked, arms>>

\* Seeded fault: Assign takes no lock.
Assign_Unlocked(r) ==
  /\ assignCall[r].at = "called"
  /\ Reuse(r) \/ Choose(r) \/ NotEnrolled(r)
  /\ UNCHANGED <<trialSetup, trialLog, stopCall, trialNow>>

\* Under the lock, the ledger is read once; only an append holds the lock on.
Assign(r) ==
  /\ assignCall[r].at = "called" /\ ~locked
  /\ Reuse(r) \/ Choose(r) \/ NotEnrolled(r)
  /\ UNCHANGED <<trialSetup, trialLog, stopCall, trialNow>>

\* The read fails: the request stays on the baseline.
AssignFails(r) ==
  /\ assignCall[r].at = "called" /\ ~locked
  /\ Returns(r)
  /\ UNCHANGED <<trialSetup, trialLog, stopCall, locked, trialNow, arms>>

\* The assignment is appended and given, or the append fails and nothing is.
AppendAssigned(r) ==
  LET event == assignCall[r].event
  IN  /\ assignCall[r].at = "append"
      /\ \/ trialLog' = Append(trialLog, event) /\ Gives(r, event)
         \/ UNCHANGED <<trialLog, arms>>
      /\ Returns(r) /\ locked' = FALSE
      /\ UNCHANGED <<trialSetup, stopCall, trialNow>>

TrialsNext ==
  \/ \E t \in Trials : StartTrial(t) \/ StopTrial(t) \/ AppendStop(t)
  \/ \E r \in Requests : RouteRequest(r) \/ Assign(r) \/ AssignFails(r) \/ AppendAssigned(r)

TrialsSpec == TrialsInit /\ [][TrialsNext]_trialVars

-----------------------------------------------------------------------------
(***************************************************************************)
(* Properties.                                                             *)
(***************************************************************************)

AssignedTo(t, pair) ==
  {i \in EventsOf(t) : trialLog[i].stage = "assigned" /\ trialLog[i].pair = pair}

\* The evidence a trial is judged on: "Manager serialises assignment within one
\* process and persists every step." However requests, also of one execution,
\* stops and failed appends interleave, a pair holds at most one execution of
\* each arm and is filled before the next, no trial enrols more than its pairs,
\* and an execution has one arm, the recorded one, for all its requests.
EvidenceIsPaired ==
  /\ \A t \in Trials :
       /\ Assignments(t) <= 2 * t.pairs
       /\ \A p \in 1 .. t.pairs :
            /\ \A i, j \in AssignedTo(t, p) : trialLog[i].arm = trialLog[j].arm => i = j
            /\ p > 1 /\ AssignedTo(t, p) # {} => Cardinality(AssignedTo(t, p - 1)) = 2
  /\ \A e \in Executions :
       Cardinality(arms[e]) <= 1 /\ arms[e] \subseteq {AssignmentOf(trialLog[i]) : i \in Own(e)}
=============================================================================
