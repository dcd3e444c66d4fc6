------------------------------ MODULE Shutdown ------------------------------
(***************************************************************************)
(* The daemon's shutdown: stopDaemon of internal/daemon/daemon.go over the *)
(* HTTP server, the Supervisor of internal/infra/lifecycle, the event bus  *)
(* (as DurableLog promises it; EventBus implements that), the audit        *)
(* subscriber of internal/contexts/security/audit, and the store.          *)
(*                                                                         *)
(* A producer is an HTTP request or a supervised task that publishes one   *)
(* envelope; none of them has to end when it is asked to.                  *)
(***************************************************************************)
EXTENDS Naturals, Sequences, FiniteSets, Functions

CONSTANTS
  Requests, Tasks,
  Audited,        \* producers whose envelope the audit log records
  MaxConcurrent   \* SubscribeOptions.MaxConcurrent

Producers == Requests \cup Tasks

ASSUME ProducersAssumption ==
  /\ Requests \cap Tasks = {}
  /\ Audited \subseteq Producers
  /\ MaxConcurrent \in Nat \ {0}

VARIABLES
  at,          \* per producer: where it is
  stage,       \* where RunWithLogger and stopDaemon are
  late,        \* the stages that ran into their timeout
  stopping,    \* Supervisor.stopping
  accepted, settled, cut, phase,     \* the bus, as in DurableLog
  stored,      \* rows in the store
  storeOpen,   \* is the store open?
  subscribed,  \* is the audit subscriber registered with the bus?
  closed,      \* Subscriber.closed
  recording,   \* recorder goroutines in flight
  recorded,    \* entries in the audit log
  drops        \* Subscriber.drops

bus   == <<accepted, settled, cut, phase, stored>>
audit == <<subscribed, closed, recording, recorded, drops>>
vars  == <<at, stage, late, stopping, accepted, settled, cut, phase, stored,
           storeOpen, subscribed, closed, recording, recorded, drops>>

Log == INSTANCE DurableLog WITH Events <- Producers

Init ==
  /\ at = [p \in Producers |-> "unborn"]
  /\ stage = "serving" /\ late = {} /\ stopping = FALSE
  /\ Log!Init /\ stored = {} /\ storeOpen = TRUE
  /\ subscribed = TRUE /\ closed = FALSE
  /\ recording = {} /\ recorded = {} /\ drops = 0

Move(p, there) == at' = [at EXCEPT ![p] = there]

Ended == {"unborn", "ended", "refused"}

Active(group) == {p \in group : at[p] \notin Ended}

-----------------------------------------------------------------------------
(***************************************************************************)
(* Producers.                                                              *)
(***************************************************************************)

\* A request arrives while the listener is open.
Arrive(p) ==
  /\ p \in Requests /\ at[p] = "unborn" /\ stage = "serving"
  /\ Move(p, "running")
  /\ UNCHANGED <<stage, late, stopping, bus, storeOpen, audit>>

\* Seeded fault: Go does not look at stopping.
Go_Unconditional(p) ==
  /\ p \in Tasks /\ at[p] = "unborn" /\ stage # "exited"
  /\ Move(p, "running")
  /\ UNCHANGED <<stage, late, stopping, bus, storeOpen, audit>>

\* Supervisor.Go, from the boot or from a handler; refused once Wait began.
Go(p) ==
  /\ p \in Tasks /\ at[p] = "unborn" /\ stage # "exited"
  /\ Move(p, IF stopping THEN "refused" ELSE "running")
  /\ UNCHANGED <<stage, late, stopping, bus, storeOpen, audit>>

\* Publish loads closed: a closed bus takes nothing.
Publish(p) ==
  /\ at[p] = "running"
  /\ Move(p, IF phase = "open" THEN "sending" ELSE "published")
  /\ UNCHANGED <<stage, late, stopping, bus, storeOpen, audit>>

\* The channel takes the envelope.
Send(p) ==
  /\ at[p] = "sending"
  /\ Log!Accept(p)
  /\ Move(p, "accepted")
  /\ UNCHANGED <<stage, late, stopping, stored, storeOpen, audit>>

\* notify copies the subscribers under the lock, and calls them without it.
Notify(p) ==
  /\ at[p] = "accepted"
  /\ Move(p, IF subscribed /\ p \in Audited THEN "notifying" ELSE "published")
  /\ UNCHANGED <<stage, late, stopping, bus, storeOpen, audit>>

\* A full queue sheds the envelope.
Shed(p) ==
  /\ at[p] = "sending"
  /\ Move(p, "published")
  /\ UNCHANGED <<stage, late, stopping, bus, storeOpen, audit>>

\* Seeded fault: handle does not look at closed.
Handle_AfterClose(p) ==
  /\ at[p] = "notifying"
  /\ IF Cardinality(recording) < MaxConcurrent
     THEN recording' = recording \cup {p} /\ drops' = drops
     ELSE recording' = recording /\ drops' = drops + 1
  /\ Move(p, "published")
  /\ UNCHANGED <<stage, late, stopping, bus, storeOpen, subscribed, closed, recorded>>

\* Subscriber.handle, under its lock: a closed subscriber or a full pool
\* counts a drop, otherwise a recorder goroutine starts.
Handle(p) ==
  /\ at[p] = "notifying"
  /\ IF ~closed /\ Cardinality(recording) < MaxConcurrent
     THEN recording' = recording \cup {p} /\ drops' = drops
     ELSE recording' = recording /\ drops' = drops + 1
  /\ Move(p, "published")
  /\ UNCHANGED <<stage, late, stopping, bus, storeOpen, subscribed, closed, recorded>>

\* The handler returns, or the task; a task returns once it is cancelled.
End(p) ==
  /\ at[p] \in {"running", "published"}
  /\ p \in Tasks /\ at[p] = "published" => stage # "serving"
  /\ Move(p, "ended")
  /\ UNCHANGED <<stage, late, stopping, bus, storeOpen, audit>>

-----------------------------------------------------------------------------
(***************************************************************************)
(* The bus worker and the recorders.                                       *)
(***************************************************************************)

\* A batch is committed, or given up on; a closed store takes nothing.
Flush ==
  /\ Log!Settle
  /\ stored' \in {stored} \cup
       (IF storeOpen THEN {stored \cup Range(settled')} ELSE {})
  /\ UNCHANGED <<at, stage, late, stopping, storeOpen, audit>>

\* A recorder goroutine ends: recorded, failed, or out of its five seconds.
RecordEnd(p) ==
  /\ p \in recording
  /\ recording' = recording \ {p}
  /\ recorded' \in {recorded} \cup (IF storeOpen THEN {recorded \cup {p}} ELSE {})
  /\ UNCHANGED <<at, stage, late, stopping, bus, storeOpen, subscribed, closed, drops>>

-----------------------------------------------------------------------------
(***************************************************************************)
(* stopDaemon.  Each stage runs even when the one before it timed out.     *)
(***************************************************************************)

\* The context ends: a signal, or the binary was replaced; server.Shutdown
\* closes the listener.
Signal ==
  /\ stage = "serving"
  /\ stage' = "http"
  /\ UNCHANGED <<at, late, stopping, bus, storeOpen, audit>>

\* Seeded fault: the stage waits for as long as it takes.
Leave_Unbounded(this, next, done) ==
  /\ stage = this /\ stage' = next
  /\ done /\ late' = late

\* From one stage to the next, in time or not.
Leave(this, next, done) ==
  /\ stage = this /\ stage' = next
  /\ \/ done /\ late' = late
     \/ late' = late \cup {this}

\* server.Shutdown waits for the requests in flight; after the grace period
\* server.Close cuts their connections, and the handlers run on.
HttpShutdown ==
  /\ Leave("http", "wait", Active(Requests) = {})
  /\ stopping' = TRUE
  /\ UNCHANGED <<at, bus, storeOpen, audit>>

\* Seeded fault: the bus is drained before the tasks are waited for.
WaitSubsystems_AfterDrain ==
  /\ Leave("wait", "drain", TRUE)
  /\ Log!BeginClose
  /\ UNCHANGED <<at, stopping, stored, storeOpen, audit>>

\* Supervisor.Wait, which set stopping first; then Drain closes the bus.
WaitSubsystems ==
  /\ Leave("wait", "drain", Active(Tasks) = {})
  /\ Log!BeginClose
  /\ UNCHANGED <<at, stopping, stored, storeOpen, audit>>

\* Bus.Close returns.
DrainEvents ==
  /\ \/ Log!CloseOK /\ late' = late
     \/ Log!CloseTimeout /\ late' = late \cup {"drain"}
  /\ stage = "drain" /\ stage' = "audit"
  /\ UNCHANGED <<at, stopping, stored, storeOpen, audit>>

\* Subscriber.Close marks itself closed and detaches, under its lock.
AuditClose ==
  /\ stage = "audit" /\ ~closed
  /\ closed' = TRUE /\ subscribed' = FALSE
  /\ UNCHANGED <<at, stage, late, stopping, bus, storeOpen, recording, recorded, drops>>

\* wg.Wait, without a bound, then Components.Shutdown closes the store.
CloseComponents ==
  /\ stage = "audit" /\ closed /\ recording = {}
  /\ stage' = "exited" /\ storeOpen' = FALSE
  /\ UNCHANGED <<at, late, stopping, bus, audit>>

Terminated ==
  /\ stage = "exited" /\ Active(Producers) = {} /\ recording = {}
  /\ UNCHANGED vars

-----------------------------------------------------------------------------

Producer(p) == Arrive(p) \/ Go(p) \/ Publish(p) \/ Send(p) \/ Shed(p)
                 \/ Notify(p) \/ Handle(p) \/ End(p)

StopDaemon == HttpShutdown \/ WaitSubsystems \/ DrainEvents
                \/ AuditClose \/ CloseComponents

Next == \/ \E p \in Producers : Producer(p) \/ RecordEnd(p)
        \/ Flush \/ Signal \/ StopDaemon \/ Terminated

(***************************************************************************)
(* stopDaemon goes on, its timers fire, and a recorder ends at the latest  *)
(* with its five seconds.  Neither a producer nor the bus worker is        *)
(* assumed to make progress: requests hang, tasks ignore cancellation, the *)
(* store stays contended.                                                  *)
(***************************************************************************)
Spec == /\ Init /\ [][Next]_vars
        /\ WF_vars(StopDaemon)
        /\ \A p \in Producers : WF_vars(RecordEnd(p))

-----------------------------------------------------------------------------
(***************************************************************************)
(* Properties.                                                             *)
(***************************************************************************)

\* stopDaemon: "Close storage last, once nothing writes to it." When no stage
\* ran into its timeout, every producer had ended and every accepted envelope
\* was through the bus before the store closed, and none starts after.
CleanStopLosesNothing ==
  ~storeOpen /\ late = {} =>
    /\ Active(Producers) = {}
    /\ settled = accepted

\* Whatever timed out before, no audit recorder is left when the store closes,
\* and none starts after: handle's check of closed and its wg.Add are one step
\* under the lock that Close takes.
NoRecorderOutlivesTheStore == ~storeOpen => recording = {}

\* A shutdown ends, though requests hang, tasks ignore cancellation and the
\* store stays contended.
ShutdownEnds == stage = "http" ~> stage = "exited"
=============================================================================
