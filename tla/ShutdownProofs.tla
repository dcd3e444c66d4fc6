--------------------------- MODULE ShutdownProofs ---------------------------
(***************************************************************************)
(* Proofs about Shutdown, for every set of requests and tasks.             *)
(***************************************************************************)
EXTENDS Shutdown, SequenceTheorems, TLAPS

Places == {"unborn", "running", "sending", "accepted",
           "notifying", "published", "ended", "refused"}

\* Types, and how the stage, the bus and the store go together.
StageInv ==
  /\ at \in [Producers -> Places]
  /\ stage \in {"serving", "http", "wait", "drain", "audit", "exited"}
  /\ stage \notin {"serving", "http"} => stopping = TRUE
  /\ ~storeOpen => stage = "exited" /\ closed = TRUE /\ recording = {}

\* The settled envelopes are a prefix of the accepted ones.
PrefixInv ==
  /\ accepted \in Seq(Producers) /\ settled \in Seq(Producers) /\ cut \in Nat
  /\ Len(settled) <= Len(accepted)
  /\ \A i \in 1 .. Len(settled) : settled[i] = accepted[i]

\* A stage that was left in time left nobody behind, and nobody starts since.
QuietInv ==
  /\ stage \notin {"serving", "http"} /\ "http" \notin late
       => Active(Requests) = {}
  /\ stage \in {"drain", "audit", "exited"} /\ "wait" \notin late
       => Active(Tasks) = {}

\* Once everybody has ended nothing is accepted any more, so a bus that drained
\* up to where Close began drained all of it.
DrainedInv ==
  /\ stage \in {"drain", "audit", "exited"} /\ {"http", "wait"} \cap late = {}
       => cut = Len(accepted)
  /\ stage \in {"audit", "exited"} /\ "drain" \notin late => Len(settled) >= cut

IInv == StageInv /\ PrefixInv /\ QuietInv /\ DrainedInv

-----------------------------------------------------------------------------

\* A producer that moves without being started adds nobody to the active ones.
LEMMA MoveKeepsQuiet ==
  ASSUME at \in [Producers -> Places], NEW p \in Producers, NEW there \in Places,
         Move(p, there), at[p] \notin Ended \/ there \in Ended,
         NEW group, group \subseteq Producers, Active(group) = {}
  PROVE  Active(group)' = {}
BY DEF Move, Active

\* Who may move without being started, in one fact per property of the step.
LEMMA InitInv == Init => IInv
<1> SUFFICES ASSUME Init PROVE IInv
  OBVIOUS
<1>1. at \in [Producers -> Places]
  BY DEF Init, Places
<1>2. accepted = << >> /\ settled = << >> /\ cut = 0
  BY DEF Init, Log!Init
<1>3. PrefixInv
  BY <1>2 DEF PrefixInv
<1>4. StageInv /\ QuietInv /\ DrainedInv
  BY <1>1 DEF Init, StageInv, QuietInv, DrainedInv
<1> QED BY <1>3, <1>4 DEF IInv

\* A step that moves a producer already running, and leaves the stages and the
\* bus's positions alone.
LEMMA Running ==
  ASSUME IInv, NEW p \in Producers, NEW there \in Places, Move(p, there),
         at[p] \notin Ended \/ there \in Ended,
         UNCHANGED <<stage, late, stopping, storeOpen, closed>>,
         UNCHANGED <<accepted, settled, cut>>,
         closed = TRUE => recording' \subseteq recording
  PROVE  IInv'
<1>1. at' \in [Producers -> Places]
  BY DEF IInv, StageInv, Move
<1>2. StageInv'
  BY <1>1 DEF IInv, StageInv
<1>3. QuietInv'
  BY MoveKeepsQuiet DEF IInv, StageInv, QuietInv, Producers
<1>4. PrefixInv' /\ DrainedInv'
  BY DEF IInv, PrefixInv, DrainedInv
<1> QED BY <1>2, <1>3, <1>4 DEF IInv

\* The channel takes an envelope only from a producer that is active.
LEMMA Sending ==
  ASSUME IInv, NEW p \in Producers, Send(p)
  PROVE  IInv'
<1>1. at[p] = "sending" /\ Move(p, "accepted")
      /\ accepted' = Append(accepted, p) /\ settled' = settled /\ cut' = cut
      /\ stage' = stage /\ late' = late /\ stopping' = stopping
      /\ storeOpen' = storeOpen /\ closed' = closed /\ recording' = recording
  BY DEF Send, Log!Accept, audit
<1>2. StageInv'
  BY <1>1 DEF IInv, StageInv, Move, Places
<1>3. QuietInv'
  BY <1>1, MoveKeepsQuiet DEF IInv, StageInv, QuietInv, Producers, Ended, Places
<1>4. PrefixInv'
  BY <1>1, AppendProperties, LenProperties DEF IInv, PrefixInv
<1>5. p \in Active(Requests) \/ p \in Active(Tasks)
  BY <1>1 DEF Active, Ended, Producers
<1>6. DrainedInv'
  BY <1>1, <1>5 DEF IInv, QuietInv, DrainedInv
<1> QED BY <1>2, <1>3, <1>4, <1>6 DEF IInv

\* A request starts while serving, a task while nobody waits for the tasks.
LEMMA Starting ==
  ASSUME IInv, NEW p \in Producers, Arrive(p) \/ Go(p)
  PROVE  IInv'
<1>1. /\ UNCHANGED <<stage, late, stopping, storeOpen, closed, recording>>
      /\ UNCHANGED <<accepted, settled, cut>>
  BY DEF Arrive, Go, bus, audit
<1>2. at' \in [Producers -> Places]
  BY DEF Arrive, Go, Move, IInv, StageInv, Places
<1>3. StageInv' /\ PrefixInv' /\ DrainedInv'
  BY <1>1, <1>2 DEF IInv, StageInv, PrefixInv, DrainedInv
<1>4. QuietInv'
  <2>1. CASE Arrive(p)
    <3>1. stage = "serving"
      BY <2>1 DEF Arrive
    <3> QED BY <1>1, <3>1 DEF QuietInv
  <2>2. CASE Go(p) /\ stopping = TRUE
    <3>1. Move(p, "refused")
      BY <2>2 DEF Go
    <3> QED BY <1>1, <3>1, MoveKeepsQuiet
            DEF IInv, StageInv, QuietInv, Producers, Ended, Places
  <2>3. CASE Go(p) /\ stopping # TRUE
    <3>1. stage \in {"serving", "http"}
      BY <2>3 DEF IInv, StageInv
    <3> QED BY <1>1, <3>1 DEF QuietInv
  <2> QED BY <2>1, <2>2, <2>3
<1> QED BY <1>3, <1>4 DEF IInv

\* The bus worker and the recorders change neither the stage nor a producer.
LEMMA Flushing ==
  ASSUME IInv, Flush
  PROVE  IInv'
<1>1. /\ UNCHANGED <<at, stage, late, stopping, storeOpen, closed, recording>>
      /\ accepted' = accepted /\ cut' = cut
  BY DEF Flush, Log!Settle, audit
<1>2. PICK n \in (Len(settled) + 1) .. Len(accepted) :
        settled' = SubSeq(accepted, 1, n)
  BY DEF Flush, Log!Settle
<1>3. Len(settled) \in Nat /\ Len(accepted) \in Nat
  BY LenProperties DEF IInv, PrefixInv
<1>4. /\ settled' \in Seq(Producers) /\ Len(settled') = n
      /\ \A i \in 1 .. n : settled'[i] = accepted[i]
  <2>1. n \in Nat /\ 1 <= n /\ n <= Len(accepted)
    BY <1>2, <1>3
  <2> QED BY <1>2, <1>3, <2>1 DEF IInv, PrefixInv
<1>5. PrefixInv'
  BY <1>1, <1>2, <1>3, <1>4 DEF IInv, PrefixInv
<1>6. Len(settled') >= Len(settled)
  BY <1>2, <1>3, <1>4
<1>7. StageInv' /\ QuietInv'
  BY <1>1 DEF IInv, StageInv, QuietInv, Active
<1>8. DrainedInv'
  BY <1>1, <1>3, <1>4, <1>6 DEF IInv, DrainedInv, PrefixInv
<1> QED BY <1>5, <1>7, <1>8 DEF IInv

\* Each stage of stopDaemon, left in time or late.
LEMMA Stopping ==
  ASSUME IInv, Signal \/ StopDaemon
  PROVE  IInv'
<1>1. CASE Signal
  BY <1>1 DEF Signal, IInv, StageInv, PrefixInv, QuietInv, DrainedInv, Active,
              bus, audit
<1>2. CASE HttpShutdown
  BY <1>2 DEF HttpShutdown, Leave, IInv, StageInv, PrefixInv, QuietInv,
              DrainedInv, Active, bus, audit
<1>3. CASE WaitSubsystems
  <2>1. /\ UNCHANGED <<at, stopping, storeOpen, closed, recording>>
        /\ accepted' = accepted /\ settled' = settled /\ cut' = Len(accepted)
    BY <1>3 DEF WaitSubsystems, Log!BeginClose, audit
  <2>2. Leave("wait", "drain", Active(Tasks) = {})
    BY <1>3 DEF WaitSubsystems
  <2>3. StageInv' /\ QuietInv' /\ DrainedInv'
    BY <2>1, <2>2 DEF IInv, StageInv, QuietInv, DrainedInv, Leave, Active
  <2>4. PrefixInv'
    BY <2>1, LenProperties DEF IInv, PrefixInv
  <2> QED BY <2>3, <2>4 DEF IInv
<1>4. CASE DrainEvents
  <2>1. /\ UNCHANGED <<at, stopping, storeOpen, closed, recording>>
        /\ UNCHANGED <<accepted, settled, cut>>
        /\ stage = "drain" /\ stage' = "audit"
        /\ \/ Len(settled) >= cut /\ late' = late
           \/ late' = late \cup {"drain"}
    BY <1>4 DEF DrainEvents, Log!CloseOK, Log!CloseTimeout, audit
  <2> QED BY <2>1 DEF IInv, StageInv, PrefixInv, QuietInv, DrainedInv, Active
<1>5. CASE AuditClose
  BY <1>5 DEF AuditClose, IInv, StageInv, PrefixInv, QuietInv, DrainedInv, Active,
              bus
<1>6. CASE CloseComponents
  BY <1>6 DEF CloseComponents, IInv, StageInv, PrefixInv, QuietInv, DrainedInv,
              Active, bus, audit
<1> QED BY <1>1, <1>2, <1>3, <1>4, <1>5, <1>6 DEF StopDaemon

\* The invariant is kept by every step.
LEMMA NextInv == IInv /\ [Next]_vars => IInv'
<1> SUFFICES ASSUME IInv, [Next]_vars PROVE IInv'
  OBVIOUS
<1>1. ASSUME NEW p \in Producers, Producer(p) \/ RecordEnd(p) PROVE IInv'
  <2>1. CASE Arrive(p) \/ Go(p)
    BY <2>1, Starting
  <2>2. CASE Send(p)
    BY <2>2, Sending
  <2>3. CASE Publish(p)
    <3>1. \E there \in Places \ Ended : Move(p, there)
      BY <2>3 DEF Publish, Places, Ended
    <3> QED BY <2>3, <3>1, Running DEF Publish, bus, audit, Ended
  <2>4. CASE Shed(p) \/ Notify(p) \/ End(p)
    <3>1. at[p] \notin Ended /\ \E there \in Places : Move(p, there)
      BY <2>4 DEF Shed, Notify, End, Places, Ended
    <3> QED BY <2>4, <3>1, Running DEF Shed, Notify, End, bus, audit
  <2>5. CASE Handle(p)
    <3>1. at[p] \notin Ended /\ Move(p, "published") /\ "published" \in Places
      BY <2>5 DEF Handle, Places, Ended
    <3>2. closed = TRUE => recording' \subseteq recording
      BY <2>5 DEF Handle
    <3> QED BY <2>5, <3>1, <3>2, Running DEF Handle, bus
  <2>6. CASE RecordEnd(p)
    BY <2>6 DEF RecordEnd, IInv, StageInv, PrefixInv, QuietInv, DrainedInv,
                Active, bus
  <2> QED BY <1>1, <2>1, <2>2, <2>3, <2>4, <2>5, <2>6 DEF Producer
<1>2. CASE Flush
  BY <1>2, Flushing
<1>3. CASE Signal \/ StopDaemon
  BY <1>3, Stopping
<1>4. CASE UNCHANGED vars
  BY <1>4 DEF vars, IInv, StageInv, PrefixInv, QuietInv, DrainedInv, Active
<1> QED BY <1>1, <1>2, <1>3, <1>4 DEF Next, Terminated

\* The invariant holds of every stop.
LEMMA Inductive == Spec => []IInv
BY InitInv, NextInv, PTL DEF Spec

-----------------------------------------------------------------------------

\* Whatever timed out before, no audit recorder is left when stopDaemon closes
\* the store, and none starts after.
THEOREM RecordersEnd == Spec => []NoRecorderOutlivesTheStore
<1>1. IInv => NoRecorderOutlivesTheStore
  BY DEF IInv, StageInv, NoRecorderOutlivesTheStore
<1> QED BY <1>1, Inductive, PTL

\* A stop in which no stage ran into its timeout closes the store on ended
\* producers and a drained bus.
THEOREM CleanStop == Spec => []CleanStopLosesNothing
<1>1. IInv => CleanStopLosesNothing
  <2> SUFFICES ASSUME IInv, ~storeOpen, late = {}
               PROVE  Active(Producers) = {} /\ settled = accepted
    BY DEF CleanStopLosesNothing
  <2>1. stage = "exited"
    BY DEF IInv, StageInv
  <2>2. Active(Requests) = {} /\ Active(Tasks) = {}
    BY <2>1 DEF IInv, QuietInv
  <2>3. Active(Producers) = {}
    BY <2>2 DEF Active, Producers
  <2>4. Len(settled) >= Len(accepted)
    BY <2>1 DEF IInv, DrainedInv
  <2>5. settled = accepted
    BY <2>4, SeqEqual, LenProperties DEF IInv, PrefixInv
  <2> QED BY <2>3, <2>5
<1> QED BY <1>1, Inductive, PTL
=============================================================================
