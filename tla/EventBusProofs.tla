--------------------------- MODULE EventBusProofs ---------------------------
(***************************************************************************)
(* Proofs about EventBus, for every set of envelopes, queue capacity,      *)
(* batch size and retry budget.                                            *)
(***************************************************************************)
EXTENDS EventBus, SequenceTheorems, FunctionTheorems, FiniteSetTheorems, TLAPS

-----------------------------------------------------------------------------
(***************************************************************************)
(* Sequences.                                                              *)
(***************************************************************************)

\* Moving the head of the queue to the end of the batch leaves the order in
\* which they hold the envelopes alone.
LEMMA MoveHead ==
  ASSUME NEW S, NEW b \in Seq(S), NEW q \in Seq(S), q # << >>
  PROVE  Append(b, Head(q)) \o Tail(q) = b \o q
<1>1. /\ Head(q) \in S /\ Tail(q) \in Seq(S) /\ Len(Tail(q)) = Len(q) - 1
      /\ \A i \in 1 .. Len(Tail(q)) : Tail(q)[i] = q[i+1]
  BY HeadTailProperties
<1>2. Len(q) \in Nat \ {0} /\ Len(b) \in Nat
  BY EmptySeq, LenProperties
<1>3. Head(q) = q[1]
  OBVIOUS
<1>4. /\ Append(b, Head(q)) \in Seq(S)
      /\ Len(Append(b, Head(q))) = Len(b) + 1
      /\ \A i \in 1 .. Len(b) : Append(b, Head(q))[i] = b[i]
      /\ Append(b, Head(q))[Len(b) + 1] = Head(q)
  BY <1>1, AppendProperties
<1> DEFINE left == Append(b, Head(q)) \o Tail(q)
           right == b \o q
<1>5. /\ left \in Seq(S) /\ Len(left) = Len(b) + 1 + Len(Tail(q))
      /\ \A i \in 1 .. Len(b) + 1 + Len(Tail(q)) :
           left[i] = IF i <= Len(b) + 1 THEN Append(b, Head(q))[i]
                     ELSE Tail(q)[i - (Len(b) + 1)]
  BY <1>1, <1>4, ConcatProperties
<1>6. /\ right \in Seq(S) /\ Len(right) = Len(b) + Len(q)
      /\ \A i \in 1 .. Len(b) + Len(q) :
           right[i] = IF i <= Len(b) THEN b[i] ELSE q[i - Len(b)]
  BY ConcatProperties
<1>7. Len(left) = Len(right)
  BY <1>1, <1>2, <1>5, <1>6
<1>8. ASSUME NEW i \in 1 .. Len(left)
      PROVE  left[i] = right[i]
  <2>1. CASE i <= Len(b)
    BY <2>1, <1>1, <1>2, <1>4, <1>5, <1>6, <1>7
  <2>2. CASE i = Len(b) + 1
    BY <2>2, <1>1, <1>2, <1>3, <1>4, <1>5, <1>6, <1>7
  <2>3. CASE i > Len(b) + 1
    <3>1. i - (Len(b) + 1) \in 1 .. Len(Tail(q))
      BY <2>3, <1>1, <1>2, <1>5
    <3>2. left[i] = Tail(q)[i - (Len(b) + 1)]
      BY <2>3, <1>1, <1>2, <1>5
    <3>3. Tail(q)[i - (Len(b) + 1)] = q[i - Len(b)]
      BY <3>1, <1>1, <1>2
    <3>4. right[i] = q[i - Len(b)]
      BY <2>3, <1>1, <1>2, <1>6, <1>7
    <3> QED BY <3>2, <3>3, <3>4
  <2> QED BY <2>1, <2>2, <2>3, <1>2, <1>5
<1> QED BY <1>5, <1>6, <1>7, <1>8, SeqEqual

\* Concatenation is associative, in the form the steps below use.
LEMMA Assoc ==
  \A s, t, u \in Seq(Events) : (s \o t) \o u = s \o (t \o u)
BY ConcatAssociative

\* The range of a sequence over S is a finite subset of S.
LEMMA RangeFinite ==
  ASSUME NEW S, NEW s \in Seq(S)
  PROVE  IsFiniteSet(Range(s)) /\ Range(s) \subseteq S
<1>1. Len(s) \in Nat /\ s \in [1 .. Len(s) -> S] /\ DOMAIN s = 1 .. Len(s)
  BY LenProperties
<1>2. s \in Surjection(1 .. Len(s), Range(s))
  BY <1>1 DEF Surjection, Range
<1>3. IsFiniteSet(1 .. Len(s))
  BY <1>1, FS_Interval
<1> QED BY <1>1, <1>2, <1>3, FS_Surjection DEF Range

-----------------------------------------------------------------------------
(***************************************************************************)
(* The inductive invariant.  TypeOK is not inductive alone: that the batch *)
(* stays within BatchSize needs that a full batch is being flushed; that   *)
(* Close drains needs to know where the worker is when it reports done.    *)
(***************************************************************************)

\* Between flushes the batch is short, during one it is not empty, and the
\* worker leaves nothing behind.
BatchInv ==
  /\ worker \in {"select", "drain"} => Len(batch) < BatchSize
  /\ worker \in {"append", "judge"} => batch # << >>
  /\ worker = "done" => batch = << >>

\* b.closed and b.stop follow Close's progress, and the worker leaves its
\* main loop only once b.stop is closed.
CloseInv ==
  /\ stop <=> closer \in {"waiting", "drained", "timedOut"}
  /\ worker \in {"drain", "done"} \/ after \in {"drain", "done"} => stop
  /\ closer = "drained" => worker = "done"

\* What was accepted before Close began is settled, or part of the last
\* flush, once the drain loop has seen the queue empty.
DrainInv ==
  /\ cut <= Len(accepted)
  /\ worker \in {"append", "judge"} /\ after = "done"
       => cut <= Len(settled) + Len(batch)
  /\ worker = "done" => cut <= Len(settled)

IInv == TypeOK /\ NothingVanishes /\ BatchInv /\ CloseInv /\ DrainInv

\* skippedInvalid stays a natural number.
LEMMA SkippedType ==
  ASSUME TypeOK, CountSkipped
  PROVE  skipped' \in Nat
<1>1. IsFiniteSet(Range(batch) \cap Malformed)
  BY RangeFinite, FS_Subset DEF TypeOK
<1>2. Cardinality(Range(batch) \cap Malformed) \in Nat
  BY <1>1, FS_CardinalityType
<1> QED BY <1>2, SizesAssumption DEF TypeOK, CountSkipped

\* How long the parts are.
LEMMA Lengths ==
  ASSUME TypeOK, NothingVanishes
  PROVE  /\ Len(queue) \in Nat /\ Len(batch) \in Nat
         /\ Len(settled) \in Nat /\ Len(accepted) \in Nat
         /\ Len(accepted) = Len(settled) + Len(batch) + Len(queue)
<1>1. settled \o batch \in Seq(Events)
      /\ Len(settled \o batch) = Len(settled) + Len(batch)
  BY ConcatProperties DEF TypeOK
<1>2. Len((settled \o batch) \o queue) = Len(settled \o batch) + Len(queue)
  BY <1>1, ConcatProperties DEF TypeOK
<1> QED BY <1>1, <1>2, LenProperties DEF TypeOK, NothingVanishes

\* The bus starts empty.
LEMMA InitIInv == Init => IInv
<1> SUFFICES ASSUME Init PROVE IInv
  OBVIOUS
<1>1. << >> \in Seq(Events) /\ Len(<< >>) = 0
  BY EmptySeq
<1>2. TypeOK
  <2>1. call \in [Events -> CallState] /\ closed \in BOOLEAN /\ stop \in BOOLEAN
    BY Zenon DEF Init, CallState
  <2>2. /\ queue \in Seq(Events) /\ Len(queue) <= QueueCapacity
        /\ batch \in Seq(Events) /\ Len(batch) <= BatchSize
        /\ accepted \in Seq(Events) /\ settled \in Seq(Events)
    BY <1>1, SizesAssumption DEF Init
  <2> QED BY <2>1, <2>2, SizesAssumption DEF Init, TypeOK
<1>3. NothingVanishes
  BY <1>1, ConcatEmptySeq DEF Init, NothingVanishes
<1>4. BatchInv /\ CloseInv /\ DrainInv
  BY <1>1, SizesAssumption DEF Init, BatchInv, CloseInv, DrainInv
<1> QED BY <1>2, <1>3, <1>4 DEF IInv

\* A publisher's steps.
LEMMA PublisherIInv ==
  ASSUME IInv, NEW e \in Events, Publisher(e)
  PROVE  IInv'
<1> USE DEF IInv
<1>1. CASE CheckClosed(e) \/ CountPublished(e) \/ DropFull(e) \/ CancelWait(e)
  <2>1. UNCHANGED <<queue, flush, closing, accepted>>
    BY <1>1 DEF CheckClosed, CountPublished, DropFull, CancelWait
  <2>2. published' \in Nat /\ dropped' \in Nat
    BY <1>1 DEF CheckClosed, CountPublished, DropFull, CancelWait, TypeOK
  <2>3. PICK c \in CallState : call' = [call EXCEPT ![e] = c]
    <3>1. CASE CheckClosed(e)
      BY <3>1, Zenon DEF CheckClosed, CallState
    <3>2. CASE CountPublished(e) \/ DropFull(e) \/ CancelWait(e)
      BY <3>2, Zenon DEF CountPublished, DropFull, CancelWait, CallState
    <3> QED BY <1>1, <3>1, <3>2
  <2>4. call' \in [Events -> CallState]
    BY <2>3 DEF TypeOK
  <2>5. TypeOK'
    BY <2>1, <2>2, <2>4 DEF TypeOK, flush, closing
  <2> QED
    BY <2>1, <2>5 DEF NothingVanishes, BatchInv, CloseInv, DrainInv, flush, closing
<1>2. CASE Send(e)
  <2>1. /\ queue' \in Seq(Events) /\ Len(queue') = Len(queue) + 1
        /\ accepted' \in Seq(Events) /\ Len(accepted') = Len(accepted) + 1
    BY <1>2, AppendProperties DEF Send, TypeOK
  <2>2. TypeOK'
    BY <1>2, <2>1, Lengths, SizesAssumption
    DEF Send, TypeOK, CallState, flush, closing
  <2>3. NothingVanishes'
    <3>1. settled \o batch \in Seq(Events) /\ << e >> \in Seq(Events)
      BY ConcatProperties DEF TypeOK
    <3>2. accepted' = ((settled \o batch) \o queue) \o << e >>
      BY <1>2, AppendIsConcat DEF Send, TypeOK, NothingVanishes
    <3>3. queue' = queue \o << e >>
      BY <1>2, AppendIsConcat DEF Send, TypeOK
    <3>4. ((settled \o batch) \o queue) \o << e >>
            = (settled \o batch) \o (queue \o << e >>)
      <4>1. queue \in Seq(Events)
        BY DEF TypeOK
      <4> HIDE DEF IInv
      <4> QED BY <3>1, <4>1, Assoc
    <3> QED
      BY <1>2, <3>2, <3>3, <3>4 DEF Send, NothingVanishes, flush
  <2>4. BatchInv' /\ CloseInv'
    BY <1>2 DEF Send, BatchInv, CloseInv, flush, closing
  <2>5. DrainInv'
    BY <1>2, <2>1, Lengths DEF Send, DrainInv, TypeOK, flush, closing
  <2> QED BY <2>2, <2>3, <2>4, <2>5
<1> QED BY <1>1, <1>2 DEF Publisher

\* The worker takes an envelope.
LEMMA TakeIInv ==
  ASSUME IInv, NEW loop \in {"select", "drain"}, Take(loop)
  PROVE  IInv'
<1> USE DEF IInv
<1>1. /\ queue' \in Seq(Events) /\ Len(queue') = Len(queue) - 1
      /\ batch' \in Seq(Events) /\ Len(batch') = Len(batch) + 1
      /\ batch' # << >>
  <2>1. queue \in Seq(Events) /\ batch \in Seq(Events) /\ queue # << >>
    BY DEF TypeOK, Take
  <2>2. Head(queue) \in Events /\ Tail(queue) \in Seq(Events)
        /\ Len(Tail(queue)) = Len(queue) - 1
    BY <2>1, HeadTailProperties
  <2>3. /\ Append(batch, Head(queue)) \in Seq(Events)
        /\ Append(batch, Head(queue)) # << >>
        /\ Len(Append(batch, Head(queue))) = Len(batch) + 1
    BY <2>1, <2>2, AppendProperties
  <2> QED BY <2>2, <2>3 DEF Take
<1>2. Len(batch) < BatchSize
  BY DEF Take, BatchInv
<1>3. TypeOK'
  BY <1>1, <1>2, Lengths, SizesAssumption DEF TypeOK, Take, calls, closing
<1>4. NothingVanishes'
  <2>1. batch' \o queue' = batch \o queue
    BY MoveHead DEF Take, TypeOK
  <2>2. (settled \o batch) \o queue = settled \o (batch \o queue)
    BY Assoc DEF TypeOK
  <2>3. (settled \o batch') \o queue' = settled \o (batch' \o queue')
    BY <1>1, Assoc DEF TypeOK
  <2> QED BY <2>1, <2>2, <2>3 DEF NothingVanishes, Take, calls
<1>5. BatchInv'
  BY <1>1, <1>2, Lengths, SizesAssumption DEF BatchInv, Take, TypeOK
<1>6. CloseInv'
  BY DEF CloseInv, Take, closing
<1>7. DrainInv'
  BY <1>1, Lengths DEF DrainInv, Take, closing, calls, TypeOK
<1> QED BY <1>3, <1>4, <1>5, <1>6, <1>7

\* flush lets go of the batch: AppendBatch succeeded, or the worker gave up.
LEMMA LetGoIInv ==
  ASSUME IInv, AppendOK \/ GiveUp
  PROVE  IInv'
<1> USE DEF IInv
<1>1. /\ settled' = settled \o batch /\ batch' = << >> /\ worker' = after
      /\ worker \in {"append", "judge"}
      /\ UNCHANGED <<calls, queue, after, attempt, closing>>
  BY DEF AppendOK, GiveUp
<1>2. /\ settled' \in Seq(Events) /\ Len(settled') = Len(settled) + Len(batch)
      /\ batch' \in Seq(Events) /\ Len(batch') = 0
  BY <1>1, ConcatProperties, EmptySeq DEF TypeOK
<1>3. /\ skipped' \in Nat /\ dropped' \in Nat
      /\ stored' \subseteq Events /\ lost' \subseteq Events
      /\ err' \in {"nil"} \cup SinkErrors
  BY SkippedType, RangeFinite, Lengths DEF AppendOK, GiveUp, TypeOK
<1>4. TypeOK'
  BY <1>1, <1>2, <1>3, SizesAssumption DEF TypeOK, calls, closing
<1>5. NothingVanishes'
  BY <1>1, <1>2, ConcatEmptySeq DEF NothingVanishes, calls
<1>6. BatchInv' /\ CloseInv'
  BY <1>1, <1>2, SizesAssumption DEF BatchInv, CloseInv, closing, TypeOK
<1>7. DrainInv'
  BY <1>1, <1>2, Lengths DEF DrainInv, closing, calls, TypeOK, CloseInv
<1> QED BY <1>4, <1>5, <1>6, <1>7

\* The worker's steps.
LEMMA WorkerIInv ==
  ASSUME IInv, Worker
  PROVE  IInv'
<1> USE DEF IInv
<1>1. CASE Receive \/ DrainReceive
  BY <1>1, TakeIInv DEF Receive, DrainReceive
<1>2. CASE AppendOK \/ GiveUp
  BY <1>2, LetGoIInv
<1>3. CASE TimerFlush \/ SeeStop \/ DrainEnd \/ AppendFail \/ Retry
  <2>1. UNCHANGED <<calls, queue, batch, stored, dropped, settled, lost, closing>>
    BY <1>3 DEF TimerFlush, SeeStop, DrainEnd, AppendFail, Retry
  <2>2. skipped' \in Nat
    BY <1>3, SkippedType
    DEF TimerFlush, SeeStop, DrainEnd, AppendFail, Retry, TypeOK
  <2>3. TypeOK'
    BY <1>3, <2>1, <2>2, SizesAssumption
    DEF TimerFlush, SeeStop, DrainEnd, AppendFail, Retry, TypeOK, calls, closing
  <2>4. NothingVanishes'
    BY <2>1 DEF NothingVanishes, calls
  <2>5. BatchInv'
    BY <1>3, <2>1
    DEF TimerFlush, SeeStop, DrainEnd, AppendFail, Retry, BatchInv
  <2>6. CloseInv'
    BY <1>3, <2>1
    DEF TimerFlush, SeeStop, DrainEnd, AppendFail, Retry, CloseInv, closing
  <2>7. DrainInv'
    <3>1. CASE DrainEnd
      <4>1. Len(queue) = 0 /\ (batch = << >> => Len(batch) = 0)
        BY <3>1, EmptySeq DEF DrainEnd
      <4> QED
        BY <3>1, <2>1, <4>1, Lengths DEF DrainEnd, DrainInv, closing, calls, TypeOK
    <3>2. CASE TimerFlush \/ SeeStop \/ AppendFail \/ Retry
      BY <3>2, <2>1
      DEF TimerFlush, SeeStop, AppendFail, Retry, DrainInv, closing, calls
    <3> QED BY <1>3, <3>1, <3>2
  <2> QED BY <2>3, <2>4, <2>5, <2>6, <2>7
<1> QED BY <1>1, <1>2, <1>3 DEF Worker

\* Close's steps.
LEMMA CloseIInv ==
  ASSUME IInv, Close
  PROVE  IInv'
<1> USE DEF IInv
<1>1. UNCHANGED <<calls, queue, flush, dropped>>
  BY DEF Close, CloseMark, CloseStop, CloseDrained, CloseTimeout
<1>2. TypeOK'
  BY <1>1, Lengths
  DEF Close, CloseMark, CloseStop, CloseDrained, CloseTimeout, TypeOK, calls, flush
<1>3. NothingVanishes' /\ BatchInv'
  BY <1>1 DEF NothingVanishes, BatchInv, calls, flush
<1>4. CloseInv'
  BY <1>1 DEF Close, CloseMark, CloseStop, CloseDrained, CloseTimeout, CloseInv, flush
<1>5. DrainInv'
  BY <1>1, Lengths
  DEF Close, CloseMark, CloseStop, CloseDrained, CloseTimeout, DrainInv, CloseInv,
      TypeOK, calls, flush
<1> QED BY <1>2, <1>3, <1>4, <1>5

\* IInv holds in every reachable state.
LEMMA Inductive == Spec => []IInv
<1>1. IInv /\ [Next]_vars => IInv'
  <2> SUFFICES ASSUME IInv, [Next]_vars PROVE IInv'
    OBVIOUS
  <2>1. CASE Next
    BY <2>1, PublisherIInv, WorkerIInv, CloseIInv
    DEF Next, Terminated, vars, IInv, TypeOK, NothingVanishes, BatchInv, CloseInv, DrainInv
  <2>2. CASE UNCHANGED vars
    BY <2>2 DEF vars, IInv, TypeOK, NothingVanishes, BatchInv, CloseInv, DrainInv
  <2> QED BY <2>1, <2>2
<1> QED BY <1>1, InitIInv, PTL DEF Spec

-----------------------------------------------------------------------------
(***************************************************************************)
(* The theorems.                                                           *)
(***************************************************************************)

\* Every variable of the bus keeps its type; the queue never exceeds its
\* capacity and the batch never exceeds BatchSize.
THEOREM TypeCorrect == Spec => []TypeOK
BY Inductive, PTL DEF IInv

\* An accepted envelope is always in exactly one place, in order: settled, in
\* the worker's batch or queued.
THEOREM Conservation == Spec => []NothingVanishes
BY Inductive, PTL DEF IInv

\* Close returns nil only when everything accepted before it began has been
\* stored, skipped or counted as lost.
THEOREM CloseDrains == Spec => []DrainIsComplete
<1>1. IInv => DrainIsComplete
  BY DEF IInv, CloseInv, DrainInv, DrainIsComplete, TypeOK
<1> QED BY <1>1, Inductive, PTL

-----------------------------------------------------------------------------
(***************************************************************************)
(* Refinement of DurableLog.                                               *)
(***************************************************************************)

\* Only a call whose send succeeded is in the log.
FreshInv ==
  \A i \in 1 .. Len(accepted) : call[accepted[i]] \in {"sent", "accepted"}

\* A call is in the log at most once.
LEMMA Fresh == Spec => []FreshInv
<1>1. Init => FreshInv
  BY DEF Init, FreshInv
<1>2. TypeOK /\ FreshInv /\ [Next]_vars => FreshInv'
  <2> SUFFICES ASSUME TypeOK, FreshInv, [Next]_vars PROVE FreshInv'
    OBVIOUS
  <2>1. CASE UNCHANGED <<call, accepted>>
    BY <2>1 DEF FreshInv
  <2>2. ASSUME NEW e \in Events, Publisher(e) PROVE FreshInv'
    <3>1. CASE Send(e)
      <4>1. accepted' = Append(accepted, e) /\ call' = [call EXCEPT ![e] = "sent"]
        BY <3>1 DEF Send
      <4>2. /\ Len(accepted) \in Nat /\ Len(accepted') = Len(accepted) + 1
            /\ \A i \in 1 .. Len(accepted) : accepted'[i] = accepted[i]
            /\ accepted'[Len(accepted) + 1] = e
        BY <4>1, AppendProperties, LenProperties DEF TypeOK
      <4>3. \A i \in 1 .. Len(accepted) : accepted[i] \in Events
        BY ElementOfSeq DEF TypeOK
      <4>4. \A f \in Events : call[f] \in {"sent", "accepted"}
                               => call'[f] \in {"sent", "accepted"}
        BY <4>1 DEF TypeOK
      <4>5. call'[e] = "sent"
        BY <4>1 DEF TypeOK
      <4> QED BY <4>2, <4>3, <4>4, <4>5 DEF FreshInv
    <3>2. CASE CheckClosed(e) \/ CountPublished(e) \/ DropFull(e) \/ CancelWait(e)
      <4>1. accepted' = accepted /\ \A f \in Events \ {e} : call'[f] = call[f]
        BY <3>2 DEF CheckClosed, CountPublished, DropFull, CancelWait, TypeOK
      <4>2. call[e] \in {"sent", "accepted"} => call'[e] \in {"sent", "accepted"}
        BY <3>2 DEF CheckClosed, CountPublished, DropFull, CancelWait, TypeOK
      <4>3. \A i \in 1 .. Len(accepted) : accepted[i] \in Events
        BY ElementOfSeq DEF TypeOK
      <4> QED BY <4>1, <4>2, <4>3 DEF FreshInv
    <3> QED BY <2>2, <3>1, <3>2 DEF Publisher
  <2>3. CASE Worker \/ Close \/ Terminated \/ UNCHANGED vars
    <3>1. UNCHANGED <<call, accepted>>
      BY <2>3
      DEF Worker, Receive, DrainReceive, Take, TimerFlush, SeeStop, DrainEnd,
          AppendOK, AppendFail, Retry, GiveUp, Close, CloseMark, CloseStop,
          CloseDrained, CloseTimeout, Terminated, vars, calls
    <3> QED BY <2>1, <3>1
  <2> QED BY <2>2, <2>3 DEF Next
<1> QED BY <1>1, <1>2, TypeCorrect, PTL DEF Spec

\* Letting go of the batch settles a longer prefix of the log.
LEMMA LetGoSettles ==
  ASSUME IInv, AppendOK \/ GiveUp
  PROVE  Log!Settle
<1>1. /\ settled' = settled \o batch /\ batch # << >>
      /\ UNCHANGED <<accepted, cut, closer>>
  BY DEF IInv, BatchInv, AppendOK, GiveUp, calls, closing
<1>2. /\ settled \in Seq(Events) /\ batch \in Seq(Events) /\ queue \in Seq(Events)
      /\ accepted \in Seq(Events) /\ accepted = (settled \o batch) \o queue
  BY DEF IInv, TypeOK, NothingVanishes
<1> DEFINE n == Len(settled) + Len(batch)
<1>3. /\ settled \o batch \in Seq(Events) /\ Len(settled \o batch) = n
      /\ Len(batch) \in Nat \ {0} /\ Len(settled) \in Nat /\ Len(queue) \in Nat
  BY <1>1, <1>2, ConcatProperties, EmptySeq, LenProperties
<1>4. /\ Len(accepted) = n + Len(queue)
      /\ \A i \in 1 .. n : accepted[i] = (settled \o batch)[i]
  BY <1>2, <1>3, ConcatProperties
<1>5. n \in (Len(settled) + 1) .. Len(accepted)
  BY <1>3, <1>4
<1>6. SubSeq(accepted, 1, n) = settled \o batch
  <2>1. /\ SubSeq(accepted, 1, n) \in Seq(Events) /\ Len(SubSeq(accepted, 1, n)) = n
        /\ \A i \in 1 .. n : SubSeq(accepted, 1, n)[i] = accepted[i]
    BY <1>2, <1>3, <1>4, <1>5
  <2> QED BY <1>3, <1>4, <2>1, SeqEqual
<1> QED BY <1>1, <1>5, <1>6 DEF Log!Settle

\* The bus implements the log: Close reports a drained log only when its
\* prefix up to the cut is settled, and nothing is accepted twice, forgotten or
\* settled out of order.
THEOREM Refinement == Spec => ImplementsLog
<1>1. Init => Log!Init
  BY DEF Init, Log!Init
<1>2. IInv /\ IInv' /\ FreshInv /\ [Next]_vars => [Log!Next]_(Log!vars)
  <2> SUFFICES ASSUME IInv, IInv', FreshInv, [Next]_vars
               PROVE  [Log!Next]_(Log!vars)
    OBVIOUS
  <2>1. CASE UNCHANGED <<accepted, settled, cut, closer>>
    BY <2>1 DEF Log!vars
  <2>2. ASSUME NEW e \in Events, Publisher(e) PROVE [Log!Next]_(Log!vars)
    <3>1. CASE Send(e)
      <4>1. /\ accepted' = Append(accepted, e) /\ UNCHANGED <<settled, cut, closer>>
            /\ call[e] \notin {"sent", "accepted"}
        BY <3>1 DEF Send, flush, closing
      <4>2. \A i \in DOMAIN accepted : accepted[i] # e
        BY <4>1, LenProperties DEF FreshInv, IInv, TypeOK
      <4> QED BY <4>1, <4>2 DEF Log!Accept, Log!Next
    <3>2. CASE CheckClosed(e) \/ CountPublished(e) \/ DropFull(e) \/ CancelWait(e)
      BY <2>1, <3>2
      DEF CheckClosed, CountPublished, DropFull, CancelWait, flush, closing
    <3> QED BY <2>2, <3>1, <3>2 DEF Publisher
  <2>3. CASE Worker
    <3>1. CASE AppendOK \/ GiveUp
      BY <3>1, LetGoSettles DEF Log!Next
    <3>2. CASE Receive \/ DrainReceive \/ TimerFlush \/ SeeStop \/ DrainEnd
                 \/ AppendFail \/ Retry
      BY <2>1, <3>2
      DEF Receive, DrainReceive, Take, TimerFlush, SeeStop, DrainEnd, AppendFail,
          Retry, calls, closing
    <3> QED BY <2>3, <3>1, <3>2 DEF Worker
  <2>4. CASE Close
    <3>1. accepted' = accepted /\ settled' = settled
      BY <2>4 DEF Close, CloseMark, CloseStop, CloseDrained, CloseTimeout, calls, flush
    <3>2. CASE CloseMark
      BY <3>1, <3>2 DEF CloseMark, Log!BeginClose, Log!Next
    <3>3. CASE CloseStop
      BY <3>1, <3>3 DEF CloseStop, Log!vars
    <3>4. CASE CloseDrained
      <4>1. Len(settled) >= cut
        BY <3>4, Lengths DEF CloseDrained, IInv, DrainInv, TypeOK
      <4> QED BY <3>1, <3>4, <4>1 DEF CloseDrained, Log!CloseOK, Log!Next
    <3>5. CASE CloseTimeout
      BY <3>1, <3>5 DEF CloseTimeout, Log!CloseTimeout, Log!Next
    <3> QED BY <2>4, <3>2, <3>3, <3>4, <3>5 DEF Close
  <2>5. CASE Terminated \/ UNCHANGED vars
    BY <2>1, <2>5 DEF Terminated, vars
  <2> QED BY <2>2, <2>3, <2>4, <2>5 DEF Next
<1> QED BY <1>1, <1>2, Inductive, Fresh, PTL DEF Spec, ImplementsLog, Log!Spec

-----------------------------------------------------------------------------
(***************************************************************************)
(* Where the rows of the batches end up.  The store and the lost rows stay *)
(* apart because an envelope is accepted, and so settled, only once:       *)
(* DistinctInv is what a batch that is retried, given up or added to the   *)
(* store must not break.                                                   *)
(***************************************************************************)

\* The channel takes an envelope at most once.
DistinctInv ==
  \A i, j \in 1 .. Len(accepted) : accepted[i] = accepted[j] => i = j

\* The failure retryFlush judges is one the sink returned.
ErrInv == worker = "judge" => err \in SinkErrors

\* What the store holds, and what was given up, has been let go of.
PlacedInv == stored \cup lost \subseteq Range(settled)

\* No envelope is accepted twice.
LEMMA Distinct == Spec => []DistinctInv
<1>1. Init => DistinctInv
  BY EmptySeq DEF Init, DistinctInv
<1>2. TypeOK /\ FreshInv /\ DistinctInv /\ [Next]_vars => DistinctInv'
  <2> SUFFICES ASSUME TypeOK, FreshInv, DistinctInv, [Next]_vars PROVE DistinctInv'
    OBVIOUS
  <2>1. CASE accepted' = accepted
    BY <2>1 DEF DistinctInv
  <2>2. ASSUME NEW e \in Events, Send(e) PROVE DistinctInv'
    <3>1. accepted' = Append(accepted, e) /\ call[e] \notin {"sent", "accepted"}
      BY <2>2 DEF Send
    <3>2. /\ Len(accepted) \in Nat /\ Len(accepted') = Len(accepted) + 1
          /\ \A i \in 1 .. Len(accepted) : accepted'[i] = accepted[i]
          /\ accepted'[Len(accepted) + 1] = e
      BY <3>1, AppendProperties, LenProperties DEF TypeOK
    <3>3. \A i \in 1 .. Len(accepted) : accepted[i] # e
      BY <3>1 DEF FreshInv
    <3> QED BY <3>2, <3>3 DEF DistinctInv
  <2>3. CASE ~ \E e \in Events : Send(e)
    <3>1. accepted' = accepted
      BY <2>3
      DEF Next, Publisher, CheckClosed, CountPublished, DropFull, CancelWait, Worker,
          Receive, DrainReceive, Take, TimerFlush, SeeStop, DrainEnd, AppendOK,
          AppendFail, Retry, GiveUp, Close, CloseMark, CloseStop, CloseDrained,
          CloseTimeout, Terminated, vars, calls
    <3> QED BY <2>1, <3>1
  <2> QED BY <2>2, <2>3
<1> QED BY <1>1, <1>2, TypeCorrect, Fresh, PTL DEF Spec

\* The batch holds no envelope twice, and none that was let go of before.
LEMMA BatchIsNew ==
  ASSUME IInv, DistinctInv
  PROVE  /\ Range(settled) \cap Range(batch) = {}
         /\ IsFiniteSet(Range(batch)) /\ Cardinality(Range(batch)) = Len(batch)
<1> USE DEF IInv
<1>1. /\ settled \in Seq(Events) /\ batch \in Seq(Events) /\ queue \in Seq(Events)
      /\ accepted = (settled \o batch) \o queue
  BY DEF TypeOK, NothingVanishes
<1>2. /\ Len(settled) \in Nat /\ Len(batch) \in Nat /\ Len(queue) \in Nat
      /\ Len(accepted) = Len(settled) + Len(batch) + Len(queue)
  BY Lengths
<1>3. /\ settled \o batch \in Seq(Events)
      /\ Len(settled \o batch) = Len(settled) + Len(batch)
      /\ \A i \in 1 .. Len(settled) + Len(batch) :
           (settled \o batch)[i] = IF i <= Len(settled) THEN settled[i]
                                   ELSE batch[i - Len(settled)]
  BY <1>1, ConcatProperties
<1>4. \A i \in 1 .. Len(settled) + Len(batch) : accepted[i] = (settled \o batch)[i]
  BY <1>1, <1>2, <1>3, ConcatProperties
<1>5. \A i \in 1 .. Len(settled) : accepted[i] = settled[i]
  BY <1>2, <1>3, <1>4
<1>6. \A i \in 1 .. Len(batch) : accepted[Len(settled) + i] = batch[i]
  BY <1>2, <1>3, <1>4
<1>7. /\ Range(settled) = {settled[i] : i \in 1 .. Len(settled)}
      /\ Range(batch) = {batch[i] : i \in 1 .. Len(batch)}
  BY <1>1, RangeEquality
<1>8. Range(settled) \cap Range(batch) = {}
  <2> SUFFICES ASSUME NEW i \in 1 .. Len(settled), NEW j \in 1 .. Len(batch),
                      settled[i] = batch[j]
               PROVE  FALSE
    BY <1>7
  <2>1. accepted[i] = accepted[Len(settled) + j]
    BY <1>5, <1>6
  <2> QED BY <2>1, <1>2 DEF DistinctInv
<1>9. IsFiniteSet(Range(batch)) /\ Cardinality(Range(batch)) = Len(batch)
  <2>1. batch \in [1 .. Len(batch) -> Events]
    BY <1>1, LenProperties
  <2>2. \A i, j \in 1 .. Len(batch) : batch[i] = batch[j] => i = j
    BY <1>2, <1>6 DEF DistinctInv
  <2>3. batch \in Bijection(1 .. Len(batch), Range(batch))
    <3>1. batch \in Injection(1 .. Len(batch), Events)
      BY <2>1, <2>2, Fun_IsInj
    <3> QED BY <3>1, Fun_InjMeansBijImage
  <2>4. IsFiniteSet(1 .. Len(batch)) /\ Cardinality(1 .. Len(batch)) = Len(batch)
    <3>1. 1 \in Int /\ Len(batch) \in Int
      BY <1>2
    <3>2. /\ IsFiniteSet(1 .. Len(batch))
          /\ Cardinality(1 .. Len(batch)) = IF 1 > Len(batch) THEN 0 ELSE Len(batch) - 1 + 1
      BY <3>1, FS_Interval
    <3> QED BY <1>2, <3>2
  <2>5. ExistsBijection(1 .. Len(batch), Range(batch))
    BY <2>3, Fun_ExistsBij
  <2> QED BY <2>4, <2>5, FS_Bijection
<1> QED BY <1>8, <1>9

\* Only flush lets go of envelopes, stores them or gives them up.
LEMMA OnlyFlushSettles ==
  ASSUME [Next]_vars, ~AppendOK, ~GiveUp
  PROVE  UNCHANGED <<stored, lost, settled>>
<1>1. ASSUME NEW e \in Events, Publisher(e) PROVE UNCHANGED <<stored, lost, settled>>
  BY <1>1 DEF Publisher, CheckClosed, Send, CountPublished, DropFull, CancelWait, flush
<1>2. CASE Worker
  BY <1>2 DEF Worker, Receive, DrainReceive, Take, TimerFlush, SeeStop, DrainEnd, AppendFail, Retry
<1>3. CASE Close \/ Terminated \/ UNCHANGED vars
  BY <1>3 DEF Close, CloseMark, CloseStop, CloseDrained, CloseTimeout, Terminated, vars, flush
<1> QED BY <1>1, <1>2, <1>3 DEF Next

\* Only what flush has let go of is stored or given up.
LEMMA Placed == Spec => []PlacedInv
<1>1. Init => PlacedInv
  BY DEF Init, PlacedInv
<1>2. IInv /\ PlacedInv /\ [Next]_vars => PlacedInv'
  <2> SUFFICES ASSUME IInv, PlacedInv, [Next]_vars PROVE PlacedInv'
    OBVIOUS
  <2>1. CASE AppendOK \/ GiveUp
    <3>1. Range(settled') = Range(settled) \cup Range(batch)
      <4>1. settled' = settled \o batch /\ settled \in Seq(Events) /\ batch \in Seq(Events)
        BY <2>1 DEF AppendOK, GiveUp, IInv, TypeOK
      <4>2. Range(settled \o batch) = Range(settled) \cup Range(batch)
        BY <4>1, RangeConcatenation
      <4> QED BY <4>1, <4>2
    <3> QED BY <2>1, <3>1 DEF AppendOK, GiveUp, PlacedInv
  <2>2. CASE ~AppendOK /\ ~GiveUp
    BY <2>2, OnlyFlushSettles DEF PlacedInv
  <2> QED BY <2>1, <2>2
<1> QED BY <1>1, <1>2, Inductive, PTL DEF Spec

\* The malformed envelopes of a batch.
Bad(s) == Range(s) \cap Malformed

\* While a refused batch waits for its judgement, its malformed envelopes are
\* counted already.
CountedInv ==
  worker = "judge" /\ skipped < SkipCap
    => Cardinality(Bad(settled)) + Cardinality(Bad(batch)) <= skipped

\* What an attempt does to skippedInvalid, below the cap.
LEMMA Counted ==
  ASSUME IInv, CountSkipped, skipped' < SkipCap
  PROVE  skipped < SkipCap /\ skipped' = skipped + Cardinality(Bad(batch))
<1>1. Cardinality(Bad(batch)) \in Nat
  BY RangeFinite, FS_Intersection, FS_CardinalityType DEF IInv, TypeOK, Bad
<1> QED BY <1>1, SizesAssumption DEF IInv, TypeOK, CountSkipped, Bad

\* The malformed envelopes of the batch are new.
LEMMA BadAdds ==
  ASSUME IInv, DistinctInv
  PROVE  /\ Cardinality(Bad(settled)) \in Nat /\ Cardinality(Bad(batch)) \in Nat
         /\ Cardinality(Bad(settled \o batch))
              = Cardinality(Bad(settled)) + Cardinality(Bad(batch))
<1>1. settled \in Seq(Events) /\ batch \in Seq(Events)
  BY DEF IInv, TypeOK
<1>2. IsFiniteSet(Range(settled)) /\ IsFiniteSet(Range(batch))
  BY <1>1, RangeFinite
<1>3. /\ IsFiniteSet(Bad(settled)) /\ Cardinality(Bad(settled)) \in Nat
      /\ IsFiniteSet(Bad(batch)) /\ Cardinality(Bad(batch)) \in Nat
  BY <1>2, FS_Intersection, FS_CardinalityType DEF Bad
<1>4. Range(settled \o batch) = Range(settled) \cup Range(batch)
  BY <1>1, RangeConcatenation
<1>5. Bad(settled \o batch) = Bad(settled) \cup Bad(batch)
  BY <1>4 DEF Bad
<1>6. Bad(settled) \cap Bad(batch) = {}
  BY BatchIsNew DEF Bad
<1>7. Cardinality(Bad(settled) \cup Bad(batch))
        = Cardinality(Bad(settled)) + Cardinality(Bad(batch)) - Cardinality({})
  BY <1>3, <1>6, FS_Union
<1> QED BY <1>3, <1>5, <1>7, FS_EmptySet

AccountInv == PlacedInv /\ SettledIsAccountedFor /\ CountedInv

\* flush lets go of a batch: its rows are stored, or given up and not stored,
\* and either way its malformed ones are counted.
LEMMA LetGoAccounts ==
  ASSUME IInv, DistinctInv, AccountInv, AppendOK \/ GiveUp
  PROVE  SettledIsAccountedFor' /\ CountedInv'
<1>1. settled' = settled \o batch /\ settled \in Seq(Events) /\ batch \in Seq(Events)
  BY DEF AppendOK, GiveUp, IInv, TypeOK
<1>2. Range(settled') = Range(settled) \cup Range(batch)
  <2>1. Range(settled \o batch) = Range(settled) \cup Range(batch)
    BY <1>1, RangeConcatenation
  <2> QED BY <1>1, <2>1
<1>3. Range(settled) \cap Range(batch) = {}
  BY BatchIsNew
<1>4. Range(settled') \subseteq stored' \cup lost' \cup Malformed
  BY <1>2 DEF AppendOK, GiveUp, AccountInv, SettledIsAccountedFor
<1>5. stored' \cap lost' = {}
  BY <1>3 DEF AppendOK, GiveUp, AccountInv, SettledIsAccountedFor, PlacedInv
<1>6. ASSUME skipped' < SkipCap
      PROVE  Cardinality(Range(settled') \cap Malformed) <= skipped'
  <2>1. /\ Cardinality(Bad(settled)) \in Nat /\ Cardinality(Bad(batch)) \in Nat
        /\ Cardinality(Range(settled') \cap Malformed)
             = Cardinality(Bad(settled)) + Cardinality(Bad(batch))
    BY <1>1, BadAdds DEF Bad
  <2>2. CASE AppendOK
    <3>1. skipped < SkipCap /\ skipped' = skipped + Cardinality(Bad(batch))
      BY <1>6, <2>2, Counted DEF AppendOK
    <3>2. Cardinality(Bad(settled)) <= skipped
      BY <3>1 DEF AccountInv, SettledIsAccountedFor, Bad
    <3> QED BY <2>1, <3>1, <3>2 DEF IInv, TypeOK
  <2>3. CASE GiveUp
    BY <1>6, <2>1, <2>3 DEF GiveUp, AccountInv, CountedInv
  <2> QED BY <2>2, <2>3
<1>7. CountedInv'
  BY DEF AppendOK, GiveUp, IInv, TypeOK, CountedInv
<1> QED BY <1>4, <1>5, <1>6, <1>7 DEF SettledIsAccountedFor

\* The steps that let go of nothing.
LEMMA KeepAccounts ==
  ASSUME IInv, DistinctInv, AccountInv, [Next]_vars, ~AppendOK, ~GiveUp
  PROVE  SettledIsAccountedFor' /\ CountedInv'
<1>1. UNCHANGED <<stored, lost, settled>>
  BY OnlyFlushSettles
<1>2. CASE AppendFail
  <2>1. CountSkipped /\ batch' = batch
    BY <1>2 DEF AppendFail
  <2>2. ASSUME skipped' < SkipCap
        PROVE  /\ Cardinality(Bad(settled)) <= skipped'
               /\ Cardinality(Bad(settled)) + Cardinality(Bad(batch)) <= skipped'
    <3>1. skipped < SkipCap /\ skipped' = skipped + Cardinality(Bad(batch))
      BY <2>1, <2>2, Counted
    <3>2. Cardinality(Bad(settled)) <= skipped
      BY <3>1 DEF AccountInv, SettledIsAccountedFor, Bad
    <3> QED BY <3>1, <3>2, BadAdds DEF IInv, TypeOK
  <2> QED
    BY <1>1, <2>1, <2>2 DEF AccountInv, SettledIsAccountedFor, CountedInv, Bad
<1>3. CASE ~AppendFail
  <2>1. skipped' = skipped
    <3>1. ASSUME NEW e \in Events, Publisher(e) PROVE skipped' = skipped
      BY <3>1 DEF Publisher, CheckClosed, Send, CountPublished, DropFull, CancelWait, flush
    <3>2. CASE Worker
      BY <1>3, <3>2 DEF Worker, Receive, DrainReceive, Take, TimerFlush, SeeStop, DrainEnd, Retry
    <3>3. CASE Close \/ Terminated \/ UNCHANGED vars
      BY <3>3 DEF Close, CloseMark, CloseStop, CloseDrained, CloseTimeout, Terminated, vars, flush
    <3> QED BY <3>1, <3>2, <3>3 DEF Next
  <2>2. worker' = "judge" => worker = "judge" /\ batch' = batch
    <3>1. ASSUME NEW e \in Events, Publisher(e) PROVE UNCHANGED <<worker, batch>>
      BY <3>1 DEF Publisher, CheckClosed, Send, CountPublished, DropFull, CancelWait, flush
    <3>2. CASE Worker
      BY <1>3, <3>2 DEF Worker, Receive, DrainReceive, Take, TimerFlush, SeeStop, DrainEnd, Retry
    <3>3. CASE Close \/ Terminated \/ UNCHANGED vars
      BY <3>3 DEF Close, CloseMark, CloseStop, CloseDrained, CloseTimeout, Terminated, vars, flush
    <3> QED BY <3>1, <3>2, <3>3 DEF Next
  <2> QED
    BY <1>1, <2>1, <2>2 DEF AccountInv, SettledIsAccountedFor, CountedInv
<1> QED BY <1>2, <1>3

\* Every envelope let go is stored, skipped or given up.
LEMMA Accounted == Spec => []AccountInv
<1>1. Init => AccountInv
  <2> SUFFICES ASSUME Init PROVE AccountInv
    OBVIOUS
  <2>1. Range(settled) = {}
    BY EmptySeq DEF Init, Range
  <2>2. Cardinality(Range(settled) \cap Malformed) = 0
    BY <2>1, FS_EmptySet
  <2> QED BY <2>1, <2>2 DEF Init, AccountInv, PlacedInv, SettledIsAccountedFor, CountedInv
<1>2. IInv /\ DistinctInv /\ PlacedInv' /\ AccountInv /\ [Next]_vars => AccountInv'
  BY LetGoAccounts, KeepAccounts DEF AccountInv
<1> QED BY <1>1, <1>2, Inductive, Distinct, Placed, PTL DEF Spec

\* flush lets go of an envelope only when it is stored, counted as skipped or
\* given up, and never counts as lost what the store has.
THEOREM SettledRows == Spec => []SettledIsAccountedFor
BY Accounted, PTL DEF AccountInv

-----------------------------------------------------------------------------
(***************************************************************************)
(* What b.dropped counts, and when rows are given up.                      *)
(***************************************************************************)

Shed == {e \in Events : call[e] = "refused"}

\* Only finitely many calls have been made, whatever Events is.
DropInv == IsFiniteSet(Shed) /\ dropped = Cardinality(Shed) + Cardinality(lost)

\* A step adds to b.dropped what it sheds or gives up.
LEMMA DropStep ==
  ASSUME IInv, DistinctInv, PlacedInv, DropInv, [Next]_vars
  PROVE  DropInv'
<1>1. /\ IsFiniteSet(Shed) /\ Cardinality(Shed) \in Nat
      /\ IsFiniteSet(lost) /\ Cardinality(lost) \in Nat
      /\ dropped = Cardinality(Shed) + Cardinality(lost)
  <2>1. IsFiniteSet(Range(settled))
    BY RangeFinite DEF IInv, TypeOK
  <2>2. IsFiniteSet(lost)
    BY <2>1, FS_Subset DEF PlacedInv
  <2> QED BY <2>2, FS_CardinalityType DEF DropInv
<1>2. ASSUME NEW e \in Events, DropFull(e) PROVE DropInv'
  <2>1. lost' = lost /\ dropped' = dropped + 1
    BY <1>2 DEF DropFull, flush
  <2>2. Shed' = Shed \cup {e} /\ e \notin Shed
    BY <1>2 DEF DropFull, Shed, IInv, TypeOK
  <2>3. IsFiniteSet(Shed \cup {e}) /\ Cardinality(Shed \cup {e}) = Cardinality(Shed) + 1
    BY <1>1, <2>2, FS_AddElement
  <2> QED BY <1>1, <2>1, <2>2, <2>3 DEF DropInv
<1>3. CASE GiveUp
  <2>1. Shed' = Shed
    BY <1>3 DEF GiveUp, calls, Shed
  <2>2. dropped' = dropped + Len(batch) /\ lost' = lost \cup Range(batch)
    BY <1>3 DEF GiveUp
  <2>3. lost \cap Range(batch) = {} /\ IsFiniteSet(Range(batch))
        /\ Cardinality(Range(batch)) = Len(batch)
    BY BatchIsNew DEF PlacedInv
  <2>4. Cardinality(lost \cup Range(batch))
          = Cardinality(lost) + Cardinality(Range(batch)) - Cardinality({})
    BY <1>1, <2>3, FS_Union
  <2>5. Cardinality(lost') = Cardinality(lost) + Len(batch) /\ Len(batch) \in Nat
    BY <1>1, <2>2, <2>3, <2>4, FS_EmptySet, FS_CardinalityType
  <2> QED BY <1>1, <2>1, <2>2, <2>5 DEF DropInv
<1>4. CASE ~GiveUp /\ ~ \E e \in Events : DropFull(e)
  <2>1. dropped' = dropped /\ lost' = lost
    <3>1. ASSUME NEW e \in Events, Publisher(e) PROVE dropped' = dropped /\ lost' = lost
      BY <1>4, <3>1 DEF Publisher, CheckClosed, Send, CountPublished, CancelWait, flush
    <3>2. CASE Worker
      BY <1>4, <3>2
      DEF Worker, Receive, DrainReceive, Take, TimerFlush, SeeStop, DrainEnd, AppendOK,
          AppendFail, Retry
    <3>3. CASE Close \/ Terminated \/ UNCHANGED vars
      BY <3>3
      DEF Close, CloseMark, CloseStop, CloseDrained, CloseTimeout, Terminated, vars, flush
    <3> QED BY <3>1, <3>2, <3>3 DEF Next
  <2>2. Shed' = Shed
    <3>1. ASSUME NEW e \in Events, Publisher(e) PROVE Shed' = Shed
      BY <1>4, <3>1
      DEF Publisher, CheckClosed, Send, CountPublished, CancelWait, Shed, IInv, TypeOK
    <3>2. CASE Worker
      BY <3>2
      DEF Worker, Receive, DrainReceive, Take, TimerFlush, SeeStop, DrainEnd, AppendOK,
          AppendFail, Retry, GiveUp, calls, Shed
    <3>3. CASE Close \/ Terminated \/ UNCHANGED vars
      BY <3>3
      DEF Close, CloseMark, CloseStop, CloseDrained, CloseTimeout, Terminated, vars,
          calls, Shed
    <3> QED BY <3>1, <3>2, <3>3 DEF Next
  <2> QED BY <2>1, <2>2 DEF DropInv
<1> QED BY <1>2, <1>3, <1>4

\* b.dropped is the number of envelopes shed at a full queue plus the number of
\* rows given up, to the last one, however many batches were retried.
THEOREM DroppedCount == Spec => []DroppedIsExact
<1>1. Init => DropInv
  <2> SUFFICES ASSUME Init PROVE DropInv
    OBVIOUS
  <2>1. Shed = {} /\ lost = {} /\ dropped = 0
    BY DEF Init, Shed
  <2> QED BY <2>1, FS_EmptySet DEF DropInv
<1>2. IInv /\ DistinctInv /\ PlacedInv /\ DropInv /\ [Next]_vars => DropInv'
  BY DropStep
<1>3. DropInv => DroppedIsExact
  BY DEF DropInv, DroppedIsExact, Shed
<1> QED BY <1>1, <1>2, <1>3, Inductive, Distinct, Placed, PTL DEF Spec

\* retryFlush judges an error of the sink.
LEMMA Judged == Spec => []ErrInv
<1>1. Init => ErrInv
  BY DEF Init, ErrInv
<1>2. IInv /\ ErrInv /\ [Next]_vars => ErrInv'
  <2> SUFFICES ASSUME IInv, ErrInv, [Next]_vars PROVE ErrInv'
    OBVIOUS
  <2>1. ASSUME NEW e \in Events, Publisher(e) PROVE ErrInv'
    BY <2>1 DEF Publisher, CheckClosed, Send, CountPublished, DropFull, CancelWait, flush, ErrInv
  <2>2. CASE Worker
    BY <2>2
    DEF Worker, Receive, DrainReceive, Take, TimerFlush, SeeStop, DrainEnd, AppendOK,
        AppendFail, Retry, GiveUp, ErrInv, IInv, TypeOK
  <2>3. CASE Close \/ Terminated \/ UNCHANGED vars
    BY <2>3
    DEF Close, CloseMark, CloseStop, CloseDrained, CloseTimeout, Terminated, vars, flush, ErrInv
  <2> QED BY <2>1, <2>2, <2>3 DEF Next
<1> QED BY <1>1, <1>2, Inductive, PTL DEF Spec

\* While the bus runs, a batch is given up only for a failing store: contention
\* delays its rows and loses none.
THEOREM ContentionDelays == Spec => ContentionOnlyDelays
<1>1. ErrInv /\ [Next]_vars => [lost' # lost /\ ~stop => err = "failed"]_vars
  <2> SUFFICES ASSUME ErrInv, [Next]_vars, lost' # lost, ~stop PROVE err = "failed"
    OBVIOUS
  <2>1. GiveUp
    <3>1. CASE AppendOK
      BY <3>1 DEF AppendOK
    <3> QED BY <3>1, OnlyFlushSettles
  <2> QED BY <2>1, ErrorsAssumption DEF GiveUp, RetryFlush, ErrInv
<1> QED BY <1>1, Judged, PTL DEF Spec, ContentionOnlyDelays
=============================================================================
