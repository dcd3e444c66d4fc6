------------------------------ MODULE EventBus ------------------------------
(***************************************************************************)
(* The asynchronous event bus of internal/events/bus.go: publishers put    *)
(* envelopes on a bounded channel, one worker goroutine batches them into  *)
(* the sqlite store, and Close drains what is queued.                      *)
(*                                                                         *)
(* Every shared access of the Go code is a step of its own: the load of    *)
(* `closed` and the channel send of one Publish call are two steps, as are *)
(* the store to `closed` and the close of `stop` in Close.                 *)
(***************************************************************************)
EXTENDS Naturals, Sequences, FiniteSets, Functions

CONSTANTS
  Events,         \* envelopes; each is published by one call
  Ingested,       \* those published with PublishWait (pollers); the others
                  \* go through Publish (the proxy's hot path)
  Malformed,      \* those Store.AppendBatch skips as invalid
  QueueCapacity,  \* Options.QueueCapacity
  BatchSize,      \* Options.BatchSize
  FlushRetries,   \* Options.FlushRetries, after NewAsync's defaulting
  SinkErrors,     \* the failures the sink can return
  SkipCap         \* bound on the skipped-invalid counter

ASSUME EventsAssumption == /\ Ingested \subseteq Events
                           /\ Malformed \subseteq Events
ASSUME SizesAssumption  == /\ QueueCapacity \in Nat \ {0}
                           /\ BatchSize \in Nat \ {0}
                           /\ FlushRetries \in Nat
                           /\ SkipCap \in Nat
ASSUME ErrorsAssumption == SinkErrors \subseteq {"contended", "failed"}

VARIABLES
  call,       \* [Events -> CallState]: where e's Publish/PublishWait call is
  queue,      \* the channel b.queue
  batch,      \* the worker's batch
  worker,     \* the worker's place in run
  after,      \* where flush returns to
  attempt,    \* flush's attempt, saturating at FlushRetries
  err,        \* the error of the last AppendBatch
  stored,     \* rows in the store
  skipped,    \* Store.skippedInvalid, saturating at SkipCap
  published,  \* b.published
  dropped,    \* b.dropped
  closed,     \* b.closed
  stop,       \* is the channel b.stop closed?
  closer,     \* Close's place
  (* history *)
  accepted,   \* envelopes in the order the channel took them
  settled,    \* envelopes in the order flush let go of them
  lost,       \* those flush gave up on
  cut         \* how many the channel had taken when Close began

calls   == <<call, published, accepted>>
flush   == <<batch, worker, after, attempt, err, stored, skipped, settled, lost>>
closing == <<closed, stop, closer, cut>>
vars    == <<call, queue, batch, worker, after, attempt, err, stored, skipped,
             published, dropped, closed, stop, closer,
             accepted, settled, lost, cut>>

CallState == {"idle", "publishing", "waiting", "sent",
              "accepted", "refused", "ignored", "errClosed", "cancelled"}

Returned == {"accepted", "refused", "ignored", "errClosed", "cancelled"}

Init ==
  /\ call = [e \in Events |-> "idle"]
  /\ queue = << >> /\ batch = << >>
  /\ worker = "select" /\ after = "select"
  /\ attempt = 0 /\ err = "nil"
  /\ stored = {} /\ skipped = 0
  /\ published = 0 /\ dropped = 0
  /\ closed = FALSE /\ stop = FALSE /\ closer = "open"
  /\ accepted = << >> /\ settled = << >> /\ lost = {} /\ cut = 0

-----------------------------------------------------------------------------
\* What Store.AppendBatch does with the malformed rows of every attempt.
CountSkipped ==
  LET n == skipped + Cardinality(Range(batch) \cap Malformed)
  IN  skipped' = IF n > SkipCap THEN SkipCap ELSE n

\* Seeded fault: the contended store gets the ordinary budget.
RetryFlush_BudgetOnly == attempt < FlushRetries

\* Seeded fault: the contended store is retried through the shutdown.
RetryFlush_IgnoresStop == attempt < FlushRetries \/ err = "contended"

\* retryFlush: the ordinary budget, and beyond it a contended store is
\* retried until the bus is stopping.
RetryFlush ==
  \/ attempt < FlushRetries
  \/ err = "contended" /\ ~stop

-----------------------------------------------------------------------------
(***************************************************************************)
(* Seeded faults.  Each is a plausible slip in the code of the definition  *)
(* it is named after; the properties below must tell it from the real one. *)
(***************************************************************************)

\* The timer only looks at full batches.
TimerFlush_FullOnly ==
  /\ worker = "select" /\ Len(batch) >= BatchSize
  /\ worker' = "append" /\ after' = "select" /\ attempt' = 0
  /\ UNCHANGED <<calls, queue, batch, err, stored, skipped, dropped, settled,
                 lost, closing>>

\* The drain loop returns without the last flush.
DrainEnd_NoFlush ==
  /\ worker = "drain" /\ queue = << >>
  /\ worker' = "done" /\ after' = "done" /\ attempt' = 0
  /\ UNCHANGED <<calls, queue, batch, err, stored, skipped, dropped, settled,
                 lost, closing>>

\* A failed append is logged and the batch let go of.
AppendFail_MoveOn ==
  /\ worker = "append"
  /\ err' \in SinkErrors
  /\ CountSkipped
  /\ settled' = settled \o batch /\ batch' = << >> /\ worker' = after
  /\ UNCHANGED <<calls, queue, after, attempt, stored, dropped, lost, closing>>

\* The batch is reset inside the retry loop.
Retry_ResetsBatch ==
  /\ worker = "judge" /\ RetryFlush
  /\ attempt' = IF attempt < FlushRetries THEN attempt + 1 ELSE attempt
  /\ batch' = << >> /\ worker' = "append"
  /\ UNCHANGED <<calls, queue, after, err, stored, skipped, dropped, settled,
                 lost, closing>>

\* The failure is counted, not its rows.
GiveUp_CountsOne ==
  /\ worker = "judge" /\ ~RetryFlush
  /\ dropped' = dropped + 1
  /\ lost' = lost \cup Range(batch) /\ settled' = settled \o batch
  /\ batch' = << >> /\ worker' = after
  /\ UNCHANGED <<calls, queue, after, attempt, err, stored, skipped, closing>>

\* Close does not wait for b.done.
CloseDrained_NoWait ==
  /\ closer = "waiting" /\ closer' = "drained"
  /\ UNCHANGED <<calls, queue, flush, dropped, closed, stop, cut>>

-----------------------------------------------------------------------------
(***************************************************************************)
(* Publishers.                                                             *)
(***************************************************************************)

\* Publish and PublishWait first load b.closed. A closed bus makes Publish
\* return without a word and PublishWait return ErrBusClosed.
CheckClosed(e) ==
  /\ call[e] = "idle"
  /\ call' = [call EXCEPT ![e] =
                IF e \in Ingested
                THEN IF closed THEN "errClosed" ELSE "waiting"
                ELSE IF closed THEN "ignored" ELSE "publishing"]
  /\ UNCHANGED <<queue, flush, published, dropped, closing, accepted>>

\* The channel takes e: the send case of both selects.
Send(e) ==
  /\ call[e] \in {"publishing", "waiting"}
  /\ Len(queue) < QueueCapacity
  /\ queue' = Append(queue, e)
  /\ accepted' = Append(accepted, e)
  /\ call' = [call EXCEPT ![e] = "sent"]
  /\ UNCHANGED <<flush, published, dropped, closing>>

\* b.published.Add(1), and the observers run; the call returns.
CountPublished(e) ==
  /\ call[e] = "sent"
  /\ call' = [call EXCEPT ![e] = "accepted"]
  /\ published' = published + 1
  /\ UNCHANGED <<queue, flush, dropped, closing, accepted>>

\* Publish's default case: the queue is full.
DropFull(e) ==
  /\ call[e] = "publishing"
  /\ Len(queue) = QueueCapacity
  /\ call' = [call EXCEPT ![e] = "refused"]
  /\ dropped' = dropped + 1
  /\ UNCHANGED <<queue, flush, published, closing, accepted>>

\* PublishWait's ctx.Done case; the caller's context may end at any time.
CancelWait(e) ==
  /\ call[e] = "waiting"
  /\ call' = [call EXCEPT ![e] = "cancelled"]
  /\ UNCHANGED <<queue, flush, published, dropped, closing, accepted>>

-----------------------------------------------------------------------------
(***************************************************************************)
(* The worker goroutine, run.                                              *)
(***************************************************************************)

\* The worker takes the head of the queue into its batch, and a full batch
\* is flushed; flush then returns to the loop the worker was in.
Take(loop) ==
  /\ worker = loop
  /\ queue # << >>
  /\ batch' = Append(batch, Head(queue))
  /\ queue' = Tail(queue)
  /\ IF Len(batch') >= BatchSize
     THEN worker' = "append" /\ after' = loop /\ attempt' = 0
     ELSE UNCHANGED <<worker, after, attempt>>
  /\ UNCHANGED <<calls, err, stored, skipped, dropped, settled, lost, closing>>

Receive == Take("select")

\* The batch timer fires. With an empty batch flush returns at once.
TimerFlush ==
  /\ worker = "select"
  /\ batch # << >>
  /\ worker' = "append" /\ after' = "select" /\ attempt' = 0
  /\ UNCHANGED <<calls, queue, batch, err, stored, skipped, dropped, settled,
                 lost, closing>>

SeeStop ==
  /\ worker = "select"
  /\ stop
  /\ worker' = "drain"
  /\ UNCHANGED <<calls, queue, batch, after, attempt, err, stored, skipped,
                 dropped, settled, lost, closing>>

DrainReceive == Take("drain")

\* The drain loop finds the queue empty: the last flush, then done.
DrainEnd ==
  /\ worker = "drain"
  /\ queue = << >>
  /\ worker' = IF batch = << >> THEN "done" ELSE "append"
  /\ after' = "done" /\ attempt' = 0
  /\ UNCHANGED <<calls, queue, batch, err, stored, skipped, dropped, settled,
                 lost, closing>>

\* AppendBatch commits the well-formed rows in one transaction.
AppendOK ==
  /\ worker = "append"
  /\ err' = "nil"
  /\ stored' = stored \cup (Range(batch) \ Malformed)
  /\ CountSkipped
  /\ settled' = settled \o batch
  /\ batch' = << >>
  /\ worker' = after
  /\ UNCHANGED <<calls, queue, after, attempt, dropped, lost, closing>>

\* AppendBatch fails and stores nothing.
AppendFail ==
  /\ worker = "append"
  /\ err' \in SinkErrors
  /\ CountSkipped
  /\ worker' = "judge"
  /\ UNCHANGED <<calls, queue, batch, after, attempt, stored, dropped,
                 settled, lost, closing>>

Retry ==
  /\ worker = "judge"
  /\ RetryFlush
  /\ attempt' = IF attempt < FlushRetries THEN attempt + 1 ELSE attempt
  /\ worker' = "append"
  /\ UNCHANGED <<calls, queue, batch, after, err, stored, skipped, dropped,
                 settled, lost, closing>>

GiveUp ==
  /\ worker = "judge"
  /\ ~RetryFlush
  /\ dropped' = dropped + Len(batch)
  /\ lost' = lost \cup Range(batch)
  /\ settled' = settled \o batch
  /\ batch' = << >>
  /\ worker' = after
  /\ UNCHANGED <<calls, queue, after, attempt, err, stored, skipped, closing>>

-----------------------------------------------------------------------------
(***************************************************************************)
(* Close.                                                                  *)
(***************************************************************************)

\* b.closed.Store(true)
CloseMark ==
  /\ closer = "open"
  /\ closer' = "marked"
  /\ closed' = TRUE
  /\ cut' = Len(accepted)
  /\ UNCHANGED <<calls, queue, flush, dropped, stop>>

\* close(b.stop)
CloseStop ==
  /\ closer = "marked"
  /\ closer' = "waiting"
  /\ stop' = TRUE
  /\ UNCHANGED <<calls, queue, flush, dropped, closed, cut>>

\* <-b.done: Close returns nil.
CloseDrained ==
  /\ closer = "waiting"
  /\ worker = "done"
  /\ closer' = "drained"
  /\ UNCHANGED <<calls, queue, flush, dropped, closed, stop, cut>>

\* The timeout wins the select: Close returns an error, the worker goes on.
CloseTimeout ==
  /\ closer = "waiting"
  /\ closer' = "timedOut"
  /\ UNCHANGED <<calls, queue, flush, dropped, closed, stop, cut>>

\* Nothing is left to do: every call returned, the worker and Close ended.
Terminated ==
  /\ \A e \in Events : call[e] \in Returned
  /\ worker = "done"
  /\ closer \in {"drained", "timedOut"}
  /\ UNCHANGED vars

-----------------------------------------------------------------------------

Publisher(e) == CheckClosed(e) \/ Send(e) \/ CountPublished(e)
                  \/ DropFull(e) \/ CancelWait(e)

Worker == Receive \/ TimerFlush \/ SeeStop \/ DrainReceive \/ DrainEnd
            \/ AppendOK \/ AppendFail \/ Retry \/ GiveUp

Close == CloseMark \/ CloseStop \/ CloseDrained \/ CloseTimeout

Next == (\E e \in Events : Publisher(e)) \/ Worker \/ Close \/ Terminated

(***************************************************************************)
(* Go schedules every runnable goroutine: the worker, Close once it was    *)
(* called, and a publisher once it is inside a call.  Nobody has to        *)
(* publish or to call Close, and a context need not end.                   *)
(***************************************************************************)
Scheduling ==
  /\ WF_vars(Worker)
  /\ \A e \in Events : WF_vars(Send(e) \/ CountPublished(e) \/ DropFull(e))
  /\ WF_vars(CloseStop \/ CloseDrained)

\* The store may refuse for ever.
Spec == Init /\ [][Next]_vars /\ Scheduling

\* Contention is other processes' transactions, which end on their own
\* (retryFlush's comment): an append tried again and again succeeds.
ContentionEnds == SF_vars(AppendOK)

-----------------------------------------------------------------------------

TypeOK ==
  /\ call \in [Events -> CallState]
  /\ queue \in Seq(Events) /\ Len(queue) <= QueueCapacity
  /\ batch \in Seq(Events) /\ Len(batch) <= BatchSize
  /\ worker \in {"select", "append", "judge", "drain", "done"}
  /\ after \in {"select", "drain", "done"}
  /\ attempt \in 0 .. FlushRetries
  /\ err \in {"nil"} \cup SinkErrors
  /\ stored \subseteq Events /\ skipped \in Nat
  /\ published \in Nat /\ dropped \in Nat
  /\ closed \in BOOLEAN /\ stop \in BOOLEAN
  /\ closer \in {"open", "marked", "waiting", "drained", "timedOut"}
  /\ accepted \in Seq(Events) /\ settled \in Seq(Events)
  /\ lost \subseteq Events /\ cut \in Nat

-----------------------------------------------------------------------------
(***************************************************************************)
(* Properties.                                                             *)
(***************************************************************************)

\* Publish and PublishWait hand the channel one envelope, and it is from then
\* on in exactly one place, in order: let go of by flush, in the worker's
\* batch, or queued. No path through take, flush, retry, give-up and drain
\* forgets, duplicates or reorders an accepted envelope.
NothingVanishes == accepted = settled \o batch \o queue

\* flush lets go of an envelope only once the store has its row, or skipped
\* it as malformed and counted that, or it is given up on; and an envelope
\* counted as lost is not in the store.
SettledIsAccountedFor ==
  /\ Range(settled) \subseteq stored \cup lost \cup Malformed
  /\ stored \cap lost = {}
  /\ skipped < SkipCap => Cardinality(Range(settled) \cap Malformed) <= skipped

\* b.dropped is exactly the envelopes Publish shed at a full queue plus the
\* rows of the batches flush gave up on: the figure DropWarning shows.
DroppedIsExact ==
  dropped = Cardinality({e \in Events : call[e] = "refused"}) + Cardinality(lost)

\* Close returns nil only when every envelope the channel had taken before
\* Close was called is stored, skipped or counted, whatever the interleaving
\* of the last publishers with the worker's drain loop.
DrainIsComplete == closer = "drained" => Len(settled) >= cut

\* While the bus is running, rows are lost to a failing store only, never to a
\* contended one: Options.Contended, "the rows are delayed, not lost".
ContentionOnlyDelays == [][lost' # lost /\ ~stop => err = "failed"]_vars

\* Once Close has closed b.stop the worker ends, even on a sink that fails
\* every attempt: "a broken sink cannot wedge the worker or the shutdown
\* drain" (retryFlush).
StopEndsTheWorker == stop ~> worker = "done"

\* When contention ends, every accepted envelope is settled without anyone
\* publishing more: a partial batch does not wait for a full one. Only an
\* envelope that lost the race with the end of the drain stays in the channel.
AcceptedIsSettled ==
  ContentionEnds =>
    \A e \in Events :
      e \in Range(accepted) ~> (e \in Range(settled) \/ worker = "done")

\* The bus implements the log of DurableLog.
Log == INSTANCE DurableLog WITH
         phase <- IF closer \in {"marked", "waiting"} THEN "closing" ELSE closer
ImplementsLog == Log!Spec
=============================================================================
