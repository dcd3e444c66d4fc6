------------------------------ MODULE SinkChain ------------------------------
(***************************************************************************)
(* What stands around the event bus in the daemon.  Before it, SkipKnown   *)
(* drops envelopes a snapshot of the stored ids names, and a publish waits *)
(* until that snapshot is read beside the boot (daemon.ingestionBus).      *)
(* Behind it, MultiSink hands a copy of every batch to the SQLite store    *)
(* and one to the OTLP exporter, which redacts what it is handed in place  *)
(* and which a share boundary may hold (sharedSink).                       *)
(*                                                                         *)
(* EventBus models the bus itself; here it is a queue, a worker with one   *)
(* batch and the retry rule.                                               *)
(***************************************************************************)
EXTENDS Integers, Sequences, FiniteSets, SequencesExt

CONSTANTS
  Feeds,        \* [publishers -> Seq of ids]: what each poller publishes
  Malformed,    \* the ids whose envelopes the store cannot keep
  Unclonable,   \* the ids whose envelopes Clone cannot copy
  StoredAtBoot, \* the ids in the store when the daemon starts
  ChainSetups,  \* the configurations explored, see ChainSetup
  FlushRetries, \* flushRetries
  GateEvery     \* shareGateEvery

Ids == UNION {ToSet(Feeds[p]) : p \in DOMAIN Feeds}

ChainSetup == [
  unsendable : SUBSET Ids, \* the ids the exporter can build no request with
  hangs      : BOOLEAN,    \* may the snapshot's read never end?
  refusals   : Nat,        \* bound on the envelopes of refused batches
  edits      : Nat,        \* bound on the changes of the share rule's answer
  time       : Nat]        \* bound on the clock

ASSUME ChainAssumption ==
  /\ \A s \in ChainSetups : s \in ChainSetup
  /\ \A p \in DOMAIN Feeds : Feeds[p] \in Seq(Ids)
  /\ FlushRetries \in Nat /\ GateEvery \in Nat \ {0}

\* While a daemon runs, a poller publishes an id once (its seen set), and no two
\* pollers share an id.
ASSUME FeedsAssumption ==
  \A p, q \in DOMAIN Feeds : \A i \in DOMAIN Feeds[p], j \in DOMAIN Feeds[q] :
    Feeds[p][i] = Feeds[q][j] => p = q /\ i = j

\* What the store cannot keep is among what the pollers publish.
ASSUME MalformedAssumption == Malformed \subseteq Ids /\ IsFiniteSet(Malformed)

\* "Clone failure means malformed payload": Clone and envelopeToRow marshal the
\* same payload, and a payload of another type than the envelope's, which Clone
\* may not read back, is refused by envelopeToRow.
ASSUME UnclonableAssumption == Unclonable \subseteq Malformed

VARIABLES
  chainSetup, \* which of ChainSetups, chosen once
  snapshot,   \* storedIDSnapshot: read yet?, and the ids it holds
  stopping,   \* has the daemon's context ended?
  feed,       \* per publisher: the ids still to publish, and is it waiting?
  reported,   \* the ids whose PublishWait returned nil
  queue,      \* the bus's queue, of ids
  batch,      \* the worker's batch, of envelopes: as published, or redacted?
  flush,      \* the flush under way: its place, attempt and error
  rows,       \* the events the store holds
  skippedInvalid, \* Store.skippedInvalid
  dropped,    \* the ids counted in AsyncBus.dropped
  gate,       \* sharedSink: when the boundary was asked, and what it said
  rule,       \* the share boundary: does it refuse?, since when, how often changed
  clock,
  refused,    \* history: [Ids -> Nat], attempts of its batch the store refused
  received,   \* history: [Ids -> Nat], how often the collector got it
  unasked     \* history: how long the rule had refused at each export

filter   == <<snapshot, feed, reported>>
sinkVars == <<rows, skippedInvalid, gate, received, unasked>>
chainMoving == <<snapshot, stopping, feed, reported, queue, batch, flush, rows,
                 skippedInvalid, dropped, gate, rule, clock, refused, received, unasked>>
chainVars == <<chainSetup, chainMoving>>

NoFlush == [at |-> "idle", attempt |-> 0, err |-> "none"]

ChainInit ==
  /\ chainSetup \in ChainSetups
  /\ snapshot = [at |-> "reading", ids |-> {}] /\ stopping = FALSE
  /\ feed = [p \in DOMAIN Feeds |-> [todo |-> Feeds[p], asking |-> FALSE]]
  /\ reported = {} /\ queue = << >> /\ batch = << >> /\ flush = NoFlush
  /\ rows = {[id |-> i, redacted |-> FALSE] : i \in StoredAtBoot}
  /\ skippedInvalid = 0 /\ dropped = {}
  /\ gate = [checked |-> -GateEvery, held |-> FALSE]
  /\ rule = [refuses |-> FALSE, since |-> 0, edits |-> 0] /\ clock = 0
  /\ refused = [i \in Ids |-> 0] /\ received = [i \in Ids |-> 0] /\ unasked = {}

-----------------------------------------------------------------------------
(***************************************************************************)
(* The filter: ingestionBus, storedIDSnapshot, skipKnownBus.               *)
(***************************************************************************)

StoredIds == {r.id : r \in rows}

\* Seeded fault: a failed read leaves the publishers waiting.
SnapshotFails_KeepsWaiting ==
  /\ snapshot.at = "reading"
  /\ snapshot' = [snapshot EXCEPT !.at = "lost"]
  /\ UNCHANGED <<stopping, feed, reported, queue, batch, flush, sinkVars, dropped, rule,
                 clock, refused>>

\* The read failed, or the shutdown ended it: an empty snapshot is published.
SnapshotFails ==
  /\ snapshot.at = "reading"
  /\ snapshot' = [at |-> "done", ids |-> {}]
  /\ UNCHANGED <<stopping, feed, reported, queue, batch, flush, sinkVars, dropped, rule,
                 clock, refused>>

\* The ids are read and published.
SnapshotRead ==
  /\ snapshot.at = "reading"
  /\ snapshot' = [at |-> "done", ids |-> StoredIds]
  /\ UNCHANGED <<stopping, feed, reported, queue, batch, flush, sinkVars, dropped, rule,
                 clock, refused>>

\* A poller calls PublishWait; known waits.
CallPublish(p) ==
  /\ ~feed[p].asking /\ feed[p].todo # << >>
  /\ feed' = [feed EXCEPT ![p].asking = TRUE]
  /\ UNCHANGED <<snapshot, stopping, reported, queue, batch, flush, sinkVars, dropped, rule,
                 clock, refused>>

Next1(p) == Head(feed[p].todo)
Returned(p) == [todo |-> Tail(feed[p].todo), asking |-> FALSE]

\* The snapshot is in and names the id: it is stored, which is success.
SkipStored(p) ==
  /\ feed[p].asking /\ snapshot.at = "done" /\ Next1(p) \in snapshot.ids
  /\ feed' = [feed EXCEPT ![p] = Returned(p)]
  /\ reported' = reported \cup {Next1(p)}
  /\ UNCHANGED <<snapshot, stopping, queue, batch, flush, sinkVars, dropped, rule, clock,
                 refused>>

\* Seeded fault: a publish that the shutdown released is taken for stored.
PassOn_AsStored(p) ==
  /\ feed[p].asking
  /\ stopping \/ (snapshot.at = "done" /\ Next1(p) \notin snapshot.ids)
  /\ feed' = [feed EXCEPT ![p] = Returned(p)]
  /\ reported' = reported \cup {Next1(p)}
  /\ queue' = IF snapshot.at = "done" THEN Append(queue, Next1(p)) ELSE queue
  /\ UNCHANGED <<snapshot, stopping, batch, flush, sinkVars, dropped, rule, clock, refused>>

\* An id the snapshot does not name, or any id once the daemon is stopping,
\* goes on to the bus, which accepts it.
PassOn(p) ==
  /\ feed[p].asking
  /\ stopping \/ (snapshot.at = "done" /\ Next1(p) \notin snapshot.ids)
  /\ feed' = [feed EXCEPT ![p] = Returned(p)]
  /\ reported' = reported \cup {Next1(p)}
  /\ queue' = Append(queue, Next1(p))
  /\ UNCHANGED <<snapshot, stopping, batch, flush, sinkVars, dropped, rule, clock, refused>>

\* Under the shutdown the bus may refuse it, and the poller gives up.
GiveUp(p) ==
  /\ feed[p].asking /\ stopping
  /\ feed' = [feed EXCEPT ![p] = [todo |-> << >>, asking |-> FALSE]]
  /\ UNCHANGED <<snapshot, stopping, reported, queue, batch, flush, sinkVars, dropped, rule,
                 clock, refused>>

Stop ==
  /\ ~stopping
  /\ stopping' = TRUE
  /\ UNCHANGED <<filter, queue, batch, flush, sinkVars, dropped, rule, clock, refused>>

-----------------------------------------------------------------------------
(***************************************************************************)
(* The worker's flush: MultiSink over the store and the exporter.          *)
(***************************************************************************)

\* The worker takes what waits and hands it to the sinks.
TakeBatch ==
  /\ flush.at = "idle" /\ queue # << >>
  /\ batch' = [i \in DOMAIN queue |-> [id |-> queue[i], redacted |-> FALSE]]
  /\ queue' = << >> /\ flush' = [NoFlush EXCEPT !.at = "store"]
  /\ UNCHANGED <<filter, stopping, sinkVars, dropped, rule, clock, refused>>

InBatch == {e.id : e \in ToSet(batch)}

Invalid == Cardinality({i \in DOMAIN batch : batch[i].id \in Malformed})

\* The rows of the batch the store inserts: valid, and not there already.
Kept == {e \in ToSet(batch) : e.id \notin Malformed \cup StoredIds}

\* Store.AppendBatch commits.
StoreCommits ==
  /\ flush.at = "store"
  /\ skippedInvalid' = skippedInvalid + Invalid
  /\ rows' = rows \cup Kept
  /\ flush' = [flush EXCEPT !.at = "export", !.err = "none"]
  /\ UNCHANGED <<filter, stopping, queue, batch, dropped, gate, rule, clock, refused, received,
                 unasked>>

Refusals == FoldFunctionOnSet(LAMBDA m, n : m + n, 0, refused, Ids)

\* Store.AppendBatch fails; malformed envelopes were counted before.
StoreRefuses ==
  /\ flush.at = "store" /\ Refusals < chainSetup.refusals
  /\ \E i \in InBatch : i \notin Malformed
  /\ skippedInvalid' = skippedInvalid + Invalid
  /\ refused' = [i \in Ids |-> IF i \in InBatch THEN refused[i] + 1 ELSE refused[i]]
  /\ \E e \in {"contended", "failed"} : flush' = [flush EXCEPT !.at = "export", !.err = e]
  /\ UNCHANGED <<filter, stopping, queue, batch, rows, dropped, gate, rule, clock, received,
                 unasked>>

\* Seeded fault: the boundary is asked only after a quiet minute.
Checked_Sliding == [checked |-> clock, held |-> IF clock - gate.checked < GateEvery
                                               THEN gate.held ELSE rule.refuses]

\* isHeld: the boundary is asked again when its last answer is old enough.
Checked ==
  IF clock - gate.checked < GateEvery THEN gate
  ELSE [checked |-> clock, held |-> rule.refuses]

After == [flush EXCEPT !.at = "decide"]

\* sharedSink: held events are dropped, not queued.
Hold ==
  /\ flush.at = "export" /\ Checked.held
  /\ gate' = Checked /\ flush' = After
  /\ UNCHANGED <<filter, stopping, queue, batch, rows, skippedInvalid, dropped, rule, clock,
                 refused, received, unasked>>

Refusing == IF rule.refuses THEN clock - rule.since ELSE 0

\* Seeded fault: the sinks share the batch.
Shared_Always(e) == TRUE

\* cloneBatch: a sink gets a copy, or the envelope itself when Clone fails.
Shared(e) == e.id \in Unclonable

\* RedactEnvelope works in place, on every envelope the exporter is handed and
\* before the request is built: what was shared is redacted in the batch.
Redacted ==
  [i \in DOMAIN batch |->
     [id |-> batch[i].id, redacted |-> batch[i].redacted \/ Shared(batch[i])]]

Buildable == InBatch \cap chainSetup.unsendable = {}

\* The collector is unreachable, or its breaker open: logged, no error.
ExportFails ==
  /\ flush.at = "export" /\ ~Checked.held /\ Buildable
  /\ gate' = Checked /\ flush' = After /\ batch' = Redacted
  /\ UNCHANGED <<filter, stopping, queue, rows, skippedInvalid, dropped, rule, clock, refused,
                 received, unasked>>

\* The request cannot be built: this one error is returned, and joined.
ExportErrs ==
  /\ flush.at = "export" /\ ~Checked.held /\ ~Buildable
  /\ gate' = Checked /\ batch' = Redacted
  /\ flush' = [After EXCEPT !.err = IF flush.err = "contended" THEN @ ELSE "failed"]
  /\ UNCHANGED <<filter, stopping, queue, rows, skippedInvalid, dropped, rule, clock, refused,
                 received, unasked>>

\* The collector receives the redacted events. Its answer may be lost, which
\* the exporter counts as failed and reports as no error either.
ExportSends ==
  /\ flush.at = "export" /\ ~Checked.held /\ Buildable
  /\ gate' = Checked /\ flush' = After /\ batch' = Redacted
  /\ received' = [i \in Ids |-> IF i \in InBatch THEN received[i] + 1 ELSE received[i]]
  /\ unasked' = unasked \cup {Refusing}
  /\ UNCHANGED <<filter, stopping, queue, rows, skippedInvalid, dropped, rule, clock, refused>>

\* retryFlush.
Retried ==
  /\ flush.err # "none"
  /\ flush.attempt < FlushRetries \/ (flush.err = "contended" /\ ~stopping)

\* Seeded fault: a retry goes on to the exporter's part of the batch only.
Retry_ExportOnly ==
  /\ flush.at = "decide" /\ Retried
  /\ flush' = [flush EXCEPT !.at = "export", !.attempt = @ + 1]
  /\ UNCHANGED <<filter, stopping, queue, batch, sinkVars, dropped, rule, clock, refused>>

\* Every sink gets the whole batch again.
Retry ==
  /\ flush.at = "decide" /\ Retried
  /\ flush' = [flush EXCEPT !.at = "store", !.attempt = @ + 1]
  /\ UNCHANGED <<filter, stopping, queue, batch, sinkVars, dropped, rule, clock, refused>>

\* The batch is settled, or given up and counted.
EndFlush ==
  /\ flush.at = "decide" /\ ~Retried
  /\ dropped' = IF flush.err = "none" THEN dropped ELSE dropped \cup InBatch
  /\ batch' = << >> /\ flush' = NoFlush
  /\ UNCHANGED <<filter, stopping, queue, sinkVars, rule, clock, refused>>

-----------------------------------------------------------------------------

\* An edit, a promotion or an approval changes what the share boundary says.
EditRule ==
  /\ rule.edits < chainSetup.edits
  /\ rule' = [refuses |-> ~rule.refuses, since |-> clock, edits |-> rule.edits + 1]
  /\ UNCHANGED <<filter, stopping, queue, batch, flush, sinkVars, dropped, clock, refused>>

ChainTick ==
  /\ clock < chainSetup.time
  /\ clock' = clock + 1
  /\ UNCHANGED <<filter, stopping, queue, batch, flush, sinkVars, dropped, rule, refused>>

Publisher(p) == SkipStored(p) \/ PassOn(p) \/ GiveUp(p)

Worker ==
  \/ TakeBatch \/ StoreCommits \/ StoreRefuses
  \/ Hold \/ ExportFails \/ ExportErrs \/ ExportSends \/ Retry \/ EndFlush

ChainNext ==
  /\ \/ SnapshotRead \/ SnapshotFails
     \/ \E p \in DOMAIN Feeds : CallPublish(p) \/ Publisher(p)
     \/ Worker \/ Stop \/ EditRule \/ ChainTick
  /\ UNCHANGED chainSetup

(***************************************************************************)
(* A released publisher goes on.  The snapshot's query ends, except where  *)
(* the set-up lets it hang.                                                *)
(***************************************************************************)
EndSnapshot == ~chainSetup.hangs /\ (SnapshotRead \/ SnapshotFails)

ChainFairness ==
  /\ WF_chainMoving(EndSnapshot)
  /\ \A p \in DOMAIN Feeds : WF_chainMoving(Publisher(p))

ChainSpec == ChainInit /\ [][ChainNext]_chainVars /\ ChainFairness

-----------------------------------------------------------------------------
(***************************************************************************)
(* Properties.                                                             *)
(***************************************************************************)

\* Can every envelope be exported?
Sendable == chainSetup.unsendable = {}

\* "A stored envelope reports success: it is persisted, which is what the
\* caller waits for" (skipknown.go), "an OTLP outage does not lose the SQLite
\* write" (multisink.go). An id a poller was told is kept is stored, on its
\* way, malformed, or counted as dropped; and nothing is counted as dropped
\* that this daemon stored, provided the exporter can build its requests.
ReportedIsKept ==
  /\ reported \subseteq StoredIds \cup ToSet(queue) \cup InBatch \cup Malformed \cup dropped
  /\ Sendable => dropped \cap (StoredIds \ StoredAtBoot) = {}

\* "so a mutating sink cannot pollute the view a sibling sink sees"
\* (multisink.go): the store holds events as they were published, also when it
\* takes them on a retry after the exporter redacted the first attempt in place.
\* Where Clone fails the exporter redacts the batch's own envelope, which a
\* retry hands to the store again: the store must refuse every one of those.
StoreKeepsOriginals == \A r \in rows : ~r.redacted

CollectorRepeats ==
  Sendable => \A i \in Ids : received[i] <= 1 + refused[i]

\* The collector sees an event again, and the store counts a malformed one
\* again, once for each attempt the store refused and no oftener.
RepeatsAreRetries ==
  /\ CollectorRepeats
  /\ Sendable =>
       skippedInvalid <= FoldFunctionOnSet(LAMBDA m, n : m + 1 + n, 0, refused, Malformed)

\* "one answer a minute is what an approval or a promotion needs to take
\* effect" (shareGateEvery): nothing is exported once the share boundary has
\* refused for that long.
ExportIsAllowed == \A t \in unasked : t < GateEvery

\* "Until it is in, a publish waits for it; a publish whose daemon is shutting
\* down goes through" (ingestionBus): a waiting poller is released by the
\* snapshot, by its failure, or by the shutdown when the read hangs.
WaitersAreReleased ==
  \A p \in DOMAIN Feeds :
    (feed[p].asking /\ (stopping \/ ~chainSetup.hangs)) ~> ~feed[p].asking
=============================================================================
