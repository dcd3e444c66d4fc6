----------------------------- MODULE EventCache -----------------------------
(***************************************************************************)
(* The event cache of internal/storage/sqlite/eventcache.go: decoded       *)
(* events of one type kept in memory, brought up to date on each read from *)
(* the rows past the newest it knows and from the change log that the      *)
(* triggers of migration 7 keep (schema.go).                               *)
(*                                                                         *)
(* The store is written by other goroutines and other processes; each of   *)
(* their statements is one step, and so is each read transaction of the    *)
(* cache.  A full read is three steps: it starts under the lock, reads     *)
(* outside it, and is installed under it again.                            *)
(***************************************************************************)
EXTENDS Integers, Sequences, FiniteSets, Bags, SequencesExt

CONSTANTS
  Ids,         \* event ids
  Ts,          \* [Ids -> Int]: timestamp_ns of each event
  Typed,       \* the events of the type the cache holds
  Horizon,     \* changeLogHorizon: older changes are not logged
  Span,        \* EventCache.maxSpan: reads reaching further back are uncached
  TailRows,    \* tailRows: newest rows a snapshot remembers
  LogKeep,     \* changeLogKeep: entries the change log holds
  Policies,    \* retention policies, [covers : SUBSET Ids, keep : Nat]
  Batches,     \* the sets of events one restamp covers (a provider's events
               \* in a range of time)
  Reinsert,    \* may an event that retention deleted be stored again?
  Readers,     \* goroutines calling ReadEvents
  Froms,       \* the starts of window they ask for
  Start, MaxTime,      \* the clock runs from Start to MaxTime
  MaxRow, MaxChanges,  \* bounds on rowids and on seq
  MaxReads             \* bound on calls; 0 for no bound

\* maxCacheSpan: the span stays inside the horizon, with some time to spare.
Slack == Horizon - Span

ASSUME WindowAssumption ==
  /\ Ts \in [Ids -> Int] /\ Typed \subseteq Ids /\ Froms \subseteq Int /\ Start \in Int
  /\ Span \in Nat /\ Horizon \in Nat /\ Slack >= 0
  /\ Batches \subseteq SUBSET Typed
  /\ TailRows \in Nat \ {0} /\ LogKeep \in Nat \ {0}
ASSUME PolicyAssumption ==
  \A p \in Policies : p.covers \subseteq Ids /\ p.keep \in Nat \ {0}

VARIABLES
  rows,      \* the events table: rowid -> [id, stamp]
  log,       \* events_changes: the rowids it still holds, oldest first
  seq,       \* the latest seq events_changes ever gave out
  used,      \* ids ever stored
  now, high, \* the clock, and the latest it ever read
  cache,     \* c.types[t]: a window, or NoCache
  armed,     \* is the idle timer running?
  filling,   \* is there an entry c.filling[t]?
  call,      \* per reader: where in ReadEvents it is, and its from, oldest
             \* and fresh
  reads      \* calls begun, where they are bounded

store   == <<rows, log, seq, used>>
clock   == <<now, high>>
vars    == <<rows, log, seq, used, now, high, cache, armed, filling,
             call, reads>>

NoCache == [floor |-> 0, seq |-> -1, tail |-> {}, events |-> EmptyBag]

Idle == [at |-> "idle", from |-> 0, oldest |-> 0, fresh |-> NoCache]

Stamps == {"metered", "plan_included"}

Init ==
  /\ rows = << >> /\ log = << >> /\ seq = 0 /\ used = {}
  /\ now = Start /\ high = Start
  /\ cache = NoCache /\ armed = FALSE /\ filling = FALSE
  /\ call = [r \in Readers |-> Idle] /\ reads = 0

-----------------------------------------------------------------------------
(***************************************************************************)
(* The store, as any process writes it.                                    *)
(***************************************************************************)

StoredIds == {rows[n].id : n \in DOMAIN rows}

\* Rowids in ascending order.
InOrder(ns) ==
  CHOOSE f \in [1 .. Cardinality(ns) -> ns] : \A i, j \in DOMAIN f : i < j => f[i] < f[j]

\* The triggers of migration 7: rowids of changed events younger than the
\* horizon are appended, and the log keeps its latest entries.
LogChange(changed) ==
  LET young == {n \in changed : Ts[rows[n].id] >= now - Horizon}
      new   == log \o InOrder(young)
  IN  /\ seq + Cardinality(young) <= MaxChanges
      /\ seq' = seq + Cardinality(young)
      /\ log' = SubSeq(new, IF Len(new) > LogKeep THEN Len(new) - LogKeep + 1
                            ELSE 1, Len(new))

\* AppendBatch stores an event under the rowid past the largest; a stored id
\* is left alone (ON CONFLICT(id) DO NOTHING).
Insert(i) ==
  LET n == IF rows = << >> THEN 1 ELSE Max(DOMAIN rows) + 1
  IN  /\ i \notin StoredIds
      /\ Reinsert \/ i \notin used
      /\ Ts[i] <= high
      /\ n <= MaxRow
      /\ rows' = [m \in DOMAIN rows \cup {n} |->
                    IF m = n THEN [id |-> i, stamp |-> "metered"] ELSE rows[m]]
      /\ used' = IF Reinsert THEN {} ELSE used \cup {i}
      /\ UNCHANGED <<log, seq, clock, cache, armed, filling, call, reads>>

\* RestampPlanIncluded and RestampMetered: one UPDATE over the rows that carry
\* the other stamp.
Restamp(ids, stamp) ==
  LET changed == {n \in DOMAIN rows : rows[n].id \in ids /\ rows[n].stamp # stamp}
  IN  /\ changed # {}
      /\ rows' = [n \in DOMAIN rows |->
                    IF n \in changed THEN [rows[n] EXCEPT !.stamp = stamp]
                    ELSE rows[n]]
      /\ LogChange(changed)
      /\ UNCHANGED <<used, clock, cache, armed, filling, call, reads>>

\* One DELETE of a retention pass.
Prune(p) ==
  LET gone == {n \in DOMAIN rows : /\ rows[n].id \in p.covers
                                   /\ Ts[rows[n].id] < now - p.keep}
  IN  /\ gone # {}
      /\ rows' = [n \in DOMAIN rows \ gone |-> rows[n]]
      /\ LogChange(gone)
      /\ UNCHANGED <<used, clock, cache, armed, filling, call, reads>>

\* VACUUM renumbers the rows in rowid order, closing the gaps, and fires no
\* trigger.
Vacuum ==
  LET order == InOrder(DOMAIN rows)
  IN  /\ DOMAIN rows # 1 .. Cardinality(DOMAIN rows)
      /\ rows' = [n \in 1 .. Len(order) |-> rows[order[n]]]
      /\ UNCHANGED <<log, seq, used, clock, cache, armed, filling, call, reads>>

(***************************************************************************)
(* The clock runs, and may be set back: by less than Slack, and no call is *)
(* in flight for longer than that.                                         *)
(***************************************************************************)
InTime(t) == \A r \in Readers : call[r] # Idle => t - Horizon <= call[r].oldest

Tick ==
  /\ now < MaxTime
  /\ now' = now + 1 /\ high' = Max({high, now + 1})
  /\ InTime(high')
  /\ UNCHANGED <<store, cache, armed, filling, call, reads>>

SetBack ==
  /\ now > high - Slack
  /\ now' \in (high - Slack) .. (now - 1)
  /\ UNCHANGED <<high, store, cache, armed, filling, call, reads>>

-----------------------------------------------------------------------------
(***************************************************************************)
(* What a read transaction sees and computes.                              *)
(***************************************************************************)

\* The events of the cached type, each with its row.
StoreEvents(floor) ==
  {[row |-> n, id |-> rows[n].id, stamp |-> rows[n].stamp] :
     n \in {m \in DOMAIN rows : rows[m].id \in Typed /\ Ts[rows[m].id] >= floor}}

\* since
Since(events, start) == RestrictDomain(events, LAMBDA e : Ts[e.id] >= start)

\* snapshotOf's tail: the newest rows.
SnapTail ==
  LET newest == {n \in DOMAIN rows :
                   Cardinality({m \in DOMAIN rows : m > n}) < TailRows}
  IN  {[row |-> n, id |-> rows[n].id] : n \in newest}

\* snapshotOf's firstSeq.
FirstSeq == IF log = << >> THEN 0 ELSE seq - Len(log) + 1

\* fullRead
FullRead(start) == [floor |-> start, seq |-> seq, tail |-> SnapTail,
                    events |-> SetToBag(StoreEvents(start))]

\* knownThrough's candidates: the tail rows that still hold their id.
Still(tail) == {t \in tail : t.row \in DOMAIN rows /\ rows[t.row].id = t.id}

KnownThrough(tail) == IF tail = {} THEN 0 ELSE Max({t.row : t \in Still(tail)})

\* changedRows
ChangedSince(s) == {log[k] : k \in {j \in 1 .. Len(log) : seq - Len(log) + j > s}}

\* Seeded fault: the log is taken to reach back one entry further.
CanUpdate_OffByOne(c) ==
  /\ ~(seq > c.seq /\ (FirstSeq = 0 \/ FirstSeq > c.seq + 2))
  /\ c.tail = {} \/ Still(c.tail) # {}
  /\ Cardinality(ChangedSince(c.seq)) <= BagCardinality(c.events)

\* Can cachedEvents.update tell what changed since the window's snapshot?
CanUpdate(c) ==
  /\ ~(seq > c.seq /\ (FirstSeq = 0 \/ FirstSeq > c.seq + 1))
  /\ c.tail = {} \/ Still(c.tail) # {}
  /\ Cardinality(ChangedSince(c.seq)) <= BagCardinality(c.events)

\* cachedEvents.update
Update(c) ==
  LET known   == KnownThrough(c.tail)
      changed == ChangedSince(c.seq)
      kept    == RestrictDomain(c.events,
                   LAMBDA e : e.row <= known /\ e.row \notin changed)
      reread  == {e \in StoreEvents(c.floor) : e.row \in changed /\ e.row <= known}
      added   == {e \in StoreEvents(c.floor) : e.row > known}
  IN  [c EXCEPT !.events = kept (+) SetToBag(reread) (+) SetToBag(added),
                !.seq = seq, !.tail = SnapTail]

\* trim
Trim(c, floor) ==
  IF c.floor >= floor THEN c
  ELSE [c EXCEPT !.events = Since(c.events, floor), !.floor = floor]

Covers(c, start) == c # NoCache /\ c.floor <= start

-----------------------------------------------------------------------------
(***************************************************************************)
(* ReadEvents.                                                             *)
(***************************************************************************)

\* A call begins. One that reaches further back than Span reads the store
\* itself and leaves the cache alone; it is not a step here.
Begin(r, start) ==
  /\ call[r] = Idle
  /\ MaxReads = 0 \/ reads < MaxReads
  /\ start >= now - Span
  /\ call' = [call EXCEPT ![r] = [at |-> "looking", from |-> start,
                                  oldest |-> now - Span, fresh |-> NoCache]]
  /\ reads' = IF MaxReads = 0 THEN 0 ELSE reads + 1
  /\ UNCHANGED <<store, clock, cache, armed, filling>>

Looking(r) == call[r].at = "looking"

\* The first case of ReadEvents' loop: the window covers the read, and the
\* change log tells what to bring up to date.
Answerable(r) == Looking(r) /\ Covers(cache, call[r].from) /\ CanUpdate(cache)

\* The window an answer leaves behind.
Answered(r) == Trim(Update(cache), call[r].oldest)

Return(r) == call' = [call EXCEPT ![r] = Idle]

\* Under the lock: the window is brought up to date and answers.
Answer(r) ==
  /\ Answerable(r)
  /\ cache' = Answered(r)
  /\ armed' = TRUE
  /\ Return(r)
  /\ UNCHANGED <<store, clock, filling, reads>>

\* The update's read fails: the error is returned, the window stays.
AnswerFails(r) ==
  /\ Looking(r) /\ Covers(cache, call[r].from)
  /\ armed' = TRUE
  /\ Return(r)
  /\ UNCHANGED <<store, clock, cache, filling, reads>>

\* A full read is needed: wait for the one in flight, or start one.
NeedFull(r) ==
  /\ Looking(r) /\ ~Answerable(r)
  /\ armed' = TRUE
  /\ filling' = TRUE
  /\ call' = [call EXCEPT ![r].at = IF filling THEN "waiting" ELSE "filling"]
  /\ UNCHANGED <<store, clock, cache, reads>>

\* fullRead's transaction, outside the lock.
Snapshot(r) ==
  /\ call[r].at = "filling"
  /\ call' = [call EXCEPT ![r].at = "read", ![r].fresh = FullRead(call[r].from)]
  /\ UNCHANGED <<store, clock, cache, armed, filling, reads>>

\* Seeded fault: done is never closed.
Release_WithoutWaking(r) ==
  /\ filling' = FALSE
  /\ Return(r)

\* delete(c.filling, t) and close(f.done): r returns, the waiters look again.
Release(r) ==
  /\ filling' = FALSE
  /\ call' = [q \in Readers |->
                IF q = r THEN Idle
                ELSE IF call[q].at = "waiting" THEN [call[q] EXCEPT !.at = "looking"]
                ELSE call[q]]

\* Seeded fault: the window is dated when it is installed, not when read.
Install_DatedLate(r) ==
  /\ call[r].at = "read"
  /\ Release(r)
  /\ cache' = [call[r].fresh EXCEPT !.seq = seq]
  /\ UNCHANGED <<store, clock, armed, reads>>

\* The full read becomes the window, and answers.
Install(r) ==
  /\ call[r].at = "read"
  /\ Release(r)
  /\ cache' = call[r].fresh
  /\ UNCHANGED <<store, clock, armed, reads>>

\* Seeded fault: an early return that leaves c.filling[t] behind.
FillFails_KeepsEntry(r) ==
  /\ call[r].at = "filling"
  /\ Return(r)
  /\ UNCHANGED <<store, clock, cache, armed, filling, reads>>

\* The full read fails, or its caller's context ends.
FillFails(r) ==
  /\ call[r].at = "filling"
  /\ Release(r)
  /\ UNCHANGED <<store, clock, cache, armed, reads>>

\* The context of a waiting caller ends.
CancelWait(r) ==
  /\ call[r].at = "waiting"
  /\ Return(r)
  /\ UNCHANGED <<store, clock, cache, armed, filling, reads>>

\* The idle timer of touch fires.
IdleDrop ==
  /\ armed
  /\ armed' = FALSE /\ cache' = NoCache
  /\ UNCHANGED <<store, clock, filling, call, reads>>

-----------------------------------------------------------------------------

Write == \/ \E i \in Ids : Insert(i)
         \/ \E ids \in Batches, stamp \in Stamps : Restamp(ids, stamp)
         \/ \E p \in Policies : Prune(p)
         \/ Vacuum

Reader(r) == \/ Answer(r) \/ AnswerFails(r) \/ NeedFull(r)
             \/ Snapshot(r) \/ Install(r) \/ FillFails(r)

Next == \/ Write \/ Tick \/ SetBack \/ IdleDrop
        \/ \E r \in Readers : \/ \E start \in Froms : Begin(r, start)
                              \/ Reader(r) \/ CancelWait(r)

\* A goroutine inside ReadEvents goes on; a call need not begin, a context
\* need not end, the store need not be written.
Spec == Init /\ [][Next]_vars /\ \A r \in Readers : WF_vars(Reader(r))

-----------------------------------------------------------------------------
(***************************************************************************)
(* Properties.                                                             *)
(***************************************************************************)

\* "Whichever process changed them, the answer is the one Store.ReadEvents
\* gives": whatever inserts, restamps, prunes, renumberings, clock changes,
\* expiries and full reads came between, a read the window covers is answered
\* with exactly the stored events, each once.
AnswersAsTheStore ==
  \A r \in Readers :
    Answerable(r) => Since(Answered(r).events, call[r].from)
                       = SetToBag(StoreEvents(call[r].from))

\* One full read at a time, and whoever waits has one to wait for: the entry
\* in c.filling never outlives its read.
OneFill ==
  Cardinality({r \in Readers : call[r].at \in {"filling", "read"}})
    = IF filling THEN 1 ELSE 0

\* Every call returns: a waiter is woken when the full read it waits for ends,
\* however that ends.
ReadReturns == \A r \in Readers : call[r] # Idle ~> call[r] = Idle
=============================================================================
