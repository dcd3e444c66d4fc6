# TokenOps: a TLA+ verification project

TokenOps is a local daemon and a set of hook commands that meter what coding
agents spend, store it as an event log, and let rules ("boundaries") stop or
hold an agent's next step. This directory models the parts of it where
concurrency, failure and ordering decide whether it is right, checks them with
TLC on small instances, and proves the most important results with TLAPS.

Paths below are relative to the repository. Every definition that models code
is mapped to its lines in `PROJECT.json`.

## 1. The system

```
 proxy handlers ──Publish───────────────┐                    ┌── share gate ── OTLP exporter
 transcript pollers ─┐ known-id filter   ├─> event bus ── MultiSink
 usage meter ────────┼── PublishWait ────┘   (one worker)     └── sqlite store ── retention
 ledger poller ──────┘                          │ observers          │
                                                └── audit subscriber ┤
                                                                     └── event cache ─> API, reports

 agent's tool call ─> hook process (Guard) ─┐  files: answers, pending, sessions,
 another tool call ─> hook process (Guard) ─┼─ extras.json, calls/*.jsonl,
 operator ─> approve / deny / extra ────────┤  decisions.jsonl ─> ledger poller
 daemon ─> RouteApprovals <─> team plane ───┘
```

| Part | State | Operations | Hard behaviour |
|---|---|---|---|
| Event bus `internal/events/bus.go` | channel, worker's batch, `closed`, `stop`, two counters | Publish, PublishWait, take, flush with retries, drain, Close | two-step publishes racing Close; retries; a full queue; shutdown on a broken store |
| Store `internal/storage/sqlite` | event rows, change log, skip counter | AppendBatch, restamp, prune, vacuum | contention with other processes; rowids reused |
| Event cache `eventcache.go` | one decoded window per type, full read in flight, idle timer | ReadEvents, update, full read, trim, idle drop | what is remembered goes stale between reads; shared full reads that fail |
| Transcript poller `jsonltail`, `claudecodejsonl` | cursors, seen ids, carried parse state, checkpoint file | Scan, advance, visit, Note, Restore | files that grow, vanish or are replaced; crash between publish, commit and checkpoint |
| Shutdown `internal/daemon`, `infra/lifecycle`, `security/audit` | stage, supervised tasks, recorders | Go, Wait, Drain, Subscriber.Close, Components.Shutdown | producers that hang; observers called after they were detached |
| Boundary approvals `capability/boundaries`, `infra/boundaryledger` | answer, pending decision, session file, ledger | Guard, Decide, presence proofs | several hook processes and an operator on the same files without a lock; evaluations that fail open |
| Around the bus `skipknown.go`, `daemon/storedids.go`, `multisink.go`, `otlp/exporter.go`, `daemon/boundary_runtime.go` | snapshot of stored ids, batch, last answer of the share boundary | PublishWait, AppendBatch to each sink, isHeld | publishers waiting for a background read or a shutdown; retries that reach every sink; a cached answer |
| Decision ledger `infra/boundaryledger` | `decisions.jsonl`, the poller's sent set | Append, prune, Read, Once | hook processes appending and pruning at once; a daemon killed with lines in its bus |
| Organisation approvals `capability/boundaries/org.go` | the pending decision, the answer, the team plane's requests | RouteApprovals, route, settle | a copy held across a network call; lost calls; a kill between two writes |
| Rules `contexts/boundaries` | rules with their stage, plan readings, lifted rules, the session's call log | Evaluate, Match, Promote, liftExtras, ReadLoop, Holds | ties, unknown windows, several lifted rules; a log cut while it is read; midnight and the week's end |
| Extra allowances `extra.go`, `extras.go` | `extras.json` | GrantExtra, EndExtras, Active | whole-file replacement without a lock |
| Glance and findings `proxy/glance_snapshot.go`, `findings_api.go` | last result and its saved copy, the computation under way, findings acted on | get, start, load, stale, withoutActed, Act, noteActed | a slow computation beside the requests that change what it shows; two locks; restarts |
| Routing trials `capability/experiments` | the trial's events in the store, the manager's lock | Start, Assign, Stop, Fold | requests racing for the arms of a pair, stops from other processes, appends that fail |
| Usage meter `pollnow`, `claudeusagemeter` | last refresh, pending ticks, session, cookie store's stamp | Fire, NewTicker, scan, refreshCookies | a refresh during a scan; a sign-in between two looks at the browser |

Also in the repository and not modelled (reasons in section 8 and in
`PROJECT.json`): the proxy's forwarding and caching, optimizers and formatters,
pricing and plan arithmetic, learning and interventions, the other file-backed
ledgers, CLI, MCP, desktop apps, integrations.

### What makes each part correct

* Bus: an accepted envelope is never forgotten, duplicated or reordered; the
  drop counter is exact; Close returning nil means drained; a busy store delays
  and does not lose; a broken one does not wedge the exit.
* Cache: an answer from memory is what the store would have answered.
* Poller: no saved or live position is past a turn that can still be lost;
  what is stored is what one uninterrupted read would store.
* Shutdown: when nothing timed out, nothing is lost; whatever timed out, it
  ends, and nothing writes to a closed store.
* Approvals: one approval lets one step through; nothing passes without a
  live approval; every verdict is on record; nobody is credited with an answer
  they did not give; an approver's answer reaches the machine it was given for.
* Around the bus: what a poller is told is kept is kept; a sink never sees
  another's changes or more repeats than the store's refusals explain; nothing
  is exported long after a boundary began to refuse.
* Ledger: a prune costs at most what was written during it; what the file holds
  is ingested whatever is killed.
* Rules: the strictest rule that applies binds, whatever else is lifted, tied or
  unknown; the loop figure is what the whole session shows; hours are stretches.
* Allowances: nothing is lifted that was not granted, recorded and still running.
* Findings: what the operator acted on is not shown again.
* Trials: pairs are balanced and each execution keeps its arm.
* Meter: every accepted refresh is polled; after a new sign-in figures come back.

## 2. Modules

| Module | Models | Role |
|---|---|---|
| `DurableLog` | what the bus promises | abstract: a log of accepted envelopes, a settled prefix, a Close |
| `EventBus` | `bus.go`, AppendBatch's outcome | implements `DurableLog` |
| `EventBusProofs` | | types, conservation, drain, refinement, what becomes of every row, the drop counter, contention |
| `EventCache` | `eventcache.go`, the change-log triggers, retention | one event type |
| `EventCacheProofs` | | the cache answers as the store, one full read at a time |
| `TranscriptPoller` | `jsonltail`, `claudecodejsonl/poller.go` | bus as a bounded queue to the store |
| `TranscriptPollerProofs` | | no place is past a turn that is not kept; rows are right |
| `Shutdown` | `stopDaemon` and what it stops | composes `DurableLog` with supervisor, audit subscriber, store |
| `ShutdownProofs` | | the two safety results |
| `BoundaryApproval` | `guard.go`, `decide.go`, `presence*.go`, `boundaryledger.go` | one decision of one session |
| `BoundaryApprovalProofs` | | approvals, records, prompts, challenges, single steps |
| `OrgApprovals` | `org.go`, Guard on a routed decision | daemon, hooks, team plane on one decision |
| `OrgApprovalsProofs` | | one step for one approval |
| `LedgerFile` | Append, prune, Read, `poller.go` of `boundaryledger` | hook processes and the daemon on `decisions.jsonl` |
| `SinkChain` | `skipknown.go`, `storedids.go`, `multisink.go`, `exporter.go`, `sharedSink`, AppendBatch | what stands before and behind the bus |
| `BoundaryRules` | `boundaries.go`, liftExtras | which rule binds a call |
| `ExtraAllowances` | `extra.go`, `extras.go` | commands racing for `extras.json` |
| `LoopBreaker` | `loop.go`, `calls.go` | the loop figure over a bounded log |
| `RuleHours` | `folderhours.go` | the hours of a rule over a week |
| `UsageMeter` | `pollnow.go`, `claudeusagemeter/poller.go` | refresh signal, ticker, the meter's scan |
| `GlanceSnapshots` | `glance_snapshot.go`, `findings_api.go`, Act of `findings/actions.go` | requests and a background computation over one snapshot |
| `Experiments` | `experiments.go` | requests, starts and stops over one ledger |
| `FoldProofs` | | folds over sets and sequences; `SinkChain`: what was reported is kept, originals, the share gate, repeats; `BoundaryRules`: the strictest binds; `LoopBreaker`: the figure |
| `SubsystemProofs` | | extends `FoldProofs`; one theorem each about `ExtraAllowances`, `LedgerFile`, `GlanceSnapshots`, `RuleHours`, `Experiments` |
| `MCEventBus`, `MCEventCache`, `MCTranscriptPoller`, `MCShutdown`, `MCBoundaryApproval`, `MCSubsystems` | | instances for TLC; `MCSubsystems` holds the last ten |

### EventBus

Every shared access of the Go code is a step. `CheckClosed` is the load of
`b.closed` at the top of Publish and PublishWait; `Send` the send case of their
selects; `CountPublished` the counter after it; `DropFull` and `CancelWait` the
other cases. The worker is at `select`, `append`, `judge` (between an error and
`retryFlush`), `drain` or `done`; `after` is where flush returns to. Close is
`CloseMark` (`b.closed`), `CloseStop` (`b.stop`), then `CloseDrained` or
`CloseTimeout`. `accepted`, `settled`, `lost` and `cut` are history. `attempt`
saturates at the retry budget, and the skip counter at `SkipCap`: nothing tells
larger values apart. Back-off waits are not modelled; they only delay.

### DurableLog

Accept, Settle, BeginClose, CloseOK, CloseTimeout. `EventBus` maps `phase` to
Close's place; the other variables are the same. `Shutdown` uses it in place of
the bus, so what it shows rests on the refinement, not on a second bus model.

### EventCache

The store's writers (`Insert`, `Restamp`, `Prune`, `Vacuum`) are one statement
each, as another goroutine or process sees them; the triggers' log is
`LogChange`. A read is `Begin` (under the lock, `touch`), then an answer from
memory brought up to date in one read transaction, or a wait for the full read
in flight, or a full read: started under the lock, `Snapshot` outside it,
`Install` under it. The clock may be set back, within the slack the code keeps
between span and horizon.

### TranscriptPoller

A transcript is a sequence of prompts and blocks of turns that another program
appends to, half a line at a time; the file may be removed or replaced. The
poller's `Scan`, `advance`, per-line visits, `Note` and restart are steps;
`Commit` is the bus storing its oldest row, with `ON CONFLICT DO NOTHING`.
A crash keeps `stored` and `saved` only.

### Shutdown

A producer is a request or a supervised task with one envelope. `Leave` is what
all bounded stages share: in time, or late. `notify` copies its observers
before it calls them, so `Handle` may run long after `AuditClose`.

### BoundaryApproval

Each hook process runs Guard for one tool call; each read or write of a file is
a step, named by the function that makes it (`Load`, `GetAnswer`, `Check`,
`Spend`, `Retire`, `Renew`, `Apply`, `Allow`, `Refuse`, `SettlePrompt`,
`Settle`, `Accept`, `Raise`, `PutPending`, `Propose`, `Save`). `Fail` is
`guardWithTimeout`: the evaluation fails or overruns and the call goes ahead.
The harness may run a call, have it declined, stop it by its own rules or by
another hook; `Classify` is how the transcript's wording is read back. The
operator's Decide is prepare and sign, check, write, record.

### OrgApprovals

The daemon's round is `RouteList`, `RouteCheck` (an answer that waits is not
asked for again), `Ask` (the team plane handles RequestApproval or ApprovalFor),
`Reply`, then route's `Stamp` and settle's `SettlePut`, `SettleNote`,
`SettleClear`. Between `RouteList` and the last of them it works on the copy it
read. `Lost` loses the request or its reply; `RouterFails` is a kill or a failed
write at any place. A hook is Guard reduced to what touches these files: read
the answer, consume it, retire the challenge, or raise the decision. The team
plane is not in the repository; it is modelled from the client: it returns a
request that is pending or answered for the session and opens a new one
otherwise. `overlap` says whether a hook may be evaluating while the daemon
writes.

### LedgerFile

An Append is open, write, stat, and for a file past `pruneAbove` read and
replace. A line is written to the file its process opened, which a prune may
have replaced by then (`ino`). The poller's Once is a read, one step per line,
and the forgetting of pruned ids. The bus stores what it accepted (`FlushLines`)
or, when its retries are used up on a store that fails without contention, gives
it up (`GiveUpLines`; `lost` is history, since this daemon started). `Kill` keeps
the file and the store only.

### SinkChain

`PublishWait` of the filter is `CallPublish`, then `SkipStored`, `PassOn` or
`GiveUp`; the snapshot is read, or fails, at any time, or hangs until the
shutdown. A flush visits the store and then the gate and the exporter, joins
their errors and is retried by `Retried`, the bus's rule. An envelope is its id
and whether it was redacted. The exporter redacts in place every envelope it is
handed, whether it can then send it or not: a copy, or the batch's own where
Clone fails and cloneBatch shares the pointer (`Shared`, `Redacted`), so the next
attempt hands the store a redacted envelope. The exporter is the one with
redaction switched on. The bus itself is a queue here; `EventBus` is its model.

### BoundaryRules, LoopBreaker, RuleHours

Three pure computations, written as the code writes them and compared with what
an operator would say they mean, in every state a small configuration can get
into. `BoundaryRules` changes rules, stages, readings and lifted rules step by
step; `Binding` is Guard's evaluation. `LoopBreaker` makes the session's calls
one at a time, with the log cut as AppendCall cuts it, against `made`, all of
them. `RuleHours` lets a week pass.

### ExtraAllowances

A grant reads and replaces `extras.json` and then records itself; an end does
the same for every allowance in force. Both use the clock as it was when the
command began, which for a signed grant may be a dialog ago.

### UsageMeter

`chans` is which of the three one-place channels (refresh, the interval's timer,
the ticker's output) is full. A scan is a sequence of calls that may each fail;
`refreshCookies` looks at the cookie store's stamp and then reads it, with the
operator free to sign in between the two.

### GlanceSnapshots

A request is `Request` (it takes its time), `Get` under the snapshots' lock, a
wait if there is nothing to answer, and `WithoutActed` under the other lock; a
request that acts goes on with `Act` and `NoteActed` and then answers like a
read. The computation reads (`Compute`) and lands, saving first; both in one step,
since a kill between them leaves what a kill after them does. A finding is a tip,
whose answer the next computation reads from the ledger, or a rule to promote,
whose stage is in the config that the daemon reads at its start only. A saved
finding has lost the name of its rule, which is not written to the file, so it
cannot be promoted from there. `alone` and `settled` are history: which requests
overlapped no other.

### Experiments

A request is one of an execution's (`ExecutionOf`), which may have several open at
once, each a goroutine of the proxy. Assign reads the ledger and answers under
the lock, except that an append is a step of its own with the lock held; Stop's time and Stop's append are two steps,
without it. `Fold` is what `LastOf`, `Assignments` and `EndsAt` say: events are
ordered by their time, not by their place.

## 3. Runs

| Run | Result | What it shows |
|---|---|---|
| `bus` | holds | `NothingVanishes`; `SettledIsAccountedFor`; `DroppedIsExact`; `DrainIsComplete`; `ImplementsLog`; `ContentionOnlyDelays`; `StopEndsTheWorker`; `AcceptedIsSettled` |
| `cache_answers` | holds | every answer from memory is the store's, across prunes, renumbering, restamps, clock changes and expiry, if no deleted event is stored again |
| `cache_readers` | holds | one full read at a time, its entry never outlives it, every call returns |
| `cache_reused_rowid` | violated | the same without that proviso: a pruned event stored again under its old rowid hides a newer row |
| `poller_restart` | holds | `CheckpointBehindStore`; rows are those of one uninterrupted read |
| `poller_replaced` | holds | `CursorBehindBus` when files are removed or replaced, and every turn of a file that stays is stored in the end |
| `shutdown` | holds | a clean stop loses nothing, no recorder outlives the store, the stop ends |
| `approval` | holds | three installations. Three racing calls, two approvals, failures and expiry: `OneStepEach`, `PassIsApproved`, `DecisionsAreRecorded`. A person at the prompt, no evaluation failing and no other hook refusing in its own words: `PromptWasAnswered` too. Under presence-strict, one call at a time: `RefusedWasUsed`, a signed approval is refused only once another of its raising was spent |
| `approval_denied` | violated | a denial given between a call's read and its rename is spent as that call's approval: one approval, two steps |
| `approval_failed_open` | violated | an evaluation that overruns after naming its call lets it run unasked, and the next call credits the prompt with a session-long approval |
| `subsystems` | holds | the ten modules of `MCSubsystems`, below |
| `org_one_step` | violated | a hook that writes its copy of the pending decision back around the daemon's `DeletePending` revives it as already routed, and the spent approval is applied again: one approval, two steps |

`subsystems` explores ten independent state spaces in one run: `world` picks
one in the initial state, the others' variables stay as they start. Their
fairness is conjoined, each restricted to its world.

| Module | Properties | What they show |
|---|---|---|
| `OrgApprovals` | `OrgOneStepApart`, `OrgAnswerArrives` | with lost calls and hooks during the network wait, an approval for one step lets one step through; an answer given in the team plane reaches the answer file, or a newer request is open, whatever is lost or killed, within approvalsTTL |
| `LedgerFile` | `PruneKeepsTheNewest`, `LedgerIsIngested` | the newest `keepLines` lines survive appends and prunes in any order, except lines written during a prune; what the file holds is stored, pruned or counted as given up by the running daemon's bus, through a kill, after which it is sent again |
| `SinkChain` | `ReportedIsKept`, `StoreKeepsOriginals`, `RepeatsAreRetries`, `ExportIsAllowed`, `WaitersAreReleased` | what a poller is told is kept is stored, on its way or counted; nothing stored is counted as dropped; the exporter's redaction never reaches what is stored, also where the sinks share an envelope; repeats at the collector and in SkippedInvalid are the store's refusals; an export is at most shareGateEvery behind the boundary; waiting publishers are released |
| `BoundaryRules` | `BindsTheStrictest` | what binds is the first of the strictest enforced rules that hold and are not lifted |
| `ExtraAllowances` | `LiftIsGranted` | an allowance that lifts is granted, recorded, within MaxExtra, and not one recorded as ended, except where the missing lock brings one back |
| `LoopBreaker` | `LoopIsCounted` | the figure never exceeds the session's, and is the session's while the window remembers its edits |
| `RuleHours` | `HoursAreStretches` | hours hold during exactly the stretches that start on the chosen days |
| `GlanceSnapshots` | `ActedIsHidden` | whatever is computed meanwhile, a tip acted on is not shown to requests that overlap no other until the daemon restarts, and a promoted rule is not shown after a restart |
| `Experiments` | `EvidenceIsPaired` | pairs hold one execution of each arm and fill in order, no trial takes more than its pairs, an execution keeps the arm that is recorded for all its requests, several at once included, through failed appends and stops |
| `UsageMeter` | `RefreshIsPolled`, `MeterReconnects` | a scan begins after every accepted refresh; after a new sign-in the vendor's figure is published |

Each property of a passing run has a seeded fault in its module (named
`Definition_Fault`, above the definition it breaks) under which TLC finds the
property violated.

### Bounds

* `bus`: three envelopes, two by PublishWait, one malformed; channel of one,
  batch of two, one retry, `SkipCap` 1. A full queue, a full and a partial
  batch, a spent budget and a publisher late for the drain all occur; capacities
  and counts are arbitrary in the proofs.
* `cache_answers`: two recent events, two of an imported history, change log of
  one entry, tail of two rows, four rowids, two logged changes: every log entry
  pushes one out, every tail can be outrun. `MaxReads` 0 leaves reads unbounded.
  `cache_readers`: two readers, three calls, two windows.
* `poller_restart`: one file of three lines, one crash or shutdown, a bus of one
  row, a lag of one tick: a prompt, a turn and a repeated block of it can be cut
  up at every place. `poller_replaced`: a second session in the file.
* `shutdown`: one request, two tasks, two audited envelopes, one recorder slot,
  so the pool can be full.
* approvals: three calls, one to three answers, an evaluation and an approval
  either side of `TTL`. Calls are interchangeable, so these runs use symmetry;
  they check no liveness.
* `subsystems`. Organisation approvals: three calls (two with every fault on), two
  requests, one fault, a day that passes; two requests are what a wrong repeat
  and a rightful new one need. Ledger: three lines and no daemon, or two and a
  daemon killed once; the file overflows at two lines of mixed size and keeps
  one, so several prunes overlap. Sinks: two publishers, one id stored before,
  one malformed that cannot be cloned; two refusals, or one with an event the
  exporter cannot encode, or one with a request it cannot build and a hanging
  snapshot, or a rule that changes once in three ticks of a gate of two. Rules: three of a menu of six, two
  readings per window besides unknown. Allowances: two grants and an end over
  three ticks. Loop: eight calls of three, a window of five, periods up to
  three, a log cut at seven. Hours: days of three minutes, windows within the
  week and over its end. Meter: one failing call and one new sign-in, or two
  ticks of refreshes. Findings: one request that acts beside one that reads over
  two ticks, or one at a time with a restart, three ticks and a rule to promote;
  the full product (two keys, two clients, a restart, three ticks) was checked
  once, in 17 million states. Trials: three executions, one with
  two requests at once, for the two places of a pair, which fill; three for two
  pairs, so that a second pair is opened; two requests of one execution between
  two trials; four or five times taken.
* `CHECK_DEADLOCK FALSE` in `subsystems` and `org_one_step`: in each world the
  commands, lines, calls or publishers run out, and nothing has to happen then.
  The liveness properties are what would show somebody stuck.

### Fairness

Go schedules every goroutine that can run: weak fairness of the bus worker, of
a publisher inside its call, of Close, of a reader inside ReadEvents, of the
poller's loop and of stopDaemon, whose timers fire. Nobody has to publish, to
call Close, to write a transcript or to make a request. `AcceptedIsSettled`
assumes in addition, in the formula itself, that an append tried again and
again succeeds (`ContentionEnds`): contention is other processes' transactions,
which end. `StopEndsTheWorker` and `ShutdownEnds` make no such assumption: the
store may refuse for ever, requests and tasks may hang. The poller's run
assumes a file that can be opened now and then is opened and read to its end,
and that a cancelled Run returns though its select may pick another ready case
a few times. In `subsystems`: an evaluation that has begun ends and the daemon's
rounds go on (a ticker drives them), but no hook has to run and nobody has to
answer; the ledger poller ticks, the bus stores a batch or gives it up, a killed daemon is started
again, but no hook process has to finish; a released publisher goes on, the
snapshot's query ends unless the set-up lets it hang; the meter's calls return
or time out and its ticker's goroutine runs. Findings and trials
are safety only. Faults are never fair.

## 4. Proofs

For every value of the constants, from the named assumptions of the modules
only: sizes, limits and times are numbers, the installations a run enumerates
are of the right type, and what the code itself guarantees of its inputs (no two
pollers share an id and none publishes one twice in a process,
`FeedsAssumption`; the rows a store cannot keep are finitely many of those the
pollers publish, `MalformedAssumption`; what Clone cannot copy is among those,
since both marshal the same payload, `UnclonableAssumption`; a trial's name is its id,
`TrialsAssumption`; a rule's hours do not end when they start,
`HoursAssumption`; a rule has the fields of a `Rule`, `RulesAssumption`; the
loop window and one call more hold the shortest loop of every period, 65 calls
and 9 in the code, `LoopAssumption`). The sets of envelopes, calls,
readers, clients or producers are arbitrary. Every listed property is stated as
a run checks it; where a theorem has a condition, the text says which run shows
what happens without it.

Invariants that are hard to see inductive (`GlanceInv`, `TrialsInv`) were given
to TLC as invariants of the component's own run before they were proved.

`EventBusProofs`:

* `TypeCorrect` (`TypeOK`, with the capacities of the channel and of the batch),
  `Conservation` (`NothingVanishes`), `CloseDrains`
  (`DrainIsComplete`) from one inductive invariant `IInv`. None is inductive
  alone: that the batch stays within BatchSize needs that a full one is being
  flushed (`BatchInv`); that Close drains needs where the worker can be once
  `stop` is closed (`CloseInv`), and that the drain loop's empty queue puts all
  of the cut into what is settled or in the last flush (`DrainInv`).
* `Refinement` (`ImplementsLog`): initial states map to initial states, and
  every step is a step of `DurableLog` or a stutter. A send is an Accept because
  only calls whose send succeeded are in the log (`Fresh`); letting go of a
  batch is a Settle because the batch is the next piece of the log
  (`NothingVanishes`) and is not empty (`BatchInv`).
* `SettledRows` (`SettledIsAccountedFor`). Stored and given-up rows stay apart
  because an envelope is accepted, and so settled, once (`DistinctInv`); below
  the counter's cap the malformed ones are counted by the attempt before the
  batch is let go of (`CountedInv`).
* `DroppedCount` (`DroppedIsExact`): `b.dropped` is the number of calls shed plus
  the number of rows given up, which are finitely many at any time though
  `Events` need not be finite (`DropInv`).
* `ContentionDelays` (`ContentionOnlyDelays`), an action property.

`ShutdownProofs`:

* `CleanStop` (`CleanStopLosesNothing`). The invariant says that a stage left
  in time left nobody behind and nobody starts since (`QuietInv`: requests
  arrive while serving only, Go refuses once `stopping` is set), that therefore
  nothing was accepted past the cut (`DrainedInv`), and that the settled
  envelopes are a prefix of the accepted ones (`PrefixInv`).
* `RecordersEnd` (`NoRecorderOutlivesTheStore`).

`EventCacheProofs`:

* `CacheIsTheStore` (`AnswersAsTheStore`), unless an event that retention deleted
  is stored again (`~Reinsert`; `cache_reused_rowid` shows that case). The property is about a read that returns; what has to be
  kept is when a window in memory is still usable. `WindowInv` says it: while the
  change log reaches back to the window's seq, the window agrees with the store
  up to every row of its tail that still holds its event, but for the rows the
  log names. VACUUM moves rows only down and in order, so a tail row that has
  stayed shows that all below it did. Every writer's step (insert, restamp,
  prune, VACUUM, log truncation, a clock set back) is shown to keep this, and
  every reader's step to use it.
* `OneFullRead` (`OneFill`, and that a waiter waits for a read that is under way):
  `c.filling` has its entry exactly while one reader is inside its full read.

`TranscriptPollerProofs`, as long as the bus stores what it holds within Lag
(`BusInTime`, the checkpoint's own premise):

* `CheckpointSafe` (`CheckpointBehindStore`), `CursorsSafe` (`CursorBehindBus`)
  and `StoredFaithful` (`StoredAsWritten`) from one invariant. Places in a
  transcript are copied about: a running scan's place, the cursors, the live
  positions, the pending checkpoints and the written one. The invariant says of
  each that it is `Sound`: inside the transcript that is there now, carrying the
  state its last line leaves, and past no turn that is not held, where "held"
  means stored for the written checkpoint, stored or on the bus since the note's
  time for a pending one, and stored or on the bus for the others. A row is
  right if it is the first of its turn (`RowInv`), because the store keeps the
  first.

`BoundaryApprovalProofs`, for any number of calls and every step of their Guards
interleaved with the operator's:

* `PassApproved` (`PassIsApproved`): the answer a call carries to its verdict was
  given, approves and was young enough when the call began (`PassInv`).
* `VerdictsRecorded` (`DecisionsAreRecorded`): the stage named by the session's
  file, or by any call's copy of it, is in the ledger (`RecordInv`), so a call
  that skips the record may do so.
* `PromptAnswered` (`PromptWasAnswered`) where nothing fails open and no other
  hook refuses (`Attended`; `approval_failed_open` shows the other case).
* `RefusedUsed` (`RefusedWasUsed`) with presence enforced and one call at a time
  (`AtATime`), or without presence.
* `OneStepsCounted` (`OneStepEach`) while the operator only approves single steps
  or approves none (`OnlyOneSteps`, `NoOneSteps`; `approval_denied` shows that a
  denial in between can be spent as an approval). The invariant counts: calls
  that have spent an approval, plus the one on file, are at most those given.
* `ApprovalTyped`.

`OrgApprovalsProofs`:

* `OrgOneStepsApart` (`OrgOneStepApart`), for installations in which no hook
  evaluates between the daemon's writes and none of those fails (`Apart`;
  `org_one_step` shows what happens otherwise). A decision that says it was sent,
  wherever a copy of it is held, was sent in a request that can still be settled
  (`RoutedInv`); therefore a request for one step is settled at most once, and
  the calls that spent such an answer plus the one on file are at most the
  requests settled (`CountInv`).

`FoldProofs`. A fold of the community modules chooses a recursive function on the
subsets of its domain. `FoldExists` shows, by a least counterexample, that there
is one, so the chosen one satisfies its equation, and a fold is taken apart one
member at a time from there (`MaxOfAll`, `LeftFoldExists`, `CountsSteps`,
`EvaluateSteps`, `ProgressSteps`, `BetterSteps`). About `SinkChain`:

* `OriginalsKept` (`StoreKeepsOriginals`). The batch does get redacted: what is
  redacted in it was shared, so Clone failed on it, and the store refuses it
  (`OriginalInv`, `ExportedIds`, `UnclonableAssumption`).
* `ReportedKept` (`ReportedIsKept`), `ExportsAllowed` (`ExportIsAllowed`),
  `ChainTyped`. The second half of
  `ReportedIsKept` (nothing stored is counted as dropped) needs to know where
  every id is: ahead of one publisher, queued, in the batch, dropped or stored,
  and in one of these only (`PlaceInv`).
* `RepeatsBounded` (`RepeatsAreRetries`). The collector's bound on an envelope
  inside the batch depends on where the attempt is (`Due`). That the count of
  malformed rows stays within a sum over all of them needs that an id is at most
  once in the queue and once in the batch, and a sum that is paid in advance: the
  malformed ids on their way to the store (`OnItsWay`) are left out of it
  (`Spent`, `CountInv`). An attempt of the store moves its batch from the one to
  the other, and sums are compared term by term (`CountsGrow`).

About `BoundaryRules`: `StrictestBinds` (`BindsTheStrictest`). After every round
of Evaluate's loop the rule that binds is the strictest of those seen that may
(`BoundStep`, `EvaluateBinds`), and Guard's two evaluations together give the
strictest of the rules that are not lifted; what a rule matches is what its
condition means (`MatchMeans`).

About `LoopBreaker`: `LoopsCounted` (`LoopIsCounted`). The log is the end of the
session's calls and at least a window of them, or all (`LoopInv`). The last
progress in the window is not before the last progress of the session
(`LaterInTheWindow`), so the tail the code looks at is an end of the tail the
whole session has (`SinceTail`), every loop in the one is a loop in the other
and no longer (`TailLooping`, `NeverMore`). Conversely, what loops in the whole
session loops in the window and one call more, in full if it fits
(`CountedInFull`), else in whole rounds (`CountedByRounds`), where a second
cycle that fills the window must be shown to go on as far as the longest one
(`CyclesMeet`).

`SubsystemProofs`:

* `AllowancesAreGranted` (`LiftIsGranted`), for any number of granting and
  ending commands, from `ExtrasAssumption` (durations are natural numbers, no
  command both grants and ends). The property speaks of the file alone and is
  not inductive: a command holds a copy of the file and replaces the file with
  it later. The invariant follows the copies. Each is as its command granted it
  (`SoundInv`, `GrantedInv`); an end's copy holds what was granted by its own
  time, so what it leaves open is over (`HeldInv`, `EndInv`); and an open copy
  in the hands of a grant, of an allowance that is recorded as ended or about to
  be, is over or contested (`WriterInv`, `EndingInv`).
* `NewestKept` (`PruneKeepsTheNewest`), for any sizes and limits and any number
  of appending, pruning and killed processes. A prune puts in the file's place
  what it read earlier, so the invariant says of the file and of what every
  prune has read that it lists written lines in their order and holds the newest
  that no prune overlapped (`HasNewest`); then cutting to the last KeepLines of
  it keeps those too.
* `ActedStaysHidden` (`ActedIsHidden`). Acting on a tip makes the next computation
  leave it out, but an older one may land after it. The invariant orders them:
  while any result shows a settled tip, the tip's action is remembered, and every
  result that shows it or is being filtered was asked for before that action and
  before any that a request in flight may still note (`DrawnInv`); once no result
  shows it none does again, because it is answered (`SettledInv`).
* `HoursHold` (`HoursAreStretches`): `Holds`, which looks at the minute of the day
  and, in the morning part, at the day before, against stretches of minutes that
  wrap around the week. The proof is arithmetic with the length of the day as an
  unknown: where a minute falls (`MinuteOf`, `DivUnique`) and what is in a
  stretch (`StretchIs`).
* `PairsAreEvidence` (`EvidenceIsPaired`). The invariant numbers a trial's
  assignments: the n-th has the pair and the arm of the n-th turn (`TurnsInv`),
  the event about to be appended those of the next, for an execution that has no
  assignment yet, since the lock admits no other request in between, also none of
  the same execution (`NextInv`), and an execution is assigned once (`OnceInv`).

Facts about sequences that need induction (which lines a cut keeps, how far apart
places are) are proved by a least counterexample: a set of natural numbers that
is not empty has a smallest (`LeastNat`).

Left to TLC:

* liveness, which is out of this prover's reach: `StopEndsTheWorker`,
  `AcceptedIsSettled`, `ReadReturns`, `EveryTurnIsStored`, `ShutdownEnds`,
  `OrgAnswerArrives`, `LedgerIsIngested`, `WaitersAreReleased`,
  `RefreshIsPolled`, `MeterReconnects` (the last two are all there is about
  `UsageMeter`);
* the approval theorems outside of their conditions, for the mixed answers and
  parallel calls that `approval` enumerates.

## 5. What the code does otherwise than its comments say

With a run and a finding in `PROJECT.json`:

* `cache_reused_rowid`: `knownThrough` takes a tail row that holds its id for
  proof that everything below it is known.
* `approval_denied`: `ConsumeAnswer` spends whichever answer is there, not the
  one that was read.
* `approval_failed_open`: `settlePrompt` takes a call that ran unasked, because
  its evaluation overran, for one that was approved.
* `org_one_step`: the pending decision that settle clears is written back by a
  hook that read it before, with its `RoutedAt`, and its spent approval is
  fetched and applied again.

Met while modelling, each the reason for a named assumption or bound:

* `BusInTime` in `TranscriptPoller`: the checkpoint's lag is a fixed two
  minutes, while the bus retries a contended store for as long as it runs. With
  the constant FALSE, TLC shows a checkpoint past rows a kill then loses.
* `otherHooks` in `BoundaryApproval`: a refusal in another hook's own words
  reads as a call that ran (`proposal.go` says so), and is credited as an
  approval, which `settlePrompt`'s comment rules out.
* `maxInFlight` 1 in the signed set-up: two calls that raise a decision at once
  each mint a challenge, and the write of one discards the other's, which may
  already be signed.
* Publish on a closed bus returns without counting the envelope, though its
  comment says DroppedCount increments; a PublishWait that loaded `closed`
  before Close may return nil for an envelope the channel takes after the drain;
  AppendBatch counts a malformed envelope once per attempt (`RepeatsAreRetries`
  bounds it); the cache's idle timer is not restarted when a full read that
  outlasted it is installed.
* `unsendable` in `SinkChain`: the exporter returns an error when it cannot build
  its request, though its comment says errors are "logged but not returned". The
  endpoint is only checked for not being empty, so with one that does not parse
  every batch is retried and then counted as dropped although it is stored; and
  one event whose figures JSON cannot carry, which the store skips, does the same
  to the batch it is in.
* `lost` in `LedgerFile`: the comment of the poller's `sent` says it "only saves
  re-sending the ledger every tick". A line is marked once the bus took it, so
  when the bus gives its batch up it is neither stored nor sent again until the
  daemon restarts or the line is pruned; the bus counts it as dropped.
* `overlapped` in `LedgerFile` and `contested` in `ExtraAllowances` are what the
  missing locks cost: a decision written while another process prunes is gone,
  and an allowance that was ended is in force again when a grant was between
  reading and replacing the file.
* `failed` in `UsageMeter`: the stamp of a cookie store whose read failed is
  remembered like one that held nothing new, so a passing failure keeps the
  meter from reading it again until the browser changes it. The organisation's
  id is kept when the operator signs in to another account.
* `LoopBreaker`: a loop longer than the window reads as the whole rounds that
  fit in it, 63 calls for a cycle of three, so `loop_calls >= 64` does not hold
  then, while the comment says it "reads as LoopWindow calls". An edit whose
  first copy has left the window looks like progress. Parallel calls read the
  log before either is appended.
* `OrgApprovals`: a decision keeps the time it was first raised, so one that is
  a day old is not asked about again in that session; an answer written on the
  machine during the network call is overwritten by the team plane's.

* `alone` in `GlanceSnapshots`: `computeFindings` says "A finding acted on since
  that computation is left out: the next one no longer draws it". A request that
  took its snapshot before a newer computation landed shows the acted finding
  when another request forgets the action between its two locks; an action whose
  request came before a computation was asked for, and whose write came after
  that computation's read, is forgotten as covered; after a restart the saved
  result shows an answered tip. And a promotion through `/api/findings/act` does
  not restart the daemon, as `plansDeps`'s comment assumes of every config write:
  the next computation draws the finding again, from the config of the start. A
  computation under way when `stale` is called lands with its own time, so within
  glanceFresh no newer one is started, which stale's comment promises.
* `Experiments`: a stop that is dated before an assignment and appended between
  its read and its append is lost: the trial is active again.

## 6. Hazards

`PROJECT.json` lists them at their lines with the properties that cover them.
One is uncovered: a trial's stop that an assignment overtakes. (The cache's idle
timer may fire during a full read, whose entry then has no timer until the next
read: that costs memory and no answer, and is not listed.)

## 7. Plan

Done, in this order: 1 EventBus with DurableLog, 2 EventCache,
3 TranscriptPoller, 4 Shutdown, 5 BoundaryApproval, proofs of EventBus and
Shutdown; then 6 SinkChain, 7 LedgerFile, 8 OrgApprovals with BoundaryRules,
ExtraAllowances, LoopBreaker and RuleHours, 9 UsageMeter, proof of
ExtraAllowances; 10 GlanceSnapshots, 11 Experiments; then proofs of every
safety invariant a run checks, those computed with folds last (section 4).

Next, theorems: the approval theorems for mixed answers, with what a denial in
between may cost as part of the count; that `TranscriptPoller`'s bus, a bounded
queue, and the one of `SinkChain` are what `DurableLog` promises.

Then, models: the early listener's hand-over and the boot, composed with
`Shutdown`; SyncOrg; the Codex poller's rate-limit snapshots; the
read-modify-write JSON files under `filelock`; the log of routing proposals;
budget alerts; the cache of parsed transcripts (`agentdx/cache.go`).

## 8. Not modelled, and why

* Pricing, plans, forecasts, learning, measurement, interventions: floating
  point and statistics over stored events, pure, beyond TLC's integers.
* Optimizers, formatters, rules and prompt analysis: pure text transformations.
* Proxy forwarding, streaming, CLI, MCP, API, apps, integrations, the team
  plane's wire: transport and formatting over the modelled parts.
* Response cache and session tracker: maps behind one mutex.
* Within modelled parts: parsing and pricing of a turn, proof age, key holds and
  fingerprints, the rules' other figures and their syntax, the organisation's
  signed rule sets, the store without a change log, a transcript rewritten in place past its first 256 bytes, and an
  evaluation that goes on in its goroutine for a moment after it timed out.

## 9. Running

```
tlc -config bus.cfg MCEventBus          # and so on; PROJECT.json pairs them
tlapm EventBusProofs.tla
tlapm ShutdownProofs.tla
tlapm SubsystemProofs.tla               # and the other five *Proofs modules
```

The largest run, `subsystems`, takes three to four minutes with two workers; the proofs
some minutes, `FoldProofs` the longest.
