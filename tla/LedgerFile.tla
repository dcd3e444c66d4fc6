----------------------------- MODULE LedgerFile -----------------------------
(***************************************************************************)
(* decisions.jsonl, the file hook processes record decisions in            *)
(* (boundaryledger.Dir.Append, prune), and the daemon's poller that        *)
(* ingests it into the event store (boundaryledger.Poller).  appendMu      *)
(* orders the appends of one process only: each line below is another hook *)
(* process's, so every file operation is a step.                           *)
(***************************************************************************)
EXTENDS Integers, Sequences, FiniteSets, SequencesExt

CONSTANTS
  LedgerSetups,\* how many decisions are recorded, and is the daemon there?
  LineSize,    \* the bytes of each decision, a sequence
  PruneAbove,  \* pruneAbove: the size past which an append prunes
  KeepLines,   \* keepLines: how many lines a prune keeps
  MaxKills     \* bound on how often the daemon is killed

ASSUME LedgerAssumption ==
  /\ LineSize \in Seq(Nat)
  /\ LedgerSetups \subseteq [lines : DOMAIN LineSize, ingested : BOOLEAN]
  /\ PruneAbove \in Nat /\ KeepLines \in Nat \ {0} /\ MaxKills \in Nat

VARIABLES
  ledgerSetup, \* which of LedgerSetups, chosen once
  file,      \* decisions.jsonl: which file the name stands for, and its lines
  hook,      \* per line: where its Append is, the file it opened, what prune read
  poller,    \* Poller: up?, the lines Once read and has still to go through
  sent,      \* Poller.sent
  busy,      \* lines the bus has accepted and not yet flushed
  kept,      \* lines in the event store
  kills,     \* how often the daemon was killed
  written,   \* history: the lines written, in order
  overlapped,\* history: the lines written while a prune was under way
  lost       \* history: the lines this daemon's bus gave up

ledgerVars == <<ledgerSetup, file, hook, poller, sent, busy, kept, kills, written,
                overlapped, lost>>
daemon     == <<poller, sent, busy, kept, kills, lost>>

\* The decisions, numbered in the order their processes open the file.
Lines == 1 .. ledgerSetup.lines

AtRest == [at |-> "idle", todo |-> << >>, live |-> {}]

LedgerInit ==
  /\ ledgerSetup \in LedgerSetups
  /\ file = [ino |-> 0, lines |-> << >>]
  /\ hook = [l \in Lines |-> [at |-> "idle", ino |-> 0, read |-> << >>]]
  /\ poller = [AtRest EXCEPT !.at = IF ledgerSetup.ingested THEN "idle" ELSE "absent"]
  /\ sent = {} /\ busy = {} /\ kept = {} /\ kills = 0
  /\ written = << >> /\ overlapped = {} /\ lost = {}

-----------------------------------------------------------------------------
(***************************************************************************)
(* Append, in the hook process that records l.                             *)
(***************************************************************************)

\* OpenFile, O_APPEND.
Open(l) ==
  /\ hook[l].at = "idle" /\ \A k \in 1 .. l - 1 : hook[k].at # "idle"
  /\ hook' = [hook EXCEPT ![l].at = "write", ![l].ino = file.ino]
  /\ UNCHANGED <<file, daemon, written, overlapped>>

Pruning == {h \in Lines : hook[h].at = "replace"}

\* The line is written to the opened file, which a prune may have replaced.
Write(l) ==
  /\ hook[l].at = "write"
  /\ file' = IF hook[l].ino = file.ino THEN [file EXCEPT !.lines = Append(@, l)] ELSE file
  /\ hook' = [hook EXCEPT ![l].at = "stat"]
  /\ written' = Append(written, l)
  /\ overlapped' = IF hook[l].ino # file.ino \/ Pruning # {} THEN overlapped \cup {l}
                   ELSE overlapped
  /\ UNCHANGED daemon

FileSize == FoldLeft(LAMBDA n, l : n + LineSize[l], 0, file.lines)

\* Stat: a file that grew too large is pruned.
Stat(l) ==
  /\ hook[l].at = "stat"
  /\ hook' = [hook EXCEPT ![l].at = IF FileSize > PruneAbove THEN "prune" ELSE "done"]
  /\ UNCHANGED <<file, daemon, written, overlapped>>

\* prune reads the file ...
PruneRead(l) ==
  /\ hook[l].at = "prune"
  /\ hook' = [hook EXCEPT ![l].read = file.lines,
                          ![l].at = IF Len(file.lines) <= KeepLines THEN "done" ELSE "replace"]
  /\ UNCHANGED <<file, daemon, written, overlapped>>

\* Seeded fault: the oldest lines are kept, not the newest.
PruneReplace_KeepsOldest(l) ==
  /\ hook[l].at = "replace"
  /\ file' = [ino |-> file.ino + 1, lines |-> SubSeq(hook[l].read, 1, KeepLines)]
  /\ hook' = [hook EXCEPT ![l].at = "done", ![l].read = << >>]
  /\ UNCHANGED <<daemon, written, overlapped>>

\* ... and renames a file of its newest lines over it (writeAtomic).
PruneReplace(l) ==
  /\ hook[l].at = "replace"
  /\ file' = [ino |-> file.ino + 1,
              lines |-> SubSeq(hook[l].read, Len(hook[l].read) - KeepLines + 1,
                               Len(hook[l].read))]
  /\ hook' = [hook EXCEPT ![l].at = "done", ![l].read = << >>]
  /\ UNCHANGED <<daemon, written, overlapped>>

-----------------------------------------------------------------------------
(***************************************************************************)
(* Poller.Once and the bus behind it.                                      *)
(***************************************************************************)

\* Read.
OnceRead ==
  /\ poller.at = "idle"
  /\ poller' = [at |-> "sending", todo |-> file.lines, live |-> ToSet(file.lines)]
  /\ UNCHANGED <<file, hook, sent, busy, kept, kills, written, overlapped, lost>>

\* Seeded fault: a line is marked as sent and passed over when the bus is full.
OnceSend_MarksFirst ==
  /\ poller.at = "sending" /\ poller.todo # << >>
  /\ poller' = [poller EXCEPT !.todo = Tail(@)]
  /\ busy' = IF busy = {} THEN {Head(poller.todo)} ELSE busy
  /\ sent' = sent \cup {Head(poller.todo)}
  /\ UNCHANGED <<file, hook, kept, kills, written, overlapped, lost>>

\* A line not sent yet is handed to PublishWait, and marked once accepted.
OnceSend ==
  /\ poller.at = "sending" /\ poller.todo # << >>
  /\ LET l == Head(poller.todo)
     IN  /\ poller' = [poller EXCEPT !.todo = Tail(@)]
         /\ busy' = IF l \in sent THEN busy ELSE busy \cup {l}
         /\ sent' = sent \cup {l}
  /\ UNCHANGED <<file, hook, kept, kills, written, overlapped, lost>>

\* Ids the ledger pruned are forgotten.
OnceForget ==
  /\ poller.at = "sending" /\ poller.todo = << >>
  /\ sent' = sent \cap poller.live
  /\ poller' = AtRest
  /\ UNCHANGED <<file, hook, busy, kept, kills, written, overlapped, lost>>

\* The bus flushes what it accepted; the store ignores a repeated id.
FlushLines ==
  /\ busy # {}
  /\ kept' = kept \cup busy /\ busy' = {}
  /\ UNCHANGED <<file, hook, poller, sent, kills, written, overlapped, lost>>

\* Or the store fails, not for contention, until the retries are used up: the
\* bus gives the batch up, whose lines the poller has marked as sent.
GiveUpLines ==
  /\ busy # {}
  /\ lost' = lost \cup busy /\ busy' = {}
  /\ UNCHANGED <<file, hook, poller, sent, kept, kills, written, overlapped>>

\* The daemon is killed: what it held in memory is gone. Under a shutdown
\* PublishWait's error ends Once the same way, after the bus drained.
Kill ==
  /\ poller.at \in {"idle", "sending"} /\ kills < MaxKills
  /\ poller' = [AtRest EXCEPT !.at = "down"]
  /\ sent' = {} /\ busy' = {} /\ kills' = kills + 1 /\ lost' = {}
  /\ UNCHANGED <<file, hook, kept, written, overlapped>>

\* NewPoller.
Restart ==
  /\ poller.at = "down"
  /\ poller' = AtRest
  /\ UNCHANGED <<file, hook, sent, busy, kept, kills, written, overlapped, lost>>

-----------------------------------------------------------------------------

AppendLine(l) ==
  Open(l) \/ Write(l) \/ Stat(l) \/ PruneRead(l) \/ PruneReplace(l)

Once == OnceRead \/ OnceSend \/ OnceForget

SettleLines == FlushLines \/ GiveUpLines

LedgerNext ==
  /\ (\E l \in Lines : AppendLine(l)) \/ Once \/ SettleLines \/ Kill \/ Restart
  /\ UNCHANGED ledgerSetup

(***************************************************************************)
(* The poller's ticks go on, the bus stores a batch or gives it up, and a  *)
(* killed daemon is started again.  Nothing is assumed of the hook         *)
(* processes.                                                              *)
(***************************************************************************)
ledgerMoving ==
  <<file, hook, poller, sent, busy, kept, kills, written, overlapped, lost>>

LedgerFairness ==
  WF_ledgerMoving(Once) /\ WF_ledgerMoving(SettleLines) /\ WF_ledgerMoving(Restart)

LedgerSpec == LedgerInit /\ [][LedgerNext]_ledgerVars /\ LedgerFairness

-----------------------------------------------------------------------------
(***************************************************************************)
(* Properties.                                                             *)
(***************************************************************************)

\* The newest KeepLines lines written.
Newest == ToSet(SubSeq(written, IF Len(written) > KeepLines THEN Len(written) - KeepLines + 1
                                ELSE 1, Len(written)))

\* "rewrites it keeping only the newest keepLines" (boundaryledger.go). However
\* many hook processes append and prune at once, the newest lines are in the
\* file, except the ones written while a prune was between its read and its
\* rename: those are what the missing lock can cost.
PruneKeepsTheNewest == Newest \ overlapped \subseteq ToSet(file.lines)

\* A decision the file holds is stored, pruned first, or among the rows the
\* daemon's bus gave up and counted, however often the daemon is killed with
\* lines in its bus or restarted after it gave some up. (sent "only saves
\* re-sending the ledger every tick", poller.go; a line whose batch was given up
\* it also keeps from being sent again by this daemon.)
LedgerIsIngested ==
  \A l \in DOMAIN LineSize :
    (ledgerSetup.ingested /\ l \in ToSet(file.lines))
      ~> (l \in kept \/ l \notin ToSet(file.lines) \/ l \in lost)
=============================================================================
