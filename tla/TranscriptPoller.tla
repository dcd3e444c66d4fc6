-------------------------- MODULE TranscriptPoller --------------------------
(***************************************************************************)
(* The transcript poller: internal/contexts/spend/vendorusage/jsonltail    *)
(* (Tail, Checkpointer) as claudecodejsonl.Poller uses it, over files that *)
(* another program appends to, with the event bus between it and the       *)
(* store, and a daemon that is stopped or killed and started again.        *)
(*                                                                         *)
(* A transcript is a sequence of lines: 0 is an operator's prompt, another *)
(* number (a content block of) that assistant turn; a turn's id is its     *)
(* file, the session in it and its number.  The carried reader state is    *)
(* whether a prompt is waiting for its turn (readState), which decides the *)
(* row's starts_user_message.                                              *)
(***************************************************************************)
EXTENDS Integers, Sequences, FiniteSets, Functions

CONSTANTS
  Files,         \* the paths FindSessionFiles may list
  Lag,           \* Checkpointer.Lag
  BusCapacity,   \* what the bus holds between a publish and its commit
  BusInTime,     \* does the bus store what it holds within Lag?
  MaxLines, MaxSessions, MaxTime, MaxStops  \* bounds of the instance

ASSUME BoundsAssumption ==
  /\ Lag \in Nat \ {0} /\ BusCapacity \in Nat \ {0} /\ BusInTime \in BOOLEAN
  /\ MaxLines \in Nat /\ MaxSessions \in Nat \ {0}
  /\ MaxTime \in Nat /\ MaxStops \in Nat

VARIABLES
  file,      \* per path: is it there, its session, its lines, whether a line
             \* is half written, and its version (size and modification time)
  now,       \* the clock
  daemon,    \* "down", "idle", "scan", "read" or "stopped"
  cancelled, \* has the daemon's context ended?
  stops,     \* crashes and shutdowns so far
  cursors,   \* Tail.cursors: path -> cursor, for the paths tracked
  todo, live,\* Scan's paths left to visit and its new cursors
  job,       \* advance's next cursor while its file is read, or NoJob
  seen,      \* Poller.seen
  known,     \* the ids of storedIDSnapshot
  bus,       \* rows published and not yet committed
  stored,    \* rows in the store
  pending,   \* Checkpointer.pending
  saved      \* the checkpoint file

world   == <<file, now>>
process == <<daemon, cancelled, stops, known>>
tail    == <<cursors, todo, live, job, seen>>
disk    == <<pending, saved>>
vars    == <<file, now, daemon, cancelled, stops, cursors, todo, live, job,
             seen, known, bus, stored, pending, saved>>

NoJob == [path |-> "none"]

ASSUME FilesAssumption == NoJob.path \notin Files

Fresh == [version |-> -1, offset |-> 0, session |-> 0, prompt |-> FALSE]

Init ==
  /\ file = [f \in Files |-> [there |-> TRUE, session |-> 1, lines |-> << >>,
                              half |-> FALSE, version |-> 0]]
  /\ now = 0 /\ daemon = "down" /\ cancelled = FALSE /\ stops = 0
  /\ cursors = << >> /\ todo = {} /\ live = << >> /\ job = NoJob
  /\ seen = {} /\ known = {}
  /\ bus = << >> /\ stored = {}
  /\ pending = << >> /\ saved = << >>

-----------------------------------------------------------------------------
(***************************************************************************)
(* The other program and the clock.  A transcript only grows; a session    *)
(* that starts over replaces the file.                                     *)
(***************************************************************************)

Prompt == 0

Turns(lines) == {lines[i] : i \in DOMAIN lines} \ {Prompt}

HalfWrite(f) ==
  /\ file[f].there /\ ~file[f].half /\ Len(file[f].lines) < MaxLines
  /\ file' = [file EXCEPT ![f].half = TRUE, ![f].version = @ + 1]
  /\ UNCHANGED <<now, process, tail, bus, stored, disk>>

\* The line ends: a prompt, the next turn, or a further block of the last.
EndLine(f) ==
  LET last == Cardinality(Turns(file[f].lines))
  IN  /\ file[f].half
      /\ \E line \in {Prompt, last, last + 1} :
           file' = [file EXCEPT ![f].half = FALSE, ![f].version = @ + 1,
                                ![f].lines = Append(@, line)]
      /\ UNCHANGED <<now, process, tail, bus, stored, disk>>

\* Another session's file takes the path. A reader that has the old one open
\* goes on reading it.
Replace(f) ==
  /\ file[f].session < MaxSessions
  /\ file' = [file EXCEPT ![f] = [there |-> TRUE, session |-> @.session + 1,
                                  lines |-> << >>, half |-> FALSE,
                                  version |-> @.version + 1]]
  /\ job' = IF job.path = f /\ job.open = << >>
            THEN [job EXCEPT !.open = <<file[f].lines>>] ELSE job
  /\ UNCHANGED <<now, process, cursors, todo, live, seen, bus, stored, disk>>

Remove(f) ==
  /\ file[f].there /\ file[f].session < MaxSessions
  /\ file' = [file EXCEPT ![f].there = FALSE]
  /\ job' = IF job.path = f /\ job.open = << >>
            THEN [job EXCEPT !.open = <<file[f].lines>>] ELSE job
  /\ UNCHANGED <<now, process, cursors, todo, live, seen, bus, stored, disk>>

\* DefaultCheckpointLag: "longer than the event bus takes to store what a
\* scan published", where BusInTime says so.
Tick ==
  /\ now < MaxTime
  /\ now' = now + 1
  /\ BusInTime => \A i \in DOMAIN bus : now' - bus[i].at < Lag
  /\ UNCHANGED <<file, process, tail, bus, stored, disk>>

-----------------------------------------------------------------------------
(***************************************************************************)
(* The store's end of the bus.                                             *)
(***************************************************************************)

\* The bus commits its oldest row; a row whose id is stored is left out.
Commit ==
  /\ bus # << >>
  /\ stored' = IF \E row \in stored : row.id = Head(bus).id THEN stored
               ELSE stored \cup {[id |-> Head(bus).id, starts |-> Head(bus).starts]}
  /\ bus' = Tail(bus)
  /\ UNCHANGED <<world, process, tail, disk>>

-----------------------------------------------------------------------------
(***************************************************************************)
(* Checkpoints.                                                            *)
(***************************************************************************)

\* Seeded fault: the newest positions are written, however young.
Note_NoLag(positions) ==
  /\ pending' = << >> /\ saved' = positions

\* Note: positions are recorded, and the newest at least Lag old are written
\* (which may fail). Positions noted at one moment fall due together, so only
\* the last are kept.
Note(positions) ==
  LET last    == Len(pending)
      earlier == IF last > 0 /\ pending[last].at = now
                 THEN SubSeq(pending, 1, last - 1) ELSE pending
      all     == Append(earlier, [at |-> now, positions |-> positions])
      due     == {i \in DOMAIN all : now - all[i].at >= Lag}
  IN  IF due = {} THEN pending' = all /\ saved' = saved
      ELSE \E i \in due :
             /\ \A j \in due : j <= i
             /\ pending' = SubSeq(all, i + 1, Len(all))
             /\ saved' \in {all[i].positions, saved}

-----------------------------------------------------------------------------
(***************************************************************************)
(* The daemon.                                                             *)
(***************************************************************************)

\* Seeded fault: the reader state is not part of the saved cursor.
Restore_NoState(positions) ==
  [f \in DOMAIN positions |-> [positions[f] EXCEPT !.prompt = FALSE]]

\* Restore: the cursors as saved.
Restore(positions) == positions

\* loadStoredIDs: a snapshot of the ids in the store, or none if it fails.
LoadStoredIDs == known' \in {{row.id : row \in stored}, {}}

\* Run starts, on a new process: an empty seen set, the saved positions, and
\* the stored ids if they can be read (a publish waits for them).
Start ==
  /\ daemon = "down"
  /\ daemon' = "idle" /\ cancelled' = FALSE
  /\ cursors' = Restore(saved)
  /\ LoadStoredIDs
  /\ seen' = {} /\ todo' = {} /\ live' = << >> /\ job' = NoJob
  /\ pending' = << >>
  /\ UNCHANGED <<world, stops, bus, stored, saved>>

\* The process is killed; what the bus holds is lost.
Die ==
  /\ daemon' = "down" /\ bus' = << >>
  /\ cursors' = << >> /\ todo' = {} /\ live' = << >> /\ job' = NoJob
  /\ seen' = {} /\ known' = {} /\ pending' = << >> /\ cancelled' = FALSE
  /\ UNCHANGED <<world, stored, saved>>

Crash ==
  /\ daemon # "down" /\ stops < MaxStops
  /\ stops' = stops + 1
  /\ Die

Cancel ==
  /\ daemon # "down" /\ ~cancelled /\ stops < MaxStops
  /\ cancelled' = TRUE /\ stops' = stops + 1
  /\ UNCHANGED <<world, daemon, known, tail, bus, stored, disk>>

\* Run returns between scans.
Stop ==
  /\ daemon = "idle" /\ cancelled
  /\ daemon' = "stopped"
  /\ UNCHANGED <<world, cancelled, stops, known, tail, bus, stored, disk>>

\* The bus is drained, or its Close timed out, and the process ends.
Exit ==
  /\ daemon = "stopped"
  /\ Die
  /\ UNCHANGED stops

-----------------------------------------------------------------------------
(***************************************************************************)
(* A scan.                                                                 *)
(***************************************************************************)

ScanStart ==
  /\ daemon = "idle"
  /\ daemon' = "scan"
  /\ todo' = {f \in Files : file[f].there} /\ live' = << >>
  /\ UNCHANGED <<world, cancelled, stops, known, cursors, job, seen, bus,
                 stored, disk>>

Cursor(f) == IF f \in DOMAIN cursors THEN cursors[f] ELSE Fresh

With(m, f, c) == [g \in DOMAIN m \cup {f} |-> IF g = f THEN c ELSE m[g]]

\* Seeded fault: a scan cut short keeps the cursors it got to.
Visited_KeepsOnCancel(f, found) ==
  /\ job' = NoJob
  /\ live' = found /\ todo' = todo \ {f}
  /\ IF cancelled
     THEN /\ daemon' = "idle" /\ cursors' = found
          /\ Note(found)
     ELSE daemon' = "scan" /\ UNCHANGED <<cursors, disk>>

\* After each file: a scan whose context ended returns without touching the
\* cursors, and they are noted as they were.
Visited(f, found) ==
  /\ job' = NoJob
  /\ IF cancelled
     THEN /\ daemon' = "idle" /\ todo' = {} /\ live' = << >>
          /\ Note(cursors)
     ELSE /\ daemon' = "scan" /\ todo' = todo \ {f} /\ live' = found
          /\ UNCHANGED disk
  /\ UNCHANGED cursors

\* The stat fails: the cursor goes.
Gone(f) ==
  /\ daemon = "scan" /\ f \in todo /\ ~file[f].there
  /\ Visited(f, live)
  /\ UNCHANGED <<world, cancelled, stops, known, seen, bus, stored>>

\* Unchanged, or it cannot be opened: the cursor stays as it is.
Unread(f) ==
  /\ daemon = "scan" /\ f \in todo /\ file[f].there
  /\ Visited(f, IF f \in DOMAIN cursors THEN With(live, f, cursors[f]) ELSE live)
  /\ UNCHANGED <<world, cancelled, stops, known, seen, bus, stored>>

\* Seeded fault: the saved head is not compared.
Continues_AnyHead(f, cur) == Len(file[f].lines) >= cur.offset

\* continues: the file is no shorter than what was read of it, and starts with
\* the same bytes.
Continues(f, cur) ==
  /\ Len(file[f].lines) >= cur.offset
  /\ cur.offset > 0 => cur.session = file[f].session

\* advance opens the file and seeks to where it continues from. `open` is
\* empty while the path still names the open file, else what that file holds.
Open(f) ==
  LET cur  == Cursor(f)
      from == IF Continues(f, cur) THEN cur ELSE Fresh
  IN  /\ daemon = "scan" /\ f \in todo /\ file[f].there
      /\ cur.version # file[f].version
      /\ daemon' = "read"
      /\ job' = [path |-> f, version |-> file[f].version, offset |-> from.offset,
                 session |-> file[f].session, prompt |-> from.prompt,
                 open |-> << >>]
      /\ UNCHANGED <<world, cancelled, stops, known, cursors, todo, live, seen,
                     bus, stored, disk>>

\* The complete lines the open file holds.
Content == IF job.open = << >> THEN file[job.path].lines ELSE job.open[1]

\* SkipKnown.PublishWait: an id known to be stored is skipped; otherwise the
\* call waits for room on the bus. Once the context has ended it may fail
\* instead, and publishWait only logs the row.
Publish(row) ==
  \/ row.id \in known /\ bus' = bus
  \/ row.id \notin known /\ Len(bus) < BusCapacity /\ bus' = Append(bus, row)
  \/ row.id \notin known /\ cancelled /\ bus' = bus

\* visitor: an unseen turn is marked seen, then published.
Visit(id) ==
  IF id \in seen THEN UNCHANGED <<seen, bus>>
  ELSE /\ seen' = seen \cup {id}
       /\ Publish([id |-> id, starts |-> job.prompt, at |-> now])

\* ReadLines takes the next complete line; visitLine advances the state.
ReadLine ==
  /\ daemon = "read" /\ job.offset < Len(Content)
  /\ LET line == Content[job.offset + 1]
     IN  IF line = Prompt
         THEN /\ job' = [job EXCEPT !.offset = @ + 1, !.prompt = TRUE]
              /\ UNCHANGED <<seen, bus>>
         ELSE /\ job' = [job EXCEPT !.offset = @ + 1, !.prompt = FALSE]
              /\ Visit(<<job.path, job.session, line>>)
  /\ UNCHANGED <<world, process, cursors, todo, live, stored, disk>>

\* Seeded fault: the half-written last line is consumed (final = true).
ReadEnd_Final(again) ==
  /\ daemon = "read"
  /\ again \/ job.offset >= Len(Content)
  /\ Visited(job.path, With(live, job.path,
       [version |-> IF again THEN -1 ELSE job.version,
        offset |-> job.offset + IF file[job.path].half THEN 1 ELSE 0,
        session |-> job.session, prompt |-> job.prompt]))
  /\ UNCHANGED <<world, cancelled, stops, known, seen, bus, stored>>

\* The end of the file, or (again) a read error: the cursor keeps what was
\* read, and an error has the file looked at again next scan.
ReadEnd(again) ==
  /\ daemon = "read"
  /\ again \/ job.offset >= Len(Content)
  /\ Visited(job.path, With(live, job.path,
       [version |-> IF again THEN -1 ELSE job.version, offset |-> job.offset,
        session |-> job.session, prompt |-> job.prompt]))
  /\ UNCHANGED <<world, cancelled, stops, known, seen, bus, stored>>

\* Scan installs the new cursors, pruneSeen evicts old ids, and the poller
\* notes its positions.
ScanDone ==
  /\ daemon = "scan" /\ todo = {}
  /\ daemon' = "idle"
  /\ cursors' = live /\ live' = << >>
  /\ seen' \in {seen, {}}
  /\ Note(live)
  /\ UNCHANGED <<world, cancelled, stops, known, todo, job, bus, stored>>

-----------------------------------------------------------------------------

Writer == \E f \in Files : HalfWrite(f) \/ EndLine(f) \/ Replace(f) \/ Remove(f)

Poller == \/ ScanStart \/ ScanDone \/ ReadLine
          \/ \E f \in Files : Gone(f) \/ Unread(f) \/ Open(f)
          \/ \E again \in BOOLEAN : ReadEnd(again)
          \/ Stop \/ Exit

Next == Writer \/ Tick \/ Commit \/ Start \/ Crash \/ Cancel \/ Poller

(***************************************************************************)
(* The poller's loop goes on, the bus commits, a daemon that is down is    *)
(* started again; a select with two ready cases picks either in the end,   *)
(* so a cancelled Run returns; a file that can be opened now and then is   *)
(* opened, and read to its end.                                            *)
(***************************************************************************)
Fairness ==
  /\ WF_vars(Poller) /\ WF_vars(Commit) /\ WF_vars(Start)
  /\ \A f \in Files : SF_vars(Open(f))
  /\ SF_vars(ReadLine) /\ SF_vars(ReadEnd(FALSE)) /\ SF_vars(Stop)

Spec == Init /\ [][Next]_vars /\ Fairness

-----------------------------------------------------------------------------
(***************************************************************************)
(* Properties.                                                             *)
(***************************************************************************)

StoredIds == {row.id : row \in stored}

\* The turns of the file as it is now that a cursor is past.
Passed(f, cur) ==
  IF /\ file[f].there /\ file[f].session = cur.session
     /\ cur.offset \in 1 .. Len(file[f].lines)
  THEN {<<f, file[f].session, k>> : k \in Turns(SubSeq(file[f].lines, 1, cur.offset))}
  ELSE {}

\* Checkpointer: "saving cursors past events not yet stored would skip them
\* for good". A daemon killed at any moment resumes from the saved positions
\* before every turn that is not in the store.
CheckpointBehindStore ==
  \A f \in DOMAIN saved : Passed(f, saved[f]) \subseteq StoredIds

\* A running scanner's cursor is past a turn only when its row is stored or on
\* the bus, through replaced files, read errors, restarts and a shutdown that
\* makes PublishWait fail halfway through a scan.
CursorBehindBus ==
  \A f \in DOMAIN cursors :
    Passed(f, cursors[f]) \subseteq StoredIds \cup {bus[i].id : i \in DOMAIN bus}

\* Whether the turn starts a user message, by the whole file.
Starts(lines, k) ==
  \E i \in DOMAIN lines : /\ lines[i] = k /\ \A j \in 1 .. i - 1 : lines[j] # k
                          /\ i > 1 /\ lines[i - 1] = Prompt

\* A stored row says what reading its transcript in one go from the start
\* would say, however the file was cut up by scans, restarts and evictions
\* from seen: the carried state and first-row-wins agree.
StoredAsWritten ==
  \A row \in stored : LET f == row.id[1] IN
    file[f].there /\ file[f].session = row.id[2]
      => row.starts = Starts(file[f].lines, row.id[3])

\* Every turn written to a transcript that stays is stored in the end.
EveryTurnIsStored ==
  \A f \in Files, g \in 1 .. MaxSessions, k \in 1 .. MaxLines :
    (file[f].there /\ file[f].session = g /\ k \in Turns(file[f].lines))
      ~> (<<f, g, k>> \in StoredIds \/ ~file[f].there \/ file[f].session # g)
=============================================================================
