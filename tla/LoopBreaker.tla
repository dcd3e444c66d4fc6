----------------------------- MODULE LoopBreaker -----------------------------
(***************************************************************************)
(* The loop breaker's figure: the loop at the end of a session's tool      *)
(* calls (ReadLoop of internal/contexts/boundaries), read from the bounded *)
(* log that AppendCall, cutCallLog and RecentCalls of                      *)
(* internal/infra/boundaryledger keep.  Each step is the session's next    *)
(* call; `made` keeps them all, for comparison.                            *)
(***************************************************************************)
EXTENDS Integers, Sequences, FiniteSets, SequencesExt, FiniteSetsExt

CONSTANTS
  Tools,        \* the calls a session may make: tool name and input hash
  EditCalls,    \* those of them that edit or write a file
  LoopWindow,   \* LoopWindow
  MaxPeriod,    \* loopMaxPeriod
  MinRepeats,   \* loopMinCycleRepeats
  LogCap,       \* callLogCap, in lines
  MaxCalls      \* bound on the calls of the session

ASSUME LoopAssumption ==
  /\ EditCalls \subseteq Tools
  /\ {LoopWindow, MaxPeriod, MinRepeats, LogCap, MaxCalls} \subseteq Nat \ {0}
  /\ MinRepeats >= 2 /\ LogCap >= LoopWindow
  /\ LoopWindow + 1 >= MinRepeats * MaxPeriod   \* 65 and 9: a call more than the
                                                \* window holds every shortest loop

VARIABLES
  made,      \* history: every call the session made
  callLog,   \* calls/<session>.jsonl
  reading    \* LoopReading of the latest call: its calls and its period

loopVars == <<made, callLog, reading>>

-----------------------------------------------------------------------------

LatestCalls(s, n) == SubSeq(s, IF Len(s) > n THEN Len(s) - n + 1 ELSE 1, Len(s))

\* One round of sinceProgress's loop: an edit not made since start is progress.
progress(calls, start, i) ==
  IF calls[i] \in EditCalls /\ \A j \in start .. i - 1 : calls[j] # calls[i] THEN i ELSE start

\* Where the last progress was made.
lastProgress(calls) ==
  FoldLeft(LAMBDA start, i : progress(calls, start, i), 1, [i \in DOMAIN calls |-> i])

\* The calls since the last progress, starting with the edit that made it.
sinceProgress(calls) == SubSeq(calls, lastProgress(calls), Len(calls))

\* How often the last p calls of tail went round at its end.
Repeats(tail, p) ==
  Max({r \in 1 .. Len(tail) \div p :
         \A j \in 0 .. p * r - 1 : tail[Len(tail) - j] = tail[Len(tail) - (j % p)]})

AllSame(tail, p) == \A j \in 0 .. p - 1 : tail[Len(tail) - j] = tail[Len(tail)]

\* The periods that count as a loop: the same call twice, or a cycle of
\* different calls MinRepeats times.
Looping(tail, p) ==
  /\ p <= Len(tail)
  /\ IF p = 1 THEN Repeats(tail, p) >= 2
     ELSE ~AllSame(tail, p) /\ Repeats(tail, p) >= MinRepeats

NoLoop == [calls |-> 0, period |-> 0]

\* One round of ReadLoop's loop: a longer loop is better.
better(tail, best, p) ==
  IF Looping(tail, p) /\ p * Repeats(tail, p) > best.calls
  THEN [calls |-> Min({p * Repeats(tail, p), LoopWindow}), period |-> p] ELSE best

\* ReadLoop: the longest loop, the shortest period among equals, capped.
ReadLoop(calls) ==
  FoldLeft(LAMBDA best, p : better(sinceProgress(calls), best, p),
           NoLoop, [p \in 1 .. MaxPeriod |-> p])

\* RecentCalls.
RecentCalls == LatestCalls(callLog, LoopWindow)

\* Seeded fault: the log is cut to fewer calls than the window holds.
Cut_Short(log) == IF Len(log) > LogCap THEN LatestCalls(log, LoopWindow - 2) ELSE log

\* AppendCall past its cap: cutCallLog keeps the newest window.
Cut(log) == IF Len(log) > LogCap THEN LatestCalls(log, LoopWindow) ELSE log

\* readLoop, for the session's next call. PruneCalls, at its end, removes the
\* logs of other sessions, idle for a day.
readLoop(c) ==
  /\ Len(made) < MaxCalls
  /\ reading' = ReadLoop(Append(RecentCalls, c))
  /\ callLog' = Cut(Append(callLog, c))
  /\ made' = Append(made, c)

LoopInit == made = << >> /\ callLog = << >> /\ reading = NoLoop

LoopNext == \E c \in Tools : readLoop(c)

LoopSpec == LoopInit /\ [][LoopNext]_loopVars

-----------------------------------------------------------------------------
(***************************************************************************)
(* Properties.                                                             *)
(***************************************************************************)

\* The calls the latest reading was of, and all there were.
Seen == LatestCalls(made, LoopWindow + 1)
Whole == sinceProgress(made)

\* The window still holds the first of every edit it repeats: one that has
\* left it makes its repeat look like progress.
Remembered ==
  Len(sinceProgress(Seen)) = IF Len(Whole) < Len(Seen) THEN Len(Whole) ELSE Len(Seen)

\* "how many of the session's latest tool calls went round a loop" (loop.go).
\* The log is bounded and is cut while the session runs. The figure never
\* exceeds what the whole session shows, so no rule binds early; and it is
\* that figure while the window remembers the edits, or, for a loop longer
\* than the window, the whole rounds that fit in the window and one call more.
LoopIsCounted ==
  made # << >> =>
    LET loops == {p \in 1 .. MaxPeriod : Looping(Whole, p)}
        whole == IF loops = {} THEN 0 ELSE Max({p * Repeats(Whole, p) : p \in loops})
        p     == reading.period
    IN  /\ reading.calls <= whole
        /\ Remembered =>
             IF whole <= LoopWindow THEN reading.calls = whole
             ELSE p \in loops /\ reading.calls = Min({LoopWindow, p * ((LoopWindow + 1) \div p)})
=============================================================================
