-------------------------- MODULE ExtraAllowances --------------------------
(***************************************************************************)
(* extras.json, the file of temporary extra allowances: the commands       *)
(* `boundaries extra` (GrantExtra, Dir.PutExtra) and `boundaries extra     *)
(* --end` (EndExtras, Dir.EndExtras) read the whole file and replace it,   *)
(* with no lock, and then record what they did in the decision ledger;     *)
(* hooks read the file before every call (liftedBy).                       *)
(***************************************************************************)
EXTENDS Integers, FiniteSets

CONSTANTS
  Grants,       \* the commands that grant an allowance
  Ends,         \* the commands that end the ones in force
  MaxExtra,     \* MaxExtra
  ExtrasKeep,   \* extrasKeep
  MaxAsked,     \* the longest duration somebody asks for
  ExtraMaxTime  \* bound on the clock

ASSUME ExtrasAssumption ==
  /\ {MaxExtra, ExtrasKeep, MaxAsked, ExtraMaxTime} \subseteq Nat
  /\ Grants \cap Ends = {}

VARIABLES
  extras,    \* extras.json, a set of allowances
  command,   \* per command: its place, its now, and the allowances it holds
  extraNow,  \* the clock
  recorded,  \* the decision ledger: an allowance and the stage recorded of it
  contested  \* history: allowances ended while a grant was writing

extraVars == <<extras, command, extraNow, recorded, contested>>

Commands == Grants \cup Ends
Never == -1

ExtrasInit ==
  /\ extras = {} /\ extraNow = 0 /\ recorded = {} /\ contested = {}
  /\ command = [c \in Commands |-> [at |-> "idle", now |-> 0, asked |-> 0, held |-> {}]]

\* Extra.Active.
Active(e, now) == e.endedAt = Never /\ e.at <= now /\ now < e.until

\* writeExtras drops the ones that ended over ExtrasKeep ago.
writeExtras(all, now) ==
  {e \in all : now - (IF e.endedAt # Never THEN e.endedAt ELSE e.until) <= ExtrasKeep}

-----------------------------------------------------------------------------

\* GrantExtra: extraUntil refuses more than MaxExtra; a signed grant then
\* waits for the person at the dialog.
GrantExtra(g, asked) ==
  /\ command[g].at = "idle" /\ asked > 0
  /\ command' = [command EXCEPT ![g].at = IF asked <= MaxExtra THEN "read" ELSE "done",
                                ![g].now = extraNow, ![g].asked = asked]
  /\ UNCHANGED <<extras, extraNow, recorded, contested>>

\* PutExtra reads the file ...
PutRead(g) ==
  /\ g \in Grants /\ command[g].at = "read"
  /\ command' = [command EXCEPT ![g].at = "write", ![g].held = extras]
  /\ UNCHANGED <<extras, extraNow, recorded, contested>>

Granted(g) ==
  LET c == command[g]
  IN  [id |-> g, at |-> c.now, until |-> c.now + c.asked, endedAt |-> Never]

\* ... and replaces it.
PutWrite(g) ==
  /\ g \in Grants /\ command[g].at = "write"
  /\ extras' = writeExtras(command[g].held \cup {Granted(g)}, command[g].now)
  /\ command' = [command EXCEPT ![g].at = "record", ![g].held = {Granted(g)}]
  /\ UNCHANGED <<extraNow, recorded, contested>>

\* Both commands append to the ledger what they did, and end.
Record(c) ==
  /\ command[c].at = "record"
  /\ recorded' = recorded \cup
       {<<e.id, IF c \in Grants THEN "accepted" ELSE "expired">> : e \in command[c].held}
  /\ command' = [command EXCEPT ![c].at = "done", ![c].held = {}]
  /\ UNCHANGED <<extras, extraNow, contested>>

\* EndExtras reads the file; nothing in force is nothing to end.
EndRead(c) ==
  /\ c \in Ends /\ command[c].at = "idle"
  /\ command' = [command EXCEPT ![c].now = extraNow, ![c].held = extras,
       ![c].at = IF \E e \in extras : Active(e, extraNow) THEN "write" ELSE "done"]
  /\ UNCHANGED <<extras, extraNow, recorded, contested>>

Writers == {g \in Grants : command[g].at = "write"}

\* Seeded fault: only the allowance that lasts longest is ended.
EndWrite_OnlyLongest(c) ==
  LET ending == {e \in command[c].held : Active(e, command[c].now)}
      first  == CHOOSE e \in ending : \A f \in ending : f.until <= e.until
  IN  /\ c \in Ends /\ command[c].at = "write"
      /\ extras' = writeExtras((command[c].held \ {first})
                      \cup {[first EXCEPT !.endedAt = command[c].now]}, command[c].now)
      /\ contested' = contested \cup {e.id : e \in IF Writers = {} THEN {} ELSE ending}
      /\ command' = [command EXCEPT ![c].at = "record", ![c].held = ending]
      /\ UNCHANGED <<extraNow, recorded>>

\* It replaces the file with every active allowance ended.
EndWrite(c) ==
  LET ending == {e \in command[c].held : Active(e, command[c].now)}
  IN  /\ c \in Ends /\ command[c].at = "write"
      /\ extras' = writeExtras((command[c].held \ ending)
                      \cup {[e EXCEPT !.endedAt = command[c].now] : e \in ending}, command[c].now)
      /\ contested' = contested \cup {e.id : e \in IF Writers = {} THEN {} ELSE ending}
      /\ command' = [command EXCEPT ![c].at = "record", ![c].held = ending]
      /\ UNCHANGED <<extraNow, recorded>>

ExtraTick ==
  /\ extraNow < ExtraMaxTime
  /\ extraNow' = extraNow + 1
  /\ UNCHANGED <<extras, command, recorded, contested>>

ExtrasNext ==
  \/ \E g \in Grants, asked \in 1 .. MaxAsked : GrantExtra(g, asked)
  \/ \E g \in Grants : PutRead(g) \/ PutWrite(g)
  \/ \E c \in Ends : EndRead(c) \/ EndWrite(c)
  \/ \E c \in Commands : Record(c)
  \/ ExtraTick

ExtrasSpec == ExtrasInit /\ [][ExtrasNext]_extraVars

-----------------------------------------------------------------------------
(***************************************************************************)
(* Properties.                                                             *)
(***************************************************************************)

\* GrantExtra: "The grant is recorded as a decision ... and it ends on its
\* own"; EndExtras: "ends every extra allowance in force now". Whatever the
\* commands' order, an allowance that lifts its rules is one a command granted
\* less than MaxExtra ago and recorded, unless that command has yet to; and
\* one recorded as ended lifts again only where a grant was between reading
\* and replacing the file when the end wrote it: what the missing lock costs.
LiftIsGranted ==
  \A e \in extras : Active(e, extraNow) =>
    /\ e.id \in Grants /\ e.at = command[e.id].now
    /\ command[e.id].at = "record" \/ <<e.id, "accepted">> \in recorded
    /\ extraNow - e.at < MaxExtra
    /\ <<e.id, "expired">> \in recorded => e.id \in contested
=============================================================================
