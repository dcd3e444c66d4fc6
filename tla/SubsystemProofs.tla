--------------------------- MODULE SubsystemProofs ---------------------------
(***************************************************************************)
(* Theorems about the smaller subsystems: the extra allowances, the        *)
(* boundary ledger's file, the glance's findings, the hours of rules and   *)
(* the routing trials, each for every value of its constants.  The lemmas  *)
(* on numbers are those of FoldProofs.                                     *)
(***************************************************************************)
EXTENDS ExtraAllowances, LedgerFile, GlanceSnapshots, RuleHours, Experiments, FoldProofs

-----------------------------------------------------------------------------
(***************************************************************************)
(* LiftIsGranted of ExtraAllowances, for any number of commands that grant *)
(* and end allowances, any durations and any clock.                        *)
(*                                                                         *)
(* The invariant follows every copy of an allowance, the file's and the    *)
(* commands': each is as its command granted it (Sound), and a copy that   *)
(* was not ended, of an allowance recorded or about to be recorded as      *)
(* ended, is over or was contested wherever it can still reach the file    *)
(* (EndInv, WriterInv).                                                    *)
(***************************************************************************)

Places == {"idle", "read", "write", "record", "done"}

Allowance == [id : Grants, at : Int, until : Int, endedAt : Int]

Command == [at : Places, now : Nat, asked : Int, held : SUBSET Allowance]

TypeInv ==
  /\ extras \subseteq Allowance
  /\ command \in [Commands -> Command]
  /\ extraNow \in Nat
  /\ \A c \in Commands : command[c].now <= extraNow
  /\ \A g \in Grants : command[g].at \in {"read", "write", "record"} => command[g].asked <= MaxExtra

\* An allowance as its command granted it, which has recorded it or will.
Sound(e) ==
  LET c == command[e.id]
  IN  /\ e.at = c.now /\ e.until = c.now + c.asked /\ c.asked <= MaxExtra
      /\ \/ c.at = "record"
         \/ c.at = "done" /\ <<e.id, "accepted">> \in recorded

SoundInv ==
  /\ \A e \in extras : Sound(e)
  /\ \A c \in Commands : \A e \in command[c].held : Sound(e)

\* Recorded as ended, or held by an end that is about to record it.
Ending(i) ==
  \/ <<i, "expired">> \in recorded
  \/ \E c \in Ends : command[c].at = "record" /\ \E e \in command[c].held : e.id = i

EndingInv == \A i \in Grants : Ending(i) => command[i].at \in {"record", "done"}

\* A copy that is not ended does no harm.
Harmless(e) ==
  (e.endedAt = Never /\ Ending(e.id)) => (e.id \in contested \/ extraNow >= e.until)

EndInv == \A e \in extras : Harmless(e)

WriterInv == \A g \in Writers : \A e \in command[g].held : Harmless(e)

\* What an end read was granted before it.
HeldInv ==
  \A c \in Ends : command[c].at = "write" =>
    \A e \in command[c].held : e.at <= command[c].now

\* A grant that has written holds what it wrote until it recorded it.
GrantedInv ==
  \A g \in Grants : command[g].at = "record" => \E e \in command[g].held : e.id = g

IInv ==
  TypeInv /\ SoundInv /\ GrantedInv /\ EndingInv /\ EndInv /\ WriterInv /\ HeldInv

-----------------------------------------------------------------------------

\* The initial state satisfies the invariant: nothing is granted yet.
LEMMA InitIInv == ExtrasInit => IInv
<1> SUFFICES ASSUME ExtrasInit PROVE IInv
  OBVIOUS
<1>1. TypeInv
  BY DEF ExtrasInit, TypeInv, Command, Places, Commands
<1>2. SoundInv /\ GrantedInv /\ EndInv /\ WriterInv /\ HeldInv
  BY DEF ExtrasInit, SoundInv, GrantedInv, EndInv, WriterInv, HeldInv, Writers, Commands
<1>3. EndingInv
  BY DEF ExtrasInit, EndingInv, Ending, Commands
<1> QED BY <1>1, <1>2, <1>3 DEF IInv

\* GrantExtra takes its time and its duration; no allowance names it yet.
LEMMA GrantStep ==
  ASSUME IInv, NEW g \in Grants, NEW asked \in 1 .. MaxAsked, GrantExtra(g, asked)
  PROVE  IInv'
<1> USE ExtrasAssumption
<1>1. TypeInv'
  <2>1. asked \in Int
    OBVIOUS
  <2>2. command' \in [Commands -> Command]
    <3>1. PICK p \in Places : p = IF asked <= MaxExtra THEN "read" ELSE "done"
      BY DEF Places
    <3>2. command' = [command EXCEPT ![g].at = p, ![g].now = extraNow, ![g].asked = asked]
      BY <3>1 DEF GrantExtra
    <3> QED BY <2>1, <3>2, ZenonT(40) DEF IInv, TypeInv, Command, Commands
  <2>3. \A c \in Commands : command'[c].now <= extraNow'
    BY DEF IInv, TypeInv, GrantExtra, Command, Commands
  <2>4. \A h \in Grants : command'[h].at \in {"read", "write", "record"}
                             => command'[h].asked <= MaxExtra
    BY DEF IInv, TypeInv, GrantExtra, Command, Commands
  <2> QED BY <2>2, <2>3, <2>4 DEF IInv, TypeInv, GrantExtra
<1>2. ASSUME NEW e \in Allowance, Sound(e) PROVE Sound(e)'
  BY <1>2 DEF IInv, TypeInv, GrantExtra, Command, Commands, Sound, Allowance
<1>3. SoundInv'
  BY <1>2 DEF IInv, TypeInv, SoundInv, GrantExtra, Command, Commands
<1>4. \A i \in Grants : Ending(i)' = Ending(i)
  BY DEF IInv, TypeInv, GrantExtra, Command, Commands, Ending
<1>5. EndingInv'
  BY <1>4 DEF IInv, TypeInv, EndingInv, GrantExtra, Command, Commands
<1>6. ASSUME NEW e \in Allowance, Harmless(e) PROVE Harmless(e)'
  BY <1>4, <1>6 DEF Harmless, GrantExtra, Allowance
<1>7. EndInv'
  BY <1>6 DEF IInv, TypeInv, EndInv, GrantExtra
<1>8. Writers' = Writers /\ \A h \in Grants : command'[h].held = command[h].held
  BY DEF IInv, TypeInv, GrantExtra, Command, Commands, Writers
<1>9. WriterInv'
  BY <1>6, <1>8 DEF IInv, TypeInv, WriterInv, Writers, Command, Commands
<1>10. HeldInv'
  BY DEF IInv, TypeInv, HeldInv, GrantExtra, Command, Commands
<1>11. GrantedInv'
  BY DEF IInv, TypeInv, GrantedInv, GrantExtra, Command, Commands
<1> QED BY <1>1, <1>3, <1>5, <1>7, <1>9, <1>10, <1>11 DEF IInv

\* PutRead copies the file: what is harmless there is harmless in the copy.
LEMMA PutReadStep ==
  ASSUME IInv, NEW g \in Grants, PutRead(g)
  PROVE  IInv'
<1> USE ExtrasAssumption
<1>1. TypeInv'
  BY DEF IInv, TypeInv, PutRead, Command, Places, Commands
<1>2. ASSUME NEW e \in Allowance, Sound(e) PROVE Sound(e)'
  BY <1>2 DEF IInv, TypeInv, PutRead, Command, Commands, Sound, Allowance
<1>3. SoundInv'
  BY <1>2 DEF IInv, TypeInv, SoundInv, PutRead, Command, Commands
<1>4. \A i \in Grants : Ending(i)' = Ending(i)
  BY DEF IInv, TypeInv, PutRead, Command, Commands, Ending
<1>5. EndingInv'
  BY <1>4 DEF IInv, TypeInv, EndingInv, PutRead, Command, Commands
<1>6. ASSUME NEW e \in Allowance, Harmless(e) PROVE Harmless(e)'
  BY <1>4, <1>6 DEF Harmless, PutRead, Allowance
<1>7. EndInv'
  BY <1>6 DEF IInv, TypeInv, EndInv, PutRead
<1>8. WriterInv'
  BY <1>6 DEF IInv, TypeInv, WriterInv, EndInv, Writers, PutRead, Command, Commands
<1>9. HeldInv'
  BY DEF IInv, TypeInv, HeldInv, PutRead, Command, Commands
<1>10. GrantedInv'
  BY DEF IInv, TypeInv, GrantedInv, PutRead, Command, Commands
<1> QED BY <1>1, <1>3, <1>5, <1>7, <1>8, <1>9, <1>10 DEF IInv

\* PutWrite installs the copy and the new allowance, which nobody has ended.
LEMMA PutWriteStep ==
  ASSUME IInv, NEW g \in Grants, PutWrite(g)
  PROVE  IInv'
<1> USE ExtrasAssumption
<1>0. PICK new \in Allowance : new = Granted(g) /\ new.id = g /\ new.endedAt = Never
  <2>1. Granted(g) \in Allowance
    BY DEF IInv, TypeInv, Granted, Allowance, Command, Commands, Never
  <2>2. Granted(g).id = g /\ Granted(g).endedAt = Never
    BY DEF Granted
  <2> QED BY <2>1, <2>2
<1>a. extras' \subseteq command[g].held \cup {new}
  BY <1>0 DEF PutWrite, writeExtras
<1>1. TypeInv'
  <2>1. extras' \subseteq Allowance
    BY <1>0, <1>a DEF IInv, TypeInv, Command, Commands
  <2>2. command' = [command EXCEPT ![g].at = "record", ![g].held = {new}]
    BY <1>0 DEF PutWrite
  <2>3. "record" \in Places /\ {new} \in SUBSET Allowance
    BY DEF Places
  <2>4. command' \in [Commands -> Command]
    BY <2>2, <2>3 DEF IInv, TypeInv, Command, Commands
  <2>5. \A c \in Commands : command'[c].now = command[c].now /\ command'[c].asked = command[c].asked
    BY <2>2 DEF IInv, TypeInv, Command, Commands
  <2>6. \A h \in Grants : command'[h].at \in {"read", "write", "record"}
                             => command[h].at \in {"read", "write", "record"}
    BY <2>2 DEF IInv, TypeInv, PutWrite, Command, Commands
  <2> QED BY <2>1, <2>4, <2>5, <2>6 DEF IInv, TypeInv, PutWrite, Commands
<1>2. ASSUME NEW e \in Allowance, Sound(e) PROVE Sound(e)'
  BY <1>2 DEF IInv, TypeInv, PutWrite, Command, Commands, Sound, Allowance
<1>3. Sound(new)'
  BY <1>0 DEF IInv, TypeInv, PutWrite, Command, Commands, Sound, Granted
<1>4. SoundInv'
  <2>1. \A e \in extras' : Sound(e)'
    BY <1>a, <1>2, <1>3 DEF IInv, TypeInv, SoundInv, Command, Commands
  <2>2. \A c \in Commands : \A e \in command'[c].held : Sound(e)'
    BY <1>0, <1>2, <1>3 DEF IInv, TypeInv, SoundInv, PutWrite, Command, Commands
  <2> QED BY <2>1, <2>2 DEF SoundInv
<1>5. \A i \in Grants : Ending(i)' = Ending(i)
  BY DEF IInv, TypeInv, PutWrite, Command, Commands, Ending
<1>6. EndingInv'
  BY <1>5 DEF IInv, TypeInv, EndingInv, PutWrite, Command, Commands
<1>7. ASSUME NEW e \in Allowance, Harmless(e) PROVE Harmless(e)'
  BY <1>5, <1>7 DEF Harmless, PutWrite, Allowance
<1>8. Harmless(new)
  BY <1>0 DEF IInv, TypeInv, EndingInv, Harmless, PutWrite, Command, Commands
<1>9. \A e \in command[g].held : Harmless(e)
  BY DEF IInv, WriterInv, Writers, PutWrite
<1>10. EndInv'
  BY <1>a, <1>0, <1>7, <1>8, <1>9 DEF IInv, TypeInv, EndInv, Command, Commands
<1>11. WriterInv'
  BY <1>7 DEF IInv, TypeInv, WriterInv, Writers, PutWrite, Command, Commands
<1>12. HeldInv'
  BY DEF IInv, TypeInv, HeldInv, PutWrite, Command, Commands
<1>13. GrantedInv'
  BY <1>0 DEF IInv, TypeInv, GrantedInv, PutWrite, Command, Commands
<1> QED BY <1>1, <1>4, <1>6, <1>10, <1>11, <1>12, <1>13 DEF IInv

\* Record: an end's allowances were ending already, a grant's is now recorded.
LEMMA RecordStep ==
  ASSUME IInv, NEW x \in Commands, Record(x)
  PROVE  IInv'
<1> USE ExtrasAssumption
<1>0. recorded \subseteq recorded'
  BY DEF Record
<1>1. TypeInv'
  <2>1. "done" \in Places /\ {} \in SUBSET Allowance
    BY DEF Places
  <2>2. command' \in [Commands -> Command]
    BY <2>1 DEF IInv, TypeInv, Record, Command, Commands
  <2> QED BY <2>2 DEF IInv, TypeInv, Record, Command, Commands
<1>2. x \in Grants => <<x, "accepted">> \in recorded'
  BY DEF IInv, TypeInv, GrantedInv, Record
<1>3. ASSUME NEW e \in Allowance, Sound(e) PROVE Sound(e)'
  <2>1. e.id \in Commands
    BY DEF Allowance, Commands
  <2>2. command'[e.id].now = command[e.id].now /\ command'[e.id].asked = command[e.id].asked
    BY <2>1 DEF IInv, TypeInv, Record, Command
  <2>3. CASE e.id = x
    BY <1>2, <1>3, <2>1, <2>2, <2>3 DEF IInv, TypeInv, Record, Command, Sound, Allowance
  <2>4. CASE e.id # x
    BY <1>0, <1>3, <2>1, <2>2, <2>4 DEF IInv, TypeInv, Record, Command, Sound
  <2> QED BY <2>3, <2>4
<1>4. SoundInv'
  BY <1>3 DEF IInv, TypeInv, SoundInv, Record, Command, Commands
<1>5. \A i \in Grants : Ending(i)' => Ending(i)
  <2> SUFFICES ASSUME NEW i \in Grants, Ending(i)' PROVE Ending(i)
    OBVIOUS
  <2>1. CASE <<i, "expired">> \in recorded'
    BY <2>1 DEF IInv, TypeInv, Record, Commands, Ending
  <2>2. CASE \E c \in Ends : command'[c].at = "record" /\ \E e \in command'[c].held : e.id = i
    BY <2>2 DEF IInv, TypeInv, Record, Command, Commands, Ending
  <2> QED BY <2>1, <2>2 DEF Ending
<1>6. EndingInv'
  BY <1>5 DEF IInv, TypeInv, EndingInv, Record, Command, Commands
<1>7. ASSUME NEW e \in Allowance, Harmless(e) PROVE Harmless(e)'
  BY <1>5, <1>7 DEF Harmless, Record, Allowance
<1>8. EndInv'
  BY <1>7 DEF IInv, TypeInv, EndInv, Record
<1>9. WriterInv'
  BY <1>7 DEF IInv, TypeInv, WriterInv, Writers, Record, Command, Commands
<1>10. HeldInv'
  BY DEF IInv, TypeInv, HeldInv, Record, Command, Commands
<1>11. GrantedInv'
  BY DEF IInv, TypeInv, GrantedInv, Record, Command, Commands
<1> QED BY <1>1, <1>4, <1>6, <1>8, <1>9, <1>10, <1>11 DEF IInv

\* EndRead copies the file, whose allowances were granted by now.
LEMMA EndReadStep ==
  ASSUME IInv, NEW x \in Ends, EndRead(x)
  PROVE  IInv'
<1> USE ExtrasAssumption
<1>0. PICK p \in {"write", "done"} :
        command' = [command EXCEPT ![x].now = extraNow, ![x].held = extras, ![x].at = p]
  BY DEF EndRead
<1>a. UNCHANGED <<extras, extraNow, recorded, contested>> /\ command[x].at = "idle"
  BY DEF EndRead
<1>b. x \notin Grants
  OBVIOUS
<1>1. TypeInv'
  <2>1. p \in Places
    BY DEF Places
  <2>2. command' \in [Commands -> Command]
    BY <1>0, <2>1 DEF IInv, TypeInv, Command, Commands
  <2> QED BY <1>0, <1>a, <1>b, <2>2 DEF IInv, TypeInv, Command, Commands
<1>2. \A g \in Grants : command'[g] = command[g]
  BY <1>0, <1>b DEF IInv, TypeInv, Commands
<1>3. ASSUME NEW e \in Allowance, Sound(e) PROVE Sound(e)'
  BY <1>2, <1>3, <1>a DEF Sound, Allowance
<1>4. SoundInv'
  BY <1>0, <1>3, <1>a DEF IInv, TypeInv, SoundInv, Command, Commands
<1>5. \A i \in Grants : Ending(i)' => Ending(i)
  BY <1>0, <1>a DEF IInv, TypeInv, Command, Commands, Ending
<1>6. EndingInv'
  BY <1>2, <1>5 DEF IInv, EndingInv
<1>7. ASSUME NEW e \in Allowance, Harmless(e) PROVE Harmless(e)'
  BY <1>5, <1>7, <1>a DEF Harmless, Allowance
<1>8. EndInv'
  BY <1>7, <1>a DEF IInv, TypeInv, EndInv
<1>9. WriterInv'
  BY <1>2, <1>7 DEF IInv, TypeInv, WriterInv, Writers, Command, Commands
<1>10. HeldInv'
  <2>1. \A e \in extras : e.at <= extraNow
    BY DEF IInv, TypeInv, SoundInv, Sound, Allowance, Commands, Command
  <2> QED BY <1>0, <2>1 DEF IInv, TypeInv, HeldInv, Command, Commands
<1>11. GrantedInv'
  BY <1>2 DEF IInv, GrantedInv
<1> QED BY <1>1, <1>4, <1>6, <1>8, <1>9, <1>10, <1>11 DEF IInv

\* EndWrite ends every allowance that is active in its copy: what it leaves is
\* over, and a grant that may bring one back makes it contested.
LEMMA EndWriteStep ==
  ASSUME IInv, NEW x \in Ends, EndWrite(x)
  PROVE  IInv'
<1> USE ExtrasAssumption
<1>0. PICK ending \in SUBSET Allowance :
        ending = {e \in command[x].held : Active(e, command[x].now)}
  BY DEF IInv, TypeInv, Command, Commands
<1>a. /\ command[x].at = "write"
      /\ command' = [command EXCEPT ![x].at = "record", ![x].held = ending]
      /\ extras' \subseteq (command[x].held \ ending)
                       \cup {[e EXCEPT !.endedAt = command[x].now] : e \in ending}
      /\ contested' = contested \cup {e.id : e \in IF Writers = {} THEN {} ELSE ending}
      /\ UNCHANGED <<extraNow, recorded>>
  BY <1>0 DEF EndWrite, writeExtras
<1>b. x \notin Grants
  OBVIOUS
<1>1. TypeInv'
  <2>1. "record" \in Places
    BY DEF Places
  <2>2. command' \in [Commands -> Command]
    BY <1>a, <2>1 DEF IInv, TypeInv, Command, Commands
  <2>3. command[x].now \in Int /\ command[x].held \subseteq Allowance
    BY DEF IInv, TypeInv, Command, Commands
  <2>4. \A e \in ending : [e EXCEPT !.endedAt = command[x].now] \in Allowance
    BY <2>3 DEF Allowance
  <2>5. extras' \subseteq Allowance
    BY <1>a, <2>3, <2>4
  <2> QED BY <1>a, <1>b, <2>2, <2>5 DEF IInv, TypeInv, Command, Commands
<1>2. \A g \in Grants : command'[g] = command[g]
  BY <1>a, <1>b DEF IInv, TypeInv, Commands
<1>3. ASSUME NEW e \in Allowance, Sound(e) PROVE Sound(e)'
  BY <1>2, <1>3, <1>a DEF Sound, Allowance
<1>4. \A e \in command[x].held : Sound(e)
  BY DEF IInv, SoundInv, Commands
<1>5. SoundInv'
  <2>1. ASSUME NEW e \in extras' PROVE Sound(e)'
    <3>1. CASE e \in command[x].held
      BY <1>1, <1>3, <1>4, <2>1, <3>1 DEF TypeInv
    <3>2. CASE \E f \in ending : e = [f EXCEPT !.endedAt = command[x].now]
      <4>1. PICK f \in ending : e = [f EXCEPT !.endedAt = command[x].now]
        BY <3>2
      <4>2. f \in Allowance /\ Sound(f)'
        BY <1>0, <1>3, <1>4
      <4>3. e.id = f.id /\ e.at = f.at /\ e.until = f.until
        BY <4>1, <4>2 DEF Allowance
      <4> QED BY <4>2, <4>3 DEF Sound
    <3> QED BY <1>a, <2>1, <3>1, <3>2
  <2>2. \A c \in Commands : \A e \in command'[c].held : e \in command[c].held
    BY <1>0, <1>a DEF IInv, TypeInv, Command, Commands
  <2>3. \A c \in Commands : \A e \in command'[c].held : Sound(e)'
    BY <1>3, <2>2 DEF IInv, TypeInv, SoundInv, Command
  <2> QED BY <2>1, <2>3 DEF SoundInv
<1>6. \A i \in Grants : Ending(i)' => Ending(i) \/ \E e \in ending : e.id = i
  BY <1>a DEF IInv, TypeInv, Command, Commands, Ending
<1>7. EndingInv'
  <2>1. \A e \in ending : command[e.id].at \in {"record", "done"}
    BY <1>0, <1>4 DEF Sound
  <2> QED BY <1>2, <1>6, <2>1 DEF IInv, EndingInv
<1>8. EndInv'
  <2> SUFFICES ASSUME NEW e \in extras', e.endedAt = Never
               PROVE  extraNow' >= e.until
    BY DEF EndInv, Harmless
  <2>1. command[x].now \in Nat /\ command[x].now <= extraNow /\ extraNow \in Nat
    BY DEF IInv, TypeInv, Command, Commands
  <2>2. e \in Allowance
    BY <1>1 DEF TypeInv
  <2>3. \A f \in ending : e # [f EXCEPT !.endedAt = command[x].now]
    BY <2>1 DEF Never, Allowance
  <2>4. e \in command[x].held /\ e \notin ending
    BY <1>a, <2>3
  <2>5. e.at <= command[x].now
    BY <1>a, <2>4 DEF IInv, HeldInv
  <2> QED BY <1>0, <1>a, <2>1, <2>2, <2>4, <2>5 DEF Active, Allowance
<1>9. WriterInv'
  <2> SUFFICES ASSUME NEW g \in Writers', NEW e \in command'[g].held, e.endedAt = Never,
                      Ending(e.id)'
               PROVE  e.id \in contested' \/ extraNow' >= e.until
    BY DEF WriterInv, Harmless
  <2>1. g \in Grants /\ g \in Writers /\ e \in command[g].held /\ e \in Allowance
    BY <1>2 DEF IInv, TypeInv, Writers, Command, Commands
  <2>2. CASE Ending(e.id)
    BY <1>a, <2>1, <2>2 DEF IInv, WriterInv, Harmless
  <2>3. CASE \E f \in ending : f.id = e.id
    BY <1>a, <2>1, <2>3
  <2> QED BY <1>6, <2>1, <2>2, <2>3 DEF Allowance
<1>10. HeldInv'
  BY <1>a DEF IInv, TypeInv, HeldInv, Command, Commands
<1>11. GrantedInv'
  BY <1>2 DEF IInv, GrantedInv
<1> QED BY <1>1, <1>5, <1>7, <1>8, <1>9, <1>10, <1>11 DEF IInv

\* The clock: what is over stays over.
LEMMA TickStep ==
  ASSUME IInv, ExtraTick \/ UNCHANGED extraVars
  PROVE  IInv'
<1>0. extraNow' \in Nat /\ extraNow <= extraNow' /\ UNCHANGED <<extras, command, recorded, contested>>
  BY DEF IInv, TypeInv, ExtraTick, extraVars
<1>1. TypeInv'
  BY <1>0 DEF IInv, TypeInv, Command, Commands
<1>2. SoundInv' /\ GrantedInv' /\ HeldInv' /\ EndingInv'
  BY <1>0 DEF IInv, SoundInv, Sound, GrantedInv, HeldInv, EndingInv, Ending
<1>3. ASSUME NEW e \in Allowance, Harmless(e) PROVE Harmless(e)'
  BY <1>0, <1>3 DEF IInv, TypeInv, Harmless, Ending, Allowance
<1>4. EndInv'
  BY <1>0, <1>3 DEF IInv, TypeInv, EndInv
<1>5. WriterInv'
  BY <1>0, <1>3 DEF IInv, TypeInv, WriterInv, Writers, Command, Commands
<1> QED BY <1>1, <1>2, <1>4, <1>5 DEF IInv

\* Every step of the commands and of the clock keeps the invariant.
LEMMA NextIInv == IInv /\ [ExtrasNext]_extraVars => IInv'
<1> SUFFICES ASSUME IInv, [ExtrasNext]_extraVars PROVE IInv'
  OBVIOUS
<1>1. CASE \E g \in Grants, asked \in 1 .. MaxAsked : GrantExtra(g, asked)
  BY <1>1, GrantStep
<1>2. CASE \E g \in Grants : PutRead(g) \/ PutWrite(g)
  BY <1>2, PutReadStep, PutWriteStep
<1>3. CASE \E x \in Ends : EndRead(x) \/ EndWrite(x)
  BY <1>3, EndReadStep, EndWriteStep
<1>4. CASE \E x \in Commands : Record(x)
  BY <1>4, RecordStep
<1>5. CASE ExtraTick \/ UNCHANGED extraVars
  BY <1>5, TickStep
<1> QED BY <1>1, <1>2, <1>3, <1>4, <1>5 DEF ExtrasNext

\* The invariant gives the property.
LEMMA IInvLifts == IInv => LiftIsGranted
<1> USE ExtrasAssumption
<1> SUFFICES ASSUME IInv, NEW e \in extras, Active(e, extraNow)
             PROVE  /\ e.id \in Grants /\ e.at = command[e.id].now
                    /\ command[e.id].at = "record" \/ <<e.id, "accepted">> \in recorded
                    /\ extraNow - e.at < MaxExtra
                    /\ <<e.id, "expired">> \in recorded => e.id \in contested
  BY DEF LiftIsGranted
<1>1. e \in Allowance /\ Sound(e) /\ Harmless(e)
  BY DEF IInv, TypeInv, SoundInv, EndInv
<1>2. e.id \in Grants /\ e.id \in Commands
  BY <1>1 DEF Allowance, Commands
<1>3. extraNow - e.at < MaxExtra
  BY <1>1, <1>2 DEF IInv, TypeInv, Command, Sound, Active, Allowance
<1>4. <<e.id, "expired">> \in recorded => e.id \in contested
  BY <1>1 DEF Harmless, Ending, Active, IInv, TypeInv, Allowance
<1> QED BY <1>1, <1>2, <1>3, <1>4 DEF Sound

\* GrantExtra: "it ends on its own"; EndExtras: "ends every extra allowance in
\* force now". For any commands, durations and clock, what lifts a boundary was
\* granted and recorded less than MaxExtra ago, and lifts again after its end
\* only where a grant was between its read and its write.
THEOREM AllowancesAreGranted == ExtrasSpec => []LiftIsGranted
<1>1. ExtrasSpec => []IInv
  BY InitIInv, NextIInv, PTL DEF ExtrasSpec
<1> QED BY <1>1, IInvLifts, PTL

-----------------------------------------------------------------------------
(***************************************************************************)
(* PruneKeepsTheNewest of LedgerFile, for any number of hook processes,    *)
(* any line sizes and limits.                                              *)
(*                                                                         *)
(* The invariant says of the file and of what every prune has read that it *)
(* lists lines in the order they were written, and all of the newest but   *)
(* the overlapped ones (HasNewest).  Such a list keeps its claim when its  *)
(* oldest lines go: what is among the last of all lines is among the last  *)
(* of those listed (TailKept), as places in ascending order only spread    *)
(* (PlacesSpread).                                                         *)
(***************************************************************************)

\* f places n lines in ascending order among m.
Placing(f, n, m) ==
  /\ f \in [1 .. n -> 1 .. m]
  /\ \A i, j \in 1 .. n : i < j => f[i] < f[j]

\* Lines placed in ascending order are at least as far apart as they were.
LEMMA PlacesSpread ==
  ASSUME NEW n \in Nat, NEW m \in Nat, NEW f, Placing(f, n, m), NEW i \in 1 .. n
  PROVE  f[i] \in 1 .. m /\ n - i <= m - f[i]
PROOF
<1> DEFINE T == {k \in 1 .. n : ~(k - i <= f[k] - f[i]) /\ i <= k}
<1>1. \A k \in 1 .. n : f[k] \in Nat /\ f[k] \in 1 .. m
  BY DEF Placing
<1>2. T = {}
  <2>1. SUFFICES ASSUME T # {} PROVE FALSE
    OBVIOUS
  <2>2. T \in SUBSET Nat
    OBVIOUS
  <2>3. PICK j \in T : \A k \in T : j <= k
    BY <2>1, <2>2, LeastNat
  <2>4. j \in 1 .. n /\ i <= j /\ ~(j - i <= f[j] - f[i]) /\ f[i] \in Nat /\ f[j] \in Nat
    BY <1>1
  <2>5. i # j
    BY <2>4
  <2>6. j - 1 \in 1 .. n /\ i <= j - 1 /\ j - 1 < j
    BY <2>4, <2>5
  <2>7. j - 1 \notin T
    BY <2>2, <2>3, <2>6
  <2>8. (j - 1) - i <= f[j - 1] - f[i]
    BY <2>6, <2>7
  <2>9. f[j - 1] < f[j] /\ f[j - 1] \in Nat
    BY <1>1, <2>4, <2>6 DEF Placing
  <2> QED BY <2>4, <2>6, <2>8, <2>9
<1>3. n \in 1 .. n /\ n \notin T /\ i <= n
  BY <1>2
<1>4. n - i <= f[n] - f[i]
  BY <1>3
<1>5. f[n] <= m /\ f[n] \in Nat /\ f[i] \in 1 .. m
  BY <1>1, <1>3
<1> QED BY <1>4, <1>5

\* The lines s are among the lines w, in their order.
Listed(s, w) ==
  \E f : Placing(f, Len(s), Len(w)) /\ \A i \in 1 .. Len(s) : s[i] = w[f[i]]

\* The last KeepLines of w.
LastOfAll(w) == {w[a] : a \in {b \in 1 .. Len(w) : b > Len(w) - KeepLines}}

\* What is listed stays listed when a line is written, with or without it.
LEMMA ListedGrows ==
  ASSUME NEW s \in Seq(Nat), NEW w \in Seq(Nat), Listed(s, w), NEW x \in Nat
  PROVE  Listed(s, Append(w, x)) /\ Listed(Append(s, x), Append(w, x))
PROOF
<1> DEFINE n == Len(s)
           m == Len(w)
           v == Append(w, x)
           t == Append(s, x)
<1>1. PICK f : Placing(f, n, m) /\ \A i \in 1 .. n : s[i] = w[f[i]]
  BY DEF Listed
<1>2. /\ n \in Nat /\ m \in Nat /\ Len(v) = m + 1 /\ Len(t) = n + 1
      /\ v[m + 1] = x /\ t[n + 1] = x
      /\ \A a \in 1 .. m : v[a] = w[a]
      /\ \A a \in 1 .. n : t[a] = s[a]
  OBVIOUS
<1> HIDE DEF n, m, v, t
<1>3. \A i \in 1 .. n : f[i] \in 1 .. m
  BY <1>1 DEF Placing
<1>4. Listed(s, v)
  <2>1. Placing(f, n, m + 1)
    BY <1>1, <1>2 DEF Placing
  <2>2. \A i \in 1 .. n : s[i] = v[f[i]]
    BY <1>1, <1>2, <1>3
  <2> QED BY <1>2, <2>1, <2>2 DEF Listed, n
<1>5. Listed(t, v)
  <2> DEFINE g == [i \in 1 .. n + 1 |-> IF i = n + 1 THEN m + 1 ELSE f[i]]
  <2>1. \A i \in 1 .. n + 1 : i \in 1 .. n \/ i = n + 1
    BY <1>2
  <2>2. \A i \in 1 .. n : g[i] = f[i] /\ g[i] \in 1 .. m /\ i \in 1 .. n + 1
    BY <1>2, <1>3
  <2>3. g[n + 1] = m + 1 /\ n + 1 \in 1 .. n + 1
    BY <1>2
  <2>0. g = [i \in 1 .. n + 1 |-> g[i]]
    OBVIOUS
  <2> HIDE DEF g
  <2>4. g \in [1 .. n + 1 -> 1 .. m + 1]
    <3>1. \A i \in 1 .. n + 1 : g[i] \in 1 .. m + 1
      BY <1>2, <2>1, <2>2, <2>3
    <3> QED BY <2>0, <3>1
  <2>5. ASSUME NEW i \in 1 .. n + 1, NEW j \in 1 .. n + 1, i < j PROVE g[i] < g[j]
    <3>1. i \in 1 .. n
      BY <1>2, <2>5
    <3>2. CASE j \in 1 .. n
      BY <1>1, <2>2, <2>5, <3>1, <3>2 DEF Placing
    <3>3. CASE j = n + 1
      BY <1>2, <2>2, <2>3, <3>1, <3>3
    <3> QED BY <2>1, <3>2, <3>3
  <2>6. ASSUME NEW i \in 1 .. n + 1 PROVE t[i] = v[g[i]]
    <3>1. CASE i \in 1 .. n
      <4>1. t[i] = s[i] /\ g[i] = f[i] /\ f[i] \in 1 .. m
        BY <1>2, <1>3, <2>2, <3>1
      <4>2. s[i] = w[f[i]] /\ v[f[i]] = w[f[i]]
        BY <1>1, <1>2, <1>3, <3>1
      <4> QED BY <4>1, <4>2
    <3>2. CASE i = n + 1
      BY <1>2, <2>3, <3>2
    <3> QED BY <2>1, <3>1, <3>2
  <2>7. Placing(g, n + 1, m + 1)
    BY <2>4, <2>5 DEF Placing
  <2> QED BY <1>2, <2>6, <2>7 DEF Listed
<1> QED BY <1>4, <1>5 DEF v, t

\* What is listed and among the last of all is among the last that are listed:
\* a prune that keeps the end of what it read keeps it.
LEMMA TailKept ==
  ASSUME NEW s \in Seq(Nat), NEW w \in Seq(Nat), Listed(s, w), Len(s) > KeepLines,
         \A i, j \in 1 .. Len(w) : w[i] = w[j] => i = j
  PROVE  LET u == SubSeq(s, Len(s) - KeepLines + 1, Len(s)) IN
         /\ u \in Seq(Nat) /\ Listed(u, w)
         /\ LastOfAll(w) \cap ToSet(s) \subseteq ToSet(u)
PROOF
<1> DEFINE n == Len(s)
           m == Len(w)
           u == SubSeq(s, n - KeepLines + 1, n)
           d == n - KeepLines
<1>1. PICK f : Placing(f, n, m) /\ \A i \in 1 .. n : s[i] = w[f[i]]
  BY DEF Listed
<1>2. n \in Nat /\ m \in Nat /\ KeepLines \in Nat /\ KeepLines >= 1 /\ n > KeepLines
  BY LedgerAssumption
<1>3. /\ u \in Seq(Nat) /\ Len(u) = KeepLines
      /\ \A k \in 1 .. KeepLines : u[k] = s[d + k] /\ d + k \in 1 .. n
  <2>1. \A i \in n - KeepLines + 1 .. n : s[i] \in Nat
    BY <1>2
  <2> QED BY <1>2, <2>1
<1> HIDE DEF u, n, m
<1>4. Listed(u, w)
  <2> DEFINE g == [k \in 1 .. KeepLines |-> f[d + k]]
  <2>1. \A k \in 1 .. KeepLines : g[k] = f[d + k] /\ g[k] \in 1 .. m /\ u[k] = w[g[k]]
    BY <1>1, <1>3 DEF Placing
  <2>2. g \in [1 .. KeepLines -> 1 .. m]
    BY <2>1
  <2>3. ASSUME NEW i \in 1 .. KeepLines, NEW j \in 1 .. KeepLines, i < j PROVE g[i] < g[j]
    <3>1. d + i < d + j /\ d + i \in 1 .. n /\ d + j \in 1 .. n
      BY <1>2, <1>3, <2>3
    <3> QED BY <1>1, <2>1, <3>1 DEF Placing
  <2> HIDE DEF g
  <2>4. Placing(g, KeepLines, m)
    BY <2>2, <2>3 DEF Placing
  <2> QED BY <1>3, <2>1, <2>4 DEF Listed, m
<1>5. ASSUME NEW x \in LastOfAll(w), x \in ToSet(s) PROVE x \in ToSet(u)
  <2>1. PICK a \in 1 .. m : a > m - KeepLines /\ x = w[a]
    BY DEF LastOfAll, m
  <2>2. PICK i \in 1 .. n : x = s[i]
    BY <1>5 DEF ToSet, n
  <2>3. f[i] \in 1 .. m /\ n - i <= m - f[i]
    BY <1>1, <1>2, PlacesSpread
  <2>4. f[i] = a
    BY <1>1, <2>1, <2>2, <2>3 DEF m
  <2>5. i - d \in 1 .. KeepLines /\ d + (i - d) = i
    BY <1>2, <2>1, <2>3, <2>4
  <2>6. u[i - d] = x /\ i - d \in DOMAIN u
    BY <1>3, <2>2, <2>5
  <2> QED BY <2>6 DEF ToSet
<1> QED BY <1>3, <1>4, <1>5 DEF u, n

-----------------------------------------------------------------------------

HookShape(h) == h = [at |-> h.at, ino |-> h.ino, read |-> h.read]

LedgerShape ==
  /\ ledgerSetup \in LedgerSetups
  /\ file = [ino |-> file.ino, lines |-> file.lines] /\ file.lines \in Seq(Nat)
  /\ hook = [l \in Lines |-> hook[l]]
  /\ \A l \in Lines : HookShape(hook[l]) /\ hook[l].read \in Seq(Nat)
  /\ written \in Seq(Nat)

\* Every process writes its line once.
WrittenOnce ==
  /\ \A i \in 1 .. Len(written) :
       written[i] \in Lines /\ hook[written[i]].at \notin {"idle", "write"}
  /\ \A i, j \in 1 .. Len(written) : written[i] = written[j] => i = j

\* Lines that hold the newest of what is written, in the order it was written.
HasNewest(s) ==
  Listed(s, written) /\ LastOfAll(written) \ overlapped \subseteq ToSet(s)

\* So does the file, and what every prune has read and will put in its place.
LedgerInv ==
  /\ LedgerShape /\ WrittenOnce
  /\ HasNewest(file.lines)
  /\ \A h \in Lines : hook[h].at = "replace" =>
       Len(hook[h].read) > KeepLines /\ HasNewest(hook[h].read)

\* Lines are numbers.
LEMMA LedgerLines == ledgerSetup \in LedgerSetups => Lines \subseteq Nat
PROOF
<1> SUFFICES ASSUME ledgerSetup \in LedgerSetups PROVE Lines \subseteq Nat
  OBVIOUS
<1>1. ledgerSetup.lines \in DOMAIN LineSize /\ LineSize \in Seq(Nat)
  BY LedgerAssumption
<1>2. ledgerSetup.lines \in Nat
  BY <1>1
<1> QED BY <1>2 DEF Lines

\* Nothing is written yet.
LEMMA LedgerInvInit == LedgerInit => LedgerInv
PROOF
<1> SUFFICES ASSUME LedgerInit PROVE LedgerInv
  OBVIOUS
<1>1. /\ ledgerSetup \in LedgerSetups /\ written = << >> /\ Len(written) = 0
      /\ file = [ino |-> 0, lines |-> << >>] /\ file.lines = << >>
      /\ hook = [l \in Lines |-> [at |-> "idle", ino |-> 0, read |-> << >>]]
  BY DEF LedgerInit
<1>2. \A l \in Lines : hook[l] = [at |-> "idle", ino |-> 0, read |-> << >>]
  BY <1>1
<1>3. LedgerShape
  <2>0. << >> \in Seq(Nat)
    OBVIOUS
  <2>1. ASSUME NEW l \in Lines PROVE HookShape(hook[l]) /\ hook[l].read \in Seq(Nat)
    <3>1. hook[l] = [at |-> "idle", ino |-> 0, read |-> << >>]
      BY <1>2
    <3>2. hook[l].at = "idle" /\ hook[l].ino = 0 /\ hook[l].read = << >>
      BY <3>1
    <3> QED BY <2>0, <3>1, <3>2 DEF HookShape
  <2>2. file = [ino |-> file.ino, lines |-> file.lines] /\ file.lines \in Seq(Nat)
    BY <1>1
  <2>3. hook = [l \in Lines |-> hook[l]] /\ written \in Seq(Nat)
    BY <1>1
  <2> QED BY <1>1, <2>1, <2>2, <2>3 DEF LedgerShape
<1>4. WrittenOnce
  BY <1>1 DEF WrittenOnce
<1>5. Listed(<< >>, << >>)
  <2> DEFINE f == [i \in 1 .. 0 |-> i]
  <2>1. Placing(f, 0, 0)
    BY DEF Placing
  <2>2. Len(<< >>) = 0 /\ \A i \in 1 .. 0 : << >>[i] = << >>[f[i]]
    OBVIOUS
  <2> HIDE DEF f
  <2> QED BY <2>1, <2>2 DEF Listed
<1>6. HasNewest(file.lines)
  BY <1>1, <1>5 DEF HasNewest, LastOfAll
<1> QED BY <1>2, <1>3, <1>4, <1>6 DEF LedgerInv

\* A step that writes no line, and leaves every prune the end of what it read.
LEMMA HookMoves ==
  ASSUME LedgerInv, UNCHANGED <<written, overlapped, ledgerSetup>>, NEW l \in Lines, NEW h,
         HookShape(h), h.read \in Seq(Nat), hook' = [hook EXCEPT ![l] = h],
         hook[l].at \notin {"idle", "write"} => h.at \notin {"idle", "write"},
         h.at = "replace" => Len(h.read) > KeepLines /\ HasNewest(h.read),
         file' = [ino |-> file'.ino, lines |-> file'.lines], file'.lines \in Seq(Nat),
         HasNewest(file'.lines)
  PROVE  LedgerInv'
PROOF
<1>0. /\ LedgerShape /\ WrittenOnce
      /\ \A k \in Lines : hook[k].at = "replace" =>
           Len(hook[k].read) > KeepLines /\ HasNewest(hook[k].read)
  BY DEF LedgerInv
<1>1. Lines' = Lines
  BY DEF Lines
<1>2. \A k \in Lines : hook'[k] = IF k = l THEN h ELSE hook[k]
  BY <1>0 DEF LedgerShape
<1>3. hook' = [k \in Lines |-> hook'[k]]
  BY <1>0 DEF LedgerShape
<1>4. LedgerShape'
  BY <1>0, <1>1, <1>2, <1>3 DEF LedgerShape
<1>5. WrittenOnce'
  BY <1>0, <1>1, <1>2 DEF WrittenOnce
<1>6. \A s : HasNewest(s) => Listed(s, written') /\ LastOfAll(written') \ overlapped' \subseteq ToSet(s)
  BY DEF HasNewest
<1>7. HasNewest(file.lines)'
  BY <1>6 DEF HasNewest
<1>8. \A k \in Lines : hook'[k].at = "replace" =>
        /\ Len(hook'[k].read) > KeepLines /\ Listed(hook'[k].read, written')
        /\ LastOfAll(written') \ overlapped' \subseteq ToSet(hook'[k].read)
  BY <1>0, <1>2, <1>6
<1> QED BY <1>1, <1>4, <1>5, <1>7, <1>8 DEF LedgerInv, HasNewest

\* Write and Stat set the place.
LEMMA HookMoved ==
  ASSUME NEW h, HookShape(h), NEW a
  PROVE  [h EXCEPT !.at = a] = [at |-> a, ino |-> h.ino, read |-> h.read]
BY DEF HookShape

\* Open sets the place and the file.
LEMMA HookOpened ==
  ASSUME NEW h, HookShape(h), NEW a, NEW i
  PROVE  [h EXCEPT !.at = a, !.ino = i] = [at |-> a, ino |-> i, read |-> h.read]
PROOF
<1> DEFINE x == h.at
           y == h.ino
           z == h.read
           g == [h EXCEPT !.at = a, !.ino = i]
<1>1. h = [at |-> x, ino |-> y, read |-> z] /\ g = [h EXCEPT !.at = a, !.ino = i]
  BY DEF HookShape
<1> HIDE DEF x, y, z, g
<1>2. h.ino = y /\ h.read = z
  BY <1>1
<1>3. g = [at |-> a, ino |-> i, read |-> z]
  BY <1>1
<1> QED BY <1>2, <1>3 DEF g

\* PruneRead sets what was read and the place.
LEMMA HookRead ==
  ASSUME NEW h, HookShape(h), NEW a, NEW r
  PROVE  [h EXCEPT !.read = r, !.at = a] = [at |-> a, ino |-> h.ino, read |-> r]
PROOF
<1> DEFINE x == h.at
           y == h.ino
           z == h.read
           g == [h EXCEPT !.read = r, !.at = a]
<1>1. h = [at |-> x, ino |-> y, read |-> z] /\ g = [h EXCEPT !.read = r, !.at = a]
  BY DEF HookShape
<1> HIDE DEF x, y, z, g
<1>2. h.ino = y /\ h.read = z
  BY <1>1
<1>3. g = [at |-> a, ino |-> y, read |-> r]
  BY <1>1
<1> QED BY <1>2, <1>3 DEF g

\* PruneReplace sets the place and forgets what was read.
LEMMA HookDone ==
  ASSUME NEW h, HookShape(h), NEW a, NEW r
  PROVE  [h EXCEPT !.at = a, !.read = r] = [at |-> a, ino |-> h.ino, read |-> r]
PROOF
<1> DEFINE x == h.at
           y == h.ino
           z == h.read
           g == [h EXCEPT !.at = a, !.read = r]
<1>1. h = [at |-> x, ino |-> y, read |-> z] /\ g = [h EXCEPT !.at = a, !.read = r]
  BY DEF HookShape
<1> HIDE DEF x, y, z, g
<1>2. h.ino = y /\ h.read = z
  BY <1>1
<1>3. g = [at |-> a, ino |-> y, read |-> r]
  BY <1>1
<1> QED BY <1>2, <1>3 DEF g

\* Open, Stat and prune's read change no file; what a prune reads is the file.
LEMMA OpenKeeps ==
  ASSUME LedgerInv, NEW l \in Lines, Open(l) \/ Stat(l) \/ PruneRead(l), UNCHANGED ledgerSetup
  PROVE  LedgerInv'
PROOF
<1>0. /\ LedgerShape /\ HasNewest(file.lines)
  BY DEF LedgerInv
<1>1. /\ HookShape(hook[l]) /\ hook[l].read \in Seq(Nat)
      /\ file = [ino |-> file.ino, lines |-> file.lines] /\ file.lines \in Seq(Nat)
      /\ hook = [k \in Lines |-> hook[k]]
  BY <1>0 DEF LedgerShape
<1>2. UNCHANGED <<file, written, overlapped>>
  BY DEF Open, Stat, PruneRead
<1>3. PICK h : /\ HookShape(h) /\ h.read \in Seq(Nat) /\ hook' = [hook EXCEPT ![l] = h]
               /\ hook[l].at \notin {"idle", "write"} => h.at \notin {"idle", "write"}
               /\ h.at = "replace" => Len(h.read) > KeepLines /\ HasNewest(h.read)
  <2>1. CASE Open(l)
    <3> DEFINE h == [at |-> "write", ino |-> file.ino, read |-> hook[l].read]
    <3>1. hook[l].at = "idle" /\ hook' = [hook EXCEPT ![l].at = "write", ![l].ino = file.ino]
      BY <2>1 DEF Open
    <3>2. hook' = [hook EXCEPT ![l] = h]
      <4>1. [hook[l] EXCEPT !.at = "write", !.ino = file.ino] = h
        BY <1>1, HookOpened
      <4>2. hook' = [hook EXCEPT ![l] = [hook[l] EXCEPT !.at = "write", !.ino = file.ino]]
        BY <1>1, <3>1
      <4> QED BY <4>1, <4>2
    <3>3. HookShape(h) /\ h.read = hook[l].read /\ h.at = "write"
      BY DEF HookShape
    <3> HIDE DEF h
    <3> QED BY <1>1, <3>1, <3>2, <3>3
  <2>2. CASE Stat(l)
    <3> DEFINE a == IF FileSize > PruneAbove THEN "prune" ELSE "done"
               h == [at |-> a, ino |-> hook[l].ino, read |-> hook[l].read]
    <3>1. hook[l].at = "stat" /\ hook' = [hook EXCEPT ![l].at = a]
      BY <2>2 DEF Stat
    <3>2. a \in {"prune", "done"}
      OBVIOUS
    <3> HIDE DEF a
    <3>3. hook' = [hook EXCEPT ![l] = h]
      <4>1. [hook[l] EXCEPT !.at = a] = h
        BY <1>1, HookMoved
      <4>2. hook' = [hook EXCEPT ![l] = [hook[l] EXCEPT !.at = a]]
        BY <1>1, <3>1
      <4> QED BY <4>1, <4>2
    <3>4. HookShape(h) /\ h.read = hook[l].read /\ h.at = a
      BY DEF HookShape
    <3> HIDE DEF h
    <3> QED BY <1>1, <3>1, <3>2, <3>3, <3>4
  <2>3. CASE PruneRead(l)
    <3> DEFINE a == IF Len(file.lines) <= KeepLines THEN "done" ELSE "replace"
               h == [at |-> a, ino |-> hook[l].ino, read |-> file.lines]
    <3>1. hook[l].at = "prune" /\ hook' = [hook EXCEPT ![l].read = file.lines, ![l].at = a]
      BY <2>3 DEF PruneRead
    <3>2. a \in {"done", "replace"} /\ (a = "replace" => ~(Len(file.lines) <= KeepLines))
      OBVIOUS
    <3> HIDE DEF a
    <3>3. hook' = [hook EXCEPT ![l] = h]
      <4>1. [hook[l] EXCEPT !.read = file.lines, !.at = a] = h
        <5> DEFINE r == file.lines
        <5>1. HookShape(hook[l])
          BY <1>1
        <5> HIDE DEF r, h
        <5>2. [hook[l] EXCEPT !.read = r, !.at = a] = [at |-> a, ino |-> hook[l].ino, read |-> r]
          BY <5>1, HookRead
        <5> QED BY <5>2 DEF r, h
      <4>2. hook' = [hook EXCEPT ![l] = [hook[l] EXCEPT !.read = file.lines, !.at = a]]
        BY <1>1, <3>1
      <4> QED BY <4>1, <4>2
    <3>4. HookShape(h) /\ h.read = file.lines /\ h.at = a
      BY DEF HookShape
    <3>5. Len(file.lines) \in Nat /\ KeepLines \in Nat
      BY <1>1, LedgerAssumption
    <3> HIDE DEF h
    <3>6. a = "replace" => Len(file.lines) > KeepLines
      BY <3>2, <3>5
    <3> QED BY <1>0, <1>1, <3>1, <3>2, <3>3, <3>4, <3>6
  <2> QED BY <2>1, <2>2, <2>3
<1> QED BY <1>0, <1>1, <1>2, <1>3, HookMoves

\* A prune puts the end of what it read in place of the file.
LEMMA ReplaceKeeps ==
  ASSUME LedgerInv, NEW l \in Lines, PruneReplace(l), UNCHANGED ledgerSetup
  PROVE  LedgerInv'
PROOF
<1> DEFINE s == hook[l].read
           u == SubSeq(s, Len(s) - KeepLines + 1, Len(s))
           h == [at |-> "done", ino |-> hook[l].ino, read |-> << >>]
<1>0. /\ LedgerShape /\ WrittenOnce /\ Len(s) > KeepLines /\ HasNewest(s)
  BY DEF LedgerInv, PruneReplace
<1>1. /\ HookShape(hook[l]) /\ s \in Seq(Nat) /\ hook = [k \in Lines |-> hook[k]]
      /\ written \in Seq(Nat)
  BY <1>0 DEF LedgerShape
<1>2. /\ file' = [ino |-> file.ino + 1, lines |-> u] /\ UNCHANGED <<written, overlapped>>
      /\ hook[l].at = "replace"
      /\ hook' = [hook EXCEPT ![l].at = "done", ![l].read = << >>]
  BY DEF PruneReplace
<1>3. u \in Seq(Nat) /\ Listed(u, written) /\ LastOfAll(written) \cap ToSet(s) \subseteq ToSet(u)
  BY <1>0, <1>1, TailKept DEF WrittenOnce, HasNewest
<1>4. HasNewest(u)
  BY <1>0, <1>3 DEF HasNewest
<1> HIDE DEF u
<1>5. file' = [ino |-> file'.ino, lines |-> file'.lines] /\ file'.lines = u
  BY <1>2
<1>6. hook' = [hook EXCEPT ![l] = h]
  <2>1. [hook[l] EXCEPT !.at = "done", !.read = << >>] = h
    BY <1>1, HookDone
  <2>2. hook' = [hook EXCEPT ![l] = [hook[l] EXCEPT !.at = "done", !.read = << >>]]
    BY <1>1, <1>2
  <2> QED BY <2>1, <2>2
<1>7. HookShape(h) /\ h.read \in Seq(Nat) /\ h.at = "done"
  BY DEF HookShape
<1> HIDE DEF h
<1> QED BY <1>2, <1>3, <1>4, <1>5, <1>6, <1>7, HookMoves

\* The line is among the newest; it reaches the file, and every prune under way,
\* or it overlaps one.
LEMMA WriteKeeps ==
  ASSUME LedgerInv, NEW l \in Lines, Write(l), UNCHANGED ledgerSetup
  PROVE  LedgerInv'
PROOF
<1> DEFINE h == [at |-> "stat", ino |-> hook[l].ino, read |-> hook[l].read]
           v == Append(written, l)
           hit == hook[l].ino = file.ino
<1>0. /\ LedgerShape /\ WrittenOnce /\ HasNewest(file.lines)
      /\ \A k \in Lines : hook[k].at = "replace" =>
           Len(hook[k].read) > KeepLines /\ HasNewest(hook[k].read)
  BY DEF LedgerInv
<1>1. /\ \A k \in Lines : HookShape(hook[k]) /\ hook[k].read \in Seq(Nat)
      /\ hook = [k \in Lines |-> hook[k]] /\ ledgerSetup \in LedgerSetups
      /\ written \in Seq(Nat) /\ file.lines \in Seq(Nat)
      /\ file = [ino |-> file.ino, lines |-> file.lines]
  BY <1>0 DEF LedgerShape
<1>2. /\ hook[l].at = "write" /\ written' = v
      /\ file' = IF hit THEN [file EXCEPT !.lines = Append(@, l)] ELSE file
      /\ hook' = [hook EXCEPT ![l].at = "stat"]
      /\ overlapped' = IF ~hit \/ Pruning # {} THEN overlapped \cup {l} ELSE overlapped
  BY DEF Write
<1>3. l \in Nat /\ Lines' = Lines
  BY <1>1, LedgerLines DEF Lines
<1>4. hook' = [hook EXCEPT ![l] = h]
  <2>1. [hook[l] EXCEPT !.at = "stat"] = h
    BY <1>1 DEF HookShape
  <2>2. hook' = [hook EXCEPT ![l] = [hook[l] EXCEPT !.at = "stat"]]
    BY <1>1, <1>2
  <2> QED BY <2>1, <2>2
<1>5. HookShape(h) /\ h.read = hook[l].read /\ h.at = "stat"
  BY DEF HookShape
<1> HIDE DEF h, hit
<1>6. \A k \in Lines : hook'[k] = IF k = l THEN h ELSE hook[k]
  BY <1>1, <1>4
<1>7. /\ Len(written) \in Nat /\ v \in Seq(Nat) /\ Len(v) = Len(written) + 1
      /\ v[Len(written) + 1] = l /\ \A a \in 1 .. Len(written) : v[a] = written[a]
  BY <1>1, <1>3
<1> HIDE DEF v
<1>8. LastOfAll(v) \subseteq LastOfAll(written) \cup {l}
  <2> SUFFICES ASSUME NEW x \in LastOfAll(v), x # l PROVE x \in LastOfAll(written)
    OBVIOUS
  <2>1. PICK a \in 1 .. Len(v) : a > Len(v) - KeepLines /\ x = v[a]
    BY DEF LastOfAll
  <2>2. a \in 1 .. Len(written)
    BY <1>7, <2>1
  <2>3. a > Len(written) - KeepLines
    BY <1>7, <2>1, LedgerAssumption
  <2> QED BY <1>7, <2>1, <2>2, <2>3 DEF LastOfAll
<1>9. /\ file' = [ino |-> file'.ino, lines |-> file'.lines]
      /\ file'.lines = IF hit THEN Append(file.lines, l) ELSE file.lines
  <2>1. CASE hit
    <3>1. file' = [ino |-> file.ino, lines |-> Append(file.lines, l)]
      BY <1>1, <1>2, <2>1
    <3> QED BY <2>1, <3>1
  <2>2. CASE ~hit
    BY <1>1, <1>2, <2>2
  <2> QED BY <2>1, <2>2
<1>10. LedgerShape'
  <2>1. hook' = [k \in Lines |-> hook'[k]]
    BY <1>1, <1>4
  <2>2. \A k \in Lines : HookShape(hook'[k]) /\ hook'[k].read \in Seq(Nat)
    BY <1>1, <1>5, <1>6
  <2>3. file'.lines \in Seq(Nat)
    BY <1>1, <1>3, <1>9
  <2> QED BY <1>1, <1>2, <1>3, <1>7, <1>9, <2>1, <2>2, <2>3 DEF LedgerShape, HookShape
<1>11. WrittenOnce'
  <2>1. \A a \in 1 .. Len(v) : a \in 1 .. Len(written) \/ a = Len(written) + 1
    BY <1>7
  <2>2. \A a \in 1 .. Len(written) : v[a] # l
    BY <1>0, <1>2, <1>7 DEF WrittenOnce
  <2>3. ASSUME NEW a \in 1 .. Len(v)
        PROVE  v[a] \in Lines /\ hook'[v[a]].at \notin {"idle", "write"}
    <3>1. CASE a \in 1 .. Len(written)
      <4>1. v[a] = written[a] /\ v[a] # l
        BY <1>7, <2>2, <3>1
      <4>2. written[a] \in Lines /\ hook[written[a]].at \notin {"idle", "write"}
        BY <1>0, <3>1 DEF WrittenOnce
      <4>3. hook'[v[a]] = hook[v[a]]
        BY <1>6, <4>1, <4>2
      <4> QED BY <4>1, <4>2, <4>3
    <3>2. CASE a = Len(written) + 1
      <4>1. v[a] = l /\ hook'[l] = h
        BY <1>6, <1>7, <3>2
      <4> QED BY <1>5, <4>1
    <3> QED BY <2>1, <3>1, <3>2
  <2>4. \A a, b \in 1 .. Len(v) : v[a] = v[b] => a = b
    BY <1>0, <1>7, <2>1, <2>2 DEF WrittenOnce
  <2> QED BY <1>2, <1>3, <2>3, <2>4 DEF WrittenOnce
<1>12. Listed(file'.lines, v) /\ LastOfAll(v) \ overlapped' \subseteq ToSet(file'.lines)
  <2>1. /\ Listed(file.lines, v) /\ Listed(Append(file.lines, l), v)
    BY <1>0, <1>1, <1>3, ListedGrows DEF HasNewest, v
  <2>2. CASE hit
    <3>1. ToSet(Append(file.lines, l)) = ToSet(file.lines) \cup {l}
      <4> DEFINE F == file.lines
                 G == Append(F, l)
      <4>1. /\ Len(F) \in Nat /\ DOMAIN F = 1 .. Len(F) /\ DOMAIN G = 1 .. Len(F) + 1
            /\ G[Len(F) + 1] = l /\ \A a \in 1 .. Len(F) : G[a] = F[a]
        BY <1>1, <1>3
      <4>2. \A a \in 1 .. Len(F) + 1 : a \in 1 .. Len(F) \/ a = Len(F) + 1
        BY <4>1
      <4>3. 1 .. Len(F) \subseteq 1 .. Len(F) + 1 /\ Len(F) + 1 \in 1 .. Len(F) + 1
        BY <4>1
      <4> HIDE DEF F, G
      <4> QED BY <4>1, <4>2, <4>3 DEF ToSet, F, G
    <3> QED BY <1>0, <1>2, <1>8, <1>9, <2>1, <2>2, <3>1 DEF HasNewest
  <2>3. CASE ~hit
    BY <1>0, <1>2, <1>8, <1>9, <2>1, <2>3 DEF HasNewest
  <2> QED BY <2>2, <2>3
<1>13. ASSUME NEW k \in Lines, hook'[k].at = "replace"
       PROVE  /\ Len(hook'[k].read) > KeepLines /\ Listed(hook'[k].read, v)
              /\ LastOfAll(v) \ overlapped' \subseteq ToSet(hook'[k].read)
  <2>1. hook'[k] = hook[k] /\ hook[k].at = "replace"
    BY <1>5, <1>6, <1>13
  <2>2. l \in overlapped' /\ overlapped \subseteq overlapped'
    BY <1>2, <2>1 DEF Pruning
  <2>3. Listed(hook[k].read, v)
    BY <1>0, <1>1, <1>3, <2>1, ListedGrows DEF HasNewest, v
  <2> QED BY <1>0, <1>8, <2>1, <2>2, <2>3 DEF HasNewest
<1> QED BY <1>2, <1>3, <1>10, <1>11, <1>12, <1>13 DEF LedgerInv, HasNewest

\* Only the hooks change the file; the daemon only reads it.
LEMMA LedgerInvStep == LedgerInv /\ [LedgerNext]_ledgerVars => LedgerInv'
PROOF
<1> SUFFICES ASSUME LedgerInv, [LedgerNext]_ledgerVars PROVE LedgerInv'
  OBVIOUS
<1>1. CASE UNCHANGED <<ledgerSetup, file, hook, written, overlapped>>
  BY <1>1 DEF LedgerInv, LedgerShape, WrittenOnce, HasNewest, Lines
<1>2. ASSUME NEW l \in Lines, AppendLine(l), UNCHANGED ledgerSetup PROVE LedgerInv'
  BY <1>2, OpenKeeps, ReplaceKeeps, WriteKeeps DEF AppendLine
<1>3. CASE (Once \/ SettleLines \/ Kill \/ Restart) /\ UNCHANGED ledgerSetup
  BY <1>1, <1>3 DEF Once, OnceRead, OnceSend, OnceForget, SettleLines, FlushLines, GiveUpLines,
                    Kill, Restart
<1> QED BY <1>1, <1>2, <1>3 DEF LedgerNext, ledgerVars

\* "rewrites it keeping only the newest keepLines": for every number of hook
\* processes, of lines kept and of lines a prune starts at, and wherever their
\* appends and prunes interleave, the newest lines written are in the file,
\* except those written while a prune was between its read and its rename.
THEOREM NewestKept == LedgerSpec => []PruneKeepsTheNewest
PROOF
<1>1. LedgerInv => PruneKeepsTheNewest
  <2> SUFFICES ASSUME LedgerInv PROVE PruneKeepsTheNewest
    OBVIOUS
  <2> DEFINE m == Len(written)
             a == IF m > KeepLines THEN m - KeepLines + 1 ELSE 1
             u == SubSeq(written, a, m)
  <2>1. written \in Seq(Nat) /\ m \in Nat /\ KeepLines \in Nat \ {0} /\ HasNewest(file.lines)
    BY LedgerAssumption DEF LedgerInv, LedgerShape
  <2>2. a \in Nat /\ a >= 1 /\ a <= m + 1 /\ a > m - KeepLines
    BY <2>1
  <2>3. DOMAIN u = 1 .. m - a + 1 /\ \A i \in 1 .. m - a + 1 : u[i] = written[a - 1 + i]
    <3> HIDE DEF a
    <3>1. CASE m >= 1
      BY <2>1, <2>2, <3>1
    <3>2. CASE m = 0
      BY <2>1, <2>2, <3>2
    <3>3. m >= 1 \/ m = 0
      BY <2>1
    <3> QED BY <3>1, <3>2, <3>3
  <2> HIDE DEF u
  <2>4. ToSet(u) \subseteq LastOfAll(written)
    <3> SUFFICES ASSUME NEW i \in 1 .. m - a + 1 PROVE u[i] \in LastOfAll(written)
      BY <2>3 DEF ToSet
    <3>1. a - 1 + i \in 1 .. m /\ a - 1 + i > m - KeepLines
      <4> HIDE DEF a
      <4> QED BY <2>1, <2>2
    <3> QED BY <2>3, <3>1 DEF LastOfAll
  <2>5. Newest = ToSet(u)
    BY DEF Newest, u
  <2> QED BY <2>1, <2>4, <2>5 DEF PruneKeepsTheNewest, HasNewest
<1> QED BY LedgerInvInit, LedgerInvStep, <1>1, PTL DEF LedgerSpec

-----------------------------------------------------------------------------
(***************************************************************************)
(* ActedIsHidden of GlanceSnapshots, for any number of requests in flight, *)
(* findings and restarts.                                                  *)
(*                                                                         *)
(* A tip is hidden by the time of its action, which withoutActed forgets   *)
(* and a later action replaces.  The invariant says why neither uncovers   *)
(* it: as long as the snapshot, or a computation that has read the ledger, *)
(* shows a settled tip, its action is remembered, and every result that    *)
(* shows it or is being filtered was asked for before that action and      *)
(* before any that a request in flight may still note (DrawnInv); once no  *)
(* result shows it, none does again, as it is answered (SettledInv).       *)
(***************************************************************************)

VisitShape(v) ==
  v = [at |-> v.at, now |-> v.now, key |-> v.key, held |-> v.held, alone |-> v.alone,
       since |-> v.since]

GlanceShape ==
  /\ view = [ok |-> view.ok, at |-> view.at, shows |-> view.shows, fromSave |-> view.fromSave]
  /\ computing = [now |-> computing.now, read |-> computing.read, shows |-> computing.shows]
  /\ acted \in [FindingKeys -> Nat]
  /\ visit = [c \in Clients |-> visit[c]]
  /\ \A c \in Clients : VisitShape(visit[c]) /\ visit[c].key \in FindingKeys \cup {NoKey}
  /\ \A c \in Clients : visit[c].at \in {"act", "note"} => visit[c].key \in FindingKeys

InFlight(c) == visit[c] # NoVisit

\* Times are taken from the clock.
TimesInv ==
  /\ glanceNow \in Nat
  /\ view.at \in 0 .. glanceNow /\ computing.now \in 0 .. glanceNow
  /\ \A c \in Clients : visit[c].held.at \in 0 .. glanceNow /\ visit[c].now \in 0 .. glanceNow
  /\ \A c \in Clients : InFlight(c) => visit[c].now >= 1
  /\ glanceNow >= 1 /\ saved.at \in Nat

\* A request that overlapped no other is the only one, and asked after the
\* computation under way.
AloneInv ==
  \A c \in Clients : visit[c].alone =>
    /\ \A d \in Clients \ {c} : ~InFlight(d)
    /\ computing.now <= visit[c].now

\* Only a snapshot's findings are acted on, and a settled tip is answered.
SettledInv ==
  /\ settled \subseteq answered \cap Tips
  /\ settled # {} => view.ok
  /\ \A c \in Clients :
       /\ visit[c].at \in {"filter", "act", "note"} => view.ok
       /\ visit[c].at = "note" => visit[c].key \in answered
       /\ visit[c].since \subseteq settled

\* No result shows a rule promoted before the daemon started.
BootedInv ==
  /\ view.shows \cap booted = {} /\ computing.shows \cap booted = {}
  /\ saved.shows \cap saved.key = {}
  /\ \A c \in Clients : visit[c].held.shows \cap booted = {}

\* A result that may show k again: the snapshot, or one that will become it.
Drawn(k) == k \in view.shows \/ k \in computing.shows

\* A result asked for at t is older than k's action, and than any to come.
Older(t, k) == t <= acted[k] /\ \A c \in Clients : InFlight(c) => t <= visit[c].now

\* While a result shows a settled tip, the tip's action is remembered and newer.
DrawnInv ==
  \A k \in settled : Drawn(k) =>
    /\ acted[k] # 0 /\ Older(view.at, k)
    /\ k \in computing.shows => Older(computing.now, k)
    /\ \A c \in Clients : visit[c].at = "filter" => Older(visit[c].held.at, k)

\* So it is for the result that a request that overlaps no other holds.
HeldShowsInv ==
  \A c \in Clients : visit[c].at = "filter" /\ visit[c].alone =>
    \A k \in visit[c].since \cap visit[c].held.shows : IsActedSince(k, visit[c].held.at)

GlanceInv ==
  /\ GlanceShape /\ TimesInv /\ AloneInv /\ SettledInv /\ BootedInv /\ DrawnInv /\ HeldShowsInv

-----------------------------------------------------------------------------

\* A request that has left.
LEMMA NoVisitIs ==
  /\ VisitShape(NoVisit) /\ NoVisit.at = "idle" /\ NoVisit.now = 0 /\ NoVisit.held = NoView
  /\ NoView.at = 0 /\ NoView.shows = {} /\ NoVisit.alone = FALSE /\ NoVisit.since = {}
  /\ NoVisit.key = NoKey
BY DEF VisitShape, NoVisit, NoView, Zero

\* Before the first request there is nothing to show.
LEMMA GlanceInvInit == GlanceInit => GlanceInv
PROOF
<1> SUFFICES ASSUME GlanceInit PROVE GlanceInv
  OBVIOUS
<1>1. /\ view = NoView /\ computing = NoRun /\ saved = NoSave /\ answered = {} /\ booted = {}
      /\ acted = [k \in FindingKeys |-> 0] /\ visit = [c \in Clients |-> NoVisit]
      /\ glanceNow = 1 /\ settled = {}
  BY DEF GlanceInit, Zero
<1>2. \A c \in Clients : visit[c] = NoVisit
  BY <1>1
<1>3. GlanceShape
  <2>1. view = [ok |-> view.ok, at |-> view.at, shows |-> view.shows, fromSave |-> view.fromSave]
    BY <1>1 DEF NoView
  <2>2. computing = [now |-> computing.now, read |-> computing.read, shows |-> computing.shows]
    BY <1>1 DEF NoRun
  <2> QED BY <1>1, <1>2, <2>1, <2>2, NoVisitIs DEF GlanceShape
<1>4. TimesInv
  BY <1>1, <1>2 DEF TimesInv, InFlight, NoView, NoRun, NoSave, NoVisit, Zero
<1>5. AloneInv
  BY <1>2 DEF AloneInv, NoVisit
<1>6. SettledInv
  BY <1>1, <1>2 DEF SettledInv, NoVisit
<1>7. BootedInv
  BY <1>1, <1>2 DEF BootedInv, NoVisit, NoView, NoRun, NoSave
<1>8. DrawnInv /\ HeldShowsInv
  BY <1>1, <1>2 DEF DrawnInv, HeldShowsInv, NoVisit
<1> QED BY <1>3, <1>4, <1>5, <1>6, <1>7, <1>8 DEF GlanceInv

\* A request in flight moves, to hold the snapshot or nothing new; the snapshot
\* and the computation stay, and so do the actions they still show.
LEMMA OneVisit ==
  ASSUME GlanceInv, UNCHANGED <<view, computing, saved, booted, glanceNow, settled>>,
         answered \subseteq answered',
         acted' \in [FindingKeys -> Nat], \A k \in settled : Drawn(k) => acted'[k] = acted[k],
         NEW c \in Clients, InFlight(c), NEW h, VisitShape(h), visit' = [visit EXCEPT ![c] = h],
         h # NoVisit => h.now = visit[c].now,
         h.now \in 0 .. glanceNow,
         h.alone => visit[c].alone /\ h # NoVisit,
         h.held = visit[c].held \/ h.held = view \/ h.held = NoView,
         h.key \in FindingKeys \cup {NoKey},
         h.at \in {"act", "note"} => h.key \in FindingKeys,
         h.at \in {"filter", "act", "note"} => view.ok,
         h.at = "note" => h.key \in answered',
         h.at = "filter" => h.held = view,
         h.since \subseteq settled
  PROVE  GlanceInv'
PROOF
<1>0. GlanceShape /\ TimesInv /\ AloneInv /\ SettledInv /\ BootedInv /\ DrawnInv /\ HeldShowsInv
  BY DEF GlanceInv
<1>1. visit'[c] = h /\ \A d \in Clients \ {c} : visit'[d] = visit[d]
  BY <1>0 DEF GlanceShape
<1>2. visit' = [d \in Clients |-> visit'[d]]
  BY <1>0 DEF GlanceShape
<1>3. NoView.at = 0 /\ NoView.shows = {}
  BY DEF NoView, Zero
<1>4. GlanceShape'
  BY <1>0, <1>1, <1>2 DEF GlanceShape
<1>5. TimesInv'
  <2>1. \A d \in Clients : visit'[d].held.at \in 0 .. glanceNow /\ visit'[d].now \in 0 .. glanceNow
    BY <1>0, <1>1, <1>3 DEF TimesInv
  <2>2. \A d \in Clients : InFlight(d)' => visit'[d].now >= 1
    BY <1>0, <1>1 DEF TimesInv, InFlight
  <2> QED BY <1>0, <2>1, <2>2 DEF TimesInv
<1>6. AloneInv'
  BY <1>0, <1>1 DEF AloneInv, InFlight
<1>7. SettledInv'
  BY <1>0, <1>1 DEF SettledInv
<1>8. BootedInv'
  BY <1>0, <1>1, <1>3 DEF BootedInv
<1>9. DrawnInv'
  <2>1. ASSUME NEW t, NEW k \in settled, Older(t, k), Drawn(k) PROVE Older(t, k)'
    BY <1>1, <2>1 DEF Older, InFlight
  <2> SUFFICES ASSUME NEW k \in settled, Drawn(k)
               PROVE  /\ acted'[k] # 0 /\ Older(view.at, k)'
                      /\ k \in computing.shows => Older(computing.now, k)'
                      /\ \A d \in Clients : visit'[d].at = "filter" => Older(visit[d].held.at, k)'
    BY DEF DrawnInv, Drawn
  <2>2. /\ acted[k] # 0 /\ Older(view.at, k)
        /\ k \in computing.shows => Older(computing.now, k)
        /\ \A d \in Clients : visit[d].at = "filter" => Older(visit[d].held.at, k)
    BY <1>0 DEF DrawnInv
  <2>3. Older(view.at, k)'
    BY <2>1, <2>2
  <2>4. k \in computing.shows => Older(computing.now, k)'
    BY <2>1, <2>2
  <2>5. ASSUME NEW d \in Clients, visit'[d].at = "filter" PROVE Older(visit[d].held.at, k)'
    <3>1. visit'[d].held.at = view.at \/ (visit'[d].held.at = visit[d].held.at /\ visit[d].at = "filter")
      BY <1>1, <2>5
    <3>2. CASE visit'[d].held.at = view.at
      BY <2>3, <3>2 DEF Older, InFlight
    <3>3. CASE visit'[d].held.at = visit[d].held.at /\ visit[d].at = "filter"
      <4>1. Older(visit[d].held.at, k)
        BY <2>2, <3>3
      <4> QED BY <2>1, <3>3, <4>1 DEF Older, InFlight
    <3> QED BY <3>1, <3>2, <3>3
  <2> QED BY <2>2, <2>3, <2>4, <2>5
<1>10. HeldShowsInv'
  <2> SUFFICES ASSUME NEW d \in Clients, visit'[d].at = "filter", visit'[d].alone,
                      NEW k \in visit'[d].since, k \in visit'[d].held.shows
               PROVE  IsActedSince(k, visit[d].held.at)'
    BY DEF HeldShowsInv
  <2>1. d = c
    BY <1>0, <1>1 DEF AloneInv, InFlight
  <2>2. k \in settled /\ Drawn(k) /\ visit'[d].held = view
    BY <1>1, <2>1 DEF Drawn
  <2>3. acted'[k] = acted[k] /\ acted[k] # 0 /\ view.at <= acted[k]
    BY <1>0, <2>2 DEF DrawnInv, Older
  <2>4. k \in FindingKeys
    BY <1>0, <2>2 DEF SettledInv, FindingKeys
  <2> QED BY <2>2, <2>3, <1>0 DEF IsActedSince, Zero, GlanceShape, TimesInv
<1> QED BY <1>4, <1>5, <1>6, <1>7, <1>8, <1>9, <1>10 DEF GlanceInv

\* The fields of a visit whose place is set.
LEMMA VisitPlaced ==
  ASSUME NEW v, VisitShape(v), NEW a
  PROVE  LET h == [v EXCEPT !.at = a] IN
         /\ VisitShape(h) /\ h.at = a /\ h.now = v.now /\ h.key = v.key /\ h.held = v.held
         /\ h.alone = v.alone /\ h.since = v.since
PROOF
<1> DEFINE h == [v EXCEPT !.at = a]
<1>1. h = [at |-> a, now |-> v.now, key |-> v.key, held |-> v.held, alone |-> v.alone,
           since |-> v.since]
  BY DEF VisitShape
<1> HIDE DEF h
<1>2. VisitShape(h) /\ h.at = a /\ h.now = v.now /\ h.key = v.key /\ h.held = v.held
      /\ h.alone = v.alone /\ h.since = v.since
  BY <1>1 DEF VisitShape
<1> QED BY <1>2 DEF h

\* The fields of a visit whose place and result are set.
LEMMA VisitHolds ==
  ASSUME NEW v, VisitShape(v), NEW a, NEW r
  PROVE  [v EXCEPT !.at = a, !.held = r] =
           [at |-> a, now |-> v.now, key |-> v.key, held |-> r, alone |-> v.alone, since |-> v.since]
PROOF
<1> DEFINE f1 == v.at
           f2 == v.now
           f3 == v.key
           f4 == v.held
           f5 == v.alone
           f6 == v.since
           g == [v EXCEPT !.at = a, !.held = r]
<1>1. v = [at |-> f1, now |-> f2, key |-> f3, held |-> f4, alone |-> f5, since |-> f6]
      /\ g = [v EXCEPT !.at = a, !.held = r]
  BY DEF VisitShape
<1>2. f2 = v.now /\ f3 = v.key /\ f5 = v.alone /\ f6 = v.since
  OBVIOUS
<1> HIDE DEF f1, f2, f3, f4, f5, f6, g
<1>3. g = [at |-> a, now |-> f2, key |-> f3, held |-> r, alone |-> f5, since |-> f6]
  BY <1>1
<1> QED BY <1>2, <1>3 DEF g

\* The fields of a visit that another one joins.
LEMMA VisitJoined ==
  ASSUME NEW v, VisitShape(v), NEW b
  PROVE  [v EXCEPT !.alone = b] =
           [at |-> v.at, now |-> v.now, key |-> v.key, held |-> v.held, alone |-> b, since |-> v.since]
PROOF
<1> DEFINE f1 == v.at
           f2 == v.now
           f3 == v.key
           f4 == v.held
           f5 == v.alone
           f6 == v.since
           g == [v EXCEPT !.alone = b]
<1>1. v = [at |-> f1, now |-> f2, key |-> f3, held |-> f4, alone |-> f5, since |-> f6]
      /\ g = [v EXCEPT !.alone = b]
  BY DEF VisitShape
<1>2. f1 = v.at /\ f2 = v.now /\ f3 = v.key /\ f4 = v.held /\ f6 = v.since
  OBVIOUS
<1> HIDE DEF f1, f2, f3, f4, f5, f6, g
<1>3. g = [at |-> f1, now |-> f2, key |-> f3, held |-> f4, alone |-> b, since |-> f6]
  BY <1>1
<1> QED BY <1>2, <1>3 DEF g

\* The fields of a visit that arrives.
LEMMA VisitArrived ==
  ASSUME NEW v, VisitShape(v), NEW a, NEW n, NEW k, NEW b, NEW s
  PROVE  [v EXCEPT !.at = a, !.now = n, !.key = k, !.alone = b, !.since = s] =
           [at |-> a, now |-> n, key |-> k, held |-> v.held, alone |-> b, since |-> s]
PROOF
<1> DEFINE f1 == v.at
           f2 == v.now
           f3 == v.key
           f4 == v.held
           f5 == v.alone
           f6 == v.since
           g == [v EXCEPT !.at = a, !.now = n, !.key = k, !.alone = b, !.since = s]
<1>1. v = [at |-> f1, now |-> f2, key |-> f3, held |-> f4, alone |-> f5, since |-> f6]
      /\ g = [v EXCEPT !.at = a, !.now = n, !.key = k, !.alone = b, !.since = s]
  BY DEF VisitShape
<1>2. f4 = v.held
  OBVIOUS
<1> HIDE DEF f1, f2, f3, f4, f5, f6, g
<1>3. g = [at |-> a, now |-> n, key |-> k, held |-> f4, alone |-> b, since |-> s]
  BY <1>1
<1> QED BY <1>2, <1>3 DEF g

\* A client goes away, or its request ends.
LEMMA LeaveStep ==
  ASSUME GlanceInv, UNCHANGED <<view, computing, saved, booted, glanceNow, settled, answered>>,
         acted' \in [FindingKeys -> Nat], \A k \in settled : Drawn(k) => acted'[k] = acted[k],
         NEW c \in Clients, InFlight(c), Leaves(c)
  PROVE  GlanceInv'
PROOF
<1>1. visit' = [visit EXCEPT ![c] = NoVisit]
  BY DEF Leaves
<1>2. 0 \in 0 .. glanceNow
  BY DEF GlanceInv, TimesInv
<1> QED BY <1>1, <1>2, NoVisitIs, OneVisit

\* A request goes on to another place.
LEMMA PlacedStep ==
  ASSUME GlanceInv, UNCHANGED <<view, computing, saved, booted, glanceNow, settled>>,
         answered \subseteq answered',
         acted' \in [FindingKeys -> Nat], \A k \in settled : Drawn(k) => acted'[k] = acted[k],
         NEW c \in Clients, NEW a, To(c, a),
         \/ visit[c].at = "filter" /\ a = "act" /\ visit[c].key \in FindingKeys
         \/ visit[c].at = "act" /\ a = "note" /\ visit[c].key \in answered'
  PROVE  GlanceInv'
PROOF
<1> DEFINE h == [visit[c] EXCEPT !.at = a]
<1>0. GlanceShape /\ TimesInv /\ SettledInv
  BY DEF GlanceInv
<1>1. visit' = [visit EXCEPT ![c] = h]
  BY <1>0 DEF To, GlanceShape
<1>2. /\ VisitShape(h) /\ h.at = a /\ h.now = visit[c].now /\ h.key = visit[c].key
      /\ h.held = visit[c].held /\ h.alone = visit[c].alone /\ h.since = visit[c].since
  BY <1>0, VisitPlaced DEF GlanceShape
<1> HIDE DEF h
<1>3. InFlight(c) /\ h # NoVisit
  BY <1>2, NoVisitIs DEF InFlight
<1>4. h.now \in 0 .. glanceNow /\ h.since \subseteq settled
  BY <1>0, <1>2 DEF TimesInv, SettledInv
<1>5. /\ view.ok /\ h.key \in FindingKeys /\ h.at \in {"act", "note"}
      /\ h.at = "note" => h.key \in answered'
  BY <1>0, <1>2 DEF SettledInv, GlanceShape
<1> QED BY <1>1, <1>2, <1>3, <1>4, <1>5, OneVisit

\* A woken request takes the snapshot, or its error.
LEMMA WokenStep ==
  ASSUME GlanceInv, NEW c \in Clients, Woken(c)
  PROVE  GlanceInv'
PROOF
<1>0. GlanceShape /\ TimesInv /\ SettledInv
  BY DEF GlanceInv
<1>1. /\ UNCHANGED <<view, computing, saved, booted, glanceNow, settled, answered, acted>>
      /\ visit[c].at = "woken"
  BY DEF Woken, snapState, worldState
<1>2. /\ acted' \in [FindingKeys -> Nat] /\ InFlight(c)
      /\ \A k \in settled : Drawn(k) => acted'[k] = acted[k]
  BY <1>0, <1>1, NoVisitIs DEF GlanceShape, InFlight
<1>3. CASE view.ok
  <2> DEFINE v == visit[c]
             r == view
             a == "filter"
             h == [v EXCEPT !.at = a, !.held = r]
  <2>1. visit' = [visit EXCEPT ![c] = h]
    BY <1>0, <1>3 DEF Woken, GlanceShape
  <2>0. v = visit[c] /\ r = view /\ VisitShape(v) /\ a = "filter"
        /\ h = [v EXCEPT !.at = a, !.held = r]
    BY <1>0 DEF GlanceShape
  <2> HIDE DEF v, r, a, h
  <2>2. /\ VisitShape(h) /\ h.at = a /\ h.now = v.now /\ h.key = v.key
        /\ h.held = r /\ h.alone = v.alone /\ h.since = v.since
    <3>1. h = [at |-> a, now |-> v.now, key |-> v.key, held |-> r, alone |-> v.alone,
               since |-> v.since]
      BY <2>0, VisitHolds
    <3> QED BY <3>1 DEF VisitShape
  <2>3. /\ h # NoVisit /\ h.now \in 0 .. glanceNow /\ h.since \subseteq settled
        /\ h.key \in FindingKeys \cup {NoKey}
    BY <1>0, <2>0, <2>2, NoVisitIs DEF TimesInv, SettledInv, GlanceShape
  <2> QED BY <1>1, <1>2, <1>3, <2>0, <2>1, <2>2, <2>3, OneVisit
<1>4. CASE ~view.ok
  BY <1>1, <1>2, <1>4, LeaveStep DEF Woken
<1> QED BY <1>3, <1>4

\* withoutActed forgets no action that a result it filters, or one to come, shows.
LEMMA WithoutActedStep ==
  ASSUME GlanceInv, NEW c \in Clients, WithoutActed(c)
  PROVE  GlanceInv'
PROOF
<1>0. GlanceShape /\ TimesInv /\ SettledInv /\ DrawnInv
  BY DEF GlanceInv
<1>1. /\ UNCHANGED <<view, computing, saved, booted, glanceNow, settled, answered>>
      /\ visit[c].at = "filter"
      /\ acted' = [k \in FindingKeys |-> IF acted[k] < visit[c].held.at THEN 0 ELSE acted[k]]
  BY DEF WithoutActed, snapState, worldState, Zero
<1>2. InFlight(c)
  BY <1>1, NoVisitIs DEF InFlight
<1>3. acted' \in [FindingKeys -> Nat]
  BY <1>0, <1>1 DEF GlanceShape
<1>4. ASSUME NEW k \in settled, Drawn(k) PROVE acted'[k] = acted[k]
  <2>1. k \in FindingKeys /\ acted[k] \in Nat /\ visit[c].held.at \in Nat
    BY <1>0 DEF SettledInv, FindingKeys, GlanceShape, TimesInv
  <2>2. visit[c].held.at <= acted[k]
    BY <1>0, <1>1, <1>4 DEF DrawnInv, Older
  <2> QED BY <1>1, <2>1, <2>2
<1>5. CASE Leaves(c)
  BY <1>1, <1>2, <1>3, <1>4, <1>5, LeaveStep
<1>6. CASE To(c, "act") /\ visit[c].key \in ShownTo(c) /\ visit[c].key # NoKey
  <2>1. visit[c].key \in FindingKeys
    BY <1>0, <1>1, <1>6 DEF GlanceShape
  <2> QED BY <1>1, <1>3, <1>4, <1>6, <2>1, PlacedStep
<1> QED BY <1>5, <1>6 DEF WithoutActed

\* A request arrives: it asks after every result there is.
LEMMA RequestStep ==
  ASSUME GlanceInv, NEW c \in Clients, NEW k \in FindingKeys \cup {NoKey}, Request(c, k)
  PROVE  GlanceInv'
PROOF
<1>0. GlanceShape /\ TimesInv /\ AloneInv /\ SettledInv /\ BootedInv /\ DrawnInv /\ HeldShowsInv
  BY DEF GlanceInv
<1> DEFINE alone == \A e \in Clients \ {c} : visit[e] = NoVisit
           h == [NoVisit EXCEPT !.at = "get", !.now = glanceNow, !.key = k, !.alone = alone,
                                !.since = settled]
<1>1. /\ UNCHANGED <<view, computing, saved, booted, glanceNow, settled, answered, acted>>
      /\ visit[c] = NoVisit
      /\ visit' = [d \in Clients |-> IF d = c THEN h ELSE [visit[d] EXCEPT !.alone = FALSE]]
  BY DEF Request, snapState, worldState
<1>2. h = [NoVisit EXCEPT !.at = "get", !.now = glanceNow, !.key = k, !.alone = alone,
                          !.since = settled]
  OBVIOUS
<1>3. alone => \A d \in Clients \ {c} : ~InFlight(d)
  BY DEF InFlight
<1> HIDE DEF h, alone
<1>4. /\ VisitShape(h) /\ h.at = "get" /\ h.now = glanceNow /\ h.key = k /\ h.held = NoView
      /\ h.alone = alone /\ h.since = settled
  <2> DEFINE v == NoVisit
             n == glanceNow
             s == settled
             a == "get"
  <2>1. /\ h = [v EXCEPT !.at = a, !.now = n, !.key = k, !.alone = alone, !.since = s]
        /\ VisitShape(v) /\ v.held = NoView
    BY <1>2, NoVisitIs
  <2> HIDE DEF v, n, s, a
  <2>2. /\ VisitShape(h) /\ h.at = a /\ h.now = n /\ h.key = k /\ h.held = v.held
        /\ h.alone = alone /\ h.since = s
    <3>1. h = [at |-> a, now |-> n, key |-> k, held |-> v.held, alone |-> alone, since |-> s]
      BY <2>1, VisitArrived, ZenonT(40)
    <3> QED BY <3>1 DEF VisitShape
  <2> QED BY <2>1, <2>2 DEF n, s, a
<1>6. ASSUME NEW d \in Clients, d # c
      PROVE  /\ VisitShape(visit'[d]) /\ visit'[d].at = visit[d].at /\ visit'[d].now = visit[d].now
             /\ visit'[d].key = visit[d].key /\ visit'[d].held = visit[d].held
             /\ visit'[d].alone = FALSE /\ visit'[d].since = visit[d].since
  <2> DEFINE v == visit[d]
             b == FALSE
             g == visit'[d]
  <2>1. g = [v EXCEPT !.alone = b] /\ VisitShape(v)
    BY <1>0, <1>1, <1>6 DEF GlanceShape
  <2> HIDE DEF v, b, g
  <2>2. /\ VisitShape(g) /\ g.at = v.at /\ g.now = v.now /\ g.key = v.key /\ g.held = v.held
        /\ g.alone = b /\ g.since = v.since
    <3>1. g = [at |-> v.at, now |-> v.now, key |-> v.key, held |-> v.held, alone |-> b,
               since |-> v.since]
      BY <2>1, VisitJoined
    <3> QED BY <3>1 DEF VisitShape
  <2> QED BY <2>2 DEF v, b, g
<1>7. visit'[c] = h /\ visit' = [d \in Clients |-> visit'[d]]
  BY <1>1
<1>8. ASSUME NEW d \in Clients, d # c, InFlight(d)' PROVE InFlight(d)
  <2> SUFFICES ASSUME visit[d] = NoVisit PROVE visit'[d] = NoVisit
    BY <1>8 DEF InFlight
  <2>1. visit'[d] = [NoVisit EXCEPT !.alone = FALSE]
    BY <1>1, <1>8
  <2> QED BY <2>1 DEF NoVisit
<1>9. GlanceShape'
  BY <1>0, <1>1, <1>4, <1>6, <1>7 DEF GlanceShape
<1>10. TimesInv'
  <2>1. ASSUME NEW d \in Clients
        PROVE  visit'[d].held.at \in 0 .. glanceNow /\ visit'[d].now \in 0 .. glanceNow
    <3>1. CASE d = c
      <4>1. visit'[c].held.at = 0 /\ visit'[c].now = glanceNow
        BY <1>4, <1>7, NoVisitIs
      <4> QED BY <1>0, <3>1, <4>1 DEF TimesInv
    <3>2. CASE d # c
      BY <1>0, <1>6, <3>2 DEF TimesInv
    <3> QED BY <3>1, <3>2
  <2>2. \A d \in Clients : InFlight(d)' => visit'[d].now >= 1
    BY <1>0, <1>4, <1>6, <1>7, <1>8 DEF TimesInv
  <2> QED BY <1>0, <1>1, <2>1, <2>2 DEF TimesInv
<1>11. AloneInv'
  <2> SUFFICES ASSUME NEW d \in Clients, visit'[d].alone
               PROVE  (\A e \in Clients \ {d} : ~InFlight(e)') /\ computing.now <= visit'[d].now
    BY <1>1 DEF AloneInv
  <2>1. d = c /\ alone
    BY <1>4, <1>6, <1>7
  <2> QED BY <1>0, <1>3, <1>4, <1>7, <1>8, <2>1 DEF TimesInv
<1>12. SettledInv'
  BY <1>0, <1>1, <1>4, <1>6, <1>7 DEF SettledInv
<1>13. BootedInv'
  BY <1>0, <1>1, <1>4, <1>6, <1>7 DEF BootedInv, NoView
<1>14. DrawnInv'
  <2>1. ASSUME NEW t \in 0 .. glanceNow, NEW x, Older(t, x) PROVE Older(t, x)'
    BY <1>0, <1>1, <1>4, <1>6, <1>7, <1>8, <2>1 DEF Older, TimesInv
  <2>2. view.at \in 0 .. glanceNow /\ computing.now \in 0 .. glanceNow
    BY <1>0 DEF TimesInv
  <2>3. ASSUME NEW x \in settled, Drawn(x)
        PROVE  /\ acted[x] # 0 /\ Older(view.at, x)'
               /\ x \in computing.shows => Older(computing.now, x)'
               /\ \A d \in Clients : visit'[d].at = "filter" => Older(visit[d].held.at, x)'
    <3>1. /\ acted[x] # 0 /\ Older(view.at, x)
          /\ x \in computing.shows => Older(computing.now, x)
          /\ \A d \in Clients : visit[d].at = "filter" => Older(visit[d].held.at, x)
      BY <1>0, <2>3 DEF DrawnInv
    <3>2. ASSUME NEW d \in Clients, visit'[d].at = "filter" PROVE Older(visit[d].held.at, x)'
      <4>1. d # c /\ visit[d].at = "filter" /\ visit'[d].held.at = visit[d].held.at
        BY <1>4, <1>6, <1>7, <3>2
      <4>2. Older(visit[d].held.at, x) /\ visit[d].held.at \in 0 .. glanceNow
        BY <1>0, <3>1, <4>1 DEF TimesInv
      <4> QED BY <1>1, <2>1, <4>1, <4>2 DEF Older
    <3> QED BY <1>1, <2>1, <2>2, <3>1, <3>2 DEF Older
  <2> QED BY <1>1, <2>3 DEF DrawnInv, Drawn
<1>15. HeldShowsInv'
  BY <1>4, <1>6, <1>7 DEF HeldShowsInv
<1> QED BY <1>9, <1>10, <1>11, <1>12, <1>13, <1>14, <1>15 DEF GlanceInv

\* NoRun's fields.
LEMMA NoRunIs ==
  /\ NoRun = [now |-> NoRun.now, read |-> NoRun.read, shows |-> NoRun.shows]
  /\ NoRun.now = 0 /\ NoRun.read = FALSE /\ NoRun.shows = {}
BY DEF NoRun, Zero

\* A computation ends, with the last result or its own; who waits is woken.
LEMMA EndStep ==
  ASSUME GlanceInv, WakeAll, computing' = NoRun,
         UNCHANGED <<acted, booted, glanceNow, settled, answered>>,
         saved'.at \in Nat, saved'.shows \cap saved'.key = {},
         \/ view' = view
         \/ /\ view' = [ok |-> view'.ok, at |-> view'.at, shows |-> view'.shows,
                        fromSave |-> view'.fromSave]
            /\ view'.ok /\ view'.at = computing.now /\ view'.shows = computing.shows
  PROVE  GlanceInv'
PROOF
<1>0. GlanceShape /\ TimesInv /\ AloneInv /\ SettledInv /\ BootedInv /\ DrawnInv /\ HeldShowsInv
  BY DEF GlanceInv
<1>1. ASSUME NEW d \in Clients
      PROVE  /\ VisitShape(visit'[d]) /\ visit'[d].now = visit[d].now
             /\ visit'[d].key = visit[d].key /\ visit'[d].held = visit[d].held
             /\ visit'[d].alone = visit[d].alone /\ visit'[d].since = visit[d].since
             /\ visit'[d].at = visit[d].at \/ visit'[d].at = "woken"
             /\ InFlight(d)' => InFlight(d)
  <2>1. VisitShape(visit[d])
    BY <1>0 DEF GlanceShape
  <2>2. CASE visit[d].at = "waiting"
    <3> DEFINE v == visit[d]
               a == "woken"
               g == visit'[d]
    <3>1. g = [v EXCEPT !.at = a]
      BY <2>2 DEF WakeAll
    <3>2. VisitShape(v) /\ v.at = "waiting"
      BY <2>1, <2>2
    <3>3. InFlight(d)
      BY <2>2, NoVisitIs DEF InFlight
    <3> HIDE DEF v, a, g
    <3>4. /\ VisitShape(g) /\ g.at = a /\ g.now = v.now /\ g.key = v.key /\ g.held = v.held
          /\ g.alone = v.alone /\ g.since = v.since
      BY <3>1, <3>2, VisitPlaced
    <3> QED BY <3>3, <3>4 DEF v, a, g
  <2>3. CASE visit[d].at # "waiting"
    <3>1. visit'[d] = visit[d]
      BY <2>3 DEF WakeAll
    <3> QED BY <2>1, <3>1 DEF InFlight
  <2> QED BY <2>2, <2>3
<1>2. visit' = [d \in Clients |-> visit'[d]]
  BY DEF WakeAll
<1>3. GlanceShape'
  BY <1>0, <1>1, <1>2, NoRunIs DEF GlanceShape
<1>4. TimesInv'
  <2>1. view'.at \in 0 .. glanceNow /\ computing'.now \in 0 .. glanceNow
    BY <1>0, NoRunIs DEF TimesInv
  <2>2. \A d \in Clients : /\ visit'[d].held.at \in 0 .. glanceNow
                           /\ visit'[d].now \in 0 .. glanceNow
                           /\ InFlight(d)' => visit'[d].now >= 1
    BY <1>0, <1>1 DEF TimesInv
  <2> QED BY <1>0, <2>1, <2>2 DEF TimesInv
<1>5. AloneInv'
  BY <1>0, <1>1, NoRunIs DEF AloneInv, TimesInv
<1>6. SettledInv'
  <2>1. view.ok => view'.ok
    OBVIOUS
  <2> QED BY <1>0, <1>1, <2>1 DEF SettledInv
<1>7. BootedInv'
  BY <1>0, <1>1, NoRunIs DEF BootedInv
<1>8. DrawnInv'
  <2>1. ASSUME NEW t, NEW k, Older(t, k) PROVE Older(t, k)'
    BY <1>1, <2>1 DEF Older
  <2>2. ASSUME NEW k \in settled, Drawn(k)'
        PROVE  /\ acted[k] # 0 /\ Older(view.at, k)'
               /\ \A d \in Clients : visit'[d].at = "filter" => Older(visit[d].held.at, k)'
    <3>1. Drawn(k) /\ (view' = view \/ (k \in computing.shows /\ view'.at = computing.now))
      BY <2>2, NoRunIs DEF Drawn
    <3>2. /\ acted[k] # 0 /\ Older(view.at, k)
          /\ k \in computing.shows => Older(computing.now, k)
          /\ \A d \in Clients : visit[d].at = "filter" => Older(visit[d].held.at, k)
      BY <1>0, <3>1 DEF DrawnInv
    <3>3. Older(view.at, k)'
      BY <1>1, <3>1, <3>2 DEF Older
    <3>4. ASSUME NEW d \in Clients, visit'[d].at = "filter" PROVE Older(visit[d].held.at, k)'
      <4>1. visit[d].at = "filter" /\ visit'[d].held = visit[d].held
        BY <1>1, <3>4
      <4>2. Older(visit[d].held.at, k)
        BY <3>2, <4>1
      <4> QED BY <1>1, <4>1, <4>2 DEF Older
    <3> QED BY <3>2, <3>3, <3>4
  <2>3. ASSUME NEW k PROVE k \notin computing'.shows
    BY NoRunIs
  <2> QED BY <2>2, <2>3 DEF DrawnInv
<1>9. HeldShowsInv'
  BY <1>0, <1>1 DEF HeldShowsInv, IsActedSince
<1> QED BY <1>3, <1>4, <1>5, <1>6, <1>7, <1>8, <1>9 DEF GlanceInv

\* The result becomes the snapshot, and is saved under the config it is of.
LEMMA LandStep == GlanceInv /\ Land => GlanceInv'
PROOF
<1> SUFFICES ASSUME GlanceInv, Land PROVE GlanceInv'
  OBVIOUS
<1>0. TimesInv /\ BootedInv
  BY DEF GlanceInv
<1> DEFINE s == [at |-> computing.now, key |-> booted, shows |-> computing.shows]
           r == [ok |-> TRUE, at |-> computing.now, shows |-> computing.shows, fromSave |-> FALSE]
<1>1. /\ saved' \in {saved, s} /\ view' = r /\ computing' = NoRun /\ WakeAll
      /\ UNCHANGED <<acted, booted, glanceNow, settled, answered>>
  BY DEF Land, worldState
<1>2. s.at = computing.now /\ s.key = booted /\ s.shows = computing.shows
  OBVIOUS
<1>3. /\ r = [ok |-> r.ok, at |-> r.at, shows |-> r.shows, fromSave |-> r.fromSave]
      /\ r.ok /\ r.at = computing.now /\ r.shows = computing.shows
  OBVIOUS
<1> HIDE DEF s, r
<1>4. saved'.at \in Nat /\ saved'.shows \cap saved'.key = {}
  BY <1>0, <1>1, <1>2 DEF TimesInv, BootedInv
<1> QED BY <1>1, <1>3, <1>4, EndStep

\* The last result stands.
LEMMA ComputeFailsStep == GlanceInv /\ ComputeFails => GlanceInv'
PROOF
<1> SUFFICES ASSUME GlanceInv, ComputeFails PROVE GlanceInv'
  OBVIOUS
<1>1. /\ computing' = NoRun /\ WakeAll
      /\ UNCHANGED <<view, saved, acted, booted, glanceNow, settled, answered>>
  BY DEF ComputeFails, worldState
<1>2. saved'.at \in Nat /\ saved'.shows \cap saved'.key = {}
  BY <1>1 DEF GlanceInv, TimesInv, BootedInv
<1> QED BY <1>1, <1>2, EndStep

\* A computation that reads the ledger now draws no settled tip.
LEMMA ComputeStep == GlanceInv /\ Compute => GlanceInv'
PROOF
<1> SUFFICES ASSUME GlanceInv, Compute PROVE GlanceInv'
  OBVIOUS
<1>0. GlanceShape /\ TimesInv /\ AloneInv /\ SettledInv /\ BootedInv /\ DrawnInv /\ HeldShowsInv
  BY DEF GlanceInv
<1> DEFINE n == computing.now
           r == computing.read
           w == computing.shows
           t == TRUE
           s == glanceSetup.keys \ ((answered \cap Tips) \cup booted)
           g == computing
           h == computing'
<1>1. /\ h = [g EXCEPT !.read = t, !.shows = s]
      /\ UNCHANGED <<view, saved, acted, booted, glanceNow, settled, answered, visit>>
  BY DEF Compute, worldState
<1>2. g = [now |-> n, read |-> r, shows |-> w]
  BY <1>0 DEF GlanceShape
<1>3. s \cap booted = {} /\ s \cap settled = {} /\ n = computing.now
  BY <1>0 DEF SettledInv
<1>4. h = [now |-> n, read |-> t, shows |-> s]
  <2> HIDE DEF n, r, w, t, s, g, h
  <2> QED BY <1>1, <1>2
<1>5. /\ computing' = [now |-> computing'.now, read |-> computing'.read, shows |-> computing'.shows]
      /\ computing'.now = computing.now /\ computing'.shows = s
  <2> HIDE DEF n, t, s
  <2> QED BY <1>3, <1>4
<1> HIDE DEF n, r, w, t, s, g, h
<1>6. GlanceShape'
  BY <1>0, <1>1, <1>5 DEF GlanceShape
<1>7. TimesInv' /\ AloneInv' /\ SettledInv' /\ BootedInv'
  BY <1>0, <1>1, <1>3, <1>5 DEF TimesInv, AloneInv, SettledInv, BootedInv, InFlight
<1>8. DrawnInv'
  <2>1. ASSUME NEW x \in settled PROVE x \notin computing'.shows /\ (Drawn(x)' => Drawn(x))
    BY <1>1, <1>3, <1>5 DEF Drawn
  <2>2. ASSUME NEW y, NEW x, Older(y, x) PROVE Older(y, x)'
    BY <1>1, <2>2 DEF Older, InFlight
  <2> QED BY <1>0, <1>1, <2>1, <2>2 DEF DrawnInv
<1>9. HeldShowsInv'
  BY <1>0, <1>1 DEF HeldShowsInv, IsActedSince
<1> QED BY <1>6, <1>7, <1>8, <1>9 DEF GlanceInv

\* load's result is of this process's config, or there is none.
LEMMA LoadedIs ==
  ASSUME GlanceInv, NEW now \in 0 .. glanceNow
  PROVE  LET v == Loaded(now) IN
         /\ v = [ok |-> v.ok, at |-> v.at, shows |-> v.shows, fromSave |-> v.fromSave]
         /\ v.at \in 0 .. glanceNow /\ v.shows \cap booted = {}
PROOF
<1>0. GlanceShape /\ TimesInv /\ BootedInv
  BY DEF GlanceInv
<1> DEFINE v == Loaded(now)
           l == [ok |-> TRUE, at |-> saved.at, shows |-> saved.shows, fromSave |-> TRUE]
<1>1. v = view \/ (v = l /\ saved.key = booted /\ saved.at <= now)
  BY DEF Loaded
<1>2. /\ l = [ok |-> l.ok, at |-> l.at, shows |-> l.shows, fromSave |-> l.fromSave]
      /\ l.at = saved.at /\ l.shows = saved.shows
  OBVIOUS
<1> HIDE DEF v, l
<1>3. CASE v = view
  BY <1>0, <1>3 DEF GlanceShape, TimesInv, BootedInv, v
<1>4. CASE v = l /\ saved.key = booted /\ saved.at <= now
  <2>1. l.at \in 0 .. glanceNow /\ l.shows \cap booted = {}
    BY <1>0, <1>2, <1>4 DEF TimesInv, BootedInv
  <2> QED BY <1>2, <1>4, <2>1 DEF v
<1> QED BY <1>1, <1>3, <1>4

\* A request takes the snapshot, or waits; a computation it starts is dated when
\* it came.
LEMMA GetStep ==
  ASSUME GlanceInv, NEW c \in Clients, Get(c)
  PROVE  GlanceInv'
PROOF
<1>0. GlanceShape /\ TimesInv /\ AloneInv /\ SettledInv /\ BootedInv /\ DrawnInv /\ HeldShowsInv
  BY DEF GlanceInv
<1> DEFINE now == visit[c].now
           v == IF view.ok \/ loaded THEN view ELSE Loaded(now)
           run == [NoRun EXCEPT !.now = now]
           a == IF v.ok THEN "filter" ELSE "waiting"
           r == IF v.ok THEN v ELSE NoView
           w == visit[c]
           h == [w EXCEPT !.at = a, !.held = r]
<1>1. /\ visit[c].at = "get" /\ view' = v /\ computing' \in {run, computing}
      /\ visit' = [visit EXCEPT ![c].at = a, ![c].held = r]
      /\ UNCHANGED <<saved, acted, booted, glanceNow, settled, answered>>
  BY DEF Get, worldState
<1>2. visit' = [visit EXCEPT ![c] = h]
  <2> HIDE DEF a, r
  <2> QED BY <1>0, <1>1 DEF GlanceShape
<1>3. now \in 0 .. glanceNow /\ InFlight(c)
  BY <1>0, <1>1, NoVisitIs DEF TimesInv, InFlight
<1>4. /\ v = [ok |-> v.ok, at |-> v.at, shows |-> v.shows, fromSave |-> v.fromSave]
      /\ v.at \in 0 .. glanceNow /\ v.shows \cap booted = {} /\ (view.ok => v = view)
  <2>1. CASE view.ok \/ loaded
    BY <1>0, <2>1 DEF GlanceShape, TimesInv, BootedInv
  <2>2. CASE ~(view.ok \/ loaded)
    <3>1. v = Loaded(now)
      BY <2>2
    <3> HIDE DEF v, now
    <3> QED BY <1>3, <2>2, <3>1, LoadedIs
  <2> QED BY <2>1, <2>2
<1>5. /\ run = [now |-> run.now, read |-> run.read, shows |-> run.shows]
      /\ run.now = now /\ run.shows = {}
  <2> DEFINE n == NoRun.now
             e == NoRun.read
             u == NoRun.shows
             g == NoRun
  <2>1. g = [now |-> n, read |-> e, shows |-> u] /\ u = {} /\ run = [g EXCEPT !.now = now]
    BY NoRunIs
  <2> HIDE DEF now, n, e, u, g, run
  <2>2. run = [now |-> now, read |-> e, shows |-> u]
    BY <2>1
  <2> QED BY <2>1, <2>2
<1>6. a \in {"filter", "waiting"} /\ (a = "filter" => v.ok /\ r = v) /\ (r = v \/ r = NoView)
  <2> HIDE DEF v
  <2> QED OBVIOUS
<1>7. w = visit[c] /\ VisitShape(w) /\ h = [w EXCEPT !.at = a, !.held = r]
  <2> HIDE DEF a, r, v
  <2> QED BY <1>0 DEF GlanceShape
<1> HIDE DEF now, v, run, a, r, w, h
<1>8. /\ VisitShape(h) /\ h.at = a /\ h.now = now /\ h.key = visit[c].key /\ h.held = r
      /\ h.alone = visit[c].alone /\ h.since = visit[c].since
  <2>1. h = [at |-> a, now |-> w.now, key |-> w.key, held |-> r, alone |-> w.alone,
             since |-> w.since]
    BY <1>7, VisitHolds
  <2>2. /\ VisitShape(h) /\ h.at = a /\ h.now = w.now /\ h.key = w.key /\ h.held = r
        /\ h.alone = w.alone /\ h.since = w.since
    BY <2>1 DEF VisitShape
  <2> QED BY <1>7, <2>2 DEF now
<1>9. /\ visit'[c] = h /\ visit' = [d \in Clients |-> visit'[d]]
      /\ \A d \in Clients \ {c} : visit'[d] = visit[d]
  BY <1>0, <1>2 DEF GlanceShape
<1>10. GlanceShape'
  BY <1>0, <1>1, <1>4, <1>5, <1>6, <1>8, <1>9 DEF GlanceShape
<1>11. TimesInv'
  <2>1. view'.at \in 0 .. glanceNow /\ computing'.now \in 0 .. glanceNow
    BY <1>0, <1>1, <1>3, <1>4, <1>5 DEF TimesInv
  <2>2. h.held.at \in 0 .. glanceNow /\ h.now \in 0 .. glanceNow /\ h.now >= 1
    BY <1>0, <1>3, <1>4, <1>6, <1>8, NoVisitIs DEF TimesInv, now
  <2>3. \A d \in Clients : /\ visit'[d].held.at \in 0 .. glanceNow
                           /\ visit'[d].now \in 0 .. glanceNow
                           /\ InFlight(d)' => visit'[d].now >= 1
    BY <1>0, <1>9, <2>2 DEF TimesInv, InFlight
  <2> QED BY <1>0, <1>1, <2>1, <2>3 DEF TimesInv
<1>12. AloneInv'
  <2> SUFFICES ASSUME NEW d \in Clients, visit'[d].alone
               PROVE  (\A e \in Clients \ {d} : ~InFlight(e)') /\ computing'.now <= visit'[d].now
    BY DEF AloneInv
  <2>1. visit[d].alone
    BY <1>8, <1>9
  <2>2. d = c
    BY <1>0, <1>3, <2>1 DEF AloneInv
  <2>3. computing.now <= now /\ \A e \in Clients \ {c} : ~InFlight(e)
    BY <1>0, <2>1, <2>2 DEF AloneInv, now
  <2>4. computing'.now <= now
    BY <1>1, <1>3, <1>5, <2>3
  <2> QED BY <1>8, <1>9, <2>2, <2>3, <2>4 DEF InFlight
<1>13. SettledInv'
  <2>1. (view.ok => view'.ok) /\ (h.at = "filter" => view'.ok)
    BY <1>1, <1>4, <1>6, <1>8
  <2>2. h.at \notin {"act", "note"} /\ h.since \subseteq settled
    BY <1>0, <1>6, <1>8 DEF SettledInv
  <2> QED BY <1>0, <1>1, <1>9, <2>1, <2>2 DEF SettledInv
<1>14. BootedInv'
  <2>1. h.held.shows \cap booted = {} /\ computing'.shows \cap booted = {}
    BY <1>0, <1>1, <1>4, <1>5, <1>6, <1>8, NoVisitIs DEF BootedInv
  <2> QED BY <1>0, <1>1, <1>4, <1>9, <2>1 DEF BootedInv
<1>15. \A d \in Clients : InFlight(d)' => InFlight(d) /\ visit'[d].now = visit[d].now
  BY <1>3, <1>8, <1>9 DEF InFlight, now
<1>16. ASSUME NEW t, NEW k, Older(t, k) PROVE Older(t, k)'
  BY <1>1, <1>15, <1>16 DEF Older
<1>17. ASSUME NEW k \in settled, Drawn(k)'
       PROVE  /\ acted[k] # 0 /\ Older(view.at, k)'
              /\ k \in computing'.shows => Older(computing.now, k)'
              /\ \A d \in Clients : visit'[d].at = "filter" => Older(visit[d].held.at, k)'
  <2>1. view'.ok /\ view' = view /\ (a = "filter" => r = view)
    BY <1>0, <1>1, <1>4, <1>6 DEF SettledInv
  <2>2. Drawn(k) /\ (k \in computing'.shows => computing' = computing)
    BY <1>1, <1>5, <1>17, <2>1 DEF Drawn
  <2>3. /\ acted[k] # 0 /\ Older(view.at, k)
        /\ k \in computing.shows => Older(computing.now, k)
        /\ \A d \in Clients : visit[d].at = "filter" => Older(visit[d].held.at, k)
    BY <1>0, <2>2 DEF DrawnInv
  <2>4. Older(view.at, k)'
    BY <1>16, <2>1, <2>3 DEF Older
  <2>5. k \in computing'.shows => Older(computing.now, k)'
    BY <1>16, <2>2, <2>3 DEF Older
  <2>6. ASSUME NEW d \in Clients, visit'[d].at = "filter" PROVE Older(visit[d].held.at, k)'
    <3>1. CASE d = c
      <4>1. visit'[d].held.at = view'.at
        BY <1>8, <1>9, <2>1, <2>6, <3>1
      <4> QED BY <2>4, <4>1 DEF Older
    <3>2. CASE d # c
      <4>1. visit'[d].held.at = visit[d].held.at /\ visit[d].at = "filter"
        BY <1>9, <2>6, <3>2
      <4>2. Older(visit[d].held.at, k)
        BY <2>3, <4>1
      <4> QED BY <1>1, <1>15, <4>1, <4>2 DEF Older
    <3> QED BY <3>1, <3>2
  <2> QED BY <2>3, <2>4, <2>5, <2>6
<1>18. DrawnInv'
  BY <1>1, <1>17 DEF DrawnInv
<1>19. HeldShowsInv'
  <2> SUFFICES ASSUME NEW d \in Clients, visit'[d].at = "filter", visit'[d].alone,
                      NEW k \in visit'[d].since, k \in visit'[d].held.shows
               PROVE  IsActedSince(k, visit[d].held.at)'
    BY DEF HeldShowsInv
  <2>1. d = c
    BY <1>0, <1>3, <1>8, <1>9 DEF AloneInv
  <2>2. k \in settled /\ h.at = "filter" /\ h.held = view'
    BY <1>0, <1>1, <1>6, <1>8, <1>9, <2>1 DEF SettledInv
  <2>3. Drawn(k)'
    BY <1>9, <2>1, <2>2 DEF Drawn
  <2>4. acted[k] # 0 /\ view'.at <= acted[k] /\ view'.at = visit'[d].held.at
    BY <1>1, <1>9, <1>17, <2>1, <2>2, <2>3 DEF Older
  <2>5. acted[k] \in Nat /\ view'.at \in Nat
    BY <1>0, <1>11, <2>2 DEF GlanceShape, SettledInv, FindingKeys, TimesInv
  <2> QED BY <1>1, <2>4, <2>5 DEF IsActedSince, Zero
<1> QED BY <1>10, <1>11, <1>12, <1>13, <1>14, <1>18, <1>19 DEF GlanceInv

\* A tip that a request alone acted on is settled: results asked for before it
\* are older than its action.
LEMMA NoteActedStep ==
  ASSUME GlanceInv, NEW c \in Clients, NoteActed(c)
  PROVE  GlanceInv'
PROOF
<1>0. GlanceShape /\ TimesInv /\ AloneInv /\ SettledInv /\ BootedInv /\ DrawnInv /\ HeldShowsInv
  BY DEF GlanceInv
<1>s. PICK s : s = settled'
  OBVIOUS
<1> DEFINE key == visit[c].key
           now == visit[c].now
           w == visit[c]
           a == "get"
           n == NoKey
           h == [w EXCEPT !.at = a, !.key = n, !.since = s]
<1>1. /\ visit[c].at = "note" /\ acted' = [acted EXCEPT ![key] = now]
      /\ view' = [view EXCEPT !.at = 0]
      /\ settled' = IF visit[c].alone THEN settled \cup ({key} \cap Tips) ELSE settled
      /\ visit' = [visit EXCEPT ![c].at = "get", ![c].key = NoKey, ![c].since = settled']
      /\ UNCHANGED <<computing, saved, booted, glanceNow, answered>>
  BY DEF NoteActed, worldState, Zero
<1>u. UNCHANGED <<computing, saved, booted, glanceNow, answered>>
  BY <1>1
<1>2. visit' = [visit EXCEPT ![c] = h]
  BY <1>0, <1>1, <1>s DEF GlanceShape
<1>3. /\ now \in 0 .. glanceNow /\ now >= 1 /\ InFlight(c) /\ key \in FindingKeys /\ view.ok
      /\ key \in answered
  BY <1>0, <1>1, NoVisitIs DEF TimesInv, InFlight, GlanceShape, SettledInv
<1>4. /\ view' = [ok |-> view'.ok, at |-> view'.at, shows |-> view'.shows,
                  fromSave |-> view'.fromSave]
      /\ view'.at = 0 /\ view'.ok = view.ok /\ view'.shows = view.shows
  BY <1>0, <1>1 DEF GlanceShape
<1>5. /\ acted' \in [FindingKeys -> Nat] /\ acted'[key] = now
      /\ \A k \in FindingKeys \ {key} : acted'[k] = acted[k]
  BY <1>0, <1>1, <1>3 DEF GlanceShape
<1>6. /\ settled \subseteq settled' /\ settled' \subseteq answered \cap Tips
      /\ \A k \in settled' : k \in settled \/ (k = key /\ visit[c].alone)
  BY <1>0, <1>1, <1>3 DEF SettledInv
<1>7. w = visit[c] /\ VisitShape(w) /\ h = [w EXCEPT !.at = a, !.key = n, !.since = s]
  BY <1>0 DEF GlanceShape
<1> HIDE DEF key, now, w, a, n, h
<1>8. /\ VisitShape(h) /\ h.at = "get" /\ h.now = now /\ h.key = NoKey
      /\ h.held = visit[c].held /\ h.alone = visit[c].alone /\ h.since = settled'
  <2>1. h = [at |-> a, now |-> w.now, key |-> n, held |-> w.held, alone |-> w.alone, since |-> s]
    <3> DEFINE f1 == w.at
               f2 == w.now
               f3 == w.key
               f4 == w.held
               f5 == w.alone
               f6 == w.since
    <3>1. w = [at |-> f1, now |-> f2, key |-> f3, held |-> f4, alone |-> f5, since |-> f6]
      BY <1>7 DEF VisitShape
    <3>2. h = [w EXCEPT !.at = a, !.key = n, !.since = s]
      BY <1>7
    <3> HIDE DEF f1, f2, f3, f4, f5, f6
    <3>3. h = [at |-> a, now |-> f2, key |-> n, held |-> f4, alone |-> f5, since |-> s]
      BY <3>1, <3>2
    <3> QED BY <3>3 DEF f2, f4, f5
  <2>2. /\ VisitShape(h) /\ h.at = a /\ h.now = w.now /\ h.key = n /\ h.held = w.held
        /\ h.alone = w.alone /\ h.since = s
    BY <2>1 DEF VisitShape
  <2> QED BY <1>7, <1>s, <2>2 DEF now, a, n
<1>9. /\ visit'[c] = h /\ visit' = [d \in Clients |-> visit'[d]]
      /\ \A d \in Clients \ {c} : visit'[d] = visit[d]
  BY <1>0, <1>2 DEF GlanceShape
<1>10. GlanceShape'
  BY <1>0, <1>1, <1>4, <1>5, <1>8, <1>9 DEF GlanceShape
<1>11. TimesInv'
  <2>1. \A d \in Clients : /\ visit'[d].held.at \in 0 .. glanceNow
                           /\ visit'[d].now \in 0 .. glanceNow
                           /\ InFlight(d)' => visit'[d].now >= 1
    BY <1>0, <1>3, <1>8, <1>9 DEF TimesInv, InFlight
  <2> QED BY <1>0, <1>u, <1>4, <2>1 DEF TimesInv
<1>12. AloneInv'
  <2> SUFFICES ASSUME NEW d \in Clients, visit'[d].alone
               PROVE  (\A e \in Clients \ {d} : ~InFlight(e)') /\ computing.now <= visit'[d].now
    BY <1>1 DEF AloneInv
  <2>1. visit[d].alone
    BY <1>8, <1>9
  <2>2. d = c
    BY <1>0, <1>3, <2>1 DEF AloneInv
  <2>3. computing.now <= now /\ \A e \in Clients \ {c} : ~InFlight(e)
    BY <1>0, <2>1, <2>2 DEF AloneInv, now
  <2> QED BY <1>8, <1>9, <2>2, <2>3 DEF InFlight
<1>13. SettledInv'
  <2>1. \A d \in Clients : visit'[d].since \subseteq settled'
    BY <1>0, <1>6, <1>8, <1>9 DEF SettledInv
  <2>2. \A d \in Clients : visit'[d].at = "note" => visit'[d].key \in answered
    BY <1>0, <1>8, <1>9 DEF SettledInv
  <2> QED BY <1>u, <1>3, <1>4, <1>6, <2>1, <2>2 DEF SettledInv
<1>14. BootedInv'
  BY <1>0, <1>u, <1>4, <1>8, <1>9 DEF BootedInv
<1>15. \A d \in Clients : InFlight(d)' => InFlight(d) /\ visit'[d].now = visit[d].now
  BY <1>3, <1>8, <1>9 DEF InFlight, now
<1>16. ASSUME NEW t, NEW k \in FindingKeys, Older(t, k)
       PROVE  t <= acted'[k] /\ \A d \in Clients : InFlight(d)' => t <= visit'[d].now
  <2>1. t <= now
    BY <1>3, <1>16 DEF Older, now
  <2> QED BY <1>5, <1>15, <1>16, <2>1 DEF Older
<1>17. ASSUME NEW k \in settled', Drawn(k)'
       PROVE  /\ acted'[k] # 0 /\ Older(view.at, k)'
              /\ k \in computing'.shows => Older(computing.now, k)'
              /\ \A d \in Clients : visit'[d].at = "filter" => Older(visit[d].held.at, k)'
  <2>0. k \in FindingKeys /\ acted'[k] \in Nat /\ \A d \in Clients : visit'[d].now \in Nat
    BY <1>5, <1>6, <1>11 DEF FindingKeys, TimesInv
  <2>1. Older(view.at, k)'
    BY <1>4, <2>0 DEF Older
  <2>2. CASE k \in settled
    <3>1. Drawn(k)
      BY <1>1, <1>4, <1>17 DEF Drawn
    <3>2. /\ acted[k] # 0 /\ (k \in computing.shows => Older(computing.now, k))
          /\ \A d \in Clients : visit[d].at = "filter" => Older(visit[d].held.at, k)
      BY <1>0, <2>2, <3>1 DEF DrawnInv
    <3>3. acted'[k] # 0
      BY <1>3, <1>5, <2>0, <3>2
    <3>4. k \in computing'.shows => Older(computing.now, k)'
      BY <1>1, <1>16, <2>0, <3>2 DEF Older
    <3>5. ASSUME NEW d \in Clients, visit'[d].at = "filter" PROVE Older(visit[d].held.at, k)'
      <4>1. visit'[d].held.at = visit[d].held.at /\ visit[d].at = "filter"
        BY <1>8, <1>9, <3>5
      <4>2. Older(visit[d].held.at, k)
        BY <3>2, <4>1
      <4> QED BY <1>16, <2>0, <4>1, <4>2 DEF Older
    <3> QED BY <2>1, <3>3, <3>4, <3>5
  <2>3. CASE k = key /\ visit[c].alone
    <3>1. acted'[k] = now /\ now # 0
      BY <1>3, <1>5, <2>3
    <3>2. computing.now <= now /\ \A d \in Clients \ {c} : ~InFlight(d)
      BY <1>0, <2>3 DEF AloneInv, now
    <3>3. \A d \in Clients : InFlight(d)' => d = c /\ visit'[d].now = now
      BY <1>8, <1>9, <1>15, <3>2
    <3>4. Older(computing.now, k)'
      BY <1>1, <3>1, <3>2, <3>3 DEF Older
    <3>5. \A d \in Clients : visit'[d].at # "filter"
      BY <1>8, <1>9, <3>2, NoVisitIs DEF InFlight
    <3> QED BY <2>1, <3>1, <3>4, <3>5
  <2> QED BY <1>6, <2>2, <2>3
<1>18. DrawnInv'
  BY <1>17 DEF DrawnInv
<1>19. HeldShowsInv'
  <2> SUFFICES ASSUME NEW d \in Clients, visit'[d].at = "filter", visit'[d].alone PROVE FALSE
    BY DEF HeldShowsInv
  <2>1. d # c /\ visit[d].alone
    BY <1>8, <1>9
  <2> QED BY <1>0, <1>3, <2>1 DEF AloneInv
<1> QED BY <1>10, <1>11, <1>12, <1>13, <1>14, <1>18, <1>19 DEF GlanceInv

\* The tip is answered, or the rule promoted.
LEMMA ActStep ==
  ASSUME GlanceInv, NEW c \in Clients, Act(c)
  PROVE  GlanceInv'
PROOF
<1>0. GlanceShape
  BY DEF GlanceInv
<1>1. /\ UNCHANGED <<view, computing, saved, booted, glanceNow, settled, acted>>
      /\ visit[c].at = "act" /\ answered' = answered \cup {visit[c].key} /\ To(c, "note")
  BY DEF Act, snapState
<1>2. acted' \in [FindingKeys -> Nat] /\ \A k \in settled : Drawn(k) => acted'[k] = acted[k]
  BY <1>0, <1>1 DEF GlanceShape
<1> QED BY <1>1, <1>2, PlacedStep

\* A restart forgets the requests, the snapshot and what was acted on; the rules
\* promoted so far are now known.
LEMMA GlanceRestartStep == GlanceInv /\ GlanceRestart => GlanceInv'
PROOF
<1> SUFFICES ASSUME GlanceInv, GlanceRestart PROVE GlanceInv'
  OBVIOUS
<1>0. TimesInv /\ BootedInv
  BY DEF GlanceInv
<1>1. /\ view' = NoView /\ computing' = NoRun /\ acted' = [k \in FindingKeys |-> 0]
      /\ visit' = [c \in Clients |-> NoVisit] /\ settled' = {}
      /\ UNCHANGED <<saved, answered, glanceNow>>
  BY DEF GlanceRestart, Zero
<1>2. \A c \in Clients : visit'[c] = NoVisit
  BY <1>1
<1>3. /\ NoView = [ok |-> NoView.ok, at |-> NoView.at, shows |-> NoView.shows,
                   fromSave |-> NoView.fromSave]
  BY DEF NoView
<1>4. GlanceShape'
  BY <1>1, <1>2, <1>3, NoVisitIs, NoRunIs DEF GlanceShape
<1>5. TimesInv'
  <2>1. /\ view'.at = 0 /\ computing'.now = 0
        /\ \A c \in Clients : visit'[c].held.at = 0 /\ visit'[c].now = 0
    BY <1>1, <1>2, NoVisitIs, NoRunIs
  <2>2. \A c \in Clients : ~InFlight(c)'
    BY <1>2 DEF InFlight
  <2> QED BY <1>0, <1>1, <2>1, <2>2 DEF TimesInv
<1>6. AloneInv' /\ SettledInv' /\ DrawnInv' /\ HeldShowsInv'
  BY <1>1, <1>2, NoVisitIs DEF AloneInv, SettledInv, DrawnInv, HeldShowsInv
<1>7. BootedInv'
  BY <1>0, <1>1, <1>2, NoVisitIs, NoRunIs DEF BootedInv
<1> QED BY <1>4, <1>5, <1>6, <1>7 DEF GlanceInv

\* Time passes, or nothing changes.
LEMMA GlanceTickStep ==
  ASSUME GlanceInv, UNCHANGED <<view, computing, saved, acted, answered, booted, visit, settled>>,
         glanceNow' \in {glanceNow, glanceNow + 1}
  PROVE  GlanceInv'
PROOF
<1>0. GlanceShape /\ TimesInv /\ AloneInv /\ SettledInv /\ BootedInv /\ DrawnInv /\ HeldShowsInv
  BY DEF GlanceInv
<1>1. GlanceShape'
  BY <1>0 DEF GlanceShape
<1>2. TimesInv'
  BY <1>0 DEF TimesInv, InFlight
<1>3. AloneInv' /\ SettledInv' /\ BootedInv'
  BY <1>0 DEF AloneInv, SettledInv, BootedInv, InFlight
<1>4. DrawnInv' /\ HeldShowsInv'
  BY <1>0 DEF DrawnInv, HeldShowsInv, Drawn, Older, InFlight, IsActedSince
<1> QED BY <1>1, <1>2, <1>3, <1>4 DEF GlanceInv

\* Every step preserves the invariant.
LEMMA GlanceInvStep == GlanceInv /\ [GlanceNext]_glanceVars => GlanceInv'
PROOF
<1> SUFFICES ASSUME GlanceInv, [GlanceNext]_glanceVars PROVE GlanceInv'
  OBVIOUS
<1>1. ASSUME NEW c \in Clients, Disconnect(c) \/ ActFails(c) PROVE GlanceInv'
  <2>1. /\ UNCHANGED <<view, computing, saved, booted, glanceNow, settled, answered, acted>>
        /\ visit[c].at \in {"waiting", "woken", "act"} /\ Leaves(c)
    BY <1>1 DEF Disconnect, ActFails, snapState, worldState
  <2>2. /\ acted' \in [FindingKeys -> Nat] /\ InFlight(c)
        /\ \A k \in settled : Drawn(k) => acted'[k] = acted[k]
    BY <2>1, NoVisitIs DEF GlanceInv, GlanceShape, InFlight
  <2> QED BY <2>1, <2>2, LeaveStep
<1>2. CASE GlanceTick \/ UNCHANGED glanceVars
  <2>1. /\ UNCHANGED <<view, computing, saved, acted, answered, booted, visit, settled>>
        /\ glanceNow' \in {glanceNow, glanceNow + 1}
    BY <1>2 DEF GlanceTick, glanceVars, snapState
  <2> QED BY <2>1, GlanceTickStep
<1> QED BY <1>1, <1>2, RequestStep, GetStep, WokenStep, WithoutActedStep, ActStep, NoteActedStep,
           ComputeStep, ComputeFailsStep, LandStep, GlanceRestartStep DEF GlanceNext

\* "A finding acted on since that computation is left out" (computeFindings): for
\* any number of requests in flight, findings, restarts and any freshness, a
\* request that overlaps no other is not shown a tip that such a request acted on
\* since the start, and no request is shown a rule promoted before the start.
THEOREM ActedStaysHidden == GlanceSpec => []ActedIsHidden
PROOF
<1>1. GlanceInv => ActedIsHidden
  <2> SUFFICES ASSUME GlanceInv, NEW c \in Clients, visit[c].at = "filter"
               PROVE  /\ visit[c].alone => ShownTo(c) \cap visit[c].since = {}
                      /\ ShownTo(c) \cap booted = {}
    BY DEF ActedIsHidden
  <2>1. visit[c].alone => ShownTo(c) \cap visit[c].since = {}
    BY DEF GlanceInv, HeldShowsInv, ShownTo
  <2>2. ShownTo(c) \cap booted = {}
    BY DEF GlanceInv, BootedInv, ShownTo
  <2> QED BY <2>1, <2>2
<1> QED BY GlanceInvInit, GlanceInvStep, <1>1, PTL DEF GlanceSpec

-----------------------------------------------------------------------------
(***************************************************************************)
(* HoursAreStretches of RuleHours, for a day of any number of minutes.     *)
(*                                                                         *)
(* A minute of the week is a day and a minute of that day, in one way      *)
(* (MinuteOf, DivUnique); counted from a window's start it falls on the    *)
(* day or, over midnight, on the next, of the week or of the week after    *)
(* (MinuteInto).  What Holds asks of a minute and what a stretch holds are *)
(* then the same in each case.                                             *)
(***************************************************************************)

\* The week's minutes; hours as parseHoursWindow takes them.
HoursInv == hours \in Hours /\ minute \in 0 .. DaysPerWeek * DayMinutes - 1

\* How long a window lasts.
LastsFor == IF hours.end > hours.start THEN hours.end - hours.start
            ELSE hours.end - hours.start + DayMinutes

\* What parseHoursWindow guarantees of a window, and how long it lasts.
LEMMA HoursFacts ==
  ASSUME HoursInv
  PROVE  /\ DayMinutes \in Nat \ {0}
         /\ hours.start \in 0 .. DayMinutes - 1 /\ hours.end \in 0 .. DayMinutes
         /\ hours.start # hours.end
         /\ Days \subseteq 0 .. 6
         /\ LastsFor \in 1 .. DayMinutes
         /\ \A d : Stretch(d) = {(d * DayMinutes + hours.start + k) % (DaysPerWeek * DayMinutes) :
                                   k \in 0 .. LastsFor - 1}
PROOF
<1>1. DayMinutes \in Nat \ {0} /\ hours \in HoursSpec /\ hours.start # hours.end
  BY HoursAssumption DEF HoursInv
<1>2. /\ hours.start \in 0 .. DayMinutes - 1 /\ hours.end \in 0 .. DayMinutes
      /\ hours.first \in 0 .. 6 /\ hours.last \in 0 .. 6
  BY <1>1 DEF HoursSpec
<1>3. Days \subseteq 0 .. 6
  <2>1. \A a \in 0 .. 6 : \A k \in Nat : (a + k) % 7 \in 0 .. 6
    OBVIOUS
  <2> DEFINE l == (hours.last - hours.first + 7) % 7
             f == hours.first
  <2>2. l \in Nat /\ f \in 0 .. 6
    BY <1>2
  <2>3. Days = {(f + k) % 7 : k \in 0 .. l}
    BY DEF Days, parseDays, DaysPerWeek
  <2> HIDE DEF l, f
  <2>4. \A k \in 0 .. l : (f + k) % 7 \in 0 .. 6
    BY <2>1, <2>2
  <2> QED BY <2>3, <2>4
<1>4. LastsFor \in 1 .. DayMinutes
  BY <1>1, <1>2 DEF LastsFor
<1>5. (IF Lasts = 0 THEN DayMinutes ELSE Lasts) = LastsFor
  <2> DEFINE D == DayMinutes
             x == hours.end - hours.start
  <2>0. D \in Nat \ {0} /\ x \in Int /\ x <= D /\ x > 0 - D /\ x # 0 /\ Lasts = (x + D) % D
    BY <1>1, <1>2 DEF Lasts
  <2>1. LastsFor = IF x > 0 THEN x ELSE x + D
    BY <1>2 DEF LastsFor
  <2> HIDE DEF D, x
  <2>2. CASE x > 0 /\ x < D
    <3>1. (x + D) % D = x
      <4>1. x + D \in Nat /\ x + D >= D /\ x + D < 2 * D
        BY <2>0, <2>2
      <4>2. \A t \in Nat : t >= D /\ t < 2 * D => t % D = t - D
        BY <2>0
      <4> QED BY <2>0, <4>1, <4>2
    <3> QED BY <2>0, <2>1, <2>2, <3>1
  <2>3. CASE x = D
    <3>1. (D + D) % D = 0
      BY <2>0
    <3> QED BY <2>0, <2>1, <2>3, <3>1 DEF D
  <2>4. CASE x < 0
    <3>1. (x + D) % D = x + D
      <4>1. x + D \in Nat /\ x + D < D
        BY <2>0, <2>4
      <4>2. \A t \in Nat : t < D => t % D = t
        BY <2>0
      <4> QED BY <4>1, <4>2
    <3> QED BY <2>0, <2>1, <2>4, <3>1
  <2> QED BY <2>0, <2>2, <2>3, <2>4
<1>6. \A d : Stretch(d) = {(d * DayMinutes + hours.start + k) % (DaysPerWeek * DayMinutes) :
                             k \in 0 .. LastsFor - 1}
  BY <1>5 DEF Stretch
<1> QED BY <1>1, <1>2, <1>3, <1>4, <1>6

\* A minute's day, and its minute of the day.
LEMMA MinuteOf ==
  ASSUME HoursInv
  PROVE  \E day \in 0 .. 6, min \in 0 .. DayMinutes - 1 :
           /\ day = minute \div DayMinutes /\ min = minute % DayMinutes
           /\ minute = day * DayMinutes + min
PROOF
<1> DEFINE D == DayMinutes
<1>1. D \in Nat \ {0} /\ minute \in Nat /\ minute < 7 * D
  BY HoursFacts DEF HoursInv, DaysPerWeek
<1>2. PICK day \in Nat, min \in 0 .. D - 1 :
        day = minute \div D /\ min = minute % D /\ minute = day * D + min
  BY <1>1, DivMod
<1> HIDE DEF D
<1>3. day \in 0 .. 6
  <2> SUFFICES ASSUME 6 < day PROVE FALSE
    BY <1>2
  <2>1. 6 * D + D <= day * D
    BY <1>1, <1>2, Apart
  <2>2. day * D \in Int
    BY <1>1, <1>2
  <2> QED BY <1>1, <1>2, <2>1, <2>2
<1> QED BY <1>2, <1>3 DEF D

\* The minute of the week that is k minutes into the window of day d.
LEMMA MinuteInto ==
  ASSUME NEW D \in Nat \ {0}, NEW d \in 0 .. 6, NEW j \in 0 .. 2 * D - 1
  PROVE  /\ j < D => (d * D + j) % (7 * D) = d * D + j
         /\ j >= D => (d * D + j) % (7 * D) = ((d + 1) % 7) * D + (j - D)
PROOF
<1> DEFINE w == 7 * D
           x == d * D
<1>0. w \in Nat \ {0} /\ x \in Nat
  <2>1. d * D \in Int /\ d * D >= 0
    OBVIOUS
  <2> QED BY <2>1
<1>1. x + D <= w
  <2>1. d \in Nat /\ 7 \in Nat /\ d < 7
    OBVIOUS
  <2> QED BY <2>1, Apart
<1>2. \A t \in Nat : t < w => t % w = t
  <2> HIDE DEF w
  <2> QED BY <1>0
<1>3. ASSUME j < D PROVE (x + j) % w = x + j
  <2> HIDE DEF w, x
  <2>1. x + j \in Nat /\ x + j < w
    BY <1>0, <1>1, <1>3
  <2> QED BY <1>2, <2>1
<1>4. ASSUME j >= D PROVE (x + j) % w = ((d + 1) % 7) * D + (j - D)
  <2>1. CASE d < 6
    <3>1. (d + 1) % 7 = d + 1 /\ (d + 1) * D = x + D
      BY <2>1
    <3>2. (d + 1) * D + D <= w
      <4>1. d + 1 \in Nat /\ 7 \in Nat /\ d + 1 < 7
        BY <2>1
      <4> QED BY <4>1, Apart
    <3> HIDE DEF w, x
    <3>3. x + j \in Nat /\ x + j < w
      BY <1>0, <3>1, <3>2
    <3>4. (x + j) % w = x + j
      BY <1>2, <3>3
    <3>5. ((d + 1) % 7) * D = x + D
      BY <3>1
    <3> QED BY <1>0, <1>4, <3>4, <3>5
  <2>2. CASE d = 6
    <3>1. (d + 1) % 7 = 0 /\ x + D = w
      BY <2>2
    <3>2. w >= D
      OBVIOUS
    <3> HIDE DEF w, x
    <3> DEFINE t == x + j
    <3>3. t \in Nat /\ t >= w /\ t < 2 * w
      BY <1>0, <1>4, <3>1, <3>2
    <3>4. t % w = t - w
      <4> HIDE DEF t
      <4> QED BY <1>0, <3>3
    <3>5. (x + j) % w = x + j - w
      BY <1>0, <3>4
    <3>6. ((d + 1) % 7) * D = 0
      BY <3>1
    <3> QED BY <1>0, <3>1, <3>5, <3>6
  <2> QED BY <2>1, <2>2
<1> QED BY <1>3, <1>4


\* A window holds when the day or the day before it is one it starts on.
LEMMA HoldsAt ==
  ASSUME HoursInv, NEW day \in 0 .. 6, NEW min \in 0 .. DayMinutes - 1,
         day = minute \div DayMinutes, min = minute % DayMinutes
  PROVE  Holds(minute) <=>
           IF hours.end > hours.start
           THEN day \in Days /\ min >= hours.start /\ min < hours.end
           ELSE (day \in Days /\ min >= hours.start) \/ ((day + 6) % 7 \in Days /\ min < hours.end)
PROOF
<1>1. /\ hours.start \in Int /\ hours.end \in Int /\ hours.start # hours.end
  BY HoursFacts
<1>2. hours.end >= hours.start <=> hours.end > hours.start
  BY <1>1
<1> QED BY <1>2 DEF Holds, DaysPerWeek

\* The minutes of a day's stretch, by day and minute of the day.
LEMMA StretchIs ==
  ASSUME HoursInv, NEW d \in 0 .. 6, NEW day \in 0 .. 6, NEW min \in 0 .. DayMinutes - 1,
         minute = day * DayMinutes + min
  PROVE  minute \in Stretch(d) <=>
           IF hours.end > hours.start
           THEN day = d /\ min >= hours.start /\ min < hours.end
           ELSE (day = d /\ min >= hours.start) \/ (day = (d + 1) % 7 /\ min < hours.end)
PROOF
<1> DEFINE D == DayMinutes
           s == hours.start
           e == hours.end
           L == LastsFor
<1>1. /\ D \in Nat \ {0} /\ s \in 0 .. D - 1 /\ e \in 0 .. D /\ s # e /\ L \in 1 .. D
      /\ Stretch(d) = {(d * D + s + k) % (7 * D) : k \in 0 .. L - 1}
  BY HoursFacts DEF DaysPerWeek
<1>2. L = IF e > s THEN e - s ELSE e - s + D
  BY DEF LastsFor
<1>3. min \in 0 .. D - 1 /\ minute = day * D + min
  OBVIOUS
<1> HIDE DEF D, s, e, L
<1>4. minute \in Stretch(d) <=> \E k \in 0 .. L - 1 : minute = (d * D + (s + k)) % (7 * D)
  <2>1. \A k \in 0 .. L - 1 : d * D + s + k = d * D + (s + k)
    BY <1>1
  <2> QED BY <1>1, <2>1
<1>5. ASSUME NEW k \in 0 .. L - 1
      PROVE  minute = (d * D + (s + k)) % (7 * D) <=>
               \/ s + k < D /\ day = d /\ min = s + k
               \/ s + k >= D /\ day = (d + 1) % 7 /\ min = s + k - D
  <2> DEFINE j == s + k
  <2>1. j \in 0 .. 2 * D - 1
    BY <1>1
  <2> HIDE DEF j
  <2>2. CASE j < D
    <3>1. (d * D + j) % (7 * D) = d * D + j
      BY <1>1, <2>1, <2>2, MinuteInto
    <3>2. j \in 0 .. D - 1 /\ d \in Nat /\ day \in Nat
      BY <1>1, <2>1, <2>2
    <3>3. day * D + min = d * D + j <=> day = d /\ min = j
      BY <1>1, <1>3, <3>2, DivUnique
    <3>4. ~(j >= D)
      BY <1>1, <2>1, <2>2
    <3> QED BY <1>3, <2>2, <3>1, <3>3, <3>4 DEF j
  <2>3. CASE j >= D
    <3> DEFINE y == (d + 1) % 7
               i == j - D
    <3>1. (d * D + j) % (7 * D) = y * D + i
      BY <1>1, <2>1, <2>3, MinuteInto
    <3>2. i \in 0 .. D - 1 /\ y \in Nat /\ day \in Nat
      BY <1>1, <2>1, <2>3
    <3>3. i = s + k - D /\ y = (d + 1) % 7
      BY <1>1 DEF j
    <3> HIDE DEF i, y
    <3>4. day * D + min = y * D + i <=> day = y /\ min = i
      BY <1>1, <1>3, <3>2, DivUnique
    <3>5. ~(j < D)
      BY <1>1, <2>1, <2>3
    <3> QED BY <1>3, <2>3, <3>1, <3>3, <3>4, <3>5 DEF j
  <2> QED BY <1>1, <2>1, <2>2, <2>3
<1>6. minute \in Stretch(d) <=>
        \E k \in 0 .. L - 1 : \/ s + k < D /\ day = d /\ min = s + k
                              \/ s + k >= D /\ day = (d + 1) % 7 /\ min = s + k - D
  BY <1>4, <1>5
<1> DEFINE y == (d + 1) % 7
           Into(k) == \/ s + k < D /\ day = d /\ min = s + k
                      \/ s + k >= D /\ day = y /\ min = s + k - D
<1> HIDE DEF y
<1>7. (\E k \in 0 .. L - 1 : Into(k)) <=>
        IF e > s THEN day = d /\ min >= s /\ min < e
        ELSE (day = d /\ min >= s) \/ (day = y /\ min < e)
  <2>1. CASE e > s
    <3>1. ASSUME NEW k \in 0 .. L - 1, Into(k) PROVE day = d /\ min >= s /\ min < e
      <4>1. k < e - s /\ k >= 0 /\ k \in Int /\ s + k < D
        BY <1>1, <1>2, <2>1
      <4>2. day = d /\ min = s + k
        BY <1>1, <3>1, <4>1
      <4> QED BY <1>1, <4>1, <4>2
    <3>2. ASSUME day = d, min >= s, min < e PROVE \E k \in 0 .. L - 1 : Into(k)
      <4>1. min - s \in 0 .. L - 1 /\ Into(min - s)
        BY <1>1, <1>2, <1>3, <2>1, <3>2
      <4> QED BY <4>1
    <3> QED BY <2>1, <3>1, <3>2
  <2>2. CASE ~(e > s)
    <3>1. ASSUME NEW k \in 0 .. L - 1, Into(k) PROVE (day = d /\ min >= s) \/ (day = y /\ min < e)
      <4>1. k < e - s + D /\ k >= 0 /\ k \in Int
        BY <1>1, <1>2, <2>2
      <4>2. CASE day = d /\ min = s + k
        BY <1>1, <4>1, <4>2
      <4>3. CASE day = y /\ min = s + k - D
        BY <1>1, <4>1, <4>3
      <4> QED BY <3>1, <4>2, <4>3
    <3>2. ASSUME day = d, min >= s PROVE \E k \in 0 .. L - 1 : Into(k)
      <4>1. min - s \in 0 .. L - 1 /\ Into(min - s)
        BY <1>1, <1>2, <1>3, <2>2, <3>2
      <4> QED BY <4>1
    <3>3. ASSUME day = y, min < e PROVE \E k \in 0 .. L - 1 : Into(k)
      <4>1. min + D - s \in 0 .. L - 1 /\ Into(min + D - s)
        BY <1>1, <1>2, <1>3, <2>2, <3>3
      <4> QED BY <4>1
    <3> QED BY <2>2, <3>1, <3>2, <3>3
  <2> QED BY <2>1, <2>2
<1> QED BY <1>6, <1>7 DEF y, s, e

\* The clock stays within the week.
LEMMA HoursInvStep == HoursInv /\ [Minute]_hoursVars => HoursInv'
PROOF
<1> SUFFICES ASSUME HoursInv, [Minute]_hoursVars PROVE HoursInv'
  OBVIOUS
<1> DEFINE w == DaysPerWeek * DayMinutes
<1>1. w \in Nat \ {0} /\ minute \in Nat
  BY HoursFacts DEF HoursInv, DaysPerWeek
<1>2. (minute + 1) % w \in 0 .. w - 1
  <2> HIDE DEF w
  <2> QED BY <1>1
<1> QED BY <1>2 DEF HoursInv, Minute, hoursVars

\* "'fri 22:00-06:00' runs from Friday night to Saturday morning": for a day of
\* any number of minutes and every window parseHoursWindow takes, Holds answers
\* for exactly the stretches that start on the chosen days.
THEOREM HoursHold == HoursSpecification => []HoursAreStretches
PROOF
<1>1. HoursInit => HoursInv
  <2> SUFFICES ASSUME HoursInit PROVE HoursInv
    OBVIOUS
  <2>1. DayMinutes \in Nat \ {0}
    BY HoursAssumption
  <2> QED BY <2>1 DEF HoursInit, HoursInv, DaysPerWeek
<1>2. HoursInv => HoursAreStretches
  <2> SUFFICES ASSUME HoursInv PROVE HoursAreStretches
    OBVIOUS
  <2>1. PICK day \in 0 .. 6, min \in 0 .. DayMinutes - 1 :
          /\ day = minute \div DayMinutes /\ min = minute % DayMinutes
          /\ minute = day * DayMinutes + min
    BY MinuteOf
  <2>2. Days \subseteq 0 .. 6
    BY HoursFacts
  <2>3. \A d \in 0 .. 6 : day = (d + 1) % 7 <=> d = (day + 6) % 7
    OBVIOUS
  <2>4. (day + 6) % 7 \in 0 .. 6
    OBVIOUS
  <2>5. minute \in UNION {Stretch(d) : d \in Days} <=> \E d \in Days : minute \in Stretch(d)
    OBVIOUS
  <2>6. CASE hours.end > hours.start
    <3>1. Holds(minute) <=> day \in Days /\ min >= hours.start /\ min < hours.end
      BY <2>1, <2>6, HoldsAt
    <3>2. \A d \in Days : minute \in Stretch(d) <=> day = d /\ min >= hours.start /\ min < hours.end
      BY <2>1, <2>2, <2>6, StretchIs
    <3> QED BY <2>5, <3>1, <3>2 DEF HoursAreStretches
  <2>7. CASE ~(hours.end > hours.start)
    <3> DEFINE y == (day + 6) % 7
    <3>1. Holds(minute) <=>
            (day \in Days /\ min >= hours.start) \/ (y \in Days /\ min < hours.end)
      BY <2>1, <2>7, HoldsAt
    <3>2. ASSUME NEW d \in Days
          PROVE  minute \in Stretch(d) <=>
                   (day = d /\ min >= hours.start) \/ (d = y /\ min < hours.end)
      <4>1. minute \in Stretch(d) <=>
              (day = d /\ min >= hours.start) \/ (day = (d + 1) % 7 /\ min < hours.end)
        BY <2>1, <2>2, <2>7, StretchIs
      <4>2. day = (d + 1) % 7 <=> d = y
        BY <2>2, <2>3
      <4> QED BY <4>1, <4>2
    <3> HIDE DEF y
    <3> QED BY <2>5, <3>1, <3>2 DEF HoursAreStretches
  <2> QED BY <2>6, <2>7
<1> QED BY HoursInvStep, <1>1, <1>2, PTL DEF HoursSpecification

-----------------------------------------------------------------------------
(***************************************************************************)
(* EvidenceIsPaired of Experiments, for any number of trials, pairs,       *)
(* executions and requests, several of one execution at a time included.   *)
(*                                                                         *)
(* The invariant numbers a trial's assignments: the n-th has the pair and  *)
(* the arm of the n-th turn (TurnsInv), and the one about to be appended   *)
(* those of the next (NextInv), as the lock admits no other assignment in  *)
(* between.  Starts and stops come in between and take no turn (QuietLog). *)
(***************************************************************************)

AssignedIn(t) == {i \in EventsOf(t) : trialLog[i].stage = "assigned"}

\* The arm of a trial's n-th assignment, counted from 0.
ArmOf(t, n) ==
  LET first == <<t.name, n \div 2 + 1>> \in VariantFirst
      isVariant == IF n % 2 = 0 THEN first ELSE ~first
  IN  IF isVariant THEN "variant" ELSE "baseline"

\* The assignments of a trial have the pairs and arms of their turns: f numbers
\* them.
Numbers(f, t, log, ids, n) ==
  /\ f \in [0 .. n - 1 -> ids]
  /\ \A a, b \in 0 .. n - 1 : f[a] = f[b] => a = b
  /\ \A i \in ids : \E a \in 0 .. n - 1 : f[a] = i
  /\ \A a \in 0 .. n - 1 : log[f[a]].pair = a \div 2 + 1 /\ log[f[a]].arm = ArmOf(t, a)

CallShape(c) == c = [at |-> c.at, time |-> c.time, event |-> c.event]

TrialShape ==
  /\ \E S : trialLog \in Seq(S)
  /\ assignCall = [r \in Requests |-> assignCall[r]]
  /\ \A r \in Requests : CallShape(assignCall[r])
  /\ arms = [e \in Executions |-> arms[e]]

\* Assignments are made one at a time, and as many as there are turns.
TurnsInv ==
  \A t \in Trials :
    /\ Assignments(t) <= 2 * t.pairs
    /\ \E f : Numbers(f, t, trialLog, AssignedIn(t), Assignments(t))

\* The event about to be appended is the next turn of its trial, for an
\* execution that has none: the lock keeps it so, also against its execution's
\* other requests.
NextInv ==
  \A r \in Requests : assignCall[r].at = "append" =>
    /\ locked /\ \A d \in Requests : assignCall[d].at = "append" => d = r
    /\ Own(ExecutionOf[r]) = {}
    /\ LET event == assignCall[r].event
       IN  /\ event.stage = "assigned" /\ event.execution = ExecutionOf[r]
           /\ \E t \in Trials : /\ event.trial = t.name /\ Assignments(t) < 2 * t.pairs
                                /\ event.pair = Assignments(t) \div 2 + 1
                                /\ event.arm = ArmOf(t, Assignments(t))

\* An execution is assigned once, and is given that.
OnceInv ==
  \A e \in Executions :
    /\ \A i, j \in Own(e) : i = j
    /\ arms[e] \subseteq {AssignmentOf(trialLog[i]) : i \in Own(e)}

TrialsInv == TrialShape /\ TurnsInv /\ NextInv /\ OnceInv

-----------------------------------------------------------------------------

\* A trial's assignments are some of the ledger's events.
LEMMA AssignedFinite ==
  ASSUME TrialShape, NEW t
  PROVE  /\ IsFiniteSet(AssignedIn(t)) /\ Assignments(t) = Cardinality(AssignedIn(t))
         /\ Assignments(t) \in Nat /\ AssignedIn(t) \subseteq DOMAIN trialLog
         /\ DOMAIN trialLog = 1 .. Len(trialLog) /\ Len(trialLog) \in Nat
PROOF
<1>1. DOMAIN trialLog = 1 .. Len(trialLog) /\ Len(trialLog) \in Nat
  BY DEF TrialShape
<1>2. AssignedIn(t) \subseteq DOMAIN trialLog
  BY DEF AssignedIn, EventsOf
<1>3. IsFiniteSet(1 .. Len(trialLog))
  BY <1>1, FS_Interval
<1>4. IsFiniteSet(AssignedIn(t))
  BY <1>1, <1>2, <1>3, FS_Subset
<1>5. Assignments(t) = Cardinality(AssignedIn(t))
  BY DEF Assignments, AssignedIn
<1> QED BY <1>1, <1>2, <1>4, <1>5, FS_CardinalityType

\* The ledger keeps what it says of assignments.
QuietLog ==
  /\ \E S : trialLog' \in Seq(S)
  /\ \A t \in Trials : AssignedIn(t)' = AssignedIn(t)
  /\ \A e \in Executions : Own(e)' = Own(e)
  /\ \A i \in DOMAIN trialLog : trialLog'[i] = trialLog[i]

\* What an append does to the ledger.
LEMMA LogAppended ==
  ASSUME TrialShape, NEW ev, trialLog' = Append(trialLog, ev)
  PROVE  LET n == Len(trialLog) + 1 IN
         /\ \E S : trialLog' \in Seq(S)
         /\ DOMAIN trialLog' = DOMAIN trialLog \cup {n} /\ n \notin DOMAIN trialLog
         /\ trialLog'[n] = ev /\ \A i \in DOMAIN trialLog : trialLog'[i] = trialLog[i]
PROOF
<1> DEFINE n == Len(trialLog) + 1
<1>1. PICK S : trialLog \in Seq(S)
  BY DEF TrialShape
<1>2. trialLog \in Seq(S \cup {ev})
  BY <1>1
<1>3. trialLog' \in Seq(S \cup {ev})
  BY <1>2
<1>4. /\ DOMAIN trialLog' = DOMAIN trialLog \cup {n} /\ n \notin DOMAIN trialLog
      /\ trialLog'[n] = ev /\ \A i \in DOMAIN trialLog : trialLog'[i] = trialLog[i]
  BY <1>2
<1> QED BY <1>3, <1>4

\* An append that assigns nothing leaves it so.
LEMMA QuietAppend ==
  ASSUME TrialShape, NEW ev, ev.stage # "assigned",
         trialLog' = trialLog \/ trialLog' = Append(trialLog, ev)
  PROVE  QuietLog
PROOF
<1>1. CASE trialLog' = trialLog
  <2>1. \A t \in Trials : AssignedIn(t)' = AssignedIn(t)
    BY <1>1 DEF AssignedIn, EventsOf
  <2>2. \A e \in Executions : Own(e)' = Own(e)
    BY <1>1 DEF Own
  <2> QED BY <1>1, <2>1, <2>2 DEF QuietLog, TrialShape
<1>2. CASE trialLog' = Append(trialLog, ev)
  <2> DEFINE n == Len(trialLog) + 1
  <2>1. /\ \E S : trialLog' \in Seq(S)
        /\ DOMAIN trialLog' = DOMAIN trialLog \cup {n} /\ n \notin DOMAIN trialLog
        /\ trialLog'[n] = ev /\ \A i \in DOMAIN trialLog : trialLog'[i] = trialLog[i]
    BY <1>2, LogAppended
  <2> HIDE DEF n
  <2>2. \A t \in Trials : AssignedIn(t)' = AssignedIn(t)
    BY <2>1 DEF AssignedIn, EventsOf
  <2>3. \A e \in Executions : Own(e)' = Own(e)
    BY <2>1 DEF Own
  <2> QED BY <2>1, <2>2, <2>3 DEF QuietLog
<1> QED BY <1>1, <1>2

\* A trial keeps the turns of its assignments.
LEMMA TurnsKept ==
  ASSUME TrialShape, NEW t \in Trials, AssignedIn(t)' = AssignedIn(t),
         \A i \in DOMAIN trialLog : trialLog'[i] = trialLog[i],
         \E f : Numbers(f, t, trialLog, AssignedIn(t), Assignments(t))
  PROVE  /\ Assignments(t)' = Assignments(t)
         /\ \E f : Numbers(f, t, trialLog', AssignedIn(t)', Assignments(t)')
PROOF
<1>1. Assignments(t)' = Assignments(t)
  BY DEF Assignments, AssignedIn
<1>2. PICK f : Numbers(f, t, trialLog, AssignedIn(t), Assignments(t))
  OBVIOUS
<1>3. AssignedIn(t) \subseteq DOMAIN trialLog /\ Assignments(t) \in Nat
  BY AssignedFinite
<1> DEFINE n == Assignments(t)
           ids == AssignedIn(t)
<1>4. Numbers(f, t, trialLog', ids, n)
  <2>1. \A a \in 0 .. n - 1 : f[a] \in DOMAIN trialLog
    BY <1>2, <1>3 DEF Numbers
  <2> HIDE DEF n, ids
  <2> QED BY <1>2, <2>1 DEF Numbers, n, ids
<1> QED BY <1>1, <1>4

\* A step that assigns nothing.
LEMMA CallStep ==
  ASSUME TrialsInv, QuietLog,
         assignCall' = [d \in Requests |-> assignCall'[d]],
         \A d \in Requests : CallShape(assignCall'[d]),
         \A d \in Requests : assignCall'[d].at = "append" =>
                                 assignCall'[d] = assignCall[d] /\ locked',
         arms' = [d \in Executions |-> arms'[d]],
         \A d \in Executions : arms'[d] \subseteq {AssignmentOf(trialLog[i]) : i \in Own(d)}
  PROVE  TrialsInv'
PROOF
<1>0. TrialShape /\ TurnsInv /\ NextInv /\ OnceInv
  BY DEF TrialsInv
<1>1. TrialShape'
  BY DEF TrialShape, QuietLog
<1>2. ASSUME NEW t \in Trials
      PROVE  /\ Assignments(t)' = Assignments(t)
             /\ \E f : Numbers(f, t, trialLog', AssignedIn(t)', Assignments(t)')
  <2>1. AssignedIn(t)' = AssignedIn(t) /\ \A i \in DOMAIN trialLog : trialLog'[i] = trialLog[i]
    BY DEF QuietLog
  <2>2. \E f : Numbers(f, t, trialLog, AssignedIn(t), Assignments(t))
    BY <1>0 DEF TurnsInv
  <2> QED BY <1>0, <2>1, <2>2, TurnsKept
<1>3. TurnsInv'
  BY <1>0, <1>2 DEF TurnsInv
<1>4. NextInv'
  <2> SUFFICES ASSUME NEW r \in Requests, assignCall'[r].at = "append"
               PROVE  /\ locked' /\ \A d \in Requests : assignCall'[d].at = "append" => d = r
                      /\ Own(ExecutionOf[r])' = {}
                      /\ LET event == assignCall'[r].event
                         IN  /\ event.stage = "assigned" /\ event.execution = ExecutionOf[r]
                             /\ \E t \in Trials : /\ event.trial = t.name
                                                  /\ Assignments(t)' < 2 * t.pairs
                                                  /\ event.pair = Assignments(t)' \div 2 + 1
                                                  /\ event.arm = ArmOf(t, Assignments(t)')
    BY DEF NextInv
  <2>1. /\ assignCall'[r] = assignCall[r] /\ locked'
        /\ Own(ExecutionOf[r])' = Own(ExecutionOf[r])
    BY DEF QuietLog, Executions
  <2>2. \A d \in Requests : assignCall'[d].at = "append" => d = r
    BY <1>0, <2>1 DEF NextInv
  <2>3. LET event == assignCall[r].event
        IN  /\ event.stage = "assigned" /\ event.execution = ExecutionOf[r]
            /\ Own(ExecutionOf[r]) = {}
            /\ \E t \in Trials : /\ event.trial = t.name /\ Assignments(t) < 2 * t.pairs
                                 /\ event.pair = Assignments(t) \div 2 + 1
                                 /\ event.arm = ArmOf(t, Assignments(t))
    BY <1>0, <2>1 DEF NextInv
  <2> QED BY <1>2, <2>1, <2>2, <2>3
<1>5. OnceInv'
  <2>1. \A e \in Executions : Own(e)' = Own(e) /\ Own(e) \subseteq DOMAIN trialLog
    BY DEF QuietLog, Own
  <2>2. \A e \in Executions : {AssignmentOf(trialLog'[i]) : i \in Own(e)} =
                                {AssignmentOf(trialLog[i]) : i \in Own(e)}
    BY <2>1 DEF QuietLog
  <2> QED BY <1>0, <2>1, <2>2 DEF OnceInv
<1> QED BY <1>1, <1>3, <1>4, <1>5 DEF TrialsInv

\* The ledger is empty.
LEMMA TrialsInvInit == TrialsInit => TrialsInv
PROOF
<1> SUFFICES ASSUME TrialsInit PROVE TrialsInv
  OBVIOUS
<1>1. /\ trialLog = << >> /\ assignCall = [r \in Requests |-> NoAssign]
      /\ arms = [e \in Executions |-> {}]
  BY DEF TrialsInit
<1>2. /\ CallShape(NoAssign) /\ NoAssign.at = "idle"
  BY DEF CallShape, NoAssign
<1>3. TrialShape
  <2>1. << >> \in Seq({})
    OBVIOUS
  <2> QED BY <1>1, <1>2, <2>1 DEF TrialShape
<1>4. \A t : AssignedIn(t) = {} /\ Assignments(t) = 0
  BY <1>1, <1>3, AssignedFinite, FS_EmptySet DEF AssignedIn, EventsOf
<1>5. TurnsInv
  <2> SUFFICES ASSUME NEW t \in Trials
               PROVE  /\ Assignments(t) <= 2 * t.pairs
                      /\ \E f : Numbers(f, t, trialLog, AssignedIn(t), Assignments(t))
    BY DEF TurnsInv
  <2>1. Assignments(t) <= 2 * t.pairs
    BY <1>4, TrialsAssumption
  <2> DEFINE f == [a \in 0 .. 0 - 1 |-> a]
  <2>2. f \in [0 .. 0 - 1 -> {}]
    OBVIOUS
  <2> HIDE DEF f
  <2>3. Numbers(f, t, trialLog, {}, 0)
    BY <2>2 DEF Numbers
  <2> QED BY <1>4, <2>1, <2>3
<1>6. NextInv
  BY <1>1, <1>2 DEF NextInv
<1>7. OnceInv
  BY <1>1 DEF OnceInv, Own
<1> QED BY <1>3, <1>5, <1>6, <1>7 DEF TrialsInv

\* Start and Stop append events that assign nothing.
LEMMA StageOf ==
  ASSUME NEW n, NEW s, NEW a
  PROVE  [NoEvent EXCEPT !.trial = n, !.stage = s, !.at = a].stage = s
BY DEF NoEvent

\* So do the steps of Start and Stop.
LEMMA OperatorStep ==
  ASSUME TrialsInv, NEW t, StartTrial(t) \/ StopTrial(t) \/ AppendStop(t)
  PROVE  TrialsInv'
PROOF
<1>0. TrialShape /\ NextInv /\ OnceInv
  BY DEF TrialsInv
<1>1. UNCHANGED <<assignCall, locked, arms>>
  BY DEF StartTrial, StopTrial, AppendStop
<1>2. PICK ev : ev.stage # "assigned" /\ (trialLog' = trialLog \/ trialLog' = Append(trialLog, ev))
  <2>1. CASE StartTrial(t)
    <3> DEFINE ev == [NoEvent EXCEPT !.trial = t.name, !.stage = "started", !.at = trialNow]
    <3>1. trialLog' = Append(trialLog, ev) /\ ev.stage = "started"
      BY <2>1, StageOf DEF StartTrial
    <3> HIDE DEF ev
    <3> QED BY <3>1
  <2>2. CASE StopTrial(t) \/ AppendStop(t)
    <3> DEFINE ev == [NoEvent EXCEPT !.trial = t.name, !.stage = "stopped", !.at = stopCall[t]]
    <3>1. (trialLog' = trialLog \/ trialLog' = Append(trialLog, ev)) /\ ev.stage = "stopped"
      BY <2>2, StageOf DEF StopTrial, AppendStop
    <3> HIDE DEF ev
    <3> QED BY <3>1
  <2> QED BY <2>1, <2>2
<1>3. QuietLog
  BY <1>0, <1>2, QuietAppend
<1> QED BY <1>0, <1>1, <1>3, CallStep DEF TrialShape, NextInv, OnceInv

\* The request is given the arm its execution has.
GivenAgain(r) == Own(ExecutionOf[r]) # {} /\ Gives(r, trialLog[Max(Own(ExecutionOf[r]))])

\* A step of a request's Assign that appends nothing and is about to append
\* nothing.
LEMMA ReturnStep ==
  ASSUME TrialsInv, trialLog' = trialLog, NEW r \in Requests, NEW c, CallShape(c),
         c.at # "append", assignCall' = [assignCall EXCEPT ![r] = c],
         assignCall[r].at = "append" \/ locked' = locked,
         arms' = arms \/ GivenAgain(r)
  PROVE  TrialsInv'
PROOF
<1>0. TrialShape /\ NextInv /\ OnceInv
  BY DEF TrialsInv
<1>1. QuietLog
  <2>1. NoEvent.stage # "assigned"
    BY DEF NoEvent
  <2> QED BY <1>0, <2>1, QuietAppend
<1>2. /\ assignCall' = [d \in Requests |-> assignCall'[d]] /\ assignCall'[r] = c
      /\ \A d \in Requests \ {r} : assignCall'[d] = assignCall[d]
  BY <1>0 DEF TrialShape
<1>3. \A d \in Requests : CallShape(assignCall'[d])
  BY <1>0, <1>2 DEF TrialShape
<1>4. \A d \in Requests : assignCall'[d].at = "append" =>
                              assignCall'[d] = assignCall[d] /\ locked'
  BY <1>0, <1>2 DEF NextInv
<1>5. /\ arms' = [d \in Executions |-> arms'[d]]
      /\ \A d \in Executions : arms'[d] \subseteq {AssignmentOf(trialLog[i]) : i \in Own(d)}
  <2>1. CASE arms' = arms
    BY <1>0, <2>1 DEF TrialShape, OnceInv
  <2>2. CASE GivenAgain(r)
    <3> DEFINE e == ExecutionOf[r]
    <3>4. e \in Executions
      BY DEF Executions
    <3>0. /\ arms' = [arms EXCEPT ![e] = @ \cup {AssignmentOf(trialLog[Max(Own(e))])}]
          /\ Own(e) # {}
      BY <2>2 DEF GivenAgain, Gives
    <3> HIDE DEF e
    <3>1. PICK i \in Own(e) : Own(e) = {i} /\ i \in Int
      BY <1>0, <3>4, <3>0 DEF OnceInv, Own, TrialShape
    <3>2. Max(Own(e)) = i
      <4>1. Max({i}) = i
        BY <3>1 DEF Max
      <4> QED BY <3>1, <4>1
    <3>3. /\ arms' = [d \in Executions |-> arms'[d]]
          /\ arms'[e] = arms[e] \cup {AssignmentOf(trialLog[i])}
          /\ \A d \in Executions \ {e} : arms'[d] = arms[d]
      BY <1>0, <3>4, <3>0, <3>2 DEF TrialShape
    <3> QED BY <1>0, <3>4, <3>1, <3>3 DEF OnceInv
  <2> QED BY <2>1, <2>2
<1> QED BY <1>1, <1>2, <1>3, <1>4, <1>5, CallStep

\* The fields of a call, two of them set.
LEMMA CallTimed ==
  ASSUME NEW c, CallShape(c), NEW a, NEW x
  PROVE  [c EXCEPT !.at = a, !.time = x] = [at |-> a, time |-> x, event |-> c.event]
PROOF
<1> DEFINE f1 == c.at
           f2 == c.time
           f3 == c.event
           g == [c EXCEPT !.at = a, !.time = x]
<1>1. c = [at |-> f1, time |-> f2, event |-> f3] /\ g = [c EXCEPT !.at = a, !.time = x]
  BY DEF CallShape
<1>2. f3 = c.event
  OBVIOUS
<1> HIDE DEF f1, f2, f3, g
<1>3. g = [at |-> a, time |-> x, event |-> f3]
  BY <1>1
<1> QED BY <1>2, <1>3 DEF g

\* The same with the event.
LEMMA CallChosen ==
  ASSUME NEW c, CallShape(c), NEW a, NEW x
  PROVE  [c EXCEPT !.at = a, !.event = x] = [at |-> a, time |-> c.time, event |-> x]
PROOF
<1> DEFINE f1 == c.at
           f2 == c.time
           f3 == c.event
           g == [c EXCEPT !.at = a, !.event = x]
<1>1. c = [at |-> f1, time |-> f2, event |-> f3] /\ g = [c EXCEPT !.at = a, !.event = x]
  BY DEF CallShape
<1>2. f2 = c.time
  OBVIOUS
<1> HIDE DEF f1, f2, f3, g
<1>3. g = [at |-> a, time |-> f2, event |-> x]
  BY <1>1
<1> QED BY <1>2, <1>3 DEF g

\* A request calls Assign.
LEMMA RouteStep ==
  ASSUME TrialsInv, NEW r \in Requests, RouteRequest(r)
  PROVE  TrialsInv'
PROOF
<1> DEFINE w == assignCall[r]
           a == "called"
           x == trialNow
           c == [w EXCEPT !.at = a, !.time = x]
<1>0. TrialShape
  BY DEF TrialsInv
<1>1. /\ UNCHANGED <<trialLog, locked, arms>>
      /\ assignCall' = [assignCall EXCEPT ![r] = c]
  BY <1>0 DEF RouteRequest, TrialShape
<1>2. CallShape(w) /\ c = [w EXCEPT !.at = a, !.time = x] /\ a = "called"
  BY <1>0 DEF TrialShape
<1> HIDE DEF w, a, x, c
<1>3. c = [at |-> a, time |-> x, event |-> w.event]
  BY <1>2, CallTimed
<1>4. CallShape(c) /\ c.at # "append"
  BY <1>2, <1>3 DEF CallShape
<1> QED BY <1>1, <1>4, ReturnStep

\* Under the lock the next turn of a trial is taken.
LEMMA ChooseStep ==
  ASSUME TrialsInv, NEW r \in Requests, Choose(r), ~locked, trialLog' = trialLog
  PROVE  TrialsInv'
PROOF
<1>0. TrialShape /\ TurnsInv /\ NextInv /\ OnceInv
  BY DEF TrialsInv
<1>1. PICK t \in Eligible(assignCall[r].time) :
        assignCall' = [assignCall EXCEPT ![r].at = "append", ![r].event = NextEvent(t, r)]
  BY DEF Choose
<1> DEFINE w == assignCall[r]
           a == "append"
           ev == NextEvent(t, r)
           c == [w EXCEPT !.at = a, !.event = ev]
<1>2. locked' = TRUE /\ arms' = arms /\ Own(ExecutionOf[r]) = {}
  BY DEF Choose
<1>3. t \in Trials /\ Assignments(t) < 2 * t.pairs
  <2>1. t \in Trials /\ Assignments(t) < t.pairs * 2
    BY DEF Eligible, IsActive
  <2>2. t.pairs \in Nat
    BY <2>1, TrialsAssumption
  <2> QED BY <2>1, <2>2
<1>4. /\ ev.stage = "assigned" /\ ev.execution = ExecutionOf[r] /\ ev.trial = t.name
      /\ ev.pair = Assignments(t) \div 2 + 1 /\ ev.arm = ArmOf(t, Assignments(t))
  BY DEF NextEvent, ArmOf
<1>5. assignCall' = [assignCall EXCEPT ![r] = c]
  <2> HIDE DEF ev
  <2> QED BY <1>0, <1>1 DEF TrialShape, ev
<1>6. CallShape(w) /\ c = [w EXCEPT !.at = a, !.event = ev] /\ a = "append"
  <2> HIDE DEF ev
  <2> QED BY <1>0 DEF TrialShape
<1> HIDE DEF w, a, ev, c
<1>7. CallShape(c) /\ c.at = "append" /\ c.event = ev
  <2>1. c = [at |-> a, time |-> w.time, event |-> ev]
    BY <1>6, CallChosen
  <2> QED BY <1>6, <2>1 DEF CallShape
<1>8. /\ assignCall' = [d \in Requests |-> assignCall'[d]] /\ assignCall'[r] = c
      /\ \A d \in Requests \ {r} : assignCall'[d] = assignCall[d]
  BY <1>0, <1>5 DEF TrialShape
<1>9. /\ \A u : AssignedIn(u)' = AssignedIn(u) /\ Assignments(u)' = Assignments(u)
      /\ \A d : Own(d)' = Own(d)
  BY DEF AssignedIn, EventsOf, Assignments, Own
<1>10. TrialShape'
  BY <1>0, <1>2, <1>7, <1>8 DEF TrialShape
<1>11. TurnsInv'
  BY <1>0, <1>9 DEF TurnsInv
<1>12. NextInv'
  <2>1. \A d \in Requests : assignCall'[d].at = "append" => d = r
    BY <1>0, <1>8 DEF NextInv
  <2>2. \E u \in Trials : /\ ev.trial = u.name /\ Assignments(u)' < 2 * u.pairs
                          /\ ev.pair = Assignments(u)' \div 2 + 1
                          /\ ev.arm = ArmOf(u, Assignments(u)')
    BY <1>3, <1>4, <1>9
  <2>3. Own(ExecutionOf[r])' = {} /\ assignCall'[r].event = ev
    BY <1>2, <1>7, <1>8, <1>9
  <2> QED BY <1>2, <1>4, <2>1, <2>2, <2>3 DEF NextInv
<1>13. OnceInv'
  BY <1>0, <1>2, <1>9 DEF OnceInv
<1> QED BY <1>10, <1>11, <1>12, <1>13 DEF TrialsInv

\* One more turn is numbered.
LEMMA NumbersGrow ==
  ASSUME NEW t, NEW log, NEW lag, NEW ids, NEW n \in Nat, NEW f, Numbers(f, t, log, ids, n),
         NEW x, x \notin ids, \A i \in ids : lag[i] = log[i],
         lag[x].pair = n \div 2 + 1, lag[x].arm = ArmOf(t, n)
  PROVE  \E g : Numbers(g, t, lag, ids \cup {x}, n + 1)
PROOF
<1> DEFINE g == [a \in 0 .. n |-> IF a = n THEN x ELSE f[a]]
<1>1. \A a \in 0 .. n : a = n \/ a \in 0 .. n - 1
  OBVIOUS
<1>2. /\ \A a \in 0 .. n - 1 : g[a] = f[a] /\ f[a] \in ids /\ a \in 0 .. n
      /\ g[n] = x /\ n \in 0 .. n
  BY DEF Numbers
<1>0. g = [a \in 0 .. n |-> g[a]] /\ n + 1 - 1 = n
  OBVIOUS
<1> HIDE DEF g
<1>3. g \in [0 .. n -> ids \cup {x}]
  <2>1. \A a \in 0 .. n : g[a] \in ids \cup {x}
    BY <1>1, <1>2
  <2> QED BY <1>0, <2>1
<1>4. ASSUME NEW a \in 0 .. n, NEW b \in 0 .. n, g[a] = g[b] PROVE a = b
  <2>1. CASE a = n /\ b = n
    BY <2>1
  <2>2. CASE a \in 0 .. n - 1 /\ b \in 0 .. n - 1
    BY <1>2, <1>4, <2>2 DEF Numbers
  <2>3. CASE a = n /\ b \in 0 .. n - 1
    BY <1>2, <1>4, <2>3
  <2>4. CASE a \in 0 .. n - 1 /\ b = n
    BY <1>2, <1>4, <2>4
  <2> QED BY <1>1, <2>1, <2>2, <2>3, <2>4
<1>5. \A i \in ids \cup {x} : \E a \in 0 .. n : g[a] = i
  BY <1>2 DEF Numbers
<1>6. \A a \in 0 .. n : lag[g[a]].pair = a \div 2 + 1 /\ lag[g[a]].arm = ArmOf(t, a)
  <2> SUFFICES ASSUME NEW a \in 0 .. n
               PROVE  lag[g[a]].pair = a \div 2 + 1 /\ lag[g[a]].arm = ArmOf(t, a)
    OBVIOUS
  <2>1. CASE a = n
    BY <1>2, <2>1
  <2>2. CASE a \in 0 .. n - 1
    <3>1. g[a] = f[a] /\ lag[f[a]] = log[f[a]]
      BY <1>2, <2>2
    <3>2. log[f[a]].pair = a \div 2 + 1 /\ log[f[a]].arm = ArmOf(t, a)
      BY <2>2 DEF Numbers
    <3> QED BY <3>1, <3>2
  <2> QED BY <1>1, <2>1, <2>2
<1>7. Numbers(g, t, lag, ids \cup {x}, n + 1)
  BY <1>0, <1>3, <1>4, <1>5, <1>6 DEF Numbers
<1> QED BY <1>7

\* The turn taken is appended and given, or the append fails.
LEMMA AppendAssignedStep ==
  ASSUME TrialsInv, NEW r \in Requests, AppendAssigned(r)
  PROVE  TrialsInv'
PROOF
<1>0. TrialShape /\ TurnsInv /\ NextInv /\ OnceInv
  BY DEF TrialsInv
<1> DEFINE e  == ExecutionOf[r]
           ev == assignCall[r].event
           n  == Len(trialLog) + 1
<1>1. /\ assignCall[r].at = "append" /\ locked' = FALSE
      /\ assignCall' = [assignCall EXCEPT ![r] = NoAssign]
      /\ \/ trialLog' = Append(trialLog, ev)
            /\ arms' = [arms EXCEPT ![e] = @ \cup {AssignmentOf(ev)}]
         \/ UNCHANGED <<trialLog, arms>>
  BY DEF AppendAssigned, Returns, Gives
<1>5. e \in Executions
  BY DEF Executions
<1>2. CallShape(NoAssign) /\ NoAssign.at = "idle"
  BY DEF CallShape, NoAssign
<1>3. CASE UNCHANGED <<trialLog, arms>>
  BY <1>1, <1>2, <1>3, ReturnStep
<1>4. CASE trialLog' = Append(trialLog, ev) /\ arms' = [arms EXCEPT ![e] = @ \cup {AssignmentOf(ev)}]
  <2>1. /\ ev.stage = "assigned" /\ ev.execution = e /\ Own(e) = {}
        /\ \A d \in Requests : assignCall[d].at = "append" => d = r
    BY <1>0, <1>1 DEF NextInv
  <2>2. PICK t \in Trials : /\ ev.trial = t.name /\ Assignments(t) < 2 * t.pairs
                            /\ ev.pair = Assignments(t) \div 2 + 1
                            /\ ev.arm = ArmOf(t, Assignments(t))
    BY <1>0, <1>1 DEF NextInv
  <2> HIDE DEF ev, e
  <2>3. /\ \E S : trialLog' \in Seq(S)
        /\ DOMAIN trialLog' = DOMAIN trialLog \cup {n} /\ n \notin DOMAIN trialLog
        /\ trialLog'[n] = ev /\ \A i \in DOMAIN trialLog : trialLog'[i] = trialLog[i]
    BY <1>0, <1>4, LogAppended
  <2> HIDE DEF n
  <2>4. /\ assignCall' = [d \in Requests |-> assignCall'[d]] /\ assignCall'[r] = NoAssign
        /\ \A d \in Requests \ {r} : assignCall'[d] = assignCall[d]
    BY <1>0, <1>1 DEF TrialShape
  <2>5. /\ arms' = [d \in Executions |-> arms'[d]] /\ arms'[e] = arms[e] \cup {AssignmentOf(ev)}
        /\ \A d \in Executions \ {e} : arms'[d] = arms[d]
    BY <1>0, <1>4, <1>5 DEF TrialShape
  <2>6. TrialShape'
    BY <1>0, <1>2, <2>3, <2>4, <2>5 DEF TrialShape
  <2>7. NextInv'
    BY <1>2, <2>1, <2>4 DEF NextInv
  <2>8. OnceInv'
    <3>1. Own(e)' = {n}
      BY <2>1, <2>3 DEF Own
    <3>2. \A d \in Executions \ {e} : Own(d)' = Own(d)
      BY <2>1, <2>3 DEF Own
    <3>3. arms[e] = {}
      BY <1>0, <2>1, <1>5 DEF OnceInv
    <3>4. ASSUME NEW d \in Executions, d # e
          PROVE  /\ \A i, j \in Own(d)' : i = j
                 /\ arms'[d] \subseteq {AssignmentOf(trialLog'[i]) : i \in Own(d)'}
      <4>1. Own(d) \subseteq DOMAIN trialLog
        BY DEF Own
      <4>2. {AssignmentOf(trialLog'[i]) : i \in Own(d)} = {AssignmentOf(trialLog[i]) : i \in Own(d)}
        BY <2>3, <4>1
      <4> QED BY <1>0, <2>5, <3>2, <3>4, <4>2 DEF OnceInv
    <3> QED BY <2>3, <2>5, <3>1, <3>3, <3>4 DEF OnceInv
  <2>9. TurnsInv'
    <3> SUFFICES ASSUME NEW u \in Trials
                 PROVE  /\ Assignments(u)' <= 2 * u.pairs
                        /\ \E f : Numbers(f, u, trialLog', AssignedIn(u)', Assignments(u)')
      BY DEF TurnsInv
    <3>0. /\ Assignments(u) <= 2 * u.pairs /\ u.pairs \in Nat
          /\ \E f : Numbers(f, u, trialLog, AssignedIn(u), Assignments(u))
      BY <1>0, TrialsAssumption DEF TurnsInv
    <3>1. CASE u # t
      <4>1. u.name # t.name
        BY <3>1, TrialsAssumption
      <4>2. AssignedIn(u)' = AssignedIn(u)
        BY <2>2, <2>3, <4>1 DEF AssignedIn, EventsOf
      <4>3. /\ Assignments(u)' = Assignments(u)
            /\ \E f : Numbers(f, u, trialLog', AssignedIn(u)', Assignments(u)')
        BY <1>0, <2>3, <3>0, <4>2, TurnsKept
      <4> QED BY <3>0, <4>3
    <3>2. CASE u = t
      <4>1. AssignedIn(t)' = AssignedIn(t) \cup {n}
        BY <2>1, <2>2, <2>3 DEF AssignedIn, EventsOf
      <4>2. /\ IsFiniteSet(AssignedIn(t)) /\ Assignments(t) = Cardinality(AssignedIn(t))
            /\ Assignments(t) \in Nat /\ AssignedIn(t) \subseteq DOMAIN trialLog
        BY <1>0, AssignedFinite
      <4>3. n \notin AssignedIn(t)
        BY <2>3, <4>2
      <4>4. Cardinality(AssignedIn(t) \cup {n}) = Cardinality(AssignedIn(t)) + 1
        BY <4>2, <4>3, FS_AddElement
      <4>5. Assignments(t)' = Cardinality(AssignedIn(t)')
        BY DEF Assignments, AssignedIn
      <4>6. Assignments(t)' = Assignments(t) + 1
        BY <4>1, <4>2, <4>4, <4>5
      <4>7. PICK f : Numbers(f, t, trialLog, AssignedIn(t), Assignments(t))
        BY <3>0, <3>2
      <4>8. \E g : Numbers(g, t, trialLog', AssignedIn(t) \cup {n}, Assignments(t) + 1)
        <5>1. \A i \in AssignedIn(t) : trialLog'[i] = trialLog[i]
          BY <2>3, <4>2
        <5>2. /\ trialLog'[n].pair = Assignments(t) \div 2 + 1
              /\ trialLog'[n].arm = ArmOf(t, Assignments(t))
          BY <2>2, <2>3
        <5> QED BY <4>2, <4>3, <4>7, <5>1, <5>2, NumbersGrow
      <4>9. Assignments(t)' <= 2 * t.pairs
        BY <2>2, <3>0, <3>2, <4>2, <4>6
      <4> QED BY <3>2, <4>1, <4>6, <4>8, <4>9
    <3> QED BY <3>1, <3>2
  <2> QED BY <2>6, <2>7, <2>8, <2>9 DEF TrialsInv
<1> QED BY <1>1, <1>3, <1>4

\* Every step preserves the invariant.
LEMMA TrialsInvStep == TrialsInv /\ [TrialsNext]_trialVars => TrialsInv'
PROOF
<1> SUFFICES ASSUME TrialsInv, [TrialsNext]_trialVars PROVE TrialsInv'
  OBVIOUS
<1>0. CallShape(NoAssign) /\ NoAssign.at # "append"
  BY DEF CallShape, NoAssign
<1>1. ASSUME NEW t \in Trials, StartTrial(t) \/ StopTrial(t) \/ AppendStop(t) PROVE TrialsInv'
  BY <1>1, OperatorStep
<1>2. ASSUME NEW r \in Requests, Assign(r) PROVE TrialsInv'
  <2>1. ~locked /\ trialLog' = trialLog
    BY <1>2 DEF Assign
  <2>2. CASE Reuse(r)
    <3>1. GivenAgain(r) /\ assignCall' = [assignCall EXCEPT ![r] = NoAssign] /\ locked' = locked
      BY <2>2 DEF Reuse, GivenAgain, Returns
    <3> QED BY <1>0, <2>1, <3>1, ReturnStep
  <2>3. CASE Choose(r)
    BY <2>1, <2>3, ChooseStep
  <2>4. CASE NotEnrolled(r)
    <3>1. arms' = arms /\ assignCall' = [assignCall EXCEPT ![r] = NoAssign] /\ locked' = locked
      BY <2>4 DEF NotEnrolled, Returns
    <3> QED BY <1>0, <2>1, <3>1, ReturnStep
  <2> QED BY <1>2, <2>2, <2>3, <2>4 DEF Assign
<1>3. ASSUME NEW r \in Requests, AssignFails(r) PROVE TrialsInv'
  <2>1. /\ trialLog' = trialLog /\ arms' = arms /\ locked' = locked
        /\ assignCall' = [assignCall EXCEPT ![r] = NoAssign]
    BY <1>3 DEF AssignFails, Returns
  <2> QED BY <1>0, <2>1, ReturnStep
<1>4. CASE UNCHANGED trialVars
  <2>1. UNCHANGED <<trialLog, assignCall, arms, locked>>
    BY <1>4 DEF trialVars
  <2>2. QuietLog
    <3>1. NoEvent.stage # "assigned"
      BY DEF NoEvent
    <3> QED BY <2>1, <3>1, QuietAppend DEF TrialsInv
  <2>3. TrialShape /\ NextInv /\ OnceInv
    BY DEF TrialsInv
  <2> QED BY <2>1, <2>2, <2>3, CallStep DEF TrialShape, NextInv, OnceInv
<1> QED BY <1>1, <1>2, <1>3, <1>4, RouteStep, AppendAssignedStep DEF TrialsNext

\* The two turns of a pair have one arm each.
LEMMA ArmsDiffer ==
  ASSUME NEW t, NEW a \in Nat, NEW b \in Nat, a \div 2 = b \div 2, ArmOf(t, a) = ArmOf(t, b)
  PROVE  a = b
PROOF
<1>1. a % 2 \in {0, 1} /\ b % 2 \in {0, 1}
  OBVIOUS
<1>2. CASE a % 2 = b % 2
  BY <1>2
<1>3. CASE a % 2 # b % 2
  BY <1>1, <1>3 DEF ArmOf
<1> QED BY <1>2, <1>3

\* A pair's assignments are those of its two turns.
LEMMA PairIsTwoTurns ==
  ASSUME TrialsInv, NEW t \in Trials, NEW f,
         Numbers(f, t, trialLog, AssignedIn(t), Assignments(t)), NEW p \in Nat
  PROVE  AssignedTo(t, p) = {f[a] : a \in {b \in 0 .. Assignments(t) - 1 : b \div 2 + 1 = p}}
PROOF
<1> DEFINE n == Assignments(t)
           ids == AssignedIn(t)
<1>1. AssignedTo(t, p) = {i \in ids : trialLog[i].pair = p}
  BY DEF AssignedTo, AssignedIn
<1>2. /\ \A a \in 0 .. n - 1 : f[a] \in ids /\ trialLog[f[a]].pair = a \div 2 + 1
      /\ \A i \in ids : \E a \in 0 .. n - 1 : f[a] = i
  BY DEF Numbers
<1> HIDE DEF n, ids
<1>3. AssignedTo(t, p) = {f[a] : a \in {b \in 0 .. n - 1 : b \div 2 + 1 = p}}
  BY <1>1, <1>2
<1> QED BY <1>3 DEF n

\* "Manager serialises assignment within one process and persists every step":
\* for any number of trials, pairs, executions and requests at once, also of one
\* execution, and wherever they, stops and failed appends interleave, a pair
\* holds at most one execution of each arm and is filled before the next, no
\* trial enrols more than its pairs, and an execution has one arm, the recorded
\* one, for all its requests.
THEOREM PairsAreEvidence == TrialsSpec => []EvidenceIsPaired
PROOF
<1>1. TrialsInv => EvidenceIsPaired
  <2> SUFFICES ASSUME TrialsInv PROVE EvidenceIsPaired
    OBVIOUS
  <2>0. TrialShape /\ TurnsInv /\ OnceInv
    BY DEF TrialsInv
  <2>1. ASSUME NEW t \in Trials
        PROVE  /\ Assignments(t) <= 2 * t.pairs
               /\ \A p \in 1 .. t.pairs :
                    /\ \A i, j \in AssignedTo(t, p) : trialLog[i].arm = trialLog[j].arm => i = j
                    /\ p > 1 /\ AssignedTo(t, p) # {} => Cardinality(AssignedTo(t, p - 1)) = 2
    <3>1. PICK f : Numbers(f, t, trialLog, AssignedIn(t), Assignments(t))
      BY <2>0 DEF TurnsInv
    <3>2. Assignments(t) <= 2 * t.pairs /\ Assignments(t) \in Nat /\ t.pairs \in Nat
      BY <2>0, AssignedFinite, TrialsAssumption DEF TurnsInv
    <3> DEFINE n == Assignments(t)
    <3>3. /\ \A a, b \in 0 .. n - 1 : f[a] = f[b] => a = b
          /\ \A a \in 0 .. n - 1 : trialLog[f[a]].arm = ArmOf(t, a)
      BY <3>1 DEF Numbers
    <3>4. ASSUME NEW p \in 1 .. t.pairs, NEW i \in AssignedTo(t, p), NEW j \in AssignedTo(t, p),
                 trialLog[i].arm = trialLog[j].arm
          PROVE  i = j
      <4>1. AssignedTo(t, p) = {f[a] : a \in {b \in 0 .. n - 1 : b \div 2 + 1 = p}}
        BY <3>1, <3>2, PairIsTwoTurns
      <4>2. PICK a \in 0 .. n - 1 : a \div 2 + 1 = p /\ i = f[a]
        BY <4>1
      <4>3. PICK b \in 0 .. n - 1 : b \div 2 + 1 = p /\ j = f[b]
        BY <4>1
      <4>4. a \div 2 = b \div 2 /\ ArmOf(t, a) = ArmOf(t, b) /\ a \in Nat /\ b \in Nat
        BY <3>2, <3>3, <3>4, <4>2, <4>3
      <4>5. a = b
        BY <4>4, ArmsDiffer
      <4> QED BY <4>2, <4>3, <4>5
    <3>5. ASSUME NEW p \in 1 .. t.pairs, p > 1, AssignedTo(t, p) # {}
          PROVE  Cardinality(AssignedTo(t, p - 1)) = 2
      <4> DEFINE k == 2 * p - 4
                 l == 2 * p - 3
      <4>1. /\ AssignedTo(t, p) = {f[a] : a \in {b \in 0 .. n - 1 : b \div 2 + 1 = p}}
            /\ AssignedTo(t, p - 1) = {f[a] : a \in {b \in 0 .. n - 1 : b \div 2 + 1 = p - 1}}
        <5>1. p \in Nat /\ p - 1 \in Nat
          BY <3>2, <3>5
        <5> QED BY <3>1, <5>1, PairIsTwoTurns
      <4>2. PICK a \in 0 .. n - 1 : a \div 2 + 1 = p
        BY <3>5, <4>1
      <4>3. k \in 0 .. n - 1 /\ l \in 0 .. n - 1 /\ k # l
        BY <3>2, <3>5, <4>2
      <4>4. \A b \in 0 .. n - 1 : b \div 2 + 1 = p - 1 <=> b = k \/ b = l
        BY <3>2, <3>5
      <4> HIDE DEF k, l, n
      <4>5. AssignedTo(t, p - 1) = {f[k], f[l]} /\ f[k] # f[l]
        BY <3>3, <4>1, <4>3, <4>4
      <4>6. Cardinality({f[k]}) = 1 /\ IsFiniteSet({f[k]})
        BY FS_Singleton
      <4>7. {f[k], f[l]} = {f[k]} \cup {f[l]} /\ f[l] \notin {f[k]}
        BY <4>5
      <4>8. Cardinality({f[k]} \cup {f[l]}) = 2
        <5> DEFINE A == {f[k]}
                   y == f[l]
        <5>1. IsFiniteSet(A) /\ Cardinality(A) = 1 /\ y \notin A
          BY <4>6, <4>7
        <5> HIDE DEF A, y
        <5>2. Cardinality(A \cup {y}) = Cardinality(A) + 1
          BY <5>1, FS_AddElement
        <5>3. Cardinality(A \cup {y}) = 2
          BY <5>1, <5>2
        <5> QED BY <5>3 DEF A, y
      <4> QED BY <4>5, <4>7, <4>8
    <3> QED BY <3>2, <3>4, <3>5
  <2>2. ASSUME NEW e \in Executions
        PROVE  Cardinality(arms[e]) <= 1 /\ arms[e] \subseteq {AssignmentOf(trialLog[i]) : i \in Own(e)}
    <3>1. /\ \A i, j \in Own(e) : i = j
          /\ arms[e] \subseteq {AssignmentOf(trialLog[i]) : i \in Own(e)}
      BY <2>0 DEF OnceInv
    <3>2. arms[e] = {} \/ \E x : arms[e] = {x}
      BY <3>1
    <3>3. Cardinality({}) = 0 /\ \A x : Cardinality({x}) = 1
      BY FS_EmptySet, FS_Singleton
    <3>4. Cardinality(arms[e]) \in {0, 1}
      BY <3>2, <3>3
    <3>5. Cardinality(arms[e]) <= 1
      BY <3>4
    <3> QED BY <3>1, <3>5
  <2> QED BY <2>1, <2>2 DEF EvidenceIsPaired
<1> QED BY TrialsInvInit, TrialsInvStep, <1>1, PTL DEF TrialsSpec
=============================================================================
