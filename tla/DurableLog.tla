----------------------------- MODULE DurableLog -----------------------------
(***************************************************************************)
(* What the event bus promises its callers, without queue, batches or      *)
(* goroutines: a log of accepted envelopes, of which an ever longer prefix *)
(* is settled (stored, or counted as lost), and a Close that reports       *)
(* success only when everything accepted before it began is settled.       *)
(***************************************************************************)
EXTENDS Naturals, Sequences

CONSTANT Events

VARIABLES accepted, settled, cut, phase

vars == <<accepted, settled, cut, phase>>

Init ==
  /\ accepted = << >> /\ settled = << >>
  /\ cut = 0 /\ phase = "open"

\* An envelope is accepted at most once, while Close is running too: a
\* publisher that saw the bus open may still be on its way in.
Accept(e) ==
  /\ \A i \in DOMAIN accepted : accepted[i] # e
  /\ accepted' = Append(accepted, e)
  /\ UNCHANGED <<settled, cut, phase>>

\* A longer prefix of the log is settled, in the order of acceptance.
Settle ==
  /\ \E n \in (Len(settled) + 1) .. Len(accepted) :
       settled' = SubSeq(accepted, 1, n)
  /\ UNCHANGED <<accepted, cut, phase>>

BeginClose ==
  /\ phase = "open"
  /\ phase' = "closing"
  /\ cut' = Len(accepted)
  /\ UNCHANGED <<accepted, settled>>

CloseOK ==
  /\ phase = "closing"
  /\ Len(settled) >= cut
  /\ phase' = "drained"
  /\ UNCHANGED <<accepted, settled, cut>>

CloseTimeout ==
  /\ phase = "closing"
  /\ phase' = "timedOut"
  /\ UNCHANGED <<accepted, settled, cut>>

Next == (\E e \in Events : Accept(e)) \/ Settle
          \/ BeginClose \/ CloseOK \/ CloseTimeout

Spec == Init /\ [][Next]_vars
=============================================================================
