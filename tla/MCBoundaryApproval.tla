------------------------- MODULE MCBoundaryApproval -------------------------
(* Small instances of BoundaryApproval for TLC. *)
EXTENDS BoundaryApproval, TLC
CONSTANTS c1, c2, c3
Interchangeable == Permutations(Calls)
Yes      == [approved |-> TRUE, scope |-> "once"]
YesAll   == [approved |-> TRUE, scope |-> "session"]
No       == [approved |-> FALSE, scope |-> "once"]
NoAll    == [approved |-> FALSE, scope |-> "session"]

\* Three hook processes race for the one-step approvals of an operator who is
\* not at the harness.
Parallel ==
  [attended |-> FALSE, mode |-> "channel", otherHooks |-> FALSE,
   decisions |-> {Yes}, mayFail |-> TRUE,
   maxCalls |-> 3, maxInFlight |-> 3, maxAnswers |-> 2, maxTime |-> 1]

\* Someone answers the permission prompt while another answers for the session.
AtThePrompt ==
  [attended |-> TRUE, mode |-> "channel", otherHooks |-> FALSE,
   decisions |-> {YesAll, NoAll, No}, mayFail |-> FALSE,
   maxCalls |-> 3, maxInFlight |-> 2, maxAnswers |-> 1, maxTime |-> 1]

\* Approvals must be signed; one tool call at a time.
Signed ==
  [attended |-> TRUE, mode |-> "presence-strict", otherHooks |-> FALSE,
   decisions |-> {Yes}, mayFail |-> TRUE,
   maxCalls |-> 3, maxInFlight |-> 1, maxAnswers |-> 3, maxTime |-> 0]

Installations == {Parallel, AtThePrompt, Signed}
\* An operator who may also deny, two calls at once.
Denials == {[Parallel EXCEPT !.decisions = {Yes, No}, !.mayFail = FALSE,
                             !.maxInFlight = 2, !.maxTime = 0]}
\* Evaluations may overrun while someone is at the prompt.
Overruns == {[AtThePrompt EXCEPT !.mayFail = TRUE, !.maxTime = 0]}
=============================================================================
