----------------------------- MODULE MCEventBus -----------------------------
(* TLC instances of EventBus: the envelopes as model values. *)
EXTENDS EventBus

CONSTANTS e1, e2, e3
=============================================================================
