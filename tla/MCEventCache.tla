--------------------------- MODULE MCEventCache ---------------------------
(* Small instances of EventCache for TLC. *)
EXTENDS EventCache, TLC
CONSTANTS a, b, x, y, r1, r2
\* Events a and b of the last days, and x and y of an imported history.
Stamped == (a :> 1) @@ (b :> 2) @@ (x :> 0) @@ (y :> -1)
Recent == (a :> 1) @@ (b :> 2)
Retention == {[covers |-> {x, y}, keep |-> 1], [covers |-> {a}, keep |-> 1]}
RetentionA == {[covers |-> {a}, keep |-> 1]}
=============================================================================
