------------------------------ MODULE MCFraming ------------------------------
(* Values for the constants of the run of Framing. *)
EXTENDS Framing

(* A request with an operation only, and a measurement with its type. *)
TwoSizes == { [operation |-> 2, type |-> 0], [operation |-> 4, type |-> 3] }

(* Too short for what it counts, in range, and too long *)
Misread == {0, 36, 1025}
=============================================================================
