-------------------------- MODULE MCLeaseRegistry --------------------------
(* An instance of LeaseRegistry for TLC. *)
EXTENDS LeaseRegistry, TLC

CONSTANTS w1, w2, c1, c2

\* One call runs in another worker.
TwoHomes == [c \in Calls |-> IF c = c1 THEN w2 ELSE w1]

\* The workers, each with its call, may change places.
Places == {c1 :> c2 @@ c2 :> c1 @@ w1 :> w2 @@ w2 :> w1}
=============================================================================
