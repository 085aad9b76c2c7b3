---------------------------- MODULE MCEventFeed ----------------------------
(* Instances of EventFeed for TLC. *)
EXTENDS EventFeed, TLC

CONSTANTS d1, d2, e1, e2

\* One event of each device.
OneAndOne == e1 :> d1 @@ e2 :> d2

Symmetry == Permutations(Consumers) \cup Permutations(SharedReaders)
=============================================================================
