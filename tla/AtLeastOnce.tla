---------------------------- MODULE AtLeastOnce ----------------------------
(***************************************************************************)
(* What an outbox of this service promises to the receiver of its items,   *)
(* without workers, attempts and clocks: an item arrives only while it is  *)
(* open, it is reported as delivered only after it has arrived, and every  *)
(* open item is closed in the end.  It may arrive more than once.          *)
(***************************************************************************)
CONSTANT Items

VARIABLES
  status,   \* of each item
  received  \* the items that have arrived at least once

vars == <<status, received>>

Status == {"absent", "open", "delivered", "abandoned", "forgotten"}

Init ==
  /\ status = [i \in Items |-> "absent"]
  /\ received = {}

Offer(i) ==
  /\ status[i] = "absent"
  /\ status' = [status EXCEPT ![i] = "open"]
  /\ UNCHANGED received

Arrive(i) ==
  /\ status[i] = "open"
  /\ received' = received \cup {i}
  /\ UNCHANGED status

Close(i) ==
  /\ status[i] = "open"
  /\ \E s \in {"delivered", "abandoned"} :
       /\ s = "delivered" => i \in received
       /\ status' = [status EXCEPT ![i] = s]
  /\ UNCHANGED received

\* Rows of the outbox are removed, with a subscription or by age.
Forget(S) ==
  /\ \A i \in S : status[i] # "absent"
  /\ status' = [i \in Items |-> IF i \in S THEN "forgotten" ELSE status[i]]
  /\ UNCHANGED received

Next ==
  \/ \E i \in Items : Offer(i) \/ Arrive(i) \/ Close(i)
  \/ \E S \in SUBSET Items : Forget(S)

Spec == Init /\ [][Next]_vars

EveryItemCloses == \A i \in Items : (status[i] = "open") ~> (status[i] # "open")
=============================================================================
