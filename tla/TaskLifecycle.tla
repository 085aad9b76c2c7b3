--------------------------- MODULE TaskLifecycle ---------------------------
(***************************************************************************)
(* What the RPC task store promises to the REST client, the device and the *)
(* webhook receiver, without handlers, clocks and messages: the states of  *)
(* docs/task_states.md, each result accepted once for one task, and at     *)
(* most one notification per accepted result.                              *)
(***************************************************************************)
CONSTANTS Tasks, ResultIds

VARIABLES
  state,     \* the public state of each task
  accepted,  \* pairs <<result id, task>> that were confirmed or may be
  notified   \* result ids for which a webhook delivery was scheduled

vars == <<state, accepted, notified>>

States == {"absent", "active", "done", "expired", "deleted"}

Init ==
  /\ state = [t \in Tasks |-> "absent"]
  /\ accepted = {}
  /\ notified = {}

Create(t) ==
  /\ state[t] = "absent"
  /\ state' = [state EXCEPT ![t] = "active"]
  /\ UNCHANGED <<accepted, notified>>

\* The deadline of one or more active tasks has passed.
Expire(S) ==
  /\ S # {} /\ \A t \in S : state[t] = "active"
  /\ state' = [t \in Tasks |-> IF t \in S THEN "expired" ELSE state[t]]
  /\ UNCHANGED <<accepted, notified>>

Delete(t) ==
  /\ state[t] \notin {"absent", "deleted"}
  /\ state' = [state EXCEPT ![t] = "deleted"]
  /\ UNCHANGED <<accepted, notified>>

\* A result ends an active task; an ended task keeps its state.
Accept(t, i, ending, notify) ==
  /\ state[t] # "absent"
  /\ \A p \in accepted : p[1] # i
  /\ accepted' = accepted \cup {<<i, t>>}
  /\ state' = [state EXCEPT ![t] = IF @ = "active" THEN ending ELSE @]
  /\ notify => state[t] # "deleted"
  /\ notified' = IF notify THEN notified \cup {i} ELSE notified

Next ==
  \/ \E t \in Tasks : Create(t) \/ Delete(t)
  \/ \E S \in SUBSET Tasks : Expire(S)
  \/ \E t \in Tasks, i \in ResultIds, ending \in {"done", "expired"}, notify \in BOOLEAN :
       Accept(t, i, ending, notify)

Spec == Init /\ [][Next]_vars
=============================================================================
