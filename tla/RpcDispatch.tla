---------------------------- MODULE RpcDispatch ----------------------------
(***************************************************************************)
(* RpcTasks with a history of how its tasks ended.  A REQ selects a task   *)
(* and reads its payload, claims it in a second transaction and publishes  *)
(* the RSP after that: the task may end at either cut.  The history tells  *)
(* an end before the claim, which the claim must notice, from an end after *)
(* it, which cannot call the message back.                                 *)
(***************************************************************************)
EXTENDS RpcTasks

VARIABLE
  overtaken   \* of every task that has ended: the handlers that had claimed it
              \* before it ended and have still to publish its RSP

dispatchVars == <<vars, overtaken>>

\* The handlers between the claim of a task and its RSP.
Claimants(t) == {h \in Handlers : At(h, "rsp") /\ handler[h].task = t}

Ended == {t \in DOMAIN task : task[t].status >= DONE}

\* The rows of before the step decide who had claimed.
Observe ==
  overtaken' = [t \in DOMAIN overtaken \cup Ended' |->
                  (IF t \in DOMAIN overtaken THEN overtaken[t] ELSE Claimants(t))
                    \cap Claimants(t)']

DispatchInit == Init /\ overtaken = [t \in {} |-> {}]
DispatchNext == Next /\ Observe
DispatchSpec == DispatchInit /\ [][DispatchNext]_dispatchVars

\* The fairness of FairSpec, over the variables with the history.
DispatchFairSpec == DispatchSpec /\ WF_vars(Tick) /\ WF_vars(TtlJob)

OvertakenTyped ==
  /\ DOMAIN overtaken \subseteq Tasks
  /\ \A t \in DOMAIN overtaken : overtaken[t] \subseteq Handlers

\* What is about to be sent to a device is a whole task of that device, which is
\* locked, or ended only after this handler had claimed it: a result, a deadline
\* or a deletion that was committed between the selection and the claim makes
\* the handler answer NOP, and no task that has ended is ever handed out again.
DispatchedUnended ==
  \A h \in Handlers : At(h, "rsp") =>
    LET t == handler[h].task
    IN  /\ t \in DOMAIN task /\ task[t].req.dev = handler[h].dev
        /\ handler[h].payload = "full"
        /\ t \notin DOMAIN overtaken => task[t].status = LOCK
        /\ t \in DOMAIN overtaken => h \in overtaken[t]

\* The history knows every ended task; a claimed task is at least locked.
HistoryExact == DOMAIN overtaken = Ended

DispatchInv == OvertakenTyped /\ HistoryExact /\ DispatchedUnended
=============================================================================
