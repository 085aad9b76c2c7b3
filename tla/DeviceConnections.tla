------------------------ MODULE DeviceConnections ------------------------
(***************************************************************************)
(* The connections of one serial number: the sockets and the user that the *)
(* broker keeps, the row of tb_device_connections that is to follow them,  *)
(* and the blocking of a serial number that two devices share.  The row is *)
(* written by the handlers of connection.created and connection.closed, by *)
(* the periodic reconciliation and by provisioning, each from what it read *)
(* earlier and without a lock on the row.                                  *)
(***************************************************************************)
EXTENDS Naturals, Sequences, FiniteSets, TLC

CONSTANTS
  Workers,        \* processes, each with one event handler and a history
  Origins,        \* devices that use the serial number
  CertOf,         \* the certificate of a device
  HostOf,         \* the host it connects from
  CloneSwitches,  \* changes of host within the window that show a clone
  MaxSockets,     \* bound: connections opened in all
  MaxFailures,    \* bound: failed calls of the management API
  MaxRequests     \* bound: provisioning requests and restarts of a worker

ConnectionsAssumption ==
  /\ CertOf \in [Origins -> STRING]
  /\ HostOf \in [Origins -> STRING]
  /\ {MaxSockets, MaxFailures, MaxRequests, CloneSwitches} \subseteq Nat

ASSUME ConnectionsAssumption

VARIABLES
  user,      \* whether the broker has a user for the serial number
  origin,    \* of each socket opened so far, in order
  sockets,   \* the sockets that are open
  events,    \* connection.created and connection.closed not yet handled
  row,       \* of tb_device_connections
  history,   \* of each worker: origins of recent connections
  handler,   \* of each worker: the event in hand
  rec,       \* the reconciliation
  admin,     \* the provisioning request in progress, or the startup
  spent      \* how much of each bound is used

vars == <<user, origin, sockets, events, row, history, handler, rec, admin, spent>>

NoSocket == 0
Sockets == 1..MaxSockets
Rows == [online : BOOLEAN, name : Sockets \cup {NoSocket}, blocked : BOOLEAN]
Events == [kind : {"created", "closed"}, id : Sockets]
NoEvent == [kind |-> "none", id |-> NoSocket]

FreshRow == [online |-> FALSE, name |-> NoSocket, blocked |-> FALSE]
NoUpdate == <<>>
IdleHandler == [pc |-> "idle", event |-> NoEvent, name |-> NoSocket, update |-> NoUpdate]
IdleRec == [pc |-> "idle", seen |-> NoSocket, update |-> NoUpdate]

Init ==
  /\ user = TRUE
  /\ origin = <<>>
  /\ sockets = {}
  /\ events = {}
  /\ row = FreshRow
  /\ history = [w \in Workers |-> <<>>]
  /\ handler = [w \in Workers |-> IdleHandler]
  /\ rec = IdleRec
  /\ admin = "idle"
  /\ spent = [failures |-> 0, requests |-> 0]

\* A management call may fail: a timeout, an error status, a broker that is away.
Fails ==
  /\ spent.failures < MaxFailures
  /\ spent' = [spent EXCEPT !.failures = @ + 1]

(***************************************************************************)
(* The broker, as the code uses it (external).                             *)
(***************************************************************************)
Connect(o) ==
  /\ user
  /\ Len(origin) < MaxSockets
  /\ LET id == Len(origin) + 1 IN
       /\ origin' = Append(origin, o)
       /\ sockets' = sockets \cup {id}
       /\ events' = events \cup {[kind |-> "created", id |-> id]}
  /\ UNCHANGED <<user, row, history, handler, rec, admin, spent>>

Closed(ids) == {[kind |-> "closed", id |-> i] : i \in ids}

Disconnect(id) ==
  /\ id \in sockets
  /\ sockets' = sockets \ {id}
  /\ events' = events \cup Closed({id})
  /\ UNCHANGED <<user, origin, row, history, handler, rec, admin, spent>>

\* block_device_user: the user is deleted, and the broker closes its sockets.
DeleteUser ==
  /\ user' = FALSE
  /\ sockets' = {}
  /\ events' = events \cup Closed(sockets)

KeepUser == UNCHANGED <<user, sockets, events>>

(***************************************************************************)
(* A session turns an object that it has read and changed into an update   *)
(* of the columns that differ.  details, with the name of the socket, is   *)
(* one column; it differs whenever it is assigned, because it holds byte   *)
(* counters and the time of the connection as well.                        *)
(***************************************************************************)
Changes(read, new, details) ==
  LET changed == {c \in DOMAIN read \ {"name"} : new[c] # read[c]}
  IN [c \in changed \cup (IF details THEN {"name"} ELSE {}) |-> new[c]]

Updated(update) == update @@ row
-----------------------------------------------------------------------------
(***************************************************************************)
(* evaluate_connection_collision                                           *)
(***************************************************************************)
Switches(h) == {i \in 2..Len(h) : HostOf[h[i]] # HostOf[h[i - 1]]}

\* SN_COLLISION, or else DEVICE_CLONE.
Violation(h) ==
  \/ Cardinality({CertOf[h[i]] : i \in 1..Len(h)}) >= 2
  \/ Cardinality(Switches(h)) >= CloneSwitches

(***************************************************************************)
(* handle_connection_event.  The details of a new connection are asked of  *)
(* the broker first; when that socket is gone they are those of another    *)
(* socket of the device, when the call fails those of the event.           *)
(***************************************************************************)
Details(e) == {e.id} \cup (IF e.id \in sockets THEN {} ELSE sockets)

Fetch(w, e) ==
  /\ handler[w].pc = "idle"
  /\ e \in events
  /\ e.kind = "created"
  /\ \E name \in Details(e) :
       handler' = [handler EXCEPT ![w] =
                     [IdleHandler EXCEPT !.pc = "judge", !.event = e, !.name = name]]
  /\ events' = events \ {e}
  /\ UNCHANGED <<user, origin, sockets, row, history, rec, admin, spent>>

\* mark_device_blocked and handle_connection_created, on the row that is read.
Blocked == [row EXCEPT !.online = FALSE, !.blocked = TRUE]
Created(name) == IF row.blocked THEN row ELSE [row EXCEPT !.online = TRUE, !.name = name]

\* Samples older than 180 s leave the window; the row is read at once.
Judge(w) ==
  /\ handler[w].pc = "judge"
  /\ \E k \in 0..Len(history[w]) :
       LET recent == Append(SubSeq(history[w], k + 1, Len(history[w])),
                            origin[handler[w].name])
           refused == Violation(recent) \/ row.blocked
           new == IF Violation(recent) THEN Blocked ELSE Created(handler[w].name)
       IN /\ history' = [history EXCEPT ![w] = recent]
          /\ handler' = [handler EXCEPT ![w].pc = IF refused THEN "refuse" ELSE "commit",
                                        ![w].name = NoSocket,
                                        ![w].update = Changes(row, new, ~refused)]
  /\ UNCHANGED <<user, origin, sockets, events, row, rec, admin, spent>>

\* A socket that is not the one on record closes without effect.
Close(w, e) ==
  /\ handler[w].pc = "idle"
  /\ e \in events
  /\ e.kind = "closed"
  /\ LET current == row.name \in {NoSocket, e.id}
         new == IF row.online /\ current THEN [row EXCEPT !.online = FALSE] ELSE row
     IN handler' = [handler EXCEPT ![w] =
                      [IdleHandler EXCEPT !.pc = "commit", !.event = e,
                                          !.update = Changes(row, new, new # row)]]
  /\ events' = events \ {e}
  /\ UNCHANGED <<user, origin, sockets, row, history, rec, admin, spent>>

Commit(w) ==
  /\ handler[w].pc \in {"commit", "refuse"}
  /\ row' = Updated(handler[w].update)
  /\ handler' = [handler EXCEPT ![w] =
                   IF @.pc = "refuse" THEN [@ EXCEPT !.pc = "revoke", !.update = NoUpdate]
                   ELSE IdleHandler]
  /\ UNCHANGED <<user, origin, sockets, events, history, rec, admin, spent>>

\* The result of the deletion is not looked at.
Revoke(w) ==
  /\ handler[w].pc = "revoke"
  /\ \/ DeleteUser /\ UNCHANGED spent
     \/ KeepUser /\ Fails
  /\ handler' = [handler EXCEPT ![w] = IdleHandler]
  /\ UNCHANGED <<origin, row, history, rec, admin>>
-----------------------------------------------------------------------------
(***************************************************************************)
(* reconcile_device_connections.  The list of connections may end early    *)
(* when a page fails: the device then looks disconnected.                  *)
(***************************************************************************)
RecFetch ==
  /\ rec.pc = "idle"
  /\ \/ \E id \in (IF sockets = {} THEN {NoSocket} ELSE sockets) :
          /\ rec' = [rec EXCEPT !.pc = "load", !.seen = id]
          /\ UNCHANGED spent
     \/ sockets # {} /\ Fails /\ rec' = [rec EXCEPT !.pc = "load", !.seen = NoSocket]
  /\ UNCHANGED <<user, origin, sockets, events, row, history, handler, admin>>

\* A blocked device that is connected is left to the next event.
MutantRecLoad ==
  /\ rec.pc = "load"
  /\ LET seen == rec.seen # NoSocket
         new == [row EXCEPT !.online = seen, !.name = IF seen THEN rec.seen ELSE @]
     IN rec' = IF row.blocked THEN IdleRec
               ELSE [IdleRec EXCEPT !.pc = "write",
                       !.update = Changes(row, new, seen \/ row.online)]
  /\ UNCHANGED <<user, origin, sockets, events, row, history, handler, admin, spent>>

\* Only devices that are seen are brought up to date.
MutantRecLoadSeen ==
  /\ rec.pc = "load"
  /\ rec' = IF rec.seen = NoSocket THEN IdleRec
            ELSE IF row.blocked THEN [IdleRec EXCEPT !.pc = "revoke"]
            ELSE [IdleRec EXCEPT !.pc = "write",
                    !.update = Changes(row, [row EXCEPT !.online = TRUE, !.name = rec.seen], TRUE)]
  /\ UNCHANGED <<user, origin, sockets, events, row, history, handler, admin, spent>>

\* All rows are loaded at once, and written in chunks later.
RecLoad ==
  /\ rec.pc = "load"
  /\ LET seen == rec.seen # NoSocket
         new == [row EXCEPT !.online = seen, !.name = IF seen THEN rec.seen ELSE @]
     IN rec' = IF row.blocked
                 THEN IF seen THEN [IdleRec EXCEPT !.pc = "revoke"] ELSE IdleRec
                 ELSE [IdleRec EXCEPT !.pc = "write",
                         !.update = Changes(row, new, seen \/ row.online)]
  /\ UNCHANGED <<user, origin, sockets, events, row, history, handler, admin, spent>>

RecWrite ==
  /\ rec.pc = "write"
  /\ row' = Updated(rec.update)
  /\ rec' = IdleRec
  /\ UNCHANGED <<user, origin, sockets, events, history, handler, admin, spent>>

RecRevoke ==
  /\ rec.pc = "revoke"
  /\ \/ DeleteUser /\ UNCHANGED spent
     \/ KeepUser /\ Fails
  /\ rec' = IdleRec
  /\ UNCHANGED <<origin, row, history, handler, admin>>

\* The time budget runs out, or the job fails.
RecGiveUp ==
  /\ rec.pc # "idle"
  /\ Fails
  /\ rec' = IdleRec
  /\ UNCHANGED <<user, origin, sockets, events, row, history, handler, admin>>
-----------------------------------------------------------------------------
(***************************************************************************)
(* ProvisioningService.provision_terminals: one transaction, then the user *)
(* at the broker, then the history of the worker that serves the request.  *)
(* DeviceProvisioningService.provision_device ends with the transaction.   *)
(***************************************************************************)
Provision ==
  /\ admin = "idle"
  /\ spent.requests < MaxRequests
  /\ spent' = [spent EXCEPT !.requests = @ + 1]
  /\ row' = [row EXCEPT !.blocked = FALSE]
  /\ admin' \in {"define", "idle"}
  /\ UNCHANGED <<user, origin, sockets, events, history, handler, rec>>

Define ==
  /\ admin = "define"
  /\ \/ user' = TRUE /\ UNCHANGED spent
     \/ UNCHANGED user /\ Fails
  /\ admin' = "clear"
  /\ UNCHANGED <<origin, sockets, events, row, history, handler, rec>>

ClearHistory ==
  /\ admin = "clear"
  /\ \E w \in Workers : history' = [history EXCEPT ![w] = <<>>]
  /\ admin' = "idle"
  /\ UNCHANGED <<user, origin, sockets, events, row, handler, rec, spent>>

(***************************************************************************)
(* A worker restarts.  Its event is delivered again, its history is gone,  *)
(* and the startup brings the user at the broker in line with the row.     *)
(***************************************************************************)
Restart(w) ==
  /\ admin = "idle"
  /\ spent.requests < MaxRequests
  /\ spent' = [spent EXCEPT !.requests = @ + 1]
  /\ events' = events \cup ({handler[w].event} \ {NoEvent})
  /\ handler' = [handler EXCEPT ![w] = IdleHandler]
  /\ history' = [history EXCEPT ![w] = <<>>]
  /\ admin' = "startup"
  /\ UNCHANGED <<user, origin, sockets, row, rec>>

SyncRead ==
  /\ admin = "startup"
  /\ admin' = IF row.blocked THEN "delete" ELSE "put"
  /\ UNCHANGED <<user, origin, sockets, events, row, history, handler, rec, spent>>

SyncApply ==
  /\ \/ admin = "delete" /\ DeleteUser /\ UNCHANGED spent
     \/ admin = "put" /\ user' = TRUE /\ UNCHANGED <<sockets, events, spent>>
     \/ admin \in {"delete", "put"} /\ KeepUser /\ Fails
  /\ admin' = "idle"
  /\ UNCHANGED <<origin, row, history, handler, rec>>
-----------------------------------------------------------------------------
HandlerStep(w) ==
  \/ \E e \in events : Fetch(w, e) \/ Close(w, e)
  \/ Judge(w) \/ Commit(w) \/ Revoke(w)

RecStep == RecFetch \/ RecLoad \/ RecWrite \/ RecRevoke

AdminStep == Define \/ ClearHistory \/ SyncRead \/ SyncApply

Next ==
  \/ \E o \in Origins : Connect(o)
  \/ \E id \in Sockets : Disconnect(id)
  \/ \E w \in Workers : HandlerStep(w) \/ Restart(w)
  \/ RecStep \/ RecGiveUp
  \/ Provision \/ AdminStep

Spec == Init /\ [][Next]_vars

\* Handlers and requests go on, and the scheduler repeats the reconciliation.
Fairness ==
  /\ \A w \in Workers : WF_vars(HandlerStep(w))
  /\ WF_vars(RecStep)
  /\ WF_vars(AdminStep)

FairSpec == Spec /\ Fairness
-----------------------------------------------------------------------------
IsUpdate(u) == DOMAIN u \subseteq DOMAIN FreshRow /\ (u @@ FreshRow) \in Rows

TypeOK ==
  /\ user \in BOOLEAN
  /\ origin \in Seq(Origins) /\ Len(origin) <= MaxSockets
  /\ sockets \subseteq 1..Len(origin)
  /\ events \subseteq Events /\ \A e \in events : e.id \in 1..Len(origin)
  /\ row \in Rows
  /\ history \in [Workers -> Seq(Origins)]
  /\ \A w \in Workers :
       /\ handler[w].pc \in {"idle", "judge", "commit", "refuse", "revoke"}
       /\ handler[w].event \in Events \cup {NoEvent}
       /\ handler[w].name \in Sockets \cup {NoSocket}
       /\ IsUpdate(handler[w].update)
  /\ rec.pc \in {"idle", "load", "write", "revoke"}
  /\ rec.seen \in Sockets \cup {NoSocket}
  /\ IsUpdate(rec.update)
  /\ admin \in {"idle", "define", "clear", "startup", "delete", "put"}

(***************************************************************************)
(* A blocked device does not stay connected, even when the deletion of its *)
(* user fails or the startup restores it from an older reading.            *)
(***************************************************************************)
BlockedIsCutOff == row.blocked /\ sockets # {} ~> ~row.blocked \/ sockets = {}

(***************************************************************************)
(* Once the sockets are left alone, the row tells whether the device is    *)
(* connected, in spite of events handled out of order, names of sockets    *)
(* that were overwritten and partial lists of connections.                 *)
(***************************************************************************)
StatusConverges == <>[](row.blocked \/ (row.online <=> sockets # {}))
=============================================================================
