-------------------------- MODULE RemoteSessions --------------------------
(***************************************************************************)
(* The remote sessions of one serial number: rows with a lifecycle, the    *)
(* feed of events that other services follow, and the console commands     *)
(* that a worker keeps in memory.  Every request is a database transaction *)
(* (READ COMMITTED) that ends with the request; it decides on what it has  *)
(* read before it waits for a row or for the unique index over the active  *)
(* sessions of a serial number.                                            *)
(***************************************************************************)
EXTENDS Naturals, Sequences, FiniteSets

CONSTANTS
  Workers,     \* processes of the service
  Requests,    \* requests that may be in progress at once
  WorkerOf,    \* the worker that serves a request
  Ops,         \* operation ids of the clients that create sessions
  TypeOf,      \* the session type they ask for
  AutoStart,   \* the operations that ask for auto_start
  MaxSessions, \* bound: requests that may create a session
  MaxCommands, \* bound: console commands
  MaxRequests, \* bound: requests in all
  MaxCrashes   \* bound: restarts of a worker

Sids == 1..MaxSessions
Commands == 1..MaxCommands
NoOne == "none"
NoOp == "none"
Nothing == 0

SessionsAssumption ==
  /\ WorkerOf \in [Requests -> Workers]
  /\ TypeOf \in [Ops -> {"console", "video"}]
  /\ AutoStart \subseteq Ops
  /\ {NoOp, NoOne} \cap (Ops \cup Requests) = {}
  /\ {MaxSessions, MaxCommands, MaxRequests, MaxCrashes} \subseteq Nat

ASSUME SessionsAssumption

VARIABLES
  rows,     \* tb_remote_sessions, as committed
  events,   \* tb_remote_session_events, as committed
  serial,   \* the last cursor given out
  tx,       \* the transaction of each request
  snLock,   \* _sn_locks: of each worker, the request that holds it
  inFlight, \* _in_flight_commands of each worker
  done,     \* commands whose done_event is set
  spent     \* how much of each bound is used

vars == <<rows, events, serial, tx, snLock, inFlight, done, spent>>

Ended == {"closed", "failed"}
Active == {"requested", "starting", "active", "stopping"}
Statuses == Ended \cup Active \cup {"absent"}
Lifecycle == {"start_requested", "starting", "active", "stop_requested", "closed", "failed"}
EventTypes == Lifecycle \cup {"command_started", "command_completed", "command_timed_out"}

Absent == [status |-> "absent", op |-> NoOp, fresh |-> FALSE]
IdleTx == [pc |-> "idle", sid |-> Nothing, op |-> NoOp, seen |-> "absent",
           cmd |-> Nothing, writes |-> <<>>, events |-> {}]

Init ==
  /\ rows = [s \in Sids |-> Absent]
  /\ events = {}
  /\ serial = 0
  /\ tx = [r \in Requests |-> IdleTx]
  /\ snLock = [w \in Workers |-> NoOne]
  /\ inFlight = [w \in Workers |-> [s \in Sids |-> Nothing]]
  /\ done = {}
  /\ spent = [requests |-> 0, creates |-> 0, commands |-> 0, crashes |-> 0]
-----------------------------------------------------------------------------
(***************************************************************************)
(* The database, as the code uses it (external): a row that a transaction  *)
(* has written or selected FOR UPDATE is locked until its end.             *)
(***************************************************************************)
RowFree(r, s) == \A q \in Requests \ {r} : s \notin DOMAIN tx[q].writes

\* The transaction sees its own rows and events, and those committed.
Row(r, s) == IF s \in DOMAIN tx[r].writes THEN tx[r].writes[s] ELSE rows[s]

\* uq_active_remote_session_per_sn without the status stopping.
MutantRivals(r, s) ==
  {t \in Sids \ {s} : Row(r, t).status \in Active \ {"stopping"}}

\* uq_active_remote_session_per_sn: the rows that forbid s to be active.
Rivals(r, s) == {t \in Sids \ {s} : Row(r, t).status \in Active}

\* An entry of the index that another transaction is changing is waited for.
IndexFree(r, s) ==
  \A q \in Requests \ {r} : \A t \in DOMAIN tx[q].writes \ {s} :
    rows[t].status \notin Active /\ tx[q].writes[t].status \notin Active

\* An event for each of the types at the positions new, with the next cursors.
EventsOf(s, op, types, new) ==
  {[cursor |-> serial + Cardinality({j \in new : j <= i}), sid |-> s, type |-> types[i], op |-> op]
     : i \in new}

\* The events are recorded before the row is flushed, without its lock.
MutantRecorded(r, s, op, types) ==
  EventsOf(s, op, types,
           {i \in 1..Len(types) : \A e \in tx[r].events : e.type # types[i]})

\* record_event: an event of the same operation and type is not repeated.
Recorded(r, s, op, types) ==
  EventsOf(s, op, types,
           {i \in 1..Len(types) :
              op = NoOp \/ \A e \in events \cup tx[r].events : e.op # op \/ e.type # types[i]})

\* What the transaction has written, with a new version of a row.
Put(r, s, row) ==
  [t \in DOMAIN tx[r].writes \cup {s} |-> IF t = s THEN row ELSE tx[r].writes[t]]

\* The transaction writes a row, records events of it, and goes on at pc.
Write(r, s, row, op, types, pc) ==
  LET new == Recorded(r, s, op, types)
  IN /\ tx' = [tx EXCEPT ![r] = [@ EXCEPT !.pc = pc, !.writes = Put(r, s, row),
                                          !.events = tx[r].events \cup new]]
     /\ serial' = serial + Cardinality(new)

Rollback(r) == tx' = [tx EXCEPT ![r] = IdleTx]

Arrives(r) ==
  /\ tx[r].pc = "idle"
  /\ spent.requests < MaxRequests

\* A request starts its transaction; bound is what it uses up besides.
Begin(r, t, bound) ==
  /\ tx' = [tx EXCEPT ![r] = t]
  /\ spent' = [b \in DOMAIN spent |-> spent[b] + IF b \in {"requests", bound} THEN 1 ELSE 0]

Worker(r) == WorkerOf[r]
FreeLock(r) == [snLock EXCEPT ![Worker(r)] = NoOne]
-----------------------------------------------------------------------------
(***************************************************************************)
(* create_session                                                          *)
(***************************************************************************)
Known(op) == \E s \in Sids : rows[s].status # "absent" /\ rows[s].op = op

Create(r, op) ==
  /\ Arrives(r)
  /\ ~Known(op)
  /\ spent.creates < MaxSessions
  /\ Begin(r, [IdleTx EXCEPT !.pc = "lock", !.op = op], "creates")
  /\ UNCHANGED <<rows, events, serial, snLock, inFlight, done>>

(***************************************************************************)
(* Under the lock of the serial number the operation is looked up again    *)
(* and the active session is read: a fresh one is a conflict (409), a      *)
(* stale one is to be evicted.                                             *)
(***************************************************************************)
CreateLocked(r) ==
  /\ tx[r].pc = "lock"
  /\ snLock[Worker(r)] = NoOne
  /\ LET active == {s \in Sids : rows[s].status \in Active}
         conflict == Known(tx[r].op) \/ \E s \in active : rows[s].fresh
     IN \/ conflict /\ Rollback(r) /\ UNCHANGED snLock
        \/ /\ ~conflict /\ snLock' = [snLock EXCEPT ![Worker(r)] = r]
           /\ \/ active = {} /\ tx' = [tx EXCEPT ![r].pc = "insert"]
              \/ \E s \in active :
                   tx' = [tx EXCEPT ![r] = [@ EXCEPT !.pc = "evict", !.sid = s]]
  /\ UNCHANGED <<rows, events, serial, inFlight, done, spent>>

\* mark_session_failed, whatever the session has become meanwhile.
Evict(r) ==
  LET s == tx[r].sid IN
  /\ tx[r].pc = "evict"
  /\ RowFree(r, s)
  /\ Write(r, s, [rows[s] EXCEPT !.status = "failed"], rows[s].op, <<"failed">>, "insert")
  /\ UNCHANGED <<rows, events, snLock, inFlight, done, spent>>

IsNew(s) == rows[s] = Absent /\ \A q \in Requests : s \notin DOMAIN tx[q].writes

\* The lock of the serial number is kept until the next request.
MutantInsert(r) ==
  /\ tx[r].pc = "insert"
  /\ \E s \in Sids :
       /\ IsNew(s)
       /\ \A t \in 1..(s - 1) : ~IsNew(t)
       /\ IndexFree(r, s)
       /\ LET op == tx[r].op
              auto == op \in AutoStart
              row == [status |-> IF auto THEN "active" ELSE "requested",
                      op |-> op, fresh |-> TRUE]
              types == IF auto THEN <<"start_requested", "starting", "active">>
                       ELSE <<"start_requested">>
          IN IF Rivals(r, s) = {} THEN Write(r, s, row, op, types, "commit")
             ELSE Rollback(r) /\ UNCHANGED serial
  /\ UNCHANGED snLock
  /\ UNCHANGED <<rows, events, inFlight, done, spent>>
\* The lock of the serial number is released before the commit.
Insert(r) ==
  /\ tx[r].pc = "insert"
  /\ \E s \in Sids :
       /\ IsNew(s)
       /\ \A t \in 1..(s - 1) : ~IsNew(t)
       /\ IndexFree(r, s)
       /\ LET op == tx[r].op
              auto == op \in AutoStart
              row == [status |-> IF auto THEN "active" ELSE "requested",
                      op |-> op, fresh |-> TRUE]
              types == IF auto THEN <<"start_requested", "starting", "active">>
                       ELSE <<"start_requested">>
          IN IF Rivals(r, s) = {} THEN Write(r, s, row, op, types, "commit")
             ELSE Rollback(r) /\ UNCHANGED serial
  /\ snLock' = FreeLock(r)
  /\ UNCHANGED <<rows, events, inFlight, done, spent>>
-----------------------------------------------------------------------------
(***************************************************************************)
(* start_session: the status is read without a lock.  A start may name an  *)
(* operation for its events; the clients here leave it to the session.     *)
(***************************************************************************)
Start(r, s) ==
  /\ Arrives(r)
  /\ rows[s].status \in {"requested", "starting", "stopping"}
  /\ Begin(r, [IdleTx EXCEPT !.pc = "start", !.sid = s, !.seen = rows[s].status], "requests")
  /\ UNCHANGED <<rows, events, serial, snLock, inFlight, done>>

StartFlush(r) ==
  LET s == tx[r].sid
      types == IF tx[r].seen = "requested" THEN <<"starting", "active">> ELSE <<"active">>
  IN
  /\ tx[r].pc = "start"
  /\ RowFree(r, s)
  /\ rows[s].status \in Active \/ IndexFree(r, s)
  /\ IF Rivals(r, s) = {}
       THEN Write(r, s, [rows[s] EXCEPT !.status = "active", !.fresh = TRUE],
                  rows[s].op, types, "commit")
       ELSE Rollback(r) /\ UNCHANGED serial
  /\ UNCHANGED <<rows, events, snLock, inFlight, done, spent>>

\* heartbeat: one column, whatever the status.
Heartbeat(s) ==
  /\ rows[s].status # "absent"
  /\ \A q \in Requests : s \notin DOMAIN tx[q].writes
  /\ rows' = [rows EXCEPT ![s].fresh = TRUE]
  /\ UNCHANGED <<events, serial, tx, snLock, inFlight, done, spent>>

\* is_session_stale: no heartbeat for stale_timeout_sec.
GoStale(s) ==
  /\ rows[s].fresh
  /\ rows' = [rows EXCEPT ![s].fresh = FALSE]
  /\ UNCHANGED <<events, serial, tx, snLock, inFlight, done, spent>>
-----------------------------------------------------------------------------
(***************************************************************************)
(* stop_session.  The row is selected FOR UPDATE; stopping and its event   *)
(* stay uncommitted while the command or the video is waited for.  The     *)
(* events have the operation that the stop names, here none.               *)
(***************************************************************************)
\* The row is selected without FOR UPDATE.
MutantStop(r, s) ==
  /\ Arrives(r)
  /\ rows[s].status \in Active
  /\ spent' = [spent EXCEPT !.requests = @ + 1]
  /\ LET new == IF rows[s].status = "stopping" THEN {}
                ELSE Recorded(r, s, NoOp, <<"stop_requested">>)
     IN /\ tx' = [tx EXCEPT ![r] =
                    [@ EXCEPT !.pc = "wait", !.sid = s, !.cmd = inFlight[Worker(r)][s],
                              !.writes = Put(r, s, [rows[s] EXCEPT !.status = "stopping"]),
                              !.events = new]]
        /\ serial' = serial + Cardinality(new)
  /\ UNCHANGED <<rows, events, snLock, inFlight, done>>

Stop(r, s) ==
  /\ Arrives(r)
  /\ RowFree(r, s)
  /\ rows[s].status \in Active
  /\ spent' = [spent EXCEPT !.requests = @ + 1]
  /\ LET new == IF rows[s].status = "stopping" THEN {}
                ELSE Recorded(r, s, NoOp, <<"stop_requested">>)
     IN /\ tx' = [tx EXCEPT ![r] =
                    [@ EXCEPT !.pc = "wait", !.sid = s, !.cmd = inFlight[Worker(r)][s],
                              !.writes = Put(r, s, [rows[s] EXCEPT !.status = "stopping"]),
                              !.events = new]]
        /\ serial' = serial + Cardinality(new)
  /\ UNCHANGED <<rows, events, snLock, inFlight, done>>

Video(s) == rows[s].op \in Ops /\ TypeOf[rows[s].op] = "video"

\* The session is closed, with the events of its end.
CloseWith(r, types) ==
  Write(r, tx[r].sid, [tx[r].writes[tx[r].sid] EXCEPT !.status = "closed"],
        NoOp, types, "commit")

\* There is no command, or done_event was set by the end of the command.
StopWaited(r) ==
  /\ tx[r].pc = "wait"
  /\ \/ Video(tx[r].sid)
     \/ tx[r].cmd = Nothing
     \/ tx[r].cmd \in done
  /\ CloseWith(r, <<"closed">>)
  /\ UNCHANGED <<rows, events, snLock, inFlight, done, spent>>

\* A command leaves _in_flight_commands of the worker; its done_event is set.
Pop(w, s) ==
  /\ inFlight' = [inFlight EXCEPT ![w][s] = Nothing]
  /\ done' = done \cup ({inFlight[w][s]} \ {Nothing})

\* wait_for ends first: timeout_console_command pops what is in flight by now.
StopTimedOut(r) ==
  /\ tx[r].pc = "wait"
  /\ ~Video(tx[r].sid) /\ tx[r].cmd # Nothing
  /\ Pop(Worker(r), tx[r].sid)
  /\ CloseWith(r, <<"command_timed_out", "closed">>)
  /\ UNCHANGED <<rows, events, snLock, spent>>

\* _teardown_video_session fails: stopping is committed and 503 returned.
StopFailed(r) ==
  /\ tx[r].pc = "wait"
  /\ Video(tx[r].sid)
  /\ rows' = [s \in Sids |-> Row(r, s)]
  /\ events' = events \cup tx[r].events
  /\ Rollback(r)
  /\ UNCHANGED <<serial, snLock, inFlight, done, spent>>
-----------------------------------------------------------------------------
(***************************************************************************)
(* start_console_command: allowed while the committed status is active.    *)
(***************************************************************************)
CommandRead(r, s) ==
  /\ Arrives(r)
  /\ spent.commands < MaxCommands
  /\ rows[s].status = "active" /\ ~Video(s)
  /\ Begin(r, [IdleTx EXCEPT !.pc = "command", !.sid = s, !.cmd = spent.commands + 1], "commands")
  /\ UNCHANGED <<rows, events, serial, snLock, inFlight, done>>

\* The transaction records an event of its session and is to commit.
Report(r, s, type) ==
  LET new == Recorded(r, s, NoOp, <<type>>) IN
  /\ tx' = [tx EXCEPT ![r] = [@ EXCEPT !.pc = "commit", !.events = new]]
  /\ serial' = serial + Cardinality(new)

CommandStart(r) ==
  /\ tx[r].pc = "command"
  /\ inFlight' = [inFlight EXCEPT ![Worker(r)][tx[r].sid] = tx[r].cmd]
  /\ Report(r, tx[r].sid, "command_started")
  /\ UNCHANGED <<rows, events, snLock, done, spent>>

\* complete_console_command and the timeout that the client reports.
CommandEnd(r, s) ==
  /\ Arrives(r)
  /\ \E w \in Workers : inFlight[w][s] # Nothing
  /\ spent' = [spent EXCEPT !.requests = @ + 1]
  /\ Pop(Worker(r), s)
  /\ \E type \in {"command_completed", "command_timed_out"} : Report(r, s, type)
  /\ UNCHANGED <<rows, events, snLock>>
-----------------------------------------------------------------------------
Commit(r) ==
  /\ tx[r].pc = "commit"
  /\ rows' = [s \in Sids |-> Row(r, s)]
  /\ events' = events \cup tx[r].events
  /\ Rollback(r)
  /\ UNCHANGED <<serial, snLock, inFlight, done, spent>>

\* A worker restarts: its transactions are rolled back, its memory is lost.
Crash(w) ==
  /\ spent.crashes < MaxCrashes
  /\ spent' = [spent EXCEPT !.crashes = @ + 1]
  /\ tx' = [r \in Requests |-> IF WorkerOf[r] = w THEN IdleTx ELSE tx[r]]
  /\ snLock' = [snLock EXCEPT ![w] = NoOne]
  /\ inFlight' = [inFlight EXCEPT ![w] = [s \in Sids |-> Nothing]]
  /\ UNCHANGED <<rows, events, serial, done>>

Step(r) ==
  \/ CreateLocked(r) \/ Evict(r) \/ Insert(r)
  \/ StartFlush(r)
  \/ StopWaited(r) \/ StopTimedOut(r) \/ StopFailed(r)
  \/ CommandStart(r)
  \/ Commit(r)

Arrival(r) ==
  \/ \E op \in Ops : Create(r, op)
  \/ \E s \in Sids : Start(r, s) \/ Stop(r, s) \/ CommandRead(r, s) \/ CommandEnd(r, s)

Next ==
  \/ \E r \in Requests : Arrival(r) \/ Step(r)
  \/ \E s \in Sids : Heartbeat(s) \/ GoStale(s)
  \/ \E w \in Workers : Crash(w)

Spec == Init /\ [][Next]_vars

\* A request that can go on does so; the stop has a timeout.
FairSpec == Spec /\ \A r \in Requests : WF_vars(Step(r))
-----------------------------------------------------------------------------
RowType == [status : Statuses, op : Ops \cup {NoOp}, fresh : BOOLEAN]
EventType == [cursor : Nat \ {0}, sid : Sids, type : EventTypes, op : Ops \cup {NoOp}]
TxType ==
  [pc : {"idle", "lock", "evict", "insert", "start", "wait", "command", "commit"},
   sid : Sids \cup {Nothing}, op : Ops \cup {NoOp}, seen : Statuses,
   cmd : Commands \cup {Nothing}, writes : UNION {[S -> RowType] : S \in SUBSET Sids},
   events : SUBSET EventType]

\* The rows, the feed and the transactions have their types.
TypeOK ==
  /\ rows \in [Sids -> RowType] /\ events \subseteq EventType /\ serial \in Nat
  /\ tx \in [Requests -> TxType]
  /\ snLock \in [Workers -> Requests \cup {NoOne}]
  /\ inFlight \in [Workers -> [Sids -> Commands \cup {Nothing}]] /\ done \subseteq Commands
  /\ spent \in [{"requests", "creates", "commands", "crashes"} -> Nat]

(***************************************************************************)
(* At most one session of the device is active, although the lock of the   *)
(* serial number is local to a worker and released before the commit, and  *)
(* although a late start may revive a session.                             *)
(***************************************************************************)
OneActive == Cardinality({s \in Sids : rows[s].status \in Active}) <= 1

(***************************************************************************)
(* Requests that race do not report a transition of one operation twice:   *)
(* the lock of the row is taken before the feed is searched.               *)
(***************************************************************************)
LifecycleOnce ==
  \A e, f \in events : e # f /\ e.sid = f.sid /\ e.op = f.op /\ e.op # NoOp => e.type # f.type

(***************************************************************************)
(* The lifecycle of a session appears in the feed in the order of cursors: *)
(* a follower of the session that resumes after the last cursor it has     *)
(* seen misses no transition of it.                                        *)
(***************************************************************************)
FeedInOrder ==
  [][\A e \in events' \ events, f \in events :
       e.sid = f.sid /\ {e.type, f.type} \subseteq Lifecycle => e.cursor > f.cursor]_vars

(***************************************************************************)
(* Every request ends: the lock of the serial number, the locks of rows    *)
(* and the waits on the index never wait for one another.                  *)
(***************************************************************************)
RequestsEnd == \A r \in Requests : tx[r].pc # "idle" ~> tx[r].pc = "idle"
=============================================================================
