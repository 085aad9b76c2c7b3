---------------------------- MODULE CameraControl ----------------------------
(***************************************************************************)
(* The camera stream of one terminal: a record in the video document of    *)
(* its serial number, a field of the publisher's lease that names the      *)
(* stream, and the START and STOP sent to the agent.  Requests to start    *)
(* and to stop, reports of the agent and the cleanup loop work on the two  *)
(* with Redis transactions of their own and waits in between.              *)
(***************************************************************************)
EXTENDS Naturals, FiniteSets

CONSTANTS
  Starters,    \* requests to start, at a time
  Streams,     \* stream ids, each of one START payload
  MaxLeases,   \* bound: leases of the serial number
  Negotiated,  \* streams started with the monotonic runtime
  MaxStarts,   \* bound: requests to start
  MaxStops,    \* bound: requests to stop
  MaxCrashes   \* bound: crashes of the worker

NoStream == "none"
\* Mutant: a stream that is being stopped is forgotten.
LiveOnly == {"starting", "running"}

Live == {"starting", "running", "stopping"}
NoRecord == [stream |-> NoStream, lease |-> 0, state |-> "absent"]

VARIABLES
  active,    \* the lease that l4d:lease:active:{sn} names; 0 for none
  last,      \* leases so far
  on,        \* of each lease: its stream_instance_id
  record,    \* camera_stream in the document
  claimed,   \* claim keys: streams that have been started
  starter,   \* requests to start
  stopper,   \* the request to stop
  events,    \* streams whose end the agent reports; "running" changes nothing here
  reporter,  \* the handler of a report
  loop,      \* the cleanup loop
  spent      \* how much of each bound is used

vars == <<active, last, on, record, claimed, starter, stopper, events, reporter, loop, spent>>
redis == <<active, last, on, record, claimed>>
tasks == <<starter, stopper, reporter, loop>>

Idle == [pc |-> "idle"]

Init ==
  /\ active = 0 /\ last = 0
  /\ on = [l \in 1..MaxLeases |-> NoStream]
  /\ record = NoRecord
  /\ claimed = {}
  /\ starter = [r \in Starters |-> Idle]
  /\ stopper = Idle /\ reporter = Idle /\ loop = Idle
  /\ events = {}
  /\ spent = [starts |-> 0, stops |-> 0, crashes |-> 0]

----------------------------------------------------------------------------
(* Redis *)

\* publisher_lease: the active lease, whatever state the caller has in hand.
Authority(l) == active = l

\* update: changes the record of this epoch, if it is in one of the states.
Updates(s, states) == record.stream = s /\ record.state \in states
Update(s, states, new) ==
  record' = IF Updates(s, states) THEN [record EXCEPT !.state = new] ELSE record

AnyState == Live \cup {"stopped", "failed"}

\* save_stream: the field is changed only by who knows its value.
Saves(l, expected) == Authority(l) /\ on[l] = expected

\* A live epoch that has lost its lease, or that the lease does not name.
Orphan ==
  record.state \in Live
  /\ (~Authority(record.lease) \/ on[record.lease] # record.stream)

----------------------------------------------------------------------------
(* clear_lease, in the four places that call it *)

\* Takes the stream off its lease, and then goes on with the task `then`.
ClearLease(epoch, then) ==
  [pc |-> "clear", stream |-> epoch.stream, lease |-> epoch.lease, then |-> then]

NamedBy(task) == on[task.lease] = task.stream

\* If the lease does not name the stream there is nothing to do.
After(task) ==
  CASE task.pc = "clear" /\ NamedBy(task) -> [task EXCEPT !.pc = "clearing"]
    [] task.pc = "clearing"               -> [task EXCEPT !.pc = "revoke"]
    [] OTHER                              -> task.then

ReadLease(task) ==
  /\ task.pc = "clear"
  /\ UNCHANGED <<active, on>>

SaveCleared(task) ==
  /\ task.pc = "clearing"
  /\ on' = IF Saves(task.lease, task.stream) THEN [on EXCEPT ![task.lease] = NoStream] ELSE on
  /\ UNCHANGED active

\* The negotiated runtime wants a new lease for every attempt.
RevokeLease(task) ==
  /\ task.pc = "revoke"
  /\ active' = IF task.stream \in Negotiated /\ record.stream = task.stream
                  /\ active = task.lease
               THEN 0 ELSE active
  /\ UNCHANGED on

Clearing(task) == ReadLease(task) \/ SaveCleared(task) \/ RevokeLease(task)

----------------------------------------------------------------------------
(* start *)

SetStarter(r, task) == starter' = [starter EXCEPT ![r] = task]
Goto(r, pc) == starter' = [starter EXCEPT ![r].pc = pc]

\* The lease is read ...
Begin(r, s) ==
  /\ starter[r] = Idle /\ active # 0 /\ spent.starts < MaxStarts
  /\ spent' = [spent EXCEPT !.starts = @ + 1]
  /\ SetStarter(r, [pc |-> "reconcile", stream |-> s, lease |-> active,
                    free |-> on[active] = NoStream])
  /\ UNCHANGED <<redis, stopper, events, reporter, loop>>

\* ... and an orphan of before is retired first.
StartReconciles(r) ==
  LET ready == [starter[r] EXCEPT !.pc = "reserve"] IN
  /\ starter[r].pc = "reconcile"
  /\ IF Orphan THEN /\ Update(record.stream, Live, "stopped")
                    /\ SetStarter(r, ClearLease(record, ready))
               ELSE SetStarter(r, ready) /\ UNCHANGED record
  /\ UNCHANGED <<active, last, on, claimed, stopper, events, reporter, loop, spent>>

Replayed(r) == record.stream = starter[r].stream /\ record.lease = starter[r].lease

Refused(r) ==
  \/ ~Authority(starter[r].lease)
  \/ Replayed(r)
  \/ record.state \in Live
  \/ ~starter[r].free
  \/ starter[r].stream \in claimed

Reserve(r) ==
  /\ starter[r].pc = "reserve"
  /\ IF Refused(r) THEN SetStarter(r, Idle) /\ UNCHANGED <<record, claimed>>
     ELSE /\ record' = [stream |-> starter[r].stream, lease |-> starter[r].lease,
                        state |-> "starting"]
          /\ claimed' = claimed \cup {starter[r].stream}
          /\ Goto(r, "save")
  /\ UNCHANGED <<active, last, on, stopper, events, reporter, loop, spent>>

\* The lease takes the stream only if it has none.
Save(r) ==
  LET t == starter[r] IN
  /\ t.pc = "save"
  /\ IF Saves(t.lease, NoStream)
       THEN on' = [on EXCEPT ![t.lease] = t.stream] /\ Goto(r, "send") /\ UNCHANGED record
       ELSE Update(t.stream, AnyState, "failed") /\ SetStarter(r, Idle) /\ UNCHANGED on
  /\ UNCHANGED <<active, last, claimed, stopper, events, reporter, loop, spent>>

\* START goes out; the agent runs it, and reports its end some time later.
Send(r) ==
  /\ starter[r].pc = "send"
  /\ events' = events \cup {starter[r].stream}
  /\ Goto(r, "ack")
  /\ UNCHANGED <<redis, stopper, reporter, loop, spent>>

\* The command is refused by the runtime or the broker, no ACK comes in time, or
\* another one than expected.
Unconfirmed(r) ==
  /\ starter[r].pc \in {"send", "ack"}
  /\ Goto(r, "fail")
  /\ UNCHANGED <<redis, stopper, events, reporter, loop, spent>>

\* Only an epoch that is still starting, under the lease that names it.
Confirmable(s) ==
  /\ Updates(s, {"starting", "running"})
  /\ Authority(record.lease) /\ on[record.lease] = s

Ack(r) ==
  /\ starter[r].pc = "ack"
  /\ IF Confirmable(starter[r].stream)
       THEN record' = [record EXCEPT !.state = "running"] /\ SetStarter(r, Idle)
       ELSE Goto(r, "fail") /\ UNCHANGED record
  /\ UNCHANGED <<active, last, on, claimed, stopper, events, reporter, loop, spent>>

Fail(r) ==
  /\ starter[r].pc = "fail"
  /\ Update(starter[r].stream, Live, "failed")
  /\ SetStarter(r, ClearLease(starter[r], Idle))
  /\ UNCHANGED <<active, last, on, claimed, stopper, events, reporter, loop, spent>>

\* The STOP that follows may fail: agent and media keep the deadline themselves.
StartClears(r) ==
  /\ Clearing(starter[r]) /\ SetStarter(r, After(starter[r]))
  /\ UNCHANGED <<last, record, claimed, stopper, events, reporter, loop, spent>>

----------------------------------------------------------------------------
(* stop: by the client, or for the release of a lease *)

StopRead ==
  /\ stopper = Idle /\ spent.stops < MaxStops
  /\ record.state \in Live
  /\ spent' = [spent EXCEPT !.stops = @ + 1]
  /\ stopper' = [pc |-> "stopping", stream |-> record.stream, lease |-> record.lease]
  /\ UNCHANGED <<redis, starter, events, reporter, loop>>

\* Whatever has become of the record since: a retired one is "stopping" again.
Stopping ==
  /\ stopper.pc = "stopping"
  /\ Update(stopper.stream, AnyState, "stopping")
  /\ stopper' = [stopper EXCEPT !.pc = "send"]
  /\ UNCHANGED <<active, last, on, claimed, starter, events, reporter, loop, spent>>

StopSent ==
  /\ stopper.pc = "send"
  /\ stopper' = Idle
  /\ events' = events \cup {stopper.stream}
  /\ UNCHANGED <<redis, starter, reporter, loop, spent>>

\* The STOP is not published: the error goes to the caller.
StopLost ==
  /\ stopper.pc = "send"
  /\ stopper' = Idle
  /\ UNCHANGED <<redis, starter, events, reporter, loop, spent>>

\* The runtime does not know the stream as live: the record is stopped here.
StopNotLive ==
  /\ stopper.pc = "send" /\ stopper.stream \in Negotiated
  /\ Update(stopper.stream, AnyState, "stopped")
  /\ stopper' = ClearLease(stopper, Idle)
  /\ UNCHANGED <<active, last, on, claimed, starter, events, reporter, loop, spent>>

StopClears ==
  /\ Clearing(stopper) /\ stopper' = After(stopper)
  /\ UNCHANGED <<last, record, claimed, starter, events, reporter, loop, spent>>

----------------------------------------------------------------------------
(* event *)

Ignored(s) ==
  /\ s \in events /\ record.stream # s
  /\ events' = events \ {s}
  /\ UNCHANGED <<redis, tasks, spent>>

\* The record is read; the runtime retires the stream while it may change.
EventRead(s) ==
  /\ reporter = Idle
  /\ s \in events /\ record.stream = s
  /\ events' = events \ {s}
  /\ reporter' = [pc |-> "stopped", stream |-> s, lease |-> record.lease]
  /\ UNCHANGED <<redis, starter, stopper, loop, spent>>

EventStops ==
  /\ reporter.pc = "stopped"
  /\ \E state \in {"stopped", "failed"} : Update(reporter.stream, AnyState, state)
  /\ reporter' = ClearLease(reporter, Idle)
  /\ UNCHANGED <<active, last, on, claimed, starter, stopper, events, loop, spent>>

EventClears ==
  /\ Clearing(reporter) /\ reporter' = After(reporter)
  /\ UNCHANGED <<last, record, claimed, starter, stopper, events, loop, spent>>

----------------------------------------------------------------------------
(* cleanup *)

RetireInLoop ==
  /\ loop = Idle
  /\ Update(record.stream, Live, "stopped")
  /\ loop' = ClearLease(record, Idle)
  /\ UNCHANGED <<active, last, on, claimed, starter, stopper, events, reporter, spent>>

Reconcile == Orphan /\ RetireInLoop

\* A negotiated stream is also retired when its camera or runtime is unfit.
ReconcileUnfit ==
  /\ record.state \in Live /\ record.stream \in Negotiated /\ ~Orphan
  /\ RetireInLoop

LoopClears ==
  /\ Clearing(loop) /\ loop' = After(loop)
  /\ UNCHANGED <<last, record, claimed, starter, stopper, events, reporter, spent>>

----------------------------------------------------------------------------
(* Leases and the process *)

\* Released, revoked or expired.
LeaseEnds ==
  /\ active # 0
  /\ active' = 0
  /\ UNCHANGED <<last, on, record, claimed, tasks, events, spent>>

LeaseBegins ==
  /\ active = 0 /\ last < MaxLeases
  /\ last' = last + 1 /\ active' = last'
  /\ UNCHANGED <<on, record, claimed, tasks, events, spent>>

Crash ==
  /\ spent.crashes < MaxCrashes
  /\ starter' = [r \in Starters |-> Idle]
  /\ stopper' = Idle /\ reporter' = Idle /\ loop' = Idle
  /\ spent' = [spent EXCEPT !.crashes = @ + 1]
  /\ UNCHANGED <<redis, events>>

Start(r) ==
  \/ StartReconciles(r) \/ Reserve(r) \/ Save(r) \/ Send(r) \/ Unconfirmed(r)
  \/ Ack(r) \/ Fail(r) \/ StartClears(r)
Stop == Stopping \/ StopSent \/ StopLost \/ StopNotLive \/ StopClears
Report == EventStops \/ EventClears
Loop == Reconcile \/ LoopClears

Next ==
  \/ \E r \in Starters : Start(r) \/ \E s \in Streams : Begin(r, s)
  \/ StopRead \/ Stop
  \/ \E s \in events : Ignored(s) \/ EventRead(s)
  \/ Report \/ Loop \/ ReconcileUnfit
  \/ LeaseEnds \/ LeaseBegins \/ Crash

(* The loop runs every second and is never held for long: STOP is sent with a
   timeout and its failure ignored. *)
Fairness == WF_vars(Loop)

Spec == Init /\ [][Next]_vars /\ Fairness

----------------------------------------------------------------------------
Abandoned(s) ==
  /\ record.stream = s
  /\ record.state \in {"starting", "running", "stopping"}
  /\ active # record.lease \/ on[record.lease] # s

(* A record that lost its lease does not stay live, also when the worker that
   was starting or stopping it crashed, and when a stop that comes too late made
   it live again (control.py, reconcile and cleanup). *)
OrphanRetired ==
  \A s \in Streams : Abandoned(s) ~> ~Abandoned(s)
=============================================================================
