---------------------------- MODULE VideoStream ----------------------------
(***************************************************************************)
(* Starting and stopping the video publisher of one terminal.              *)
(*                                                                         *)
(* The authority over a stream is spread over two Redis keys which are     *)
(* written by separate transactions: the video document of the serial      *)
(* number (core/remote_input/video_control.py) holds the publisher epoch   *)
(* and its state, the lease hash (core/remote_input/leases.py) names the   *)
(* stream its owner runs.  Requests, revocations, the events of the agent  *)
(* and the cleanup loop each work through several such transactions and    *)
(* publications, with any interleaving between them.  The old contract     *)
(* (v1) keeps no epoch: it holds a token in the document while it starts.  *)
(*                                                                         *)
(* A process is the list of the steps it still has to do: proc[p].todo is  *)
(* a sequence of pairs <<step, stream>>.  Capability checks, descriptors   *)
(* and the wording of errors are left out.                                 *)
(***************************************************************************)
EXTENDS Naturals, Sequences, FiniteSets

CONSTANTS Leases,     \* leases of the serial number, numbered as acquired
          Coroutines, \* coroutines of requests and agent messages, numbered
          Cleaner,    \* the coroutine of the cleanup loop
          Streams,    \* stream ids of contract v2, numbered as first used
          Legacy,     \* stream ids the server draws for contract v1
          None,
          MaxEvents,  \* bound on requests, expiries and refusals or failures of the agent
          MaxFaults   \* bound on crashes, failed publications, lost writes

ASSUME StreamsAssumption ==
  /\ None \notin Leases \cup Streams \cup Legacy
  /\ Cleaner \notin Coroutines /\ Coroutines \subseteq Nat
  /\ Leases \subseteq Nat /\ Streams \subseteq Nat
  /\ Streams \cap Legacy = {}
  /\ MaxEvents \in Nat /\ MaxFaults \in Nat

VARIABLES doc,      \* video document: publisher epoch, its state, v1 token
          owner,    \* lease in whose name a stream id was used (claim keys)
          lease,    \* lease hashes
          current,  \* l4d:lease:active key
          ctl,      \* commands on their way to the agent, in order
          sent,     \* streams whose START has been published
          playing,  \* streams the agent publishes
          up,       \* what the agent ever said: delivered late, again or never
          proc,     \* what each coroutine still has to do, with its lease copy
          asked, faults   \* how much of the bounds is used

videoVars == <<doc, owner, lease, current, ctl, sent, playing, up, proc,
               asked, faults>>

Procs == Coroutines \cup {Cleaner}
Ids == Streams \cup Legacy
LIVE == {"starting", "running"}
Live(s) == doc.id = s /\ doc.st \in LIVE
Valid(l) == lease[l].st = "live"
Authority(l) == Valid(l) /\ current = l
\* The claim keys of an id outlive the epoch it was used for.
Claimed(s) == owner[s] # None

Idle == [todo |-> <<>>, lease |-> None, ver |-> 0, stream |-> None]

Steps == {"reconcile", "reserve", "save", "send", "poll", "terminate",
          "clear", "stop", "halt", "kill", "ready", "fail", "record",
          "token", "check", "publish", "await", "keep", "release", "forget"}

VideoTypeOK ==
  /\ doc \in [id: Streams \cup {None},
              st: LIVE \cup {"none", "stopped", "failed"},
              pending: Legacy \cup {None}]
  /\ owner \in [Ids -> Leases \cup {None}]
  /\ lease \in [Leases -> [st: {"new", "live", "dead"}, ver: {1, 2},
                           stream: Ids \cup {None}]]
  /\ current \in Leases \cup {None}
  /\ ctl \in Seq({"START", "STOP"} \X Ids)
  /\ sent \subseteq Ids /\ playing \subseteq Ids
  /\ up \subseteq {"READY", "ERROR", "NACK"} \X Ids
  /\ \A p \in Procs :
       /\ proc[p].todo \in Seq(Steps \X (Ids \cup {None}))
       /\ proc[p].lease \in Leases \cup {None}
       /\ proc[p].ver \in 0..2
       /\ proc[p].stream \in Ids \cup {None}
  /\ asked \in 0..MaxEvents /\ faults \in 0..MaxFaults

VideoInit ==
  /\ doc = [id |-> None, st |-> "none", pending |-> None]
  /\ owner = [s \in Ids |-> None]
  /\ lease = [l \in Leases |-> [st |-> "new", ver |-> 1, stream |-> None]]
  /\ current = None
  /\ ctl = <<>> /\ sent = {} /\ playing = {} /\ up = {}
  /\ proc = [p \in Procs |-> Idle]
  /\ asked = 0 /\ faults = 0

-----------------------------------------------------------------------------
(* Coroutines. *)

Doing(p, step, s) == /\ proc[p].todo # <<>>
                     /\ Head(proc[p].todo) = <<step, s>>
Become(p, todo) ==
  proc' = [proc EXCEPT ![p] = IF todo = <<>> THEN Idle ELSE [@ EXCEPT !.todo = todo]]
Then(p, more) == Become(p, more \o Tail(proc[p].todo))
Done(p) == Become(p, <<>>)
\* A new coroutine takes the lowest free number; it keeps the version and the
\* stream of the lease as it read them, where it uses them later.
StartWork(p, l, ver, stream, todo) ==
  /\ proc[p] = Idle /\ \A q \in Coroutines : q < p => proc[q] # Idle
  /\ proc' = [proc EXCEPT ![p] =
       [todo |-> todo, lease |-> l, ver |-> ver, stream |-> stream]]
Event == asked < MaxEvents /\ asked' = asked + 1
Fault == faults < MaxFaults /\ faults' = faults + 1

\* finish: the epoch ends, once, and only while the document still holds it
Finished(s, st) == IF Live(s) THEN [doc EXCEPT !.st = st] ELSE doc
\* save_stream: one try under WATCH, no write when the value is not expected
Stored(l, expected, s, ver) ==
  IF Valid(l) /\ lease[l].stream = expected
  THEN [lease EXCEPT ![l].stream = s, ![l].ver = ver]
  ELSE lease
Cleared(s) == Stored(owner[s], s, None, lease[owner[s]].ver)

-----------------------------------------------------------------------------
(* Leases, as far as streams depend on them (leases.py). *)

Acquire(l) ==
  /\ current = None /\ lease[l].st = "new"
  /\ \A k \in Leases : k < l => lease[k].st # "new"
  /\ lease' = [lease EXCEPT ![l].st = "live"] /\ current' = l
  /\ UNCHANGED <<doc, owner, ctl, sent, playing, up, proc, asked, faults>>

\* The keys pass their deadline; nobody is told.
Expire(l) ==
  /\ Valid(l)
  /\ lease' = [lease EXCEPT ![l].st = "dead"]
  /\ current' = IF current = l THEN None ELSE current
  /\ Event
  /\ UNCHANGED <<doc, owner, ctl, sent, playing, up, proc, faults>>

\* revoke reads the hash, writes it, then ends the stream its copy names.
Revoke(p, l) ==
  /\ Valid(l)
  /\ StartWork(p, l, lease[l].ver, lease[l].stream,
       <<<<"kill", None>>, <<"halt", None>>>> \o
         IF lease[l].ver = 1 /\ lease[l].stream # None
         THEN <<<<"stop", lease[l].stream>>>> ELSE <<>>)
  /\ Event
  /\ UNCHANGED <<doc, owner, lease, current, ctl, sent, playing, up, faults>>

Kill(p) ==
  LET l == proc[p].lease IN
  /\ Doing(p, "kill", None)
  /\ lease' = [lease EXCEPT ![l].st = "dead"]
  /\ current' = IF current = l THEN None ELSE current
  /\ Then(p, <<>>)
  /\ UNCHANGED <<doc, owner, ctl, sent, playing, up, asked, faults>>

\* stop_for_lease, with the copy of the lease its caller read
Halt(p) ==
  LET l == proc[p].lease
      s == doc.id
      mine == /\ proc[p].ver = 2 /\ doc.st \in LIVE /\ owner[s] = l
              /\ proc[p].stream \in {None, s}
  IN /\ Doing(p, "halt", None)
     /\ doc' = IF mine THEN Finished(s, "stopped") ELSE doc
     /\ Then(p, IF mine THEN <<<<"stop", s>>>> ELSE <<>>)
     /\ UNCHANGED <<owner, lease, current, ctl, sent, playing, up, asked, faults>>

-----------------------------------------------------------------------------
(* Contract v2: start. *)

StartBegin(p, l, s) ==
  /\ Valid(l) /\ \A i \in Streams : i < s => Claimed(i)
  /\ StartWork(p, l, 0, lease[l].stream, <<<<"reconcile", None>>, <<"reserve", s>>,
                   <<"save", s>>, <<"send", s>>, <<"poll", s>>>>)
  /\ Event
  /\ UNCHANGED <<doc, owner, lease, current, ctl, sent, playing, up, faults>>

\* The cleanup loop looks at every document once a second.
Clean ==
  /\ doc.st \in LIVE /\ ~Authority(owner[doc.id])
  /\ proc[Cleaner] = Idle
  /\ proc' = [proc EXCEPT ![Cleaner].todo = <<<<"reconcile", None>>>>]
  /\ UNCHANGED <<doc, owner, lease, current, ctl, sent, playing, up, asked, faults>>

Reconcile(p) ==
  LET s == doc.id
      orphan == doc.st \in LIVE /\ ~Authority(owner[s])
  IN /\ Doing(p, "reconcile", None)
     /\ doc' = IF orphan THEN Finished(s, "stopped") ELSE doc
     /\ Then(p, IF orphan THEN <<<<"clear", s>>, <<"stop", s>>>> ELSE <<>>)
     /\ UNCHANGED <<owner, lease, current, ctl, sent, playing, up, asked, faults>>

\* bugs: reserve ignores the token of a v1 start; it ignores the claim keys
MutantFree(p, s) == doc.st \notin LIVE /\ proc[p].stream = None /\ ~Claimed(s)
Free(p, s) == /\ doc.pending = None
              /\ doc.st \notin LIVE
              /\ proc[p].stream = None
              /\ ~Claimed(s)

\* A camera stream of the terminal, which has a document of its own, refuses it too.
Reserve(p, s) ==
  LET l == proc[p].lease
  IN /\ Doing(p, "reserve", s)
     /\ \E free \in {FALSE, Free(p, s) /\ Authority(l)} :
          /\ doc' = IF free THEN [doc EXCEPT !.id = s, !.st = "starting"] ELSE doc
          /\ owner' = IF free THEN [owner EXCEPT ![s] = l] ELSE owner
          /\ IF free THEN Then(p, <<>>) ELSE Done(p)
     /\ UNCHANGED <<lease, current, ctl, sent, playing, up, asked, faults>>

\* The lease is written after the document; when that fails the epoch ends.
Save(p, s) ==
  LET l == proc[p].lease
      stored == Stored(l, None, s, 2)
  IN /\ Doing(p, "save", s)
     /\ \/ /\ stored # lease
           /\ lease' = stored /\ Then(p, <<>>)
           /\ UNCHANGED <<doc, faults>>
        \/ /\ IF stored = lease THEN UNCHANGED faults ELSE Fault
           /\ doc' = Finished(s, "failed") /\ Done(p)
           /\ UNCHANGED lease
     /\ UNCHANGED <<owner, current, ctl, sent, playing, up, asked>>

Send(p, s) ==
  /\ Doing(p, "send", s)
  /\ \/ /\ ctl' = Append(ctl, <<"START", s>>) /\ sent' = sent \cup {s}
        /\ Then(p, <<>>) /\ UNCHANGED faults
     \/ /\ Fault /\ Become(p, <<<<"terminate", s>>>>)
        /\ UNCHANGED <<ctl, sent>>
  /\ UNCHANGED <<doc, owner, lease, current, playing, up, asked>>

\* a bug: no compensating STOP
MutantAnswer(s) == IF Live(s) THEN IF doc.st = "starting" THEN <<<<"terminate", s>>>> ELSE <<>>
                   ELSE IF doc.id = s THEN <<<<"clear", s>>>> ELSE <<>>
\* What the caller does when the document answers: a STOP that another
\* process published before this START is repeated behind it.
Answer(s) ==
  IF Live(s) THEN IF doc.st = "starting" THEN <<<<"terminate", s>>>> ELSE <<>>
  ELSE IF doc.id # s THEN <<>>
  ELSE <<<<"clear", s>>>> \o IF doc.st = "stopped" THEN <<<<"stop", s>>>> ELSE <<>>

\* poll until the state changes, the time is over or the caller goes away
Poll(p, s) ==
  /\ Doing(p, "poll", s)
  /\ Then(p, Answer(s))
  /\ UNCHANGED <<doc, owner, lease, current, ctl, sent, playing, up, asked, faults>>

Terminate(p, s) ==
  /\ Doing(p, "terminate", s)
  /\ doc' = Finished(s, "failed")
  /\ Then(p, IF Live(s) THEN <<<<"clear", s>>, <<"stop", s>>>> ELSE <<>>)
  /\ UNCHANGED <<owner, lease, current, ctl, sent, playing, up, asked, faults>>

\* clear_lease reads the hash and writes it, unless it changed in between
Clear(p, s) ==
  /\ Doing(p, "clear", s)
  /\ Then(p, <<>>)
  /\ \/ lease' = Cleared(s) /\ UNCHANGED faults
     \/ Cleared(s) # lease /\ Fault /\ UNCHANGED lease
  /\ UNCHANGED <<doc, owner, current, ctl, sent, playing, up, asked>>

StopCommand(p, s) ==
  /\ Doing(p, "stop", s)
  /\ Then(p, <<>>)
  /\ \/ ctl' = Append(ctl, <<"STOP", s>>) /\ UNCHANGED faults
     \/ Fault /\ UNCHANGED ctl
  /\ UNCHANGED <<doc, owner, lease, current, sent, playing, up, asked>>

StopBegin(p, l) ==
  /\ Valid(l) /\ doc.id # None /\ owner[doc.id] = l
  /\ StartWork(p, l, lease[l].ver, lease[l].stream, <<<<"halt", None>>, <<"clear", doc.id>>>>)
  /\ Event
  /\ UNCHANGED <<doc, owner, lease, current, ctl, sent, playing, up, faults>>

-----------------------------------------------------------------------------
(* Events and replies of the agent; one that no epoch waits for is ignored. *)

Handle(p, m) ==
  LET s == m[2]
      l == owner[s]
      work == CASE m[1] = "READY" ->
                     IF Live(s) /\ Valid(l) /\ lease[l].ver = 2 /\ lease[l].stream = s
                     THEN <<<<"ready", s>>, <<"record", s>>>> ELSE <<>>
                [] m[1] = "ERROR" ->
                     IF Live(s) THEN <<<<"fail", s>>, <<"record", s>>>> ELSE <<>>
                [] OTHER ->
                     IF Live(s) /\ doc.st = "starting"
                     THEN <<<<"terminate", s>>>> ELSE <<>>
  IN /\ s \in Streams /\ work # <<>>
     /\ StartWork(p, l, 0, lease[l].stream, work)
     /\ UNCHANGED <<doc, owner, lease, current, ctl, sent, playing, up, asked, faults>>

ReadyEvent(p, s) ==
  LET ok == Live(s) /\ doc.st = "starting" /\ Authority(owner[s])
  IN /\ Doing(p, "ready", s)
     /\ doc' = IF ok THEN [doc EXCEPT !.st = "running"] ELSE doc
     /\ IF ok THEN Then(p, <<>>) ELSE Done(p)
     /\ UNCHANGED <<owner, lease, current, ctl, sent, playing, up, asked, faults>>

ErrorEvent(p, s) ==
  /\ Doing(p, "fail", s)
  /\ doc' = Finished(s, "failed")
  /\ IF Live(s) THEN Then(p, <<>>) ELSE Done(p)
  /\ UNCHANGED <<owner, lease, current, ctl, sent, playing, up, asked, faults>>

Record(p, s) ==
  LET over == doc.id = s /\ doc.st \notin LIVE /\ proc[p].stream = s
  IN /\ Doing(p, "record", s)
     /\ Then(p, <<>>)
     /\ \/ lease' = (IF over THEN Cleared(s) ELSE lease) /\ UNCHANGED faults
        \/ over /\ Cleared(s) # lease /\ Fault /\ UNCHANGED lease
     /\ UNCHANGED <<doc, owner, current, ctl, sent, playing, up, asked>>

-----------------------------------------------------------------------------
(* Contract v1: a token in the document while the stream starts, then only *)
(* the lease knows of it.                                                  *)

LegacyBegin(p, l, s) ==
  /\ Valid(l) /\ ~Claimed(s)
  /\ StartWork(p, l, 0, None, <<<<"token", s>>, <<"check", s>>, <<"publish", s>>,
                   <<"await", s>>, <<"keep", s>>, <<"release", s>>>>)
  /\ owner' = [owner EXCEPT ![s] = l]
  /\ Event
  /\ UNCHANGED <<doc, lease, current, ctl, sent, playing, up, faults>>

\* An equal start waits for the token until its own deadline.
Token(p, s) ==
  /\ Doing(p, "token", s)
  /\ \/ /\ doc.pending = None
        /\ doc' = [doc EXCEPT !.pending = s] /\ Then(p, <<>>)
     \/ doc.pending # None /\ Done(p) /\ UNCHANGED doc
  /\ UNCHANGED <<owner, lease, current, ctl, sent, playing, up, asked, faults>>

Check(p, s) ==
  LET l == proc[p].lease
      ok == Valid(l) /\ doc.st \notin LIVE /\ lease[l].stream = None
  IN /\ Doing(p, "check", s)
     /\ IF ok THEN Then(p, <<>>) ELSE Become(p, <<<<"release", s>>>>)
     /\ UNCHANGED <<doc, owner, lease, current, ctl, sent, playing, up, asked, faults>>

Publish(p, s) ==
  /\ Doing(p, "publish", s)
  /\ \/ /\ ctl' = Append(ctl, <<"START", s>>) /\ sent' = sent \cup {s}
        /\ Then(p, <<>>) /\ UNCHANGED faults
     \/ /\ Fault /\ Become(p, <<<<"release", s>>>>) /\ UNCHANGED <<ctl, sent>>
  /\ UNCHANGED <<doc, owner, lease, current, playing, up, asked>>

Await(p, s) ==
  /\ Doing(p, "await", s)
  /\ \/ <<"READY", s>> \in up /\ Then(p, <<>>)
     \/ Become(p, <<<<"release", s>>>>)
  /\ UNCHANGED <<doc, owner, lease, current, ctl, sent, playing, up, asked, faults>>

Keep(p, s) ==
  /\ Doing(p, "keep", s)
  /\ lease' = Stored(proc[p].lease, None, s, 1)
  /\ Then(p, <<>>)
  /\ UNCHANGED <<doc, owner, current, ctl, sent, playing, up, asked, faults>>

Release(p, s) ==
  /\ Doing(p, "release", s)
  /\ doc' = IF doc.pending = s THEN [doc EXCEPT !.pending = None] ELSE doc
  /\ Then(p, <<>>)
  /\ UNCHANGED <<owner, lease, current, ctl, sent, playing, up, asked, faults>>

\* The token of a crashed start runs out; a start ends long before its token.
TokenExpires ==
  /\ doc.pending # None
  /\ \A p \in Procs : \A i \in DOMAIN proc[p].todo :
       proc[p].todo[i] # <<"release", doc.pending>>
  /\ doc' = [doc EXCEPT !.pending = None]
  /\ UNCHANGED <<owner, lease, current, ctl, sent, playing, up, proc, asked, faults>>

LegacyStop(p, l) ==
  LET s == lease[l].stream IN
  /\ Valid(l) /\ lease[l].ver = 1 /\ s # None
  /\ \A i \in DOMAIN ctl : ctl[i] # <<"STOP", s>>   \* bound: one at a time
  /\ StartWork(p, l, 0, None, <<<<"stop", s>>, <<"forget", s>>>>)
  /\ Event
  /\ UNCHANGED <<doc, owner, lease, current, ctl, sent, playing, up, faults>>

\* cleared when the agent confirms, kept when it does not answer in time
Forget(p, s) ==
  /\ Doing(p, "forget", s)
  /\ Then(p, <<>>)
  /\ \/ s \notin playing /\ lease' = Cleared(s)
     \/ UNCHANGED lease
  /\ UNCHANGED <<doc, owner, current, ctl, sent, playing, up, asked, faults>>

-----------------------------------------------------------------------------
(* The agent, its connection, and the process of the server. *)

Deliver ==
  /\ ctl # <<>> /\ ctl' = Tail(ctl)
  /\ LET s == Head(ctl)[2] IN
     \/ /\ Head(ctl)[1] = "START"
        /\ \/ /\ playing' = playing \cup {s} /\ up' = up \cup {<<"READY", s>>}
              /\ UNCHANGED asked
           \/ up' = up \cup {<<"NACK", s>>} /\ Event /\ UNCHANGED playing
     \/ /\ Head(ctl)[1] = "STOP"
        /\ playing' = playing \ {s} /\ UNCHANGED <<up, asked>>
  /\ UNCHANGED <<doc, owner, lease, current, sent, proc, faults>>

AgentFails(s) ==
  /\ s \in playing /\ playing' = playing \ {s}
  /\ up' = up \cup {<<"ERROR", s>>}
  /\ Event
  /\ UNCHANGED <<doc, owner, lease, current, ctl, sent, proc, faults>>

LoseCommand ==
  /\ ctl # <<>> /\ ctl' = Tail(ctl) /\ Fault
  /\ UNCHANGED <<doc, owner, lease, current, sent, playing, up, proc, asked>>

ServerCrash ==
  /\ \E p \in Procs : proc[p] # Idle
  /\ proc' = [p \in Procs |-> Idle] /\ Fault
  /\ UNCHANGED <<doc, owner, lease, current, ctl, sent, playing, up, asked>>

-----------------------------------------------------------------------------
\* A coroutine goes on with the first of its steps.
Work(p) ==
  \/ Kill(p) \/ Halt(p) \/ Reconcile(p)
  \/ \E s \in Streams : \/ Reserve(p, s) \/ Save(p, s) \/ Send(p, s) \/ Poll(p, s)
                        \/ Terminate(p, s) \/ Clear(p, s)
                        \/ ReadyEvent(p, s) \/ ErrorEvent(p, s) \/ Record(p, s)
  \/ \E s \in Legacy : \/ Token(p, s) \/ Check(p, s) \/ Publish(p, s)
                       \/ Await(p, s) \/ Keep(p, s) \/ Release(p, s) \/ Forget(p, s)
  \/ \E s \in Ids : StopCommand(p, s)

VideoNext ==
  \/ \E l \in Leases : Acquire(l) \/ Expire(l)
  \/ \E p \in Coroutines, l \in Leases :
       \/ Revoke(p, l) \/ StopBegin(p, l) \/ LegacyStop(p, l)
       \/ \E s \in Streams : StartBegin(p, l, s)
       \/ \E s \in Legacy : LegacyBegin(p, l, s)
  \/ \E p \in Coroutines, m \in up : Handle(p, m)
  \/ \E p \in Procs : Work(p)
  \/ Clean \/ TokenExpires
  \/ Deliver \/ LoseCommand \/ ServerCrash
  \/ \E s \in Streams : AgentFails(s)

VideoSpec == VideoInit /\ [][VideoNext]_videoVars

\* Coroutines are scheduled, the cleanup loop runs every second, and the
\* broker delivers what it does not lose.
Fairness == /\ \A p \in Procs : WF_videoVars(Work(p))
            /\ WF_videoVars(Clean) /\ WF_videoVars(Deliver)

VideoFairSpec == VideoSpec /\ Fairness

-----------------------------------------------------------------------------
(* Properties. *)

\* A v2 epoch is live only while no v1 start of the terminal is past its
\* checks, and a live lease whose recorded stream is a v1 stream never has a
\* published v2 epoch beside it: the two contracts share one publisher although
\* they exclude each other by different keys (legacy_start, reserve).
OnePublisher ==
  /\ \A p \in Procs, s \in Legacy :
       Doing(p, "publish", s) \/ Doing(p, "await", s) \/ Doing(p, "keep", s)
         => doc.st \notin LIVE
  /\ \A l \in Leases :
       Valid(l) /\ lease[l].ver = 1 /\ lease[l].stream # None
         => ~(doc.st \in LIVE /\ doc.id \in sent)

\* Without a fault the agent does not go on publishing an epoch that is retired
\* and not yet replaced, although the STOP may overtake the START it is meant
\* for: the start repeats it.
OrphanStops ==
  \A s \in Streams : s \in playing /\ doc.id = s /\ ~Live(s)
                       ~> s \notin playing \/ doc.id # s \/ faults > 0

=============================================================================
