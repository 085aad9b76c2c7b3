---------------------------- MODULE CameraIssuer ----------------------------
(***************************************************************************)
(* The issuer of camera commands of one terminal: a durable row in         *)
(* PostgreSQL (core/camera/runtime_store.py), the transitions of that row  *)
(* (CameraMachine in runtime_state.py), the issuer processes that fight    *)
(* for it and publish its outbox (CameraRuntime in runtime.py), and the    *)
(* terminal at the other end of the broker.                                *)
(*                                                                         *)
(* Workers only enqueue jobs.  One issuer owns the row for ten seconds at  *)
(* a time; a takeover raises the generation, and the epoch uuid drawn with *)
(* it is identified with the generation.  A nonce is identified with the   *)
(* query it was drawn for.  Deadlines pass at any moment.                  *)
(*                                                                         *)
(* The terminal is external: it follows the four-message enrollment of     *)
(* docs/camera-boot-issuer-enrollment.md.  What either side ever published *)
(* may arrive late, twice, in another order, or not at all.                *)
(***************************************************************************)
EXTENDS Naturals, Sequences, FiniteSets

CONSTANTS Issuers,   \* issuer processes
          Boots,     \* boot ids of the terminal, numbered as they come
          Eids,      \* enrollment ids, numbered as they are drawn
          Streams,   \* streams, each with a lease of its own
          Configs,   \* authorised bindings
          None,
          MaxGen, MaxSeq,  \* bounds on takeovers and on readiness queries
          MaxRenew,        \* bound on the commands of an attempt
          MaxQueue,        \* bound on the inbox (64 in the code)
          MaxEvents,       \* bound on requests, hellos, reboots, lost leases
          MaxFaults        \* bound on crashes, stalls and failed commits

ASSUME IssuerAssumption ==
  /\ Boots \subseteq Nat /\ Eids \subseteq Nat
  /\ None \notin Issuers \cup Boots \cup Eids \cup Streams \cup Configs
  /\ MaxGen \in Nat /\ MaxSeq \in Nat \ {0} /\ MaxRenew \in Nat \ {0} /\ MaxQueue \in Nat
  /\ MaxEvents \in Nat /\ MaxFaults \in Nat

VARIABLES row,    \* the authority row: what a transaction reads and commits
          clock,  \* generation each issuer process holds a clock for, or None
          down,   \* what was published to the terminal
          up,     \* what the terminal published
          made,   \* every query and start ever committed to the outbox
          lost,   \* streams whose lease is gone
          dev,    \* the terminal
          events, faults

vars == <<row, clock, down, up, made, lost, dev, events, faults>>

Larger(a, b) == IF a > b THEN a ELSE b

Hello == [t: {"hello"}, boot: Boots, eid: Eids, hw: 0..MaxSeq]
Offer == [t: {"offer"}, boot: Boots, eid: Eids, gen: 1..MaxGen, config: Configs, floor: 0..MaxSeq]
Proof == [t: {"proof"}, boot: Boots, eid: Eids, gen: 1..MaxGen, config: Configs,
          floor: 0..MaxSeq, hw: 0..MaxSeq]
Commit == [t: {"commit"}, boot: Boots, eid: Eids, gen: 1..MaxGen, config: Configs, floor: 0..MaxSeq]
Query == [t: {"query"}, boot: Boots, gen: 1..MaxGen, config: Configs, seq: 1..MaxSeq]
Result == [t: {"result"}, boot: Boots, gen: 1..MaxGen, config: Configs, seq: 1..MaxSeq]
Command == [t: {"start", "renew", "stop"}, boot: Boots, gen: 1..MaxGen, config: Configs,
            seq: 1..MaxSeq, stream: Streams, n: 1..(MaxRenew + 1)]
Wire == Offer \cup Commit \cup Query \cup Command

\* The start of the attempt that is live, with the number of its last command.
Active == [t: {"start"}, boot: Boots, gen: 1..MaxGen, config: Configs,
           seq: 1..MaxSeq, stream: Streams, n: 1..MaxRenew]

Job == [k: {"configure"}, v: Configs] \cup [k: {"readiness"}, v: {None}]
         \cup [k: {"start"}, v: Query \X Streams] \cup [k: {"renew", "stop", "retire"}, v: Streams]
         \cup [k: {"nack"}, v: Command] \cup [k: {"release"}, v: Wire]
         \cup [k: {"incoming"}, v: Hello \cup Proof \cup Result]

Row == [owner: Issuers \cup {None}, fenced: BOOLEAN, gen: 0..MaxGen, counter: 0..MaxSeq,
        boot: Boots \cup {None}, retired: SUBSET Boots, config: Configs \cup {None},
        enrolled: BOOLEAN,
        pending: [hello: Hello, offer: Offer] \cup {None},
        completed: [hello: Hello, proof: Proof, commit: Commit] \cup {None},
        ready: [q: Query, accepted: BOOLEAN, consumed: BOOLEAN] \cup {None},
        active: Active \cup {None}, hellos: SUBSET Eids,
        outbox: SUBSET [m: Wire, held: BOOLEAN],
        jobs: Seq(Job)]

ASSUME NoneAssumption == None \notin Active

TypeOK ==
  /\ row \in Row /\ Len(row.jobs) <= MaxQueue
  /\ clock \in [Issuers -> (1..MaxGen) \cup {None}]
  /\ down \subseteq Wire
  /\ up \subseteq Hello \cup Proof \cup Result \cup [t: {"nack"}, c: Command]
  /\ made \subseteq Query \cup Command /\ lost \subseteq Streams
  /\ dev \in [boot: Boots, hw: 0..MaxSeq, eid: Eids \cup {None}, proof: Offer \cup {None},
              gen: 0..MaxGen, config: Configs \cup {None}, ready: (0..MaxSeq) \cup {None}]

Init ==
  /\ row = [owner |-> None, fenced |-> FALSE, gen |-> 0, counter |-> 0,
            boot |-> None, retired |-> {}, config |-> None, enrolled |-> FALSE,
            pending |-> None, completed |-> None, ready |-> None, active |-> None,
            hellos |-> {}, outbox |-> {}, jobs |-> <<>>]
  /\ clock = [o \in Issuers |-> None]
  /\ down = {} /\ up = {} /\ made = {} /\ lost = {}
  /\ \E b \in Boots :
       /\ \A c \in Boots : b <= c
       /\ dev = [boot |-> b, hw |-> 1, eid |-> None, proof |-> None, gen |-> 0,
                 config |-> None, ready |-> None]
  /\ events = 0 /\ faults = 0

-----------------------------------------------------------------------------
(* Transitions of the row (CameraMachine): each returns the row after the  *)
(* job, the same row when the job is refused.                              *)

\* A publication may fail and be tried later, so that the order of the outbox
\* promises nothing: it is a set.
Emit(r, m, held) ==
  IF \E e \in r.outbox : e.m = m THEN r
  ELSE [r EXCEPT !.outbox = @ \cup {[m |-> m, held |-> held]}]

Without(box, types) == {e \in box : e.m.t \notin types}

Configure(r, c) ==
  IF r.active # None \/ r.config = c THEN r
  ELSE [r EXCEPT !.config = c, !.enrolled = FALSE, !.pending = None, !.ready = None,
                 !.outbox = {}, !.completed = None]

\* A hello is answered by one offer; while it is pending, or just completed,
\* a repetition gets the same answer again.
OnHello(r, m) ==
  LET offer == [t |-> "offer", boot |-> m.boot, eid |-> m.eid, gen |-> r.gen,
                config |-> r.config,
                floor |-> Larger(IF m.boot = r.boot THEN r.counter ELSE 0, m.hw)]
  IN IF m.boot \in r.retired THEN r
     ELSE IF r.pending # None
     THEN IF r.pending.hello = m THEN Emit(r, r.pending.offer, FALSE) ELSE r
     ELSE IF r.completed # None /\ r.completed.hello = m
     THEN Emit(r, r.completed.commit, FALSE)
     ELSE IF m.eid \in r.hellos THEN r
     ELSE Emit([r EXCEPT !.pending = [hello |-> m, offer |-> offer],
                         !.hellos = @ \cup {m.eid}], offer, FALSE)

Matches(m, offer) == \A f \in DOMAIN offer \ {"t"} : m[f] = offer[f]

\* Mutant: what the terminal reports is left out.
FloorStored(r, m) == IF m.boot = r.boot THEN r.counter ELSE 0

Floor(r, m) == Larger(IF m.boot = r.boot THEN r.counter ELSE 0, Larger(m.floor, m.hw))

\* The only step that makes a boot the enrolled one, and retires the old one.
Install(r, m) ==
  LET commit == [t |-> "commit", boot |-> m.boot, eid |-> m.eid, gen |-> m.gen,
                 config |-> m.config, floor |-> Floor(r, m)]
      next == [r EXCEPT
        !.retired = IF r.boot \in {None, m.boot} THEN @ ELSE @ \cup {r.boot},
        !.boot = m.boot, !.counter = Floor(r, m), !.enrolled = TRUE,
        !.active = None, !.ready = None, !.outbox = {}, !.pending = None,
        !.completed = [hello |-> r.pending.hello, proof |-> m, commit |-> commit]]
  IN Emit(next, commit, FALSE)

OnProof(r, m) ==
  IF r.pending = None
  THEN IF r.completed # None /\ r.completed.proof = m
       THEN Emit(r, r.completed.commit, FALSE) ELSE r
  ELSE IF m.boot \in r.retired \/ ~Matches(m, r.pending.offer) THEN r
  ELSE Install(r, m)

\* Mutant: any answer of the terminal is taken for this query's.
SameBoot(q, m) == q.boot = m.boot /\ q.gen = m.gen

Same(q, m) == /\ q.boot = m.boot /\ q.gen = m.gen
              /\ q.config = m.config /\ q.seq = m.seq

OnResult(r, m) ==
  IF /\ r.enrolled /\ r.ready # None
     /\ ~r.ready.consumed /\ Same(r.ready.q, m)
  THEN [r EXCEPT !.ready.accepted = TRUE] ELSE r

Incoming(r, m) ==
  IF r.config = None THEN r
  ELSE IF m.t = "hello" THEN OnHello(r, m)
  ELSE IF m.t = "proof" THEN OnProof(r, m) ELSE OnResult(r, m)

Readiness(r) ==
  LET q == [t |-> "query", boot |-> r.boot, gen |-> r.gen, config |-> r.config,
            seq |-> r.counter + 1]
  IN IF ~r.enrolled \/ r.active # None \/ r.ready # None \/ r.pending # None
        \/ r.counter = MaxSeq
     THEN r
     ELSE Emit([r EXCEPT !.counter = @ + 1,
                         !.ready = [q |-> q, accepted |-> FALSE, consumed |-> FALSE]],
               q, FALSE)

Startable(r, q) == /\ r.enrolled /\ r.active = None /\ r.pending = None
                   /\ r.ready # None /\ r.ready.accepted /\ ~r.ready.consumed
                   /\ r.ready.q = q

\* Commands are held until the caller that ordered them releases them.
Start(r, q, s) ==
  LET c == [t |-> "start", boot |-> r.boot, gen |-> r.gen, config |-> r.config,
            seq |-> q.seq, stream |-> s, n |-> 1]
  IN IF ~Startable(r, q) \/ s \in lost THEN r
     ELSE Emit([r EXCEPT !.ready.consumed = TRUE, !.active = c], c, TRUE)

OfActive(r, s) == r.active # None /\ r.active.stream = s

Renew(r, s) ==
  LET c == [r.active EXCEPT !.t = "renew", !.n = @ + 1]
  IN IF ~r.enrolled \/ ~OfActive(r, s) \/ s \in lost \/ r.active.n = MaxRenew THEN r
     ELSE Emit([r EXCEPT !.active.n = @ + 1], c, TRUE)

\* Mutant: the stop is queued behind what is unsent.
StopBehind(r, s) ==
  IF ~r.enrolled \/ ~OfActive(r, s) THEN r
  ELSE Emit([r EXCEPT !.active = None, !.ready = None],
            [r.active EXCEPT !.t = "stop", !.n = @ + 1], TRUE)

Stop(r, s) ==
  LET c == [r.active EXCEPT !.t = "stop", !.n = @ + 1]
  IN IF ~r.enrolled \/ ~OfActive(r, s) THEN r
     ELSE Emit([r EXCEPT !.active = None, !.ready = None, !.outbox = {}], c, TRUE)

Ended(r) == [r EXCEPT !.active = None, !.ready = None, !.outbox = {}]

Retire(r, s) == IF OfActive(r, s) THEN Ended(r) ELSE r

Release(r, c) ==
  [r EXCEPT !.outbox = {IF e.m = c THEN [e EXCEPT !.held = FALSE] ELSE e : e \in @}]

\* An ACK with another result than success; receipts die with their epoch.
Nack(r, c) ==
  IF /\ c.gen = r.gen /\ c.boot = r.boot /\ c.config = r.config
     /\ r.active # None /\ r.active.seq = c.seq
  THEN Ended(r) ELSE r

Apply(r, j) ==
  IF j.k = "configure" THEN Configure(r, j.v)
  ELSE IF r.config = None THEN r
  ELSE IF j.k = "incoming" THEN Incoming(r, j.v)
  ELSE IF j.k = "readiness" THEN Readiness(r)
  ELSE IF j.k = "start" THEN Start(r, j.v[1], j.v[2])
  ELSE IF j.k = "renew" THEN Renew(r, j.v)
  ELSE IF j.k = "stop" THEN Stop(r, j.v)
  ELSE IF j.k = "retire" THEN Retire(r, j.v)
  ELSE IF j.k = "release" THEN Release(r, j.v)
  ELSE Nack(r, j.v)

Stamped(box) == {e.m : e \in {x \in box : x.m.t \in {"query", "start"}}}

-----------------------------------------------------------------------------
(* Issuer processes.  Each transaction holds the row lock to its end, the  *)
(* publication of an entry included, so one action is one transaction.     *)

Event == events < MaxEvents /\ events' = events + 1
Fault == faults < MaxFaults /\ faults' = faults + 1

Owns(o) == row.owner = o /\ clock[o] # None
HasClock(o) == Owns(o) /\ clock[o] = row.gen

Fenced(r) == [r EXCEPT !.enrolled = FALSE, !.pending = None, !.ready = None,
                       !.active = None, !.outbox = {}, !.completed = None]

\* Mutant: the counter is local to the owner as well.
TakenOverAll(o) == [Fenced(row) EXCEPT !.owner = o, !.fenced = TRUE, !.gen = @ + 1,
                                       !.counter = 0]

\* The next owner starts a new generation; boots, counter, binding and the
\* inbox stay.
TakenOver(o) == [Fenced(row) EXCEPT !.owner = o, !.fenced = TRUE, !.gen = @ + 1]

Takeover(o) ==
  /\ ~Owns(o) /\ ~row.fenced /\ row.gen < MaxGen
  /\ row' = TakenOver(o)
  /\ clock' = [clock EXCEPT ![o] = row.gen + 1]
  /\ UNCHANGED <<down, up, made, lost, dev, events, faults>>

\* The clock is set in memory before the commit, which may fail.
FailedTakeover(o) ==
  /\ ~Owns(o) /\ ~row.fenced /\ row.gen < MaxGen
  /\ clock' = [clock EXCEPT ![o] = row.gen + 1] /\ Fault
  /\ UNCHANGED <<row, down, up, made, lost, dev, events>>

\* The owner renews its hold, and handles the oldest job.
Pump(o) ==
  /\ HasClock(o)
  /\ \/ /\ row.jobs = <<>> /\ ~row.fenced /\ row' = [row EXCEPT !.fenced = TRUE]
        /\ UNCHANGED made
     \/ /\ row.jobs # <<>>
        /\ LET next == Apply(row, Head(row.jobs)) IN
           /\ row' = [next EXCEPT !.jobs = Tail(@), !.fenced = TRUE]
           /\ made' = made \cup Stamped(next.outbox)
  /\ UNCHANGED <<clock, down, up, lost, dev, events, faults>>

\* A job whose time is over gets an error.
JobExpires(o) ==
  /\ HasClock(o) /\ row.jobs # <<>>
  /\ row' = [row EXCEPT !.jobs = Tail(@), !.fenced = TRUE]
  /\ UNCHANGED <<clock, down, up, made, lost, dev, events, faults>>

\* The owner drops what is past its deadline; what is to be sent for it has no
\* later one.
Dropped(r) ==
  {x \in {[r EXCEPT !.pending = None, !.outbox = Without(@, {"offer"})],
          [r EXCEPT !.ready = None, !.outbox = Without(@, {"query"})],
          [r EXCEPT !.active = None, !.ready = None,
                    !.outbox = Without(@, {"start", "renew"})],
          [r EXCEPT !.completed = None, !.outbox = Without(@, {"commit"})]} : x # r}

Expire(o) ==
  /\ HasClock(o) /\ row' \in {[x EXCEPT !.fenced = TRUE] : x \in Dropped(row)}
  /\ UNCHANGED <<clock, down, up, made, lost, dev, events, faults>>

\* An entry of the outbox is published, or dropped past its deadline or when its
\* lease is gone.  One that is kept after an ambiguous delivery is the same bytes
\* sent again, which down can deliver twice anyway.
Dead(m) == m.gen # row.gen \/ (m.t \in {"start", "renew"} /\ m.stream \in lost)

Flush(o, e) ==
  LET rest == [row EXCEPT !.outbox = @ \ {e}]
  IN /\ HasClock(o) /\ row.fenced
     /\ \/ row' = rest /\ UNCHANGED down
        \/ ~e.held /\ ~Dead(e.m) /\ row' = rest /\ down' = down \cup {e.m}
     /\ UNCHANGED <<clock, up, made, lost, dev, events, faults>>

\* The owner did not renew its ten seconds: it is gone, or it is late.
Lapse ==
  /\ row.fenced /\ row.owner = None /\ row' = [row EXCEPT !.fenced = FALSE]
  /\ UNCHANGED <<clock, down, up, made, lost, dev, events, faults>>

Stall ==
  /\ row.fenced /\ row' = [row EXCEPT !.fenced = FALSE] /\ Fault
  /\ UNCHANGED <<clock, down, up, made, lost, dev, events>>

\* The process restarts under a new owner id; the old one owns the row until
\* its ten seconds are over, and is nobody.
Crash(o) ==
  /\ clock[o] # None /\ Fault
  /\ clock' = [clock EXCEPT ![o] = None]
  /\ row' = [row EXCEPT !.owner = IF @ = o THEN None ELSE @]
  /\ UNCHANGED <<down, up, made, lost, dev, events>>

ClockRegresses(o) ==
  /\ HasClock(o) /\ Fault
  /\ clock' = [clock EXCEPT ![o] = None]
  /\ row' = [Fenced(row) EXCEPT !.completed = row.completed, !.fenced = FALSE]
  /\ UNCHANGED <<down, up, made, lost, dev, events>>

-----------------------------------------------------------------------------
(* Workers: submit a job; the callers that wait for commands release them. *)

Enqueue(k, v) ==
  /\ Len(row.jobs) < MaxQueue
  /\ row' = [row EXCEPT !.jobs = Append(@, [k |-> k, v |-> v])]

Submit ==
  /\ \/ \E c \in Configs : row.config # c /\ Enqueue("configure", c)
     \/ Enqueue("readiness", None)
     \/ \E s \in Streams : \/ \E q \in made \cap Query : Enqueue("start", <<q, s>>)
                           \/ \E k \in {"renew", "stop", "retire"} : Enqueue(k, s)
  /\ IF row.config = None THEN UNCHANGED events ELSE Event
  /\ UNCHANGED <<clock, down, up, made, lost, dev, faults>>

\* Messages of the terminal, and the release of held commands.  A message that
\* would change nothing is left out; it may still come later.
Arrives(j) == Apply(row, j) # row /\ Enqueue(j.k, j.v)

Forward ==
  /\ \/ \E m \in up : \/ m.t # "nack" /\ Arrives([k |-> "incoming", v |-> m])
                      \/ m.t = "nack" /\ Arrives([k |-> "nack", v |-> m.c])
     \/ \E e \in row.outbox : e.held /\ Arrives([k |-> "release", v |-> e.m])
  /\ UNCHANGED <<clock, down, up, made, lost, dev, events, faults>>

LoseLease(s) ==
  /\ s \notin lost /\ lost' = lost \cup {s} /\ Event
  /\ UNCHANGED <<row, clock, down, up, made, dev, faults>>

-----------------------------------------------------------------------------
(* The terminal. *)

Says(m) == up' = up \cup {m}

DevHello ==
  /\ \E e \in Eids :
       /\ \A m \in up : m.t = "hello" => m.eid < e
       /\ \A f \in Eids : f < e => \E m \in up : m.t = "hello" /\ m.eid = f
       /\ dev' = [dev EXCEPT !.eid = e, !.proof = None]
       /\ Says([t |-> "hello", boot |-> dev.boot, eid |-> e, hw |-> dev.hw])
  /\ Event
  /\ UNCHANGED <<row, clock, down, made, lost, faults>>

\* an accepted offer ends the old attempt before the proof leaves
DevOffer(m) ==
  /\ m.t = "offer" /\ m.boot = dev.boot /\ m.eid = dev.eid /\ m.gen >= dev.gen
  /\ dev.proof \in {None, m}
  /\ dev' = [dev EXCEPT !.proof = m, !.ready = None]
  /\ Says([t |-> "proof", boot |-> m.boot, eid |-> m.eid, gen |-> m.gen,
           config |-> m.config, floor |-> m.floor, hw |-> dev.hw])
  /\ UNCHANGED <<row, clock, down, made, lost, events, faults>>

DevCommit(m) ==
  /\ m.t = "commit" /\ m.boot = dev.boot /\ m.eid = dev.eid /\ dev.proof # None
  /\ m.gen = dev.proof.gen /\ m.config = dev.proof.config
  /\ m.floor >= dev.proof.floor /\ m.floor >= dev.hw
  /\ dev' = [dev EXCEPT !.eid = None, !.proof = None, !.gen = m.gen,
                        !.config = m.config, !.hw = m.floor]
  /\ UNCHANGED <<row, clock, down, up, made, lost, events, faults>>

Trusted(m) == /\ dev.eid = None /\ m.boot = dev.boot
              /\ m.gen = dev.gen /\ m.config = dev.config

DevQuery(m) ==
  /\ m.t = "query" /\ Trusted(m) /\ m.seq > dev.hw
  /\ dev' = [dev EXCEPT !.hw = m.seq, !.ready = m.seq]
  /\ Says([t |-> "result", boot |-> m.boot, gen |-> m.gen, config |-> m.config, seq |-> m.seq])
  /\ UNCHANGED <<row, clock, down, made, lost, events, faults>>

\* A start the terminal cannot carry out; one that it plays is not seen here.
DevStart(m) ==
  /\ m.t = "start" /\ Trusted(m) /\ dev.ready = m.seq
  /\ dev' = [dev EXCEPT !.ready = None]
  /\ Says([t |-> "nack", c |-> m])
  /\ UNCHANGED <<row, clock, down, made, lost, events, faults>>

DevReboot ==
  /\ dev.boot + 1 \in Boots
  /\ dev' = [boot |-> dev.boot + 1, hw |-> 0, eid |-> None, proof |-> None, gen |-> 0,
             config |-> None, ready |-> None]
  /\ Event
  /\ UNCHANGED <<row, clock, down, up, made, lost, faults>>

Terminal == \/ DevHello \/ DevReboot
            \/ \E m \in down : \/ DevOffer(m) \/ DevCommit(m)
                               \/ DevQuery(m) \/ DevStart(m)

Issuer(o) == \/ Takeover(o) \/ FailedTakeover(o) \/ Pump(o) \/ JobExpires(o) \/ Expire(o)
             \/ \E e \in row.outbox : Flush(o, e)
             \/ Crash(o) \/ ClockRegresses(o)

Next == \/ \E o \in Issuers : Issuer(o)
        \/ Lapse \/ Stall
        \/ Submit \/ Forward
        \/ \E s \in Streams : LoseLease(s)
        \/ Terminal

Spec == Init /\ [][Next]_vars

-----------------------------------------------------------------------------
(* Properties. *)

\* No sequence number of a boot is given out twice: a readiness query is never
\* repeated for another binding or generation, and a query admits one start.
\* The counter survives takeovers, new bindings and repeated enrollments.
SeqUnique ==
  \A a, b \in made : a.boot = b.boot /\ a.seq = b.seq /\ a.t = b.t => a = b

Attempt(m) == <<m.boot, m.gen, m.config, m.seq>>

\* A start was admitted by the terminal itself: it answered this very query,
\* under the same boot, generation and binding.
StartsAnswered ==
  \A c \in made : c.t = "start"
    => \E m \in up : m.t = "result" /\ Attempt(m) = Attempt(c)

\* While the row says enrolled, the terminal has proved this boot and this
\* binding to this generation.
EnrolledProved ==
  row.enrolled => \E m \in up : /\ m.t = "proof" /\ m.boot = row.boot
                                /\ m.gen = row.gen /\ m.config = row.config

\* The counter of an enrolled boot is never behind the terminal, so that its
\* next query is not rejected as a repetition.
NotBehind == row.enrolled /\ row.boot = dev.boot => dev.hw <= row.counter

\* Commands wait in the outbox only for the attempt that is active, but for the
\* stop that ended the last one: "STOP cancels unsent START/RENEW from the
\* retired attempt".
OutboxOfActive ==
  \A e \in row.outbox :
    e.m.t \in {"start", "renew"}
      => row.active # None /\ e.m.seq = row.active.seq /\ e.m.gen = row.gen

\* A boot that is over stays over: late messages of it neither enroll it again
\* nor open an exchange that keeps the living boot out; generations only rise.
RetiredStays ==
  [][/\ row.retired \subseteq row'.retired /\ row.gen <= row'.gen
     /\ row'.boot \notin row.retired
     /\ row'.pending # None => row'.pending.offer.boot \notin row'.retired]_vars

\* Nothing of an attempt is published behind its stop.
StopIsLast ==
  [][\A m \in down' \ down, c \in down :
       m.t \in {"start", "renew"} /\ c.t = "stop" => Attempt(m) # Attempt(c)]_vars
=============================================================================
