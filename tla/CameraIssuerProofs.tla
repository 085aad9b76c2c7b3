------------------------- MODULE CameraIssuerProofs -------------------------
(***************************************************************************)
(* What the issuer of camera commands keeps for any number of processes,   *)
(* boots, streams and bindings, and for every order of crashes, late and   *)
(* repeated messages.                                                      *)
(*                                                                         *)
(* The argument is about the row alone.  Its counter is an upper bound of  *)
(* what was given out for the boot it names; other boots that were ever    *)
(* given a number are retired and stay so.  The pending exchange belongs   *)
(* to the current generation and binding, and so does a readiness query;   *)
(* a start uses up the query it was admitted by.  Only that the counter    *)
(* keeps up with the terminal is about what the terminal has said, too.    *)
(***************************************************************************)
EXTENDS CameraIssuer, SequenceTheorems, TLAPS

\* The numbers of the boot in the row are at most its counter; the other boots
\* with a number are retired.
Bounded(r, M) ==
  \A m \in M : /\ m.boot \in r.retired \cup {r.boot}
               /\ m.boot = r.boot => m.seq <= r.counter

\* The pending exchange and the readiness query are of this very enrollment.
Current(r) ==
  /\ r.boot \notin r.retired
  /\ r.enrolled => r.boot # None /\ r.config # None /\ r.gen # 0
  /\ r.pending # None => /\ r.pending.offer.gen = r.gen
                         /\ r.pending.offer.config = r.config
                         /\ r.pending.offer.boot \notin r.retired
  /\ r.ready # None => /\ r.ready.q.boot = r.boot /\ r.ready.q.gen = r.gen
                       /\ r.ready.q.config = r.config /\ r.ready.q.seq = r.counter
  /\ r.active # None => /\ r.active.boot = r.boot /\ r.active.gen = r.gen
                        /\ r.active.config = r.config

\* An accepted query was answered; a query without a start can have one.
Admitted(r, M, U) ==
  r.ready # None =>
    /\ r.ready.accepted => \E m \in U : m.t = "result" /\ Attempt(m) = Attempt(r.ready.q)
    /\ ~r.ready.consumed
         => \A m \in M : m.t = "start" /\ m.boot = r.boot => m.seq < r.counter

Proved(r, U) ==
  r.enrolled => \E m \in U : /\ m.t = "proof" /\ m.boot = r.boot
                             /\ m.gen = r.gen /\ m.config = r.config

Queued(r, M) ==
  /\ Stamped(r.outbox) \subseteq M
  /\ \A e \in r.outbox : e.m.t \in {"start", "renew"}
       => r.active # None /\ Attempt(e.m) = Attempt(r.active)

Unique(M) == \A a, b \in M : a.boot = b.boot /\ a.seq = b.seq /\ a.t = b.t => a = b
Answered(M, U) ==
  \A c \in M : c.t = "start" => \E m \in U : m.t = "result" /\ Attempt(m) = Attempt(c)

RowInv(r, M, U) ==
  /\ Bounded(r, M) /\ Current(r) /\ Admitted(r, M, U) /\ Proved(r, U) /\ Queued(r, M)

Heard(r, U) == \A i \in DOMAIN r.jobs : r.jobs[i].k = "incoming" => r.jobs[i].v \in U

IndInv == /\ TypeOK /\ RowInv(row, made, up) /\ Heard(row, up)
          /\ Unique(made) /\ Answered(made, up)

\* What a transition of the row starts from, and what it must bring about.
Before(r, M, U) == /\ r \in Row /\ r.gen # 0 /\ M \subseteq Query \cup Command
                   /\ U \subseteq Hello \cup Proof \cup Result \cup [t: {"nack"}, c: Command]
                   /\ RowInv(r, M, U) /\ Unique(M) /\ Answered(M, U)

Keeps(r, x) == /\ r.retired \subseteq x.retired /\ r.gen <= x.gen /\ x.boot \notin r.retired
               /\ x.pending # None => x.pending.offer.boot \notin x.retired

After(r, x, M, U) ==
  LET N == M \cup Stamped(x.outbox)
  IN /\ x \in Row /\ x.jobs = r.jobs /\ N \subseteq Query \cup Command
     /\ RowInv(x, N, U) /\ Unique(N) /\ Answered(N, U) /\ Keeps(r, x)

-----------------------------------------------------------------------------
(* The transitions of the row. *)

LEMMA EmitSame ==
  ASSUME NEW r \in Row, NEW m \in Wire, NEW h \in BOOLEAN
  PROVE  /\ Emit(r, m, h) \in Row
         /\ Emit(r, m, h) = [r EXCEPT !.outbox = Emit(r, m, h).outbox]
         /\ \A e \in Emit(r, m, h).outbox : e \in r.outbox \/ e.m = m
         /\ m \in {e.m : e \in Emit(r, m, h).outbox}
<1>1. CASE \E e \in r.outbox : e.m = m
  <2>1. Emit(r, m, h) = r
    BY <1>1 DEF Emit
  <2> QED BY <1>1, <2>1 DEF Row
<1>2. CASE ~\E e \in r.outbox : e.m = m
  <2> DEFINE entry == [m |-> m, held |-> h]
  <2>1. Emit(r, m, h) = [r EXCEPT !.outbox = @ \cup {entry}]
    BY <1>2 DEF Emit
  <2>2. entry \in [m: Wire, held: BOOLEAN] /\ entry.m = m
    OBVIOUS
  <2> HIDE DEF entry
  <2>3. Emit(r, m, h).outbox = r.outbox \cup {entry}
    BY <2>1 DEF Row
  <2>4. Emit(r, m, h) \in Row
    BY <2>1, <2>2 DEF Row
  <2> QED BY <2>1, <2>2, <2>3, <2>4
<1> QED BY <1>1, <1>2

\* A row that gives out no number owes only its own invariant.
LEMMA Quiet ==
  ASSUME NEW r, NEW x, NEW M, NEW U, Before(r, M, U),
         x \in Row, x.jobs = r.jobs, RowInv(x, M, U), Keeps(r, x)
  PROVE  After(r, x, M, U)
<1>1. M \cup Stamped(x.outbox) = M
  BY DEF RowInv, Queued
<1> QED BY <1>1 DEF After, Before

LEMMA EmitKeeps ==
  ASSUME NEW y \in Row, NEW N, NEW U, RowInv(y, N, U), NEW m \in Wire, NEW h \in BOOLEAN,
         m.t \in {"query", "start"} => m \in N,
         m.t \in {"start", "renew"} => y.active # None /\ Attempt(m) = Attempt(y.active)
  PROVE  RowInv(Emit(y, m, h), N, U)
<1> DEFINE x == Emit(y, m, h)
<1>1. /\ x \in Row /\ x = [y EXCEPT !.outbox = x.outbox]
      /\ \A e \in x.outbox : e \in y.outbox \/ e.m = m
  BY EmitSame
<1> HIDE DEF x
<1>2. /\ x.retired = y.retired /\ x.gen = y.gen /\ x.boot = y.boot /\ x.counter = y.counter
      /\ x.enrolled = y.enrolled /\ x.pending = y.pending /\ x.ready = y.ready
      /\ x.active = y.active /\ x.config = y.config
  BY <1>1 DEF Row
<1>3. Bounded(x, N) /\ Current(x) /\ Admitted(x, N, U) /\ Proved(x, U)
  BY <1>2 DEF RowInv, Bounded, Current, Admitted, Proved
<1>4. Queued(x, N)
  BY <1>1, <1>2 DEF RowInv, Queued, Stamped
<1> QED BY <1>3, <1>4 DEF RowInv, x

LEMMA Emitted ==
  ASSUME NEW r, NEW y, NEW M, NEW N, NEW U, NEW m \in Wire, NEW h \in BOOLEAN,
         Before(r, M, U), y \in Row, y.jobs = r.jobs, Keeps(r, y),
         Stamped(y.outbox) \subseteq M,
         N = M \cup {n \in {m} : n.t \in {"query", "start"}},
         N \subseteq Query \cup Command, RowInv(y, N, U), Unique(N), Answered(N, U),
         m.t \in {"start", "renew"} => y.active # None /\ Attempt(m) = Attempt(y.active)
  PROVE  After(r, Emit(y, m, h), M, U)
<1> DEFINE x == Emit(y, m, h)
<1>1. /\ x \in Row /\ x = [y EXCEPT !.outbox = x.outbox]
      /\ \A e \in x.outbox : e \in y.outbox \/ e.m = m
      /\ m \in {e.m : e \in x.outbox}
  BY EmitSame
<1>2. RowInv(x, N, U)
  BY EmitKeeps
<1> HIDE DEF x
<1>3. M \cup Stamped(x.outbox) = N
  BY <1>1 DEF Stamped
<1>4. x.jobs = r.jobs /\ Keeps(r, x)
  BY <1>1 DEF Row, Keeps
<1> QED BY <1>1, <1>2, <1>3, <1>4 DEF After, x

\* Offers, commits, renewals and stops give out no number.
LEMMA EmittedQuiet ==
  ASSUME NEW r, NEW y, NEW M, NEW U, NEW m \in Wire, NEW h \in BOOLEAN,
         Before(r, M, U), y \in Row, y.jobs = r.jobs, Keeps(r, y), RowInv(y, M, U),
         m.t \in {"offer", "commit", "renew", "stop"},
         m.t = "renew" => y.active # None /\ Attempt(m) = Attempt(y.active)
  PROVE  After(r, Emit(y, m, h), M, U)
<1>1. Stamped(y.outbox) \subseteq M
  BY DEF RowInv, Queued
<1>2. M = M \cup {n \in {m} : n.t \in {"query", "start"}}
  OBVIOUS
<1>3. M \subseteq Query \cup Command /\ Unique(M) /\ Answered(M, U)
  BY DEF Before
<1>4. m.t \in {"start", "renew"} => y.active # None /\ Attempt(m) = Attempt(y.active)
  OBVIOUS
<1> HIDE DEF Wire
<1> QED BY <1>1, <1>2, <1>3, <1>4, Emitted

LEMMA Refused ==
  ASSUME NEW r, NEW M, NEW U, Before(r, M, U)
  PROVE  After(r, r, M, U)
<1>1. Keeps(r, r)
  BY DEF Keeps, Before, Row, RowInv, Current
<1> QED BY <1>1, Quiet DEF Before

LEMMA ConfigureKeepsInv ==
  ASSUME NEW r, NEW M, NEW U, Before(r, M, U), NEW c \in Configs
  PROVE  After(r, Configure(r, c), M, U)
<1>1. CASE r.active # None \/ r.config = c
  BY <1>1, Refused DEF Configure
<1>2. CASE ~(r.active # None \/ r.config = c)
  <2> DEFINE x == Configure(r, c)
  <2>1. x = [r EXCEPT !.config = c, !.enrolled = FALSE, !.pending = None, !.ready = None,
                      !.outbox = {}, !.completed = None]
    BY <1>2 DEF Configure
  <2> HIDE DEF x
  <2>2. x \in Row
    BY ZenonT(60), <2>1 DEF Before, Row
  <2>3. /\ x.jobs = r.jobs /\ x.retired = r.retired /\ x.gen = r.gen /\ x.boot = r.boot
        /\ x.counter = r.counter /\ x.enrolled = FALSE /\ x.outbox = {}
        /\ x.pending = None /\ x.ready = None /\ x.active = None /\ x.config = c
    BY <2>1, <1>2 DEF Before, Row
  <2>4. Keeps(r, x)
    BY <2>3 DEF Before, Row, Keeps, RowInv, Current
  <2>5. RowInv(x, M, U)
    BY <2>3 DEF Before, RowInv, Bounded, Current, Admitted, Proved, Queued, Stamped
  <2> QED BY <2>2, <2>3, <2>4, <2>5, Quiet DEF x
<1> QED BY <1>1, <1>2

LEMMA OnHelloKeepsInv ==
  ASSUME NEW r, NEW M, NEW U, Before(r, M, U), NEW m \in Hello, r.config # None
  PROVE  After(r, OnHello(r, m), M, U)
<1> DEFINE offer == [t |-> "offer", boot |-> m.boot, eid |-> m.eid, gen |-> r.gen,
                     config |-> r.config,
                     floor |-> Larger(IF m.boot = r.boot THEN r.counter ELSE 0, m.hw)]
           y == [r EXCEPT !.pending = [hello |-> m, offer |-> offer],
                          !.hellos = @ \cup {m.eid}]
<1>0. r \in Row /\ RowInv(r, M, U) /\ Keeps(r, r)
  BY DEF Keeps, Before, Row, RowInv, Current
<1>1. CASE m.boot \in r.retired
  BY <1>1, Refused DEF OnHello
<1>2. CASE m.boot \notin r.retired /\ r.pending # None
  <2>1. r.pending.offer \in Wire /\ r.pending.offer.t = "offer"
    BY <1>0, <1>2 DEF Row, Offer, Wire
  <2>2. After(r, Emit(r, r.pending.offer, FALSE), M, U)
    BY <1>0, <2>1, EmittedQuiet
  <2> QED BY <1>2, <2>2, Refused DEF OnHello
<1>3. CASE m.boot \notin r.retired /\ r.pending = None /\ r.completed # None /\ r.completed.hello = m
  <2>1. r.completed.commit \in Wire /\ r.completed.commit.t = "commit"
    BY <1>0, <1>3 DEF Row, Commit, Wire
  <2>2. After(r, Emit(r, r.completed.commit, FALSE), M, U)
    BY <1>0, <2>1, EmittedQuiet
  <2> QED BY <1>3, <2>2 DEF OnHello
<1>4. CASE /\ m.boot \notin r.retired /\ r.pending = None
           /\ ~(r.completed # None /\ r.completed.hello = m)
  <2>1. CASE m.eid \in r.hellos
    BY <1>4, <2>1, Refused DEF OnHello
  <2>2. CASE m.eid \notin r.hellos
    <3>1. OnHello(r, m) = Emit(y, offer, FALSE)
      BY <1>4, <2>2 DEF OnHello
    <3>2. /\ offer \in Offer /\ offer.t = "offer" /\ offer.gen = r.gen
          /\ offer.config = r.config /\ offer.boot = m.boot
      BY <1>0, IssuerAssumption DEF Row, Hello, Offer, Larger, Before
    <3> HIDE DEF offer
    <3>3. y \in Row
      BY ZenonT(60), <1>0, <3>2 DEF Row, Hello
    <3>4. /\ y.retired = r.retired /\ y.gen = r.gen /\ y.boot = r.boot /\ y.jobs = r.jobs
          /\ y.counter = r.counter /\ y.enrolled = r.enrolled /\ y.outbox = r.outbox
          /\ y.ready = r.ready /\ y.active = r.active /\ y.config = r.config
          /\ y.pending = [hello |-> m, offer |-> offer]
      BY <1>0 DEF Row
    <3> HIDE DEF y
    <3>5. Keeps(r, y)
      BY <1>0, <3>2, <3>4, <1>4 DEF Keeps
    <3>6. RowInv(y, M, U)
      BY <1>0, <3>2, <3>4, <1>4
      DEF RowInv, Bounded, Current, Admitted, Proved, Queued
    <3>7. offer \in Wire
      BY <3>2 DEF Wire
    <3> QED BY <3>1, <3>2, <3>3, <3>4, <3>5, <3>6, <3>7, EmittedQuiet
  <2> QED BY <2>1, <2>2
<1> QED BY <1>1, <1>2, <1>3, <1>4

\* The new floor is above every number of the boot that the proof names.
LEMMA FloorBounds ==
  ASSUME NEW r \in Row, NEW m \in Proof
  PROVE  Floor(r, m) \in 0..MaxSeq /\ (m.boot = r.boot => r.counter <= Floor(r, m))
BY IssuerAssumption DEF Floor, Larger, Row, Proof

LEMMA InstallKeepsInv ==
  ASSUME NEW r, NEW M, NEW U, Before(r, M, U), NEW m \in Proof, m \in U, r.config # None,
         r.pending # None, m.boot \notin r.retired, Matches(m, r.pending.offer)
  PROVE  After(r, Install(r, m), M, U)
<1> DEFINE floor == Floor(r, m)
           commit == [t |-> "commit", boot |-> m.boot, eid |-> m.eid, gen |-> m.gen,
                      config |-> m.config, floor |-> floor]
           retired == IF r.boot \in {None, m.boot} THEN r.retired ELSE r.retired \cup {r.boot}
           y == [r EXCEPT
                   !.retired = retired, !.boot = m.boot, !.counter = floor, !.enrolled = TRUE,
                   !.active = None, !.ready = None, !.outbox = {}, !.pending = None,
                   !.completed = [hello |-> r.pending.hello, proof |-> m, commit |-> commit]]
<1>0. r \in Row /\ RowInv(r, M, U) /\ M \subseteq Query \cup Command
  BY DEF Before
<1>1. Install(r, m) = Emit(y, commit, FALSE)
  BY <1>0 DEF Install, Row
<1>2. m.gen = r.gen /\ m.config = r.config /\ m.boot \in Boots /\ m.boot # None /\ m.t = "proof"
  <2>1. r.pending.offer \in Offer
    BY <1>0 DEF Row
  <2>2. m.gen = r.pending.offer.gen /\ m.config = r.pending.offer.config
    BY <2>1 DEF Matches, Offer
  <2> QED BY <1>0, <2>2, IssuerAssumption DEF RowInv, Current, Proof
<1>3. floor \in 0..MaxSeq /\ (m.boot = r.boot => r.counter <= floor)
  BY <1>0, FloorBounds
<1> HIDE DEF floor
<1>4. commit \in Commit /\ commit.t = "commit"
  BY <1>3 DEF Commit, Proof
<1> HIDE DEF commit
<1>5. retired \subseteq Boots /\ r.retired \subseteq retired /\ m.boot \notin retired
  BY <1>0, <1>2 DEF Row
<1>6. (r.boot # m.boot /\ r.boot # None) => r.boot \in retired
  OBVIOUS
<1>7. retired \subseteq r.retired \cup {r.boot}
  OBVIOUS
<1> HIDE DEF retired
<1>8. y \in Row
  BY ZenonT(90), <1>0, <1>2, <1>3, <1>4, <1>5 DEF Row
<1>9. /\ y.retired = retired /\ y.gen = r.gen /\ y.boot = m.boot /\ y.jobs = r.jobs
      /\ y.counter = floor /\ y.enrolled = TRUE /\ y.outbox = {}
      /\ y.ready = None /\ y.active = None /\ y.config = r.config /\ y.pending = None
  BY <1>0 DEF Row
<1> HIDE DEF y
<1>10. Keeps(r, y)
  BY <1>0, <1>5, <1>9 DEF Keeps, Row
<1>11. Bounded(y, M)
  <2> SUFFICES ASSUME NEW n \in M
               PROVE  n.boot \in retired \cup {m.boot} /\ (n.boot = m.boot => n.seq <= floor)
    BY <1>9 DEF Bounded
  <2>1. n.boot \in r.retired \cup {r.boot} /\ (n.boot = r.boot => n.seq <= r.counter)
    BY <1>0 DEF RowInv, Bounded
  <2>2. n.boot # None /\ n.seq \in 1..MaxSeq
    BY <1>0, IssuerAssumption DEF Query, Command
  <2>3. n.boot \in retired \cup {m.boot}
    BY <2>1, <2>2, <1>5, <1>6
  <2>4. ASSUME n.boot = m.boot PROVE n.seq <= floor
    <3>1. r.boot = m.boot
      BY <2>4, <2>1
    <3> QED BY <3>1, <2>4, <2>1, <2>2, <1>3, <1>0, IssuerAssumption DEF Row
  <2> QED BY <2>3, <2>4
<1>12. RowInv(y, M, U)
  BY <1>0, <1>2, <1>5, <1>9, <1>11
  DEF RowInv, Current, Admitted, Proved, Queued, Stamped, Before
<1>13. commit \in Wire
  BY <1>4 DEF Wire
<1> QED BY <1>1, <1>4, <1>8, <1>9, <1>10, <1>12, <1>13, EmittedQuiet

LEMMA OnProofKeepsInv ==
  ASSUME NEW r, NEW M, NEW U, Before(r, M, U), NEW m \in Proof, m \in U, r.config # None
  PROVE  After(r, OnProof(r, m), M, U)
<1>0. r \in Row /\ RowInv(r, M, U) /\ Keeps(r, r)
  BY DEF Keeps, Before, Row, RowInv, Current
<1>1. CASE r.pending = None /\ r.completed # None /\ r.completed.proof = m
  <2>1. r.completed.commit \in Wire /\ r.completed.commit.t = "commit"
    BY <1>0, <1>1 DEF Row, Commit, Wire
  <2>2. After(r, Emit(r, r.completed.commit, FALSE), M, U)
    BY <1>0, <2>1, EmittedQuiet
  <2> QED BY <1>1, <2>2 DEF OnProof
<1>2. CASE r.pending = None /\ ~(r.completed # None /\ r.completed.proof = m)
  BY <1>2, Refused DEF OnProof
<1>3. CASE r.pending # None /\ (m.boot \in r.retired \/ ~Matches(m, r.pending.offer))
  BY <1>3, Refused DEF OnProof
<1>4. CASE r.pending # None /\ ~(m.boot \in r.retired \/ ~Matches(m, r.pending.offer))
  BY <1>4, InstallKeepsInv DEF OnProof
<1> QED BY <1>1, <1>2, <1>3, <1>4

LEMMA OnResultKeepsInv ==
  ASSUME NEW r, NEW M, NEW U, Before(r, M, U), NEW m \in Result, m \in U
  PROVE  After(r, OnResult(r, m), M, U)
<1>0. r \in Row /\ RowInv(r, M, U)
  BY DEF Before
<1>1. CASE r.enrolled /\ r.ready # None /\ ~r.ready.consumed /\ Same(r.ready.q, m)
  <2> DEFINE x == [r EXCEPT !.ready = [@ EXCEPT !.accepted = TRUE]]
  <2>1. OnResult(r, m) = x
    BY <1>0, <1>1 DEF OnResult, Row
  <2>2. /\ r.ready.q \in Query
        /\ x.ready.q = r.ready.q /\ x.ready.accepted = TRUE /\ x.ready.consumed = r.ready.consumed
        /\ x.ready \in [q: Query, accepted: BOOLEAN, consumed: BOOLEAN]
    BY <1>0, <1>1 DEF Row
  <2>3. x \in Row
    BY ZenonT(90), <1>0, <2>2 DEF Row
  <2>4. /\ x.retired = r.retired /\ x.gen = r.gen /\ x.boot = r.boot /\ x.jobs = r.jobs
        /\ x.counter = r.counter /\ x.enrolled = r.enrolled /\ x.outbox = r.outbox
        /\ x.pending = r.pending /\ x.active = r.active /\ x.config = r.config
    BY <1>0 DEF Row
  <2> HIDE DEF x
  <2>5. Attempt(m) = Attempt(x.ready.q) /\ m.t = "result"
    BY <1>1, <2>2 DEF Same, Attempt, Result
  <2>6. Keeps(r, x)
    BY <1>0, <2>4 DEF Keeps, Row, RowInv, Current
  <2>7. RowInv(x, M, U)
    BY <1>0, <1>1, <2>2, <2>4, <2>5
    DEF RowInv, Bounded, Current, Admitted, Proved, Queued
  <2> QED BY <2>1, <2>3, <2>4, <2>6, <2>7, Quiet
<1>2. CASE ~(r.enrolled /\ r.ready # None /\ ~r.ready.consumed /\ Same(r.ready.q, m))
  <2>1. OnResult(r, m) = r
    BY <1>2 DEF OnResult
  <2> QED BY <2>1, Refused
<1> QED BY <1>1, <1>2

LEMMA ReadinessKeepsInv ==
  ASSUME NEW r, NEW M, NEW U, Before(r, M, U), r.config # None
  PROVE  After(r, Readiness(r), M, U)
<1> DEFINE q == [t |-> "query", boot |-> r.boot, gen |-> r.gen, config |-> r.config,
                 seq |-> r.counter + 1]
           y == [r EXCEPT !.counter = @ + 1,
                          !.ready = [q |-> q, accepted |-> FALSE, consumed |-> FALSE]]
           refused == ~r.enrolled \/ r.active # None \/ r.ready # None \/ r.pending # None
                        \/ r.counter = MaxSeq
           N == M \cup {q}
<1>0. r \in Row /\ RowInv(r, M, U) /\ M \subseteq Query \cup Command /\ Unique(M) /\ Answered(M, U)
  BY DEF Before
<1>1. CASE refused
  BY <1>1, Refused DEF Readiness
<1>2. CASE ~refused
  <2>1. Readiness(r) = Emit(y, q, FALSE)
    BY <1>2 DEF Readiness
  <2>2. /\ q \in Query /\ q.t = "query" /\ q.seq = r.counter + 1
        /\ q.boot = r.boot /\ q.gen = r.gen /\ q.config = r.config
    BY <1>0, <1>2, IssuerAssumption DEF Row, RowInv, Current, Query
  <2> HIDE DEF q
  <2>3. r.counter + 1 \in 0..MaxSeq /\ r.counter \in Nat
    BY <1>0, <1>2, IssuerAssumption DEF Row
  <2>4. y \in Row
    BY ZenonT(90), <1>0, <2>2, <2>3 DEF Row
  <2>5. /\ y.retired = r.retired /\ y.gen = r.gen /\ y.boot = r.boot /\ y.jobs = r.jobs
        /\ y.counter = r.counter + 1 /\ y.enrolled = r.enrolled /\ y.outbox = r.outbox
        /\ y.pending = r.pending /\ y.active = r.active /\ y.config = r.config
        /\ y.ready = [q |-> q, accepted |-> FALSE, consumed |-> FALSE]
    BY <1>0 DEF Row
  <2> HIDE DEF y
  <2>6. Keeps(r, y)
    BY <1>0, <2>5 DEF Keeps, Row, RowInv, Current
  <2>7. \A m \in M : m.boot = r.boot => m.seq <= r.counter /\ m.seq \in Nat
    BY <1>0 DEF RowInv, Bounded, Query, Command
  <2>8. N \subseteq Query \cup Command
    BY <1>0, <2>2
  <2>9. Unique(N)
    BY <1>0, <2>2, <2>3, <2>7 DEF Unique
  <2>10. Answered(N, U)
    BY <1>0, <2>2 DEF Answered
  <2>11. Bounded(y, N)
    BY <1>0, <2>2, <2>3, <2>5, <2>7 DEF RowInv, Bounded
  <2>12. Admitted(y, N, U)
    BY <2>2, <2>3, <2>5, <2>7 DEF Admitted
  <2>13. RowInv(y, N, U)
    BY <1>0, <2>2, <2>5, <2>11, <2>12 DEF RowInv, Current, Proved, Queued
  <2>14. N = M \cup {n \in {q} : n.t \in {"query", "start"}}
    BY <2>2
  <2>15. q \in Wire /\ Stamped(y.outbox) \subseteq M
    BY <1>0, <2>2, <2>5 DEF Wire, RowInv, Queued
  <2> QED BY <2>1, <2>2, <2>4, <2>5, <2>6, <2>8, <2>9, <2>10, <2>13, <2>14, <2>15, Emitted
<1> QED BY <1>1, <1>2

LEMMA StartKeepsInv ==
  ASSUME NEW r, NEW M, NEW U, Before(r, M, U), r.config # None,
         NEW k \in Query, NEW s \in Streams
  PROVE  After(r, Start(r, k, s), M, U)
<1> DEFINE c == [t |-> "start", boot |-> r.boot, gen |-> r.gen, config |-> r.config,
                 seq |-> k.seq, stream |-> s, n |-> 1]
           used == [r.ready EXCEPT !.consumed = TRUE]
           y == [r EXCEPT !.ready = used, !.active = c]
           N == M \cup {c}
<1>0. r \in Row /\ RowInv(r, M, U) /\ M \subseteq Query \cup Command /\ Unique(M) /\ Answered(M, U)
  BY DEF Before
<1>1. CASE ~Startable(r, k) \/ s \in lost
  BY <1>1, Refused DEF Start
<1>2. CASE ~(~Startable(r, k) \/ s \in lost)
  <2>1. Start(r, k, s) = Emit(y, c, TRUE)
    BY <1>0, <1>2 DEF Start, Row
  <2>2. /\ r.ready # None /\ r.ready.q = k /\ r.active = None /\ r.ready.accepted
        /\ ~r.ready.consumed /\ r.enrolled /\ k.seq = r.counter
    BY <1>0, <1>2 DEF Startable, RowInv, Current
  <2>3. c \in Active /\ c \in Command
    BY <1>0, <2>2, IssuerAssumption DEF Row, RowInv, Current, Query, Active, Command
  <2>4. /\ c.t = "start" /\ c.boot = r.boot /\ c.gen = r.gen /\ c.config = r.config
        /\ c.seq = r.counter /\ c # None
    BY <2>2, <2>3, NoneAssumption
  <2> HIDE DEF c
  <2>5. /\ used \in [q: Query, accepted: BOOLEAN, consumed: BOOLEAN]
        /\ used.q = k /\ used.accepted = r.ready.accepted /\ used.consumed = TRUE
    BY <1>0, <2>2 DEF Row
  <2> HIDE DEF used
  <2>6. y \in Row
    BY ZenonT(90), <1>0, <2>3, <2>5 DEF Row
  <2>7. /\ y.retired = r.retired /\ y.gen = r.gen /\ y.boot = r.boot /\ y.jobs = r.jobs
        /\ y.counter = r.counter /\ y.enrolled = r.enrolled /\ y.outbox = r.outbox
        /\ y.pending = r.pending /\ y.active = c /\ y.config = r.config /\ y.ready = used
    BY <1>0 DEF Row
  <2> HIDE DEF y
  <2>8. Keeps(r, y)
    BY <1>0, <2>7 DEF Keeps, Row, RowInv, Current
  <2>9. PICK a \in U : a.t = "result" /\ Attempt(a) = Attempt(k)
    BY <1>0, <2>2 DEF RowInv, Admitted
  <2>10. Attempt(c) = Attempt(k)
    BY <1>0, <2>2, <2>4 DEF RowInv, Current, Attempt
  <2>11. Answered(N, U)
    BY <1>0, <2>9, <2>10 DEF Answered
  <2>12. \A m \in M : m.t = "start" /\ m.boot = r.boot => m.seq < r.counter
    BY <1>0, <2>2 DEF RowInv, Admitted
  <2>13. Unique(N)
    BY <1>0, <2>4, <2>12 DEF Unique, Row
  <2>14. N \subseteq Query \cup Command
    BY <1>0, <2>3
  <2>15. Bounded(y, N)
    BY <1>0, <2>4, <2>7 DEF RowInv, Bounded, Row
  <2>16. Admitted(y, N, U)
    BY <2>5, <2>7, <2>9 DEF Admitted
  <2>17. Queued(y, N)
    BY <1>0, <2>2, <2>7 DEF RowInv, Queued
  <2>18. RowInv(y, N, U)
    BY <1>0, <2>2, <2>4, <2>5, <2>7, <2>15, <2>16, <2>17 DEF RowInv, Current, Proved
  <2>19. N = M \cup {n \in {c} : n.t \in {"query", "start"}}
    BY <2>4
  <2>20. c \in Wire /\ Stamped(y.outbox) \subseteq M
    BY <1>0, <2>3, <2>7 DEF Wire, RowInv, Queued
  <2>21. y.active # None /\ Attempt(c) = Attempt(y.active)
    BY <2>4, <2>7
  <2> QED BY <2>1, <2>6, <2>7, <2>8, <2>11, <2>13, <2>14, <2>18, <2>19, <2>20, <2>21, Emitted
<1> QED BY <1>1, <1>2

\* A later command of an attempt.
LEMMA NextCommand ==
  ASSUME NEW a \in Active, NEW k \in {"renew", "stop"}
  PROVE  /\ [a EXCEPT !.t = k, !.n = @ + 1] \in Command
         /\ [a EXCEPT !.t = k, !.n = @ + 1].t = k
         /\ Attempt([a EXCEPT !.t = k, !.n = @ + 1]) = Attempt(a)
<1> DEFINE c == [a EXCEPT !.t = k, !.n = @ + 1]
<1>1. a.n + 1 \in 1..(MaxRenew + 1)
  <2>1. a.n \in 1..MaxRenew /\ MaxRenew \in Nat
    BY IssuerAssumption DEF Active
  <2> QED BY <2>1
<1>2. c \in Command
  BY <1>1 DEF Active, Command
<1>3. c.t = k /\ c.boot = a.boot /\ c.gen = a.gen /\ c.config = a.config /\ c.seq = a.seq
  BY DEF Active
<1> QED BY <1>2, <1>3 DEF Attempt

LEMMA NextActive ==
  ASSUME NEW a \in Active, a.n # MaxRenew
  PROVE  /\ [a EXCEPT !.n = @ + 1] \in Active
         /\ Attempt([a EXCEPT !.n = @ + 1]) = Attempt(a)
<1> DEFINE b == [a EXCEPT !.n = @ + 1]
<1>1. a.n + 1 \in 1..MaxRenew
  <2>1. a.n \in 1..MaxRenew /\ MaxRenew \in Nat
    BY IssuerAssumption DEF Active
  <2> QED BY <2>1
<1>2. b \in Active
  BY <1>1 DEF Active
<1>3. b.boot = a.boot /\ b.gen = a.gen /\ b.config = a.config /\ b.seq = a.seq
  BY DEF Active
<1> QED BY <1>2, <1>3 DEF Attempt

LEMMA RenewKeepsInv ==
  ASSUME NEW r, NEW M, NEW U, Before(r, M, U), NEW s \in Streams
  PROVE  After(r, Renew(r, s), M, U)
<1> DEFINE refused == ~r.enrolled \/ ~OfActive(r, s) \/ s \in lost \/ r.active.n = MaxRenew
           next == [r.active EXCEPT !.n = @ + 1]
           c == [r.active EXCEPT !.t = "renew", !.n = @ + 1]
           y == [r EXCEPT !.active = next]
<1>0. r \in Row /\ RowInv(r, M, U)
  BY DEF Before
<1>1. CASE refused
  BY <1>1, Refused DEF Renew
<1>2. CASE ~refused
  <2>1. Renew(r, s) = Emit(y, c, TRUE)
    BY <1>0, <1>2 DEF Renew, Row
  <2>2. r.active \in Active /\ r.active # None
    BY <1>0, <1>2 DEF Row, OfActive
  <2>3. /\ next \in Active /\ next # None /\ c \in Command /\ c.t = "renew"
        /\ next.boot = r.active.boot /\ next.gen = r.active.gen
        /\ next.config = r.active.config
        /\ Attempt(next) = Attempt(r.active) /\ Attempt(c) = Attempt(next)
    <3>1. next \in Active /\ Attempt(next) = Attempt(r.active)
      BY <1>2, <2>2, NextActive
    <3>2. c \in Command /\ c.t = "renew" /\ Attempt(c) = Attempt(r.active)
      BY ZenonT(60), <2>2, NextCommand
    <3> HIDE DEF c, next
    <3> QED BY <3>1, <3>2, NoneAssumption DEF Attempt
  <2> HIDE DEF c, next
  <2>4. y \in Row
    BY SMTT(60), <1>0, <2>3 DEF Row
  <2>5. /\ y.retired = r.retired /\ y.gen = r.gen /\ y.boot = r.boot /\ y.jobs = r.jobs
        /\ y.counter = r.counter /\ y.enrolled = r.enrolled /\ y.outbox = r.outbox
        /\ y.pending = r.pending /\ y.active = next /\ y.config = r.config /\ y.ready = r.ready
    BY <1>0 DEF Row
  <2> HIDE DEF y
  <2>6. Keeps(r, y)
    BY <1>0, <2>5 DEF Keeps, Row, RowInv, Current
  <2>7. RowInv(y, M, U)
    BY <1>0, <2>2, <2>3, <2>5 DEF RowInv, Bounded, Current, Admitted, Proved, Queued
  <2>8. c \in Wire
    BY <2>3 DEF Wire
  <2> QED BY <2>1, <2>3, <2>4, <2>5, <2>6, <2>7, <2>8, EmittedQuiet
<1> QED BY <1>1, <1>2

LEMMA EndedKeepsInv ==
  ASSUME NEW r, NEW M, NEW U, Before(r, M, U)
  PROVE  Ended(r) \in Row /\ Ended(r).jobs = r.jobs /\ Keeps(r, Ended(r)) /\ RowInv(Ended(r), M, U)
<1> DEFINE y == Ended(r)
<1>0. r \in Row /\ RowInv(r, M, U)
  BY DEF Before
<1>1. /\ y \in Row
      /\ y.retired = r.retired /\ y.gen = r.gen /\ y.boot = r.boot /\ y.jobs = r.jobs
      /\ y.counter = r.counter /\ y.enrolled = r.enrolled /\ y.outbox = {}
      /\ y.pending = r.pending /\ y.active = None /\ y.config = r.config /\ y.ready = None
  BY ZenonT(90), <1>0 DEF Row, Ended
<1> HIDE DEF y
<1>2. Keeps(r, y)
  BY <1>0, <1>1 DEF Keeps, Row, RowInv, Current
<1>3. RowInv(y, M, U)
  BY <1>0, <1>1 DEF RowInv, Bounded, Current, Admitted, Proved, Queued, Stamped
<1> QED BY <1>1, <1>2, <1>3 DEF y

LEMMA StopKeepsInv ==
  ASSUME NEW r, NEW M, NEW U, Before(r, M, U), NEW s \in Streams
  PROVE  After(r, Stop(r, s), M, U)
<1> DEFINE c == [r.active EXCEPT !.t = "stop", !.n = @ + 1]
<1>0. r \in Row /\ RowInv(r, M, U)
  BY DEF Before
<1>1. CASE ~r.enrolled \/ ~OfActive(r, s)
  BY <1>1, Refused DEF Stop
<1>2. CASE ~(~r.enrolled \/ ~OfActive(r, s))
  <2>1. Stop(r, s) = Emit(Ended(r), c, TRUE)
    BY <1>2 DEF Stop, Ended
  <2>2. r.active \in Active
    BY SMTT(60), <1>0, <1>2 DEF Row, OfActive
  <2>3. c \in Command /\ c.t = "stop"
    BY <2>2, NextCommand
  <2> HIDE DEF c
  <2> QED BY <2>1, <2>3, EndedKeepsInv, EmittedQuiet DEF Wire
<1> QED BY <1>1, <1>2

LEMMA ReleaseKeepsInv ==
  ASSUME NEW r, NEW M, NEW U, Before(r, M, U), NEW c \in Wire
  PROVE  After(r, Release(r, c), M, U)
<1> DEFINE box == {IF e.m = c THEN [e EXCEPT !.held = FALSE] ELSE e : e \in r.outbox}
           y == [r EXCEPT !.outbox = box]
<1>0. r \in Row /\ RowInv(r, M, U)
  BY DEF Before
<1>1. Release(r, c) = y
  BY <1>0 DEF Release, Row
<1>2. \A e \in box : /\ e \in [m: Wire, held: BOOLEAN]
                     /\ \E f \in r.outbox : e.m = f.m
  BY <1>0 DEF Row
<1> HIDE DEF box
<1>3. y \in Row
  BY ZenonT(90), <1>0, <1>2 DEF Row
<1>4. /\ y.retired = r.retired /\ y.gen = r.gen /\ y.boot = r.boot /\ y.jobs = r.jobs
      /\ y.counter = r.counter /\ y.enrolled = r.enrolled /\ y.outbox = box
      /\ y.pending = r.pending /\ y.active = r.active /\ y.config = r.config /\ y.ready = r.ready
  BY <1>0 DEF Row
<1> HIDE DEF y
<1>5. Keeps(r, y)
  BY <1>0, <1>4 DEF Keeps, Row, RowInv, Current
<1>6. Queued(y, M)
  BY <1>0, <1>2, <1>4 DEF RowInv, Queued, Stamped
<1>7. RowInv(y, M, U)
  BY <1>0, <1>4, <1>6 DEF RowInv, Bounded, Current, Admitted, Proved
<1> QED BY <1>1, <1>3, <1>4, <1>5, <1>7, Quiet

LEMMA ApplyKeepsInv ==
  ASSUME NEW r, NEW M, NEW U, Before(r, M, U), NEW j \in Job, j.k = "incoming" => j.v \in U
  PROVE  After(r, Apply(r, j), M, U)
<1>1. CASE j.k = "configure"
  <2>1. j.v \in Configs
    BY <1>1 DEF Job
  <2> QED BY <1>1, <2>1, ConfigureKeepsInv DEF Apply
<1>2. CASE j.k # "configure" /\ r.config = None
  BY <1>2, Refused DEF Apply
<1>3. CASE j.k = "incoming" /\ r.config # None
  <2>1. j.v \in Hello \cup Proof \cup Result /\ j.v \in U
    BY <1>3 DEF Job
  <2>2. j.v \in Hello => j.v.t = "hello"
    BY DEF Hello
  <2>3. j.v \in Proof => j.v.t = "proof"
    BY DEF Proof
  <2>4. j.v \in Result => j.v.t = "result"
    BY DEF Result
  <2>5. Apply(r, j) = Incoming(r, j.v)
    BY <1>3 DEF Apply
  <2>6. CASE j.v \in Hello
    BY <1>3, <2>2, <2>5, <2>6, OnHelloKeepsInv DEF Incoming
  <2>7. CASE j.v \in Proof
    BY <1>3, <2>1, <2>3, <2>5, <2>7, OnProofKeepsInv DEF Incoming
  <2>8. CASE j.v \in Result
    BY <1>3, <2>1, <2>4, <2>5, <2>8, OnResultKeepsInv DEF Incoming
  <2> QED BY <2>1, <2>6, <2>7, <2>8
<1>4. CASE j.k = "readiness" /\ r.config # None
  BY <1>4, ReadinessKeepsInv DEF Apply
<1>5. CASE j.k = "start" /\ r.config # None
  <2>1. j.v[1] \in Query /\ j.v[2] \in Streams
    BY <1>5 DEF Job
  <2> QED BY <1>5, <2>1, StartKeepsInv DEF Apply
<1>6. CASE j.k \in {"renew", "stop", "retire"} /\ r.config # None
  <2>1. j.v \in Streams
    BY <1>6 DEF Job
  <2>2. After(r, Retire(r, j.v), M, U)
    BY EndedKeepsInv, Quiet, Refused DEF Retire
  <2> QED BY <1>6, <2>1, <2>2, RenewKeepsInv, StopKeepsInv DEF Apply
<1>7. CASE j.k = "release" /\ r.config # None
  <2>1. j.v \in Wire
    BY <1>7 DEF Job
  <2> QED BY <1>7, <2>1, ReleaseKeepsInv DEF Apply
<1>8. CASE j.k = "nack" /\ r.config # None
  <2>1. After(r, Nack(r, j.v), M, U)
    BY EndedKeepsInv, Quiet, Refused DEF Nack
  <2> QED BY <1>8, <2>1 DEF Apply
<1> QED BY <1>1, <1>2, <1>3, <1>4, <1>5, <1>6, <1>7, <1>8 DEF Job

-----------------------------------------------------------------------------
(* The steps of the system.  Only a handled job can add to the row; every  *)
(* other step leaves its fields as they are or drops them.                 *)

Weaker(r, x) ==
  /\ x.retired = r.retired /\ x.boot = r.boot /\ x.counter = r.counter /\ x.config = r.config
  /\ r.gen <= x.gen /\ (x.enrolled => r.enrolled)
  /\ x.pending \in {None, r.pending} /\ x.ready \in {None, r.ready}
  /\ x.active \in {None, r.active} /\ x.outbox \subseteq r.outbox
  /\ x.gen # r.gen => ~x.enrolled /\ x.pending = None /\ x.ready = None /\ x.active = None
  /\ x.active # r.active => \A e \in x.outbox : e.m.t \notin {"start", "renew"}

LEMMA WeakerKeepsInv ==
  ASSUME NEW r \in Row, NEW x \in Row, NEW M, NEW U, NEW V,
         RowInv(r, M, U), Weaker(r, x), U \subseteq V
  PROVE  RowInv(x, M, V) /\ Keeps(r, x)
<1>1. Bounded(x, M)
  BY DEF RowInv, Bounded, Weaker
<1>2. Current(x)
  BY DEF RowInv, Current, Weaker
<1>3. Admitted(x, M, V)
  BY DEF RowInv, Admitted, Weaker
<1>4. Proved(x, V)
  BY DEF RowInv, Proved, Weaker
<1>5. Queued(x, M)
  BY DEF RowInv, Queued, Stamped, Weaker
<1>6. Keeps(r, x)
  BY DEF Keeps, Weaker, RowInv, Current
<1> QED BY <1>1, <1>2, <1>3, <1>4, <1>5, <1>6 DEF RowInv

LEMMA Dropping ==
  ASSUME IndInv, TypeOK', Weaker(row, row'), made' = made, up \subseteq up', Heard(row', up')
  PROVE  IndInv' /\ Keeps(row, row')
<1>1. RowInv(row', made, up') /\ Keeps(row, row')
  BY WeakerKeepsInv DEF IndInv, TypeOK
<1>2. Answered(made, up')
  BY DEF IndInv, Answered
<1> QED BY <1>1, <1>2 DEF IndInv

\* The inbox: a job is appended, or the oldest one is taken out.
LEMMA Appended ==
  ASSUME NEW r \in Row, NEW j \in Job, NEW U, Heard(r, U), j.k = "incoming" => j.v \in U
  PROVE  /\ [r EXCEPT !.jobs = Append(@, j)] \in Row
         /\ Heard([r EXCEPT !.jobs = Append(@, j)], U)
<1> DEFINE x == [r EXCEPT !.jobs = Append(@, j)]
<1>1. r.jobs \in Seq(Job) /\ x.jobs = Append(r.jobs, j)
  BY DEF Row
<1>2. /\ Append(r.jobs, j) \in Seq(Job)
      /\ \A i \in DOMAIN Append(r.jobs, j) :
           (i \in DOMAIN r.jobs /\ Append(r.jobs, j)[i] = r.jobs[i]) \/ Append(r.jobs, j)[i] = j
  BY <1>1
<1>3. x \in Row
  BY ZenonT(90), <1>1, <1>2 DEF Row
<1>4. Heard(x, U)
  BY <1>1, <1>2 DEF Heard
<1> QED BY <1>3, <1>4

LEMMA Taken ==
  ASSUME NEW r \in Row, NEW x \in Row, NEW U, Heard(r, U), r.jobs # <<>>, x.jobs = Tail(r.jobs)
  PROVE  /\ Tail(r.jobs) \in Seq(Job) /\ Head(r.jobs) \in Job /\ Heard(x, U)
         /\ Len(Tail(r.jobs)) <= Len(r.jobs)
         /\ Head(r.jobs).k = "incoming" => Head(r.jobs).v \in U
<1>1. r.jobs \in Seq(Job)
  BY DEF Row
<1>2. /\ Tail(r.jobs) \in Seq(Job) /\ Len(Tail(r.jobs)) = Len(r.jobs) - 1 /\ Len(r.jobs) \in Nat
      /\ Head(r.jobs) = r.jobs[1] /\ 1 \in DOMAIN r.jobs /\ r.jobs[1] \in Job
      /\ \A i \in DOMAIN Tail(r.jobs) : i + 1 \in DOMAIN r.jobs /\ Tail(r.jobs)[i] = r.jobs[i + 1]
  BY <1>1
<1> QED BY <1>2 DEF Heard

\* An owner with a clock has a generation.
LEMMA ClockGeneration ==
  ASSUME IndInv, NEW o \in Issuers, HasClock(o)
  PROVE  row.gen # 0 /\ Before(row, made, up)
<1>1. row.gen \in 1..MaxGen
  BY DEF IndInv, TypeOK, HasClock, Owns
<1> QED BY <1>1, IssuerAssumption DEF IndInv, TypeOK, Before

LEMMA InitInv == Init => IndInv
<1> SUFFICES ASSUME Init PROVE IndInv
  OBVIOUS
<1>1. /\ row.retired = {} /\ row.gen = 0 /\ row.boot = None /\ row.jobs = <<>>
      /\ row.enrolled = FALSE /\ row.outbox = {} /\ row.pending = None
      /\ row.ready = None /\ row.active = None /\ row.config = None /\ made = {} /\ up = {}
  BY DEF Init
<1>2. row \in Row
  BY IssuerAssumption DEF Init, Row
<1>3. dev \in [boot: Boots, hw: 0..MaxSeq, eid: Eids \cup {None}, proof: Offer \cup {None},
              gen: 0..MaxGen, config: Configs \cup {None}, ready: (0..MaxSeq) \cup {None}]
  BY IssuerAssumption DEF Init
<1>4. Len(row.jobs) <= MaxQueue /\ clock \in [Issuers -> (1..MaxGen) \cup {None}]
  BY <1>1, IssuerAssumption DEF Init
<1>5. TypeOK
  BY <1>1, <1>2, <1>3, <1>4 DEF TypeOK, Init
<1>6. RowInv(row, made, up)
  BY <1>1 DEF RowInv, Bounded, Current, Admitted, Proved, Queued, Stamped
<1> QED BY <1>1, <1>5, <1>6 DEF IndInv, Heard, Unique, Answered

\* What a takeover and a regressed clock leave of the row.
LEMMA FencedFields ==
  ASSUME row \in Row
  PROVE  LET f == Fenced(row)
         IN /\ f \in Row /\ f.retired = row.retired /\ f.boot = row.boot
            /\ f.counter = row.counter /\ f.config = row.config /\ f.gen = row.gen
            /\ f.enrolled = FALSE /\ f.pending = None /\ f.ready = None /\ f.active = None
            /\ f.outbox = {} /\ f.jobs = row.jobs
<1> DEFINE f == Fenced(row)
<1>1. f \in Row
  BY ZenonT(90) DEF Fenced, Row
<1>2. /\ f.retired = row.retired /\ f.boot = row.boot
      /\ f.counter = row.counter /\ f.config = row.config /\ f.gen = row.gen
      /\ f.enrolled = FALSE /\ f.pending = None /\ f.ready = None /\ f.active = None
      /\ f.outbox = {} /\ f.jobs = row.jobs
  BY DEF Fenced, Row
<1> QED BY <1>1, <1>2

LEMMA PumpStep ==
  ASSUME IndInv, NEW o \in Issuers, Pump(o)
  PROVE  IndInv' /\ Keeps(row, row')
<1>0. TypeOK /\ row \in Row /\ Before(row, made, up)
  BY ClockGeneration DEF IndInv, TypeOK, Pump
<1>1. CASE row.jobs = <<>> /\ row' = [row EXCEPT !.fenced = TRUE] /\ made' = made
  <2>1. row' \in Row /\ row'.jobs = row.jobs /\ Weaker(row, row')
    <3>1. row' \in Row
      BY ZenonT(90), <1>0, <1>1 DEF Row
    <3>2. /\ row'.retired = row.retired /\ row'.boot = row.boot /\ row'.counter = row.counter
          /\ row'.config = row.config /\ row'.gen = row.gen /\ row'.enrolled = row.enrolled
          /\ row'.pending = row.pending /\ row'.ready = row.ready /\ row'.active = row.active
          /\ row'.outbox = row.outbox /\ row'.jobs = row.jobs /\ row.gen \in 0..MaxGen
      BY <1>0, <1>1 DEF Row
    <3> QED BY <3>1, <3>2, IssuerAssumption DEF Weaker
  <2>2. TypeOK' /\ up' = up /\ Heard(row', up')
    BY <1>0, <1>1, <2>1 DEF TypeOK, Pump, Heard
  <2> QED BY <1>1, <2>1, <2>2, Dropping
<1>2. CASE row.jobs # <<>>
  <2> DEFINE next == Apply(row, Head(row.jobs))
  <2>1. /\ row' = [next EXCEPT !.jobs = Tail(@), !.fenced = TRUE]
        /\ made' = made \cup Stamped(next.outbox) /\ up' = up
    BY <1>2 DEF Pump
  <2>2. /\ Head(row.jobs) \in Job /\ Tail(row.jobs) \in Seq(Job)
        /\ Head(row.jobs).k = "incoming" => Head(row.jobs).v \in up
        /\ Len(Tail(row.jobs)) <= Len(row.jobs) /\ Len(Tail(row.jobs)) \in Nat
    <3> DEFINE z == [row EXCEPT !.jobs = Tail(@)]
    <3>1. row.jobs \in Seq(Job)
      BY <1>0 DEF Row
    <3>2. Tail(row.jobs) \in Seq(Job) /\ Len(Tail(row.jobs)) \in Nat
      BY <1>2, <3>1
    <3>3. z \in Row /\ z.jobs = Tail(row.jobs)
      BY SMTT(90), <1>0, <3>2 DEF Row
    <3> QED BY <1>0, <1>2, <3>2, <3>3, Taken DEF IndInv
  <2>3. After(row, next, made, up)
    BY <1>0, <2>2, ApplyKeepsInv
  <2> HIDE DEF next
  <2>4. next \in Row /\ next.jobs = row.jobs
    BY <2>3 DEF After
  <2>5. /\ row' \in Row /\ row'.jobs = Tail(row.jobs)
        /\ row'.retired = next.retired /\ row'.gen = next.gen /\ row'.boot = next.boot
        /\ row'.counter = next.counter /\ row'.enrolled = next.enrolled
        /\ row'.pending = next.pending /\ row'.ready = next.ready
        /\ row'.active = next.active /\ row'.config = next.config /\ row'.outbox = next.outbox
    BY ZenonT(90), <2>1, <2>2, <2>4 DEF Row
  <2>6. Heard(row', up')
    BY <1>0, <1>2, <2>1, <2>5, Taken DEF IndInv
  <2>7. RowInv(row', made', up') /\ Unique(made') /\ Answered(made', up') /\ Keeps(row, row')
    BY <2>1, <2>3, <2>5
    DEF After, RowInv, Bounded, Current, Admitted, Proved, Queued, Keeps
  <2>8. made' \subseteq Query \cup Command
    BY <2>1, <2>3 DEF After
  <2>9. Len(row'.jobs) <= MaxQueue
    BY <1>0, <2>2, <2>5, IssuerAssumption DEF TypeOK, Row
  <2>10. TypeOK'
    BY <1>0, <2>5, <2>8, <2>9 DEF TypeOK, Pump
  <2> QED BY <2>6, <2>7, <2>10 DEF IndInv
<1> QED BY <1>1, <1>2 DEF Pump

LEMMA OwnerStep ==
  ASSUME IndInv, NEW o \in Issuers,
         \/ Takeover(o) \/ FailedTakeover(o) \/ JobExpires(o) \/ Expire(o)
         \/ \E e \in row.outbox : Flush(o, e)
         \/ Crash(o) \/ ClockRegresses(o)
  PROVE  IndInv' /\ Keeps(row, row')
<1>0. TypeOK /\ row \in Row
  BY DEF IndInv, TypeOK
<1>1. CASE Takeover(o)
  <2>1. row.gen + 1 \in 1..MaxGen /\ row.gen <= row.gen + 1
    BY <1>0, <1>1, IssuerAssumption DEF Row, Takeover
  <2> DEFINE f == Fenced(row)
  <2>a. /\ f \in Row /\ f.retired = row.retired /\ f.boot = row.boot
        /\ f.counter = row.counter /\ f.config = row.config /\ f.gen = row.gen
        /\ f.enrolled = FALSE /\ f.pending = None /\ f.ready = None /\ f.active = None
        /\ f.outbox = {} /\ f.jobs = row.jobs
    BY <1>0, FencedFields
  <2>b. row' = [f EXCEPT !.owner = o, !.fenced = TRUE, !.gen = @ + 1]
    BY <1>1 DEF Takeover, TakenOver
  <2> HIDE DEF f
  <2>2. row' \in Row
    <3>1. f.gen + 1 \in 0..MaxGen
      BY <2>1, <2>a
    <3> QED BY ZenonT(90), <3>1, <2>a, <2>b DEF Row
  <2>3. Weaker(row, row') /\ row'.jobs = row.jobs
    BY <1>0, <2>1, <2>a, <2>b DEF Row, Weaker
  <2>4. TypeOK' /\ made' = made /\ up' = up /\ Heard(row', up')
    BY <1>0, <1>1, <2>1, <2>2, <2>3 DEF TypeOK, Takeover, Heard, IndInv
  <2> QED BY <2>3, <2>4, Dropping
<1>2. CASE FailedTakeover(o)
  <2>1. row.gen + 1 \in 1..MaxGen /\ row.gen <= row.gen
    BY <1>0, <1>2, IssuerAssumption DEF Row, FailedTakeover
  <2>2. row' = row /\ Weaker(row, row')
    BY <1>2, <2>1 DEF FailedTakeover, Weaker
  <2>3. TypeOK' /\ made' = made /\ up' = up /\ Heard(row', up')
    BY <1>0, <1>2, <2>1 DEF TypeOK, FailedTakeover, Heard, IndInv
  <2> QED BY <2>2, <2>3, Dropping
<1>3. CASE JobExpires(o)
  <2>1. row.jobs \in Seq(Job) /\ row.jobs # <<>>
    BY <1>0, <1>3 DEF Row, JobExpires
  <2>2. Tail(row.jobs) \in Seq(Job) /\ Len(Tail(row.jobs)) \in Nat /\ Len(row.jobs) \in Nat
    BY <2>1
  <2>3. row' \in Row /\ row'.jobs = Tail(row.jobs) /\ Weaker(row, row')
    <3>1. row' \in Row
      BY ZenonT(90), <1>0, <1>3, <2>2 DEF Row, JobExpires
    <3>2. /\ row'.retired = row.retired /\ row'.boot = row.boot /\ row'.counter = row.counter
          /\ row'.config = row.config /\ row'.gen = row.gen /\ row'.enrolled = row.enrolled
          /\ row'.pending = row.pending /\ row'.ready = row.ready /\ row'.active = row.active
          /\ row'.outbox = row.outbox /\ row'.jobs = Tail(row.jobs) /\ row.gen \in 0..MaxGen
      BY <1>0, <1>3 DEF Row, JobExpires
    <3> QED BY <3>1, <3>2, IssuerAssumption DEF Weaker
  <2>4. Heard(row', up) /\ Len(row'.jobs) <= Len(row.jobs)
    BY <1>0, <2>1, <2>3, Taken DEF IndInv
  <2>5. TypeOK' /\ made' = made /\ up' = up
    BY SMTT(60), <1>0, <1>3, <2>2, <2>3, <2>4, IssuerAssumption DEF TypeOK, JobExpires
  <2> QED BY <2>3, <2>4, <2>5, Dropping
<1>4. CASE Expire(o)
  <2>1. row' \in Row /\ Weaker(row, row') /\ row'.jobs = row.jobs
    <3>1. PICK x \in Dropped(row) : row' = [x EXCEPT !.fenced = TRUE]
      BY <1>4 DEF Expire
    <3>2. row.gen <= row.gen
      BY <1>0, IssuerAssumption DEF Row
    <3>3. /\ x \in Row /\ x.jobs = row.jobs /\ x.retired = row.retired /\ x.boot = row.boot
          /\ x.counter = row.counter /\ x.config = row.config /\ x.gen = row.gen
          /\ x.enrolled = row.enrolled /\ x.outbox \subseteq row.outbox
          /\ x.pending \in {None, row.pending} /\ x.ready \in {None, row.ready}
          /\ \/ x.active = row.active
             \/ x.active = None /\ x.outbox = Without(row.outbox, {"start", "renew"})
      <4> DEFINE box1 == Without(row.outbox, {"offer"})
                 box2 == Without(row.outbox, {"query"})
                 box3 == Without(row.outbox, {"start", "renew"})
                 box4 == Without(row.outbox, {"commit"})
      <4>0. /\ box1 \subseteq row.outbox /\ box2 \subseteq row.outbox
            /\ box3 \subseteq row.outbox /\ box4 \subseteq row.outbox
        BY DEF Without
      <4>1. \/ x = [row EXCEPT !.pending = None, !.outbox = box1]
            \/ x = [row EXCEPT !.ready = None, !.outbox = box2]
            \/ x = [row EXCEPT !.active = None, !.ready = None, !.outbox = box3]
            \/ x = [row EXCEPT !.completed = None, !.outbox = box4]
        BY DEF Dropped
      <4> HIDE DEF box1, box2, box3, box4
      <4>2. CASE x = [row EXCEPT !.pending = None, !.outbox = box1]
        <5>1. x \in Row
          BY ZenonT(90), <1>0, <4>0, <4>2 DEF Row
        <5>2. /\ x.jobs = row.jobs /\ x.retired = row.retired /\ x.boot = row.boot
              /\ x.counter = row.counter /\ x.config = row.config /\ x.gen = row.gen
              /\ x.enrolled = row.enrolled /\ x.active = row.active
          BY <1>0, <4>2 DEF Row
        <5>3. /\ x.outbox \subseteq row.outbox
              /\ x.pending \in {None, row.pending} /\ x.ready \in {None, row.ready}
          <6>1. x.outbox = box1 /\ x.pending = None /\ x.ready = row.ready
            BY <1>0, <4>2 DEF Row
          <6> QED BY <4>0, <6>1
        <5> QED BY <5>1, <5>2, <5>3
      <4>3. CASE x = [row EXCEPT !.ready = None, !.outbox = box2]
        <5>1. x \in Row
          BY ZenonT(90), <1>0, <4>0, <4>3 DEF Row
        <5>2. /\ x.jobs = row.jobs /\ x.retired = row.retired /\ x.boot = row.boot
              /\ x.counter = row.counter /\ x.config = row.config /\ x.gen = row.gen
              /\ x.enrolled = row.enrolled /\ x.active = row.active
          BY <1>0, <4>3 DEF Row
        <5>3. /\ x.outbox \subseteq row.outbox
              /\ x.pending \in {None, row.pending} /\ x.ready \in {None, row.ready}
          <6>1. x.outbox = box2 /\ x.pending = row.pending /\ x.ready = None
            BY <1>0, <4>3 DEF Row
          <6> QED BY <4>0, <6>1
        <5> QED BY <5>1, <5>2, <5>3
      <4>4. CASE x = [row EXCEPT !.active = None, !.ready = None, !.outbox = box3]
        BY ZenonT(90), <1>0, <4>0, <4>4 DEF Row, box3
      <4>5. CASE x = [row EXCEPT !.completed = None, !.outbox = box4]
        <5>1. x \in Row
          BY ZenonT(90), <1>0, <4>0, <4>5 DEF Row
        <5>2. /\ x.jobs = row.jobs /\ x.retired = row.retired /\ x.boot = row.boot
              /\ x.counter = row.counter /\ x.config = row.config /\ x.gen = row.gen
              /\ x.enrolled = row.enrolled /\ x.active = row.active
          BY <1>0, <4>5 DEF Row
        <5>3. /\ x.outbox \subseteq row.outbox
              /\ x.pending \in {None, row.pending} /\ x.ready \in {None, row.ready}
          <6>1. x.outbox = box4 /\ x.pending = row.pending /\ x.ready = row.ready
            BY <1>0, <4>5 DEF Row
          <6> QED BY <4>0, <6>1
        <5> QED BY <5>1, <5>2, <5>3
      <4> QED BY <4>1, <4>2, <4>3, <4>4, <4>5
    <3>4. row' \in Row
      BY ZenonT(90), <3>1, <3>3 DEF Row
    <3> QED BY SMTT(60), <3>1, <3>2, <3>3, <3>4 DEF Row, Weaker, Without
  <2>2. TypeOK' /\ made' = made /\ up' = up /\ Heard(row', up')
    BY <1>0, <1>4, <2>1 DEF TypeOK, Expire, Heard, IndInv
  <2> QED BY <2>1, <2>2, Dropping
<1>5. ASSUME NEW e \in row.outbox, Flush(o, e) PROVE IndInv' /\ Keeps(row, row')
  <2>1. row' = [row EXCEPT !.outbox = @ \ {e}] /\ down' \subseteq down \cup {e.m} /\ e.m \in Wire
    BY <1>0, <1>5 DEF Row, Flush
  <2>2. row' \in Row /\ Weaker(row, row') /\ row'.jobs = row.jobs
    <3>1. row' \in Row
      BY ZenonT(90), <1>0, <2>1 DEF Row
    <3>2. /\ row'.retired = row.retired /\ row'.boot = row.boot /\ row'.counter = row.counter
          /\ row'.config = row.config /\ row'.gen = row.gen /\ row'.enrolled = row.enrolled
          /\ row'.pending = row.pending /\ row'.ready = row.ready /\ row'.active = row.active
          /\ row'.outbox = row.outbox \ {e} /\ row'.jobs = row.jobs /\ row.gen \in 0..MaxGen
      BY <1>0, <2>1 DEF Row
    <3> QED BY <3>1, <3>2, IssuerAssumption DEF Weaker
  <2>3. TypeOK' /\ made' = made /\ up' = up /\ Heard(row', up')
    BY <1>0, <1>5, <2>1, <2>2 DEF TypeOK, Flush, Heard, IndInv
  <2> QED BY <2>2, <2>3, Dropping
<1>6. CASE Crash(o)
  <2>1. row' \in Row /\ Weaker(row, row') /\ row'.jobs = row.jobs
    <3>1. row' \in Row
      BY ZenonT(90), <1>0, <1>6 DEF Row, Crash
    <3>2. /\ row'.retired = row.retired /\ row'.boot = row.boot /\ row'.counter = row.counter
          /\ row'.config = row.config /\ row'.gen = row.gen /\ row'.enrolled = row.enrolled
          /\ row'.pending = row.pending /\ row'.ready = row.ready /\ row'.active = row.active
          /\ row'.outbox = row.outbox /\ row'.jobs = row.jobs /\ row.gen \in 0..MaxGen
      BY <1>0, <1>6 DEF Row, Crash
    <3> QED BY <3>1, <3>2, IssuerAssumption DEF Weaker
  <2>2. TypeOK' /\ made' = made /\ up' = up /\ Heard(row', up')
    BY <1>0, <1>6, <2>1 DEF TypeOK, Crash, Heard, IndInv
  <2> QED BY <2>1, <2>2, Dropping
<1>7. CASE ClockRegresses(o)
  <2>1. row' \in Row /\ Weaker(row, row') /\ row'.jobs = row.jobs
    <3> DEFINE f == Fenced(row)
    <3>1. /\ f \in Row /\ f.retired = row.retired /\ f.boot = row.boot
          /\ f.counter = row.counter /\ f.config = row.config /\ f.gen = row.gen
          /\ f.enrolled = FALSE /\ f.pending = None /\ f.ready = None /\ f.active = None
          /\ f.outbox = {} /\ f.jobs = row.jobs
      BY <1>0, FencedFields
    <3>2. row' = [f EXCEPT !.completed = row.completed, !.fenced = FALSE]
      BY <1>7 DEF ClockRegresses
    <3> HIDE DEF f
    <3>3. row' \in Row
      BY ZenonT(60), <1>0, <3>1, <3>2 DEF Row
    <3>4. row.gen <= row.gen
      BY <1>0, IssuerAssumption DEF Row
    <3> QED BY <3>1, <3>2, <3>3, <3>4 DEF Row, Weaker
  <2>2. TypeOK' /\ made' = made /\ up' = up /\ Heard(row', up')
    BY <1>0, <1>7, <2>1 DEF TypeOK, ClockRegresses, Heard, IndInv
  <2> QED BY <2>1, <2>2, Dropping
<1> QED BY <1>1, <1>2, <1>3, <1>4, <1>5, <1>6, <1>7

\* A worker's submission and a forwarded message append one job.
LEMMA EnqueueStep ==
  ASSUME IndInv, NEW k, NEW v, [k |-> k, v |-> v] \in Job, k = "incoming" => v \in up,
         Enqueue(k, v), UNCHANGED <<clock, down, up, made, lost, dev>>
  PROVE  IndInv' /\ Keeps(row, row')
<1> DEFINE j == [k |-> k, v |-> v]
<1>0. TypeOK /\ row \in Row /\ Heard(row, up)
  BY DEF IndInv, TypeOK
<1>1. j \in Job /\ (j.k = "incoming" => j.v \in up)
  OBVIOUS
<1>2. row' = [row EXCEPT !.jobs = Append(@, j)] /\ Len(row.jobs) < MaxQueue
  BY DEF Enqueue
<1> HIDE DEF j
<1>3. row' \in Row /\ Heard(row', up)
  BY <1>0, <1>1, <1>2, Appended
<1>4. row.jobs \in Seq(Job) /\ row'.jobs = Append(row.jobs, j)
  BY <1>0, <1>2 DEF Row
<1>5. Len(row'.jobs) <= MaxQueue
  BY <1>1, <1>2, <1>4, IssuerAssumption
<1>6. /\ row'.retired = row.retired /\ row'.boot = row.boot /\ row'.counter = row.counter
      /\ row'.config = row.config /\ row'.gen = row.gen /\ row'.enrolled = row.enrolled
      /\ row'.pending = row.pending /\ row'.ready = row.ready /\ row'.active = row.active
      /\ row'.outbox = row.outbox /\ row.gen \in 0..MaxGen
  BY <1>0, <1>2 DEF Row
<1>7. Weaker(row, row')
  BY <1>6, IssuerAssumption DEF Weaker
<1>8. TypeOK'
  BY <1>0, <1>3, <1>5 DEF TypeOK
<1> QED BY <1>0, <1>3, <1>7, <1>8, Dropping

LEMMA SubmitStep ==
  ASSUME IndInv, Submit
  PROVE  IndInv' /\ Keeps(row, row')
<1>0. UNCHANGED <<clock, down, up, made, lost, dev>> /\ made \subseteq Query \cup Command
  BY DEF Submit, IndInv, TypeOK
<1>1. CASE \E c \in Configs : row.config # c /\ Enqueue("configure", c)
  <2>1. PICK c \in Configs : Enqueue("configure", c)
    BY <1>1
  <2>2. [k |-> "configure", v |-> c] \in Job
    BY DEF Job
  <2> QED BY <1>0, <2>1, <2>2, EnqueueStep
<1>2. CASE Enqueue("readiness", None)
  <2>1. [k |-> "readiness", v |-> None] \in Job
    BY DEF Job
  <2> QED BY <1>0, <1>2, <2>1, EnqueueStep
<1>3. ASSUME NEW s \in Streams, NEW q \in made \cap Query, Enqueue("start", <<q, s>>)
      PROVE  IndInv' /\ Keeps(row, row')
  <2>1. [k |-> "start", v |-> <<q, s>>] \in Job
    BY DEF Job
  <2> QED BY <1>0, <1>3, <2>1, EnqueueStep
<1>4. ASSUME NEW s \in Streams, NEW k \in {"renew", "stop", "retire"}, Enqueue(k, s)
      PROVE  IndInv' /\ Keeps(row, row')
  <2>1. [k |-> k, v |-> s] \in Job /\ k # "incoming"
    BY DEF Job
  <2> QED BY <1>0, <1>4, <2>1, EnqueueStep
<1> QED BY <1>1, <1>2, <1>3, <1>4 DEF Submit

LEMMA ForwardStep ==
  ASSUME IndInv, Forward
  PROVE  IndInv' /\ Keeps(row, row')
<1>0. /\ UNCHANGED <<clock, down, up, made, lost, dev>>
      /\ up \subseteq Hello \cup Proof \cup Result \cup [t: {"nack"}, c: Command]
      /\ row \in Row
  BY DEF Forward, IndInv, TypeOK
<1>1. ASSUME NEW m \in up, m.t # "nack", Enqueue("incoming", m)
      PROVE  IndInv' /\ Keeps(row, row')
  <2>1. m \in Hello \cup Proof \cup Result
    BY <1>0, <1>1
  <2>2. [k |-> "incoming", v |-> m] \in Job
    BY <2>1 DEF Job
  <2> QED BY <1>0, <1>1, <2>2, EnqueueStep
<1>2. ASSUME NEW m \in up, m.t = "nack", Enqueue("nack", m.c)
      PROVE  IndInv' /\ Keeps(row, row')
  <2>1. m.c \in Command
    BY <1>0, <1>2 DEF Hello, Proof, Result
  <2>2. [k |-> "nack", v |-> m.c] \in Job
    BY <2>1 DEF Job
  <2> QED BY <1>0, <1>2, <2>2, EnqueueStep
<1>3. ASSUME NEW e \in row.outbox, Enqueue("release", e.m)
      PROVE  IndInv' /\ Keeps(row, row')
  <2>1. e.m \in Wire
    BY <1>0 DEF Row
  <2>2. [k |-> "release", v |-> e.m] \in Job
    BY <2>1 DEF Job
  <2> QED BY <1>0, <1>3, <2>2, EnqueueStep
<1> QED BY <1>1, <1>2, <1>3 DEF Forward, Arrives

\* A hold that ends only frees the row for the next takeover.
LEMMA LapseStep ==
  ASSUME IndInv, Lapse \/ Stall
  PROVE  IndInv' /\ Keeps(row, row')
<1>0. TypeOK /\ row \in Row
  BY DEF IndInv, TypeOK
<1>1. row' = [row EXCEPT !.fenced = FALSE] /\ UNCHANGED <<clock, down, up, made, lost, dev>>
  BY DEF Lapse, Stall
<1>2. row' \in Row /\ Weaker(row, row') /\ row'.jobs = row.jobs
  <2>1. row' \in Row
    BY ZenonT(90), <1>0, <1>1 DEF Row
  <2>2. /\ row'.retired = row.retired /\ row'.boot = row.boot /\ row'.counter = row.counter
        /\ row'.config = row.config /\ row'.gen = row.gen /\ row'.enrolled = row.enrolled
        /\ row'.pending = row.pending /\ row'.ready = row.ready /\ row'.active = row.active
        /\ row'.outbox = row.outbox /\ row'.jobs = row.jobs /\ row.gen \in 0..MaxGen
    BY <1>0, <1>1 DEF Row
  <2> QED BY <2>1, <2>2, IssuerAssumption DEF Weaker
<1>3. TypeOK' /\ Heard(row', up')
  BY <1>0, <1>1, <1>2 DEF TypeOK, Heard, IndInv
<1> QED BY <1>1, <1>2, <1>3, Dropping

\* The terminal and the leases are no part of the row: the terminal only adds
\* to what it has said.
LEMMA OutsideStep ==
  ASSUME IndInv, TypeOK', row' = row, made' = made, up \subseteq up'
  PROVE  IndInv' /\ Keeps(row, row')
<1>1. row \in Row /\ row.gen \in 0..MaxGen
  BY DEF IndInv, TypeOK, Row
<1>2. Weaker(row, row')
  BY <1>1, IssuerAssumption DEF Weaker
<1>3. Heard(row', up')
  BY DEF IndInv, Heard
<1> QED BY <1>2, <1>3, Dropping

LEMMA TerminalStep ==
  ASSUME IndInv, Terminal \/ \E s \in Streams : LoseLease(s)
  PROVE  IndInv' /\ Keeps(row, row')
<1> DEFINE D == [boot: Boots, hw: 0..MaxSeq, eid: Eids \cup {None}, proof: Offer \cup {None},
                 gen: 0..MaxGen, config: Configs \cup {None}, ready: (0..MaxSeq) \cup {None}]
           U == Hello \cup Proof \cup Result \cup [t: {"nack"}, c: Command]
<1>0. TypeOK /\ dev \in D /\ up \subseteq U /\ down \subseteq Wire
  BY DEF IndInv, TypeOK
<1>1. ASSUME NEW s \in Streams, LoseLease(s) PROVE IndInv' /\ Keeps(row, row')
  <2>1. TypeOK' /\ UNCHANGED <<row, made, up>>
    BY <1>0, <1>1 DEF TypeOK, LoseLease
  <2> QED BY <2>1, OutsideStep
<1>2. CASE DevHello
  <2>1. PICK e \in Eids : /\ dev' = [dev EXCEPT !.eid = e, !.proof = None]
                          /\ up' = up \cup {[t |-> "hello", boot |-> dev.boot, eid |-> e,
                                             hw |-> dev.hw]}
    BY <1>2 DEF DevHello, Says
  <2>2. dev' \in D
    BY <1>0, <2>1
  <2>3. [t |-> "hello", boot |-> dev.boot, eid |-> e, hw |-> dev.hw] \in Hello
    BY <1>0 DEF Hello
  <2>4. TypeOK' /\ row' = row /\ made' = made /\ up \subseteq up'
    BY <1>0, <1>2, <2>1, <2>2, <2>3 DEF TypeOK, DevHello
  <2> QED BY <2>4, OutsideStep
<1>3. CASE DevReboot
  <2>1. dev' \in D
    BY <1>3, IssuerAssumption DEF DevReboot
  <2>2. TypeOK' /\ UNCHANGED <<row, made, up>>
    BY <1>0, <1>3, <2>1 DEF TypeOK, DevReboot
  <2> QED BY <2>2, OutsideStep
<1>4. ASSUME NEW m \in down, DevOffer(m) PROVE IndInv' /\ Keeps(row, row')
  <2>1. m \in Offer
    BY <1>0, <1>4 DEF DevOffer, Wire, Commit, Query, Command
  <2>2. dev' \in D
    BY <1>0, <1>4, <2>1 DEF DevOffer
  <2>3. [t |-> "proof", boot |-> m.boot, eid |-> m.eid, gen |-> m.gen,
         config |-> m.config, floor |-> m.floor, hw |-> dev.hw] \in Proof
    BY <1>0, <2>1 DEF Offer, Proof
  <2>4. TypeOK' /\ row' = row /\ made' = made /\ up \subseteq up'
    BY <1>0, <1>4, <2>2, <2>3 DEF TypeOK, DevOffer, Says
  <2> QED BY <2>4, OutsideStep
<1>5. ASSUME NEW m \in down, DevCommit(m) PROVE IndInv' /\ Keeps(row, row')
  <2>1. m \in Commit
    BY <1>0, <1>5 DEF DevCommit, Wire, Offer, Query, Command
  <2>2. m.gen \in 0..MaxGen /\ m.config \in Configs /\ m.floor \in 0..MaxSeq
    BY <2>1, IssuerAssumption DEF Commit
  <2>3. dev' \in D
    BY <1>0, <1>5, <2>2 DEF DevCommit
  <2>4. TypeOK' /\ UNCHANGED <<row, made, up>>
    BY <1>0, <1>5, <2>3 DEF TypeOK, DevCommit
  <2> QED BY <2>4, OutsideStep
<1>6. ASSUME NEW m \in down, DevQuery(m) PROVE IndInv' /\ Keeps(row, row')
  <2>1. m \in Query
    BY <1>0, <1>6 DEF DevQuery, Wire, Offer, Commit, Command
  <2>2. m.seq \in 0..MaxSeq
    BY <2>1, IssuerAssumption DEF Query
  <2>3. dev' \in D
    BY <1>0, <1>6, <2>2 DEF DevQuery
  <2>4. [t |-> "result", boot |-> m.boot, gen |-> m.gen, config |-> m.config,
         seq |-> m.seq] \in Result
    BY <2>1 DEF Query, Result
  <2>5. TypeOK' /\ row' = row /\ made' = made /\ up \subseteq up'
    BY <1>0, <1>6, <2>3, <2>4 DEF TypeOK, DevQuery, Says
  <2> QED BY <2>5, OutsideStep
<1>7. ASSUME NEW m \in down, DevStart(m) PROVE IndInv' /\ Keeps(row, row')
  <2>1. m \in Command
    BY <1>0, <1>7 DEF DevStart, Wire, Offer, Commit, Query
  <2>2. dev' \in D
    BY <1>0, <1>7 DEF DevStart
  <2>3. TypeOK' /\ row' = row /\ made' = made /\ up \subseteq up'
    BY <1>0, <1>7, <2>1, <2>2 DEF TypeOK, DevStart, Says
  <2> QED BY <2>3, OutsideStep
<1> QED BY <1>1, <1>2, <1>3, <1>4, <1>5, <1>6, <1>7 DEF Terminal

LEMMA NextKeeps ==
  ASSUME IndInv, [Next]_vars
  PROVE  IndInv' /\ [Keeps(row, row')]_vars
<1>1. CASE UNCHANGED vars
  <2>1. row' = row /\ made' = made /\ up' = up /\ clock' = clock /\ down' = down
        /\ lost' = lost /\ dev' = dev
    BY <1>1 DEF vars
  <2>2. TypeOK'
    BY <2>1 DEF IndInv, TypeOK
  <2>3. IndInv'
    BY <2>1, <2>2, OutsideStep
  <2> QED BY <1>1, <2>3
<1>2. ASSUME NEW o \in Issuers, Issuer(o) PROVE IndInv' /\ Keeps(row, row')
  <2>1. CASE Pump(o)
    BY <2>1, PumpStep
  <2>2. CASE \/ Takeover(o) \/ FailedTakeover(o) \/ JobExpires(o) \/ Expire(o)
             \/ \E e \in row.outbox : Flush(o, e)
             \/ Crash(o) \/ ClockRegresses(o)
    BY <2>2, OwnerStep
  <2> QED BY <1>2, <2>1, <2>2 DEF Issuer
<1>3. CASE Next
  BY <1>2, <1>3, LapseStep, SubmitStep, ForwardStep, TerminalStep DEF Next
<1> QED BY <1>1, <1>3

LEMMA Inductive == Spec => []IndInv
<1>1. IndInv /\ [Next]_vars => IndInv'
  BY NextKeeps
<1> QED BY InitInv, <1>1, PTL DEF Spec

-----------------------------------------------------------------------------
(* The counter and the terminal.  What raises the terminal's number is a   *)
(* commit or a query; those of a boot exist only once the row has named    *)
(* it, so a boot that is proved for the first time still stands where its  *)
(* proof says.                                                             *)

Level(m) == IF m.t = "commit" THEN m.floor ELSE m.seq

\* What the row has to send, now or when a message is repeated.
Kept(r) == {e.m : e \in r.outbox} \cup {c.commit : c \in {r.completed} \ {None}}

Raising(D) == {m \in D : m.t \in {"commit", "query"}}

Named(r) == (r.retired \cup {r.boot}) \ {None}

LevelInv(r, D, U, d) ==
  /\ \A m \in Raising(D \cup Kept(r)) :
       m.boot \in Named(r) /\ (m.boot = r.boot => Level(m) <= r.counter)
  /\ r.boot = d.boot => d.hw <= r.counter
  /\ d.boot \notin Named(r) => \A m \in U : m.t = "proof" /\ m.boot = d.boot => d.hw <= m.hw
  /\ \A b \in Named(r) : b <= d.boot
  /\ \A m \in U : m.t = "proof" => m.boot <= d.boot

FullInv == IndInv /\ LevelInv(row, down, up, dev)

\* What a step of the row does to its boots and its counter.
Rises(r, x, U) ==
  /\ \A m \in Raising(Kept(x)) : m \in Kept(r) \/ (m.boot = x.boot /\ Level(m) <= x.counter)
  /\ x.boot = r.boot => r.counter <= x.counter
  /\ \/ x.boot = r.boot /\ x.retired = r.retired
     \/ \E p \in U : /\ p.t = "proof" /\ p.boot = x.boot /\ p.boot \notin r.retired
                     /\ p.hw <= x.counter /\ Named(x) = Named(r) \cup {p.boot}

LEMMA KeptWire ==
  ASSUME NEW r \in Row
  PROVE  Kept(r) \subseteq Wire
<1>1. \A e \in r.outbox : e.m \in Wire
  BY DEF Row
<1>2. r.completed # None => r.completed.commit \in Wire
  BY DEF Row, Wire
<1> QED BY <1>1, <1>2 DEF Kept

LEMMA RaisingTyped ==
  ASSUME NEW m \in Wire, m.t \in {"commit", "query"}
  PROVE  m.boot \in Boots /\ m.boot # None /\ Level(m) \in Nat
<1>1. m \in Commit \/ m \in Query
  BY DEF Wire, Offer, Command
<1>2. CASE m \in Commit
  <2>1. m.t = "commit" /\ m.floor \in 0..MaxSeq /\ m.boot \in Boots
    BY <1>2 DEF Commit
  <2> QED BY <2>1, IssuerAssumption DEF Level
<1>3. CASE m \in Query
  <2>1. m.t = "query" /\ m.seq \in 1..MaxSeq /\ m.boot \in Boots
    BY <1>3 DEF Query
  <2> QED BY <2>1, IssuerAssumption DEF Level
<1> QED BY <1>1, <1>2, <1>3

LEMMA Between == \A i, j, k \in Nat : i <= j /\ j <= k => i <= k
OBVIOUS

LEMMA LevelKept ==
  ASSUME NEW r \in Row, NEW x \in Row, NEW D, D \subseteq Wire, NEW E, NEW U, NEW d,
         LevelInv(r, D, U, d), Rises(r, x, U), E \subseteq D \cup Kept(r), d.hw \in Nat,
         \A p \in U : p.t = "proof" => p.hw \in Nat /\ p.boot \in Boots
  PROVE  LevelInv(x, E, U, d)
<1>0. r.counter \in Nat /\ x.counter \in Nat /\ None \notin Boots
  BY IssuerAssumption DEF Row
<1>1. /\ \A m \in Raising(D \cup Kept(r)) : m.boot # None /\ Level(m) \in Nat
      /\ \A m \in Raising(Kept(x)) : m.boot # None /\ Level(m) \in Nat
  <2>1. D \cup Kept(r) \subseteq Wire /\ Kept(x) \subseteq Wire
    BY KeptWire
  <2> QED BY <2>1, RaisingTyped DEF Raising
<1>2. \A m \in Raising(E \cup Kept(x)) :
        \/ m \in Raising(D \cup Kept(r))
        \/ m \in Raising(Kept(x)) /\ m \notin Kept(r)
  BY DEF Raising
<1>3. \A m \in Raising(Kept(x)) : m \notin Kept(r) => m.boot = x.boot /\ Level(m) <= x.counter
  BY DEF Rises
<1>4. \A m \in Raising(D \cup Kept(r)) :
        m.boot \in Named(r) /\ (m.boot = r.boot => Level(m) <= r.counter)
  BY DEF LevelInv
<1>5. CASE x.boot = r.boot /\ x.retired = r.retired
  <2>1. Named(x) = Named(r) /\ r.counter <= x.counter
    BY <1>5 DEF Named, Rises
  <2>2. ASSUME NEW m \in Raising(E \cup Kept(x))
        PROVE  m.boot \in Named(x) /\ (m.boot = x.boot => Level(m) <= x.counter)
    <3>1. CASE m \in Raising(D \cup Kept(r))
      BY <3>1, <2>1, <1>0, <1>1, <1>4, <1>5, Between
    <3>2. CASE m \in Raising(Kept(x)) /\ m \notin Kept(r)
      BY <3>2, <1>1, <1>3 DEF Named, Raising
    <3> QED BY <1>2, <3>1, <3>2
  <2>3. x.boot = d.boot => d.hw <= x.counter
    BY <2>1, <1>0, <1>5 DEF LevelInv
  <2> QED BY <2>1, <2>2, <2>3 DEF LevelInv
<1>6. ASSUME NEW p \in U, p.t = "proof", p.boot = x.boot, p.boot \notin r.retired,
             p.hw <= x.counter, Named(x) = Named(r) \cup {p.boot}
      PROVE  LevelInv(x, E, U, d)
  <2>0. p.hw \in Nat /\ x.boot # None
    BY <1>0, <1>6
  <2>1. x.boot # r.boot => x.boot \notin Named(r)
    BY <1>6 DEF Named
  <2>2. x.boot = r.boot => r.counter <= x.counter
    BY DEF Rises
  <2>3. ASSUME NEW m \in Raising(E \cup Kept(x))
        PROVE  m.boot \in Named(x) /\ (m.boot = x.boot => Level(m) <= x.counter)
    <3>1. CASE m \in Raising(D \cup Kept(r))
      <4>1. CASE x.boot = r.boot
        BY <4>1, <3>1, <2>2, <1>0, <1>1, <1>4, <1>6, Between
      <4>2. CASE x.boot # r.boot
        BY <4>2, <3>1, <2>1, <1>4, <1>6
      <4> QED BY <4>1, <4>2
    <3>2. CASE m \in Raising(Kept(x)) /\ m \notin Kept(r)
      BY <3>2, <1>3, <1>6
    <3> QED BY <1>2, <3>1, <3>2
  <2>4. x.boot = d.boot => d.hw <= x.counter
    <3>1. CASE x.boot = r.boot
      BY <3>1, <2>2, <1>0 DEF LevelInv
    <3>2. CASE x.boot # r.boot
      <4>1. x.boot = d.boot => d.hw <= p.hw
        BY <3>2, <2>1, <1>6 DEF LevelInv
      <4> QED BY <4>1, <2>0, <1>0, <1>6
    <3> QED BY <3>1, <3>2
  <2>5. d.boot \notin Named(x) => d.boot \notin Named(r)
    BY <1>6
  <2>6. \A b \in Named(x) : b <= d.boot
    BY <1>6 DEF LevelInv
  <2> QED BY <2>3, <2>4, <2>5, <2>6 DEF LevelInv
<1> QED BY <1>5, <1>6 DEF Rises

-----------------------------------------------------------------------------
\* A step that names no boot, and sends no commit or query it did not keep.
LEMMA Level0 ==
  ASSUME NEW r \in Row, NEW x, NEW U, x.boot = r.boot, x.retired = r.retired,
         x.counter = r.counter, Raising(Kept(x)) \subseteq Kept(r)
  PROVE  Rises(r, x, U)
BY IssuerAssumption DEF Rises, Row

LEMMA EmitRises ==
  ASSUME NEW r \in Row, NEW y \in Row, NEW U, Rises(r, y, U), NEW m \in Wire, NEW h \in BOOLEAN,
         m.t \in {"commit", "query"}
           => m \in Kept(r) \/ (m.boot = y.boot /\ Level(m) <= y.counter)
  PROVE  Rises(r, Emit(y, m, h), U)
<1> DEFINE x == Emit(y, m, h)
<1>1. /\ x \in Row /\ x = [y EXCEPT !.outbox = x.outbox]
      /\ \A e \in x.outbox : e \in y.outbox \/ e.m = m
  BY EmitSame
<1> HIDE DEF x
<1>2. /\ x.retired = y.retired /\ x.boot = y.boot /\ x.counter = y.counter
      /\ x.completed = y.completed
  BY <1>1 DEF Row
<1>3. Kept(x) \subseteq Kept(y) \cup {m}
  BY <1>1, <1>2 DEF Kept
<1>4. \A n \in Raising(Kept(x)) : n \in Kept(r) \/ (n.boot = x.boot /\ Level(n) <= x.counter)
  BY <1>2, <1>3 DEF Raising, Rises
<1>5. Named(x) = Named(y)
  BY <1>2 DEF Named
<1> QED BY <1>2, <1>4, <1>5 DEF Rises, x

LEMMA ConfigureRises ==
  ASSUME NEW r \in Row, NEW c \in Configs, NEW U
  PROVE  Rises(r, Configure(r, c), U)
<1> DEFINE x == Configure(r, c)
<1>1. /\ x.boot = r.boot /\ x.retired = r.retired /\ x.counter = r.counter
      /\ x.outbox \subseteq r.outbox /\ x.completed \in {None, r.completed}
  BY DEF Configure, Row
<1> HIDE DEF x
<1>2. Raising(Kept(x)) \subseteq Kept(r)
  BY <1>1 DEF Raising, Kept
<1> QED BY <1>1, <1>2, Level0 DEF x

LEMMA SelfRises ==
  ASSUME NEW r \in Row, NEW U
  PROVE  Rises(r, r, U)
BY Level0 DEF Raising

LEMMA OnHelloRises ==
  ASSUME NEW r \in Row, NEW U, NEW m \in Hello, r.config # None, r.gen # 0
  PROVE  Rises(r, OnHello(r, m), U)
<1> DEFINE offer == [t |-> "offer", boot |-> m.boot, eid |-> m.eid, gen |-> r.gen,
                     config |-> r.config,
                     floor |-> Larger(IF m.boot = r.boot THEN r.counter ELSE 0, m.hw)]
           y == [r EXCEPT !.pending = [hello |-> m, offer |-> offer],
                          !.hellos = @ \cup {m.eid}]
<1>1. r.pending # None => Rises(r, Emit(r, r.pending.offer, FALSE), U)
  <2> SUFFICES ASSUME r.pending # None PROVE Rises(r, Emit(r, r.pending.offer, FALSE), U)
    OBVIOUS
  <2>1. r.pending.offer \in Wire /\ r.pending.offer.t = "offer"
    BY DEF Row, Offer, Wire
  <2> QED BY <2>1, SelfRises, EmitRises
<1>2. r.completed # None => Rises(r, Emit(r, r.completed.commit, FALSE), U)
  <2> SUFFICES ASSUME r.completed # None PROVE Rises(r, Emit(r, r.completed.commit, FALSE), U)
    OBVIOUS
  <2>1. r.completed.commit \in Wire /\ r.completed.commit \in Kept(r)
    BY DEF Row, Wire, Kept
  <2> QED BY <2>1, SelfRises, EmitRises
<1>3. Rises(r, Emit(y, offer, FALSE), U)
  <2>1. offer \in Offer /\ offer.t = "offer"
    BY IssuerAssumption DEF Row, Hello, Offer, Larger
  <2> HIDE DEF offer
  <2>2. y \in Row
    BY ZenonT(60), <2>1 DEF Row, Hello
  <2>3. /\ y.boot = r.boot /\ y.retired = r.retired /\ y.counter = r.counter
        /\ y.outbox = r.outbox /\ y.completed = r.completed
    BY DEF Row
  <2> HIDE DEF y
  <2>4. Raising(Kept(y)) \subseteq Kept(r)
    BY <2>3 DEF Raising, Kept
  <2>5. Rises(r, y, U)
    BY <2>3, <2>4, Level0
  <2>6. offer \in Wire
    BY <2>1 DEF Wire
  <2> QED BY <2>1, <2>2, <2>5, <2>6, EmitRises
<1> HIDE DEF offer, y
<1>4. OnHello(r, m) \in {r, Emit(r, r.pending.offer, FALSE),
                         Emit(r, r.completed.commit, FALSE), Emit(y, offer, FALSE)}
  BY DEF OnHello, offer, y
<1>5. \/ OnHello(r, m) = r \/ OnHello(r, m) = Emit(y, offer, FALSE)
      \/ r.pending # None /\ OnHello(r, m) = Emit(r, r.pending.offer, FALSE)
      \/ r.completed # None /\ OnHello(r, m) = Emit(r, r.completed.commit, FALSE)
  BY DEF OnHello, offer, y
<1> QED BY <1>1, <1>2, <1>3, <1>5, SelfRises

LEMMA InstallRises ==
  ASSUME NEW r, NEW M, NEW U, Before(r, M, U), NEW m \in Proof, m \in U, r.config # None,
         r.pending # None, m.boot \notin r.retired, Matches(m, r.pending.offer)
  PROVE  Rises(r, Install(r, m), U)
<1> DEFINE floor == Floor(r, m)
           commit == [t |-> "commit", boot |-> m.boot, eid |-> m.eid, gen |-> m.gen,
                      config |-> m.config, floor |-> floor]
           retired == IF r.boot \in {None, m.boot} THEN r.retired ELSE r.retired \cup {r.boot}
           y == [r EXCEPT
                   !.retired = retired, !.boot = m.boot, !.counter = floor, !.enrolled = TRUE,
                   !.active = None, !.ready = None, !.outbox = {}, !.pending = None,
                   !.completed = [hello |-> r.pending.hello, proof |-> m, commit |-> commit]]
<1>0. r \in Row
  BY DEF Before
<1>1. Install(r, m) = Emit(y, commit, FALSE)
  BY <1>0 DEF Install, Row
<1>2. m.boot \in Boots /\ m.t = "proof" /\ m.boot # None
  BY IssuerAssumption DEF Proof
<1>3. /\ floor \in 0..MaxSeq /\ (m.boot = r.boot => r.counter <= floor) /\ m.hw <= floor
  <2>1. m.hw <= floor
    BY <1>0, IssuerAssumption DEF Floor, Larger, Row, Proof
  <2> QED BY <1>0, <2>1, FloorBounds
<1> HIDE DEF floor
<1>4. commit \in Commit /\ commit.t = "commit" /\ commit.boot = m.boot /\ commit.floor = floor
  BY <1>3 DEF Commit, Proof
<1> HIDE DEF commit
<1>5. retired \subseteq Boots
  BY <1>0, <1>2 DEF Row
<1>13. retired \cup {m.boot} = ((r.retired \cup {r.boot}) \ {None}) \cup {m.boot}
  <2>1. None \notin r.retired
    BY <1>0, IssuerAssumption DEF Row
  <2> QED BY <2>1, <1>2
<1> HIDE DEF retired
<1>6. y \in Row
  <2>1. commit \in Commit /\ floor \in 0..MaxSeq /\ r.pending.hello \in Hello
    BY <1>0, <1>3, <1>4 DEF Row
  <2>2. [hello |-> r.pending.hello, proof |-> m, commit |-> commit]
          \in [hello: Hello, proof: Proof, commit: Commit]
    BY <2>1
  <2> QED BY ZenonT(60), <1>0, <1>2, <1>5, <2>1, <2>2 DEF Row
<1>7. /\ y.retired = retired /\ y.boot = m.boot /\ y.counter = floor /\ y.outbox = {}
      /\ y.completed # None => y.completed.commit = commit
  BY <1>0 DEF Row
<1> HIDE DEF y
<1>8. Level(commit) = floor /\ floor <= floor
  BY <1>3, <1>4, IssuerAssumption DEF Level
<1>9. Kept(y) \subseteq {commit}
  BY <1>7 DEF Kept
<1>10. Named(y) = Named(r) \cup {m.boot}
  BY <1>2, <1>5, <1>7, <1>13, IssuerAssumption DEF Named
<1>11. Rises(r, y, U)
  <2>1. \A n \in Raising(Kept(y)) : n.boot = y.boot /\ Level(n) <= y.counter
    BY <1>4, <1>7, <1>8, <1>9 DEF Raising
  <2>2. y.boot = r.boot => r.counter <= y.counter
    BY <1>3, <1>7
  <2>3. m.t = "proof" /\ m.boot = y.boot /\ m.hw <= y.counter
    BY <1>2, <1>3, <1>7
  <2> QED BY <2>1, <2>2, <2>3, <1>10 DEF Rises
<1>12. commit \in Wire
  BY <1>4 DEF Wire
<1> QED BY <1>0, <1>1, <1>4, <1>6, <1>7, <1>8, <1>11, <1>12, EmitRises

LEMMA OnProofRises ==
  ASSUME NEW r, NEW M, NEW U, Before(r, M, U), NEW m \in Proof, m \in U, r.config # None
  PROVE  Rises(r, OnProof(r, m), U)
<1>0. r \in Row
  BY DEF Before
<1>1. r.completed # None => Rises(r, Emit(r, r.completed.commit, FALSE), U)
  <2> SUFFICES ASSUME r.completed # None PROVE Rises(r, Emit(r, r.completed.commit, FALSE), U)
    OBVIOUS
  <2>1. r.completed.commit \in Wire /\ r.completed.commit \in Kept(r)
    BY <1>0 DEF Row, Wire, Kept
  <2> QED BY <1>0, <2>1, SelfRises, EmitRises
<1>2. \/ OnProof(r, m) = r
      \/ r.completed # None /\ OnProof(r, m) = Emit(r, r.completed.commit, FALSE)
      \/ /\ r.pending # None /\ m.boot \notin r.retired /\ Matches(m, r.pending.offer)
         /\ OnProof(r, m) = Install(r, m)
  BY DEF OnProof
<1> QED BY <1>0, <1>1, <1>2, SelfRises, InstallRises

LEMMA ReadinessRises ==
  ASSUME NEW r, NEW M, NEW U, Before(r, M, U), r.config # None
  PROVE  Rises(r, Readiness(r), U)
<1> DEFINE q == [t |-> "query", boot |-> r.boot, gen |-> r.gen, config |-> r.config,
                 seq |-> r.counter + 1]
           y == [r EXCEPT !.counter = @ + 1,
                          !.ready = [q |-> q, accepted |-> FALSE, consumed |-> FALSE]]
           refused == ~r.enrolled \/ r.active # None \/ r.ready # None \/ r.pending # None
                        \/ r.counter = MaxSeq
<1>0. r \in Row /\ RowInv(r, M, U)
  BY DEF Before
<1>1. CASE refused
  BY <1>0, <1>1, SelfRises DEF Readiness
<1>2. CASE ~refused
  <2>1. Readiness(r) = Emit(y, q, FALSE)
    BY <1>2 DEF Readiness
  <2>2. /\ q \in Query /\ q.t = "query" /\ q.seq = r.counter + 1 /\ q.boot = r.boot
    BY <1>0, <1>2, IssuerAssumption DEF Row, RowInv, Current, Query
  <2> HIDE DEF q
  <2>3. r.counter + 1 \in 0..MaxSeq /\ r.counter \in Nat
    BY <1>0, <1>2, IssuerAssumption DEF Row
  <2>4. y \in Row
    BY ZenonT(90), <1>0, <2>2, <2>3 DEF Row
  <2>5. /\ y.retired = r.retired /\ y.boot = r.boot /\ y.counter = r.counter + 1
        /\ y.outbox = r.outbox /\ y.completed = r.completed
    BY <1>0 DEF Row
  <2> HIDE DEF y
  <2>6. Kept(y) = Kept(r)
    BY <2>5 DEF Kept
  <2>7. Rises(r, y, U)
    BY <2>3, <2>5, <2>6 DEF Rises, Raising
  <2>8. q \in Wire /\ Level(q) = r.counter + 1
    BY <2>2 DEF Wire, Level
  <2>9. q.boot = y.boot /\ Level(q) <= y.counter
    BY <2>2, <2>3, <2>5, <2>8
  <2> QED BY <1>0, <2>1, <2>4, <2>7, <2>8, <2>9, EmitRises
<1> QED BY <1>1, <1>2

\* The other jobs change neither boots nor counter; a command is not raising.
Plain(r, y) == /\ y \in Row /\ y.boot = r.boot /\ y.retired = r.retired /\ y.counter = r.counter
               /\ y.completed = r.completed
               /\ \A e \in y.outbox : \E f \in r.outbox : e.m = f.m

LEMMA PlainRises ==
  ASSUME NEW r \in Row, NEW y, NEW U, Plain(r, y)
  PROVE  /\ Rises(r, y, U)
         /\ \A m \in Command, h \in BOOLEAN : Rises(r, Emit(y, m, h), U)
<1>1. Kept(y) \subseteq Kept(r)
  BY DEF Plain, Kept
<1>2. Rises(r, y, U)
  BY <1>1, Level0 DEF Plain, Raising
<1>3. \A m \in Command : m \in Wire /\ m.t \notin {"commit", "query"}
  BY DEF Command, Wire
<1> QED BY <1>2, <1>3, EmitRises DEF Plain

LEMMA EndedPlain == ASSUME NEW r \in Row PROVE Plain(r, Ended(r))
BY ZenonT(90) DEF Plain, Ended, Row

LEMMA OnResultRises ==
  ASSUME NEW r \in Row, NEW m \in Result, NEW U
  PROVE  Rises(r, OnResult(r, m), U)
<1>1. CASE r.enrolled /\ r.ready # None /\ ~r.ready.consumed /\ Same(r.ready.q, m)
  <2> DEFINE x == [r EXCEPT !.ready = [@ EXCEPT !.accepted = TRUE]]
  <2>1. OnResult(r, m) = x
    BY <1>1 DEF OnResult, Row
  <2>2. x.ready \in [q: Query, accepted: BOOLEAN, consumed: BOOLEAN]
    BY <1>1 DEF Row
  <2>3. Plain(r, x)
    BY ZenonT(90), <2>2 DEF Row, Plain
  <2> QED BY <2>1, <2>3, PlainRises
<1>2. CASE ~(r.enrolled /\ r.ready # None /\ ~r.ready.consumed /\ Same(r.ready.q, m))
  <2>1. OnResult(r, m) = r
    BY <1>2 DEF OnResult
  <2> QED BY <2>1, SelfRises
<1> QED BY <1>1, <1>2

LEMMA StartRises ==
  ASSUME NEW r, NEW M, NEW U, Before(r, M, U), r.config # None,
         NEW k \in Query, NEW s \in Streams
  PROVE  Rises(r, Start(r, k, s), U)
<1> DEFINE c == [t |-> "start", boot |-> r.boot, gen |-> r.gen, config |-> r.config,
                 seq |-> k.seq, stream |-> s, n |-> 1]
           y == [r EXCEPT !.ready.consumed = TRUE, !.active = c]
<1>0. r \in Row /\ RowInv(r, M, U)
  BY DEF Before
<1>1. CASE ~Startable(r, k) \/ s \in lost
  BY <1>0, <1>1, SelfRises DEF Start
<1>2. CASE ~(~Startable(r, k) \/ s \in lost)
  <2>1. Start(r, k, s) = Emit(y, c, TRUE)
    BY <1>0, <1>2 DEF Start, Row
  <2>2. r.ready # None /\ r.enrolled
    BY <1>0, <1>2 DEF Startable
  <2>3. c \in Active /\ c \in Command
    BY <1>0, <2>2, IssuerAssumption DEF Row, RowInv, Current, Query, Active, Command
  <2> HIDE DEF c
  <2>4. [r.ready EXCEPT !.consumed = TRUE] \in [q: Query, accepted: BOOLEAN, consumed: BOOLEAN]
    BY <1>0, <2>2 DEF Row
  <2>5. Plain(r, y)
    BY ZenonT(90), <1>0, <2>3, <2>4 DEF Row, Plain
  <2> QED BY <1>0, <2>1, <2>3, <2>5, PlainRises
<1> QED BY <1>1, <1>2

LEMMA RenewRises ==
  ASSUME NEW r \in Row, NEW U, NEW s \in Streams
  PROVE  Rises(r, Renew(r, s), U)
<1> DEFINE refused == ~r.enrolled \/ ~OfActive(r, s) \/ s \in lost \/ r.active.n = MaxRenew
           next == [r.active EXCEPT !.n = @ + 1]
           c == [r.active EXCEPT !.t = "renew", !.n = @ + 1]
           y == [r EXCEPT !.active = next]
<1>1. CASE refused
  BY <1>1, SelfRises DEF Renew
<1>2. CASE ~refused
  <2>1. Renew(r, s) = Emit(y, c, TRUE)
    BY <1>2 DEF Renew, Row
  <2>2. r.active \in Active /\ r.active # None
    BY <1>2 DEF Row, OfActive
  <2>3. next \in Active /\ c \in Command
    <3>1. next \in Active
      BY <1>2, <2>2, NextActive
    <3>2. c \in Command /\ c.t = "renew" /\ Attempt(c) = Attempt(r.active)
      BY ZenonT(60), <2>2, NextCommand
    <3> HIDE DEF next, c
    <3> QED BY <3>1, <3>2
  <2> HIDE DEF next, c
  <2>4. Plain(r, y)
    BY SMTT(60), <2>3 DEF Row, Plain
  <2> QED BY <2>1, <2>3, <2>4, PlainRises
<1> QED BY <1>1, <1>2

LEMMA StopRises ==
  ASSUME NEW r \in Row, NEW U, NEW s \in Streams
  PROVE  Rises(r, Stop(r, s), U)
<1> DEFINE c == [r.active EXCEPT !.t = "stop", !.n = @ + 1]
<1>1. CASE ~r.enrolled \/ ~OfActive(r, s)
  BY <1>1, SelfRises DEF Stop
<1>2. CASE ~(~r.enrolled \/ ~OfActive(r, s))
  <2>1. Stop(r, s) = Emit(Ended(r), c, TRUE)
    BY <1>2 DEF Stop, Ended
  <2>2. r.active \in Active
    BY <1>2 DEF Row, OfActive
  <2>3. c \in Command /\ c.t = "stop" /\ Attempt(c) = Attempt(r.active)
    BY ZenonT(60), <2>2, NextCommand
  <2> HIDE DEF c
  <2> QED BY <2>1, <2>3, EndedPlain, PlainRises
<1> QED BY <1>1, <1>2

LEMMA ReleaseRises ==
  ASSUME NEW r \in Row, NEW U, NEW c
  PROVE  Rises(r, Release(r, c), U)
<1> DEFINE box == {IF e.m = c THEN [e EXCEPT !.held = FALSE] ELSE e : e \in r.outbox}
           y == [r EXCEPT !.outbox = box]
<1>1. Release(r, c) = y
  BY DEF Release, Row
<1>2. \A e \in box : e \in [m: Wire, held: BOOLEAN] /\ \E f \in r.outbox : e.m = f.m
  BY DEF Row
<1> HIDE DEF box
<1>3. Plain(r, y)
  BY SMTT(60), <1>2 DEF Row, Plain
<1> QED BY <1>1, <1>3, PlainRises

LEMMA ApplyRises ==
  ASSUME NEW r, NEW M, NEW U, Before(r, M, U), NEW j \in Job, j.k = "incoming" => j.v \in U
  PROVE  Rises(r, Apply(r, j), U)
<1>0. r \in Row /\ r.gen # 0
  BY DEF Before
<1>1. CASE j.k = "configure"
  <2>1. j.v \in Configs
    BY <1>1 DEF Job
  <2> QED BY <1>0, <1>1, <2>1, ConfigureRises DEF Apply
<1>2. CASE j.k # "configure" /\ r.config = None
  BY <1>0, <1>2, SelfRises DEF Apply
<1>3. CASE j.k = "incoming" /\ r.config # None
  <2>1. j.v \in Hello \cup Proof \cup Result /\ j.v \in U
    BY <1>3 DEF Job
  <2>2. j.v \in Hello => j.v.t = "hello"
    BY DEF Hello
  <2>3. j.v \in Proof => j.v.t = "proof"
    BY DEF Proof
  <2>4. j.v \in Result => j.v.t = "result"
    BY DEF Result
  <2>5. Apply(r, j) = Incoming(r, j.v)
    BY <1>3 DEF Apply
  <2>6. CASE j.v \in Hello
    BY <1>0, <1>3, <2>2, <2>5, <2>6, OnHelloRises DEF Incoming
  <2>7. CASE j.v \in Proof
    BY <1>3, <2>1, <2>3, <2>5, <2>7, OnProofRises DEF Incoming
  <2>8. CASE j.v \in Result
    BY <1>0, <1>3, <2>4, <2>5, <2>8, OnResultRises DEF Incoming
  <2> QED BY <2>1, <2>6, <2>7, <2>8
<1>4. CASE j.k = "readiness" /\ r.config # None
  BY <1>4, ReadinessRises DEF Apply
<1>5. CASE j.k = "start" /\ r.config # None
  <2>1. j.v[1] \in Query /\ j.v[2] \in Streams
    BY <1>5 DEF Job
  <2> QED BY <1>5, <2>1, StartRises DEF Apply
<1>6. CASE j.k \in {"renew", "stop", "retire"} /\ r.config # None
  <2>1. j.v \in Streams
    BY <1>6 DEF Job
  <2>2. Rises(r, Retire(r, j.v), U)
    BY <1>0, EndedPlain, PlainRises, SelfRises DEF Retire
  <2> QED BY <1>0, <1>6, <2>1, <2>2, RenewRises, StopRises DEF Apply
<1>7. CASE j.k = "release" /\ r.config # None
  BY <1>0, <1>7, ReleaseRises DEF Apply
<1>8. CASE j.k = "nack" /\ r.config # None
  <2>1. Rises(r, Nack(r, j.v), U)
    BY <1>0, EndedPlain, PlainRises, SelfRises DEF Nack
  <2> QED BY <1>8, <2>1 DEF Apply
<1> QED BY <1>1, <1>2, <1>3, <1>4, <1>5, <1>6, <1>7, <1>8 DEF Job

-----------------------------------------------------------------------------
(* The steps of the system. *)

\* Steps that handle no job leave the boots and the counter, and add nothing to
\* what is to be sent.
Lighter(r, x) ==
  /\ x.boot = r.boot /\ x.retired = r.retired /\ x.counter = r.counter
  /\ x.outbox \subseteq r.outbox /\ x.completed \in {None, r.completed}

LEMMA RowStep ==
  ASSUME FullInv, IndInv', Rises(row, row', up), down' \subseteq down \cup Kept(row),
         up' = up, dev' = dev
  PROVE  LevelInv(row, down, up, dev)'
<1>1. /\ row \in Row /\ row' \in Row /\ down \subseteq Wire /\ LevelInv(row, down, up, dev)
      /\ up \subseteq Hello \cup Proof \cup Result \cup [t: {"nack"}, c: Command]
      /\ dev.hw \in 0..MaxSeq
  BY DEF FullInv, IndInv, TypeOK
<1>2. dev.hw \in Nat
  BY <1>1, IssuerAssumption
<1>3. ASSUME NEW p \in up, p.t = "proof" PROVE p.hw \in Nat /\ p.boot \in Boots
  <2>1. p \in Proof
    BY <1>1, <1>3 DEF Hello, Result
  <2> QED BY <2>1, IssuerAssumption DEF Proof
<1>4. LevelInv(row', down', up, dev)
  BY <1>1, <1>2, <1>3, LevelKept
<1> QED BY <1>4

LEMMA LighterStep ==
  ASSUME FullInv, IndInv', Lighter(row, row'), down' \subseteq down \cup Kept(row),
         up' = up, dev' = dev
  PROVE  LevelInv(row, down, up, dev)'
<1>1. Kept(row') \subseteq Kept(row)
  BY DEF Lighter, Kept
<1>2. row \in Row
  BY DEF FullInv, IndInv, TypeOK
<1>3. Rises(row, row', up)
  BY <1>1, <1>2, Level0 DEF Lighter, Raising
<1> QED BY <1>3, RowStep

LEMMA PumpLevel ==
  ASSUME FullInv, IndInv', NEW o \in Issuers, Pump(o)
  PROVE  LevelInv(row, down, up, dev)'
<1>0. IndInv /\ row \in Row /\ UNCHANGED <<down, up, dev>> /\ HasClock(o)
  BY DEF FullInv, IndInv, TypeOK, Pump
<1>1. CASE row' = [row EXCEPT !.fenced = TRUE]
  <2>1. Lighter(row, row')
    BY <1>0, <1>1 DEF Lighter, Row
  <2> QED BY <1>0, <2>1, LighterStep
<1>2. CASE /\ row.jobs # <<>>
           /\ row' = [Apply(row, Head(row.jobs)) EXCEPT !.jobs = Tail(@), !.fenced = TRUE]
  <2> DEFINE x == Apply(row, Head(row.jobs))
  <2>1. Before(row, made, up) /\ Heard(row, up)
    BY <1>0, ClockGeneration DEF IndInv
  <2>2. /\ Head(row.jobs) \in Job
        /\ Head(row.jobs).k = "incoming" => Head(row.jobs).v \in up
    <3>1. row.jobs \in Seq(Job)
      BY <1>0 DEF Row
    <3>2. Head(row.jobs) = row.jobs[1] /\ 1 \in DOMAIN row.jobs /\ row.jobs[1] \in Job
      BY <1>2, <3>1
    <3> QED BY <2>1, <3>2 DEF Heard
  <2>3. Rises(row, x, up)
    BY <2>1, <2>2, ApplyRises
  <2>4. After(row, x, made, up)
    BY <2>1, <2>2, ApplyKeepsInv
  <2>5. x \in Row
    BY <2>4 DEF After
  <2> HIDE DEF x
  <2>6. row' = [x EXCEPT !.jobs = Tail(@), !.fenced = TRUE]
    BY <1>2 DEF x
  <2>7. /\ row'.boot = x.boot /\ row'.retired = x.retired /\ row'.counter = x.counter
        /\ row'.outbox = x.outbox /\ row'.completed = x.completed
    BY <2>5, <2>6 DEF Row
  <2>8. Kept(row') = Kept(x) /\ Named(row') = Named(x)
    BY <2>7 DEF Kept, Named
  <2>9. Rises(row, row', up)
    BY <2>3, <2>7, <2>8 DEF Rises
  <2> QED BY <1>0, <2>9, RowStep
<1> QED BY <1>1, <1>2 DEF Pump

LEMMA OwnerLevel ==
  ASSUME FullInv, IndInv', NEW o \in Issuers, Issuer(o)
  PROVE  LevelInv(row, down, up, dev)'
<1>0. row \in Row
  BY DEF FullInv, IndInv, TypeOK
<1>1. CASE Takeover(o)
  <2>1. Lighter(row, row')
    BY <1>0, <1>1 DEF Takeover, TakenOver, Fenced, Lighter, Row
  <2> QED BY <1>1, <2>1, LighterStep DEF Takeover
<1>2. CASE FailedTakeover(o)
  <2>1. Lighter(row, row')
    BY <1>2 DEF FailedTakeover, Lighter
  <2> QED BY <1>2, <2>1, LighterStep DEF FailedTakeover
<1>3. CASE Pump(o)
  BY <1>3, PumpLevel
<1>4. CASE JobExpires(o)
  <2>1. Lighter(row, row')
    BY <1>0, <1>4 DEF JobExpires, Lighter, Row
  <2> QED BY <1>4, <2>1, LighterStep DEF JobExpires
<1>5. CASE Expire(o)
  <2>1. PICK x \in Dropped(row) : row' = [x EXCEPT !.fenced = TRUE]
    BY <1>5 DEF Expire
  <2>2. Lighter(row, row')
    BY ZenonT(90), <1>0, <2>1 DEF Dropped, Without, Lighter, Row
  <2> QED BY <1>5, <2>2, LighterStep DEF Expire
<1>6. ASSUME NEW e \in row.outbox, Flush(o, e) PROVE LevelInv(row, down, up, dev)'
  <2>1. Lighter(row, row')
    BY <1>0, <1>6 DEF Flush, Lighter, Row
  <2>2. down' \subseteq down \cup Kept(row)
    BY <1>6 DEF Flush, Kept
  <2> QED BY <1>6, <2>1, <2>2, LighterStep DEF Flush
<1>7. CASE Crash(o)
  <2>1. Lighter(row, row')
    BY <1>0, <1>7 DEF Crash, Lighter, Row
  <2> QED BY <1>7, <2>1, LighterStep DEF Crash
<1>8. CASE ClockRegresses(o)
  <2>1. Lighter(row, row')
    BY <1>0, <1>8 DEF ClockRegresses, Fenced, Lighter, Row
  <2> QED BY <1>8, <2>1, LighterStep DEF ClockRegresses
<1> QED BY <1>1, <1>2, <1>3, <1>4, <1>5, <1>6, <1>7, <1>8 DEF Issuer

\* Only these steps change what the terminal has admitted or said.
LEMMA TerminalLevel ==
  ASSUME FullInv, IndInv', Terminal
  PROVE  LevelInv(row, down, up, dev)'
<1>0. /\ row \in Row /\ down \subseteq Wire /\ LevelInv(row, down, up, dev)
      /\ dev \in [boot: Boots, hw: 0..MaxSeq, eid: Eids \cup {None}, proof: Offer \cup {None},
                  gen: 0..MaxGen, config: Configs \cup {None}, ready: (0..MaxSeq) \cup {None}]
      /\ up \subseteq Hello \cup Proof \cup Result \cup [t: {"nack"}, c: Command]
  BY DEF FullInv, IndInv, TypeOK
<1>1. dev.boot \in Nat /\ dev.hw \in Nat /\ dev.boot # None /\ row.counter \in Nat
  <2>1. dev.boot \in Boots /\ dev.hw \in 0..MaxSeq /\ row.counter \in 0..MaxSeq
    BY <1>0 DEF Row
  <2>2. \A b \in Boots : b \in Nat /\ b # None
    BY IssuerAssumption
  <2>3. \A n \in 0..MaxSeq : n \in Nat
    BY IssuerAssumption
  <2> QED BY <2>1, <2>2, <2>3
<1>2. CASE DevHello
  <2>1. /\ row' = row /\ down' = down /\ dev'.boot = dev.boot /\ dev'.hw = dev.hw
        /\ \A m \in up' : m.t = "proof" => m \in up
    BY <1>0, <1>2 DEF DevHello, Says
  <2> QED BY <1>0, <2>1 DEF LevelInv
<1>3. CASE DevReboot
  <2>1. /\ row' = row /\ down' = down /\ up' = up /\ dev'.boot = dev.boot + 1 /\ dev'.hw = 0
    BY <1>3 DEF DevReboot
  <2>2. \A b \in Named(row) : b \in Nat /\ b <= dev.boot
    BY <1>0, IssuerAssumption DEF LevelInv, Named, Row
  <2>3. dev'.boot \notin Named(row) /\ \A b \in Named(row) : b <= dev'.boot
    BY <1>1, <2>1, <2>2
  <2>4. row.boot # dev'.boot
    BY <1>1, <2>1, <2>3, IssuerAssumption, <1>3 DEF Named, DevReboot
  <2>5. ASSUME NEW m \in up, m.t = "proof" PROVE m.boot <= dev'.boot /\ m.boot # dev'.boot
    <3>1. m \in Proof
      BY <1>0, <2>5 DEF Hello, Result
    <3>2. m.boot \in Nat /\ m.boot <= dev.boot
      BY <1>0, <2>5, <3>1, IssuerAssumption DEF Proof, LevelInv
    <3> QED BY <1>1, <2>1, <3>2
  <2> QED BY <1>0, <2>1, <2>3, <2>4, <2>5 DEF LevelInv
<1>4. ASSUME NEW m \in down, DevOffer(m) PROVE LevelInv(row, down, up, dev)'
  <2> DEFINE p == [t |-> "proof", boot |-> m.boot, eid |-> m.eid, gen |-> m.gen,
                   config |-> m.config, floor |-> m.floor, hw |-> dev.hw]
  <2>1. /\ row' = row /\ down' = down /\ dev'.boot = dev.boot /\ dev'.hw = dev.hw
        /\ up' = up \cup {p} /\ p.boot = dev.boot /\ p.hw = dev.hw
    BY <1>0, <1>4 DEF DevOffer, Says
  <2> HIDE DEF p
  <2>2. dev.boot <= dev.boot /\ dev.hw <= dev.hw
    BY <1>1
  <2> QED BY <1>0, <2>1, <2>2 DEF LevelInv
<1>5. ASSUME NEW m \in down, m.t \in {"commit", "query"}, m.boot = dev.boot,
             row' = row, down' = down, dev'.boot = dev.boot, dev'.hw = Level(m),
             \A n \in up' : n.t = "proof" => n \in up
      PROVE  LevelInv(row, down, up, dev)'
  <2>1. m \in Raising(down \cup Kept(row))
    BY <1>5 DEF Raising
  <2>2. dev.boot \in Named(row) /\ (row.boot = dev.boot => Level(m) <= row.counter)
    BY <1>0, <1>5, <2>1 DEF LevelInv
  <2> QED BY <1>0, <1>5, <2>2 DEF LevelInv
<1>6. ASSUME NEW m \in down, DevCommit(m) PROVE LevelInv(row, down, up, dev)'
  BY <1>0, <1>5, <1>6 DEF DevCommit, Level
<1>7. ASSUME NEW m \in down, DevQuery(m) PROVE LevelInv(row, down, up, dev)'
  BY SMTT(90), <1>0, <1>5, <1>7 DEF DevQuery, Level, Says, Trusted
<1>8. ASSUME NEW m \in down, DevStart(m) PROVE LevelInv(row, down, up, dev)'
  <2>1. /\ row' = row /\ down' = down /\ dev'.boot = dev.boot /\ dev'.hw = dev.hw
        /\ \A n \in up' : n.t = "proof" => n \in up
    BY <1>0, <1>8 DEF DevStart, Says
  <2> QED BY <1>0, <2>1 DEF LevelInv
<1> QED BY <1>2, <1>3, <1>4, <1>6, <1>7, <1>8 DEF Terminal

LEMMA NextLevel ==
  ASSUME FullInv, [Next]_vars
  PROVE  FullInv'
<1>0. IndInv' /\ IndInv /\ row \in Row
  BY NextKeeps DEF FullInv, IndInv, TypeOK
<1>1. CASE UNCHANGED vars
  <2>1. Lighter(row, row')
    BY <1>1 DEF vars, Lighter
  <2> QED BY <1>0, <1>1, <2>1, LighterStep DEF vars, FullInv
<1>2. CASE \E o \in Issuers : Issuer(o)
  BY <1>0, <1>2, OwnerLevel DEF FullInv
<1>3. CASE Lapse \/ Stall
  <2>1. Lighter(row, row')
    BY <1>0, <1>3 DEF Lapse, Stall, Lighter, Row
  <2> QED BY <1>0, <1>3, <2>1, LighterStep DEF Lapse, Stall, FullInv
<1>4. CASE Submit \/ Forward
  <2>1. \E j : row' = [row EXCEPT !.jobs = Append(@, j)]
    BY <1>4 DEF Submit, Forward, Arrives, Enqueue
  <2>2. Lighter(row, row')
    BY <1>0, <2>1 DEF Lighter, Row
  <2> QED BY <1>0, <1>4, <2>2, LighterStep DEF Submit, Forward, FullInv
<1>5. CASE \E s \in Streams : LoseLease(s)
  <2>1. Lighter(row, row')
    BY <1>5 DEF LoseLease, Lighter
  <2> QED BY <1>0, <1>5, <2>1, LighterStep DEF LoseLease, FullInv
<1>6. CASE Terminal
  BY <1>0, <1>6, TerminalLevel DEF FullInv
<1> QED BY <1>1, <1>2, <1>3, <1>4, <1>5, <1>6 DEF Next

LEMMA LevelInductive == Spec => []FullInv
<1>1. Init => FullInv
  <2> SUFFICES ASSUME Init PROVE FullInv
    OBVIOUS
  <2>1. /\ row.outbox = {} /\ row.completed = None /\ row.retired = {} /\ row.boot = None
        /\ down = {} /\ up = {} /\ dev.boot \in Boots
    BY DEF Init
  <2>2. Raising(down \cup Kept(row)) = {} /\ Named(row) = {} /\ row.boot # dev.boot
    BY <2>1, IssuerAssumption DEF Raising, Kept, Named
  <2> QED BY <2>1, <2>2, InitInv DEF FullInv, LevelInv
<1>2. FullInv /\ [Next]_vars => FullInv'
  BY NextLevel
<1> QED BY <1>1, <1>2, PTL DEF Spec

-----------------------------------------------------------------------------
(* The stop.  An attempt is told from the others by its number, and the    *)
(* number of a stopped attempt was used up by its start: no later attempt  *)
(* of the row has it.                                                      *)

Started(M, c) == \E a \in M : a.t = "start" /\ Attempt(a) = Attempt(c)

StopInv(r, D, M) ==
  /\ \A c \in D \cup {e.m : e \in r.outbox} :
       c.t = "stop" => Started(M, c) /\ (r.active # None => Attempt(r.active) # Attempt(c))
  /\ r.active # None => Started(M, r.active)

StoppedInv == IndInv /\ StopInv(row, down, made)

\* What a step of the row does to the attempt.
Ends(r, x) ==
  /\ \A e \in x.outbox : e.m.t = "stop" =>
       \/ \E f \in r.outbox : f.m = e.m
       \/ r.active # None /\ Attempt(e.m) = Attempt(r.active) /\ x.active = None
  /\ x.active # None =>
       \/ r.active # None /\ Attempt(x.active) = Attempt(r.active)
       \/ /\ r.ready # None /\ ~r.ready.consumed /\ Attempt(x.active) = Attempt(r.ready.q)
          /\ Started(Stamped(x.outbox), x.active)

LEMMA StopKept ==
  ASSUME NEW r \in Row, NEW x, NEW D, NEW E, NEW M, M \subseteq Query \cup Command, NEW U,
         RowInv(r, M, U), StopInv(r, D, M), Ends(r, x),
         E \subseteq D \cup {e.m : e \in r.outbox},
         NEW N, M \subseteq N, Stamped(x.outbox) \subseteq N
  PROVE  StopInv(x, E, N)
<1>1. ASSUME x.active # None PROVE Started(N, x.active)
  BY <1>1 DEF Ends, StopInv, Started
<1>2. ASSUME NEW c, c.t = "stop", c \in E \cup {e.m : e \in x.outbox}
      PROVE  Started(N, c) /\ (x.active # None => Attempt(x.active) # Attempt(c))
  <2>1. CASE c \in D \cup {e.m : e \in r.outbox}
    <3>1. Started(M, c) /\ (r.active # None => Attempt(r.active) # Attempt(c))
      BY <1>2, <2>1 DEF StopInv
    <3>2. Started(N, c)
      BY <3>1 DEF Started
    <3>3. ASSUME x.active # None, Attempt(x.active) = Attempt(c) PROVE FALSE
      <4>1. r.ready # None /\ ~r.ready.consumed /\ Attempt(c) = Attempt(r.ready.q)
        BY <3>1, <3>3 DEF Ends
      <4>2. PICK a \in M : a.t = "start" /\ Attempt(a) = Attempt(r.ready.q)
        BY <3>1, <4>1 DEF Started
      <4>3. a.boot = r.boot /\ a.seq = r.counter
        BY <4>1, <4>2 DEF Attempt, RowInv, Current
      <4>4. a.seq < r.counter
        BY <4>1, <4>2, <4>3 DEF RowInv, Admitted
      <4>5. r.counter \in Nat
        BY IssuerAssumption DEF Row
      <4> QED BY <4>3, <4>4, <4>5
    <3> QED BY <3>1, <3>2, <3>3
  <2>2. CASE c \notin D \cup {e.m : e \in r.outbox}
    <3>1. PICK e \in x.outbox : e.m = c
      BY <1>2, <2>2
    <3>2. r.active # None /\ Attempt(c) = Attempt(r.active) /\ x.active = None
      BY <1>2, <2>2, <3>1 DEF Ends
    <3> QED BY <3>2 DEF StopInv, Started
  <2> QED BY <2>1, <2>2
<1> QED BY <1>1, <1>2 DEF StopInv

\* Nothing but what was there, and no other attempt.
Calm(r, y) ==
  /\ y \in Row /\ (\A e \in y.outbox : \E f \in r.outbox : f.m = e.m)
  /\ y.active # None => r.active # None /\ Attempt(y.active) = Attempt(r.active)

LEMMA CalmEnds ==
  ASSUME NEW r \in Row, NEW y, Calm(r, y)
  PROVE  /\ Ends(r, y)
         /\ \A m \in Wire, h \in BOOLEAN : m.t # "stop" => Ends(r, Emit(y, m, h))
<1>1. Ends(r, y)
  BY DEF Calm, Ends
<1>2. ASSUME NEW m \in Wire, NEW h \in BOOLEAN, m.t # "stop" PROVE Ends(r, Emit(y, m, h))
  <2> DEFINE x == Emit(y, m, h)
  <2>0. y \in Row
    BY DEF Calm
  <2>1. /\ x \in Row /\ x = [y EXCEPT !.outbox = x.outbox]
        /\ \A e \in x.outbox : e \in y.outbox \/ e.m = m
    BY <2>0, EmitSame
  <2> HIDE DEF x
  <2>2. x.active = y.active
    BY <2>0, <2>1 DEF Row
  <2> QED BY <1>2, <2>1, <2>2 DEF Calm, Ends, x
<1> QED BY <1>1, <1>2

LEMMA SelfCalm == ASSUME NEW r \in Row PROVE Calm(r, r)
BY DEF Calm

LEMMA EndedCalm == ASSUME NEW r \in Row PROVE Calm(r, Ended(r))
BY ZenonT(90) DEF Calm, Ended, Row

LEMMA OnHelloEnds ==
  ASSUME NEW r \in Row, NEW m \in Hello, r.config # None, r.gen # 0
  PROVE  Ends(r, OnHello(r, m))
<1> DEFINE offer == [t |-> "offer", boot |-> m.boot, eid |-> m.eid, gen |-> r.gen,
                     config |-> r.config,
                     floor |-> Larger(IF m.boot = r.boot THEN r.counter ELSE 0, m.hw)]
           y == [r EXCEPT !.pending = [hello |-> m, offer |-> offer],
                          !.hellos = @ \cup {m.eid}]
<1>1. r.pending # None => r.pending.offer \in Wire /\ r.pending.offer.t # "stop"
  BY DEF Row, Offer, Wire
<1>2. r.completed # None => r.completed.commit \in Wire /\ r.completed.commit.t # "stop"
  BY DEF Row, Commit, Wire
<1>3. offer \in Offer /\ offer.t = "offer"
  BY IssuerAssumption DEF Row, Hello, Offer, Larger
<1> HIDE DEF offer
<1>4. y \in Row
  BY ZenonT(60), <1>3 DEF Row, Hello
<1>5. y.active = r.active /\ y.outbox = r.outbox
  BY DEF Row
<1> HIDE DEF y
<1>6. Calm(r, y) /\ offer \in Wire /\ offer.t # "stop"
  BY <1>3, <1>4, <1>5 DEF Calm, Wire
<1>7. \/ OnHello(r, m) = r \/ OnHello(r, m) = Emit(y, offer, FALSE)
      \/ r.pending # None /\ OnHello(r, m) = Emit(r, r.pending.offer, FALSE)
      \/ r.completed # None /\ OnHello(r, m) = Emit(r, r.completed.commit, FALSE)
  BY DEF OnHello, offer, y
<1> QED BY <1>1, <1>2, <1>6, <1>7, SelfCalm, CalmEnds

LEMMA OnProofEnds ==
  ASSUME NEW r \in Row, NEW m \in Proof, r.config # None
  PROVE  Ends(r, OnProof(r, m))
<1>1. r.completed # None => r.completed.commit \in Wire /\ r.completed.commit.t # "stop"
  BY DEF Row, Commit, Wire
<1>2. ASSUME r.pending # None, OnProof(r, m) = Install(r, m) PROVE Ends(r, OnProof(r, m))
  <2> DEFINE floor == Floor(r, m)
             commit == [t |-> "commit", boot |-> m.boot, eid |-> m.eid, gen |-> m.gen,
                        config |-> m.config, floor |-> floor]
             retired == IF r.boot \in {None, m.boot} THEN r.retired ELSE r.retired \cup {r.boot}
             done == [hello |-> r.pending.hello, proof |-> m, commit |-> commit]
             y == [r EXCEPT
                     !.retired = retired, !.boot = m.boot, !.counter = floor, !.enrolled = TRUE,
                     !.active = None, !.ready = None, !.outbox = {}, !.pending = None,
                     !.completed = done]
  <2>1. Install(r, m) = Emit(y, commit, FALSE)
    BY DEF Install, Row
  <2>2. floor \in 0..MaxSeq /\ m.boot \in Boots
    BY FloorBounds DEF Proof
  <2> HIDE DEF floor
  <2>3. commit \in Commit /\ commit.t = "commit"
    BY <2>2 DEF Commit, Proof
  <2> HIDE DEF commit
  <2>4. done \in [hello: Hello, proof: Proof, commit: Commit]
    BY <1>2, <2>3 DEF Row
  <2>5. retired \subseteq Boots
    BY <2>2 DEF Row
  <2> HIDE DEF done, retired
  <2>6. y \in Row
    BY ZenonT(60), <2>2, <2>4, <2>5 DEF Row
  <2>7. y.outbox = {} /\ y.active = None
    BY DEF Row
  <2> HIDE DEF y
  <2> QED BY <1>2, <2>1, <2>3, <2>6, <2>7, CalmEnds DEF Calm, Wire
<1>3. \/ OnProof(r, m) = r
      \/ r.completed # None /\ OnProof(r, m) = Emit(r, r.completed.commit, FALSE)
      \/ r.pending # None /\ OnProof(r, m) = Install(r, m)
  BY DEF OnProof
<1> QED BY <1>1, <1>2, <1>3, SelfCalm, CalmEnds

LEMMA OnResultEnds ==
  ASSUME NEW r \in Row, NEW m \in Result
  PROVE  Ends(r, OnResult(r, m))
<1>1. CASE r.enrolled /\ r.ready # None /\ ~r.ready.consumed /\ Same(r.ready.q, m)
  <2> DEFINE x == [r EXCEPT !.ready = [@ EXCEPT !.accepted = TRUE]]
  <2>1. OnResult(r, m) = x
    BY <1>1 DEF OnResult, Row
  <2>2. x.ready \in [q: Query, accepted: BOOLEAN, consumed: BOOLEAN]
    BY <1>1 DEF Row
  <2>3. x \in Row
    BY ZenonT(90), <2>2 DEF Row
  <2>4. x.outbox = r.outbox /\ x.active = r.active
    BY DEF Row
  <2> HIDE DEF x
  <2>5. Calm(r, x)
    BY <2>3, <2>4 DEF Calm
  <2> QED BY <2>1, <2>5, CalmEnds
<1>2. CASE ~(r.enrolled /\ r.ready # None /\ ~r.ready.consumed /\ Same(r.ready.q, m))
  <2>1. OnResult(r, m) = r
    BY <1>2 DEF OnResult
  <2> QED BY <2>1, SelfCalm, CalmEnds
<1> QED BY <1>1, <1>2

LEMMA ReadinessEnds ==
  ASSUME NEW r, NEW M, NEW U, Before(r, M, U), r.config # None
  PROVE  Ends(r, Readiness(r))
<1> DEFINE q == [t |-> "query", boot |-> r.boot, gen |-> r.gen, config |-> r.config,
                 seq |-> r.counter + 1]
           y == [r EXCEPT !.counter = @ + 1,
                          !.ready = [q |-> q, accepted |-> FALSE, consumed |-> FALSE]]
           refused == ~r.enrolled \/ r.active # None \/ r.ready # None \/ r.pending # None
                        \/ r.counter = MaxSeq
<1>0. r \in Row /\ RowInv(r, M, U)
  BY DEF Before
<1>1. CASE refused
  <2>1. Readiness(r) = r
    BY <1>1 DEF Readiness
  <2> QED BY <1>0, <2>1, SelfCalm, CalmEnds
<1>2. CASE ~refused
  <2>1. Readiness(r) = Emit(y, q, FALSE)
    BY <1>2 DEF Readiness
  <2>2. q \in Query /\ q.t = "query"
    BY <1>0, <1>2, IssuerAssumption DEF Row, RowInv, Current, Query
  <2> HIDE DEF q
  <2>3. r.counter + 1 \in 0..MaxSeq
    BY <1>0, <1>2, IssuerAssumption DEF Row
  <2>4. y \in Row
    BY ZenonT(90), <1>0, <2>2, <2>3 DEF Row
  <2>5. y.active = r.active /\ y.outbox = r.outbox
    BY <1>0 DEF Row
  <2> HIDE DEF y
  <2> QED BY <1>0, <2>1, <2>2, <2>4, <2>5, CalmEnds DEF Calm, Wire
<1> QED BY <1>1, <1>2

LEMMA StartEnds ==
  ASSUME NEW r, NEW M, NEW U, Before(r, M, U), r.config # None,
         NEW k \in Query, NEW s \in Streams
  PROVE  Ends(r, Start(r, k, s))
<1> DEFINE c == [t |-> "start", boot |-> r.boot, gen |-> r.gen, config |-> r.config,
                 seq |-> k.seq, stream |-> s, n |-> 1]
           y == [r EXCEPT !.ready.consumed = TRUE, !.active = c]
           x == Emit(y, c, TRUE)
<1>0. r \in Row /\ RowInv(r, M, U)
  BY DEF Before
<1>1. CASE ~Startable(r, k) \/ s \in lost
  <2>1. Start(r, k, s) = r
    BY <1>1 DEF Start
  <2> QED BY <1>0, <2>1, SelfCalm, CalmEnds
<1>2. CASE ~(~Startable(r, k) \/ s \in lost)
  <2>1. Start(r, k, s) = x
    BY <1>0, <1>2 DEF Start, Row
  <2>2. /\ r.ready # None /\ r.ready.q = k /\ ~r.ready.consumed /\ r.enrolled
        /\ k.boot = r.boot /\ k.gen = r.gen /\ k.config = r.config
    BY <1>0, <1>2 DEF Startable, RowInv, Current
  <2>3. /\ c \in Active /\ c \in Command /\ c.t = "start" /\ Attempt(c) = Attempt(k)
    <3>1. c \in Active /\ c \in Command
      BY <1>0, <2>2, IssuerAssumption DEF Row, RowInv, Current, Query, Active, Command
    <3> QED BY <2>2, <3>1 DEF Attempt
  <2> HIDE DEF c
  <2>4. [r.ready EXCEPT !.consumed = TRUE] \in [q: Query, accepted: BOOLEAN, consumed: BOOLEAN]
    BY <1>0, <2>2 DEF Row
  <2>5. y \in Row /\ y.active = c /\ y.outbox = r.outbox
    BY ZenonT(90), <1>0, <2>3, <2>4 DEF Row
  <2> HIDE DEF y
  <2>6. /\ x \in Row /\ x = [y EXCEPT !.outbox = x.outbox]
        /\ \A e \in x.outbox : e \in y.outbox \/ e.m = c
        /\ c \in {e.m : e \in x.outbox}
    BY <2>3, <2>5, EmitSame DEF Wire
  <2> HIDE DEF x
  <2>7. x.active = c
    BY <2>5, <2>6 DEF Row
  <2>8. Started(Stamped(x.outbox), c)
    BY <2>3, <2>6 DEF Started, Stamped
  <2> QED BY <2>1, <2>2, <2>3, <2>5, <2>6, <2>7, <2>8 DEF Ends
<1> QED BY <1>1, <1>2

LEMMA RenewEnds ==
  ASSUME NEW r \in Row, NEW s \in Streams
  PROVE  Ends(r, Renew(r, s))
<1> DEFINE refused == ~r.enrolled \/ ~OfActive(r, s) \/ s \in lost \/ r.active.n = MaxRenew
           next == [r.active EXCEPT !.n = @ + 1]
           c == [r.active EXCEPT !.t = "renew", !.n = @ + 1]
           y == [r EXCEPT !.active = next]
<1>1. CASE refused
  BY <1>1, SelfCalm, CalmEnds DEF Renew
<1>2. CASE ~refused
  <2>1. Renew(r, s) = Emit(y, c, TRUE)
    BY <1>2 DEF Renew, Row
  <2>2. r.active \in Active /\ r.active # None
    BY <1>2 DEF Row, OfActive
  <2>3. next \in Active /\ Attempt(next) = Attempt(r.active)
    BY <1>2, <2>2, NextActive
  <2>4. c \in Command /\ c.t = "renew" /\ Attempt(c) = Attempt(r.active)
    BY ZenonT(60), <2>2, NextCommand
  <2> HIDE DEF next, c
  <2>5. y \in Row /\ y.active = next /\ y.outbox = r.outbox
    BY <2>3 DEF Row
  <2> HIDE DEF y
  <2> QED BY <2>1, <2>2, <2>3, <2>4, <2>5, CalmEnds DEF Calm, Wire
<1> QED BY <1>1, <1>2

LEMMA StopEnds ==
  ASSUME NEW r \in Row, NEW s \in Streams
  PROVE  Ends(r, Stop(r, s))
<1> DEFINE c == [r.active EXCEPT !.t = "stop", !.n = @ + 1]
           x == Emit(Ended(r), c, TRUE)
<1>1. CASE ~r.enrolled \/ ~OfActive(r, s)
  BY <1>1, SelfCalm, CalmEnds DEF Stop
<1>2. CASE ~(~r.enrolled \/ ~OfActive(r, s))
  <2>1. Stop(r, s) = x
    BY <1>2 DEF Stop, Ended
  <2>2. r.active \in Active /\ r.active # None
    BY <1>2 DEF Row, OfActive
  <2>3. c \in Command /\ c.t = "stop" /\ Attempt(c) = Attempt(r.active)
    BY ZenonT(60), <2>2, NextCommand
  <2> HIDE DEF c
  <2>4. Ended(r) \in Row /\ Ended(r).outbox = {} /\ Ended(r).active = None
    BY ZenonT(90) DEF Ended, Row
  <2>5. /\ x \in Row /\ x = [Ended(r) EXCEPT !.outbox = x.outbox]
        /\ \A e \in x.outbox : e \in Ended(r).outbox \/ e.m = c
    BY <2>3, <2>4, EmitSame DEF Wire
  <2> HIDE DEF x
  <2>6. x.active = None
    BY <2>4, <2>5 DEF Row
  <2> QED BY <2>1, <2>2, <2>3, <2>4, <2>5, <2>6 DEF Ends
<1> QED BY <1>1, <1>2

LEMMA ApplyEnds ==
  ASSUME NEW r, NEW M, NEW U, Before(r, M, U), NEW j \in Job
  PROVE  Ends(r, Apply(r, j))
<1>0. r \in Row /\ r.gen # 0 /\ Ends(r, r) /\ Ends(r, Ended(r))
  BY SelfCalm, EndedCalm, CalmEnds DEF Before
<1>1. CASE j.k = "configure"
  <2>1. j.v \in Configs
    BY <1>1 DEF Job
  <2>2. Configure(r, j.v).outbox \subseteq r.outbox /\ Configure(r, j.v).active = r.active
    BY <1>0 DEF Configure, Row
  <2>3. Ends(r, Configure(r, j.v))
    BY <2>2 DEF Ends
  <2> QED BY <1>1, <2>3 DEF Apply
<1>2. CASE j.k # "configure" /\ r.config = None
  BY <1>0, <1>2 DEF Apply
<1>3. CASE j.k = "incoming" /\ r.config # None
  <2>1. j.v \in Hello \cup Proof \cup Result
    BY <1>3 DEF Job
  <2>2. /\ j.v \in Hello => j.v.t = "hello"
        /\ j.v \in Proof => j.v.t = "proof"
        /\ j.v \in Result => j.v.t = "result"
    BY DEF Hello, Proof, Result
  <2>3. Apply(r, j) = Incoming(r, j.v)
    BY <1>3 DEF Apply
  <2> QED BY <1>0, <1>3, <2>1, <2>2, <2>3, OnHelloEnds, OnProofEnds, OnResultEnds DEF Incoming
<1>4. CASE j.k = "readiness" /\ r.config # None
  BY <1>4, ReadinessEnds DEF Apply
<1>5. CASE j.k = "start" /\ r.config # None
  <2>1. j.v[1] \in Query /\ j.v[2] \in Streams
    BY <1>5 DEF Job
  <2> QED BY <1>5, <2>1, StartEnds DEF Apply
<1>6. CASE j.k \in {"renew", "stop", "retire"} /\ r.config # None
  <2>1. j.v \in Streams
    BY <1>6 DEF Job
  <2> QED BY <1>0, <1>6, <2>1, RenewEnds, StopEnds DEF Apply, Retire
<1>7. CASE j.k = "release" /\ r.config # None
  <2>1. /\ \A e \in Release(r, j.v).outbox : \E f \in r.outbox : f.m = e.m
        /\ Release(r, j.v).active = r.active
    BY <1>0 DEF Release, Row
  <2> QED BY <1>7, <2>1 DEF Apply, Ends
<1>8. CASE j.k = "nack" /\ r.config # None
  BY <1>0, <1>8 DEF Apply, Nack
<1> QED BY <1>1, <1>2, <1>3, <1>4, <1>5, <1>6, <1>7, <1>8 DEF Job

\* Every step of the system is one of the row, or leaves it alone.
LEMMA RowEnds ==
  ASSUME IndInv, [Next]_vars
  PROVE  /\ Ends(row, row') /\ down' \subseteq down \cup {e.m : e \in row.outbox}
         /\ made \subseteq made' /\ Stamped(row'.outbox) \subseteq made'
<1>0. IndInv' /\ row \in Row
  BY NextKeeps DEF IndInv, TypeOK
<1>1. Stamped(row'.outbox) \subseteq made'
  BY <1>0 DEF IndInv, RowInv, Queued
<1>2. ASSUME row'.outbox \subseteq row.outbox, row'.active \in {None, row.active}
      PROVE  Ends(row, row')
  BY <1>2 DEF Ends
<1>3. ASSUME NEW o \in Issuers, Issuer(o)
      PROVE  /\ Ends(row, row') /\ down' \subseteq down \cup {e.m : e \in row.outbox}
             /\ made \subseteq made'
  <2>1. CASE Takeover(o)
    BY <1>0, <1>2, <2>1 DEF Takeover, TakenOver, Fenced, Row
  <2>2. CASE FailedTakeover(o)
    BY <1>2, <2>2 DEF FailedTakeover
  <2>3. CASE Pump(o)
    <3>1. CASE row' = [row EXCEPT !.fenced = TRUE]
      BY <1>0, <1>2, <2>3, <3>1 DEF Pump, Row
    <3>2. CASE /\ row.jobs # <<>>
               /\ row' = [Apply(row, Head(row.jobs)) EXCEPT !.jobs = Tail(@), !.fenced = TRUE]
      <4> DEFINE x == Apply(row, Head(row.jobs))
      <4>1. Before(row, made, up) /\ Heard(row, up)
        BY <2>3, ClockGeneration DEF IndInv, Pump
      <4>2. /\ Head(row.jobs) \in Job
            /\ Head(row.jobs).k = "incoming" => Head(row.jobs).v \in up
        <5>1. row.jobs \in Seq(Job)
          BY <1>0 DEF Row
        <5>2. Head(row.jobs) = row.jobs[1] /\ 1 \in DOMAIN row.jobs /\ row.jobs[1] \in Job
          BY <3>2, <5>1
        <5> QED BY <4>1, <5>2 DEF Heard
      <4>3. Ends(row, x)
        BY <4>1, <4>2, ApplyEnds
      <4>4. x \in Row
        BY <4>1, <4>2, ApplyKeepsInv DEF After
      <4> HIDE DEF x
      <4>5. row' = [x EXCEPT !.jobs = Tail(@), !.fenced = TRUE]
        BY <3>2 DEF x
      <4>6. row'.outbox = x.outbox /\ row'.active = x.active
        BY <4>4, <4>5 DEF Row
      <4>7. Ends(row, row')
        BY <4>3, <4>6 DEF Ends
      <4> QED BY <2>3, <4>7 DEF Pump
    <3> QED BY <2>3, <3>1, <3>2 DEF Pump
  <2>4. CASE JobExpires(o)
    BY <1>0, <1>2, <2>4 DEF JobExpires, Row
  <2>5. CASE Expire(o)
    <3>1. PICK x \in Dropped(row) : row' = [x EXCEPT !.fenced = TRUE]
      BY <2>5 DEF Expire
    <3>2. row'.outbox \subseteq row.outbox /\ row'.active \in {None, row.active}
      BY ZenonT(90), <1>0, <3>1 DEF Dropped, Without, Row
    <3> QED BY <1>2, <2>5, <3>2 DEF Expire
  <2>6. ASSUME NEW e \in row.outbox, Flush(o, e)
        PROVE  /\ Ends(row, row') /\ down' \subseteq down \cup {f.m : f \in row.outbox}
               /\ made \subseteq made'
    BY <1>0, <1>2, <2>6 DEF Flush, Row
  <2>7. CASE Crash(o)
    BY <1>0, <1>2, <2>7 DEF Crash, Row
  <2>8. CASE ClockRegresses(o)
    BY <1>0, <1>2, <2>8 DEF ClockRegresses, Fenced, Row
  <2> QED BY <1>3, <2>1, <2>2, <2>3, <2>4, <2>5, <2>6, <2>7, <2>8 DEF Issuer
<1>4. CASE Lapse \/ Stall
  BY <1>0, <1>1, <1>2, <1>4 DEF Lapse, Stall, Row
<1>5. CASE Submit \/ Forward
  <2>1. \E j : row' = [row EXCEPT !.jobs = Append(@, j)]
    BY <1>5 DEF Submit, Forward, Arrives, Enqueue
  <2>2. row'.outbox = row.outbox /\ row'.active = row.active
    BY <1>0, <2>1 DEF Row
  <2> QED BY <1>1, <1>2, <1>5, <2>2 DEF Submit, Forward
<1>6. CASE Terminal \/ \E s \in Streams : LoseLease(s)
  <2>1. ASSUME Terminal PROVE row' = row /\ down' = down /\ made' = made
    <3>1. CASE DevHello
      BY <3>1 DEF DevHello
    <3>2. CASE DevReboot
      BY <3>2 DEF DevReboot
    <3>3. ASSUME NEW m \in down, DevOffer(m) PROVE row' = row /\ down' = down /\ made' = made
      BY <3>3 DEF DevOffer
    <3>4. ASSUME NEW m \in down, DevCommit(m) PROVE row' = row /\ down' = down /\ made' = made
      BY <3>4 DEF DevCommit
    <3>5. ASSUME NEW m \in down, DevQuery(m) PROVE row' = row /\ down' = down /\ made' = made
      BY <3>5 DEF DevQuery
    <3>6. ASSUME NEW m \in down, DevStart(m) PROVE row' = row /\ down' = down /\ made' = made
      BY <3>6 DEF DevStart
    <3> QED BY <2>1, <3>1, <3>2, <3>3, <3>4, <3>5, <3>6 DEF Terminal
  <2>2. ASSUME NEW s \in Streams, LoseLease(s) PROVE row' = row /\ down' = down /\ made' = made
    BY <2>2 DEF LoseLease
  <2>3. row' = row /\ down' = down /\ made' = made
    BY <1>6, <2>1, <2>2
  <2> QED BY <1>1, <1>2, <2>3
<1>7. CASE UNCHANGED vars
  BY <1>1, <1>2, <1>7 DEF vars
<1> QED BY <1>1, <1>3, <1>4, <1>5, <1>6, <1>7 DEF Next

LEMMA StopInductive == Spec => []StoppedInv
<1>1. Init => StoppedInv
  <2> SUFFICES ASSUME Init PROVE StoppedInv
    OBVIOUS
  <2>1. row.outbox = {} /\ row.active = None /\ down = {}
    BY DEF Init
  <2> QED BY <2>1, InitInv DEF StoppedInv, StopInv
<1>2. ASSUME StoppedInv, [Next]_vars PROVE StoppedInv'
  <2>1. /\ IndInv' /\ row \in Row /\ RowInv(row, made, up) /\ StopInv(row, down, made)
        /\ made \subseteq Query \cup Command
    BY <1>2, NextKeeps DEF StoppedInv, IndInv, TypeOK
  <2>2. /\ Ends(row, row') /\ down' \subseteq down \cup {e.m : e \in row.outbox}
        /\ made \subseteq made' /\ Stamped(row'.outbox) \subseteq made'
    BY <1>2, RowEnds DEF StoppedInv
  <2>3. StopInv(row', down', made')
    BY <2>1, <2>2, StopKept
  <2> QED BY <2>1, <2>3 DEF StoppedInv
<1> QED BY <1>1, <1>2, PTL DEF Spec

-----------------------------------------------------------------------------
(* The results. *)

\* The row, the clocks and everything on the wire are of their types: what a
\* process commits (runtime_store.py) fits the columns for any number of
\* issuers, boots and streams.
THEOREM TypeCorrect == Spec => []TypeOK
<1>1. IndInv => TypeOK
  BY DEF IndInv
<1> QED BY Inductive, <1>1, PTL

\* No sequence number of a boot is given out twice, whatever takeovers, crashes
\* and repeated enrollments come between (runtime_state.py keeps one counter
\* per boot in the row).
THEOREM NumbersOnce == Spec => []SeqUnique
<1>1. IndInv => SeqUnique
  BY DEF IndInv, Unique, SeqUnique
<1> QED BY Inductive, <1>1, PTL

\* Every start the issuer ever committed was admitted by an answer of the
\* terminal to this very query (start in runtime_state.py).
THEOREM StartsAdmitted == Spec => []StartsAnswered
<1>1. IndInv => StartsAnswered
  BY DEF IndInv, Answered, StartsAnswered
<1> QED BY Inductive, <1>1, PTL

\* While the row says enrolled, the terminal has proved this boot and binding to
\* this generation (on_proof in runtime_state.py).
THEOREM EnrollmentProved == Spec => []EnrolledProved
<1>1. IndInv => EnrolledProved
  BY DEF IndInv, RowInv, Proved, EnrolledProved
<1> QED BY Inductive, <1>1, PTL

\* Starts and renewals wait only for the attempt that is active: whatever ends
\* an attempt takes its unsent commands along (runtime_state.py, stop).
THEOREM OutboxActive == Spec => []OutboxOfActive
<1>1. IndInv => OutboxOfActive
  BY DEF IndInv, RowInv, Queued, Current, Attempt, OutboxOfActive
<1> QED BY Inductive, <1>1, PTL

\* The counter of an enrolled boot is never behind what the terminal has
\* admitted, so that its next query is not refused as a repetition (the floor
\* of the commit in runtime_state.py).
THEOREM NeverBehind == Spec => []NotBehind
<1>1. FullInv => NotBehind
  BY DEF FullInv, LevelInv, NotBehind
<1> QED BY LevelInductive, <1>1, PTL

\* A retired boot is never enrolled again and no exchange is opened for it, and
\* generations only rise.
THEOREM BootsRetire == Spec => RetiredStays
<1>1. IndInv /\ [Next]_vars
        => [/\ row.retired \subseteq row'.retired /\ row.gen <= row'.gen
            /\ row'.boot \notin row.retired
            /\ row'.pending # None => row'.pending.offer.boot \notin row'.retired]_vars
  BY NextKeeps DEF Keeps
<1> QED BY Inductive, <1>1, PTL DEF Spec, RetiredStays

\* Nothing of an attempt is published behind its stop (runtime_state.py, stop:
\* "STOP cancels unsent START/RENEW from the retired attempt").
THEOREM StopEndsAttempt == Spec => StopIsLast
<1>1. ASSUME StoppedInv, [Next]_vars
      PROVE  [\A m \in down' \ down, c \in down :
                m.t \in {"start", "renew"} /\ c.t = "stop" => Attempt(m) # Attempt(c)]_vars
  <2>1. down' \subseteq down \cup {e.m : e \in row.outbox}
    BY <1>1, RowEnds DEF StoppedInv
  <2>2. ASSUME NEW m \in down' \ down, NEW c \in down, m.t \in {"start", "renew"}, c.t = "stop"
        PROVE  Attempt(m) # Attempt(c)
    <3>1. PICK e \in row.outbox : e.m = m
      BY <2>1, <2>2
    <3>2. row.active # None /\ Attempt(m) = Attempt(row.active)
      BY <1>1, <2>2, <3>1 DEF StoppedInv, IndInv, RowInv, Queued
    <3>3. row.active # None => Attempt(row.active) # Attempt(c)
      BY <1>1, <2>2 DEF StoppedInv, StopInv
    <3> QED BY <3>2, <3>3
  <2> QED BY <2>2
<1> QED BY StopInductive, <1>1, PTL DEF Spec, StopIsLast

=============================================================================
