--------------------------- MODULE EventFeedProofs ---------------------------
(***************************************************************************)
(* What the intake of events and the incremental feed keep for any number  *)
(* of devices, events, handlers and requests, and for every page size.     *)
(*                                                                         *)
(* The intake: an id is in the hands of one transaction until its row      *)
(* appears, and a numbered event in the hands of one that may store it.    *)
(* The feed: a request with a lock on the row of a device is the only one  *)
(* that can move it, so what it has read of it stays true until it ends;   *)
(* and a page is complete up to each of its ids, but for what was          *)
(* committed after the page was read.                                      *)
(***************************************************************************)
EXTENDS EventFeed, WellFoundedInduction, TLAPS

Holds(c, pc, e) == consumer[c].pc = pc /\ consumer[c].event = e

\* An id is given once, and nobody sees the row before the commit.
Serials ==
  /\ \A id \in DOMAIN events : id < nextId
  /\ \A c \in Consumers : consumer[c].pc = "commit" =>
       /\ consumer[c].id < nextId /\ consumer[c].id \notin DOMAIN events
       /\ \A b \in Consumers : consumer[b].pc = "commit" /\ consumer[b].id = consumer[c].id
                                 => b = c

\* One transaction stores a numbered event, and one handler publishes it.
OneRow(e) ==
  /\ \A i, j \in DOMAIN events : events[i] = e /\ events[j] = e => i = j
  /\ \A c \in Consumers : Holds(c, "commit", e) =>
       ~Stored(e) /\ \A b \in Consumers : Holds(b, "commit", e) => b = c
  /\ \A c \in Consumers : Holds(c, "publish", e) =>
       /\ Stored(e) /\ published[e] = 0
       /\ \A b \in Consumers : Holds(b, "publish", e) => b = c
  /\ \A c \in Consumers : Holds(c, "eva", e) => Stored(e)
  /\ published[e] \in {0, 1}
  /\ published[e] = 1 \/ e \in confirmed => Stored(e)

IntakeInv == Serials /\ \A e \in Numbered : OneRow(e)

\* A row that is locked is locked by one request.
Locks ==
  \A r, q \in Readers :
    r # q /\ reader[r].pc # "idle" /\ reader[q].pc # "idle"
      => reader[r].locked \cap reader[q].locked = {}

\* What a request has read of the offsets is still so.
Based(r) ==
  \A d \in reader[r].devs :
    IF d \in reader[r].locked THEN d \in DOMAIN offset /\ reader[r].base[d] = offset[d]
                              ELSE d \notin Known /\ reader[r].base[d] = 0

\* The page is of rows that can be read, and the offsets to write are of their
\* devices; those of known devices are locked and will move forward.
Moves(r) ==
  /\ reader[r].page # {} /\ reader[r].page \subseteq DOMAIN events
  /\ \A i \in reader[r].page : Device(i) \in reader[r].devs
  /\ reader[r].done \subseteq reader[r].locked
  /\ \A d \in reader[r].todo \cup reader[r].done :
       \E i \in reader[r].page :
         Device(i) = d /\ (d \in Known => d \in reader[r].locked /\ i > offset[d])

\* A request that uses the offset has nothing on its page that it does not move
\* the offset beyond.
Fresh(r) ==
  \A i \in reader[r].page :
    Device(i) \in Known => /\ Device(i) \in reader[r].todo \cup reader[r].done
                           /\ i > offset[Device(i)]

\* Up to each id of the page, what the request asks for is on the page, was
\* given before, came too late, or is skipped by the client itself.
Complete(r) ==
  \A i \in reader[r].page, id \in DOMAIN events :
    /\ id <= i /\ Device(id) \in reader[r].devs
    /\ r \in OwnReaders \/ Device(id) = Device(i)
    => id \in reader[r].page \cup seen \cup late \cup waived \cup Skipped(r)

\* What was given lies below the offset, and was given once.
Handed ==
  \A id \in Ids : handed[id] > 0 =>
    /\ id \in DOMAIN events
    /\ Device(id) \in Known => handed[id] = 1 /\ id <= offset[Device(id)]

\* The cursor of a reader leaves nothing behind either.
Cursors ==
  \A r \in OwnReaders, D \in Scopes, id \in DOMAIN events :
    Device(id) \in D /\ id <= cursor[r][D] => id \in seen \cup late \cup waived

Requests ==
  \A r \in Readers :
    /\ reader[r].pc = "query" => Based(r)
    /\ reader[r].pc = "upsert" => /\ Moves(r) /\ Complete(r)
                                  /\ r \in SharedReaders => Fresh(r)

FeedInv ==
  Known \subseteq DOMAIN offset /\ Locks /\ Requests /\ Handed /\ Cursors /\ NothingSkipped

IndInv == TypeOK /\ IntakeInv /\ FeedInv

-----------------------------------------------------------------------------
(* Ids *)

LEMMA NatMinimum ==
  ASSUME NEW T, T \subseteq Nat, T # {}
  PROVE  \E x \in T : \A y \in T : x <= y
<1> DEFINE R == {p \in Nat \X Nat : p[1] < p[2]}
<1>0. R = OpToRel(<, Nat)
  BY Zenon DEF OpToRel
<1>1. IsWellFoundedOn(R, Nat)
  BY <1>0, NatLessThanWellFounded, Zenon
<1>2. PICK x \in T : \A y \in T : ~ (<<y, x>> \in R)
  <2> HIDE DEF R
  <2> QED BY <1>1, WFMin
<1>3. ASSUME NEW y \in T PROVE x <= y
  <2>1. ~(<<y, x>> \in Nat \X Nat /\ <<y, x>>[1] < <<y, x>>[2])
    BY <1>2
  <2>2. x \in Nat /\ y \in Nat
    OBVIOUS
  <2> QED BY <2>1, <2>2
<1> QED BY <1>3

LEMMA MaxOfIds ==
  ASSUME NEW S, S \subseteq Ids, S # {}
  PROVE  Max(S) \in S /\ \A y \in S : Max(S) >= y
<1> DEFINE T == {MaxId - x : x \in S}
<1>0. \A x \in S : MaxId - x \in Nat
  BY FeedAssumption DEF Ids
<1>1. T \subseteq Nat /\ T # {}
  BY <1>0
<1>2. PICK t \in T : \A u \in T : t <= u
  BY <1>1, NatMinimum
<1>3. PICK x \in S : t = MaxId - x
  OBVIOUS
<1>4. \A y \in S : x >= y
  <2> TAKE y \in S
  <2>1. MaxId - x <= MaxId - y
    BY <1>2, <1>3
  <2> QED BY <2>1, FeedAssumption DEF Ids
<1> QED BY <1>4 DEF Max

\* The last id of a device on a page that has one.
LEMMA LastOnPage ==
  ASSUME NEW P, P \subseteq Ids, NEW d, NEW i \in P, Device(i) = d
  PROVE  /\ Last(P, d) \in P /\ Device(Last(P, d)) = d
         /\ \A j \in P : Device(j) = d => j <= Last(P, d)
<1> DEFINE S == {id \in P : Device(id) = d}
<1>1. Max(S) \in S /\ \A y \in S : Max(S) >= y
  <2>1. S \subseteq Ids /\ S # {}
    OBVIOUS
  <2> QED BY <2>1, MaxOfIds
<1>2. \A y \in S : y <= Max(S)
  BY <1>1 DEF Ids
<1> QED BY <1>1, <1>2 DEF Last

-----------------------------------------------------------------------------
(* Types *)

LEMMA ConsumerForm ==
  ASSUME TypeOK, NEW c \in Consumers
  PROVE  /\ consumer[c].pc \in {"idle", "insert", "publish", "eva", "commit"}
         /\ consumer[c].pc \in {"insert", "publish", "eva"}
              => consumer[c] \in [pc: {"insert", "publish", "eva"}, event: Events]
         /\ consumer[c].pc = "commit"
              => consumer[c] \in [pc: {"commit"}, event: Events, id: Ids]
<1>1. consumer[c] \in ConsumerState
  BY DEF TypeOK
<1> QED BY <1>1 DEF ConsumerState

LEMMA ReaderForm ==
  ASSUME TypeOK, NEW r \in Readers
  PROVE  /\ reader[r].pc \in {"idle", "query", "upsert"}
         /\ reader[r].pc = "query" =>
              reader[r] \in [pc: {"query"}, devs: Scopes, after: {0} \cup Ids, locked: SUBSET Devices,
                             base: [Devices -> {0} \cup Ids]]
         /\ reader[r].pc = "upsert" =>
              reader[r] \in [pc: {"upsert"}, devs: Scopes, after: {0} \cup Ids, locked: SUBSET Devices,
                             page: SUBSET Ids, todo: SUBSET Devices, done: SUBSET Devices]
<1>1. reader[r] \in ReaderState
  BY DEF TypeOK
<1> QED BY <1>1 DEF ReaderState

LEMMA DeviceType ==
  ASSUME TypeOK, NEW id \in DOMAIN events
  PROVE  Device(id) \in Devices /\ id \in Ids
BY FeedAssumption DEF TypeOK, Device

LEMMA TypeIntake ==
  ASSUME TypeOK, NEW c \in Consumers, Consume(c)
  PROVE  TypeOK'
<1>1. CASE \E e \in Events : Receive(c, e)
  <2>1. PICK e \in Events : Receive(c, e)
    BY <1>1
  <2>2. [pc |-> "insert", event |-> e] \in ConsumerState
    BY DEF ConsumerState
  <2> QED BY <2>1, <2>2 DEF Receive, TypeOK, feed
<1>2. CASE Insert(c)
  <2> DEFINE e == consumer[c].event
  <2>1. e \in Events /\ nextId \in Ids
    BY SMTT(60), <1>2, ConsumerForm DEF Insert, Ids, TypeOK
  <2>2. /\ [pc |-> "eva", event |-> e] \in ConsumerState
        /\ [pc |-> "commit", event |-> e, id |-> nextId] \in ConsumerState
    BY <2>1 DEF ConsumerState
  <2>3. consumer' \in [Consumers -> ConsumerState]
    BY <1>2, <2>2 DEF Insert, TypeOK
  <2>4. nextId' \in 1..(MaxId + 1)
    BY <1>2, FeedAssumption DEF Insert, TypeOK
  <2> QED BY <1>2, <2>3, <2>4 DEF Insert, TypeOK, feed
<1>3. CASE Commit(c)
  <2> DEFINE e == consumer[c].event
             id == consumer[c].id
  <2>1. e \in Events /\ id \in Ids
    BY <1>3, ConsumerForm DEF Commit
  <2>2. [pc |-> "publish", event |-> e] \in ConsumerState
    BY <2>1 DEF ConsumerState
  <2>3. /\ consumer' = [consumer EXCEPT ![c] = [pc |-> "publish", event |-> e]]
        /\ events' = [i \in DOMAIN events \cup {id} |-> IF i = id THEN e ELSE events[i]]
        /\ late' \subseteq late \cup {id}
        /\ UNCHANGED <<nextId, published, confirmed, offset, reader, cursor, handed, seen, waived>>
    BY <1>3 DEF Commit, feed
  <2>4. consumer' \in [Consumers -> ConsumerState]
    BY <2>2, <2>3 DEF TypeOK
  <2> HIDE DEF e, id
  <2>5. DOMAIN events' = DOMAIN events \cup {id} /\ DOMAIN events' \subseteq Ids
    BY <2>1, <2>3 DEF TypeOK
  <2>6. \A i \in DOMAIN events' : events'[i] \in Events
    BY <2>1, <2>3, <2>5 DEF TypeOK
  <2> QED BY <2>1, <2>3, <2>4, <2>5, <2>6 DEF TypeOK
<1>4. CASE Publish(c)
  <2>1. [consumer[c] EXCEPT !.pc = "eva"] \in ConsumerState
    BY <1>4, ConsumerForm DEF Publish, ConsumerState
  <2>2. consumer' \in [Consumers -> ConsumerState]
    BY <1>4, <2>1 DEF Publish, TypeOK
  <2>3. published' \in [Numbered -> Nat]
    BY <1>4 DEF Publish, TypeOK
  <2> QED BY <1>4, <2>2, <2>3 DEF Publish, TypeOK, feed
<1>5. CASE Eva(c)
  BY <1>5 DEF Eva, TypeOK, feed, Idle, ConsumerState
<1>6. CASE Drop(c)
  BY <1>6 DEF Drop, TypeOK, feed, Idle, ConsumerState
<1> QED BY <1>1, <1>2, <1>3, <1>4, <1>5, <1>6 DEF Consume

LEMMA PageType ==
  ASSUME TypeOK, NEW r \in Readers, reader[r].pc = "query",
         NEW P \in Pages(Matching(r)) \ {{}}
  PROVE  /\ P \subseteq Matching(r) /\ P \subseteq DOMAIN events /\ P # {}
         /\ \A i \in P : Device(i) \in reader[r].devs
         /\ Ahead(r, P) \subseteq Devices
         /\ \A d \in Ahead(r, P) : (\E i \in P : Device(i) = d) /\ Last(P, d) > reader[r].base[d]
BY DeviceType DEF Pages, Matching, Ahead

LEMMA TypeFeed ==
  ASSUME TypeOK, Requests, NEW r \in Readers, Read(r)
  PROVE  TypeOK'
<1> USE DEF Readers
<1>1. CASE \E D \in Scopes, n \in LastIds : Open(r, D, n)
  <2>1. PICK D \in Scopes, n \in {0} \cup Ids : Open(r, D, n)
    BY <1>1 DEF LastIds
  <2> DEFINE new == [pc |-> "query", devs |-> D, after |-> n, locked |-> ForUpdate(D),
                     base |-> [d \in Devices |-> IF d \in D THEN Saved(d) ELSE 0]]
  <2>2. ForUpdate(D) \subseteq Devices
    BY DEF ForUpdate, TypeOK
  <2>3. [d \in Devices |-> IF d \in D THEN Saved(d) ELSE 0] \in [Devices -> {0} \cup Ids]
    BY DEF Saved, TypeOK
  <2>4. new \in ReaderState
    BY <2>2, <2>3 DEF ReaderState
  <2>5. reader' = [reader EXCEPT ![r] = new]
    BY <2>1 DEF Open
  <2> HIDE DEF new
  <2>6. reader' \in [Readers -> ReaderState]
    BY <2>4, <2>5 DEF TypeOK
  <2> QED BY <2>1, <2>6 DEF Open, TypeOK, intake
<1>2. CASE Query(r)
  <2>1. CASE reader' = [reader EXCEPT ![r] = Idle]
    BY <1>2, <2>1 DEF Query, TypeOK, intake, Idle, ReaderState
  <2>2. ASSUME NEW P \in Pages(Matching(r)) \ {{}},
               reader' = [reader EXCEPT ![r] =
                 [pc |-> "upsert", devs |-> reader[r].devs, after |-> reader[r].after,
                locked |-> reader[r].locked,
                  page |-> P, todo |-> Ahead(r, P), done |-> {}]]
        PROVE  TypeOK'
    <3>1. P \subseteq Ids /\ Ahead(r, P) \subseteq Devices
      BY <1>2, PageType DEF Query, TypeOK
    <3>2. [pc |-> "upsert", devs |-> reader[r].devs, after |-> reader[r].after,
                locked |-> reader[r].locked,
           page |-> P, todo |-> Ahead(r, P), done |-> {}] \in ReaderState
      BY <1>2, <3>1, ReaderForm DEF Query, ReaderState
    <3> QED BY <1>2, <2>2, <3>2 DEF Query, TypeOK, intake
  <2> QED BY <1>2, <2>1, <2>2 DEF Query
<1>3. CASE Return(r)
  <2> DEFINE P == reader[r].page
  <2>1. /\ P \subseteq Ids /\ P # {} /\ reader[r].devs \in Scopes
        /\ reader[r].done \subseteq Devices
        /\ \A d \in reader[r].done : \E i \in P : Device(i) = d
    BY <1>3, ReaderForm DEF Return, Requests, Moves
  <2>2. Max(P) \in Ids /\ \A d \in reader[r].done : Last(P, d) \in Ids
    BY <2>1, MaxOfIds, LastOnPage
  <2>3. /\ offset' = [d \in DOMAIN offset \cup reader[r].done |->
                        IF d \in reader[r].done THEN Last(P, d) ELSE offset[d]]
        /\ cursor' = [cursor EXCEPT ![r][reader[r].devs] =
                        IF r \in OwnReaders THEN Max(P) ELSE @]
        /\ handed' = [id \in Ids |-> IF r \in SharedReaders /\ id \in P
                                      THEN handed[id] + 1 ELSE handed[id]]
        /\ seen' = seen \cup P /\ waived' = waived \cup Skipped(r) /\ reader' = [reader EXCEPT ![r] = Idle]
        /\ UNCHANGED <<events, nextId, consumer, published, confirmed, late>>
    BY <1>3 DEF Return, intake
  <2> HIDE DEF P
  <2>4. DOMAIN offset' \subseteq Devices /\ \A d \in DOMAIN offset' : offset'[d] \in {0} \cup Ids
    BY <2>1, <2>2, <2>3 DEF TypeOK
  <2>5. cursor' \in [Readers -> [Scopes -> {0} \cup Ids]]
    <3>1. cursor[r] \in [Scopes -> {0} \cup Ids]
      BY DEF TypeOK
    <3>2. [cursor[r] EXCEPT ![reader[r].devs] = IF r \in OwnReaders THEN Max(P) ELSE @]
            \in [Scopes -> {0} \cup Ids]
      BY <2>1, <2>2, <3>1
    <3> QED BY <2>3, <3>2 DEF TypeOK
  <2>6. handed' \in [Ids -> Nat]
    BY <2>3 DEF TypeOK
  <2>7. reader' \in [Readers -> ReaderState]
    BY <2>3 DEF TypeOK, ReaderState, Idle
  <2>8. waived' \subseteq Ids
    BY <2>3 DEF TypeOK, Skipped
  <2> QED BY <2>1, <2>3, <2>4, <2>5, <2>6, <2>7, <2>8 DEF TypeOK
<1>4. CASE Rollback(r)
  BY <1>4 DEF Rollback, TypeOK, intake, Idle, ReaderState
<1>5. CASE \E d \in Devices : Upsert(r, d)
  <2>1. PICK d \in Devices : Upsert(r, d)
    BY <1>5
  <2>2. [reader[r] EXCEPT !.todo = @ \ {d}, !.done = @ \cup {d}, !.locked = @ \cup {d}]
          \in ReaderState
    <3> DEFINE Form == [pc: {"upsert"}, devs: Scopes, after: {0} \cup Ids, locked: SUBSET Devices,
                        page: SUBSET Ids, todo: SUBSET Devices, done: SUBSET Devices]
    <3>1. reader[r] \in Form
      BY <2>1, ReaderForm DEF Upsert
    <3>2. ASSUME NEW x \in Form
          PROVE  [x EXCEPT !.todo = @ \ {d}, !.done = @ \cup {d}, !.locked = @ \cup {d}] \in Form
      OBVIOUS
    <3> QED BY <3>1, <3>2 DEF ReaderState
  <2>3. reader' = [reader EXCEPT ![r] =
          [reader[r] EXCEPT !.todo = @ \ {d}, !.done = @ \cup {d}, !.locked = @ \cup {d}]]
    BY <2>1 DEF Upsert, TypeOK
  <2> QED BY ZenonT(120), <2>1, <2>2, <2>3 DEF Upsert, TypeOK, intake
<1> QED BY <1>1, <1>2, <1>3, <1>4, <1>5 DEF Read

-----------------------------------------------------------------------------
(* The intake *)

\* A step that stores nothing and takes no id, and after which the handler is
\* no further than waiting for the row, having it, or done.
LEMMA IntakeQuiet ==
  ASSUME TypeOK, IntakeInv, NEW c \in Consumers, NEW new,
         consumer' = [consumer EXCEPT ![c] = new],
         new.pc \in {"idle", "insert"},
         UNCHANGED <<events, nextId, published, confirmed>>
  PROVE  IntakeInv'
<1>1. /\ consumer'[c] = new
      /\ \A b \in Consumers \ {c} : consumer'[b] = consumer[b]
  BY DEF TypeOK
<1>2. Serials'
  BY <1>1 DEF IntakeInv, Serials
<1>3. ASSUME NEW e \in Numbered PROVE OneRow(e)'
  <2>1. OneRow(e) /\ (Stored(e) <=> Stored(e)')
    BY DEF IntakeInv, Stored
  <2> QED BY <1>1, <2>1 DEF OneRow, Holds
<1> QED BY <1>2, <1>3 DEF IntakeInv

LEMMA IntakeInsert ==
  ASSUME TypeOK, IntakeInv, NEW c \in Consumers, Insert(c)
  PROVE  IntakeInv'
<1> DEFINE e == consumer[c].event
<1>1. /\ consumer[c].pc = "insert" /\ nextId <= MaxId /\ ~Blocked(e)
      /\ consumer' = [consumer EXCEPT ![c] =
            IF Stored(e) THEN [pc |-> "eva", event |-> e]
                         ELSE [pc |-> "commit", event |-> e, id |-> nextId]]
      /\ nextId' = nextId + 1 /\ UNCHANGED <<events, published, confirmed>>
  BY DEF Insert
<1>2. \A b \in Consumers \ {c} : consumer'[b] = consumer[b]
  BY <1>1 DEF TypeOK
<1> HIDE DEF e
<1>3. CASE Stored(e)
  <2>1. consumer'[c] = [pc |-> "eva", event |-> e]
    BY <1>1, <1>3 DEF TypeOK
  <2>2. Serials'
    <3>1. nextId \in Nat /\ \A id \in DOMAIN events : id \in Nat
      BY FeedAssumption DEF TypeOK, Ids
    <3>2. \A b \in Consumers : consumer[b].pc = "commit" => consumer[b].id \in Nat
      BY ConsumerForm DEF Ids
    <3> QED BY <1>1, <1>2, <2>1, <3>1, <3>2 DEF IntakeInv, Serials
  <2>3. ASSUME NEW f \in Numbered PROVE OneRow(f)'
    <3>1. OneRow(f) /\ (Stored(f) <=> Stored(f)')
      BY <1>1 DEF IntakeInv, Stored
    <3> QED BY <1>1, <1>2, <1>3, <2>1, <3>1 DEF OneRow, Holds
  <2> QED BY <2>2, <2>3 DEF IntakeInv
<1>4. CASE ~Stored(e)
  <2>1. consumer'[c] = [pc |-> "commit", event |-> e, id |-> nextId]
    BY <1>1, <1>4 DEF TypeOK
  <2>2. Serials'
    <3>1. nextId \in Nat /\ \A id \in DOMAIN events : id \in Nat
      BY FeedAssumption DEF TypeOK, Ids
    <3>2. \A b \in Consumers : consumer[b].pc = "commit" => consumer[b].id \in Nat
      BY ConsumerForm DEF Ids
    <3> QED BY <1>1, <1>2, <2>1, <3>1, <3>2 DEF IntakeInv, Serials
  <2>3. ASSUME NEW f \in Numbered PROVE OneRow(f)'
    <3>1. OneRow(f) /\ (Stored(f) <=> Stored(f)')
      BY <1>1 DEF IntakeInv, Stored
    <3>2. f = e => \A b \in Consumers : ~Holds(b, "commit", e)
      BY <1>1 DEF Blocked, Holds
    <3> QED BY <1>1, <1>2, <1>4, <2>1, <3>1, <3>2 DEF OneRow, Holds
  <2> QED BY <2>2, <2>3 DEF IntakeInv
<1> QED BY <1>3, <1>4

\* The rows that a commit leaves: the old ones as they were, and one more.
LEMMA CommitRows ==
  ASSUME TypeOK, Serials, NEW c \in Consumers, Commit(c)
  PROVE  LET id == consumer[c].id
         IN  /\ id \in Ids /\ id \notin DOMAIN events /\ consumer[c].event \in Events
             /\ DOMAIN events' = DOMAIN events \cup {id}
             /\ events'[id] = consumer[c].event
             /\ \A i \in DOMAIN events : events'[i] = events[i] /\ Device(i)' = Device(i)
             /\ consumer'[c] = [pc |-> "publish", event |-> consumer[c].event]
             /\ \A b \in Consumers \ {c} : consumer'[b] = consumer[b]
BY ConsumerForm DEF Commit, Serials, TypeOK, Device

LEMMA IntakeCommit ==
  ASSUME TypeOK, IntakeInv, NEW c \in Consumers, Commit(c)
  PROVE  IntakeInv'
<1> DEFINE e == consumer[c].event
           id == consumer[c].id
<1>0. Serials
  BY DEF IntakeInv
<1>1. /\ id \notin DOMAIN events
      /\ DOMAIN events' = DOMAIN events \cup {id} /\ events'[id] = e
      /\ \A i \in DOMAIN events : events'[i] = events[i]
      /\ consumer'[c] = [pc |-> "publish", event |-> e]
      /\ \A b \in Consumers \ {c} : consumer'[b] = consumer[b]
      /\ consumer[c].pc = "commit" /\ UNCHANGED <<nextId, published, confirmed>>
  BY <1>0, CommitRows DEF Commit
<1>2. Serials'
  BY <1>0, <1>1 DEF Serials
<1> HIDE DEF e, id
<1>3. ASSUME NEW f \in Numbered PROVE OneRow(f)'
  <2>1. OneRow(f) /\ (Stored(f)' <=> Stored(f) \/ f = e)
    BY <1>1 DEF IntakeInv, Stored
  <2>2. CASE f = e
    <3>1. Holds(c, "commit", f)
      BY <1>1, <2>2 DEF Holds, e
    <3>2. /\ ~Stored(f) /\ published[f] = 0
          /\ \A b \in Consumers : ~Holds(b, "publish", f) /\ ~Holds(b, "eva", f)
          /\ \A b \in Consumers : Holds(b, "commit", f) => b = c
      BY <2>1, <3>1 DEF OneRow
    <3>3. \A i, j \in DOMAIN events' : events'[i] = f /\ events'[j] = f => i = j
      BY <1>1, <3>2 DEF Stored
    <3> QED BY <1>1, <2>1, <2>2, <3>2, <3>3 DEF OneRow, Holds
  <2>3. CASE f # e
    <3>1. \A b \in Consumers, pc \in {"commit", "publish", "eva"} :
            Holds(b, pc, f)' => Holds(b, pc, f)
      BY <1>1, <2>3 DEF Holds
    <3> QED BY <1>1, <2>1, <2>3, <3>1 DEF OneRow
  <2> QED BY <2>2, <2>3
<1> QED BY <1>2, <1>3 DEF IntakeInv

LEMMA IntakePublish ==
  ASSUME TypeOK, IntakeInv, NEW c \in Consumers, Publish(c)
  PROVE  IntakeInv'
<1> DEFINE e == consumer[c].event
<1>1. /\ consumer[c].pc = "publish"
      /\ consumer'[c].pc = "eva" /\ consumer'[c].event = e
      /\ \A b \in Consumers \ {c} : consumer'[b] = consumer[b]
      /\ \A f \in Numbered : published'[f] = published[f] + IF f = e THEN 1 ELSE 0
      /\ UNCHANGED <<events, nextId, confirmed>>
  BY ConsumerForm DEF Publish, TypeOK
<1>2. Serials'
  BY <1>1 DEF IntakeInv, Serials
<1> HIDE DEF e
<1>3. ASSUME NEW f \in Numbered PROVE OneRow(f)'
  <2>1. OneRow(f) /\ (Stored(f) <=> Stored(f)')
    BY <1>1 DEF IntakeInv, Stored
  <2>2. CASE f = e
    <3>1. Holds(c, "publish", f)
      BY <1>1, <2>2 DEF Holds, e
    <3> QED BY <1>1, <2>1, <2>2, <3>1 DEF OneRow, Holds
  <2>3. CASE f # e
    <3>1. published'[f] = published[f]
      BY <1>1, <2>1, <2>3 DEF OneRow
    <3> QED BY <1>1, <2>1, <2>3, <3>1 DEF OneRow, Holds
  <2> QED BY <2>2, <2>3
<1> QED BY <1>2, <1>3 DEF IntakeInv

LEMMA IntakeEva ==
  ASSUME TypeOK, IntakeInv, NEW c \in Consumers, Eva(c)
  PROVE  IntakeInv'
<1> DEFINE e == consumer[c].event
<1>1. /\ consumer[c].pc = "eva" /\ consumer'[c].pc = "idle"
      /\ \A b \in Consumers \ {c} : consumer'[b] = consumer[b]
      /\ confirmed' = confirmed \cup ({e} \cap Numbered)
      /\ UNCHANGED <<events, nextId, published>>
  BY DEF Eva, TypeOK, Idle
<1>2. Serials'
  BY <1>1 DEF IntakeInv, Serials
<1> HIDE DEF e
<1>3. ASSUME NEW f \in Numbered PROVE OneRow(f)'
  <2>1. OneRow(f) /\ (Stored(f) <=> Stored(f)')
    BY <1>1 DEF IntakeInv, Stored
  <2>2. f = e => Stored(f)
    BY <1>1, <2>1 DEF OneRow, Holds, e
  <2> QED BY <1>1, <2>1, <2>2 DEF OneRow, Holds
<1> QED BY <1>2, <1>3 DEF IntakeInv

LEMMA IntakeStep ==
  ASSUME TypeOK, IntakeInv, NEW c \in Consumers, Consume(c)
  PROVE  IntakeInv'
<1>1. CASE \E e \in Events : Receive(c, e)
  BY <1>1, IntakeQuiet DEF Receive
<1>2. CASE Drop(c)
  BY <1>2, IntakeQuiet DEF Drop, Idle
<1> QED BY <1>1, <1>2, IntakeInsert, IntakeCommit, IntakePublish, IntakeEva DEF Consume

-----------------------------------------------------------------------------
(* The feed *)

LEMMA FeedFrame ==
  ASSUME FeedInv, UNCHANGED <<events, late, offset, reader, cursor, handed, seen, waived>>
  PROVE  FeedInv'
BY DEF FeedInv, Locks, Requests, Based, Moves, Fresh, Complete, Skipped, Handed, Cursors,
       NothingSkipped, Device

\* A step of one request that changes nothing but its own state.
LEMMA FeedRequest ==
  ASSUME TypeOK, FeedInv, NEW r \in Readers, NEW new,
         reader' = [reader EXCEPT ![r] = new],
         UNCHANGED <<events, late, offset, cursor, handed, seen, waived>>,
         new.pc # "idle" => \A q \in Readers \ {r} :
           reader[q].pc # "idle" => new.locked \cap reader[q].locked = {},
         new.pc = "query" => Based(r)',
         new.pc = "upsert" => Moves(r)' /\ Complete(r)' /\ (r \in SharedReaders => Fresh(r)')
  PROVE  FeedInv'
<1>1. reader'[r] = new /\ \A q \in Readers \ {r} : reader'[q] = reader[q]
  BY DEF TypeOK
<1>2. Known \subseteq DOMAIN offset' /\ Handed' /\ Cursors' /\ NothingSkipped'
  BY DEF FeedInv, Handed, Cursors, NothingSkipped, Device
<1>3. Locks'
  <2> SUFFICES ASSUME NEW q \in Readers, NEW p \in Readers, q # p,
                      reader'[q].pc # "idle", reader'[p].pc # "idle"
               PROVE  reader'[q].locked \cap reader'[p].locked = {}
    BY DEF Locks
  <2> QED BY <1>1 DEF FeedInv, Locks
<1>4. ASSUME NEW q \in Readers \ {r}
      PROVE  /\ reader'[q].pc = "query" => Based(q)'
             /\ reader'[q].pc = "upsert" => /\ Moves(q)' /\ Complete(q)'
                                            /\ q \in SharedReaders => Fresh(q)'
  <2>1. /\ Based(q)' = Based(q) /\ Moves(q)' = Moves(q)
        /\ Fresh(q)' = Fresh(q) /\ Complete(q)' = Complete(q)
    BY <1>1 DEF Based, Moves, Fresh, Complete, Skipped, Device
  <2> QED BY <1>1, <2>1 DEF FeedInv, Requests
<1>5. Requests'
  BY <1>1, <1>4 DEF Requests
<1> QED BY <1>2, <1>3, <1>5 DEF FeedInv

LEMMA FeedOpen ==
  ASSUME TypeOK, FeedInv, NEW r \in Readers, NEW D \in Scopes,
         NEW n \in {0} \cup Ids, Open(r, D, n)
  PROVE  FeedInv'
<1> DEFINE new == [pc |-> "query", devs |-> D, after |-> n, locked |-> ForUpdate(D),
                   base |-> [d \in Devices |-> IF d \in D THEN Saved(d) ELSE 0]]
<1>1. /\ reader' = [reader EXCEPT ![r] = new] /\ ForUpdate(D) \cap LockedByOthers(r) = {}
      /\ UNCHANGED <<events, late, offset, cursor, handed, seen, waived>>
  BY DEF Open, intake
<1>2. /\ new.pc = "query" /\ new.devs = D /\ new.locked = ForUpdate(D)
      /\ \A d \in Devices \cap D : new.base[d] = Saved(d)
  OBVIOUS
<1> HIDE DEF new
<1>3. \A q \in Readers \ {r} : reader[q].pc # "idle" => new.locked \cap reader[q].locked = {}
  BY <1>1, <1>2 DEF LockedByOthers
<1>4. D \subseteq Devices
  BY DEF Scopes
<1>5. reader'[r] = new
  BY <1>1 DEF TypeOK
<1>6. Based(r)'
  BY <1>1, <1>2, <1>4, <1>5 DEF Based, ForUpdate, Saved, FeedInv
<1> QED BY <1>1, <1>2, <1>3, <1>6, FeedRequest

LEMMA FeedQuery ==
  ASSUME TypeOK, FeedInv, NEW r \in Readers, Query(r)
  PROVE  FeedInv'
<1>0. /\ reader[r].pc = "query" /\ Based(r)
      /\ UNCHANGED <<events, late, offset, cursor, handed, seen, waived>>
  BY DEF Query, FeedInv, Requests, intake
<1>1. CASE reader' = [reader EXCEPT ![r] = Idle]
  BY <1>0, <1>1, FeedRequest DEF Idle
<1>2. ASSUME NEW P \in Pages(Matching(r)) \ {{}},
             reader' = [reader EXCEPT ![r] =
               [pc |-> "upsert", devs |-> reader[r].devs, after |-> reader[r].after,
                locked |-> reader[r].locked,
                page |-> P, todo |-> Ahead(r, P), done |-> {}]]
      PROVE  FeedInv'
  <2> DEFINE me == reader[r]
             new == [pc |-> "upsert", devs |-> me.devs, after |-> me.after, locked |-> me.locked,
                     page |-> P, todo |-> Ahead(r, P), done |-> {}]
  <2>1. reader'[r] = new
    BY <1>2 DEF TypeOK
  <2>2. /\ new.pc = "upsert" /\ new.devs = me.devs /\ new.after = me.after
        /\ new.locked = me.locked
        /\ new.page = P /\ new.todo = Ahead(r, P) /\ new.done = {}
    OBVIOUS
  <2>3. \A q \in Readers \ {r} : reader[q].pc # "idle" => new.locked \cap reader[q].locked = {}
    BY <1>0, <2>2 DEF FeedInv, Locks
  <2> HIDE DEF new
  <2>4. /\ P \subseteq Matching(r) /\ P \subseteq DOMAIN events /\ P # {}
        /\ \A i \in P : Device(i) \in me.devs
        /\ \A d \in Ahead(r, P) : (\E i \in P : Device(i) = d) /\ Last(P, d) > me.base[d]
    BY <1>0, PageType
  <2>5. P \subseteq Ids /\ \A i \in DOMAIN events : Device(i)' = Device(i)
    BY <1>0, <2>4 DEF TypeOK, Device
  <2>6. \A d \in Known \cap me.devs :
          d \in me.locked /\ d \in DOMAIN offset /\ me.base[d] = offset[d]
    BY <1>0 DEF Based
  <2>7. Moves(r)'
    <3>1. ASSUME NEW d \in Ahead(r, P)
          PROVE  \E i \in P : Device(i) = d /\ (d \in Known => d \in me.locked /\ i > offset[d])
      <4>1. PICK i \in P : Device(i) = d
        BY <2>4
      <4>2. Last(P, d) \in P /\ Device(Last(P, d)) = d
        BY <2>5, <4>1, LastOnPage
      <4> QED BY <2>4, <2>6, <4>2
    <3> QED BY <1>0, <2>1, <2>2, <2>4, <2>5, <3>1 DEF Moves
  <2>8. ASSUME r \in SharedReaders PROVE Fresh(r)'
    <3>1. ASSUME NEW i \in P, Device(i) \in Known
          PROVE  Device(i) \in Ahead(r, P) /\ i > offset[Device(i)]
      <4>1. r \notin OwnReaders
        BY <2>8, FeedAssumption
      <4>2. i > me.base[Device(i)]
        BY <2>4, <4>1 DEF Matching
      <4>3. i <= Last(P, Device(i)) /\ Last(P, Device(i)) \in P
        BY <2>5, LastOnPage
      <4>4. me.base[Device(i)] = offset[Device(i)] /\ offset[Device(i)] \in Nat
        BY <2>4, <2>6, <3>1 DEF TypeOK, Ids
      <4>5. Last(P, Device(i)) > me.base[Device(i)]
        <5>1. me.base[Device(i)] \in Nat
          BY <4>4
        <5> \A j \in Ids : j \in Nat
          BY FeedAssumption DEF Ids
        <5>2. i \in Nat /\ Last(P, Device(i)) \in Nat
          BY Zenon, <2>5, <4>3
        <5>3. \A x, y, z \in Nat : x > y /\ x <= z => z > y
          OBVIOUS
        <5> QED BY ZenonT(30), <4>2, <4>3, <5>1, <5>2, <5>3
      <4> QED BY <4>2, <4>4, <4>5 DEF Ahead
    <3> QED BY <1>0, <2>1, <2>2, <2>4, <2>5, <3>1 DEF Fresh
  <2>9. Complete(r)'
    <3>1. ASSUME NEW i \in P, NEW id \in DOMAIN events, id <= i, Device(id) \in me.devs,
                 r \in OwnReaders \/ Device(id) = Device(i)
          PROVE  id \in P \cup seen \cup late \cup waived \cup Skipped(r)
      <4>1. CASE id \in Matching(r)
        <5>1. \A j \in Matching(r) \ P : i < j
          BY DEF Pages
        <5> QED BY <2>5, <3>1, <4>1, <5>1, DeviceType DEF Ids
      <4>2. CASE id \notin Matching(r) /\ r \in OwnReaders
        <5>1. me.devs \in Scopes
          BY <1>0, ReaderForm
        <5>2. cursor[r][me.devs] \in Nat /\ id \in Nat
          BY SMTT(60), <5>1, DeviceType DEF TypeOK, Readers, Ids
        <5>3. me.after \in Nat
          BY <1>0, ReaderForm DEF Ids
        <5>4. id <= me.after
          BY <3>1, <4>2, <5>2, <5>3 DEF Matching
        <5>5. CASE id <= cursor[r][me.devs]
          BY <3>1, <4>2, <5>1, <5>5 DEF FeedInv, Cursors
        <5>6. CASE ~(id <= cursor[r][me.devs])
          BY <3>1, <5>2, <5>4, <5>6 DEF Skipped
        <5> QED BY <5>5, <5>6
      <4>3. CASE id \notin Matching(r) /\ r \notin OwnReaders
        <5>1. id \in Nat \ {0} /\ me.base[Device(id)] \in Nat
          BY <1>0, DeviceType, ReaderForm DEF Ids
        <5>2. id <= me.base[Device(id)]
          BY <3>1, <4>3, <5>1 DEF Matching
        <5>3. Device(id) \in DOMAIN offset /\ me.base[Device(id)] = offset[Device(id)]
          BY <1>0, <3>1, <5>1, <5>2 DEF Based
        <5> QED BY <5>2, <5>3 DEF FeedInv, NothingSkipped
      <4> QED BY <4>1, <4>2, <4>3
    <3>2. /\ reader'[r].page = P /\ reader'[r].devs = me.devs /\ reader'[r].after = me.after
          /\ seen' = seen /\ late' = late /\ waived' = waived
          /\ events' = events /\ cursor' = cursor
      BY <1>0, <2>1, <2>2
    <3>3. \A i \in P : Device(i)' = Device(i)
      BY <2>4, <2>5
    <3>4. Skipped(r)' = Skipped(r)
      BY <2>5, <3>2 DEF Skipped
    <3> QED BY <2>5, <3>1, <3>2, <3>3, <3>4 DEF Complete
  <2>10. reader' = [reader EXCEPT ![r] = new]
    BY <1>2 DEF new
  <2> QED BY <1>0, <2>2, <2>3, <2>7, <2>8, <2>9, <2>10, FeedRequest
<1> QED BY <1>1, <1>2 DEF Query

LEMMA FeedUpsert ==
  ASSUME TypeOK, FeedInv, NEW r \in Readers, NEW d \in Devices, Upsert(r, d)
  PROVE  FeedInv'
<1> DEFINE me == reader[r]
           new == [me EXCEPT !.todo = @ \ {d}, !.done = @ \cup {d}, !.locked = @ \cup {d}]
<1>0. /\ me.pc = "upsert" /\ d \in me.todo /\ d \notin LockedByOthers(r)
      /\ Moves(r) /\ Complete(r) /\ (r \in SharedReaders => Fresh(r))
      /\ UNCHANGED <<events, late, offset, cursor, handed, seen, waived>>
  BY DEF Upsert, FeedInv, Requests, intake
<1>1. reader' = [reader EXCEPT ![r] = new]
  BY DEF Upsert, TypeOK
<1>2. /\ new.pc = "upsert" /\ new.devs = me.devs /\ new.after = me.after
      /\ new.locked = me.locked \cup {d}
      /\ new.page = me.page /\ new.todo = me.todo \ {d} /\ new.done = me.done \cup {d}
  <2>1. me \in [pc: {"upsert"}, devs: Scopes, after: {0} \cup Ids, locked: SUBSET Devices,
                page: SUBSET Ids, todo: SUBSET Devices, done: SUBSET Devices]
    BY <1>0, ReaderForm
  <2> HIDE DEF me
  <2> QED BY <2>1
<1> HIDE DEF new
<1>3. reader'[r] = new
  BY <1>1 DEF TypeOK
<1>4. \A q \in Readers \ {r} : reader[q].pc # "idle" => new.locked \cap reader[q].locked = {}
  BY <1>0, <1>2 DEF FeedInv, Locks, LockedByOthers
<1>5. \A i \in DOMAIN events : Device(i)' = Device(i)
  BY <1>0 DEF Device
<1>6. Moves(r)'
  BY <1>0, <1>2, <1>3, <1>5 DEF Moves
<1>7. r \in SharedReaders => Fresh(r)'
  BY <1>0, <1>2, <1>3, <1>5 DEF Fresh, Moves
<1>8. Complete(r)'
  BY <1>0, <1>2, <1>3, <1>5 DEF Complete, Moves, Skipped
<1> QED BY <1>0, <1>1, <1>2, <1>4, <1>6, <1>7, <1>8, FeedRequest

\* An id that is committed after a reader has passed it is late.
LEMMA FeedCommit ==
  ASSUME TypeOK, Serials, FeedInv, NEW c \in Consumers, Commit(c)
  PROVE  FeedInv'
<1> DEFINE new == consumer[c].id
           d == Source[consumer[c].event]
<1>1. /\ new \in Ids /\ new \notin DOMAIN events /\ DOMAIN events' = DOMAIN events \cup {new}
      /\ events'[new] = consumer[c].event
      /\ \A i \in DOMAIN events : Device(i)' = Device(i)
  BY CommitRows
<1>0. \A id \in DOMAIN events' : id = new => Device(id)' = d
  BY <1>1 DEF Device
<1>2. /\ UNCHANGED <<offset, reader, cursor, handed, seen, waived>>
      /\ late \subseteq late' /\ (Passed(new, d) => new \in late')
  BY DEF Commit, feed
<1> HIDE DEF new, d
<1>3. Locks' /\ Known \subseteq DOMAIN offset'
  BY <1>2 DEF FeedInv, Locks
<1>4. ASSUME NEW r \in Readers, reader'[r].pc = "query" PROVE Based(r)'
  BY <1>2, <1>4 DEF FeedInv, Requests, Based
<1>5. ASSUME NEW r \in Readers, reader'[r].pc = "upsert"
      PROVE  Moves(r)' /\ Complete(r)' /\ (r \in SharedReaders => Fresh(r)')
  <2>1. /\ Moves(r) /\ Complete(r) /\ (r \in SharedReaders => Fresh(r))
        /\ reader[r].page \subseteq DOMAIN events
    BY <1>2, <1>5 DEF FeedInv, Requests, Moves
  <2>2. Moves(r)'
    BY <1>1, <1>2, <2>1 DEF Moves
  <2>3. ASSUME r \in SharedReaders PROVE Fresh(r)'
    BY <1>1, <1>2, <2>1, <2>3 DEF Fresh
  <2>4. ASSUME NEW i \in reader[r].page, NEW id \in DOMAIN events', id <= i,
               Device(id)' \in reader[r].devs, r \in OwnReaders \/ Device(id)' = Device(i)'
        PROVE  id \in reader[r].page \cup seen \cup late' \cup waived \cup Skipped(r)
    <3>1. CASE id \in DOMAIN events
      BY <1>1, <1>2, <2>1, <2>4, <3>1 DEF Complete
    <3>2. CASE id = new
      <4>1. new < i
        BY <1>1, <2>1, <2>4, <3>2, DeviceType DEF Ids
      <4>2. Passed(new, d)
        <5>1. Device(id)' = d
          BY <1>0, <3>2
        <5>2. /\ reader[r].pc = "upsert" /\ d \in reader[r].devs /\ i \in reader[r].page
              /\ r \in OwnReaders \/ Device(i) = d
          BY <1>1, <1>2, <1>5, <2>1, <2>4, <5>1
        <5> QED BY <4>1, <5>2 DEF Passed
      <4> QED BY <1>2, <3>2, <4>2
    <3> QED BY <1>1, <3>1, <3>2
  <2>5. Skipped(r) \subseteq Skipped(r)'
    BY <1>1, <1>2 DEF Skipped
  <2>6. Complete(r)'
    BY <1>2, <2>4, <2>5 DEF Complete
  <2> QED BY <2>2, <2>3, <2>6
<1>6. Requests'
  BY <1>4, <1>5 DEF Requests
<1>7. Handed'
  BY <1>1, <1>2 DEF FeedInv, Handed
<1>8. Cursors'
  <2> SUFFICES ASSUME NEW r \in OwnReaders, NEW D \in Scopes, NEW id \in DOMAIN events',
                      Device(id)' \in D, id <= cursor[r][D]
               PROVE  id \in seen \cup late' \cup waived
    BY <1>2 DEF Cursors
  <2>1. CASE id \in DOMAIN events
    BY <1>1, <1>2, <2>1 DEF FeedInv, Cursors
  <2>2. CASE id = new
    <3>1. Device(id)' = d
      BY <1>0, <2>2
    <3> QED BY <1>2, <2>2, <3>1 DEF Passed
  <2> QED BY <1>1, <2>1, <2>2
<1>9. NothingSkipped'
  <2> SUFFICES ASSUME NEW id \in DOMAIN events', Device(id)' \in DOMAIN offset,
                      id <= offset[Device(id)']
               PROVE  id \in seen \cup late' \cup waived
    BY <1>2 DEF NothingSkipped
  <2>1. CASE id \in DOMAIN events
    BY <1>1, <1>2, <2>1 DEF FeedInv, NothingSkipped
  <2>2. CASE id = new
    <3>1. Device(id)' = d
      BY <1>0, <2>2
    <3> QED BY <1>2, <2>2, <3>1 DEF Passed
  <2> QED BY <1>1, <2>1, <2>2
<1> QED BY <1>3, <1>6, <1>7, <1>8, <1>9 DEF FeedInv

\* What a request writes when it ends: the offsets of known devices move forward.
LEMMA ReturnOffsets ==
  ASSUME TypeOK, FeedInv, NEW r \in Readers, Return(r)
  PROVE  /\ DOMAIN offset' = DOMAIN offset \cup reader[r].done
         /\ \A d \in DOMAIN offset \ reader[r].done : offset'[d] = offset[d]
         /\ \A d \in reader[r].done :
              /\ offset'[d] \in reader[r].page /\ Device(offset'[d]) = d
              /\ \A i \in reader[r].page : Device(i) = d => i <= offset'[d]
         /\ \A d \in Known : d \in DOMAIN offset' /\ offset'[d] >= offset[d]
<1> DEFINE P == reader[r].page
<1>0. /\ reader[r].pc = "upsert" /\ Moves(r) /\ reader[r].todo = {}
      /\ offset' = [d \in DOMAIN offset \cup reader[r].done |->
                      IF d \in reader[r].done THEN Last(P, d) ELSE offset[d]]
  BY DEF Return, FeedInv, Requests
<1>1. P \subseteq Ids
  BY <1>0, ReaderForm
<1>2. ASSUME NEW d \in reader[r].done
      PROVE  /\ offset'[d] \in P /\ Device(offset'[d]) = d
             /\ \A i \in P : Device(i) = d => i <= offset'[d]
             /\ d \in Known => offset'[d] >= offset[d]
  <2>1. PICK i \in P : Device(i) = d /\ (d \in Known => i > offset[d])
    BY <1>0 DEF Moves
  <2>2. /\ Last(P, d) \in P /\ Device(Last(P, d)) = d
        /\ \A j \in P : Device(j) = d => j <= Last(P, d)
    BY <1>1, <2>1, LastOnPage
  <2>3. offset'[d] = Last(P, d)
    BY <1>0
  <2>4. d \in Known => offset[d] \in Nat
    BY DEF FeedInv, TypeOK, Ids
  <2>5. i \in Nat /\ offset'[d] \in Nat /\ i <= offset'[d]
    BY <1>1, <2>1, <2>2, <2>3 DEF Ids
  <2> QED BY <2>1, <2>2, <2>3, <2>4, <2>5
<1>3. ASSUME NEW d \in Known PROVE d \in DOMAIN offset' /\ offset'[d] >= offset[d]
  <2>1. d \in DOMAIN offset /\ offset[d] \in Nat
    BY DEF FeedInv, TypeOK, Ids
  <2> QED BY SMTT(60), <1>0, <1>2, <2>1
<1> QED BY <1>0, <1>2, <1>3

LEMMA FeedReturn ==
  ASSUME TypeOK, FeedInv, NEW r \in Readers, Return(r)
  PROVE  FeedInv'
<1> DEFINE P == reader[r].page
           me == reader[r]
<1>0. /\ me.pc = "upsert" /\ me.todo = {}
      /\ cursor' = [cursor EXCEPT ![r][me.devs] = IF r \in OwnReaders THEN Max(P) ELSE @]
      /\ handed' = [id \in Ids |-> IF r \in SharedReaders /\ id \in P
                                    THEN handed[id] + 1 ELSE handed[id]]
      /\ seen' = seen \cup P /\ waived' = waived \cup Skipped(r) /\ reader' = [reader EXCEPT ![r] = Idle]
      /\ UNCHANGED <<events, late>>
  BY DEF Return, intake
<1>1. /\ Moves(r) /\ Complete(r) /\ (r \in SharedReaders => Fresh(r))
      /\ P # {} /\ P \subseteq DOMAIN events /\ me.done \subseteq me.locked
  BY <1>0 DEF FeedInv, Requests, Moves
<1>2. P \subseteq Ids /\ me.devs \in Scopes
  BY <1>0, ReaderForm
<1>3. /\ DOMAIN offset' = DOMAIN offset \cup me.done
      /\ \A d \in DOMAIN offset \ me.done : offset'[d] = offset[d]
      /\ \A d \in me.done :
           /\ offset'[d] \in P /\ Device(offset'[d]) = d
           /\ \A i \in P : Device(i) = d => i <= offset'[d]
      /\ \A d \in Known : d \in DOMAIN offset' /\ offset'[d] >= offset[d]
  BY ReturnOffsets
<1>4. /\ reader'[r].pc = "idle"
      /\ \A q \in Readers \ {r} : reader'[q] = reader[q]
  BY <1>0 DEF TypeOK, Idle
<1>5. \A i \in DOMAIN events' : i \in DOMAIN events /\ Device(i)' = Device(i)
  BY <1>0 DEF Device
<1> HIDE DEF P, me
<1>6. Known \subseteq DOMAIN offset'
  BY <1>3
<1>7. Locks'
  <2> SUFFICES ASSUME NEW q \in Readers, NEW p \in Readers, q # p,
                      reader'[q].pc # "idle", reader'[p].pc # "idle"
               PROVE  reader'[q].locked \cap reader'[p].locked = {}
    BY DEF Locks
  <2> QED BY <1>4 DEF FeedInv, Locks
<1>8. ASSUME NEW q \in Readers \ {r}, reader[q].pc # "idle"
      PROVE  \A d \in reader[q].locked :
               d \notin me.done /\ (d \in DOMAIN offset => offset'[d] = offset[d])
  BY <1>0, <1>1, <1>3, <1>8 DEF FeedInv, Locks, me
<1>9. ASSUME NEW q \in Readers \ {r}
      PROVE  /\ reader'[q].pc = "query" => Based(q)'
             /\ reader'[q].pc = "upsert" => /\ Moves(q)' /\ Complete(q)'
                                            /\ q \in SharedReaders => Fresh(q)'
  <2>1. ASSUME reader[q].pc = "query" PROVE Based(q)'
    <3>1. Based(q)
      BY <2>1 DEF FeedInv, Requests
    <3> QED BY <1>3, <1>4, <1>8, <2>1, <3>1 DEF Based
  <2>2. ASSUME reader[q].pc = "upsert"
        PROVE  Moves(q)' /\ Complete(q)' /\ (q \in SharedReaders => Fresh(q)')
    <3>1. /\ Moves(q) /\ Complete(q) /\ (q \in SharedReaders => Fresh(q))
          /\ reader[q].page \subseteq DOMAIN events
      BY <2>2 DEF FeedInv, Requests, Moves
    <3>2. \A d \in Known : d \in reader[q].locked => offset'[d] = offset[d]
      BY <1>8, <2>2 DEF FeedInv
    <3>3. \A i \in reader[q].page : Device(i)' = Device(i)
      BY <1>0, <3>1, <1>5
    <3>4. Moves(q)'
      BY <1>0, <1>4, <3>1, <3>2, <3>3 DEF Moves
    <3>7. cursor'[q] = cursor[q]
      BY <1>0 DEF TypeOK
    <3>8. Skipped(q)' = Skipped(q)
      BY <1>0, <1>4, <1>5, <3>7 DEF Skipped
    <3>5. Complete(q)'
      BY <1>0, <1>4, <1>5, <3>1, <3>3, <3>8 DEF Complete
    <3>6. ASSUME q \in SharedReaders PROVE Fresh(q)'
      <4>1. \A d \in Known \cap (reader[q].todo \cup reader[q].done) : d \in reader[q].locked
        BY <3>1 DEF Moves
      <4> QED BY <1>4, <3>1, <3>2, <3>3, <3>6, <4>1 DEF Fresh
    <3> QED BY <3>4, <3>5, <3>6
  <2> QED BY <1>4, <2>1, <2>2
<1>10. Requests'
  BY <1>4, <1>9 DEF Requests
<1>11. Handed'
  <2> SUFFICES ASSUME NEW id \in Ids, handed'[id] > 0
               PROVE  /\ id \in DOMAIN events
                      /\ Device(id) \in Known => handed'[id] = 1 /\ id <= offset'[Device(id)]
    BY <1>0, <1>5 DEF Handed
  <2>1. CASE r \in SharedReaders /\ id \in P
    <3>1. id \in DOMAIN events /\ handed'[id] = handed[id] + 1 /\ handed[id] \in Nat
      BY <1>0, <1>1, <2>1 DEF TypeOK
    <3>2. ASSUME Device(id) \in Known PROVE handed[id] = 0 /\ id <= offset'[Device(id)]
      <4>1. Device(id) \in me.done /\ id > offset[Device(id)] /\ offset[Device(id)] \in Nat
        BY <1>0, <1>1, <2>1, <3>2 DEF Fresh, me, P, FeedInv, TypeOK, Ids
      <4>2. ~(id <= offset[Device(id)]) /\ id <= offset'[Device(id)]
        BY <1>3, <2>1, <4>1 DEF Ids
      <4> QED BY <3>1, <3>2, <4>2 DEF FeedInv, Handed
    <3> QED BY <3>1, <3>2
  <2>2. CASE ~(r \in SharedReaders /\ id \in P)
    <3>1. handed'[id] = handed[id]
      BY <1>0, <2>2
    <3>2. /\ id \in DOMAIN events
          /\ Device(id) \in Known => handed[id] = 1 /\ id <= offset[Device(id)]
      BY <3>1 DEF FeedInv, Handed
    <3>3. ASSUME Device(id) \in Known PROVE id <= offset'[Device(id)]
      <4> DEFINE old == offset[Device(id)]
                 new == offset'[Device(id)]
      <4>1. old \in Nat /\ new >= old /\ id <= old
        BY <1>3, <3>2, <3>3 DEF FeedInv, TypeOK, Ids
      <4>2. new \in Nat
        <5>1. CASE Device(id) \in me.done
          <6>1. offset'[Device(id)] \in P
            BY <1>3, <5>1
          <6>2. new \in Ids
            BY <1>2, <6>1
          <6> QED BY <6>2 DEF Ids
        <5>2. CASE Device(id) \notin me.done
          BY <1>3, <3>3, <4>1, <5>2 DEF FeedInv
        <5> QED BY <5>1, <5>2
      <4> HIDE DEF old, new
      <4>3. id <= new
        BY <4>1, <4>2 DEF Ids
      <4> QED BY <4>3 DEF new
    <3> QED BY <3>1, <3>2, <3>3
  <2> QED BY <2>1, <2>2
<1>12. Cursors'
  <2> SUFFICES ASSUME NEW q \in OwnReaders, NEW D \in Scopes, NEW id \in DOMAIN events,
                      Device(id) \in D, id <= cursor'[q][D]
               PROVE  id \in seen' \cup late \cup waived'
    BY <1>0, <1>5 DEF Cursors
  <2>1. CASE q = r /\ D = me.devs
    <3>1. cursor'[q][D] = Max(P)
      BY <1>0, <1>2, <2>1 DEF TypeOK, Readers
    <3>2. Max(P) \in P
      BY <1>1, <1>2, MaxOfIds
    <3>3. id \in P \cup seen \cup late \cup waived \cup Skipped(r)
      BY <1>1, <2>1, <3>1, <3>2 DEF Complete, me, P
    <3> QED BY <1>0, <3>3
  <2>2. CASE ~(q = r /\ D = me.devs)
    <3>1. cursor'[q][D] = cursor[q][D]
      BY <1>0, <2>2 DEF TypeOK, Readers
    <3> QED BY <1>0, <3>1 DEF FeedInv, Cursors
  <2> QED BY <2>1, <2>2
<1>13. NothingSkipped'
  <2> SUFFICES ASSUME NEW id \in DOMAIN events, Device(id) \in DOMAIN offset',
                      id <= offset'[Device(id)]
               PROVE  id \in seen' \cup late \cup waived'
    BY <1>0, <1>5 DEF NothingSkipped
  <2>1. CASE Device(id) \in me.done
    <3> DEFINE i == offset'[Device(id)]
    <3>1. i \in P /\ Device(i) = Device(id) /\ Device(i) \in me.devs
      BY <1>1, <1>3, <2>1 DEF Moves, me, P
    <3> HIDE DEF i
    <3>2. id \in P \cup seen \cup late \cup waived \cup Skipped(r)
      BY <1>1, <3>1 DEF Complete, me, P, i
    <3> QED BY <1>0, <3>2
  <2>2. CASE Device(id) \notin me.done
    BY <1>0, <1>3, <2>2 DEF FeedInv, NothingSkipped
  <2> QED BY <2>1, <2>2
<1> QED BY <1>6, <1>7, <1>10, <1>11, <1>12, <1>13 DEF FeedInv

LEMMA FeedStep ==
  ASSUME TypeOK, FeedInv, NEW r \in Readers, Read(r)
  PROVE  FeedInv'
<1>1. CASE Rollback(r)
  <2>1. /\ reader' = [reader EXCEPT ![r] = Idle]
        /\ UNCHANGED <<events, late, offset, cursor, handed, seen, waived>>
    BY <1>1 DEF Rollback, intake
  <2> QED BY <2>1, FeedRequest DEF Idle
<1> QED BY <1>1, FeedOpen, FeedQuery, FeedUpsert, FeedReturn DEF Read, LastIds

-----------------------------------------------------------------------------
(* Theorems *)

LEMMA Invariance == Spec => []IndInv
<1>1. Init => IndInv
  <2> SUFFICES ASSUME Init PROVE IndInv
    OBVIOUS
  <2>1. TypeOK
    BY FeedAssumption DEF Init, TypeOK, Idle, ConsumerState, ReaderState, Readers, Ids
  <2>2. IntakeInv
    BY DEF Init, IntakeInv, Serials, OneRow, Holds, Stored, Idle
  <2>3. FeedInv
    BY FeedAssumption DEF Init, FeedInv, Locks, Requests, Handed, Cursors, NothingSkipped, Idle,
       Readers, Ids
  <2> QED BY <2>1, <2>2, <2>3 DEF IndInv
<1>2. IndInv /\ [Next]_vars => IndInv'
  <2> SUFFICES ASSUME IndInv, [Next]_vars PROVE IndInv'
    OBVIOUS
  <2> USE DEF IndInv
  <2>1. ASSUME NEW c \in Consumers, Consume(c) PROVE IndInv'
    <3>1. TypeOK' /\ IntakeInv'
      BY <2>1, TypeIntake, IntakeStep
    <3>2. CASE Commit(c)
      BY <3>1, <3>2, FeedCommit DEF IntakeInv
    <3>3. CASE ~Commit(c)
      <4>1. UNCHANGED <<events, late, offset, reader, cursor, handed, seen, waived>>
        BY <2>1, <3>3 DEF Consume, Receive, Insert, Publish, Eva, Drop, feed
      <4> QED BY <3>1, <4>1, FeedFrame
    <3> QED BY <3>2, <3>3
  <2>2. ASSUME NEW r \in Readers, Read(r) PROVE IndInv'
    <3>1. TypeOK'
      BY SMTT(60), <2>2, TypeFeed DEF FeedInv
    <3>2. UNCHANGED <<events, nextId, consumer, published, confirmed>>
      BY <2>2 DEF Read, Open, Query, Upsert, Return, Rollback, intake
    <3>3. IntakeInv'
      BY <3>2 DEF IntakeInv, Serials, OneRow, Holds, Stored
    <3> QED BY <2>2, <3>1, <3>3, FeedStep
  <2>3. CASE UNCHANGED vars
    <3>1. TypeOK' /\ IntakeInv'
      BY <2>3 DEF vars, intake, feed, TypeOK, IntakeInv, Serials, OneRow, Holds, Stored
    <3> QED BY <2>3, <3>1, FeedFrame DEF vars, intake, feed
  <2> QED BY <2>1, <2>2, <2>3 DEF Next
<1> QED BY <1>1, <1>2, PTL DEF Spec

\* Rows, handlers and requests have their types.
THEOREM TypeCorrect == Spec => []TypeOK
BY Invariance, PTL DEF IndInv

\* However often a numbered event is delivered, and by however many handlers at
\* once, it is stored once, publishes one webhook message at most, and is
\* confirmed to the device only when it is stored.
THEOREM EventStoredOnce == Spec => []StoredOnce
<1>1. IndInv => StoredOnce
  BY DEF IndInv, IntakeInv, OneRow, StoredOnce, Stored
<1> QED BY <1>1, Invariance, PTL

\* Requests without last_event_id divide the events of a device that has its
\* offset row: none is given to two of them.
THEOREM EventHandedOnce == Spec => []HandedOnce
<1>1. IndInv => HandedOnce
  <2> SUFFICES ASSUME IndInv, NEW id \in DOMAIN events, Device(id) \in Known
               PROVE  handed[id] <= 1
    BY DEF HandedOnce
  <2>1. id \in Ids /\ handed[id] \in Nat
    BY DEF IndInv, TypeOK
  <2> QED BY <2>1 DEF IndInv, FeedInv, Handed
<1> QED BY <1>1, Invariance, PTL

\* What lies below an offset was given to somebody, was committed after a reader
\* had passed its id, or was skipped by a client that named an id it had not been
\* given; whatever last_event_id the clients send.
THEOREM OffsetSkipsNothing == Spec => []NothingSkipped
BY Invariance, PTL DEF IndInv, FeedInv

\* The offset of a device that has its row never moves back.
THEOREM OffsetMovesForward == Spec => OffsetNeverBack
<1> DEFINE Forward == \A d \in Known : d \in DOMAIN offset' /\ offset'[d] >= offset[d]
<1>1. IndInv /\ [Next]_vars => [Forward]_vars
  <2> SUFFICES ASSUME IndInv, Next PROVE Forward
    OBVIOUS
  <2>1. ASSUME NEW r \in Readers, Return(r) PROVE Forward
    BY <2>1, ReturnOffsets DEF IndInv
  <2>2. ASSUME offset' = offset PROVE Forward
    <3>1. \A d \in Known : d \in DOMAIN offset /\ offset[d] \in Nat
      BY DEF IndInv, FeedInv, TypeOK, Ids
    <3> QED BY <2>2, <3>1
  <2>3. offset' = offset \/ \E r \in Readers : Return(r)
    BY DEF Next, Consume, Receive, Insert, Commit, Publish, Eva, Drop, feed,
           Read, Open, Query, Upsert, Rollback
  <2> QED BY <2>1, <2>2, <2>3
<1> QED BY <1>1, Invariance, PTL DEF Spec, OffsetNeverBack
=============================================================================
