----------------------------- MODULE EventFeed -----------------------------
(***************************************************************************)
(* Device events: how an EVT message becomes a row of tb_dev_events, a     *)
(* webhook message and an EVA answer, and how the rows are read back       *)
(* through get_incremental_events with its offsets in                      *)
(* tb_device_event_offsets.                                                *)
(*                                                                         *)
(* PostgreSQL runs at READ COMMITTED: a statement sees what is committed   *)
(* when it starts, a serial id is taken at the INSERT and becomes visible  *)
(* with the commit, and a row lock is held until the transaction ends.     *)
(***************************************************************************)
EXTENDS Integers, FiniteSets

CONSTANTS
  Devices,
  Events,      \* logical events: (device_id, dev_event_id, dev_timestamp)
  Source,      \* the device of each event
  Numbered,    \* the events with dev_event_id # 0: only these are deduplicated
  Known,       \* the devices that have an offset row from the start: ids are
               \* counted from it
  Consumers,   \* handlers of EVT messages
  SharedReaders, OwnReaders,  \* requests without and with last_event_id
  Limit,       \* the greatest page size a request may ask for
  MaxId        \* bound of the serial of tb_dev_events

Readers == SharedReaders \cup OwnReaders
Scopes  == {Devices} \cup {{d} : d \in Devices}  \* all devices, or device_id

ASSUME FeedAssumption ==
  /\ Source \in [Events -> Devices]
  /\ Numbered \subseteq Events /\ Known \subseteq Devices
  /\ SharedReaders \cap OwnReaders = {}
  /\ Limit \in Nat \ {0} /\ MaxId \in Nat

VARIABLES
  events,     \* committed rows: a function from ids to logical events
  nextId,     \* the serial
  consumer,   \* where each EVT handler is
  published,  \* how many webhook messages each numbered event has caused
  confirmed,  \* the numbered events a device was told to be stored (EVA)
  offset,     \* committed rows of tb_device_event_offsets
  reader,     \* where each request is
  cursor,     \* the greatest id a reader was given, for each scope it asks for
  handed,     \* how often each id was given to a reader of the shared offset
  seen,       \* the ids that any reader has been given
  waived,     \* the ids a reader skipped by a last_event_id beyond its cursor
  late        \* ids committed when a reader had already passed them

intake == <<events, nextId, consumer, published, confirmed, late>>
feed   == <<offset, reader, cursor, handed, seen, waived>>
vars   == <<intake, feed>>

Ids  == 1..MaxId
Idle == [pc |-> "idle"]

ConsumerState ==
  [pc: {"idle"}]
    \cup [pc: {"insert", "publish", "eva"}, event: Events]
    \cup [pc: {"commit"}, event: Events, id: Ids]

ReaderState ==
  [pc: {"idle"}]
    \cup [pc: {"query"}, devs: Scopes, after: {0} \cup Ids, locked: SUBSET Devices,
          base: [Devices -> {0} \cup Ids]]
    \cup [pc: {"upsert"}, devs: Scopes, after: {0} \cup Ids, locked: SUBSET Devices,
          page: SUBSET Ids, todo: SUBSET Devices, done: SUBSET Devices]

\* func.max(DevEvent.id)
Max(S) == CHOOSE x \in S : \A y \in S : x >= y
Device(id) == Source[events[id]]

-----------------------------------------------------------------------------
(* DeviceEventsCollect.add and EventRepository.add_event *)

\* The message may be new, redelivered by the broker or repeated by the device.
Receive(c, e) ==
  /\ consumer[c].pc = "idle"
  /\ consumer' = [consumer EXCEPT ![c] = [pc |-> "insert", event |-> e]]
  /\ UNCHANGED <<events, nextId, published, confirmed, late, feed>>

\* Mutant: the unique index is missing.
StoredNever(e) == FALSE

\* The unique index knows the event.
Stored(e) == e \in Numbered /\ \E id \in DOMAIN events : events[id] = e

\* An INSERT of the same key waits for the transaction that made the first one.
Blocked(e) == e \in Numbered /\ \E c \in Consumers :
                 consumer[c].pc = "commit" /\ consumer[c].event = e

\* A new event, or a conflict; the serial is used up in both cases.
Insert(c) ==
  /\ consumer[c].pc = "insert" /\ nextId <= MaxId
  /\ LET e == consumer[c].event
     IN  /\ ~Blocked(e)
         /\ consumer' = [consumer EXCEPT ![c] =
              IF Stored(e) THEN [pc |-> "eva", event |-> e]
                           ELSE [pc |-> "commit", event |-> e, id |-> nextId]]
  /\ nextId' = nextId + 1
  /\ UNCHANGED <<events, published, confirmed, late, feed>>

\* A reader has passed an id of device d when a page, a cursor or an offset
\* beyond it exists.
Passed(id, d) ==
  \/ d \in DOMAIN offset /\ id <= offset[d]
  \/ \E r \in OwnReaders, D \in Scopes : d \in D /\ id <= cursor[r][D]
  \/ \E r \in Readers :
       /\ reader[r].pc = "upsert" /\ d \in reader[r].devs
       /\ \E i \in reader[r].page : id < i /\ (r \in OwnReaders \/ Device(i) = d)

Commit(c) ==
  /\ consumer[c].pc = "commit"
  /\ LET e  == consumer[c].event
         id == consumer[c].id
     IN  /\ events' = [i \in DOMAIN events \cup {id} |->
                         IF i = id THEN e ELSE events[i]]
         /\ late' = IF Passed(id, Source[e]) THEN late \cup {id} ELSE late
         /\ consumer' = [consumer EXCEPT ![c] = [pc |-> "publish", event |-> e]]
  /\ UNCHANGED <<nextId, published, confirmed, feed>>

Publish(c) ==
  /\ consumer[c].pc = "publish"
  /\ published' = [e \in Numbered |-> published[e] +
                     IF e = consumer[c].event THEN 1 ELSE 0]
  /\ consumer' = [consumer EXCEPT ![c].pc = "eva"]
  /\ UNCHANGED <<events, nextId, confirmed, late, feed>>

\* EVA(success) goes out for new events and for duplicates.
Eva(c) ==
  /\ consumer[c].pc = "eva"
  /\ confirmed' = confirmed \cup ({consumer[c].event} \cap Numbered)
  /\ consumer' = [consumer EXCEPT ![c] = Idle]
  /\ UNCHANGED <<events, nextId, published, late, feed>>

\* An exception (EVA(error), or none) or the death of the worker.
Drop(c) ==
  /\ consumer[c].pc # "idle"
  /\ consumer' = [consumer EXCEPT ![c] = Idle]
  /\ UNCHANGED <<events, nextId, published, confirmed, late, feed>>

-----------------------------------------------------------------------------
(* get_incremental_events *)

LockedByOthers(r) ==
  UNION {reader[q].locked : q \in {p \in Readers \ {r} : reader[p].pc # "idle"}}

Saved(d) == IF d \in DOMAIN offset THEN offset[d] ELSE 0

\* Mutant: the offsets are read without FOR UPDATE.
ForUpdateNone(D) == {}

\* Only rows that exist can be locked.
ForUpdate(D) == D \cap DOMAIN offset

\* What a client may send as last_event_id.  From MaxId on there is nothing to find.
LastIds == {0} \cup (Ids \ {MaxId})

\* SELECT ... FOR UPDATE of the offset rows; it waits for other readers.  The
\* last_event_id is whatever the client sends, given to it or not.
Open(r, D, after) ==
  /\ reader[r].pc = "idle"
  /\ r \in SharedReaders => after = 0
  /\ ForUpdate(D) \cap LockedByOthers(r) = {}
  /\ reader' = [reader EXCEPT ![r] =
       [pc |-> "query", devs |-> D, after |-> after, locked |-> ForUpdate(D),
        base |-> [d \in Devices |-> IF d \in D THEN Saved(d) ELSE 0]]]
  /\ UNCHANGED <<intake, offset, cursor, handed, seen, waived>>

\* id > last_event_id, or id > the offset of its own device
Matching(r) ==
  {id \in DOMAIN events :
     /\ Device(id) \in reader[r].devs
     /\ id > IF r \in OwnReaders THEN reader[r].after ELSE reader[r].base[Device(id)]}

\* Mutant: the page is taken in no particular order.
AnyPage(S) == {P \in SUBSET S : Cardinality(P) <= Limit}

\* ORDER BY id LIMIT limit, where each request names its own limit.
Pages(S) ==
  {P \in SUBSET S : (\A i \in P, j \in S \ P : i < j) /\ Cardinality(P) <= Limit}

Last(P, d) == Max({id \in P : Device(id) = d})

\* The devices of the page whose offset the page moves.
Ahead(r, P) ==
  {d \in {Device(id) : id \in P} : Last(P, d) > reader[r].base[d]}

\* An empty page ends the request, and the transaction with it.
Query(r) ==
  /\ reader[r].pc = "query"
  /\ \/ /\ Matching(r) = {}
        /\ reader' = [reader EXCEPT ![r] = Idle]
     \/ \E P \in Pages(Matching(r)) \ {{}} :
          reader' = [reader EXCEPT ![r] =
            [pc |-> "upsert", devs |-> reader[r].devs, after |-> reader[r].after,
             locked |-> reader[r].locked, page |-> P,
             todo |-> Ahead(r, P), done |-> {}]]
  /\ UNCHANGED <<intake, offset, cursor, handed, seen, waived>>

\* INSERT ... ON CONFLICT DO UPDATE SET last_event_id = max_id
Upsert(r, d) ==
  /\ reader[r].pc = "upsert" /\ d \in reader[r].todo
  /\ d \notin LockedByOthers(r)
  /\ reader' = [reader EXCEPT ![r].todo = @ \ {d}, ![r].done = @ \cup {d},
                              ![r].locked = @ \cup {d}]
  /\ UNCHANGED <<intake, offset, cursor, handed, seen, waived>>

\* What a request passes over because its client named an id that it had not been
\* given; nothing when the client names the last id of an earlier page.
Skipped(r) ==
  {id \in DOMAIN events : /\ Device(id) \in reader[r].devs
                          /\ cursor[r][reader[r].devs] < id /\ id <= reader[r].after}

\* The offsets become visible and the page is returned.
Return(r) ==
  /\ reader[r].pc = "upsert" /\ reader[r].todo = {}
  /\ LET P == reader[r].page
     IN  /\ offset' = [d \in DOMAIN offset \cup reader[r].done |->
                         IF d \in reader[r].done THEN Last(P, d) ELSE offset[d]]
         /\ cursor' = [cursor EXCEPT ![r][reader[r].devs] =
                         IF r \in OwnReaders THEN Max(P) ELSE @]
         /\ handed' = [id \in Ids |-> IF r \in SharedReaders /\ id \in P
                                      THEN handed[id] + 1 ELSE handed[id]]
         /\ seen' = seen \cup P
         /\ waived' = waived \cup Skipped(r)
  /\ reader' = [reader EXCEPT ![r] = Idle]
  /\ UNCHANGED intake

\* An error (a deadlock between two upserts is one), or a lost client.
Rollback(r) ==
  /\ reader[r].pc # "idle"
  /\ reader' = [reader EXCEPT ![r] = Idle]
  /\ UNCHANGED <<intake, offset, cursor, handed, seen, waived>>

-----------------------------------------------------------------------------

Init ==
  /\ events = [i \in {} |-> {}] /\ nextId = 1
  /\ consumer = [c \in Consumers |-> Idle]
  /\ published = [e \in Numbered |-> 0] /\ confirmed = {} /\ late = {}
  /\ offset = [d \in Known |-> 0]
  /\ reader = [r \in Readers |-> Idle]
  /\ cursor = [r \in Readers |-> [D \in Scopes |-> 0]]
  /\ handed = [id \in Ids |-> 0] /\ seen = {} /\ waived = {}

Consume(c) ==
  \/ \E e \in Events : Receive(c, e)
  \/ Insert(c) \/ Commit(c) \/ Publish(c) \/ Eva(c) \/ Drop(c)

Read(r) ==
  \/ \E D \in Scopes, after \in LastIds : Open(r, D, after)
  \/ Query(r) \/ Return(r) \/ Rollback(r)
  \/ \E d \in Devices : Upsert(r, d)

Next == (\E c \in Consumers : Consume(c)) \/ (\E r \in Readers : Read(r))

Spec == Init /\ [][Next]_vars

-----------------------------------------------------------------------------
(* Properties *)

\* Rows, handlers and requests have their types.
TypeOK ==
  /\ DOMAIN events \subseteq Ids /\ \A id \in DOMAIN events : events[id] \in Events
  /\ nextId \in 1..(MaxId + 1)
  /\ consumer \in [Consumers -> ConsumerState]
  /\ published \in [Numbered -> Nat] /\ confirmed \subseteq Numbered
  /\ DOMAIN offset \subseteq Devices /\ \A d \in DOMAIN offset : offset[d] \in {0} \cup Ids
  /\ reader \in [Readers -> ReaderState]
  /\ cursor \in [Readers -> [Scopes -> {0} \cup Ids]] /\ handed \in [Ids -> Nat]
  /\ seen \subseteq Ids /\ waived \subseteq Ids /\ late \subseteq Ids

\* However often a numbered event is delivered, and by however many handlers at
\* once, it is stored once and causes one webhook message at most; and when the
\* device was told so, and may forget it, it is stored.
StoredOnce ==
  \A e \in Numbered :
    LET ids == {id \in DOMAIN events : events[id] = e}
    IN  /\ \A i, j \in ids : i = j
        /\ published[e] <= 1
        /\ e \in confirmed => ids # {}

\* The offset of a device never moves back once its row exists, whichever requests
\* with or without last_event_id run at the same time.
OffsetNeverBack ==
  [][\A d \in Known : d \in DOMAIN offset' /\ offset'[d] >= offset[d]]_vars

\* Requests that share the offset divide the events between them: no event of a
\* device that has its row is given to two of them.
HandedOnce ==
  \A id \in DOMAIN events : Device(id) \in Known => handed[id] <= 1

\* An offset leaves nothing behind: what lies below it was given to somebody,
\* except events that were committed after a reader had passed their ids, and
\* those a client skipped itself by a last_event_id it had never been given.
NothingSkipped ==
  \A id \in DOMAIN events :
    Device(id) \in DOMAIN offset /\ id <= offset[Device(id)]
      => id \in seen \cup late \cup waived
=============================================================================
