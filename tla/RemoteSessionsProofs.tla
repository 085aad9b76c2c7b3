------------------------- MODULE RemoteSessionsProofs -------------------------
(***************************************************************************)
(* One active session, and a feed that reports each transition once and in *)
(* the order of its session, for any number of workers, requests, clients  *)
(* and sessions; and one video publisher of a terminal (below).            *)
(*                                                                         *)
(* The lock of the serial number plays no part in it.  A transaction that  *)
(* makes a session active has seen no other active one and has waited for  *)
(* every other transaction that changes one, so until it ends nobody else  *)
(* can make one active; and an event of the lifecycle is recorded by who   *)
(* holds the lock of the row, after every event of the session that has    *)
(* been committed.                                                         *)
(***************************************************************************)
EXTENDS RemoteSessions, VideoStream, FiniteSetTheorems, TLAPS

\* A transaction t of the request r: it works on a session, and with what.
Placed(t) ==
  /\ t.pc \in {"evict", "start", "wait", "command"} => t.sid \in Sids
  /\ t.pc = "command" => t.cmd \in Commands
  /\ t.pc = "wait" => t.sid \in DOMAIN t.writes
  /\ t.pc = "idle" => t = IdleTx

\* The rows it has written are locked.
Locked(r, t) ==
  \A q \in Requests \ {r} : DOMAIN t.writes \cap DOMAIN tx[q].writes = {}

\* The row as it sees it.
Seen(t, s) == IF s \in DOMAIN t.writes THEN t.writes[s] ELSE rows[s]

\* When it makes a session active, it sees no other one that is, and nobody else
\* makes one active.
Alone(r, t) ==
  \A s \in DOMAIN t.writes : t.writes[s].status \in Active =>
    /\ \A u \in Sids \ {s} : Seen(t, u).status \notin Active
    /\ \A q \in Requests \ {r} : \A u \in DOMAIN tx[q].writes \ {s} :
         tx[q].writes[u].status \notin Active

\* An event of a client's operation or of the lifecycle is of a row it has locked.
\* It comes after the committed ones of the session, and repeats none.
Feed(t, last) ==
  /\ \A e \in t.events :
       /\ e.cursor <= last
       /\ e.op # NoOp \/ e.type \in Lifecycle => e.sid \in DOMAIN t.writes
       /\ \A f \in events : e.sid = f.sid /\ {e.type, f.type} \subseteq Lifecycle
                              => e.cursor > f.cursor
  /\ \A e, f \in events \cup t.events :
       e # f /\ e.sid = f.sid /\ e.op = f.op /\ e.op # NoOp => e.type # f.type

TxInv(r, t, last) == Placed(t) /\ Locked(r, t) /\ Alone(r, t) /\ Feed(t, last)

\* As OneActive, without counting.
One == \A s, u \in Sids : rows[s].status \in Active /\ rows[u].status \in Active => s = u

DataOK ==
  /\ rows \in [Sids -> RowType] /\ events \subseteq EventType /\ serial \in Nat
  /\ tx \in [Requests -> TxType]

MemoryOK ==
  /\ snLock \in [Workers -> Requests \cup {NoOne}]
  /\ inFlight \in [Workers -> [Sids -> Commands \cup {Nothing}]] /\ done \subseteq Commands
  /\ spent \in [{"requests", "creates", "commands", "crashes"} -> Nat]

DataInv ==
  /\ DataOK /\ One /\ LifecycleOnce
  /\ \A e \in events : e.cursor <= serial
  /\ \A r \in Requests : TxInv(r, tx[r], serial)

IndInv == DataInv /\ MemoryOK

-----------------------------------------------------------------------------
(* The forms of transactions, and what they write *)

Written == UNION {[S -> RowType] : S \in SUBSET Sids}

LEMMA WrittenForm ==
  /\ \A f \in Written : /\ DOMAIN f \subseteq Sids
                        /\ \A s \in DOMAIN f : f[s] \in RowType
  /\ \A S \in SUBSET Sids : [S -> RowType] \subseteq Written
BY DEF Written

LEMMA TxForm ==
  ASSUME NEW t \in TxType
  PROVE  /\ t.pc \in {"idle", "lock", "evict", "insert", "start", "wait", "command", "commit"}
         /\ t.sid \in Sids \cup {Nothing} /\ t.op \in Ops \cup {NoOp} /\ t.seen \in Statuses
         /\ t.cmd \in Commands \cup {Nothing} /\ t.writes \in Written
         /\ t.events \subseteq EventType
BY DEF TxType, Written

LEMMA IdleForm ==
  /\ IdleTx \in TxType /\ IdleTx.pc = "idle" /\ IdleTx.sid = Nothing /\ IdleTx.op = NoOp
  /\ IdleTx.seen = "absent" /\ IdleTx.cmd = Nothing
  /\ IdleTx.events = {} /\ DOMAIN IdleTx.writes = {}
<1>1. <<>> \in [{} -> RowType] /\ DOMAIN <<>> = {}
  OBVIOUS
<1>2. <<>> \in Written
  BY <1>1, WrittenForm
<1> QED BY <1>1, <1>2 DEF IdleTx, TxType, Written, Statuses

LEMMA PutForm ==
  ASSUME DataOK, NEW r \in Requests, NEW s \in Sids, NEW row \in RowType
  PROVE  /\ Put(r, s, row) \in Written
         /\ DOMAIN Put(r, s, row) = DOMAIN tx[r].writes \cup {s}
         /\ Put(r, s, row)[s] = row
         /\ \A u \in DOMAIN tx[r].writes \ {s} : Put(r, s, row)[u] = tx[r].writes[u]
<1>1. tx[r].writes \in Written
  BY TxForm DEF DataOK
<1> DEFINE S == DOMAIN tx[r].writes \cup {s}
<1>2. S \in SUBSET Sids
  BY <1>1, WrittenForm
<1>3. Put(r, s, row) \in [S -> RowType]
  BY <1>1, WrittenForm DEF Put
<1> QED BY <1>2, <1>3, WrittenForm DEF Put

\* One request's transaction becomes t; the rows and the feed stay.
LEMMA TxStep ==
  ASSUME DataInv, NEW r \in Requests, NEW t \in TxType, tx' = [tx EXCEPT ![r] = t],
         UNCHANGED <<rows, events>>, serial' \in Nat, serial' >= serial, TxInv(r, t, serial')
  PROVE  DataInv'
<1>1. /\ tx' \in [Requests -> TxType] /\ tx'[r] = t
      /\ \A q \in Requests : q # r => tx'[q] = tx[q]
  BY DEF DataInv, DataOK
<1>2. DataOK' /\ One' /\ LifecycleOnce'
  BY <1>1 DEF DataInv, DataOK, One, LifecycleOnce
<1>3. ASSUME NEW e \in EventType, e.cursor <= serial PROVE e.cursor <= serial'
  BY <1>3 DEF EventType, DataInv, DataOK
<1>4. \A e \in events' : e.cursor <= serial'
  BY <1>3 DEF DataInv, DataOK
<1>5. TxInv(r, tx[r], serial)'
  BY <1>1 DEF TxInv, Placed, Locked, Alone, Seen, Feed
<1>6. ASSUME NEW q \in Requests, q # r PROVE TxInv(q, tx[q], serial)'
  <2>1. tx'[q] = tx[q] /\ TxInv(q, tx[q], serial) /\ tx[q].events \subseteq EventType
    BY <1>1, <1>6, TxForm DEF DataInv, DataOK
  <2>2. Placed(tx[q])' /\ Feed(tx[q], serial)'
    BY <1>3, <2>1 DEF TxInv, Placed, Feed
  <2>3. Locked(q, tx[q])'
    BY <1>1, <1>6, <2>1 DEF TxInv, Locked
  <2>4. Alone(q, tx[q])'
    <3> SUFFICES ASSUME NEW s \in DOMAIN tx[q].writes, tx[q].writes[s].status \in Active
                 PROVE  /\ \A u \in Sids \ {s} : Seen(tx[q], u).status \notin Active
                        /\ \A p \in Requests \ {q} : \A u \in DOMAIN tx'[p].writes \ {s} :
                             tx'[p].writes[u].status \notin Active
      BY <2>1 DEF Alone, Seen
    <3>1. \A u \in DOMAIN t.writes \ {s} : t.writes[u].status \notin Active
      BY <1>6 DEF TxInv, Alone
    <3> QED BY <1>1, <2>1, <3>1 DEF TxInv, Alone
  <2> QED BY <2>2, <2>3, <2>4 DEF TxInv
<1> QED BY <1>2, <1>4, <1>5, <1>6 DEF DataInv

-----------------------------------------------------------------------------
(* What is recorded *)

LEMMA CountUpTo ==
  ASSUME NEW n \in Nat, NEW P \in SUBSET (1..n), NEW i \in P
  PROVE  /\ IsFiniteSet(P) /\ Cardinality(P) \in Nat
         /\ Cardinality({j \in P : j <= i}) \in 1..Cardinality(P)
<1> DEFINE S == {j \in P : j <= i}
<1>1. IsFiniteSet(P)
  <2>1. IsFiniteSet(1..n)
    BY FS_Interval
  <2> QED BY <2>1, FS_Subset
<1>2. IsFiniteSet(S) /\ Cardinality(S) <= Cardinality(P)
  <2>1. S \in SUBSET P
    OBVIOUS
  <2> QED BY <1>1, <2>1, FS_Subset
<1>3. i \in S
  OBVIOUS
<1> HIDE DEF S
<1>4. Cardinality(S) # 0
  BY <1>2, <1>3, FS_EmptySet
<1>5. Cardinality(S) \in Nat /\ Cardinality(P) \in Nat
  BY <1>1, <1>2, FS_CardinalityType
<1>6. Cardinality(S) \in 1..Cardinality(P)
  BY <1>2, <1>4, <1>5
<1> QED BY <1>1, <1>5, <1>6 DEF S

\* The events of the positions P have the next cursors, and one each.
LEMMA EventsForm ==
  ASSUME serial \in Nat, NEW s \in Sids, NEW op \in Ops \cup {NoOp},
         NEW n \in Nat, NEW types \in [1..n -> EventTypes],
         \A i, j \in 1..n : types[i] = types[j] => i = j,
         NEW P \in SUBSET (1..n)
  PROVE  LET E == EventsOf(s, op, types, P)
         IN  /\ E \subseteq EventType /\ serial + Cardinality(E) \in Nat
             /\ serial + Cardinality(E) >= serial
             /\ \A e \in E : /\ e.sid = s /\ e.op = op /\ e.cursor > serial
                             /\ e.cursor <= serial + Cardinality(E)
                             /\ \E i \in P : e.type = types[i]
             /\ \A e, f \in E : e.type = f.type => e = f
<1> DEFINE ev(i) == [cursor |-> serial + Cardinality({j \in P : j <= i}), sid |-> s,
                     type |-> types[i], op |-> op]
           E == {ev(i) : i \in P}
           f == [i \in P |-> ev(i)]
<1>1. IsFiniteSet(P) /\ Cardinality(P) \in Nat
  <2>1. IsFiniteSet(1..n)
    BY FS_Interval
  <2>2. IsFiniteSet(P)
    BY <2>1, FS_Subset
  <2> QED BY <2>2, FS_CardinalityType
<1>2. ASSUME NEW i \in P
      PROVE  /\ ev(i) \in EventType /\ ev(i).sid = s /\ ev(i).op = op /\ ev(i).type = types[i]
             /\ ev(i).cursor > serial /\ ev(i).cursor <= serial + Cardinality(P)
  <2> DEFINE k == Cardinality({j \in P : j <= i})
  <2>1. k \in 1..Cardinality(P)
    BY CountUpTo
  <2> HIDE DEF k
  <2>2. serial + k \in Nat \ {0} /\ serial + k > serial /\ serial + k <= serial + Cardinality(P)
    BY <1>1, <2>1
  <2>3. ev(i) = [cursor |-> serial + k, sid |-> s, type |-> types[i], op |-> op]
    BY DEF k
  <2>4. types[i] \in EventTypes
    OBVIOUS
  <2> HIDE DEF ev
  <2> QED BY <2>2, <2>3, <2>4 DEF EventType
<1> HIDE DEF ev
<1>3. f \in Injection(P, E) /\ f \in Surjection(P, E)
  <2>1. f \in [P -> E] /\ \A i \in P : f[i] = ev(i)
    OBVIOUS
  <2>2. \A i, j \in P : ev(i) = ev(j) => i = j
    BY <1>2
  <2>3. \A e \in E : \E i \in P : e = ev(i)
    OBVIOUS
  <2> HIDE DEF f, E
  <2>4. \A i, j \in P : f[i] = f[j] => i = j
    BY <2>1, <2>2
  <2>5. \A e \in E : \E i \in P : f[i] = e
    BY <2>1, <2>3
  <2>6. f \in Injection(P, E)
    BY <2>1, <2>4 DEF Injection, IsInjective
  <2>7. f \in Surjection(P, E)
    BY <2>1, <2>5 DEF Surjection
  <2> QED BY <2>6, <2>7
<1>4. IsFiniteSet(E) /\ Cardinality(E) = Cardinality(P)
  <2> HIDE DEF E, f
  <2>1. IsFiniteSet(E) /\ Cardinality(E) <= Cardinality(P)
    BY <1>1, <1>3, FS_Surjection
  <2>2. Cardinality(P) <= Cardinality(E)
    BY <1>3, <2>1, FS_Injection
  <2> QED BY <1>1, <2>1, <2>2, FS_CardinalityType
<1>5. EventsOf(s, op, types, P) = E
  BY DEF EventsOf, ev
<1>6. \A e \in E : /\ e \in EventType /\ e.sid = s /\ e.op = op /\ e.cursor > serial
                   /\ e.cursor <= serial + Cardinality(P)
                   /\ \E i \in P : e.type = types[i]
  BY <1>2
<1>7. \A e, g \in E : e.type = g.type => e = g
  BY <1>2
<1>8. serial + Cardinality(P) \in Nat /\ serial + Cardinality(P) >= serial
  BY <1>1
<1> HIDE DEF E
<1> QED BY <1>4, <1>5, <1>6, <1>7, <1>8

\* A list of transitions without repetition.
Distinct(types) ==
  /\ types \in Seq(EventTypes)
  /\ \A i, j \in 1..Len(types) : types[i] = types[j] => i = j

LEMMA Lists ==
  /\ Distinct(<<>>)
  /\ \A a \in EventTypes : Distinct(<<a>>)
  /\ \A a, b \in EventTypes : a # b => Distinct(<<a, b>>)
  /\ \A a, b, c \in EventTypes : a # b /\ b # c /\ a # c => Distinct(<<a, b, c>>)
<1>1. Distinct(<<>>) /\ \A a \in EventTypes : Distinct(<<a>>)
  BY DEF Distinct
<1>2. ASSUME NEW a \in EventTypes, NEW b \in EventTypes, a # b PROVE Distinct(<<a, b>>)
  <2>1. /\ <<a, b>> \in Seq(EventTypes) /\ Len(<<a, b>>) = 2
        /\ <<a, b>>[1] = a /\ <<a, b>>[2] = b
    OBVIOUS
  <2>2. \A i \in 1..2 : i = 1 \/ i = 2
    OBVIOUS
  <2> QED BY <1>2, <2>1, <2>2 DEF Distinct
<1>3. ASSUME NEW a \in EventTypes, NEW b \in EventTypes, NEW c \in EventTypes,
             a # b, b # c, a # c
      PROVE  Distinct(<<a, b, c>>)
  <2>1. /\ <<a, b, c>> \in Seq(EventTypes) /\ Len(<<a, b, c>>) = 3
        /\ <<a, b, c>>[1] = a /\ <<a, b, c>>[2] = b /\ <<a, b, c>>[3] = c
    OBVIOUS
  <2>2. \A i \in 1..3 : i = 1 \/ i = 2 \/ i = 3
    OBVIOUS
  <2> QED BY <1>3, <2>1, <2>2 DEF Distinct
<1> QED BY <1>1, <1>2, <1>3

\* The events E that a transaction records of a session in one call.
Form(r, s, op, types, E) ==
  /\ E \subseteq EventType /\ serial + Cardinality(E) \in Nat
  /\ serial + Cardinality(E) >= serial
  /\ \A e \in E : /\ e.sid = s /\ e.op = op /\ e.cursor > serial
                  /\ e.cursor <= serial + Cardinality(E)
                  /\ \E i \in 1..Len(types) : e.type = types[i]
                  /\ \A f \in events \cup tx[r].events :
                       op = NoOp \/ f.op # op \/ f.type # e.type
  /\ \A e, f \in E : e.type = f.type => e = f

\* Nothing is recorded twice of an operation.
LEMMA RecordedForm ==
  ASSUME serial \in Nat, NEW r \in Requests, NEW s \in Sids, NEW op \in Ops \cup {NoOp},
         NEW types, Distinct(types)
  PROVE  Form(r, s, op, types, Recorded(r, s, op, types))
<1> DEFINE P == {i \in 1..Len(types) :
                   op = NoOp \/ \A e \in events \cup tx[r].events : e.op # op \/ e.type # types[i]}
           E == EventsOf(s, op, types, P)
<1>1. Len(types) \in Nat /\ types \in [1..Len(types) -> EventTypes]
      /\ \A i, j \in 1..Len(types) : types[i] = types[j] => i = j
  BY DEF Distinct
<1>2. P \in SUBSET (1..Len(types))
  OBVIOUS
<1>3. \A i \in P : \A f \in events \cup tx[r].events : op = NoOp \/ f.op # op \/ f.type # types[i]
  OBVIOUS
<1>4. Recorded(r, s, op, types) = E
  BY DEF Recorded
<1> HIDE DEF P
<1>5. /\ E \subseteq EventType /\ serial + Cardinality(E) \in Nat
      /\ serial + Cardinality(E) >= serial
      /\ \A e \in E : /\ e.sid = s /\ e.op = op /\ e.cursor > serial
                      /\ e.cursor <= serial + Cardinality(E)
                      /\ \E i \in P : e.type = types[i]
      /\ \A e, f \in E : e.type = f.type => e = f
  BY SMTT(90), <1>1, <1>2, EventsForm
<1> HIDE DEF E
<1> QED BY <1>2, <1>3, <1>4, <1>5 DEF Form

-----------------------------------------------------------------------------
(* The steps of a transaction *)

\* A row is written and events of it are recorded: with the lock of the row, and in
\* its turn at the index.
LEMMA WriteKeeps ==
  ASSUME DataInv, NEW r \in Requests, NEW s \in Sids, NEW row \in RowType,
         NEW op \in Ops \cup {NoOp}, NEW types, Distinct(types),
         NEW t \in TxType, tx' = [tx EXCEPT ![r] = t], Placed(t),
         t.writes = Put(r, s, row), t.events = tx[r].events \cup Recorded(r, s, op, types),
         serial' = serial + Cardinality(Recorded(r, s, op, types)),
         UNCHANGED <<rows, events>>, RowFree(r, s),
         row.status \in Active =>
           /\ Rivals(r, s) = {}
           /\ \A q \in Requests \ {r} : \A u \in DOMAIN tx[q].writes \ {s} :
                tx[q].writes[u].status \notin Active
  PROVE  DataInv'
<1> DEFINE E == Recorded(r, s, op, types)
           W == Put(r, s, row)
<1>0. serial \in Nat
  BY DEF DataInv, DataOK
<1>1. /\ E \subseteq EventType /\ serial + Cardinality(E) \in Nat
      /\ serial + Cardinality(E) >= serial
      /\ \A e \in E : /\ e.sid = s /\ e.op = op /\ e.cursor > serial
                      /\ e.cursor <= serial + Cardinality(E)
                      /\ \A f \in events \cup tx[r].events :
                           op = NoOp \/ f.op # op \/ f.type # e.type
      /\ \A e, f \in E : e.type = f.type => e = f
  <2>1. Form(r, s, op, types, E)
    BY <1>0, RecordedForm
  <2> HIDE DEF E
  <2> QED BY <2>1 DEF Form
<1>2. /\ W \in Written /\ DOMAIN W = DOMAIN tx[r].writes \cup {s} /\ W[s] = row
      /\ \A u \in DOMAIN tx[r].writes \ {s} : W[u] = tx[r].writes[u]
  BY SMTT(60), PutForm DEF DataInv
<1>3. tx[r] \in TxType /\ TxInv(r, tx[r], serial)
  BY DEF DataInv, DataOK
<1>4. serial' = serial + Cardinality(E)
  OBVIOUS
<1>5. t.writes = W /\ t.events = tx[r].events \cup E
  OBVIOUS
<1> HIDE DEF E, W
<1>7. Locked(r, t)
  BY <1>2, <1>3, <1>5 DEF TxInv, Locked, RowFree
<1>8. Alone(r, t)
  <2> SUFFICES ASSUME NEW v \in DOMAIN W, W[v].status \in Active
               PROVE  /\ \A u \in Sids \ {v} : Seen(t, u).status \notin Active
                      /\ \A q \in Requests \ {r} : \A u \in DOMAIN tx[q].writes \ {v} :
                           tx[q].writes[u].status \notin Active
    BY <1>5 DEF Alone
  <2>1. \A u \in Sids \ {s} : Seen(t, u) = Seen(tx[r], u) /\ Seen(tx[r], u) = Row(r, u)
    BY <1>2, <1>5 DEF Seen, Row
  <2>2. CASE v = s
    BY <1>2, <2>1, <2>2 DEF Rivals
  <2>3. CASE v # s
    <3>1. v \in DOMAIN tx[r].writes /\ tx[r].writes[v].status \in Active /\ v \in Sids
      BY <1>2, <2>3, WrittenForm
    <3>2. row.status \notin Active
      BY <2>1, <2>3, <3>1 DEF Rivals, Seen
    <3>3. Seen(t, s) = row
      BY <1>2, <1>5 DEF Seen
    <3>4. /\ \A u \in Sids \ {v} : Seen(tx[r], u).status \notin Active
          /\ \A q \in Requests \ {r} : \A u \in DOMAIN tx[q].writes \ {v} :
               tx[q].writes[u].status \notin Active
      BY <1>3, <3>1 DEF TxInv, Alone
    <3> QED BY <2>1, <3>2, <3>3, <3>4
  <2> QED BY <2>2, <2>3
<1>9. Feed(t, serial')
  <2>1. \A e \in tx[r].events : e.cursor <= serial + Cardinality(E)
    <3>1. \A e \in tx[r].events : e.cursor \in Nat /\ e.cursor <= serial
      BY <1>3, TxForm DEF TxInv, Feed, EventType
    <3> QED BY <1>1, <3>1 DEF DataInv, DataOK
  <2>2. \A e \in t.events : e.op # NoOp \/ e.type \in Lifecycle => e.sid \in DOMAIN W
    BY <1>1, <1>2, <1>3, <1>5 DEF TxInv, Feed
  <2>3. \A e \in E, f \in events : e.cursor > f.cursor
    <3>1. \A f \in events : f.cursor \in Nat /\ f.cursor <= serial
      BY DEF DataInv, DataOK, EventType
    <3>2. \A e \in E : e.cursor \in Nat /\ e.cursor > serial
      BY <1>1 DEF EventType
    <3> QED BY <3>1, <3>2 DEF DataInv, DataOK
  <2>4. ASSUME NEW e \in events \cup t.events, NEW f \in events \cup t.events,
               e # f, e.sid = f.sid, e.op = f.op, e.op # NoOp
        PROVE  e.type # f.type
    <3>1. CASE e \in events \cup tx[r].events /\ f \in events \cup tx[r].events
      BY <1>3, <2>4, <3>1 DEF TxInv, Feed
    <3>2. CASE e \in E /\ f \in E
      BY <1>1, <2>4, <3>2
    <3>3. CASE e \in E /\ f \in events \cup tx[r].events
      BY <1>1, <2>4, <3>3
    <3>4. CASE f \in E /\ e \in events \cup tx[r].events
      BY <1>1, <2>4, <3>4
    <3> QED BY <1>5, <3>1, <3>2, <3>3, <3>4
  <2>5. \A e \in t.events : e.cursor <= serial'
    BY <1>1, <1>4, <1>5, <2>1
  <2>6. \A e \in t.events, f \in events :
          e.sid = f.sid /\ {e.type, f.type} \subseteq Lifecycle => e.cursor > f.cursor
    BY <1>3, <1>5, <2>3 DEF TxInv, Feed
  <2> QED BY <1>5, <2>2, <2>4, <2>5, <2>6 DEF Feed
<1> QED BY <1>1, <1>4, <1>7, <1>8, <1>9, TxStep DEF TxInv

LEMMA WriteStep ==
  ASSUME DataInv, NEW r \in Requests, NEW s \in Sids, NEW row \in RowType,
         NEW op \in Ops \cup {NoOp}, NEW types, Distinct(types),
         NEW pc \in {"insert", "commit"}, Write(r, s, row, op, types, pc),
         UNCHANGED <<rows, events>>, RowFree(r, s),
         row.status \in Active =>
           /\ Rivals(r, s) = {}
           /\ \A q \in Requests \ {r} : \A u \in DOMAIN tx[q].writes \ {s} :
                tx[q].writes[u].status \notin Active
  PROVE  DataInv'
<1> DEFINE E == Recorded(r, s, op, types)
           W == Put(r, s, row)
           t == [tx[r] EXCEPT !.pc = pc, !.writes = W, !.events = tx[r].events \cup E]
<1>1. E \subseteq EventType
  <2>1. Form(r, s, op, types, E)
    BY RecordedForm DEF DataInv, DataOK
  <2> HIDE DEF E
  <2> QED BY <2>1 DEF Form
<1>2. W \in Written
  BY PutForm DEF DataInv
<1>3. tx[r] \in TxType
  BY DEF DataInv, DataOK
<1>4. tx' = [tx EXCEPT ![r] = t] /\ serial' = serial + Cardinality(E)
  BY DEF Write
<1> HIDE DEF E, W
<1>5. t \in TxType /\ t.pc = pc /\ t.writes = W /\ t.events = tx[r].events \cup E
  BY <1>1, <1>2, <1>3 DEF TxType, Written
<1> HIDE DEF t
<1>6. Placed(t)
  BY <1>5 DEF Placed
<1> QED BY <1>4, <1>5, <1>6, WriteKeeps DEF E, W

\* A transaction that goes on with what it has written, or without anything.
LEMMA MoveKeeps ==
  ASSUME DataInv, NEW r \in Requests, NEW t \in TxType, tx' = [tx EXCEPT ![r] = t],
         UNCHANGED <<rows, events, serial>>, Placed(t),
         \/ t.writes = tx[r].writes /\ t.events = tx[r].events
         \/ DOMAIN t.writes = {} /\ t.events = {}
  PROVE  DataInv'
<1>1. TxInv(r, tx[r], serial) /\ serial' = serial /\ serial' \in Nat /\ LifecycleOnce
  BY DEF DataInv, DataOK
<1>2. Locked(r, t) /\ Alone(r, t)
  BY <1>1 DEF TxInv, Locked, Alone, Seen
<1>3. Feed(t, serial')
  BY <1>1 DEF TxInv, Feed, LifecycleOnce
<1>4. TxInv(r, t, serial')
  BY <1>2, <1>3 DEF TxInv
<1>5. UNCHANGED <<rows, events>> /\ serial' >= serial
  BY <1>1
<1> QED BY <1>1, <1>4, <1>5, TxStep

\* A transaction that reports something of a command only.
LEMMA ReportKeeps ==
  ASSUME DataInv, NEW r \in Requests, NEW s \in Sids,
         NEW type \in {"command_started", "command_completed", "command_timed_out"},
         Report(r, s, type), UNCHANGED <<rows, events>>
  PROVE  DataInv'
<1> DEFINE E == Recorded(r, s, NoOp, <<type>>)
           t == [tx[r] EXCEPT !.pc = "commit", !.events = E]
<1>1. Distinct(<<type>>) /\ (\A i \in 1..Len(<<type>>) : <<type>>[i] = type)
  BY DEF Distinct, EventTypes
<1>2. /\ E \subseteq EventType /\ serial + Cardinality(E) \in Nat
      /\ serial + Cardinality(E) >= serial
      /\ \A e \in E : /\ e.op = NoOp /\ e.type = type /\ e.cursor <= serial + Cardinality(E)
  <2>1. serial \in Nat /\ NoOp \in Ops \cup {NoOp}
    BY DEF DataInv, DataOK
  <2>2. Form(r, s, NoOp, <<type>>, E)
    BY <1>1, <2>1, RecordedForm
  <2> HIDE DEF E
  <2> QED BY <1>1, <2>2 DEF Form
<1>3. tx[r] \in TxType /\ TxInv(r, tx[r], serial) /\ LifecycleOnce
  BY DEF DataInv, DataOK
<1>4. tx' = [tx EXCEPT ![r] = t] /\ serial' = serial + Cardinality(E)
  BY DEF Report
<1> HIDE DEF E
<1>5. t \in TxType /\ t.pc = "commit" /\ t.writes = tx[r].writes /\ t.events = E
  BY <1>2, <1>3 DEF TxType
<1> HIDE DEF t
<1>6. Placed(t) /\ Locked(r, t) /\ Alone(r, t)
  BY <1>3, <1>5 DEF Placed, TxInv, Locked, Alone, Seen
<1>7. Feed(t, serial')
  BY <1>2, <1>3, <1>4, <1>5 DEF Feed, LifecycleOnce, Lifecycle
<1> QED BY <1>2, <1>4, <1>5, <1>6, <1>7, TxStep DEF TxInv

\* The transaction is committed: what it has seen is so, and nobody else's changes.
LEMMA CommitKeeps ==
  ASSUME DataInv, NEW r \in Requests, rows' = [s \in Sids |-> Row(r, s)],
         events' = events \cup tx[r].events, Rollback(r), serial' = serial
  PROVE  DataInv'
<1>0. tx[r] \in TxType /\ TxInv(r, tx[r], serial) /\ tx[r].writes \in Written
      /\ tx[r].events \subseteq EventType
  BY TxForm DEF DataInv, DataOK
<1>1. /\ tx' \in [Requests -> TxType] /\ tx'[r] = IdleTx
      /\ \A q \in Requests : q # r => tx'[q] = tx[q]
  BY IdleForm DEF Rollback, DataInv, DataOK
<1>2. rows' \in [Sids -> RowType] /\ \A s \in Sids : rows'[s] = Seen(tx[r], s)
  BY <1>0, WrittenForm DEF Row, Seen, DataInv, DataOK
<1>3. DataOK'
  BY <1>0, <1>1, <1>2 DEF DataInv, DataOK
<1>4. One'
  <2> SUFFICES ASSUME NEW s \in Sids, NEW u \in Sids, s # u,
                      Seen(tx[r], s).status \in Active, Seen(tx[r], u).status \in Active
               PROVE  FALSE
    BY <1>2 DEF One
  <2>1. s \notin DOMAIN tx[r].writes /\ u \notin DOMAIN tx[r].writes
    BY <1>0 DEF TxInv, Alone, Seen
  <2> QED BY <2>1 DEF Seen, DataInv, One
<1>5. LifecycleOnce' /\ \A e \in events' : e.cursor <= serial'
  BY <1>0 DEF DataInv, TxInv, Feed, LifecycleOnce
<1>6. TxInv(r, tx[r], serial)'
  BY <1>1, <1>5, IdleForm DEF TxInv, Placed, Locked, Alone, Feed, LifecycleOnce
<1>7. ASSUME NEW q \in Requests, q # r PROVE TxInv(q, tx[q], serial)'
  <2>1. tx'[q] = tx[q] /\ TxInv(q, tx[q], serial)
        /\ DOMAIN tx[q].writes \cap DOMAIN tx[r].writes = {}
    BY <1>1, <1>7 DEF DataInv, TxInv, Locked
  <2>2. Placed(tx[q])' /\ Locked(q, tx[q])'
    BY <1>1, <2>1, IdleForm DEF TxInv, Placed, Locked
  <2>3. Alone(q, tx[q])'
    <3> SUFFICES ASSUME NEW s \in DOMAIN tx[q].writes, tx[q].writes[s].status \in Active
                 PROVE  /\ \A u \in Sids \ {s} : Seen(tx[q], u)'.status \notin Active
                        /\ \A p \in Requests \ {q} : \A u \in DOMAIN tx'[p].writes \ {s} :
                             tx'[p].writes[u].status \notin Active
      BY <2>1 DEF Alone, Seen
    <3>1. /\ \A u \in Sids \ {s} : Seen(tx[q], u).status \notin Active
          /\ \A p \in Requests \ {q} : \A u \in DOMAIN tx[p].writes \ {s} :
               tx[p].writes[u].status \notin Active
      BY <2>1 DEF TxInv, Alone
    <3>2. \A u \in Sids \ {s} : Seen(tx[q], u)'.status \notin Active
      BY <1>2, <1>7, <2>1, <3>1 DEF Seen
    <3> QED BY <1>1, <3>1, <3>2, IdleForm
  <2>4. Feed(tx[q], serial)'
    <3>1. \A e \in tx[q].events, f \in tx[r].events :
            e.sid = f.sid => /\ e.op = NoOp \/ f.op = NoOp
                             /\ ~({e.type, f.type} \subseteq Lifecycle)
      BY <1>0, <2>1 DEF TxInv, Feed
    <3>2. /\ \A e, f \in events \cup tx[q].events :
               e # f /\ e.sid = f.sid /\ e.op = f.op /\ e.op # NoOp => e.type # f.type
          /\ \A e, f \in events \cup tx[r].events :
               e # f /\ e.sid = f.sid /\ e.op = f.op /\ e.op # NoOp => e.type # f.type
      BY <1>0, <2>1 DEF TxInv, Feed
    <3>3. \A e, f \in events \cup tx[r].events \cup tx[q].events :
            e # f /\ e.sid = f.sid /\ e.op = f.op /\ e.op # NoOp => e.type # f.type
      BY <3>1, <3>2
    <3>4. \A e \in tx[q].events :
            /\ e.cursor <= serial
            /\ e.op # NoOp \/ e.type \in Lifecycle => e.sid \in DOMAIN tx[q].writes
            /\ \A f \in events \cup tx[r].events :
                 e.sid = f.sid /\ {e.type, f.type} \subseteq Lifecycle => e.cursor > f.cursor
      BY <2>1, <3>1 DEF TxInv, Feed
    <3> QED BY <2>1, <3>3, <3>4 DEF Feed
  <2> QED BY <2>2, <2>3, <2>4 DEF TxInv
<1> QED BY <1>3, <1>4, <1>5, <1>6, <1>7 DEF DataInv

\* Some transactions are rolled back, or the heartbeat of a session changes.
LEMMA OutsideKeeps ==
  ASSUME DataInv, events' = events, serial' = serial, tx' \in [Requests -> TxType],
         \A r \in Requests : tx'[r] = tx[r] \/ tx'[r] = IdleTx,
         rows' \in [Sids -> RowType], \A s \in Sids : rows'[s].status = rows[s].status
  PROVE  DataInv'
<1>1. DataOK' /\ One' /\ LifecycleOnce'
  BY DEF DataInv, DataOK, One, LifecycleOnce
<1>2. ASSUME NEW r \in Requests PROVE TxInv(r, tx[r], serial)'
  <2>1. TxInv(r, tx[r], serial) /\ tx[r] \in TxType /\ DOMAIN tx[r].writes \subseteq Sids
    BY TxForm, WrittenForm DEF DataInv, DataOK
  <2>2. CASE tx'[r] = IdleTx
    BY <1>1, <2>2, IdleForm DEF TxInv, Placed, Locked, Alone, Feed, LifecycleOnce
  <2>3. CASE tx'[r] = tx[r]
    <3>1. Placed(tx[r])' /\ Feed(tx[r], serial)'
      BY <2>1, <2>3 DEF TxInv, Placed, Feed
    <3>2. \A q \in Requests : tx'[q] = tx[q] \/ DOMAIN tx'[q].writes = {}
      BY IdleForm
    <3>3. Locked(r, tx[r])'
      BY <2>1, <2>3, <3>2 DEF TxInv, Locked
    <3>4. \A u \in Sids : Seen(tx[r], u)'.status = Seen(tx[r], u).status
      BY <2>3 DEF Seen
    <3>5. Alone(r, tx[r])'
      BY <2>1, <2>3, <3>2, <3>4 DEF TxInv, Alone
    <3> QED BY <3>1, <3>3, <3>5 DEF TxInv
  <2> QED BY <2>2, <2>3
<1> QED BY <1>1, <1>2 DEF DataInv

-----------------------------------------------------------------------------
(* The requests *)

LEMMA RowForm ==
  ASSUME DataInv, NEW s \in Sids
  PROVE  /\ rows[s] \in RowType /\ rows[s].status \in Statuses
         /\ rows[s].op \in Ops \cup {NoOp} /\ rows[s].fresh \in BOOLEAN
         /\ \A st \in Statuses : [rows[s] EXCEPT !.status = st] \in RowType
         /\ \A f \in BOOLEAN : [rows[s] EXCEPT !.fresh = f] \in RowType
BY DEF DataInv, DataOK, RowType

LEMMA ArrivalKeeps ==
  ASSUME IndInv, NEW r \in Requests,
         \/ \E op \in Ops : Create(r, op)
         \/ \E s \in Sids : Start(r, s) \/ CommandRead(r, s)
  PROVE  DataInv'
<1>1. ASSUME NEW op \in Ops, Create(r, op) PROVE DataInv'
  <2> DEFINE t == [IdleTx EXCEPT !.pc = "lock", !.op = op]
  <2>1. t \in TxType /\ t.pc = "lock" /\ t.writes = IdleTx.writes /\ t.events = IdleTx.events
    BY IdleForm DEF TxType
  <2>2. tx' = [tx EXCEPT ![r] = t] /\ UNCHANGED <<rows, events, serial>>
    BY <1>1 DEF Create, Begin
  <2> HIDE DEF t
  <2> QED BY <2>1, <2>2, IdleForm, MoveKeeps DEF Placed, IndInv
<1>2. ASSUME NEW s \in Sids, Start(r, s) PROVE DataInv'
  <2> DEFINE t == [IdleTx EXCEPT !.pc = "start", !.sid = s, !.seen = rows[s].status]
  <2>1. t \in TxType /\ t.pc = "start" /\ t.sid = s
        /\ t.writes = IdleTx.writes /\ t.events = IdleTx.events
    BY IdleForm, RowForm DEF TxType, IndInv
  <2>2. tx' = [tx EXCEPT ![r] = t] /\ UNCHANGED <<rows, events, serial>>
    BY <1>2 DEF Start, Begin
  <2> HIDE DEF t
  <2> QED BY <2>1, <2>2, IdleForm, MoveKeeps DEF Placed, IndInv
<1>3. ASSUME NEW s \in Sids, CommandRead(r, s) PROVE DataInv'
  <2> DEFINE t == [IdleTx EXCEPT !.pc = "command", !.sid = s, !.cmd = spent.commands + 1]
  <2>0. spent.commands + 1 \in Commands
    <3>1. spent.commands \in Nat
      BY DEF IndInv, MemoryOK
    <3>2. MaxCommands \in Nat /\ spent.commands < MaxCommands
      BY <1>3, SessionsAssumption DEF CommandRead, SessionsAssumption
    <3> QED BY <3>1, <3>2 DEF Commands
  <2>1. t \in TxType /\ t.pc = "command" /\ t.sid = s /\ t.cmd \in Commands
        /\ t.writes = IdleTx.writes /\ t.events = IdleTx.events
    BY <2>0, IdleForm DEF TxType
  <2>2. tx' = [tx EXCEPT ![r] = t] /\ UNCHANGED <<rows, events, serial>>
    BY <1>3 DEF CommandRead, Begin
  <2> HIDE DEF t
  <2> QED BY <2>1, <2>2, IdleForm, MoveKeeps DEF Placed, IndInv
<1> QED BY <1>1, <1>2, <1>3

LEMMA RollbackKeeps ==
  ASSUME DataInv, NEW r \in Requests, Rollback(r), UNCHANGED <<rows, events, serial>>
  PROVE  DataInv'
BY IdleForm, MoveKeeps DEF Rollback, Placed

LEMMA CreateLockedKeeps ==
  ASSUME DataInv, NEW r \in Requests, CreateLocked(r)
  PROVE  DataInv'
<1>0. tx[r] \in TxType /\ UNCHANGED <<rows, events, serial>>
  BY DEF DataInv, DataOK, CreateLocked
<1>1. CASE Rollback(r)
  BY <1>0, <1>1, RollbackKeeps
<1>2. CASE tx' = [tx EXCEPT ![r].pc = "insert"]
  <2> DEFINE t == [tx[r] EXCEPT !.pc = "insert"]
  <2>1. t \in TxType /\ t.pc = "insert" /\ t.writes = tx[r].writes /\ t.events = tx[r].events
    BY <1>0 DEF TxType
  <2>2. tx' = [tx EXCEPT ![r] = t]
    BY <1>2
  <2> HIDE DEF t
  <2> QED BY <1>0, <2>1, <2>2, MoveKeeps DEF Placed
<1>3. ASSUME NEW s \in Sids, tx' = [tx EXCEPT ![r] = [@ EXCEPT !.pc = "evict", !.sid = s]]
      PROVE  DataInv'
  <2> DEFINE t == [tx[r] EXCEPT !.pc = "evict", !.sid = s]
  <2>1. t \in TxType /\ t.pc = "evict" /\ t.sid = s
        /\ t.writes = tx[r].writes /\ t.events = tx[r].events
    BY <1>0 DEF TxType
  <2>2. tx' = [tx EXCEPT ![r] = t]
    BY <1>3
  <2> HIDE DEF t
  <2> QED BY <1>0, <2>1, <2>2, MoveKeeps DEF Placed
<1> QED BY ZenonT(90), <1>1, <1>2, <1>3 DEF CreateLocked

LEMMA EvictKeeps ==
  ASSUME DataInv, NEW r \in Requests, Evict(r)
  PROVE  DataInv'
<1> DEFINE s == tx[r].sid
<1>1. s \in Sids
  BY DEF Evict, DataInv, TxInv, Placed
<1>2. Distinct(<<"failed">>)
  BY DEF Distinct, EventTypes, Lifecycle
<1>3. /\ [rows[s] EXCEPT !.status = "failed"] \in RowType /\ rows[s].op \in Ops \cup {NoOp}
      /\ [rows[s] EXCEPT !.status = "failed"].status \notin Active
  <2>1. rows[s] \in RowType
    BY <1>1, RowForm
  <2> QED BY <2>1 DEF Statuses, Ended, Active, RowType
<1>4. RowFree(r, s) /\ UNCHANGED <<rows, events>>
      /\ Write(r, s, [rows[s] EXCEPT !.status = "failed"], rows[s].op, <<"failed">>, "insert")
  BY DEF Evict
<1> HIDE DEF s
<1> QED BY <1>1, <1>2, <1>3, <1>4, WriteStep

\* Who has waited for the index, and sees no rival, is alone.
LEMMA IndexTurn ==
  ASSUME DataInv, NEW r \in Requests, NEW s \in Sids, IndexFree(r, s)
  PROVE  \A q \in Requests \ {r} : \A u \in DOMAIN tx[q].writes \ {s} :
           tx[q].writes[u].status \notin Active
BY DEF IndexFree

LEMMA InsertKeeps ==
  ASSUME DataInv, NEW r \in Requests, Insert(r)
  PROVE  DataInv'
<1> DEFINE op == tx[r].op
           auto == op \in AutoStart
           row == [status |-> IF auto THEN "active" ELSE "requested", op |-> op, fresh |-> TRUE]
           types == IF auto THEN <<"start_requested", "starting", "active">>
                    ELSE <<"start_requested">>
<1>1. PICK s \in Sids : /\ IsNew(s) /\ IndexFree(r, s)
                        /\ IF Rivals(r, s) = {} THEN Write(r, s, row, op, types, "commit")
                           ELSE Rollback(r) /\ UNCHANGED serial
  BY DEF Insert
<1>2. op \in Ops \cup {NoOp} /\ UNCHANGED <<rows, events>>
  BY TxForm DEF DataInv, DataOK, Insert
<1>3. row \in RowType
  BY SMTT(60), <1>2 DEF RowType, Statuses, Active
<1>4. Distinct(types)
  BY Lists DEF EventTypes, Lifecycle
<1>5. RowFree(r, s)
  BY <1>1 DEF IsNew, RowFree
<1> HIDE DEF row, types, op
<1> QED BY <1>1, <1>2, <1>3, <1>4, <1>5, IndexTurn, WriteStep, RollbackKeeps

LEMMA StartFlushKeeps ==
  ASSUME DataInv, NEW r \in Requests, StartFlush(r)
  PROVE  DataInv'
<1> DEFINE s == tx[r].sid
           row == [rows[s] EXCEPT !.status = "active", !.fresh = TRUE]
           types == IF tx[r].seen = "requested" THEN <<"starting", "active">> ELSE <<"active">>
<1>1. s \in Sids /\ TxInv(r, tx[r], serial)
  BY SMTT(60) DEF StartFlush, DataInv, TxInv, Placed
<1>2. Distinct(types)
  BY Lists DEF EventTypes, Lifecycle
<1>3. row \in RowType /\ rows[s].op \in Ops \cup {NoOp}
  BY ZenonT(90), <1>1, RowForm DEF RowType, Statuses, Active
<1>4. /\ RowFree(r, s) /\ UNCHANGED <<rows, events>>
      /\ rows[s].status \in Active \/ IndexFree(r, s)
      /\ IF Rivals(r, s) = {} THEN Write(r, s, row, rows[s].op, types, "commit")
         ELSE Rollback(r) /\ UNCHANGED serial
  BY DEF StartFlush
<1>5. ASSUME rows[s].status \in Active, NEW q \in Requests \ {r}, NEW u \in DOMAIN tx[q].writes \ {s}
      PROVE  tx[q].writes[u].status \notin Active
  <2>1. TxInv(q, tx[q], serial) /\ s \notin DOMAIN tx[q].writes
    BY <1>4 DEF DataInv, RowFree
  <2>2. Seen(tx[q], s).status \in Active
    BY <1>5, <2>1 DEF Seen
  <2> QED BY <1>1, <2>1, <2>2 DEF TxInv, Alone
<1> HIDE DEF s, row, types
<1> QED BY <1>1, <1>2, <1>3, <1>4, <1>5, IndexTurn, WriteStep, RollbackKeeps

LEMMA StopKeeps ==
  ASSUME IndInv, NEW r \in Requests, NEW s \in Sids, Stop(r, s)
  PROVE  DataInv'
<1> DEFINE row == [rows[s] EXCEPT !.status = "stopping"]
           types == IF rows[s].status = "stopping" THEN <<>> ELSE <<"stop_requested">>
           E == Recorded(r, s, NoOp, types)
           W == Put(r, s, row)
           t == [tx[r] EXCEPT !.pc = "wait", !.sid = s, !.cmd = inFlight[Worker(r)][s],
                              !.writes = W, !.events = E]
<1>0. DataInv /\ tx[r] \in TxType /\ tx[r] = IdleTx /\ RowFree(r, s) /\ rows[s].status \in Active
      /\ UNCHANGED <<rows, events>>
  BY DEF IndInv, DataInv, DataOK, Stop, Arrives, TxInv, Placed
<1>1. Distinct(types)
  BY Lists DEF EventTypes, Lifecycle
<1>2. row \in RowType
  BY <1>0, RowForm DEF Statuses, Active
<1>3. inFlight[Worker(r)][s] \in Commands \cup {Nothing}
  <2>1. Worker(r) \in Workers
    BY SessionsAssumption DEF Worker, SessionsAssumption
  <2> QED BY <2>1 DEF IndInv, MemoryOK
<1>4. E \subseteq EventType /\ W \in Written /\ s \in DOMAIN W
  <2> HIDE DEF row, types
  <2>1. serial \in Nat /\ DataOK
    BY <1>0 DEF DataInv, DataOK
  <2>2. E \subseteq EventType
    BY <1>1, <2>1, RecordedForm DEF Form
  <2>3. W \in Written /\ s \in DOMAIN W
    <3>1. r \in Requests /\ s \in Sids /\ row \in RowType
      BY <1>2
    <3>2. W \in Written /\ DOMAIN W = DOMAIN tx[r].writes \cup {s}
      BY <2>1, <3>1, PutForm
    <3> QED BY <3>2
  <2> QED BY <2>2, <2>3
<1>5. (IF rows[s].status = "stopping" THEN {} ELSE Recorded(r, s, NoOp, <<"stop_requested">>)) = E
  <2>1. Recorded(r, s, NoOp, <<>>) = {}
    BY DEF Recorded, EventsOf
  <2> QED BY <2>1
<1>6. tx' = [tx EXCEPT ![r] = t] /\ serial' = serial + Cardinality(E)
  BY <1>5 DEF Stop
<1> HIDE DEF E, W, row, types
<1>7. t \in TxType /\ t.pc = "wait" /\ t.sid = s /\ t.writes = W /\ t.events = E
  BY <1>0, <1>3, <1>4 DEF TxType, Written
<1>8. Placed(t) /\ t.events = tx[r].events \cup E
  BY <1>0, <1>4, <1>7, IdleForm DEF Placed
<1>9. /\ Rivals(r, s) = {}
      /\ \A q \in Requests \ {r} : \A u \in DOMAIN tx[q].writes \ {s} :
           tx[q].writes[u].status \notin Active
  <2>1. \A u \in Sids \ {s} : rows[u].status \notin Active
    BY <1>0 DEF DataInv, One
  <2>2. Rivals(r, s) = {}
    BY <1>0, <2>1, IdleForm DEF Rivals, Row
  <2>3. ASSUME NEW q \in Requests \ {r}, NEW u \in DOMAIN tx[q].writes \ {s}
        PROVE  tx[q].writes[u].status \notin Active
    <3>1. TxInv(q, tx[q], serial) /\ s \notin DOMAIN tx[q].writes
      BY <1>0 DEF DataInv, RowFree
    <3>2. Seen(tx[q], s).status \in Active
      BY <1>0, <3>1 DEF Seen
    <3> QED BY <3>1, <3>2 DEF TxInv, Alone
  <2> QED BY <2>2, <2>3
<1> HIDE DEF t
<1> QED BY <1>0, <1>1, <1>2, <1>6, <1>7, <1>8, <1>9, WriteKeeps DEF E, W

LEMMA CloseKeeps ==
  ASSUME DataInv, NEW r \in Requests, tx[r].pc = "wait", UNCHANGED <<rows, events>>,
         NEW types \in {<<"closed">>, <<"command_timed_out", "closed">>}, CloseWith(r, types)
  PROVE  DataInv'
<1> DEFINE s == tx[r].sid
           row == [tx[r].writes[s] EXCEPT !.status = "closed"]
<1>1. TxInv(r, tx[r], serial) /\ tx[r].writes \in Written
  BY TxForm DEF DataInv, DataOK
<1>2. s \in DOMAIN tx[r].writes /\ s \in Sids /\ tx[r].writes[s] \in RowType
  BY <1>1, WrittenForm DEF TxInv, Placed
<1>3. row \in RowType /\ row.status \notin Active
  BY SMTT(60), <1>2 DEF RowType, Statuses, Ended, Active
<1>4. Distinct(types)
  BY Lists DEF EventTypes, Lifecycle
<1>5. RowFree(r, s)
  BY <1>1, <1>2 DEF TxInv, Locked, RowFree
<1>6. Write(r, s, row, NoOp, types, "commit")
  BY DEF CloseWith
<1> HIDE DEF s, row
<1> QED BY <1>2, <1>3, <1>4, <1>5, <1>6, WriteStep

LEMMA StepKeeps ==
  ASSUME DataInv, NEW r \in Requests, Step(r)
  PROVE  DataInv'
<1>1. CASE StopWaited(r)
  BY <1>1, CloseKeeps DEF StopWaited
<1>2. CASE StopTimedOut(r)
  BY <1>2, CloseKeeps DEF StopTimedOut
<1>3. CASE StopFailed(r)
  BY <1>3, CommitKeeps DEF StopFailed
<1>4. CASE Commit(r)
  BY <1>4, CommitKeeps DEF Commit
<1>5. CASE CommandStart(r)
  <2>1. tx[r].sid \in Sids
    BY <1>5 DEF CommandStart, DataInv, TxInv, Placed
  <2> QED BY <1>5, <2>1, ReportKeeps DEF CommandStart
<1> QED BY <1>1, <1>2, <1>3, <1>4, <1>5, CreateLockedKeeps, EvictKeeps, InsertKeeps, StartFlushKeeps
        DEF Step

LEMMA CrashKeeps ==
  ASSUME DataInv, NEW w \in Workers, Crash(w)
  PROVE  DataInv'
BY OutsideKeeps, IdleForm DEF Crash, DataInv, DataOK

LEMMA HeartbeatKeeps ==
  ASSUME DataInv, NEW s \in Sids, Heartbeat(s) \/ GoStale(s)
  PROVE  DataInv'
<1>0. rows[s] \in RowType /\ rows \in [Sids -> RowType]
  BY DEF DataInv, DataOK
<1>1. PICK f \in BOOLEAN : rows' = [rows EXCEPT ![s] = [rows[s] EXCEPT !.fresh = f]]
  BY DEF Heartbeat, GoStale
<1> DEFINE row == [rows[s] EXCEPT !.fresh = f]
<1>a. row \in RowType /\ row.status = rows[s].status
  BY <1>0 DEF RowType
<1>b. rows' = [rows EXCEPT ![s] = row]
  BY <1>1
<1> HIDE DEF row
<1>2. /\ rows' \in [Sids -> RowType]
      /\ \A u \in Sids : rows'[u].status = rows[u].status
  BY <1>0, <1>a, <1>b
<1>3. UNCHANGED <<events, serial, tx>>
  BY DEF Heartbeat, GoStale
<1>4. tx' \in [Requests -> TxType] /\ \A r \in Requests : tx'[r] = tx[r] \/ tx'[r] = IdleTx
  BY <1>3 DEF DataInv, DataOK
<1> QED BY <1>2, <1>3, <1>4, OutsideKeeps

-----------------------------------------------------------------------------
(* What the workers keep in memory *)

\* The memory after a request: its lock, and the commands in flight.
LEMMA SpendKeeps ==
  ASSUME MemoryOK, NEW b, NEW c,
         spent' = [x \in DOMAIN spent |-> spent[x] + IF x \in {b, c} THEN 1 ELSE 0]
  PROVE  spent' \in [{"requests", "creates", "commands", "crashes"} -> Nat]
BY DEF MemoryOK

LEMMA PopKeeps ==
  ASSUME MemoryOK, NEW w \in Workers, NEW s \in Sids, Pop(w, s)
  PROVE  /\ inFlight' \in [Workers -> [Sids -> Commands \cup {Nothing}]]
         /\ done' \subseteq Commands
BY DEF Pop, MemoryOK

LEMMA MemoryKeeps ==
  ASSUME IndInv, Next
  PROVE  MemoryOK'
<1>0. MemoryOK /\ \A r \in Requests : Worker(r) \in Workers
  BY SessionsAssumption DEF IndInv, Worker, SessionsAssumption
<1>1. ASSUME NEW r \in Requests, NEW op \in Ops, Create(r, op) PROVE MemoryOK'
  <2>1. spent' \in [{"requests", "creates", "commands", "crashes"} -> Nat]
    BY <1>0, <1>1, SpendKeeps DEF Create, Begin
  <2> QED BY <1>0, <1>1, <2>1 DEF Create, MemoryOK
<1>2. ASSUME NEW r \in Requests, NEW s \in Sids,
             Start(r, s) \/ Stop(r, s) \/ CommandRead(r, s) \/ CommandEnd(r, s)
      PROVE  MemoryOK'
  <2>1. CASE Start(r, s)
    <3>1. spent' \in [{"requests", "creates", "commands", "crashes"} -> Nat]
      BY <1>0, <2>1, SpendKeeps DEF Start, Begin
    <3> QED BY <1>0, <2>1, <3>1 DEF Start, MemoryOK
  <2>2. CASE Stop(r, s)
    BY <1>0, <2>2 DEF Stop, MemoryOK
  <2>3. CASE CommandRead(r, s)
    <3>1. spent' \in [{"requests", "creates", "commands", "crashes"} -> Nat]
      BY <1>0, <2>3, SpendKeeps DEF CommandRead, Begin
    <3> QED BY <1>0, <2>3, <3>1 DEF CommandRead, MemoryOK
  <2>4. CASE CommandEnd(r, s)
    BY SMTT(60), <1>0, <2>4, PopKeeps DEF CommandEnd, MemoryOK
  <2> QED BY <1>2, <2>1, <2>2, <2>3, <2>4
<1>3. ASSUME NEW r \in Requests, Step(r) PROVE MemoryOK'
  <2>1. CASE CreateLocked(r)
    BY <1>0, <2>1 DEF CreateLocked, MemoryOK
  <2>2. CASE Insert(r)
    BY <1>0, <2>2 DEF Insert, FreeLock, MemoryOK
  <2>3. CASE StopTimedOut(r)
    <3>1. tx[r].sid \in Sids
      BY <2>3 DEF StopTimedOut, IndInv, DataInv, TxInv, Placed
    <3> QED BY <1>0, <2>3, <3>1, PopKeeps DEF StopTimedOut, MemoryOK
  <2>4. CASE CommandStart(r)
    <3>1. tx[r].sid \in Sids /\ tx[r].cmd \in Commands
      BY <2>4 DEF CommandStart, IndInv, DataInv, TxInv, Placed
    <3> QED BY <1>0, <2>4, <3>1 DEF CommandStart, MemoryOK
  <2> QED BY SMTT(60), <1>0, <1>3, <2>1, <2>2, <2>3, <2>4
          DEF Step, Evict, StartFlush, StopWaited, StopFailed, Commit, MemoryOK
<1>4. ASSUME NEW w \in Workers, Crash(w) PROVE MemoryOK'
  BY <1>0, <1>4 DEF Crash, MemoryOK
<1>5. ASSUME NEW s \in Sids, Heartbeat(s) \/ GoStale(s) PROVE MemoryOK'
  BY <1>0, <1>5 DEF Heartbeat, GoStale, MemoryOK
<1> QED BY <1>1, <1>2, <1>3, <1>4, <1>5 DEF Next, Arrival

-----------------------------------------------------------------------------
(* The theorems *)

LEMMA InitIndInv == Init => IndInv
<1> SUFFICES ASSUME Init PROVE IndInv
  OBVIOUS
<1>1. Absent \in RowType /\ Absent.status \notin Active
  BY DEF Absent, RowType, Statuses, Active
<1>2. DataOK
  BY <1>1, IdleForm DEF Init, DataOK
<1>3. \A s \in Sids : rows[s].status \notin Active
  BY <1>1 DEF Init
<1>4. One /\ LifecycleOnce /\ \A e \in events : e.cursor <= serial
  BY <1>3 DEF Init, One, LifecycleOnce
<1>5. \A r \in Requests : tx[r] = IdleTx
  BY DEF Init
<1>6. \A r \in Requests : TxInv(r, tx[r], serial)
  BY <1>4, <1>5, IdleForm DEF Init, TxInv, Placed, Locked, Alone, Feed, LifecycleOnce
<1>7. MemoryOK
  BY DEF Init, MemoryOK
<1> QED BY <1>2, <1>4, <1>6, <1>7 DEF IndInv, DataInv

LEMMA NextIndInv == IndInv /\ [Next]_vars => IndInv'
<1> SUFFICES ASSUME IndInv, [Next]_vars PROVE IndInv'
  OBVIOUS
<1>0. DataInv
  BY DEF IndInv
<1>1. CASE Next
  <2>1. ASSUME NEW r \in Requests, NEW s \in Sids, CommandEnd(r, s) PROVE DataInv'
    BY <1>0, <2>1, ReportKeeps DEF CommandEnd
  <2>2. ASSUME NEW r \in Requests, Arrival(r) PROVE DataInv'
    BY <2>1, <2>2, ArrivalKeeps, StopKeeps DEF Arrival
  <2>3. DataInv'
    BY <1>0, <1>1, <2>2, StepKeeps, CrashKeeps, HeartbeatKeeps DEF Next
  <2> QED BY <1>1, <2>3, MemoryKeeps DEF IndInv
<1>2. CASE UNCHANGED vars
  BY <1>2 DEF vars, IndInv, DataInv, DataOK, MemoryOK, One, LifecycleOnce, TxInv, Placed, Locked,
              Alone, Seen, Feed
<1> QED BY <1>1, <1>2

LEMMA Invariance == Spec => []IndInv
BY InitIndInv, NextIndInv, PTL DEF Spec

\* The rows, the feed, the transactions and the memory of the workers have their types.
THEOREM TypeCorrect == Spec => []TypeOK
<1>1. IndInv => TypeOK
  BY DEF IndInv, DataInv, DataOK, MemoryOK, TypeOK
<1> QED BY <1>1, Invariance, PTL

\* At most one session of a device is active, for any number of workers, requests
\* and restarts: the lock of the serial number is not needed for it.
THEOREM OneActiveSession == Spec => []OneActive
<1>1. IndInv => OneActive
  <2> DEFINE S == {s \in Sids : rows[s].status \in Active}
  <2> SUFFICES ASSUME IndInv PROVE Cardinality(S) <= 1
    BY DEF OneActive
  <2>1. \A s, u \in S : s = u
    BY DEF IndInv, DataInv, One
  <2> HIDE DEF S
  <2>2. CASE S = {}
    BY <2>2, FS_EmptySet
  <2>3. ASSUME NEW s \in S PROVE Cardinality(S) <= 1
    <3>1. S = {s}
      BY <2>1
    <3>2. Cardinality(S) = 1
      BY <3>1, FS_Singleton
    <3> QED BY <3>2
  <2> QED BY <2>2, <2>3
<1> QED BY <1>1, Invariance, PTL

\* A transition of an operation is in the feed once, however requests race.
THEOREM TransitionReportedOnce == Spec => []LifecycleOnce
<1>1. IndInv => LifecycleOnce
  BY DEF IndInv, DataInv
<1> QED BY <1>1, Invariance, PTL

\* A transition that appears in the feed has a greater cursor than those of its
\* session that are there: a follower that resumes after its last one misses none.
THEOREM FeedOfSessionInOrder == Spec => FeedInOrder
<1>1. IndInv /\ [Next]_vars =>
        [\A e \in events' \ events, f \in events :
           e.sid = f.sid /\ {e.type, f.type} \subseteq Lifecycle => e.cursor > f.cursor]_vars
  <2> SUFFICES ASSUME IndInv, Next, NEW e \in events' \ events, NEW f \in events,
                      e.sid = f.sid, {e.type, f.type} \subseteq Lifecycle
               PROVE  e.cursor > f.cursor
    OBVIOUS
  <2>1. ASSUME NEW r \in Requests, events' = events \cup tx[r].events PROVE e.cursor > f.cursor
    BY SMTT(60), <2>1 DEF IndInv, DataInv, TxInv, Feed
  <2>2. \/ events' = events
        \/ \E r \in Requests : events' = events \cup tx[r].events
    BY ZenonT(90)
    DEF Next, Arrival, Step, Create, CreateLocked, Evict, Insert, Start, StartFlush, Stop,
           StopWaited, StopTimedOut, StopFailed, CommandRead, CommandStart, CommandEnd, Commit,
           Heartbeat, GoStale, Crash
  <2> QED BY <2>1, <2>2
<1> QED BY <1>1, Invariance, PTL DEF Spec, FeedInOrder
-----------------------------------------------------------------------------
(* The video publisher (VideoStream).  The steps a coroutine still has to do *)
(* are a list in which each step of a start comes right behind the one it    *)
(* waits for; that alone, with the one token of the terminal and the one     *)
(* lease that is live, keeps the two contracts apart.                        *)

Item == Steps \X (Ids \cup {None})
Coroutine == [todo: Seq(Item), lease: Leases \cup {None}, ver: 0..2, stream: Ids \cup {None}]
LeaseRow == [st: {"new", "live", "dead"}, ver: {1, 2}, stream: Ids \cup {None}]

\* A step that is only ever done after the one that Before names, for the same stream.
Later == {"save", "send", "check", "publish", "await", "keep"}
Before(step) == CASE step = "save" -> "reserve"
                  [] step = "send" -> "save"
                  [] step = "check" -> "token"
                  [] step = "publish" -> "check"
                  [] step = "await" -> "publish"
                  [] step = "keep" -> "await"
Ordered(todo) ==
  \A i \in 1..(Len(todo) - 1) : todo[i + 1][1] \in Later =>
    todo[i] = <<Before(todo[i + 1][1]), todo[i + 1][2]>>

\* The steps of a v1 start, which ends with the release of its token.
Start1 == {"token", "check", "publish", "await", "keep", "release"}
Ending(todo) ==
  \A i \in 1..Len(todo) : todo[i][1] \in Start1 =>
    /\ todo[Len(todo)] = <<"release", todo[i][2]>>
    /\ todo[i][1] = "release" => i = Len(todo)

\* Steps of which none has to come before another.
PlainSteps == {"reconcile", "poll", "terminate", "clear", "stop", "halt", "kill", "ready",
               "fail", "record", "forget"}
Plain(todo) == \A i \in 1..Len(todo) : todo[i][1] \in PlainSteps

Claims == {s \in Ids : Claimed(s)}

\* What a coroutine still has to do is in order, for a lease and for streams it has claimed.
TodoOK(todo, l, claims) ==
  /\ Ordered(todo) /\ Ending(todo)
  /\ \A i \in 1..Len(todo) :
       /\ todo[i][1] \in {"reserve", "save", "check", "keep"} => l \in Leases
       /\ todo[i][1] \in Start1 => todo[i][2] \in claims

At(todo, step, s) == todo # <<>> /\ Head(todo) = <<step, s>>
Ends(todo, s) == todo # <<>> /\ todo[Len(todo)] = <<"release", s>>

Todos == \A p \in Procs : TodoOK(proc[p].todo, proc[p].lease, Claims)
\* No two coroutines start the same v1 stream.
Apart == \A p, q \in Procs, s \in Ids :
           Ends(proc[p].todo, s) /\ Ends(proc[q].todo, s) => p = q

\* A v1 start that has its token is alone; past its checks, no epoch is live.
Tokens ==
  \A p \in Procs, s \in Ids \cup {None} :
    /\ (\E x \in {"check", "publish", "await", "keep"} : At(proc[p].todo, x, s)) =>
         s \in Legacy /\ doc.pending = s
    /\ (\E x \in {"publish", "await", "keep"} : At(proc[p].todo, x, s)) =>
         doc.st \notin LIVE

\* At most one lease is live, and one that is new records no stream.
OneLease ==
  \A l \in Leases : /\ Valid(l) => current = l
                    /\ lease[l].st = "new" => lease[l].stream = None

\* A lease that records a v1 stream.
Runs1(l) == Valid(l) /\ lease[l].ver = 1 /\ lease[l].stream # None

\* The lease has recorded the stream.
Saved(s) == s \in sent \/ \E p \in Procs : At(proc[p].todo, "send", s)
Epochs ==
  /\ doc.id \in Claims \cup {None}
  /\ sent \subseteq Claims
  /\ \A p \in Procs, s \in Ids \cup {None} :
       At(proc[p].todo, "save", s) \/ At(proc[p].todo, "send", s) => s \in Claims
  /\ doc.st \in LIVE /\ Saved(doc.id) => \A l \in Leases : ~Runs1(l)

StreamTypeOK == VideoTypeOK /\ proc \in [Procs -> Coroutine]
PublisherInv == StreamTypeOK /\ Todos /\ Apart /\ Tokens /\ OneLease /\ Epochs

-----------------------------------------------------------------------------
(* Lists of steps *)

LEMMA BeforeWhat ==
  /\ Before("save") = "reserve" /\ Before("send") = "save" /\ Before("check") = "token"
  /\ Before("publish") = "check" /\ Before("await") = "publish" /\ Before("keep") = "await"
BY DEF Before

\* What the rest of a list holds is what the list holds, one place later.
LEMMA RestOfList ==
  ASSUME NEW todo \in Seq(Item), todo # <<>>
  PROVE  /\ Tail(todo) \in Seq(Item) /\ Len(todo) \in Nat \ {0}
         /\ Len(Tail(todo)) = Len(todo) - 1
         /\ \A i \in 1..Len(Tail(todo)) : Tail(todo)[i] = todo[i + 1]
         /\ Head(todo) = todo[1] /\ todo[1] \in Item
OBVIOUS

LEMMA RestOK ==
  ASSUME NEW todo \in Seq(Item), todo # <<>>, NEW l, NEW claims, TodoOK(todo, l, claims)
  PROVE  TodoOK(Tail(todo), l, claims)
<1> DEFINE rest == Tail(todo)
           n == Len(todo)
<1>1. /\ rest \in Seq(Item) /\ n \in Nat \ {0} /\ Len(rest) = n - 1
      /\ \A i \in 1..(n - 1) : rest[i] = todo[i + 1]
  BY RestOfList
<1> HIDE DEF rest, n
<1>2. Ordered(rest)
  <2> SUFFICES ASSUME NEW i \in 1..(n - 2), rest[i + 1][1] \in Later
               PROVE  rest[i] = <<Before(rest[i + 1][1]), rest[i + 1][2]>>
    BY SMTT(60), <1>1 DEF Ordered
  <2>1. rest[i] = todo[i + 1] /\ rest[i + 1] = todo[i + 2] /\ i + 1 \in 1..(n - 1)
        /\ (i + 1) + 1 = i + 2
    BY SMTT(60), <1>1
  <2> QED BY <2>1 DEF TodoOK, Ordered, n
<1>3. Ending(rest)
  <2> SUFFICES ASSUME NEW i \in 1..(n - 1), rest[i][1] \in Start1
               PROVE  /\ rest[n - 1] = <<"release", rest[i][2]>>
                      /\ rest[i][1] = "release" => i = n - 1
    BY <1>1 DEF Ending
  <2>1. rest[i] = todo[i + 1] /\ i + 1 \in 1..n /\ rest[n - 1] = todo[n]
    BY <1>1
  <2>2. /\ todo[n] = <<"release", todo[i + 1][2]>>
        /\ todo[i + 1][1] = "release" => i + 1 = n
    BY <2>1 DEF TodoOK, Ending, n
  <2> QED BY <1>1, <2>1, <2>2
<1>4. \A i \in 1..Len(rest) :
        /\ rest[i][1] \in {"reserve", "save", "check", "keep"} => l \in Leases
        /\ rest[i][1] \in Start1 => rest[i][2] \in claims
  <2> SUFFICES ASSUME NEW i \in 1..(n - 1)
               PROVE  /\ rest[i][1] \in {"reserve", "save", "check", "keep"} => l \in Leases
                      /\ rest[i][1] \in Start1 => rest[i][2] \in claims
    BY <1>1
  <2>1. rest[i] = todo[i + 1] /\ i + 1 \in 1..n
    BY <1>1
  <2> QED BY <2>1 DEF TodoOK, n
<1> QED BY <1>2, <1>3, <1>4 DEF TodoOK, rest

\* A step that has to come after another follows it in the list, for the same stream.
LEMMA WhatFollows ==
  ASSUME NEW todo \in Seq(Item), NEW step, NEW s, Ordered(todo), At(todo, step, s),
         NEW x \in Later, NEW t, At(Tail(todo), x, t)
  PROVE  step = Before(x) /\ t = s
<1>1. todo # <<>> /\ todo[1] = <<step, s>> /\ Tail(todo)[1] = <<x, t>> /\ Tail(todo) # <<>>
  BY RestOfList DEF At
<1>2. Len(todo) \in Nat /\ Len(todo) >= 2 /\ Tail(todo)[1] = todo[2] /\ 1 \in 1..(Len(todo) - 1)
  BY <1>1, RestOfList
<1>3. todo[1 + 1] = <<x, t>>
  BY <1>1, <1>2
<1>4. todo[1] = <<Before(x), t>>
  BY <1>2, <1>3 DEF Ordered
<1> QED BY <1>1, <1>4

\* Plain steps can be put in front of a list that does not begin with a later one.
LEMMA PlainInFront ==
  ASSUME NEW more \in Seq(Item), NEW rest \in Seq(Item), Plain(more),
         NEW l, NEW claims, TodoOK(rest, l, claims),
         rest # <<>> => rest[1][1] \notin Later
  PROVE  /\ more \o rest \in Seq(Item)
         /\ TodoOK(more \o rest, l, claims)
         /\ more \o rest # <<>> => Head(more \o rest)[1] \notin Later
         /\ \A s : Ends(more \o rest, s) => Ends(rest, s)
<1> DEFINE all == more \o rest
           m == Len(more)
           n == Len(rest)
<1>1. /\ all \in Seq(Item) /\ m \in Nat /\ n \in Nat /\ Len(all) = m + n
      /\ \A i \in 1..(m + n) : all[i] = IF i <= m THEN more[i] ELSE rest[i - m]
  OBVIOUS
<1>9. /\ m \in Nat /\ n \in Nat /\ Len(all) = m + n
      /\ \A i \in 1..(m + n) : all[i] = IF i <= m THEN more[i] ELSE rest[i - m]
  BY <1>1
<1>0. \A i \in 1..m : more[i][1] \notin Later /\ more[i][1] \notin Start1
                        /\ more[i][1] # "reserve"
  BY DEF Plain, PlainSteps, Later, Start1
<1> HIDE DEF all, m, n
<1>2. Ordered(all)
  <2> SUFFICES ASSUME NEW i \in 1..(m + n - 1), all[i + 1][1] \in Later
               PROVE  all[i] = <<Before(all[i + 1][1]), all[i + 1][2]>>
    BY <1>9 DEF Ordered
  <2>1. CASE i + 1 <= m
    <3>1. all[i + 1] = more[i + 1] /\ i + 1 \in 1..m
      BY <1>9, <2>1
    <3> QED BY <3>1, <1>0
  <2>2. CASE i = m
    <3>1. all[i + 1] = rest[1] /\ n >= 1
      BY <1>9, <2>2
    <3>2. rest # <<>>
      BY <3>1 DEF n
    <3> QED BY <3>1, <3>2
  <2>3. CASE i > m
    <3>1. /\ i \in 1..(m + n) /\ i + 1 \in 1..(m + n) /\ ~(i <= m) /\ ~(i + 1 <= m)
          /\ (i + 1) - m = (i - m) + 1 /\ i - m \in 1..(n - 1)
      BY SMTT(60), <1>9, <2>3
    <3>2. all[i] = rest[i - m] /\ all[i + 1] = rest[(i - m) + 1]
      BY <1>9, <3>1
    <3> QED BY <3>1, <3>2 DEF TodoOK, Ordered, n
  <2> QED BY <1>9, <2>1, <2>2, <2>3
<1>3. Ending(all)
  <2> SUFFICES ASSUME NEW i \in 1..(m + n), all[i][1] \in Start1
               PROVE  /\ all[m + n] = <<"release", all[i][2]>>
                      /\ all[i][1] = "release" => i = m + n
    BY <1>9 DEF Ending
  <2>1. i > m
    BY SMTT(60), <1>0, <1>1
  <2>2. all[i] = rest[i - m] /\ all[m + n] = rest[n] /\ i - m \in 1..n
    BY <1>9, <2>1
  <2>3. /\ rest[n] = <<"release", rest[i - m][2]>>
        /\ rest[i - m][1] = "release" => i - m = n
    BY <2>2 DEF TodoOK, Ending, n
  <2> QED BY <1>9, <2>2, <2>3
<1>4. \A i \in 1..Len(all) :
        /\ all[i][1] \in {"reserve", "save", "check", "keep"} => l \in Leases
        /\ all[i][1] \in Start1 => all[i][2] \in claims
  <2> SUFFICES ASSUME NEW i \in 1..(m + n)
               PROVE  /\ all[i][1] \in {"reserve", "save", "check", "keep"} => l \in Leases
                      /\ all[i][1] \in Start1 => all[i][2] \in claims
    BY <1>1
  <2>1. CASE i <= m
    <3>1. all[i] = more[i] /\ i \in 1..m
      BY <1>9, <2>1
    <3>2. more[i][1] \notin Later /\ more[i][1] \notin Start1 /\ more[i][1] # "reserve"
      BY <1>0, <3>1
    <3> QED BY <3>1, <3>2 DEF Later
  <2>2. CASE i > m
    <3>1. all[i] = rest[i - m] /\ i - m \in 1..n
      BY <1>9, <2>2
    <3> QED BY <3>1 DEF TodoOK, n
  <2> QED BY <1>9, <2>1, <2>2
<1>5. all # <<>> => Head(all)[1] \notin Later
  <2> SUFFICES ASSUME all # <<>> PROVE Head(all)[1] \notin Later
    OBVIOUS
  <2>1. Head(all) = all[1] /\ m + n >= 1
    BY <1>1
  <2>2. CASE m >= 1
    BY <1>0, <1>1, <2>1, <2>2
  <2>3. CASE m = 0
    <3>1. all[1] = rest[1] /\ n >= 1
      BY <1>9, <2>1, <2>3
    <3>2. rest # <<>>
      BY <3>1 DEF n
    <3> QED BY <2>1, <3>1, <3>2
  <2> QED BY <1>9, <2>2, <2>3
<1>6. ASSUME NEW s, Ends(all, s) PROVE Ends(rest, s)
  <2>1. m + n >= 1 /\ all[m + n] = <<"release", s>>
    BY <1>1, <1>6 DEF Ends
  <2>2. CASE n = 0
    <3>1. all[m + n] = more[m] /\ m \in 1..m
      BY <1>9, <2>1, <2>2
    <3>2. more[m][1] = "release"
      BY <2>1, <3>1
    <3> QED BY <1>0, <3>1, <3>2 DEF Start1
  <2>3. CASE n >= 1
    <3>1. all[m + n] = rest[n]
      BY <1>9, <2>3
    <3>2. rest # <<>>
      BY <2>3 DEF n
    <3> QED BY <2>1, <3>1, <3>2 DEF Ends, n
  <2> QED BY <1>9, <2>2, <2>3
<1>7. TodoOK(all, l, claims)
  BY <1>2, <1>3, <1>4 DEF TodoOK
<1>8. \A s : Ends(all, s) => Ends(rest, s)
  BY <1>6
<1> QED BY <1>1, <1>5, <1>7, <1>8 DEF all

LEMMA EmptyOK == \A l, claims : TodoOK(<<>>, l, claims) /\ Plain(<<>>) /\ <<>> \in Seq(Item)
BY DEF TodoOK, Ordered, Ending, Plain

LEMMA PlainOK ==
  ASSUME NEW more \in Seq(Item), Plain(more), NEW l, NEW claims
  PROVE  /\ TodoOK(more, l, claims)
         /\ more # <<>> => Head(more)[1] \notin Later
         /\ \A s : ~Ends(more, s)
<1>1. more \o <<>> = more
  OBVIOUS
<1>2. ~ \E s : Ends(<<>>, s)
  BY DEF Ends
<1>3. TodoOK(<<>>, l, claims) /\ <<>> \in Seq(Item)
  BY EmptyOK
<1>4. /\ TodoOK(more \o <<>>, l, claims)
      /\ more \o <<>> # <<>> => Head(more \o <<>>)[1] \notin Later
      /\ \A s : Ends(more \o <<>>, s) => Ends(<<>>, s)
  BY <1>3, PlainInFront
<1> QED BY <1>1, <1>2, <1>4

-----------------------------------------------------------------------------
(* What a step does to the coroutines *)

\* The rest of the state has its type.
RestTypeOK ==
  /\ doc \in [id: Streams \cup {None}, st: LIVE \cup {"none", "stopped", "failed"},
              pending: Legacy \cup {None}]
  /\ owner \in [Ids -> Leases \cup {None}]
  /\ lease \in [Leases -> LeaseRow]
  /\ current \in Leases \cup {None}
  /\ ctl \in Seq({"START", "STOP"} \X Ids)
  /\ sent \subseteq Ids /\ playing \subseteq Ids
  /\ up \subseteq {"READY", "ERROR", "NACK"} \X Ids
  /\ asked \in 0..MaxEvents /\ faults \in 0..MaxFaults

LEMMA TypesTogether == StreamTypeOK <=> RestTypeOK /\ proc \in [Procs -> Coroutine]
<1>1. proc \in [Procs -> Coroutine] =>
        \A p \in Procs : /\ proc[p].todo \in Seq(Steps \X (Ids \cup {None}))
                         /\ proc[p].lease \in Leases \cup {None}
                         /\ proc[p].ver \in 0..2
                         /\ proc[p].stream \in Ids \cup {None}
  BY DEF Coroutine, Item
<1> QED BY <1>1 DEF StreamTypeOK, VideoTypeOK, RestTypeOK, LeaseRow

LEMMA TypesTogetherNext == StreamTypeOK' <=> RestTypeOK' /\ proc' \in [Procs -> Coroutine]
<1>1. proc' \in [Procs -> Coroutine] =>
        \A p \in Procs : /\ proc'[p].todo \in Seq(Steps \X (Ids \cup {None}))
                         /\ proc'[p].lease \in Leases \cup {None}
                         /\ proc'[p].ver \in 0..2
                         /\ proc'[p].stream \in Ids \cup {None}
  BY DEF Coroutine, Item
<1> QED BY <1>1 DEF StreamTypeOK, VideoTypeOK, RestTypeOK, LeaseRow

\* The coroutine stays as it is, or its list is in order and begins with no later step.
Calm(p) ==
  \/ proc'[p] = proc[p]
  \/ /\ TodoOK(proc'[p].todo, proc'[p].lease, Claims')
     /\ proc'[p].todo # <<>> => Head(proc'[p].todo)[1] \notin Later
     /\ \A s : Ends(proc'[p].todo, s) => Ends(proc[p].todo, s)

\* No lease begins to run a v1 stream.
LeasesCalm == OneLease' /\ \A l \in Leases : Runs1(l)' => Runs1(l)

LEMMA MoreClaims ==
  ASSUME NEW todo, NEW l, NEW a, NEW b, a \subseteq b, TodoOK(todo, l, a)
  PROVE  TodoOK(todo, l, b)
BY DEF TodoOK

LEMMA TodosStep ==
  ASSUME Todos, Claims \subseteq Claims',
         \A p \in Procs : proc'[p] = proc[p] \/ TodoOK(proc'[p].todo, proc'[p].lease, Claims')
  PROVE  Todos'
<1> SUFFICES ASSUME NEW p \in Procs PROVE TodoOK(proc'[p].todo, proc'[p].lease, Claims')
  BY DEF Todos
<1>1. TodoOK(proc[p].todo, proc[p].lease, Claims)
  BY DEF Todos
<1>2. TodoOK(proc[p].todo, proc[p].lease, Claims')
  BY <1>1, MoreClaims
<1> QED BY <1>2

LEMMA ApartStep ==
  ASSUME Apart,
         \A p \in Procs, s \in Ids : Ends(proc'[p].todo, s) => Ends(proc[p].todo, s)
  PROVE  Apart'
BY DEF Apart

\* A list that begins with no later step begins with none of those named.
LEMMA NotLater ==
  ASSUME NEW todo, todo # <<>> => Head(todo)[1] \notin Later, NEW x \in Later, NEW s
  PROVE  ~At(todo, x, s)
BY DEF At

LEMMA TokensStep ==
  ASSUME Tokens, doc'.pending = doc.pending, doc'.st \in LIVE => doc.st \in LIVE,
         \A p \in Procs : \/ proc'[p] = proc[p]
                          \/ proc'[p].todo # <<>> => Head(proc'[p].todo)[1] \notin Later
  PROVE  Tokens'
<1> SUFFICES ASSUME NEW p \in Procs, NEW s \in Ids \cup {None},
                    NEW x \in {"check", "publish", "await", "keep"}, At(proc'[p].todo, x, s)
             PROVE  /\ s \in Legacy /\ doc'.pending = s
                    /\ x \in {"publish", "await", "keep"} => doc'.st \notin LIVE
  BY DEF Tokens
<1>1. proc'[p] = proc[p]
  BY NotLater DEF Later
<1>2. At(proc[p].todo, x, s)
  BY <1>1
<1>3. s \in Legacy /\ doc.pending = s
  BY <1>2 DEF Tokens
<1>4. x \in {"publish", "await", "keep"} => doc.st \notin LIVE
  BY <1>2 DEF Tokens
<1> QED BY <1>3, <1>4

LEMMA EpochsStep ==
  ASSUME Epochs, Claims \subseteq Claims', doc'.id = doc.id, doc'.st \in LIVE => doc.st \in LIVE,
         sent' = sent, \A l \in Leases : Runs1(l)' => Runs1(l),
         \A p \in Procs : \/ proc'[p] = proc[p]
                          \/ proc'[p].todo # <<>> => Head(proc'[p].todo)[1] \notin Later
  PROVE  Epochs'
<1>1. ASSUME NEW p \in Procs, NEW s, NEW x \in {"save", "send"}, At(proc'[p].todo, x, s)
      PROVE  At(proc[p].todo, x, s)
  <2>1. proc'[p] = proc[p]
    BY <1>1, NotLater DEF Later
  <2> QED BY <1>1, <2>1
<1>2. \A p \in Procs, s \in Ids \cup {None} :
        At(proc'[p].todo, "save", s) \/ At(proc'[p].todo, "send", s) => s \in Claims'
  BY <1>1 DEF Epochs
<1>3. Saved(doc.id)' => Saved(doc.id)
  BY <1>1 DEF Saved
<1> QED BY <1>2, <1>3 DEF Epochs

\* A step that changes nothing of what the invariant speaks of but plain steps.
LEMMA Quiet ==
  ASSUME PublisherInv, StreamTypeOK', Claims \subseteq Claims', LeasesCalm,
         doc'.id = doc.id, doc'.pending = doc.pending, doc'.st \in LIVE => doc.st \in LIVE,
         sent' = sent, \A p \in Procs : Calm(p)
  PROVE  PublisherInv'
<1>1. Todos'
  BY TodosStep DEF PublisherInv, Calm
<1>2. Apart'
  <2>1. \A p \in Procs, s \in Ids : Ends(proc'[p].todo, s) => Ends(proc[p].todo, s)
    BY DEF Calm
  <2> QED BY <2>1, ApartStep DEF PublisherInv
<1>3. Tokens'
  BY TokensStep DEF PublisherInv, Calm
<1>4. Epochs'
  BY EpochsStep DEF PublisherInv, Calm, LeasesCalm
<1> QED BY <1>1, <1>2, <1>3, <1>4 DEF PublisherInv, LeasesCalm

LEMMA IdleOK == Idle \in Coroutine /\ Idle.todo = <<>>
BY EmptyOK DEF Idle, Coroutine

\* A coroutine gets a new list.
LEMMA BecomeForm ==
  ASSUME proc \in [Procs -> Coroutine], NEW p \in Procs, NEW todo \in Seq(Item),
         Become(p, todo)
  PROVE  /\ proc' \in [Procs -> Coroutine]
         /\ \A q \in Procs \ {p} : proc'[q] = proc[q]
         /\ proc'[p].todo = todo
         /\ todo # <<>> => proc'[p].lease = proc[p].lease
<1>1. /\ proc[p].todo \in Seq(Item) /\ proc[p].lease \in Leases \cup {None}
      /\ proc[p].ver \in 0..2 /\ proc[p].stream \in Ids \cup {None}
      /\ proc[p] = [todo |-> proc[p].todo, lease |-> proc[p].lease, ver |-> proc[p].ver,
                    stream |-> proc[p].stream]
  BY DEF Coroutine
<1>2. CASE todo = <<>>
  <2>1. proc' = [proc EXCEPT ![p] = Idle]
    BY <1>2 DEF Become
  <2> QED BY <1>2, <2>1, IdleOK
<1>3. CASE todo # <<>>
  <2> DEFINE new == [todo |-> todo, lease |-> proc[p].lease, ver |-> proc[p].ver,
                     stream |-> proc[p].stream]
  <2>1. [proc[p] EXCEPT !.todo = todo] = new
    BY <1>1
  <2>2. proc' = [proc EXCEPT ![p] = new]
    BY <1>3, <2>1 DEF Become
  <2>3. new \in Coroutine
    BY <1>1 DEF Coroutine
  <2> QED BY <2>2, <2>3
<1> QED BY <1>2, <1>3

\* A coroutine whose new list holds plain steps only is calm.
LEMMA BecomePlain ==
  ASSUME proc \in [Procs -> Coroutine], NEW p \in Procs, NEW todo \in Seq(Item), Plain(todo),
         Become(p, todo)
  PROVE  proc' \in [Procs -> Coroutine] /\ \A q \in Procs : Calm(q)
<1>1. /\ proc' \in [Procs -> Coroutine]
      /\ \A q \in Procs \ {p} : proc'[q] = proc[q]
      /\ proc'[p].todo = todo
  BY BecomeForm
<1>2. /\ TodoOK(todo, proc'[p].lease, Claims')
      /\ todo # <<>> => Head(todo)[1] \notin Later
      /\ \A s : ~Ends(todo, s)
  BY PlainOK
<1>3. Calm(p)
  BY <1>1, <1>2 DEF Calm
<1> QED BY <1>1, <1>3 DEF Calm

\* The steps that a later one waits for.
Earlier == {"reserve", "save", "token", "check", "publish", "await"}

\* A coroutine goes on behind a step that nothing waits for, or with plain steps.
LEMMA ThenPlain ==
  ASSUME proc \in [Procs -> Coroutine], Todos, Claims \subseteq Claims',
         NEW p \in Procs, NEW step, NEW s, Doing(p, step, s), step \notin Earlier,
         NEW more \in Seq(Item), Plain(more), Then(p, more)
  PROVE  proc' \in [Procs -> Coroutine] /\ \A q \in Procs : Calm(q)
<1> DEFINE todo == proc[p].todo
           rest == Tail(todo)
           all == more \o rest
<1>1. todo \in Seq(Item) /\ todo # <<>> /\ Head(todo) = <<step, s>>
  BY DEF Doing, Coroutine
<1>2. TodoOK(todo, proc[p].lease, Claims')
  BY MoreClaims DEF Todos
<1>3. TodoOK(rest, proc[p].lease, Claims') /\ rest \in Seq(Item)
  BY <1>1, <1>2, RestOK, RestOfList
<1>4. rest # <<>> => rest[1][1] \notin Later
  <2> SUFFICES ASSUME rest # <<>>, rest[1][1] \in Later PROVE FALSE
    OBVIOUS
  <2>1. rest[1] \in Item /\ rest[1] = <<rest[1][1], rest[1][2]>> /\ Head(rest) = rest[1]
    BY <1>3, RestOfList DEF Item
  <2>2. At(rest, rest[1][1], rest[1][2]) /\ At(todo, step, s)
    BY <1>1, <2>1 DEF At
  <2>3. Ordered(todo)
    BY <1>2 DEF TodoOK
  <2>4. step = Before(rest[1][1])
    BY <1>1, <2>2, <2>3, WhatFollows
  <2> QED BY <2>4, BeforeWhat DEF Later, Earlier
<1>5. /\ all \in Seq(Item)
      /\ TodoOK(all, proc[p].lease, Claims')
      /\ all # <<>> => Head(all)[1] \notin Later
      /\ \A x : Ends(all, x) => Ends(rest, x)
  BY <1>3, <1>4, PlainInFront
<1>6. /\ proc' \in [Procs -> Coroutine]
      /\ \A q \in Procs \ {p} : proc'[q] = proc[q]
      /\ proc'[p].todo = all
      /\ all # <<>> => proc'[p].lease = proc[p].lease
  BY <1>5, BecomeForm DEF Then
<1>7. ASSUME NEW x, Ends(rest, x) PROVE Ends(todo, x)
  BY <1>1, <1>7, RestOfList DEF Ends
<1> HIDE DEF all
<1>8. TodoOK(all, proc'[p].lease, Claims')
  <2>1. CASE all = <<>>
    BY <2>1, EmptyOK
  <2>2. CASE all # <<>>
    BY <1>5, <1>6, <2>2
  <2> QED BY <2>1, <2>2
<1>9. Calm(p)
  BY <1>5, <1>6, <1>7, <1>8 DEF Calm
<1> QED BY <1>6, <1>9 DEF Calm

LEMMA PublisherStarts == VideoInit => PublisherInv
<1> SUFFICES ASSUME VideoInit PROVE PublisherInv
  OBVIOUS
<1>1. \A p \in Procs : proc[p] = Idle /\ proc[p].todo = <<>>
  BY IdleOK DEF VideoInit
<1>2. RestTypeOK
  BY StreamsAssumption DEF VideoInit, RestTypeOK, LeaseRow, Claimed
<1>3. proc \in [Procs -> Coroutine]
  BY IdleOK DEF VideoInit
<1>4. Todos /\ Apart /\ Tokens
  <2>1. \A todo, x, s : todo = <<>> => ~At(todo, x, s) /\ ~Ends(todo, s)
    BY DEF At, Ends
  <2> QED BY <1>1, <2>1, EmptyOK DEF Todos, Apart, Tokens
<1>5. OneLease /\ Epochs
  <2>1. \A p \in Procs : \A x, s : ~At(proc[p].todo, x, s)
    BY <1>1 DEF At
  <2>2. doc.st \notin LIVE /\ doc.id = None /\ sent = {}
    BY DEF VideoInit, LIVE
  <2> QED BY <2>1, <2>2 DEF VideoInit, OneLease, Valid, Epochs
<1> QED BY <1>2, <1>3, <1>4, <1>5, TypesTogether DEF PublisherInv

LEMMA WhatIsCalled ==
  ASSUME StreamTypeOK
  PROVE  /\ RestTypeOK /\ proc \in [Procs -> Coroutine]
         /\ doc = [id |-> doc.id, st |-> doc.st, pending |-> doc.pending]
         /\ doc.id \in Streams \cup {None} /\ doc.pending \in Legacy \cup {None}
         /\ doc.st \in LIVE \cup {"none", "stopped", "failed"}
         /\ \A p \in Procs : /\ proc[p].todo \in Seq(Item) /\ proc[p].lease \in Leases \cup {None}
                             /\ proc[p].ver \in 0..2 /\ proc[p].stream \in Ids \cup {None}
         /\ \A l \in Leases : /\ lease[l].st \in {"new", "live", "dead"}
                              /\ lease[l].ver \in {1, 2} /\ lease[l].stream \in Ids \cup {None}
         /\ \A s \in Ids : owner[s] \in Leases \cup {None}
BY TypesTogether DEF RestTypeOK, Coroutine, LeaseRow

\* An epoch that has ended is the same epoch.
LEMMA FinishedForm ==
  ASSUME RestTypeOK, NEW s, NEW st \in {"stopped", "failed"}
  PROVE  /\ Finished(s, st) \in [id: Streams \cup {None},
                                 st: LIVE \cup {"none", "stopped", "failed"},
                                 pending: Legacy \cup {None}]
         /\ Finished(s, st).id = doc.id /\ Finished(s, st).pending = doc.pending
         /\ Finished(s, st).st \in LIVE => doc.st \in LIVE
BY DEF RestTypeOK, Finished, LIVE

\* A lease hash is written for a lease that is live, and its stream was as expected.
LEMMA StoredForm ==
  ASSUME RestTypeOK, NEW l, NEW e, NEW s \in Ids \cup {None}, NEW ver,
         l \in Leases => ver \in {1, 2}
  PROVE  /\ Stored(l, e, s, ver) \in [Leases -> LeaseRow]
         /\ \A k \in Leases :
              /\ Stored(l, e, s, ver)[k].st = lease[k].st
              /\ \/ Stored(l, e, s, ver)[k] = lease[k]
                 \/ /\ k = l /\ Valid(l) /\ lease[l].stream = e
                    /\ Stored(l, e, s, ver)[k].stream = s
                    /\ Stored(l, e, s, ver)[k].ver = ver
         /\ Stored(l, e, s, ver) # lease => l \in Leases /\ Valid(l)
<1>1. CASE l \in Leases /\ Valid(l) /\ lease[l].stream = e
  <2> DEFINE new == [st |-> lease[l].st, ver |-> ver, stream |-> s]
  <2>1. lease \in [Leases -> LeaseRow] /\ lease[l].st \in {"new", "live", "dead"}
        /\ lease[l] = [st |-> lease[l].st, ver |-> lease[l].ver, stream |-> lease[l].stream]
    BY <1>1 DEF RestTypeOK, LeaseRow
  <2>2. Stored(l, e, s, ver) = [lease EXCEPT ![l] = new]
    <3> DEFINE mid == [st |-> lease[l].st, ver |-> lease[l].ver, stream |-> s]
               half == [lease EXCEPT ![l] = mid]
    <3>1. [lease EXCEPT ![l].stream = s] = half
      <4>1. [lease[l] EXCEPT !.stream = s] = mid
        BY <2>1
      <4> QED BY <4>1
    <3>2. half[l] = mid /\ DOMAIN half = Leases
      BY <1>1, <2>1
    <3>3. [half[l] EXCEPT !.ver = ver] = new
      BY <3>2
    <3>4. [half EXCEPT ![l].ver = ver] = [half EXCEPT ![l] = new]
      BY <3>3
    <3>5. [half EXCEPT ![l] = new] = [lease EXCEPT ![l] = new]
      BY <1>1, <2>1
    <3>6. Stored(l, e, s, ver) = [[lease EXCEPT ![l].stream = s] EXCEPT ![l].ver = ver]
      BY <1>1 DEF Stored
    <3> HIDE DEF half, new
    <3> QED BY <3>1, <3>4, <3>5, <3>6
  <2>3. new \in LeaseRow
    BY <1>1, <2>1 DEF LeaseRow
  <2> QED BY <1>1, <2>1, <2>2, <2>3
<1>2. CASE ~(Valid(l) /\ lease[l].stream = e)
  <2>1. Stored(l, e, s, ver) = lease
    BY <1>2 DEF Stored
  <2> QED BY <2>1 DEF RestTypeOK
<1>3. CASE l \notin Leases
  <2>1. lease \in [Leases -> LeaseRow]
    BY DEF RestTypeOK
  <2>2. Stored(l, e, s, ver) = lease
    BY <1>3, <2>1 DEF Stored
  <2> QED BY <2>1, <2>2
<1> QED BY <1>1, <1>2, <1>3

LEMMA ClearedForm ==
  ASSUME RestTypeOK, NEW s \in Ids
  PROVE  /\ Cleared(s) \in [Leases -> LeaseRow]
         /\ \A k \in Leases : /\ Cleared(s)[k].st = lease[k].st
                              /\ Cleared(s)[k] = lease[k] \/ Cleared(s)[k].stream = None
<1>1. owner[s] \in Leases => lease[owner[s]].ver \in {1, 2}
  BY DEF RestTypeOK, LeaseRow
<1> QED BY <1>1, StoredForm DEF Cleared

\* Leases of which none is new, runs or begins to run v1.
LEMMA ClearedCalm ==
  ASSUME RestTypeOK, OneLease, current' = current,
         lease' = lease \/ \E s \in Ids : lease' = Cleared(s)
  PROVE  lease' \in [Leases -> LeaseRow] /\ LeasesCalm
<1>1. /\ lease' \in [Leases -> LeaseRow]
      /\ \A k \in Leases : /\ lease'[k].st = lease[k].st
                           /\ lease'[k] = lease[k] \/ lease'[k].stream = None
  BY ClearedForm DEF RestTypeOK
<1> QED BY <1>1 DEF OneLease, LeasesCalm, Runs1, Valid

LEMMA SameLeasesCalm ==
  ASSUME OneLease, lease' = lease, current' = current
  PROVE  LeasesCalm
BY DEF OneLease, LeasesCalm, Runs1, Valid

LEMMA SameCoroutines == proc' = proc => \A p \in Procs : Calm(p)
BY DEF Calm

LEMMA OneOf == \A step \in PlainSteps, s \in Ids \cup {None} :
                 <<<<step, s>>>> \in Seq(Item) /\ Plain(<<<<step, s>>>>)
<1> SUFFICES ASSUME NEW step \in PlainSteps, NEW s \in Ids \cup {None}
             PROVE  <<<<step, s>>>> \in Seq(Item) /\ Plain(<<<<step, s>>>>)
  OBVIOUS
<1>1. <<step, s>> \in Item
  BY DEF Item, PlainSteps, Steps
<1> QED BY <1>1 DEF Plain

LEMMA TwoOf == \A a, b \in PlainSteps, s, t \in Ids \cup {None} :
                 <<<<a, s>>, <<b, t>>>> \in Seq(Item) /\ Plain(<<<<a, s>>, <<b, t>>>>)
<1> SUFFICES ASSUME NEW a \in PlainSteps, NEW b \in PlainSteps,
                    NEW s \in Ids \cup {None}, NEW t \in Ids \cup {None}
             PROVE  <<<<a, s>>, <<b, t>>>> \in Seq(Item) /\ Plain(<<<<a, s>>, <<b, t>>>>)
  OBVIOUS
<1>1. <<a, s>> \in Item /\ <<b, t>> \in Item
  BY DEF Item, PlainSteps, Steps
<1> QED BY <1>1 DEF Plain

LEMMA PlainJoined ==
  ASSUME NEW a \in Seq(Item), NEW b \in Seq(Item), Plain(a), Plain(b)
  PROVE  a \o b \in Seq(Item) /\ Plain(a \o b)
<1>1. /\ a \o b \in Seq(Item) /\ Len(a \o b) = Len(a) + Len(b)
      /\ Len(a) \in Nat /\ Len(b) \in Nat
      /\ \A i \in 1..(Len(a) + Len(b)) :
           (a \o b)[i] = IF i <= Len(a) THEN a[i] ELSE b[i - Len(a)]
  OBVIOUS
<1>2. ASSUME NEW i \in 1..(Len(a) + Len(b)) PROVE (a \o b)[i][1] \in PlainSteps
  <2>1. CASE i <= Len(a)
    BY <1>1, <2>1 DEF Plain
  <2>2. CASE i > Len(a)
    <3>1. i - Len(a) \in 1..Len(b) /\ (a \o b)[i] = b[i - Len(a)]
      BY <1>1, <2>2
    <3> QED BY <3>1 DEF Plain
  <2> QED BY <1>1, <2>1, <2>2
<1> QED BY <1>1, <1>2 DEF Plain

LEMMA OneMoreCommand ==
  ASSUME ctl \in Seq({"START", "STOP"} \X Ids), NEW c \in {"START", "STOP"}, NEW s \in Ids
  PROVE  Append(ctl, <<c, s>>) \in Seq({"START", "STOP"} \X Ids)
<1>1. <<c, s>> \in {"START", "STOP"} \X Ids
  OBVIOUS
<1> HIDE DEF Ids
<1> QED BY <1>1

LEMMA Spending ==
  ASSUME RestTypeOK
  PROVE  /\ Event => asked' \in 0..MaxEvents
         /\ Fault => faults' \in 0..MaxFaults
BY StreamsAssumption DEF RestTypeOK, Event, Fault

-----------------------------------------------------------------------------
(* The steps that only plain steps follow *)

LEMMA QuietWork ==
  ASSUME PublisherInv, RestTypeOK', owner' = owner, LeasesCalm,
         doc'.id = doc.id, doc'.pending = doc.pending, doc'.st \in LIVE => doc.st \in LIVE,
         sent' = sent, NEW p \in Procs, NEW step, NEW s, Doing(p, step, s),
         NEW more \in Seq(Item), Plain(more),
         Become(p, more) \/ (step \notin Earlier /\ Then(p, more))
  PROVE  PublisherInv'
<1>1. Claims' = Claims /\ Todos /\ proc \in [Procs -> Coroutine]
  BY TypesTogether DEF PublisherInv, Claims, Claimed
<1>2. proc' \in [Procs -> Coroutine] /\ \A q \in Procs : Calm(q)
  BY <1>1, BecomePlain, ThenPlain
<1>3. StreamTypeOK'
  BY <1>2, TypesTogetherNext
<1> QED BY <1>1, <1>2, <1>3, Quiet

LEMMA KillQuiet == ASSUME PublisherInv, NEW p \in Procs, Kill(p) PROVE PublisherInv'
<1> DEFINE l == proc[p].lease
<1>0. RestTypeOK /\ OneLease
  BY WhatIsCalled DEF PublisherInv
<1>1. /\ lease' = [lease EXCEPT ![l].st = "dead"]
      /\ current' = IF current = l THEN None ELSE current
      /\ UNCHANGED <<doc, owner, ctl, sent, playing, up, asked, faults>>
      /\ Doing(p, "kill", None) /\ Then(p, <<>>)
  BY DEF Kill
<1> HIDE DEF l
<1>2. /\ lease' \in [Leases -> LeaseRow]
      /\ \A k \in Leases \ {l} : lease'[k] = lease[k]
      /\ l \in Leases => lease'[l].st = "dead"
  <2>1. lease \in [Leases -> LeaseRow]
    BY <1>0 DEF RestTypeOK
  <2>2. CASE l \in Leases
    <3> DEFINE new == [lease[l] EXCEPT !.st = "dead"]
    <3>1. new \in LeaseRow /\ new.st = "dead"
      BY <2>1, <2>2 DEF LeaseRow
    <3>2. lease' = [lease EXCEPT ![l] = new]
      BY <1>1
    <3> HIDE DEF new
    <3> QED BY <2>1, <2>2, <3>1, <3>2
  <2>3. CASE l \notin Leases
    <3>1. lease' = lease
      BY <1>1, <2>1, <2>3
    <3> QED BY <2>1, <2>3, <3>1
  <2> QED BY <2>2, <2>3
<1>3. RestTypeOK'
  BY <1>0, <1>1, <1>2 DEF RestTypeOK
<1>4. LeasesCalm
  BY <1>0, <1>1, <1>2 DEF OneLease, LeasesCalm, Runs1, Valid
<1>5. "kill" \notin Earlier
  BY DEF Earlier
<1> QED BY <1>1, <1>3, <1>4, <1>5, EmptyOK, QuietWork

\* The epoch ends, or stays as it is.
MayFinish ==
  \/ doc' = doc
  \/ \E st \in {"stopped", "failed"}, s \in Ids \cup {None} : doc' = Finished(s, st)

\* A step that leaves the leases alone, and may end the epoch.
LEMMA QuietDoc ==
  ASSUME PublisherInv, MayFinish,
         owner' = owner, lease' = lease, current' = current,
         ctl' \in Seq({"START", "STOP"} \X Ids), sent' = sent, playing' = playing, up' = up,
         asked' = asked, faults' \in 0..MaxFaults,
         NEW p \in Procs, NEW step, NEW s, Doing(p, step, s),
         NEW more \in Seq(Item), Plain(more),
         Become(p, more) \/ (step \notin Earlier /\ Then(p, more))
  PROVE  PublisherInv'
<1>0. RestTypeOK /\ OneLease
  BY WhatIsCalled DEF PublisherInv
<1>1. /\ doc' \in [id: Streams \cup {None}, st: LIVE \cup {"none", "stopped", "failed"},
                   pending: Legacy \cup {None}]
      /\ doc'.id = doc.id /\ doc'.pending = doc.pending
      /\ doc'.st \in LIVE => doc.st \in LIVE
  <2>1. CASE doc' = doc
    BY <1>0, <2>1 DEF RestTypeOK
  <2>2. CASE \E st \in {"stopped", "failed"}, x \in Ids \cup {None} : doc' = Finished(x, st)
    BY <1>0, <2>2, FinishedForm
  <2> QED BY <2>1, <2>2 DEF MayFinish
<1>2. RestTypeOK'
  BY <1>0, <1>1 DEF RestTypeOK
<1>3. LeasesCalm
  BY <1>0, SameLeasesCalm
<1> QED BY <1>1, <1>2, <1>3, QuietWork

LEMMA HaltQuiet == ASSUME PublisherInv, NEW p \in Procs, Halt(p) PROVE PublisherInv'
<1>0. RestTypeOK /\ doc.id \in Ids \cup {None}
  BY WhatIsCalled DEF PublisherInv, Ids
<1>1. /\ Doing(p, "halt", None) /\ "halt" \notin Earlier
      /\ UNCHANGED <<owner, lease, current, ctl, sent, playing, up, asked, faults>>
      /\ \/ doc' = Finished(doc.id, "stopped") /\ Then(p, <<<<"stop", doc.id>>>>)
         \/ doc' = doc /\ Then(p, <<>>)
  BY DEF Halt, Earlier
<1>2. ctl' \in Seq({"START", "STOP"} \X Ids) /\ faults' \in 0..MaxFaults
  BY <1>0, <1>1 DEF RestTypeOK
<1>3. CASE doc' = Finished(doc.id, "stopped") /\ Then(p, <<<<"stop", doc.id>>>>)
  <2>1. <<<<"stop", doc.id>>>> \in Seq(Item) /\ Plain(<<<<"stop", doc.id>>>>)
    BY <1>0, OneOf DEF PlainSteps
  <2>2. MayFinish
    BY <1>0, <1>3 DEF MayFinish
  <2> QED BY <1>1, <1>2, <1>3, <2>1, <2>2, QuietDoc
<1>4. CASE doc' = doc /\ Then(p, <<>>)
  BY <1>1, <1>2, <1>4, EmptyOK, QuietDoc DEF MayFinish
<1> QED BY <1>1, <1>3, <1>4

LEMMA ReconcileQuiet == ASSUME PublisherInv, NEW p \in Procs, Reconcile(p) PROVE PublisherInv'
<1>0. RestTypeOK /\ doc.id \in Ids \cup {None}
  BY WhatIsCalled DEF PublisherInv, Ids
<1> DEFINE more == <<<<"clear", doc.id>>, <<"stop", doc.id>>>>
<1>1. /\ Doing(p, "reconcile", None) /\ "reconcile" \notin Earlier
      /\ UNCHANGED <<owner, lease, current, ctl, sent, playing, up, asked, faults>>
      /\ \/ doc' = Finished(doc.id, "stopped") /\ Then(p, more)
         \/ doc' = doc /\ Then(p, <<>>)
  BY DEF Reconcile, Earlier
<1>2. ctl' \in Seq({"START", "STOP"} \X Ids) /\ faults' \in 0..MaxFaults
  BY <1>0, <1>1 DEF RestTypeOK
<1>3. CASE doc' = Finished(doc.id, "stopped") /\ Then(p, more)
  <2>1. more \in Seq(Item) /\ Plain(more)
    BY <1>0, TwoOf DEF PlainSteps
  <2>2. MayFinish
    BY <1>0, <1>3 DEF MayFinish
  <2> HIDE DEF more
  <2> QED BY <1>1, <1>2, <1>3, <2>1, <2>2, QuietDoc
<1>4. CASE doc' = doc /\ Then(p, <<>>)
  BY <1>1, <1>2, <1>4, EmptyOK, QuietDoc DEF MayFinish
<1> QED BY <1>1, <1>3, <1>4

LEMMA PollQuiet ==
  ASSUME PublisherInv, NEW p \in Procs, NEW s \in Streams, Poll(p, s) PROVE PublisherInv'
<1>0. RestTypeOK /\ s \in Ids \cup {None}
  BY WhatIsCalled DEF PublisherInv, Ids
<1>1. /\ Doing(p, "poll", s) /\ "poll" \notin Earlier /\ Then(p, Answer(s))
      /\ UNCHANGED <<doc, owner, lease, current, ctl, sent, playing, up, asked, faults>>
  BY DEF Poll, Earlier
<1>2. Answer(s) \in {<<>>, <<<<"terminate", s>>>>, <<<<"clear", s>>>> \o <<>>,
                     <<<<"clear", s>>>> \o <<<<"stop", s>>>>}
  BY DEF Answer
<1>4. Answer(s) \in Seq(Item) /\ Plain(Answer(s))
  <2> DEFINE clear == <<<<"clear", s>>>>
             stop == <<<<"stop", s>>>>
             end == <<<<"terminate", s>>>>
  <2>1. /\ clear \in Seq(Item) /\ Plain(clear) /\ stop \in Seq(Item) /\ Plain(stop)
        /\ end \in Seq(Item) /\ Plain(end)
    BY <1>0, OneOf DEF PlainSteps
  <2>2. Answer(s) \in {<<>>, end, clear \o <<>>, clear \o stop}
    BY <1>2
  <2> HIDE DEF clear, stop, end
  <2> QED BY <2>1, <2>2, EmptyOK, PlainJoined
<1>5. ctl' \in Seq({"START", "STOP"} \X Ids) /\ faults' \in 0..MaxFaults
  BY <1>0, <1>1 DEF RestTypeOK
<1> QED BY <1>1, <1>4, <1>5, QuietDoc DEF MayFinish

LEMMA TerminateQuiet ==
  ASSUME PublisherInv, NEW p \in Procs, NEW s \in Streams, Terminate(p, s) PROVE PublisherInv'
<1>0. RestTypeOK /\ s \in Ids \cup {None}
  BY WhatIsCalled DEF PublisherInv, Ids
<1> DEFINE more == <<<<"clear", s>>, <<"stop", s>>>>
<1>1. /\ Doing(p, "terminate", s) /\ "terminate" \notin Earlier
      /\ UNCHANGED <<owner, lease, current, ctl, sent, playing, up, asked, faults>>
      /\ doc' = Finished(s, "failed")
      /\ Then(p, more) \/ Then(p, <<>>)
  BY DEF Terminate, Earlier
<1>2. ctl' \in Seq({"START", "STOP"} \X Ids) /\ faults' \in 0..MaxFaults
  BY <1>0, <1>1 DEF RestTypeOK
<1>3. more \in Seq(Item) /\ Plain(more) /\ MayFinish
  BY <1>0, <1>1, TwoOf DEF PlainSteps, MayFinish
<1> HIDE DEF more
<1>4. CASE Then(p, more)
  BY <1>1, <1>2, <1>3, <1>4, QuietDoc
<1>5. CASE Then(p, <<>>)
  BY <1>1, <1>2, <1>3, <1>5, EmptyOK, QuietDoc
<1> QED BY <1>1, <1>4, <1>5

LEMMA ErrorQuiet ==
  ASSUME PublisherInv, NEW p \in Procs, NEW s \in Streams, ErrorEvent(p, s) PROVE PublisherInv'
<1>0. RestTypeOK
  BY WhatIsCalled DEF PublisherInv
<1>1. /\ Doing(p, "fail", s) /\ "fail" \notin Earlier
      /\ UNCHANGED <<owner, lease, current, ctl, sent, playing, up, asked, faults>>
      /\ doc' = Finished(s, "failed")
      /\ Then(p, <<>>) \/ Become(p, <<>>)
  BY DEF ErrorEvent, Earlier, Done
<1>2. ctl' \in Seq({"START", "STOP"} \X Ids) /\ faults' \in 0..MaxFaults
  BY <1>0, <1>1 DEF RestTypeOK
<1>3. MayFinish
  BY <1>1 DEF MayFinish, Ids
<1> QED BY <1>1, <1>2, <1>3, EmptyOK, QuietDoc

LEMMA StopCommandQuiet ==
  ASSUME PublisherInv, NEW p \in Procs, NEW s \in Ids, StopCommand(p, s) PROVE PublisherInv'
<1>0. RestTypeOK
  BY WhatIsCalled DEF PublisherInv
<1>1. /\ Doing(p, "stop", s) /\ "stop" \notin Earlier /\ Then(p, <<>>)
      /\ UNCHANGED <<doc, owner, lease, current, sent, playing, up, asked>>
      /\ \/ ctl' = Append(ctl, <<"STOP", s>>) /\ UNCHANGED faults
         \/ Fault /\ UNCHANGED ctl
  BY DEF StopCommand, Earlier
<1>2. ctl' \in Seq({"START", "STOP"} \X Ids) /\ faults' \in 0..MaxFaults
  BY <1>0, <1>1, OneMoreCommand, Spending DEF RestTypeOK
<1>3. MayFinish
  BY <1>1 DEF MayFinish, Ids
<1> QED BY <1>1, <1>2, <1>3, EmptyOK, QuietDoc

LEMMA ReadyQuiet ==
  ASSUME PublisherInv, NEW p \in Procs, NEW s \in Streams, ReadyEvent(p, s) PROVE PublisherInv'
<1>0. /\ RestTypeOK /\ OneLease
      /\ doc = [id |-> doc.id, st |-> doc.st, pending |-> doc.pending]
  BY WhatIsCalled DEF PublisherInv
<1>1. /\ Doing(p, "ready", s) /\ "ready" \notin Earlier
      /\ UNCHANGED <<owner, lease, current, ctl, sent, playing, up, asked, faults>>
      /\ \/ doc' = doc
         \/ doc.st = "starting" /\ doc' = [doc EXCEPT !.st = "running"]
      /\ Then(p, <<>>) \/ Become(p, <<>>)
  BY DEF ReadyEvent, Earlier, Done
<1>2. /\ doc' \in [id: Streams \cup {None}, st: LIVE \cup {"none", "stopped", "failed"},
                   pending: Legacy \cup {None}]
      /\ doc'.id = doc.id /\ doc'.pending = doc.pending
      /\ doc'.st \in LIVE => doc.st \in LIVE
  BY <1>0, <1>1 DEF RestTypeOK, LIVE
<1>3. RestTypeOK'
  BY <1>0, <1>1, <1>2 DEF RestTypeOK
<1>4. LeasesCalm
  BY <1>0, <1>1, SameLeasesCalm
<1> QED BY <1>1, <1>2, <1>3, <1>4, EmptyOK, QuietWork

LEMMA ClearsQuiet ==
  ASSUME PublisherInv, lease' = lease \/ \E s \in Ids : lease' = Cleared(s),
         UNCHANGED <<doc, owner, current, ctl, sent, playing, up, asked>>, faults' \in 0..MaxFaults,
         NEW p \in Procs, NEW step, NEW s, Doing(p, step, s), step \notin Earlier, Then(p, <<>>)
  PROVE  PublisherInv'
<1>0. RestTypeOK /\ OneLease
  BY WhatIsCalled DEF PublisherInv
<1>1. lease' \in [Leases -> LeaseRow] /\ LeasesCalm
  BY <1>0, ClearedCalm
<1>2. RestTypeOK'
  BY <1>0, <1>1 DEF RestTypeOK
<1> QED BY <1>1, <1>2, EmptyOK, QuietWork

LEMMA ClearQuiet ==
  ASSUME PublisherInv, NEW p \in Procs, NEW s \in Streams,
         Clear(p, s) \/ Record(p, s)
  PROVE  PublisherInv'
<1>1. RestTypeOK /\ s \in Ids
  BY WhatIsCalled DEF PublisherInv, Ids
<1>2. /\ lease' = lease \/ lease' = Cleared(s)
      /\ UNCHANGED <<doc, owner, current, ctl, sent, playing, up, asked>>
      /\ UNCHANGED faults \/ Fault
      /\ Doing(p, "clear", s) \/ Doing(p, "record", s)
      /\ Then(p, <<>>)
  BY DEF Clear, Record
<1>3. faults' \in 0..MaxFaults
  BY <1>1, <1>2, Spending DEF RestTypeOK
<1>4. "clear" \notin Earlier /\ "record" \notin Earlier
  BY DEF Earlier
<1> QED BY <1>1, <1>2, <1>3, <1>4, ClearsQuiet

LEMMA ForgetQuiet ==
  ASSUME PublisherInv, NEW p \in Procs, NEW s \in Legacy, Forget(p, s) PROVE PublisherInv'
<1>1. RestTypeOK /\ s \in Ids
  BY WhatIsCalled DEF PublisherInv, Ids
<1>2. /\ lease' = lease \/ lease' = Cleared(s)
      /\ UNCHANGED <<doc, owner, current, ctl, sent, playing, up, asked, faults>>
      /\ Doing(p, "forget", s) /\ "forget" \notin Earlier
      /\ Then(p, <<>>)
  BY DEF Forget, Earlier
<1>3. faults' \in 0..MaxFaults
  BY <1>1, <1>2 DEF RestTypeOK
<1> QED BY <1>1, <1>2, <1>3, ClearsQuiet

-----------------------------------------------------------------------------
(* The steps that a later one waits for *)

LEMMA ThenNext ==
  ASSUME proc \in [Procs -> Coroutine], Todos, Claims \subseteq Claims',
         NEW p \in Procs, NEW step, NEW s, Doing(p, step, s), Then(p, <<>>)
  PROVE  /\ proc' \in [Procs -> Coroutine]
         /\ \A q \in Procs \ {p} : proc'[q] = proc[q]
         /\ TodoOK(proc'[p].todo, proc'[p].lease, Claims')
         /\ \A x \in Later : \A t : At(proc'[p].todo, x, t) => step = Before(x) /\ t = s
         /\ \A t : Ends(proc'[p].todo, t) => Ends(proc[p].todo, t)
<1> DEFINE todo == proc[p].todo
           rest == Tail(todo)
<1>1. todo \in Seq(Item) /\ todo # <<>> /\ Head(todo) = <<step, s>>
  BY DEF Doing, Coroutine
<1>2. TodoOK(todo, proc[p].lease, Claims')
  BY MoreClaims DEF Todos
<1>3. TodoOK(rest, proc[p].lease, Claims') /\ rest \in Seq(Item)
  BY <1>1, <1>2, RestOK, RestOfList
<1>4. <<>> \o rest = rest
  BY <1>3
<1>5. Become(p, rest)
  BY <1>4 DEF Then
<1>6. /\ proc' \in [Procs -> Coroutine]
      /\ \A q \in Procs \ {p} : proc'[q] = proc[q]
      /\ proc'[p].todo = rest
      /\ rest # <<>> => proc'[p].lease = proc[p].lease
  BY <1>3, <1>5, BecomeForm
<1>7. ASSUME NEW t, Ends(rest, t) PROVE Ends(todo, t)
  BY <1>1, <1>7, RestOfList DEF Ends
<1>8. ASSUME NEW x \in Later, NEW t, At(rest, x, t) PROVE step = Before(x) /\ t = s
  <2>1. Ordered(todo) /\ At(todo, step, s)
    BY <1>1, <1>2 DEF TodoOK, At
  <2> QED BY <1>1, <1>8, <2>1, WhatFollows
<1> HIDE DEF rest
<1>9. TodoOK(rest, proc'[p].lease, Claims')
  <2>1. CASE rest = <<>>
    BY <2>1, EmptyOK
  <2>2. CASE rest # <<>>
    BY <1>3, <1>6, <2>2
  <2> QED BY <2>1, <2>2
<1> QED BY <1>6, <1>7, <1>8, <1>9

\* What the list of a coroutine says when it begins with a step.
LEMMA HeadOK ==
  ASSUME PublisherInv, NEW p \in Procs, NEW step, NEW s, Doing(p, step, s)
  PROVE  /\ At(proc[p].todo, step, s)
         /\ step \in {"reserve", "save", "check", "keep"} => proc[p].lease \in Leases
         /\ step \in Start1 => s \in Claims /\ Ends(proc[p].todo, s)
         /\ step = "release" => Tail(proc[p].todo) = <<>>
<1> DEFINE todo == proc[p].todo
<1>1. todo \in Seq(Item) /\ todo # <<>> /\ Head(todo) = <<step, s>>
  BY WhatIsCalled DEF PublisherInv, Doing
<1>2. /\ todo[1][1] = step /\ todo[1][2] = s
      /\ Len(todo) \in Nat \ {0} /\ 1 \in 1..Len(todo)
  BY <1>1, RestOfList
<1>3. TodoOK(todo, proc[p].lease, Claims)
  BY DEF PublisherInv, Todos
<1>4. /\ step \in {"reserve", "save", "check", "keep"} => proc[p].lease \in Leases
      /\ step \in Start1 => s \in Claims
  BY <1>2, <1>3 DEF TodoOK
<1>5. /\ step \in Start1 => todo[Len(todo)] = <<"release", s>>
      /\ step = "release" => 1 = Len(todo)
  BY <1>2, <1>3 DEF TodoOK, Ending, Start1
<1>6. 1 = Len(todo) => Tail(todo) = <<>>
  <2> DEFINE rest == Tail(todo)
  <2>1. rest \in Seq(Item) /\ Len(rest) = Len(todo) - 1
    BY <1>1, RestOfList
  <2> HIDE DEF rest
  <2>2. Len(rest) = 0 => rest = <<>>
    BY <2>1
  <2> QED BY <1>2, <2>1, <2>2 DEF rest
<1>7. At(todo, step, s)
  BY <1>1 DEF At
<1>8. step \in Start1 => Ends(todo, s)
  BY <1>1, <1>5 DEF Ends
<1>9. step = "release" => Tail(todo) = <<>>
  BY <1>5, <1>6
<1> QED BY <1>4, <1>7, <1>8, <1>9

LEMMA ReserveKeeps ==
  ASSUME PublisherInv, NEW p \in Procs, NEW s \in Streams, Reserve(p, s) PROVE PublisherInv'
<1> DEFINE l == proc[p].lease
<1>0. /\ RestTypeOK /\ OneLease /\ Todos /\ Apart /\ Tokens /\ Epochs
      /\ proc \in [Procs -> Coroutine] /\ s \in Ids /\ s # None
      /\ doc = [id |-> doc.id, st |-> doc.st, pending |-> doc.pending]
  BY WhatIsCalled, StreamsAssumption DEF PublisherInv, Ids
<1>1. /\ Doing(p, "reserve", s)
      /\ UNCHANGED <<lease, current, ctl, sent, playing, up, asked, faults>>
  BY DEF Reserve
<1>2. CASE doc' = doc /\ owner' = owner /\ Become(p, <<>>)
  <2>1. ctl' \in Seq({"START", "STOP"} \X Ids) /\ faults' \in 0..MaxFaults
    BY <1>0, <1>1 DEF RestTypeOK
  <2> QED BY <1>1, <1>2, <2>1, EmptyOK, QuietDoc DEF MayFinish
<1>3. CASE /\ Free(p, s) /\ Then(p, <<>>)
           /\ doc' = [doc EXCEPT !.id = s, !.st = "starting"]
           /\ owner' = [owner EXCEPT ![s] = l]
  <2>1. l \in Leases /\ l # None
    BY <1>1, HeadOK, StreamsAssumption
  <2>2. /\ doc'.id = s /\ doc'.st = "starting" /\ doc'.pending = None /\ doc.pending = None
        /\ doc' \in [id: Streams \cup {None}, st: LIVE \cup {"none", "stopped", "failed"},
                     pending: Legacy \cup {None}]
    BY <1>0, <1>3 DEF Free, LIVE, RestTypeOK
  <2> HIDE DEF l
  <2>3. /\ owner' \in [Ids -> Leases \cup {None}]
        /\ owner'[s] # None /\ \A t \in Ids \ {s} : owner'[t] = owner[t]
    BY <1>0, <1>3, <2>1 DEF RestTypeOK
  <2>4. Claims \subseteq Claims' /\ s \in Claims' /\ s \notin Claims
    BY <1>0, <1>3, <2>3 DEF Claims, Claimed, Free
  <2>5. /\ proc' \in [Procs -> Coroutine]
        /\ \A q \in Procs \ {p} : proc'[q] = proc[q]
        /\ TodoOK(proc'[p].todo, proc'[p].lease, Claims')
        /\ \A x \in Later : \A t : At(proc'[p].todo, x, t) => "reserve" = Before(x) /\ t = s
        /\ \A t : Ends(proc'[p].todo, t) => Ends(proc[p].todo, t)
    BY <1>0, <1>1, <1>3, <2>4, ThenNext
  <2>6. \A x \in Later \ {"save"} : \A t : ~At(proc'[p].todo, x, t)
    BY <2>5, BeforeWhat DEF Later
  <2>7. StreamTypeOK'
    <3>1. RestTypeOK'
      BY <1>0, <1>1, <2>2, <2>3 DEF RestTypeOK
    <3> QED BY <2>5, <3>1, TypesTogetherNext
  <2>8. Todos' /\ Apart'
    BY <1>0, <2>4, <2>5, TodosStep, ApartStep
  <2>9. Tokens'
    <3> SUFFICES ASSUME NEW q \in Procs, NEW t \in Ids \cup {None},
                        NEW x \in {"check", "publish", "await", "keep"}, At(proc'[q].todo, x, t)
                 PROVE  FALSE
      BY DEF Tokens
    <3>1. q # p
      BY <2>6 DEF Later
    <3>2. At(proc[q].todo, x, t)
      BY <2>5, <3>1
    <3>3. t \in Legacy /\ doc.pending = t
      BY <1>0, <3>2 DEF Tokens
    <3> QED BY <2>2, <3>3, StreamsAssumption
  <2>10. OneLease'
    BY <1>0, <1>1 DEF OneLease, Valid
  <2>11. Epochs'
    <3>1. doc'.id \in Claims' /\ sent' \subseteq Claims'
      BY <1>0, <1>1, <2>2, <2>4 DEF Epochs
    <3>2. ASSUME NEW q \in Procs, NEW t \in Ids \cup {None}, NEW x \in {"save", "send"},
                 At(proc'[q].todo, x, t)
          PROVE  t \in Claims' /\ (x = "send" => t # s)
      <4>1. CASE q = p
        <5>1. x = "save" /\ t = s
          BY <2>5, <2>6, <3>2, <4>1 DEF Later
        <5> QED BY <2>4, <5>1
      <4>2. CASE q # p
        <5>1. At(proc[q].todo, x, t)
          BY <2>5, <3>2, <4>2
        <5>2. t \in Claims
          BY <1>0, <5>1 DEF Epochs
        <5> QED BY <2>4, <5>2
      <4> QED BY <4>1, <4>2
    <3>3. ~Saved(doc.id)'
      <4>1. s \notin sent'
        BY <1>0, <1>1, <2>4 DEF Epochs
      <4> QED BY <1>0, <2>2, <3>2, <4>1 DEF Saved
    <3> QED BY <3>1, <3>2, <3>3 DEF Epochs
  <2> QED BY <2>7, <2>8, <2>9, <2>10, <2>11 DEF PublisherInv
<1> QED BY <1>2, <1>3 DEF Reserve, Done

LEMMA SaveKeeps ==
  ASSUME PublisherInv, NEW p \in Procs, NEW s \in Streams, Save(p, s) PROVE PublisherInv'
<1> DEFINE l == proc[p].lease
           stored == Stored(l, None, s, 2)
<1>0. /\ RestTypeOK /\ OneLease /\ Todos /\ Apart /\ Tokens /\ Epochs
      /\ proc \in [Procs -> Coroutine] /\ s \in Ids
  BY WhatIsCalled DEF PublisherInv, Ids
<1>1. Doing(p, "save", s) /\ UNCHANGED <<owner, current, ctl, sent, playing, up, asked>>
  BY DEF Save
<1>2. CASE doc' = Finished(s, "failed") /\ Become(p, <<>>) /\ lease' = lease
           /\ (UNCHANGED faults \/ Fault)
  <2>1. ctl' \in Seq({"START", "STOP"} \X Ids) /\ faults' \in 0..MaxFaults
    BY <1>0, <1>1, <1>2, Spending DEF RestTypeOK
  <2>2. MayFinish
    BY <1>0, <1>2 DEF MayFinish
  <2> QED BY <1>1, <1>2, <2>1, <2>2, EmptyOK, QuietDoc
<1>3. CASE stored # lease /\ lease' = stored /\ Then(p, <<>>) /\ UNCHANGED <<doc, faults>>
  <2>1. /\ lease' \in [Leases -> LeaseRow] /\ l \in Leases /\ Valid(l)
        /\ \A k \in Leases :
             /\ lease'[k].st = lease[k].st
             /\ lease'[k] = lease[k] \/ (k = l /\ lease'[k].ver = 2 /\ lease'[k].stream = s)
    <3> HIDE DEF l
    <3>1. /\ stored \in [Leases -> LeaseRow]
          /\ \A k \in Leases :
               /\ stored[k].st = lease[k].st
               /\ stored[k] = lease[k] \/ (k = l /\ stored[k].ver = 2 /\ stored[k].stream = s)
          /\ stored # lease => l \in Leases /\ Valid(l)
      BY <1>0, StoredForm
    <3> HIDE DEF stored
    <3> QED BY <1>3, <3>1
  <2>2. lease'[l].ver = 2
    <3> SUFFICES ASSUME lease'[l].ver # 2 PROVE FALSE
      OBVIOUS
    <3>1. \A k \in Leases : lease'[k] = lease[k]
      BY <2>1
    <3>2. lease' = lease
      BY <1>0, <2>1, <3>1 DEF RestTypeOK
    <3> QED BY <1>3, <3>2
  <2> HIDE DEF l, stored
  <2>3. \A k \in Leases : ~Runs1(k)'
    <3> SUFFICES ASSUME NEW k \in Leases, Runs1(k)' PROVE FALSE
      OBVIOUS
    <3>1. Valid(k) /\ Valid(l) /\ k # l
      BY <2>1, <2>2 DEF Runs1, Valid
    <3> QED BY <1>0, <2>1, <3>1 DEF OneLease
  <2>4. Claims' = Claims
    BY <1>1 DEF Claims, Claimed
  <2>5. /\ proc' \in [Procs -> Coroutine]
        /\ \A q \in Procs \ {p} : proc'[q] = proc[q]
        /\ TodoOK(proc'[p].todo, proc'[p].lease, Claims')
        /\ \A x \in Later : \A t : At(proc'[p].todo, x, t) => "save" = Before(x) /\ t = s
        /\ \A t : Ends(proc'[p].todo, t) => Ends(proc[p].todo, t)
    BY <1>0, <1>1, <1>3, <2>4, ThenNext
  <2>6. \A x \in Later \ {"send"} : \A t : ~At(proc'[p].todo, x, t)
    BY <2>5, BeforeWhat DEF Later
  <2>7. StreamTypeOK'
    <3>1. RestTypeOK'
      BY <1>0, <1>1, <1>3, <2>1 DEF RestTypeOK
    <3> QED BY <2>5, <3>1, TypesTogetherNext
  <2>8. Todos' /\ Apart'
    BY <1>0, <2>4, <2>5, TodosStep, ApartStep
  <2>9. Tokens'
    <3> SUFFICES ASSUME NEW q \in Procs, NEW t \in Ids \cup {None},
                        NEW x \in {"check", "publish", "await", "keep"}, At(proc'[q].todo, x, t)
                 PROVE  /\ t \in Legacy /\ doc'.pending = t
                        /\ x \in {"publish", "await", "keep"} => doc'.st \notin LIVE
      BY DEF Tokens
    <3>1. q # p
      BY <2>6 DEF Later
    <3>2. At(proc[q].todo, x, t)
      BY <2>5, <3>1
    <3> QED BY <1>0, <1>3, <3>2 DEF Tokens
  <2>10. OneLease'
    <3>1. \A k \in Leases : Valid(k)' => Valid(k)
      BY <2>1 DEF Valid
    <3>2. \A k \in Leases : lease'[k].st = "new" => lease'[k] = lease[k]
      BY <2>1 DEF Valid
    <3> QED BY <1>0, <1>1, <3>1, <3>2 DEF OneLease
  <2>11. Epochs'
    <3>1. s \in Claims
      BY <1>0, <1>1, HeadOK DEF Epochs
    <3>2. ASSUME NEW q \in Procs, NEW t \in Ids \cup {None}, NEW x \in {"save", "send"},
                 At(proc'[q].todo, x, t)
          PROVE  t \in Claims'
      <4>1. CASE q = p
        BY <2>4, <2>5, <3>1, <3>2, <4>1 DEF Later
      <4>2. CASE q # p
        BY <1>0, <2>4, <2>5, <3>2, <4>2 DEF Epochs
      <4> QED BY <4>1, <4>2
    <3> QED BY <1>0, <1>1, <1>3, <2>3, <2>4, <3>2 DEF Epochs
  <2> QED BY <2>7, <2>8, <2>9, <2>10, <2>11 DEF PublisherInv
<1> QED BY <1>2, <1>3 DEF Save, Done

\* A command is published: the stream counts as sent.
LEMMA SentKeeps ==
  ASSUME PublisherInv, NEW p \in Procs, NEW step \in {"send", "publish"}, NEW s \in Ids,
         Doing(p, step, s), Then(p, <<>>), sent' = sent \cup {s},
         ctl' = Append(ctl, <<"START", s>>), step = "publish" => s \in Legacy,
         UNCHANGED <<doc, owner, lease, current, playing, up, asked, faults>>
  PROVE  PublisherInv'
<1>0. /\ RestTypeOK /\ OneLease /\ Todos /\ Apart /\ Tokens /\ Epochs
      /\ proc \in [Procs -> Coroutine] /\ doc.id \in Streams \cup {None}
  BY WhatIsCalled DEF PublisherInv
<1>1. Claims' = Claims /\ At(proc[p].todo, step, s)
  BY HeadOK DEF Claims, Claimed
<1>2. /\ proc' \in [Procs -> Coroutine]
      /\ \A q \in Procs \ {p} : proc'[q] = proc[q]
      /\ TodoOK(proc'[p].todo, proc'[p].lease, Claims')
      /\ \A x \in Later : \A t : At(proc'[p].todo, x, t) => step = Before(x) /\ t = s
      /\ \A t : Ends(proc'[p].todo, t) => Ends(proc[p].todo, t)
  BY <1>0, <1>1, ThenNext
<1>3. \A x \in Later \ {"await"} : \A t : ~At(proc'[p].todo, x, t)
  BY <1>2, BeforeWhat DEF Later
<1>4. \A t : At(proc'[p].todo, "await", t) => step = "publish" /\ t = s
  BY <1>2, BeforeWhat DEF Later
<1>5. s \in Claims
  <2>1. CASE step = "send"
    BY <1>0, <1>1, <2>1 DEF Epochs
  <2>2. CASE step = "publish"
    BY <2>2, HeadOK DEF Start1
  <2> QED BY <2>1, <2>2
<1>6. StreamTypeOK'
  <2>1. ctl' \in Seq({"START", "STOP"} \X Ids)
    BY <1>0, OneMoreCommand DEF RestTypeOK
  <2>2. RestTypeOK'
    BY <1>0, <2>1 DEF RestTypeOK
  <2> QED BY <1>2, <2>2, TypesTogetherNext
<1>7. Todos' /\ Apart'
  BY <1>0, <1>1, <1>2, TodosStep, ApartStep
<1>8. Tokens'
  <2> SUFFICES ASSUME NEW q \in Procs, NEW t \in Ids \cup {None},
                      NEW x \in {"check", "publish", "await", "keep"}, At(proc'[q].todo, x, t)
               PROVE  /\ t \in Legacy /\ doc'.pending = t
                      /\ x \in {"publish", "await", "keep"} => doc'.st \notin LIVE
    BY DEF Tokens
  <2>1. CASE q = p
    <3>1. x = "await"
      BY <1>3, <2>1 DEF Later
    <3>2. step = "publish" /\ t = s
      BY <1>4, <2>1, <3>1
    <3>3. s \in Legacy /\ doc.pending = s /\ doc.st \notin LIVE
      BY <1>0, <1>1, <3>2 DEF Tokens
    <3> QED BY <3>2, <3>3
  <2>2. CASE q # p
    <3>1. At(proc[q].todo, x, t)
      BY <1>2, <2>2
    <3> QED BY <1>0, <3>1 DEF Tokens
  <2> QED BY <2>1, <2>2
<1>9. OneLease'
  BY <1>0 DEF OneLease, Valid
<1>10. Epochs'
  <2>1. ASSUME NEW q \in Procs, NEW t, NEW x \in {"save", "send"}, At(proc'[q].todo, x, t)
        PROVE  At(proc[q].todo, x, t)
    <3>1. q # p
      BY <1>3, <2>1 DEF Later
    <3> QED BY <1>2, <2>1, <3>1
  <2>2. \A q \in Procs, t \in Ids \cup {None} :
          At(proc'[q].todo, "save", t) \/ At(proc'[q].todo, "send", t) => t \in Claims'
    BY <1>0, <1>1, <2>1 DEF Epochs
  <2>3. Saved(doc.id)' => Saved(doc.id)
    <3> SUFFICES ASSUME Saved(doc.id)', ~Saved(doc.id) PROVE FALSE
      OBVIOUS
    <3>1. doc'.id = s
      BY <2>1 DEF Saved
    <3>2. step = "send"
      BY <1>0, <3>1, StreamsAssumption
    <3> QED BY <1>1, <3>1, <3>2 DEF Saved
  <2>4. \A k \in Leases : Runs1(k)' => Runs1(k)
    BY DEF Runs1, Valid
  <2> QED BY <1>0, <1>1, <1>5, <2>2, <2>3, <2>4 DEF Epochs
<1> QED BY <1>6, <1>7, <1>8, <1>9, <1>10 DEF PublisherInv

LEMMA SendKeeps ==
  ASSUME PublisherInv, NEW p \in Procs, NEW s \in Streams, Send(p, s) PROVE PublisherInv'
<1>0. RestTypeOK /\ s \in Ids
  BY WhatIsCalled DEF PublisherInv, Ids
<1>1. /\ Doing(p, "send", s)
      /\ UNCHANGED <<doc, owner, lease, current, playing, up, asked>>
  BY DEF Send
<1>2. CASE /\ ctl' = Append(ctl, <<"START", s>>) /\ sent' = sent \cup {s}
           /\ Then(p, <<>>) /\ UNCHANGED faults
  BY <1>0, <1>1, <1>2, SentKeeps
<1>3. CASE Fault /\ Become(p, <<<<"terminate", s>>>>) /\ UNCHANGED <<ctl, sent>>
  <2>1. <<<<"terminate", s>>>> \in Seq(Item) /\ Plain(<<<<"terminate", s>>>>)
    BY <1>0, OneOf DEF PlainSteps
  <2>2. ctl' \in Seq({"START", "STOP"} \X Ids) /\ faults' \in 0..MaxFaults /\ MayFinish
    BY <1>0, <1>1, <1>3, Spending DEF RestTypeOK, MayFinish
  <2> QED BY <1>1, <1>3, <2>1, <2>2, QuietDoc
<1> QED BY <1>2, <1>3 DEF Send

-----------------------------------------------------------------------------
(* The start of a v1 stream *)

\* A start that gives up releases its token.
LEMMA ReleaseNext ==
  ASSUME PublisherInv, NEW p \in Procs, NEW step \in {"check", "publish", "await"},
         NEW s \in Legacy, Doing(p, step, s), Become(p, <<<<"release", s>>>>),
         Claims \subseteq Claims'
  PROVE  proc' \in [Procs -> Coroutine] /\ \A q \in Procs : Calm(q)
<1> DEFINE todo == <<<<"release", s>>>>
<1>1. s \in Claims /\ Ends(proc[p].todo, s) /\ proc \in [Procs -> Coroutine]
  BY HeadOK, WhatIsCalled DEF PublisherInv, Start1
<1>2. /\ <<"release", s>> \in Item /\ Len(todo) = 1 /\ todo[1] = <<"release", s>>
      /\ todo # <<>> /\ Head(todo) = <<"release", s>>
  BY DEF Item, Steps, Ids
<1>3. todo \in Seq(Item)
  BY <1>2
<1>4. \A l : TodoOK(todo, l, Claims')
  <2>1. Ordered(todo)
    BY <1>2 DEF Ordered
  <2>2. Ending(todo)
    BY <1>2 DEF Ending
  <2>3. \A i \in 1..Len(todo) : todo[i][1] = "release" /\ todo[i][2] \in Claims'
    BY <1>1, <1>2
  <2> QED BY <2>1, <2>2, <2>3 DEF TodoOK
<1>5. \A t : Ends(todo, t) => t = s
  BY <1>2 DEF Ends
<1>6. Head(todo)[1] \notin Later
  BY <1>2 DEF Later
<1> HIDE DEF todo
<1>7. /\ proc' \in [Procs -> Coroutine]
      /\ \A q \in Procs \ {p} : proc'[q] = proc[q]
      /\ proc'[p].todo = todo
  BY <1>1, <1>3, BecomeForm DEF todo
<1>8. Calm(p)
  BY <1>1, <1>4, <1>5, <1>6, <1>7 DEF Calm
<1> QED BY <1>7, <1>8 DEF Calm

LEMMA GiveUpQuiet ==
  ASSUME PublisherInv, NEW p \in Procs, NEW step \in {"check", "publish", "await"},
         NEW s \in Legacy, Doing(p, step, s), Become(p, <<<<"release", s>>>>),
         UNCHANGED <<doc, owner, lease, current, ctl, sent, playing, up, asked>>,
         faults' \in 0..MaxFaults
  PROVE  PublisherInv'
<1>1. Claims' = Claims
  BY DEF Claims, Claimed
<1>2. proc' \in [Procs -> Coroutine] /\ \A q \in Procs : Calm(q)
  BY <1>1, ReleaseNext
<1>3. RestTypeOK' /\ LeasesCalm
  BY WhatIsCalled, SameLeasesCalm DEF PublisherInv, RestTypeOK
<1>4. StreamTypeOK'
  BY <1>2, <1>3, TypesTogetherNext
<1> QED BY <1>1, <1>2, <1>3, <1>4, Quiet

\* A v1 start goes on to a step for which it has its token and has made its checks.
LEMMA StartGoesOn ==
  ASSUME PublisherInv, NEW p \in Procs, NEW step \in {"token", "check", "publish", "await"},
         NEW s \in Legacy, Doing(p, step, s), Then(p, <<>>),
         UNCHANGED <<owner, lease, current, ctl, sent, playing, up, asked, faults>>,
         RestTypeOK', doc'.id = doc.id, doc'.st = doc.st, doc'.pending = s,
         step = "token" => doc.pending = None, step # "token" => doc.pending = s,
         step # "token" => doc.st \notin LIVE
  PROVE  PublisherInv'
<1>0. /\ RestTypeOK /\ OneLease /\ Todos /\ Apart /\ Tokens /\ Epochs
      /\ proc \in [Procs -> Coroutine]
  BY WhatIsCalled DEF PublisherInv
<1>1. Claims' = Claims
  BY DEF Claims, Claimed
<1>2. /\ proc' \in [Procs -> Coroutine]
      /\ \A q \in Procs \ {p} : proc'[q] = proc[q]
      /\ TodoOK(proc'[p].todo, proc'[p].lease, Claims')
      /\ \A x \in Later : \A t : At(proc'[p].todo, x, t) => step = Before(x) /\ t = s
      /\ \A t : Ends(proc'[p].todo, t) => Ends(proc[p].todo, t)
  BY ZenonT(90), <1>0, <1>1, ThenNext
<1>3. \A x \in {"save", "send"} : \A t : ~At(proc'[p].todo, x, t)
  BY <1>2, BeforeWhat DEF Later
<1>4. ASSUME step = "token", NEW x \in {"publish", "await", "keep"}, NEW t
      PROVE  ~At(proc'[p].todo, x, t)
  BY <1>2, <1>4, BeforeWhat DEF Later
<1>5. StreamTypeOK'
  BY <1>2, TypesTogetherNext
<1>6. Todos' /\ Apart'
  BY <1>0, <1>1, <1>2, TodosStep, ApartStep
<1>7. Tokens'
  <2> SUFFICES ASSUME NEW q \in Procs, NEW t \in Ids \cup {None},
                      NEW x \in {"check", "publish", "await", "keep"}, At(proc'[q].todo, x, t)
               PROVE  /\ t \in Legacy /\ doc'.pending = t
                      /\ x \in {"publish", "await", "keep"} => doc'.st \notin LIVE
    BY DEF Tokens
  <2>1. CASE q = p
    <3>1. t = s
      BY <1>2, <2>1 DEF Later
    <3>2. x \in {"publish", "await", "keep"} => doc'.st \notin LIVE
      BY <1>4, <2>1
    <3> QED BY <3>1, <3>2
  <2>2. CASE q # p
    <3>1. At(proc[q].todo, x, t)
      BY <1>2, <2>2
    <3>2. t \in Legacy /\ doc.pending = t
      BY <1>0, <3>1 DEF Tokens
    <3>3. step # "token"
      BY <3>2, StreamsAssumption
    <3> QED BY <3>2, <3>3
  <2> QED BY <2>1, <2>2
<1>8. OneLease'
  BY <1>0 DEF OneLease, Valid
<1>9. Epochs'
  <2>1. ASSUME NEW q \in Procs, NEW t, NEW x \in {"save", "send"}, At(proc'[q].todo, x, t)
        PROVE  At(proc[q].todo, x, t)
    <3>1. q # p
      BY <1>3, <2>1
    <3> QED BY <1>2, <2>1, <3>1
  <2>2. \A q \in Procs, t \in Ids \cup {None} :
          At(proc'[q].todo, "save", t) \/ At(proc'[q].todo, "send", t) => t \in Claims'
    BY <1>0, <1>1, <2>1 DEF Epochs
  <2>3. Saved(doc.id)' => Saved(doc.id)
    BY <2>1 DEF Saved
  <2>4. \A k \in Leases : Runs1(k)' => Runs1(k)
    BY DEF Runs1, Valid
  <2> QED BY <1>0, <1>1, <2>2, <2>3, <2>4 DEF Epochs
<1> QED BY <1>5, <1>6, <1>7, <1>8, <1>9 DEF PublisherInv

LEMMA TokenKeeps ==
  ASSUME PublisherInv, NEW p \in Procs, NEW s \in Legacy, Token(p, s) PROVE PublisherInv'
<1>0. /\ RestTypeOK /\ doc = [id |-> doc.id, st |-> doc.st, pending |-> doc.pending]
  BY WhatIsCalled DEF PublisherInv
<1>1. /\ Doing(p, "token", s)
      /\ UNCHANGED <<owner, lease, current, ctl, sent, playing, up, asked, faults>>
  BY DEF Token
<1>2. CASE doc.pending = None /\ doc' = [doc EXCEPT !.pending = s] /\ Then(p, <<>>)
  <2>1. /\ doc'.id = doc.id /\ doc'.st = doc.st /\ doc'.pending = s
        /\ doc' \in [id: Streams \cup {None}, st: LIVE \cup {"none", "stopped", "failed"},
                     pending: Legacy \cup {None}]
    BY <1>0, <1>2 DEF RestTypeOK
  <2>2. RestTypeOK'
    BY <1>0, <1>1, <2>1 DEF RestTypeOK
  <2> QED BY <1>1, <1>2, <2>1, <2>2, StartGoesOn
<1>3. CASE doc' = doc /\ Become(p, <<>>)
  <2>1. ctl' \in Seq({"START", "STOP"} \X Ids) /\ faults' \in 0..MaxFaults /\ MayFinish
    BY <1>0, <1>1, <1>3 DEF RestTypeOK, MayFinish
  <2> QED BY <1>1, <1>3, <2>1, EmptyOK, QuietDoc
<1> QED BY <1>2, <1>3 DEF Token, Done

LEMMA CheckKeeps ==
  ASSUME PublisherInv, NEW p \in Procs, NEW s \in Legacy, Check(p, s) PROVE PublisherInv'
<1>0. RestTypeOK /\ Tokens
  BY WhatIsCalled DEF PublisherInv
<1>1. /\ Doing(p, "check", s)
      /\ UNCHANGED <<doc, owner, lease, current, ctl, sent, playing, up, asked, faults>>
  BY DEF Check
<1>2. RestTypeOK' /\ faults' \in 0..MaxFaults
  BY <1>0, <1>1 DEF RestTypeOK
<1>3. CASE doc.st \notin LIVE /\ Then(p, <<>>)
  <2>1. At(proc[p].todo, "check", s)
    BY <1>1, HeadOK
  <2>2. doc.pending = s
    BY <1>0, <2>1 DEF Tokens, Ids
  <2> QED BY <1>1, <1>2, <1>3, <2>2, StartGoesOn
<1>4. CASE Become(p, <<<<"release", s>>>>)
  BY <1>1, <1>2, <1>4, GiveUpQuiet
<1> QED BY <1>3, <1>4 DEF Check

LEMMA PublishKeeps ==
  ASSUME PublisherInv, NEW p \in Procs, NEW s \in Legacy, Publish(p, s) PROVE PublisherInv'
<1>0. RestTypeOK /\ s \in Ids
  BY WhatIsCalled DEF PublisherInv, Ids
<1>1. /\ Doing(p, "publish", s)
      /\ UNCHANGED <<doc, owner, lease, current, playing, up, asked>>
  BY DEF Publish
<1>2. CASE /\ ctl' = Append(ctl, <<"START", s>>) /\ sent' = sent \cup {s}
           /\ Then(p, <<>>) /\ UNCHANGED faults
  BY <1>0, <1>1, <1>2, SentKeeps
<1>3. CASE Fault /\ Become(p, <<<<"release", s>>>>) /\ UNCHANGED <<ctl, sent>>
  <2>1. faults' \in 0..MaxFaults
    BY <1>0, <1>3, Spending
  <2> QED BY <1>1, <1>3, <2>1, GiveUpQuiet
<1> QED BY <1>2, <1>3 DEF Publish

LEMMA AwaitKeeps ==
  ASSUME PublisherInv, NEW p \in Procs, NEW s \in Legacy, Await(p, s) PROVE PublisherInv'
<1>0. RestTypeOK /\ Tokens
  BY WhatIsCalled DEF PublisherInv
<1>1. /\ Doing(p, "await", s)
      /\ UNCHANGED <<doc, owner, lease, current, ctl, sent, playing, up, asked, faults>>
  BY DEF Await
<1>2. RestTypeOK' /\ faults' \in 0..MaxFaults
  BY <1>0, <1>1 DEF RestTypeOK
<1>3. CASE Then(p, <<>>)
  <2>1. At(proc[p].todo, "await", s)
    BY <1>1, HeadOK
  <2>2. doc.pending = s /\ doc.st \notin LIVE
    BY <1>0, <2>1 DEF Tokens, Ids
  <2> QED BY <1>1, <1>2, <1>3, <2>2, StartGoesOn
<1>4. CASE Become(p, <<<<"release", s>>>>)
  BY <1>1, <1>2, <1>4, GiveUpQuiet
<1> QED BY <1>3, <1>4 DEF Await

\* The lease comes to run the v1 stream while no epoch is live.
LEMMA KeepKeeps ==
  ASSUME PublisherInv, NEW p \in Procs, NEW s \in Legacy, Keep(p, s) PROVE PublisherInv'
<1> DEFINE l == proc[p].lease
<1>0. /\ RestTypeOK /\ OneLease /\ Todos /\ Apart /\ Tokens /\ Epochs
      /\ proc \in [Procs -> Coroutine] /\ s \in Ids
  BY WhatIsCalled DEF PublisherInv, Ids
<1>1. /\ Doing(p, "keep", s) /\ lease' = Stored(l, None, s, 1) /\ Then(p, <<>>)
      /\ UNCHANGED <<doc, owner, current, ctl, sent, playing, up, asked, faults>>
  BY DEF Keep
<1>2. At(proc[p].todo, "keep", s)
  BY <1>1, HeadOK
<1>3. doc.st \notin LIVE
  BY <1>0, <1>2 DEF Tokens
<1>4. Claims' = Claims
  BY <1>1 DEF Claims, Claimed
<1>5. /\ proc' \in [Procs -> Coroutine]
      /\ \A q \in Procs \ {p} : proc'[q] = proc[q]
      /\ TodoOK(proc'[p].todo, proc'[p].lease, Claims')
      /\ \A x \in Later : \A t : At(proc'[p].todo, x, t) => "keep" = Before(x) /\ t = s
      /\ \A t : Ends(proc'[p].todo, t) => Ends(proc[p].todo, t)
  BY <1>0, <1>1, <1>4, ThenNext
<1>6. \A x \in Later : \A t : ~At(proc'[p].todo, x, t)
  BY <1>5, BeforeWhat DEF Later
<1>7. /\ lease' \in [Leases -> LeaseRow]
      /\ \A k \in Leases : /\ lease'[k].st = lease[k].st
                           /\ lease'[k] = lease[k] \/ (k = l /\ Valid(l))
  <2> HIDE DEF l
  <2> DEFINE stored == Stored(l, None, s, 1)
  <2>1. /\ stored \in [Leases -> LeaseRow]
        /\ \A k \in Leases :
             /\ stored[k].st = lease[k].st
             /\ \/ stored[k] = lease[k]
                \/ /\ k = l /\ Valid(l) /\ lease[l].stream = None
                   /\ stored[k].stream = s /\ stored[k].ver = 1
    BY <1>0, StoredForm
  <2> HIDE DEF stored
  <2> QED BY <1>1, <2>1 DEF stored
<1> HIDE DEF l
<1>8. StreamTypeOK'
  <2>1. RestTypeOK'
    BY <1>0, <1>1, <1>7 DEF RestTypeOK
  <2> QED BY <1>5, <2>1, TypesTogetherNext
<1>9. Todos' /\ Apart'
  BY <1>0, <1>4, <1>5, TodosStep, ApartStep
<1>10. OneLease'
  <2>1. \A k \in Leases : Valid(k)' => Valid(k)
    BY <1>7 DEF Valid
  <2>2. \A k \in Leases : lease'[k].st = "new" => lease'[k] = lease[k]
    BY <1>7 DEF Valid
  <2> QED BY <1>0, <1>1, <2>1, <2>2 DEF OneLease
<1>11. Tokens'
  <2> SUFFICES ASSUME NEW q \in Procs, NEW t \in Ids \cup {None},
                      NEW x \in {"check", "publish", "await", "keep"}, At(proc'[q].todo, x, t)
               PROVE  /\ t \in Legacy /\ doc'.pending = t
                      /\ x \in {"publish", "await", "keep"} => doc'.st \notin LIVE
    BY DEF Tokens
  <2>1. q # p
    BY <1>6 DEF Later
  <2>2. At(proc[q].todo, x, t)
    BY <1>5, <2>1
  <2> QED BY <1>0, <1>1, <2>2 DEF Tokens
<1>12. Epochs'
  <2>1. \A q \in Procs : \A t : /\ At(proc'[q].todo, "save", t) => At(proc[q].todo, "save", t)
                                /\ At(proc'[q].todo, "send", t) => At(proc[q].todo, "send", t)
    BY <1>5, <1>6 DEF Later
  <2>2. \A q \in Procs, t \in Ids \cup {None} :
          At(proc'[q].todo, "save", t) \/ At(proc'[q].todo, "send", t) => t \in Claims'
    BY <1>0, <1>4, <2>1 DEF Epochs
  <2> QED BY <1>0, <1>1, <1>3, <1>4, <2>2 DEF Epochs
<1> QED BY <1>8, <1>9, <1>10, <1>11, <1>12 DEF PublisherInv

\* Only the start that holds the token gives it up: no other start waits for it.
LEMMA ReleaseKeeps ==
  ASSUME PublisherInv, NEW p \in Procs, NEW s \in Legacy, Release(p, s) PROVE PublisherInv'
<1>0. /\ RestTypeOK /\ OneLease /\ Todos /\ Apart /\ Tokens /\ Epochs
      /\ proc \in [Procs -> Coroutine] /\ s \in Ids
      /\ doc = [id |-> doc.id, st |-> doc.st, pending |-> doc.pending]
  BY WhatIsCalled DEF PublisherInv, Ids
<1>1. /\ Doing(p, "release", s) /\ Then(p, <<>>)
      /\ doc' = IF doc.pending = s THEN [doc EXCEPT !.pending = None] ELSE doc
      /\ UNCHANGED <<owner, lease, current, ctl, sent, playing, up, asked, faults>>
  BY DEF Release
<1>2. /\ doc'.id = doc.id /\ doc'.st = doc.st
      /\ doc'.pending = doc.pending \/ doc.pending = s
      /\ doc' \in [id: Streams \cup {None}, st: LIVE \cup {"none", "stopped", "failed"},
                   pending: Legacy \cup {None}]
  BY <1>0, <1>1 DEF RestTypeOK
<1>3. Ends(proc[p].todo, s)
  BY <1>1, HeadOK DEF Start1
<1>4. Claims' = Claims
  BY <1>1 DEF Claims, Claimed
<1>5. /\ proc' \in [Procs -> Coroutine]
      /\ \A q \in Procs \ {p} : proc'[q] = proc[q]
      /\ TodoOK(proc'[p].todo, proc'[p].lease, Claims')
      /\ \A x \in Later : \A t : At(proc'[p].todo, x, t) => "release" = Before(x) /\ t = s
      /\ \A t : Ends(proc'[p].todo, t) => Ends(proc[p].todo, t)
  BY <1>0, <1>1, <1>4, ThenNext
<1>6. \A x \in Later : \A t : ~At(proc'[p].todo, x, t)
  BY <1>5, BeforeWhat DEF Later
<1>7. StreamTypeOK'
  <2>1. RestTypeOK'
    BY <1>0, <1>1, <1>2 DEF RestTypeOK
  <2> QED BY <1>5, <2>1, TypesTogetherNext
<1>8. Todos' /\ Apart'
  BY <1>0, <1>4, <1>5, TodosStep, ApartStep
<1>9. OneLease'
  BY <1>0, <1>1 DEF OneLease, Valid
<1>10. Tokens'
  <2> SUFFICES ASSUME NEW q \in Procs, NEW t \in Ids \cup {None},
                      NEW x \in {"check", "publish", "await", "keep"}, At(proc'[q].todo, x, t)
               PROVE  /\ t \in Legacy /\ doc'.pending = t
                      /\ x \in {"publish", "await", "keep"} => doc'.st \notin LIVE
    BY DEF Tokens
  <2>1. q # p
    BY <1>6 DEF Later
  <2>2. At(proc[q].todo, x, t)
    BY <1>5, <2>1
  <2>3. /\ t \in Legacy /\ doc.pending = t
        /\ x \in {"publish", "await", "keep"} => doc.st \notin LIVE
    BY <1>0, <2>2 DEF Tokens
  <2>4. Doing(q, x, t)
    BY <2>2 DEF At, Doing
  <2>5. Ends(proc[q].todo, t)
    BY <2>4, HeadOK DEF Start1
  <2>6. t # s
    BY <1>0, <1>3, <2>1, <2>5 DEF Apart
  <2> QED BY <1>2, <2>3, <2>6
<1>11. Epochs'
  <2>1. \A q \in Procs : \A t : /\ At(proc'[q].todo, "save", t) => At(proc[q].todo, "save", t)
                                /\ At(proc'[q].todo, "send", t) => At(proc[q].todo, "send", t)
    BY <1>5, <1>6 DEF Later
  <2>2. \A q \in Procs, t \in Ids \cup {None} :
          At(proc'[q].todo, "save", t) \/ At(proc'[q].todo, "send", t) => t \in Claims'
    BY <1>0, <1>4, <2>1 DEF Epochs
  <2>3. Saved(doc.id)' => Saved(doc.id)
    BY <1>1, <1>2, <2>1 DEF Saved
  <2>4. \A k \in Leases : Runs1(k)' => Runs1(k)
    BY <1>1 DEF Runs1, Valid
  <2> QED BY <1>0, <1>1, <1>2, <1>4, <2>2, <2>3, <2>4 DEF Epochs
<1> QED BY <1>7, <1>8, <1>9, <1>10, <1>11 DEF PublisherInv

\* The token runs out when no start is left that would release it.
LEMMA TokenExpiresKeeps == ASSUME PublisherInv, TokenExpires PROVE PublisherInv'
<1>0. /\ RestTypeOK /\ OneLease /\ Todos /\ Apart /\ Tokens /\ Epochs
      /\ proc \in [Procs -> Coroutine]
      /\ doc = [id |-> doc.id, st |-> doc.st, pending |-> doc.pending]
  BY WhatIsCalled DEF PublisherInv
<1>1. /\ doc' = [doc EXCEPT !.pending = None]
      /\ UNCHANGED <<owner, lease, current, ctl, sent, playing, up, proc, asked, faults>>
      /\ \A p \in Procs : \A i \in DOMAIN proc[p].todo : proc[p].todo[i] # <<"release", doc.pending>>
  BY DEF TokenExpires
<1>2. /\ doc'.id = doc.id /\ doc'.st = doc.st
      /\ doc' \in [id: Streams \cup {None}, st: LIVE \cup {"none", "stopped", "failed"},
                   pending: Legacy \cup {None}]
  BY <1>0, <1>1 DEF RestTypeOK
<1>3. Claims' = Claims
  BY <1>1 DEF Claims, Claimed
<1>4. StreamTypeOK'
  <2>1. RestTypeOK'
    BY <1>0, <1>1, <1>2 DEF RestTypeOK
  <2> QED BY <1>0, <1>1, <2>1, TypesTogetherNext
<1>5. Todos' /\ Apart' /\ OneLease'
  BY <1>0, <1>1, <1>3 DEF Todos, Apart, OneLease, Valid
<1>6. Tokens'
  <2> SUFFICES ASSUME NEW q \in Procs, NEW t \in Ids \cup {None},
                      NEW x \in {"check", "publish", "await", "keep"}, At(proc'[q].todo, x, t)
               PROVE  FALSE
    BY DEF Tokens
  <2>1. At(proc[q].todo, x, t) /\ Doing(q, x, t)
    BY <1>1 DEF At, Doing
  <2>2. doc.pending = t
    BY <1>0, <2>1 DEF Tokens
  <2>3. Ends(proc[q].todo, t)
    BY <2>1, HeadOK DEF Start1
  <2>4. proc[q].todo \in Seq(Item) /\ proc[q].todo # <<>>
    BY <1>0, <2>1 DEF At, Coroutine
  <2>5. Len(proc[q].todo) \in DOMAIN proc[q].todo
    BY <2>4, RestOfList
  <2> QED BY <1>1, <2>2, <2>3, <2>5 DEF Ends
<1>7. Epochs'
  <2>1. Saved(doc.id)' => Saved(doc.id)
    BY <1>1, <1>2 DEF Saved
  <2>2. \A k \in Leases : Runs1(k)' => Runs1(k)
    BY <1>1 DEF Runs1, Valid
  <2> QED BY <1>0, <1>1, <1>2, <1>3, <2>1, <2>2 DEF Epochs
<1> QED BY <1>4, <1>5, <1>6, <1>7 DEF PublisherInv

-----------------------------------------------------------------------------
(* New coroutines *)

LEMMA StartForm ==
  ASSUME proc \in [Procs -> Coroutine], NEW p \in Coroutines, NEW l \in Leases \cup {None},
         NEW ver \in 0..2, NEW stream \in Ids \cup {None}, NEW todo \in Seq(Item),
         StartWork(p, l, ver, stream, todo)
  PROVE  /\ proc' \in [Procs -> Coroutine] /\ p \in Procs
         /\ \A q \in Procs \ {p} : proc'[q] = proc[q]
         /\ proc'[p].todo = todo /\ proc'[p].lease = l
<1> DEFINE new == [todo |-> todo, lease |-> l, ver |-> ver, stream |-> stream]
<1>1. new \in Coroutine /\ p \in Procs
  BY DEF Coroutine, Procs
<1>2. proc' = [proc EXCEPT ![p] = new]
  BY DEF StartWork
<1> QED BY <1>1, <1>2

\* A coroutine begins with a list that is in order and starts no v1 stream.
LEMMA StartQuiet ==
  ASSUME PublisherInv, NEW p \in Coroutines, NEW l \in Leases \cup {None},
         NEW ver \in 0..2, NEW stream \in Ids \cup {None}, NEW todo \in Seq(Item),
         StartWork(p, l, ver, stream, todo), TodoOK(todo, l, Claims),
         todo # <<>> => Head(todo)[1] \notin Later, \A s : ~Ends(todo, s),
         UNCHANGED <<doc, owner, lease, current, ctl, sent, playing, up, faults>>,
         Event \/ UNCHANGED asked
  PROVE  PublisherInv'
<1>0. RestTypeOK /\ OneLease /\ proc \in [Procs -> Coroutine]
  BY WhatIsCalled DEF PublisherInv
<1>1. Claims' = Claims
  BY DEF Claims, Claimed
<1>2. /\ proc' \in [Procs -> Coroutine] /\ p \in Procs
      /\ \A q \in Procs \ {p} : proc'[q] = proc[q]
      /\ proc'[p].todo = todo /\ proc'[p].lease = l
  BY <1>0, StartForm
<1>3. \A q \in Procs : Calm(q)
  <2>1. Calm(p)
    BY <1>1, <1>2 DEF Calm
  <2> QED BY <1>2, <2>1 DEF Calm
<1>4. asked' \in 0..MaxEvents
  BY <1>0, Spending DEF RestTypeOK
<1>5. RestTypeOK'
  BY <1>0, <1>4 DEF RestTypeOK
<1>6. StreamTypeOK' /\ LeasesCalm
  BY <1>0, <1>2, <1>5, TypesTogetherNext, SameLeasesCalm
<1> QED BY <1>1, <1>3, <1>6, Quiet

\* A coroutine begins with plain steps.
LEMMA StartPlain ==
  ASSUME PublisherInv, NEW p \in Coroutines, NEW l \in Leases \cup {None},
         NEW ver \in 0..2, NEW stream \in Ids \cup {None}, NEW todo \in Seq(Item), Plain(todo),
         StartWork(p, l, ver, stream, todo),
         UNCHANGED <<doc, owner, lease, current, ctl, sent, playing, up, faults>>,
         Event \/ UNCHANGED asked
  PROVE  PublisherInv'
<1>1. /\ TodoOK(todo, l, Claims) /\ \A s : ~Ends(todo, s)
      /\ todo # <<>> => Head(todo)[1] \notin Later
  BY PlainOK
<1> QED BY <1>1, StartQuiet

LEMMA RevokeQuiet ==
  ASSUME PublisherInv, NEW p \in Coroutines, NEW l \in Leases, Revoke(p, l) PROVE PublisherInv'
<1> DEFINE kill == <<<<"kill", None>>, <<"halt", None>>>>
           stop == IF lease[l].ver = 1 /\ lease[l].stream # None
                   THEN <<<<"stop", lease[l].stream>>>> ELSE <<>>
<1>1. /\ lease[l].ver \in 0..2 /\ lease[l].stream \in Ids \cup {None}
  BY WhatIsCalled DEF PublisherInv
<1>2. kill \in Seq(Item) /\ Plain(kill)
  BY TwoOf DEF PlainSteps
<1>3. stop \in Seq(Item) /\ Plain(stop)
  BY <1>1, OneOf, EmptyOK DEF PlainSteps
<1>4. /\ StartWork(p, l, lease[l].ver, lease[l].stream, kill \o stop) /\ Event
      /\ UNCHANGED <<doc, owner, lease, current, ctl, sent, playing, up, faults>>
  BY DEF Revoke
<1> HIDE DEF kill, stop
<1>5. kill \o stop \in Seq(Item) /\ Plain(kill \o stop)
  BY <1>2, <1>3, PlainJoined
<1> QED BY <1>1, <1>4, <1>5, StartPlain

LEMMA StopBeginQuiet ==
  ASSUME PublisherInv, NEW p \in Coroutines, NEW l \in Leases, StopBegin(p, l) PROVE PublisherInv'
<1> DEFINE todo == <<<<"halt", None>>, <<"clear", doc.id>>>>
<1>1. /\ lease[l].ver \in 0..2 /\ lease[l].stream \in Ids \cup {None}
      /\ doc.id \in Ids \cup {None}
  BY WhatIsCalled DEF PublisherInv, Ids
<1>2. todo \in Seq(Item) /\ Plain(todo)
  BY <1>1, TwoOf DEF PlainSteps
<1>3. /\ StartWork(p, l, lease[l].ver, lease[l].stream, todo) /\ Event
      /\ UNCHANGED <<doc, owner, lease, current, ctl, sent, playing, up, faults>>
  BY DEF StopBegin
<1> HIDE DEF todo
<1> QED BY <1>1, <1>2, <1>3, StartPlain

LEMMA LegacyStopQuiet ==
  ASSUME PublisherInv, NEW p \in Coroutines, NEW l \in Leases, LegacyStop(p, l) PROVE PublisherInv'
<1> DEFINE todo == <<<<"stop", lease[l].stream>>, <<"forget", lease[l].stream>>>>
<1>1. lease[l].stream \in Ids \cup {None}
  BY WhatIsCalled DEF PublisherInv
<1>2. todo \in Seq(Item) /\ Plain(todo)
  BY <1>1, TwoOf DEF PlainSteps
<1>3. /\ StartWork(p, l, 0, None, todo) /\ Event
      /\ UNCHANGED <<doc, owner, lease, current, ctl, sent, playing, up, faults>>
  BY DEF LegacyStop
<1> HIDE DEF todo
<1> QED BY <1>1, <1>2, <1>3, StartPlain

LEMMA HandleQuiet ==
  ASSUME PublisherInv, NEW p \in Coroutines, NEW m \in up, Handle(p, m) PROVE PublisherInv'
<1> DEFINE s == m[2]
           l == owner[s]
<1>1. /\ RestTypeOK /\ Epochs /\ s \in Streams /\ s \in Ids
  BY WhatIsCalled DEF PublisherInv, Handle, Ids
<1>2. PICK todo \in {<<<<"ready", s>>, <<"record", s>>>>, <<<<"fail", s>>, <<"record", s>>>>,
                     <<<<"terminate", s>>>>} :
        Live(s) /\ StartWork(p, l, 0, lease[l].stream, todo)
  BY DEF Handle
<1>3. todo \in Seq(Item) /\ Plain(todo)
  <2>1. /\ <<<<"ready", s>>, <<"record", s>>>> \in Seq(Item)
        /\ Plain(<<<<"ready", s>>, <<"record", s>>>>)
        /\ <<<<"fail", s>>, <<"record", s>>>> \in Seq(Item)
        /\ Plain(<<<<"fail", s>>, <<"record", s>>>>)
        /\ <<<<"terminate", s>>>> \in Seq(Item) /\ Plain(<<<<"terminate", s>>>>)
    BY <1>1, OneOf, TwoOf DEF PlainSteps
  <2> QED BY <1>2, <2>1
<1>4. l \in Leases
  <2>1. s \in Claims
    BY <1>1, <1>2, StreamsAssumption DEF Epochs, Live
  <2> QED BY <1>1, <2>1 DEF RestTypeOK, Claims, Claimed
<1>5. lease[l].stream \in Ids \cup {None}
  BY <1>4, WhatIsCalled DEF PublisherInv
<1>6. UNCHANGED <<doc, owner, lease, current, ctl, sent, playing, up, asked, faults>>
  BY DEF Handle
<1> HIDE DEF s, l
<1> QED BY <1>2, <1>3, <1>4, <1>5, <1>6, StartPlain

LEMMA StartBeginQuiet ==
  ASSUME PublisherInv, NEW p \in Coroutines, NEW l \in Leases, NEW s \in Streams,
         StartBegin(p, l, s)
  PROVE  PublisherInv'
<1> DEFINE todo == <<<<"reconcile", None>>, <<"reserve", s>>, <<"save", s>>,
                     <<"send", s>>, <<"poll", s>>>>
<1>1. s \in Ids /\ lease[l].stream \in Ids \cup {None}
  BY WhatIsCalled DEF PublisherInv, Ids
<1>2. /\ <<"reconcile", None>> \in Item /\ <<"reserve", s>> \in Item /\ <<"save", s>> \in Item
      /\ <<"send", s>> \in Item /\ <<"poll", s>> \in Item
  BY <1>1 DEF Item, Steps
<1>3. /\ todo \in Seq(Item) /\ Len(todo) = 5 /\ Head(todo) = <<"reconcile", None>>
      /\ todo[1] = <<"reconcile", None>> /\ todo[2] = <<"reserve", s>> /\ todo[3] = <<"save", s>>
      /\ todo[4] = <<"send", s>> /\ todo[5] = <<"poll", s>>
  BY <1>2
<1>4. StartWork(p, l, 0, lease[l].stream, todo)
  BY DEF StartBegin
<1> HIDE DEF todo
<1>5. Ordered(todo)
  <2> SUFFICES ASSUME NEW i \in 1..4, todo[i + 1][1] \in Later
               PROVE  todo[i] = <<Before(todo[i + 1][1]), todo[i + 1][2]>>
    BY <1>3 DEF Ordered
  <2>1. i = 1 \/ i = 2 \/ i = 3 \/ i = 4
    OBVIOUS
  <2>2. CASE i = 1
    BY <1>3, <2>2 DEF Later
  <2>3. CASE i = 2
    BY <1>3, <2>3, BeforeWhat
  <2>4. CASE i = 3
    BY <1>3, <2>4, BeforeWhat
  <2>5. CASE i = 4
    BY <1>3, <2>5 DEF Later
  <2> QED BY <2>1, <2>2, <2>3, <2>4, <2>5
<1>6. \A i \in 1..Len(todo) : todo[i][1] \notin Start1
  <2>1. \A i \in 1..5 : i = 1 \/ i = 2 \/ i = 3 \/ i = 4 \/ i = 5
    OBVIOUS
  <2> QED BY <1>3, <2>1 DEF Start1
<1>7. TodoOK(todo, l, Claims)
  BY <1>5, <1>6 DEF TodoOK, Ending
<1>8. ASSUME NEW t PROVE ~Ends(todo, t)
  BY <1>3 DEF Ends
<1>9. Head(todo)[1] \notin Later
  BY <1>3 DEF Later
<1>10. UNCHANGED <<doc, owner, lease, current, ctl, sent, playing, up, faults>> /\ Event
  BY DEF StartBegin
<1> QED BY <1>1, <1>3, <1>4, <1>7, <1>8, <1>9, <1>10, StartQuiet

\* The server draws the id of a v1 stream: no other coroutine starts it.
LEMMA LegacyBeginKeeps ==
  ASSUME PublisherInv, NEW p \in Coroutines, NEW l \in Leases, NEW s \in Legacy,
         LegacyBegin(p, l, s)
  PROVE  PublisherInv'
<1> DEFINE todo == <<<<"token", s>>, <<"check", s>>, <<"publish", s>>,
                     <<"await", s>>, <<"keep", s>>, <<"release", s>>>>
<1>0. /\ RestTypeOK /\ OneLease /\ Todos /\ Apart /\ Tokens /\ Epochs
      /\ proc \in [Procs -> Coroutine] /\ s \in Ids
  BY WhatIsCalled DEF PublisherInv, Ids
<1>1. /\ <<"token", s>> \in Item /\ <<"check", s>> \in Item /\ <<"publish", s>> \in Item
      /\ <<"await", s>> \in Item /\ <<"keep", s>> \in Item /\ <<"release", s>> \in Item
  BY <1>0 DEF Item, Steps
<1>2. /\ todo \in Seq(Item) /\ Len(todo) = 6 /\ Head(todo) = <<"token", s>> /\ todo # <<>>
      /\ todo[1] = <<"token", s>> /\ todo[2] = <<"check", s>> /\ todo[3] = <<"publish", s>>
      /\ todo[4] = <<"await", s>> /\ todo[5] = <<"keep", s>> /\ todo[6] = <<"release", s>>
  BY <1>1
<1>3. /\ StartWork(p, l, 0, None, todo) /\ ~Claimed(s) /\ Event
      /\ owner' = [owner EXCEPT ![s] = l]
      /\ UNCHANGED <<doc, lease, current, ctl, sent, playing, up, faults>>
  BY DEF LegacyBegin
<1> HIDE DEF todo
<1>4. /\ owner' \in [Ids -> Leases \cup {None}]
      /\ owner'[s] = l /\ \A t \in Ids \ {s} : owner'[t] = owner[t]
  BY <1>0, <1>3 DEF RestTypeOK
<1>5. Claims \subseteq Claims' /\ s \in Claims' /\ s \notin Claims
  BY <1>0, <1>3, <1>4, StreamsAssumption DEF Claims, Claimed
<1>6. /\ proc' \in [Procs -> Coroutine] /\ p \in Procs
      /\ \A q \in Procs \ {p} : proc'[q] = proc[q]
      /\ proc'[p].todo = todo /\ proc'[p].lease = l
  <2>1. StartWork(p, l, 0, None, todo) /\ todo \in Seq(Item) /\ proc \in [Procs -> Coroutine]
    BY <1>0, <1>2, <1>3
  <2>2. l \in Leases \cup {None} /\ 0 \in 0..2 /\ None \in Ids \cup {None}
    OBVIOUS
  <2> QED BY <2>1, <2>2, StartForm
<1>7. \A i \in 1..6 : i = 1 \/ i = 2 \/ i = 3 \/ i = 4 \/ i = 5 \/ i = 6
  OBVIOUS
<1>8. Ordered(todo)
  <2> SUFFICES ASSUME NEW i \in 1..5, todo[i + 1][1] \in Later
               PROVE  todo[i] = <<Before(todo[i + 1][1]), todo[i + 1][2]>>
    BY <1>2 DEF Ordered
  <2>1. i = 1 \/ i = 2 \/ i = 3 \/ i = 4 \/ i = 5
    OBVIOUS
  <2>2. CASE i = 1
    BY <1>2, <2>2, BeforeWhat
  <2>3. CASE i = 2
    BY <1>2, <2>3, BeforeWhat
  <2>4. CASE i = 3
    BY <1>2, <2>4, BeforeWhat
  <2>5. CASE i = 4
    BY <1>2, <2>5, BeforeWhat
  <2>6. CASE i = 5
    BY <1>2, <2>6 DEF Later
  <2> QED BY <2>1, <2>2, <2>3, <2>4, <2>5, <2>6
<1>9. \A i \in 1..6 : todo[i][2] = s /\ (todo[i][1] = "release" => i = 6)
  BY <1>2, <1>7
<1>10. TodoOK(todo, l, Claims')
  <2>1. Ending(todo)
    BY <1>2, <1>9 DEF Ending
  <2>2. \A i \in 1..Len(todo) : todo[i][2] \in Claims'
    BY <1>2, <1>5, <1>9
  <2> QED BY <1>8, <2>1, <2>2 DEF TodoOK
<1>11. \A t : Ends(todo, t) => t = s
  BY <1>2 DEF Ends
<1>12. \A x \in Later : \A t : ~At(todo, x, t)
  BY <1>2 DEF At, Later
<1>13. StreamTypeOK'
  <2>1. asked' \in 0..MaxEvents
    BY <1>0, <1>3, Spending
  <2>2. RestTypeOK'
    BY <1>0, <1>3, <1>4, <2>1 DEF RestTypeOK
  <2> QED BY <1>6, <2>2, TypesTogetherNext
<1>14. Todos'
  BY <1>0, <1>5, <1>6, <1>10, TodosStep
<1>15. Apart'
  <2>1. \A q \in Procs : ~Ends(proc[q].todo, s)
    <3> SUFFICES ASSUME NEW q \in Procs, Ends(proc[q].todo, s) PROVE FALSE
      OBVIOUS
    <3> DEFINE list == proc[q].todo
               n == Len(list)
    <3>1. list \in Seq(Item) /\ list # <<>> /\ list[n] = <<"release", s>>
      BY <1>0 DEF Ends, Coroutine
    <3>2. n \in 1..n /\ list[n][1] = "release" /\ list[n][2] = s
      BY <3>1, RestOfList
    <3>3. TodoOK(list, proc[q].lease, Claims)
      BY <1>0 DEF Todos
    <3>4. list[n][2] \in Claims
      BY <3>2, <3>3 DEF TodoOK, Start1
    <3> QED BY <1>5, <3>2, <3>4
  <2> SUFFICES ASSUME NEW a \in Procs, NEW b \in Procs, NEW t \in Ids,
                      Ends(proc'[a].todo, t), Ends(proc'[b].todo, t)
               PROVE  a = b
    BY DEF Apart
  <2>2. CASE t = s
    <3>1. a = p /\ b = p
      BY <1>6, <2>1, <2>2
    <3> QED BY <3>1
  <2>3. CASE t # s
    <3>1. a # p /\ b # p
      BY <1>6, <1>11, <2>3
    <3>2. Ends(proc[a].todo, t) /\ Ends(proc[b].todo, t)
      BY <1>6, <3>1
    <3> QED BY <1>0, <3>2 DEF Apart
  <2> QED BY <2>2, <2>3
<1>16. \A q \in Procs : \/ proc'[q] = proc[q]
                        \/ proc'[q].todo # <<>> => Head(proc'[q].todo)[1] \notin Later
  <2>1. Head(todo)[1] \notin Later
    BY <1>2 DEF Later
  <2> QED BY <1>6, <2>1
<1>17. Tokens'
  BY <1>0, <1>3, <1>16, TokensStep
<1>18. OneLease'
  BY <1>0, <1>3 DEF OneLease, Valid
<1>19. Epochs'
  <2>1. \A k \in Leases : Runs1(k)' => Runs1(k)
    BY <1>3 DEF Runs1, Valid
  <2> QED BY <1>0, <1>3, <1>5, <1>16, <2>1, EpochsStep
<1> QED BY <1>13, <1>14, <1>15, <1>17, <1>18, <1>19 DEF PublisherInv

-----------------------------------------------------------------------------
(* Leases, the agent, the cleanup loop, and the process of the server *)

LEMMA OutsideQuiet ==
  ASSUME PublisherInv, RestTypeOK', LeasesCalm, UNCHANGED <<doc, owner, sent, proc>>
  PROVE  PublisherInv'
<1>1. Claims' = Claims
  BY DEF Claims, Claimed
<1>2. StreamTypeOK'
  BY WhatIsCalled, TypesTogetherNext DEF PublisherInv
<1> QED BY <1>1, <1>2, SameCoroutines, Quiet

\* A lease is acquired when no lease is live; it records no stream.
LEMMA AcquireQuiet == ASSUME PublisherInv, NEW l \in Leases, Acquire(l) PROVE PublisherInv'
<1>0. RestTypeOK /\ OneLease
  BY WhatIsCalled DEF PublisherInv
<1>1. /\ current = None /\ lease[l].st = "new" /\ current' = l
      /\ lease' = [lease EXCEPT ![l].st = "live"]
      /\ UNCHANGED <<doc, owner, ctl, sent, playing, up, proc, asked, faults>>
  BY DEF Acquire
<1>2. /\ lease' \in [Leases -> LeaseRow] /\ lease'[l].st = "live"
      /\ lease'[l].stream = lease[l].stream
      /\ \A k \in Leases \ {l} : lease'[k] = lease[k]
  BY <1>0, <1>1 DEF RestTypeOK, LeaseRow
<1>3. RestTypeOK'
  BY <1>0, <1>1, <1>2 DEF RestTypeOK
<1>4. \A k \in Leases : ~Valid(k)
  BY <1>0, <1>1, StreamsAssumption DEF OneLease
<1>5. OneLease'
  <2> SUFFICES ASSUME NEW k \in Leases
               PROVE  /\ Valid(k)' => current' = k
                      /\ lease'[k].st = "new" => lease'[k].stream = None
    BY DEF OneLease, Valid
  <2>1. CASE k = l
    BY <1>1, <1>2, <2>1
  <2>2. CASE k # l
    BY <1>0, <1>2, <1>4, <2>2 DEF OneLease, Valid
  <2> QED BY <2>1, <2>2
<1>6. \A k \in Leases : ~Runs1(k)'
  <2> SUFFICES ASSUME NEW k \in Leases, Runs1(k)' PROVE FALSE
    OBVIOUS
  <2>1. CASE k = l
    BY <1>0, <1>1, <1>2, <2>1 DEF OneLease, Runs1
  <2>2. CASE k # l
    BY <1>2, <1>4, <2>2 DEF Runs1, Valid
  <2> QED BY <2>1, <2>2
<1> QED BY <1>1, <1>3, <1>5, <1>6, OutsideQuiet DEF LeasesCalm

LEMMA ExpireQuiet == ASSUME PublisherInv, NEW l \in Leases, Expire(l) PROVE PublisherInv'
<1>0. RestTypeOK /\ OneLease
  BY WhatIsCalled DEF PublisherInv
<1>1. /\ lease' = [lease EXCEPT ![l].st = "dead"] /\ Event
      /\ current' = IF current = l THEN None ELSE current
      /\ UNCHANGED <<doc, owner, ctl, sent, playing, up, proc, faults>>
  BY DEF Expire
<1>2. /\ lease' \in [Leases -> LeaseRow] /\ lease'[l].st = "dead"
      /\ \A k \in Leases \ {l} : lease'[k] = lease[k]
  BY <1>0, <1>1 DEF RestTypeOK, LeaseRow
<1>3. asked' \in 0..MaxEvents
  BY <1>0, <1>1, Spending
<1>4. RestTypeOK'
  BY <1>0, <1>1, <1>2, <1>3 DEF RestTypeOK
<1>5. LeasesCalm
  BY <1>0, <1>1, <1>2 DEF OneLease, LeasesCalm, Runs1, Valid
<1> QED BY <1>1, <1>4, <1>5, OutsideQuiet

LEMMA DeliverQuiet == ASSUME PublisherInv, Deliver PROVE PublisherInv'
<1> DEFINE s == Head(ctl)[2]
<1>0. RestTypeOK /\ OneLease
  BY WhatIsCalled DEF PublisherInv
<1>1. /\ ctl # <<>> /\ ctl' = Tail(ctl)
      /\ UNCHANGED <<doc, owner, lease, current, sent, proc, faults>>
      /\ UNCHANGED asked \/ Event
      /\ playing' \in {playing, playing \cup {s}, playing \ {s}}
      /\ up' \in {up, up \cup {<<"READY", s>>}, up \cup {<<"NACK", s>>}}
  BY DEF Deliver
<1>2. ctl' \in Seq({"START", "STOP"} \X Ids) /\ s \in Ids
  <2> DEFINE Command == {"START", "STOP"} \X Ids
  <2>1. \A c \in Command : c[2] \in Ids
    OBVIOUS
  <2>2. ctl \in Seq(Command)
    BY <1>0 DEF RestTypeOK
  <2> HIDE DEF Command
  <2>3. Head(ctl) \in Command /\ Tail(ctl) \in Seq(Command)
    BY <1>1, <2>2
  <2> QED BY <1>1, <2>1, <2>3 DEF Command
<1> HIDE DEF s
<1>3. /\ playing' \subseteq Ids /\ up' \subseteq {"READY", "ERROR", "NACK"} \X Ids
  BY <1>0, <1>1, <1>2 DEF RestTypeOK
<1>4. asked' \in 0..MaxEvents
  BY <1>0, <1>1, Spending DEF RestTypeOK
<1>5. RestTypeOK' /\ LeasesCalm
  BY <1>0, <1>1, <1>2, <1>3, <1>4, SameLeasesCalm DEF RestTypeOK
<1> QED BY <1>1, <1>5, OutsideQuiet

LEMMA LoseQuiet == ASSUME PublisherInv, LoseCommand PROVE PublisherInv'
<1>0. RestTypeOK /\ OneLease
  BY WhatIsCalled DEF PublisherInv
<1>1. /\ ctl # <<>> /\ ctl' = Tail(ctl) /\ Fault
      /\ UNCHANGED <<doc, owner, lease, current, sent, playing, up, proc, asked>>
  BY DEF LoseCommand
<1>2. ctl' \in Seq({"START", "STOP"} \X Ids) /\ faults' \in 0..MaxFaults
  BY <1>0, <1>1, Spending DEF RestTypeOK
<1>3. RestTypeOK' /\ LeasesCalm
  BY <1>0, <1>1, <1>2, SameLeasesCalm DEF RestTypeOK
<1> QED BY <1>1, <1>3, OutsideQuiet

LEMMA AgentQuiet ==
  ASSUME PublisherInv, NEW s \in Streams, AgentFails(s) PROVE PublisherInv'
<1>0. RestTypeOK /\ OneLease /\ s \in Ids
  BY WhatIsCalled DEF PublisherInv, Ids
<1>1. /\ playing' = playing \ {s} /\ up' = up \cup {<<"ERROR", s>>} /\ Event
      /\ UNCHANGED <<doc, owner, lease, current, ctl, sent, proc, faults>>
  BY DEF AgentFails
<1>2. /\ playing' \subseteq Ids /\ up' \subseteq {"READY", "ERROR", "NACK"} \X Ids
      /\ asked' \in 0..MaxEvents
  BY <1>0, <1>1, Spending DEF RestTypeOK
<1>3. RestTypeOK' /\ LeasesCalm
  BY <1>0, <1>1, <1>2, SameLeasesCalm DEF RestTypeOK
<1> QED BY <1>1, <1>3, OutsideQuiet

LEMMA CleanQuiet == ASSUME PublisherInv, Clean PROVE PublisherInv'
<1> DEFINE todo == <<<<"reconcile", None>>>>
<1>0. /\ RestTypeOK /\ OneLease /\ proc \in [Procs -> Coroutine] /\ Cleaner \in Procs
  BY WhatIsCalled DEF PublisherInv, Procs
<1>1. /\ proc[Cleaner] = Idle
      /\ proc' = [proc EXCEPT ![Cleaner].todo = todo]
      /\ UNCHANGED <<doc, owner, lease, current, ctl, sent, playing, up, asked, faults>>
  BY DEF Clean
<1>2. todo \in Seq(Item) /\ Plain(todo) /\ Claims' = Claims
  BY <1>1, OneOf DEF PlainSteps, Claims, Claimed
<1> HIDE DEF todo
<1>3. /\ proc' \in [Procs -> Coroutine]
      /\ \A q \in Procs \ {Cleaner} : proc'[q] = proc[q]
      /\ proc'[Cleaner].todo = todo
  BY <1>0, <1>1, <1>2 DEF Coroutine
<1>4. \A q \in Procs : Calm(q)
  <2>1. Calm(Cleaner)
    BY <1>2, <1>3, PlainOK DEF Calm
  <2> QED BY <1>3, <2>1 DEF Calm
<1>5. RestTypeOK' /\ LeasesCalm
  BY <1>0, <1>1, SameLeasesCalm DEF RestTypeOK
<1>6. StreamTypeOK'
  BY <1>3, <1>5, TypesTogetherNext
<1> QED BY <1>1, <1>2, <1>4, <1>5, <1>6, Quiet

\* A crash leaves no coroutine with anything to do.
LEMMA CrashQuiet == ASSUME PublisherInv, ServerCrash PROVE PublisherInv'
<1>0. RestTypeOK /\ OneLease
  BY WhatIsCalled DEF PublisherInv
<1>1. /\ proc' = [p \in Procs |-> Idle] /\ Fault
      /\ UNCHANGED <<doc, owner, lease, current, ctl, sent, playing, up, asked>>
  BY DEF ServerCrash
<1>2. proc' \in [Procs -> Coroutine] /\ \A q \in Procs : proc'[q].todo = <<>>
  BY <1>1, IdleOK
<1>3. Claims' = Claims /\ faults' \in 0..MaxFaults
  BY <1>0, <1>1, Spending DEF Claims, Claimed
<1>4. \A q \in Procs : Calm(q)
  <2>1. \A s : ~Ends(<<>>, s)
    BY DEF Ends
  <2> QED BY <1>2, <2>1, EmptyOK DEF Calm
<1>5. RestTypeOK' /\ LeasesCalm
  BY <1>0, <1>1, <1>3, SameLeasesCalm DEF RestTypeOK
<1>6. StreamTypeOK'
  BY <1>2, <1>5, TypesTogetherNext
<1> QED BY <1>1, <1>3, <1>4, <1>5, <1>6, Quiet

-----------------------------------------------------------------------------
(* One publisher *)

LEMMA PublisherUnmoved == ASSUME PublisherInv, UNCHANGED videoVars PROVE PublisherInv'
<1>1. RestTypeOK' /\ LeasesCalm /\ UNCHANGED <<doc, owner, sent, proc>>
  BY WhatIsCalled, SameLeasesCalm DEF PublisherInv, videoVars, RestTypeOK
<1> QED BY <1>1, OutsideQuiet

LEMMA WorkKeeps == ASSUME PublisherInv, NEW p \in Procs, Work(p) PROVE PublisherInv'
<1>1. CASE Kill(p) \/ Halt(p) \/ Reconcile(p)
  BY <1>1, KillQuiet, HaltQuiet, ReconcileQuiet
<1>2. CASE \E s \in Streams : \/ Reserve(p, s) \/ Save(p, s) \/ Send(p, s) \/ Poll(p, s)
                              \/ Terminate(p, s) \/ Clear(p, s)
                              \/ ReadyEvent(p, s) \/ ErrorEvent(p, s) \/ Record(p, s)
  BY <1>2, ReserveKeeps, SaveKeeps, SendKeeps, PollQuiet, TerminateQuiet, ClearQuiet,
     ReadyQuiet, ErrorQuiet
<1>3. CASE \E s \in Legacy : \/ Token(p, s) \/ Check(p, s) \/ Publish(p, s)
                             \/ Await(p, s) \/ Keep(p, s) \/ Release(p, s) \/ Forget(p, s)
  BY <1>3, TokenKeeps, CheckKeeps, PublishKeeps, AwaitKeeps, KeepKeeps, ReleaseKeeps, ForgetQuiet
<1>4. CASE \E s \in Ids : StopCommand(p, s)
  BY <1>4, StopCommandQuiet
<1> QED BY <1>1, <1>2, <1>3, <1>4 DEF Work

LEMMA PublisherStep == ASSUME PublisherInv, VideoNext PROVE PublisherInv'
<1>1. CASE \E l \in Leases : Acquire(l) \/ Expire(l)
  BY <1>1, AcquireQuiet, ExpireQuiet
<1>2. CASE \E p \in Coroutines, l \in Leases :
             \/ Revoke(p, l) \/ StopBegin(p, l) \/ LegacyStop(p, l)
             \/ \E s \in Streams : StartBegin(p, l, s)
             \/ \E s \in Legacy : LegacyBegin(p, l, s)
  BY <1>2, RevokeQuiet, StopBeginQuiet, LegacyStopQuiet, StartBeginQuiet, LegacyBeginKeeps
<1>3. CASE \E p \in Coroutines, m \in up : Handle(p, m)
  BY <1>3, HandleQuiet
<1>4. CASE \E p \in Procs : Work(p)
  BY <1>4, WorkKeeps
<1>5. CASE Clean \/ TokenExpires \/ Deliver \/ LoseCommand \/ ServerCrash
  BY <1>5, CleanQuiet, TokenExpiresKeeps, DeliverQuiet, LoseQuiet, CrashQuiet
<1>6. CASE \E s \in Streams : AgentFails(s)
  BY <1>6, AgentQuiet
<1> QED BY <1>1, <1>2, <1>3, <1>4, <1>5, <1>6 DEF VideoNext

LEMMA PublisherImplied == PublisherInv => OnePublisher
<1> SUFFICES ASSUME PublisherInv PROVE OnePublisher
  OBVIOUS
<1>1. Tokens /\ Epochs
  BY DEF PublisherInv
<1>2. ASSUME NEW p \in Procs, NEW s \in Legacy, NEW x \in {"publish", "await", "keep"},
             Doing(p, x, s)
      PROVE  doc.st \notin LIVE
  <2>1. At(proc[p].todo, x, s) /\ s \in Ids \cup {None}
    BY <1>2 DEF Doing, At, Ids
  <2> QED BY <1>1, <2>1 DEF Tokens
<1>3. ASSUME NEW l \in Leases, Runs1(l), doc.st \in LIVE, doc.id \in sent PROVE FALSE
  BY <1>1, <1>3 DEF Epochs, Saved
<1> QED BY <1>2, <1>3 DEF OnePublisher, Runs1

\* The lists of steps are in order, a v1 start that holds the token of the terminal
\* is alone, at most one lease is live, and none records a v1 stream once a live epoch
\* is recorded: this is kept by every step of a request, of an agent message, of the
\* cleanup loop and of a crash (video_control.py, leases.py).
THEOREM PublisherInvariant == VideoSpec => []PublisherInv
<1>1. VideoInit => PublisherInv
  BY PublisherStarts
<1>2. PublisherInv /\ [VideoNext]_videoVars => PublisherInv'
  BY PublisherStep, PublisherUnmoved
<1> QED BY <1>1, <1>2, PTL DEF VideoSpec

\* The two contracts share one publisher although they exclude each other by different
\* keys: no epoch is live while a v1 start is past its checks, and no lease records a
\* v1 stream beside a published live epoch (legacy_start, reserve).
THEOREM OnePublisherOnly == VideoSpec => []OnePublisher
<1> QED BY PublisherInvariant, PublisherImplied, PTL
=============================================================================
