--------------------------- MODULE RpcTasksProofs ---------------------------
(* Theorems about RpcTasks and RpcDispatch, for every value of the constants. *)
EXTENDS RpcDispatch, TLAPS

-----------------------------------------------------------------------------
(* Lemmas about the records *)

\* The local variables of a handler are those of the place where it is.
LEMMA HandlerShape ==
  ASSUME NEW s \in HandlerState
  PROVE  /\ s.pc = "create" => s.req \in Request /\ s.op \in Tasks
         /\ s.pc = "tsk" => s.task \in Tasks /\ s.req \in Request /\ s.created \in Nat
         /\ s.pc = "delete" => s.task \in Tasks
         /\ s.pc \in {"claim", "rsp"} =>
              s.task \in Tasks /\ s.dev \in Devices /\ s.payload \in {"full", "scrubbed"}
         /\ s.pc = "record" =>
              /\ s.task \in Tasks /\ s.dev \in Devices /\ s.uid \in Uids \cup {NoUid}
              /\ s.content \in Contents /\ s.recv \in Nat
         /\ s.pc = "cmt" =>
              /\ s.task \in Tasks /\ s.dev \in Devices /\ s.uid \in Uids \cup {NoUid}
              /\ s.content \in Contents /\ s.rid \in 1..MaxResults /\ s.isNew \in BOOLEAN
         /\ s.pc = "bill" => s.rid \in 1..MaxResults
BY DEF HandlerState

\* What an update of the status column leaves alone.
LEMMA StatusRow ==
  ASSUME NEW row \in TaskRow, NEW st \in READY..DELETED,
         NEW r, r = [row EXCEPT !.status = st]
  PROVE  /\ r \in TaskRow
         /\ r.req = row.req /\ r.created = row.created /\ r.expires = row.expires
         /\ r.deleted = row.deleted /\ r.payload = row.payload /\ r.status = st
<1>1. r \in TaskRow
  BY DEF TaskRow
<1>2. QED
  BY DEF TaskRow

\* Scrubbing keeps a row a row and changes nothing but the payload.
LEMMA ScrubRow ==
  ASSUME NEW row \in TaskRow
  PROVE  /\ Scrub(row) \in TaskRow
         /\ Scrub(row).req = row.req /\ Scrub(row).created = row.created
         /\ Scrub(row).expires = row.expires /\ Scrub(row).deleted = row.deleted
         /\ Scrub(row).status = row.status
         /\ Scrub(row).payload = IF row.req.method = Renewal THEN "scrubbed" ELSE row.payload
BY DEF Scrub, TaskRow, Request

\* record_result ends an active row and leaves an ended one alone.
LEMMA FinishedRow ==
  ASSUME NEW row \in TaskRow, NEW recv \in Nat
  PROVE  /\ Finished(row, recv) \in TaskRow
         /\ Finished(row, recv).req = row.req
         /\ Finished(row, recv).created = row.created
         /\ Finished(row, recv).expires = row.expires
         /\ Finished(row, recv).deleted = row.deleted
         /\ Finished(row, recv).payload = row.payload
         /\ Finished(row, recv).status >= DONE
         /\ row.status >= DONE => Finished(row, recv) = row
         /\ row.status < DONE /\ recv < row.expires => Finished(row, recv).status = DONE
         /\ row.status < DONE /\ recv >= row.expires => Finished(row, recv).status = EXPIRED
BY DEF Finished, Late, TaskRow, Request, READY, PENDING, LOCK, DONE, EXPIRED, DELETED

LEMMA DeletedRowRow ==
  ASSUME NEW row \in TaskRow
  PROVE  /\ DeletedRow(row) \in TaskRow
         /\ DeletedRow(row).req = row.req
         /\ DeletedRow(row).created = row.created
         /\ DeletedRow(row).expires = row.expires
         /\ DeletedRow(row).deleted
         /\ DeletedRow(row).status = DELETED
         /\ DeletedRow(row).payload = IF row.req.method = Renewal THEN "scrubbed"
                                      ELSE row.payload
<1> DEFINE r == [row EXCEPT !.deleted = TRUE]
           q == [r EXCEPT !.status = DELETED]
<1>1. /\ r \in TaskRow /\ r.req = row.req /\ r.created = row.created
      /\ r.expires = row.expires /\ r.deleted /\ r.payload = row.payload
  BY DEF TaskRow
<1>2. /\ q \in TaskRow /\ q.req = r.req /\ q.created = r.created
      /\ q.expires = r.expires /\ q.deleted = r.deleted /\ q.status = DELETED
      /\ q.payload = r.payload
  <2> HIDE DEF r
  <2>1. DELETED \in READY..DELETED
    BY DEF READY, DELETED
  <2> QED BY ZenonT(90), <1>1, <2>1, StatusRow
<1>3. DeletedRow(row) = Scrub(q)
  BY ONLY row \in TaskRow DEF DeletedRow, TaskRow
<1> HIDE DEF r, q
<1>4. /\ Scrub(q) \in TaskRow
      /\ Scrub(q).req = q.req /\ Scrub(q).created = q.created
      /\ Scrub(q).expires = q.expires /\ Scrub(q).deleted = q.deleted
      /\ Scrub(q).status = q.status
      /\ Scrub(q).payload = IF q.req.method = Renewal THEN "scrubbed" ELSE q.payload
  BY <1>2, ScrubRow
<1>5. DeletedRow(row).deleted
  BY <1>1, <1>2, <1>3, <1>4
<1>6. QED
  BY <1>1, <1>2, <1>3, <1>4, <1>5

LEMMA NewRowRow ==
  ASSUME ConstantsAssumption, now \in Nat, NEW req \in Request
  PROVE  NewRow(req) \in TaskRow
<1>1. req.ttl \in Nat /\ req.cap \in Nat
  BY DEF Request, ConstantsAssumption
<1>2. Deadline(req) \in Nat
  BY <1>1 DEF Deadline, Lifetime, Min2
<1>3. QED
  BY <1>2 DEF NewRow, TaskRow, READY, DELETED

-----------------------------------------------------------------------------
(* Type correctness *)

LEMMA IdleAndSilence == Idle \in HandlerState /\ Silence \in Message
BY DEF Idle, HandlerState, Silence, Message

\* A step of one handler to a typed state keeps the handlers typed.
LEMMA GotoTyped ==
  ASSUME TypeOK, NEW h \in Handlers, NEW s \in HandlerState, Goto(h, s)
  PROVE  handler' \in [Handlers -> HandlerState]
BY DEF TypeOK, Goto

LEMMA Statuses == /\ PENDING \in READY..DELETED /\ LOCK \in READY..DELETED
                  /\ EXPIRED \in READY..DELETED /\ DELETED \in READY..DELETED
BY DEF READY, PENDING, LOCK, EXPIRED, DELETED

LEMMA StatusTyped ==
  ASSUME TypeOK, NEW t, NEW st \in READY..DELETED,
         task' = [task EXCEPT ![t].status = st]
  PROVE  DOMAIN task' \subseteq Tasks /\ \A u \in DOMAIN task' : task'[u] \in TaskRow
<1>1. \A u \in DOMAIN task : [task[u] EXCEPT !.status = st] \in TaskRow
  BY StatusRow DEF TypeOK
<1>2. QED
  BY <1>1 DEF TypeOK

LEMMA TypeInit == ConstantsAssumption /\ Init => TypeOK
<1> SUFFICES ASSUME ConstantsAssumption, Init PROVE TypeOK
  OBVIOUS
<1>1. handler \in [Handlers -> HandlerState] /\ out \in Message
  BY IdleAndSilence DEF Init
<1>2. now \in 0..Horizon /\ nextRid \in 1..(MaxResults + 1)
  BY DEF Init, ConstantsAssumption
<1>3. billed \in [1..MaxResults -> Nat]
  BY DEF Init
<1>4. DOMAIN task = {}
  BY DEF Init
<1>5. QED
  BY <1>1, <1>2, <1>3, <1>4 DEF Init, TypeOK

LEMMA TypeRest ==
  ASSUME ConstantsAssumption, TypeOK, NEW h \in Handlers, Rest(h)
  PROVE  TypeOK'
<1> USE IdleAndSilence
<1>t. now \in Nat /\ handler[h] \in HandlerState
  BY DEF TypeOK, ConstantsAssumption
<1>1. ASSUME NEW req \in Request, NEW op \in Tasks, CreateBegin(h, req, op)
      PROVE  TypeOK'
  <2>1. [pc |-> "create", req |-> req, op |-> op] \in HandlerState
    BY DEF HandlerState
  <2>2. handler' \in [Handlers -> HandlerState]
    BY <1>1, <2>1, GotoTyped DEF CreateBegin
  <2>3. QED
    BY <1>1, <2>2 DEF CreateBegin, NoMessage, store, TypeOK
<1>2. CASE CreateCommit(h)
  <2> DEFINE req == handler[h].req
             op  == handler[h].op
  <2>1. req \in Request /\ op \in Tasks
    BY <1>t, <1>2, HandlerShape DEF CreateCommit, At
  <2>2. DOMAIN task' \subseteq Tasks /\ \A t \in DOMAIN task' : task'[t] \in TaskRow
    BY <1>t, <1>2, <2>1, NewRowRow DEF CreateCommit, TypeOK
  <2>3. handler' \in [Handlers -> HandlerState]
    <3>1. ASSUME NEW c \in Nat
          PROVE  [pc |-> "tsk", task |-> op, req |-> req, created |-> c] \in HandlerState
      BY <2>1 DEF HandlerState
    <3>2. op \in DOMAIN task => task[op].created \in Nat
      BY DEF TypeOK, TaskRow
    <3>3. \/ Goto(h, [pc |-> "tsk", task |-> op, req |-> req, created |-> now])
          \/ /\ ~Creatable(op, req)
             /\ Goto(h, [pc |-> "tsk", task |-> op, req |-> req,
                         created |-> task[op].created])
          \/ Goto(h, Idle)
      BY <1>2 DEF CreateCommit
    <3>4. QED
      BY <1>t, <3>1, <3>2, <3>3, GotoTyped DEF Creatable
  <2>4. QED
    BY <1>2, <2>2, <2>3 DEF CreateCommit, NoMessage, TypeOK
<1>3. CASE SendTsk(h)
  <2>1. /\ handler[h].task \in Tasks /\ handler[h].req \in Request
        /\ handler[h].created \in Nat
    BY <1>t, <1>3, HandlerShape DEF SendTsk, At
  <2>2. handler[h].req.dev \in Devices /\ handler[h].req.ttl \in Nat
    BY <2>1 DEF Request, ConstantsAssumption
  <2>3. Max2(0, handler[h].created + Lifetime(handler[h].req.ttl) - now) \in Nat
    BY <1>t, <2>1, <2>2 DEF Max2, Lifetime
  <2>4. out' \in Message
    BY <1>3, <2>1, <2>2, <2>3 DEF SendTsk, Message
  <2>5. handler' \in [Handlers -> HandlerState]
    BY <1>3, GotoTyped DEF SendTsk
  <2>6. QED
    BY <1>3, <2>4, <2>5 DEF SendTsk, store, TypeOK
<1>4. ASSUME NEW t \in Tasks, DeleteBegin(h, t)
      PROVE  TypeOK'
  <2>1. [pc |-> "delete", task |-> t] \in HandlerState
    BY DEF HandlerState
  <2>2. handler' \in [Handlers -> HandlerState]
    BY <1>4, <2>1, GotoTyped DEF DeleteBegin
  <2>3. QED
    BY <1>4, <2>2 DEF DeleteBegin, NoMessage, store, TypeOK
<1>5. CASE DeleteCommit(h)
  <2>1. DOMAIN task' \subseteq Tasks /\ \A t \in DOMAIN task' : task'[t] \in TaskRow
    BY <1>5, DeletedRowRow DEF DeleteCommit, TypeOK
  <2>2. handler' \in [Handlers -> HandlerState]
    BY <1>5, GotoTyped DEF DeleteCommit
  <2>3. QED
    BY <1>5, <2>1, <2>2 DEF DeleteCommit, NoMessage, TypeOK
<1>6. ASSUME NEW d \in Devices, NEW m \in Methods, NEW ttl \in Ttls, NEW p \in Prios,
             NEW cap \in 0..Horizon
      PROVE  [dev |-> d, method |-> m, ttl |-> ttl, prio |-> p, cap |-> cap] \in Request
  BY DEF Request, ConstantsAssumption
<1>7. QED
  BY <1>1, <1>2, <1>3, <1>4, <1>5, <1>6 DEF Rest

\* The answer to a REQ is a claim to make or a NOP.
LEMMA AnswerTyped ==
  ASSUME TypeOK, NEW h \in Handlers, NEW d \in Devices, NEW S \in SUBSET DOMAIN task,
         Answer(h, d, S), UNCHANGED <<now, store>>
  PROVE  TypeOK'
<1> USE IdleAndSilence
<1>1. ASSUME NEW t \in S,
             Goto(h, [pc |-> "claim", task |-> t, dev |-> d, payload |-> task[t].payload]),
             NoMessage
      PROVE  TypeOK'
  <2>1. t \in Tasks /\ task[t].payload \in {"full", "scrubbed"}
    BY DEF TypeOK, TaskRow
  <2>2. [pc |-> "claim", task |-> t, dev |-> d, payload |-> task[t].payload] \in HandlerState
    BY <2>1 DEF HandlerState
  <2>3. handler' \in [Handlers -> HandlerState]
    BY <1>1, <2>2, GotoTyped
  <2>4. QED
    BY <1>1, <2>3 DEF NoMessage, store, TypeOK
<1>2. CASE out' = [kind |-> "NOP", dev |-> d] /\ UNCHANGED handler
  <2>1. out' \in Message
    BY <1>2 DEF Message
  <2>2. QED
    BY <1>2, <2>1 DEF store, TypeOK
<1>3. QED
  BY <1>1, <1>2 DEF Answer

LEMMA SelectableRows ==
  ASSUME NEW d, NEW limit
  PROVE  Selectable(d, limit) \subseteq DOMAIN task
BY DEF Selectable

LEMMA PollableRows ==
  ASSUME NEW d, NEW ws, NEW narrowed
  PROVE  Pollable(d, ws, narrowed) \subseteq DOMAIN task
<1>1. \A S : First(S) \subseteq S
  BY DEF First
<1>2. QED
  BY <1>1, SelectableRows DEF Pollable

LEMMA TypeReq ==
  ASSUME ConstantsAssumption, TypeOK, NEW h \in Handlers, Req(h)
  PROVE  TypeOK'
<1> USE IdleAndSilence
<1>t. handler[h] \in HandlerState
  BY DEF TypeOK
<1>1. ASSUME NEW d \in Devices, NEW ws \in BOOLEAN, NEW narrowed, ReqPoll(h, d, ws, narrowed)
      PROVE  TypeOK'
  BY <1>1, AnswerTyped, PollableRows DEF ReqPoll
<1>2. ASSUME NEW d \in Devices, NEW t \in Tasks, ReqTrigger(h, d, t)
      PROVE  TypeOK'
  BY <1>2, AnswerTyped, SelectableRows DEF ReqTrigger
<1>3. CASE ReqClaim(h)
  <2> DEFINE t == handler[h].task
             d == handler[h].dev
             s == [pc |-> "rsp", task |-> t, dev |-> d, payload |-> handler[h].payload]
  <2>1. t \in Tasks /\ d \in Devices /\ handler[h].payload \in {"full", "scrubbed"}
    BY <1>t, <1>3, HandlerShape DEF ReqClaim, At
  <2>2. s \in HandlerState
    BY <2>1 DEF HandlerState
  <2>3. CASE /\ task' = [task EXCEPT ![t].status = LOCK]
             /\ Goto(h, s) /\ NoMessage
    <3>1. DOMAIN task' \subseteq Tasks /\ \A u \in DOMAIN task' : task'[u] \in TaskRow
      BY <2>3, StatusTyped, Statuses
    <3>2. handler' \in [Handlers -> HandlerState]
      BY <2>2, <2>3, GotoTyped
    <3>3. QED
      BY <1>3, <2>3, <3>1, <3>2 DEF ReqClaim, NoMessage, TypeOK
  <2>4. CASE /\ out' = [kind |-> "NOP", dev |-> d]
             /\ Goto(h, Idle) /\ UNCHANGED task
    <3>1. out' \in Message
      BY <2>1, <2>4 DEF Message
    <3>2. handler' \in [Handlers -> HandlerState]
      BY <2>4, GotoTyped
    <3>3. QED
      BY <1>3, <2>4, <3>1, <3>2 DEF ReqClaim, TypeOK
  <2>5. QED
    BY <1>3, <2>3, <2>4 DEF ReqClaim
<1>4. CASE SendRsp(h)
  <2>1. /\ handler[h].task \in Tasks /\ handler[h].dev \in Devices
        /\ handler[h].payload \in {"full", "scrubbed"}
    BY <1>t, <1>4, HandlerShape DEF SendRsp, At
  <2>2. out' \in Message
    BY <1>4, <2>1 DEF SendRsp, Message
  <2>3. handler' \in [Handlers -> HandlerState]
    BY <1>4, GotoTyped DEF SendRsp
  <2>4. QED
    BY <1>4, <2>2, <2>3 DEF SendRsp, store, TypeOK
<1>5. QED
  BY <1>1, <1>2, <1>3, <1>4 DEF Req

LEMMA ReplyTyped ==
  ASSUME TypeOK, NEW h \in Handlers, At(h, "record"), NEW row,
         row.rid \in 1..MaxResults, NEW isNew \in BOOLEAN, ReplyTo(h, row, isNew)
  PROVE  handler' \in [Handlers -> HandlerState]
<1> DEFINE s == [pc |-> "cmt", task |-> handler[h].task, dev |-> handler[h].dev,
                 uid |-> handler[h].uid, content |-> handler[h].content,
                 rid |-> row.rid, isNew |-> isNew]
<1>1. handler[h] \in HandlerState
  BY DEF TypeOK
<1>2. /\ handler[h].task \in Tasks /\ handler[h].dev \in Devices
      /\ handler[h].uid \in Uids \cup {NoUid} /\ handler[h].content \in Contents
  BY <1>1, HandlerShape DEF At
<1>3. s \in HandlerState
  BY <1>2 DEF HandlerState
<1>4. QED
  BY <1>3, GotoTyped DEF ReplyTo

LEMMA TypeRes ==
  ASSUME ConstantsAssumption, TypeOK, NEW h \in Handlers, Res(h)
  PROVE  TypeOK'
<1> USE IdleAndSilence
<1>t. handler[h] \in HandlerState /\ now \in Nat
  BY DEF TypeOK, ConstantsAssumption
<1>1. ASSUME NEW d \in Devices, NEW t \in Tasks, NEW uid \in Uids \cup {NoUid},
             NEW c \in Contents, ResReceive(h, d, t, uid, c)
      PROVE  TypeOK'
  <2>1. [pc |-> "record", task |-> t, dev |-> d, uid |-> uid, content |-> c,
         recv |-> now] \in HandlerState
    BY <1>t DEF HandlerState
  <2>2. handler' \in [Handlers -> HandlerState]
    BY <1>1, <2>1, GotoTyped DEF ResReceive
  <2>3. QED
    BY <1>1, <2>2 DEF ResReceive, NoMessage, store, TypeOK
<1>2. ASSUME NEW subscribed \in BOOLEAN, ResRecord(h, subscribed)
      PROVE  TypeOK'
  <2> DEFINE t    == handler[h].task
             recv == handler[h].recv
             row  == [rid |-> nextRid, task |-> t, uid |-> handler[h].uid,
                      content |-> handler[h].content, recv |-> recv]
             seen == Stored(t, handler[h].uid, handler[h].content)
  <2>1. /\ t \in Tasks /\ handler[h].uid \in Uids \cup {NoUid}
        /\ handler[h].content \in Contents /\ recv \in Nat
    BY <1>t, <1>2, HandlerShape DEF ResRecord, At
  <2>2. CASE Goto(h, Idle) /\ UNCHANGED store
    <3>1. handler' \in [Handlers -> HandlerState]
      BY <2>2, GotoTyped
    <3>2. QED
      BY <1>2, <2>2, <3>1 DEF ResRecord, NoMessage, store, TypeOK
  <2>3. ASSUME NEW r \in seen, ReplyTo(h, r, FALSE), UNCHANGED store
        PROVE  TypeOK'
    <3>1. r.rid \in 1..MaxResults
      BY DEF Stored, TypeOK, ResultRow
    <3>2. handler' \in [Handlers -> HandlerState]
      BY <1>2, <2>3, <3>1, ReplyTyped DEF ResRecord
    <3>3. QED
      BY <1>2, <2>3, <3>2 DEF ResRecord, NoMessage, store, TypeOK
  <2>4. CASE /\ nextRid <= MaxResults
             /\ results' = results \cup {row}
             /\ nextRid' = nextRid + 1
             /\ task' = [task EXCEPT ![t] = Scrub(Finished(@, recv))]
             /\ webhooks' = IF subscribed /\ WantsWebhook(task[t], recv)
                            THEN webhooks \cup {nextRid} ELSE webhooks
             /\ ReplyTo(h, row, TRUE)
             /\ UNCHANGED billed
    <3>1. nextRid \in 1..MaxResults /\ nextRid' \in 1..(MaxResults + 1)
      BY <2>4 DEF TypeOK, ConstantsAssumption
    <3>2. row \in ResultRow /\ row.rid = nextRid
      BY <2>1, <3>1 DEF ResultRow
    <3>3. handler' \in [Handlers -> HandlerState]
      <4> HIDE DEF row
      <4> QED BY <1>2, <2>4, <3>1, <3>2, ReplyTyped DEF ResRecord
    <3>4. \A u \in DOMAIN task : Scrub(Finished(task[u], recv)) \in TaskRow
      BY <2>1, FinishedRow, ScrubRow DEF TypeOK
    <3>5. DOMAIN task' \subseteq Tasks /\ \A u \in DOMAIN task' : task'[u] \in TaskRow
      BY <2>4, <3>4 DEF TypeOK
    <3>6. results' \subseteq ResultRow /\ webhooks' \subseteq 1..MaxResults
      BY <2>4, <3>1, <3>2 DEF TypeOK
    <3>7. QED
      BY <1>2, <2>4, <3>1, <3>3, <3>5, <3>6 DEF ResRecord, NoMessage, TypeOK
  <2>5. QED
    BY <1>2, <2>2, <2>3, <2>4 DEF ResRecord
<1>3. CASE SendCmt(h)
  <2>1. /\ handler[h].task \in Tasks /\ handler[h].dev \in Devices
        /\ handler[h].uid \in Uids \cup {NoUid} /\ handler[h].rid \in 1..MaxResults
    BY <1>t, <1>3, HandlerShape DEF SendCmt, At
  <2>2. out' \in Message
    BY <1>3, <2>1 DEF SendCmt, Message
  <2>3. AfterCmt(h) \in HandlerState
    BY <2>1 DEF AfterCmt, HandlerState, Idle
  <2>4. handler' \in [Handlers -> HandlerState]
    BY <1>3, <2>3, GotoTyped DEF SendCmt
  <2>5. QED
    BY <1>3, <2>2, <2>4 DEF SendCmt, store, TypeOK
<1>4. CASE BillRes(h)
  <2>1. handler[h].rid \in 1..MaxResults
    BY <1>t, <1>4, HandlerShape DEF BillRes, At
  <2>2. out' \in Message
    BY <1>4, <2>1 DEF BillRes, Message
  <2>3. handler' \in [Handlers -> HandlerState]
    BY <1>4, GotoTyped DEF BillRes
  <2>4. billed' \in [1..MaxResults -> Nat]
    BY <1>4, <2>1 DEF BillRes, TypeOK
  <2>5. QED
    BY <1>4, <2>2, <2>3, <2>4 DEF BillRes, TypeOK
<1>5. QED
  BY <1>1, <1>2, <1>3, <1>4 DEF Res

LEMMA TypeStep ==
  ASSUME ConstantsAssumption, TypeOK, [Next]_vars
  PROVE  TypeOK'
<1> USE IdleAndSilence
<1>1. CASE Tick
  <2>1. now' \in 0..Horizon
    BY <1>1 DEF Tick, TypeOK, ConstantsAssumption
  <2>2. QED
    BY <1>1, <2>1 DEF Tick, NoMessage, store, TypeOK
<1>2. CASE TtlJob
  <2>1. \A t \in DOMAIN task : Scrub([task[t] EXCEPT !.status = EXPIRED]) \in TaskRow
    BY Statuses, StatusRow, ScrubRow DEF TypeOK
  <2>2. DOMAIN task' \subseteq Tasks /\ \A t \in DOMAIN task' : task'[t] \in TaskRow
    BY <1>2, <2>1 DEF TtlJob, TypeOK
  <2>3. QED
    BY <1>2, <2>2 DEF TtlJob, NoMessage, TypeOK
<1>3. ASSUME NEW d \in Devices, NEW t \in Tasks, Ack(d, t)
      PROVE  TypeOK'
  <2>1. DOMAIN task' \subseteq Tasks /\ \A u \in DOMAIN task' : task'[u] \in TaskRow
    <3>1. task' = [task EXCEPT ![t].status = PENDING]
      BY <1>3 DEF Ack
    <3>2. QED
      BY <3>1, StatusTyped, Statuses
  <2>2. QED
    BY <1>3, <2>1 DEF Ack, NoMessage, TypeOK
<1>4. ASSUME NEW h \in Handlers, Rest(h) \/ Req(h) \/ Res(h)
      PROVE  TypeOK'
  BY <1>4, TypeRest, TypeReq, TypeRes
<1>5. ASSUME NEW h \in Handlers, Fail(h)
      PROVE  TypeOK'
  <2>1. handler' \in [Handlers -> HandlerState]
    BY <1>5, GotoTyped DEF Fail
  <2>2. QED
    BY <1>5, <2>1 DEF Fail, NoMessage, store, TypeOK
<1>6. CASE UNCHANGED vars
  BY SMTT(60), <1>6 DEF vars, TypeOK
<1>7. QED
  BY <1>1, <1>2, <1>3, <1>4, <1>5, <1>6 DEF Next

\* Every row, message and local variable keeps its type; the reserved status
\* FAILED is never written.
THEOREM TypeCorrect == Spec => []TypeOK
<1>1. Init => TypeOK
  BY TypeInit, ConstantsAssumption
<1>2. TypeOK /\ [Next]_vars => TypeOK'
  BY TypeStep, ConstantsAssumption
<1>3. QED
  BY <1>1, <1>2, PTL DEF Spec

-----------------------------------------------------------------------------
(* What a step does to one row of the task table, and to the result table *)

\* RES handling by h inserts this row.
Inserted(h) == [rid |-> nextRid, task |-> handler[h].task, uid |-> handler[h].uid,
                content |-> handler[h].content, recv |-> handler[h].recv]

Inserts(h) ==
  /\ At(h, "record") /\ Owns(handler[h].dev, handler[h].task)
  /\ Stored(handler[h].task, handler[h].uid, handler[h].content) = {}
  /\ nextRid <= MaxResults
  /\ results' = results \cup {Inserted(h)} /\ nextRid' = nextRid + 1
  /\ \/ webhooks' = webhooks
     \/ /\ webhooks' = webhooks \cup {nextRid}
        /\ WantsWebhook(task[handler[h].task], handler[h].recv)
  /\ task' = [task EXCEPT ![handler[h].task] = Scrub(Finished(@, handler[h].recv))]
  /\ ReplyTo(h, Inserted(h), TRUE)
  /\ UNCHANGED <<now, billed>> /\ NoMessage

\* The seven things that can happen to the row of t.
RowChange(t) ==
  \/ t \in DOMAIN task /\ task'[t] = task[t]
  \/ t \notin DOMAIN task /\ \E req \in Request : task'[t] = NewRow(req)
  \/ t \in DOMAIN task /\ task'[t] = DeletedRow(task[t])
  \/ /\ t \in DOMAIN task /\ Overdue(task[t])
     /\ task'[t] = Scrub([task[t] EXCEPT !.status = EXPIRED])
  \/ /\ t \in DOMAIN task /\ task[t].status = READY
     /\ task'[t] = [task[t] EXCEPT !.status = PENDING]
  \/ /\ t \in DOMAIN task /\ task[t].status < DONE
     /\ task'[t] = [task[t] EXCEPT !.status = LOCK]
  \/ /\ t \in DOMAIN task
     /\ \E h \in Handlers : /\ Inserts(h) /\ t = handler[h].task
                           /\ task'[t] = Scrub(Finished(task[t], handler[h].recv))

TablesKept == UNCHANGED <<results, nextRid, webhooks>>

LEMMA RecordCases ==
  ASSUME NEW h \in Handlers, NEW subscribed \in BOOLEAN, ResRecord(h, subscribed)
  PROVE  \/ Inserts(h)
         \/ Goto(h, Idle) /\ UNCHANGED store
         \/ /\ Owns(handler[h].dev, handler[h].task)
            /\ \E r \in Stored(handler[h].task, handler[h].uid, handler[h].content) :
                 ReplyTo(h, r, FALSE)
            /\ UNCHANGED store
BY DEF ResRecord, Inserts, Inserted

\* Only a RES changes the result tables.
LEMMA ResultStep ==
  ASSUME [Next]_vars
  PROVE  (\E h \in Handlers : Inserts(h)) \/ TablesKept
<1>1. ASSUME NEW h \in Handlers, Rest(h) \/ Req(h) \/ Fail(h)
      PROVE  TablesKept
  BY ZenonT(120), <1>1 DEF Rest, Req, Fail, CreateBegin, CreateCommit, SendTsk, DeleteBegin,
     DeleteCommit, ReqPoll, ReqTrigger, ReqClaim, SendRsp, store, TablesKept
<1>2. ASSUME NEW h \in Handlers, Res(h)
      PROVE  Inserts(h) \/ TablesKept
  BY <1>2, RecordCases DEF Res, ResReceive, SendCmt, BillRes, store, TablesKept
<1>3. QED
  BY <1>1, <1>2 DEF Next, Tick, TtlJob, Ack, vars, store, TablesKept

LEMMA ClockStep ==
  ASSUME [Next]_vars
  PROVE  now' = now \/ now' = now + 1
<1>1. ASSUME NEW h \in Handlers, Rest(h)
      PROVE  now' = now
  BY ZenonT(120), <1>1 DEF Rest, CreateBegin, CreateCommit, SendTsk, DeleteBegin, DeleteCommit
<1>2. ASSUME NEW h \in Handlers, Req(h)
      PROVE  now' = now
  BY <1>2 DEF Req, ReqPoll, ReqTrigger, ReqClaim, SendRsp
<1>3. ASSUME NEW h \in Handlers, Res(h)
      PROVE  now' = now
  BY <1>3 DEF Res, ResReceive, ResRecord, SendCmt, BillRes
<1>4. QED
  BY <1>1, <1>2, <1>3 DEF Next, Tick, TtlJob, Ack, Fail, vars

LEMMA RowStep ==
  ASSUME TypeOK, [Next]_vars
  PROVE  /\ DOMAIN task \subseteq DOMAIN task'
         /\ \A t \in DOMAIN task' : RowChange(t)
<1>1. CASE UNCHANGED task
  BY <1>1 DEF RowChange
<1>2. ASSUME NEW h \in Handlers, CreateCommit(h)
      PROVE  DOMAIN task \subseteq DOMAIN task' /\ \A t \in DOMAIN task' : RowChange(t)
  <2>1. handler[h].req \in Request
    BY <1>2, HandlerShape DEF CreateCommit, At, TypeOK
  <2>2. QED
    BY <1>2, <2>1 DEF CreateCommit, Creatable, RowChange
<1>3. ASSUME NEW h \in Handlers, DeleteCommit(h)
      PROVE  DOMAIN task \subseteq DOMAIN task' /\ \A t \in DOMAIN task' : RowChange(t)
  BY <1>3 DEF DeleteCommit, RowChange
<1>4. CASE TtlJob
  BY <1>4 DEF TtlJob, RowChange
<1>5. ASSUME NEW d \in Devices, NEW t \in Tasks, Ack(d, t)
      PROVE  DOMAIN task \subseteq DOMAIN task' /\ \A u \in DOMAIN task' : RowChange(u)
  BY <1>5 DEF Ack, RowChange
<1>6. ASSUME NEW h \in Handlers, ReqClaim(h)
      PROVE  DOMAIN task \subseteq DOMAIN task' /\ \A t \in DOMAIN task' : RowChange(t)
  BY <1>6 DEF ReqClaim, Claimable, RowChange
<1>7. ASSUME NEW h \in Handlers, NEW subscribed \in BOOLEAN, ResRecord(h, subscribed)
      PROVE  DOMAIN task \subseteq DOMAIN task' /\ \A t \in DOMAIN task' : RowChange(t)
  <2>1. CASE Inserts(h)
    <3>1. DOMAIN task' = DOMAIN task
      BY <2>1 DEF Inserts
    <3>2. \A t \in DOMAIN task : \/ task'[t] = task[t]
                                 \/ /\ t = handler[h].task
                                    /\ task'[t] = Scrub(Finished(task[t], handler[h].recv))
      BY <2>1 DEF Inserts
    <3>3. QED
      BY <2>1, <3>1, <3>2 DEF RowChange
  <2>2. QED
    BY <1>1, <1>7, <2>1, RecordCases DEF store
<1>8. ASSUME NEW h \in Handlers, Rest(h) \/ Req(h) \/ Res(h) \/ Fail(h)
      PROVE  DOMAIN task \subseteq DOMAIN task' /\ \A t \in DOMAIN task' : RowChange(t)
  <2>1. \/ UNCHANGED task \/ CreateCommit(h) \/ DeleteCommit(h) \/ ReqClaim(h)
        \/ \E subscribed \in BOOLEAN : ResRecord(h, subscribed)
    BY ZenonT(120), <1>8 DEF Rest, Req, Res, Fail, CreateBegin, SendTsk, DeleteBegin, ReqPoll,
       ReqTrigger, SendRsp, ResReceive, SendCmt, BillRes, store
  <2>2. QED
    BY <2>1, <1>1, <1>2, <1>3, <1>6, <1>7
<1>9. QED
  BY <1>1, <1>4, <1>5, <1>8 DEF Next, Tick, vars, store

\* A row keeps its request and its deadline, and its status never goes back.
LEMMA RowMonotone ==
  ASSUME TypeOK, TypeOK', [Next]_vars, NEW t \in DOMAIN task
  PROVE  /\ t \in DOMAIN task'
         /\ task'[t].req = task[t].req
         /\ task'[t].created = task[t].created
         /\ task'[t].expires = task[t].expires
         /\ task[t].status <= task'[t].status
<1>1. t \in DOMAIN task' /\ RowChange(t)
  BY RowStep
<1>2. task[t] \in TaskRow /\ task[t].status \in READY..DELETED
  BY DEF TypeOK, TaskRow
<1>3. CASE task'[t] = DeletedRow(task[t])
  BY <1>1, <1>2, <1>3, DeletedRowRow DEF READY, DELETED
<1>4. CASE Overdue(task[t]) /\ task'[t] = Scrub([task[t] EXCEPT !.status = EXPIRED])
  <2> DEFINE r == [task[t] EXCEPT !.status = EXPIRED]
  <2>1. /\ r \in TaskRow /\ r.req = task[t].req /\ r.created = task[t].created
        /\ r.expires = task[t].expires /\ r.status = EXPIRED
    BY <1>2, StatusRow, Statuses
  <2> HIDE DEF r
  <2>2. task'[t] = Scrub(r)
    BY <1>4 DEF r
  <2>3. QED
    BY <1>1, <1>2, <1>4, <2>1, <2>2, ScrubRow DEF Overdue, READY, DONE, EXPIRED, DELETED
<1>5. CASE task[t].status = READY /\ task'[t] = [task[t] EXCEPT !.status = PENDING]
  BY <1>1, <1>2, <1>5 DEF TaskRow, READY, PENDING, DELETED
<1>6. CASE task[t].status < DONE /\ task'[t] = [task[t] EXCEPT !.status = LOCK]
  BY <1>1, <1>2, <1>6 DEF TaskRow, READY, LOCK, DONE, DELETED
<1>7. ASSUME NEW recv \in Nat, task'[t] = Scrub(Finished(task[t], recv))
      PROVE  /\ task'[t].req = task[t].req
             /\ task'[t].created = task[t].created
             /\ task'[t].expires = task[t].expires
             /\ task[t].status <= task'[t].status
  <2> DEFINE r == Finished(task[t], recv)
  <2>1. /\ r \in TaskRow /\ r.req = task[t].req /\ r.created = task[t].created
        /\ r.expires = task[t].expires /\ r.status >= DONE
        /\ task[t].status >= DONE => r = task[t]
    BY <1>2, FinishedRow
  <2>2. r.status \in READY..DELETED
    BY <2>1 DEF TaskRow
  <2> HIDE DEF r
  <2>3. task'[t] = Scrub(r)
    BY <1>7 DEF r
  <2>4. QED
    BY <1>2, <2>1, <2>2, <2>3, ScrubRow DEF READY, DONE, DELETED
<1>8. ASSUME NEW h \in Handlers, Inserts(h)
      PROVE  handler[h].recv \in Nat
  BY <1>8, HandlerShape DEF Inserts, At, TypeOK
<1>9. QED
  BY <1>1, <1>2, <1>3, <1>4, <1>5, <1>6, <1>7, <1>8 DEF RowChange, READY, DELETED

-----------------------------------------------------------------------------
(* The rows: deletion, scrubbing, and the status against the deadline *)

LEMMA RowsStep ==
  ASSUME ConstantsAssumption, TypeOK, TypeOK', RowsConsistent, HandlersBacked,
         [Next]_vars
  PROVE  RowsConsistent'
<1> DEFINE Good(row, t) ==
      /\ row.deleted <=> row.status = DELETED
      /\ row.payload = "scrubbed" <=> row.req.method = Renewal /\ row.status >= DONE
      /\ row.status = DONE => \E r \in results' : r.task = t /\ r.recv < row.expires
      /\ row.status = EXPIRED => row.expires <= now'
<1>0. results \subseteq results'
  BY ResultStep DEF Inserts, TablesKept
<1>1. now \in Nat /\ now' \in Nat /\ now <= now'
  <2>1. now' = now \/ now' = now + 1
    BY ClockStep
  <2>2. QED
    BY <2>1 DEF TypeOK, ConstantsAssumption
<1>2. ASSUME NEW t \in DOMAIN task
      PROVE  /\ task[t] \in TaskRow /\ task[t].status \in READY..DELETED
             /\ task[t].expires \in Nat /\ Good(task[t], t)
  <2>1. task[t] \in TaskRow /\ task[t].status \in READY..DELETED /\ task[t].expires \in Nat
    BY DEF TypeOK, TaskRow
  <2>2. QED
    BY <1>0, <1>1, <2>1 DEF RowsConsistent, DeletionConsistent, SecretScrubbed,
       StatusMatchesDeadline
<1>3. ASSUME NEW t \in DOMAIN task', RowChange(t)
      PROVE  Good(task'[t], t)
  <2>1. CASE t \in DOMAIN task /\ task'[t] = task[t]
    BY <1>2, <2>1
  <2>2. ASSUME NEW req \in Request, task'[t] = NewRow(req)
        PROVE  Good(task'[t], t)
    BY <2>2 DEF NewRow, READY, DONE, EXPIRED, DELETED
  <2>3. CASE t \in DOMAIN task /\ task'[t] = DeletedRow(task[t])
    BY <1>2, <2>3, DeletedRowRow DEF DONE, EXPIRED, DELETED
  <2>4. CASE /\ t \in DOMAIN task /\ Overdue(task[t])
             /\ task'[t] = Scrub([task[t] EXCEPT !.status = EXPIRED])
    <3> DEFINE r == [task[t] EXCEPT !.status = EXPIRED]
    <3>1. /\ r \in TaskRow /\ r.req = task[t].req /\ r.expires = task[t].expires
          /\ r.deleted = task[t].deleted /\ r.status = EXPIRED /\ r.payload = task[t].payload
      BY <1>2, <2>4, StatusRow, Statuses
    <3> HIDE DEF r
    <3>2. task'[t] = Scrub(r)
      BY <2>4 DEF r
    <3>3. /\ task'[t].req = task[t].req /\ task'[t].expires = task[t].expires
          /\ task'[t].deleted = task[t].deleted /\ task'[t].status = EXPIRED
          /\ task'[t].payload = IF task[t].req.method = Renewal THEN "scrubbed"
                                ELSE task[t].payload
      BY <3>1, <3>2, ScrubRow
    <3>4. ~task[t].deleted /\ task[t].expires <= now
      BY <1>2, <2>4 DEF Overdue, DONE, DELETED
    <3>5. QED
      BY <1>1, <1>2, <2>4, <3>3, <3>4 DEF DONE, EXPIRED, DELETED
  <2>5. ASSUME NEW st \in {PENDING, LOCK}, t \in DOMAIN task, task[t].status < DONE,
               task'[t] = [task[t] EXCEPT !.status = st]
        PROVE  Good(task'[t], t)
    <3>1. st \in READY..DELETED /\ st < DONE
      BY <2>5 DEF READY, PENDING, LOCK, DONE, DELETED
    <3>2. /\ task'[t].req = task[t].req /\ task'[t].deleted = task[t].deleted
          /\ task'[t].payload = task[t].payload /\ task'[t].status = st
      BY <1>2, <2>5, <3>1, StatusRow
    <3>3. QED
      BY <1>2, <2>5, <3>1, <3>2 DEF READY, DONE, EXPIRED, DELETED
  <2>6. ASSUME NEW h \in Handlers, Inserts(h), t = handler[h].task, t \in DOMAIN task,
               task'[t] = Scrub(Finished(task[t], handler[h].recv))
        PROVE  Good(task'[t], t)
    <3> DEFINE recv == handler[h].recv
               r    == Finished(task[t], recv)
    <3>1. recv \in Nat /\ recv <= now
      BY <2>6, HandlerShape DEF Inserts, At, TypeOK, HandlersBacked, HandlerBacked
    <3>2. /\ r \in TaskRow /\ r.req = task[t].req /\ r.expires = task[t].expires
          /\ r.deleted = task[t].deleted /\ r.status >= DONE /\ r.payload = task[t].payload
          /\ task[t].status >= DONE => r = task[t]
          /\ task[t].status < DONE /\ recv < task[t].expires => r.status = DONE
          /\ task[t].status < DONE /\ recv >= task[t].expires => r.status = EXPIRED
      BY <1>2, <2>6, <3>1, FinishedRow
    <3>3. Inserted(h) \in results' /\ Inserted(h).task = t /\ Inserted(h).recv = recv
      BY <2>6 DEF Inserts, Inserted
    <3> HIDE DEF r, recv
    <3>4. task'[t] = Scrub(r)
      BY <2>6 DEF r, recv
    <3>5. /\ task'[t].req = task[t].req /\ task'[t].expires = task[t].expires
          /\ task'[t].deleted = task[t].deleted /\ task'[t].status = r.status
          /\ task'[t].payload = IF task[t].req.method = Renewal THEN "scrubbed"
                                ELSE task[t].payload
      BY <3>2, <3>4, ScrubRow
    <3>6. CASE task[t].status >= DONE
      BY <1>2, <2>6, <3>2, <3>5, <3>6 DEF READY, DONE, DELETED
    <3>7. CASE task[t].status < DONE /\ recv < task[t].expires
      BY <1>2, <2>6, <3>2, <3>3, <3>5, <3>7 DEF DONE, EXPIRED, DELETED
    <3>8. CASE task[t].status < DONE /\ recv >= task[t].expires
      BY <1>1, <1>2, <2>6, <3>1, <3>2, <3>5, <3>8 DEF DONE, EXPIRED, DELETED
    <3>9. QED
      BY <1>2, <2>6, <3>1, <3>6, <3>7, <3>8 DEF READY, DONE, DELETED
  <2>7. QED
    BY <1>3, <2>1, <2>2, <2>3, <2>4, <2>5, <2>6 DEF RowChange, READY, DONE
<1>4. \A t \in DOMAIN task' : Good(task'[t], t)
  BY <1>3, RowStep
<1>5. QED
  BY <1>4 DEF RowsConsistent, DeletionConsistent, SecretScrubbed, StatusMatchesDeadline

-----------------------------------------------------------------------------
(* The results *)

\* What the insertion of a result knows about it.
LEMMA InsertFacts ==
  ASSUME ConstantsAssumption, TypeOK, HandlersBacked, NEW h \in Handlers, Inserts(h)
  PROVE  /\ handler[h].task \in DOMAIN task
         /\ handler[h].recv \in Nat /\ handler[h].recv <= now
         /\ nextRid \in 1..MaxResults
         /\ results' = results \cup {Inserted(h)}
         /\ Inserted(h).rid = nextRid /\ Inserted(h).task = handler[h].task
         /\ Inserted(h).recv = handler[h].recv /\ Inserted(h).uid = handler[h].uid
         /\ Inserted(h).content = handler[h].content
<1>1. handler[h].recv \in Nat
  BY HandlerShape DEF Inserts, At, TypeOK
<1>2. handler[h].recv <= now
  BY DEF Inserts, HandlersBacked, HandlerBacked
<1>3. QED
  BY <1>1, <1>2 DEF Inserts, Inserted, Owns, TypeOK, ConstantsAssumption

LEMMA ResultsStep ==
  ASSUME ConstantsAssumption, TypeOK, TypeOK', ResultsBacked, OneRowPerResult,
         HandlersBacked, [Next]_vars
  PROVE  ResultsBacked' /\ OneRowPerResult'
<1>0. DOMAIN task \subseteq DOMAIN task'
  BY RowStep
<1>1. CASE TablesKept
  BY <1>0, <1>1 DEF TablesKept, ResultsBacked, OneRowPerResult
<1>2. ASSUME NEW h \in Handlers, Inserts(h)
      PROVE  ResultsBacked' /\ OneRowPerResult'
  <2> DEFINE new == Inserted(h)
  <2>0. nextRid' = nextRid + 1 /\ \A r \in results : r.rid \in Nat
    BY <1>2 DEF Inserts, TypeOK, ResultRow
  <2>1. /\ results' = results \cup {new}
        /\ nextRid \in Nat /\ new.rid = nextRid /\ new.task \in DOMAIN task
    BY <1>2, InsertFacts
  <2>2. ~\E r \in results : SameResult(r, new.task, new.uid, new.content)
    BY <1>2, InsertFacts DEF Inserts, Stored
  <2> HIDE DEF new
  <2>3. ResultsBacked'
    BY <1>0, <2>0, <2>1 DEF ResultsBacked
  <2>4. OneRowPerResult'
    BY <2>1, <2>2 DEF OneRowPerResult, SameResult
  <2>5. QED
    BY <2>3, <2>4
<1>3. QED
  BY <1>1, <1>2, ResultStep

LEMMA WebhookStep ==
  ASSUME ConstantsAssumption, TypeOK, TypeOK', RowsConsistent, ResultsBacked,
         HandlersBacked, WebhookWanted, [Next]_vars
  PROVE  WebhookWanted'
<1> DEFINE Wanted(w, R) ==
      \E r \in R : /\ r.rid = w
                   /\ \/ r.recv <= task'[r.task].expires + Grace
                      \/ \E q \in R : /\ q.task = r.task /\ q.rid < r.rid
                                      /\ q.recv < task'[r.task].expires
<1>0. \A t \in DOMAIN task : task'[t].expires = task[t].expires
  BY RowMonotone
<1>1. \A w \in webhooks : Wanted(w, results)
  BY <1>0 DEF WebhookWanted, ResultsBacked
<1>2. CASE TablesKept
  BY <1>1, <1>2 DEF TablesKept, WebhookWanted
<1>3. ASSUME NEW h \in Handlers, Inserts(h)
      PROVE  WebhookWanted'
  <2> DEFINE new == Inserted(h)
             t   == handler[h].task
             recv == handler[h].recv
  <2>1. /\ results' = results \cup {new} /\ new \in results' /\ results \subseteq results'
        /\ nextRid \in Nat /\ new.rid = nextRid /\ new.task = t /\ t \in DOMAIN task
        /\ new.recv = recv /\ recv \in Nat
    BY <1>3, InsertFacts
  <2>2. task[t].expires \in Nat /\ task[t].status \in READY..DELETED /\ Grace \in Nat
    BY <2>1 DEF TypeOK, TaskRow, ConstantsAssumption
  <2> HIDE DEF new, t, recv
  <2>3. \A w \in webhooks : Wanted(w, results')
    BY <1>1, <2>1
  <2>4. ASSUME WantsWebhook(task[t], recv)
        PROVE  Wanted(nextRid, results')
    <3>1. CASE recv <= task[t].expires + Grace
      BY <1>0, <2>1, <3>1
    <3>2. CASE task[t].status = DONE
      <4>1. PICK q \in results : q.task = t /\ q.recv < task[t].expires
        BY <2>1, <3>2 DEF RowsConsistent, StatusMatchesDeadline
      <4>2. q.rid < nextRid
        BY DEF ResultsBacked
      <4>3. QED
        BY <1>0, <2>1, <4>1, <4>2
    <3>3. CASE recv < task[t].expires
      BY <2>1, <2>2, <3>1, <3>3
    <3>4. QED
      BY <2>1, <2>2, <2>4, <3>1, <3>2, <3>3
         DEF WantsWebhook, Late, READY, DONE, EXPIRED, DELETED
  <2>5. webhooks' = webhooks \/ (webhooks' = webhooks \cup {nextRid} /\ WantsWebhook(task[t], recv))
    BY <1>3 DEF Inserts, t, recv
  <2>6. \A w \in webhooks' : Wanted(w, results')
    BY <2>3, <2>4, <2>5
  <2>7. QED
    BY <2>6 DEF WebhookWanted
<1>4. QED
  BY <1>2, <1>3, ResultStep

-----------------------------------------------------------------------------
(* The handlers: what they carry over a cut stays true of the tables *)

\* HandlerBacked, of a state s and of tables that need not be the current ones.
Backed(s, T, R, n) ==
  LET Owned == s.task \in DOMAIN T /\ T[s.task].req.dev = s.dev
  IN  /\ s.pc = "claim" => Owned /\ s.payload = "full"
      /\ s.pc = "rsp" => Owned /\ s.payload = "full" /\ T[s.task].status >= LOCK
      /\ s.pc = "record" => s.recv <= n
      /\ s.pc = "cmt" => /\ Owned
                         /\ \E r \in R : r.rid = s.rid /\ r.task = s.task /\ r.uid = s.uid
      /\ s.pc = "bill" => \E r \in R : r.rid = s.rid

LEMMA BackedIs ==
  /\ HandlersBacked <=> \A h \in Handlers : Backed(handler[h], task, results, now)
  /\ HandlersBacked' <=> \A h \in Handlers : Backed(handler'[h], task', results', now')
BY DEF HandlersBacked, HandlerBacked, Backed, At

LEMMA BackedKept ==
  ASSUME ConstantsAssumption, TypeOK, TypeOK', [Next]_vars, NEW s \in HandlerState,
         Backed(s, task, results, now)
  PROVE  Backed(s, task', results', now')
<1>1. results \subseteq results'
  BY ResultStep DEF Inserts, TablesKept
<1>2. now \in Nat /\ now' \in Nat /\ now <= now'
  <2>1. now' = now \/ now' = now + 1
    BY ClockStep
  <2>2. QED
    BY <2>1 DEF TypeOK, ConstantsAssumption
<1>3. ASSUME s.task \in DOMAIN task
      PROVE  /\ s.task \in DOMAIN task' /\ task'[s.task].req = task[s.task].req
             /\ task[s.task].status <= task'[s.task].status
             /\ task[s.task].status \in Int /\ task'[s.task].status \in Int
  <2>1. /\ s.task \in DOMAIN task' /\ task'[s.task].req = task[s.task].req
        /\ task[s.task].status <= task'[s.task].status
    BY <1>3, RowMonotone
  <2>2. task[s.task] \in TaskRow /\ task'[s.task] \in TaskRow
    BY <1>3, <2>1 DEF TypeOK
  <2>3. QED
    BY <2>1, <2>2 DEF TaskRow, READY, DELETED
<1>4. s.pc = "record" => s.recv \in Nat
  BY HandlerShape
<1>5. QED
  BY <1>1, <1>2, <1>3, <1>4 DEF Backed, LOCK

\* A step that moves one handler to a backed state.
LEMMA BackedMove ==
  ASSUME ConstantsAssumption, TypeOK, TypeOK', [Next]_vars, HandlersBacked,
         NEW h \in Handlers, NEW s, Goto(h, s), Backed(s, task', results', now')
  PROVE  HandlersBacked'
<1>1. \A g \in Handlers : Backed(handler[g], task, results, now) /\ handler[g] \in HandlerState
  BY BackedIs DEF TypeOK
<1>2. \A g \in Handlers : Backed(handler[g], task', results', now')
  BY <1>1, BackedKept
<1>3. \A g \in Handlers : handler'[g] = handler[g] \/ handler'[g] = s
  BY DEF Goto, TypeOK
<1>4. \A g \in Handlers : Backed(handler'[g], task', results', now')
  BY <1>2, <1>3
<1>5. QED
  BY <1>4, BackedIs

LEMMA BackedStay ==
  ASSUME ConstantsAssumption, TypeOK, TypeOK', [Next]_vars, HandlersBacked,
         UNCHANGED handler
  PROVE  HandlersBacked'
<1>1. \A g \in Handlers : Backed(handler[g], task, results, now) /\ handler[g] \in HandlerState
  BY BackedIs DEF TypeOK
<1>2. \A g \in Handlers : Backed(handler[g], task', results', now')
  BY <1>1, BackedKept
<1>3. QED
  BY <1>2, BackedIs

\* A REST call never carries anything that others rely on.
LEMMA RestMoves ==
  ASSUME NEW h \in Handlers, Rest(h) \/ Fail(h)
  PROVE  \E s : Goto(h, s) /\ s.pc \in {"idle", "create", "tsk", "delete"}
<1>1. ASSUME NEW req, NEW op, CreateBegin(h, req, op)
      PROVE  \E s : Goto(h, s) /\ s.pc \in {"idle", "create", "tsk", "delete"}
  BY <1>1 DEF CreateBegin
<1>2. CASE CreateCommit(h)
  BY <1>2 DEF CreateCommit, Idle
<1>3. CASE SendTsk(h) \/ DeleteCommit(h) \/ Fail(h)
  BY <1>3 DEF SendTsk, DeleteCommit, Fail, Idle
<1>4. ASSUME NEW t \in Tasks, DeleteBegin(h, t)
      PROVE  \E s : Goto(h, s) /\ s.pc \in {"idle", "create", "tsk", "delete"}
  BY <1>4 DEF DeleteBegin
<1>5. QED
  BY <1>1, <1>2, <1>3, <1>4 DEF Rest

\* A REQ selects a live task, whose payload is still there.
LEMMA AnswerBacked ==
  ASSUME ConstantsAssumption, TypeOK, TypeOK', [Next]_vars, HandlersBacked, RowsConsistent,
         NEW h \in Handlers, NEW d \in Devices, NEW limit,
         NEW S \in SUBSET Selectable(d, limit),
         Answer(h, d, S), UNCHANGED <<now, store>>
  PROVE  HandlersBacked'
<1>1. ASSUME NEW t \in S,
             Goto(h, [pc |-> "claim", task |-> t, dev |-> d, payload |-> task[t].payload])
      PROVE  HandlersBacked'
  <2>1. t \in DOMAIN task /\ task[t].req.dev = d /\ task[t].status < DONE
    BY DEF Selectable
  <2>2. task[t].payload = "full"
    <3>1. /\ task[t].payload \in {"full", "scrubbed"}
          /\ task[t].status \in READY..DELETED
      BY <2>1 DEF TypeOK, TaskRow
    <3>2. task[t].payload = "scrubbed" => task[t].status >= DONE
      BY <2>1 DEF RowsConsistent, SecretScrubbed
    <3>3. QED
      BY <2>1, <3>1, <3>2 DEF READY, DONE, DELETED
  <2>3. Backed([pc |-> "claim", task |-> t, dev |-> d, payload |-> task[t].payload],
               task', results', now')
    BY <2>1, <2>2 DEF Backed, store
  <2>4. QED
    BY <1>1, <2>3, BackedMove
<1>2. CASE UNCHANGED handler
  BY <1>2, BackedStay
<1>3. QED
  BY <1>1, <1>2 DEF Answer

LEMMA ReqBacked ==
  ASSUME ConstantsAssumption, TypeOK, TypeOK', [Next]_vars, HandlersBacked, RowsConsistent,
         NEW h \in Handlers, Req(h)
  PROVE  HandlersBacked'
<1>1. ASSUME NEW d \in Devices, NEW ws \in BOOLEAN, NEW narrowed, ReqPoll(h, d, ws, narrowed)
      PROVE  HandlersBacked'
  <2> DEFINE S == Pollable(d, ws, narrowed)
             limit == IF narrowed = {} THEN LegacyLimit(ws) ELSE TriggerLimit
  <2>1. S \subseteq Selectable(d, limit)
    BY DEF Pollable, First
  <2>2. Answer(h, d, S) /\ UNCHANGED <<now, store>>
    BY <1>1 DEF ReqPoll
  <2> HIDE DEF S, limit
  <2>3. QED
    BY <2>1, <2>2, AnswerBacked
<1>2. ASSUME NEW d \in Devices, NEW t \in Tasks, ReqTrigger(h, d, t)
      PROVE  HandlersBacked'
  BY <1>2, AnswerBacked DEF ReqTrigger
<1>3. CASE ReqClaim(h)
  <2> DEFINE t == handler[h].task
             s == [pc |-> "rsp", task |-> t, dev |-> handler[h].dev,
                   payload |-> handler[h].payload]
  <2>1. t \in DOMAIN task /\ task[t].req.dev = handler[h].dev /\ handler[h].payload = "full"
    BY <1>3 DEF ReqClaim, HandlersBacked, HandlerBacked
  <2>2. CASE task' = [task EXCEPT ![t].status = LOCK] /\ Goto(h, s)
    <3>1. task'[t].req = task[t].req /\ t \in DOMAIN task'
      BY <2>1, RowMonotone
    <3>2. task'[t].status = LOCK
      BY SMTT(60), <2>1, <2>2 DEF TypeOK, TaskRow
    <3>3. Backed(s, task', results', now')
      BY <2>1, <3>1, <3>2 DEF Backed, LOCK
    <3>4. QED
      BY <2>2, <3>3, BackedMove
  <2>3. CASE Goto(h, Idle)
    BY <2>3, BackedMove DEF Backed, Idle
  <2>4. QED
    BY <1>3, <2>2, <2>3 DEF ReqClaim
<1>4. CASE SendRsp(h)
  BY <1>4, BackedMove DEF SendRsp, Backed, Idle
<1>5. QED
  BY <1>1, <1>2, <1>3, <1>4 DEF Req

LEMMA ResBacked ==
  ASSUME ConstantsAssumption, TypeOK, TypeOK', [Next]_vars, HandlersBacked,
         NEW h \in Handlers, Res(h)
  PROVE  HandlersBacked'
<1>0. now \in Nat
  BY DEF TypeOK, ConstantsAssumption
<1>1. ASSUME NEW d \in Devices, NEW t \in Tasks, NEW uid, NEW c,
             ResReceive(h, d, t, uid, c)
      PROVE  HandlersBacked'
  <2> DEFINE s == [pc |-> "record", task |-> t, dev |-> d, uid |-> uid, content |-> c,
                   recv |-> now]
  <2>1. Backed(s, task', results', now')
    BY <1>0, <1>1 DEF ResReceive, Backed
  <2>2. QED
    BY <1>1, <2>1, BackedMove DEF ResReceive
<1>2. ASSUME NEW r \in results', NEW isNew, ReplyTo(h, r, isNew),
             Owns(handler[h].dev, handler[h].task), r.task = handler[h].task,
             r.uid = handler[h].uid
      PROVE  HandlersBacked'
  <2> DEFINE s == [pc |-> "cmt", task |-> handler[h].task, dev |-> handler[h].dev,
                   uid |-> handler[h].uid, content |-> handler[h].content,
                   rid |-> r.rid, isNew |-> isNew]
  <2>1. /\ handler[h].task \in DOMAIN task'
        /\ task'[handler[h].task].req.dev = handler[h].dev
    BY <1>2, RowMonotone DEF Owns
  <2>2. Backed(s, task', results', now')
    BY <1>2, <2>1 DEF Backed
  <2>3. QED
    BY <1>2, <2>2, BackedMove DEF ReplyTo
<1>3. ASSUME NEW subscribed \in BOOLEAN, ResRecord(h, subscribed)
      PROVE  HandlersBacked'
  <2>1. CASE Inserts(h)
    <3>1. /\ Inserted(h) \in results' /\ Inserted(h).task = handler[h].task
          /\ Inserted(h).uid = handler[h].uid
      BY <2>1, InsertFacts
    <3>2. ReplyTo(h, Inserted(h), TRUE) /\ Owns(handler[h].dev, handler[h].task)
      BY <2>1 DEF Inserts
    <3>3. QED
      BY <1>2, <3>1, <3>2
  <2>2. CASE Goto(h, Idle)
    BY <2>2, BackedMove DEF Backed, Idle
  <2>3. ASSUME NEW r \in Stored(handler[h].task, handler[h].uid, handler[h].content),
               ReplyTo(h, r, FALSE), Owns(handler[h].dev, handler[h].task),
               UNCHANGED store
        PROVE  HandlersBacked'
    BY <1>2, <2>3 DEF Stored, SameResult, store
  <2>4. QED
    BY <1>3, <2>1, <2>2, <2>3, RecordCases
<1>4. CASE SendCmt(h)
  <2>1. Backed(AfterCmt(h), task', results', now')
    BY <1>4 DEF SendCmt, AfterCmt, Idle, Backed, HandlersBacked, HandlerBacked, store
  <2>2. QED
    BY <1>4, <2>1, BackedMove DEF SendCmt
<1>5. CASE BillRes(h)
  BY <1>5, BackedMove DEF BillRes, Backed, Idle
<1>6. QED
  BY <1>1, <1>3, <1>4, <1>5 DEF Res

LEMMA HandlersStep ==
  ASSUME ConstantsAssumption, TypeOK, TypeOK', [Next]_vars, HandlersBacked, RowsConsistent
  PROVE  HandlersBacked'
<1>1. CASE UNCHANGED handler
  BY <1>1, BackedStay
<1>2. ASSUME NEW h \in Handlers, Rest(h) \/ Fail(h)
      PROVE  HandlersBacked'
  <2>1. PICK s : Goto(h, s) /\ s.pc \in {"idle", "create", "tsk", "delete"}
    BY <1>2, RestMoves
  <2>2. Backed(s, task', results', now')
    BY <2>1 DEF Backed
  <2>3. QED
    BY <2>1, <2>2, BackedMove
<1>3. ASSUME NEW h \in Handlers, Req(h) \/ Res(h)
      PROVE  HandlersBacked'
  BY <1>3, ReqBacked, ResBacked
<1>4. QED
  BY <1>1, <1>2, <1>3 DEF Next, Tick, TtlJob, Ack, vars

-----------------------------------------------------------------------------
(* The messages: RSP and CMT are sent only by a handler that is backed *)

LEMMA OutStep ==
  ASSUME [Next]_vars
  PROVE  \/ UNCHANGED vars
         \/ out'.kind \notin {"RSP", "CMT"}
         \/ \E h \in Handlers : SendRsp(h) \/ SendCmt(h)
<1>0. NoMessage => out'.kind \notin {"RSP", "CMT"}
  BY DEF NoMessage, Silence
<1>1. ASSUME NEW h \in Handlers, Rest(h) \/ Fail(h)
      PROVE  out'.kind \notin {"RSP", "CMT"}
  <2>1. NoMessage \/ SendTsk(h)
    BY ZenonT(60), <1>1 DEF Rest, CreateBegin, CreateCommit, DeleteBegin, DeleteCommit, Fail
  <2>2. QED
    BY <1>0, <2>1 DEF SendTsk
<1>2. ASSUME NEW h \in Handlers, Req(h)
      PROVE  out'.kind \notin {"RSP", "CMT"} \/ SendRsp(h)
  <2>1. ASSUME NEW d, NEW S, Answer(h, d, S)
        PROVE  NoMessage \/ out'.kind = "NOP"
    <3>1. NoMessage \/ out' = [kind |-> "NOP", dev |-> d]
      BY <2>1 DEF Answer
    <3>2. QED
      BY <3>1
  <2>2. ReqClaim(h) => NoMessage \/ out'.kind = "NOP"
    BY DEF ReqClaim
  <2>3. NoMessage \/ out'.kind = "NOP" \/ SendRsp(h)
    BY <1>2, <2>1, <2>2 DEF Req, ReqPoll, ReqTrigger
  <2>4. QED
    BY <1>0, <2>3
<1>3. ASSUME NEW h \in Handlers, Res(h)
      PROVE  out'.kind \notin {"RSP", "CMT"} \/ SendCmt(h)
  <2>1. NoMessage \/ SendCmt(h) \/ BillRes(h)
    BY <1>3 DEF Res, ResReceive, ResRecord
  <2>2. QED
    BY <1>0, <2>1 DEF BillRes
<1>4. QED
  BY <1>0, <1>1, <1>2, <1>3 DEF Next, Tick, TtlJob, Ack

LEMMA MessagesStep ==
  ASSUME TypeOK, HandlersBacked, RspDeliverable, CmtNamesStoredResult, [Next]_vars
  PROVE  RspDeliverable' /\ CmtNamesStoredResult'
<1>1. CASE UNCHANGED vars
  BY <1>1 DEF vars, RspDeliverable, CmtNamesStoredResult
<1>2. CASE out'.kind \notin {"RSP", "CMT"}
  BY <1>2 DEF RspDeliverable, CmtNamesStoredResult
<1>3. ASSUME NEW h \in Handlers, SendRsp(h)
      PROVE  RspDeliverable' /\ CmtNamesStoredResult'
  <2>1. /\ handler[h].task \in DOMAIN task
        /\ task[handler[h].task].req.dev = handler[h].dev
        /\ handler[h].payload = "full" /\ task[handler[h].task].status >= LOCK
    BY <1>3 DEF SendRsp, HandlersBacked, HandlerBacked
  <2>2. /\ out'.kind = "RSP" /\ out'.task = handler[h].task /\ out'.dev = handler[h].dev
        /\ out'.payload = handler[h].payload /\ task' = task
    BY <1>3 DEF SendRsp, store
  <2>3. QED
    BY <2>1, <2>2 DEF RspDeliverable, CmtNamesStoredResult
<1>4. ASSUME NEW h \in Handlers, SendCmt(h)
      PROVE  RspDeliverable' /\ CmtNamesStoredResult'
  <2>1. PICK r \in results : /\ r.rid = handler[h].rid /\ r.task = handler[h].task
                             /\ r.uid = handler[h].uid
                             /\ task[r.task].req.dev = handler[h].dev
    BY <1>4 DEF SendCmt, HandlersBacked, HandlerBacked
  <2>2. /\ out'.kind = "CMT" /\ out'.task = handler[h].task /\ out'.dev = handler[h].dev
        /\ out'.uid = handler[h].uid /\ out'.rid = handler[h].rid
        /\ task' = task /\ results' = results
    BY <1>4 DEF SendCmt, store
  <2>3. QED
    BY <2>1, <2>2 DEF RspDeliverable, CmtNamesStoredResult
<1>5. QED
  BY <1>1, <1>2, <1>3, <1>4, OutStep

-----------------------------------------------------------------------------
(* Billing: the right to bill a result is created with it, and used up *)

\* Owes, of a state s.
OwesState(s, i) == ((s.pc = "cmt" /\ s.isNew) \/ s.pc = "bill") /\ s.rid = i

LEMMA OweStep ==
  ASSUME TypeOK, [Next]_vars
  PROVE  \/ \E h \in Handlers : BillRes(h)
         \/ \E h \in Handlers : Inserts(h)
         \/ /\ billed' = billed
            /\ \A g \in Handlers, i \in 1..MaxResults : Owes(g, i)' => Owes(g, i)
<1> DEFINE Fewer == /\ billed' = billed
                    /\ \A g \in Handlers, i \in 1..MaxResults : Owes(g, i)' => Owes(g, i)
<1>0. ASSUME NEW h \in Handlers, NEW s, Goto(h, s), billed' = billed,
             \A i \in 1..MaxResults : OwesState(s, i) => OwesState(handler[h], i)
      PROVE  Fewer
  <2>1. \A g \in Handlers : handler'[g] = IF g = h THEN s ELSE handler[g]
    BY <1>0 DEF Goto, TypeOK
  <2>2. QED
    BY <1>0, <2>1 DEF Owes, OwesState, At
<1>1. billed' = billed /\ handler' = handler => Fewer
  BY DEF Owes, At
<1>2. ASSUME NEW h \in Handlers, Rest(h) \/ Fail(h)
      PROVE  Fewer
  <2>1. PICK s : Goto(h, s) /\ s.pc \in {"idle", "create", "tsk", "delete"}
    BY <1>2, RestMoves
  <2>2. billed' = billed
    BY ZenonT(60), <1>2 DEF Rest, CreateBegin, CreateCommit, SendTsk, DeleteBegin, DeleteCommit,
       Fail, store
  <2>3. QED
    BY <1>0, <2>1, <2>2 DEF OwesState
<1>3. ASSUME NEW h \in Handlers, Req(h)
      PROVE  Fewer
  <2>1. billed' = billed
    BY <1>3 DEF Req, ReqPoll, ReqTrigger, ReqClaim, SendRsp, store
  <2>2. \/ handler' = handler
        \/ \E s : Goto(h, s) /\ s.pc \in {"idle", "claim", "rsp"}
    <3>1. ASSUME NEW d, NEW S, Answer(h, d, S)
          PROVE  handler' = handler \/ \E s : Goto(h, s) /\ s.pc \in {"idle", "claim", "rsp"}
      <4>1. CASE handler' = handler
        BY <4>1
      <4>2. ASSUME NEW t, Goto(h, [pc |-> "claim", task |-> t, dev |-> d,
                                   payload |-> task[t].payload])
            PROVE  \E s : Goto(h, s) /\ s.pc \in {"idle", "claim", "rsp"}
        <5> DEFINE s == [pc |-> "claim", task |-> t, dev |-> d, payload |-> task[t].payload]
        <5>1. Goto(h, s) /\ s.pc = "claim"
          BY <4>2
        <5> HIDE DEF s
        <5>2. QED
          BY <5>1
      <4>3. QED
        BY <3>1, <4>1, <4>2 DEF Answer
    <3>2. CASE ReqClaim(h) \/ SendRsp(h)
      <4> DEFINE s == [pc |-> "rsp", task |-> handler[h].task, dev |-> handler[h].dev,
                       payload |-> handler[h].payload]
      <4>1. Goto(h, s) \/ Goto(h, Idle)
        BY <3>2 DEF ReqClaim, SendRsp
      <4>2. s.pc = "rsp" /\ Idle.pc = "idle"
        BY DEF Idle
      <4> HIDE DEF s
      <4>3. QED
        BY <4>1, <4>2
    <3>3. QED
      <4>1. ReqClaim(h) \/ SendRsp(h) \/ \E d, S : Answer(h, d, S)
        BY <1>3 DEF Req, ReqPoll, ReqTrigger
      <4>2. QED
        BY <3>1, <3>2, <4>1
  <2>3. ASSUME NEW s, Goto(h, s), s.pc \in {"idle", "claim", "rsp"}
        PROVE  Fewer
    BY <1>0, <2>1, <2>3 DEF OwesState
  <2>4. QED
    BY <1>1, <2>1, <2>2, <2>3
<1>4. ASSUME NEW h \in Handlers, Res(h), ~BillRes(h), ~Inserts(h)
      PROVE  Fewer
  <2>1. ASSUME NEW d, NEW t, NEW uid, NEW c, ResReceive(h, d, t, uid, c)
        PROVE  Fewer
    <3> DEFINE s == [pc |-> "record", task |-> t, dev |-> d, uid |-> uid, content |-> c,
                     recv |-> now]
    <3>1. Goto(h, s) /\ billed' = billed
      BY <2>1 DEF ResReceive, store
    <3>2. \A i : ~OwesState(s, i)
      BY DEF OwesState
    <3>3. QED
      BY <1>0, <3>1, <3>2
  <2>2. ASSUME NEW subscribed \in BOOLEAN, ResRecord(h, subscribed)
        PROVE  Fewer
    <3>1. CASE Goto(h, Idle) /\ UNCHANGED store
      BY <1>0, <3>1 DEF OwesState, Idle, store
    <3>2. ASSUME NEW r, ReplyTo(h, r, FALSE), UNCHANGED store
          PROVE  Fewer
      BY <1>0, <3>2 DEF OwesState, ReplyTo, store
    <3>3. QED
      BY <1>4, <2>2, <3>1, <3>2, RecordCases
  <2>3. CASE SendCmt(h)
    <3>1. \A i : OwesState(AfterCmt(h), i) => OwesState(handler[h], i)
      BY <2>3 DEF SendCmt, AfterCmt, OwesState, At, Idle
    <3>2. QED
      BY <1>0, <2>3, <3>1 DEF SendCmt, store
  <2>4. QED
    BY <1>4, <2>1, <2>2, <2>3 DEF Res
<1>5. QED
  BY <1>1, <1>2, <1>3, <1>4 DEF Next, Tick, TtlJob, Ack, vars, store

LEMMA BillingStep ==
  ASSUME ConstantsAssumption, TypeOK, TypeOK', ResultsBacked, HandlersBacked,
         BillingPending, BilledOnce, [Next]_vars
  PROVE  BillingPending' /\ BilledOnce'
<1>0. results \subseteq results'
  BY ResultStep DEF Inserts, TablesKept
<1>1. CASE /\ billed' = billed
           /\ \A g \in Handlers, i \in 1..MaxResults : Owes(g, i)' => Owes(g, i)
  BY <1>0, <1>1 DEF BillingPending, BilledOnce
<1>2. ASSUME NEW h \in Handlers, BillRes(h)
      PROVE  BillingPending' /\ BilledOnce'
  <2> DEFINE k == handler[h].rid
  <2>1. k \in 1..MaxResults /\ Owes(h, k)
    BY <1>2, HandlerShape DEF BillRes, At, TypeOK, Owes
  <2>2. billed[k] = 0 /\ \A g \in Handlers : Owes(g, k) => g = h
    BY <2>1 DEF BillingPending
  <2>3. \E r \in results : r.rid = k
    BY <1>2 DEF BillRes, HandlersBacked, HandlerBacked
  <2>4. \A i \in 1..MaxResults : billed'[i] = IF i = k THEN 1 ELSE billed[i]
    BY <1>2, <2>1, <2>2 DEF BillRes, TypeOK
  <2>5. \A g \in Handlers : handler'[g] = IF g = h THEN Idle ELSE handler[g]
    BY <1>2 DEF BillRes, Goto, TypeOK
  <2>6. \A g \in Handlers, i \in 1..MaxResults : Owes(g, i)' => g # h /\ Owes(g, i)
    BY <2>5 DEF Owes, At, Idle
  <2> HIDE DEF k
  <2>7. BillingPending'
    BY <2>2, <2>4, <2>6 DEF BillingPending
  <2>8. BilledOnce'
    BY <1>0, <2>3, <2>4 DEF BilledOnce
  <2>9. QED
    BY <2>7, <2>8
<1>3. ASSUME NEW h \in Handlers, Inserts(h)
      PROVE  BillingPending' /\ BilledOnce'
  <2>1. billed' = billed /\ nextRid \in 1..MaxResults
    BY <1>3, InsertFacts DEF Inserts
  <2>2. \A r \in results : r.rid # nextRid
    <3>1. \A r \in results : r.rid \in Nat /\ r.rid < nextRid
      BY DEF ResultsBacked, TypeOK, ResultRow
    <3>2. QED
      BY <2>1, <3>1
  <2>3. billed[nextRid] = 0
    BY <2>1, <2>2 DEF BilledOnce, TypeOK
  <2>4. \A g \in Handlers : ~Owes(g, nextRid)
    BY <2>2 DEF Owes, HandlersBacked, HandlerBacked
  <2>5. handler'[h].rid = nextRid /\ \A g \in Handlers : g # h => handler'[g] = handler[g]
    <3>1. ReplyTo(h, Inserted(h), TRUE) /\ Inserted(h).rid = nextRid
      BY <1>3, InsertFacts DEF Inserts
    <3>2. QED
      BY <3>1 DEF ReplyTo, Goto, TypeOK
  <2>6. \A i \in 1..MaxResults :
          /\ Owes(h, i)' => i = nextRid
          /\ \A g \in Handlers : g # h => (Owes(g, i)' <=> Owes(g, i))
    BY <2>5 DEF Owes, At
  <2>7. BillingPending'
    BY <2>1, <2>3, <2>4, <2>6 DEF BillingPending
  <2>8. BilledOnce'
    BY <1>0, <2>1 DEF BilledOnce
  <2>9. QED
    BY <2>7, <2>8
<1>4. QED
  BY <1>1, <1>2, <1>3, OweStep

-----------------------------------------------------------------------------
(* The inductive invariant, and what follows from it *)

LEMMA IndInvInit == ConstantsAssumption /\ Init => IndInv
<1> SUFFICES ASSUME ConstantsAssumption, Init PROVE IndInv
  OBVIOUS
<1>1. TypeOK
  BY TypeInit
<1>2. /\ DOMAIN task = {} /\ results = {} /\ webhooks = {} /\ out.kind = "none"
      /\ \A h \in Handlers : handler[h].pc = "idle"
      /\ \A i \in 1..MaxResults : billed[i] = 0
  BY DEF Init, Idle, Silence
<1>3. RowsConsistent /\ ResultsBacked /\ OneRowPerResult /\ WebhookWanted
  BY <1>2 DEF RowsConsistent, DeletionConsistent, SecretScrubbed, StatusMatchesDeadline,
     ResultsBacked, OneRowPerResult, WebhookWanted
<1>4. HandlersBacked /\ RspDeliverable /\ CmtNamesStoredResult
  BY <1>2 DEF HandlersBacked, HandlerBacked, At, RspDeliverable, CmtNamesStoredResult
<1>5. BillingPending /\ BilledOnce
  BY <1>2 DEF BillingPending, BilledOnce, Owes, At
<1>6. QED
  BY <1>1, <1>3, <1>4, <1>5 DEF IndInv

LEMMA IndInvStep == ConstantsAssumption /\ IndInv /\ [Next]_vars => IndInv'
<1> SUFFICES ASSUME ConstantsAssumption, IndInv, [Next]_vars PROVE IndInv'
  OBVIOUS
<1> USE DEF IndInv
<1>1. TypeOK'
  BY TypeStep
<1>2. RowsConsistent' /\ HandlersBacked'
  BY <1>1, RowsStep, HandlersStep
<1>3. ResultsBacked' /\ OneRowPerResult' /\ WebhookWanted'
  BY <1>1, ResultsStep, WebhookStep
<1>4. RspDeliverable' /\ CmtNamesStoredResult'
  BY MessagesStep
<1>5. BillingPending' /\ BilledOnce'
  BY <1>1, BillingStep
<1>6. QED
  BY <1>1, <1>2, <1>3, <1>4, <1>5

\* The inductive invariant holds in every reachable state.
THEOREM Invariant == Spec => []IndInv
BY IndInvInit, IndInvStep, ConstantsAssumption, PTL DEF Spec

\* Status, deadline, deletion flag, results and payload of a task agree.
THEOREM RowsAgree == Spec => []RowsConsistent
<1>1. IndInv => RowsConsistent
  BY DEF IndInv
<1>2. QED
  BY <1>1, Invariant, PTL

\* A renewal payload is scrubbed when, and only when, its task has ended.
THEOREM SecretIsScrubbed == Spec => []SecretScrubbed
<1>1. IndInv => SecretScrubbed
  BY DEF IndInv, RowsConsistent
<1>2. QED
  BY <1>1, Invariant, PTL

\* The two tables of a task agree about its deletion.
THEOREM DeletionIsConsistent == Spec => []DeletionConsistent
<1>1. IndInv => DeletionConsistent
  BY DEF IndInv, RowsConsistent
<1>2. QED
  BY <1>1, Invariant, PTL

\* DONE needs a result in time, EXPIRED a deadline that has passed.
THEOREM StatusIsJustified == Spec => []StatusMatchesDeadline
<1>1. IndInv => StatusMatchesDeadline
  BY DEF IndInv, RowsConsistent
<1>2. QED
  BY <1>1, Invariant, PTL

\* Redelivered and repeated results are stored once.
THEOREM ResultsAreUnique == Spec => []OneRowPerResult
<1>1. IndInv => OneRowPerResult
  BY DEF IndInv
<1>2. QED
  BY <1>1, Invariant, PTL

\* Webhooks exist only for stored results that were still wanted.
THEOREM WebhooksAreWanted == Spec => []WebhookWanted
<1>1. IndInv => WebhookWanted
  BY DEF IndInv
<1>2. QED
  BY <1>1, Invariant, PTL

\* A CMT names a committed row of the task and the result_uid it confirms.
THEOREM ConfirmationsAreBacked == Spec => []CmtNamesStoredResult
<1>1. IndInv => CmtNamesStoredResult
  BY DEF IndInv
<1>2. QED
  BY <1>1, Invariant, PTL

\* No result is billed twice, however often it is delivered.
THEOREM BillingIsExact == Spec => []BilledOnce
<1>1. IndInv => BilledOnce
  BY DEF IndInv
<1>2. QED
  BY <1>1, Invariant, PTL

\* The request of a task and its deadline never change.
THEOREM RequestsAreFinal == Spec => RequestIsFinal
<1>1. TypeOK /\ TypeOK' /\ [Next]_vars =>
        [\A t \in DOMAIN task :
           /\ t \in DOMAIN task'
           /\ task'[t].req = task[t].req
           /\ task'[t].created = task[t].created
           /\ task'[t].expires = task[t].expires]_vars
  BY RowMonotone
<1>2. QED
  BY <1>1, TypeCorrect, PTL DEF Spec, RequestIsFinal

-----------------------------------------------------------------------------
(* Deletion is final *)

LEMMA RowIsSame ==
  ASSUME NEW row \in TaskRow, NEW q \in TaskRow, q.req = row.req,
         q.created = row.created, q.expires = row.expires, q.deleted = row.deleted,
         q.status = row.status, q.payload = row.payload
  PROVE  q = row
BY DEF TaskRow

\* The row of a deleted task cannot be told from the row after another deletion,
\* a TTL job or a result.
LEMMA DeletedRowKept ==
  ASSUME ConstantsAssumption, TypeOK, TypeOK', RowsConsistent, HandlersBacked,
         [Next]_vars, NEW t \in DOMAIN task, task[t].deleted
  PROVE  task'[t] = task[t]
<1>1. t \in DOMAIN task' /\ RowChange(t)
  BY RowStep
<1>2. /\ task[t] \in TaskRow /\ task[t].status = DELETED
      /\ task[t].payload \in {"full", "scrubbed"}
      /\ task[t].payload = "scrubbed" <=> task[t].req.method = Renewal
  <2>1. task[t] \in TaskRow /\ task[t].status = DELETED
    BY DEF TypeOK, RowsConsistent, DeletionConsistent
  <2>2. task[t].payload = "scrubbed" <=> task[t].req.method = Renewal
    BY <2>1 DEF RowsConsistent, SecretScrubbed, DONE, DELETED
  <2>3. QED
    BY <2>1, <2>2 DEF TaskRow
<1>3. Scrub(task[t]) = task[t]
  BY <1>2, ScrubRow, RowIsSame
<1>4. DeletedRow(task[t]) = task[t]
  <2> DEFINE q == DeletedRow(task[t])
  <2>1. /\ q \in TaskRow /\ q.deleted /\ q.req = task[t].req
        /\ q.created = task[t].created /\ q.expires = task[t].expires
        /\ q.status = DELETED
        /\ q.payload = IF task[t].req.method = Renewal THEN "scrubbed" ELSE task[t].payload
    BY <1>2, DeletedRowRow
  <2>2. q.payload = task[t].payload
    BY <1>2, <2>1
  <2>3. q.deleted = task[t].deleted
    <3>1. q.deleted \in BOOLEAN /\ task[t].deleted \in BOOLEAN
      BY <1>2, <2>1 DEF TaskRow
    <3>2. QED
      BY <2>1, <3>1
  <2> HIDE DEF q
  <2>4. q = task[t]
    BY <1>2, <2>1, <2>2, <2>3, RowIsSame
  <2>5. QED
    BY <2>4 DEF q
<1>5. ASSUME NEW h \in Handlers, Inserts(h)
      PROVE  Finished(task[t], handler[h].recv) = task[t]
  <2>1. handler[h].recv \in Nat
    BY <1>5, InsertFacts
  <2>2. QED
    BY <1>2, <2>1, FinishedRow DEF DONE, DELETED
<1>6. ~Overdue(task[t]) /\ task[t].status # READY /\ ~(task[t].status < DONE)
  BY <1>2 DEF Overdue, READY, DONE, DELETED
<1>7. QED
  BY <1>1, <1>3, <1>4, <1>5, <1>6 DEF RowChange

\* After a deletion is committed no handler changes the task or adds a webhook
\* for it, whatever the handler had read before.
THEOREM DeletionsAreFinal == Spec => DeletedIsFinal
<1> DEFINE A == \A t \in DOMAIN task : task[t].deleted =>
                  /\ task'[t] = task[t]
                  /\ \A r \in results' :
                       r.task = t /\ r.rid \in webhooks' => r.rid \in webhooks
<1>1. ConstantsAssumption /\ IndInv /\ IndInv' /\ [Next]_vars => A
  <2> SUFFICES ASSUME ConstantsAssumption, IndInv, IndInv', [Next]_vars,
                      NEW t \in DOMAIN task, task[t].deleted
               PROVE  /\ task'[t] = task[t]
                      /\ \A r \in results' :
                           r.task = t /\ r.rid \in webhooks' => r.rid \in webhooks
    OBVIOUS
  <2>1. task'[t] = task[t]
    BY DeletedRowKept DEF IndInv
  <2>2. CASE TablesKept
    BY <2>1, <2>2 DEF TablesKept
  <2>3. ASSUME NEW h \in Handlers, Inserts(h), NEW r \in results', r.task = t,
               r.rid \in webhooks'
        PROVE  r.rid \in webhooks
    <3>1. /\ results' = results \cup {Inserted(h)} /\ Inserted(h).task = handler[h].task
          /\ Inserted(h).rid = nextRid /\ nextRid \in 1..MaxResults
      BY <2>3, InsertFacts DEF IndInv
    <3>2. \/ webhooks' = webhooks
          \/ webhooks' = webhooks \cup {nextRid} /\ ~task[handler[h].task].deleted
      BY <2>3 DEF Inserts, WantsWebhook
    <3>3. \A q \in results : q.rid < nextRid /\ q.rid \in Nat
      BY DEF IndInv, ResultsBacked, TypeOK, ResultRow
    <3>4. QED
      BY <2>3, <3>1, <3>2, <3>3
  <2>4. QED
    BY <2>1, <2>2, <2>3, ResultStep
<1>2. IndInv /\ IndInv' /\ [Next]_vars => [A]_vars
  BY <1>1, ConstantsAssumption
<1>3. QED
  BY <1>2, Invariant, PTL DEF Spec, DeletedIsFinal

-----------------------------------------------------------------------------
(* RpcTasks implements TaskLifecycle *)

LEMMA PublicInit == Init => Public!Init
BY DEF Init, Public!Init, PublicState

\* Which status shows as which public state.
LEMMA ShownStatus ==
  ASSUME NEW st \in READY..DELETED
  PROVE  /\ st < DONE => Shown(st) = "active"
         /\ st = DONE => Shown(st) = "done"
         /\ st = EXPIRED => Shown(st) = "expired"
         /\ st = DELETED => Shown(st) = "deleted"
         /\ Shown(st) = "active" => st < DONE
         /\ Shown(st) = "deleted" => st = DELETED
         /\ Shown(st) # "absent"
<1>1. st \in {0, 1, 2, 3, 4, 5}
  BY DEF READY, DELETED
<1>2. /\ st \in {0, 1, 2} => Shown(st) = "active"
      /\ st = 3 => Shown(st) = "done"
      /\ st = 4 => Shown(st) = "expired"
      /\ st = 5 => Shown(st) = "deleted"
  BY DEF Shown, DONE, EXPIRED, DELETED
<1>3. QED
  BY <1>1, <1>2 DEF DONE, EXPIRED, DELETED

\* The states of a step that leaves every status on the same side of DONE.
LEMMA PublicKept ==
  ASSUME TypeOK, TypeOK', DOMAIN task' = DOMAIN task,
         \A t \in DOMAIN task : \/ task'[t].status = task[t].status
                                \/ task[t].status < DONE /\ task'[t].status < DONE
  PROVE  PublicState' = PublicState
<1>1. \A t \in DOMAIN task : /\ task[t].status \in READY..DELETED
                             /\ task'[t].status \in READY..DELETED
  BY DEF TypeOK, TaskRow
<1>2. \A t \in DOMAIN task : Shown(task'[t].status) = Shown(task[t].status)
  BY <1>1, ShownStatus
<1>3. QED
  BY <1>2 DEF PublicState

LEMMA PublicCreate ==
  ASSUME ConstantsAssumption, TypeOK, TypeOK', NEW h \in Handlers, CreateCommit(h)
  PROVE  [Public!Next]_(Public!vars)
<1>1. CASE UNCHANGED task
  BY <1>1 DEF CreateCommit, Public!vars, PublicState
<1>2. CASE Creatable(handler[h].op, handler[h].req)
  <2> DEFINE op == handler[h].op
  <2>1. /\ op \in Tasks /\ op \notin DOMAIN task
        /\ DOMAIN task' = DOMAIN task \cup {op} /\ task'[op].status = READY
        /\ \A t \in DOMAIN task : task'[t] = task[t]
        /\ UNCHANGED <<results, webhooks>>
    BY <1>2, HandlerShape DEF CreateCommit, Creatable, NewRow, At, TypeOK
  <2>2. Shown(READY) = "active"
    BY ShownStatus DEF READY, DONE, DELETED
  <2> HIDE DEF op
  <2>3. PublicState[op] = "absent" /\ PublicState' = [PublicState EXCEPT ![op] = "active"]
    BY <2>1, <2>2 DEF PublicState
  <2>4. Public!Create(op)
    BY <2>1, <2>3 DEF Public!Create
  <2>5. QED
    BY <2>1, <2>4 DEF Public!Next
<1>3. QED
  BY <1>1, <1>2 DEF CreateCommit

LEMMA PublicDelete ==
  ASSUME ConstantsAssumption, TypeOK, TypeOK', NEW h \in Handlers, DeleteCommit(h)
  PROVE  [Public!Next]_(Public!vars)
<1> DEFINE t == handler[h].task
<1>0. UNCHANGED <<results, webhooks>>
  BY DEF DeleteCommit
<1>1. CASE t \notin DOMAIN task
  <2>1. DOMAIN task' = DOMAIN task /\ \A u \in DOMAIN task : task'[u] = task[u]
    BY <1>1 DEF DeleteCommit
  <2>2. PublicState' = PublicState
    BY <2>1, PublicKept
  <2>3. QED
    BY <1>0, <2>2 DEF Public!vars
<1>2. CASE t \in DOMAIN task
  <2>1. /\ t \in Tasks /\ task[t] \in TaskRow /\ task[t].status \in READY..DELETED
    BY <1>2 DEF TypeOK, TaskRow
  <2>2. /\ DOMAIN task' = DOMAIN task /\ task'[t].status = DELETED
        /\ \A u \in DOMAIN task : u # t => task'[u] = task[u]
    BY <1>2, <2>1, DeletedRowRow DEF DeleteCommit
  <2>3. Shown(DELETED) = "deleted"
    BY ShownStatus, Statuses
  <2> HIDE DEF t
  <2>4. PublicState' = [PublicState EXCEPT ![t] = "deleted"]
    BY <1>2, <2>2, <2>3 DEF PublicState
  <2>5. PublicState[t] # "absent"
    BY <1>2, <2>1, ShownStatus DEF PublicState
  <2>6. CASE PublicState[t] = "deleted"
    <3>1. PublicState' = PublicState
      BY <2>4, <2>6 DEF PublicState
    <3>2. QED
      BY <1>0, <3>1 DEF Public!vars
  <2>7. CASE PublicState[t] # "deleted"
    <3>1. Public!Delete(t)
      BY <1>0, <2>4, <2>5, <2>7 DEF Public!Delete
    <3>2. QED
      BY <2>1, <3>1 DEF Public!Next
  <2>8. QED
    BY <2>6, <2>7
<1>3. QED
  BY <1>1, <1>2

LEMMA PublicExpire ==
  ASSUME ConstantsAssumption, TypeOK, TypeOK', TtlJob
  PROVE  [Public!Next]_(Public!vars)
<1> DEFINE S == {t \in DOMAIN task : Overdue(task[t])}
<1>1. S # {} /\ S \subseteq DOMAIN task /\ S \in SUBSET Tasks
  BY DEF TtlJob, TypeOK
<1>2. \A t \in DOMAIN task : task[t] \in TaskRow /\ task[t].status \in READY..DELETED
  BY DEF TypeOK, TaskRow
<1>3. \A t \in S : task[t].status < DONE
  BY DEF Overdue
<1>4. \A t \in S : task'[t].status = EXPIRED
  <2> SUFFICES ASSUME NEW t \in S PROVE task'[t].status = EXPIRED
    OBVIOUS
  <2> DEFINE q == [task[t] EXCEPT !.status = EXPIRED]
  <2>1. q \in TaskRow /\ q.status = EXPIRED
    BY <1>1, <1>2, StatusRow, Statuses
  <2>2. task'[t] = Scrub(q)
    BY DEF TtlJob
  <2> HIDE DEF q
  <2>3. QED
    BY <2>1, <2>2, ScrubRow
<1>5. /\ DOMAIN task' = DOMAIN task /\ UNCHANGED <<results, webhooks>>
      /\ \A t \in DOMAIN task : t \notin S => task'[t] = task[t]
  BY DEF TtlJob
<1> HIDE DEF S
<1>6. Shown(EXPIRED) = "expired"
  BY ShownStatus, Statuses
<1>7. PublicState' = [t \in Tasks |-> IF t \in S THEN "expired" ELSE PublicState[t]]
  BY <1>1, <1>4, <1>5, <1>6 DEF PublicState
<1>8. \A t \in S : PublicState[t] = "active"
  BY <1>1, <1>2, <1>3, ShownStatus DEF PublicState
<1>9. Public!Expire(S)
  BY <1>1, <1>5, <1>7, <1>8 DEF Public!Expire
<1>10. QED
  BY <1>1, <1>9 DEF Public!Next

LEMMA PublicAccept ==
  ASSUME ConstantsAssumption, IndInv, TypeOK', NEW h \in Handlers, Inserts(h)
  PROVE  [Public!Next]_(Public!vars)
<1> DEFINE t      == handler[h].task
           recv   == handler[h].recv
           ending == IF recv < task[t].expires THEN "done" ELSE "expired"
           notify == webhooks' # webhooks
<1>1. /\ t \in DOMAIN task /\ t \in Tasks /\ task[t] \in TaskRow
      /\ task[t].status \in READY..DELETED /\ task[t].expires \in Nat
      /\ recv \in Nat /\ nextRid \in 1..MaxResults
  BY InsertFacts DEF IndInv, TypeOK, TaskRow
<1>2. results' = results \cup {Inserted(h)} /\ Inserted(h).rid = nextRid /\ Inserted(h).task = t
  BY InsertFacts DEF IndInv
<1>3. {<<r.rid, r.task>> : r \in results'}
        = {<<r.rid, r.task>> : r \in results} \cup {<<nextRid, t>>}
  BY <1>2
<1>4. \A p \in {<<r.rid, r.task>> : r \in results} : p[1] # nextRid
  <2>1. \A r \in results : r.rid < nextRid /\ r.rid \in Nat
    BY DEF IndInv, ResultsBacked, TypeOK, ResultRow
  <2>2. QED
    BY <1>1, <2>1
<1>5. /\ DOMAIN task' = DOMAIN task
      /\ \A u \in DOMAIN task : u # t => task'[u] = task[u]
      /\ task'[t].status = IF task[t].status >= DONE THEN task[t].status
                           ELSE IF recv < task[t].expires THEN DONE ELSE EXPIRED
  <2> DEFINE q == Finished(task[t], recv)
  <2>1. /\ q \in TaskRow
        /\ q.status = IF task[t].status >= DONE THEN task[t].status
                      ELSE IF recv < task[t].expires THEN DONE ELSE EXPIRED
    BY SMTT(60), <1>1, FinishedRow DEF READY, DONE, DELETED
  <2>2. DOMAIN task' = DOMAIN task /\ task'[t] = Scrub(q)
        /\ \A u \in DOMAIN task : u # t => task'[u] = task[u]
    BY <1>1 DEF Inserts
  <2> HIDE DEF q
  <2>3. QED
    BY <2>1, <2>2, ScrubRow
<1>6. \/ webhooks' = webhooks
      \/ webhooks' = webhooks \cup {nextRid} /\ task[t].status # DELETED
  BY DEF Inserts, WantsWebhook
<1> HIDE DEF t, recv
<1>7. PublicState' = [PublicState EXCEPT ![t] = IF @ = "active" THEN ending ELSE @]
  <2>1. CASE task[t].status >= DONE
    <3>1. PublicState' = PublicState
      BY <1>5, <2>1 DEF PublicState
    <3>2. PublicState[t] # "active"
      BY <1>1, <2>1, ShownStatus DEF PublicState, READY, DONE, DELETED
    <3>3. QED
      BY <3>1, <3>2 DEF PublicState
  <2>2. CASE task[t].status < DONE
    <3>1. PublicState[t] = "active"
      BY <1>1, <2>2, ShownStatus DEF PublicState
    <3>2. Shown(DONE) = "done" /\ Shown(EXPIRED) = "expired"
      BY ShownStatus DEF READY, DONE, EXPIRED, DELETED
    <3>3. task'[t].status = IF recv < task[t].expires THEN DONE ELSE EXPIRED
      BY <1>1, <1>5, <2>2 DEF DONE, READY, DELETED
    <3>4. Shown(task'[t].status) = ending
      BY <3>2, <3>3
    <3>5. PublicState' = [PublicState EXCEPT ![t] = ending]
      BY <1>1, <1>5, <3>4 DEF PublicState
    <3>6. QED
      BY <3>1, <3>5
  <2>3. QED
    BY <1>1, <2>1, <2>2 DEF READY, DONE, DELETED
<1>8. PublicState[t] # "absent"
  BY <1>1, ShownStatus DEF PublicState
<1>9. notify => PublicState[t] # "deleted"
  BY <1>1, <1>6, ShownStatus DEF PublicState
<1>10. webhooks' = IF notify THEN webhooks \cup {nextRid} ELSE webhooks
  BY <1>6
<1>11. notify \in BOOLEAN /\ ending \in {"done", "expired"}
  OBVIOUS
<1> HIDE DEF notify, ending
<1>12. CASE notify
  <2>1. Public!Accept(t, nextRid, ending, TRUE)
    BY <1>3, <1>4, <1>7, <1>8, <1>9, <1>10, <1>12 DEF Public!Accept
  <2>2. QED
    BY <1>1, <1>11, <2>1 DEF Public!Next
<1>13. CASE ~notify
  <2>1. Public!Accept(t, nextRid, ending, FALSE)
    BY <1>3, <1>4, <1>7, <1>8, <1>10, <1>13 DEF Public!Accept
  <2>2. QED
    BY <1>1, <1>11, <2>1 DEF Public!Next
<1>14. QED
  BY <1>12, <1>13

LEMMA PublicStep == ConstantsAssumption /\ IndInv /\ IndInv' /\ [Next]_vars
                      => [Public!Next]_(Public!vars)
<1> SUFFICES ASSUME ConstantsAssumption, IndInv, IndInv', [Next]_vars
             PROVE  [Public!Next]_(Public!vars)
  OBVIOUS
<1>0. TypeOK /\ TypeOK'
  BY DEF IndInv
<1>1. CASE TablesKept /\ UNCHANGED task
  BY <1>1 DEF TablesKept, Public!vars, PublicState
<1>2. ASSUME NEW d \in Devices, NEW t \in Tasks, Ack(d, t)
      PROVE  [Public!Next]_(Public!vars)
  <2>1. /\ DOMAIN task' = DOMAIN task
        /\ \A u \in DOMAIN task : \/ task'[u].status = task[u].status
                                  \/ task[u].status < DONE /\ task'[u].status < DONE
    BY <1>0, <1>2 DEF Ack, TypeOK, TaskRow, READY, PENDING, DONE
  <2>2. PublicState' = PublicState
    BY <1>0, <2>1, PublicKept
  <2>3. QED
    BY <1>2, <2>2 DEF Ack, Public!vars
<1>3. ASSUME NEW h \in Handlers, ReqClaim(h)
      PROVE  [Public!Next]_(Public!vars)
  <2>1. /\ DOMAIN task' = DOMAIN task
        /\ \A u \in DOMAIN task : \/ task'[u].status = task[u].status
                                  \/ task[u].status < DONE /\ task'[u].status < DONE
    <3>1. CASE UNCHANGED task
      BY <3>1
    <3>2. CASE /\ Claimable(handler[h].task, handler[h].dev)
               /\ task' = [task EXCEPT ![handler[h].task].status = LOCK]
      BY SMTT(90), <1>0, <3>2 DEF Claimable, TypeOK, TaskRow, LOCK, DONE
    <3>3. QED
      BY <1>3, <3>1, <3>2 DEF ReqClaim
  <2>2. PublicState' = PublicState
    BY <1>0, <2>1, PublicKept
  <2>3. QED
    BY <1>3, <2>2 DEF ReqClaim, Public!vars
<1>4. ASSUME NEW h \in Handlers, Rest(h) \/ Req(h) \/ Res(h) \/ Fail(h)
      PROVE  [Public!Next]_(Public!vars)
  <2>1. \/ UNCHANGED task \/ CreateCommit(h) \/ DeleteCommit(h) \/ ReqClaim(h)
        \/ \E subscribed \in BOOLEAN : ResRecord(h, subscribed)
    BY ZenonT(120), <1>4 DEF Rest, Req, Res, Fail, CreateBegin, SendTsk, DeleteBegin, ReqPoll,
       ReqTrigger, SendRsp, ResReceive, SendCmt, BillRes, store
  <2>2. CASE \E g \in Handlers : Inserts(g)
    BY <1>0, <2>2, PublicAccept
  <2>3. CASE TablesKept
    <3>1. CASE CreateCommit(h)
      BY <1>0, <3>1, PublicCreate
    <3>2. CASE DeleteCommit(h)
      BY <1>0, <3>2, PublicDelete
    <3>3. ASSUME NEW subscribed \in BOOLEAN, ResRecord(h, subscribed), ~Inserts(h)
          PROVE  UNCHANGED task
      BY <3>3, RecordCases DEF store
    <3>4. QED
      BY <1>1, <1>3, <2>1, <2>2, <2>3, <3>1, <3>2, <3>3
  <2>4. QED
    BY <2>2, <2>3, ResultStep
<1>5. CASE TtlJob
  BY <1>0, <1>5, PublicExpire
<1>6. CASE Tick \/ UNCHANGED vars
  BY <1>1, <1>6 DEF Tick, vars, store, TablesKept
<1>7. QED
  BY <1>2, <1>4, <1>5, <1>6 DEF Next

\* Seen through its committed rows the store implements TaskLifecycle.
THEOREM Refinement == Spec => Lifecycle
<1>1. IndInv /\ IndInv' /\ [Next]_vars => [Public!Next]_(Public!vars)
  BY PublicStep, ConstantsAssumption
<1>2. QED
  BY <1>1, PublicInit, Invariant, PTL DEF Spec, Lifecycle, Public!Spec

-----------------------------------------------------------------------------
(* What is handed out has not ended before it was claimed *)

\* The statuses over one step: nothing that has ended goes on, and a task that
\* a claim has locked stays so until it ends.
LEMMA EndedStep ==
  ASSUME TypeOK, TypeOK', [Next]_vars
  PROVE  /\ Ended \subseteq Ended'
         /\ \A t \in DOMAIN task : task[t].status = LOCK =>
               task'[t].status = LOCK \/ t \in Ended'
<1>1. \A t \in DOMAIN task : t \in DOMAIN task' /\ task[t].status <= task'[t].status
  BY RowMonotone
<1>2. \A t \in DOMAIN task' : task'[t].status \in READY..DELETED
  BY DEF TypeOK, TaskRow
<1>3. \A t \in DOMAIN task : task[t].status \in READY..DELETED
  BY DEF TypeOK, TaskRow
<1>4. QED
  BY <1>1, <1>2, <1>3 DEF Ended, READY, LOCK, DONE, DELETED

\* A handler comes to publish an RSP only by a claim of this very step.
LEMMA ClaimantStep ==
  ASSUME TypeOK, HandlersBacked, [Next]_vars, NEW h \in Handlers, At(h, "rsp")'
  PROVE  \/ handler'[h] = handler[h]
         \/ /\ At(h, "claim")
            /\ handler'[h].task = handler[h].task /\ handler'[h].dev = handler[h].dev
            /\ handler'[h].payload = handler[h].payload
            /\ Claimable(handler[h].task, handler[h].dev)
            /\ task' = [task EXCEPT ![handler[h].task].status = LOCK]
<1>1. CASE UNCHANGED handler
  BY <1>1
<1>2. ASSUME NEW g \in Handlers, Rest(g) \/ Req(g) \/ Res(g) \/ Fail(g)
      PROVE  \/ handler'[h] = handler[h]
             \/ ReqClaim(h)
  <2>0. handler \in [Handlers -> HandlerState]
    BY DEF TypeOK
  <2> DEFINE Elsewhere == handler'[h] = handler[h] \/ handler'[h].pc # "rsp"
  <2>1. ASSUME NEW s, Goto(g, s), s.pc # "rsp"
        PROVE  Elsewhere
    BY <2>0, <2>1 DEF Goto
  <2>2. ASSUME Rest(g) \/ Fail(g)
        PROVE  Elsewhere
    BY <2>1, <2>2, RestMoves
  <2>3. ASSUME NEW d \in Devices, NEW S, Answer(g, d, S)
        PROVE  Elsewhere
    BY <2>0, <2>3 DEF Answer, Goto
  <2>4. ASSUME NEW d \in Devices, NEW ws \in BOOLEAN, NEW n, ReqPoll(g, d, ws, n)
        PROVE  Elsewhere
    BY <2>3, <2>4 DEF ReqPoll
  <2>5. ASSUME NEW d \in Devices, NEW t, ReqTrigger(g, d, t)
        PROVE  Elsewhere
    BY <2>3, <2>5 DEF ReqTrigger
  <2>6. ASSUME SendRsp(g)
        PROVE  Elsewhere
    BY <2>0, <2>6 DEF SendRsp, Goto, Idle
  <2>7. ASSUME ReqClaim(g)
        PROVE  Elsewhere \/ ReqClaim(h)
    BY <2>0, <2>7 DEF ReqClaim, Goto
  <2>8. ASSUME Req(g)
        PROVE  Elsewhere \/ ReqClaim(h)
    BY <2>4, <2>5, <2>6, <2>7, <2>8 DEF Req
  <2>9. ASSUME NEW subscribed \in BOOLEAN, ResRecord(g, subscribed)
        PROVE  Elsewhere
    BY <2>0, <2>9 DEF ResRecord, ReplyTo, Goto, Idle
  <2>10. ASSUME SendCmt(g)
        PROVE  Elsewhere
    BY <2>0, <2>10 DEF SendCmt, AfterCmt, Goto, Idle
  <2>11. ASSUME Res(g)
        PROVE  Elsewhere
    BY <2>0, <2>9, <2>10, <2>11 DEF Res, ResReceive, BillRes, Goto, Idle
  <2>12. QED
    BY <1>2, <2>2, <2>7, <2>8, <2>11 DEF At
<1>3. ASSUME ReqClaim(h)
      PROVE  /\ At(h, "claim")
             /\ handler'[h].task = handler[h].task /\ handler'[h].dev = handler[h].dev
             /\ handler'[h].payload = handler[h].payload
             /\ Claimable(handler[h].task, handler[h].dev)
             /\ task' = [task EXCEPT ![handler[h].task].status = LOCK]
  BY <1>3 DEF ReqClaim, Goto, At, Idle, TypeOK
<1>4. QED
  BY <1>1, <1>2, <1>3 DEF Next, Tick, TtlJob, Ack, vars

LEMMA DispatchStep ==
  ASSUME IndInv, IndInv', DispatchInv, [DispatchNext]_dispatchVars
  PROVE  DispatchInv'
<1>0. TypeOK /\ TypeOK' /\ HandlersBacked /\ HandlersBacked' /\ [Next]_vars
  BY DEF IndInv, DispatchNext, dispatchVars
<1>1. CASE UNCHANGED dispatchVars
  BY <1>1 DEF dispatchVars, vars, DispatchInv, OvertakenTyped, HistoryExact, Ended,
     DispatchedUnended, At
<1>2. CASE Observe
  <2>1. DOMAIN overtaken' = Ended'
    BY <1>0, <1>2, EndedStep DEF Observe, DispatchInv, HistoryExact
  <2>2. Ended' \subseteq Tasks
    BY <1>0 DEF Ended, TypeOK
  <2>3. \A t \in Ended' : overtaken'[t] \subseteq Handlers
    BY <1>2, <2>1 DEF Observe, Claimants
  <2>4. ASSUME NEW h \in Handlers, At(h, "rsp")', NEW t, t = handler'[h].task
        PROVE  /\ t \in DOMAIN task' /\ task'[t].req.dev = handler'[h].dev
               /\ handler'[h].payload = "full"
               /\ t \notin DOMAIN overtaken' => task'[t].status = LOCK
               /\ t \in DOMAIN overtaken' => h \in overtaken'[t]
    <3>1. t \in DOMAIN task' /\ task'[t].req.dev = handler'[h].dev /\ handler'[h].payload = "full"
      BY <1>0, <2>4 DEF HandlersBacked, HandlerBacked, At
    <3>2. h \in Claimants(t)'
      BY <2>4 DEF Claimants, At
    <3>3. CASE handler'[h] = handler[h]
      <4>1. At(h, "rsp") /\ handler[h].task = t
        BY <2>4, <3>3 DEF At
      <4>2. /\ t \in DOMAIN task
            /\ t \notin DOMAIN overtaken => task[t].status = LOCK
            /\ t \in DOMAIN overtaken => h \in overtaken[t]
        BY <4>1 DEF DispatchInv, DispatchedUnended
      <4>3. h \in Claimants(t)
        BY <4>1 DEF Claimants
      <4>4. t \notin Ended' => task'[t].status = LOCK
        BY <1>0, <4>2, EndedStep DEF DispatchInv, HistoryExact
      <4>5. t \in Ended' => h \in overtaken'[t]
        BY <1>2, <2>1, <3>2, <4>2, <4>3 DEF Observe
      <4>6. QED
        BY <2>1, <3>1, <4>4, <4>5
    <3>4. CASE /\ At(h, "claim") /\ t = handler[h].task
               /\ Claimable(handler[h].task, handler[h].dev)
               /\ task' = [task EXCEPT ![handler[h].task].status = LOCK]
      <4>1. t \in DOMAIN task
        BY <3>1, <3>4
      <4>2. task'[t].status = LOCK
        BY <1>0, <3>4, <4>1 DEF TypeOK, TaskRow
      <4>3. t \notin Ended'
        BY <4>2 DEF Ended, LOCK, DONE
      <4>4. QED
        BY <2>1, <3>1, <4>2, <4>3
    <3>5. QED
      BY <1>0, <2>4, <3>3, <3>4, ClaimantStep
  <2>5. QED
    BY <2>1, <2>2, <2>3, <2>4 DEF DispatchInv, OvertakenTyped, HistoryExact, DispatchedUnended, At
<1>3. QED
  BY <1>1, <1>2 DEF DispatchNext

\* With the history beside it, RpcTasks hands out no task that had ended before
\* the claim, and an RSP always carries the whole payload to its owner.
THEOREM NothingEndedIsDispatched == DispatchSpec => []DispatchedUnended
<1>1. DispatchInit => DispatchInv
  BY DEF DispatchInit, Init, Idle, At, DispatchInv, OvertakenTyped, HistoryExact, Ended,
     DispatchedUnended
<1>2. IndInv /\ IndInv' /\ DispatchInv /\ [DispatchNext]_dispatchVars => DispatchInv'
  BY DispatchStep
<1>3. DispatchInit /\ [][DispatchNext]_dispatchVars => Spec
  <2>1. [DispatchNext]_dispatchVars => [Next]_vars
    BY DEF DispatchNext, dispatchVars
  <2>2. QED
    BY <2>1, PTL DEF DispatchInit, Spec
<1>4. DispatchInv => DispatchedUnended
  BY DEF DispatchInv
<1>5. QED
  BY <1>1, <1>2, <1>3, <1>4, Invariant, PTL DEF DispatchSpec
=============================================================================
