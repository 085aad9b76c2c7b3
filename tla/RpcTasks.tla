------------------------------ MODULE RpcTasks ------------------------------
(***************************************************************************)
(* The RPC task store of the service: the rows of tb_dev_tasks,            *)
(* tb_dev_tasks_status, tb_dev_tasks_payload, tb_dev_tasks_result and      *)
(* tb_rpc_result_webhooks, and the request handlers that work on them.     *)
(*                                                                         *)
(* A handler is one REST call or one consumed broker message.  Handlers    *)
(* run concurrently (coroutines of one worker, or several workers), and a  *)
(* handler is cut exactly where the code ends a transaction, awaits or     *)
(* publishes: everything another handler can see happens between cuts.     *)
(* A handler may die at any cut (Fail).  The broker queues are not state:  *)
(* a device may send any ACK, REQ or RES for any task at any time, which   *)
(* includes lost, repeated, redelivered and reordered messages.            *)
(***************************************************************************)
EXTENDS Integers, FiniteSets

CONSTANTS
  Devices,    \* serial numbers (device_id and sn are one-to-one)
  Tasks,      \* task ids: uuid4, or the operation_id of a camera request
  Handlers,   \* concurrent REST calls and message handlers
  Uids,       \* result_uid headers a device may use
  NoUid,      \* a RES without a result_uid header
  Contents,   \* <<ext_id, status_code, result>> of a RES, as one value
  Methods,    \* method codes, a set of integers
  Ttls,       \* requested TTLs in minutes
  Prios,      \* task priorities
  Grace,      \* minutes after the deadline in which a result is still sent on
  Horizon,    \* bound of the clock
  MaxResults  \* bound of the result table

ASSUME ConstantsAssumption ==
  /\ NoUid \notin Uids
  /\ Methods \subseteq Nat /\ Ttls \subseteq Nat /\ Prios \subseteq Int
  /\ Grace \in Nat /\ Horizon \in Nat /\ MaxResults \in Nat

VARIABLES
  now,        \* minutes; PostgreSQL and the application share the clock
  task,       \* the committed tasks: a function from the ids of the rows
  results,    \* rows of tb_dev_tasks_result
  nextRid,    \* the serial of that table
  webhooks,   \* result ids with a row in tb_rpc_result_webhooks
  billed,     \* how often each result was counted by a "res" billing event
  handler,    \* where each handler is, with its local variables
  out         \* the message published by the last step

vars == <<now, task, results, nextRid, webhooks, billed, handler, out>>
store == <<task, results, nextRid, webhooks, billed>>

\* TaskStatus.  FAILED (6) and UNDEFINED (7) are never written by the code.
READY   == 0
PENDING == 1
LOCK    == 2
DONE    == 3
EXPIRED == 4
DELETED == 5

Renewal   == 7011            \* certificate renewal: its payload is a secret
CameraOps == {165, 166, 167} \* with a contract revision: idempotent by id

Min2(a, b) == IF a <= b THEN a ELSE b
Max2(a, b) == IF a >= b THEN a ELSE b

(***************************************************************************)
(* Records.  cap is the moment after which the payload of the request is   *)
(* void: pin_expires_at of a renewal, expires_at_ms of the envelope with   *)
(* the credentials of a camera request, 0 when there is neither.  recv is  *)
(* the moment a RES was received; the table does not keep it, properties   *)
(* do.                                                                     *)
(***************************************************************************)
Request == [dev: Devices, method: Methods, ttl: Ttls, prio: Prios, cap: Nat]

TaskRow == [req: Request, created: Nat, expires: Nat, deleted: BOOLEAN,
            status: READY..DELETED, payload: {"full", "scrubbed"}]

ResultRow == [rid: 1..MaxResults, task: Tasks, uid: Uids \cup {NoUid},
              content: Contents, recv: Nat]

Message ==
  [kind: {"none"}]
    \cup [kind: {"TSK"}, dev: Devices, task: Tasks, expiration: Nat]
    \cup [kind: {"RSP"}, dev: Devices, task: Tasks, payload: {"full", "scrubbed"}]
    \cup [kind: {"NOP"}, dev: Devices]
    \cup [kind: {"CMT"}, dev: Devices, task: Tasks, uid: Uids \cup {NoUid},
          rid: 1..MaxResults]
    \cup [kind: {"BILL"}, rid: 1..MaxResults]

HandlerState ==
  [pc: {"idle"}]
    \cup [pc: {"create"}, req: Request, op: Tasks]
    \cup [pc: {"tsk"}, task: Tasks, req: Request, created: Nat]
    \cup [pc: {"delete"}, task: Tasks]
    \cup [pc: {"claim"}, task: Tasks, dev: Devices, payload: {"full", "scrubbed"}]
    \cup [pc: {"rsp"}, task: Tasks, dev: Devices, payload: {"full", "scrubbed"}]
    \cup [pc: {"record"}, task: Tasks, dev: Devices, uid: Uids \cup {NoUid},
          content: Contents, recv: Nat]
    \cup [pc: {"cmt"}, task: Tasks, dev: Devices, uid: Uids \cup {NoUid},
          content: Contents, rid: 1..MaxResults, isNew: BOOLEAN]
    \cup [pc: {"bill"}, rid: 1..MaxResults]

Idle    == [pc |-> "idle"]
Silence == [kind |-> "none"]

Goto(h, state) == handler' = [handler EXCEPT ![h] = state]
At(h, pc) == handler[h].pc = pc
NoMessage == out' = Silence

-----------------------------------------------------------------------------
(* Creating a task: DeviceTasksService.create and TasksRepository.create_task *)

Lifetime(ttl) == IF ttl = 0 THEN 1 ELSE ttl

\* expires_at: created_at + (ttl or 1) minutes, never later than the cap.
Deadline(req) ==
  LET byTtl == now + Lifetime(req.ttl)
  IN  IF req.cap > 0 THEN Min2(byTtl, req.cap) ELSE byTtl

\* What the request validators and the camera admission let through.
Admissible(req) ==
  /\ req.method = Renewal => req.ttl > 0 /\ now + req.ttl <= req.cap
  /\ req.method \in CameraOps =>
       /\ req.ttl > 0
       /\ req.cap > 0 => now < req.cap /\ req.cap <= now + 1
  /\ req.method \notin CameraOps \cup {Renewal} => req.cap = 0

\* camera_receipt answers a repeated operation here, without a message and
\* without a new task; a uuid4 is fresh.
CreateBegin(h, req, op) ==
  /\ At(h, "idle")
  /\ Admissible(req)
  /\ op \notin DOMAIN task
  /\ req.method \notin CameraOps =>
       \A g \in Handlers : At(g, "create") => handler[g].op # op
  /\ Goto(h, [pc |-> "create", req |-> req, op |-> op])
  /\ NoMessage
  /\ UNCHANGED <<now, store>>

NewRow(req) == [req |-> req, created |-> now, expires |-> Deadline(req),
                deleted |-> FALSE, status |-> READY, payload |-> "full"]

\* The row may be inserted: nobody else has created the operation meanwhile.
Creatable(op, req) == op \notin DOMAIN task

\* The advisory lock on the operation and the primary key make the existence
\* check and the three inserts one atomic step.
CreateCommit(h) ==
  /\ At(h, "create")
  /\ LET req == handler[h].req
         op  == handler[h].op
     IN  \/ /\ Creatable(op, req)
            /\ Deadline(req) <= Horizon
            /\ task' = [t \in DOMAIN task \cup {op} |->
                          IF t = op THEN NewRow(req) ELSE task[t]]
            /\ Goto(h, [pc |-> "tsk", task |-> op, req |-> req, created |-> now])
         \/ /\ ~Creatable(op, req)   \* the durable receipt: same id, same content
            /\ req.method \in CameraOps /\ task[op].req = req /\ ~task[op].deleted
            /\ Goto(h, [pc |-> "tsk", task |-> op, req |-> req,
                        created |-> task[op].created])
            /\ UNCHANGED task
         \/ /\ ~Creatable(op, req)   \* 409 camera_operation_conflict, or 503
            /\ ~(req.method \in CameraOps /\ task[op].req = req /\ ~task[op].deleted)
            /\ Goto(h, Idle)
            /\ UNCHANGED task
  /\ NoMessage
  /\ UNCHANGED <<now, results, nextRid, webhooks, billed>>

\* send_tsk: the broker drops the message when the TTL of the task is over.
SendTsk(h) ==
  /\ At(h, "tsk")
  /\ out' = [kind |-> "TSK", dev |-> handler[h].req.dev, task |-> handler[h].task,
             expiration |-> Max2(0, handler[h].created
                                      + Lifetime(handler[h].req.ttl) - now)]
  /\ Goto(h, Idle)
  /\ UNCHANGED <<now, store>>

-----------------------------------------------------------------------------
(* scrub_renewal_payload, delete_task and tasks_ttl_update *)

\* Mutant: the payload is scrubbed only by a deletion.
ScrubDeletedOnly(row) == IF row.req.method = Renewal /\ row.deleted
                         THEN [row EXCEPT !.payload = "scrubbed"] ELSE row

\* In the same transaction as the change that ends the task.
Scrub(row) == IF row.req.method = Renewal
              THEN [row EXCEPT !.payload = "scrubbed"] ELSE row

DeleteBegin(h, t) ==
  /\ At(h, "idle")
  /\ t \in DOMAIN task /\ ~task[t].deleted
  /\ Goto(h, [pc |-> "delete", task |-> t])
  /\ NoMessage
  /\ UNCHANGED <<now, store>>

DeletedRow(row) == Scrub([row EXCEPT !.deleted = TRUE, !.status = DELETED])

\* The existence check above took no lock: the update is unconditional.
DeleteCommit(h) ==
  /\ At(h, "delete")
  /\ task' = [task EXCEPT ![handler[h].task] = DeletedRow(@)]
  /\ Goto(h, Idle)
  /\ NoMessage
  /\ UNCHANGED <<now, results, nextRid, webhooks, billed>>

\* Mutant: a task that was handed out is not expired.
OverdueUnlessLocked(row) == row.status < LOCK /\ row.expires <= now

Overdue(row) == row.status < DONE /\ row.expires <= now

\* jobs_parse, at every tick of the scheduler of every worker.
TtlJob ==
  /\ \E t \in DOMAIN task : Overdue(task[t])
  /\ task' = [t \in DOMAIN task |->
                IF Overdue(task[t])
                THEN Scrub([task[t] EXCEPT !.status = EXPIRED]) ELSE task[t]]
  /\ NoMessage
  /\ UNCHANGED <<now, results, nextRid, webhooks, billed, handler>>

-----------------------------------------------------------------------------
(* ACK and REQ of a device: pending, select and task_status_update *)

\* The ACK names the task by its correlation id; another device's is ignored.
Ack(d, t) ==
  /\ t \in DOMAIN task /\ task[t].req.dev = d /\ ~task[t].deleted
  /\ task[t].status = READY /\ task[t].expires > now
  /\ task' = [task EXCEPT ![t].status = PENDING]
  /\ NoMessage
  /\ UNCHANGED <<now, results, nextRid, webhooks, billed, handler>>

\* _select_task_query: one SELECT, so status and payload are of one moment.
Selectable(d, limit) ==
  {t \in DOMAIN task : /\ task[t].req.dev = d /\ ~task[t].deleted
                       /\ task[t].status < DONE /\ task[t].expires > now
                       /\ task[t].req.method <= limit}

Capabilities == {7001, 7002, 7003, 7011, 7021, 7023} \cup 7030..7033

\* The method limits of a REQ: slave_ws and the rpc_methods header.
LegacyLimit(slaveWs) == IF slaveWs THEN 3999 ELSE 2999
TriggerLimit == 7099

\* select_next_task_by_sn: priority DESC, remaining minutes ASC, created ASC.
NotAfter(t, u) ==
  LET a == task[t]
      b == task[u]
  IN  \/ a.req.prio > b.req.prio
      \/ a.req.prio = b.req.prio /\ a.expires < b.expires
      \/ a.req.prio = b.req.prio /\ a.expires = b.expires /\ a.created <= b.created

First(S) == {t \in S : \A u \in S : NotAfter(t, u)}

\* A polling REQ (zero correlation id), with or without narrowed capabilities.
Pollable(d, slaveWs, narrowed) ==
  LET S == {t \in Selectable(d, IF narrowed = {} THEN LegacyLimit(slaveWs)
                                                 ELSE TriggerLimit) :
              task[t].req.ttl > 0}
  IN  First(IF narrowed = {} THEN S
            ELSE {t \in S : task[t].req.method \in narrowed})

Answer(h, d, candidates) ==
  \/ \E t \in candidates :
       /\ Goto(h, [pc |-> "claim", task |-> t, dev |-> d,
                   payload |-> task[t].payload])
       /\ NoMessage
  \/ /\ candidates = {}
     /\ out' = [kind |-> "NOP", dev |-> d]
     /\ UNCHANGED handler

ReqPoll(h, d, slaveWs, narrowed) ==
  /\ At(h, "idle")
  /\ Answer(h, d, Pollable(d, slaveWs, narrowed))
  /\ UNCHANGED <<now, store>>

ReqTrigger(h, d, t) ==
  /\ At(h, "idle")
  /\ Answer(h, d, {t} \cap Selectable(d, TriggerLimit))
  /\ UNCHANGED <<now, store>>

\* Mutant: the claim asks for the owner only.
ClaimableEnded(t, d) == task[t].req.dev = d /\ ~task[t].deleted

\* task_status_update(LOCK): the row of the sender's task is locked, then its
\* status is changed if the task has not ended since it was selected.
Claimable(t, d) == /\ task[t].req.dev = d /\ ~task[t].deleted
                   /\ task[t].status < DONE /\ task[t].expires > now

ReqClaim(h) ==
  /\ At(h, "claim")
  /\ LET t == handler[h].task
         d == handler[h].dev
     IN  \/ /\ Claimable(t, d)
            /\ task' = [task EXCEPT ![t].status = LOCK]
            /\ Goto(h, [pc |-> "rsp", task |-> t, dev |-> d,
                        payload |-> handler[h].payload])
            /\ NoMessage
         \/ /\ ~Claimable(t, d)
            /\ out' = [kind |-> "NOP", dev |-> d]
            /\ Goto(h, Idle)
            /\ UNCHANGED task
  /\ UNCHANGED <<now, results, nextRid, webhooks, billed>>

SendRsp(h) ==
  /\ At(h, "rsp")
  /\ out' = [kind |-> "RSP", dev |-> handler[h].dev, task |-> handler[h].task,
             payload |-> handler[h].payload]
  /\ Goto(h, Idle)
  /\ UNCHANGED <<now, store>>

-----------------------------------------------------------------------------
(* RES of a device: result, DeviceTasksService.save and record_result *)

\* received_at is stamped before the first await of the handler.
ResReceive(h, d, t, uid, content) ==
  /\ At(h, "idle")
  /\ Goto(h, [pc |-> "record", task |-> t, dev |-> d, uid |-> uid,
              content |-> content, recv |-> now])
  /\ NoMessage
  /\ UNCHANGED <<now, store>>

\* One logical result: the same uid, or without one the same content.
SameResult(row, t, uid, content) ==
  /\ row.task = t
  /\ row.uid = uid
  /\ uid = NoUid => row.content = content

Stored(t, uid, content) ==
  {r \in results : SameResult(r, t, uid, content)}

\* was_expired
Late(row, recv) == row.status = EXPIRED \/ (row.status < DONE /\ recv >= row.expires)

\* Mutant: the status is written whatever it was.
FinishedAgain(row, recv) ==
  [row EXCEPT !.status = IF Late(row, recv) THEN EXPIRED ELSE DONE]

Finished(row, recv) ==
  IF row.status >= DONE THEN row
  ELSE [row EXCEPT !.status = IF Late(row, recv) THEN EXPIRED ELSE DONE]

\* send_webhook
WantsWebhook(row, recv) ==
  /\ ~row.deleted /\ row.status # DELETED
  /\ ~Late(row, recv) \/ recv <= row.expires + Grace

\* StoredTaskResult: the row to confirm, and whether this delivery inserted it.
ReplyTo(h, row, isNew) ==
  Goto(h, [pc |-> "cmt", task |-> handler[h].task, dev |-> handler[h].dev,
           uid |-> handler[h].uid, content |-> handler[h].content,
           rid |-> row.rid, isNew |-> isNew])

\* The first SELECT of record_result joins the task to the sender's device.
Owns(d, t) == t \in DOMAIN task /\ task[t].req.dev = d

\* The task row, then the status row are locked: the whole is one step.
\* subscribed: the organisation of the device has an active webhook.
ResRecord(h, subscribed) ==
  /\ At(h, "record")
  /\ LET t    == handler[h].task
         seen == Stored(t, handler[h].uid, handler[h].content)
         recv == handler[h].recv
         row  == [rid |-> nextRid, task |-> t, uid |-> handler[h].uid,
                  content |-> handler[h].content, recv |-> recv]
     IN  \/ /\ ~Owns(handler[h].dev, t)   \* orphan, or another device's task
            /\ Goto(h, Idle)
            /\ UNCHANGED store
         \/ /\ Owns(handler[h].dev, t)
            /\ \E r \in seen : /\ \A q \in seen : r.rid <= q.rid
                             /\ ReplyTo(h, r, FALSE)
            /\ UNCHANGED store
         \/ /\ Owns(handler[h].dev, t)
            /\ seen = {}
            /\ nextRid <= MaxResults
            /\ results' = results \cup {row}
            /\ nextRid' = nextRid + 1
            /\ task' = [task EXCEPT ![t] = Scrub(Finished(@, recv))]
            /\ webhooks' = IF subscribed /\ WantsWebhook(task[t], recv)
                           THEN webhooks \cup {nextRid} ELSE webhooks
            /\ ReplyTo(h, row, TRUE)
            /\ UNCHANGED billed
  /\ NoMessage
  /\ UNCHANGED now

\* Mutant: a repeated delivery is billed as well.
AfterCmtBills(h) == [pc |-> "bill", rid |-> handler[h].rid]

\* save returns is_new, by which the consumer decides about billing.
AfterCmt(h) == IF handler[h].isNew THEN [pc |-> "bill", rid |-> handler[h].rid]
                                   ELSE Idle

\* send_cmt, from what was stored, whether now or by an earlier delivery
SendCmt(h) ==
  /\ At(h, "cmt")
  /\ out' = [kind |-> "CMT", dev |-> handler[h].dev, task |-> handler[h].task,
             uid |-> handler[h].uid, rid |-> handler[h].rid]
  /\ Goto(h, AfterCmt(h))
  /\ UNCHANGED <<now, store>>

BillRes(h) ==
  /\ At(h, "bill")
  /\ out' = [kind |-> "BILL", rid |-> handler[h].rid]
  /\ billed' = [billed EXCEPT ![handler[h].rid] = @ + 1]
  /\ Goto(h, Idle)
  /\ UNCHANGED <<now, task, results, nextRid, webhooks>>

-----------------------------------------------------------------------------

\* A failed transaction, publication or process: the rest is not done.
Fail(h) ==
  /\ ~At(h, "idle")
  /\ Goto(h, Idle)
  /\ NoMessage
  /\ UNCHANGED <<now, store>>

Tick ==
  /\ now < Horizon
  /\ now' = now + 1
  /\ NoMessage
  /\ UNCHANGED <<store, handler>>

Init ==
  /\ now = 0
  /\ task = [t \in {} |-> {}]
  /\ results = {} /\ nextRid = 1 /\ webhooks = {}
  /\ billed = [r \in 1..MaxResults |-> 0]
  /\ handler = [h \in Handlers |-> Idle]
  /\ out = Silence

Rest(h) ==
  \/ \E d \in Devices, m \in Methods, ttl \in Ttls, p \in Prios, cap \in 0..Horizon,
        op \in Tasks :
       CreateBegin(h, [dev |-> d, method |-> m, ttl |-> ttl, prio |-> p, cap |-> cap], op)
  \/ CreateCommit(h)
  \/ SendTsk(h)
  \/ \E t \in Tasks : DeleteBegin(h, t)
  \/ DeleteCommit(h)

Req(h) ==
  \/ \E d \in Devices, ws \in BOOLEAN,
        narrowed \in SUBSET (Methods \cap Capabilities) :
       ReqPoll(h, d, ws, narrowed)
  \/ \E d \in Devices, t \in Tasks : ReqTrigger(h, d, t)
  \/ ReqClaim(h)
  \/ SendRsp(h)

Res(h) ==
  \/ \E d \in Devices, t \in Tasks, uid \in Uids \cup {NoUid}, c \in Contents :
       ResReceive(h, d, t, uid, c)
  \/ \E subscribed \in BOOLEAN : ResRecord(h, subscribed)
  \/ SendCmt(h)
  \/ BillRes(h)

Next ==
  \/ Tick
  \/ TtlJob
  \/ \E d \in Devices, t \in Tasks : Ack(d, t)
  \/ \E h \in Handlers : Rest(h) \/ Req(h) \/ Res(h) \/ Fail(h)

Spec == Init /\ [][Next]_vars

\* Time passes and the scheduler keeps publishing the TTL job.
FairSpec == Spec /\ WF_vars(Tick) /\ WF_vars(TtlJob)

-----------------------------------------------------------------------------
(* Properties *)

\* Every row, message and local variable has its type; FAILED is never stored.
TypeOK ==
  /\ now \in 0..Horizon
  /\ DOMAIN task \subseteq Tasks
  /\ \A t \in DOMAIN task : task[t] \in TaskRow
  /\ results \subseteq ResultRow
  /\ nextRid \in 1..(MaxResults + 1)
  /\ webhooks \subseteq 1..MaxResults
  /\ billed \in [1..MaxResults -> Nat]
  /\ handler \in [Handlers -> HandlerState]
  /\ out \in Message

\* An operation id creates one task: whatever concurrent or repeated requests
\* name it, the stored request and its deadline stay those of the first.
RequestIsFinal ==
  [][\A t \in DOMAIN task :
       /\ t \in DOMAIN task'
       /\ task'[t].req = task[t].req
       /\ task'[t].created = task[t].created
       /\ task'[t].expires = task[t].expires]_vars

\* Once a deletion is committed nothing touches the task again, whatever
\* handler was under way, and none of its later results gets a webhook.
DeletedIsFinal ==
  [][\A t \in DOMAIN task : task[t].deleted =>
       /\ task'[t] = task[t]
       /\ \A r \in results' : r.task = t /\ r.rid \in webhooks' => r.rid \in webhooks]_vars

\* is_deleted and the DELETED status are written by two statements on two
\* tables; every other transaction sees them agree.
DeletionConsistent ==
  \A t \in DOMAIN task : task[t].deleted <=> task[t].status = DELETED

\* The payload of a certificate renewal is gone as soon as the task has ended,
\* whichever of result, deadline and deletion ended it, and never before; the
\* payload of another task is never touched.
SecretScrubbed ==
  \A t \in DOMAIN task :
    task[t].payload = "scrubbed" <=> task[t].req.method = Renewal /\ task[t].status >= DONE

\* DONE is reached only by a result received in time, EXPIRED only when the
\* deadline has passed.
StatusMatchesDeadline ==
  \A t \in DOMAIN task :
    /\ task[t].status = DONE =>
         \E r \in results : r.task = t /\ r.recv < task[t].expires
    /\ task[t].status = EXPIRED => task[t].expires <= now

\* An RSP goes to the owner of a task that was handed out, with the whole payload
\* the selection read.  RpcDispatch says when the task may have ended by then.
RspDeliverable ==
  out.kind = "RSP" =>
    /\ out.task \in DOMAIN task
    /\ task[out.task].req.dev = out.dev
    /\ task[out.task].status >= LOCK
    /\ out.payload = "full"

\* No device can finish a task of another one: each result came from the owner.
\* A CMT names a committed row of that task, and the row of that result_uid.
CmtNamesStoredResult ==
  out.kind = "CMT" =>
    \E r \in results : /\ r.rid = out.rid /\ r.task = out.task /\ r.uid = out.uid
                       /\ task[r.task].req.dev = out.dev

\* A logical result is stored once, so every redelivery confirms the same id.
OneRowPerResult ==
  \A r, q \in results :
    r.task = q.task /\ r.uid = q.uid /\ (r.uid = NoUid => r.content = q.content)
      => r = q

\* A webhook row belongs to a stored result that was still wanted: received in
\* the grace time at the latest, or after the task had been completed in time.
WebhookWanted ==
  \A w \in webhooks : \E r \in results :
    /\ r.rid = w
    /\ \/ r.recv <= task[r.task].expires + Grace
       \/ \E q \in results : /\ q.task = r.task /\ q.rid < r.rid
                             /\ q.recv < task[r.task].expires

\* Redelivery after a crash never counts a result twice; only stored results count.
BilledOnce ==
  \A i \in 1..MaxResults :
    /\ billed[i] <= 1
    /\ billed[i] = 1 => \E r \in results : r.rid = i

(***************************************************************************)
(* The invariants above are not inductive: they need what a handler still  *)
(* knows when it goes on after a cut.                                      *)
(***************************************************************************)

\* Ids are handed out in order, to results of existing tasks.
ResultsBacked ==
  \A r \in results : r.rid < nextRid /\ r.task \in DOMAIN task

\* What a handler carries over a cut is still covered by the tables: a claim
\* holds the payload of a live task, a claimed task is at least LOCK, a CMT to
\* be sent names a committed row, and no reception lies in the future.
HandlerBacked(h) ==
  LET s == handler[h]
      Owned == s.task \in DOMAIN task /\ task[s.task].req.dev = s.dev
  IN  /\ At(h, "claim") => Owned /\ s.payload = "full"
      /\ At(h, "rsp") => Owned /\ s.payload = "full" /\ task[s.task].status >= LOCK
      /\ At(h, "record") => s.recv <= now
      /\ At(h, "cmt") => /\ Owned
                         /\ \E r \in results :
                              r.rid = s.rid /\ r.task = s.task /\ r.uid = s.uid
      /\ At(h, "bill") => \E r \in results : r.rid = s.rid

HandlersBacked == \A h \in Handlers : HandlerBacked(h)

\* The handler that inserted a row is the only one that will bill it.
Owes(h, i) ==
  /\ (At(h, "cmt") /\ handler[h].isNew) \/ At(h, "bill")
  /\ handler[h].rid = i

BillingPending ==
  \A i \in 1..MaxResults : \A h \in Handlers :
    Owes(h, i) => billed[i] = 0 /\ \A g \in Handlers : Owes(g, i) => g = h

\* What the two rows of a task and its results say of it agrees, whichever of
\* result, deadline and deletion came first.
RowsConsistent == DeletionConsistent /\ SecretScrubbed /\ StatusMatchesDeadline

IndInv ==
  /\ TypeOK /\ RowsConsistent /\ ResultsBacked /\ OneRowPerResult /\ WebhookWanted
  /\ HandlersBacked /\ RspDeliverable /\ CmtNamesStoredResult
  /\ BillingPending /\ BilledOnce

\* A task never stays active for ever: the TTL job ends what nobody answered.
EveryTaskEnds ==
  \A t \in Tasks : (t \in DOMAIN task) ~> (t \in DOMAIN task /\ task[t].status >= DONE)

\* The store keeps the promise of TaskLifecycle: seen through its committed
\* rows, every step of every handler is a legal step of each task, or no step.
Shown(status) == CASE status < DONE    -> "active"
                   [] status = DONE    -> "done"
                   [] status = EXPIRED -> "expired"
                   [] status = DELETED -> "deleted"

PublicState == [t \in Tasks |-> IF t \in DOMAIN task THEN Shown(task[t].status)
                                                     ELSE "absent"]

Public == INSTANCE TaskLifecycle WITH
  ResultIds <- 1..MaxResults,
  state     <- PublicState,
  accepted  <- {<<r.rid, r.task>> : r \in results},
  notified  <- webhooks

Lifecycle == Public!Spec
=============================================================================
