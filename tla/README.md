# Formal models of the IoT RPC service

This directory holds TLA+ models of `src/app-service`, the service that hands
RPC tasks to devices over MQTT/AMQP, takes their results and events back over
REST, webhooks and feeds, and lets operators control a device remotely: input,
files, consoles, screen and camera. The models are translated from the code;
docs and comments are consulted only to state what the code is meant to do.
TLC checks every module on a small instance, TLAPS proves theorems about sixteen
of them for every value of their constants.

Sections: 1 the system, 2 the modules, 3 what TLC checks, 4 what is proved,
5 what is not modelled, 6 where code and documents differ, 7 the plan.

## 1. The system

One FastAPI application (`create_api_app.py`), run by several gunicorn workers
(`config.py:48` defaults to `2 * cpus + 1`; the deployment templates ask for
one, and remote input is meant for one, `create_api_app.py:301` warns
otherwise). Every worker runs REST routes, FastStream consumers of RabbitMQ
queues, a scheduler and some background loops, all coroutines of one event
loop. They share PostgreSQL, Redis and the broker. Concurrency therefore has two
layers: coroutines of a worker interleave at every `await`, and workers
interleave at every statement; transactions, row locks, unique indexes and
Redis `WATCH` are what limits it.

| Component | State it keeps | Operations | Hard behaviour | What makes it correct |
|---|---|---|---|---|
| RPC task store (`crud/dev_tasks_repo.py`, `services/device_tasks.py`, `services/device_task_processing.py`, `topologys/fs_queues.py`) | task, status, payload, result and webhook rows | create, delete, TTL job, ACK, REQ, RES, CMT | concurrent handlers, redelivery, deadlines, crash between commit and publication | a request is final, status follows deadline and results, a result is stored and billed once, secrets go with the task |
| Webhook delivery (`services/rpc_result_webhooks.py`) | one outbox row per accepted result | select due row, POST, commit the attempt | several workers, crash after the POST, slow receivers | no two workers post one row, backoff and expiry hold, every row is closed |
| Device event feed (`crud/dev_events_repo.py`) | events, one offset per device | store event, read incrementally | concurrent readers, ids that commit out of order | the offset never goes back, nothing is served twice or skipped |
| Remote input leases (`remote_input/leases.py`) | lease hash and active slot in Redis, copies per worker | acquire, touch, upgrade, revoke, get, cleanup, WebSocket marks | several workers, stale copies, key expiry | a device is not given away while a file worker may be busy, a released lease does not get the slot back |
| Remote input service, bridge, pending (`remote_input/service.py`, `mqtt_bridge.py`, `pending.py`) | sockets, commands awaiting replies | connect, click, reply, keepalive, release, clean up | late or repeated replies, lost sockets, crash | one socket per lease, what a client is told of a click is true |
| Presence (`remote_input/presence.py`) | last signals of a device, watch sockets | presence, last will, stream reports, inventory | rows written back after they were replaced, expiry | who is shown online was heard of lately |
| Lease requests (`remote_input/service.py`, `api/internal_v1/remote_input.py`) | none of its own | acquire, upgrade, keepalive, release, logout | requests of several sessions and terminals at once | a logout leaves no terminal behind |
| Runtime quality (`remote_input/runtime_quality.py`, `camera/quality.py`) | wish and report of the running stream | ask, publish, report, refuse | two tabs, late and repeated reports | "applied" means what was asked for last |
| Video control (`remote_input/video_control.py`) | video document, stream fields of the lease | start, acknowledge, stop, clean up | late START, stale reports, crash | one publisher, a stream without owner stops |
| Camera runtime (`camera/runtime*.py`) | authority row of a terminal, outbox | takeover, enrollment, readiness, start, renew, stop | two issuers, crashes, messages late or twice | numbers are used once, starts are admitted by the terminal, a stop is the last word of its attempt |
| Camera control and media clock (`camera/control.py`, `camera/media_clock.py`) | camera record, lease field, deadline | start, report, stop, reconcile, export, renew | transactions on two keys, late ACK, long waits | no stream revives, none is orphaned, no deadline is made up |
| Remote session events (`services/remote_session_event_service.py`) | session rows, feed, commands in memory | create, start, stop, commands, heartbeats | rivals in two workers, waits inside transactions | one active session, each transition reported once and in order |
| Device registry, connections, broker administration (`services/devices.py`, `crud/device_repo.py`, `integrations/rmq_admin_api.py`) | connection row, broker users and sockets | connection events, reconciliation, block, restore | events out of order, failed calls, shared serial numbers | a block stays and cuts off, the row converges to the broker |
| Provisioning (`services/device_provisioning_service.py`, `org_reservation.py`, `provisioning.py`) | devices, organisations, keys | provision by operation id, bulk, reserve, key | retries, races of processes | an operation id means one thing |
| Inventory delivery (`services/terminal_inventory_delivery.py`) | a second outbox | enqueue, deliver, replay, clean up | several workers, rebinding, failed commits | every row is finished |
| Archive (`archive/*.py`) | batches, directories, rows of a month | export, verify, promote, purge, resume | crash between steps, two cycles | what the exporter reads of a record is in the tables or in a directory |
| Diagnostics sessions (`diagnostics/*.py`) | sessions per device | open, stop, cancel, revoke | a client that leaves, failed sends, chunks late or twice | what the end of the socket has listed is stopped |
| Billing (`services/billing*.py`, `crud/billing_repo.py`) | counters, active devices, coefficients, results | count events, calculate a month, change coefficients | counting and calculating at once, months that end meanwhile | a result is what coefficients, devices and counters give |
| Contract adapter, postamat, pages, MCP server, desktop service, emulator | none, or plain CRUD | | | |

How they meet. Tables, Redis keys and messages are the interfaces. A result of
the task store inserts a row of the webhook outbox, an event 75 a row of the
inventory outbox, in the same transaction. A lease is the authority for input
sockets, video, camera and diagnostics: its revocation ends them. The camera
runtime is asked for commands by camera control. Sessions, tasks and events are
what the archive deletes. Hazards, with the line where each one bites and the
properties that would catch it, are listed in `PROJECT.json`.

## 2. Modules

| Module | What it is | Proofs |
|---|---|---|
| `RpcTasks`, `RpcDispatch`, `TaskLifecycle` | the task store with every handler that changes it; the same with a history of the tasks that ended under a handler; what it promises to clients, devices and receivers | `RpcTasksProofs` |
| `WebhookDelivery`, `AtLeastOnce` | the outbox of RPC results and its loops; what an outbox promises to its receiver | `WebhookDeliveryProofs` |
| `EventFeed` | intake of device events and the incremental feed | `EventFeedProofs` |
| `LeaseRegistry` | the leases of one serial number in Redis and in the copies of the workers | `ComponentsProofs` |
| `InputSocket` | socket, HTTP requests, clicks and replies of one lease | `InputSocketProofs` |
| `VideoStream` | the publisher of one serial number, contracts v1 and v2 | `RemoteSessionsProofs` |
| `CameraIssuer` | the authority row of one terminal and the issuers that fight for it | `CameraIssuerProofs` |
| `CameraControl` | record, lease field and commands of a camera stream | |
| `MediaClock` | the deadline of a camera's media | `ComponentsProofs` |
| `RemoteSessions` | the sessions of one serial number and their feed | `RemoteSessionsProofs` |
| `DeviceConnections` | sockets, broker user and connection row of one serial number | |
| `Provisioning` | devices, organisations and keys come into being | `ComponentsProofs` |
| `InventoryDelivery` | the second outbox | |
| `ArchiveCycle` | the archive of one month | `ArchiveCycleProofs` |
| `LeaseService` | the requests for leases of several terminals, and logout | `WebhookDeliveryProofs` |
| `InputRelay` | one accepted input socket: moves, commands, what is sent | `ComponentsProofs` |
| `Presence` | what is known of one agent, and the watch socket | `ComponentsProofs` |
| `Quality` | the quality of a running stream, desktop and camera | `ComponentsProofs` |
| `Diagnostics` | the diagnostics socket of one device | |
| `Billing` | counters, coefficients and monthly results | `ComponentsProofs` |
| `MC*` | instances for TLC; `MCServices`, `MCSeparate` and `MCComponents` compose modules that have no run of their own | |

Three modules run several components each: `MCServices` runs `VideoStream`,
`InventoryDelivery` and `CameraControl` for their liveness, `MCSeparate` runs
`CameraIssuer`, `ArchiveCycle` and `Diagnostics`, and `MCComponents` runs
`LeaseRegistry`, `Provisioning`, `MediaClock` and the five modules from `LeaseService`
to `Quality` with `Billing`, for their safety. A behaviour is about one of them,
chosen at its start, because they share no state; each is explored completely. Their
variables and actions are named apart for this. What two of them have in
common is put into each of them as far as it matters there (a lease may end at
any moment, a stream is replaced by another).

### Conventions

- An action is one transaction, one Redis command or one message; a handler is a
  record `[pc, locals]`, and it is cut where the code awaits something that
  others can see. `Fail`, `Crash`, `Drop`, `Rollback`, `Lose` and `Restart`
  abandon a handler at a cut.
- Queues are not state unless their order matters. A device may send any message
  for any task at any time, which includes loss, repetition and reordering; where
  what was sent matters (`CameraIssuer`, `VideoStream`), a set keeps all that was
  ever published and any element of it may arrive at any time and again.
- Bounds are constants named `Max...`, `Horizon` or the size of a set; the guards
  that use them name them. Nothing else is bounded.
- An operator marked `Mutant` is a plausible wrong form of the one that follows.
  It is not used; replacing the right form by it makes a property fail, which
  shows that the property depends on that line of code.

### RpcTasks

| Actions | Code |
|---|---|
| `CreateBegin`, `CreateCommit`, `SendTsk` | `DeviceTasksService.create`, `TasksRepository.create_task`, `send_tsk`; a camera operation id is a primary key and makes creation idempotent |
| `DeleteBegin`, `DeleteCommit` | `delete_task`: check without a lock, update later |
| `TtlJob` | `tasks_ttl_update`: one statement over all overdue rows, with the scrubbing |
| `Ack` | `task_status_update(PENDING)` of an ACK |
| `ReqPoll`, `ReqTrigger`, `ReqClaim`, `SendRsp` | `select`: the query, the claim in a later transaction, the publication (RSP or NOP) |
| `ResReceive`, `ResRecord`, `SendCmt`, `BillRes` | `save`: reception is stamped, then row locks, deduplication, status, scrubbing and webhook row in one transaction, then CMT, then billing |
| `Fail`, `Tick` | a handler dies; time passes |

`task` holds for each id the columns of the task, status and payload tables that
the properties can tell apart. A result is `(uid, content)`; `content` stands for
`ext_id`, `status_code` and `result`. `recv` is not a column of the result
table: it is kept with the row so that properties can name it.
`cap` stands for both `pin_expires_at` and `expires_at_ms`. `RpcTasks` inserts
the ids of `webhooks` in the transaction of a result; `WebhookDelivery!Enqueue`
is the same insertion seen from the outbox, with every order and time of
insertion. `RpcDispatch` adds `overtaken`: for each task that has ended, the
handlers that had claimed it before and have still to publish its RSP. It tells an
end before the claim, which the claim must notice, from one after it, which cannot
call the message back.

### WebhookDelivery

A row is `[attempts, next, expires, finished, error]`. `Discard` finishes a row
that is expired or has no active subscription, `Select` locks a due row (`FOR
UPDATE SKIP LOCKED` is `Eligible`, the rows no other worker holds), `Arrive` is
the receiver getting the POST, `Answer` what the worker learns of it (`ok`,
`retryable`, `refused` or `unsendable`; a timeout is `retryable` whether or not the
POST has arrived, and `unsendable` is an error before anything was sent, such as a URL
that httpx rejects, which closes the row as a refusal does), `Commit` the outcome. The lock lasts from `Select` to `Commit`.

### EventFeed

An EVT handler inserts (the serial is taken, the row is not visible), commits,
publishes the webhook message and answers EVA. A request opens a transaction and
locks the offset rows that exist, reads a page, upserts the offsets of the
devices on it and commits. A request with `last_event_id` filters by it and not
by the offset (the comment at `dev_events_repo.py:242` mentions the greater of
the two), but moves the offset all the same. The client may name any id, also one it was
never given; `waived` remembers what such a request passes over (`Skipped`). `Known` are the devices that have
an offset row from the start; only for these is a page handed out once, since
`FOR UPDATE` locks nothing for the first request of a device (section 6).

### LeaseRegistry

One serial number is modelled, because every key belongs to one. `slot` is
`l4d:lease:active:<sn>`, `hash` the lease hashes, `cache` the dictionaries of
the workers; `slot` and `hash` carry the time at which the key expires. `WATCH`
is a flag of a call: it becomes dirty when a watched key is written or expires,
as in Redis 6.0.9 and later (the deployment uses 7.4). `deadline` and `stopped`
are not in the code: they record until when the file worker of a lease may go
on, so that `FilesGuarded` does not rest on the hash that the code may lose; `released`
is the history of the leases that a revocation has ended, which no stale copy clears. One
unit of time is about 30 s: `Grace` is 30 s, `Floor` 60 s and `Ttl` 5 s to an hour
in the code (60 s by default), `Guard` is 5 s and rounded up. `Slow` lets a call
take longer than a unit between two commands.

### InputSocket

One lease of contract v1 and scope input, in one worker. That it has a socket is
marked in the hash (`hash.ws`), in the copy (`copy.ws`) and in
`_active_ws_leases` (`marked`), one after the other and by different handlers.
A client makes a WebSocket connection (`Connect`, then the steps of `Step`:
admission, marking, subscription to revocations, the receive loop, the end) or
one HTTP request. `SubscribeFails` is an error between the mark and the `try`, which
leaves the mark set. A click has an `entry` in the registry of pending replies and
a `future` its handler waits for; `agent` is what became of the command, `answer`
what the client was told. `Loop` is the clean-up loop, `Overdue`, `SlotExpires`
and `Age` are time, `Crash` loses everything but Redis.

### VideoStream

`doc` is the video document of the serial number with the publisher epoch, `lease`
the hashes with the stream they name, `current` the active key, `owner` the claim
keys, `ctl` the commands on their way to the agent, `up` all it ever said. A
coroutine is the list of the steps it still has to do (`proc[p].todo`), each a
transaction or a publication. `Clean` is the clean-up loop; a crash empties every
list. Whether a camera stream is live, for which a v1 start is refused, is decided
freely, since the camera part of the document is in `CameraControl`.

### CameraIssuer

`row` is what a transaction of `runtime_store.py` reads and commits; the
transitions of `CameraMachine` are operators on it (`Incoming`, `Start`, `Renew`,
`Stop`, `Install`, ...), and `Pump` applies one to the head of the inbox and
commits it with the outbox. `Takeover` raises the generation; the epoch uuid drawn
with it is identified with the generation, and a nonce with its query. `Flush`
publishes one entry of the outbox; `down` and `up` keep all that was published.
The terminal is external: it follows `docs/camera-boot-issuer-enrollment.md`. A
pump of up to 16 jobs is a sequence of pumps of one job.

### CameraControl and MediaClock

`CameraControl`: `record` is the camera part of the document, `on` the
`stream_instance_id` of each lease, `active` the active key. `Begin` and `Start`
are a request to start, cut at Reserve, START and Save; `StopRead` and `Stop`, `EventRead`
and `Report`, and `Loop` (reconcile) work on the two keys in transactions of
their own. `MediaClock`: a request reads the hash (`ReadHash`), the active key
(`ReadActive`), the clock (`Sample`) and commits under WATCH (`Exec`) beside a
plain renewal, a revocation and time; an `EXPIRE` makes a WATCH fail too
(Redis 6.0.9 and later).

### RemoteSessions

A request is a transaction (`tx`) with the writes and events it has not committed
yet; `pc` says where it waits: for the in-memory lock of the serial number
(`lock`), for a row (`evict`, `start`, `wait`), for the unique index over active
sessions (`insert`), for a command in flight (`command`) or for nothing
(`commit`). Cursors are drawn from a sequence when an event is added and become
visible with the commit. `Crash` restarts a worker with its locks and commands. The
events of a start or stop are recorded under the session's own operation id; that a
request may name another one is left out.

### DeviceConnections, Provisioning, InventoryDelivery

`DeviceConnections`: `sockets` and `user` are the broker's, `row` the connection
row, `events` the messages not yet handled; each handler reads, calls the
management API and writes later. Two devices may share the serial number.
A creation event is handled by `Fetch`, which asks the broker for the details of
the socket, and `Judge`, which looks for clones and decides on the row it reads.
`Provisioning`: `Check` is the look before the insertion, `StoreDevice` the insertion
with the look after a lost race; the bulk upsert, the reservation under the
advisory lock and the keys go by themselves. `InventoryDelivery`: `due` is the
order in which `deliver_one` finds rows, `posting` the row a worker has locked,
`boot` and `page` the replay at the start; the owner of a device stands for
(organisation, serial number).

### ArchiveCycle

`rows` are the records of the month in the tables, `batch` the register, `dir` the
directories, which no rollback touches. A cycle goes through the steps of
`pipeline.py` (guards, export to staging, verification, promotion, the second
look at the guards, deletion by chunks, manifest), called by the API, which rolls
a failed cycle back, or by the script, which commits. `Abort` and `BadWrite` fail
it at any step. `details` are the payloads, statuses and results of the tasks: the
purge deletes them with their task, the export never reads them.

### LeaseService

`slots`, `leases` and `copies` are `slot`, `hash` and `copy` of `LeaseRegistry` for
several terminals and one worker, without a clock: `Lapse` ends a lease at any moment. A request is
`[op, step, ...]`. `AcquireLease`, `UpgradeLease`, `Keepalive`, `Release` and `Logout`
are admitted by role, scope and owner, then go through the calls of the registry:
`ReadToAcquire`, `ReadToTouch` and `ExecWrites` under WATCH, `UpgradePut` without,
`ReadToRevoke`, `LookAtKey`, `RevokeLease`, `Revoked`. `get` writes the copy over the hash (`Gets`).
`Logout` is `release_by_owner`: the active keys are listed (`ScanSlot`), their
leases got (`ScanGet`) and revoked one by one.

### InputRelay

One socket that was accepted. `Move` puts a move into the queue of one, where it
replaces the one that waits; `TakeMove`, `CheckMove` and `PublishMove` are
`pointer_move_worker`. `Command` is a wheel, a drag, a key or a shortcut, done in the
receive loop. `bucket` are the token buckets of `rate_limit.py`. What the browser
is told goes through `outgoing` and `SendNext`; `TellRevoked` appends `lease_revoked`
and the end of the sender. Clicks and their replies are in `InputSocket`.

### Presence

`key` is the hash of a device's presence with its time to live (`life`), `stream`
the key of its stream, `listed` that of its inventory. Messages are handled side by
side, each command to Redis is a step: `ReadPresence` drops an old last will,
`WriteRow` and `ExpireKey` store a row, `ReRead` and `ReWrite` put a stream event or an
inventory into the row that was read. `MakeView` computes what watchers are told.
The watch socket subscribes, reads a snapshot and then passes on each view.

### Quality

`report` and `pending` are the two fields of the video document, changed in
transactions (`Reserve`, `MarkFailed`, `Accept`, `Reply`). `Authorize` is what a request
reads before. For cameras the command goes to the issuer as a job (`Issue`), for
desktops straight to the broker. The agent (`Carry`, `Report`) is external and its
messages may arrive at any time and again. A camera's report is compared with the
target that was asked for whatever its status, a desktop's (version 2) with the raster
step when it says "applied" (`Fits`).

### Diagnostics

A session is an object with an identifier, which the browser may choose and choose
again. `local` says which object an identifier names in the worker's registry (a
session, or one `restored` from Redis), `object` is what a forwarder holds, `stored` the
key in Redis, `forwarders` the list of forwarders by identifier. The loop of the socket
starts a session (`Register`, `StoreSession`, `StartTask`) and stops or cancels it
(`StopSession`, `MarkStored`, `EndTask`, `Delete`). When the browser leaves
(`BrowserLeaves`), it lists the forwarders (`ListForwarders`), cancels them all and
closes their sessions one after the other (`CloseSession`, or `CloseRemoved` for one
that is no longer registered). A forwarder whose send fails removes its session
and itself (`ForwardFails`). Output of the device goes to the session that is found
(`Output`) or restored (`ReadStored`, `Restore`); for a restored session no task is
sent (`Marks`). `abandoned` is the history of the sessions that the socket does not
close.

### Billing

A month `m` begins on date `2 * m`. A consumer takes an event and records activity
and counter in one transaction, each with its own `date.today()`
(`RecordActivity`, `Count`, `Commit`). A calculation reads coefficients,
organisations, devices and counter one after the other and saves by columns, so what
is counted meanwhile stays. A change of coefficients looks at what is in force and
writes later. `version` counts the changes of what a month is billed by; it is not
in the code.

## 3. What TLC checks

Each run but the last three ends without an error, and every action of every module
takes place in one of them. Each property of theirs has a mutant of the code that
breaks it. The last three check a sentence of the documents that the code does not
keep, and end with a counterexample.

| Run | Instance | Properties and what they say |
|---|---|---|
| `rpc_tasks` | 1 task, 2 devices, 2 handlers, a camera method and the renewal of a certificate, 1 result row, 2 minutes | `RowsConsistent`: status, result, deletion and scrubbing agree; `DispatchedUnended`: no task that ended before its claim is handed out, and only whole and to its own device; `BilledOnce`; `Lifecycle`: `TaskLifecycle` is implemented; `EveryTaskEnds` |
| `webhook_delivery` | 2 workers, 2 results, delays 1 and 2, 1 crash | `BackoffKept`; `Outbox`: `AtLeastOnce` is implemented; `EveryItemCloses` |
| `event_feed` | 2 handlers, a numbered event of a device without an offset and unnumbered events of one that has it, 2 shared readers and 1 with any `last_event_id`, pages of 1 or 2, 2 ids | `StoredOnce`: one row, one webhook message, confirmed only when stored; `HandedOnce`; `NothingSkipped`: an offset passes over late commits and over what a client skips itself, and nothing else |
| `components` | the eight modules of `MCComponents`, one at a time, with the sizes given below | `ReleasedFreesSlot`: a lease that was released never holds the slot again; `LogoutFreesTerminals`; `LastMoveSettled`; `OnlineMeansHeard`; `AppliedIsAsked`; `ResultTrue`; `OneMeaning`: answers under one operation id agree; `DeadlineHonest` |
| `input_socket` | 2 clients, each with a socket or an HTTP release, 2 clicks, 1 pending reply at most, 1 crash | `OneSocket`; `AnswersTrue`: no click is reported that was not made; `KeepaliveRefused`: a keepalive that the end of its lease overtakes ends the socket; `PendingDrains`: no click stays in the registry of replies |
| `remote_sessions` | 3 requests in 2 workers, 2 operations (console with auto start, video), 2 sessions, 1 command, 1 restart | `OneActive`; `LifecycleOnce`; `FeedInOrder`; `RequestsEnd` |
| `device_connections` | 1 worker, a device and its clone, 2 sockets, 1 failed call, 1 provisioning request or restart | `BlockedIsCutOff`: a blocked device does not stay connected; `StatusConverges` |
| `services` | the three modules of `MCServices`, one at a time, with the sizes given below | `OnePublisher`; `RetiredStops`: a stream nobody owns is stopped; `EveryRowFinishes`; `OrphanRetired`: a camera stream nobody owns is retired |
| `separate` | the three modules of `MCSeparate`, one at a time, with the sizes given below | `SeqUnique`: no number is used twice; `StartsAnswered`; `NotBehind`: the counter is not behind the terminal; `StopIsLast`; `NothingLost`: a record that was deleted is in a directory; `PurgeSettled`: no open session, no event before its consumers have it; `StoppedWhenLeft`: the device is asked to end what the end of the socket has listed |
| `one_lease` | 1 stream lease after the other, up to 3, 2 calls in 2 workers | violates `OneLease` (one active lease per terminal) |
| `files_guard` | 2 files leases, 2 calls in 2 workers, the times of the code in units of 5 s | violates `FilesGuarded` (nobody else is given the device before the guard of a busy lease has passed) |
| `diagnostics` | 2 sessions, 1 failed send | violates `EndedOnDisconnect` (every session is stopped when the browser closes) |

Why the bounds are enough.

- Two handlers suffice for every race of the task store, since each pair of
  transactions is ordered by row locks; two minutes hold a deadline and the grace
  time. With a camera method two requests under one operation id meet between the look
  at the receipt and the insertion. Tasks do not share rows, and the theorems cover
  any number of tasks, handlers, rows and minutes.
- Two delays give three attempts: the first, a middle one and the last without
  a delay of its own. Two rows make `SKIP LOCKED` choose. One crash separates a
  POST from its commit; further crashes repeat that.
- Two ids let an event be committed after a reader has passed it, or be named by a
  client that never got it, on either of the two devices, one with and one without an
  offset row; both handlers may hold an uncommitted id at once.
- `files_guard` takes the times of the code (60 s, guard 5 s, grace 30 s, floor 60 s)
  and needs two calls: a release that has read the lease before a renewal commits.
  `one_lease` needs three leases: one revoked twice, one whose slot is deleted and one
  given beside it.
- Two clicks and room for one pending reply let a click find the registry full;
  two clients meet at every mark of the socket; a crash is what separates the
  marks for longer than one step.
- Two leases and two coroutines beside the loop let a start and a stop, or two
  starts, meet in the middle of each other; three streams let each contract
  replace the other.
- `separate`. Issuers: two issuers, two boots, two bindings, two enrollments, two
  generations and four events are the least with which an exchange, a query or a job can
  be of an older one; three numbers allow a commit floor, a query and one more. The
  theorems cover all sizes. Archive: two cycles and two batches let one resume, repeat or
  race the other; a session event, a task with details and another record, and chunks of
  one, let deletions of two cycles block each other. Diagnostics: two sessions that are
  closed one after the other or share an identifier, two identifiers, one handler of
  output, one failure or revocation.
- Two sessions and three requests let a rival be created, evicted and stopped
  while a command runs; one restart loses the locks of a worker.
- `services`, besides the streams: two workers, two reports and one rebinding; two starts,
  one stop, two streams and one crash.
- `components`. Registry: two leases, files or stream, and two calls in two workers
  that may stall, so that a lease is revoked twice, renewed while it is revoked, or
  written back from a stale copy after the next one was given; a lease lasts one unit
  and the run two, so the slot may outlive the hash and the sweep happens. Presence:
  two messages at once out of three presences (one of them a last will), two stream
  events and an inventory, so that each may be written over the other; one failure.
  Relay: two moves, of which the second replaces the first or overtakes nothing, two
  commands, a bucket of one token, one event, one failure. Lease service: two
  terminals, a user and a viewer, two requests at once and three in all, two leases,
  one failure. An instance with four requests and two scopes (12 million states) was
  run once without an error. Billing: one event that may be delivered twice, three
  months, two changes to a price that is not the default one, one calculation; an
  instance with a second price was run once without an error. Quality: two tabs, two
  targets, two streams, two wishes, two reports, one failure. Provisioning: two
  handlers, two operations and three payloads that collide in serial number or device,
  beside a bulk row, a key and two reservations. Media clock: two requests, two tries,
  three calls and four units of time.

### Fairness

Safety properties are checked without fairness. The liveness properties assume

- `RpcTasks`: time passes (`Tick`), and the TTL job keeps running (`TtlJob`):
  `fs_queues.py` schedules it every minute by a broker schedule, and a lost run
  is followed by the next. Nothing is assumed of devices, clients or handlers.
- `WebhookDelivery`: time passes, and each worker keeps doing what it can:
  `delivery_loop` catches every exception and sleeps between attempts for as long
  as the process runs. Crashes are bounded: a worker that fails for ever
  delivers nothing. The receiver owes nothing, because a POST ends after
  `Timeout`. `InventoryDelivery` is alike, with the thirty days of a row.
- `DeviceConnections`: handlers go on, requests go on, and the scheduler repeats
  the reconciliation.
- `RemoteSessions`: a request that can go on does so; the wait of a stop has a
  timeout.
- `VideoStream`: coroutines are scheduled, the clean-up loop runs every second,
  and the broker delivers what it does not lose. `CameraControl`: the loop runs.
- `InputSocket`: the loop, the handlers and the timers run (weak fairness). Nothing is
  assumed of the clients: a client that is silent is served on (section 6), and what is
  promised begins with a keepalive that was received or a click that was registered.

`EventFeed`, `LeaseRegistry`, `CameraIssuer`, `ArchiveCycle`, `Provisioning`,
`MediaClock`, `Presence`, `Diagnostics`, `InputRelay`, `LeaseService`, `Billing` and
`Quality` have safety properties only. `CHECK_DEADLOCK FALSE` stands where the system may
really stop: all bounded requests are done, a lease has ended, or every issuer
has crashed.

## 4. What is proved

Eight modules hold theorems, each about all values of the constants that satisfy
the assumption of its module (sets may be infinite or empty unless it says
otherwise). Every proof has the same outline: an inductive invariant,
usually called `IndInv`, which TLC has checked on the run first; lemmas for
`Init` and for each action; and theorems that follow from it. An invariant of a
run is seldom inductive as it stands. What had to be added is named below; it
is the reason why the property holds.

| Module | Theorems of run properties | Further theorems |
|---|---|---|
| `RpcTasksProofs` | `RowsAgree`, `NothingEndedIsDispatched`, `BillingIsExact`, `Refinement` | `TypeCorrect`, `Invariant`, `SecretIsScrubbed`, `DeletionIsConsistent`, `StatusIsJustified`, `ResultsAreUnique`, `WebhooksAreWanted`, `ConfirmationsAreBacked`, `RequestsAreFinal`, `DeletionsAreFinal` |
| `WebhookDeliveryProofs` | `BackoffIsKept`, `OutboxImplemented`, `LogoutFreesAll` | `TypeCorrect`, `DeliveryInvariant`, `LogoutInvariant`, `OneWorker`, `ClosedIsJustified`, `DuplicatesAreExplained`, `ClosedRowsAreFinal` |
| `EventFeedProofs` | `EventStoredOnce`, `EventHandedOnce`, `OffsetSkipsNothing` | `TypeCorrect`, `OffsetMovesForward` |
| `ComponentsProofs` | `ReleaseIsFinal`, `DeadlineIsHonest`, `OperationMeansOneThing`, `AppliedWasAsked`, `LastMoveIsSettled`, `OnlineWasHeard`, `ResultsAreTrue` | `TypeCorrect`, `Invariant`, `ClockInvariant`, `QualityInvariant`, `MovesAccounted`, `PresenceInvariant`, `BillingInvariant` |
| `InputSocketProofs` | `SecondSocketRefused`, `RepliesAreTrue` | `TypeCorrect` |
| `CameraIssuerProofs` | `NumbersOnce`, `StartsAdmitted`, `NeverBehind`, `StopEndsAttempt` | `TypeCorrect`, `EnrollmentProved`, `OutboxActive`, `BootsRetire` |
| `RemoteSessionsProofs` | `OneActiveSession`, `TransitionReportedOnce`, `FeedOfSessionInOrder`, `OnePublisherOnly` | `TypeCorrect`, `PublisherInvariant` |
| `ArchiveCycleProofs` | `ArchiveKeepsAll`, `PurgeIsSettled` | `TypeCorrect` |

### RpcTasks

The invariants about rows are inductive only together with what a handler still
holds when it goes on after a cut, so `IndInv` adds

- `HandlersBacked`: a claim holds the full payload of a row whose device is the
  caller's, a handler about to send RSP has its task at LOCK or beyond, a handler
  about to send CMT or to bill names a committed row;
- `ResultsBacked`: ids of rows lie below the serial, and their tasks exist;
- `BillingPending`: the handler that inserted a row is the only one that will
  bill it, and it has not been billed yet. Without it `BilledOnce` says nothing
  about the handler that is about to bill.

The proof of the step has one lemma per group of conjuncts: `RowStep` lists the
ways in which one row can change, and `RowMonotone`, `RowsStep`,
`ResultsStep` and `WebhookStep` work from that list and not from the actions;
`HandlersStep`, `MessagesStep` and `BillingStep` go by action. The action
properties follow from the same list. The refinement maps each action to the
one abstract action it performs on the committed rows (`PublicCreate`,
`PublicDelete`, `PublicExpire`, `PublicAccept`), or to a stutter
(`PublicKept`).

*No ended task is dispatched* is proved of `RpcDispatch`: the history names exactly the
tasks that have ended (`HistoryExact`). A claim takes only a task of the sender that is
below DONE, not deleted and not overdue, so it claims none of these; a task that is claimed and ends before the RSP is
published enters the history together with the handlers that hold it. The device, the
payload and the lock of the claim come from `HandlersBacked`.

### WebhookDelivery

What is stored of a row is true of it only because the worker that holds it is
alone and knows the following, which `DeliveryInv` adds:

- `RowsBacked`: an open row has an attempt left, so the attempt under way is not
  one too many; ids at or above the serial have not been sent;
- `AnswersBacked`: a worker with an answer of the receiver has sent the result,
  so the outcome it will commit is justified;
- `ArrivalsCounted`: `DuplicatesExplained` allows one arrival for a row that is
  held; it is inductive only if that one is allowed from the arrival on (`Sent`)
  and not from the selection;
- a row is closed for a reason (`ClosedForAReason`): what was refused has arrived. It
  is not so for `unsendable`, which is why that is an answer of its own;
- `AttemptsSpaced`: `next` is the end of the delay, or the expiry if that comes
  first; a row is selected before its expiry, so the delay is over then.

There is one lemma per action. `WorkerStep` treats what the steps of a worker that
change no row have in common, `CommittedAttempt` says what a commit makes of a row,
for the invariant and for the refinement. The refinement maps insertion,
arrival, the closing of a row and the removal of the subscription to `Offer`,
`Arrive`, `Close` and `Forget`, the other steps to stutters.

### EventFeed

Two halves that share only the ids. Intake (`IntakeInv`): an id is given once and
is not visible before its commit (`Serials`); of a numbered event one transaction
is under way or one row is there, one handler publishes it, and EVA is answered
by handlers that know of the row (`OneRow`). The unique index is what serialises
them. Feed (`FeedInv`): rows that are locked are locked by one request (`Locks`);
what a request has read of a locked offset is still so (`Based`), so it moves the
offset forward (`Moves`) and, if it is a shared reader, beyond everything on its
page (`Fresh`); up to each id of a page nothing is missing but what was given
before, committed late, or passed over because the client named an id it had not been
given (`Complete`, with `Skipped` before and `waived` after the return). `Handed` and `Cursors` are what remains
when the request is over. The only induction needed, a least id of a page, goes
through `NatMinimum`. `HandedOnce` and `OffsetNeverBack` speak of devices in
`Known`; what happens to a first request is in section 6.

### LeaseRegistry

*A release frees the slot.* A stale copy may be written back over the hash at any
time; why is this harmless? `IndInv` says: a copy that says "released" or
"revoked" is of a lease that the slot does not name (`Fine`), and will never be
named again, since a lease number is never given out twice and a transaction
that sets the slot to an existing lease has watched the slot since it read that
lease in it (`Sound`). Copies of one lease agree on whether it is a files lease.

`ReleasedFreesSlot` does not read the flags of the hash, which a stale copy clears, but
the history of the leases that were ended. It follows from two facts about any
step: a lease that does not hold the slot does not get it (`SlotLeaves`), and what a
step ends does not hold it afterwards (`EndsFree`). Nothing is proved of what the
slot protects: a second revocation may delete the slot of the next lease, and a hash may
expire before a files lease is safe. The runs `one_lease` and `files_guard` show both.

### InputSocket

Of the three marks only one carries the proof: `Marks` says that a socket that is
served is in `_active_ws_leases`, alone, as long as the lease has its slot, and
that a revocation empties the set only after the slot is gone. The copy and the
hash may say anything. For replies: a click that is not published is in the hands
of one handler and was never sent (`Replies`), and the entry is resolved only by
what the agent did. `Paths` says which client can be where, `Copied` that a
handler that has read the lease has left a copy.

### VideoStream

What a coroutine still has to do is in order (`Todos`): each step of a start comes
right behind the one it waits for, for the same stream, and a v1 start ends with
the release of its token; so a step is reached only from the one before it. No two
coroutines start the same v1 stream (`Apart`), and the one past its checks holds the
token, while no epoch is live (`Tokens`): `Reserve` looks at the token, `Check` at
the epoch, and each has taken its own before. This makes the first half of
`OnePublisher` inductive. For the second, one lease at most is live (`OneLease`);
between `Reserve` and `Save` a lease may still record a v1 stream, and from `Save`
on, which is before START, it does not, nor does another live one (`Epochs`, which
therefore speaks of `Saved`, not of `sent`). Most steps only put plain steps
in front of a list, and share one lemma (`Quiet`). Expiry of the token is the
deadline of a start, so `TokenExpires` finds none that would still release it.

### CameraIssuer

`IndInv` is about the row alone, whoever commits it: the numbers of a boot are at
most its counter and other boots with a number are retired (`Bounded`); the
exchange, the query and the attempt under way are of the current boot,
generation and binding (`Current`); an accepted query was answered and one
without a start can still have one (`Admitted`); enrollment was proved
(`Proved`); the outbox belongs to the attempt (`Queued`). A job in the inbox was
really said by the terminal (`Heard`). Each transition of `CameraMachine` has a
lemma, and a pump is the composition of one with the commit.

*The counter is never behind* needs a second invariant about the terminal
(`LevelInv`): commits and queries of a boot exist only once the row has named it,
with levels not above its counter; a boot not yet named still stands where its
proof says; boots named or proved are not newer than the terminal's own. So a
proof that arrives late cannot carry a number below the terminal's.

*A stop is the last word of its attempt* needs a third (`StopInv`): every stop
that was published or waits belongs to a start that was committed, and its
attempt is not the active one; the active attempt has a committed start too. A
new attempt takes a query whose number no start has used (`Admitted`), so it
differs from every attempt that was ever stopped, and what is published belongs
to the active one (`Queued`).

### RemoteSessions

The lock of a serial number plays no part: it is local to a worker and released
before the commit. What holds is said of each transaction (`TxInv`): rows it has
written are locked (`Locked`); one that makes a session active sees no other
active one, and nobody else makes one active, because it has waited for the
entries of the unique index (`Alone`); an event of the lifecycle is recorded by
the holder of the row lock, after every committed event of the session, and
repeats none (`Feed`). Order within a session follows, order across sessions
does not (section 6).

### MediaClock

A request reads hash, active key and clock one after the other, so what it knows is
old when it uses it. `ClockInv` says in which direction: the time to live that was
read is the rest of a lease that was given, and it is counted from a sample of the
clock that is not later than the read (`Modest`). So the sum never exceeds what
the lease was given, however long the request waits. The anchor and what waits for
its `EXEC` are bounded likewise. No assumption is made of the budget, the renewal or
the number of tries but that they are natural numbers and the last two positive.

### Provisioning

Records of operations are never changed or removed (`RecordsKept`), and whatever is
answered is what the record of its operation says (`Meaning`), be it the first
answer, a replay or that of a request which lost a race in the database. The proof
goes action by action with `AnswersKeep`. Nothing is claimed of the numbers of
devices: there the code has a race (section 6).

### Quality

A stream begins with a report and a wish of its own number, and generations are
given out in order within it. A report in the document is never of a generation
newer than the last one given out, and if it is of that one it has its target
(`ReportKnown`); `TrulyApplied` holds of the device, of everything it has sent and
of the document. The first is needed because a report is accepted by stream and
generation alone: what says that the target is right is that no other wish of the
stream had this number.

### InputRelay

`Accounted`: a move has no outcome exactly while it is in the queue or in the hands
of the worker, and is never in both. `LastNotReplaced`: a move is replaced by a later
one only. When both places are empty, the last move has an outcome that is neither
"queued" nor "replaced".

### Presence

`Vouched`: a row that says online carries a minute at which an online presence came
in, not later than now. It holds of the row in Redis, of the copies in the hands of
the handlers and of the snapshot of the watch socket alike, therefore it does not
matter which of them is written over which. `OnlineMeansHeard` is about the steps
in which a view is made: these compare that minute with the clock.

### Billing

`version` counts the changes of what a month is billed by. `CalcsRight`: if the month of a
calculation has still the version it began with, all it has read so far (price,
devices, counters) is still so. `RowsRight` says the same of a saved row. The proof
has one lemma for all steps that change neither (`CalcKeeps`, `RowKeeps`); an event that is counted,
a new device and a new coefficient raise the version of every month they
can affect. `HasLatest`, a newest coefficient exists among those in force, is an
invariant and not taken from finiteness, since prices may come from any set.

### LeaseService

`LogoutInv` says of every lease a logout began with (`Clearing`) that it is over, or
that the logout will yet come to it: its terminal is still to be looked at, or it was
found, or it is the one at hand. Over means that no active key names it and none will
(`Gone`), or that its time has ended. This is stable only because nothing that any
request writes can bring a lease back: what a request carries is the row of the lease it
will write it for (`Backed`), a row that says "revoked", in the hash or in the copy, is
that of a lease that is gone (`RowsHold`), and a transaction that has not been spoiled
writes the active key it has read (`Watched`), so a keepalive puts no lease back whose
key was freed. `upgrade_scope` and `get` may write a revoked lease back as if it were
valid; no key names it then, which is why the property speaks of terminals. One lemma
covers the steps that leave the active keys alone (`StillTurn`, from what they write over
a row, `Rewrites`); `NewLease` and `Freed` are the two ways in which a key changes. The
theorems use `ServiceAssumption`: "none", which stands for a serial number that is not
there, is no terminal. The module shares nothing with the outbox of results; the two are in one file.

### ArchiveCycle

The first directory that was promoted holds every record of the month and nobody
writes to it afterwards (`Kept`, `Covered`); a cycle that is still exporting has
read what no final directory holds (`Fetched`); rows are missing from the tables
only when there is a final directory. That the details of a task are in the tables
exactly as long as the task is an invariant of its own (`DetailsKept`); no directory
has them. For the guards: the cursors of a batch do
not run ahead of the consumers, and a batch without events was made when there
were none (`Sound`), so a deletion finds no open session and only events that
were acknowledged (`Settled`).

### What stays with TLC

- All liveness (`EveryTaskEnds`, `EveryItemCloses`, `KeepaliveRefused`, `PendingDrains`,
  `RetiredStops`, `BlockedIsCutOff`, `StatusConverges`, `RequestsEnd`,
  `EveryRowFinishes`, `OrphanRetired`): it needs fairness and `ENABLED`, which
  tlapm does not handle.
- `StoppedWhenLeft`, which is checked with two sessions that may share an identifier and
  not proved, and what is violated: `OneLease`, `FilesGuarded`, `EndedOnDisconnect`.
- What a recursive definition computes for every input: the induction theorems of
  the library take an operator as a parameter. None of the modules needs one.

## 5. What is not modelled

`PROJECT.json` lists the components with what is left out of each. In short:

- task store: validation of payloads, organisation checks, read endpoints, camera
  admission beyond its deadline and its idempotent id;
- webhooks: limits and the reachability test of a subscription, signatures, the
  queue of event webhooks;
- events: gauges, searches, billing of EVT messages (published before the
  deduplication, so a redelivered EVT is billed again);
- leases: the queues of revocations as queues (`InputRelay` has the notice), the
  rollback of `expires_at` in a failed keepalive, contract version 2 outside
  `MediaClock`, eviction by Redis;
- lease requests: several workers, copies and clocks (`LeaseRegistry` has them),
  leases for files, desktop identifiers;
- input: renewals in the registry of replies, clicks over HTTP, errors of Redis;
  in `InputSocket` hash and copy share one `expires_at`; in `InputRelay` a drag is
  a wheel, which nobody waits for, and coordinates are left out;
- video: presets, bitrates, URLs, tokens, diagnostics of a stream;
- camera runtime: quality commands (they are in `Quality`), the ACK of receipts,
  polling of results and caches of 64 entries, schemas and identifiers
  (`authority_state.py`, `media.py`); an ambiguous delivery is an element of `down`; a
  message that would change nothing is not forwarded; a regressing clock followed by a
  failed commit needs two faults and the run has one;
- camera control: Redis errors, desktop and legacy streams; "running" reports
  change nothing there; media clock: the UTC coordinate and the identity checks;
- sessions: operation ids named by a start or stop, read endpoints, failure and telemetry events of agents, billing;
- connections and provisioning: names, tags, gauges, the issue of certificates,
  the set-up of exchanges and permissions;
- archive: formats, disk space, hashes and sampling; the loss of a directory after
  its promotion; records of a month appear only while it is the current one;
- presence: lists of devices, the contents of inventories, the local fallback
  without Redis; quality: presets and bitrates, desktop reports of version 1, what the
  panel shows besides the status;
- diagnostics: logs and commands are one kind of session, sizes, several sockets and
  workers for one device; billing: reports and exports, rounding, more than one
  calculation at once (the theorem covers any number of them);
- contract adapter, postamat, start-up, MCP server, desktop service and emulator
  have no module.

## 6. Where the code and its documents differ

Found while modelling; those marked (TLC) were confirmed by a run on a variant of
the model or of its constants, those that name a run by that run.

Tasks, webhooks and events

- `docs/TTL.md:46` limits TSK to the remaining life of a task; `send_tsk` uses
  the TTL alone, although `expires_at` may be lower. A late TSK is harmless.
- `docs/TTL.md:34,40` count a result that is received in time; such a result can
  leave its task EXPIRED, when the TTL job commits before the transaction of the
  result (`dev_tasks_repo.py:710`) (TLC).
- `docs/TTL.md:36` refuses a webhook more than three minutes after the deadline;
  the limit is applied only to a task that is EXPIRED, so a further result of a
  DONE task gets one (`WebhookWanted` states what the code does).
- `docs/3-webhooks.md:89` counts six attempts: six are committed, and a crash adds
  a POST that is not counted. An error before anything was sent (a URL that httpx
  rejects, a header it cannot build) counts as a refusal: the row is closed at the
  first attempt although no receiver has heard of it (`rpc_result_webhooks.py:83-95`,
  `unsendable`).
- `dev_events_repo.py:216,233`: `FOR UPDATE` locks nothing for the first requests
  of a device; both serve the same page, and the offset may move back (TLC).
- `docs/2-events-api-format-description.md:71`: ids are committed out of order, so
  a reader that keeps the greatest id can get an empty page although it never saw
  a stored event (TLC).

Leases, input and video

- `docs/remote-input-protocol.md:77` (one active lease per serial number): `revoke` looks
  at the active key and deletes it in a transaction that watches nothing
  (`leases.py:998`), so the second of two revocations may free the slot of the next
  lease, and a third is given beside it: run `one_lease`. `get` writes a copy back over
  the hash (`:1159`), so a stream lease can look valid beside a busy files lease (TLC).
- `docs/file-manager-v2.md:19,27` (a revocation cannot be evaded by acquiring again,
  without a confirmation the guard of 5 s remains): the life of a revoked hash is computed
  from the lease that was read (`leases.py:983-998`), with a floor of 60 s, which is
  shorter than `ttl_sec` (5 to 3600 s, `schemas.py:403`; 60 by default, `config.py:426`)
  plus the guard. A touch between the read of a revocation and its transaction
  leaves a hash that expires before the guard of the extended lease: run `files_guard`.
- `docs/remote-input-protocol.md:89` (10 s of grace unless the client comes back):
  a load by the clean-up loop after a crash, or a keepalive over HTTP that races
  `mark_ws_connected` (`leases.py:887-919`), puts an old `ws_disconnected_at` into
  the copy, and the loop revokes a lease whose client is connected (TLC).
- A crash with `ws_connected=1` in the hash makes every later socket of the lease
  refused with 4409 until it ends (TLC).
- `docs/redis/README.md:56` says that sockets are torn down on a revocation; the
  code sends `lease_revoked`, stops the sender and keeps receiving until the
  client leaves or its keepalive gets 404, so a silent client is served on after its lease
  has ended; `KeepaliveRefused` says what does hold. A revocation between the check of a new
  socket and its subscription is never told to it.
- The active key expires with its lease, so `cleanup_expired` hardly ever sees an
  expired lease; `release` cancels pending replies, the revocation by the loop
  does not; a full registry (`pending_max`) or a failed publication closes the
  socket.
- The comment at `video_control.py:871` says that a late START is compensated; it
  is not when the epoch was stopped at 864-867 (TLC).
- `docs/l4desk/contracts/video-control-v2.md:47` (a stale epoch is a conflict):
  `stop` compares the identifiers with the document it has read (`:1215`), then
  `stop_for_lease` reads again and ends whatever epoch it finds (`:1150`, `:1173`);
  the `clear_lease` of the old id leaves the new stream on the lease (TLC).
- Camera control: the update of a stop has no expected states and may revive a
  retired record to "stopping", which the loop retires; a crash between the change
  of reconcile and its `clear_lease` leaves the lease naming the stream, and later
  starts get 409 until the lease ends; a reconcile between Reserve and Save
  retires a start that has just been reserved.

Sessions, diagnostics, presence

- `api/internal_v1/remote_sessions.py:200` (200 confirms a durable closed state):
  `start_session` reads the status without a lock (`:968` of the service) and
  revives a session that was closed meanwhile.
- `docs/l4desk/handoffs/L4D-02-IOT-report.md:264` (resume from the last cursor):
  cursors are device-wide and committed out of order, so a follower can skip one.
- Two sessions may be made under one operation id, and the second has no events
  (docstring at `remote_session_event_service.py:827`). A stop keeps `stopping`
  uncommitted while it waits, so new commands are accepted.
- `docs/remote-diagnostics-protocol.md:83` (a revocation closes the sockets): the
  revocation of a console lease calls `remove_all_for_sn`, but `sess.ws` is always
  None; `close_diagnostics_ws_for_sn` is never called.
- `presence.py`: an event of the stream writes an older presence back with its old
  `received_at`, over a newer one, or into a key that has expired.
- Diagnostics: `docs/remote-diagnostics-implementation-plan.md:675-681` and
  `docs/remote-diagnostics-protocol.md:89` have the device stop every session when the
  socket closes. The end of the socket goes through the forwarders that are still listed
  (`api/internal_v1/diagnostics.py:286`). One whose send failed, as happens when the
  browser is gone, has removed its session and itself before (`:122-124`): run
  `diagnostics`. A session restored from Redis has its kind as a plain string
  (`sessions.py:183`), for which `stop` and `cancel` send no task (`service.py:165,173`).
  An identifier of a command that is used again (`service.py:119`) replaces the entry
  and the forwarder of the first. `StoppedWhenLeft` says what holds of the others.
- Diagnostics: output that arrives between the local mark of a stop and its
  write to Redis restores a session that nobody forwards (`sessions.py`), so after
  a `cancel` the browser misses the rest and the EOF until the session expires,
  although the comment at `diagnostics/service.py:151` keeps the consumer until
  EOF. Restored sessions are not cleaned up. A revocation of the console lease
  does not ask the device to stop.

Requests of operators, quality and billing

- A click, a key or a wheel overtakes a move that waits in the queue; a move that
  cannot be published is only logged. The buckets of leases that have ended are
  never removed.
- A keepalive whose publication fails takes `expires_at` back in the local copy
  only; the next `get` writes it to Redis. Of two that fail at once the second
  may leave a later expiry than the client was told.
- `LogoutFreesTerminals` speaks of what the active keys name when the logout begins;
  a lease acquired while it runs stays, and copies of other workers are those of
  `LeaseRegistry`.
- Billing: a publication that fails, a transaction that is rolled back and an event
  older than ten minutes are not counted, a redelivery is counted twice. Activity
  and counter of one event may fall into two months. A change of coefficients
  admitted before the end of a month and written after it changes the month that
  is current then. Of two calculations at once the older may be saved last; a
  change does not recalculate (`ResultTrue` speaks of results whose basis has not
  changed).

Devices and archive

- Provisioning: two concurrent requests for different serial numbers allocate the
  same `device_id` (the maximum is read before the other's commit, the process
  lock is released before it; the docstring at line 63 calls it "monotonically
  safe"), and the second's `ON CONFLICT(device_id) DO UPDATE` renames the first's
  device (TLC). The bulk upsert rebinds a device without looking at its owner.
- Inventory: the replay at the start may enqueue an older report after a newer
  one, with a higher `source_revision`, when the row of the newer was cleaned.
- Archive: `pipeline.py:38` promises idempotent resumption; the manifest is mutated
  in place in a JSONB column that does not track it (`verifier.py:150`,
  `purger.py`, `models/archive.py:46`), so the table keeps `prepared`, and a later
  purge of a batch committed as `verified` raises `PurgeOperationFailedError` for
  ever (TLC).
- Archive: `docs/l4desk/handoffs/L4D-15B-IOT-report.md:59` speaks of the deletion of
  archived data; with a task the purge deletes its payload, status and results
  (`purger.py:107-115`), of which the export has nothing (`exporter.py:76-107`).
  `NothingLost` therefore speaks of what the exporter reads.
- Archive: `test_l4d_15b_archive.py:483` expects a failed purge to delete nothing;
  the script commits the deletions when the writing of the purged manifest fails
  (`run_archive_worker.py:91-113`, `purger.py:160`) (TLC). By the API a failed
  batch is never recorded, since the transaction is rolled back. Stale staging
  directories are never cleaned; a purger comment names only tasks that have
  ended, but all tasks of the window are deleted; `rowcount or len(ids)`
  overcounts; the manifest of a purged batch is read back as `prepared`.

## 7. Plan

Done: the modules of section 2 and the theorems of section 4.

Next, in this order:

1. `RpcTasks` with `LeaseRegistry`: a camera task and the revocation of its lease.
