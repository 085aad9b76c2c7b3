------------------------------ MODULE Presence ------------------------------
(***************************************************************************)
(* What the server knows of one device's agent: core/remote_input/         *)
(* presence.py (RedisPresenceRegistry), with the handlers of               *)
(* mqtt_bridge.py that feed it and the watch socket of remote_input.py     *)
(* that tells a browser.  The messages of the agent are handled side by    *)
(* side, and each command to Redis is a step: a handler that writes a row  *)
(* back has read it before; what a view looks up besides its row is one    *)
(* step.  Local locks are never held over a step.                          *)
(***************************************************************************)
EXTENDS Naturals, Sequences

CONSTANTS
  Handlers,     \* messages handled at once
  Presences,    \* presence messages: [online, ts, desktop, inv, stream]
  Events,       \* stream events: streams
  Stale,        \* presence_stale_sec
  LastMinute, MaxMessages, MaxDropped,
  MaxQueue      \* views a watcher may be behind

ASSUME PresenceAssumption ==
  /\ Stale \in Nat \ {0} /\ LastMinute \in Nat
  /\ MaxMessages \in Nat /\ MaxDropped \in Nat /\ MaxQueue \in Nat
  /\ \A p \in Presences :
       /\ p.online \in BOOLEAN /\ p.ts \in Nat
       /\ p.desktop \in BOOLEAN /\ p.inv \in BOOLEAN
       /\ p.stream = [state |-> p.stream.state, instance |-> p.stream.instance]
  /\ \A e \in Events : e = [state |-> e.state, instance |-> e.instance]

VARIABLES
  minute,
  key, life,    \* l4d:presence:{sn} and its time to live
  stream,       \* l4d:stream:{sn}
  listed,       \* l4d:inventory:{sn} names a display or a camera
  task,         \* what each handler does
  watch,        \* the watch socket: its state, and what its snapshot has read
  views, last,  \* its subscription, and the view the browser was told last
  heard,        \* when an online presence came in (history)
  presenceSpent

presenceVars == <<minute, key, life, stream, listed, task, watch, views, last, heard,
                  presenceSpent>>

NoExpiry == LastMinute + Stale
NoInstance == "none"
NoStream == [state |-> "none", instance |-> NoInstance]
Default == [state |-> "stopped", instance |-> NoInstance]

NoKey == [kept |-> FALSE, online |-> FALSE, ts |-> 0, desktop |-> FALSE, inv |-> FALSE,
          stream |-> NoStream, at |-> 0]

Message(p) == [NoKey EXCEPT !.kept = TRUE, !.online = p.online, !.ts = p.ts,
                 !.desktop = p.desktop, !.inv = p.inv, !.stream = p.stream]

NoView == [online |-> FALSE, inventory |-> "none", stream |-> NoStream]
NoTask == [op |-> "none", step |-> "idle", at |-> 0, row |-> NoKey, view |-> NoView]

Off == [state |-> "off", row |-> NoKey, at |-> 0]

PresenceInit ==
  /\ minute = Stale
  /\ key = NoKey /\ life = NoExpiry /\ stream = NoStream /\ listed = FALSE
  /\ task = [h \in Handlers |-> NoTask]
  /\ watch = Off
  /\ views = <<>> /\ last = NoView /\ heard = {}
  /\ presenceSpent = [messages |-> 0, fails |-> 0]

Running(h, op, step) == task[h].op \in op /\ task[h].step = step
TaskTo(h, step) == task' = [task EXCEPT ![h].step = step]
Done(h) == task' = [task EXCEPT ![h] = NoTask]

-----------------------------------------------------------------------------
(* What a row says at time t.  A row that is too old is offline, whether   *)
(* Redis has dropped it or not.                                            *)

Online(row, t) == row.kept /\ row.online /\ t < row.at + Stale

Inventory(row) ==
  IF row.inv \/ listed THEN "listed" ELSE IF row.desktop THEN "desktop" ELSE "empty"

Stream(row) ==
  IF row.stream # NoStream THEN row.stream
  ELSE IF stream # NoStream THEN stream ELSE Default

View(row, t) ==
  IF Online(row, t)
    THEN [online |-> TRUE, inventory |-> Inventory(row), stream |-> Stream(row)]
    ELSE NoView

-----------------------------------------------------------------------------
(* A message of the agent arrives.  The stream of a presence is dropped    *)
(* when a v2 document describes the epoch; an event of another epoch than  *)
(* that of the lease or of a v2 stream is not passed on.                   *)

Arrive(h, op, row) ==
  /\ task[h] = NoTask /\ presenceSpent.messages < MaxMessages
  /\ task' = [task EXCEPT ![h] = [op |-> op, step |-> IF op = "inventory" THEN "list"
                                                      ELSE "read",
                                  at |-> minute, row |-> [row EXCEPT !.at = minute],
                                  view |-> NoView]]
  /\ presenceSpent' = [presenceSpent EXCEPT !.messages = @ + 1]
  /\ heard' = IF op = "presence" /\ row.online THEN heard \cup {minute} ELSE heard
  /\ UNCHANGED <<minute, key, life, stream, listed, watch, views, last>>

Presence(h) ==
  \E p \in Presences, v2 \in BOOLEAN :
    Arrive(h, "presence", [Message(p) EXCEPT !.stream = IF v2 THEN NoStream ELSE @])
StreamEvent(h) == \E e \in Events : Arrive(h, "event", [NoKey EXCEPT !.stream = e])
InventoryReply(h) == Arrive(h, "inventory", [NoKey EXCEPT !.inv = TRUE])

(* update: the last will of a connection that was replaced meanwhile is    *)
(* older than the presence of its successor.                               *)
OldWill(row) == ~row.online /\ key.kept /\ key.online /\ row.ts <= key.ts

AfterList(row) == IF row.stream # NoStream THEN "look" ELSE "write"
AfterRead(row) == IF row.inv THEN "list" ELSE AfterList(row)

ReadPresence(h) ==
  /\ Running(h, {"presence"}, "read")
  /\ IF OldWill(task[h].row) THEN Done(h) ELSE TaskTo(h, AfterRead(task[h].row))
  /\ UNCHANGED <<minute, key, life, stream, listed, watch, views, last, heard,
                 presenceSpent>>

ListInventory(h) ==
  /\ Running(h, {"presence", "inventory"}, "list")
  /\ listed' = TRUE
  /\ TaskTo(h, IF task[h].op = "presence" THEN AfterList(task[h].row) ELSE "reread")
  /\ UNCHANGED <<minute, key, life, stream, watch, views, last, heard, presenceSpent>>

\* A presence that still shows the stream running which has ended.
EndedBefore(new) ==
  /\ stream.state \in {"stopped", "failed"} /\ new.state = "running"
  /\ new.instance # NoInstance /\ new.instance = stream.instance

LookStream(h) ==
  /\ Running(h, {"presence"}, "look")
  /\ TaskTo(h, IF EndedBefore(task[h].row.stream) THEN "write" ELSE "set")
  /\ UNCHANGED <<minute, key, life, stream, listed, watch, views, last, heard,
                 presenceSpent>>

\* update_stream_event: the end of an older stream than the running one.
OldEnd(cur, new) ==
  /\ new.state \in {"stopped", "failed"} /\ cur.state = "running"
  /\ NoInstance \notin {cur.instance, new.instance} /\ cur.instance # new.instance

ReadStream(h) ==
  LET cur == IF stream = NoStream THEN Default ELSE stream
      new == task[h].row.stream
  IN /\ Running(h, {"event"}, "read")
     /\ IF OldEnd(cur, new) THEN Done(h)
        ELSE task' = [task EXCEPT ![h].step = "set",
                        ![h].row.stream.instance = IF @ = NoInstance THEN cur.instance
                                                   ELSE @]
     /\ UNCHANGED <<minute, key, life, stream, listed, watch, views, last, heard,
                    presenceSpent>>

SetStream(h) ==
  /\ Running(h, {"presence", "event"}, "set")
  /\ stream' = task[h].row.stream
  /\ TaskTo(h, IF task[h].op = "presence" THEN "write" ELSE "reread")
  /\ UNCHANGED <<minute, key, life, listed, watch, views, last, heard, presenceSpent>>

-----------------------------------------------------------------------------
(* The row is written; HSET keeps the life of a key, and a new key has     *)
(* none until EXPIRE.                                                      *)

SetRow(row) == key' = row /\ life' = IF key.kept THEN life ELSE NoExpiry

WriteRow(h) ==
  /\ Running(h, {"presence"}, "write")
  /\ SetRow(task[h].row) /\ TaskTo(h, "expire")
  /\ UNCHANGED <<minute, stream, listed, watch, views, last, heard, presenceSpent>>

ExpireKey(h) ==
  /\ Running(h, {"presence"}, "expire")
  /\ life' = IF key.kept THEN Stale ELSE life
  /\ TaskTo(h, "view")
  /\ UNCHANGED <<minute, key, stream, listed, watch, views, last, heard, presenceSpent>>

\* Mutant: an event counts as a sign of life.
Refreshed(h) ==
  IF task[h].op = "event" THEN [key EXCEPT !.stream = task[h].row.stream, !.at = task[h].at]
  ELSE [key EXCEPT !.inv = TRUE]

\* An event or an inventory is put into the row that is there, if one is.
Merged(h) ==
  IF task[h].op = "event" THEN [key EXCEPT !.stream = task[h].row.stream]
  ELSE [key EXCEPT !.inv = TRUE]

ReRead(h) ==
  /\ Running(h, {"event", "inventory"}, "reread")
  /\ IF key.kept THEN task' = [task EXCEPT ![h].row = Merged(h), ![h].step = "rewrite"]
     ELSE Done(h)
  /\ UNCHANGED <<minute, key, life, stream, listed, watch, views, last, heard,
                 presenceSpent>>

ReWrite(h) ==
  /\ Running(h, {"event", "inventory"}, "rewrite")
  /\ SetRow(task[h].row)
  /\ IF task[h].op = "event" THEN TaskTo(h, "view") ELSE Done(h)
  /\ UNCHANGED <<minute, stream, listed, watch, views, last, heard, presenceSpent>>

MakeView(h) ==
  /\ task[h].step = "view"
  /\ task' = [task EXCEPT ![h].view = View(task[h].row, task[h].at), ![h].step = "put"]
  /\ UNCHANGED <<minute, key, life, stream, listed, watch, views, last, heard,
                 presenceSpent>>

Listening == watch.state # "off"

PutView(h) ==
  /\ task[h].step = "put"
  /\ views' = IF Listening THEN Append(views, task[h].view) ELSE views
  /\ Done(h)
  /\ UNCHANGED <<minute, key, life, stream, listed, watch, last, heard, presenceSpent>>

\* Redis does not answer, or the process ends.
DropTask(h) ==
  /\ task[h] # NoTask /\ presenceSpent.fails < MaxDropped
  /\ Done(h) /\ presenceSpent' = [presenceSpent EXCEPT !.fails = @ + 1]
  /\ UNCHANGED <<minute, key, life, stream, listed, watch, views, last, heard>>

Handle(h) ==
  \/ Presence(h) \/ StreamEvent(h) \/ InventoryReply(h)
  \/ ReadPresence(h) \/ ListInventory(h) \/ LookStream(h) \/ ReadStream(h)
  \/ SetStream(h) \/ WriteRow(h) \/ ExpireKey(h) \/ ReRead(h) \/ ReWrite(h)
  \/ MakeView(h) \/ PutView(h) \/ DropTask(h)

-----------------------------------------------------------------------------
(* The watch socket: it subscribes, then reads a snapshot as get does (the *)
(* time first, then the row, then what belongs to it), then passes on each *)
(* view that differs from the one before.                                  *)

Connect ==
  /\ watch.state = "off"
  /\ watch' = [watch EXCEPT !.state = "subscribed", !.at = minute]
  /\ views' = <<>>
  /\ UNCHANGED <<minute, key, life, stream, listed, task, last, heard, presenceSpent>>

ReadSnapshot ==
  /\ watch.state = "subscribed"
  /\ watch' = [watch EXCEPT !.row = key, !.state = "reading"]
  /\ UNCHANGED <<minute, key, life, stream, listed, task, views, last, heard,
                 presenceSpent>>

Snapshot ==
  /\ watch.state = "reading"
  /\ last' = View(watch.row, watch.at)
  /\ watch' = [Off EXCEPT !.state = "open"]
  /\ UNCHANGED <<minute, key, life, stream, listed, task, views, heard, presenceSpent>>

Unsubscribed == watch' = Off /\ views' = <<>> /\ last' = NoView

\* A view that equals the last one is not sent.
Pass ==
  /\ watch.state = "open" /\ views # <<>>
  /\ IF Len(views) - 1 > MaxQueue
       THEN Unsubscribed
       ELSE views' = Tail(views) /\ last' = Head(views) /\ UNCHANGED watch
  /\ UNCHANGED <<minute, key, life, stream, listed, task, heard, presenceSpent>>

\* The browser leaves or writes, a send fails, or the snapshot is refused.
Unwatch ==
  /\ watch.state # "off" /\ Unsubscribed
  /\ UNCHANGED <<minute, key, life, stream, listed, task, heard, presenceSpent>>

-----------------------------------------------------------------------------
MinutePasses ==
  /\ minute < LastMinute
  /\ minute' = minute + 1
  /\ IF life = 1 THEN key' = NoKey /\ life' = NoExpiry
     ELSE key' = key /\ life' = IF life = NoExpiry THEN life ELSE life - 1
  /\ UNCHANGED <<stream, listed, task, watch, views, last, heard, presenceSpent>>

\* The key of the stream has its own time to live, 90 or 300 seconds.
LapseStream ==
  /\ stream # NoStream /\ stream' = NoStream
  /\ UNCHANGED <<minute, key, life, listed, task, watch, views, last, heard, presenceSpent>>

PresenceNext ==
  \/ \E h \in Handlers : Handle(h)
  \/ Connect \/ ReadSnapshot \/ Snapshot \/ Pass \/ Unwatch
  \/ MinutePasses \/ LapseStream

PresenceSpec == PresenceInit /\ [][PresenceNext]_presenceVars

-----------------------------------------------------------------------------
Heard(t) == \E x \in heard : x <= minute /\ t < x + Stale

\* A device is shown online only when an online presence of it came in less than
\* presence_stale_sec before: neither a row written back after it was replaced or had
\* expired, nor a key that lost its time to live, nor an event prolongs it
\* (_build_view_async; update, update_stream_event and update_inventory write rows back).
OnlineMeansHeard ==
  [][/\ \A h \in Handlers : MakeView(h) /\ task'[h].view.online => Heard(task[h].at)
     /\ Snapshot /\ last'.online => Heard(watch.at)]_presenceVars
=============================================================================
