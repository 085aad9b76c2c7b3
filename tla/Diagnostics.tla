---------------------------- MODULE Diagnostics ----------------------------
(***************************************************************************)
(* The diagnostics socket of one device: api/internal_v1/diagnostics.py,   *)
(* core/diagnostics/service.py (what the browser asks for), sessions.py    *)
(* (the local registry and its copy in Redis) and mqtt_bridge.py (what the *)
(* device prints).  Each await of Redis or of the task service is a step;  *)
(* local locks are never held over one.  A live log and a command differ   *)
(* in the task that is sent, and are one here.                             *)
(*                                                                         *)
(* The browser may choose the identifier of a command, also one that is in *)
(* use: the registry, Redis and the forwarders are keyed by identifiers,   *)
(* and a session is the object that was registered under one.              *)
(***************************************************************************)
EXTENDS Naturals, Sequences, FiniteSets

CONSTANTS
  DiagSessions, \* sessions, as objects
  SessionIds,   \* their identifiers
  Outputs,      \* output messages of the device that are handled at once
  Eof,          \* the number of the last chunk of a session
  MaxOutputs,   \* bound on chunks of output
  MaxFailed     \* bound on failures and revocations

ASSUME DiagnosticsAssumption ==
  /\ Eof \in Nat \ {0} /\ MaxOutputs \in Nat /\ MaxFailed \in Nat
  /\ DiagSessions \cap {"none", "restored", "closing"} = {}

VARIABLES
  local,        \* registry._sessions: the session of an identifier, or what was
                \* restored from Redis in its place
  object,       \* the sessions: identifier, queue, seen_seqs, closing
  stored,       \* l4d:diag:session:{id}: which session wrote it, whether closing
  expired,      \* sessions whose ttl_sec is over
  forwarder,    \* the task that sends a session to the browser
  forwarders,   \* the list of these tasks: whose task an identifier names
  socket,       \* the loop of the socket: what it does, for what
  output,       \* the handlers of device output
  asked,        \* history: the last task for a session, to start or to end it
  shown,        \* history: chunks the browser got
  abandoned,    \* history: sessions the socket does not close, see StoppedWhenLeft
  diagnosticsSpent

diagnosticsVars == <<local, object, stored, expired, forwarder, forwarders, socket,
                     output, asked, shown, abandoned, diagnosticsSpent>>

Fresh == [id |-> "none", queue |-> <<>>, seen |-> {}, closing |-> FALSE]
NotStored == [by |-> "none", closing |-> FALSE]
Quiet == [step |-> "idle", id |-> "none", todo |-> {}]
NoOutput == [step |-> "idle", id |-> "none", seq |-> 0, raw |-> NotStored]

DiagnosticsInit ==
  /\ local = [s \in SessionIds |-> "none"] /\ object = [n \in DiagSessions |-> Fresh]
  /\ stored = [s \in SessionIds |-> NotStored] /\ expired = {}
  /\ forwarder = [n \in DiagSessions |-> "none"]
  /\ forwarders = [s \in SessionIds |-> "none"]
  /\ socket = Quiet /\ output = [o \in Outputs |-> NoOutput]
  /\ asked = [n \in DiagSessions |-> "none"] /\ shown = [n \in DiagSessions |-> {}]
  /\ abandoned = {} /\ diagnosticsSpent = [outputs |-> 0, fails |-> 0]

SocketTo(step) == socket' = [socket EXCEPT !.step = step]
SocketAt(step) == socket.step = step

Named(s) == {n \in DiagSessions : object[n].id = s}

-----------------------------------------------------------------------------
(* start_log and exec: the session is registered, here and in Redis, then  *)
(* the task is created, then the forwarder.                                *)

Register(n, s) ==
  /\ SocketAt("idle") /\ object[n] = Fresh
  /\ local' = [local EXCEPT ![s] = n]
  /\ object' = [object EXCEPT ![n] = [Fresh EXCEPT !.id = s, !.queue = <<0>>]]
  /\ socket' = [Quiet EXCEPT !.step = "store", !.id = n]
  /\ abandoned' = IF Named(s) = {} THEN abandoned ELSE abandoned \cup Named(s) \cup {n}
  /\ UNCHANGED <<stored, expired, forwarder, forwarders, output, asked, shown,
                 diagnosticsSpent>>

StoreSession ==
  /\ SocketAt("store")
  /\ LET n == socket.id IN
     stored' = [stored EXCEPT ![object[n].id] =
                  IF n \in expired THEN @ ELSE [by |-> n, closing |-> FALSE]]
  /\ SocketTo("start")
  /\ UNCHANGED <<local, object, expired, forwarder, forwarders, output, asked, shown,
                 abandoned, diagnosticsSpent>>

StartTask ==
  /\ SocketAt("start")
  /\ LET n == socket.id IN
     /\ asked' = [asked EXCEPT ![n] = "start"]
     /\ forwarder' = [forwarder EXCEPT ![n] = "running"]
     /\ forwarders' = [forwarders EXCEPT ![object[n].id] = n]
  /\ socket' = Quiet
  /\ UNCHANGED <<local, object, stored, expired, output, shown, abandoned,
                 diagnosticsSpent>>

(* stop_log, cancel and close_session: the session is marked, here and in  *)
(* Redis, then the task is created.  cancel leaves it at that.             *)

Marks(s) ==
  /\ object' = IF local[s] \notin DiagSessions THEN object
               ELSE [object EXCEPT ![local[s]].closing = TRUE]
  /\ local' = [local EXCEPT ![s] = IF @ = "restored" THEN "closing" ELSE @]

StopSession(s) ==
  /\ SocketAt("idle") /\ Named(s) # {}
  /\ Marks(s)
  /\ \E what \in {"stop", "cancel"} : socket' = [Quiet EXCEPT !.step = what, !.id = s]
  /\ UNCHANGED <<stored, expired, forwarder, forwarders, output, asked, shown,
                 abandoned, diagnosticsSpent>>

BrowserLeaves ==
  /\ SocketAt("idle") /\ SocketTo("leaving")
  /\ UNCHANGED <<local, object, stored, expired, forwarder, forwarders, output, asked,
                 shown, abandoned, diagnosticsSpent>>

\* The lease has abandoned its socket; now the forwarders are taken out of the list.
ListForwarders ==
  /\ SocketAt("leaving")
  /\ socket' = [socket EXCEPT !.step = "closing",
                              !.todo = {forwarders[s] : s \in SessionIds} \ {"none"}]
  /\ forwarders' = [s \in SessionIds |-> "none"]
  /\ UNCHANGED <<local, object, stored, expired, forwarder, output, asked, shown,
                 abandoned, diagnosticsSpent>>

Cancelled(n) ==
  [m \in DiagSessions |-> IF m = n /\ forwarder[m] = "running" THEN "removing"
                          ELSE forwarder[m]]

\* Mutant: the forwarder is waited for before its session is closed.
CloseRemoved(n) ==
  /\ SocketAt("closing") /\ n \in socket.todo
  /\ forwarder' = Cancelled(n) /\ local' = [local EXCEPT ![object[n].id] = "none"]
  /\ socket' = [socket EXCEPT !.todo = @ \ {n}]
  /\ UNCHANGED <<object, stored, expired, forwarders, output, asked, shown, abandoned,
                 diagnosticsSpent>>

\* One forwarder after the other is cancelled, and what is registered under its
\* identifier is closed; that of a session that is gone needs nothing more.
CloseSession(n) ==
  /\ SocketAt("closing") /\ n \in socket.todo
  /\ LET s == object[n].id IN
     /\ forwarder' = Cancelled(n)
     /\ Marks(s)
     /\ socket' = [socket EXCEPT !.todo = @ \ {n}, !.id = s,
                     !.step = CASE local[s] = "none" -> "closing"
                                [] local[s] \in DiagSessions -> "close"
                                [] OTHER -> "closeRestored"]
  /\ UNCHANGED <<stored, expired, forwarders, output, asked, shown, abandoned,
                 diagnosticsSpent>>

ClosedAll ==
  /\ SocketAt("closing") /\ socket.todo = {} /\ SocketTo("left")
  /\ UNCHANGED <<local, object, stored, expired, forwarder, forwarders, output, asked,
                 shown, abandoned, diagnosticsSpent>>

\* What was restored from Redis has a plain string for its kind: no task is sent.
MarkStored ==
  /\ socket.step \in {"stop", "cancel", "close", "closeRestored"}
  /\ stored' = [stored EXCEPT ![socket.id].closing = stored[socket.id] # NotStored]
  /\ SocketTo(CASE SocketAt("stop") -> "stopTask" [] SocketAt("cancel") -> "cancelTask"
                [] SocketAt("close") -> "closeTask" [] OTHER -> "unregister")
  /\ UNCHANGED <<local, object, expired, forwarder, forwarders, output, asked, shown,
                 abandoned, diagnosticsSpent>>

EndTask ==
  /\ socket.step \in {"stopTask", "cancelTask", "closeTask"}
  /\ asked' = [n \in DiagSessions |-> IF n \in Named(socket.id) /\ asked[n] = "start"
                                      THEN "end" ELSE asked[n]]
  /\ CASE SocketAt("cancelTask") -> socket' = Quiet
       [] SocketAt("stopTask") -> SocketTo("stopRemove")
       [] SocketAt("closeTask") -> SocketTo("unregister")
  /\ UNCHANGED <<local, object, stored, expired, forwarder, forwarders, output, shown,
                 abandoned, diagnosticsSpent>>

\* registry.remove, here and then in Redis; after a stop the forwarder is cancelled.
Unregister ==
  /\ socket.step \in {"stopRemove", "unregister"}
  /\ local' = [local EXCEPT ![socket.id] = "none"]
  /\ SocketTo(IF SocketAt("stopRemove") THEN "stopDelete" ELSE "closeDelete")
  /\ UNCHANGED <<object, stored, expired, forwarder, forwarders, output, asked, shown,
                 abandoned, diagnosticsSpent>>

Delete ==
  /\ socket.step \in {"stopDelete", "closeDelete"}
  /\ stored' = [stored EXCEPT ![socket.id] = NotStored]
  /\ IF SocketAt("stopDelete")
     THEN /\ forwarder' = Cancelled(forwarders[socket.id])
          /\ forwarders' = [forwarders EXCEPT ![socket.id] = "none"]
          /\ socket' = Quiet
     ELSE SocketTo("closing") /\ UNCHANGED <<forwarder, forwarders>>
  /\ UNCHANGED <<local, object, expired, output, asked, shown, abandoned,
                 diagnosticsSpent>>

\* The device is not found (the browser is told, the session stays), or the task cannot
\* be created (the socket ends; what it does there is not repeated).
TaskFails ==
  /\ socket.step \in {"start", "stopTask", "cancelTask", "closeTask"}
  /\ diagnosticsSpent.fails < MaxFailed
  /\ diagnosticsSpent' = [diagnosticsSpent EXCEPT !.fails = @ + 1]
  /\ \/ ~SocketAt("closeTask") /\ socket' = Quiet
     \/ ~SocketAt("closeTask") /\ socket' = [Quiet EXCEPT !.step = "leaving"]
     \/ SocketAt("closeTask") /\ socket' = [Quiet EXCEPT !.step = "failed"]
  /\ abandoned' = IF socket.step \in {"stopTask", "cancelTask"}
             THEN abandoned \cup Named(socket.id) ELSE abandoned
  /\ UNCHANGED <<local, object, stored, expired, forwarder, forwarders, output, asked,
                 shown>>

-----------------------------------------------------------------------------
(* The forwarder sends what comes until the last chunk, the end of the     *)
(* session or a failure, then removes what is registered under its         *)
(* identifier, here and in Redis, and then from the list.                  *)

Ends(n) == /\ forwarder' = [forwarder EXCEPT ![n] = "over"]
           /\ local' = [local EXCEPT ![object[n].id] = "none"]
           /\ object' = [object EXCEPT ![n].queue = <<>>, ![n].seen = {}]

ForwardChunk(n) ==
  /\ forwarder[n] = "running" /\ n \notin expired /\ object[n].queue # <<>>
  /\ LET c == Head(object[n].queue)
     IN /\ shown' = [shown EXCEPT ![n] = @ \cup {c}]
        /\ IF c = Eof THEN Ends(n)
           ELSE /\ object' = [object EXCEPT ![n].queue = Tail(@)]
                /\ UNCHANGED <<forwarder, local>>
  /\ UNCHANGED <<stored, expired, forwarders, socket, output, asked, abandoned,
                 diagnosticsSpent>>

Deadline(n) ==
  /\ forwarder[n] = "running" /\ n \in expired
  /\ Ends(n)
  /\ UNCHANGED <<stored, expired, forwarders, socket, output, asked, shown, abandoned,
                 diagnosticsSpent>>

\* A send fails, as that to a browser that is gone, or takes longer than five seconds.
ForwardFails(n) ==
  /\ forwarder[n] = "running" /\ object[n].queue # <<>>
  /\ diagnosticsSpent.fails < MaxFailed
  /\ diagnosticsSpent' = [diagnosticsSpent EXCEPT !.fails = @ + 1]
  /\ Ends(n) /\ abandoned' = abandoned \cup {n}
  /\ UNCHANGED <<stored, expired, forwarders, socket, output, asked, shown>>

\* The finally of a forwarder that was cancelled.
Remove(n) ==
  /\ forwarder[n] = "removing"
  /\ Ends(n)
  /\ UNCHANGED <<stored, expired, forwarders, socket, output, asked, shown, abandoned,
                 diagnosticsSpent>>

RemoveStored(n) ==
  /\ forwarder[n] = "over"
  /\ forwarder' = [forwarder EXCEPT ![n] = "done"]
  /\ stored' = [stored EXCEPT ![object[n].id] = NotStored]
  /\ forwarders' = [forwarders EXCEPT ![object[n].id] = "none"]
  /\ UNCHANGED <<local, object, expired, socket, output, asked, shown, abandoned,
                 diagnosticsSpent>>

-----------------------------------------------------------------------------
(* route_output: a chunk goes to the session that is registered here.  If  *)
(* there is none, or it is closing, the session is restored from Redis, as *)
(* an object that nobody forwards.                                         *)

OpenHere(s) ==
  \/ local[s] = "restored"
  \/ local[s] \in DiagSessions \ expired /\ ~object[local[s]].closing

TakeChunk(s, c) ==
  IF local[s] \notin DiagSessions \ expired \/ c \in object[local[s]].seen THEN object
  ELSE [object EXCEPT ![local[s]].seen = @ \cup {c}, ![local[s]].queue = Append(@, c)]

Output(o, s, c) ==
  /\ output[o] = NoOutput /\ \E n \in Named(s) : asked[n] # "none"
  /\ diagnosticsSpent.outputs < MaxOutputs
  /\ diagnosticsSpent' = [diagnosticsSpent EXCEPT !.outputs = @ + 1]
  /\ IF OpenHere(s)
       THEN object' = TakeChunk(s, c) /\ UNCHANGED output
       ELSE /\ output' = [output EXCEPT ![o] =
                            [NoOutput EXCEPT !.step = "read", !.id = s, !.seq = c]]
            /\ UNCHANGED object
  /\ UNCHANGED <<local, stored, expired, forwarder, forwarders, socket, asked, shown,
                 abandoned>>

ReadStored(o) ==
  /\ output[o].step = "read"
  /\ output' = [output EXCEPT ![o].step = "restore", ![o].raw = stored[output[o].id]]
  /\ UNCHANGED <<local, object, stored, expired, forwarder, forwarders, socket, asked,
                 shown, abandoned, diagnosticsSpent>>

Restore(o) ==
  LET s == output[o].id
      raw == output[o].raw
  IN
  /\ output[o].step = "restore" /\ output' = [output EXCEPT ![o] = NoOutput]
  /\ IF raw.by \in DiagSessions \ expired /\ ~raw.closing
       THEN local' = [local EXCEPT ![s] = "restored"] /\ UNCHANGED object
       ELSE /\ object' = IF local[s] \in DiagSessions /\ object[local[s]].closing
                         THEN TakeChunk(s, output[o].seq) ELSE object
            /\ UNCHANGED local
  /\ UNCHANGED <<stored, expired, forwarder, forwarders, socket, asked, shown,
                 abandoned, diagnosticsSpent>>

-----------------------------------------------------------------------------
ExpireSession(n) ==
  /\ object[n] # Fresh /\ n \notin expired
  /\ expired' = expired \cup {n}
  /\ stored' = [s \in SessionIds |-> IF stored[s].by = n THEN NotStored ELSE stored[s]]
  /\ UNCHANGED <<local, object, forwarder, forwarders, socket, output, asked, shown,
                 abandoned, diagnosticsSpent>>

\* The revocation of the console lease removes the sessions of the device.
RevokeConsole ==
  /\ \E s \in SessionIds : local[s] # "none"
  /\ diagnosticsSpent.fails < MaxFailed
  /\ diagnosticsSpent' = [diagnosticsSpent EXCEPT !.fails = @ + 1]
  /\ local' = [s \in SessionIds |-> "none"]
  /\ stored' = [s \in SessionIds |-> NotStored]
  /\ abandoned' = abandoned \cup {n \in DiagSessions : object[n] # Fresh}
  /\ UNCHANGED <<object, expired, forwarder, forwarders, socket, output, asked, shown>>

DiagnosticsNext ==
  \/ \E n \in DiagSessions :
       \/ \E s \in SessionIds : Register(n, s)
       \/ CloseSession(n) \/ ForwardChunk(n) \/ Deadline(n) \/ ForwardFails(n)
       \/ Remove(n) \/ RemoveStored(n) \/ ExpireSession(n)
  \/ \E s \in SessionIds : StopSession(s)
  \/ StoreSession \/ StartTask \/ BrowserLeaves \/ ListForwarders \/ ClosedAll
  \/ MarkStored \/ EndTask \/ Unregister \/ Delete
  \/ TaskFails \/ RevokeConsole
  \/ \E o \in Outputs, s \in SessionIds, c \in 1..Eof : Output(o, s, c)
  \/ \E o \in Outputs : ReadStored(o) \/ Restore(o)

DiagnosticsSpec == DiagnosticsInit /\ [][DiagnosticsNext]_diagnosticsVars

-----------------------------------------------------------------------------
\* The session is over by itself.
IsOver(n) == n \in expired \/ Eof \in shown[n]

\* When the socket has closed what it had listed, the device has been asked to end each
\* session it was asked to start, unless the session was over by itself or is abandoned:
\* its send had failed, the console lease was revoked, its identifier was used again, or
\* the device could not be asked before (diagnostics_ws: finally).  Forwarders that are
\* cancelled remove their sessions while others are closed, and output that arrives late
\* brings sessions back.
StoppedWhenLeft ==
  SocketAt("left") =>
    \A n \in DiagSessions \ abandoned : asked[n] = "start" => IsOver(n)

\* The plan of the remote diagnostics: when the browser closes, the device is asked to
\* end every log and every command that still runs.
EndedOnDisconnect ==
  SocketAt("left") => \A n \in DiagSessions : asked[n] = "start" => IsOver(n)
=============================================================================
