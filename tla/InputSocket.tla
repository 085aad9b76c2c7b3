---------------------------- MODULE InputSocket ----------------------------
(***************************************************************************)
(* The remote input of one lease: its WebSocket, the HTTP requests beside  *)
(* it, the loop that cleans up, and the replies of the agent.              *)
(*                                                                         *)
(* The service runs in one worker process.  What a lease says is in a      *)
(* Redis hash and in a copy of the worker, and neither is written with the *)
(* other: a read writes the copy over the hash, a keepalive writes the     *)
(* hash and then replaces the copy.  That the lease has a socket is marked *)
(* in three places, the hash, the copy and the set _active_ws_leases.      *)
(*                                                                         *)
(* The lease is one of contract v1 and scope input.  Who gets it next is   *)
(* LeaseRegistry's subject.  Pointer moves, the queue of what the client   *)
(* is told, presence, and the entries of renewals in the registry of       *)
(* replies are left out, and so are errors of Redis.                       *)
(***************************************************************************)
EXTENDS Naturals, FiniteSets

CONSTANTS
  Clients,             \* each makes a WebSocket connection or one HTTP request
  Kinds,               \* bound: what the HTTP requests ask for
  Cleaner,             \* _remote_input_cleanup_loop
  Clicks,              \* clicks, shortcuts and keys: they wait for a reply
  None,
  MaxPending,          \* pending_max_per_lease
  MaxCrashes           \* bound of crashes

Lease == [revoked : BOOLEAN, ws : BOOLEAN, dropped : BOOLEAN]

ASSUME SocketAssumption ==
  /\ MaxPending \in Nat /\ MaxCrashes \in Nat
  /\ Clients \subseteq Nat /\ {None, Cleaner} \cap Clients = {}
  /\ None \notin Lease /\ None \notin {"open", "done", "acted", "unconfirmed", "sent"}

VARIABLES
  hash,     \* the lease in Redis; dropped: ws_disconnected_at is set
  slot,     \* the active key still names the lease
  overdue,  \* expires_at has passed
  copy,     \* the lease in _leases_by_id
  marked,   \* the lease is in _active_ws_leases
  at,       \* where every handler is
  http,     \* the clients that make an HTTP request
  entry,    \* the registry of pending replies
  future,   \* what the handler of a click waits for
  aged,     \* the clicks of more than click_ack_timeout_ms ago
  agent,    \* what became of a command: not sent, sent, or what the agent did with
            \* it; a command may be lost, a reply too or it may come more than once
  answer,   \* what the client was told of it
  crashes

lease == <<hash, slot, overdue, copy, marked>>
reply == <<entry, future, aged, agent, answer>>
rest  == <<http, crashes>>
vars  == <<lease, at, reply, rest>>

Handlers == Clients \cup {Cleaner}

At(h, pc) == at[h].pc = pc
Goto(h, next) == at' = [at EXCEPT ![h] = next]
Go(h, pc) == Goto(h, [pc |-> pc])

\* A write to a watched key spoils the transactions between WATCH and EXEC.
Spoiled(f) ==
  [h \in Handlers |-> IF f[h].pc = "touch" THEN [f[h] EXCEPT !.dirty = TRUE] ELSE f[h]]

\* Where a handler goes when its message is done, and when it fails.
Ready(h)  == [pc |-> IF h \in http THEN "closed" ELSE "idle"]
Broken(h) == [pc |-> IF h \in http THEN "closed" ELSE "bye"]

\* RedisLeaseRegistry.get with a copy: it is written over the hash and returned.
Get(h, next) ==
  /\ copy # None /\ hash' = copy
  /\ at' = Spoiled([at EXCEPT ![h] = next])
  /\ UNCHANGED <<slot, overdue, copy, marked>>

\* Without one: the hash becomes the copy, some time after it was read.
Load(h, do) ==
  /\ copy = None /\ Goto(h, [pc |-> "load", lease |-> hash, do |-> do])
  /\ UNCHANGED lease

Loaded(h, next) ==
  /\ Goto(h, next) /\ copy' = at[h].lease
  /\ UNCHANGED <<hash, slot, overdue, marked>>

Live(l) == ~l.revoked /\ ~overdue

\* What comes after the get of an operation, with the lease l.  An inactive lease
\* ends a socket that wants to keep it, and is an error to one that clicks.
Then(h, do, l) ==
  CASE do = "connect" -> [pc |-> IF Live(l) THEN "admitted" ELSE "closed"]
    [] do = "keep"    -> IF Live(l) THEN [pc |-> "keep"] ELSE Broken(h)
    [] do = "click"   -> IF Live(l) THEN [pc |-> "register"] ELSE Ready(h)
    [] do = "release" -> IF l.revoked THEN Broken(h) ELSE [pc |-> "revoke"]

Ask(h, do) ==
  (Load(h, do) \/ (copy # None /\ Get(h, Then(h, do, copy)))) /\ UNCHANGED <<reply, rest>>

Asked(h) ==
  /\ At(h, "load") /\ h # Cleaner /\ Loaded(h, Then(h, at[h].do, at[h].lease))
  /\ UNCHANGED <<reply, rest>>

-----------------------------------------------------------------------------
(* A WebSocket comes and goes *)

\* A client comes; they are alike.
Comes(h) == h \in Clients /\ At(h, "none") /\ \A g \in Clients : At(g, "none") => h <= g

Connect(s) == Comes(s) /\ s \notin http /\ Ask(s, "connect")

\* Mutant: only the copy is asked whether the lease has a socket.
TakenByCopy == copy.ws

Taken == marked \/ copy.ws

Mark(s) ==
  /\ At(s, "admitted")
  /\ \/ Taken /\ Go(s, "closed") /\ UNCHANGED lease
     \/ /\ ~Taken /\ Go(s, "marking")
        /\ copy' = [copy EXCEPT !.ws = TRUE, !.dropped = FALSE] /\ marked' = TRUE
        /\ UNCHANGED <<hash, slot, overdue>>
  /\ UNCHANGED <<reply, rest>>

MarkStored(s) ==
  /\ At(s, "marking") /\ hash' = [hash EXCEPT !.ws = TRUE, !.dropped = FALSE] /\ marked' = TRUE
  /\ at' = Spoiled([at EXCEPT ![s] = [pc |-> "subscribe"]])
  /\ UNCHANGED <<slot, overdue, copy, reply, rest>>

\* accept, the subscriptions, hello
Subscribe(s) ==
  /\ At(s, "subscribe") /\ Get(s, [pc |-> "idle"]) /\ UNCHANGED <<reply, rest>>

\* An error before the try statement that ends in the finally clause: the marks stay.
SubscribeFails(s) ==
  /\ At(s, "subscribe") /\ Go(s, "closed") /\ UNCHANGED <<lease, reply, rest>>

\* The receive loop sees the end of the connection when it is its turn.
HangUp(s) ==
  /\ At(s, "idle") /\ Go(s, "bye") /\ UNCHANGED <<lease, reply, rest>>

\* finally: mark_ws_disconnected
Unmark(s) ==
  /\ At(s, "bye") /\ Go(s, "unmarking")
  /\ copy' = [copy EXCEPT !.ws = FALSE, !.dropped = TRUE] /\ marked' = FALSE
  /\ UNCHANGED <<hash, slot, overdue, reply, rest>>

UnmarkStored(s) ==
  /\ At(s, "unmarking") /\ hash' = [hash EXCEPT !.ws = FALSE, !.dropped = TRUE]
  /\ at' = Spoiled([at EXCEPT ![s] = [pc |-> "closed"]])
  /\ UNCHANGED <<slot, overdue, copy, marked, reply, rest>>

-----------------------------------------------------------------------------
(* Messages of the socket and HTTP requests; h is the handler *)

\* The socket waits for a message, or a request comes.
Free(h, kind) ==
  \/ At(h, "idle")
  \/ Comes(h) /\ h \in http /\ kind \in Kinds

\* Those that nobody has made; the bound of clicks.
Unused == {c \in Clicks : future[c] = None}

Keepalive(h) == Free(h, "keep") /\ Ask(h, "keep")
Release(h)   == Free(h, "release") /\ Ask(h, "release")
Click(h)     == Unused # {} /\ Free(h, "click") /\ Ask(h, "click")

\* A right click looks up first whether the agent knows them.
Unsupported(h) ==
  /\ At(h, "register") /\ Goto(h, Ready(h)) /\ UNCHANGED <<lease, reply, rest>>

Full == Cardinality(entry) >= MaxPending

Register(h) ==
  /\ At(h, "register")
  /\ \/ Full /\ Goto(h, Broken(h)) /\ UNCHANGED <<entry, future>>
     \/ \E c \in Unused :
          /\ ~Full /\ \A d \in Unused : c <= d
          /\ Goto(h, [pc |-> "publish", c |-> c])
          /\ entry' = entry \cup {c} /\ future' = [future EXCEPT ![c] = "open"]
  /\ UNCHANGED <<lease, aged, agent, answer, rest>>

Publish(h) ==
  /\ At(h, "publish")
  /\ agent' = [agent EXCEPT ![at[h].c] = "sent"] /\ Goto(h, [pc |-> "wait", c |-> at[h].c])
  /\ UNCHANGED <<lease, entry, future, aged, answer, rest>>

\* An error of the broker ends the socket; the entry stays.
PublishFails(h) ==
  /\ at[h].pc \in {"publish", "renew"} /\ Goto(h, Broken(h))
  /\ UNCHANGED <<lease, reply, rest>>

Answered(h) ==
  /\ At(h, "wait")
  /\ LET c == at[h].c
     IN  /\ future[c] # "open"
         /\ answer' = [answer EXCEPT ![c] = future[c]]
         /\ future' = [future EXCEPT ![c] = "done"]
  /\ Goto(h, Ready(h)) /\ UNCHANGED <<lease, entry, aged, agent, rest>>

\* wait_for: the future is cancelled, its entry stays.
TimeOut(h) ==
  /\ At(h, "wait")
  /\ LET c == at[h].c
     IN  /\ future[c] = "open" /\ c \in aged
         /\ future' = [future EXCEPT ![c] = "done"]
         /\ answer' = [answer EXCEPT ![c] = "unconfirmed"]
  /\ Goto(h, Ready(h)) /\ UNCHANGED <<lease, entry, aged, agent, rest>>

\* Mutant: who has the device is not asked again.
KeptIfLive == Live(hash)

Kept == Live(hash) /\ slot

\* RedisLeaseRegistry.touch: WATCH, HGETALL and GET of the active key
Touch(h) ==
  /\ At(h, "keep")
  /\ IF Kept THEN Goto(h, [pc |-> "touch", lease |-> hash, dirty |-> FALSE])
                           ELSE Goto(h, Broken(h))
  /\ UNCHANGED <<lease, reply, rest>>

\* It is tried again, five times at most.
TouchExec(h) ==
  /\ At(h, "touch")
  /\ \/ /\ at[h].dirty /\ (Go(h, "keep") \/ Goto(h, Broken(h)))
        /\ UNCHANGED <<hash, overdue>>
     \/ /\ ~at[h].dirty /\ hash' = at[h].lease /\ overdue' = FALSE
        /\ at' = Spoiled([at EXCEPT ![h] = [pc |-> "touched", lease |-> at[h].lease]])
  /\ UNCHANGED <<slot, copy, marked, reply, rest>>

Touched(h) ==
  /\ At(h, "touched") /\ copy' = at[h].lease
  /\ Go(h, "renew") /\ UNCHANGED <<hash, slot, overdue, marked, reply, rest>>

\* The renewal is published, and the lease read again.
Renew(h) ==
  /\ At(h, "renew") /\ Get(h, IF copy.revoked THEN Broken(h) ELSE Ready(h))
  /\ UNCHANGED <<reply, rest>>

-----------------------------------------------------------------------------
(* revoke, by a release or by the loop *)

AfterRevoke(h) == [pc |-> IF h = Cleaner THEN "none" ELSE "cancel"]

\* What is between the read and the transaction changes marks only, and nobody
\* looks at those of a revoked lease.
Revoke(h) ==
  /\ At(h, "revoke")
  /\ \/ hash.revoked /\ Goto(h, AfterRevoke(h)) /\ UNCHANGED <<hash, slot>>
     \/ /\ ~hash.revoked /\ hash' = [hash EXCEPT !.revoked = TRUE] /\ slot' = FALSE
        /\ at' = Spoiled([at EXCEPT ![h] = [pc |-> "revoked"]])
  /\ UNCHANGED <<overdue, copy, marked, reply, rest>>

Revoked(h) ==
  /\ At(h, "revoked") /\ copy' = [hash EXCEPT !.revoked = TRUE] /\ marked' = FALSE
  /\ Goto(h, AfterRevoke(h)) /\ UNCHANGED <<hash, slot, overdue, reply, rest>>

\* The entries S leave the registry; who still waits is told.
Resolve(S, f) ==
  /\ entry' = entry \ S /\ aged' = aged \ S
  /\ future' = [c \in Clicks |-> IF c \in S /\ future[c] = "open" THEN f ELSE future[c]]

\* release: PendingCommandRegistry.cancel_for_lease
Cancel(h) ==
  /\ At(h, "cancel") /\ Resolve(entry, "unconfirmed") /\ Goto(h, Broken(h))
  /\ UNCHANGED <<lease, agent, answer, rest>>

-----------------------------------------------------------------------------
(* The loop: cleanup_expired, then PendingCommandRegistry.expire *)

\* cleanup_expired decides on what the lease says when it is read.  A lease with
\* a running stream outlives its socket, and the grace period may not be over.
Decision(l, next) ==
  \/ (overdue \/ (~l.ws /\ l.dropped)) /\ next = "revoke"
  \/ ~overdue /\ next = "none"

\* Mutant: an entry whose handler is gone is taken for answered.
ExpiredOpen == {c \in entry \cap aged : future[c] = "open"}

Expired == entry \cap aged

\* The replies that are late go at the start of the next round.
Round ==
  /\ At(Cleaner, "none")
  /\ \/ ~slot /\ UNCHANGED <<lease, at>>
     \/ slot /\ Load(Cleaner, "round")
     \/ /\ slot /\ copy # None
        /\ \E next \in {"revoke", "none"} : Decision(copy, next) /\ Get(Cleaner, [pc |-> next])
  /\ Resolve(Expired, "unconfirmed")
  /\ UNCHANGED <<agent, answer, rest>>

RoundLoaded ==
  /\ At(Cleaner, "load")
  /\ \E next \in {"revoke", "none"} :
       Decision(at[Cleaner].lease, next) /\ Loaded(Cleaner, [pc |-> next])
  /\ UNCHANGED <<reply, rest>>

-----------------------------------------------------------------------------
(* The agent and its replies *)

Act(c) ==
  /\ agent[c] = "sent" /\ agent' = [agent EXCEPT ![c] = "acted"]
  /\ UNCHANGED <<lease, at, entry, future, aged, answer, rest>>

\* Mutant: a reply answers whatever the lease waits for.
MatchesLease(c) == entry

Matches(c) == entry \cap {c}

\* handle_device_ctl_message: PendingCommandRegistry.resolve
Reply(c) ==
  /\ agent[c] = "acted" /\ Resolve(Matches(c), "acted")
  /\ UNCHANGED <<lease, at, agent, answer, rest>>

-----------------------------------------------------------------------------
(* Time and crashes *)

Age(c) ==
  /\ c \in entry \ aged /\ aged' = aged \cup {c}
  /\ UNCHANGED <<lease, at, entry, future, agent, answer, rest>>

Overdue ==
  /\ slot /\ ~overdue /\ overdue' = TRUE
  /\ UNCHANGED <<hash, slot, copy, marked, at, reply, rest>>

\* The active key lives as long as the lease, or a little longer.
SlotExpires ==
  /\ slot /\ overdue /\ slot' = FALSE /\ at' = Spoiled(at)
  /\ UNCHANGED <<hash, overdue, copy, marked, reply, rest>>

Crash ==
  /\ crashes < MaxCrashes /\ crashes' = crashes + 1
  /\ copy' = None /\ marked' = FALSE /\ Resolve(entry, "done")
  /\ at' = [h \in Handlers |->
       [pc |-> IF h # Cleaner /\ at[h].pc # "none" THEN "closed" ELSE "none"]]
  /\ UNCHANGED <<hash, slot, overdue, agent, answer, http>>

-----------------------------------------------------------------------------

\* What a handler does once it has begun.
Step(h) ==
  \/ Asked(h) \/ Mark(h) \/ MarkStored(h) \/ Subscribe(h)
  \/ Unmark(h) \/ UnmarkStored(h)
  \/ Unsupported(h) \/ Register(h) \/ Publish(h) \/ Answered(h) \/ TimeOut(h)
  \/ Touch(h) \/ TouchExec(h) \/ Touched(h) \/ Renew(h)
  \/ Revoke(h) \/ Revoked(h) \/ Cancel(h)

Loop == Round \/ RoundLoaded \/ Step(Cleaner)

Next ==
  \/ \E h \in Clients :
       \/ Connect(h) \/ SubscribeFails(h) \/ HangUp(h) \/ Step(h) \/ PublishFails(h)
       \/ Keepalive(h) \/ Release(h) \/ Click(h)
  \/ Loop
  \/ \E c \in Clicks : Act(c) \/ Reply(c) \/ Age(c)
  \/ Overdue \/ SlotExpires \/ Crash

Init ==
  /\ hash = [revoked |-> FALSE, ws |-> FALSE, dropped |-> FALSE] /\ copy = hash
  /\ slot = TRUE /\ overdue = FALSE /\ marked = FALSE
  /\ at = [h \in Handlers |-> [pc |-> "none"]]
  /\ entry = {} /\ aged = {}
  /\ future = [c \in Clicks |-> None] /\ agent = future /\ answer = future
  /\ crashes = 0 /\ http \in SUBSET Clients

Spec == Init /\ [][Next]_vars

\* The process is scheduled, and its loop and its timers run.  Nothing is assumed of
\* the clients and of the agent.
FairSpec ==
  /\ Spec /\ WF_vars(Loop) /\ WF_vars(\E c \in Clicks : Age(c))
  /\ \A h \in Clients : WF_vars(Step(h))

-----------------------------------------------------------------------------
(* Properties *)

Place ==
  [pc : {"none", "admitted", "marking", "subscribe", "idle", "bye", "unmarking", "closed",
         "register", "keep", "renew", "revoke", "revoked", "cancel"}]
    \cup [pc : {"load"}, lease : Lease,
          do : {"connect", "keep", "click", "release", "round"}]
    \cup [pc : {"publish", "wait"}, c : Clicks]
    \cup [pc : {"touch"}, lease : Lease, dirty : BOOLEAN]
    \cup [pc : {"touched"}, lease : Lease]

\* The lease, the handlers and the registry of replies have their types.
TypeOK ==
  /\ hash \in Lease /\ copy \in Lease \cup {None}
  /\ slot \in BOOLEAN /\ overdue \in BOOLEAN /\ marked \in BOOLEAN
  /\ at \in [Handlers -> Place] /\ http \subseteq Clients
  /\ entry \subseteq Clicks /\ aged \subseteq Clicks
  /\ future \in [Clicks -> {None, "open", "done", "acted", "unconfirmed"}]
  /\ agent \in [Clicks -> {None, "sent", "acted"}]
  /\ answer \in [Clicks -> {None, "done", "acted", "unconfirmed"}]
  /\ crashes \in 0..MaxCrashes

Serving(s) == s \notin http /\ at[s].pc \notin {"none", "load", "admitted", "unmarking", "closed"}

\* While the lease is the device's, at most one connection is served, whatever
\* became of the marks in the copy and the hash.
OneSocket ==
  slot => \A s, t \in Clients : Serving(s) /\ Serving(t) => s = t

\* The client is told what the agent did with a click, injected or refused, only
\* if the agent has said so of this very click.
AnswersTrue ==
  \A c \in Clicks : answer[c] = "acted" => agent[c] = "acted"

KeptNow(s) == At(s, "keep") \/ At(s, "touch")

\* The end of a lease is final for a keepalive, even for one that has read the lease
\* before, and although the hash and the copy may call it live again: the socket is
\* ended, not renewed.  (One whose client is silent is served on.)
KeepaliveRefused == \A s \in Clients : ~slot /\ KeptNow(s) ~> ~Serving(s)

\* A click leaves the registry of replies, which takes MaxPending, whether its answer
\* comes, its handler gives up or its socket breaks before it waits.
PendingDrains == \A c \in Clicks : c \in entry ~> c \notin entry
=============================================================================
