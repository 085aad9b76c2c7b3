--------------------------- MODULE InputSocketProofs ---------------------------
(***************************************************************************)
(* One socket at a time, and answers that are true, for any number of      *)
(* clients, requests and clicks, and whatever the marks of the lease say.  *)
(*                                                                         *)
(* What keeps a second socket out is the set of the worker alone: while    *)
(* the lease has its slot, a socket that is served is in it.  The copy and *)
(* the hash, which are written over each other, are not needed.  A click   *)
(* is published once, by the handler that has its entry; what a future     *)
(* says was said of its own click.                                         *)
(***************************************************************************)
EXTENDS InputSocket, TLAPS

Connection == {"admitted", "marking", "subscribe", "idle", "bye", "unmarking"}

\* The loop only cleans up, a request is never a connection, and a connection reads
\* the lease without a copy when it begins only.
Allowed(h, p) ==
  /\ h = Cleaner => p.pc \in {"none", "load", "revoke", "revoked"}
  /\ h \in http => p.pc \notin Connection
  /\ p.pc = "load" => \/ h = Cleaner /\ p.do = "round"
                      \/ h \in http /\ p.do \in {"keep", "click", "release"}
                      \/ h \in Clients \ http /\ p.do = "connect"

Paths == \A h \in Handlers : Allowed(h, at[h])

\* Who has read the lease has left a copy.
Copied ==
  \A h \in Handlers : at[h].pc \notin {"none", "load", "closed"} => copy # None

\* A socket that is served is in the set of the worker, alone, until the slot is
\* gone; the set is emptied by a revocation only after that.
Marks ==
  /\ \A h \in Handlers : At(h, "revoked") => ~slot
  /\ slot => \A s \in Clients : Serving(s) => marked
  /\ OneSocket

\* A click that is not published yet is in one handler, and was never sent.
Replies ==
  \A c \in Clicks :
    /\ future[c] = "acted" \/ answer[c] = "acted" => agent[c] = "acted"
    /\ future[c] = None => agent[c] = None
    /\ \A h \in Handlers : At(h, "publish") /\ at[h].c = c =>
         /\ agent[c] = None /\ future[c] # None
         /\ \A g \in Handlers : At(g, "publish") /\ at[g].c = c => g = h

IndInv == TypeOK /\ Paths /\ Copied /\ Marks /\ Replies

ReplyType ==
  /\ entry \subseteq Clicks /\ aged \subseteq Clicks
  /\ future \in [Clicks -> {None, "open", "done", "acted", "unconfirmed"}]
  /\ agent \in [Clicks -> {None, "sent", "acted"}]
  /\ answer \in [Clicks -> {None, "done", "acted", "unconfirmed"}]

Away == {"none", "load", "admitted", "unmarking", "closed"}

-----------------------------------------------------------------------------
(* Where a step puts a handler *)

LEMMA PlaceForm ==
  ASSUME NEW p \in Place
  PROVE  /\ p.pc = "load" => p \in [pc : {"load"}, lease : Lease,
                                    do : {"connect", "keep", "click", "release", "round"}]
         /\ p.pc \in {"publish", "wait"} => p \in [pc : {"publish", "wait"}, c : Clicks]
         /\ p.pc = "touch" => p \in [pc : {"touch"}, lease : Lease, dirty : BOOLEAN]
         /\ p.pc = "touched" => p \in [pc : {"touched"}, lease : Lease]
BY DEF Place

LEMMA Simple ==
  ASSUME NEW pc \in {"none", "admitted", "marking", "subscribe", "idle", "bye", "unmarking",
                     "closed", "register", "keep", "renew", "revoke", "revoked", "cancel"}
  PROVE  [pc |-> pc] \in Place
BY DEF Place

LEMMA SpoiledPlaces ==
  ASSUME NEW f \in [Handlers -> Place]
  PROVE  /\ Spoiled(f) \in [Handlers -> Place]
         /\ \A h \in Handlers : /\ Spoiled(f)[h].pc = f[h].pc
                                /\ f[h].pc # "touch" => Spoiled(f)[h] = f[h]
<1>1. ASSUME NEW h \in Handlers, f[h].pc = "touch"
      PROVE  [f[h] EXCEPT !.dirty = TRUE] \in Place /\ [f[h] EXCEPT !.dirty = TRUE].pc = "touch"
  <2>1. f[h] \in [pc : {"touch"}, lease : Lease, dirty : BOOLEAN]
    BY <1>1, PlaceForm
  <2> QED BY <2>1 DEF Place
<1> QED BY <1>1 DEF Spoiled

\* Only h has moved, and the others are where they were.
Moved(h, p) ==
  /\ at' \in [Handlers -> Place]
  /\ at'[h].pc = p.pc /\ (p.pc # "touch" => at'[h] = p)
  /\ \A g \in Handlers :
       g # h => at'[g].pc = at[g].pc /\ (at[g].pc # "touch" => at'[g] = at[g])

LEMMA StepMoves ==
  ASSUME TypeOK, NEW h \in Handlers, NEW p \in Place,
         at' = [at EXCEPT ![h] = p] \/ at' = Spoiled([at EXCEPT ![h] = p])
  PROVE  Moved(h, p)
<1> DEFINE f == [at EXCEPT ![h] = p]
<1>1. /\ f \in [Handlers -> Place] /\ f[h] = p
      /\ \A g \in Handlers \ {h} : f[g] = at[g]
  BY DEF TypeOK
<1> HIDE DEF f
<1>2. CASE at' = f
  BY <1>1, <1>2 DEF Moved
<1>3. CASE at' = Spoiled(f)
  BY <1>1, <1>3, SpoiledPlaces DEF Moved
<1> QED BY <1>2, <1>3 DEF f

LEMMA HandlerKeeps ==
  ASSUME IndInv, NEW h \in Handlers, NEW p \in Place, Moved(h, p),
         hash' \in Lease, copy' \in Lease \cup {None}, copy # None => copy' # None,
         slot' \in {slot, FALSE}, overdue' \in BOOLEAN, marked' \in BOOLEAN,
         UNCHANGED rest, ReplyType', Replies',
         p.pc \notin {"none", "load", "closed"} => copy' # None,
         Allowed(h, p),
         p.pc = "revoked" => ~slot',
         slot' => \/ marked => marked'
                  \/ \A s \in Clients \ {h} : ~Serving(s),
         slot' /\ h \in Clients \ http /\ p.pc \notin Away =>
           marked' /\ (Serving(h) \/ \A s \in Clients \ {h} : ~Serving(s))
  PROVE  IndInv'
<1>0. Clients \subseteq Handlers
  BY DEF Handlers
<1>1. TypeOK'
  BY DEF IndInv, TypeOK, ReplyType, Moved, rest
<1>a. ASSUME NEW g \in Handlers, g # h
      PROVE  at'[g].pc = at[g].pc /\ (at[g].pc # "touch" => at'[g] = at[g])
  BY <1>a DEF Moved
<1>b. at'[h].pc = p.pc /\ (p.pc # "touch" => at'[h] = p) /\ http' = http
  BY DEF Moved, rest
<1>2. Paths'
  <2> SUFFICES ASSUME NEW g \in Handlers PROVE Allowed(g, at'[g])
    BY <1>b DEF Paths, Allowed
  <2>1. CASE g = h
    BY <1>b, <2>1 DEF Allowed, Connection
  <2>2. CASE g # h
    BY <1>a, <2>2 DEF IndInv, Paths, Allowed
  <2> QED BY <2>1, <2>2
<1>3. Copied'
  <2> SUFFICES ASSUME NEW g \in Handlers, at'[g].pc \notin {"none", "load", "closed"}
               PROVE  copy' # None
    BY DEF Copied
  <2>1. CASE g = h
    BY <1>b, <2>1
  <2>2. CASE g # h
    BY <1>a, <2>2 DEF IndInv, Copied
  <2> QED BY <2>1, <2>2
<1>4. slot' => slot
  BY DEF IndInv, TypeOK
<1>5. \A s \in Clients \ {h} : Serving(s)' => Serving(s)
  <2> SUFFICES ASSUME NEW s \in Clients, s # h, Serving(s)' PROVE Serving(s)
    OBVIOUS
  <2>1. at'[s].pc = at[s].pc
    BY <1>0, <1>a
  <2> QED BY <1>b, <2>1 DEF Serving
<1>6. h \in Clients /\ Serving(h)' => h \in Clients \ http /\ p.pc \notin Away
  BY DEF Moved, Serving, Away, rest
<1>7. Marks'
  <2>1. ASSUME NEW g \in Handlers, At(g, "revoked")' PROVE ~slot'
    <3>1. CASE g = h
      BY <2>1, <3>1 DEF Moved, At
    <3>2. CASE g # h
      BY <1>4, <1>a, <2>1, <3>2 DEF IndInv, Marks, At
    <3> QED BY <3>1, <3>2
  <2>2. ASSUME slot', NEW s \in Clients, Serving(s)' PROVE marked'
    <3>1. CASE s = h
      BY <1>6, <2>2, <3>1
    <3>2. CASE s # h
      <4>1. Serving(s) /\ marked
        BY <1>4, <1>5, <2>2, <3>2 DEF IndInv, Marks
      <4> QED BY <2>2, <3>2, <4>1
    <3> QED BY <3>1, <3>2
  <2>3. ASSUME slot', NEW s \in Clients, NEW t \in Clients, Serving(s)', Serving(t)' PROVE s = t
    <3>1. CASE s # h /\ t # h
      BY <1>4, <1>5, <2>3, <3>1 DEF IndInv, Marks, OneSocket
    <3>2. ASSUME NEW u \in Clients \ {h}, Serving(h)', Serving(u)', h \in Clients PROVE FALSE
      BY <1>4, <1>5, <1>6, <2>3, <3>2 DEF IndInv, Marks, OneSocket
    <3> QED BY <2>3, <3>1, <3>2
  <2> QED BY <2>1, <2>2, <2>3 DEF Marks, OneSocket
<1> QED BY <1>1, <1>2, <1>3, <1>7 DEF IndInv

LEMMA RepliesSame ==
  ASSUME IndInv, NEW h \in Handlers, NEW p \in Place, Moved(h, p), UNCHANGED reply,
         p.pc # "publish"
  PROVE  ReplyType' /\ Replies'
<1>1. UNCHANGED <<entry, future, aged, agent, answer>>
  BY DEF reply
<1>2. ReplyType'
  BY <1>1 DEF IndInv, TypeOK, ReplyType
<1>3. \A g \in Handlers : At(g, "publish")' => At(g, "publish") /\ at'[g] = at[g]
  <2> SUFFICES ASSUME NEW g \in Handlers, at'[g].pc = "publish"
               PROVE  at[g].pc = "publish" /\ at'[g] = at[g]
    BY DEF At
  <2>1. g # h
    BY DEF Moved
  <2>2. at'[g].pc = at[g].pc /\ (at[g].pc # "touch" => at'[g] = at[g])
    BY <2>1 DEF Moved
  <2> QED BY <2>2
<1>4. Replies'
  BY <1>1, <1>3 DEF IndInv, Replies
<1> QED BY <1>2, <1>4

-----------------------------------------------------------------------------
(* The steps of handlers that leave the replies alone *)

LEMMA ThenForm ==
  ASSUME NEW h \in Handlers, NEW l, NEW do \in {"connect", "keep", "click", "release"}
  PROVE  /\ Then(h, do, l) \in Place
         /\ Then(h, do, l).pc \notin {"none", "load", "publish", "touch", "revoked"}
         /\ do = "connect" => Then(h, do, l).pc \in {"admitted", "closed"}
         /\ do # "connect" => Then(h, do, l).pc \in {"closed", "bye", "idle", "keep",
                                                       "register", "revoke"}
         /\ h \in http /\ do # "connect" => Then(h, do, l).pc \notin Connection
BY Simple DEF Then, Broken, Ready, Connection

LEMMA ReadyForm ==
  ASSUME NEW h \in Handlers
  PROVE  /\ Ready(h) \in Place /\ Broken(h) \in Place
         /\ Ready(h).pc = (IF h \in http THEN "closed" ELSE "idle")
         /\ Broken(h).pc = (IF h \in http THEN "closed" ELSE "bye")
BY Simple DEF Ready, Broken

LEMMA Busy ==
  ASSUME IndInv, NEW h \in Handlers, at[h].pc \notin {"none", "load", "closed"}
  PROVE  copy \in Lease
BY DEF IndInv, TypeOK, Copied

LEMMA Quiet ==
  ASSUME IndInv, NEW h \in Handlers, NEW p \in Place,
         at' = [at EXCEPT ![h] = p] \/ at' = Spoiled([at EXCEPT ![h] = p]),
         UNCHANGED <<slot, marked, reply, rest>>,
         hash' \in Lease, copy' \in Lease, overdue' \in BOOLEAN,
         Allowed(h, p), p.pc \notin {"load", "publish", "revoked"},
         h \in Clients \ http => Serving(h) \/ p.pc \in Away
  PROVE  IndInv'
<1>1. Moved(h, p)
  BY StepMoves DEF IndInv
<1>2. ReplyType' /\ Replies'
  BY <1>1, RepliesSame
<1>3. copy' \in Lease \cup {None} /\ copy' # None
  BY SocketAssumption DEF Lease, IndInv, TypeOK
<1>4. slot' \in {slot, FALSE} /\ marked' \in BOOLEAN /\ UNCHANGED rest
  BY DEF IndInv, TypeOK
<1>5. slot' /\ h \in Clients \ http /\ p.pc \notin Away =>
        marked' /\ (Serving(h) \/ \A s \in Clients \ {h} : ~Serving(s))
  BY DEF IndInv, Marks
<1> QED BY <1>1, <1>2, <1>3, <1>4, <1>5, HandlerKeeps

\* A keepalive, a release, a click or a new connection begins.
LEMMA AskKeeps ==
  ASSUME IndInv, NEW h \in Clients, NEW do \in {"connect", "keep", "click", "release"},
         Ask(h, do),
         \/ at[h].pc = "none" /\ h \in http /\ do # "connect"
         \/ at[h].pc = "none" /\ h \notin http /\ do = "connect"
         \/ at[h].pc = "idle" /\ do # "connect"
  PROVE  IndInv'
<1>0. h \in Handlers /\ h # Cleaner
  BY SocketAssumption DEF Handlers
<1>1. at[h].pc = "idle" => h \notin http /\ Serving(h) /\ copy # None
  BY <1>0 DEF IndInv, Paths, Allowed, Connection, Serving, Copied
<1>2. CASE Load(h, do)
  <2> DEFINE p == [pc |-> "load", lease |-> hash, do |-> do]
  <2>1. p \in Place /\ p.pc = "load" /\ p.do = do
    BY DEF Place, IndInv, TypeOK
  <2> HIDE DEF p
  <2>2. at' = [at EXCEPT ![h] = p] /\ UNCHANGED <<lease, reply, rest>> /\ copy = None
    BY <1>2 DEF Load, Goto, Ask, p
  <2>3. Moved(h, p)
    BY <1>0, <2>1, <2>2, StepMoves DEF IndInv
  <2>4. Allowed(h, p)
    BY <1>0, <1>1, <2>1, <2>2 DEF Allowed, Connection
  <2>5. ReplyType' /\ Replies'
    BY <1>0, <2>1, <2>2, <2>3, RepliesSame
  <2>6. hash' \in Lease /\ copy' \in Lease \cup {None} /\ overdue' \in BOOLEAN
        /\ slot' \in {slot, FALSE} /\ marked' \in BOOLEAN /\ marked' = marked
    BY <2>2 DEF lease, IndInv, TypeOK
  <2> QED BY <1>0, <2>1, <2>2, <2>3, <2>4, <2>5, <2>6, HandlerKeeps DEF Away
<1>3. CASE copy # None /\ Get(h, Then(h, do, copy))
  <2> DEFINE p == Then(h, do, copy)
  <2>1. /\ p \in Place /\ p.pc \notin {"none", "load", "publish", "touch", "revoked"}
        /\ do = "connect" => p.pc \in {"admitted", "closed"}
        /\ h \in http /\ do # "connect" => p.pc \notin Connection
    BY <1>0, ThenForm
  <2> HIDE DEF p
  <2>2. at' = Spoiled([at EXCEPT ![h] = p]) /\ hash' = copy
        /\ UNCHANGED <<slot, overdue, copy, marked, reply, rest>>
    BY <1>3 DEF Get, Ask, p
  <2>3. Allowed(h, p)
    BY <1>0, <1>1, <2>1 DEF Allowed
  <2>4. h \in Clients \ http => Serving(h) \/ p.pc \in Away
    BY <1>1, <2>1 DEF Away
  <2>5. hash' \in Lease /\ copy' \in Lease /\ overdue' \in BOOLEAN
    BY <1>3, <2>2 DEF IndInv, TypeOK
  <2> QED BY <1>0, <2>1, <2>2, <2>3, <2>4, <2>5, Quiet
<1> QED BY <1>2, <1>3 DEF Ask

LEMMA Beginnings ==
  ASSUME IndInv, NEW h \in Clients,
         Connect(h) \/ Keepalive(h) \/ Release(h) \/ Click(h)
  PROVE  IndInv'
<1>1. CASE Connect(h)
  BY <1>1, AskKeeps DEF Connect, Comes, At
<1>2. CASE Keepalive(h)
  BY <1>2, AskKeeps DEF Keepalive, Free, Comes, At
<1>3. CASE Release(h)
  BY <1>3, AskKeeps DEF Release, Free, Comes, At
<1>4. CASE Click(h)
  BY <1>4, AskKeeps DEF Click, Free, Comes, At
<1> QED BY <1>1, <1>2, <1>3, <1>4

\* The goal of a handler's quiet step with its new place.
Calm(h, p) ==
  /\ p \in Place /\ (at' = [at EXCEPT ![h] = p] \/ at' = Spoiled([at EXCEPT ![h] = p]))
  /\ UNCHANGED <<slot, marked, reply, rest>>
  /\ hash' \in Lease /\ copy' \in Lease /\ overdue' \in BOOLEAN
  /\ Allowed(h, p) /\ p.pc \notin {"load", "publish", "revoked"}
  /\ h \in Clients \ http => Serving(h) \/ p.pc \in Away

LEMMA CalmKeeps ==
  ASSUME IndInv, NEW h \in Handlers, NEW p, Calm(h, p)
  PROVE  IndInv'
BY Quiet DEF Calm

\* Where a handler is that is neither the loop nor at the start.
LEMMA Begun ==
  ASSUME IndInv, NEW h \in Handlers, at[h].pc \notin {"none", "load", "closed"}
  PROVE  /\ copy \in Lease /\ hash \in Lease /\ overdue \in BOOLEAN
         /\ at[h].pc \notin {"revoke", "revoked"} => h # Cleaner
         /\ h \in Clients \ http => Serving(h) \/ at[h].pc \in {"admitted", "unmarking"}
         /\ h \in http => at[h].pc \notin Connection
         /\ Cleaner \notin http /\ Cleaner \notin Clients
BY Busy, SocketAssumption DEF IndInv, TypeOK, Paths, Allowed, Serving, Away

LEMMA Backs ==
  ASSUME IndInv, NEW h \in Handlers, h # Cleaner
  PROVE  /\ Allowed(h, Ready(h)) /\ Allowed(h, Broken(h))
         /\ h \in Clients \ http => Ready(h).pc = "idle" /\ Broken(h).pc = "bye"
BY ReadyForm DEF Allowed, Connection

LEMMA AskedKeeps ==
  ASSUME IndInv, NEW h \in Handlers, Asked(h)
  PROVE  IndInv'
<1>1. /\ at[h] \in [pc : {"load"}, lease : Lease,
                    do : {"connect", "keep", "click", "release", "round"}]
      /\ h # Cleaner /\ h \in Clients /\ Allowed(h, at[h])
  BY PlaceForm DEF Asked, At, IndInv, TypeOK, Paths, Handlers
<1> DEFINE p == Then(h, at[h].do, at[h].lease)
<1>2. at[h].do \in {"connect", "keep", "click", "release"}
      /\ (at[h].do = "connect" => h \in Clients \ http)
      /\ (h \in Clients \ http => at[h].do = "connect")
  BY <1>1 DEF Allowed
<1>3. /\ p \in Place /\ p.pc \notin {"none", "load", "publish", "touch", "revoked"}
      /\ at[h].do = "connect" => p.pc \in {"admitted", "closed"}
      /\ h \in http /\ at[h].do # "connect" => p.pc \notin Connection
  BY <1>2, ThenForm
<1>4. at' = [at EXCEPT ![h] = p] /\ copy' = at[h].lease
      /\ UNCHANGED <<hash, slot, overdue, marked, reply, rest>>
  BY DEF Asked, Loaded, Goto
<1> HIDE DEF p
<1>5. Allowed(h, p) /\ (h \in Clients \ http => p.pc \in Away)
  BY <1>1, <1>2, <1>3 DEF Allowed, Away
<1>6. hash' \in Lease /\ copy' \in Lease /\ overdue' \in BOOLEAN
  BY <1>1, <1>4 DEF IndInv, TypeOK
<1>7. Calm(h, p)
  BY <1>3, <1>4, <1>5, <1>6 DEF Calm
<1> QED BY <1>7, CalmKeeps

LEMMA ConnectionQuiet ==
  ASSUME IndInv, NEW h \in Handlers,
         Subscribe(h) \/ SubscribeFails(h) \/ HangUp(h) \/ UnmarkStored(h)
  PROVE  IndInv'
<1>1. CASE Subscribe(h)
  <2>1. Calm(h, [pc |-> "idle"])
    BY <1>1, Begun, Simple DEF Subscribe, Get, At, Calm, Allowed, Connection
  <2> QED BY <2>1, CalmKeeps
<1>2. CASE HangUp(h)
  <2>1. Calm(h, [pc |-> "bye"])
    BY <1>2, Begun, Simple DEF HangUp, Go, Goto, At, Calm, Allowed, Connection, lease
  <2> QED BY <2>1, CalmKeeps
<1>3. CASE UnmarkStored(h)
  <2>1. [hash EXCEPT !.ws = FALSE, !.dropped = TRUE] \in Lease
    BY DEF Lease, IndInv, TypeOK
  <2>2. Calm(h, [pc |-> "closed"])
    BY <1>3, <2>1, Begun, Simple DEF UnmarkStored, At, Calm, Allowed, Connection, Away
  <2> QED BY <2>2, CalmKeeps
<1>4. CASE SubscribeFails(h)
  <2>1. Calm(h, [pc |-> "closed"])
    BY <1>4, Begun, Simple DEF SubscribeFails, Go, Goto, At, Calm, Allowed, Connection, lease,
       Away
  <2> QED BY <2>1, CalmKeeps
<1> QED BY <1>1, <1>2, <1>3, <1>4

LEMMA MessagesQuiet ==
  ASSUME IndInv, NEW h \in Handlers,
         Unsupported(h) \/ PublishFails(h) \/ Touch(h) \/ TouchExec(h) \/ Touched(h) \/ Renew(h)
  PROVE  IndInv'
<1>0. /\ copy \in Lease /\ hash \in Lease /\ overdue \in BOOLEAN
      /\ h # Cleaner /\ (h \in Clients \ http => Serving(h))
      /\ Allowed(h, Ready(h)) /\ Allowed(h, Broken(h)) /\ Ready(h) \in Place /\ Broken(h) \in Place
      /\ Ready(h).pc \notin {"load", "publish", "revoked"}
      /\ Broken(h).pc \notin {"load", "publish", "revoked"}
  BY Begun, Backs, ReadyForm
     DEF Unsupported, PublishFails, Touch, TouchExec, Touched, Renew, At
<1>1. CASE Unsupported(h)
  <2>1. Calm(h, Ready(h))
    BY <1>0, <1>1 DEF Unsupported, Goto, Calm, lease
  <2> QED BY <2>1, CalmKeeps
<1>2. CASE PublishFails(h)
  <2>1. Calm(h, Broken(h))
    BY <1>0, <1>2 DEF PublishFails, Goto, Calm, lease
  <2> QED BY <2>1, CalmKeeps
<1>3. CASE Touch(h)
  <2> DEFINE p == [pc |-> "touch", lease |-> hash, dirty |-> FALSE]
  <2>1. p \in Place /\ p.pc = "touch"
    BY <1>0 DEF Place
  <2>2. at' = [at EXCEPT ![h] = p] \/ at' = [at EXCEPT ![h] = Broken(h)]
    BY <1>3 DEF Touch, Goto
  <2> HIDE DEF p
  <2>3. Calm(h, p) \/ Calm(h, Broken(h))
    BY <1>0, <1>3, <2>1, <2>2 DEF Touch, Calm, lease, Allowed, Connection
  <2> QED BY <2>3, CalmKeeps
<1>4. CASE TouchExec(h)
  <2> DEFINE p == [pc |-> "touched", lease |-> at[h].lease]
  <2>1. at[h].lease \in Lease /\ p \in Place /\ p.pc = "touched"
    <3>1. at[h] \in [pc : {"touch"}, lease : Lease, dirty : BOOLEAN]
      BY <1>4, PlaceForm DEF TouchExec, At, IndInv, TypeOK
    <3> QED BY <3>1 DEF Place
  <2> HIDE DEF p
  <2>2. CASE Go(h, "keep") /\ UNCHANGED <<hash, overdue>>
    <3>1. Calm(h, [pc |-> "keep"])
      BY <1>0, <1>4, <2>2, Simple DEF TouchExec, Go, Goto, Calm, Allowed, Connection
    <3> QED BY <3>1, CalmKeeps
  <2>3. CASE Goto(h, Broken(h)) /\ UNCHANGED <<hash, overdue>>
    <3>1. Calm(h, Broken(h))
      BY <1>0, <1>4, <2>3 DEF TouchExec, Goto, Calm
    <3> QED BY <3>1, CalmKeeps
  <2>4. CASE hash' = at[h].lease /\ overdue' = FALSE /\ at' = Spoiled([at EXCEPT ![h] = p])
    <3>1. Calm(h, p)
      BY <1>0, <1>4, <2>1, <2>4 DEF TouchExec, Calm, Allowed, Connection
    <3> QED BY <3>1, CalmKeeps
  <2> QED BY <1>4, <2>2, <2>3, <2>4 DEF TouchExec, p
<1>5. CASE Touched(h)
  <2>1. at[h] \in [pc : {"touched"}, lease : Lease]
    BY <1>5, PlaceForm DEF Touched, At, IndInv, TypeOK
  <2>2. Calm(h, [pc |-> "renew"])
    BY <1>0, <1>5, <2>1, Simple DEF Touched, Go, Goto, Calm, Allowed, Connection
  <2> QED BY <2>2, CalmKeeps
<1>6. CASE Renew(h)
  <2>1. Calm(h, Broken(h)) \/ Calm(h, Ready(h))
    BY <1>0, <1>6 DEF Renew, Get, Calm
  <2> QED BY <2>1, CalmKeeps
<1> QED BY <1>1, <1>2, <1>3, <1>4, <1>5, <1>6

-----------------------------------------------------------------------------
(* The steps that change the marks *)

LEMMA MarksStep ==
  ASSUME IndInv, NEW h \in Handlers, Mark(h) \/ MarkStored(h) \/ Unmark(h)
  PROVE  IndInv'
<1>0. /\ copy \in Lease /\ hash \in Lease /\ overdue \in BOOLEAN /\ h # Cleaner
      /\ h \in Clients \ http
      /\ at[h].pc # "admitted" => Serving(h)
  BY Begun DEF Mark, MarkStored, Unmark, At, Connection, Handlers, Serving
<1>1. CASE At(h, "admitted") /\ Go(h, "closed") /\ UNCHANGED <<lease, reply, rest>>
  <2>1. Calm(h, [pc |-> "closed"])
    BY <1>0, <1>1, Simple DEF At, Go, Goto, Calm, Allowed, Connection, Away, lease
  <2> QED BY <2>1, CalmKeeps
<1>2. ASSUME NEW pc \in {"marking", "subscribe", "unmarking"}, NEW m \in BOOLEAN,
             at' = [at EXCEPT ![h] = [pc |-> pc]] \/ at' = Spoiled([at EXCEPT ![h] = [pc |-> pc]]),
             hash' \in Lease, copy' \in Lease, marked' = m,
             UNCHANGED <<slot, overdue, reply, rest>>,
             m \/ pc = "unmarking",
             m = FALSE => Serving(h),
             slot /\ pc # "unmarking" => Serving(h) \/ ~marked
      PROVE  IndInv'
  <2> DEFINE p == [pc |-> pc]
  <2>1. p \in Place /\ p.pc = pc /\ p.pc \notin {"load", "publish", "touch", "revoked", "none"}
    BY Simple
  <2> HIDE DEF p
  <2>2. Moved(h, p)
    BY <1>2, <2>1, StepMoves DEF p, IndInv
  <2>3. ReplyType' /\ Replies'
    BY <1>2, <2>1, <2>2, RepliesSame
  <2>4. Allowed(h, p)
    BY <1>0, <2>1 DEF Allowed
  <2>5. copy' \in Lease \cup {None} /\ copy' # None /\ UNCHANGED rest
    BY <1>2, SocketAssumption
  <2>6. overdue' \in BOOLEAN /\ slot' \in {slot, FALSE} /\ marked' \in BOOLEAN
    BY <1>0, <1>2 DEF IndInv, TypeOK
  <2>7. slot' => (marked => marked') \/ \A s \in Clients \ {h} : ~Serving(s)
    BY <1>0, <1>2 DEF IndInv, Marks, OneSocket
  <2>8. slot' /\ h \in Clients \ http /\ p.pc \notin Away =>
          marked' /\ (Serving(h) \/ \A s \in Clients \ {h} : ~Serving(s))
    BY <1>2, <2>1 DEF IndInv, Marks, Away
  <2> QED BY <1>2, <2>1, <2>2, <2>3, <2>4, <2>5, <2>6, <2>7, <2>8, HandlerKeeps
<1>3. CASE At(h, "admitted") /\ ~Taken /\ Go(h, "marking") /\ marked' = TRUE
           /\ copy' = [copy EXCEPT !.ws = TRUE, !.dropped = FALSE]
           /\ UNCHANGED <<hash, slot, overdue, reply, rest>>
  <2>1. copy' \in Lease /\ ~marked
    BY <1>0, <1>3 DEF Lease, Taken
  <2> QED BY <1>0, <1>2, <1>3, <2>1 DEF Go, Goto
<1>4. CASE MarkStored(h)
  <2>1. hash' \in Lease /\ Serving(h)
    BY <1>0, <1>4 DEF Lease, MarkStored, At
  <2> QED BY <1>0, <1>2, <1>4, <2>1 DEF MarkStored
<1>5. CASE Unmark(h)
  <2>1. copy' \in Lease /\ Serving(h)
    BY <1>0, <1>5 DEF Lease, Unmark, At
  <2> QED BY <1>0, <1>2, <1>5, <2>1 DEF Unmark, Go, Goto
<1> QED BY <1>1, <1>3, <1>4, <1>5 DEF Mark, lease

-----------------------------------------------------------------------------
(* The steps of a click *)

\* A handler that has begun moves and leaves the lease alone.
LEMMA Speaks ==
  ASSUME IndInv, NEW h \in Handlers, h # Cleaner, NEW p \in Place,
         at[h].pc \notin {"none", "load", "closed", "admitted", "unmarking"},
         at' = [at EXCEPT ![h] = p], UNCHANGED <<lease, rest>>,
         Allowed(h, p), p.pc \notin {"load", "revoked"}, ReplyType', Replies'
  PROVE  IndInv'
<1>1. Moved(h, p)
  BY StepMoves DEF IndInv
<1>2. /\ copy \in Lease /\ hash \in Lease /\ overdue \in BOOLEAN
      /\ h \in Clients \ http => Serving(h)
  BY Begun
<1>3. hash' \in Lease /\ copy' \in Lease \cup {None} /\ copy' # None /\ overdue' \in BOOLEAN
      /\ slot' \in {slot, FALSE} /\ marked' \in BOOLEAN /\ marked' = marked /\ UNCHANGED rest
  BY <1>2, SocketAssumption DEF lease, IndInv, TypeOK
<1>4. slot' /\ h \in Clients \ http /\ p.pc \notin Away =>
        marked' /\ (Serving(h) \/ \A s \in Clients \ {h} : ~Serving(s))
  BY <1>2, <1>3 DEF IndInv, Marks, lease
<1> QED BY <1>1, <1>3, <1>4, HandlerKeeps

\* Who publishes a click is as it was.
SamePublish == \A g \in Handlers : at'[g].pc = "publish" => at'[g] = at[g]

LEMMA MovedPublish ==
  ASSUME TypeOK, NEW h \in Handlers, NEW p \in Place, p.pc # "publish",
         at' = [at EXCEPT ![h] = p]
  PROVE  SamePublish
<1>1. Moved(h, p)
  BY StepMoves
<1> QED BY <1>1 DEF Moved, SamePublish

LEMMA ResolveKeeps ==
  ASSUME IndInv, NEW S, NEW f \in {"unconfirmed", "done", "acted"}, Resolve(S, f),
         UNCHANGED <<agent, answer>>, SamePublish,
         \A c \in S : f = "acted" => agent[c] = "acted"
  PROVE  ReplyType' /\ Replies'
<1>1. ReplyType'
  BY DEF Resolve, IndInv, TypeOK, ReplyType
<1>2. ASSUME NEW c \in Clicks
      PROVE  /\ future'[c] = "acted" => agent[c] = "acted"
             /\ (future'[c] = None) <=> (future[c] = None)
  BY SocketAssumption DEF Resolve, IndInv, Replies
<1>3. Replies'
  BY <1>2 DEF SamePublish, IndInv, Replies, At
<1> QED BY <1>1, <1>3

LEMMA ClickType ==
  ASSUME IndInv, NEW h \in Handlers, at[h].pc \in {"publish", "wait"}
  PROVE  at[h].c \in Clicks
BY PlaceForm DEF IndInv, TypeOK

LEMMA RegisterKeeps ==
  ASSUME IndInv, NEW h \in Handlers, Register(h)
  PROVE  IndInv'
<1>0. h # Cleaner /\ at[h].pc = "register" /\ Broken(h) \in Place
  BY Begun, ReadyForm DEF Register, At
<1>1. CASE Goto(h, Broken(h)) /\ UNCHANGED <<entry, future>>
  <2>1. Calm(h, Broken(h))
    BY <1>0, <1>1, Begun, Backs, ReadyForm DEF Register, Goto, Calm, lease, reply
  <2> QED BY <2>1, CalmKeeps
<1>2. ASSUME NEW c \in Unused, Goto(h, [pc |-> "publish", c |-> c]),
             entry' = entry \cup {c}, future' = [future EXCEPT ![c] = "open"]
      PROVE  IndInv'
  <2> DEFINE p == [pc |-> "publish", c |-> c]
  <2>1. c \in Clicks /\ future[c] = None /\ p \in Place /\ p.pc = "publish" /\ p.c = c
    BY DEF Unused, Place
  <2>2. at' = [at EXCEPT ![h] = p] /\ UNCHANGED <<lease, aged, agent, answer, rest>>
    BY <1>2 DEF Goto, Register
  <2> HIDE DEF p
  <2>3. Moved(h, p)
    BY <2>1, <2>2, StepMoves DEF IndInv
  <2>4. ReplyType'
    BY <1>2, <2>1, <2>2 DEF IndInv, TypeOK, ReplyType
  <2>5. agent[c] = None
    BY <2>1 DEF IndInv, Replies
  <2>6. \A g \in Handlers : At(g, "publish")' => \/ g = h /\ at'[g].c = c
                                                 \/ At(g, "publish") /\ at'[g] = at[g] /\ at[g].c # c
    BY <2>1, <2>3 DEF Moved, At, IndInv, Replies
  <2>7. Replies'
    <3>1. ASSUME NEW d \in Clicks
          PROVE  /\ future'[d] = "acted" \/ answer'[d] = "acted" => agent'[d] = "acted"
                 /\ future'[d] = None => agent'[d] = None
      BY <1>2, <2>1, <2>2, SocketAssumption DEF IndInv, Replies, TypeOK
    <3>2. ASSUME NEW d \in Clicks, NEW g \in Handlers, At(g, "publish")', at'[g].c = d
          PROVE  /\ agent'[d] = None /\ future'[d] # None
                 /\ \A k \in Handlers : At(k, "publish")' /\ at'[k].c = d => k = g
      <4>1. CASE d = c
        <5>1. future'[d] = "open"
          BY <1>2, <2>1, <4>1 DEF IndInv, TypeOK
        <5> QED BY <2>2, <2>5, <2>6, <3>2, <4>1, <5>1, SocketAssumption
      <4>2. CASE d # c
        <5>1. At(g, "publish") /\ at[g].c = d
          BY <2>6, <3>2, <4>2
        <5>2. agent[d] = None /\ future[d] # None
              /\ \A k \in Handlers : At(k, "publish") /\ at[k].c = d => k = g
          BY <5>1 DEF IndInv, Replies
        <5>3. future'[d] = future[d] /\ agent'[d] = agent[d]
          BY <1>2, <2>1, <2>2, <4>2 DEF IndInv, TypeOK
        <5> QED BY <2>6, <4>2, <5>2, <5>3
      <4> QED BY <4>1, <4>2
    <3> QED BY <3>1, <3>2 DEF Replies
  <2>8. Allowed(h, p)
    BY <1>0, <2>1 DEF Allowed, Connection
  <2> QED BY <1>0, <2>1, <2>2, <2>4, <2>7, <2>8, Speaks
<1> QED BY <1>1, <1>2 DEF Register

LEMMA PublishKeeps ==
  ASSUME IndInv, NEW h \in Handlers, Publish(h)
  PROVE  IndInv'
<1> DEFINE c == at[h].c
           p == [pc |-> "wait", c |-> c]
<1>1. h # Cleaner /\ at[h].pc = "publish" /\ c \in Clicks
  BY Begun, ClickType DEF Publish, At
<1>2. p \in Place /\ p.pc = "wait"
  BY <1>1 DEF Place
<1>3. at' = [at EXCEPT ![h] = p] /\ agent' = [agent EXCEPT ![c] = "sent"]
      /\ UNCHANGED <<lease, entry, future, aged, answer, rest>>
  BY DEF Publish, Goto
<1>4. agent[c] = None /\ future[c] # None
      /\ \A g \in Handlers : At(g, "publish") /\ at[g].c = c => g = h
  BY <1>1 DEF IndInv, Replies, At
<1> HIDE DEF c, p
<1>5. ReplyType'
  BY <1>1, <1>3 DEF IndInv, TypeOK, ReplyType
<1>6. Moved(h, p)
  BY <1>2, <1>3, StepMoves DEF IndInv
<1>7. \A g \in Handlers : At(g, "publish")' => At(g, "publish") /\ at'[g] = at[g] /\ at[g].c # c
  BY <1>2, <1>4, <1>6 DEF Moved, At
<1>8. \A d \in Clicks : agent'[d] = IF d = c THEN "sent" ELSE agent[d]
  BY <1>3 DEF IndInv, TypeOK
<1>9. future[c] # "acted" /\ answer[c] # "acted"
  BY <1>1, <1>4, SocketAssumption DEF IndInv, Replies
<1>10. Replies'
  BY <1>3, <1>4, <1>7, <1>8, <1>9 DEF IndInv, Replies
<1>11. Allowed(h, p)
  BY <1>1, <1>2 DEF Allowed, Connection
<1> QED BY <1>1, <1>2, <1>3, <1>5, <1>10, <1>11, Speaks

\* The wait of a handler for its reply ends.
LEMMA WaitKeeps ==
  ASSUME IndInv, NEW h \in Handlers, Answered(h) \/ TimeOut(h)
  PROVE  IndInv'
<1> DEFINE c == at[h].c
<1>1. h # Cleaner /\ at[h].pc = "wait" /\ c \in Clicks /\ Ready(h) \in Place
      /\ Allowed(h, Ready(h)) /\ Ready(h).pc \notin {"load", "publish", "revoked"}
  BY Begun, ClickType, Backs, ReadyForm DEF Answered, TimeOut, At
<1>2. at' = [at EXCEPT ![h] = Ready(h)] /\ UNCHANGED <<lease, entry, aged, agent, rest>>
      /\ future' = [future EXCEPT ![c] = "done"]
  BY DEF Answered, TimeOut, Goto
<1>3. \/ answer' = [answer EXCEPT ![c] = future[c]] /\ future[c] # "open"
      \/ answer' = [answer EXCEPT ![c] = "unconfirmed"]
  BY DEF Answered, TimeOut
<1> HIDE DEF c
<1>4. ReplyType'
  BY <1>1, <1>2, <1>3 DEF IndInv, TypeOK, ReplyType
<1>5. SamePublish
  BY <1>1, <1>2, MovedPublish DEF IndInv
<1>6. ASSUME NEW d \in Clicks
      PROVE  /\ future'[d] = "acted" \/ answer'[d] = "acted" => agent[d] = "acted"
             /\ future'[d] = None => agent[d] = None
             /\ future[d] # None => future'[d] # None
  BY <1>1, <1>2, <1>3, SocketAssumption DEF IndInv, TypeOK, Replies
<1>7. Replies'
  BY <1>2, <1>5, <1>6 DEF SamePublish, IndInv, Replies, At
<1> QED BY <1>1, <1>2, <1>4, <1>7, Speaks

LEMMA CancelKeeps ==
  ASSUME IndInv, NEW h \in Handlers, Cancel(h)
  PROVE  IndInv'
<1>1. h # Cleaner /\ at[h].pc = "cancel" /\ Broken(h) \in Place /\ Allowed(h, Broken(h))
      /\ Broken(h).pc \notin {"load", "publish", "revoked"}
  BY Begun, Backs, ReadyForm DEF Cancel, At
<1>2. SamePublish
  BY <1>1, MovedPublish DEF Cancel, Goto, IndInv
<1>3. ReplyType' /\ Replies'
  BY <1>2, ResolveKeeps DEF Cancel
<1> QED BY <1>1, <1>3, Speaks DEF Cancel, Goto

-----------------------------------------------------------------------------
(* Revocations, and the loop *)

LEMMA AfterForm ==
  ASSUME IndInv, NEW h \in Handlers, at[h].pc \in {"revoke", "revoked"}
  PROVE  /\ AfterRevoke(h) \in Place /\ Allowed(h, AfterRevoke(h))
         /\ AfterRevoke(h).pc \in {"none", "cancel"}
         /\ copy \in Lease /\ hash \in Lease /\ overdue \in BOOLEAN
         /\ h \in Clients \ http => Serving(h)
BY Begun, Simple DEF AfterRevoke, Allowed, Connection

LEMMA RevokeKeeps ==
  ASSUME IndInv, NEW h \in Handlers, Revoke(h) \/ Revoked(h)
  PROVE  IndInv'
<1>0. /\ AfterRevoke(h) \in Place /\ Allowed(h, AfterRevoke(h))
      /\ AfterRevoke(h).pc \in {"none", "cancel"}
      /\ copy \in Lease /\ hash \in Lease /\ overdue \in BOOLEAN
      /\ h \in Clients \ http => Serving(h)
  BY AfterForm DEF Revoke, Revoked, At
<1>1. CASE Revoke(h) /\ hash.revoked
  <2>1. Calm(h, AfterRevoke(h))
    BY <1>0, <1>1 DEF Revoke, Goto, Calm
  <2> QED BY <2>1, CalmKeeps
<1>2. ASSUME NEW p \in Place, Allowed(h, p), p.pc \notin {"load", "publish"}, slot' = FALSE,
             at' = [at EXCEPT ![h] = p] \/ at' = Spoiled([at EXCEPT ![h] = p]),
             hash' \in Lease, copy' \in Lease, marked' \in BOOLEAN,
             UNCHANGED <<overdue, reply, rest>>
      PROVE  IndInv'
  <2>1. Moved(h, p)
    BY <1>2, StepMoves DEF IndInv
  <2>2. ReplyType' /\ Replies'
    BY <1>2, <2>1, RepliesSame
  <2>3. copy' \in Lease \cup {None} /\ copy' # None /\ UNCHANGED rest
        /\ overdue' \in BOOLEAN /\ slot' \in {slot, FALSE} /\ ~slot'
    BY <1>0, <1>2, SocketAssumption DEF IndInv, TypeOK
  <2> QED BY <1>2, <2>1, <2>2, <2>3, HandlerKeeps
<1>3. CASE Revoke(h) /\ ~hash.revoked
  <2> DEFINE p == [pc |-> "revoked"]
  <2>1. p \in Place /\ p.pc = "revoked"
    BY Simple
  <2>2. Allowed(h, p)
    BY <1>3, <2>1, Begun DEF Allowed, Connection, Revoke, At
  <2>3. hash' = [hash EXCEPT !.revoked = TRUE] /\ slot' = FALSE
        /\ at' = Spoiled([at EXCEPT ![h] = p]) /\ UNCHANGED <<overdue, copy, marked, reply, rest>>
    BY <1>3 DEF Revoke
  <2>4. hash' \in Lease /\ copy' \in Lease /\ marked' \in BOOLEAN
    BY <1>0, <2>3 DEF Lease, IndInv, TypeOK
  <2> QED BY <1>2, <2>1, <2>2, <2>3, <2>4
<1>4. CASE Revoked(h)
  <2>1. slot = FALSE
    BY <1>4 DEF Revoked, IndInv, Marks, TypeOK
  <2>2. copy' = [hash EXCEPT !.revoked = TRUE] /\ marked' = FALSE
        /\ at' = [at EXCEPT ![h] = AfterRevoke(h)]
        /\ UNCHANGED <<hash, slot, overdue, reply, rest>>
    BY <1>4 DEF Revoked, Goto
  <2>3. copy' \in Lease
    BY <1>0, <2>2 DEF Lease
  <2>4. hash' \in Lease /\ marked' \in BOOLEAN /\ slot' = FALSE
    BY <1>0, <2>1, <2>2
  <2> QED BY <1>0, <1>2, <2>2, <2>3, <2>4
<1> QED BY <1>1, <1>3, <1>4 DEF Revoke

\* The loop, whose place is none of a connection.
LEMMA LoopMoves ==
  ASSUME IndInv, NEW p \in Place, Allowed(Cleaner, p), p.pc \notin {"publish", "revoked"},
         p.pc # "load" => copy' # None,
         at' = [at EXCEPT ![Cleaner] = p] \/ at' = Spoiled([at EXCEPT ![Cleaner] = p]),
         hash' \in Lease, copy' \in Lease \cup {None}, copy # None => copy' # None,
         UNCHANGED <<slot, overdue, marked, rest>>, ReplyType', Replies'
  PROVE  IndInv'
<1>1. Cleaner \in Handlers /\ Cleaner \notin Clients
  BY SocketAssumption DEF Handlers
<1>2. Moved(Cleaner, p)
  BY <1>1, StepMoves DEF IndInv
<1>3. slot' \in {slot, FALSE} /\ overdue' \in BOOLEAN /\ marked' \in BOOLEAN /\ marked' = marked
      /\ UNCHANGED rest
  BY DEF IndInv, TypeOK
<1> QED BY <1>1, <1>2, <1>3, HandlerKeeps

LEMMA RoundKeeps ==
  ASSUME IndInv, Round
  PROVE  IndInv'
<1>0. Cleaner \in Handlers /\ Cleaner \notin Clients /\ Cleaner \notin http
  BY SocketAssumption DEF Handlers, IndInv, TypeOK
<1>1. SUFFICES ASSUME SamePublish => ReplyType' /\ Replies' PROVE IndInv'
  BY ResolveKeeps DEF Round
<1>2. UNCHANGED rest /\ hash \in Lease /\ copy \in Lease \cup {None}
  BY DEF Round, IndInv, TypeOK
<1>3. CASE ~slot /\ UNCHANGED <<lease, at>>
  <2>1. SamePublish
    BY <1>3 DEF SamePublish
  <2> QED BY <1>1, <1>2, <1>3, <2>1
          DEF IndInv, TypeOK, ReplyType, Paths, Allowed, Copied, Marks, OneSocket, Serving,
              lease, rest, At
<1>4. ASSUME NEW p \in Place, p.pc \in {"none", "load", "revoke"}, Allowed(Cleaner, p),
             at' = [at EXCEPT ![Cleaner] = p] \/ at' = Spoiled([at EXCEPT ![Cleaner] = p]),
             p.pc # "load" => copy # None,
             hash' \in Lease, UNCHANGED <<slot, overdue, copy, marked>>
      PROVE  IndInv'
  <2>1. Moved(Cleaner, p)
    BY <1>0, <1>4, StepMoves DEF IndInv
  <2>2. SamePublish
    BY <1>4, <2>1 DEF Moved, SamePublish
  <2> QED BY <1>1, <1>2, <1>4, <2>2, LoopMoves
<1>5. CASE Load(Cleaner, "round")
  <2> DEFINE p == [pc |-> "load", lease |-> hash, do |-> "round"]
  <2>1. p \in Place /\ p.pc = "load" /\ p.do = "round"
    BY <1>2 DEF Place
  <2>2. at' = [at EXCEPT ![Cleaner] = p] /\ UNCHANGED <<hash, slot, overdue, copy, marked>>
    BY <1>5 DEF Load, Goto, lease
  <2> HIDE DEF p
  <2>3. Allowed(Cleaner, p)
    BY <1>0, <2>1 DEF Allowed
  <2> QED BY <1>2, <1>4, <2>1, <2>2, <2>3
<1>6. ASSUME copy # None, NEW next \in {"revoke", "none"}, Get(Cleaner, [pc |-> next])
      PROVE  IndInv'
  <2> DEFINE p == [pc |-> next]
  <2>1. p \in Place /\ p.pc = next /\ Allowed(Cleaner, p)
    BY <1>0, Simple DEF Allowed, Connection
  <2>2. at' = Spoiled([at EXCEPT ![Cleaner] = p]) /\ hash' = copy
        /\ UNCHANGED <<slot, overdue, copy, marked>>
    BY <1>6 DEF Get
  <2> HIDE DEF p
  <2> QED BY <1>2, <1>4, <1>6, <2>1, <2>2
<1> QED BY <1>3, <1>5, <1>6 DEF Round

LEMMA RoundLoadedKeeps ==
  ASSUME IndInv, RoundLoaded
  PROVE  IndInv'
<1>0. Cleaner \in Handlers /\ Cleaner \notin Clients /\ Cleaner \notin http
  BY SocketAssumption DEF Handlers, IndInv, TypeOK
<1>1. at[Cleaner].lease \in Lease
  <2>1. at[Cleaner] \in [pc : {"load"}, lease : Lease,
                         do : {"connect", "keep", "click", "release", "round"}]
    BY <1>0, PlaceForm DEF RoundLoaded, At, IndInv, TypeOK
  <2> QED BY <2>1
<1>2. PICK next \in {"revoke", "none"} : Loaded(Cleaner, [pc |-> next])
  BY DEF RoundLoaded
<1> DEFINE p == [pc |-> next]
<1>3. p \in Place /\ p.pc = next /\ Allowed(Cleaner, p)
  BY <1>0, Simple DEF Allowed, Connection
<1>4. at' = [at EXCEPT ![Cleaner] = p] /\ copy' = at[Cleaner].lease
      /\ UNCHANGED <<hash, slot, overdue, marked, reply, rest>>
  BY <1>2 DEF RoundLoaded, Loaded, Goto
<1> HIDE DEF p
<1>5. hash' \in Lease /\ copy' \in Lease /\ overdue' \in BOOLEAN
  BY <1>1, <1>4 DEF IndInv, TypeOK
<1>6. Calm(Cleaner, p)
  BY <1>0, <1>3, <1>4, <1>5 DEF Calm
<1> QED BY <1>0, <1>6, CalmKeeps

-----------------------------------------------------------------------------
(* The agent, time and crashes *)

\* No handler moves, or a transaction is spoiled.
LEMMA NobodyMoves ==
  ASSUME IndInv, at' = at \/ at' = Spoiled(at),
         UNCHANGED <<hash, copy, marked, rest>>,
         slot' \in {slot, FALSE}, overdue' \in BOOLEAN, ReplyType', Replies'
  PROVE  IndInv'
<1>1. /\ at' \in [Handlers -> Place]
      /\ \A g \in Handlers : at'[g].pc = at[g].pc /\ (at[g].pc # "touch" => at'[g] = at[g])
  BY SpoiledPlaces DEF IndInv, TypeOK
<1>2. http' = http /\ crashes' = crashes /\ copy' = copy /\ marked' = marked /\ hash' = hash
  BY DEF rest
<1>3. TypeOK'
  BY ZenonT(90), <1>1, <1>2 DEF IndInv, TypeOK, ReplyType
<1>4. Paths'
  BY <1>1, <1>2 DEF IndInv, Paths, Allowed
<1>5. Copied'
  BY <1>1, <1>2 DEF IndInv, Copied
<1>6. slot' => slot
  BY DEF IndInv, TypeOK
<1>7. \A s \in Clients : Serving(s)' => Serving(s)
  BY <1>1, <1>2 DEF Serving, Handlers
<1>8. \A g \in Handlers : At(g, "revoked")' => At(g, "revoked")
  BY <1>1 DEF At
<1>9. Marks'
  BY <1>2, <1>6, <1>7, <1>8 DEF IndInv, Marks, OneSocket
<1> QED BY <1>3, <1>4, <1>5, <1>9 DEF IndInv

LEMMA AgentKeeps ==
  ASSUME IndInv, NEW c \in Clicks, Act(c) \/ Reply(c) \/ Age(c)
  PROVE  IndInv'
<1>1. at' = at /\ UNCHANGED <<hash, slot, overdue, copy, marked, rest>>
      /\ slot' \in {slot, FALSE} /\ overdue' \in BOOLEAN
  BY DEF Act, Reply, Age, lease, IndInv, TypeOK
<1>2. CASE Act(c)
  <2>1. ReplyType'
    BY <1>2 DEF Act, IndInv, TypeOK, ReplyType
  <2>2. \A d \in Clicks : agent'[d] = IF d = c THEN "acted" ELSE agent[d]
    BY <1>2 DEF Act, IndInv, TypeOK
  <2>3. agent[c] # None
    BY <1>2, SocketAssumption DEF Act
  <2>4. Replies'
    BY <1>1, <1>2, <2>2, <2>3 DEF Act, IndInv, Replies, At
  <2> QED BY <1>1, <2>1, <2>4, NobodyMoves
<1>3. CASE Reply(c)
  <2>1. SamePublish
    BY <1>1 DEF SamePublish
  <2>2. ReplyType' /\ Replies'
    BY <1>3, <2>1, ResolveKeeps DEF Reply, Matches
  <2> QED BY <1>1, <2>2, NobodyMoves
<1>4. CASE Age(c)
  <2>1. ReplyType' /\ Replies'
    BY <1>1, <1>4 DEF Age, IndInv, TypeOK, ReplyType, Replies, At
  <2> QED BY <1>1, <2>1, NobodyMoves
<1> QED BY <1>2, <1>3, <1>4

LEMMA TimeKeeps ==
  ASSUME IndInv, Overdue \/ SlotExpires
  PROVE  IndInv'
<1>1. ReplyType' /\ Replies'
  <2>1. UNCHANGED <<entry, future, aged, agent, answer>>
    BY DEF Overdue, SlotExpires, reply
  <2>2. \A g \in Handlers : at'[g].pc = "publish" => at'[g] = at[g]
    BY SpoiledPlaces DEF Overdue, SlotExpires, IndInv, TypeOK
  <2> QED BY <2>1, <2>2 DEF ReplyType, Replies, IndInv, TypeOK, At
<1>2. slot' \in {slot, FALSE} /\ overdue' \in BOOLEAN
  BY DEF Overdue, SlotExpires, IndInv, TypeOK
<1> QED BY <1>1, <1>2, NobodyMoves DEF Overdue, SlotExpires

LEMMA CrashKeeps ==
  ASSUME IndInv, Crash
  PROVE  IndInv'
<1>1. /\ at' \in [Handlers -> Place]
      /\ \A h \in Handlers : at'[h].pc = IF h # Cleaner /\ at[h].pc # "none" THEN "closed" ELSE "none"
  BY Simple DEF Crash
<1>2. SamePublish
  BY <1>1 DEF SamePublish
<1>3. ReplyType' /\ Replies'
  BY <1>2, ResolveKeeps DEF Crash
<1>4. http' = http /\ copy' = None /\ marked' = FALSE /\ UNCHANGED <<hash, slot, overdue>>
      /\ crashes' \in 0..MaxCrashes
  BY SocketAssumption DEF Crash, IndInv, TypeOK
<1>5. TypeOK'
  BY <1>1, <1>3, <1>4 DEF IndInv, TypeOK, ReplyType
<1>6. Paths' /\ Copied' /\ Marks'
  BY <1>1, <1>4 DEF Paths, Allowed, Connection, Copied, Marks, At, Serving, OneSocket, Handlers
<1> QED BY <1>3, <1>5, <1>6 DEF IndInv

-----------------------------------------------------------------------------
(* The theorems *)

LEMMA InitIndInv == Init => IndInv
<1> SUFFICES ASSUME Init PROVE IndInv
  OBVIOUS
<1>1. /\ at \in [Handlers -> Place] /\ (\A h \in Handlers : at[h].pc = "none")
  BY Simple DEF Init
<1>2. hash \in Lease /\ copy = hash
  BY DEF Init, Lease
<1>3. TypeOK
  <2>1. /\ future \in [Clicks -> {None}] /\ agent = future /\ answer = future
        /\ entry = {} /\ aged = {} /\ http \subseteq Clients
    BY DEF Init
  <2>2. slot \in BOOLEAN /\ overdue \in BOOLEAN /\ marked \in BOOLEAN
    BY Zenon DEF Init
  <2>3. crashes = 0 /\ crashes \in 0..MaxCrashes
    BY SocketAssumption DEF Init
  <2> QED BY <1>1, <1>2, <2>1, <2>2, <2>3 DEF TypeOK
<1>4. Paths /\ Copied /\ Marks
  BY <1>1, <1>2, SocketAssumption
     DEF Paths, Allowed, Connection, Copied, Marks, At, Serving, OneSocket, Handlers
<1>5. Replies
  BY <1>1, SocketAssumption DEF Init, Replies, At
<1> QED BY <1>3, <1>4, <1>5 DEF IndInv

LEMMA StepKeeps ==
  ASSUME IndInv, NEW h \in Handlers, Step(h)
  PROVE  IndInv'
BY AskedKeeps, ConnectionQuiet, MessagesQuiet, MarksStep, RegisterKeeps, PublishKeeps, WaitKeeps,
   CancelKeeps, RevokeKeeps DEF Step

LEMMA NextIndInv == IndInv /\ [Next]_vars => IndInv'
<1> SUFFICES ASSUME IndInv, [Next]_vars PROVE IndInv'
  OBVIOUS
<1>0. Clients \subseteq Handlers /\ Cleaner \in Handlers
  BY DEF Handlers
<1>1. ASSUME NEW h \in Clients,
             \/ Connect(h) \/ SubscribeFails(h) \/ HangUp(h) \/ Step(h) \/ PublishFails(h)
             \/ Keepalive(h) \/ Release(h) \/ Click(h)
      PROVE  IndInv'
  BY <1>0, <1>1, Beginnings, ConnectionQuiet, StepKeeps, MessagesQuiet
<1>2. CASE Loop
  BY <1>0, <1>2, RoundKeeps, RoundLoadedKeeps, StepKeeps DEF Loop
<1>3. CASE UNCHANGED vars
  BY <1>3 DEF vars, lease, reply, rest, IndInv, TypeOK, Paths, Allowed, Copied, Marks, OneSocket,
              Serving, Replies, At
<1> QED BY <1>1, <1>2, <1>3, AgentKeeps, TimeKeeps, CrashKeeps DEF Next

LEMMA Invariance == Spec => []IndInv
BY InitIndInv, NextIndInv, PTL DEF Spec

\* Every state is well-formed: where each handler is, the lease in its two places,
\* and the registry of replies.
THEOREM TypeCorrect == Spec => []TypeOK
<1>1. IndInv => TypeOK
  BY DEF IndInv
<1> QED BY <1>1, Invariance, PTL

\* As long as the lease has the device, two connections are never served at once,
\* for any number of clients, requests and crashes: the copy and the hash may lose
\* their marks to each other, but the set of the worker is not read from Redis.
THEOREM SecondSocketRefused == Spec => []OneSocket
<1>1. IndInv => OneSocket
  BY DEF IndInv, Marks
<1> QED BY <1>1, Invariance, PTL

\* What a client is told the agent did with a click, the agent did with this click,
\* whatever replies come late, twice or for a click nobody waits for.
THEOREM RepliesAreTrue == Spec => []AnswersTrue
<1>1. IndInv => AnswersTrue
  BY DEF IndInv, Replies, AnswersTrue
<1> QED BY <1>1, Invariance, PTL
=============================================================================
