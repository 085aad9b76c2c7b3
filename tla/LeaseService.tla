---------------------------- MODULE LeaseService ----------------------------
(***************************************************************************)
(* Leases of several terminals in one worker: the requests of              *)
(* api/internal_v1/remote_input.py, what core/remote_input/service.py      *)
(* checks and does for them, and the registry calls they make, logout      *)
(* above all.  A command to Redis is a step.  A lease of version 1 may     *)
(* lapse at any moment: LeaseRegistry has the clock, the expiry of keys,   *)
(* copies of other workers and leases for files.                           *)
(***************************************************************************)
EXTENDS Naturals, FiniteSets

CONSTANTS
  Terminals,
  Sessions,        \* sessions of a browser: [user, session, role]
  AskedScopes,     \* those asked for: "view", "stream", "console"
  ServiceRequests, \* requests that are served at once
  MaxGranted, MaxAsked, MaxFails

ASSUME ServiceAssumption == "none" \notin Terminals   \* it stands for no terminal

LeaseIds == 1..MaxGranted
Everyone == "all"     \* a logout that names no session

VARIABLES
  slots,      \* l4d:lease:active:{sn}
  leases,     \* l4d:lease:{id}
  copies,     \* _leases_by_id
  lapsed,     \* the leases whose time is over
  streaming,  \* the terminals whose presence shows a running stream
  waiting,    \* the leases with a renewal the terminal has not answered
  request,
  spent

serviceVars == <<slots, leases, copies, lapsed, streaming, waiting, request, spent>>

BlankLease == [sn |-> "none", owner |-> "none", scope |-> "none", revoked |-> FALSE]
NoOne == [user |-> "none", session |-> "none", role |-> "none"]
IdleRequest == [op |-> "idle", step |-> "idle", who |-> NoOne, sn |-> "none", scope |-> "none",
                id |-> 0, lease |-> BlankLease, mine |-> FALSE, dirty |-> FALSE,
                scan |-> {}, found |-> {}, gone |-> {}, held |-> {}]

ServiceInit ==
  /\ slots = [t \in Terminals |-> 0]
  /\ leases = [i \in LeaseIds |-> BlankLease] /\ copies = [i \in LeaseIds |-> BlankLease]
  /\ lapsed = {} /\ streaming \in SUBSET Terminals /\ waiting = {}
  /\ request = [r \in ServiceRequests |-> IdleRequest]
  /\ spent = [leases |-> 0, requests |-> 0, fails |-> 0]

KnownLease(i) == leases[i] # BlankLease

\* is_active
ActiveLease(i, l) == l # BlankLease /\ ~l.revoked /\ i \notin lapsed

\* get, which prefers the copy
Got(i) == IF ~KnownLease(i) THEN BlankLease
          ELSE IF copies[i] # BlankLease THEN copies[i] ELSE leases[i]

\* get_active: what get_status shows, too.
GetActive(t) == IF slots[t] # 0 /\ ActiveLease(slots[t], Got(slots[t])) THEN slots[t] ELSE 0

\* get writes its copy over the hash, or keeps one.
Gets(i) == /\ leases' = [leases EXCEPT ![i] = Got(i)]
           /\ copies' = [copies EXCEPT ![i] = IF KnownLease(i) THEN Got(i) ELSE @]

At(r, op, step) == request[r].op \in op /\ request[r].step = step

\* A transaction that watches terminal t or lease i has failed.
Spoiled(f, t, i) ==
  [r \in ServiceRequests |-> IF f[r].step = "exec" /\ (f[r].sn = t \/ f[r].id = i)
                             THEN [f[r] EXCEPT !.dirty = TRUE] ELSE f[r]]

Go(r, new) == request' = [request EXCEPT ![r] = new]
GoWrite(r, new, t, i) == request' = Spoiled([request EXCEPT ![r] = new], t, i)
StepTo(r, step) == Go(r, [request[r] EXCEPT !.step = step])
End(r) == Go(r, IdleRequest)

-----------------------------------------------------------------------------
(* Who may ask for what *)

\* _validate_role_and_scope, without leases for files
ScopeAllowed(role, scope) ==
  CASE role = "viewer" -> scope = "view"
    [] role \in {"admin", "user"} -> scope \in {"view", "stream", "input"}
    [] role = "l4desk_owner" -> scope \in {"view", "stream", "input", "console"}
    [] OTHER -> role = "superuser"

Owner(l, s) == s.role = "superuser" \/ l.owner = [user |-> s.user, session |-> s.session]

Asks(r, op, s, new) ==
  /\ request[r] = IdleRequest /\ spent.requests < MaxAsked
  /\ spent' = [spent EXCEPT !.requests = @ + 1]
  /\ Go(r, [new EXCEPT !.op = op, !.who = s])
  /\ UNCHANGED <<slots, leases, copies, lapsed, streaming, waiting>>

AcquireLease(r, s, t, scope) ==
  /\ ScopeAllowed(s.role, scope)
  /\ scope = "view" => t \in streaming
  /\ Asks(r, "acquire", s, [IdleRequest EXCEPT !.step = "read", !.sn = t, !.scope = scope])

\* The requests about a lease get it first.
About(r, s, op, i, scope) ==
  /\ KnownLease(i)
  /\ Asks(r, op, s, [IdleRequest EXCEPT !.step = "get", !.id = i, !.scope = scope])

UpgradeLease(r, s, i, scope) == About(r, s, "upgrade", i, scope)
Keepalive(r, s, i) == About(r, s, "keepalive", i, "none")
Release(r, s, i) == About(r, s, "release", i, "none")

\* What each of them demands of the lease it gets.
Admitted(q, i, l) ==
  /\ Owner(l, q.who)
  /\ IF q.op = "release" THEN ~l.revoked ELSE ActiveLease(i, l)
  /\ q.op = "upgrade" =>
       ScopeAllowed(q.who.role, q.scope) /\ (q.scope = "view" => l.sn \in streaming)

GetLease(r) ==
  LET q == request[r]
      l == Got(q.id)
  IN /\ At(r, {"upgrade", "keepalive", "release"}, "get")
     /\ GoWrite(r, IF Admitted(q, q.id, l)
                   THEN [q EXCEPT !.sn = l.sn,
                           !.step = IF q.op = "release" THEN "revoke" ELSE "read"]
                   ELSE IdleRequest, "none", q.id)
     /\ Gets(q.id)
     /\ UNCHANGED <<slots, lapsed, streaming, waiting, spent>>

-----------------------------------------------------------------------------
(* acquire, touch and upgrade_scope of the registry *)

\* A lease of the same user and session is renewed, another one is a conflict.
ReadToAcquire(r) ==
  LET q == request[r]
      held == IF slots[q.sn] = 0 THEN BlankLease ELSE leases[slots[q.sn]]
      me == [user |-> q.who.user, session |-> q.who.session]
      Goes(i, l) == Go(r, [q EXCEPT !.step = "exec", !.id = i, !.lease = l, !.dirty = FALSE])
  IN /\ At(r, {"acquire"}, "read")
     /\ IF ~ActiveLease(slots[q.sn], held)
          THEN Goes(0, [sn |-> q.sn, owner |-> me, scope |-> q.scope, revoked |-> FALSE])
        ELSE IF held.owner = me THEN Goes(slots[q.sn], [held EXCEPT !.scope = q.scope])
        ELSE End(r)
     /\ UNCHANGED <<slots, leases, copies, lapsed, streaming, waiting, spent>>

ReadToTouch(r) ==
  LET q == request[r] IN
  /\ At(r, {"keepalive"}, "read")
  /\ IF ActiveLease(q.id, leases[q.id]) /\ slots[q.sn] = q.id
       THEN Go(r, [q EXCEPT !.step = "exec", !.lease = leases[q.id], !.dirty = FALSE])
       ELSE End(r)
  /\ UNCHANGED <<slots, leases, copies, lapsed, streaming, waiting, spent>>

ReadToUpgrade(r) ==
  LET q == request[r] IN
  /\ At(r, {"upgrade"}, "read")
  /\ IF ActiveLease(q.id, leases[q.id])
       THEN Go(r, [q EXCEPT !.step = "put", !.lease = [leases[q.id] EXCEPT !.scope = q.scope]])
       ELSE End(r)
  /\ UNCHANGED <<slots, leases, copies, lapsed, streaming, waiting, spent>>

\* The whole hash is written, without WATCH.
UpgradePut(r) ==
  LET q == request[r] IN
  /\ At(r, {"upgrade"}, "put")
  /\ leases' = [leases EXCEPT ![q.id] = q.lease]
  /\ GoWrite(r, [q EXCEPT !.step = "remember"], "none", q.id)
  /\ UNCHANGED <<slots, copies, lapsed, streaming, waiting, spent>>

\* Either both keys are written, or one of them was since it was read, and the call
\* reads again.
ExecWrites(r) ==
  LET q == request[r]
      i == IF q.id = 0 THEN spent.leases + 1 ELSE q.id
  IN /\ At(r, {"acquire", "keepalive"}, "exec")
     /\ IF q.dirty
          THEN StepTo(r, "read") /\ UNCHANGED <<slots, leases, spent>>
          ELSE /\ i \in LeaseIds
               /\ slots' = [slots EXCEPT ![q.sn] = i]
               /\ leases' = [leases EXCEPT ![i] = q.lease]
               /\ spent' = [spent EXCEPT !.leases = IF q.id = 0 THEN i ELSE @]
               /\ GoWrite(r, [q EXCEPT !.step = "remember", !.id = i], q.sn, i)
     /\ UNCHANGED <<copies, lapsed, streaming, waiting>>

RememberLease(r) ==
  LET q == request[r] IN
  /\ At(r, {"acquire", "keepalive", "upgrade"}, "remember")
  /\ copies' = [copies EXCEPT ![q.id] = q.lease]
  /\ IF q.op = "keepalive" THEN StepTo(r, "publish") ELSE End(r)
  /\ UNCHANGED <<slots, leases, lapsed, streaming, waiting, spent>>

\* The renewal is registered and published; then the lease is got once more, and the
\* answer of the terminal is waited for.
PublishRenewal(r) ==
  LET i == request[r].id IN
  /\ At(r, {"keepalive"}, "publish")
  /\ \/ waiting' = waiting \cup {i} /\ StepTo(r, "again") /\ UNCHANGED spent
     \/ /\ spent.fails < MaxFails /\ spent' = [spent EXCEPT !.fails = @ + 1]
        /\ End(r) /\ UNCHANGED waiting
  /\ UNCHANGED <<slots, leases, copies, lapsed, streaming>>

GetAgain(r) ==
  LET i == request[r].id IN
  /\ At(r, {"keepalive"}, "again")
  /\ GoWrite(r, IF Got(i) = BlankLease \/ Got(i).revoked THEN IdleRequest
                ELSE [request[r] EXCEPT !.step = "wait"], "none", i)
  /\ Gets(i)
  /\ UNCHANGED <<slots, lapsed, streaming, waiting, spent>>

\* Answered, or no longer waited for.
Wait(r) ==
  /\ At(r, {"keepalive"}, "wait") /\ End(r)
  /\ UNCHANGED <<slots, leases, copies, lapsed, streaming, waiting, spent>>

RenewalAnswered(i) ==
  /\ i \in waiting /\ waiting' = waiting \ {i}
  /\ UNCHANGED <<slots, leases, copies, lapsed, streaming, request, spent>>

-----------------------------------------------------------------------------
(* release_by_owner, with revoke_by_owner: the active keys are listed, the *)
(* lease of each is got, and those of the user are revoked one by one.     *)

\* Mutant: a logout without a session is that of a session without a name.
MatchesSession(l, s) == l.owner.user = s.user /\ s.session = l.owner.session

Matches(l, s) == l.owner.user = s.user /\ s.session \in {Everyone, l.owner.session}

Holds(s) ==
  {i \in LeaseIds : \E t \in Terminals : GetActive(t) = i /\ KnownLease(i)
                 /\ leases[i].owner.user = s.user
                 /\ s.session \in {Everyone, leases[i].owner.session}}

Logout(r, s) ==
  Asks(r, "logout", s, [IdleRequest EXCEPT !.step = "scan", !.held = Holds(s),
                          !.scan = {t \in Terminals : slots[t] # 0}])

ScanSlot(r, t) ==
  LET q == request[r] IN
  /\ At(r, {"logout"}, "scan") /\ t \in q.scan
  /\ Go(r, [q EXCEPT !.scan = @ \ {t}, !.id = slots[t],
              !.step = IF slots[t] = 0 THEN "scan" ELSE "got"])
  /\ UNCHANGED <<slots, leases, copies, lapsed, streaming, waiting, spent>>

ScanGet(r) ==
  LET q == request[r]
      l == Got(q.id)
  IN /\ At(r, {"logout"}, "got")
     /\ GoWrite(r, [q EXCEPT !.step = "scan", !.id = 0,
                      !.found = IF ActiveLease(q.id, l) /\ Matches(l, q.who)
                                THEN @ \cup {q.id} ELSE @], "none", q.id)
     /\ Gets(q.id)
     /\ UNCHANGED <<slots, lapsed, streaming, waiting, spent>>

LogoutNext(r, i) ==
  LET q == request[r] IN
  /\ At(r, {"logout"}, "scan") /\ q.scan = {} /\ i \in q.found
  /\ Go(r, [q EXCEPT !.step = "revoke", !.id = i, !.found = @ \ {i}])
  /\ UNCHANGED <<slots, leases, copies, lapsed, streaming, waiting, spent>>

LogoutReturns(r) ==
  LET q == request[r] IN
  /\ At(r, {"logout"}, "scan") /\ q.scan = {} /\ q.found = {}
  /\ waiting' = waiting \ q.gone
  /\ End(r)
  /\ UNCHANGED <<slots, leases, copies, lapsed, streaming, spent>>

\* cleanup_expired, which revokes what has lapsed, is a request of its own.
CleanupExpired(r, t) ==
  /\ slots[t] # 0 /\ slots[t] \in lapsed
  /\ Asks(r, "cleanup", NoOne, [IdleRequest EXCEPT !.step = "revoke", !.id = slots[t]])

\* revoke: of the hash that is read, then of the slot that is read.
Revoking == {"release", "logout", "cleanup"}

After(r) == IF request[r].op = "logout"
              THEN [request[r] EXCEPT !.step = "scan", !.gone = @ \cup {request[r].id}]
            ELSE [request[r] EXCEPT !.step = "cancel"]

ReadToRevoke(r) ==
  LET q == request[r] IN
  /\ At(r, Revoking, "revoke")
  /\ Go(r, IF leases[q.id].revoked THEN After(r)
           ELSE [q EXCEPT !.step = "look", !.lease = [leases[q.id] EXCEPT !.revoked = TRUE]])
  /\ UNCHANGED <<slots, leases, copies, lapsed, streaming, waiting, spent>>

LookAtKey(r) ==
  LET q == request[r] IN
  /\ At(r, Revoking, "look")
  /\ Go(r, [q EXCEPT !.step = "free", !.mine = slots[q.lease.sn] = q.id])
  /\ UNCHANGED <<slots, leases, copies, lapsed, streaming, waiting, spent>>

RevokeLease(r) ==
  LET q == request[r] IN
  /\ At(r, Revoking, "free")
  /\ leases' = [leases EXCEPT ![q.id].revoked = TRUE]
  /\ slots' = IF q.mine THEN [slots EXCEPT ![q.lease.sn] = 0] ELSE slots
  /\ GoWrite(r, [q EXCEPT !.step = "forget"], IF q.mine THEN q.lease.sn ELSE "none", q.id)
  /\ UNCHANGED <<copies, lapsed, streaming, waiting, spent>>

Revoked(r) ==
  /\ At(r, Revoking, "forget")
  /\ copies' = [copies EXCEPT ![request[r].id] = request[r].lease]
  /\ Go(r, After(r))
  /\ UNCHANGED <<slots, leases, lapsed, streaming, waiting, spent>>

Cancel(r) ==
  /\ At(r, {"release", "cleanup"}, "cancel")
  /\ waiting' = waiting \ {request[r].id} /\ End(r)
  /\ UNCHANGED <<slots, leases, copies, lapsed, streaming, spent>>

-----------------------------------------------------------------------------
Lapse(i) ==
  /\ KnownLease(i) /\ i \notin lapsed /\ lapsed' = lapsed \cup {i}
  /\ UNCHANGED <<slots, leases, copies, streaming, waiting, request, spent>>

\* Redis does not answer, or the client is gone.
RequestFails(r) ==
  /\ request[r] # IdleRequest /\ spent.fails < MaxFails
  /\ spent' = [spent EXCEPT !.fails = @ + 1]
  /\ End(r)
  /\ UNCHANGED <<slots, leases, copies, lapsed, streaming, waiting>>

ServeRequest(r) ==
  \/ \E s \in Sessions :
       \/ \E t \in Terminals, scope \in AskedScopes : AcquireLease(r, s, t, scope)
       \/ \E i \in LeaseIds : Keepalive(r, s, i) \/ Release(r, s, i)
                           \/ \E scope \in AskedScopes : UpgradeLease(r, s, i, scope)
       \/ Logout(r, s) \/ Logout(r, [s EXCEPT !.session = Everyone])
  \/ GetLease(r) \/ ReadToAcquire(r) \/ ReadToTouch(r) \/ ReadToUpgrade(r) \/ UpgradePut(r)
  \/ ExecWrites(r) \/ RememberLease(r) \/ PublishRenewal(r) \/ GetAgain(r) \/ Wait(r)
  \/ \E t \in Terminals : ScanSlot(r, t) \/ CleanupExpired(r, t)
  \/ ScanGet(r) \/ \E i \in LeaseIds : LogoutNext(r, i)
  \/ LogoutReturns(r)
  \/ ReadToRevoke(r) \/ LookAtKey(r) \/ RevokeLease(r) \/ Revoked(r) \/ Cancel(r)
  \/ RequestFails(r)

ServiceNext ==
  \/ \E r \in ServiceRequests : ServeRequest(r)
  \/ \E i \in LeaseIds : RenewalAnswered(i) \/ Lapse(i)

ServiceSpec == ServiceInit /\ [][ServiceNext]_serviceVars

-----------------------------------------------------------------------------
\* When a logout has returned, none of the terminals the user, or the session, held when it
\* began is held by the same lease, whatever keepalives, upgrades, releases and the cleanup
\* did in between (release_by_owner; get and upgrade_scope write a lease back that may have
\* been revoked since).
LogoutFreesTerminals ==
  [][\A r \in ServiceRequests :
       LogoutReturns(r) =>
         \A i \in request[r].held, t \in Terminals : GetActive(t)' # i]_serviceVars
=============================================================================
