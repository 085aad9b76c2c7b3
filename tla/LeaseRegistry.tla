--------------------------- MODULE LeaseRegistry ---------------------------
(***************************************************************************)
(* RedisLeaseRegistry: who may control one device (one serial number).     *)
(*                                                                         *)
(* Redis holds the key of the slot, l4d:lease:active:<sn>, and one hash    *)
(* for each lease; both expire.  Every worker keeps copies of the leases   *)
(* it has handled in _leases_by_id.  A call runs as a series of Redis      *)
(* commands, with other calls of the same worker and of other workers      *)
(* between any two of them; WATCH makes a transaction fail if a watched    *)
(* key was written, or expired, since it was watched.                      *)
(*                                                                         *)
(* One unit of time stands for many seconds, and a lease lives Ttl of      *)
(* them.  The leases are those of contract version 1: version 2 is never   *)
(* served from a copy, as files leases are not.                            *)
(***************************************************************************)
EXTENDS Integers, FiniteSets

CONSTANTS
  Workers, Calls,
  Home,       \* the worker of each call
  Owners,     \* pairs of user and browser session
  Scopes,
  MaxLeases, Horizon,  \* bounds of the number of leases and of the clock
  Ttl,        \* ttl_sec of a lease
  Guard,      \* FILES_DRAIN_GUARD_SECONDS
  Grace,      \* how much longer than its lease a hash lives: 30 s
  Floor,      \* how long the hash of a revoked lease lives at least: 60 s
  Slow        \* whether a call may take longer than a unit of time

ASSUME LeaseAssumption ==
  /\ Home \in [Calls -> Workers]
  /\ Scopes \subseteq {"console", "view", "stream", "input", "files"}
  /\ {MaxLeases, Horizon, Guard} \subseteq Nat
  /\ {Ttl, Grace, Floor} \subseteq Nat \ {0}
  /\ Slow \in BOOLEAN

VARIABLES
  now,
  slot,       \* the lease that the active key names, and when the key expires
  hash,       \* the stored hashes
  cache,      \* _leases_by_id of every worker
  call,       \* where every call is
  used,       \* how many leases were created
  deadline,   \* the last expires_at a files lease was ever given
  stopped,    \* the files leases whose worker was confirmed to have ended
  released    \* history: the other leases that a revocation has ended

finals == <<stopped, released>>
redis == <<slot, hash>>
vars  == <<now, redis, cache, call, used, deadline, finals>>

Ids     == 1..MaxLeases
Time    == 0..(Horizon + Ttl + Guard + Grace + Floor)
Forever == Horizon + Ttl + Guard + Grace + Floor
NoSlot  == [id |-> 0, until |-> 0]
NoLease == [scope |-> "none"]
NoHash  == [until |-> 0]
Idle    == [op |-> "idle"]

Lease == [owner: Owners, scope: Scopes, expires: Time,
          revoked: BOOLEAN, fm_stopped: BOOLEAN]

\* A hash without its fields is what HSET of one field leaves of an expired key.
Hash == {NoHash} \cup [lease: Lease \cup {NoLease}, until: Time]

\* The keys of the transactions: 0 is the active key, id the hash of the lease.
Keys == {0} \cup Ids

Call ==
  [op: {"idle"}]
    \cup [op: {"acquire"}, owner: Owners, scope: Scopes, at: 0..Horizon]
    \cup [op: {"exec"}, kind: {"create"}, id: {0}, lease: Lease,
          watch: SUBSET Keys, dirty: BOOLEAN, at: 0..Horizon]
    \cup [op: {"exec"}, kind: {"renew"}, id: Ids, lease: Lease,
          watch: SUBSET Keys, dirty: BOOLEAN, at: 0..Horizon]
    \cup [op: {"exec"}, kind: {"touch", "confirm"}, id: Ids, lease: Lease,
          watch: SUBSET Keys, dirty: BOOLEAN]
    \cup [op: {"rewrite", "remember", "look", "writeback"}, id: Ids, lease: Lease]
    \cup [op: {"revoke"}, id: Ids, lease: Lease, mine: BOOLEAN, life: Time]
    \cup [op: {"reread", "cleanup"}, id: Ids] \cup [op: {"sweep"}]

-----------------------------------------------------------------------------
(* Leases and keys *)

Files(l) == l.scope = "files"

Active(l, t) == ~l.revoked /\ t < l.expires

\* lease_blocks_acquire
Blocks(l, t) ==
  IF Files(l) THEN ~(l.fm_stopped /\ l.revoked) /\ t < l.expires + Guard
              ELSE Active(l, t)

Readable(id) == hash[id] # NoHash /\ hash[id].lease # NoLease

\* How long the active key outlives the lease.
Drain(l) == IF Files(l) THEN Guard ELSE 0

Larger(a, b) == IF a > b THEN a ELSE b

\* A write to the keys K spoils the transactions that watch one of them.
Dirty(f, K) ==
  [c \in Calls |-> IF f[c].op = "exec" /\ f[c].watch \cap K # {}
                   THEN [f[c] EXCEPT !.dirty = TRUE] ELSE f[c]]

\* Call c goes on to next; what it wrote spoils the transactions of others.
Goto(c, next, K) == call' = Dirty([call EXCEPT ![c] = next], K)

\* HSET of all fields of a lease: the expiry of the key stays, and a key that
\* had expired comes back without one.
Put(id, l) ==
  [hash EXCEPT ![id] = [lease |-> l,
     until |-> IF hash[id] = NoHash THEN Forever ELSE hash[id].until]]

\* Only get keeps the lock of its worker over a command.
LockFree(c) ==
  \A b \in Calls : Home[b] = Home[c] => call[b].op # "writeback"

-----------------------------------------------------------------------------
(* acquire *)

Acquire(c, o, s) ==
  /\ call[c] = Idle
  /\ call' = [call EXCEPT ![c] = [op |-> "acquire", owner |-> o, scope |-> s,
                                  at |-> now]]
  /\ UNCHANGED <<now, redis, cache, used, deadline, finals>>

Held(t) == slot # NoSlot /\ Readable(slot.id) /\ Blocks(hash[slot.id].lease, t)

\* The same user and session may renew, and may change the scope unless one of
\* the scopes is files.
Renewable(l, o, s, t) == l.owner = o /\ ~Files(l) /\ s # "files" /\ Active(l, t)

\* Both keys are watched before they are read; a broken hash is an error.
AcquireRead(c) ==
  /\ call[c].op = "acquire"
  /\ LET a == call[c]
         l == hash[slot.id].lease
         watch == IF slot = NoSlot THEN {0} ELSE {0, slot.id}
     IN  call' = [call EXCEPT ![c] =
           IF slot # NoSlot /\ hash[slot.id] # NoHash /\ ~Readable(slot.id) THEN Idle
           ELSE IF ~Held(a.at)
           THEN [op |-> "exec", kind |-> "create", id |-> 0, watch |-> watch,
                 dirty |-> FALSE, at |-> a.at,
                 lease |-> [owner |-> a.owner, scope |-> a.scope,
                            expires |-> a.at + Ttl, revoked |-> FALSE,
                            fm_stopped |-> FALSE]]
           ELSE IF Renewable(l, a.owner, a.scope, a.at)
           THEN [op |-> "exec", kind |-> "renew", id |-> slot.id, watch |-> watch,
                 dirty |-> FALSE, at |-> a.at,
                 lease |-> [l EXCEPT !.scope = a.scope, !.expires = a.at + Ttl]]
           ELSE Idle]
  /\ UNCHANGED <<now, redis, cache, used, deadline, finals>>

\* WatchError: the loop of acquire tries again, with the time it started at.
\* (A call gives up after five attempts: Fail.)
AcquireAgain(c) ==
  /\ call[c].op = "exec" /\ call[c].kind \in {"create", "renew"} /\ call[c].dirty
  /\ call' = [call EXCEPT ![c] =
       [op |-> "acquire", owner |-> call[c].lease.owner,
        scope |-> call[c].lease.scope, at |-> call[c].at]]
  /\ UNCHANGED <<now, redis, cache, used, deadline, finals>>

Committing(c, kind) ==
  call[c].op = "exec" /\ call[c].kind = kind /\ ~call[c].dirty

\* The transaction that sets the slot and the hash of lease id.
Store(c, id) ==
  LET l == call[c].lease
  IN  /\ slot' = [id |-> id, until |-> now + Ttl + Drain(l)]
      /\ hash' = [hash EXCEPT ![id] = [lease |-> l, until |-> now + Ttl + Grace]]
      /\ deadline' = IF Files(l) THEN [deadline EXCEPT ![id] = l.expires] ELSE deadline
      /\ Goto(c, [op |-> "remember", id |-> id, lease |-> l], {0, id})
      /\ UNCHANGED <<now, cache, finals>>

Create(c) ==
  /\ Committing(c, "create") /\ used < MaxLeases
  /\ Store(c, used + 1)
  /\ used' = used + 1

Renew(c) ==
  /\ Committing(c, "renew")
  /\ Store(c, call[c].id)
  /\ UNCHANGED used

\* get never uses the copy of a files lease, so it need not be kept.
Copy(l) == IF Files(l) THEN NoLease ELSE l

\* _leases_by_id[lease_id] = lease, at the end of several operations
Remember(c) ==
  /\ call[c].op = "remember" /\ LockFree(c)
  /\ cache' = [cache EXCEPT ![Home[c]][call[c].id] = Copy(call[c].lease)]
  /\ call' = [call EXCEPT ![c] = Idle]
  /\ UNCHANGED <<now, redis, used, deadline, finals>>

-----------------------------------------------------------------------------
(* touch, confirm_files_stopped, upgrade_scope *)

Extended(l) == [l EXCEPT !.expires = now + Ttl]

\* Mutant: the lease may have lost the slot.
TouchableLive(id) == Readable(id) /\ Active(hash[id].lease, now)

\* Only an active lease that holds the slot can be extended.
Touchable(id) ==
  Readable(id) /\ Active(hash[id].lease, now) /\ slot.id = id

TouchRead(c, id) ==
  /\ call[c] = Idle /\ Touchable(id)
  /\ call' = [call EXCEPT ![c] =
       [op |-> "exec", kind |-> "touch", id |-> id, watch |-> {0, id},
        dirty |-> FALSE, lease |-> Extended(hash[id].lease)]]
  /\ UNCHANGED <<now, redis, cache, used, deadline, finals>>

Touch(c) ==
  /\ Committing(c, "touch")
  /\ Store(c, call[c].id)
  /\ UNCHANGED used

\* Called when the agent has reported that its file worker ended.
ConfirmRead(c, id) ==
  /\ call[c] = Idle
  /\ Readable(id) /\ Files(hash[id].lease) /\ hash[id].lease.revoked
  /\ call' = [call EXCEPT ![c] =
       [op |-> "exec", kind |-> "confirm", id |-> id, watch |-> {0, id},
        dirty |-> FALSE, lease |-> hash[id].lease]]
  /\ UNCHANGED <<now, redis, cache, used, deadline, finals>>

\* The active key is deleted if it still names the lease.
FreedByConfirm(id) == slot.id = id

Confirm(c) ==
  /\ Committing(c, "confirm")
  /\ LET id == call[c].id
     IN  /\ hash' = [hash EXCEPT ![id].lease.fm_stopped = TRUE]
         /\ slot' = IF FreedByConfirm(id) THEN NoSlot ELSE slot
         /\ stopped' = stopped \cup {id}
         /\ Goto(c, Idle, {id} \cup IF FreedByConfirm(id) THEN {0} ELSE {})
  /\ UNCHANGED <<now, cache, used, deadline, released>>

\* WatchError in touch and confirm_files_stopped: the call reads again.
Again(c) ==
  /\ call[c].op = "exec" /\ call[c].kind \in {"touch", "confirm"} /\ call[c].dirty
  /\ call' = [call EXCEPT ![c] = Idle]
  /\ UNCHANGED <<now, redis, cache, used, deadline, finals>>

UpgradeRead(c, id, s) ==
  /\ call[c] = Idle
  /\ Readable(id) /\ Active(hash[id].lease, now)
  /\ ~Files(hash[id].lease) /\ s # "files"
  /\ call' = [call EXCEPT ![c] =
       [op |-> "rewrite", id |-> id, lease |-> [hash[id].lease EXCEPT !.scope = s]]]
  /\ UNCHANGED <<now, redis, cache, used, deadline, finals>>

\* The whole hash is written back, without WATCH.
Upgrade(c) ==
  /\ call[c].op = "rewrite"
  /\ hash' = Put(call[c].id, call[c].lease)
  /\ Goto(c, [call[c] EXCEPT !.op = "remember"], {call[c].id})
  /\ UNCHANGED <<now, slot, cache, used, deadline, finals>>

-----------------------------------------------------------------------------
(* revoke: by the owner, by another call that failed, or by cleanup_expired *)

RevokeRead(c, id) ==
  /\ call[c] = Idle
  /\ Readable(id) /\ ~hash[id].lease.revoked
  /\ call' = [call EXCEPT ![c] = [op |-> "look", id |-> id, lease |-> hash[id].lease]]
  /\ UNCHANGED <<now, redis, cache, used, deadline, finals>>

\* The life of the hash is computed from the lease that was read, then the
\* active key is read.
RevokeLook(c) ==
  /\ call[c].op = "look"
  /\ LET l == call[c].lease
     IN  call' = [call EXCEPT ![c] =
           [op |-> "revoke", id |-> call[c].id, lease |-> l,
            mine |-> slot.id = call[c].id,
            life |-> IF Files(l)
                     THEN Larger(Floor, l.expires - now + Guard + Grace)
                     ELSE Floor]]
  /\ UNCHANGED <<now, redis, cache, used, deadline, finals>>

\* A files lease keeps the slot.
Frees(c) == call[c].mine /\ ~Files(call[c].lease)

\* The field is set and the expiry of the key renewed; the active key, if it
\* was the lease's when it was read, is deleted whatever it names now.
Revoke(c) ==
  /\ call[c].op = "revoke"
  /\ LET id == call[c].id
     IN  /\ hash' = [hash EXCEPT ![id] =
              [lease |-> IF Readable(id) THEN [hash[id].lease EXCEPT !.revoked = TRUE]
                                         ELSE NoLease,
               until |-> now + call[c].life]]
         /\ slot' = IF Frees(c) THEN NoSlot ELSE slot
         /\ Goto(c, [op |-> "remember", id |-> id,
                     lease |-> [call[c].lease EXCEPT !.revoked = TRUE]],
                 {id} \cup IF Frees(c) THEN {0} ELSE {})
         /\ released' = IF Files(call[c].lease) THEN released ELSE released \cup {id}
  /\ UNCHANGED <<now, cache, used, deadline, stopped>>

-----------------------------------------------------------------------------
(* get and cleanup_expired *)

\* The copy and the hash are read under the lock; a copy is preferred.
Get(c, id) ==
  /\ call[c] = Idle /\ LockFree(c) /\ hash[id] # NoHash
  /\ call' = [call EXCEPT ![c] =
       IF cache[Home[c]][id] # NoLease
       THEN [op |-> "writeback", id |-> id, lease |-> cache[Home[c]][id]]
       ELSE [op |-> "reread", id |-> id]]
  /\ UNCHANGED <<now, redis, cache, used, deadline, finals>>

\* The copy is written over the hash and returned.
WriteBack(c) ==
  /\ call[c].op = "writeback"
  /\ hash' = Put(call[c].id, call[c].lease)
  /\ Goto(c, Idle, {call[c].id})
  /\ UNCHANGED <<now, slot, cache, used, deadline, finals>>

Reread(c) ==
  /\ call[c].op = "reread"
  /\ LET id == call[c].id
     IN  call' = [call EXCEPT ![c] =
           IF Readable(id) THEN [op |-> "remember", id |-> id, lease |-> hash[id].lease]
                           ELSE Idle]
  /\ UNCHANGED <<now, redis, cache, used, deadline, finals>>

\* cleanup_expired reads the active key and gets the lease.  It revokes a lease
\* that has expired or lost its socket (RevokeRead, which asks no reason) and
\* deletes an active key that names no lease.
Cleanup(c) ==
  /\ call[c] = Idle /\ slot # NoSlot
  /\ call' = [call EXCEPT ![c] = [op |-> "cleanup", id |-> slot.id]]
  /\ UNCHANGED <<now, redis, cache, used, deadline, finals>>

CleanupGet(c) ==
  /\ call[c].op = "cleanup"
  /\ call' = [call EXCEPT ![c] =
       IF hash[call[c].id] = NoHash THEN [op |-> "sweep"] ELSE Idle]
  /\ UNCHANGED <<now, redis, cache, used, deadline, finals>>

Sweep(c) ==
  /\ call[c].op = "sweep"
  /\ slot' = NoSlot
  /\ Goto(c, Idle, IF slot = NoSlot THEN {} ELSE {0})
  /\ UNCHANGED <<now, hash, cache, used, deadline, finals>>

-----------------------------------------------------------------------------

\* Keys expire.  cleanup_expired does not take as long as a unit of time
\* between two of its commands: a Redis command has a timeout of seconds.
Tick ==
  /\ now < Horizon
  /\ \A c \in Calls : call[c] = Idle \/ (Slow /\ call[c].op \notin {"cleanup", "sweep"})
  /\ now' = now + 1
  /\ LET gone == {id \in Ids : hash[id] # NoHash /\ hash[id].until <= now'}
         free == slot # NoSlot /\ slot.until <= now'
     IN  /\ hash' = [id \in Ids |-> IF id \in gone THEN NoHash ELSE hash[id]]
         /\ slot' = IF free THEN NoSlot ELSE slot
         /\ call' = Dirty(call, gone \cup IF free THEN {0} ELSE {})
  /\ UNCHANGED <<cache, used, deadline, finals>>

\* A Redis error, a cancelled request, or too many attempts.
Fail(c) ==
  /\ call[c] # Idle
  /\ call' = [call EXCEPT ![c] = Idle]
  /\ UNCHANGED <<now, redis, cache, used, deadline, finals>>

\* A worker that starts anew has no copies.
Restart(w) ==
  /\ cache' = [cache EXCEPT ![w] = [id \in Ids |-> NoLease]]
  /\ call' = [c \in Calls |-> IF Home[c] = w THEN Idle ELSE call[c]]
  /\ UNCHANGED <<now, redis, used, deadline, finals>>

Init ==
  /\ now = 0
  /\ slot = NoSlot /\ hash = [id \in Ids |-> NoHash]
  /\ cache = [w \in Workers |-> [id \in Ids |-> NoLease]]
  /\ call = [c \in Calls |-> Idle]
  /\ used = 0 /\ deadline = [id \in Ids |-> 0] /\ stopped = {} /\ released = {}

Step(c) ==
  \/ \E o \in Owners, s \in Scopes : Acquire(c, o, s)
  \/ AcquireRead(c) \/ AcquireAgain(c) \/ Create(c) \/ Renew(c) \/ Remember(c)
  \/ \E id \in Ids : TouchRead(c, id) \/ ConfirmRead(c, id) \/ RevokeRead(c, id)
                       \/ Get(c, id) \/ \E s \in Scopes : UpgradeRead(c, id, s)
  \/ Touch(c) \/ Confirm(c) \/ Again(c) \/ Upgrade(c)
  \/ RevokeLook(c) \/ Revoke(c) \/ WriteBack(c) \/ Reread(c)
  \/ Cleanup(c) \/ CleanupGet(c) \/ Sweep(c) \/ Fail(c)

Next == Tick \/ (\E c \in Calls : Step(c)) \/ (\E w \in Workers : Restart(w))

Spec == Init /\ [][Next]_vars

-----------------------------------------------------------------------------
(* Properties *)

\* Keys, copies and calls have their types.
TypeOK ==
  /\ now \in 0..Horizon
  /\ slot \in {NoSlot} \cup [id: Ids, until: Time]
  /\ hash \in [Ids -> Hash]
  /\ cache \in [Workers -> [Ids -> Lease \cup {NoLease}]]
  /\ call \in [Calls -> Call]
  /\ used \in 0..MaxLeases /\ deadline \in [Ids -> Time]
  /\ stopped \subseteq Ids /\ released \subseteq Ids

\* The file worker of a lease may still be busy: it was authorised until the
\* deadline, and the guard has not passed, nor was its end confirmed.
Busy(id) == deadline[id] > 0 /\ id \notin stopped /\ now < deadline[id] + Guard

\* What the hash of a lease says.
Live(id) == Readable(id) /\ Active(hash[id].lease, now)

\* While a file worker may be busy, nobody else is given the device (leases.py:
\* touch, revoke and lease_blocks_acquire): not by a renewal that races the
\* release, not after the hash or the key has expired.
FilesGuarded ==
  \A i, j \in Ids : i # j /\ Busy(i) => ~Busy(j) /\ ~Live(j)

\* A lease that was released, or confirmed stopped, never holds the device again:
\* neither a renewal, a touch or a second revocation in flight, nor a copy written
\* back, gives it the slot that a later lease may have (leases.py: revoke,
\* confirm_files_stopped, touch, acquire).
ReleasedFreesSlot ==
  slot # NoSlot => slot.id \notin released \cup stopped

\* The device has at most one live lease (leases.py: acquire), those left out
\* that were released.
OneLease ==
  \A i, j \in Ids \ released : Live(i) /\ Live(j) => i = j
=============================================================================
