-------------------------- MODULE ComponentsProofs --------------------------
(***************************************************************************)
(* What is proved of the components that share no state with each other.   *)
(* Each section is about one component and its specification; the state of *)
(* the others does not occur in it.                                        *)
(***************************************************************************)
EXTENDS LeaseRegistry, MediaClock, Provisioning, Quality, InputRelay, Presence,
        Billing, TLAPS

-----------------------------------------------------------------------------
(* The lease registry.  A released lease does not keep the slot, for any   *)
(* number of workers, calls, owners and leases, any scopes and any times.  *)
(*                                                                         *)
(* What makes it hold: the number of a lease is never given out again, and *)
(* a call that sets the slot to an old lease has watched the slot since it *)
(* read that lease in it.  So once the slot names another lease, or none,  *)
(* it never names the old one again, and every copy that says the lease is *)
(* released can be written back at any time without harm.                  *)


Spoken == {"rewrite", "remember", "look", "writeback", "revoke"}

\* Call c carries what was read of lease id.
About(c, id) ==
  /\ call[c].op \in Spoken \/ (call[c].op = "exec" /\ call[c].kind # "create")
  /\ call[c].id = id

\* Everything that anybody says of lease id.
Copies(id) ==
  (IF Readable(id) THEN {hash[id].lease} ELSE {})
    \cup ({cache[w][id] : w \in Workers} \ {NoLease})
    \cup {call[c].lease : c \in {c \in Calls : About(c, id)}}

\* A lease that no longer keeps the slot.
Over(l) == l.fm_stopped \/ (l.revoked /\ ~Files(l))

\* The copies of a lease agree on whether it is a files lease.
Fine(id, l) ==
  /\ l \in Lease /\ l.expires <= now + Ttl /\ id <= used
  /\ Over(l) => slot.id # id
  /\ \A x \in Copies(id) : Files(x) <=> Files(l)

CopiesFine == \A id \in Ids : \A l \in Copies(id) : Fine(id, l)

\* The transaction of a call: a clean one knows what the slot and the hash are.
Sound(k) ==
  /\ k.op = "acquire" => k.at <= now
  /\ k.op = "exec" /\ k.kind \in {"create", "renew"} => k.at <= now
  /\ k.op = "exec" /\ k.kind = "create" =>
       ~k.lease.revoked /\ ~k.lease.fm_stopped /\ k.lease.expires <= now + Ttl
  /\ k.op = "exec" /\ k.kind # "create" => {0, k.id} \subseteq k.watch
  /\ k.op = "exec" /\ k.kind \in {"renew", "touch"} =>
       ~k.lease.revoked /\ (~k.dirty => slot.id = k.id)
  /\ k.op = "exec" /\ k.kind = "confirm" /\ ~k.dirty => Readable(k.id)
  /\ k.op = "revoke" =>
       /\ k.life <= Ttl + Guard + Grace + Floor
       /\ ~k.mine /\ ~Files(k.lease) => slot.id # k.id

CallsSound == \A c \in Calls : Sound(call[c])

IndInv == TypeOK /\ CopiesFine /\ CallsSound

\* Nobody but the calls of S moves; what was written, K, spoils transactions.
Marked(S, K) ==
  \A d \in Calls \ S :
    call'[d] = IF call[d].op = "exec" /\ call[d].watch \cap K # {}
               THEN [call[d] EXCEPT !.dirty = TRUE] ELSE call[d]

\* A lease that the slot does not name is never named again.
Leaves == \A id \in Ids : id <= used /\ slot.id # id => slot'.id # id

\* What may be said of a lease after a step.
Heir(id, y) ==
  /\ y \in Lease /\ y.expires <= now' + Ttl
  /\ Over(y) => slot'.id # id
  /\ \E x \in Copies(id) : Files(x) <=> Files(y)

-----------------------------------------------------------------------------
(* What a call holds *)

LEMMA CallForm ==
  ASSUME NEW k \in Call
  PROVE  /\ k.op = "acquire" => k \in [op: {"acquire"}, owner: Owners, scope: Scopes,
                                       at: 0..Horizon]
         /\ k.op = "exec" =>
              \/ k \in [op: {"exec"}, kind: {"create"}, id: {0}, lease: Lease,
                        watch: SUBSET Keys, dirty: BOOLEAN, at: 0..Horizon]
              \/ k \in [op: {"exec"}, kind: {"renew"}, id: Ids, lease: Lease,
                        watch: SUBSET Keys, dirty: BOOLEAN, at: 0..Horizon]
              \/ k \in [op: {"exec"}, kind: {"touch", "confirm"}, id: Ids, lease: Lease,
                        watch: SUBSET Keys, dirty: BOOLEAN]
         /\ k.op \in {"rewrite", "remember", "look", "writeback"} =>
              k \in [op: {"rewrite", "remember", "look", "writeback"}, id: Ids, lease: Lease]
         /\ k.op = "revoke" => k \in [op: {"revoke"}, id: Ids, lease: Lease, mine: BOOLEAN,
                                      life: Time]
         /\ k.op \in {"reread", "cleanup"} => k \in [op: {"reread", "cleanup"}, id: Ids]
         /\ k.op \in {"idle", "acquire", "exec", "rewrite", "remember", "look", "writeback",
                      "revoke", "reread", "cleanup", "sweep"}
BY DEF Call

LEMMA CallFields ==
  ASSUME NEW k \in Call
  PROVE  /\ k.op = "acquire" => k.owner \in Owners /\ k.scope \in Scopes /\ k.at \in 0..Horizon
         /\ k.op = "exec" => /\ k.kind \in {"create", "renew", "touch", "confirm"}
                             /\ k.lease \in Lease /\ k.watch \subseteq Keys /\ k.dirty \in BOOLEAN
                             /\ k.kind \in {"create", "renew"} => k.at \in 0..Horizon
                             /\ k.kind = "create" => k.id = 0
                             /\ k.kind # "create" => k.id \in Ids
         /\ k.op \in Spoken => k.id \in Ids /\ k.lease \in Lease
         /\ k.op = "revoke" => k.mine \in BOOLEAN /\ k.life \in Time
         /\ k.op \in {"reread", "cleanup"} => k.id \in Ids
<1>1. k.op = "acquire" => k.owner \in Owners /\ k.scope \in Scopes /\ k.at \in 0..Horizon
  BY CallForm
<1>2. ASSUME k.op = "exec"
      PROVE  /\ k.kind \in {"create", "renew", "touch", "confirm"}
             /\ k.lease \in Lease /\ k.watch \subseteq Keys /\ k.dirty \in BOOLEAN
             /\ k.kind \in {"create", "renew"} => k.at \in 0..Horizon
             /\ k.kind = "create" => k.id = 0
             /\ k.kind # "create" => k.id \in Ids
  <2>1. CASE k \in [op: {"exec"}, kind: {"create"}, id: {0}, lease: Lease,
                    watch: SUBSET Keys, dirty: BOOLEAN, at: 0..Horizon]
    BY <2>1
  <2>2. CASE k \in [op: {"exec"}, kind: {"renew"}, id: Ids, lease: Lease,
                    watch: SUBSET Keys, dirty: BOOLEAN, at: 0..Horizon]
    BY <2>2
  <2>3. CASE k \in [op: {"exec"}, kind: {"touch", "confirm"}, id: Ids, lease: Lease,
                    watch: SUBSET Keys, dirty: BOOLEAN]
    BY <2>3
  <2> QED BY <1>2, <2>1, <2>2, <2>3, CallForm
<1>3. k.op \in Spoken => k.id \in Ids /\ k.lease \in Lease
  BY CallForm DEF Spoken
<1>4. k.op = "revoke" => k.mine \in BOOLEAN /\ k.life \in Time
  BY CallForm
<1>5. k.op \in {"reread", "cleanup"} => k.id \in Ids
  BY CallForm
<1> QED BY <1>1, <1>2, <1>3, <1>4, <1>5

\* A spoiled transaction is the same but for its mark.
LEMMA Spoil ==
  ASSUME NEW k \in Call, k.op = "exec"
  PROVE  LET s == [k EXCEPT !.dirty = TRUE]
         IN  /\ s \in Call /\ s.op = "exec" /\ s.kind = k.kind /\ s.id = k.id
             /\ s.lease = k.lease /\ s.watch = k.watch /\ s.dirty = TRUE
             /\ k.kind \in {"create", "renew"} => s.at = k.at
<1> DEFINE s == [k EXCEPT !.dirty = TRUE]
<1>1. CASE k \in [op: {"exec"}, kind: {"create"}, id: {0}, lease: Lease,
                  watch: SUBSET Keys, dirty: BOOLEAN, at: 0..Horizon]
  <2>1. s \in [op: {"exec"}, kind: {"create"}, id: {0}, lease: Lease,
               watch: SUBSET Keys, dirty: BOOLEAN, at: 0..Horizon]
    BY <1>1
  <2> QED BY <1>1, <2>1 DEF Call
<1>2. CASE k \in [op: {"exec"}, kind: {"renew"}, id: Ids, lease: Lease,
                  watch: SUBSET Keys, dirty: BOOLEAN, at: 0..Horizon]
  <2>1. s \in [op: {"exec"}, kind: {"renew"}, id: Ids, lease: Lease,
               watch: SUBSET Keys, dirty: BOOLEAN, at: 0..Horizon]
    BY <1>2
  <2> QED BY <1>2, <2>1 DEF Call
<1>3. CASE k \in [op: {"exec"}, kind: {"touch", "confirm"}, id: Ids, lease: Lease,
                  watch: SUBSET Keys, dirty: BOOLEAN]
  <2>1. s \in [op: {"exec"}, kind: {"touch", "confirm"}, id: Ids, lease: Lease,
               watch: SUBSET Keys, dirty: BOOLEAN]
    BY <1>3
  <2> QED BY <1>3, <2>1 DEF Call
<1> QED BY <1>1, <1>2, <1>3, CallForm

LEMMA GotoMarks ==
  ASSUME TypeOK, NEW c \in Calls, NEW next \in Call, next.op # "exec", NEW K, Goto(c, next, K)
  PROVE  /\ call' \in [Calls -> Call] /\ call'[c] = next /\ Marked({c}, K)
<1> DEFINE f == [call EXCEPT ![c] = next]
<1>1. /\ f \in [Calls -> Call] /\ f[c] = next
      /\ \A d \in Calls \ {c} : f[d] = call[d]
  BY DEF TypeOK
<1>2. call' = [d \in Calls |-> IF f[d].op = "exec" /\ f[d].watch \cap K # {}
                               THEN [f[d] EXCEPT !.dirty = TRUE] ELSE f[d]]
  BY DEF Goto, Dirty
<1> HIDE DEF f
<1>3. ASSUME NEW d \in Calls PROVE call'[d] \in Call
  <2>1. f[d] \in Call
    BY <1>1
  <2> QED BY <1>2, <2>1, Spoil
<1> QED BY <1>1, <1>2, <1>3 DEF Marked

LEMMA MoveMarks ==
  ASSUME TypeOK, NEW c \in Calls, NEW next \in Call, call' = [call EXCEPT ![c] = next]
  PROVE  call' \in [Calls -> Call] /\ call'[c] = next /\ Marked({c}, {})
BY DEF TypeOK, Marked

-----------------------------------------------------------------------------
(* What is said of a lease *)

LEMMA CopyOf ==
  ASSUME NEW id \in Ids
  PROVE  /\ Readable(id) => hash[id].lease \in Copies(id)
         /\ \A w \in Workers : cache[w][id] # NoLease => cache[w][id] \in Copies(id)
         /\ \A c \in Calls : About(c, id) => call[c].lease \in Copies(id)
BY DEF Copies

LEMMA CopySource ==
  ASSUME NEW id \in Ids, NEW y \in Copies(id)
  PROVE  \/ Readable(id) /\ y = hash[id].lease
         \/ \E w \in Workers : cache[w][id] # NoLease /\ y = cache[w][id]
         \/ \E c \in Calls : About(c, id) /\ y = call[c].lease
BY DEF Copies

\* The step leaves of every copy the copy itself or an heir of it.
LEMMA HeirsFine ==
  ASSUME IndInv, NEW id \in Ids, now \in Nat, now' \in Nat, now <= now',
         used \in Nat, used' \in Nat, used <= used', Leaves,
         \A y \in Copies(id)' : y \in Copies(id) \/ Heir(id, y)
  PROVE  \A l \in Copies(id)' : Fine(id, l)'
<1>1. ASSUME NEW x \in Copies(id) PROVE Heir(id, x) /\ id <= used
  <2>1. Fine(id, x)
    BY DEF IndInv, CopiesFine
  <2>2. x.expires \in Int /\ Ttl \in Int
    BY <2>1, LeaseAssumption DEF Fine, Lease, Time
  <2>3. x.expires <= now' + Ttl
    BY <2>1, <2>2 DEF Fine
  <2> QED BY <2>1, <2>3 DEF Fine, Heir, Leaves
<1>2. \A y \in Copies(id)' : Heir(id, y)
  BY <1>1
<1> TAKE l \in Copies(id)'
<1>3. l \in Lease /\ l.expires <= now' + Ttl /\ (Over(l) => slot'.id # id)
  BY <1>2 DEF Heir
<1>4. id <= used'
  <2>1. PICK x \in Copies(id) : TRUE
    BY <1>2 DEF Heir
  <2>2. id <= used /\ id \in Nat
    BY <1>1, <2>1 DEF Ids
  <2> QED BY <2>2
<1>5. ASSUME NEW z \in Copies(id)' PROVE Files(z) <=> Files(l)
  <2>1. PICK x \in Copies(id) : Files(x) <=> Files(l)
    BY <1>2 DEF Heir
  <2>2. PICK y \in Copies(id) : Files(y) <=> Files(z)
    BY <1>2 DEF Heir
  <2>3. Files(y) <=> Files(x)
    BY DEF IndInv, CopiesFine, Fine
  <2> QED BY <2>1, <2>2, <2>3
<1> QED BY <1>3, <1>4, <1>5 DEF Fine

LEMMA SaidFine ==
  ASSUME IndInv, NEW id \in Ids, NEW l \in Copies(id)
  PROVE  /\ l \in Lease /\ l.expires <= now + Ttl /\ id <= used
         /\ Over(l) => slot.id # id
         /\ \A x \in Copies(id) : Files(x) <=> Files(l)
BY DEF IndInv, CopiesFine, Fine

-----------------------------------------------------------------------------
(* The other calls stay sound *)

LEMMA OthersSound ==
  ASSUME IndInv, NEW S \in SUBSET Calls, NEW K, Marked(S, K), now' \in Nat, now <= now', Leaves,
         (slot' = slot) \/ 0 \in K, \A id \in Ids : hash'[id] = hash[id] \/ id \in K,
         \A c \in S : Sound(call[c])'
  PROVE  CallsSound'
<1>1. SUFFICES ASSUME NEW d \in Calls \ S PROVE Sound(call[d])'
  BY DEF CallsSound
<1> DEFINE k == call[d]
           n == call'[d]
<1>2. /\ k \in Call /\ Sound(k) /\ now \in Nat /\ Ttl \in Nat
  BY LeaseAssumption DEF IndInv, TypeOK, CallsSound
<1>3. n = IF k.op = "exec" /\ k.watch \cap K # {} THEN [k EXCEPT !.dirty = TRUE] ELSE k
  BY DEF Marked
<1>4. About(d, k.id) /\ k.op = "revoke" => k.id <= used /\ k.id \in Ids
  <2> SUFFICES ASSUME About(d, k.id), k.op = "revoke" PROVE k.id <= used /\ k.id \in Ids
    OBVIOUS
  <2>1. k.id \in Ids
    BY <1>2, CallFields DEF Spoken
  <2> QED BY <2>1, CopyOf, SaidFine
<1>5. k.op = "revoke" => About(d, k.id)
  BY DEF About, Spoken
<1> HIDE DEF k, n
<1>6. n.op = k.op /\ (k.op # "exec" => n = k)
  BY <1>2, <1>3, Spoil
<1>7. CASE k.op = "exec"
  <2>1. /\ n.kind = k.kind /\ n.id = k.id /\ n.lease = k.lease /\ n.watch = k.watch
        /\ k.kind \in {"create", "renew"} => n.at = k.at
        /\ ~n.dirty => ~k.dirty /\ k.watch \cap K = {}
    BY <1>2, <1>3, <1>7, Spoil
  <2>2. /\ k.lease \in Lease /\ k.lease.expires \in Int
        /\ k.kind \in {"create", "renew"} => k.at \in Int
        /\ k.kind # "create" => k.id \in Ids
    BY <1>2, <1>7, CallFields DEF Lease, Time
  <2>3. n.kind \in {"create", "renew"} => n.at <= now'
    BY <1>2, <1>7, <2>1, <2>2 DEF Sound
  <2>4. n.kind = "create" => ~n.lease.revoked /\ ~n.lease.fm_stopped
    BY <1>2, <1>7, <2>1 DEF Sound
  <2>5. n.kind = "create" => n.lease.expires <= now' + Ttl
    BY <1>2, <1>7, <2>1, <2>2 DEF Sound
  <2>6. n.kind # "create" => {0, n.id} \subseteq n.watch
    BY <1>2, <1>7, <2>1 DEF Sound
  <2>7. n.kind \in {"renew", "touch"} => ~n.lease.revoked /\ (~n.dirty => slot'.id = n.id)
    BY <1>2, <1>7, <2>1, <2>6 DEF Sound
  <2>8. n.kind = "confirm" /\ ~n.dirty => Readable(call[d].id)'
    <3> SUFFICES ASSUME n.kind = "confirm", ~n.dirty PROVE Readable(call[d].id)'
      OBVIOUS
    <3>1. k.id \in Ids /\ k.id \notin K /\ Readable(k.id)
      BY <1>2, <1>7, <2>1, <2>2, <2>6 DEF Sound
    <3>2. hash'[k.id] = hash[k.id] /\ call'[d].id = k.id
      BY <2>1, <3>1 DEF n
    <3> QED BY <3>1, <3>2 DEF Readable
  <2> QED BY <1>6, <1>7, <2>3, <2>4, <2>5, <2>6, <2>7, <2>8 DEF Sound, n
<1>8. CASE k.op # "exec"
  <2>1. n = k
    BY <1>6, <1>8
  <2>2. k.op = "acquire" => k.at <= now'
    <3>1. k.op = "acquire" => k.at \in Int
      BY <1>2, CallFields
    <3> QED BY <1>2, <3>1 DEF Sound
  <2>3. k.op = "revoke" => /\ k.life <= Ttl + Guard + Grace + Floor
                           /\ ~k.mine /\ ~Files(k.lease) => slot'.id # k.id
    BY <1>2, <1>4, <1>5 DEF Sound, Leaves
  <2> QED BY <1>8, <2>1, <2>2, <2>3 DEF Sound, n
<1> QED BY <1>7, <1>8

LEMMA OthersSay ==
  ASSUME IndInv, NEW S \in SUBSET Calls, NEW K, Marked(S, K), NEW d \in Calls \ S,
         NEW id \in Ids, About(d, id)'
  PROVE  call'[d].lease \in Copies(id)
<1>1. call[d] \in Call
  BY DEF IndInv, TypeOK
<1>2. About(d, id) /\ call'[d].lease = call[d].lease
  <2>1. CASE call'[d] = call[d]
    BY <2>1 DEF About
  <2>2. CASE call[d].op = "exec" /\ call'[d] = [call[d] EXCEPT !.dirty = TRUE]
    BY <1>1, <2>2, Spoil DEF About
  <2> QED BY <2>1, <2>2 DEF Marked
<1> QED BY <1>2, CopyOf

\* A step keeps the invariant if what it writes and what its calls carry is said by heirs.
LEMMA StepKeeps ==
  ASSUME IndInv, TypeOK', NEW S \in SUBSET Calls, NEW K, Marked(S, K),
         now <= now', used <= used', Leaves, (slot' = slot) \/ 0 \in K,
         \A id \in Ids : hash'[id] = hash[id] \/ id \in K,
         \A id \in Ids : Readable(id)' => \/ hash'[id] = hash[id]
                                          \/ Heir(id, hash'[id].lease),
         \A w \in Workers, id \in Ids :
           cache'[w][id] # NoLease => cache'[w][id] \in Copies(id),
         \A c \in S, id \in Ids : About(c, id)' => Heir(id, call'[c].lease),
         \A c \in S : Sound(call[c])'
  PROVE  IndInv'
<1>1. now \in Nat /\ now' \in Nat /\ used \in Nat /\ used' \in Nat
  BY LeaseAssumption DEF IndInv, TypeOK
<1>2. ASSUME NEW id \in Ids, NEW y \in Copies(id)'
      PROVE  y \in Copies(id) \/ Heir(id, y)
  <2>1. CASE Readable(id)' /\ y = hash'[id].lease
    <3>1. CASE hash'[id] = hash[id]
      BY <2>1, <3>1, CopyOf DEF Readable
    <3> QED BY <2>1, <3>1
  <2>2. CASE \E w \in Workers : cache'[w][id] # NoLease /\ y = cache'[w][id]
    BY <2>2
  <2>3. ASSUME NEW c \in Calls, About(c, id)', y = call'[c].lease
        PROVE  y \in Copies(id) \/ Heir(id, y)
    BY <2>3, OthersSay
  <2>4. \/ Readable(id)' /\ y = hash'[id].lease
        \/ \E w \in Workers : cache'[w][id] # NoLease /\ y = cache'[w][id]
        \/ \E c \in Calls : About(c, id)' /\ y = call'[c].lease
    BY <1>2 DEF Copies
  <2> QED BY <2>1, <2>2, <2>3, <2>4
<1>3. CopiesFine'
  <2>1. ASSUME NEW id \in Ids PROVE \A l \in Copies(id)' : Fine(id, l)'
    BY <1>1, <1>2, HeirsFine
  <2> QED BY <2>1 DEF CopiesFine, Ids
<1>4. CallsSound'
  BY <1>1, OthersSound
<1> QED BY <1>3, <1>4 DEF IndInv

\* A call goes on without a write.  What it carries of a lease was said before.
LEMMA MoveKeeps ==
  ASSUME IndInv, NEW c \in Calls, NEW next \in Call, call' = [call EXCEPT ![c] = next],
         UNCHANGED <<now, redis, cache, used, deadline, finals>>, Sound(next),
         next.op \in Spoken \/ (next.op = "exec" /\ next.kind # "create") =>
           \E x \in Copies(next.id) :
             /\ Files(x) <=> Files(next.lease)
             /\ next.lease.expires <= now + Ttl
             /\ Over(next.lease) => Over(x)
  PROVE  IndInv'
<1>1. call' \in [Calls -> Call] /\ call'[c] = next /\ Marked({c}, {})
  BY MoveMarks DEF IndInv
<1>2. TypeOK'
  BY <1>1 DEF IndInv, TypeOK, redis, Readable, finals
<1>3. now <= now' /\ used <= used'
  BY LeaseAssumption DEF IndInv, TypeOK
<1>4. Leaves /\ slot' = slot /\ hash' = hash /\ cache' = cache
  BY DEF Leaves, redis
<1>5. \A w \in Workers, id \in Ids : cache'[w][id] # NoLease => cache'[w][id] \in Copies(id)
  BY <1>4, CopyOf
<1>6. ASSUME NEW id \in Ids, About(c, id)' PROVE Heir(id, call'[c].lease)
  <2>1. next.id = id /\ next.lease \in Lease
    BY <1>1, <1>6, CallFields DEF About
  <2>2. PICK x \in Copies(id) : /\ Files(x) <=> Files(next.lease)
                                /\ next.lease.expires <= now + Ttl
                                /\ Over(next.lease) => Over(x)
    BY <1>1, <1>6, <2>1 DEF About
  <2>3. Over(x) => slot.id # id
    BY SaidFine
  <2> QED BY <1>1, <1>4, <2>1, <2>2, <2>3 DEF Heir
<1>7. Sound(call[c])'
  BY <1>1, <1>4 DEF Sound, Readable
<1> QED BY <1>1, <1>2, <1>3, <1>4, <1>5, <1>6, <1>7, StepKeeps

-----------------------------------------------------------------------------
(* The steps that only read *)

LEMMA IdleFine == Idle \in Call /\ Idle.op = "idle" /\ Sound(Idle)
BY DEF Idle, Call, Sound

LEMMA BackKeeps ==
  ASSUME IndInv, NEW c \in Calls, call' = [call EXCEPT ![c] = Idle],
         UNCHANGED <<now, redis, cache, used, deadline, finals>>
  PROVE  IndInv'
<1>1. /\ Idle \in Call /\ Sound(Idle) /\ Idle.op \notin Spoken /\ Idle.op # "exec"
  BY IdleFine DEF Spoken
<1> QED BY <1>1, MoveKeeps

\* The call takes over a copy as it is.
LEMMA CarryKeeps ==
  ASSUME IndInv, NEW c \in Calls, NEW id \in Ids, NEW l \in Copies(id),
         NEW next \in Call, call' = [call EXCEPT ![c] = next],
         next.op \in Spoken, next.id = id, next.lease = l, Sound(next),
         UNCHANGED <<now, redis, cache, used, deadline, finals>>
  PROVE  IndInv'
<1>1. l.expires <= now + Ttl
  BY SaidFine
<1> QED BY <1>1, MoveKeeps DEF Spoken

LEMMA ReadsKeep ==
  ASSUME IndInv, NEW c \in Calls,
         \/ \E id \in Ids : RevokeRead(c, id) \/ Get(c, id)
         \/ Reread(c) \/ RevokeLook(c)
  PROVE  IndInv'
<1>1. ASSUME NEW id \in Ids, RevokeRead(c, id) PROVE IndInv'
  <2> DEFINE n == [op |-> "look", id |-> id, lease |-> hash[id].lease]
  <2>1. hash[id].lease \in Copies(id) /\ hash[id].lease \in Lease
    BY <1>1, CopyOf, SaidFine DEF RevokeRead
  <2>2. n \in Call /\ Sound(n) /\ n.op \in Spoken /\ n.id = id /\ n.lease = hash[id].lease
    BY <2>1 DEF Call, Sound, Spoken
  <2> HIDE DEF n
  <2>3. call' = [call EXCEPT ![c] = n] /\ UNCHANGED <<now, redis, cache, used, deadline, finals>>
    BY <1>1 DEF RevokeRead, n
  <2> QED BY <2>1, <2>2, <2>3, CarryKeeps
<1>2. ASSUME NEW id \in Ids, Get(c, id) PROVE IndInv'
  <2>1. CASE cache[Home[c]][id] # NoLease
    <3> DEFINE n == [op |-> "writeback", id |-> id, lease |-> cache[Home[c]][id]]
    <3>1. Home[c] \in Workers
      BY LeaseAssumption
    <3>2. cache[Home[c]][id] \in Copies(id) /\ cache[Home[c]][id] \in Lease
      BY <2>1, <3>1, CopyOf, SaidFine
    <3>3. n \in Call /\ Sound(n) /\ n.op \in Spoken /\ n.id = id /\ n.lease = cache[Home[c]][id]
      BY <3>2 DEF Call, Sound, Spoken
    <3> HIDE DEF n
    <3>4. call' = [call EXCEPT ![c] = n] /\ UNCHANGED <<now, redis, cache, used, deadline, finals>>
      BY <1>2, <2>1 DEF Get, n
    <3> QED BY <3>2, <3>3, <3>4, CarryKeeps
  <2>2. CASE cache[Home[c]][id] = NoLease
    <3> DEFINE n == [op |-> "reread", id |-> id]
    <3>1. n \in Call /\ Sound(n) /\ n.op \notin Spoken /\ n.op # "exec"
      BY DEF Call, Sound, Spoken
    <3> HIDE DEF n
    <3>2. call' = [call EXCEPT ![c] = n] /\ UNCHANGED <<now, redis, cache, used, deadline, finals>>
      BY <1>2, <2>2 DEF Get, n
    <3> QED BY <3>1, <3>2, MoveKeeps
  <2> QED BY <2>1, <2>2
<1>3. CASE Reread(c)
  <2>1. call[c].id \in Ids
    BY <1>3, CallFields DEF Reread, IndInv, TypeOK
  <2> DEFINE i == call[c].id
             n == [op |-> "remember", id |-> i, lease |-> hash[i].lease]
  <2>2. CASE Readable(i)
    <3>1. hash[i].lease \in Copies(i) /\ hash[i].lease \in Lease
      BY <2>1, <2>2, CopyOf, SaidFine
    <3>2. n \in Call /\ Sound(n) /\ n.op \in Spoken /\ n.id = i /\ n.lease = hash[i].lease
      BY <2>1, <3>1 DEF Call, Sound, Spoken
    <3> HIDE DEF n
    <3>3. call' = [call EXCEPT ![c] = n] /\ UNCHANGED <<now, redis, cache, used, deadline, finals>>
      BY <1>3, <2>2 DEF Reread, n
    <3> QED BY <2>1, <3>1, <3>2, <3>3, CarryKeeps
  <2>3. CASE ~Readable(i)
    BY <1>3, <2>3, BackKeeps DEF Reread
  <2> QED BY <2>2, <2>3
<1>4. CASE RevokeLook(c)
  <2> DEFINE k == call[c]
             l == k.lease
             span == IF Files(l) THEN Larger(Floor, l.expires - now + Guard + Grace) ELSE Floor
             n == [op |-> "revoke", id |-> k.id, lease |-> l, mine |-> slot.id = k.id,
                   life |-> span]
  <2>1. k.id \in Ids /\ l \in Lease /\ About(c, k.id)
    BY <1>4, CallFields DEF RevokeLook, IndInv, TypeOK, Spoken, About
  <2>2. l \in Copies(k.id) /\ l.expires <= now + Ttl
    BY <2>1, CopyOf, SaidFine
  <2>3. span \in Time /\ span <= Ttl + Guard + Grace + Floor
    <3>1. l.expires \in Nat /\ now \in Nat /\ now <= Horizon /\ Horizon \in Nat /\ Ttl \in Nat
          /\ Guard \in Nat /\ Grace \in Nat /\ Floor \in Nat
      BY <2>1, LeaseAssumption DEF Lease, Time, IndInv, TypeOK
    <3> QED BY <2>2, <3>1 DEF Larger, Time
  <2> HIDE DEF span
  <2>4. n \in Call
    <3>1. (slot.id = k.id) \in BOOLEAN
      OBVIOUS
    <3> QED BY <2>1, <2>3, <3>1 DEF Call
  <2>5. Sound(n) /\ n.op \in Spoken /\ n.id = k.id /\ n.lease = l
    BY <2>3 DEF Sound, Spoken
  <2>6. call' = [call EXCEPT ![c] = n] /\ UNCHANGED <<now, redis, cache, used, deadline, finals>>
    BY <1>4 DEF RevokeLook, span
  <2> HIDE DEF n
  <2> QED BY <2>1, <2>2, <2>4, <2>5, <2>6, CarryKeeps
<1> QED BY <1>1, <1>2, <1>3, <1>4

LEMMA PlainKeeps ==
  ASSUME IndInv, NEW c \in Calls,
         \/ \E o \in Owners, s \in Scopes : Acquire(c, o, s)
         \/ AcquireAgain(c) \/ Again(c) \/ Cleanup(c) \/ CleanupGet(c)
         \/ Fail(c)
  PROVE  IndInv'
<1>1. ASSUME NEW n \in Call, Sound(n), n.op \notin Spoken, n.op # "exec",
             call' = [call EXCEPT ![c] = n],
             UNCHANGED <<now, redis, cache, used, deadline, finals>>
      PROVE  IndInv'
  BY <1>1, MoveKeeps
<1>2. ASSUME NEW o \in Owners, NEW s \in Scopes, Acquire(c, o, s) PROVE IndInv'
  <2> DEFINE n == [op |-> "acquire", owner |-> o, scope |-> s, at |-> now]
  <2>1. n \in Call /\ Sound(n) /\ n.op \notin Spoken /\ n.op # "exec"
    BY LeaseAssumption DEF Call, Sound, Spoken, IndInv, TypeOK
  <2> HIDE DEF n
  <2>2. call' = [call EXCEPT ![c] = n] /\ UNCHANGED <<now, redis, cache, used, deadline, finals>>
    BY <1>2 DEF Acquire, n
  <2> QED BY <1>1, <2>1, <2>2
<1>3. CASE AcquireAgain(c)
  <2> DEFINE k == call[c]
             n == [op |-> "acquire", owner |-> k.lease.owner, scope |-> k.lease.scope,
                   at |-> k.at]
  <2>1. k \in Call /\ Sound(k) /\ k.op = "exec" /\ k.kind \in {"create", "renew"}
    BY <1>3 DEF AcquireAgain, IndInv, TypeOK, CallsSound
  <2>2. k.lease \in Lease /\ k.at \in 0..Horizon /\ k.at <= now
    BY SMTT(60), <2>1, CallFields DEF Sound
  <2>3. n \in Call /\ Sound(n) /\ n.op \notin Spoken /\ n.op # "exec"
    BY <2>2 DEF Call, Sound, Spoken, Lease
  <2> HIDE DEF n
  <2>4. call' = [call EXCEPT ![c] = n] /\ UNCHANGED <<now, redis, cache, used, deadline, finals>>
    BY <1>3 DEF AcquireAgain, n
  <2> QED BY <1>1, <2>3, <2>4
<1>4. CASE Again(c) \/ Fail(c)
  BY <1>4, BackKeeps DEF Again, Fail
<1>5. CASE Cleanup(c)
  <2> DEFINE n == [op |-> "cleanup", id |-> slot.id]
  <2>1. n \in Call /\ Sound(n) /\ n.op \notin Spoken /\ n.op # "exec"
    <3>1. slot.id \in Ids
      BY <1>5 DEF Cleanup, IndInv, TypeOK
    <3> QED BY <3>1 DEF Call, Sound, Spoken
  <2> HIDE DEF n
  <2>2. call' = [call EXCEPT ![c] = n] /\ UNCHANGED <<now, redis, cache, used, deadline, finals>>
    BY <1>5 DEF Cleanup, n
  <2> QED BY <1>1, <2>1, <2>2
<1>6. CASE CleanupGet(c)
  <2> DEFINE n == [op |-> "sweep"]
  <2>1. n \in Call /\ Sound(n) /\ n.op \notin Spoken /\ n.op # "exec"
    BY DEF Call, Sound, Spoken
  <2>2. call' = [call EXCEPT ![c] = n] \/ call' = [call EXCEPT ![c] = Idle]
    BY <1>6 DEF CleanupGet
  <2>3. UNCHANGED <<now, redis, cache, used, deadline, finals>>
    BY <1>6 DEF CleanupGet
  <2> HIDE DEF n
  <2> QED BY <1>1, <2>1, <2>2, <2>3, BackKeeps
<1> QED BY <1>2, <1>3, <1>4, <1>5, <1>6

\* The transaction that a call prepares from what it has read.
LEMMA PreparedKeeps ==
  ASSUME IndInv, NEW c \in Calls,
         \/ AcquireRead(c)
         \/ \E id \in Ids : \/ TouchRead(c, id) \/ ConfirmRead(c, id)
                            \/ \E s \in Scopes : UpgradeRead(c, id, s)
  PROVE  IndInv'
<1>0. /\ now \in 0..Horizon /\ Horizon \in Nat /\ Ttl \in Nat /\ now + Ttl \in Time
      /\ slot.id \in {0} \cup Ids /\ (slot # NoSlot => slot.id \in Ids)
  BY LeaseAssumption DEF IndInv, TypeOK, NoSlot, Time
<1>1. ASSUME NEW i \in Ids, Readable(i)
      PROVE  /\ hash[i].lease \in Copies(i) /\ hash[i].lease \in Lease
             /\ hash[i].lease.expires <= now + Ttl
  BY <1>1, CopyOf, SaidFine
<1>2. CASE AcquireRead(c)
  <2> DEFINE a == call[c]
             l == hash[slot.id].lease
             watched == IF slot = NoSlot THEN {0} ELSE {0, slot.id}
             new == [owner |-> a.owner, scope |-> a.scope, expires |-> a.at + Ttl,
                     revoked |-> FALSE, fm_stopped |-> FALSE]
             old == [l EXCEPT !.scope = a.scope, !.expires = a.at + Ttl]
             m == [op |-> "exec", kind |-> "create", id |-> 0, watch |-> watched,
                   dirty |-> FALSE, at |-> a.at, lease |-> new]
             n == [op |-> "exec", kind |-> "renew", id |-> slot.id, watch |-> watched,
                   dirty |-> FALSE, at |-> a.at, lease |-> old]
  <2>1. UNCHANGED <<now, redis, cache, used, deadline, finals>>
    BY <1>2 DEF AcquireRead
  <2>2. \/ call' = [call EXCEPT ![c] = Idle]
        \/ call' = [call EXCEPT ![c] = m]
        \/ /\ call' = [call EXCEPT ![c] = n]
           /\ Held(a.at) /\ Renewable(l, a.owner, a.scope, a.at)
    BY <1>2 DEF AcquireRead
  <2>3. /\ a.owner \in Owners /\ a.scope \in Scopes /\ a.at \in 0..Horizon
        /\ a.at <= now
    BY <1>2, CallFields DEF AcquireRead, IndInv, TypeOK, CallsSound, Sound
  <2>4. a.at + Ttl \in Time /\ a.at + Ttl <= now + Ttl
    BY <1>0, <2>3, LeaseAssumption DEF Time
  <2>5. watched \in SUBSET Keys /\ 0 \in watched /\ (slot # NoSlot => slot.id \in watched)
    BY <1>0 DEF Keys
  <2>6. new \in Lease /\ new.expires <= now + Ttl /\ ~new.revoked /\ ~new.fm_stopped
    BY <2>3, <2>4 DEF Lease
  <2> HIDE DEF new, watched
  <2>7. m \in Call /\ Sound(m) /\ m.op = "exec" /\ m.kind = "create" /\ m.op \notin Spoken
    BY <2>3, <2>5, <2>6 DEF Call, Sound, Spoken
  <2> HIDE DEF m
  <2>8. CASE Held(a.at) /\ Renewable(l, a.owner, a.scope, a.at)
             /\ call' = [call EXCEPT ![c] = n]
    <3>1. slot # NoSlot /\ Readable(slot.id) /\ slot.id \in Ids
      BY <1>0, <2>8 DEF Held
    <3>2. l \in Copies(slot.id) /\ l \in Lease
      BY <1>1, <3>1
    <3>3. ~l.revoked /\ ~Files(l) /\ a.scope # "files"
      BY <2>8 DEF Renewable, Active
    <3>4. /\ old \in Lease /\ old.expires <= now + Ttl /\ old.revoked = l.revoked
          /\ old.fm_stopped = l.fm_stopped /\ old.scope = a.scope
      BY <2>3, <2>4, <3>2 DEF Lease
    <3> HIDE DEF l, old
    <3>5. Files(l) <=> Files(old)
      BY <3>3, <3>4 DEF Files
    <3>6. Over(old) => Over(l)
      BY <3>3, <3>4, <3>5 DEF Over
    <3>7. n \in Call
      BY <2>3, <2>5, <3>1, <3>4 DEF Call
    <3>8. Sound(n)
      BY <2>3, <2>5, <3>1, <3>3, <3>4 DEF Sound
    <3>9. n.id = slot.id /\ n.lease = old
      OBVIOUS
    <3> HIDE DEF n
    <3> QED BY <2>1, <2>8, <3>2, <3>4, <3>5, <3>6, <3>7, <3>8, <3>9, MoveKeeps
  <2> QED BY <2>1, <2>2, <2>7, <2>8, BackKeeps, MoveKeeps
<1>3. ASSUME NEW id \in Ids, TouchRead(c, id) PROVE IndInv'
  <2> DEFINE l == hash[id].lease
             e == Extended(l)
             n == [op |-> "exec", kind |-> "touch", id |-> id, watch |-> {0, id},
                   dirty |-> FALSE, lease |-> e]
  <2>1. Readable(id) /\ slot.id = id /\ ~l.revoked
    BY <1>3 DEF TouchRead, Touchable, Active
  <2>2. l \in Copies(id) /\ l \in Lease
    BY <1>1, <2>1
  <2>3. /\ e \in Lease /\ e.expires <= now + Ttl /\ e.revoked = l.revoked
        /\ e.fm_stopped = l.fm_stopped /\ e.scope = l.scope
    BY <1>0, <2>2 DEF Extended, Lease
  <2>4. call' = [call EXCEPT ![c] = n] /\ UNCHANGED <<now, redis, cache, used, deadline, finals>>
    BY <1>3 DEF TouchRead
  <2> HIDE DEF l, e
  <2>5. (Files(l) <=> Files(e)) /\ (Over(e) => Over(l))
    BY <2>3 DEF Files, Over
  <2>6. n \in Call /\ Sound(n) /\ n.id = id /\ n.lease = e
    BY <2>1, <2>3 DEF Call, Sound, Keys
  <2> HIDE DEF n
  <2> QED BY <2>2, <2>3, <2>4, <2>5, <2>6, MoveKeeps
<1>4. ASSUME NEW id \in Ids, ConfirmRead(c, id) PROVE IndInv'
  <2> DEFINE l == hash[id].lease
             n == [op |-> "exec", kind |-> "confirm", id |-> id, watch |-> {0, id},
                   dirty |-> FALSE, lease |-> l]
  <2>1. Readable(id) /\ l \in Copies(id) /\ l \in Lease /\ l.expires <= now + Ttl
    BY <1>1, <1>4 DEF ConfirmRead
  <2>2. call' = [call EXCEPT ![c] = n] /\ UNCHANGED <<now, redis, cache, used, deadline, finals>>
    BY <1>4 DEF ConfirmRead
  <2> HIDE DEF l
  <2>3. n \in Call /\ Sound(n) /\ n.id = id /\ n.lease = l
    BY <2>1 DEF Call, Sound, Keys
  <2> HIDE DEF n
  <2> QED BY <2>1, <2>2, <2>3, MoveKeeps
<1>5. ASSUME NEW id \in Ids, NEW s \in Scopes, UpgradeRead(c, id, s) PROVE IndInv'
  <2> DEFINE l == hash[id].lease
             e == [l EXCEPT !.scope = s]
             n == [op |-> "rewrite", id |-> id, lease |-> e]
  <2>1. Readable(id) /\ ~Files(l) /\ s # "files"
    BY <1>5 DEF UpgradeRead
  <2>2. l \in Copies(id) /\ l \in Lease /\ l.expires <= now + Ttl
    BY <1>1, <2>1
  <2>3. /\ e \in Lease /\ e.expires = l.expires /\ e.revoked = l.revoked
        /\ e.fm_stopped = l.fm_stopped /\ e.scope = s
    BY <2>2 DEF Lease
  <2>4. call' = [call EXCEPT ![c] = n] /\ UNCHANGED <<now, redis, cache, used, deadline, finals>>
    BY <1>5 DEF UpgradeRead
  <2> HIDE DEF l, e
  <2>5. (Files(l) <=> Files(e)) /\ (Over(e) => Over(l))
    BY <2>1, <2>3 DEF Files, Over
  <2>6. n \in Call /\ Sound(n) /\ n.id = id /\ n.lease = e
    BY <2>3 DEF Call, Sound
  <2> HIDE DEF n
  <2> QED BY <2>2, <2>3, <2>4, <2>5, <2>6, MoveKeeps
<1> QED BY <1>2, <1>3, <1>4, <1>5

-----------------------------------------------------------------------------
(* The steps that write *)

\* A call writes the keys K and stops, or remembers the lease l.
LEMMA WriteKeeps ==
  ASSUME IndInv, NEW c \in Calls, NEW next \in Call, NEW K, Goto(c, next, K),
         now' = now, slot' \in {NoSlot} \cup [id: Ids, until: Time], hash' \in [Ids -> Hash],
         cache' = cache, used' = used, deadline' \in [Ids -> Time],
         stopped' \subseteq Ids /\ released' \subseteq Ids,
         Leaves, (slot' = slot) \/ 0 \in K, \A id \in Ids : hash'[id] = hash[id] \/ id \in K,
         \A id \in Ids : Readable(id)' => \/ hash'[id] = hash[id]
                                          \/ Heir(id, hash'[id].lease),
         next.op \in {"idle", "remember"},
         next.op = "remember" => Heir(next.id, next.lease)
  PROVE  IndInv'
<1>1. call' \in [Calls -> Call] /\ call'[c] = next /\ Marked({c}, K)
  BY GotoMarks DEF IndInv
<1>2. TypeOK'
  BY <1>1 DEF IndInv, TypeOK, finals
<1>3. now <= now' /\ used <= used'
  BY LeaseAssumption DEF IndInv, TypeOK
<1>4. \A w \in Workers, id \in Ids : cache'[w][id] # NoLease => cache'[w][id] \in Copies(id)
  BY CopyOf
<1>5. ASSUME NEW id \in Ids, About(c, id)' PROVE Heir(id, call'[c].lease)
  BY <1>1, <1>5 DEF About, Spoken
<1>6. Sound(call[c])'
  BY <1>1 DEF Sound
<1> QED BY <1>1, <1>2, <1>3, <1>4, <1>5, <1>6, StepKeeps

LEMMA RemembersFine ==
  ASSUME NEW id \in Ids, NEW l \in Lease
  PROVE  [op |-> "remember", id |-> id, lease |-> l] \in Call
BY DEF Call

\* A copy is said again by a step that lets no lease return to the slot.
LEMMA CopyIsHeir ==
  ASSUME IndInv, NEW id \in Ids, NEW x \in Copies(id), now' = now, Leaves
  PROVE  Heir(id, x)
BY SaidFine DEF Heir, Leaves

LEMMA StoreKeeps ==
  ASSUME IndInv, NEW c \in Calls, Touch(c) \/ Renew(c)
  PROVE  IndInv'
<1> DEFINE k == call[c]
           l == k.lease
           i == k.id
           n == [op |-> "remember", id |-> i, lease |-> l]
<1>1. /\ k \in Call /\ k.op = "exec" /\ k.kind \in {"touch", "renew"} /\ ~k.dirty
      /\ Store(c, i) /\ used' = used
  BY DEF Touch, Renew, Committing, IndInv, TypeOK
<1>2. i \in Ids /\ l \in Lease
  BY <1>1, CallFields
<1>3. slot.id = i
  BY <1>1 DEF IndInv, CallsSound, Sound
<1>4. l \in Copies(i)
  BY <1>1, <1>2, CopyOf DEF About
<1>5. n \in Call /\ n.op = "remember" /\ n.id = i /\ n.lease = l
  BY <1>2, RemembersFine
<1>6. /\ now \in 0..Horizon /\ Horizon \in Nat /\ Ttl \in Nat /\ Guard \in Nat /\ Grace \in Nat
      /\ Floor \in Nat
  BY LeaseAssumption DEF IndInv, TypeOK
<1>7. now + Ttl + Drain(l) \in Time /\ now + Ttl + Grace \in Time
  BY <1>6 DEF Drain, Time
<1>8. /\ slot' = [id |-> i, until |-> now + Ttl + Drain(l)]
      /\ hash' = [hash EXCEPT ![i] = [lease |-> l, until |-> now + Ttl + Grace]]
      /\ deadline' = IF Files(l) THEN [deadline EXCEPT ![i] = l.expires] ELSE deadline
      /\ Goto(c, n, {0, i}) /\ UNCHANGED <<now, cache, finals>>
  BY <1>1 DEF Store
<1> HIDE DEF n, l, i, k
<1>9. /\ slot' \in [id: Ids, until: Time] /\ slot'.id = i
      /\ [lease |-> l, until |-> now + Ttl + Grace] \in Hash
  BY <1>2, <1>7, <1>8 DEF Hash
<1>10. hash' \in [Ids -> Hash] /\ hash'[i].lease = l
       /\ \A j \in Ids \ {i} : hash'[j] = hash[j]
  BY <1>2, <1>8, <1>9 DEF IndInv, TypeOK
<1>11. deadline' \in [Ids -> Time] /\ stopped' \subseteq Ids /\ released' \subseteq Ids
  BY <1>2, <1>8 DEF IndInv, TypeOK, Lease, finals
<1>12. Leaves
  BY <1>3, <1>9 DEF Leaves
<1>13. Heir(i, l)
  BY <1>2, <1>4, <1>8, <1>12, CopyIsHeir
<1> QED BY <1>1, <1>5, <1>8, <1>9, <1>10, <1>11, <1>12, <1>13, WriteKeeps

\* Nobody has said anything of the lease that is created.
LEMMA CreateKeeps ==
  ASSUME IndInv, NEW c \in Calls, Create(c)
  PROVE  IndInv'
<1> DEFINE k == call[c]
           l == k.lease
           i == used + 1
           n == [op |-> "remember", id |-> i, lease |-> l]
<1>1. /\ k \in Call /\ Sound(k) /\ k.op = "exec" /\ k.kind = "create" /\ Store(c, i)
      /\ used' = i /\ used < MaxLeases /\ used \in Nat /\ i \in Ids
  BY SMTT(60), LeaseAssumption DEF Create, Committing, IndInv, TypeOK, CallsSound, Ids
<1>2. /\ l \in Lease /\ ~l.revoked /\ ~l.fm_stopped /\ l.expires <= now + Ttl
  BY <1>1, CallFields DEF Sound
<1>3. n \in Call /\ n.op = "remember" /\ n.id = i /\ n.lease = l
  BY <1>1, <1>2, RemembersFine
<1>4. /\ now \in 0..Horizon /\ Horizon \in Nat /\ Ttl \in Nat /\ Guard \in Nat /\ Grace \in Nat
      /\ Floor \in Nat /\ MaxLeases \in Nat
  BY LeaseAssumption DEF IndInv, TypeOK
<1>5. now + Ttl + Drain(l) \in Time /\ now + Ttl + Grace \in Time
  BY <1>4 DEF Drain, Time
<1>6. /\ slot' = [id |-> i, until |-> now + Ttl + Drain(l)]
      /\ hash' = [hash EXCEPT ![i] = [lease |-> l, until |-> now + Ttl + Grace]]
      /\ deadline' = IF Files(l) THEN [deadline EXCEPT ![i] = l.expires] ELSE deadline
      /\ Goto(c, n, {0, i}) /\ UNCHANGED <<now, cache, finals>>
  BY <1>1 DEF Store
<1>7. i \notin {used} /\ ~(i <= used) /\ i \in Nat /\ used < i
  BY <1>1
<1>8. used' \in 0..MaxLeases
  BY <1>1, <1>4
<1> HIDE DEF n, l, i, k
<1>9. /\ slot' \in [id: Ids, until: Time] /\ slot'.id = i
      /\ [lease |-> l, until |-> now + Ttl + Grace] \in Hash
  BY <1>1, <1>2, <1>5, <1>6 DEF Hash
<1>10. hash' \in [Ids -> Hash] /\ hash'[i].lease = l
       /\ \A j \in Ids \ {i} : hash'[j] = hash[j]
  BY <1>1, <1>6, <1>9 DEF IndInv, TypeOK
<1>11. deadline' \in [Ids -> Time] /\ stopped' \subseteq Ids /\ released' \subseteq Ids
  BY <1>1, <1>2, <1>6 DEF IndInv, TypeOK, Lease, finals
<1>12. call' \in [Calls -> Call] /\ call'[c] = n /\ Marked({c}, {0, i})
  BY <1>3, <1>6, GotoMarks DEF IndInv
<1>13. TypeOK'
  BY <1>6, <1>8, <1>9, <1>10, <1>11, <1>12 DEF IndInv, TypeOK, finals
<1>14. Leaves
  BY <1>1, <1>7, <1>9 DEF Leaves
<1>15. Copies(i) = {}
  BY <1>1, <1>7, SaidFine
<1>16. ASSUME NEW id \in Ids, NEW y \in Copies(id)'
       PROVE  (id = i /\ y = l) \/ (id # i /\ y \in Copies(id))
  <2>1. CASE Readable(id)' /\ y = hash'[id].lease
    BY <1>10, <2>1, CopyOf DEF Readable
  <2>2. ASSUME NEW w \in Workers, cache'[w][id] # NoLease, y = cache'[w][id]
        PROVE  id # i /\ y \in Copies(id)
    BY <1>6, <1>15, <2>2, CopyOf
  <2>3. ASSUME NEW d \in Calls, About(d, id)', y = call'[d].lease
        PROVE  (id = i /\ y = l) \/ (id # i /\ y \in Copies(id))
    <3>1. CASE d = c
      <4>1. id = i /\ y = l
        BY <1>3, <1>12, <2>3, <3>1 DEF About
      <4> QED BY <4>1
    <3>2. CASE d # c
      <4>1. y \in Copies(id)
        BY <1>12, <2>3, <3>2, OthersSay
      <4> QED BY <1>15, <4>1
    <3> QED BY <3>1, <3>2
  <2> QED BY <1>16, <2>1, <2>2, <2>3 DEF Copies
<1>17. now' \in Nat /\ now \in Nat /\ now <= now' /\ used' \in Nat /\ used <= used'
  BY <1>1, <1>4, <1>6, <1>7
<1>18. CopiesFine'
  <2>1. ASSUME NEW id \in Ids, id # i PROVE \A y \in Copies(id)' : Fine(id, y)'
    BY <1>1, <1>14, <1>16, <1>17, <2>1, HeirsFine
  <2>2. ASSUME NEW id \in Ids, id = i, NEW y \in Copies(id)' PROVE Fine(id, y)'
    <3>1. y = l /\ \A x \in Copies(id)' : x = l
      BY <1>16, <2>2
    <3>2. ~Over(y)
      BY <1>2, <3>1 DEF Over
    <3>3. id <= used'
      BY <1>1, <1>7, <2>2
    <3>4. y \in Lease /\ y.expires <= now' + Ttl
      BY <1>2, <1>6, <3>1
    <3>5. \A x \in Copies(id)' : Files(x) <=> Files(y)
      BY <3>1
    <3> QED BY <3>2, <3>3, <3>4, <3>5 DEF Fine
  <2>3. ASSUME NEW id \in Ids, NEW y \in Copies(id)' PROVE Fine(id, y)'
    BY <2>1, <2>2, <2>3
  <2> QED BY <2>3 DEF CopiesFine, Ids
<1>19. Sound(call[c])'
  BY <1>3, <1>12 DEF Sound
<1>20. CallsSound'
  <2>1. \A id \in Ids : hash'[id] = hash[id] \/ id \in {0, i}
    BY <1>10
  <2>2. \A d \in {c} : Sound(call[d])'
    BY <1>19
  <2> QED BY <1>12, <1>14, <1>17, <2>1, <2>2, OthersSound
<1> QED BY <1>13, <1>18, <1>20 DEF IndInv

LEMMA RemembersKeep ==
  ASSUME IndInv, NEW c \in Calls, Remember(c)
  PROVE  IndInv'
<1> DEFINE k == call[c]
           w == Home[c]
<1>1. k \in Call /\ k.op = "remember" /\ k.id \in Ids /\ k.lease \in Lease /\ w \in Workers
  BY CallFields, LeaseAssumption DEF Remember, IndInv, TypeOK, Spoken
<1>2. k.lease \in Copies(k.id)
  BY <1>1, CopyOf DEF About, Spoken
<1>3. /\ cache' = [cache EXCEPT ![w][k.id] = Copy(k.lease)]
      /\ call' = [call EXCEPT ![c] = Idle]
      /\ UNCHANGED <<now, redis, used, deadline, finals>>
  BY DEF Remember
<1>4. Copy(k.lease) = NoLease \/ Copy(k.lease) = k.lease
  BY DEF Copy
<1> HIDE DEF k, w
<1>5. cache' \in [Workers -> [Ids -> Lease \cup {NoLease}]]
  BY <1>1, <1>3, <1>4 DEF IndInv, TypeOK
<1>6. ASSUME NEW v \in Workers, NEW id \in Ids, cache'[v][id] # NoLease
      PROVE  cache'[v][id] \in Copies(id)
  <2>1. cache'[v][id] = cache[v][id] \/ (id = k.id /\ cache'[v][id] = Copy(k.lease))
    BY <1>1, <1>3 DEF IndInv, TypeOK
  <2> QED BY <1>2, <1>4, <1>6, <2>1, CopyOf
<1>7. call' \in [Calls -> Call] /\ call'[c] = Idle /\ Marked({c}, {})
  BY <1>3, IdleFine, MoveMarks DEF IndInv
<1>8. TypeOK'
  BY <1>3, <1>5, <1>7 DEF IndInv, TypeOK, redis, finals
<1>9. now <= now' /\ used <= used' /\ Leaves /\ slot' = slot /\ hash' = hash
  BY <1>3, LeaseAssumption DEF IndInv, TypeOK, Leaves, redis
<1>10. Sound(call[c])' /\ \A id \in Ids : ~About(c, id)'
  BY <1>7 DEF Sound, About, Idle, Spoken
<1> QED BY <1>6, <1>7, <1>8, <1>9, <1>10, StepKeeps

LEMMA ConfirmKeeps ==
  ASSUME IndInv, NEW c \in Calls, Confirm(c)
  PROVE  IndInv'
<1> DEFINE k == call[c]
           i == k.id
           K == {i} \cup IF FreedByConfirm(i) THEN {0} ELSE {}
<1>1. k \in Call /\ k.op = "exec" /\ k.kind = "confirm" /\ ~k.dirty /\ Sound(k)
  BY DEF Confirm, Committing, IndInv, TypeOK, CallsSound
<1>2. i \in Ids /\ Readable(i)
  BY <1>1, CallFields DEF Sound
<1>3. hash[i].lease \in Copies(i) /\ hash[i].lease \in Lease /\ hash[i].lease.expires <= now + Ttl
  BY <1>2, CopyOf, SaidFine
<1>4. /\ hash' = [hash EXCEPT ![i].lease.fm_stopped = TRUE]
      /\ slot' = IF FreedByConfirm(i) THEN NoSlot ELSE slot
      /\ stopped' = stopped \cup {i}
      /\ Goto(c, Idle, K) /\ UNCHANGED <<now, cache, used, deadline, released>>
  BY DEF Confirm
<1>5. (slot' = slot \/ 0 \in K) /\ i \in K /\ slot'.id # i
  BY <1>2, <1>4, LeaseAssumption DEF FreedByConfirm, NoSlot, Ids
<1>6. Leaves
  BY <1>4 DEF Leaves, NoSlot, Ids
<1> HIDE DEF k, i, K
<1> DEFINE y == [hash[i].lease EXCEPT !.fm_stopped = TRUE]
           h == [hash[i] EXCEPT !.lease = y]
<1>7. /\ y \in Lease /\ y.expires = hash[i].lease.expires /\ y.scope = hash[i].lease.scope
      /\ hash[i] \in [lease: Lease \cup {NoLease}, until: Time]
  BY <1>2, <1>3 DEF Lease, IndInv, TypeOK, Hash, Readable
<1>8. hash' = [hash EXCEPT ![i] = h]
  BY <1>2, <1>4 DEF IndInv, TypeOK
<1>9. Files(y) <=> Files(hash[i].lease)
  BY <1>7 DEF Files
<1> HIDE DEF y
<1>10. h \in Hash /\ h.lease = y
  BY <1>7 DEF Hash
<1> HIDE DEF h
<1>11. hash' \in [Ids -> Hash] /\ hash'[i].lease = y /\ \A j \in Ids \ {i} : hash'[j] = hash[j]
  BY <1>2, <1>8, <1>10 DEF IndInv, TypeOK
<1>12. Heir(i, y)
  BY <1>3, <1>4, <1>5, <1>7, <1>9 DEF Heir
<1>13. slot' \in {NoSlot} \cup [id: Ids, until: Time] /\ deadline' \in [Ids -> Time]
       /\ stopped' \subseteq Ids /\ released' \subseteq Ids
  BY <1>2, <1>4 DEF IndInv, TypeOK, finals
<1>14. /\ \A id \in Ids : hash'[id] = hash[id] \/ id \in K
       /\ \A id \in Ids : Readable(id)' => (hash'[id] = hash[id] \/ Heir(id, hash'[id].lease))
  BY <1>5, <1>11, <1>12
<1> QED BY <1>4, <1>5, <1>6, <1>11, <1>13, <1>14, IdleFine, WriteKeeps

\* The fields of a copy are written over those of its hash.
LEMMA PutForm ==
  ASSUME TypeOK, NEW i \in Ids, NEW l \in Lease
  PROVE  /\ Put(i, l) \in [Ids -> Hash] /\ Put(i, l)[i].lease = l
         /\ \A j \in Ids \ {i} : Put(i, l)[j] = hash[j]
<1> DEFINE t == IF hash[i] = NoHash THEN Forever ELSE hash[i].until
<1>1. t \in Time
  BY LeaseAssumption DEF TypeOK, Hash, Time, Forever
<1> HIDE DEF t
<1>2. [lease |-> l, until |-> t] \in Hash
  BY <1>1 DEF Hash
<1> QED BY <1>2 DEF Put, TypeOK, t

LEMMA PutKeeps ==
  ASSUME IndInv, NEW c \in Calls, Upgrade(c) \/ WriteBack(c)
  PROVE  IndInv'
<1> DEFINE k == call[c]
           l == k.lease
           i == k.id
           n == [k EXCEPT !.op = "remember"]
<1>1. k \in Call /\ k.op \in {"rewrite", "writeback"}
  BY DEF Upgrade, WriteBack, IndInv, TypeOK
<1>2. k \in [op: {"rewrite", "remember", "look", "writeback"}, id: Ids, lease: Lease]
  BY <1>1, CallForm
<1>3. i \in Ids /\ l \in Lease /\ l \in Copies(i)
  BY <1>1, <1>2, CopyOf DEF About, Spoken
<1>4. n \in Call /\ n.op = "remember" /\ n.id = i /\ n.lease = l
  BY <1>2 DEF Call
<1>5. /\ hash' = Put(i, l) /\ UNCHANGED <<now, slot, cache, used, deadline, finals>>
      /\ Goto(c, n, {i}) \/ Goto(c, Idle, {i})
  BY DEF Upgrade, WriteBack
<1> HIDE DEF n, l, i, k
<1>6. hash' \in [Ids -> Hash] /\ hash'[i].lease = l /\ \A j \in Ids \ {i} : hash'[j] = hash[j]
  BY <1>3, <1>5, PutForm DEF IndInv
<1>7. /\ slot' \in {NoSlot} \cup [id: Ids, until: Time] /\ deadline' \in [Ids -> Time]
      /\ stopped' \subseteq Ids /\ released' \subseteq Ids /\ Leaves
  BY <1>5 DEF IndInv, TypeOK, Leaves, finals
<1>8. Heir(i, l)
  BY <1>3, <1>5, <1>7, CopyIsHeir
<1>9. CASE Goto(c, n, {i})
  BY <1>4, <1>5, <1>6, <1>7, <1>8, <1>9, WriteKeeps
<1>10. CASE Goto(c, Idle, {i})
  BY <1>5, <1>6, <1>7, <1>8, <1>10, IdleFine, WriteKeeps
<1> QED BY <1>5, <1>9, <1>10

\* The slot is freed, or the lease of the call is a files lease, or the slot names
\* another lease already: in each case what is left behind keeps nothing.
LEMMA RevokeKeeps ==
  ASSUME IndInv, NEW c \in Calls, Revoke(c)
  PROVE  IndInv'
<1> DEFINE k == call[c]
           i == k.id
           l == k.lease
           r == [l EXCEPT !.revoked = TRUE]
           n == [op |-> "remember", id |-> i, lease |-> r]
           y == [hash[i].lease EXCEPT !.revoked = TRUE]
           h == [lease |-> IF Readable(i) THEN y ELSE NoLease, until |-> now + k.life]
           K == {i} \cup IF Frees(c) THEN {0} ELSE {}
<1>1. k \in Call /\ k.op = "revoke" /\ Sound(k)
  BY DEF Revoke, IndInv, TypeOK, CallsSound
<1>2. /\ i \in Ids /\ l \in Lease /\ k.mine \in BOOLEAN /\ k.life \in Time
      /\ k.life <= Ttl + Guard + Grace + Floor
      /\ ~k.mine /\ ~Files(l) => slot.id # i
  BY <1>1, CallFields DEF Sound, Spoken
<1>3. /\ l \in Copies(i) /\ l.expires <= now + Ttl /\ i <= used
      /\ l.fm_stopped => slot.id # i
  <2>1. About(c, i)
    BY <1>1 DEF About, Spoken
  <2> QED BY <1>2, <2>1, CopyOf, SaidFine DEF Over
<1>4. /\ hash' = [hash EXCEPT ![i] = h]
      /\ slot' = IF Frees(c) THEN NoSlot ELSE slot
      /\ released' = IF Files(l) THEN released ELSE released \cup {i}
      /\ Goto(c, n, K) /\ UNCHANGED <<now, cache, used, deadline, stopped>>
  BY DEF Revoke
<1>5. Frees(c) <=> (k.mine /\ ~Files(l))
  BY DEF Frees
<1>6. now + k.life \in Time
  BY <1>2, LeaseAssumption DEF Time, IndInv, TypeOK
<1>7. Leaves /\ (slot' = slot \/ 0 \in K) /\ i \in K
  BY <1>4 DEF Leaves, NoSlot, Ids
<1> HIDE DEF k, i, l, K
<1>8. r \in Lease /\ r.expires = l.expires /\ r.scope = l.scope /\ r.fm_stopped = l.fm_stopped
  BY <1>2 DEF Lease
<1>9. n \in Call /\ n.op = "remember" /\ n.id = i /\ n.lease = r
  BY <1>2, <1>8, RemembersFine
<1> HIDE DEF n, r
<1>10. ~Files(l) => slot'.id # i
  BY <1>2, <1>4, <1>5 DEF NoSlot, Ids
<1>11. Heir(i, r)
  <2>1. (Files(r) <=> Files(l)) /\ (Over(r) => l.fm_stopped \/ ~Files(l))
    BY <1>8 DEF Files, Over
  <2>2. l.fm_stopped => slot'.id # i
    BY <1>2, <1>3, <1>7 DEF Leaves
  <2> QED BY <1>3, <1>4, <1>8, <1>10, <2>1, <2>2 DEF Heir
<1>12. ASSUME Readable(i) PROVE y \in Lease /\ Heir(i, y)
  <2>1. hash[i].lease \in Copies(i)
    BY <1>2, <1>12, CopyOf
  <2>2. /\ hash[i].lease \in Lease /\ hash[i].lease.expires <= now + Ttl
        /\ hash[i].lease.fm_stopped => slot.id # i
        /\ Files(l) <=> Files(hash[i].lease)
    BY <1>2, <1>3, <2>1, SaidFine DEF Over
  <2>3. /\ y \in Lease /\ y.expires = hash[i].lease.expires
        /\ y.scope = hash[i].lease.scope /\ y.fm_stopped = hash[i].lease.fm_stopped
    BY <2>2 DEF Lease
  <2> HIDE DEF y
  <2>4. /\ Files(y) <=> Files(hash[i].lease)
        /\ Over(y) => hash[i].lease.fm_stopped \/ ~Files(l)
    BY <2>2, <2>3 DEF Files, Over
  <2>5. hash[i].lease.fm_stopped => slot'.id # i
    BY <1>2, <1>3, <1>7, <2>2 DEF Leaves
  <2> QED BY <1>4, <1>10, <2>1, <2>2, <2>3, <2>4, <2>5 DEF Heir
<1> HIDE DEF y
<1>13. h \in Hash /\ (h.lease # NoLease => h.lease = y /\ Readable(i))
  BY <1>6, <1>12 DEF Hash
<1> HIDE DEF h
<1>14. hash' \in [Ids -> Hash] /\ hash'[i] = h /\ \A j \in Ids \ {i} : hash'[j] = hash[j]
  BY <1>2, <1>4, <1>13 DEF IndInv, TypeOK
<1>15. \A id \in Ids : Readable(id)' => (hash'[id] = hash[id] \/ Heir(id, hash'[id].lease))
  BY <1>12, <1>13, <1>14 DEF Readable
<1>16. /\ slot' \in {NoSlot} \cup [id: Ids, until: Time] /\ deadline' \in [Ids -> Time]
       /\ stopped' \subseteq Ids /\ released' \subseteq Ids
  BY <1>2, <1>4 DEF IndInv, TypeOK, finals
<1>17. \A id \in Ids : hash'[id] = hash[id] \/ id \in K
  BY <1>7, <1>14
<1> QED BY <1>4, <1>7, <1>9, <1>11, <1>14, <1>15, <1>16, <1>17, WriteKeeps

LEMMA SweepKeeps ==
  ASSUME IndInv, NEW c \in Calls, Sweep(c)
  PROVE  IndInv'
<1> DEFINE K == IF slot = NoSlot THEN {} ELSE {0}
<1>1. /\ slot' = NoSlot /\ Goto(c, Idle, K)
      /\ UNCHANGED <<now, hash, cache, used, deadline, finals>>
  BY DEF Sweep
<1>2. Leaves /\ (slot' = slot \/ 0 \in K)
  BY <1>1 DEF Leaves, NoSlot, Ids
<1> HIDE DEF K
<1>3. hash' \in [Ids -> Hash] /\ deadline' \in [Ids -> Time]
      /\ stopped' \subseteq Ids /\ released' \subseteq Ids
  BY <1>1 DEF IndInv, TypeOK, finals
<1> QED BY <1>1, <1>2, <1>3, IdleFine, WriteKeeps

-----------------------------------------------------------------------------
(* Keys expire, workers restart *)

LEMMA TickKeeps ==
  ASSUME IndInv, Tick
  PROVE  IndInv'
<1> DEFINE gone == {id \in Ids : hash[id] # NoHash /\ hash[id].until <= now'}
           free == slot # NoSlot /\ slot.until <= now'
           K == gone \cup IF free THEN {0} ELSE {}
<1>1. /\ now < Horizon /\ now' = now + 1
      /\ hash' = [id \in Ids |-> IF id \in gone THEN NoHash ELSE hash[id]]
      /\ slot' = IF free THEN NoSlot ELSE slot
      /\ call' = Dirty(call, K)
      /\ UNCHANGED <<cache, used, deadline, finals>>
  BY DEF Tick
<1>2. /\ now' \in 0..Horizon /\ now <= now' /\ used <= used'
  BY <1>1, LeaseAssumption DEF IndInv, TypeOK
<1>3. (slot' = slot \/ 0 \in K) /\ Leaves
  BY <1>1 DEF Leaves, NoSlot, Ids
<1>4. \A id \in Ids : hash'[id] = hash[id] \/ (hash'[id] = NoHash /\ id \in K)
  BY <1>1
<1> HIDE DEF K, gone, free
<1>5. \A id \in Ids : Readable(id)' => hash'[id] = hash[id]
  BY <1>4 DEF Readable
<1>6. ASSUME NEW d \in Calls PROVE call'[d] \in Call
  <2>1. call[d] \in Call
    BY DEF IndInv, TypeOK
  <2> QED BY <1>1, <2>1, Spoil DEF Dirty
<1>7. call' \in [Calls -> Call] /\ Marked({}, K)
  BY <1>1, <1>6 DEF Dirty, Marked
<1>8. hash' \in [Ids -> Hash]
  BY <1>1, <1>4 DEF IndInv, TypeOK, Hash
<1>9. TypeOK'
  BY <1>1, <1>2, <1>7, <1>8 DEF IndInv, TypeOK, finals
<1>10. \A w \in Workers, id \in Ids : cache'[w][id] # NoLease => cache'[w][id] \in Copies(id)
  BY <1>1, CopyOf
<1> QED BY <1>2, <1>3, <1>4, <1>5, <1>7, <1>9, <1>10, StepKeeps

LEMMA RestartKeeps ==
  ASSUME IndInv, NEW w \in Workers, Restart(w)
  PROVE  IndInv'
<1> DEFINE S == {c \in Calls : Home[c] = w}
<1>1. /\ cache' = [cache EXCEPT ![w] = [id \in Ids |-> NoLease]]
      /\ call' = [c \in Calls |-> IF Home[c] = w THEN Idle ELSE call[c]]
      /\ UNCHANGED <<now, redis, used, deadline, finals>>
  BY DEF Restart
<1>2. call' \in [Calls -> Call] /\ Marked(S, {}) /\ \A c \in S : call'[c] = Idle
  BY <1>1, IdleFine DEF IndInv, TypeOK, Marked
<1>3. cache' \in [Workers -> [Ids -> Lease \cup {NoLease}]]
  BY <1>1 DEF IndInv, TypeOK
<1>4. TypeOK'
  BY <1>1, <1>2, <1>3 DEF IndInv, TypeOK, redis, finals
<1>5. ASSUME NEW v \in Workers, NEW id \in Ids, cache'[v][id] # NoLease
      PROVE  cache'[v][id] \in Copies(id)
  <2>1. cache'[v][id] = cache[v][id]
    BY <1>1, <1>5 DEF IndInv, TypeOK
  <2> QED BY <1>5, <2>1, CopyOf
<1>6. now <= now' /\ used <= used' /\ Leaves /\ slot' = slot /\ hash' = hash
  BY <1>1, LeaseAssumption DEF IndInv, TypeOK, Leaves, redis
<1>7. \A c \in S : Sound(call[c])' /\ \A id \in Ids : ~About(c, id)'
  BY <1>2 DEF Sound, About, Idle, Spoken
<1> HIDE DEF S
<1>8. S \in SUBSET Calls
  BY DEF S
<1> QED BY <1>2, <1>4, <1>5, <1>6, <1>7, <1>8, StepKeeps

-----------------------------------------------------------------------------
(* The theorems *)

LEMMA InitEstablishes == Init => IndInv
<1> SUFFICES ASSUME Init PROVE IndInv
  OBVIOUS
<1>1. TypeOK
  BY LeaseAssumption, IdleFine DEF Init, TypeOK, Hash, Time
<1>2. ASSUME NEW id \in Ids PROVE Copies(id) = {}
  BY <1>2, LeaseAssumption DEF Init, Copies, Readable, About, Idle, Spoken
<1>3. CopiesFine
  BY <1>2 DEF CopiesFine
<1>4. CallsSound
  BY IdleFine DEF Init, CallsSound
<1> QED BY <1>1, <1>3, <1>4 DEF IndInv

LEMMA NextPreserves == IndInv /\ [Next]_vars => IndInv'
<1> SUFFICES ASSUME IndInv, [Next]_vars PROVE IndInv'
  OBVIOUS
<1>1. ASSUME NEW c \in Calls, Step(c) PROVE IndInv'
  <2>1. CASE \/ \E o \in Owners, s \in Scopes : Acquire(c, o, s)
             \/ AcquireAgain(c) \/ Again(c) \/ Cleanup(c) \/ CleanupGet(c) \/ Fail(c)
    BY <2>1, PlainKeeps
  <2>2. CASE \/ AcquireRead(c)
             \/ \E id \in Ids : \/ TouchRead(c, id) \/ ConfirmRead(c, id)
                                \/ \E s \in Scopes : UpgradeRead(c, id, s)
    BY <2>2, PreparedKeeps
  <2>3. CASE \/ \E id \in Ids : RevokeRead(c, id) \/ Get(c, id)
             \/ Reread(c) \/ RevokeLook(c)
    BY <2>3, ReadsKeep
  <2>4. CASE Create(c) \/ Touch(c) \/ Renew(c)
    BY <2>4, CreateKeeps, StoreKeeps
  <2>5. CASE Remember(c) \/ Confirm(c) \/ Revoke(c) \/ Sweep(c)
    BY <2>5, RemembersKeep, ConfirmKeeps, RevokeKeeps, SweepKeeps
  <2>6. CASE Upgrade(c) \/ WriteBack(c)
    BY <2>6, PutKeeps
  <2> QED BY <1>1, <2>1, <2>2, <2>3, <2>4, <2>5, <2>6 DEF Step
<1>2. CASE UNCHANGED vars
  <2>1. /\ Marked({}, {}) /\ Leaves /\ now <= now' /\ used <= used'
    BY <1>2, LeaseAssumption DEF vars, redis, IndInv, TypeOK, Marked, Leaves
  <2>2. TypeOK'
    BY <1>2 DEF vars, redis, IndInv, TypeOK, finals
  <2>3. \A w \in Workers, id \in Ids : cache'[w][id] # NoLease => cache'[w][id] \in Copies(id)
    BY <1>2, CopyOf DEF vars
  <2>4. slot' = slot /\ hash' = hash
    BY <1>2 DEF vars, redis
  <2> QED BY <2>1, <2>2, <2>3, <2>4, StepKeeps
<1> QED BY <1>1, <1>2, TickKeeps, RestartKeeps DEF Next

THEOREM Invariant == Spec => []IndInv
BY InitEstablishes, NextPreserves, PTL DEF Spec

\* The slot, the hashes, the copies of the workers and the calls keep their types
\* (leases.py, RedisLeaseRegistry).
THEOREM TypeCorrect == Spec => []TypeOK
<1>1. IndInv => TypeOK
  BY DEF IndInv
<1> QED BY <1>1, Invariant, PTL

\* The leases that were ended have been given out, and do not hold the slot.
Final == \A id \in released \cup stopped : id <= used /\ slot.id # id

\* Once a lease has lost the slot, no step gives it the slot again.
LEMMA SlotLeaves ==
  ASSUME IndInv, [Next]_vars
  PROVE  Leaves /\ used <= used'
<1>0. /\ used \in Nat /\ used <= used
      /\ \A id \in Ids : id # 0 /\ id \in Nat
  BY LeaseAssumption DEF IndInv, TypeOK, Ids
<1>1. ASSUME NEW c \in Calls, Create(c) PROVE Leaves /\ used <= used'
  <2>1. slot'.id = used + 1 /\ used' = used + 1
    BY <1>1 DEF Create, Store
  <2> QED BY <1>0, <2>1 DEF Leaves
<1>2. ASSUME NEW c \in Calls, Touch(c) \/ Renew(c) PROVE Leaves /\ used <= used'
  <2>1. slot'.id = call[c].id /\ used' = used
    BY <1>2 DEF Touch, Renew, Store
  <2>2. slot.id = call[c].id
    BY <1>2 DEF Touch, Renew, Committing, IndInv, CallsSound, Sound
  <2> QED BY <1>0, <2>1, <2>2 DEF Leaves
<1>3. CASE (slot' = NoSlot \/ slot' = slot) /\ used' = used
  BY <1>0, <1>3 DEF Leaves, NoSlot
<1>4. ASSUME NEW c \in Calls, Step(c) PROVE Leaves /\ used <= used'
  <2>1. \/ Create(c) \/ Touch(c) \/ Renew(c)
        \/ (slot' = NoSlot \/ slot' = slot) /\ used' = used
    BY <1>4 DEF Step, Acquire, AcquireRead, AcquireAgain, Remember, TouchRead, ConfirmRead,
       RevokeRead, Get, UpgradeRead, Confirm, Again, Upgrade, RevokeLook, Revoke, WriteBack,
       Reread, Cleanup, CleanupGet, Sweep, Fail, redis
  <2> QED BY <1>1, <1>2, <1>3, <2>1
<1>5. CASE Tick \/ (\E w \in Workers : Restart(w)) \/ UNCHANGED vars
  <2>1. (slot' = NoSlot \/ slot' = slot) /\ used' = used
    BY <1>5 DEF Tick, Restart, vars, redis
  <2> QED BY <1>3, <2>1
<1> QED BY <1>4, <1>5 DEF Next

\* What a call ends does not hold the slot afterwards: the transaction of confirm
\* knows what the slot is, and a revocation that did not find its lease in the slot
\* will not find it there later.
LEMMA EndsFree ==
  ASSUME IndInv, [Next]_vars, NEW id \in (released \cup stopped)' \ (released \cup stopped)
  PROVE  id \in Ids /\ id <= used /\ slot'.id # id
<1>0. \A i \in Ids : i # 0
  BY LeaseAssumption DEF Ids
<1>1. PICK c \in Calls : Confirm(c) \/ Revoke(c)
  <2>1. ASSUME NEW c \in Calls, Step(c) PROVE Confirm(c) \/ Revoke(c) \/ UNCHANGED finals
    <3>1. CASE Create(c) \/ Renew(c) \/ Touch(c)
      BY <3>1 DEF Create, Renew, Touch, Store
    <3>2. CASE ~(Create(c) \/ Renew(c) \/ Touch(c) \/ Confirm(c) \/ Revoke(c))
      BY <2>1, <3>2 DEF Step, Acquire, AcquireRead, AcquireAgain, Remember, TouchRead,
         ConfirmRead, RevokeRead, Get, UpgradeRead, Again, Upgrade, RevokeLook, WriteBack,
         Reread, Cleanup, CleanupGet, Sweep, Fail
    <3> QED BY <3>1, <3>2
  <2>2. CASE Tick \/ (\E w \in Workers : Restart(w)) \/ UNCHANGED vars
    BY <2>2 DEF Tick, Restart, vars, finals
  <2> QED BY <2>1, <2>2 DEF Next, finals
<1>2. CASE Confirm(c)
  <2>1. id = call[c].id
    BY <1>2 DEF Confirm
  <2>2. call[c].op = "exec" /\ call[c].kind = "confirm" /\ ~call[c].dirty
    BY <1>2 DEF Confirm, Committing
  <2>3. id \in Ids /\ Readable(id)
    BY <2>1, <2>2, CallFields DEF IndInv, TypeOK, CallsSound, Sound
  <2>4. id <= used
    BY <2>3, CopyOf, SaidFine
  <2>5. slot'.id # id
    BY <1>0, <1>2, <2>1, <2>3 DEF Confirm, FreedByConfirm, NoSlot
  <2> QED BY <2>3, <2>4, <2>5
<1>3. CASE Revoke(c)
  <2>1. id = call[c].id /\ ~Files(call[c].lease) /\ call[c].op = "revoke"
    BY <1>3 DEF Revoke
  <2>2. id \in Ids /\ call[c].mine \in BOOLEAN /\ (~call[c].mine => slot.id # id)
    BY <2>1, CallFields DEF IndInv, TypeOK, CallsSound, Sound, Spoken
  <2>3. About(c, id)
    BY <2>1 DEF About, Spoken
  <2>4. id <= used
    BY <2>2, <2>3, CopyOf, SaidFine
  <2>5. slot'.id # id
    BY <1>0, <1>3, <2>1, <2>2 DEF Revoke, Frees, NoSlot
  <2> QED BY <2>2, <2>4, <2>5
<1> QED BY <1>1, <1>2, <1>3

\* A lease that revoke or confirm_files_stopped has ended never holds the slot of its
\* device again, whatever renewals, touches, second revocations and copies of other
\* workers are still on their way (leases.py).
THEOREM ReleaseIsFinal == Spec => []ReleasedFreesSlot
<1>1. Init => Final
  BY DEF Init, Final
<1>2. ASSUME IndInv, Final, [Next]_vars PROVE Final'
  <2>1. SUFFICES ASSUME NEW id \in (released \cup stopped)'
                 PROVE  id <= used' /\ slot'.id # id
    BY DEF Final
  <2>2. Leaves /\ used <= used' /\ used \in Nat
    BY <1>2, SlotLeaves DEF IndInv, TypeOK
  <2>3. used' \in Nat
    BY <1>2, NextPreserves DEF IndInv, TypeOK
  <2>4. id \in Ids /\ id <= used /\ (slot.id # id \/ slot'.id # id)
    <3>1. CASE id \in released \cup stopped
      BY <1>2, <3>1 DEF Final, IndInv, TypeOK
    <3>2. CASE id \notin released \cup stopped
      BY <1>2, <3>2, EndsFree
    <3> QED BY <3>1, <3>2
  <2>5. id \in Nat
    BY <2>4, LeaseAssumption DEF Ids
  <2> QED BY <2>2, <2>3, <2>4, <2>5 DEF Leaves
<1>3. Final => ReleasedFreesSlot
  BY DEF Final, ReleasedFreesSlot
<1> QED BY <1>1, <1>2, <1>3, Invariant, PTL DEF Spec

-----------------------------------------------------------------------------
(* The media clock of a lease.  No deadline promises more than the lease    *)
(* was given: the time to live that a request has read is the rest of a    *)
(* lease, counted from a sample of the clock that is not later than the    *)
(* read, and what it exports is the smaller of that and its budget.        *)

Anchor == [clock: Requests \cup {"none"}, last: Nat, deadline: Nat]

MediaCall ==
  [pc: {"idle"}]
  \cup [pc: {"hash"}, kind: CallKinds, tries: Nat, before: Nat]
  \cup [pc: {"active"}, kind: CallKinds, tries: Nat, before: Nat, raw: Anchor,
        revoked: BOOLEAN]
  \cup [pc: {"sample"}, kind: CallKinds, tries: Nat, before: Nat, raw: Anchor,
        revoked: BOOLEAN, ttl: Nat]
  \cup [pc: {"exec"}, kind: CallKinds, tries: Nat, write: Anchor,
        export: [clock: Requests \cup {"none"}, deadline: Nat]]

ClockTypeOK ==
  /\ time \in Nat /\ until \in Nat /\ given \in Nat /\ calls \in Nat
  /\ anchor \in Anchor
  /\ ended \in BOOLEAN
  /\ media \in [Requests -> MediaCall]
  /\ spoiled \subseteq Requests
  /\ exported \subseteq [clock: Requests \cup {"none"}, deadline: Nat]

\* What a request knows promises no more than the lease was given.
Modest(q, t, g) ==
  /\ q.pc \in {"hash", "active", "sample"} => q.before <= t
  /\ q.pc \in {"active", "sample"} => q.raw.deadline <= g
  /\ q.pc = "sample" => q.before + q.ttl <= g
  /\ q.pc = "exec" /\ q.kind # "touch" =>
       q.write.deadline <= g /\ q.export.deadline <= g
  /\ q.pc = "exec" /\ q.kind = "touch" =>
       q.write.deadline <= t + Renewal /\ q.export.deadline <= t + Renewal

ClockInv ==
  /\ ClockTypeOK
  /\ until <= given /\ (until # 0 => until > time)
  /\ anchor.deadline <= given
  /\ \A r \in Requests : Modest(media[r], time, given)
  /\ DeadlineHonest

\* The greater and the smaller of two numbers.
LEMMA MaxOfPair ==
  ASSUME NEW a \in Nat, NEW b \in Nat
  PROVE  Max({a, b}) \in {a, b} /\ a <= Max({a, b}) /\ b <= Max({a, b})
<1>1. CASE a <= b
  <2> b \in {a, b} /\ \A y \in {a, b} : b >= y
    BY <1>1
  <2> QED BY DEF Max
<1>2. CASE ~(a <= b)
  <2> a \in {a, b} /\ \A y \in {a, b} : a >= y
    BY <1>2
  <2> QED BY DEF Max
<1> QED BY <1>1, <1>2

LEMMA MinOfPair ==
  ASSUME NEW a \in Nat, NEW b \in Nat
  PROVE  Min({a, b}) \in {a, b} /\ Min({a, b}) <= a /\ Min({a, b}) <= b
<1>1. CASE a <= b
  <2> a \in {a, b} /\ \A y \in {a, b} : a <= y
    BY <1>1
  <2> QED BY DEF Min
<1>2. CASE ~(a <= b)
  <2> b \in {a, b} /\ \A y \in {a, b} : b <= y
    BY <1>2
  <2> QED BY DEF Min
<1> QED BY <1>1, <1>2

LEMMA MediaFields ==
  ASSUME NEW q \in MediaCall
  PROVE  /\ q.pc \in {"idle", "hash", "active", "sample", "exec"}
         /\ q.pc # "idle" => q.kind \in CallKinds /\ q.tries \in Nat
         /\ q.pc \in {"hash", "active", "sample"} => q.before \in Nat
         /\ q.pc \in {"active", "sample"} => q.raw \in Anchor /\ q.revoked \in BOOLEAN
         /\ q.pc = "sample" => q.ttl \in Nat
         /\ q.pc = "exec" => /\ q.write \in Anchor
                             /\ q.export \in [clock: Requests \cup {"none"}, deadline: Nat]
BY DEF MediaCall

\* The earlier of two: what is left is not negative, not more than what was read.
LEMMA TimeLeftBound ==
  ASSUME ClockTypeOK, NEW q \in MediaCall, q.pc = "sample", q.before <= time
  PROVE  /\ TimeLeft(q) \in Nat
         /\ TimeLeft(q) > 0 => time + TimeLeft(q) <= q.before + q.ttl
<1>1. q.before \in Nat /\ q.ttl \in Nat /\ time \in Nat /\ Budget \in Nat
  BY MediaFields, ClockAssumption DEF ClockTypeOK
<1>2. CASE q.ttl > time - q.before
  <2> DEFINE left == q.ttl - (time - q.before)
  <2>1. left \in Nat
    BY <1>1, <1>2
  <2>2. Min({Budget, left}) \in {Budget, left} /\ Min({Budget, left}) <= left
    <3> HIDE DEF left
    <3> QED BY <1>1, <2>1, MinOfPair
  <2>3. TimeLeft(q) = Min({Budget, left})
    BY <1>2 DEF TimeLeft
  <2> QED BY <1>1, <2>1, <2>2, <2>3
<1>3. CASE ~(q.ttl > time - q.before)
  BY <1>3 DEF TimeLeft
<1> QED BY <1>2, <1>3

\* What a request found acceptable writes and exports stays within the lease.
LEMMA SampleModest ==
  ASSUME ClockInv, NEW r \in Requests, media[r].pc = "sample", Acceptable(media[r])
  PROVE  LET q == media[r] IN
         /\ Sampled(r, q) \in Anchor
         /\ Export(r, q) \in [clock: Requests \cup {"none"}, deadline: Nat]
         /\ q.kind # "touch" =>
              Sampled(r, q).deadline <= given /\ Export(r, q).deadline <= given
         /\ q.kind = "touch" =>
              /\ Sampled(r, q).deadline <= time + Renewal
              /\ Export(r, q).deadline <= time + Renewal
<1> DEFINE q == media[r]
<1>1. q \in MediaCall /\ q.pc = "sample" /\ Modest(q, time, given)
  BY DEF ClockInv, ClockTypeOK
<1>2. /\ q.before \in Nat /\ q.ttl \in Nat /\ q.raw \in Anchor /\ q.before <= time
      /\ q.raw.deadline <= given /\ q.before + q.ttl <= given
      /\ time \in Nat /\ given \in Nat /\ Renewal \in Nat
  BY <1>1, MediaFields, ClockAssumption DEF Modest, ClockInv, ClockTypeOK
<1>3. TimeLeft(q) \in Nat /\ TimeLeft(q) > 0 /\ time + TimeLeft(q) <= given
  <2>1. TimeLeft(q) \in Nat /\ (TimeLeft(q) > 0 => time + TimeLeft(q) <= q.before + q.ttl)
    BY <1>1, <1>2, TimeLeftBound DEF ClockInv
  <2> QED BY <2>1, <1>2 DEF Acceptable
<1>4. q.raw.deadline \in Nat /\ q.raw.clock \in Requests \cup {"none"} /\ q.raw.last \in Nat
  BY <1>2 DEF Anchor
<1>5. q.raw # None => time < q.raw.deadline
  BY DEF Acceptable, InForce
<1>6. Remaining(q) \in Nat /\ time + Remaining(q) <= given
  <2>1. CASE q.raw = None
    BY <2>1, <1>3 DEF Remaining
  <2>2. CASE q.raw # None
    <3> DEFINE rest == q.raw.deadline - time
    <3>1. rest \in Nat
      BY <1>2, <1>4, <1>5, <2>2
    <3>2. /\ Min({TimeLeft(q), rest}) \in {TimeLeft(q), rest}
          /\ Min({TimeLeft(q), rest}) <= TimeLeft(q)
      <4> HIDE DEF rest, q
      <4> QED BY <1>3, <3>1, MinOfPair
    <3>3. Remaining(q) = Min({TimeLeft(q), rest})
      BY <2>2 DEF Remaining
    <3> QED BY <1>2, <1>3, <3>1, <3>2, <3>3
  <2> QED BY <2>1, <2>2
<1> HIDE DEF q
<1>7. /\ Sampled(r, q) \in Anchor
      /\ q.kind # "touch" => Sampled(r, q).deadline <= given
      /\ q.kind = "touch" => Sampled(r, q).deadline <= time + Renewal
  BY <1>2, <1>3, <1>4 DEF Sampled, Anchor
<1>8. /\ Export(r, q) \in [clock: Requests \cup {"none"}, deadline: Nat]
      /\ q.kind # "touch" => Export(r, q).deadline <= given
      /\ q.kind = "touch" => Export(r, q).deadline <= time + Renewal
  BY <1>2, <1>6, <1>7 DEF Export, Anchor
<1> QED BY <1>7, <1>8 DEF q

LEMMA StaysModest ==
  ASSUME ClockTypeOK, NEW q \in MediaCall, Modest(q, time, given),
         time' \in Nat, time <= time', given' \in Nat, given <= given'
  PROVE  Modest(q, time', given')
<1>1. time \in Nat /\ given \in Nat /\ Renewal \in Nat
  BY ClockAssumption DEF ClockTypeOK
<1>2. /\ q.pc \in {"hash", "active", "sample"} => q.before \in Nat
      /\ q.pc \in {"active", "sample"} => q.raw.deadline \in Nat
      /\ q.pc = "sample" => q.ttl \in Nat
      /\ q.pc = "exec" => q.write.deadline \in Nat /\ q.export.deadline \in Nat
  BY MediaFields DEF Anchor
<1> QED BY <1>1, <1>2 DEF Modest

\* A request that moves on leaves the others as they were; time and the lease's
\* expiry only grow.
LEMMA CallMoves ==
  ASSUME ClockInv, NEW r \in Requests, NEW rec \in MediaCall, CallTo(r, rec), Modest(rec, time', given'),
         time' = time, given' \in Nat, given <= given'
  PROVE  /\ media' \in [Requests -> MediaCall]
         /\ \A x \in Requests : Modest(media'[x], time', given')
<1>1. /\ media' \in [Requests -> MediaCall]
      /\ \A x \in Requests : media'[x] = IF x = r THEN rec ELSE media[x]
  BY DEF CallTo, ClockInv, ClockTypeOK
<1>2. ASSUME NEW x \in Requests PROVE Modest(media'[x], time', given')
  <2>1. CASE x = r
    BY <2>1, <1>1 DEF Modest
  <2>2. CASE x # r
    <3>1. media'[x] = media[x]
      BY <1>1, <2>2
    <3> QED BY <3>1, StaysModest DEF ClockInv, ClockTypeOK
  <2> QED BY <2>1, <2>2
<1> QED BY <1>1, <1>2

\* A request begins, reads the hash, then the active key; samples the clock; writes.
LEMMA BeginKeeps ==
  ASSUME ClockInv, NEW r \in Requests, NEW kind \in CallKinds, Begin(r, kind)
  PROVE  ClockInv'
<1> DEFINE rec == [pc |-> "hash", kind |-> kind, tries |-> 1, before |-> time]
<1>1. rec \in MediaCall /\ Modest(rec, time', given') /\ CallTo(r, rec)
  BY DEF Begin, MediaCall, Modest, ClockInv, ClockTypeOK
<1> HIDE DEF rec
<1>2. /\ media' \in [Requests -> MediaCall]
      /\ \A x \in Requests : Modest(media'[x], time', given')
  BY <1>1, CallMoves DEF Begin, leaseVars, ClockInv, ClockTypeOK
<1> QED BY <1>2 DEF Begin, leaseVars, ClockInv, ClockTypeOK, DeadlineHonest

LEMMA ReadHashKeeps ==
  ASSUME ClockInv, NEW r \in Requests, ReadHash(r)
  PROVE  ClockInv'
<1> DEFINE rec == [pc |-> "active", kind |-> media[r].kind, tries |-> media[r].tries,
                   before |-> media[r].before, raw |-> anchor, revoked |-> ended]
<1>0. media[r] \in MediaCall /\ Modest(media[r], time, given) /\ media[r].pc = "hash"
  BY DEF ReadHash, ClockInv, ClockTypeOK
<1>1. rec \in MediaCall /\ Modest(rec, time', given') /\ CallTo(r, rec)
  <2>1. media[r].kind \in CallKinds /\ media[r].tries \in Nat /\ media[r].before \in Nat
    BY <1>0, MediaFields
  <2> QED BY <1>0, <2>1 DEF ReadHash, MediaCall, Modest, leaseVars, ClockInv, ClockTypeOK
<1> HIDE DEF rec
<1>2. /\ media' \in [Requests -> MediaCall]
      /\ \A x \in Requests : Modest(media'[x], time', given')
  BY <1>1, CallMoves DEF ReadHash, leaseVars, ClockInv, ClockTypeOK
<1> QED BY <1>2 DEF ReadHash, leaseVars, ClockInv, ClockTypeOK, DeadlineHonest

LEMMA NoCallModest == NoCall \in MediaCall /\ Modest(NoCall, time, given)
                     /\ Modest(NoCall, time', given')
BY DEF NoCall, MediaCall, Modest

LEMMA ReadActiveKeeps ==
  ASSUME ClockInv, NEW r \in Requests, ReadActive(r)
  PROVE  ClockInv'
<1>0. /\ media[r] \in MediaCall /\ Modest(media[r], time, given) /\ media[r].pc = "active"
      /\ UNCHANGED <<time, given>> /\ given \in Nat
  BY DEF ReadActive, leaseVars, ClockInv, ClockTypeOK
<1>2. /\ media' \in [Requests -> MediaCall]
      /\ \A x \in Requests : Modest(media'[x], time', given')
  <2>1. CASE until = 0
    BY <2>1, <1>0, NoCallModest, CallMoves DEF ReadActive
  <2>2. CASE until # 0
    <3> DEFINE rec == [pc |-> "sample", kind |-> media[r].kind, tries |-> media[r].tries,
                       before |-> media[r].before, raw |-> media[r].raw,
                       revoked |-> media[r].revoked, ttl |-> until - time]
    <3>1. /\ media[r].kind \in CallKinds /\ media[r].tries \in Nat
          /\ media[r].before \in Nat /\ media[r].raw \in Anchor
          /\ media[r].revoked \in BOOLEAN
      BY <1>0, MediaFields
    <3>2. rec \in MediaCall /\ CallTo(r, rec)
      BY <2>2, <3>1 DEF ReadActive, MediaCall, ClockInv, ClockTypeOK
    <3>3. Modest(rec, time', given')
      BY <1>0, <2>2, <3>1 DEF Modest, ClockInv, ClockTypeOK
    <3> HIDE DEF rec
    <3> QED BY <1>0, <3>2, <3>3, CallMoves
  <2> QED BY <2>1, <2>2
<1>3. spoiled' \subseteq Requests
  BY DEF ReadActive, ClockInv, ClockTypeOK
<1> QED BY <1>2, <1>3 DEF ReadActive, leaseVars, ClockInv, ClockTypeOK, DeadlineHonest

LEMMA SampleKeeps ==
  ASSUME ClockInv, NEW r \in Requests, Sample(r)
  PROVE  ClockInv'
<1> DEFINE q == media[r]
<1>0. /\ q \in MediaCall /\ q.pc = "sample"
      /\ UNCHANGED <<time, leaseVars, calls>> /\ given \in Nat
  BY DEF Sample, ClockInv, ClockTypeOK
<1>1. q.kind \in CallKinds /\ q.tries \in Nat
  BY <1>0, MediaFields
<1>2. Acceptable(q) =>
        /\ Sampled(r, q) \in Anchor
        /\ Export(r, q) \in [clock: Requests \cup {"none"}, deadline: Nat]
        /\ q.kind # "touch" =>
             Sampled(r, q).deadline <= given /\ Export(r, q).deadline <= given
        /\ q.kind = "touch" =>
             /\ Sampled(r, q).deadline <= time + Renewal
             /\ Export(r, q).deadline <= time + Renewal
  BY <1>0, SampleModest
<1>3. CASE CallTo(r, NoCall) /\ spoiled' = spoiled \ {r} /\ exported' = exported
  <2>1. /\ media' \in [Requests -> MediaCall]
        /\ \A x \in Requests : Modest(media'[x], time', given')
    BY <1>0, <1>3, NoCallModest, CallMoves DEF leaseVars
  <2> QED BY <1>0, <1>3, <2>1 DEF leaseVars, ClockInv, ClockTypeOK, DeadlineHonest
<1>4. CASE /\ Acceptable(q) /\ q.kind # "touch"
           /\ CallTo(r, NoCall) /\ spoiled' = spoiled \ {r}
           /\ exported' = exported \cup {Export(r, q)}
  <2>1. /\ media' \in [Requests -> MediaCall]
        /\ \A x \in Requests : Modest(media'[x], time', given')
    BY <1>0, <1>4, NoCallModest, CallMoves DEF leaseVars
  <2>2. /\ exported' \subseteq [clock: Requests \cup {"none"}, deadline: Nat]
        /\ \A e \in exported' : e.deadline <= given
    BY <1>2, <1>4 DEF ClockInv, ClockTypeOK, DeadlineHonest
  <2> QED BY <1>0, <1>4, <2>1, <2>2 DEF leaseVars, ClockInv, ClockTypeOK, DeadlineHonest
<1>5. CASE /\ Acceptable(q)
           /\ CallTo(r, [pc |-> "exec", kind |-> q.kind, tries |-> q.tries,
                         write |-> Sampled(r, q), export |-> Export(r, q)])
           /\ UNCHANGED <<spoiled, exported>>
  <2> DEFINE rec == [pc |-> "exec", kind |-> q.kind, tries |-> q.tries,
                     write |-> Sampled(r, q), export |-> Export(r, q)]
  <2>1. rec \in MediaCall /\ Modest(rec, time', given')
    <3> HIDE DEF q
    <3>1. rec \in MediaCall
      BY <1>1, <1>2, <1>5 DEF MediaCall
    <3>2. Modest(rec, time', given')
      BY <1>0, <1>1, <1>2, <1>5 DEF Modest, leaseVars
    <3> QED BY <3>1, <3>2
  <2>2. /\ media' \in [Requests -> MediaCall]
        /\ \A x \in Requests : Modest(media'[x], time', given')
    <3> CallTo(r, rec)
      BY <1>5
    <3> HIDE DEF rec
    <3> QED BY <1>0, <2>1, CallMoves DEF leaseVars
  <2> QED BY <1>0, <1>5, <2>2 DEF leaseVars, ClockInv, ClockTypeOK, DeadlineHonest
<1> QED BY <1>3, <1>4, <1>5 DEF Sample

LEMMA WrittenKeeps ==
  ASSUME ClockInv, NEW r \in Requests, media[r].pc = "exec", Written(r),
         UNCHANGED <<time, ended, calls>>
  PROVE  ClockInv'
<1> DEFINE q == media[r]
<1>0. /\ q \in MediaCall /\ Modest(q, time, given) /\ q.pc = "exec"
      /\ time \in Nat /\ given \in Nat /\ until \in Nat
  BY DEF ClockInv, ClockTypeOK
<1>1. /\ q.kind \in CallKinds /\ q.write \in Anchor /\ q.write.deadline \in Nat
      /\ q.export \in [clock: Requests \cup {"none"}, deadline: Nat]
      /\ q.export.deadline \in Nat
  BY <1>0, MediaFields DEF Anchor
<1>2. /\ given' \in Nat /\ until' \in Nat /\ given <= given'
      /\ until' <= given' /\ (until' # 0 => until' > time)
      /\ q.write.deadline <= given' /\ q.export.deadline <= given'
  <2>1. CASE q.kind = "touch"
    <3>1. time + Renewal \in Nat /\ time + Renewal > time
      BY <1>0, ClockAssumption
    <3>2. until' = time + Renewal /\ given' = Max({given, time + Renewal})
      BY <2>1 DEF Written
    <3>3. given' \in {given, time + Renewal} /\ given <= given' /\ time + Renewal <= given'
      BY <1>0, <3>1, <3>2, MaxOfPair
    <3>4. q.write.deadline <= time + Renewal /\ q.export.deadline <= time + Renewal
      BY <1>0, <2>1 DEF Modest
    <3> QED BY <1>0, <1>1, <3>1, <3>2, <3>3, <3>4
  <2>2. CASE q.kind # "touch"
    BY <1>0, <2>2 DEF Written, Modest, ClockInv
  <2> QED BY <2>1, <2>2
<1>3. /\ media' \in [Requests -> MediaCall]
      /\ \A x \in Requests : Modest(media'[x], time', given')
  BY <1>2, NoCallModest, CallMoves DEF Written
<1>4. /\ anchor' \in Anchor /\ anchor'.deadline <= given'
      /\ exported' \subseteq [clock: Requests \cup {"none"}, deadline: Nat]
      /\ spoiled' \subseteq Requests
  BY <1>1, <1>2 DEF Written, SpoilOthers, Others, ClockInv, ClockTypeOK
<1>5. \A e \in exported' : e.deadline <= given'
  <2> SUFFICES ASSUME NEW e \in exported' PROVE e.deadline <= given'
    OBVIOUS
  <2>1. CASE e \in exported
    <3>1. e.deadline \in Nat /\ e.deadline <= given
      BY <2>1 DEF ClockInv, ClockTypeOK, DeadlineHonest
    <3> QED BY <3>1, <1>0, <1>2
  <2>2. CASE e = q.export
    BY <2>2, <1>2
  <2> QED BY <2>1, <2>2 DEF Written
<1> QED BY <1>2, <1>3, <1>4, <1>5 DEF ClockInv, ClockTypeOK, DeadlineHonest

LEMMA RetriedKeeps ==
  ASSUME ClockInv, NEW r \in Requests, media[r].pc = "exec", Retried(r),
         UNCHANGED <<time, ended, calls>>
  PROVE  ClockInv'
<1>0. /\ media[r] \in MediaCall /\ given \in Nat /\ given' = given /\ time \in Nat
  BY DEF Retried, ClockInv, ClockTypeOK
<1>1. media[r].kind \in CallKinds /\ media[r].tries \in Nat
  BY <1>0, MediaFields
<1> DEFINE rec == IF media[r].tries = MaxTries THEN NoCall
                  ELSE [pc |-> "hash", kind |-> media[r].kind,
                        tries |-> media[r].tries + 1, before |-> time]
<1>2. rec \in MediaCall /\ Modest(rec, time', given') /\ CallTo(r, rec)
  <2>1. CASE media[r].tries = MaxTries
    BY <2>1, NoCallModest DEF Retried
  <2>2. CASE media[r].tries # MaxTries
    BY <2>2, <1>0, <1>1 DEF Retried, MediaCall, Modest
  <2> QED BY <2>1, <2>2
<1> HIDE DEF rec
<1>3. /\ media' \in [Requests -> MediaCall]
      /\ \A x \in Requests : Modest(media'[x], time', given')
  BY <1>0, <1>2, CallMoves
<1> QED BY <1>3 DEF Retried, ClockInv, ClockTypeOK, DeadlineHonest

LEMMA OutsideKeeps ==
  ASSUME ClockInv, PlainTouch \/ EndLease \/ ClockTick
  PROVE  ClockInv'
<1>0. time \in Nat /\ given \in Nat /\ until \in Nat /\ calls \in Nat /\ Renewal \in Nat \ {0}
  BY ClockAssumption DEF ClockInv, ClockTypeOK
<1>1. /\ given' \in Nat /\ until' \in Nat /\ given <= given' /\ time' \in Nat /\ time <= time'
      /\ until' <= given' /\ (until' # 0 => until' > time')
  <2>1. CASE PlainTouch
    <3>1. time + Renewal \in Nat /\ time + Renewal > time
      BY <1>0
    <3>2. until' = time + Renewal /\ given' = Max({given, time + Renewal}) /\ time' = time
      BY <2>1 DEF PlainTouch
    <3>3. given' \in {given, time + Renewal} /\ given <= given' /\ time + Renewal <= given'
      BY <1>0, <3>1, <3>2, MaxOfPair
    <3> QED BY <1>0, <3>1, <3>2, <3>3
  <2>2. CASE EndLease
    BY <1>0, <2>2 DEF EndLease
  <2>3. CASE ClockTick
    BY <1>0, <2>3 DEF ClockTick, ClockInv
  <2> QED BY <2>1, <2>2, <2>3
<1>2. /\ media' = media /\ anchor' = anchor /\ exported' = exported
      /\ ended' \in BOOLEAN /\ calls' \in Nat /\ spoiled' \subseteq Requests
  <2>0. ended \in BOOLEAN /\ spoiled \subseteq Requests
    BY DEF ClockInv, ClockTypeOK
  <2>1. CASE PlainTouch
    BY <1>0, <2>0, <2>1 DEF PlainTouch
  <2>2. CASE EndLease
    BY <1>0, <2>0, <2>2 DEF EndLease
  <2>3. CASE ClockTick
    BY <1>0, <2>0, <2>3 DEF ClockTick
  <2> QED BY <2>1, <2>2, <2>3
<1>3. \A x \in Requests : Modest(media'[x], time', given')
  BY <1>1, <1>2, StaysModest DEF ClockInv, ClockTypeOK
<1>4. anchor.deadline <= given'
  BY <1>0, <1>1 DEF ClockInv, ClockTypeOK, Anchor
<1>5. \A e \in exported : e.deadline <= given'
  <2> SUFFICES ASSUME NEW e \in exported PROVE e.deadline <= given'
    OBVIOUS
  <2>1. e.deadline \in Nat /\ e.deadline <= given
    BY DEF ClockInv, ClockTypeOK, DeadlineHonest
  <2> QED BY <2>1, <1>0, <1>1
<1> QED BY <1>1, <1>2, <1>3, <1>4, <1>5 DEF ClockInv, ClockTypeOK, DeadlineHonest

LEMMA ClockStarts == ClockInit => ClockInv
<1> SUFFICES ASSUME ClockInit PROVE ClockInv
  OBVIOUS
<1>1. \A r \in Requests : media[r] = NoCall
  BY DEF ClockInit
<1>2. media \in [Requests -> MediaCall] /\ \A r \in Requests : Modest(media[r], time, given)
  BY <1>1, NoCallModest DEF ClockInit
<1>3. None \in Anchor /\ None.deadline = 0
  BY DEF None, Anchor
<1>4. 1 + Renewal \in Nat /\ 1 + Renewal > 1
  BY ClockAssumption
<1>5. ClockTypeOK /\ DeadlineHonest
  BY <1>2, <1>3, <1>4 DEF ClockInit, ClockTypeOK, DeadlineHonest
<1> QED BY <1>2, <1>3, <1>4, <1>5 DEF ClockInit, ClockInv

LEMMA ClockPreserves == ClockInv /\ [ClockNext]_clockVars => ClockInv'
<1> SUFFICES ASSUME ClockInv, [ClockNext]_clockVars PROVE ClockInv'
  OBVIOUS
<1>1. ASSUME NEW r \in Requests, NEW kind \in CallKinds, Begin(r, kind) PROVE ClockInv'
  BY <1>1, BeginKeeps
<1>2. ASSUME NEW r \in Requests, ReadHash(r) PROVE ClockInv'
  BY <1>2, ReadHashKeeps
<1>3. ASSUME NEW r \in Requests, ReadActive(r) PROVE ClockInv'
  BY <1>3, ReadActiveKeeps
<1>4. ASSUME NEW r \in Requests, Sample(r) PROVE ClockInv'
  BY <1>4, SampleKeeps
<1>5. ASSUME NEW r \in Requests, Exec(r) PROVE ClockInv'
  <2>1. CASE Written(r)
    BY <1>5, <2>1, WrittenKeeps DEF Exec
  <2>2. CASE Retried(r)
    BY <1>5, <2>2, RetriedKeeps DEF Exec
  <2> QED BY <1>5, <2>1, <2>2 DEF Exec
<1>6. CASE PlainTouch \/ EndLease \/ ClockTick
  BY <1>6, OutsideKeeps
<1>7. CASE UNCHANGED clockVars
  BY <1>7 DEF clockVars, ClockInv, ClockTypeOK, DeadlineHonest, Modest
<1> QED BY <1>1, <1>2, <1>3, <1>4, <1>5, <1>6, <1>7 DEF ClockNext

\* What the requests know of the clock, between any two of their commands, promises no
\* more than the lease was given (leases.py, the anchor of the media clock).
THEOREM ClockInvariant == ClockSpec => []ClockInv
BY ClockStarts, ClockPreserves, PTL DEF ClockSpec

\* No deadline that was handed to the camera is later than the lease was ever given,
\* for any number of requests, retries and renewals of the lease.
THEOREM DeadlineIsHonest == ClockSpec => []DeadlineHonest
<1>1. ClockInv => DeadlineHonest
  BY DEF ClockInv
<1> QED BY <1>1, ClockInvariant, PTL

-----------------------------------------------------------------------------
(* Provisioning.  An answer says what the record of its operation says,     *)
(* and a record is never changed once it is there: so two answers to one   *)
(* operation, from any two servers, mean the same.                         *)

\* What the record of an operation says.
Meaning(op) == [op |-> op, payload |-> provision[op].payload, device |-> provision[op].device]

\* Nothing is answered that no record says.
ProvisionInv == \A a \in answered : a.op \in DOMAIN provision /\ a = Meaning(a.op)

\* The records that there are stay as they are.
RecordsKept ==
  /\ DOMAIN provision \subseteq DOMAIN provision'
  /\ \A op \in DOMAIN provision : provision'[op] = provision[op]

\* A step that keeps the records may answer what they then say.
LEMMA AnswersKeep ==
  ASSUME ProvisionInv, RecordsKept,
         \A a \in answered' \ answered : a.op \in DOMAIN provision' /\ a = Meaning(a.op)'
  PROVE  ProvisionInv'
<1> SUFFICES ASSUME NEW a \in answered'
             PROVE  a.op \in DOMAIN provision' /\ a = Meaning(a.op)'
  BY DEF ProvisionInv
<1>1. CASE a \in answered
  <2>1. a.op \in DOMAIN provision /\ a = Meaning(a.op)
    BY <1>1 DEF ProvisionInv
  <2>2. a.op \in DOMAIN provision' /\ provision'[a.op] = provision[a.op]
    BY <2>1 DEF RecordsKept
  <2> QED BY <2>1, <2>2 DEF Meaning
<1>2. CASE a \notin answered
  BY <1>2
<1> QED BY <1>1, <1>2

\* A replay repeats the record, if it answers at all.
LEMMA ReplayKeeps ==
  ASSUME ProvisionInv, NEW op \in DOMAIN provision, NEW p, Replay(op, p),
         provision' = provision
  PROVE  ProvisionInv'
<1>1. CASE provision[op].payload = p
  <2> DEFINE new == [op |-> op, payload |-> p, device |-> provision[op].device]
  <2>1. answered' = answered \cup {new} /\ new.op = op
    BY <1>1 DEF Replay
  <2>2. new = Meaning(op)'
    BY <1>1 DEF Meaning
  <2> HIDE DEF new
  <2>3. \A a \in answered' \ answered : a.op \in DOMAIN provision' /\ a = Meaning(a.op)'
    BY <2>1, <2>2
  <2> QED BY <2>3, AnswersKeep DEF RecordsKept
<1>2. CASE provision[op].payload # p
  <2> answered' = answered
    BY <1>2 DEF Replay
  <2> QED BY AnswersKeep DEF RecordsKept
<1> QED BY <1>1, <1>2

\* The row of an operation is inserted once.
LEMMA StoredKeeps ==
  ASSUME ProvisionInv, NEW r, Stored(r)
  PROVE  ProvisionInv'
<1> DEFINE row == [payload |-> r.payload, device |-> r.device]
           new == [op |-> r.op, payload |-> r.payload, device |-> r.device]
<1>1. /\ r.op \notin DOMAIN provision
      /\ provision' = Assign(provision, r.op, row)
      /\ answered' = answered \cup {new}
  BY DEF Stored, Clash
<1>2. new.op = r.op /\ row.payload = r.payload /\ row.device = r.device
  OBVIOUS
<1>3. new = [op |-> r.op, payload |-> row.payload, device |-> row.device]
  BY <1>2
<1> HIDE DEF row, new
<1>4. /\ DOMAIN provision' = DOMAIN provision \cup {r.op} /\ provision'[r.op] = row
      /\ \A op \in DOMAIN provision : op # r.op => provision'[op] = provision[op]
  BY <1>1 DEF Assign
<1>5. RecordsKept
  BY <1>1, <1>4 DEF RecordsKept
<1>6. \A a \in answered' \ answered : a.op \in DOMAIN provision' /\ a = Meaning(a.op)'
  BY <1>1, <1>2, <1>3, <1>4 DEF Meaning
<1> QED BY <1>5, <1>6, AnswersKeep

LEMMA ProvisionStarts == ProvisionInit => ProvisionInv
BY DEF ProvisionInit, ProvisionInv

LEMMA ProvisionPreserves ==
  ProvisionInv /\ [ProvisionNext]_provisionVars => ProvisionInv'
<1> SUFFICES ASSUME ProvisionInv, [ProvisionNext]_provisionVars PROVE ProvisionInv'
  OBVIOUS
<1>0. ASSUME UNCHANGED <<provision, answered>> PROVE ProvisionInv'
  BY <1>0 DEF ProvisionInv, Meaning
<1>1. ASSUME NEW h \in Servers, NEW op \in Ops, NEW p \in Payloads, Check(h, op, p)
      PROVE  ProvisionInv'
  <2>1. CASE Replayed(op, p)
    BY <2>1, ReplayKeeps DEF Replayed
  <2>2. CASE Rejected(op, p) \/ Checked(h, op, p)
    BY <2>2, <1>0 DEF Rejected, Checked, deviceVars
  <2> QED BY <1>1, <2>1, <2>2 DEF Check
<1>2. ASSUME NEW h \in Servers, StoreDevice(h) PROVE ProvisionInv'
  <2>1. CASE AfterClash(asking[h])
    <3>1. CASE asking[h].op \in DOMAIN provision
      BY <2>1, <3>1, ReplayKeeps DEF AfterClash
    <3>2. CASE asking[h].op \notin DOMAIN provision
      BY <2>1, <3>2, <1>0 DEF AfterClash
    <3> QED BY <3>1, <3>2
  <2>2. CASE Stored(asking[h])
    BY <2>2, StoredKeeps
  <2> QED BY <1>2, <2>1, <2>2 DEF StoreDevice
<1>3. ASSUME NEW h \in Servers, Lose(h) PROVE ProvisionInv'
  BY <1>3, <1>0 DEF Lose
<1>4. ASSUME NEW b \in Bulk, ProvisionTerminals(b) PROVE ProvisionInv'
  BY <1>4, <1>0 DEF ProvisionTerminals
<1>5. ASSUME NEW op \in Ops, NEW wanted, NEW minimum \in Tenants,
             ReserveOrg(op, wanted, minimum)
      PROVE  ProvisionInv'
  BY <1>5, <1>0 DEF ReserveOrg, deviceVars
<1>6. CASE InsertOrg
  BY <1>6, <1>0 DEF InsertOrg, deviceVars
<1>7. ASSUME NEW o \in Tenants, NEW k \in ApiKeys, CheckKey(o, k) PROVE ProvisionInv'
  BY <1>7, <1>0 DEF CheckKey, deviceVars
<1>8. CASE StoreKey
  BY <1>8, <1>0 DEF StoreKey, deviceVars
<1>9. ASSUME NEW o \in Tenants, DeleteKey(o) PROVE ProvisionInv'
  BY <1>9, <1>0 DEF DeleteKey, deviceVars
<1>10. CASE UNCHANGED provisionVars
  BY <1>10, <1>0 DEF provisionVars
<1> QED BY <1>1, <1>2, <1>3, <1>4, <1>5, <1>6, <1>7, <1>8, <1>9, <1>10 DEF ProvisionNext

\* All answers to one operation say the same, for any number of servers, tenants and
\* payloads: an operation that is repeated, at the same time or later, is replayed.
THEOREM OperationMeansOneThing == ProvisionSpec => []OneMeaning
<1>1. ProvisionInv => OneMeaning
  BY DEF ProvisionInv, OneMeaning
<1>2. ProvisionSpec => []ProvisionInv
  BY ProvisionStarts, ProvisionPreserves, PTL DEF ProvisionSpec
<1> QED BY <1>1, <1>2, PTL

-----------------------------------------------------------------------------
(* The quality of a stream.  What the agent says it has applied, it was     *)
(* sent; generations are given out once a stream, so a report that carries *)
(* the generation of the last wish is about that wish, in whatever order   *)
(* reports and refusals come in and however late.                          *)

AskedFor == Targets \cup {"none"}
WishRecord == [stream: Nat, gen: Nat, target: AskedFor]

ShownReport == [stream: Nat, gen: Nat, target: AskedFor, sample: Nat,
          status: {"none", "applied", "unsupported"}]
KeptWish == [stream: Nat, gen: Nat, target: AskedFor, ack: {"none", "nack", "publish_failed"},
         late: BOOLEAN]
InTab == [step: {"idle", "reserve", "send", "failed"}, stream: Nat, target: AskedFor, gen: Nat]
ReportMessage == [kind: {"report"}, stream: Nat, gen: Nat, target: AskedFor, sample: Nat,
         status: {"none", "applied", "unsupported"}]
NackMessage == [kind: {"nack"}, stream: Nat, gen: Nat]

QualityTypeOK ==
  /\ source \in {"desktop", "camera"} /\ leased \in BOOLEAN
  /\ running \in Nat /\ issued \in Nat
  /\ report \in ShownReport /\ pending \in KeptWish
  /\ tab \in [Tabs -> InTab]
  /\ jobs \subseteq WishRecord /\ sent \subseteq WishRecord /\ done \subseteq WishRecord
  /\ agent \in ShownReport
  /\ upward \subseteq ReportMessage \cup NackMessage
  /\ qualitySpent \in [streams: Nat, sets: Nat, fails: Nat]

\* What is called applied, and was asked for, was carried out.
TrulyApplied(m) ==
  m.status = "applied" /\ m.gen > 0 =>
    [stream |-> m.stream, gen |-> m.gen, target |-> m.target] \in done

\* Streams are numbered as they start.
Numbered == running <= qualitySpent.streams /\ report.stream <= qualitySpent.streams

\* The report of the running stream is of nothing newer than the last wish.
ReportKnown ==
  report.stream = running /\ running # 0 =>
    /\ report.gen <= LastGeneration
    /\ report.gen > 0 /\ report.gen = LastGeneration /\ report.status = "applied" =>
         report.target = pending.target

QualityInv ==
  /\ QualityTypeOK /\ Numbered /\ ReportKnown
  /\ TrulyApplied(agent) /\ TrulyApplied(report)
  /\ \A m \in upward : m.kind = "report" => TrulyApplied(m)

LEMMA QualityStarts == QualityInit => QualityInv
<1> SUFFICES ASSUME QualityInit PROVE QualityInv
  OBVIOUS
<1>1. NoReport \in ShownReport /\ NoPending \in KeptWish /\ NoTab \in InTab /\ NoAgent \in ShownReport
  BY DEF NoReport, NoPending, NoTab, NoAgent, ShownReport, KeptWish, InTab, AskedFor
<1>2. QualityTypeOK
  BY <1>1 DEF QualityInit, QualityTypeOK
<1>3. Numbered /\ ReportKnown /\ TrulyApplied(agent) /\ TrulyApplied(report)
  BY DEF QualityInit, Numbered, ReportKnown, TrulyApplied, NoReport, NoAgent
<1> QED BY <1>2, <1>3 DEF QualityInit, QualityInv

\* Steps that leave the report, the wish and the agent alone.
LEMMA QuietQuality ==
  ASSUME QualityInv, QualityTypeOK', UNCHANGED <<running, report, agent, upward, done>>,
         pending'.stream = pending.stream, pending'.gen = pending.gen,
         pending'.target = pending.target,
         qualitySpent'.streams = qualitySpent.streams
  PROVE  QualityInv'
<1>1. Numbered' /\ ReportKnown'
  BY DEF QualityInv, Numbered, ReportKnown, LastGeneration
<1>2. /\ TrulyApplied(agent)' /\ TrulyApplied(report)'
      /\ \A m \in upward' : m.kind = "report" => TrulyApplied(m)'
  BY DEF QualityInv, TrulyApplied
<1> QED BY <1>1, <1>2 DEF QualityInv

LEMMA StartStreamKeeps == QualityInv /\ StartStream => QualityInv'
<1> SUFFICES ASSUME QualityInv, StartStream PROVE QualityInv'
  OBVIOUS
<1>0. QualityTypeOK /\ qualitySpent.streams \in Nat /\ report.stream \in Nat
  BY DEF QualityInv, QualityTypeOK, ShownReport
<1>1. NoReport \in ShownReport /\ NoPending \in KeptWish /\ NoReport.stream = 0 /\ NoReport.gen = 0
  BY DEF NoReport, NoPending, ShownReport, KeptWish, AskedFor
<1>2. agent' \in ShownReport /\ agent'.gen = 0
  BY <1>0 DEF StartStream, NoAgent, ShownReport, AskedFor
<1>3. (report' = report /\ pending' = pending) \/ (report' = NoReport /\ pending' = NoPending)
  BY DEF StartStream, doc
<1>4. QualityTypeOK'
  BY <1>0, <1>1, <1>2, <1>3 DEF StartStream, QualityTypeOK
<1>5. /\ running' = qualitySpent.streams + 1
      /\ qualitySpent'.streams = qualitySpent.streams + 1
      /\ report'.stream <= qualitySpent.streams
  BY <1>0, <1>1, <1>3 DEF StartStream, QualityInv, Numbered, QualityTypeOK
<1>6. Numbered'
  BY <1>0, <1>1, <1>3, <1>5 DEF Numbered
<1>7. ReportKnown'
  BY <1>0, <1>1, <1>3, <1>5 DEF ReportKnown
<1>8. TrulyApplied(agent)' /\ TrulyApplied(report)'
  BY <1>1, <1>2, <1>3 DEF StartStream, QualityInv, TrulyApplied
<1>9. \A m \in upward' : m.kind = "report" => TrulyApplied(m)'
  BY DEF StartStream, QualityInv, TrulyApplied
<1> QED BY <1>4, <1>6, <1>7, <1>8, <1>9 DEF QualityInv

LEMMA ReservesWish ==
  ASSUME QualityInv, NEW t \in Tabs, Reserve(t)
  PROVE  QualityInv'
<1>0. /\ QualityTypeOK /\ tab[t] \in InTab /\ tab[t].stream \in Nat /\ tab[t].target \in AskedFor
      /\ pending \in KeptWish /\ pending.gen \in Nat /\ pending.stream \in Nat
      /\ report.gen \in Nat
  BY DEF QualityInv, QualityTypeOK, InTab, KeptWish, ShownReport
<1>1. CASE Allowed(t)
  <2> DEFINE g == NextGeneration(t)
  <2>1. g \in Nat
    BY <1>0 DEF NextGeneration
  <2>2. /\ pending' = [NoPending EXCEPT !.stream = tab[t].stream, !.target = tab[t].target,
                                        !.gen = g]
        /\ tab' = [tab EXCEPT ![t].step = "send", ![t].gen = g]
        /\ UNCHANGED <<source, running, leased, report, jobs, issued, sent, agentVars,
                       qualitySpent>>
    BY <1>1 DEF Reserve
  <2>3. running = tab[t].stream /\ running # 0 /\ report.stream = running
    BY <1>1 DEF Allowed
  <2>4. LastGeneration < g
    BY <1>0, <2>3 DEF LastGeneration, NextGeneration
  <2> HIDE DEF g
  <2>5. /\ pending' \in KeptWish /\ pending'.stream = running /\ pending'.gen = g
    BY <1>0, <2>1, <2>2, <2>3 DEF NoPending, KeptWish, AskedFor
  <2>6. tab' \in [Tabs -> InTab]
    BY <1>0, <2>1, <2>2 DEF QualityTypeOK, InTab
  <2>7. QualityTypeOK'
    BY <1>0, <2>2, <2>5, <2>6 DEF QualityTypeOK, agentVars
  <2>8. report.gen <= LastGeneration /\ LastGeneration \in Nat
    BY <1>0, <2>3 DEF QualityInv, ReportKnown, LastGeneration
  <2>9. LastGeneration' = g
    BY <2>2, <2>5 DEF LastGeneration
  <2>10. ReportKnown'
    BY <1>0, <2>1, <2>2, <2>4, <2>8, <2>9 DEF ReportKnown
  <2>11. /\ Numbered' /\ TrulyApplied(agent)' /\ TrulyApplied(report)'
         /\ \A m \in upward' : m.kind = "report" => TrulyApplied(m)'
    BY <2>2 DEF QualityInv, Numbered, TrulyApplied, agentVars
  <2> QED BY <2>7, <2>10, <2>11 DEF QualityInv
<1>2. CASE ~Allowed(t)
  <2>1. NoTab \in InTab
    BY DEF NoTab, InTab, AskedFor
  <2>2. QualityTypeOK'
    BY <1>0, <1>2, <2>1 DEF Reserve, Refuse, QualityTypeOK, agentVars
  <2> QED BY <1>2, <2>2, QuietQuality DEF Reserve, agentVars
<1> QED BY <1>1, <1>2

LEMMA TabKeeps ==
  ASSUME QualityInv, NEW t \in Tabs,
         (\E target \in Targets : Authorize(t, target)) \/ SendWish(t) \/ SendFails(t)
           \/ MarkFailed(t)
  PROVE  QualityInv'
<1>0. /\ QualityTypeOK /\ tab[t] \in InTab /\ pending \in KeptWish
      /\ qualitySpent \in [streams: Nat, sets: Nat, fails: Nat]
  BY DEF QualityInv, QualityTypeOK
<1>1. NoTab \in InTab
  BY DEF NoTab, InTab, AskedFor
<1>2. ASSUME NEW target \in Targets, Authorize(t, target) PROVE QualityInv'
  <2>1. QualityTypeOK' /\ qualitySpent'.streams = qualitySpent.streams
    <3> DEFINE wish == [NoTab EXCEPT !.step = "reserve", !.stream = running, !.target = target]
    <3>1. wish \in InTab
      BY <1>0, <1>2 DEF NoTab, InTab, AskedFor, QualityTypeOK
    <3>2. tab' = [tab EXCEPT ![t] = wish]
      BY <1>2 DEF Authorize
    <3> HIDE DEF wish
    <3>3. tab' \in [Tabs -> InTab]
      BY <1>0, <3>1, <3>2 DEF QualityTypeOK
    <3>4. /\ qualitySpent' \in [streams: Nat, sets: Nat, fails: Nat]
          /\ qualitySpent'.streams = qualitySpent.streams
      <4>1. qualitySpent' = [qualitySpent EXCEPT !.sets = qualitySpent.sets + 1]
        BY <1>2 DEF Authorize
      <4> QED BY <1>0, <4>1
    <3> QED BY <1>0, <1>2, <3>3, <3>4 DEF Authorize, QualityTypeOK, doc, agentVars
  <2> QED BY <1>2, <2>1, QuietQuality DEF Authorize, doc, agentVars
<1>3. CASE SendWish(t)
  <2>1. WishOf(t) \in WishRecord
    BY <1>0 DEF WishOf, WishRecord, InTab
  <2>2. QualityTypeOK'
    BY <1>0, <1>1, <1>3, <2>1 DEF SendWish, Refuse, QualityTypeOK, doc, agentVars
  <2> QED BY <1>3, <2>2, QuietQuality DEF SendWish, doc, agentVars
<1>4. CASE SendFails(t)
  <2>1. tab' \in [Tabs -> InTab]
    BY <1>0, <1>1, <1>4 DEF SendFails, Refuse, QualityTypeOK, InTab
  <2>2. QualityTypeOK' /\ qualitySpent'.streams = qualitySpent.streams
    BY <1>0, <1>4, <2>1 DEF SendFails, QualityTypeOK, doc, agentVars
  <2> QED BY <1>4, <2>2, QuietQuality DEF SendFails, doc, agentVars
<1>5. CASE MarkFailed(t)
  <2>1. /\ pending' \in KeptWish /\ pending'.stream = pending.stream
        /\ pending'.gen = pending.gen /\ pending'.target = pending.target
    BY <1>0, <1>5 DEF MarkFailed, KeptWish
  <2>2. QualityTypeOK'
    BY <1>0, <1>1, <1>5, <2>1 DEF MarkFailed, Refuse, QualityTypeOK, agentVars
  <2> QED BY <1>5, <2>1, <2>2, QuietQuality DEF MarkFailed, agentVars
<1> QED BY <1>2, <1>3, <1>4, <1>5

LEMMA AgentCarries ==
  ASSUME QualityInv, NEW c \in sent, Carry(c)
  PROVE  QualityInv'
<1>0. QualityTypeOK /\ c \in WishRecord /\ agent \in ShownReport
  BY DEF QualityInv, QualityTypeOK
<1>1. c = [stream |-> c.stream, gen |-> c.gen, target |-> c.target]
  BY <1>0 DEF WishRecord
<1>2. UNCHANGED <<source, running, leased, doc, tab, jobs, issued, sent, qualitySpent>>
  BY DEF Carry
<1>3. done \subseteq done' /\ done' \subseteq WishRecord
  BY <1>0 DEF Carry, QualityTypeOK
<1>4. agent' \in ShownReport /\ TrulyApplied(agent)'
  <2>1. CASE Carried(c, "applied") /\ done' = done \cup {c}
    <3>1. agent' \in ShownReport
      BY <1>0, <2>1 DEF Carried, ShownReport, WishRecord
    <3>2. agent'.stream = c.stream /\ agent'.gen = c.gen /\ agent'.target = c.target
      BY <1>0, <2>1 DEF Carried, ShownReport, Carry
    <3> QED BY <1>1, <2>1, <3>1, <3>2 DEF TrulyApplied
  <2>2. CASE Carried(c, "unsupported")
    BY <1>0, <2>2 DEF Carried, ShownReport, WishRecord, TrulyApplied
  <2>3. CASE agent' = agent
    BY <1>0, <1>3, <2>3 DEF TrulyApplied, QualityInv
  <2> QED BY <2>1, <2>2, <2>3 DEF Carry
<1>5. upward' \subseteq ReportMessage \cup NackMessage
  <2>1. [kind |-> "nack", stream |-> c.stream, gen |-> c.gen] \in NackMessage
    BY <1>0 DEF WishRecord, NackMessage
  <2> QED BY <1>0, <2>1 DEF Carry, Said, QualityTypeOK
<1>6. \A m \in upward' : m.kind = "report" => TrulyApplied(m)'
  <2> SUFFICES ASSUME NEW m \in upward', m.kind = "report" PROVE TrulyApplied(m)'
    OBVIOUS
  <2>1. m \in upward
    BY DEF Carry, Said
  <2> QED BY <2>1, <1>3 DEF QualityInv, TrulyApplied
<1>7. QualityTypeOK'
  BY <1>0, <1>2, <1>3, <1>4, <1>5 DEF QualityTypeOK, doc
<1>8. Numbered' /\ ReportKnown' /\ TrulyApplied(report)'
  BY <1>2, <1>3 DEF QualityInv, Numbered, ReportKnown, LastGeneration, TrulyApplied, doc
<1> QED BY <1>4, <1>6, <1>7, <1>8 DEF QualityInv

LEMMA AgentReports == QualityInv /\ Report => QualityInv'
<1> SUFFICES ASSUME QualityInv, Report PROVE QualityInv'
  OBVIOUS
<1>0. QualityTypeOK /\ agent \in ShownReport /\ TrulyApplied(agent)
  BY DEF QualityInv, QualityTypeOK
<1> DEFINE m == [kind |-> "report", stream |-> agent.stream, gen |-> agent.gen,
                 target |-> agent.target, sample |-> agent.sample + 1,
                 status |-> IF agent.gen = 0 THEN "applied" ELSE agent.status]
<1>1. /\ upward' = upward \cup {m} /\ agent' = [agent EXCEPT !.sample = @ + 1]
      /\ UNCHANGED <<source, running, leased, doc, tab, jobs, issued, sent, done,
                     qualitySpent>>
  BY DEF Report, Said
<1>2. m \in ReportMessage
  BY <1>0 DEF ReportMessage, ShownReport
<1>3. m.status = "applied" /\ m.gen > 0 =>
        [stream |-> m.stream, gen |-> m.gen, target |-> m.target] \in done
  BY <1>0 DEF TrulyApplied, ShownReport
<1>4. agent' \in ShownReport /\ TrulyApplied(agent)'
  BY <1>0, <1>1 DEF TrulyApplied, ShownReport
<1> HIDE DEF m
<1>5. QualityTypeOK'
  BY <1>0, <1>1, <1>2, <1>4 DEF QualityTypeOK, doc
<1>6. \A x \in upward' : x.kind = "report" => TrulyApplied(x)'
  BY <1>1, <1>3 DEF QualityInv, TrulyApplied
<1>7. Numbered' /\ ReportKnown' /\ TrulyApplied(report)'
  BY <1>1 DEF QualityInv, Numbered, ReportKnown, LastGeneration, TrulyApplied, doc
<1> QED BY <1>4, <1>5, <1>6, <1>7 DEF QualityInv

LEMMA AcceptsReport ==
  ASSUME QualityInv, NEW m \in upward, Accept(m)
  PROVE  QualityInv'
<1>0. QualityTypeOK /\ m.kind = "report" /\ Fits(m) /\ TrulyApplied(m)
  BY DEF QualityInv, Accept
<1>1. m \in ReportMessage
  BY <1>0 DEF QualityTypeOK, NackMessage
<1>2. /\ report' \in ShownReport /\ report'.stream = m.stream /\ report'.gen = m.gen
      /\ report'.target = m.target /\ report'.status = m.status
  BY <1>1 DEF Accept, ReportMessage, ShownReport
<1>3. UNCHANGED <<source, running, leased, pending, tab, jobs, issued, sent, agentVars,
                  qualitySpent>>
  BY DEF Accept
<1>4. QualityTypeOK'
  BY <1>0, <1>2, <1>3 DEF QualityTypeOK, agentVars
<1>5. Numbered'
  BY <1>0, <1>2, <1>3 DEF QualityInv, Numbered, Fits
<1>6. ReportKnown'
  BY <1>0, <1>2, <1>3 DEF ReportKnown, LastGeneration, Fits
<1>7. /\ TrulyApplied(agent)' /\ TrulyApplied(report)'
      /\ \A x \in upward' : x.kind = "report" => TrulyApplied(x)'
  BY <1>0, <1>2, <1>3 DEF QualityInv, TrulyApplied, agentVars
<1> QED BY <1>4, <1>5, <1>6, <1>7 DEF QualityInv

LEMMA QualityPreserves == QualityInv /\ [QualityNext]_qualityVars => QualityInv'
<1> SUFFICES ASSUME QualityInv, [QualityNext]_qualityVars PROVE QualityInv'
  OBVIOUS
<1>0. QualityTypeOK /\ pending \in KeptWish /\ jobs \subseteq WishRecord /\ running \in Nat
  BY DEF QualityInv, QualityTypeOK
<1>1. CASE StopStream
  <2>1. QualityTypeOK'
    BY <1>0, <1>1 DEF StopStream, QualityTypeOK, doc, agentVars
  <2>2. Numbered' /\ ReportKnown'
    BY <1>0, <1>1 DEF StopStream, QualityInv, QualityTypeOK, Numbered, ReportKnown, doc, ShownReport
  <2>3. /\ TrulyApplied(agent)' /\ TrulyApplied(report)'
        /\ \A x \in upward' : x.kind = "report" => TrulyApplied(x)'
    BY <1>1 DEF StopStream, QualityInv, TrulyApplied, agentVars, doc
  <2> QED BY <2>1, <2>2, <2>3 DEF QualityInv
<1>2. CASE LoseLease
  <2>1. QualityTypeOK'
    BY <1>0, <1>2 DEF LoseLease, QualityTypeOK, doc, agentVars
  <2> QED BY <1>2, <2>1, QuietQuality DEF LoseLease, doc, agentVars
<1>3. CASE Overdue
  <2>1. /\ pending' \in KeptWish /\ pending'.stream = pending.stream
        /\ pending'.gen = pending.gen /\ pending'.target = pending.target
    BY <1>0, <1>3 DEF Overdue, KeptWish
  <2>2. QualityTypeOK'
    BY <1>0, <1>3, <2>1 DEF Overdue, QualityTypeOK, agentVars
  <2> QED BY <1>3, <2>1, <2>2, QuietQuality DEF Overdue, agentVars
<1>4. ASSUME NEW j \in jobs, Issue(j) PROVE QualityInv'
  <2>1. j.gen \in Nat /\ j \in WishRecord
    BY <1>0 DEF WishRecord
  <2>2. QualityTypeOK'
    BY <1>0, <1>4, <2>1 DEF Issue, QualityTypeOK, doc, agentVars
  <2> QED BY <1>4, <2>2, QuietQuality DEF Issue, doc, agentVars
<1>5. ASSUME NEW m \in upward, Reply(m) PROVE QualityInv'
  <2>1. /\ pending' \in KeptWish /\ pending'.stream = pending.stream
        /\ pending'.gen = pending.gen /\ pending'.target = pending.target
    BY <1>0, <1>5 DEF Reply, KeptWish
  <2>2. QualityTypeOK'
    BY <1>0, <1>5, <2>1 DEF Reply, QualityTypeOK, agentVars
  <2> QED BY <1>5, <2>1, <2>2, QuietQuality DEF Reply, agentVars
<1>6. ASSUME NEW t \in Tabs,
             (\E target \in Targets : Authorize(t, target)) \/ SendWish(t)
               \/ SendFails(t) \/ MarkFailed(t)
      PROVE  QualityInv'
  BY <1>6, TabKeeps
<1>7. CASE UNCHANGED qualityVars
  <2>1. QualityTypeOK'
    BY <1>0, <1>7 DEF qualityVars, QualityTypeOK
  <2> QED BY <1>7, <2>1, QuietQuality DEF qualityVars
<1> QED BY <1>1, <1>2, <1>3, <1>4, <1>5, <1>6, <1>7, StartStreamKeeps, ReservesWish,
           AgentCarries, AgentReports, AcceptsReport
    DEF QualityNext

\* Reports, shown or under way, that say a wish was applied are true, and the report that
\* is shown is of no wish newer than the last.
THEOREM QualityInvariant == QualitySpec => []QualityInv
BY QualityStarts, QualityPreserves, PTL DEF QualitySpec

\* The last report that is shown is of the last wish.
LEMMA ShownIsAsked == QualityInv => AppliedIsAsked
<1> SUFFICES ASSUME QualityInv, Status = "applied", Wish.gen > 0
             PROVE  [stream |-> running, gen |-> Wish.gen, target |-> Wish.target] \in done
  BY DEF AppliedIsAsked
<1>1. running # 0 /\ report.stream = running
  BY DEF Status
<1>2. pending.stream = running /\ Wish = pending
  BY DEF Wish, NoPending
<1>3. report.status = "applied" /\ ~(pending.gen > report.gen)
  BY <1>1, <1>2 DEF Status
<1>4. LastGeneration = pending.gen
  BY <1>2 DEF LastGeneration
<1>5. report.gen = pending.gen /\ report.target = pending.target
  <2>1. report.gen \in Nat /\ pending.gen \in Nat
    BY DEF QualityInv, QualityTypeOK, ShownReport, KeptWish
  <2>2. report.gen = pending.gen
    BY <1>1, <1>3, <1>4, <2>1 DEF QualityInv, ReportKnown
  <2> QED BY <1>1, <1>2, <1>3, <1>4, <2>2 DEF QualityInv, ReportKnown
<1> QED BY <1>1, <1>2, <1>3, <1>5 DEF QualityInv, TrulyApplied

\* What is shown as applied, of the last wish, is what was asked for last, and the agent
\* has done it, for any number of tabs and streams and any order of the reports.
THEOREM AppliedWasAsked == QualitySpec => []AppliedIsAsked
BY ShownIsAsked, QualityInvariant, PTL

-----------------------------------------------------------------------------
(* The relay of moves and commands.  A move without an outcome is in one    *)
(* place, the queue or the hands of the worker, and only a move that came  *)
(* before another is replaced: so when both are empty the last move was    *)
(* published, refused or has failed.                                       *)

Outcomes == {"queued", "replaced", "published", "refused", "failed"}

RelayTypeOK ==
  /\ outcome \in Seq(Outcomes)
  /\ moves = <<>> \/ \E n \in DOMAIN outcome : moves = <<n>>
  /\ mover \in [step: {"idle", "check", "publish"}, n: Nat]

\* The move that is in the queue, the one the worker has.
Waits(i) == moves = <<i>>
Carries(i) == mover.step # "idle" /\ mover.n = i

\* Every move is in one place while it has no outcome, and in none afterwards.
Accounted ==
  /\ \A i \in DOMAIN outcome : outcome[i] = "queued" <=> Waits(i) \/ Carries(i)
  /\ \A i \in DOMAIN outcome : ~(Waits(i) /\ Carries(i))
  /\ mover.step # "idle" => mover.n \in DOMAIN outcome

\* Only a move that came before another is replaced.
LastNotReplaced == outcome # <<>> => outcome[Len(outcome)] # "replaced"

RelayInv == RelayTypeOK /\ Accounted /\ LastNotReplaced

LEMMA RelayStarts == RelayInit => RelayInv
BY DEF RelayInit, RelayInv, RelayTypeOK, Accounted, LastNotReplaced, Still, Waits, Carries

LEMMA MoveQueued == RelayInv /\ Move => RelayInv'
<1> SUFFICES ASSUME RelayInv, Move PROVE RelayInv'
  OBVIOUS
<1> DEFINE n == Len(outcome)
           old == [i \in DOMAIN outcome |-> IF moves = <<i>> THEN "replaced" ELSE outcome[i]]
<1>1. /\ outcome \in Seq(Outcomes) /\ n \in Nat /\ DOMAIN outcome = 1..n
      /\ \A i \in 1..n : outcome[i] \in Outcomes
  BY DEF RelayInv, RelayTypeOK
<1>2. outcome' = Append(old, "queued") /\ moves' = <<n + 1>> /\ mover' = mover
  BY DEF Move, LatestMove
<1>3. old \in Seq(Outcomes) /\ Len(old) = n
  <2>1. old \in [1..n -> Outcomes]
    BY <1>1 DEF Outcomes
  <2> HIDE DEF old
  <2> QED BY <1>1, <2>1
<1>4. \A i \in 1..n : old[i] = IF moves = <<i>> THEN "replaced" ELSE outcome[i]
  BY <1>1
<1> HIDE DEF old
<1>5. /\ outcome' \in Seq(Outcomes) /\ DOMAIN outcome' = 1..(n + 1) /\ Len(outcome') = n + 1
      /\ outcome'[n + 1] = "queued"
      /\ \A i \in 1..n : outcome'[i] = old[i]
  BY <1>1, <1>2, <1>3 DEF Outcomes
<1>6. RelayTypeOK'
  BY <1>1, <1>2, <1>5 DEF RelayInv, RelayTypeOK
<1>7. Accounted'
  <2>1. mover.step # "idle" => mover.n \in 1..n
    BY <1>1 DEF RelayInv, Accounted
  <2>2. ASSUME NEW i \in 1..n
        PROVE  /\ outcome'[i] = "queued" <=> Carries(i)
               /\ ~Waits(i)' /\ Carries(i)' = Carries(i)
    <3>1. moves' # <<i>> /\ (Carries(i)' <=> Carries(i))
      BY <1>1, <1>2 DEF Carries
    <3>2. outcome'[i] = IF moves = <<i>> THEN "replaced" ELSE outcome[i]
      BY <1>4, <1>5
    <3> QED BY <1>1, <3>1, <3>2 DEF RelayInv, Accounted, Waits, Carries
  <2>3. ASSUME NEW i \in DOMAIN outcome'
        PROVE  /\ outcome'[i] = "queued" <=> Waits(i)' \/ Carries(i)'
               /\ ~(Waits(i)' /\ Carries(i)')
    <3>1. CASE i \in 1..n
      BY <2>2, <3>1
    <3>2. CASE i = n + 1
      <4>1. Waits(i)' /\ outcome'[i] = "queued"
        BY <1>2, <1>5, <3>2 DEF Waits
      <4>2. ~Carries(i)'
        BY <1>1, <1>2, <2>1, <3>2 DEF Carries
      <4> QED BY <4>1, <4>2
    <3> QED BY <1>1, <1>5, <3>1, <3>2
  <2>4. mover'.step # "idle" => mover'.n \in DOMAIN outcome'
    BY <1>1, <1>2, <1>5, <2>1
  <2> QED BY <2>3, <2>4 DEF Accounted
<1>8. LastNotReplaced'
  BY <1>5 DEF LastNotReplaced
<1> QED BY <1>6, <1>7, <1>8 DEF RelayInv

LEMMA MoveTaken == RelayInv /\ TakeMove => RelayInv'
<1> SUFFICES ASSUME RelayInv, TakeMove PROVE RelayInv'
  OBVIOUS
<1>1. PICK n \in DOMAIN outcome : moves = <<n>>
  BY DEF TakeMove, RelayInv, RelayTypeOK
<1>2. DOMAIN outcome \subseteq Nat /\ n \in Nat
  <2>1. outcome \in Seq(Outcomes)
    BY DEF RelayInv, RelayTypeOK
  <2> QED BY <2>1
<1>3. /\ outcome' = outcome /\ moves' = <<>> /\ mover.step = "idle"
      /\ mover' = [step |-> "check", n |-> n]
  BY <1>1 DEF TakeMove
<1>4. RelayTypeOK' /\ LastNotReplaced'
  BY <1>2, <1>3 DEF RelayInv, RelayTypeOK, LastNotReplaced
<1>5. Accounted'
  <2>1. \A i \in DOMAIN outcome : Carries(i)' <=> Waits(i)
    BY <1>1, <1>2, <1>3 DEF Carries, Waits
  <2>2. \A i \in DOMAIN outcome : ~Carries(i) /\ ~Waits(i)'
    BY <1>3 DEF Carries, Waits
  <2> QED BY <1>1, <1>3, <2>1, <2>2 DEF RelayInv, Accounted
<1> QED BY <1>4, <1>5 DEF RelayInv

LEMMA MoveSettled ==
  ASSUME RelayInv, mover.step # "idle", NEW what \in {"published", "refused", "failed"},
         Settle(mover.n, what), UNCHANGED moves
  PROVE  RelayInv'
<1> DEFINE n == mover.n
<1>1. /\ outcome \in Seq(Outcomes) /\ n \in DOMAIN outcome
      /\ outcome' = [outcome EXCEPT ![n] = what] /\ mover' = Still
  BY DEF RelayInv, RelayTypeOK, Accounted, Settle
<1>2. /\ outcome' \in Seq(Outcomes) /\ DOMAIN outcome' = DOMAIN outcome
      /\ Len(outcome') = Len(outcome) /\ (outcome' = <<>> <=> outcome = <<>>)
      /\ \A i \in DOMAIN outcome : outcome'[i] = IF i = n THEN what ELSE outcome[i]
  BY <1>1 DEF Outcomes
<1>3. mover' \in [step: {"idle", "check", "publish"}, n: Nat] /\ mover'.step = "idle"
  BY <1>1 DEF Still
<1>4. RelayTypeOK'
  BY <1>2, <1>3 DEF RelayInv, RelayTypeOK
<1>5. \A i \in DOMAIN outcome : ~Carries(i)' /\ (Waits(i)' <=> Waits(i))
  BY <1>3 DEF Carries, Waits
<1>6. Carries(n) /\ \A i \in DOMAIN outcome : i # n => ~Carries(i)
  BY DEF Carries
<1>7. Accounted'
  BY <1>1, <1>2, <1>3, <1>5, <1>6 DEF RelayInv, Accounted
<1>8. LastNotReplaced'
  <2> SUFFICES ASSUME outcome # <<>> PROVE outcome'[Len(outcome)] # "replaced"
    BY <1>2 DEF LastNotReplaced
  <2>1. Len(outcome) \in DOMAIN outcome
    BY <1>1
  <2> QED BY <1>2, <2>1 DEF RelayInv, LastNotReplaced
<1> QED BY <1>4, <1>7, <1>8 DEF RelayInv

\* The worker goes on with the move it has, or everything stays.
LEMMA MovesStay ==
  ASSUME RelayInv, UNCHANGED <<outcome, moves>>,
         \/ mover' = mover
         \/ mover.step # "idle" /\ mover' = [mover EXCEPT !.step = "publish"]
  PROVE  RelayInv'
<1>1. /\ mover' \in [step: {"idle", "check", "publish"}, n: Nat]
      /\ mover'.n = mover.n /\ (mover'.step = "idle" <=> mover.step = "idle")
  BY DEF RelayInv, RelayTypeOK
<1> QED BY <1>1 DEF RelayInv, RelayTypeOK, Accounted, LastNotReplaced, Waits, Carries

LEMMA RelayPreserves == RelayInv /\ [RelayNext]_relayVars => RelayInv'
<1> SUFFICES ASSUME RelayInv, [RelayNext]_relayVars PROVE RelayInv'
  OBVIOUS
<1>1. CASE CheckMove
  <2>1. CASE Settle(mover.n, "refused")
    BY <1>1, <2>1, MoveSettled DEF CheckMove
  <2>2. CASE mover' = [mover EXCEPT !.step = "publish"] /\ UNCHANGED <<outcome, said>>
    BY <1>1, <2>2, MovesStay DEF CheckMove
  <2> QED BY <1>1, <2>1, <2>2 DEF CheckMove
<1>2. CASE PublishMove
  BY <1>2, MoveSettled DEF PublishMove
<1>3. CASE \/ MoveRefused \/ (\E k \in Commands : Command(k))
           \/ CheckCommand \/ PublishCommand \/ AnswerCommand
           \/ SendNext \/ Event \/ RevokeInput \/ LeaseExpires \/ TellRevoked \/ LeaveSocket
           \/ CloseSocket \/ SecondPasses \/ UNCHANGED relayVars
  <2>1. UNCHANGED <<outcome, moves, mover>>
    BY <1>3 DEF MoveRefused, Command, CheckCommand, PublishCommand, AnswerCommand, SendNext,
                Event, RevokeInput, LeaseExpires, TellRevoked, LeaveSocket, CloseSocket,
                SecondPasses, relayVars
  <2> QED BY <2>1, MovesStay
<1> QED BY <1>1, <1>2, <1>3, MoveQueued, MoveTaken DEF RelayNext

\* Each move has an outcome, or is in the queue or with the worker, and not in both.
THEOREM MovesAccounted == RelaySpec => []RelayInv
BY RelayStarts, RelayPreserves, PTL DEF RelaySpec

LEMMA CaughtUp == RelayInv => LastMoveSettled
<1> SUFFICES ASSUME RelayInv, moves = <<>>, mover.step = "idle", outcome # <<>>
             PROVE  outcome[Len(outcome)] \in {"published", "refused", "failed"}
  BY DEF LastMoveSettled
<1>1. outcome \in Seq(Outcomes) /\ Len(outcome) \in DOMAIN outcome
  BY DEF RelayInv, RelayTypeOK
<1>2. outcome[Len(outcome)] \in Outcomes
  BY <1>1
<1>3. ~Waits(Len(outcome)) /\ ~Carries(Len(outcome))
  BY DEF Waits, Carries
<1>4. outcome[Len(outcome)] # "queued"
  BY <1>1, <1>3 DEF RelayInv, Accounted
<1> QED BY <1>2, <1>4 DEF RelayInv, LastNotReplaced, Outcomes

\* When the relay is at rest, the last move of the operator was settled and was not
\* replaced by an earlier one, for a queue of any length and any failures.
THEOREM LastMoveIsSettled == RelaySpec => []LastMoveSettled
BY CaughtUp, MovesAccounted, PTL

-----------------------------------------------------------------------------
(* Presence.  A row that says online carries the minute at which an online  *)
(* presence came in, whichever handler wrote it, through however many      *)
(* reads and writes it went: so no view says online of a device that was   *)
(* not heard within the time after which it is stale.                      *)

\* The streams that are spoken of, and that there is none.
Streams == Events \cup {p.stream : p \in Presences}
StreamDoc == [state: {"none", "stopped"} \cup {s.state : s \in Streams},
              instance: {NoInstance} \cup {s.instance : s \in Streams}]
DeviceRow == [kept: BOOLEAN, online: BOOLEAN, ts: Nat, desktop: BOOLEAN, inv: BOOLEAN,
              stream: StreamDoc, at: Nat]
ShownView == [online: BOOLEAN, inventory: {"none", "listed", "desktop", "empty"},
              stream: StreamDoc]
Task == [op: {"none", "presence", "event", "inventory"},
         step: {"idle", "read", "list", "look", "set", "write", "expire", "reread",
                "rewrite", "view", "put"},
         at: Nat, row: DeviceRow, view: ShownView]
Watching == [state: {"off", "subscribed", "reading", "open"}, row: DeviceRow, at: Nat]

PresenceTypeOK ==
  /\ minute \in Nat /\ life \in Nat \ {0}
  /\ key \in DeviceRow /\ stream \in StreamDoc /\ listed \in BOOLEAN
  /\ task \in [Handlers -> Task]
  /\ watch \in Watching
  /\ views \in Seq(ShownView) /\ last \in ShownView
  /\ heard \subseteq Nat
  /\ presenceSpent \in [messages: Nat, fails: Nat]

\* An online row carries the time of an online presence that came in.
Vouched(row, times, t) == row.kept /\ row.online => row.at \in times /\ row.at <= t

PresenceInv ==
  /\ PresenceTypeOK
  /\ Vouched(key, heard, minute) /\ Vouched(watch.row, heard, minute)
  /\ \A h \in Handlers : Vouched(task[h].row, heard, minute)

\* Streams, rows and views that say nothing have their types.
LEMMA StreamsForm == Streams \subseteq StreamDoc
<1> SUFFICES ASSUME NEW s \in Streams PROVE s \in StreamDoc
  OBVIOUS
<1>1. s = [state |-> s.state, instance |-> s.instance]
  BY PresenceAssumption DEF Streams
<1> QED BY <1>1 DEF StreamDoc

LEMMA EmptyForms ==
  /\ NoStream \in StreamDoc /\ Default \in StreamDoc
  /\ NoKey \in DeviceRow /\ NoView \in ShownView /\ NoTask \in Task /\ Off \in Watching
  /\ NoTask.row = NoKey /\ Off.row = NoKey
  /\ ~NoKey.kept
<1>1. NoStream \in StreamDoc /\ Default \in StreamDoc
  BY DEF NoStream, Default, NoInstance, StreamDoc
<1>2. NoKey \in DeviceRow /\ ~NoKey.kept
  BY <1>1 DEF NoKey, DeviceRow
<1>3. NoView \in ShownView
  BY <1>1 DEF NoView, ShownView
<1>4. NoTask \in Task /\ NoTask.row = NoKey
  BY <1>2, <1>3 DEF NoTask, Task
<1>5. Off \in Watching /\ Off.row = NoKey
  BY <1>2 DEF Off, Watching
<1> QED BY <1>1, <1>2, <1>3, <1>4, <1>5

LEMMA NoKeyVouched == \A times, t : Vouched(NoKey, times, t)
BY EmptyForms DEF Vouched

LEMMA PresenceStarts == PresenceInit => PresenceInv
<1> SUFFICES ASSUME PresenceInit PROVE PresenceInv
  OBVIOUS
<1>1. NoExpiry \in Nat \ {0} /\ Stale \in Nat \ {0}
  BY PresenceAssumption DEF NoExpiry
<1>2. \A h \in Handlers : task[h] = NoTask
  BY DEF PresenceInit
<1>3. PresenceTypeOK
  <2>1. /\ minute \in Nat /\ life \in Nat \ {0} /\ key \in DeviceRow /\ stream \in StreamDoc
        /\ listed \in BOOLEAN /\ watch \in Watching /\ last \in ShownView
    BY <1>1, EmptyForms DEF PresenceInit
  <2>2. task \in [Handlers -> Task]
    BY EmptyForms DEF PresenceInit
  <2>3. /\ views \in Seq(ShownView) /\ heard \subseteq Nat
        /\ presenceSpent \in [messages: Nat, fails: Nat]
    BY DEF PresenceInit
  <2> QED BY <2>1, <2>2, <2>3 DEF PresenceTypeOK
<1> QED BY <1>2, <1>3, EmptyForms, NoKeyVouched DEF PresenceInit, PresenceInv

\* What a handler may go on with.
LEMMA TaskForm ==
  ASSUME PresenceTypeOK, NEW h \in Handlers
  PROVE  /\ task[h] \in Task /\ task[h].row \in DeviceRow /\ task[h].at \in Nat
         /\ task[h].row.stream \in StreamDoc
BY DEF PresenceTypeOK, Task, DeviceRow

\* A handler goes on with t; what else was vouched for is vouched for.
LEMMA TaskGoesOn ==
  ASSUME PresenceInv, NEW h \in Handlers, NEW t \in Task, task' = [task EXCEPT ![h] = t],
         minute' = minute, heard \subseteq heard', heard' \subseteq Nat,
         Vouched(t.row, heard', minute)
  PROVE  /\ task' \in [Handlers -> Task]
         /\ \A x \in Handlers : Vouched(task'[x].row, heard', minute')
<1>1. task \in [Handlers -> Task]
  BY DEF PresenceInv, PresenceTypeOK
<1>2. task' \in [Handlers -> Task]
  BY <1>1
<1>3. ASSUME NEW x \in Handlers PROVE Vouched(task'[x].row, heard', minute')
  <2>1. task'[x] = IF x = h THEN t ELSE task[x]
    BY <1>1
  <2> QED BY <2>1 DEF PresenceInv, Vouched
<1> QED BY <1>2, <1>3

\* Steps of a handler that leave the row in Redis and the watcher's as they are.
LEMMA QuietHandler ==
  ASSUME PresenceInv, NEW h \in Handlers, NEW t \in Task, task' = [task EXCEPT ![h] = t],
         Vouched(t.row, heard, minute),
         UNCHANGED <<minute, key, watch, heard, last>>,
         life' \in Nat \ {0}, stream' \in StreamDoc, listed' \in BOOLEAN,
         views' \in Seq(ShownView), presenceSpent' \in [messages: Nat, fails: Nat]
  PROVE  PresenceInv'
<1>1. heard \subseteq Nat /\ heard' = heard /\ minute' = minute
  BY DEF PresenceInv, PresenceTypeOK
<1>2. /\ task' \in [Handlers -> Task]
      /\ \A x \in Handlers : Vouched(task'[x].row, heard', minute')
  BY <1>1, TaskGoesOn
<1>3. PresenceTypeOK'
  BY <1>1, <1>2 DEF PresenceInv, PresenceTypeOK
<1> QED BY <1>1, <1>2, <1>3 DEF PresenceInv

\* A handler that moves on to another step, or ends, says nothing new.
LEMMA NextStep ==
  ASSUME PresenceInv, NEW h \in Handlers, NEW step,
         step \in {"list", "look", "set", "write", "expire", "reread", "rewrite", "view",
                   "put"}
  PROVE  LET t == [task[h] EXCEPT !.step = step] IN
         /\ t \in Task /\ Vouched(t.row, heard, minute)
         /\ TaskTo(h, step) => task' = [task EXCEPT ![h] = t]
<1>1. task[h] \in Task /\ task \in [Handlers -> Task]
  BY DEF PresenceInv, PresenceTypeOK
<1> QED BY <1>1 DEF PresenceInv, Task, TaskTo

LEMMA TaskDone ==
  ASSUME PresenceInv, NEW h \in Handlers, Done(h)
  PROVE  task' = [task EXCEPT ![h] = NoTask] /\ NoTask \in Task
         /\ Vouched(NoTask.row, heard, minute)
BY EmptyForms, NoKeyVouched DEF Done

\* A message comes in: what it says of being online is heard now.
LEMMA ArriveKeeps ==
  ASSUME PresenceInv, NEW h \in Handlers, NEW op \in {"presence", "event", "inventory"},
         NEW row \in DeviceRow, op # "presence" => ~row.kept, Arrive(h, op, row)
  PROVE  PresenceInv'
<1> DEFINE renewed == [row EXCEPT !.at = minute]
           t == [op |-> op, step |-> IF op = "inventory" THEN "list" ELSE "read",
                 at |-> minute, row |-> renewed, view |-> NoView]
<1>0. minute \in Nat /\ heard \subseteq Nat /\ presenceSpent \in [messages: Nat, fails: Nat]
  BY DEF PresenceInv, PresenceTypeOK
<1>1. renewed \in DeviceRow /\ renewed.online = row.online /\ renewed.kept = row.kept /\ renewed.at = minute
  BY <1>0 DEF DeviceRow
<1> HIDE DEF renewed
<1>2. t \in Task /\ t.row = renewed
  BY <1>0, <1>1, EmptyForms DEF Task
<1>3. /\ task' = [task EXCEPT ![h] = t]
      /\ heard' = IF op = "presence" /\ row.online THEN heard \cup {minute} ELSE heard
      /\ presenceSpent' = [presenceSpent EXCEPT !.messages = presenceSpent.messages + 1]
      /\ UNCHANGED <<minute, key, life, stream, listed, watch, views, last>>
  BY DEF Arrive, renewed
<1> HIDE DEF t
<1>4. Vouched(t.row, heard', minute)
  BY <1>0, <1>1, <1>2, <1>3 DEF Vouched
<1>5. heard \subseteq heard' /\ heard' \subseteq Nat
  BY <1>0, <1>3
<1>6. /\ task' \in [Handlers -> Task]
      /\ \A x \in Handlers : Vouched(task'[x].row, heard', minute')
  BY <1>2, <1>3, <1>4, <1>5, TaskGoesOn
<1>7. PresenceTypeOK'
  BY <1>0, <1>3, <1>5, <1>6 DEF PresenceInv, PresenceTypeOK
<1>8. Vouched(key, heard, minute)' /\ Vouched(watch.row, heard, minute)'
  BY <1>3, <1>5 DEF PresenceInv, Vouched
<1> QED BY <1>6, <1>7, <1>8 DEF PresenceInv

LEMMA MessagesKeep ==
  ASSUME PresenceInv, NEW h \in Handlers, Presence(h) \/ StreamEvent(h) \/ InventoryReply(h)
  PROVE  PresenceInv'
<1>1. CASE Presence(h)
  <2>1. PICK p \in Presences, v2 \in BOOLEAN :
          Arrive(h, "presence", [Message(p) EXCEPT !.stream = IF v2 THEN NoStream ELSE @])
    BY <1>1 DEF Presence
  <2>2. /\ p.online \in BOOLEAN /\ p.ts \in Nat /\ p.desktop \in BOOLEAN /\ p.inv \in BOOLEAN
        /\ p.stream \in StreamDoc
    BY PresenceAssumption, StreamsForm DEF Streams
  <2>3. Message(p) \in DeviceRow
    BY <2>2, EmptyForms DEF Message, DeviceRow
  <2>4. [Message(p) EXCEPT !.stream = IF v2 THEN NoStream ELSE @] \in DeviceRow
    BY <2>3, EmptyForms DEF DeviceRow
  <2> QED BY <2>1, <2>4, ArriveKeeps
<1>2. CASE StreamEvent(h)
  <2>1. PICK e \in Events : Arrive(h, "event", [NoKey EXCEPT !.stream = e])
    BY <1>2 DEF StreamEvent
  <2>2. e \in StreamDoc
    BY StreamsForm DEF Streams
  <2>3. [NoKey EXCEPT !.stream = e] \in DeviceRow /\ ~[NoKey EXCEPT !.stream = e].kept
    BY <2>2, EmptyForms DEF DeviceRow
  <2> QED BY <2>1, <2>3, ArriveKeeps
<1>3. CASE InventoryReply(h)
  <2>1. [NoKey EXCEPT !.inv = TRUE] \in DeviceRow /\ ~[NoKey EXCEPT !.inv = TRUE].kept
    BY EmptyForms DEF DeviceRow
  <2> QED BY <1>3, <2>1, ArriveKeeps DEF InventoryReply
<1> QED BY <1>1, <1>2, <1>3

LEMMA ReadsPresence ==
  ASSUME PresenceInv, NEW h \in Handlers,
         ReadPresence(h) \/ LookStream(h) \/ ReadStream(h) \/ ReRead(h)
  PROVE  PresenceInv'
<1>0. /\ life \in Nat \ {0} /\ stream \in StreamDoc /\ listed \in BOOLEAN /\ key \in DeviceRow
      /\ views \in Seq(ShownView) /\ presenceSpent \in [messages: Nat, fails: Nat]
      /\ task[h] \in Task /\ task[h].row \in DeviceRow /\ task[h].row.stream \in StreamDoc
      /\ Vouched(task[h].row, heard, minute) /\ Vouched(key, heard, minute)
  BY TaskForm DEF PresenceInv, PresenceTypeOK
<1>1. UNCHANGED <<minute, key, life, stream, listed, watch, views, last, heard, presenceSpent>>
  BY DEF ReadPresence, LookStream, ReadStream, ReRead
<1>2. CASE Done(h)
  BY <1>0, <1>1, <1>2, TaskDone, QuietHandler
<1>3. CASE \E step \in {"list", "look", "set", "write"} : TaskTo(h, step)
  <2> PICK step \in {"list", "look", "set", "write"} : TaskTo(h, step)
    BY <1>3
  <2> DEFINE t == [task[h] EXCEPT !.step = step]
  <2>1. t \in Task /\ Vouched(t.row, heard, minute) /\ task' = [task EXCEPT ![h] = t]
    BY NextStep
  <2> HIDE DEF t
  <2> QED BY <1>0, <1>1, <2>1, QuietHandler
<1>4. CASE ReadStream(h) /\ ~Done(h)
  <2> DEFINE cur == IF stream = NoStream THEN Default ELSE stream
             new == [task[h].row.stream EXCEPT !.instance =
                       IF @ = NoInstance THEN cur.instance ELSE @]
             row == [task[h].row EXCEPT !.stream = new]
             t == [task[h] EXCEPT !.step = "set", !.row = row]
  <2>1. new \in StreamDoc
    BY <1>0, EmptyForms DEF StreamDoc
  <2>2. task' = [task EXCEPT ![h] = t]
    <3>1. task' = [task EXCEPT ![h].step = "set",
                     ![h].row.stream.instance = IF @ = NoInstance THEN cur.instance
                                                ELSE @]
      BY <1>4 DEF ReadStream
    <3> QED BY <3>1, <1>0 DEF PresenceInv, PresenceTypeOK, Task
  <2> HIDE DEF new
  <2>3. /\ row \in DeviceRow /\ row.kept = task[h].row.kept
        /\ row.online = task[h].row.online /\ row.at = task[h].row.at
    BY <1>0, <2>1 DEF DeviceRow
  <2> HIDE DEF row
  <2>4. t \in Task /\ t.row = row
    BY <1>0, <2>3 DEF Task
  <2> HIDE DEF t
  <2>5. Vouched(t.row, heard, minute)
    BY <1>0, <2>3, <2>4 DEF Vouched
  <2> QED BY <1>0, <1>1, <2>2, <2>4, <2>5, QuietHandler
<1>5. CASE ReRead(h) /\ ~Done(h)
  <2> DEFINE t == [task[h] EXCEPT !.row = Merged(h), !.step = "rewrite"]
  <2>1. /\ Merged(h) \in DeviceRow /\ Merged(h).kept = key.kept
        /\ Merged(h).online = key.online /\ Merged(h).at = key.at
    BY <1>0 DEF Merged, DeviceRow
  <2>2. task' = [task EXCEPT ![h] = t]
    <3>1. task' = [task EXCEPT ![h].row = Merged(h), ![h].step = "rewrite"]
      BY <1>5 DEF ReRead
    <3> QED BY <3>1, <1>0 DEF PresenceInv, PresenceTypeOK, Task
  <2>3. t \in Task /\ t.row = Merged(h)
    BY <1>0, <2>1 DEF Task
  <2> HIDE DEF t
  <2>4. Vouched(t.row, heard, minute)
    BY <1>0, <2>1, <2>3 DEF Vouched
  <2> QED BY <1>0, <1>1, <2>2, <2>3, <2>4, QuietHandler
<1>6. ReadPresence(h) => Done(h) \/ \E step \in {"list", "look", "write", "set"} : TaskTo(h, step)
  BY DEF ReadPresence, AfterRead, AfterList
<1>7. LookStream(h) => \E step \in {"list", "look", "set", "write"} : TaskTo(h, step)
  BY DEF LookStream
<1> QED BY <1>2, <1>3, <1>4, <1>5, <1>6, <1>7

LEMMA SetsPresence ==
  ASSUME PresenceInv, NEW h \in Handlers,
         ListInventory(h) \/ SetStream(h) \/ ExpireKey(h) \/ PutView(h) \/ DropTask(h)
  PROVE  PresenceInv'
<1>0. /\ life \in Nat \ {0} /\ stream \in StreamDoc /\ listed \in BOOLEAN
      /\ views \in Seq(ShownView) /\ presenceSpent \in [messages: Nat, fails: Nat]
      /\ task[h] \in Task /\ task[h].view \in ShownView /\ task[h].row.stream \in StreamDoc
      /\ Stale \in Nat \ {0}
  BY TaskForm, PresenceAssumption DEF PresenceInv, PresenceTypeOK, Task
<1>1. UNCHANGED <<minute, key, watch, heard, last>>
  BY DEF ListInventory, SetStream, ExpireKey, PutView, DropTask
<1>2. /\ life' \in Nat \ {0} /\ stream' \in StreamDoc /\ listed' \in BOOLEAN
      /\ views' \in Seq(ShownView) /\ presenceSpent' \in [messages: Nat, fails: Nat]
  <2>1. CASE ListInventory(h)
    BY <1>0, <2>1 DEF ListInventory
  <2>2. CASE SetStream(h)
    BY <1>0, <2>2 DEF SetStream
  <2>3. CASE ExpireKey(h)
    BY <1>0, <2>3 DEF ExpireKey
  <2>4. CASE PutView(h)
    BY <1>0, <2>4 DEF PutView
  <2>5. CASE DropTask(h)
    <3>1. presenceSpent' = [presenceSpent EXCEPT !.fails = presenceSpent.fails + 1]
      BY <2>5 DEF DropTask
    <3> QED BY <1>0, <2>5, <3>1 DEF DropTask
  <2> QED BY <2>1, <2>2, <2>3, <2>4, <2>5
<1>3. Done(h) \/ \E step \in {"look", "write", "reread", "view"} : TaskTo(h, step)
  BY DEF ListInventory, SetStream, ExpireKey, PutView, DropTask, AfterList
<1>4. CASE Done(h)
  BY <1>1, <1>2, <1>4, TaskDone, QuietHandler
<1>5. CASE \E step \in {"look", "write", "reread", "view"} : TaskTo(h, step)
  <2> PICK step \in {"look", "write", "reread", "view"} : TaskTo(h, step)
    BY <1>5
  <2> DEFINE t == [task[h] EXCEPT !.step = step]
  <2>1. t \in Task /\ Vouched(t.row, heard, minute) /\ task' = [task EXCEPT ![h] = t]
    BY NextStep
  <2> HIDE DEF t
  <2> QED BY <1>1, <1>2, <2>1, QuietHandler
<1> QED BY <1>3, <1>4, <1>5

\* The row that is written was vouched for when the handler got it.
LEMMA WritesPresence ==
  ASSUME PresenceInv, NEW h \in Handlers, WriteRow(h) \/ ReWrite(h)
  PROVE  PresenceInv'
<1>0. /\ task[h].row \in DeviceRow /\ life \in Nat \ {0} /\ NoExpiry \in Nat \ {0} /\ heard \subseteq Nat
      /\ Vouched(task[h].row, heard, minute)
  BY SMTT(60), TaskForm, PresenceAssumption DEF PresenceInv, PresenceTypeOK, NoExpiry
<1>1. /\ UNCHANGED <<minute, stream, listed, watch, views, last, heard, presenceSpent>>
      /\ key' = task[h].row /\ life' \in Nat \ {0}
  BY <1>0 DEF WriteRow, ReWrite, SetRow
<1>2. Done(h) \/ \E step \in {"expire", "view"} : TaskTo(h, step)
  BY DEF WriteRow, ReWrite
<1>3. \E t \in Task : task' = [task EXCEPT ![h] = t] /\ Vouched(t.row, heard, minute)
  BY ZenonT(90), <1>2, TaskDone, NextStep
<1>4. /\ task' \in [Handlers -> Task]
      /\ \A x \in Handlers : Vouched(task'[x].row, heard', minute')
  BY <1>0, <1>1, <1>3, TaskGoesOn
<1>5. PresenceTypeOK'
  BY <1>0, <1>1, <1>4 DEF PresenceInv, PresenceTypeOK
<1> QED BY <1>0, <1>1, <1>4, <1>5 DEF PresenceInv

LEMMA ViewForm ==
  ASSUME PresenceTypeOK, NEW row \in DeviceRow, NEW t \in Nat
  PROVE  /\ View(row, t) \in ShownView
         /\ View(row, t).online => row.kept /\ row.online /\ t < row.at + Stale
<1>1. Stream(row) \in StreamDoc /\ Inventory(row) \in {"listed", "desktop", "empty"}
  BY EmptyForms DEF Stream, Inventory, DeviceRow, PresenceTypeOK
<1>2. CASE Online(row, t)
  BY <1>1, <1>2 DEF View, ShownView, Online
<1>3. CASE ~Online(row, t)
  BY <1>3, EmptyForms DEF View, NoView
<1> QED BY <1>2, <1>3

LEMMA MakesView ==
  ASSUME PresenceInv, NEW h \in Handlers, MakeView(h)
  PROVE  PresenceInv'
<1> DEFINE v == View(task[h].row, task[h].at)
           t == [task[h] EXCEPT !.view = v, !.step = "put"]
<1>0. /\ task[h] \in Task /\ Vouched(task[h].row, heard, minute) /\ v \in ShownView
      /\ task \in [Handlers -> Task]
  BY TaskForm, ViewForm DEF PresenceInv, PresenceTypeOK
<1>1. /\ UNCHANGED <<minute, key, life, stream, listed, watch, views, last, heard,
                     presenceSpent>>
      /\ task' = [task EXCEPT ![h].view = v, ![h].step = "put"]
  BY DEF MakeView
<1> HIDE DEF v
<1>2. task' = [task EXCEPT ![h] = t] /\ t \in Task /\ t.row = task[h].row
  BY <1>0, <1>1 DEF Task
<1> HIDE DEF t
<1> QED BY <1>0, <1>1, <1>2, QuietHandler DEF PresenceInv, PresenceTypeOK

LEMMA WatcherKeeps ==
  ASSUME PresenceInv, Connect \/ ReadSnapshot \/ Snapshot \/ Pass \/ Unwatch
  PROVE  PresenceInv'
<1>0. /\ PresenceTypeOK /\ watch \in Watching /\ key \in DeviceRow /\ minute \in Nat
      /\ views \in Seq(ShownView) /\ watch.row \in DeviceRow /\ watch.at \in Nat
  BY DEF PresenceInv, PresenceTypeOK, Watching
<1>1. UNCHANGED <<minute, key, life, stream, listed, task, heard, presenceSpent>>
  BY DEF Connect, ReadSnapshot, Snapshot, Pass, Unwatch
<1>2. /\ watch' \in Watching
      /\ watch'.row \in {watch.row, key, NoKey}
  <2>1. CASE Connect
    BY <1>0, <2>1 DEF Connect, Watching
  <2>2. CASE ReadSnapshot
    BY <1>0, <2>2 DEF ReadSnapshot, Watching
  <2>3. CASE Snapshot
    BY <2>3, EmptyForms DEF Snapshot, Watching
  <2>4. CASE Pass \/ Unwatch
    BY <1>0, <2>4, EmptyForms DEF Pass, Unwatch, Unsubscribed
  <2> QED BY <2>1, <2>2, <2>3, <2>4
<1>3. views' \in Seq(ShownView) /\ last' \in ShownView
  <2>0. last \in ShownView /\ <<>> \in Seq(ShownView) /\ NoView \in ShownView
    BY <1>0, EmptyForms DEF PresenceTypeOK
  <2>1. CASE Connect
    BY <2>0, <2>1 DEF Connect
  <2>2. CASE ReadSnapshot
    BY <1>0, <2>0, <2>2 DEF ReadSnapshot
  <2>3. CASE Snapshot
    BY <1>0, <2>3, ViewForm DEF Snapshot
  <2>4. CASE Pass
    <3>1. views # <<>> => Tail(views) \in Seq(ShownView) /\ Head(views) \in ShownView
      BY <1>0
    <3> QED BY <2>0, <2>4, <3>1 DEF Pass, Unsubscribed
  <2>5. CASE Unwatch
    BY <2>0, <2>5 DEF Unwatch, Unsubscribed
  <2> QED BY <2>1, <2>2, <2>3, <2>4, <2>5
<1>4. PresenceTypeOK'
  BY <1>0, <1>1, <1>2, <1>3 DEF PresenceTypeOK
<1> QED BY <1>1, <1>2, <1>4, NoKeyVouched DEF PresenceInv

LEMMA PresencePasses == PresenceInv /\ (MinutePasses \/ LapseStream) => PresenceInv'
<1> SUFFICES ASSUME PresenceInv, MinutePasses \/ LapseStream PROVE PresenceInv'
  OBVIOUS
<1>0. /\ PresenceTypeOK /\ minute \in Nat /\ life \in Nat \ {0} /\ NoExpiry \in Nat \ {0}
      /\ heard \subseteq Nat
  BY SMTT(60), PresenceAssumption DEF PresenceInv, PresenceTypeOK, NoExpiry
<1>1. CASE MinutePasses
  <2>1. /\ minute' = minute + 1 /\ key' \in {key, NoKey}
        /\ UNCHANGED <<stream, listed, task, watch, views, last, heard, presenceSpent>>
    BY <1>1 DEF MinutePasses
  <2>2. life' \in Nat \ {0}
    BY <1>0, <1>1 DEF MinutePasses
  <2>3. PresenceTypeOK'
    BY <1>0, <2>1, <2>2, EmptyForms DEF PresenceTypeOK
  <2>4. ASSUME NEW row, Vouched(row, heard, minute)
        PROVE  Vouched(row, heard, minute + 1)
    <3>1. ASSUME row.kept, row.online PROVE row.at \in heard /\ row.at <= minute + 1
      <4>1. row.at \in heard /\ row.at <= minute
        BY <2>4, <3>1 DEF Vouched
      <4>2. row.at \in Nat
        BY <1>0, <4>1
      <4> QED BY <1>0, <4>1, <4>2
    <3> QED BY <3>1 DEF Vouched
  <2>5. /\ Vouched(key', heard, minute + 1) /\ Vouched(watch.row, heard, minute + 1)
        /\ \A h \in Handlers : Vouched(task[h].row, heard, minute + 1)
    BY <2>1, <2>4, NoKeyVouched DEF PresenceInv
  <2> QED BY <2>1, <2>3, <2>5 DEF PresenceInv
<1>2. CASE LapseStream
  <2>1. PresenceTypeOK'
    BY <1>0, <1>2, EmptyForms DEF LapseStream, PresenceTypeOK
  <2> QED BY <1>2, <2>1 DEF LapseStream, PresenceInv
<1> QED BY <1>1, <1>2

LEMMA PresencePreserves == PresenceInv /\ [PresenceNext]_presenceVars => PresenceInv'
<1> SUFFICES ASSUME PresenceInv, [PresenceNext]_presenceVars PROVE PresenceInv'
  OBVIOUS
<1>1. ASSUME NEW h \in Handlers, Handle(h) PROVE PresenceInv'
  BY <1>1, MessagesKeep, ReadsPresence, SetsPresence, WritesPresence, MakesView DEF Handle
<1>2. CASE UNCHANGED presenceVars
  BY <1>2 DEF presenceVars, PresenceInv, PresenceTypeOK
<1> QED BY <1>1, <1>2, WatcherKeeps, PresencePasses DEF PresenceNext

\* Rows that say online, in Redis, in the hands of a handler and in the snapshot of the
\* watch socket, carry a time at which the device was heard.
THEOREM PresenceInvariant == PresenceSpec => []PresenceInv
BY PresenceStarts, PresencePreserves, PTL DEF PresenceSpec

\* An online view is made of a row that is vouched for.
LEMMA OnlineHeard ==
  ASSUME PresenceInv, NEW row \in DeviceRow, NEW t \in Nat, Vouched(row, heard, minute),
         View(row, t).online
  PROVE  Heard(t)
<1>1. row.kept /\ row.online /\ t < row.at + Stale
  BY ViewForm DEF PresenceInv
<1> QED BY <1>1 DEF Vouched, Heard

\* A view says online only of a device that was heard within the stale time, for any
\* number of handlers and messages and any interleaving of their reads and writes.
THEOREM OnlineWasHeard == PresenceSpec => OnlineMeansHeard
<1> DEFINE Honest == /\ \A h \in Handlers : MakeView(h) /\ task'[h].view.online => Heard(task[h].at)
                     /\ Snapshot /\ last'.online => Heard(watch.at)
<1>1. PresenceInv => Honest
  <2> SUFFICES ASSUME PresenceInv PROVE Honest
    OBVIOUS
  <2>1. ASSUME NEW h \in Handlers, MakeView(h), task'[h].view.online
        PROVE  Heard(task[h].at)
    <3>1. /\ task[h] \in Task /\ task \in [Handlers -> Task] /\ task[h].row \in DeviceRow
          /\ task[h].at \in Nat /\ Vouched(task[h].row, heard, minute)
      BY TaskForm DEF PresenceInv, PresenceTypeOK
    <3>2. task' = [task EXCEPT ![h].view = View(task[h].row, task[h].at), ![h].step = "put"]
      BY <2>1 DEF MakeView
    <3>3. task'[h].view = View(task[h].row, task[h].at)
      BY <3>1, <3>2 DEF Task
    <3> QED BY <2>1, <3>1, <3>3, OnlineHeard
  <2>2. ASSUME Snapshot, last'.online PROVE Heard(watch.at)
    <3>1. /\ watch.row \in DeviceRow /\ watch.at \in Nat
          /\ Vouched(watch.row, heard, minute)
      BY DEF PresenceInv, PresenceTypeOK, Watching
    <3> QED BY <2>2, <3>1, OnlineHeard DEF Snapshot
  <2> QED BY <2>1, <2>2
<1>2. PresenceSpec => [][Honest]_presenceVars
  BY <1>1, PresenceInvariant, PTL DEF PresenceSpec
<1> QED BY <1>2 DEF OnlineMeansHeard

-----------------------------------------------------------------------------
(* Billing.  A month has a version, which is newer whenever something it    *)
(* is billed by changes.  If the version is the one a calculation began    *)
(* with, all the calculation has read, in whatever order with counts,      *)
(* prices and other calculations, is still so; and a row that was saved    *)
(* with that version is right.                                             *)

AnyPrice == Prices \cup {DefaultPrice}
SeenIn(act, o, m) == {d \in Devices : <<o, m, d>> \in act}

\* The price p is the one that the coefficients give for the month m.
PriceIs(prices, p, m) ==
  \/ \E r \in prices :
       /\ r.k = p /\ r.from <= FirstDay(m)
       /\ \A s \in prices : r.from < s.from => FirstDay(m) < s.from
  \/ p = DefaultPrice /\ \A s \in prices : FirstDay(m) < s.from

RowForm(row) ==
  row = [kept |-> row.kept, api |-> row.api, evt |-> row.evt, res |-> row.res,
         blocks |-> row.blocks, devices |-> row.devices, result |-> row.result,
         basis |-> row.basis]
CalcForm(x) ==
  x = [step |-> x.step, month |-> x.month, price |-> x.price, orgs |-> x.orgs,
       org |-> x.org, devices |-> x.devices, row |-> x.row, basis |-> x.basis]
SameCounts(row, other) ==
  row.api = other.api /\ row.evt = other.evt /\ row.blocks = other.blocks

\* What a calculation has read is still so.
Current(x, prices, act, rows) ==
  /\ x.step \in {"orgs", "next", "read", "save"} => PriceIs(prices, x.price, x.month)
  /\ x.step \in {"read", "save"} => x.devices = Cardinality(SeenIn(act, x.org, x.month))
  /\ x.step = "save" => SameCounts(x.row, rows[<<x.org, x.month>>])

\* A calculation: if its month has not changed since it began, all it has read is so.
CalcOK(x, prices, act, rows, v) ==
  x.step # "idle" =>
    /\ x.month \in Months /\ x.price \in AnyPrice
    /\ x.step \in {"read", "save"} => x.org \in Orgs
    /\ x.basis \in Nat /\ x.basis <= v[x.month]
    /\ x.basis = v[x.month] => Current(x, prices, act, rows)

\* A row: if its month has not changed since the calculation began, the result is right.
RowOK(row, o, m, prices, act, v) ==
  /\ row.basis \in Nat /\ row.basis <= v[m]
  /\ row.result # NoResult /\ row.basis = v[m] =>
       \E p \in AnyPrice :
         row.result = {Charge(p, Cardinality(SeenIn(act, o, m)), row)} /\ PriceIs(prices, p, m)

\* Among the coefficients that are known at a date is a newest one.
HasLatest ==
  \A date \in Nat : Known(date) # {} =>
    \E r \in Known(date) : \A s \in Known(date) : s.from <= r.from

BillingTypeOK ==
  /\ DOMAIN counter = Orgs \X Months
  /\ \A o \in Orgs, m \in Months : RowForm(counter[<<o, m>>])
  /\ price \subseteq [from: Nat, k: AnyPrice]
  /\ DOMAIN calc = Calculations
  /\ \A c \in Calculations : CalcForm(calc[c])
  /\ change \in [Admins -> [step: {"idle", "look", "write"}, from: Nat, k: AnyPrice]]
  /\ version \in [Months -> Nat]

CalcsRight == \A c \in Calculations : CalcOK(calc[c], price, active, counter, version)
RowsRight ==
  \A o \in Orgs, m \in Months : RowOK(counter[<<o, m>>], o, m, price, active, version)

BillingInv == BillingTypeOK /\ HasLatest /\ CalcsRight /\ RowsRight

LEMMA RowsGiveResults == BillingInv => ResultTrue
<1> SUFFICES ASSUME BillingInv, NEW o \in Orgs, NEW m \in Months,
                    counter[<<o, m>>].result # NoResult, counter[<<o, m>>].basis = version[m]
             PROVE  \E p \in Prices \cup {DefaultPrice} :
                      /\ counter[<<o, m>>].result
                           = {Charge(p, Cardinality(Seen(o, m)), counter[<<o, m>>])}
                      /\ \/ \E r \in price :
                              /\ r.k = p /\ r.from <= FirstDay(m)
                              /\ \A s \in price : r.from < s.from => FirstDay(m) < s.from
                         \/ p = DefaultPrice /\ \A s \in price : FirstDay(m) < s.from
  BY DEF ResultTrue
<1>1. PICK p \in AnyPrice :
        /\ counter[<<o, m>>].result
             = {Charge(p, Cardinality(SeenIn(active, o, m)), counter[<<o, m>>])}
        /\ PriceIs(price, p, m)
  BY DEF BillingInv, RowsRight, RowOK
<1>2. Seen(o, m) = SeenIn(active, o, m)
  BY DEF Seen, SeenIn
<1> QED BY <1>1, <1>2 DEF AnyPrice, PriceIs

\* Nothing that the month m is billed by changes.
SameMonth(m, prices, act, rows, prices2, act2, rows2) ==
  /\ \A p \in AnyPrice : PriceIs(prices, p, m) => PriceIs(prices2, p, m)
  /\ \A o \in Orgs : /\ SeenIn(act2, o, m) = SeenIn(act, o, m)
                     /\ SameCounts(rows2[<<o, m>>], rows[<<o, m>>])

\* What a calculation has read stays so, or its month changes.
LEMMA CalcKeeps ==
  ASSUME NEW x, NEW prices, NEW act, NEW rows, NEW v, NEW prices2, NEW act2, NEW rows2,
         NEW v2 \in [Months -> Nat], v \in [Months -> Nat],
         \A m \in Months : \/ v[m] < v2[m]
                           \/ /\ v2[m] = v[m]
                              /\ SameMonth(m, prices, act, rows, prices2, act2, rows2),
         CalcOK(x, prices, act, rows, v)
  PROVE  CalcOK(x, prices2, act2, rows2, v2)
<1> SUFFICES ASSUME x.step # "idle"
             PROVE  CalcOK(x, prices2, act2, rows2, v2)
  BY DEF CalcOK
<1>1. /\ x.month \in Months /\ x.price \in AnyPrice
      /\ x.step \in {"read", "save"} => x.org \in Orgs
      /\ x.basis \in Nat /\ x.basis <= v[x.month]
      /\ x.basis = v[x.month] => Current(x, prices, act, rows)
  BY DEF CalcOK
<1> DEFINE m == x.month
<1>2. v[m] \in Nat /\ v2[m] \in Nat
  BY <1>1
<1>3. CASE v[m] < v2[m]
  <2>1. x.basis <= v2[m] /\ x.basis # v2[m]
    BY <1>1, <1>2, <1>3
  <2> QED BY <1>1, <2>1 DEF CalcOK
<1>4. CASE v2[m] = v[m] /\ SameMonth(m, prices, act, rows, prices2, act2, rows2)
  <2>1. ASSUME Current(x, prices, act, rows) PROVE Current(x, prices2, act2, rows2)
    BY <1>1, <1>4, <2>1 DEF Current, SameMonth, SameCounts
  <2> QED BY <1>1, <1>4, <2>1 DEF CalcOK
<1> QED BY <1>1, <1>3, <1>4

\* A row that keeps its counts and its result is as right as it was.
LEMMA RowKeeps ==
  ASSUME NEW row, NEW row2, NEW o \in Orgs, NEW m \in Months,
         NEW prices, NEW act, NEW rows, NEW v, NEW prices2, NEW act2, NEW rows2,
         NEW v2 \in [Months -> Nat], v \in [Months -> Nat],
         \/ v[m] < v2[m]
         \/ /\ v2[m] = v[m] /\ SameCounts(row2, row)
            /\ SameMonth(m, prices, act, rows, prices2, act2, rows2),
         row2.basis = row.basis, row2.result = row.result,
         RowOK(row, o, m, prices, act, v)
  PROVE  RowOK(row2, o, m, prices2, act2, v2)
<1>1. v[m] \in Nat /\ v2[m] \in Nat /\ row.basis \in Nat /\ row.basis <= v[m]
  BY DEF RowOK
<1>2. CASE v[m] < v2[m]
  <2>1. row.basis <= v2[m] /\ row.basis # v2[m]
    BY <1>1, <1>2
  <2> QED BY <1>1, <2>1 DEF RowOK
<1>3. CASE /\ v2[m] = v[m] /\ SameCounts(row2, row)
           /\ SameMonth(m, prices, act, rows, prices2, act2, rows2)
  <2> SUFFICES ASSUME row2.result # NoResult, row2.basis = v2[m]
               PROVE  \E p \in AnyPrice :
                        /\ row2.result = {Charge(p, Cardinality(SeenIn(act2, o, m)), row2)}
                        /\ PriceIs(prices2, p, m)
    BY <1>1, <1>3 DEF RowOK
  <2>1. PICK p \in AnyPrice :
          /\ row.result = {Charge(p, Cardinality(SeenIn(act, o, m)), row)}
          /\ PriceIs(prices, p, m)
    BY <1>3 DEF RowOK
  <2>2. \A n : Charge(p, n, row2) = Charge(p, n, row)
    BY <1>3 DEF Charge, SameCounts
  <2> QED BY <1>3, <2>1, <2>2 DEF SameMonth
<1> QED BY <1>2, <1>3

\* A step that touches no row, no price, no active device and no version.
LEMMA CalcsMove ==
  ASSUME BillingInv, UNCHANGED <<counter, active, price, version>>,
         change' \in [Admins -> [step: {"idle", "look", "write"}, from: Nat, k: AnyPrice]],
         DOMAIN calc' = Calculations,
         \A c \in Calculations : \/ calc'[c] = calc[c]
                                 \/ /\ CalcForm(calc'[c])
                                    /\ CalcOK(calc'[c], price, active, counter, version)
  PROVE  BillingInv'
<1>1. BillingTypeOK'
  BY DEF BillingInv, BillingTypeOK
<1>2. HasLatest'
  BY DEF BillingInv, HasLatest, Known
<1>3. CalcsRight' /\ RowsRight'
  BY DEF BillingInv, CalcsRight, RowsRight
<1> QED BY <1>1, <1>2, <1>3 DEF BillingInv

LEMMA BillingStarts == BillingInit => BillingInv
<1> SUFFICES ASSUME BillingInit PROVE BillingInv
  OBVIOUS
<1>1. BillingTypeOK
  <2>1. RowForm(NoCounter) /\ CalcForm(Rest)
    BY DEF RowForm, NoCounter, CalcForm, Rest
  <2>2. NoChange \in [step: {"idle", "look", "write"}, from: Nat, k: AnyPrice]
    BY DEF NoChange, AnyPrice
  <2>3. \A o \in Orgs, m \in Months : counter[<<o, m>>] = NoCounter
    BY DEF BillingInit
  <2>4. DOMAIN counter = Orgs \X Months
    BY DEF BillingInit
  <2> QED BY <2>1, <2>2, <2>3, <2>4 DEF BillingInit, BillingTypeOK
<1>2. HasLatest
  BY DEF BillingInit, HasLatest, Known
<1>3. CalcsRight
  BY DEF BillingInit, CalcsRight, CalcOK, Rest
<1>4. RowsRight
  <2>1. \A o \in Orgs, m \in Months : counter[<<o, m>>] = NoCounter
    BY DEF BillingInit
  <2>2. \A m \in Months : version[m] = 0
    BY DEF BillingInit
  <2>3. ASSUME NEW o \in Orgs, NEW m \in Months
        PROVE  RowOK(NoCounter, o, m, price, active, version)
    BY <2>2 DEF RowOK, NoCounter
  <2> QED BY <2>1, <2>3 DEF RowsRight
<1> QED BY <1>1, <1>2, <1>3, <1>4 DEF BillingInv

OneCalc(c, y) ==
  /\ DOMAIN calc' = Calculations /\ calc'[c] = y
  /\ \A x \in Calculations : x # c => calc'[x] = calc[x]

\* One calculation goes on.
LEMMA OneCalcMoves ==
  ASSUME BillingInv, UNCHANGED <<counter, active, price, change, version>>,
         NEW c \in Calculations, NEW y, OneCalc(c, y),
         CalcForm(y), CalcOK(y, price, active, counter, version)
  PROVE  BillingInv'
<1>3. change' \in [Admins -> [step: {"idle", "look", "write"}, from: Nat, k: AnyPrice]]
  BY DEF BillingInv, BillingTypeOK
<1> QED BY <1>3, CalcsMove DEF OneCalc

\* The price that is read is the one in force at the first day of the month.
LEMMA EffectiveIsPrice ==
  ASSUME BillingInv, NEW m \in Months
  PROVE  /\ Effective(FirstDay(m)) \in AnyPrice
         /\ PriceIs(price, Effective(FirstDay(m)), m)
<1> DEFINE date == FirstDay(m)
<1>0. date \in Nat /\ price \subseteq [from: Nat, k: AnyPrice]
  BY BillingAssumption DEF FirstDay, Months, BillingInv, BillingTypeOK
<1>1. CASE Known(date) = {}
  <2>1. \A s \in price : date < s.from
    BY <1>0, <1>1 DEF Known
  <2> QED BY <1>1, <2>1 DEF Effective, PriceIs, AnyPrice
<1>2. CASE Known(date) # {}
  <2> DEFINE r == LatestPrice(date)
  <2>0. \E x \in Known(date) : \A s \in Known(date) : s.from <= x.from
    BY <1>0, <1>2 DEF BillingInv, HasLatest
  <2>1. r \in Known(date) /\ \A s \in Known(date) : s.from <= r.from
    BY <2>0 DEF LatestPrice
  <2>2. r \in price /\ r.from <= date /\ r.k \in AnyPrice /\ r.from \in Nat
    BY <1>0, <2>1 DEF Known
  <2>3. ASSUME NEW s \in price, r.from < s.from PROVE date < s.from
    <3>1. s.from \in Nat
      BY <1>0
    <3>2. s \in Known(date) => s.from <= r.from
      BY <2>1
    <3> HIDE DEF r, date
    <3>3. s.from <= date => s \in Known(date)
      BY DEF Known
    <3> QED BY <1>0, <2>2, <2>3, <3>1, <3>2, <3>3
  <2>4. Effective(date) = r.k
    BY <1>2 DEF Effective
  <2> HIDE DEF r
  <2> QED BY <2>2, <2>3, <2>4 DEF PriceIs
<1> QED BY <1>1, <1>2

LEMMA CalculateKeeps ==
  ASSUME BillingInv, NEW c \in Calculations, NEW m \in Months, Calculate(c, m)
  PROVE  BillingInv'
<1> DEFINE y == [step |-> "price", month |-> m, price |-> DefaultPrice, orgs |-> {},
                 org |-> "none", devices |-> 0, row |-> NoCounter, basis |-> version[m]]
<1>1. OneCalc(c, y)
  BY DEF Calculate, OneCalc, Rest, BillingInv, BillingTypeOK
<1>2. UNCHANGED <<counter, active, price, change, version>>
  BY DEF Calculate
<1>3. CalcForm(y)
  BY DEF CalcForm
<1>4. version[m] \in Nat
  BY DEF BillingInv, BillingTypeOK
<1>5. CalcOK(y, price, active, counter, version)
  BY <1>4 DEF CalcOK, Current, AnyPrice
<1> HIDE DEF y
<1> QED BY <1>1, <1>2, <1>3, <1>5, OneCalcMoves

\* What a calculation under way is made of.
LEMMA UnderWay ==
  ASSUME BillingInv, NEW c \in Calculations, calc[c].step # "idle"
  PROVE  /\ CalcForm(calc[c]) /\ calc[c].month \in Months /\ calc[c].price \in AnyPrice
         /\ calc[c].step \in {"read", "save"} => calc[c].org \in Orgs
         /\ calc[c].basis \in Nat /\ calc[c].basis <= version[calc[c].month]
         /\ calc[c].basis = version[calc[c].month] =>
              Current(calc[c], price, active, counter)
BY DEF BillingInv, BillingTypeOK, CalcsRight, CalcOK

LEMMA ReadPriceKeeps ==
  ASSUME BillingInv, NEW c \in Calculations, ReadPrice(c) PROVE BillingInv'
<1> DEFINE x == calc[c]
           y == [step |-> "orgs", month |-> x.month, price |-> Effective(FirstDay(x.month)),
                 orgs |-> x.orgs, org |-> x.org, devices |-> x.devices, row |-> x.row,
                 basis |-> x.basis]
<1>0. /\ x.step = "price" /\ CalcForm(x) /\ x.month \in Months
      /\ x.basis \in Nat /\ x.basis <= version[x.month]
  BY UnderWay DEF ReadPrice, CalcAt
<1>1. OneCalc(c, y)
  BY <1>0 DEF ReadPrice, OneCalc, CalcForm, BillingInv, BillingTypeOK
<1>2. UNCHANGED <<counter, active, price, change, version>>
  BY DEF ReadPrice
<1>3. CalcForm(y)
  BY DEF CalcForm
<1>4. /\ Effective(FirstDay(x.month)) \in AnyPrice
      /\ PriceIs(price, Effective(FirstDay(x.month)), x.month)
  BY <1>0, EffectiveIsPrice
<1>5. CalcOK(y, price, active, counter, version)
  BY <1>0, <1>4 DEF CalcOK, Current
<1> HIDE DEF y
<1> QED BY <1>1, <1>2, <1>3, <1>5, OneCalcMoves

LEMMA ReadOrgsKeeps ==
  ASSUME BillingInv, NEW c \in Calculations, ReadOrgs(c) PROVE BillingInv'
<1> DEFINE x == calc[c]
           kept == {o \in Orgs : counter[<<o, x.month>>].kept \/ Seen(o, x.month) # {}}
           y == [step |-> "next", month |-> x.month, price |-> x.price, orgs |-> kept,
                 org |-> x.org, devices |-> x.devices, row |-> x.row, basis |-> x.basis]
<1>0. /\ x.step = "orgs" /\ CalcForm(x) /\ x.month \in Months /\ x.price \in AnyPrice
      /\ x.basis \in Nat /\ x.basis <= version[x.month]
      /\ x.basis = version[x.month] => Current(x, price, active, counter)
  BY UnderWay DEF ReadOrgs, CalcAt
<1>1. OneCalc(c, y)
  BY <1>0 DEF ReadOrgs, OneCalc, CalcForm, BillingInv, BillingTypeOK
<1>2. UNCHANGED <<counter, active, price, change, version>>
  BY DEF ReadOrgs
<1>3. CalcForm(y)
  BY DEF CalcForm
<1>5. CalcOK(y, price, active, counter, version)
  BY <1>0 DEF CalcOK, Current
<1> HIDE DEF y
<1> QED BY <1>1, <1>2, <1>3, <1>5, OneCalcMoves

LEMMA CountDevicesKeeps ==
  ASSUME BillingInv, NEW c \in Calculations, NEW o \in Orgs, CountDevices(c, o)
  PROVE  BillingInv'
<1> DEFINE x == calc[c]
           y == [step |-> "read", month |-> x.month, price |-> x.price,
                 orgs |-> x.orgs \ {o}, org |-> o,
                 devices |-> Cardinality(Seen(o, x.month)), row |-> x.row,
                 basis |-> x.basis]
<1>0. /\ x.step = "next" /\ CalcForm(x) /\ x.month \in Months /\ x.price \in AnyPrice
      /\ x.basis \in Nat /\ x.basis <= version[x.month]
      /\ x.basis = version[x.month] => Current(x, price, active, counter)
  BY UnderWay DEF CountDevices, CalcAt
<1>1. OneCalc(c, y)
  BY <1>0 DEF CountDevices, OneCalc, CalcForm, BillingInv, BillingTypeOK
<1>2. UNCHANGED <<counter, active, price, change, version>>
  BY DEF CountDevices
<1>3. CalcForm(y)
  BY DEF CalcForm
<1>4. Seen(o, x.month) = SeenIn(active, o, x.month)
  BY DEF Seen, SeenIn
<1>5. CalcOK(y, price, active, counter, version)
  BY <1>0, <1>4 DEF CalcOK, Current
<1> HIDE DEF y
<1> QED BY <1>1, <1>2, <1>3, <1>5, OneCalcMoves

LEMMA ReadCounterKeeps ==
  ASSUME BillingInv, NEW c \in Calculations, ReadCounter(c) PROVE BillingInv'
<1> DEFINE x == calc[c]
           y == [step |-> "save", month |-> x.month, price |-> x.price, orgs |-> x.orgs,
                 org |-> x.org, devices |-> x.devices,
                 row |-> counter[<<x.org, x.month>>], basis |-> x.basis]
<1>0. /\ x.step = "read" /\ CalcForm(x) /\ x.month \in Months /\ x.price \in AnyPrice
      /\ x.org \in Orgs /\ x.basis \in Nat /\ x.basis <= version[x.month]
      /\ x.basis = version[x.month] => Current(x, price, active, counter)
  BY UnderWay DEF ReadCounter, CalcAt
<1>1. OneCalc(c, y)
  BY <1>0 DEF ReadCounter, OneCalc, CalcForm, BillingInv, BillingTypeOK
<1>2. UNCHANGED <<counter, active, price, change, version>>
  BY DEF ReadCounter
<1>3. CalcForm(y)
  BY DEF CalcForm
<1>5. CalcOK(y, price, active, counter, version)
  BY <1>0 DEF CalcOK, Current, SameCounts
<1> HIDE DEF y
<1> QED BY <1>1, <1>2, <1>3, <1>5, OneCalcMoves

LEMMA FinishKeeps ==
  ASSUME BillingInv, NEW c \in Calculations, Finish(c) PROVE BillingInv'
<1>1. OneCalc(c, Rest) /\ UNCHANGED <<counter, active, price, change, version>>
  BY DEF Finish, OneCalc, BillingInv, BillingTypeOK
<1>2. CalcForm(Rest) /\ Rest.step = "idle"
  BY DEF CalcForm, Rest
<1>3. CalcOK(Rest, price, active, counter, version)
  BY <1>2 DEF CalcOK
<1> QED BY <1>1, <1>2, <1>3, OneCalcMoves

\* A result is saved: the counts stay, and the result is what the calculation has read.
LEMMA SaveKeeps ==
  ASSUME BillingInv, NEW c \in Calculations, Save(c) PROVE BillingInv'
<1> DEFINE x == calc[c]
           y == [step |-> "next", month |-> x.month, price |-> x.price, orgs |-> x.orgs,
                 org |-> x.org, devices |-> x.devices, row |-> x.row, basis |-> x.basis]
           old == counter[<<x.org, x.month>>]
           new == [kept |-> TRUE, api |-> old.api, evt |-> old.evt, res |-> old.res,
                   blocks |-> old.blocks, devices |-> x.devices,
                   result |-> {Charge(x.price, x.devices, x.row)}, basis |-> x.basis]
<1>0. /\ x.step = "save" /\ CalcForm(x) /\ x.month \in Months /\ x.price \in AnyPrice
      /\ x.org \in Orgs /\ x.basis \in Nat /\ x.basis <= version[x.month]
      /\ x.basis = version[x.month] => Current(x, price, active, counter)
      /\ RowForm(old) /\ BillingTypeOK
  BY UnderWay DEF Save, CalcAt, BillingInv, BillingTypeOK
<1>1. /\ OneCalc(c, y)
      /\ UNCHANGED <<active, price, change, version>>
  BY <1>0 DEF Save, OneCalc, CalcForm, BillingTypeOK
<1>2. /\ DOMAIN counter' = Orgs \X Months /\ counter'[<<x.org, x.month>>] = new
      /\ \A o \in Orgs, m \in Months :
           <<o, m>> # <<x.org, x.month>> => counter'[<<o, m>>] = counter[<<o, m>>]
  <2>1. /\ DOMAIN counter = Orgs \X Months
        /\ counter' = [counter EXCEPT ![<<x.org, x.month>>] = Saved(old, c)]
    BY <1>0 DEF Save, BillingTypeOK
  <2>2. Saved(old, c) = new
    <3>1. ASSUME NEW row, RowForm(row)
          PROVE  Saved(row, c) =
                   [kept |-> TRUE, api |-> row.api, evt |-> row.evt, res |-> row.res,
                    blocks |-> row.blocks, devices |-> calc[c].devices,
                    result |-> {Charge(calc[c].price, calc[c].devices, calc[c].row)},
                    basis |-> calc[c].basis]
      <4> DEFINE charge == {Charge(calc[c].price, calc[c].devices, calc[c].row)}
      <4>1. Saved(row, c) = [row EXCEPT !.kept = TRUE, !.devices = calc[c].devices,
                               !.result = charge, !.basis = calc[c].basis]
        BY DEF Saved
      <4> HIDE DEF charge
      <4>2. Saved(row, c) =
              [kept |-> TRUE, api |-> row.api, evt |-> row.evt, res |-> row.res,
               blocks |-> row.blocks, devices |-> calc[c].devices, result |-> charge,
               basis |-> calc[c].basis]
        BY <3>1, <4>1 DEF RowForm
      <4> QED BY <4>2 DEF charge
    <3> HIDE DEF old
    <3>2. RowForm(old)
      BY <1>0
    <3> QED BY <3>1, <3>2
  <2> HIDE DEF new, old, x
  <2> QED BY <1>0, <2>1, <2>2
<1>3. RowForm(new) /\ CalcForm(y)
  BY DEF RowForm, CalcForm
<1>4. \A o \in Orgs, m \in Months : SameCounts(counter'[<<o, m>>], counter[<<o, m>>])
  <2>1. SameCounts(new, old)
    BY DEF SameCounts
  <2> HIDE DEF new
  <2>2. \A row : SameCounts(row, row)
    BY DEF SameCounts
  <2> QED BY <1>2, <2>1, <2>2
<1>5. \A m \in Months : SameMonth(m, price, active, counter, price', active', counter')
  BY <1>1, <1>4 DEF SameMonth
<1>6. version' = version /\ version \in [Months -> Nat]
  BY <1>0, <1>1 DEF BillingTypeOK
<1>7. \A z : CalcOK(z, price, active, counter, version)
               => CalcOK(z, price', active', counter', version')
  BY <1>5, <1>6, CalcKeeps
<1>8. CalcOK(y, price, active, counter, version)
  BY <1>0 DEF CalcOK, Current
<1>9. CalcsRight'
  <2> HIDE DEF y, x
  <2> QED BY <1>1, <1>7, <1>8 DEF OneCalc, CalcsRight, BillingInv
<1>10. BillingTypeOK' /\ HasLatest'
  <2>1. \A o \in Orgs, m \in Months : RowForm(counter'[<<o, m>>])
    <3> HIDE DEF new, x
    <3> QED BY <1>0, <1>2, <1>3 DEF BillingTypeOK
  <2>2. \A z \in Calculations : CalcForm(calc'[z])
    <3> HIDE DEF y
    <3> QED BY <1>0, <1>1, <1>3 DEF BillingTypeOK, OneCalc
  <2>3. BillingTypeOK'
    <3>1. /\ price \subseteq [from: Nat, k: AnyPrice] /\ version \in [Months -> Nat]
          /\ change \in [Admins -> [step: {"idle", "look", "write"}, from: Nat, k: AnyPrice]]
      BY <1>0 DEF BillingTypeOK
    <3>2. DOMAIN calc' = Calculations
      BY <1>1 DEF OneCalc
    <3> HIDE DEF y, x, new, old
    <3> QED BY <1>1, <1>2, <2>1, <2>2, <3>1, <3>2 DEF BillingTypeOK
  <2>4. HasLatest'
    BY <1>1 DEF HasLatest, Known, BillingInv
  <2> QED BY <2>3, <2>4
<1>11. RowOK(new, x.org, x.month, price, active, version)
  <2> SUFFICES ASSUME new.basis = version[x.month]
               PROVE  /\ new.result = {Charge(x.price,
                             Cardinality(SeenIn(active, x.org, x.month)), new)}
                      /\ PriceIs(price, x.price, x.month)
    BY <1>0 DEF RowOK
  <2>1. Current(x, price, active, counter)
    BY <1>0
  <2>2. /\ PriceIs(price, x.price, x.month) /\ SameCounts(x.row, old)
        /\ x.devices = Cardinality(SeenIn(active, x.org, x.month))
    BY <1>0, <2>1 DEF Current
  <2>3. Charge(x.price, x.devices, new) = Charge(x.price, x.devices, x.row)
    BY <2>2 DEF Charge, SameCounts
  <2> QED BY <2>2, <2>3
<1>12. RowsRight'
  <2> SUFFICES ASSUME NEW o \in Orgs, NEW m \in Months
               PROVE  RowOK(counter'[<<o, m>>], o, m, price, active, version)
    BY <1>1 DEF RowsRight
  <2>1. CASE <<o, m>> = <<x.org, x.month>>
    <3>1. o = x.org /\ m = x.month
      BY <2>1
    <3> HIDE DEF new, x
    <3> QED BY <1>2, <1>11, <3>1
  <2>2. CASE <<o, m>> # <<x.org, x.month>>
    <3> HIDE DEF new, x
    <3> QED BY <1>2, <2>2 DEF BillingInv, RowsRight
  <2> QED BY <2>1, <2>2
<1> QED BY <1>9, <1>10, <1>12 DEF BillingInv

\* Counts, active devices or prices change: the months that are touched are newer.
LEMMA MonthsMove ==
  ASSUME BillingInv, BillingTypeOK', HasLatest', UNCHANGED calc,
         \A m \in Months : \/ version[m] < version'[m]
                           \/ /\ version'[m] = version[m]
                              /\ SameMonth(m, price, active, counter, price', active', counter'),
         \A o \in Orgs, m \in Months :
           /\ counter'[<<o, m>>].basis = counter[<<o, m>>].basis
           /\ counter'[<<o, m>>].result = counter[<<o, m>>].result
  PROVE  BillingInv'
<1>0. version \in [Months -> Nat] /\ version' \in [Months -> Nat]
  BY DEF BillingInv, BillingTypeOK
<1>1. CalcsRight'
  <2>1. \A x : CalcOK(x, price, active, counter, version)
                 => CalcOK(x, price', active', counter', version')
    BY <1>0, CalcKeeps
  <2> QED BY <2>1 DEF BillingInv, CalcsRight
<1>2. RowsRight'
  <2> SUFFICES ASSUME NEW o \in Orgs, NEW m \in Months
               PROVE  RowOK(counter'[<<o, m>>], o, m, price', active', version')
    BY DEF RowsRight
  <2>1. RowOK(counter[<<o, m>>], o, m, price, active, version)
    BY DEF BillingInv, RowsRight
  <2>2. \/ version[m] < version'[m]
        \/ /\ version'[m] = version[m] /\ SameCounts(counter'[<<o, m>>], counter[<<o, m>>])
           /\ SameMonth(m, price, active, counter, price', active', counter')
    BY DEF SameMonth
  <2> QED BY <1>0, <2>1, <2>2, RowKeeps
<1> QED BY <1>1, <1>2 DEF BillingInv

\* What is counted, and the device that was active, makes its months newer.
LEMMA CommitKeeps ==
  ASSUME BillingInv, NEW h \in Consumers, Commit(h) PROVE BillingInv'
<1> DEFINE e == handler[h].event
           seen == handler[h].seen
           counted == handler[h].counted
<1>0. BillingTypeOK /\ version \in [Months -> Nat]
  BY DEF BillingInv, BillingTypeOK
<1>1. /\ active' = IF seen = 0 THEN active ELSE active \cup {<<e.org, seen, e.device>>}
      /\ counter' = IF counted = 0 THEN counter
                    ELSE [counter EXCEPT ![<<e.org, counted>>]
                                           = Counted(counter[<<e.org, counted>>], e)]
      /\ version' = [m \in Months |-> IF m \in {seen, counted} THEN version[m] + 1
                                      ELSE version[m]]
      /\ UNCHANGED <<price, calc, change>>
  BY DEF Commit
<1>2. ASSUME NEW row, RowForm(row)
      PROVE  /\ RowForm(Counted(row, e))
             /\ Counted(row, e).basis = row.basis /\ Counted(row, e).result = row.result
  <2> DEFINE api == [kept |-> TRUE, api |-> row.api + 1, evt |-> row.evt, res |-> row.res,
                     blocks |-> row.blocks, devices |-> row.devices, result |-> row.result,
                     basis |-> row.basis]
             evt == [kept |-> TRUE, api |-> row.api, evt |-> row.evt + 1, res |-> row.res,
                     blocks |-> row.blocks, devices |-> row.devices, result |-> row.result,
                     basis |-> row.basis]
             res == [kept |-> TRUE, api |-> row.api, evt |-> row.evt, res |-> row.res + 1,
                     blocks |-> row.blocks + BlocksOf(e.bytes), devices |-> row.devices,
                     result |-> row.result, basis |-> row.basis]
  <2>1. Counted(row, e) \in {api, evt, res}
    BY <1>2 DEF Counted, RowForm
  <2>2. \A one \in {api, evt, res} :
          RowForm(one) /\ one.basis = row.basis /\ one.result = row.result
    BY DEF RowForm
  <2> HIDE DEF api, evt, res
  <2> QED BY <2>1, <2>2
<1>3. /\ DOMAIN counter' = Orgs \X Months
      /\ \A o \in Orgs, m \in Months :
           \/ counter'[<<o, m>>] = counter[<<o, m>>]
           \/ m = counted /\ counter'[<<o, m>>] = Counted(counter[<<o, m>>], e)
  <2>0. DOMAIN counter = Orgs \X Months
    BY <1>0 DEF BillingTypeOK
  <2>1. CASE counted = 0
    BY <1>1, <2>0, <2>1
  <2>2. CASE counted # 0
    <3> HIDE DEF e, counted
    <3>1. counter' = [counter EXCEPT ![<<e.org, counted>>]
                                       = Counted(counter[<<e.org, counted>>], e)]
      BY <1>1, <2>2
    <3>2. ASSUME NEW o \in Orgs, NEW m \in Months
          PROVE  \/ counter'[<<o, m>>] = counter[<<o, m>>]
                 \/ m = counted /\ counter'[<<o, m>>] = Counted(counter[<<o, m>>], e)
      <4>1. <<o, m>> \in DOMAIN counter
        BY <2>0
      <4>2. CASE <<o, m>> = <<e.org, counted>>
        BY <3>1, <4>1, <4>2
      <4>3. CASE <<o, m>> # <<e.org, counted>>
        BY <3>1, <4>1, <4>3
      <4> QED BY <4>2, <4>3
    <3> QED BY <2>0, <3>1, <3>2
  <2> QED BY <2>1, <2>2
<1>4. \A o \in Orgs, m \in Months :
        /\ RowForm(counter'[<<o, m>>])
        /\ counter'[<<o, m>>].basis = counter[<<o, m>>].basis
        /\ counter'[<<o, m>>].result = counter[<<o, m>>].result
  BY ZenonT(90), <1>0, <1>2, <1>3 DEF BillingTypeOK
<1>5. version' \in [Months -> Nat]
  BY <1>0, <1>1
<1>6. BillingTypeOK' /\ HasLatest'
  BY <1>0, <1>1, <1>3, <1>4, <1>5 DEF BillingTypeOK, BillingInv, HasLatest, Known
<1>7. ASSUME NEW m \in Months
      PROVE  \/ version[m] < version'[m]
             \/ /\ version'[m] = version[m]
                /\ SameMonth(m, price, active, counter, price', active', counter')
  <2>1. CASE m \in {seen, counted}
    BY <1>0, <1>1, <2>1
  <2>2. CASE m # seen /\ m # counted
    <3>1. version'[m] = version[m]
      BY <1>1, <2>2
    <3>2. \A o \in Orgs : SeenIn(active', o, m) = SeenIn(active, o, m)
      BY <1>1, <2>2 DEF SeenIn
    <3>3. \A o \in Orgs : SameCounts(counter'[<<o, m>>], counter[<<o, m>>])
      BY <1>3, <2>2 DEF SameCounts
    <3> QED BY <1>1, <3>1, <3>2, <3>3 DEF SameMonth
  <2> QED BY <2>1, <2>2
<1> QED BY <1>1, <1>4, <1>6, <1>7, MonthsMove

\* A price is written: the months it is in force for are newer, and for an earlier month
\* it changes nothing.
LEMMA WritePriceKeeps ==
  ASSUME BillingInv, NEW a \in Admins, WritePrice(a) PROVE BillingInv'
<1> DEFINE f == change[a].from
           new == [from |-> f, k |-> change[a].k]
<1>0. /\ BillingTypeOK /\ version \in [Months -> Nat] /\ f \in Nat /\ change[a].k \in AnyPrice
      /\ price \subseteq [from: Nat, k: AnyPrice]
  BY DEF BillingInv, BillingTypeOK
<1>1. /\ price' = {r \in price : r.from # f} \cup {new}
      /\ version' = [m \in Months |-> IF f <= FirstDay(m) THEN version[m] + 1
                                      ELSE version[m]]
      /\ UNCHANGED <<counter, active, calc>>
  BY DEF WritePrice
<1>2. change' \in [Admins -> [step: {"idle", "look", "write"}, from: Nat, k: AnyPrice]]
  <2>1. NoChange \in [step: {"idle", "look", "write"}, from: Nat, k: AnyPrice]
    BY DEF NoChange, AnyPrice
  <2> QED BY <1>0, <2>1 DEF WritePrice, BillingTypeOK
<1>3. new \in [from: Nat, k: AnyPrice] /\ new.from = f
  BY <1>0
<1>4. BillingTypeOK'
  <2> HIDE DEF new, f
  <2>1. price' \subseteq [from: Nat, k: AnyPrice] /\ version' \in [Months -> Nat]
    BY <1>0, <1>1, <1>3
  <2> QED BY <1>0, <1>1, <1>2, <2>1 DEF BillingTypeOK
<1> HIDE DEF new, f
<1>5. HasLatest'
  <2> SUFFICES ASSUME NEW date \in Nat, NEW some \in price', some.from <= date
               PROVE  \E r \in price' : r.from <= date /\
                        \A s \in price' : s.from <= date => s.from <= r.from
    BY DEF HasLatest, Known
  <2>0. \A s \in price' : s.from \in Nat /\ (s = new \/ (s \in price /\ s.from # f))
    BY <1>0, <1>1, <1>3
  <2>1. CASE \E r \in price : r.from <= date
    <3>1. PICK r \in price : /\ r.from <= date
                             /\ \A s \in price : s.from <= date => s.from <= r.from
      BY <2>1 DEF BillingInv, HasLatest, Known
    <3>2. r.from \in Nat
      BY <1>0, <3>1
    <3>3. CASE f <= date /\ r.from <= f
      <4>1. new \in price' /\ new.from <= date
        BY <1>1, <1>3, <3>3
      <4>2. \A s \in price' : s.from <= date => s.from <= new.from
        BY <1>0, <1>3, <2>0, <3>1, <3>2, <3>3
      <4> QED BY <4>1, <4>2
    <3>4. CASE ~(f <= date /\ r.from <= f)
      <4>1. r.from # f
        BY <1>0, <3>1, <3>2, <3>4
      <4>2. r \in price'
        BY <1>1, <3>1, <4>1
      <4>3. \A s \in price' : s.from <= date => s.from <= r.from
        BY <1>0, <1>3, <2>0, <3>1, <3>2, <3>4
      <4> QED BY <3>1, <4>2, <4>3
    <3> QED BY <3>3, <3>4
  <2>2. CASE ~\E r \in price : r.from <= date
    <3>1. some = new
      BY <2>0, <2>2
    <3>2. \A s \in price' : s.from <= date => s.from <= new.from
      BY <1>0, <1>3, <2>0, <2>2
    <3> QED BY <3>1, <3>2
  <2> QED BY <2>1, <2>2
<1>6. ASSUME NEW m \in Months
      PROVE  \/ version[m] < version'[m]
             \/ /\ version'[m] = version[m]
                /\ SameMonth(m, price, active, counter, price', active', counter')
  <2>0. FirstDay(m) \in Nat
    BY BillingAssumption DEF FirstDay, Months
  <2>1. CASE f <= FirstDay(m)
    BY <1>0, <1>1, <2>1
  <2>2. CASE ~(f <= FirstDay(m))
    <3>1. version'[m] = version[m] /\ FirstDay(m) < f
      BY <1>0, <1>1, <2>0, <2>2
    <3>2. \A s \in price' : s \in price \/ FirstDay(m) < s.from
      BY <1>1, <1>3, <3>1
    <3>3. ASSUME NEW r \in price, r.from <= FirstDay(m) PROVE r \in price'
      <4>1. r.from # f
        BY <1>0, <2>0, <3>1, <3>3
      <4> QED BY <1>1, <4>1
    <3>4. ASSUME NEW p \in AnyPrice, PriceIs(price, p, m) PROVE PriceIs(price', p, m)
      BY <3>2, <3>3, <3>4 DEF PriceIs
    <3> QED BY <1>1, <3>1, <3>4 DEF SameMonth, SameCounts
  <2> QED BY <2>1, <2>2
<1> QED BY <1>1, <1>4, <1>5, <1>6, MonthsMove

\* Events, requests and the calendar.
LEMMA OthersLeaveBills ==
  ASSUME BillingInv,
         \/ (\E e : Publish(e)) \/ (\E q \in queue : LapseEvent(q))
         \/ (\E h \in Consumers : \/ (\E q \in queue : TakeEvent(h, q))
                                  \/ RecordActivity(h) \/ Count(h) \/ Rollback(h))
         \/ (\E a \in Admins : (\E d \in Dates, p \in Prices : Ask(a, d, p)) \/ Look(a))
         \/ NextMonth
  PROVE  BillingInv'
<1>0. change \in [Admins -> [step: {"idle", "look", "write"}, from: Nat, k: AnyPrice]]
  BY SMTT(60) DEF BillingInv, BillingTypeOK
<1>1. UNCHANGED <<counter, active, price, calc, version>>
  BY DEF Publish, LapseEvent, TakeEvent, RecordActivity, Count, Rollback, Ask, Look, NextMonth
<1>2. change' \in [Admins -> [step: {"idle", "look", "write"}, from: Nat, k: AnyPrice]]
  <2>1. ASSUME NEW a \in Admins, NEW d \in Dates, NEW p \in Prices, Ask(a, d, p)
        PROVE  change' \in [Admins -> [step: {"idle", "look", "write"}, from: Nat, k: AnyPrice]]
    <3>1. d \in Nat /\ p \in AnyPrice
      BY BillingAssumption DEF Dates, FirstDay, AnyPrice
    <3> QED BY <1>0, <2>1, <3>1 DEF Ask
  <2>2. ASSUME NEW a \in Admins, Look(a)
        PROVE  change' \in [Admins -> [step: {"idle", "look", "write"}, from: Nat, k: AnyPrice]]
    <3>1. NoChange \in [step: {"idle", "look", "write"}, from: Nat, k: AnyPrice]
      BY SMTT(60) DEF NoChange, AnyPrice
    <3> QED BY <1>0, <2>2, <3>1 DEF Look
  <2>3. \/ UNCHANGED change
        \/ \E a \in Admins : (\E d \in Dates, p \in Prices : Ask(a, d, p)) \/ Look(a)
    BY DEF Publish, LapseEvent, TakeEvent, RecordActivity, Count, Rollback, NextMonth
  <2> QED BY <1>0, <2>1, <2>2, <2>3
<1>3. DOMAIN calc' = Calculations
  BY <1>1 DEF BillingInv, BillingTypeOK
<1> QED BY <1>1, <1>2, <1>3, CalcsMove

LEMMA BillingPreserves == ASSUME BillingInv, [BillingNext]_billingVars PROVE BillingInv'
<1>1. CASE \E h \in Consumers : Commit(h)
  BY <1>1, CommitKeeps
<1>2. CASE \E c \in Calculations : \/ (\E m \in Months : Calculate(c, m))
                                   \/ ReadPrice(c) \/ ReadOrgs(c)
                                   \/ (\E o \in Orgs : CountDevices(c, o))
                                   \/ ReadCounter(c) \/ Save(c) \/ Finish(c)
  BY <1>2, CalculateKeeps, ReadPriceKeeps, ReadOrgsKeeps, CountDevicesKeeps,
     ReadCounterKeeps, SaveKeeps, FinishKeeps
<1>3. CASE \E a \in Admins : WritePrice(a)
  BY <1>3, WritePriceKeeps
<1>4. CASE \/ (\E e : Publish(e)) \/ (\E q \in queue : LapseEvent(q))
           \/ (\E h \in Consumers : \/ (\E q \in queue : TakeEvent(h, q))
                                    \/ RecordActivity(h) \/ Count(h) \/ Rollback(h))
           \/ (\E a \in Admins : (\E d \in Dates, p \in Prices : Ask(a, d, p)) \/ Look(a))
           \/ NextMonth
  BY <1>4, OthersLeaveBills
<1>5. CASE UNCHANGED billingVars
  <2>1. /\ UNCHANGED <<counter, active, price, calc, version, change>>
        /\ change \in [Admins -> [step: {"idle", "look", "write"}, from: Nat, k: AnyPrice]]
        /\ DOMAIN calc = Calculations
    BY <1>5 DEF billingVars, BillingInv, BillingTypeOK
  <2> QED BY <2>1, CalcsMove
<1> QED BY <1>1, <1>2, <1>3, <1>4, <1>5 DEF BillingNext

\* What calculations have read, and rows have saved, of a month that has not changed
\* since is what the month is billed by.
THEOREM BillingInvariant == BillingSpec => []BillingInv
<1> QED BY BillingStarts, BillingPreserves, PTL DEF BillingSpec

\* A result whose month has not changed since its calculation began is what the newest
\* price in force, the active devices and the counters give, for any number of
\* consumers, calculations and changes of prices at the same time.
THEOREM ResultsAreTrue == BillingSpec => []ResultTrue
<1> QED BY BillingInvariant, RowsGiveResults, PTL
=============================================================================
