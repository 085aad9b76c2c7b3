---------------------------- MODULE Provisioning ----------------------------
(***************************************************************************)
(* How devices, organisations and API keys come into being: the idempotent *)
(* provisioning of a device by operation_id, the bulk provisioning that    *)
(* upserts by device_id, the reservation of an organisation id and the key *)
(* of an organisation.  A request reads in its own transaction and commits *)
(* later; what it reads may be overtaken by another request, of the same   *)
(* process (its lock is released before the commit) or of another one.     *)
(***************************************************************************)
EXTENDS Naturals, FiniteSets, FiniteSetsExt, Functions

CONSTANTS
  Servers,      \* requests being served at a time
  Ops,          \* operation ids of clients
  Payloads,     \* [tenant, terminal, sn, device]: what a client asks for
  FirstId,      \* the smallest device id handed out
  Tenants,      \* organisation ids, numbers
  ApiKeys,      \* API keys
  Bulk,         \* [device, sn, tenant]: what the bulk provisioning is asked for
  MaxServed     \* bound: requests of each kind

Unset == 0    \* no device id in the request, no organisation, no key
ServedKinds == {"provision", "bulk", "key", "reserve"}

VARIABLES
  device,       \* tb_devices and tb_device_org_binds: device_id -> [sn, org]
  provision,    \* tb_device_provisionings: operation_id -> [payload, device]
  asking,       \* of each handler: the request it serves
  answered,     \* what clients were told: [op, payload, device]
  orgs,         \* tb_orgs: org_id -> who made it
  reserved,     \* tb_org_reservations: operation_id -> org_id
  reserving,    \* the holder of the advisory lock: where it looks, what it wants
  granted,      \* [op, org]: reservations answered
  apiKey,       \* tb_org_api_keys: org_id -> key
  keying,       \* the key request in progress
  served        \* how much of the bound is used

provisionVars == <<device, provision, asking, answered, orgs, reserved, reserving, granted,
                   apiKey, keying, served>>
deviceVars == <<device, provision, asking, answered>>
reserveVars == <<reserved, reserving, granted>>
keyVars == <<apiKey, keying>>

NoRows == <<>>
NoRequest == [pc |-> "idle"]

ProvisionInit ==
  /\ device = NoRows /\ provision = NoRows
  /\ asking = [h \in Servers |-> NoRequest] /\ answered = {}
  /\ orgs = NoRows /\ reserved = NoRows /\ reserving = NoRequest /\ granted = {}
  /\ apiKey = NoRows /\ keying = NoRequest
  /\ served = [k \in ServedKinds |-> 0]

Serve(kind) ==
  /\ served[kind] < MaxServed[kind]
  /\ served' = [served EXCEPT ![kind] = @ + 1]

Assign(f, k, v) == [x \in DOMAIN f \cup {k} |-> IF x = k THEN v ELSE f[x]]
RowsOfSn(sn) == {i \in DOMAIN device : device[i].sn = sn}
Records == Range(provision)

\* INSERT INTO tb_orgs ... ON CONFLICT DO NOTHING
Other == "other"
MakeOrg(o, who) == orgs' = IF o \in DOMAIN orgs THEN orgs ELSE Assign(orgs, o, who)

----------------------------------------------------------------------------
(* Provisioning of one device *)

Allocate == Max({FirstId} \cup {i + 1 : i \in DOMAIN device}
                          \cup {r.device + 1 : r \in Records})

\* The serial number is another tenant's, or has another device_id.
SnTaken(p) ==
  \E i \in RowsOfSn(p.sn) :
    device[i].org # p.tenant \/ p.device \notin {Unset, i}

\* The requested device_id belongs to another serial number.
IdTaken(p) ==
  /\ RowsOfSn(p.sn) = {} /\ p.device # Unset
  /\ \/ p.device \in DOMAIN device
     \/ \E r \in Records : r.device = p.device /\ r.payload.sn # p.sn

\* A query without an order returns any of several records.
AtTerminal(p) == {r \in Records : r.payload.tenant = p.tenant
                                  /\ r.payload.terminal = p.terminal}
OfSn(p) == {r \in Records : r.payload.sn = p.sn}

MayRefuse(p) ==
  \/ SnTaken(p) \/ IdTaken(p)
  \/ \E r \in AtTerminal(p) : r.payload.sn # p.sn
  \/ \E r \in OfSn(p) : r.payload.tenant # p.tenant

MayPass(p) ==
  /\ ~SnTaken(p) /\ ~IdTaken(p)
  /\ AtTerminal(p) = {} \/ \E r \in AtTerminal(p) : r.payload.sn = p.sn
  /\ OfSn(p) = {} \/ \E r \in OfSn(p) : r.payload.tenant = p.tenant

Target(p) ==
  IF RowsOfSn(p.sn) # {} THEN CHOOSE i \in RowsOfSn(p.sn) : TRUE
  ELSE IF p.device # Unset THEN p.device ELSE Allocate

\* Mutant: the payload is not compared.
ReplayUnread(op, p) ==
  answered' = answered \cup {[op |-> op, payload |-> p, device |-> provision[op].device]}

\* What a known operation is answered: its record, or a conflict.
Replay(op, p) ==
  answered' = IF provision[op].payload = p
                THEN answered \cup
                       {[op |-> op, payload |-> p, device |-> provision[op].device]}
                ELSE answered

Replayed(op, p) ==
  /\ op \in DOMAIN provision
  /\ Replay(op, p)
  /\ UNCHANGED <<device, provision, asking>>

Rejected(op, p) ==
  /\ op \notin DOMAIN provision
  /\ MayRefuse(p)
  /\ UNCHANGED deviceVars

Checked(h, op, p) ==
  /\ op \notin DOMAIN provision
  /\ MayPass(p)
  /\ asking' = [asking EXCEPT ![h] =
       [pc |-> "store", op |-> op, payload |-> p, device |-> Target(p)]]
  /\ UNCHANGED <<device, provision, answered>>

Check(h, op, p) ==
  /\ asking[h] = NoRequest
  /\ Serve("provision")
  /\ Replayed(op, p) \/ Rejected(op, p) \/ Checked(h, op, p)
  /\ UNCHANGED <<orgs, reserveVars, keyVars>>

\* Unique: operation_id, and sn (with client_id of the connection).
Clash(r) ==
  \/ r.op \in DOMAIN provision
  \/ RowsOfSn(r.payload.sn) \ {r.device} # {}

AfterClash(r) ==
  /\ Clash(r)
  /\ IF r.op \in DOMAIN provision THEN Replay(r.op, r.payload) ELSE UNCHANGED answered
  /\ UNCHANGED <<device, provision, orgs>>

Stored(r) ==
  /\ ~Clash(r)
  /\ MakeOrg(r.payload.tenant, Other)
  /\ device' = Assign(device, r.device, [sn |-> r.payload.sn, org |-> r.payload.tenant])
  /\ provision' = Assign(provision, r.op, [payload |-> r.payload, device |-> r.device])
  /\ answered' = answered \cup {[op |-> r.op, payload |-> r.payload, device |-> r.device]}

StoreDevice(h) ==
  /\ asking[h].pc = "store"
  /\ AfterClash(asking[h]) \/ Stored(asking[h])
  /\ asking' = [asking EXCEPT ![h] = NoRequest]
  /\ UNCHANGED <<reserveVars, keyVars, served>>

\* The worker ends, or the connection to the database is lost, before the commit.
Lose(h) ==
  /\ asking[h].pc = "store"
  /\ asking' = [asking EXCEPT ![h] = NoRequest]
  /\ UNCHANGED <<device, provision, answered, orgs, reserveVars, keyVars, served>>

----------------------------------------------------------------------------
(* Bulk provisioning: by device_id, without a look at the owner *)

ProvisionTerminals(b) ==
  /\ Serve("bulk")
  /\ IF RowsOfSn(b.sn) \ {b.device} # {}
       THEN UNCHANGED <<device, orgs>>
       ELSE /\ device' = Assign(device, b.device, [sn |-> b.sn, org |-> b.tenant])
            /\ MakeOrg(b.tenant, Other)
  /\ UNCHANGED <<provision, asking, answered, reserveVars, keyVars>>

----------------------------------------------------------------------------
(* Reservation of an organisation id *)

ReserveKnown(op, wanted) ==
  /\ op \in DOMAIN reserved
  /\ granted' = IF wanted \in {Unset, reserved[op]}
                  THEN granted \cup {[op |-> op, org |-> reserved[op]]}
                  ELSE granted
  /\ UNCHANGED reserving

ReserveNew(op, wanted, minimum) ==
  /\ op \notin DOMAIN reserved
  /\ wanted = Unset \/ wanted >= minimum
  /\ reserving' = [pc |-> "insert", op |-> op, wanted |-> wanted,
                   next |-> IF wanted # Unset THEN wanted
                            ELSE Max({minimum} \cup {o + 1 : o \in DOMAIN orgs})]
  /\ UNCHANGED granted

ReserveOrg(op, wanted, minimum) ==
  /\ reserving = NoRequest
  /\ Serve("reserve")
  /\ ReserveKnown(op, wanted) \/ ReserveNew(op, wanted, minimum)
  /\ UNCHANGED <<deviceVars, orgs, reserved, keyVars>>

Inserted(r) ==
  /\ r.next \notin DOMAIN orgs
  /\ MakeOrg(r.next, r.op)
  /\ reserved' = Assign(reserved, r.op, r.next)
  /\ granted' = granted \cup {[op |-> r.op, org |-> r.next]}
  /\ reserving' = NoRequest

InUse(r) ==
  /\ r.next \in DOMAIN orgs
  /\ reserving' = IF r.wanted # Unset THEN NoRequest ELSE [r EXCEPT !.next = @ + 1]
  /\ UNCHANGED <<orgs, reserved, granted>>

InsertOrg ==
  /\ reserving # NoRequest
  /\ Inserted(reserving) \/ InUse(reserving)
  /\ UNCHANGED <<deviceVars, keyVars, served>>

----------------------------------------------------------------------------
(* The API key of an organisation *)

CheckKey(o, k) ==
  /\ keying = NoRequest
  /\ Serve("key")
  /\ keying' = IF \E x \in DOMAIN apiKey \ {o} : apiKey[x] = k THEN NoRequest
               ELSE [pc |-> "store", org |-> o, key |-> k]
  /\ UNCHANGED <<deviceVars, orgs, reserveVars, apiKey>>

\* The key is unique: if another organisation has it by now, the request fails.
StoreKey ==
  /\ keying # NoRequest
  /\ IF \E x \in DOMAIN apiKey \ {keying.org} : apiKey[x] = keying.key
       THEN UNCHANGED <<apiKey, orgs>>
       ELSE /\ apiKey' = Assign(apiKey, keying.org, keying.key)
            /\ MakeOrg(keying.org, Other)
  /\ keying' = NoRequest
  /\ UNCHANGED <<deviceVars, reserveVars, served>>

DeleteKey(o) ==
  /\ o \in DOMAIN apiKey
  /\ apiKey' = [x \in DOMAIN apiKey \ {o} |-> apiKey[x]]
  /\ UNCHANGED <<deviceVars, orgs, reserveVars, keying, served>>

ProvisionNext ==
  \/ \E h \in Servers, op \in Ops, p \in Payloads : Check(h, op, p)
  \/ \E h \in Servers : StoreDevice(h) \/ Lose(h)
  \/ \E b \in Bulk : ProvisionTerminals(b)
  \/ \E op \in Ops, wanted \in Tenants \cup {Unset}, minimum \in Tenants :
       ReserveOrg(op, wanted, minimum)
  \/ InsertOrg
  \/ \E o \in Tenants, k \in ApiKeys : CheckKey(o, k)
  \/ StoreKey
  \/ \E o \in Tenants : DeleteKey(o)

ProvisionSpec == ProvisionInit /\ [][ProvisionNext]_provisionVars

----------------------------------------------------------------------------
(* An operation_id means one thing: whatever was answered under it, by the
   first request, a replay or the request that lost a race in the database,
   names the same payload and the same device (device_provisioning_service.py,
   the look before and the look after the insertion). *)
OneMeaning ==
  \A a, b \in answered : a.op = b.op => a = b
=============================================================================
