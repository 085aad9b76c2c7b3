------------------------------ MODULE Billing -------------------------------
(***************************************************************************)
(* What an organisation is billed by: core/services/billing*.py,           *)
(* core/crud/billing_repo.py, the consumer in internal_bus.py, the monthly *)
(* job of create_api_app.py and the requests of an administrator in        *)
(* api/internal_v1/billing.py.  A statement of the database is a step; a   *)
(* month m begins on date 2 * m, and date 2 * m + 1 is a later day of it.  *)
(***************************************************************************)
EXTENDS Naturals, FiniteSets

CONSTANTS
  Orgs, Devices,
  Codes, Gauges,  \* types of device events, and those that are gauges
  Sizes, BlockSize,  \* of results, in bytes
  Prices, DefaultPrice,  \* coefficients: [device, api, evt, res]
  Consumers, Calculations, Admins,
  FirstMonth, LastMonth, MaxEvents, MaxRepeats, MaxStarts, MaxRequests

ASSUME BillingAssumption ==
  /\ FirstMonth \in Nat /\ LastMonth \in Nat
  /\ MaxEvents \in Nat /\ MaxRepeats \in Nat /\ MaxStarts \in Nat /\ MaxRequests \in Nat

Months == FirstMonth..LastMonth
FirstDay(m) == 2 * m
Dates == FirstDay(FirstMonth)..FirstDay(LastMonth)
NoResult == {}

VARIABLES
  month,        \* the month
  queue,        \* the billing queue: [org, device, type, bytes], with numbers
  handler,      \* what each consumer does
  counter,      \* tb_billing_counters
  active,       \* tb_billing_active_devices: <<org, month, device>>
  price,        \* tb_billing_coefficients: [from, k]
  calc,         \* the calculations that are under way
  change,       \* the changes of coefficients that are under way
  version,      \* how often what a month is billed by has changed (history)
  billingSpent

billingVars == <<month, queue, handler, counter, active, price, calc, change, version,
                 billingSpent>>

NoCounter == [kept |-> FALSE, api |-> 0, evt |-> 0, res |-> 0, blocks |-> 0,
              devices |-> 0, result |-> NoResult, basis |-> 0]
NoEvent == [org |-> "none", device |-> "none", type |-> "none", bytes |-> 0]
NoCount == [step |-> "idle", event |-> NoEvent, seen |-> 0, counted |-> 0]
Rest == [step |-> "idle", month |-> 0, price |-> DefaultPrice, orgs |-> {}, org |-> "none",
         devices |-> 0, row |-> NoCounter, basis |-> 0]
NoChange == [step |-> "idle", from |-> 0, k |-> DefaultPrice]

BillingInit ==
  /\ month = FirstMonth + 1 /\ queue = {} /\ handler = [h \in Consumers |-> NoCount]
  /\ counter = [row \in Orgs \X Months |-> NoCounter] /\ active = {}
  /\ price = {}
  /\ calc = [c \in Calculations |-> Rest] /\ change = [a \in Admins |-> NoChange]
  /\ version = [m \in Months |-> 0]
  /\ billingSpent = [events |-> 0, repeats |-> 0, starts |-> 0, requests |-> 0]

-----------------------------------------------------------------------------
(* What is published, and for which messages.  A publish that fails is     *)
(* only logged.                                                            *)

\* Inventory and update events are not billed, code 0 and gauges are a sign of life.
Infrastructure == {75, 76}
CounterType(code) == IF code # 0 /\ code \notin Gauges THEN "evt" ELSE "activity"

FromDevice(o, d) ==
  [org : {o}, device : {d}, type : {CounterType(c) : c \in Codes \ Infrastructure},
   bytes : {0}]
    \cup [org : {o}, device : {d}, type : {"activity"}, bytes : {0}]  \* ACK, REQ
    \cup [org : {o}, device : {d}, type : {"res"}, bytes : Sizes]
FromClient(o) == [org : {o}, device : {"none"}, type : {"api"}, bytes : {0}]

Publish(e) ==
  /\ billingSpent.events < MaxEvents
  /\ billingSpent' = [billingSpent EXCEPT !.events = @ + 1]
  /\ queue' = queue \cup {<<billingSpent.events, e>>}
  /\ UNCHANGED <<month, handler, counter, active, price, calc, change, version>>

\* An event stays in the queue for ten minutes at most.
LapseEvent(q) ==
  /\ queue' = queue \ {q}
  /\ UNCHANGED <<month, handler, counter, active, price, calc, change, version,
                 billingSpent>>

-----------------------------------------------------------------------------
(* handle_billing_event: one transaction; each statement asks for the date *)
(* by itself.                                                              *)

\* The broker may deliver again what was committed and not acknowledged.
TakeEvent(h, q) ==
  /\ handler[h] = NoCount
  /\ \/ queue' = queue \ {q} /\ UNCHANGED billingSpent
     \/ /\ billingSpent.repeats < MaxRepeats
        /\ billingSpent' = [billingSpent EXCEPT !.repeats = @ + 1]
        /\ UNCHANGED queue
  /\ handler' = [handler EXCEPT ![h] = [NoCount EXCEPT !.step = "activity", !.event = q[2]]]
  /\ UNCHANGED <<month, counter, active, price, calc, change, version>>

RecordActivity(h) ==
  /\ handler[h].step = "activity"
  /\ handler' = [handler EXCEPT ![h].step = "count",
                   ![h].seen = IF handler[h].event.device = "none" THEN 0 ELSE month]
  /\ UNCHANGED <<month, queue, counter, active, price, calc, change, version, billingSpent>>

Count(h) ==
  /\ handler[h].step = "count"
  /\ handler' = [handler EXCEPT ![h].step = "commit",
                   ![h].counted = IF handler[h].event.type = "activity" THEN 0 ELSE month]
  /\ UNCHANGED <<month, queue, counter, active, price, calc, change, version, billingSpent>>

BlocksOf(bytes) == (IF bytes = 0 THEN BlockSize ELSE bytes + BlockSize - 1) \div BlockSize

Counted(row, e) ==
  CASE e.type = "api" -> [row EXCEPT !.kept = TRUE, !.api = @ + 1]
    [] e.type = "evt" -> [row EXCEPT !.kept = TRUE, !.evt = @ + 1]
    [] OTHER -> [row EXCEPT !.kept = TRUE, !.res = @ + 1, !.blocks = @ + BlocksOf(e.bytes)]

Commit(h) ==
  LET e == handler[h].event
      seen == handler[h].seen
      counted == handler[h].counted
  IN /\ handler[h].step = "commit"
     /\ active' = IF seen = 0 THEN active ELSE active \cup {<<e.org, seen, e.device>>}
     /\ counter' = IF counted = 0 THEN counter
                   ELSE [counter EXCEPT ![<<e.org, counted>>] = Counted(@, e)]
     /\ version' = [m \in Months |-> IF m \in {seen, counted} THEN version[m] + 1
                                     ELSE version[m]]
     /\ handler' = [handler EXCEPT ![h] = NoCount]
     /\ UNCHANGED <<month, queue, price, calc, change, billingSpent>>

\* The database refuses: rolled back, logged and acknowledged.
Rollback(h) ==
  /\ handler[h] # NoCount /\ handler' = [handler EXCEPT ![h] = NoCount]
  /\ UNCHANGED <<month, queue, counter, active, price, calc, change, version, billingSpent>>

-----------------------------------------------------------------------------
(* calculate_period: the coefficients and the organisations are read, then *)
(* each organisation is calculated and committed.                          *)

\* Mutant: changes of later dates are in force already.
KnownEver(date) == price

\* get_effective_coefficients
Known(date) == {r \in price : r.from <= date}
LatestPrice(date) == CHOOSE r \in Known(date) : \A s \in Known(date) : s.from <= r.from

Effective(date) == IF Known(date) = {} THEN DefaultPrice ELSE LatestPrice(date).k

CalcAt(c, step) == calc[c].step = step

\* The job of the first day of a month, or an administrator's recalculation.
Calculate(c, m) ==
  /\ CalcAt(c, "idle") /\ billingSpent.starts < MaxStarts
  /\ m <= month
  /\ billingSpent' = [billingSpent EXCEPT !.starts = @ + 1]
  /\ calc' = [calc EXCEPT ![c] = [Rest EXCEPT !.step = "price", !.month = m,
                                    !.basis = version[m]]]
  /\ UNCHANGED <<month, queue, handler, counter, active, price, change, version>>

ReadPrice(c) ==
  /\ CalcAt(c, "price")
  /\ calc' = [calc EXCEPT ![c].step = "orgs",
                ![c].price = Effective(FirstDay(calc[c].month))]
  /\ UNCHANGED <<month, queue, handler, counter, active, price, change, version,
                 billingSpent>>

Seen(o, m) == {d \in Devices : <<o, m, d>> \in active}

ReadOrgs(c) ==
  LET m == calc[c].month IN
  /\ CalcAt(c, "orgs")
  /\ calc' = [calc EXCEPT ![c].step = "next",
                ![c].orgs = {o \in Orgs : counter[<<o, m>>].kept \/ Seen(o, m) # {}}]
  /\ UNCHANGED <<month, queue, handler, counter, active, price, change, version,
                 billingSpent>>

CountDevices(c, o) ==
  /\ CalcAt(c, "next") /\ o \in calc[c].orgs
  /\ calc' = [calc EXCEPT ![c].step = "read", ![c].org = o, ![c].orgs = @ \ {o},
                ![c].devices = Cardinality(Seen(o, calc[c].month))]
  /\ UNCHANGED <<month, queue, handler, counter, active, price, change, version,
                 billingSpent>>

ReadCounter(c) ==
  /\ CalcAt(c, "read")
  /\ calc' = [calc EXCEPT ![c].step = "save",
                ![c].row = counter[<<calc[c].org, calc[c].month>>]]
  /\ UNCHANGED <<month, queue, handler, counter, active, price, change, version,
                 billingSpent>>

Charge(p, devices, row) ==
  devices * p.device + row.api * p.api + row.evt * p.evt + row.blocks * p.res

\* What was counted meanwhile stays in the row.
Saved(row, c) ==
  [row EXCEPT !.kept = TRUE, !.devices = calc[c].devices,
     !.result = {Charge(calc[c].price, calc[c].devices, calc[c].row)},
     !.basis = calc[c].basis]

Save(c) ==
  /\ CalcAt(c, "save")
  /\ counter' = [counter EXCEPT ![<<calc[c].org, calc[c].month>>] = Saved(@, c)]
  /\ calc' = [calc EXCEPT ![c].step = "next"]
  /\ UNCHANGED <<month, queue, handler, active, price, change, version, billingSpent>>

\* All organisations are done, or a statement failed: the rest stay as they were.
Finish(c) ==
  /\ ~CalcAt(c, "idle") /\ calc' = [calc EXCEPT ![c] = Rest]
  /\ UNCHANGED <<month, queue, handler, counter, active, price, change, version,
                 billingSpent>>

-----------------------------------------------------------------------------
(* set_coefficients: not for a date within this month, nor for one that    *)
(* would change what this month is billed by.                              *)

Ask(a, d, p) ==
  /\ change[a] = NoChange /\ billingSpent.requests < MaxRequests
  /\ ~(FirstDay(month) <= d /\ d < FirstDay(month + 1))
  /\ billingSpent' = [billingSpent EXCEPT !.requests = @ + 1]
  /\ change' = [change EXCEPT ![a] = [step |-> "look", from |-> d, k |-> p]]
  /\ UNCHANGED <<month, queue, handler, counter, active, price, calc, version>>

\* coefficient_change_affects_period
Affects(d, m) ==
  d <= FirstDay(m) /\ (Known(FirstDay(m)) # {} => d >= LatestPrice(FirstDay(m)).from)

Look(a) ==
  /\ change[a].step = "look"
  /\ change' = IF Affects(change[a].from, month) THEN [change EXCEPT ![a] = NoChange]
                ELSE [change EXCEPT ![a].step = "write"]
  /\ UNCHANGED <<month, queue, handler, counter, active, price, calc, version,
                 billingSpent>>

WritePrice(a) ==
  /\ change[a].step = "write"
  /\ price' = {r \in price : r.from # change[a].from}
                \cup {[from |-> change[a].from, k |-> change[a].k]}
  /\ version' = [m \in Months |-> IF change[a].from <= FirstDay(m) THEN version[m] + 1
                                  ELSE version[m]]
  /\ change' = [change EXCEPT ![a] = NoChange]
  /\ UNCHANGED <<month, queue, handler, counter, active, calc, billingSpent>>

NextMonth ==
  /\ month < LastMonth /\ month' = month + 1
  /\ UNCHANGED <<queue, handler, counter, active, price, calc, change, version,
                 billingSpent>>

BillingNext ==
  \/ \E o \in Orgs : \E e \in FromClient(o) \cup UNION {FromDevice(o, d) : d \in Devices} :
       Publish(e)
  \/ \E q \in queue : LapseEvent(q)
  \/ \E h \in Consumers :
       \/ \E q \in queue : TakeEvent(h, q)
       \/ RecordActivity(h) \/ Count(h) \/ Commit(h) \/ Rollback(h)
  \/ \E c \in Calculations :
       \/ \E m \in Months : Calculate(c, m)
       \/ ReadPrice(c) \/ ReadOrgs(c) \/ \E o \in Orgs : CountDevices(c, o)
       \/ ReadCounter(c) \/ Save(c) \/ Finish(c)
  \/ \E a \in Admins :
       \/ \E d \in Dates, p \in Prices : Ask(a, d, p)
       \/ Look(a) \/ WritePrice(a)
  \/ NextMonth

BillingSpec == BillingInit /\ [][BillingNext]_billingVars

-----------------------------------------------------------------------------
\* A result that was calculated from what has not changed since the calculation began is
\* what the newest coefficients in force at the start of its month, the active devices and
\* the counters give, also when events are counted and results saved at the same time
\* (calculate_period, save_calculation).
ResultTrue ==
  \A o \in Orgs, m \in Months :
    LET row == counter[<<o, m>>] IN
    row.result # NoResult /\ row.basis = version[m] =>
      \E p \in Prices \cup {DefaultPrice} :
        /\ row.result = {Charge(p, Cardinality(Seen(o, m)), row)}
        /\ \/ \E r \in price :
                /\ r.k = p /\ r.from <= FirstDay(m)
                /\ \A s \in price : r.from < s.from => FirstDay(m) < s.from
           \/ p = DefaultPrice /\ \A s \in price : FirstDay(m) < s.from
=============================================================================
