------------------------- MODULE InventoryDelivery -------------------------
(***************************************************************************)
(* The delivery of a terminal's inventory (event 75) to an internal        *)
(* service: a row is written in the transaction of the event, and workers  *)
(* post due rows, one at a time, each under a row lock that another worker *)
(* skips, until the receiver takes the row, refuses it for good, the       *)
(* device is bound to another organisation or thirty days have passed.     *)
(***************************************************************************)
EXTENDS Naturals, Sequences, FiniteSets, SequencesExt

CONSTANTS
  Workers,      \* application processes, each with one delivery loop
  Devices,
  Orgs,
  Events,       \* inventory reports, each with its UUID
  MaxFailures,  \* bound: crashes of a worker and failed commits
  MaxBinds,     \* bound: changes of a device's organisation
  MaxStarts     \* bound: restarts that replay the latest reports

Nobody == "nobody"
NoEvent == "none"

VARIABLES
  owner,     \* organisation of a device
  reports,   \* tb_dev_events with code 75, oldest first: [event, device, org]
  item,      \* tb_terminal_inventory_deliveries: of each event, its row
  due,       \* rows whose next_attempt_at has passed, in that order
  posting,   \* of each worker: the row it has locked and posts
  boot,      \* of each worker: devices its start-up has still to look at
  page,      \* of each worker: the report that its start-up has read
  spent      \* how much of each bound is used

vars == <<owner, reports, item, due, posting, boot, page, spent>>
bootVars == <<boot, page>>

NoRow == [state |-> "absent"]

Init ==
  /\ owner = [d \in Devices |-> CHOOSE o \in Orgs : TRUE]
  /\ reports = <<>>
  /\ item = [e \in Events |-> NoRow]
  /\ due = <<>>
  /\ posting = [w \in Workers |-> NoEvent]
  /\ boot = [w \in Workers |-> {}]
  /\ page = [w \in Workers |-> NoEvent]
  /\ spent = [failures |-> 0, binds |-> 0, starts |-> 0]

----------------------------------------------------------------------------
(* Rows *)

\* The owner comes from the database; a row of the same UUID is left alone.
Enqueued(e, d) ==
  IF owner[d] # Nobody /\ item[e].state = "absent"
    THEN /\ item' = [item EXCEPT ![e] = [state |-> "open", device |-> d,
                                          org |-> owner[d], old |-> FALSE]]
         /\ due' = Append(due, e)
    ELSE UNCHANGED <<item, due>>

\* The event is stored with its owner and enqueued in one transaction.  A
\* repeated event adds no event row but is enqueued again.
Report(e, d) ==
  /\ \A i \in DOMAIN reports : reports[i].event = e => reports[i].device = d
  /\ reports' = IF \E i \in DOMAIN reports : reports[i].event = e THEN reports
                ELSE Append(reports, [event |-> e, device |-> d, org |-> owner[d]])
  /\ Enqueued(e, d)
  /\ reports' # reports \/ item' # item
  /\ UNCHANGED <<owner, posting, bootVars, spent>>

\* A device is bound to another organisation, or deleted.
Bind(d, o) ==
  /\ spent.binds < MaxBinds
  /\ o # owner[d]
  /\ owner' = [owner EXCEPT ![d] = o]
  /\ spent' = [spent EXCEPT !.binds = @ + 1]
  /\ UNCHANGED <<reports, item, due, posting, bootVars>>

----------------------------------------------------------------------------
(* deliver_one *)

Free == SelectSeq(due, LAMBDA e : \A w \in Workers : posting[w] # e)

\* The row that has been due the longest and that no other worker has locked.
Takes(w, e) ==
  /\ posting[w] = NoEvent /\ boot[w] = {} /\ page[w] = NoEvent
  /\ Free # <<>> /\ e = Head(Free)

Closed(e) ==
  /\ item' = [item EXCEPT ![e] = [@ EXCEPT !.state = "finished"]]
  /\ due' = Remove(due, e)

Rebound(e) == owner[item[e].device] # item[e].org

\* Mutant: a row is tried for ever.
NeverTooOld(e) == FALSE

TooOld(e) == item[e].old

Drop(w, e) ==
  /\ Takes(w, e)
  /\ Rebound(e) \/ TooOld(e)
  /\ Closed(e)
  /\ UNCHANGED <<owner, reports, posting, bootVars, spent>>

Post(w, e) ==
  /\ Takes(w, e)
  /\ ~Rebound(e) /\ ~TooOld(e)
  /\ posting' = [posting EXCEPT ![w] = e]
  /\ UNCHANGED <<owner, reports, item, due, bootVars, spent>>

Answer(w) ==
  /\ posting[w] # NoEvent
  /\ posting' = [posting EXCEPT ![w] = NoEvent]
  /\ UNCHANGED <<owner, reports, bootVars, spent>>

\* The receiver took it, or will never take it (a client error other than 401,
\* 403, 404, 408 and 429).
Settled(w) ==
  /\ Answer(w)
  /\ Closed(posting[w])

\* Later again: no answer, a server error, or one of those five.
Retry(w) ==
  /\ Answer(w)
  /\ due' = Remove(due, posting[w])
  /\ UNCHANGED item

\* The transaction is lost: the lock goes, and so does the count of the attempt.
LostTransaction(w) ==
  /\ spent.failures < MaxFailures
  /\ posting[w] # NoEvent
  /\ posting' = [posting EXCEPT ![w] = NoEvent]
  /\ spent' = [spent EXCEPT !.failures = @ + 1]
  /\ UNCHANGED <<owner, reports, item, due, bootVars>>

----------------------------------------------------------------------------
(* Start-up, time *)

Running(w) == boot[w] = {} /\ page[w] = NoEvent

\* The latest report of a device under the organisation it is bound to.
Mine(d) == SelectSeq(reports, LAMBDA r : r.device = d /\ r.org = owner[d] /\ r.org # Nobody)
Latest(d) == IF Mine(d) = <<>> THEN NoEvent ELSE Last(Mine(d)).event

Start(w) ==
  /\ spent.starts < MaxStarts
  /\ posting[w] = NoEvent /\ Running(w)
  /\ boot' = [boot EXCEPT ![w] = Devices]
  /\ spent' = [spent EXCEPT !.starts = @ + 1]
  /\ UNCHANGED <<owner, reports, item, due, posting, page>>

\* One page at a time; here a page is one device.
ReadPage(w, d) ==
  /\ page[w] = NoEvent /\ d \in boot[w]
  /\ boot' = [boot EXCEPT ![w] = @ \ {d}]
  /\ page' = [page EXCEPT ![w] = Latest(d)]
  /\ UNCHANGED <<owner, reports, item, due, posting, spent>>

ReplayPage(w) ==
  /\ page[w] # NoEvent
  /\ \E i \in DOMAIN reports :
       reports[i].event = page[w] /\ Enqueued(page[w], reports[i].device)
  /\ page' = [page EXCEPT ![w] = NoEvent]
  /\ UNCHANGED <<owner, reports, posting, boot, spent>>

\* The replay fails or takes more than a minute: the loop goes on without it.
GiveUp(w) ==
  /\ spent.failures < MaxFailures
  /\ ~Running(w)
  /\ boot' = [boot EXCEPT ![w] = {}]
  /\ page' = [page EXCEPT ![w] = NoEvent]
  /\ spent' = [spent EXCEPT !.failures = @ + 1]
  /\ UNCHANGED <<owner, reports, item, due, posting>>

\* next_attempt_at passes, at most an hour after the attempt.
ComesDue(e) ==
  /\ item[e].state = "open" /\ ~Contains(due, e)
  /\ due' = Append(due, e)
  /\ UNCHANGED <<owner, reports, item, posting, bootVars, spent>>

\* Thirty days after it was created.
Expires(e) ==
  /\ item[e].state = "open" /\ ~item[e].old
  /\ item' = [item EXCEPT ![e].old = TRUE]
  /\ UNCHANGED <<owner, reports, due, posting, bootVars, spent>>

\* Ninety days after it was finished.
Cleanup(e) ==
  /\ item[e].state = "finished"
  /\ item' = [item EXCEPT ![e] = NoRow]
  /\ UNCHANGED <<owner, reports, due, posting, bootVars, spent>>

Work(w) ==
  \/ \E e \in Events : Drop(w, e) \/ Post(w, e)
  \/ Settled(w) \/ Retry(w)
  \/ \E d \in Devices : ReadPage(w, d)
  \/ ReplayPage(w)

Next ==
  \/ \E e \in Events, d \in Devices : Report(e, d)
  \/ \E d \in Devices, o \in Orgs \cup {Nobody} : Bind(d, o)
  \/ \E w \in Workers : Work(w) \/ LostTransaction(w) \/ Start(w) \/ GiveUp(w)
  \/ \E e \in Events : ComesDue(e) \/ Expires(e) \/ Cleanup(e)

(* The loop of each process runs for ever, a post ends within its timeout, and
   time passes.  Nothing says that the receiver ever takes a row. *)
Fairness ==
  /\ \A w \in Workers : WF_vars(Work(w))
  /\ \A e \in Events : WF_vars(ComesDue(e)) /\ WF_vars(Expires(e))

Spec == Init /\ [][Next]_vars /\ Fairness

----------------------------------------------------------------------------
(* Every row is finished in the end, whatever the receiver answers: behind rows
   that fail again and again, with workers that lose their transactions, and
   with other rows enqueued meanwhile (terminal_inventory_delivery.py, order of
   deliver_one and its thirty days). *)
EveryRowFinishes ==
  \A e \in Events : (item[e].state = "open") ~> (item[e].state # "open")
=============================================================================
