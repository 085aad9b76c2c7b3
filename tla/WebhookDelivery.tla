-------------------------- MODULE WebhookDelivery --------------------------
(***************************************************************************)
(* Delivery of RPC results to the webhook of an organisation: the table    *)
(* tb_rpc_result_webhooks as an outbox, and the delivery_loop of every     *)
(* worker process.                                                         *)
(*                                                                         *)
(* deliver_one is one transaction: it locks a due row with FOR UPDATE SKIP *)
(* LOCKED, posts, and writes the outcome.  The lock is held during the     *)
(* POST; a worker that dies rolls back, and the POST it made is forgotten. *)
(***************************************************************************)
EXTENDS Integers, Sequences, FiniteSets

CONSTANTS
  Workers,      \* processes that run delivery_loop
  MaxResults,   \* bound of the results that get a row
  RetryDelays,  \* RETRY_DELAYS
  Life,         \* the time from the insertion of a row to its expires_at
  Timeout,      \* the longest an HTTP request may take
  Horizon,      \* bound of the clock
  MaxCrashes    \* bound of the transactions that fail

ASSUME DeliveryAssumption ==
  /\ MaxResults \in Nat /\ Horizon \in Nat /\ MaxCrashes \in Nat
  /\ RetryDelays \in Seq(Nat \ {0})
  /\ Life \in Nat \ {0} /\ Timeout \in Nat \ {0}

VARIABLES
  now,       \* clock_timestamp()
  hook,      \* the OrgWebhook row of the organisation
  row,       \* the delivery rows, a function from result ids
  nextId,    \* the serial of the results
  worker,    \* the transaction of each worker
  crashes,   \* how many transactions have failed
  received,  \* how often each result has reached the receiver
  tries      \* when the committed attempts of each result were begun

vars == <<now, hook, row, nextId, worker, crashes, received, tries>>

Ids == 1..MaxResults
MaxAttempts == Len(RetryDelays) + 1

Row == [attempts: 0..MaxAttempts, next: Nat, expires: Nat, finished: BOOLEAN,
        error: {"none", "expired", "disabled", "retryable", "refused", "unsendable"}]

\* The ends of an attempt: what the receiver said, a connection error or timeout
\* (retryable), or another exception of the client (unsendable).
Answers == {"ok", "retryable", "refused", "unsendable"}

\* since is the clock_timestamp() that was read with the row.
WorkerState ==
  [pc: {"idle"}]
    \cup [pc: {"post", "posted"}, id: Ids, since: Nat]
    \cup [pc: {"answered"}, id: Ids, since: Nat, answer: Answers]

Idle == [pc |-> "idle"]
Busy == {w \in Workers : worker[w].pc # "idle"}
Held == {worker[w].id : w \in Busy}
Posting == {w \in Busy : worker[w].pc \in {"post", "posted"}}

Goto(w, state) == worker' = [worker EXCEPT ![w] = state]
Finish(r, error) == [r EXCEPT !.finished = TRUE, !.error = error]

Min2(a, b) == IF a <= b THEN a ELSE b

-----------------------------------------------------------------------------
(* The rows come from record_result, the subscription from the organisation *)

Enqueue ==
  /\ nextId <= MaxResults /\ now + Life <= Horizon
  /\ hook = "active"
  /\ row' = [i \in DOMAIN row \cup {nextId} |->
               IF i = nextId
               THEN [attempts |-> 0, next |-> now, expires |-> now + Life,
                     finished |-> FALSE, error |-> "none"]
               ELSE row[i]]
  /\ nextId' = nextId + 1
  /\ UNCHANGED <<now, hook, worker, crashes, received, tries>>

\* create_or_update: a new subscription, or is_active of the present one.
Subscribe(active) ==
  /\ hook' = IF active THEN "active" ELSE "disabled"
  /\ UNCHANGED <<now, row, nextId, worker, crashes, received, tries>>

\* The deletion cascades to the delivery rows and waits for their locks.
Unsubscribe ==
  /\ hook # "absent" /\ Held = {}
  /\ hook' = "absent"
  /\ row' = [i \in {} |-> {}]
  /\ UNCHANGED <<now, nextId, worker, crashes, received, tries>>

-----------------------------------------------------------------------------
(* deliver_one *)

\* Mutant: an expired row is not selected any more.
DueInTime == {i \in DOMAIN row : /\ ~row[i].finished
                                 /\ row[i].next <= now /\ now < row[i].expires}

Due == {i \in DOMAIN row : ~row[i].finished /\ row[i].next <= now}

Eligible == Due \ Held

\* ORDER BY next_attempt_at, result_id LIMIT 1
Before(i, j) ==
  \/ row[i].next < row[j].next
  \/ row[i].next = row[j].next /\ i <= j

Oldest(i) == i \in Eligible /\ \A j \in Eligible : Before(i, j)

Void(i) == now >= row[i].expires \/ hook # "active"

\* Nothing is posted: the row is finished in the same transaction.
Discard(w) ==
  /\ worker[w].pc = "idle"
  /\ \E i \in DOMAIN row :
       /\ Oldest(i) /\ Void(i)
       /\ row' = [row EXCEPT ![i] =
                    Finish(@, IF now >= @.expires THEN "expired" ELSE "disabled")]
  /\ UNCHANGED <<now, hook, nextId, worker, crashes, received, tries>>

Select(w) ==
  /\ worker[w].pc = "idle"
  /\ \E i \in DOMAIN row :
       /\ Oldest(i) /\ ~Void(i)
       /\ Goto(w, [pc |-> "post", id |-> i, since |-> now])
  /\ UNCHANGED <<now, hook, row, nextId, crashes, received, tries>>

\* The request reaches the receiver.
Arrive(w) ==
  /\ worker[w].pc = "post"
  /\ received' = [received EXCEPT ![worker[w].id] = @ + 1]
  /\ Goto(w, [worker[w] EXCEPT !.pc = "posted"])
  /\ UNCHANGED <<now, hook, row, nextId, crashes, tries>>

\* A connection error or timeout is retryable, whether the request had arrived
\* or not; a status code comes from the receiver: 408, 425, 429 and 5xx are
\* retryable, the others refuse the result.  Any other exception (a URL or a
\* header no request can be built from) ends the attempt before it is sent.
Answer(w) ==
  /\ w \in Posting
  /\ \E answer \in Answers :
       /\ answer \in {"ok", "refused"} => worker[w].pc = "posted"
       /\ answer = "unsendable" => worker[w].pc = "post"
       /\ Goto(w, [pc |-> "answered", id |-> worker[w].id,
                   since |-> worker[w].since, answer |-> answer])
  /\ UNCHANGED <<now, hook, row, nextId, crashes, received, tries>>

\* Mutant: a timeout is taken for a success.
SucceededOrTimeout(answer) == answer \in {"ok", "retryable"}

Succeeded(answer) == answer = "ok"

Retriable(answer, attempts) == answer = "retryable" /\ attempts <= Len(RetryDelays)

\* Mutant: every retry waits for the first delay.
FirstDelay(attempts) == RetryDelays[1]

Delay(attempts) == RetryDelays[attempts]

Tried(r) == [r EXCEPT !.attempts = @ + 1]

\* attempts, next_attempt_at, finished_at and last_error after the POST
AfterAttempt(r, since, answer) ==
  LET tried == Tried(r)
  IN  CASE Succeeded(answer) -> Finish(tried, "none")
        [] ~Succeeded(answer) /\ Retriable(answer, tried.attempts) ->
             [tried EXCEPT !.next = Min2(since + Delay(tried.attempts), tried.expires),
                           !.error = answer]
        [] ~Succeeded(answer) /\ ~Retriable(answer, tried.attempts) ->
             Finish(tried, answer)

Commit(w) ==
  /\ worker[w].pc = "answered"
  /\ LET s == worker[w]
     IN  /\ row' = [row EXCEPT ![s.id] = AfterAttempt(@, s.since, s.answer)]
         /\ tries' = [tries EXCEPT ![s.id] = Append(@, s.since)]
  /\ Goto(w, Idle)
  /\ UNCHANGED <<now, hook, nextId, crashes, received>>

\* The process dies, or the commit fails: the row is as it was, and unlocked.
Crash(w) ==
  /\ w \in Busy /\ crashes < MaxCrashes
  /\ crashes' = crashes + 1
  /\ Goto(w, Idle)
  /\ UNCHANGED <<now, hook, row, nextId, received, tries>>

\* asyncio.timeout ends a POST after Timeout at the latest.
Tick ==
  /\ now < Horizon
  /\ \A w \in Posting : now < worker[w].since + Timeout
  /\ now' = now + 1
  /\ UNCHANGED <<hook, row, nextId, worker, crashes, received, tries>>

Init ==
  /\ now = 0 /\ hook = "active"
  /\ row = [i \in {} |-> {}] /\ nextId = 1
  /\ worker = [w \in Workers |-> Idle]
  /\ crashes = 0
  /\ received = [i \in Ids |-> 0]
  /\ tries = [i \in Ids |-> << >>]

Deliver(w) == Discard(w) \/ Select(w) \/ Arrive(w) \/ Answer(w) \/ Commit(w)

Next ==
  \/ Tick \/ Enqueue \/ Unsubscribe
  \/ \E active \in BOOLEAN : Subscribe(active)
  \/ \E w \in Workers : Deliver(w) \/ Crash(w)

Spec == Init /\ [][Next]_vars

\* Time passes, requests end, and every worker polls the table for ever.
FairSpec ==
  /\ Spec /\ WF_vars(Tick)
  /\ \A w \in Workers : WF_vars(Deliver(w))

-----------------------------------------------------------------------------
(* Properties *)

\* Rows and workers have their types; an attempt beyond the last is never made.
TypeOK ==
  /\ now \in 0..Horizon
  /\ hook \in {"absent", "active", "disabled"}
  /\ DOMAIN row \subseteq Ids
  /\ \A i \in DOMAIN row : row[i] \in Row
  /\ nextId \in 1..(MaxResults + 1)
  /\ worker \in [Workers -> WorkerState]
  /\ crashes \in 0..MaxCrashes
  /\ received \in [Ids -> Nat]
  /\ tries \in [Ids -> Seq(Nat)]

\* A row is in the hands of one worker at most, also while it waits for the
\* receiver, and it is still open there.
OneWorkerPerRow ==
  \A w \in Busy : /\ worker[w].id \in DOMAIN row
                  /\ ~row[worker[w].id].finished
                  /\ \A v \in Busy : worker[v].id = worker[w].id => v = w

\* The receiver sees a result again only after an answer that asked for it, or
\* after a transaction that failed: beside these it has got the result once.
DuplicatesExplained ==
  \A i \in DOMAIN row :
    received[i] <= row[i].attempts + crashes + (IF i \in Held THEN 1 ELSE 0)

\* Committed attempts of a row keep the distances of RETRY_DELAYS, whichever
\* workers made them, and all of them were begun before the row expired.
BackoffKept ==
  \A i \in DOMAIN row :
    /\ Len(tries[i]) = row[i].attempts
    /\ \A k \in 1..Len(tries[i]) :
         /\ tries[i][k] < row[i].expires
         /\ k > 1 => tries[i][k] - tries[i][k - 1] >= RetryDelays[k - 1]

\* A row is closed for a reason: the receiver has got the result and accepted or
\* refused it, the row has expired, the attempts are used up, the subscription
\* was switched off, or no request could be built.  In the last case the receiver
\* may never have heard of the result, and no attempt is left.
ClosedForAReason ==
  \A i \in DOMAIN row : row[i].finished =>
    /\ row[i].error \in {"none", "refused"} => received[i] > 0
    /\ row[i].error = "expired" => now >= row[i].expires
    /\ row[i].error = "retryable" => row[i].attempts = MaxAttempts

\* A closed row is never opened, changed or posted again.
ClosedIsFinal ==
  [][\A i \in DOMAIN row : row[i].finished =>
       /\ received'[i] = received[i]
       /\ i \in DOMAIN row' => row'[i] = row[i]]_vars

(***************************************************************************)
(* The invariants above are not inductive: they need what the worker that  *)
(* holds a row knows of it.                                                *)
(***************************************************************************)

\* A row that may be tried again has a try left; rows that do not exist yet have
\* not been sent.
RowsBacked ==
  /\ \A i \in DOMAIN row :
       i < nextId /\ (~row[i].finished => row[i].attempts < MaxAttempts)
  /\ \A i \in Ids : i >= nextId => received[i] = 0 /\ tries[i] = << >>

\* The request of this attempt has arrived, or may have.
Sent(i) == \E w \in Workers : worker[w].pc \in {"posted", "answered"} /\ worker[w].id = i

\* As DuplicatesExplained, but an attempt counts from its arrival only.
ArrivalsCounted ==
  \A i \in DOMAIN row :
    received[i] <= row[i].attempts + crashes + (IF Sent(i) THEN 1 ELSE 0)

\* An answer that a receiver gave comes from one that has got the result.
AnswersBacked ==
  \A w \in Busy :
    worker[w].pc = "posted" \/ (worker[w].pc = "answered" /\ worker[w].answer \in {"ok", "refused"})
      => received[worker[w].id] > 0

\* The delay after k attempts, the last of them begun at since.
Waited(i, since) ==
  row[i].attempts > 0 => since - tries[i][row[i].attempts] >= RetryDelays[row[i].attempts]

\* An open row is due when its delay is over or when it expires, whichever comes
\* first; an attempt under way was begun after the delay and before the expiry.
AttemptsSpaced ==
  /\ \A i \in DOMAIN row :
       ~row[i].finished /\ row[i].next < row[i].expires => Waited(i, row[i].next)
  /\ \A w \in Busy : /\ worker[w].since < row[worker[w].id].expires
                      /\ Waited(worker[w].id, worker[w].since)

\* The inductive invariant of WebhookDeliveryProofs.
DeliveryInv ==
  /\ TypeOK /\ OneWorkerPerRow /\ RowsBacked /\ AnswersBacked /\ ArrivalsCounted
  /\ ClosedForAReason /\ BackoffKept /\ AttemptsSpaced

\* How a row stands in the eyes of the receiver.
Outcome(r) ==
  IF ~r.finished THEN "open" ELSE IF r.error = "none" THEN "delivered" ELSE "abandoned"

Standing(i) ==
  IF i \in DOMAIN row THEN Outcome(row[i])
  ELSE IF i < nextId THEN "forgotten" ELSE "absent"

Promise == INSTANCE AtLeastOnce WITH
  Items    <- Ids,
  status   <- [i \in Ids |-> Standing(i)],
  received <- {i \in Ids : received[i] > 0}

\* The table is an outbox of the kind AtLeastOnce describes: a result arrives only
\* while its row is open, and is called delivered only after it has arrived.
Outbox == Promise!Spec

\* No row stays open for ever, even if workers die and the receiver never answers.
EveryItemCloses == Promise!EveryItemCloses
=============================================================================
