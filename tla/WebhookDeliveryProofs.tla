----------------------- MODULE WebhookDeliveryProofs -----------------------
(* Theorems about WebhookDelivery and LeaseService, for every value of their constants. *)
EXTENDS WebhookDelivery, LeaseService, TLAPS

-----------------------------------------------------------------------------
(* Lemmas about delays, rows and workers *)

\* The delays are positive numbers, and there is one more attempt than delays.
LEMMA Delays ==
  ASSUME DeliveryAssumption
  PROVE  /\ Len(RetryDelays) \in Nat
         /\ MaxAttempts \in Nat /\ MaxAttempts = Len(RetryDelays) + 1
         /\ \A k \in 1..Len(RetryDelays) : RetryDelays[k] \in Nat /\ RetryDelays[k] > 0
<1>1. RetryDelays \in Seq(Nat \ {0})
  BY DEF DeliveryAssumption
<1>2. Len(RetryDelays) \in Nat
  BY <1>1
<1>3. \A k \in 1..Len(RetryDelays) : RetryDelays[k] \in Nat \ {0}
  BY <1>1
<1>4. QED
  BY <1>2, <1>3 DEF MaxAttempts

\* The local variables of a worker that is busy.
LEMMA WorkerShape ==
  ASSUME NEW s \in WorkerState, s.pc # "idle"
  PROVE  /\ s.pc \in {"post", "posted", "answered"}
         /\ s.id \in Ids /\ s.since \in Nat
         /\ s.pc = "answered" => s.answer \in Answers
BY DEF WorkerState

\* Finishing a row keeps its attempts and its expiry.
LEMMA FinishedRow ==
  ASSUME NEW r \in Row,
         NEW e \in {"none", "expired", "disabled", "retryable", "refused", "unsendable"}
  PROVE  /\ Finish(r, e) \in Row
         /\ Finish(r, e).finished /\ Finish(r, e).error = e
         /\ Finish(r, e).attempts = r.attempts /\ Finish(r, e).expires = r.expires
BY DEF Finish, Row

\* A busy worker holds an open row that has a try left.
LEMMA HeldRow ==
  ASSUME DeliveryInv, NEW w \in Busy
  PROVE  /\ w \in Workers /\ worker[w] \in WorkerState
         /\ worker[w].pc \in {"post", "posted", "answered"}
         /\ worker[w].id \in Ids /\ worker[w].id \in DOMAIN row
         /\ worker[w].since \in Nat
         /\ worker[w].pc = "answered" => worker[w].answer \in Answers
         /\ row[worker[w].id] \in Row
         /\ ~row[worker[w].id].finished /\ row[worker[w].id].attempts < MaxAttempts
         /\ \A v \in Busy : worker[v].id = worker[w].id => v = w
<1>1. w \in Workers /\ worker[w] \in WorkerState /\ worker[w].pc # "idle"
  BY DEF DeliveryInv, TypeOK, Busy
<1>2. worker[w].id \in DOMAIN row /\ ~row[worker[w].id].finished
  BY DEF DeliveryInv, OneWorkerPerRow
<1>3. \A v \in Busy : worker[v].id = worker[w].id => v = w
  BY DEF DeliveryInv, OneWorkerPerRow
<1>4. row[worker[w].id] \in Row /\ row[worker[w].id].attempts < MaxAttempts
  BY <1>2 DEF DeliveryInv, TypeOK, RowsBacked
<1>5. QED
  BY <1>1, <1>2, <1>3, <1>4, WorkerShape

-----------------------------------------------------------------------------
(* The inductive invariant *)

\* Nothing is stored and nobody works.
LEMMA DeliveryInit == DeliveryAssumption /\ Init => DeliveryInv
<1> SUFFICES ASSUME DeliveryAssumption, Init
             PROVE  DeliveryInv
  OBVIOUS
<1>1. DOMAIN row = {} /\ Busy = {} /\ Held = {}
  BY DEF Init, Busy, Held, Idle
<1>2. TypeOK
  <2>1. \A w \in Workers : Idle \in WorkerState
    BY DEF Idle, WorkerState
  <2>2. worker \in [Workers -> WorkerState]
    BY <2>1 DEF Init
  <2>3. /\ now \in 0..Horizon /\ nextId \in 1..(MaxResults + 1) /\ crashes \in 0..MaxCrashes
    BY DEF Init, DeliveryAssumption
  <2>4. received \in [Ids -> Nat] /\ tries \in [Ids -> Seq(Nat)]
    BY DEF Init
  <2>5. QED
    BY <1>1, <2>2, <2>3, <2>4 DEF Init, TypeOK
<1>3. RowsBacked
  BY <1>1 DEF RowsBacked, Init
<1>4. OneWorkerPerRow /\ AnswersBacked /\ ArrivalsCounted
  BY <1>1 DEF OneWorkerPerRow, AnswersBacked, ArrivalsCounted
<1>5. ClosedForAReason /\ BackoffKept /\ AttemptsSpaced
  BY <1>1 DEF ClosedForAReason, BackoffKept, AttemptsSpaced
<1>6. QED
  BY <1>2, <1>3, <1>4, <1>5 DEF DeliveryInv

\* Time and the subscription may change at any moment: no row depends on them.
LEMMA QuietStep ==
  ASSUME DeliveryAssumption, DeliveryInv,
         UNCHANGED <<row, nextId, worker, crashes, received, tries>>,
         now' \in 0..Horizon, now' >= now, hook' \in {"absent", "active", "disabled"}
  PROVE  DeliveryInv'
<1>1. now \in Int /\ now' \in Int
  BY DEF DeliveryInv, TypeOK, DeliveryAssumption
<1>2. TypeOK'
  BY DEF DeliveryInv, TypeOK
<1>3. OneWorkerPerRow' /\ AnswersBacked'
  BY DEF DeliveryInv, OneWorkerPerRow, AnswersBacked, Busy
<1>4. RowsBacked'
  BY DEF DeliveryInv, RowsBacked
<1>5. ArrivalsCounted'
  BY DEF DeliveryInv, ArrivalsCounted, Sent
<1>6. ClosedForAReason'
  <2> SUFFICES ASSUME NEW i \in DOMAIN row, row[i].finished,
                      row[i].error = "expired"
               PROVE  now' >= row[i].expires
    BY DEF DeliveryInv, ClosedForAReason
  <2>1. now >= row[i].expires
    BY DEF DeliveryInv, ClosedForAReason
  <2>2. row[i].expires \in Int
    BY SMTT(60) DEF DeliveryInv, TypeOK, Row
  <2>3. QED
    BY <1>1, <2>1, <2>2
<1>7. BackoffKept' /\ AttemptsSpaced'
  BY DEF DeliveryInv, BackoffKept, AttemptsSpaced, Waited, Busy
<1>8. QED
  BY <1>2, <1>3, <1>4, <1>5, <1>6, <1>7 DEF DeliveryInv

\* A new row is open, untried and unsent; the others stay as they are.
LEMMA EnqueueStep ==
  ASSUME DeliveryAssumption, DeliveryInv, Enqueue
  PROVE  DeliveryInv'
<1>1. /\ nextId \in Ids /\ nextId' = nextId + 1 /\ now \in Nat /\ now + Life \in Nat
      /\ UNCHANGED <<now, hook, worker, crashes, received, tries>>
  BY SMTT(60) DEF DeliveryInv, TypeOK, Enqueue, DeliveryAssumption, Ids
<1>2. nextId \notin DOMAIN row
  BY <1>1 DEF DeliveryInv, RowsBacked, Ids
<1>3. /\ DOMAIN row' = DOMAIN row \cup {nextId}
      /\ row'[nextId] = [attempts |-> 0, next |-> now, expires |-> now + Life,
                         finished |-> FALSE, error |-> "none"]
      /\ \A i \in DOMAIN row : row'[i] = row[i]
  BY <1>2 DEF Enqueue
<1>4. row'[nextId] \in Row
  BY <1>1, <1>3, Delays DEF Row
<1>5. Busy' = Busy /\ Held' = Held /\ \A i : Sent(i)' <=> Sent(i)
  BY <1>1 DEF Busy, Held, Sent
<1>6. received[nextId] = 0 /\ tries[nextId] = << >>
  BY <1>1 DEF DeliveryInv, RowsBacked, Ids
<1>7. TypeOK'
  <2>1. nextId' \in 1..(MaxResults + 1)
    BY <1>1 DEF DeliveryAssumption, Ids
  <2>2. DOMAIN row' \subseteq Ids /\ \A i \in DOMAIN row' : row'[i] \in Row
    BY <1>1, <1>3, <1>4 DEF DeliveryInv, TypeOK
  <2>3. QED
    BY <1>1, <2>1, <2>2 DEF DeliveryInv, TypeOK
<1>8. OneWorkerPerRow' /\ AnswersBacked'
  BY <1>1, <1>3, <1>5 DEF DeliveryInv, OneWorkerPerRow, AnswersBacked
<1>9. RowsBacked'
  <2>1. nextId \in Int /\ \A i \in DOMAIN row : i \in Int
    BY <1>1 DEF DeliveryInv, TypeOK, Ids
  <2>2. \A i \in DOMAIN row' : i < nextId'
    BY <1>1, <1>3, <2>1 DEF DeliveryInv, RowsBacked
  <2>3. \A i \in DOMAIN row' : ~row'[i].finished => row'[i].attempts < MaxAttempts
    BY <1>3, Delays DEF DeliveryInv, RowsBacked
  <2>4. \A i \in Ids : i >= nextId' => received'[i] = 0 /\ tries'[i] = << >>
    BY <1>1, <2>1 DEF DeliveryInv, RowsBacked, Ids
  <2>5. QED
    BY <2>2, <2>3, <2>4 DEF RowsBacked
<1>10. ArrivalsCounted'
  <2>1. crashes \in Nat
    BY DEF DeliveryInv, TypeOK, DeliveryAssumption
  <2>2. QED
    BY <1>1, <1>3, <1>5, <1>6, <2>1 DEF DeliveryInv, ArrivalsCounted
<1>11. ClosedForAReason'
  BY <1>1, <1>3 DEF DeliveryInv, ClosedForAReason
<1>12. BackoffKept'
  BY SMTT(60), <1>1, <1>3, <1>6 DEF DeliveryInv, BackoffKept
<1>13. AttemptsSpaced'
  <2>1. \A w \in Busy : worker[w].id \in DOMAIN row
    BY HeldRow
  <2>2. QED
    BY SMTT(90), <1>1, <1>3, <1>5, <2>1 DEF DeliveryInv, AttemptsSpaced, Waited
<1>14. QED
  BY <1>7, <1>8, <1>9, <1>10, <1>11, <1>12, <1>13 DEF DeliveryInv

\* The rows go with the subscription, at a moment when nobody holds one.
LEMMA UnsubscribeStep ==
  ASSUME DeliveryAssumption, DeliveryInv, Unsubscribe
  PROVE  DeliveryInv'
<1>1. DOMAIN row' = {} /\ hook' = "absent"
      /\ UNCHANGED <<now, nextId, worker, crashes, received, tries>>
  BY DEF Unsubscribe
<1>2. Busy' = {}
  BY <1>1 DEF Unsubscribe, Held, Busy
<1>3. TypeOK'
  BY <1>1 DEF DeliveryInv, TypeOK
<1>4. RowsBacked'
  BY <1>1 DEF DeliveryInv, RowsBacked
<1>5. OneWorkerPerRow' /\ AnswersBacked' /\ ArrivalsCounted'
  BY <1>1, <1>2 DEF OneWorkerPerRow, AnswersBacked, ArrivalsCounted
<1>6. ClosedForAReason' /\ BackoffKept' /\ AttemptsSpaced'
  BY <1>1, <1>2 DEF ClosedForAReason, BackoffKept, AttemptsSpaced
<1>7. QED
  BY <1>3, <1>4, <1>5, <1>6 DEF DeliveryInv

\* The attempts of a row are recorded as numbers.
LEMMA TryTyped ==
  ASSUME DeliveryInv, NEW i \in DOMAIN row
  PROVE  /\ i \in Ids /\ row[i] \in Row /\ row[i].attempts \in Nat
         /\ tries[i] \in Seq(Nat) /\ Len(tries[i]) = row[i].attempts
         /\ \A k \in 1..row[i].attempts : tries[i][k] \in Nat
<1>1. i \in Ids /\ row[i] \in Row /\ tries[i] \in Seq(Nat)
  BY DEF DeliveryInv, TypeOK
<1>2. row[i].attempts \in Nat
  BY <1>1 DEF Row
<1>3. Len(tries[i]) = row[i].attempts
  BY DEF DeliveryInv, BackoffKept
<1>4. QED
  BY SMTT(60), <1>1, <1>2, <1>3

\* Steps of a worker that change no row: what it takes over must be covered.
LEMMA WorkerStep ==
  ASSUME DeliveryInv, NEW w \in Workers, NEW s \in WorkerState, Goto(w, s),
         UNCHANGED <<now, hook, row, nextId, tries>>,
         crashes' \in 0..MaxCrashes,
         received' \in [Ids -> Nat],
         \A i \in Ids : received'[i] >= received[i],
         \A i \in Ids : i \notin DOMAIN row => received'[i] = received[i],
         s.pc # "idle" =>
           /\ s.id \in DOMAIN row /\ ~row[s.id].finished
           /\ \A v \in Busy : worker[v].id = s.id => v = w
           /\ s.since < row[s.id].expires /\ Waited(s.id, s.since)
           /\ s.pc = "posted" \/ (s.pc = "answered" /\ s.answer \in {"ok", "refused"})
                => received'[s.id] > 0,
         ArrivalsCounted'
  PROVE  DeliveryInv'
<1>1. /\ worker'[w] = s /\ \A v \in Workers \ {w} : worker'[v] = worker[v]
      /\ worker' \in [Workers -> WorkerState]
  BY DEF DeliveryInv, TypeOK, Goto
<1>2. \A v \in Busy' : v \in Workers /\ (v # w => v \in Busy)
  BY <1>1 DEF Busy
<1>3. w \in Busy' => s.pc # "idle"
  BY <1>1 DEF Busy
<1>4. \A i \in Ids : received[i] \in Nat /\ received'[i] \in Nat
  BY DEF DeliveryInv, TypeOK
<1>5. DOMAIN row \subseteq Ids
  BY DEF DeliveryInv, TypeOK
<1>6. TypeOK'
  BY <1>1 DEF DeliveryInv, TypeOK
<1>7. OneWorkerPerRow'
  BY <1>1, <1>2, <1>3 DEF DeliveryInv, OneWorkerPerRow
<1>8. RowsBacked'
  <2>1. \A i \in Ids : i >= nextId => i \notin DOMAIN row
    BY DEF DeliveryInv, RowsBacked, TypeOK, Ids
  <2>2. QED
    BY <2>1 DEF DeliveryInv, RowsBacked
<1>9. AnswersBacked'
  <2> SUFFICES ASSUME NEW v \in Busy',
                      \/ worker'[v].pc = "posted"
                      \/ worker'[v].pc = "answered" /\ worker'[v].answer \in {"ok", "refused"}
               PROVE  received'[worker'[v].id] > 0
    BY DEF AnswersBacked
  <2>1. CASE v = w
    BY <1>1, <1>3, <2>1
  <2>2. CASE v # w
    <3>1. v \in Busy /\ worker'[v] = worker[v] /\ worker[v].id \in Ids
      BY <1>1, <1>2, <2>2, HeldRow
    <3>2. received[worker[v].id] > 0
      BY <3>1 DEF DeliveryInv, AnswersBacked
    <3>3. QED
      BY <1>4, <3>1, <3>2
  <2>3. QED
    BY <2>1, <2>2
<1>10. ClosedForAReason'
  BY <1>4, <1>5 DEF DeliveryInv, ClosedForAReason
<1>11. BackoffKept'
  BY DEF DeliveryInv, BackoffKept
<1>12. AttemptsSpaced'
  <2>1. \A i \in DOMAIN row : \A t : Waited(i, t)' <=> Waited(i, t)
    BY DEF Waited
  <2>2. \A v \in Busy' : /\ worker'[v].since < row[worker'[v].id].expires
                         /\ Waited(worker'[v].id, worker'[v].since)
    BY <1>1, <1>2, <1>3 DEF DeliveryInv, AttemptsSpaced
  <2>3. QED
    BY <2>2 DEF DeliveryInv, AttemptsSpaced, Waited
<1>13. QED
  BY <1>6, <1>7, <1>8, <1>9, <1>10, <1>11, <1>12 DEF DeliveryInv

\* A worker takes a row that nobody holds, when its delay is over.
LEMMA SelectStep ==
  ASSUME DeliveryAssumption, DeliveryInv, NEW w \in Workers, Select(w)
  PROVE  DeliveryInv'
<1>1. PICK i \in DOMAIN row :
        /\ Oldest(i) /\ ~Void(i)
        /\ Goto(w, [pc |-> "post", id |-> i, since |-> now])
  BY DEF Select
<1> DEFINE s == [pc |-> "post", id |-> i, since |-> now]
<1>2. /\ worker[w].pc = "idle" /\ UNCHANGED <<now, hook, row, nextId, crashes, received, tries>>
  BY DEF Select
<1>3. /\ i \notin Held /\ ~row[i].finished /\ row[i].next <= now /\ now < row[i].expires
  <2>1. i \notin Held /\ ~row[i].finished /\ row[i].next <= now /\ ~(now >= row[i].expires)
    BY <1>1 DEF Oldest, Eligible, Due, Void
  <2>2. now \in Int /\ row[i].expires \in Int
    BY DEF DeliveryInv, TypeOK, Row, DeliveryAssumption
  <2>3. QED
    BY <2>1, <2>2
<1>4. now \in Nat /\ i \in Ids /\ row[i].next \in Nat /\ row[i].expires \in Nat
  BY DEF DeliveryInv, TypeOK, Row, DeliveryAssumption
<1>5. s \in WorkerState
  BY <1>4 DEF WorkerState
<1>6. \A v \in Busy : worker[v].id # i
  BY <1>3 DEF Held
<1>7. Waited(i, now)
  <2> SUFFICES ASSUME row[i].attempts > 0
               PROVE  now - tries[i][row[i].attempts] >= RetryDelays[row[i].attempts]
    BY DEF Waited
  <2>1. row[i].next < row[i].expires
    BY <1>3, <1>4
  <2>2. row[i].next - tries[i][row[i].attempts] >= RetryDelays[row[i].attempts]
    BY <1>3, <2>1 DEF DeliveryInv, AttemptsSpaced, Waited
  <2>3. tries[i][row[i].attempts] \in Nat
    BY TryTyped
  <2>4. row[i].attempts \in 1..Len(RetryDelays)
    <3>1. row[i].attempts \in Nat /\ row[i].attempts < MaxAttempts
      BY <1>3, TryTyped DEF DeliveryInv, RowsBacked
    <3>2. QED
      BY <3>1, Delays
  <2>5. RetryDelays[row[i].attempts] \in Nat
    BY <2>4, Delays
  <2>6. QED
    BY SMTT(60), <1>3, <1>4, <2>2, <2>3, <2>5
<1>8. ArrivalsCounted'
  <2>1. /\ worker'[w] = s /\ \A v \in Workers \ {w} : worker'[v] = worker[v]
    BY <1>1 DEF DeliveryInv, TypeOK, Goto
  <2>2. \A j : Sent(j)' <=> Sent(j)
    BY SMTT(60), <1>2, <2>1 DEF Sent
  <2>3. QED
    BY <1>2, <2>2 DEF DeliveryInv, ArrivalsCounted
<1>9. crashes' \in 0..MaxCrashes /\ received' \in [Ids -> Nat]
      /\ \A j \in Ids : received'[j] >= received[j] /\ received'[j] = received[j]
  BY <1>2 DEF DeliveryInv, TypeOK
<1>10. QED
  BY <1>1, <1>2, <1>3, <1>5, <1>6, <1>7, <1>8, <1>9, WorkerStep

\* The request arrives: one more than was counted before, for the only worker
\* that holds the row.
LEMMA ArriveStep ==
  ASSUME DeliveryAssumption, DeliveryInv, NEW w \in Workers, Arrive(w)
  PROVE  DeliveryInv'
<1>a. worker[w].pc = "post" /\ w \in Busy
  BY DEF Arrive, Busy
<1>b. [worker[w] EXCEPT !.pc = "posted"] \in WorkerState
  BY <1>a, HeldRow DEF WorkerState
<1>c. PICK s \in WorkerState : s = [worker[w] EXCEPT !.pc = "posted"]
  BY <1>b
<1>d. PICK id \in Ids : id = worker[w].id
  BY <1>a, HeldRow
<1>1. /\ worker[w].pc = "post" /\ Goto(w, s)
      /\ received' = [received EXCEPT ![id] = @ + 1]
      /\ UNCHANGED <<now, hook, row, nextId, crashes, tries>>
  BY <1>c, <1>d DEF Arrive
<1>2. w \in Busy /\ id = worker[w].id
  BY <1>a, <1>d
<1>3. /\ id \in DOMAIN row /\ id \in Ids /\ ~row[id].finished
      /\ \A v \in Busy : worker[v].id = id => v = w
  BY <1>2, HeldRow
<1>4. s \in WorkerState /\ s.pc = "posted" /\ s.id = id /\ s.since = worker[w].since
  BY <1>a, <1>c, <1>d, HeldRow DEF WorkerState
<1>5. worker[w].since < row[id].expires /\ Waited(id, worker[w].since)
  BY <1>2 DEF DeliveryInv, AttemptsSpaced
<1>6. /\ received' \in [Ids -> Nat] /\ received'[id] = received[id] + 1
      /\ \A i \in Ids : i # id => received'[i] = received[i]
      /\ \A i \in Ids : received[i] \in Nat
  BY SMTT(60), <1>1, <1>3 DEF DeliveryInv, TypeOK
<1>7. crashes \in Nat /\ crashes' \in 0..MaxCrashes
  BY <1>1 DEF DeliveryInv, TypeOK, DeliveryAssumption
<1>8. ArrivalsCounted'
  <2>1. /\ worker'[w] = s /\ \A v \in Workers \ {w} : worker'[v] = worker[v]
    BY <1>1 DEF DeliveryInv, TypeOK, Goto
  <2>2. ~Sent(id)
    <3> SUFFICES ASSUME NEW v \in Workers, worker[v].pc \in {"posted", "answered"},
                        worker[v].id = id
                 PROVE  FALSE
      BY DEF Sent
    <3>1. v \in Busy
      BY DEF Busy
    <3>2. v = w
      BY <1>3, <3>1
    <3>3. QED
      BY <1>1, <3>2
  <2>3. Sent(id)'
    BY <1>4, <2>1 DEF Sent
  <2>4. \A i : i # id => (Sent(i)' <=> Sent(i))
    BY <1>1, <1>4, <2>1 DEF Sent
  <2>5. received'[id] <= row[id].attempts + crashes + 1
    <3>1. received[id] <= row[id].attempts + crashes
      BY <1>3, <1>7, <2>2, TryTyped DEF DeliveryInv, ArrivalsCounted
    <3>2. QED
      BY SMTT(60), <1>3, <1>6, <1>7, <3>1, TryTyped
  <2>6. \A i \in DOMAIN row : i # id =>
          received'[i] <= row[i].attempts + crashes + (IF Sent(i)' THEN 1 ELSE 0)
    BY <1>6, <2>4, TryTyped DEF DeliveryInv, ArrivalsCounted
  <2>7. ASSUME NEW i \in DOMAIN row
        PROVE  received'[i] <= row[i].attempts + crashes + (IF Sent(i)' THEN 1 ELSE 0)
    <3>1. CASE i = id
      BY <2>3, <2>5, <3>1
    <3>2. CASE i # id
      BY <2>6, <3>2
    <3>3. QED
      BY <3>1, <3>2
  <2>8. QED
    BY <1>1, <2>7 DEF ArrivalsCounted
<1>9. \A i \in Ids : received'[i] >= received[i]
  BY SMTT(60), <1>6
<1>10. received'[id] > 0
  BY <1>3, <1>6
<1>11. \A i \in Ids : i \notin DOMAIN row => received'[i] = received[i]
  BY <1>3, <1>6
<1>12. QED
  BY <1>1, <1>3, <1>4, <1>5, <1>6, <1>7, <1>8, <1>9, <1>10, <1>11, WorkerStep

\* The worker learns what became of its request; only a request that arrived is
\* answered by the receiver.
LEMMA AnswerStep ==
  ASSUME DeliveryAssumption, DeliveryInv, NEW w \in Workers, Answer(w)
  PROVE  DeliveryInv'
<1> DEFINE id == worker[w].id
<1>1. PICK answer \in Answers :
        /\ answer \in {"ok", "refused"} => worker[w].pc = "posted"
        /\ Goto(w, [pc |-> "answered", id |-> id, since |-> worker[w].since,
                    answer |-> answer])
  BY DEF Answer
<1> DEFINE s == [pc |-> "answered", id |-> id, since |-> worker[w].since,
                 answer |-> answer]
<1>2. /\ w \in Busy /\ worker[w].pc \in {"post", "posted"}
      /\ UNCHANGED <<now, hook, row, nextId, crashes, received, tries>>
  BY DEF Answer, Posting
<1>3. /\ id \in DOMAIN row /\ id \in Ids /\ ~row[id].finished
      /\ worker[w].since \in Nat
      /\ \A v \in Busy : worker[v].id = id => v = w
  BY <1>2, HeldRow
<1>4. s \in WorkerState
  BY <1>3 DEF WorkerState
<1>5. worker[w].since < row[id].expires /\ Waited(id, worker[w].since)
  BY <1>2 DEF DeliveryInv, AttemptsSpaced
<1>6. answer \in {"ok", "refused"} => received[id] > 0
  BY <1>1, <1>2 DEF DeliveryInv, AnswersBacked
<1>7. ArrivalsCounted'
  <2>1. /\ worker'[w] = s /\ \A v \in Workers \ {w} : worker'[v] = worker[v]
    BY <1>1 DEF DeliveryInv, TypeOK, Goto
  <2>2. \A i : Sent(i) => Sent(i)'
    <3> SUFFICES ASSUME NEW i, NEW v \in Workers,
                        worker[v].pc \in {"posted", "answered"}, worker[v].id = i
                 PROVE  worker'[v].pc \in {"posted", "answered"} /\ worker'[v].id = i
      BY DEF Sent
    <3>1. QED
      BY SMTT(60), <2>1
  <2>3. crashes \in Nat /\ \A i \in Ids : received[i] \in Nat
    BY DEF DeliveryInv, TypeOK, DeliveryAssumption
  <2>4. \A i \in DOMAIN row :
          received[i] <= row[i].attempts + crashes + (IF Sent(i)' THEN 1 ELSE 0)
    <3> SUFFICES ASSUME NEW i \in DOMAIN row
                 PROVE  received[i] <= row[i].attempts + crashes + (IF Sent(i)' THEN 1 ELSE 0)
      OBVIOUS
    <3>1. received[i] <= row[i].attempts + crashes + (IF Sent(i) THEN 1 ELSE 0)
      BY DEF DeliveryInv, ArrivalsCounted
    <3>2. QED
      BY <2>2, <2>3, <3>1, TryTyped
  <2>5. QED
    BY <1>2, <2>4 DEF ArrivalsCounted
<1>8. crashes' \in 0..MaxCrashes /\ received' \in [Ids -> Nat]
      /\ \A j \in Ids : received'[j] >= received[j] /\ received'[j] = received[j]
  BY <1>2 DEF DeliveryInv, TypeOK
<1>9. QED
  BY <1>1, <1>2, <1>3, <1>4, <1>5, <1>6, <1>7, <1>8, WorkerStep

\* The worker dies: what arrived of its attempt is counted as a crash.
LEMMA CrashStep ==
  ASSUME DeliveryAssumption, DeliveryInv, NEW w \in Workers, Crash(w)
  PROVE  DeliveryInv'
<1>1. /\ w \in Busy /\ Goto(w, Idle) /\ crashes < MaxCrashes /\ crashes' = crashes + 1
      /\ UNCHANGED <<now, hook, row, nextId, received, tries>>
  BY DEF Crash
<1>2. Idle \in WorkerState /\ Idle.pc = "idle"
  BY DEF Idle, WorkerState
<1>3. crashes \in Nat /\ crashes' \in 0..MaxCrashes
  BY <1>1 DEF DeliveryInv, TypeOK, DeliveryAssumption
<1>4. received' \in [Ids -> Nat] /\ \A j \in Ids : received'[j] >= received[j]
      /\ \A k \in Ids : received'[k] = received[k]
  BY <1>1 DEF DeliveryInv, TypeOK
<1>5. ArrivalsCounted'
  <2> SUFFICES ASSUME NEW i \in DOMAIN row
               PROVE  received[i] <= row[i].attempts + crashes' + (IF Sent(i)' THEN 1 ELSE 0)
    BY <1>1 DEF ArrivalsCounted
  <2>1. received[i] <= row[i].attempts + crashes + (IF Sent(i) THEN 1 ELSE 0)
    BY DEF DeliveryInv, ArrivalsCounted
  <2>2. received[i] \in Nat
    BY DEF DeliveryInv, TypeOK
  <2>3. QED
    BY SMTT(60), <1>1, <1>3, <2>1, <2>2, TryTyped
<1>6. QED
  BY <1>1, <1>2, <1>3, <1>4, <1>5, WorkerStep

\* A row that nobody holds is closed without an attempt.
LEMMA DiscardStep ==
  ASSUME DeliveryAssumption, DeliveryInv, NEW w \in Workers, Discard(w)
  PROVE  DeliveryInv'
<1>1. PICK i \in DOMAIN row :
        /\ Oldest(i)
        /\ row' = [row EXCEPT ![i] =
                     Finish(@, IF now >= @.expires THEN "expired" ELSE "disabled")]
  BY DEF Discard
<1>2. UNCHANGED <<now, hook, nextId, worker, crashes, received, tries>>
  BY DEF Discard
<1>3. i \notin Held /\ ~row[i].finished /\ row[i] \in Row
  BY <1>1, TryTyped DEF Oldest, Eligible, Due
<1>4. PICK e \in {"expired", "disabled"} :
        /\ e = "expired" => now >= row[i].expires
        /\ e = (IF now >= row[i].expires THEN "expired" ELSE "disabled")
  OBVIOUS
<1>5. PICK q : q = Finish(row[i], e)
  OBVIOUS
<1>6. /\ q \in Row /\ q.finished /\ q.error = e
      /\ q.attempts = row[i].attempts /\ q.expires = row[i].expires
  BY <1>3, <1>5, FinishedRow
<1>7. /\ DOMAIN row' = DOMAIN row /\ row'[i] = q
      /\ \A j \in DOMAIN row : j # i => row'[j] = row[j]
  BY <1>1, <1>4, <1>5
<1>8. \A j \in DOMAIN row : row'[j].attempts = row[j].attempts /\ row'[j].expires = row[j].expires
  BY <1>6, <1>7
<1>9. Busy' = Busy /\ \A w1 \in Busy : worker[w1].id # i /\ worker[w1].id \in DOMAIN row
  BY <1>2, <1>3, HeldRow DEF Busy, Held
<1>10. TypeOK'
  BY <1>2, <1>6, <1>7 DEF DeliveryInv, TypeOK
<1>11. OneWorkerPerRow' /\ AnswersBacked'
  BY <1>2, <1>7, <1>9 DEF DeliveryInv, OneWorkerPerRow, AnswersBacked
<1>12. RowsBacked'
  BY <1>2, <1>6, <1>7 DEF DeliveryInv, RowsBacked
<1>13. ArrivalsCounted'
  <2>1. \A j : Sent(j)' <=> Sent(j)
    BY <1>2 DEF Sent
  <2>2. QED
    BY <1>2, <1>7, <1>8, <2>1 DEF DeliveryInv, ArrivalsCounted
<1>14. ClosedForAReason'
  BY <1>2, <1>4, <1>6, <1>7 DEF DeliveryInv, ClosedForAReason
<1>15. BackoffKept'
  BY SMTT(60), <1>2, <1>7, <1>8 DEF DeliveryInv, BackoffKept
<1>16. AttemptsSpaced'
  <2>1. ASSUME NEW j \in DOMAIN row', ~row'[j].finished, row'[j].next < row'[j].expires
        PROVE  row'[j].attempts > 0 =>
                 row'[j].next - tries'[j][row'[j].attempts] >= RetryDelays[row'[j].attempts]
    <3>1. j \in DOMAIN row /\ j # i /\ row'[j] = row[j]
      BY <1>6, <1>7, <2>1
    <3>2. QED
      BY <1>2, <2>1, <3>1 DEF DeliveryInv, AttemptsSpaced, Waited
  <2>2. ASSUME NEW v \in Busy'
        PROVE  /\ worker'[v].since < row'[worker'[v].id].expires
               /\ row'[worker'[v].id].attempts > 0 =>
                    worker'[v].since - tries'[worker'[v].id][row'[worker'[v].id].attempts]
                      >= RetryDelays[row'[worker'[v].id].attempts]
    <3>1. v \in Busy /\ worker'[v] = worker[v] /\ worker[v].id \in DOMAIN row
      BY <1>2, <1>9
    <3>2. row'[worker[v].id] = row[worker[v].id]
      BY <1>7, <1>9, <3>1
    <3>3. worker[v].since < row[worker[v].id].expires /\ Waited(worker[v].id, worker[v].since)
      BY <3>1 DEF DeliveryInv, AttemptsSpaced
    <3>4. QED
      BY <1>2, <3>1, <3>2, <3>3 DEF Waited
  <2>3. QED
    BY <2>1, <2>2 DEF AttemptsSpaced, Waited
<1>17. QED
  BY <1>10, <1>11, <1>12, <1>13, <1>14, <1>15, <1>16 DEF DeliveryInv

\* The attempt that Commit writes down: it was made by the only holder of an open
\* row, which becomes q.
LEMMA CommittedAttempt ==
  ASSUME DeliveryAssumption, DeliveryInv, NEW w \in Workers, Commit(w)
  PROVE  \E id \in DOMAIN row, since \in Nat, answer \in Answers, q \in Row :
           /\ worker[w].id = id /\ worker[w].since = since /\ worker[w].answer = answer
           /\ q.attempts = row[id].attempts + 1 /\ q.expires = row[id].expires
           /\ q.finished => \/ q.error = "none" /\ answer = "ok"
                            \/ q.error = "refused" /\ answer = "refused"
                            \/ q.error = "unsendable" /\ answer = "unsendable"
                            \/ q.error = "retryable" /\ q.attempts = MaxAttempts
           /\ ~q.finished => /\ q.attempts < MaxAttempts
                             /\ q.next = since + RetryDelays[q.attempts] \/ q.next = q.expires
           /\ DOMAIN row' = DOMAIN row /\ row'[id] = q
           /\ \A j \in DOMAIN row : j # id => row'[j] = row[j]
           /\ answer \in {"ok", "refused"} => received[id] > 0
<1>1. worker[w].pc = "answered" /\ w \in Busy
  BY DEF Commit, Busy
<1>2. PICK id \in DOMAIN row, since \in Nat, answer \in Answers :
        id = worker[w].id /\ since = worker[w].since /\ answer = worker[w].answer
  BY <1>1, HeldRow
<1>3. PICK r \in Row : r = row[id] /\ ~r.finished /\ r.attempts < MaxAttempts
  BY <1>1, <1>2, HeldRow
<1>4. PICK q : q = AfterAttempt(r, since, answer)
  OBVIOUS
<1>5. /\ q \in Row
      /\ q.attempts = r.attempts + 1 /\ q.expires = r.expires
      /\ q.finished => \/ q.error = "none" /\ answer = "ok"
                       \/ q.error = "refused" /\ answer = "refused"
                       \/ q.error = "unsendable" /\ answer = "unsendable"
                       \/ q.error = "retryable" /\ q.attempts = MaxAttempts
      /\ ~q.finished => /\ q.attempts < MaxAttempts
                        /\ q.next = since + RetryDelays[q.attempts] \/ q.next = q.expires
  <2>0. PICK t : t = Tried(r)
    OBVIOUS
  <2>1. /\ r.attempts \in Nat /\ r.expires \in Nat
    BY DEF Row
  <2>2. /\ t \in Row /\ t.attempts = r.attempts + 1 /\ t.expires = r.expires
        /\ ~t.finished
    <3>1. r.attempts + 1 \in 0..MaxAttempts
      BY <1>3, <2>1, Delays
    <3>2. t = [r EXCEPT !.attempts = r.attempts + 1]
      BY <2>0 DEF Tried
    <3>3. QED
      BY <1>3, <3>1, <3>2 DEF Row
  <2>3. CASE Succeeded(answer)
    <3>1. q = Finish(t, "none")
      BY <1>4, <2>0, <2>3 DEF AfterAttempt
    <3>2. QED
      BY <2>2, <2>3, <3>1, FinishedRow DEF Succeeded
  <2>4. CASE ~Succeeded(answer) /\ Retriable(answer, t.attempts)
    <3> DEFINE d == RetryDelays[t.attempts]
    <3>1. q = [t EXCEPT !.next = Min2(since + d, t.expires), !.error = answer]
      BY <1>4, <2>0, <2>4 DEF AfterAttempt, Delay
    <3>2. answer = "retryable" /\ t.attempts \in 1..Len(RetryDelays)
      BY SMTT(60), <1>3, <2>1, <2>2, <2>4, Delays DEF Retriable
    <3>3. d \in Nat
      BY <3>2, Delays
    <3>4. /\ Min2(since + d, t.expires) \in Nat
          /\ Min2(since + d, t.expires) \in {since + d, t.expires}
      BY SMTT(60), <2>1, <2>2, <3>3 DEF Min2
    <3>5. /\ q \in Row /\ q.attempts = t.attempts /\ q.expires = t.expires
          /\ ~q.finished /\ q.next = Min2(since + d, t.expires)
      BY <2>2, <3>1, <3>2, <3>4 DEF Row
    <3>6. q.attempts < MaxAttempts
      BY <3>2, <3>5, Delays
    <3>7. QED
      BY <2>2, <3>4, <3>5, <3>6
  <2>5. CASE ~Succeeded(answer) /\ ~Retriable(answer, t.attempts)
    <3>1. q = Finish(t, answer)
      BY <1>4, <2>0, <2>5 DEF AfterAttempt
    <3>2. answer \in {"retryable", "refused", "unsendable"}
      BY <2>5 DEF Succeeded, Answers
    <3>3. answer = "retryable" => t.attempts = MaxAttempts
      BY <1>3, <2>1, <2>2, <2>5, Delays DEF Retriable
    <3>4. QED
      BY <2>2, <3>1, <3>2, <3>3, FinishedRow
  <2>6. QED
    BY <2>3, <2>4, <2>5
<1>6. /\ DOMAIN row' = DOMAIN row /\ row'[id] = q
      /\ \A j \in DOMAIN row : j # id => row'[j] = row[j]
  BY <1>2, <1>3, <1>4 DEF Commit
<1>7. answer \in {"ok", "refused"} => received[id] > 0
  BY <1>1, <1>2 DEF DeliveryInv, AnswersBacked
<1>8. q.attempts = row[id].attempts + 1 /\ q.expires = row[id].expires
  BY <1>3, <1>5
<1>9. QED
  BY SMTT(90), <1>2, <1>5, <1>6, <1>7, <1>8

\* The attempt takes the place of the request that was under way: the row was
\* held by this worker alone, and the delay was over when the attempt began.
LEMMA CommitStep ==
  ASSUME DeliveryAssumption, DeliveryInv, NEW w \in Workers, Commit(w)
  PROVE  DeliveryInv'
<1>1. /\ worker[w].pc = "answered" /\ w \in Busy
      /\ UNCHANGED <<now, hook, nextId, crashes, received>>
  BY DEF Commit, Busy
<1>2. PICK id \in DOMAIN row, since \in Nat, answer \in Answers, q \in Row :
        /\ worker[w].id = id /\ worker[w].since = since /\ worker[w].answer = answer
        /\ q.attempts = row[id].attempts + 1 /\ q.expires = row[id].expires
        /\ q.finished => \/ q.error = "none" /\ answer = "ok"
                         \/ q.error = "refused" /\ answer = "refused"
                         \/ q.error = "unsendable" /\ answer = "unsendable"
                         \/ q.error = "retryable" /\ q.attempts = MaxAttempts
        /\ ~q.finished => /\ q.attempts < MaxAttempts
                          /\ q.next = since + RetryDelays[q.attempts] \/ q.next = q.expires
        /\ DOMAIN row' = DOMAIN row /\ row'[id] = q
        /\ \A j \in DOMAIN row : j # id => row'[j] = row[j]
        /\ answer \in {"ok", "refused"} => received[id] > 0
  BY CommittedAttempt
<1>3. /\ id \in Ids /\ row[id] \in Row /\ ~row[id].finished
      /\ row[id].attempts \in Nat /\ row[id].attempts < MaxAttempts
      /\ \A v \in Busy : worker[v].id = id => v = w
  BY <1>1, <1>2, HeldRow, TryTyped
<1>4. since < row[id].expires /\ Waited(id, since)
  BY <1>1, <1>2 DEF DeliveryInv, AttemptsSpaced
<1>6. /\ q \in Row /\ q.attempts = row[id].attempts + 1 /\ q.expires = row[id].expires
      /\ q.finished => \/ q.error = "none" /\ answer = "ok"
                       \/ q.error = "refused" /\ answer = "refused"
                       \/ q.error = "unsendable" /\ answer = "unsendable"
                       \/ q.error = "retryable" /\ q.attempts = MaxAttempts
      /\ ~q.finished => /\ q.attempts < MaxAttempts
                        /\ q.next = since + RetryDelays[q.attempts] \/ q.next = q.expires
  BY <1>2
<1>7. /\ DOMAIN row' = DOMAIN row /\ row'[id] = q
      /\ \A j \in DOMAIN row : j # id => row'[j] = row[j]
  BY <1>2
<1>8. PICK a : a = Append(tries[id], since)
  OBVIOUS
<1>9. tries \in [Ids -> Seq(Nat)]
  BY DEF DeliveryInv, TypeOK
<1>10. /\ tries' \in [Ids -> Seq(Nat)] /\ tries'[id] = a
       /\ \A j \in Ids : j # id => tries'[j] = tries[j]
  <2>1. tries' = [tries EXCEPT ![id] = a]
    BY <1>2, <1>8 DEF Commit
  <2>2. a \in Seq(Nat)
    BY <1>3, <1>8, <1>9
  <2>3. QED
    BY <1>3, <1>9, <2>1, <2>2
<1>11. /\ Len(a) = row[id].attempts + 1 /\ a[Len(a)] = since
       /\ \A k \in 1..row[id].attempts : a[k] = tries[id][k]
       /\ \A k \in 1..row[id].attempts : tries[id][k] \in Nat
  BY SMTT(60), <1>2, <1>8, TryTyped
<1>12. /\ worker'[w] = Idle /\ worker' \in [Workers -> WorkerState]
       /\ \A v \in Workers \ {w} : worker'[v] = worker[v]
  BY DEF DeliveryInv, TypeOK, Commit, Goto, Idle, WorkerState
<1>13. /\ Busy' = Busy \ {w}
       /\ \A v \in Busy' : /\ v \in Busy /\ v \in Workers /\ worker'[v] = worker[v]
                           /\ worker[v].id # id /\ worker[v].id \in DOMAIN row
  <2>1. Idle.pc = "idle"
    BY DEF Idle
  <2>2. Busy' = Busy \ {w}
    BY <1>12, <2>1 DEF Busy
  <2>3. QED
    BY <1>3, <1>12, <2>2, HeldRow DEF Busy
<1>14. TypeOK'
  BY <1>1, <1>6, <1>7, <1>10, <1>12 DEF DeliveryInv, TypeOK
<1>15. OneWorkerPerRow' /\ AnswersBacked'
  BY SMTT(60), <1>1, <1>7, <1>13 DEF DeliveryInv, OneWorkerPerRow, AnswersBacked
<1>16. RowsBacked'
  <2>1. \A j \in DOMAIN row' : j < nextId' /\ (~row'[j].finished => row'[j].attempts < MaxAttempts)
    BY <1>1, <1>6, <1>7 DEF DeliveryInv, RowsBacked
  <2>2. ~(id >= nextId)
    BY <1>2, <1>3 DEF DeliveryInv, RowsBacked, TypeOK, Ids
  <2>3. \A j \in Ids : j >= nextId' => received'[j] = 0 /\ tries'[j] = << >>
    BY <1>1, <1>10, <2>2 DEF DeliveryInv, RowsBacked
  <2>4. QED
    BY <2>1, <2>3 DEF RowsBacked
<1>17. ArrivalsCounted'
  <2>1. crashes \in Nat /\ \A j \in Ids : received[j] \in Nat
    BY DEF DeliveryInv, TypeOK, DeliveryAssumption
  <2>2. \A j : j # id => (Sent(j) => Sent(j)')
    <3> SUFFICES ASSUME NEW j, j # id, NEW v \in Workers,
                        worker[v].pc \in {"posted", "answered"}, worker[v].id = j
                 PROVE  worker'[v].pc \in {"posted", "answered"} /\ worker'[v].id = j
      BY DEF Sent
    <3>1. v # w
      BY <1>2
    <3>2. QED
      BY <1>12, <3>1
  <2>3. ASSUME NEW j \in DOMAIN row
        PROVE  received[j] <= row'[j].attempts + crashes + (IF Sent(j)' THEN 1 ELSE 0)
    <3>1. received[j] <= row[j].attempts + crashes + (IF Sent(j) THEN 1 ELSE 0)
      BY DEF DeliveryInv, ArrivalsCounted
    <3>2. received[j] \in Nat /\ row[j].attempts \in Nat
      BY <2>1, TryTyped
    <3>3. CASE j = id
      BY SMTT(60), <1>6, <1>7, <2>1, <3>1, <3>2, <3>3
    <3>4. CASE j # id
      BY <1>7, <2>1, <2>2, <3>1, <3>2, <3>4
    <3>5. QED
      BY <3>3, <3>4
  <2>4. QED
    BY <1>1, <1>7, <2>3 DEF ArrivalsCounted
<1>18. ClosedForAReason'
  <2>1. answer \in {"ok", "refused"} => received[id] > 0
    BY <1>1, <1>2 DEF DeliveryInv, AnswersBacked
  <2>2. q.finished =>
          /\ q.error \in {"none", "refused"} => received[id] > 0
          /\ q.error # "expired"
          /\ q.error = "retryable" => q.attempts = MaxAttempts
    BY <1>6, <2>1
  <2>3. QED
    BY <1>1, <1>7, <2>2 DEF DeliveryInv, ClosedForAReason
<1>19. BackoffKept'
  <2>1. \A j \in DOMAIN row : j # id =>
          /\ Len(tries'[j]) = row'[j].attempts
          /\ \A k \in 1..Len(tries'[j]) :
               /\ tries'[j][k] < row'[j].expires
               /\ k > 1 => tries'[j][k] - tries'[j][k - 1] >= RetryDelays[k - 1]
    BY <1>7, <1>10, TryTyped DEF DeliveryInv, BackoffKept
  <2>2. Len(tries'[id]) = row'[id].attempts
    BY <1>6, <1>7, <1>10, <1>11
  <2>3. ASSUME NEW k \in 1..Len(tries'[id])
        PROVE  /\ tries'[id][k] < row'[id].expires
               /\ k > 1 => tries'[id][k] - tries'[id][k - 1] >= RetryDelays[k - 1]
    <3>1. k \in 1..(row[id].attempts + 1)
      BY <1>10, <1>11
    <3>2. CASE k = row[id].attempts + 1
      <4>1. a[k] = since /\ since < q.expires
        BY <1>4, <1>6, <1>11, <3>2
      <4>2. k > 1 => since - a[k - 1] >= RetryDelays[k - 1]
        <5>1. k - 1 = row[id].attempts
          BY <1>3, <3>2
        <5>2. k > 1 => a[k - 1] = tries[id][k - 1]
          BY <1>3, <1>11, <5>1
        <5>3. k > 1 => since - tries[id][k - 1] >= RetryDelays[k - 1]
          BY <1>3, <1>4, <5>1 DEF Waited
        <5>4. QED
          BY <5>2, <5>3
      <4>3. QED
        BY <1>7, <1>10, <4>1, <4>2
    <3>3. CASE k # row[id].attempts + 1
      <4>1. k \in 1..row[id].attempts
        BY <1>3, <3>1, <3>3
      <4>2. a[k] = tries[id][k] /\ (k > 1 => a[k - 1] = tries[id][k - 1])
        BY <1>3, <1>11, <4>1
      <4>3. k \in 1..Len(tries[id])
        BY <1>2, <4>1, TryTyped
      <4>4. /\ tries[id][k] < row[id].expires
            /\ k > 1 => tries[id][k] - tries[id][k - 1] >= RetryDelays[k - 1]
        BY SMTT(60), <1>2, <4>3 DEF DeliveryInv, BackoffKept
      <4>5. QED
        BY <1>6, <1>7, <1>10, <4>2, <4>4
    <3>4. QED
      BY <3>2, <3>3
  <2>4. QED
    BY <1>7, <2>1, <2>2, <2>3 DEF BackoffKept
<1>20. AttemptsSpaced'
  <2>1. \A j \in DOMAIN row : j # id => \A t : Waited(j, t) => Waited(j, t)'
    BY <1>7, <1>10, TryTyped DEF Waited
  <2>2. ~q.finished /\ q.next < q.expires
          => q.next - a[q.attempts] >= RetryDelays[q.attempts]
    <3> SUFFICES ASSUME ~q.finished, q.next < q.expires
                 PROVE  q.next - a[q.attempts] >= RetryDelays[q.attempts]
      OBVIOUS
    <3>0. q.next # q.expires
      BY <1>6 DEF Row
    <3>1. q.next = since + RetryDelays[q.attempts] /\ a[q.attempts] = since
      BY <1>6, <1>11, <3>0
    <3>2. q.attempts \in 1..Len(RetryDelays)
      BY SMTT(60), <1>3, <1>6, Delays
    <3>3. RetryDelays[q.attempts] \in Nat
      BY <3>2, Delays
    <3>4. QED
      BY <3>1, <3>3
  <2>3. ~row'[id].finished /\ row'[id].next < row'[id].expires => Waited(id, q.next)'
    BY <1>7, <1>10, <2>2 DEF Waited
  <2>4. ASSUME NEW j \in DOMAIN row', ~row'[j].finished, row'[j].next < row'[j].expires
        PROVE  row'[j].attempts > 0 =>
                 row'[j].next - tries'[j][row'[j].attempts] >= RetryDelays[row'[j].attempts]
    <3>1. CASE j = id
      BY <1>7, <1>10, <2>2, <2>4, <3>1
    <3>2. CASE j # id
      BY <1>7, <1>10, <2>4, <3>2, TryTyped DEF DeliveryInv, AttemptsSpaced, Waited
    <3>3. QED
      BY <3>1, <3>2
  <2>5. ASSUME NEW v \in Busy'
        PROVE  /\ worker'[v].since < row'[worker'[v].id].expires
               /\ row'[worker'[v].id].attempts > 0 =>
                    worker'[v].since - tries'[worker'[v].id][row'[worker'[v].id].attempts]
                      >= RetryDelays[row'[worker'[v].id].attempts]
    <3>1. /\ v \in Busy /\ worker'[v] = worker[v] /\ worker[v].id \in DOMAIN row
          /\ worker[v].id # id /\ worker[v].id \in Ids
      BY <1>13, HeldRow
    <3>2. row'[worker[v].id] = row[worker[v].id] /\ tries'[worker[v].id] = tries[worker[v].id]
      BY <1>7, <1>10, <3>1
    <3>3. worker[v].since < row[worker[v].id].expires /\ Waited(worker[v].id, worker[v].since)
      BY <3>1 DEF DeliveryInv, AttemptsSpaced
    <3>4. QED
      BY <3>1, <3>2, <3>3 DEF Waited
  <2>6. QED
    BY <1>13, <2>4, <2>5 DEF AttemptsSpaced, Waited
<1>21. QED
  BY <1>14, <1>15, <1>16, <1>17, <1>18, <1>19, <1>20 DEF DeliveryInv

\* Every step of the delivery preserves the inductive invariant.
LEMMA DeliveryStep ==
  ASSUME DeliveryAssumption, DeliveryInv, [Next]_vars
  PROVE  DeliveryInv'
<1>1. /\ now \in 0..Horizon /\ hook \in {"absent", "active", "disabled"}
      /\ now \in Nat
  BY DEF DeliveryInv, TypeOK
<1>2. CASE Tick
  <2>1. now' \in 0..Horizon /\ now' >= now
    BY <1>1, <1>2 DEF Tick, DeliveryAssumption
  <2>2. QED
    BY <1>1, <1>2, <2>1, QuietStep DEF Tick
<1>3. CASE Enqueue
  BY <1>3, EnqueueStep
<1>4. CASE Unsubscribe
  BY <1>4, UnsubscribeStep
<1>5. CASE \E active \in BOOLEAN : Subscribe(active)
  BY <1>1, <1>5, QuietStep DEF Subscribe
<1>6. CASE \E w \in Workers : Deliver(w) \/ Crash(w)
  BY <1>6, DiscardStep, SelectStep, ArriveStep, AnswerStep, CommitStep, CrashStep DEF Deliver
<1>7. CASE UNCHANGED vars
  BY <1>1, <1>7, QuietStep DEF vars
<1>8. QED
  BY <1>2, <1>3, <1>4, <1>5, <1>6, <1>7 DEF Next

\* DeliveryInv holds for ever, whatever the number of workers, results, delays and
\* crashes: the shape of deliver_one, one transaction around the POST, suffices.
THEOREM DeliveryInvariant == Spec => []DeliveryInv
<1>1. Init => DeliveryInv
  BY DeliveryInit, DeliveryAssumption
<1>2. DeliveryInv /\ [Next]_vars => DeliveryInv'
  BY DeliveryStep, DeliveryAssumption
<1>3. QED
  BY <1>1, <1>2, PTL DEF Spec

-----------------------------------------------------------------------------
(* What the receiver and the operator rely on *)

\* Rows, workers and counters keep their types; no row is tried more than
\* len(RETRY_DELAYS) + 1 times.
THEOREM TypeCorrect == Spec => []TypeOK
<1>1. DeliveryInv => TypeOK
  BY DEF DeliveryInv
<1>2. QED
  BY <1>1, DeliveryInvariant, PTL

\* However many processes run delivery_loop, a row is posted by one of them at a
\* time, and is still open there.
THEOREM OneWorker == Spec => []OneWorkerPerRow
<1>1. DeliveryInv => OneWorkerPerRow
  BY DEF DeliveryInv
<1>2. QED
  BY <1>1, DeliveryInvariant, PTL

\* Committed attempts of a row are RETRY_DELAYS apart and begin before the row
\* expires.
THEOREM BackoffIsKept == Spec => []BackoffKept
<1>1. DeliveryInv => BackoffKept
  BY DEF DeliveryInv
<1>2. QED
  BY <1>1, DeliveryInvariant, PTL

\* A row ends as delivered, or as refused by a status code, only if the receiver
\* has got the result; as expired only after its expiry, as failed only when its
\* attempts are used up.  What ended as unsendable may never have been sent.
THEOREM ClosedIsJustified == Spec => []ClosedForAReason
<1>1. DeliveryInv => ClosedForAReason
  BY DEF DeliveryInv
<1>2. QED
  BY <1>1, DeliveryInvariant, PTL

\* The receiver sees a result once, and once more for each committed attempt that
\* failed and each transaction that was rolled back: no duplicate has another cause.
THEOREM DuplicatesAreExplained == Spec => []DuplicatesExplained
<1>1. ASSUME DeliveryInv
      PROVE  DuplicatesExplained
  <2> SUFFICES ASSUME NEW i \in DOMAIN row
               PROVE  received[i] <= row[i].attempts + crashes + (IF i \in Held THEN 1 ELSE 0)
    BY DEF DuplicatesExplained
  <2>1. received[i] <= row[i].attempts + crashes + (IF Sent(i) THEN 1 ELSE 0)
    BY <1>1 DEF DeliveryInv, ArrivalsCounted
  <2>2. Sent(i) => i \in Held
    BY DEF Sent, Held, Busy
  <2>3. received[i] \in Nat /\ row[i].attempts \in Nat /\ crashes \in Nat
    BY <1>1, TryTyped, DeliveryAssumption DEF DeliveryInv, TypeOK, DeliveryAssumption
  <2>4. QED
    BY <2>1, <2>2, <2>3
<1>2. QED
  BY <1>1, DeliveryInvariant, PTL

\* No step changes a closed row or posts its result again; it can only disappear
\* with its subscription.
LEMMA ClosedStep ==
  ASSUME DeliveryInv, Next, NEW i \in DOMAIN row, row[i].finished
  PROVE  received'[i] = received[i] /\ (i \in DOMAIN row' => row'[i] = row[i])
<1>1. i \in Ids /\ received \in [Ids -> Nat]
  BY DEF DeliveryInv, TypeOK
<1>2. CASE Tick \/ \E active \in BOOLEAN : Subscribe(active)
  BY <1>2 DEF Tick, Subscribe
<1>3. CASE Enqueue
  <2>1. i # nextId
    BY <1>1 DEF DeliveryInv, RowsBacked, Ids
  <2>2. QED
    BY <1>3, <2>1 DEF Enqueue
<1>4. CASE Unsubscribe
  BY <1>4 DEF Unsubscribe
<1>5. CASE \E w \in Workers : Deliver(w) \/ Crash(w)
  <2>1. PICK w \in Workers : Deliver(w) \/ Crash(w)
    BY <1>5
  <2>2. w \in Busy => worker[w].id # i
    BY HeldRow
  <2>3. CASE Discard(w)
    BY <2>3 DEF Discard, Oldest, Eligible, Due
  <2>4. CASE Select(w) \/ Answer(w) \/ Crash(w)
    BY <2>4 DEF Select, Answer, Crash
  <2>5. CASE Arrive(w)
    <3>1. w \in Busy /\ worker[w].id \in Ids
      BY <2>5, HeldRow DEF Arrive, Busy
    <3>2. QED
      BY <1>1, <2>2, <2>5, <3>1 DEF Arrive
  <2>6. CASE Commit(w)
    <3>1. w \in Busy
      BY <2>6 DEF Commit, Busy
    <3>2. QED
      BY <2>2, <2>6, <3>1 DEF Commit
  <2>7. QED
    BY <2>1, <2>3, <2>4, <2>5, <2>6 DEF Deliver
<1>6. QED
  BY <1>2, <1>3, <1>4, <1>5 DEF Next

\* A closed row is never opened, changed or posted again, by any worker.
THEOREM ClosedRowsAreFinal == Spec => ClosedIsFinal
<1> DEFINE Kept == \A i \in DOMAIN row : row[i].finished =>
                     /\ received'[i] = received[i]
                     /\ i \in DOMAIN row' => row'[i] = row[i]
<1>1. DeliveryInv /\ [Next]_vars => [Kept]_vars
  <2> SUFFICES ASSUME DeliveryInv, Next
               PROVE  Kept
    OBVIOUS
  <2>1. QED
    BY ClosedStep
<1>2. QED
  BY <1>1, DeliveryInvariant, PTL DEF Spec, ClosedIsFinal

-----------------------------------------------------------------------------
(* WebhookDelivery implements AtLeastOnce *)

\* The standing of a row, case by case.
LEMMA StandingOf ==
  ASSUME DeliveryInv, NEW i \in Ids
  PROVE  /\ i \in Int /\ nextId \in Int
         /\ i >= nextId => i \notin DOMAIN row /\ Standing(i) = "absent"
         /\ i < nextId /\ i \notin DOMAIN row => Standing(i) = "forgotten"
         /\ i \in DOMAIN row => i < nextId
         /\ i \in DOMAIN row /\ ~row[i].finished => Standing(i) = "open"
         /\ i \in DOMAIN row /\ row[i].finished =>
              Standing(i) = (IF row[i].error = "none" THEN "delivered" ELSE "abandoned")
<1>1. i \in Int /\ nextId \in Int
  BY DEF DeliveryInv, TypeOK, Ids
<1>2. i \in DOMAIN row => i < nextId
  BY DEF DeliveryInv, RowsBacked
<1>3. i >= nextId => i \notin DOMAIN row
  BY <1>1, <1>2
<1>4. QED
  BY <1>1, <1>2, <1>3 DEF Standing, Outcome

\* A row that becomes q stands as q does; the other rows stand as before.
LEMMA StandingAfter ==
  ASSUME DeliveryInv, NEW id \in DOMAIN row, NEW q \in Row,
         DOMAIN row' = DOMAIN row, row'[id] = q,
         \A j \in DOMAIN row : j # id => row'[j] = row[j],
         nextId' = nextId
  PROVE  /\ ~q.finished => Standing(id)' = "open"
         /\ q.finished => Standing(id)' = (IF q.error = "none" THEN "delivered" ELSE "abandoned")
         /\ \A j \in Ids : j # id => Standing(j)' = Standing(j)
<1>1. id \in Ids /\ id < nextId /\ id \in Int /\ nextId \in Int
  BY StandingOf DEF DeliveryInv, TypeOK
<1>2. /\ ~q.finished => Standing(id)' = "open"
      /\ q.finished => Standing(id)' = (IF q.error = "none" THEN "delivered" ELSE "abandoned")
  BY <1>1 DEF Standing, Outcome
<1>3. \A j \in Ids : j # id => Standing(j)' = Standing(j)
  BY DEF Standing, Outcome
<1>4. QED
  BY <1>2, <1>3

\* A row that is closed leaves "open" for the standing of its outcome.
LEMMA CloseStep ==
  ASSUME DeliveryInv, NEW id \in DOMAIN row, NEW q \in Row,
         DOMAIN row' = DOMAIN row, row'[id] = q,
         \A j \in DOMAIN row : j # id => row'[j] = row[j],
         nextId' = nextId, received' = received,
         ~row[id].finished, q.finished, q.error = "none" => received[id] > 0
  PROVE  Promise!Close(id)
<1> DEFINE st == IF q.error = "none" THEN "delivered" ELSE "abandoned"
<1>1. id \in Ids /\ Standing(id) = "open"
  BY StandingOf DEF DeliveryInv, TypeOK
<1>2. Standing(id)' = st /\ \A j \in Ids : j # id => Standing(j)' = Standing(j)
  BY StandingAfter
<1>3. st \in {"delivered", "abandoned"}
      /\ (st = "delivered" => id \in {i \in Ids : received[i] > 0})
  BY <1>1
<1>4. [i \in Ids |-> Standing(i)]' = [[i \in Ids |-> Standing(i)] EXCEPT ![id] = st]
  BY <1>1, <1>2
<1>5. [i \in Ids |-> Standing(i)][id] = "open"
  BY <1>1
<1>6. {i \in Ids : received[i] > 0}' = {i \in Ids : received[i] > 0}
  OBVIOUS
<1>7. QED
  BY <1>3, <1>4, <1>5, <1>6 DEF Promise!Close

\* The rows of a new subscription are none, and nothing has arrived.
LEMMA OutboxInit == DeliveryAssumption /\ Init => Promise!Init
<1> SUFFICES ASSUME DeliveryAssumption, Init
             PROVE  Promise!Init
  OBVIOUS
<1>1. \A i \in Ids : Standing(i) = "absent"
  BY DeliveryInit, StandingOf DEF Init, Ids
<1>2. {i \in Ids : received[i] > 0} = {}
  BY DEF Init
<1>3. QED
  BY <1>1, <1>2 DEF Promise!Init

\* The steps that neither close a row nor send a result are invisible.
LEMMA HiddenStep ==
  ASSUME UNCHANGED <<row, nextId, received>>
  PROVE  UNCHANGED Promise!vars
BY DEF Promise!vars, Standing, Outcome

\* Each step of the delivery is a step of the outbox or invisible there.
LEMMA OutboxStep ==
  ASSUME DeliveryAssumption, DeliveryInv, [Next]_vars
  PROVE  [Promise!Next]_(Promise!vars)
<1>1. CASE Tick \/ (\E active \in BOOLEAN : Subscribe(active)) \/ UNCHANGED vars
  BY <1>1, HiddenStep DEF Tick, Subscribe, vars
<1>2. CASE Enqueue
  <2>1. nextId \in Ids /\ nextId' = nextId + 1 /\ UNCHANGED received
    BY <1>2 DEF DeliveryInv, TypeOK, Enqueue, DeliveryAssumption, Ids
  <2>2. nextId \notin DOMAIN row /\ Standing(nextId) = "absent"
    BY <2>1, StandingOf
  <2>3. /\ DOMAIN row' = DOMAIN row \cup {nextId} /\ ~row'[nextId].finished
        /\ \A j \in DOMAIN row : row'[j] = row[j]
    BY <1>2, <2>2 DEF Enqueue
  <2>4. \A j \in Ids : Standing(j)' = IF j = nextId THEN "open" ELSE Standing(j)
    <3> SUFFICES ASSUME NEW j \in Ids
                 PROVE  Standing(j)' = IF j = nextId THEN "open" ELSE Standing(j)
      OBVIOUS
    <3>1. j \in Int /\ nextId \in Int
      BY StandingOf
    <3>2. CASE j = nextId
      BY <2>1, <2>3, <3>1, <3>2 DEF Standing, Outcome
    <3>3. CASE j # nextId
      BY <2>1, <2>3, <3>1, <3>3 DEF Standing, Outcome
    <3>4. QED
      BY <3>2, <3>3
  <2>5. [i \in Ids |-> Standing(i)]' = [[i \in Ids |-> Standing(i)] EXCEPT ![nextId] = "open"]
    BY <2>1, <2>4
  <2>6. Promise!Offer(nextId)
    BY <2>1, <2>2, <2>5 DEF Promise!Offer
  <2>7. QED
    BY <2>1, <2>6 DEF Promise!Next
<1>3. CASE Unsubscribe
  <2> DEFINE S == {i \in Ids : Standing(i) # "absent"}
  <2>1. DOMAIN row' = {} /\ UNCHANGED <<nextId, received>>
    BY <1>3 DEF Unsubscribe
  <2>2. \A i \in Ids : Standing(i)' = IF i \in S THEN "forgotten" ELSE Standing(i)
    <3> SUFFICES ASSUME NEW i \in Ids
                 PROVE  Standing(i)' = IF i \in S THEN "forgotten" ELSE Standing(i)
      OBVIOUS
    <3>1. CASE i >= nextId
      BY <2>1, <3>1, StandingOf DEF Standing, Outcome
    <3>2. CASE i < nextId
      <4>1. Standing(i)' = "forgotten"
        BY <2>1, <3>2, StandingOf DEF Standing, Outcome
      <4>2. Standing(i) # "absent"
        BY <3>2, StandingOf
      <4>3. QED
        BY <4>1, <4>2
    <3>3. QED
      BY <3>1, <3>2, StandingOf
  <2>3. S \in SUBSET Ids /\ \A i \in S : [j \in Ids |-> Standing(j)][i] # "absent"
    OBVIOUS
  <2>4. [i \in Ids |-> Standing(i)]'
          = [i \in Ids |-> IF i \in S THEN "forgotten" ELSE [j \in Ids |-> Standing(j)][i]]
    BY <2>2
  <2>5. Promise!Forget(S)
    BY <2>1, <2>3, <2>4 DEF Promise!Forget
  <2>6. QED
    BY <2>3, <2>5 DEF Promise!Next
<1>4. CASE \E w \in Workers : Deliver(w) \/ Crash(w)
  <2>1. PICK w \in Workers : Deliver(w) \/ Crash(w)
    BY <1>4
  <2>2. CASE Select(w) \/ Answer(w) \/ Crash(w)
    BY <2>2, HiddenStep DEF Select, Answer, Crash
  <2>3. CASE Discard(w)
    <3>1. PICK i \in DOMAIN row :
            /\ Oldest(i)
            /\ row' = [row EXCEPT ![i] =
                         Finish(@, IF now >= @.expires THEN "expired" ELSE "disabled")]
      BY <2>3 DEF Discard
    <3>2. PICK e \in {"expired", "disabled"} :
            e = (IF now >= row[i].expires THEN "expired" ELSE "disabled")
      OBVIOUS
    <3>3. PICK q : q = Finish(row[i], e)
      OBVIOUS
    <3>4. i \in Ids /\ row[i] \in Row /\ ~row[i].finished
      BY <3>1, TryTyped DEF Oldest, Eligible, Due
    <3>5. q \in Row /\ q.finished /\ q.error # "none"
      BY <3>3, <3>4, FinishedRow
    <3>6. /\ DOMAIN row' = DOMAIN row /\ row'[i] = q
          /\ \A j \in DOMAIN row : j # i => row'[j] = row[j]
          /\ UNCHANGED <<nextId, received>>
      BY <2>3, <3>1, <3>2, <3>3 DEF Discard
    <3>7. Promise!Close(i)
      BY <3>4, <3>5, <3>6, CloseStep
    <3>8. QED
      BY <3>4, <3>7 DEF Promise!Next
  <2>4. CASE Arrive(w)
    <3>1. PICK id \in Ids : id = worker[w].id /\ id \in DOMAIN row /\ ~row[id].finished
      BY <2>4, HeldRow DEF Arrive, Busy
    <3>2. /\ received' = [received EXCEPT ![id] = @ + 1] /\ UNCHANGED <<row, nextId>>
          /\ received \in [Ids -> Nat]
      BY <2>4, <3>1 DEF Arrive, DeliveryInv, TypeOK
    <3>3. {i \in Ids : received[i] > 0}' = {i \in Ids : received[i] > 0} \cup {id}
      BY <3>1, <3>2
    <3>4. [i \in Ids |-> Standing(i)]' = [i \in Ids |-> Standing(i)]
      BY <3>2 DEF Standing, Outcome
    <3>5. Standing(id) = "open"
      BY <3>1, StandingOf
    <3>6. Promise!Arrive(id)
      BY <3>1, <3>3, <3>4, <3>5 DEF Promise!Arrive
    <3>7. QED
      BY <3>1, <3>6 DEF Promise!Next
  <2>5. CASE Commit(w)
    <3>1. PICK id \in DOMAIN row, since \in Nat, answer \in Answers, q \in Row :
            /\ worker[w].id = id
            /\ q.finished => \/ q.error = "none" /\ answer = "ok"
                             \/ q.error = "refused" /\ answer = "refused"
                             \/ q.error = "unsendable" /\ answer = "unsendable"
                             \/ q.error = "retryable" /\ q.attempts = MaxAttempts
            /\ DOMAIN row' = DOMAIN row /\ row'[id] = q
            /\ \A j \in DOMAIN row : j # id => row'[j] = row[j]
            /\ answer \in {"ok", "refused"} => received[id] > 0
      BY <2>5, CommittedAttempt
    <3>2. UNCHANGED <<nextId, received>> /\ ~row[id].finished /\ id \in Ids
      BY <2>5, <3>1, HeldRow DEF Commit, Busy
    <3>3. CASE q.finished
      <4>1. q.error = "none" => received[id] > 0
        BY <3>1, <3>3
      <4>2. Promise!Close(id)
        BY <3>1, <3>2, <3>3, <4>1, CloseStep
      <4>3. QED
        BY <3>2, <4>2 DEF Promise!Next
    <3>4. CASE ~q.finished
      <4>1. Standing(id)' = "open" /\ \A j \in Ids : j # id => Standing(j)' = Standing(j)
        BY <3>1, <3>2, <3>4, StandingAfter
      <4>2. Standing(id) = "open"
        BY <3>2, StandingOf
      <4>3. [i \in Ids |-> Standing(i)]' = [i \in Ids |-> Standing(i)]
        BY <4>1, <4>2
      <4>4. QED
        BY <3>2, <4>3 DEF Promise!vars
    <3>5. QED
      BY <3>3, <3>4
  <2>6. QED
    BY <2>1, <2>2, <2>3, <2>4, <2>5 DEF Deliver
<1>5. QED
  BY <1>1, <1>2, <1>3, <1>4 DEF Next

\* The table tb_rpc_result_webhooks with its workers implements AtLeastOnce: a result
\* arrives only while its row is open, and is recorded as delivered only after it has
\* arrived.
THEOREM OutboxImplemented == Spec => Outbox
<1>1. Init => Promise!Init
  BY OutboxInit, DeliveryAssumption
<1>2. DeliveryInv /\ [Next]_vars => [Promise!Next]_(Promise!vars)
  BY OutboxStep, DeliveryAssumption
<1>3. QED
  BY <1>1, <1>2, DeliveryInvariant, PTL DEF Spec, Outbox, Promise!Spec

-----------------------------------------------------------------------------
(***************************************************************************)
(* Leases of several terminals: after a logout none that was held then is  *)
(* held by the same lease.  The invariant says of every lease that a       *)
(* logout began with that it is over or that the logout will yet come to   *)
(* it, and of every row a request is about to write that it is that of     *)
(* the lease it is written for.                                            *)
(***************************************************************************)

\* The record is a row of a lease, and that of a request.
LeaseRow(l) ==
  /\ l = [sn |-> l.sn, owner |-> l.owner, scope |-> l.scope, revoked |-> l.revoked]
  /\ l.revoked \in BOOLEAN
Call(q) == /\ q = [op |-> q.op, step |-> q.step, who |-> q.who, sn |-> q.sn, scope |-> q.scope,
                   id |-> q.id, lease |-> q.lease, mine |-> q.mine, dirty |-> q.dirty,
                   scan |-> q.scan, found |-> q.found, gone |-> q.gone, held |-> q.held]
           /\ q.id \in LeaseIds \cup {0} /\ q.held \subseteq LeaseIds
           /\ q.found \subseteq LeaseIds
           /\ q.mine \in BOOLEAN /\ q.dirty \in BOOLEAN /\ LeaseRow(q.lease)

DataTypeOK ==
  /\ slots \in [Terminals -> LeaseIds \cup {0}]
  /\ leases = [i \in LeaseIds |-> leases[i]] /\ \A i \in LeaseIds : LeaseRow(leases[i])
  /\ copies = [i \in LeaseIds |-> copies[i]] /\ \A i \in LeaseIds : LeaseRow(copies[i])
  /\ spent \in [leases: Nat, requests: Nat, fails: Nat]

ServiceTypeOK ==
  /\ DataTypeOK
  /\ request = [r \in ServiceRequests |-> request[r]]
  /\ \A r \in ServiceRequests : Call(request[r])

\* No active key names the lease any more; none will.
Gone(i) == KnownLease(i) /\ \A t \in Terminals : slots[t] # i
\* It cannot be the active lease of a terminal again.
Over(i) == Gone(i) \/ i \in lapsed

\* What is read of a lease at any time says the same of its terminal and of its owner.
SameLease(l, i) == KnownLease(i) /\ l.sn = leases[i].sn /\ l.owner = leases[i].owner

RowsHold ==
  /\ \A i \in LeaseIds :
       /\ KnownLease(i) => leases[i].sn \in Terminals /\ i <= spent.leases
       /\ copies[i] # BlankLease => SameLease(copies[i], i)
       /\ leases[i].revoked \/ copies[i].revoked => Gone(i)
  /\ \A t \in Terminals : slots[t] # 0 => KnownLease(slots[t]) /\ leases[slots[t]].sn = t

Naming == {"get", "got", "put", "remember", "publish", "again", "revoke", "look", "free", "forget"}
Carrying == {"put", "remember", "look", "free", "forget"}

\* What a request goes on with still holds.
Backed(q) ==
  /\ q.step \in Naming \/ (q.step = "read" /\ q.op \in {"keepalive", "upgrade"}) =>
       q.id # 0 /\ KnownLease(q.id)
  /\ q.step \in Carrying \/ (q.step = "exec" /\ q.id # 0) => SameLease(q.lease, q.id)
  /\ q.step \in {"exec", "put", "remember"} => ~q.lease.revoked
  /\ q.step = "exec" => q.sn \in Terminals /\ q.lease.sn = q.sn
                        /\ (q.id = 0 => q.op = "acquire")
  /\ q.step = "read" => /\ q.op = "acquire" => q.sn \in Terminals
                        /\ q.op = "keepalive" => leases[q.id].sn = q.sn
  /\ (q.step = "free" /\ ~q.mine) \/ q.step = "forget" => Gone(q.id)
  /\ \A i \in q.found : KnownLease(i)

\* A lease the user held is over, or the logout will yet come to it.
Reached(q, i) ==
  \/ Over(i) \/ leases[i].sn \in q.scan \/ i \in q.found
  \/ q.step \in {"got", "revoke", "look", "free"} /\ q.id = i
Clearing(q) ==
  q.op = "logout" => \A i \in q.held : KnownLease(i) /\ Matches(leases[i], q.who) /\ Reached(q, i)

\* A transaction that is not spoiled has read the active key as it is.
Watched(q) == q.step = "exec" /\ ~q.dirty /\ q.id # 0 => slots[q.sn] = q.id

LogoutInv ==
  /\ ServiceTypeOK /\ RowsHold
  /\ \A r \in ServiceRequests : Backed(request[r]) /\ Clearing(request[r]) /\ Watched(request[r])

-----------------------------------------------------------------------------
(* Shapes *)

\* The row of no lease.
LEMMA BlankLeaseRow == LeaseRow(BlankLease) /\ BlankLease.sn = "none" /\ BlankLease.revoked = FALSE
BY DEF LeaseRow, BlankLease

\* The record of no request, which relies on nothing.
LEMMA IdleRequestCall ==
  /\ Call(IdleRequest) /\ Backed(IdleRequest) /\ Clearing(IdleRequest) /\ Watched(IdleRequest)
  /\ IdleRequest.step = "idle"
BY BlankLeaseRow DEF IdleRequest, Call, Backed, Clearing, Watched, Naming, Carrying

\* Nothing that a request relies on is taken back.
Grows ==
  /\ \A i \in LeaseIds : KnownLease(i) => /\ KnownLease(i)' /\ leases'[i].sn = leases[i].sn
                                     /\ leases'[i].owner = leases[i].owner
  /\ \A i \in LeaseIds : Gone(i) => Gone(i)'
  /\ lapsed \subseteq lapsed'

\* A record that a request goes on with is backed, and clears, after the step as before.
LEMMA BackedStays ==
  ASSUME Grows, NEW r \in ServiceRequests, NEW new, Call(new), request'[r] = new,
         Backed(new), Clearing(new)
  PROVE  (Backed(request[r]) /\ Clearing(request[r]))'
<1>1. /\ new.id # 0 => new.id \in LeaseIds
      /\ new.held \subseteq LeaseIds /\ new.found \subseteq LeaseIds
  BY DEF Call
<1>2. \A i \in LeaseIds : KnownLease(i) =>
        /\ leases'[i] # BlankLease
        /\ leases'[i].sn = leases[i].sn /\ leases'[i].owner = leases[i].owner
  BY DEF Grows, KnownLease
<1>3. \A i \in LeaseIds : Gone(i) =>
        leases'[i] # BlankLease /\ \A t \in Terminals : slots'[t] # i
  BY DEF Grows, Gone, KnownLease
<1>4. Backed(request[r])'
  <2>1. /\ new.step \in Naming \/ (new.step = "read" /\ new.op \in {"keepalive", "upgrade"}) =>
             new.id # 0 /\ leases'[new.id] # BlankLease
        /\ new.step \in Carrying \/ (new.step = "exec" /\ new.id # 0) =>
             /\ leases'[new.id] # BlankLease /\ new.lease.sn = leases'[new.id].sn
             /\ new.lease.owner = leases'[new.id].owner
    BY <1>1, <1>2 DEF Backed, SameLease, Naming, Carrying
  <2>2. new.step = "read" /\ new.op = "keepalive" => leases'[new.id].sn = new.sn
    BY <1>1, <1>2 DEF Backed
  <2>3. (new.step = "free" /\ ~new.mine) \/ new.step = "forget" =>
          leases'[new.id] # BlankLease /\ \A t \in Terminals : slots'[t] # new.id
    BY <1>1, <1>3 DEF Backed, Naming
  <2>4. \A i \in new.found : leases'[i] # BlankLease
    BY <1>1, <1>2 DEF Backed
  <2> QED BY <2>1, <2>2, <2>3, <2>4 DEF Backed, SameLease, KnownLease, Gone
<1>5. Clearing(request[r])'
  <2> SUFFICES ASSUME new.op = "logout", NEW i \in new.held
               PROVE  /\ leases'[i] # BlankLease /\ Matches(leases'[i], new.who)
                      /\ \/ leases'[i] # BlankLease /\ \A t \in Terminals : slots'[t] # i
                         \/ i \in lapsed'
                         \/ leases'[i].sn \in new.scan \/ i \in new.found
                         \/ new.step \in {"got", "revoke", "look", "free"} /\ new.id = i
    BY DEF Clearing, Reached, Over, Gone, KnownLease
  <2>1. i \in LeaseIds /\ KnownLease(i) /\ Matches(leases[i], new.who) /\ Reached(new, i)
    BY <1>1 DEF Clearing
  <2>2. /\ leases'[i] # BlankLease
        /\ leases'[i].sn = leases[i].sn /\ leases'[i].owner = leases[i].owner
    BY <1>2, <2>1
  <2>3. Matches(leases'[i], new.who)
    BY <2>1, <2>2 DEF Matches
  <2>4. Gone(i) => \A t \in Terminals : slots'[t] # i
    BY <1>3, <2>1
  <2>5. i \in lapsed => i \in lapsed'
    BY DEF Grows
  <2> QED BY <2>1, <2>2, <2>3, <2>4, <2>5 DEF Reached, Over
<1> QED BY <1>4, <1>5

\* A transaction may be spoiled.
LikeBefore(r) ==
  request'[r] = request[r] \/ request'[r] = [request[r] EXCEPT !.dirty = TRUE]

\* What a spoiled transaction goes on with is as it was.
LEMMA SpoiledStays ==
  ASSUME NEW r \in ServiceRequests, Call(request[r]), LikeBefore(r)
  PROVE  /\ Call(request'[r])
         /\ Backed(request[r]) => Backed(request'[r])
         /\ Clearing(request[r]) => Clearing(request'[r])
         /\ request'[r].step = request[r].step /\ request'[r].id = request[r].id
         /\ request'[r].sn = request[r].sn
         /\ ~request'[r].dirty => ~request[r].dirty
<1> DEFINE q == request'[r]
           old == request[r]
<1>1. CASE q = old
  BY <1>1
<1>2. CASE q = [old EXCEPT !.dirty = TRUE]
  <2> HIDE DEF q, old
  <2>0. Call(old)
    BY DEF old
  <2>1. q = [op |-> old.op, step |-> old.step, who |-> old.who, sn |-> old.sn,
             scope |-> old.scope, id |-> old.id, lease |-> old.lease, mine |-> old.mine,
             dirty |-> TRUE, scan |-> old.scan, found |-> old.found, gone |-> old.gone,
             held |-> old.held]
    BY <1>2, <2>0 DEF Call
  <2>2. /\ q.op = old.op /\ q.step = old.step /\ q.who = old.who /\ q.sn = old.sn
        /\ q.id = old.id /\ q.lease = old.lease /\ q.mine = old.mine /\ q.dirty = TRUE
        /\ q.scan = old.scan /\ q.found = old.found /\ q.held = old.held
        /\ q.scope = old.scope /\ q.gone = old.gone
    BY <2>1
  <2>3. Call(q)
    BY <2>0, <2>1, <2>2 DEF Call
  <2>4. Backed(old) => Backed(q)
    BY <2>2 DEF Backed
  <2>5. Clearing(old) => Clearing(q)
    BY <2>2 DEF Clearing, Reached
  <2> QED BY <2>2, <2>3, <2>4, <2>5 DEF q, old
<1> QED BY <1>1, <1>2 DEF LikeBefore

\* The step of one request, which spoils the transactions of others.
LEMMA TurnKeeps ==
  ASSUME LogoutInv, Grows, RowsHold', ServiceTypeOK', NEW r \in ServiceRequests,
         (Backed(request[r]) /\ Clearing(request[r]) /\ Watched(request[r]))',
         \A p \in ServiceRequests \ {r} :
           /\ LikeBefore(p)
           /\ \/ slots'[request[p].sn] = slots[request[p].sn]
              \/ request[p].step = "exec" => request'[p].dirty
  PROVE  LogoutInv'
<1>1. ASSUME NEW p \in ServiceRequests, p # r
      PROVE  (Backed(request[p]) /\ Clearing(request[p]) /\ Watched(request[p]))'
  <2>1. Call(request[p]) /\ Backed(request[p]) /\ Clearing(request[p]) /\ Watched(request[p])
    BY DEF LogoutInv, ServiceTypeOK
  <2>2. LikeBefore(p)
    BY <1>1
  <2>3. /\ Call(request'[p]) /\ Backed(request'[p]) /\ Clearing(request'[p])
        /\ request'[p].step = request[p].step /\ request'[p].id = request[p].id
        /\ request'[p].sn = request[p].sn
        /\ ~request'[p].dirty => ~request[p].dirty
    BY <2>1, <2>2, SpoiledStays
  <2>4. (Backed(request[p]) /\ Clearing(request[p]))'
    BY <2>3, BackedStays
  <2>5. Watched(request[p])'
    BY <1>1, <2>1, <2>3 DEF Watched
  <2> QED BY <2>4, <2>5
<1> QED BY <1>1 DEF LogoutInv

\* What the step writes over a row is the same lease, and a revoked one that is gone.
SameRow(l, old, i) == l = old \/ (LeaseRow(l) /\ SameLease(l, i) /\ (l.revoked => Gone(i)))
Rewrites ==
  /\ slots' = slots /\ lapsed \subseteq lapsed'
  /\ spent' \in [leases: Nat, requests: Nat, fails: Nat] /\ spent'.leases = spent.leases
  /\ leases' = [i \in LeaseIds |-> leases'[i]] /\ copies' = [i \in LeaseIds |-> copies'[i]]
  /\ \A i \in LeaseIds : SameRow(leases'[i], leases[i], i) /\ SameRow(copies'[i], copies[i], i)

\* Writing rows of the same leases takes nothing back.
LEMMA RewritesKeep ==
  ASSUME "none" \notin Terminals, DataTypeOK, RowsHold, Rewrites
  PROVE  Grows /\ RowsHold' /\ DataTypeOK'
<1>0. \A i \in LeaseIds :
        /\ KnownLease(i) => leases[i].sn \in Terminals /\ i <= spent.leases
        /\ copies[i] # BlankLease => SameLease(copies[i], i)
        /\ leases[i].revoked \/ copies[i].revoked => Gone(i)
  BY DEF RowsHold
<1>1. ASSUME NEW i \in LeaseIds
      PROVE  /\ LeaseRow(leases'[i]) /\ LeaseRow(copies'[i])
             /\ KnownLease(i) => leases'[i] # BlankLease /\ leases'[i].sn = leases[i].sn
                            /\ leases'[i].owner = leases[i].owner
             /\ leases'[i] # BlankLease => KnownLease(i)
             /\ copies'[i] # BlankLease => SameLease(copies'[i], i)
             /\ leases'[i].revoked \/ copies'[i].revoked => Gone(i)
  <2>1. LeaseRow(leases[i]) /\ LeaseRow(copies[i])
    BY DEF DataTypeOK
  <2>2. SameRow(leases'[i], leases[i], i) /\ SameRow(copies'[i], copies[i], i)
    BY DEF Rewrites
  <2>3. KnownLease(i) => leases'[i] # BlankLease
    BY <1>0, <2>2, BlankLeaseRow DEF SameRow, SameLease, KnownLease
  <2> QED BY <1>0, <2>1, <2>2, <2>3 DEF SameRow, SameLease, KnownLease
<1>2. slots' = slots /\ lapsed \subseteq lapsed'
  BY DEF Rewrites
<1>3. \A i \in LeaseIds : (KnownLease(i)' <=> KnownLease(i)) /\ (Gone(i)' <=> Gone(i))
  BY <1>1, <1>2 DEF KnownLease, Gone
<1>4. Grows
  BY <1>1, <1>2, <1>3 DEF Grows
<1>5. DataTypeOK'
  BY <1>1, <1>2 DEF DataTypeOK, Rewrites
<1>6. RowsHold'
  <2>1. ASSUME NEW i \in LeaseIds
        PROVE  /\ leases'[i] # BlankLease => leases'[i].sn \in Terminals /\ i <= spent'.leases
               /\ copies'[i] # BlankLease => /\ leases'[i] # BlankLease
                                        /\ copies'[i].sn = leases'[i].sn
                                        /\ copies'[i].owner = leases'[i].owner
               /\ leases'[i].revoked \/ copies'[i].revoked =>
                    leases'[i] # BlankLease /\ \A t \in Terminals : slots'[t] # i
    <3>1. spent'.leases = spent.leases
      BY DEF Rewrites
    <3> QED BY <1>0, <1>1, <1>2, <3>1 DEF SameLease, KnownLease, Gone
  <2>2. ASSUME NEW t \in Terminals, slots'[t] # 0
        PROVE  leases'[slots'[t]] # BlankLease /\ leases'[slots'[t]].sn = t
    <3>1. slots[t] \in LeaseIds /\ KnownLease(slots[t]) /\ leases[slots[t]].sn = t
      BY <1>2, <2>2 DEF RowsHold, DataTypeOK
    <3> QED BY <1>1, <1>2, <3>1
  <2> QED BY <2>1, <2>2 DEF RowsHold, SameLease, KnownLease, Gone
<1> QED BY <1>4, <1>5, <1>6

\* The request goes on as new, and the transactions of others may be spoiled.
Turned(r, new) ==
  /\ request' = [p \in ServiceRequests |-> request'[p]] /\ request'[r] = new
  /\ \A p \in ServiceRequests \ {r} : LikeBefore(p)

\* A step of one request leaves the others alone,
LEMMA GoTurns ==
  ASSUME ServiceTypeOK, NEW r \in ServiceRequests, NEW new, Go(r, new)
  PROVE  Turned(r, new)
BY DEF ServiceTypeOK, Go, Turned, LikeBefore

\* or spoils the transactions that watch what it writes.
LEMMA GoWriteTurns ==
  ASSUME ServiceTypeOK, NEW r \in ServiceRequests, NEW new, NEW t, NEW i, GoWrite(r, new, t, i),
         new.step # "exec"
  PROVE  /\ Turned(r, new)
         /\ \A p \in ServiceRequests \ {r} :
              request[p].step = "exec" /\ request[p].sn = t => request'[p].dirty
<1> DEFINE mid == [request EXCEPT ![r] = new]
<1>1. mid = [p \in ServiceRequests |-> mid[p]] /\ mid[r] = new
      /\ \A p \in ServiceRequests \ {r} : mid[p] = request[p]
  BY DEF ServiceTypeOK
<1>2. request' = [p \in ServiceRequests |->
                    IF mid[p].step = "exec" /\ (mid[p].sn = t \/ mid[p].id = i)
                    THEN [mid[p] EXCEPT !.dirty = TRUE] ELSE mid[p]]
  BY DEF GoWrite, Spoiled
<1> HIDE DEF mid
<1>3. request'[r] = new
  BY <1>1, <1>2
<1>4. ASSUME NEW p \in ServiceRequests \ {r}
      PROVE  /\ LikeBefore(p)
             /\ request[p].step = "exec" /\ request[p].sn = t => request'[p].dirty
  <2>1. request'[p] = IF request[p].step = "exec" /\ (request[p].sn = t \/ request[p].id = i)
                      THEN [request[p] EXCEPT !.dirty = TRUE] ELSE request[p]
    BY <1>1, <1>2
  <2>2. [request[p] EXCEPT !.dirty = TRUE].dirty
    BY DEF ServiceTypeOK, Call
  <2> QED BY <2>1, <2>2 DEF LikeBefore
<1>5. request' = [p \in ServiceRequests |-> request'[p]]
  BY <1>2
<1> QED BY <1>3, <1>4, <1>5 DEF Turned

\* The records of all requests are of the right shape after it.
LEMMA TurnedTyped ==
  ASSUME ServiceTypeOK, DataTypeOK', NEW r \in ServiceRequests, NEW new, Call(new), Turned(r, new)
  PROVE  ServiceTypeOK'
<1>1. ASSUME NEW p \in ServiceRequests PROVE Call(request'[p])
  BY SpoiledStays DEF Turned, ServiceTypeOK
<1> QED BY <1>1 DEF ServiceTypeOK, Turned

\* A step that takes no active key and frees none.
LEMMA StillTurn ==
  ASSUME "none" \notin Terminals, LogoutInv, NEW r \in ServiceRequests, NEW new, Call(new),
         Turned(r, new), Rewrites, Backed(new), Clearing(new), Watched(new)
  PROVE  LogoutInv'
<1>1. Grows /\ RowsHold' /\ DataTypeOK'
  BY RewritesKeep DEF LogoutInv, ServiceTypeOK
<1>2. ServiceTypeOK'
  BY <1>1, TurnedTyped DEF LogoutInv
<1>3. (Backed(request[r]) /\ Clearing(request[r]))'
  BY <1>1, BackedStays DEF Turned
<1>4. slots' = slots /\ request'[r] = new
  BY DEF Turned, Rewrites
<1>5. Watched(request[r])'
  BY <1>4 DEF Watched
<1>6. \A p \in ServiceRequests \ {r} : LikeBefore(p) /\ slots'[request[p].sn] = slots[request[p].sn]
  BY <1>4 DEF Turned
<1> QED BY <1>1, <1>2, <1>3, <1>5, <1>6, TurnKeeps

DataSame ==
  /\ slots' = slots /\ leases' = leases /\ copies' = copies /\ lapsed \subseteq lapsed'
  /\ spent' \in [leases: Nat, requests: Nat, fails: Nat] /\ spent'.leases = spent.leases

\* Nothing is written.
LEMMA SameRewrites ==
  ASSUME DataTypeOK, DataSame
  PROVE  Rewrites
BY DEF DataTypeOK, DataSame, Rewrites, SameRow

\* A step that writes nothing.
LEMMA QuietTurn ==
  ASSUME "none" \notin Terminals, LogoutInv, NEW r \in ServiceRequests, NEW new, Call(new),
         Go(r, new), DataSame, Backed(new), Clearing(new), Watched(new)
  PROVE  LogoutInv'
<1>1. Turned(r, new)
  BY GoTurns DEF LogoutInv
<1>2. Rewrites
  BY SameRewrites DEF LogoutInv, ServiceTypeOK
<1> QED BY <1>1, <1>2, StillTurn

\* A request ends.
LEMMA EndTurn ==
  ASSUME "none" \notin Terminals, LogoutInv, NEW r \in ServiceRequests, End(r), DataSame
  PROVE  LogoutInv'
BY IdleRequestCall, QuietTurn DEF End

\* What the invariant says of one request,
LEMMA OneOf ==
  ASSUME LogoutInv, NEW r \in ServiceRequests
  PROVE  Call(request[r]) /\ Backed(request[r]) /\ Clearing(request[r]) /\ Watched(request[r])
BY DEF LogoutInv, ServiceTypeOK

\* and of what is stored.
LEMMA DataOf ==
  ASSUME LogoutInv
  PROVE  DataTypeOK /\ RowsHold /\ ServiceTypeOK
BY DEF LogoutInv, ServiceTypeOK

\* The records that requests go on with, and those they begin with.
Ahead(q, step, sn, id, lease, mine, dirty, scan, found, gone) ==
  [op |-> q.op, step |-> step, who |-> q.who, sn |-> sn, scope |-> q.scope, id |-> id,
   lease |-> lease, mine |-> mine, dirty |-> dirty, scan |-> scan, found |-> found,
   gone |-> gone, held |-> q.held]
Asked(op, step, who, sn, scope, id, scan, held) ==
  [op |-> op, step |-> step, who |-> who, sn |-> sn, scope |-> scope, id |-> id,
   lease |-> BlankLease, mine |-> FALSE, dirty |-> FALSE, scan |-> scan, found |-> {},
   gone |-> {}, held |-> held]

\* Both are of the shape of a request.
LEMMA AheadCall ==
  ASSUME NEW q, Call(q), NEW step, NEW sn, NEW id \in LeaseIds \cup {0}, NEW lease, LeaseRow(lease),
         NEW mine \in BOOLEAN, NEW dirty \in BOOLEAN, NEW scan, NEW found \in SUBSET LeaseIds,
         NEW gone
  PROVE  Call(Ahead(q, step, sn, id, lease, mine, dirty, scan, found, gone))
BY DEF Call, Ahead

\* And so are those they begin with.
LEMMA AskedCall ==
  ASSUME NEW op, NEW step, NEW who, NEW sn, NEW scope, NEW id \in LeaseIds \cup {0},
         NEW scan, NEW held \in SUBSET LeaseIds
  PROVE  Call(Asked(op, step, who, sn, scope, id, scan, held))
BY BlankLeaseRow DEF Call, Asked

\* The fields of the record of no request,
LEMMA IdleRequestFields ==
  /\ IdleRequest.op = "idle" /\ IdleRequest.step = "idle" /\ IdleRequest.who = NoOne
  /\ IdleRequest.sn = "none" /\ IdleRequest.scope = "none" /\ IdleRequest.id = 0
  /\ IdleRequest.lease = BlankLease /\ IdleRequest.mine = FALSE /\ IdleRequest.dirty = FALSE
  /\ IdleRequest.scan = {} /\ IdleRequest.found = {} /\ IdleRequest.gone = {}
  /\ IdleRequest.held = {}
BY DEF IdleRequest

\* and those of a record in which two fields are set.
LEMMA AskedIs ==
  ASSUME NEW q, Call(q), NEW op, NEW who, NEW m, m = [q EXCEPT !.op = op, !.who = who]
  PROVE  m = [op |-> op, step |-> q.step, who |-> who, sn |-> q.sn, scope |-> q.scope,
              id |-> q.id, lease |-> q.lease, mine |-> q.mine, dirty |-> q.dirty,
              scan |-> q.scan, found |-> q.found, gone |-> q.gone, held |-> q.held]
BY DEF Call

\* What get returns is the same lease.
LEMMA GotSame ==
  ASSUME LogoutInv, NEW i \in LeaseIds
  PROVE  /\ LeaseRow(Got(i)) /\ (KnownLease(i) => SameLease(Got(i), i) /\ Got(i) # BlankLease)
         /\ Got(i).revoked => Gone(i)
         /\ ~KnownLease(i) => Got(i) = BlankLease
<1>1. LeaseRow(leases[i]) /\ LeaseRow(copies[i])
      /\ (copies[i] # BlankLease => SameLease(copies[i], i))
      /\ (leases[i].revoked \/ copies[i].revoked => Gone(i))
  BY DEF LogoutInv, ServiceTypeOK, DataTypeOK, RowsHold
<1> QED BY <1>1, BlankLeaseRow DEF Got, SameLease, KnownLease

\* get writes rows of the same lease.
LEMMA GetsRewrites ==
  ASSUME LogoutInv, NEW i \in LeaseIds, Gets(i),
         slots' = slots, lapsed' = lapsed, spent' = spent
  PROVE  Rewrites
<1>1. /\ leases = [j \in LeaseIds |-> leases[j]] /\ copies = [j \in LeaseIds |-> copies[j]]
      /\ spent \in [leases: Nat, requests: Nat, fails: Nat]
  BY DataOf DEF DataTypeOK
<1>2. /\ leases' = [leases EXCEPT ![i] = Got(i)]
      /\ copies' = [copies EXCEPT ![i] = IF KnownLease(i) THEN Got(i) ELSE copies[i]]
  BY DEF Gets
<1>3. /\ leases' = [j \in LeaseIds |-> leases'[j]] /\ copies' = [j \in LeaseIds |-> copies'[j]]
      /\ \A j \in LeaseIds \ {i} : leases'[j] = leases[j] /\ copies'[j] = copies[j]
      /\ leases'[i] = Got(i) /\ copies'[i] = (IF KnownLease(i) THEN Got(i) ELSE copies[i])
  BY <1>1, <1>2
<1>4. SameRow(leases'[i], leases[i], i) /\ SameRow(copies'[i], copies[i], i)
  <2>1. CASE KnownLease(i)
    BY <2>1, <1>3, GotSame DEF SameRow
  <2>2. CASE ~KnownLease(i)
    BY <2>2, <1>3, GotSame DEF SameRow, KnownLease
  <2> QED BY <2>1, <2>2
<1> QED BY <1>1, <1>3, <1>4 DEF Rewrites, SameRow

\* A step that gets a lease.
LEMMA GetTurn ==
  ASSUME "none" \notin Terminals, LogoutInv, NEW r \in ServiceRequests, NEW new, Call(new),
         NEW i \in LeaseIds, Gets(i), slots' = slots, lapsed' = lapsed, spent' = spent,
         NEW t, GoWrite(r, new, t, i), new.step # "exec",
         Backed(new), Clearing(new)
  PROVE  LogoutInv'
<1>1. Turned(r, new)
  BY GoWriteTurns, DataOf
<1>2. Watched(new)
  BY DEF Watched
<1> QED BY <1>1, <1>2, GetsRewrites, StillTurn

-----------------------------------------------------------------------------
(* The requests *)

\* A request begins.
LEMMA AsksTurn ==
  ASSUME "none" \notin Terminals, LogoutInv, NEW r \in ServiceRequests, NEW op, NEW s, NEW new,
         Asks(r, op, s, new), NEW m, m = [new EXCEPT !.op = op, !.who = s],
         Call(m), Backed(m), Clearing(m), m.step # "exec"
  PROVE  LogoutInv'
<1>1. Watched(m)
  BY DEF Watched
<1>2. DataSame
  <2>1. spent \in [leases: Nat, requests: Nat, fails: Nat]
    BY DataOf DEF DataTypeOK
  <2> QED BY <2>1 DEF Asks, DataSame
<1>3. Go(r, m)
  BY DEF Asks
<1> QED BY <1>1, <1>2, <1>3, QuietTurn

\* It names a terminal,
LEMMA AcquireLeaseKeeps ==
  ASSUME "none" \notin Terminals, LogoutInv, NEW r \in ServiceRequests, NEW s,
         NEW t \in Terminals, NEW scope, AcquireLease(r, s, t, scope)
  PROVE  LogoutInv'
<1>1. PICK new : new = [IdleRequest EXCEPT !.step = "read", !.sn = t, !.scope = scope]
  OBVIOUS
<1>2. PICK m : m = [new EXCEPT !.op = "acquire", !.who = s]
  OBVIOUS
<1>3. m = Asked("acquire", "read", s, t, scope, 0, {}, {})
  <2>1. new = Asked("idle", "read", NoOne, t, scope, 0, {}, {})
    BY <1>1, IdleRequestCall, IdleRequestFields DEF Call, Asked
  <2>2. Call(new)
    BY <2>1, AskedCall
  <2> QED BY <1>2, <2>1, <2>2, AskedIs DEF Asked
<1>4. m.op = "acquire" /\ m.step = "read" /\ m.sn = t /\ m.found = {}
  BY <1>3 DEF Asked
<1>5. Call(m)
  BY <1>3, AskedCall
<1>6. Asks(r, "acquire", s, new)
  BY <1>1 DEF AcquireLease
<1>7. Backed(m) /\ Clearing(m)
  BY <1>4 DEF Backed, Clearing, Naming, Carrying
<1> QED BY <1>2, <1>4, <1>5, <1>6, <1>7, AsksTurn

\* a lease that is there,
LEMMA AboutKeeps ==
  ASSUME "none" \notin Terminals, LogoutInv, NEW r \in ServiceRequests, NEW s,
         NEW op \in {"upgrade", "keepalive", "release"},
         NEW i \in LeaseIds, NEW scope, About(r, s, op, i, scope)
  PROVE  LogoutInv'
<1>1. PICK new : new = [IdleRequest EXCEPT !.step = "get", !.id = i, !.scope = scope]
  OBVIOUS
<1>2. PICK m : m = [new EXCEPT !.op = op, !.who = s]
  OBVIOUS
<1>3. m = Asked(op, "get", s, "none", scope, i, {}, {})
  <2>1. new = Asked("idle", "get", NoOne, "none", scope, i, {}, {})
    BY <1>1, IdleRequestCall, IdleRequestFields DEF Call, Asked
  <2>2. Call(new)
    BY <2>1, AskedCall
  <2> QED BY <1>2, <2>1, <2>2, AskedIs DEF Asked
<1>4. m.op = op /\ m.step = "get" /\ m.id = i /\ m.found = {}
  BY <1>3 DEF Asked
<1>5. Call(m)
  BY <1>3, AskedCall
<1>6. Asks(r, op, s, new) /\ KnownLease(i) /\ i # 0
  BY <1>1 DEF About, LeaseIds
<1>7. Backed(m) /\ Clearing(m)
  BY <1>4, <1>6 DEF Backed, Clearing, Naming, Carrying
<1> QED BY <1>2, <1>4, <1>5, <1>6, <1>7, AsksTurn

\* the leases the user, or the session, holds: each is the active lease of its terminal,
\* which the scan will come to;
LEMMA LogoutKeeps ==
  ASSUME "none" \notin Terminals, LogoutInv, NEW r \in ServiceRequests, NEW s, Logout(r, s)
  PROVE  LogoutInv'
<1> DEFINE scan == {t \in Terminals : slots[t] # 0}
<1>1. PICK new : new = [IdleRequest EXCEPT !.step = "scan", !.held = Holds(s), !.scan = scan]
  OBVIOUS
<1>2. PICK m : m = [new EXCEPT !.op = "logout", !.who = s]
  OBVIOUS
<1>3. Asks(r, "logout", s, new)
  BY <1>1 DEF Logout
<1>4. ASSUME NEW i \in Holds(s)
      PROVE  i \in LeaseIds /\ KnownLease(i) /\ Matches(leases[i], s) /\ leases[i].sn \in scan
  <2>1. PICK t \in Terminals : GetActive(t) = i /\ KnownLease(i) /\ leases[i].owner.user = s.user
                 /\ s.session \in {Everyone, leases[i].owner.session}
    BY DEF Holds
  <2>2. i \in LeaseIds /\ i # 0
    BY DEF Holds, LeaseIds
  <2>3. slots[t] = i
    BY <2>1, <2>2 DEF GetActive
  <2>4. leases[i].sn = t
    BY <2>1, <2>2, <2>3, DataOf DEF RowsHold
  <2> QED BY <2>1, <2>2, <2>3, <2>4 DEF Matches
<1>5. Holds(s) \subseteq LeaseIds
  BY <1>4
<1> HIDE DEF scan
<1>6. m = Asked("logout", "scan", s, "none", "none", 0, scan, Holds(s))
  <2>1. new = Asked("idle", "scan", NoOne, "none", "none", 0, scan, Holds(s))
    BY <1>1, IdleRequestCall, IdleRequestFields DEF Call, Asked
  <2>2. Call(new)
    BY <1>5, <2>1, AskedCall
  <2> QED BY <1>2, <2>1, <2>2, AskedIs DEF Asked
<1>7. /\ m.op = "logout" /\ m.step = "scan" /\ m.who = s /\ m.found = {}
      /\ m.held = Holds(s) /\ m.scan = scan
  BY <1>6 DEF Asked
<1>8. Call(m)
  BY <1>5, <1>6, AskedCall
<1>9. Backed(m) /\ Clearing(m)
  BY <1>4, <1>7 DEF Backed, Clearing, Reached, Naming, Carrying
<1> QED BY <1>2, <1>3, <1>7, <1>8, <1>9, AsksTurn

\* or the lease of an active key.
LEMMA CleanupExpiredKeeps ==
  ASSUME "none" \notin Terminals, LogoutInv, NEW r \in ServiceRequests, NEW t \in Terminals,
         CleanupExpired(r, t)
  PROVE  LogoutInv'
<1> DEFINE i == slots[t]
<1>1. PICK new : new = [IdleRequest EXCEPT !.step = "revoke", !.id = i]
  OBVIOUS
<1>2. PICK m : m = [new EXCEPT !.op = "cleanup", !.who = NoOne]
  OBVIOUS
<1>3. Asks(r, "cleanup", NoOne, new) /\ i # 0
  BY <1>1 DEF CleanupExpired
<1>4. i \in LeaseIds /\ KnownLease(i)
  BY <1>3, DataOf DEF DataTypeOK, RowsHold
<1> HIDE DEF i
<1>5. m = Asked("cleanup", "revoke", NoOne, "none", "none", i, {}, {})
  <2>1. new = Asked("idle", "revoke", NoOne, "none", "none", i, {}, {})
    BY <1>1, IdleRequestCall, IdleRequestFields DEF Call, Asked
  <2>2. Call(new)
    BY <1>4, <2>1, AskedCall
  <2> QED BY <1>2, <2>1, <2>2, AskedIs DEF Asked
<1>6. m.op = "cleanup" /\ m.step = "revoke" /\ m.id = i /\ m.found = {}
  BY <1>5 DEF Asked
<1>7. Call(m)
  BY <1>4, <1>5, AskedCall
<1>8. Backed(m) /\ Clearing(m)
  BY <1>3, <1>4, <1>6 DEF Backed, Clearing, Naming, Carrying
<1> QED BY <1>2, <1>3, <1>6, <1>7, <1>8, AsksTurn

-----------------------------------------------------------------------------
(* acquire, touch and upgrade_scope *)

\* The fields of a record that a request has.
Parts(q) ==
  /\ q.id \in LeaseIds \cup {0} /\ LeaseRow(q.lease) /\ q.mine \in BOOLEAN
  /\ q.dirty \in BOOLEAN /\ q.found \in SUBSET LeaseIds /\ q.held \in SUBSET LeaseIds
  /\ (q.id # 0 => q.id \in LeaseIds)

\* They are typed.
LEMMA PartsOf == ASSUME NEW q, Call(q) PROVE Parts(q)
BY DEF Call, Parts

\* The lease that is got is the one that was asked for.
LEMMA GetLeaseKeeps ==
  ASSUME "none" \notin Terminals, LogoutInv, NEW r \in ServiceRequests, GetLease(r)
  PROVE  LogoutInv'
<1>1. PICK q : q = request[r]
  OBVIOUS
<1>2. Call(q) /\ Backed(q) /\ Parts(q)
  BY <1>1, OneOf, PartsOf
<1>3. q.op \in {"upgrade", "keepalive", "release"} /\ q.step = "get"
  BY <1>1 DEF GetLease, At
<1>4. q.id \in LeaseIds /\ KnownLease(q.id) /\ q.id # 0
  BY <1>2, <1>3 DEF Backed, Parts, Naming
<1>5. PICK l : l = Got(q.id)
  OBVIOUS
<1>6. PICK step : step = IF q.op = "release" THEN "revoke" ELSE "read"
  OBVIOUS
<1>7. PICK new : new = IF Admitted(q, q.id, l) THEN [q EXCEPT !.sn = l.sn, !.step = step]
                       ELSE IdleRequest
  OBVIOUS
<1>8. /\ GoWrite(r, new, "none", q.id) /\ Gets(q.id)
      /\ slots' = slots /\ lapsed' = lapsed /\ spent' = spent
  BY <1>1, <1>5, <1>6, <1>7 DEF GetLease
<1>9. CASE Admitted(q, q.id, l)
  <2>1. new = Ahead(q, step, l.sn, q.id, q.lease, q.mine, q.dirty, q.scan, q.found, q.gone)
    BY <1>2, <1>7, <1>9 DEF Call, Ahead
  <2>2. Call(new)
    BY <1>2, <2>1, AheadCall DEF Parts
  <2>3. /\ new.op = q.op /\ new.step = step /\ new.sn = l.sn /\ new.id = q.id
        /\ new.found = q.found
    BY <2>1 DEF Ahead
  <2>4. SameLease(l, q.id)
    BY <1>4, <1>5, GotSame
  <2>5. Backed(new)
    BY <1>2, <1>3, <1>4, <1>6, <2>3, <2>4 DEF Backed, SameLease, Naming, Carrying
  <2>6. Clearing(new) /\ new.step # "exec"
    BY <1>3, <1>6, <2>3 DEF Clearing
  <2> QED BY <1>4, <1>8, <2>2, <2>5, <2>6, GetTurn
<1>10. CASE ~Admitted(q, q.id, l)
  <2>1. new = IdleRequest
    BY <1>7, <1>10
  <2> QED BY <1>4, <1>8, <2>1, IdleRequestCall, GetTurn
<1> QED BY <1>9, <1>10

\* It is got once more before the answer is waited for.
LEMMA GetAgainKeeps ==
  ASSUME "none" \notin Terminals, LogoutInv, NEW r \in ServiceRequests, GetAgain(r)
  PROVE  LogoutInv'
<1>1. PICK q : q = request[r]
  OBVIOUS
<1>2. Call(q) /\ Backed(q) /\ Parts(q)
  BY <1>1, OneOf, PartsOf
<1>3. q.op = "keepalive" /\ q.step = "again"
  BY <1>1 DEF GetAgain, At
<1>4. PICK new : new = IF Got(q.id) = BlankLease \/ Got(q.id).revoked THEN IdleRequest
                       ELSE [q EXCEPT !.step = "wait"]
  OBVIOUS
<1>5. /\ GoWrite(r, new, "none", q.id) /\ Gets(q.id)
      /\ slots' = slots /\ lapsed' = lapsed /\ spent' = spent
  BY <1>1, <1>4 DEF GetAgain
<1>6. q.id \in LeaseIds
  BY <1>2, <1>3 DEF Backed, Parts, Naming
<1>7. CASE new = IdleRequest
  BY <1>5, <1>6, <1>7, IdleRequestCall, GetTurn
<1>8. CASE new = [q EXCEPT !.step = "wait"]
  <2>1. new = Ahead(q, "wait", q.sn, q.id, q.lease, q.mine, q.dirty, q.scan, q.found, q.gone)
    BY <1>2, <1>8 DEF Call, Ahead
  <2>2. Call(new)
    BY <1>2, <2>1, AheadCall DEF Parts
  <2>3. new.op = q.op /\ new.step = "wait" /\ new.found = q.found
    BY <2>1 DEF Ahead
  <2>4. Backed(new) /\ Clearing(new)
    BY <1>2, <1>3, <2>3 DEF Backed, Clearing, Naming, Carrying
  <2> QED BY <1>5, <1>6, <2>2, <2>3, <2>4, GetTurn
<1> QED BY <1>4, <1>7, <1>8

\* A step that reads, and goes on with what it has read.
LEMMA ReadTurn ==
  ASSUME "none" \notin Terminals, LogoutInv, NEW r \in ServiceRequests, NEW new,
         \/ new = IdleRequest
         \/ Call(new) /\ Backed(new) /\ Clearing(new) /\ Watched(new),
         Go(r, new), UNCHANGED <<slots, leases, copies, lapsed, spent>>
  PROVE  LogoutInv'
<1>1. DataSame
  <2>1. spent \in [leases: Nat, requests: Nat, fails: Nat]
    BY DataOf DEF DataTypeOK
  <2> QED BY <2>1 DEF DataSame
<1> QED BY <1>1, IdleRequestCall, QuietTurn

\* acquire reads the active key: it will write a new lease, or the one that was read.
LEMMA ReadToAcquireKeeps ==
  ASSUME "none" \notin Terminals, LogoutInv, NEW r \in ServiceRequests, ReadToAcquire(r)
  PROVE  LogoutInv'
<1>1. PICK q : q = request[r]
  OBVIOUS
<1>2. Call(q) /\ Backed(q) /\ Parts(q)
  BY <1>1, OneOf, PartsOf
<1>3. q.op = "acquire" /\ q.step = "read"
  BY <1>1 DEF ReadToAcquire, At
<1>4. PICK n : n = slots[q.sn]
  OBVIOUS
<1>5. PICK held : held = IF n = 0 THEN BlankLease ELSE leases[n]
  OBVIOUS
<1>6. PICK me : me = [user |-> q.who.user, session |-> q.who.session]
  OBVIOUS
<1>7. UNCHANGED <<slots, leases, copies, lapsed, spent>>
  BY DEF ReadToAcquire
<1>8. q.sn \in Terminals
  BY <1>2, <1>3 DEF Backed
<1>9. ASSUME NEW i \in LeaseIds \cup {0}, NEW l, LeaseRow(l), l.sn = q.sn, ~l.revoked,
             i # 0 => SameLease(l, i) /\ slots[q.sn] = i,
             Go(r, [q EXCEPT !.step = "exec", !.id = i, !.lease = l, !.dirty = FALSE])
      PROVE  LogoutInv'
  <2>1. PICK new : new = [q EXCEPT !.step = "exec", !.id = i, !.lease = l, !.dirty = FALSE]
    OBVIOUS
  <2>2. new = Ahead(q, "exec", q.sn, i, l, q.mine, FALSE, q.scan, q.found, q.gone)
    BY <1>2, <2>1 DEF Call, Ahead
  <2>3. Call(new)
    BY <1>2, <1>9, <2>2, AheadCall DEF Parts
  <2>4. /\ new.op = q.op /\ new.step = "exec" /\ new.sn = q.sn /\ new.id = i
        /\ new.lease = l /\ new.found = q.found
    BY <2>2 DEF Ahead
  <2>5. Backed(new)
    BY <1>2, <1>3, <1>8, <1>9, <2>4 DEF Backed, Naming, Carrying
  <2>6. Clearing(new) /\ Watched(new)
    BY <1>3, <1>9, <2>4 DEF Clearing, Watched
  <2> QED BY <1>7, <1>9, <2>1, <2>3, <2>5, <2>6, ReadTurn
<1>10. CASE ~ActiveLease(n, held)
  <2>1. PICK l : l = [sn |-> q.sn, owner |-> me, scope |-> q.scope, revoked |-> FALSE]
    OBVIOUS
  <2>2. LeaseRow(l) /\ l.sn = q.sn /\ ~l.revoked
    BY <2>1 DEF LeaseRow
  <2>3. Go(r, [q EXCEPT !.step = "exec", !.id = 0, !.lease = l, !.dirty = FALSE])
    BY <1>1, <1>4, <1>5, <1>6, <1>10, <2>1 DEF ReadToAcquire
  <2> QED BY <1>9, <2>2, <2>3
<1>11. CASE ActiveLease(n, held) /\ held.owner = me
  <2>1. n # 0 /\ held = leases[n] /\ ~held.revoked
    BY <1>5, <1>11 DEF ActiveLease
  <2>2. n \in LeaseIds /\ KnownLease(n) /\ held.sn = q.sn /\ LeaseRow(held)
    BY <1>4, <1>8, <2>1, DataOf DEF DataTypeOK, RowsHold
  <2>3. PICK l : l = [held EXCEPT !.scope = q.scope]
    OBVIOUS
  <2>4. LeaseRow(l) /\ l.sn = q.sn /\ ~l.revoked /\ SameLease(l, n)
    BY <2>1, <2>2, <2>3 DEF LeaseRow, SameLease
  <2>5. Go(r, [q EXCEPT !.step = "exec", !.id = n, !.lease = l, !.dirty = FALSE])
    BY <1>1, <1>4, <1>5, <1>6, <1>11, <2>3 DEF ReadToAcquire
  <2> QED BY <1>4, <1>9, <2>2, <2>4, <2>5
<1>12. CASE ActiveLease(n, held) /\ held.owner # me
  <2>1. Go(r, IdleRequest)
    BY <1>1, <1>4, <1>5, <1>6, <1>12 DEF ReadToAcquire, End
  <2> QED BY <1>7, <2>1, ReadTurn
<1> QED BY <1>10, <1>11, <1>12

\* touch reads both keys.
LEMMA ReadToTouchKeeps ==
  ASSUME "none" \notin Terminals, LogoutInv, NEW r \in ServiceRequests, ReadToTouch(r)
  PROVE  LogoutInv'
<1>1. PICK q : q = request[r]
  OBVIOUS
<1>2. Call(q) /\ Backed(q) /\ Parts(q)
  BY <1>1, OneOf, PartsOf
<1>3. q.op = "keepalive" /\ q.step = "read"
  BY <1>1 DEF ReadToTouch, At
<1>4. PICK l : l = leases[q.id]
  OBVIOUS
<1>5. UNCHANGED <<slots, leases, copies, lapsed, spent>>
  BY DEF ReadToTouch
<1>6. q.id \in LeaseIds /\ KnownLease(q.id) /\ q.id # 0 /\ l.sn = q.sn
  BY <1>2, <1>3, <1>4 DEF Backed, Parts
<1>7. CASE ActiveLease(q.id, l) /\ slots[q.sn] = q.id
  <2>1. PICK new : new = [q EXCEPT !.step = "exec", !.lease = l, !.dirty = FALSE]
    OBVIOUS
  <2>2. Go(r, new)
    BY <1>1, <1>4, <1>7, <2>1 DEF ReadToTouch
  <2>3. LeaseRow(l) /\ ~l.revoked /\ SameLease(l, q.id) /\ q.sn \in Terminals
    BY <1>4, <1>6, <1>7, DataOf DEF ActiveLease, SameLease, DataTypeOK, RowsHold
  <2>4. new = Ahead(q, "exec", q.sn, q.id, l, q.mine, FALSE, q.scan, q.found, q.gone)
    BY <1>2, <2>1 DEF Call, Ahead
  <2>5. Call(new)
    BY <1>2, <2>3, <2>4, AheadCall DEF Parts
  <2>6. /\ new.op = q.op /\ new.step = "exec" /\ new.sn = q.sn /\ new.id = q.id
        /\ new.lease = l /\ new.found = q.found
    BY <2>4 DEF Ahead
  <2>7. Backed(new)
    BY <1>2, <1>6, <2>3, <2>6 DEF Backed, Naming, Carrying
  <2>8. Clearing(new) /\ Watched(new)
    BY <1>3, <1>7, <2>6 DEF Clearing, Watched
  <2> QED BY <1>5, <2>2, <2>5, <2>7, <2>8, ReadTurn
<1>8. CASE ~(ActiveLease(q.id, l) /\ slots[q.sn] = q.id)
  <2>1. Go(r, IdleRequest)
    BY <1>1, <1>4, <1>8 DEF ReadToTouch, End
  <2> QED BY <1>5, <2>1, ReadTurn
<1> QED BY <1>7, <1>8

\* upgrade_scope reads the hash,
LEMMA ReadToUpgradeKeeps ==
  ASSUME "none" \notin Terminals, LogoutInv, NEW r \in ServiceRequests, ReadToUpgrade(r)
  PROVE  LogoutInv'
<1>1. PICK q : q = request[r]
  OBVIOUS
<1>2. Call(q) /\ Backed(q) /\ Parts(q)
  BY <1>1, OneOf, PartsOf
<1>3. q.op = "upgrade" /\ q.step = "read"
  BY <1>1 DEF ReadToUpgrade, At
<1>4. PICK h : h = leases[q.id]
  OBVIOUS
<1>5. UNCHANGED <<slots, leases, copies, lapsed, spent>>
  BY DEF ReadToUpgrade
<1>6. q.id \in LeaseIds /\ KnownLease(q.id) /\ q.id # 0
  BY <1>2, <1>3 DEF Backed, Parts
<1>7. CASE ActiveLease(q.id, h)
  <2>1. PICK l : l = [h EXCEPT !.scope = q.scope]
    OBVIOUS
  <2>2. PICK new : new = [q EXCEPT !.step = "put", !.lease = l]
    OBVIOUS
  <2>3. Go(r, new)
    BY <1>1, <1>4, <1>7, <2>1, <2>2 DEF ReadToUpgrade
  <2>4. LeaseRow(h) /\ ~h.revoked
    BY <1>4, <1>6, <1>7, DataOf DEF ActiveLease, DataTypeOK
  <2>5. LeaseRow(l) /\ ~l.revoked /\ SameLease(l, q.id)
    BY <1>4, <1>6, <2>1, <2>4 DEF LeaseRow, SameLease
  <2>6. new = Ahead(q, "put", q.sn, q.id, l, q.mine, q.dirty, q.scan, q.found, q.gone)
    BY <1>2, <2>2 DEF Call, Ahead
  <2>7. Call(new)
    BY <1>2, <2>5, <2>6, AheadCall DEF Parts
  <2>8. /\ new.op = q.op /\ new.step = "put" /\ new.id = q.id /\ new.lease = l
        /\ new.found = q.found
    BY <2>6 DEF Ahead
  <2>9. Backed(new)
    BY <1>2, <1>6, <2>5, <2>8 DEF Backed, Naming, Carrying
  <2>10. Clearing(new) /\ Watched(new)
    BY <1>3, <2>8 DEF Clearing, Watched
  <2> QED BY <1>5, <2>3, <2>7, <2>9, <2>10, ReadTurn
<1>8. CASE ~ActiveLease(q.id, h)
  <2>1. Go(r, IdleRequest)
    BY <1>1, <1>4, <1>8 DEF ReadToUpgrade, End
  <2> QED BY <1>5, <2>1, ReadTurn
<1> QED BY <1>7, <1>8

\* A row that is written.
LEMMA HashRewrites ==
  ASSUME LogoutInv, NEW i \in LeaseIds, NEW l, LeaseRow(l), SameLease(l, i), l.revoked => Gone(i),
         leases' = [leases EXCEPT ![i] = l],
         slots' = slots, copies' = copies, lapsed' = lapsed, spent' = spent
  PROVE  Rewrites
<1>1. /\ leases = [j \in LeaseIds |-> leases[j]] /\ copies = [j \in LeaseIds |-> copies[j]]
      /\ spent \in [leases: Nat, requests: Nat, fails: Nat]
  BY DataOf DEF DataTypeOK
<1>2. leases' = [j \in LeaseIds |-> leases'[j]] /\ leases'[i] = l
      /\ \A j \in LeaseIds \ {i} : leases'[j] = leases[j]
  BY <1>1
<1> QED BY <1>1, <1>2 DEF Rewrites, SameRow

\* A copy that is written.
LEMMA CopyRewrites ==
  ASSUME LogoutInv, NEW i \in LeaseIds, NEW l, LeaseRow(l), SameLease(l, i), l.revoked => Gone(i),
         copies' = [copies EXCEPT ![i] = l],
         slots' = slots, leases' = leases, lapsed' = lapsed, spent' = spent
  PROVE  Rewrites
<1>1. /\ leases = [j \in LeaseIds |-> leases[j]] /\ copies = [j \in LeaseIds |-> copies[j]]
      /\ spent \in [leases: Nat, requests: Nat, fails: Nat]
  BY DataOf DEF DataTypeOK
<1>2. copies' = [j \in LeaseIds |-> copies'[j]] /\ copies'[i] = l
      /\ \A j \in LeaseIds \ {i} : copies'[j] = copies[j]
  BY <1>1
<1> QED BY <1>1, <1>2 DEF Rewrites, SameRow

\* and writes it back: of the same lease, not revoked.
LEMMA UpgradePutKeeps ==
  ASSUME "none" \notin Terminals, LogoutInv, NEW r \in ServiceRequests, UpgradePut(r)
  PROVE  LogoutInv'
<1>1. PICK q : q = request[r]
  OBVIOUS
<1>2. Call(q) /\ Backed(q) /\ Parts(q)
  BY <1>1, OneOf, PartsOf
<1>3. q.op = "upgrade" /\ q.step = "put"
  BY <1>1 DEF UpgradePut, At
<1>4. q.id \in LeaseIds /\ KnownLease(q.id) /\ SameLease(q.lease, q.id) /\ ~q.lease.revoked
  BY <1>2, <1>3 DEF Backed, Parts, Naming, Carrying
<1>5. PICK new : new = [q EXCEPT !.step = "remember"]
  OBVIOUS
<1>6. /\ leases' = [leases EXCEPT ![q.id] = q.lease] /\ GoWrite(r, new, "none", q.id)
      /\ slots' = slots /\ copies' = copies /\ lapsed' = lapsed /\ spent' = spent
  BY <1>1, <1>5 DEF UpgradePut
<1>7. new = Ahead(q, "remember", q.sn, q.id, q.lease, q.mine, q.dirty, q.scan, q.found, q.gone)
  BY <1>2, <1>5 DEF Call, Ahead
<1>8. Call(new)
  BY <1>2, <1>7, AheadCall DEF Parts
<1>9. /\ new.op = q.op /\ new.step = "remember" /\ new.id = q.id /\ new.lease = q.lease
      /\ new.found = q.found
  BY <1>7 DEF Ahead
<1>10. Backed(new)
  BY <1>2, <1>3, <1>4, <1>9 DEF Backed, Naming, Carrying
<1>11. Clearing(new) /\ Watched(new) /\ new.step # "exec"
  BY <1>3, <1>9 DEF Clearing, Watched
<1>12. Turned(r, new)
  BY <1>6, <1>11, GoWriteTurns, DataOf
<1>13. Rewrites
  BY <1>2, <1>4, <1>6, HashRewrites DEF Parts
<1> QED BY <1>8, <1>10, <1>11, <1>12, <1>13, StillTurn

\* The copy is that of the lease that was written.
LEMMA RememberLeaseKeeps ==
  ASSUME "none" \notin Terminals, LogoutInv, NEW r \in ServiceRequests, RememberLease(r)
  PROVE  LogoutInv'
<1>1. PICK q : q = request[r]
  OBVIOUS
<1>2. Call(q) /\ Backed(q) /\ Parts(q)
  BY <1>1, OneOf, PartsOf
<1>3. q.op \in {"acquire", "keepalive", "upgrade"} /\ q.step = "remember"
  BY <1>1 DEF RememberLease, At
<1>4. q.id \in LeaseIds /\ KnownLease(q.id) /\ SameLease(q.lease, q.id) /\ ~q.lease.revoked
  BY <1>2, <1>3 DEF Backed, Parts, Naming, Carrying
<1>5. PICK new : new = IF q.op = "keepalive" THEN [q EXCEPT !.step = "publish"] ELSE IdleRequest
  OBVIOUS
<1>6. /\ copies' = [copies EXCEPT ![q.id] = q.lease] /\ Go(r, new)
      /\ slots' = slots /\ leases' = leases /\ lapsed' = lapsed /\ spent' = spent
  BY <1>1, <1>5 DEF RememberLease, StepTo, End
<1>7. Call(new) /\ Backed(new) /\ Clearing(new) /\ Watched(new)
  <2>1. CASE q.op = "keepalive"
    <3>1. new = Ahead(q, "publish", q.sn, q.id, q.lease, q.mine, q.dirty, q.scan, q.found, q.gone)
      BY <1>2, <1>5, <2>1 DEF Call, Ahead
    <3>2. Call(new)
      BY <1>2, <3>1, AheadCall DEF Parts
    <3>3. /\ new.op = q.op /\ new.step = "publish" /\ new.id = q.id /\ new.found = q.found
      BY <3>1 DEF Ahead
    <3>4. q.id # 0 /\ KnownLease(q.id) /\ \A i \in q.found : KnownLease(i)
      BY <1>2, <1>3 DEF Backed, Naming
    <3> QED BY <2>1, <3>2, <3>3, <3>4 DEF Backed, Clearing, Watched, Naming, Carrying
  <2>2. CASE q.op # "keepalive"
    BY <1>5, <2>2, IdleRequestCall
  <2> QED BY <2>1, <2>2
<1>8. Turned(r, new)
  BY <1>6, GoTurns, DataOf
<1>9. Rewrites
  BY <1>2, <1>4, <1>6, CopyRewrites DEF Parts
<1> QED BY <1>7, <1>8, <1>9, StillTurn

\* Ends of requests, steps of no request, and the renewal.
LEMMA PlainEndKeeps ==
  ASSUME "none" \notin Terminals, LogoutInv, NEW r \in ServiceRequests,
         \/ Wait(r) \/ Cancel(r) \/ LogoutReturns(r) \/ RequestFails(r)
  PROVE  LogoutInv'
<1>1. End(r) /\ slots' = slots /\ leases' = leases /\ copies' = copies /\ lapsed' = lapsed
  BY DEF Wait, Cancel, LogoutReturns, RequestFails
<1>2. spent \in [leases: Nat, requests: Nat, fails: Nat]
  BY DataOf DEF DataTypeOK
<1>3. spent' \in [leases: Nat, requests: Nat, fails: Nat] /\ spent'.leases = spent.leases
  BY <1>2 DEF Wait, Cancel, LogoutReturns, RequestFails
<1> QED BY <1>1, <1>3, EndTurn DEF DataSame

\* The renewal is published, or not.
LEMMA PublishRenewalKeeps ==
  ASSUME "none" \notin Terminals, LogoutInv, NEW r \in ServiceRequests, PublishRenewal(r)
  PROVE  LogoutInv'
<1>1. PICK q : q = request[r]
  OBVIOUS
<1>2. Call(q) /\ Backed(q) /\ Parts(q)
  BY <1>1, OneOf, PartsOf
<1>3. q.op = "keepalive" /\ q.step = "publish"
  BY <1>1 DEF PublishRenewal, At
<1>4. slots' = slots /\ leases' = leases /\ copies' = copies /\ lapsed' = lapsed
  BY DEF PublishRenewal
<1>5. spent \in [leases: Nat, requests: Nat, fails: Nat]
  BY DataOf DEF DataTypeOK
<1>6. CASE StepTo(r, "again") /\ UNCHANGED spent
  <2>1. PICK new : new = [q EXCEPT !.step = "again"]
    OBVIOUS
  <2>2. Go(r, new)
    BY <1>1, <1>6, <2>1 DEF StepTo
  <2>3. new = Ahead(q, "again", q.sn, q.id, q.lease, q.mine, q.dirty, q.scan, q.found, q.gone)
    BY <1>2, <2>1 DEF Call, Ahead
  <2>4. Call(new)
    BY <1>2, <2>3, AheadCall DEF Parts
  <2>5. /\ new.op = q.op /\ new.step = "again" /\ new.id = q.id /\ new.found = q.found
    BY <2>3 DEF Ahead
  <2>6. Backed(new) /\ Clearing(new) /\ Watched(new)
    BY <1>2, <1>3, <2>5 DEF Backed, Clearing, Watched, Naming, Carrying
  <2> QED BY <1>4, <1>6, <2>2, <2>4, <2>6, ReadTurn
<1>7. CASE spent' = [spent EXCEPT !.fails = @ + 1] /\ End(r)
  <2>1. spent' \in [leases: Nat, requests: Nat, fails: Nat] /\ spent'.leases = spent.leases
    BY <1>5, <1>7
  <2> QED BY <1>4, <1>7, <2>1, EndTurn DEF DataSame
<1> QED BY <1>6, <1>7 DEF PublishRenewal

\* Nothing but time, or what is waited for.
LEMMA NoTurnKeeps ==
  ASSUME "none" \notin Terminals, LogoutInv, DataSame, request' = request
  PROVE  LogoutInv'
<1>1. Rewrites
  BY SameRewrites, DataOf
<1>2. Grows /\ RowsHold' /\ DataTypeOK'
  BY <1>1, RewritesKeep, DataOf
<1>3. ServiceTypeOK'
  BY <1>2, DataOf DEF ServiceTypeOK
<1>4. ASSUME NEW r \in ServiceRequests
      PROVE  (Backed(request[r]) /\ Clearing(request[r]) /\ Watched(request[r]))'
  <2>1. Call(request[r]) /\ Backed(request[r]) /\ Clearing(request[r]) /\ Watched(request[r])
    BY OneOf
  <2>2. request'[r] = request[r] /\ slots' = slots
    BY DEF DataSame
  <2>3. (Backed(request[r]) /\ Clearing(request[r]))'
    BY <1>2, <2>1, <2>2, BackedStays
  <2>4. Watched(request[r])'
    BY <2>1, <2>2 DEF Watched
  <2> QED BY <2>3, <2>4
<1> QED BY <1>2, <1>3, <1>4 DEF LogoutInv

\* An answer to a renewal, and the end of a lease's time.
LEMMA TimeKeeps ==
  ASSUME "none" \notin Terminals, LogoutInv, NEW i \in LeaseIds, RenewalAnswered(i) \/ Lapse(i)
  PROVE  LogoutInv'
<1>1. spent \in [leases: Nat, requests: Nat, fails: Nat]
  BY DataOf DEF DataTypeOK
<1>2. DataSame /\ request' = request
  BY <1>1 DEF DataSame, RenewalAnswered, Lapse
<1> QED BY <1>2, NoTurnKeeps

-----------------------------------------------------------------------------
(* The transaction *)

\* The lease of the terminal is new, and takes the place of one whose time is over.
\* A terminal takes a new lease.
Takes(sn, l, i) ==
  /\ i = spent.leases + 1
  /\ slots' = [slots EXCEPT ![sn] = i] /\ leases' = [leases EXCEPT ![i] = l]
  /\ spent' = [spent EXCEPT !.leases = i] /\ copies' = copies /\ lapsed' = lapsed

LEMMA NewLease ==
  ASSUME "none" \notin Terminals, LogoutInv, NEW sn \in Terminals, NEW l, LeaseRow(l),
         l.sn = sn, ~l.revoked, NEW i \in LeaseIds, Takes(sn, l, i)
  PROVE  /\ Grows /\ RowsHold' /\ DataTypeOK' /\ leases'[i] = l /\ l # BlankLease
         /\ \A t \in Terminals \ {sn} : slots'[t] = slots[t]
<1>0. /\ i = spent.leases + 1
      /\ slots' = [slots EXCEPT ![sn] = i] /\ leases' = [leases EXCEPT ![i] = l]
      /\ spent' = [spent EXCEPT !.leases = i] /\ copies' = copies /\ lapsed' = lapsed
  BY DEF Takes
<1>1. /\ leases = [j \in LeaseIds |-> leases[j]] /\ slots \in [Terminals -> LeaseIds \cup {0}]
      /\ spent \in [leases: Nat, requests: Nat, fails: Nat]
      /\ \A j \in LeaseIds : LeaseRow(leases[j]) /\ LeaseRow(copies[j])
      /\ copies = [j \in LeaseIds |-> copies[j]]
  BY DataOf DEF DataTypeOK
<1>2. /\ slots' \in [Terminals -> LeaseIds \cup {0}] /\ slots'[sn] = i
      /\ \A t \in Terminals \ {sn} : slots'[t] = slots[t]
      /\ leases' = [j \in LeaseIds |-> leases'[j]] /\ leases'[i] = l
      /\ \A j \in LeaseIds \ {i} : leases'[j] = leases[j]
  BY <1>0, <1>1
<1>3. /\ spent' \in [leases: Nat, requests: Nat, fails: Nat] /\ spent'.leases = i
      /\ i \in Nat /\ spent.leases \in Nat
  BY <1>0, <1>1
<1>4. l # BlankLease
  BY BlankLeaseRow
<1>5. /\ \A j \in LeaseIds :
            /\ KnownLease(j) => leases[j].sn \in Terminals /\ j <= spent.leases
            /\ copies[j] # BlankLease => SameLease(copies[j], j)
            /\ leases[j].revoked \/ copies[j].revoked => Gone(j)
      /\ \A t \in Terminals : slots[t] # 0 => KnownLease(slots[t]) /\ leases[slots[t]].sn = t
  BY DataOf DEF RowsHold
<1>6. ~KnownLease(i)
  BY <1>0, <1>3, <1>5
<1>7. copies[i] = BlankLease
  BY <1>5, <1>6 DEF SameLease
<1>8. \A j \in LeaseIds : KnownLease(j) => j # i /\ leases'[j] = leases[j]
  BY <1>2, <1>6
<1>9. \A j \in LeaseIds : Gone(j) => j # i /\ \A t \in Terminals : slots'[t] # j
  BY <1>2, <1>8 DEF Gone
<1>10. Grows
  BY <1>0, <1>8, <1>9 DEF Grows, KnownLease, Gone
<1>11. DataTypeOK'
  BY <1>0, <1>1, <1>2, <1>3 DEF DataTypeOK
<1>12. RowsHold'
  <2>1. ASSUME NEW j \in LeaseIds
        PROVE  /\ leases'[j] # BlankLease => leases'[j].sn \in Terminals /\ j <= spent'.leases
               /\ copies'[j] # BlankLease => /\ leases'[j] # BlankLease
                                        /\ copies'[j].sn = leases'[j].sn
                                        /\ copies'[j].owner = leases'[j].owner
               /\ leases'[j].revoked \/ copies'[j].revoked =>
                    leases'[j] # BlankLease /\ \A t \in Terminals : slots'[t] # j
    <3>1. CASE j = i
      BY <3>1, <1>0, <1>2, <1>3, <1>7, BlankLeaseRow
    <3>2. CASE j # i
      <4>1. leases'[j] = leases[j]
        BY <1>2, <3>2
      <4>2. leases[j] # BlankLease => leases[j].sn \in Terminals /\ j <= spent.leases
        BY <1>5 DEF KnownLease
      <4>3. j \in Nat
        BY DEF LeaseIds
      <4>4. j <= spent.leases => j <= spent'.leases
        BY <1>0, <1>3, <4>3
      <4>5. copies[j] # BlankLease => leases[j] # BlankLease /\ copies[j].sn = leases[j].sn
                                 /\ copies[j].owner = leases[j].owner
        BY <1>5 DEF SameLease, KnownLease
      <4>6. leases[j].revoked \/ copies[j].revoked =>
              leases[j] # BlankLease /\ \A t \in Terminals : slots'[t] # j
        BY <1>0, <1>5, <1>9 DEF Gone, KnownLease
      <4> QED BY <1>0, <4>1, <4>2, <4>4, <4>5, <4>6
    <3> QED BY <3>1, <3>2
  <2>2. ASSUME NEW t \in Terminals, slots'[t] # 0
        PROVE  leases'[slots'[t]] # BlankLease /\ leases'[slots'[t]].sn = t
    <3>1. CASE t = sn
      BY <1>2, <1>4, <3>1
    <3>2. CASE t # sn
      <4>1. /\ slots'[t] = slots[t] /\ slots[t] \in LeaseIds
            /\ KnownLease(slots[t]) /\ leases[slots[t]].sn = t
        BY SMTT(60), <1>1, <1>2, <1>5, <2>2, <3>2
      <4> QED BY <1>8, <4>1 DEF KnownLease
    <3> QED BY <3>1, <3>2
  <2> QED BY <2>1, <2>2 DEF RowsHold, SameLease, KnownLease, Gone
<1> QED BY <1>2, <1>4, <1>10, <1>11, <1>12

\* The transaction writes both keys, for the lease it has read or a new one, or reads again.
LEMMA ExecWritesKeeps ==
  ASSUME "none" \notin Terminals, LogoutInv, NEW r \in ServiceRequests, ExecWrites(r)
  PROVE  LogoutInv'
<1>1. PICK q : q = request[r]
  OBVIOUS
<1>2. Call(q) /\ Backed(q) /\ Watched(q) /\ Parts(q)
  BY <1>1, OneOf, PartsOf
<1>3. q.op \in {"acquire", "keepalive"} /\ q.step = "exec"
  BY <1>1 DEF ExecWrites, At
<1>4. /\ q.id # 0 => q.id \in LeaseIds /\ SameLease(q.lease, q.id) /\ KnownLease(q.id)
      /\ ~q.lease.revoked /\ q.sn \in Terminals /\ q.lease.sn = q.sn
      /\ (q.id = 0 => q.op = "acquire") /\ LeaseRow(q.lease)
      /\ \A i \in q.found : KnownLease(i)
  BY <1>2, <1>3 DEF Backed, SameLease, Parts, Naming, Carrying
<1>5. copies' = copies /\ lapsed' = lapsed
  BY DEF ExecWrites
<1>6. PICK i : i = IF q.id = 0 THEN spent.leases + 1 ELSE q.id
  OBVIOUS
<1>7. \/ q.dirty /\ StepTo(r, "read") /\ UNCHANGED <<slots, leases, spent>>
      \/ /\ ~q.dirty /\ i \in LeaseIds
         /\ slots' = [slots EXCEPT ![q.sn] = i] /\ leases' = [leases EXCEPT ![i] = q.lease]
         /\ spent' = [spent EXCEPT !.leases = IF q.id = 0 THEN i ELSE @]
         /\ GoWrite(r, [q EXCEPT !.step = "remember", !.id = i], q.sn, i)
  BY <1>1, <1>6 DEF ExecWrites
<1>8. CASE q.dirty /\ StepTo(r, "read") /\ UNCHANGED <<slots, leases, spent>>
  <2>1. PICK new : new = [q EXCEPT !.step = "read"]
    OBVIOUS
  <2>2. Go(r, new)
    BY <1>1, <1>8, <2>1 DEF StepTo
  <2>3. new = Ahead(q, "read", q.sn, q.id, q.lease, q.mine, q.dirty, q.scan, q.found, q.gone)
    BY <1>2, <2>1 DEF Call, Ahead
  <2>4. Call(new)
    BY <1>2, <2>3, AheadCall DEF Parts
  <2>5. /\ new.op = q.op /\ new.step = "read" /\ new.id = q.id /\ new.found = q.found
        /\ new.sn = q.sn
    BY <2>3 DEF Ahead
  <2>6. Backed(new)
    BY <1>3, <1>4, <2>5 DEF Backed, SameLease, Naming, Carrying
  <2>7. Clearing(new) /\ Watched(new)
    BY <1>3, <2>5 DEF Clearing, Watched
  <2> QED BY <1>5, <1>8, <2>2, <2>4, <2>6, <2>7, ReadTurn
<1>9. CASE /\ ~q.dirty /\ i \in LeaseIds
           /\ slots' = [slots EXCEPT ![q.sn] = i] /\ leases' = [leases EXCEPT ![i] = q.lease]
           /\ spent' = [spent EXCEPT !.leases = IF q.id = 0 THEN i ELSE @]
           /\ GoWrite(r, [q EXCEPT !.step = "remember", !.id = i], q.sn, i)
  <2>1. PICK new : new = [q EXCEPT !.step = "remember", !.id = i]
    OBVIOUS
  <2>2. new = Ahead(q, "remember", q.sn, i, q.lease, q.mine, q.dirty, q.scan, q.found, q.gone)
    BY <1>2, <2>1 DEF Call, Ahead
  <2>3. Call(new)
    BY <1>2, <1>9, <2>2, AheadCall DEF Parts
  <2>4. /\ new.op = q.op /\ new.step = "remember" /\ new.id = i /\ new.found = q.found
        /\ new.lease = q.lease
    BY <2>2 DEF Ahead
  <2>5. GoWrite(r, new, q.sn, i) /\ new.step # "exec"
    BY <1>9, <2>1, <2>4
  <2>6. /\ Turned(r, new)
        /\ \A p \in ServiceRequests \ {r} :
             request[p].step = "exec" /\ request[p].sn = q.sn => request'[p].dirty
    BY <2>5, GoWriteTurns, DataOf
  <2>7. Clearing(new) /\ Watched(new)
    BY <1>3, <2>4 DEF Clearing, Watched
  <2>8. CASE q.id # 0
    <3>1. i = q.id /\ slots[q.sn] = i
      BY <1>2, <1>3, <1>6, <1>9, <2>8 DEF Watched
    <3>2. slots' = slots
      BY <1>4, <1>9, <3>1, DataOf DEF DataTypeOK
    <3>3. spent' = spent
      <4>1. spent \in [leases: Nat, requests: Nat, fails: Nat]
        BY DataOf DEF DataTypeOK
      <4> QED BY <1>9, <2>8, <4>1
    <3>4. Rewrites
      BY <1>4, <1>5, <1>9, <2>8, <3>1, <3>2, <3>3, HashRewrites
    <3>5. Backed(new)
      BY <1>4, <2>4, <2>8, <3>1 DEF Backed, Naming, Carrying
    <3> QED BY <2>3, <2>6, <2>7, <3>4, <3>5, StillTurn
  <2>9. CASE q.id = 0
    <3>1. i = spent.leases + 1 /\ spent' = [spent EXCEPT !.leases = i]
      BY <1>6, <1>9, <2>9
    <3>2. /\ Grows /\ RowsHold' /\ DataTypeOK' /\ leases'[i] = q.lease /\ q.lease # BlankLease
          /\ \A t \in Terminals \ {q.sn} : slots'[t] = slots[t]
      <4>1. PICK sn : sn = q.sn
        OBVIOUS
      <4>2. PICK l : l = q.lease
        OBVIOUS
      <4>3. /\ sn \in Terminals /\ LeaseRow(l) /\ l.sn = sn /\ ~l.revoked /\ i \in LeaseIds
            /\ Takes(sn, l, i)
        BY <1>4, <1>5, <1>9, <3>1, <4>1, <4>2 DEF Takes
      <4>4. /\ Grows /\ RowsHold' /\ DataTypeOK' /\ leases'[i] = l /\ l # BlankLease
            /\ \A t \in Terminals \ {sn} : slots'[t] = slots[t]
        BY <4>3, NewLease
      <4> QED BY <4>1, <4>2, <4>4
    <3>3. ServiceTypeOK'
      BY <2>3, <2>6, <3>2, TurnedTyped, DataOf
    <3>4. request'[r] = new
      BY <2>6 DEF Turned
    <3>5. Backed(request[r])'
      <4>1. \A j \in q.found : leases'[j] # BlankLease
        BY <1>2, <1>4, <3>2 DEF Grows, KnownLease, Parts
      <4>2. i # 0
        BY <1>9 DEF LeaseIds
      <4> QED BY <1>4, <2>4, <3>2, <3>4, <4>1, <4>2
             DEF Backed, SameLease, KnownLease, Naming, Carrying
    <3>6. (Clearing(request[r]) /\ Watched(request[r]))'
      BY <1>3, <2>4, <3>4 DEF Clearing, Watched
    <3>7. \A p \in ServiceRequests \ {r} :
            /\ LikeBefore(p)
            /\ \/ slots'[request[p].sn] = slots[request[p].sn]
               \/ request[p].step = "exec" => request'[p].dirty
      <4>1. ASSUME NEW p \in ServiceRequests \ {r}, request[p].step = "exec", request[p].sn # q.sn
            PROVE  slots'[request[p].sn] = slots[request[p].sn]
        <5>1. request[p].sn \in Terminals
          BY <4>1, OneOf DEF Backed
        <5> QED BY <3>2, <4>1, <5>1
      <4> QED BY <2>6, <4>1 DEF Turned
    <3> QED BY <3>2, <3>3, <3>5, <3>6, <3>7, TurnKeeps
  <2> QED BY <2>8, <2>9
<1> QED BY <1>7, <1>8, <1>9

-----------------------------------------------------------------------------
(* The logout, and the revocation *)

\* The scan comes to a terminal: a lease it began with is got, or its key is gone.
LEMMA ScanSlotKeeps ==
  ASSUME "none" \notin Terminals, LogoutInv, NEW r \in ServiceRequests, NEW t \in Terminals,
         ScanSlot(r, t)
  PROVE  LogoutInv'
<1>1. PICK q : q = request[r]
  OBVIOUS
<1>2. Call(q) /\ Backed(q) /\ Clearing(q) /\ Parts(q)
  BY <1>1, OneOf, PartsOf
<1>3. q.op = "logout" /\ q.step = "scan" /\ t \in q.scan
  BY <1>1 DEF ScanSlot, At
<1>4. PICK n : n = slots[t]
  OBVIOUS
<1>5. PICK step : step = IF n = 0 THEN "scan" ELSE "got"
  OBVIOUS
<1>6. PICK new : new = [q EXCEPT !.scan = @ \ {t}, !.id = n, !.step = step]
  OBVIOUS
<1>7. Go(r, new) /\ UNCHANGED <<slots, leases, copies, lapsed, spent>>
  BY <1>1, <1>4, <1>5, <1>6 DEF ScanSlot
<1>8. n \in LeaseIds \cup {0} /\ (n # 0 => KnownLease(n))
  BY <1>4, DataOf DEF DataTypeOK, RowsHold
<1>9. new = Ahead(q, step, q.sn, n, q.lease, q.mine, q.dirty, q.scan \ {t}, q.found, q.gone)
  BY <1>2, <1>6 DEF Call, Ahead
<1>10. Call(new)
  BY <1>2, <1>8, <1>9, AheadCall DEF Parts
<1>11. /\ new.op = q.op /\ new.step = step /\ new.id = n /\ new.found = q.found
       /\ new.scan = q.scan \ {t} /\ new.held = q.held /\ new.who = q.who
  BY <1>9 DEF Ahead
<1>12. Backed(new) /\ Watched(new)
  BY <1>2, <1>3, <1>5, <1>8, <1>11 DEF Backed, Watched, Naming, Carrying
<1>13. ASSUME NEW i \in q.held
       PROVE  KnownLease(i) /\ Matches(leases[i], q.who) /\ Reached(new, i)
  <2>1. i \in LeaseIds /\ KnownLease(i) /\ Matches(leases[i], q.who) /\ Reached(q, i)
    BY <1>2, <1>3 DEF Clearing, Parts
  <2>2. CASE leases[i].sn = t
    <3>1. CASE n = i
      BY <1>5, <1>11, <2>1, <3>1 DEF Reached, LeaseIds
    <3>2. CASE n # i
      <4>1. \A t2 \in Terminals : slots[t2] # i
        BY <1>4, <2>1, <2>2, <3>2, DataOf DEF RowsHold, LeaseIds
      <4> QED BY <2>1, <4>1 DEF Reached, Over, Gone
    <3> QED BY <2>1, <3>1, <3>2
  <2>3. CASE leases[i].sn # t
    BY <1>3, <1>11, <2>1, <2>3 DEF Reached
  <2> QED BY <2>1, <2>2, <2>3
<1>14. Clearing(new)
  BY <1>11, <1>13 DEF Clearing
<1> QED BY <1>7, <1>10, <1>12, <1>14, ReadTurn

\* A lease that matches and is active is found; otherwise it is over.
LEMMA ScanGetKeeps ==
  ASSUME "none" \notin Terminals, LogoutInv, NEW r \in ServiceRequests, ScanGet(r)
  PROVE  LogoutInv'
<1>1. PICK q : q = request[r]
  OBVIOUS
<1>2. Call(q) /\ Backed(q) /\ Clearing(q) /\ Parts(q)
  BY <1>1, OneOf, PartsOf
<1>3. q.op = "logout" /\ q.step = "got"
  BY <1>1 DEF ScanGet, At
<1>4. q.id \in LeaseIds /\ KnownLease(q.id)
  BY <1>2, <1>3 DEF Backed, Parts, Naming
<1>5. PICK l : l = Got(q.id)
  OBVIOUS
<1>6. PICK found : found = IF ActiveLease(q.id, l) /\ Matches(l, q.who)
                           THEN q.found \cup {q.id} ELSE q.found
  OBVIOUS
<1>7. PICK new : new = [q EXCEPT !.step = "scan", !.id = 0, !.found = found]
  OBVIOUS
<1>8. GoWrite(r, new, "none", q.id)
  <2>1. PICK new2 : new2 = [q EXCEPT !.step = "scan", !.id = 0,
                      !.found = IF ActiveLease(q.id, l) /\ Matches(l, q.who)
                                THEN @ \cup {q.id} ELSE @]
    OBVIOUS
  <2>2. new2 = new
    BY <1>2, <1>6, <1>7, <2>1 DEF Call
  <2>3. GoWrite(r, new2, "none", q.id)
    BY <1>1, <1>5, <2>1 DEF ScanGet
  <2> QED BY <2>2, <2>3
<1>9. Gets(q.id) /\ slots' = slots /\ lapsed' = lapsed /\ spent' = spent
  BY <1>1 DEF ScanGet
<1>10. found \in SUBSET LeaseIds /\ q.found \subseteq found /\ \A i \in found : KnownLease(i)
  BY <1>2, <1>4, <1>6 DEF Parts, Backed
<1>11. new = Ahead(q, "scan", q.sn, 0, q.lease, q.mine, q.dirty, q.scan, found, q.gone)
  BY <1>2, <1>7 DEF Call, Ahead
<1>12. Call(new)
  BY <1>2, <1>10, <1>11, AheadCall DEF Parts
<1>13. /\ new.op = q.op /\ new.step = "scan" /\ new.found = found
       /\ new.scan = q.scan /\ new.held = q.held /\ new.who = q.who
  BY <1>11 DEF Ahead
<1>14. Backed(new)
  BY <1>3, <1>10, <1>13 DEF Backed, Naming, Carrying
<1>15. ASSUME NEW i \in q.held
       PROVE  KnownLease(i) /\ Matches(leases[i], q.who) /\ Reached(new, i)
  <2>1. i \in LeaseIds /\ KnownLease(i) /\ Matches(leases[i], q.who) /\ Reached(q, i)
    BY <1>2, <1>3 DEF Clearing, Parts
  <2>2. CASE q.id = i
    <3>1. l # BlankLease /\ SameLease(l, i) /\ (l.revoked => Gone(i))
      BY <1>5, <2>1, <2>2, GotSame
    <3>2. Matches(l, q.who)
      BY <2>1, <3>1 DEF Matches, SameLease
    <3>3. CASE ActiveLease(q.id, l)
      BY <1>6, <1>13, <2>1, <2>2, <3>2, <3>3 DEF Reached
    <3>4. CASE ~ActiveLease(q.id, l)
      BY <2>1, <2>2, <3>1, <3>4 DEF ActiveLease, Reached, Over
    <3> QED BY <3>3, <3>4
  <2>3. CASE q.id # i
    BY <1>10, <1>13, <2>1, <2>3 DEF Reached
  <2> QED BY <2>2, <2>3
<1>16. Clearing(new)
  BY <1>13, <1>15 DEF Clearing
<1> QED BY <1>4, <1>8, <1>9, <1>12, <1>13, <1>14, <1>16, GetTurn

\* A lease that was found is the next to be revoked.
LEMMA LogoutNextKeeps ==
  ASSUME "none" \notin Terminals, LogoutInv, NEW r \in ServiceRequests, NEW n \in LeaseIds,
         LogoutNext(r, n)
  PROVE  LogoutInv'
<1>1. PICK q : q = request[r]
  OBVIOUS
<1>2. Call(q) /\ Backed(q) /\ Clearing(q) /\ Parts(q)
  BY <1>1, OneOf, PartsOf
<1>3. q.op = "logout" /\ q.step = "scan" /\ n \in q.found
  BY <1>1 DEF LogoutNext, At
<1>4. PICK new : new = [q EXCEPT !.step = "revoke", !.id = n, !.found = @ \ {n}]
  OBVIOUS
<1>5. Go(r, new) /\ UNCHANGED <<slots, leases, copies, lapsed, spent>>
  BY <1>1, <1>4 DEF LogoutNext
<1>6. KnownLease(n) /\ n # 0 /\ q.found \ {n} \in SUBSET LeaseIds
  BY <1>2, <1>3 DEF Backed, Parts, LeaseIds
<1>7. new = Ahead(q, "revoke", q.sn, n, q.lease, q.mine, q.dirty, q.scan, q.found \ {n}, q.gone)
  BY <1>2, <1>4 DEF Call, Ahead
<1>8. Call(new)
  BY <1>2, <1>6, <1>7, AheadCall DEF Parts
<1>9. /\ new.op = q.op /\ new.step = "revoke" /\ new.id = n /\ new.found = q.found \ {n}
      /\ new.scan = q.scan /\ new.held = q.held /\ new.who = q.who
  BY <1>7 DEF Ahead
<1>10. Backed(new) /\ Watched(new)
  BY <1>2, <1>6, <1>9 DEF Backed, Watched, Naming, Carrying
<1>11. Clearing(new)
  BY <1>2, <1>3, <1>9 DEF Clearing, Reached
<1> QED BY <1>5, <1>8, <1>10, <1>11, ReadTurn

\* After a lease that is gone, the logout goes on with the next one.
LEMMA AfterOf ==
  ASSUME LogoutInv, NEW r \in ServiceRequests, request[r].op \in Revoking,
         request[r].step \in {"revoke", "forget"}, Gone(request[r].id),
         NEW new, new = After(r)
  PROVE  Call(new) /\ Backed(new) /\ Clearing(new) /\ Watched(new)
<1>1. PICK q : q = request[r]
  OBVIOUS
<1>2. Call(q) /\ Backed(q) /\ Clearing(q) /\ Parts(q)
  BY <1>1, OneOf, PartsOf
<1>3. CASE q.op = "logout"
  <2>1. new = [q EXCEPT !.step = "scan", !.gone = @ \cup {q.id}]
    BY <1>1, <1>3 DEF After
  <2>2. new = Ahead(q, "scan", q.sn, q.id, q.lease, q.mine, q.dirty, q.scan, q.found,
                    q.gone \cup {q.id})
    BY <1>2, <2>1 DEF Call, Ahead
  <2>3. Call(new)
    BY <1>2, <2>2, AheadCall DEF Parts
  <2>4. /\ new.op = q.op /\ new.step = "scan" /\ new.id = q.id /\ new.found = q.found
        /\ new.scan = q.scan /\ new.held = q.held /\ new.who = q.who
    BY <2>2 DEF Ahead
  <2>5. Backed(new) /\ Watched(new)
    BY <1>2, <1>3, <2>4 DEF Backed, Watched, Naming, Carrying
  <2>6. Clearing(new)
    BY <1>1, <1>2, <1>3, <2>4 DEF Clearing, Reached, Over
  <2> QED BY <2>3, <2>5, <2>6
<1>4. CASE q.op # "logout"
  <2>1. new = [q EXCEPT !.step = "cancel"]
    BY <1>1, <1>4 DEF After
  <2>2. new = Ahead(q, "cancel", q.sn, q.id, q.lease, q.mine, q.dirty, q.scan, q.found, q.gone)
    BY <1>2, <2>1 DEF Call, Ahead
  <2>3. Call(new)
    BY <1>2, <2>2, AheadCall DEF Parts
  <2>4. new.op = q.op /\ new.step = "cancel" /\ new.found = q.found
    BY <2>2 DEF Ahead
  <2>5. Backed(new) /\ Watched(new) /\ Clearing(new)
    BY <1>2, <1>4, <2>4 DEF Backed, Watched, Clearing, Naming, Carrying
  <2> QED BY <2>3, <2>5
<1> QED BY <1>3, <1>4

\* revoke reads the hash: a lease that is revoked is gone already.
LEMMA ReadToRevokeKeeps ==
  ASSUME "none" \notin Terminals, LogoutInv, NEW r \in ServiceRequests, ReadToRevoke(r)
  PROVE  LogoutInv'
<1>1. PICK q : q = request[r]
  OBVIOUS
<1>2. Call(q) /\ Backed(q) /\ Clearing(q) /\ Parts(q)
  BY <1>1, OneOf, PartsOf
<1>3. q.op \in Revoking /\ q.step = "revoke"
  BY <1>1 DEF ReadToRevoke, At
<1>4. q.id \in LeaseIds /\ KnownLease(q.id) /\ q.id # 0
  BY <1>2, <1>3 DEF Backed, Parts, Naming
<1>5. UNCHANGED <<slots, leases, copies, lapsed, spent>>
  BY DEF ReadToRevoke
<1>6. PICK h : h = leases[q.id]
  OBVIOUS
<1>7. CASE h.revoked
  <2>1. PICK new : new = After(r)
    OBVIOUS
  <2>2. Go(r, new)
    BY <1>1, <1>6, <1>7, <2>1 DEF ReadToRevoke
  <2>3. Gone(q.id)
    BY <1>4, <1>6, <1>7, DataOf DEF RowsHold
  <2>4. Call(new) /\ Backed(new) /\ Clearing(new) /\ Watched(new)
    BY <1>1, <1>3, <2>1, <2>3, AfterOf
  <2> QED BY <1>5, <2>2, <2>4, ReadTurn
<1>8. CASE ~h.revoked
  <2>1. PICK l : l = [h EXCEPT !.revoked = TRUE]
    OBVIOUS
  <2>2. PICK new : new = [q EXCEPT !.step = "look", !.lease = l]
    OBVIOUS
  <2>3. Go(r, new)
    BY <1>1, <1>6, <1>8, <2>1, <2>2 DEF ReadToRevoke
  <2>4. LeaseRow(h)
    BY <1>4, <1>6, DataOf DEF DataTypeOK
  <2>5. LeaseRow(l) /\ SameLease(l, q.id)
    BY <1>4, <1>6, <2>1, <2>4 DEF LeaseRow, SameLease
  <2>6. new = Ahead(q, "look", q.sn, q.id, l, q.mine, q.dirty, q.scan, q.found, q.gone)
    BY <1>2, <2>2 DEF Call, Ahead
  <2>7. Call(new)
    BY <1>2, <2>5, <2>6, AheadCall DEF Parts
  <2>8. /\ new.op = q.op /\ new.step = "look" /\ new.id = q.id /\ new.found = q.found
        /\ new.lease = l /\ new.scan = q.scan /\ new.held = q.held /\ new.who = q.who
    BY <2>6 DEF Ahead
  <2>9. Backed(new) /\ Watched(new)
    BY <1>2, <1>4, <2>5, <2>8 DEF Backed, Watched, Naming, Carrying
  <2>10. Clearing(new)
    BY <1>2, <1>3, <2>8 DEF Clearing, Reached
  <2> QED BY <1>5, <2>3, <2>7, <2>9, <2>10, ReadTurn
<1> QED BY <1>7, <1>8

\* It looks whether the active key names the lease; if not, no key does.
LEMMA LookAtKeyKeeps ==
  ASSUME "none" \notin Terminals, LogoutInv, NEW r \in ServiceRequests, LookAtKey(r)
  PROVE  LogoutInv'
<1>1. PICK q : q = request[r]
  OBVIOUS
<1>2. Call(q) /\ Backed(q) /\ Clearing(q) /\ Parts(q)
  BY <1>1, OneOf, PartsOf
<1>3. q.op \in Revoking /\ q.step = "look"
  BY <1>1 DEF LookAtKey, At
<1>4. q.id \in LeaseIds /\ KnownLease(q.id) /\ q.id # 0 /\ SameLease(q.lease, q.id)
  BY <1>2, <1>3 DEF Backed, Parts, Naming, Carrying
<1>5. PICK mine : mine = (slots[q.lease.sn] = q.id)
  OBVIOUS
<1>6. PICK new : new = [q EXCEPT !.step = "free", !.mine = mine]
  OBVIOUS
<1>7. Go(r, new) /\ UNCHANGED <<slots, leases, copies, lapsed, spent>>
  BY <1>1, <1>5, <1>6 DEF LookAtKey
<1>8. mine \in BOOLEAN
  BY <1>5
<1>9. new = Ahead(q, "free", q.sn, q.id, q.lease, mine, q.dirty, q.scan, q.found, q.gone)
  BY <1>2, <1>6 DEF Call, Ahead
<1>10. Call(new)
  BY <1>2, <1>8, <1>9, AheadCall DEF Parts
<1>11. /\ new.op = q.op /\ new.step = "free" /\ new.id = q.id /\ new.found = q.found
       /\ new.lease = q.lease /\ new.mine = mine
       /\ new.scan = q.scan /\ new.held = q.held /\ new.who = q.who
  BY <1>9 DEF Ahead
<1>12. ~mine => Gone(q.id)
  <2> SUFFICES ASSUME ~mine, NEW t \in Terminals, slots[t] = q.id PROVE FALSE
    BY <1>4 DEF Gone
  <2>1. leases[q.id].sn = t
    BY <1>4, DataOf DEF RowsHold
  <2> QED BY <1>4, <1>5, <2>1 DEF SameLease
<1>13. Backed(new) /\ Watched(new)
  BY <1>2, <1>4, <1>11, <1>12 DEF Backed, Watched, Naming, Carrying
<1>14. Clearing(new)
  BY <1>2, <1>3, <1>11 DEF Clearing, Reached
<1> QED BY <1>7, <1>10, <1>13, <1>14, ReadTurn

\* The copy says that the lease is revoked.
LEMMA RevokedKeeps ==
  ASSUME "none" \notin Terminals, LogoutInv, NEW r \in ServiceRequests, Revoked(r)
  PROVE  LogoutInv'
<1>1. PICK q : q = request[r]
  OBVIOUS
<1>2. Call(q) /\ Backed(q) /\ Parts(q)
  BY <1>1, OneOf, PartsOf
<1>3. q.op \in Revoking /\ q.step = "forget"
  BY <1>1 DEF Revoked, At
<1>4. q.id \in LeaseIds /\ SameLease(q.lease, q.id) /\ Gone(q.id)
  BY <1>2, <1>3 DEF Backed, Parts, Naming, Carrying
<1>5. PICK new : new = After(r)
  OBVIOUS
<1>6. /\ copies' = [copies EXCEPT ![q.id] = q.lease] /\ Go(r, new)
      /\ slots' = slots /\ leases' = leases /\ lapsed' = lapsed /\ spent' = spent
  BY <1>1, <1>5 DEF Revoked
<1>7. Call(new) /\ Backed(new) /\ Clearing(new) /\ Watched(new)
  BY <1>1, <1>3, <1>4, <1>5, AfterOf
<1>8. Turned(r, new)
  BY <1>6, GoTurns, DataOf
<1>9. Rewrites
  BY <1>2, <1>4, <1>6, CopyRewrites DEF Parts
<1> QED BY <1>7, <1>8, <1>9, StillTurn

\* The hash says that the lease is revoked, and its terminal is freed if the key was its own.
LEMMA Freed ==
  ASSUME "none" \notin Terminals, LogoutInv, NEW i \in LeaseIds, KnownLease(i),
         NEW mine \in BOOLEAN, ~mine => Gone(i), NEW l, l = [leases[i] EXCEPT !.revoked = TRUE],
         leases' = [leases EXCEPT ![i] = l],
         slots' = IF mine THEN [slots EXCEPT ![leases[i].sn] = 0] ELSE slots,
         copies' = copies, lapsed' = lapsed, spent' = spent
  PROVE  /\ Grows /\ RowsHold' /\ DataTypeOK' /\ Gone(i)'
         /\ \A t : (mine => t # leases[i].sn) => slots'[t] = slots[t]
<1>1. /\ leases = [j \in LeaseIds |-> leases[j]] /\ slots \in [Terminals -> LeaseIds \cup {0}]
      /\ spent \in [leases: Nat, requests: Nat, fails: Nat]
      /\ \A j \in LeaseIds : LeaseRow(leases[j]) /\ LeaseRow(copies[j])
      /\ copies = [j \in LeaseIds |-> copies[j]]
  BY DataOf DEF DataTypeOK
<1>2. /\ \A j \in LeaseIds :
            /\ KnownLease(j) => leases[j].sn \in Terminals /\ j <= spent.leases
            /\ copies[j] # BlankLease => SameLease(copies[j], j)
            /\ leases[j].revoked \/ copies[j].revoked => Gone(j)
      /\ \A t \in Terminals : slots[t] # 0 => KnownLease(slots[t]) /\ leases[slots[t]].sn = t
  BY DataOf DEF RowsHold
<1>3. PICK sn : sn = leases[i].sn
  OBVIOUS
<1>4. sn \in Terminals
  BY <1>2, <1>3
<1>5. LeaseRow(l) /\ l.sn = sn /\ l.owner = leases[i].owner /\ l # BlankLease
  <2>1. LeaseRow(l) /\ l.sn = leases[i].sn /\ l.owner = leases[i].owner
    <3>1. PICK h : h = leases[i]
      OBVIOUS
    <3>2. LeaseRow(h) /\ l = [h EXCEPT !.revoked = TRUE]
      BY <1>1, <3>1
    <3> QED BY <3>1, <3>2 DEF LeaseRow
  <2> QED BY <1>3, <1>4, <2>1, BlankLeaseRow
<1>6. /\ leases' = [j \in LeaseIds |-> leases'[j]] /\ leases'[i] = l
      /\ \A j \in LeaseIds \ {i} : leases'[j] = leases[j]
  BY <1>1
<1>7. /\ slots' \in [Terminals -> LeaseIds \cup {0}]
      /\ \A t \in Terminals : slots'[t] = slots[t] \/ (slots'[t] = 0 /\ mine /\ t = sn)
      /\ mine => slots'[sn] = 0
      /\ \A t : (mine => t # sn) => slots'[t] = slots[t]
  BY <1>1, <1>3, <1>4
<1>8. \A j \in LeaseIds : KnownLease(j) => leases'[j] # BlankLease /\ leases'[j].sn = leases[j].sn
                                      /\ leases'[j].owner = leases[j].owner
  BY <1>3, <1>5, <1>6 DEF KnownLease
<1>9. \A j \in LeaseIds : leases'[j] # BlankLease => KnownLease(j)
  BY <1>6 DEF KnownLease
<1>10. 0 \notin LeaseIds
  BY DEF LeaseIds
<1>11. \A j \in LeaseIds, t \in Terminals : slots'[t] = j => slots[t] = j
  BY <1>7, <1>10
<1>12. leases'[i] # BlankLease /\ \A t \in Terminals : slots'[t] # i
  <2>1. CASE ~mine
    BY <1>5, <1>6, <1>11, <2>1 DEF Gone
  <2>2. CASE mine
    <3> SUFFICES ASSUME NEW t \in Terminals, slots'[t] = i PROVE FALSE
      BY <1>5, <1>6
    <3>1. slots[t] = i
      BY <1>11
    <3>2. leases[i].sn = t
      BY <1>2, <1>10, <3>1
    <3> QED BY <1>3, <1>7, <1>10, <2>2, <3>2
  <2> QED BY <2>1, <2>2
<1>13. \A j \in LeaseIds : Gone(j) => leases'[j] # BlankLease /\ \A t \in Terminals : slots'[t] # j
  BY <1>8, <1>11 DEF Gone
<1>14. Grows
  BY <1>8, <1>13 DEF Grows, KnownLease, Gone
<1>15. DataTypeOK'
  BY <1>1, <1>5, <1>6, <1>7 DEF DataTypeOK
<1>16. RowsHold'
  <2>1. ASSUME NEW j \in LeaseIds
        PROVE  /\ leases'[j] # BlankLease => leases'[j].sn \in Terminals /\ j <= spent'.leases
               /\ copies'[j] # BlankLease => /\ leases'[j] # BlankLease
                                        /\ copies'[j].sn = leases'[j].sn
                                        /\ copies'[j].owner = leases'[j].owner
               /\ leases'[j].revoked \/ copies'[j].revoked =>
                    leases'[j] # BlankLease /\ \A t \in Terminals : slots'[t] # j
    <3>1. leases'[j] # BlankLease => leases'[j].sn \in Terminals /\ j <= spent'.leases
      BY <1>2, <1>8, <1>9
    <3>2. copies'[j] # BlankLease => leases'[j] # BlankLease /\ copies'[j].sn = leases'[j].sn
                                /\ copies'[j].owner = leases'[j].owner
      BY <1>2, <1>8 DEF SameLease
    <3>3. leases'[j].revoked \/ copies'[j].revoked =>
            leases'[j] # BlankLease /\ \A t \in Terminals : slots'[t] # j
      BY <1>2, <1>6, <1>12, <1>13
    <3> QED BY <3>1, <3>2, <3>3
  <2>2. ASSUME NEW t \in Terminals, slots'[t] # 0
        PROVE  leases'[slots'[t]] # BlankLease /\ leases'[slots'[t]].sn = t
    <3>1. /\ slots'[t] = slots[t] /\ slots[t] \in LeaseIds
          /\ KnownLease(slots[t]) /\ leases[slots[t]].sn = t
      BY <1>1, <1>2, <1>7, <2>2
    <3> QED BY <1>8, <3>1
  <2> QED BY <2>1, <2>2 DEF RowsHold, SameLease, KnownLease, Gone
<1>17. Gone(i)'
  BY <1>12 DEF Gone, KnownLease
<1> QED BY <1>3, <1>7, <1>14, <1>15, <1>16, <1>17

\* The hash is written, the key deleted, and transactions that watch them are spoiled.
LEMMA RevokeLeaseKeeps ==
  ASSUME "none" \notin Terminals, LogoutInv, NEW r \in ServiceRequests, RevokeLease(r)
  PROVE  LogoutInv'
<1>1. PICK q : q = request[r]
  OBVIOUS
<1>2. Call(q) /\ Backed(q) /\ Clearing(q) /\ Parts(q)
  BY <1>1, OneOf, PartsOf
<1>3. q.op \in Revoking /\ q.step = "free"
  BY <1>1 DEF RevokeLease, At
<1>4. PICK i : i = q.id
  OBVIOUS
<1>5. i \in LeaseIds /\ i # 0 /\ KnownLease(i) /\ SameLease(q.lease, i) /\ (~q.mine => Gone(i))
  BY <1>2, <1>3, <1>4 DEF Backed, Parts, Naming, Carrying
<1>6. PICK sn : sn = q.lease.sn
  OBVIOUS
<1>7. PICK mine : mine = q.mine
  OBVIOUS
<1>8. mine \in BOOLEAN /\ sn = leases[i].sn
  BY <1>2, <1>5, <1>6, <1>7 DEF Parts, SameLease
<1>9. PICK l : l = [leases[i] EXCEPT !.revoked = TRUE]
  OBVIOUS
<1>10. PICK new : new = [q EXCEPT !.step = "forget"]
  OBVIOUS
<1>11. PICK t0 : t0 = IF mine THEN sn ELSE "none"
  OBVIOUS
<1>12. /\ leases' = [leases EXCEPT ![i].revoked = TRUE]
       /\ slots' = IF mine THEN [slots EXCEPT ![sn] = 0] ELSE slots
       /\ GoWrite(r, new, t0, i)
       /\ copies' = copies /\ lapsed' = lapsed /\ spent' = spent
  BY <1>1, <1>4, <1>6, <1>7, <1>10, <1>11 DEF RevokeLease
<1>13. leases' = [leases EXCEPT ![i] = l]
  BY <1>9, <1>12
<1>14. /\ Grows /\ RowsHold' /\ DataTypeOK' /\ Gone(i)'
       /\ \A t : (mine => t # sn) => slots'[t] = slots[t]
  <2>1. slots' = IF mine THEN [slots EXCEPT ![leases[i].sn] = 0] ELSE slots
    BY <1>8, <1>12
  <2>2. ~mine => Gone(i)
    BY <1>5, <1>7
  <2> QED BY <1>5, <1>8, <1>9, <1>12, <1>13, <2>1, <2>2, Freed
<1>15. new = Ahead(q, "forget", q.sn, q.id, q.lease, q.mine, q.dirty, q.scan, q.found, q.gone)
  BY <1>2, <1>10 DEF Call, Ahead
<1>16. Call(new)
  BY <1>2, <1>15, AheadCall DEF Parts
<1>17. /\ new.op = q.op /\ new.step = "forget" /\ new.id = i /\ new.found = q.found
       /\ new.lease = q.lease /\ new.scan = q.scan /\ new.held = q.held /\ new.who = q.who
  BY <1>4, <1>15 DEF Ahead
<1>18. /\ Turned(r, new)
       /\ \A p \in ServiceRequests \ {r} :
            request[p].step = "exec" /\ request[p].sn = t0 => request'[p].dirty
  BY <1>12, <1>17, GoWriteTurns, DataOf
<1>19. request'[r] = new
  BY <1>18 DEF Turned
<1>20. ServiceTypeOK'
  BY <1>14, <1>16, <1>18, TurnedTyped, DataOf
<1>21. /\ \A j \in LeaseIds : KnownLease(j) =>
             /\ leases'[j] # BlankLease
             /\ leases'[j].sn = leases[j].sn /\ leases'[j].owner = leases[j].owner
       /\ \A j \in LeaseIds : Gone(j) =>
             leases'[j] # BlankLease /\ \A t \in Terminals : slots'[t] # j
       /\ leases'[i] # BlankLease /\ \A t \in Terminals : slots'[t] # i
  BY <1>14 DEF Grows, KnownLease, Gone
<1>22. Backed(request[r])'
  <2>1. \A j \in q.found : leases'[j] # BlankLease
    BY <1>2, <1>21 DEF Backed, Parts
  <2>2. q.lease.sn = leases'[i].sn /\ q.lease.owner = leases'[i].owner
    BY <1>5, <1>21 DEF SameLease
  <2> QED BY <1>5, <1>17, <1>19, <1>21, <2>1, <2>2
          DEF Backed, SameLease, KnownLease, Gone, Naming, Carrying
<1>23. Clearing(request[r])'
  <2> SUFFICES ASSUME q.op = "logout", NEW j \in q.held
               PROVE  /\ leases'[j] # BlankLease /\ Matches(leases'[j], q.who)
                      /\ \/ \A t \in Terminals : slots'[t] # j
                         \/ j \in lapsed'
                         \/ leases'[j].sn \in q.scan \/ j \in q.found
    BY <1>17, <1>19 DEF Clearing, Reached, Over, Gone, KnownLease
  <2>1. j \in LeaseIds /\ KnownLease(j) /\ Matches(leases[j], q.who) /\ Reached(q, j)
    BY <1>2 DEF Clearing, Parts
  <2>2. leases'[j] # BlankLease /\ leases'[j].sn = leases[j].sn /\ Matches(leases'[j], q.who)
    BY <1>21, <2>1 DEF Matches
  <2>3. CASE j = i
    BY <1>21, <2>2, <2>3
  <2>4. CASE j # i
    BY <1>4, <1>12, <1>21, <2>1, <2>2, <2>4 DEF Reached, Over
  <2> QED BY <2>3, <2>4
<1>24. Watched(request[r])'
  BY <1>17, <1>19 DEF Watched
<1>25. \A p \in ServiceRequests \ {r} :
         /\ LikeBefore(p)
         /\ \/ slots'[request[p].sn] = slots[request[p].sn]
            \/ request[p].step = "exec" => request'[p].dirty
  BY <1>11, <1>14, <1>18 DEF Turned
<1> QED BY <1>14, <1>20, <1>22, <1>23, <1>24, <1>25, TurnKeeps

-----------------------------------------------------------------------------
(* The invariant *)

\* At first there are no leases and no requests.
LEMMA LogoutInvBegins == ServiceInit => LogoutInv
<1> SUFFICES ASSUME ServiceInit PROVE LogoutInv
  OBVIOUS
<1>1. /\ slots = [t \in Terminals |-> 0] /\ leases = [i \in LeaseIds |-> BlankLease]
      /\ copies = [i \in LeaseIds |-> BlankLease]
      /\ request = [r \in ServiceRequests |-> IdleRequest]
      /\ spent = [leases |-> 0, requests |-> 0, fails |-> 0]
  BY DEF ServiceInit
<1>2. ServiceTypeOK
  <2>1. DataTypeOK
    BY <1>1, BlankLeaseRow DEF DataTypeOK
  <2> QED BY <1>1, <2>1, IdleRequestCall DEF ServiceTypeOK
<1>3. RowsHold
  BY <1>1, BlankLeaseRow DEF RowsHold, KnownLease
<1>4. \A r \in ServiceRequests : Backed(request[r]) /\ Clearing(request[r]) /\ Watched(request[r])
  BY <1>1, IdleRequestCall
<1> QED BY <1>2, <1>3, <1>4 DEF LogoutInv

\* One lemma per action.
LEMMA LogoutInvStays ==
  ASSUME "none" \notin Terminals, LogoutInv, [ServiceNext]_serviceVars
  PROVE  LogoutInv'
<1>1. CASE UNCHANGED serviceVars
  <2>1. spent \in [leases: Nat, requests: Nat, fails: Nat]
    BY DataOf DEF DataTypeOK
  <2> QED BY <1>1, <2>1, NoTurnKeeps DEF serviceVars, DataSame
<1>2. ASSUME NEW r \in ServiceRequests, ServeRequest(r) PROVE LogoutInv'
  <2>1. ASSUME NEW s \in Sessions, NEW t \in Terminals, NEW scope \in AskedScopes,
               AcquireLease(r, s, t, scope)
        PROVE  LogoutInv'
    BY <2>1, AcquireLeaseKeeps
  <2>2. ASSUME NEW s \in Sessions, NEW i \in LeaseIds, Keepalive(r, s, i) \/ Release(r, s, i)
        PROVE  LogoutInv'
    BY <2>2, AboutKeeps DEF Keepalive, Release
  <2>3. ASSUME NEW s \in Sessions, NEW i \in LeaseIds, NEW scope \in AskedScopes,
               UpgradeLease(r, s, i, scope)
        PROVE  LogoutInv'
    BY <2>3, AboutKeeps DEF UpgradeLease
  <2>4. ASSUME NEW s, Logout(r, s) PROVE LogoutInv'
    BY <2>4, LogoutKeeps
  <2>5. CASE GetLease(r) \/ ReadToAcquire(r) \/ ReadToTouch(r) \/ ReadToUpgrade(r) \/ UpgradePut(r)
    BY <2>5, GetLeaseKeeps, ReadToAcquireKeeps, ReadToTouchKeeps, ReadToUpgradeKeeps,
       UpgradePutKeeps
  <2>6. CASE ExecWrites(r) \/ RememberLease(r) \/ PublishRenewal(r) \/ GetAgain(r) \/ Wait(r)
    BY <2>6, ExecWritesKeeps, RememberLeaseKeeps, PublishRenewalKeeps, GetAgainKeeps, PlainEndKeeps
  <2>7. ASSUME NEW t \in Terminals, ScanSlot(r, t) \/ CleanupExpired(r, t) PROVE LogoutInv'
    BY <2>7, ScanSlotKeeps, CleanupExpiredKeeps
  <2>8. ASSUME NEW i \in LeaseIds, LogoutNext(r, i) PROVE LogoutInv'
    BY <2>8, LogoutNextKeeps
  <2>9. CASE ScanGet(r) \/ LogoutReturns(r) \/ ReadToRevoke(r) \/ LookAtKey(r)
    BY <2>9, ScanGetKeeps, PlainEndKeeps, ReadToRevokeKeeps, LookAtKeyKeeps
  <2>10. CASE RevokeLease(r) \/ Revoked(r) \/ Cancel(r) \/ RequestFails(r)
    BY <2>10, RevokeLeaseKeeps, RevokedKeeps, PlainEndKeeps
  <2> QED BY <1>2, <2>1, <2>2, <2>3, <2>4, <2>5, <2>6, <2>7, <2>8, <2>9, <2>10 DEF ServeRequest
<1>3. ASSUME NEW i \in LeaseIds, RenewalAnswered(i) \/ Lapse(i) PROVE LogoutInv'
  BY <1>3, TimeKeeps
<1> QED BY <1>1, <1>2, <1>3 DEF ServiceNext

\* What is known of the requests and of the rows of the leases at every moment: a lease a
\* logout must end is over, or the logout will come to it; a row that is written, by whatever
\* request, is that of the lease it is written for, and a revoked one is named by no active
\* key (release_by_owner, revoke, acquire, touch, upgrade_scope, get).
THEOREM LogoutInvariant == ServiceSpec => []LogoutInv
<1>1. ServiceInit => LogoutInv
  BY LogoutInvBegins
<1>2. LogoutInv /\ [ServiceNext]_serviceVars => LogoutInv'
  BY LogoutInvStays, ServiceAssumption
<1> QED BY <1>1, <1>2, PTL DEF ServiceSpec

\* The step in which a logout returns.
LEMMA LogoutFrees ==
  ASSUME LogoutInv, NEW r \in ServiceRequests, LogoutReturns(r)
  PROVE  \A i \in request[r].held, t \in Terminals : GetActive(t)' # i
<1>1. PICK q : q = request[r]
  OBVIOUS
<1>2. Clearing(q) /\ Parts(q)
  BY <1>1, OneOf, PartsOf
<1>3. /\ q.op = "logout" /\ q.step = "scan" /\ q.scan = {} /\ q.found = {}
      /\ slots' = slots /\ lapsed' = lapsed
  BY <1>1 DEF LogoutReturns, At
<1> SUFFICES ASSUME NEW i \in q.held, NEW t \in Terminals, GetActive(t)' = i
             PROVE  FALSE
  BY <1>1
<1>4. i \in LeaseIds /\ i # 0 /\ Over(i)
  BY <1>2, <1>3 DEF Clearing, Reached, Parts, LeaseIds
<1>5. slots'[t] = i /\ i \notin lapsed'
  BY <1>4 DEF GetActive, ActiveLease
<1> QED BY <1>3, <1>4, <1>5 DEF Over, Gone

\* When a logout returns, none of the terminals the user, or the session, held when it began
\* is held by the same lease: for any number of terminals, leases, sessions and requests
\* that are served at once (release_by_owner of remote_input.py's service and registry).
THEOREM LogoutFreesAll == ServiceSpec => LogoutFreesTerminals
<1>1. LogoutInv /\ [ServiceNext]_serviceVars =>
        [\A r \in ServiceRequests :
           LogoutReturns(r) =>
             \A i \in request[r].held, t \in Terminals : GetActive(t)' # i]_serviceVars
  BY LogoutFrees
<1> QED BY <1>1, LogoutInvariant, PTL DEF ServiceSpec, LogoutFreesTerminals
=============================================================================
