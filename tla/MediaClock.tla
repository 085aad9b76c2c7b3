----------------------------- MODULE MediaClock -----------------------------
(***************************************************************************)
(* The deadline that a camera's media may run to, exported from one lease. *)
(* Redis holds the lease and the key that makes it the active one, with    *)
(* its time to live; the clock is anchored in the lease once and read,     *)
(* exported and renewed by several requests at a time, each a sequence of  *)
(* commands under WATCH.  Time is the monotonic clock of the host.         *)
(***************************************************************************)
EXTENDS Naturals, FiniteSets, FiniteSetsExt

CONSTANTS
  Requests,     \* exports and renewals in progress at a time
  Renewal,      \* ttl_sec of a keepalive
  Budget,       \* the longest deadline: a minute
  MaxTries,     \* attempts of one request under WATCH
  MaxCalls,     \* bound: requests begun
  MaxTime       \* bound: the clock

ASSUME ClockAssumption ==
  /\ Renewal \in Nat \ {0} /\ Budget \in Nat
  /\ MaxTries \in Nat \ {0} /\ MaxCalls \in Nat /\ MaxTime \in Nat

VARIABLES
  time,         \* the monotonic clock
  until,        \* when the active key expires; 0 when it is gone
  anchor,       \* camera_media_clock in the lease, if it is initialised
  ended,        \* the lease has a revoked_reason
  media,        \* the requests
  spoiled,      \* requests whose watched keys were written, or expired
  exported,     \* what was returned: [clock, deadline]
  given,        \* the latest expiry the active key has had
  calls         \* requests begun

clockVars == <<time, until, anchor, ended, media, spoiled, exported, given, calls>>
leaseVars == <<until, anchor, ended, given>>

None == [clock |-> "none", last |-> 0, deadline |-> 0]
NoCall == [pc |-> "idle"]
CallKinds == {"initialize", "export", "touch"}

ClockInit ==
  /\ time = 1
  /\ until = 1 + Renewal
  /\ anchor = None
  /\ ended = FALSE
  /\ media = [r \in Requests |-> NoCall]
  /\ spoiled = {}
  /\ exported = {}
  /\ given = 1 + Renewal
  /\ calls = 0

CallTo(r, rec) == media' = [media EXCEPT ![r] = rec]
Others(r) == {q \in Requests \ {r} : media[q] # NoCall}

\* A write to the lease or to the active key spoils every other WATCH.
SpoilOthers(r) == spoiled' = (spoiled \cup Others(r)) \ {r}

Begin(r, kind) ==
  /\ media[r] = NoCall
  /\ calls < MaxCalls
  /\ calls' = calls + 1
  /\ CallTo(r, [pc |-> "hash", kind |-> kind, tries |-> 1, before |-> time])
  /\ UNCHANGED <<time, leaseVars, spoiled, exported>>

ReadHash(r) ==
  /\ media[r].pc = "hash"
  /\ CallTo(r, [pc |-> "active", kind |-> media[r].kind, tries |-> media[r].tries,
              before |-> media[r].before, raw |-> anchor, revoked |-> ended])
  /\ UNCHANGED <<time, leaseVars, spoiled, exported, calls>>

\* pttl of a key that is gone is negative: the request fails.
ReadActive(r) ==
  /\ media[r].pc = "active"
  /\ IF until = 0 THEN CallTo(r, NoCall)
     ELSE CallTo(r, [pc |-> "sample", kind |-> media[r].kind, tries |-> media[r].tries,
                   before |-> media[r].before, raw |-> media[r].raw,
                   revoked |-> media[r].revoked, ttl |-> until - time])
  /\ spoiled' = IF until = 0 THEN spoiled \ {r} ELSE spoiled
  /\ UNCHANGED <<time, leaseVars, exported, calls>>

----------------------------------------------------------------------------
(* What a request makes of what it read *)

\* Mutant: the time between the reads and now is not taken off.
TimeLeftWhenRead(q) == Min({Budget, q.ttl})

\* What is left of the active key's life, less the time the reads took.
TimeLeft(q) ==
  IF q.ttl > time - q.before THEN Min({Budget, q.ttl - (time - q.before)}) ELSE 0

\* A known anchor is not ahead of the clock and its deadline is not reached.
InForce(a) == a.last <= time /\ time < a.deadline

Acceptable(q) ==
  /\ ~q.revoked /\ TimeLeft(q) > 0
  /\ IF q.raw = None THEN q.kind = "initialize" ELSE InForce(q.raw)

\* Exporting never extends: the deadline is the earlier of the two.
Remaining(q) ==
  IF q.raw = None THEN TimeLeft(q) ELSE Min({TimeLeft(q), q.raw.deadline - time})

\* The anchor it would write; a new clock_id stands for the request that made it.
Sampled(r, q) ==
  [clock    |-> IF q.raw = None THEN r ELSE q.raw.clock,
   last     |-> time,
   deadline |-> IF q.kind = "touch" THEN time + Renewal
                ELSE IF q.raw = None THEN time + TimeLeft(q)
                ELSE q.raw.deadline]

Export(r, q) ==
  [clock |-> Sampled(r, q).clock,
   deadline |-> IF q.kind = "touch" THEN time + Renewal ELSE time + Remaining(q)]

Sample(r) ==
  LET q == media[r] IN
  /\ q.pc = "sample"
  /\ \/ /\ ~Acceptable(q)
        /\ CallTo(r, NoCall) /\ spoiled' = spoiled \ {r}
        /\ UNCHANGED exported
     \/ /\ Acceptable(q) /\ q.kind # "touch" /\ Sampled(r, q) = q.raw
        /\ CallTo(r, NoCall) /\ spoiled' = spoiled \ {r}
        /\ exported' = exported \cup {Export(r, q)}
     \/ /\ Acceptable(q) /\ (q.kind = "touch" \/ Sampled(r, q) # q.raw)
        /\ CallTo(r, [pc |-> "exec", kind |-> q.kind, tries |-> q.tries,
                    write |-> Sampled(r, q), export |-> Export(r, q)])
        /\ UNCHANGED <<spoiled, exported>>
  /\ UNCHANGED <<time, leaseVars, calls>>

----------------------------------------------------------------------------
(* EXEC *)

Written(r) ==
  /\ r \notin spoiled
  /\ anchor' = media[r].write
  /\ exported' = exported \cup {media[r].export}
  /\ IF media[r].kind = "touch"
       THEN until' = time + Renewal /\ given' = Max({given, time + Renewal})
       ELSE UNCHANGED <<until, given>>
  /\ SpoilOthers(r)
  /\ CallTo(r, NoCall)

Retried(r) ==
  /\ r \in spoiled
  /\ spoiled' = spoiled \ {r}
  /\ CallTo(r, IF media[r].tries = MaxTries THEN NoCall
             ELSE [pc |-> "hash", kind |-> media[r].kind,
                   tries |-> media[r].tries + 1, before |-> time])
  /\ UNCHANGED <<until, anchor, given, exported>>

Exec(r) ==
  /\ media[r].pc = "exec"
  /\ Written(r) \/ Retried(r)
  /\ UNCHANGED <<time, ended, calls>>

----------------------------------------------------------------------------
(* Others *)

\* A keepalive that took the lease for a plain one: the anchor stays.
PlainTouch ==
  /\ until # 0 /\ calls < MaxCalls
  /\ calls' = calls + 1
  /\ until' = time + Renewal
  /\ given' = Max({given, time + Renewal})
  /\ spoiled' = {r \in Requests : media[r] # NoCall}
  /\ UNCHANGED <<time, anchor, ended, media, exported>>

EndLease ==
  /\ until # 0
  /\ until' = 0 /\ ended' = TRUE
  /\ spoiled' = {r \in Requests : media[r] # NoCall}
  /\ UNCHANGED <<time, anchor, media, exported, given, calls>>

ClockTick ==
  /\ time < MaxTime
  /\ time' = time + 1
  /\ IF until # 0 /\ until <= time'
       THEN until' = 0 /\ spoiled' = {r \in Requests : media[r] # NoCall}
       ELSE UNCHANGED <<until, spoiled>>
  /\ UNCHANGED <<anchor, ended, media, exported, given, calls>>

ClockNext ==
  \/ \E r \in Requests :
       \/ \E kind \in CallKinds : Begin(r, kind)
       \/ ReadHash(r) \/ ReadActive(r) \/ Sample(r) \/ Exec(r)
  \/ PlainTouch \/ EndLease \/ ClockTick

ClockSpec == ClockInit /\ [][ClockNext]_clockVars

----------------------------------------------------------------------------
(* No export promises more than the lease has ever been given: however long a
   request waits between its commands, whichever renewals it races, reading and
   exporting never lengthen the deadline (media_clock.py, remaining). *)
DeadlineHonest == \A e \in exported : e.deadline <= given
=============================================================================
