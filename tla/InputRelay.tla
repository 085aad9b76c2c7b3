----------------------------- MODULE InputRelay -----------------------------
(***************************************************************************)
(* One accepted socket of an input lease: the receive loop and the workers *)
(* of remote_input_ws (api/internal_v1/remote_input.py), and what moves,   *)
(* wheels, keys and shortcuts become in core/remote_input/service.py,      *)
(* rate_limit.py and publisher.py.  Moves go to a worker through a queue   *)
(* of one, all else is done in the loop; what the browser is told goes     *)
(* through one queue and one sender.  Clicks, and how replies of the agent *)
(* are matched, are InputSocket's subject.                                 *)
(***************************************************************************)
EXTENDS Naturals, Sequences

CONSTANTS
  Commands,     \* what the loop does itself: "wheel", "key"
  Modes,        \* the stream_mode of the lease: "none", "desktop", "camera"
  Capacity,     \* of a bucket; it gets one token per unit of time
  MaxMoves, MaxCommands, MaxTold, MaxBroken, LastSecond

BucketKinds == Commands \cup {"move"}

VARIABLES
  second, lease,  \* time, and whether the lease is active
  mode,
  loop,         \* the receive loop
  moves,        \* move_queue
  mover,        \* pointer_move_worker
  outcome,      \* what became of each move that was accepted (history)
  bucket,       \* the token buckets of the lease
  outgoing, sender,  \* what is to be sent, and who sends it
  notice,       \* the revocation: "none", "queued", "told"
  relaySpent

relayVars == <<second, lease, mode, loop, moves, mover, outcome, bucket, outgoing, sender,
               notice, relaySpent>>
clock == <<second, lease, notice>>
said == <<outgoing, sender>>

NoCommand == [step |-> "idle", what |-> "none"]
Still == [step |-> "idle", n |-> 0]

RelayInit ==
  /\ second = 0 /\ lease = "active" /\ mode \in Modes
  /\ loop = NoCommand /\ moves = <<>> /\ mover = Still /\ outcome = <<>>
  /\ bucket = [k \in BucketKinds |-> [tokens |-> Capacity, at |-> 0]]
  /\ outgoing = <<"hello">> /\ sender = "running" /\ notice = "none"
  /\ relaySpent = [commands |-> 0, events |-> 0, fails |-> 0]

SocketOpen == loop.step # "left"
Tell(m) == outgoing' = Append(outgoing, m) /\ UNCHANGED sender

-----------------------------------------------------------------------------
(* check_rate_limit *)

Smaller(a, b) == IF a < b THEN a ELSE b

Refilled(k) == Smaller(Capacity, bucket[k].tokens + (second - bucket[k].at))

Allow(k) == /\ Refilled(k) >= 1
            /\ bucket' = [bucket EXCEPT ![k] = [tokens |-> Refilled(k) - 1, at |-> second]]

Deny(k) == /\ Refilled(k) < 1
           /\ bucket' = [bucket EXCEPT ![k] = [tokens |-> Refilled(k), at |-> second]]

\* _validate_input_command, and the policy of shortcuts; a stream or a desktop that the
\* browser names may be another one by now.
Refused(why) == lease = "active" => why \in {"stream_mismatch", "policy"}

-----------------------------------------------------------------------------
(* Moves.  A move that is still queued is replaced by the next.            *)

\* Without a stream the lease is taken to be in desktop mode from now on.
Desktop == mode # "camera" /\ mode' = "desktop"

\* Mutant: a move that finds the queue full is dropped.
EarliestMove(n) == IF moves = <<>> THEN <<n>> ELSE moves

LatestMove(n) == <<n>>

Move ==
  /\ loop = NoCommand /\ Len(outcome) < MaxMoves
  /\ Desktop
  /\ outcome' = Append([i \in DOMAIN outcome |-> IF moves = <<i>> THEN "replaced"
                                                 ELSE outcome[i]], "queued")
  /\ moves' = LatestMove(Len(outcome) + 1)
  /\ UNCHANGED <<clock, loop, mover, bucket, said, relaySpent>>

MoveRefused ==
  /\ loop = NoCommand /\ mode = "camera" /\ relaySpent.commands < MaxCommands
  /\ relaySpent' = [relaySpent EXCEPT !.commands = @ + 1]
  /\ Tell("error")
  /\ UNCHANGED <<clock, mode, loop, moves, mover, outcome, bucket>>

TakeMove ==
  /\ SocketOpen /\ mover.step = "idle" /\ moves # <<>>
  /\ mover' = [step |-> "check", n |-> moves[1]] /\ moves' = <<>>
  /\ UNCHANGED <<clock, mode, loop, outcome, bucket, said, relaySpent>>

Settle(n, what) == outcome' = [outcome EXCEPT ![n] = what] /\ mover' = Still

CheckMove ==
  /\ SocketOpen /\ mover.step = "check"
  /\ \/ /\ \E why \in {"lease inactive", "stream_mismatch"} : Refused(why)
        /\ Settle(mover.n, "refused") /\ Tell("error") /\ UNCHANGED bucket
     \/ /\ lease = "active" /\ Allow("move")
        /\ mover' = [mover EXCEPT !.step = "publish"] /\ UNCHANGED <<outcome, said>>
     \/ /\ lease = "active" /\ Deny("move")
        /\ Settle(mover.n, "refused") /\ Tell("error")
  /\ UNCHANGED <<clock, mode, loop, moves, relaySpent>>

PublishMove ==
  /\ SocketOpen /\ mover.step = "publish"
  /\ \/ Settle(mover.n, "published") /\ UNCHANGED relaySpent
     \/ /\ relaySpent.fails < MaxBroken /\ relaySpent' = [relaySpent EXCEPT !.fails = @ + 1]
        /\ Settle(mover.n, "failed")
  /\ UNCHANGED <<clock, mode, loop, moves, bucket, said>>

-----------------------------------------------------------------------------
(* Wheels, drags, keys and shortcuts *)

Command(k) ==
  /\ loop = NoCommand /\ relaySpent.commands < MaxCommands
  /\ relaySpent' = [relaySpent EXCEPT !.commands = @ + 1]
  /\ \/ Desktop /\ loop' = [step |-> "check", what |-> k] /\ UNCHANGED said
     \/ mode = "camera" /\ Tell("error") /\ UNCHANGED <<mode, loop>>
  /\ UNCHANGED <<clock, moves, mover, outcome, bucket>>

CheckCommand ==
  /\ loop.step = "check"
  /\ \/ /\ \E why \in {"lease inactive", "stream_mismatch", "policy"} : Refused(why)
        /\ loop' = NoCommand /\ Tell("error") /\ UNCHANGED bucket
     \/ /\ lease = "active" /\ Allow(loop.what)
        /\ loop' = [loop EXCEPT !.step = "publish"] /\ UNCHANGED said
     \/ /\ lease = "active" /\ Deny(loop.what)
        /\ loop' = NoCommand /\ Tell("error")
  /\ UNCHANGED <<clock, mode, moves, mover, outcome, relaySpent>>

\* An error of the broker ends the loop.
PublishCommand ==
  /\ loop.step = "publish"
  /\ \/ /\ loop' = IF loop.what = "wheel" THEN NoCommand ELSE [loop EXCEPT !.step = "wait"]
        /\ UNCHANGED relaySpent
     \/ /\ relaySpent.fails < MaxBroken /\ relaySpent' = [relaySpent EXCEPT !.fails = @ + 1]
        /\ loop' = [loop EXCEPT !.step = "leaving"]
  /\ UNCHANGED <<clock, mode, moves, mover, outcome, bucket, said>>

\* The agent's reply, or the timeout.
AnswerCommand ==
  /\ loop.step = "wait" /\ loop' = NoCommand /\ Tell("result")
  /\ UNCHANGED <<clock, mode, moves, mover, outcome, bucket, relaySpent>>

-----------------------------------------------------------------------------
(* The sender and the other workers *)

SendNext ==
  /\ SocketOpen /\ sender = "running" /\ outgoing # <<>>
  /\ outgoing' = Tail(outgoing)
  /\ sender' = IF Head(outgoing) = "end" THEN "ended" ELSE sender
  /\ UNCHANGED <<clock, mode, loop, moves, mover, outcome, bucket, relaySpent>>

\* presence_worker, stream_worker
Event ==
  /\ SocketOpen /\ relaySpent.events < MaxTold
  /\ relaySpent' = [relaySpent EXCEPT !.events = @ + 1]
  /\ Tell("event")
  /\ UNCHANGED <<clock, mode, loop, moves, mover, outcome, bucket>>

RevokeInput ==
  /\ lease = "active" /\ lease' = "revoked" /\ notice' = "queued"
  /\ UNCHANGED <<second, mode, loop, moves, mover, outcome, bucket, said, relaySpent>>

\* The lease ends by its time; nobody is told.
LeaseExpires ==
  /\ lease = "active" /\ lease' = "expired"
  /\ UNCHANGED <<second, notice, mode, loop, moves, mover, outcome, bucket, said,
                 relaySpent>>

LastWords == <<"revoked", "end">>

TellRevoked ==
  /\ SocketOpen /\ notice = "queued" /\ notice' = "told"
  /\ outgoing' = outgoing \o LastWords
  /\ UNCHANGED <<second, lease, mode, loop, moves, mover, outcome, bucket, sender,
                 relaySpent>>

\* The browser leaves or releases the lease; the workers have a moment, then they are
\* cancelled.
LeaveSocket ==
  /\ loop = NoCommand /\ loop' = [loop EXCEPT !.step = "leaving"]
  /\ UNCHANGED <<clock, mode, moves, mover, outcome, bucket, said, relaySpent>>

CloseSocket ==
  /\ loop.step = "leaving" /\ loop' = [NoCommand EXCEPT !.step = "left"]
  /\ sender' = "ended"
  /\ UNCHANGED <<clock, mode, moves, mover, outcome, bucket, outgoing, relaySpent>>

SecondPasses ==
  /\ second < LastSecond /\ second' = second + 1
  /\ UNCHANGED <<lease, notice, mode, loop, moves, mover, outcome, bucket, said,
                 relaySpent>>

RelayNext ==
  \/ Move \/ MoveRefused \/ TakeMove \/ CheckMove \/ PublishMove
  \/ \E k \in Commands : Command(k)
  \/ CheckCommand \/ PublishCommand \/ AnswerCommand
  \/ SendNext \/ Event \/ RevokeInput \/ LeaseExpires \/ TellRevoked \/ LeaveSocket
  \/ CloseSocket \/ SecondPasses

RelaySpec == RelayInit /\ [][RelayNext]_relayVars

-----------------------------------------------------------------------------
\* When the worker has caught up, the last move of the browser was published, or an error
\* was told, or the broker failed: the pointer does not stay where an older move has put
\* it because the newest was dropped (move_queue, pointer_move_worker).
LastMoveSettled ==
  moves = <<>> /\ mover.step = "idle" /\ outcome # <<>> =>
    outcome[Len(outcome)] \in {"published", "refused", "failed"}
=============================================================================
