------------------------------ MODULE Quality -------------------------------
(***************************************************************************)
(* The quality of a running stream: core/remote_input/runtime_quality.py   *)
(* for desktops, core/camera/quality.py with the quality command of the    *)
(* issuer (runtime_state.py, runtime.py) for cameras.  Both keep what was  *)
(* asked for and what was reported in the video document of the device; a  *)
(* change of it, with its guard, is one transaction (video_control.py,     *)
(* change).  The agent is external: it carries a newer command out, or     *)
(* not, and reports.                                                       *)
(***************************************************************************)
EXTENDS Naturals

CONSTANTS
  Tabs, Writers,  \* requests of browser tabs; those of the tab that started the streams
  Targets,      \* qualities that can be asked for
  MaxStreams, MaxSets, MaxSamples, MaxRefused

VARIABLES
  source,       \* "desktop" or "camera"
  running,      \* the stream instance that runs: 0 for none
  leased,       \* its publisher lease is active
  report,       \* runtime_quality, quality_report
  pending,      \* quality_pending
  tab,          \* the requests of the tabs
  jobs,         \* commands that wait for the issuer of cameras
  issued,       \* quality_generation of the issuer's active stream
  sent,         \* commands that were published
  agent,        \* what the device does
  upward,       \* reports and replies it has sent
  done,         \* what it has carried out (history)
  qualitySpent

qualityVars == <<source, running, leased, report, pending, tab, jobs, issued, sent, agent,
                 upward, done, qualitySpent>>
doc == <<report, pending>>
agentVars == <<agent, upward, done>>

NoReport == [stream |-> 0, gen |-> 0, target |-> "none", sample |-> 0, status |-> "none"]
NoPending == [stream |-> 0, gen |-> 0, target |-> "none", ack |-> "none", late |-> FALSE]
NoTab == [step |-> "idle", stream |-> 0, target |-> "none", gen |-> 0]
NoAgent == [stream |-> 0, gen |-> 0, target |-> "none", status |-> "none", sample |-> 0]

QualityInit ==
  /\ source \in {"desktop", "camera"} /\ running = 0 /\ leased = FALSE
  /\ report = NoReport /\ pending = NoPending
  /\ tab = [t \in Tabs |-> NoTab] /\ jobs = {} /\ issued = 0 /\ sent = {}
  /\ agent = NoAgent /\ upward = {} /\ done = {}
  /\ qualitySpent = [streams |-> 0, sets |-> 0, fails |-> 0]

Camera == source = "camera"

\* A stream starts.  What is kept for a camera belongs to the record of its stream, what
\* is kept for a desktop stays in the document.
StartStream ==
  /\ running = 0 /\ qualitySpent.streams < MaxStreams
  /\ running' = qualitySpent.streams + 1 /\ leased' = TRUE /\ issued' = 0
  /\ qualitySpent' = [qualitySpent EXCEPT !.streams = @ + 1]
  /\ IF Camera THEN report' = NoReport /\ pending' = NoPending ELSE UNCHANGED doc
  /\ agent' = [NoAgent EXCEPT !.stream = qualitySpent.streams + 1]
  /\ UNCHANGED <<source, tab, jobs, sent, upward, done>>

StopStream ==
  /\ running # 0 /\ running' = 0
  /\ UNCHANGED <<source, leased, doc, tab, jobs, issued, sent, agentVars, qualitySpent>>

LoseLease ==
  /\ leased /\ leased' = FALSE
  /\ UNCHANGED <<source, running, doc, tab, jobs, issued, sent, agentVars, qualitySpent>>

-----------------------------------------------------------------------------
(* set: the tab is authorised, then its wish is kept with the next         *)
(* generation if it is the original writer's and the lease is active, then *)
(* it is published.                                                        *)

Authorize(t, target) ==
  /\ tab[t] = NoTab /\ running # 0 /\ qualitySpent.sets < MaxSets
  /\ leased \/ Camera
  /\ qualitySpent' = [qualitySpent EXCEPT !.sets = @ + 1]
  /\ tab' = [tab EXCEPT ![t] = [NoTab EXCEPT !.step = "reserve", !.stream = running,
                                  !.target = target]]
  /\ UNCHANGED <<source, running, leased, doc, jobs, issued, sent, agentVars>>

Refuse(t) == tab' = [tab EXCEPT ![t] = NoTab]

\* The stream must have reported that it can be changed.
Allowed(t) ==
  /\ running = tab[t].stream /\ running # 0
  /\ leased /\ t \in Writers
  /\ report.stream = running

\* Mutant: a wish takes the generation of the one it replaces.
SameGeneration(t) ==
  IF pending.stream = tab[t].stream THEN pending.gen ELSE 1

NextGeneration(t) ==
  IF pending.stream = tab[t].stream THEN pending.gen + 1 ELSE 1

Reserve(t) ==
  /\ tab[t].step = "reserve"
  /\ IF Allowed(t)
       THEN /\ pending' = [NoPending EXCEPT !.stream = tab[t].stream,
                                            !.target = tab[t].target,
                                            !.gen = NextGeneration(t)]
            /\ tab' = [tab EXCEPT ![t].step = "send", ![t].gen = NextGeneration(t)]
       ELSE Refuse(t) /\ UNCHANGED pending
  /\ UNCHANGED <<source, running, leased, report, jobs, issued, sent, agentVars,
                 qualitySpent>>

WishOf(t) == [stream |-> tab[t].stream, gen |-> tab[t].gen, target |-> tab[t].target]

SendWish(t) ==
  /\ tab[t].step = "send"
  /\ IF Camera THEN jobs' = jobs \cup {WishOf(t)} /\ UNCHANGED sent
     ELSE sent' = sent \cup {WishOf(t)} /\ UNCHANGED jobs
  /\ Refuse(t)
  /\ UNCHANGED <<source, running, leased, doc, issued, agentVars, qualitySpent>>

\* The broker refuses; a camera's wish stays as it is, a desktop's is marked by another
\* transaction, if it is still the last.
SendFails(t) ==
  /\ tab[t].step = "send" /\ qualitySpent.fails < MaxRefused
  /\ qualitySpent' = [qualitySpent EXCEPT !.fails = @ + 1]
  /\ IF Camera THEN Refuse(t) ELSE tab' = [tab EXCEPT ![t].step = "failed"]
  /\ UNCHANGED <<source, running, leased, doc, jobs, issued, sent, agentVars>>

MarkFailed(t) ==
  /\ tab[t].step = "failed"
  /\ pending' = IF <<pending.stream, pending.gen>> = <<tab[t].stream, tab[t].gen>>
                THEN [pending EXCEPT !.ack = "publish_failed"] ELSE pending
  /\ Refuse(t)
  /\ UNCHANGED <<source, running, leased, report, jobs, issued, sent, agentVars,
                 qualitySpent>>

\* The five seconds of a wish, or the fifteen of a camera's, are over.
Overdue ==
  /\ pending.gen > 0 /\ ~pending.late /\ pending' = [pending EXCEPT !.late = TRUE]
  /\ UNCHANGED <<source, running, leased, report, tab, jobs, issued, sent, agentVars,
                 qualitySpent>>

\* The issuer: a job that is stale, late or of a stream that is not live is refused.
Issue(j) ==
  /\ jobs' = jobs \ {j}
  /\ IF j.stream = running /\ leased /\ j.gen > issued
       THEN issued' = j.gen /\ sent' = sent \cup {j}
       ELSE UNCHANGED <<issued, sent>>
  /\ UNCHANGED <<source, running, leased, doc, tab, agentVars, qualitySpent>>

-----------------------------------------------------------------------------
(* The agent                                                               *)

\* A desktop reports the raster in force (in version 2 of its reports, those of version 1
\* name none), a camera what it was last asked for.
Said(m) == upward' = upward \cup {m}
Carried(c, status) ==
  agent' = [agent EXCEPT !.gen = c.gen, !.status = status,
              !.target = IF Camera \/ status = "applied" THEN c.target ELSE @]

Carry(c) ==
  /\ agent.stream = c.stream /\ c.gen > agent.gen
  /\ \/ Carried(c, "applied") /\ done' = done \cup {c} /\ UNCHANGED upward
     \/ Carried(c, "unsupported") /\ UNCHANGED <<done, upward>>
     \/ ~Camera /\ Said([kind |-> "nack", stream |-> c.stream, gen |-> c.gen])
        /\ UNCHANGED <<agent, done>>
  /\ UNCHANGED <<source, running, leased, doc, tab, jobs, issued, sent, qualitySpent>>

Report ==
  /\ agent.stream # 0 /\ agent.sample < MaxSamples
  /\ agent' = [agent EXCEPT !.sample = @ + 1]
  /\ Said([kind |-> "report", stream |-> agent.stream, gen |-> agent.gen,
           target |-> agent.target, sample |-> agent.sample + 1,
           status |-> IF agent.gen = 0 THEN "applied" ELSE agent.status])
  /\ UNCHANGED <<source, running, leased, doc, tab, jobs, issued, sent, done, qualitySpent>>

-----------------------------------------------------------------------------
(* report: of the running stream, not older than the last, and of nothing  *)
(* that was not asked for.                                                 *)

LastGeneration == IF pending.stream = running THEN pending.gen ELSE 0

Fits(r) ==
  LET old == IF report.stream = r.stream THEN report ELSE NoReport IN
  /\ r.stream = running
  /\ r.gen <= LastGeneration /\ r.sample > old.sample
  /\ Camera => r.gen >= old.gen
  /\ r.gen > 0 /\ r.gen = LastGeneration /\ (Camera \/ r.status = "applied") =>
       r.target = pending.target

Accept(m) ==
  /\ m.kind = "report" /\ Fits(m)
  /\ report' = [stream |-> m.stream, gen |-> m.gen, target |-> m.target,
                sample |-> m.sample, status |-> m.status]
  /\ UNCHANGED <<source, running, leased, pending, tab, jobs, issued, sent, agentVars,
                 qualitySpent>>

\* reply: of the last wish, in time, while its stream runs.
Reply(m) ==
  /\ m.kind = "nack" /\ <<m.stream, m.gen>> = <<pending.stream, pending.gen>>
  /\ ~pending.late /\ running = pending.stream
  /\ pending' = [pending EXCEPT !.ack = "nack"]
  /\ UNCHANGED <<source, running, leased, report, tab, jobs, issued, sent, agentVars,
                 qualitySpent>>

QualityNext ==
  \/ StartStream \/ StopStream \/ LoseLease \/ Overdue \/ Report
  \/ \E t \in Tabs :
       \/ \E target \in Targets : Authorize(t, target)
       \/ Reserve(t) \/ SendWish(t) \/ SendFails(t) \/ MarkFailed(t)
  \/ \E j \in jobs : Issue(j)
  \/ \E c \in sent : Carry(c)
  \/ \E m \in upward : Accept(m) \/ Reply(m)

QualitySpec == QualityInit /\ [][QualityNext]_qualityVars

-----------------------------------------------------------------------------
(* get: what the panel shows of the running stream.                        *)

Wish == IF pending.stream = running THEN pending ELSE NoPending

Status ==
  IF running = 0 \/ report.stream # running THEN "unavailable"
  ELSE IF Wish.ack # "none" THEN "unconfirmed"
  ELSE IF Wish.gen > report.gen THEN IF Wish.late THEN "unconfirmed" ELSE "pending"
  ELSE report.status

\* What the panel shows as applied, with the generation that was asked for last, the device
\* has carried out, for this stream and with this target, whatever tabs ask for at the same
\* time and however reports are delayed (quality_pending, report, get).
AppliedIsAsked ==
  Status = "applied" /\ Wish.gen > 0 =>
    [stream |-> running, gen |-> Wish.gen, target |-> Wish.target] \in done
=============================================================================
