---------------------------- MODULE ArchiveCycle ----------------------------
(***************************************************************************)
(* The archive of one month of session events, tasks and device events     *)
(* (core/archive/).  A cycle exports the rows of the month to a staging    *)
(* directory, verifies what it finds there, moves it to its final place    *)
(* and then deletes the rows.  The rows and the register of batches change *)
(* in one transaction of the caller, which the directories do not follow:  *)
(* a cycle that fails half way leaves what it has done to the disk, and    *)
(* the caller decides what becomes of the transaction.  Nothing keeps two  *)
(* cycles from working on the same month.                                  *)
(*                                                                         *)
(* Events are numbered by their cursors.  Of a task the archive keeps its  *)
(* row, while the purge also deletes what belongs to it: its payload, its  *)
(* status and its results are details, and no directory ever holds them.   *)
(* Paths, disk space, compression, sampling and the counts of the manifest *)
(* are left out.                                                           *)
(***************************************************************************)
EXTENDS Naturals, FiniteSets, FiniteSetsExt

CONSTANTS Cycles,     \* runs of the archive, by the API or by the script
          Batches,    \* ids drawn for batches
          Events,     \* session events the month may have, by cursor
          Others,     \* tasks and device events it may have
          Tasks,      \* which of these are tasks
          NoBatch,
          Threshold,  \* closed months that stay in the tables
          Chunk,      \* rows deleted by one statement
          MaxFailures   \* bound on crashes, database errors and bad writes

States == {"prepared", "verified", "purged", "failed"}
BatchRow == [state : States, payload : States, passed : Nat, through : Nat]

ASSUME ArchiveAssumption ==
  /\ Events \subseteq Nat \ {0} /\ IsFiniteSet(Events)
  /\ IsFiniteSet(Others) /\ Others \cap Events = {} /\ Tasks \subseteq Others
  /\ NoBatch \notin Batches /\ NoBatch \notin BatchRow
  /\ Threshold \in Nat /\ Chunk \in Nat \ {0} /\ MaxFailures \in Nat

VARIABLES age,     \* months since the month began
          open,    \* a session of the month is not closed yet
          acked,   \* cursor that the consumers of events have passed
          born,    \* every record of the month
          details, \* tasks whose payload, status and results are in the tables
          rows,    \* records that are in the tables
          batch,   \* register of batches (fin_archive_batches)
          dir,     \* directory of each batch
          cyc,     \* cycles under way, with their uncommitted changes
          failures

world == <<age, open, acked, born, details>>
archiveVars == <<age, open, acked, born, details, rows, batch, dir, cyc, failures>>

Records == Events \cup Others
Callers == {"api", "script"}
Ways == {"dry_run", "verify_only", "purge"}
NoDir == [place |-> "none", data |-> {}, manifest |-> "torn"]
NoCycle == [pc |-> "idle", by |-> "api", dry |-> FALSE, purge |-> FALSE, passed |-> 0,
         b |-> NoBatch, resumed |-> FALSE, data |-> {}, manifest |-> "torn",
         row |-> NoBatch, gone |-> {}]

(* Guards *)

\* RetentionGuard: the month is older than Threshold closed months.
OldEnough == age >= Threshold + 1

\* Mutant: a session of a month that old is taken for closed.
NoActiveIfOld == OldEnough

\* ActiveRecordsGuard: every session of the month is closed.
NoActive == ~open

\* Mutant: the last event is forgotten.
CursorsPassedButOne(row) == row.through = 0 \/ row.passed + 1 >= row.through

\* CursorGuard: the consumers have got every event that was exported.
CursorsPassed(row) == row.through = 0 \/ row.passed >= row.through

\* Mutant: only a file that lost everything is noticed.
ChecksumHoldsIfAny(c) == dir[cyc[c].b].data # {} \/ cyc[c].data = {}

\* The file read again has the checksum of what was written.
ChecksumHolds(c) == dir[cyc[c].b].data = cyc[c].data

(* The rows of a batch *)

NewBatch(c) ==
  [state |-> "prepared", payload |-> "prepared", passed |-> cyc[c].passed,
   through |-> IF cyc[c].data \cap Events = {} THEN 0 ELSE Max(cyc[c].data \cap Events)]

\* manifest_payload is assigned the dictionary that it already holds, changed
\* in place: the mapper sees no difference and the column keeps its value.
InState(row, state) == [row EXCEPT !.state = state]

\* What the statements of c see: its own deletions, and what others committed.
Visible(c) == rows \ cyc[c].gone

\* Events are deleted first, up to the last one exported; then the others.
Targets(c) ==
  LET evs == {e \in Visible(c) \cap Events :
                cyc[c].row.through = 0 \/ e <= cyc[c].row.through}
  IN IF evs # {} THEN evs ELSE Visible(c) \cap Others

(* The world *)

Insert(r) ==
  /\ age = 0 /\ r \notin born
  /\ born' = born \cup {r} /\ rows' = rows \cup {r}
  /\ details' = details \cup ({r} \cap Tasks)
  /\ UNCHANGED <<age, open, acked, batch, dir, cyc, failures>>

NextMonth ==
  /\ age <= Threshold /\ age' = age + 1
  /\ UNCHANGED <<open, acked, born, details, rows, batch, dir, cyc, failures>>

SessionCloses ==
  /\ open /\ open' = FALSE
  /\ UNCHANGED <<age, acked, born, details, rows, batch, dir, cyc, failures>>

Consume(e) ==
  /\ e \in born \cap Events /\ e > acked /\ acked' = e
  /\ UNCHANGED <<age, open, born, details, rows, batch, dir, cyc, failures>>

(* A cycle *)

At(c, pc) == cyc[c].pc = pc
Failure == failures < MaxFailures /\ failures' = failures + 1
Goto(c, pc) == cyc' = [cyc EXCEPT ![c].pc = pc]

\* The transaction is rolled back; the directories stay.
Rollback(c) == cyc' = [cyc EXCEPT ![c] = NoCycle]

\* An exception.  The batch of this cycle is marked as failed; the API rolls
\* back, while the script swallows the exception inside session.begin() and so
\* commits what was done up to here.
Raise(c) ==
  LET k == cyc[c]
      marked == IF k.row = NoBatch \/ k.resumed THEN NoBatch ELSE InState(k.row, "failed")
  IN IF k.by = "api" THEN Rollback(c)
     ELSE cyc' = [cyc EXCEPT ![c].pc = "commit", ![c].row = marked]

\* The manifest of a staging directory says so too.
MarkStaging(c) ==
  dir' = IF cyc[c].row # NoBatch /\ ~cyc[c].resumed /\ dir[cyc[c].b].place = "staging"
           THEN [dir EXCEPT ![cyc[c].b].manifest = "failed"] ELSE dir

WithState(st) == {b \in Batches : batch[b] # NoBatch /\ batch[b].state = st}
Resumable == {b \in WithState("verified") : dir[b].place = "final"}
Drawn == {b \in Batches : batch[b] # NoBatch \/ dir[b].place # "none"
                          \/ \E c \in Cycles : cyc[c].b = b}

\* What a call for the month finds in the register: a month that is purged is
\* done with, a batch that was only verified is purged without a new export.
Callable(c) == At(c, "idle") /\ OldEnough /\ WithState("purged") = {}

Resume(c, b, by) ==
  /\ Callable(c) /\ b \in Resumable
  /\ cyc' = [cyc EXCEPT ![c] = [NoCycle EXCEPT !.pc = "check", !.by = by, !.purge = TRUE,
                !.b = b, !.resumed = TRUE, !.row = batch[b], !.manifest = batch[b].payload]]
  /\ UNCHANGED <<world, rows, batch, dir, failures>>

NewCycle(c, b, by, how, passed) ==
  /\ Callable(c) /\ (how = "purge" => Resumable = {})
  /\ NoActive /\ b \notin Drawn
  /\ cyc' = [cyc EXCEPT ![c] = [NoCycle EXCEPT !.pc = "events", !.by = by,
                !.dry = how = "dry_run", !.purge = how = "purge", !.passed = passed,
                !.b = b]]
  /\ UNCHANGED <<world, rows, batch, dir, failures>>

\* The statements of fetch_archive_records, each with a snapshot of its own.  None of
\* them reads the details of a task.
Fetch(c) ==
  /\ \/ /\ At(c, "events")
        /\ cyc' = [cyc EXCEPT ![c].pc = "others", ![c].data = rows \cap Events]
     \/ /\ At(c, "others")
        /\ cyc' = [cyc EXCEPT ![c].pc = "export", ![c].data = @ \cup (rows \cap Others)]
  /\ UNCHANGED <<world, rows, batch, dir, failures>>

\* The file in the staging directory may turn out incomplete.
Export(c) ==
  /\ At(c, "export")
  /\ \E data \in SUBSET cyc[c].data :
       /\ dir' = [dir EXCEPT ![cyc[c].b] =
                    [place |-> "staging", data |-> data, manifest |-> "prepared"]]
       /\ IF data = cyc[c].data THEN UNCHANGED failures ELSE Failure
  /\ cyc' = [cyc EXCEPT ![c].pc = IF cyc[c].dry THEN "commit" ELSE "verify",
                        ![c].manifest = "prepared", ![c].row = NewBatch(c)]
  /\ UNCHANGED <<world, rows, batch>>

Refuse(c) ==
  /\ At(c, "verify") /\ ~(ChecksumHolds(c) /\ CursorsPassed(cyc[c].row))
  /\ Raise(c) /\ MarkStaging(c)
  /\ UNCHANGED <<world, rows, batch, failures>>

Promote(c) ==
  /\ At(c, "verify") /\ ChecksumHolds(c) /\ CursorsPassed(cyc[c].row)
  /\ dir' = [dir EXCEPT ![cyc[c].b].place = "final"]
  /\ Goto(c, "promoted") /\ UNCHANGED <<world, rows, batch, failures>>

\* The manifest is written anew, which may fail when the old one is gone.
BadWrite(c) ==
  /\ At(c, "promoted") \/ (At(c, "delete") /\ Targets(c) = {})
  /\ dir' = [dir EXCEPT ![cyc[c].b].manifest = "torn"]
  /\ Failure /\ Raise(c) /\ UNCHANGED <<world, rows, batch>>

Verified(c) ==
  /\ At(c, "promoted")
  /\ dir' = [dir EXCEPT ![cyc[c].b].manifest = "verified"]
  /\ cyc' = [cyc EXCEPT ![c].pc = IF cyc[c].purge THEN "check" ELSE "commit",
                        ![c].manifest = "verified", ![c].row = InState(@, "verified")]
  /\ UNCHANGED <<world, rows, batch, failures>>

\* The guards of purge_archived_records_bounded.
Check(c) ==
  /\ At(c, "check")
  /\ IF cyc[c].manifest = "verified" /\ CursorsPassed(cyc[c].row) /\ NoActive
       THEN Goto(c, "delete") ELSE Raise(c)
  /\ UNCHANGED <<world, rows, batch, dir, failures>>

\* Rows that another transaction has deleted are waited for.  The details of a task are
\* deleted before it.
DeleteChunk(c) ==
  /\ At(c, "delete") /\ Targets(c) # {}
  /\ \E ids \in SUBSET Targets(c) :
       /\ Cardinality(ids) = Min({Chunk, Cardinality(Targets(c))})
       /\ \A d \in Cycles \ {c} : cyc[d].gone \cap ids = {}
       /\ cyc' = [cyc EXCEPT ![c].gone = @ \cup ids]
  /\ UNCHANGED <<world, rows, batch, dir, failures>>

\* The database resolves a deadlock by ending one of the transactions.
Deadlock(c) ==
  /\ \E d \in Cycles \ {c} :
       /\ At(c, "delete") /\ At(d, "delete")
       /\ Targets(c) \cap cyc[d].gone # {} /\ Targets(d) \cap cyc[c].gone # {}
  /\ Rollback(c) /\ UNCHANGED <<world, rows, batch, dir, failures>>

Purged(c) ==
  /\ At(c, "delete") /\ Targets(c) = {}
  /\ dir' = [dir EXCEPT ![cyc[c].b].manifest = "purged"]
  /\ cyc' = [cyc EXCEPT ![c].pc = "commit", ![c].manifest = "purged",
                        ![c].row = InState(@, "purged")]
  /\ UNCHANGED <<world, rows, batch, failures>>

CommitCycle(c) ==
  /\ At(c, "commit")
  /\ rows' = rows \ cyc[c].gone /\ details' = details \ cyc[c].gone
  /\ batch' = IF cyc[c].row = NoBatch THEN batch
              ELSE [batch EXCEPT ![cyc[c].b] = cyc[c].row]
  /\ cyc' = [cyc EXCEPT ![c] = NoCycle]
  /\ UNCHANGED <<age, open, acked, born, dir, failures>>

\* The process dies or the database refuses a statement.
Abort(c) ==
  /\ ~At(c, "idle") /\ Failure /\ Rollback(c)
  /\ UNCHANGED <<world, rows, batch, dir>>

Step(c) ==
  \/ Fetch(c) \/ Export(c) \/ Refuse(c) \/ Promote(c) \/ Verified(c) \/ Check(c)
  \/ DeleteChunk(c) \/ Deadlock(c) \/ Purged(c) \/ CommitCycle(c)

ArchiveNext ==
  \/ \E r \in Records : Insert(r)
  \/ NextMonth \/ SessionCloses \/ (\E e \in Events : Consume(e))
  \/ \E c \in Cycles : \/ \E b \in Batches, by \in Callers :
                            \/ Resume(c, b, by)
                            \/ \E how \in Ways, passed \in {0, acked} :
                                 NewCycle(c, b, by, how, passed)
                       \/ Step(c) \/ BadWrite(c) \/ Abort(c)

ArchiveInit ==
  /\ age = 0 /\ open \in BOOLEAN /\ acked = 0 /\ born = {} /\ details = {}
  /\ rows = {} /\ failures = 0
  /\ batch = [b \in Batches |-> NoBatch] /\ dir = [b \in Batches |-> NoDir]
  /\ cyc = [c \in Cycles |-> NoCycle]

ArchiveSpec == ArchiveInit /\ [][ArchiveNext]_archiveVars

(* Properties *)

Steps == {"idle", "events", "others", "export", "verify", "promoted", "check", "delete",
          "commit"}

\* What is registered, on the disk and in the hands of a cycle is of its type.
ArchiveTypeOK ==
  /\ age \in 0..(Threshold + 1) /\ open \in BOOLEAN /\ acked \in {0} \cup Events
  /\ born \subseteq Records /\ rows \subseteq born
  /\ details \subseteq Tasks /\ failures \in 0..MaxFailures
  /\ batch \in [Batches -> BatchRow \cup {NoBatch}]
  /\ dir \in [Batches -> [place : {"none", "staging", "final"}, data : SUBSET born,
                         manifest : States \cup {"torn"}]]
  /\ cyc \in [Cycles -> [pc : Steps, by : Callers, dry : BOOLEAN, purge : BOOLEAN,
                         passed : Nat, b : Batches \cup {NoBatch}, resumed : BOOLEAN,
                         data : SUBSET born, manifest : States \cup {"torn"},
                         row : BatchRow \cup {NoBatch}, gone : SUBSET born]]

\* What the exporter reads of a record (an event, the row of a task, a device event) is
\* in the tables or in a directory in its final place, wherever cycles fail, whoever
\* commits what they have done, and although two of them may delete the same rows.  The
\* details of a task are there exactly as long as it is: those of a purged one are nowhere.
NothingLost ==
  /\ \A r \in born \ rows : \E b \in Batches : dir[b].place = "final" /\ r \in dir[b].data
  /\ details = rows \cap Tasks

\* A row leaves the tables only when the month has no open session and, if it is
\* an event, when its consumers have got it.
PurgeSettled ==
  [][\A r \in rows \ rows' : ~open /\ (r \in Events => r <= acked)]_archiveVars

=============================================================================
