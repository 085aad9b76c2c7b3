-------------------------- MODULE ArchiveCycleProofs --------------------------
(***************************************************************************)
(* That the archive loses nothing and deletes nothing too early, for any   *)
(* number of cycles, batches and records, for every order in which cycles  *)
(* fail, and whoever commits what they have done.                          *)
(*                                                                         *)
(* Nothing is added to a month that may be archived.  So the first         *)
(* directory that reaches its final place holds every record there ever    *)
(* was, and nobody writes to it again; rows are only deleted when there is *)
(* one.  What a batch says of cursors stays true, for consumers do not go  *)
(* back; and a batch without events was made when there were none.         *)
(***************************************************************************)
EXTENDS ArchiveCycle, FiniteSetTheorems, WellFoundedInduction, TLAPS

Covered(r) == \E b \in Batches : dir[b].place = "final" /\ r \in dir[b].data
Archived   == \E b \in Batches : dir[b].place = "final"

\* Every record is in a final directory as soon as there is one, and rows are
\* only missing then.
Kept ==
  /\ Archived => age >= 1 /\ \A r \in born : Covered(r)
  /\ rows # born => Archived

\* Where the directory of a cycle is, and that a new one has it for itself.
Placed(c) ==
  /\ At(c, "idle") => cyc[c] = NoCycle
  /\ ~At(c, "idle") => age >= 1 /\ cyc[c].b \in Batches
  /\ cyc[c].pc \in {"events", "others", "export"} =>
       dir[cyc[c].b].place = "none" /\ ~cyc[c].resumed /\ cyc[c].gone = {}
  /\ cyc[c].pc \in {"verify", "promoted"} => ~cyc[c].resumed
  /\ cyc[c].pc \in {"verify", "promoted", "check", "delete"} => cyc[c].row \in BatchRow
  /\ cyc[c].pc \in {"promoted", "check", "delete"} => dir[cyc[c].b].place = "final"
  /\ ~At(c, "idle") /\ ~cyc[c].resumed =>
       batch[cyc[c].b] = NoBatch /\ \A d \in Cycles \ {c} : cyc[d].b # cyc[c].b
  /\ cyc[c].gone # {} => Archived

\* What a cycle has read is everything, but for what others have archived.
Fetched(c) ==
  /\ At(c, "others") => \A r \in born \cap Events : r \in cyc[c].data \/ Covered(r)
  /\ cyc[c].pc \in {"export", "verify"} => \A r \in born : r \in cyc[c].data \/ Covered(r)
  /\ cyc[c].pc \in {"others", "export"} => rows \cap Events \subseteq cyc[c].data

\* The cursors of a batch; without events it was made when there were none.
Sound(row) ==
  row \in BatchRow => /\ age >= 1 /\ row.passed <= acked
                      /\ row.through = 0 => rows \cap Events = {}

\* A cycle deletes what may go.
Settled(c) ==
  /\ cyc[c].passed <= acked
  /\ At(c, "delete") => ~open /\ CursorsPassed(cyc[c].row)
  /\ \A r \in cyc[c].gone : ~open /\ (r \in Events => r <= acked)

IndInv ==
  /\ ArchiveTypeOK /\ Kept
  /\ \A c \in Cycles : Placed(c) /\ Fetched(c) /\ Sound(cyc[c].row) /\ Settled(c)
  /\ \A b \in Batches : Sound(batch[b])

-----------------------------------------------------------------------------
(* Cursors *)

LEMMA NatMinimum ==
  ASSUME NEW T, T \subseteq Nat, T # {}
  PROVE  \E x \in T : \A y \in T : x <= y
<1> DEFINE R == {p \in Nat \X Nat : p[1] < p[2]}
<1>0. R = OpToRel(<, Nat)
  BY Zenon DEF OpToRel
<1>1. IsWellFoundedOn(R, Nat)
  BY <1>0, NatLessThanWellFounded, Zenon
<1>2. PICK x \in T : \A y \in T : ~ (<<y, x>> \in R)
  <2> HIDE DEF R
  <2> QED BY <1>1, WFMin
<1>3. ASSUME NEW y \in T PROVE x <= y
  <2>1. ~(<<y, x>> \in Nat \X Nat /\ <<y, x>>[1] < <<y, x>>[2])
    BY <1>2
  <2>2. x \in Nat /\ y \in Nat
    OBVIOUS
  <2> QED BY <2>1, <2>2
<1> QED BY <1>3

\* A set without a maximum would have one with fewer elements.
LEMMA MaxOfCursors ==
  ASSUME NEW S, S \subseteq Nat, S # {}, IsFiniteSet(S)
  PROVE  Max(S) \in S /\ \A x \in S : Max(S) >= x
<1> DEFINE HasMax(Q) == \E x \in Q : \A y \in Q : x >= y
           Bad == {Q \in SUBSET S : Q # {} /\ ~HasMax(Q)}
           Sizes == {Cardinality(Q) : Q \in Bad}
<1>1. Bad = {}
  <2> SUFFICES ASSUME Bad # {} PROVE FALSE
    OBVIOUS
  <2>1. \A Q \in Bad : IsFiniteSet(Q) /\ Cardinality(Q) \in Nat
    BY FS_Subset, FS_CardinalityType
  <2>2. Sizes \subseteq Nat /\ Sizes # {}
    BY <2>1
  <2>3. PICK n \in Sizes : \A m \in Sizes : n <= m
    BY <2>2, NatMinimum
  <2>4. PICK Q \in Bad : Cardinality(Q) = n
    OBVIOUS
  <2>5. PICK x \in Q : TRUE
    OBVIOUS
  <2>6. Cardinality(Q \ {x}) = n - 1 /\ n \in Nat
    BY <2>1, <2>4, <2>5, FS_RemoveElement
  <2>7. Q \ {x} \notin Bad
    <3>1. Q \ {x} \in Bad => Cardinality(Q \ {x}) \in Sizes
      OBVIOUS
    <3>2. n - 1 \notin Sizes
      <4> HIDE DEF Sizes
      <4> QED BY <2>3, <2>6
    <3> QED BY <2>6, <3>1, <3>2
  <2>8. HasMax(Q)
    <3>1. CASE Q \ {x} = {}
      BY <2>5, <3>1
    <3>2. CASE HasMax(Q \ {x})
      <4>1. PICK m \in Q \ {x} : \A y \in Q \ {x} : m >= y
        BY <3>2
      <4>2. x \in Nat /\ m \in Nat /\ \A y \in Q : y \in Nat
        BY <2>5
      <4>3. CASE m >= x
        BY <4>1, <4>3
      <4>4. CASE ~(m >= x)
        <5>1. ASSUME NEW y \in Q PROVE x >= y
          BY <4>1, <4>2, <4>4
        <5> QED BY <2>5, <5>1
      <4> QED BY <4>3, <4>4
    <3> QED BY <2>7, <3>1, <3>2
  <2> QED BY <2>4, <2>8
<1>2. HasMax(S)
  BY <1>1
<1> QED BY <1>2 DEF Max

\* The last cursor of what was exported is 0 when no event was.
LEMMA LastCursor ==
  ASSUME NEW c \in Cycles, cyc[c].passed \in Nat
  PROVE  /\ NewBatch(c) \in BatchRow /\ NewBatch(c).passed = cyc[c].passed
         /\ NewBatch(c).through = 0 => cyc[c].data \cap Events = {}
<1> DEFINE S == cyc[c].data \cap Events
<1>1. IsFiniteSet(S) /\ S \subseteq Nat \ {0}
  BY ArchiveAssumption, FS_Subset
<1>2. CASE S = {}
  BY <1>2 DEF NewBatch, BatchRow, States
<1>3. CASE S # {}
  <2>1. Max(S) \in S
    BY <1>1, <1>3, MaxOfCursors
  <2>2. Max(S) \in Nat /\ Max(S) # 0
    BY <1>1, <2>1
  <2> HIDE DEF S
  <2>3. NewBatch(c) = [state |-> "prepared", payload |-> "prepared", passed |-> cyc[c].passed,
                       through |-> Max(S)]
    BY <1>3 DEF NewBatch, S
  <2> QED BY <2>2, <2>3 DEF BatchRow, States
<1> QED BY <1>2, <1>3

-----------------------------------------------------------------------------
(* Steps of a cycle that move no directory and write no row *)

CycleType ==
  [pc : Steps, by : Callers, dry : BOOLEAN, purge : BOOLEAN, passed : Nat,
   b : Batches \cup {NoBatch}, resumed : BOOLEAN, data : SUBSET born,
   manifest : States \cup {"torn"}, row : BatchRow \cup {NoBatch}, gone : SUBSET born]

\* Only manifests change.
SameDirs ==
  /\ dir' \in [Batches -> [place : {"none", "staging", "final"}, data : SUBSET born,
                          manifest : States \cup {"torn"}]]
  /\ \A b \in Batches : dir'[b].place = dir[b].place /\ dir'[b].data = dir[b].data

LEMMA SameDirsKeep ==
  ASSUME SameDirs, UNCHANGED born
  PROVE  (Archived' <=> Archived) /\ \A r \in born : Covered(r)' <=> Covered(r)
BY DEF SameDirs, Archived, Covered

LEMMA CycleStep ==
  ASSUME IndInv, NEW c \in Cycles, NEW k, k \in CycleType,
         cyc' = [cyc EXCEPT ![c] = k], SameDirs,
         UNCHANGED <<world, rows, batch>>, failures' \in 0..MaxFailures,
         Placed(c)', Fetched(c)', Sound(k.row), Settled(c)',
         \A d \in Cycles \ {c} : ~At(d, "idle") /\ ~cyc[d].resumed => k.b # cyc[d].b
  PROVE  IndInv'
<1>1. cyc'[c] = k /\ \A d \in Cycles \ {c} : cyc'[d] = cyc[d]
  BY DEF IndInv, ArchiveTypeOK
<1>2. ArchiveTypeOK'
  BY DEF IndInv, ArchiveTypeOK, CycleType, SameDirs, world
<1>3. /\ Archived' <=> Archived
      /\ \A r \in born : Covered(r)' <=> Covered(r)
      /\ UNCHANGED <<age, open, acked, born, details, rows, batch>>
  BY SameDirsKeep DEF world
<1>4. Kept'
  BY <1>3 DEF IndInv, Kept
<1>5. ASSUME NEW d \in Cycles \ {c}
      PROVE  Placed(d)' /\ Fetched(d)' /\ Sound(cyc[d].row)' /\ Settled(d)'
  <2>1. Placed(d) /\ Fetched(d) /\ Sound(cyc[d].row) /\ Settled(d)
    BY DEF IndInv
  <2>2. cyc[d].b \in Batches => dir'[cyc[d].b].place = dir[cyc[d].b].place
    BY DEF SameDirs
  <2>3. Placed(d)'
    BY <1>1, <1>3, <2>1, <2>2 DEF Placed, At
  <2>4. Fetched(d)' /\ Sound(cyc[d].row)' /\ Settled(d)'
    BY <1>1, <1>3, <2>1 DEF Fetched, At, Sound, Settled, CursorsPassed
  <2> QED BY <2>3, <2>4
<1>6. Sound(cyc[c].row)' /\ \A b \in Batches : Sound(batch[b])'
  BY <1>1, <1>3 DEF IndInv, Sound
<1> QED BY <1>1, <1>2, <1>4, <1>5, <1>6 DEF IndInv

\* A cycle that is rolled back has read and deleted nothing.
LEMMA RollbackKeeps ==
  ASSUME IndInv, NEW c \in Cycles, Rollback(c), SameDirs,
         UNCHANGED <<world, rows, batch>>, failures' \in 0..MaxFailures
  PROVE  IndInv'
<1>1. cyc' = [cyc EXCEPT ![c] = NoCycle] /\ cyc'[c] = NoCycle
  BY DEF Rollback, IndInv, ArchiveTypeOK
<1>2. NoCycle \in CycleType
  BY DEF NoCycle, CycleType, Steps, Callers
<1>3. /\ NoCycle.pc = "idle" /\ NoCycle.gone = {} /\ NoCycle.passed = 0 /\ NoCycle.row = NoBatch
      /\ NoCycle.b = NoBatch
  BY DEF NoCycle
<1>4. Placed(c)' /\ Fetched(c)' /\ Settled(c)'
  BY <1>1, <1>3, ArchiveAssumption DEF Placed, Fetched, Settled, At, IndInv, ArchiveTypeOK, world
<1>5. Sound(NoCycle.row)
  BY <1>3, ArchiveAssumption DEF Sound
<1>6. \A d \in Cycles \ {c} : ~At(d, "idle") /\ ~cyc[d].resumed => NoCycle.b # cyc[d].b
  BY <1>3, ArchiveAssumption DEF IndInv, Placed
<1> QED
  BY <1>1, <1>2, <1>4, <1>5, <1>6, CycleStep

\* After an exception the cycle is over, or commits what it has deleted.
LEMMA RaiseKeeps ==
  ASSUME IndInv, NEW c \in Cycles, cyc[c].pc \in {"verify", "promoted", "check", "delete"},
         Raise(c), SameDirs, UNCHANGED <<world, rows, batch>>, failures' \in 0..MaxFailures
  PROVE  IndInv'
<1> DEFINE k == cyc[c]
           marked == IF k.row = NoBatch \/ k.resumed THEN NoBatch ELSE InState(k.row, "failed")
           new == [k EXCEPT !.pc = "commit", !.row = marked]
<1>1. CASE k.by = "api"
  BY <1>1, RollbackKeeps DEF Raise
<1>2. CASE k.by # "api"
  <2>0. k \in CycleType /\ cyc' = [cyc EXCEPT ![c] = new]
    BY <1>2 DEF Raise, IndInv, ArchiveTypeOK, CycleType
  <2>1. /\ Placed(c) /\ Settled(c) /\ Sound(k.row) /\ k.pc # "idle"
    BY DEF IndInv
  <2>2. marked \in BatchRow \cup {NoBatch} /\ Sound(marked)
    <3>1. CASE marked = NoBatch
      BY <3>1, ArchiveAssumption DEF Sound
    <3>2. CASE marked # NoBatch
      <4>1. k.row \in BatchRow /\ marked = [k.row EXCEPT !.state = "failed"]
        BY <2>0, <3>2 DEF CycleType, InState
      <4>2. marked \in BatchRow /\ marked.passed = k.row.passed /\ marked.through = k.row.through
        BY <4>1 DEF BatchRow, States
      <4> QED BY <2>1, <4>1, <4>2 DEF Sound
    <3> QED BY <3>1, <3>2
  <2> HIDE DEF marked
  <2>3. /\ new \in CycleType /\ new.pc = "commit" /\ new.row = marked /\ new.b = k.b
        /\ new.resumed = k.resumed /\ new.gone = k.gone /\ new.passed = k.passed
    <3> HIDE DEF k
    <3> QED BY <2>0, <2>2 DEF CycleType, Steps
  <2> HIDE DEF new, k
  <2>4. cyc'[c] = new /\ \A d \in Cycles \ {c} : cyc'[d] = cyc[d]
    BY <2>0 DEF IndInv, ArchiveTypeOK
  <2>5. Placed(c)'
    BY <2>1, <2>3, <2>4, SameDirsKeep DEF Placed, At, world, k
  <2>6. Fetched(c)' /\ Settled(c)'
    BY <2>1, <2>3, <2>4 DEF Fetched, Settled, At, world, k
  <2>7. \A d \in Cycles \ {c} : ~At(d, "idle") /\ ~cyc[d].resumed => new.b # cyc[d].b
    BY <2>3 DEF IndInv, Placed, k
  <2> QED BY <2>0, <2>2, <2>3, <2>5, <2>6, <2>7, CycleStep
<1> QED BY <1>1, <1>2

LEMMA StartKeeps ==
  ASSUME IndInv, NEW c \in Cycles, NEW b \in Batches, NEW by \in Callers,
         \/ Resume(c, b, by)
         \/ \E how \in Ways, passed \in {0, acked} : NewCycle(c, b, by, how, passed)
  PROVE  IndInv'
<1>0. age >= 1 /\ acked \in Nat /\ SameDirs /\ failures' \in 0..MaxFailures
      /\ UNCHANGED <<world, rows, batch>>
  <2>1. age >= Threshold + 1 /\ UNCHANGED <<world, rows, batch, dir, failures>>
    BY DEF Resume, NewCycle, Callable, OldEnough
  <2>2. age >= 1 /\ acked \in Nat
    BY <2>1, ArchiveAssumption DEF IndInv, ArchiveTypeOK
  <2>3. SameDirs /\ failures' \in 0..MaxFailures
    BY <2>1 DEF IndInv, ArchiveTypeOK, SameDirs, world
  <2> QED BY SMTT(60), <2>1, <2>2, <2>3
<1>1. CASE Resume(c, b, by)
  <2> DEFINE k == [NoCycle EXCEPT !.pc = "check", !.by = by, !.purge = TRUE, !.b = b,
                     !.resumed = TRUE, !.row = batch[b], !.manifest = batch[b].payload]
  <2>1. cyc' = [cyc EXCEPT ![c] = k] /\ batch[b] # NoBatch /\ dir[b].place = "final"
    BY <1>1 DEF Resume, Resumable, WithState
  <2>2. batch[b] \in BatchRow /\ Sound(batch[b])
    BY <2>1 DEF IndInv, ArchiveTypeOK
  <2>3. /\ k \in CycleType /\ k.pc = "check" /\ k.row = batch[b] /\ k.b = b /\ k.resumed
        /\ k.gone = {} /\ k.passed = 0
    BY <2>2 DEF NoCycle, CycleType, Steps, BatchRow, States, Callers
  <2> HIDE DEF k
  <2>4. cyc'[c] = k
    BY <2>1 DEF IndInv, ArchiveTypeOK
  <2>5. Placed(c)' /\ Fetched(c)' /\ Settled(c)'
    <3>1. dir' = dir
      BY <1>1 DEF Resume
    <3>2. Placed(c)'
      BY <1>0, <2>1, <2>2, <2>3, <2>4, <3>1 DEF Placed, At, world
    <3>3. Fetched(c)' /\ Settled(c)'
      BY <1>0, <2>3, <2>4 DEF Fetched, Settled, At, world
    <3> QED BY <3>2, <3>3
  <2>6. \A d \in Cycles \ {c} : ~At(d, "idle") /\ ~cyc[d].resumed => k.b # cyc[d].b
    BY <2>1, <2>3 DEF IndInv, Placed
  <2> QED BY <1>0, <2>1, <2>2, <2>3, <2>5, <2>6, CycleStep
<1>2. ASSUME NEW how \in Ways, NEW passed \in {0, acked}, NewCycle(c, b, by, how, passed)
      PROVE  IndInv'
  <2> DEFINE k == [NoCycle EXCEPT !.pc = "events", !.by = by, !.dry = how = "dry_run",
                     !.purge = how = "purge", !.passed = passed, !.b = b]
  <2>1. /\ cyc' = [cyc EXCEPT ![c] = k] /\ batch[b] = NoBatch /\ dir[b].place = "none"
        /\ \A d \in Cycles : cyc[d].b # b
    BY <1>2 DEF NewCycle, Drawn
  <2>2. /\ k \in CycleType /\ k.pc = "events" /\ k.row = NoBatch /\ k.b = b /\ ~k.resumed
        /\ k.gone = {} /\ k.passed = passed /\ passed \in Nat /\ passed <= acked
    <3>1. passed \in Nat /\ passed <= acked
      BY <1>0, <1>2
    <3> QED BY ZenonT(90), <3>1 DEF NoCycle, CycleType, Steps
  <2> HIDE DEF k
  <2>3. cyc'[c] = k /\ \A d \in Cycles \ {c} : cyc'[d] = cyc[d]
    BY <2>1 DEF IndInv, ArchiveTypeOK
  <2>4. Placed(c)' /\ Fetched(c)' /\ Settled(c)'
    BY ZenonT(90), <1>0, <1>2, <2>1, <2>2, <2>3 DEF NewCycle, Placed, Fetched, Settled, At, world
  <2>5. Sound(k.row)
    BY <2>2, ArchiveAssumption DEF Sound
  <2>6. \A d \in Cycles \ {c} : ~At(d, "idle") /\ ~cyc[d].resumed => k.b # cyc[d].b
    BY <2>1, <2>2
  <2> QED BY <1>0, <2>1, <2>2, <2>4, <2>5, <2>6, CycleStep
<1> QED BY <1>1, <1>2

LEMMA FetchKeeps ==
  ASSUME IndInv, NEW c \in Cycles, Fetch(c)
  PROVE  IndInv'
<1>0. /\ UNCHANGED <<world, rows, batch>> /\ SameDirs /\ failures' \in 0..MaxFailures
      /\ Placed(c) /\ Fetched(c) /\ Settled(c) /\ Sound(cyc[c].row) /\ cyc[c] \in CycleType
      /\ rows \subseteq born
  BY DEF Fetch, IndInv, ArchiveTypeOK, SameDirs, CycleType
<1>1. \A r \in born \ rows : Covered(r)
  BY DEF IndInv, Kept
<1>2. ASSUME NEW read \in SUBSET born, NEW next \in {"others", "export"},
             cyc' = [cyc EXCEPT ![c].pc = next, ![c].data = read],
             cyc[c].pc \in {"events", "others"},
             \A r \in born \cap Events : r \in read \/ Covered(r),
             next = "export" => \A r \in born : r \in read \/ Covered(r),
             rows \cap Events \subseteq read
      PROVE  IndInv'
  <2> DEFINE k == [cyc[c] EXCEPT !.pc = next, !.data = read]
  <2>1. cyc' = [cyc EXCEPT ![c] = k]
    BY <1>2 DEF IndInv, ArchiveTypeOK
  <2>2. /\ k \in CycleType /\ k.pc = next /\ k.data = read /\ k.row = cyc[c].row
        /\ k.b = cyc[c].b /\ k.resumed = cyc[c].resumed /\ k.gone = cyc[c].gone
        /\ k.passed = cyc[c].passed
    BY <1>0, <1>2 DEF CycleType, Steps
  <2> HIDE DEF k
  <2>3. cyc'[c] = k /\ \A d \in Cycles \ {c} : cyc'[d] = cyc[d]
    BY <2>1 DEF IndInv, ArchiveTypeOK
  <2>4. Placed(c)'
    BY ZenonT(90), <1>0, <1>2, <2>2, <2>3, SameDirsKeep DEF Placed, At, world, Fetch
  <2>5. Settled(c)'
    BY <1>0, <1>2, <2>2, <2>3 DEF Settled, At, world
  <2>6. Fetched(c)'
    BY <1>0, <1>2, <2>2, <2>3, SameDirsKeep DEF Fetched, At, world
  <2>7. \A d \in Cycles \ {c} : ~At(d, "idle") /\ ~cyc[d].resumed => k.b # cyc[d].b
    BY <1>2, <2>2 DEF IndInv, Placed, At
  <2> QED BY <1>0, <2>1, <2>2, <2>4, <2>5, <2>6, <2>7, CycleStep
<1>3. CASE At(c, "events") /\ cyc' = [cyc EXCEPT ![c].pc = "others", ![c].data = rows \cap Events]
  BY <1>0, <1>1, <1>2, <1>3 DEF At
<1>4. CASE At(c, "others") /\ cyc' = [cyc EXCEPT ![c].pc = "export", ![c].data = @ \cup (rows \cap Others)]
  <2> DEFINE read == cyc[c].data \cup (rows \cap Others)
  <2>1. cyc' = [cyc EXCEPT ![c].pc = "export", ![c].data = read]
    BY <1>4 DEF IndInv, ArchiveTypeOK
  <2>2. read \subseteq born /\ rows \cap Events \subseteq read
    BY <1>0, <1>4 DEF Fetched, At, CycleType
  <2>3. \A r \in born : r \in Events \cup Others
    BY DEF IndInv, ArchiveTypeOK, Records
  <2>4. \A r \in born : r \in read \/ Covered(r)
    BY <1>0, <1>1, <1>4, <2>3 DEF Fetched
  <2> HIDE DEF read
  <2> QED BY <1>2, <1>4, <2>1, <2>2, <2>4 DEF At
<1> QED BY <1>3, <1>4 DEF Fetch

\* The manifest of the directory of a cycle is written anew.
LEMMA ManifestOnly ==
  ASSUME IndInv, NEW b \in Batches, NEW m \in States \cup {"torn"},
         dir' = [dir EXCEPT ![b].manifest = m], UNCHANGED born
  PROVE  SameDirs
<1>1. dir[b] \in [place : {"none", "staging", "final"}, data : SUBSET born,
                  manifest : States \cup {"torn"}]
  BY DEF IndInv, ArchiveTypeOK
<1>2. dir' = [dir EXCEPT ![b] = [dir[b] EXCEPT !.manifest = m]]
  BY DEF IndInv, ArchiveTypeOK
<1> QED BY SMTT(60), <1>1, <1>2 DEF SameDirs, IndInv, ArchiveTypeOK

LEMMA FailureKeeps ==
  ASSUME IndInv, NEW c \in Cycles,
         Refuse(c) \/ BadWrite(c) \/ Deadlock(c) \/ Abort(c) \/ (Check(c) /\ Raise(c))
  PROVE  IndInv'
<1>0. /\ UNCHANGED <<world, rows, batch>> /\ failures' \in 0..MaxFailures
      /\ ~At(c, "idle") => cyc[c].b \in Batches
  BY ArchiveAssumption
     DEF Refuse, BadWrite, Deadlock, Abort, Check, Failure, IndInv, ArchiveTypeOK, Placed
<1>1. dir' = dir => SameDirs
  BY <1>0 DEF IndInv, ArchiveTypeOK, SameDirs, world
<1>2. CASE Refuse(c)
  <2>1. SameDirs
    BY <1>0, <1>1, <1>2, ManifestOnly DEF Refuse, MarkStaging, At, world, States
  <2> QED BY <1>0, <1>2, <2>1, RaiseKeeps DEF Refuse, At
<1>3. CASE BadWrite(c)
  <2>1. SameDirs /\ cyc[c].pc \in {"promoted", "delete"}
    BY <1>0, <1>3, ManifestOnly DEF BadWrite, At, world
  <2> QED BY <1>0, <1>3, <2>1, RaiseKeeps DEF BadWrite
<1>4. CASE Deadlock(c) \/ Abort(c)
  BY <1>0, <1>1, <1>4, RollbackKeeps DEF Deadlock, Abort
<1>5. CASE Check(c) /\ Raise(c)
  BY <1>0, <1>1, <1>5, RaiseKeeps DEF Check, At
<1> QED BY <1>2, <1>3, <1>4, <1>5

\* A step to another state of the cycle with another row and the same batch.
LEMMA NextStepKeeps ==
  ASSUME IndInv, NEW c \in Cycles, ~At(c, "idle"), NEW pc \in {"check", "delete", "commit"},
         NEW row \in BatchRow, Sound(row), NEW m \in States \cup {"torn"},
         NEW gone \in SUBSET born,
         cyc' = [cyc EXCEPT ![c].pc = pc, ![c].manifest = m, ![c].row = row, ![c].gone = gone],
         SameDirs, UNCHANGED <<world, rows, batch, failures>>,
         dir[cyc[c].b].place = "final",
         pc = "delete" => ~open /\ CursorsPassed(row),
         \A r \in gone : ~open /\ (r \in Events => r <= acked)
  PROVE  IndInv'
<1> DEFINE k == [cyc[c] EXCEPT !.pc = pc, !.manifest = m, !.row = row, !.gone = gone]
<1>0. cyc[c] \in CycleType /\ Placed(c) /\ Settled(c)
  BY DEF IndInv, ArchiveTypeOK, CycleType
<1>1. cyc' = [cyc EXCEPT ![c] = k]
  BY DEF IndInv, ArchiveTypeOK
<1>2. /\ k \in CycleType /\ k.pc = pc /\ k.row = row /\ k.b = cyc[c].b
      /\ k.resumed = cyc[c].resumed /\ k.gone = gone /\ k.passed = cyc[c].passed
  BY ZenonT(90), <1>0 DEF CycleType, Steps
<1> HIDE DEF k
<1>3. cyc'[c] = k /\ \A d \in Cycles \ {c} : cyc'[d] = cyc[d]
  BY <1>1 DEF IndInv, ArchiveTypeOK
<1>4. Archived /\ cyc[c].b \in Batches
  BY <1>0 DEF Placed, Archived
<1>5. dir'[cyc[c].b].place = "final" /\ Archived'
  BY SMTT(60), <1>4, SameDirsKeep DEF SameDirs, world
<1>6. Placed(c)'
  BY <1>0, <1>2, <1>3, <1>5 DEF Placed, At, world
<1>7. Fetched(c)' /\ Settled(c)'
  BY <1>0, <1>2, <1>3 DEF Fetched, Settled, At, world, CursorsPassed
<1>8. \A d \in Cycles \ {c} : ~At(d, "idle") /\ ~cyc[d].resumed => k.b # cyc[d].b
  BY <1>2 DEF IndInv, Placed
<1>9. failures' \in 0..MaxFailures
  BY DEF IndInv, ArchiveTypeOK
<1> QED BY <1>1, <1>2, <1>6, <1>7, <1>8, <1>9, CycleStep

LEMMA VerifiedKeeps ==
  ASSUME IndInv, NEW c \in Cycles, Verified(c) \/ Purged(c)
  PROVE  IndInv'
<1> DEFINE k == cyc[c]
<1>0. /\ k.pc \in {"promoted", "delete"} /\ UNCHANGED <<world, rows, batch, failures>>
      /\ Placed(c) /\ Settled(c) /\ Sound(k.row) /\ k \in CycleType
  BY DEF Verified, Purged, At, IndInv, ArchiveTypeOK, CycleType
<1>1. k.row \in BatchRow /\ k.b \in Batches /\ dir[k.b].place = "final"
  BY <1>0 DEF Placed, At
<1>2. ASSUME NEW st \in {"verified", "purged"}
      PROVE  InState(k.row, st) \in BatchRow /\ Sound(InState(k.row, st))
  <2>1. /\ InState(k.row, st) \in BatchRow /\ InState(k.row, st).passed = k.row.passed
        /\ InState(k.row, st).through = k.row.through
    BY SMTT(60), <1>1 DEF InState, BatchRow, States
  <2> QED BY <1>0, <1>1, <2>1 DEF Sound
<1>3. SameDirs
  BY SMTT(60), <1>0, <1>1, ManifestOnly DEF Verified, Purged, States, world
<1>4. ASSUME NEW pc \in {"check", "commit"}, NEW st \in {"verified", "purged"},
             cyc' = [cyc EXCEPT ![c].pc = pc, ![c].manifest = st, ![c].row = InState(@, st)]
      PROVE  IndInv'
  <2>1. cyc' = [cyc EXCEPT ![c].pc = pc, ![c].manifest = st, ![c].row = InState(k.row, st),
                           ![c].gone = k.gone]
    BY ZenonT(90), <1>0, <1>4 DEF IndInv, ArchiveTypeOK, CycleType
  <2>2. k.gone \in SUBSET born /\ \A r \in k.gone : ~open /\ (r \in Events => r <= acked)
    BY <1>0 DEF Settled, CycleType
  <2>3. ~At(c, "idle") /\ st \in States \cup {"torn"}
    BY <1>0 DEF At, States
  <2> QED BY <1>0, <1>1, <1>2, <1>3, <2>1, <2>2, <2>3, NextStepKeeps
<1>5. CASE Verified(c)
  BY <1>4, <1>5 DEF Verified
<1>6. CASE Purged(c)
  BY <1>4, <1>6 DEF Purged
<1> QED BY <1>5, <1>6

LEMMA CheckKeeps ==
  ASSUME IndInv, NEW c \in Cycles, Check(c)
  PROVE  IndInv'
<1> DEFINE k == cyc[c]
<1>0. /\ k.pc = "check" /\ UNCHANGED <<world, rows, batch, dir, failures>>
      /\ Placed(c) /\ Settled(c) /\ Sound(k.row) /\ k \in CycleType
  BY DEF Check, At, IndInv, ArchiveTypeOK, CycleType
<1>1. CASE Raise(c)
  BY SMTT(60), <1>1, FailureKeeps
<1>2. CASE CursorsPassed(k.row) /\ NoActive /\ Goto(c, "delete")
  <2>1. cyc' = [cyc EXCEPT ![c].pc = "delete", ![c].manifest = k.manifest,
                           ![c].row = k.row, ![c].gone = k.gone]
    BY <1>0, <1>2 DEF Goto, IndInv, ArchiveTypeOK, CycleType
  <2>2. k.row \in BatchRow /\ k.b \in Batches /\ dir[k.b].place = "final"
    BY <1>0 DEF Placed, At
  <2>3. /\ k.gone \in SUBSET born /\ \A r \in k.gone : ~open /\ (r \in Events => r <= acked)
        /\ k.manifest \in States \cup {"torn"} /\ ~open /\ ~At(c, "idle")
    BY <1>0, <1>2 DEF Settled, CycleType, NoActive, At
  <2>4. SameDirs
    BY SMTT(60), <1>0 DEF IndInv, ArchiveTypeOK, SameDirs, world
  <2> QED BY <1>0, <1>2, <2>1, <2>2, <2>3, <2>4, NextStepKeeps
<1> QED BY <1>1, <1>2 DEF Check

\* What is deleted lies below the cursors; were there no events on the batch,
\* there are none in the tables.
LEMMA DeleteKeeps ==
  ASSUME IndInv, NEW c \in Cycles, DeleteChunk(c)
  PROVE  IndInv'
<1> DEFINE k == cyc[c]
<1>0. /\ k.pc = "delete" /\ UNCHANGED <<world, rows, batch, dir, failures>>
      /\ Placed(c) /\ Settled(c) /\ Sound(k.row) /\ k \in CycleType /\ rows \subseteq born
  BY DEF DeleteChunk, At, IndInv, ArchiveTypeOK, CycleType
<1>1. PICK ids \in SUBSET Targets(c) : cyc' = [cyc EXCEPT ![c].gone = @ \cup ids]
  BY DEF DeleteChunk
<1>2. /\ k.row \in BatchRow /\ k.b \in Batches /\ dir[k.b].place = "final"
      /\ CursorsPassed(k.row) /\ ~open
  BY <1>0 DEF Placed, Settled, At
<1>3. cyc' = [cyc EXCEPT ![c].pc = "delete", ![c].manifest = k.manifest,
                         ![c].row = k.row, ![c].gone = k.gone \cup ids]
  BY ZenonT(90), <1>0, <1>1 DEF IndInv, ArchiveTypeOK, CycleType
<1>4. ASSUME NEW r \in Targets(c)
      PROVE  r \in born /\ (r \in Events => r <= acked)
  <2>1. r \in Visible(c) /\ (r \in Events => k.row.through = 0 \/ r <= k.row.through)
    BY ArchiveAssumption DEF Targets
  <2>2. r \in rows
    BY <2>1 DEF Visible
  <2>3. ASSUME r \in Events PROVE r <= acked
    <3>1. k.row.passed <= acked /\ (k.row.through = 0 => rows \cap Events = {})
      BY <1>0, <1>2 DEF Sound
    <3>2. k.row.through # 0 /\ r <= k.row.through /\ k.row.passed >= k.row.through
      BY <1>2, <2>1, <2>2, <2>3, <3>1 DEF CursorsPassed
    <3>3. /\ r \in Nat /\ acked \in Nat /\ k.row.passed \in Nat /\ k.row.through \in Nat
      BY <1>2, <2>3, ArchiveAssumption DEF BatchRow, IndInv, ArchiveTypeOK
    <3> QED BY <3>1, <3>2, <3>3
  <2> QED BY <1>0, <2>2, <2>3
<1>5. /\ k.gone \cup ids \in SUBSET born
      /\ \A r \in k.gone \cup ids : ~open /\ (r \in Events => r <= acked)
      /\ k.manifest \in States \cup {"torn"} /\ ~At(c, "idle")
  BY <1>0, <1>2, <1>4 DEF Settled, CycleType, At
<1>6. SameDirs
  BY <1>0 DEF IndInv, ArchiveTypeOK, SameDirs, world
<1> QED BY <1>0, <1>2, <1>3, <1>5, <1>6, NextStepKeeps

-----------------------------------------------------------------------------
(* Steps that move a directory, write rows, or are not of a cycle *)

\* A new directory changes nothing that was archived.
LEMMA ExportKeeps ==
  ASSUME IndInv, NEW c \in Cycles, Export(c)
  PROVE  IndInv'
<1> DEFINE k == cyc[c]
<1>0. /\ k.pc = "export" /\ UNCHANGED <<world, rows, batch>>
      /\ UNCHANGED <<age, open, acked, born, details>> /\ failures' \in 0..MaxFailures
      /\ Placed(c) /\ Fetched(c) /\ Settled(c) /\ k \in CycleType
  BY ArchiveAssumption DEF Export, At, Failure, world, IndInv, ArchiveTypeOK, CycleType
<1>1. PICK data \in SUBSET k.data :
        dir' = [dir EXCEPT ![k.b] = [place |-> "staging", data |-> data, manifest |-> "prepared"]]
  BY DEF Export
<1> DEFINE pc == IF k.dry THEN "commit" ELSE "verify"
           new == [k EXCEPT !.pc = pc, !.manifest = "prepared", !.row = NewBatch(c)]
<1>2. cyc' = [cyc EXCEPT ![c] = new]
  BY DEF Export, IndInv, ArchiveTypeOK
<1>3. /\ k.b \in Batches /\ dir[k.b].place = "none" /\ ~k.resumed /\ batch[k.b] = NoBatch
      /\ \A d \in Cycles \ {c} : cyc[d].b # k.b
  BY <1>0 DEF Placed, At
<1>4. /\ NewBatch(c) \in BatchRow /\ NewBatch(c).passed = k.passed
      /\ NewBatch(c).through = 0 => k.data \cap Events = {}
  BY <1>0, LastCursor DEF CycleType
<1>5. /\ new \in CycleType /\ new.pc \in {"commit", "verify"} /\ new.row = NewBatch(c)
      /\ new.b = k.b /\ new.resumed = k.resumed /\ new.gone = k.gone
      /\ new.passed = k.passed /\ new.data = k.data
  BY <1>0, <1>4 DEF CycleType, Steps, States
<1>6. Sound(NewBatch(c))
  BY <1>0, <1>4 DEF Sound, Fetched, Placed, At, Settled
<1> HIDE DEF new, k
<1>7. cyc'[c] = new /\ \A d \in Cycles \ {c} : cyc'[d] = cyc[d]
  BY <1>2 DEF IndInv, ArchiveTypeOK
<1>8. /\ dir' \in [Batches -> [place : {"none", "staging", "final"}, data : SUBSET born,
                              manifest : States \cup {"torn"}]]
      /\ dir'[k.b].place = "staging"
      /\ \A b \in Batches \ {k.b} : dir'[b] = dir[b]
  <2>1. [place |-> "staging", data |-> data, manifest |-> "prepared"]
          \in [place : {"none", "staging", "final"}, data : SUBSET born,
               manifest : States \cup {"torn"}]
    BY <1>0 DEF CycleType, States, k
  <2> QED BY <1>1, <1>3, <2>1 DEF IndInv, ArchiveTypeOK
<1>9. /\ Archived' <=> Archived
      /\ \A r \in born : Covered(r)' <=> Covered(r)
  BY <1>3, <1>8 DEF Archived, Covered
<1>10. ArchiveTypeOK'
  BY <1>0, <1>2, <1>5, <1>8 DEF IndInv, ArchiveTypeOK, CycleType
<1>11. Kept'
  BY <1>0, <1>9 DEF IndInv, Kept
<1>12. /\ Placed(c)' /\ Fetched(c)' /\ Sound(cyc[c].row)' /\ Settled(c)'
  <2>1. Placed(c)'
    BY <1>0, <1>3, <1>4, <1>5, <1>7, <1>9 DEF Placed, At, k
  <2>2. Fetched(c)' /\ Settled(c)'
    BY <1>0, <1>5, <1>7, <1>9 DEF Fetched, Settled, At, k
  <2>3. Sound(cyc[c].row)'
    BY <1>0, <1>5, <1>6, <1>7 DEF Sound
  <2> QED BY <2>1, <2>2, <2>3
<1>13. ASSUME NEW d \in Cycles \ {c}
       PROVE  Placed(d)' /\ Fetched(d)' /\ Sound(cyc[d].row)' /\ Settled(d)'
  <2>1. Placed(d) /\ Fetched(d) /\ Sound(cyc[d].row) /\ Settled(d) /\ cyc[d].b # k.b
    BY <1>3 DEF IndInv
  <2>2. cyc[d].b \in Batches => dir'[cyc[d].b].place = dir[cyc[d].b].place
    BY <1>8, <2>1
  <2>3. \A e \in Cycles : cyc'[e].b = cyc[e].b
    BY <1>5, <1>7 DEF k
  <2>4. Placed(d)'
    BY <1>0, <1>7, <1>9, <2>1, <2>2, <2>3 DEF Placed, At
  <2>5. Fetched(d)' /\ Sound(cyc[d].row)' /\ Settled(d)'
    BY <1>0, <1>7, <1>9, <2>1 DEF Fetched, At, Sound, Settled, CursorsPassed
  <2> QED BY <2>4, <2>5
<1>14. \A b \in Batches : Sound(batch[b])'
  BY <1>0 DEF IndInv, Sound
<1> QED BY <1>10, <1>11, <1>12, <1>13, <1>14 DEF IndInv

\* With its directory in place, all that ever was is covered.
LEMMA PromoteKeeps ==
  ASSUME IndInv, NEW c \in Cycles, Promote(c)
  PROVE  IndInv'
<1> DEFINE k == cyc[c]
           new == [k EXCEPT !.pc = "promoted"]
<1>0. /\ k.pc = "verify" /\ UNCHANGED <<age, open, acked, born, details, rows, batch, failures>>
      /\ Placed(c) /\ Fetched(c) /\ Settled(c) /\ Sound(k.row) /\ k \in CycleType
      /\ dir[k.b].data = k.data /\ dir' = [dir EXCEPT ![k.b].place = "final"]
  BY DEF Promote, ChecksumHolds, At, world, IndInv, ArchiveTypeOK, CycleType
<1>1. cyc' = [cyc EXCEPT ![c] = new]
  BY DEF Promote, Goto, IndInv, ArchiveTypeOK
<1>2. /\ k.b \in Batches /\ ~k.resumed /\ batch[k.b] = NoBatch /\ k.row \in BatchRow
      /\ age >= 1 /\ \A d \in Cycles \ {c} : cyc[d].b # k.b
  BY <1>0 DEF Placed, At
<1>3. /\ new \in CycleType /\ new.pc = "promoted" /\ new.row = k.row
      /\ new.b = k.b /\ new.resumed = k.resumed /\ new.gone = k.gone
      /\ new.passed = k.passed
  BY <1>0 DEF CycleType, Steps
<1> HIDE DEF new, k
<1>4. cyc'[c] = new /\ \A d \in Cycles \ {c} : cyc'[d] = cyc[d]
  BY <1>1 DEF IndInv, ArchiveTypeOK
<1>5. /\ dir' \in [Batches -> [place : {"none", "staging", "final"}, data : SUBSET born,
                              manifest : States \cup {"torn"}]]
      /\ dir'[k.b].place = "final" /\ dir'[k.b].data = k.data
      /\ \A b \in Batches \ {k.b} : dir'[b] = dir[b]
  <2> DEFINE D == [place : {"none", "staging", "final"}, data : SUBSET born,
                   manifest : States \cup {"torn"}]
  <2>1. dir[k.b] \in D /\ dir \in [Batches -> D]
    BY <1>2 DEF IndInv, ArchiveTypeOK
  <2>2. [dir[k.b] EXCEPT !.place = "final"] \in D
    BY <2>1
  <2>3. dir' = [dir EXCEPT ![k.b] = [dir[k.b] EXCEPT !.place = "final"]]
    BY <1>0, <1>2, <2>1
  <2> QED BY <1>0, <1>2, <2>1, <2>2, <2>3
<1>6. Archived' /\ \A r \in born : Covered(r)'
  <2>1. Archived'
    BY <1>2, <1>5 DEF Archived
  <2>2. ASSUME NEW r \in born PROVE Covered(r)'
    <3>1. CASE r \in k.data
      BY <1>2, <1>5, <3>1 DEF Covered
    <3>2. CASE Covered(r)
      <4>1. PICK b \in Batches : dir[b].place = "final" /\ r \in dir[b].data
        BY <3>2 DEF Covered
      <4>2. b # k.b => dir'[b] = dir[b]
        BY <1>5
      <4>3. b = k.b => r \in k.data
        BY <1>0, <4>1
      <4> QED BY <1>2, <1>5, <4>1, <4>2, <4>3 DEF Covered
    <3> QED BY <1>0, <3>1, <3>2 DEF Fetched, k
  <2> QED BY <2>1, <2>2
<1>7. ArchiveTypeOK'
  BY <1>0, <1>1, <1>3, <1>5 DEF IndInv, ArchiveTypeOK, CycleType
<1>8. Kept'
  BY <1>0, <1>2, <1>6 DEF IndInv, Kept
<1>9. Placed(c)' /\ Fetched(c)' /\ Sound(cyc[c].row)' /\ Settled(c)'
  <2>1. Placed(c)'
    BY <1>0, <1>2, <1>3, <1>4, <1>5, <1>6 DEF Placed, At, k
  <2>2. Fetched(c)' /\ Settled(c)' /\ Sound(cyc[c].row)'
    BY <1>0, <1>3, <1>4 DEF Fetched, Settled, At, Sound, k
  <2> QED BY SMTT(60), <2>1, <2>2
<1>10. ASSUME NEW d \in Cycles \ {c}
       PROVE  Placed(d)' /\ Fetched(d)' /\ Sound(cyc[d].row)' /\ Settled(d)'
  <2>1. Placed(d) /\ Fetched(d) /\ Sound(cyc[d].row) /\ Settled(d) /\ cyc[d].b # k.b
    BY <1>2 DEF IndInv
  <2>2. cyc[d].b \in Batches => dir'[cyc[d].b].place = dir[cyc[d].b].place
    BY <1>5, <2>1
  <2>3. \A e \in Cycles : cyc'[e].b = cyc[e].b
    BY <1>3, <1>4 DEF k
  <2>4. Placed(d)'
    BY <1>0, <1>4, <1>6, <2>1, <2>2, <2>3 DEF Placed, At
  <2>5. Fetched(d)' /\ Sound(cyc[d].row)' /\ Settled(d)'
    BY <1>0, <1>4, <1>6, <2>1 DEF Fetched, At, Sound, Settled, CursorsPassed
  <2> QED BY <2>4, <2>5
<1>11. \A b \in Batches : Sound(batch[b])'
  BY <1>0 DEF IndInv, Sound
<1> QED BY <1>7, <1>8, <1>9, <1>10, <1>11 DEF IndInv

LEMMA CommitKeeps ==
  ASSUME IndInv, NEW c \in Cycles, CommitCycle(c)
  PROVE  IndInv'
<1> DEFINE k == cyc[c]
<1>0. /\ k.pc = "commit" /\ UNCHANGED <<age, open, acked, born, dir, failures>>
      /\ rows' = rows \ k.gone /\ details' = details \ k.gone
      /\ cyc' = [cyc EXCEPT ![c] = NoCycle]
      /\ batch' = IF k.row = NoBatch THEN batch ELSE [batch EXCEPT ![k.b] = k.row]
      /\ Placed(c) /\ Sound(k.row) /\ k \in CycleType /\ rows \subseteq born
  BY DEF CommitCycle, At, world, IndInv, ArchiveTypeOK, CycleType
<1>1. k.b \in Batches /\ (k.gone # {} => Archived)
  BY <1>0 DEF Placed, At
<1>2. /\ cyc'[c] = NoCycle /\ \A d \in Cycles \ {c} : cyc'[d] = cyc[d]
      /\ NoCycle.pc = "idle" /\ NoCycle.b = NoBatch /\ NoCycle.gone = {} /\ NoCycle.passed = 0
      /\ NoCycle.row = NoBatch
  BY <1>0 DEF IndInv, ArchiveTypeOK, NoCycle
<1>3. NoCycle \in CycleType
  BY DEF NoCycle, CycleType, Steps, Callers
<1>4. Archived' = Archived /\ \A r \in born : Covered(r)' = Covered(r)
  BY <1>0 DEF Archived, Covered
<1>5. ArchiveTypeOK'
  <2>1. cyc' \in [Cycles -> CycleType]
    BY <1>0, <1>3 DEF IndInv, ArchiveTypeOK, CycleType
  <2>2. batch' \in [Batches -> BatchRow \cup {NoBatch}]
    BY <1>0 DEF IndInv, ArchiveTypeOK, CycleType
  <2> QED BY <1>0, <2>1, <2>2 DEF IndInv, ArchiveTypeOK, CycleType
<1>6. \A b \in Batches \ {k.b} : batch'[b] = batch[b]
  BY <1>0
<1>7. rows' \subseteq rows
  BY <1>0
<1>8. ASSUME NEW row, Sound(row) PROVE Sound(row)'
  BY <1>0, <1>7, <1>8 DEF Sound
<1>9. \A b \in Batches : Sound(batch[b])'
  <2>1. ASSUME NEW b \in Batches PROVE Sound(batch'[b])
    BY <1>0, <1>6 DEF IndInv, ArchiveTypeOK
  <2> QED BY <1>0, <1>7, <2>1 DEF Sound
<1> HIDE DEF k
<1>10. Kept'
  BY <1>0, <1>1, <1>4 DEF IndInv, Kept
<1>11. Placed(c)' /\ Fetched(c)' /\ Sound(cyc[c].row)' /\ Settled(c)'
  BY <1>0, <1>2, ArchiveAssumption DEF Placed, Fetched, Sound, Settled, At, IndInv, ArchiveTypeOK
<1>12. ASSUME NEW d \in Cycles \ {c}
       PROVE  Placed(d)' /\ Fetched(d)' /\ Sound(cyc[d].row)' /\ Settled(d)'
  <2>1. Placed(d) /\ Fetched(d) /\ Sound(cyc[d].row) /\ Settled(d)
    BY DEF IndInv
  <2>2. ~At(d, "idle") /\ ~cyc[d].resumed =>
          /\ batch'[cyc[d].b] = NoBatch
          /\ \A e \in Cycles \ {d} : cyc'[e].b # cyc[d].b
    BY <1>2, <1>6, <2>1, ArchiveAssumption DEF Placed, k
  <2>3. Placed(d)'
    BY <1>0, <1>2, <1>4, <2>1, <2>2 DEF Placed, At
  <2>4. Fetched(d)' /\ Sound(cyc[d].row)' /\ Settled(d)'
    BY <1>0, <1>2, <1>4, <1>7, <2>1 DEF Fetched, At, Sound, Settled, CursorsPassed
  <2> QED BY <2>3, <2>4
<1> QED BY <1>5, <1>9, <1>10, <1>11, <1>12 DEF IndInv

\* A record is only added to the current month, which has no batch and no cycle.
LEMMA WorldKeeps ==
  ASSUME IndInv, \/ \E r \in Records : Insert(r)
                 \/ NextMonth \/ SessionCloses \/ \E e \in Events : Consume(e)
  PROVE  IndInv'
<1>0. UNCHANGED <<batch, dir, cyc, failures>>
  BY DEF Insert, NextMonth, SessionCloses, Consume
<1>1. CASE \E r \in Records : Insert(r)
  <2>1. PICK r \in Records : /\ age = 0 /\ born' = born \cup {r} /\ rows' = rows \cup {r}
                             /\ UNCHANGED <<age, open, acked>>
                             /\ details' = details \cup ({r} \cap Tasks)
    BY <1>1 DEF Insert
  <2>2. ArchiveTypeOK'
    BY <1>0, <2>1 DEF IndInv, ArchiveTypeOK
  <2>3. ~Archived /\ rows = born
    BY <2>1 DEF IndInv, Kept
  <2>4. Kept'
    BY <1>0, <2>1, <2>3 DEF Kept, Archived
  <2>5. ASSUME NEW c \in Cycles
        PROVE  Placed(c)' /\ Fetched(c)' /\ Sound(cyc[c].row)' /\ Settled(c)'
    <3>1. Placed(c) /\ Settled(c) /\ Sound(cyc[c].row)
      BY DEF IndInv
    <3>2. At(c, "idle") /\ cyc[c] = NoCycle /\ ~(cyc[c].row \in BatchRow)
      BY <2>1, <3>1 DEF Placed, Sound
    <3> QED BY <1>0, <2>1, <3>1, <3>2 DEF Placed, Fetched, Sound, Settled, At, Archived, NoCycle
  <2>6. \A b \in Batches : Sound(batch[b])'
    BY <1>0, <2>1 DEF IndInv, Sound
  <2> QED BY <2>2, <2>4, <2>5, <2>6 DEF IndInv
<1>2. CASE NextMonth \/ SessionCloses \/ \E e \in Events : Consume(e)
  <2>1. /\ UNCHANGED <<born, rows, details>> /\ age' \in 0..(Threshold + 1) /\ age' >= age
        /\ open' \in {open, FALSE}
        /\ acked' \in {0} \cup Events /\ acked' >= acked
    <3>1. /\ age \in 0..(Threshold + 1) /\ open \in BOOLEAN /\ acked \in {0} \cup Events
          /\ Threshold \in Nat /\ Events \subseteq Nat
      BY ArchiveAssumption DEF IndInv, ArchiveTypeOK
    <3>2. CASE NextMonth
      BY <3>1, <3>2 DEF NextMonth
    <3>3. CASE SessionCloses
      <4>1. /\ UNCHANGED <<born, rows, details, age, acked>> /\ open' = FALSE
        BY <3>3 DEF SessionCloses
      <4>2. age' \in 0..(Threshold + 1) /\ age' >= age /\ acked' \in {0} \cup Events
            /\ acked' >= acked
        BY <3>1, <4>1
      <4>3. open' \in {open, FALSE}
        BY <4>1, Zenon
      <4> QED BY <4>1, <4>2, <4>3
    <3>4. ASSUME NEW e \in Events, Consume(e) PROVE acked' \in Events /\ acked' >= acked
      BY <3>1, <3>4 DEF Consume
    <3>5. CASE \E e \in Events : Consume(e)
      BY <3>1, <3>4, <3>5 DEF Consume
    <3> QED BY <1>2, <3>2, <3>3, <3>5
  <2>2. ArchiveTypeOK'
    BY <1>0, <2>1 DEF IndInv, ArchiveTypeOK
  <2>3. /\ age \in Nat /\ age' \in Nat /\ acked \in Nat /\ acked' \in Nat /\ Events \subseteq Nat
    BY <2>1, ArchiveAssumption DEF IndInv, ArchiveTypeOK
  <2>4. Kept'
    BY <1>0, <2>1, <2>3 DEF IndInv, Kept, Archived, Covered
  <2>5. ASSUME NEW row, Sound(row) PROVE Sound(row)'
    <3>1. row \in BatchRow => row.passed \in Nat
      BY DEF BatchRow
    <3> QED BY <1>0, <2>1, <2>3, <2>5, <3>1 DEF Sound
  <2>6. ASSUME NEW c \in Cycles
        PROVE  Placed(c)' /\ Fetched(c)' /\ Sound(cyc[c].row)' /\ Settled(c)'
    <3>1. Placed(c) /\ Fetched(c) /\ Settled(c) /\ Sound(cyc[c].row) /\ cyc[c].passed \in Nat
      BY DEF IndInv, ArchiveTypeOK
    <3>2. Placed(c)' /\ Fetched(c)'
      BY <1>0, <2>1, <2>3, <3>1 DEF Placed, Fetched, At, Archived, Covered
    <3>3. Settled(c)'
      <4>1. cyc[c].passed <= acked'
        BY <2>1, <2>3, <3>1 DEF Settled
      <4>2. \A r \in cyc[c].gone : ~open' /\ (r \in Events => r <= acked')
        <5> SUFFICES ASSUME NEW r \in cyc[c].gone
                     PROVE  ~open' /\ (r \in Events => r <= acked')
          OBVIOUS
        <5>1. ~open /\ (r \in Events => r <= acked)
          BY <3>1 DEF Settled
        <5>2. ~open'
          BY <2>1, <5>1
        <5>3. r \in Events => r <= acked'
          BY <2>1, <2>3, <5>1
        <5> QED BY <5>2, <5>3
      <4>3. At(c, "delete") => ~open' /\ CursorsPassed(cyc[c].row)
        BY <2>1, <3>1 DEF Settled
      <4> QED BY <1>0, <4>1, <4>2, <4>3 DEF Settled, At, CursorsPassed
    <3>4. Sound(cyc[c].row)'
      BY <1>0, <2>5, <3>1 DEF Sound
    <3> QED BY <3>2, <3>3, <3>4
  <2>7. \A b \in Batches : Sound(batch[b])'
    BY <1>0, <2>5 DEF IndInv, Sound
  <2> QED BY <2>2, <2>4, <2>6, <2>7 DEF IndInv
<1> QED BY <1>1, <1>2

-----------------------------------------------------------------------------
(* Theorems *)

LEMMA Inductive == IndInv /\ [ArchiveNext]_archiveVars => IndInv'
<1> SUFFICES ASSUME IndInv, [ArchiveNext]_archiveVars PROVE IndInv'
  OBVIOUS
<1>1. ASSUME NEW c \in Cycles, Step(c) PROVE IndInv'
  <2>1. CASE Check(c)
    BY <2>1, CheckKeeps
  <2> QED
    BY <1>1, <2>1, FetchKeeps, ExportKeeps, FailureKeeps, PromoteKeeps, VerifiedKeeps, DeleteKeeps,
       CommitKeeps DEF Step
<1>2. CASE UNCHANGED archiveVars
  <2>1. UNCHANGED <<age, open, acked, born, details, rows, batch, dir, cyc, failures>>
    BY <1>2 DEF archiveVars
  <2>2. ArchiveTypeOK' /\ Kept'
    BY <2>1 DEF IndInv, ArchiveTypeOK, Kept, Archived, Covered
  <2>3. \A b \in Batches : Sound(batch[b])'
    BY <2>1 DEF IndInv, Sound
  <2>4. \A c \in Cycles : Placed(c)' /\ Fetched(c)' /\ Sound(cyc[c].row)' /\ Settled(c)'
    BY <2>1 DEF IndInv, Placed, Fetched, Sound, Settled, At, Archived, Covered, CursorsPassed
  <2> QED BY <2>2, <2>3, <2>4 DEF IndInv
<1> QED BY <1>1, <1>2, WorldKeeps, StartKeeps, FailureKeeps DEF ArchiveNext

LEMMA Invariance == ArchiveSpec => []IndInv
<1>1. ArchiveInit => IndInv
  <2> SUFFICES ASSUME ArchiveInit PROVE IndInv
    OBVIOUS
  <2>1. /\ cyc = [c \in Cycles |-> NoCycle] /\ dir = [b \in Batches |-> NoDir]
        /\ batch = [b \in Batches |-> NoBatch] /\ born = {} /\ rows = {} /\ acked = 0 /\ age = 0
    BY DEF ArchiveInit
  <2>2. ArchiveTypeOK
    <3>1. NoCycle \in CycleType
      BY DEF NoCycle, CycleType, Steps, Callers
    <3> QED BY <2>1, <3>1, ArchiveAssumption DEF ArchiveInit, ArchiveTypeOK, CycleType, NoDir
  <2>3. Kept
    BY <2>1 DEF Kept, Archived, NoDir
  <2>4. \A c \in Cycles : Placed(c) /\ Fetched(c) /\ Sound(cyc[c].row) /\ Settled(c)
    BY <2>1, ArchiveAssumption DEF Placed, Fetched, Sound, Settled, At, NoCycle
  <2>5. \A b \in Batches : Sound(batch[b])
    BY <2>1, ArchiveAssumption DEF Sound
  <2> QED BY <2>2, <2>3, <2>4, <2>5 DEF IndInv
<1> QED BY <1>1, Inductive, PTL DEF ArchiveSpec

\* What is registered, on the disk and in the hands of a cycle has its type.
THEOREM TypeCorrect == ArchiveSpec => []ArchiveTypeOK
BY Invariance, PTL DEF IndInv

\* The details of a task come and go with it.
DetailsKept == details = rows \cap Tasks

LEMMA DetailsStay == ArchiveSpec => []DetailsKept
<1>1. ArchiveInit => DetailsKept
  BY DEF ArchiveInit, DetailsKept
<1>2. DetailsKept /\ [ArchiveNext]_archiveVars => DetailsKept'
  <2> SUFFICES ASSUME DetailsKept, [ArchiveNext]_archiveVars PROVE DetailsKept'
    OBVIOUS
  <2>1. ASSUME NEW r \in Records, Insert(r) PROVE DetailsKept'
    BY <2>1 DEF Insert, DetailsKept
  <2>2. ASSUME NEW c \in Cycles, CommitCycle(c) PROVE DetailsKept'
    BY <2>2 DEF CommitCycle, DetailsKept
  <2>3. CASE UNCHANGED archiveVars
    BY <2>3 DEF archiveVars, DetailsKept
  <2>4. \/ \E r \in Records : Insert(r)
        \/ \E c \in Cycles : CommitCycle(c)
        \/ UNCHANGED <<rows, details>>
        \/ UNCHANGED archiveVars
    BY ZenonT(90)
    DEF ArchiveNext, NextMonth, SessionCloses, Consume, Resume, NewCycle, Step, Fetch,
        Export, Refuse, Promote, BadWrite, Verified, Check, DeleteChunk, Deadlock, Purged,
        Abort, world
  <2> QED BY <2>1, <2>2, <2>3, <2>4 DEF DetailsKept
<1> QED BY <1>1, <1>2, PTL DEF ArchiveSpec

\* A record that is not in the tables any more is in a directory in its final
\* place, wherever cycles fail and whoever commits what they have done.
THEOREM ArchiveKeepsAll == ArchiveSpec => []NothingLost
<1>1. IndInv /\ DetailsKept => NothingLost
  <2> SUFFICES ASSUME IndInv, NEW r \in born \ rows PROVE Covered(r)
    BY DEF NothingLost, Covered, DetailsKept
  <2> QED BY DEF IndInv, Kept
<1> QED BY <1>1, Invariance, DetailsStay, PTL

\* A row leaves the tables only when its month has no open session and, if it
\* is an event, when its consumers have got it.
THEOREM PurgeIsSettled == ArchiveSpec => PurgeSettled
<1> DEFINE Gone == \A r \in rows \ rows' : ~open /\ (r \in Events => r <= acked)
<1>1. IndInv /\ [ArchiveNext]_archiveVars => [Gone]_archiveVars
  <2> SUFFICES ASSUME IndInv, ArchiveNext PROVE Gone
    OBVIOUS
  <2>1. ASSUME NEW c \in Cycles, CommitCycle(c) PROVE Gone
    BY SMTT(60), <2>1 DEF CommitCycle, IndInv, Settled
  <2>2. rows \subseteq rows' \/ \E c \in Cycles : CommitCycle(c)
    BY ZenonT(90)
    DEF ArchiveNext, Insert, NextMonth, SessionCloses, Consume, Resume, NewCycle, Step, Fetch, Export,
           Refuse, Promote, BadWrite, Verified, Check, DeleteChunk, Deadlock, Purged, Abort
  <2> QED BY <2>1, <2>2
<1> QED BY <1>1, Invariance, PTL DEF ArchiveSpec, PurgeSettled
=============================================================================
