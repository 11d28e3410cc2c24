--------------------------- MODULE TrainRunProofs ---------------------------
(***************************************************************************)
(* Proofs about TrainRun: for every number of iterations, batch size, save *)
(* period, layout and legacy checkpoint, a run and the files it leaves     *)
(* stay coherent across skips, snapshots, kills and resumes.               *)
(***************************************************************************)
EXTENDS TrainRun, FiniteSetTheorems, TLAPS

-----------------------------------------------------------------------------
(* The inductive invariant *)

\* A launch is only accepted when its iterations fit the bound.
Position ==
  pc \in Running => start <= iter /\ iter <= start + NIters /\ start + NIters <= MaxIter

\* What is being saved, and that a snapshot follows a step.
JobFits ==
  pc \in {"open", "write"} =>
    \/ job = Final /\ iter = start + NIters
    \/ job # Final /\ job = iter /\ start < iter /\ iter - 1 \in model.body

\* While a file grows it holds the state of the process that writes it.
FileInProgress ==
  pc = "write" => /\ disk[job].cut \in {"header", "short", "base"}
                  /\ disk[job].ck = Snapshot

\* A numbered source lies at or before the first iteration of the run.
SourceBehind == pc \in Running /\ src \in Names \ {Final} => src <= start

\* checkpoint.bin is rewritten by the final save only.
BaseFileKept ==
  pc \in Running /\ src = Final /\ (pc = "loop" \/ job # Final) => Readable(disk[Final])

\* The layouts found on disk.
LayoutsSaved ==
  \A n \in Names : disk[n].cut # "absent" =>
    disk[n].ck.groups \in {ModelGroups(FALSE), BaseGroups}

IInv ==
  /\ TypeOK
  /\ StreamAligned
  /\ MomentsMatchWeights
  /\ SnapshotsCoherent
  /\ SourceKept
  /\ Position
  /\ JobFits
  /\ FileInProgress
  /\ SourceBehind
  /\ BaseFileKept
  /\ LayoutsSaved

-----------------------------------------------------------------------------
(* Facts about the data *)

\* Sets of iterations are finite, so that counting them makes sense.
LEMMA IterSetsFinite ==
  ASSUME NEW S \in SUBSET Iters
  PROVE  IsFiniteSet(S) /\ Cardinality(S) \in Nat
<1>1. IsFiniteSet(Iters)
  <2>1. MaxIter - 1 \in Int /\ 0 \in Int
    BY TrainRunAssumption
  <2>2. IsFiniteSet(0 .. MaxIter - 1)
    BY <2>1, FS_Interval
  <2> QED
    BY <2>2 DEF Iters
<1>2. IsFiniteSet(S)
  BY <1>1, FS_Subset
<1> QED
  BY <1>2, FS_CardinalityType

\* One more batch moves the generator from the place of iteration i to the
\* place of iteration i + 1.
LEMMA NextBatch ==
  ASSUME NEW i \in Nat
  PROVE  BatchSize * i \in Nat /\ DrawBatch(BatchSize * i) = BatchSize * (i + 1)
  BY TrainRunAssumption DEF DrawBatch

\* A run started from nothing has the types of a run.
LEMMA FreshTypes ==
  /\ InitWeights \in Weights
  /\ FreshAdam \in Moments
  /\ FreshAdam.t = Cardinality(FreshAdam.seen)
  BY FS_EmptySet DEF InitWeights, FreshAdam, Weights, Moments

\* Every parameter layout is a set of groups.
LEMMA LayoutTypes ==
  BaseGroups \in SUBSET Groups /\ \A b \in BOOLEAN : ModelGroups(b) \in SUBSET Groups
  BY DEF BaseGroups, ModelGroups, Groups

\* A file of an older version is a file, and a coherent one.
LEMMA OldFileCoherent ==
  ASSUME NEW k \in OldIters, NEW S \in SUBSET Iters, S \subseteq 0 .. k - 1
  PROVE  /\ OldFile(k, S) \in File
         /\ CheckpointCoherent(Final, OldFile(k, S).ck)
         /\ OldFile(k, S).ck.groups = BaseGroups
<1>1. Cardinality(S) \in Nat
  BY IterSetsFinite
<1>2. k \in 0 .. MaxIter /\ k \in Nat
  BY TrainRunAssumption
<1>3. BatchSize * k \in Nat
  BY <1>2, NextBatch
<1>4. OldFile(k, S) \in File
  BY <1>1, <1>2, <1>3, LayoutTypes
  DEF OldFile, File, Cuts, Checkpoint, Weights, Moments
<1> QED
  BY <1>4 DEF OldFile, CheckpointCoherent, Final

\* A missing file has the type of a file.
LEMMA NoFileType == NoFile \in File
  BY FreshTypes, TrainRunAssumption DEF NoFile, File, Cuts, Checkpoint, Groups

-----------------------------------------------------------------------------
(* The initial states *)

\* The invariant holds when nothing was launched yet.
LEMMA InitIInv ==
  ASSUME Init
  PROVE  IInv
<1> USE DEF Init
<1>1. disk \in [Names -> File]
      /\ SnapshotsCoherent /\ LayoutsSaved
  <2>1. CASE disk = [n \in Names |-> NoFile]
    BY <2>1, NoFileType DEF SnapshotsCoherent, LayoutsSaved, NoFile
  <2>2. ASSUME NEW k \in OldIters, NEW S \in SUBSET Iters, S \subseteq 0 .. k - 1,
               disk = [n \in Names |-> IF n = Final THEN OldFile(k, S) ELSE NoFile]
        PROVE  disk \in [Names -> File] /\ SnapshotsCoherent /\ LayoutsSaved
    <3>1. /\ OldFile(k, S) \in File
          /\ CheckpointCoherent(Final, OldFile(k, S).ck)
          /\ OldFile(k, S).ck.groups = BaseGroups
      BY <2>2, OldFileCoherent
    <3>2. \A n \in Names \ {Final} : disk[n].cut = "absent"
      BY <2>2 DEF NoFile
    <3>3. disk[Final] = OldFile(k, S) /\ Final \in Names
      BY <2>2, TrainRunAssumption DEF Names, Final
    <3>4. disk \in [Names -> File]
      BY <2>2, <3>1, NoFileType
    <3> QED
      BY <3>1, <3>2, <3>3, <3>4 DEF SnapshotsCoherent, LayoutsSaved
  <2> QED
    BY <2>1, <2>2 DEF InitDisk
<1>2. TypeOK
  BY <1>1, FreshTypes, TrainRunAssumption DEF TypeOK, Idle, Names, None, Final
<1> QED
  BY <1>1, <1>2
  DEF IInv, StreamAligned, MomentsMatchWeights, SourceKept, Position, JobFits,
      FileInProgress, SourceBehind, BaseFileKept, Running

-----------------------------------------------------------------------------
(* Facts about one iteration and one save *)

\* A step adds one iteration, not seen before, to weights and moments.
LEMMA StepMatches ==
  ASSUME TypeOK, MomentsMatchWeights, pc \in Running, iter \in Iters,
         NEW poisoned \in BOOLEAN
  PROVE  LET w == Trained(model, iter, poisoned)
             a == AdamStep(opt, iter)
         IN  /\ w \in Weights /\ a \in Moments
             /\ a.seen = w.ext
             /\ a.t = Cardinality(a.seen)
             /\ w.ext \subseteq w.body
             /\ w.body \subseteq 0 .. iter
             /\ iter \in w.body
<1> DEFINE w == Trained(model, iter, poisoned)
           a == AdamStep(opt, iter)
<1>1. /\ model \in Weights /\ opt \in Moments /\ iter \in Nat
      /\ opt.seen = model.ext /\ opt.t = Cardinality(opt.seen)
      /\ model.ext \subseteq model.body /\ model.body \subseteq 0 .. iter - 1
  BY TrainRunAssumption DEF TypeOK, MomentsMatchWeights
<1>2. w \in Weights /\ w.ext = model.ext \cup {iter} /\ w.body = model.body \cup {iter}
  BY <1>1 DEF Trained, Weights
<1>3. a \in Moments /\ a.seen = opt.seen \cup {iter} /\ a.t = opt.t + 1
  BY <1>1 DEF AdamStep, Moments
<1>4. iter \notin opt.seen
  BY <1>1
<1>5. IsFiniteSet(opt.seen)
  BY <1>1, IterSetsFinite DEF Moments
<1>6. Cardinality(opt.seen \cup {iter}) = Cardinality(opt.seen) + 1
  BY <1>4, <1>5, FS_AddElement
<1>7. a.t = Cardinality(a.seen)
  BY <1>1, <1>3, <1>6
<1>8. w.body \subseteq 0 .. iter
  BY <1>1, <1>2
<1> HIDE DEF w, a
<1>9. a.seen = w.ext /\ w.ext \subseteq w.body /\ iter \in w.body
  BY <1>1, <1>2, <1>3
<1> QED
  BY <1>2, <1>3, <1>7, <1>8, <1>9 DEF w, a

\* The file being written is a checkpoint that describes one moment of the run.
LEMMA SnapshotCoherent ==
  ASSUME IInv, pc \in {"open", "write"}
  PROVE  /\ Snapshot \in Checkpoint
         /\ CheckpointCoherent(job, Snapshot)
         /\ Snapshot.groups = ModelGroups(FALSE)
<1>1. /\ rng = BatchSize * iter /\ Position /\ JobFits /\ TypeOK /\ MomentsMatchWeights
      /\ pc \in Running
  BY DEF IInv, StreamAligned, Running
<1>2. SavedIter = iter /\ iter \in 0 .. MaxIter
  BY <1>1 DEF SavedIter, JobFits, TypeOK
<1>3. SavedOpt \in Moments /\ SavedOpt.t = Cardinality(SavedOpt.seen)
      /\ (~Tied => SavedOpt = opt)
  BY <1>1, FreshTypes DEF SavedOpt, MomentsMatchWeights, TypeOK
<1>4. Snapshot.groups = ModelGroups(FALSE) /\ ModelGroups(FALSE) \in SUBSET Groups
  BY LayoutTypes DEF Snapshot, SavedGroups
<1>5. Snapshot \in Checkpoint
  BY <1>1, <1>2, <1>3, <1>4 DEF Snapshot, Checkpoint, TypeOK
<1>6. CheckpointCoherent(job, Snapshot)
  <2>1. Snapshot.iter = iter /\ Snapshot.rng = rng /\ Snapshot.model = model
        /\ Snapshot.opt = SavedOpt
    BY <1>2 DEF Snapshot
  <2>2. job # Final => iter = job /\ job - 1 \in model.body
    BY <1>1 DEF JobFits
  <2> QED
    BY <1>1, <1>3, <2>1, <2>2 DEF CheckpointCoherent, MomentsMatchWeights
<1> QED
  BY <1>4, <1>5, <1>6

-----------------------------------------------------------------------------
(* Every action preserves the invariant *)

\* The two conjuncts about files hold as long as no file changes.
LEMMA FilesUnchanged ==
  ASSUME SnapshotsCoherent, LayoutsSaved, UNCHANGED disk
  PROVE  SnapshotsCoherent' /\ LayoutsSaved'
  BY DEF SnapshotsCoherent, LayoutsSaved

\* One iteration, skipped or applied (train_loop.rs:303-713).
LEMMA IterateIInv ==
  ASSUME IInv, Iterate
  PROVE  IInv'
<1>1. /\ pc = "loop" /\ pc \in Running /\ iter < start + NIters /\ rng = BatchSize * iter
      /\ start <= iter /\ start + NIters <= MaxIter
      /\ UNCHANGED <<src, start, disk, launches>> /\ rng' = DrawBatch(rng)
  BY DEF IInv, Iterate, StreamAligned, Position, Running
<1>2. /\ iter \in Nat /\ start \in Nat /\ NIters \in Nat /\ MaxIter \in Nat
      /\ iter \in Iters /\ iter + 1 \in 0 .. MaxIter
  BY <1>1, TrainRunAssumption DEF IInv, TypeOK, Iters
<1>3. rng' = BatchSize * (iter + 1) /\ rng' \in Nat
  BY <1>1, <1>2, NextBatch
<1>4. SnapshotsCoherent' /\ LayoutsSaved'
  BY <1>1, FilesUnchanged DEF IInv
<1>5. CASE SkipStep
  <2>1. pc' = "loop" /\ iter' = iter + 1 /\ loss' = "bad" /\ UNCHANGED <<model, opt, job>>
    BY <1>1, <1>5 DEF SkipStep, AfterSkip
  <2>2. TypeOK'
    BY <1>1, <1>2, <1>3, <2>1 DEF IInv, TypeOK, Running
  <2>3. StreamAligned'
    BY <1>3, <2>1 DEF StreamAligned
  <2>4. MomentsMatchWeights'
    BY <1>1, <1>2, <2>1 DEF IInv, MomentsMatchWeights, Running
  <2>5. SourceKept' /\ BaseFileKept' /\ SourceBehind'
    BY <1>1, <2>1 DEF IInv, SourceKept, BaseFileKept, SourceBehind, Readable, Running
  <2>6. Position' /\ JobFits' /\ FileInProgress'
    BY <1>1, <1>2, <2>1 DEF Position, JobFits, FileInProgress
  <2> QED
    BY <1>4, <2>2, <2>3, <2>4, <2>5, <2>6 DEF IInv
<1>6. ASSUME NEW poisoned \in BOOLEAN, ApplyStep(poisoned)
      PROVE  IInv'
  <2>1. /\ iter' = iter + 1 /\ loss' = "finite"
        /\ model' = Trained(model, iter, poisoned) /\ opt' = AdamStep(opt, iter)
        /\ \/ pc' = "open" /\ job' = iter + 1
           \/ pc' = "loop" /\ job' = job
    BY <1>1, <1>6 DEF ApplyStep, SnapshotName
  <2>2. /\ model' \in Weights /\ opt' \in Moments /\ opt'.seen = model'.ext
        /\ opt'.t = Cardinality(opt'.seen) /\ model'.ext \subseteq model'.body
        /\ model'.body \subseteq 0 .. iter /\ iter \in model'.body
    BY <1>1, <1>2, <2>1, StepMatches DEF IInv
  <2>3. pc' \in Running /\ pc' # "write"
    BY <2>1 DEF Running
  <2>4. TypeOK'
    BY <1>1, <1>2, <1>3, <2>1, <2>2, <2>3 DEF IInv, TypeOK, Names
  <2>5. StreamAligned'
    BY <1>3, <2>1 DEF StreamAligned
  <2>6. MomentsMatchWeights'
    <3>1. 0 .. iter = 0 .. iter' - 1
      BY <1>2, <2>1
    <3> QED
      BY <2>2, <3>1 DEF MomentsMatchWeights
  <2>7. SourceKept' /\ BaseFileKept' /\ SourceBehind'
    BY <1>1, <2>1, <2>3 DEF IInv, SourceKept, BaseFileKept, SourceBehind, Readable, Running
  <2>8. Position' /\ FileInProgress'
    BY <1>1, <1>2, <2>1, <2>3 DEF Position, FileInProgress
  <2>9. JobFits'
    BY <1>1, <1>2, <2>1, <2>2 DEF JobFits, Final
  <2> QED
    BY <1>4, <2>4, <2>5, <2>6, <2>7, <2>8, <2>9 DEF IInv
<1> QED
  BY <1>5, <1>6 DEF Iterate

\* Leaving the loop turns to the final file (train_loop.rs:758-767).
LEMMA FinishLoopIInv ==
  ASSUME IInv, FinishLoop
  PROVE  IInv'
<1>1. /\ pc = "loop" /\ pc \in Running /\ iter = start + NIters /\ pc' = "open" /\ job' = Final
      /\ UNCHANGED <<src, start, iter, rng, model, opt, loss, disk, launches>>
  BY DEF FinishLoop, Running
<1>2. TypeOK'
  BY <1>1, TrainRunAssumption DEF IInv, TypeOK, Running, Names, Final
<1>3. StreamAligned' /\ MomentsMatchWeights' /\ Position'
  BY <1>1 DEF IInv, StreamAligned, MomentsMatchWeights, Position
<1>4. SourceKept' /\ BaseFileKept' /\ SourceBehind'
  BY <1>1 DEF IInv, SourceKept, BaseFileKept, SourceBehind, Readable
<1>5. JobFits' /\ FileInProgress'
  BY <1>1 DEF JobFits, FileInProgress
<1> QED
  BY <1>1, <1>2, <1>3, <1>4, <1>5, FilesUnchanged DEF IInv

\* Opening truncates one file and puts the header of the snapshot in it.
LEMMA OpenFileIInv ==
  ASSUME IInv, OpenFile
  PROVE  IInv'
<1> DEFINE f == [cut |-> "header", ck |-> Snapshot]
<1>1. /\ pc = "open" /\ pc \in Running /\ pc' = "write" /\ pc' \in Running
      /\ disk' = [disk EXCEPT ![job] = f]
      /\ UNCHANGED <<src, start, iter, rng, model, opt, loss, job, launches>>
  BY DEF OpenFile, Running
<1>2. /\ Snapshot \in Checkpoint /\ CheckpointCoherent(job, Snapshot)
      /\ Snapshot.groups = ModelGroups(FALSE)
  BY <1>1, SnapshotCoherent
<1>3. f \in File /\ job \in Names /\ disk \in [Names -> File]
  BY <1>2 DEF File, Cuts, IInv, TypeOK
<1>4. /\ disk'[job] = f /\ disk' \in [Names -> File]
      /\ \A n \in Names \ {job} : disk'[n] = disk[n]
  BY <1>1, <1>3
<1>5. TypeOK'
  BY <1>1, <1>4 DEF IInv, TypeOK
<1>6. StreamAligned' /\ MomentsMatchWeights' /\ Position' /\ JobFits' /\ SourceBehind'
  BY <1>1 DEF IInv, StreamAligned, MomentsMatchWeights, Position, JobFits, SourceBehind
<1>7. SnapshotsCoherent' /\ LayoutsSaved'
  <2>1. ASSUME NEW n \in Names, disk'[n].cut # "absent"
        PROVE  /\ CheckpointCoherent(n, disk'[n].ck)
               /\ disk'[n].ck.groups \in {ModelGroups(FALSE), BaseGroups}
    <3>1. CASE n = job
      <4>1. disk'[n].ck = Snapshot
        BY <1>4, <3>1
      <4>2. Snapshot.groups \in {ModelGroups(FALSE), BaseGroups}
        BY <1>2
      <4>3. CheckpointCoherent(n, Snapshot)
        BY <1>2, <3>1
      <4> QED
        BY <4>1, <4>2, <4>3
    <3>2. CASE n # job
      BY <1>4, <2>1, <3>2 DEF IInv, SnapshotsCoherent, LayoutsSaved
    <3> QED
      BY <3>1, <3>2
  <2> QED
    BY <2>1 DEF SnapshotsCoherent, LayoutsSaved
<1>8. FileInProgress'
  <2>1. Snapshot' = Snapshot
    BY <1>1 DEF Snapshot, SavedIter, SavedOpt
  <2> QED
    BY <1>1, <1>4, <2>1 DEF FileInProgress
<1>9. SourceKept'
  <2>1. src \in Names \ {Final} => src # job
    BY <1>1 DEF IInv, SourceBehind, JobFits, TypeOK, Names
  <2> QED
    BY <1>1, <1>4, <2>1 DEF IInv, SourceKept, Readable
<1>10. BaseFileKept'
  BY <1>1, <1>4, TrainRunAssumption DEF IInv, BaseFileKept, Readable, Names, Final
<1> QED
  BY <1>5, <1>6, <1>7, <1>8, <1>9, <1>10 DEF IInv

\* Writing on leaves the contents alone; only the length on disk changes.
LEMMA WriteMoreIInv ==
  ASSUME IInv, WriteMore
  PROVE  IInv'
<1>1. PICK c \in NextCuts(disk[job].cut) :
        /\ disk' = [disk EXCEPT ![job].cut = c]
        /\ pc' = IF c # "full" THEN "write"
                 ELSE IF job = Final THEN "done" ELSE "loop"
  BY DEF WriteMore
<1>2. /\ pc = "write" /\ pc \in Running /\ job \in Names /\ disk \in [Names -> File]
      /\ disk[job].cut \in {"header", "short", "base"} /\ disk[job].ck = Snapshot
      /\ UNCHANGED <<src, start, iter, rng, model, opt, loss, job, launches>>
  BY DEF WriteMore, IInv, FileInProgress, TypeOK, Running
<1>3. c \in {"short", "base", "full"}
  BY <1>1, <1>2 DEF NextCuts
<1>4. /\ disk' \in [Names -> File]
      /\ disk'[job].cut = c
      /\ \A n \in Names : disk'[n].ck = disk[n].ck
      /\ \A n \in Names \ {job} : disk'[n] = disk[n]
  BY <1>1, <1>2, <1>3 DEF File, Cuts
<1>5. pc' \in {"write", "loop", "done"} /\ pc' \notin {"open"}
  BY <1>1
<1>6. TypeOK'
  BY <1>2, <1>4, <1>5 DEF IInv, TypeOK, Running, Idle
<1>7. StreamAligned' /\ MomentsMatchWeights' /\ Position' /\ JobFits' /\ SourceBehind'
  BY <1>2, <1>5 DEF IInv, StreamAligned, MomentsMatchWeights, Position, JobFits, SourceBehind
<1>8. SnapshotsCoherent' /\ LayoutsSaved'
  <2>1. ASSUME NEW n \in Names, disk'[n].cut # "absent"
        PROVE  /\ CheckpointCoherent(n, disk'[n].ck)
               /\ disk'[n].ck.groups \in {ModelGroups(FALSE), BaseGroups}
    <3>1. disk[n].cut # "absent"
      BY <1>2, <1>4, <2>1
    <3> QED
      BY <1>4, <3>1 DEF IInv, SnapshotsCoherent, LayoutsSaved
  <2> QED
    BY <2>1 DEF SnapshotsCoherent, LayoutsSaved
<1>9. FileInProgress'
  <2>1. Snapshot' = Snapshot
    BY <1>2 DEF Snapshot, SavedIter, SavedOpt
  <2>2. pc' = "write" => c \in {"header", "short", "base"}
    BY <1>1, <1>3
  <2> QED
    BY <1>2, <1>4, <2>1, <2>2 DEF FileInProgress
<1>10. src \in Names \ {Final} => src # job
  BY <1>2 DEF IInv, SourceBehind, JobFits, TypeOK, Names
<1>11. Final \in Names
  BY TrainRunAssumption DEF Names, Final
<1>12. BaseFileKept'
  <2>1. pc' = "loop" => job # Final
    BY <1>1
  <2> QED
    BY <1>2, <1>4, <1>11, <2>1 DEF IInv, BaseFileKept, Readable
<1>13. SourceKept'
  BY <1>2, <1>4, <1>10, <1>12 DEF IInv, SourceKept, BaseFileKept, Readable, Running
<1> QED
  BY <1>6, <1>7, <1>8, <1>9, <1>12, <1>13 DEF IInv

\* A launch is safe when what it begins with is coherent.
LEMMA BeginIInv ==
  ASSUME IInv, Launchable,
         NEW s \in Names \cup {None}, NEW i \in 0 .. MaxIter, NEW w \in Weights, NEW a \in Moments,
         Begin(s, i, BatchSize * i, w, a),
         a.seen = w.ext, a.t = Cardinality(a.seen),
         w.ext \subseteq w.body, w.body \subseteq 0 .. i - 1,
         s \in Names => Readable(disk[s]),
         s \in Names \ {Final} => s <= i
  PROVE  IInv'
<1>1. /\ i + NIters <= MaxIter
      /\ pc' = "loop" /\ src' = s /\ start' = i /\ iter' = i
      /\ rng' = BatchSize * i /\ model' = w /\ opt' = a /\ loss' = "none" /\ job' = Final
      /\ launches' = launches + 1 /\ UNCHANGED disk
  BY DEF Begin
<1>2. launches' \in 0 .. MaxLaunches
  BY <1>1, TrainRunAssumption DEF Launchable, IInv, TypeOK
<1>3. BatchSize * i \in Nat
  BY NextBatch
<1>4. Final \in Names
  BY TrainRunAssumption DEF Names, Final
<1>5. TypeOK'
  BY <1>1, <1>2, <1>3, <1>4 DEF IInv, TypeOK, Running
<1>6. StreamAligned' /\ MomentsMatchWeights'
  BY <1>1 DEF StreamAligned, MomentsMatchWeights
<1>7. SourceKept' /\ BaseFileKept' /\ SourceBehind'
  BY <1>1, <1>4 DEF SourceKept, BaseFileKept, SourceBehind, Readable
<1>8. Position' /\ JobFits' /\ FileInProgress'
  BY <1>1, TrainRunAssumption DEF Position, JobFits, FileInProgress
<1> QED
  BY <1>1, <1>5, <1>6, <1>7, <1>8, FilesUnchanged DEF IInv

\* A fresh launch (train_loop.rs:71-79).
LEMMA StartFreshIInv ==
  ASSUME IInv, StartFresh
  PROVE  IInv'
<1>1. /\ Launchable /\ Begin(None, 0, BatchSize * 0, InitWeights, FreshAdam)
      /\ 0 \in 0 .. MaxIter /\ None \notin Names
  BY TrainRunAssumption DEF StartFresh, None, Names
<1>2. /\ FreshAdam.seen = InitWeights.ext /\ InitWeights.ext \subseteq InitWeights.body
      /\ InitWeights.body \subseteq 0 .. 0 - 1
  BY DEF FreshAdam, InitWeights
<1>3. None \in Names \cup {None}
  OBVIOUS
<1> QED
  BY <1>1, <1>2, <1>3, FreshTypes, BeginIInv

\* What a readable file hands to a launch.
LEMMA ReadableCheckpoint ==
  ASSUME IInv, NEW n \in Names, Readable(disk[n])
  PROVE  LET ck == disk[n].ck
         IN  /\ ck \in Checkpoint /\ ck.model \in Weights /\ ck.opt \in Moments
             /\ ck.iter \in 0 .. MaxIter
             /\ CheckpointCoherent(n, ck)
             /\ ck.groups \in {ModelGroups(FALSE), BaseGroups}
             /\ n # Final => n <= ck.iter
<1> DEFINE ck == disk[n].ck
<1>1. disk[n] \in File /\ disk[n].cut # "absent"
  BY DEF IInv, TypeOK, Readable
<1>2. ck \in Checkpoint /\ ck.model \in Weights /\ ck.opt \in Moments /\ ck.iter \in 0 .. MaxIter
  BY <1>1 DEF File, Checkpoint
<1>3. CheckpointCoherent(n, ck) /\ ck.groups \in {ModelGroups(FALSE), BaseGroups}
  BY <1>1 DEF IInv, SnapshotsCoherent, LayoutsSaved
<1>4. n # Final => n <= ck.iter
  BY <1>2, <1>3 DEF CheckpointCoherent, Names
<1> QED
  BY <1>2, <1>3, <1>4

\* A tied run never finds its own layout in a file.
LEMMA ResumeExtendedUntied ==
  ASSUME IInv, NEW n \in Names, ResumeExtended(n)
  PROVE  ~Tied
<1>1. Readable(disk[n]) /\ GroupsRead(disk[n]) = ModelGroups(Tied)
  BY DEF ResumeExtended
<1>2. GroupsRead(disk[n]) \in {ModelGroups(FALSE), BaseGroups}
  BY <1>1, ReadableCheckpoint DEF GroupsRead
<1>3. "temperature" \notin ModelGroups(FALSE) /\ "temperature" \notin BaseGroups
  BY DEF ModelGroups, BaseGroups
<1>4. Tied => "temperature" \in ModelGroups(Tied)
  BY TrainRunAssumption DEF ModelGroups
<1> QED
  BY <1>1, <1>2, <1>3, <1>4

\* A launch from a file of the full layout (train_loop.rs:40-42, 57-64).
LEMMA ResumeExtendedIInv ==
  ASSUME IInv, NEW n \in Names, ResumeExtended(n)
  PROVE  IInv'
<1> DEFINE ck == disk[n].ck
<1>1. /\ Launchable /\ Readable(disk[n])
      /\ Begin(n, ck.iter, ck.rng, ck.model, ck.opt)
  BY DEF ResumeExtended, ResumedRng
<1>2. /\ ck.model \in Weights /\ ck.opt \in Moments /\ ck.iter \in 0 .. MaxIter
      /\ CheckpointCoherent(n, ck) /\ (n # Final => n <= ck.iter)
  BY <1>1, ReadableCheckpoint
<1>3. /\ ck.rng = BatchSize * ck.iter /\ ck.opt.seen = ck.model.ext
      /\ ck.opt.t = Cardinality(ck.opt.seen)
      /\ ck.model.ext \subseteq ck.model.body /\ ck.model.body \subseteq 0 .. ck.iter - 1
  BY <1>2, ResumeExtendedUntied DEF CheckpointCoherent
<1> HIDE DEF ck
<1>4. Begin(n, ck.iter, BatchSize * ck.iter, ck.model, ck.opt) /\ n \in Names \cup {None}
  BY <1>1, <1>3
<1> QED
  BY <1>1, <1>2, <1>3, <1>4, BeginIInv

\* A launch from a file of the base layout (train_loop.rs:43-53, 59-64).
LEMMA ResumeBaseIInv ==
  ASSUME IInv, NEW n \in Names, ResumeBase(n)
  PROVE  IInv'
<1> DEFINE ck == disk[n].ck
           w  == [ck.model EXCEPT !.ext = {}, !.torn = @ \/ disk[n].cut = "base"]
<1>1. /\ Launchable /\ Readable(disk[n]) /\ Begin(n, ck.iter, ck.rng, w, FreshAdam)
  BY DEF ResumeBase, ResumedRng, RebuiltAdam
<1>2. /\ ck.model \in Weights /\ ck.iter \in 0 .. MaxIter
      /\ CheckpointCoherent(n, ck) /\ (n # Final => n <= ck.iter)
  BY <1>1, ReadableCheckpoint
<1>3. w \in Weights /\ w.ext = {} /\ w.body = ck.model.body
  BY <1>2 DEF Weights
<1>4. ck.rng = BatchSize * ck.iter /\ w.body \subseteq 0 .. ck.iter - 1
  BY <1>2, <1>3 DEF CheckpointCoherent
<1>5. FreshAdam.seen = w.ext /\ w.ext \subseteq w.body
  BY <1>3 DEF FreshAdam
<1> HIDE DEF ck, w
<1>6. Begin(n, ck.iter, BatchSize * ck.iter, w, FreshAdam) /\ n \in Names \cup {None}
  BY <1>1, <1>4
<1> QED
  BY <1>1, <1>2, <1>3, <1>4, <1>5, <1>6, FreshTypes, BeginIInv

\* A launch that the load ends.
LEMMA ResumePanicsIInv ==
  ASSUME IInv, NEW n \in Names, ResumePanics(n)
  PROVE  IInv'
<1>1. /\ pc' = "panicked" /\ src' = n /\ launches' = launches + 1
      /\ launches' \in 0 .. MaxLaunches
      /\ UNCHANGED <<start, iter, rng, model, opt, loss, job, disk>>
  BY TrainRunAssumption DEF ResumePanics, Launchable, IInv, TypeOK
<1>2. TypeOK'
  BY <1>1 DEF IInv, TypeOK, Idle
<1>3. pc' \notin Running
  BY <1>1 DEF Running
<1> QED
  BY <1>1, <1>2, <1>3, FilesUnchanged
  DEF IInv, StreamAligned, MomentsMatchWeights, SourceKept, Position, JobFits,
      FileInProgress, SourceBehind, BaseFileKept, Running

\* A kill loses the memory of the process and nothing else.
LEMMA CrashIInv ==
  ASSUME IInv, Crash
  PROVE  IInv'
<1>1. /\ pc' = "down" /\ src' = None /\ start' = 0 /\ iter' = 0 /\ rng' = 0
      /\ model' = InitWeights /\ opt' = FreshAdam /\ loss' = "none" /\ job' = Final
      /\ UNCHANGED <<disk, launches>>
  BY DEF Crash
<1>2. TypeOK'
  BY <1>1, FreshTypes, TrainRunAssumption DEF IInv, TypeOK, Idle, Names, Final
<1>3. pc' \notin Running
  BY <1>1 DEF Running
<1> QED
  BY <1>1, <1>2, <1>3, FilesUnchanged
  DEF IInv, StreamAligned, MomentsMatchWeights, SourceKept, Position, JobFits,
      FileInProgress, SourceBehind, BaseFileKept, Running

\* Nothing changes.
LEMMA StutterIInv ==
  ASSUME IInv, UNCHANGED vars
  PROVE  IInv'
<1>1. UNCHANGED <<pc, src, start, iter, rng, model, opt, loss, job, disk, launches>>
  BY DEF vars
<1>2. Snapshot' = Snapshot
  BY <1>1 DEF Snapshot, SavedIter, SavedOpt
<1>3. TypeOK'
  BY <1>1 DEF IInv, TypeOK
<1>4. StreamAligned' /\ MomentsMatchWeights' /\ Position' /\ JobFits' /\ SourceBehind'
  BY <1>1 DEF IInv, StreamAligned, MomentsMatchWeights, Position, JobFits, SourceBehind
<1>5. SourceKept' /\ BaseFileKept'
  BY <1>1 DEF IInv, SourceKept, BaseFileKept, Readable
<1>6. FileInProgress'
  BY <1>1, <1>2 DEF IInv, FileInProgress
<1> QED
  BY <1>1, <1>3, <1>4, <1>5, <1>6, FilesUnchanged DEF IInv

-----------------------------------------------------------------------------
(* The theorems *)

\* The strengthened invariant holds in every reachable state.
THEOREM Invariance == Spec => []IInv
<1>1. Init => IInv
  BY InitIInv
<1>2. IInv /\ [Next]_vars => IInv'
  <2> SUFFICES ASSUME IInv, [Next]_vars PROVE IInv'
    OBVIOUS
  <2>1. CASE Iterate
    BY <2>1, IterateIInv
  <2>2. CASE FinishLoop
    BY <2>2, FinishLoopIInv
  <2>3. CASE OpenFile
    BY <2>3, OpenFileIInv
  <2>4. CASE WriteMore
    BY <2>4, WriteMoreIInv
  <2>5. CASE StartFresh
    BY <2>5, StartFreshIInv
  <2>6. ASSUME NEW n \in Names, ResumeExtended(n) PROVE IInv'
    BY <2>6, ResumeExtendedIInv
  <2>7. ASSUME NEW n \in Names, ResumeBase(n) PROVE IInv'
    BY <2>7, ResumeBaseIInv
  <2>8. ASSUME NEW n \in Names, ResumePanics(n) PROVE IInv'
    BY <2>8, ResumePanicsIInv
  <2>9. CASE Crash
    BY <2>9, CrashIInv
  <2>10. CASE UNCHANGED vars
    BY <2>10, StutterIInv
  <2> QED
    BY <2>1, <2>2, <2>3, <2>4, <2>5, <2>6, <2>7, <2>8, <2>9, <2>10 DEF Next, RunStep
<1> QED
  BY <1>1, <1>2, PTL DEF Spec

\* The state of a run and its files keep their types.
THEOREM TypeCorrect == Spec => []TypeOK
<1>1. IInv => TypeOK
  BY DEF IInv
<1> QED
  BY <1>1, Invariance, PTL

\* Iteration i draws its batch from the same place of the generator's stream,
\* however often the run was killed and resumed (train_loop.rs:312, 64, 743).
THEOREM StreamAlignedAlways == Spec => []StreamAligned
<1>1. IInv => StreamAligned
  BY DEF IInv
<1> QED
  BY <1>1, Invariance, PTL

\* Weights, moments and the bias-correction exponent never get out of step
\* (train_loop.rs:57-63, train.rs:37-49).
THEOREM MomentsMatchAlways == Spec => []MomentsMatchWeights
<1>1. IInv => MomentsMatchWeights
  BY DEF IInv
<1> QED
  BY <1>1, Invariance, PTL

\* Every file, finished or not, describes one moment of one run
\* (train_loop.rs:715-746, 758-767).
THEOREM SnapshotsCoherentAlways == Spec => []SnapshotsCoherent
<1>1. IInv => SnapshotsCoherent
  BY DEF IInv
<1> QED
  BY <1>1, Invariance, PTL

\* The snapshot a run was resumed from stays readable until it is replaced by
\* the final file (train_loop.rs:727-745).
THEOREM SourceKeptAlways == Spec => []SourceKept
<1>1. IInv => SourceKept
  BY DEF IInv
<1> QED
  BY <1>1, Invariance, PTL

\* A finished file is rejected in no configuration but the tied one with a
\* learnable ODE (train_loop.rs:40-53); the run TrainRunTiedOde shows that the
\* hypothesis is needed.
THEOREM CompleteFileLoadsUnlessTiedOde ==
  ASSUME ~(Tied /\ LearnableOde)
  PROVE  Spec => []CompleteFileLoads
<1>1. Init => CompleteFileLoads
  BY DEF Init, CompleteFileLoads
<1>2. IInv /\ CompleteFileLoads /\ [Next]_vars => CompleteFileLoads'
  <2> SUFFICES ASSUME IInv, CompleteFileLoads, [Next]_vars, pc' = "panicked"
               PROVE  disk'[src'].cut # "full"
    BY DEF CompleteFileLoads
  <2>1. ASSUME NEW n \in Names, ResumePanics(n)
        PROVE  disk'[src'].cut # "full"
    <3>1. SUFFICES ASSUME disk[n].cut = "full" PROVE FALSE
      BY <2>1 DEF ResumePanics
    <3>2. disk[n].ck.groups \notin {ModelGroups(Tied), BaseGroups}
      BY <2>1, <3>1 DEF ResumePanics, Readable, GroupsRead
    <3>3. disk[n].ck.groups \in {ModelGroups(FALSE), BaseGroups}
      BY <3>1 DEF IInv, LayoutsSaved
    <3>4. Tied => ModelGroups(FALSE) = BaseGroups
      BY DEF ModelGroups, BaseGroups
    <3>5. ~Tied => ModelGroups(Tied) = ModelGroups(FALSE)
      BY TrainRunAssumption
    <3> QED
      BY <3>2, <3>3, <3>4, <3>5
  <2>2. CASE RunStep
    <3>1. pc \in Running => pc' # "panicked"
      BY <2>2 DEF RunStep, Iterate, SkipStep, ApplyStep, FinishLoop, OpenFile, WriteMore, Running
    <3>2. pc \in Running
      BY <2>2 DEF RunStep, Iterate, FinishLoop, OpenFile, WriteMore, Running
    <3> QED
      BY <3>1, <3>2
  <2>3. ASSUME StartFresh \/ \E n \in Names : ResumeExtended(n) \/ ResumeBase(n)
        PROVE  pc' = "loop"
    BY <2>3 DEF StartFresh, ResumeExtended, ResumeBase, Begin
  <2>4. CASE Crash
    BY <2>4 DEF Crash
  <2>5. CASE UNCHANGED vars
    BY <2>5 DEF vars, CompleteFileLoads
  <2> QED
    BY <2>1, <2>2, <2>3, <2>4, <2>5 DEF Next
<1> QED
  BY <1>1, <1>2, Invariance, PTL DEF Spec
=============================================================================
