------------------------------ MODULE TrainRun ------------------------------
(***************************************************************************)
(* One training run of the CPU / wgpu tier and the checkpoint files it     *)
(* leaves: run_training (cpu/train_loop.rs), Adam (cpu/train.rs) and the   *)
(* WCHK writer and reader (common/checkpoint.rs).  A run is launched fresh *)
(* or resumed from a file, iterates, skips the optimizer on a bad loss,    *)
(* writes a snapshot every SavePeriod iterations and a final file, and may *)
(* be killed between any two of its steps, a half-written file included.   *)
(*                                                                         *)
(* Weights and moments are represented by the set of iterations whose      *)
(* optimizer step they contain; the generator by the number of draws taken *)
(* from its stream.  Files are numbered: 0 is --checkpoint-name, n > 0 is  *)
(* <stem>_iter{n}.bin.                                                     *)
(***************************************************************************)
EXTENDS Naturals, FiniteSets

CONSTANTS
  NIters,        \* iterations one launch adds (--iters)
  BatchSize,     \* draws one iteration takes from the generator (--batch)
  SavePeriod,    \* 500 in the code
  Tied,          \* --tied-embeddings
  LearnableOde,  \* ~ --freeze-ode
  OldIters,      \* iteration counts of the legacy checkpoints that may exist
  MaxIter,       \* bound: no run goes beyond this iteration
  MaxLaunches    \* bound: launches of the program

ASSUME TrainRunAssumption ==
  /\ NIters \in Nat
  /\ BatchSize \in Nat \ {0}
  /\ SavePeriod \in Nat \ {0}
  /\ Tied \in BOOLEAN
  /\ LearnableOde \in BOOLEAN
  /\ MaxIter \in Nat
  /\ MaxLaunches \in Nat
  /\ OldIters \subseteq 0 .. MaxIter

VARIABLES
  pc,        \* where the process is; "down" when none runs
  src,       \* the file this process was asked to resume from, or None
  start,     \* start_iter
  iter,      \* the loop counter
  rng,       \* draws taken from the seed-1337 stream
  model,     \* the weights
  opt,       \* the Adam state
  loss,      \* the last total_loss: "none", "finite" or "bad" (NaN or Inf)
  job,       \* the file being saved while pc is "open" or "write"
  disk,      \* the files
  launches   \* how often the program was started

vars == <<pc, src, start, iter, rng, model, opt, loss, job, disk, launches>>

-----------------------------------------------------------------------------
(* Data *)

Iters  == 0 .. MaxIter - 1
Names  == 0 .. MaxIter
None   == MaxIter + 1
Final  == 0

Running == {"loop", "open", "write"}
Idle    == {"down", "panicked", "done"}

\* body: steps in the parameters of the base layout; ext: steps in the others
\* (ODE, corrector, tied temperature); nan: some parameter is NaN; torn: the
\* parameters were read from the wrong bytes of an unfinished file.
Weights == [body : SUBSET Iters, ext : SUBSET Iters, nan : BOOLEAN, torn : BOOLEAN]

\* t and the steps accumulated in the moment vectors m and v
Moments == [t : Nat, seen : SUBSET Iters]

Groups == {"blocks", "ode", "lm_head", "temperature"}

Checkpoint == [iter : 0 .. MaxIter, rng : Nat, model : Weights,
               opt : Moments, groups : SUBSET Groups]

\* How much of a file is on disk.  "short" holds the header and a number of
\* parameters that fits no layout, "base" exactly as many as the base layout.
Cuts == {"absent", "header", "short", "base", "full"}
File == [cut : Cuts, ck : Checkpoint]

InitWeights == [body |-> {}, ext |-> {}, nan |-> FALSE, torn |-> FALSE]
FreshAdam   == [t |-> 0, seen |-> {}]

-----------------------------------------------------------------------------
(* Parameter groups: two vectors have the same length iff the same groups. *)

ModelGroups(tied) ==
  {"blocks"} \cup (IF LearnableOde THEN {"ode"} ELSE {})
             \cup (IF tied THEN {"temperature"} ELSE {"lm_head"})

BaseGroups == {"blocks", "lm_head"}

\* Faulty variant: the snapshot is flattened the other way round.
SavedAsOther == ModelGroups(~Tied)

\* Saved parameters are always flattened untied.
SavedGroups == ModelGroups(FALSE)

NoFile == [cut |-> "absent",
           ck  |-> [iter |-> 0, rng |-> 0, model |-> InitWeights,
                    opt |-> FreshAdam, groups |-> {}]]

-----------------------------------------------------------------------------
(* The steps of an iteration *)

\* Faulty variant: one draw for the whole batch.
DrawOnce(r) == r + 1

\* starts: one next_u64 per batch element, drawn before anything can be skipped.
DrawBatch(r) == r + BatchSize

\* Faulty variant: t is not advanced on the first step of a run.
LazyAdamStep(a, i) ==
  [t |-> IF a.seen = {} THEN a.t ELSE a.t + 1, seen |-> a.seen \cup {i}]

\* Adam::step: t += 1, the gradient enters m and v.
AdamStep(a, i) == [t |-> a.t + 1, seen |-> a.seen \cup {i}]

\* A step with a NaN or Inf gradient leaves NaN in every parameter it touches.
Trained(w, i, poisoned) ==
  [w EXCEPT !.body = @ \cup {i}, !.ext = @ \cup {i}, !.nan = poisoned]

\* `continue`: the loop goes on with the next iteration.
AfterSkip == iter + 1

\* Only the loss is inspected.  NaN weights always give a bad loss.
SkipStep ==
  /\ loss' = "bad"
  /\ iter' = AfterSkip
  /\ UNCHANGED <<pc, model, opt, job>>

SaveDue(i) == (i + 1) % SavePeriod = 0

\* Faulty variant: a resumed run saves to the file it was resumed from.
SaveOverSource(i) == IF src = None THEN i + 1 ELSE src

\* <stem>_iter{i + 1}.bin
SnapshotName(i) == i + 1

ApplyStep(poisoned) ==
  /\ ~model.nan
  /\ loss'  = "finite"
  /\ model' = Trained(model, iter, poisoned)
  /\ opt'   = AdamStep(opt, iter)
  /\ iter'  = iter + 1
  /\ IF SaveDue(iter) THEN pc' = "open" /\ job' = SnapshotName(iter)
                      ELSE UNCHANGED <<pc, job>>

Iterate ==
  /\ pc = "loop"
  /\ iter < start + NIters
  /\ rng' = DrawBatch(rng)
  /\ SkipStep \/ \E poisoned \in BOOLEAN : ApplyStep(poisoned)
  /\ UNCHANGED <<src, start, disk, launches>>

\* The loop is over: the final checkpoint is written whatever the last loss.
FinishLoop ==
  /\ pc = "loop"
  /\ iter = start + NIters
  /\ pc'  = "open"
  /\ job' = Final
  /\ UNCHANGED <<src, start, iter, rng, model, opt, loss, disk, launches>>

-----------------------------------------------------------------------------
(* save_checkpoint: File::create truncates, then the fields are written one *)
(* after the other; there is no temporary file and no rename.               *)

\* Faulty variant: the counter of the iteration just run, not of the next one.
StaleSavedIter == IF job = Final THEN start + NIters ELSE job - 1

SavedIter == IF job = Final THEN start + NIters ELSE job

SavedOpt == IF Tied THEN FreshAdam ELSE opt

Snapshot == [iter |-> SavedIter, rng |-> rng, model |-> model,
             opt |-> SavedOpt, groups |-> SavedGroups]

OpenFile ==
  /\ pc = "open"
  /\ disk' = [disk EXCEPT ![job] = [cut |-> "header", ck |-> Snapshot]]
  /\ pc' = "write"
  /\ UNCHANGED <<src, start, iter, rng, model, opt, loss, job, launches>>

\* Faulty variant: an interrupted write is begun again from the header.
RestartedCuts(cut) ==
  CASE cut = "header" -> {"short"}
    [] cut = "short"  -> {"header", "full"}
    [] OTHER          -> {}

\* The lengths a growing file passes through.  The base length is met on the
\* way only when the file holds more than the base layout.
NextCuts(cut) ==
  CASE cut = "header" -> {"short"}
    [] cut = "short"  -> {"full"} \cup (IF LearnableOde THEN {"base"} ELSE {})
    [] cut = "base"   -> {"full"}
    [] OTHER          -> {}

WriteMore ==
  /\ pc = "write"
  /\ \E c \in NextCuts(disk[job].cut) :
       /\ disk' = [disk EXCEPT ![job].cut = c]
       /\ pc' = IF c # "full" THEN "write"
                ELSE IF job = Final THEN "done" ELSE "loop"
  /\ UNCHANGED <<src, start, iter, rng, model, opt, loss, job, launches>>

-----------------------------------------------------------------------------
(* Launching and losing a process *)

Launchable == pc \in Idle /\ launches < MaxLaunches

\* A run begins at iteration i with the given state (first numbered i in the log).
Begin(s, i, r, w, a) ==
  /\ i + NIters <= MaxIter
  /\ pc' = "loop" /\ src' = s /\ start' = i /\ iter' = i
  /\ rng' = r /\ model' = w /\ opt' = a
  /\ loss' = "none" /\ job' = Final
  /\ launches' = launches + 1
  /\ UNCHANGED disk

StartFresh == Launchable /\ Begin(None, 0, 0, InitWeights, FreshAdam)

\* Rng::from_state(ck_rng)
ResumedRng(ck) == ck.rng

\* The parameter count load_checkpoint derives from the file's size.
GroupsRead(f) == IF f.cut = "full" THEN f.ck.groups ELSE BaseGroups

Readable(f) == f.cut \in {"base", "full"}

ResumeExtended(n) ==
  LET f == disk[n] IN
  /\ Launchable
  /\ Readable(f) /\ GroupsRead(f) = ModelGroups(Tied)
  /\ Begin(n, f.ck.iter, ResumedRng(f.ck), f.ck.model, f.ck.opt)

\* adam_m.len() differs from the parameter count: a fresh optimizer.
RebuiltAdam(ck) == FreshAdam

\* A base-sized vector: the base parameters are loaded, the rest and the
\* optimizer start fresh.
ResumeBase(n) ==
  LET f == disk[n] IN
  /\ Launchable
  /\ Readable(f)
  /\ GroupsRead(f) # ModelGroups(Tied) /\ GroupsRead(f) = BaseGroups
  /\ Begin(n, f.ck.iter, ResumedRng(f.ck),
           [f.ck.model EXCEPT !.ext = {}, !.torn = @ \/ f.cut = "base"],
           RebuiltAdam(f.ck))

\* A short read, or a length that fits neither layout: the load panics.
ResumePanics(n) ==
  LET f == disk[n] IN
  /\ Launchable
  /\ f.cut # "absent"
  /\ Readable(f) => GroupsRead(f) \notin {ModelGroups(Tied), BaseGroups}
  /\ pc' = "panicked" /\ src' = n
  /\ launches' = launches + 1
  /\ UNCHANGED <<start, iter, rng, model, opt, loss, job, disk>>

\* The process is killed; what it held in memory is gone.
Crash ==
  /\ pc \in Running
  /\ pc' = "down" /\ src' = None /\ start' = 0 /\ iter' = 0 /\ rng' = 0
  /\ model' = InitWeights /\ opt' = FreshAdam /\ loss' = "none" /\ job' = Final
  /\ UNCHANGED <<disk, launches>>

-----------------------------------------------------------------------------

\* A checkpoint of an older version: base layout, complete, k iterations run,
\* those in S with a finite loss.
OldFile(k, S) ==
  [cut |-> "full",
   ck  |-> [iter |-> k, rng |-> BatchSize * k,
            model |-> [body |-> S, ext |-> S, nan |-> FALSE, torn |-> FALSE],
            opt |-> [t |-> Cardinality(S), seen |-> S],
            groups |-> BaseGroups]]

InitDisk ==
  \/ disk = [n \in Names |-> NoFile]
  \/ \E k \in OldIters : \E S \in SUBSET Iters :
       /\ S \subseteq 0 .. k - 1
       /\ disk = [n \in Names |-> IF n = Final THEN OldFile(k, S) ELSE NoFile]

Init ==
  /\ pc = "down" /\ src = None /\ start = 0 /\ iter = 0 /\ rng = 0
  /\ model = InitWeights /\ opt = FreshAdam /\ loss = "none" /\ job = Final
  /\ launches = 0
  /\ InitDisk

\* One thread runs the loop and the saves.
RunStep == Iterate \/ FinishLoop \/ OpenFile \/ WriteMore

Next ==
  \/ RunStep
  \/ StartFresh
  \/ \E n \in Names : ResumeExtended(n) \/ ResumeBase(n) \/ ResumePanics(n)
  \/ Crash

Spec == Init /\ [][Next]_vars

\* A running process is scheduled; nothing forces an operator to launch or kill.
FairSpec == Spec /\ WF_vars(RunStep)

-----------------------------------------------------------------------------
(* Properties *)

\* Types of the state of cpu/train_loop.rs and of the files it writes.
TypeOK ==
  /\ pc \in Running \cup Idle
  /\ src \in Names \cup {None}
  /\ start \in 0 .. MaxIter /\ iter \in 0 .. MaxIter
  /\ rng \in Nat
  /\ model \in Weights /\ opt \in Moments
  /\ loss \in {"none", "finite", "bad"}
  /\ job \in Names
  /\ disk \in [Names -> File]
  /\ launches \in 0 .. MaxLaunches

\* Across skips, snapshots, crashes and resumes, iteration i of a run always
\* draws its batch from the same place of the generator's stream, so a resumed
\* run sees the data an uninterrupted run would have seen (train_loop.rs:312,
\* 65, 743).
StreamAligned == pc \in Running => rng = BatchSize * iter

\* The moments hold exactly the steps the parameters they drive have taken, no
\* iteration is counted twice, and Adam's t, its bias-correction exponent, is
\* their number: restored together, rebuilt together, never mixed
\* (train_loop.rs:58-64, train.rs:37-49).
MomentsMatchWeights ==
  pc \in Running =>
    /\ opt.seen = model.ext
    /\ opt.t = Cardinality(opt.seen)
    /\ model.ext \subseteq model.body
    /\ model.body \subseteq 0 .. iter - 1

\* Whatever is on disk, finished or not, describes one moment of one run: its
\* counter, generator, weights and moments belong together, and a snapshot
\* named after iteration n contains the step that led to n (train_loop.rs:715-746).
CheckpointCoherent(name, ck) ==
  /\ ck.rng = BatchSize * ck.iter
  /\ ck.model.body \subseteq 0 .. ck.iter - 1
  /\ ck.model.ext \subseteq ck.model.body
  /\ ~Tied => ck.opt.seen = ck.model.ext
  /\ ck.opt.t = Cardinality(ck.opt.seen)
  /\ name # Final => ck.iter = name /\ name - 1 \in ck.model.body

SnapshotsCoherent ==
  \A n \in Names : disk[n].cut # "absent" => CheckpointCoherent(n, disk[n].ck)

\* A run resumed from a snapshot never touches that snapshot again, so a second
\* crash can always fall back on it; checkpoint.bin is safe until the final save
\* (train_loop.rs:727-745, 758-767).
SourceKept ==
  /\ pc \in Running /\ src \in Names \ {Final} => Readable(disk[src])
  /\ pc = "loop" /\ src = Final => Readable(disk[Final])

\* A file that was written completely is never rejected at load
\* (train_loop.rs:41-54: the two layouts the resume path accepts; the comment at
\* train_loop.rs:758 gives compatibility as the reason for the saved layout).
CompleteFileLoads == pc = "panicked" => disk[src].cut # "full"

\* README.md:449, "Refuses to save when loss is NaN/Inf/zero": no file changes
\* while the last loss is bad.
CheckpointGuard == [][disk' # disk => loss # "bad"]_vars

\* Every run that is not killed ends, whatever the losses are: bad iterations
\* are skipped, not retried (train_loop.rs:599-611).
RunEnds == pc \in Running ~> pc \in Idle
=============================================================================
