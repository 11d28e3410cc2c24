----------------------------- MODULE CandleRun ------------------------------
(***************************************************************************)
(* One training run of the candle tier and the files it leaves             *)
(* (candle_tier/candle_train.rs), and CPU runs on the WCHK file the tiers  *)
(* share.  Unlike cpu/train_loop.rs the optimizer steps after every        *)
(* element of a batch, weights live in .safetensors files with the         *)
(* iteration counter beside them in a .meta file, and one save writes five *)
(* files in a row.  Saves may fail and the process may be killed at any    *)
(* point of a save.                                                        *)
(*                                                                         *)
(* Weights are the number of iterations they have been through and the     *)
(* iteration that brought a NaN into them.  Snapshots of an iteration are  *)
(* one file: a later run's snapshot of the same iteration replaces it.     *)
(***************************************************************************)
EXTENDS Naturals

CONSTANTS
  NIters,       \* iterations one launch adds (--iters)
  BatchSize,    \* elements of a batch
  SavePeriod,   \* 500 in the code
  CustomOp,     \* --custom-op: ODE gradients are applied by hand
  MaxIter,      \* bound: no run goes beyond this iteration
  MaxLaunches,  \* bound: launches of the candle tier
  MaxCpuRuns,   \* bound: runs of the CPU tier on checkpoint.bin
  MaxFails      \* bound: writes that fail

ASSUME CandleRunAssumption ==
  /\ NIters \in Nat \ {0} /\ BatchSize \in Nat \ {0} /\ SavePeriod \in Nat \ {0}
  /\ CustomOp \in BOOLEAN
  /\ MaxIter \in Nat /\ MaxLaunches \in Nat /\ MaxCpuRuns \in Nat /\ MaxFails \in Nat

VARIABLES
  pc,        \* where the process is; one of Stages while a save is under way
  half,      \* the file of the current stage is open
  start,     \* start_iter
  iter,      \* the loop counter
  elem,      \* elements of the batch that are behind
  sum,       \* total_loss: "zero", "finite" or "bad" (an Inf was added)
  cell,      \* ode_param_grads: the iteration whose backward left gradients, or 0
  model,     \* the VarMap
  num,       \* candle_checkpoint_iter{n}_loss{..}.safetensors and its .meta
  latest,    \* candle_checkpoint_latest.safetensors and its .meta
  bin,       \* checkpoint.bin
  launches, cpuRuns, fails,
  broken     \* writes that failed or were cut short by a kill

files == <<num, latest, bin>>
loop  == <<start, iter, elem, sum, cell, model>>
vars  == <<pc, half, loop, files, launches, cpuRuns, fails, broken>>

-----------------------------------------------------------------------------
(* Data *)

\* nanAge: the iteration that left a NaN in the weights, 0 when there is none.
Weights == [age : 0 .. MaxIter, nanAge : 0 .. MaxIter]

Cuts      == {"absent", "torn", "full"}
Absent    == MaxIter + 1   \* no .meta file
Unwritten == MaxIter + 2   \* an empty .meta file
Metas     == 0 .. Unwritten

Pair == [cut : Cuts, model : Weights, meta : Metas]

\* A WCHK file; rng 0 is the all-zero state, k > 0 the state after k - 1 draws.
Wchk == [cut : Cuts, model : Weights, iter : 0 .. MaxIter, rng : Nat, by : {"candle", "cpu"}]

NoWeights == [age |-> 0, nanAge |-> 0]
NoPair    == [cut |-> "absent", model |-> NoWeights, meta |-> Absent]
NoBin     == [cut |-> "absent", model |-> NoWeights, iter |-> 0, rng |-> 1, by |-> "cpu"]

Stages  == {"st", "stmeta", "latest", "latestmeta", "bin"}
Running == {"batch"} \cup Stages
Idle    == {"down", "failed", "done"}

Poison(w, poisoned) ==
  IF poisoned /\ w.nanAge = 0 THEN [w EXCEPT !.nanAge = w.age + 1] ELSE w

-----------------------------------------------------------------------------
(* An iteration *)

BatchDone == elem = BatchSize

\* The loss is NaN: nothing is learned and nothing added.
SkipNan == UNCHANGED <<sum, cell, model>>

\* The loss is Inf: nothing is learned, but it is added to total_loss.
SkipInf ==
  /\ model.nanAge = 0
  /\ sum' = "bad"
  /\ UNCHANGED <<cell, model>>

\* backward, clip, optimizer.step.  The gradient may be NaN or Inf although the
\* loss is finite; NaN weights always give a NaN loss.  The custom op's backward
\* leaves the ODE's gradients in a cell, over those of an earlier element.
Step ==
  /\ model.nanAge = 0
  /\ sum' = IF sum = "bad" THEN "bad" ELSE "finite"
  /\ cell' = IF CustomOp THEN model.age + 1 ELSE 0
  /\ \E poisoned \in BOOLEAN : model' = Poison(model, poisoned)

Element ==
  /\ pc = "batch" /\ ~BatchDone
  /\ SkipNan \/ SkipInf \/ Step
  /\ elem' = elem + 1
  /\ UNCHANGED <<pc, half, start, iter, files, launches, cpuRuns, fails, broken>>

SaveDue == (iter + 1) % SavePeriod = 0 \/ iter + 1 = start + NIters

\* Faulty variant: nothing is checked before a save.
NoGuard == TRUE

\* "NaN guard": neither NaN, nor 0, nor Inf.
GuardPasses == sum = "finite"

\* On to the next iteration, or out of the loop.
Advance ==
  /\ iter' = iter + 1 /\ elem' = 0 /\ sum' = "zero"
  /\ pc' = IF iter + 1 < start + NIters THEN "batch" ELSE "done"

\* Faulty variant: the ODE's gradients are copied out of the cell and stay.
Copied == cell

\* take_param_grads empties the cell.
Taken == 0

\* After the batch: the ODE gradients of the last backward, springs, the guard.
EndBatch ==
  /\ pc = "batch" /\ BatchDone
  /\ \E poisoned \in IF cell # 0 THEN BOOLEAN ELSE {FALSE} :
       LET w == Poison(model, poisoned)
       IN  model' = [w EXCEPT !.age = @ + 1]
  /\ cell' = Taken
  /\ IF SaveDue /\ GuardPasses
     THEN pc' = "st" /\ UNCHANGED <<iter, elem, sum>>
     ELSE Advance
  /\ UNCHANGED <<half, start, files, launches, cpuRuns, fails, broken>>

-----------------------------------------------------------------------------
(* A save: five files, each truncated and then written *)

\* Faulty variant: the .meta file holds the iteration just run, not the next.
StaleMeta == iter

SavedMeta == iter + 1

After  == [st |-> "stmeta", stmeta |-> "latest", latest |-> "latestmeta",
           latestmeta |-> "bin", bin |-> "next"]

\* A failed varmap.save skips its .meta file only for the numbered snapshot.
AfterFailure == [After EXCEPT !.st = "latest", !.bin = "panic"]

\* Faulty variant: every file is truncated before the first one is written.
TruncateAll ==
  /\ num' = [n \in DOMAIN num |-> [num[n] EXCEPT !.cut = "torn"]]
  /\ latest' = [latest EXCEPT !.cut = "torn"]
  /\ bin' = [bin EXCEPT !.cut = "torn"]

TruncateSnapshot ==
  /\ num' = [num EXCEPT ![iter + 1].cut = "torn"]
  /\ UNCHANGED <<latest, bin>>

Truncate ==
  \/ pc = "st" /\ TruncateSnapshot
  \/ pc = "stmeta" /\ num' = [num EXCEPT ![iter + 1].meta = Unwritten] /\ UNCHANGED <<latest, bin>>
  \/ pc = "latest" /\ latest' = [latest EXCEPT !.cut = "torn"] /\ UNCHANGED <<num, bin>>
  \/ pc = "latestmeta" /\ latest' = [latest EXCEPT !.meta = Unwritten] /\ UNCHANGED <<num, bin>>
  \/ pc = "bin" /\ bin' = [bin EXCEPT !.cut = "torn"] /\ UNCHANGED <<num, latest>>

OpenFile ==
  /\ pc \in Stages /\ ~half
  /\ Truncate
  /\ half' = TRUE
  /\ UNCHANGED <<pc, loop, launches, cpuRuns, fails, broken>>

\* The candle tier stores a dummy Adam and generator state 0 in the WCHK file.
CandleBin ==
  [cut |-> "full", model |-> model, iter |-> iter + 1, rng |-> 0, by |-> "candle"]

Contents ==
  \/ /\ pc = "st"
     /\ num' = [num EXCEPT ![iter + 1].cut = "full", ![iter + 1].model = model]
     /\ UNCHANGED <<latest, bin>>
  \/ pc = "stmeta" /\ num' = [num EXCEPT ![iter + 1].meta = SavedMeta] /\ UNCHANGED <<latest, bin>>
  \/ pc = "latest" /\ latest' = [latest EXCEPT !.cut = "full", !.model = model] /\ UNCHANGED <<num, bin>>
  \/ pc = "latestmeta" /\ latest' = [latest EXCEPT !.meta = SavedMeta] /\ UNCHANGED <<num, bin>>
  \/ pc = "bin" /\ bin' = CandleBin /\ UNCHANGED <<num, latest>>

WriteFile ==
  /\ pc \in Stages /\ half
  /\ Contents
  /\ half' = FALSE
  /\ IF After[pc] = "next" THEN Advance
     ELSE pc' = After[pc] /\ UNCHANGED <<iter, elem, sum>>
  /\ UNCHANGED <<start, cell, model, launches, cpuRuns, fails, broken>>

\* Creating or writing a file fails: ignored, but for checkpoint.bin.
WriteFails ==
  /\ pc \in Stages /\ fails < MaxFails
  /\ fails' = fails + 1 /\ broken' = broken + 1 /\ half' = FALSE
  /\ pc' = IF AfterFailure[pc] = "panic" THEN "failed" ELSE AfterFailure[pc]
  /\ UNCHANGED <<loop, files, launches, cpuRuns>>

Kill ==
  /\ pc \in Running
  /\ pc' = "down" /\ half' = FALSE
  /\ broken' = IF pc \in Stages THEN broken + 1 ELSE broken
  /\ UNCHANGED <<loop, files, launches, cpuRuns, fails>>

-----------------------------------------------------------------------------
(* Launching *)

Launchable == pc \in Idle /\ launches < MaxLaunches

Begin(i, w) ==
  /\ i + NIters <= MaxIter /\ w.age + NIters <= MaxIter
  /\ pc' = "batch" /\ start' = i /\ iter' = i /\ elem' = 0
  /\ sum' = "zero" /\ cell' = 0 /\ model' = w
  /\ launches' = launches + 1
  /\ UNCHANGED <<half, files, cpuRuns, fails, broken>>

StartFresh == Launchable /\ Begin(0, NoWeights)

\* The iter= line of a .meta file; an empty file leaves start_iter as it was.
Counter(meta, default) == IF meta = Unwritten THEN default ELSE meta

\* The file's own .meta, else that of candle_checkpoint_latest.
MetaFound(meta) == IF meta # Absent THEN meta ELSE latest.meta

StartIter(meta, default) ==
  IF MetaFound(meta) = Absent THEN default ELSE Counter(MetaFound(meta), default)

ResumeSafetensors ==
  /\ Launchable
  /\ \E p \in {num[n] : n \in 1 .. MaxIter} \cup {latest} :
       p.cut = "full" /\ Begin(StartIter(p.meta, 0), p.model)

\* A .bin file has no .meta of its own.
ResumeBin ==
  /\ Launchable
  /\ bin.cut = "full"
  /\ Begin(StartIter(Absent, bin.iter), bin.model)

\* An unfinished file: the load returns an error or panics.
ResumeFails ==
  /\ Launchable
  /\ "torn" \in {num[n].cut : n \in 1 .. MaxIter} \cup {latest.cut, bin.cut}
  /\ pc' = "failed" /\ launches' = launches + 1
  /\ UNCHANGED <<half, loop, files, cpuRuns, fails, broken>>

\* xorshift64: 0 is a fixed point, every other state moves on.
DrawsTaken(r, n) == IF r = 0 THEN 0 ELSE r + n

\* A whole run of the CPU tier from a WCHK file, written back to checkpoint.bin
\* (module TrainRun has the steps of such a run).
CpuRun(w, i, r) ==
  /\ pc \in Idle /\ cpuRuns < MaxCpuRuns
  /\ i + NIters <= MaxIter /\ w.age + NIters <= MaxIter
  /\ bin' = [cut |-> "full", model |-> [w EXCEPT !.age = @ + NIters], iter |-> i + NIters,
             rng |-> DrawsTaken(r, BatchSize * NIters), by |-> "cpu"]
  /\ cpuRuns' = cpuRuns + 1
  /\ UNCHANGED <<pc, half, loop, num, latest, launches, fails, broken>>

CpuFresh  == CpuRun(NoWeights, 0, 1)
CpuResume == bin.cut = "full" /\ CpuRun(bin.model, bin.iter, bin.rng)

-----------------------------------------------------------------------------

Init ==
  /\ pc = "down" /\ half = FALSE
  /\ start = 0 /\ iter = 0 /\ elem = 0 /\ sum = "zero" /\ cell = 0
  /\ model = NoWeights
  /\ num = [n \in 1 .. MaxIter |-> NoPair] /\ latest = NoPair /\ bin = NoBin
  /\ launches = 0 /\ cpuRuns = 0 /\ fails = 0 /\ broken = 0

RunStep == Element \/ EndBatch \/ OpenFile \/ WriteFile

Next ==
  \/ RunStep \/ WriteFails \/ Kill
  \/ StartFresh \/ ResumeSafetensors \/ ResumeBin \/ ResumeFails
  \/ CpuFresh \/ CpuResume

Spec == Init /\ [][Next]_vars

-----------------------------------------------------------------------------
(* Properties *)

\* Types of the state of candle_train.rs and of its files.
TypeOK ==
  /\ pc \in Running \cup Idle /\ half \in BOOLEAN
  /\ start \in 0 .. MaxIter /\ iter \in 0 .. MaxIter /\ elem \in 0 .. BatchSize
  /\ sum \in {"zero", "finite", "bad"} /\ cell \in 0 .. MaxIter
  /\ model \in Weights
  /\ num \in [1 .. MaxIter -> Pair] /\ latest \in Pair /\ bin \in Wchk
  /\ launches \in 0 .. MaxLaunches /\ cpuRuns \in 0 .. MaxCpuRuns /\ fails \in 0 .. MaxFails
  /\ broken \in 0 .. MaxLaunches + MaxFails

Saved == {p \in {num[n] : n \in 1 .. MaxIter} \cup {latest, bin} :
            p.cut = "full" /\ (p = bin => bin.by = "candle")}

\* Weights that are NaN at the start of an iteration are never saved, resumed
\* runs included: a NaN in a file came from the very iteration that saved it,
\* so the snapshot before it is clean (candle_train.rs:763-765, 349-351).
PoisonIsFresh == \A p \in Saved : p.model.nanAge \in {0, p.model.age}

\* What is applied to the ODE's parameters after a batch was left by a backward
\* of that batch, also when every element after it, or all of them, were skipped
\* (custom_ode.rs:33-36 and 203-213, candle_train.rs:428-433).
OdeGradientsOfThisBatch ==
  pc = "batch" /\ BatchDone /\ cell # 0 => cell = model.age + 1

\* A run resumed from a snapshot or from checkpoint.bin counts on from the
\* iteration its weights have reached, as long as no save was cut short or
\* failed and only this tier wrote checkpoint.bin (candle_train.rs:160-175,
\* 766-773).
CounterIsAge ==
  broken = 0 /\ cpuRuns = 0 /\ pc = "batch" => model.age = iter

\* README.md:412, "Three tiers, same model, compatible checkpoints": the same
\* when the CPU tier wrote checkpoint.bin.
CounterIsAgeOnAllTiers ==
  broken = 0 /\ pc = "batch" => model.age = iter

\* Once a save got as far as checkpoint.bin, one write that failed or was killed
\* and another one under way leave a complete file to go on from
\* (candle_train.rs:766-787).
SomethingToResume ==
  broken <= 1 /\ bin.cut # "absent" =>
    "full" \in {num[n].cut : n \in 1 .. MaxIter} \cup {latest.cut, bin.cut}

\* candle_train.rs:762, "NaN guard: never overwrite good checkpoints with
\* corrupted weights".
NoNanInFiles == \A p \in Saved : p.model.nanAge = 0

\* README.md:131, "WCHK .bin file (restores weights + Adam + RNG)", and
\* README.md:504, "resume on any tier": a CPU run draws from a live generator.
CpuDrawsFromStream == bin.cut = "full" /\ bin.by = "cpu" => bin.rng # 0
=============================================================================
