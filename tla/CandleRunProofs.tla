-------------------------- MODULE CandleRunProofs ---------------------------
(***************************************************************************)
(* Proofs about CandleRun: for every number of iterations, batch size and  *)
(* save period, and whatever is killed, fails or is run on another tier in *)
(* between, what the candle tier leaves on disk stays fit to go on from.   *)
(***************************************************************************)
EXTENDS CandleRun, TLAPS

-----------------------------------------------------------------------------
(* The inductive invariant *)

\* A launch is only accepted when its iterations fit the bound; every iteration
\* ages the weights by one, before its save.
Position ==
  /\ pc \in Running => start <= iter /\ iter < start + NIters /\ start + NIters <= MaxIter
  /\ pc = "batch"   => model.age + (start + NIters - iter) <= MaxIter
  /\ pc \in Stages  => model.age + (start + NIters - iter) <= MaxIter + 1 /\ model.age >= 1

\* A launch is cut short once, and each failure is counted.
Wounds == broken + (IF pc \in Running THEN 1 ELSE 0) <= launches + fails

\* NaN weights give no finite loss, so a batch that has one began with clean
\* weights, and so did the batch that is being saved.
FreshInMemory ==
  /\ pc = "batch" /\ sum = "finite" => model.nanAge \in {0, model.age + 1}
  /\ pc \in Stages => model.nanAge \in {0, model.age}

FreshWeights(w) == w.nanAge \in {0, w.age}

FreshOnDisk ==
  /\ \A n \in 1 .. MaxIter : num[n].cut = "full" => FreshWeights(num[n].model)
  /\ latest.cut = "full" => FreshWeights(latest.model)
  /\ bin.cut = "full" /\ bin.by = "candle" => FreshWeights(bin.model)

\* The cell holds gradients of the batch under way or none.
CellOfThisBatch ==
  /\ pc = "batch" => cell \in {0, model.age + 1}
  /\ pc \in Stages => cell = 0

Clean == broken = 0 /\ cpuRuns = 0

\* A pair that was never written, or written to the end by iteration n.
Counted(p, n) ==
  \/ p.cut = "absent" /\ p.meta = Absent
  \/ p.cut = "full" /\ p.model.age = n /\ p.meta = n

\* As long as nothing was cut short, every file but those the save under way has
\* reached agrees with its counter, and checkpoint.bin with the latest pair.
AgesInMemory ==
  Clean => /\ pc = "batch" => model.age = iter
           /\ pc \in Stages => model.age = iter + 1

AgesOnDisk ==
  Clean =>
    /\ \A n \in 1 .. MaxIter : Counted(num[n], n) \/ (pc \in {"st", "stmeta"} /\ n = iter + 1)
    /\ pc = "stmeta" => num[iter + 1].cut = "full" /\ num[iter + 1].model.age = iter + 1
    /\ pc \notin {"latest", "latestmeta"} => Counted(latest, latest.model.age)
    /\ pc = "latestmeta" => latest.cut = "full" /\ latest.model.age = iter + 1
    /\ pc = "bin" => latest.cut = "full" /\ latest.model.age = iter + 1 /\ latest.meta = iter + 1
    /\ pc # "bin" => bin.cut \in {"absent", "full"}
    /\ bin.cut = "full" => bin.iter = bin.model.age
    /\ bin.cut = "full" /\ pc \notin {"latest", "latestmeta", "bin"} =>
         latest.cut = "full" /\ latest.model.age = bin.iter

\* With at most one wound: where a complete file is while checkpoint.bin, or the
\* file in front of it, is being rewritten.
Spare ==
  broken <= 1 =>
    /\ broken = 0 /\ pc # "bin" => bin.cut # "torn"
    /\ bin.cut = "torn" /\ pc \notin {"latest", "latestmeta", "bin"} => latest.cut = "full"
    /\ pc = "stmeta" => num[iter + 1].cut = "full"
    /\ pc = "latest" => num[iter + 1].cut = "full" \/ bin.cut # "torn"
    /\ broken = 0 /\ pc = "latest" => num[iter + 1].cut = "full"
    /\ pc \in {"latestmeta", "bin"} => latest.cut = "full" \/ num[iter + 1].cut = "full"
    /\ broken = 0 /\ pc \in {"latestmeta", "bin"} => latest.cut = "full"

IInv ==
  /\ TypeOK
  /\ Position
  /\ Wounds
  /\ FreshInMemory
  /\ FreshOnDisk
  /\ CellOfThisBatch
  /\ AgesInMemory
  /\ AgesOnDisk
  /\ Spare

-----------------------------------------------------------------------------
(* Facts about the data *)

\* The counter of a save lies within the bound.
LEMMA SavedInRange ==
  ASSUME TypeOK, Position, pc \in Running
  PROVE  /\ iter \in Nat /\ iter + 1 \in 1 .. MaxIter
         /\ SavedMeta \in Metas /\ Unwritten \in Metas
         /\ model \in Weights /\ model.age \in Nat
  BY CandleRunAssumption DEF TypeOK, Position, Metas, Unwritten, SavedMeta, Weights

\* A NaN that enters clean weights is dated to the iteration under way.
LEMMA PoisonTypes ==
  ASSUME NEW w \in Weights, NEW p \in BOOLEAN, w.age + 1 <= MaxIter
  PROVE  /\ Poison(w, p) \in Weights
         /\ Poison(w, p).age = w.age
         /\ Poison(w, p).nanAge \in {w.nanAge, w.age + 1}
         /\ w.nanAge # 0 => Poison(w, p).nanAge = w.nanAge
<1>1. w.age \in Nat /\ w.age + 1 \in 0 .. MaxIter
  BY CandleRunAssumption DEF Weights
<1> QED
  BY <1>1 DEF Poison, Weights

\* Conditions on the files that no step of memory touches.
LEMMA FilesKept ==
  ASSUME UNCHANGED files
  PROVE  /\ FreshOnDisk => FreshOnDisk'
         /\ \A n \in 1 .. MaxIter : num'[n] = num[n]
         /\ latest' = latest /\ bin' = bin
  BY DEF files, FreshOnDisk, FreshWeights

-----------------------------------------------------------------------------
(* The initial state *)

\* The invariant holds before anything was launched.
LEMMA InitIInv ==
  ASSUME Init
  PROVE  IInv
<1> USE DEF Init
<1>1. NoWeights \in Weights /\ NoPair \in Pair /\ NoBin \in Wchk
  BY CandleRunAssumption
  DEF NoWeights, Weights, NoPair, Pair, NoBin, Wchk, Cuts, Absent, Metas, Unwritten
<1>2. TypeOK
  <2>1. num \in [1 .. MaxIter -> Pair] /\ latest \in Pair /\ bin \in Wchk /\ model \in Weights
    BY <1>1
  <2>2. 0 \in 0 .. BatchSize /\ 0 \in 0 .. MaxIter /\ 0 \in 0 .. MaxLaunches
        /\ 0 \in 0 .. MaxCpuRuns /\ 0 \in 0 .. MaxFails /\ 0 \in 0 .. MaxLaunches + MaxFails
    BY CandleRunAssumption
  <2> QED
    BY <2>1, <2>2 DEF TypeOK, Idle
<1>3. pc \notin Running /\ pc \notin Stages /\ pc # "batch"
  BY DEF Running, Stages
<1>4. Position /\ FreshInMemory /\ CellOfThisBatch /\ AgesInMemory
  BY <1>3 DEF Position, FreshInMemory, CellOfThisBatch, AgesInMemory
<1>5. Wounds
  BY <1>3 DEF Wounds
<1>6. FreshOnDisk /\ AgesOnDisk /\ Spare
  BY DEF FreshOnDisk, AgesOnDisk, Spare, NoPair, NoBin, Counted
<1> QED
  BY <1>2, <1>4, <1>5, <1>6 DEF IInv

-----------------------------------------------------------------------------
(* The loop *)

\* One element of the batch.
LEMMA ElementIInv ==
  ASSUME IInv, Element
  PROVE  IInv'
<1>1. /\ pc = "batch" /\ pc' = "batch" /\ elem' = elem + 1 /\ elem # BatchSize
      /\ UNCHANGED <<half, start, iter, num, latest, bin, launches, cpuRuns, fails, broken>>
      /\ UNCHANGED files
  BY DEF Element, BatchDone, files
<1>2. pc \in Running /\ pc \notin Stages /\ TypeOK /\ Position
  BY <1>1 DEF IInv, Running, Stages
<1>3. /\ model \in Weights /\ model.age \in Nat /\ model.age + 1 \in 0 .. MaxIter
      /\ elem' \in 0 .. BatchSize
  BY <1>1, <1>2, CandleRunAssumption DEF TypeOK, Position, Weights
<1>4. /\ model' \in Weights /\ model'.age = model.age
      /\ sum' \in {"zero", "finite", "bad"}
      /\ sum' = "finite" => model'.nanAge \in {0, model.age + 1}
      /\ cell' \in {0, model.age + 1}
  <2>1. /\ sum \in {"zero", "finite", "bad"} /\ cell \in {0, model.age + 1}
        /\ sum = "finite" => model.nanAge \in {0, model.age + 1}
    BY <1>1 DEF IInv, TypeOK, FreshInMemory, CellOfThisBatch
  <2>2. CASE SkipNan
    BY <1>3, <2>1, <2>2 DEF SkipNan
  <2>3. CASE SkipInf
    BY <1>3, <2>1, <2>3 DEF SkipInf
  <2>4. CASE Step
    <3>1. PICK p \in BOOLEAN : model' = Poison(model, p)
      BY <2>4 DEF Step
    <3>2. model.nanAge = 0 /\ sum' \in {"bad", "finite"} /\ cell' \in {0, model.age + 1}
      BY <2>4 DEF Step
    <3> QED
      BY <1>3, <3>1, <3>2, PoisonTypes
  <2> QED
    BY <2>2, <2>3, <2>4 DEF Element
<1>5. TypeOK'
  BY <1>1, <1>2, <1>3, <1>4, CandleRunAssumption DEF TypeOK
<1>6. Position' /\ Wounds'
  BY <1>1, <1>2, <1>4 DEF IInv, Position, Wounds, Running, Stages
<1>7. FreshInMemory' /\ CellOfThisBatch' /\ AgesInMemory'
  BY <1>1, <1>2, <1>4 DEF IInv, FreshInMemory, CellOfThisBatch, AgesInMemory, Clean, Stages
<1>8. FreshOnDisk'
  BY <1>1, FilesKept DEF IInv
<1>9. AgesOnDisk' /\ Spare'
  BY <1>1 DEF IInv, AgesOnDisk, Counted, Spare, Clean
<1> QED
  BY <1>5, <1>6, <1>7, <1>8, <1>9 DEF IInv

\* The end of an iteration leads into the next one or out of the loop.
LEMMA AdvanceSteps ==
  ASSUME TypeOK, Position, pc \in Running, Advance, UNCHANGED start
  PROVE  /\ iter' = iter + 1 /\ iter' \in 0 .. MaxIter
         /\ elem' = 0 /\ sum' = "zero" /\ pc' \in {"batch", "done"}
         /\ pc' = "batch" => iter' < start + NIters
  BY CandleRunAssumption DEF Advance, TypeOK, Position

\* The end of a batch, with a save to follow or without.
LEMMA EndBatchIInv ==
  ASSUME IInv, EndBatch
  PROVE  IInv'
<1>1. /\ pc = "batch" /\ cell' = 0
      /\ UNCHANGED <<half, start, num, latest, bin, launches, cpuRuns, fails, broken>>
      /\ UNCHANGED files
  BY DEF EndBatch, Taken, files
<1>2. pc \in Running /\ pc \notin Stages /\ TypeOK /\ Position
  BY <1>1 DEF IInv, Running, Stages
<1>3. /\ iter \in Nat /\ start \in Nat /\ iter + 1 <= start + NIters /\ start + NIters <= MaxIter
      /\ model \in Weights /\ model.age \in Nat
      /\ model.age + (start + NIters - iter) <= MaxIter /\ model.age + 1 \in 0 .. MaxIter
  BY <1>1, <1>2, CandleRunAssumption DEF TypeOK, Position, Weights
<1>4. PICK p \in BOOLEAN : model' = [Poison(model, p) EXCEPT !.age = @ + 1]
  BY DEF EndBatch
<1>5. /\ model' \in Weights /\ model'.age = model.age + 1
      /\ model'.nanAge \in {model.nanAge, model.age + 1}
      /\ model.nanAge # 0 => model'.nanAge = model.nanAge
  BY <1>3, <1>4, PoisonTypes DEF Weights
<1>6. CASE pc' = "st" /\ GuardPasses /\ UNCHANGED <<iter, elem, sum>>
  <2>1. pc' \in Running /\ pc' \in Stages
    BY <1>6 DEF Running, Stages
  <2>2. TypeOK'
    BY <1>1, <1>2, <1>5, <1>6, <2>1, CandleRunAssumption DEF TypeOK
  <2>3. Position'
    BY <1>1, <1>2, <1>3, <1>5, <1>6, <2>1, CandleRunAssumption DEF Position
  <2>4. Wounds'
    BY <1>1, <1>2, <2>1 DEF IInv, Wounds
  <2>5. FreshInMemory' /\ CellOfThisBatch' /\ AgesInMemory'
    BY <1>1, <1>5, <1>6 DEF IInv, FreshInMemory, CellOfThisBatch, AgesInMemory, Clean, GuardPasses
  <2>6. AgesOnDisk' /\ Spare'
    BY <1>1, <1>6 DEF IInv, AgesOnDisk, Counted, Spare, Clean
  <2> QED
    BY <1>1, <2>2, <2>3, <2>4, <2>5, <2>6, FilesKept DEF IInv
<1>7. CASE Advance
  <2>1. /\ iter' = iter + 1 /\ iter' \in 0 .. MaxIter
        /\ elem' = 0 /\ sum' = "zero" /\ pc' \in {"batch", "done"}
        /\ pc' = "batch" => iter' < start + NIters
    BY <1>1, <1>2, <1>7, AdvanceSteps
  <2>2. TypeOK'
    BY <1>1, <1>2, <1>5, <2>1, CandleRunAssumption DEF TypeOK, Running, Idle
  <2>3. Position'
    BY <1>1, <1>2, <1>3, <1>5, <2>1, CandleRunAssumption DEF Position, Running, Stages
  <2>4. Wounds'
    BY <1>1, <1>2, <2>1, CandleRunAssumption DEF IInv, Wounds, TypeOK
  <2>5. FreshInMemory' /\ CellOfThisBatch' /\ AgesInMemory'
    BY <1>1, <1>3, <1>5, <2>1 DEF IInv, FreshInMemory, CellOfThisBatch, AgesInMemory, Clean, Stages
  <2>6. AgesOnDisk' /\ Spare'
    BY <1>1, <2>1 DEF IInv, AgesOnDisk, Counted, Spare, Clean
  <2> QED
    BY <1>1, <2>2, <2>3, <2>4, <2>5, <2>6, FilesKept DEF IInv
<1> QED
  BY <1>6, <1>7 DEF EndBatch

-----------------------------------------------------------------------------
(* A save *)

\* What the files have to satisfy after a step of a save.
DiskOK ==
  /\ num \in [1 .. MaxIter -> Pair] /\ latest \in Pair /\ bin \in Wchk
  /\ FreshOnDisk /\ AgesOnDisk /\ Spare

\* Truncating the file of the stage.
LEMMA TruncateDisk ==
  ASSUME IInv, OpenFile
  PROVE  DiskOK'
<1>1. /\ pc \in Stages /\ pc' = pc /\ Truncate
      /\ UNCHANGED <<start, iter, model, broken, cpuRuns>>
  BY DEF OpenFile, loop
<1>2. pc \in Running /\ TypeOK /\ Position
  BY <1>1 DEF IInv, Running
<1>3. iter \in Nat /\ iter + 1 \in 1 .. MaxIter /\ Unwritten \in Metas
  BY <1>2, SavedInRange
<1>4. num \in [1 .. MaxIter -> Pair] /\ latest \in Pair /\ bin \in Wchk
  BY <1>2 DEF TypeOK
<1>5. CASE pc = "st" /\ TruncateSnapshot
  <2>1. /\ num' \in [1 .. MaxIter -> Pair] /\ latest' = latest /\ bin' = bin
        /\ num'[iter + 1].cut = "torn"
        /\ \A n \in 1 .. MaxIter : n # iter + 1 => num'[n] = num[n]
    BY <1>3, <1>4, <1>5 DEF TruncateSnapshot, Pair, Cuts
  <2>2. FreshOnDisk'
    BY <2>1 DEF IInv, FreshOnDisk, FreshWeights
  <2>3. AgesOnDisk'
    BY <1>1, <1>5, <2>1 DEF IInv, AgesOnDisk, Counted, Clean
  <2>4. Spare'
    BY <1>1, <1>5, <2>1 DEF IInv, Spare
  <2> QED
    BY <1>4, <2>1, <2>2, <2>3, <2>4 DEF DiskOK
<1>6. CASE pc = "stmeta" /\ num' = [num EXCEPT ![iter + 1].meta = Unwritten] /\ UNCHANGED <<latest, bin>>
  <2>1. /\ num' \in [1 .. MaxIter -> Pair] /\ latest' = latest /\ bin' = bin
        /\ \A n \in 1 .. MaxIter : num'[n].cut = num[n].cut /\ num'[n].model = num[n].model
        /\ \A n \in 1 .. MaxIter : n # iter + 1 => num'[n] = num[n]
    BY <1>3, <1>4, <1>6 DEF Pair, Cuts
  <2>2. FreshOnDisk'
    BY <2>1 DEF IInv, FreshOnDisk, FreshWeights
  <2>3. AgesOnDisk'
    BY <1>1, <1>3, <1>6, <2>1 DEF IInv, AgesOnDisk, Counted, Clean
  <2>4. Spare'
    BY <1>1, <1>3, <1>6, <2>1 DEF IInv, Spare
  <2> QED
    BY <1>4, <2>1, <2>2, <2>3, <2>4 DEF DiskOK
<1>7. CASE pc = "latest" /\ latest' = [latest EXCEPT !.cut = "torn"] /\ UNCHANGED <<num, bin>>
  <2>1. latest' \in Pair /\ latest'.cut = "torn" /\ num' = num /\ bin' = bin
    BY <1>4, <1>7 DEF Pair, Cuts
  <2>2. FreshOnDisk'
    BY <2>1 DEF IInv, FreshOnDisk, FreshWeights
  <2>3. AgesOnDisk'
    BY <1>1, <1>7, <2>1 DEF IInv, AgesOnDisk, Counted, Clean
  <2>4. Spare'
    BY <1>1, <1>7, <2>1 DEF IInv, Spare
  <2> QED
    BY <1>4, <2>1, <2>2, <2>3, <2>4 DEF DiskOK
<1>8. CASE pc = "latestmeta" /\ latest' = [latest EXCEPT !.meta = Unwritten] /\ UNCHANGED <<num, bin>>
  <2>1. /\ latest' \in Pair /\ latest'.cut = latest.cut /\ latest'.model = latest.model
        /\ num' = num /\ bin' = bin
    BY <1>3, <1>4, <1>8 DEF Pair
  <2>2. FreshOnDisk'
    BY <2>1 DEF IInv, FreshOnDisk, FreshWeights
  <2>3. AgesOnDisk'
    BY <1>1, <1>8, <2>1 DEF IInv, AgesOnDisk, Counted, Clean
  <2>4. Spare'
    BY <1>1, <1>8, <2>1 DEF IInv, Spare
  <2> QED
    BY <1>4, <2>1, <2>2, <2>3, <2>4 DEF DiskOK
<1>9. CASE pc = "bin" /\ bin' = [bin EXCEPT !.cut = "torn"] /\ UNCHANGED <<num, latest>>
  <2>1. bin' \in Wchk /\ bin'.cut = "torn" /\ num' = num /\ latest' = latest
    BY <1>4, <1>9 DEF Wchk, Cuts
  <2>2. FreshOnDisk'
    BY <2>1 DEF IInv, FreshOnDisk, FreshWeights
  <2>3. AgesOnDisk'
    BY <1>1, <1>9, <2>1 DEF IInv, AgesOnDisk, Counted, Clean
  <2>4. Spare'
    BY <1>1, <1>9, <2>1 DEF IInv, Spare
  <2> QED
    BY <1>4, <2>1, <2>2, <2>3, <2>4 DEF DiskOK
<1> QED
  BY <1>1, <1>5, <1>6, <1>7, <1>8, <1>9 DEF Truncate

\* Truncating the file of the stage preserves the whole invariant.
LEMMA OpenFileIInv ==
  ASSUME IInv, OpenFile
  PROVE  IInv'
<1>1. /\ pc \in Stages /\ pc' = pc /\ half' = TRUE
      /\ UNCHANGED <<start, iter, elem, sum, cell, model, launches, cpuRuns, fails, broken>>
  BY DEF OpenFile, loop
<1>2. DiskOK'
  BY TruncateDisk
<1>3. TypeOK'
  BY <1>1, <1>2 DEF IInv, TypeOK, DiskOK
<1>4. Position' /\ Wounds'
  BY <1>1 DEF IInv, Position, Wounds
<1>5. FreshInMemory' /\ CellOfThisBatch' /\ AgesInMemory'
  BY <1>1 DEF IInv, FreshInMemory, CellOfThisBatch, AgesInMemory, Clean
<1> QED
  BY <1>2, <1>3, <1>4, <1>5 DEF IInv, DiskOK

\* Writing the file of the stage to its end, and going on to the next one.
LEMMA ContentsDisk ==
  ASSUME IInv, WriteFile
  PROVE  DiskOK'
<1>1. /\ pc \in Stages /\ Contents
      /\ UNCHANGED <<start, model, broken, cpuRuns>>
      /\ IF After[pc] = "next" THEN Advance ELSE pc' = After[pc] /\ iter' = iter
  BY DEF WriteFile
<1>2. pc \in Running /\ TypeOK /\ Position
  BY <1>1 DEF IInv, Running
<1>3. /\ iter \in Nat /\ iter + 1 \in 1 .. MaxIter /\ SavedMeta \in Metas /\ SavedMeta = iter + 1
      /\ model \in Weights /\ model.nanAge \in {0, model.age} /\ model.age \in Nat
      /\ Clean => model.age = iter + 1
  BY <1>1, <1>2, SavedInRange DEF SavedMeta, IInv, FreshInMemory, AgesInMemory
<1>4. num \in [1 .. MaxIter -> Pair] /\ latest \in Pair /\ bin \in Wchk
  BY <1>2 DEF TypeOK
<1>5. /\ pc = "st" => pc' = "stmeta" /\ iter' = iter
      /\ pc = "stmeta" => pc' = "latest" /\ iter' = iter
      /\ pc = "latest" => pc' = "latestmeta" /\ iter' = iter
      /\ pc = "latestmeta" => pc' = "bin" /\ iter' = iter
      /\ pc = "bin" => pc' \in {"batch", "done"}
  BY <1>1 DEF After, Advance
<1>6. Clean' = Clean
  BY <1>1 DEF Clean
<1>7. CASE pc = "st" /\ num' = [num EXCEPT ![iter + 1].cut = "full", ![iter + 1].model = model]
                     /\ UNCHANGED <<latest, bin>>
  <2>1. /\ num' \in [1 .. MaxIter -> Pair] /\ latest' = latest /\ bin' = bin
        /\ num'[iter + 1].cut = "full" /\ num'[iter + 1].model = model
        /\ \A n \in 1 .. MaxIter : n # iter + 1 => num'[n] = num[n]
    BY <1>3, <1>4, <1>7 DEF Pair, Cuts
  <2>2. FreshOnDisk'
    BY <1>3, <2>1 DEF IInv, FreshOnDisk, FreshWeights
  <2>3. AgesOnDisk'
    BY <1>3, <1>5, <1>6, <1>7, <2>1 DEF IInv, AgesOnDisk, Counted
  <2>4. Spare'
    BY <1>1, <1>5, <1>7, <2>1 DEF IInv, Spare
  <2> QED
    BY <1>4, <2>1, <2>2, <2>3, <2>4 DEF DiskOK
<1>8. CASE pc = "stmeta" /\ num' = [num EXCEPT ![iter + 1].meta = SavedMeta] /\ UNCHANGED <<latest, bin>>
  <2>1. /\ num' \in [1 .. MaxIter -> Pair] /\ latest' = latest /\ bin' = bin
        /\ \A n \in 1 .. MaxIter : num'[n].cut = num[n].cut /\ num'[n].model = num[n].model
        /\ \A n \in 1 .. MaxIter : n # iter + 1 => num'[n] = num[n]
        /\ num'[iter + 1].meta = iter + 1
    BY <1>3, <1>4, <1>8 DEF Pair, Cuts
  <2>2. FreshOnDisk'
    BY <2>1 DEF IInv, FreshOnDisk, FreshWeights
  <2>3. AgesOnDisk'
    BY <1>3, <1>5, <1>6, <1>8, <2>1 DEF IInv, AgesOnDisk, Counted
  <2>4. Spare'
    BY <1>1, <1>3, <1>5, <1>8, <2>1 DEF IInv, Spare
  <2> QED
    BY <1>4, <2>1, <2>2, <2>3, <2>4 DEF DiskOK
<1>9. CASE pc = "latest" /\ latest' = [latest EXCEPT !.cut = "full", !.model = model] /\ UNCHANGED <<num, bin>>
  <2>1. latest' \in Pair /\ latest'.cut = "full" /\ latest'.model = model /\ num' = num /\ bin' = bin
    BY <1>3, <1>4, <1>9 DEF Pair, Cuts
  <2>2. FreshOnDisk'
    BY <1>3, <2>1 DEF IInv, FreshOnDisk, FreshWeights
  <2>3. AgesOnDisk'
    BY <1>3, <1>5, <1>6, <1>9, <2>1 DEF IInv, AgesOnDisk, Counted
  <2>4. Spare'
    BY <1>1, <1>5, <1>9, <2>1 DEF IInv, Spare
  <2> QED
    BY <1>4, <2>1, <2>2, <2>3, <2>4 DEF DiskOK
<1>10. CASE pc = "latestmeta" /\ latest' = [latest EXCEPT !.meta = SavedMeta] /\ UNCHANGED <<num, bin>>
  <2>1. /\ latest' \in Pair /\ latest'.cut = latest.cut /\ latest'.model = latest.model
        /\ latest'.meta = iter + 1 /\ num' = num /\ bin' = bin
    BY <1>3, <1>4, <1>10 DEF Pair
  <2>2. FreshOnDisk'
    BY <2>1 DEF IInv, FreshOnDisk, FreshWeights
  <2>3. AgesOnDisk'
    BY <1>3, <1>5, <1>6, <1>10, <2>1 DEF IInv, AgesOnDisk, Counted
  <2>4. Spare'
    BY <1>1, <1>5, <1>10, <2>1 DEF IInv, Spare
  <2> QED
    BY <1>4, <2>1, <2>2, <2>3, <2>4 DEF DiskOK
<1>11. CASE pc = "bin" /\ bin' = CandleBin /\ UNCHANGED <<num, latest>>
  <2>1. /\ bin' \in Wchk /\ bin'.cut = "full" /\ bin'.model = model /\ bin'.iter = iter + 1
        /\ num' = num /\ latest' = latest
    BY <1>3, <1>11 DEF CandleBin, Wchk, Cuts
  <2>2. FreshOnDisk'
    BY <1>3, <2>1 DEF IInv, FreshOnDisk, FreshWeights
  <2>3. AgesOnDisk'
    BY <1>3, <1>5, <1>6, <1>11, <2>1 DEF IInv, AgesOnDisk, Counted
  <2>4. Spare'
    BY <1>1, <1>5, <1>11, <2>1 DEF IInv, Spare
  <2> QED
    BY <1>4, <2>1, <2>2, <2>3, <2>4 DEF DiskOK
<1> QED
  BY <1>1, <1>7, <1>8, <1>9, <1>10, <1>11 DEF Contents

\* Writing it to the end, and going on to the next file or iteration.
LEMMA WriteFileIInv ==
  ASSUME IInv, WriteFile
  PROVE  IInv'
<1>1. /\ pc \in Stages /\ half' = FALSE
      /\ UNCHANGED <<start, cell, model, launches, cpuRuns, fails, broken>>
      /\ IF After[pc] = "next" THEN Advance ELSE pc' = After[pc] /\ UNCHANGED <<iter, elem, sum>>
  BY DEF WriteFile
<1>2. pc \in Running /\ TypeOK /\ Position /\ DiskOK'
  BY <1>1, ContentsDisk DEF IInv, Running
<1>3. CASE pc # "bin"
  <2>1. pc' \in Stages /\ UNCHANGED <<iter, elem, sum>>
    BY <1>1, <1>3 DEF Stages, After
  <2>2. TypeOK'
    BY <1>1, <1>2, <2>1 DEF TypeOK, DiskOK, Running
  <2>3. Position' /\ Wounds'
    BY <1>1, <1>2, <2>1 DEF IInv, Position, Wounds, Running, Stages
  <2>4. FreshInMemory' /\ CellOfThisBatch' /\ AgesInMemory'
    BY <1>1, <2>1 DEF IInv, FreshInMemory, CellOfThisBatch, AgesInMemory, Clean, Stages
  <2> QED
    BY <1>2, <2>2, <2>3, <2>4 DEF IInv, DiskOK
<1>4. CASE pc = "bin"
  <2>1. Advance
    BY <1>1, <1>4 DEF After
  <2>2. /\ iter' = iter + 1 /\ iter' \in 0 .. MaxIter
        /\ elem' = 0 /\ sum' = "zero" /\ pc' \in {"batch", "done"}
        /\ pc' = "batch" => iter' < start + NIters
    BY <1>1, <1>2, <2>1, AdvanceSteps
  <2>3. TypeOK'
    <3>1. num' \in [1 .. MaxIter -> Pair] /\ latest' \in Pair /\ bin' \in Wchk
      BY <1>2 DEF DiskOK
    <3>2. pc' \in Running \cup Idle /\ elem' \in 0 .. BatchSize
      BY <2>2, CandleRunAssumption DEF Running, Idle
    <3> QED
      BY <1>1, <1>2, <2>2, <3>1, <3>2 DEF TypeOK
  <2>4. model.age \in Nat /\ iter \in Nat /\ start \in Nat
    BY <1>2, SavedInRange DEF TypeOK
  <2>5. Position'
    BY <1>1, <1>2, <2>2, <2>4, CandleRunAssumption DEF Position, Running, Stages
  <2>6. Wounds'
    BY <1>1, <1>2, <2>2, CandleRunAssumption DEF IInv, Wounds, TypeOK
  <2>7. FreshInMemory' /\ CellOfThisBatch' /\ AgesInMemory'
    BY <1>1, <2>2, <2>4 DEF IInv, FreshInMemory, CellOfThisBatch, AgesInMemory, Clean, Stages
  <2> QED
    BY <1>2, <2>3, <2>5, <2>6, <2>7 DEF IInv, DiskOK
<1> QED
  BY <1>3, <1>4

\* A write that fails leaves the file as it is and is counted.
LEMMA WriteFailsIInv ==
  ASSUME IInv, WriteFails
  PROVE  IInv'
<1>1. /\ pc \in Stages /\ fails < MaxFails /\ fails' = fails + 1 /\ broken' = broken + 1 /\ half' = FALSE
      /\ UNCHANGED <<start, iter, elem, sum, cell, model, num, latest, bin, launches, cpuRuns>>
      /\ UNCHANGED files
  BY DEF WriteFails, loop, files
<1>2. pc \in Running /\ TypeOK /\ Position
  BY <1>1 DEF IInv, Running
<1>3. /\ pc = "st" => pc' = "latest"
      /\ pc = "stmeta" => pc' = "latest"
      /\ pc = "latest" => pc' = "latestmeta"
      /\ pc = "latestmeta" => pc' = "bin"
      /\ pc = "bin" => pc' = "failed"
  <2>1. /\ AfterFailure["st"] = "latest" /\ AfterFailure["stmeta"] = "latest"
        /\ AfterFailure["latest"] = "latestmeta" /\ AfterFailure["latestmeta"] = "bin"
        /\ AfterFailure["bin"] = "panic"
    BY DEF AfterFailure, After
  <2>2. pc' = IF AfterFailure[pc] = "panic" THEN "failed" ELSE AfterFailure[pc]
    BY DEF WriteFails
  <2> QED
    BY <2>1, <2>2
<1>4. pc' \in Stages \cup {"failed"}
  BY <1>1, <1>3 DEF Stages
<1>5. broken \in Nat /\ launches \in Nat /\ fails \in Nat /\ ~Clean'
  BY <1>1, <1>2, CandleRunAssumption DEF TypeOK, Clean
<1>6. Wounds'
  BY <1>1, <1>2, <1>5 DEF IInv, Wounds
<1>7. broken' \in 0 .. MaxLaunches + MaxFails /\ fails' \in 0 .. MaxFails
  <2>1. broken' <= launches' + fails' /\ launches' <= MaxLaunches /\ fails' <= MaxFails
    BY <1>1, <1>2, <1>5, <1>6, CandleRunAssumption DEF Wounds, TypeOK
  <2> QED
    BY <1>1, <1>2, <1>5, <2>1, CandleRunAssumption
<1>8. TypeOK'
  BY <1>1, <1>2, <1>4, <1>7 DEF TypeOK, Running, Idle
<1>9. Position'
  BY <1>1, <1>2, <1>4 DEF Position, Running, Stages
<1>10. FreshInMemory' /\ CellOfThisBatch'
  BY <1>1, <1>4 DEF IInv, FreshInMemory, CellOfThisBatch, Stages
<1>11. AgesInMemory' /\ AgesOnDisk'
  BY <1>5 DEF AgesInMemory, AgesOnDisk
<1>12. Spare'
  BY <1>1, <1>3, <1>4, <1>5 DEF IInv, Spare, Stages
<1> QED
  BY <1>1, <1>6, <1>8, <1>9, <1>10, <1>11, <1>12, FilesKept DEF IInv

\* A kill loses memory, and leaves at most the file of the stage unfinished.
LEMMA KillIInv ==
  ASSUME IInv, Kill
  PROVE  IInv'
<1>1. /\ pc \in Running /\ pc' = "down" /\ half' = FALSE
      /\ broken' = (IF pc \in Stages THEN broken + 1 ELSE broken)
      /\ UNCHANGED <<start, iter, elem, sum, cell, model, num, latest, bin, launches, cpuRuns, fails>>
      /\ UNCHANGED files
  BY DEF Kill, loop, files
<1>2. TypeOK /\ pc' \notin Running /\ pc' \notin Stages
  BY <1>1 DEF IInv, Running, Stages
<1>3. broken \in Nat /\ launches \in Nat /\ fails \in Nat
  BY <1>2, CandleRunAssumption DEF TypeOK
<1>4. Wounds'
  BY <1>1, <1>2, <1>3 DEF IInv, Wounds
<1>5. broken' \in 0 .. MaxLaunches + MaxFails
  BY <1>1, <1>2, <1>3, <1>4, CandleRunAssumption DEF Wounds, TypeOK
<1>6. TypeOK'
  BY <1>1, <1>2, <1>5 DEF TypeOK, Idle
<1>7. Position' /\ FreshInMemory' /\ CellOfThisBatch' /\ AgesInMemory'
  BY <1>1, <1>2 DEF Position, FreshInMemory, CellOfThisBatch, AgesInMemory
<1>8. AgesOnDisk' /\ Spare'
  <2>1. CASE pc = "batch"
    <3>1. broken' = broken
      BY <1>1, <2>1 DEF Stages
    <3> QED
      BY <1>1, <2>1, <3>1 DEF IInv, AgesOnDisk, Counted, Spare, Clean
  <2>2. CASE pc \in Stages
    <3>1. broken' = broken + 1 /\ ~Clean'
      BY <1>1, <1>3, <2>2 DEF Clean
    <3>2. Spare'
      BY <1>1, <1>3, <2>2, <3>1 DEF IInv, Spare, Stages
    <3> QED
      BY <3>1, <3>2 DEF AgesOnDisk
  <2> QED
    BY <1>1, <2>1, <2>2 DEF Running
<1> QED
  BY <1>1, <1>4, <1>6, <1>7, <1>8, FilesKept DEF IInv

-----------------------------------------------------------------------------
(* Launching *)

\* A launch is safe when the counter it starts with is the age of its weights,
\* as far as that is claimed.
LEMMA BeginIInv ==
  ASSUME IInv, Launchable, NEW i \in 0 .. MaxIter, NEW w \in Weights, Begin(i, w),
         Clean => w.age = i
  PROVE  IInv'
<1>1. /\ i + NIters <= MaxIter /\ w.age + NIters <= MaxIter
      /\ pc' = "batch" /\ start' = i /\ iter' = i /\ elem' = 0
      /\ sum' = "zero" /\ cell' = 0 /\ model' = w /\ launches' = launches + 1
      /\ UNCHANGED <<half, num, latest, bin, cpuRuns, fails, broken>>
      /\ UNCHANGED files
  BY DEF Begin, files
<1>2. /\ pc \in Idle /\ launches' \in 0 .. MaxLaunches /\ launches \in Nat
      /\ broken \in Nat /\ fails \in Nat
  BY <1>1, CandleRunAssumption DEF Launchable, IInv, TypeOK
<1>3. pc \notin Running /\ pc' \in Running /\ pc \notin Stages /\ pc' \notin Stages
  BY <1>1, <1>2 DEF Running, Stages, Idle
<1>4. w.age \in Nat
  BY CandleRunAssumption DEF Weights
<1>5. TypeOK'
  <2>1. 0 \in 0 .. BatchSize /\ 0 \in 0 .. MaxIter
    BY CandleRunAssumption
  <2> QED
    BY <1>1, <1>2, <1>3, <2>1 DEF IInv, TypeOK
<1>6. Position'
  BY <1>1, <1>3, <1>4, CandleRunAssumption DEF Position
<1>7. Wounds'
  BY <1>1, <1>2, <1>3 DEF IInv, Wounds
<1>8. FreshInMemory' /\ CellOfThisBatch' /\ AgesInMemory'
  BY <1>1, <1>3 DEF FreshInMemory, CellOfThisBatch, AgesInMemory, Clean
<1>9. AgesOnDisk' /\ Spare'
  BY <1>1, <1>2, <1>3 DEF IInv, AgesOnDisk, Counted, Spare, Clean, Stages
<1> QED
  BY <1>1, <1>5, <1>6, <1>7, <1>8, <1>9, FilesKept DEF IInv

\* A launch without anything to resume.
LEMMA StartFreshIInv ==
  ASSUME IInv, StartFresh
  PROVE  IInv'
<1>1. NoWeights \in Weights /\ 0 \in 0 .. MaxIter /\ NoWeights.age = 0
  BY CandleRunAssumption DEF NoWeights, Weights
<1>2. Launchable /\ Begin(0, NoWeights)
  BY DEF StartFresh
<1> QED
  BY <1>1, <1>2, BeginIInv

\* A counter is read from a .meta file or taken from the default.
LEMMA StartIterTypes ==
  ASSUME NEW m \in Metas, NEW d \in 0 .. MaxIter, latest.meta \in Metas
  PROVE  /\ StartIter(m, d) \in 0 .. MaxIter
         /\ m \in 0 .. MaxIter => StartIter(m, d) = m
         /\ m = Absent /\ latest.meta \in 0 .. MaxIter => StartIter(m, d) = latest.meta
         /\ m = Absent /\ latest.meta = Absent => StartIter(m, d) = d
  BY CandleRunAssumption DEF StartIter, MetaFound, Counter, Metas, Absent, Unwritten

\* A launch from a pair of files.
LEMMA ResumePairIInv ==
  ASSUME IInv, Launchable, NEW p \in {num[n] : n \in 1 .. MaxIter} \cup {latest},
         p.cut = "full", Begin(StartIter(p.meta, 0), p.model)
  PROVE  IInv'
<1>1. num \in [1 .. MaxIter -> Pair] /\ latest \in Pair /\ 0 \in 0 .. MaxIter
  BY CandleRunAssumption DEF IInv, TypeOK
<1>2. p \in Pair /\ latest.meta \in Metas /\ p.meta \in Metas /\ p.model \in Weights
  BY <1>1 DEF Pair
<1>3. pc \notin {"st", "stmeta", "latest", "latestmeta"}
  BY DEF Launchable, Idle
<1>4. Clean => p.meta = p.model.age
  <2>1. CASE p = latest
    BY <1>3, <2>1 DEF IInv, AgesOnDisk, Counted
  <2>2. ASSUME NEW n \in 1 .. MaxIter, p = num[n]
        PROVE  Clean => p.meta = p.model.age
    BY <1>3, <2>2 DEF IInv, AgesOnDisk, Counted
  <2> QED
    BY <2>1, <2>2
<1>5. p.model.age \in 0 .. MaxIter
  BY <1>2 DEF Weights
<1>6. StartIter(p.meta, 0) \in 0 .. MaxIter /\ (Clean => p.model.age = StartIter(p.meta, 0))
  BY <1>1, <1>2, <1>4, <1>5, StartIterTypes
<1> QED
  BY <1>2, <1>6, BeginIInv

\* A launch from a numbered pair or from the latest one.
LEMMA ResumeSafetensorsIInv ==
  ASSUME IInv, ResumeSafetensors
  PROVE  IInv'
  BY ResumePairIInv DEF ResumeSafetensors

\* A launch from checkpoint.bin.
LEMMA ResumeBinIInv ==
  ASSUME IInv, ResumeBin
  PROVE  IInv'
<1>1. Launchable /\ bin.cut = "full" /\ Begin(StartIter(Absent, bin.iter), bin.model)
  BY DEF ResumeBin
<1>2. /\ latest.meta \in Metas /\ Absent \in Metas
      /\ bin.model \in Weights /\ bin.iter \in 0 .. MaxIter /\ bin.model.age \in 0 .. MaxIter
  BY CandleRunAssumption DEF IInv, TypeOK, Pair, Wchk, Weights, Metas, Absent, Unwritten
<1>3. pc \notin {"st", "stmeta", "latest", "latestmeta", "bin"}
  BY <1>1 DEF Launchable, Idle
<1>4. Clean => latest.meta = bin.model.age
  BY <1>1, <1>3 DEF IInv, AgesOnDisk, Counted
<1>5. StartIter(Absent, bin.iter) \in 0 .. MaxIter
      /\ (Clean => bin.model.age = StartIter(Absent, bin.iter))
  BY <1>2, <1>4, StartIterTypes
<1> QED
  BY <1>1, <1>2, <1>5, BeginIInv

\* A launch that the load ends.
LEMMA ResumeFailsIInv ==
  ASSUME IInv, ResumeFails
  PROVE  IInv'
<1>1. /\ pc \in Idle /\ pc' = "failed" /\ launches' = launches + 1 /\ launches < MaxLaunches
      /\ UNCHANGED <<half, start, iter, elem, sum, cell, model, num, latest, bin, cpuRuns, fails, broken>>
      /\ UNCHANGED files
  BY DEF ResumeFails, Launchable, loop, files
<1>2. /\ launches' \in 0 .. MaxLaunches /\ launches \in Nat /\ broken \in Nat /\ fails \in Nat
      /\ pc \notin Running /\ pc' \notin Running /\ pc \notin Stages /\ pc' \notin Stages
  BY <1>1, CandleRunAssumption DEF IInv, TypeOK, Running, Stages, Idle
<1>3. TypeOK'
  BY <1>1, <1>2 DEF IInv, TypeOK, Idle
<1>4. Position' /\ FreshInMemory' /\ CellOfThisBatch' /\ AgesInMemory'
  BY <1>1, <1>2 DEF Position, FreshInMemory, CellOfThisBatch, AgesInMemory
<1>5. Wounds'
  BY <1>1, <1>2 DEF IInv, Wounds
<1>6. AgesOnDisk' /\ Spare'
  BY <1>1, <1>2 DEF IInv, AgesOnDisk, Counted, Spare, Clean, Stages
<1> QED
  BY <1>1, <1>3, <1>4, <1>5, <1>6, FilesKept DEF IInv

-----------------------------------------------------------------------------
(* Runs of the CPU tier *)

\* Draws keep a generator's state a number.
LEMMA DrawsTakenType ==
  ASSUME NEW r \in Nat
  PROVE  DrawsTaken(r, BatchSize * NIters) \in Nat
<1>1. BatchSize * NIters \in Nat
  BY CandleRunAssumption
<1> QED
  BY <1>1 DEF DrawsTaken

\* A CPU run replaces checkpoint.bin as a whole and is the last of the clean ones.
LEMMA CpuRunIInv ==
  ASSUME IInv, NEW w \in Weights, NEW i \in 0 .. MaxIter, NEW r \in Nat, CpuRun(w, i, r)
  PROVE  IInv'
<1>1. /\ pc \in Idle /\ cpuRuns < MaxCpuRuns /\ cpuRuns' = cpuRuns + 1
      /\ i + NIters <= MaxIter /\ w.age + NIters <= MaxIter
      /\ UNCHANGED <<pc, half, start, iter, elem, sum, cell, model, num, latest, launches, fails, broken>>
  BY DEF CpuRun, loop
<1>2. /\ bin' = [cut |-> "full", model |-> [w EXCEPT !.age = @ + NIters], iter |-> i + NIters,
                 rng |-> DrawsTaken(r, BatchSize * NIters), by |-> "cpu"]
  BY DEF CpuRun
<1>3. /\ cpuRuns' \in 0 .. MaxCpuRuns /\ cpuRuns \in Nat /\ ~Clean'
      /\ pc \notin Running /\ pc \notin Stages /\ pc # "batch"
  BY <1>1, CandleRunAssumption DEF IInv, TypeOK, Clean, Running, Stages, Idle
<1>4. [w EXCEPT !.age = @ + NIters] \in Weights /\ i + NIters \in 0 .. MaxIter
  BY <1>1, CandleRunAssumption DEF Weights
<1>5. bin' \in Wchk /\ bin'.cut = "full" /\ bin'.by = "cpu"
  BY <1>2, <1>4, DrawsTakenType DEF Wchk, Cuts
<1>6. TypeOK'
  BY <1>1, <1>3, <1>5 DEF IInv, TypeOK
<1>7. Position' /\ FreshInMemory' /\ CellOfThisBatch' /\ AgesInMemory'
  BY <1>1, <1>3 DEF Position, FreshInMemory, CellOfThisBatch, AgesInMemory
<1>8. Wounds'
  BY <1>1 DEF IInv, Wounds
<1>9. FreshOnDisk'
  BY <1>1, <1>5 DEF IInv, FreshOnDisk, FreshWeights
<1>10. AgesOnDisk'
  BY <1>3 DEF AgesOnDisk
<1>11. Spare'
  BY <1>1, <1>3, <1>5 DEF Spare, Stages
<1> QED
  BY <1>6, <1>7, <1>8, <1>9, <1>10, <1>11 DEF IInv

\* A CPU run from fresh weights over the shared file.
LEMMA CpuFreshIInv ==
  ASSUME IInv, CpuFresh
  PROVE  IInv'
<1>1. NoWeights \in Weights /\ 0 \in 0 .. MaxIter /\ 1 \in Nat
  BY CandleRunAssumption DEF NoWeights, Weights
<1> QED
  BY <1>1, CpuRunIInv DEF CpuFresh

\* A CPU run that resumes from the shared file.
LEMMA CpuResumeIInv ==
  ASSUME IInv, CpuResume
  PROVE  IInv'
<1>1. bin.model \in Weights /\ bin.iter \in 0 .. MaxIter /\ bin.rng \in Nat
  BY DEF IInv, TypeOK, Wchk
<1> QED
  BY <1>1, CpuRunIInv DEF CpuResume

\* Nothing changes.
LEMMA StutterIInv ==
  ASSUME IInv, UNCHANGED vars
  PROVE  IInv'
<1>1. /\ UNCHANGED <<pc, half, start, iter, elem, sum, cell, model, num, latest, bin>>
      /\ UNCHANGED <<launches, cpuRuns, fails, broken>> /\ UNCHANGED files
  BY DEF vars, loop, files
<1>2. TypeOK' /\ Position' /\ Wounds'
  BY <1>1 DEF IInv, TypeOK, Position, Wounds
<1>3. FreshInMemory' /\ CellOfThisBatch' /\ AgesInMemory'
  BY <1>1 DEF IInv, FreshInMemory, CellOfThisBatch, AgesInMemory, Clean
<1>4. AgesOnDisk' /\ Spare'
  BY <1>1 DEF IInv, AgesOnDisk, Counted, Spare, Clean
<1> QED
  BY <1>1, <1>2, <1>3, <1>4, FilesKept DEF IInv

-----------------------------------------------------------------------------
(* The theorems *)

\* The strengthened invariant holds in every reachable state.
THEOREM Invariance == Spec => []IInv
<1>1. Init => IInv
  BY InitIInv
<1>2. IInv /\ [Next]_vars => IInv'
  <2> SUFFICES ASSUME IInv, [Next]_vars PROVE IInv'
    OBVIOUS
  <2>1. CASE Element
    BY <2>1, ElementIInv
  <2>2. CASE EndBatch
    BY <2>2, EndBatchIInv
  <2>3. CASE OpenFile
    BY <2>3, OpenFileIInv
  <2>4. CASE WriteFile
    BY <2>4, WriteFileIInv
  <2>5. CASE WriteFails
    BY <2>5, WriteFailsIInv
  <2>6. CASE Kill
    BY <2>6, KillIInv
  <2>7. CASE StartFresh
    BY <2>7, StartFreshIInv
  <2>8. CASE ResumeSafetensors
    BY <2>8, ResumeSafetensorsIInv
  <2>9. CASE ResumeBin
    BY <2>9, ResumeBinIInv
  <2>10. CASE ResumeFails
    BY <2>10, ResumeFailsIInv
  <2>11. CASE CpuFresh
    BY <2>11, CpuFreshIInv
  <2>12. CASE CpuResume
    BY <2>12, CpuResumeIInv
  <2>13. CASE UNCHANGED vars
    BY <2>13, StutterIInv
  <2> QED
    BY <2>1, <2>2, <2>3, <2>4, <2>5, <2>6, <2>7, <2>8, <2>9, <2>10, <2>11, <2>12, <2>13
    DEF Next, RunStep
<1> QED
  BY <1>1, <1>2, PTL DEF Spec

\* The state of a run and its files keep their types.
THEOREM TypeCorrect == Spec => []TypeOK
<1>1. IInv => TypeOK
  BY DEF IInv
<1> QED
  BY <1>1, Invariance, PTL

\* No file of this tier holds a NaN older than the iteration that saved it, so
\* the snapshot before is clean (candle_train.rs:763-765, 349-351).
THEOREM PoisonIsFreshAlways == Spec => []PoisonIsFresh
<1>1. ASSUME IInv PROVE PoisonIsFresh
  <2>1. SUFFICES ASSUME NEW p \in Saved PROVE p.model.nanAge \in {0, p.model.age}
    BY DEF PoisonIsFresh
  <2>2. p.cut = "full" /\ (p = bin => bin.by = "candle")
    BY DEF Saved
  <2>3. p = bin \/ p = latest \/ \E n \in 1 .. MaxIter : p = num[n]
    BY DEF Saved
  <2> QED
    BY <1>1, <2>2, <2>3 DEF IInv, FreshOnDisk, FreshWeights
<1> QED
  BY <1>1, Invariance, PTL

\* What a resumed run counts on from is the iteration its weights have reached,
\* while no save was cut short and no CPU run came between
\* (candle_train.rs:160-175, 766-773).
THEOREM CounterIsAgeAlways == Spec => []CounterIsAge
<1>1. IInv => CounterIsAge
  BY DEF IInv, AgesInMemory, Clean, CounterIsAge
<1> QED
  BY <1>1, Invariance, PTL

\* One save cut short and another under way leave a complete file
\* (candle_train.rs:766-787).
THEOREM SomethingToResumeAlways == Spec => []SomethingToResume
<1>1. ASSUME IInv, broken <= 1, bin.cut # "absent"
      PROVE  "full" \in {num[n].cut : n \in 1 .. MaxIter} \cup {latest.cut, bin.cut}
  <2>1. bin.cut \in {"torn", "full"}
    BY <1>1 DEF IInv, TypeOK, Wchk, Cuts
  <2>2. pc \in Stages => iter + 1 \in 1 .. MaxIter
    BY <1>1, SavedInRange DEF IInv, Running
  <2>3. bin.cut = "full" \/ latest.cut = "full" \/ (pc \in Stages /\ num[iter + 1].cut = "full")
    BY <1>1, <2>1 DEF IInv, Spare, Stages
  <2> QED
    BY <2>2, <2>3
<1>2. IInv => SomethingToResume
  BY <1>1 DEF SomethingToResume
<1> QED
  BY <1>2, Invariance, PTL

\* The gradients applied to the ODE's parameters after a batch come from that
\* batch (custom_ode.rs:33-36, candle_train.rs:428-433).
THEOREM OdeGradientsOfThisBatchAlways == Spec => []OdeGradientsOfThisBatch
<1>1. IInv => OdeGradientsOfThisBatch
  BY DEF IInv, CellOfThisBatch, OdeGradientsOfThisBatch
<1> QED
  BY <1>1, Invariance, PTL
=============================================================================
