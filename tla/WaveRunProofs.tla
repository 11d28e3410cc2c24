--------------------------- MODULE WaveRunProofs ----------------------------
(***************************************************************************)
(* Proofs about WaveRun, for any sources, tokenizer, command lines, marks  *)
(* and bounds.  The invariant has two halves that hardly meet, RunInv of   *)
(* the training process and its checkpoints and TextInv of the tokens a    *)
(* conversion works on and their caches, and WindowInv, of the dataset     *)
(* that passes from the one to the other.                                  *)
(*                                                                         *)
(* A run's moments are of the steps in its weights because both grow in    *)
(* one step and are saved and taken back together; the windows of two      *)
(* steps never overlap because the generator is saved with them and every  *)
(* window of the batch in hand is later than the last step.  A cache is    *)
(* never half read because its header promises the number of tokens, and a *)
(* file that keeps the promise holds those of the conversion that wrote it.*)
(* A dataset cut short still holds the records it has in their places, and *)
(* a window is read whole or not at all, so one that is read pairs each    *)
(* token with the next; it says which tokens because the rows of the table *)
(* are all different.                                                      *)
(***************************************************************************)
EXTENDS WaveRun, SequenceTheorems, WellFoundedInduction, TLAPS

-----------------------------------------------------------------------------
(* The inductive invariant *)

TrainFields ==
  {"pc", "count", "seq", "batchSize", "start", "total", "iter", "rng", "weights", "adam",
   "batch", "sum", "ref", "losses", "aborted", "label", "savedIter"}

TrainPcs == {"draw", "step", "save create", "save header", "save body", "done"}

\* A step of the optimiser, by the first and the last window drawn for it.
Draws == Int \X Int

Writing(p)  == p.pc \in {"save header", "save body"}
InBatch(p)  == p.pc \in {"draw", "step"}
Finishing(p) == p.pc = "done" \/ (Writing(p) /\ p.label = Final)

\* A batch is a sequence, of windows; how many it has.
IsSequence(b) == \E W : b \in Seq(W)
InHand(p)  == Len(p.batch)

Shape(p) ==
  /\ DOMAIN p = TrainFields
  /\ p.pc \in TrainPcs
  /\ p.batchSize \in Nat \ {0}
  /\ p.start \in Nat /\ p.iter \in Nat /\ p.total \in Nat /\ p.rng \in Int
  /\ p.sum \in Nat /\ p.aborted \in BOOLEAN
  /\ IsSequence(p.batch)

\* Where a run is: within its iterations, and short of the last one unless it
\* finishes; what it is writing is labelled with the next one.
Place(p) ==
  /\ p.start <= p.iter /\ p.iter <= p.total
  /\ p.pc # "draw" /\ ~Finishing(p) => p.iter < p.total
  /\ p.pc = "step" => InHand(p) = p.batchSize
  /\ Writing(p) => \/ p.label = Final /\ p.savedIter = p.total
                   \/ p.label = p.iter + 1 /\ p.savedIter = p.iter + 1

\* Steps that follow each other, drawn before the generator was at n.
Ordered(ws, n) ==
  /\ ws \in Seq(Draws)
  /\ \A i \in 1 .. Len(ws) - 1 : ws[i][2] < ws[i + 1][1]
  /\ ws # <<>> => ws[Len(ws)][2] < n

\* The steps in the weights are older than the windows of the batch, and no more
\* than the iterations that were run or will be counted.
Steps(p) ==
  /\ p.adam = p.weights
  /\ Ordered(p.weights, p.rng - InHand(p))
  /\ Len(p.weights) <= IF InBatch(p) THEN p.iter ELSE p.iter + 1
  /\ Finishing(p) => Len(p.weights) <= p.total

\* The losses at the marks are of marks that were passed, no larger than a batch
\* can be, and the reference is the first of them.
Marks(p) ==
  LET m2 == p.start + Mark2
      m3 == p.start + Mark3
  IN  /\ p.sum <= 2 * InHand(p)
      /\ DOMAIN p.losses \subseteq {m2, m3}
      /\ \A i \in DOMAIN p.losses :
           /\ p.losses[i] \in Nat /\ p.losses[i] <= 2 * p.batchSize
           /\ i < p.iter \/ (i = p.iter /\ ~InBatch(p))
      /\ p.ref = IF m2 \in DOMAIN p.losses THEN p.losses[m2] ELSE p.batchSize * NoLoss
      /\ p.aborted <=> /\ m2 \in DOMAIN p.losses /\ m3 \in DOMAIN p.losses
                       /\ 100 * p.losses[m3] > 98 * p.losses[m2]
      /\ p.aborted => Finishing(p)

TrainInv(p) == Shape(p) /\ Place(p) /\ Steps(p) /\ Marks(p)

\* A process that does not train.
Elsewhere(p) == "pc" \in DOMAIN p /\ p.pc \notin TrainPcs /\ "batchSize" \notin DOMAIN p

\* A checkpoint that has its header.
FileInv(f) ==
  /\ f.iter \in Nat /\ f.rng \in Int
  /\ f.adam = f.weights
  /\ Ordered(f.weights, f.rng)
  /\ Len(f.weights) <= f.iter

FilesInv == \A l \in DOMAIN ckpts : ckpts[l] # Empty => FileInv(ckpts[l])

RunInv ==
  /\ TrainInv(proc) \/ Elsewhere(proc)
  /\ FilesInv

-----------------------------------------------------------------------------

\* The marks are numbers, in order.
LEMMA MarkNumbers == Mark2 \in Nat /\ Mark3 \in Nat /\ Mark2 < Mark3
BY MarksInOrder

\* A training process is one that Training tells apart.
LEMMA TrainingIs ==
  ASSUME RunInv
  PROVE  /\ Training <=> TrainInv(proc)
         /\ proc.pc \in TrainPcs => TrainInv(proc)
BY DEF RunInv, Training, TrainInv, Shape, Elsewhere, TrainFields

\* A batch has a number of windows.
LEMMA BatchLength ==
  ASSUME NEW p, IsSequence(p.batch)
  PROVE  InHand(p) \in Nat
<1>1. PICK W : p.batch \in Seq(W)
  BY DEF IsSequence
<1> QED
  BY <1>1 DEF InHand

\* More windows drawn leaves steps older than them.
LEMMA OrderedLater ==
  ASSUME NEW ws, NEW i \in Int, NEW j \in Int, i <= j, Ordered(ws, i)
  PROVE  Ordered(ws, j)
<1>1. ws # <<>> => ws[Len(ws)] \in Draws
  BY DEF Ordered
<1>2. ws # <<>> => ws[Len(ws)][2] \in Int
  BY <1>1 DEF Draws
<1> QED
  BY <1>2 DEF Ordered

\* One more step, of windows drawn after the last one.
LEMMA OrderedAppend ==
  ASSUME NEW ws, NEW a \in Int, NEW b \in Int, NEW m \in Int, Ordered(ws, a), b < m
  PROVE  Ordered(Append(ws, <<a, b>>), m) /\ Len(Append(ws, <<a, b>>)) = Len(ws) + 1
<1> DEFINE d == <<a, b>>
           new == Append(ws, d)
<1>1. ws \in Seq(Draws) /\ d \in Draws /\ d[1] = a /\ d[2] = b
  BY DEF Ordered, Draws
<1> HIDE DEF d
<1>2. /\ new \in Seq(Draws) /\ Len(new) = Len(ws) + 1 /\ Len(ws) \in Nat
      /\ \A i \in 1 .. Len(ws) : new[i] = ws[i]
      /\ new[Len(ws) + 1] = d
  BY <1>1, AppendProperties
<1>3. ASSUME NEW i \in 1 .. Len(new) - 1 PROVE new[i][2] < new[i + 1][1]
  <2>1. CASE i = Len(ws)
    <3>1. ws # <<>> /\ ws[Len(ws)][2] < a
      BY <1>1, <1>2, <1>3, <2>1, EmptySeq DEF Ordered
    <3> QED
      BY <1>1, <1>2, <2>1, <3>1
  <2>2. CASE i # Len(ws)
    <3>1. i \in 1 .. Len(ws) - 1 /\ i + 1 \in 1 .. Len(ws)
      BY <1>2, <1>3, <2>2
    <3> QED
      BY <1>2, <3>1 DEF Ordered
  <2> QED
    BY <2>1, <2>2
<1>4. new[Len(new)][2] < m
  BY <1>1, <1>2
<1> QED
  BY <1>1, <1>2, <1>3, <1>4 DEF Ordered, d

\* With puts v at k.
LEMMA WithGives ==
  ASSUME NEW f, NEW k, NEW v
  PROVE  /\ DOMAIN With(f, k, v) = DOMAIN f \cup {k}
         /\ With(f, k, v)[k] = v
         /\ \A i \in DOMAIN f : i # k => With(f, k, v)[i] = f[i]
BY DEF With

-----------------------------------------------------------------------------
(* The steps of a training run *)

\* A window is drawn: it is kept, or the batch is broken off, or the run ends.
LEMMA DrawInv ==
  ASSUME TrainInv(proc), NEW start, NEW loss \in {1, 2, Bad}, Draw(start, loss)
  PROVE  TrainInv(proc') \/ proc' = Idle
<1> DEFINE len == WindowLen(kwds.n, start, proc.seq)
           in  == K!InputOffset(kwds, start)
           o   == K!TargetOffset(kwds, start)
           ok  == K!Readable(kwds.recs, in, len) /\ K!Readable(kwds.recs, o, len)
           win == [in |-> K!ReadRecords(kwds.recs, in, len), target |-> K!ReadRecords(kwds.recs, o, len)]
           q   == [proc EXCEPT !.rng = @ + 1]
           bad == [q EXCEPT !.iter = @ + 1, !.batch = <<>>, !.sum = 0]
           good == [q EXCEPT !.batch = Append(@, win), !.sum = @ + loss,
                             !.pc = IF Len(proc.batch) + 1 = proc.batchSize THEN "step" ELSE @]
<1>1. proc.pc = "draw" /\ proc.iter < proc.total /\ proc' = (CASE ~ok -> Idle [] ok /\ loss = Bad -> bad [] OTHER -> good)
  BY DEF Draw
<1>2. proc' = Idle \/ proc' = bad \/ (proc' = good /\ loss \in {1, 2})
  BY <1>1
<1> HIDE DEF ok, win, len, in, o
<1>3. /\ DOMAIN proc = TrainFields /\ Shape(proc) /\ Place(proc) /\ Steps(proc) /\ Marks(proc)
      /\ proc.batchSize \in Nat \ {0} /\ proc.start \in Nat /\ proc.iter \in Nat /\ proc.total \in Nat
      /\ proc.rng \in Int /\ proc.sum \in Nat /\ proc.aborted \in BOOLEAN
      /\ proc.start <= proc.iter /\ InHand(proc) \in Nat
  BY BatchLength DEF TrainInv, Shape, Place
<1>4. CASE proc' = Idle
  BY <1>4
<1>5. CASE proc' = bad
  <2>0. /\ DOMAIN proc' = TrainFields
        /\ proc'.rng = proc.rng + 1 /\ proc'.iter = proc.iter + 1 /\ proc'.batch = <<>> /\ proc'.sum = 0
        /\ \A x \in TrainFields \ {"rng", "iter", "batch", "sum"} : proc'[x] = proc[x]
    BY <1>3, <1>5 DEF TrainFields
  <2> HIDE DEF bad, good, q
  <2>1. /\ DOMAIN proc' = TrainFields
        /\ proc'.rng = proc.rng + 1 /\ proc'.iter = proc.iter + 1 /\ proc'.batch = <<>> /\ proc'.sum = 0
    BY <2>0
  <2>2. /\ proc'.pc = "draw" /\ proc'.batchSize = proc.batchSize /\ proc'.start = proc.start
        /\ proc'.total = proc.total /\ proc'.weights = proc.weights /\ proc'.adam = proc.adam
        /\ proc'.ref = proc.ref /\ proc'.losses = proc.losses /\ proc'.aborted = proc.aborted
    BY <1>1, <2>0 DEF TrainFields
  <2>3. IsSequence(proc'.batch) /\ InHand(proc') = 0
    <3>1. proc'.batch \in Seq({}) /\ Len(proc'.batch) = 0
      BY <2>1
    <3> QED
      BY <3>1 DEF IsSequence, InHand
  <2>4. Shape(proc')
    <3>1. /\ DOMAIN proc' = TrainFields /\ proc'.rng \in Int /\ proc'.iter \in Nat /\ proc'.sum \in Nat
          /\ proc'.pc \in TrainPcs
      BY <1>3, <2>1, <2>2 DEF TrainPcs
    <3> QED
      BY <1>3, <2>2, <2>3, <3>1 DEF Shape
  <2>5. Place(proc')
    <3>1. ~Finishing(proc') /\ ~Writing(proc')
      BY <2>2 DEF Writing, Finishing
    <3> QED
      BY <1>1, <1>3, <2>1, <2>2, <3>1 DEF Place
  <2>6. Steps(proc')
    <3>2. Ordered(proc.weights, proc.rng + 1)
      <4> DEFINE i == proc.rng - InHand(proc)
                 j == proc.rng + 1
      <4>1. i \in Int /\ j \in Int /\ i <= j /\ Ordered(proc.weights, i)
        BY <1>3 DEF Steps
      <4> HIDE DEF i, j
      <4>2. Ordered(proc.weights, j)
        BY <4>1, OrderedLater
      <4> QED
        BY <4>2 DEF j
    <3>3. proc'.rng - InHand(proc') = proc.rng + 1
      BY <1>3, <2>1, <2>3
    <3>4. Len(proc.weights) \in Nat /\ Len(proc.weights) <= proc.iter
      BY <1>1, <1>3 DEF Steps, InBatch, Ordered
    <3>5. InBatch(proc') /\ ~Finishing(proc') /\ Len(proc.weights) <= proc'.iter
      BY <1>3, <2>1, <2>2, <3>4 DEF InBatch, Finishing, Writing
    <3>6. proc.adam = proc.weights
      BY <1>3 DEF Steps
    <3> QED
      BY <2>2, <3>2, <3>3, <3>5, <3>6 DEF Steps
  <2>7. Marks(proc')
    <3>1. InBatch(proc') /\ InBatch(proc) /\ ~Finishing(proc)
      BY <1>1, <2>2 DEF InBatch, Finishing, Writing
    <3>2. \A i \in DOMAIN proc.losses : i < proc'.iter
      <4> DEFINE m2 == proc.start + Mark2
                 m3 == proc.start + Mark3
      <4>1. m2 \in Int /\ m3 \in Int /\ \A i \in DOMAIN proc.losses : i \in {m2, m3} /\ i < proc.iter
        BY <1>3, <3>1, MarkNumbers DEF Marks
      <4> QED
        BY <1>3, <2>1, <4>1
    <3> QED
      BY <1>3, <2>1, <2>2, <2>3, <3>1, <3>2 DEF Marks
  <2> QED
    BY <2>4, <2>5, <2>6, <2>7 DEF TrainInv
<1>6. CASE proc' = good /\ loss \in {1, 2}
  <2>0. /\ DOMAIN proc' = TrainFields
        /\ proc'.rng = proc.rng + 1 /\ proc'.batch = Append(proc.batch, win) /\ proc'.sum = proc.sum + loss
        /\ proc'.pc = IF Len(proc.batch) + 1 = proc.batchSize THEN "step" ELSE proc.pc
        /\ \A x \in TrainFields \ {"rng", "batch", "sum", "pc"} : proc'[x] = proc[x]
    BY <1>3, <1>6 DEF TrainFields
  <2> HIDE DEF bad, good, q
  <2>1. /\ DOMAIN proc' = TrainFields
        /\ proc'.rng = proc.rng + 1 /\ proc'.batch = Append(proc.batch, win) /\ proc'.sum = proc.sum + loss
        /\ proc'.pc = IF InHand(proc) + 1 = proc.batchSize THEN "step" ELSE "draw"
    BY <1>1, <2>0 DEF InHand
  <2>2. /\ proc'.batchSize = proc.batchSize /\ proc'.start = proc.start /\ proc'.iter = proc.iter
        /\ proc'.total = proc.total /\ proc'.weights = proc.weights /\ proc'.adam = proc.adam
        /\ proc'.ref = proc.ref /\ proc'.losses = proc.losses /\ proc'.aborted = proc.aborted
    BY <2>0 DEF TrainFields
  <2>4. IsSequence(proc'.batch) /\ InHand(proc') = InHand(proc) + 1
    <3>1. PICK W : proc.batch \in Seq(W)
      BY <1>3 DEF Shape, IsSequence
    <3>2. proc.batch \in Seq(W \cup {win}) /\ win \in W \cup {win}
      BY <3>1
    <3>3. /\ Append(proc.batch, win) \in Seq(W \cup {win})
          /\ Len(Append(proc.batch, win)) = Len(proc.batch) + 1
      BY <3>2, AppendProperties
    <3> QED
      BY <2>1, <3>3 DEF IsSequence, InHand
  <2>5. Shape(proc')
    <3>1. loss \in Nat /\ proc'.pc \in TrainPcs
      BY <1>6, <2>1 DEF TrainPcs
    <3> QED
      BY <1>3, <2>1, <2>2, <2>4, <3>1 DEF Shape
  <2>6. Place(proc')
    <3>1. ~Finishing(proc') /\ ~Writing(proc')
      BY <2>1 DEF Writing, Finishing
    <3> QED
      BY <1>1, <1>3, <2>1, <2>2, <2>4, <3>1 DEF Place
  <2>7. Steps(proc')
    <3>1. proc'.rng - InHand(proc') = proc.rng - InHand(proc)
      BY <1>3, <2>1, <2>4
    <3>2. InBatch(proc') /\ InBatch(proc) /\ ~Finishing(proc')
      BY <1>1, <2>1 DEF InBatch, Finishing, Writing
    <3> QED
      BY <1>3, <2>2, <3>1, <3>2 DEF Steps
  <2>8. Marks(proc')
    <3>1. InBatch(proc') /\ InBatch(proc) /\ ~Finishing(proc)
      BY <1>1, <2>1 DEF InBatch, Finishing, Writing
    <3> QED
      BY <1>3, <1>6, <2>1, <2>2, <2>4, <3>1 DEF Marks
  <2> QED
    BY <2>5, <2>6, <2>7, <2>8 DEF TrainInv
<1> QED
  BY <1>2, <1>4, <1>5, <1>6

\* What the stall detector knows after a step: the losses of the marks passed,
\* and a stall when both were and the later one is not below 98%.
LEMMA StepMarks ==
  ASSUME TrainInv(proc), proc.pc = "step", NEW losses, NEW ref,
         losses = IF AtMark(proc.iter) THEN With(proc.losses, proc.iter, proc.sum) ELSE proc.losses,
         ref = IF proc.iter = proc.start + Mark2 THEN proc.sum ELSE proc.ref
  PROVE  LET m2 == proc.start + Mark2
             m3 == proc.start + Mark3
         IN  /\ DOMAIN losses \subseteq {m2, m3}
             /\ \A i \in DOMAIN losses :
                  losses[i] \in Nat /\ losses[i] <= 2 * proc.batchSize /\ i <= proc.iter
             /\ ref = IF m2 \in DOMAIN losses THEN losses[m2] ELSE proc.batchSize * NoLoss
             /\ (proc.iter = m3 /\ Stalled(proc.sum, ref))
                  <=> /\ m2 \in DOMAIN losses /\ m3 \in DOMAIN losses
                      /\ 100 * losses[m3] > 98 * losses[m2]
<1> DEFINE m2 == proc.start + Mark2
           m3 == proc.start + Mark3
           old == proc.losses
           bs == proc.batchSize
           sum == proc.sum
           it == proc.iter
<1>1. /\ m2 \in Nat /\ m3 \in Nat /\ m2 < m3
      /\ bs \in Nat /\ bs > 0 /\ sum \in Nat /\ it \in Nat /\ sum <= 2 * bs
  BY MarkNumbers DEF TrainInv, Shape, Place, Marks
<1>2. /\ DOMAIN old \subseteq {m2, m3}
      /\ \A i \in DOMAIN old : old[i] \in Nat /\ old[i] <= 2 * bs /\ i < it
      /\ proc.ref = IF m2 \in DOMAIN old THEN old[m2] ELSE bs * NoLoss
      /\ ~(m2 \in DOMAIN old /\ m3 \in DOMAIN old /\ 100 * old[m3] > 98 * old[m2])
  BY DEF TrainInv, Marks, InBatch, Finishing, Writing
<1>3. AtMark(it) <=> it \in {m2, m3}
  BY DEF AtMark
<1>4. losses = (IF it \in {m2, m3} THEN With(old, it, sum) ELSE old) /\ ref = IF it = m2 THEN sum ELSE proc.ref
  BY <1>3
<1>5. Stalled(sum, ref) <=> 100 * sum > 98 * ref
  BY DEF Stalled
<1> HIDE DEF m2, m3, old, bs, sum, it
<1>6. CASE it \notin {m2, m3}
  <2>1. losses = old /\ ref = proc.ref /\ it # m3
    BY <1>4, <1>6
  <2> QED
    BY <1>1, <1>2, <2>1 DEF m2, m3, bs, it, sum
<1>7. CASE it = m2
  <2>1. /\ DOMAIN losses = DOMAIN old \cup {m2} /\ losses[m2] = sum
        /\ \A i \in DOMAIN old : i # m2 => losses[i] = old[i]
    <3>1. losses = With(old, m2, sum)
      BY <1>4, <1>7
    <3> QED
      BY <3>1 DEF With
  <2>2. m3 \notin DOMAIN losses
    BY <1>1, <1>2, <1>7, <2>1
  <2>3. ref = sum /\ it # m3
    BY <1>1, <1>4, <1>7
  <2>4. \A i \in DOMAIN losses : losses[i] \in Nat /\ losses[i] <= 2 * bs /\ i <= it
    BY <1>1, <1>2, <1>7, <2>1
  <2> QED
    BY <1>1, <1>2, <2>1, <2>2, <2>3, <2>4 DEF m2, m3, bs, it, sum
<1>8. CASE it = m3
  <2>1. /\ DOMAIN losses = DOMAIN old \cup {m3} /\ losses[m3] = sum
        /\ \A i \in DOMAIN old : i # m3 => losses[i] = old[i]
    <3>1. losses = With(old, m3, sum)
      BY <1>4, <1>8
    <3> QED
      BY <3>1 DEF With
  <2>2. ref = proc.ref /\ m2 # m3
    BY <1>1, <1>4, <1>8
  <2>3. m2 \in DOMAIN losses <=> m2 \in DOMAIN old
    BY <2>1, <2>2
  <2>4. ref = IF m2 \in DOMAIN losses THEN losses[m2] ELSE bs * NoLoss
    BY <1>2, <2>1, <2>2, <2>3
  <2>5. \A i \in DOMAIN losses : losses[i] \in Nat /\ losses[i] <= 2 * bs /\ i <= it
    BY <1>1, <1>2, <1>8, <2>1
  <2>6. 100 * sum > 98 * ref <=> m2 \in DOMAIN losses /\ 100 * losses[m3] > 98 * losses[m2]
    <3>1. CASE m2 \in DOMAIN losses
      BY <2>1, <2>4, <3>1
    <3>2. CASE m2 \notin DOMAIN losses
      <4>1. ref = bs * 1000000
        BY <2>4, <3>2 DEF NoLoss
      <4>2. ~(100 * sum > 98 * ref)
        BY <1>1, <4>1
      <4> QED
        BY <3>2, <4>2
    <3> QED
      BY <3>1, <3>2
  <2>7. DOMAIN losses \subseteq {m2, m3} /\ m3 \in DOMAIN losses
    BY <1>2, <2>1
  <2> QED
    BY <1>5, <1>8, <2>4, <2>5, <2>6, <2>7 DEF m2, m3, bs, it, sum
<1> QED
  BY <1>6, <1>7, <1>8

\* The optimiser's step, of windows that belong to no earlier one.
LEMMA StepInv ==
  ASSUME TrainInv(proc), Step
  PROVE  TrainInv(proc')
<1> DEFINE draws == <<proc.rng - proc.batchSize, proc.rng - 1>>
           ws == Append(proc.weights, draws)
           losses == IF AtMark(proc.iter) THEN With(proc.losses, proc.iter, proc.sum) ELSE proc.losses
           ref == IF proc.iter = proc.start + Mark2 THEN proc.sum ELSE proc.ref
           q == [proc EXCEPT !.weights = Append(@, draws), !.adam = Append(@, draws),
                             !.batch = <<>>, !.sum = 0,
                             !.ref = IF proc.iter = proc.start + Mark2 THEN proc.sum ELSE @,
                             !.losses = IF AtMark(proc.iter)
                                        THEN With(proc.losses, proc.iter, proc.sum) ELSE @]
           stall == proc.iter = proc.start + Mark3 /\ Stalled(proc.sum, q.ref)
           end  == [q EXCEPT !.pc = "done", !.aborted = TRUE]
           save == [q EXCEPT !.pc = "save create"]
           next == [q EXCEPT !.pc = "draw", !.iter = @ + 1]
<1>1. /\ proc.pc = "step"
      /\ proc' = CASE stall -> end
                   [] proc.iter > proc.start /\ proc.iter % SavePeriod = 0 /\ ~stall -> save
                   [] OTHER -> next
  BY DEF Step
<1>2. \/ stall /\ proc' = end
      \/ ~stall /\ proc' = save
      \/ ~stall /\ proc' = next
  <2> HIDE DEF stall, end, save, next
  <2> QED
    BY <1>1
<1>3. /\ DOMAIN proc = TrainFields /\ Shape(proc) /\ Place(proc) /\ Steps(proc) /\ Marks(proc)
      /\ proc.batchSize \in Nat \ {0} /\ proc.start \in Nat /\ proc.iter \in Nat /\ proc.total \in Nat
      /\ proc.rng \in Int /\ proc.start <= proc.iter /\ proc.iter < proc.total
      /\ proc.aborted = FALSE /\ InHand(proc) = proc.batchSize
  BY <1>1 DEF TrainInv, Shape, Place, Marks, Finishing, Writing
<1>4. /\ DOMAIN q = TrainFields
      /\ q.weights = Append(proc.weights, draws) /\ q.adam = Append(proc.adam, draws)
      /\ q.batch = <<>> /\ q.sum = 0 /\ q.ref = ref /\ q.losses = losses
      /\ \A x \in TrainFields \ {"weights", "adam", "batch", "sum", "ref", "losses"} : q[x] = proc[x]
  BY <1>3 DEF TrainFields
<1>5. /\ q.iter = proc.iter /\ q.rng = proc.rng /\ q.total = proc.total /\ q.start = proc.start
      /\ q.batchSize = proc.batchSize /\ q.aborted = FALSE
  BY <1>3, <1>4 DEF TrainFields
<1>6a. /\ proc'.pc \in {"done", "save create", "draw"}
       /\ proc'.pc = "draw" => proc'.iter = proc.iter + 1
       /\ proc'.pc # "draw" => proc'.iter = proc.iter
       /\ proc'.pc = "done" <=> stall
       /\ proc'.aborted \in BOOLEAN /\ (proc'.aborted <=> stall)
       /\ DOMAIN proc' = TrainFields
       /\ \A x \in TrainFields \ {"pc", "iter", "aborted"} : proc'[x] = q[x]
  <2> HIDE DEF q, stall
  <2>1. CASE stall /\ proc' = end
    BY <1>4, <1>5, <2>1 DEF TrainFields
  <2>2. CASE ~stall /\ proc' = save
    BY <1>4, <1>5, <2>2 DEF TrainFields
  <2>3. CASE ~stall /\ proc' = next
    BY <1>4, <1>5, <2>3 DEF TrainFields
  <2> QED
    BY <1>2, <2>1, <2>2, <2>3
<1>6. /\ proc'.pc \in {"done", "save create", "draw"}
      /\ proc'.pc = "draw" => proc'.iter = proc.iter + 1
      /\ proc'.pc # "draw" => proc'.iter = proc.iter
      /\ proc'.pc = "done" <=> stall
      /\ proc'.aborted \in BOOLEAN /\ (proc'.aborted <=> stall)
      /\ DOMAIN proc' = TrainFields
      /\ proc'.iter \in {proc.iter, proc.iter + 1}
  <2> HIDE DEF q, stall
  <2> QED
    BY <1>6a
<1>7. stall <=> proc.iter = proc.start + Mark3 /\ Stalled(proc.sum, ref)
  BY <1>4
<1>8. /\ proc'.weights = ws /\ proc'.adam = Append(proc.adam, draws)
      /\ proc'.batch = <<>> /\ proc'.sum = 0 /\ proc'.ref = ref /\ proc'.losses = losses
      /\ proc'.rng = proc.rng /\ proc'.total = proc.total /\ proc'.start = proc.start
      /\ proc'.batchSize = proc.batchSize
  <2> HIDE DEF q
  <2> QED
    BY <1>4, <1>5, <1>6a DEF TrainFields
<1> HIDE DEF q, end, save, next, stall, losses, ref, ws, draws
<1>9. IsSequence(proc'.batch) /\ InHand(proc') = 0
  <2>1. proc'.batch \in Seq({}) /\ Len(proc'.batch) = 0
    BY <1>8
  <2> QED
    BY <2>1 DEF IsSequence, InHand
<1>10. Shape(proc')
  <2>1. /\ DOMAIN proc' = TrainFields /\ proc'.pc \in TrainPcs /\ proc'.iter \in Nat /\ proc'.sum \in Nat
        /\ proc'.aborted \in BOOLEAN
    <3>1. proc.iter \in Nat /\ proc'.iter \in {proc.iter, proc.iter + 1}
      BY <1>3, <1>6
    <3>2. proc'.iter \in Nat
      BY <3>1
    <3>3. proc'.pc \in TrainPcs
      BY <1>6 DEF TrainPcs
    <3>4. DOMAIN proc' = TrainFields
      BY <1>6
    <3>5. proc'.aborted \in BOOLEAN
      BY <1>6
    <3>6. proc'.sum \in Nat
      BY <1>8
    <3> QED
      BY <3>2, <3>3, <3>4, <3>5, <3>6
  <2> QED
    BY <1>3, <1>8, <1>9, <2>1 DEF Shape
<1>11. Place(proc')
  <2>1. ~Writing(proc') /\ (Finishing(proc') <=> proc'.pc = "done")
    BY <1>6 DEF Writing, Finishing
  <2> QED
    <3>0. proc'.start = proc.start /\ proc'.total = proc.total
      BY <1>8
    <3>1. proc'.pc # "step" /\ proc'.start <= proc'.iter /\ proc'.iter <= proc'.total
      <4>1. proc'.pc # "step" /\ proc'.iter \in {proc.iter, proc.iter + 1}
        BY <1>6
      <4> QED
        BY <1>3, <3>0, <4>1
    <3>2. proc'.pc # "draw" => proc'.iter < proc'.total
      BY <1>3, <1>6, <3>0
    <3> QED
      BY <2>1, <3>1, <3>2 DEF Place
<1>12. Steps(proc')
  <2> DEFINE a == proc.rng - proc.batchSize
             b == proc.rng - 1
  <2>1. a \in Int /\ b \in Int /\ proc.rng \in Int /\ Ordered(proc.weights, a) /\ b < proc.rng
    BY <1>3 DEF Steps
  <2>2. Ordered(Append(proc.weights, <<a, b>>), proc.rng) /\ Len(Append(proc.weights, <<a, b>>)) = Len(proc.weights) + 1
    <3> HIDE DEF a, b
    <3> QED
      BY <2>1, OrderedAppend
  <2>3. Ordered(ws, proc.rng) /\ Len(ws) = Len(proc.weights) + 1
    BY <2>2 DEF ws, draws
  <2>4. proc.adam = proc.weights /\ Len(proc.weights) \in Nat /\ Len(proc.weights) <= proc.iter
    BY <1>1, <1>3 DEF Steps, InBatch, Ordered
  <2>5. proc'.rng - InHand(proc') = proc.rng
    BY <1>3, <1>8, <1>9
  <2>6. Len(ws) <= proc.iter + 1 /\ Len(ws) <= proc.total
    <3> DEFINE m == Len(proc.weights)
    <3>1. m \in Nat /\ m <= proc.iter /\ Len(ws) = m + 1
      BY <2>3, <2>4
    <3> HIDE DEF m, ws
    <3> QED
      BY <1>3, <3>1
  <2>7. (InBatch(proc') => proc'.iter = proc.iter + 1) /\ (~InBatch(proc') => proc'.iter = proc.iter)
    BY <1>6 DEF InBatch
  <2>8. Len(ws) <= IF InBatch(proc') THEN proc'.iter ELSE proc'.iter + 1
    BY <2>6, <2>7
  <2>9. proc'.adam = proc'.weights
    BY <1>8, <2>4 DEF ws
  <2> QED
    BY <1>8, <2>3, <2>5, <2>6, <2>8, <2>9 DEF Steps
<1>13. Marks(proc')
  <2> DEFINE m2 == proc.start + Mark2
             m3 == proc.start + Mark3
  <2>1. /\ DOMAIN losses \subseteq {m2, m3}
        /\ \A i \in DOMAIN losses :
             losses[i] \in Nat /\ losses[i] <= 2 * proc.batchSize /\ i <= proc.iter
        /\ ref = IF m2 \in DOMAIN losses THEN losses[m2] ELSE proc.batchSize * NoLoss
        /\ stall <=> /\ m2 \in DOMAIN losses /\ m3 \in DOMAIN losses
                     /\ 100 * losses[m3] > 98 * losses[m2]
    BY <1>1, <1>7, StepMarks DEF losses, ref
  <2>2. /\ InBatch(proc') <=> proc'.pc = "draw"
        /\ proc'.aborted => Finishing(proc')
    BY <1>6 DEF InBatch, Finishing
  <2>3. \A i \in DOMAIN losses : i < proc'.iter \/ (i = proc'.iter /\ ~InBatch(proc'))
    <3>1. m2 \in Int /\ m3 \in Int
      BY <1>3, MarkNumbers
    <3> HIDE DEF m2, m3
    <3>2. ASSUME NEW i \in DOMAIN losses PROVE i \in Int /\ i <= proc.iter
      BY <2>1, <3>1
    <3>3. CASE proc'.pc = "draw"
      BY <1>3, <1>6, <3>2, <3>3
    <3>4. CASE proc'.pc # "draw"
      <4>1. proc'.iter = proc.iter /\ ~InBatch(proc')
        BY <1>6, <2>2, <3>4
      <4> QED
        BY <1>3, <3>2, <4>1
    <3> QED
      BY <3>3, <3>4
  <2>4. proc'.sum <= 2 * InHand(proc')
    BY <1>8, <1>9
  <2>5. proc'.aborted <=> /\ m2 \in DOMAIN losses /\ m3 \in DOMAIN losses
                          /\ 100 * losses[m3] > 98 * losses[m2]
    BY <1>6, <2>1
  <2> QED
    BY <1>8, <2>1, <2>2, <2>3, <2>4, <2>5 DEF Marks
<1> QED
  BY <1>10, <1>11, <1>12, <1>13 DEF TrainInv

\* A step that leaves everything but where the run is, and its numbers.
SameRun(p, q) ==
  /\ DOMAIN q = TrainFields
  /\ \A x \in TrainFields \ {"pc", "iter", "label", "savedIter"} : q[x] = p[x]

\* Such a step keeps the invariant when the run does not turn back.
LEMMA OnwardInv ==
  ASSUME NEW p, NEW q, TrainInv(p), SameRun(p, q), q.pc \in TrainPcs, q.iter \in Nat, Place(q),
         p.iter <= q.iter, InBatch(q) => InBatch(p) \/ p.iter < q.iter,
         Len(p.weights) <= IF InBatch(q) THEN q.iter ELSE q.iter + 1,
         Finishing(q) => Len(p.weights) <= p.total,
         p.aborted => Finishing(q)
  PROVE  TrainInv(q)
<1>1. /\ q.batchSize = p.batchSize /\ q.start = p.start /\ q.total = p.total /\ q.rng = p.rng
      /\ q.sum = p.sum /\ q.aborted = p.aborted /\ q.batch = p.batch /\ q.weights = p.weights
      /\ q.adam = p.adam /\ q.ref = p.ref /\ q.losses = p.losses
  BY DEF SameRun, TrainFields
<1>2. InHand(q) = InHand(p)
  BY <1>1 DEF InHand
<1>3. Shape(q)
  BY <1>1 DEF TrainInv, Shape, SameRun
<1>4. Steps(q)
  BY <1>1, <1>2 DEF TrainInv, Steps
<1>5. Marks(q)
  <2> DEFINE m2 == p.start + Mark2
             m3 == p.start + Mark3
  <2>1. p.iter \in Nat /\ q.iter \in Nat /\ m2 \in Int /\ m3 \in Int
    BY MarkNumbers DEF TrainInv, Shape
  <2>2. ASSUME NEW i \in DOMAIN p.losses PROVE i < q.iter \/ (i = q.iter /\ ~InBatch(q))
    <3>1. i \in {m2, m3} /\ (i < p.iter \/ (i = p.iter /\ ~InBatch(p)))
      BY DEF TrainInv, Marks
    <3> HIDE DEF m2, m3
    <3> QED
      BY <2>1, <3>1
  <2> QED
    BY <1>1, <1>2, <2>2 DEF TrainInv, Marks
<1> QED
  BY <1>3, <1>4, <1>5 DEF TrainInv

\* What the invariant says of where a run is.
LEMMA RunNumbers ==
  ASSUME NEW p, TrainInv(p)
  PROVE  /\ DOMAIN p = TrainFields
         /\ p.start \in Nat /\ p.iter \in Nat /\ p.total \in Nat /\ p.rng \in Int
         /\ p.start <= p.iter /\ p.iter <= p.total
         /\ p.pc # "draw" /\ ~Finishing(p) => p.iter < p.total
         /\ p.weights \in Seq(Draws) /\ p.adam = p.weights
         /\ Len(p.weights) \in Nat
         /\ Len(p.weights) <= IF InBatch(p) THEN p.iter ELSE p.iter + 1
         /\ Finishing(p) => Len(p.weights) <= p.total
         /\ p.aborted => Finishing(p)
         /\ Ordered(p.weights, p.rng)
<1>1. Ordered(p.weights, p.rng)
  <2> DEFINE i == p.rng - InHand(p)
             j == p.rng
  <2>1. InHand(p) \in Nat
    BY BatchLength DEF TrainInv, Shape
  <2>2. i \in Int /\ j \in Int /\ i <= j /\ Ordered(p.weights, i)
    BY <2>1 DEF TrainInv, Shape, Steps
  <2> HIDE DEF i
  <2> QED
    BY <2>2, OrderedLater
<1>2. p.weights \in Seq(Draws) /\ Len(p.weights) \in Nat
  BY <1>1 DEF Ordered
<1>3. /\ DOMAIN p = TrainFields
      /\ p.start \in Nat /\ p.iter \in Nat /\ p.total \in Nat /\ p.rng \in Int
      /\ p.start <= p.iter /\ p.iter <= p.total
      /\ p.pc # "draw" /\ ~Finishing(p) => p.iter < p.total
  BY DEF TrainInv, Shape, Place
<1>4. /\ p.adam = p.weights
      /\ Len(p.weights) <= IF InBatch(p) THEN p.iter ELSE p.iter + 1
      /\ Finishing(p) => Len(p.weights) <= p.total
      /\ p.aborted => Finishing(p)
  BY DEF TrainInv, Steps, Marks
<1> QED
  BY <1>1, <1>2, <1>3, <1>4

\* The last iteration was run.
LEMMA FinishLoopInv ==
  ASSUME TrainInv(proc), FinishLoop
  PROVE  TrainInv(proc')
<1> DEFINE q == [proc EXCEPT !.pc = "done"]
           m == Len(proc.weights)
<1>1. proc.pc = "draw" /\ proc.iter = proc.total /\ proc' = q
  BY DEF FinishLoop
<1>2. /\ DOMAIN proc = TrainFields /\ proc.start <= proc.iter /\ proc.iter \in Nat /\ proc.total \in Nat
      /\ m \in Nat /\ m <= proc.iter
  BY <1>1, RunNumbers DEF InBatch
<1>3. SameRun(proc, q) /\ q.pc = "done" /\ q.iter = proc.iter /\ q.start = proc.start /\ q.total = proc.total
  BY <1>2 DEF SameRun, TrainFields
<1> HIDE DEF q, m
<1>4. Place(q) /\ Finishing(q) /\ ~InBatch(q) /\ q.pc \in TrainPcs
  BY <1>1, <1>2, <1>3 DEF Place, Writing, Finishing, InBatch, TrainPcs
<1>5. m <= q.iter + 1 /\ m <= proc.total /\ q.iter \in Nat /\ proc.iter <= q.iter
  BY <1>1, <1>2, <1>3
<1>6. TrainInv(q)
  BY <1>3, <1>4, <1>5, OnwardInv DEF m
<1> QED
  BY <1>1, <1>6

\* A checkpoint's file is created.
LEMMA SaveCreateInv ==
  ASSUME TrainInv(proc), FilesInv, SaveCreate
  PROVE  TrainInv(proc') /\ FilesInv'
<1> DEFINE q == [proc EXCEPT !.pc = "save header", !.label = SaveLabel, !.savedIter = SaveIter]
           m == Len(proc.weights)
<1>1. proc.pc \in {"save create", "done"} /\ proc' = q /\ ckpts' = With(ckpts, SaveLabel, Empty)
  BY DEF SaveCreate
<1>2. /\ DOMAIN proc = TrainFields /\ proc.start <= proc.iter /\ proc.iter \in Nat /\ proc.total \in Nat
      /\ proc.iter <= proc.total
      /\ m \in Nat /\ m <= proc.iter + 1
      /\ Finishing(proc) => m <= proc.total
      /\ proc.aborted => Finishing(proc)
      /\ ~Finishing(proc) => proc.iter < proc.total
      /\ Finishing(proc) <=> proc.pc = "done"
  BY <1>1, RunNumbers DEF InBatch, Finishing, Writing
<1>3. /\ SameRun(proc, q) /\ q.pc = "save header" /\ q.iter = proc.iter /\ q.start = proc.start /\ q.total = proc.total
      /\ q.label = SaveLabel /\ q.savedIter = SaveIter
  BY <1>2 DEF SameRun, TrainFields
<1> HIDE DEF q, m
<1>4. IF proc.pc = "done" THEN q.label = Final /\ q.savedIter = proc.total
      ELSE q.label = proc.iter + 1 /\ q.savedIter = proc.iter + 1
  BY <1>3 DEF SaveLabel, SaveIter, AtEnd
<1>5. Finishing(q) <=> Finishing(proc)
  <2>1. q.label = Final <=> proc.pc = "done"
    <3>1. proc.iter \in Nat
      BY <1>2
    <3> QED
      BY <1>4, <3>1 DEF Final
  <2> QED
    BY <1>2, <1>3, <2>1 DEF Finishing, Writing
<1>6. Place(q) /\ ~InBatch(q) /\ q.pc \in TrainPcs
  BY <1>2, <1>3, <1>4, <1>5 DEF Place, Writing, InBatch, TrainPcs
<1>7. m <= q.iter + 1 /\ q.iter \in Nat /\ proc.iter <= q.iter
  <2>1. proc.iter \in Nat /\ m \in Nat /\ m <= proc.iter + 1
    BY <1>2
  <2>2. q.iter = proc.iter
    BY <1>3
  <2> QED
    BY <2>1, <2>2
<1>8. TrainInv(q)
  BY <1>2, <1>3, <1>5, <1>6, <1>7, OnwardInv DEF m
<1>9. FilesInv'
  BY <1>1 DEF FilesInv, With
<1> QED
  BY <1>1, <1>8, <1>9

\* Its header is written.
LEMMA SaveHeaderInv ==
  ASSUME TrainInv(proc), FilesInv, SaveHeader
  PROVE  TrainInv(proc') /\ FilesInv'
<1> DEFINE q == [proc EXCEPT !.pc = "save body"]
           m == Len(proc.weights)
           f == Written(TornCount, <<>>, <<>>)
<1>1. proc.pc = "save header" /\ proc' = q /\ ckpts' = With(ckpts, proc.label, f)
  BY DEF SaveHeader
<1>2. /\ DOMAIN proc = TrainFields /\ proc.start <= proc.iter /\ proc.iter \in Nat /\ proc.total \in Nat
      /\ proc.iter <= proc.total /\ proc.rng \in Int
      /\ m \in Nat /\ m <= proc.iter + 1
      /\ Finishing(proc) => m <= proc.total
      /\ proc.aborted => Finishing(proc)
      /\ ~Finishing(proc) => proc.iter < proc.total
  BY <1>1, RunNumbers DEF InBatch
<1>3. /\ SameRun(proc, q) /\ q.pc = "save body" /\ q.iter = proc.iter /\ q.start = proc.start /\ q.total = proc.total
      /\ q.label = proc.label /\ q.savedIter = proc.savedIter
  BY <1>2 DEF SameRun, TrainFields
<1>4. \/ proc.label = Final /\ proc.savedIter = proc.total
      \/ proc.label = proc.iter + 1 /\ proc.savedIter = proc.iter + 1
  BY <1>1 DEF TrainInv, Place, Writing
<1> HIDE DEF q, m
<1>5. Finishing(q) <=> Finishing(proc)
  BY <1>1, <1>3 DEF Finishing, Writing
<1>6. Place(q) /\ ~InBatch(q) /\ q.pc \in TrainPcs
  BY <1>2, <1>3, <1>4, <1>5 DEF Place, Writing, InBatch, TrainPcs
<1>7. m <= q.iter + 1 /\ q.iter \in Nat /\ proc.iter <= q.iter
  <2>1. proc.iter \in Nat /\ m \in Nat /\ m <= proc.iter + 1
    BY <1>2
  <2>2. q.iter = proc.iter
    BY <1>3
  <2> QED
    BY <2>1, <2>2
<1>8. TrainInv(q)
  BY <1>2, <1>3, <1>5, <1>6, <1>7, OnwardInv DEF m
<1>9. FileInv(f)
  <2>1. /\ f.iter = proc.savedIter /\ f.rng = proc.rng /\ f.weights = <<>> /\ f.adam = <<>>
    BY DEF Written
  <2>2. proc.savedIter \in Nat
    BY <1>2, <1>4
  <2>3. Ordered(<<>>, proc.rng) /\ Len(<<>>) = 0
    BY DEF Ordered
  <2> HIDE DEF f
  <2> QED
    BY <1>2, <2>1, <2>2, <2>3 DEF FileInv
<1> HIDE DEF f
<1>10. FilesInv'
  <2>1. ASSUME NEW l \in DOMAIN ckpts', ckpts'[l] # Empty PROVE FileInv(ckpts'[l])
    BY <1>1, <1>9, <2>1 DEF FilesInv, With
  <2> QED
    BY <2>1 DEF FilesInv, FileInv, Ordered
<1> QED
  BY <1>1, <1>8, <1>10

\* Its body is written: the file is whole, and the run goes on or ends.
LEMMA SaveBodyInv ==
  ASSUME TrainInv(proc), FilesInv, SaveBody
  PROVE  (TrainInv(proc') \/ proc' = Idle) /\ FilesInv'
<1> DEFINE q == [proc EXCEPT !.pc = "draw", !.iter = @ + 1]
           m == Len(proc.weights)
           f == Written(proc.count, proc.weights, proc.adam)
<1>1. /\ proc.pc = "save body" /\ ckpts' = With(ckpts, proc.label, f)
      /\ proc' = IF proc.label = Final THEN Idle ELSE q
  BY DEF SaveBody
<1>2. /\ DOMAIN proc = TrainFields /\ proc.start <= proc.iter /\ proc.iter \in Nat /\ proc.total \in Nat
      /\ proc.iter <= proc.total /\ proc.rng \in Int
      /\ m \in Nat /\ m <= proc.iter + 1
      /\ Finishing(proc) => m <= proc.total
      /\ proc.aborted => Finishing(proc)
      /\ ~Finishing(proc) => proc.iter < proc.total
      /\ proc.adam = proc.weights
      /\ Ordered(proc.weights, proc.rng)
      /\ Finishing(proc) <=> proc.label = Final
  BY <1>1, RunNumbers DEF InBatch, Finishing, Writing
<1>4. \/ proc.label = Final /\ proc.savedIter = proc.total
      \/ proc.label = proc.iter + 1 /\ proc.savedIter = proc.iter + 1
  BY <1>1 DEF TrainInv, Place, Writing
<1>5. ASSUME proc.label = Final PROVE proc' = Idle
  BY <1>1, <1>5
<1>6. ASSUME proc.label # Final PROVE TrainInv(proc')
  <2>1. /\ SameRun(proc, q) /\ q.pc = "draw" /\ q.iter = proc.iter + 1 /\ q.start = proc.start /\ q.total = proc.total
    BY <1>2 DEF SameRun, TrainFields
  <2> HIDE DEF q, m
  <2>2. ~Finishing(q) /\ ~Writing(q) /\ InBatch(q) /\ q.pc \in TrainPcs
    BY <2>1 DEF Finishing, Writing, InBatch, TrainPcs
  <2>3. Place(q)
    <3>1. /\ proc.iter \in Nat /\ proc.total \in Nat /\ proc.start \in Nat
          /\ proc.start <= proc.iter /\ proc.iter < proc.total
      BY <1>2, <1>6, RunNumbers
    <3>2. q.iter = proc.iter + 1 /\ q.start = proc.start /\ q.total = proc.total /\ q.pc = "draw"
      BY <2>1
    <3>3. q.start <= q.iter /\ q.iter <= q.total
      BY <3>1, <3>2
    <3> QED
      BY <2>2, <3>2, <3>3 DEF Place
  <2>4. m <= q.iter /\ q.iter \in Nat /\ proc.iter < q.iter /\ proc.iter <= q.iter
    BY <1>2, <2>1
  <2>5. TrainInv(q)
    BY <1>2, <1>6, <2>1, <2>2, <2>3, <2>4, OnwardInv DEF m
  <2>6. proc' = q
    BY <1>1, <1>6
  <2> QED
    BY <2>5, <2>6
<1>9. FileInv(f)
  <2>1. f.iter = proc.savedIter /\ f.rng = proc.rng /\ f.weights = proc.weights /\ f.adam = proc.adam
    BY DEF Written
  <2>2. proc.savedIter \in Nat /\ m <= proc.savedIter
    <3> HIDE DEF m
    <3> QED
      BY <1>2, <1>4
  <2> HIDE DEF f
  <2> QED
    BY <1>2, <2>1, <2>2 DEF FileInv
<1> HIDE DEF f
<1>10. FilesInv'
  <2>1. ASSUME NEW l \in DOMAIN ckpts', ckpts'[l] # Empty PROVE FileInv(ckpts'[l])
    BY <1>1, <1>9, <2>1 DEF FilesInv, With
  <2> QED
    BY <2>1 DEF FilesInv, FileInv, Ordered
<1> QED
  BY <1>5, <1>6, <1>10

\* A run starts, anew or from a checkpoint.
LEMMA StartTrainInv ==
  ASSUME FilesInv, NEW a \in Jobs, NEW from \in DOMAIN ckpts \cup {C!NoPath}, StartTrain(a, from)
  PROVE  TrainInv(proc')
<1> DEFINE c == C!ConfigOf(a)
           n == C!CountTrainable(c, kwds.bands)
           r == IF from = C!NoPath THEN Fresh ELSE Resumed(ckpts[from], n)
           q == [pc |-> "draw", count |-> n, seq |-> c.seq_len,
                 batchSize |-> BatchSize(c),
                 start |-> r.iter, total |-> r.iter + c.n_iters,
                 iter |-> r.iter, rng |-> r.rng, weights |-> r.weights, adam |-> r.adam,
                 batch |-> <<>>, sum |-> 0, ref |-> BatchSize(c) * NoLoss,
                 losses |-> [i \in {} |-> 0], aborted |-> FALSE,
                 label |-> Final, savedIter |-> r.iter]
<1>1. proc' = q /\ a.command # "convert-dataset" /\ Resumable(from)
  BY DEF StartTrain, Starts
<1>2. c.n_iters \in Nat /\ BatchSize(c) \in Nat \ {0}
  BY <1>1, CountsNatural DEF BatchSize
<1> HIDE DEF c, n
<1>3. /\ r.iter \in Nat /\ r.rng \in Int /\ r.adam = r.weights /\ Ordered(r.weights, r.rng)
      /\ Len(r.weights) <= r.iter
  <2>1. \A i \in Int : Ordered(<<>>, i) /\ Len(<<>>) = 0
    BY DEF Ordered
  <2>2. CASE from = C!NoPath
    BY <2>1, <2>2 DEF Fresh
  <2>3. CASE from # C!NoPath
    <3> DEFINE f == ckpts[from]
    <3>1. FileInv(f)
      BY <1>1, <2>3 DEF Resumable, FilesInv
    <3> HIDE DEF f
    <3>2. /\ r.iter = f.iter /\ r.rng = f.rng
          /\ r.weights = IF f.count = n THEN f.weights ELSE <<>>
          /\ r.adam = IF f.count = n THEN f.adam ELSE <<>>
      BY <2>3 DEF Resumed, f
    <3> HIDE DEF r
    <3>3. CASE f.count = n
      BY <3>1, <3>2, <3>3 DEF FileInv
    <3>4. CASE f.count # n
      BY <2>1, <3>1, <3>2, <3>4 DEF FileInv
    <3> QED
      BY <3>3, <3>4
  <2> QED
    BY <2>2, <2>3
<1> HIDE DEF r
<1>4. /\ q.pc = "draw" /\ q.batchSize = BatchSize(c) /\ q.start = r.iter /\ q.total = r.iter + c.n_iters
      /\ q.iter = r.iter /\ q.rng = r.rng /\ q.weights = r.weights /\ q.adam = r.adam
      /\ q.batch = <<>> /\ q.sum = 0 /\ q.ref = BatchSize(c) * NoLoss /\ DOMAIN q.losses = {}
      /\ q.aborted = FALSE
      /\ DOMAIN q = TrainFields
  BY DEF TrainFields
<1> HIDE DEF q
<1>5. IsSequence(q.batch) /\ InHand(q) = 0
  <2>1. q.batch \in Seq({}) /\ Len(q.batch) = 0
    BY <1>4
  <2> QED
    BY <2>1 DEF IsSequence, InHand
<1>6. InBatch(q) /\ ~Finishing(q) /\ ~Writing(q) /\ q.pc \in TrainPcs
  BY <1>4 DEF InBatch, Finishing, Writing, TrainPcs
<1>7. /\ q.batchSize \in Nat \ {0} /\ q.start \in Nat /\ q.iter \in Nat /\ q.total \in Nat /\ q.rng \in Int
      /\ q.sum \in Nat /\ q.aborted \in BOOLEAN /\ q.start <= q.iter /\ q.iter <= q.total
  <2>1. /\ q.batchSize = BatchSize(c) /\ q.start = r.iter /\ q.total = r.iter + c.n_iters
        /\ q.iter = r.iter /\ q.rng = r.rng /\ q.sum = 0 /\ q.aborted = FALSE
    BY <1>4
  <2>2. r.iter \in Nat /\ r.rng \in Int
    BY <1>3
  <2>3. q.aborted \in BOOLEAN /\ q.sum \in Nat /\ q.batchSize \in Nat \ {0} /\ q.rng \in Int /\ q.iter \in Nat
    <3>1. q.batchSize \in Nat \ {0}
      BY <1>2, <2>1
    <3>2. q.rng \in Int /\ q.iter \in Nat
      BY <2>1, <2>2
    <3>3. q.sum \in Nat
      BY <2>1
    <3>4. q.aborted \in BOOLEAN
      BY <2>1
    <3> QED
      BY <3>1, <3>2, <3>3, <3>4
  <2>4. q.total \in Nat /\ q.start \in Nat /\ q.start <= q.iter /\ q.iter <= q.total
    <3> DEFINE k == c.n_iters
    <3>1. k \in Nat /\ q.total = r.iter + k
      BY <1>2, <2>1
    <3> HIDE DEF k
    <3> QED
      BY <2>1, <2>2, <3>1
  <2> QED
    BY <2>3, <2>4
<1>8. Shape(q)
  BY <1>4, <1>5, <1>6, <1>7 DEF Shape
<1>9. Place(q)
  BY <1>4, <1>6, <1>7 DEF Place
<1>10. Steps(q)
  <2>1. q.rng - InHand(q) = r.rng
    BY <1>4, <1>5, <1>7
  <2> QED
    BY <1>3, <1>4, <1>6, <2>1 DEF Steps
<1>11. Marks(q)
  BY <1>4, <1>5 DEF Marks
<1> QED
  BY <1>1, <1>8, <1>9, <1>10, <1>11 DEF TrainInv

-----------------------------------------------------------------------------
(* Conversions *)

ConvFields == {"pc", "mode", "model", "toks", "vocab", "src", "sizeAtLoad", "size", "at"}

CachePcs == {"cache create", "cache header", "cache tokens"}
ConvPcs  == CachePcs \cup {"kwds create", "kwds header", "kwds records"}

\* Tokens and vocabulary are those of one text that the source has had, of the
\* given size unless its cache was labelled too late.
OfText(mode, toks, vocab, size, s) ==
  /\ SourceText(s) # Exit
  /\ toks = Encoded[mode][s].toks
  /\ vocab = Encoded[mode][s].vocab
  /\ s.size = size \/ s \in raced

Genuine(mode, toks, vocab, size) == \E s \in held : OfText(mode, toks, vocab, size, s)

\* What a conversion works on.  Until its cache is written, the text is the one
\* it read, and the cache is labelled with that text's size or the race is known.
ConvInv(p) ==
  /\ DOMAIN p = ConvFields
  /\ p.pc \in ConvPcs
  /\ p.mode \in Modes /\ p.toks \in Seq(Nat) /\ p.at \in Nat
  /\ Genuine(p.mode, p.toks, p.vocab, p.sizeAtLoad)
  /\ p.pc = "cache create" =>
       p.src \in held /\ OfText(p.mode, p.toks, p.vocab, p.src.size, p.src)
  /\ p.pc \in {"cache header", "cache tokens"} =>
       Genuine(p.mode, p.toks, p.vocab, p.size)
  /\ p.pc \in {"cache create", "cache header"} => p.at = 0

CacheFields == {"size", "total", "vocab", "toks"}

\* A cache that is whole is genuine.
CacheInv(m, c) ==
  \/ c \in {None, Empty}
  \/ /\ DOMAIN c = CacheFields
     /\ c.toks \in Seq(Nat)
     /\ Len(c.toks) = c.total => Genuine(m, c.toks, c.vocab, c.size)

\* The cache a conversion writes holds no more tokens than were written, and
\* when none was lost they are the first ones.
Partial(p, c) ==
  /\ DOMAIN c = CacheFields
  /\ c.total = Len(p.toks) /\ c.vocab = p.vocab /\ c.size = p.size
  /\ c.toks \in Seq(Nat)
  /\ p.at < Len(p.toks) /\ Len(c.toks) <= p.at
  /\ Len(c.toks) = p.at => \A i \in 1 .. p.at : c.toks[i] = p.toks[i]

TextInv ==
  /\ source \in held /\ held \subseteq Sources
  /\ "pc" \in DOMAIN proc
  /\ "toks" \in DOMAIN proc \/ proc.pc \in ConvPcs => ConvInv(proc)
  /\ proc.pc = "load" => proc.mode \in Modes
  /\ DOMAIN caches = Modes
  /\ \A m \in Modes : CacheInv(m, caches[m])
  /\ proc.pc = "cache tokens" => Partial(proc, caches[proc.mode])

\* What was genuine stays so when the source is edited or a race is seen.
LEMMA GenuineStays ==
  ASSUME NEW mode, NEW toks, NEW vocab, NEW size, Genuine(mode, toks, vocab, size),
         held \subseteq held', raced \subseteq raced'
  PROVE  Genuine(mode, toks, vocab, size)'
BY DEF Genuine, OfText

\* Nothing but the source and what is known of it changed.
LEMMA TextStays ==
  ASSUME TextInv, source' \in held', held \subseteq held', held' \subseteq Sources,
         raced \subseteq raced', UNCHANGED <<caches, proc>>
  PROVE  TextInv'
<1>1. ASSUME NEW m \in Modes, NEW c, CacheInv(m, c) PROVE CacheInv(m, c)'
  BY <1>1, GenuineStays DEF CacheInv
<1>2. ASSUME ConvInv(proc) PROVE ConvInv(proc)'
  <2>1. OfText(proc.mode, proc.toks, proc.vocab, proc.src.size, proc.src)
          => OfText(proc.mode, proc.toks, proc.vocab, proc.src.size, proc.src)'
    BY DEF OfText
  <2> QED
    BY <1>2, <2>1, GenuineStays DEF ConvInv
<1>3. \A m \in Modes : CacheInv(m, caches[m])'
  BY <1>1 DEF TextInv
<1> QED
  BY <1>2, <1>3 DEF TextInv, Partial

\* The process changed, and it does not convert.
LEMMA TextElsewhere ==
  ASSUME TextInv, UNCHANGED <<source, held, raced, caches>>,
         "pc" \in DOMAIN proc', "toks" \notin DOMAIN proc', proc'.pc \notin ConvPcs,
         proc'.pc = "load" => proc'.mode \in Modes
  PROVE  TextInv'
<1>1. proc'.pc # "cache tokens"
  BY DEF ConvPcs, CachePcs
<1> QED
  BY <1>1 DEF TextInv, CacheInv, Genuine, OfText

\* A conversion does not train, and while it has tokens they are genuine.
LEMMA ConvElsewhere ==
  ASSUME NEW p, DOMAIN p = ConvFields, p.pc \in ConvPcs
  PROVE  Elsewhere(p)
BY DEF Elsewhere, ConvFields, ConvPcs, CachePcs, TrainPcs

\* convert-dataset starts.
LEMMA StartConvertInv ==
  ASSUME TextInv, NEW a \in Jobs, StartConvert(a)
  PROVE  TextInv' /\ Elsewhere(proc')
<1>1. /\ proc' = [pc |-> "load", mode |-> IF a.bpe THEN "bpe" ELSE "char", model |-> a.model]
      /\ UNCHANGED <<source, held, raced, caches>>
  BY DEF StartConvert
<1>2. proc'.pc = "load" /\ proc'.mode \in Modes /\ DOMAIN proc' = {"pc", "mode", "model"}
  BY <1>1 DEF Modes
<1>3. TextInv'
  BY <1>1, <1>2, TextElsewhere DEF ConvPcs, CachePcs
<1> QED
  BY <1>2, <1>3 DEF Elsewhere, TrainPcs

\* What Loaded leaves.
LEMMA LoadedGives ==
  ASSUME NEW pc, NEW toks, NEW vocab, NEW s, Loaded(pc, toks, vocab, s)
  PROVE  /\ DOMAIN proc' = ConvFields
         /\ proc'.pc = pc /\ proc'.mode = proc.mode /\ proc'.toks = toks /\ proc'.vocab = vocab
         /\ proc'.src = s /\ proc'.sizeAtLoad = s.size /\ proc'.at = 0
BY DEF Loaded, ConvFields

\* The tokens of a cache that is valid for the source now.
LEMMA LoadCachedInv ==
  ASSUME TextInv, LoadCached
  PROVE  TextInv' /\ Elsewhere(proc')
<1> DEFINE m == proc.mode
           c == caches[m]
<1>1. /\ proc.pc = "load" /\ CacheValid(c, source) /\ Loaded("kwds create", c.toks, c.vocab, source)
      /\ UNCHANGED <<source, held, raced, caches>>
  BY DEF LoadCached
<1>2. m \in Modes /\ CacheInv(m, c)
  BY <1>1 DEF TextInv
<1>3. c.toks \in Seq(Nat) /\ Genuine(m, c.toks, c.vocab, source.size)
  BY <1>1, <1>2 DEF CacheValid, CacheInv
<1>4. /\ DOMAIN proc' = ConvFields
      /\ proc'.pc = "kwds create" /\ proc'.mode = m /\ proc'.toks = c.toks /\ proc'.vocab = c.vocab
      /\ proc'.sizeAtLoad = source.size /\ proc'.at = 0
  BY <1>1, LoadedGives
<1>5. ConvInv(proc)'
  <2>1. PICK s \in held : OfText(m, c.toks, c.vocab, source.size, s)
    BY <1>3 DEF Genuine
  <2> HIDE DEF c, m
  <2>2. s \in held' /\ OfText(proc.mode, proc.toks, proc.vocab, proc.sizeAtLoad, s)'
    BY <1>1, <1>4, <2>1 DEF OfText
  <2>3. Genuine(proc.mode, proc.toks, proc.vocab, proc.sizeAtLoad)'
    BY <2>2 DEF Genuine
  <2>4. proc'.mode \in Modes /\ proc'.toks \in Seq(Nat) /\ proc'.at \in Nat /\ DOMAIN proc' = ConvFields
    <3>1. proc'.mode = m /\ proc'.toks = c.toks /\ proc'.at = 0 /\ DOMAIN proc' = ConvFields
      BY <1>4
    <3>2. m \in Modes
      BY <1>2
    <3>3. c.toks \in Seq(Nat)
      BY <1>3
    <3> QED
      BY <3>1, <3>2, <3>3
  <2>5. proc'.pc \in ConvPcs /\ proc'.pc \notin CachePcs
    BY <1>4 DEF ConvPcs, CachePcs
  <2> QED
    BY <2>3, <2>4, <2>5 DEF ConvInv, CachePcs
<1>6. TextInv'
  <2>1. \A i \in Modes : CacheInv(i, caches[i])'
    BY <1>1 DEF TextInv, CacheInv, Genuine, OfText
  <2> QED
    BY <1>1, <1>4, <1>5, <2>1 DEF TextInv, ConvFields
<1> QED
  BY <1>4, <1>6, ConvElsewhere DEF ConvPcs

\* The tokens of the source itself.
LEMMA LoadSourceInv ==
  ASSUME TextInv, LoadSource
  PROVE  TextInv' /\ Elsewhere(proc')
<1> DEFINE m == proc.mode
           e == Encoded[m][source]
<1>1. /\ proc.pc = "load" /\ UNCHANGED <<source, held, raced, caches>>
      /\ IF SourceText(source) = Exit THEN proc' = Idle
         ELSE Loaded("cache create", e.toks, e.vocab, source)
  BY DEF LoadSource
<1>2. CASE SourceText(source) = Exit
  <2>1. proc' = Idle /\ DOMAIN proc' = {"pc"} /\ proc'.pc = "idle"
    BY <1>1, <1>2 DEF Idle
  <2>2. TextInv'
    BY <1>1, <2>1, TextElsewhere DEF ConvPcs, CachePcs
  <2> QED
    BY <2>1, <2>2 DEF Elsewhere, TrainPcs
<1>3. CASE SourceText(source) # Exit
  <2>1. m \in Modes /\ source \in held /\ source \in Sources
    BY <1>1 DEF TextInv
  <2>2. e.toks \in Seq(Nat)
    BY <1>3, <2>1, TokensAreIds DEF Encoded
  <2>3. /\ DOMAIN proc' = ConvFields
        /\ proc'.pc = "cache create" /\ proc'.mode = m /\ proc'.toks = e.toks /\ proc'.vocab = e.vocab
        /\ proc'.src = source /\ proc'.sizeAtLoad = source.size /\ proc'.at = 0
    BY <1>1, <1>3, LoadedGives
  <2>4. OfText(proc.mode, proc.toks, proc.vocab, proc.src.size, proc.src)' /\ proc'.src \in held'
    BY <1>1, <1>3, <2>1, <2>3 DEF OfText
  <2>5. proc'.sizeAtLoad = proc'.src.size
    BY <2>3
  <2>6. Genuine(proc.mode, proc.toks, proc.vocab, proc.sizeAtLoad)'
    BY <2>4, <2>5 DEF Genuine
  <2>7. ConvInv(proc)'
    <3> HIDE DEF m, e
    <3>1. proc'.mode \in Modes /\ proc'.toks \in Seq(Nat) /\ proc'.at = 0 /\ DOMAIN proc' = ConvFields
      BY <2>1, <2>2, <2>3
    <3>2. proc'.pc \in ConvPcs /\ proc'.pc \notin {"cache header", "cache tokens"}
      BY <2>3 DEF ConvPcs, CachePcs
    <3>3. proc'.at \in Nat
      BY <3>1
    <3>4. /\ proc'.pc \in {"cache header", "cache tokens"} =>
              Genuine(proc.mode, proc.toks, proc.vocab, proc.size)'
          /\ proc'.pc = "cache create" => proc'.src \in held'
                /\ OfText(proc.mode, proc.toks, proc.vocab, proc.src.size, proc.src)'
          /\ proc'.pc \in {"cache create", "cache header"} => proc'.at = 0
      BY <2>4, <3>1, <3>2
    <3> QED
      BY <2>6, <3>1, <3>2, <3>3, <3>4 DEF ConvInv
  <2>8. TextInv'
    <3>1. \A i \in Modes : CacheInv(i, caches[i])'
      BY <1>1 DEF TextInv, CacheInv, Genuine, OfText
    <3> QED
      BY <1>1, <2>3, <2>7, <3>1 DEF TextInv, ConvFields
  <2> QED
    BY <2>3, <2>8, ConvElsewhere DEF ConvPcs, CachePcs
<1> QED
  BY <1>2, <1>3

\* A process with tokens or in a conversion's step converts.
LEMMA ConvIs ==
  ASSUME TextInv, proc.pc \in ConvPcs
  PROVE  ConvInv(proc)
BY DEF TextInv

\* The other tokenizer's cache, and a cache that nothing was done to.
LEMMA OtherCaches ==
  ASSUME TextInv, held \subseteq held', raced \subseteq raced', NEW i \in Modes,
         caches'[i] = caches[i]
  PROVE  CacheInv(i, caches[i])'
<1> DEFINE c == caches[i]
<1>1. CacheInv(i, c)
  BY DEF TextInv
<1>2. CASE c \in {None, Empty}
  BY <1>2 DEF CacheInv
<1>3. CASE /\ DOMAIN c = CacheFields
           /\ c.toks \in Seq(Nat)
           /\ Len(c.toks) = c.total => Genuine(i, c.toks, c.vocab, c.size)
  <2>1. Genuine(i, c.toks, c.vocab, c.size) =>
          Genuine(i, caches[i].toks, caches[i].vocab, caches[i].size)'
    BY DEF Genuine, OfText
  <2> QED
    BY <1>3, <2>1 DEF CacheInv
<1> QED
  BY <1>1, <1>2, <1>3 DEF CacheInv

\* The cache file is opened.
LEMMA CacheCreateInv ==
  ASSUME TextInv, CacheCreate
  PROVE  TextInv' /\ Elsewhere(proc')
<1>1. /\ proc.pc = "cache create" /\ UNCHANGED <<source, held>>
      /\ caches' = [caches EXCEPT ![proc.mode] = Empty]
      /\ raced' = IF source.size = proc.src.size THEN raced ELSE raced \cup {proc.src}
      /\ proc' = [proc EXCEPT !.pc = "cache header", !.size = source.size]
  BY DEF CacheCreate
<1>2. ConvInv(proc)
  BY <1>1, ConvIs DEF ConvPcs, CachePcs
<1>3. raced \subseteq raced' /\ held \subseteq held'
  BY <1>1
<1>4. /\ DOMAIN proc' = ConvFields /\ proc'.pc = "cache header" /\ proc'.mode = proc.mode
      /\ proc'.toks = proc.toks /\ proc'.vocab = proc.vocab /\ proc'.sizeAtLoad = proc.sizeAtLoad
      /\ proc'.size = source.size /\ proc'.at = proc.at
  BY <1>1, <1>2 DEF ConvInv, ConvFields
<1>5. proc.at = 0 /\ proc.src \in held /\ OfText(proc.mode, proc.toks, proc.vocab, proc.src.size, proc.src)
  BY <1>1, <1>2 DEF ConvInv
<1>6. Genuine(proc.mode, proc.toks, proc.vocab, proc.size)'
  <2> DEFINE s == proc.src
  <2>1. source.size = s.size \/ s \in raced'
    BY <1>1
  <2>2. /\ SourceText(s) # Exit /\ s \in held'
        /\ proc.toks = Encoded[proc.mode][s].toks /\ proc.vocab = Encoded[proc.mode][s].vocab
    BY <1>3, <1>5 DEF OfText
  <2> HIDE DEF s
  <2>3. /\ proc'.toks = Encoded[proc'.mode][s].toks /\ proc'.vocab = Encoded[proc'.mode][s].vocab
        /\ s.size = proc'.size \/ s \in raced'
    BY <1>4, <2>1, <2>2
  <2> QED
    BY <2>2, <2>3 DEF Genuine, OfText
<1>7. Genuine(proc.mode, proc.toks, proc.vocab, proc.sizeAtLoad)'
  <2>1. PICK s \in held : OfText(proc.mode, proc.toks, proc.vocab, proc.sizeAtLoad, s)
    BY <1>2 DEF ConvInv, Genuine
  <2>2. /\ SourceText(s) # Exit /\ s \in held'
        /\ proc'.toks = Encoded[proc'.mode][s].toks /\ proc'.vocab = Encoded[proc'.mode][s].vocab
        /\ s.size = proc'.sizeAtLoad \/ s \in raced'
    BY <1>3, <1>4, <2>1 DEF OfText
  <2> QED
    BY <2>2 DEF Genuine, OfText
<1>8. ConvInv(proc)'
  <2>1. proc'.mode \in Modes /\ proc'.toks \in Seq(Nat) /\ proc'.at = 0
    BY <1>2, <1>4, <1>5 DEF ConvInv
  <2>2. proc'.at \in Nat
    BY <2>1
  <2>3. proc'.pc \in ConvPcs /\ proc'.pc # "cache create"
    BY <1>4 DEF ConvPcs, CachePcs
  <2> QED
    BY <1>4, <1>6, <1>7, <2>1, <2>2, <2>3 DEF ConvInv
<1>9. TextInv'
  <2>1. DOMAIN caches' = Modes /\ caches'[proc.mode] = Empty
    BY <1>1, <1>2 DEF TextInv, ConvInv
  <2>2. ASSUME NEW i \in Modes PROVE CacheInv(i, caches[i])'
    <3>1. CASE i = proc.mode
      BY <2>1, <3>1 DEF CacheInv
    <3>2. CASE i # proc.mode
      <4>1. caches'[i] = caches[i]
        BY <1>1, <3>2 DEF TextInv
      <4> QED
        BY <1>3, <4>1, OtherCaches
    <3> QED
      BY <3>1, <3>2
  <2>3. source' \in held' /\ held' \subseteq Sources
    BY <1>1 DEF TextInv
  <2> QED
    BY <1>4, <1>8, <2>1, <2>2, <2>3 DEF TextInv, ConvFields
<1> QED
  BY <1>4, <1>9, ConvElsewhere DEF ConvPcs, CachePcs

\* What follows when a conversion moves on without its data changing.
LEMMA ConvMovesOn ==
  ASSUME ConvInv(proc), UNCHANGED <<held, raced>>, DOMAIN proc' = ConvFields,
         proc'.pc \in ConvPcs \ {"cache create", "cache header"},
         proc'.pc = "cache tokens" => proc.pc \in {"cache header", "cache tokens"},
         proc'.mode = proc.mode, proc'.toks = proc.toks, proc'.vocab = proc.vocab,
         proc'.sizeAtLoad = proc.sizeAtLoad, proc'.size = proc.size, proc'.at \in Nat
  PROVE  ConvInv(proc)'
<1>1. Genuine(proc.mode, proc.toks, proc.vocab, proc.sizeAtLoad)'
  BY DEF ConvInv, Genuine, OfText
<1>2. proc'.pc = "cache tokens" => Genuine(proc.mode, proc.toks, proc.vocab, proc.size)'
  BY DEF ConvInv, Genuine, OfText
<1>3. proc'.mode \in Modes /\ proc'.toks \in Seq(Nat)
  BY DEF ConvInv
<1> QED
  BY <1>1, <1>2, <1>3 DEF ConvInv

\* Its header is written.
LEMMA CacheHeaderInv ==
  ASSUME TextInv, CacheHeader
  PROVE  TextInv' /\ Elsewhere(proc')
<1> DEFINE c == [size |-> proc.size, total |-> Len(proc.toks), vocab |-> proc.vocab, toks |-> <<>>]
<1>1. /\ proc.pc = "cache header" /\ UNCHANGED <<source, held, raced>>
      /\ caches' = [caches EXCEPT ![proc.mode] = c]
      /\ proc' = [proc EXCEPT !.pc = IF proc.toks = <<>> THEN "kwds create" ELSE "cache tokens"]
  BY DEF CacheHeader
<1>2. ConvInv(proc)
  BY <1>1, ConvIs DEF ConvPcs, CachePcs
<1>3. /\ DOMAIN proc' = ConvFields /\ proc'.mode = proc.mode
      /\ proc'.toks = proc.toks /\ proc'.vocab = proc.vocab /\ proc'.sizeAtLoad = proc.sizeAtLoad
      /\ proc'.size = proc.size /\ proc'.at = proc.at
      /\ proc'.pc = IF proc.toks = <<>> THEN "kwds create" ELSE "cache tokens"
  BY <1>1, <1>2 DEF ConvInv, ConvFields
<1>4. /\ proc.at = 0 /\ proc.mode \in Modes /\ proc.toks \in Seq(Nat)
      /\ Genuine(proc.mode, proc.toks, proc.vocab, proc.size)
  BY <1>1, <1>2 DEF ConvInv
<1>5. proc'.pc \in ConvPcs \ {"cache create", "cache header"}
  BY <1>3 DEF ConvPcs, CachePcs
<1>6. ConvInv(proc)'
  <2>1. proc'.at = 0
    BY <1>3, <1>4
  <2>2. proc'.at \in Nat
    BY <2>1
  <2> QED
    BY <1>1, <1>2, <1>3, <1>5, <2>2, ConvMovesOn
<1>7. /\ DOMAIN c = CacheFields /\ c.toks = <<>> /\ c.total = Len(proc.toks)
      /\ c.vocab = proc.vocab /\ c.size = proc.size
  BY DEF CacheFields
<1>8. /\ DOMAIN caches' = Modes /\ caches'[proc.mode] = c
      /\ \A i \in Modes : i # proc.mode => caches'[i] = caches[i]
  BY <1>1, <1>4 DEF TextInv
<1> HIDE DEF c
<1>9. ASSUME NEW i \in Modes PROVE CacheInv(i, caches[i])'
  <2>1. CASE i = proc.mode
    <3>1. Len(<<>>) = Len(proc.toks) => proc.toks = <<>>
      BY <1>4, EmptySeq
    <3>2. Len(c.toks) = c.total => Genuine(i, c.toks, c.vocab, c.size)
      BY <1>4, <1>7, <2>1, <3>1
    <3>3. c.toks \in Seq(Nat)
      BY <1>7
    <3>4. Genuine(i, c.toks, c.vocab, c.size) =>
            Genuine(i, caches[i].toks, caches[i].vocab, caches[i].size)'
      BY <1>1, <1>8, <2>1 DEF Genuine, OfText
    <3>5. caches'[i] = c
      BY <1>8, <2>1
    <3> QED
      BY <1>7, <3>2, <3>3, <3>4, <3>5 DEF CacheInv
  <2>2. CASE i # proc.mode
    BY <1>1, <1>8, <2>2, OtherCaches
  <2> QED
    BY <2>1, <2>2
<1>10. proc'.pc = "cache tokens" => Partial(proc, caches[proc.mode])'
  <2>1. SUFFICES ASSUME proc'.pc = "cache tokens" PROVE Partial(proc, caches[proc.mode])'
    OBVIOUS
  <2>2. proc.toks # <<>>
    BY <1>3, <2>1
  <2>3. Len(proc.toks) \in Nat /\ Len(proc.toks) > 0
    BY <1>4, <2>2, EmptySeq, LenProperties
  <2>4. caches'[proc'.mode] = c
    BY <1>3, <1>8
  <2>5. proc'.toks = proc.toks /\ proc'.at = 0 /\ proc'.vocab = proc.vocab /\ proc'.size = proc.size
    BY <1>3, <1>4
  <2>6. c.toks \in Seq(Nat) /\ Len(c.toks) = 0
    BY <1>7
  <2>7. /\ DOMAIN c = CacheFields
        /\ c.total = Len(proc'.toks) /\ c.vocab = proc'.vocab /\ c.size = proc'.size
    BY <1>7, <2>5
  <2>8. proc'.at < Len(proc'.toks)
    BY <2>3, <2>5
  <2>9. Len(c.toks) <= proc'.at /\ \A i \in 1 .. proc'.at : c.toks[i] = proc'.toks[i]
    BY <2>5, <2>6
  <2> QED
    BY <2>4, <2>6, <2>7, <2>8, <2>9 DEF Partial
<1>11. TextInv'
  <2>1. source' \in held' /\ held' \subseteq Sources
    BY <1>1 DEF TextInv
  <2>2. "pc" \in DOMAIN proc' /\ proc'.pc # "load"
    BY <1>3 DEF ConvFields
  <2> QED
    BY <1>6, <1>8, <1>9, <1>10, <2>1, <2>2 DEF TextInv
<1> QED
  BY <1>3, <1>5, <1>11, ConvElsewhere

\* One more token, of which the file holds no more than were gone through: it
\* is genuine, or short of its total, and still partial if tokens are left.
LEMMA OneMoreToken ==
  ASSUME NEW toks \in Seq(Nat), NEW at \in Nat, at < Len(toks),
         NEW had \in Seq(Nat), Len(had) <= at,
         Len(had) = at => \A i \in 1 .. at : had[i] = toks[i],
         NEW has, has = had \/ has = Append(had, toks[at + 1])
  PROVE  /\ has \in Seq(Nat) /\ Len(has) <= at + 1
         /\ Len(has) = at + 1 => \A i \in 1 .. at + 1 : has[i] = toks[i]
         /\ Len(has) = Len(toks) => has = toks
<1>1. toks[at + 1] \in Nat /\ Len(had) \in Nat /\ Len(toks) \in Nat
  BY LenProperties
<1>2. has \in Seq(Nat) /\ Len(has) <= at + 1
  <2>1. CASE has = had
    BY <1>1, <2>1
  <2>2. CASE has = Append(had, toks[at + 1])
    <3>1. has \in Seq(Nat) /\ Len(has) = Len(had) + 1
      BY <1>1, <2>2, AppendProperties
    <3> QED
      BY <1>1, <3>1
  <2> QED
    BY <2>1, <2>2
<1>3. ASSUME Len(has) = at + 1, NEW i \in 1 .. at + 1 PROVE has[i] = toks[i]
  <2>1. has = Append(had, toks[at + 1]) /\ Len(had) = at
    BY <1>1, <1>3, AppendProperties
  <2>2. CASE i = at + 1
    BY <1>1, <2>1, <2>2, AppendProperties
  <2>3. CASE i # at + 1
    <3>1. i \in 1 .. at
      BY <1>3, <2>3
    <3>2. has[i] = had[i]
      BY <1>1, <2>1, <3>1, AppendProperties
    <3> QED
      BY <2>1, <3>1, <3>2
  <2> QED
    BY <2>2, <2>3
<1>4. ASSUME Len(has) = Len(toks) PROVE has = toks
  <2>1. Len(has) = at + 1 /\ Len(toks) = at + 1
    BY <1>1, <1>2, <1>4
  <2>2. \A i \in 1 .. Len(has) : has[i] = toks[i]
    BY <1>3, <2>1
  <2> QED
    BY <1>2, <1>4, <2>2, SeqEqual
<1> QED
  BY <1>2, <1>3, <1>4

\* A token is written, or passed over when its write fails.
LEMMA CacheTokenInv ==
  ASSUME TextInv, CacheToken
  PROVE  TextInv' /\ Elsewhere(proc')
<1> DEFINE c == caches[proc.mode]
           d == caches'[proc.mode]
<1>1. /\ proc.pc = "cache tokens" /\ UNCHANGED <<source, held, raced>>
      /\ proc' = [proc EXCEPT !.at = @ + 1,
                              !.pc = IF proc.at + 1 = Len(proc.toks) THEN "kwds create" ELSE @]
  BY DEF CacheToken
<1>2. ConvInv(proc)
  BY <1>1, ConvIs DEF ConvPcs, CachePcs
<1>3. /\ DOMAIN proc' = ConvFields /\ proc'.mode = proc.mode
      /\ proc'.toks = proc.toks /\ proc'.vocab = proc.vocab /\ proc'.sizeAtLoad = proc.sizeAtLoad
      /\ proc'.size = proc.size /\ proc'.at = proc.at + 1
      /\ proc'.pc = IF proc.at + 1 = Len(proc.toks) THEN "kwds create" ELSE "cache tokens"
  BY <1>1, <1>2 DEF ConvInv, ConvFields
<1>4. /\ proc.at \in Nat /\ proc.mode \in Modes /\ proc.toks \in Seq(Nat)
      /\ Genuine(proc.mode, proc.toks, proc.vocab, proc.size)
  BY <1>1, <1>2 DEF ConvInv
<1>5. proc'.pc \in ConvPcs \ {"cache create", "cache header"}
  BY <1>3 DEF ConvPcs, CachePcs
<1>6. ConvInv(proc)'
  <2>1. proc'.at = proc.at + 1
    BY <1>3
  <2>2. proc'.at \in Nat
    BY <1>4, <2>1
  <2> QED
    BY <1>1, <1>2, <1>3, <1>5, <2>2, ConvMovesOn
<1>7. Partial(proc, c)
  BY <1>1 DEF TextInv
<1>8. /\ DOMAIN caches' = Modes
      /\ \A i \in Modes : i # proc.mode => caches'[i] = caches[i]
      /\ DOMAIN d = CacheFields /\ d.total = c.total /\ d.vocab = c.vocab /\ d.size = c.size
      /\ d.toks = c.toks \/ d.toks = Append(c.toks, proc.toks[proc.at + 1])
  <2>1. CASE UNCHANGED caches
    BY <1>7, <2>1 DEF TextInv, Partial
  <2>2. CASE caches' = [caches EXCEPT ![proc.mode].toks = Append(@, proc.toks[proc.at + 1])]
    <3> DEFINE x == proc.toks[proc.at + 1]
    <3>1. caches' = [caches EXCEPT ![proc.mode].toks = Append(@, x)]
      BY <2>2
    <3> HIDE DEF x
    <3>2. DOMAIN caches = Modes /\ DOMAIN c = CacheFields
      BY <1>7 DEF TextInv, Partial
    <3> QED
      BY <1>4, <3>1, <3>2 DEF CacheFields, x
  <2> QED
    BY <2>1, <2>2 DEF CacheToken
<1>9. /\ c.total = Len(proc.toks) /\ c.vocab = proc.vocab /\ c.size = proc.size /\ c.toks \in Seq(Nat)
      /\ proc.at < Len(proc.toks) /\ Len(c.toks) <= proc.at
      /\ Len(c.toks) = proc.at => \A i \in 1 .. proc.at : c.toks[i] = proc.toks[i]
  BY <1>7 DEF Partial
<1>10. /\ d.toks \in Seq(Nat) /\ Len(d.toks) <= proc.at + 1
       /\ Len(d.toks) = proc.at + 1 => \A i \in 1 .. proc.at + 1 : d.toks[i] = proc.toks[i]
       /\ Len(d.toks) = Len(proc.toks) => d.toks = proc.toks
  <2> DEFINE toks == proc.toks
             at   == proc.at
             had  == c.toks
             has  == d.toks
  <2>1. /\ toks \in Seq(Nat) /\ at \in Nat /\ at < Len(toks) /\ had \in Seq(Nat) /\ Len(had) <= at
        /\ Len(had) = at => \A i \in 1 .. at : had[i] = toks[i]
        /\ has = had \/ has = Append(had, toks[at + 1])
    BY <1>4, <1>8, <1>9
  <2> HIDE DEF toks, at, had, has
  <2>2. /\ has \in Seq(Nat) /\ Len(has) <= at + 1
        /\ Len(has) = at + 1 => \A i \in 1 .. at + 1 : has[i] = toks[i]
        /\ Len(has) = Len(toks) => has = toks
    BY <2>1, OneMoreToken
  <2> QED
    BY <2>2 DEF toks, at, had, has
<1> HIDE DEF c, d
<1>11. d.total = Len(proc.toks) /\ d.vocab = proc.vocab /\ d.size = proc.size
  BY <1>8, <1>9
<1>12. ASSUME NEW i \in Modes PROVE CacheInv(i, caches[i])'
  <2>1. CASE i = proc.mode
    <3>1. Len(d.toks) = d.total => Genuine(i, d.toks, d.vocab, d.size)
      <4>1. Len(d.toks) = d.total => d.toks = proc.toks
        BY <1>10, <1>11
      <4> QED
        BY <1>4, <1>11, <2>1, <4>1
    <3>2. Genuine(i, d.toks, d.vocab, d.size) =>
            Genuine(i, caches[i].toks, caches[i].vocab, caches[i].size)'
      BY <1>1, <2>1 DEF Genuine, OfText, d
    <3>3. caches'[i] = d
      BY <2>1 DEF d
    <3>4. DOMAIN d = CacheFields /\ d.toks \in Seq(Nat)
      BY <1>8, <1>10
    <3> QED
      BY <3>1, <3>2, <3>3, <3>4 DEF CacheInv
  <2>2. CASE i # proc.mode
    BY <1>1, <1>8, <2>2, OtherCaches
  <2> QED
    BY <2>1, <2>2
<1>13. proc'.pc = "cache tokens" => Partial(proc, caches[proc.mode])'
  <2>1. SUFFICES ASSUME proc'.pc = "cache tokens" PROVE Partial(proc, caches[proc.mode])'
    OBVIOUS
  <2>2. proc.at + 1 # Len(proc.toks)
    BY <1>3, <2>1
  <2>3. proc.at + 1 < Len(proc.toks)
    <3> DEFINE n == Len(proc.toks)
               k == proc.at
    <3>1. n \in Nat
      BY <1>4, LenProperties
    <3>2. k \in Nat /\ k < n /\ k + 1 # n
      BY <1>4, <1>9, <2>2
    <3> HIDE DEF n, k
    <3>3. k + 1 < n
      BY <3>1, <3>2
    <3> QED
      BY <3>3 DEF n, k
  <2>4. caches'[proc'.mode] = d
    BY <1>3 DEF d
  <2>5. proc'.toks = proc.toks /\ proc'.at = proc.at + 1 /\ proc'.vocab = proc.vocab /\ proc'.size = proc.size
    BY <1>3
  <2>6. DOMAIN d = CacheFields /\ d.toks \in Seq(Nat)
    BY <1>8, <1>10
  <2>7. d.total = Len(proc'.toks) /\ d.vocab = proc'.vocab /\ d.size = proc'.size
    BY <1>11, <2>5
  <2>8. proc'.at < Len(proc'.toks)
    BY <2>3, <2>5
  <2>9. /\ Len(d.toks) <= proc'.at
        /\ Len(d.toks) = proc'.at => \A i \in 1 .. proc'.at : d.toks[i] = proc'.toks[i]
    BY <1>10, <2>5
  <2> QED
    BY <2>4, <2>6, <2>7, <2>8, <2>9 DEF Partial
<1>14. TextInv'
  <2>1. source' \in held' /\ held' \subseteq Sources
    BY <1>1 DEF TextInv
  <2>2. "pc" \in DOMAIN proc' /\ proc'.pc # "load"
    BY <1>3 DEF ConvFields
  <2> QED
    BY <1>6, <1>8, <1>12, <1>13, <2>1, <2>2 DEF TextInv
<1> QED
  BY <1>3, <1>5, <1>14, ConvElsewhere

\* The wave dataset is opened, or its header written, or a record.
LEMMA KwdsInv ==
  ASSUME TextInv, KwdsCreate \/ KwdsHeader \/ KwdsRecord
  PROVE  TextInv' /\ Elsewhere(proc')
<1> DEFINE KwdsPcs == {"kwds create", "kwds header", "kwds records"}
<1>1. /\ proc.pc \in KwdsPcs /\ UNCHANGED <<source, held, raced, caches>>
      /\ \/ proc' = [proc EXCEPT !.pc = "kwds header"]
         \/ proc' = [proc EXCEPT !.pc = "kwds records"]
         \/ proc' = proc \/ proc' = Idle
  BY DEF KwdsCreate, KwdsHeader, KwdsRecord
<1>2. ConvInv(proc)
  BY <1>1, ConvIs DEF ConvPcs
<1>3. CASE proc' = Idle
  <2>1. DOMAIN proc' = {"pc"} /\ proc'.pc = "idle"
    BY <1>3 DEF Idle
  <2>2. TextInv'
    BY <1>1, <2>1, TextElsewhere DEF ConvPcs, CachePcs
  <2> QED
    BY <2>1, <2>2 DEF Elsewhere, TrainPcs
<1>4. CASE proc' # Idle
  <2>1. /\ DOMAIN proc' = ConvFields /\ proc'.pc \in KwdsPcs /\ proc'.mode = proc.mode
        /\ proc'.toks = proc.toks /\ proc'.vocab = proc.vocab /\ proc'.sizeAtLoad = proc.sizeAtLoad
        /\ proc'.size = proc.size /\ proc'.at = proc.at
    BY <1>1, <1>2, <1>4 DEF ConvInv, ConvFields
  <2>2. proc'.at \in Nat
    <3>1. proc.at \in Nat
      BY <1>2 DEF ConvInv
    <3> QED
      BY <2>1, <3>1
  <2>3. proc'.pc \in ConvPcs \ CachePcs
    BY <2>1 DEF ConvPcs, CachePcs
  <2>4. ConvInv(proc)'
    BY <1>1, <1>2, <2>1, <2>2, <2>3, ConvMovesOn DEF CachePcs
  <2>5. \A i \in Modes : CacheInv(i, caches[i])'
    BY <1>1, OtherCaches
  <2>6. TextInv'
    <3>1. source' \in held' /\ held' \subseteq Sources /\ DOMAIN caches' = Modes
      BY <1>1 DEF TextInv
    <3>2. "pc" \in DOMAIN proc' /\ proc'.pc # "load" /\ proc'.pc # "cache tokens"
      BY <2>1 DEF ConvFields
    <3> QED
      BY <2>4, <2>5, <3>1, <3>2 DEF TextInv
  <2> QED
    BY <2>1, <2>3, <2>6, ConvElsewhere
<1> QED
  BY <1>3, <1>4

-----------------------------------------------------------------------------
(* The embedding table: its two moduli have no common divisor, so a token   *)
(* is known by its two remainders and no two rows are equal.                *)

\* A set of naturals has a least element.
LEMMA Least ==
  ASSUME NEW T, T \subseteq Nat, T # {}
  PROVE  \E n \in T : \A m \in T : n <= m
<1> DEFINE R == OpToRel(<, Nat)
<1>1. IsWellFoundedOn(R, Nat)
  BY NatLessThanWellFounded
<1>2. \A m, n \in Nat : <<m, n>> \in R <=> m < n
  BY DEF OpToRel
<1> HIDE DEF R
<1>3. PICK n \in T : \A m \in T : ~(<<m, n>> \in R)
  BY <1>1, WFMin
<1>4. ASSUME NEW m \in T PROVE n <= m
  <2>1. m \in Nat /\ n \in Nat /\ ~(<<m, n>> \in R)
    BY <1>3, <1>4
  <2> QED
    BY <2>1, <1>2
<1> QED
  BY <1>4

\* What Min says.
LEMMA MinIs ==
  ASSUME NEW T, T \subseteq Nat, T # {}
  PROVE  K!Min(T) \in T /\ \A m \in T : K!Min(T) <= m
BY Least DEF K!Min

\* A remainder, as a quotient.
LEMMA Divides ==
  ASSUME NEW x \in Nat, NEW m \in Nat \ {0}
  PROVE  x % m \in 0 .. m - 1 /\ \E q \in Nat : x = m * q + (x % m)
<1>1. x % m \in 0 .. m - 1
  OBVIOUS
<1>2. x \div m \in Int
  OBVIOUS
<1>3. x = m * (x \div m) + (x % m)
  OBVIOUS
<1>4. x \div m >= 0
  OBVIOUS
<1> DEFINE q == x \div m
<1>5. q \in Nat /\ x = m * q + (x % m)
  BY <1>2, <1>3, <1>4
<1> HIDE DEF q
<1> QED
  BY <1>1, <1>5

\* What Euclid's algorithm returns, for divisors up to n.
GcdOn(g, n, c) == g = [y \in 0 .. n |-> [x \in 0 .. c |-> IF y = 0 THEN x ELSE g[x % y][y]]]

\* There is such a function: the recursion of K!Gcd is well founded.
LEMMA GcdExists ==
  ASSUME NEW c \in Nat, NEW N \in Nat
  PROVE  \E g : GcdOn(g, N, c)
<1> DEFINE T == {n \in Nat : ~\E g : GcdOn(g, n, c)}
<1>1. ASSUME T # {} PROVE FALSE
  <2>1. PICK n \in T : \A m \in T : n <= m
    BY <1>1, Least
  <2>2. n \in Nat /\ ~\E g : GcdOn(g, n, c)
    BY <2>1
  <2>3. CASE n = 0
    <3> DEFINE f == [y \in 0 .. 0 |-> [x \in 0 .. c |-> x]]
    <3>1. f = [y \in 0 .. 0 |-> [x \in 0 .. c |-> IF y = 0 THEN x ELSE f[x % y][y]]]
      OBVIOUS
    <3>2. GcdOn(f, 0, c)
      BY <3>1 DEF GcdOn
    <3> QED
      BY <3>2, <2>2, <2>3
  <2>4. CASE n # 0
    <3>1. n - 1 \in Nat /\ n - 1 \notin T
      BY <2>1, <2>2, <2>4
    <3>2. PICK g : GcdOn(g, n - 1, c)
      BY <3>1
    <3> DEFINE f == [y \in 0 .. n |-> IF y = n THEN [x \in 0 .. c |-> g[x % n][n]] ELSE g[y]]
    <3>3. ASSUME NEW y \in 0 .. n
          PROVE  f[y] = [x \in 0 .. c |-> IF y = 0 THEN x ELSE f[x % y][y]]
      <4>1. CASE y = n
        <5>1. ASSUME NEW x \in 0 .. c PROVE x % n \in 0 .. n /\ x % n # n
          BY <2>2, <2>4, Divides
        <5>2. \A x \in 0 .. c : f[x % n] = g[x % n]
          BY <5>1
        <5> QED
          BY <4>1, <5>2, <2>4
      <4>2. CASE y # n
        <5>1. y \in 0 .. n - 1 /\ y \in Nat
          BY <4>2, <2>2
        <5>2. g[y] = [x \in 0 .. c |-> IF y = 0 THEN x ELSE g[x % y][y]]
          BY <5>1, <3>2 DEF GcdOn
        <5>3. ASSUME NEW x \in 0 .. c, y # 0 PROVE x % y \in 0 .. n /\ x % y # n
          <6>1. x \in Nat /\ y \in Nat \ {0}
            BY <5>1, <5>3
          <6>2. x % y \in 0 .. y - 1
            BY <6>1, Divides
          <6> QED
            BY <5>1, <6>2, <2>2
        <5>4. \A x \in 0 .. c : y # 0 => f[x % y] = g[x % y]
          BY <5>3
        <5> QED
          BY <4>2, <5>2, <5>4
      <4> QED
        BY <4>1, <4>2
    <3>4. f = [y \in 0 .. n |-> [x \in 0 .. c |-> IF y = 0 THEN x ELSE f[x % y][y]]]
      BY <3>3
    <3>5. GcdOn(f, n, c)
      BY <3>4 DEF GcdOn
    <3> QED
      BY <3>5, <2>2
  <2> QED
    BY <2>3, <2>4
<1> QED
  BY <1>1

\* An odd number and the one after the next have no common divisor.
LEMMA OddCoprime ==
  ASSUME NEW a \in Nat, a % 2 = 1
  PROVE  K!Gcd(a, a + 2) = 1
<1> DEFINE b == a + 2
           c == a + b
           g == CHOOSE f : GcdOn(f, b, c)
<1>1. b \in Nat /\ c \in Nat /\ a # 0 /\ a # 2
  OBVIOUS
<1>2. GcdOn(g, b, c)
  BY <1>1, GcdExists
<1>3. K!Gcd(a, b) = g[b][a]
  BY DEF K!Gcd, GcdOn
<1> HIDE DEF g
<1>4. ASSUME NEW y \in 0 .. b, NEW x \in 0 .. c
      PROVE  g[y][x] = IF y = 0 THEN x ELSE g[x % y][y]
  BY <1>2 DEF GcdOn
<1>5. g[b][a] = g[a][b]
  <2>1. a % b = a /\ b # 0
    BY <1>1
  <2> QED
    BY <1>1, <1>4, <2>1
<1>6. g[a][b] = 1
  <2>1. CASE a = 1
    <3>1. b = 3 /\ b % a = 0
      BY <2>1
    <3>2. g[a][b] = g[0][1]
      BY <1>4, <2>1, <3>1
    <3>3. g[0][1] = 1
      BY <1>4, <2>1
    <3> QED
      BY <3>2, <3>3
  <2>2. CASE a # 1
    <3>1. a > 2
      BY <1>1, <2>2
    <3>2. b % a = 2
      BY <3>1
    <3>3. g[a][b] = g[2][a]
      <4>1. a \in 0 .. b /\ b \in 0 .. c /\ a # 0
        BY <1>1
      <4>2. g[a][b] = g[b % a][a]
        BY <1>4, <4>1
      <4> QED
        BY <3>2, <4>2
    <3>4. g[2][a] = g[1][2]
      BY <1>1, <1>4, <3>1
    <3>5. g[1][2] = g[0][1]
      BY <1>1, <1>4, <3>1
    <3>6. g[0][1] = 1
      BY <1>1, <1>4, <3>1
    <3> QED
      BY <3>3, <3>4, <3>5, <3>6
  <2> QED
    BY <2>1, <2>2
<1> QED
  BY <1>3, <1>5, <1>6

\* Two multiples, of an odd number and of the one after the next: so is their
\* product's.
LEMMA BothDivide ==
  ASSUME NEW m \in Nat, m % 2 = 1, NEW a \in Int, NEW b \in Int, m * a = (m + 2) * b
  PROVE  \E c \in Int : (m + 2) * b = m * (m + 2) * c
<1> DEFINE j == m \div 2
<1>1. j \in Int /\ m = 2 * j + 1
  OBVIOUS
<1> HIDE DEF j
<1> DEFINE e == a - b
<1>2. e \in Int /\ a = b + e
  OBVIOUS
<1> HIDE DEF e
<1>3. m * (b + e) = m * b + m * e /\ (m + 2) * b = m * b + 2 * b
  BY <1>2
<1>4. m * e = 2 * b
  BY <1>2, <1>3
<1> DEFINE c == b - j * e
<1>5. c \in Int
  BY <1>1, <1>2
<1>6. m * c = b
  <2>1. m * c = m * b - m * (j * e)
    BY <1>1, <1>2
  <2>2. m * (j * e) = j * (m * e)
    BY <1>1, <1>2
  <2>3. j * (m * e) = 2 * j * b
    BY <1>1, <1>2, <1>4
  <2>4. m * b = 2 * j * b + b
    BY <1>1
  <2> QED
    BY <2>1, <2>2, <2>3, <2>4, <1>1, <1>2
<1> HIDE DEF c
<1>7. (m + 2) * b = m * (m + 2) * c
  <2>1. (m + 2) * b = (m + 2) * (m * c)
    BY <1>6
  <2> QED
    BY <1>5, <2>1
<1> QED
  BY <1>5, <1>7

\* Numbers below that product are told apart by their remainders.
LEMMA Residues ==
  ASSUME NEW m \in Nat, m % 2 = 1, NEW x \in Nat, NEW y \in Nat, x <= y, y < m * (m + 2),
         x % m = y % m, x % (m + 2) = y % (m + 2)
  PROVE  x = y
<1> DEFINE n == m + 2
           P == m * n
<1>1. m \in Nat \ {0} /\ n \in Nat \ {0}
  OBVIOUS
<1>2. PICK q1 \in Nat : x = m * q1 + (x % m)
  BY <1>1, Divides
<1>3. PICK q2 \in Nat : y = m * q2 + (y % m)
  BY <1>1, Divides
<1>4. PICK q3 \in Nat : x = n * q3 + (x % n)
  BY <1>1, Divides
<1>5. PICK q4 \in Nat : y = n * q4 + (y % n)
  BY <1>1, Divides
<1>6. m * (q2 - q1) = y - x
  <2>1. m * (q2 - q1) = m * q2 - m * q1
    OBVIOUS
  <2> DEFINE r == x % m
  <2>2. r \in Int
    BY <1>1, Divides
  <2>3. x = m * q1 + r /\ y = m * q2 + r
    BY <1>2, <1>3
  <2> HIDE DEF r
  <2> QED
    BY <2>1, <2>2, <2>3
<1>7. n * (q4 - q3) = y - x
  <2>1. n * (q4 - q3) = n * q4 - n * q3
    BY <1>1
  <2> DEFINE r == x % n
  <2>2. r \in Int
    BY <1>1, Divides
  <2>3. x = n * q3 + r /\ y = n * q4 + r
    BY <1>4, <1>5
  <2> HIDE DEF r, n
  <2> QED
    BY <1>1, <2>1, <2>2, <2>3
<1>8. PICK c \in Int : y - x = P * c
  <2> DEFINE a == q2 - q1
             b == q4 - q3
  <2>1. a \in Int /\ b \in Int /\ m * a = (m + 2) * b /\ (m + 2) * b = y - x
    BY <1>6, <1>7
  <2> HIDE DEF a, b
  <2>2. \E c \in Int : (m + 2) * b = m * (m + 2) * c
    BY <2>1, BothDivide
  <2>3. PICK c \in Int : (m + 2) * b = m * (m + 2) * c
    BY <2>2
  <2>4. m * (m + 2) * c = P * c
    OBVIOUS
  <2> QED
    BY <2>1, <2>3, <2>4
<1>9. P \in Nat /\ P > 0 /\ y - x \in Nat /\ y - x < P
  BY <1>1
<1> HIDE DEF P
<1>10. ~(c >= 1)
  <2>1. SUFFICES ASSUME c >= 1 PROVE FALSE
    OBVIOUS
  <2>2. P * c >= P
    BY <1>9, <2>1
  <2> QED
    BY <1>8, <1>9, <2>2
<1>11. ~(c <= -1)
  <2>1. SUFFICES ASSUME c <= -1 PROVE FALSE
    OBVIOUS
  <2>2. P * c <= -P
    BY <1>9, <2>1
  <2> QED
    BY <1>8, <1>9, <2>2
<1>12. c = 0
  BY <1>10, <1>11
<1>13. P * c = 0
  BY <1>9, <1>12
<1> QED
  BY <1>8, <1>13

\* The square root, rounded up.
LEMMA RootCovers ==
  ASSUME NEW v \in Nat
  PROVE  K!CeilSqrt(v) \in Nat /\ K!CeilSqrt(v) * K!CeilSqrt(v) >= v
<1> DEFINE T == {r \in 0 .. v : r * r >= v}
<1>1. v * v >= v /\ v \in 0 .. v
  OBVIOUS
<1>2. T \subseteq Nat /\ T # {}
  BY <1>1
<1>3. K!CeilSqrt(v) = K!Min(T)
  BY DEF K!CeilSqrt
<1>4. K!CeilSqrt(v) \in T
  <2> HIDE DEF T
  <2> QED
    BY <1>2, <1>3, MinIs
<1> QED
  BY <1>4

\* The moduli found without a search, of which the second is two more.
LEMMA ModuliFound ==
  ASSUME NEW v \in Nat
  PROVE  \E m \in Nat : m % 2 = 1 /\ K!FindCoprimeModuli(v) = <<m, m + 2>> /\ v <= m * (m + 2)
<1> DEFINE root == K!CeilSqrt(v)
           m == IF root % 2 = 0 THEN root + 1 ELSE root
           far == m + 2 + v
           T == {i \in m + 2 .. far : K!Gcd(m, i) = 1 /\ m * i >= v}
<1>1. root \in Nat /\ root * root >= v
  BY RootCovers
<1>2. K!FindCoprimeModuli(v) = <<m, K!Min(T)>>
  BY DEF K!FindCoprimeModuli
<1> HIDE DEF root
<1>3. m \in Nat /\ m >= root /\ m % 2 = 1
  BY <1>1
<1> HIDE DEF m
<1>4. m * (m + 2) >= v
  <2>1. m * m >= root * root
    BY <1>1, <1>3
  <2>2. m * (m + 2) = m * m + 2 * m
    BY <1>3
  <2>3. m * m \in Nat /\ root * root \in Nat /\ 2 * m \in Nat
    BY <1>1, <1>3
  <2> QED
    BY <1>1, <2>1, <2>2, <2>3
<1>5. m + 2 \in T
  <2>1. m + 2 \in m + 2 .. far
    BY <1>3
  <2> QED
    BY <1>3, <1>4, <2>1, OddCoprime
<1>6. T \subseteq Nat /\ \A i \in T : m + 2 <= i
  BY <1>3
<1> HIDE DEF T
<1>7. K!Min(T) \in T /\ K!Min(T) <= m + 2
  BY <1>5, <1>6, MinIs
<1>8. K!Min(T) = m + 2
  <2>1. K!Min(T) \in Nat /\ m + 2 <= K!Min(T)
    BY <1>6, <1>7
  <2> QED
    BY <1>3, <1>7, <2>1
<1> QED
  BY <1>2, <1>3, <1>4, <1>8

\* The table of the embedding, with the moduli find_coprime_moduli gives it, has
\* a row for each token of the vocabulary and no two of them are equal.
THEOREM RowsApart ==
  ASSUME NEW v \in Int
  PROVE  LET table == K!Table(v, K!NoModulus, K!NoModulus)
         IN  /\ DOMAIN table = 0 .. v - 1
             /\ \A k, t \in 0 .. v - 1 : table[k] = table[t] => k = t
<1> DEFINE table == K!Table(v, K!NoModulus, K!NoModulus)
           moduli == K!FindCoprimeModuli(v)
<1>1. table = [tok \in 0 .. v - 1 |-> K!Row(moduli, tok)]
  BY DEF K!Table, K!Moduli
<1>2. ASSUME NEW k \in 0 .. v - 1, NEW t \in 0 .. v - 1, table[k] = table[t] PROVE k = t
  <2>1. v \in Nat /\ k \in Nat /\ t \in Nat /\ k < v /\ t < v
    OBVIOUS
  <2>2. PICK m \in Nat : m % 2 = 1 /\ moduli = <<m, m + 2>> /\ v <= m * (m + 2)
    BY <2>1, ModuliFound
  <2>3. K!Row(moduli, k) = K!Row(moduli, t)
    BY <1>1, <1>2
  <2> HIDE DEF table, moduli
  <2>4. moduli[1] = m /\ moduli[2] = m + 2
    BY <2>2
  <2>5. k % m = t % m /\ k % (m + 2) = t % (m + 2)
    BY <2>3, <2>4 DEF K!Row
  <2>6. m * (m + 2) \in Nat
    BY <2>2
  <2>7. k < m * (m + 2) /\ t < m * (m + 2)
    BY <2>1, <2>2, <2>6
  <2>8. CASE k <= t
    BY <2>1, <2>2, <2>5, <2>7, <2>8, Residues
  <2>9. CASE t <= k
    BY <2>1, <2>2, <2>5, <2>7, <2>9, Residues
  <2> QED
    BY <2>1, <2>8, <2>9
<1> QED
  BY <1>1, <1>2

-----------------------------------------------------------------------------
(* Datasets and windows *)

Vocabs == {a.model.vocab : a \in Jobs}

\* A dataset of these tokens, for a table of this vocabulary, as far as it is
\* written.
DatasetOf(k, toks, v) ==
  /\ DOMAIN k = {"n", "bands", "recs"}
  /\ toks \in Seq(Nat) \ {<<>>} /\ v \in Int
  /\ k.n = K!Positions(toks)
  /\ IsSequence(k.recs) /\ Len(k.recs) <= 2 * k.n
  /\ \A i \in 1 .. Len(k.recs) :
       k.recs[i] = K!Record(K!Table(v, K!NoModulus, K!NoModulus), BlockSize, toks, i - 1)

\* The one of a text that the source has had.
DatasetFrom(k, m, s, mv) ==
  SourceText(s) # Exit
  /\ DatasetOf(k, Encoded[m][s].toks, TableVocab(Encoded[m][s].vocab, [vocab |-> mv]))

Dataset(k) == \E m \in Modes, s \in held, mv \in Vocabs : DatasetFrom(k, m, s, mv)

\* A file with its header is the dataset of one text, up to where it was cut; a
\* conversion that writes one is not past its end, and a run has read from one.
WindowInv ==
  /\ kwds \in {None, Empty} \/ Dataset(kwds)
  /\ proc.pc \in ConvPcs \cup {"load"} => proc.model.vocab \in Vocabs
  /\ proc.pc = "kwds records" =>
       /\ DatasetOf(kwds, proc.toks, TableVocab(proc.vocab, proc.model))
       /\ Len(kwds.recs) < 2 * kwds.n
  /\ proc.pc \in TrainPcs =>
       /\ Dataset(kwds) /\ proc.seq \in Nat
       /\ \A b \in DOMAIN proc.batch : Paired(proc.batch[b])

\* The smaller of two numbers.
LEMMA MinOfTwo ==
  ASSUME NEW a \in Int, NEW b \in Int
  PROVE  /\ Min({a, b}) \in Int
         /\ Min({a, b}) = a \/ Min({a, b}) = b
         /\ Min({a, b}) <= a /\ Min({a, b}) <= b
<1>1. \E x \in {a, b} : \A y \in {a, b} : x <= y
  <2>1. CASE a <= b
    BY <2>1
  <2>2. CASE b <= a
    BY <2>2
  <2> QED
    BY <2>1, <2>2
<1>2. Min({a, b}) \in {a, b} /\ \A y \in {a, b} : Min({a, b}) <= y
  BY <1>1 DEF Min
<1> QED
  BY <1>2

\* A window's length is a number, and the window ends before the last position.
LEMMA WindowLength ==
  ASSUME NEW n \in Nat, NEW seq \in Nat, NEW start \in Nat, start < MaxStart(n, seq)
  PROVE  WindowLen(n, start, seq) \in Nat
<1>1. CASE n = 0
  BY <1>1 DEF WindowLen
<1>2. CASE n # 0
  <2> DEFINE d == n - start - 1
  <2>1. d \in Nat
    BY <1>2 DEF MaxStart
  <2>2. WindowLen(n, start, seq) = Min({seq, d})
    BY <1>2 DEF WindowLen
  <2> HIDE DEF d
  <2>3. Min({seq, d}) = seq \/ Min({seq, d}) = d
    BY <2>1, MinOfTwo
  <2> QED
    BY <2>1, <2>2, <2>3
<1> QED
  BY <1>1, <1>2

\* A wave made from the table carries its token: the rows are all different.
LEMMA RowCarries ==
  ASSUME NEW v \in Int, NEW tok, NEW pos
  PROVE  LET table == K!Table(v, K!NoModulus, K!NoModulus)
         IN  Carries(IF tok \in DOMAIN table THEN [row |-> table[tok], pos |-> pos] ELSE K!Zero,
                     tok, v)
<1> DEFINE table == K!Table(v, K!NoModulus, K!NoModulus)
           wave == IF tok \in DOMAIN table THEN [row |-> table[tok], pos |-> pos] ELSE K!Zero
<1>1. /\ DOMAIN table = 0 .. v - 1
      /\ \A k, t \in 0 .. v - 1 : table[k] = table[t] => k = t
  BY RowsApart
<1> HIDE DEF table
<1>2. CASE tok \in DOMAIN table
  <2>1. wave.row = table[tok]
    BY <1>2
  <2>2. \A k \in DOMAIN table : table[k] = wave.row <=> k = tok
    BY <1>1, <1>2, <2>1
  <2>3. {k \in DOMAIN table : table[k] = wave.row} = {tok}
    BY <1>2, <2>2
  <2> QED
    BY <1>2, <2>3 DEF Carries, table
<1>3. CASE tok \notin DOMAIN table
  BY <1>3 DEF Carries, table
<1> QED
  BY <1>2, <1>3

\* Records of a dataset: an input and its target, len of them from start.
LEMMA WindowPaired ==
  ASSUME NEW m \in Modes, NEW s \in held, NEW mv \in Vocabs, DatasetFrom(kwds, m, s, mv),
         NEW start \in Nat, NEW len \in Nat,
         K!Readable(kwds.recs, K!TargetOffset(kwds, start), len)
  PROVE  Paired([in     |-> K!ReadRecords(kwds.recs, K!InputOffset(kwds, start), len),
                 target |-> K!ReadRecords(kwds.recs, K!TargetOffset(kwds, start), len)])
<1> DEFINE toks == Encoded[m][s].toks
           v == TableVocab(Encoded[m][s].vocab, [vocab |-> mv])
           table == K!Table(v, K!NoModulus, K!NoModulus)
           n == kwds.n
           recs == kwds.recs
           in == SubSeq(recs, start + 1, start + len)
           out == SubSeq(recs, n + start + 1, n + start + len)
           w == [in |-> in, target |-> out]
<1>1. /\ toks \in Seq(Nat) /\ toks # <<>> /\ v \in Int /\ n = Len(toks) - 1
      /\ IsSequence(recs) /\ Len(recs) <= 2 * n
      /\ \A i \in 1 .. Len(recs) : recs[i] = K!Record(table, BlockSize, toks, i - 1)
      /\ SourceText(s) # Exit
  BY DEF DatasetFrom, DatasetOf, K!Positions
<1>2. w = [in     |-> K!ReadRecords(recs, K!InputOffset(kwds, start), len),
           target |-> K!ReadRecords(recs, K!TargetOffset(kwds, start), len)]
  BY DEF K!ReadRecords, K!InputOffset, K!TargetOffset
<1>3. n + start + len <= Len(recs)
  BY DEF K!Readable, K!TargetOffset
<1> HIDE DEF n, recs, toks, v, table
<1>4. n \in Nat /\ Len(toks) \in Nat /\ Len(toks) = n + 1
  <2>1. Len(toks) \in Nat /\ Len(toks) # 0
    BY <1>1, EmptySeq
  <2> QED
    BY <1>1, <2>1
<1>5. PICK W : recs \in Seq(W)
  BY <1>1 DEF IsSequence
<1>6. Len(recs) \in Nat /\ start + len <= n /\ \A i \in 1 .. Len(recs) : recs[i] \in W
  <2>1. Len(recs) \in Nat /\ \A i \in 1 .. Len(recs) : recs[i] \in W
    BY <1>5
  <2> QED
    BY <1>1, <1>3, <1>4, <2>1
<1>7. Len(in) = len /\ \A i \in 1 .. len : in[i] = recs[start + i]
  <2> DEFINE a == start + 1
             b == start + len
  <2>1. a \in Int /\ b \in Int /\ \A i \in a .. b : recs[i] \in W
    BY <1>4, <1>6, <1>3
  <2>2. /\ Len(SubSeq(recs, a, b)) = IF a <= b THEN b - a + 1 ELSE 0
        /\ \A i \in 1 .. b - a + 1 : SubSeq(recs, a, b)[i] = recs[a + i - 1]
    <3> HIDE DEF a, b
    <3> QED
      BY <2>1, SubSeqProperties
  <2>3. b - a + 1 = len /\ \A i \in 1 .. len : a + i - 1 = start + i
    OBVIOUS
  <2>4. (IF a <= b THEN b - a + 1 ELSE 0) = len
    OBVIOUS
  <2> QED
    BY <2>2, <2>3, <2>4
<1>8. Len(out) = len /\ \A i \in 1 .. len : out[i] = recs[n + start + i]
  <2> DEFINE a == n + start + 1
             b == n + start + len
  <2>1. a \in Int /\ b \in Int /\ \A i \in a .. b : recs[i] \in W
    BY <1>4, <1>6, <1>3
  <2>2. /\ Len(SubSeq(recs, a, b)) = IF a <= b THEN b - a + 1 ELSE 0
        /\ \A i \in 1 .. b - a + 1 : SubSeq(recs, a, b)[i] = recs[a + i - 1]
    <3> HIDE DEF a, b
    <3> QED
      BY <2>1, SubSeqProperties
  <2>3. b - a + 1 = len /\ \A i \in 1 .. len : a + i - 1 = n + start + i
    BY <1>4
  <2>4. (IF a <= b THEN b - a + 1 ELSE 0) = len
    BY <1>4
  <2> QED
    BY <2>2, <2>3, <2>4
<1> HIDE DEF in, out
<1>9. ASSUME NEW i \in 1 .. len
      PROVE  /\ Carries(in[i], toks[start + i], v)
             /\ in[i] # K!Zero => in[i].pos = (start + i - 1) % BlockSize
             /\ Carries(out[i], toks[start + i + 1], v)
             /\ out[i].pos = K!NoPos
  <2> DEFINE r == start + i - 1
             t == n + r
  <2>1. r \in Nat /\ r < n /\ r + 1 = start + i /\ r + 2 = start + i + 1
    BY <1>6, <1>4
  <2>2. in[i] = K!Record(table, BlockSize, toks, r)
    <3>1. start + i \in 1 .. Len(recs) /\ (start + i) - 1 = r
      BY <1>3, <1>4, <1>6
    <3> QED
      BY <1>1, <1>7, <3>1
  <2>3. out[i] = K!Record(table, BlockSize, toks, t)
    <3>1. n + start + i \in 1 .. Len(recs) /\ (n + start + i) - 1 = t
      BY <1>3, <1>4, <1>6
    <3> QED
      BY <1>1, <1>8, <3>1
  <2>4. K!Positions(toks) = n /\ t >= n /\ t - n = r
    BY <1>1, <1>4, <2>1 DEF K!Positions
  <2> HIDE DEF r, t
  <2>5. in[i] = K!InputWave(table, BlockSize, toks, r)
    BY <2>1, <2>2, <2>4 DEF K!Record
  <2>6. out[i] = K!TargetWave(table, toks, r)
    <3>1. ~(t < n)
      BY <1>4, <2>1, <2>4 DEF r, t
    <3> QED
      BY <2>3, <2>4, <3>1 DEF K!Record
  <2>7. in[i] = IF toks[start + i] \in DOMAIN table
                THEN [row |-> table[toks[start + i]], pos |-> r % BlockSize] ELSE K!Zero
    BY <2>1, <2>5 DEF K!InputWave
  <2>8. out[i] = IF toks[start + i + 1] \in DOMAIN table
                 THEN [row |-> table[toks[start + i + 1]], pos |-> K!NoPos] ELSE K!Zero
    BY <2>1, <2>6 DEF K!TargetWave
  <2>9. Carries(in[i], toks[start + i], v) /\ Carries(out[i], toks[start + i + 1], v)
    BY <1>1, <2>7, <2>8, RowCarries DEF table
  <2>10. in[i] # K!Zero => in[i].pos = (start + i - 1) % BlockSize
    BY <2>7 DEF r
  <2>11. out[i].pos = K!NoPos
    BY <2>8 DEF K!Zero
  <2> QED
    BY <2>9, <2>10, <2>11
<1>10. start \in 0 .. Len(toks) - Len(w.in) - 1
  BY <1>4, <1>6, <1>7
<1>11. w.in = in /\ w.target = out /\ Len(w.target) = Len(w.in)
  BY <1>7, <1>8
<1> HIDE DEF w
<1>12. Paired(w)
  <2>1. \A i \in 1 .. Len(w.in) :
          /\ Carries(w.in[i], toks[start + i], v)
          /\ w.in[i] # K!Zero => w.in[i].pos = (start + i - 1) % BlockSize
          /\ Carries(w.target[i], toks[start + i + 1], v)
          /\ w.target[i].pos = K!NoPos
    BY <1>7, <1>9, <1>11
  <2> QED
    BY <1>1, <1>10, <1>11, <2>1 DEF Paired, Vocabs, toks, v
<1> QED
  BY <1>2, <1>12 DEF w, recs

\* A text that was held stays one of those held.
LEMMA DatasetStays ==
  ASSUME NEW k, Dataset(k), held \subseteq held'
  PROVE  Dataset(k)'
BY DEF Dataset, DatasetFrom, DatasetOf

\* And a window paired by it stays paired.
LEMMA PairedStays ==
  ASSUME NEW w, Paired(w), held \subseteq held'
  PROVE  Paired(w)'
BY DEF Paired, Carries

\* Neither the dataset nor the process changed.
LEMMA WindowStays ==
  ASSUME WindowInv, UNCHANGED <<kwds, proc>>, held \subseteq held'
  PROVE  WindowInv'
<1>1. kwds' \in {None, Empty} \/ Dataset(kwds)'
  BY DatasetStays DEF WindowInv
<1>2. proc'.pc \in TrainPcs => Dataset(kwds)' /\ \A b \in DOMAIN proc'.batch : Paired(proc.batch[b])'
  BY DatasetStays, PairedStays DEF WindowInv
<1> QED
  BY <1>1, <1>2 DEF WindowInv, DatasetOf

\* The dataset is the one it was.
LEMMA DatasetKept ==
  ASSUME WindowInv, UNCHANGED <<kwds, held>>
  PROVE  kwds' \in {None, Empty} \/ Dataset(kwds)'
BY DatasetStays DEF WindowInv

\* The process ended.
LEMMA WindowIdle ==
  ASSUME WindowInv, UNCHANGED <<kwds, held>>, proc' = Idle
  PROVE  WindowInv'
<1>1. proc'.pc = "idle"
  BY DEF Idle
<1> QED
  BY <1>1, DatasetKept DEF WindowInv, ConvPcs, CachePcs, TrainPcs

\* A conversion that does not write its dataset goes on.
LEMMA WindowConverts ==
  ASSUME WindowInv, UNCHANGED <<kwds, held>>, proc.pc \in ConvPcs \cup {"load"},
         proc'.pc \in ConvPcs \ {"kwds records"}, proc'.model = proc.model
  PROVE  WindowInv'
<1>1. proc'.pc # "kwds records" /\ proc'.pc \notin TrainPcs
  BY DEF ConvPcs, CachePcs, TrainPcs
<1>2. proc'.model.vocab \in Vocabs
  BY DEF WindowInv
<1> QED
  BY <1>1, <1>2, DatasetKept DEF WindowInv, Vocabs

\* A training process goes on with its batch, or without it.
LEMMA WindowTrains ==
  ASSUME WindowInv, UNCHANGED <<kwds, held>>, proc.pc \in TrainPcs, proc'.pc \in TrainPcs,
         proc'.seq = proc.seq, proc'.batch \in {proc.batch, <<>>}
  PROVE  WindowInv'
<1>1. proc'.pc # "kwds records" /\ proc'.pc \notin ConvPcs \cup {"load"}
  BY DEF ConvPcs, CachePcs, TrainPcs
<1>2. Dataset(kwds)'
  BY DatasetStays DEF WindowInv
<1>3. \A b \in DOMAIN proc.batch : Paired(proc.batch[b])
  BY DEF WindowInv
<1>4. \A b \in DOMAIN proc'.batch : Paired(proc.batch[b])'
  <2>1. CASE proc'.batch = proc.batch
    BY <1>3, <2>1, PairedStays
  <2>2. CASE proc'.batch = <<>>
    BY <2>2
  <2> QED
    BY <2>1, <2>2
<1>5. proc'.seq \in Nat
  BY DEF WindowInv
<1> QED
  BY <1>1, <1>2, <1>4, <1>5 DEF WindowInv

\* convert-dataset starts.
LEMMA StartConvertWindow ==
  ASSUME WindowInv, NEW a \in Jobs, StartConvert(a)
  PROVE  WindowInv'
<1>1. proc'.pc = "load" /\ proc'.model = a.model /\ UNCHANGED <<kwds, held>>
  BY DEF StartConvert
<1>2. proc'.model.vocab \in Vocabs /\ proc'.pc # "kwds records" /\ proc'.pc \notin TrainPcs
  BY <1>1 DEF Vocabs, TrainPcs
<1> QED
  BY <1>1, <1>2, DatasetKept DEF WindowInv, Vocabs

\* Tokens are loaded.
LEMMA LoadWindow ==
  ASSUME WindowInv, LoadCached \/ LoadSource
  PROVE  WindowInv'
<1>1. proc.pc = "load" /\ UNCHANGED <<kwds, held>>
  BY DEF LoadCached, LoadSource
<1>2. proc' = Idle \/ (proc'.pc \in {"kwds create", "cache create"} /\ proc'.model = proc.model)
  <2>1. CASE LoadCached
    BY <2>1 DEF LoadCached, Loaded
  <2>2. CASE LoadSource
    <3>1. proc' = Idle \/ \E toks, vocab : Loaded("cache create", toks, vocab, source)
      BY <2>2 DEF LoadSource
    <3>2. ASSUME NEW toks, NEW vocab, Loaded("cache create", toks, vocab, source)
          PROVE  proc'.pc = "cache create" /\ proc'.model = proc.model
      BY <3>2 DEF Loaded
    <3> QED
      BY <3>1, <3>2
  <2> QED
    BY <2>1, <2>2
<1> QED
  BY <1>1, <1>2, WindowIdle, WindowConverts DEF ConvPcs, CachePcs

\* They are cached.
LEMMA CacheWindow ==
  ASSUME WindowInv, TextInv, CacheCreate \/ CacheHeader \/ CacheToken
  PROVE  WindowInv'
<1>1. proc.pc \in CachePcs /\ UNCHANGED <<kwds, held>>
  BY DEF CacheCreate, CacheHeader, CacheToken, CachePcs
<1>2. DOMAIN proc = ConvFields
  BY <1>1, ConvIs DEF ConvPcs, ConvInv
<1>3. proc'.model = proc.model
  BY <1>2 DEF CacheCreate, CacheHeader, CacheToken, ConvFields
<1>4. proc'.pc \in ConvPcs \ {"kwds records"}
  BY <1>2 DEF CacheCreate, CacheHeader, CacheToken, ConvFields, ConvPcs, CachePcs
<1> QED
  BY <1>1, <1>3, <1>4, WindowConverts DEF ConvPcs

\* The dataset is truncated.
LEMMA KwdsCreateWindow ==
  ASSUME WindowInv, TextInv, KwdsCreate
  PROVE  WindowInv'
<1>1. proc.pc = "kwds create" /\ kwds' = Empty /\ proc' = [proc EXCEPT !.pc = "kwds header"]
  BY DEF KwdsCreate
<1>2. DOMAIN proc = ConvFields
  BY <1>1, ConvIs DEF ConvPcs, ConvInv
<1>3. proc'.model = proc.model /\ proc'.pc = "kwds header"
  BY <1>1, <1>2 DEF ConvFields
<1>4. proc'.model.vocab \in Vocabs
  BY <1>1, <1>3 DEF WindowInv, ConvPcs
<1> QED
  BY <1>1, <1>3, <1>4 DEF WindowInv, Vocabs, TrainPcs

\* The text behind the tokens of a conversion.
LEMMA ConvertsText ==
  ASSUME WindowInv, TextInv, proc.pc \in ConvPcs, NEW k,
         DatasetOf(k, proc.toks, TableVocab(proc.vocab, proc.model))
  PROVE  Dataset(k)
<1>1. ConvInv(proc) /\ proc.model.vocab \in Vocabs
  BY ConvIs DEF WindowInv
<1>2. PICK s \in held : OfText(proc.mode, proc.toks, proc.vocab, proc.sizeAtLoad, s)
  BY <1>1 DEF ConvInv, Genuine
<1>3. proc.mode \in Modes
  BY <1>1 DEF ConvInv
<1>4. DatasetFrom(k, proc.mode, s, proc.model.vocab)
  BY <1>2 DEF OfText, DatasetFrom, TableVocab
<1> QED
  BY <1>1, <1>3, <1>4 DEF Dataset

\* Its header promises a record for each token but the last, as an input and as
\* a target.
LEMMA KwdsHeaderWindow ==
  ASSUME WindowInv, TextInv, KwdsHeader
  PROVE  WindowInv'
<1> DEFINE k == [n |-> K!Positions(proc.toks), bands |-> proc.model.n_bands, recs |-> <<>>]
           n == K!Positions(proc.toks)
<1>1. /\ proc.pc = "kwds header" /\ kwds' = k /\ UNCHANGED held
      /\ proc' = IF n = 0 THEN Idle ELSE [proc EXCEPT !.pc = "kwds records"]
  BY DEF KwdsHeader
<1>2. ConvInv(proc) /\ proc.model.vocab \in Vocabs
  BY <1>1, ConvIs DEF ConvPcs, WindowInv
<1>3. /\ proc.toks \in Seq(Nat) \ {<<>>} /\ proc.vocab \in Nat
  <2>1. PICK s \in held : OfText(proc.mode, proc.toks, proc.vocab, proc.sizeAtLoad, s)
    BY <1>2 DEF ConvInv, Genuine
  <2>2. proc.mode \in Modes /\ s \in Sources
    BY <1>2, <2>1 DEF ConvInv, TextInv
  <2> QED
    BY <2>1, <2>2, TokensAreIds DEF OfText, Encoded
<1>4. proc.model.vocab \in Nat
  BY <1>2, CountsNatural DEF Vocabs
<1>5. n \in Nat
  <2>1. Len(proc.toks) \in Nat /\ Len(proc.toks) # 0
    BY <1>3, EmptySeq
  <2> QED
    BY <2>1 DEF K!Positions
<1>6. DatasetOf(k, proc.toks, TableVocab(proc.vocab, proc.model))
  <2>1. TableVocab(proc.vocab, proc.model) \in Int
    BY <1>3, <1>4 DEF TableVocab
  <2>2. k.n = n /\ k.recs = <<>> /\ DOMAIN k = {"n", "bands", "recs"}
    OBVIOUS
  <2>3. IsSequence(<<>>) /\ Len(<<>>) = 0
    <3>1. <<>> \in Seq({})
      OBVIOUS
    <3> QED
      BY <3>1 DEF IsSequence
  <2> HIDE DEF k, n
  <2>4. Len(k.recs) <= 2 * k.n
    BY <1>5, <2>2, <2>3
  <2> QED
    BY <1>3, <2>1, <2>2, <2>3, <2>4 DEF DatasetOf, n
<1>7. Dataset(k)
  BY <1>1, <1>6, ConvertsText DEF ConvPcs
<1> HIDE DEF n
<1>8. Dataset(kwds)'
  <2> HIDE DEF k
  <2> QED
    BY <1>1, <1>7, DatasetStays
<1>9. CASE n = 0
  <2>1. proc'.pc = "idle"
    BY <1>1, <1>9 DEF Idle
  <2> QED
    BY <1>8, <2>1 DEF WindowInv, ConvPcs, CachePcs, TrainPcs
<1>10. CASE n # 0
  <2>1. DOMAIN proc = ConvFields
    BY <1>2 DEF ConvInv
  <2>2. /\ proc'.pc = "kwds records" /\ proc'.model = proc.model /\ proc'.toks = proc.toks
        /\ proc'.vocab = proc.vocab
    BY <1>1, <1>10, <2>1 DEF ConvFields
  <2>3. kwds'.n = n /\ Len(kwds'.recs) = 0
    BY <1>1 DEF n
  <2>4. Len(kwds'.recs) < 2 * kwds'.n
    BY <1>5, <1>10, <2>3
  <2>5. DatasetOf(kwds, proc.toks, TableVocab(proc.vocab, proc.model))'
    <3> HIDE DEF k
    <3> QED
      BY <1>1, <1>6, <2>2 DEF DatasetOf, TableVocab
  <2>6. proc'.model.vocab \in Vocabs' /\ proc'.pc \notin TrainPcs
    BY <1>2, <2>2 DEF Vocabs, TrainPcs
  <2> QED
    BY <1>8, <2>2, <2>4, <2>5, <2>6 DEF WindowInv
<1> QED
  BY <1>9, <1>10

\* One more record: the next of the inputs, or of the targets.
LEMMA KwdsRecordWindow ==
  ASSUME WindowInv, TextInv, KwdsRecord
  PROVE  WindowInv'
<1> DEFINE v == TableVocab(proc.vocab, proc.model)
           table == K!Table(v, K!NoModulus, K!NoModulus)
           r == Len(kwds.recs)
           new == K!Record(table, BlockSize, proc.toks, r)
           k == [kwds EXCEPT !.recs = Append(@, new)]
<1>1. /\ proc.pc = "kwds records" /\ kwds' = k /\ UNCHANGED held
      /\ proc' = IF r + 1 = 2 * kwds.n THEN Idle ELSE proc
  BY DEF KwdsRecord
<1>2. DatasetOf(kwds, proc.toks, v) /\ r < 2 * kwds.n /\ proc.model.vocab \in Vocabs
  BY <1>1 DEF WindowInv, ConvPcs
<1>3. DOMAIN kwds = {"n", "bands", "recs"} /\ IsSequence(kwds.recs)
  BY <1>2 DEF DatasetOf
<1>4. DOMAIN k = {"n", "bands", "recs"} /\ k.n = kwds.n /\ k.recs = Append(kwds.recs, new)
  BY <1>3
<1> HIDE DEF k, new
<1>5. PICK W : kwds.recs \in Seq(W)
  BY <1>3 DEF IsSequence
<1>6. /\ k.recs \in Seq(W \cup {new}) /\ Len(k.recs) = r + 1 /\ r \in Nat
      /\ \A i \in 1 .. r : k.recs[i] = kwds.recs[i]
      /\ k.recs[r + 1] = new
  <2>1. kwds.recs \in Seq(W \cup {new}) /\ new \in W \cup {new} /\ r \in Nat
    BY <1>5
  <2> QED
    BY <1>4, <2>1, AppendProperties
<1>7. kwds.n \in Int
  <2>1. proc.toks \in Seq(Nat) /\ kwds.n = Len(proc.toks) - 1
    BY <1>2 DEF DatasetOf, K!Positions
  <2> QED
    BY <2>1
<1> HIDE DEF r
<1>8. r + 1 <= 2 * kwds.n
  BY <1>2, <1>6, <1>7
<1>9. ASSUME NEW i \in 1 .. Len(k.recs)
      PROVE  k.recs[i] = K!Record(table, BlockSize, proc.toks, i - 1)
  <2>1. CASE i = r + 1
    BY <1>6, <2>1 DEF new
  <2>2. CASE i # r + 1
    <3>1. i \in 1 .. r
      BY <1>6, <2>2
    <3>2. kwds.recs[i] = K!Record(table, BlockSize, proc.toks, i - 1)
      BY <1>2, <3>1 DEF DatasetOf, r
    <3> QED
      BY <1>6, <3>1, <3>2
  <2> QED
    BY <2>1, <2>2
<1>10. DatasetOf(k, proc.toks, v)
  <2>1. IsSequence(k.recs) /\ Len(k.recs) <= 2 * k.n
    BY <1>4, <1>6, <1>8 DEF IsSequence
  <2> QED
    BY <1>2, <1>4, <1>9, <2>1 DEF DatasetOf
<1>11. Dataset(k)
  BY <1>1, <1>10, ConvertsText DEF ConvPcs
<1>12. Dataset(kwds)'
  BY <1>1, <1>11, DatasetStays
<1>13. CASE proc' = Idle
  <2>1. proc'.pc = "idle"
    BY <1>13 DEF Idle
  <2> QED
    BY <1>12, <2>1 DEF WindowInv, ConvPcs, CachePcs, TrainPcs
<1>14. CASE proc' # Idle
  <2>1. proc' = proc /\ r + 1 # 2 * kwds.n
    BY <1>1, <1>14
  <2>2. Len(kwds'.recs) < 2 * kwds'.n
    <3>1. r + 1 < 2 * kwds.n
      BY <1>6, <1>7, <1>8, <2>1
    <3> QED
      BY <1>1, <1>4, <1>6, <3>1
  <2>3. DatasetOf(kwds, proc.toks, TableVocab(proc.vocab, proc.model))'
    BY <1>1, <1>10, <2>1 DEF DatasetOf, TableVocab
  <2>4. proc'.pc = "kwds records" /\ proc'.model.vocab \in Vocabs' /\ proc'.pc \notin TrainPcs
    BY <1>1, <1>2, <2>1 DEF Vocabs, TrainPcs
  <2> QED
    BY <1>12, <2>2, <2>3, <2>4 DEF WindowInv
<1> QED
  BY <1>13, <1>14

\* Training starts, on a dataset that is there.
LEMMA StartTrainWindow ==
  ASSUME WindowInv, NEW a \in Jobs, NEW from, StartTrain(a, from)
  PROVE  WindowInv'
<1> DEFINE c == C!ConfigOf(a)
<1>1. /\ kwds \notin {None, Empty} /\ UNCHANGED <<kwds, held>>
      /\ a.command # "convert-dataset"
      /\ proc'.pc = "draw" /\ proc'.seq = c.seq_len /\ proc'.batch = <<>>
  BY DEF StartTrain, Starts
<1>2. Dataset(kwds)'
  BY <1>1, DatasetKept
<1>3. proc'.seq \in Nat
  BY <1>1, CountsNatural
<1>4. \A b \in DOMAIN proc'.batch : Paired(proc.batch[b])'
  BY <1>1
<1>5. proc'.pc \notin ConvPcs \cup {"load"} /\ proc'.pc # "kwds records"
  BY <1>1 DEF ConvPcs, CachePcs
<1> QED
  BY <1>2, <1>3, <1>4, <1>5 DEF WindowInv

\* A window is drawn: it joins the batch, or the batch is given up, or the run.
LEMMA DrawWindow ==
  ASSUME WindowInv, RunInv, NEW loss \in {1, 2, Bad},
         NEW start \in 0 .. (IF kwds \in {None, Empty} THEN 0 ELSE kwds.n), Draw(start, loss)
  PROVE  WindowInv'
<1> DEFINE len == WindowLen(kwds.n, start, proc.seq)
           in  == K!InputOffset(kwds, start)
           o   == K!TargetOffset(kwds, start)
           ok  == K!Readable(kwds.recs, in, len) /\ K!Readable(kwds.recs, o, len)
           win == [in |-> K!ReadRecords(kwds.recs, in, len), target |-> K!ReadRecords(kwds.recs, o, len)]
           q   == [proc EXCEPT !.rng = @ + 1]
           bad == [q EXCEPT !.iter = @ + 1, !.batch = <<>>, !.sum = 0]
           good == [q EXCEPT !.batch = Append(@, win), !.sum = @ + loss,
                             !.pc = IF Len(proc.batch) + 1 = proc.batchSize THEN "step" ELSE @]
<1>1. /\ proc.pc = "draw" /\ UNCHANGED <<kwds, held>> /\ start < MaxStart(kwds.n, proc.seq)
      /\ proc' = (CASE ~ok -> Idle [] ok /\ loss = Bad -> bad [] OTHER -> good)
  BY DEF Draw
<1>2. proc' = Idle \/ proc' = bad \/ (proc' = good /\ ok)
  BY <1>1
<1> HIDE DEF ok, win
<1>3. DOMAIN proc = TrainFields /\ IsSequence(proc.batch)
  BY <1>1, TrainingIs DEF TrainInv, Shape, TrainPcs
<1>4. CASE proc' = Idle
  BY <1>1, <1>4, WindowIdle
<1>5. CASE proc' = bad
  <2>1. proc'.pc = "draw" /\ proc'.seq = proc.seq /\ proc'.batch = <<>>
    BY <1>1, <1>3, <1>5 DEF TrainFields
  <2> QED
    BY <1>1, <2>1, WindowTrains DEF TrainPcs
<1>6. CASE proc' = good /\ ok
  <2>1. proc'.pc \in {"draw", "step"} /\ proc'.seq = proc.seq /\ proc'.batch = Append(proc.batch, win)
    BY <1>1, <1>3, <1>6 DEF TrainFields
  <2>2. /\ Dataset(kwds) /\ proc.seq \in Nat
        /\ \A b \in DOMAIN proc.batch : Paired(proc.batch[b])
    BY <1>1 DEF WindowInv, TrainPcs
  <2>3. PICK m \in Modes, s \in held, mv \in Vocabs : DatasetFrom(kwds, m, s, mv)
    BY <2>2 DEF Dataset
  <2>4. kwds.n \in Nat /\ start \in Nat
    <3> DEFINE toks == Encoded[m][s].toks
    <3>1. toks \in Seq(Nat) /\ toks # <<>> /\ kwds.n = Len(toks) - 1
      BY <2>3 DEF DatasetFrom, DatasetOf, K!Positions
    <3>2. Len(toks) \in Nat /\ Len(toks) # 0
      BY <3>1, EmptySeq
    <3>3. kwds.n \in Nat
      BY <3>1, <3>2
    <3> QED
      BY <3>3
  <2>5. len \in Nat
    BY <1>1, <2>2, <2>4, WindowLength
  <2>6. Paired(win)
    <3>1. K!Readable(kwds.recs, o, len)
      BY <1>6 DEF ok
    <3> QED
      BY <2>3, <2>4, <2>5, <3>1, WindowPaired DEF win
  <2> DEFINE bs == proc.batch
  <2>7. PICK W : bs \in Seq(W)
    BY <1>3 DEF IsSequence
  <2>8. /\ Append(bs, win) \in Seq(W \cup {win}) /\ Len(Append(bs, win)) = Len(bs) + 1
        /\ \A b \in 1 .. Len(bs) : Append(bs, win)[b] = bs[b]
        /\ Append(bs, win)[Len(bs) + 1] = win
        /\ Len(bs) \in Nat /\ DOMAIN bs = 1 .. Len(bs)
    <3>1. bs \in Seq(W \cup {win}) /\ win \in W \cup {win}
      BY <2>7
    <3> HIDE DEF bs
    <3> QED
      BY <3>1, AppendProperties
  <2>9. \A b \in DOMAIN Append(bs, win) : Paired(Append(bs, win)[b])
    <3>1. DOMAIN Append(bs, win) = 1 .. Len(bs) + 1
      BY <2>8
    <3>2. \A b \in 1 .. Len(bs) : Paired(bs[b])
      BY <2>2, <2>8
    <3> HIDE DEF bs
    <3>3. ASSUME NEW b \in 1 .. Len(bs) + 1 PROVE Paired(Append(bs, win)[b])
      <4>1. CASE b = Len(bs) + 1
        BY <2>6, <2>8, <4>1
      <4>2. CASE b # Len(bs) + 1
        <5>1. b \in 1 .. Len(bs)
          BY <2>8, <4>2
        <5> QED
          BY <2>8, <3>2, <5>1
      <4> QED
        BY <4>1, <4>2
    <3> QED
      BY <3>1, <3>3
  <2>10. \A b \in DOMAIN proc'.batch : Paired(proc.batch[b])'
    <3>1. proc'.batch = Append(bs, win)
      BY <2>1
    <3> HIDE DEF bs
    <3>2. \A b \in DOMAIN proc'.batch : Paired(proc'.batch[b])
      BY <2>9, <3>1
    <3> QED
      BY <1>1, <3>2, PairedStays
  <2>11. Dataset(kwds)'
    BY <1>1, <2>2, DatasetStays
  <2>12. proc'.pc \notin ConvPcs \cup {"load"} /\ proc'.seq \in Nat
    BY <2>1, <2>2 DEF ConvPcs, CachePcs
  <2>13. proc'.pc # "kwds records"
    BY <2>1
  <2> QED
    BY <2>10, <2>11, <2>12, <2>13 DEF WindowInv
<1> QED
  BY <1>2, <1>4, <1>5, <1>6

\* The rest of a training run leaves its windows alone, or drops them.
LEMMA TrainWindow ==
  ASSUME WindowInv, RunInv, Step \/ FinishLoop \/ SaveCreate \/ SaveHeader \/ SaveBody
  PROVE  WindowInv'
<1>1. proc.pc \in TrainPcs /\ UNCHANGED <<kwds, held>>
  BY DEF Step, FinishLoop, SaveCreate, SaveHeader, SaveBody, TrainPcs
<1>2. DOMAIN proc = TrainFields
  BY <1>1, TrainingIs DEF TrainInv, Shape
<1>3. ASSUME Step
      PROVE  proc'.pc \in TrainPcs /\ proc'.seq = proc.seq /\ proc'.batch = <<>>
  BY <1>2, <1>3 DEF Step, TrainFields, TrainPcs
<1>4. ASSUME FinishLoop \/ SaveCreate \/ SaveHeader \/ SaveBody, proc' # Idle
      PROVE  proc'.pc \in TrainPcs /\ proc'.seq = proc.seq /\ proc'.batch = proc.batch
  BY <1>2, <1>4 DEF FinishLoop, SaveCreate, SaveHeader, SaveBody, TrainFields, TrainPcs
<1> QED
  BY <1>1, <1>3, <1>4, WindowTrains, WindowIdle

-----------------------------------------------------------------------------
(* Every step *)

\* A run and a conversion, without what passes between them.
RunText == RunInv /\ TextInv

\* Files and process of a step that leaves both alone.
LEMMA RunStays ==
  ASSUME RunInv, UNCHANGED <<ckpts, proc>>
  PROVE  RunInv'
BY DEF RunInv, FilesInv, FileInv, Ordered, TrainInv, Shape, Place, Steps, Marks, Elsewhere,
       Finishing, Writing, InBatch, InHand, IsSequence

\* A step of the conversion.
LEMMA RunElsewhere ==
  ASSUME RunInv, UNCHANGED ckpts, Elsewhere(proc')
  PROVE  RunInv'
<1>1. FilesInv'
  BY DEF RunInv, FilesInv, FileInv, Ordered
<1> QED
  BY <1>1 DEF RunInv, Elsewhere

\* A step of a training process, or the end of it.
LEMMA RunTrains ==
  ASSUME TextInv, FilesInv', UNCHANGED <<source, held, raced, caches>>,
         TrainInv(proc') \/ proc' = Idle
  PROVE  RunText'
<1>1. CASE TrainInv(proc')
  <2>1. DOMAIN proc' = TrainFields /\ proc'.pc \in TrainPcs
    BY <1>1 DEF TrainInv, Shape
  <2>2. TextInv'
    BY <2>1, TextElsewhere DEF TrainFields, TrainPcs, ConvPcs, CachePcs
  <2> QED
    BY <1>1, <2>2 DEF RunText, RunInv
<1>2. CASE proc' = Idle
  <2>1. DOMAIN proc' = {"pc"} /\ proc'.pc = "idle"
    BY <1>2 DEF Idle
  <2>2. TextInv'
    BY <2>1, TextElsewhere DEF ConvPcs, CachePcs
  <2>3. Elsewhere(proc')
    BY <2>1 DEF Elsewhere, TrainPcs
  <2> QED
    BY <2>2, <2>3 DEF RunText, RunInv, Elsewhere
<1> QED
  BY <1>1, <1>2

\* It holds at first: nothing runs and there is no file.
LEMMA InitRunText == Init => RunText
<1> SUFFICES ASSUME Init PROVE RunText
  OBVIOUS
<1>1. proc = Idle /\ DOMAIN proc = {"pc"} /\ proc.pc = "idle"
  BY DEF Init, Idle
<1>2. RunInv
  BY <1>1 DEF Init, RunInv, FilesInv, Elsewhere, TrainPcs
<1>3. TextInv
  BY <1>1, FirstSourceGiven DEF Init, TextInv, CacheInv, ConvPcs, CachePcs
<1> QED
  BY <1>2, <1>3 DEF RunText

\* Every action keeps it.
LEMMA NextRunText == RunText /\ [Next]_vars => RunText'
<1> SUFFICES ASSUME RunText, [Next]_vars PROVE RunText'
  OBVIOUS
<1>0. RunInv /\ TextInv /\ FilesInv
  BY DEF RunText, RunInv
<1>a. ASSUME TextInv', Elsewhere(proc'), UNCHANGED ckpts PROVE RunText'
  BY <1>0, <1>a, RunElsewhere DEF RunText
<1>b. ASSUME UNCHANGED ckpts PROVE FilesInv'
  BY <1>0, <1>b DEF FilesInv, FileInv, Ordered
<1>1. ASSUME NEW s \in Sources, Edit(s) PROVE RunText'
  <2>1. /\ source' = s /\ held' = held \cup {s} /\ raced' = raced
        /\ UNCHANGED <<caches, proc>> /\ UNCHANGED ckpts
    BY <1>1 DEF Edit
  <2>2. TextInv'
    <3>1. source' \in held' /\ held \subseteq held' /\ held' \subseteq Sources /\ raced \subseteq raced'
      BY <1>0, <2>1 DEF TextInv
    <3> QED
      BY <1>0, <2>1, <3>1, TextStays
  <2> QED
    BY <1>0, <2>1, <2>2, RunStays DEF RunText
<1>2. CASE Kill
  BY <1>0, <1>2, <1>b, RunTrains DEF Kill
<1>3. ASSUME NEW a \in Jobs, StartConvert(a) PROVE RunText'
  <2>1. UNCHANGED ckpts
    BY <1>3 DEF StartConvert
  <2> QED
    BY <1>0, <1>3, <1>a, <2>1, StartConvertInv
<1>4. CASE LoadCached
  <2>1. UNCHANGED ckpts
    BY <1>4 DEF LoadCached
  <2> QED
    BY <1>0, <1>4, <1>a, <2>1, LoadCachedInv
<1>5. CASE LoadSource
  <2>1. UNCHANGED ckpts
    BY <1>5 DEF LoadSource
  <2> QED
    BY <1>0, <1>5, <1>a, <2>1, LoadSourceInv
<1>6. CASE CacheCreate
  <2>1. UNCHANGED ckpts
    BY <1>6 DEF CacheCreate
  <2> QED
    BY <1>0, <1>6, <1>a, <2>1, CacheCreateInv
<1>7. CASE CacheHeader
  <2>1. UNCHANGED ckpts
    BY <1>7 DEF CacheHeader
  <2> QED
    BY <1>0, <1>7, <1>a, <2>1, CacheHeaderInv
<1>8. CASE CacheToken
  <2>1. UNCHANGED ckpts
    BY <1>8 DEF CacheToken
  <2> QED
    BY <1>0, <1>8, <1>a, <2>1, CacheTokenInv
<1>9. CASE KwdsCreate \/ KwdsHeader \/ KwdsRecord
  <2>1. UNCHANGED ckpts
    BY <1>9 DEF KwdsCreate, KwdsHeader, KwdsRecord
  <2> QED
    BY <1>0, <1>9, <1>a, <2>1, KwdsInv
<1>10. ASSUME NEW a \in Jobs, NEW from \in DOMAIN ckpts \cup {C!NoPath}, StartTrain(a, from)
       PROVE  RunText'
  <2>1. UNCHANGED <<source, held, raced, caches>> /\ UNCHANGED ckpts
    BY <1>10 DEF StartTrain
  <2>2. TrainInv(proc')
    BY <1>0, <1>10, StartTrainInv
  <2> QED
    BY <1>0, <1>b, <2>1, <2>2, RunTrains
<1>11. ASSUME NEW a \in Jobs, NEW from \in DOMAIN ckpts \cup {C!NoPath}, Refuse(a, from)
       PROVE  RunText'
  <2>1. UNCHANGED <<caches, proc>> /\ UNCHANGED <<source, held, raced, ckpts>>
    BY <1>11 DEF Refuse
  <2>2. TextInv'
    <3>1. source' \in held' /\ held \subseteq held' /\ held' \subseteq Sources /\ raced \subseteq raced'
      BY <1>0, <2>1 DEF TextInv
    <3> QED
      BY <1>0, <2>1, <3>1, TextStays
  <2> QED
    BY <1>0, <2>1, <2>2, RunStays DEF RunText
<1>12. ASSUME NEW start, NEW loss \in {1, 2, Bad}, Draw(start, loss) PROVE RunText'
  <2>1. proc.pc = "draw" /\ UNCHANGED <<source, held, raced, caches>> /\ UNCHANGED ckpts
    BY <1>12 DEF Draw
  <2>2. TrainInv(proc)
    BY <1>0, <2>1, TrainingIs DEF TrainPcs
  <2>3. TrainInv(proc') \/ proc' = Idle
    BY <1>12, <2>2, DrawInv
  <2> QED
    BY <1>0, <1>b, <2>1, <2>3, RunTrains
<1>13. CASE Step
  <2>1. proc.pc = "step" /\ UNCHANGED <<source, held, raced, caches>> /\ UNCHANGED ckpts
    BY <1>13 DEF Step
  <2>2. TrainInv(proc)
    BY <1>0, <2>1, TrainingIs DEF TrainPcs
  <2>3. TrainInv(proc')
    BY <1>13, <2>2, StepInv
  <2> QED
    BY <1>0, <1>b, <2>1, <2>3, RunTrains
<1>14. CASE FinishLoop
  <2>1. proc.pc = "draw" /\ UNCHANGED <<source, held, raced, caches>> /\ UNCHANGED ckpts
    BY <1>14 DEF FinishLoop
  <2>2. TrainInv(proc)
    BY <1>0, <2>1, TrainingIs DEF TrainPcs
  <2>3. TrainInv(proc')
    BY <1>14, <2>2, FinishLoopInv
  <2> QED
    BY <1>0, <1>b, <2>1, <2>3, RunTrains
<1>15. CASE SaveCreate
  <2>1. proc.pc \in TrainPcs /\ UNCHANGED <<source, held, raced, caches>>
    BY <1>15 DEF SaveCreate, TrainPcs
  <2>2. TrainInv(proc)
    BY <1>0, <2>1, TrainingIs
  <2>3. TrainInv(proc') /\ FilesInv'
    BY <1>0, <1>15, <2>2, SaveCreateInv
  <2> QED
    BY <1>0, <2>1, <2>3, RunTrains
<1>16. CASE SaveHeader
  <2>1. proc.pc \in TrainPcs /\ UNCHANGED <<source, held, raced, caches>>
    BY <1>16 DEF SaveHeader, TrainPcs
  <2>2. TrainInv(proc)
    BY <1>0, <2>1, TrainingIs
  <2>3. TrainInv(proc') /\ FilesInv'
    BY <1>0, <1>16, <2>2, SaveHeaderInv
  <2> QED
    BY <1>0, <2>1, <2>3, RunTrains
<1>17. CASE SaveBody
  <2>1. proc.pc \in TrainPcs /\ UNCHANGED <<source, held, raced, caches>>
    BY <1>17 DEF SaveBody, TrainPcs
  <2>2. TrainInv(proc)
    BY <1>0, <2>1, TrainingIs
  <2>3. (TrainInv(proc') \/ proc' = Idle) /\ FilesInv'
    BY <1>0, <1>17, <2>2, SaveBodyInv
  <2> QED
    BY <1>0, <2>1, <2>3, RunTrains
<1>18. CASE UNCHANGED vars
  <2>1. UNCHANGED <<caches, proc>> /\ UNCHANGED <<source, held, raced, ckpts>>
    BY <1>18 DEF vars
  <2>2. TextInv'
    <3>1. source' \in held' /\ held \subseteq held' /\ held' \subseteq Sources /\ raced \subseteq raced'
      BY <1>0, <2>1 DEF TextInv
    <3> QED
      BY <1>0, <2>1, <3>1, TextStays
  <2> QED
    BY <1>0, <2>1, <2>2, RunStays DEF RunText
<1>19. CASE Next
  BY <1>1, <1>2, <1>3, <1>4, <1>5, <1>6, <1>7, <1>8, <1>9, <1>10, <1>11, <1>12, <1>13, <1>14,
     <1>15, <1>16, <1>17, <1>19 DEF Next
<1> QED
  BY <1>18, <1>19

\* Every action keeps the windows whole.
LEMMA NextWindow == RunText /\ WindowInv /\ [Next]_vars => WindowInv'
<1> SUFFICES ASSUME RunInv, TextInv, WindowInv, [Next]_vars PROVE WindowInv'
  BY DEF RunText
<1>1. ASSUME NEW s \in Sources, Edit(s) PROVE WindowInv'
  BY <1>1, WindowStays DEF Edit
<1>2. CASE Kill
  BY <1>2, WindowIdle DEF Kill
<1>3. ASSUME NEW a \in Jobs, StartConvert(a) PROVE WindowInv'
  BY <1>3, StartConvertWindow
<1>4. CASE LoadCached \/ LoadSource
  BY <1>4, LoadWindow
<1>5. CASE CacheCreate \/ CacheHeader \/ CacheToken
  BY <1>5, CacheWindow
<1>6. CASE KwdsCreate \/ KwdsHeader \/ KwdsRecord
  BY <1>6, KwdsCreateWindow, KwdsHeaderWindow, KwdsRecordWindow
<1>7. ASSUME NEW a \in Jobs, NEW from \in DOMAIN ckpts \cup {C!NoPath}, StartTrain(a, from)
      PROVE  WindowInv'
  BY <1>7, StartTrainWindow
<1>8. ASSUME NEW a \in Jobs, NEW from \in DOMAIN ckpts \cup {C!NoPath}, Refuse(a, from)
      PROVE  WindowInv'
  BY <1>8, WindowStays DEF Refuse
<1>9. ASSUME NEW start \in 0 .. (IF kwds \in {None, Empty} THEN 0 ELSE kwds.n),
             NEW loss \in {1, 2, Bad}, Draw(start, loss)
      PROVE  WindowInv'
  BY <1>9, DrawWindow
<1>10. CASE Step \/ FinishLoop \/ SaveCreate \/ SaveHeader \/ SaveBody
  BY <1>10, TrainWindow
<1>11. CASE UNCHANGED vars
  BY <1>11, WindowStays DEF vars
<1>12. CASE Next
  BY <1>1, <1>2, <1>3, <1>4, <1>5, <1>6, <1>7, <1>8, <1>9, <1>10, <1>12 DEF Next
<1> QED
  BY <1>11, <1>12

\* The inductive invariant.
IInv == RunInv /\ TextInv /\ WindowInv

-----------------------------------------------------------------------------
(* What the code promises *)

\* The inductive invariant holds: of a conversion, of a training process and of
\* the files that pass between them.
THEOREM Invariance == Spec => []IInv
<1>1. Init => IInv
  <2>1. Init => WindowInv
    BY DEF Init, Idle, WindowInv, ConvPcs, CachePcs, TrainPcs
  <2> QED
    BY <2>1, InitRunText DEF IInv, RunText
<1>2. IInv /\ [Next]_vars => IInv'
  BY NextRunText, NextWindow DEF IInv, RunText
<1> QED
  BY <1>1, <1>2, PTL DEF Spec

\* In the run and in every checkpoint file that has its header, the moments of
\* Adam are of exactly the steps in the weights, no window was drawn for two of
\* them, and the generator is past them all.
THEOREM RunCoherentAlways == Spec => []RunCoherent
<1>1. ASSUME TrainInv(proc) PROVE Coherent(proc)
  <2> DEFINE ws == proc.weights
             k  == InHand(proc)
             m  == Len(proc.weights)
  <2>1. /\ proc.adam = ws /\ Ordered(ws, proc.rng - k)
        /\ m <= IF InBatch(proc) THEN proc.iter ELSE proc.iter + 1
    BY <1>1 DEF TrainInv, Steps
  <2>2. proc.rng \in Int /\ proc.iter \in Nat /\ IsSequence(proc.batch)
    BY <1>1 DEF TrainInv, Shape
  <2>3. k \in Nat
    BY <2>2, BatchLength
  <2> HIDE DEF k
  <2>4. Ordered(ws, proc.rng)
    BY <2>1, <2>2, <2>3, OrderedLater
  <2>5. m \in Nat
    BY <2>4 DEF Ordered
  <2>6. m <= proc.iter + 1
    <3> HIDE DEF m
    <3> QED
      BY <2>1, <2>2, <2>5
  <2> QED
    BY <2>1, <2>4, <2>6 DEF Coherent, Ordered
<1>2. ASSUME NEW f, FileInv(f) PROVE Coherent(f)
  <2> DEFINE m == Len(f.weights)
  <2>1. Ordered(f.weights, f.rng) /\ f.adam = f.weights /\ m <= f.iter /\ f.iter \in Nat
    BY <1>2 DEF FileInv
  <2>2. m \in Nat
    BY <2>1 DEF Ordered
  <2>3. m <= f.iter + 1
    <3> HIDE DEF m
    <3> QED
      BY <2>1, <2>2
  <2> QED
    BY <2>1, <2>3 DEF Coherent, Ordered
<1>3. IInv => RunCoherent
  BY <1>1, <1>2, TrainingIs DEF IInv, RunInv, FilesInv, RunCoherent
<1> QED
  BY <1>3, Invariance, PTL

\* A run is given up exactly when the losses at both marks were computed and the
\* later one is not below 98% of the earlier: a mark skipped for a loss that is
\* not finite never ends the run and never hides a stall.
THEOREM AbortIffStalledAlways == Spec => []AbortIffStalled
<1>1. ASSUME TrainInv(proc) PROVE AbortIffStalled
  <2> DEFINE m2 == proc.start + Mark2
             m3 == proc.start + Mark3
             ls == proc.losses
  <2>1. proc.aborted <=> m2 \in DOMAIN ls /\ m3 \in DOMAIN ls /\ 100 * ls[m3] > 98 * ls[m2]
    BY <1>1 DEF TrainInv, Marks
  <2>2. {m2, m3} \subseteq DOMAIN ls <=> m2 \in DOMAIN ls /\ m3 \in DOMAIN ls
    OBVIOUS
  <2> DEFINE over == 100 * ls[m3] > 98 * ls[m2]
  <2>3. proc.aborted <=> {m2, m3} \subseteq DOMAIN ls /\ over
    <3> HIDE DEF over
    <3> QED
      BY <2>1, <2>2 DEF over
  <2> QED
    BY <2>3 DEF AbortIffStalled
<1>2. IInv => AbortIffStalled
  BY <1>1, TrainingIs DEF IInv, AbortIffStalled
<1> QED
  BY <1>2, Invariance, PTL

\* The tokens a conversion works on are all the tokens of one content the source
\* has had, with its vocabulary; its size is the one seen when they were loaded
\* unless its cache is known to have been labelled too late.
TokensGenuine ==
  "toks" \in DOMAIN proc => Genuine(proc.mode, proc.toks, proc.vocab, proc.sizeAtLoad)

\* Whatever was killed, cut short, not written or edited before, no conversion
\* works on tokens that are torn or of two texts.
THEOREM TokensGenuineAlways == Spec => []TokensGenuine
<1>1. IInv => TokensGenuine
  BY DEF IInv, TextInv, ConvInv, TokensGenuine
<1> QED
  BY <1>1, Invariance, PTL

\* With a tokenizer that spells back the texts the source may have, those tokens
\* spell the whole text.
THEOREM TextRecoveredAlways ==
  ASSUME RoundTrips
  PROVE  Spec => []TextRecovered
<1>1. IInv => TextRecovered
  <2> SUFFICES ASSUME IInv, "toks" \in DOMAIN proc PROVE TextRecovered
    BY DEF TextRecovered
  <2>1. ConvInv(proc) /\ held \subseteq Sources
    BY DEF IInv, TextInv
  <2>2. PICK s \in held : OfText(proc.mode, proc.toks, proc.vocab, proc.sizeAtLoad, s)
    BY <2>1 DEF ConvInv, Genuine
  <2>3. proc.mode \in Modes /\ s \in Sources
    BY <2>1, <2>2 DEF ConvInv
  <2>4. /\ SourceText(s) # Exit /\ proc.toks = Encoded[proc.mode][s].toks
        /\ proc.vocab = Encoded[proc.mode][s].vocab /\ (s.size = proc.sizeAtLoad \/ s \in raced)
    BY <2>2 DEF OfText
  <2>5. Spelled(proc.mode, s, proc.toks) = SourceText(s)
    BY <2>3, <2>4 DEF RoundTrips
  <2> QED
    BY <2>2, <2>4, <2>5 DEF TextRecovered
<1> QED
  BY <1>1, Invariance, PTL

\* Every window a run trains on is a stretch of one text the source has had,
\* each input at its place in it and each target the token after its input:
\* none comes from a dataset cut short, or written for two texts.
THEOREM WindowsPairAlways == Spec => []WindowsPair
<1>1. IInv => WindowsPair
  BY TrainingIs DEF IInv, WindowInv, WindowsPair, TrainInv, Shape
<1> QED
  BY <1>1, Invariance, PTL
=============================================================================
