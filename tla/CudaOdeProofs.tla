--------------------------- MODULE CudaOdeProofs ----------------------------
(***************************************************************************)
(* Proofs about CudaOde: for every number of bands and of steps, every     *)
(* weight and every schedule of a block's threads, the kernels of          *)
(* candle_tier/cuda_ode.rs have no data race.                              *)
(*                                                                         *)
(* Every segment but the forward kernel's last ends at a barrier.  So two  *)
(* threads that may both run are in the same segment, and in one segment   *)
(* no thread reads or writes a cell that another one writes.  How the      *)
(* kernels are put together, for any number of steps, is a recursive       *)
(* function, treated by the least number of steps that might break it.     *)
(***************************************************************************)
EXTENDS CudaOde, SequenceTheorems, WellFoundedInduction, TLAPS

\* The segments that end at a barrier.
Barred == [do : {"load", "eval", "push", "gather", "zero", "add", "take"}, i : Int, s : Int]

\* A set of naturals has a least element.
LEMMA Least ==
  ASSUME NEW T, T \subseteq Nat, T # {}
  PROVE  \E m \in T : \A i \in T : m <= i
<1> DEFINE R == OpToRel(<, Nat)
<1>1. IsWellFoundedOn(R, Nat)
  BY NatLessThanWellFounded
<1>2. \A i, m \in Nat : <<i, m>> \in R <=> i < m
  BY DEF OpToRel
<1> HIDE DEF R
<1>3. PICK m \in T : \A i \in T : ~(<<i, m>> \in R)
  BY <1>1, WFMin
<1>4. ASSUME NEW i \in T PROVE m <= i
  <2>1. i \in Nat /\ m \in Nat /\ ~(<<i, m>> \in R)
    BY <1>3, <1>4
  <2> QED
    BY <2>1, <1>2
<1> QED
  BY <1>4

-----------------------------------------------------------------------------
(* The kernels' segments *)

\* A step forward and a step back, and the sums at the end, end at barriers.
LEMMA PiecesBarred ==
  /\ \A s \in Int : StepSegments(s) \in Seq(Barred) /\ BackSegments(s) \in Seq(Barred)
  /\ SumSegments \in Seq(Barred)
<1>1. ASSUME NEW s \in Int PROVE StepSegments(s) \in Seq(Barred)
  <2>1. ASSUME NEW j \in 1 .. 8
        PROVE  Seg(IF j % 2 = 1 THEN "load" ELSE "eval", (j + 1) \div 2, s) \in Barred
    BY DEF Seg, Barred
  <2> QED
    BY <2>1 DEF StepSegments
<1>2. ASSUME NEW s \in Int PROVE BackSegments(s) \in Seq(Barred)
  <2>1. ASSUME NEW j \in 1 .. 8
        PROVE  Seg(IF j % 2 = 1 THEN "push" ELSE "gather", 4 - (j - 1) \div 2, s) \in Barred
    BY DEF Seg, Barred
  <2> QED
    BY <2>1 DEF BackSegments
<1>3. SumSegments \in Seq(Barred)
  <2>1. ASSUME NEW j \in 1 .. 21
        PROVE  Seg(<<"zero", "add", "take">>[((j - 1) % 3) + 1], ((j - 1) \div 3) + 1, 0) \in Barred
    <3> DEFINE m == ((j - 1) % 3) + 1
    <3>1. m \in 1 .. 3 /\ ((j - 1) \div 3) + 1 \in Int
      OBVIOUS
    <3> HIDE DEF m
    <3>2. <<"zero", "add", "take">>[m] \in {"zero", "add", "take"}
      BY <3>1
    <3> QED
      BY <3>1, <3>2 DEF Seg, Barred, m
  <2> QED
    BY <2>1 DEF SumSegments
<1> QED
  BY <1>1, <1>2, <1>3

\* The steps of the forward kernel: a function g on 0 .. m whose values are
\* put together one step after the other.
ForwardOn(g, m) == g = [s \in 0 .. m |-> IF s = 0 THEN <<>> ELSE g[s - 1] \o StepSegments(s)]

\* The same for the reverse kernel, from the last step to the first.
ReverseOn(g, m) ==
  g = [s \in 0 .. m |-> IF s = 0 THEN <<>> ELSE StepSegments(s) \o BackSegments(s) \o g[s - 1]]

\* The steps of both kernels exist.
LEMMA StepsExist ==
  ASSUME NEW N \in Nat
  PROVE  (\E g : ForwardOn(g, N)) /\ (\E g : ReverseOn(g, N))
<1> DEFINE T == {m \in Nat : ~\E g : ForwardOn(g, m)}
           U == {m \in Nat : ~\E g : ReverseOn(g, m)}
<1>1. ASSUME T # {} PROVE FALSE
  <2>1. PICK m \in T : \A i \in T : m <= i
    BY <1>1, Least
  <2>2. CASE m = 0
    <3> DEFINE f == [s \in 0 .. 0 |-> <<>>]
    <3>1. f = [s \in 0 .. 0 |-> IF s = 0 THEN <<>> ELSE f[s - 1] \o StepSegments(s)]
      OBVIOUS
    <3>2. ForwardOn(f, 0)
      BY <3>1 DEF ForwardOn
    <3> QED
      BY <3>2, <2>1, <2>2
  <2>3. CASE m # 0
    <3>1. m \in Nat /\ m - 1 \in Nat /\ m - 1 \notin T
      BY <2>1, <2>3
    <3>2. PICK g : ForwardOn(g, m - 1)
      BY <3>1
    <3> DEFINE f == [s \in 0 .. m |-> IF s = m THEN g[m - 1] \o StepSegments(m) ELSE g[s]]
    <3>3. ASSUME NEW s \in 0 .. m
          PROVE  f[s] = IF s = 0 THEN <<>> ELSE f[s - 1] \o StepSegments(s)
      <4>1. CASE s = m
        <5>1. f[s] = g[m - 1] \o StepSegments(m)
          BY <4>1
        <5>2. f[m - 1] = g[m - 1]
          BY <3>1, <2>3
        <5> QED
          BY <4>1, <5>1, <5>2, <2>3
      <4>2. CASE s = 0
        BY <4>2, <3>1, <3>2, <2>3 DEF ForwardOn
      <4>3. CASE s # m /\ s # 0
        <5>1. s \in 0 .. m - 1 /\ s - 1 \in 0 .. m /\ s - 1 # m
          BY <4>3, <3>1
        <5>2. f[s] = g[s] /\ f[s - 1] = g[s - 1]
          BY <5>1, <4>3
        <5>3. g[s] = g[s - 1] \o StepSegments(s)
          BY <5>1, <4>3, <3>2 DEF ForwardOn
        <5> QED
          BY <5>2, <5>3, <4>3
      <4> QED
        BY <4>1, <4>2, <4>3
    <3>4. f = [s \in 0 .. m |-> IF s = 0 THEN <<>> ELSE f[s - 1] \o StepSegments(s)]
      BY <3>3
    <3>5. ForwardOn(f, m)
      BY <3>4 DEF ForwardOn
    <3> QED
      BY <3>5, <2>1
  <2> QED
    BY <2>2, <2>3
<1>2. ASSUME U # {} PROVE FALSE
  <2>1. PICK m \in U : \A i \in U : m <= i
    BY <1>2, Least
  <2>2. CASE m = 0
    <3> DEFINE f == [s \in 0 .. 0 |-> <<>>]
    <3>1. f = [s \in 0 .. 0 |-> IF s = 0 THEN <<>> ELSE StepSegments(s) \o BackSegments(s) \o f[s - 1]]
      OBVIOUS
    <3>2. ReverseOn(f, 0)
      BY <3>1 DEF ReverseOn
    <3> QED
      BY <3>2, <2>1, <2>2
  <2>3. CASE m # 0
    <3>1. m \in Nat /\ m - 1 \in Nat /\ m - 1 \notin U
      BY <2>1, <2>3
    <3>2. PICK g : ReverseOn(g, m - 1)
      BY <3>1
    <3> DEFINE f == [s \in 0 .. m |->
                       IF s = m THEN StepSegments(m) \o BackSegments(m) \o g[m - 1] ELSE g[s]]
    <3>3. ASSUME NEW s \in 0 .. m
          PROVE  f[s] = IF s = 0 THEN <<>> ELSE StepSegments(s) \o BackSegments(s) \o f[s - 1]
      <4>1. CASE s = m
        <5>1. f[s] = StepSegments(m) \o BackSegments(m) \o g[m - 1]
          BY <4>1
        <5>2. f[m - 1] = g[m - 1]
          BY <3>1, <2>3
        <5> QED
          BY <4>1, <5>1, <5>2, <2>3
      <4>2. CASE s = 0
        BY <4>2, <3>1, <3>2, <2>3 DEF ReverseOn
      <4>3. CASE s # m /\ s # 0
        <5>1. s \in 0 .. m - 1 /\ s - 1 \in 0 .. m /\ s - 1 # m
          BY <4>3, <3>1
        <5>2. f[s] = g[s] /\ f[s - 1] = g[s - 1]
          BY <5>1, <4>3
        <5>3. g[s] = StepSegments(s) \o BackSegments(s) \o g[s - 1]
          BY <5>1, <4>3, <3>2 DEF ReverseOn
        <5> QED
          BY <5>2, <5>3, <4>3
      <4> QED
        BY <4>1, <4>2, <4>3
    <3>4. f = [s \in 0 .. m |-> IF s = 0 THEN <<>> ELSE StepSegments(s) \o BackSegments(s) \o f[s - 1]]
      BY <3>3
    <3>5. ReverseOn(f, m)
      BY <3>4 DEF ReverseOn
    <3> QED
      BY <3>5, <2>1
  <2> QED
    BY <2>2, <2>3
<1> QED
  BY <1>1, <1>2

\* Every step of either kernel ends at barriers, whatever their number.
LEMMA StepsBarred ==
  ASSUME NEW N \in Nat, NEW g, ForwardOn(g, N) \/ ReverseOn(g, N)
  PROVE  g[N] \in Seq(Barred)
<1> DEFINE T == {m \in Nat : m \in 0 .. N /\ g[m] \notin Seq(Barred)}
<1>1. ASSUME T # {} PROVE FALSE
  <2>1. PICK m \in T : \A i \in T : m <= i
    BY <1>1, Least
  <2>2. CASE m = 0
    <3>1. g[m] = <<>>
      BY <2>1, <2>2 DEF ForwardOn, ReverseOn
    <3>2. <<>> \in Seq(Barred)
      OBVIOUS
    <3> QED
      BY <2>1, <3>1, <3>2
  <2>3. CASE m # 0
    <3>1. m \in Int /\ m \in 0 .. N /\ m - 1 \in 0 .. N /\ m - 1 \notin T /\ m - 1 \in Nat
      BY <2>1, <2>3
    <3> DEFINE before == g[m - 1]
               fore == StepSegments(m)
               back == BackSegments(m)
    <3>2. before \in Seq(Barred) /\ fore \in Seq(Barred) /\ back \in Seq(Barred)
      BY <3>1, PiecesBarred
    <3>3. g[m] = before \o fore \/ g[m] = fore \o back \o before
      BY <3>1, <2>3 DEF ForwardOn, ReverseOn
    <3> HIDE DEF before, fore, back
    <3>4. before \o fore \in Seq(Barred) /\ fore \o back \in Seq(Barred)
      BY <3>2, ConcatProperties
    <3>5. fore \o back \o before \in Seq(Barred)
      BY <3>2, <3>4, ConcatProperties
    <3> QED
      BY <2>1, <3>3, <3>4, <3>5
  <2> QED
    BY <2>2, <2>3
<1> QED
  BY <1>1

\* Only the last segment of a kernel may end without a barrier, and then it is
\* the one that stores the result.
LEMMA OnlyTheLastStores ==
  ASSUME job \in Jobs
  PROVE  /\ Len(Program) \in Nat
         /\ \A i \in 1 .. Len(Program) :
              \/ Program[i] \in Barred
              \/ i = Len(Program) /\ Program[i] = Seg("store", 0, 0)
<1>1. job.steps \in Nat
  BY CudaOdeAssumption
<1>2. PICK f \in Seq(Barred) : Forward = f \o <<Seg("store", 0, 0)>>
  <2> DEFINE g == CHOOSE g : ForwardOn(g, job.steps)
  <2>1. ForwardOn(g, job.steps)
    BY <1>1, StepsExist
  <2>2. g[job.steps] \in Seq(Barred)
    BY <1>1, <2>1, StepsBarred
  <2>3. Forward = g[job.steps] \o <<Seg("store", 0, 0)>>
    BY DEF Forward, ForwardOn
  <2> QED
    BY <2>2, <2>3
<1>3. Reverse \in Seq(Barred)
  <2> DEFINE g == CHOOSE g : ReverseOn(g, job.steps)
  <2>1. ReverseOn(g, job.steps)
    BY <1>1, StepsExist
  <2>2. g[job.steps] \in Seq(Barred)
    BY <1>1, <2>1, StepsBarred
  <2>3. Reverse = g[job.steps] \o SumSegments
    BY DEF Reverse, ReverseOn
  <2> QED
    BY <2>2, <2>3, PiecesBarred, ConcatProperties
<1>4. CASE Program = Reverse
  BY <1>3, <1>4
<1>5. CASE Program = Forward
  <2> DEFINE last == Seg("store", 0, 0)
             m == Len(f)
  <2>1. m \in Nat /\ Len(Program) = m + 1
    BY <1>2, <1>5
  <2>2. \A i \in 1 .. m : Program[i] = f[i] /\ f[i] \in Barred
    BY <1>2, <1>5
  <2>3. Program[m + 1] = last
    BY <1>2, <1>5
  <2> HIDE DEF m, last
  <2> QED
    BY <2>1, <2>2, <2>3 DEF last
<1> QED
  BY <1>4, <1>5 DEF Program

-----------------------------------------------------------------------------
(* Two threads between barriers *)

\* The inductive invariant: what is known of the threads' places.
IInv ==
  /\ job \in Jobs
  /\ pc \in [Threads -> Nat \ {0}]

\* Two threads that may both run are in the same segment.
LEMMA SameSegment ==
  ASSUME IInv, NEW j \in Threads, NEW k \in Threads, CanRun(j), CanRun(k)
  PROVE  pc[j] = pc[k] /\ (Segment(k) \in Barred \/ Segment(k) = Seg("store", 0, 0))
<1> DEFINE m == Len(Program)
<1>1. /\ m \in Nat
      /\ \A i \in 1 .. m : Program[i] \in Barred \/ (i = m /\ Program[i] = Seg("store", 0, 0))
  BY OnlyTheLastStores DEF IInv
<1>2. pc[j] \in 1 .. m /\ pc[k] \in 1 .. m
  BY <1>1 DEF IInv, CanRun, Running
<1> HIDE DEF m
<1>3. ASSUME NEW a \in Threads, NEW b \in Threads, CanRun(b), pc[a] \in 1 .. m, pc[b] \in 1 .. m, pc[a] < pc[b]
      PROVE  FALSE
  <2>1. pc[a] \in pc[a] .. pc[b] - 1
    BY <1>1, <1>3
  <2>2. ~BarrierAfter(Program[pc[a]])
    BY <2>1, <1>3 DEF CanRun
  <2>3. Program[pc[a]].do = "store"
    BY <2>2 DEF BarrierAfter
  <2>4. Program[pc[a]] \notin Barred
    BY <2>3 DEF Barred
  <2> QED
    BY <1>1, <1>3, <2>4
<1>4. pc[j] = pc[k]
  BY <1>1, <1>2, <1>3
<1> QED
  BY <1>1, <1>2, <1>4 DEF Segment

\* In one segment, other than the atomic addition, no thread reads or writes
\* what another one writes.
LEMMA NoRace ==
  ASSUME IInv, NEW j \in Threads, NEW k \in Threads, j # k, CanRun(j), CanRun(k),
         ~(Segment(j).do = "add" /\ Segment(k).do = "add")
  PROVE  Writes(j) \cap (Reads(k) \cup Writes(k)) = {}
<1> DEFINE do == Segment(k).do
<1>1. Segment(j) = Segment(k) /\ do \in {"load", "eval", "push", "gather", "zero", "add", "take", "store"}
  BY SameSegment DEF Segment, Barred, Seg
<1>2. Segment(j).do = do /\ Segment(k).do = do
  BY <1>1
<1> HIDE DEF do
<1>3. CASE do = "load"
  <2>1. Writes(j) = {<<"mag", j>>, <<"z", j>>} /\ Writes(k) = {<<"mag", k>>, <<"z", k>>} /\ Reads(k) = {}
    BY <1>2, <1>3 DEF Writes, Reads
  <2> QED
    BY <2>1
<1>4. CASE do = "push"
  <2>1. Writes(j) = {<<"z", j>>, <<"g", j>>} /\ Writes(k) = {<<"z", k>>, <<"g", k>>} /\ Reads(k) = {}
    BY <1>2, <1>4 DEF Writes, Reads
  <2> QED
    BY <2>1
<1>5. CASE do = "zero"
  <2>1. /\ Writes(j) = IF j = 0 THEN {<<"mag", 0>>} ELSE {}
        /\ Writes(k) = IF k = 0 THEN {<<"mag", 0>>} ELSE {}
        /\ Reads(k) = {}
    BY <1>2, <1>5 DEF Writes, Reads
  <2> QED
    BY <2>1
<1>6. CASE do \in {"eval", "gather", "take", "store"}
  <2>1. Writes(j) = {}
    BY <1>2, <1>6 DEF Writes
  <2> QED
    BY <2>1
<1> QED
  BY <1>1, <1>2, <1>3, <1>4, <1>5, <1>6

-----------------------------------------------------------------------------
(* The theorems *)

\* In every reachable state each thread of the block that runs has a place in
\* its kernel.
THEOREM Invariance == Spec => []IInv
<1>1. Init => IInv
  BY DEF Init, IInv, Threads
<1>2. IInv /\ [Next]_vars => IInv'
  <2> SUFFICES ASSUME IInv, [Next]_vars PROVE IInv'
    OBVIOUS
  <2>1. ASSUME NEW k \in Threads, Advance(k), UNCHANGED job PROVE IInv'
    <3>1. pc' = [pc EXCEPT ![k] = pc[k] + 1] /\ pc[k] + 1 \in Nat \ {0}
      BY <2>1 DEF Advance, IInv
    <3> QED
      BY <2>1, <3>1 DEF IInv, Threads, n
  <2>2. ASSUME NEW p, NEW z, NEW d, Launch(p, z, d) PROVE IInv'
    BY <2>2 DEF Launch, IInv, Threads, n
  <2>3. ASSUME UNCHANGED <<job, pc>> PROVE IInv'
    BY <2>3 DEF IInv, Threads, n
  <2>4. ASSUME NEW k \in Threads, Load(k) \/ Eval(k) \/ Store(k) \/ Push(k) \/ Gather(k)
                                   \/ Zero1(k) \/ AtomicAdd(k) \/ TakeSum(k)
        PROVE  IInv'
    BY <2>1, <2>4 DEF Do, Load, Eval, Store, Push, Gather, Zero1, AtomicAdd, TakeSum
  <2>5. CASE CudaFwd \/ CudaBwd
    BY <2>2, <2>5 DEF CudaFwd, CudaBwd
  <2>6. CASE BlockDone
    BY <2>2, <2>3, <2>6 DEF BlockDone
  <2>7. CASE CpuFwd \/ CpuBwd \/ Reduce \/ NoCache \/ Finished \/ UNCHANGED vars
    BY <2>3, <2>7 DEF CpuFwd, CpuBwd, Reduce, NoCache, Finished, vars
  <2> QED
    BY <2>4, <2>5, <2>6, <2>7 DEF Next
<1> QED
  BY <1>1, <1>2, PTL DEF Spec

\* No two threads of a block touch one shared cell unordered, one of them
\* writing, other than by the atomic addition: the kernels have no data race,
\* for every number of bands and steps and in every schedule (cuda_ode.rs).
THEOREM RaceFreeAlways == Spec => []RaceFree
<1>1. IInv => RaceFree
  BY NoRace DEF RaceFree
<1> QED
  BY <1>1, Invariance, PTL
=============================================================================
