----------------------------- MODULE ModelPass -----------------------------
(***************************************************************************)
(* One sample through the whole model and back (cpu/forward.rs,            *)
(* cpu/model_backward.rs): blocks forward with their caches, the loss at   *)
(* the last layer norm, blocks in reverse, and the flat gradient that the  *)
(* optimiser pairs with the flat parameters.                               *)
(*                                                                         *)
(* job     [d, seed, vary]: the flags, the inputs, and what has a          *)
(*         direction: "params" the trained parameters, "last" the last     *)
(*         position's input alone, "harmonics" the heads' harmonics        *)
(* fresh   the model as initialised; m the model after the parameters p    *)
(*         are written into it                                             *)
(* i       the next block; hidden the rows between blocks; caches the      *)
(*         blocks' records; post the rows after the last layer norm        *)
(* dh, grads, flat  the reverse pass                                       *)
(***************************************************************************)
EXTENDS Candle

CONSTANT ModelJobs

(* Dimensions of a model: every size is positive, a head is at least one    *)
(* number wide (nothing makes the heads fill the row), the groups divide    *)
(* the row, as the pre-flight check of cpu/train_loop.rs and the assertion  *)
(* of block_diag.rs want it, and the decoder is one of the five.  Harmonics *)
(* move by themselves in the jobs that give them a direction.               *)
DimsOk(c) ==
  /\ \A f \in {"nBands", "nHead", "md", "T", "layers", "vocab", "groups", "rank"} : c[f] \in Nat \ {0}
  /\ c.steps \in Nat
  /\ \A f \in {"learnOde", "rk4w", "layerScale", "learnAttn", "dyn", "frozen"} : c[f] \in BOOLEAN
  /\ c.nHead <= Embed(c) /\ Embed(c) % c.groups = 0
  /\ c.head \in {"dense", "rank", "tied", "phase", "wave"}

Fields == {"nBands", "nHead", "md", "T", "layers", "vocab", "groups", "rank", "steps", "head", "frozen", "loss",
           "learnOde", "odePathway", "splitBand", "corrector", "rk4w", "layerScale", "learnAttn", "attnPathway", "dyn"}

ASSUME ModelPassAssumption ==
  /\ ContentDim \in Nat \ {0}
  /\ \A j \in ModelJobs : DOMAIN j.d = Fields
  /\ \A j \in ModelJobs : DimsOk(j.d) /\ j.seed \in Nat /\ (j.vary = "harmonics" => ~j.d.dyn)

VARIABLES job, pc, fresh, p, m, i, hidden, caches, post, loss, dh, grads, flat

vars == <<job, pc, fresh, p, m, i, hidden, caches, post, loss, dh, grads, flat>>

d == job.d

(* Token tables are not trained: they have no direction of their own.      *)
TokenTable(dims, seed) == Grid(dims.vocab, Embed(dims), LAMBDA v, j : Con(Noise(seed, 60, Embed(dims) * v + j)[1]))
PositionTable(dims, seed, vary) ==
  Grid(dims.T, Embed(dims), LAMBDA pos, j :
    LET x == Noise(seed, 61, Embed(dims) * pos + j)
    IN  IF vary = "last" /\ pos = dims.T - 1 THEN x ELSE Con(x[1]))

Token(pos) == (job.seed + pos * pos) % d.vocab
Target(pos) == (job.seed + 2 * pos + 1) % d.vocab
WaveTarget(pos) == Table([j \in 0 .. Embed(d) - 1 |-> Con(Noise(job.seed, 62, Embed(d) * pos + j)[1])])

EmbedTokens(model) ==
  Table([pos \in 0 .. d.T - 1 |-> Table(VAdd(model.wte[Token(pos)], model.wpe[pos]))])

Init ==
  /\ job \in ModelJobs
  /\ pc = "params"
  /\ fresh = InitModel(d, job.seed, TokenTable(d, job.seed), PositionTable(d, job.seed, job.vary))
  /\ p = [k \in 1 .. CountTrainable(d, fresh) |->
            IF job.vary = "params" THEN Noise(job.seed, 77, k) ELSE Con(Noise(job.seed, 77, k)[1])]
  /\ m = fresh
  /\ i = 0 /\ hidden = <<>> /\ caches = <<>> /\ post = <<>> /\ loss = Zero
  /\ dh = <<>> /\ grads = <<>> /\ flat = <<>>

Bent(model) ==      \* the harmonics given a direction
  LET of(k)     == model.blocks[k].attn.heads
      turned(k) == Table([h \in DOMAIN of(k) |->
                     [of(k)[h] EXCEPT !.raw = <<of(k)[h].raw[1], Noise(job.seed, 78, 2 * k + h)[2]>>]])
  IN  [model EXCEPT !.blocks = Table([k \in DOMAIN @ |-> [@[k] EXCEPT !.attn.heads = turned(k)]])]

(* A checkpoint is loaded, or the optimiser has taken a step.              *)
WriteParams ==
  /\ pc = "params"
  /\ pc' = "forward"
  /\ \E written \in {UnflattenParams(d, fresh, p)} :
       m' = IF job.vary = "harmonics" THEN Bent(written) ELSE written
  /\ hidden' = EmbedTokens(m')
  /\ UNCHANGED <<job, fresh, p, i, caches, post, loss, dh, grads, flat>>

Forward ==
  /\ pc = "forward" /\ i < d.layers
  /\ \E f \in {BlockForward(d, m, i, hidden)} :
       caches' = Append(caches, f) /\ hidden' = f.out
  /\ i' = i + 1
  /\ UNCHANGED <<job, pc, fresh, p, m, post, loss, dh, grads, flat>>

(* The last layer norm and, when training, the loss and its reverse.       *)
Loss ==
  /\ pc = "forward" /\ i = d.layers
  /\ pc' = "backward"
  /\ post' = Each(hidden, LAMBDA h : LayerNorm(m.lnF, h))
  /\ \E b \in {LossBackward(d, m, post', [pos \in DOMAIN hidden |->
                                IF d.loss = "waves" THEN WaveTarget(pos) ELSE Target(pos)])} :
     \E ln \in {Table([pos \in DOMAIN hidden |-> LayerNormBackward(m.lnF, b.d[pos], hidden[pos])])} :
        /\ loss' = b.loss
        /\ dh' = Table([pos \in DOMAIN ln |-> ln[pos].x])
        /\ grads' = [blocks |-> <<>>, head |-> b.head, corr |-> b.corr,
                     lnF |-> [w |-> SumBatch([pos \in DOMAIN ln |-> ln[pos].w]),
                              b |-> SumBatch([pos \in DOMAIN ln |-> ln[pos].b])]]
  /\ UNCHANGED <<job, fresh, p, m, i, hidden, caches, flat>>

Backward ==
  /\ pc = "backward" /\ i > 0
  /\ \E b \in {BlockBackward(d, m, i - 1, caches[i], dh)} :
       dh' = b.d /\ grads' = [grads EXCEPT !.blocks = <<b.grads>> \o @]
  /\ i' = i - 1
  /\ caches' = SubSeq(caches, 1, i - 1)
  /\ UNCHANGED <<job, pc, fresh, p, m, hidden, post, loss, flat>>

Collect ==
  /\ pc = "backward" /\ i = 0
  /\ pc' = "done"
  /\ flat' = FlattenGrads(d, grads)
  /\ UNCHANGED <<job, fresh, p, m, i, hidden, caches, post, loss, dh, grads>>

Next == WriteParams \/ Forward \/ Loss \/ Backward \/ Collect

Spec == Init /\ [][Next]_vars

-----------------------------------------------------------------------------
(* Pairing parameter k with gradient k, as the optimiser does, gives the    *)
(* derivative of the sample's loss in whichever direction the parameters    *)
(* move: every layer's reverse, every cached value, every accumulation      *)
(* over positions and heads, and the order of both flat vectors, at once.   *)
(* So does pairing every head's harmonic with what the Candle op leaves for *)
(* it, when the harmonics are all that moves.                               *)
ModelGradientExact ==
  /\ pc = "done" /\ job.vary = "params" =>
       loss[2] = LET t[k \in 0 .. Len(p)] == IF k = 0 THEN 0 ELSE (t[k - 1] + Pair(flat[k], p[k])) % P
                 IN  t[Len(p)]
  /\ pc = "backward" /\ i = d.layers /\ job.vary = "harmonics" =>
       loss[2] = LET heads(g, k) == PairTo(d.nHead, g[k], [h \in 0 .. d.nHead - 1 |-> m.blocks[k - 1].attn.heads[h].raw])
                     all(g) == LET t[k \in 0 .. d.layers] == IF k = 0 THEN 0 ELSE (t[k - 1] + heads(g, k)) % P
                               IN  t[d.layers]
                 IN  all(CandleHarmonics(d, m, caches, dh))

(* Writing a vector into a fresh model and reading the model back gives the *)
(* vector, as long as every value is in range; its length is what is        *)
(* counted; and the cosines the wave decoder keeps beside its phases are    *)
(* those of the phases just written.                                        *)
LayoutRoundTrips ==
  pc # "params" =>
    /\ FlattenParams(d, m) = p
    /\ d.head = "wave" => RefreshCosSinCache(m.head) = m.head

(* What a block holds besides what every block holds: the ODE's part and    *)
(* the attention's, whose heads have a content projection if the ODE is     *)
(* learned.                                                                 *)
HeadOf(c) == Embed(c) \div c.nHead
PerLen(e, hd, cd) == LinearLen(2, e) + LinearLen(hd, hd) + LinearLen(cd, e)
OdeLen(c)  == IF c.learnOde THEN 2 * c.nBands + 2 + (IF c.rk4w THEN 4 ELSE 0) ELSE 0
AttnLen(c) == IF c.learnAttn
              THEN c.nHead * PerLen(Embed(c), HeadOf(c), Content(c)) + LinearLen(Embed(c), Embed(c)) ELSE 0

Learned(c, ode, attn) == LET v == [c EXCEPT !.learnOde = ode, !.learnAttn = attn] IN OdeLen(v) + AttnLen(v)

(* A phase-native file is as long as a dense one of fewer learned parts.    *)
Ambiguous(c) ==
  /\ c.head = "phase"
  /\ \E ode, attn \in BOOLEAN :
       c.layers * (Learned(c, c.learnOde, c.learnAttn) - Learned(c, ode, attn)) = c.vocab * Embed(c) - c.nBands

SameModel(c, v) == \A f \in {"learnOde", "learnAttn", "head"} : v[f] = c[f]
Loaded == LoadAuto(d, fresh.wte, fresh.wpe, Len(p))

(* A file of a model trained without the flags that cannot be tried is      *)
(* always taken for some model, although all it says is how many numbers    *)
(* it holds; and for one with the same learned parts and the same decoder   *)
(* if it is dense, or if no dense model of fewer learned parts is as long.  *)
(* Only then is it taken for another.                                       *)
AutoLoadRecovers ==
  pc = "params" /\ Plain(d) = d /\ d.head \in {"phase", "dense"} =>
    \E got \in {Loaded} : got # <<>> /\ (SameModel(d, got[1]) <=> ~Ambiguous(d))

(* common/wave_model.rs:227 of the loader: "auto-detection of layout        *)
(* variant", and :235: "Attention variants added so checkpoints trained     *)
(* with --learnable-attn load correctly".                                   *)
AttentionLoadsCorrectly ==
  pc = "params" /\ Plain(d) = d /\ d.head \in {"phase", "dense"} /\ d.learnAttn =>
    \E got \in {Loaded} : got # <<>> /\ SameModel(d, got[1])

(* No row before the last depends on the last position's input, through any *)
(* number of blocks: what was learnt never saw the token to be predicted.   *)
Causal ==
  job.vary = "last" /\ post # <<>> =>
    \A pos \in 0 .. d.T - 2 : \A j \in DOMAIN post[pos] : post[pos][j][2] = 0

(* The passes written a second time give what training's pass gives: a row  *)
(* injected before any layer comes out of the encoding tools as training    *)
(* leaves it, when there is no plate to leave out, and the Candle tier's    *)
(* tensors arrive at the CPU's logits through either of its integrations.   *)
PassesAgree ==
  pc = "backward" /\ i = d.layers =>
    /\ ~d.corrector /\ ~UsesSplit(d) =>
         \A k \in 1 .. d.layers : ForwardFromLayer(d, m, caches[k].input[0], k - 1) = post[0]
    /\ CandleRuns(d) =>
         \A customOp \in CandlePaths(d) :
           CandleForward(d, m, caches[1].input, customOp) = Table([pos \in DOMAIN post |-> Logits(d, m, post[pos])])

(* The Candle tier lands on the attention the CPU tier would start from,    *)
(* although it never draws the other weights of a block.                    *)
AttentionAligned ==
  d.learnOde => \A b \in DOMAIN fresh.blocks : fresh.blocks[b].attn = CandleAttention(d, job.seed)[b]
=============================================================================
