------------------------------- MODULE Decode -------------------------------
(***************************************************************************)
(* From the last layer norm to a loss and back (cpu/forward.rs,            *)
(* cpu/model_backward.rs, wave_decode.rs, math/phase_loss.rs,              *)
(* wave_loss.rs).  The model has one of five decoders:                     *)
(*   "dense" a table lm_head           "rank"  lm_up * lm_down             *)
(*   "tied"  the embedding table, with a learnable temperature             *)
(*   "phase" the embedding table behind the output corrector               *)
(*   "wave"  coherence with per-token phases                               *)
(* and is trained on tokens or, in wave space, on target rows.             *)
(* h is one position's row after the last layer norm.                      *)
(***************************************************************************)
EXTENDS WaveModel

CONSTANT Temperature      \* the phase-native loss's temperature

Softmax(l) == Given(Table([v \in DOMAIN l |-> Exp(l[v])]), LAMBDA e :
                Table([v \in DOMAIN l |-> e[v] (/) Sum0(e)]))

TokenLoss(l, target) == Neg(Ln(Softmax(l)[target]))

CrossEntropyBackward(l, target) ==
  Given(Softmax(l), LAMBDA p : Table([v \in DOMAIN l |-> IF v = target THEN p[v] (-) One ELSE p[v]]))

(***************************************************************************)
(* Wave decode: cos of the difference of the row's angle and a token's, on *)
(* every band, weighted by the band's weight and the row's magnitude.      *)
(* The tokens' cosines and sines are a cache beside the learnt phases.     *)
(***************************************************************************)
BandAngles(h) ==
  Given(Bands(h), LAMBDA z :
    Table([k \in DOMAIN z |-> Given(Atan2(z[k][2], z[k][1]), LAMBDA a :
                                [cos |-> Cos(a), sin |-> Sin(a), mag |-> Sqrt(Mag(z[k]))])]))

CosBetween(a, wd, v, k) == (a[k].cos (.) wd.cos[v][k]) (+) (a[k].sin (.) wd.sin[v][k])
SinBetween(a, wd, v, k) == (a[k].sin (.) wd.cos[v][k]) (-) (a[k].cos (.) wd.sin[v][k])

Coherence(wd, a, v) ==
  Sum0([k \in DOMAIN a |-> (wd.band[k] (.) a[k].mag) (.) CosBetween(a, wd, v, k)])

WaveDecodeForward(wd, h) ==
  Given(BandAngles(h), LAMBDA a : Table([v \in DOMAIN wd.cos |-> Coherence(wd, a, v) (.) wd.temp]))

WaveDecodeBackward(wd, g, h) ==
  LET up(v)  == g[v] (.) wd.temp
      sum(F(_)) == SumTo(Size(wd.cos), [v \in DOMAIN wd.cos |-> F(v)])
      (* a band's gradient through its angle and through its magnitude *)
      bend(turn, grow, mag, z) == CAdd(CScale(turn (/) Mag(z), CTurn(z)), CScale(grow (/) mag, z))
      dBand(a, z, k) ==
        bend(sum(LAMBDA v : (up(v) (.) (wd.band[k] (.) a[k].mag)) (.) Neg(SinBetween(a, wd, v, k))),
             sum(LAMBDA v : up(v) (.) (wd.band[k] (.) CosBetween(a, wd, v, k))), a[k].mag, z[k])
      through(a, z) ==
        [d    |-> Interleave(Table([k \in DOMAIN a |-> dBand(a, z, k)])),
         band |-> Table([k \in DOMAIN a |-> sum(LAMBDA v : up(v) (.) (a[k].mag (.) CosBetween(a, wd, v, k)))]),
         temp |-> sum(LAMBDA v : Coherence(wd, a, v) (.) g[v]),
         ref  |-> IF wd.ref = <<>> THEN <<>>
                  ELSE Grid(Size(wd.cos), Size(a), LAMBDA v, k :
                         (up(v) (.) (wd.band[k] (.) a[k].mag)) (.) SinBetween(a, wd, v, k))]
  IN  through(BandAngles(h), Bands(h))

(* The cache follows the learnt phases whenever these are written.         *)
RefreshCosSinCache(wd) ==
  IF wd.ref = <<>> THEN wd
  ELSE [wd EXCEPT !.cos = Each(wd.ref, LAMBDA r : [k \in DOMAIN r |-> Cos(r[k])]),
                  !.sin = Each(wd.ref, LAMBDA r : [k \in DOMAIN r |-> Sin(r[k])])]

InitWaveDecode(wte, frozen) ==
  LET state(angles) == RefreshCosSinCache([band |-> Vec(Size(angles[0]), One), temp |-> Con(50), ref |-> angles,
                                           cos |-> <<>>, sin |-> <<>>])
  IN  Given(state(Each(wte, LAMBDA e : Given(Bands(e), LAMBDA z : [k \in DOMAIN z |-> Atan2(z[k][2], z[k][1])]))),
        LAMBDA cached : IF frozen THEN [cached EXCEPT !.ref = <<>>] ELSE cached)

(***************************************************************************)
(* Phase-native: the corrector turns every band, then the row is compared  *)
(* with the embeddings.  Training divides by a temperature that inference  *)
(* does not know.                                                          *)
(***************************************************************************)
PhaseScores(corr, wte, h) ==
  Given(Interleave(Correct(corr, Bands(h))), LAMBDA turned :
    Table([v \in DOMAIN wte |-> Dot(turned, wte[v])]))

PhaseNativeLoss(corr, wte, h, target) ==
  LET cool(l) == Table(VScale(Recip(Con(Temperature)), l))
      grads(g) == CorrectBackward(corr, Bands(LinearBackwardDx(wte, g)), Bands(h))
      loss(l, b) == [loss |-> TokenLoss(l, target), d |-> Interleave(b.z), corr |-> b.angle]
  IN  Given(cool(PhaseScores(corr, wte, h)), LAMBDA l : loss(l, grads(cool(CrossEntropyBackward(l, target)))))

(***************************************************************************)
(* The logits the forward pass leaves, in all five cases.                  *)
(***************************************************************************)
Times(rows, x) == Table([i \in DOMAIN rows |-> Dot(rows[i], x)])

Logits(d, m, h) ==
  CASE d.head = "phase" -> PhaseScores(m.head.corr, m.wte, h)
    [] d.head = "wave"  -> WaveDecodeForward(m.head, h)
    [] d.head = "rank"  -> Times(m.head.up, Times(m.head.down, h))
    [] d.head = "tied"  -> Table(VScale(m.head.temp, Times(m.wte, h)))
    [] d.head = "dense" -> Times(m.head.w, h)

(***************************************************************************)
(* Reverse from the logits' gradient g at one position.  The tied decoder  *)
(* leaves its temperature out, and gives it no gradient.                   *)
(***************************************************************************)
Outer(x, y) == Grid(Size(x), Size(y), LAMBDA i, j : x[i] (.) y[j])

DecodeBackward(d, m, g, h) ==
  CASE d.head = "wave" -> Given(WaveDecodeBackward(m.head, g, h), LAMBDA b : [d |-> b.d, head |-> b])
    [] d.head = "rank" -> Given(LinearBackwardDx(m.head.up, g), LAMBDA dLow :
                            [d |-> LinearBackwardDx(m.head.down, dLow),
                             head |-> [down |-> Outer(dLow, h), up |-> Outer(g, Times(m.head.down, h))]])
    [] d.head = "tied" -> [d |-> LinearBackwardDx(m.wte, g), head |-> [temp |-> Zero]]
    [] d.head = "dense" -> [d |-> LinearBackwardDx(m.head.w, g), head |-> [w |-> Outer(g, h)]]

(***************************************************************************)
(* Losses in wave space: the mean square the training run uses, and the    *)
(* cosine distance kept beside it.                                         *)
(***************************************************************************)
WaveTargetLoss(n, t, pred, target) ==
  [loss |-> Sum0([i \in DOMAIN pred |-> Sq(pred[i] (-) target[i])]) (/) Con(n * t),
   d    |-> Table([i \in DOMAIN pred |-> (Two (.) (pred[i] (-) target[i])) (/) Con(n * t)])]

CosineLoss(pred, target) ==
  LET between(dot, np, nt) ==
        [loss |-> One (-) (dot (/) (np (.) nt)),
         d    |-> Table([i \in DOMAIN pred |->
           Neg((target[i] (/) (np (.) nt)) (-) ((pred[i] (.) dot) (/) ((np (.) Sq(np)) (.) nt)))])]
  IN  between(Dot(pred, target), Sqrt(Dot(pred, pred)), Sqrt(Dot(target, target)))

BatchCosineLoss(preds, targets) ==
  LET t == Con(Size(preds))
  IN  Given(Table([pos \in DOMAIN preds |-> CosineLoss(preds[pos], targets[pos])]), LAMBDA b :
        [loss |-> Sum0([pos \in DOMAIN b |-> b[pos].loss]) (/) t,
         d    |-> Table([pos \in DOMAIN b |-> Table(VScale(Recip(t), b[pos].d))])])

(***************************************************************************)
(* The loss of a batch of rows and its gradients: backward_impl as far as  *)
(* the last layer norm.  Sums of the decoder's gradients over positions.   *)
(***************************************************************************)
SumRows(gs) == Grid(Size(gs[0]), Size(gs[0][0]), LAMBDA i, j : SumTo(Size(gs), [pos \in DOMAIN gs |-> gs[pos][i][j]]))

SumHead(d, gs) ==
  LET part(F(_)) == [pos \in DOMAIN gs |-> F(gs[pos])]
  IN  CASE d.head = "dense" -> [w |-> SumRows(part(LAMBDA g : g.w))]
        [] d.head = "tied"  -> [temp |-> Zero]
        [] d.head = "rank"  -> [down |-> SumRows(part(LAMBDA g : g.down)), up |-> SumRows(part(LAMBDA g : g.up))]
        [] d.head = "wave"  -> [band |-> SumBatch(part(LAMBDA g : g.band)), temp |-> Sum0(part(LAMBDA g : g.temp)),
                                ref |-> IF gs[0].ref = <<>> THEN <<>> ELSE SumRows(part(LAMBDA g : g.ref))]

(* result: loss, d per position, head gradients, and the corrector's, which *)
(* wave targets set to zero whatever the decoder is.                        *)
LossBackward(d, m, post, targets) ==
  LET n == Con(Size(post))
      mean(xs) == Sum0(xs) (/) n
      down(l, target) == Table(VScale(Recip(n), CrossEntropyBackward(l, target)))
  IN  IF d.loss = "waves"
      THEN Given(Table([pos \in DOMAIN post |-> WaveTargetLoss(Embed(d), Size(post), post[pos], targets[pos])]), LAMBDA b :
             [loss |-> Sum0([pos \in DOMAIN b |-> b[pos].loss]), d |-> Table([pos \in DOMAIN b |-> b[pos].d]),
              head |-> <<>>, corr |-> Vec(d.nBands, Zero)])
      ELSE IF d.head = "phase"
      THEN Given(Table([pos \in DOMAIN post |-> PhaseNativeLoss(m.head.corr, m.wte, post[pos], targets[pos])]), LAMBDA b :
             [loss |-> mean([pos \in DOMAIN b |-> b[pos].loss]),
              d |-> Table([pos \in DOMAIN b |-> Table(VScale(Recip(n), b[pos].d))]),
              head |-> <<>>,
              corr |-> Table(VScale(Recip(n), SumBatch([pos \in DOMAIN b |-> b[pos].corr])))])
      ELSE Given(Table([pos \in DOMAIN post |-> Logits(d, m, post[pos])]), LAMBDA l :
             Given(Table([pos \in DOMAIN post |-> DecodeBackward(d, m, down(l[pos], targets[pos]), post[pos])]), LAMBDA b :
               [loss |-> mean([pos \in DOMAIN post |-> TokenLoss(l[pos], targets[pos])]),
                d |-> Table([pos \in DOMAIN b |-> b[pos].d]),
                head |-> SumHead(d, [pos \in DOMAIN b |-> b[pos].head]),
                corr |-> <<>>]))
=============================================================================
