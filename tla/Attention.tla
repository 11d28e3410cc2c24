----------------------------- MODULE Attention -----------------------------
(***************************************************************************)
(* Harmonic coherence attention (attn.rs, math/attn_backward.rs).  Every   *)
(* head projects a position to one phase, scores a pair of positions by    *)
(* cos(n * (phase difference)) plus an optional content bias, and looks    *)
(* only at pairs whose phases fall in neighbouring buckets.                *)
(* A head is [raw, phase : 2 rows, v : square, content : rows or none];    *)
(* attn is [heads : 0 .. n_head-1, out : linear].                          *)
(***************************************************************************)
EXTENDS Layers

NBuckets == 8
Bucket(phase) == (phase[1] * NBuckets) \div P

HasContent(h)  == h.content # <<>>
ContentScale(h) == Con(Size(h.content.w) + 6)      \* stands for 1 / sqrt(content_dim)

(***************************************************************************)
(* Which earlier positions a query sees: the three buckets around its own, *)
(* and always the position before it.  (Its own bucket holds itself.)      *)
(***************************************************************************)
SeesBothWays(phases, q, k) ==      \* mutant: the bound on k is dropped
  \/ (Bucket(phases[q]) - Bucket(phases[k])) % NBuckets \in {0, 1, NBuckets - 1}
  \/ k = q - 1

Sees(phases, q, k) ==
  k <= q /\ \/ (Bucket(phases[q]) - Bucket(phases[k])) % NBuckets \in {0, 1, NBuckets - 1}
            \/ k = q - 1

HeadForward(h, x, offset, headDim) ==
  LET T == Size(x)
      phasesOf(rs) == Table([pos \in 0 .. T - 1 |-> Atan2(rs[pos][1], rs[pos][0])])
      own(y) == [d \in 0 .. headDim - 1 |-> y[offset + d]]
      bias(cv, q, k) == IF HasContent(h) THEN Dot(cv[q], cv[k]) (.) ContentScale(h) ELSE Zero
      weights(n, phases, cv) ==
        Given(Grid(T, T, LAMBDA q, k :
                IF Sees(phases, q, k) THEN Exp(Cos(n (.) (phases[q] (-) phases[k])) (+) bias(cv, q, k)) ELSE Zero),
              LAMBDA e : Grid(T, T, LAMBDA q, k : e[q][k] (/) Sum0(e[q])))
      through(r) ==
        Given(weights(r.n, r.phases, r.cv), LAMBDA attW :
          [n |-> r.n, phases |-> r.phases, cv |-> r.cv, v |-> r.v, attW |-> attW,
           out |-> Grid(T, headDim, LAMBDA q, d : SumTo(T, [k \in 0 .. T - 1 |-> attW[q][k] (.) r.v[k][d]]))])
  IN  through([n |-> Softplus(h.raw), phases |-> phasesOf(Each(x, LAMBDA v : LinearFn(h.phase, v))),
               cv |-> IF HasContent(h) THEN Each(x, LAMBDA v : LinearFn(h.content, v)) ELSE <<>>,
               v |-> Each(x, LAMBDA y : LinearFn(h.v, own(y)))])

AttentionForward(attn, x) ==
  LET nHead   == Size(attn.heads)
      headDim == Size(x[0]) \div nHead
      merge(heads) == Grid(Size(x), Size(x[0]), LAMBDA q, i :      \* heads need not fill the row
                        IF i < nHead * headDim THEN heads[i \div headDim].out[q][i % headDim] ELSE Zero)
      project(heads, merged) ==
        [heads |-> heads, merged |-> merged, out |-> Each(merged, LAMBDA m : LinearFn(attn.out, m))]
  IN  Given(Table([h \in 0 .. nHead - 1 |-> HeadForward(attn.heads[h], x, h * headDim, headDim)]),
        LAMBDA heads : project(heads, merge(heads)))

(***************************************************************************)
(* Reverse.  A weight that is 0 was never computed; it takes no gradient.  *)
(***************************************************************************)
Attended(attW, q, k) == k <= q /\ attW[q][k][1] # 0

(* Gradients of the weights and of the values.                             *)
ValueAggregationBackward(dHead, f) ==
  LET T == Size(dHead)
  IN  [attW |-> Grid(T, T, LAMBDA q, k : IF Attended(f.attW, q, k) THEN Dot(dHead[q], f.v[k]) ELSE Zero),
       v    |-> Grid(T, Size(dHead[0]), LAMBDA k, d :
                  SumTo(T, [q \in 0 .. T - 1 |->
                    IF Attended(f.attW, q, k) THEN f.attW[q][k] (.) dHead[q][d] ELSE Zero]))]

(* Mutant: the normalisation of a row is not differentiated.               *)
SoftmaxBackwardDiagonal(dW, attW) ==
  Grid(Size(dW), Size(dW), LAMBDA q, k : attW[q][k] (.) dW[q][k])

SoftmaxBackward(dW, attW) ==
  Grid(Size(dW), Size(dW), LAMBDA q, k : attW[q][k] (.) (dW[q][k] (-) Dot(attW[q], dW[q])))

(* Gradients of the phase differences, the contents and the harmonic.      *)
ScoreBackward(dS, f, h) ==
  LET T  == Size(dS)
      delta(q, k) == f.phases[q] (-) f.phases[k]
      bend(q, k)  == Neg(Sin(f.n (.) delta(q, k))) (.) dS[q][k]
      seen(q, k, x) == IF Attended(f.attW, q, k) THEN x ELSE Zero
      pull(p, d) ==      \* a pair gives each of the two the other's content
        SumTo(T, [k \in 0 .. T - 1 |-> seen(p, k, (dS[p][k] (.) ContentScale(h)) (.) f.cv[k][d])])
        (+) SumTo(T, [q \in 0 .. T - 1 |-> seen(q, p, (dS[q][p] (.) ContentScale(h)) (.) f.cv[q][d])])
  IN  [delta   |-> Grid(T, T, LAMBDA q, k : seen(q, k, f.n (.) bend(q, k))),
       content |-> IF HasContent(h) THEN Grid(T, Size(h.content.w), pull) ELSE <<>>,
       n       |-> SumTo(T, [q \in 0 .. T - 1 |->
                     SumTo(T, [k \in 0 .. T - 1 |-> seen(q, k, bend(q, k) (.) delta(q, k))])])]

PhaseSubtractionBackward(dDelta) ==
  LET T == Size(dDelta)
  IN  Table([p \in 0 .. T - 1 |-> Sum0(dDelta[p]) (-) SumTo(T, [q \in 0 .. T - 1 |-> dDelta[q][p]])])

(* Through atan2 of the projected pair; no gradient near the origin.       *)
PhaseProjectionBackward(dPhases, x, phase) ==
  LET bent(r, s, m, i, g) == IF m[1] = 0 THEN Zero ELSE g (.) ((IF i = 0 THEN Neg(s) ELSE r) (/) m)
      pairs(rs) == Grid(Size(x), 2, LAMBDA pos, i :
                     bent(rs[pos][0], rs[pos][1], Sq(rs[pos][0]) (+) Sq(rs[pos][1]), i, dPhases[pos]))
  IN  Given(pairs(Each(x, LAMBDA v : LinearFn(phase, v))), LAMBDA d :
        [x |-> Each(d, LAMBDA v : LinearBackwardDx(phase.w, v)), g |-> OuterProductAccum(d, x)])

(* The head's own slice of the input feeds its values.                     *)
ValueProjectionBackward(dV, x, v, offset, headDim) ==
  [x |-> Grid(Size(x), Size(x[0]), LAMBDA pos, i :
           IF i \in offset .. offset + headDim - 1
           THEN LinearBackwardDx(v.w, dV[pos])[i - offset] ELSE Zero),
   g |-> OuterProductAccum(dV, Grid(Size(x), headDim, LAMBDA pos, d : x[pos][offset + d]))]

ContentProjectionBackward(dC, x, content) ==
  [x |-> Each(dC, LAMBDA v : LinearBackwardDx(content.w, v)), g |-> OuterProductAccum(dC, x)]

HeadBackward(h, f, x, dHead, offset, headDim) ==
  LET through(sc, ph, vp, cp) ==
        [x |-> IF HasContent(h) THEN AddBatch(AddBatch(ph.x, vp.x), cp.x) ELSE AddBatch(ph.x, vp.x),
         phase |-> ph.g, v |-> vp.g, content |-> IF HasContent(h) THEN cp.g ELSE <<>>,
         raw |-> sc.n (.) <<Opaque(2, h.raw[1]), 0>>]
  IN  Given(ValueAggregationBackward(dHead, f), LAMBDA va :
        Given(ScoreBackward(SoftmaxBackward(va.attW, f.attW), f, h), LAMBDA sc :
          through(sc, PhaseProjectionBackward(PhaseSubtractionBackward(sc.delta), x, h.phase),
                  ValueProjectionBackward(va.v, x, h.v, offset, headDim),
                  IF HasContent(h) THEN ContentProjectionBackward(sc.content, x, h.content) ELSE <<>>)))

AttentionBackward(attn, f, x, dOut) ==
  LET nHead   == Size(attn.heads)
      headDim == Size(x[0]) \div nHead
      part(dMerged, h) == Grid(Size(x), headDim, LAMBDA q, d : dMerged[q][h * headDim + d])
      all(dMerged)     == Table([h \in 0 .. nHead - 1 |->
                            HeadBackward(attn.heads[h], f.heads[h], x, part(dMerged, h), h * headDim, headDim)])
  IN  Given(all(Each(dOut, LAMBDA v : LinearBackwardDx(attn.out.w, v))), LAMBDA heads :
        [heads |-> heads, out |-> OuterProductAccum(dOut, f.merged),
         x |-> Grid(Size(x), Size(x[0]), LAMBDA pos, i : SumTo(nHead, [h \in 0 .. nHead - 1 |-> heads[h].x[pos][i]]))])

(* For frozen attention only the gradient of the input is kept.            *)
AttentionPathway(attn, f, x, dOut) == AttentionBackward(attn, f, x, dOut).x
=============================================================================
