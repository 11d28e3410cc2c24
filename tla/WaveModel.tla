----------------------------- MODULE WaveModel -----------------------------
(***************************************************************************)
(* A block of the wave-packet model as the CPU tier runs it, forward and   *)
(* reverse (ffn.rs, cpu/forward.rs, cpu/model_backward.rs).                *)
(*                                                                         *)
(* d is the code's Dims and the model's flags:                             *)
(*   nBands, nHead, md (maestro_dim), T, layers, vocab, groups, steps      *)
(*   head         "dense" | "rank" | "tied" | "phase" | "wave"             *)
(*   rank, frozen what the rank and wave heads need; loss "tokens"|"waves" *)
(*   learnOde, odePathway, splitBand, corrector, rk4w, layerScale,         *)
(*   learnAttn, attnPathway, dyn                                           *)
(* A model m is [wte, wpe, blocks, lnF, head, scale, corrector].           *)
(***************************************************************************)
EXTENDS Attention

Embed(d) == 2 * d.nBands

(***************************************************************************)
(* The FFN path: maestro in, the ODE, the corrector plate, maestro out,    *)
(* each maestro added to what it reads, then the projection.  Rows are     *)
(* below the gain control's knee, where it changes nothing (its thresholds *)
(* are in BatchStep); there is no wave memory to add, as in training.      *)
(***************************************************************************)
CachesOde(d)  == d.learnOde \/ d.odePathway
UsesSplit(d)  == d.splitBand /\ CachesOde(d)

Integrate(d, w, z) == IF UsesSplit(d) THEN SplitBandForward(w, z) ELSE OdeForward(w, z)

FfnForward(d, b, x) ==
  LET odes(pre)   == Each(pre, LAMBDA v : Integrate(d, b.kerr, Bands(v)))
      plated(ode) == Each(ode, LAMBDA f : Interleave(IF d.corrector THEN Correct(b.plate, f.z) ELSE f.z))
      project(mi, ode, kerr, mo, reg) ==
        [mi |-> mi, ode |-> ode, kerr |-> kerr, mo |-> mo, reg |-> reg,
         out |-> Each(reg, LAMBDA v : OutProjForward(b.outProj, v))]
      leave(mi, ode, kerr) ==
        Given(MaestroForward(b.maestroOut, kerr), LAMBDA mo : project(mi, ode, kerr, mo, AddBatch(kerr, mo.out)))
  IN  Given(MaestroForward(b.maestroIn, x), LAMBDA mi :
        Given(odes(AddBatch(x, mi.out)), LAMBDA ode : leave(mi, ode, plated(ode))))

(* The reverse of the integration at one position.  Without a cache the    *)
(* ODE counts as the identity and its parameters take no gradient.         *)
OdeReverse(d, b, f, g) ==
  IF UsesSplit(d) THEN SplitBandBackward(b.kerr, f, g)
  ELSE IF CachesOde(d) THEN OdeBackward(b.kerr, f, g)
  ELSE [d |-> g, acc |-> NoGrads(d.nBands)]

SumGrads(n, accs) ==      \* chi's gradient is dropped here
  [gamma |-> SumBatch([pos \in DOMAIN accs |-> accs[pos].gamma]),
   alpha |-> Sum0([pos \in DOMAIN accs |-> accs[pos].alpha]),
   beta  |-> Sum0([pos \in DOMAIN accs |-> accs[pos].beta]),
   mix   |-> SumBatch([pos \in DOMAIN accs |-> accs[pos].mix])]

FfnBackward(d, b, f, x, dOut) ==
  LET plates(dCorr) ==
        Table([pos \in DOMAIN x |->
          IF d.corrector THEN CorrectBackward(b.plate, dCorr[pos], Uncorrect(b.plate, Bands(f.kerr[pos])))
          ELSE [z |-> dCorr[pos], angle |-> Vec(d.nBands, Zero)]])
      odes(plate) == Table([pos \in DOMAIN x |-> Table(OdeReverse(d, b, f.ode[pos], plate[pos].z))])
      enter(ode)  == Given(Each(ode, LAMBDA o : Interleave(o.d)), LAMBDA dPre :
                       [d |-> dPre, mi |-> MaestroBackward(b.maestroIn, dPre, f.mi, x)])
      collect(mo, plate, ode, in) ==
        [x |-> AddBatch(in.d, in.mi.x),
         outProj |-> OuterProductAccum(dOut, f.reg),
         maestroIn |-> in.mi, maestroOut |-> mo,
         kerr  |-> ToRaw(b.kerr, SumGrads(d.nBands, [pos \in DOMAIN x |-> ode[pos].acc])),
         plate |-> SumBatch([pos \in DOMAIN x |-> plate[pos].angle])]
      through(dReg, mo) ==
        Given(plates(Each(AddBatch(dReg, mo.x), Bands)), LAMBDA plate :
          Given(odes(plate), LAMBDA ode : collect(mo, plate, ode, enter(ode))))
  IN  Given(Each(dOut, LAMBDA v : OutProjBackwardDx(b.outProj, v)), LAMBDA dReg :
        through(dReg, MaestroBackward(b.maestroOut, dReg, f.mo, f.kerr)))

(***************************************************************************)
(* A block: one layer norm, attention and FFN in parallel on its result,   *)
(* their sum scaled into the residual.                                     *)
(***************************************************************************)
Scale(d, m, i) == IF d.layerScale THEN m.scale[i] ELSE One

BlockForward(d, m, i, hidden) ==
  LET b == m.blocks[i]
      leave(normed, ffn, attn, both) ==
        [input |-> hidden, normed |-> normed, ffn |-> ffn, attn |-> attn, both |-> both,
         out |-> AddBatch(hidden, Each(both, LAMBDA v : VScale(Scale(d, m, i), v)))]
      join(normed, ffn, attn) == leave(normed, ffn, attn, AddBatch(attn.out, ffn.out))
  IN  Given(Each(hidden, LAMBDA h : LayerNorm(b.ln, h)), LAMBDA normed :
        join(normed, FfnForward(d, b, normed), AttentionForward(b.attn, normed)))

(***************************************************************************)
(* The same block as the encoding tools run it (block.rs, phase_encode.rs): *)
(* no plate, one integrator, no scale, and the scale put on afterwards;    *)
(* one row is injected before a layer.                                     *)
(***************************************************************************)
DualMaestroForward(d, b, x) == FfnForward([d EXCEPT !.corrector = FALSE, !.splitBand = FALSE], b, x).out

WaveBlockForwardSerial(d, b, hidden) ==      \* mutant: the FFN reads what attention wrote
  LET norm(rows) == Each(rows, LAMBDA h : LayerNorm(b.ln, h))
  IN  Given(AddBatch(hidden, AttentionForward(b.attn, norm(hidden)).out), LAMBDA mid :
        AddBatch(mid, DualMaestroForward(d, b, norm(mid))))

WaveBlockForward(d, b, hidden) ==
  Given(Each(hidden, LAMBDA h : LayerNorm(b.ln, h)), LAMBDA normed :
    AddBatch(hidden, AddBatch(AttentionForward(b.attn, normed).out, DualMaestroForward(d, b, normed))))

ForwardFromLayer(d, m, state, inject) ==
  LET scaled(i, h, out) ==
        Table([pos \in {0} |-> Table([j \in DOMAIN state |->
          h[0][j] (+) (Scale(d, m, i) (.) (out[0][j] (-) h[0][j]))])])
      at[i \in 0 .. d.layers] ==
        IF i <= inject THEN [pos \in {0} |-> state]
        ELSE Given(at[i - 1], LAMBDA h : scaled(i - 1, h, WaveBlockForward(d, m.blocks[i - 1], h)))
  IN  LayerNorm(m.lnF, at[d.layers][0])

(* The harmonics' own gradient, taken with the gradient of the block's     *)
(* output where the full reverse takes that of the merged heads.           *)
HarmonicBackward(b, f, dOut) ==
  LET nHead   == Size(b.attn.heads)
      headDim == Size(dOut[0]) \div nHead
      part(h) == Grid(Size(dOut), headDim, LAMBDA q, k : dOut[q][h * headDim + k])
      raw(c, head, dW) == ScoreBackward(SoftmaxBackward(dW, c.attW), c, head).n (.) <<Opaque(2, head.raw[1]), 0>>
  IN  Table([h \in 0 .. nHead - 1 |->
        raw(f.attn.heads[h], b.attn.heads[h], ValueAggregationBackward(part(h), f.attn.heads[h]).attW)])

BlockBackward(d, m, i, f, dHidden) ==
  LET b == m.blocks[i]
      attention(dOut) ==      \* what it hands to the layer norm, and its gradients
        IF ~d.attnPathway THEN [x |-> Each(dOut, LAMBDA v : Vec(Embed(d), Zero)), grads |-> <<>>]
        ELSE IF d.learnAttn
        THEN Given(AttentionBackward(b.attn, f.attn, f.normed, dOut), LAMBDA a :
               [x |-> a.x, grads |-> <<[a EXCEPT !.x = <<>>]>>])
        ELSE [x |-> AttentionPathway(b.attn, f.attn, f.normed, dOut), grads |-> <<>>]
      norms(dN) == Table([pos \in DOMAIN dN |-> LayerNormBackward(b.ln, dN[pos], f.input[pos])])
      collect(dOut, ffn, attn, ln) ==
        [d  |-> Table([pos \in DOMAIN ln |-> Table(VAdd(ln[pos].x, dHidden[pos]))]),
         grads |-> [ln |-> [w |-> SumBatch([pos \in DOMAIN ln |-> ln[pos].w]),
                            b |-> SumBatch([pos \in DOMAIN ln |-> ln[pos].b])],
                    lnFfn |-> [w |-> Vec(Embed(d), Zero), b |-> Vec(Embed(d), Zero)],
                    ffn |-> [ffn EXCEPT !.x = <<>>],
                    harmonics |-> IF d.dyn THEN HarmonicBackward(b, f, dOut) ELSE <<>>,
                    attn |-> attn.grads,
                    scale |-> Sum0([pos \in DOMAIN ln |-> Dot(dHidden[pos], f.both[pos])])]]
      through(dOut, ffn, attn) == collect(dOut, ffn, attn, norms(AddBatch(ffn.x, attn.x)))
  IN  Given(Each(dHidden, LAMBDA v : VScale(Scale(d, m, i), v)), LAMBDA dOut :
        through(dOut, FfnBackward(d, b, f.ffn, f.normed, dOut), attention(dOut)))
=============================================================================
