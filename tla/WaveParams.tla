----------------------------- MODULE WaveParams -----------------------------
(***************************************************************************)
(* The model as one flat vector: what is counted, in which order parameters *)
(* and gradients are laid out, how a vector is read back, and how a fresh   *)
(* model draws its weights (wave_model.rs, out_proj.rs, model_backward.rs,  *)
(* candle_tier/candle_model.rs).  The optimiser pairs parameter i with      *)
(* gradient i and checkpoints hold only the vector, so the five walks below *)
(* have to agree; the code has nothing but their order to make them.        *)
(***************************************************************************)
EXTENDS Decode

CONSTANT ContentDim

SeqOf(x) == [i \in 1 .. Size(x) |-> x[i - 1]]

Concat(ss) == LET c[i \in 0 .. Len(ss)] == IF i = 0 THEN <<>> ELSE c[i - 1] \o ss[i]
              IN  c[Len(ss)]

RowsSeq(w)    == Concat(SeqOf([i \in DOMAIN w |-> SeqOf(w[i])]))
LinearSeq(l)  == RowsSeq(l.w) \o SeqOf(l.b)
NormSeq(ln)   == SeqOf(ln.w) \o SeqOf(ln.b)
MaestroSeq(m) == LinearSeq(m.squeeze) \o LinearSeq(m.process)
If(c, s)      == IF c THEN s ELSE <<>>
PerHead(heads, F(_)) == Concat(SeqOf([h \in DOMAIN heads |-> F(heads[h])]))
AttnSeq(a)    == PerHead(a.heads, LAMBDA h : LinearSeq(h.phase) \o LinearSeq(h.v)
                                               \o If(HasContent(h), LinearSeq(h.content))) \o LinearSeq(a.out)

(***************************************************************************)
(* Parameters.                                                             *)
(***************************************************************************)
FlattenBlock(d, b) ==
  NormSeq(b.ln) \o NormSeq(b.lnFfn) \o MaestroSeq(b.maestroIn) \o MaestroSeq(b.maestroOut)
  \o Concat(SeqOf([g \in DOMAIN b.outProj.groups |-> LinearSeq(b.outProj.groups[g])]))
  \o If(d.learnOde, SeqOf(b.kerr.gammaRaw) \o <<b.kerr.alpha, b.kerr.beta>> \o SeqOf(b.plate)
                      \o If(d.rk4w, SeqOf(b.kerr.mix)))
  \o If(d.dyn, PerHead(b.attn.heads, LAMBDA h : <<h.raw>>))
  \o If(d.learnAttn, AttnSeq(b.attn))

FlattenHead(d, h) ==
  CASE d.head = "phase" -> SeqOf(h.corr)
    [] d.head = "wave"  -> SeqOf(h.band) \o <<h.temp>> \o If(h.ref # <<>>, RowsSeq(h.ref))
    [] d.head = "rank"  -> RowsSeq(h.down) \o RowsSeq(h.up)
    [] d.head = "dense" -> RowsSeq(h.w)
    [] d.head = "tied"  -> <<h.temp>>

FlattenParams(d, m) ==
  Concat(SeqOf([i \in DOMAIN m.blocks |-> FlattenBlock(d, m.blocks[i])]))
  \o If(d.layerScale, SeqOf(m.scale)) \o NormSeq(m.lnF) \o FlattenHead(d, m.head)

CountTrainable(d, m) ==
  LET e     == Embed(d)
      lin(l) == Size(l.w) * Size(l.w[0]) + Size(l.b)
      op(b) == Size(b.outProj.groups) * lin(b.outProj.groups[0])
      heads(b) == LET hs == b.attn.heads
                      n(h) == lin(hs[h].phase) + lin(hs[h].v)
                                + (IF HasContent(hs[h]) THEN lin(hs[h].content) ELSE 0)
                  IN  Size(hs) * n(0) + lin(b.attn.out)
      block(b) == 4 * e + 4 * d.md * e + 2 * d.md + 2 * e + op(b)
                  + (IF d.learnOde THEN 2 * d.nBands + 2 + (IF d.rk4w THEN 4 ELSE 0) ELSE 0)
                  + (IF d.dyn THEN d.nHead ELSE 0)
                  + (IF d.learnAttn THEN heads(b) ELSE 0)
  IN  d.layers * block(m.blocks[0]) + (IF d.layerScale THEN d.layers ELSE 0) + 2 * e
      + CASE d.head = "phase" -> d.nBands
          [] d.head = "wave"  -> d.nBands + 1 + (IF m.head.ref # <<>> THEN d.vocab * d.nBands ELSE 0)
          [] d.head = "rank"  -> d.rank * e + d.vocab * d.rank
          [] d.head = "dense" -> d.vocab * e
          [] d.head = "tied"  -> 1

(***************************************************************************)
(* Gradients.  Attention's are there only if the reverse pass took them;   *)
(* the out projection's are always one dense matrix; the corrector's come  *)
(* before the decoder's whenever there are any.                            *)
(***************************************************************************)
FlattenBlockGrads(d, g) ==
  NormSeq(g.ln) \o NormSeq(g.lnFfn) \o MaestroSeq(g.ffn.maestroIn) \o MaestroSeq(g.ffn.maestroOut)
  \o LinearSeq(g.ffn.outProj)
  \o If(d.learnOde, SeqOf(g.ffn.kerr.gamma) \o <<g.ffn.kerr.alpha, g.ffn.kerr.beta>> \o SeqOf(g.ffn.plate)
                      \o If(d.rk4w, SeqOf(g.ffn.kerr.mix)))
  \o If(d.dyn, SeqOf(g.harmonics))
  \o If(g.attn # <<>>, AttnSeq(g.attn[1]))

FlattenGrads(d, g) ==
  Concat([i \in 1 .. d.layers |-> FlattenBlockGrads(d, g.blocks[i])])
  \o If(d.layerScale, [i \in 1 .. d.layers |-> g.blocks[i].scale])
  \o NormSeq(g.lnF) \o SeqOf(g.corr)
  \o (IF d.head = "phase" THEN <<>> ELSE FlattenHead(d, g.head))

(***************************************************************************)
(* Reading a vector back: every part is taken at a running index.          *)
(***************************************************************************)
Slice(p, at, n)      == Table([i \in 0 .. n - 1 |-> p[at + i + 1]])
SliceRows(p, at, r, c) == Grid(r, c, LAMBDA i, j : p[at + c * i + j + 1])
SliceLinear(p, at, r, c) == [w |-> SliceRows(p, at, r, c), b |-> Slice(p, at + r * c, r)]
LinearLenNoBias(r, c) == r * c       \* mutant: the bias is not stepped over
LinearLen(r, c)      == r * c + r

(* Bounded on the way in; 0 stands for a value out of range.               *)
Clamp(x) == IF x[1] = 0 THEN <<1, x[2]>> ELSE x

UnflattenMaestro(p, at, md, e) ==
  [squeeze |-> SliceLinear(p, at, md, e), process |-> SliceLinear(p, at + LinearLen(md, e), e, md)]

UnflattenAttn(a, p, at) ==
  LET e    == Size(a.out.b)
      hd   == Size(a.heads[0].v.b)
      cd   == IF HasContent(a.heads[0]) THEN Size(a.heads[0].content.b) ELSE 0
      per  == LinearLen(2, e) + LinearLen(hd, hd) + LinearLen(cd, e)
      head(h) == LET s == at + h * per
                 IN  [a.heads[h] EXCEPT
                        !.phase   = SliceLinear(p, s, 2, e),
                        !.v       = SliceLinear(p, s + LinearLen(2, e), hd, hd),
                        !.content = IF cd = 0 THEN <<>>
                                    ELSE SliceLinear(p, s + LinearLen(2, e) + LinearLen(hd, hd), cd, e)]
  IN  [heads |-> Table([h \in DOMAIN a.heads |-> head(h)]),
       out   |-> SliceLinear(p, at + Size(a.heads) * per, e, e)]

UnflattenBlock(d, b, p, at) ==
  LET e    == Embed(d)
      n    == d.nBands
      mae  == LinearLen(d.md, e) + LinearLen(e, d.md)
      gs   == GroupSize(b.outProj)
      op   == at + 4 * e + 2 * mae
      ode  == op + Size(b.outProj.groups) * LinearLen(gs, gs)
      dyn  == ode + (IF d.learnOde THEN 2 * n + 2 + (IF d.rk4w THEN 4 ELSE 0) ELSE 0)
      attn == dyn + (IF d.dyn THEN Size(b.attn.heads) ELSE 0)
      kerr == IF d.learnOde
              THEN [b.kerr EXCEPT !.gammaRaw = Slice(p, ode, n), !.alpha = Clamp(p[ode + n + 1]),
                                  !.beta = Clamp(p[ode + n + 2]),
                                  !.mix = IF d.rk4w THEN Slice(p, ode + 2 * n + 2, 4) ELSE @]
              ELSE b.kerr
      bent == IF d.dyn
              THEN [b.attn EXCEPT !.heads = Table([h \in DOMAIN @ |-> [@[h] EXCEPT !.raw = p[dyn + h + 1]]])]
              ELSE b.attn
  IN  [b EXCEPT
        !.ln         = [w |-> Slice(p, at, e), b |-> Slice(p, at + e, e)],
        !.lnFfn      = [w |-> Slice(p, at + 2 * e, e), b |-> Slice(p, at + 3 * e, e)],
        !.maestroIn  = UnflattenMaestro(p, at + 4 * e, d.md, e),
        !.maestroOut = UnflattenMaestro(p, at + 4 * e + mae, d.md, e),
        !.outProj    = [groups |-> Table([g \in DOMAIN @.groups |-> SliceLinear(p, op + g * LinearLen(gs, gs), gs, gs)])],
        !.kerr       = kerr,
        !.plate      = IF d.learnOde THEN Slice(p, ode + n + 2, n) ELSE @,
        !.attn       = IF d.learnAttn THEN UnflattenAttn(bent, p, attn) ELSE bent]

UnflattenHead(d, h, p, at) ==
  CASE d.head = "phase" -> [h EXCEPT !.corr = Slice(p, at, d.nBands)]
    [] d.head = "wave"  -> RefreshCosSinCache(
                             [h EXCEPT !.band = Slice(p, at, d.nBands), !.temp = p[at + d.nBands + 1],
                                       !.ref = IF @ = <<>> THEN <<>>
                                               ELSE SliceRows(p, at + d.nBands + 1, d.vocab, d.nBands)])
    [] d.head = "rank"  -> [h EXCEPT !.down = SliceRows(p, at, d.rank, Embed(d)),
                                     !.up = SliceRows(p, at + d.rank * Embed(d), d.vocab, d.rank)]
    [] d.head = "dense" -> [h EXCEPT !.w = SliceRows(p, at, d.vocab, Embed(d))]
    [] d.head = "tied"  -> [h EXCEPT !.temp = p[at + 1]]

UnflattenParams(d, m, p) ==
  LET per   == Len(FlattenBlock(d, m.blocks[0]))
      scale == d.layers * per
      norm  == scale + (IF d.layerScale THEN d.layers ELSE 0)
  IN  [m EXCEPT
        !.blocks = Table([i \in DOMAIN @ |-> UnflattenBlock(d, @[i], p, i * per)]),
        !.scale  = IF d.layerScale THEN Table([i \in DOMAIN @ |-> Clamp(p[scale + i + 1])]) ELSE @,
        !.lnF    = [w |-> Slice(p, norm, Embed(d)), b |-> Slice(p, norm + Embed(d), Embed(d))],
        !.head   = UnflattenHead(d, @, p, norm + 2 * Embed(d))]

(***************************************************************************)
(* A fresh model.  Weights are drawn from one stream in a fixed order: per *)
(* block the heads, the attention's projection, the two maestros and the   *)
(* projection, then the decoder.  Biases are not drawn.                    *)
(***************************************************************************)
Draw(seed, i) == Con(Noise(seed, 50, i)[1])

InitLinear(seed, at, r, c) == [w |-> Grid(r, c, LAMBDA i, j : Draw(seed, at + c * i + j)), b |-> Vec(r, Zero)]

HeadDraws(d, cd) == 2 * Embed(d) + (Embed(d) \div d.nHead) * (Embed(d) \div d.nHead) + cd * Embed(d)
AttnDraws(d, cd) == d.nHead * HeadDraws(d, cd) + Embed(d) * Embed(d)

InitBlockAttn(d, seed, at, cd) ==
  LET e  == Embed(d)
      hd == e \div d.nHead
      head(h) == LET s == at + h * HeadDraws(d, cd)
                 IN  [raw |-> Con(20 + h), phase |-> InitLinear(seed, s, 2, e),
                      v |-> InitLinear(seed, s + 2 * e, hd, hd),
                      content |-> IF cd > 0 THEN InitLinear(seed, s + 2 * e + hd * hd, cd, e) ELSE <<>>]
  IN  [heads |-> Table([h \in 0 .. d.nHead - 1 |-> head(h)]),
       out |-> InitLinear(seed, at + d.nHead * HeadDraws(d, cd), e, e)]

(* What a tier that does not draw a block's FFN weights skips instead.     *)
AdvanceBlockFfnDense(d) ==      \* mutant: a grouped projection is skipped as a dense one
  4 * d.md * Embed(d) + Embed(d) * Embed(d)

AdvanceBlockFfn(d) ==
  4 * d.md * Embed(d)
  + (IF d.groups <= 1 THEN Embed(d) * Embed(d)
     ELSE d.groups * (Embed(d) \div d.groups) * (Embed(d) \div d.groups))

Content(d) == IF d.learnOde THEN ContentDim ELSE 0

InitBlock(d, seed, at) ==
  LET e    == Embed(d)
      ffn  == at + AttnDraws(d, Content(d))
      mae(s) == [squeeze |-> InitLinear(seed, s, d.md, e), process |-> InitLinear(seed, s + d.md * e, e, d.md)]
      gs   == e \div d.groups
      ln   == [w |-> Vec(e, One), b |-> Vec(e, Zero)]
  IN  [ln |-> ln, lnFfn |-> ln, attn |-> InitBlockAttn(d, seed, at, Content(d)),
       kerr |-> [gammaRaw |-> Vec(d.nBands, Con(9)), omega |-> [k \in 0 .. d.nBands - 1 |-> Con(k + 1)],
                 alpha |-> Con(10), beta |-> Con(20), chi |-> Zero,
                 mix |-> [i \in 0 .. 3 |-> Recip(Con(IF i \in {1, 2} THEN 3 ELSE 6))], steps |-> d.steps],
       plate |-> Vec(d.nBands, Zero),
       maestroIn |-> mae(ffn), maestroOut |-> mae(ffn + 2 * d.md * e),
       outProj |-> [groups |-> Table([g \in 0 .. d.groups - 1 |->
                      InitLinear(seed, ffn + 4 * d.md * e + g * gs * gs, gs, gs)])]]

InitHead(d, seed, at, wte) ==
  CASE d.head = "phase" -> [corr |-> Vec(d.nBands, Zero)]
    [] d.head = "wave"  -> InitWaveDecode(wte, d.frozen)
    [] d.head = "rank"  -> [down |-> InitLinear(seed, at, d.rank, Embed(d)).w,
                            up   |-> InitLinear(seed, at + d.rank * Embed(d), d.vocab, d.rank).w]
    [] d.head = "dense" -> [w |-> InitLinear(seed, at, d.vocab, Embed(d)).w]
    [] d.head = "tied"  -> [temp |-> One]

FfnDraws(d) == LET gs == Embed(d) \div d.groups
               IN  4 * d.md * Embed(d) + d.groups * gs * gs

InitModel(d, seed, wte, wpe) ==
  LET per == AttnDraws(d, Content(d)) + FfnDraws(d)
  IN  [wte |-> wte, wpe |-> wpe,
       blocks |-> Table([i \in 0 .. d.layers - 1 |-> InitBlock(d, seed, i * per)]),
       scale  |-> Vec(d.layers, One),
       lnF    |-> [w |-> Vec(Embed(d), One), b |-> Vec(Embed(d), Zero)],
       head   |-> InitHead(d, seed, d.layers * per, wte)]

(***************************************************************************)
(* A file says how many numbers it holds, not which flags they were laid   *)
(* out under: the variants are tried in this order, each with the phase-   *)
(* native decoder and then the dense one, and the first whose count fits   *)
(* is taken.  Plain(d) is what no flag can be tried for.                   *)
(***************************************************************************)
Plain(d) == [d EXCEPT !.frozen = FALSE, !.splitBand = FALSE, !.odePathway = TRUE, !.attnPathway = TRUE,
                      !.rk4w = FALSE, !.layerScale = FALSE, !.dyn = FALSE]

VariantsFixedAttn ==      \* mutant: learnable attention is never tried
  << <<FALSE, TRUE, FALSE>>, <<FALSE, FALSE, FALSE>>, <<TRUE, TRUE, FALSE>>, <<TRUE, FALSE, FALSE>> >>

Variants ==
  << <<FALSE, TRUE, FALSE>>, <<FALSE, FALSE, FALSE>>, <<TRUE, TRUE, FALSE>>, <<TRUE, FALSE, FALSE>>,
     <<FALSE, TRUE, TRUE>>,  <<FALSE, FALSE, TRUE>>,  <<TRUE, TRUE, TRUE>>,  <<TRUE, FALSE, TRUE>> >>

Candidates(d) ==
  [k \in 1 .. 2 * Len(Variants) |->
     LET v == Variants[(k + 1) \div 2]
     IN  [Plain(d) EXCEPT !.learnOde = v[1], !.corrector = v[2], !.learnAttn = v[3],
                          !.head = IF k % 2 = 1 THEN "phase" ELSE "dense"]]

LoadAuto(d, wte, wpe, count) ==      \* the flags taken, or none: the code panics
  LET counted(c) == CountTrainable(c, InitModel(c, 42, wte, wpe))
      fits  == {k \in DOMAIN Candidates(d) : counted(Candidates(d)[k]) = count}
      first == CHOOSE k \in fits : \A j \in fits : k <= j
  IN  IF fits = {} THEN <<>> ELSE <<Candidates(d)[first]>>

(* The Candle tier draws attention alone and always with a content part.   *)
CandleAttention(d, seed) ==
  LET per == AttnDraws(d, ContentDim) + AdvanceBlockFfn(d)
  IN  [i \in 0 .. d.layers - 1 |-> InitBlockAttn(d, seed, i * per, ContentDim)]
=============================================================================
