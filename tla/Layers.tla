------------------------------- MODULE Layers -------------------------------
(***************************************************************************)
(* The layers around the ODE, forward and reverse: linear maps, the layer  *)
(* norm, GELU, the maestros, the corrector plate, the output projection    *)
(* (model.rs, math/backward.rs, out_proj.rs, ffn.rs).  A vector is a       *)
(* function on 0 .. n-1, a batch a function from positions to vectors.     *)
(***************************************************************************)
EXTENDS SplitBand

Each(xs, Op(_)) == Table([pos \in DOMAIN xs |-> Table(Op(xs[pos]))])
AddBatch(xs, ys) == Table([pos \in DOMAIN xs |-> Table(VAdd(xs[pos], ys[pos]))])
SumBatch(xs)     == LET n == Size(xs[0])
                    IN  Table([i \in 0 .. n - 1 |-> SumTo(Size(xs), [pos \in DOMAIN xs |-> xs[pos][i]])])

(***************************************************************************)
(* Linear maps: l = [w |-> rows, b |-> bias].                              *)
(***************************************************************************)
LinearFn(l, x) == Table([i \in DOMAIN l.w |-> Dot(l.w[i], x) (+) l.b[i]])

LinearBackwardDx(w, dy) ==
  Table([j \in DOMAIN w[0] |-> SumTo(Size(w), [i \in DOMAIN w |-> dy[i] (.) w[i][j]])])

(* Weight and bias gradients summed over the batch.                        *)
OuterProductAccum(dys, xs) ==
  [w |-> Grid(Size(dys[0]), Size(xs[0]),
              LAMBDA i, j : SumTo(Size(xs), [pos \in DOMAIN xs |-> dys[pos][i] (.) xs[pos][j]])),
   b |-> SumBatch(dys)]

(***************************************************************************)
(* Layer norm.                                                             *)
(***************************************************************************)
Mean(x)  == Sum0(x) (/) Con(Size(x))
NormOf(x) ==      \* the centred vector and 1 / sqrt(var + eps)
  Given(Table([i \in DOMAIN x |-> x[i] (-) Mean(x)]), LAMBDA c :
    [c |-> c, inv |-> Recip(Sqrt((Dot(c, c) (/) Con(Size(x))) (+) Con(1)))])

LayerNorm(ln, x) ==
  Given(NormOf(x), LAMBDA m :
    Table([i \in DOMAIN x |-> ((m.c[i] (.) m.inv) (.) ln.w[i]) (+) ln.b[i]]))

LayerNormBackward(ln, dy, x) ==
  LET nf == Con(Size(x))
      through(inv, hat, dh) ==
        [x |-> Table([i \in DOMAIN x |->
                 (inv (/) nf) (.) (((nf (.) dh[i]) (-) Sum0(dh)) (-) (hat[i] (.) Dot(dh, hat)))]),
         w |-> Table([i \in DOMAIN x |-> dy[i] (.) hat[i]]),
         b |-> dy]
  IN  Given(NormOf(x), LAMBDA m :
        through(m.inv, Table([i \in DOMAIN x |-> m.c[i] (.) m.inv]), Table([i \in DOMAIN x |-> dy[i] (.) ln.w[i]])))

(***************************************************************************)
(* GELU in its tanh form; c and a stand for sqrt(2/pi) and 0.044715.       *)
(***************************************************************************)
GeluC == Con(797)
GeluA == Con(447)
GeluInner(x) == GeluC (.) (x (+) (GeluA (.) (Sq(x) (.) x)))
Gelu(x)      == (Half (.) x) (.) (One (+) Tanh(GeluInner(x)))

GeluBackward(dy, x) ==
  LET inner == GeluC (.) (One (+) ((Con(3) (.) GeluA) (.) Sq(x)))
  IN  Given(Tanh(GeluInner(x)), LAMBDA t :
        dy (.) ((Half (.) (One (+) t)) (+) (((Half (.) x) (.) (One (-) Sq(t))) (.) inner)))

(***************************************************************************)
(* A maestro: squeeze to maestro_dim, GELU, process back to n_embd.  The   *)
(* forward keeps what its reverse needs.                                   *)
(***************************************************************************)
MaestroForward(m, xs) ==
  Given(Each(xs, LAMBDA x : LinearFn(m.squeeze, x)), LAMBDA sq :
    Given(Each(sq, LAMBDA v : [i \in DOMAIN v |-> Gelu(v[i])]), LAMBDA act :
      [sq |-> sq, act |-> act, out |-> Each(act, LAMBDA v : LinearFn(m.process, v))]))

MaestroBackward(m, d, f, xs) ==      \* d: gradient of the output; f: the forward's record
  LET dSq(dAct) == Table([pos \in DOMAIN d |->
                     Table([i \in DOMAIN dAct[pos] |-> GeluBackward(dAct[pos][i], f.sq[pos][i])])])
      through(ds) == [x |-> Each(ds, LAMBDA v : LinearBackwardDx(m.squeeze.w, v)),
                      process |-> OuterProductAccum(d, f.act),
                      squeeze |-> OuterProductAccum(ds, xs)]
  IN  through(dSq(Each(d, LAMBDA v : LinearBackwardDx(m.process.w, v))))

(***************************************************************************)
(* Interleaved vectors (r0, s0, r1, s1, ...) and rows of bands.            *)
(***************************************************************************)
Bands(x)      == Table([k \in 0 .. (Size(x) \div 2) - 1 |-> <<x[2 * k], x[2 * k + 1]>>])
Interleave(z) == Table([i \in 0 .. 2 * Size(z) - 1 |-> z[i \div 2][(i % 2) + 1]])

(* The corrector plate turns band k by its learnt angle.                   *)
Turn(c, s, z)   == <<(z[1] (.) c) (-) (z[2] (.) s), (z[1] (.) s) (+) (z[2] (.) c)>>
Correct(angle, z) == Table([k \in DOMAIN z |-> Turn(Cos(angle[k]), Sin(angle[k]), z[k])])

(* The row before it: the plate is turned back.                            *)
Uncorrect(angle, z) == Table([k \in DOMAIN z |-> Turn(Cos(angle[k]), Neg(Sin(angle[k])), z[k])])

CorrectBackward(angle, d, raw) ==
  [z |-> Uncorrect(angle, d),
   angle |-> Table([k \in DOMAIN d |->
     LET bend(c, s, r, q) == (d[k][1] (.) (Neg(r (.) s) (-) (q (.) c))) (+) (d[k][2] (.) ((r (.) c) (-) (q (.) s)))
     IN  bend(Cos(angle[k]), Sin(angle[k]), raw[k][1], raw[k][2])])]

(***************************************************************************)
(* Output projection: dense, or one square block per group of channels.    *)
(* A block-diagonal projection keeps its groups; its weight gradient is    *)
(* dense all the same.                                                     *)
(***************************************************************************)
GroupSize(op) == Size(op.groups[0].w)
OutProjForward(op, x) ==
  LET gs == GroupSize(op)
  IN  Table([i \in DOMAIN x |->
        LET g == op.groups[i \div gs]
        IN  SumTo(gs, [j \in 0 .. gs - 1 |-> g.w[i % gs][j] (.) x[gs * (i \div gs) + j]]) (+) g.b[i % gs]])

OutProjBackwardDx(op, dy) ==
  LET gs == GroupSize(op)
  IN  Table([j \in DOMAIN dy |->
        LET g == op.groups[j \div gs]
        IN  SumTo(gs, [i \in 0 .. gs - 1 |-> g.w[i][j % gs] (.) dy[gs * (j \div gs) + i]])])
=============================================================================
