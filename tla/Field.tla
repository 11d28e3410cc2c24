------------------------------- MODULE Field -------------------------------
(***************************************************************************)
(* The numbers the mathematics of src/src/common/math is checked over.     *)
(*                                                                         *)
(* The code computes with f32.  What a gradient must be is an identity of  *)
(* polynomials and quotients, and an identity can be checked exactly in a  *)
(* finite field, where there is no rounding: a number is an element of     *)
(* Z/P, paired with its derivative along one chosen direction of the       *)
(* inputs and parameters (a dual number).  The code has only the first     *)
(* half; the second half is the reference that its reverse pass must       *)
(* reproduce.  Elementary functions (exp, tanh, the square root, the       *)
(* sigmoid) are arbitrary functions on Z/P: all the code's passes rely on  *)
(* is their rule of derivation.                                            *)
(***************************************************************************)
EXTENDS Integers, FiniteSets, Sequences, TLC

CONSTANT P      \* a prime of the form 4 m + 3, small enough for 2 * P * P to fit an integer

ASSUME PAssumption == P \in Nat /\ P % 4 = 3

Con(v) == <<v % P, 0>>              \* a number no direction changes
Zero   == <<0, 0>>
One    == <<1, 0>>
Two    == <<2, 0>>
Half   == <<(P + 1) \div 2, 0>>

a (+) b == <<(a[1] + b[1]) % P, (a[2] + b[2]) % P>>
a (-) b == <<(a[1] - b[1]) % P, (a[2] - b[2]) % P>>
a (.) b == <<(a[1] * b[1]) % P, (a[1] * b[2] + a[2] * b[1]) % P>>
Neg(a)  == <<(-a[1]) % P, (-a[2]) % P>>
Sq(a)   == a (.) a

(* F at the value of e: what LET would name for several uses, as a          *)
(* parameter, so that e is written and worked out in one place.             *)
Given(e, F(_)) == F(e)

(***************************************************************************)
(* v^e modulo P by halving the exponent, and the inverse v^(P-2).  The     *)
(* inverse of 0 is 0: the code never divides by what these inputs make 0.  *)
(***************************************************************************)
Power(v, e) ==
  LET p[k \in 0 .. e] == IF k = 0 THEN 1
                         ELSE LET h == p[k \div 2] IN
                              IF k % 2 = 0 THEN (h * h) % P
                                           ELSE (((h * h) % P) * v) % P
  IN  p[e]

Inverse1(v) == Power(v, P - 2)

Recip(a) == LET i == Inverse1(a[1])
            IN  <<i, (((-a[2] * i) % P) * i) % P>>

a (/) b == a (.) Recip(b)

(***************************************************************************)
(* f with derivative d, both taken at the number a.                        *)
(***************************************************************************)
Chain(f, d, a) == <<f, (d * a[2]) % P>>

(* One arbitrary, never zero function on Z/P for every tag.                *)
Opaque(tag, v) == ((((v * v) % P) * (v + tag + 3) + 7 * tag * v + 11 * tag + 5) % (P - 1)) + 1

Exp(a)     == LET e == Opaque(1, a[1]) IN Chain(e, e, a)
Sigmoid(a) == LET y == Opaque(2, a[1]) IN Chain(y, (y * ((1 - y) % P)) % P, a)
Tanh(a)    == LET y == Opaque(3, a[1]) IN Chain(y, (1 - ((y * y) % P)) % P, a)
Sqrt(a)    == LET y == Opaque(4, a[1])
              IN  Chain(y, Inverse1((2 * y) % P), a)
Softplus(a) == Chain(Opaque(5, a[1]), Opaque(2, a[1]), a)
Ln(a)      == Chain(Opaque(8, a[1]), Inverse1(a[1]), a)
Atan2(s, r) ==      \* the angle of (r, s)
  LET m == Inverse1((r[1] * r[1] + s[1] * s[1]) % P)
      q == (r[1] * s[2] - s[1] * r[2]) % P
  IN  <<Opaque(9, (r[1] + 5 * s[1]) % P), (q * m) % P>>
(* A point of the circle for every angle: P % 4 = 3, so 1 + t*t is not 0.  *)
OnCircle(t, i) == <<((((1 - t * t) % P) * i) % P), (2 * t * i) % P>>
Circle(v) == Given(Opaque(6, v), LAMBDA t : OnCircle(t, Inverse1((1 + t * t) % P)))
Cos(a)    == Given(Circle(a[1]), LAMBDA u : Chain(u[1], (-u[2]) % P, a))
Sin(a)    == Given(Circle(a[1]), LAMBDA u : Chain(u[2], u[1], a))

(* f itself, worked out once: TLC keeps an applied [x \in S |-> e] as a     *)
(* rule and evaluates e again at every application.                        *)
Table(f) == CHOOSE g \in {f} : g = f

(***************************************************************************)
(* Sums over the indices 1 .. Len(s) or over a function's domain 0 .. n-1. *)
(***************************************************************************)
Total(s) ==
  LET t[i \in 0 .. Len(s)] == IF i = 0 THEN Zero ELSE t[i - 1] (+) s[i]
  IN  t[Len(s)]

SumTo(n, f) ==      \* f[0] + ... + f[n-1]
  LET t[i \in 0 .. n] == IF i = 0 THEN Zero ELSE t[i - 1] (+) f[i - 1]
  IN  t[n]

(***************************************************************************)
(* Complex numbers <<re, im>>: a band's state is the pair (r, s).          *)
(***************************************************************************)
C0 == <<Zero, Zero>>
CAdd(x, y)   == <<x[1] (+) y[1], x[2] (+) y[2]>>
CSub(x, y)   == <<x[1] (-) y[1], x[2] (-) y[2]>>
CMul(x, y)   == <<(x[1] (.) y[1]) (-) (x[2] (.) y[2]), (x[1] (.) y[2]) (+) (x[2] (.) y[1])>>
CConj(x)     == <<x[1], Neg(x[2])>>
CScale(a, x) == <<a (.) x[1], a (.) x[2]>>
CTurn(x)     == <<Neg(x[2]), x[1]>>          \* i x
CBack(x)     == <<x[2], Neg(x[1])>>          \* -i x
CDot(x, y)   == (x[1] (.) y[1]) (+) (x[2] (.) y[2])
Mag(x)       == CDot(x, x)

CSumTo(n, f) ==
  LET t[i \in 0 .. n] == IF i = 0 THEN C0 ELSE CAdd(t[i - 1], f[i - 1])
  IN  t[n]

(* Functions into the complex numbers: a whole row of bands.               *)
ZAdd(x, y)   == [k \in DOMAIN x |-> CAdd(x[k], y[k])]
ZScale(a, x) == [k \in DOMAIN x |-> CScale(a, x[k])]

(***************************************************************************)
(* Vectors indexed from 0 as the code's slices are.                        *)
(***************************************************************************)
Vec(n, x)    == [i \in 0 .. n - 1 |-> x]
VAdd(x, y)   == [i \in DOMAIN x |-> x[i] (+) y[i]]
VScale(a, x) == [i \in DOMAIN x |-> a (.) x[i]]
Size(f)      == Cardinality(DOMAIN f)
Sum0(f)      == SumTo(Size(f), f)
Dot(x, y)    == SumTo(Size(x), [i \in DOMAIN x |-> x[i] (.) y[i]])
Grid(n, m, F(_, _)) == Table([i \in 0 .. n - 1 |-> Table([j \in 0 .. m - 1 |-> F(i, j)])])

(***************************************************************************)
(* A deterministic choice of inputs: entry i of the vector that seed and   *)
(* tag stand for, with an unrelated direction.                             *)
(***************************************************************************)
Noise(seed, tag, i) ==
  <<Opaque(13 + 17 * seed, (31 * tag + 7 * i + 3) % P),
    Opaque(29 + 19 * seed, (37 * tag + 5 * i + 2) % P)>>

(* The directional derivative a gradient g predicts for the inputs x:      *)
(* the pairing of g's values with x's directions.                          *)
Pair(g, x)      == (g[1] * x[2]) % P
PairTo(n, g, x) == LET t[i \in 0 .. n] == IF i = 0 THEN 0
                                          ELSE (t[i - 1] + Pair(g[i - 1], x[i - 1])) % P
                   IN  t[n]
=============================================================================
