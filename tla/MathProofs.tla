----------------------------- MODULE MathProofs ------------------------------
(***************************************************************************)
(* Proofs about the mathematics of the passes: Field and Kerr with their   *)
(* integration OdePass, and the layout of the parameters in ModelPass.     *)
(*                                                                         *)
(* Energy.  Numbers modulo P are a ring (value and derivative together),   *)
(* so what a quartet of bands gives to two of them it takes from the       *)
(* other two; a row is fed the sum over its quartets, for every number of  *)
(* bands.  That an integration only meets such rows is OdeIInv.            *)
(*                                                                         *)
(* Layout.  A vector is read as slices and written as concatenations.      *)
(* Parts that meet are one (PartsJoin), so each layer read is written back *)
(* as its part, then each block, then the model (ParamsPart), with lengths *)
(* computed independently of the count the program makes (CountIs).        *)
(* A file's length alone decides what it is loaded as; lengths rise with   *)
(* what is learned (ExtraRises), so the first candidate of that length is  *)
(* the file's own unless a dense one of fewer parts is as long (FirstFit). *)
(*                                                                         *)
(* Causality.  A number without a direction (Still) stays one through all  *)
(* the operations that only meet such numbers, so a passage of which the   *)
(* last position alone has a direction (Leveled) stays one through a block *)
(* whose weights have none: attention gives later positions the score zero *)
(* and the rest looks at one position at a time (CausalIInv).              *)
(***************************************************************************)
EXTENDS OdePass, ModelPass, FiniteSetTheorems, SequenceTheorems, WellFoundedInduction, TLAPS

-----------------------------------------------------------------------------
(* Field: a ring *)

\* The modulus is an odd number, at least 3.
LEMMA PIsPositive == P \in Nat /\ P >= 3
<1>1. P \in Nat /\ P % 4 = 3
  BY PAssumption
<1> QED
  BY <1>1

\* Division with remainder: quotient and remainder exist as integers.
LEMMA Divides ==
  ASSUME NEW u \in Int, NEW m0 \in Nat \ {0}
  PROVE  u % m0 \in 0 .. m0 - 1 /\ \E k \in Int : u = m0 * k + (u % m0)
<1>2. u % m0 \in 0 .. m0 - 1
  OBVIOUS
<1>3. u \div m0 \in Int
  OBVIOUS
<1>4. u = m0 * (u \div m0) + (u % m0)
  OBVIOUS
<1> DEFINE k == u \div m0
<1>5. k \in Int /\ u = m0 * k + (u % m0)
  BY <1>3, <1>4
<1> HIDE DEF k
<1> QED
  BY <1>2, <1>5

\* The remainder of a multiple plus a small number is the small number.
LEMMA ModIs ==
  ASSUME NEW m0 \in Nat \ {0}, NEW k \in Int, NEW r \in 0 .. m0 - 1
  PROVE  (m0 * k + r) % m0 = r
<1> DEFINE u == m0 * k + r
<1>2. u \in Int
  OBVIOUS
<1> HIDE DEF u
<1>3. PICK j \in Int : u = m0 * j + (u % m0)
  BY <1>2, Divides
<1> DEFINE q == u % m0
<1>4. q \in 0 .. m0 - 1
  BY <1>2, Divides
<1>5. u = m0 * j + q
  BY <1>3
<1> HIDE DEF q
<1>51. m0 * j + q = m0 * k + r
  BY <1>5 DEF u
<1>6. j <= k
  <2> SUFFICES ASSUME j >= k + 1 PROVE FALSE
    OBVIOUS
  <2>1. m0 * j >= m0 * (k + 1)
    OBVIOUS
  <2> QED
    BY <1>4, <1>51, <2>1
<1>7. k <= j
  <2> SUFFICES ASSUME k >= j + 1 PROVE FALSE
    OBVIOUS
  <2>1. m0 * k >= m0 * (j + 1)
    OBVIOUS
  <2> QED
    BY <1>4, <1>51, <2>1
<1>8. q = r
  <2>1. j = k
    BY <1>6, <1>7
  <2> QED
    BY <1>4, <1>51, <2>1
<1> QED
  BY <1>8 DEF q, u

\* Adding a multiple of the modulus keeps the remainder.
LEMMA ModSame ==
  ASSUME NEW m0 \in Nat \ {0}, NEW u \in Int, NEW k \in Int
  PROVE  (u + m0 * k) % m0 = u % m0
<1>1. PICK j \in Int : u = m0 * j + (u % m0)
  BY Divides
<1> DEFINE r == u % m0
<1>2. r \in 0 .. m0 - 1
  BY Divides
<1>3. u = m0 * j + r
  BY <1>1
<1> HIDE DEF r
<1>4. u + m0 * k = m0 * (j + k) + r
  BY <1>2, <1>3
<1>5. (m0 * (j + k) + r) % m0 = r
  BY <1>2, ModIs
<1> QED
  BY <1>4, <1>5 DEF r

\* The remainder modulo P: its range, that it is its own remainder, the quotient.
LEMMA Reduced ==
  ASSUME NEW u \in Int
  PROVE  u % P \in 0 .. P - 1 /\ u % P \in Int /\ (u % P) % P = u % P /\ \E k \in Int : u = P * k + (u % P)
<1>1. P \in Nat \ {0}
  BY PIsPositive
<1>2. u % P \in 0 .. P - 1 /\ \E k \in Int : u = P * k + (u % P)
  BY <1>1, Divides
<1> DEFINE r == u % P
<1>3. r \in 0 .. P - 1 /\ r \in Int
  BY <1>1, <1>2
<1> HIDE DEF r
<1>4. (P * 0 + r) % P = r
  BY <1>1, <1>3, ModIs
<1>5. P * 0 + r = r
  BY <1>1, <1>3
<1>6. r % P = r
  BY <1>4, <1>5
<1> QED
  BY <1>2, <1>3, <1>6 DEF r

\* Adding a multiple of P keeps the remainder modulo P.
LEMMA Shift ==
  ASSUME NEW u \in Int, NEW k \in Int
  PROVE  (u + P * k) % P = u % P
<1>1. P \in Nat \ {0}
  BY PIsPositive
<1> QED
  BY <1>1, ModSame

\* A remainder may be taken of any part of a sum of two products.
LEMMA ModCombined ==
  ASSUME NEW u \in Int, NEW a \in Int, NEW v \in Int, NEW b \in Int
  PROVE  ((u % P) * a + (v % P) * b) % P = (u * a + v * b) % P
<1>1. PICK j \in Int : u = P * j + (u % P)
  BY Reduced
<1>2. PICK k \in Int : v = P * k + (v % P)
  BY Reduced
<1> DEFINE r == u % P
           s == v % P
<1>3. r \in Int /\ s \in Int /\ P \in Int
  BY Reduced, PIsPositive
<1>4. u = P * j + r /\ v = P * k + s
  BY <1>1, <1>2
<1> HIDE DEF r, s
<1>5. u * a + v * b = (r * a + s * b) + P * (j * a + k * b)
  BY <1>3, <1>4
<1>6. r * a + s * b \in Int /\ j * a + k * b \in Int
  BY <1>3
<1> DEFINE x == r * a + s * b
           y == j * a + k * b
<1>7. (x + P * y) % P = x % P
  <2>1. x \in Int /\ y \in Int
    BY <1>6
  <2> HIDE DEF x, y
  <2> QED
    BY <2>1, Shift
<1> QED
  BY <1>5, <1>7 DEF r, s

\* A remainder may be taken of either term of a sum or difference.
LEMMA ModSum ==
  ASSUME NEW u \in Int, NEW v \in Int
  PROVE  /\ ((u % P) + v) % P = (u + v) % P
         /\ (u + (v % P)) % P = (u + v) % P
         /\ ((u % P) + (v % P)) % P = (u + v) % P
         /\ ((u % P) - v) % P = (u - v) % P
         /\ (u - (v % P)) % P = (u - v) % P
<1>1. PICK j \in Int : u = P * j + (u % P)
  BY Reduced
<1>2. PICK k \in Int : v = P * k + (v % P)
  BY Reduced
<1> DEFINE r == u % P
           s == v % P
<1>3. r \in Int /\ s \in Int /\ P \in Int
  BY Reduced, PIsPositive
<1>4. u = P * j + r /\ v = P * k + s
  BY <1>1, <1>2
<1> HIDE DEF r, s
<1>5. (r + v) % P = (u + v) % P
  <2>1. u + v = (r + v) + P * j
    BY <1>3, <1>4
  <2>2. ((r + v) + P * j) % P = (r + v) % P
    <3> DEFINE x == r + v
               i0 == j
    <3>1. x \in Int /\ i0 \in Int
      BY <1>3
    <3> HIDE DEF x, i0
    <3>2. (x + P * i0) % P = x % P
      BY <3>1, Shift
    <3> QED
      BY <3>2 DEF x, i0
  <2> QED
    BY <2>1, <2>2
<1>6. (u + s) % P = (u + v) % P
  <2>1. u + v = (u + s) + P * k
    BY <1>3, <1>4
  <2>2. ((u + s) + P * k) % P = (u + s) % P
    <3> DEFINE x == u + s
               i0 == k
    <3>1. x \in Int /\ i0 \in Int
      BY <1>3
    <3> HIDE DEF x, i0
    <3>2. (x + P * i0) % P = x % P
      BY <3>1, Shift
    <3> QED
      BY <3>2 DEF x, i0
  <2> QED
    BY <2>1, <2>2
<1>7. (r + s) % P = (u + v) % P
  <2>1. u + v = (r + s) + P * (j + k)
    BY <1>3, <1>4
  <2>2. ((r + s) + P * (j + k)) % P = (r + s) % P
    <3> DEFINE x == r + s
               i0 == (j + k)
    <3>1. x \in Int /\ i0 \in Int
      BY <1>3
    <3> HIDE DEF x, i0
    <3>2. (x + P * i0) % P = x % P
      BY <3>1, Shift
    <3> QED
      BY <3>2 DEF x, i0
  <2> QED
    BY <2>1, <2>2
<1>8. (r - v) % P = (u - v) % P
  <2>1. u - v = (r - v) + P * j
    BY <1>3, <1>4
  <2>2. ((r - v) + P * j) % P = (r - v) % P
    <3> DEFINE x == r - v
               i0 == j
    <3>1. x \in Int /\ i0 \in Int
      BY <1>3
    <3> HIDE DEF x, i0
    <3>2. (x + P * i0) % P = x % P
      BY <3>1, Shift
    <3> QED
      BY <3>2 DEF x, i0
  <2> QED
    BY <2>1, <2>2
<1>9. (u - s) % P = (u - v) % P
  <2>1. u - v = (u - s) + P * (- k)
    BY <1>3, <1>4
  <2>2. ((u - s) + P * (- k)) % P = (u - s) % P
    <3> DEFINE x == u - s
               i0 == (- k)
    <3>1. x \in Int /\ i0 \in Int
      BY <1>3
    <3> HIDE DEF x, i0
    <3>2. (x + P * i0) % P = x % P
      BY <3>1, Shift
    <3> QED
      BY <3>2 DEF x, i0
  <2> QED
    BY <2>1, <2>2
<1> QED
  BY <1>5, <1>6, <1>7, <1>8, <1>9 DEF r, s

\* A remainder may be taken of either factor.
LEMMA ModProduct ==
  ASSUME NEW u \in Int, NEW v \in Int
  PROVE  ((u % P) * v) % P = (u * v) % P /\ (u * (v % P)) % P = (u * v) % P
<1>1. ASSUME NEW x \in Int, NEW y \in Int PROVE ((x % P) * y) % P = (x * y) % P
  <2>1. ((x % P) * y + (0 % P) * 0) % P = (x * y + 0 * 0) % P
    BY ModCombined
  <2>2. x % P \in Int /\ 0 % P \in Int
    BY Reduced
  <2> DEFINE r == x % P
             o == 0 % P
  <2>3. r * y + o * 0 = r * y /\ x * y + 0 * 0 = x * y
    <3> HIDE DEF r, o
    <3> QED
      BY <2>2 DEF r, o
  <2> QED
    BY <2>1, <2>3
<1>2. u % P \in Int /\ v % P \in Int
  BY Reduced
<1>3. u * (v % P) = (v % P) * u /\ u * v = v * u
  <2> DEFINE s == v % P
  <2> HIDE DEF s
  <2> QED
    BY <1>2 DEF s
<1> QED
  BY <1>1, <1>3

\* A value and its derivative, both remainders.
Number == (0 .. P - 1) \X (0 .. P - 1)

\* A number is the pair of its value and its derivative.
LEMMA NumberParts ==
  ASSUME NEW x \in Number
  PROVE  x = <<x[1], x[2]>> /\ x[1] \in 0 .. P - 1 /\ x[2] \in 0 .. P - 1 /\ x[1] \in Int /\ x[2] \in Int
<1>1. P \in Nat
  BY PIsPositive
<1> QED
  BY <1>1 DEF Number

\* A pair of remainders is a number.
LEMMA Remainders ==
  ASSUME NEW u \in Int, NEW v \in Int
  PROVE  <<u % P, v % P>> \in Number
BY Reduced DEF Number

\* The four operations of Field give numbers.
LEMMA NumberOps ==
  ASSUME NEW x \in Number, NEW y \in Number
  PROVE  x (+) y \in Number /\ x (-) y \in Number /\ x (.) y \in Number /\ Neg(x) \in Number
<1>1. x[1] \in Int /\ x[2] \in Int /\ y[1] \in Int /\ y[2] \in Int
  BY NumberParts
<1>2. /\ x[1] + y[1] \in Int /\ x[2] + y[2] \in Int /\ x[1] - y[1] \in Int /\ x[2] - y[2] \in Int
      /\ x[1] * y[1] \in Int /\ x[1] * y[2] + x[2] * y[1] \in Int /\ -x[1] \in Int /\ -x[2] \in Int
  BY <1>1
<1> QED
  BY <1>2, Remainders DEF (+), (-), (.), Neg

\* The constants of Field are numbers.
LEMMA Constants01 == Zero \in Number /\ One \in Number /\ Two \in Number /\ Half \in Number
<1>1. P \in Nat /\ P >= 3
  BY PIsPositive
<1>2. (P + 1) \div 2 \in 0 .. P - 1
  BY <1>1
<1> QED
  BY <1>1, <1>2 DEF Number, Zero, One, Two, Half

\* Addition: commutative, associative, with zero and opposites.
LEMMA AddRing ==
  ASSUME NEW x \in Number, NEW y \in Number, NEW z0 \in Number
  PROVE  /\ x (+) y = y (+) x
         /\ (x (+) y) (+) z0 = x (+) (y (+) z0)
         /\ x (+) Zero = x
         /\ x (+) Neg(x) = Zero
         /\ x (-) y = x (+) Neg(y)
<1>1. /\ x = <<x[1], x[2]>> /\ x[1] \in 0 .. P - 1 /\ x[2] \in 0 .. P - 1
      /\ x[1] \in Int /\ x[2] \in Int /\ y[1] \in Int /\ y[2] \in Int /\ z0[1] \in Int /\ z0[2] \in Int
  BY NumberParts
<1>2. P \in Nat \ {0}
  BY PIsPositive
<1>3. ASSUME NEW a \in Int, NEW b \in Int, NEW c \in Int
      PROVE  (((a + b) % P) + c) % P = (a + ((b + c) % P)) % P
  <2>1. a + b \in Int /\ b + c \in Int
    OBVIOUS
  <2>2. (((a + b) % P) + c) % P = ((a + b) + c) % P
    BY <2>1, ModSum
  <2>3. (a + ((b + c) % P)) % P = (a + (b + c)) % P
    BY <2>1, ModSum
  <2>4. (a + b) + c = a + (b + c)
    OBVIOUS
  <2> QED
    BY <2>2, <2>3, <2>4
<1>4. x (+) y = y (+) x
  <2>1. x[1] + y[1] = y[1] + x[1] /\ x[2] + y[2] = y[2] + x[2]
    BY <1>1
  <2> QED
    BY <2>1 DEF (+)
<1>5. (x (+) y) (+) z0 = x (+) (y (+) z0)
  BY <1>1, <1>3 DEF (+)
<1>6. ASSUME NEW a \in 0 .. P - 1 PROVE (a + 0) % P = a
  <2>1. a \in Int /\ a + 0 = a /\ P * 0 + a = a
    BY <1>2
  <2>2. (P * 0 + a) % P = a
    BY <1>2, ModIs
  <2> QED
    BY <2>1, <2>2
<1>7. x (+) Zero = x
  <2>1. Zero[1] = 0 /\ Zero[2] = 0
    BY DEF Zero
  <2> QED
    BY <1>1, <1>6, <2>1 DEF (+)
<1>8. ASSUME NEW a \in Int, NEW b \in Int PROVE (a + ((-b) % P)) % P = (a - b) % P
  <2>1. -b \in Int
    OBVIOUS
  <2>2. (a + ((-b) % P)) % P = (a + (-b)) % P
    BY <2>1, ModSum
  <2>3. a + (-b) = a - b
    OBVIOUS
  <2> QED
    BY <2>2, <2>3
<1>9. 0 % P = 0
  <2>1. 0 \in 0 .. P - 1
    BY <1>2
  <2> QED
    BY <2>1, <1>6
<1>10. x (+) Neg(x) = Zero
  <2>1. (x[1] - x[1]) % P = 0 /\ (x[2] - x[2]) % P = 0
    BY <1>1, <1>9
  <2> QED
    BY <1>1, <1>8, <2>1 DEF (+), Neg, Zero
<1>11. x (-) y = x (+) Neg(y)
  BY <1>1, <1>8 DEF (+), (-), Neg
<1> QED
  BY <1>4, <1>5, <1>7, <1>10, <1>11

\* Multiplication: commutative, associative, distributive, with one.
LEMMA MulRing ==
  ASSUME NEW x \in Number, NEW y \in Number, NEW z0 \in Number
  PROVE  /\ x (.) y = y (.) x
         /\ (x (.) y) (.) z0 = x (.) (y (.) z0)
         /\ x (.) (y (+) z0) = (x (.) y) (+) (x (.) z0)
         /\ x (.) One = x
         /\ x (.) Zero = Zero
         /\ x (.) Neg(y) = Neg(x (.) y)
<1>1. /\ x = <<x[1], x[2]>> /\ x[1] \in 0 .. P - 1 /\ x[2] \in 0 .. P - 1
      /\ x[1] \in Int /\ x[2] \in Int /\ y[1] \in Int /\ y[2] \in Int /\ z0[1] \in Int /\ z0[2] \in Int
  BY NumberParts
<1>2. P \in Nat \ {0}
  BY PIsPositive
<1>3. ASSUME NEW a \in 0 .. P - 1 PROVE a % P = a
  <2>1. a \in Int /\ P * 0 + a = a
    BY <1>2
  <2>2. (P * 0 + a) % P = a
    BY <1>2, ModIs
  <2> QED
    BY <2>1, <2>2
<1>4. 0 % P = 0
  <2>1. 0 \in 0 .. P - 1
    BY <1>2
  <2> QED
    BY <2>1, <1>3
<1>5. x (.) y = y (.) x
  <2>1. x[1] * y[1] = y[1] * x[1] /\ x[1] * y[2] + x[2] * y[1] = y[1] * x[2] + y[2] * x[1]
    BY <1>1
  <2> QED
    BY <2>1 DEF (.)
<1>6. (x (.) y) (.) z0 = x (.) (y (.) z0)
  <2>1. ASSUME NEW a \in Int, NEW b \in Int, NEW c \in Int
        PROVE  (((a * b) % P) * c) % P = (a * ((b * c) % P)) % P
    <3>1. a * b \in Int /\ b * c \in Int
      OBVIOUS
    <3>2. (((a * b) % P) * c) % P = ((a * b) * c) % P /\ (a * ((b * c) % P)) % P = (a * (b * c)) % P
      BY <3>1, ModProduct
    <3>3. (a * b) * c = a * (b * c)
      OBVIOUS
    <3> QED
      BY <3>2, <3>3
  <2> DEFINE a1 == x[1]  a2 == x[2]  b1 == y[1]  b2 == y[2]  c1 == z0[1]  c2 == z0[2]
  <2>0. a1 \in Int /\ a2 \in Int /\ b1 \in Int /\ b2 \in Int /\ c1 \in Int /\ c2 \in Int
    BY <1>1
  <2> HIDE DEF a1, a2, b1, b2, c1, c2
  <2>2. (((a1 * b1) % P) * c2 + ((a1 * b2 + a2 * b1) % P) * c1) % P
          = (a1 * ((b1 * c2 + b2 * c1) % P) + a2 * ((b1 * c1) % P)) % P
    <3> DEFINE m0 == (b1 * c2 + b2 * c1) % P
               k == (b1 * c1) % P
    <3>1. a1 * b1 \in Int /\ a1 * b2 + a2 * b1 \in Int /\ b1 * c2 + b2 * c1 \in Int /\ b1 * c1 \in Int
      BY <2>0
    <3>2. (((a1 * b1) % P) * c2 + ((a1 * b2 + a2 * b1) % P) * c1) % P
            = ((a1 * b1) * c2 + (a1 * b2 + a2 * b1) * c1) % P
      BY <2>0, <3>1, ModCombined
    <3>3. (m0 * a1 + k * a2) % P = ((b1 * c2 + b2 * c1) * a1 + (b1 * c1) * a2) % P
      BY <2>0, <3>1, ModCombined
    <3>4. m0 \in Int /\ k \in Int
      BY <3>1, Reduced
    <3>5. a1 * m0 + a2 * k = m0 * a1 + k * a2
      <4> HIDE DEF m0, k
      <4> QED
        BY <2>0, <3>4
    <3>6. (a1 * b1) * c2 + (a1 * b2 + a2 * b1) * c1 = (b1 * c2 + b2 * c1) * a1 + (b1 * c1) * a2
      BY <2>0
    <3> QED
      BY <3>2, <3>3, <3>5, <3>6
  <2>3. (((x[1] * y[1]) % P) * z0[1]) % P = (x[1] * ((y[1] * z0[1]) % P)) % P
    BY <1>1, <2>1
  <2>4. (((x[1] * y[1]) % P) * z0[2] + ((x[1] * y[2] + x[2] * y[1]) % P) * z0[1]) % P
          = (x[1] * ((y[1] * z0[2] + y[2] * z0[1]) % P) + x[2] * ((y[1] * z0[1]) % P)) % P
    BY <2>2 DEF a1, a2, b1, b2, c1, c2
  <2> QED
    BY <2>3, <2>4 DEF (.)
<1>7. x (.) (y (+) z0) = (x (.) y) (+) (x (.) z0)
  <2>1. ASSUME NEW a \in Int, NEW b \in Int, NEW c \in Int
        PROVE  (a * ((b + c) % P)) % P = (((a * b) % P) + ((a * c) % P)) % P
    <3>1. b + c \in Int /\ a * b \in Int /\ a * c \in Int
      OBVIOUS
    <3>2. (a * ((b + c) % P)) % P = (a * (b + c)) % P
      BY <3>1, ModProduct
    <3>3. (((a * b) % P) + ((a * c) % P)) % P = (a * b + a * c) % P
      BY <3>1, ModSum
    <3>4. a * (b + c) = a * b + a * c
      OBVIOUS
    <3> QED
      BY <3>2, <3>3, <3>4
  <2> DEFINE a1 == x[1]  a2 == x[2]  b1 == y[1]  b2 == y[2]  c1 == z0[1]  c2 == z0[2]
  <2>0. a1 \in Int /\ a2 \in Int /\ b1 \in Int /\ b2 \in Int /\ c1 \in Int /\ c2 \in Int
    BY <1>1
  <2> HIDE DEF a1, a2, b1, b2, c1, c2
  <2>2. (a1 * ((b2 + c2) % P) + a2 * ((b1 + c1) % P)) % P
          = (((a1 * b2 + a2 * b1) % P) + ((a1 * c2 + a2 * c1) % P)) % P
    <3> DEFINE m0 == (b2 + c2) % P
               k == (b1 + c1) % P
    <3>1. b2 + c2 \in Int /\ b1 + c1 \in Int /\ a1 * b2 + a2 * b1 \in Int /\ a1 * c2 + a2 * c1 \in Int
      BY <2>0
    <3>2. (m0 * a1 + k * a2) % P = ((b2 + c2) * a1 + (b1 + c1) * a2) % P
      BY <2>0, <3>1, ModCombined
    <3>3. (((a1 * b2 + a2 * b1) % P) + ((a1 * c2 + a2 * c1) % P)) % P
            = ((a1 * b2 + a2 * b1) + (a1 * c2 + a2 * c1)) % P
      BY <2>0, <3>1, ModSum
    <3>4. m0 \in Int /\ k \in Int
      BY <3>1, Reduced
    <3>5. a1 * m0 + a2 * k = m0 * a1 + k * a2
      <4> HIDE DEF m0, k
      <4> QED
        BY <2>0, <3>4
    <3>6. (b2 + c2) * a1 + (b1 + c1) * a2 = (a1 * b2 + a2 * b1) + (a1 * c2 + a2 * c1)
      BY <2>0
    <3> QED
      BY <3>2, <3>3, <3>5, <3>6
  <2>3. (x[1] * ((y[1] + z0[1]) % P)) % P = (((x[1] * y[1]) % P) + ((x[1] * z0[1]) % P)) % P
    BY <1>1, <2>1
  <2>4. (x[1] * ((y[2] + z0[2]) % P) + x[2] * ((y[1] + z0[1]) % P)) % P
          = (((x[1] * y[2] + x[2] * y[1]) % P) + ((x[1] * z0[2] + x[2] * z0[1]) % P)) % P
    BY <2>2 DEF a1, a2, b1, b2, c1, c2
  <2> QED
    BY <2>3, <2>4 DEF (.), (+)
<1>8. x (.) One = x
  <2>1. x[1] * 1 = x[1] /\ x[1] * 0 + x[2] * 1 = x[2]
    BY <1>1
  <2>2. x[1] % P = x[1] /\ x[2] % P = x[2]
    BY <1>1, <1>3
  <2>3. One[1] = 1 /\ One[2] = 0
    BY DEF One
  <2> QED
    BY <1>1, <2>1, <2>2, <2>3 DEF (.)
<1>9. x (.) Zero = Zero
  <2>1. x[1] * 0 = 0 /\ x[1] * 0 + x[2] * 0 = 0
    BY <1>1
  <2>2. Zero[1] = 0 /\ Zero[2] = 0
    BY DEF Zero
  <2>3. x (.) Zero = <<0 % P, 0 % P>>
    BY <2>1, <2>2 DEF (.)
  <2> QED
    BY <1>4, <2>3 DEF Zero
<1>10. x (.) Neg(y) = Neg(x (.) y)
  <2>1. ASSUME NEW a \in Int, NEW b \in Int
        PROVE  (a * ((-b) % P)) % P = (-((a * b) % P)) % P
    <3>1. a * b \in Int /\ -b \in Int /\ 0 \in Int
      OBVIOUS
    <3>2. (a * ((-b) % P)) % P = (a * (-b)) % P
      BY <3>1, ModProduct
    <3>3. (0 - ((a * b) % P)) % P = (0 - (a * b)) % P
      BY <3>1, ModSum
    <3>4. a * (-b) = 0 - (a * b)
      OBVIOUS
    <3>5. (a * b) % P \in Int
      BY <3>1, Reduced
    <3>6. 0 - ((a * b) % P) = -((a * b) % P)
      BY <3>5
    <3> QED
      BY <3>2, <3>3, <3>4, <3>6
  <2>2. ASSUME NEW a1 \in Int, NEW a2 \in Int, NEW b1 \in Int, NEW b2 \in Int
        PROVE  (a1 * ((-b2) % P) + a2 * ((-b1) % P)) % P = (-((a1 * b2 + a2 * b1) % P)) % P
    <3> DEFINE m0 == (-b2) % P
               k == (-b1) % P
               n == (a1 * b2 + a2 * b1) % P
    <3>1. -b2 \in Int /\ -b1 \in Int /\ a1 * b2 + a2 * b1 \in Int /\ 0 \in Int
      OBVIOUS
    <3>2. (m0 * a1 + k * a2) % P = ((-b2) * a1 + (-b1) * a2) % P
      BY <3>1, ModCombined
    <3>3. (0 - n) % P = (0 - (a1 * b2 + a2 * b1)) % P
      BY <3>1, ModSum
    <3>4. m0 \in Int /\ k \in Int /\ n \in Int
      BY <3>1, Reduced
    <3>5. a1 * m0 + a2 * k = m0 * a1 + k * a2 /\ 0 - n = -n
      <4> HIDE DEF m0, k, n
      <4> QED
        BY <3>4
    <3>6. (-b2) * a1 + (-b1) * a2 = 0 - (a1 * b2 + a2 * b1)
      OBVIOUS
    <3> QED
      BY <3>2, <3>3, <3>5, <3>6
  <2> QED
    BY <1>1, <2>1, <2>2 DEF (.), Neg
<1> QED
  BY <1>5, <1>6, <1>7, <1>8, <1>9, <1>10

\* Four summands, the middle two changed about.
LEMMA Swap ==
  ASSUME NEW a \in Number, NEW b \in Number, NEW c \in Number, NEW d0 \in Number
  PROVE  (a (+) b) (+) (c (+) d0) = (a (+) c) (+) (b (+) d0)
<1>1. a (+) b \in Number /\ b (+) c \in Number /\ c (+) d0 \in Number /\ a (+) c \in Number /\ b (+) d0 \in Number /\ c (+) b \in Number
  BY NumberOps
<1>2. (a (+) b) (+) (c (+) d0) = a (+) (b (+) (c (+) d0))
  BY <1>1, AddRing
<1>3. b (+) (c (+) d0) = (b (+) c) (+) d0
  BY <1>1, AddRing
<1>4. b (+) c = c (+) b
  BY AddRing
<1>5. (c (+) b) (+) d0 = c (+) (b (+) d0)
  BY <1>1, AddRing
<1>6. a (+) (c (+) (b (+) d0)) = (a (+) c) (+) (b (+) d0)
  BY <1>1, AddRing
<1> QED
  BY <1>2, <1>3, <1>4, <1>5, <1>6

\* What is added to give zero is the opposite.
LEMMA Opposite ==
  ASSUME NEW a \in Number, NEW b \in Number, a (+) b = Zero
  PROVE  b = Neg(a)
<1>1. Neg(a) \in Number /\ Zero \in Number /\ a (+) b \in Number
  BY NumberOps, Constants01
<1>2. b = b (+) (a (+) Neg(a))
  BY AddRing
<1>3. b (+) (a (+) Neg(a)) = (b (+) a) (+) Neg(a)
  BY <1>1, AddRing
<1>4. b (+) a = Zero
  BY AddRing
<1>5. Zero (+) Neg(a) = Neg(a)
  BY <1>1, AddRing
<1> QED
  BY <1>2, <1>3, <1>4, <1>5

\* The rules for signs.
LEMMA Signs ==
  ASSUME NEW a \in Number, NEW b \in Number
  PROVE  /\ Neg(a (+) b) = Neg(a) (+) Neg(b)
         /\ Neg(Neg(a)) = a
         /\ Neg(Zero) = Zero
         /\ Neg(a) (.) b = Neg(a (.) b)
         /\ Neg(a (-) b) = b (-) a
<1>1. Neg(a) \in Number /\ Neg(b) \in Number /\ a (+) b \in Number /\ Neg(a) (+) Neg(b) \in Number /\ Zero \in Number
  BY NumberOps, Constants01
<1>2. Neg(a (+) b) = Neg(a) (+) Neg(b)
  <2>1. (a (+) b) (+) (Neg(a) (+) Neg(b)) = (a (+) Neg(a)) (+) (b (+) Neg(b))
    BY <1>1, Swap
  <2>2. a (+) Neg(a) = Zero /\ b (+) Neg(b) = Zero /\ Zero (+) Zero = Zero
    BY <1>1, AddRing
  <2> QED
    BY <1>1, <2>1, <2>2, Opposite
<1>3. Neg(Neg(a)) = a
  <2>1. Neg(a) (+) a = Zero
    BY <1>1, AddRing
  <2> QED
    BY <1>1, <2>1, Opposite
<1>4. Neg(Zero) = Zero
  <2>1. Zero (+) Zero = Zero
    BY <1>1, AddRing
  <2> QED
    BY <1>1, <2>1, Opposite
<1>5. Neg(a) (.) b = Neg(a (.) b)
  <2>1. Neg(a) (.) b = b (.) Neg(a) /\ b (.) Neg(a) = Neg(b (.) a) /\ b (.) a = a (.) b
    BY <1>1, MulRing
  <2> QED
    BY <2>1
<1>6. Neg(a (-) b) = b (-) a
  <2>1. a (-) b = a (+) Neg(b) /\ b (-) a = b (+) Neg(a) /\ b (+) Neg(a) = Neg(a) (+) b
    BY <1>1, AddRing
  <2>2. Neg(a (+) Neg(b)) = Neg(a) (+) b
    <3>1. Neg(a (+) Neg(b)) = Neg(a) (+) Neg(Neg(b))
      <4>1. (a (+) Neg(b)) (+) (Neg(a) (+) Neg(Neg(b))) = (a (+) Neg(a)) (+) (Neg(b) (+) Neg(Neg(b)))
        BY <1>1, NumberOps, Swap
      <4>2. a (+) Neg(a) = Zero /\ Neg(b) (+) Neg(Neg(b)) = Zero /\ Zero (+) Zero = Zero
        BY <1>1, AddRing
      <4>3. a (+) Neg(b) \in Number /\ Neg(a) (+) Neg(Neg(b)) \in Number
        BY <1>1, NumberOps
      <4> QED
        BY <4>1, <4>2, <4>3, Opposite
    <3>2. Neg(b) (+) b = Zero
      BY <1>1, AddRing
    <3>3. b = Neg(Neg(b))
      BY <1>1, <3>2, Opposite
    <3> QED
      BY <3>1, <3>3
  <2> QED
    BY <2>1, <2>2
<1> QED
  BY <1>2, <1>3, <1>4, <1>5, <1>6

-----------------------------------------------------------------------------
(* Complex numbers *)

\* A real and an imaginary part.
Complex == Number \X Number

\* A complex number is the pair of its parts.
LEMMA ComplexParts ==
  ASSUME NEW x \in Complex
  PROVE  x = <<x[1], x[2]>> /\ x[1] \in Number /\ x[2] \in Number
BY DEF Complex

\* The operations on complex numbers give complex numbers, products and magnitudes numbers.
LEMMA ComplexOps ==
  ASSUME NEW x \in Complex, NEW y \in Complex, NEW s \in Number
  PROVE  /\ CAdd(x, y) \in Complex /\ CMul(x, y) \in Complex /\ CConj(x) \in Complex /\ CScale(s, x) \in Complex
         /\ CTurn(x) \in Complex /\ CBack(x) \in Complex /\ C0 \in Complex /\ CDot(x, y) \in Number /\ Mag(x) \in Number
<1>1. x[1] \in Number /\ x[2] \in Number /\ y[1] \in Number /\ y[2] \in Number
  BY ComplexParts
<1>2. CAdd(x, y) \in Complex
  BY <1>1, NumberOps DEF CAdd, Complex
<1>3. CMul(x, y) \in Complex
  <2>1. x[1] (.) y[1] \in Number /\ x[2] (.) y[2] \in Number /\ x[1] (.) y[2] \in Number /\ x[2] (.) y[1] \in Number
    BY <1>1, NumberOps
  <2> QED
    BY <2>1, NumberOps DEF CMul, Complex
<1>4. CConj(x) \in Complex /\ CTurn(x) \in Complex /\ CBack(x) \in Complex
  BY <1>1, NumberOps DEF CConj, CTurn, CBack, Complex
<1>5. CScale(s, x) \in Complex
  BY <1>1, NumberOps DEF CScale, Complex
<1>6. C0 \in Complex
  BY Constants01 DEF C0, Complex
<1>7. CDot(x, y) \in Number /\ CDot(x, x) \in Number
  <2>1. x[1] (.) y[1] \in Number /\ x[2] (.) y[2] \in Number /\ x[1] (.) x[1] \in Number /\ x[2] (.) x[2] \in Number
    BY <1>1, NumberOps
  <2> QED
    BY <2>1, NumberOps DEF CDot
<1> QED
  BY <1>2, <1>3, <1>4, <1>5, <1>6, <1>7 DEF Mag

\* Re(conj(x) y) is additive in y.
LEMMA DotAdds ==
  ASSUME NEW x \in Complex, NEW y \in Complex, NEW z0 \in Complex
  PROVE  CDot(x, CAdd(y, z0)) = CDot(x, y) (+) CDot(x, z0)
<1>1. x[1] \in Number /\ x[2] \in Number /\ y[1] \in Number /\ y[2] \in Number /\ z0[1] \in Number /\ z0[2] \in Number
  BY ComplexParts
<1>2. CAdd(y, z0)[1] = y[1] (+) z0[1] /\ CAdd(y, z0)[2] = y[2] (+) z0[2]
  BY DEF CAdd
<1>3. /\ x[1] (.) (y[1] (+) z0[1]) = (x[1] (.) y[1]) (+) (x[1] (.) z0[1])
      /\ x[2] (.) (y[2] (+) z0[2]) = (x[2] (.) y[2]) (+) (x[2] (.) z0[2])
  BY <1>1, MulRing
<1>4. x[1] (.) y[1] \in Number /\ x[1] (.) z0[1] \in Number /\ x[2] (.) y[2] \in Number /\ x[2] (.) z0[2] \in Number
  BY <1>1, NumberOps
<1>5. ((x[1] (.) y[1]) (+) (x[1] (.) z0[1])) (+) ((x[2] (.) y[2]) (+) (x[2] (.) z0[2]))
        = ((x[1] (.) y[1]) (+) (x[2] (.) y[2])) (+) ((x[1] (.) z0[1]) (+) (x[2] (.) z0[2]))
  BY <1>4, Swap
<1> QED
  BY <1>2, <1>3, <1>5 DEF CDot

\* Im(conj(x) y): the energy -i y feeds into x.
Cross(x, y) == (x[1] (.) y[2]) (-) (x[2] (.) y[1])

\* The energy a flow along -i y feeds into x, and that it is antisymmetric.
LEMMA CrossFlows ==
  ASSUME NEW x \in Complex, NEW y \in Complex, NEW s \in Number
  PROVE  /\ Cross(x, y) \in Number
         /\ CDot(x, CScale(s, CBack(y))) = s (.) Cross(x, y)
         /\ Cross(y, x) = Neg(Cross(x, y))
<1>1. x[1] \in Number /\ x[2] \in Number /\ y[1] \in Number /\ y[2] \in Number
  BY ComplexParts
<1> DEFINE p1 == x[1] (.) y[2]
           q1 == x[2] (.) y[1]
<1>2. p1 \in Number /\ q1 \in Number /\ Neg(q1) \in Number /\ Neg(y[1]) \in Number
  BY <1>1, NumberOps
<1>3. Cross(x, y) = p1 (-) q1
  BY DEF Cross
<1>4. p1 (-) q1 \in Number
  BY <1>2, NumberOps
<1>5. Cross(y, x) = Neg(Cross(x, y))
  <2>1. y[1] (.) x[2] = q1 /\ y[2] (.) x[1] = p1
    BY <1>1, MulRing
  <2>2. Cross(y, x) = q1 (-) p1
    BY <2>1 DEF Cross
  <2> HIDE DEF p1, q1
  <2>3. Neg(p1 (-) q1) = q1 (-) p1
    BY <1>2, Signs
  <2> QED
    BY <1>3, <2>2, <2>3
<1>6. CDot(x, CScale(s, CBack(y))) = s (.) Cross(x, y)
  <2>1. CDot(x, CScale(s, CBack(y))) = (x[1] (.) (s (.) y[2])) (+) (x[2] (.) (s (.) Neg(y[1])))
    BY DEF CDot, CScale, CBack
  <2>2. ASSUME NEW a \in Number, NEW b \in Number PROVE a (.) (s (.) b) = s (.) (a (.) b)
    <3>1. a (.) (s (.) b) = (a (.) s) (.) b /\ a (.) s = s (.) a /\ (s (.) a) (.) b = s (.) (a (.) b)
      BY MulRing
    <3> QED
      BY <3>1
  <2>3. x[1] (.) (s (.) y[2]) = s (.) p1 /\ x[2] (.) (s (.) Neg(y[1])) = s (.) (x[2] (.) Neg(y[1]))
    BY <1>1, <1>2, <2>2
  <2>4. x[2] (.) Neg(y[1]) = Neg(q1)
    BY <1>1, MulRing
  <2> HIDE DEF p1, q1
  <2>5. (s (.) p1) (+) (s (.) Neg(q1)) = s (.) (p1 (+) Neg(q1))
    BY <1>2, MulRing
  <2>6. p1 (+) Neg(q1) = p1 (-) q1
    BY <1>2, AddRing
  <2> QED
    BY <1>3, <2>1, <2>3, <2>4, <2>5, <2>6
<1> QED
  BY <1>3, <1>4, <1>5, <1>6

\* Complex multiplication is commutative.
LEMMA ComplexCommutes ==
  ASSUME NEW x \in Complex, NEW y \in Complex
  PROVE  CMul(x, y) = CMul(y, x)
<1>1. x[1] \in Number /\ x[2] \in Number /\ y[1] \in Number /\ y[2] \in Number
  BY ComplexParts
<1>2. /\ x[1] (.) y[1] = y[1] (.) x[1] /\ x[2] (.) y[2] = y[2] (.) x[2]
      /\ x[1] (.) y[2] = y[2] (.) x[1] /\ x[2] (.) y[1] = y[1] (.) x[2]
  BY <1>1, MulRing
<1>3. x[1] (.) y[2] \in Number /\ x[2] (.) y[1] \in Number
  BY <1>1, NumberOps
<1>4. (x[1] (.) y[2]) (+) (x[2] (.) y[1]) = (x[2] (.) y[1]) (+) (x[1] (.) y[2])
  BY <1>3, AddRing
<1> QED
  BY <1>2, <1>4 DEF CMul

\* Im(conj(x) conj(y) m) = Im(conj(x y) m).
LEMMA CrossMoves ==
  ASSUME NEW x \in Complex, NEW y \in Complex, NEW m0 \in Complex
  PROVE  Cross(x, CMul(CConj(y), m0)) = Cross(CMul(x, y), m0)
<1> DEFINE x1 == x[1]  x2 == x[2]  y1 == y[1]  y2 == y[2]  n1 == m0[1]  n2 == m0[2]
<1>1. x1 \in Number /\ x2 \in Number /\ y1 \in Number /\ y2 \in Number /\ n1 \in Number /\ n2 \in Number
  BY ComplexParts
<1>2. Cross(x, CMul(CConj(y), m0))
        = (x1 (.) ((y1 (.) n2) (+) (Neg(y2) (.) n1))) (-) (x2 (.) ((y1 (.) n1) (-) (Neg(y2) (.) n2)))
  BY DEF Cross, CMul, CConj
<1>3. Cross(CMul(x, y), m0)
        = (((x1 (.) y1) (-) (x2 (.) y2)) (.) n2) (-) (((x1 (.) y2) (+) (x2 (.) y1)) (.) n1)
  BY DEF Cross, CMul
<1> HIDE DEF x1, x2, y1, y2, n1, n2
<1> DEFINE A == x1 (.) (y1 (.) n2)
           B == x2 (.) (y2 (.) n2)
           C == x1 (.) (y2 (.) n1)
           D == x2 (.) (y1 (.) n1)
<1>4. /\ y1 (.) n2 \in Number /\ y2 (.) n1 \in Number /\ y1 (.) n1 \in Number /\ y2 (.) n2 \in Number
      /\ x1 (.) y1 \in Number /\ x2 (.) y2 \in Number /\ x1 (.) y2 \in Number /\ x2 (.) y1 \in Number
      /\ Neg(y2 (.) n1) \in Number /\ Neg(y2 (.) n2) \in Number /\ Neg(x2 (.) y2) \in Number
  BY <1>1, NumberOps
<1>5. A \in Number /\ B \in Number /\ C \in Number /\ D \in Number
  BY <1>1, <1>4, NumberOps
<1>6. x1 (.) ((y1 (.) n2) (+) (Neg(y2) (.) n1)) = A (+) Neg(C)
  <2>1. Neg(y2) (.) n1 = Neg(y2 (.) n1)
    BY <1>1, Signs
  <2>2. x1 (.) ((y1 (.) n2) (+) Neg(y2 (.) n1)) = A (+) (x1 (.) Neg(y2 (.) n1))
    BY <1>1, <1>4, MulRing
  <2>3. x1 (.) Neg(y2 (.) n1) = Neg(C)
    BY <1>1, <1>4, MulRing
  <2> QED
    BY <2>1, <2>2, <2>3
<1>7. x2 (.) ((y1 (.) n1) (-) (Neg(y2) (.) n2)) = D (+) B
  <2>1. Neg(y2) (.) n2 = Neg(y2 (.) n2)
    BY <1>1, Signs
  <2>2. (y1 (.) n1) (-) Neg(y2 (.) n2) = (y1 (.) n1) (+) Neg(Neg(y2 (.) n2))
    BY <1>4, AddRing
  <2>3. Neg(Neg(y2 (.) n2)) = y2 (.) n2
    BY <1>4, Signs
  <2>4. x2 (.) ((y1 (.) n1) (+) (y2 (.) n2)) = D (+) B
    BY <1>1, <1>4, MulRing
  <2> QED
    BY <2>1, <2>2, <2>3, <2>4
<1>8. ((x1 (.) y1) (-) (x2 (.) y2)) (.) n2 = A (+) Neg(B)
  <2>1. (x1 (.) y1) (-) (x2 (.) y2) = (x1 (.) y1) (+) Neg(x2 (.) y2)
    BY <1>4, AddRing
  <2>2. ((x1 (.) y1) (+) Neg(x2 (.) y2)) \in Number
    BY <1>4, NumberOps
  <2>3. ((x1 (.) y1) (+) Neg(x2 (.) y2)) (.) n2 = n2 (.) ((x1 (.) y1) (+) Neg(x2 (.) y2))
    BY <1>1, <2>2, MulRing
  <2>4. n2 (.) ((x1 (.) y1) (+) Neg(x2 (.) y2)) = (n2 (.) (x1 (.) y1)) (+) (n2 (.) Neg(x2 (.) y2))
    BY <1>1, <1>4, MulRing
  <2>5. n2 (.) (x1 (.) y1) = (x1 (.) y1) (.) n2 /\ (x1 (.) y1) (.) n2 = A
    BY <1>1, <1>4, MulRing
  <2>6. n2 (.) Neg(x2 (.) y2) = Neg(n2 (.) (x2 (.) y2))
    BY <1>1, <1>4, MulRing
  <2>7. n2 (.) (x2 (.) y2) = (x2 (.) y2) (.) n2 /\ (x2 (.) y2) (.) n2 = B
    BY <1>1, <1>4, MulRing
  <2> QED
    BY <2>1, <2>3, <2>4, <2>5, <2>6, <2>7
<1>9. ((x1 (.) y2) (+) (x2 (.) y1)) (.) n1 = C (+) D
  <2>1. (x1 (.) y2) (+) (x2 (.) y1) \in Number
    BY <1>4, NumberOps
  <2>2. ((x1 (.) y2) (+) (x2 (.) y1)) (.) n1 = n1 (.) ((x1 (.) y2) (+) (x2 (.) y1))
    BY <1>1, <2>1, MulRing
  <2>3. n1 (.) ((x1 (.) y2) (+) (x2 (.) y1)) = (n1 (.) (x1 (.) y2)) (+) (n1 (.) (x2 (.) y1))
    BY <1>1, <1>4, MulRing
  <2>4. n1 (.) (x1 (.) y2) = (x1 (.) y2) (.) n1 /\ (x1 (.) y2) (.) n1 = C
    BY <1>1, <1>4, MulRing
  <2>5. n1 (.) (x2 (.) y1) = (x2 (.) y1) (.) n1 /\ (x2 (.) y1) (.) n1 = D
    BY <1>1, <1>4, MulRing
  <2> QED
    BY <2>2, <2>3, <2>4, <2>5
<1> HIDE DEF A, B, C, D
<1>10. (A (+) Neg(C)) (-) (D (+) B) = (A (+) Neg(B)) (-) (C (+) D)
  <2>1. Neg(A) \in Number /\ Neg(B) \in Number /\ Neg(C) \in Number /\ Neg(D) \in Number
    BY <1>5, NumberOps
  <2>2. A (+) Neg(C) \in Number /\ D (+) B \in Number /\ A (+) Neg(B) \in Number /\ C (+) D \in Number
    BY <1>5, <2>1, NumberOps
  <2>3. /\ (A (+) Neg(C)) (-) (D (+) B) = (A (+) Neg(C)) (+) Neg(D (+) B)
        /\ (A (+) Neg(B)) (-) (C (+) D) = (A (+) Neg(B)) (+) Neg(C (+) D)
    BY <2>2, AddRing
  <2>4. Neg(D (+) B) = Neg(B) (+) Neg(D) /\ Neg(C (+) D) = Neg(C) (+) Neg(D)
    <3>1. D (+) B = B (+) D
      BY <1>5, AddRing
    <3> QED
      BY <1>5, <3>1, Signs
  <2>5. (A (+) Neg(C)) (+) (Neg(B) (+) Neg(D)) = (A (+) Neg(B)) (+) (Neg(C) (+) Neg(D))
    BY <1>5, <2>1, Swap
  <2> QED
    BY <2>3, <2>4, <2>5
<1> QED
  BY <1>2, <1>3, <1>6, <1>7, <1>8, <1>9, <1>10

\* What one quartet gives to two of its bands it takes from the other two.
LEMMA QuartetConserves ==
  ASSUME NEW chi \in Number, NEW a \in Complex, NEW b \in Complex, NEW c \in Complex, NEW e \in Complex
  PROVE  LET ab == CMul(a, b)
             cd == CMul(c, e)
         IN  ((CDot(a, CScale(chi, CBack(CMul(CConj(b), cd)))) (+) CDot(b, CScale(chi, CBack(CMul(CConj(a), cd)))))
              (+) (CDot(c, CScale(chi, CBack(CMul(ab, CConj(e))))) (+) CDot(e, CScale(chi, CBack(CMul(ab, CConj(c)))))))
               = Zero
<1> DEFINE ab == CMul(a, b)
           cd == CMul(c, e)
           K == chi (.) Cross(ab, cd)
<1>1. /\ ab \in Complex /\ cd \in Complex /\ CMul(b, a) = ab /\ CMul(e, c) = cd
      /\ CConj(a) \in Complex /\ CConj(b) \in Complex /\ CConj(c) \in Complex /\ CConj(e) \in Complex
  BY ComplexOps, ComplexCommutes
<1> HIDE DEF ab, cd
<1>2. /\ CMul(CConj(b), cd) \in Complex /\ CMul(CConj(a), cd) \in Complex
      /\ CMul(CConj(e), ab) \in Complex /\ CMul(CConj(c), ab) \in Complex
      /\ CMul(ab, CConj(e)) = CMul(CConj(e), ab) /\ CMul(ab, CConj(c)) = CMul(CConj(c), ab)
  BY <1>1, ComplexOps, ComplexCommutes
<1>3. CDot(a, CScale(chi, CBack(CMul(CConj(b), cd)))) = K
  <2>1. Cross(a, CMul(CConj(b), cd)) = Cross(ab, cd)
    BY <1>1, CrossMoves DEF ab
  <2> QED
    BY <1>2, <2>1, CrossFlows
<1>4. CDot(b, CScale(chi, CBack(CMul(CConj(a), cd)))) = K
  <2>1. Cross(b, CMul(CConj(a), cd)) = Cross(CMul(b, a), cd)
    BY <1>1, CrossMoves
  <2> QED
    BY <1>1, <1>2, <2>1, CrossFlows
<1>5. Cross(ab, cd) \in Number /\ Cross(cd, ab) = Neg(Cross(ab, cd))
  BY <1>1, CrossFlows
<1>6. chi (.) Cross(cd, ab) = Neg(K) /\ K \in Number
  BY <1>5, MulRing, NumberOps
<1>7. CDot(c, CScale(chi, CBack(CMul(ab, CConj(e))))) = Neg(K)
  <2>1. Cross(c, CMul(CConj(e), ab)) = Cross(cd, ab)
    BY <1>1, CrossMoves DEF cd
  <2>2. CDot(c, CScale(chi, CBack(CMul(CConj(e), ab)))) = chi (.) Cross(c, CMul(CConj(e), ab))
    BY <1>2, CrossFlows
  <2> QED
    BY <1>2, <1>6, <2>1, <2>2
<1>8. CDot(e, CScale(chi, CBack(CMul(ab, CConj(c))))) = Neg(K)
  <2>1. Cross(e, CMul(CConj(c), ab)) = Cross(CMul(e, c), ab)
    BY <1>1, CrossMoves
  <2>2. CDot(e, CScale(chi, CBack(CMul(CConj(c), ab)))) = chi (.) Cross(e, CMul(CConj(c), ab))
    BY <1>2, CrossFlows
  <2> QED
    BY <1>1, <1>2, <1>6, <2>1, <2>2
<1> HIDE DEF K
<1>9. (K (+) K) (+) (Neg(K) (+) Neg(K)) = Zero
  <2>1. Neg(K) \in Number /\ Zero \in Number
    BY <1>6, NumberOps, Constants01
  <2>2. (K (+) K) (+) (Neg(K) (+) Neg(K)) = (K (+) Neg(K)) (+) (K (+) Neg(K))
    BY <1>6, <2>1, Swap
  <2>3. K (+) Neg(K) = Zero /\ Zero (+) Zero = Zero
    BY <1>6, <2>1, AddRing
  <2> QED
    BY <2>2, <2>3
<1> QED
  BY <1>3, <1>4, <1>7, <1>8, <1>9 DEF ab, cd

-----------------------------------------------------------------------------
(* Numbers one after the other *)

\* A set of naturals has a least element.
LEMMA Least ==
  ASSUME NEW T, T \subseteq Nat, T # {}
  PROVE  \E m0 \in T : \A i0 \in T : m0 <= i0
<1> DEFINE R == OpToRel(<, Nat)
<1>1. IsWellFoundedOn(R, Nat)
  BY NatLessThanWellFounded
<1>2. \A i0, m0 \in Nat : <<i0, m0>> \in R <=> i0 < m0
  BY DEF OpToRel
<1> HIDE DEF R
<1>3. PICK m0 \in T : \A i0 \in T : ~(<<i0, m0>> \in R)
  BY <1>1, WFMin
<1>4. ASSUME NEW i0 \in T PROVE m0 <= i0
  <2>1. i0 \in Nat /\ m0 \in Nat /\ ~(<<i0, m0>> \in R)
    BY <1>3, <1>4
  <2> QED
    BY <2>1, <1>2
<1> QED
  BY <1>4

\* What holds at 0 and passes from each number to the next holds up to n0.
LEMMA Ascent ==
  ASSUME NEW n0 \in Nat, NEW T, 0 \in T, \A i0 \in 1 .. n0 : i0 - 1 \in T => i0 \in T
  PROVE  \A i0 \in 0 .. n0 : i0 \in T
<1> DEFINE U == {i0 \in 0 .. n0 : i0 \notin T}
<1> SUFFICES ASSUME U # {} PROVE FALSE
  OBVIOUS
<1>1. U \subseteq Nat
  OBVIOUS
<1>2. \E m0 \in U : \A i0 \in U : m0 <= i0
  BY <1>1, Least
<1>3. PICK m0 \in U : \A i0 \in U : m0 <= i0
  BY <1>2
<1>4. m0 \in 0 .. n0 /\ m0 \notin T /\ m0 # 0
  BY <1>3
<1>5. m0 - 1 \in 0 .. n0 /\ m0 - 1 \notin U /\ m0 \in 1 .. n0
  BY <1>3, <1>4
<1> QED
  BY <1>4, <1>5

\* g starts at b and goes on as step says.
Follows(g, n0, b, step) == g[0] = b /\ \A i0 \in 1 .. n0 : g[i0] = step[i0][g[i0 - 1]]

\* Steps taken one after the other from a start: the sequence of results exists.
LEMMA Iteration ==
  ASSUME NEW n0 \in Nat, NEW S, NEW b \in S, NEW step \in [1 .. n0 -> [S -> S]]
  PROVE  \E g \in [0 .. n0 -> S] : Follows(g, n0, b, step)
<1> DEFINE Runs(g, m0) == g \in [0 .. m0 -> S] /\ g[0] = b /\ \A i0 \in 1 .. m0 : g[i0] = step[i0][g[i0 - 1]]
           T == {m0 \in 0 .. n0 : \E g : Runs(g, m0)}
<1>1. 0 \in T
  <2> DEFINE g == [i0 \in 0 .. 0 |-> b]
  <2>1. Runs(g, 0)
    OBVIOUS
  <2> HIDE DEF g, Runs
  <2>2. \E f : Runs(f, 0)
    BY <2>1
  <2> QED
    BY <2>2
<1>2. ASSUME NEW m0 \in 1 .. n0, m0 - 1 \in T PROVE m0 \in T
  <2>2. PICK g : Runs(g, m0 - 1)
    BY <1>2
  <2> DEFINE f == [i0 \in 0 .. m0 |-> IF i0 = m0 THEN step[m0][g[m0 - 1]] ELSE g[i0]]
  <2>3. g[m0 - 1] \in S /\ step[m0] \in [S -> S]
    BY <2>2
  <2>4. step[m0][g[m0 - 1]] \in S
    BY <2>3
  <2>5. f \in [0 .. m0 -> S]
    BY <2>2, <2>4
  <2>6. f[0] = b
    BY <2>2
  <2>7. ASSUME NEW i0 \in 1 .. m0 PROVE f[i0] = step[i0][f[i0 - 1]]
    <3>1. i0 - 1 \in 0 .. m0 - 1 /\ f[i0 - 1] = g[i0 - 1]
      OBVIOUS
    <3>2. CASE i0 = m0
      BY <3>1, <3>2
    <3>3. CASE i0 # m0
      BY <2>2, <3>1, <3>3
    <3> QED
      BY <3>2, <3>3
  <2> HIDE DEF f
  <2>8. Runs(f, m0)
    BY <2>5, <2>6, <2>7
  <2> HIDE DEF Runs
  <2>9. \E f0 : Runs(f0, m0)
    BY <2>8
  <2> QED
    BY <2>9
<1> HIDE DEF T
<1>3. n0 \in T
  <2>1. \A i0 \in 0 .. n0 : i0 \in T
    BY <1>1, <1>2, Ascent
  <2> QED
    BY <2>1
<1> QED
  BY <1>3 DEF T, Follows

-----------------------------------------------------------------------------
(* Sums *)

\* The partial sums of f.
SumsOn(t, n0, f) == t = [i0 \in 0 .. n0 |-> IF i0 = 0 THEN Zero ELSE t[i0 - 1] (+) f[i0 - 1]]

\* The partial sums of numbers exist, and SumTo is the last of them.
LEMMA SumsExist ==
  ASSUME NEW n0 \in Nat, NEW f, \A k \in 0 .. n0 - 1 : f[k] \in Number
  PROVE  \E t : SumsOn(t, n0, f) /\ SumTo(n0, f) = t[n0] /\ t \in [0 .. n0 -> Number]
<1> DEFINE step == [i0 \in 1 .. n0 |-> [x \in Number |-> x (+) f[i0 - 1]]]
<1>1. step \in [1 .. n0 -> [Number -> Number]]
  <2>1. ASSUME NEW i0 \in 1 .. n0, NEW x \in Number PROVE x (+) f[i0 - 1] \in Number
    <3>1. i0 - 1 \in 0 .. n0 - 1
      OBVIOUS
    <3> QED
      BY <3>1, NumberOps
  <2> QED
    BY <2>1
<1>2. PICK g \in [0 .. n0 -> Number] : g[0] = Zero /\ \A i0 \in 1 .. n0 : g[i0] = step[i0][g[i0 - 1]]
  <2>1. Zero \in Number
    BY Constants01
  <2> HIDE DEF step
  <2>2. \E g \in [0 .. n0 -> Number] : Follows(g, n0, Zero, step)
    BY <1>1, <2>1, Iteration
  <2> QED
    BY <2>2 DEF Follows
<1>3. ASSUME NEW i0 \in 0 .. n0 PROVE g[i0] = IF i0 = 0 THEN Zero ELSE g[i0 - 1] (+) f[i0 - 1]
  <2>1. CASE i0 = 0
    BY <1>2, <2>1
  <2>2. CASE i0 # 0
    <3>1. i0 \in 1 .. n0 /\ i0 - 1 \in 0 .. n0
      BY <2>2
    <3>2. step[i0][g[i0 - 1]] = g[i0 - 1] (+) f[i0 - 1]
      BY <3>1
    <3> QED
      BY <1>2, <2>2, <3>1, <3>2
  <2> QED
    BY <2>1, <2>2
<1>4. SumsOn(g, n0, f)
  BY <1>2, <1>3 DEF SumsOn
<1> DEFINE t == CHOOSE t : SumsOn(t, n0, f)
<1>5. SumsOn(t, n0, f)
  BY <1>4
<1>6. SumTo(n0, f) = t[n0]
  BY DEF SumTo, SumsOn
<1> HIDE DEF t
<1>7. \A i0 \in 0 .. n0 : t[i0] = g[i0]
  <2> DEFINE T == {i0 \in 0 .. n0 : t[i0] = g[i0]}
  <2>1. 0 \in T
    BY <1>3, <1>5 DEF SumsOn
  <2>2. ASSUME NEW i0 \in 1 .. n0, i0 - 1 \in T PROVE i0 \in T
    <3>1. t[i0] = t[i0 - 1] (+) f[i0 - 1] /\ i0 \in 0 .. n0
      BY <1>5 DEF SumsOn
    <3>2. g[i0] = g[i0 - 1] (+) f[i0 - 1]
      BY <1>3, <3>1
    <3> QED
      BY <2>2, <3>1, <3>2
  <2> HIDE DEF T
  <2>3. \A i0 \in 0 .. n0 : i0 \in T
    BY <2>1, <2>2, Ascent
  <2> QED
    BY <2>3 DEF T
<1>8. t = g
  BY <1>2, <1>5, <1>7 DEF SumsOn
<1> QED
  BY <1>2, <1>5, <1>6, <1>8

\* Changing one entry by x changes the sum by x.
LEMMA SumChanges ==
  ASSUME NEW n0 \in Nat, NEW f \in [0 .. n0 - 1 -> Number], NEW g \in [0 .. n0 - 1 -> Number],
         NEW q \in 0 .. n0 - 1, NEW x \in Number, g[q] = f[q] (+) x,
         \A k \in 0 .. n0 - 1 : k # q => g[k] = f[k]
  PROVE  SumTo(n0, g) = SumTo(n0, f) (+) x
<1>1. \E t : SumsOn(t, n0, f) /\ SumTo(n0, f) = t[n0] /\ t \in [0 .. n0 -> Number]
  BY SumsExist
<1>2. \E t : SumsOn(t, n0, g) /\ SumTo(n0, g) = t[n0] /\ t \in [0 .. n0 -> Number]
  BY SumsExist
<1>3. PICK tf : SumsOn(tf, n0, f) /\ SumTo(n0, f) = tf[n0] /\ tf \in [0 .. n0 -> Number]
  BY <1>1
<1>4. PICK tg : SumsOn(tg, n0, g) /\ SumTo(n0, g) = tg[n0] /\ tg \in [0 .. n0 -> Number]
  BY <1>2
<1> DEFINE T == {k \in 0 .. n0 : tg[k] = IF q < k THEN tf[k] (+) x ELSE tf[k]}
<1>5. 0 \in T
  BY <1>3, <1>4 DEF SumsOn
<1>6. ASSUME NEW k \in 1 .. n0, k - 1 \in T PROVE k \in T
  <2>1. /\ tg[k] = tg[k - 1] (+) g[k - 1] /\ tf[k] = tf[k - 1] (+) f[k - 1]
        /\ k - 1 \in 0 .. n0 /\ k - 1 \in 0 .. n0 - 1 /\ k \in 0 .. n0
    BY <1>3, <1>4 DEF SumsOn
  <2>2. tf[k - 1] \in Number /\ f[k - 1] \in Number
    BY <1>3, <2>1
  <2>3. CASE q < k - 1
    <3>1. tg[k] = (tf[k - 1] (+) x) (+) f[k - 1]
      BY <1>6, <2>1, <2>3
    <3>2. (tf[k - 1] (+) x) (+) f[k - 1] = tf[k - 1] (+) (x (+) f[k - 1])
      BY <2>2, AddRing
    <3>3. x (+) f[k - 1] = f[k - 1] (+) x
      BY <2>2, AddRing
    <3>4. tf[k - 1] (+) (f[k - 1] (+) x) = (tf[k - 1] (+) f[k - 1]) (+) x
      BY <2>2, AddRing
    <3> QED
      BY <2>1, <2>3, <3>1, <3>2, <3>3, <3>4
  <2>4. CASE q = k - 1
    <3>1. tg[k] = tf[k - 1] (+) (f[k - 1] (+) x)
      BY <1>6, <2>1, <2>4
    <3>2. tf[k - 1] (+) (f[k - 1] (+) x) = (tf[k - 1] (+) f[k - 1]) (+) x
      BY <2>2, AddRing
    <3> QED
      BY <2>1, <2>4, <3>1, <3>2
  <2>5. CASE q > k - 1
    BY <1>6, <2>1, <2>5
  <2> QED
    BY <2>3, <2>4, <2>5
<1> HIDE DEF T
<1>7. \A k \in 0 .. n0 : k \in T
  BY <1>5, <1>6, Ascent
<1> QED
  BY <1>3, <1>4, <1>7 DEF T

\* A sum of zeros is zero.
LEMMA SumOfZeros ==
  ASSUME NEW n0 \in Nat, NEW f, \A k \in 0 .. n0 - 1 : f[k] = Zero
  PROVE  SumTo(n0, f) = Zero
<1>0. Zero \in Number
  BY Constants01
<1>1. \E t : SumsOn(t, n0, f) /\ SumTo(n0, f) = t[n0] /\ t \in [0 .. n0 -> Number]
  BY <1>0, SumsExist
<1>2. PICK t : SumsOn(t, n0, f) /\ SumTo(n0, f) = t[n0] /\ t \in [0 .. n0 -> Number]
  BY <1>1
<1> DEFINE T == {k \in 0 .. n0 : t[k] = Zero}
<1>3. 0 \in T
  BY <1>2 DEF SumsOn
<1>4. ASSUME NEW k \in 1 .. n0, k - 1 \in T PROVE k \in T
  <2>1. t[k] = Zero (+) Zero
    BY <1>2, <1>4 DEF SumsOn
  <2>2. Zero (+) Zero = Zero
    BY <1>0, AddRing
  <2> QED
    BY <2>1, <2>2
<1> HIDE DEF T
<1>5. \A k \in 0 .. n0 : k \in T
  BY <1>3, <1>4, Ascent
<1> QED
  BY <1>2, <1>5 DEF T

-----------------------------------------------------------------------------
(* Four-wave mixing *)

\* The rows of n0 bands.
Rows(n0) == [0 .. n0 - 1 -> Complex]

\* The energy a flow u feeds into a row.
Energy(n0, row, u) == SumTo(n0, [k \in 0 .. n0 - 1 |-> CDot(row[k], u[k])])

\* Adding to the flow at one band adds what that band makes of it.
LEMMA EnergyAtBand ==
  ASSUME NEW n0 \in Nat, NEW row \in Rows(n0), NEW u \in Rows(n0), NEW v \in Rows(n0),
         NEW q \in 0 .. n0 - 1, NEW x \in Complex, v[q] = CAdd(u[q], x),
         \A k \in 0 .. n0 - 1 : k # q => v[k] = u[k]
  PROVE  Energy(n0, row, v) = Energy(n0, row, u) (+) CDot(row[q], x)
<1> DEFINE f == [k \in 0 .. n0 - 1 |-> CDot(row[k], u[k])]
           g == [k \in 0 .. n0 - 1 |-> CDot(row[k], v[k])]
<1>1. \A k \in 0 .. n0 - 1 : row[k] \in Complex /\ u[k] \in Complex /\ v[k] \in Complex
  BY DEF Rows
<1>0. Zero \in Number
  BY Constants01
<1>2. \A k \in 0 .. n0 - 1 : CDot(row[k], u[k]) \in Number /\ CDot(row[k], v[k]) \in Number
  BY <1>0, <1>1, ComplexOps
<1>3. f \in [0 .. n0 - 1 -> Number] /\ g \in [0 .. n0 - 1 -> Number]
  BY <1>2
<1>4. CDot(row[q], x) \in Number
  BY <1>0, <1>1, ComplexOps
<1>5. g[q] = f[q] (+) CDot(row[q], x)
  BY <1>1, DotAdds
<1>6. \A k \in 0 .. n0 - 1 : k # q => g[k] = f[k]
  OBVIOUS
<1> HIDE DEF f, g
<1>7. SumTo(n0, g) = SumTo(n0, f) (+) CDot(row[q], x)
  BY <1>3, <1>4, <1>5, <1>6, SumChanges
<1> QED
  BY <1>7 DEF f, g, Energy

\* The energy a flow feeds into a row is a number.
LEMMA EnergyIsNumber ==
  ASSUME NEW n0 \in Nat, NEW row \in Rows(n0), NEW u \in Rows(n0)
  PROVE  Energy(n0, row, u) \in Number
<1> DEFINE f == [k \in 0 .. n0 - 1 |-> CDot(row[k], u[k])]
<1>1. \A k \in 0 .. n0 - 1 : row[k] \in Complex /\ u[k] \in Complex
  BY DEF Rows
<1>2. \A k \in 0 .. n0 - 1 : f[k] \in Number
  BY <1>1, Constants01, ComplexOps
<1> HIDE DEF f
<1>3. \E t : SumsOn(t, n0, f) /\ SumTo(n0, f) = t[n0] /\ t \in [0 .. n0 -> Number]
  BY <1>2, SumsExist
<1>4. SumTo(n0, f) \in Number
  BY <1>3
<1> QED
  BY <1>4 DEF f, Energy

\* Four different bands of n0.
Quartet(n0, q) == /\ q[1] \in 0 .. n0 - 1 /\ q[2] \in 0 .. n0 - 1 /\ q[3] \in 0 .. n0 - 1 /\ q[4] \in 0 .. n0 - 1
                  /\ q[1] # q[2] /\ q[1] # q[3] /\ q[1] # q[4] /\ q[2] # q[3] /\ q[2] # q[4] /\ q[3] # q[4]

\* Adding at the four bands of a quartet adds the four energies.
LEMMA AddAtBands ==
  ASSUME NEW n0 \in Nat, NEW u \in Rows(n0), NEW q, Quartet(n0, q), NEW parts,
         parts[1] \in Complex, parts[2] \in Complex, parts[3] \in Complex, parts[4] \in Complex
  PROVE  /\ AddAt(u, q, parts) \in Rows(n0)
         /\ \A row \in Rows(n0) :
              Energy(n0, row, AddAt(u, q, parts))
                = Energy(n0, row, u) (+) ((CDot(row[q[1]], parts[1]) (+) CDot(row[q[2]], parts[2]))
                                          (+) (CDot(row[q[3]], parts[3]) (+) CDot(row[q[4]], parts[4])))
<1> DEFINE u1 == [u EXCEPT ![q[1]] = CAdd(u[q[1]], parts[1])]
           u2 == [u1 EXCEPT ![q[2]] = CAdd(u[q[2]], parts[2])]
           u3 == [u2 EXCEPT ![q[3]] = CAdd(u[q[3]], parts[3])]
           u4 == [u3 EXCEPT ![q[4]] = CAdd(u[q[4]], parts[4])]
<1>0. Zero \in Number
  BY Constants01
<1>1. \A k \in 0 .. n0 - 1 : u[k] \in Complex
  BY DEF Rows
<1>2. /\ CAdd(u[q[1]], parts[1]) \in Complex /\ CAdd(u[q[2]], parts[2]) \in Complex
      /\ CAdd(u[q[3]], parts[3]) \in Complex /\ CAdd(u[q[4]], parts[4]) \in Complex
  BY <1>0, <1>1, ComplexOps DEF Quartet
<1>3. AddAt(u, q, parts) = u4
  BY DEF AddAt, Quartet, Rows
<1>4. u1 \in Rows(n0) /\ u2 \in Rows(n0) /\ u3 \in Rows(n0) /\ u4 \in Rows(n0)
  BY <1>2 DEF Rows, Quartet
<1>5. ASSUME NEW row \in Rows(n0)
      PROVE  Energy(n0, row, u4)
                = Energy(n0, row, u) (+) ((CDot(row[q[1]], parts[1]) (+) CDot(row[q[2]], parts[2]))
                                          (+) (CDot(row[q[3]], parts[3]) (+) CDot(row[q[4]], parts[4])))
  <2> DEFINE a == CDot(row[q[1]], parts[1])
             b == CDot(row[q[2]], parts[2])
             c == CDot(row[q[3]], parts[3])
             e == CDot(row[q[4]], parts[4])
             E == Energy(n0, row, u)
  <2>1. \A k \in 0 .. n0 - 1 : row[k] \in Complex
    BY DEF Rows
  <2>2. a \in Number /\ b \in Number /\ c \in Number /\ e \in Number
    BY <1>0, <2>1, ComplexOps DEF Quartet
  <2>4. E \in Number
    BY EnergyIsNumber
  <2>5. u1[q[1]] = CAdd(u[q[1]], parts[1]) /\ \A k \in 0 .. n0 - 1 : k # q[1] => u1[k] = u[k]
    BY DEF Quartet, Rows
  <2>6. u2[q[2]] = CAdd(u1[q[2]], parts[2]) /\ \A k \in 0 .. n0 - 1 : k # q[2] => u2[k] = u1[k]
    BY DEF Quartet, Rows
  <2>7. u3[q[3]] = CAdd(u2[q[3]], parts[3]) /\ \A k \in 0 .. n0 - 1 : k # q[3] => u3[k] = u2[k]
    BY DEF Quartet, Rows
  <2>8. u4[q[4]] = CAdd(u3[q[4]], parts[4]) /\ \A k \in 0 .. n0 - 1 : k # q[4] => u4[k] = u3[k]
    BY DEF Quartet, Rows
  <2> HIDE DEF u1, u2, u3, u4
  <2>9. q[1] \in 0 .. n0 - 1 /\ q[2] \in 0 .. n0 - 1 /\ q[3] \in 0 .. n0 - 1 /\ q[4] \in 0 .. n0 - 1
    BY DEF Quartet
  <2>10. Energy(n0, row, u1) = E (+) a
    BY <1>4, <2>5, <2>9, EnergyAtBand
  <2>11. Energy(n0, row, u2) = Energy(n0, row, u1) (+) b
    BY <1>4, <2>6, <2>9, EnergyAtBand
  <2>12. Energy(n0, row, u3) = Energy(n0, row, u2) (+) c
    BY <1>4, <2>7, <2>9, EnergyAtBand
  <2>13. Energy(n0, row, u4) = Energy(n0, row, u3) (+) e
    BY <1>4, <2>8, <2>9, EnergyAtBand
  <2> HIDE DEF a, b, c, e, E
  <2>14. (((E (+) a) (+) b) (+) c) (+) e = E (+) ((a (+) b) (+) (c (+) e))
    <3>1. a (+) b \in Number /\ c (+) e \in Number /\ E (+) (a (+) b) \in Number
      BY <2>2, <2>4, NumberOps
    <3>2. (E (+) a) (+) b = E (+) (a (+) b)
      BY <2>2, <2>4, AddRing
    <3>3. ((E (+) (a (+) b)) (+) c) (+) e = (E (+) (a (+) b)) (+) (c (+) e)
      BY <2>2, <3>1, AddRing
    <3>4. (E (+) (a (+) b)) (+) (c (+) e) = E (+) ((a (+) b) (+) (c (+) e))
      BY <2>4, <3>1, AddRing
    <3> QED
      BY <3>2, <3>3, <3>4
  <2> QED
    BY <2>10, <2>11, <2>12, <2>13, <2>14 DEF a, b, c, e, E
<1> HIDE DEF u4
<1> QED
  BY <1>3, <1>4, <1>5

\* Intervals from 1 that are equal end at the same number.
LEMMA SameEnd ==
  ASSUME NEW a \in Nat, NEW b \in Nat, 1 .. a = 1 .. b
  PROVE  a = b
<1>1. a # 0 => a \in 1 .. b
  OBVIOUS
<1>2. b # 0 => b \in 1 .. a
  OBVIOUS
<1> QED
  BY <1>1, <1>2

\* Every quartet that is looped over has four different bands of the row.
LEMMA QuartetsAreQuartets ==
  ASSUME NEW n0 \in Nat, n0 > 4
  PROVE  Len(Quartets(n0)) \in Nat /\ \A k \in 1 .. Len(Quartets(n0)) : Quartet(n0, Quartets(n0)[k])
<1> DEFINE A == FamilyA(n0)
           B == FamilyB(n0)
           N == n0 - 3
           S == Int \X Int \X Int \X Int
<1>0. N \in Nat
  OBVIOUS
<1>1. A = [k \in 1 .. N |-> <<k - 1, k + 2, k, k + 1>>]
  <2>1. \A k \in 1 .. N : k + 1 - 2 = k - 1 /\ k + 1 + 1 = k + 2 /\ k + 1 - 1 = k
    OBVIOUS
  <2> QED
    BY <2>1 DEF FamilyA
<1>2. B = [k \in 1 .. N |-> <<k - 1, k + 2, k, k + 1>>]
  BY DEF FamilyB
<1>3. \A k \in 1 .. N : <<k - 1, k + 2, k, k + 1>> \in S /\ Quartet(n0, <<k - 1, k + 2, k, k + 1>>)
  BY DEF Quartet
<1>4. Quartets(n0) = A \o B
  BY DEF Quartets
<1> HIDE DEF A, B, N, S
<1>5. A \in [1 .. N -> S] /\ B \in [1 .. N -> S]
  BY <1>1, <1>2, <1>3
<1>6. A \in Seq(S) /\ B \in Seq(S)
  BY <1>0, <1>5, SeqDef
<1>7. Len(A) = N /\ Len(B) = N
  <2>1. Len(A) \in Nat /\ DOMAIN A = 1 .. Len(A) /\ Len(B) \in Nat /\ DOMAIN B = 1 .. Len(B)
    BY <1>6, LenProperties
  <2>2. DOMAIN A = 1 .. N /\ DOMAIN B = 1 .. N
    BY <1>5
  <2> QED
    BY <1>0, <2>1, <2>2, SameEnd
<1>8. /\ Len(A \o B) = N + N
      /\ \A k \in 1 .. N + N : (A \o B)[k] = IF k <= N THEN A[k] ELSE B[k - N]
  <2>1. /\ Len(A \o B) = Len(A) + Len(B)
        /\ \A k \in 1 .. Len(A) + Len(B) : (A \o B)[k] = IF k <= Len(A) THEN A[k] ELSE B[k - Len(A)]
    BY <1>6, ConcatProperties
  <2> QED
    BY <1>7, <2>1
<1>9. \A k \in 1 .. N : Quartet(n0, A[k]) /\ Quartet(n0, B[k])
  BY <1>1, <1>2, <1>3
<1>10. ASSUME NEW k \in 1 .. N + N PROVE Quartet(n0, (A \o B)[k])
  <2>1. CASE k <= N
    <3>1. (A \o B)[k] = A[k] /\ k \in 1 .. N
      BY <1>0, <1>8, <2>1
    <3> QED
      BY <1>9, <3>1
  <2>2. CASE k > N
    <3>1. (A \o B)[k] = B[k - N] /\ k - N \in 1 .. N
      BY <1>0, <1>8, <2>2
    <3> QED
      BY <1>9, <3>1
  <2>3. k <= N \/ k > N
    BY <1>0
  <2> QED
    BY <2>1, <2>2, <2>3
<1> QED
  BY <1>0, <1>4, <1>8, <1>10

\* The flows the quartets add one after the other.
MixingOn(t, n0, chi, row) ==
  t = [k \in 0 .. Len(Quartets(n0)) |->
         IF k = 0 THEN Vec(n0, C0) ELSE AddAt(t[k - 1], Quartets(n0)[k], QuartetFlow(chi, row, Quartets(n0)[k]))]

\* One quartet's flow keeps the energy.
LEMMA QuartetKeepsEnergy ==
  ASSUME NEW n0 \in Nat, NEW chi \in Number, NEW row \in Rows(n0), NEW u \in Rows(n0), NEW q, Quartet(n0, q)
  PROVE  /\ AddAt(u, q, QuartetFlow(chi, row, q)) \in Rows(n0)
         /\ Energy(n0, row, AddAt(u, q, QuartetFlow(chi, row, q))) = Energy(n0, row, u)
<1> DEFINE a == row[q[1]]
           b == row[q[2]]
           c == row[q[3]]
           e == row[q[4]]
           ab == CMul(a, b)
           cd == CMul(c, e)
           flow == QuartetFlow(chi, row, q)
<1>1. a \in Complex /\ b \in Complex /\ c \in Complex /\ e \in Complex
  BY DEF Rows, Quartet
<1>2. /\ flow[1] = CScale(chi, CBack(CMul(CConj(b), cd))) /\ flow[2] = CScale(chi, CBack(CMul(CConj(a), cd)))
      /\ flow[3] = CScale(chi, CBack(CMul(ab, CConj(e)))) /\ flow[4] = CScale(chi, CBack(CMul(ab, CConj(c))))
  BY DEF QuartetFlow
<1> DEFINE f1 == CMul(CConj(b), cd)
           f2 == CMul(CConj(a), cd)
           f3 == CMul(ab, CConj(e))
           f4 == CMul(ab, CConj(c))
<1> HIDE DEF a, b, c, e
<1>3. f1 \in Complex /\ f2 \in Complex /\ f3 \in Complex /\ f4 \in Complex
  <2>1. ab \in Complex /\ cd \in Complex /\ CConj(a) \in Complex /\ CConj(b) \in Complex /\ CConj(c) \in Complex /\ CConj(e) \in Complex
    BY <1>1, ComplexOps
  <2> HIDE DEF ab, cd
  <2> QED
    BY <2>1, ComplexOps
<1> HIDE DEF ab, cd, f1, f2, f3, f4
<1>4. CBack(f1) \in Complex /\ CBack(f2) \in Complex /\ CBack(f3) \in Complex /\ CBack(f4) \in Complex
  BY <1>3, ComplexOps
<1>5. /\ CScale(chi, CBack(f1)) \in Complex /\ CScale(chi, CBack(f2)) \in Complex
      /\ CScale(chi, CBack(f3)) \in Complex /\ CScale(chi, CBack(f4)) \in Complex
  BY <1>4, ComplexOps
<1>6. flow[1] \in Complex /\ flow[2] \in Complex /\ flow[3] \in Complex /\ flow[4] \in Complex
  BY <1>2, <1>5 DEF f1, f2, f3, f4
<1>7. ((CDot(a, flow[1]) (+) CDot(b, flow[2])) (+) (CDot(c, flow[3]) (+) CDot(e, flow[4]))) = Zero
  <2>1. ((CDot(a, CScale(chi, CBack(CMul(CConj(b), cd)))) (+) CDot(b, CScale(chi, CBack(CMul(CConj(a), cd)))))
              (+) (CDot(c, CScale(chi, CBack(CMul(ab, CConj(e))))) (+) CDot(e, CScale(chi, CBack(CMul(ab, CConj(c)))))))
               = Zero
    BY <1>1, QuartetConserves DEF ab, cd
  <2> QED
    BY <1>2, <2>1
<1> HIDE DEF flow
<1>8. /\ AddAt(u, q, flow) \in Rows(n0)
      /\ Energy(n0, row, AddAt(u, q, flow))
           = Energy(n0, row, u) (+) ((CDot(a, flow[1]) (+) CDot(b, flow[2])) (+) (CDot(c, flow[3]) (+) CDot(e, flow[4])))
  BY <1>6, AddAtBands DEF a, b, c, e
<1>9. Energy(n0, row, u) (+) Zero = Energy(n0, row, u)
  <2>1. Energy(n0, row, u) \in Number
    BY EnergyIsNumber
  <2> QED
    BY <2>1, AddRing, Constants01
<1> QED
  BY <1>7, <1>8, <1>9 DEF flow

\* All quartets together keep it: mixing feeds a row no energy.
LEMMA MixingKeepsEnergy ==
  ASSUME NEW n0 \in Nat, n0 > 4, NEW chi \in Number, NEW row \in Rows(n0)
  PROVE  Mixing(n0, chi, row) \in Rows(n0) /\ Energy(n0, row, Mixing(n0, chi, row)) = Zero
<1> DEFINE qs == Quartets(n0)
           L == Len(qs)
           S == Rows(n0)
           flow(k) == QuartetFlow(chi, row, qs[k])
           start == Vec(n0, C0)
           step == [k \in 1 .. L |-> [u \in S |-> AddAt(u, qs[k], flow(k))]]
<1>1. L \in Nat /\ \A k \in 1 .. L : Quartet(n0, qs[k])
  BY QuartetsAreQuartets
<1>2. start \in S
  <2>1. C0 \in Complex
    BY Constants01, ComplexOps DEF C0, Complex
  <2> QED
    BY <2>1 DEF Vec, Rows
<1>3. \A k \in 1 .. L : \A u \in S : AddAt(u, qs[k], flow(k)) \in S /\ Energy(n0, row, AddAt(u, qs[k], flow(k))) = Energy(n0, row, u)
  BY <1>1, QuartetKeepsEnergy
<1>4. step \in [1 .. L -> [S -> S]]
  BY <1>3
<1>5. Mixing(n0, chi, row) = (CHOOSE t : MixingOn(t, n0, chi, row))[L]
  BY DEF Mixing, MixingOn
<1> HIDE DEF L, qs, S, start, flow
<1>6. PICK g \in [0 .. L -> S] : Follows(g, L, start, step)
  <2> HIDE DEF step
  <2> QED
    BY <1>1, <1>2, <1>4, Iteration
<1>7. ASSUME NEW k \in 0 .. L
      PROVE  g[k] = IF k = 0 THEN start ELSE AddAt(g[k - 1], qs[k], flow(k))
  <2>1. CASE k = 0
    BY <1>6, <2>1 DEF Follows
  <2>2. CASE k # 0
    <3>1. k \in 1 .. L /\ k - 1 \in 0 .. L
      BY <1>1, <2>2
    <3>2. g[k - 1] \in S /\ g[k] = step[k][g[k - 1]]
      BY <1>6, <3>1 DEF Follows
    <3> QED
      BY <2>2, <3>1, <3>2
  <2> QED
    BY <2>1, <2>2
<1>8. MixingOn(g, n0, chi, row)
  BY <1>6, <1>7 DEF MixingOn, start, qs, L, flow
<1> DEFINE t == CHOOSE t : MixingOn(t, n0, chi, row)
<1>9. MixingOn(t, n0, chi, row)
  BY <1>8
<1> HIDE DEF t
<1>10. t = [k \in 0 .. L |-> IF k = 0 THEN start ELSE AddAt(t[k - 1], qs[k], flow(k))]
  BY <1>9 DEF MixingOn, start, qs, L, flow
<1> DEFINE T == {k \in 0 .. L : t[k] \in S /\ Energy(n0, row, t[k]) = Zero}
<1>11. 0 \in T
  <2>1. t[0] = start
    BY <1>1, <1>10
  <2>2. Energy(n0, row, start) = Zero
    <3> DEFINE f == [k \in 0 .. n0 - 1 |-> CDot(row[k], start[k])]
    <3>1. \A k \in 0 .. n0 - 1 : f[k] = Zero
      <4> TAKE k \in 0 .. n0 - 1
      <4>1. row[k] \in Complex /\ start[k] = C0
        BY DEF Rows, start, Vec
      <4>2. row[k][1] \in Number /\ row[k][2] \in Number
        BY <4>1, ComplexParts
      <4>3. row[k][1] (.) Zero = Zero /\ row[k][2] (.) Zero = Zero /\ Zero (+) Zero = Zero
        BY <4>2, Constants01, MulRing, AddRing
      <4> QED
        BY <4>1, <4>3 DEF CDot, C0
    <3> HIDE DEF f
    <3>2. SumTo(n0, f) = Zero
      BY <3>1, SumOfZeros
    <3> QED
      BY <3>2 DEF f, Energy
  <2> QED
    BY <1>1, <1>2, <2>1, <2>2
<1>12. ASSUME NEW k \in 1 .. L, k - 1 \in T PROVE k \in T
  <2>1. t[k] = AddAt(t[k - 1], qs[k], flow(k)) /\ k \in 0 .. L
    BY <1>1, <1>10
  <2> QED
    BY <1>3, <1>12, <2>1
<1> HIDE DEF T
<1>13. L \in T
  <2>1. \A k \in 0 .. L : k \in T
    BY <1>1, <1>11, <1>12, Ascent
  <2> QED
    BY <1>1, <2>1
<1> QED
  BY <1>5, <1>13 DEF T, S, t

-----------------------------------------------------------------------------
(* Numbers stay numbers *)

\* Listing a function evaluates it and changes nothing.
LEMMA TableIs == ASSUME NEW f PROVE Table(f) = f
BY DEF Table

\* Halving the exponent, the power is a remainder.
PowerOn(t, v, e0) ==
  t = [k \in 0 .. e0 |-> IF k = 0 THEN 1
                         ELSE LET h == t[k \div 2] IN
                              IF k % 2 = 0 THEN (h * h) % P
                                           ELSE (((h * h) % P) * v) % P]

\* A power is a remainder.
LEMMA PowerType ==
  ASSUME NEW v \in Int, NEW e0 \in Nat
  PROVE  Power(v, e0) \in 0 .. P - 1
<1> DEFINE R == 0 .. P - 1
           next(h, k) == IF k % 2 = 0 THEN (h * h) % P ELSE (((h * h) % P) * v) % P
<1>0. P \in Nat /\ P >= 3 /\ R \subseteq Int /\ 1 \in R
  BY PIsPositive
<1>1. ASSUME NEW h \in R, NEW k \in Nat PROVE next(h, k) \in R
  <2>1. h * h \in Int
    BY <1>0
  <2>2. (h * h) % P \in R
    BY <2>1, Reduced
  <2>3. ((h * h) % P) * v \in Int
    BY <1>0, <2>2
  <2>4. (((h * h) % P) * v) % P \in R
    BY <2>3, Reduced
  <2> QED
    BY <2>2, <2>4
<1> HIDE DEF next, R
<1> DEFINE Good(g, m0) == g \in [0 .. m0 -> R] /\ \A k \in 0 .. m0 : g[k] = IF k = 0 THEN 1 ELSE next(g[k \div 2], k)
           T == {m0 \in 0 .. e0 : \E g : Good(g, m0)}
<1>2. 0 \in T
  <2> DEFINE g == [k \in 0 .. 0 |-> 1]
  <2>1. Good(g, 0)
    BY <1>0
  <2> HIDE DEF g, Good
  <2>2. \E f : Good(f, 0)
    BY <2>1
  <2> QED
    BY <2>2
<1>3. ASSUME NEW m0 \in 1 .. e0, m0 - 1 \in T PROVE m0 \in T
  <2>1. PICK g : Good(g, m0 - 1)
    BY <1>3
  <2> DEFINE f == [k \in 0 .. m0 |-> IF k = m0 THEN next(g[m0 \div 2], m0) ELSE g[k]]
  <2>2. m0 \div 2 \in 0 .. m0 - 1 /\ m0 \in Nat
    OBVIOUS
  <2>3. next(g[m0 \div 2], m0) \in R
    BY <1>1, <2>1, <2>2
  <2>4. f \in [0 .. m0 -> R]
    BY <2>1, <2>3
  <2>5. ASSUME NEW k \in 0 .. m0 PROVE f[k] = IF k = 0 THEN 1 ELSE next(f[k \div 2], k)
    <3>1. CASE k = 0
      BY <2>1, <3>1
    <3>2. CASE k # 0
      <4>1. k \div 2 \in 0 .. m0 - 1 /\ f[k \div 2] = g[k \div 2]
        BY <3>2
      <4> QED
        BY <2>1, <3>2, <4>1
    <3> QED
      BY <3>1, <3>2
  <2> HIDE DEF f
  <2>6. Good(f, m0)
    BY <2>4, <2>5
  <2> HIDE DEF Good
  <2>7. \E g1 : Good(g1, m0)
    BY <2>6
  <2> QED
    BY <2>7
<1> HIDE DEF T
<1>4. e0 \in T
  <2>1. \A k \in 0 .. e0 : k \in T
    BY <1>2, <1>3, Ascent
  <2> QED
    BY <2>1
<1>5. PICK g : Good(g, e0)
  BY <1>4 DEF T
<1>6. PowerOn(g, v, e0)
  <2>1. g = [k \in 0 .. e0 |-> IF k = 0 THEN 1 ELSE next(g[k \div 2], k)]
    BY <1>5
  <2> QED
    BY <2>1 DEF PowerOn, next
<1> DEFINE t == CHOOSE t : PowerOn(t, v, e0)
<1>7. PowerOn(t, v, e0)
  BY <1>6
<1>8. Power(v, e0) = t[e0]
  BY DEF Power, PowerOn
<1> HIDE DEF t
<1>9. t = [k \in 0 .. e0 |-> IF k = 0 THEN 1 ELSE next(t[k \div 2], k)]
  BY <1>7 DEF PowerOn, next
<1> DEFINE U == {k \in 0 .. e0 : \A j0 \in 0 .. k : t[j0] \in R}
<1>10. 0 \in U
  BY <1>0, <1>9
<1>11. ASSUME NEW k \in 1 .. e0, k - 1 \in U PROVE k \in U
  <2>1. k \div 2 \in 0 .. k - 1 /\ k \in Nat /\ k \in 0 .. e0
    OBVIOUS
  <2>2. t[k] = next(t[k \div 2], k)
    BY <1>9, <2>1
  <2>3. t[k \div 2] \in R
    BY <1>11, <2>1
  <2>4. t[k] \in R
    BY <1>1, <2>1, <2>2, <2>3
  <2>5. ASSUME NEW j0 \in 0 .. k PROVE t[j0] \in R
    <3>1. j0 = k \/ j0 \in 0 .. k - 1
      OBVIOUS
    <3> QED
      BY <1>11, <2>4, <3>1
  <2> QED
    BY <2>1, <2>5
<1> HIDE DEF U
<1>12. e0 \in U
  <2>1. \A k \in 0 .. e0 : k \in U
    BY <1>10, <1>11, Ascent
  <2> QED
    BY <2>1
<1>13. t[e0] \in R
  BY <1>12 DEF U
<1> QED
  BY <1>8, <1>13 DEF R

\* A reciprocal is a number.
LEMMA RecipType ==
  ASSUME NEW a \in Number
  PROVE  Recip(a) \in Number
<1>1. P \in Nat /\ P >= 3 /\ P - 2 \in Nat
  BY PIsPositive
<1> DEFINE v == Inverse1(a[1])
<1>2. a[1] \in Int /\ a[2] \in Int
  BY NumberParts
<1>3. v \in 0 .. P - 1
  BY <1>1, <1>2, PowerType DEF Inverse1
<1> HIDE DEF v
<1>4. v \in Int /\ -a[2] * v \in Int
  BY <1>1, <1>2, <1>3
<1>5. (-a[2] * v) % P \in 0 .. P - 1
  BY <1>4, Reduced
<1>6. ((-a[2] * v) % P) * v \in Int
  BY <1>1, <1>4, <1>5
<1>7. (((-a[2] * v) % P) * v) % P \in 0 .. P - 1
  BY <1>6, Reduced
<1>8. <<v, (((-a[2] * v) % P) * v) % P>> \in Number
  BY <1>3, <1>7 DEF Number
<1> QED
  BY <1>8 DEF Recip, v

\* A constant is a number.
LEMMA ConType ==
  ASSUME NEW v \in Int
  PROVE  Con(v) \in Number
<1>1. v % P \in 0 .. P - 1
  BY Reduced
<1>2. 0 \in 0 .. P - 1
  BY PIsPositive
<1> QED
  BY <1>1, <1>2 DEF Con, Number

\* An opaque value is a remainder, and never 0.
LEMMA OpaqueType ==
  ASSUME NEW tag \in Int, NEW v \in Int
  PROVE  Opaque(tag, v) \in 1 .. P - 1
<1>1. P \in Nat /\ P >= 3
  BY PIsPositive
<1>2. v * v \in Int
  OBVIOUS
<1>3. (v * v) % P \in Int
  BY <1>1, <1>2, Reduced
<1> DEFINE e == ((v * v) % P) * (v + tag + 3) + 7 * tag * v + 11 * tag + 5
<1>4. e \in Int
  BY <1>3
<1>5. Opaque(tag, v) = (e % (P - 1)) + 1
  BY DEF Opaque
<1> HIDE DEF e
<1>6. e % (P - 1) \in 0 .. P - 2
  BY <1>1, <1>4
<1> QED
  BY <1>1, <1>5, <1>6

\* A drawn value is a number, and never 0.
LEMMA NoiseType ==
  ASSUME NEW seed \in Int, NEW tag \in Int, NEW k \in Int
  PROVE  Noise(seed, tag, k) \in Number /\ Noise(seed, tag, k)[1] # 0
<1>1. P \in Nat /\ P >= 3
  BY PIsPositive
<1> DEFINE s == 13 + 17 * seed
           t == 29 + 19 * seed
           u == 31 * tag + 7 * k + 3
           v == 37 * tag + 5 * k + 2
<1>2. s \in Int /\ t \in Int /\ u \in Int /\ v \in Int
  OBVIOUS
<1>3. Noise(seed, tag, k) = <<Opaque(s, u % P), Opaque(t, v % P)>>
  BY DEF Noise
<1> HIDE DEF s, t, u, v
<1>4. u % P \in Int /\ v % P \in Int
  BY <1>1, <1>2, Reduced
<1>5. Opaque(s, u % P) \in 1 .. P - 1 /\ Opaque(t, v % P) \in 1 .. P - 1
  BY <1>2, <1>4, OpaqueType
<1>6. <<Opaque(s, u % P), Opaque(t, v % P)>> \in Number
  BY <1>1, <1>5 DEF Number
<1> QED
  BY <1>1, <1>3, <1>5, <1>6

\* softplus of a number is a number.
LEMMA SoftplusType ==
  ASSUME NEW a \in Number
  PROVE  Softplus(a) \in Number
<1>1. P \in Nat /\ P >= 3
  BY PIsPositive
<1>2. a[1] \in Int /\ a[2] \in Int
  BY NumberParts
<1> DEFINE f == Opaque(5, a[1])
           g == Opaque(2, a[1])
<1>3. f \in 1 .. P - 1 /\ g \in 1 .. P - 1
  <2>1. Opaque(5, a[1]) \in 1 .. P - 1
    <3> DEFINE five == 5
    <3>1. five \in Int
      OBVIOUS
    <3> HIDE DEF five
    <3>2. Opaque(five, a[1]) \in 1 .. P - 1
      BY <1>2, <3>1, OpaqueType
    <3> QED
      BY <3>2 DEF five
  <2>2. Opaque(2, a[1]) \in 1 .. P - 1
    <3> DEFINE two == 2
    <3>1. two \in Int
      OBVIOUS
    <3> HIDE DEF two
    <3>2. Opaque(two, a[1]) \in 1 .. P - 1
      BY <1>2, <3>1, OpaqueType
    <3> QED
      BY <3>2 DEF two
  <2> QED
    BY <2>1, <2>2
<1>4. Softplus(a) = <<f, (g * a[2]) % P>>
  BY DEF Softplus, Chain
<1> HIDE DEF f, g
<1>5. g * a[2] \in Int
  BY <1>1, <1>2, <1>3
<1>6. (g * a[2]) % P \in 0 .. P - 1
  BY <1>5, Reduced
<1>7. <<f, (g * a[2]) % P>> \in Number
  BY <1>1, <1>3, <1>6 DEF Number
<1> QED
  BY <1>4, <1>7

-----------------------------------------------------------------------------
(* Numbers with and without a direction *)

\* The numbers no direction changes.
Still == (0 .. P - 1) \X {0}

\* Both kinds of numbers are closed under the operations of Field, so that what
\* is said of one kind is said of the other.
Kind(S) == S = Number \/ S = Still

\* A kind's numbers are numbers.
LEMMA KindIs ==
  ASSUME NEW S, Kind(S)
  PROVE  S \subseteq Number /\ Kind(Number) /\ Kind(Still) /\ Still \subseteq S
<1>1. P \in Nat /\ P >= 3
  BY PIsPositive
<1>2. Still \subseteq Number
  BY <1>1 DEF Still, Number
<1> QED
  BY <1>2 DEF Kind

\* A number without a direction has derivative 0.
LEMMA StillParts ==
  ASSUME NEW x \in Still
  PROVE  x = <<x[1], 0>> /\ x[1] \in 0 .. P - 1 /\ x[2] = 0 /\ x[1] \in Int /\ x \in Number
BY PIsPositive DEF Still, Number

\* Remainder and 0: a number without a direction.
LEMMA StillIs ==
  ASSUME NEW u \in 0 .. P - 1
  PROVE  <<u, 0>> \in Still
BY DEF Still

\* A remainder of zero.
LEMMA NothingLeft == 0 % P = 0
BY PIsPositive

\* The four operations keep a kind.
LEMMA KindOps ==
  ASSUME NEW S, Kind(S), NEW x \in S, NEW y \in S
  PROVE  x (+) y \in S /\ x (-) y \in S /\ x (.) y \in S /\ Neg(x) \in S
<1>1. CASE S = Number
  BY <1>1, NumberOps
<1>2. CASE S = Still
  <2>1. x[1] \in Int /\ y[1] \in Int /\ x[2] = 0 /\ y[2] = 0
    BY <1>2, StillParts
  <2> DEFINE a == x[1]
             b == y[1]
  <2>2. x (+) y = <<(a + b) % P, (0 + 0) % P>> /\ x (-) y = <<(a - b) % P, (0 - 0) % P>>
        /\ x (.) y = <<(a * b) % P, (a * 0 + 0 * b) % P>> /\ Neg(x) = <<(-a) % P, (-0) % P>>
    BY <2>1 DEF (+), (-), (.), Neg
  <2>3. a \in Int /\ b \in Int
    BY <2>1
  <2> HIDE DEF a, b
  <2>4. a + b \in Int /\ a - b \in Int /\ a * b \in Int /\ -a \in Int
    BY <2>3
  <2>5. (a + b) % P \in 0 .. P - 1 /\ (a - b) % P \in 0 .. P - 1 /\ (a * b) % P \in 0 .. P - 1 /\ (-a) % P \in 0 .. P - 1
    BY <2>4, Reduced
  <2>6. 0 + 0 = 0 /\ 0 - 0 = 0 /\ -0 = 0 /\ a * 0 + 0 * b = 0
    <3>1. a * 0 = 0 /\ 0 * b = 0
      BY <2>3
    <3>2. a * 0 + 0 * b = 0 + 0
      BY <3>1
    <3>3. 0 + 0 = 0 /\ 0 - 0 = 0
      OBVIOUS
    <3>4. -0 = 0 - 0
      <4>1. \A u \in Int : -u = 0 - u
        OBVIOUS
      <4>2. 0 \in Int
        OBVIOUS
      <4> QED
        BY <4>1, <4>2, Zenon
    <3> QED
      BY <3>2, <3>3, <3>4
  <2>7. x (+) y = <<(a + b) % P, 0>> /\ x (-) y = <<(a - b) % P, 0>>
        /\ x (.) y = <<(a * b) % P, 0>> /\ Neg(x) = <<(-a) % P, 0>>
    BY <2>2, <2>6, NothingLeft
  <2> QED
    BY <1>2, <2>5, <2>7, StillIs
<1> QED
  BY <1>1, <1>2 DEF Kind

\* Constants have no direction.
LEMMA KindConstants ==
  ASSUME NEW S, Kind(S)
  PROVE  Zero \in S /\ One \in S /\ Two \in S /\ Half \in S /\ \A v \in Int : Con(v) \in S
<1>1. P \in Nat /\ P >= 3
  BY PIsPositive
<1>2. (P + 1) \div 2 \in 0 .. P - 1
  BY <1>1
<1>3. Zero \in Still /\ One \in Still /\ Two \in Still /\ Half \in Still
  BY <1>1, <1>2 DEF Still, Zero, One, Two, Half
<1>4. ASSUME NEW v \in Int PROVE Con(v) \in Still
  <2>1. v % P \in 0 .. P - 1
    BY Reduced
  <2> QED
    BY <2>1, StillIs DEF Con
<1> QED
  BY <1>3, <1>4, KindIs

\* Reciprocals and quotients keep a kind.
LEMMA KindQuotient ==
  ASSUME NEW S, Kind(S), NEW x \in S, NEW y \in S
  PROVE  Recip(y) \in S /\ x (/) y \in S
<1>1. Recip(y) \in S
  <2>1. CASE S = Number
    BY <2>1, RecipType
  <2>2. CASE S = Still
    <3>1. P \in Nat /\ P >= 3 /\ P - 2 \in Nat
      BY PIsPositive
    <3> DEFINE v == Inverse1(y[1])
    <3>2. y[1] \in Int /\ y[2] = 0
      BY <2>2, StillParts
    <3>3. v \in 0 .. P - 1
      BY <3>1, <3>2, PowerType DEF Inverse1
    <3>4. Recip(y) = <<v, (((-y[2] * v) % P) * v) % P>>
      BY DEF Recip
    <3> HIDE DEF v
    <3>5. v \in Int
      BY <3>1, <3>3
    <3>6. -y[2] * v = 0
      BY <3>2, <3>5
    <3>7. ((-y[2] * v) % P) * v = 0
      BY <3>5, <3>6, NothingLeft
    <3>8. Recip(y) = <<v, 0>>
      BY <3>4, <3>7, NothingLeft
    <3> QED
      BY <2>2, <3>3, <3>8, StillIs
  <2> QED
    BY <2>1, <2>2 DEF Kind
<1> QED
  BY <1>1, KindOps DEF (/)

\* A function of a number keeps its kind, whatever its value and derivative there.
LEMMA KindChain ==
  ASSUME NEW S, Kind(S), NEW a \in S, NEW f \in 0 .. P - 1, NEW d0 \in Int
  PROVE  Chain(f, d0, a) \in S
<1>1. a \in Number /\ a[2] \in Int
  BY KindIs, NumberParts
<1>2. d0 * a[2] \in Int
  BY <1>1
<1>3. (d0 * a[2]) % P \in 0 .. P - 1
  BY <1>2, Reduced
<1>4. Chain(f, d0, a) \in Number
  BY <1>3 DEF Chain, Number
<1>5. CASE S = Still
  <2>1. a[2] = 0
    BY <1>5, StillParts
  <2>2. d0 * a[2] = 0
    BY <2>1
  <2>3. Chain(f, d0, a) = <<f, 0>>
    BY <2>2, NothingLeft DEF Chain
  <2> QED
    BY <1>5, <2>3, StillIs
<1> QED
  BY <1>4, <1>5 DEF Kind

\* What is left of an opaque value is a remainder.
LEMMA OpaqueIn ==
  ASSUME NEW tag \in Int, NEW v \in Int
  PROVE  Opaque(tag, v) \in 0 .. P - 1 /\ Opaque(tag, v) \in Int
<1>1. Opaque(tag, v) \in 1 .. P - 1 /\ P \in Nat
  BY OpaqueType, PIsPositive
<1> QED
  BY <1>1

\* Elementary functions keep a kind.
LEMMA KindFunctions ==
  ASSUME NEW S, Kind(S), NEW a \in S
  PROVE  Exp(a) \in S /\ Tanh(a) \in S /\ Sqrt(a) \in S /\ Softplus(a) \in S
<1>1. a[1] \in Int /\ P \in Nat /\ P >= 3 /\ P - 2 \in Nat
  BY KindIs, NumberParts, PIsPositive
<1>2. \A tag \in Int : Opaque(tag, a[1]) \in 0 .. P - 1 /\ Opaque(tag, a[1]) \in Int
  BY <1>1, OpaqueIn
<1>3. 1 \in Int /\ 2 \in Int /\ 3 \in Int /\ 4 \in Int /\ 5 \in Int
  OBVIOUS
<1> DEFINE e == Opaque(1, a[1])
           u == Opaque(2, a[1])
           y == Opaque(3, a[1])
           r == Opaque(4, a[1])
           f == Opaque(5, a[1])
<1>4. e \in 0 .. P - 1 /\ u \in Int /\ y \in 0 .. P - 1 /\ r \in 0 .. P - 1 /\ f \in 0 .. P - 1
      /\ e \in Int /\ y \in Int /\ r \in Int
  BY <1>2, <1>3
<1>5. Exp(a) = Chain(e, e, a)
  BY DEF Exp
<1>6. Tanh(a) = Chain(y, (1 - ((y * y) % P)) % P, a)
  BY DEF Tanh
<1>7. Sqrt(a) = Chain(r, Inverse1((2 * r) % P), a)
  BY DEF Sqrt
<1>8. Softplus(a) = Chain(f, u, a)
  BY DEF Softplus
<1> HIDE DEF e, u, y, r, f
<1>9. (1 - ((y * y) % P)) % P \in Int
  <2>1. y * y \in Int
    BY <1>4
  <2>2. (y * y) % P \in Int
    BY <2>1, Reduced
  <2>3. 1 - ((y * y) % P) \in Int
    BY <2>2
  <2> QED
    BY <2>3, Reduced
<1>10. Inverse1((2 * r) % P) \in Int
  <2>1. 2 * r \in Int
    BY <1>4
  <2>2. (2 * r) % P \in Int
    BY <2>1, Reduced
  <2>3. Inverse1((2 * r) % P) \in 0 .. P - 1
    BY <1>1, <2>2, PowerType DEF Inverse1
  <2> QED
    BY <1>1, <2>3
<1> QED
  BY <1>4, <1>5, <1>6, <1>7, <1>8, <1>9, <1>10, KindChain

\* So do cosine and sine.
LEMMA KindCircle ==
  ASSUME NEW S, Kind(S), NEW a \in S
  PROVE  Cos(a) \in S /\ Sin(a) \in S
<1>1. a[1] \in Int /\ P \in Nat /\ P >= 3 /\ P - 2 \in Nat
  BY KindIs, NumberParts, PIsPositive
<1> DEFINE t == Opaque(6, a[1])
           i0 == Inverse1((1 + t * t) % P)
           c == (((1 - t * t) % P) * i0) % P
           s == (2 * t * i0) % P
<1>2. t \in Int
  <2>1. 6 \in Int
    OBVIOUS
  <2> QED
    BY <1>1, <2>1, OpaqueIn
<1>3. Circle(a[1]) = <<c, s>>
  BY DEF Circle, Given, OnCircle
<1> HIDE DEF t
<1>4. t * t \in Int
  BY <1>2
<1>5. 1 + t * t \in Int /\ 1 - t * t \in Int
  BY <1>4
<1>6. (1 + t * t) % P \in Int /\ (1 - t * t) % P \in Int
  BY <1>5, Reduced
<1>7. i0 \in 0 .. P - 1
  BY <1>1, <1>6, PowerType DEF Inverse1
<1>8. i0 \in Int
  BY <1>1, <1>7
<1> HIDE DEF i0
<1>9. ((1 - t * t) % P) * i0 \in Int /\ 2 * t * i0 \in Int
  BY <1>2, <1>6, <1>8
<1>10. c \in 0 .. P - 1 /\ s \in 0 .. P - 1
  BY <1>9, Reduced
<1> HIDE DEF c, s
<1>11. c \in Int /\ s \in Int /\ -s \in Int
  BY <1>1, <1>10
<1>12. (-s) % P \in Int
  BY <1>11, Reduced
<1>13. Cos(a) = Chain(c, (-s) % P, a) /\ Sin(a) = Chain(s, c, a)
  BY <1>3 DEF Cos, Sin, Given
<1> QED
  BY <1>10, <1>11, <1>12, <1>13, KindChain

\* So does the angle of a point.
LEMMA KindAngle ==
  ASSUME NEW S, Kind(S), NEW s \in S, NEW r \in S
  PROVE  Atan2(s, r) \in S
<1>1. s[1] \in Int /\ s[2] \in Int /\ r[1] \in Int /\ r[2] \in Int /\ P \in Nat /\ P >= 3 /\ P - 2 \in Nat
  BY KindIs, NumberParts, PIsPositive
<1> DEFINE m0 == Inverse1((r[1] * r[1] + s[1] * s[1]) % P)
           q == (r[1] * s[2] - s[1] * r[2]) % P
           o == Opaque(9, (r[1] + 5 * s[1]) % P)
<1>2. Atan2(s, r) = <<o, (q * m0) % P>>
  BY DEF Atan2
<1>3. r[1] * r[1] \in Int /\ s[1] * s[1] \in Int /\ r[1] * s[2] \in Int /\ s[1] * r[2] \in Int /\ r[1] + 5 * s[1] \in Int
  BY <1>1
<1>4. r[1] * r[1] + s[1] * s[1] \in Int /\ r[1] * s[2] - s[1] * r[2] \in Int
  BY <1>3
<1>5. (r[1] * r[1] + s[1] * s[1]) % P \in Int /\ q \in Int /\ (r[1] + 5 * s[1]) % P \in Int
  BY <1>3, <1>4, Reduced
<1>6. m0 \in 0 .. P - 1
  BY <1>1, <1>5, PowerType DEF Inverse1
<1>7. m0 \in Int
  BY <1>1, <1>6
<1>8. o \in 0 .. P - 1
  <2>1. 9 \in Int
    OBVIOUS
  <2> QED
    BY <1>5, <2>1, OpaqueIn
<1>9. CASE S = Still
  <2>1. s[2] = 0 /\ r[2] = 0
    BY <1>9, StillParts
  <2>2. r[1] * s[2] - s[1] * r[2] = 0
    BY <1>1, <2>1
  <2>3. q = 0
    BY <2>2, NothingLeft
  <2> HIDE DEF m0, q, o
  <2>4. q * m0 = 0
    BY <1>7, <2>3
  <2>5. Atan2(s, r) = <<o, 0>>
    BY <1>2, <2>4, NothingLeft
  <2> QED
    BY <1>8, <1>9, <2>5, StillIs
<1>10. CASE S = Number
  <2> HIDE DEF m0, q, o
  <2>1. q * m0 \in Int
    BY <1>5, <1>7
  <2>2. (q * m0) % P \in 0 .. P - 1
    BY <2>1, Reduced
  <2> QED
    BY <1>2, <1>8, <1>10, <2>2 DEF Number
<1> QED
  BY <1>9, <1>10 DEF Kind

\* Complex numbers of a kind.
PairsOf(S) == S \X S

\* Both parts of a pair of a kind are of that kind.
LEMMA PairParts ==
  ASSUME NEW S, NEW x \in PairsOf(S)
  PROVE  x[1] \in S /\ x[2] \in S
BY DEF PairsOf

\* The sum of two pairs of a kind is a pair of that kind.
LEMMA KindPair ==
  ASSUME NEW S, Kind(S), NEW x \in PairsOf(S), NEW y \in PairsOf(S)
  PROVE  CAdd(x, y) \in PairsOf(S)
<1>1. x[1] (+) y[1] \in S /\ x[2] (+) y[2] \in S
  BY PairParts, KindOps
<1> QED
  BY <1>1 DEF CAdd, PairsOf

\* A pair scaled by a number of its kind is a pair of that kind.
LEMMA KindScale ==
  ASSUME NEW S, Kind(S), NEW s \in S, NEW x \in PairsOf(S)
  PROVE  CScale(s, x) \in PairsOf(S)
<1>1. s (.) x[1] \in S /\ s (.) x[2] \in S
  BY PairParts, KindOps
<1> QED
  BY <1>1 DEF CScale, PairsOf

\* A quarter turn keeps a pair's kind, and so does taking its magnitude.
LEMMA KindTurn ==
  ASSUME NEW S, Kind(S), NEW x \in PairsOf(S)
  PROVE  CTurn(x) \in PairsOf(S) /\ Mag(x) \in S
<1>1. x[1] \in S /\ x[2] \in S
  BY PairParts
<1>2. Neg(x[2]) \in S /\ x[1] (.) x[1] \in S /\ x[2] (.) x[2] \in S
  BY <1>1, KindOps
<1>3. (x[1] (.) x[1]) (+) (x[2] (.) x[2]) \in S
  BY <1>2, KindOps
<1> QED
  BY <1>1, <1>2, <1>3 DEF CTurn, Mag, CDot, PairsOf

\* A sum of one kind is of that kind.
LEMMA KindSum ==
  ASSUME NEW S, Kind(S), NEW n0 \in Nat, NEW f, \A k \in 0 .. n0 - 1 : f[k] \in S
  PROVE  SumTo(n0, f) \in S
<1>1. \A k \in 0 .. n0 - 1 : f[k] \in Number
  BY KindIs
<1>2. PICK t : SumsOn(t, n0, f) /\ SumTo(n0, f) = t[n0] /\ t \in [0 .. n0 -> Number]
  <2>1. \E t : SumsOn(t, n0, f) /\ SumTo(n0, f) = t[n0] /\ t \in [0 .. n0 -> Number]
    BY <1>1, SumsExist
  <2> QED
    BY <2>1
<1>3. t = [k \in 0 .. n0 |-> IF k = 0 THEN Zero ELSE t[k - 1] (+) f[k - 1]]
  BY <1>2 DEF SumsOn
<1> DEFINE T == {k \in 0 .. n0 : t[k] \in S}
<1>4. 0 \in T
  BY <1>3, KindConstants
<1>5. ASSUME NEW k \in 1 .. n0, k - 1 \in T PROVE k \in T
  <2>1. t[k] = t[k - 1] (+) f[k - 1] /\ k - 1 \in 0 .. n0 - 1
    BY <1>3
  <2>2. t[k - 1] \in S /\ f[k - 1] \in S
    BY <1>5, <2>1
  <2> QED
    BY <2>1, <2>2, KindOps
<1> HIDE DEF T
<1>6. \A k \in 0 .. n0 : k \in T
  BY <1>4, <1>5, Ascent
<1> QED
  BY <1>2, <1>6 DEF T

-----------------------------------------------------------------------------
(* Slopes and steps keep a kind *)

\* Rows of n0 pairs, and of n0 numbers, of a kind.
RowsOf(S, n0)    == [0 .. n0 - 1 -> PairsOf(S)]
NumbersOf(S, n0) == [0 .. n0 - 1 -> S]

\* A sequence of numbers has a number for its total.
LEMMA TotalType ==
  ASSUME NEW S, Kind(S), NEW s \in Seq(S)
  PROVE  Total(s) \in S
<1> DEFINE n0 == Len(s)
           f == [k \in 0 .. n0 - 1 |-> s[k + 1]]
<1>1. n0 \in Nat /\ \A k \in 1 .. n0 : s[k] \in S
  BY LenProperties, ElementOfSeq
<1>2. \A k \in 0 .. n0 - 1 : f[k] \in Number
  BY <1>1, KindIs
<1>3. \A k \in 1 .. n0 : f[k - 1] = s[k]
  BY <1>1
<1> DEFINE PartsOf(t) == t = [k \in 0 .. n0 |-> IF k = 0 THEN Zero ELSE t[k - 1] (+) s[k]]
<1>4. Total(s) = (CHOOSE t : PartsOf(t))[n0]
  BY DEF Total
<1> HIDE DEF f, n0
<1>5. \E t : SumsOn(t, n0, f) /\ SumTo(n0, f) = t[n0] /\ t \in [0 .. n0 -> Number]
  BY <1>1, <1>2, SumsExist
<1>6. \A t : SumsOn(t, n0, f) <=> PartsOf(t)
  <2> TAKE t
  <2>1. \A k \in 0 .. n0 : k # 0 => t[k - 1] (+) f[k - 1] = t[k - 1] (+) s[k]
    BY <1>1, <1>3
  <2>2. [k \in 0 .. n0 |-> IF k = 0 THEN Zero ELSE t[k - 1] (+) f[k - 1]]
          = [k \in 0 .. n0 |-> IF k = 0 THEN Zero ELSE t[k - 1] (+) s[k]]
    BY <2>1
  <2> QED
    BY <2>2 DEF SumsOn
<1> HIDE DEF PartsOf
<1>7. \E t : PartsOf(t)
  BY <1>5, <1>6
<1> DEFINE t == CHOOSE t : PartsOf(t)
<1>8. PartsOf(t)
  BY <1>7
<1> HIDE DEF t
<1>9. t = [k \in 0 .. n0 |-> IF k = 0 THEN Zero ELSE t[k - 1] (+) s[k]]
  BY <1>8 DEF PartsOf
<1> DEFINE T == {k \in 0 .. n0 : t[k] \in S}
<1>10. 0 \in T
  BY <1>1, <1>9, KindConstants
<1>11. ASSUME NEW k \in 1 .. n0, k - 1 \in T PROVE k \in T
  <2>1. k \in 0 .. n0 /\ k # 0 /\ t[k - 1] \in S /\ s[k] \in S
    BY <1>1, <1>11
  <2>2. t[k] = t[k - 1] (+) s[k]
    BY <1>9, <2>1
  <2>3. t[k - 1] (+) s[k] \in S
    BY <2>1, KindOps
  <2> QED
    BY <2>1, <2>2, <2>3
<1> HIDE DEF T
<1>12. \A k \in 0 .. n0 : k \in T
  BY <1>1, <1>10, <1>11, Ascent
<1> QED
  BY <1>1, <1>4, <1>12 DEF T, t

\* A function on 1 .. n0 is a sequence.
LEMMA FunctionIsSequence ==
  ASSUME NEW n0 \in Nat, NEW S, NEW s \in [1 .. n0 -> S]
  PROVE  s \in Seq(S)
BY SeqDef

\* The case of four entries.
LEMMA FourLong ==
  ASSUME NEW S, NEW s \in [1 .. 4 -> S]
  PROVE  s \in Seq(S)
<1> DEFINE four == 4
<1>1. four \in Nat /\ s \in [1 .. four -> S]
  OBVIOUS
<1> HIDE DEF four
<1> QED
  BY <1>1, FunctionIsSequence

\* The sum over the neighbours of a band, whichever exist, is a number.
LEMMA NeighbourType ==
  ASSUME NEW S, Kind(S), NEW n0 \in Nat, NEW row \in RowsOf(S, n0), NEW k \in Int
  PROVE  NeighbourSum(n0, row, k) \in S
<1> DEFINE off(k0) == <<-2, -1, 1, 2>>[k0]
           s == [k0 \in 1 .. 4 |-> MagAt(n0, row, k + off(k0))]
<1>1. \A j0 : MagAt(n0, row, j0) \in S
  <2> TAKE j0
  <2>1. CASE j0 \in 0 .. n0 - 1
    <3>1. row[j0] \in PairsOf(S)
      BY <2>1 DEF RowsOf
    <3>2. Mag(row[j0]) \in S
      BY <3>1, KindPair, KindScale, KindTurn
    <3> QED
      BY <2>1, <3>2 DEF MagAt
  <2>2. CASE j0 \notin 0 .. n0 - 1
    BY <2>2, KindConstants DEF MagAt
  <2> QED
    BY <2>1, <2>2
<1>2. s \in [1 .. 4 -> S]
  BY <1>1
<1>3. NeighbourSum(n0, row, k) = Total(s)
  BY DEF NeighbourSum
<1> HIDE DEF s
<1>4. s \in Seq(S)
  BY <1>2, FourLong
<1> QED
  BY <1>3, <1>4, TotalType

\* What the weights are, for n0 bands. A fresh model has no four-wave mixing,
\* and then numbers without a direction stay so; with mixing all that is said is
\* that numbers stay numbers.
WeightsOf(S, w0, n0) ==
  /\ w0.omega \in NumbersOf(S, n0) /\ w0.gammaRaw \in NumbersOf(S, n0)
  /\ w0.alpha \in S /\ w0.beta \in S /\ w0.chi \in S
  /\ S = Number \/ w0.chi[1] = 0
  /\ w0.mix \in [0 .. 3 -> S]

\* The phase rate of a band is a number.
LEMMA PhiType ==
  ASSUME NEW S, Kind(S), NEW n0 \in Nat, NEW row \in RowsOf(S, n0), NEW w0, WeightsOf(S, w0, n0), NEW k \in 0 .. n0 - 1
  PROVE  Phi(n0, w0, row, k) \in S
<1>1. row[k] \in PairsOf(S) /\ w0.omega[k] \in S /\ w0.alpha \in S /\ w0.beta \in S
  BY DEF RowsOf, WeightsOf, NumbersOf
<1>2. Mag(row[k]) \in S /\ NeighbourSum(n0, row, k) \in S
  BY <1>1, KindPair, KindScale, KindTurn, NeighbourType
<1>3. w0.alpha (.) Mag(row[k]) \in S /\ w0.beta (.) NeighbourSum(n0, row, k) \in S
  BY <1>1, <1>2, KindOps
<1>4. w0.omega[k] (+) (w0.alpha (.) Mag(row[k])) \in S
  BY <1>1, <1>3, KindOps
<1> QED
  BY <1>3, <1>4, KindOps DEF Phi

\* Two rows add up to a row.
LEMMA RowsAdd ==
  ASSUME NEW S, Kind(S), NEW n0 \in Nat, NEW x \in RowsOf(S, n0), NEW y \in RowsOf(S, n0)
  PROVE  ZAdd(x, y) \in RowsOf(S, n0)
<1>1. \A k \in 0 .. n0 - 1 : x[k] \in PairsOf(S) /\ y[k] \in PairsOf(S)
  BY DEF RowsOf
<1>2. \A k \in 0 .. n0 - 1 : CAdd(x[k], y[k]) \in PairsOf(S)
  BY <1>1, KindPair, KindScale, KindTurn
<1> QED
  BY <1>2 DEF ZAdd, RowsOf

\* A multiple of a row is a row.
LEMMA RowsScale ==
  ASSUME NEW S, Kind(S), NEW n0 \in Nat, NEW a \in S, NEW x \in RowsOf(S, n0)
  PROVE  ZScale(a, x) \in RowsOf(S, n0)
<1>1. \A k \in 0 .. n0 - 1 : x[k] \in PairsOf(S)
  BY DEF RowsOf
<1>2. \A k \in 0 .. n0 - 1 : CScale(a, x[k]) \in PairsOf(S)
  BY <1>1, KindPair, KindScale, KindTurn
<1> QED
  BY <1>2 DEF ZScale, RowsOf

\* The Kerr derivative of a row is a row.
LEMMA DerivativeType ==
  ASSUME NEW S, Kind(S), NEW n0 \in Nat, NEW row \in RowsOf(S, n0), NEW w0, WeightsOf(S, w0, n0), NEW g0 \in NumbersOf(S, n0)
  PROVE  KerrDerivative(n0, w0, g0, row) \in RowsOf(S, n0)
<1> DEFINE own == ZAdd(Damping(g0, row), Turning(n0, w0, row))
<1>1. DOMAIN row = 0 .. n0 - 1
  BY DEF RowsOf
<1>2. ASSUME NEW k \in 0 .. n0 - 1
      PROVE  CScale(Neg(g0[k]), row[k]) \in PairsOf(S) /\ CScale(Phi(n0, w0, row, k), CTurn(row[k])) \in PairsOf(S)
  <2>1. row[k] \in PairsOf(S) /\ g0[k] \in S
    BY DEF RowsOf, NumbersOf
  <2>2. Neg(g0[k]) \in S /\ Phi(n0, w0, row, k) \in S /\ CTurn(row[k]) \in PairsOf(S)
    BY <2>1, KindOps, KindPair, KindScale, KindTurn, PhiType
  <2> QED
    BY <2>1, <2>2, KindPair, KindScale, KindTurn
<1>3. Damping(g0, row) \in RowsOf(S, n0)
  BY <1>1, <1>2 DEF Damping, RowsOf
<1>4. Turning(n0, w0, row) \in RowsOf(S, n0)
  BY <1>1, <1>2 DEF Turning, RowsOf
<1>5. own \in RowsOf(S, n0)
  BY <1>3, <1>4, RowsAdd
<1>6. KerrDerivative(n0, w0, g0, row) = IF Mixes(n0, w0) THEN ZAdd(own, Mixing(n0, w0.chi, row)) ELSE own
  BY DEF KerrDerivative, Given
<1> HIDE DEF own
<1>7. CASE Mixes(n0, w0)
  <2>1. n0 > 4 /\ S = Number /\ w0.chi \in Number
    BY <1>7 DEF Mixes, WeightsOf
  <2>2. Rows(n0) = RowsOf(Number, n0)
    BY DEF Rows, RowsOf, Complex, PairsOf
  <2>3. Mixing(n0, w0.chi, row) \in RowsOf(S, n0)
    BY <2>1, <2>2, MixingKeepsEnergy
  <2> QED
    BY <1>5, <1>6, <1>7, <2>3, RowsAdd
<1>8. CASE ~Mixes(n0, w0)
  BY <1>5, <1>6, <1>8
<1> QED
  BY <1>7, <1>8

\* A list of one and another.
LEMMA Append2 ==
  ASSUME NEW a, NEW b
  PROVE  Append(<<a>>, b) = <<a, b>>
<1> DEFINE S == {a, b}
           u == Append(<<a>>, b)
           v == <<a, b>>
<1>1. <<a>> \in Seq(S) /\ Len(<<a>>) = 1 /\ b \in S /\ v \in Seq(S) /\ Len(v) = 2
  OBVIOUS
<1>2. <<a>>[1] = a /\ v[1] = a /\ v[2] = b
  OBVIOUS
<1>3. u \in Seq(S) /\ Len(u) = 2 /\ (\A k \in 1 .. 1 : u[k] = <<a>>[k]) /\ u[2] = b
  <2> HIDE DEF S, v
  <2> QED
    BY <1>1, AppendProperties
<1> HIDE DEF S, u, v
<1>4. u[1] = v[1] /\ u[2] = v[2]
  BY <1>2, <1>3
<1>5. \A k \in 1 .. 2 : u[k] = v[k]
  <2>1. \A k \in 1 .. 2 : k = 1 \/ k = 2
    OBVIOUS
  <2> QED
    BY <1>4, <2>1
<1>6. u = v
  BY <1>1, <1>3, <1>5, SeqEqual
<1> QED
  BY <1>6 DEF u, v

\* A list of two and another.
LEMMA Append3 ==
  ASSUME NEW a, NEW b, NEW c
  PROVE  Append(<<a, b>>, c) = <<a, b, c>>
<1> DEFINE S == {a, b, c}
           u == Append(<<a, b>>, c)
           v == <<a, b, c>>
<1>1. <<a, b>> \in Seq(S) /\ Len(<<a, b>>) = 2 /\ c \in S /\ v \in Seq(S) /\ Len(v) = 3
  OBVIOUS
<1>2. <<a, b>>[1] = a /\ <<a, b>>[2] = b /\ v[1] = a /\ v[2] = b /\ v[3] = c
  OBVIOUS
<1>3. u \in Seq(S) /\ Len(u) = 3 /\ (\A k \in 1 .. 2 : u[k] = <<a, b>>[k]) /\ u[3] = c
  <2> HIDE DEF S, v
  <2> QED
    BY <1>1, AppendProperties
<1> HIDE DEF S, u, v
<1>4. u[1] = v[1] /\ u[2] = v[2] /\ u[3] = v[3]
  BY <1>2, <1>3
<1>5. \A k \in 1 .. 3 : u[k] = v[k]
  <2>1. \A k \in 1 .. 3 : k = 1 \/ k = 2 \/ k = 3
    OBVIOUS
  <2> QED
    BY <1>4, <2>1
<1>6. u = v
  BY <1>1, <1>3, <1>5, SeqEqual
<1> QED
  BY <1>6 DEF u, v

\* A list of three and another.
LEMMA Append4 ==
  ASSUME NEW a, NEW b, NEW c, NEW e
  PROVE  Append(<<a, b, c>>, e) = <<a, b, c, e>>
<1> DEFINE S == {a, b, c, e}
           u == Append(<<a, b, c>>, e)
           v == <<a, b, c, e>>
<1>1. <<a, b, c>> \in Seq(S) /\ Len(<<a, b, c>>) = 3 /\ e \in S /\ v \in Seq(S) /\ Len(v) = 4
  OBVIOUS
<1>2. <<a, b, c>>[1] = a /\ <<a, b, c>>[2] = b /\ <<a, b, c>>[3] = c /\ v[1] = a /\ v[2] = b /\ v[3] = c /\ v[4] = e
  OBVIOUS
<1>3. u \in Seq(S) /\ Len(u) = 4 /\ (\A k \in 1 .. 3 : u[k] = <<a, b, c>>[k]) /\ u[4] = e
  <2> HIDE DEF S, v
  <2> QED
    BY <1>1, AppendProperties
<1> HIDE DEF S, u, v
<1>4. u[1] = v[1] /\ u[2] = v[2] /\ u[3] = v[3] /\ u[4] = v[4]
  BY <1>2, <1>3
<1>5. \A k \in 1 .. 4 : u[k] = v[k]
  <2>1. \A k \in 1 .. 4 : k = 1 \/ k = 2 \/ k = 3 \/ k = 4
    OBVIOUS
  <2> QED
    BY <1>4, <2>1
<1>6. u = v
  BY <1>1, <1>3, <1>5, SeqEqual
<1> QED
  BY <1>6 DEF u, v

\* Where Stages takes the slope after k.
Slope(n0, w0, g0, dt0, row, k, x) ==
  KerrDerivative(n0, w0, g0, EvalPoint(row, dt0, k, x))

\* t is the table of an RK4 step's slopes, each taken where the one before it
\* leads.
StagesOn(t, n0, w0, g0, dt0, row) ==
  t = [k \in 0 .. 4 |-> IF k = 0 THEN <<>>
        ELSE Append(t[k - 1], Table(KerrDerivative(n0, w0, g0,
               IF k - 1 = 0 THEN row ELSE Table(EvalPoint(row, dt0, k - 1, t[k - 1][k - 1])))))]

\* The point a slope is taken at is a row, and so is the slope.
LEMMA SlopeType ==
  ASSUME NEW S, Kind(S), NEW n0 \in Nat, NEW row \in RowsOf(S, n0), NEW w0, WeightsOf(S, w0, n0), NEW g0 \in NumbersOf(S, n0),
         NEW dt0 \in S, NEW k \in 1 .. 3, NEW x \in RowsOf(S, n0)
  PROVE  EvalPoint(row, dt0, k, x) \in RowsOf(S, n0) /\ Slope(n0, w0, g0, dt0, row, k, x) \in RowsOf(S, n0)
<1>1. Half (.) dt0 \in S
  BY KindConstants, KindOps
<1>2. ZScale(Half (.) dt0, x) \in RowsOf(S, n0) /\ ZScale(dt0, x) \in RowsOf(S, n0)
  BY <1>1, RowsScale
<1>3. EvalPoint(row, dt0, k, x) \in RowsOf(S, n0)
  BY <1>2, RowsAdd DEF EvalPoint
<1> QED
  BY <1>3, DerivativeType DEF Slope

\* The four slopes of a step are four rows.
LEMMA StagesType ==
  ASSUME NEW S, Kind(S), NEW n0 \in Nat, NEW row \in RowsOf(S, n0), NEW w0, WeightsOf(S, w0, n0), NEW g0 \in NumbersOf(S, n0), NEW dt0 \in S
  PROVE  /\ Stages(n0, w0, g0, dt0, row) \in Seq(RowsOf(S, n0))
         /\ \A k \in 1 .. 4 : Stages(n0, w0, g0, dt0, row)[k] \in RowsOf(S, n0)
<1> DEFINE a == KerrDerivative(n0, w0, g0, row)
           b == Slope(n0, w0, g0, dt0, row, 1, a)
           c == Slope(n0, w0, g0, dt0, row, 2, b)
           e == Slope(n0, w0, g0, dt0, row, 3, c)
<1>1. a \in RowsOf(S, n0)
  BY DerivativeType
<1> HIDE DEF a
<1>2. b \in RowsOf(S, n0)
  BY <1>1, SlopeType
<1> HIDE DEF b
<1>3. c \in RowsOf(S, n0)
  BY <1>2, SlopeType
<1> HIDE DEF c
<1>4. e \in RowsOf(S, n0)
  BY <1>3, SlopeType
<1> HIDE DEF e
<1> DEFINE g == [k \in 0 .. 4 |-> IF k = 0 THEN <<>> ELSE IF k = 1 THEN <<a>> ELSE IF k = 2 THEN <<a, b>>
                                  ELSE IF k = 3 THEN <<a, b, c>> ELSE <<a, b, c, e>>]
           next(s, k) == Append(s, Table(KerrDerivative(n0, w0, g0,
                           IF k - 1 = 0 THEN row ELSE Table(EvalPoint(row, dt0, k - 1, s[k - 1])))))
<1>5. /\ next(<<>>, 1) = <<a>> /\ next(<<a>>, 2) = <<a, b>>
      /\ next(<<a, b>>, 3) = <<a, b, c>> /\ next(<<a, b, c>>, 4) = <<a, b, c, e>>
  <2>1. next(<<>>, 1) = <<a>>
    <3>1. next(<<>>, 1) = Append(<<>>, a)
      BY TableIs DEF a
    <3> QED
      BY <3>1
  <2>2. next(<<a>>, 2) = <<a, b>>
    <3>1. <<a>>[1] = a
      OBVIOUS
    <3>2. next(<<a>>, 2) = Append(<<a>>, b)
      BY <3>1, TableIs DEF b, Slope
    <3> QED
      BY <3>2, Append2
  <2>3. next(<<a, b>>, 3) = <<a, b, c>>
    <3>1. <<a, b>>[2] = b
      OBVIOUS
    <3>2. next(<<a, b>>, 3) = Append(<<a, b>>, c)
      BY <3>1, TableIs DEF c, Slope
    <3> QED
      BY <3>2, Append3
  <2>4. next(<<a, b, c>>, 4) = <<a, b, c, e>>
    <3>1. <<a, b, c>>[3] = c
      OBVIOUS
    <3>2. next(<<a, b, c>>, 4) = Append(<<a, b, c>>, e)
      BY <3>1, TableIs DEF e, Slope
    <3> QED
      BY <3>2, Append4
  <2> QED
    BY <2>1, <2>2, <2>3, <2>4
<1>6. Stages(n0, w0, g0, dt0, row) = (CHOOSE t : StagesOn(t, n0, w0, g0, dt0, row))[4]
  BY DEF Stages, StagesOn
<1>7. \A t : StagesOn(t, n0, w0, g0, dt0, row) <=> t = [k \in 0 .. 4 |-> IF k = 0 THEN <<>> ELSE next(t[k - 1], k)]
  BY DEF StagesOn
<1> HIDE DEF next
<1>8. g = [k \in 0 .. 4 |-> IF k = 0 THEN <<>> ELSE next(g[k - 1], k)]
  <2>1. \A k \in 0 .. 4 : k = 0 \/ k = 1 \/ k = 2 \/ k = 3 \/ k = 4
    OBVIOUS
  <2>2. g[0] = <<>> /\ g[1] = <<a>> /\ g[2] = <<a, b>> /\ g[3] = <<a, b, c>> /\ g[4] = <<a, b, c, e>>
    OBVIOUS
  <2>3. DOMAIN g = 0 .. 4 /\ g = [k \in 0 .. 4 |-> g[k]]
    OBVIOUS
  <2> HIDE DEF g
  <2>4. \A k \in 0 .. 4 : g[k] = IF k = 0 THEN <<>> ELSE next(g[k - 1], k)
    BY <1>5, <2>1, <2>2
  <2> QED
    BY <2>3, <2>4
<1> HIDE DEF g
<1>9. StagesOn(g, n0, w0, g0, dt0, row)
  BY <1>7, <1>8
<1> DEFINE t == CHOOSE t : StagesOn(t, n0, w0, g0, dt0, row)
<1>10. StagesOn(t, n0, w0, g0, dt0, row)
  BY <1>9
<1> HIDE DEF t
<1>11. t = [k \in 0 .. 4 |-> IF k = 0 THEN <<>> ELSE next(t[k - 1], k)]
  BY <1>7, <1>10
<1>12. t[4] = <<a, b, c, e>>
  <2>1. t[0] = <<>>
    BY <1>11
  <2>2. t[1] = <<a>>
    BY <1>5, <1>11, <2>1
  <2>3. t[2] = <<a, b>>
    BY <1>5, <1>11, <2>2
  <2>4. t[3] = <<a, b, c>>
    BY <1>5, <1>11, <2>3
  <2> QED
    BY <1>5, <1>11, <2>4
<1>13. Stages(n0, w0, g0, dt0, row) = <<a, b, c, e>>
  BY <1>6, <1>12 DEF t
<1>14. <<a, b, c, e>> \in [1 .. 4 -> RowsOf(S, n0)]
  BY <1>1, <1>2, <1>3, <1>4
<1> QED
  BY <1>13, <1>14, FourLong

\* A weighted step from x along four slopes.
LEMMA CombinedType ==
  ASSUME NEW S, Kind(S), NEW dt0 \in S, NEW mix \in [0 .. 3 -> S], NEW x \in PairsOf(S),
         NEW a \in PairsOf(S), NEW b \in PairsOf(S), NEW c \in PairsOf(S), NEW e \in PairsOf(S)
  PROVE  CAdd(x, CScale(dt0, CAdd(CAdd(CScale(mix[0], a), CScale(mix[1], b)),
                                  CAdd(CScale(mix[2], c), CScale(mix[3], e))))) \in PairsOf(S)
<1>1. mix[0] \in S /\ mix[1] \in S /\ mix[2] \in S /\ mix[3] \in S
  OBVIOUS
<1> DEFINE s1 == CScale(mix[0], a)
           s2 == CScale(mix[1], b)
           s3 == CScale(mix[2], c)
           s4 == CScale(mix[3], e)
<1>2. s1 \in PairsOf(S) /\ s2 \in PairsOf(S) /\ s3 \in PairsOf(S) /\ s4 \in PairsOf(S)
  BY <1>1, KindPair, KindScale, KindTurn
<1> HIDE DEF s1, s2, s3, s4
<1>3. CAdd(s1, s2) \in PairsOf(S) /\ CAdd(s3, s4) \in PairsOf(S)
  BY <1>2, KindPair, KindScale, KindTurn
<1>4. CAdd(CAdd(s1, s2), CAdd(s3, s4)) \in PairsOf(S)
  BY <1>3, KindPair, KindScale, KindTurn
<1>5. CScale(dt0, CAdd(CAdd(s1, s2), CAdd(s3, s4))) \in PairsOf(S)
  BY <1>4, KindPair, KindScale, KindTurn
<1>6. CAdd(x, CScale(dt0, CAdd(CAdd(s1, s2), CAdd(s3, s4)))) \in PairsOf(S)
  BY <1>5, KindPair, KindScale, KindTurn
<1> QED
  BY <1>6 DEF s1, s2, s3, s4

\* A Runge-Kutta step leads from a row to a row.
LEMMA Rk4StepType ==
  ASSUME NEW S, Kind(S), NEW n0 \in Nat, NEW row \in RowsOf(S, n0), NEW w0, WeightsOf(S, w0, n0), NEW dt0 \in S,
         NEW slopes, \A k \in 1 .. 4 : slopes[k] \in RowsOf(S, n0)
  PROVE  Rk4Step(w0, dt0, row, slopes) \in RowsOf(S, n0)
<1>1. slopes[1] \in RowsOf(S, n0) /\ slopes[2] \in RowsOf(S, n0) /\ slopes[3] \in RowsOf(S, n0) /\ slopes[4] \in RowsOf(S, n0)
  OBVIOUS
<1>2. w0.mix \in [0 .. 3 -> S]
  BY DEF WeightsOf
<1>3. ASSUME NEW k \in 0 .. n0 - 1
      PROVE  CAdd(row[k], CScale(dt0, CAdd(CAdd(CScale(w0.mix[0], slopes[1][k]), CScale(w0.mix[1], slopes[2][k])),
                CAdd(CScale(w0.mix[2], slopes[3][k]), CScale(w0.mix[3], slopes[4][k]))))) \in PairsOf(S)
  <2>1. row[k] \in PairsOf(S) /\ slopes[1][k] \in PairsOf(S) /\ slopes[2][k] \in PairsOf(S) /\ slopes[3][k] \in PairsOf(S) /\ slopes[4][k] \in PairsOf(S)
    BY <1>1 DEF RowsOf
  <2> QED
    BY <1>2, <2>1, CombinedType
<1>4. DOMAIN row = 0 .. n0 - 1
  BY DEF RowsOf
<1> QED
  BY <1>3, <1>4 DEF Rk4Step, RowsOf

\* The magnitudes kept for a frozen block are numbers.
LEMMA FreezeType ==
  ASSUME NEW S, Kind(S), NEW n0 \in Nat, NEW row \in RowsOf(S, n0)
  PROVE  Freeze(n0, row) \in NumbersOf(S, n0)
BY NeighbourType DEF Freeze, NumbersOf

\* The derivative of one band, its neighbours frozen, is a complex number.
LEMMA BandDerivativeType ==
  ASSUME NEW S, Kind(S), NEW n0 \in Nat, NEW w0, WeightsOf(S, w0, n0), NEW g0 \in NumbersOf(S, n0), NEW k \in 0 .. n0 - 1,
         NEW near \in S, NEW x \in PairsOf(S)
  PROVE  KerrDerivativeBand(w0, g0, k, near, x) \in PairsOf(S)
<1>1. w0.omega[k] \in S /\ w0.alpha \in S /\ w0.beta \in S /\ g0[k] \in S
  BY DEF WeightsOf, NumbersOf
<1>2. Mag(x) \in S /\ CTurn(x) \in PairsOf(S) /\ Neg(g0[k]) \in S
  BY <1>1, KindPair, KindScale, KindTurn, KindOps
<1>3. w0.alpha (.) Mag(x) \in S /\ w0.beta (.) near \in S
  BY <1>1, <1>2, KindOps
<1>4. w0.omega[k] (+) (w0.alpha (.) Mag(x)) \in S
  BY <1>1, <1>3, KindOps
<1>5. BandSpeed(w0, k, near, x) \in S
  BY <1>3, <1>4, KindOps DEF BandSpeed
<1>6. CScale(Neg(g0[k]), x) \in PairsOf(S) /\ CScale(BandSpeed(w0, k, near, x), CTurn(x)) \in PairsOf(S)
  BY <1>2, <1>5, KindPair, KindScale, KindTurn
<1> QED
  BY <1>6, KindPair, KindScale, KindTurn DEF KerrDerivativeBand

\* The slope of a band after slope x.
BandSlope(w0, g0, dt0, k, near, z0, k0, x) == KerrDerivativeBand(w0, g0, k, near, BandPoint(z0, dt0, k0, x))

\* A later slope of one band is a complex number.
LEMMA BandSlopeType ==
  ASSUME NEW S, Kind(S), NEW n0 \in Nat, NEW w0, WeightsOf(S, w0, n0), NEW g0 \in NumbersOf(S, n0), NEW dt0 \in S, NEW k \in 0 .. n0 - 1,
         NEW near \in S, NEW z0 \in PairsOf(S), NEW k0 \in 1 .. 3, NEW x \in PairsOf(S)
  PROVE  BandSlope(w0, g0, dt0, k, near, z0, k0, x) \in PairsOf(S)
<1>1. Half (.) dt0 \in S
  BY KindConstants, KindOps
<1>2. CScale(Half (.) dt0, x) \in PairsOf(S) /\ CScale(dt0, x) \in PairsOf(S)
  BY <1>1, KindPair, KindScale, KindTurn
<1>3. BandPoint(z0, dt0, k0, x) \in PairsOf(S)
  BY <1>2, KindPair, KindScale, KindTurn DEF BandPoint
<1> QED
  BY <1>3, BandDerivativeType DEF BandSlope

\* t is the table of one band's slopes, with the sums over its neighbours held
\* at near.
BandStagesOn(t, w0, g0, dt0, k, near, z0) ==
  t = [k0 \in 0 .. 4 |-> IF k0 = 0 THEN <<>>
        ELSE Append(t[k0 - 1], KerrDerivativeBand(w0, g0, k, near,
               IF k0 - 1 = 0 THEN z0 ELSE BandPoint(z0, dt0, k0 - 1, t[k0 - 1][k0 - 1])))]

\* The four slopes of one band are complex numbers.
LEMMA BandStagesType ==
  ASSUME NEW S, Kind(S), NEW n0 \in Nat, NEW w0, WeightsOf(S, w0, n0), NEW g0 \in NumbersOf(S, n0), NEW dt0 \in S, NEW k \in 0 .. n0 - 1,
         NEW near \in S, NEW z0 \in PairsOf(S)
  PROVE  \A k0 \in 1 .. 4 : BandStages(w0, g0, dt0, k, near, z0)[k0] \in PairsOf(S)
<1> DEFINE a == KerrDerivativeBand(w0, g0, k, near, z0)
           b == BandSlope(w0, g0, dt0, k, near, z0, 1, a)
           c == BandSlope(w0, g0, dt0, k, near, z0, 2, b)
           e == BandSlope(w0, g0, dt0, k, near, z0, 3, c)
<1>1. a \in PairsOf(S)
  BY BandDerivativeType
<1> HIDE DEF a
<1>2. b \in PairsOf(S)
  BY <1>1, BandSlopeType
<1> HIDE DEF b
<1>3. c \in PairsOf(S)
  BY <1>2, BandSlopeType
<1> HIDE DEF c
<1>4. e \in PairsOf(S)
  BY <1>3, BandSlopeType
<1> HIDE DEF e
<1> DEFINE g == [k0 \in 0 .. 4 |-> IF k0 = 0 THEN <<>> ELSE IF k0 = 1 THEN <<a>> ELSE IF k0 = 2 THEN <<a, b>>
                                  ELSE IF k0 = 3 THEN <<a, b, c>> ELSE <<a, b, c, e>>]
           next(s, k0) == Append(s, KerrDerivativeBand(w0, g0, k, near,
                            IF k0 - 1 = 0 THEN z0 ELSE BandPoint(z0, dt0, k0 - 1, s[k0 - 1])))
<1>5. /\ next(<<>>, 1) = <<a>> /\ next(<<a>>, 2) = <<a, b>>
      /\ next(<<a, b>>, 3) = <<a, b, c>> /\ next(<<a, b, c>>, 4) = <<a, b, c, e>>
  <2>1. next(<<>>, 1) = <<a>>
    <3>1. next(<<>>, 1) = Append(<<>>, a)
      BY DEF a
    <3> QED
      BY <3>1
  <2>2. next(<<a>>, 2) = <<a, b>>
    <3>1. <<a>>[1] = a
      OBVIOUS
    <3>2. next(<<a>>, 2) = Append(<<a>>, b)
      BY <3>1 DEF b, BandSlope
    <3> QED
      BY <3>2, Append2
  <2>3. next(<<a, b>>, 3) = <<a, b, c>>
    <3>1. <<a, b>>[2] = b
      OBVIOUS
    <3>2. next(<<a, b>>, 3) = Append(<<a, b>>, c)
      BY <3>1 DEF c, BandSlope
    <3> QED
      BY <3>2, Append3
  <2>4. next(<<a, b, c>>, 4) = <<a, b, c, e>>
    <3>1. <<a, b, c>>[3] = c
      OBVIOUS
    <3>2. next(<<a, b, c>>, 4) = Append(<<a, b, c>>, e)
      BY <3>1 DEF e, BandSlope
    <3> QED
      BY <3>2, Append4
  <2> QED
    BY <2>1, <2>2, <2>3, <2>4
<1>6. BandStages(w0, g0, dt0, k, near, z0) = (CHOOSE t : BandStagesOn(t, w0, g0, dt0, k, near, z0))[4]
  BY DEF BandStages, BandStagesOn
<1>7. \A t : BandStagesOn(t, w0, g0, dt0, k, near, z0) <=> t = [k0 \in 0 .. 4 |-> IF k0 = 0 THEN <<>> ELSE next(t[k0 - 1], k0)]
  BY DEF BandStagesOn
<1> HIDE DEF next
<1>8. g = [k0 \in 0 .. 4 |-> IF k0 = 0 THEN <<>> ELSE next(g[k0 - 1], k0)]
  <2>1. \A k0 \in 0 .. 4 : k0 = 0 \/ k0 = 1 \/ k0 = 2 \/ k0 = 3 \/ k0 = 4
    OBVIOUS
  <2>2. g[0] = <<>> /\ g[1] = <<a>> /\ g[2] = <<a, b>> /\ g[3] = <<a, b, c>> /\ g[4] = <<a, b, c, e>>
    OBVIOUS
  <2>3. DOMAIN g = 0 .. 4 /\ g = [k0 \in 0 .. 4 |-> g[k0]]
    OBVIOUS
  <2> HIDE DEF g
  <2>4. \A k0 \in 0 .. 4 : g[k0] = IF k0 = 0 THEN <<>> ELSE next(g[k0 - 1], k0)
    BY <1>5, <2>1, <2>2
  <2> QED
    BY <2>3, <2>4
<1> HIDE DEF g
<1>9. BandStagesOn(g, w0, g0, dt0, k, near, z0)
  BY <1>7, <1>8
<1> DEFINE t == CHOOSE t : BandStagesOn(t, w0, g0, dt0, k, near, z0)
<1>10. BandStagesOn(t, w0, g0, dt0, k, near, z0)
  BY <1>9
<1> HIDE DEF t
<1>11. t = [k0 \in 0 .. 4 |-> IF k0 = 0 THEN <<>> ELSE next(t[k0 - 1], k0)]
  BY <1>7, <1>10
<1>12. t[4] = <<a, b, c, e>>
  <2>1. t[0] = <<>>
    BY <1>11
  <2>2. t[1] = <<a>>
    BY <1>5, <1>11, <2>1
  <2>3. t[2] = <<a, b>>
    BY <1>5, <1>11, <2>2
  <2>4. t[3] = <<a, b, c>>
    BY <1>5, <1>11, <2>3
  <2> QED
    BY <1>5, <1>11, <2>4
<1>13. BandStages(w0, g0, dt0, k, near, z0) = <<a, b, c, e>>
  BY <1>6, <1>12 DEF t
<1> QED
  BY <1>1, <1>2, <1>3, <1>4, <1>13

\* A Runge-Kutta step of one band leads to a complex number.
LEMMA BandStepType ==
  ASSUME NEW S, Kind(S), NEW n0 \in Nat, NEW w0, WeightsOf(S, w0, n0), NEW g0 \in NumbersOf(S, n0), NEW dt0 \in S, NEW k \in 0 .. n0 - 1,
         NEW near \in S, NEW z0 \in PairsOf(S)
  PROVE  Rk4StepBand(w0, g0, dt0, k, near, z0) \in PairsOf(S)
<1> DEFINE s == BandStages(w0, g0, dt0, k, near, z0)
<1>1. \A k0 \in 1 .. 4 : s[k0] \in PairsOf(S)
  BY BandStagesType
<1>2. Rk4StepBand(w0, g0, dt0, k, near, z0)
        = CAdd(z0, CScale(dt0, CAdd(CAdd(CScale(w0.mix[0], s[1]), CScale(w0.mix[1], s[2])),
                            CAdd(CScale(w0.mix[2], s[3]), CScale(w0.mix[3], s[4])))))
  BY DEF Rk4StepBand, Given
<1> HIDE DEF s
<1>3. s[1] \in PairsOf(S) /\ s[2] \in PairsOf(S) /\ s[3] \in PairsOf(S) /\ s[4] \in PairsOf(S)
  BY <1>1
<1>4. w0.mix \in [0 .. 3 -> S]
  BY DEF WeightsOf
<1>5. CAdd(z0, CScale(dt0, CAdd(CAdd(CScale(w0.mix[0], s[1]), CScale(w0.mix[1], s[2])),
                            CAdd(CScale(w0.mix[2], s[3]), CScale(w0.mix[3], s[4]))))) \in PairsOf(S)
  BY <1>3, <1>4, CombinedType
<1> QED
  BY <1>2, <1>5

-----------------------------------------------------------------------------
(* The integration *)

\* All numbers are a kind.
LEMMA AnyNumber == Kind(Number)
BY DEF Kind

\* The parameters of a job are integers, its bands counted by a natural number.
LEMMA JobsAre ==
  ASSUME NEW j \in Jobs
  PROVE  j.n \in Nat /\ j.n \in Int /\ j.steps \in Int /\ j.seed \in Int
BY OdePassAssumption

\* A drawn row is a row.
LEMMA RowType ==
  ASSUME NEW n0 \in Nat, NEW seed \in Int, NEW tag \in Int
  PROVE  Row(n0, seed, tag) \in RowsOf(Number, n0)
<1>1. ASSUME NEW k \in 0 .. n0 - 1 PROVE <<Noise(seed, tag, 2 * k), Noise(seed, tag, 2 * k + 1)>> \in PairsOf(Number)
  <2>1. 2 * k \in Int /\ 2 * k + 1 \in Int
    OBVIOUS
  <2>2. Noise(seed, tag, 2 * k) \in Number /\ Noise(seed, tag, 2 * k + 1) \in Number
    BY <2>1, NoiseType
  <2> QED
    BY <2>2 DEF PairsOf
<1> QED
  BY <1>1 DEF Row, RowsOf

\* Drawn weights are weights for the job's bands.
LEMMA WeightsType ==
  ASSUME NEW n0 \in Nat, NEW seed \in Int, NEW chiOn, NEW steps \in Int
  PROVE  WeightsOf(Number, Weights(n0, seed, chiOn, steps), n0) /\ Weights(n0, seed, chiOn, steps).steps = steps
<1> DEFINE v == Weights(n0, seed, chiOn, steps)
<1>1. \A tag \in Int : \A k \in Int : Noise(seed, tag, k) \in Number
  BY NoiseType
<1>2. \A k \in Int : Noise(seed, 1, k) \in Number /\ Noise(seed, 2, k) \in Number /\ Noise(seed, 3, k) \in Number
        /\ Noise(seed, 4, k) \in Number /\ Noise(seed, 5, k) \in Number /\ Noise(seed, 6, k) \in Number
  BY <1>1
<1>3. \A k \in Int : Con(Noise(seed, 2, k)[1]) \in Number
  <2> TAKE k \in Int
  <2>1. Noise(seed, 2, k) \in Number
    BY <1>2
  <2>2. Noise(seed, 2, k)[1] \in Int
    BY <2>1, NumberParts
  <2> QED
    BY <2>2, ConType
<1>4. v.gammaRaw \in NumbersOf(Number, n0)
  BY <1>2 DEF Weights, NumbersOf
<1>5. v.omega \in NumbersOf(Number, n0)
  BY <1>3 DEF Weights, NumbersOf
<1>6. v.mix \in [0 .. 3 -> Number]
  BY <1>2 DEF Weights
<1>7. v.alpha \in Number /\ v.beta \in Number
  BY <1>2 DEF Weights
<1>8. v.chi \in Number
  BY <1>2, Constants01 DEF Weights
<1>9. v.steps = steps
  BY DEF Weights
<1> HIDE DEF v
<1> QED
  BY <1>4, <1>5, <1>6, <1>7, <1>8, <1>9 DEF WeightsOf, v

\* The damping of each band is a number.
LEMMA GammaType ==
  ASSUME NEW S, Kind(S), NEW n0 \in Nat, NEW w0, WeightsOf(S, w0, n0)
  PROVE  Gamma(w0) \in NumbersOf(S, n0)
<1>1. w0.gammaRaw \in [0 .. n0 - 1 -> S]
  BY DEF WeightsOf, NumbersOf
<1>2. \A k \in 0 .. n0 - 1 : Softplus(w0.gammaRaw[k]) \in S
  BY <1>1, KindFunctions
<1> QED
  BY <1>1, <1>2 DEF Gamma, NumbersOf

\* The states of an integration: the weights are the job's, the row a row of
\* numbers, and on the way forward what is kept per step has the steps' length.
OdeIInv ==
  /\ odeJob \in Jobs
  /\ w = Weights(odeJob.n, odeJob.seed, odeJob.chi, odeJob.steps)
  /\ gamma = Gamma(w)
  /\ z \in RowsOf(Number, odeJob.n)
  /\ stage = "forward" =>
       /\ at \in Seq(RowsOf(Number, odeJob.n))
       /\ ks \in Seq(Seq(RowsOf(Number, odeJob.n)))
       /\ ns \in Seq(NumbersOf(Number, odeJob.n))
       /\ Split => Len(ns) = Len(at)

\* What the invariant says of a job's weights, damping and step size.
LEMMA JobType ==
  ASSUME odeJob \in Jobs, w = Weights(odeJob.n, odeJob.seed, odeJob.chi, odeJob.steps), gamma = Gamma(w)
  PROVE  /\ odeJob.n \in Nat /\ WeightsOf(Number, w, odeJob.n) /\ gamma \in NumbersOf(Number, odeJob.n)
         /\ w.steps \in Int /\ dt \in Number
<1>1. odeJob.n \in Nat /\ odeJob.steps \in Int /\ odeJob.seed \in Int
  BY JobsAre
<1>2. WeightsOf(Number, w, odeJob.n) /\ w.steps = odeJob.steps
  BY <1>1, WeightsType
<1>3. gamma \in NumbersOf(Number, odeJob.n)
  BY <1>1, <1>2, AnyNumber, GammaType
<1>4. dt \in Number
  BY <1>1, <1>2, ConType, RecipType DEF dt, StepOf
<1> QED
  BY <1>1, <1>2, <1>3, <1>4

\* An integration starts in the invariant.
LEMMA OdeInitIInv == OdeInit => OdeIInv
<1> SUFFICES ASSUME OdeInit PROVE OdeIInv
  OBVIOUS
<1>1. odeJob \in Jobs /\ w = Weights(odeJob.n, odeJob.seed, odeJob.chi, odeJob.steps) /\ gamma = Gamma(w)
  BY DEF OdeInit
<1>2. odeJob.n \in Nat /\ odeJob.seed \in Int
  BY <1>1, JobsAre
<1>3. Row(odeJob.n, odeJob.seed, 10) \in RowsOf(Number, odeJob.n)
  <2>1. \A tag \in Int : Row(odeJob.n, odeJob.seed, tag) \in RowsOf(Number, odeJob.n)
    BY <1>2, RowType
  <2> QED
    BY <2>1
<1>4. \A S : <<>> \in Seq(S)
  OBVIOUS
<1> QED
  BY <1>1, <1>3, <1>4 DEF OdeInit, OdeIInv

\* Every step of the forward integration and of the walk back keeps the invariant.
LEMMA OdeNextIInv == OdeIInv /\ [OdeNext]_odeVars => OdeIInv'
<1> SUFFICES ASSUME OdeIInv, [OdeNext]_odeVars PROVE OdeIInv'
  OBVIOUS
<1> DEFINE N == odeJob.n
<1>0. /\ odeJob \in Jobs /\ w = Weights(odeJob.n, odeJob.seed, odeJob.chi, odeJob.steps) /\ gamma = Gamma(w)
      /\ z \in RowsOf(Number, N) /\ N \in Nat /\ WeightsOf(Number, w, N) /\ gamma \in NumbersOf(Number, N) /\ dt \in Number
  <2>1. odeJob \in Jobs /\ w = Weights(odeJob.n, odeJob.seed, odeJob.chi, odeJob.steps) /\ gamma = Gamma(w)
    BY DEF OdeIInv
  <2> QED
    BY <2>1, JobType DEF OdeIInv
<1>1. CASE Rk4Forward
  <2>1. /\ stage = "forward" /\ ~Split /\ at' = Append(at, z)
        /\ ks' = Append(ks, Stages(N, w, gamma, dt, z)) /\ z' = Rk4Step(w, dt, z, ks'[Len(ks')])
        /\ UNCHANGED <<odeJob, stage, w, gamma, ns>>
    BY <1>1 DEF Rk4Forward, Stepping
  <2>2. at \in Seq(RowsOf(Number, N)) /\ ks \in Seq(Seq(RowsOf(Number, N))) /\ ns \in Seq(NumbersOf(Number, N))
    BY <2>1 DEF OdeIInv
  <2> DEFINE s == Stages(N, w, gamma, dt, z)
  <2>3. s \in Seq(RowsOf(Number, N)) /\ \A k \in 1 .. 4 : s[k] \in RowsOf(Number, N)
    BY <1>0, AnyNumber, StagesType
  <2> HIDE DEF s
  <2>4. ks' \in Seq(Seq(RowsOf(Number, N))) /\ ks'[Len(ks')] = s
    BY <2>1, <2>2, <2>3, AppendProperties DEF s
  <2>5. z' \in RowsOf(Number, N)
    BY <1>0, <2>1, <2>3, <2>4, AnyNumber, Rk4StepType
  <2>6. at' \in Seq(RowsOf(Number, N))
    BY <1>0, <2>1, <2>2, AppendProperties
  <2> QED
    BY <1>0, <2>1, <2>2, <2>4, <2>5, <2>6 DEF OdeIInv, Split
<1>2. CASE SplitForward
  <2> DEFINE frozen == IF Len(at) \in {0, StepsA(w)} THEN Freeze(N, z) ELSE ns[Len(ns)]
  <2>1. /\ stage = "forward" /\ Split /\ at' = Append(at, z) /\ ns' = Append(ns, frozen)
        /\ z' = [k \in 0 .. N - 1 |-> Rk4StepBand(w, gamma, dt, k, ns'[Len(ns')][k], z[k])]
        /\ UNCHANGED <<odeJob, stage, w, gamma, ks>>
    BY <1>2 DEF SplitForward, Stepping
  <2>2. at \in Seq(RowsOf(Number, N)) /\ ks \in Seq(Seq(RowsOf(Number, N))) /\ ns \in Seq(NumbersOf(Number, N)) /\ Len(ns) = Len(at)
    BY <2>1 DEF OdeIInv
  <2>3. frozen \in NumbersOf(Number, N)
    <3>1. CASE Len(at) \in {0, StepsA(w)}
      BY <1>0, <3>1, AnyNumber, FreezeType
    <3>2. CASE Len(at) \notin {0, StepsA(w)}
      <4>1. Len(ns) \in 1 .. Len(ns)
        BY <2>2, <3>2, LenProperties
      <4>2. ns[Len(ns)] \in NumbersOf(Number, N)
        BY <2>2, <4>1, ElementOfSeq
      <4> QED
        BY <3>2, <4>2
    <3> QED
      BY <3>1, <3>2
  <2> HIDE DEF frozen
  <2>4. ns' \in Seq(NumbersOf(Number, N)) /\ ns'[Len(ns')] = frozen /\ Len(ns') = Len(ns) + 1
    BY <2>1, <2>2, <2>3, AppendProperties
  <2>5. at' \in Seq(RowsOf(Number, N)) /\ Len(at') = Len(at) + 1
    BY <1>0, <2>1, <2>2, AppendProperties
  <2>6. z' \in RowsOf(Number, N)
    <3>1. ASSUME NEW k \in 0 .. N - 1 PROVE Rk4StepBand(w, gamma, dt, k, frozen[k], z[k]) \in PairsOf(Number)
      <4>1. frozen[k] \in Number /\ z[k] \in PairsOf(Number)
        BY <1>0, <2>3 DEF NumbersOf, RowsOf
      <4> QED
        BY <1>0, <4>1, AnyNumber, BandStepType
    <3> QED
      BY <2>1, <2>4, <3>1 DEF RowsOf
  <2> QED
    BY <1>0, <2>1, <2>2, <2>4, <2>5, <2>6 DEF OdeIInv, Split
<1>3. CASE StartBackward
  BY <1>0, <1>3 DEF StartBackward, OdeIInv
<1>4. CASE Rk4Backward
  BY <1>0, <1>4 DEF Rk4Backward, OdeIInv
<1>5. CASE SplitBackward
  BY <1>0, <1>5 DEF SplitBackward, OdeIInv
<1>6. CASE Finish
  BY <1>0, <1>6 DEF Finish, OdeIInv
<1>7. CASE UNCHANGED odeVars
  BY <1>0, <1>7 DEF odeVars, OdeIInv, Split
<1> QED
  BY <1>1, <1>2, <1>3, <1>4, <1>5, <1>6, <1>7 DEF OdeNext

\* OdeIInv is an invariant of every integration, for any number of bands and of
\* steps: the weights are the job's and rows of numbers lead to rows of numbers.
THEOREM OdeIInvAlways == OdeSpec => []OdeIInv
<1> QED
  BY OdeInitIInv, OdeNextIInv, PTL DEF OdeSpec

\* Mixing conserves energy at every state an integration passes through, for
\* any number of bands, any coupling and any number of steps.
THEOREM MixingConservesEnergyAlways == OdeSpec => []MixingConservesEnergy
<1>1. OdeIInv => MixingConservesEnergy
  <2> SUFFICES ASSUME OdeIInv, Mixes(odeJob.n, w)
               PROVE  SumTo(odeJob.n, [k \in 0 .. odeJob.n - 1 |-> CDot(z[k], Mixing(odeJob.n, w.chi, z)[k])]) = Zero
    BY DEF MixingConservesEnergy
  <2>1. odeJob \in Jobs /\ w = Weights(odeJob.n, odeJob.seed, odeJob.chi, odeJob.steps) /\ gamma = Gamma(w) /\ z \in RowsOf(Number, odeJob.n)
    BY DEF OdeIInv
  <2>2. odeJob.n \in Nat /\ w.chi \in Number /\ odeJob.n > 4
    BY <2>1, JobType DEF WeightsOf, Mixes
  <2>4. z \in Rows(odeJob.n)
    BY <2>1 DEF Rows, RowsOf, Complex, PairsOf
  <2>3. Energy(odeJob.n, z, Mixing(odeJob.n, w.chi, z)) = Zero
    BY <2>1, <2>2, <2>4, MixingKeepsEnergy
  <2> QED
    BY <2>3 DEF Energy
<1> QED
  BY <1>1, OdeIInvAlways, PTL

-----------------------------------------------------------------------------
(* The model as initialised *)

\* Drawing only the attention from the seed, as the candle tier does, starts from the
\* place in the random sequence where InitModel draws it.
LEMMA AttentionAlignedIf ==
  ASSUME DimsOk(d), fresh = InitModel(d, job.seed, TokenTable(d, job.seed), PositionTable(d, job.seed, job.vary))
  PROVE  AttentionAligned
<1> SUFFICES ASSUME d.learnOde, NEW k \in DOMAIN fresh.blocks
             PROVE  fresh.blocks[k].attn = CandleAttention(d, job.seed)[k]
  BY DEF AttentionAligned
<1> DEFINE per == AttnDraws(d, Content(d)) + FfnDraws(d)
           per2 == AttnDraws(d, ContentDim) + AdvanceBlockFfn(d)
<1>1. Content(d) = ContentDim
  BY DEF Content
<1>2. FfnDraws(d) = AdvanceBlockFfn(d)
  <2>1. d.nBands \in Nat /\ d.groups \in Nat \ {0} /\ d.md \in Nat
    BY DEF DimsOk
  <2> DEFINE e == Embed(d)
  <2>2. e \in Nat
    BY <2>1 DEF Embed
  <2>3. FfnDraws(d) = 4 * d.md * e + d.groups * (e \div d.groups) * (e \div d.groups)
    BY DEF FfnDraws
  <2>4. AdvanceBlockFfn(d) = 4 * d.md * e + (IF d.groups <= 1 THEN e * e ELSE d.groups * (e \div d.groups) * (e \div d.groups))
    BY DEF AdvanceBlockFfn
  <2> HIDE DEF e
  <2>5. CASE d.groups = 1
    <3>1. e \div d.groups = e
      BY <2>2, <2>5
    <3>2. d.groups * (e \div d.groups) * (e \div d.groups) = e * e
      BY <2>2, <2>5, <3>1
    <3> QED
      BY <2>3, <2>4, <2>5, <3>2
  <2>6. CASE d.groups # 1
    BY <2>1, <2>3, <2>4, <2>6
  <2> QED
    BY <2>5, <2>6
<1>3. per = per2
  BY <1>1, <1>2
<1>4. fresh.blocks = [k0 \in 0 .. d.layers - 1 |-> InitBlock(d, job.seed, k0 * per)]
  BY TableIs DEF InitModel
<1>5. CandleAttention(d, job.seed) = [k0 \in 0 .. d.layers - 1 |-> InitBlockAttn(d, job.seed, k0 * per2, ContentDim)]
  BY DEF CandleAttention
<1> HIDE DEF per, per2
<1>6. k \in 0 .. d.layers - 1
  BY <1>4
<1>7. fresh.blocks[k].attn = InitBlockAttn(d, job.seed, k * per, Content(d))
  <2>1. fresh.blocks[k] = InitBlock(d, job.seed, k * per)
    BY <1>4, <1>6
  <2>2. InitBlock(d, job.seed, k * per).attn = InitBlockAttn(d, job.seed, k * per, Content(d))
    BY DEF InitBlock
  <2> QED
    BY <2>1, <2>2
<1> QED
  BY <1>1, <1>3, <1>5, <1>6, <1>7

\* The job and the model as initialised never change.
FreshOk ==
  /\ job \in ModelJobs
  /\ fresh = InitModel(d, job.seed, TokenTable(d, job.seed), PositionTable(d, job.seed, job.vary))

\* FreshOk is an invariant of every job, for any dimensions DimsOk admits.
THEOREM FreshAlways == Spec => []FreshOk
<1>1. Init => FreshOk
  BY DEF Init, FreshOk
<1>2. FreshOk /\ [Next]_vars => FreshOk'
  <2> SUFFICES ASSUME FreshOk, [Next]_vars PROVE FreshOk'
    OBVIOUS
  <2>1. UNCHANGED <<job, fresh>>
    BY DEF Next, vars, WriteParams, Forward, Loss, Backward, Collect
  <2>2. d' = d
    BY <2>1 DEF d
  <2>3. TokenTable(d, job.seed)' = TokenTable(d, job.seed) /\ PositionTable(d, job.seed, job.vary)' = PositionTable(d, job.seed, job.vary)
    BY <2>1, <2>2
  <2>4. InitModel(d, job.seed, TokenTable(d, job.seed), PositionTable(d, job.seed, job.vary))'
          = InitModel(d, job.seed, TokenTable(d, job.seed), PositionTable(d, job.seed, job.vary))
    BY <2>1, <2>2, <2>3
  <2> QED
    BY <2>1, <2>4 DEF FreshOk
<1> QED
  BY <1>1, <1>2, PTL DEF Spec

\* The candle tier skips the draws of the other weights by the right amounts: with a
\* learnable ODE its attention is the one the CPU tier initialises from the same seed
\* (candle_model.rs against wave_model.rs), for any number of heads, groups, layers
\* and bands and any flags.
THEOREM AttentionAlignedAlways == Spec => []AttentionAligned
<1>1. FreshOk => AttentionAligned
  <2> SUFFICES ASSUME FreshOk PROVE AttentionAligned
    OBVIOUS
  <2>1. DimsOk(d)
    BY ModelPassAssumption DEF FreshOk, d
  <2> QED
    BY <2>1, AttentionAlignedIf DEF FreshOk
<1> QED
  BY <1>1, FreshAlways, PTL

-----------------------------------------------------------------------------
(* The flat vector *)

\* s is a sequence of n0 entries.
Long(s, n0) == n0 \in Nat /\ Len(s) = n0 /\ \E X : s \in Seq(X)

\* The n0 entries of v after the first a0.
Part(v, a0, n0) == [k \in 1 .. n0 |-> v[a0 + k]]

\* A function on 0 .. n0 - 1 has n0 entries.
LEMMA SizeIs ==
  ASSUME NEW n0 \in Nat, NEW f, DOMAIN f = 0 .. n0 - 1
  PROVE  Size(f) = n0
<1>1. Cardinality(0 .. n0 - 1) = n0
  BY FS_Interval
<1> QED
  BY <1>1 DEF Size

\* A function on 1 .. n0 is a sequence of n0 entries.
LEMMA LongIs ==
  ASSUME NEW n0 \in Nat, NEW s, DOMAIN s = 1 .. n0, s = [k \in 1 .. n0 |-> s[k]]
  PROVE  Long(s, n0)
<1> DEFINE X == {s[k] : k \in 1 .. n0}
<1>1. s \in [1 .. n0 -> X]
  OBVIOUS
<1> HIDE DEF X
<1>2. s \in Seq(X)
  BY <1>1, FunctionIsSequence
<1>3. Len(s) \in Nat /\ DOMAIN s = 1 .. Len(s)
  BY <1>2, LenProperties
<1>4. Len(s) = n0
  BY <1>3, SameEnd
<1> QED
  BY <1>2, <1>4 DEF Long

\* A sequence over a set is one over a larger set.
LEMMA Wider ==
  ASSUME NEW S, NEW T, S \subseteq T, NEW s \in Seq(S)
  PROVE  s \in Seq(T)
BY SeqMonotonic

\* u is the a0 entries of s and then the b0 of t.
Joined(u, s, t, a0, b0) == \A k \in 1 .. a0 + b0 : u[k] = IF k <= a0 THEN s[k] ELSE t[k - a0]

\* Two sequences in a row: their lengths add up, and which entry is whose.
LEMMA LongJoin ==
  ASSUME NEW s, NEW t, NEW a0 \in Nat, NEW b0 \in Nat, Long(s, a0), Long(t, b0)
  PROVE  /\ Long(s \o t, a0 + b0)
         /\ Joined(s \o t, s, t, a0, b0)
<1>1. PICK X : s \in Seq(X)
  BY DEF Long
<1>2. PICK Y : t \in Seq(Y)
  BY DEF Long
<1> DEFINE Z == X \cup Y
<1>3. X \subseteq Z /\ Y \subseteq Z
  OBVIOUS
<1> HIDE DEF Z
<1>4. s \in Seq(Z) /\ t \in Seq(Z)
  BY <1>1, <1>2, <1>3, Wider
<1>5. /\ s \o t \in Seq(Z) /\ Len(s \o t) = Len(s) + Len(t)
      /\ \A k \in 1 .. Len(s) + Len(t) : (s \o t)[k] = IF k <= Len(s) THEN s[k] ELSE t[k - Len(s)]
  BY <1>4, ConcatProperties
<1>6. Len(s) = a0 /\ Len(t) = b0 /\ a0 \in Nat /\ b0 \in Nat
  BY DEF Long
<1>7. Long(s \o t, a0 + b0)
  BY <1>5, <1>6 DEF Long
<1>8. \A k \in 1 .. a0 + b0 : (s \o t)[k] = IF k <= a0 THEN s[k] ELSE t[k - a0]
  BY <1>5, <1>6
<1> QED
  BY <1>7, <1>8 DEF Joined

\* Sequences of one length with the same entries are equal.
LEMMA LongEqual ==
  ASSUME NEW s, NEW t, NEW n0, Long(s, n0), Long(t, n0), \A k \in 1 .. n0 : s[k] = t[k]
  PROVE  s = t
<1>1. PICK X : s \in Seq(X)
  BY DEF Long
<1>2. PICK Y : t \in Seq(Y)
  BY DEF Long
<1> DEFINE Z == X \cup Y
<1>3. X \subseteq Z /\ Y \subseteq Z
  OBVIOUS
<1> HIDE DEF Z
<1>4. s \in Seq(Z) /\ t \in Seq(Z) /\ Len(s) = Len(t) /\ Len(s) = n0
  BY <1>1, <1>2, <1>3, Wider DEF Long
<1>5. \A k \in 1 .. Len(s) : s[k] = t[k]
  BY <1>4
<1> QED
  BY <1>4, <1>5, SeqEqual

\* A part is a sequence of its length, of the entries it is a part of.
LEMMA PartLong ==
  ASSUME NEW v, NEW a0, NEW n0 \in Nat
  PROVE  Long(Part(v, a0, n0), n0) /\ \A k \in 1 .. n0 : Part(v, a0, n0)[k] = v[a0 + k]
<1> DEFINE s == Part(v, a0, n0)
<1>1. DOMAIN s = 1 .. n0 /\ s = [k \in 1 .. n0 |-> s[k]] /\ \A k \in 1 .. n0 : s[k] = v[a0 + k]
  BY DEF Part
<1> HIDE DEF s
<1>2. Long(s, n0)
  BY <1>1, LongIs
<1> QED
  BY <1>1, <1>2 DEF s

\* Two parts that meet are one.
LEMMA PartsJoin ==
  ASSUME NEW v, NEW a0 \in Int, NEW n0 \in Nat, NEW k0 \in Nat
  PROVE  Part(v, a0, n0) \o Part(v, a0 + n0, k0) = Part(v, a0, n0 + k0)
<1> DEFINE s == Part(v, a0, n0)
           t == Part(v, a0 + n0, k0)
           u == Part(v, a0, n0 + k0)
<1>1. Long(s, n0) /\ (\A k \in 1 .. n0 : s[k] = v[a0 + k]) /\ Long(t, k0) /\ (\A k \in 1 .. k0 : t[k] = v[(a0 + n0) + k])
  BY PartLong
<1>2. n0 + k0 \in Nat
  OBVIOUS
<1>3. Long(u, n0 + k0) /\ (\A k \in 1 .. n0 + k0 : u[k] = v[a0 + k])
  BY <1>2, PartLong
<1> HIDE DEF s, t, u
<1>4. Long(s, n0) /\ Long(t, k0)
  BY <1>1
<1>5. Long(s \o t, n0 + k0)
  BY <1>4, LongJoin
<1>6. \A k \in 1 .. n0 + k0 : (s \o t)[k] = IF k <= n0 THEN s[k] ELSE t[k - n0]
  <2>1. Joined(s \o t, s, t, n0, k0)
    BY <1>4, LongJoin
  <2> QED
    BY <2>1 DEF Joined
<1>7. ASSUME NEW k \in 1 .. n0 + k0 PROVE (s \o t)[k] = u[k]
  <2>1. CASE k <= n0
    <3>1. k \in 1 .. n0
      BY <2>1
    <3> QED
      BY <1>1, <1>3, <1>6, <2>1, <3>1
  <2>2. CASE ~(k <= n0)
    <3>1. k - n0 \in 1 .. k0 /\ (a0 + n0) + (k - n0) = a0 + k
      BY <2>2
    <3>2. t[k - n0] = v[(a0 + n0) + (k - n0)]
      BY <1>1, <3>1
    <3> QED
      BY <1>3, <1>6, <2>2, <3>1, <3>2
  <2> QED
    BY <2>1, <2>2
<1>8. s \o t = u
  BY <1>3, <1>5, <1>7, LongEqual
<1> QED
  BY <1>8 DEF s, t, u

\* SeqOf lists the entries of a function on 0 .. n0 - 1.
LEMMA SeqOfIs ==
  ASSUME NEW n0 \in Nat, NEW f, DOMAIN f = 0 .. n0 - 1
  PROVE  /\ Long(SeqOf(f), n0) /\ DOMAIN SeqOf(f) = 1 .. n0 /\ \A k \in 1 .. n0 : SeqOf(f)[k] = f[k - 1]
<1> DEFINE s == SeqOf(f)
<1>1. Size(f) = n0
  BY SizeIs
<1>2. DOMAIN s = 1 .. n0 /\ s = [k \in 1 .. n0 |-> s[k]] /\ \A k \in 1 .. n0 : s[k] = f[k - 1]
  BY <1>1 DEF SeqOf
<1> HIDE DEF s
<1>3. Long(s, n0)
  BY <1>2, LongIs
<1> QED
  BY <1>2, <1>3 DEF s

\* A slice read from a vector, listed, is that part of the vector.
LEMMA SliceIs ==
  ASSUME NEW v, NEW a0 \in Int, NEW n0 \in Nat
  PROVE  /\ SeqOf(Slice(v, a0, n0)) = Part(v, a0, n0) /\ Size(Slice(v, a0, n0)) = n0
         /\ DOMAIN Slice(v, a0, n0) = 0 .. n0 - 1
<1> DEFINE f == Slice(v, a0, n0)
<1>1. f = [k \in 0 .. n0 - 1 |-> v[a0 + k + 1]]
  BY TableIs DEF Slice
<1>2. DOMAIN f = 0 .. n0 - 1
  BY <1>1
<1>3. \A k \in 1 .. n0 : f[k - 1] = v[a0 + k]
  <2> TAKE k \in 1 .. n0
  <2>1. k - 1 \in 0 .. n0 - 1 /\ a0 + (k - 1) + 1 = a0 + k
    OBVIOUS
  <2> QED
    BY <1>1, <2>1
<1> HIDE DEF f
<1>4. Size(f) = n0
  BY <1>2, SizeIs
<1>5. SeqOf(f) = [k \in 1 .. n0 |-> v[a0 + k]]
  BY <1>3, <1>4 DEF SeqOf
<1> QED
  BY <1>2, <1>4, <1>5 DEF f, Part

-----------------------------------------------------------------------------
(* One sequence after another *)

ConcatOn(t, ss) == t = [k \in 0 .. Len(ss) |-> IF k = 0 THEN <<>> ELSE t[k - 1] \o ss[k]]

\* Concat joins its sequences one after the other, and the run of it exists.
LEMMA ConcatRuns ==
  ASSUME NEW n0 \in Nat, NEW ss, Len(ss) = n0, NEW S, \A k \in 1 .. n0 : ss[k] \in Seq(S)
  PROVE  \E t \in [0 .. n0 -> Seq(S)] : t[0] = <<>> /\ (\A k \in 1 .. n0 : t[k] = t[k - 1] \o ss[k]) /\ Concat(ss) = t[n0]
<1> DEFINE Q == Seq(S)
           step == [k \in 1 .. n0 |-> [s \in Q |-> s \o ss[k]]]
<1>1. <<>> \in Q
  BY EmptySeq
<1>2. \A k \in 1 .. n0 : \A s \in Q : s \o ss[k] \in Q
  BY ConcatProperties
<1>3. step \in [1 .. n0 -> [Q -> Q]]
  BY <1>2
<1>4. \E g \in [0 .. n0 -> Q] : Follows(g, n0, <<>>, step)
  <2> DEFINE b0 == <<>>
  <2>1. b0 \in Q
    BY <1>1
  <2> HIDE DEF b0, step, Q
  <2>2. \E g \in [0 .. n0 -> Q] : Follows(g, n0, b0, step)
    BY <1>3, <2>1, Iteration
  <2> QED
    BY <2>2 DEF b0
<1>5. PICK g \in [0 .. n0 -> Q] : Follows(g, n0, <<>>, step)
  BY <1>4
<1> HIDE DEF Q
<1>6. ASSUME NEW k \in 0 .. n0 PROVE g[k] = IF k = 0 THEN <<>> ELSE g[k - 1] \o ss[k]
  <2>1. CASE k = 0
    BY <1>5, <2>1 DEF Follows
  <2>2. CASE k # 0
    <3>1. k \in 1 .. n0 /\ k - 1 \in 0 .. n0
      BY <2>2
    <3>2. g[k - 1] \in Q /\ g[k] = step[k][g[k - 1]]
      BY <1>5, <3>1 DEF Follows
    <3> QED
      BY <2>2, <3>1, <3>2
  <2> QED
    BY <2>1, <2>2
<1> HIDE DEF step
<1>7. ConcatOn(g, ss)
  BY <1>5, <1>6 DEF ConcatOn
<1> DEFINE t == CHOOSE t : ConcatOn(t, ss)
<1>8. ConcatOn(t, ss)
  BY <1>7
<1>9. Concat(ss) = t[n0]
  BY DEF Concat, ConcatOn
<1> HIDE DEF t
<1>10. t = [k \in 0 .. n0 |-> IF k = 0 THEN <<>> ELSE t[k - 1] \o ss[k]]
  BY <1>8 DEF ConcatOn
<1> DEFINE T == {k \in 0 .. n0 : t[k] \in Q}
<1>11. 0 \in T
  BY <1>1, <1>10
<1>12. ASSUME NEW k \in 1 .. n0, k - 1 \in T PROVE k \in T
  <2>1. k \in 0 .. n0 /\ k # 0
    OBVIOUS
  <2>2. t[k] = t[k - 1] \o ss[k]
    BY <1>10, <2>1
  <2>3. t[k - 1] \in Q
    BY <1>12
  <2>4. t[k] \in Q
    BY <1>2, <2>2, <2>3
  <2> QED
    BY <2>1, <2>4
<1> HIDE DEF T
<1>13. \A k \in 0 .. n0 : t[k] \in Q
  <2>1. \A k \in 0 .. n0 : k \in T
    BY <1>11, <1>12, Ascent
  <2> QED
    BY <2>1 DEF T
<1>14. t \in [0 .. n0 -> Q] /\ t[0] = <<>> /\ \A k \in 1 .. n0 : t[k] = t[k - 1] \o ss[k]
  <2>1. DOMAIN t = 0 .. n0 /\ t = [k \in 0 .. n0 |-> t[k]]
    BY <1>10
  <2>2. t \in [0 .. n0 -> Q]
    BY <1>13, <2>1
  <2>3. t[0] = <<>>
    BY <1>10
  <2>4. ASSUME NEW k \in 1 .. n0 PROVE t[k] = t[k - 1] \o ss[k]
    <3>1. k \in 0 .. n0 /\ k # 0
      OBVIOUS
    <3> QED
      BY <1>10, <3>1
  <2> QED
    BY <2>2, <2>3, <2>4
<1> QED
  BY <1>9, <1>14 DEF Q

\* Sequences of equal length make one of as many times that length.
LEMMA ConcatLong ==
  ASSUME NEW n0 \in Nat, NEW ss, Len(ss) = n0, NEW c0 \in Nat, \A k \in 1 .. n0 : Long(ss[k], c0)
  PROVE  Long(Concat(ss), c0 * n0)
<1> DEFINE X(k) == CHOOSE X : ss[k] \in Seq(X)
           S == UNION {X(k) : k \in 1 .. n0}
<1>1. \A k \in 1 .. n0 : ss[k] \in Seq(X(k)) /\ X(k) \subseteq S
  BY DEF Long
<1> HIDE DEF X, S
<1>2. \A k \in 1 .. n0 : ss[k] \in Seq(S)
  BY <1>1, Wider
<1>3. PICK t \in [0 .. n0 -> Seq(S)] : t[0] = <<>> /\ (\A k \in 1 .. n0 : t[k] = t[k - 1] \o ss[k]) /\ Concat(ss) = t[n0]
  BY <1>2, ConcatRuns
<1> DEFINE T == {k \in 0 .. n0 : Long(t[k], c0 * k)}
<1>4. 0 \in T
  <2>1. c0 * 0 = 0
    OBVIOUS
  <2>2. <<>> \in Seq(S) /\ Len(<<>>) = 0
    BY EmptySeq
  <2> QED
    BY <1>3, <2>1, <2>2 DEF Long
<1>5. ASSUME NEW k \in 1 .. n0, k - 1 \in T PROVE k \in T
  <2>1. c0 * (k - 1) + c0 = c0 * k /\ k \in 0 .. n0
    OBVIOUS
  <2>2. Long(t[k - 1], c0 * (k - 1)) /\ Long(ss[k], c0) /\ c0 * (k - 1) \in Nat
    BY <1>5
  <2>3. Long(t[k - 1] \o ss[k], c0 * (k - 1) + c0)
    BY <2>2, LongJoin
  <2>4. Long(t[k], c0 * k)
    BY <1>3, <2>1, <2>3
  <2> QED
    BY <2>1, <2>4
<1> HIDE DEF T
<1>6. n0 \in T
  <2>1. \A k \in 0 .. n0 : k \in T
    BY <1>4, <1>5, Ascent
  <2> QED
    BY <2>1
<1> QED
  BY <1>3, <1>6 DEF T

\* Parts of equal length that follow each other make one part.
LEMMA ConcatParts ==
  ASSUME NEW n0 \in Nat, NEW ss, Len(ss) = n0, NEW c0 \in Nat, NEW v, NEW a0 \in Int,
         \A k \in 1 .. n0 : ss[k] = Part(v, a0 + c0 * (k - 1), c0)
  PROVE  Concat(ss) = Part(v, a0, c0 * n0)
<1> DEFINE X(k) == CHOOSE X : ss[k] \in Seq(X)
           S == UNION {X(k) : k \in 1 .. n0}
<1>0. \A k \in 1 .. n0 : Long(ss[k], c0)
  BY PartLong
<1>1. \A k \in 1 .. n0 : ss[k] \in Seq(X(k)) /\ X(k) \subseteq S
  BY <1>0 DEF Long
<1> HIDE DEF X, S
<1>2. \A k \in 1 .. n0 : ss[k] \in Seq(S)
  BY <1>1, Wider
<1>3. PICK t \in [0 .. n0 -> Seq(S)] : t[0] = <<>> /\ (\A k \in 1 .. n0 : t[k] = t[k - 1] \o ss[k]) /\ Concat(ss) = t[n0]
  BY <1>2, ConcatRuns
<1> DEFINE T == {k \in 0 .. n0 : t[k] = Part(v, a0, c0 * k)}
<1>4. 0 \in T
  <2>1. c0 * 0 = 0
    OBVIOUS
  <2>2. Part(v, a0, 0) = <<>>
    <3>1. Long(Part(v, a0, 0), 0)
      BY PartLong
    <3>2. Long(<<>>, 0)
      BY EmptySeq DEF Long
    <3> QED
      BY <3>1, <3>2, LongEqual
  <2> QED
    BY <1>3, <2>1, <2>2
<1>5. ASSUME NEW k \in 1 .. n0, k - 1 \in T PROVE k \in T
  <2>1. c0 * (k - 1) + c0 = c0 * k /\ c0 * (k - 1) \in Nat /\ k \in 0 .. n0
    OBVIOUS
  <2>2. Part(v, a0, c0 * (k - 1)) \o Part(v, a0 + c0 * (k - 1), c0) = Part(v, a0, c0 * (k - 1) + c0)
    BY <2>1, PartsJoin
  <2> QED
    BY <1>3, <1>5, <2>1, <2>2
<1> HIDE DEF T
<1>6. n0 \in T
  <2>1. \A k \in 0 .. n0 : k \in T
    BY <1>4, <1>5, Ascent
  <2> QED
    BY <2>1
<1> QED
  BY <1>3, <1>6 DEF T

-----------------------------------------------------------------------------
(* What is written at a place is read back there *)

\* The n0 entries of f are parts of v, c0 long, that follow each other.
Parts(f, n0, v, a0, c0) == DOMAIN f = 0 .. n0 - 1 /\ \A k \in 0 .. n0 - 1 : f[k] = Part(v, a0 + c0 * k, c0)

\* The entries of a function, each a part, listed one after the other are one part.
LEMMA EachPart ==
  ASSUME NEW n0 \in Nat, NEW f, NEW c0 \in Nat, NEW v, NEW a0 \in Nat, Parts(f, n0, v, a0, c0)
  PROVE  Concat(SeqOf(f)) = Part(v, a0, c0 * n0)
<1>0. DOMAIN f = 0 .. n0 - 1 /\ \A k \in 0 .. n0 - 1 : f[k] = Part(v, a0 + c0 * k, c0)
  BY DEF Parts
<1> DEFINE ss == SeqOf(f)
<1>1. Long(ss, n0) /\ \A k \in 1 .. n0 : ss[k] = f[k - 1]
  BY <1>0, SeqOfIs
<1> HIDE DEF ss
<1>2. Len(ss) = n0
  BY <1>1 DEF Long
<1>3. ASSUME NEW k \in 1 .. n0 PROVE ss[k] = Part(v, a0 + c0 * (k - 1), c0)
  <2>1. k - 1 \in 0 .. n0 - 1
    OBVIOUS
  <2>2. f[k - 1] = Part(v, a0 + c0 * (k - 1), c0)
    BY <1>0, <2>1
  <2> QED
    BY <1>1, <2>2
<1>4. Concat(ss) = Part(v, a0, c0 * n0)
  BY <1>2, <1>3, ConcatParts
<1> QED
  BY <1>4 DEF ss

\* The rows read from a vector are written back as they were.
LEMMA RowsPart ==
  ASSUME NEW v, NEW a0 \in Nat, NEW r0 \in Nat, NEW c0 \in Nat
  PROVE  RowsSeq(SliceRows(v, a0, r0, c0)) = Part(v, a0, c0 * r0)
<1> DEFINE rows == SliceRows(v, a0, r0, c0)
           f == [k \in DOMAIN rows |-> SeqOf(rows[k])]
<1>1. rows = [k \in 0 .. r0 - 1 |-> Table([j \in 0 .. c0 - 1 |-> v[a0 + c0 * k + j + 1]])]
  BY TableIs DEF SliceRows, Grid
<1>2. DOMAIN rows = 0 .. r0 - 1
  BY <1>1
<1>3. ASSUME NEW k \in 0 .. r0 - 1 PROVE rows[k] = Slice(v, a0 + c0 * k, c0)
  BY <1>1 DEF Slice
<1> HIDE DEF rows
<1>4. DOMAIN f = 0 .. r0 - 1
  BY <1>2
<1>5. ASSUME NEW k \in 0 .. r0 - 1 PROVE f[k] = Part(v, a0 + c0 * k, c0)
  <2>1. c0 * k \in Nat
    OBVIOUS
  <2>2. SeqOf(Slice(v, a0 + c0 * k, c0)) = Part(v, a0 + c0 * k, c0)
    BY <2>1, SliceIs
  <2> QED
    BY <1>2, <1>3, <2>2
<1> HIDE DEF f
<1>6. Concat(SeqOf(f)) = Part(v, a0, c0 * r0)
  <2>1. Parts(f, r0, v, a0, c0)
    BY <1>4, <1>5 DEF Parts
  <2> QED
    BY <2>1, EachPart
<1> QED
  BY <1>6 DEF f, rows, RowsSeq

\* A linear layer read from a vector is written back as it was.
LEMMA LinearPart ==
  ASSUME NEW v, NEW a0 \in Nat, NEW r0 \in Nat, NEW c0 \in Nat
  PROVE  LinearSeq(SliceLinear(v, a0, r0, c0)) = Part(v, a0, LinearLen(r0, c0))
<1>1. RowsSeq(SliceRows(v, a0, r0, c0)) = Part(v, a0, c0 * r0)
  BY RowsPart
<1> DEFINE area == r0 * c0
<1>2. area \in Nat /\ c0 * r0 = area
  OBVIOUS
<1>3. SeqOf(Slice(v, a0 + area, r0)) = Part(v, a0 + area, r0)
  BY <1>2, SliceIs
<1>4. LinearLen(r0, c0) = area + r0
  BY DEF LinearLen
<1>5. LinearSeq(SliceLinear(v, a0, r0, c0)) = RowsSeq(SliceRows(v, a0, r0, c0)) \o SeqOf(Slice(v, a0 + area, r0))
  BY DEF LinearSeq, SliceLinear
<1> HIDE DEF area
<1>6. Part(v, a0, area) \o Part(v, a0 + area, r0) = Part(v, a0, area + r0)
  <2>1. a0 \in Int
    OBVIOUS
  <2> QED
    BY <1>2, <2>1, PartsJoin
<1> QED
  BY <1>1, <1>2, <1>3, <1>4, <1>5, <1>6

\* The length of a linear layer is a natural number.
LEMMA LinearLenType ==
  ASSUME NEW r0 \in Nat, NEW c0 \in Nat
  PROVE  LinearLen(r0, c0) \in Nat
BY DEF LinearLen

\* A layer norm read from a vector is written back as it was.
LEMMA NormPart ==
  ASSUME NEW v, NEW a0 \in Nat, NEW e0 \in Nat
  PROVE  NormSeq([w |-> Slice(v, a0, e0), b |-> Slice(v, a0 + e0, e0)]) = Part(v, a0, 2 * e0)
<1>1. SeqOf(Slice(v, a0, e0)) = Part(v, a0, e0) /\ SeqOf(Slice(v, a0 + e0, e0)) = Part(v, a0 + e0, e0)
  BY SliceIs
<1>2. Part(v, a0, e0) \o Part(v, a0 + e0, e0) = Part(v, a0, e0 + e0)
  <2>1. a0 \in Int
    OBVIOUS
  <2> QED
    BY <2>1, PartsJoin
<1>3. e0 + e0 = 2 * e0
  OBVIOUS
<1> QED
  BY <1>1, <1>2, <1>3 DEF NormSeq

\* The length of a maestro.
Mae(md0, e0) == LinearLen(md0, e0) + LinearLen(e0, md0)

\* A maestro read from a vector is written back as it was.
LEMMA MaestroPart ==
  ASSUME NEW v, NEW a0 \in Nat, NEW md0 \in Nat, NEW e0 \in Nat
  PROVE  MaestroSeq(UnflattenMaestro(v, a0, md0, e0)) = Part(v, a0, Mae(md0, e0))
<1> DEFINE s0 == LinearLen(md0, e0)
           t0 == LinearLen(e0, md0)
<1>1. s0 \in Nat /\ t0 \in Nat
  BY LinearLenType
<1>2. LinearSeq(SliceLinear(v, a0, md0, e0)) = Part(v, a0, s0)
  BY LinearPart
<1>3. MaestroSeq(UnflattenMaestro(v, a0, md0, e0))
        = LinearSeq(SliceLinear(v, a0, md0, e0)) \o LinearSeq(SliceLinear(v, a0 + s0, e0, md0))
  BY DEF MaestroSeq, UnflattenMaestro
<1>4. Mae(md0, e0) = s0 + t0
  BY DEF Mae
<1>5. LinearSeq(SliceLinear(v, a0 + s0, e0, md0)) = Part(v, a0 + s0, t0)
  <2> HIDE DEF s0
  <2>1. a0 + s0 \in Nat
    BY <1>1
  <2> QED
    BY <2>1, LinearPart
<1> HIDE DEF s0, t0
<1>6. Part(v, a0, s0) \o Part(v, a0 + s0, t0) = Part(v, a0, s0 + t0)
  <2>1. a0 \in Int
    OBVIOUS
  <2> QED
    BY <1>1, <2>1, PartsJoin
<1> QED
  BY <1>2, <1>3, <1>4, <1>5, <1>6

\* Two numbers read one by one.
LEMMA PairPart ==
  ASSUME NEW v, NEW a0 \in Nat
  PROVE  <<v[a0 + 1], v[a0 + 2]>> = Part(v, a0, 2) /\ <<v[a0 + 1]>> = Part(v, a0, 1)
<1>1. Long(Part(v, a0, 2), 2) /\ \A k \in 1 .. 2 : Part(v, a0, 2)[k] = v[a0 + k]
  BY PartLong
<1>2. Long(Part(v, a0, 1), 1) /\ \A k \in 1 .. 1 : Part(v, a0, 1)[k] = v[a0 + k]
  BY PartLong
<1> DEFINE x == v[a0 + 1]
           y == v[a0 + 2]
<1>3. Part(v, a0, 2)[1] = x /\ Part(v, a0, 2)[2] = y
  BY <1>1
<1>4. Part(v, a0, 1)[1] = x
  BY <1>2
<1> HIDE DEF x, y
<1>5. Long(<<x, y>>, 2)
  <2>1. <<x, y>> \in Seq({x, y}) /\ Len(<<x, y>>) = 2
    OBVIOUS
  <2> QED
    BY <2>1 DEF Long
<1>6. Long(<<x>>, 1)
  <2>1. <<x>> \in Seq({x}) /\ Len(<<x>>) = 1
    OBVIOUS
  <2> QED
    BY <2>1 DEF Long
<1>7. <<x, y>> = Part(v, a0, 2)
  <2>1. ASSUME NEW k \in 1 .. 2 PROVE <<x, y>>[k] = Part(v, a0, 2)[k]
    <3>1. k = 1 \/ k = 2
      OBVIOUS
    <3> QED
      BY <3>1, <1>3
  <2> QED
    BY <1>1, <1>5, <2>1, LongEqual
<1>8. <<x>> = Part(v, a0, 1)
  <2>1. ASSUME NEW k \in 1 .. 1 PROVE <<x>>[k] = Part(v, a0, 1)[k]
    <3>1. k = 1
      OBVIOUS
    <3> QED
      BY <3>1, <1>4
  <2> QED
    BY <1>2, <1>6, <2>1, LongEqual
<1> QED
  BY <1>7, <1>8 DEF x, y

\* A part of no entries is the empty sequence.
LEMMA PartEmpty ==
  ASSUME NEW v, NEW a0
  PROVE  Part(v, a0, 0) = <<>> /\ Long(<<>>, 0)
<1>1. Long(Part(v, a0, 0), 0)
  BY PartLong
<1>2. Long(<<>>, 0)
  BY EmptySeq DEF Long
<1> QED
  BY <1>1, <1>2, LongEqual

-----------------------------------------------------------------------------
(* Attention *)

\* A head's content part has cd0 rows; it is empty when cd0 is 0.
HeadShape(h, hd0, cd0) ==
  /\ h = [raw |-> h.raw, phase |-> h.phase, v |-> h.v, content |-> h.content]
  /\ Size(h.v.b) = hd0
  /\ IF cd0 = 0 THEN h.content = <<>> ELSE h.content # <<>> /\ Size(h.content.b) = cd0

AttnShape(a, nh0, e0, hd0, cd0) ==
  /\ DOMAIN a.heads = 0 .. nh0 - 1
  /\ \A k \in 0 .. nh0 - 1 : HeadShape(a.heads[k], hd0, cd0)
  /\ Size(a.out.b) = e0

HeadSeq(h) == LinearSeq(h.phase) \o LinearSeq(h.v) \o If(HasContent(h), LinearSeq(h.content))

\* A linear layer that was read is not the empty sequence that stands for none.
LEMMA LinearIsSome ==
  ASSUME NEW v, NEW a0, NEW r0, NEW c0
  PROVE  SliceLinear(v, a0, r0, c0) # <<>>
<1> DEFINE l == SliceLinear(v, a0, r0, c0)
<1>1. "w" \in DOMAIN l
  BY DEF SliceLinear
<1>2. DOMAIN <<>> = {}
  OBVIOUS
<1> QED
  BY <1>1, <1>2

\* An attention head read from a vector is written back as it was, with or without
\* its content projection.
LEMMA HeadPart ==
  ASSUME NEW v, NEW a0 \in Nat, NEW e0 \in Nat, NEW hd0 \in Nat, NEW cd0 \in Nat, NEW h,
         h.phase = SliceLinear(v, a0, 2, e0),
         h.v = SliceLinear(v, a0 + LinearLen(2, e0), hd0, hd0),
         h.content = IF cd0 = 0 THEN <<>>
                     ELSE SliceLinear(v, a0 + LinearLen(2, e0) + LinearLen(hd0, hd0), cd0, e0)
  PROVE  HeadSeq(h) = Part(v, a0, PerLen(e0, hd0, cd0))
<1> DEFINE x0 == LinearLen(2, e0)
           y0 == LinearLen(hd0, hd0)
           z0 == LinearLen(cd0, e0)
<1>1. x0 \in Nat /\ y0 \in Nat /\ z0 \in Nat
  BY LinearLenType
<1>2. PerLen(e0, hd0, cd0) = x0 + y0 + z0
  BY DEF PerLen
<1>3. LinearSeq(h.phase) = Part(v, a0, x0)
  BY LinearPart
<1>4. h.v = SliceLinear(v, a0 + x0, hd0, hd0) /\ h.content = IF cd0 = 0 THEN <<>> ELSE SliceLinear(v, a0 + x0 + y0, cd0, e0)
  OBVIOUS
<1>5. a0 + x0 \in Nat /\ a0 + x0 + y0 \in Nat
  BY <1>1
<1>6. LinearSeq(SliceLinear(v, a0 + x0, hd0, hd0)) = Part(v, a0 + x0, y0)
  BY <1>5, LinearPart
<1>7. LinearSeq(SliceLinear(v, a0 + x0 + y0, cd0, e0)) = Part(v, a0 + x0 + y0, z0)
  BY <1>5, LinearPart
<1>8. cd0 = 0 => z0 = 0
  BY DEF LinearLen
<1> HIDE DEF x0, y0, z0
<1>9. If(HasContent(h), LinearSeq(h.content)) = Part(v, a0 + x0 + y0, z0)
  <2>1. CASE cd0 = 0
    <3>1. Part(v, a0 + x0 + y0, 0) = <<>>
      BY PartEmpty
    <3> QED
      BY <1>4, <1>8, <2>1, <3>1 DEF If, HasContent
  <2>2. CASE cd0 # 0
    <3>1. HasContent(h)
      BY <1>4, <2>2, LinearIsSome DEF HasContent
    <3> QED
      BY <1>4, <1>7, <2>2, <3>1 DEF If
  <2> QED
    BY <2>1, <2>2
<1>10. Part(v, a0, x0) \o Part(v, a0 + x0, y0) \o Part(v, a0 + x0 + y0, z0) = Part(v, a0, x0 + y0 + z0)
  <2>1. a0 \in Int /\ x0 + y0 \in Nat /\ a0 + (x0 + y0) = a0 + x0 + y0
    BY <1>1
  <2>2. Part(v, a0, x0) \o Part(v, a0 + x0, y0) = Part(v, a0, x0 + y0)
    BY <1>1, <2>1, PartsJoin
  <2>3. Part(v, a0, x0 + y0) \o Part(v, a0 + (x0 + y0), z0) = Part(v, a0, (x0 + y0) + z0)
    BY <1>1, <2>1, PartsJoin
  <2> QED
    BY <2>1, <2>2, <2>3
<1> QED
  BY <1>2, <1>3, <1>4, <1>6, <1>9, <1>10 DEF HeadSeq

\* How attention is laid out, by HeadSeq.
LEMMA AttnSeqIs ==
  ASSUME NEW a
  PROVE  AttnSeq(a) = Concat(SeqOf([k \in DOMAIN a.heads |-> HeadSeq(a.heads[k])])) \o LinearSeq(a.out)
BY DEF AttnSeq, PerHead, HeadSeq

\* Attention read from a vector is written back as it was, all heads and the output.
LEMMA AttnPart ==
  ASSUME NEW v, NEW a0 \in Nat, NEW nh0 \in Nat \ {0}, NEW e0 \in Nat, NEW hd0 \in Nat, NEW cd0 \in Nat, NEW a,
         AttnShape(a, nh0, e0, hd0, cd0)
  PROVE  AttnSeq(UnflattenAttn(a, v, a0)) = Part(v, a0, nh0 * PerLen(e0, hd0, cd0) + LinearLen(e0, e0))
<1> DEFINE per == PerLen(e0, hd0, cd0)
           u == UnflattenAttn(a, v, a0)
           f == [k \in DOMAIN u.heads |-> HeadSeq(u.heads[k])]
           head(k) == [a.heads[k] EXCEPT
                         !.phase   = SliceLinear(v, a0 + k * per, 2, e0),
                         !.v       = SliceLinear(v, a0 + k * per + LinearLen(2, e0), hd0, hd0),
                         !.content = IF cd0 = 0 THEN <<>>
                                     ELSE SliceLinear(v, a0 + k * per + LinearLen(2, e0) + LinearLen(hd0, hd0), cd0, e0)]
<1>1. per \in Nat
  <2>1. LinearLen(2, e0) \in Nat /\ LinearLen(hd0, hd0) \in Nat /\ LinearLen(cd0, e0) \in Nat
    BY LinearLenType
  <2> QED
    BY <2>1 DEF PerLen
<1>2. /\ Size(a.out.b) = e0 /\ Size(a.heads[0].v.b) = hd0 /\ Size(a.heads) = nh0
      /\ (IF HasContent(a.heads[0]) THEN Size(a.heads[0].content.b) ELSE 0) = cd0
  <2>1. HeadShape(a.heads[0], hd0, cd0)
    BY DEF AttnShape
  <2>2. Size(a.heads) = nh0
    BY SizeIs DEF AttnShape
  <2> QED
    BY <2>1, <2>2 DEF AttnShape, HeadShape, HasContent
<1>3. u = [heads |-> [k \in 0 .. nh0 - 1 |-> head(k)], out |-> SliceLinear(v, a0 + nh0 * per, e0, e0)]
  BY <1>2, TableIs DEF UnflattenAttn, PerLen, AttnShape
<1>4. u.heads = [k \in 0 .. nh0 - 1 |-> head(k)] /\ u.out = SliceLinear(v, a0 + nh0 * per, e0, e0)
  <2> HIDE DEF head, per, u
  <2> QED
    BY <1>3
<1> HIDE DEF u
<1>5. ASSUME NEW k \in 0 .. nh0 - 1 PROVE HeadSeq(u.heads[k]) = Part(v, a0 + per * k, per)
  <2> DEFINE h == head(k)
             s0 == a0 + per * k
  <2>1. s0 \in Nat /\ s0 = a0 + k * per
    <3> HIDE DEF per
    <3> QED
      BY <1>1
  <2>2. /\ h.phase = SliceLinear(v, s0, 2, e0)
        /\ h.v = SliceLinear(v, s0 + LinearLen(2, e0), hd0, hd0)
        /\ h.content = IF cd0 = 0 THEN <<>> ELSE SliceLinear(v, s0 + LinearLen(2, e0) + LinearLen(hd0, hd0), cd0, e0)
    <3>1. HeadShape(a.heads[k], hd0, cd0)
      BY DEF AttnShape
    <3>2. {"phase", "v", "content"} \subseteq DOMAIN a.heads[k]
      BY <3>1 DEF HeadShape
    <3> HIDE DEF per, s0
    <3> QED
      BY <2>1, <3>2
  <2>3. u.heads[k] = h
    <3> HIDE DEF head
    <3> QED
      BY <1>4
  <2> HIDE DEF h, s0, head
  <2>4. HeadSeq(h) = Part(v, s0, per)
    BY <2>1, <2>2, HeadPart
  <2> QED
    BY <2>3, <2>4 DEF s0
<1>6. DOMAIN u.heads = 0 .. nh0 - 1
  <2> HIDE DEF head
  <2> QED
    BY <1>4
<1>7. LinearSeq(u.out) = Part(v, a0 + nh0 * per, LinearLen(e0, e0))
  <2> HIDE DEF per
  <2>1. a0 + nh0 * per \in Nat
    BY <1>1
  <2> HIDE DEF head
  <2> QED
    BY <1>4, <2>1, LinearPart
<1> HIDE DEF head, per
<1>8. DOMAIN f = 0 .. nh0 - 1 /\ \A k \in 0 .. nh0 - 1 : f[k] = Part(v, a0 + per * k, per)
  BY <1>5, <1>6
<1>9. AttnSeq(u) = Concat(SeqOf(f)) \o LinearSeq(u.out)
  BY AttnSeqIs
<1> HIDE DEF f
<1>10. Concat(SeqOf(f)) = Part(v, a0, per * nh0)
  <2>1. nh0 \in Nat
    OBVIOUS
  <2>2. Parts(f, nh0, v, a0, per)
    BY <1>8 DEF Parts
  <2> QED
    BY <1>1, <2>1, <2>2, EachPart
<1> DEFINE y0 == LinearLen(e0, e0)
           x0 == nh0 * per
<1>11. y0 \in Nat /\ x0 \in Nat /\ x0 = per * nh0 /\ a0 \in Int
  BY <1>1, LinearLenType
<1>12. AttnSeq(u) = Part(v, a0, x0) \o Part(v, a0 + x0, y0)
  BY <1>7, <1>9, <1>10, <1>11
<1> HIDE DEF x0, y0
<1>13. Part(v, a0, x0) \o Part(v, a0 + x0, y0) = Part(v, a0, x0 + y0)
  BY <1>11, PartsJoin
<1>14. AttnSeq(u) = Part(v, a0, x0 + y0)
  BY <1>12, <1>13
<1> QED
  BY <1>14 DEF u, x0, y0, per

-----------------------------------------------------------------------------
(* A block *)

\* The width of a group, and the lengths of the parts of a block.
GroupOf(c) == Embed(c) \div c.groups

OpLen(c)   == c.groups * LinearLen(GroupOf(c), GroupOf(c))
DynLen(c)  == IF c.dyn THEN c.nHead ELSE 0
BlockLen(c) == 4 * Embed(c) + 2 * Mae(c.md, Embed(c)) + OpLen(c) + OdeLen(c) + DynLen(c) + AttnLen(c)

BlockShape(c, b) ==
  /\ b = [ln |-> b.ln, lnFfn |-> b.lnFfn, attn |-> b.attn, kerr |-> b.kerr, plate |-> b.plate,
          maestroIn |-> b.maestroIn, maestroOut |-> b.maestroOut, outProj |-> b.outProj]
  /\ b.kerr = [gammaRaw |-> b.kerr.gammaRaw, omega |-> b.kerr.omega, alpha |-> b.kerr.alpha, beta |-> b.kerr.beta,
               chi |-> b.kerr.chi, mix |-> b.kerr.mix, steps |-> b.kerr.steps]
  /\ b.attn = [heads |-> b.attn.heads, out |-> b.attn.out]
  /\ AttnShape(b.attn, c.nHead, Embed(c), HeadOf(c), Content(c))
  /\ DOMAIN b.outProj.groups = 0 .. c.groups - 1
  /\ GroupSize(b.outProj) = GroupOf(c)

\* None of these entries stands for a value out of range.
InRange(v, a0, n0) == \A k \in 1 .. n0 : v[a0 + k][1] # 0

\* The lengths of every part of the layout are natural numbers.
LEMMA SizesType ==
  ASSUME NEW c, DimsOk(c)
  PROVE  /\ Embed(c) \in Nat \ {0} /\ GroupOf(c) \in Nat \ {0} /\ HeadOf(c) \in Nat \ {0} /\ Content(c) \in Nat
         /\ Mae(c.md, Embed(c)) \in Nat /\ OpLen(c) \in Nat /\ OdeLen(c) \in Nat /\ DynLen(c) \in Nat
         /\ PerLen(Embed(c), HeadOf(c), Content(c)) \in Nat /\ AttnLen(c) \in Nat /\ BlockLen(c) \in Nat
<1> DEFINE e0 == Embed(c)
           g0 == GroupOf(c)
           h0 == HeadOf(c)
           c0 == Content(c)
           per == PerLen(e0, h0, c0)
<1>1. c.nBands \in Nat \ {0} /\ c.groups \in Nat \ {0} /\ c.nHead \in Nat \ {0} /\ c.md \in Nat \ {0}
      /\ e0 % c.groups = 0 /\ c.nHead <= e0
  BY DEF DimsOk
<1>2. e0 \in Nat \ {0}
  BY <1>1 DEF Embed
<1>13. c.groups <= e0
  <2> HIDE DEF e0
  <2> DEFINE q == c.groups
  <2>1. q \in Nat \ {0} /\ e0 % q = 0
    BY <1>1
  <2> HIDE DEF q
  <2>2. q <= e0
    <3> SUFFICES ASSUME e0 < q PROVE FALSE
      BY <1>2, <2>1
    <3>1. e0 % q = e0
      BY <1>2, <2>1
    <3> QED
      BY <1>2, <2>1, <3>1
  <2> QED
    BY <2>2 DEF q
<1>3. \A q \in Nat \ {0} : q <= e0 => e0 \div q \in Nat \ {0}
  <2> HIDE DEF e0
  <2> TAKE q \in Nat \ {0}
  <2> HAVE q <= e0
  <2> DEFINE r == e0 \div q
  <2>1. r \in Int /\ q * r <= e0 /\ e0 < q * r + q
    BY <1>2
  <2> HIDE DEF r
  <2>2. r >= 1
    <3> SUFFICES ASSUME r <= 0 PROVE FALSE
      BY <2>1
    <3>1. q * r <= 0
      BY <2>1
    <3> QED
      BY <1>2, <2>1, <3>1
  <2> QED
    BY <2>1, <2>2 DEF r
<1>4. g0 \in Nat \ {0} /\ h0 \in Nat \ {0}
  BY <1>1, <1>3, <1>13 DEF GroupOf, HeadOf
<1>5. c0 \in Nat
  BY ModelPassAssumption DEF Content
<1> HIDE DEF e0, g0, h0, c0
<1>6. Mae(c.md, e0) \in Nat
  <2>1. LinearLen(c.md, e0) \in Nat /\ LinearLen(e0, c.md) \in Nat
    BY <1>1, <1>2, LinearLenType
  <2> QED
    BY <2>1 DEF Mae
<1>7. per \in Nat
  <2>1. LinearLen(2, e0) \in Nat /\ LinearLen(h0, h0) \in Nat /\ LinearLen(c0, e0) \in Nat
    BY <1>2, <1>4, <1>5, LinearLenType
  <2> QED
    BY <2>1 DEF PerLen
<1>8. LinearLen(g0, g0) \in Nat /\ LinearLen(e0, e0) \in Nat
  BY <1>2, <1>4, LinearLenType
<1>9. OpLen(c) \in Nat
  <2>1. OpLen(c) = c.groups * LinearLen(g0, g0)
    BY DEF OpLen, g0
  <2> QED
    BY <1>1, <1>8, <2>1
<1>10. OdeLen(c) \in Nat /\ DynLen(c) \in Nat
  BY <1>1 DEF OdeLen, DynLen
<1> HIDE DEF per
<1>11. AttnLen(c) \in Nat
  <2>1. AttnLen(c) = IF c.learnAttn THEN c.nHead * per + LinearLen(e0, e0) ELSE 0
    BY DEF AttnLen, per, e0, h0, c0
  <2>2. c.nHead * per \in Nat
    BY <1>1, <1>7
  <2> QED
    BY <1>8, <2>1, <2>2
<1>12. BlockLen(c) \in Nat
  <2>1. BlockLen(c) = 4 * e0 + 2 * Mae(c.md, e0) + OpLen(c) + OdeLen(c) + DynLen(c) + AttnLen(c)
    BY DEF BlockLen, e0
  <2> QED
    BY <1>2, <1>6, <1>9, <1>10, <1>11, <2>1
<1> QED
  BY <1>2, <1>4, <1>5, <1>6, <1>7, <1>9, <1>10, <1>11, <1>12 DEF e0, g0, h0, c0, per

\* s is the n0 entries of v after the first a0.
IsPart(s, v, a0, n0) == s = Part(v, a0, n0)

\* A part followed by the next part, with the lengths given beforehand.
LEMMA JoinOn ==
  ASSUME NEW v, NEW a0 \in Nat, NEW b0 \in Nat, NEW x0 \in Nat, NEW y0 \in Nat, NEW n0 \in Nat, NEW s, NEW t,
         b0 = a0 + x0, n0 = x0 + y0, IsPart(s, v, a0, x0), IsPart(t, v, b0, y0)
  PROVE  IsPart(s \o t, v, a0, n0)
<1>1. a0 \in Int
  OBVIOUS
<1>2. Part(v, a0, x0) \o Part(v, a0 + x0, y0) = Part(v, a0, x0 + y0)
  BY <1>1, PartsJoin
<1> QED
  BY <1>2 DEF IsPart

\* The ODE parameters read are written back as they were: raw damping, the two
\* couplings through their clamp, plate and Runge-Kutta weights.
LEMMA OdePart ==
  ASSUME NEW c, DimsOk(c), NEW v, NEW a0 \in Nat, InRange(v, a0, OdeLen(c)), NEW kerr, NEW plate, c.learnOde,
         kerr.gammaRaw = Slice(v, a0, c.nBands),
         kerr.alpha = Clamp(v[a0 + c.nBands + 1]), kerr.beta = Clamp(v[a0 + c.nBands + 2]),
         c.rk4w => kerr.mix = Slice(v, a0 + 2 * c.nBands + 2, 4),
         plate = Slice(v, a0 + c.nBands + 2, c.nBands)
  PROVE  SeqOf(kerr.gammaRaw) \o <<kerr.alpha, kerr.beta>> \o SeqOf(plate) \o If(c.rk4w, SeqOf(kerr.mix))
           = Part(v, a0, OdeLen(c))
<1> DEFINE n0 == c.nBands
           tail == IF c.rk4w THEN 4 ELSE 0
           last == If(c.rk4w, SeqOf(kerr.mix))
<1>1. n0 \in Nat /\ tail \in Nat
  BY DEF DimsOk
<1>2. OdeLen(c) = n0 + 2 + n0 + tail
  BY <1>1 DEF OdeLen
<1>3. SeqOf(kerr.gammaRaw) = Part(v, a0, n0)
  <2>1. a0 \in Int
    OBVIOUS
  <2> QED
    BY <1>1, <2>1, SliceIs
<1>4. <<kerr.alpha, kerr.beta>> = Part(v, a0 + n0, 2)
  <2>1. n0 + 1 \in 1 .. OdeLen(c) /\ n0 + 2 \in 1 .. OdeLen(c) /\ a0 + (n0 + 1) = a0 + n0 + 1 /\ a0 + (n0 + 2) = a0 + n0 + 2
    BY <1>1, <1>2
  <2>2. v[a0 + (n0 + 1)][1] # 0 /\ v[a0 + (n0 + 2)][1] # 0
    BY <2>1 DEF InRange
  <2>3. kerr.alpha = v[a0 + n0 + 1] /\ kerr.beta = v[a0 + n0 + 2]
    BY <2>1, <2>2 DEF Clamp
  <2>4. a0 + n0 \in Nat
    BY <1>1
  <2>5. <<v[a0 + n0 + 1], v[a0 + n0 + 2]>> = Part(v, a0 + n0, 2)
    BY <2>4, PairPart
  <2> QED
    BY <2>3, <2>5
<1>5. SeqOf(plate) = Part(v, a0 + (n0 + 2), n0)
  <2>1. a0 + n0 + 2 \in Int /\ a0 + n0 + 2 = a0 + (n0 + 2)
    BY <1>1
  <2>2. SeqOf(Slice(v, a0 + n0 + 2, n0)) = Part(v, a0 + n0 + 2, n0)
    BY <1>1, <2>1, SliceIs
  <2> QED
    BY <2>1, <2>2
<1>6. last = Part(v, a0 + (n0 + 2 + n0), tail)
  <2>1. a0 + 2 * n0 + 2 \in Int /\ a0 + 2 * n0 + 2 = a0 + (n0 + 2 + n0)
    BY <1>1
  <2>2. CASE c.rk4w
    <3>1. SeqOf(Slice(v, a0 + 2 * n0 + 2, 4)) = Part(v, a0 + 2 * n0 + 2, 4)
      BY <2>1, SliceIs
    <3> QED
      BY <2>1, <2>2, <3>1 DEF If
  <2>3. CASE ~c.rk4w
    BY <2>3, PartEmpty DEF If
  <2> QED
    BY <2>2, <2>3
<1> HIDE DEF n0, tail, last
<1> DEFINE s1 == SeqOf(kerr.gammaRaw)
           s2 == <<kerr.alpha, kerr.beta>>
           s3 == SeqOf(plate)
           n2 == n0 + 2
           n3 == n2 + n0
           n4 == n3 + tail
           b1 == a0 + n0
           b2 == a0 + n2
           b3 == a0 + n3
<1>7. /\ n2 \in Nat /\ n3 \in Nat /\ n4 \in Nat /\ b1 \in Nat /\ b2 \in Nat /\ b3 \in Nat
      /\ n2 = n0 + 2 /\ n3 = n2 + n0 /\ n4 = n3 + tail /\ b1 = a0 + n0 /\ b2 = a0 + n2 /\ b3 = a0 + n3
  BY <1>1
<1>8. IsPart(s1, v, a0, n0) /\ IsPart(s2, v, b1, 2) /\ IsPart(s3, v, b2, n0) /\ IsPart(last, v, b3, tail)
  BY <1>3, <1>4, <1>5, <1>6 DEF IsPart
<1>9. OdeLen(c) = n4
  BY <1>2
<1> HIDE DEF s1, s2, s3, n2, n3, n4, b1, b2, b3
<1>10. IsPart(s1 \o s2, v, a0, n2)
  BY <1>1, <1>7, <1>8, JoinOn
<1>11. IsPart((s1 \o s2) \o s3, v, a0, n3)
  BY <1>1, <1>7, <1>8, <1>10, JoinOn
<1>12. IsPart(((s1 \o s2) \o s3) \o last, v, a0, n4)
  BY <1>1, <1>7, <1>8, <1>11, JoinOn
<1> QED
  BY <1>9, <1>12 DEF s1, s2, s3, last, IsPart

\* Where the parts of a block that is read from a0 begin.
OpAt(c, a0)   == a0 + 4 * Embed(c) + 2 * Mae(c.md, Embed(c))
OdeAt(c, a0)  == OpAt(c, a0) + OpLen(c)
DynAt(c, a0)  == OdeAt(c, a0) + OdeLen(c)
AttnAt(c, a0) == DynAt(c, a0) + DynLen(c)

\* The attention of b with its raw harmonics read from y0, when they are trained.
Harmonics(c, b, v, y0) ==
  IF c.dyn THEN [b.attn EXCEPT !.heads = Table([k \in DOMAIN @ |-> [@[k] EXCEPT !.raw = v[y0 + k + 1]]])] ELSE b.attn

\* The fields of a block that was read: each is its slice of the vector.
LEMMA BlockFields ==
  ASSUME NEW c, DimsOk(c), NEW b, BlockShape(c, b), NEW v, NEW a0, NEW u, u = UnflattenBlock(c, b, v, a0)
  PROVE  /\ u.ln = [w |-> Slice(v, a0, Embed(c)), b |-> Slice(v, a0 + Embed(c), Embed(c))]
         /\ u.lnFfn = [w |-> Slice(v, a0 + 2 * Embed(c), Embed(c)), b |-> Slice(v, a0 + 3 * Embed(c), Embed(c))]
         /\ u.maestroIn = UnflattenMaestro(v, a0 + 4 * Embed(c), c.md, Embed(c))
         /\ u.maestroOut = UnflattenMaestro(v, a0 + 4 * Embed(c) + Mae(c.md, Embed(c)), c.md, Embed(c))
         /\ u.outProj.groups = [k \in 0 .. c.groups - 1 |->
              SliceLinear(v, OpAt(c, a0) + k * LinearLen(GroupOf(c), GroupOf(c)), GroupOf(c), GroupOf(c))]
         /\ c.learnOde => /\ u.kerr.gammaRaw = Slice(v, OdeAt(c, a0), c.nBands)
                          /\ u.kerr.alpha = Clamp(v[OdeAt(c, a0) + c.nBands + 1])
                          /\ u.kerr.beta = Clamp(v[OdeAt(c, a0) + c.nBands + 2])
                          /\ c.rk4w => u.kerr.mix = Slice(v, OdeAt(c, a0) + 2 * c.nBands + 2, 4)
                          /\ u.plate = Slice(v, OdeAt(c, a0) + c.nBands + 2, c.nBands)
         /\ u.attn = IF c.learnAttn THEN UnflattenAttn(Harmonics(c, b, v, DynAt(c, a0)), v, AttnAt(c, a0))
                     ELSE Harmonics(c, b, v, DynAt(c, a0))
<1> DEFINE e    == Embed(c)
           mae  == LinearLen(c.md, e) + LinearLen(e, c.md)
           gs   == GroupSize(b.outProj)
           op   == a0 + 4 * e + 2 * mae
           ode  == op + Size(b.outProj.groups) * LinearLen(gs, gs)
           dyn  == ode + (IF c.learnOde THEN 2 * c.nBands + 2 + (IF c.rk4w THEN 4 ELSE 0) ELSE 0)
           attn == dyn + (IF c.dyn THEN Size(b.attn.heads) ELSE 0)
           kerr == IF c.learnOde
                   THEN [b.kerr EXCEPT !.gammaRaw = Slice(v, ode, c.nBands), !.alpha = Clamp(v[ode + c.nBands + 1]),
                                       !.beta = Clamp(v[ode + c.nBands + 2]),
                                       !.mix = IF c.rk4w THEN Slice(v, ode + 2 * c.nBands + 2, 4) ELSE @]
                   ELSE b.kerr
           bent == Harmonics(c, b, v, dyn)
           groups == [k \in DOMAIN b.outProj.groups |-> SliceLinear(v, op + k * LinearLen(gs, gs), gs, gs)]
           x1 == [w |-> Slice(v, a0, e), b |-> Slice(v, a0 + e, e)]
           x2 == [w |-> Slice(v, a0 + 2 * e, e), b |-> Slice(v, a0 + 3 * e, e)]
           x3 == UnflattenMaestro(v, a0 + 4 * e, c.md, e)
           x4 == UnflattenMaestro(v, a0 + 4 * e + mae, c.md, e)
           plate == Slice(v, ode + c.nBands + 2, c.nBands)
           full == UnflattenAttn(bent, v, attn)
<1>1. u = [b EXCEPT !.ln = x1, !.lnFfn = x2, !.maestroIn = x3, !.maestroOut = x4,
                    !.outProj = [groups |-> groups], !.kerr = kerr,
                    !.plate = IF c.learnOde THEN plate ELSE @,
                    !.attn = IF c.learnAttn THEN full ELSE bent]
  BY TableIs DEF UnflattenBlock, Harmonics
<1>2. Size(b.outProj.groups) = c.groups /\ Size(b.attn.heads) = c.nHead /\ gs = GroupOf(c)
      /\ DOMAIN b.outProj.groups = 0 .. c.groups - 1
  <2>1. c.groups \in Nat /\ c.nHead \in Nat
    BY DEF DimsOk
  <2>2. DOMAIN b.outProj.groups = 0 .. c.groups - 1 /\ DOMAIN b.attn.heads = 0 .. c.nHead - 1
    BY DEF BlockShape, AttnShape
  <2> QED
    BY <2>1, <2>2, SizeIs DEF BlockShape
<1>3. op = OpAt(c, a0)
  BY DEF OpAt, Mae
<1>4. ode = OdeAt(c, a0)
  <2> HIDE DEF op, gs
  <2> QED
    BY <1>2, <1>3 DEF OdeAt, OpLen
<1>5. dyn = DynAt(c, a0)
  <2> HIDE DEF ode
  <2> QED
    BY <1>4 DEF DynAt, OdeLen
<1>6. attn = AttnAt(c, a0)
  <2> HIDE DEF dyn
  <2> QED
    BY <1>2, <1>5 DEF AttnAt, DynLen
<1>7. x1 = [w |-> Slice(v, a0, Embed(c)), b |-> Slice(v, a0 + Embed(c), Embed(c))]
      /\ x2 = [w |-> Slice(v, a0 + 2 * Embed(c), Embed(c)), b |-> Slice(v, a0 + 3 * Embed(c), Embed(c))]
      /\ x3 = UnflattenMaestro(v, a0 + 4 * Embed(c), c.md, Embed(c))
  OBVIOUS
<1>8. x4 = UnflattenMaestro(v, a0 + 4 * Embed(c) + Mae(c.md, Embed(c)), c.md, Embed(c))
  BY DEF Mae
<1>9. groups = [k \in 0 .. c.groups - 1 |->
              SliceLinear(v, OpAt(c, a0) + k * LinearLen(GroupOf(c), GroupOf(c)), GroupOf(c), GroupOf(c))]
  <2> HIDE DEF op, gs
  <2> QED
    BY <1>2, <1>3
<1>10. plate = Slice(v, OdeAt(c, a0) + c.nBands + 2, c.nBands)
  <2> HIDE DEF ode
  <2> QED
    BY <1>4
<1>11. bent = Harmonics(c, b, v, DynAt(c, a0))
  <2> HIDE DEF dyn
  <2> QED
    BY <1>5
<1>12. full = UnflattenAttn(Harmonics(c, b, v, DynAt(c, a0)), v, AttnAt(c, a0))
  <2> HIDE DEF attn, bent
  <2> QED
    BY <1>6, <1>11
<1>13. c.learnOde => /\ kerr.gammaRaw = Slice(v, OdeAt(c, a0), c.nBands)
                     /\ kerr.alpha = Clamp(v[OdeAt(c, a0) + c.nBands + 1])
                     /\ kerr.beta = Clamp(v[OdeAt(c, a0) + c.nBands + 2])
                     /\ c.rk4w => kerr.mix = Slice(v, OdeAt(c, a0) + 2 * c.nBands + 2, 4)
  <2> HAVE c.learnOde
  <2> HIDE DEF ode
  <2> DEFINE g1 == Slice(v, ode, c.nBands)
             g2 == Clamp(v[ode + c.nBands + 1])
             g3 == Clamp(v[ode + c.nBands + 2])
             g4 == Slice(v, ode + 2 * c.nBands + 2, 4)
  <2>1. kerr = [b.kerr EXCEPT !.gammaRaw = g1, !.alpha = g2, !.beta = g3, !.mix = IF c.rk4w THEN g4 ELSE @]
    OBVIOUS
  <2>2. g1 = Slice(v, OdeAt(c, a0), c.nBands) /\ g2 = Clamp(v[OdeAt(c, a0) + c.nBands + 1])
        /\ g3 = Clamp(v[OdeAt(c, a0) + c.nBands + 2]) /\ g4 = Slice(v, OdeAt(c, a0) + 2 * c.nBands + 2, 4)
    BY <1>4
  <2>3. {"gammaRaw", "alpha", "beta", "mix"} \subseteq DOMAIN b.kerr
    BY DEF BlockShape
  <2> HIDE DEF kerr, g1, g2, g3, g4
  <2>4. kerr.gammaRaw = g1 /\ kerr.alpha = g2 /\ kerr.beta = g3 /\ (c.rk4w => kerr.mix = g4)
    BY <2>1, <2>3
  <2> QED
    BY <2>2, <2>4
<1>14. {"ln", "lnFfn", "maestroIn", "maestroOut", "outProj", "kerr", "plate", "attn"} \subseteq DOMAIN b
  BY DEF BlockShape
<1> HIDE DEF x1, x2, x3, x4, groups, kerr, plate, full, bent
<1>15. /\ u.ln = x1 /\ u.lnFfn = x2 /\ u.maestroIn = x3 /\ u.maestroOut = x4 /\ u.outProj = [groups |-> groups]
       /\ u.kerr = kerr /\ (c.learnOde => u.plate = plate) /\ u.attn = IF c.learnAttn THEN full ELSE bent
  BY <1>1, <1>14
<1>16. u.outProj.groups = groups
  BY <1>15
<1>17. u.ln = [w |-> Slice(v, a0, Embed(c)), b |-> Slice(v, a0 + Embed(c), Embed(c))]
         /\ u.lnFfn = [w |-> Slice(v, a0 + 2 * Embed(c), Embed(c)), b |-> Slice(v, a0 + 3 * Embed(c), Embed(c))]
         /\ u.maestroIn = UnflattenMaestro(v, a0 + 4 * Embed(c), c.md, Embed(c))
         /\ u.maestroOut = UnflattenMaestro(v, a0 + 4 * Embed(c) + Mae(c.md, Embed(c)), c.md, Embed(c))
  BY <1>7, <1>8, <1>15
<1>18. u.outProj.groups = [k \in 0 .. c.groups - 1 |->
              SliceLinear(v, OpAt(c, a0) + k * LinearLen(GroupOf(c), GroupOf(c)), GroupOf(c), GroupOf(c))]
  BY <1>9, <1>16
<1>19. c.learnOde => /\ u.kerr.gammaRaw = Slice(v, OdeAt(c, a0), c.nBands)
                     /\ u.kerr.alpha = Clamp(v[OdeAt(c, a0) + c.nBands + 1])
                     /\ u.kerr.beta = Clamp(v[OdeAt(c, a0) + c.nBands + 2])
                     /\ c.rk4w => u.kerr.mix = Slice(v, OdeAt(c, a0) + 2 * c.nBands + 2, 4)
                     /\ u.plate = Slice(v, OdeAt(c, a0) + c.nBands + 2, c.nBands)
  BY <1>10, <1>13, <1>15
<1>20. u.attn = IF c.learnAttn THEN UnflattenAttn(Harmonics(c, b, v, DynAt(c, a0)), v, AttnAt(c, a0))
                ELSE Harmonics(c, b, v, DynAt(c, a0))
  BY <1>11, <1>12, <1>15
<1> QED
  BY <1>17, <1>18, <1>19, <1>20

\* Writing the harmonics keeps the shape, and the harmonics read are those written.
LEMMA HarmonicsIs ==
  ASSUME NEW c, DimsOk(c), NEW b, BlockShape(c, b), NEW v, NEW y0
  PROVE  /\ AttnShape(Harmonics(c, b, v, y0), c.nHead, Embed(c), HeadOf(c), Content(c))
         /\ c.dyn => \A k \in 0 .. c.nHead - 1 : Harmonics(c, b, v, y0).heads[k].raw = v[y0 + k + 1]
<1> DEFINE a == b.attn
           new(k) == [a.heads[k] EXCEPT !.raw = v[y0 + k + 1]]
           h == Harmonics(c, b, v, y0)
<1>1. AttnShape(a, c.nHead, Embed(c), HeadOf(c), Content(c)) /\ a = [heads |-> a.heads, out |-> a.out]
  BY DEF BlockShape
<1>2. CASE ~c.dyn
  BY <1>1, <1>2 DEF Harmonics
<1>3. CASE c.dyn
  <2>1. h = [a EXCEPT !.heads = [k \in DOMAIN a.heads |-> new(k)]]
    BY <1>3, TableIs DEF Harmonics
  <2>2. DOMAIN a.heads = 0 .. c.nHead - 1 /\ (\A k \in 0 .. c.nHead - 1 : HeadShape(a.heads[k], HeadOf(c), Content(c)))
        /\ Size(a.out.b) = Embed(c)
    BY <1>1 DEF AttnShape
  <2>3. ASSUME NEW k \in 0 .. c.nHead - 1
        PROVE  HeadShape(new(k), HeadOf(c), Content(c)) /\ new(k).raw = v[y0 + k + 1]
    <3> DEFINE q == a.heads[k]
               x == v[y0 + k + 1]
    <3>1. HeadShape(q, HeadOf(c), Content(c)) /\ new(k) = [q EXCEPT !.raw = x]
      BY <2>2
    <3> HIDE DEF q, x, new
    <3>2. q = [raw |-> q.raw, phase |-> q.phase, v |-> q.v, content |-> q.content]
      BY <3>1 DEF HeadShape
    <3>3. new(k) = [raw |-> x, phase |-> q.phase, v |-> q.v, content |-> q.content]
      BY <3>1, <3>2
    <3>4. new(k).raw = x /\ new(k).phase = q.phase /\ new(k).v = q.v /\ new(k).content = q.content
      BY <3>3
    <3>5. new(k) = [raw |-> new(k).raw, phase |-> new(k).phase, v |-> new(k).v, content |-> new(k).content]
      BY <3>3, <3>4
    <3> QED
      BY <3>1, <3>4, <3>5 DEF HeadShape, x
  <2> HIDE DEF new, h
  <2>4. h.heads = [k \in 0 .. c.nHead - 1 |-> new(k)] /\ h.out = a.out
    BY <1>1, <2>1, <2>2
  <2>5. AttnShape(h, c.nHead, Embed(c), HeadOf(c), Content(c))
    BY <2>2, <2>3, <2>4 DEF AttnShape
  <2>6. \A k \in 0 .. c.nHead - 1 : h.heads[k].raw = v[y0 + k + 1]
    BY <2>3, <2>4
  <2> QED
    BY <2>5, <2>6 DEF h
<1> QED
  BY <1>2, <1>3

\* Reading attention back touches neither the heads' number nor their harmonics.
LEMMA AttnKeepsRaw ==
  ASSUME NEW nh0 \in Nat, NEW e0, NEW hd0, NEW cd0, NEW a, AttnShape(a, nh0, e0, hd0, cd0), NEW v, NEW a0
  PROVE  DOMAIN UnflattenAttn(a, v, a0).heads = 0 .. nh0 - 1
         /\ \A k \in 0 .. nh0 - 1 : UnflattenAttn(a, v, a0).heads[k].raw = a.heads[k].raw
<1> DEFINE u == UnflattenAttn(a, v, a0)
           e == Size(a.out.b)
           hd == Size(a.heads[0].v.b)
           cd == IF HasContent(a.heads[0]) THEN Size(a.heads[0].content.b) ELSE 0
           per == LinearLen(2, e) + LinearLen(hd, hd) + LinearLen(cd, e)
           y1(k) == SliceLinear(v, a0 + k * per, 2, e)
           y2(k) == SliceLinear(v, a0 + k * per + LinearLen(2, e), hd, hd)
           y3(k) == IF cd = 0 THEN <<>>
                    ELSE SliceLinear(v, a0 + k * per + LinearLen(2, e) + LinearLen(hd, hd), cd, e)
           out == SliceLinear(v, a0 + Size(a.heads) * per, e, e)
<1>1. u = [heads |-> [k \in DOMAIN a.heads |-> [a.heads[k] EXCEPT !.phase = y1(k), !.v = y2(k), !.content = y3(k)]],
           out |-> out]
  BY TableIs DEF UnflattenAttn
<1> HIDE DEF e, hd, cd, per, y1, y2, y3, out, u
<1>2. u.heads = [k \in DOMAIN a.heads |-> [a.heads[k] EXCEPT !.phase = y1(k), !.v = y2(k), !.content = y3(k)]]
  BY <1>1
<1>3. DOMAIN a.heads = 0 .. nh0 - 1
  BY DEF AttnShape
<1>4. ASSUME NEW k \in 0 .. nh0 - 1 PROVE u.heads[k].raw = a.heads[k].raw
  <2> DEFINE q == a.heads[k]
  <2>1. HeadShape(q, hd0, cd0)
    BY DEF AttnShape
  <2>2. u.heads[k] = [q EXCEPT !.phase = y1(k), !.v = y2(k), !.content = y3(k)]
    BY <1>2, <1>3
  <2> HIDE DEF q
  <2>3. "raw" \in DOMAIN q
    BY <2>1 DEF HeadShape
  <2>4. u.heads[k].raw = q.raw
    BY <2>2, <2>3
  <2> QED
    BY <2>4 DEF q
<1> QED
  BY <1>2, <1>3, <1>4 DEF u

\* The raw harmonics of the heads, listed, are the part they were read from.
LEMMA DynPart ==
  ASSUME NEW v, NEW a0 \in Nat, NEW nh0 \in Nat, NEW heads, DOMAIN heads = 0 .. nh0 - 1,
         \A k \in 0 .. nh0 - 1 : heads[k].raw = v[a0 + k + 1]
  PROVE  PerHead(heads, LAMBDA h : <<h.raw>>) = Part(v, a0, nh0)
<1> DEFINE f == [k \in DOMAIN heads |-> <<heads[k].raw>>]
<1>1. PerHead(heads, LAMBDA h : <<h.raw>>) = Concat(SeqOf(f))
  BY DEF PerHead
<1>2. ASSUME NEW k \in 0 .. nh0 - 1 PROVE f[k] = Part(v, a0 + 1 * k, 1)
  <2>1. a0 + k \in Nat /\ 1 * k = k
    OBVIOUS
  <2>2. <<v[a0 + k + 1]>> = Part(v, a0 + k, 1)
    BY <2>1, PairPart
  <2>3. f[k] = <<v[a0 + k + 1]>>
    OBVIOUS
  <2> QED
    BY <2>1, <2>2, <2>3
<1>3. Parts(f, nh0, v, a0, 1)
  BY <1>2 DEF Parts
<1> HIDE DEF f
<1>4. Concat(SeqOf(f)) = Part(v, a0, 1 * nh0)
  BY <1>3, EachPart
<1>5. 1 * nh0 = nh0
  OBVIOUS
<1> QED
  BY <1>1, <1>4, <1>5

GroupsAt(v, a0, n0, gs0) == [k \in 0 .. n0 - 1 |-> SliceLinear(v, a0 + k * LinearLen(gs0, gs0), gs0, gs0)]

\* The groups of the output projection read are written back as they were.
LEMMA GroupsPart ==
  ASSUME NEW v, NEW a0 \in Nat, NEW n0 \in Nat, NEW gs0 \in Nat, NEW groups, groups = GroupsAt(v, a0, n0, gs0)
  PROVE  Concat(SeqOf([k \in DOMAIN groups |-> LinearSeq(groups[k])])) = Part(v, a0, n0 * LinearLen(gs0, gs0))
<1> DEFINE f == [k \in DOMAIN groups |-> LinearSeq(groups[k])]
           l0 == LinearLen(gs0, gs0)
<1>1. l0 \in Nat
  BY LinearLenType
<1>2. DOMAIN f = 0 .. n0 - 1
  BY DEF GroupsAt
<1>3. ASSUME NEW k \in 0 .. n0 - 1 PROVE f[k] = Part(v, a0 + l0 * k, l0)
  <2> HIDE DEF l0
  <2>1. a0 + k * l0 \in Nat /\ a0 + k * l0 = a0 + l0 * k
    BY <1>1
  <2>2. LinearSeq(SliceLinear(v, a0 + k * l0, gs0, gs0)) = Part(v, a0 + k * l0, l0)
    BY <2>1, LinearPart DEF l0
  <2>3. f[k] = LinearSeq(SliceLinear(v, a0 + k * l0, gs0, gs0))
    BY DEF l0, GroupsAt
  <2> QED
    BY <2>1, <2>2, <2>3
<1> HIDE DEF l0
<1>4. Parts(f, n0, v, a0, l0)
  BY <1>2, <1>3 DEF Parts
<1> HIDE DEF f
<1>5. Concat(SeqOf(f)) = Part(v, a0, l0 * n0)
  BY <1>1, <1>4, EachPart
<1>6. l0 * n0 = n0 * l0
  BY <1>1
<1> QED
  BY <1>5, <1>6 DEF f, l0

\* A block read from a vector is written back as it was, whatever flags are set.
LEMMA BlockPart ==
  ASSUME NEW c, DimsOk(c), NEW b, BlockShape(c, b), NEW v, NEW a0 \in Nat, InRange(v, a0, BlockLen(c))
  PROVE  FlattenBlock(c, UnflattenBlock(c, b, v, a0)) = Part(v, a0, BlockLen(c))
<1> DEFINE u == UnflattenBlock(c, b, v, a0)
           e == Embed(c)
           mae == Mae(c.md, e)
           op == OpLen(c)
           ode == OdeLen(c)
           dyn == DynLen(c)
           attn == AttnLen(c)
           s1 == NormSeq(u.ln)
           s2 == NormSeq(u.lnFfn)
           s3 == MaestroSeq(u.maestroIn)
           s4 == MaestroSeq(u.maestroOut)
           s5 == Concat(SeqOf([k \in DOMAIN u.outProj.groups |-> LinearSeq(u.outProj.groups[k])]))
           s6 == If(c.learnOde, SeqOf(u.kerr.gammaRaw) \o <<u.kerr.alpha, u.kerr.beta>> \o SeqOf(u.plate)
                                  \o If(c.rk4w, SeqOf(u.kerr.mix)))
           s7 == If(c.dyn, PerHead(u.attn.heads, LAMBDA h : <<h.raw>>))
           s8 == If(c.learnAttn, AttnSeq(u.attn))
           b2 == a0 + 2 * e
           b3 == a0 + 4 * e
           b4 == a0 + 4 * e + mae
           b5 == OpAt(c, a0)
           b6 == OdeAt(c, a0)
           b7 == DynAt(c, a0)
           b8 == AttnAt(c, a0)
           h == Harmonics(c, b, v, b7)
<1>1. /\ u.ln = [w |-> Slice(v, a0, e), b |-> Slice(v, a0 + e, e)]
      /\ u.lnFfn = [w |-> Slice(v, a0 + 2 * e, e), b |-> Slice(v, a0 + 3 * e, e)]
      /\ u.maestroIn = UnflattenMaestro(v, b3, c.md, e)
      /\ u.maestroOut = UnflattenMaestro(v, b4, c.md, e)
      /\ u.outProj.groups = [k \in 0 .. c.groups - 1 |->
           SliceLinear(v, b5 + k * LinearLen(GroupOf(c), GroupOf(c)), GroupOf(c), GroupOf(c))]
      /\ c.learnOde => /\ u.kerr.gammaRaw = Slice(v, b6, c.nBands)
                       /\ u.kerr.alpha = Clamp(v[b6 + c.nBands + 1])
                       /\ u.kerr.beta = Clamp(v[b6 + c.nBands + 2])
                       /\ c.rk4w => u.kerr.mix = Slice(v, b6 + 2 * c.nBands + 2, 4)
                       /\ u.plate = Slice(v, b6 + c.nBands + 2, c.nBands)
      /\ u.attn = IF c.learnAttn THEN UnflattenAttn(h, v, b8) ELSE h
  BY BlockFields
<1>2. FlattenBlock(c, u) = s1 \o s2 \o s3 \o s4 \o s5 \o s6 \o s7 \o s8
  BY DEF FlattenBlock
<1>3. /\ e \in Nat /\ c.md \in Nat /\ c.groups \in Nat /\ GroupOf(c) \in Nat /\ c.nHead \in Nat \ {0} /\ c.nHead \in Nat
      /\ HeadOf(c) \in Nat /\ Content(c) \in Nat
      /\ mae \in Nat /\ op \in Nat /\ ode \in Nat /\ dyn \in Nat /\ attn \in Nat
  BY SizesType DEF DimsOk
<1>4. /\ b5 = a0 + 4 * e + 2 * mae /\ b6 = b5 + op /\ b7 = b6 + ode /\ b8 = b7 + dyn
      /\ BlockLen(c) = 4 * e + 2 * mae + op + ode + dyn + attn
  BY DEF OpAt, OdeAt, DynAt, AttnAt, BlockLen
<1>5. /\ b2 \in Nat /\ b3 \in Nat /\ b4 \in Nat /\ b2 = a0 + 2 * e /\ b3 = a0 + 4 * e /\ b4 = a0 + 4 * e + mae
  <2> HIDE DEF e, mae
  <2> QED
    BY <1>3
<1>6. op = c.groups * LinearLen(GroupOf(c), GroupOf(c))
      /\ (c.learnAttn => attn = c.nHead * PerLen(e, HeadOf(c), Content(c)) + LinearLen(e, e)) /\ (~c.learnAttn => attn = 0)
      /\ (c.dyn => dyn = c.nHead) /\ (~c.dyn => dyn = 0) /\ (~c.learnOde => ode = 0)
  BY DEF OpLen, AttnLen, DynLen, OdeLen
<1>7. AttnShape(h, c.nHead, e, HeadOf(c), Content(c)) /\ (c.dyn => \A k \in 0 .. c.nHead - 1 : h.heads[k].raw = v[b7 + k + 1])
  BY HarmonicsIs
<1> HIDE DEF u, e, mae, op, ode, dyn, attn, b2, b3, b4, b5, b6, b7, b8, h
<1>8. b5 \in Nat /\ b6 \in Nat /\ b7 \in Nat /\ b8 \in Nat
  BY <1>3, <1>4
<1>9. IsPart(s1, v, a0, 2 * e)
  <2>1. NormSeq([w |-> Slice(v, a0, e), b |-> Slice(v, a0 + e, e)]) = Part(v, a0, 2 * e)
    BY <1>3, NormPart
  <2> QED
    BY <1>1, <2>1 DEF IsPart
<1>10. IsPart(s2, v, b2, 2 * e)
  <2>1. NormSeq([w |-> Slice(v, b2, e), b |-> Slice(v, b2 + e, e)]) = Part(v, b2, 2 * e)
    BY <1>3, <1>5, NormPart
  <2>2. b2 + e = a0 + 3 * e
    BY <1>3, <1>5
  <2> QED
    BY <1>1, <1>5, <2>1, <2>2 DEF IsPart
<1>11. IsPart(s3, v, b3, mae)
  <2>1. MaestroSeq(UnflattenMaestro(v, b3, c.md, e)) = Part(v, b3, Mae(c.md, e))
    BY <1>3, <1>5, MaestroPart
  <2> QED
    BY <1>1, <2>1 DEF IsPart, mae
<1>12. IsPart(s4, v, b4, mae)
  <2>1. MaestroSeq(UnflattenMaestro(v, b4, c.md, e)) = Part(v, b4, Mae(c.md, e))
    BY <1>3, <1>5, MaestroPart
  <2> QED
    BY <1>1, <2>1 DEF IsPart, mae
<1>13. IsPart(s5, v, b5, op)
  <2> DEFINE g0 == GroupOf(c)
             groups == u.outProj.groups
  <2>1. groups = GroupsAt(v, b5, c.groups, g0)
    BY <1>1 DEF GroupsAt
  <2>2. g0 \in Nat
    BY <1>3
  <2> HIDE DEF g0, groups
  <2>3. Concat(SeqOf([k \in DOMAIN groups |-> LinearSeq(groups[k])])) = Part(v, b5, c.groups * LinearLen(g0, g0))
    BY <1>3, <1>8, <2>1, <2>2, GroupsPart
  <2> QED
    BY <1>6, <2>3 DEF IsPart, groups, g0
<1>14. IsPart(s6, v, b6, ode)
  <2>1. CASE c.learnOde
    <3>1. InRange(v, b6, OdeLen(c))
      <4> SUFFICES ASSUME NEW k \in 1 .. OdeLen(c) PROVE v[b6 + k][1] # 0
        BY DEF InRange
      <4> DEFINE q == 4 * e + 2 * mae + op
      <4>1. ode = OdeLen(c)
        BY DEF ode
      <4>2. q + k \in 1 .. BlockLen(c) /\ a0 + (q + k) = b6 + k
        BY <1>3, <1>4, <4>1
      <4>3. v[a0 + (q + k)][1] # 0
        BY <4>2 DEF InRange
      <4> QED
        BY <4>2, <4>3
    <3> DEFINE kerr == u.kerr
               plate == u.plate
    <3>2. /\ kerr.gammaRaw = Slice(v, b6, c.nBands)
          /\ kerr.alpha = Clamp(v[b6 + c.nBands + 1]) /\ kerr.beta = Clamp(v[b6 + c.nBands + 2])
          /\ c.rk4w => kerr.mix = Slice(v, b6 + 2 * c.nBands + 2, 4)
          /\ plate = Slice(v, b6 + c.nBands + 2, c.nBands)
      BY <1>1, <2>1
    <3> HIDE DEF kerr, plate
    <3>3. SeqOf(kerr.gammaRaw) \o <<kerr.alpha, kerr.beta>> \o SeqOf(plate) \o If(c.rk4w, SeqOf(kerr.mix))
            = Part(v, b6, OdeLen(c))
      BY <1>8, <2>1, <3>1, <3>2, OdePart
    <3> QED
      BY <2>1, <3>3 DEF IsPart, If, kerr, plate, ode
  <2>2. CASE ~c.learnOde
    BY <1>6, <2>2, PartEmpty DEF IsPart, If
  <2> QED
    BY <2>1, <2>2
<1>15. IsPart(s7, v, b7, dyn)
  <2>1. CASE c.dyn
    <3> DEFINE heads == u.attn.heads
    <3>1. DOMAIN heads = 0 .. c.nHead - 1 /\ \A k \in 0 .. c.nHead - 1 : heads[k].raw = v[b7 + k + 1]
      <4>1. CASE c.learnAttn
        <5> DEFINE full == UnflattenAttn(h, v, b8)
        <5>1. DOMAIN full.heads = 0 .. c.nHead - 1 /\ \A k \in 0 .. c.nHead - 1 : full.heads[k].raw = h.heads[k].raw
          BY <1>3, <1>7, AttnKeepsRaw
        <5> HIDE DEF full
        <5>2. u.attn = full
          BY <1>1, <4>1 DEF full
        <5> QED
          BY <1>7, <2>1, <5>1, <5>2
      <4>2. CASE ~c.learnAttn
        BY <1>1, <1>7, <2>1, <4>2 DEF AttnShape
      <4> QED
        BY <4>1, <4>2
    <3> HIDE DEF heads
    <3>2. PerHead(heads, LAMBDA q : <<q.raw>>) = Part(v, b7, c.nHead)
      BY <1>3, <1>8, <3>1, DynPart
    <3> QED
      BY <1>6, <2>1, <3>2 DEF IsPart, If, heads
  <2>2. CASE ~c.dyn
    BY <1>6, <2>2, PartEmpty DEF IsPart, If
  <2> QED
    BY <2>1, <2>2
<1>16. IsPart(s8, v, b8, attn)
  <2>1. CASE c.learnAttn
    <3>1. AttnSeq(UnflattenAttn(h, v, b8)) = Part(v, b8, c.nHead * PerLen(e, HeadOf(c), Content(c)) + LinearLen(e, e))
      BY <1>3, <1>7, <1>8, AttnPart
    <3> QED
      BY <1>1, <1>6, <2>1, <3>1 DEF IsPart, If
  <2>2. CASE ~c.learnAttn
    BY <1>6, <2>2, PartEmpty DEF IsPart, If
  <2> QED
    BY <2>1, <2>2
<1> HIDE DEF s1, s2, s3, s4, s5, s6, s7, s8
<1> DEFINE n1 == 2 * e
           n2 == 4 * e
           n3 == 4 * e + mae
           n4 == 4 * e + 2 * mae
           n5 == n4 + op
           n6 == n5 + ode
           n7 == n6 + dyn
           n8 == n7 + attn
<1>17. /\ n1 \in Nat /\ n2 \in Nat /\ n3 \in Nat /\ n4 \in Nat /\ n5 \in Nat /\ n6 \in Nat /\ n7 \in Nat /\ n8 \in Nat
       /\ b2 = a0 + n1 /\ b3 = a0 + n2 /\ b4 = a0 + n3 /\ b5 = a0 + n4 /\ b6 = a0 + n5 /\ b7 = a0 + n6 /\ b8 = a0 + n7
       /\ n2 = n1 + n1 /\ n3 = n2 + mae /\ n4 = n3 + mae /\ n5 = n4 + op /\ n6 = n5 + ode /\ n7 = n6 + dyn /\ n8 = n7 + attn
       /\ BlockLen(c) = n8
  BY <1>3, <1>4, <1>5
<1>18. IsPart(s1, v, a0, n1) /\ IsPart(s2, v, b2, n1)
  BY <1>9, <1>10
<1> HIDE DEF n1, n2, n3, n4, n5, n6, n7, n8
<1>19. IsPart(s1 \o s2, v, a0, n2)
  BY <1>5, <1>17, <1>18, JoinOn
<1>20. IsPart(s1 \o s2 \o s3, v, a0, n3)
  BY <1>3, <1>5, <1>11, <1>17, <1>19, JoinOn
<1>21. IsPart(s1 \o s2 \o s3 \o s4, v, a0, n4)
  BY <1>3, <1>5, <1>12, <1>17, <1>20, JoinOn
<1>22. IsPart(s1 \o s2 \o s3 \o s4 \o s5, v, a0, n5)
  BY <1>3, <1>8, <1>13, <1>17, <1>21, JoinOn
<1>23. IsPart(s1 \o s2 \o s3 \o s4 \o s5 \o s6, v, a0, n6)
  BY <1>3, <1>8, <1>14, <1>17, <1>22, JoinOn
<1>24. IsPart(s1 \o s2 \o s3 \o s4 \o s5 \o s6 \o s7, v, a0, n7)
  BY <1>3, <1>8, <1>15, <1>17, <1>23, JoinOn
<1>25. IsPart(s1 \o s2 \o s3 \o s4 \o s5 \o s6 \o s7 \o s8, v, a0, n8)
  BY <1>3, <1>8, <1>16, <1>17, <1>24, JoinOn
<1> QED
  BY <1>2, <1>17, <1>25 DEF IsPart, u

-----------------------------------------------------------------------------
(* How long a fresh block is *)

\* Rows and columns of a linear layer.
LinearShape(l, r0, c0) ==
  DOMAIN l.w = 0 .. r0 - 1 /\ (\A k \in 0 .. r0 - 1 : DOMAIN l.w[k] = 0 .. c0 - 1) /\ DOMAIN l.b = 0 .. r0 - 1

AllLong(f, n0, c0) == DOMAIN f = 0 .. n0 - 1 /\ \A k \in 0 .. n0 - 1 : Long(f[k], c0)

\* Entries of one length c0 listed one after the other.
LEMMA EachLong ==
  ASSUME NEW n0 \in Nat, NEW f, NEW c0 \in Nat, AllLong(f, n0, c0)
  PROVE  Long(Concat(SeqOf(f)), c0 * n0)
<1> DEFINE ss == SeqOf(f)
<1>0. DOMAIN f = 0 .. n0 - 1 /\ \A k \in 0 .. n0 - 1 : Long(f[k], c0)
  BY DEF AllLong
<1>1. Long(ss, n0) /\ \A k \in 1 .. n0 : ss[k] = f[k - 1]
  BY <1>0, SeqOfIs
<1> HIDE DEF ss
<1>2. Len(ss) = n0
  BY <1>1 DEF Long
<1>3. ASSUME NEW k \in 1 .. n0 PROVE Long(ss[k], c0)
  <2>1. k - 1 \in 0 .. n0 - 1
    OBVIOUS
  <2> QED
    BY <1>0, <1>1, <2>1
<1>4. Long(Concat(ss), c0 * n0)
  BY <1>2, <1>3, ConcatLong
<1> QED
  BY <1>4 DEF ss

\* Rows of c0 entries each, listed.
LEMMA RowsLong ==
  ASSUME NEW r0 \in Nat, NEW c0 \in Nat, NEW rows, DOMAIN rows = 0 .. r0 - 1,
         \A k \in 0 .. r0 - 1 : DOMAIN rows[k] = 0 .. c0 - 1
  PROVE  Long(RowsSeq(rows), c0 * r0)
<1> DEFINE f == [k \in DOMAIN rows |-> SeqOf(rows[k])]
<1>1. ASSUME NEW k \in 0 .. r0 - 1 PROVE Long(f[k], c0)
  <2>1. Long(SeqOf(rows[k]), c0)
    BY SeqOfIs
  <2> QED
    BY <2>1
<1>2. AllLong(f, r0, c0)
  BY <1>1 DEF AllLong
<1> HIDE DEF f
<1>3. Long(Concat(SeqOf(f)), c0 * r0)
  BY <1>2, EachLong
<1> QED
  BY <1>3 DEF f, RowsSeq

\* The lengths of two sequences in a row, given beforehand.
LEMMA LongOn ==
  ASSUME NEW s, NEW t, NEW x0 \in Nat, NEW y0 \in Nat, NEW n0 \in Nat, n0 = x0 + y0, Long(s, x0), Long(t, y0)
  PROVE  Long(s \o t, n0)
<1>1. Long(s \o t, x0 + y0)
  BY LongJoin
<1> QED
  BY <1>1

\* The length of a linear layer, by its shape.
LEMMA LinearLong ==
  ASSUME NEW r0 \in Nat, NEW c0 \in Nat, NEW l, LinearShape(l, r0, c0)
  PROVE  Long(LinearSeq(l), LinearLen(r0, c0))
<1> DEFINE s == RowsSeq(l.w)
           t == SeqOf(l.b)
           x0 == c0 * r0
           n0 == LinearLen(r0, c0)
<1>1. Long(s, x0)
  BY RowsLong DEF LinearShape
<1>2. Long(t, r0)
  BY SeqOfIs DEF LinearShape
<1>3. x0 \in Nat /\ n0 \in Nat /\ n0 = x0 + r0
  BY DEF LinearLen
<1> HIDE DEF s, t, x0, n0
<1>4. Long(s \o t, n0)
  BY <1>1, <1>2, <1>3, LongOn
<1> QED
  BY <1>4 DEF s, t, n0, LinearSeq

\* What is counted of a linear layer is its length.
LEMMA LinearCount ==
  ASSUME NEW r0 \in Nat \ {0}, NEW c0 \in Nat, NEW l, LinearShape(l, r0, c0)
  PROVE  Size(l.w) * Size(l.w[0]) + Size(l.b) = LinearLen(r0, c0)
<1>1. r0 \in Nat /\ 0 \in 0 .. r0 - 1
  OBVIOUS
<1>2. Size(l.w) = r0 /\ Size(l.b) = r0 /\ Size(l.w[0]) = c0
  BY <1>1, SizeIs DEF LinearShape
<1> QED
  BY <1>2 DEF LinearLen

\* A fresh linear layer has the shape asked for.
LEMMA InitLinearShape ==
  ASSUME NEW seed0, NEW a0, NEW r0 \in Nat, NEW c0 \in Nat
  PROVE  LinearShape(InitLinear(seed0, a0, r0, c0), r0, c0)
<1>1. InitLinear(seed0, a0, r0, c0).w
        = [k \in 0 .. r0 - 1 |-> [j \in 0 .. c0 - 1 |-> Draw(seed0, a0 + c0 * k + j)]]
  BY TableIs DEF InitLinear, Grid
<1>2. InitLinear(seed0, a0, r0, c0).b = [k \in 0 .. r0 - 1 |-> Zero]
  BY DEF InitLinear, Vec
<1> HIDE DEF Draw
<1> QED
  BY <1>1, <1>2 DEF LinearShape

\* The length of a layer norm.
LEMMA NormLong ==
  ASSUME NEW e0 \in Nat, NEW ln, DOMAIN ln.w = 0 .. e0 - 1, DOMAIN ln.b = 0 .. e0 - 1
  PROVE  Long(NormSeq(ln), 2 * e0)
<1>1. Long(SeqOf(ln.w), e0) /\ Long(SeqOf(ln.b), e0)
  BY SeqOfIs
<1>2. 2 * e0 \in Nat /\ 2 * e0 = e0 + e0
  OBVIOUS
<1> QED
  BY <1>1, <1>2, LongOn DEF NormSeq

\* The length of a maestro.
LEMMA MaestroLong ==
  ASSUME NEW md0 \in Nat, NEW e0 \in Nat, NEW q, LinearShape(q.squeeze, md0, e0), LinearShape(q.process, e0, md0)
  PROVE  Long(MaestroSeq(q), Mae(md0, e0))
<1>1. Long(LinearSeq(q.squeeze), LinearLen(md0, e0)) /\ Long(LinearSeq(q.process), LinearLen(e0, md0))
  BY LinearLong
<1>2. LinearLen(md0, e0) \in Nat /\ LinearLen(e0, md0) \in Nat
  BY LinearLenType
<1>3. Mae(md0, e0) \in Nat /\ Mae(md0, e0) = LinearLen(md0, e0) + LinearLen(e0, md0)
  BY <1>2 DEF Mae
<1> QED
  BY <1>1, <1>2, <1>3, LongOn DEF MaestroSeq

\* What a fresh attention consists of.
AttnParts(c, a) ==
  /\ a = [heads |-> a.heads, out |-> a.out]
  /\ DOMAIN a.heads = 0 .. c.nHead - 1
  /\ \A k \in 0 .. c.nHead - 1 :
       LET q == a.heads[k]
       IN  /\ q = [raw |-> q.raw, phase |-> q.phase, v |-> q.v, content |-> q.content]
           /\ LinearShape(q.phase, 2, Embed(c)) /\ LinearShape(q.v, HeadOf(c), HeadOf(c))
           /\ IF Content(c) = 0 THEN q.content = <<>>
              ELSE q.content # <<>> /\ LinearShape(q.content, Content(c), Embed(c))
  /\ LinearShape(a.out, Embed(c), Embed(c))

\* Fresh attention consists of what AttnParts says.
LEMMA InitAttnParts ==
  ASSUME NEW c, DimsOk(c), NEW seed0, NEW a0
  PROVE  AttnParts(c, InitBlockAttn(c, seed0, a0, Content(c)))
<1> DEFINE e == Embed(c)
           hd == HeadOf(c)
           cd == Content(c)
           hds == HeadDraws(c, cd)
           s(k) == a0 + k * hds
           head(k) == [raw |-> Con(20 + k), phase |-> InitLinear(seed0, s(k), 2, e),
                       v |-> InitLinear(seed0, s(k) + 2 * e, hd, hd),
                       content |-> IF cd > 0 THEN InitLinear(seed0, s(k) + 2 * e + hd * hd, cd, e) ELSE <<>>]
           out == InitLinear(seed0, a0 + c.nHead * hds, e, e)
           a == InitBlockAttn(c, seed0, a0, Content(c))
<1>1. a = [heads |-> [k \in 0 .. c.nHead - 1 |-> head(k)], out |-> out]
  BY TableIs DEF InitBlockAttn, HeadOf
<1>2. e \in Nat /\ hd \in Nat /\ cd \in Nat /\ 2 \in Nat
  BY SizesType
<1> HIDE DEF a, e, hd, cd, hds
<1>3. ASSUME NEW k \in 0 .. c.nHead - 1
      PROVE  /\ head(k) = [raw |-> head(k).raw, phase |-> head(k).phase, v |-> head(k).v, content |-> head(k).content]
             /\ LinearShape(head(k).phase, 2, e) /\ LinearShape(head(k).v, hd, hd)
             /\ IF cd = 0 THEN head(k).content = <<>>
                ELSE head(k).content # <<>> /\ LinearShape(head(k).content, cd, e)
  <2> DEFINE x1 == Con(20 + k)
             x2 == InitLinear(seed0, s(k), 2, e)
             x3 == InitLinear(seed0, s(k) + 2 * e, hd, hd)
             x4 == InitLinear(seed0, s(k) + 2 * e + hd * hd, cd, e)
             q == head(k)
  <2>1. LinearShape(x2, 2, e) /\ LinearShape(x3, hd, hd) /\ LinearShape(x4, cd, e)
    BY <1>2, InitLinearShape
  <2>2. x4 # <<>>
    <3>1. "w" \in DOMAIN x4
      BY DEF InitLinear
    <3> QED
      BY <3>1
  <2>3. q = [raw |-> x1, phase |-> x2, v |-> x3, content |-> IF cd > 0 THEN x4 ELSE <<>>]
    OBVIOUS
  <2> HIDE DEF x1, x2, x3, x4, q
  <2>4. /\ q = [raw |-> q.raw, phase |-> q.phase, v |-> q.v, content |-> q.content]
        /\ LinearShape(q.phase, 2, e) /\ LinearShape(q.v, hd, hd)
        /\ IF cd = 0 THEN q.content = <<>> ELSE q.content # <<>> /\ LinearShape(q.content, cd, e)
    BY <1>2, <2>1, <2>2, <2>3
  <2> QED
    BY <2>4 DEF q
<1>4. LinearShape(out, e, e)
  BY <1>2, InitLinearShape
<1> HIDE DEF head, out
<1>5. a.heads = [k \in 0 .. c.nHead - 1 |-> head(k)] /\ a.out = out /\ a = [heads |-> a.heads, out |-> a.out]
  BY <1>1
<1>6. AttnParts(c, a)
  BY <1>3, <1>4, <1>5 DEF AttnParts, e, hd, cd
<1> QED
  BY <1>6 DEF a

\* The length of an attention head.
LEMMA HeadLong ==
  ASSUME NEW c, DimsOk(c), NEW q, LinearShape(q.phase, 2, Embed(c)), LinearShape(q.v, HeadOf(c), HeadOf(c)),
         IF Content(c) = 0 THEN q.content = <<>> ELSE q.content # <<>> /\ LinearShape(q.content, Content(c), Embed(c))
  PROVE  Long(HeadSeq(q), PerLen(Embed(c), HeadOf(c), Content(c)))
<1> DEFINE e == Embed(c)
           hd == HeadOf(c)
           cd == Content(c)
           x0 == LinearLen(2, e)
           y0 == LinearLen(hd, hd)
           z0 == LinearLen(cd, e)
           n2 == x0 + y0
           n3 == n2 + z0
           s1 == LinearSeq(q.phase)
           s2 == LinearSeq(q.v)
           s3 == If(HasContent(q), LinearSeq(q.content))
<1>1. e \in Nat /\ hd \in Nat /\ cd \in Nat /\ 2 \in Nat
  BY SizesType
<1>2. Long(s1, x0) /\ Long(s2, y0)
  <2> HIDE DEF e, hd, cd
  <2>1. LinearShape(q.phase, 2, e) /\ LinearShape(q.v, hd, hd)
    BY DEF e, hd
  <2> QED
    BY <1>1, <2>1, LinearLong
<1>3. Long(s3, z0)
  <2>1. CASE cd = 0
    <3>1. z0 = 0 /\ s3 = <<>>
      <4>1. z0 = 0
        <5> HIDE DEF e
        <5> QED
          BY <1>1, <2>1 DEF LinearLen
      <4> QED
        BY <2>1, <4>1 DEF If, HasContent
    <3> QED
      BY <3>1, PartEmpty
  <2>2. CASE cd # 0
    <3>1. LinearShape(q.content, cd, e) /\ s3 = LinearSeq(q.content)
      BY <2>2 DEF If, HasContent
    <3> HIDE DEF cd, e, s3
    <3>2. Long(LinearSeq(q.content), z0)
      BY <1>1, <3>1, LinearLong
    <3> QED
      BY <3>1, <3>2
  <2> QED
    BY <2>1, <2>2
<1>4. x0 \in Nat /\ y0 \in Nat /\ z0 \in Nat
  <2> HIDE DEF e, hd, cd
  <2> QED
    BY <1>1, LinearLenType
<1>5. PerLen(e, hd, cd) = n3 /\ HeadSeq(q) = s1 \o s2 \o s3
  BY DEF PerLen, HeadSeq
<1> HIDE DEF x0, y0, z0, s1, s2, s3
<1>6. n2 \in Nat /\ n3 \in Nat /\ n2 = x0 + y0 /\ n3 = n2 + z0
  BY <1>4
<1> HIDE DEF n2, n3
<1>7. Long(s1 \o s2, n2)
  BY <1>2, <1>4, <1>6, LongOn
<1>8. Long(s1 \o s2 \o s3, n3)
  BY <1>3, <1>4, <1>6, <1>7, LongOn
<1> QED
  BY <1>5, <1>8

\* The length of a block's attention.
LEMMA AttnLong ==
  ASSUME NEW c, DimsOk(c), NEW a, AttnParts(c, a)
  PROVE  Long(AttnSeq(a), c.nHead * PerLen(Embed(c), HeadOf(c), Content(c)) + LinearLen(Embed(c), Embed(c)))
<1> DEFINE e == Embed(c)
           per == PerLen(Embed(c), HeadOf(c), Content(c))
           f == [k \in DOMAIN a.heads |-> HeadSeq(a.heads[k])]
           s1 == Concat(SeqOf(f))
           s2 == LinearSeq(a.out)
           x0 == c.nHead * per
           y0 == LinearLen(e, e)
           n0 == x0 + y0
<1>1. e \in Nat /\ per \in Nat /\ c.nHead \in Nat
  BY SizesType DEF DimsOk
<1>2. ASSUME NEW k \in 0 .. c.nHead - 1 PROVE Long(f[k], per)
  <2> DEFINE q == a.heads[k]
  <2>1. LinearShape(q.phase, 2, Embed(c)) /\ LinearShape(q.v, HeadOf(c), HeadOf(c))
        /\ IF Content(c) = 0 THEN q.content = <<>> ELSE q.content # <<>> /\ LinearShape(q.content, Content(c), Embed(c))
    BY DEF AttnParts
  <2>2. f[k] = HeadSeq(q)
    BY DEF AttnParts
  <2> HIDE DEF q, f
  <2> QED
    BY <2>1, <2>2, HeadLong
<1>3. AllLong(f, c.nHead, per)
  BY <1>2 DEF AllLong, AttnParts
<1>4. AttnSeq(a) = s1 \o s2
  BY AttnSeqIs
<1> HIDE DEF per, f
<1>5. Long(s1, per * c.nHead) /\ per * c.nHead = x0 /\ x0 \in Nat
  BY <1>1, <1>3, EachLong
<1>6. Long(s2, y0) /\ y0 \in Nat
  <2>1. LinearShape(a.out, e, e)
    BY DEF AttnParts
  <2> HIDE DEF e
  <2> QED
    BY <1>1, <2>1, LinearLong, LinearLenType
<1>7. n0 = x0 + y0 /\ n0 \in Nat
  BY <1>5, <1>6
<1> HIDE DEF s1, s2, x0, y0, n0
<1>8. Long(s1 \o s2, n0)
  BY <1>5, <1>6, <1>7, LongOn
<1> QED
  BY <1>4, <1>8 DEF n0, x0, y0, per, e

\* f has an entry for each of n0 bands, layers or heads.
Across(f, n0) == DOMAIN f = 0 .. n0 - 1

\* What a fresh block consists of.
BlockParts(c, b) ==
  /\ b = [ln |-> b.ln, lnFfn |-> b.lnFfn, attn |-> b.attn, kerr |-> b.kerr, plate |-> b.plate,
          maestroIn |-> b.maestroIn, maestroOut |-> b.maestroOut, outProj |-> b.outProj]
  /\ b.kerr = [gammaRaw |-> b.kerr.gammaRaw, omega |-> b.kerr.omega, alpha |-> b.kerr.alpha, beta |-> b.kerr.beta,
               chi |-> b.kerr.chi, mix |-> b.kerr.mix, steps |-> b.kerr.steps]
  /\ Across(b.ln.w, Embed(c)) /\ Across(b.ln.b, Embed(c)) /\ Across(b.lnFfn.w, Embed(c)) /\ Across(b.lnFfn.b, Embed(c))
  /\ LinearShape(b.maestroIn.squeeze, c.md, Embed(c)) /\ LinearShape(b.maestroIn.process, Embed(c), c.md)
  /\ LinearShape(b.maestroOut.squeeze, c.md, Embed(c)) /\ LinearShape(b.maestroOut.process, Embed(c), c.md)
  /\ Across(b.outProj.groups, c.groups)
  /\ \A k \in 0 .. c.groups - 1 : LinearShape(b.outProj.groups[k], GroupOf(c), GroupOf(c))
  /\ Across(b.kerr.gammaRaw, c.nBands) /\ Across(b.plate, c.nBands) /\ Across(b.kerr.mix, 4)
  /\ AttnParts(c, b.attn)

\* A fresh block consists of what BlockParts says.
LEMMA InitBlockParts ==
  ASSUME NEW c, DimsOk(c), NEW seed0, NEW a0
  PROVE  BlockParts(c, InitBlock(c, seed0, a0))
<1> DEFINE e   == Embed(c)
           gs  == GroupOf(c)
           ffn == a0 + AttnDraws(c, Content(c))
           mae(s) == [squeeze |-> InitLinear(seed0, s, c.md, e), process |-> InitLinear(seed0, s + c.md * e, e, c.md)]
           ln  == [w |-> Vec(e, One), b |-> Vec(e, Zero)]
           attn == InitBlockAttn(c, seed0, a0, Content(c))
           gammaRaw == Vec(c.nBands, Con(9))
           omega == [k \in 0 .. c.nBands - 1 |-> Con(k + 1)]
           mix == [k \in 0 .. 3 |-> Recip(Con(IF k \in {1, 2} THEN 3 ELSE 6))]
           kerr == [gammaRaw |-> gammaRaw, omega |-> omega, alpha |-> Con(10), beta |-> Con(20), chi |-> Zero,
                    mix |-> mix, steps |-> c.steps]
           plate == Vec(c.nBands, Zero)
           group(k) == InitLinear(seed0, ffn + 4 * c.md * e + k * gs * gs, gs, gs)
           groups == [k \in 0 .. c.groups - 1 |-> group(k)]
           m1 == mae(ffn)
           m2 == mae(ffn + 2 * c.md * e)
           b == InitBlock(c, seed0, a0)
<1>1. b = [ln |-> ln, lnFfn |-> ln, attn |-> attn, kerr |-> kerr, plate |-> plate,
           maestroIn |-> m1, maestroOut |-> m2, outProj |-> [groups |-> groups]]
  BY TableIs DEF InitBlock, GroupOf
<1>2. e \in Nat /\ gs \in Nat /\ c.md \in Nat /\ c.nBands \in Nat
  BY SizesType DEF DimsOk
<1>3. Across(ln.w, e) /\ Across(ln.b, e) /\ Across(gammaRaw, c.nBands) /\ Across(plate, c.nBands) /\ Across(mix, 4)
  BY DEF Across, Vec
<1> HIDE DEF e, gs, ffn
<1>4. \A s : LinearShape(mae(s).squeeze, c.md, e) /\ LinearShape(mae(s).process, e, c.md)
  BY <1>2, InitLinearShape
<1>5. ASSUME NEW k \in 0 .. c.groups - 1 PROVE LinearShape(groups[k], gs, gs)
  <2>1. LinearShape(group(k), gs, gs)
    BY <1>2, InitLinearShape
  <2> HIDE DEF group
  <2> QED
    BY <2>1
<1>6. AttnParts(c, attn)
  BY InitAttnParts
<1>7. Across(groups, c.groups)
  BY DEF Across
<1>8. LinearShape(m1.squeeze, c.md, e) /\ LinearShape(m1.process, e, c.md)
      /\ LinearShape(m2.squeeze, c.md, e) /\ LinearShape(m2.process, e, c.md)
  <2> HIDE DEF mae
  <2> QED
    BY <1>4
<1>9. kerr = [gammaRaw |-> kerr.gammaRaw, omega |-> kerr.omega, alpha |-> kerr.alpha, beta |-> kerr.beta,
               chi |-> kerr.chi, mix |-> kerr.mix, steps |-> kerr.steps]
      /\ kerr.gammaRaw = gammaRaw /\ kerr.mix = mix
  <2> HIDE DEF gammaRaw, omega, mix
  <2> QED
    OBVIOUS
<1> HIDE DEF ln, attn, kerr, plate, m1, m2, groups, mae, b
<1>10. /\ b = [ln |-> b.ln, lnFfn |-> b.lnFfn, attn |-> b.attn, kerr |-> b.kerr, plate |-> b.plate,
               maestroIn |-> b.maestroIn, maestroOut |-> b.maestroOut, outProj |-> b.outProj]
       /\ b.ln = ln /\ b.lnFfn = ln /\ b.attn = attn /\ b.kerr = kerr /\ b.plate = plate
       /\ b.maestroIn = m1 /\ b.maestroOut = m2 /\ b.outProj = [groups |-> groups]
  BY <1>1
<1>11. b.outProj.groups = groups
  BY <1>10
<1>12. BlockParts(c, b)
  BY <1>3, <1>5, <1>6, <1>7, <1>8, <1>9, <1>10, <1>11 DEF BlockParts, e, gs
<1> QED
  BY <1>12 DEF b

\* What a fresh block consists of is enough to read it back from a vector.
LEMMA PartsGiveShape ==
  ASSUME NEW c, DimsOk(c), NEW b, BlockParts(c, b)
  PROVE  BlockShape(c, b)
<1>1. Embed(c) \in Nat /\ GroupOf(c) \in Nat /\ HeadOf(c) \in Nat /\ Content(c) \in Nat
      /\ c.groups \in Nat \ {0} /\ 0 \in 0 .. c.groups - 1
  BY SizesType DEF DimsOk
<1>2. GroupSize(b.outProj) = GroupOf(c)
  <2>1. DOMAIN b.outProj.groups[0].w = 0 .. GroupOf(c) - 1
    BY <1>1 DEF BlockParts, LinearShape
  <2> QED
    BY <1>1, <2>1, SizeIs DEF GroupSize
<1>3. AttnShape(b.attn, c.nHead, Embed(c), HeadOf(c), Content(c))
  <2>1. AttnParts(c, b.attn)
    BY DEF BlockParts
  <2>2. ASSUME NEW k \in 0 .. c.nHead - 1 PROVE HeadShape(b.attn.heads[k], HeadOf(c), Content(c))
    <3> DEFINE q == b.attn.heads[k]
    <3>1. /\ q = [raw |-> q.raw, phase |-> q.phase, v |-> q.v, content |-> q.content]
          /\ LinearShape(q.v, HeadOf(c), HeadOf(c))
          /\ IF Content(c) = 0 THEN q.content = <<>>
             ELSE q.content # <<>> /\ LinearShape(q.content, Content(c), Embed(c))
      BY <2>1 DEF AttnParts
    <3> HIDE DEF q
    <3>2. Size(q.v.b) = HeadOf(c)
      BY <1>1, <3>1, SizeIs DEF LinearShape
    <3>3. Content(c) # 0 => Size(q.content.b) = Content(c)
      BY <1>1, <3>1, SizeIs DEF LinearShape
    <3>4. HeadShape(q, HeadOf(c), Content(c))
      BY <3>1, <3>2, <3>3 DEF HeadShape
    <3> QED
      BY <3>4 DEF q
  <2>3. Size(b.attn.out.b) = Embed(c)
    BY <1>1, <2>1, SizeIs DEF AttnParts, LinearShape
  <2> QED
    BY <2>1, <2>2, <2>3 DEF AttnShape, AttnParts
<1> QED
  BY <1>2, <1>3 DEF BlockShape, BlockParts, AttnParts, Across

\* The length of a block's ODE parameters.
LEMMA OdeLong ==
  ASSUME NEW c, DimsOk(c), NEW kerr, NEW plate, c.learnOde,
         Across(kerr.gammaRaw, c.nBands), Across(plate, c.nBands), Across(kerr.mix, 4)
  PROVE  Long(SeqOf(kerr.gammaRaw) \o <<kerr.alpha, kerr.beta>> \o SeqOf(plate) \o If(c.rk4w, SeqOf(kerr.mix)),
              OdeLen(c))
<1> DEFINE n0 == c.nBands
           tail == IF c.rk4w THEN 4 ELSE 0
           s1 == SeqOf(kerr.gammaRaw)
           s2 == <<kerr.alpha, kerr.beta>>
           s3 == SeqOf(plate)
           s4 == If(c.rk4w, SeqOf(kerr.mix))
           n2 == n0 + 2
           n3 == n2 + n0
           n4 == n3 + tail
<1>1. n0 \in Nat /\ tail \in Nat
  BY DEF DimsOk
<1>2. OdeLen(c) = n4
  BY <1>1 DEF OdeLen
<1>3. Long(s1, n0) /\ Long(s3, n0)
  BY <1>1, SeqOfIs DEF Across
<1>4. Long(s2, 2)
  <2> DEFINE x == kerr.alpha
             y == kerr.beta
  <2> HIDE DEF x, y
  <2>1. <<x, y>> \in Seq({x, y}) /\ Len(<<x, y>>) = 2
    OBVIOUS
  <2> QED
    BY <2>1 DEF Long, x, y
<1>5. Long(s4, tail)
  <2>1. CASE c.rk4w
    <3>1. Long(SeqOf(kerr.mix), 4)
      BY SeqOfIs DEF Across
    <3> QED
      BY <2>1, <3>1 DEF If
  <2>2. CASE ~c.rk4w
    BY <2>2, PartEmpty DEF If
  <2> QED
    BY <2>1, <2>2
<1> HIDE DEF n0, tail, s1, s2, s3, s4
<1>6. n2 \in Nat /\ n3 \in Nat /\ n4 \in Nat /\ n2 = n0 + 2 /\ n3 = n2 + n0 /\ n4 = n3 + tail
  BY <1>1
<1> HIDE DEF n2, n3, n4
<1>7. Long(s1 \o s2, n2)
  BY <1>1, <1>3, <1>4, <1>6, LongOn
<1>8. Long(s1 \o s2 \o s3, n3)
  BY <1>1, <1>3, <1>6, <1>7, LongOn
<1>9. Long(s1 \o s2 \o s3 \o s4, n4)
  BY <1>1, <1>5, <1>6, <1>8, LongOn
<1> QED
  BY <1>2, <1>9 DEF s1, s2, s3, s4

\* A block is as long as BlockLen says.
LEMMA BlockLong ==
  ASSUME NEW c, DimsOk(c), NEW b, BlockParts(c, b)
  PROVE  Long(FlattenBlock(c, b), BlockLen(c))
<1> DEFINE e == Embed(c)
           mae == Mae(c.md, e)
           op == OpLen(c)
           ode == OdeLen(c)
           dyn == DynLen(c)
           attn == AttnLen(c)
           s1 == NormSeq(b.ln)
           s2 == NormSeq(b.lnFfn)
           s3 == MaestroSeq(b.maestroIn)
           s4 == MaestroSeq(b.maestroOut)
           s5 == Concat(SeqOf([k \in DOMAIN b.outProj.groups |-> LinearSeq(b.outProj.groups[k])]))
           s6 == If(c.learnOde, SeqOf(b.kerr.gammaRaw) \o <<b.kerr.alpha, b.kerr.beta>> \o SeqOf(b.plate)
                                  \o If(c.rk4w, SeqOf(b.kerr.mix)))
           s7 == If(c.dyn, PerHead(b.attn.heads, LAMBDA h : <<h.raw>>))
           s8 == If(c.learnAttn, AttnSeq(b.attn))
<1>1. FlattenBlock(c, b) = s1 \o s2 \o s3 \o s4 \o s5 \o s6 \o s7 \o s8
  BY DEF FlattenBlock
<1>2. /\ e \in Nat /\ c.md \in Nat /\ c.groups \in Nat /\ GroupOf(c) \in Nat /\ c.nHead \in Nat
      /\ mae \in Nat /\ op \in Nat /\ ode \in Nat /\ dyn \in Nat /\ attn \in Nat
  BY SizesType DEF DimsOk
<1>3. BlockLen(c) = 4 * e + 2 * mae + op + ode + dyn + attn
  BY DEF BlockLen
<1>4. Long(s1, 2 * e) /\ Long(s2, 2 * e)
  <2> DEFINE q1 == b.ln
             q2 == b.lnFfn
  <2>1. DOMAIN q1.w = 0 .. e - 1 /\ DOMAIN q1.b = 0 .. e - 1 /\ DOMAIN q2.w = 0 .. e - 1 /\ DOMAIN q2.b = 0 .. e - 1
    BY DEF BlockParts, Across
  <2> HIDE DEF q1, q2, e
  <2>2. Long(NormSeq(q1), 2 * e) /\ Long(NormSeq(q2), 2 * e)
    BY <1>2, <2>1, NormLong
  <2> QED
    BY <2>2 DEF q1, q2
<1>5. Long(s3, mae) /\ Long(s4, mae)
  <2>1. /\ LinearShape(b.maestroIn.squeeze, c.md, e) /\ LinearShape(b.maestroIn.process, e, c.md)
        /\ LinearShape(b.maestroOut.squeeze, c.md, e) /\ LinearShape(b.maestroOut.process, e, c.md)
    BY DEF BlockParts
  <2> HIDE DEF e
  <2> QED
    BY <1>2, <2>1, MaestroLong
<1>6. Long(s5, op)
  <2> DEFINE gs == GroupOf(c)
             l0 == LinearLen(gs, gs)
             f == [k \in DOMAIN b.outProj.groups |-> LinearSeq(b.outProj.groups[k])]
  <2>1. gs \in Nat
    BY <1>2
  <2>2. ASSUME NEW k \in 0 .. c.groups - 1 PROVE Long(f[k], l0)
    <3>1. LinearShape(b.outProj.groups[k], gs, gs) /\ f[k] = LinearSeq(b.outProj.groups[k])
      BY DEF BlockParts, Across
    <3> HIDE DEF gs
    <3> QED
      BY <2>1, <3>1, LinearLong
  <2>3. DOMAIN f = 0 .. c.groups - 1
    BY DEF BlockParts, Across
  <2>4. l0 \in Nat
    <3> HIDE DEF gs
    <3> QED
      BY <2>1, LinearLenType
  <2>5. op = c.groups * l0
    BY DEF OpLen
  <2> HIDE DEF f, l0
  <2>6. AllLong(f, c.groups, l0)
    BY <2>2, <2>3 DEF AllLong
  <2>7. Long(Concat(SeqOf(f)), l0 * c.groups)
    BY <1>2, <2>4, <2>6, EachLong
  <2>8. l0 * c.groups = c.groups * l0
    BY <1>2, <2>4
  <2> QED
    BY <2>5, <2>7, <2>8 DEF f
<1>7. Long(s6, ode)
  <2>1. CASE c.learnOde
    <3> DEFINE kerr == b.kerr
               plate == b.plate
    <3>1. Across(kerr.gammaRaw, c.nBands) /\ Across(plate, c.nBands) /\ Across(kerr.mix, 4)
      BY DEF BlockParts
    <3> HIDE DEF kerr, plate
    <3>2. Long(SeqOf(kerr.gammaRaw) \o <<kerr.alpha, kerr.beta>> \o SeqOf(plate) \o If(c.rk4w, SeqOf(kerr.mix)), OdeLen(c))
      BY <2>1, <3>1, OdeLong
    <3> QED
      BY <2>1, <3>2 DEF If, kerr, plate
  <2>2. CASE ~c.learnOde
    BY <2>2, PartEmpty DEF If, OdeLen
  <2> QED
    BY <2>1, <2>2
<1>8. Long(s7, dyn)
  <2>1. CASE c.dyn
    <3> DEFINE f == [k \in DOMAIN b.attn.heads |-> <<b.attn.heads[k].raw>>]
    <3>1. s7 = Concat(SeqOf(f)) /\ dyn = c.nHead
      BY <2>1 DEF If, PerHead, DynLen
    <3>2. \A x : Long(<<x>>, 1)
      <4> TAKE x
      <4>1. <<x>> \in Seq({x}) /\ Len(<<x>>) = 1
        OBVIOUS
      <4> QED
        BY <4>1 DEF Long
    <3>3. AllLong(f, c.nHead, 1)
      BY <3>2 DEF AllLong, BlockParts, AttnParts
    <3> HIDE DEF f
    <3>4. Long(Concat(SeqOf(f)), 1 * c.nHead)
      BY <1>2, <3>3, EachLong
    <3>5. 1 * c.nHead = c.nHead
      BY <1>2
    <3> QED
      BY <3>1, <3>4, <3>5
  <2>2. CASE ~c.dyn
    BY <2>2, PartEmpty DEF If, DynLen
  <2> QED
    BY <2>1, <2>2
<1>9. Long(s8, attn)
  <2>1. CASE c.learnAttn
    <3>1. AttnParts(c, b.attn)
      BY DEF BlockParts
    <3>2. Long(AttnSeq(b.attn), c.nHead * PerLen(Embed(c), HeadOf(c), Content(c)) + LinearLen(Embed(c), Embed(c)))
      BY <3>1, AttnLong
    <3> QED
      BY <2>1, <3>2 DEF If, AttnLen
  <2>2. CASE ~c.learnAttn
    BY <2>2, PartEmpty DEF If, AttnLen
  <2> QED
    BY <2>1, <2>2
<1> DEFINE n1 == 2 * e
           n2 == 4 * e
           n3 == 4 * e + mae
           n4 == 4 * e + 2 * mae
           n5 == n4 + op
           n6 == n5 + ode
           n7 == n6 + dyn
           n8 == n7 + attn
<1> HIDE DEF e, mae, op, ode, dyn, attn, s1, s2, s3, s4, s5, s6, s7, s8
<1>10. /\ n1 \in Nat /\ n2 \in Nat /\ n3 \in Nat /\ n4 \in Nat /\ n5 \in Nat /\ n6 \in Nat /\ n7 \in Nat /\ n8 \in Nat
       /\ n2 = n1 + n1 /\ n3 = n2 + mae /\ n4 = n3 + mae /\ n5 = n4 + op /\ n6 = n5 + ode /\ n7 = n6 + dyn /\ n8 = n7 + attn
       /\ BlockLen(c) = n8
  BY <1>2, <1>3
<1>11. Long(s1, n1) /\ Long(s2, n1)
  BY <1>4
<1> HIDE DEF n1, n2, n3, n4, n5, n6, n7, n8
<1>12. Long(s1 \o s2, n2)
  BY <1>10, <1>11, LongOn
<1>13. Long(s1 \o s2 \o s3, n3)
  BY <1>2, <1>5, <1>10, <1>12, LongOn
<1>14. Long(s1 \o s2 \o s3 \o s4, n4)
  BY <1>2, <1>5, <1>10, <1>13, LongOn
<1>15. Long(s1 \o s2 \o s3 \o s4 \o s5, n5)
  BY <1>2, <1>6, <1>10, <1>14, LongOn
<1>16. Long(s1 \o s2 \o s3 \o s4 \o s5 \o s6, n6)
  BY <1>2, <1>7, <1>10, <1>15, LongOn
<1>17. Long(s1 \o s2 \o s3 \o s4 \o s5 \o s6 \o s7, n7)
  BY <1>2, <1>8, <1>10, <1>16, LongOn
<1>18. Long(s1 \o s2 \o s3 \o s4 \o s5 \o s6 \o s7 \o s8, n8)
  BY <1>2, <1>9, <1>10, <1>17, LongOn
<1> QED
  BY <1>1, <1>10, <1>18

-----------------------------------------------------------------------------
(* The decoder *)

\* The fields of the wave decoder.
WaveShape(h) == h = [band |-> h.band, temp |-> h.temp, ref |-> h.ref, cos |-> h.cos, sin |-> h.sin]

DecoderShape(c, h) ==
  /\ c.head = "phase" => h = [corr |-> h.corr]
  /\ c.head = "wave"  => WaveShape(h)
  /\ c.head = "rank"  => h = [down |-> h.down, up |-> h.up]
  /\ c.head = "dense" => h = [w |-> h.w]
  /\ c.head = "tied"  => h = [temp |-> h.temp]

DecoderLen(c, h) ==
  CASE c.head = "phase" -> c.nBands
    [] c.head = "wave"  -> c.nBands + 1 + (IF h.ref # <<>> THEN c.vocab * c.nBands ELSE 0)
    [] c.head = "rank"  -> c.rank * Embed(c) + c.vocab * c.rank
    [] c.head = "dense" -> c.vocab * Embed(c)
    [] c.head = "tied"  -> 1

WithCache(h, y1, y2) == [h EXCEPT !.cos = y1, !.sin = y2]

\* Writing the cosine cache touches no other field of the wave decoder.
LEMMA CacheWritten ==
  ASSUME NEW h, WaveShape(h), NEW y1, NEW y2
  PROVE  WithCache(h, y1, y2) = [band |-> h.band, temp |-> h.temp, ref |-> h.ref, cos |-> y1, sin |-> y2]
<1> DEFINE b0 == h.band
           t0 == h.temp
           x0 == h.ref
           q1 == h.cos
           q2 == h.sin
           s == [h EXCEPT !.cos = y1]
           t == [s EXCEPT !.sin = y2]
<1>1. h = [band |-> b0, temp |-> t0, ref |-> x0, cos |-> q1, sin |-> q2]
  BY DEF WaveShape
<1>2. WithCache(h, y1, y2) = t
  BY DEF WithCache
<1> HIDE DEF b0, t0, x0, q1, q2
<1>3. s = [band |-> b0, temp |-> t0, ref |-> x0, cos |-> y1, sin |-> q2]
  BY <1>1
<1> HIDE DEF s
<1>4. t = [band |-> b0, temp |-> t0, ref |-> x0, cos |-> y1, sin |-> y2]
  BY <1>3
<1> QED
  BY <1>2, <1>4 DEF b0, t0, x0

\* Filling the cache changes nothing else, and filling it again changes nothing.
LEMMA RefreshIs ==
  ASSUME NEW h, WaveShape(h)
  PROVE  /\ WaveShape(RefreshCosSinCache(h))
         /\ RefreshCosSinCache(h).band = h.band /\ RefreshCosSinCache(h).temp = h.temp
         /\ RefreshCosSinCache(h).ref = h.ref
         /\ RefreshCosSinCache(RefreshCosSinCache(h)) = RefreshCosSinCache(h)
<1> DEFINE C(x) == Each(x, LAMBDA r : [k \in DOMAIN r |-> Cos(r[k])])
           S(x) == Each(x, LAMBDA r : [k \in DOMAIN r |-> Sin(r[k])])
<1>1. \A q : RefreshCosSinCache(q) = IF q.ref = <<>> THEN q ELSE WithCache(q, C(q.ref), S(q.ref))
  BY DEF RefreshCosSinCache, WithCache
<1> HIDE DEF C, S
<1> DEFINE g == RefreshCosSinCache(h)
<1>2. CASE h.ref = <<>>
  <2>1. g = h
    BY <1>1, <1>2
  <2> HIDE DEF g
  <2> QED
    BY <2>1 DEF g
<1>3. CASE h.ref # <<>>
  <2> DEFINE x == h.ref
             y1 == C(x)
             y2 == S(x)
             b == h.band
             t == h.temp
  <2>1. g = WithCache(h, y1, y2)
    BY <1>1, <1>3
  <2>2. WithCache(h, y1, y2) = [band |-> b, temp |-> t, ref |-> x, cos |-> y1, sin |-> y2]
    BY CacheWritten
  <2> HIDE DEF g, y1, y2, b, t, x
  <2>3. g = [band |-> b, temp |-> t, ref |-> x, cos |-> y1, sin |-> y2]
    BY <2>1, <2>2
  <2>4. g.band = b /\ g.temp = t /\ g.ref = x /\ g.cos = y1 /\ g.sin = y2
    BY <2>3
  <2>5. WaveShape(g)
    BY <2>3, <2>4 DEF WaveShape
  <2>6. RefreshCosSinCache(g) = WithCache(g, y1, y2)
    BY <1>1, <1>3, <2>4 DEF x, y1, y2
  <2>7. WithCache(g, y1, y2) = [band |-> g.band, temp |-> g.temp, ref |-> g.ref, cos |-> y1, sin |-> y2]
    BY <2>5, CacheWritten
  <2>8. RefreshCosSinCache(g) = g
    BY <2>3, <2>4, <2>6, <2>7
  <2> QED
    BY <2>4, <2>5, <2>8 DEF g, b, t, x
<1> QED
  BY <1>2, <1>3

\* Each of the fresh decoders has the shape DecoderShape names.
LEMMA InitHeadShape ==
  ASSUME NEW c, DimsOk(c), NEW seed0, NEW a0, NEW wte0
  PROVE  DecoderShape(c, InitHead(c, seed0, a0, wte0))
<1> DEFINE h == InitHead(c, seed0, a0, wte0)
<1>1. CASE c.head = "phase"
  <2> DEFINE x == Vec(c.nBands, Zero)
  <2>1. h = [corr |-> x]
    BY <1>1 DEF InitHead
  <2> HIDE DEF h, x
  <2>2. h = [corr |-> h.corr]
    BY <2>1
  <2> QED
    BY <1>1, <2>2 DEF DecoderShape, h
<1>2. CASE c.head = "rank"
  <2> DEFINE x == InitLinear(seed0, a0, c.rank, Embed(c)).w
             y == InitLinear(seed0, a0 + c.rank * Embed(c), c.vocab, c.rank).w
  <2>1. h = [down |-> x, up |-> y]
    BY <1>2 DEF InitHead
  <2> HIDE DEF h, x, y
  <2>2. h = [down |-> h.down, up |-> h.up]
    BY <2>1
  <2> QED
    BY <1>2, <2>2 DEF DecoderShape, h
<1>3. CASE c.head = "dense"
  <2> DEFINE x == InitLinear(seed0, a0, c.vocab, Embed(c)).w
  <2>1. h = [w |-> x]
    BY <1>3 DEF InitHead
  <2> HIDE DEF h, x
  <2>2. h = [w |-> h.w]
    BY <2>1
  <2> QED
    BY <1>3, <2>2 DEF DecoderShape, h
<1>4. CASE c.head = "tied"
  <2>1. h = [temp |-> One]
    BY <1>4 DEF InitHead
  <2> HIDE DEF h
  <2>2. h = [temp |-> h.temp]
    BY <2>1
  <2> QED
    BY <1>4, <2>2 DEF DecoderShape, h
<1>5. CASE c.head = "wave"
  <2> DEFINE angles == Each(wte0, LAMBDA e : Given(Bands(e), LAMBDA z0 : [k \in DOMAIN z0 |-> Atan2(z0[k][2], z0[k][1])]))
             x == Vec(Size(angles[0]), One)
             t == Con(50)
             g == [band |-> x, temp |-> t, ref |-> angles, cos |-> <<>>, sin |-> <<>>]
             r == RefreshCosSinCache(g)
  <2>1. h = IF c.frozen THEN [r EXCEPT !.ref = <<>>] ELSE r
    BY <1>5 DEF InitHead, InitWaveDecode, Given
  <2>2. WaveShape(g)
    <3> HIDE DEF angles, x, t
    <3> QED
      BY DEF WaveShape
  <2> HIDE DEF g, h
  <2>3. WaveShape(r)
    BY <2>2, RefreshIs
  <2> HIDE DEF r
  <2>4. WaveShape([r EXCEPT !.ref = <<>>])
    BY <2>3 DEF WaveShape
  <2> QED
    BY <1>5, <2>1, <2>3, <2>4 DEF DecoderShape, h
<1>6. c.head \in {"dense", "rank", "tied", "phase", "wave"}
  BY DEF DimsOk
<1> QED
  BY <1>1, <1>2, <1>3, <1>4, <1>5, <1>6

\* Rows that were read are not the empty sequence that stands for none.
LEMMA RowsAreSome ==
  ASSUME NEW v, NEW a0, NEW r0 \in Nat \ {0}, NEW c0
  PROVE  SliceRows(v, a0, r0, c0) # <<>>
<1> DEFINE g == SliceRows(v, a0, r0, c0)
<1>1. DOMAIN g = 0 .. r0 - 1
  BY TableIs DEF SliceRows, Grid
<1> HIDE DEF g
<1>2. 0 \in DOMAIN g
  BY <1>1
<1>3. DOMAIN <<>> = {}
  OBVIOUS
<1>4. g # <<>>
  BY <1>2, <1>3
<1> QED
  BY <1>4 DEF g

\* The decoder after it is read back, when it is the wave decoder.
WaveRead(c, h, v, a0) ==
  [h EXCEPT !.band = Slice(v, a0, c.nBands), !.temp = v[a0 + c.nBands + 1],
            !.ref = IF @ = <<>> THEN <<>> ELSE SliceRows(v, a0 + c.nBands + 1, c.vocab, c.nBands)]

\* The wave decoder read back: each field is its slice, and the cache is filled.
LEMMA WaveReadIs ==
  ASSUME NEW c, NEW h, WaveShape(h), NEW v, NEW a0
  PROVE  /\ WaveShape(WaveRead(c, h, v, a0))
         /\ WaveRead(c, h, v, a0).band = Slice(v, a0, c.nBands) /\ WaveRead(c, h, v, a0).temp = v[a0 + c.nBands + 1]
         /\ WaveRead(c, h, v, a0).ref
              = IF h.ref = <<>> THEN <<>> ELSE SliceRows(v, a0 + c.nBands + 1, c.vocab, c.nBands)
<1> DEFINE x == Slice(v, a0, c.nBands)
           y == v[a0 + c.nBands + 1]
           r == SliceRows(v, a0 + c.nBands + 1, c.vocab, c.nBands)
           g == WaveRead(c, h, v, a0)
<1>1. g = [h EXCEPT !.band = x, !.temp = y, !.ref = IF @ = <<>> THEN <<>> ELSE r]
  BY DEF WaveRead
<1> HIDE DEF x, y, r, g
<1>2. g = [band |-> x, temp |-> y, ref |-> IF h.ref = <<>> THEN <<>> ELSE r, cos |-> h.cos, sin |-> h.sin]
  BY <1>1 DEF WaveShape
<1>3. g.band = x /\ g.temp = y /\ g.ref = IF h.ref = <<>> THEN <<>> ELSE r
  BY <1>2
<1>4. WaveShape(g)
  BY <1>2 DEF WaveShape
<1> QED
  BY <1>3, <1>4 DEF g, x, y, r

\* Whichever decoder is read is written back as it was.
LEMMA DecoderPart ==
  ASSUME NEW c, DimsOk(c), NEW h, DecoderShape(c, h), NEW v, NEW a0 \in Nat
  PROVE  FlattenHead(c, UnflattenHead(c, h, v, a0)) = Part(v, a0, DecoderLen(c, h))
<1> DEFINE e == Embed(c)
           n0 == c.nBands
           u == UnflattenHead(c, h, v, a0)
<1>1. e \in Nat /\ n0 \in Nat /\ c.vocab \in Nat \ {0} /\ c.vocab \in Nat /\ c.rank \in Nat /\ a0 \in Int
  BY SizesType DEF DimsOk
<1>2. CASE c.head = "phase"
  <2> DEFINE x == Slice(v, a0, n0)
  <2>1. u = [h EXCEPT !.corr = x] /\ h = [corr |-> h.corr]
    BY <1>2 DEF UnflattenHead, DecoderShape
  <2> HIDE DEF u, x
  <2>2. u.corr = x
    BY <2>1
  <2> HIDE DEF n0
  <2>3. SeqOf(x) = Part(v, a0, n0)
    BY <1>1, SliceIs DEF x
  <2>4. FlattenHead(c, u) = SeqOf(u.corr) /\ DecoderLen(c, h) = n0
    BY <1>2 DEF FlattenHead, DecoderLen, n0
  <2> QED
    BY <2>2, <2>3, <2>4 DEF u
<1>3. CASE c.head = "dense"
  <2> DEFINE x == SliceRows(v, a0, c.vocab, e)
  <2>1. u = [h EXCEPT !.w = x] /\ h = [w |-> h.w]
    BY <1>3 DEF UnflattenHead, DecoderShape
  <2> HIDE DEF u, x
  <2>2. u.w = x
    BY <2>1
  <2>4. FlattenHead(c, u) = RowsSeq(u.w) /\ DecoderLen(c, h) = c.vocab * e
    BY <1>3 DEF FlattenHead, DecoderLen
  <2> HIDE DEF e
  <2>3. RowsSeq(x) = Part(v, a0, e * c.vocab) /\ e * c.vocab = c.vocab * e
    BY <1>1, RowsPart DEF x
  <2> QED
    BY <2>2, <2>3, <2>4 DEF u
<1>4. CASE c.head = "tied"
  <2> DEFINE x == v[a0 + 1]
  <2>1. u = [h EXCEPT !.temp = x] /\ h = [temp |-> h.temp]
    BY <1>4 DEF UnflattenHead, DecoderShape
  <2> HIDE DEF u, x
  <2>2. u.temp = x
    BY <2>1
  <2>3. <<x>> = Part(v, a0, 1)
    BY PairPart DEF x
  <2>4. FlattenHead(c, u) = <<u.temp>> /\ DecoderLen(c, h) = 1
    BY <1>4 DEF FlattenHead, DecoderLen
  <2> QED
    BY <2>2, <2>3, <2>4 DEF u
<1>5. CASE c.head = "rank"
  <2> DEFINE b1 == a0 + c.rank * e
             x == SliceRows(v, a0, c.rank, e)
             y == SliceRows(v, b1, c.vocab, c.rank)
             x0 == c.rank * e
             y0 == c.vocab * c.rank
             len == x0 + y0
  <2>1. u = [h EXCEPT !.down = x, !.up = y] /\ h = [down |-> h.down, up |-> h.up]
    BY <1>5 DEF UnflattenHead, DecoderShape
  <2> HIDE DEF u, x, y
  <2>2. u.down = x /\ u.up = y
    BY <2>1
  <2>3. FlattenHead(c, u) = RowsSeq(u.down) \o RowsSeq(u.up) /\ DecoderLen(c, h) = len
    BY <1>5 DEF FlattenHead, DecoderLen
  <2> HIDE DEF e
  <2>4. x0 \in Nat /\ y0 \in Nat /\ len \in Nat /\ len = x0 + y0 /\ b1 \in Nat /\ b1 = a0 + x0
        /\ e * c.rank = x0 /\ c.rank * c.vocab = y0
    BY <1>1
  <2> HIDE DEF x0, y0, len, b1
  <2>5. RowsSeq(x) = Part(v, a0, e * c.rank)
    BY <1>1, RowsPart DEF x
  <2>6. RowsSeq(y) = Part(v, b1, c.rank * c.vocab)
    BY <1>1, <2>4, RowsPart DEF y
  <2>7. IsPart(RowsSeq(x), v, a0, x0) /\ IsPart(RowsSeq(y), v, b1, y0)
    BY <2>4, <2>5, <2>6 DEF IsPart
  <2>8. IsPart(RowsSeq(x) \o RowsSeq(y), v, a0, len)
    BY <2>4, <2>7, JoinOn
  <2> QED
    BY <2>2, <2>3, <2>8 DEF IsPart, u
<1>6. CASE c.head = "wave"
  <2> DEFINE g == WaveRead(c, h, v, a0)
             s1 == SeqOf(u.band)
             s2 == <<u.temp>>
             s3 == If(u.ref # <<>>, RowsSeq(u.ref))
             tail == IF h.ref # <<>> THEN c.vocab * n0 ELSE 0
             b1 == a0 + n0
             b2 == a0 + n0 + 1
             n1 == n0 + 1
             n2 == n1 + tail
  <2>1. u = RefreshCosSinCache(g)
    BY <1>6 DEF UnflattenHead, WaveRead
  <2>2. WaveShape(h)
    BY <1>6 DEF DecoderShape
  <2>3. WaveShape(g) /\ g.band = Slice(v, a0, n0) /\ g.temp = v[b1 + 1]
        /\ g.ref = IF h.ref = <<>> THEN <<>> ELSE SliceRows(v, b2, c.vocab, n0)
    BY <2>2, WaveReadIs
  <2>4. FlattenHead(c, u) = s1 \o s2 \o s3 /\ DecoderLen(c, h) = n2
    BY <1>6 DEF FlattenHead, DecoderLen
  <2> HIDE DEF g, u
  <2>5. u.band = g.band /\ u.temp = g.temp /\ u.ref = g.ref
    BY <2>1, <2>3, RefreshIs
  <2>6. n1 \in Nat /\ n2 \in Nat /\ n1 = n0 + 1 /\ n2 = n1 + tail /\ tail \in Nat /\ b1 \in Nat /\ b2 \in Nat
        /\ b1 = a0 + n0 /\ b2 = a0 + n1
    <3> HIDE DEF n0
    <3>1. c.vocab * n0 \in Nat
      BY <1>1
    <3> QED
      BY <1>1, <3>1
  <2> HIDE DEF n0, b1, b2, n1, n2
  <2>7. IsPart(s1, v, a0, n0)
    <3>1. SeqOf(Slice(v, a0, n0)) = Part(v, a0, n0)
      BY <1>1, SliceIs
    <3> QED
      BY <2>3, <2>5, <3>1 DEF IsPart
  <2>8. IsPart(s2, v, b1, 1)
    <3>1. <<v[b1 + 1]>> = Part(v, b1, 1)
      BY <2>6, PairPart
    <3> QED
      BY <2>3, <2>5, <3>1 DEF IsPart
  <2>9. IsPart(s3, v, b2, tail)
    <3>1. CASE h.ref = <<>>
      <4>1. s3 = <<>> /\ tail = 0
        BY <2>3, <2>5, <3>1 DEF If
      <4> QED
        BY <4>1, PartEmpty DEF IsPart
    <3>2. CASE h.ref # <<>>
      <4> DEFINE rows == SliceRows(v, b2, c.vocab, n0)
      <4>1. rows # <<>>
        BY <1>1, RowsAreSome
      <4>2. u.ref = rows
        BY <2>3, <2>5, <3>2
      <4>3. RowsSeq(rows) = Part(v, b2, n0 * c.vocab)
        BY <1>1, <2>6, RowsPart
      <4>4. n0 * c.vocab = tail
        BY <1>1, <3>2
      <4> QED
        BY <4>1, <4>2, <4>3, <4>4 DEF IsPart, If
    <3> QED
      BY <3>1, <3>2
  <2> HIDE DEF s1, s2, s3, tail
  <2>10. IsPart(s1 \o s2, v, a0, n1)
    BY <1>1, <2>6, <2>7, <2>8, JoinOn
  <2>11. IsPart(s1 \o s2 \o s3, v, a0, n2)
    BY <2>6, <2>9, <2>10, JoinOn
  <2> QED
    BY <2>4, <2>11 DEF IsPart, u
<1>7. c.head \in {"dense", "rank", "tied", "phase", "wave"}
  BY DEF DimsOk
<1> QED
  BY <1>2, <1>3, <1>4, <1>5, <1>6, <1>7

-----------------------------------------------------------------------------
(* The whole model *)

\* What a model must have for a vector to be read into it.
ModelShape(c, q) ==
  /\ q = [wte |-> q.wte, wpe |-> q.wpe, blocks |-> q.blocks, scale |-> q.scale, lnF |-> q.lnF, head |-> q.head]
  /\ Across(q.blocks, c.layers) /\ Across(q.scale, c.layers)
  /\ \A k \in 0 .. c.layers - 1 : BlockShape(c, q.blocks[k])
  /\ DecoderShape(c, q.head)
  /\ Len(FlattenBlock(c, q.blocks[0])) = BlockLen(c)

ScaleLen(c) == IF c.layerScale THEN c.layers ELSE 0

ModelLen(c, h) == c.layers * BlockLen(c) + ScaleLen(c) + 2 * Embed(c) + DecoderLen(c, h)

\* The length of a decoder is a natural number.
LEMMA DecoderLenType ==
  ASSUME NEW c, DimsOk(c), NEW h
  PROVE  DecoderLen(c, h) \in Nat
<1>1. Embed(c) \in Nat /\ c.nBands \in Nat /\ c.vocab \in Nat /\ c.rank \in Nat
      /\ c.head \in {"dense", "rank", "tied", "phase", "wave"}
  BY SizesType DEF DimsOk
<1> DEFINE x == c.vocab * c.nBands
           y == c.rank * Embed(c)
           t == c.vocab * c.rank
           s == c.vocab * Embed(c)
<1>2. x \in Nat /\ y \in Nat /\ t \in Nat /\ s \in Nat
  BY <1>1
<1>3. DecoderLen(c, h) = CASE c.head = "phase" -> c.nBands
                           [] c.head = "wave"  -> c.nBands + 1 + (IF h.ref # <<>> THEN x ELSE 0)
                           [] c.head = "rank"  -> y + t
                           [] c.head = "dense" -> s
                           [] c.head = "tied"  -> 1
  BY DEF DecoderLen
<1> HIDE DEF x, y, t, s
<1> QED
  BY <1>1, <1>2, <1>3

\* The layer scales read through their clamp are written back as they were.
LEMMA ScalePart ==
  ASSUME NEW c, DimsOk(c), NEW v, NEW a0 \in Nat, InRange(v, a0, ScaleLen(c)), NEW scale,
         c.layerScale => scale = [k \in 0 .. c.layers - 1 |-> Clamp(v[a0 + k + 1])]
  PROVE  If(c.layerScale, SeqOf(scale)) = Part(v, a0, ScaleLen(c))
<1>1. CASE c.layerScale
  <2> DEFINE n0 == c.layers
  <2>1. n0 \in Nat /\ ScaleLen(c) = n0 /\ a0 \in Int
    BY <1>1 DEF DimsOk, ScaleLen
  <2>2. ASSUME NEW k \in 0 .. n0 - 1 PROVE Clamp(v[a0 + k + 1]) = v[a0 + k + 1]
    <3>1. k + 1 \in 1 .. n0 /\ a0 + (k + 1) = a0 + k + 1
      BY <2>1
    <3>2. v[a0 + (k + 1)][1] # 0
      BY <2>1, <3>1 DEF InRange
    <3> QED
      BY <3>1, <3>2 DEF Clamp
  <2>3. scale = Slice(v, a0, n0)
    BY <1>1, <2>2, TableIs DEF Slice
  <2> HIDE DEF n0
  <2>4. SeqOf(Slice(v, a0, n0)) = Part(v, a0, n0)
    BY <2>1, SliceIs
  <2> QED
    BY <1>1, <2>1, <2>3, <2>4 DEF If
<1>2. CASE ~c.layerScale
  BY <1>2, PartEmpty DEF If, ScaleLen
<1> QED
  BY <1>1, <1>2

\* The model after a vector is read back.
LEMMA ParamsFields ==
  ASSUME NEW c, DimsOk(c), NEW q, ModelShape(c, q), NEW v, NEW u, u = UnflattenParams(c, q, v)
  PROVE  LET b1 == c.layers * BlockLen(c)
             b2 == b1 + ScaleLen(c)
         IN  /\ u = [wte |-> q.wte, wpe |-> q.wpe, blocks |-> u.blocks, scale |-> u.scale, lnF |-> u.lnF, head |-> u.head]
             /\ u.blocks = [k \in 0 .. c.layers - 1 |-> UnflattenBlock(c, q.blocks[k], v, k * BlockLen(c))]
             /\ c.layerScale => u.scale = [k \in 0 .. c.layers - 1 |-> Clamp(v[b1 + k + 1])]
             /\ u.lnF = [w |-> Slice(v, b2, Embed(c)), b |-> Slice(v, b2 + Embed(c), Embed(c))]
             /\ u.head = UnflattenHead(c, q.head, v, b2 + 2 * Embed(c))
<1> DEFINE per == Len(FlattenBlock(c, q.blocks[0]))
           sc == c.layers * per
           norm == sc + (IF c.layerScale THEN c.layers ELSE 0)
           x1 == [k \in DOMAIN q.blocks |-> UnflattenBlock(c, q.blocks[k], v, k * per)]
           x2 == [k \in DOMAIN q.scale |-> Clamp(v[sc + k + 1])]
           x3 == [w |-> Slice(v, norm, Embed(c)), b |-> Slice(v, norm + Embed(c), Embed(c))]
           x4 == UnflattenHead(c, q.head, v, norm + 2 * Embed(c))
           b1 == c.layers * BlockLen(c)
           b2 == b1 + ScaleLen(c)
           y1 == [k \in 0 .. c.layers - 1 |-> UnflattenBlock(c, q.blocks[k], v, k * BlockLen(c))]
           y2 == [k \in 0 .. c.layers - 1 |-> Clamp(v[b1 + k + 1])]
           y3 == [w |-> Slice(v, b2, Embed(c)), b |-> Slice(v, b2 + Embed(c), Embed(c))]
           y4 == UnflattenHead(c, q.head, v, b2 + 2 * Embed(c))
<1>1. u = [q EXCEPT !.blocks = x1, !.scale = IF c.layerScale THEN x2 ELSE @, !.lnF = x3, !.head = x4]
  <2>1. u = [q EXCEPT !.blocks = Table(x1), !.scale = IF c.layerScale THEN Table(x2) ELSE @, !.lnF = x3, !.head = x4]
    BY DEF UnflattenParams
  <2> HIDE DEF x1, x2, x3, x4
  <2>2. Table(x1) = x1 /\ Table(x2) = x2
    BY TableIs
  <2> QED
    BY <2>1, <2>2
<1>2. per = BlockLen(c) /\ DOMAIN q.blocks = 0 .. c.layers - 1 /\ DOMAIN q.scale = 0 .. c.layers - 1
  BY DEF ModelShape, Across
<1>3. sc = b1
  <2> HIDE DEF per
  <2> QED
    BY <1>2
<1>4. norm = b2
  <2> HIDE DEF sc, b1
  <2> QED
    BY <1>3 DEF ScaleLen
<1>5. x1 = y1
  <2> HIDE DEF per
  <2> QED
    BY <1>2
<1>6. x2 = y2
  <2> HIDE DEF sc, b1
  <2> QED
    BY <1>2, <1>3
<1>7. x3 = y3 /\ x4 = y4
  <2> HIDE DEF norm, b2
  <2> QED
    BY <1>4
<1> HIDE DEF x1, x2, x3, x4, y1, y2, y3, y4
<1> DEFINE t1 == q.wte
           t2 == q.wpe
           t3 == q.blocks
           t4 == q.scale
           t5 == q.lnF
           t6 == q.head
           x5 == IF c.layerScale THEN x2 ELSE t4
<1>8. q = [wte |-> t1, wpe |-> t2, blocks |-> t3, scale |-> t4, lnF |-> t5, head |-> t6]
  BY DEF ModelShape
<1>9. u = [q EXCEPT !.blocks = x1, !.scale = x5, !.lnF = x3, !.head = x4]
  BY <1>1
<1> HIDE DEF t1, t2, t3, t4, t5, t6, x5
<1> DEFINE u1 == [q EXCEPT !.blocks = x1]
           u2 == [u1 EXCEPT !.scale = x5]
           u3 == [u2 EXCEPT !.lnF = x3]
           u4 == [u3 EXCEPT !.head = x4]
<1>10. u = u4
  BY <1>9
<1>11. u1 = [wte |-> t1, wpe |-> t2, blocks |-> x1, scale |-> t4, lnF |-> t5, head |-> t6]
  BY <1>8
<1> HIDE DEF u1
<1>12. u2 = [wte |-> t1, wpe |-> t2, blocks |-> x1, scale |-> x5, lnF |-> t5, head |-> t6]
  BY <1>11
<1> HIDE DEF u2
<1>13. u3 = [wte |-> t1, wpe |-> t2, blocks |-> x1, scale |-> x5, lnF |-> x3, head |-> t6]
  BY <1>12
<1> HIDE DEF u3
<1>14. u4 = [wte |-> t1, wpe |-> t2, blocks |-> x1, scale |-> x5, lnF |-> x3, head |-> x4]
  BY <1>13
<1> HIDE DEF u4
<1>15. u.wte = t1 /\ u.wpe = t2 /\ u.blocks = x1 /\ u.scale = x5 /\ u.lnF = x3 /\ u.head = x4
  BY <1>10, <1>14
<1>16. u = [wte |-> t1, wpe |-> t2, blocks |-> u.blocks, scale |-> u.scale, lnF |-> u.lnF, head |-> u.head]
  BY <1>10, <1>14, <1>15
<1>17. c.layerScale => u.scale = x2
  BY <1>15 DEF x5
<1> QED
  BY <1>5, <1>6, <1>7, <1>15, <1>16, <1>17 DEF y1, y2, y3, y4, t1, t2

\* A model read from a vector with no entry out of range is written back as that
\* vector: the blocks, the scales, the final norm and the decoder follow each other
\* without gap or overlap.
LEMMA ParamsPart ==
  ASSUME NEW c, DimsOk(c), NEW q, ModelShape(c, q), NEW v, InRange(v, 0, ModelLen(c, q.head))
  PROVE  FlattenParams(c, UnflattenParams(c, q, v)) = Part(v, 0, ModelLen(c, q.head))
<1> DEFINE u == UnflattenParams(c, q, v)
           e == Embed(c)
           len == BlockLen(c)
           n1 == c.layers * len
           sl == ScaleLen(c)
           n2 == n1 + sl
           n3 == n2 + 2 * e
           dl == DecoderLen(c, q.head)
           n4 == n3 + dl
           f == [k \in DOMAIN u.blocks |-> FlattenBlock(c, u.blocks[k])]
           s1 == Concat(SeqOf(f))
           s2 == If(c.layerScale, SeqOf(u.scale))
           s3 == NormSeq(u.lnF)
           s4 == FlattenHead(c, u.head)
<1>1. FlattenParams(c, u) = s1 \o s2 \o s3 \o s4
  BY DEF FlattenParams
<1>2. /\ u.blocks = [k \in 0 .. c.layers - 1 |-> UnflattenBlock(c, q.blocks[k], v, k * len)]
      /\ c.layerScale => u.scale = [k \in 0 .. c.layers - 1 |-> Clamp(v[n1 + k + 1])]
      /\ u.lnF = [w |-> Slice(v, n2, e), b |-> Slice(v, n2 + e, e)]
      /\ u.head = UnflattenHead(c, q.head, v, n3)
  BY ParamsFields
<1>3. e \in Nat /\ len \in Nat /\ c.layers \in Nat /\ sl \in Nat /\ dl \in Nat
  BY SizesType, DecoderLenType DEF DimsOk, ScaleLen
<1>4. ModelLen(c, q.head) = n4
  BY DEF ModelLen
<1> HIDE DEF u, e, len, sl, dl
<1>5. n1 \in Nat /\ n2 \in Nat /\ n3 \in Nat /\ n4 \in Nat /\ n1 = len * c.layers
      /\ n2 = n1 + sl /\ n3 = n2 + 2 * e /\ n4 = n3 + dl /\ 2 * e \in Nat
  BY <1>3
<1>6. ASSUME NEW k \in 0 .. c.layers - 1 PROVE f[k] = Part(v, len * k, len)
  <2> DEFINE a0 == k * len
             b == q.blocks[k]
  <2>1. a0 \in Nat /\ a0 = len * k /\ a0 + len <= n1
    <3>1. (k + 1) * len <= c.layers * len
      BY <1>3
    <3> QED
      BY <1>3, <3>1
  <2>2. InRange(v, a0, BlockLen(c))
    <3> HIDE DEF a0, n1, n2, n3, n4
    <3> SUFFICES ASSUME NEW j \in 1 .. len PROVE v[a0 + j][1] # 0
      BY DEF InRange, len
    <3>1. a0 + j \in 1 .. n4 /\ 0 + (a0 + j) = a0 + j
      BY <1>3, <1>5, <2>1
    <3>2. v[0 + (a0 + j)][1] # 0
      BY <1>4, <3>1 DEF InRange
    <3> QED
      BY <3>1, <3>2
  <2>3. BlockShape(c, b)
    BY DEF ModelShape
  <2>4. f[k] = FlattenBlock(c, UnflattenBlock(c, b, v, a0))
    BY <1>2
  <2> HIDE DEF a0, b
  <2>5. FlattenBlock(c, UnflattenBlock(c, b, v, a0)) = Part(v, a0, BlockLen(c))
    BY <2>1, <2>2, <2>3, BlockPart
  <2> QED
    BY <2>1, <2>4, <2>5 DEF len
<1>7. IsPart(s1, v, 0, n1)
  <2>1. Parts(f, c.layers, v, 0, len)
    <3>1. DOMAIN f = 0 .. c.layers - 1
      BY <1>2
    <3>2. \A k \in 0 .. c.layers - 1 : 0 + len * k = len * k
      BY <1>3
    <3> QED
      BY <1>6, <3>1, <3>2 DEF Parts
  <2>2. 0 \in Nat
    OBVIOUS
  <2> HIDE DEF f
  <2>3. Concat(SeqOf(f)) = Part(v, 0, len * c.layers)
    BY <1>3, <2>1, <2>2, EachPart
  <2> QED
    BY <1>5, <2>3 DEF IsPart
<1> HIDE DEF n1, n2, n3, n4
<1>8. IsPart(s2, v, n1, sl)
  <2>1. InRange(v, n1, ScaleLen(c))
    <3> SUFFICES ASSUME NEW j \in 1 .. sl PROVE v[n1 + j][1] # 0
      BY DEF InRange, sl
    <3>1. n1 + j \in 1 .. n4 /\ 0 + (n1 + j) = n1 + j
      BY <1>3, <1>5
    <3>2. v[0 + (n1 + j)][1] # 0
      BY <1>4, <3>1 DEF InRange
    <3> QED
      BY <3>1, <3>2
  <2> DEFINE scale == u.scale
  <2>2. c.layerScale => scale = [k \in 0 .. c.layers - 1 |-> Clamp(v[n1 + k + 1])]
    BY <1>2
  <2> HIDE DEF scale
  <2>3. If(c.layerScale, SeqOf(scale)) = Part(v, n1, ScaleLen(c))
    BY <1>5, <2>1, <2>2, ScalePart
  <2> QED
    BY <2>3 DEF IsPart, scale, sl
<1>9. IsPart(s3, v, n2, 2 * e)
  <2>1. NormSeq([w |-> Slice(v, n2, e), b |-> Slice(v, n2 + e, e)]) = Part(v, n2, 2 * e)
    BY <1>3, <1>5, NormPart
  <2> QED
    BY <1>2, <2>1 DEF IsPart
<1>10. IsPart(s4, v, n3, dl)
  <2> DEFINE h == q.head
  <2>1. DecoderShape(c, h)
    BY DEF ModelShape
  <2> HIDE DEF h
  <2>2. FlattenHead(c, UnflattenHead(c, h, v, n3)) = Part(v, n3, DecoderLen(c, h))
    BY <1>5, <2>1, DecoderPart
  <2> QED
    BY <1>2, <2>2 DEF IsPart, h, dl
<1> HIDE DEF s1, s2, s3, s4
<1>11. 0 \in Nat /\ n1 = 0 + n1 /\ n2 = 0 + n2 /\ n3 = 0 + n3
  BY <1>5
<1>12. IsPart(s1 \o s2, v, 0, n2)
  BY <1>3, <1>5, <1>7, <1>8, <1>11, JoinOn
<1>13. IsPart(s1 \o s2 \o s3, v, 0, n3)
  BY <1>3, <1>5, <1>9, <1>11, <1>12, JoinOn
<1>14. IsPart(s1 \o s2 \o s3 \o s4, v, 0, n4)
  BY <1>3, <1>5, <1>10, <1>11, <1>13, JoinOn
<1> QED
  BY <1>1, <1>4, <1>14 DEF IsPart, u

-----------------------------------------------------------------------------
(* The model as initialised *)

\* What a fresh model consists of.
LEMMA InitModelParts ==
  ASSUME NEW c, DimsOk(c), NEW seed0, NEW wte0, NEW wpe0
  PROVE  LET q == InitModel(c, seed0, wte0, wpe0)
         IN  /\ q = [wte |-> q.wte, wpe |-> q.wpe, blocks |-> q.blocks, scale |-> q.scale, lnF |-> q.lnF, head |-> q.head]
             /\ Across(q.blocks, c.layers) /\ Across(q.scale, c.layers)
             /\ \A k \in 0 .. c.layers - 1 : BlockParts(c, q.blocks[k])
             /\ DecoderShape(c, q.head)
<1> DEFINE per == AttnDraws(c, Content(c)) + FfnDraws(c)
           f == [k \in 0 .. c.layers - 1 |-> InitBlock(c, seed0, k * per)]
           scale == Vec(c.layers, One)
           lnF == [w |-> Vec(Embed(c), One), b |-> Vec(Embed(c), Zero)]
           head == InitHead(c, seed0, c.layers * per, wte0)
           q == InitModel(c, seed0, wte0, wpe0)
<1>1. q = [wte |-> wte0, wpe |-> wpe0, blocks |-> f, scale |-> scale, lnF |-> lnF, head |-> head]
  BY TableIs DEF InitModel
<1>2. Across(f, c.layers) /\ Across(scale, c.layers)
  BY DEF Across, Vec
<1>3. ASSUME NEW k \in 0 .. c.layers - 1 PROVE BlockParts(c, f[k])
  BY InitBlockParts
<1>4. DecoderShape(c, head)
  BY InitHeadShape
<1> HIDE DEF f, scale, lnF, head, q
<1>5. q.wte = wte0 /\ q.wpe = wpe0 /\ q.blocks = f /\ q.scale = scale /\ q.lnF = lnF /\ q.head = head
  BY <1>1
<1>6. q = [wte |-> q.wte, wpe |-> q.wpe, blocks |-> q.blocks, scale |-> q.scale, lnF |-> q.lnF, head |-> q.head]
  BY <1>1, <1>5
<1>7. /\ Across(q.blocks, c.layers) /\ Across(q.scale, c.layers)
      /\ \A k \in 0 .. c.layers - 1 : BlockParts(c, q.blocks[k])
      /\ DecoderShape(c, q.head)
  BY <1>2, <1>3, <1>4, <1>5
<1> QED
  BY <1>6, <1>7 DEF q

\* A fresh model has the shape to be read back into.
LEMMA InitModelShape ==
  ASSUME NEW c, DimsOk(c), NEW seed0, NEW wte0, NEW wpe0
  PROVE  ModelShape(c, InitModel(c, seed0, wte0, wpe0))
<1> DEFINE q == InitModel(c, seed0, wte0, wpe0)
<1>1. /\ q = [wte |-> q.wte, wpe |-> q.wpe, blocks |-> q.blocks, scale |-> q.scale, lnF |-> q.lnF, head |-> q.head]
      /\ Across(q.blocks, c.layers) /\ Across(q.scale, c.layers)
      /\ \A k \in 0 .. c.layers - 1 : BlockParts(c, q.blocks[k])
      /\ DecoderShape(c, q.head)
  BY InitModelParts
<1> HIDE DEF q
<1>2. 0 \in 0 .. c.layers - 1
  BY DEF DimsOk
<1>3. \A k \in 0 .. c.layers - 1 : BlockShape(c, q.blocks[k])
  BY <1>1, PartsGiveShape
<1>4. Long(FlattenBlock(c, q.blocks[0]), BlockLen(c))
  BY <1>1, <1>2, BlockLong
<1>5. Len(FlattenBlock(c, q.blocks[0])) = BlockLen(c)
  BY <1>4 DEF Long
<1> QED
  BY <1>1, <1>3, <1>5 DEF ModelShape, q

\* What a block's attention is counted for.
LinearOf(l) == Size(l.w) * Size(l.w[0]) + Size(l.b)
HeadCount(h) == LinearOf(h.phase) + LinearOf(h.v) + (IF HasContent(h) THEN LinearOf(h.content) ELSE 0)
AttnCount(a) == Size(a.heads) * HeadCount(a.heads[0]) + LinearOf(a.out)
BlockCount(c, b) ==
  4 * Embed(c) + 4 * c.md * Embed(c) + 2 * c.md + 2 * Embed(c)
  + Size(b.outProj.groups) * LinearOf(b.outProj.groups[0])
  + (IF c.learnOde THEN 2 * c.nBands + 2 + (IF c.rk4w THEN 4 ELSE 0) ELSE 0)
  + (IF c.dyn THEN c.nHead ELSE 0)
  + (IF c.learnAttn THEN AttnCount(b.attn) ELSE 0)

\* What is counted of attention is its length.
LEMMA AttnCountIs ==
  ASSUME NEW c, DimsOk(c), NEW a, AttnParts(c, a)
  PROVE  AttnCount(a) = c.nHead * PerLen(Embed(c), HeadOf(c), Content(c)) + LinearLen(Embed(c), Embed(c))
<1> DEFINE e == Embed(c)
           hd == HeadOf(c)
           cd == Content(c)
           q == a.heads[0]
<1>1. e \in Nat \ {0} /\ hd \in Nat \ {0} /\ cd \in Nat /\ c.nHead \in Nat \ {0} /\ 2 \in Nat \ {0} /\ e \in Nat /\ hd \in Nat
      /\ c.nHead \in Nat /\ 0 \in 0 .. c.nHead - 1
  BY SizesType DEF DimsOk
<1>2. /\ LinearShape(q.phase, 2, e) /\ LinearShape(q.v, hd, hd)
      /\ IF cd = 0 THEN q.content = <<>> ELSE q.content # <<>> /\ LinearShape(q.content, cd, e)
  BY <1>1 DEF AttnParts
<1>3. LinearShape(a.out, e, e) /\ DOMAIN a.heads = 0 .. c.nHead - 1
  BY DEF AttnParts
<1> HIDE DEF q
<1>4. Size(a.heads) = c.nHead
  BY <1>1, <1>3, SizeIs
<1> DEFINE x0 == LinearLen(2, e)
           y0 == LinearLen(hd, hd)
           z0 == LinearLen(cd, e)
           w0 == LinearLen(e, e)
<1> HIDE DEF e, hd, cd
<1>5. LinearOf(q.phase) = x0 /\ LinearOf(q.v) = y0 /\ LinearOf(a.out) = w0
  <2>1. LinearOf(q.phase) = x0
    BY <1>1, <1>2, LinearCount DEF LinearOf
  <2>2. LinearOf(q.v) = y0
    BY <1>1, <1>2, LinearCount DEF LinearOf
  <2>3. LinearOf(a.out) = w0
    BY <1>1, <1>3, LinearCount DEF LinearOf
  <2> QED
    BY <2>1, <2>2, <2>3
<1>6. (IF HasContent(q) THEN LinearOf(q.content) ELSE 0) = z0
  <2>1. CASE cd = 0
    <3>1. z0 = 0
      BY <1>1, <2>1 DEF LinearLen
    <3> QED
      BY <1>2, <2>1, <3>1 DEF HasContent
  <2>2. CASE cd # 0
    <3>1. cd \in Nat \ {0} /\ LinearShape(q.content, cd, e) /\ HasContent(q)
      BY <1>1, <1>2, <2>2 DEF HasContent
    <3>2. LinearOf(q.content) = z0
      BY <1>1, <3>1, LinearCount DEF LinearOf
    <3> QED
      BY <3>1, <3>2
  <2> QED
    BY <2>1, <2>2
<1> HIDE DEF x0, y0, z0, w0
<1>7. HeadCount(q) = x0 + y0 + z0
  BY <1>5, <1>6 DEF HeadCount
<1>8. PerLen(e, hd, cd) = x0 + y0 + z0
  BY DEF PerLen, x0, y0, z0
<1> QED
  BY <1>4, <1>5, <1>7, <1>8 DEF AttnCount, q, e, hd, cd, w0

\* What is counted of a block is its length.
LEMMA BlockCountIs ==
  ASSUME NEW c, DimsOk(c), NEW b, BlockParts(c, b)
  PROVE  BlockCount(c, b) = BlockLen(c)
<1> DEFINE e == Embed(c)
           gs == GroupOf(c)
           md == c.md
           x == md * e
           op == OpLen(c)
           ode == OdeLen(c)
           dyn == DynLen(c)
           attn == AttnLen(c)
           mae == Mae(md, e)
<1>1. e \in Nat /\ gs \in Nat \ {0} /\ gs \in Nat /\ md \in Nat /\ c.groups \in Nat \ {0} /\ c.groups \in Nat
      /\ 0 \in 0 .. c.groups - 1
      /\ op \in Nat /\ ode \in Nat /\ dyn \in Nat /\ attn \in Nat /\ mae \in Nat
  BY SizesType DEF DimsOk
<1>2. Size(b.outProj.groups) * LinearOf(b.outProj.groups[0]) = op
  <2>1. Across(b.outProj.groups, c.groups) /\ LinearShape(b.outProj.groups[0], gs, gs)
    BY <1>1 DEF BlockParts
  <2>2. Size(b.outProj.groups) = c.groups
    BY <1>1, <2>1, SizeIs DEF Across
  <2> HIDE DEF gs
  <2>3. LinearOf(b.outProj.groups[0]) = LinearLen(gs, gs)
    BY <1>1, <2>1, LinearCount DEF LinearOf
  <2> QED
    BY <2>2, <2>3 DEF OpLen, gs
<1>3. (IF c.learnOde THEN 2 * c.nBands + 2 + (IF c.rk4w THEN 4 ELSE 0) ELSE 0) = ode
  BY DEF OdeLen
<1>4. (IF c.dyn THEN c.nHead ELSE 0) = dyn
  BY DEF DynLen
<1>5. (IF c.learnAttn THEN AttnCount(b.attn) ELSE 0) = attn
  <2>1. AttnParts(c, b.attn)
    BY DEF BlockParts
  <2>2. AttnCount(b.attn) = c.nHead * PerLen(Embed(c), HeadOf(c), Content(c)) + LinearLen(Embed(c), Embed(c))
    BY <2>1, AttnCountIs
  <2> QED
    BY <2>2 DEF AttnLen
<1>6. x \in Nat /\ 4 * md * e = 4 * x /\ e * md = x
  BY <1>1
<1>7. mae = 2 * x + md + e
  <2>1. mae = (md * e + md) + (e * md + e)
    BY DEF Mae, LinearLen
  <2> HIDE DEF mae
  <2> HIDE DEF x
  <2> DEFINE y == e * md
  <2>2. y = x
    BY <1>6
  <2>3. mae = (x + md) + (y + e)
    BY <2>1 DEF x
  <2> HIDE DEF y
  <2> QED
    BY <1>1, <1>6, <2>2, <2>3
<1>8. BlockLen(c) = 4 * e + 2 * mae + op + ode + dyn + attn
  BY DEF BlockLen
<1>9. BlockCount(c, b) = 4 * e + 4 * md * e + 2 * md + 2 * e + op + ode + dyn + attn
  BY <1>2, <1>3, <1>4, <1>5 DEF BlockCount
<1> HIDE DEF x, op, ode, dyn, attn, mae, e, md
<1> DEFINE y == 4 * md * e
<1>10. y = 4 * x
  BY <1>6
<1>11. BlockCount(c, b) = 4 * e + y + 2 * md + 2 * e + op + ode + dyn + attn
  BY <1>9
<1> HIDE DEF y
<1> QED
  BY <1>1, <1>6, <1>7, <1>8, <1>10, <1>11

\* What is counted is what is laid out.
LEMMA CountIs ==
  ASSUME NEW c, DimsOk(c), NEW seed0, NEW wte0, NEW wpe0
  PROVE  CountTrainable(c, InitModel(c, seed0, wte0, wpe0)) = ModelLen(c, InitModel(c, seed0, wte0, wpe0).head)
<1> DEFINE q == InitModel(c, seed0, wte0, wpe0)
<1>1. BlockParts(c, q.blocks[0])
  <2>1. 0 \in 0 .. c.layers - 1
    BY DEF DimsOk
  <2> QED
    BY <2>1, InitModelParts
<1> HIDE DEF q
<1>2. CountTrainable(c, q) = c.layers * BlockCount(c, q.blocks[0]) + ScaleLen(c) + 2 * Embed(c) + DecoderLen(c, q.head)
  BY DEF CountTrainable, BlockCount, AttnCount, HeadCount, LinearOf, ScaleLen, DecoderLen
<1>3. BlockCount(c, q.blocks[0]) = BlockLen(c)
  BY <1>1, BlockCountIs
<1> QED
  BY <1>2, <1>3 DEF ModelLen, q

-----------------------------------------------------------------------------
(* Harmonics that are given a direction *)

\* Names of the fields of a head, an attention and a block, and writing one of them.
HeadFields(h)   == {"raw", "phase", "v", "content"} \subseteq DOMAIN h
AttnFields(a)   == {"heads", "out"} \subseteq DOMAIN a /\ \A k \in DOMAIN a.heads : HeadFields(a.heads[k])
BlockNames(b)   == {"ln", "lnFfn", "attn", "kerr", "plate", "maestroIn", "maestroOut", "outProj"} \subseteq DOMAIN b
Turned(heads, r) == [k \in DOMAIN heads |-> [heads[k] EXCEPT !.raw = r[k]]]
WithHeads(a, heads) == [a EXCEPT !.heads = heads]
WithAttn(b, a)   == [b EXCEPT !.attn = a]

\* Attention is laid out without its raw harmonics.
LEMMA TurnedSeq ==
  ASSUME NEW a, AttnFields(a), NEW r
  PROVE  AttnSeq(WithHeads(a, Turned(a.heads, r))) = AttnSeq(a)
<1> DEFINE t == Turned(a.heads, r)
           s == WithHeads(a, t)
           f == [k \in DOMAIN a.heads |-> HeadSeq(a.heads[k])]
           g == [k \in DOMAIN s.heads |-> HeadSeq(s.heads[k])]
<1>1. s.heads = t /\ s.out = a.out
  <2> HIDE DEF t
  <2> QED
    BY DEF WithHeads, AttnFields
<1>2. DOMAIN t = DOMAIN a.heads
  BY DEF Turned
<1>3. ASSUME NEW k \in DOMAIN a.heads PROVE HeadSeq(t[k]) = HeadSeq(a.heads[k])
  <2> DEFINE q == a.heads[k]
             y == r[k]
             q1 == [q EXCEPT !.raw = y]
  <2>1. t[k] = q1
    BY DEF Turned
  <2>2. HeadFields(q)
    BY DEF AttnFields
  <2> HIDE DEF q, y
  <2>3. q1.phase = q.phase /\ q1.v = q.v /\ q1.content = q.content
    BY <2>2 DEF HeadFields
  <2> HIDE DEF q1
  <2>4. HeadSeq(q1) = HeadSeq(q)
    BY <2>3 DEF HeadSeq, HasContent
  <2> QED
    BY <2>1, <2>4 DEF q
<1> HIDE DEF t, s
<1>4. f = g
  BY <1>1, <1>2, <1>3
<1>5. AttnSeq(a) = Concat(SeqOf(f)) \o LinearSeq(a.out)
  BY AttnSeqIs
<1>6. AttnSeq(s) = Concat(SeqOf(g)) \o LinearSeq(s.out)
  BY AttnSeqIs
<1> HIDE DEF f, g
<1> QED
  BY <1>1, <1>4, <1>5, <1>6 DEF s, t

\* So is a block when harmonics are not trained.
LEMMA TurnedBlock ==
  ASSUME NEW c, ~c.dyn, NEW b, BlockNames(b), c.learnAttn => AttnFields(b.attn), NEW r
  PROVE  FlattenBlock(c, WithAttn(b, WithHeads(b.attn, Turned(b.attn.heads, r)))) = FlattenBlock(c, b)
<1> DEFINE a == b.attn
           y == WithHeads(b.attn, Turned(b.attn.heads, r))
           u == WithAttn(b, y)
<1>1. c.learnAttn => AttnSeq(y) = AttnSeq(a)
  BY TurnedSeq
<1> HIDE DEF y
<1>2. u.ln = b.ln /\ u.lnFfn = b.lnFfn /\ u.kerr = b.kerr /\ u.plate = b.plate /\ u.maestroIn = b.maestroIn
      /\ u.maestroOut = b.maestroOut /\ u.outProj = b.outProj /\ u.attn = y
  BY DEF WithAttn, BlockNames
<1> HIDE DEF u
<1>3. If(c.learnAttn, AttnSeq(u.attn)) = If(c.learnAttn, AttnSeq(a))
  BY <1>1, <1>2 DEF If
<1>4. If(c.dyn, PerHead(u.attn.heads, LAMBDA h : <<h.raw>>)) = If(c.dyn, PerHead(b.attn.heads, LAMBDA h : <<h.raw>>))
  BY DEF If
<1>5. FlattenBlock(c, u) = FlattenBlock(c, b)
  BY <1>2, <1>3, <1>4 DEF FlattenBlock
<1> QED
  BY <1>5 DEF u, y

\* A block that was read has the fields of a block.
LEMMA ReadNames ==
  ASSUME NEW c, DimsOk(c), ~c.dyn, NEW b, BlockShape(c, b), NEW v, NEW a0
  PROVE  LET u == UnflattenBlock(c, b, v, a0)
         IN  BlockNames(u) /\ (c.learnAttn => AttnFields(u.attn))
<1> DEFINE u == UnflattenBlock(c, b, v, a0)
<1>1. BlockNames(b)
  BY DEF BlockShape, BlockNames
<1>2. DOMAIN u = DOMAIN b
  BY DEF UnflattenBlock
<1>3. BlockNames(u)
  BY <1>1, <1>2 DEF BlockNames
<1>4. u.attn = IF c.learnAttn THEN UnflattenAttn(Harmonics(c, b, v, DynAt(c, a0)), v, AttnAt(c, a0))
               ELSE Harmonics(c, b, v, DynAt(c, a0))
  <2>1. /\ u.ln = [w |-> Slice(v, a0, Embed(c)), b |-> Slice(v, a0 + Embed(c), Embed(c))]
        /\ u.lnFfn = [w |-> Slice(v, a0 + 2 * Embed(c), Embed(c)), b |-> Slice(v, a0 + 3 * Embed(c), Embed(c))]
        /\ u.maestroIn = UnflattenMaestro(v, a0 + 4 * Embed(c), c.md, Embed(c))
        /\ u.maestroOut = UnflattenMaestro(v, a0 + 4 * Embed(c) + Mae(c.md, Embed(c)), c.md, Embed(c))
        /\ u.outProj.groups = [k \in 0 .. c.groups - 1 |->
             SliceLinear(v, OpAt(c, a0) + k * LinearLen(GroupOf(c), GroupOf(c)), GroupOf(c), GroupOf(c))]
        /\ c.learnOde => /\ u.kerr.gammaRaw = Slice(v, OdeAt(c, a0), c.nBands)
                         /\ u.kerr.alpha = Clamp(v[OdeAt(c, a0) + c.nBands + 1])
                         /\ u.kerr.beta = Clamp(v[OdeAt(c, a0) + c.nBands + 2])
                         /\ c.rk4w => u.kerr.mix = Slice(v, OdeAt(c, a0) + 2 * c.nBands + 2, 4)
                         /\ u.plate = Slice(v, OdeAt(c, a0) + c.nBands + 2, c.nBands)
        /\ u.attn = IF c.learnAttn THEN UnflattenAttn(Harmonics(c, b, v, DynAt(c, a0)), v, AttnAt(c, a0))
                    ELSE Harmonics(c, b, v, DynAt(c, a0))
    BY BlockFields
  <2> QED
    BY <2>1
<1> HIDE DEF u
<1>5. Harmonics(c, b, v, DynAt(c, a0)) = b.attn
  BY DEF Harmonics
<1>6. ASSUME c.learnAttn PROVE AttnFields(u.attn)
  <2> DEFINE a == b.attn
             s == UnflattenAttn(a, v, AttnAt(c, a0))
             x == AttnAt(c, a0)
             e == Size(a.out.b)
             hd == Size(a.heads[0].v.b)
             cd == IF HasContent(a.heads[0]) THEN Size(a.heads[0].content.b) ELSE 0
             per == LinearLen(2, e) + LinearLen(hd, hd) + LinearLen(cd, e)
             y1(k) == SliceLinear(v, x + k * per, 2, e)
             y2(k) == SliceLinear(v, x + k * per + LinearLen(2, e), hd, hd)
             y3(k) == IF cd = 0 THEN <<>>
                      ELSE SliceLinear(v, x + k * per + LinearLen(2, e) + LinearLen(hd, hd), cd, e)
             heads == [k \in DOMAIN a.heads |-> [a.heads[k] EXCEPT !.phase = y1(k), !.v = y2(k), !.content = y3(k)]]
             out == SliceLinear(v, x + Size(a.heads) * per, e, e)
  <2>1. u.attn = s
    BY <1>4, <1>5, <1>6
  <2>2. s = [heads |-> heads, out |-> out]
    BY TableIs DEF UnflattenAttn
  <2>3. \A k \in DOMAIN a.heads : HeadFields(a.heads[k])
    <3>1. AttnShape(a, c.nHead, Embed(c), HeadOf(c), Content(c))
      BY DEF BlockShape
    <3> HIDE DEF a
    <3> SUFFICES ASSUME NEW k \in DOMAIN a.heads PROVE HeadFields(a.heads[k])
      OBVIOUS
    <3> DEFINE q == a.heads[k]
    <3>2. q = [raw |-> q.raw, phase |-> q.phase, v |-> q.v, content |-> q.content]
      BY <3>1 DEF AttnShape, HeadShape
    <3> HIDE DEF q
    <3>3. HeadFields(q)
      BY <3>2 DEF HeadFields
    <3> QED
      BY <3>3 DEF q
  <2>4. ASSUME NEW k \in DOMAIN a.heads PROVE HeadFields(heads[k])
    <3> DEFINE q == a.heads[k]
               z1 == y1(k)
               z2 == y2(k)
               z3 == y3(k)
               q1 == [q EXCEPT !.phase = z1, !.v = z2, !.content = z3]
    <3>1. heads[k] = q1
      OBVIOUS
    <3> HIDE DEF z1, z2, z3, y1, y2, y3
    <3>2. DOMAIN q1 = DOMAIN q
      OBVIOUS
    <3>3. HeadFields(q)
      BY <2>3
    <3> QED
      BY <3>1, <3>2, <3>3 DEF HeadFields
  <2>5. DOMAIN heads = DOMAIN a.heads
    OBVIOUS
  <2> HIDE DEF heads, out, s, a
  <2>6. s.heads = heads /\ {"heads", "out"} \subseteq DOMAIN s
    BY <2>2
  <2> QED
    BY <2>1, <2>4, <2>5, <2>6 DEF AttnFields
<1>7. BlockNames(u) /\ (c.learnAttn => AttnFields(u.attn))
  BY <1>3, <1>6
<1> QED
  BY <1>7 DEF u

\* Giving the harmonics a direction leaves the vector and the decoder alone.
LEMMA BentKeeps ==
  ASSUME DimsOk(d), ~d.dyn, NEW q, ModelShape(d, q), NEW v, NEW w0, w0 = UnflattenParams(d, q, v)
  PROVE  FlattenParams(d, Bent(w0)) = FlattenParams(d, w0) /\ Bent(w0).head = w0.head
<1> DEFINE noise(k, b) == [h \in DOMAIN b.attn.heads |-> <<b.attn.heads[h].raw[1], Noise(job.seed, 78, 2 * k + h)[2]>>]
           turn(k, b) == WithAttn(b, WithHeads(b.attn, Turned(b.attn.heads, noise(k, b))))
           bs == [k \in DOMAIN w0.blocks |-> turn(k, w0.blocks[k])]
           u == Bent(w0)
<1>1. u = [w0 EXCEPT !.blocks = bs]
  <2> DEFINE hs(k) == [h \in DOMAIN w0.blocks[k].attn.heads |->
                         [w0.blocks[k].attn.heads[h] EXCEPT !.raw = <<w0.blocks[k].attn.heads[h].raw[1], Noise(job.seed, 78, 2 * k + h)[2]>>]]
             b2 == [k \in DOMAIN w0.blocks |-> [w0.blocks[k] EXCEPT !.attn = [w0.blocks[k].attn EXCEPT !.heads = hs(k)]]]
  <2>1. u = [w0 EXCEPT !.blocks = Table([k \in DOMAIN w0.blocks |-> [w0.blocks[k] EXCEPT !.attn =
                 [w0.blocks[k].attn EXCEPT !.heads = Table(hs(k))]]])]
    BY DEF Bent
  <2>2. \A k : Table(hs(k)) = hs(k)
    BY TableIs
  <2> HIDE DEF hs
  <2>3. u = [w0 EXCEPT !.blocks = Table(b2)]
    BY <2>1, <2>2
  <2>4. Table(b2) = b2
    BY TableIs
  <2>5. ASSUME NEW k \in DOMAIN w0.blocks PROVE b2[k] = bs[k]
    <3> DEFINE b == w0.blocks[k]
               r == noise(k, b)
    <3>1. hs(k) = [h \in DOMAIN b.attn.heads |-> [b.attn.heads[h] EXCEPT !.raw = r[h]]]
      BY DEF hs
    <3> HIDE DEF b, r
    <3>2. hs(k) = Turned(b.attn.heads, r)
      BY <3>1 DEF Turned
    <3>3. b2[k] = [b EXCEPT !.attn = [b.attn EXCEPT !.heads = hs(k)]]
      BY DEF b
    <3>4. b2[k] = WithAttn(b, WithHeads(b.attn, Turned(b.attn.heads, r)))
      BY <3>2, <3>3 DEF WithAttn, WithHeads
    <3> QED
      BY <3>4 DEF b, r
  <2>6. b2 = bs
    BY <2>5
  <2> QED
    BY <2>3, <2>4, <2>6
<1>2. /\ w0 = [wte |-> q.wte, wpe |-> q.wpe, blocks |-> w0.blocks, scale |-> w0.scale, lnF |-> w0.lnF, head |-> w0.head]
      /\ w0.blocks = [k \in 0 .. d.layers - 1 |-> UnflattenBlock(d, q.blocks[k], v, k * BlockLen(d))]
  <2> HIDE DEF noise, turn, bs, u
  <2> DEFINE c == d
  <2>1. DimsOk(c) /\ ModelShape(c, q) /\ w0 = UnflattenParams(c, q, v)
    OBVIOUS
  <2> HIDE DEF c
  <2>3. LET b1 == c.layers * BlockLen(c)
            b2 == b1 + ScaleLen(c)
        IN  /\ w0 = [wte |-> q.wte, wpe |-> q.wpe, blocks |-> w0.blocks, scale |-> w0.scale, lnF |-> w0.lnF, head |-> w0.head]
            /\ w0.blocks = [k \in 0 .. c.layers - 1 |-> UnflattenBlock(c, q.blocks[k], v, k * BlockLen(c))]
            /\ c.layerScale => w0.scale = [k \in 0 .. c.layers - 1 |-> Clamp(v[b1 + k + 1])]
            /\ w0.lnF = [w |-> Slice(v, b2, Embed(c)), b |-> Slice(v, b2 + Embed(c), Embed(c))]
            /\ w0.head = UnflattenHead(c, q.head, v, b2 + 2 * Embed(c))
    BY <2>1, ParamsFields
  <2>2. /\ w0 = [wte |-> q.wte, wpe |-> q.wpe, blocks |-> w0.blocks, scale |-> w0.scale, lnF |-> w0.lnF, head |-> w0.head]
        /\ w0.blocks = [k \in 0 .. c.layers - 1 |-> UnflattenBlock(c, q.blocks[k], v, k * BlockLen(c))]
    BY <2>3
  <2> QED
    BY <2>2 DEF c
<1>3. ASSUME NEW k \in DOMAIN w0.blocks PROVE FlattenBlock(d, bs[k]) = FlattenBlock(d, w0.blocks[k])
  <2> DEFINE b == w0.blocks[k]
             r == noise(k, b)
             b0 == q.blocks[k]
  <2>1. b = UnflattenBlock(d, b0, v, k * BlockLen(d)) /\ k \in 0 .. d.layers - 1
    BY <1>2
  <2>2. BlockShape(d, b0)
    BY <2>1 DEF ModelShape
  <2>3. bs[k] = WithAttn(b, WithHeads(b.attn, Turned(b.attn.heads, r)))
    OBVIOUS
  <2> HIDE DEF b, r, b0, bs
  <2>4. BlockNames(b) /\ (d.learnAttn => AttnFields(b.attn))
    BY <2>1, <2>2, ReadNames
  <2>5. FlattenBlock(d, WithAttn(b, WithHeads(b.attn, Turned(b.attn.heads, r)))) = FlattenBlock(d, b)
    BY <2>4, TurnedBlock
  <2> QED
    BY <2>3, <2>5 DEF b
<1>4. DOMAIN bs = DOMAIN w0.blocks
  OBVIOUS
<1> HIDE DEF bs, u
<1>5. u.blocks = bs /\ u.scale = w0.scale /\ u.lnF = w0.lnF /\ u.head = w0.head
  <2>1. {"blocks", "scale", "lnF", "head"} \subseteq DOMAIN w0
    <3> DEFINE x1 == w0.blocks
               x2 == w0.scale
               x3 == w0.lnF
               x4 == w0.head
    <3>1. w0 = [wte |-> q.wte, wpe |-> q.wpe, blocks |-> x1, scale |-> x2, lnF |-> x3, head |-> x4]
      BY <1>2
    <3> HIDE DEF x1, x2, x3, x4
    <3> QED
      BY <3>1
  <2> QED
    BY <1>1, <2>1
<1>6. [k \in DOMAIN u.blocks |-> FlattenBlock(d, u.blocks[k])] = [k \in DOMAIN w0.blocks |-> FlattenBlock(d, w0.blocks[k])]
  BY <1>3, <1>4, <1>5
<1>7. FlattenParams(d, u) = FlattenParams(d, w0)
  BY <1>5, <1>6 DEF FlattenParams
<1> QED
  BY <1>5, <1>7 DEF u

\* The vector that is written, and the model once it has been.
Entry(k) == IF job.vary = "params" THEN Noise(job.seed, 77, k) ELSE Con(Noise(job.seed, 77, k)[1])
Written  == IF job.vary = "harmonics" THEN Bent(UnflattenParams(d, fresh, p)) ELSE UnflattenParams(d, fresh, p)

LayoutIInv ==
  /\ FreshOk
  /\ p = [k \in 1 .. CountTrainable(d, fresh) |-> Entry(k)]
  /\ pc # "params" => m = Written

-----------------------------------------------------------------------------
(* The inductive invariant *)

\* No drawn entry stands for a value out of range.
LEMMA EntryInRange ==
  ASSUME job.seed \in Int, NEW k \in Int
  PROVE  Entry(k)[1] # 0
<1> DEFINE x == Noise(job.seed, 77, k)
<1>1. x \in Number /\ x[1] # 0
  BY NoiseType
<1> HIDE DEF x
<1>2. x[1] \in 0 .. P - 1
  BY <1>1 DEF Number
<1>3. Con(x[1])[1] = x[1]
  <2> DEFINE r == x[1]
  <2>1. r \in 0 .. P - 1 /\ P \in Nat /\ P >= 3
    BY <1>2, PIsPositive
  <2> HIDE DEF r
  <2>2. r % P = r
    BY <2>1
  <2>3. Con(r)[1] = r
    BY <2>2 DEF Con
  <2> QED
    BY <2>3 DEF r
<1>4. Entry(k) = IF job.vary = "params" THEN x ELSE Con(x[1])
  BY DEF Entry, x
<1> QED
  BY <1>1, <1>3, <1>4

\* The invariant gives the property: the vector read and written back is itself, and
\* as long as is counted.
LEMMA LayoutHolds == LayoutIInv => LayoutRoundTrips
<1> SUFFICES ASSUME LayoutIInv, pc # "params"
             PROVE  FlattenParams(d, m) = p /\ (d.head = "wave" => RefreshCosSinCache(m.head) = m.head)
  BY DEF LayoutRoundTrips
<1> DEFINE n0 == CountTrainable(d, fresh)
           w0 == UnflattenParams(d, fresh, p)
           h == fresh.head
<1>1. DimsOk(d) /\ job.seed \in Int /\ (job.vary = "harmonics" => ~d.dyn)
  BY ModelPassAssumption DEF LayoutIInv, FreshOk, d
<1>2. n0 = ModelLen(d, h) /\ ModelShape(d, fresh)
  BY <1>1, CountIs, InitModelShape DEF LayoutIInv, FreshOk
<1>3. p = [k \in 1 .. n0 |-> Entry(k)]
  BY DEF LayoutIInv
<1>4. m = IF job.vary = "harmonics" THEN Bent(w0) ELSE w0
  BY DEF LayoutIInv, Written
<1> HIDE DEF n0, w0, h
<1>5. p = Part(p, 0, n0) /\ InRange(p, 0, n0)
  <2>1. ASSUME NEW k \in 1 .. n0 PROVE p[0 + k] = p[k] /\ p[0 + k][1] # 0
    <3>1. 0 + k = k /\ k \in Int
      OBVIOUS
    <3>2. p[k] = Entry(k)
      BY <1>3
    <3>3. Entry(k)[1] # 0
      BY <1>1, <3>1, EntryInRange
    <3> QED
      BY <3>1, <3>2, <3>3
  <2>2. Part(p, 0, n0) = p
    <3>1. Part(p, 0, n0) = [k \in 1 .. n0 |-> p[0 + k]]
      BY DEF Part
    <3>2. Part(p, 0, n0) = [k \in 1 .. n0 |-> p[k]]
      BY <2>1, <3>1
    <3> QED
      BY <1>3, <3>2
  <2> QED
    BY <2>1, <2>2 DEF InRange
<1>6. FlattenParams(d, w0) = p
  <2>1. InRange(p, 0, ModelLen(d, fresh.head))
    BY <1>2, <1>5 DEF h
  <2>2. FlattenParams(d, UnflattenParams(d, fresh, p)) = Part(p, 0, ModelLen(d, fresh.head))
    BY <1>1, <1>2, <2>1, ParamsPart
  <2> QED
    BY <1>2, <1>5, <2>2 DEF w0, h
<1>7. FlattenParams(d, m) = FlattenParams(d, w0) /\ m.head = w0.head
  <2>1. CASE job.vary = "harmonics"
    <3>1. FlattenParams(d, Bent(w0)) = FlattenParams(d, w0) /\ Bent(w0).head = w0.head
      BY <1>1, <1>2, <2>1, BentKeeps DEF w0
    <3> QED
      BY <1>4, <2>1, <3>1
  <2> QED
    BY <1>4, <2>1
<1>8. ASSUME d.head = "wave" PROVE RefreshCosSinCache(w0.head) = w0.head
  <2> DEFINE at0 == d.layers * BlockLen(d) + ScaleLen(d) + 2 * Embed(d)
  <2>1. w0.head = UnflattenHead(d, h, p, at0)
    <3> DEFINE c == d
               b1 == c.layers * BlockLen(c)
               b2 == b1 + ScaleLen(c)
    <3>1. DimsOk(c) /\ ModelShape(c, fresh) /\ w0 = UnflattenParams(c, fresh, p)
      BY <1>1, <1>2 DEF w0
    <3> HIDE DEF c
    <3>2. /\ w0 = [wte |-> fresh.wte, wpe |-> fresh.wpe, blocks |-> w0.blocks, scale |-> w0.scale, lnF |-> w0.lnF, head |-> w0.head]
          /\ w0.blocks = [k \in 0 .. c.layers - 1 |-> UnflattenBlock(c, fresh.blocks[k], p, k * BlockLen(c))]
          /\ c.layerScale => w0.scale = [k \in 0 .. c.layers - 1 |-> Clamp(p[b1 + k + 1])]
          /\ w0.lnF = [w |-> Slice(p, b2, Embed(c)), b |-> Slice(p, b2 + Embed(c), Embed(c))]
          /\ w0.head = UnflattenHead(c, fresh.head, p, b2 + 2 * Embed(c))
      BY <3>1, ParamsFields
    <3> QED
      BY <3>2 DEF c, h
  <2> HIDE DEF at0
  <2>2. UnflattenHead(d, h, p, at0) = RefreshCosSinCache(WaveRead(d, h, p, at0))
    BY <1>8 DEF UnflattenHead, WaveRead
  <2>3. WaveShape(h)
    BY <1>2, <1>8 DEF ModelShape, DecoderShape, h
  <2>4. WaveShape(WaveRead(d, h, p, at0))
    BY <2>3, WaveReadIs
  <2> DEFINE g == WaveRead(d, h, p, at0)
  <2>5. WaveShape(g) /\ w0.head = RefreshCosSinCache(g)
    BY <2>1, <2>2, <2>4
  <2> HIDE DEF g
  <2>6. RefreshCosSinCache(RefreshCosSinCache(g)) = RefreshCosSinCache(g)
    BY <2>5, RefreshIs
  <2> QED
    BY <2>5, <2>6
<1> QED
  BY <1>6, <1>7, <1>8

\* A job starts in the invariant.
LEMMA LayoutInit == Init => LayoutIInv
BY DEF Init, LayoutIInv, FreshOk, Entry

\* Every phase of a job keeps the invariant; only WriteParams changes the vector.
LEMMA LayoutNext == LayoutIInv /\ [Next]_vars => LayoutIInv'
<1> SUFFICES ASSUME LayoutIInv, [Next]_vars PROVE LayoutIInv'
  OBVIOUS
<1>1. job' = job /\ fresh' = fresh /\ p' = p
  BY DEF Next, vars, WriteParams, Forward, Loss, Backward, Collect
<1>2. d' = d
  BY <1>1 DEF d
<1>3. FreshOk'
  <2>1. TokenTable(d, job.seed)' = TokenTable(d, job.seed) /\ PositionTable(d, job.seed, job.vary)' = PositionTable(d, job.seed, job.vary)
    BY <1>1, <1>2
  <2>2. InitModel(d, job.seed, TokenTable(d, job.seed), PositionTable(d, job.seed, job.vary))'
          = InitModel(d, job.seed, TokenTable(d, job.seed), PositionTable(d, job.seed, job.vary))
    BY <1>1, <1>2, <2>1
  <2> QED
    BY <1>1, <2>2 DEF LayoutIInv, FreshOk
<1>4. p' = [k \in 1 .. CountTrainable(d', fresh') |-> Entry(k)']
  <2>1. \A k : Entry(k)' = Entry(k)
    BY <1>1 DEF Entry
  <2> QED
    BY <1>1, <1>2, <2>1 DEF LayoutIInv
<1>5. Written' = Written
  <2>1. UnflattenParams(d, fresh, p)' = UnflattenParams(d, fresh, p)
    BY <1>1, <1>2
  <2>2. Bent(UnflattenParams(d, fresh, p))' = Bent(UnflattenParams(d, fresh, p))
    BY <1>1, <2>1 DEF Bent
  <2> QED
    BY <1>1, <2>1, <2>2 DEF Written
<1>6. pc' # "params" => m' = Written
  <2>1. CASE WriteParams
    BY <2>1 DEF WriteParams, Written
  <2>2. CASE Forward \/ Loss \/ Backward \/ Collect
    BY <2>2 DEF Forward, Loss, Backward, Collect, LayoutIInv
  <2>3. CASE UNCHANGED vars
    BY <2>3 DEF vars, LayoutIInv
  <2> QED
    BY <2>1, <2>2, <2>3 DEF Next
<1> QED
  BY <1>3, <1>4, <1>5, <1>6 DEF LayoutIInv

\* LayoutIInv is an invariant of every job: the vector of WriteParams is a model's
\* long and in range, and the parameters in use are those read from it.
THEOREM LayoutIInvAlways == Spec => []LayoutIInv
BY LayoutInit, LayoutNext, PTL DEF Spec

\* Reading a vector into the model and writing the model out again gives the
\* vector, and its length is what count_trainable_params counts, for any
\* dimensions, every decoder and every combination of flags: no parameter is
\* written to the place of another.
THEOREM LayoutRoundTripsAlways == Spec => []LayoutRoundTrips
BY LayoutIInvAlways, LayoutHolds, PTL

-----------------------------------------------------------------------------
(* What a file is taken for *)

\* Which of the four sets of learned parts the k-th candidate has.
RankOf(k) == (k - 1) \div 4

\* The candidates that fit, by the lengths of what is learned and of the two decoders.
Fits(y, short, long, n0) == {k \in 1 .. 16 : y[RankOf(k)] + (IF k % 2 = 1 THEN short ELSE long) = n0}

\* A candidate has the parts and the decoder of the file exactly if no dense one of fewer
\* parts is as long.
Decides(y, short, long, t0, head, k) ==
  (RankOf(k) = t0 /\ (k % 2 = 1 <=> head = "phase"))
    <=> ~(head = "phase" /\ \E t \in 0 .. 3 : y[t0] - y[t] = long - short)

\* The first candidate that fits, for lengths that rise with the learned parts.
LEMMA FirstFit ==
  ASSUME NEW y \in [0 .. 3 -> Nat], y[0] < y[1], y[1] < y[2], y[2] < y[3],
         NEW short \in Nat, NEW long \in Nat, short < long, NEW t0 \in 0 .. 3, NEW head,
         NEW n0 \in Nat, n0 = y[t0] + (IF head = "phase" THEN short ELSE long),
         NEW first, first \in Fits(y, short, long, n0) => \A j \in Fits(y, short, long, n0) : first <= j
  PROVE  /\ Fits(y, short, long, n0) # {}
         /\ first \in Fits(y, short, long, n0) => Decides(y, short, long, t0, head, first)
<1> DEFINE fits == Fits(y, short, long, n0)
           phase == head = "phase"
<1>0. fits = {k \in 1 .. 16 : y[RankOf(k)] + (IF k % 2 = 1 THEN short ELSE long) = n0} /\ phase \in BOOLEAN
  BY DEF Fits
<1> SUFFICES fits # {} /\ (first \in fits => Decides(y, short, long, t0, head, first))
  OBVIOUS
<1> HIDE DEF fits
<1>1. \A k \in 1 .. 16 : RankOf(k) \in 0 .. 3
  BY DEF RankOf
<1>2. \A k, j \in 1 .. 16 : k <= j => RankOf(k) <= RankOf(j)
  BY DEF RankOf
<1>3. \A t \in 0 .. 3 : /\ 4 * t + 1 \in 1 .. 16 /\ RankOf(4 * t + 1) = t /\ (4 * t + 1) % 2 = 1
                        /\ 4 * t + 2 \in 1 .. 16 /\ RankOf(4 * t + 2) = t /\ (4 * t + 2) % 2 # 1
  BY DEF RankOf
<1>4. \A s, t \in 0 .. 3 : s < t => y[s] < y[t]
  OBVIOUS
<1>5. \A t \in 0 .. 3 : y[t] \in Nat
  OBVIOUS
<1>6. CASE phase
  <2>1. 4 * t0 + 1 \in fits
    BY <1>0, <1>3, <1>6
  <2>2. ASSUME first \in fits, NEW t \in 0 .. 3, y[t0] - y[t] = long - short PROVE RankOf(first) # t0
    <3>1. 4 * t + 2 \in fits
      BY <1>0, <1>3, <1>5, <1>6, <2>2
    <3>2. t < t0
      BY <1>4, <1>5, <2>2
    <3>3. first <= 4 * t + 2 /\ first \in 1 .. 16
      BY <1>0, <2>2, <3>1 DEF fits
    <3> QED
      BY <1>2, <1>3, <3>1, <3>2, <3>3
  <2>3. ASSUME first \in fits, \A t \in 0 .. 3 : y[t0] - y[t] # long - short
        PROVE  RankOf(first) = t0 /\ first % 2 = 1
    <3>1. first \in 1 .. 16 /\ RankOf(first) \in 0 .. 3 /\ RankOf(first) <= t0
      BY <1>0, <1>1, <1>2, <1>3, <2>1, <2>3 DEF fits
    <3>2. y[RankOf(first)] + (IF first % 2 = 1 THEN short ELSE long) = y[t0] + short
      BY <1>0, <1>6, <2>3
    <3>3. first % 2 = 1
      BY <1>5, <2>3, <3>1, <3>2
    <3> QED
      BY <1>4, <1>5, <3>1, <3>2, <3>3
  <2> QED
    <3> DEFINE other == \E t \in 0 .. 3 : y[t0] - y[t] = long - short
    <3>1. ASSUME first \in fits, other PROVE RankOf(first) # t0
      BY <2>2, <3>1
    <3>2. ASSUME first \in fits, ~other PROVE RankOf(first) = t0 /\ first % 2 = 1
      <4>1. \A t \in 0 .. 3 : y[t0] - y[t] # long - short
        BY <3>2
      <4> QED
        BY <2>3, <3>2, <4>1
    <3>3. fits # {}
      BY <2>1
    <3> HIDE DEF other
    <3>4. first \in fits => ((RankOf(first) = t0 /\ (first % 2 = 1 <=> phase)) <=> ~(phase /\ other))
      BY <1>6, <3>1, <3>2
    <3>5. (first \in fits) => Decides(y, short, long, t0, head, first)
      BY <3>4 DEF other, Decides
    <3> QED
      BY <3>3, <3>5
<1>7. CASE ~phase
  <2>1. 4 * t0 + 2 \in fits
    BY <1>0, <1>3, <1>7
  <2>2. ASSUME first \in fits PROVE RankOf(first) = t0 /\ first % 2 # 1
    <3>1. first \in 1 .. 16 /\ RankOf(first) \in 0 .. 3 /\ RankOf(first) <= t0
      BY <1>0, <1>1, <1>2, <1>3, <2>1, <2>2 DEF fits
    <3>2. y[RankOf(first)] + (IF first % 2 = 1 THEN short ELSE long) = y[t0] + long
      BY <1>0, <1>7, <2>2
    <3>3. y[RankOf(first)] <= y[t0]
      BY <1>4, <1>5, <3>1
    <3> QED
      BY <1>4, <1>5, <3>1, <3>2, <3>3
  <2> QED
    <3>1. fits # {}
      BY <2>1
    <3> QED
      BY <1>7, <2>2, <3>1 DEF Decides
<1> QED
  BY <1>6, <1>7

\* What two models share that differ at most in what the loader tries.
Alike(c, q) ==
  /\ q.nBands = c.nBands /\ q.nHead = c.nHead /\ q.md = c.md /\ q.T = c.T /\ q.layers = c.layers /\ q.vocab = c.vocab
  /\ q.groups = c.groups /\ q.rank = c.rank /\ q.steps = c.steps /\ q.rk4w = c.rk4w /\ q.layerScale = c.layerScale
  /\ q.dyn = c.dyn /\ q.frozen = c.frozen

Switched(c, ode, corr, attn, h) == [c EXCEPT !.learnOde = ode, !.corrector = corr, !.learnAttn = attn, !.head = h]

\* A candidate is alike in everything it does not switch, and has what it switches.
LEMMA SwitchedIs ==
  ASSUME NEW c, DOMAIN c = Fields, DimsOk(c), NEW ode \in BOOLEAN, NEW corr \in BOOLEAN, NEW attn \in BOOLEAN,
         NEW h \in {"phase", "dense"}
  PROVE  LET q == Switched(c, ode, corr, attn, h)
         IN  Alike(c, q) /\ DimsOk(q) /\ q.learnOde = ode /\ q.learnAttn = attn /\ q.head = h
<1> DEFINE q == Switched(c, ode, corr, attn, h)
<1>1. \A f \in Fields : q[f] = CASE f = "learnOde" -> ode [] f = "corrector" -> corr [] f = "learnAttn" -> attn
                                 [] f = "head" -> h [] OTHER -> c[f]
  <2> DEFINE q1 == [c EXCEPT !.learnOde = ode]
             q2 == [q1 EXCEPT !.corrector = corr]
             q3 == [q2 EXCEPT !.learnAttn = attn]
             q4 == [q3 EXCEPT !.head = h]
  <2>1. DOMAIN q1 = Fields /\ \A f \in Fields : q1[f] = IF f = "learnOde" THEN ode ELSE c[f]
    OBVIOUS
  <2>2. DOMAIN q2 = Fields /\ \A f \in Fields : q2[f] = IF f = "corrector" THEN corr ELSE q1[f]
    BY <2>1
  <2>3. DOMAIN q3 = Fields /\ \A f \in Fields : q3[f] = IF f = "learnAttn" THEN attn ELSE q2[f]
    BY <2>2
  <2>4. DOMAIN q4 = Fields /\ \A f \in Fields : q4[f] = IF f = "head" THEN h ELSE q3[f]
    BY <2>3
  <2>5. q = q4
    BY DEF Switched
  <2> QED
    BY <2>1, <2>2, <2>3, <2>4, <2>5
<1> HIDE DEF q
<1>2. q.learnOde = ode /\ q.learnAttn = attn /\ q.head = h
  BY <1>1 DEF Fields
<1>3. Alike(c, q)
  BY <1>1 DEF Alike, Fields
<1>4. DimsOk(q)
  BY <1>2, <1>3 DEF Alike, DimsOk, Embed
<1> QED
  BY <1>2, <1>3, <1>4 DEF q

\* What the ODE and the attention add to a block.
Extra(c, ode, attn) ==
  (IF ode THEN 2 * c.nBands + 2 + (IF c.rk4w THEN 4 ELSE 0) ELSE 0)
  + (IF attn THEN c.nHead * PerLen(Embed(c), HeadOf(c), IF ode THEN ContentDim ELSE 0) + LinearLen(Embed(c), Embed(c)) ELSE 0)

\* It is the same for all models that are alike.
LEMMA ExtraIs ==
  ASSUME NEW c, NEW q, Alike(c, q)
  PROVE  OdeLen(q) + AttnLen(q) = Extra(c, q.learnOde, q.learnAttn)
<1>1. Embed(q) = Embed(c) /\ HeadOf(q) = HeadOf(c)
  BY DEF Alike, Embed, HeadOf
<1> QED
  BY <1>1 DEF Alike, OdeLen, AttnLen, Extra, Content

\* The set of learned parts with two switches alone.
LEMMA LearnedIs ==
  ASSUME NEW c, DOMAIN c = Fields, NEW ode \in BOOLEAN, NEW attn \in BOOLEAN
  PROVE  Learned(c, ode, attn) = Extra(c, ode, attn)
<1> DEFINE q1 == [c EXCEPT !.learnOde = ode]
           q == [q1 EXCEPT !.learnAttn = attn]
<1>1. DOMAIN q1 = Fields /\ \A f \in Fields : q1[f] = IF f = "learnOde" THEN ode ELSE c[f]
  OBVIOUS
<1>2. \A f \in Fields : q[f] = IF f = "learnAttn" THEN attn ELSE q1[f]
  BY <1>1
<1>3. Learned(c, ode, attn) = OdeLen(q) + AttnLen(q)
  BY DEF Learned
<1> HIDE DEF q, q1
<1>4. Alike(c, q) /\ q.learnOde = ode /\ q.learnAttn = attn
  BY <1>1, <1>2 DEF Alike, Fields
<1> QED
  BY <1>3, <1>4, ExtraIs

\* Every learned part adds numbers, and attention more than the ODE.
LEMMA ExtraRises ==
  ASSUME NEW c, DimsOk(c), ~c.rk4w
  PROVE  /\ \A ode, attn \in BOOLEAN : Extra(c, ode, attn) \in Nat
         /\ Extra(c, FALSE, FALSE) < Extra(c, TRUE, FALSE) /\ Extra(c, TRUE, FALSE) < Extra(c, FALSE, TRUE)
         /\ Extra(c, FALSE, TRUE) < Extra(c, TRUE, TRUE)
<1> DEFINE b0 == c.nBands
           e0 == Embed(c)
           h0 == HeadOf(c)
           k0 == c.nHead
           x0 == PerLen(e0, h0, 0)
           x1 == PerLen(e0, h0, ContentDim)
           z0 == LinearLen(e0, e0)
           ode0 == 2 * b0 + 2
           none == Extra(c, FALSE, FALSE)
           odeOnly == Extra(c, TRUE, FALSE)
           attnOnly == Extra(c, FALSE, TRUE)
           both == Extra(c, TRUE, TRUE)
<1>1. b0 \in Nat \ {0} /\ e0 \in Nat \ {0} /\ h0 \in Nat \ {0} /\ k0 \in Nat \ {0} /\ e0 = 2 * b0 /\ ContentDim \in Nat
  BY SizesType, ModelPassAssumption DEF DimsOk, Embed
<1>2. /\ none = 0 /\ odeOnly = ode0
      /\ attnOnly = k0 * x0 + z0 /\ both = ode0 + (k0 * x1 + z0)
  <2> HIDE DEF x0, x1, z0, b0, k0, none, odeOnly, attnOnly, both
  <2>1. k0 * x0 + z0 \in Nat /\ k0 * x1 + z0 \in Nat
    <3> SUFFICES x0 \in Nat /\ x1 \in Nat /\ z0 \in Nat
      BY <1>1
    <3> HIDE DEF e0, h0
    <3> QED
      BY <1>1 DEF x0, x1, z0, PerLen, LinearLen
  <2> DEFINE y0 == k0 * x0 + z0
             y1 == k0 * x1 + z0
  <2>2. attnOnly = 0 + y0 /\ both = ode0 + y1
        /\ none = 0 + 0 /\ odeOnly = ode0 + 0
    <3>1. 2 * c.nBands + 2 + (IF c.rk4w THEN 4 ELSE 0) = ode0
      BY <1>1 DEF b0
    <3> HIDE DEF ode0
    <3> QED
      BY <3>1 DEF none, odeOnly, attnOnly, both, Extra, x0, x1, z0, b0, k0
  <2>3. y0 \in Nat /\ y1 \in Nat /\ ode0 \in Nat
    BY <1>1, <2>1
  <2> HIDE DEF y0, y1, ode0
  <2>4. attnOnly = y0 /\ both = ode0 + y1
        /\ none = 0 /\ odeOnly = ode0
    BY <2>2, <2>3
  <2> QED
    BY <2>4 DEF y0, y1
<1> HIDE DEF e0, h0, k0, b0, none, odeOnly, attnOnly, both
<1>3. x0 \in Nat /\ x1 \in Nat /\ x0 <= x1
  <2> DEFINE p0 == LinearLen(2, e0) + LinearLen(h0, h0)
  <2>1. p0 \in Nat
    BY <1>1 DEF LinearLen
  <2>2. LinearLen(0, e0) = 0 /\ LinearLen(ContentDim, e0) \in Nat
    BY <1>1 DEF LinearLen
  <2>3. x0 = p0 + LinearLen(0, e0) /\ x1 = p0 + LinearLen(ContentDim, e0)
    BY DEF PerLen
  <2> HIDE DEF p0, x0, x1
  <2> QED
    BY <2>1, <2>2, <2>3
<1>4. z0 \in Nat /\ z0 > ode0
  <2>1. z0 = e0 * e0 + e0
    BY DEF LinearLen
  <2>2. e0 * e0 \in Nat /\ e0 * e0 >= 2 * e0
    BY <1>1
  <2> DEFINE s0 == e0 * e0
  <2>3. s0 \in Nat /\ s0 >= 2 * e0 /\ z0 = s0 + e0
    BY <2>1, <2>2
  <2> HIDE DEF s0, z0
  <2> QED
    BY <1>1, <2>3
<1> HIDE DEF x0, x1, z0
<1>5. k0 * x0 \in Nat /\ k0 * x1 \in Nat /\ k0 * x0 <= k0 * x1
  BY <1>1, <1>3
<1> DEFINE y0 == k0 * x0
           y1 == k0 * x1
<1>6. y0 \in Nat /\ y1 \in Nat /\ y0 <= y1 /\ attnOnly = y0 + z0 /\ both = ode0 + (y1 + z0)
  BY <1>2, <1>5
<1> HIDE DEF y0, y1
<1>7. ode0 \in Nat /\ ode0 > 0 /\ none = 0 /\ odeOnly = ode0
  BY <1>1, <1>2
<1> HIDE DEF ode0
<1>8. /\ none < odeOnly /\ odeOnly < attnOnly
      /\ attnOnly < both
  BY <1>4, <1>6, <1>7
<1>9. /\ none \in Nat /\ odeOnly \in Nat
      /\ attnOnly \in Nat /\ both \in Nat
  BY <1>4, <1>6, <1>7
<1> QED
  BY <1>8, <1>9 DEF none, odeOnly, attnOnly, both

\* What models that are alike hold beside their learned parts and their decoder.
Common(c) == c.layers * (4 * Embed(c) + 2 * Mae(c.md, Embed(c)) + OpLen(c) + DynLen(c)) + ScaleLen(c) + 2 * Embed(c)

\* The length of a model that is alike, by what it has learned and its decoder.
LEMMA AlikeLength ==
  ASSUME NEW c, NEW q, DimsOk(c), DimsOk(q), Alike(c, q), q.head \in {"phase", "dense"}, NEW h,
         Extra(c, q.learnOde, q.learnAttn) \in Nat
  PROVE  ModelLen(q, h) = Common(c) + c.layers * Extra(c, q.learnOde, q.learnAttn)
                            + (IF q.head = "phase" THEN c.nBands ELSE c.vocab * Embed(c))
<1> DEFINE x0 == Extra(c, q.learnOde, q.learnAttn)
           d0 == IF q.head = "phase" THEN c.nBands ELSE c.vocab * Embed(c)
           r0 == 4 * Embed(c) + 2 * Mae(c.md, Embed(c)) + OpLen(c) + DynLen(c)
           s0 == ScaleLen(c)
           e2 == 2 * Embed(c)
<1>1. Embed(q) = Embed(c) /\ OpLen(q) = OpLen(c) /\ DynLen(q) = DynLen(c) /\ ScaleLen(q) = ScaleLen(c)
      /\ q.layers = c.layers /\ q.md = c.md
  BY DEF Alike, Embed, OpLen, GroupOf, DynLen, ScaleLen
<1>2. OdeLen(q) + AttnLen(q) = x0 /\ OdeLen(q) \in Nat /\ AttnLen(q) \in Nat
  BY ExtraIs, SizesType
<1>3. DecoderLen(q, h) = d0
  BY <1>1 DEF DecoderLen, Alike
<1>4. BlockLen(q) = r0 + x0
  <2> DEFINE o0 == OdeLen(q)
             a0 == AttnLen(q)
             e4 == 4 * Embed(c)
             m2 == 2 * Mae(c.md, Embed(c))
             p0 == OpLen(c)
             y0 == DynLen(c)
  <2>1. e4 \in Nat /\ m2 \in Nat /\ p0 \in Nat /\ y0 \in Nat /\ o0 \in Nat /\ a0 \in Nat
    BY <1>2, SizesType
  <2>2. BlockLen(q) = e4 + m2 + p0 + o0 + y0 + a0 /\ r0 = e4 + m2 + p0 + y0 /\ o0 + a0 = x0
    BY <1>1, <1>2 DEF BlockLen
  <2> HIDE DEF e4, m2, p0, y0, o0, a0, x0, r0
  <2> QED
    BY <2>1, <2>2
<1>5. r0 \in Nat /\ x0 \in Nat /\ c.layers \in Nat /\ s0 \in Nat /\ e2 \in Nat /\ d0 \in Nat
  <2>1. r0 \in Nat /\ e2 \in Nat
    BY SizesType
  <2>2. s0 \in Nat /\ c.layers \in Nat
    BY DEF ScaleLen, DimsOk
  <2>3. c.vocab * Embed(c) \in Nat /\ c.nBands \in Nat
    BY SizesType DEF DimsOk
  <2> QED
    BY <2>1, <2>2, <2>3
<1>6. ModelLen(q, h) = c.layers * (r0 + x0) + s0 + e2 + d0 /\ Common(c) = c.layers * r0 + s0 + e2
  BY <1>1, <1>3, <1>4 DEF ModelLen, Common
<1> HIDE DEF r0, x0, s0, e2, d0
<1> DEFINE l0 == c.layers
           lr == l0 * r0
           lx == l0 * x0
<1>7. l0 * (r0 + x0) = lr + lx /\ lr \in Nat /\ lx \in Nat
  BY <1>5
<1>8. ModelLen(q, h) = (lr + lx) + s0 + e2 + d0 /\ Common(c) = lr + s0 + e2
  BY <1>6, <1>7
<1>9. ModelLen(q, h) = Common(c) + lx + d0
  <2> HIDE DEF lr, lx
  <2> QED
    BY <1>5, <1>7, <1>8
<1> QED
  BY <1>9 DEF x0, d0

\* A nonempty set of numbers of candidates has a first.
LEMMA HasFirst ==
  ASSUME NEW S \in SUBSET (1 .. 16), S # {}
  PROVE  \E x \in S : \A y \in S : x <= y
<1> DEFINE R == {ss \in Nat \X Nat : ss[1] < ss[2]}
<1>1. IsWellFoundedOn(R, Nat)
  BY NatLessThanWellFounded DEF OpToRel
<1>2. \A x, y \in Nat : <<y, x>> \notin R => x <= y
  OBVIOUS
<1> HIDE DEF R
<1>3. S \in SUBSET Nat
  OBVIOUS
<1>4. \E x \in S : \A y \in S : <<y, x>> \notin R
  BY <1>1, <1>3, WFMin
<1> QED
  BY <1>2, <1>3, <1>4

OdeOf(t)  == t \in {1, 3}
AttnOf(t) == t \in {2, 3}

\* Every set of learned parts has its rank.
LEMMA EveryRank == \A ode, attn \in BOOLEAN : \E t \in 0 .. 3 : OdeOf(t) = ode /\ AttnOf(t) = attn
<1> TAKE ode \in BOOLEAN, attn \in BOOLEAN
<1>1. \E t \in 0 .. 3 : (OdeOf(t) <=> ode) /\ (AttnOf(t) <=> attn)
  <2>1. CASE ~ode /\ ~attn
    BY <2>1 DEF OdeOf, AttnOf
  <2>2. CASE ode /\ ~attn
    BY <2>2 DEF OdeOf, AttnOf
  <2>3. CASE ~ode /\ attn
    BY <2>3 DEF OdeOf, AttnOf
  <2>4. CASE ode /\ attn
    BY <2>4 DEF OdeOf, AttnOf
  <2> QED
    BY <2>1, <2>2, <2>3, <2>4
<1>2. \A t \in 0 .. 3 : OdeOf(t) \in BOOLEAN /\ AttnOf(t) \in BOOLEAN
  BY DEF OdeOf, AttnOf
<1> QED
  BY <1>1, <1>2

\* The k-th candidate, by its rank and its parity.
LEMMA CandidateIs ==
  ASSUME NEW c, Plain(c) = c, DOMAIN c = Fields, DimsOk(c), NEW k \in 1 .. 16
  PROVE  LET q == Candidates(c)[k]
         IN  /\ DimsOk(q) /\ Alike(c, q) /\ q.learnOde = OdeOf(RankOf(k)) /\ q.learnAttn = AttnOf(RankOf(k))
             /\ q.head = IF k % 2 = 1 THEN "phase" ELSE "dense"
             /\ DOMAIN Candidates(c) = 1 .. 16
<1> DEFINE j0 == (k + 1) \div 2
           v0 == Variants[j0]
           h0 == IF k % 2 = 1 THEN "phase" ELSE "dense"
<1>1. Len(Variants) = 8 /\ DOMAIN Candidates(c) = 1 .. 16
  BY DEF Variants, Candidates
<1>2. j0 \in 1 .. 8
  OBVIOUS
<1>3. v0[1] \in BOOLEAN /\ v0[2] \in BOOLEAN /\ v0[3] \in BOOLEAN
      /\ v0[1] = (j0 \in {3, 4, 7, 8}) /\ v0[3] = (j0 \in {5, 6, 7, 8})
  <2> HIDE DEF j0
  <2> DEFINE x1 == v0[1]
             x2 == v0[2]
             x3 == v0[3]
  <2>1. j0 = 1 => x1 \in BOOLEAN /\ x2 \in BOOLEAN /\ x3 \in BOOLEAN /\ ~x1 /\ ~x3
    BY DEF Variants
  <2>2. j0 = 2 => x1 \in BOOLEAN /\ x2 \in BOOLEAN /\ x3 \in BOOLEAN /\ ~x1 /\ ~x3
    BY DEF Variants
  <2>3. j0 = 3 => x1 \in BOOLEAN /\ x2 \in BOOLEAN /\ x3 \in BOOLEAN /\ x1 /\ ~x3
    BY DEF Variants
  <2>4. j0 = 4 => x1 \in BOOLEAN /\ x2 \in BOOLEAN /\ x3 \in BOOLEAN /\ x1 /\ ~x3
    BY DEF Variants
  <2>5. j0 = 5 => x1 \in BOOLEAN /\ x2 \in BOOLEAN /\ x3 \in BOOLEAN /\ ~x1 /\ x3
    BY DEF Variants
  <2>6. j0 = 6 => x1 \in BOOLEAN /\ x2 \in BOOLEAN /\ x3 \in BOOLEAN /\ ~x1 /\ x3
    BY DEF Variants
  <2>7. j0 = 7 => x1 \in BOOLEAN /\ x2 \in BOOLEAN /\ x3 \in BOOLEAN /\ x1 /\ x3
    BY DEF Variants
  <2>8. j0 = 8 => x1 \in BOOLEAN /\ x2 \in BOOLEAN /\ x3 \in BOOLEAN /\ x1 /\ x3
    BY DEF Variants
  <2> HIDE DEF x1, x2, x3
  <2>9. x1 \in BOOLEAN /\ x2 \in BOOLEAN /\ x3 \in BOOLEAN /\ (x1 <=> j0 \in {3, 4, 7, 8}) /\ (x3 <=> j0 \in {5, 6, 7, 8})
    BY <1>2, <2>1, <2>2, <2>3, <2>4, <2>5, <2>6, <2>7, <2>8
  <2>10. x1 = (j0 \in {3, 4, 7, 8}) /\ x3 = (j0 \in {5, 6, 7, 8})
    BY <2>9
  <2> QED
    BY <2>9, <2>10 DEF x1, x2, x3
<1>4. OdeOf(RankOf(k)) = (j0 \in {3, 4, 7, 8}) /\ AttnOf(RankOf(k)) = (j0 \in {5, 6, 7, 8})
  BY DEF OdeOf, AttnOf, RankOf
<1>5. Candidates(c)[k] = Switched(c, v0[1], v0[2], v0[3], h0)
  BY <1>1 DEF Candidates, Switched
<1> HIDE DEF v0, j0
<1>6. LET q == Switched(c, v0[1], v0[2], v0[3], h0)
      IN  Alike(c, q) /\ DimsOk(q) /\ q.learnOde = v0[1] /\ q.learnAttn = v0[3] /\ q.head = h0
  <2>1. h0 \in {"phase", "dense"}
    OBVIOUS
  <2> HIDE DEF h0
  <2>2. \A ode, corr, attn \in BOOLEAN :
          LET q == Switched(c, ode, corr, attn, h0)
          IN  Alike(c, q) /\ DimsOk(q) /\ q.learnOde = ode /\ q.learnAttn = attn /\ q.head = h0
    BY <2>1, SwitchedIs
  <2> QED
    BY <1>3, <2>2, Zenon
<1> QED
  BY <1>1, <1>3, <1>4, <1>5, <1>6

\* A plain model's file, by the candidates' lengths.
LEMMA LoadAutoIs ==
  ASSUME NEW c, Plain(c) = c, DOMAIN c = Fields, DimsOk(c), c.head \in {"phase", "dense"},
         NEW wte0, NEW wpe0, NEW h
  PROVE  LET got == LoadAuto(c, wte0, wpe0, ModelLen(c, h))
         IN  got # <<>> /\ (SameModel(c, got[1]) <=> ~Ambiguous(c))
<1> DEFINE cs == Candidates(c)
           counted(v) == CountTrainable(v, InitModel(v, 42, wte0, wpe0))
           l0 == c.layers
           b0 == c.nBands
           w0 == c.vocab * Embed(c)
           x(t) == Extra(c, OdeOf(t), AttnOf(t))
           y == [t \in 0 .. 3 |-> Common(c) + l0 * x(t)]
           n0 == ModelLen(c, h)
           fits == {k \in DOMAIN cs : counted(cs[k]) = n0}
           first == CHOOSE k \in fits : \A j \in fits : k <= j
           phase == c.head = "phase"
<1>1. ~c.rk4w /\ c.learnOde \in BOOLEAN /\ c.learnAttn \in BOOLEAN /\ Alike(c, c)
  <2>1. Plain(c).rk4w = FALSE
    BY DEF Plain, Fields
  <2> QED
    BY <2>1 DEF DimsOk, Alike
<1>2. \A ode, attn \in BOOLEAN : Extra(c, ode, attn) \in Nat
  BY <1>1, ExtraRises
<1>3. \A t \in 0 .. 3 : OdeOf(t) \in BOOLEAN /\ AttnOf(t) \in BOOLEAN
  BY DEF OdeOf, AttnOf
<1>4. \A t \in 0 .. 3 : x(t) \in Nat
  BY <1>2, <1>3, Zenon
<1>5. x(0) < x(1) /\ x(1) < x(2) /\ x(2) < x(3)
  <2>1. OdeOf(0) = FALSE /\ AttnOf(0) = FALSE /\ OdeOf(1) = TRUE /\ AttnOf(1) = FALSE
        /\ OdeOf(2) = FALSE /\ AttnOf(2) = TRUE /\ OdeOf(3) = TRUE /\ AttnOf(3) = TRUE
    BY DEF OdeOf, AttnOf
  <2>2. x(0) = Extra(c, FALSE, FALSE) /\ x(1) = Extra(c, TRUE, FALSE)
        /\ x(2) = Extra(c, FALSE, TRUE) /\ x(3) = Extra(c, TRUE, TRUE)
    BY <2>1, Zenon
  <2> QED
    BY <1>1, <2>2, ExtraRises
<1>6. l0 \in Nat \ {0} /\ b0 \in Nat /\ w0 \in Nat /\ b0 < w0 /\ Common(c) \in Nat
  <2>1. l0 \in Nat \ {0} /\ b0 \in Nat \ {0} /\ c.vocab \in Nat \ {0} /\ Embed(c) = 2 * b0
    BY DEF DimsOk, Embed
  <2>2. w0 \in Nat /\ w0 >= Embed(c)
    <3> HIDE DEF b0
    <3> DEFINE e0 == Embed(c)
               m0 == c.vocab
    <3>1. e0 \in Nat /\ m0 \in Nat \ {0}
      BY <2>1
    <3> HIDE DEF e0, m0
    <3>2. m0 * e0 \in Nat /\ m0 * e0 >= e0
      BY <3>1
    <3> QED
      BY <3>2 DEF e0, m0
  <2>3. Common(c) \in Nat
    <3> DEFINE r0 == 4 * Embed(c) + 2 * Mae(c.md, Embed(c)) + OpLen(c) + DynLen(c)
    <3>1. r0 \in Nat /\ 2 * Embed(c) \in Nat /\ ScaleLen(c) \in Nat
      BY <2>1, SizesType DEF ScaleLen
    <3>2. Common(c) = l0 * r0 + ScaleLen(c) + 2 * Embed(c)
      BY DEF Common
    <3> HIDE DEF r0, l0
    <3>3. l0 * r0 \in Nat
      BY <2>1, <3>1
    <3> QED
      BY <3>1, <3>2, <3>3
  <2> QED
    BY <2>1, <2>2, <2>3
<1> HIDE DEF x
<1>7. \A s, t \in 0 .. 3 : /\ l0 * x(t) \in Nat /\ y[t] \in Nat /\ l0 * (x(s) - x(t)) = y[s] - y[t]
                           /\ x(s) < x(t) => y[s] < y[t]
  <2> SUFFICES ASSUME NEW s \in 0 .. 3, NEW t \in 0 .. 3
               PROVE  /\ l0 * x(t) \in Nat /\ y[t] \in Nat /\ l0 * (x(s) - x(t)) = y[s] - y[t]
                      /\ x(s) < x(t) => y[s] < y[t]
    OBVIOUS
  <2>1. y[s] = Common(c) + l0 * x(s) /\ y[t] = Common(c) + l0 * x(t)
    OBVIOUS
  <2> DEFINE xs == x(s)
             xt == x(t)
             ys == l0 * xs
             yt == l0 * xt
  <2>2. xs \in Nat /\ xt \in Nat
    BY <1>4
  <2> HIDE DEF xs, xt, y, l0
  <2>3. ys \in Nat /\ yt \in Nat /\ l0 * (xs - xt) = ys - yt
    BY <1>6, <2>2
  <2>4. xs < xt => ys < yt
    <3> SUFFICES ASSUME xs < xt PROVE ys < yt
      OBVIOUS
    <3> DEFINE up == xt - xs
    <3>1. up \in Nat /\ up >= 1 /\ xt = xs + up
      BY <2>2
    <3> HIDE DEF up
    <3>2. yt = ys + l0 * up /\ l0 * up \in Nat /\ l0 * up >= 1
      BY <1>6, <2>2, <3>1
    <3> DEFINE ups == l0 * up
    <3>3. yt = ys + ups /\ ups \in Nat /\ ups >= 1
      BY <3>2
    <3> HIDE DEF ups, ys, yt
    <3> QED
      BY <2>3, <3>3
  <2>5. y[s] = Common(c) + ys /\ y[t] = Common(c) + yt
    BY <2>1 DEF xs, xt
  <2>6. l0 * x(t) = yt /\ l0 * (x(s) - x(t)) = ys - yt /\ (x(s) < x(t) => ys < yt)
    BY <2>3, <2>4 DEF xs, xt
  <2>7. ys \in Nat /\ yt \in Nat
    BY <2>3
  <2> HIDE DEF ys, yt
  <2> QED
    BY <1>6, <2>5, <2>6, <2>7
<1>8. PICK t0 \in 0 .. 3 : OdeOf(t0) = c.learnOde /\ AttnOf(t0) = c.learnAttn
  BY <1>1, EveryRank, Zenon
<1>9. n0 = y[t0] + (IF phase THEN b0 ELSE w0) /\ n0 \in Nat
  <2>1. Extra(c, c.learnOde, c.learnAttn) = x(t0) /\ x(t0) \in Nat
    BY <1>4, <1>8 DEF x
  <2>2. n0 = Common(c) + l0 * x(t0) + (IF phase THEN b0 ELSE w0)
    BY <1>1, <2>1, AlikeLength
  <2>3. y[t0] = Common(c) + l0 * x(t0) /\ y[t0] \in Nat
    BY <1>7
  <2> HIDE DEF y, n0, phase
  <2> QED
    BY <1>6, <2>2, <2>3
<1>10. \A k \in 1 .. 16 : /\ RankOf(k) \in 0 .. 3
                          /\ counted(cs[k]) = y[RankOf(k)] + (IF k % 2 = 1 THEN b0 ELSE w0)
                          /\ cs[k].learnOde = OdeOf(RankOf(k)) /\ cs[k].learnAttn = AttnOf(RankOf(k))
                          /\ cs[k].head = IF k % 2 = 1 THEN "phase" ELSE "dense"
  <2> SUFFICES ASSUME NEW k \in 1 .. 16
               PROVE  /\ RankOf(k) \in 0 .. 3
                      /\ counted(cs[k]) = y[RankOf(k)] + (IF k % 2 = 1 THEN b0 ELSE w0)
                      /\ cs[k].learnOde = OdeOf(RankOf(k)) /\ cs[k].learnAttn = AttnOf(RankOf(k))
                      /\ cs[k].head = IF k % 2 = 1 THEN "phase" ELSE "dense"
    OBVIOUS
  <2> DEFINE q == cs[k]
             t == RankOf(k)
             q0 == InitModel(q, 42, wte0, wpe0)
  <2>1. t \in 0 .. 3
    BY DEF RankOf
  <2>2. DimsOk(q) /\ Alike(c, q) /\ q.learnOde = OdeOf(t) /\ q.learnAttn = AttnOf(t)
        /\ q.head = IF k % 2 = 1 THEN "phase" ELSE "dense"
    BY CandidateIs
  <2> HIDE DEF q, t
  <2>3. CountTrainable(q, q0) = ModelLen(q, q0.head)
    BY <2>2, CountIs
  <2> HIDE DEF q0
  <2>4. Extra(c, q.learnOde, q.learnAttn) = x(t) /\ x(t) \in Nat
    BY <1>4, <2>1, <2>2 DEF x
  <2>5. ModelLen(q, q0.head) = Common(c) + l0 * x(t) + (IF k % 2 = 1 THEN b0 ELSE w0)
    <3>1. q.head \in {"phase", "dense"} /\ (q.head = "phase" <=> k % 2 = 1)
      BY <2>2
    <3> QED
      BY <2>2, <2>4, <3>1, AlikeLength
  <2>6. y[t] = Common(c) + l0 * x(t)
    BY <2>1
  <2>7. counted(q) = y[t] + (IF k % 2 = 1 THEN b0 ELSE w0)
    BY <2>3, <2>5, <2>6 DEF q0
  <2> QED
    BY <2>1, <2>2, <2>7 DEF q, t
<1>11. DOMAIN cs = 1 .. 16
  <2>1. 1 \in 1 .. 16
    OBVIOUS
  <2> QED
    BY <2>1, CandidateIs
<1>12. LoadAuto(c, wte0, wpe0, n0) = IF fits = {} THEN <<>> ELSE <<cs[first]>>
  BY DEF LoadAuto
<1>13. SameModel(c, cs[first]) <=> cs[first].learnOde = c.learnOde /\ cs[first].learnAttn = c.learnAttn
                                     /\ cs[first].head = c.head
  BY DEF SameModel
<1>14. Ambiguous(c) <=> phase /\ \E t \in 0 .. 3 : y[t0] - y[t] = w0 - b0
  <2>1. \A t \in 0 .. 3 : Learned(c, OdeOf(t), AttnOf(t)) = x(t)
    BY <1>3, LearnedIs, Zenon DEF x
  <2>2. Learned(c, c.learnOde, c.learnAttn) = x(t0)
    BY <1>8, <2>1
  <2>3. \A ode, attn \in BOOLEAN : \E t \in 0 .. 3 : OdeOf(t) = ode /\ AttnOf(t) = attn
    BY EveryRank
  <2>4. \A t \in 0 .. 3 : l0 * (x(t0) - x(t)) = y[t0] - y[t]
    BY <1>7
  <2> QED
    BY <1>3, <2>1, <2>2, <2>3, <2>4 DEF Ambiguous
<1> HIDE DEF counted, cs, l0, b0, w0, y, n0, phase
<1>15. fits = {k \in 1 .. 16 : y[RankOf(k)] + (IF k % 2 = 1 THEN b0 ELSE w0) = n0}
  BY <1>10, <1>11
<1>16. fits # {} => first \in fits /\ \A j \in fits : first <= j
  BY <1>15, HasFirst
<1> HIDE DEF fits, first
<1>17. /\ fits # {}
       /\ first \in fits =>
            ((RankOf(first) = t0 /\ (first % 2 = 1 <=> phase))
               <=> ~(phase /\ \E t \in 0 .. 3 : y[t0] - y[t] = w0 - b0))
  <2>1. y \in [0 .. 3 -> Nat] /\ y[0] < y[1] /\ y[1] < y[2] /\ y[2] < y[3]
    BY <1>5, <1>7 DEF y
  <2>2. phase \in BOOLEAN
    BY DEF phase
  <2> QED
    <3>1. b0 \in Nat /\ w0 \in Nat /\ b0 < w0 /\ n0 \in Nat /\ n0 = y[t0] + (IF c.head = "phase" THEN b0 ELSE w0) /\ t0 \in 0 .. 3
      BY <1>6, <1>9 DEF phase
    <3>2. fits = Fits(y, b0, w0, n0)
      BY <1>15 DEF Fits
    <3>3. first \in fits => \A j \in fits : first <= j
      BY <1>16
    <3>4. /\ Fits(y, b0, w0, n0) # {}
          /\ first \in Fits(y, b0, w0, n0) =>
               ((RankOf(first) = t0 /\ (first % 2 = 1 <=> c.head = "phase"))
                  <=> ~(c.head = "phase" /\ \E t \in 0 .. 3 : y[t0] - y[t] = w0 - b0))
      <4> DEFINE hd == c.head
      <4>1. n0 = y[t0] + (IF hd = "phase" THEN b0 ELSE w0)
        BY <3>1
      <4> HIDE DEF hd
      <4>2. first \in Fits(y, b0, w0, n0) => \A j \in Fits(y, b0, w0, n0) : first <= j
        BY <3>2, <3>3
      <4>3. Fits(y, b0, w0, n0) # {} /\ (first \in Fits(y, b0, w0, n0) => Decides(y, b0, w0, t0, hd, first))
        BY <2>1, <3>1, <4>1, <4>2, FirstFit
      <4> QED
        BY <4>3 DEF hd, Decides
    <3> QED
      BY <3>2, <3>4 DEF phase
<1>18. first \in 1 .. 16 /\ RankOf(first) \in 0 .. 3
  BY <1>10, <1>15, <1>16, <1>17
<1>19. SameModel(c, cs[first]) <=> RankOf(first) = t0 /\ (first % 2 = 1 <=> phase)
  <2>1. cs[first].learnOde = OdeOf(RankOf(first)) /\ cs[first].learnAttn = AttnOf(RankOf(first))
        /\ cs[first].head = IF first % 2 = 1 THEN "phase" ELSE "dense"
    BY <1>10, <1>18
  <2>2. \A s, t \in 0 .. 3 : OdeOf(s) = OdeOf(t) /\ AttnOf(s) = AttnOf(t) => s = t
    BY DEF OdeOf, AttnOf
  <2>3. (OdeOf(RankOf(first)) = c.learnOde /\ AttnOf(RankOf(first)) = c.learnAttn) <=> RankOf(first) = t0
    BY <1>8, <1>18, <2>2, Zenon
  <2>4. cs[first].head = c.head <=> (first % 2 = 1 <=> phase)
    BY <2>1 DEF phase
  <2> QED
    BY <1>13, <2>1, <2>3, <2>4
<1> DEFINE got == LoadAuto(c, wte0, wpe0, ModelLen(c, h))
<1>20. got = <<cs[first]>>
  BY <1>12, <1>17 DEF n0
<1>21. got # <<>> /\ got[1] = cs[first]
  BY <1>20
<1> HIDE DEF got
<1>22. SameModel(c, cs[first]) <=> ~Ambiguous(c)
  BY <1>14, <1>16, <1>17, <1>19
<1> QED
  BY <1>21, <1>22 DEF got

\* The invariant gives the property: a job's vector is as long as its model.
LEMMA AutoLoadHolds == LayoutIInv => AutoLoadRecovers
<1> SUFFICES ASSUME LayoutIInv, Plain(d) = d, d.head \in {"phase", "dense"}
             PROVE  \E got \in {Loaded} : got # <<>> /\ (SameModel(d, got[1]) <=> ~Ambiguous(d))
  BY DEF AutoLoadRecovers
<1> DEFINE n0 == ModelLen(d, fresh.head)
<1>1. DimsOk(d) /\ DOMAIN d = Fields
  BY ModelPassAssumption DEF LayoutIInv, FreshOk, d
<1>2. CountTrainable(d, fresh) = n0
  BY <1>1, CountIs DEF LayoutIInv, FreshOk
<1>3. n0 \in Nat
  <2>1. /\ d.layers \in Nat /\ BlockLen(d) \in Nat /\ ScaleLen(d) \in Nat /\ 2 * Embed(d) \in Nat
        /\ DecoderLen(d, fresh.head) \in Nat
    BY <1>1, SizesType, DecoderLenType DEF DimsOk, ScaleLen
  <2> DEFINE b1 == d.layers * BlockLen(d)
  <2>2. b1 \in Nat
    BY <2>1
  <2>3. n0 = b1 + ScaleLen(d) + 2 * Embed(d) + DecoderLen(d, fresh.head)
    BY DEF ModelLen
  <2> HIDE DEF b1, n0
  <2> QED
    BY <2>1, <2>2, <2>3
<1> HIDE DEF n0
<1>4. Len(p) = n0
  BY <1>2, <1>3 DEF LayoutIInv
<1>5. LET got == LoadAuto(d, fresh.wte, fresh.wpe, n0)
      IN  got # <<>> /\ (SameModel(d, got[1]) <=> ~Ambiguous(d))
  BY <1>1, LoadAutoIs DEF n0
<1> QED
  BY <1>4, <1>5 DEF Loaded

\* For any dimensions, a file of a model trained without the flags that cannot be
\* tried is taken for some model, and for one with the same learned parts and decoder
\* exactly if it is dense or no dense model of fewer learned parts is as long
\* (wave_model.rs:227-266, count_trainable_ex).
THEOREM AutoLoadRecoversAlways == Spec => []AutoLoadRecovers
BY LayoutIInvAlways, AutoLoadHolds, PTL

-----------------------------------------------------------------------------
(* Whole integrations keep a kind *)

\* Sums over a vector.
LEMMA KindVector ==
  ASSUME NEW S, Kind(S), NEW n0 \in Nat, NEW x \in NumbersOf(S, n0)
  PROVE  Size(x) = n0 /\ Sum0(x) \in S /\ DOMAIN x = 0 .. n0 - 1
<1>1. DOMAIN x = 0 .. n0 - 1 /\ \A k \in 0 .. n0 - 1 : x[k] \in S
  BY DEF NumbersOf
<1>2. Size(x) = n0
  BY <1>1, SizeIs
<1>3. SumTo(n0, x) \in S
  BY <1>1, KindSum
<1> QED
  BY <1>1, <1>2, <1>3 DEF Sum0

\* The dot product of two rows of a kind is of that kind.
LEMMA KindDot ==
  ASSUME NEW S, Kind(S), NEW n0 \in Nat, NEW x \in NumbersOf(S, n0), NEW y \in NumbersOf(S, n0)
  PROVE  Dot(x, y) \in S
<1> DEFINE f == [k \in DOMAIN x |-> x[k] (.) y[k]]
<1>1. Size(x) = n0 /\ DOMAIN x = 0 .. n0 - 1
  BY KindVector
<1>2. \A k \in 0 .. n0 - 1 : x[k] \in S /\ y[k] \in S
  BY DEF NumbersOf
<1>3. \A k \in 0 .. n0 - 1 : f[k] \in S
  BY <1>1, <1>2, KindOps
<1> HIDE DEF f
<1>4. SumTo(n0, f) \in S
  BY <1>3, KindSum
<1> QED
  BY <1>1, <1>4 DEF Dot, f

\* The time step has no direction.
LEMMA StepType ==
  ASSUME NEW S, Kind(S), NEW w0, w0.steps \in Nat
  PROVE  StepOf(w0) \in S
<1>1. w0.steps \in Int
  OBVIOUS
<1>2. Con(w0.steps) \in S
  BY <1>1, KindConstants
<1> QED
  BY <1>2, KindQuotient DEF StepOf

\* t is the table of a whole joint integration: state k is the step from state k
\* - 1.
OdeRunOn(t, n0, w0, g0, dt0, z0) ==
  t = [k \in 0 .. w0.steps |->
        IF k = 0 THEN [z |-> z0, at |-> <<>>, ks |-> <<>>]
        ELSE [z  |-> Table(Rk4Step(w0, dt0, Table(t[k - 1]).z, Stages(n0, w0, g0, dt0, Table(t[k - 1]).z))),
              at |-> Append(Table(t[k - 1]).at, Table(t[k - 1]).z),
              ks |-> Append(Table(t[k - 1]).ks, Stages(n0, w0, g0, dt0, Table(t[k - 1]).z))]]

\* The joint integration (ode_ops, kerr_ode_forward) keeps a row's kind, when
\* the weights are of that kind.
LEMMA OdeForwardType ==
  ASSUME NEW S, Kind(S), NEW n0 \in Nat, NEW z0 \in RowsOf(S, n0), NEW w0, WeightsOf(S, w0, n0), w0.steps \in Nat
  PROVE  OdeForward(w0, z0).z \in RowsOf(S, n0)
<1> DEFINE R == RowsOf(S, n0)
           U == [z : R, at : Seq(R), ks : Seq(Seq(R))]
           g0 == Gamma(w0)
           dt0 == StepOf(w0)
           start == [z |-> z0, at |-> <<>>, ks |-> <<>>]
           slopes(u) == Stages(n0, w0, g0, dt0, u.z)
           next(u) == [z |-> Rk4Step(w0, dt0, u.z, slopes(u)), at |-> Append(u.at, u.z), ks |-> Append(u.ks, slopes(u))]
           step == [k \in 1 .. w0.steps |-> [u \in U |-> next(u)]]
<1>1. g0 \in NumbersOf(S, n0) /\ dt0 \in S
  BY GammaType, StepType
<1>2. DOMAIN z0 = 0 .. n0 - 1
  BY DEF RowsOf
<1>3. Size(z0) = n0
  BY <1>2, SizeIs
<1>4. OdeForward(w0, z0) = (CHOOSE t : OdeRunOn(t, n0, w0, g0, dt0, z0))[w0.steps]
  <2>1. OdeForward(w0, z0)
          = Table((CHOOSE t : OdeRunOn(t, Size(z0), w0, Table(Gamma(w0)), StepOf(w0), z0))[w0.steps])
    BY DEF OdeForward, OdeRunOn, Given
  <2>2. Table(Gamma(w0)) = g0
    BY TableIs
  <2> HIDE DEF g0, dt0
  <2>3. Table((CHOOSE t : OdeRunOn(t, n0, w0, g0, dt0, z0))[w0.steps]) = (CHOOSE t : OdeRunOn(t, n0, w0, g0, dt0, z0))[w0.steps]
    BY TableIs
  <2> QED
    BY <1>3, <2>1, <2>2, <2>3 DEF dt0
<1> HIDE DEF g0, dt0
<1>5. ASSUME NEW u \in U PROVE next(u) \in U
  <2>1. u.z \in R /\ u.at \in Seq(R) /\ u.ks \in Seq(Seq(R))
    OBVIOUS
  <2>2. slopes(u) \in Seq(R) /\ \A k \in 1 .. 4 : slopes(u)[k] \in R
    BY <1>1, <2>1, StagesType
  <2> HIDE DEF slopes
  <2>3. Rk4Step(w0, dt0, u.z, slopes(u)) \in R
    BY <1>1, <2>1, <2>2, Rk4StepType
  <2> HIDE DEF R
  <2>4. Append(u.at, u.z) \in Seq(R) /\ Append(u.ks, slopes(u)) \in Seq(Seq(R))
    BY <2>1, <2>2, AppendProperties
  <2> QED
    BY <2>3, <2>4
<1>6. start \in U
  <2> HIDE DEF R
  <2>1. <<>> \in Seq(R) /\ <<>> \in Seq(Seq(R))
    OBVIOUS
  <2> QED
    BY <2>1 DEF R
<1>7. \A t : OdeRunOn(t, n0, w0, g0, dt0, z0) <=> t = [k \in 0 .. w0.steps |-> IF k = 0 THEN start ELSE next(t[k - 1])]
  BY TableIs DEF OdeRunOn
<1> HIDE DEF U, start, next
<1>8. step \in [1 .. w0.steps -> [U -> U]]
  BY <1>5
<1>9. PICK g \in [0 .. w0.steps -> U] : Follows(g, w0.steps, start, step)
  <2> HIDE DEF step
  <2> QED
    BY <1>6, <1>8, Iteration
<1>10. ASSUME NEW k \in 0 .. w0.steps PROVE g[k] = IF k = 0 THEN start ELSE next(g[k - 1])
  <2>1. CASE k = 0
    BY <1>9, <2>1 DEF Follows
  <2>2. CASE k # 0
    <3>1. k \in 1 .. w0.steps /\ k - 1 \in 0 .. w0.steps
      BY <2>2
    <3>2. g[k - 1] \in U /\ g[k] = step[k][g[k - 1]]
      BY <1>9, <3>1 DEF Follows
    <3> QED
      BY <2>2, <3>1, <3>2
  <2> QED
    BY <2>1, <2>2
<1>11. OdeRunOn(g, n0, w0, g0, dt0, z0)
  BY <1>7, <1>9, <1>10
<1> DEFINE t == CHOOSE t : OdeRunOn(t, n0, w0, g0, dt0, z0)
<1>12. OdeRunOn(t, n0, w0, g0, dt0, z0)
  BY <1>11
<1> HIDE DEF t
<1>13. t = [k \in 0 .. w0.steps |-> IF k = 0 THEN start ELSE next(t[k - 1])]
  BY <1>7, <1>12
<1> DEFINE T == {k \in 0 .. w0.steps : t[k] \in U}
<1>14. 0 \in T
  BY <1>6, <1>13
<1>15. ASSUME NEW k \in 1 .. w0.steps, k - 1 \in T PROVE k \in T
  <2>1. k \in 0 .. w0.steps /\ k # 0
    OBVIOUS
  <2>2. t[k] = next(t[k - 1])
    BY <1>13, <2>1
  <2>3. t[k - 1] \in U
    BY <1>15
  <2> QED
    BY <1>5, <2>1, <2>2, <2>3
<1> HIDE DEF T
<1>16. w0.steps \in T
  <2>1. \A k \in 0 .. w0.steps : k \in T
    BY <1>14, <1>15, Ascent
  <2> QED
    BY <2>1
<1>17. t[w0.steps] \in U
  BY <1>16 DEF T
<1>18. t[w0.steps].z \in R
  BY <1>17 DEF U
<1> QED
  BY <1>4, <1>18 DEF t

\* The sums step k works with, and what it makes of a state u.
FrozenAt(n0, w0, k, u) == IF k - 1 \in {0, StepsA(w0)} THEN Freeze(n0, u.z) ELSE u.ns[k - 1]
\* The state after a split step: each band on its own, against the sums frozen
\* for that step.
SplitNext(n0, w0, g0, dt0, k, u) ==
  [z  |-> [k0 \in 0 .. n0 - 1 |-> Rk4StepBand(w0, g0, dt0, k0, FrozenAt(n0, w0, k, u)[k0], u.z[k0])],
   at |-> Append(u.at, u.z), ns |-> Append(u.ns, FrozenAt(n0, w0, k, u))]

\* t is the table of a whole split-band integration.
SplitRunOn(t, n0, w0, g0, dt0, z0) ==
  t = [k \in 0 .. w0.steps |->
        IF k = 0 THEN [z |-> z0, at |-> <<>>, ns |-> <<>>]
        ELSE [z  |-> Table([k0 \in DOMAIN z0 |->
                       Rk4StepBand(w0, g0, dt0, k0,
                         Table(IF k - 1 \in {0, StepsA(w0)} THEN Freeze(n0, Table(t[k - 1]).z)
                               ELSE Table(t[k - 1]).ns[k - 1])[k0],
                         Table(t[k - 1]).z[k0])]),
              at |-> Append(Table(t[k - 1]).at, Table(t[k - 1]).z),
              ns |-> Append(Table(t[k - 1]).ns,
                       Table(IF k - 1 \in {0, StepsA(w0)} THEN Freeze(n0, Table(t[k - 1]).z)
                             ELSE Table(t[k - 1]).ns[k - 1]))]]

\* A split step keeps the kind of the states and adds one row of frozen sums, of
\* that kind.
LEMMA SplitNextType ==
  ASSUME NEW S, Kind(S), NEW n0 \in Nat, NEW w0, WeightsOf(S, w0, n0), NEW g0 \in NumbersOf(S, n0), NEW dt0 \in S,
         NEW k \in Nat \ {0}, NEW u \in [z : RowsOf(S, n0), at : Seq(RowsOf(S, n0)), ns : Seq(NumbersOf(S, n0))],
         Len(u.ns) = k - 1
  PROVE  /\ SplitNext(n0, w0, g0, dt0, k, u)
              \in [z : RowsOf(S, n0), at : Seq(RowsOf(S, n0)), ns : Seq(NumbersOf(S, n0))]
         /\ Len(SplitNext(n0, w0, g0, dt0, k, u).ns) = k
<1> DEFINE R == RowsOf(S, n0)
           N == NumbersOf(S, n0)
           f == FrozenAt(n0, w0, k, u)
           row == [k0 \in 0 .. n0 - 1 |-> Rk4StepBand(w0, g0, dt0, k0, f[k0], u.z[k0])]
<1>1. u.z \in R /\ u.at \in Seq(R) /\ u.ns \in Seq(N)
  OBVIOUS
<1>2. f \in N
  <2>1. CASE k - 1 \in {0, StepsA(w0)}
    BY <1>1, <2>1, FreezeType DEF FrozenAt
  <2>2. CASE k - 1 \notin {0, StepsA(w0)}
    <3>1. k - 1 \in 1 .. Len(u.ns)
      BY <2>2
    <3>2. u.ns[k - 1] \in N
      BY <1>1, <3>1, ElementOfSeq
    <3> QED
      BY <2>2, <3>2 DEF FrozenAt
  <2> QED
    BY <2>1, <2>2
<1> HIDE DEF f
<1>3. \A k0 \in 0 .. n0 - 1 : f[k0] \in S /\ u.z[k0] \in PairsOf(S)
  BY <1>1, <1>2 DEF RowsOf, NumbersOf
<1>4. \A k0 \in 0 .. n0 - 1 : Rk4StepBand(w0, g0, dt0, k0, f[k0], u.z[k0]) \in PairsOf(S)
  BY <1>3, BandStepType
<1>5. row \in R
  BY <1>4 DEF RowsOf
<1>6. SplitNext(n0, w0, g0, dt0, k, u) = [z |-> row, at |-> Append(u.at, u.z), ns |-> Append(u.ns, f)]
  BY DEF SplitNext, f
<1> HIDE DEF R, N, row
<1>7. Append(u.at, u.z) \in Seq(R) /\ Append(u.ns, f) \in Seq(N) /\ Len(Append(u.ns, f)) = Len(u.ns) + 1
  BY <1>1, <1>2, AppendProperties
<1>8. (k - 1) + 1 = k
  OBVIOUS
<1> QED
  BY <1>5, <1>6, <1>7, <1>8 DEF R, N

\* The split-band integration keeps a row's kind, when the weights are of that
\* kind.
LEMMA SplitForwardType ==
  ASSUME NEW S, Kind(S), NEW n0 \in Nat, NEW z0 \in RowsOf(S, n0), NEW w0, WeightsOf(S, w0, n0), w0.steps \in Nat
  PROVE  SplitBandForward(w0, z0).z \in RowsOf(S, n0)
<1> DEFINE R == RowsOf(S, n0)
           U == [z : R, at : Seq(R), ns : Seq(NumbersOf(S, n0))]
           g0 == Gamma(w0)
           dt0 == StepOf(w0)
           start == [z |-> z0, at |-> <<>>, ns |-> <<>>]
           next(k, u) == SplitNext(n0, w0, g0, dt0, k, u)
           step == [k \in 1 .. w0.steps |-> [u \in U |-> IF Len(u.ns) = k - 1 THEN next(k, u) ELSE start]]
<1>1. g0 \in NumbersOf(S, n0) /\ dt0 \in S
  BY GammaType, StepType
<1>2. DOMAIN z0 = 0 .. n0 - 1
  BY DEF RowsOf
<1>3. Size(z0) = n0
  BY <1>2, SizeIs
<1>4. SplitBandForward(w0, z0) = (CHOOSE t : SplitRunOn(t, n0, w0, g0, dt0, z0))[w0.steps]
  <2>1. SplitBandForward(w0, z0)
          = Table((CHOOSE t : SplitRunOn(t, Size(z0), w0, Table(Gamma(w0)), StepOf(w0), z0))[w0.steps])
    BY DEF SplitBandForward, SplitRunOn, Given
  <2>2. Table(Gamma(w0)) = g0
    BY TableIs
  <2> HIDE DEF g0, dt0
  <2>3. Table((CHOOSE t : SplitRunOn(t, n0, w0, g0, dt0, z0))[w0.steps])
          = (CHOOSE t : SplitRunOn(t, n0, w0, g0, dt0, z0))[w0.steps]
    BY TableIs
  <2> QED
    BY <1>3, <2>1, <2>2, <2>3 DEF dt0
<1> HIDE DEF g0, dt0
<1>5. ASSUME NEW k \in 1 .. w0.steps, NEW u \in U, Len(u.ns) = k - 1 PROVE next(k, u) \in U /\ Len(next(k, u).ns) = k
  <2>1. k \in Nat \ {0}
    OBVIOUS
  <2> QED
    BY <1>1, <1>5, <2>1, SplitNextType
<1>6. start \in U /\ Len(start.ns) = 0
  <2> DEFINE N == NumbersOf(S, n0)
  <2> HIDE DEF R, N
  <2>1. <<>> \in Seq(R) /\ <<>> \in Seq(N) /\ Len(<<>>) = 0
    OBVIOUS
  <2> QED
    BY <2>1 DEF R, N
<1>7. \A t : SplitRunOn(t, n0, w0, g0, dt0, z0) <=> t = [k \in 0 .. w0.steps |-> IF k = 0 THEN start ELSE next(k, t[k - 1])]
  <2> TAKE t
  <2> DEFINE before(k) == Table(t[k - 1])
             froze(k) == Table(IF k - 1 \in {0, StepsA(w0)} THEN Freeze(n0, before(k).z) ELSE before(k).ns[k - 1])
             row(k) == [k0 \in DOMAIN z0 |-> Rk4StepBand(w0, g0, dt0, k0, froze(k)[k0], before(k).z[k0])]
             body(k) == [z |-> Table(row(k)), at |-> Append(before(k).at, before(k).z), ns |-> Append(before(k).ns, froze(k))]
  <2>1. SplitRunOn(t, n0, w0, g0, dt0, z0) <=> t = [k \in 0 .. w0.steps |-> IF k = 0 THEN start ELSE body(k)]
    BY DEF SplitRunOn
  <2>2. ASSUME NEW k \in 0 .. w0.steps PROVE body(k) = next(k, t[k - 1])
    <3>1. before(k) = t[k - 1]
      BY TableIs
    <3> HIDE DEF before
    <3>2. froze(k) = FrozenAt(n0, w0, k, t[k - 1])
      <4>1. froze(k) = IF k - 1 \in {0, StepsA(w0)} THEN Freeze(n0, before(k).z) ELSE before(k).ns[k - 1]
        BY TableIs
      <4> QED
        BY <3>1, <4>1 DEF FrozenAt
    <3> HIDE DEF froze
    <3>3. Table(row(k)) = row(k)
      BY TableIs
    <3>4. row(k) = [k0 \in 0 .. n0 - 1 |-> Rk4StepBand(w0, g0, dt0, k0, FrozenAt(n0, w0, k, t[k - 1])[k0], t[k - 1].z[k0])]
      BY <1>2, <3>1, <3>2
    <3> HIDE DEF row
    <3> QED
      BY <3>1, <3>2, <3>3, <3>4 DEF SplitNext
  <2> HIDE DEF body, next, start
  <2> QED
    BY <2>1, <2>2
<1> HIDE DEF U, start, next
<1>8. step \in [1 .. w0.steps -> [U -> U]]
  BY <1>5, <1>6
<1>9. PICK g \in [0 .. w0.steps -> U] : Follows(g, w0.steps, start, step)
  <2> HIDE DEF step
  <2> QED
    BY <1>6, <1>8, Iteration
<1> DEFINE G == {k \in 0 .. w0.steps : Len(g[k].ns) = k}
<1>10. ASSUME NEW k \in 1 .. w0.steps, Len(g[k - 1].ns) = k - 1 PROVE g[k] = next(k, g[k - 1]) /\ Len(g[k].ns) = k
  <2>1. k - 1 \in 0 .. w0.steps
    OBVIOUS
  <2>2. g[k - 1] \in U /\ g[k] = step[k][g[k - 1]]
    BY <1>9, <2>1 DEF Follows
  <2>3. g[k] = next(k, g[k - 1])
    BY <1>10, <2>2
  <2> QED
    BY <1>5, <1>10, <2>2, <2>3
<1> HIDE DEF step
<1>11. 0 \in G
  BY <1>6, <1>9 DEF Follows
<1>12. ASSUME NEW k \in 1 .. w0.steps, k - 1 \in G PROVE k \in G
  <2>1. Len(g[k - 1].ns) = k - 1 /\ k \in 0 .. w0.steps
    BY <1>12
  <2> QED
    BY <1>10, <2>1
<1> HIDE DEF G
<1>13. \A k \in 0 .. w0.steps : k \in G
  BY <1>11, <1>12, Ascent
<1>14. ASSUME NEW k \in 0 .. w0.steps PROVE g[k] = IF k = 0 THEN start ELSE next(k, g[k - 1])
  <2>1. CASE k = 0
    BY <1>9, <2>1 DEF Follows
  <2>2. CASE k # 0
    <3>1. k \in 1 .. w0.steps /\ k - 1 \in 0 .. w0.steps
      BY <2>2
    <3>2. Len(g[k - 1].ns) = k - 1
      BY <1>13, <3>1 DEF G
    <3> QED
      BY <1>10, <2>2, <3>1, <3>2
  <2> QED
    BY <2>1, <2>2
<1>15. SplitRunOn(g, n0, w0, g0, dt0, z0)
  BY <1>7, <1>9, <1>14
<1> DEFINE t == CHOOSE t : SplitRunOn(t, n0, w0, g0, dt0, z0)
<1>16. SplitRunOn(t, n0, w0, g0, dt0, z0)
  BY <1>15
<1> HIDE DEF t
<1>17. t = [k \in 0 .. w0.steps |-> IF k = 0 THEN start ELSE next(k, t[k - 1])]
  BY <1>7, <1>16
<1> DEFINE T == {k \in 0 .. w0.steps : t[k] \in U /\ Len(t[k].ns) = k}
<1>18. 0 \in T
  BY <1>6, <1>17
<1>19. ASSUME NEW k \in 1 .. w0.steps, k - 1 \in T PROVE k \in T
  <2>1. k \in 0 .. w0.steps /\ k # 0
    OBVIOUS
  <2>2. t[k] = next(k, t[k - 1])
    BY <1>17, <2>1
  <2>3. t[k - 1] \in U /\ Len(t[k - 1].ns) = k - 1
    BY <1>19
  <2> QED
    BY <1>5, <2>1, <2>2, <2>3
<1> HIDE DEF T
<1>20. \A k \in 0 .. w0.steps : k \in T
  BY <1>18, <1>19, Ascent
<1>21. w0.steps \in 0 .. w0.steps
  OBVIOUS
<1>22. t[w0.steps] \in U
  BY <1>20, <1>21 DEF T
<1>23. t[w0.steps].z \in R
  BY <1>22 DEF U
<1> QED
  BY <1>4, <1>23 DEF t

-----------------------------------------------------------------------------
(* Layers of still weights keep a kind *)

\* A linear layer, and a layer norm, whose weights have no direction.
StillLinear(l, r0, c0) == l.w \in [0 .. r0 - 1 -> NumbersOf(Still, c0)] /\ l.b \in NumbersOf(Still, r0)
StillNorm(ln, e0)      == ln.w \in NumbersOf(Still, e0) /\ ln.b \in NumbersOf(Still, e0)

\* What has no direction is of every kind.
LEMMA StillWidens ==
  ASSUME NEW S, Kind(S), NEW n0, NEW x \in NumbersOf(Still, n0)
  PROVE  x \in NumbersOf(S, n0) /\ \A k \in 0 .. n0 - 1 : x[k] \in S
<1>1. Still \subseteq S
  BY KindIs
<1>2. x \in [0 .. n0 - 1 -> Still]
  BY DEF NumbersOf
<1> QED
  BY <1>1, <1>2 DEF NumbersOf

\* Sums and multiples of rows of a kind are of that kind.
LEMMA VectorOps ==
  ASSUME NEW S, Kind(S), NEW n0 \in Nat, NEW x \in NumbersOf(S, n0), NEW y \in NumbersOf(S, n0), NEW a \in S
  PROVE  VAdd(x, y) \in NumbersOf(S, n0) /\ VScale(a, x) \in NumbersOf(S, n0)
<1>1. DOMAIN x = 0 .. n0 - 1 /\ \A k \in 0 .. n0 - 1 : x[k] \in S /\ y[k] \in S
  BY DEF NumbersOf
<1>2. \A k \in 0 .. n0 - 1 : x[k] (+) y[k] \in S /\ a (.) x[k] \in S
  BY <1>1, KindOps
<1> QED
  BY <1>1, <1>2 DEF VAdd, VScale, NumbersOf

\* A linear layer of still weights keeps a row's kind.
LEMMA LinearType ==
  ASSUME NEW S, Kind(S), NEW r0 \in Nat, NEW c0 \in Nat, NEW l, StillLinear(l, r0, c0), NEW x \in NumbersOf(S, c0)
  PROVE  LinearFn(l, x) \in NumbersOf(S, r0)
<1>1. DOMAIN l.w = 0 .. r0 - 1 /\ l.b \in NumbersOf(Still, r0)
  BY DEF StillLinear
<1>2. ASSUME NEW k \in 0 .. r0 - 1 PROVE Dot(l.w[k], x) (+) l.b[k] \in S
  <2>1. l.w[k] \in NumbersOf(Still, c0)
    BY DEF StillLinear
  <2>2. l.w[k] \in NumbersOf(S, c0) /\ l.b[k] \in S
    BY <1>1, <2>1, StillWidens
  <2>3. Dot(l.w[k], x) \in S
    BY <2>2, KindDot
  <2> QED
    BY <2>2, <2>3, KindOps
<1>3. LinearFn(l, x) = [k \in DOMAIN l.w |-> Dot(l.w[k], x) (+) l.b[k]]
  BY TableIs DEF LinearFn
<1> QED
  BY <1>1, <1>2, <1>3 DEF NumbersOf

\* A layer norm of still weights keeps a row's kind.
LEMMA LayerNormType ==
  ASSUME NEW S, Kind(S), NEW n0 \in Nat, NEW ln, StillNorm(ln, n0), NEW x \in NumbersOf(S, n0)
  PROVE  LayerNorm(ln, x) \in NumbersOf(S, n0)
<1> DEFINE c == [k \in DOMAIN x |-> x[k] (-) Mean(x)]
           inv == Recip(Sqrt((Dot(c, c) (/) Con(Size(x))) (+) Con(1)))
<1>1. DOMAIN x = 0 .. n0 - 1 /\ Size(x) = n0 /\ Sum0(x) \in S /\ \A k \in 0 .. n0 - 1 : x[k] \in S
  BY KindVector DEF NumbersOf
<1>2. Con(Size(x)) \in S /\ Con(1) \in S
  <2>1. n0 \in Int /\ 1 \in Int
    OBVIOUS
  <2> QED
    BY <1>1, <2>1, KindConstants
<1>3. Mean(x) \in S
  BY <1>1, <1>2, KindQuotient DEF Mean
<1>4. \A k \in 0 .. n0 - 1 : x[k] (-) Mean(x) \in S
  BY <1>1, <1>3, KindOps
<1>5. c \in NumbersOf(S, n0)
  BY <1>1, <1>4 DEF NumbersOf
<1>6. Table(c) = c
  BY TableIs
<1>7. NormOf(x) = [c |-> Table(c), inv |-> Recip(Sqrt((Dot(Table(c), Table(c)) (/) Con(Size(x))) (+) Con(1)))]
  BY DEF NormOf, Given
<1>8. NormOf(x) = [c |-> c, inv |-> inv]
  <2> HIDE DEF c
  <2> QED
    BY <1>6, <1>7 DEF inv
<1> HIDE DEF c
<1>9. Dot(c, c) \in S
  BY <1>5, KindDot
<1>10. Dot(c, c) (/) Con(Size(x)) \in S
  BY <1>2, <1>9, KindQuotient
<1>11. (Dot(c, c) (/) Con(Size(x))) (+) Con(1) \in S
  BY <1>2, <1>10, KindOps
<1>12. Sqrt((Dot(c, c) (/) Con(Size(x))) (+) Con(1)) \in S
  BY <1>11, KindFunctions
<1>13. inv \in S
  BY <1>12, KindQuotient
<1> HIDE DEF inv
<1>14. LayerNorm(ln, x) = Table([k \in DOMAIN x |-> ((NormOf(x).c[k] (.) NormOf(x).inv) (.) ln.w[k]) (+) ln.b[k]])
  BY DEF LayerNorm, Given
<1>15. LayerNorm(ln, x) = [k \in DOMAIN x |-> ((c[k] (.) inv) (.) ln.w[k]) (+) ln.b[k]]
  BY <1>8, <1>14, TableIs
<1>16. ASSUME NEW k \in 0 .. n0 - 1 PROVE ((c[k] (.) inv) (.) ln.w[k]) (+) ln.b[k] \in S
  <2>1. c[k] \in S
    BY <1>5 DEF NumbersOf
  <2>2. ln.w[k] \in S /\ ln.b[k] \in S
    BY StillWidens DEF StillNorm
  <2>3. c[k] (.) inv \in S
    BY <1>13, <2>1, KindOps
  <2>4. (c[k] (.) inv) (.) ln.w[k] \in S
    BY <2>2, <2>3, KindOps
  <2> QED
    BY <2>2, <2>4, KindOps
<1> QED
  BY <1>1, <1>15, <1>16 DEF NumbersOf

\* The activation keeps a number's kind.
LEMMA GeluType ==
  ASSUME NEW S, Kind(S), NEW x \in S
  PROVE  Gelu(x) \in S
<1>1. GeluC \in S /\ GeluA \in S
  <2>1. 797 \in Int /\ 447 \in Int
    OBVIOUS
  <2> QED
    BY <2>1, KindConstants DEF GeluC, GeluA
<1>2. Sq(x) (.) x \in S
  BY KindOps DEF Sq
<1>3. GeluA (.) (Sq(x) (.) x) \in S
  BY <1>1, <1>2, KindOps
<1>4. x (+) (GeluA (.) (Sq(x) (.) x)) \in S
  BY <1>3, KindOps
<1>5. GeluInner(x) \in S
  BY <1>1, <1>4, KindOps DEF GeluInner
<1>6. Tanh(GeluInner(x)) \in S
  BY <1>5, KindFunctions
<1>7. One (+) Tanh(GeluInner(x)) \in S /\ Half (.) x \in S
  BY <1>6, KindConstants, KindOps
<1> QED
  BY <1>7, KindOps DEF Gelu

-----------------------------------------------------------------------------
(* Bands and channels *)

\* Reading a row of numbers as bands keeps its kind.
LEMMA BandsType ==
  ASSUME NEW S, Kind(S), NEW n0 \in Nat, NEW x \in NumbersOf(S, 2 * n0)
  PROVE  Bands(x) \in RowsOf(S, n0)
<1>1. 2 * n0 \in Nat /\ (2 * n0) \div 2 = n0
  OBVIOUS
<1>2. Size(x) = 2 * n0 /\ x \in [0 .. 2 * n0 - 1 -> S]
  BY <1>1, KindVector DEF NumbersOf
<1>3. Bands(x) = [k \in 0 .. n0 - 1 |-> <<x[2 * k], x[2 * k + 1]>>]
  <2>1. Bands(x) = [k \in 0 .. (Size(x) \div 2) - 1 |-> <<x[2 * k], x[2 * k + 1]>>]
    BY TableIs DEF Bands
  <2>2. Size(x) \div 2 = n0
    BY <1>1, <1>2
  <2> QED
    BY <2>1, <2>2
<1>4. ASSUME NEW k \in 0 .. n0 - 1 PROVE <<x[2 * k], x[2 * k + 1]>> \in PairsOf(S)
  <2>1. 2 * k \in 0 .. 2 * n0 - 1 /\ 2 * k + 1 \in 0 .. 2 * n0 - 1
    OBVIOUS
  <2> QED
    BY <1>2, <2>1 DEF PairsOf
<1> QED
  BY <1>3, <1>4 DEF RowsOf

\* Writing bands as a row of numbers keeps their kind.
LEMMA InterleaveType ==
  ASSUME NEW S, Kind(S), NEW n0 \in Nat, NEW z0 \in RowsOf(S, n0)
  PROVE  Interleave(z0) \in NumbersOf(S, 2 * n0)
<1>1. DOMAIN z0 = 0 .. n0 - 1 /\ \A k \in 0 .. n0 - 1 : z0[k] \in PairsOf(S)
  BY DEF RowsOf
<1>2. Size(z0) = n0
  BY <1>1, SizeIs
<1>3. Interleave(z0) = [k \in 0 .. 2 * n0 - 1 |-> z0[k \div 2][(k % 2) + 1]]
  BY <1>2, TableIs DEF Interleave
<1>4. ASSUME NEW k \in 0 .. 2 * n0 - 1 PROVE z0[k \div 2][(k % 2) + 1] \in S
  <2>1. k \div 2 \in 0 .. n0 - 1 /\ (k % 2) + 1 \in {1, 2}
    OBVIOUS
  <2>2. z0[k \div 2][1] \in S /\ z0[k \div 2][2] \in S
    BY <1>1, <2>1, PairParts
  <2> QED
    BY <2>1, <2>2
<1> QED
  BY <1>3, <1>4 DEF NumbersOf

\* Turning the bands by fixed angles, as the phase plate does, keeps their kind.
LEMMA CorrectType ==
  ASSUME NEW S, Kind(S), NEW n0 \in Nat, NEW angle \in NumbersOf(Still, n0), NEW z0 \in RowsOf(S, n0)
  PROVE  Correct(angle, z0) \in RowsOf(S, n0)
<1>1. DOMAIN z0 = 0 .. n0 - 1 /\ \A k \in 0 .. n0 - 1 : z0[k] \in PairsOf(S)
  BY DEF RowsOf
<1>2. Correct(angle, z0) = [k \in DOMAIN z0 |-> Turn(Cos(angle[k]), Sin(angle[k]), z0[k])]
  BY TableIs DEF Correct
<1>3. ASSUME NEW k \in 0 .. n0 - 1 PROVE Turn(Cos(angle[k]), Sin(angle[k]), z0[k]) \in PairsOf(S)
  <2> DEFINE c == Cos(angle[k])
             s == Sin(angle[k])
  <2>1. z0[k][1] \in S /\ z0[k][2] \in S /\ c \in S /\ s \in S
    BY <1>1, PairParts, StillWidens, KindCircle
  <2> HIDE DEF c, s
  <2>2. z0[k][1] (.) c \in S /\ z0[k][2] (.) s \in S /\ z0[k][1] (.) s \in S /\ z0[k][2] (.) c \in S
    BY <2>1, KindOps
  <2>3. (z0[k][1] (.) c) (-) (z0[k][2] (.) s) \in S /\ (z0[k][1] (.) s) (+) (z0[k][2] (.) c) \in S
    BY <2>2, KindOps
  <2>4. Turn(c, s, z0[k]) \in PairsOf(S)
    BY <2>3 DEF Turn, PairsOf
  <2> QED
    BY <2>4 DEF c, s
<1> QED
  BY <1>1, <1>2, <1>3 DEF RowsOf

\* A block-diagonal projection of g0 groups of gs0, whose weights have no
\* direction.
StillProjection(op, g0, gs0) ==
  /\ DOMAIN op.groups = 0 .. g0 - 1
  /\ \A k \in 0 .. g0 - 1 : StillLinear(op.groups[k], gs0, gs0)
  /\ GroupSize(op) = gs0

\* A block-diagonal projection of still weights keeps a row's kind.
LEMMA OutProjType ==
  ASSUME NEW S, Kind(S), NEW g0 \in Nat, NEW gs0 \in Nat \ {0}, NEW op, StillProjection(op, g0, gs0),
         NEW x \in NumbersOf(S, g0 * gs0)
  PROVE  OutProjForward(op, x) \in NumbersOf(S, g0 * gs0)
<1> DEFINE n0 == g0 * gs0
           of(k) == op.groups[k \div gs0]
           term(k) == [j \in 0 .. gs0 - 1 |-> of(k).w[k % gs0][j] (.) x[gs0 * (k \div gs0) + j]]
           value(k) == SumTo(gs0, term(k)) (+) of(k).b[k % gs0]
<1>1. DOMAIN x = 0 .. n0 - 1 /\ \A k \in 0 .. n0 - 1 : x[k] \in S
  BY DEF NumbersOf
<1>2. GroupSize(op) = gs0
  BY DEF StillProjection
<1>3. OutProjForward(op, x) = [k \in DOMAIN x |-> value(k)]
  BY <1>2, TableIs DEF OutProjForward
<1>4. ASSUME NEW k \in 0 .. n0 - 1 PROVE value(k) \in S
  <2> DEFINE q == k \div gs0
             r == k % gs0
  <2>1. n0 \in Nat /\ k \in Nat /\ k < g0 * gs0
    BY DEF n0
  <2>2. q \in Nat /\ r \in 0 .. gs0 - 1 /\ k = gs0 * q + r
    BY <2>1
  <2> DEFINE l == op.groups[q]
  <2> HIDE DEF q, r
  <2>3. q \in 0 .. g0 - 1
    <3>1. gs0 * q < g0 * gs0
      <4>1. gs0 * q \in Int
        BY <2>2
      <4> QED
        BY <2>1, <2>2, <4>1
    <3>2. g0 * gs0 <= gs0 * q \/ q < g0
      BY <2>2
    <3> QED
      BY <2>2, <3>1, <3>2
  <2>4. gs0 * q + gs0 <= n0
    <3>1. q + 1 <= g0
      BY <2>2, <2>3
    <3>2. gs0 * (q + 1) <= gs0 * g0
      BY <2>2, <3>1
    <3> QED
      BY <2>2, <3>2 DEF n0
  <2>5. StillLinear(l, gs0, gs0)
    BY <2>3 DEF StillProjection
  <2>6. l.w[r] \in NumbersOf(Still, gs0) /\ l.b \in NumbersOf(Still, gs0)
    BY <2>2, <2>5 DEF StillLinear
  <2>7. l.b[r] \in S
    BY <2>2, <2>6, StillWidens
  <2> DEFINE f == [j \in 0 .. gs0 - 1 |-> l.w[r][j] (.) x[gs0 * q + j]]
  <2>8. ASSUME NEW j \in 0 .. gs0 - 1 PROVE f[j] \in S
    <3>1. l.w[r][j] \in S
      BY <2>6, StillWidens
    <3>2. gs0 * q \in Nat
      BY <2>2
    <3>3. gs0 * q + j \in 0 .. n0 - 1
      BY <2>1, <2>4, <3>2
    <3> HIDE DEF n0
    <3>4. l.w[r][j] (.) x[gs0 * q + j] \in S
      BY <1>1, <3>1, <3>3, KindOps
    <3> QED
      BY <3>4
  <2> HIDE DEF f, l
  <2>9. SumTo(gs0, f) \in S
    BY <2>8, KindSum
  <2>10. SumTo(gs0, f) (+) l.b[r] \in S
    BY <2>7, <2>9, KindOps
  <2>11. value(k) = SumTo(gs0, f) (+) l.b[r]
    BY DEF f, l, q, r
  <2> QED
    BY <2>10, <2>11
<1> HIDE DEF value, n0
<1> QED
  <2>1. OutProjForward(op, x) \in NumbersOf(S, n0)
    BY <1>1, <1>3, <1>4 DEF NumbersOf
  <2> QED
    BY <2>1 DEF n0

-----------------------------------------------------------------------------
(* Rows of which only the last has a direction *)

\* What a position may be made of: any number for the last one, numbers without
\* a direction before.
Level(t0, k) == IF k = t0 - 1 THEN Number ELSE Still

\* Only the last of the t0 rows of n0 numbers has a direction.
Leveled(x, t0, n0) == DOMAIN x = 0 .. t0 - 1 /\ \A k \in 0 .. t0 - 1 : x[k] \in NumbersOf(Level(t0, k), n0)

\* Each level is a kind.
LEMMA LevelKind ==
  ASSUME NEW t0, NEW k
  PROVE  Kind(Level(t0, k))
BY DEF Level, Kind

\* The sum of two leveled passages is leveled.
LEMMA AddLeveled ==
  ASSUME NEW t0, NEW n0 \in Nat, NEW x, Leveled(x, t0, n0), NEW y, Leveled(y, t0, n0)
  PROVE  Leveled(AddBatch(x, y), t0, n0)
<1>1. AddBatch(x, y) = [k \in DOMAIN x |-> VAdd(x[k], y[k])]
  BY TableIs DEF AddBatch
<1>2. ASSUME NEW k \in 0 .. t0 - 1 PROVE VAdd(x[k], y[k]) \in NumbersOf(Level(t0, k), n0)
  <2> DEFINE S == Level(t0, k)
  <2>1. Kind(S) /\ x[k] \in NumbersOf(S, n0) /\ y[k] \in NumbersOf(S, n0)
    BY LevelKind DEF Leveled
  <2> HIDE DEF S
  <2>2. Zero \in S
    BY <2>1, KindConstants
  <2>3. VAdd(x[k], y[k]) \in NumbersOf(S, n0)
    BY <2>1, <2>2, VectorOps
  <2> QED
    BY <2>3 DEF S
<1> QED
  BY <1>1, <1>2 DEF Leveled

\* A linear layer, applied to every position.
LinearRows(l, x) == [k \in DOMAIN x |-> LinearFn(l, x[k])]

\* A linear layer of still weights keeps a passage leveled.
LEMMA LinearLeveled ==
  ASSUME NEW t0, NEW r0 \in Nat, NEW c0 \in Nat, NEW l, StillLinear(l, r0, c0), NEW x, Leveled(x, t0, c0)
  PROVE  Leveled(LinearRows(l, x), t0, r0)
<1>1. ASSUME NEW k \in 0 .. t0 - 1 PROVE LinearFn(l, x[k]) \in NumbersOf(Level(t0, k), r0)
  <2> DEFINE S == Level(t0, k)
  <2>1. Kind(S) /\ x[k] \in NumbersOf(S, c0)
    BY LevelKind DEF Leveled
  <2> HIDE DEF S
  <2>2. LinearFn(l, x[k]) \in NumbersOf(S, r0)
    BY <2>1, LinearType
  <2> QED
    BY <2>2 DEF S
<1> QED
  BY <1>1 DEF Leveled, LinearRows

\* A maestro whose weights have no direction.
StillMaestro(q, md0, e0) == StillLinear(q.squeeze, md0, e0) /\ StillLinear(q.process, e0, md0)

\* A maestro of still weights keeps a passage leveled: it looks at each position
\* alone.
LEMMA MaestroLeveled ==
  ASSUME NEW t0, NEW md0 \in Nat, NEW e0 \in Nat, NEW q, StillMaestro(q, md0, e0), NEW x, Leveled(x, t0, e0)
  PROVE  Leveled(MaestroForward(q, x).out, t0, e0)
<1> DEFINE sq == LinearRows(q.squeeze, x)
           act == [k0 \in DOMAIN sq |-> [k \in DOMAIN sq[k0] |-> Gelu(sq[k0][k])]]
<1>1. MaestroForward(q, x).out = LinearRows(q.process, act)
  <2>1. Each(x, LAMBDA v : LinearFn(q.squeeze, v)) = sq
    BY TableIs DEF Each, LinearRows
  <2>2. MaestroForward(q, x).out = Each(Each(sq, LAMBDA v : [k \in DOMAIN v |-> Gelu(v[k])]), LAMBDA v : LinearFn(q.process, v))
    BY <2>1 DEF MaestroForward, Given
  <2> HIDE DEF sq
  <2>3. Each(sq, LAMBDA v : [k \in DOMAIN v |-> Gelu(v[k])]) = act
    BY TableIs DEF Each
  <2> HIDE DEF act
  <2>4. Each(act, LAMBDA v : LinearFn(q.process, v)) = LinearRows(q.process, act)
    BY TableIs DEF Each, LinearRows
  <2> QED
    BY <2>2, <2>3, <2>4
<1>2. Leveled(sq, t0, md0)
  BY LinearLeveled DEF StillMaestro
<1> HIDE DEF sq
<1>4. ASSUME NEW k0 \in 0 .. t0 - 1 PROVE [k \in DOMAIN sq[k0] |-> Gelu(sq[k0][k])] \in NumbersOf(Level(t0, k0), md0)
  <2> DEFINE S == Level(t0, k0)
  <2>1. Kind(S) /\ sq[k0] \in NumbersOf(S, md0)
    BY <1>2, LevelKind DEF Leveled
  <2> HIDE DEF S
  <2>2. DOMAIN sq[k0] = 0 .. md0 - 1 /\ \A k \in 0 .. md0 - 1 : sq[k0][k] \in S
    BY <2>1 DEF NumbersOf
  <2>3. \A k \in 0 .. md0 - 1 : Gelu(sq[k0][k]) \in S
    BY <2>1, <2>2, GeluType
  <2>4. [k \in DOMAIN sq[k0] |-> Gelu(sq[k0][k])] \in NumbersOf(S, md0)
    BY <2>2, <2>3 DEF NumbersOf
  <2> QED
    BY <2>4 DEF S
<1>5. DOMAIN sq = 0 .. t0 - 1
  BY <1>2 DEF Leveled
<1>6. Leveled(act, t0, md0)
  BY <1>4, <1>5 DEF Leveled
<1> HIDE DEF act
<1>7. Leveled(LinearRows(q.process, act), t0, e0)
  BY <1>6, LinearLeveled DEF StillMaestro
<1> QED
  BY <1>1, <1>7

-----------------------------------------------------------------------------
(* The FFN path *)

\* The weights of a block's FFN path have no direction.
StillFfn(c, b) ==
  /\ StillMaestro(b.maestroIn, c.md, Embed(c)) /\ StillMaestro(b.maestroOut, c.md, Embed(c))
  /\ StillProjection(b.outProj, c.groups, GroupOf(c))
  /\ WeightsOf(Still, b.kerr, c.nBands) /\ b.kerr.steps \in Nat
  /\ b.plate \in NumbersOf(Still, c.nBands)

\* The groups of the output projection fill the row exactly, and so do the
\* bands.
LEMMA GroupsFill ==
  ASSUME NEW c, DimsOk(c)
  PROVE  c.groups * GroupOf(c) = Embed(c) /\ Embed(c) = 2 * c.nBands
<1> DEFINE e0 == Embed(c)
           g0 == c.groups
<1>1. e0 \in Nat \ {0} /\ g0 \in Nat \ {0} /\ e0 % g0 = 0
  BY SizesType DEF DimsOk
<1> HIDE DEF e0, g0
<1>2. g0 * (e0 \div g0) = e0
  BY <1>1
<1> QED
  BY <1>2 DEF e0, g0, GroupOf, Embed

\* ODE weights without a direction are weights of every kind.
LEMMA WeightsWiden ==
  ASSUME NEW S, Kind(S), NEW n0, NEW w0, WeightsOf(Still, w0, n0)
  PROVE  WeightsOf(S, w0, n0)
<1>1. Still \subseteq S
  BY KindIs
<1>2. 0 \in 0 .. P - 1 /\ Still # Number
  <2>1. P \in Nat /\ P >= 3
    BY PIsPositive
  <2>2. <<0, 1>> \in Number /\ <<0, 1>> \notin Still
    BY <2>1 DEF Number, Still
  <2> QED
    BY <2>1, <2>2
<1>3. w0.chi[1] = 0
  BY <1>2 DEF WeightsOf
<1>4. w0.omega \in NumbersOf(S, n0) /\ w0.gammaRaw \in NumbersOf(S, n0)
  BY StillWidens DEF WeightsOf
<1>5. w0.alpha \in S /\ w0.beta \in S /\ w0.chi \in S
  BY <1>1 DEF WeightsOf
<1>6. w0.mix \in [0 .. 3 -> S]
  BY <1>1 DEF WeightsOf
<1> QED
  BY <1>3, <1>4, <1>5, <1>6 DEF WeightsOf

\* Either integration the configuration selects keeps a row's kind.
LEMMA IntegrateType ==
  ASSUME NEW S, Kind(S), NEW c, NEW n0 \in Nat, NEW w0, WeightsOf(Still, w0, n0), w0.steps \in Nat, NEW z0 \in RowsOf(S, n0)
  PROVE  Integrate(c, w0, z0).z \in RowsOf(S, n0)
<1>1. WeightsOf(S, w0, n0)
  BY WeightsWiden
<1>2. SplitBandForward(w0, z0).z \in RowsOf(S, n0) /\ OdeForward(w0, z0).z \in RowsOf(S, n0)
  BY <1>1, SplitForwardType, OdeForwardType
<1> QED
  BY <1>2 DEF Integrate

\* The rows that leave the integration and the plate.
Kerrs(c, b, pre) ==
  [k \in DOMAIN pre |->
    Interleave(IF c.corrector THEN Correct(b.plate, Integrate(c, b.kerr, Bands(pre[k])).z)
               ELSE Integrate(c, b.kerr, Bands(pre[k])).z)]

\* The integrations of all the positions, with the phase plate, keep a passage
\* leveled.
LEMMA KerrsLeveled ==
  ASSUME NEW t0, NEW c, DimsOk(c), NEW b, StillFfn(c, b), NEW pre, Leveled(pre, t0, Embed(c))
  PROVE  Leveled(Kerrs(c, b, pre), t0, Embed(c))
<1> DEFINE n0 == c.nBands
<1>1. n0 \in Nat /\ Embed(c) = 2 * n0
  BY GroupsFill DEF DimsOk
<1>2. ASSUME NEW k \in 0 .. t0 - 1 PROVE Kerrs(c, b, pre)[k] \in NumbersOf(Level(t0, k), Embed(c))
  <2> DEFINE S == Level(t0, k)
             z0 == Bands(pre[k])
             z1 == Integrate(c, b.kerr, z0).z
             z2 == IF c.corrector THEN Correct(b.plate, z1) ELSE z1
  <2>1. Kind(S) /\ pre[k] \in NumbersOf(S, 2 * n0) /\ k \in DOMAIN pre
    BY <1>1, LevelKind DEF Leveled
  <2>2. Kerrs(c, b, pre)[k] = Interleave(z2)
    BY <2>1 DEF Kerrs
  <2> HIDE DEF S, n0
  <2>3. z0 \in RowsOf(S, n0)
    BY <1>1, <2>1, BandsType
  <2>4. WeightsOf(Still, b.kerr, n0) /\ b.kerr.steps \in Nat /\ b.plate \in NumbersOf(Still, n0)
    BY DEF StillFfn, n0
  <2> HIDE DEF z0
  <2>5. z1 \in RowsOf(S, n0)
    BY <1>1, <2>1, <2>3, <2>4, IntegrateType
  <2> HIDE DEF z1
  <2>6. z2 \in RowsOf(S, n0)
    BY <1>1, <2>1, <2>4, <2>5, CorrectType
  <2> HIDE DEF z2
  <2>7. Interleave(z2) \in NumbersOf(S, 2 * n0)
    BY <1>1, <2>1, <2>6, InterleaveType
  <2> QED
    BY <1>1, <2>2, <2>7 DEF S
<1>3. DOMAIN Kerrs(c, b, pre) = 0 .. t0 - 1
  BY DEF Kerrs, Leveled
<1> QED
  BY <1>2, <1>3 DEF Leveled

\* The output projection, applied to every position, keeps a passage leveled.
LEMMA ProjectionLeveled ==
  ASSUME NEW t0, NEW c, DimsOk(c), NEW op, StillProjection(op, c.groups, GroupOf(c)), NEW x, Leveled(x, t0, Embed(c))
  PROVE  Leveled([k \in DOMAIN x |-> OutProjForward(op, x[k])], t0, Embed(c))
<1> DEFINE g0 == c.groups
           gs0 == GroupOf(c)
<1>1. g0 \in Nat /\ gs0 \in Nat \ {0} /\ Embed(c) = g0 * gs0
  BY SizesType, GroupsFill DEF DimsOk
<1>2. ASSUME NEW k \in 0 .. t0 - 1 PROVE OutProjForward(op, x[k]) \in NumbersOf(Level(t0, k), Embed(c))
  <2> DEFINE S == Level(t0, k)
  <2>1. Kind(S) /\ x[k] \in NumbersOf(S, g0 * gs0) /\ StillProjection(op, g0, gs0)
    BY <1>1, LevelKind DEF Leveled
  <2> HIDE DEF S, g0, gs0
  <2>2. OutProjForward(op, x[k]) \in NumbersOf(S, g0 * gs0)
    BY <1>1, <2>1, OutProjType
  <2> QED
    BY <1>1, <2>2 DEF S
<1> QED
  BY <1>2 DEF Leveled

\* The FFN path is the projection of its second residual, written with names for
\* its parts.
LEMMA FfnIs ==
  ASSUME NEW c, NEW b, NEW x, NEW pre, NEW kerr, NEW reg,
         pre = AddBatch(x, MaestroForward(b.maestroIn, x).out),
         kerr = Kerrs(c, b, pre),
         reg = AddBatch(kerr, MaestroForward(b.maestroOut, kerr).out)
  PROVE  FfnForward(c, b, x).out = [k \in DOMAIN reg |-> OutProjForward(b.outProj, reg[k])]
<1> DEFINE ode == [k \in DOMAIN pre |-> Integrate(c, b.kerr, Bands(pre[k]))]
<1>1. Each(pre, LAMBDA v : Integrate(c, b.kerr, Bands(v))) = ode
  BY TableIs DEF Each
<1>2. Each(ode, LAMBDA f : Interleave(IF c.corrector THEN Correct(b.plate, f.z) ELSE f.z)) = kerr
  <2>1. Each(ode, LAMBDA f : Interleave(IF c.corrector THEN Correct(b.plate, f.z) ELSE f.z))
          = [k \in DOMAIN ode |-> Interleave(IF c.corrector THEN Correct(b.plate, ode[k].z) ELSE ode[k].z)]
    BY TableIs DEF Each
  <2> QED
    BY <2>1 DEF Kerrs
<1>3. Each(reg, LAMBDA v : OutProjForward(b.outProj, v)) = [k \in DOMAIN reg |-> OutProjForward(b.outProj, reg[k])]
  BY TableIs DEF Each
<1>4. FfnForward(c, b, x).out
        = LET in1 == MaestroForward(b.maestroIn, x)
              ode1 == Each(AddBatch(x, in1.out), LAMBDA v : Integrate(c, b.kerr, Bands(v)))
              kerr1 == Each(ode1, LAMBDA f : Interleave(IF c.corrector THEN Correct(b.plate, f.z) ELSE f.z))
              out1 == MaestroForward(b.maestroOut, kerr1)
          IN  Each(AddBatch(kerr1, out1.out), LAMBDA v : OutProjForward(b.outProj, v))
  BY DEF FfnForward, Given
<1> HIDE DEF ode
<1> QED
  BY <1>1, <1>2, <1>3, <1>4

\* The FFN path keeps a passage leveled.
LEMMA FfnLeveled ==
  ASSUME NEW t0, NEW c, DimsOk(c), NEW b, StillFfn(c, b), NEW x, Leveled(x, t0, Embed(c))
  PROVE  Leveled(FfnForward(c, b, x).out, t0, Embed(c))
<1> DEFINE e0 == Embed(c)
           pre == AddBatch(x, MaestroForward(b.maestroIn, x).out)
           kerr == Kerrs(c, b, pre)
           reg == AddBatch(kerr, MaestroForward(b.maestroOut, kerr).out)
<1>1. e0 \in Nat /\ c.md \in Nat
  BY SizesType DEF DimsOk
<1>2. StillMaestro(b.maestroIn, c.md, e0) /\ StillMaestro(b.maestroOut, c.md, e0)
  BY DEF StillFfn
<1>3. FfnForward(c, b, x).out = [k \in DOMAIN reg |-> OutProjForward(b.outProj, reg[k])]
  BY FfnIs
<1>4. Leveled(pre, t0, Embed(c))
  BY <1>1, <1>2, MaestroLeveled, AddLeveled
<1> HIDE DEF pre
<1>5. Leveled(kerr, t0, Embed(c))
  BY <1>4, KerrsLeveled
<1> HIDE DEF kerr
<1>6. Leveled(reg, t0, Embed(c))
  BY <1>1, <1>2, <1>5, MaestroLeveled, AddLeveled
<1> HIDE DEF reg
<1>7. Leveled([k \in DOMAIN reg |-> OutProjForward(b.outProj, reg[k])], t0, Embed(c))
  BY <1>6, ProjectionLeveled DEF StillFfn
<1> QED
  BY <1>3, <1>7

-----------------------------------------------------------------------------
(* Attention looks back *)

\* A head's phases, contents and values; the scores of what each position sees;
\* the scores divided by their sums; and the values mixed by them.
PhasesOf(h, x) ==
  [k \in 0 .. Size(x) - 1 |-> Atan2(LinearRows(h.phase, x)[k][1], LinearRows(h.phase, x)[k][0])]
ContentOf(h, x) == IF HasContent(h) THEN LinearRows(h.content, x) ELSE <<>>
OwnOf(y, o0, hd0) == [j \in 0 .. hd0 - 1 |-> y[o0 + j]]
ValuesOf(h, x, o0, hd0) == [k \in DOMAIN x |-> LinearFn(h.v, OwnOf(x[k], o0, hd0))]
ScoreOn(h, n1, phases, cv, q, k) ==
  IF Sees(phases, q, k)
  THEN Exp(Cos(n1 (.) (phases[q] (-) phases[k])) (+) (IF HasContent(h) THEN Dot(cv[q], cv[k]) (.) ContentScale(h) ELSE Zero))
  ELSE Zero
Scores(t0, h, n1, phases, cv) == [q \in 0 .. t0 - 1 |-> [k \in 0 .. t0 - 1 |-> ScoreOn(h, n1, phases, cv, q, k)]]
Normed(t0, e) == [q \in 0 .. t0 - 1 |-> [k \in 0 .. t0 - 1 |-> e[q][k] (/) Sum0(e[q])]]
Mixed(t0, hd0, attW, v) ==
  [q \in 0 .. t0 - 1 |-> [j \in 0 .. hd0 - 1 |-> SumTo(t0, [k \in 0 .. t0 - 1 |-> attW[q][k] (.) v[k][j]])]]

\* The attention of a head is its values mixed by its normalised scores.
LEMMA HeadIs ==
  ASSUME NEW h, NEW x, NEW o0, NEW hd0
  PROVE  LET t0 == Size(x) IN HeadForward(h, x, o0, hd0).out
           = Mixed(t0, hd0, Normed(t0, Scores(t0, h, Softplus(h.raw), PhasesOf(h, x), ContentOf(h, x))), ValuesOf(h, x, o0, hd0))
<1> DEFINE t0 == Size(x)
           rs1 == Each(x, LAMBDA v : LinearFn(h.phase, v))
           ph1(rs) == Table([pos \in 0 .. t0 - 1 |-> Atan2(rs[pos][1], rs[pos][0])])
           cv1 == IF HasContent(h) THEN Each(x, LAMBDA v : LinearFn(h.content, v)) ELSE <<>>
           v1 == Each(x, LAMBDA y : LinearFn(h.v, [d0 \in 0 .. hd0 - 1 |-> y[o0 + d0]]))
           e1(n1, phases, cv) ==
             Grid(t0, t0, LAMBDA q, k :
                IF Sees(phases, q, k)
                THEN Exp(Cos(n1 (.) (phases[q] (-) phases[k]))
                         (+) (IF HasContent(h) THEN Dot(cv[q], cv[k]) (.) ContentScale(h) ELSE Zero))
                ELSE Zero)
           w1(e) == Grid(t0, t0, LAMBDA q, k : e[q][k] (/) Sum0(e[q]))
           o1(attW, v) == Grid(t0, hd0, LAMBDA q, d0 : SumTo(t0, [k \in 0 .. t0 - 1 |-> attW[q][k] (.) v[k][d0]]))
<1>1. HeadForward(h, x, o0, hd0).out = o1(w1(e1(Softplus(h.raw), ph1(rs1), cv1)), v1)
  <2> DEFINE whole(r) == [n |-> r.n, phases |-> r.phases, cv |-> r.cv, v |-> r.v, attW |-> w1(e1(r.n, r.phases, r.cv)),
                          out |-> o1(w1(e1(r.n, r.phases, r.cv)), r.v)]
             r1 == [n |-> Softplus(h.raw), phases |-> ph1(rs1), cv |-> cv1, v |-> v1]
  <2>1. HeadForward(h, x, o0, hd0) = whole(r1)
    BY DEF HeadForward, Given
  <2> HIDE DEF e1, w1, o1, rs1, ph1, cv1, v1
  <2>2. r1.n = Softplus(h.raw) /\ r1.phases = ph1(rs1) /\ r1.cv = cv1 /\ r1.v = v1
    OBVIOUS
  <2> HIDE DEF r1
  <2>3. whole(r1).out = o1(w1(e1(r1.n, r1.phases, r1.cv)), r1.v)
    OBVIOUS
  <2> QED
    BY <2>1, <2>2, <2>3
<1>2. rs1 = LinearRows(h.phase, x)
  BY TableIs DEF Each, LinearRows
<1>3. ph1(LinearRows(h.phase, x)) = PhasesOf(h, x)
  BY TableIs DEF PhasesOf
<1>4. cv1 = ContentOf(h, x)
  <2>1. Each(x, LAMBDA v : LinearFn(h.content, v)) = LinearRows(h.content, x)
    BY TableIs DEF Each, LinearRows
  <2> QED
    BY <2>1 DEF ContentOf
<1>5. v1 = ValuesOf(h, x, o0, hd0)
  BY TableIs DEF Each, ValuesOf, OwnOf
<1>6. \A n1, phases, cv : e1(n1, phases, cv) = Scores(t0, h, n1, phases, cv)
  BY TableIs DEF Grid, Scores, ScoreOn
<1>7. \A e : w1(e) = Normed(t0, e)
  BY TableIs DEF Grid, Normed
<1>8. \A attW, v : o1(attW, v) = Mixed(t0, hd0, attW, v)
  BY TableIs DEF Grid, Mixed
<1> HIDE DEF t0, rs1, ph1, cv1, v1, e1, w1, o1
<1> QED
  BY <1>1, <1>2, <1>3, <1>4, <1>5, <1>6, <1>7, <1>8 DEF t0

\* What an earlier position may be made of, a later one may be too.
LEMMA LevelRises ==
  ASSUME NEW t0 \in Nat, NEW q \in 0 .. t0 - 1, NEW k \in 0 .. t0 - 1, k <= q
  PROVE  Level(t0, k) \subseteq Level(t0, q)
<1>1. k = t0 - 1 => q = t0 - 1
  OBVIOUS
<1>2. Still \subseteq Number
  BY KindIs DEF Kind
<1> QED
  BY <1>1, <1>2 DEF Level

\* Zero times a number is zero, whatever the number's direction.
LEMMA ZeroTimes ==
  ASSUME NEW y \in Number
  PROVE  Zero (.) y = Zero
<1>1. y[1] \in Int /\ y[2] \in Int
  BY NumberParts
<1>2. 0 * y[1] = 0 /\ 0 * y[2] = 0
  BY <1>1
<1>3. 0 * y[2] + 0 * y[1] = 0
  BY <1>2
<1>4. Zero (.) y = <<(0 * y[1]) % P, (0 * y[2] + 0 * y[1]) % P>>
  BY DEF Zero, (.)
<1> QED
  BY <1>2, <1>3, <1>4, NothingLeft DEF Zero

\* A position sees no later one (attn.rs masks k > q).
LEMMA SeesBack ==
  ASSUME NEW phases, NEW q, NEW k, Sees(phases, q, k)
  PROVE  k <= q
BY DEF Sees

\* The weights of a head have no direction.
StillHead(c, h) ==
  /\ h.raw \in Still
  /\ StillLinear(h.phase, 2, Embed(c)) /\ StillLinear(h.v, HeadOf(c), HeadOf(c))
  /\ HasContent(h) => StillLinear(h.content, Content(c), Embed(c)) /\ Size(h.content.w) \in Nat

\* One number per row.
LeveledNumbers(f, t0) == \A k \in 0 .. t0 - 1 : f[k] \in Level(t0, k)

\* Row q of a table of t0 by t0 numbers is of q's kind, and empty beyond q.
Triangular(e, t0) ==
  /\ DOMAIN e = 0 .. t0 - 1
  /\ \A q \in 0 .. t0 - 1 : /\ e[q] \in NumbersOf(Level(t0, q), t0)
                            /\ \A k \in 0 .. t0 - 1 : q < k => e[q][k] = Zero

\* The scores of leveled phases are triangular: zero above the diagonal, and of
\* the row's level below.
LEMMA ScoresTriangular ==
  ASSUME NEW t0 \in Nat, NEW cd0 \in Nat, NEW h, NEW n1 \in Still, NEW phases, LeveledNumbers(phases, t0),
         NEW cv, HasContent(h) => Leveled(cv, t0, cd0) /\ Size(h.content.w) \in Nat
  PROVE  Triangular(Scores(t0, h, n1, phases, cv), t0)
<1> DEFINE e == Scores(t0, h, n1, phases, cv)
<1>1. ASSUME NEW q \in 0 .. t0 - 1, NEW k \in 0 .. t0 - 1
      PROVE  /\ ScoreOn(h, n1, phases, cv, q, k) \in Level(t0, q)
             /\ q < k => ScoreOn(h, n1, phases, cv, q, k) = Zero
  <2> DEFINE S == Level(t0, q)
             u == IF HasContent(h) THEN Dot(cv[q], cv[k]) (.) ContentScale(h) ELSE Zero
  <2>1. Kind(S) /\ Zero \in S /\ Still \subseteq S
    BY LevelKind, KindConstants, KindIs
  <2>2. CASE ~Sees(phases, q, k)
    BY <2>1, <2>2 DEF ScoreOn
  <2>3. CASE Sees(phases, q, k)
    <3>1. k <= q
      BY <2>3, SeesBack
    <3>2. Level(t0, k) \subseteq S
      BY <3>1, LevelRises
    <3>3. phases[q] \in S /\ phases[k] \in S /\ n1 \in S
      BY <2>1, <3>2 DEF LeveledNumbers
    <3>4. u \in S
      <4>1. CASE HasContent(h)
        <5>1. cv[q] \in NumbersOf(S, cd0) /\ cv[k] \in NumbersOf(Level(t0, k), cd0)
          BY <4>1 DEF Leveled
        <5> HIDE DEF S
        <5>2. cv[k] \in NumbersOf(S, cd0)
          BY <3>2, <5>1 DEF NumbersOf
        <5>3. Dot(cv[q], cv[k]) \in S
          BY <2>1, <5>1, <5>2, KindDot
        <5>4. Size(h.content.w) + 6 \in Int
          BY <4>1
        <5>5. ContentScale(h) \in S
          BY <2>1, <5>4, KindConstants DEF ContentScale
        <5>6. Dot(cv[q], cv[k]) (.) ContentScale(h) \in S
          BY <2>1, <5>3, <5>5, KindOps
        <5> QED
          BY <4>1, <5>6
      <4>2. CASE ~HasContent(h)
        BY <2>1, <4>2
      <4> QED
        BY <4>1, <4>2
    <3>5. ScoreOn(h, n1, phases, cv, q, k) = Exp(Cos(n1 (.) (phases[q] (-) phases[k])) (+) u)
      BY <2>3 DEF ScoreOn
    <3> HIDE DEF S, u
    <3>6. phases[q] (-) phases[k] \in S
      BY <2>1, <3>3, KindOps
    <3>7. n1 (.) (phases[q] (-) phases[k]) \in S
      BY <2>1, <3>3, <3>6, KindOps
    <3>8. Cos(n1 (.) (phases[q] (-) phases[k])) \in S
      BY <2>1, <3>7, KindCircle
    <3>9. Cos(n1 (.) (phases[q] (-) phases[k])) (+) u \in S
      BY <2>1, <3>4, <3>8, KindOps
    <3>10. Exp(Cos(n1 (.) (phases[q] (-) phases[k])) (+) u) \in S
      BY <2>1, <3>9, KindFunctions
    <3>11. ~(q < k)
      BY <3>1
    <3> QED
      BY <3>5, <3>10, <3>11 DEF S
  <2> QED
    BY <2>2, <2>3
<1> QED
  BY <1>1 DEF Triangular, Scores, NumbersOf

\* Dividing the rows by their sums keeps the scores triangular.
LEMMA NormedTriangular ==
  ASSUME NEW t0 \in Nat, NEW e, Triangular(e, t0)
  PROVE  Triangular(Normed(t0, e), t0)
<1>1. ASSUME NEW q \in 0 .. t0 - 1, NEW k \in 0 .. t0 - 1
      PROVE  e[q][k] (/) Sum0(e[q]) \in Level(t0, q) /\ (q < k => e[q][k] (/) Sum0(e[q]) = Zero)
  <2> DEFINE S == Level(t0, q)
             s == Sum0(e[q])
  <2>1. Kind(S) /\ e[q] \in NumbersOf(S, t0) /\ (q < k => e[q][k] = Zero)
    BY LevelKind DEF Triangular
  <2> HIDE DEF S
  <2>2. s \in S /\ e[q][k] \in S
    BY <2>1, KindVector DEF NumbersOf
  <2> HIDE DEF s
  <2>3. e[q][k] (/) s \in S /\ Recip(s) \in S
    BY <2>1, <2>2, KindQuotient
  <2>4. Recip(s) \in Number
    BY <2>1, <2>3, KindIs
  <2>5. ASSUME q < k PROVE e[q][k] (/) s = Zero
    <3>1. e[q][k] (/) s = Zero (.) Recip(s)
      BY <2>1, <2>5 DEF (/)
    <3> QED
      BY <2>4, <3>1, ZeroTimes
  <2> QED
    BY <2>3, <2>5 DEF S, s
<1> QED
  BY <1>1 DEF Triangular, Normed, NumbersOf

\* Values mixed by triangular scores stay leveled: a later value only meets a
\* score of zero.
LEMMA MixedLeveled ==
  ASSUME NEW t0 \in Nat, NEW hd0 \in Nat, NEW attW, Triangular(attW, t0), NEW v, Leveled(v, t0, hd0)
  PROVE  Leveled(Mixed(t0, hd0, attW, v), t0, hd0)
<1>1. ASSUME NEW q \in 0 .. t0 - 1, NEW j \in 0 .. hd0 - 1
      PROVE  SumTo(t0, [k \in 0 .. t0 - 1 |-> attW[q][k] (.) v[k][j]]) \in Level(t0, q)
  <2> DEFINE S == Level(t0, q)
             f == [k \in 0 .. t0 - 1 |-> attW[q][k] (.) v[k][j]]
  <2>1. Kind(S) /\ Zero \in S /\ S \subseteq Number
    BY LevelKind, KindConstants, KindIs
  <2>2. ASSUME NEW k \in 0 .. t0 - 1 PROVE f[k] \in S
    <3>1. v[k][j] \in Level(t0, k) /\ Level(t0, k) \subseteq Number
      <4>1. v[k] \in NumbersOf(Level(t0, k), hd0)
        BY DEF Leveled
      <4> QED
        BY <4>1, LevelKind, KindIs DEF NumbersOf
    <3>2. attW[q][k] \in S
      BY DEF Triangular, NumbersOf
    <3>3. CASE k <= q
      <4>1. v[k][j] \in S
        BY <3>1, <3>3, LevelRises
      <4> HIDE DEF S
      <4> QED
        BY <2>1, <3>2, <4>1, KindOps
    <3>4. CASE ~(k <= q)
      <4>1. attW[q][k] = Zero
        BY <3>4 DEF Triangular
      <4>2. attW[q][k] (.) v[k][j] = Zero
        BY <3>1, <4>1, ZeroTimes
      <4> QED
        BY <2>1, <4>2
    <3> QED
      BY <3>3, <3>4
  <2> HIDE DEF f, S
  <2>3. SumTo(t0, f) \in S
    BY <2>1, <2>2, KindSum
  <2> QED
    BY <2>3 DEF f, S
<1> QED
  BY <1>1 DEF Leveled, Mixed, NumbersOf

\* A leveled passage has as many positions and columns as it says.
LEMMA LeveledSize ==
  ASSUME NEW t0 \in Nat \ {0}, NEW n0 \in Nat, NEW x, Leveled(x, t0, n0)
  PROVE  Size(x) = t0 /\ DOMAIN x = 0 .. t0 - 1 /\ Size(x[0]) = n0 /\ DOMAIN x[0] = 0 .. n0 - 1
<1>1. DOMAIN x = 0 .. t0 - 1
  BY DEF Leveled
<1>2. t0 \in Nat /\ 0 \in 0 .. t0 - 1
  OBVIOUS
<1>3. Size(x) = t0
  BY <1>1, <1>2, SizeIs
<1>4. x[0] \in NumbersOf(Level(t0, 0), n0)
  BY <1>2 DEF Leveled
<1>5. DOMAIN x[0] = 0 .. n0 - 1
  BY <1>4 DEF NumbersOf
<1>6. Size(x[0]) = n0
  BY <1>5, SizeIs
<1> QED
  BY <1>1, <1>3, <1>5, <1>6

\* The phases of a leveled passage are leveled.
LEMMA PhasesLeveled ==
  ASSUME NEW t0 \in Nat, NEW e0 \in Nat, NEW h, StillLinear(h.phase, 2, e0), NEW x, Leveled(x, t0, e0), Size(x) = t0
  PROVE  LeveledNumbers(PhasesOf(h, x), t0)
<1> DEFINE rs == LinearRows(h.phase, x)
<1>1. Leveled(rs, t0, 2)
  <2>1. \A two \in Nat : StillLinear(h.phase, two, e0) => Leveled(rs, t0, two)
    BY LinearLeveled
  <2>2. 2 \in Nat
    OBVIOUS
  <2> HIDE DEF rs
  <2> QED
    BY <2>1, <2>2
<1> HIDE DEF rs
<1>2. ASSUME NEW k \in 0 .. t0 - 1 PROVE Atan2(rs[k][1], rs[k][0]) \in Level(t0, k)
  <2>1. rs[k] \in NumbersOf(Level(t0, k), 2)
    BY <1>1 DEF Leveled
  <2>2. 0 \in 0 .. 2 - 1 /\ 1 \in 0 .. 2 - 1
    OBVIOUS
  <2>3. rs[k][1] \in Level(t0, k) /\ rs[k][0] \in Level(t0, k)
    BY <2>1, <2>2 DEF NumbersOf
  <2> QED
    BY <2>3, LevelKind, KindAngle
<1>3. PhasesOf(h, x) = [k \in 0 .. t0 - 1 |-> Atan2(rs[k][1], rs[k][0])]
  BY DEF PhasesOf, rs
<1> QED
  BY <1>2, <1>3 DEF LeveledNumbers

\* The values of a leveled passage are leveled.
LEMMA ValuesLeveled ==
  ASSUME NEW t0, NEW e0 \in Nat, NEW hd0 \in Nat, NEW o0 \in Nat, o0 + hd0 <= e0, NEW h, StillLinear(h.v, hd0, hd0),
         NEW x, Leveled(x, t0, e0)
  PROVE  Leveled(ValuesOf(h, x, o0, hd0), t0, hd0)
<1>1. ASSUME NEW k \in 0 .. t0 - 1 PROVE LinearFn(h.v, OwnOf(x[k], o0, hd0)) \in NumbersOf(Level(t0, k), hd0)
  <2> DEFINE S == Level(t0, k)
  <2>1. Kind(S) /\ x[k] \in NumbersOf(S, e0)
    BY LevelKind DEF Leveled
  <2> HIDE DEF S
  <2>2. \A j \in 0 .. hd0 - 1 : o0 + j \in 0 .. e0 - 1
    OBVIOUS
  <2>3. OwnOf(x[k], o0, hd0) \in NumbersOf(S, hd0)
    BY <2>1, <2>2 DEF OwnOf, NumbersOf
  <2>4. LinearFn(h.v, OwnOf(x[k], o0, hd0)) \in NumbersOf(S, hd0)
    BY <2>1, <2>3, LinearType
  <2> QED
    BY <2>4 DEF S
<1> QED
  BY <1>1 DEF Leveled, ValuesOf

\* A head keeps a passage leveled.
LEMMA HeadLeveled ==
  ASSUME NEW t0 \in Nat \ {0}, NEW c, DimsOk(c), NEW h, StillHead(c, h), NEW x, Leveled(x, t0, Embed(c)),
         NEW o0 \in Nat, o0 + HeadOf(c) <= Embed(c)
  PROVE  Leveled(HeadForward(h, x, o0, HeadOf(c)).out, t0, HeadOf(c))
<1> DEFINE e0 == Embed(c)
           hd0 == HeadOf(c)
           cd0 == Content(c)
           n1 == Softplus(h.raw)
           phases == PhasesOf(h, x)
           cv == ContentOf(h, x)
           v == ValuesOf(h, x, o0, hd0)
           e == Scores(t0, h, n1, phases, cv)
           attW == Normed(t0, e)
<1>1. e0 \in Nat /\ hd0 \in Nat /\ cd0 \in Nat /\ t0 \in Nat
  BY SizesType
<1>2. Size(x) = t0
  BY <1>1, LeveledSize
<1>3. HeadForward(h, x, o0, hd0).out = Mixed(t0, hd0, attW, v)
  BY <1>2, HeadIs
<1>4. n1 \in Still
  <2>1. Kind(Still) /\ h.raw \in Still
    BY DEF Kind, StillHead
  <2> QED
    BY <2>1, KindFunctions
<1>5. LeveledNumbers(phases, t0)
  BY <1>1, <1>2, PhasesLeveled DEF StillHead
<1>6. HasContent(h) => Leveled(cv, t0, cd0) /\ Size(h.content.w) \in Nat
  <2> SUFFICES ASSUME HasContent(h) PROVE Leveled(cv, t0, cd0) /\ Size(h.content.w) \in Nat
    OBVIOUS
  <2>1. StillLinear(h.content, cd0, e0) /\ Size(h.content.w) \in Nat /\ cv = LinearRows(h.content, x)
    BY DEF StillHead, ContentOf
  <2>2. Leveled(LinearRows(h.content, x), t0, cd0)
    BY <1>1, <2>1, LinearLeveled
  <2> QED
    BY <2>1, <2>2
<1>7. Leveled(v, t0, hd0)
  <2>1. StillLinear(h.v, hd0, hd0) /\ o0 + hd0 <= e0
    BY DEF StillHead
  <2> HIDE DEF hd0, e0
  <2>2. Leveled(x, t0, e0)
    BY DEF e0
  <2> QED
    BY <1>1, <2>1, <2>2, ValuesLeveled
<1> HIDE DEF n1, phases, cv, v, hd0, cd0
<1>8. Triangular(e, t0)
  BY <1>1, <1>4, <1>5, <1>6, ScoresTriangular
<1> HIDE DEF e
<1>9. Triangular(attW, t0)
  BY <1>1, <1>8, NormedTriangular
<1> HIDE DEF attW
<1>10. Leveled(Mixed(t0, hd0, attW, v), t0, hd0)
  BY <1>1, <1>7, <1>9, MixedLeveled
<1> QED
  BY <1>3, <1>10 DEF hd0

\* The weights of all the heads and of the projection that follows them have no
\* direction.
StillAttn(c, a) ==
  /\ DOMAIN a.heads = 0 .. c.nHead - 1
  /\ \A k \in 0 .. c.nHead - 1 : StillHead(c, a.heads[k])
  /\ StillLinear(a.out, Embed(c), Embed(c))

\* What each head makes of its own columns of the passage.
HeadsOn(a, x, nh0, hd0) == [k \in 0 .. nh0 - 1 |-> HeadForward(a.heads[k], x, k * hd0, hd0)]
\* What the heads leave, side by side; where there is no head, nothing.
Merged(t0, e0, nh0, hd0, hs) ==
  [q \in 0 .. t0 - 1 |-> [j \in 0 .. e0 - 1 |-> IF j < nh0 * hd0 THEN hs[j \div hd0].out[q][j % hd0] ELSE Zero]]

\* The attention of a block is the projection of its heads' results, side by
\* side.
LEMMA AttentionIs ==
  ASSUME NEW a, NEW x
  PROVE  LET nh0 == Size(a.heads)
             hd0 == Size(x[0]) \div nh0
         IN  AttentionForward(a, x).out
               = LinearRows(a.out, Merged(Size(x), Size(x[0]), nh0, hd0, HeadsOn(a, x, nh0, hd0)))
<1> DEFINE nh0 == Size(a.heads)
           hd0 == Size(x[0]) \div nh0
           heads == [k \in 0 .. nh0 - 1 |-> HeadForward(a.heads[k], x, k * hd0, hd0)]
           merged(hs) == Grid(Size(x), Size(x[0]), LAMBDA q, i0 :
                           IF i0 < nh0 * hd0 THEN hs[i0 \div hd0].out[q][i0 % hd0] ELSE Zero)
           project(y) == Each(y, LAMBDA m0 : LinearFn(a.out, m0))
<1>1. AttentionForward(a, x).out = project(merged(Table(heads)))
  BY DEF AttentionForward, Given
<1>2. Table(heads) = heads
  BY TableIs
<1>3. merged(heads) = Merged(Size(x), Size(x[0]), nh0, hd0, heads)
  BY TableIs DEF Grid, Merged
<1>4. \A y : project(y) = LinearRows(a.out, y)
  BY TableIs DEF Each, LinearRows
<1>5. heads = HeadsOn(a, x, nh0, hd0)
  BY DEF HeadsOn
<1> HIDE DEF heads, merged, project
<1> QED
  BY <1>1, <1>2, <1>3, <1>4, <1>5

\* The columns of each head are columns of the row, even where the heads do not
\* fill it.
LEMMA HeadsFit ==
  ASSUME NEW nh0 \in Nat \ {0}, NEW e0 \in Nat, NEW hd0 \in Nat, hd0 = e0 \div nh0
  PROVE  \A k \in 0 .. nh0 - 1 : k * hd0 \in Nat /\ k * hd0 + hd0 <= e0
<1>1. nh0 * hd0 <= e0
  OBVIOUS
<1>2. ASSUME NEW k \in 0 .. nh0 - 1 PROVE k * hd0 \in Nat /\ k * hd0 + hd0 <= e0
  <2>1. k + 1 <= nh0 /\ k \in Nat
    OBVIOUS
  <2>2. (k + 1) * hd0 <= nh0 * hd0
    BY <2>1
  <2>3. (k + 1) * hd0 = k * hd0 + hd0
    BY <2>1
  <2>4. k * hd0 \in Nat
    BY <2>1
  <2> QED
    BY <1>1, <2>2, <2>3, <2>4
<1> QED
  BY <1>2

\* A column under a head has that head for its quotient, and a column of that
\* head for its remainder.
LEMMA QuotientIn ==
  ASSUME NEW j \in Nat, NEW hd0 \in Nat \ {0}, NEW nh0 \in Nat \ {0}, j < nh0 * hd0
  PROVE  j % hd0 \in 0 .. hd0 - 1 /\ j \div hd0 \in 0 .. nh0 - 1
<1> DEFINE u == j \div hd0
           r == j % hd0
<1>1. u \in Int /\ r \in 0 .. hd0 - 1 /\ j = hd0 * u + r
  OBVIOUS
<1> HIDE DEF u, r
<1>2. u >= 0
  <2> SUFFICES ASSUME u <= 0 - 1 PROVE FALSE
    BY <1>1
  <2>1. hd0 * u <= hd0 * (0 - 1)
    BY <1>1
  <2> QED
    BY <1>1, <2>1
<1>3. u <= nh0 - 1
  <2> SUFFICES ASSUME u >= nh0 PROVE FALSE
    BY <1>1
  <2>1. hd0 * u >= hd0 * nh0
    BY <1>1
  <2>2. hd0 * nh0 = nh0 * hd0
    OBVIOUS
  <2> QED
    BY <1>1, <2>1, <2>2
<1> QED
  BY <1>1, <1>2, <1>3 DEF u, r

\* The attention of a block keeps a passage leveled.
LEMMA AttentionLeveled ==
  ASSUME NEW t0 \in Nat \ {0}, NEW c, DimsOk(c), NEW a, StillAttn(c, a), NEW x, Leveled(x, t0, Embed(c))
  PROVE  Leveled(AttentionForward(a, x).out, t0, Embed(c))
<1> DEFINE e0 == Embed(c)
           nh0 == c.nHead
           hd0 == e0 \div nh0
           hs == HeadsOn(a, x, nh0, hd0)
           mm == Merged(t0, e0, nh0, hd0, hs)
<1>1. e0 \in Nat /\ hd0 \in Nat \ {0} /\ nh0 \in Nat \ {0} /\ hd0 = HeadOf(c)
  BY SizesType DEF DimsOk, HeadOf
<1>2. Size(x) = t0 /\ Size(x[0]) = e0
  BY <1>1, LeveledSize
<1>3. Size(a.heads) = nh0
  BY <1>1, SizeIs DEF StillAttn
<1>4. AttentionForward(a, x).out = LinearRows(a.out, mm)
  <2>1. AttentionForward(a, x).out
          = LinearRows(a.out, Merged(Size(x), Size(x[0]), Size(a.heads), Size(x[0]) \div Size(a.heads),
                                     HeadsOn(a, x, Size(a.heads), Size(x[0]) \div Size(a.heads))))
    BY AttentionIs
  <2> HIDE DEF e0, nh0
  <2> QED
    BY <2>1, <1>2, <1>3
<1>5. ASSUME NEW k \in 0 .. nh0 - 1 PROVE Leveled(hs[k].out, t0, hd0)
  <2>1. k * hd0 \in Nat /\ k * hd0 + hd0 <= e0
    <3> HIDE DEF e0, nh0
    <3>1. hd0 = e0 \div nh0 /\ hd0 \in Nat
      BY <1>1
    <3> HIDE DEF hd0
    <3> QED
      BY <1>1, <3>1, HeadsFit
  <2>2. StillHead(c, a.heads[k])
    BY DEF StillAttn
  <2>3. \A o0 \in Nat : o0 + HeadOf(c) <= Embed(c) =>
          Leveled(HeadForward(a.heads[k], x, o0, HeadOf(c)).out, t0, HeadOf(c))
    BY <2>2, HeadLeveled
  <2>4. hs[k] = HeadForward(a.heads[k], x, k * hd0, hd0)
    BY DEF HeadsOn
  <2>5. k * HeadOf(c) \in Nat /\ k * HeadOf(c) + HeadOf(c) <= Embed(c)
    BY <1>1, <2>1
  <2> HIDE DEF hd0, hs, e0
  <2>6. Leveled(HeadForward(a.heads[k], x, k * HeadOf(c), HeadOf(c)).out, t0, HeadOf(c))
    BY <2>3, <2>5
  <2> QED
    BY <1>1, <2>4, <2>6
<1>6. Leveled(mm, t0, e0)
  <2>1. ASSUME NEW q \in 0 .. t0 - 1, NEW j \in 0 .. e0 - 1
        PROVE  (IF j < nh0 * hd0 THEN hs[j \div hd0].out[q][j % hd0] ELSE Zero) \in Level(t0, q)
    <3>1. Zero \in Level(t0, q)
      BY LevelKind, KindConstants
    <3>2. CASE j < nh0 * hd0
      <4> HIDE DEF e0, nh0, hs, hd0
      <4>1. j \in Nat /\ hd0 \in Nat \ {0} /\ nh0 \in Nat \ {0}
        BY <1>1
      <4>2. j % hd0 \in 0 .. hd0 - 1 /\ j \div hd0 \in 0 .. nh0 - 1
        BY <3>2, <4>1, QuotientIn
      <4>3. Leveled(hs[j \div hd0].out, t0, hd0)
        BY <4>2, <1>5
      <4>4. hs[j \div hd0].out[q] \in NumbersOf(Level(t0, q), hd0)
        BY <4>3 DEF Leveled
      <4>5. hs[j \div hd0].out[q][j % hd0] \in Level(t0, q)
        BY <4>2, <4>4 DEF NumbersOf
      <4> QED
        BY <3>2, <4>5
    <3> QED
      BY <3>1, <3>2
  <2> HIDE DEF e0, nh0, hd0, hs
  <2> QED
    BY <2>1 DEF Leveled, NumbersOf, Merged
<1>7. StillLinear(a.out, e0, e0)
  BY DEF StillAttn
<1> HIDE DEF e0, mm
<1> QED
  BY <1>1, <1>4, <1>6, <1>7, LinearLeveled DEF e0

\* A layer norm, and a scale, applied to every position.
NormRows(ln, x) == Each(x, LAMBDA h : LayerNorm(ln, h))
ScaleRows(a, x) == Each(x, LAMBDA v : VScale(a, v))

\* A layer norm of still weights, applied to every position, keeps a passage
\* leveled.
LEMMA NormLeveled ==
  ASSUME NEW t0, NEW e0 \in Nat, NEW ln, StillNorm(ln, e0), NEW x, Leveled(x, t0, e0)
  PROVE  Leveled(NormRows(ln, x), t0, e0)
<1> DEFINE y == NormRows(ln, x)
<1>1. y = [k \in DOMAIN x |-> LayerNorm(ln, x[k])]
  BY TableIs DEF Each, NormRows, ScaleRows
<1>2. ASSUME NEW k \in 0 .. t0 - 1 PROVE LayerNorm(ln, x[k]) \in NumbersOf(Level(t0, k), e0)
  <2>1. Kind(Level(t0, k)) /\ x[k] \in NumbersOf(Level(t0, k), e0)
    BY LevelKind DEF Leveled
  <2> QED
    BY <2>1, LayerNormType
<1> HIDE DEF y
<1>3. DOMAIN x = 0 .. t0 - 1
  BY DEF Leveled
<1>4. Leveled(y, t0, e0)
  BY <1>1, <1>2, <1>3 DEF Leveled
<1> QED
  BY <1>4 DEF y

\* A still scale, applied to every position, keeps a passage leveled.
LEMMA ScaleLeveled ==
  ASSUME NEW t0, NEW e0 \in Nat, NEW a \in Still, NEW x, Leveled(x, t0, e0)
  PROVE  Leveled(ScaleRows(a, x), t0, e0)
<1> DEFINE y == ScaleRows(a, x)
<1>1. y = [k \in DOMAIN x |-> VScale(a, x[k])]
  BY TableIs DEF Each, NormRows, ScaleRows
<1>2. ASSUME NEW k \in 0 .. t0 - 1 PROVE VScale(a, x[k]) \in NumbersOf(Level(t0, k), e0)
  <2>1. Kind(Level(t0, k)) /\ x[k] \in NumbersOf(Level(t0, k), e0) /\ a \in Level(t0, k)
    BY LevelKind, KindIs DEF Leveled
  <2> QED
    BY <2>1, VectorOps
<1> HIDE DEF y
<1>3. DOMAIN x = 0 .. t0 - 1
  BY DEF Leveled
<1>4. Leveled(y, t0, e0)
  BY <1>1, <1>2, <1>3 DEF Leveled
<1> QED
  BY <1>4 DEF y

\* The weights of a block, and of all the blocks of a model with its last norm,
\* have no direction.
StillBlock(c, b) == StillFfn(c, b) /\ StillAttn(c, b.attn) /\ StillNorm(b.ln, Embed(c))
StillModel(c, q) ==
  /\ \A k \in 0 .. c.layers - 1 : StillBlock(c, q.blocks[k])
  /\ c.layerScale => \A k \in 0 .. c.layers - 1 : q.scale[k] \in Still
  /\ StillNorm(q.lnF, Embed(c))

\* A block adds to its input the scaled sum of its attention and its FFN path.
LEMMA BlockIs ==
  ASSUME NEW c, NEW q, NEW k, NEW x
  PROVE  LET b == q.blocks[k]
             y == NormRows(b.ln, x)
         IN  BlockForward(c, q, k, x).out
               = AddBatch(x, ScaleRows(Scale(c, q, k), AddBatch(AttentionForward(b.attn, y).out, FfnForward(c, b, y).out)))
<1> DEFINE b == q.blocks[k]
           y == NormRows(b.ln, x)
           attn == AttentionForward(b.attn, y)
           ffn == FfnForward(c, b, y)
           both == AddBatch(attn.out, ffn.out)
           out == AddBatch(x, ScaleRows(Scale(c, q, k), both))
<1>1. BlockForward(c, q, k, x) = [input |-> x, normed |-> y, ffn |-> ffn, attn |-> attn, both |-> both, out |-> out]
  BY DEF BlockForward, Given, NormRows, ScaleRows
<1> HIDE DEF y, attn, ffn, both, out
<1>2. BlockForward(c, q, k, x).out = out
  BY <1>1
<1> QED
  BY <1>2 DEF y, attn, ffn, both, out

\* A block keeps a passage leveled.
LEMMA BlockLeveled ==
  ASSUME NEW t0 \in Nat \ {0}, NEW c, DimsOk(c), NEW q, StillModel(c, q), NEW k \in 0 .. c.layers - 1,
         NEW x, Leveled(x, t0, Embed(c))
  PROVE  Leveled(BlockForward(c, q, k, x).out, t0, Embed(c))
<1> DEFINE b == q.blocks[k]
           e0 == Embed(c)
           a == Scale(c, q, k)
           y == NormRows(b.ln, x)
           u == AttentionForward(b.attn, y).out
           f == FfnForward(c, b, y).out
           both == AddBatch(u, f)
           s == ScaleRows(a, both)
<1>1. BlockForward(c, q, k, x).out = AddBatch(x, s)
  BY BlockIs
<1>2. e0 \in Nat
  BY SizesType
<1>3. StillFfn(c, b) /\ StillAttn(c, b.attn) /\ StillNorm(b.ln, e0)
  BY DEF StillModel, StillBlock
<1>4. a \in Still
  <2>1. One \in Still
    BY KindConstants DEF Kind
  <2> QED
    BY <2>1 DEF StillModel, Scale
<1> HIDE DEF a, b
<1>5. Leveled(y, t0, e0)
  BY <1>2, <1>3, NormLeveled
<1> HIDE DEF y
<1>6. Leveled(u, t0, e0) /\ Leveled(f, t0, e0)
  BY <1>3, <1>5, AttentionLeveled, FfnLeveled
<1> HIDE DEF u, f, e0
<1>7. Leveled(both, t0, e0)
  BY <1>2, <1>6, AddLeveled
<1> HIDE DEF both
<1>8. Leveled(s, t0, e0)
  BY <1>2, <1>4, <1>7, ScaleLeveled
<1> HIDE DEF s
<1>9. Leveled(x, t0, e0)
  BY DEF e0
<1>10. Leveled(AddBatch(x, s), t0, e0)
  BY <1>2, <1>8, <1>9, AddLeveled
<1> QED
  BY <1>1, <1>10 DEF e0

-----------------------------------------------------------------------------
(* What a fresh model draws has no direction *)

\* A constant has no direction.
LEMMA ConIsStill ==
  ASSUME NEW v \in Int
  PROVE  Con(v) \in Still
BY KindIs, KindConstants DEF Kind

\* A row of one still number is a still row.
LEMMA VecIsStill ==
  ASSUME NEW n0 \in Nat, NEW x \in Still
  PROVE  Vec(n0, x) \in NumbersOf(Still, n0)
BY DEF Vec, NumbersOf

\* A drawn number has no direction.
LEMMA DrawIsStill ==
  ASSUME NEW seed0 \in Int, NEW k \in Int
  PROVE  Draw(seed0, k) \in Still
<1> DEFINE x == Noise(seed0, 50, k)
<1>1. x \in Number
  BY NoiseType
<1> HIDE DEF x
<1>2. x[1] \in Int
  BY <1>1, NumberParts
<1>3. Con(x[1]) \in Still
  BY <1>2, ConIsStill
<1> QED
  BY <1>3 DEF Draw, x

\* A fresh linear layer has no direction, and as many rows as asked for.
LEMMA InitLinearStill ==
  ASSUME NEW seed0 \in Int, NEW a0 \in Int, NEW r0 \in Nat, NEW c0 \in Nat
  PROVE  StillLinear(InitLinear(seed0, a0, r0, c0), r0, c0) /\ Size(InitLinear(seed0, a0, r0, c0).w) = r0
<1> DEFINE rows == [k \in 0 .. r0 - 1 |-> [j \in 0 .. c0 - 1 |-> Draw(seed0, a0 + c0 * k + j)]]
           bias == Vec(r0, Zero)
           l == InitLinear(seed0, a0, r0, c0)
<1>1. l = [w |-> rows, b |-> bias]
  BY TableIs DEF InitLinear, Grid
<1>2. ASSUME NEW k \in 0 .. r0 - 1, NEW j \in 0 .. c0 - 1 PROVE Draw(seed0, a0 + c0 * k + j) \in Still
  <2>1. a0 + c0 * k + j \in Int
    OBVIOUS
  <2> QED
    BY <2>1, DrawIsStill
<1>3. rows \in [0 .. r0 - 1 -> NumbersOf(Still, c0)] /\ DOMAIN rows = 0 .. r0 - 1
  BY <1>2 DEF NumbersOf
<1>4. bias \in NumbersOf(Still, r0)
  BY VecIsStill, KindIs, KindConstants DEF Kind
<1>5. Size(rows) = r0
  BY <1>3, SizeIs
<1> HIDE DEF rows, bias, l
<1>6. l.w = rows /\ l.b = bias
  BY <1>1
<1>7. StillLinear(l, r0, c0) /\ Size(l.w) = r0
  BY <1>3, <1>4, <1>5, <1>6 DEF StillLinear
<1> QED
  BY <1>7 DEF l

\* The numbers of draws that a head, the attention and the FFN path take are
\* integers.
LEMMA DrawsType ==
  ASSUME NEW c, DimsOk(c)
  PROVE  HeadDraws(c, Content(c)) \in Int /\ AttnDraws(c, Content(c)) \in Int /\ FfnDraws(c) \in Int
<1> DEFINE e == Embed(c)
           hd == HeadOf(c)
           cd == Content(c)
           gs == GroupOf(c)
           hds == HeadDraws(c, cd)
           nh == c.nHead
           md == c.md
           g0 == c.groups
<1>1. e \in Int /\ hd \in Int /\ cd \in Int /\ gs \in Int /\ nh \in Int /\ md \in Int /\ g0 \in Int
  BY SizesType DEF DimsOk
<1>2. hds = 2 * e + hd * hd + cd * e
  BY DEF HeadDraws, HeadOf
<1>3. AttnDraws(c, cd) = nh * hds + e * e
  BY DEF AttnDraws
<1>4. FfnDraws(c) = 4 * md * e + g0 * gs * gs
  BY DEF FfnDraws, GroupOf
<1> HIDE DEF e, hd, cd, gs, hds, nh, md, g0
<1>5. hds \in Int
  BY <1>1, <1>2
<1>6. nh * hds + e * e \in Int /\ 4 * md * e + g0 * gs * gs \in Int
  BY <1>1, <1>5
<1> QED
  BY <1>3, <1>4, <1>5, <1>6 DEF cd, hds

\* Fresh attention weights have no direction.
LEMMA InitAttnStill ==
  ASSUME NEW c, DimsOk(c), NEW seed0 \in Int, NEW a0 \in Int
  PROVE  StillAttn(c, InitBlockAttn(c, seed0, a0, Content(c)))
<1> DEFINE a == InitBlockAttn(c, seed0, a0, Content(c))
           e == Embed(c)
           hd == HeadOf(c)
           cd == Content(c)
           hds == HeadDraws(c, cd)
           s(k) == a0 + k * hds
           head(k) == [raw |-> Con(20 + k), phase |-> InitLinear(seed0, s(k), 2, e),
                       v |-> InitLinear(seed0, s(k) + 2 * e, hd, hd),
                       content |-> IF cd > 0 THEN InitLinear(seed0, s(k) + 2 * e + hd * hd, cd, e) ELSE <<>>]
           out == InitLinear(seed0, a0 + c.nHead * hds, e, e)
<1>1. a = [heads |-> [k \in 0 .. c.nHead - 1 |-> head(k)], out |-> out]
  BY TableIs DEF InitBlockAttn, HeadOf
<1>2. e \in Nat /\ hd \in Nat /\ cd \in Nat /\ hds \in Int /\ c.nHead \in Nat
  BY SizesType, DrawsType DEF DimsOk
<1> HIDE DEF a, e, hd, cd, hds
<1>3. ASSUME NEW k \in 0 .. c.nHead - 1 PROVE StillHead(c, head(k))
  <2> DEFINE x1 == Con(20 + k)
             x2 == InitLinear(seed0, s(k), 2, e)
             x3 == InitLinear(seed0, s(k) + 2 * e, hd, hd)
             x4 == InitLinear(seed0, s(k) + 2 * e + hd * hd, cd, e)
             q == head(k)
  <2>0. x1 \in Still
    <3>1. 20 + k \in Int
      OBVIOUS
    <3> QED
      BY <3>1, ConIsStill
  <2>1. StillLinear(x2, 2, e) /\ StillLinear(x3, hd, hd) /\ StillLinear(x4, cd, e) /\ Size(x4.w) = cd
    <3>1. s(k) \in Int /\ s(k) + 2 * e \in Int /\ s(k) + 2 * e + hd * hd \in Int /\ 2 \in Nat
      BY <1>2
    <3>2. \A y \in Int, r0 \in Nat, c0 \in Nat :
            StillLinear(InitLinear(seed0, y, r0, c0), r0, c0) /\ Size(InitLinear(seed0, y, r0, c0).w) = r0
      BY InitLinearStill
    <3> DEFINE y1 == s(k)
               y2 == s(k) + 2 * e
               y3 == s(k) + 2 * e + hd * hd
    <3>3. y1 \in Int /\ y2 \in Int /\ y3 \in Int /\ 2 \in Nat
      BY <3>1
    <3> HIDE DEF y1, y2, y3, s
    <3>4. StillLinear(InitLinear(seed0, y1, 2, e), 2, e)
      BY <1>2, <3>2, <3>3
    <3>5. StillLinear(InitLinear(seed0, y2, hd, hd), hd, hd)
      BY <1>2, <3>2, <3>3
    <3>6. StillLinear(InitLinear(seed0, y3, cd, e), cd, e) /\ Size(InitLinear(seed0, y3, cd, e).w) = cd
      BY <1>2, <3>2, <3>3
    <3> QED
      BY <3>4, <3>5, <3>6 DEF y1, y2, y3
  <2>3. q = [raw |-> x1, phase |-> x2, v |-> x3, content |-> IF cd > 0 THEN x4 ELSE <<>>]
    OBVIOUS
  <2> HIDE DEF x1, x2, x3, x4, q
  <2>4. q.raw = x1 /\ q.phase = x2 /\ q.v = x3 /\ (q.content # <<>> => q.content = x4)
    BY <2>3
  <2>5. StillHead(c, q)
    BY <1>2, <2>0, <2>1, <2>4 DEF StillHead, HasContent, e, hd, cd
  <2> QED
    BY <2>5 DEF q
<1>4. StillLinear(out, e, e)
  <2>1. a0 + c.nHead * hds \in Int
    BY <1>2
  <2> QED
    BY <1>2, <2>1, InitLinearStill
<1> HIDE DEF head, out
<1>5. a.heads = [k \in 0 .. c.nHead - 1 |-> head(k)] /\ a.out = out
  BY <1>1
<1>6. StillAttn(c, a)
  BY <1>3, <1>4, <1>5 DEF StillAttn, e
<1> QED
  BY <1>6 DEF a

\* Fresh ODE weights have no direction.
LEMMA FreshKerrStill ==
  ASSUME NEW n0 \in Nat, NEW kerr, NEW steps0,
         kerr = [gammaRaw |-> Vec(n0, Con(9)), omega |-> [k \in 0 .. n0 - 1 |-> Con(k + 1)],
                 alpha |-> Con(10), beta |-> Con(20), chi |-> Zero,
                 mix |-> [k \in 0 .. 3 |-> Recip(Con(IF k \in {1, 2} THEN 3 ELSE 6))], steps |-> steps0]
  PROVE  WeightsOf(Still, kerr, n0) /\ kerr.steps = steps0
<1> DEFINE x1 == Vec(n0, Con(9))
           x2 == [k \in 0 .. n0 - 1 |-> Con(k + 1)]
           x3 == Con(10)
           x4 == Con(20)
           x5 == [k \in 0 .. 3 |-> Recip(Con(IF k \in {1, 2} THEN 3 ELSE 6))]
<1>1. kerr = [gammaRaw |-> x1, omega |-> x2, alpha |-> x3, beta |-> x4, chi |-> Zero, mix |-> x5, steps |-> steps0]
  OBVIOUS
<1>2. x3 \in Still /\ x4 \in Still /\ Zero \in Still /\ Con(9) \in Still
  BY ConIsStill, KindConstants DEF Kind
<1>3. x1 \in NumbersOf(Still, n0)
  BY <1>2, VecIsStill
<1>4. x2 \in NumbersOf(Still, n0)
  <2>1. ASSUME NEW k \in 0 .. n0 - 1 PROVE Con(k + 1) \in Still
    BY ConIsStill
  <2> QED
    BY <2>1 DEF NumbersOf
<1>5. x5 \in [0 .. 3 -> Still]
  <2>1. ASSUME NEW k \in 0 .. 3 PROVE Recip(Con(IF k \in {1, 2} THEN 3 ELSE 6)) \in Still
    <3>1. (IF k \in {1, 2} THEN 3 ELSE 6) \in Int
      OBVIOUS
    <3> DEFINE y == Con(IF k \in {1, 2} THEN 3 ELSE 6)
    <3>2. y \in Still
      BY <3>1, ConIsStill
    <3> HIDE DEF y
    <3>3. Kind(Still)
      BY DEF Kind
    <3>4. Recip(y) \in Still
      BY <3>2, <3>3, KindQuotient
    <3> QED
      BY <3>4 DEF y
  <2> QED
    BY <2>1
<1>6. Zero[1] = 0
  BY DEF Zero
<1> HIDE DEF x1, x2, x3, x4, x5
<1>7. kerr.gammaRaw = x1 /\ kerr.omega = x2 /\ kerr.alpha = x3 /\ kerr.beta = x4 /\ kerr.chi = Zero /\ kerr.mix = x5
      /\ kerr.steps = steps0
  BY <1>1
<1> QED
  BY <1>2, <1>3, <1>4, <1>5, <1>6, <1>7 DEF WeightsOf

\* A fresh block has no direction.
LEMMA InitBlockStill ==
  ASSUME NEW c, DimsOk(c), NEW seed0 \in Int, NEW a0 \in Int
  PROVE  StillBlock(c, InitBlock(c, seed0, a0))
<1> DEFINE e   == Embed(c)
           gs  == GroupOf(c)
           md  == c.md
           ffn == a0 + AttnDraws(c, Content(c))
           mae(s) == [squeeze |-> InitLinear(seed0, s, md, e), process |-> InitLinear(seed0, s + md * e, e, md)]
           ln  == [w |-> Vec(e, One), b |-> Vec(e, Zero)]
           attn == InitBlockAttn(c, seed0, a0, Content(c))
           kerr == [gammaRaw |-> Vec(c.nBands, Con(9)), omega |-> [k \in 0 .. c.nBands - 1 |-> Con(k + 1)],
                    alpha |-> Con(10), beta |-> Con(20), chi |-> Zero,
                    mix |-> [k \in 0 .. 3 |-> Recip(Con(IF k \in {1, 2} THEN 3 ELSE 6))], steps |-> c.steps]
           plate == Vec(c.nBands, Zero)
           group(k) == InitLinear(seed0, ffn + 4 * md * e + k * gs * gs, gs, gs)
           groups == [k \in 0 .. c.groups - 1 |-> group(k)]
           m1 == mae(ffn)
           m2 == mae(ffn + 2 * md * e)
           b == InitBlock(c, seed0, a0)
<1>1. b = [ln |-> ln, lnFfn |-> ln, attn |-> attn, kerr |-> kerr, plate |-> plate,
           maestroIn |-> m1, maestroOut |-> m2, outProj |-> [groups |-> groups]]
  BY TableIs DEF InitBlock, GroupOf
<1>2. e \in Nat /\ gs \in Nat /\ md \in Nat /\ c.nBands \in Nat /\ c.steps \in Nat /\ ffn \in Int
  BY SizesType, DrawsType DEF DimsOk
<1>3. One \in Still /\ Zero \in Still
  BY KindConstants DEF Kind
<1>4. ln.w \in NumbersOf(Still, e) /\ ln.b \in NumbersOf(Still, e)
  <2>1. Vec(e, One) \in NumbersOf(Still, e) /\ Vec(e, Zero) \in NumbersOf(Still, e)
    BY <1>2, <1>3, VecIsStill
  <2> QED
    BY <2>1
<1>5. WeightsOf(Still, kerr, c.nBands) /\ kerr.steps = c.steps
  BY <1>2, FreshKerrStill
<1>6. plate \in NumbersOf(Still, c.nBands)
  BY <1>2, <1>3, VecIsStill
<1> HIDE DEF e, gs, ffn, md
<1>7. \A y \in Int, r0 \in Nat, c0 \in Nat : StillLinear(InitLinear(seed0, y, r0, c0), r0, c0)
  BY InitLinearStill
<1>8. ASSUME NEW s \in Int PROVE StillMaestro(mae(s), md, e)
  <2> DEFINE y == s + md * e
             x1 == InitLinear(seed0, s, md, e)
             x2 == InitLinear(seed0, y, e, md)
  <2>1. y \in Int
    BY <1>2
  <2> HIDE DEF y
  <2>2. StillLinear(x1, md, e) /\ StillLinear(x2, e, md)
    BY <1>2, <1>7, <2>1
  <2>3. mae(s) = [squeeze |-> x1, process |-> x2]
    BY DEF y
  <2> HIDE DEF x1, x2, mae
  <2>4. mae(s).squeeze = x1 /\ mae(s).process = x2
    BY <2>3
  <2> QED
    BY <2>2, <2>4 DEF StillMaestro
<1>9. StillMaestro(m1, md, e) /\ StillMaestro(m2, md, e)
  <2>1. ffn + 2 * md * e \in Int
    BY <1>2
  <2> HIDE DEF mae
  <2> QED
    BY <1>2, <1>8, <2>1
<1>10. ASSUME NEW k \in 0 .. c.groups - 1 PROVE StillLinear(groups[k], gs, gs)
  <2> DEFINE y == ffn + 4 * md * e + k * gs * gs
  <2>1. y \in Int
    BY <1>2
  <2>2. groups[k] = InitLinear(seed0, y, gs, gs)
    OBVIOUS
  <2> HIDE DEF y, groups
  <2> QED
    BY <1>2, <1>7, <2>1, <2>2
<1>11. StillAttn(c, attn)
  BY InitAttnStill
<1>12. DOMAIN groups = 0 .. c.groups - 1
  OBVIOUS
<1>13. GroupSize(b.outProj) = GroupOf(c)
  <2>1. BlockShape(c, InitBlock(c, seed0, a0))
    BY InitBlockParts, PartsGiveShape
  <2> QED
    BY <2>1 DEF BlockShape
<1> HIDE DEF ln, attn, kerr, plate, m1, m2, groups, mae, b
<1>14. /\ b.ln = ln /\ b.attn = attn /\ b.kerr = kerr /\ b.plate = plate
       /\ b.maestroIn = m1 /\ b.maestroOut = m2 /\ b.outProj = [groups |-> groups]
  BY <1>1
<1>15. b.outProj.groups = groups
  BY <1>14
<1>16. StillProjection(b.outProj, c.groups, gs)
  BY <1>10, <1>12, <1>13, <1>15 DEF StillProjection, gs
<1>17. StillFfn(c, b)
  BY <1>2, <1>5, <1>6, <1>9, <1>14, <1>16 DEF StillFfn, e, gs, md
<1>18. StillNorm(b.ln, Embed(c))
  BY <1>4, <1>14 DEF StillNorm, e
<1> QED
  BY <1>11, <1>14, <1>17, <1>18 DEF StillBlock, b

\* A fresh model has no direction, whatever its embeddings have.
LEMMA InitModelStill ==
  ASSUME NEW c, DimsOk(c), NEW seed0 \in Int, NEW wte0, NEW wpe0
  PROVE  LET q == InitModel(c, seed0, wte0, wpe0)
         IN  StillModel(c, q) /\ q.wte = wte0 /\ q.wpe = wpe0
<1> DEFINE per == AttnDraws(c, Content(c)) + FfnDraws(c)
           f == [k \in 0 .. c.layers - 1 |-> InitBlock(c, seed0, k * per)]
           scale == Vec(c.layers, One)
           lnF == [w |-> Vec(Embed(c), One), b |-> Vec(Embed(c), Zero)]
           head == InitHead(c, seed0, c.layers * per, wte0)
           q == InitModel(c, seed0, wte0, wpe0)
<1>1. q = [wte |-> wte0, wpe |-> wpe0, blocks |-> f, scale |-> scale, lnF |-> lnF, head |-> head]
  BY TableIs DEF InitModel
<1>2. per \in Int /\ c.layers \in Nat /\ Embed(c) \in Nat
  BY DrawsType, SizesType DEF DimsOk
<1>3. ASSUME NEW k \in 0 .. c.layers - 1 PROVE StillBlock(c, f[k])
  <2> DEFINE y == k * per
  <2>1. y \in Int
    <3> HIDE DEF per
    <3> QED
      BY <1>2
  <2>2. f[k] = InitBlock(c, seed0, y)
    OBVIOUS
  <2> HIDE DEF y, f
  <2> QED
    BY <2>1, <2>2, InitBlockStill
<1>4. One \in Still /\ Zero \in Still
  BY KindConstants DEF Kind
<1>5. StillNorm(lnF, Embed(c))
  <2>1. Vec(Embed(c), One) \in NumbersOf(Still, Embed(c)) /\ Vec(Embed(c), Zero) \in NumbersOf(Still, Embed(c))
    BY <1>2, <1>4, VecIsStill
  <2> QED
    BY <2>1 DEF StillNorm
<1>6. \A k \in 0 .. c.layers - 1 : scale[k] \in Still
  BY <1>4 DEF Vec
<1> HIDE DEF f, scale, lnF, head, q
<1>7. q.wte = wte0 /\ q.wpe = wpe0 /\ q.blocks = f /\ q.scale = scale /\ q.lnF = lnF
  BY <1>1
<1>8. StillModel(c, q)
  BY <1>3, <1>5, <1>6, <1>7 DEF StillModel
<1> QED
  BY <1>7, <1>8 DEF q

-----------------------------------------------------------------------------
(* What is read from numbers without a direction has none *)

\* The n0 entries of v from a0 on have no direction.
FixedOn(v, a0, n0) == \A k \in 1 .. n0 : v[a0 + k] \in Still

\* A part of a stretch without a direction has none.
LEMMA FixedNarrows ==
  ASSUME NEW v, NEW a0 \in Nat, NEW n0 \in Nat, FixedOn(v, a0, n0), NEW a1 \in Nat, NEW n1 \in Nat,
         a0 <= a1, a1 + n1 <= a0 + n0
  PROVE  FixedOn(v, a1, n1)
<1> SUFFICES ASSUME NEW k \in 1 .. n1 PROVE v[a1 + k] \in Still
  BY DEF FixedOn
<1> DEFINE j == a1 + k - a0
<1>1. j \in 1 .. n0 /\ a0 + j = a1 + k
  OBVIOUS
<1> HIDE DEF j
<1>2. v[a0 + j] \in Still
  BY <1>1 DEF FixedOn
<1> QED
  BY <1>1, <1>2

\* An entry of a stretch without a direction has none.
LEMMA OneFixed ==
  ASSUME NEW v, NEW a0 \in Nat, NEW n0 \in Nat, FixedOn(v, a0, n0), NEW k \in 0 .. n0 - 1
  PROVE  v[a0 + k + 1] \in Still
<1>1. k + 1 \in 1 .. n0 /\ a0 + (k + 1) = a0 + k + 1
  OBVIOUS
<1>2. v[a0 + (k + 1)] \in Still
  BY <1>1 DEF FixedOn
<1> QED
  BY <1>1, <1>2

\* A slice without a direction is a still row.
LEMMA SliceFixed ==
  ASSUME NEW v, NEW a0 \in Nat, NEW n0 \in Nat, FixedOn(v, a0, n0)
  PROVE  Slice(v, a0, n0) \in NumbersOf(Still, n0)
<1>1. Slice(v, a0, n0) = [k \in 0 .. n0 - 1 |-> v[a0 + k + 1]]
  BY TableIs DEF Slice
<1>2. \A k \in 0 .. n0 - 1 : v[a0 + k + 1] \in Still
  BY OneFixed
<1> QED
  BY <1>1, <1>2 DEF NumbersOf

\* A linear layer read from a stretch without a direction is still.
LEMMA LinearFixed ==
  ASSUME NEW v, NEW a0 \in Nat, NEW r0 \in Nat, NEW c0 \in Nat, FixedOn(v, a0, LinearLen(r0, c0))
  PROVE  StillLinear(SliceLinear(v, a0, r0, c0), r0, c0) /\ Size(SliceLinear(v, a0, r0, c0).w) = r0
<1> DEFINE l == SliceLinear(v, a0, r0, c0)
           rows == SliceRows(v, a0, r0, c0)
           bias == Slice(v, a0 + r0 * c0, r0)
           area == r0 * c0
<1>1. l.w = rows /\ l.b = bias
  BY DEF SliceLinear
<1>2. area \in Nat /\ LinearLen(r0, c0) = area + r0
  BY DEF LinearLen
<1>3. rows = [k \in 0 .. r0 - 1 |-> Table([j \in 0 .. c0 - 1 |-> v[a0 + c0 * k + j + 1]])]
  BY TableIs DEF SliceRows, Grid
<1>4. ASSUME NEW k \in 0 .. r0 - 1 PROVE rows[k] \in NumbersOf(Still, c0)
  <2> DEFINE y == a0 + c0 * k
  <2>1. rows[k] = Slice(v, y, c0)
    BY <1>3 DEF Slice
  <2>2. y \in Nat /\ a0 <= y /\ y + c0 <= a0 + area
    <3>1. c0 * k \in Nat
      OBVIOUS
    <3>2. c0 * k + c0 = c0 * (k + 1)
      OBVIOUS
    <3>3. c0 * (k + 1) <= c0 * r0
      OBVIOUS
    <3>4. c0 * r0 = area
      OBVIOUS
    <3> HIDE DEF area
    <3> QED
      BY <1>2, <3>1, <3>2, <3>3, <3>4
  <2> HIDE DEF y, rows, area
  <2>3. y + c0 <= a0 + LinearLen(r0, c0) /\ LinearLen(r0, c0) \in Nat
    BY <1>2, <2>2
  <2>4. FixedOn(v, y, c0)
    BY <2>2, <2>3, FixedNarrows
  <2> QED
    BY <2>1, <2>2, <2>4, SliceFixed
<1>5. rows \in [0 .. r0 - 1 -> NumbersOf(Still, c0)] /\ DOMAIN rows = 0 .. r0 - 1
  <2>1. DOMAIN rows = 0 .. r0 - 1 /\ rows = [k \in 0 .. r0 - 1 |-> rows[k]]
    BY <1>3
  <2> HIDE DEF rows
  <2> QED
    BY <1>4, <2>1
<1>6. bias \in NumbersOf(Still, r0)
  <2> HIDE DEF area
  <2>1. a0 + area \in Nat /\ a0 <= a0 + area /\ a0 + area + r0 <= a0 + LinearLen(r0, c0) /\ LinearLen(r0, c0) \in Nat
    BY <1>2
  <2>2. FixedOn(v, a0 + area, r0)
    BY <2>1, FixedNarrows
  <2>3. Slice(v, a0 + area, r0) \in NumbersOf(Still, r0)
    BY <2>1, <2>2, SliceFixed
  <2> QED
    BY <2>3 DEF area
<1>7. Size(rows) = r0
  BY <1>5, SizeIs
<1> HIDE DEF l, rows, bias
<1>8. StillLinear(l, r0, c0) /\ Size(l.w) = r0
  BY <1>1, <1>5, <1>6, <1>7 DEF StillLinear
<1> QED
  BY <1>8 DEF l

\* A maestro read from a stretch without a direction is still.
LEMMA MaestroFixed ==
  ASSUME NEW v, NEW a0 \in Nat, NEW md0 \in Nat, NEW e0 \in Nat, FixedOn(v, a0, Mae(md0, e0))
  PROVE  StillMaestro(UnflattenMaestro(v, a0, md0, e0), md0, e0)
<1> DEFINE x0 == LinearLen(md0, e0)
           y0 == LinearLen(e0, md0)
           q == UnflattenMaestro(v, a0, md0, e0)
<1>1. x0 \in Nat /\ y0 \in Nat
  BY LinearLenType
<1>2. Mae(md0, e0) = x0 + y0
  BY DEF Mae
<1>3. q.squeeze = SliceLinear(v, a0, md0, e0) /\ q.process = SliceLinear(v, a0 + x0, e0, md0)
  BY DEF UnflattenMaestro
<1> HIDE DEF q
<1>4. FixedOn(v, a0, x0) /\ FixedOn(v, a0 + x0, y0) /\ a0 + x0 \in Nat
  <2> HIDE DEF x0, y0
  <2>1. FixedOn(v, a0, x0 + y0) /\ x0 + y0 \in Nat /\ a0 + x0 \in Nat /\ a0 <= a0 + x0
        /\ a0 + x0 <= a0 + (x0 + y0) /\ a0 + x0 + y0 <= a0 + (x0 + y0) /\ a0 <= a0
    BY <1>1, <1>2
  <2>2. FixedOn(v, a0, x0)
    BY <1>1, <2>1, FixedNarrows
  <2>3. FixedOn(v, a0 + x0, y0)
    BY <1>1, <2>1, FixedNarrows
  <2> QED
    BY <2>1, <2>2, <2>3
<1>5. StillLinear(q.squeeze, md0, e0)
  BY <1>3, <1>4, LinearFixed
<1>6. StillLinear(q.process, e0, md0)
  <2> DEFINE y == a0 + x0
  <2>1. y \in Nat /\ FixedOn(v, y, LinearLen(e0, md0)) /\ q.process = SliceLinear(v, y, e0, md0)
    BY <1>3, <1>4
  <2> HIDE DEF y
  <2> QED
    BY <2>1, LinearFixed
<1> QED
  BY <1>5, <1>6 DEF StillMaestro, q

\* A layer norm read from a stretch without a direction is still.
LEMMA NormFixed ==
  ASSUME NEW v, NEW a0 \in Nat, NEW e0 \in Nat, FixedOn(v, a0, 2 * e0), NEW ln,
         ln = [w |-> Slice(v, a0, e0), b |-> Slice(v, a0 + e0, e0)]
  PROVE  StillNorm(ln, e0)
<1>1. 2 * e0 \in Nat /\ a0 + e0 \in Nat /\ a0 <= a0 + e0 /\ a0 + e0 <= a0 + 2 * e0 /\ a0 + e0 + e0 <= a0 + 2 * e0
  OBVIOUS
<1>2. FixedOn(v, a0, e0) /\ FixedOn(v, a0 + e0, e0)
  <2>1. FixedOn(v, a0, e0)
    BY <1>1, FixedNarrows
  <2>2. FixedOn(v, a0 + e0, e0)
    BY <1>1, FixedNarrows
  <2> QED
    BY <2>1, <2>2
<1>3. Slice(v, a0, e0) \in NumbersOf(Still, e0) /\ Slice(v, a0 + e0, e0) \in NumbersOf(Still, e0)
  BY <1>1, <1>2, SliceFixed
<1> QED
  BY <1>3 DEF StillNorm

\* Clamping keeps a number free of direction.
LEMMA ClampStill ==
  ASSUME NEW x \in Still
  PROVE  Clamp(x) \in Still
<1>1. P \in Nat /\ P >= 3
  BY PIsPositive
<1>2. x[2] = 0
  BY DEF Still
<1>3. <<1, 0>> \in Still
  BY <1>1 DEF Still
<1> QED
  BY <1>2, <1>3 DEF Clamp

\* Which ODE weights are read from the vector, and which stay the model's own.
LEMMA KerrRead ==
  ASSUME NEW c, NEW b, BlockShape(c, b), NEW v, NEW a0, NEW u, u = UnflattenBlock(c, b, v, a0)
  PROVE  /\ ~c.learnOde => u.kerr = b.kerr /\ u.plate = b.plate
         /\ c.learnOde => /\ u.kerr.omega = b.kerr.omega /\ u.kerr.chi = b.kerr.chi /\ u.kerr.steps = b.kerr.steps
                          /\ ~c.rk4w => u.kerr.mix = b.kerr.mix
<1> DEFINE e    == Embed(c)
           mae  == LinearLen(c.md, e) + LinearLen(e, c.md)
           gs   == GroupSize(b.outProj)
           op   == a0 + 4 * e + 2 * mae
           ode  == op + Size(b.outProj.groups) * LinearLen(gs, gs)
           dyn  == ode + (IF c.learnOde THEN 2 * c.nBands + 2 + (IF c.rk4w THEN 4 ELSE 0) ELSE 0)
           attn == dyn + (IF c.dyn THEN Size(b.attn.heads) ELSE 0)
           g1 == Slice(v, ode, c.nBands)
           g2 == Clamp(v[ode + c.nBands + 1])
           g3 == Clamp(v[ode + c.nBands + 2])
           g4 == Slice(v, ode + 2 * c.nBands + 2, 4)
           kerr == IF c.learnOde
                   THEN [b.kerr EXCEPT !.gammaRaw = g1, !.alpha = g2, !.beta = g3, !.mix = IF c.rk4w THEN g4 ELSE @]
                   ELSE b.kerr
           bent == Harmonics(c, b, v, dyn)
           groups == [k \in DOMAIN b.outProj.groups |-> SliceLinear(v, op + k * LinearLen(gs, gs), gs, gs)]
           x1 == [w |-> Slice(v, a0, e), b |-> Slice(v, a0 + e, e)]
           x2 == [w |-> Slice(v, a0 + 2 * e, e), b |-> Slice(v, a0 + 3 * e, e)]
           x3 == UnflattenMaestro(v, a0 + 4 * e, c.md, e)
           x4 == UnflattenMaestro(v, a0 + 4 * e + mae, c.md, e)
           plate == Slice(v, ode + c.nBands + 2, c.nBands)
           full == UnflattenAttn(bent, v, attn)
<1>1. u = [b EXCEPT !.ln = x1, !.lnFfn = x2, !.maestroIn = x3, !.maestroOut = x4,
                    !.outProj = [groups |-> groups], !.kerr = kerr,
                    !.plate = IF c.learnOde THEN plate ELSE @,
                    !.attn = IF c.learnAttn THEN full ELSE bent]
  BY TableIs DEF UnflattenBlock, Harmonics
<1>2. {"gammaRaw", "alpha", "beta", "mix", "omega", "chi", "steps"} \subseteq DOMAIN b.kerr
  BY DEF BlockShape
<1>3. {"ln", "lnFfn", "maestroIn", "maestroOut", "outProj", "kerr", "plate", "attn"} \subseteq DOMAIN b
  BY DEF BlockShape
<1> HIDE DEF g1, g2, g3, g4
<1>4. c.learnOde => kerr.omega = b.kerr.omega /\ kerr.chi = b.kerr.chi /\ kerr.steps = b.kerr.steps
                    /\ (~c.rk4w => kerr.mix = b.kerr.mix)
  BY <1>2
<1>5. ~c.learnOde => kerr = b.kerr
  OBVIOUS
<1> HIDE DEF x1, x2, x3, x4, groups, kerr, plate, full, bent
<1>6. u.kerr = kerr /\ (~c.learnOde => u.plate = b.plate)
  BY <1>1, <1>3
<1> QED
  BY <1>4, <1>5, <1>6

\* The ODE weights and the phase plate after the read are still.
LEMMA KerrFixed ==
  ASSUME NEW c, DimsOk(c), NEW b, BlockShape(c, b), StillFfn(c, b), NEW v, NEW a0 \in Nat,
         OdeAt(c, a0) \in Nat, FixedOn(v, OdeAt(c, a0), OdeLen(c)),
         NEW u, u = UnflattenBlock(c, b, v, a0)
  PROVE  WeightsOf(Still, u.kerr, c.nBands) /\ u.kerr.steps \in Nat /\ u.plate \in NumbersOf(Still, c.nBands)
<1> DEFINE n0 == c.nBands
           o0 == OdeAt(c, a0)
<1>1. WeightsOf(Still, b.kerr, n0) /\ b.kerr.steps \in Nat /\ b.plate \in NumbersOf(Still, n0) /\ n0 \in Nat
  BY DEF StillFfn, DimsOk
<1>2. CASE ~c.learnOde
  <2>1. u.kerr = b.kerr /\ u.plate = b.plate
    BY <1>2, KerrRead
  <2> QED
    BY <1>1, <2>1
<1>3. CASE c.learnOde
  <2>1. /\ u.kerr.omega = b.kerr.omega /\ u.kerr.chi = b.kerr.chi /\ u.kerr.steps = b.kerr.steps
        /\ ~c.rk4w => u.kerr.mix = b.kerr.mix
    BY <1>3, KerrRead
  <2>2. /\ u.kerr.gammaRaw = Slice(v, o0, n0)
        /\ u.kerr.alpha = Clamp(v[o0 + n0 + 1])
        /\ u.kerr.beta = Clamp(v[o0 + n0 + 2])
        /\ c.rk4w => u.kerr.mix = Slice(v, o0 + 2 * n0 + 2, 4)
        /\ u.plate = Slice(v, o0 + n0 + 2, n0)
    <3>1.
         /\ u.ln = [w |-> Slice(v, a0, Embed(c)), b |-> Slice(v, a0 + Embed(c), Embed(c))]
         /\ u.lnFfn = [w |-> Slice(v, a0 + 2 * Embed(c), Embed(c)), b |-> Slice(v, a0 + 3 * Embed(c), Embed(c))]
         /\ u.maestroIn = UnflattenMaestro(v, a0 + 4 * Embed(c), c.md, Embed(c))
         /\ u.maestroOut = UnflattenMaestro(v, a0 + 4 * Embed(c) + Mae(c.md, Embed(c)), c.md, Embed(c))
         /\ u.outProj.groups = [k \in 0 .. c.groups - 1 |->
              SliceLinear(v, OpAt(c, a0) + k * LinearLen(GroupOf(c), GroupOf(c)), GroupOf(c), GroupOf(c))]
         /\ c.learnOde => /\ u.kerr.gammaRaw = Slice(v, OdeAt(c, a0), c.nBands)
                          /\ u.kerr.alpha = Clamp(v[OdeAt(c, a0) + c.nBands + 1])
                          /\ u.kerr.beta = Clamp(v[OdeAt(c, a0) + c.nBands + 2])
                          /\ c.rk4w => u.kerr.mix = Slice(v, OdeAt(c, a0) + 2 * c.nBands + 2, 4)
                          /\ u.plate = Slice(v, OdeAt(c, a0) + c.nBands + 2, c.nBands)
         /\ u.attn = IF c.learnAttn THEN UnflattenAttn(Harmonics(c, b, v, DynAt(c, a0)), v, AttnAt(c, a0))
                     ELSE Harmonics(c, b, v, DynAt(c, a0))
      BY BlockFields
    <3> DEFINE x1 == Slice(v, o0, n0)
               x2 == Clamp(v[o0 + n0 + 1])
               x3 == Clamp(v[o0 + n0 + 2])
               x4 == Slice(v, o0 + 2 * n0 + 2, 4)
               x5 == Slice(v, o0 + n0 + 2, n0)
    <3>2. u.kerr.gammaRaw = x1
      BY <1>3, <3>1
    <3>3. u.kerr.alpha = x2
      BY <1>3, <3>1
    <3>4. u.kerr.beta = x3
      BY <1>3, <3>1
    <3>5. c.rk4w => u.kerr.mix = x4
      BY <1>3, <3>1
    <3>6. u.plate = x5
      BY <1>3, <3>1
    <3> HIDE DEF x1, x2, x3, x4, x5
    <3> QED
      BY <3>2, <3>3, <3>4, <3>5, <3>6 DEF x1, x2, x3, x4, x5
  <2> DEFINE len == OdeLen(c)
  <2>3. len = 2 * n0 + 2 + (IF c.rk4w THEN 4 ELSE 0) /\ len \in Nat /\ o0 \in Nat /\ FixedOn(v, o0, len)
    BY <1>1, <1>3 DEF OdeLen
  <2> HIDE DEF len, n0, o0
  <2>4. len >= 2 * n0 + 2 /\ (c.rk4w => len >= 2 * n0 + 6)
    BY <1>1, <2>3
  <2>5. Slice(v, o0, n0) \in NumbersOf(Still, n0)
    <3>1. o0 <= o0 /\ o0 + n0 <= o0 + len
      BY <1>1, <2>3, <2>4
    <3>2. FixedOn(v, o0, n0)
      BY <1>1, <2>3, <3>1, FixedNarrows
    <3> QED
      BY <1>1, <2>3, <3>2, SliceFixed
  <2>6. Slice(v, o0 + n0 + 2, n0) \in NumbersOf(Still, n0)
    <3>1. o0 + n0 + 2 \in Nat /\ o0 <= o0 + n0 + 2 /\ o0 + n0 + 2 + n0 <= o0 + len
      BY <1>1, <2>3, <2>4
    <3>2. FixedOn(v, o0 + n0 + 2, n0)
      BY <1>1, <2>3, <3>1, FixedNarrows
    <3> QED
      BY <1>1, <3>1, <3>2, SliceFixed
  <2>7. Clamp(v[o0 + n0 + 1]) \in Still /\ Clamp(v[o0 + n0 + 2]) \in Still
    <3>1. n0 \in 0 .. len - 1 /\ n0 + 1 \in 0 .. len - 1 /\ o0 + (n0 + 1) + 1 = o0 + n0 + 2
      BY <1>1, <2>3, <2>4
    <3>2. v[o0 + n0 + 1] \in Still
      BY <2>3, <3>1, OneFixed
    <3>3. v[o0 + (n0 + 1) + 1] \in Still
      BY <2>3, <3>1, OneFixed
    <3> QED
      BY <3>1, <3>2, <3>3, ClampStill
  <2>8. c.rk4w => Slice(v, o0 + 2 * n0 + 2, 4) \in [0 .. 3 -> Still]
    <3> SUFFICES ASSUME c.rk4w PROVE Slice(v, o0 + 2 * n0 + 2, 4) \in [0 .. 3 -> Still]
      OBVIOUS
    <3> DEFINE y == o0 + 2 * n0 + 2
    <3>1. y \in Nat /\ o0 <= y /\ y + 4 <= o0 + len /\ 4 \in Nat
      BY <1>1, <2>3, <2>4
    <3> HIDE DEF y
    <3>2. \A four \in Nat : y + four <= o0 + len => FixedOn(v, y, four)
      BY <2>3, <3>1, FixedNarrows
    <3>3. \A four \in Nat : FixedOn(v, y, four) => Slice(v, y, four) \in NumbersOf(Still, four)
      BY <3>1, SliceFixed
    <3>4. Slice(v, y, 4) \in NumbersOf(Still, 4)
      BY <3>1, <3>2, <3>3
    <3>5. 4 - 1 = 3
      OBVIOUS
    <3> QED
      BY <3>4, <3>5 DEF NumbersOf, y
  <2>9. WeightsOf(Still, b.kerr, n0) => /\ b.kerr.omega \in NumbersOf(Still, n0) /\ b.kerr.chi \in Still
                                        /\ (Still = Number \/ b.kerr.chi[1] = 0) /\ b.kerr.mix \in [0 .. 3 -> Still]
    BY DEF WeightsOf
  <2>10. u.kerr.mix \in [0 .. 3 -> Still]
    BY <1>1, <2>1, <2>2, <2>8, <2>9
  <2>11. WeightsOf(Still, u.kerr, n0)
    BY <1>1, <2>1, <2>2, <2>5, <2>7, <2>9, <2>10 DEF WeightsOf
  <2>12. u.kerr.steps \in Nat /\ u.plate \in NumbersOf(Still, n0)
    BY <1>1, <2>1, <2>2, <2>6
  <2> QED
    BY <2>11, <2>12 DEF n0
<1> QED
  BY <1>2, <1>3

\* The attention with harmonics read from a stretch without a direction is
\* still.
LEMMA HarmonicsFixed ==
  ASSUME NEW c, DimsOk(c), NEW b, BlockShape(c, b), StillAttn(c, b.attn), NEW v, NEW y0 \in Nat, FixedOn(v, y0, DynLen(c))
  PROVE  StillAttn(c, Harmonics(c, b, v, y0))
<1> DEFINE a == b.attn
           new(k) == [a.heads[k] EXCEPT !.raw = v[y0 + k + 1]]
           h == Harmonics(c, b, v, y0)
<1>1. AttnShape(a, c.nHead, Embed(c), HeadOf(c), Content(c)) /\ a = [heads |-> a.heads, out |-> a.out]
  BY DEF BlockShape
<1>2. CASE ~c.dyn
  BY <1>2 DEF Harmonics
<1>3. CASE c.dyn
  <2>1. h = [a EXCEPT !.heads = [k \in DOMAIN a.heads |-> new(k)]]
    BY <1>3, TableIs DEF Harmonics
  <2>2. DOMAIN a.heads = 0 .. c.nHead - 1 /\ (\A k \in 0 .. c.nHead - 1 : HeadShape(a.heads[k], HeadOf(c), Content(c)))
    BY <1>1 DEF AttnShape
  <2>3. ASSUME NEW k \in 0 .. c.nHead - 1 PROVE StillHead(c, new(k))
    <3> DEFINE q == a.heads[k]
               x == v[y0 + k + 1]
    <3>1. HeadShape(q, HeadOf(c), Content(c)) /\ new(k) = [q EXCEPT !.raw = x] /\ StillHead(c, q)
      BY <2>2 DEF StillAttn
    <3>2. x \in Still
      <4>1. FixedOn(v, y0, c.nHead) /\ c.nHead \in Nat
        BY <1>3 DEF DynLen, DimsOk
      <4> HIDE DEF x
      <4> QED
        BY <4>1, OneFixed DEF x
    <3> HIDE DEF q, x, new
    <3>3. q = [raw |-> q.raw, phase |-> q.phase, v |-> q.v, content |-> q.content]
      BY <3>1 DEF HeadShape
    <3>4. new(k) = [raw |-> x, phase |-> q.phase, v |-> q.v, content |-> q.content]
      BY <3>1, <3>3
    <3>5. new(k).raw = x /\ new(k).phase = q.phase /\ new(k).v = q.v /\ new(k).content = q.content
      BY <3>4
    <3> QED
      BY <3>1, <3>2, <3>5 DEF StillHead, HasContent
  <2> HIDE DEF new, h
  <2>4. h.heads = [k \in 0 .. c.nHead - 1 |-> new(k)] /\ h.out = a.out
    BY <1>1, <2>1, <2>2
  <2>5. StillAttn(c, h)
    BY <2>3, <2>4 DEF StillAttn
  <2> QED
    BY <2>5 DEF h
<1> QED
  BY <1>2, <1>3

\* The k-th of n0 stretches of one length ends inside the whole.
LEMMA PlaceFits ==
  ASSUME NEW n0 \in Nat, NEW len \in Nat, NEW k \in 0 .. n0 - 1
  PROVE  k * len \in Nat /\ k * len + len <= n0 * len
<1>1. k \in Nat /\ k + 1 <= n0
  OBVIOUS
<1>2. (k + 1) * len <= n0 * len
  BY <1>1
<1>3. (k + 1) * len = k * len + len /\ k * len \in Nat
  BY <1>1
<1> QED
  BY <1>2, <1>3

\* A head whose layers are read from a stretch without a direction is still.
LEMMA HeadFixed ==
  ASSUME NEW c, DimsOk(c), NEW v, NEW s0 \in Nat, FixedOn(v, s0, PerLen(Embed(c), HeadOf(c), Content(c))),
         NEW q, q.raw \in Still,
         q.phase = SliceLinear(v, s0, 2, Embed(c)),
         q.v = SliceLinear(v, s0 + LinearLen(2, Embed(c)), HeadOf(c), HeadOf(c)),
         q.content = IF Content(c) = 0 THEN <<>>
                     ELSE SliceLinear(v, s0 + LinearLen(2, Embed(c)) + LinearLen(HeadOf(c), HeadOf(c)), Content(c), Embed(c))
  PROVE  StillHead(c, q)
<1> DEFINE e == Embed(c)
           hd == HeadOf(c)
           cd == Content(c)
           x0 == LinearLen(2, e)
           y0 == LinearLen(hd, hd)
           z0 == LinearLen(cd, e)
           s1 == s0 + x0
           s2 == s0 + x0 + y0
           n0 == x0 + y0 + z0
<1>1. e \in Nat /\ hd \in Nat /\ cd \in Nat
  BY SizesType
<1>2. x0 \in Nat /\ y0 \in Nat /\ z0 \in Nat
  <2> HIDE DEF e, hd, cd
  <2>1. 2 \in Nat
    OBVIOUS
  <2> QED
    BY <1>1, <2>1, LinearLenType
<1>3. FixedOn(v, s0, n0)
  BY DEF PerLen
<1>4. \A r0 \in Nat, c0 \in Nat, y \in Nat : FixedOn(v, y, LinearLen(r0, c0)) =>
        StillLinear(SliceLinear(v, y, r0, c0), r0, c0) /\ Size(SliceLinear(v, y, r0, c0).w) = r0
  BY LinearFixed
<1>5. q.phase = SliceLinear(v, s0, 2, e) /\ q.v = SliceLinear(v, s1, hd, hd)
      /\ q.content = IF cd = 0 THEN <<>> ELSE SliceLinear(v, s2, cd, e)
  OBVIOUS
<1> DEFINE lenX == x0
           lenY == y0
           lenZ == z0
<1>6. lenX = LinearLen(2, e) /\ lenY = LinearLen(hd, hd) /\ lenZ = LinearLen(cd, e)
  OBVIOUS
<1>7. s1 = s0 + lenX /\ s2 = s0 + lenX + lenY /\ n0 = lenX + lenY + lenZ
      /\ lenX \in Nat /\ lenY \in Nat /\ lenZ \in Nat
  BY <1>2
<1> HIDE DEF lenX, lenY, lenZ, x0, y0, z0, s1, s2, n0, e, hd, cd
<1>8. /\ s1 \in Nat /\ s2 \in Nat /\ n0 \in Nat
      /\ s0 <= s0 /\ s0 + lenX <= s0 + n0 /\ s0 <= s1 /\ s1 + lenY <= s0 + n0 /\ s0 <= s2 /\ s2 + lenZ <= s0 + n0
  BY <1>7
<1>9. FixedOn(v, s0, lenX)
  BY <1>3, <1>7, <1>8, FixedNarrows
<1>10. FixedOn(v, s1, lenY)
  BY <1>3, <1>7, <1>8, FixedNarrows
<1>11. FixedOn(v, s2, lenZ)
  BY <1>3, <1>7, <1>8, FixedNarrows
<1>12. StillLinear(SliceLinear(v, s0, 2, e), 2, e)
  <2>1. 2 \in Nat
    OBVIOUS
  <2> QED
    BY <1>1, <1>4, <1>6, <1>9, <2>1
<1>13. StillLinear(SliceLinear(v, s1, hd, hd), hd, hd)
  BY <1>1, <1>4, <1>6, <1>8, <1>10
<1>14. StillLinear(SliceLinear(v, s2, cd, e), cd, e) /\ Size(SliceLinear(v, s2, cd, e).w) = cd
  BY <1>1, <1>4, <1>6, <1>8, <1>11
<1>15. HasContent(q) => StillLinear(q.content, cd, e) /\ Size(q.content.w) \in Nat
  BY <1>1, <1>5, <1>14 DEF HasContent
<1> QED
  BY <1>5, <1>12, <1>13, <1>15 DEF StillHead, e, hd, cd

\* Attention read from a stretch without a direction is still.
LEMMA AttnFixed ==
  ASSUME NEW c, DimsOk(c), NEW a, AttnShape(a, c.nHead, Embed(c), HeadOf(c), Content(c)), StillAttn(c, a),
         NEW v, NEW a0 \in Nat,
         FixedOn(v, a0, c.nHead * PerLen(Embed(c), HeadOf(c), Content(c)) + LinearLen(Embed(c), Embed(c)))
  PROVE  StillAttn(c, UnflattenAttn(a, v, a0))
<1> DEFINE nh0 == c.nHead
           e0 == Embed(c)
           hd0 == HeadOf(c)
           cd0 == Content(c)
           per == PerLen(e0, hd0, cd0)
           u == UnflattenAttn(a, v, a0)
           y1(s) == SliceLinear(v, s, 2, e0)
           y2(s) == SliceLinear(v, s + LinearLen(2, e0), hd0, hd0)
           y3(s) == IF cd0 = 0 THEN <<>> ELSE SliceLinear(v, s + LinearLen(2, e0) + LinearLen(hd0, hd0), cd0, e0)
           head(k) == [a.heads[k] EXCEPT !.phase = y1(a0 + k * per), !.v = y2(a0 + k * per), !.content = y3(a0 + k * per)]
           out == SliceLinear(v, a0 + nh0 * per, e0, e0)
           len == LinearLen(e0, e0)
<1>1. per \in Nat /\ e0 \in Nat /\ nh0 \in Nat \ {0} /\ len \in Nat
  BY SizesType, LinearLenType DEF DimsOk
<1>2. /\ Size(a.out.b) = e0 /\ Size(a.heads[0].v.b) = hd0 /\ Size(a.heads) = nh0
      /\ (IF HasContent(a.heads[0]) THEN Size(a.heads[0].content.b) ELSE 0) = cd0
  <2>0. 0 \in 0 .. nh0 - 1
    BY <1>1
  <2>1. HeadShape(a.heads[0], hd0, cd0)
    BY <2>0 DEF AttnShape
  <2>2. Size(a.heads) = nh0
    BY <1>1, SizeIs DEF AttnShape
  <2> QED
    BY <2>1, <2>2 DEF AttnShape, HeadShape, HasContent
<1>3. u = [heads |-> [k \in 0 .. nh0 - 1 |-> head(k)], out |-> out]
  BY <1>2, TableIs DEF UnflattenAttn, PerLen, AttnShape
<1>4. u.heads = [k \in 0 .. nh0 - 1 |-> head(k)] /\ u.out = out
  <2> HIDE DEF head, per, u, out
  <2> QED
    BY <1>3
<1>5. FixedOn(v, a0, nh0 * per + len)
  OBVIOUS
<1>6. ASSUME NEW k \in 0 .. nh0 - 1 PROVE StillHead(c, u.heads[k])
  <2> DEFINE s0 == a0 + k * per
             q == a.heads[k]
             h == head(k)
             n0 == nh0 * per + len
  <2>1. s0 \in Nat /\ a0 <= s0 /\ s0 + per <= a0 + n0 /\ n0 \in Nat
    <3> DEFINE x == k * per
               y == nh0 * per
    <3>1. x \in Nat /\ x + per <= y
      <4> HIDE DEF per, nh0
      <4> QED
        BY <1>1, PlaceFits
    <3>2. y \in Nat
      <4> HIDE DEF per, nh0
      <4> QED
        BY <1>1
    <3> HIDE DEF x, y, per, len
    <3>3. a0 + x \in Nat /\ a0 <= a0 + x /\ a0 + x + per <= a0 + (y + len) /\ y + len \in Nat
      BY <1>1, <3>1, <3>2
    <3> QED
      BY <3>3 DEF x, y
  <2>2. FixedOn(v, s0, per)
    <3> HIDE DEF per, s0, n0
    <3>1. FixedOn(v, a0, n0)
      BY <1>5 DEF n0
    <3> QED
      BY <1>1, <2>1, <3>1, FixedNarrows
  <2>3. HeadShape(q, hd0, cd0) /\ StillHead(c, q)
    BY DEF AttnShape, StillAttn
  <2>4. u.heads[k] = h
    <3> HIDE DEF head
    <3> QED
      BY <1>4
  <2>5. h = [q EXCEPT !.phase = y1(s0), !.v = y2(s0), !.content = y3(s0)]
    OBVIOUS
  <2>6. h.phase = y1(s0) /\ h.v = y2(s0) /\ h.content = y3(s0) /\ h.raw = q.raw
    <3> HIDE DEF y1, y2, y3, q, h, s0, head
    <3>1. {"raw", "phase", "v", "content"} \subseteq DOMAIN q
      BY <2>3 DEF HeadShape
    <3> QED
      BY <2>5, <3>1
  <2>7. h.raw \in Still
    <3> HIDE DEF h, q
    <3> QED
      BY <2>3, <2>6 DEF StillHead
  <2> HIDE DEF h, s0, head, q
  <2>8. StillHead(c, h)
    BY <2>1, <2>2, <2>6, <2>7, HeadFixed
  <2> QED
    BY <2>4, <2>8
<1>7. StillLinear(u.out, e0, e0)
  <2> DEFINE y == nh0 * per
             s0 == a0 + y
             n0 == y + len
  <2>1. y \in Nat
    <3> HIDE DEF per, nh0
    <3> QED
      BY <1>1
  <2>2. s0 \in Nat /\ a0 <= s0 /\ s0 + len <= a0 + n0 /\ n0 \in Nat
    <3> HIDE DEF y, len
    <3> QED
      BY <1>1, <2>1
  <2>3. FixedOn(v, s0, len)
    <3> HIDE DEF s0, n0, len
    <3>1. FixedOn(v, a0, n0)
      BY <1>5 DEF n0, len
    <3> QED
      BY <1>1, <2>2, <3>1, FixedNarrows
  <2>4. u.out = SliceLinear(v, s0, e0, e0)
    <3> HIDE DEF u, head
    <3> QED
      BY <1>4
  <2> HIDE DEF s0, e0, u
  <2> QED
    BY <1>1, <2>2, <2>3, <2>4, LinearFixed DEF e0
<1>8. DOMAIN u.heads = 0 .. nh0 - 1
  <2> HIDE DEF head, u
  <2> QED
    BY <1>4
<1> HIDE DEF u, head
<1>9. StillAttn(c, u)
  BY <1>6, <1>7, <1>8 DEF StillAttn
<1> QED
  BY <1>9 DEF u

\* A projection whose groups are read from a stretch without a direction is
\* still.
LEMMA GroupsFixed ==
  ASSUME NEW v, NEW a0 \in Nat, NEW n0 \in Nat \ {0}, NEW gs0 \in Nat, FixedOn(v, a0, n0 * LinearLen(gs0, gs0)), NEW op,
         op.groups = [k \in 0 .. n0 - 1 |-> SliceLinear(v, a0 + k * LinearLen(gs0, gs0), gs0, gs0)]
  PROVE  StillProjection(op, n0, gs0)
<1> DEFINE len == LinearLen(gs0, gs0)
<1>1. len \in Nat
  BY LinearLenType
<1>2. ASSUME NEW k \in 0 .. n0 - 1
      PROVE  StillLinear(op.groups[k], gs0, gs0) /\ Size(op.groups[k].w) = gs0
  <2> DEFINE x == k * len
             y == n0 * len
             s0 == a0 + x
  <2>1. x \in Nat /\ x + len <= y
    <3> HIDE DEF len
    <3> QED
      BY <1>1, PlaceFits
  <2>2. y \in Nat
    <3> HIDE DEF len
    <3> QED
      BY <1>1
  <2>3. op.groups[k] = SliceLinear(v, s0, gs0, gs0) /\ FixedOn(v, a0, y)
    OBVIOUS
  <2> HIDE DEF x, y
  <2>4. s0 \in Nat /\ a0 <= s0 /\ s0 + len <= a0 + y
    <3> HIDE DEF len
    <3> QED
      BY <1>1, <2>1, <2>2
  <2> HIDE DEF s0
  <2>5. FixedOn(v, s0, len)
    <3> HIDE DEF len
    <3> QED
      BY <1>1, <2>2, <2>3, <2>4, FixedNarrows
  <2> QED
    BY <2>3, <2>4, <2>5, LinearFixed
<1>3. DOMAIN op.groups = 0 .. n0 - 1 /\ 0 \in 0 .. n0 - 1
  OBVIOUS
<1>4. GroupSize(op) = gs0
  BY <1>2, <1>3 DEF GroupSize
<1> QED
  BY <1>2, <1>3, <1>4 DEF StillProjection

\* A block read from a stretch without a direction is still.
LEMMA BlockFixed ==
  ASSUME NEW c, DimsOk(c), NEW b, BlockShape(c, b), StillBlock(c, b), NEW v, NEW a0 \in Nat, FixedOn(v, a0, BlockLen(c))
  PROVE  StillBlock(c, UnflattenBlock(c, b, v, a0))
<1> DEFINE u == UnflattenBlock(c, b, v, a0)
           e == Embed(c)
           md == c.md
           gs == GroupOf(c)
           mae == Mae(md, e)
           opL == OpLen(c)
           odeL == OdeLen(c)
           dynL == DynLen(c)
           attnL == AttnLen(c)
           len == BlockLen(c)
           in0 == a0 + 4 * e
           in1 == in0 + mae
           op == OpAt(c, a0)
           ode == OdeAt(c, a0)
           dyn == DynAt(c, a0)
           attn == AttnAt(c, a0)
           h == Harmonics(c, b, v, dyn)
<1>1. e \in Nat /\ md \in Nat /\ gs \in Nat /\ mae \in Nat /\ opL \in Nat /\ odeL \in Nat /\ dynL \in Nat /\ attnL \in Nat
      /\ len \in Nat
  BY SizesType DEF DimsOk
<1>2. /\ len = 4 * e + 2 * mae + opL + odeL + dynL + attnL
      /\ op = a0 + 4 * e + 2 * mae /\ ode = op + opL /\ dyn = ode + odeL /\ attn = dyn + dynL
  BY DEF BlockLen, OpAt, OdeAt, DynAt, AttnAt
<1>3. FixedOn(v, a0, len)
  OBVIOUS
<1>4.
         /\ u.ln = [w |-> Slice(v, a0, Embed(c)), b |-> Slice(v, a0 + Embed(c), Embed(c))]
         /\ u.lnFfn = [w |-> Slice(v, a0 + 2 * Embed(c), Embed(c)), b |-> Slice(v, a0 + 3 * Embed(c), Embed(c))]
         /\ u.maestroIn = UnflattenMaestro(v, a0 + 4 * Embed(c), c.md, Embed(c))
         /\ u.maestroOut = UnflattenMaestro(v, a0 + 4 * Embed(c) + Mae(c.md, Embed(c)), c.md, Embed(c))
         /\ u.outProj.groups = [k \in 0 .. c.groups - 1 |->
              SliceLinear(v, OpAt(c, a0) + k * LinearLen(GroupOf(c), GroupOf(c)), GroupOf(c), GroupOf(c))]
         /\ c.learnOde => /\ u.kerr.gammaRaw = Slice(v, OdeAt(c, a0), c.nBands)
                          /\ u.kerr.alpha = Clamp(v[OdeAt(c, a0) + c.nBands + 1])
                          /\ u.kerr.beta = Clamp(v[OdeAt(c, a0) + c.nBands + 2])
                          /\ c.rk4w => u.kerr.mix = Slice(v, OdeAt(c, a0) + 2 * c.nBands + 2, 4)
                          /\ u.plate = Slice(v, OdeAt(c, a0) + c.nBands + 2, c.nBands)
         /\ u.attn = IF c.learnAttn THEN UnflattenAttn(Harmonics(c, b, v, DynAt(c, a0)), v, AttnAt(c, a0))
                     ELSE Harmonics(c, b, v, DynAt(c, a0))
  BY BlockFields
<1>5. u.ln = [w |-> Slice(v, a0, e), b |-> Slice(v, a0 + e, e)]
  BY <1>4
<1>6. u.maestroIn = UnflattenMaestro(v, in0, md, e) /\ u.maestroOut = UnflattenMaestro(v, in1, md, e)
  BY <1>4
<1>7. u.outProj.groups = [k \in 0 .. c.groups - 1 |-> SliceLinear(v, op + k * LinearLen(gs, gs), gs, gs)]
  BY <1>4
<1>8. u.attn = IF c.learnAttn THEN UnflattenAttn(h, v, attn) ELSE h
  BY <1>4
<1> DEFINE x0 == in0
           x1 == in1
<1>9. x0 = a0 + 4 * e /\ x1 = a0 + 4 * e + mae
  OBVIOUS
<1>10. StillFfn(c, b) /\ StillAttn(c, b.attn)
  BY DEF StillBlock
<1> HIDE DEF u, e, md, gs, mae, opL, odeL, dynL, attnL, len, op, ode, dyn, attn, in0, in1, x0, x1, h
<1>11. /\ x0 \in Nat /\ x1 \in Nat /\ op \in Nat /\ ode \in Nat /\ dyn \in Nat /\ attn \in Nat
       /\ a0 <= a0 /\ 2 * e \in Nat /\ a0 + 2 * e <= a0 + len
       /\ a0 <= x0 /\ x0 + mae <= a0 + len
       /\ a0 <= x1 /\ x1 + mae <= a0 + len
       /\ a0 <= op /\ op + opL <= a0 + len
       /\ a0 <= ode /\ ode + odeL <= a0 + len
       /\ a0 <= dyn /\ dyn + dynL <= a0 + len
       /\ a0 <= attn /\ attn + attnL <= a0 + len
  BY <1>1, <1>2, <1>9
<1>12. \A a1 \in Nat, n1 \in Nat : a0 <= a1 /\ a1 + n1 <= a0 + len => FixedOn(v, a1, n1)
  BY <1>1, <1>3, FixedNarrows
<1>13. FixedOn(v, a0, 2 * e) /\ FixedOn(v, x0, mae) /\ FixedOn(v, x1, mae) /\ FixedOn(v, op, opL)
       /\ FixedOn(v, ode, odeL) /\ FixedOn(v, dyn, dynL) /\ FixedOn(v, attn, attnL)
  BY <1>1, <1>11, <1>12
<1>14. StillNorm(u.ln, e)
  BY <1>1, <1>5, <1>13, NormFixed
<1>15. StillMaestro(u.maestroIn, md, e) /\ StillMaestro(u.maestroOut, md, e)
  <2>1. \A y \in Nat : FixedOn(v, y, Mae(md, e)) => StillMaestro(UnflattenMaestro(v, y, md, e), md, e)
    BY <1>1, MaestroFixed
  <2>2. FixedOn(v, x0, Mae(md, e)) /\ FixedOn(v, x1, Mae(md, e))
    BY <1>13 DEF mae
  <2>3. StillMaestro(UnflattenMaestro(v, x0, md, e), md, e) /\ StillMaestro(UnflattenMaestro(v, x1, md, e), md, e)
    BY <1>11, <2>1, <2>2
  <2> QED
    BY <1>6, <2>3 DEF x0, x1
<1>16. StillProjection(u.outProj, c.groups, gs)
  <2>1. c.groups \in Nat \ {0}
    BY DEF DimsOk
  <2>2. FixedOn(v, op, c.groups * LinearLen(gs, gs))
    BY <1>13 DEF opL, OpLen, gs
  <2> QED
    BY <1>1, <1>7, <1>11, <2>1, <2>2, GroupsFixed
<1>17. WeightsOf(Still, u.kerr, c.nBands) /\ u.kerr.steps \in Nat /\ u.plate \in NumbersOf(Still, c.nBands)
  <2>1. OdeAt(c, a0) \in Nat /\ FixedOn(v, OdeAt(c, a0), OdeLen(c)) /\ u = UnflattenBlock(c, b, v, a0)
    BY <1>11, <1>13 DEF ode, odeL, u
  <2> QED
    BY <1>10, <2>1, KerrFixed
<1>18. StillAttn(c, u.attn)
  <2>1. StillAttn(c, h)
    <3>1. FixedOn(v, dyn, DynLen(c))
      BY <1>13 DEF dynL
    <3> QED
      BY <1>10, <1>11, <3>1, HarmonicsFixed DEF h
  <2>2. CASE ~c.learnAttn
    BY <1>8, <2>1, <2>2
  <2>3. CASE c.learnAttn
    <3>1. AttnShape(h, c.nHead, Embed(c), HeadOf(c), Content(c))
      <4>1. /\ AttnShape(Harmonics(c, b, v, dyn), c.nHead, Embed(c), HeadOf(c), Content(c))
            /\ c.dyn => \A k \in 0 .. c.nHead - 1 : Harmonics(c, b, v, dyn).heads[k].raw = v[dyn + k + 1]
        BY HarmonicsIs
      <4> QED
        BY <4>1 DEF h
    <3>2. FixedOn(v, attn, c.nHead * PerLen(Embed(c), HeadOf(c), Content(c)) + LinearLen(Embed(c), Embed(c)))
      BY <1>13, <2>3 DEF attnL, AttnLen
    <3>3. StillAttn(c, UnflattenAttn(h, v, attn))
      BY <1>11, <2>1, <3>1, <3>2, AttnFixed
    <3> QED
      BY <1>8, <2>3, <3>3
  <2> QED
    BY <2>2, <2>3
<1>19. StillFfn(c, u)
  BY <1>15, <1>16, <1>17 DEF StillFfn, e, md, gs
<1> QED
  BY <1>14, <1>18, <1>19 DEF StillBlock, u, e

\* A model read from a vector without a direction is still, and keeps its
\* embeddings.
LEMMA ModelFixed ==
  ASSUME NEW c, DimsOk(c), NEW q, ModelShape(c, q), StillModel(c, q), NEW v, FixedOn(v, 0, ModelLen(c, q.head)),
         NEW u, u = UnflattenParams(c, q, v)
  PROVE  StillModel(c, u) /\ u.wte = q.wte /\ u.wpe = q.wpe
<1> DEFINE e == Embed(c)
           len == BlockLen(c)
           n0 == c.layers
           all == n0 * len
           sl == ScaleLen(c)
           dl == DecoderLen(c, q.head)
           b2 == all + sl
           total == ModelLen(c, q.head)
<1>1. e \in Nat /\ len \in Nat /\ n0 \in Nat /\ dl \in Nat
  BY SizesType, DecoderLenType DEF DimsOk
<1>2. all \in Nat /\ sl \in Nat
  <2> HIDE DEF len
  <2> QED
    BY <1>1 DEF ScaleLen
<1>3. total = all + sl + 2 * e + dl
  BY DEF ModelLen
<1>4. LET b1 == c.layers * BlockLen(c)
          b3 == b1 + ScaleLen(c)
      IN  /\ u = [wte |-> q.wte, wpe |-> q.wpe, blocks |-> u.blocks, scale |-> u.scale, lnF |-> u.lnF, head |-> u.head]
          /\ u.blocks = [k \in 0 .. c.layers - 1 |-> UnflattenBlock(c, q.blocks[k], v, k * BlockLen(c))]
          /\ c.layerScale => u.scale = [k \in 0 .. c.layers - 1 |-> Clamp(v[b1 + k + 1])]
          /\ u.lnF = [w |-> Slice(v, b3, Embed(c)), b |-> Slice(v, b3 + Embed(c), Embed(c))]
          /\ u.head = UnflattenHead(c, q.head, v, b3 + 2 * Embed(c))
  BY ParamsFields
<1>5. /\ u = [wte |-> q.wte, wpe |-> q.wpe, blocks |-> u.blocks, scale |-> u.scale, lnF |-> u.lnF, head |-> u.head]
      /\ u.blocks = [k \in 0 .. n0 - 1 |-> UnflattenBlock(c, q.blocks[k], v, k * len)]
      /\ c.layerScale => u.scale = [k \in 0 .. n0 - 1 |-> Clamp(v[all + k + 1])]
      /\ u.lnF = [w |-> Slice(v, b2, e), b |-> Slice(v, b2 + e, e)]
  BY <1>4
<1>6. FixedOn(v, 0, total) /\ 0 \in Nat
  OBVIOUS
<1> HIDE DEF total, dl, b2
<1>7. \A a1 \in Nat, n1 \in Nat : a1 + n1 <= total => FixedOn(v, a1, n1)
  <2> HIDE DEF e, len, all, sl
  <2>1. total \in Nat
    BY <1>1, <1>2, <1>3
  <2>2. ASSUME NEW a1 \in Nat, NEW n1 \in Nat, a1 + n1 <= total PROVE FixedOn(v, a1, n1)
    <3>1. 0 <= a1 /\ a1 + n1 <= 0 + total
      BY <2>1, <2>2
    <3> QED
      BY <1>6, <2>1, <3>1, FixedNarrows
  <2> QED
    BY <2>2
<1>8. ASSUME NEW k \in 0 .. n0 - 1 PROVE StillBlock(c, u.blocks[k])
  <2> DEFINE s0 == k * len
  <2>1. s0 \in Nat /\ s0 + len <= all
    <3> HIDE DEF len
    <3> QED
      BY <1>1, PlaceFits
  <2>2. u.blocks[k] = UnflattenBlock(c, q.blocks[k], v, s0)
    BY <1>5
  <2> HIDE DEF s0
  <2>3. FixedOn(v, s0, len)
    <3> HIDE DEF e, len, all, sl
    <3>1. s0 + len <= total
      BY <1>1, <1>2, <1>3, <2>1
    <3> QED
      BY <1>1, <1>7, <2>1, <3>1
  <2>4. BlockShape(c, q.blocks[k]) /\ StillBlock(c, q.blocks[k])
    BY DEF ModelShape, StillModel
  <2> QED
    BY <2>1, <2>2, <2>3, <2>4, BlockFixed
<1>9. c.layerScale => \A k \in 0 .. n0 - 1 : u.scale[k] \in Still
  <2> SUFFICES ASSUME c.layerScale, NEW k \in 0 .. n0 - 1 PROVE u.scale[k] \in Still
    OBVIOUS
  <2> HIDE DEF e, len, all
  <2>1. sl = n0
    BY DEF ScaleLen
  <2> HIDE DEF sl
  <2>2. all + n0 <= total
    BY <1>1, <1>2, <1>3, <2>1
  <2>3. FixedOn(v, all, n0)
    BY <1>1, <1>2, <1>7, <2>2
  <2>4. v[all + k + 1] \in Still
    BY <1>1, <1>2, <2>3, OneFixed
  <2> QED
    BY <1>5, <2>4, ClampStill
<1>10. StillNorm(u.lnF, e)
  <2> HIDE DEF e, len, all, sl
  <2>1. b2 \in Nat /\ 2 * e \in Nat /\ b2 + 2 * e <= total
    BY <1>1, <1>2, <1>3 DEF b2
  <2>2. FixedOn(v, b2, 2 * e)
    BY <1>7, <2>1
  <2> QED
    BY <1>1, <1>5, <2>1, <2>2, NormFixed
<1>11. u.wte = q.wte /\ u.wpe = q.wpe
  BY <1>5
<1> QED
  BY <1>8, <1>9, <1>10, <1>11 DEF StillModel

\* The rows of the token table have no direction.
LEMMA TokenRowsStill ==
  ASSUME NEW c, DimsOk(c), NEW seed0 \in Int, NEW k \in 0 .. c.vocab - 1
  PROVE  TokenTable(c, seed0)[k] \in NumbersOf(Still, Embed(c))
<1> DEFINE e == Embed(c)
           row == [j \in 0 .. e - 1 |-> Con(Noise(seed0, 60, e * k + j)[1])]
<1>1. e \in Nat /\ k \in Int
  BY SizesType DEF DimsOk
<1>2. TokenTable(c, seed0)[k] = row
  <2>1. TokenTable(c, seed0)
          = [v \in 0 .. c.vocab - 1 |-> [j \in 0 .. e - 1 |-> Con(Noise(seed0, 60, e * v + j)[1])]]
    BY TableIs DEF TokenTable, Grid
  <2> QED
    BY <2>1
<1> HIDE DEF e
<1>3. ASSUME NEW j \in 0 .. e - 1 PROVE Con(Noise(seed0, 60, e * k + j)[1]) \in Still
  <2> DEFINE x == Noise(seed0, 60, e * k + j)
  <2>1. e * k + j \in Int
    BY <1>1
  <2>2. x \in Number
    BY <2>1, NoiseType
  <2> HIDE DEF x
  <2>3. Con(x[1]) \in Still
    BY <2>2, NumberParts, ConIsStill
  <2> QED
    BY <2>3 DEF x
<1>4. row \in NumbersOf(Still, e)
  BY <1>3 DEF NumbersOf
<1> QED
  BY <1>2, <1>4 DEF e

\* Of the position rows, only the last one has a direction, when that is what
\* the job varies.
LEMMA PositionRowsLeveled ==
  ASSUME NEW c, DimsOk(c), NEW seed0 \in Int, NEW k \in 0 .. c.T - 1
  PROVE  PositionTable(c, seed0, "last")[k] \in NumbersOf(Level(c.T, k), Embed(c))
<1> DEFINE e == Embed(c)
           entry(x) == IF k = c.T - 1 THEN x ELSE Con(x[1])
           row == [j \in 0 .. e - 1 |-> entry(Noise(seed0, 61, e * k + j))]
<1>1. e \in Nat /\ k \in Int
  BY SizesType DEF DimsOk
<1>2. PositionTable(c, seed0, "last")[k] = row
  <2> DEFINE value(v, x) == IF "last" = "last" /\ v = c.T - 1 THEN x ELSE Con(x[1])
  <2>1. PositionTable(c, seed0, "last")
          = [v \in 0 .. c.T - 1 |-> [j \in 0 .. e - 1 |-> value(v, Noise(seed0, 61, e * v + j))]]
    BY TableIs DEF PositionTable, Grid
  <2>2. PositionTable(c, seed0, "last")[k] = [j \in 0 .. e - 1 |-> value(k, Noise(seed0, 61, e * k + j))]
    <3> HIDE DEF value
    <3> QED
      BY <2>1
  <2>3. \A x : value(k, x) = entry(x)
    OBVIOUS
  <2> HIDE DEF value, entry
  <2> QED
    BY <2>2, <2>3
<1> HIDE DEF e
<1>3. ASSUME NEW j \in 0 .. e - 1 PROVE entry(Noise(seed0, 61, e * k + j)) \in Level(c.T, k)
  <2> DEFINE x == Noise(seed0, 61, e * k + j)
  <2>1. e * k + j \in Int
    BY <1>1
  <2>2. x \in Number
    BY <2>1, NoiseType
  <2> HIDE DEF x
  <2>3. Con(x[1]) \in Still
    BY <2>2, NumberParts, ConIsStill
  <2>4. entry(x) \in Level(c.T, k)
    BY <2>2, <2>3 DEF Level
  <2> QED
    BY <2>4 DEF x
<1> HIDE DEF entry
<1>4. row \in NumbersOf(Level(c.T, k), e)
  BY <1>3 DEF NumbersOf
<1> QED
  BY <1>2, <1>4 DEF e

\* The embedding of the tokens is leveled.
LEMMA EmbedLeveled ==
  ASSUME DimsOk(d), job.seed \in Int, NEW model, model.wte = TokenTable(d, job.seed),
         model.wpe = PositionTable(d, job.seed, "last")
  PROVE  Leveled(EmbedTokens(model), d.T, Embed(d))
<1> DEFINE t0 == d.T
           e == Embed(d)
           x == EmbedTokens(model)
<1>1. t0 \in Nat /\ e \in Nat /\ d.vocab \in Nat \ {0}
  BY SizesType DEF DimsOk
<1>2. x = [k \in 0 .. t0 - 1 |-> VAdd(model.wte[Token(k)], model.wpe[k])]
  BY TableIs DEF EmbedTokens
<1>3. ASSUME NEW k \in 0 .. t0 - 1 PROVE VAdd(model.wte[Token(k)], model.wpe[k]) \in NumbersOf(Level(t0, k), e)
  <2> DEFINE S == Level(t0, k)
             y1 == model.wte[Token(k)]
             y2 == model.wpe[k]
  <2>1. Token(k) \in 0 .. d.vocab - 1
    <3> DEFINE n0 == d.vocab
    <3>1. job.seed + k * k \in Int /\ n0 \in Nat \ {0}
      BY <1>1
    <3> HIDE DEF n0
    <3>2. (job.seed + k * k) % n0 \in 0 .. n0 - 1
      BY <3>1
    <3> QED
      BY <3>2 DEF Token, n0
  <2>2. y1 \in NumbersOf(Still, e)
    BY <2>1, TokenRowsStill
  <2>3. y2 \in NumbersOf(S, e)
    BY PositionRowsLeveled
  <2>4. Kind(S) /\ Zero \in S
    BY LevelKind, KindConstants
  <2> HIDE DEF S, y1, y2
  <2>5. y1 \in NumbersOf(S, e)
    BY <2>2, <2>4, StillWidens
  <2>6. VAdd(y1, y2) \in NumbersOf(S, e)
    BY <1>1, <2>3, <2>4, <2>5, VectorOps
  <2> QED
    BY <2>6 DEF y1, y2, S
<1> HIDE DEF x
<1>4. Leveled(x, t0, e)
  BY <1>2, <1>3 DEF Leveled
<1> QED
  BY <1>4 DEF x

\* The model written back from the vector is still, when the job varies the last
\* position.
LEMMA WrittenStill ==
  ASSUME LayoutIInv, job.vary = "last", NEW model, model = UnflattenParams(d, fresh, p)
  PROVE  StillModel(d, model) /\ model.wte = TokenTable(d, job.seed) /\ model.wpe = PositionTable(d, job.seed, "last")
<1> DEFINE n0 == CountTrainable(d, fresh)
<1>1. DimsOk(d) /\ job.seed \in Int
  BY ModelPassAssumption DEF LayoutIInv, FreshOk, d
<1>2. fresh = InitModel(d, job.seed, TokenTable(d, job.seed), PositionTable(d, job.seed, "last"))
  BY DEF LayoutIInv, FreshOk
<1>3. n0 = ModelLen(d, fresh.head) /\ ModelShape(d, fresh)
  BY <1>1, <1>2, CountIs, InitModelShape
<1>4. StillModel(d, fresh) /\ fresh.wte = TokenTable(d, job.seed)
      /\ fresh.wpe = PositionTable(d, job.seed, "last")
  <2> DEFINE x == TokenTable(d, job.seed)
             y == PositionTable(d, job.seed, "last")
  <2>1. fresh = InitModel(d, job.seed, x, y)
    BY <1>2
  <2> HIDE DEF x, y
  <2>2. StillModel(d, InitModel(d, job.seed, x, y)) /\ InitModel(d, job.seed, x, y).wte = x
        /\ InitModel(d, job.seed, x, y).wpe = y
    BY <1>1, InitModelStill
  <2> QED
    BY <2>1, <2>2 DEF x, y
<1>5. p = [k \in 1 .. n0 |-> Entry(k)]
  BY DEF LayoutIInv
<1>6. FixedOn(p, 0, n0)
  <2> HIDE DEF n0
  <2>1. ASSUME NEW k \in 1 .. n0 PROVE p[0 + k] \in Still
    <3> DEFINE x == Noise(job.seed, 77, k)
    <3>1. k \in Int /\ 0 + k = k
      OBVIOUS
    <3>2. x \in Number
      BY <1>1, <3>1, NoiseType
    <3>3. Entry(k) = Con(x[1])
      BY DEF Entry
    <3> HIDE DEF x
    <3>4. Con(x[1]) \in Still
      BY <3>2, NumberParts, ConIsStill
    <3> QED
      BY <1>5, <3>1, <3>3, <3>4
  <2> QED
    BY <2>1 DEF FixedOn
<1> HIDE DEF n0
<1>7. FixedOn(p, 0, ModelLen(d, fresh.head))
  BY <1>3, <1>6
<1>8. StillModel(d, model) /\ model.wte = fresh.wte /\ model.wpe = fresh.wpe
  BY <1>1, <1>3, <1>4, <1>7, ModelFixed
<1> QED
  BY <1>4, <1>8

-----------------------------------------------------------------------------
(* No row before the last has a direction *)

\* The inductive invariant: the layout is right, and when the job varies the
\* last position, the passage is leveled between any two blocks and after the
\* last norm.
CausalIInv ==
  /\ LayoutIInv
  /\ job.vary = "last" =>
       /\ pc = "params" => i = 0
       /\ pc = "forward" => i \in Nat /\ Leveled(hidden, d.T, Embed(d))
       /\ post # <<>> => Leveled(post, d.T, Embed(d))

\* The first states satisfy it.
LEMMA CausalInit == Init => CausalIInv
<1> SUFFICES ASSUME Init PROVE CausalIInv
  OBVIOUS
<1>1. LayoutIInv
  BY LayoutInit
<1>2. pc = "params" /\ i = 0 /\ post = <<>>
  BY DEF Init
<1> QED
  BY <1>1, <1>2 DEF CausalIInv

\* Every step keeps it: embedding makes a leveled passage and each block keeps
\* it leveled.
LEMMA CausalNext == CausalIInv /\ [Next]_vars => CausalIInv'
<1> SUFFICES ASSUME CausalIInv, [Next]_vars PROVE CausalIInv'
  OBVIOUS
<1>1. LayoutIInv /\ LayoutIInv'
  BY LayoutNext DEF CausalIInv
<1>2. DimsOk(d) /\ job.seed \in Int /\ d.T \in Nat \ {0} /\ Embed(d) \in Nat /\ d.layers \in Nat
  <2>1. DimsOk(d) /\ job.seed \in Int
    BY <1>1, ModelPassAssumption DEF LayoutIInv, FreshOk, d
  <2> QED
    BY <2>1, SizesType DEF DimsOk
<1>3. job' = job /\ d' = d
  BY DEF Next, vars, WriteParams, Forward, Loss, Backward, Collect, d
<1>4. Embed(d)' = Embed(d) /\ (d.T)' = d.T
  BY <1>3 DEF Embed
<1> SUFFICES ASSUME job.vary = "last"
             PROVE  /\ pc' = "params" => i' = 0
                    /\ pc' = "forward" => i' \in Nat /\ Leveled(hidden', d.T, Embed(d))
                    /\ post' # <<>> => Leveled(post', d.T, Embed(d))
  <2>1. CASE job.vary # "last"
    BY <1>1, <1>3, <2>1 DEF CausalIInv
  <2>2. CASE job.vary = "last"
    <3>1. /\ pc' = "params" => i' = 0
          /\ pc' = "forward" => i' \in Nat /\ Leveled(hidden', d.T, Embed(d))
          /\ post' # <<>> => Leveled(post', d.T, Embed(d))
      BY <2>2
    <3>2. Leveled(hidden, d.T, Embed(d))' <=> Leveled(hidden', d.T, Embed(d))
      BY <1>3 DEF Leveled, NumbersOf, Level, Embed
    <3>3. Leveled(post, d.T, Embed(d))' <=> Leveled(post', d.T, Embed(d))
      BY <1>3 DEF Leveled, NumbersOf, Level, Embed
    <3> QED
      BY <1>1, <3>1, <3>2, <3>3 DEF CausalIInv
  <2> QED
    BY <2>1, <2>2
<1>5. /\ pc = "params" => i = 0
      /\ pc = "forward" => i \in Nat /\ Leveled(hidden, d.T, Embed(d))
      /\ post # <<>> => Leveled(post, d.T, Embed(d))
  BY DEF CausalIInv
<1>6. pc # "params" => StillModel(d, m)
  <2> SUFFICES ASSUME pc # "params" PROVE StillModel(d, m)
    OBVIOUS
  <2>1. m = UnflattenParams(d, fresh, p)
    BY <1>1 DEF LayoutIInv, Written
  <2> QED
    BY <1>1, <2>1, WrittenStill
<1>7. CASE UNCHANGED vars
  BY <1>5, <1>7 DEF vars
<1>8. CASE WriteParams
  <2>1. pc = "params" /\ pc' = "forward" /\ i' = i /\ post' = post /\ hidden' = EmbedTokens(m')
    BY <1>8 DEF WriteParams
  <2>2. PICK written \in {UnflattenParams(d, fresh, p)} : m' = IF job.vary = "harmonics" THEN Bent(written) ELSE written
    BY <1>8 DEF WriteParams
  <2>3. m' = written /\ written = UnflattenParams(d, fresh, p)
    BY <2>2
  <2>4. written.wte = TokenTable(d, job.seed) /\ written.wpe = PositionTable(d, job.seed, "last")
    BY <1>1, <2>3, WrittenStill
  <2>5. Leveled(EmbedTokens(written), d.T, Embed(d))
    BY <1>2, <2>4, EmbedLeveled
  <2> QED
    BY <1>5, <2>1, <2>3, <2>5
<1>9. CASE Forward
  <2>1. pc = "forward" /\ i < d.layers /\ i' = i + 1 /\ pc' = pc /\ post' = post
    BY <1>9 DEF Forward
  <2>2. hidden' = BlockForward(d, m, i, hidden).out
    BY <1>9 DEF Forward
  <2>3. i \in 0 .. d.layers - 1
    BY <1>2, <1>5, <2>1
  <2>4. Leveled(BlockForward(d, m, i, hidden).out, d.T, Embed(d))
    BY <1>2, <1>5, <1>6, <2>1, <2>3, BlockLeveled
  <2> QED
    BY <1>5, <2>1, <2>2, <2>3, <2>4
<1>10. CASE Loss
  <2>1. pc = "forward" /\ pc' = "backward" /\ post' = Each(hidden, LAMBDA h : LayerNorm(m.lnF, h))
    BY <1>10 DEF Loss
  <2>2. post' = NormRows(m.lnF, hidden)
    BY <2>1 DEF NormRows
  <2>3. StillNorm(m.lnF, Embed(d))
    BY <1>6, <2>1 DEF StillModel
  <2>4. Leveled(NormRows(m.lnF, hidden), d.T, Embed(d))
    BY <1>2, <1>5, <2>1, <2>3, NormLeveled
  <2> QED
    BY <2>1, <2>2, <2>4
<1>11. CASE Backward
  <2>1. pc' = "backward" /\ post' = post
    BY <1>11 DEF Backward
  <2> QED
    BY <1>5, <2>1
<1>12. CASE Collect
  <2>1. pc' = "done" /\ post' = post
    BY <1>12 DEF Collect
  <2> QED
    BY <1>5, <2>1
<1> QED
  BY <1>7, <1>8, <1>9, <1>10, <1>11, <1>12 DEF Next

\* A leveled passage is a causal one: what moves in the last position moves
\* nothing before it.
LEMMA LevelsAreCausal == CausalIInv => Causal
<1> SUFFICES ASSUME CausalIInv, job.vary = "last", post # <<>>,
                    NEW k \in 0 .. d.T - 2, NEW j \in DOMAIN post[k]
             PROVE  post[k][j][2] = 0
  BY DEF Causal
<1>1. d.T \in Nat \ {0}
  BY ModelPassAssumption DEF CausalIInv, LayoutIInv, FreshOk, d, DimsOk
<1>2. Leveled(post, d.T, Embed(d))
  BY DEF CausalIInv
<1>3. k \in 0 .. d.T - 1 /\ k # d.T - 1
  BY <1>1
<1>4. post[k] \in NumbersOf(Still, Embed(d))
  BY <1>2, <1>3 DEF Leveled, Level
<1>5. post[k][j] \in Still
  BY <1>4 DEF NumbersOf
<1> QED
  BY <1>5 DEF Still

\* The inductive invariant holds in every reachable state.
THEOREM CausalIInvAlways == Spec => []CausalIInv
BY CausalInit, CausalNext, PTL DEF Spec

\* Causality, for any dimensions, heads, weights and flags: what is put into the
\* last position never reaches the hidden state of an earlier one, through any
\* number of blocks; attention looks only back (attn.rs), and everything else
\* looks at one position at a time.
THEOREM CausalAlways == Spec => []Causal
BY CausalIInvAlways, LevelsAreCausal, PTL

=============================================================================
