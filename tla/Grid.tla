-------------------------------- MODULE Grid --------------------------------
(***************************************************************************)
(* The two-modulus embedding table of common/embed.rs and the wave dataset *)
(* file of common/kwds.rs that is written from it.                         *)
(*                                                                         *)
(* A row of the table is known by the two fractions of a turn its bands    *)
(* are multiples of: <<k, m>> is the angle 2 pi k / m.  A wave record is   *)
(* a row and the position added to it (NoPos where none is).               *)
(***************************************************************************)
EXTENDS Integers, Sequences, SequencesExt, FiniteSetsExt

Gcd(a, b) ==
    LET gcd[y \in 0 .. b] ==
          [x \in 0 .. a + b |-> IF y = 0 THEN x ELSE gcd[x % y][y]]
    IN  gcd[b][a]

CeilSqrt(n) == Min({r \in 0 .. n : r * r >= n})

FindCoprimeModuli(vocab) ==
    LET root == CeilSqrt(vocab)
        m1   == IF root % 2 = 0 THEN root + 1 ELSE root
        far  == m1 + 2 + vocab
        m2   == Min({m \in m1 + 2 .. far : Gcd(m1, m) = 1 /\ m1 * m >= vocab})
    IN  <<m1, m2>>

\* --m1 and --m2: both or neither, and coprime; anything else panics.  0 is
\* the flag left out.
NoModulus == 0
ModuliAccepted(m1, m2) ==
    \/ m1 = NoModulus /\ m2 = NoModulus
    \/ m1 # NoModulus /\ m2 # NoModulus /\ Gcd(m1, m2) = 1
Moduli(vocab, m1, m2) ==
    IF m1 = NoModulus THEN FindCoprimeModuli(vocab) ELSE <<m1, m2>>

Row(moduli, tok) == <<<<tok % moduli[1], moduli[1]>>, <<tok % moduli[2], moduli[2]>>>>
Table(vocab, m1, m2) ==
    LET moduli == Moduli(vocab, m1, m2)
    IN  [tok \in 0 .. vocab - 1 |-> Row(moduli, tok)]

-----------------------------------------------------------------------------
(* KWDS.  A file is its header (n positions, bands) and the records that    *)
(* have reached it: n inputs, then n targets.                               *)

NoPos == -1
NoRow == <<>>
Zero  == [row |-> NoRow, pos |-> NoPos]   \* the wave of a token outside the table

InputWave(table, blockSize, toks, i) ==      \* i counts from 0
    IF toks[i + 1] \in DOMAIN table
    THEN [row |-> table[toks[i + 1]], pos |-> i % blockSize] ELSE Zero
TargetWave(table, toks, i) ==
    IF toks[i + 2] \in DOMAIN table
    THEN [row |-> table[toks[i + 2]], pos |-> NoPos] ELSE Zero

Positions(toks) == Len(toks) - 1             \* the last token has no target

\* The record written r-th, from 0.
Record(table, blockSize, toks, r) ==
    IF r < Positions(toks) THEN InputWave(table, blockSize, toks, r)
    ELSE TargetWave(table, toks, r - Positions(toks))

\* Where a record stands, in records after the header.
InputOffset(header, pos)  == pos
TargetOffsetPlain(header, pos) == pos   \* mutant: the inputs are not stepped over
TargetOffset(header, pos) == header.n + pos

\* A window is read whole or not at all (read_exact fails on a short file).
Readable(recs, offset, len)    == offset + len <= Len(recs)
ReadRecords(recs, offset, len) == SubSeq(recs, offset + 1, offset + len)
=============================================================================
