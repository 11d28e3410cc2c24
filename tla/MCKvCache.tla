----------------------------- MODULE MCKvCache ------------------------------
(* A small model for KvCache: vectors are numbers, the layers a mixing function. *)
EXTENDS KvCache, Functions

Modulus == 97

MCV == 0 .. Modulus - 1

MCWte(tok) == (31 * tok + 7) % Modulus

MCWpe(v, pos) == (v + 13 * pos + 5) % Modulus

\* One bin more than there are buckets.
MCBin(l, h, v) == ((v + 3 * l) \div (h + 1)) % (NBuckets + 1)

\* The sum over a function of positions depends on which positions are in it.
Weighed(f) == FoldFunction(+, 0, [k \in DOMAIN f |-> (k + 1) * (f[k] + 2)])

MCMix(l, parts, v, att) ==
  (5 * v + (IF "ln_ffn" \in parts THEN 3 ELSE 0)
    + (IF "content" \in parts THEN 17 ELSE 0) + l
    + FoldFunction(+, 0, [h \in Heads |-> (h + 2) * Weighed(att[h])])) % Modulus
=============================================================================
