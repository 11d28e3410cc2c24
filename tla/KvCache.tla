------------------------------ MODULE KvCache -------------------------------
(***************************************************************************)
(* Generation with the key/value cache (common/kv_cache.rs, driven by      *)
(* serve_tier/inference.rs): prefill processes a prompt at once and fills  *)
(* the cache, forward_one adds one token to it.  Attention is sparse: a    *)
(* position scores the positions whose phase fell in its own or a          *)
(* neighbouring bucket, the previous position and itself.                  *)
(*                                                                         *)
(* A vector is a value of V.  What a layer computes from a position and    *)
(* from what the position attends to is the parameter Mix, so only which   *)
(* inputs reach a result is modelled, for every weight a model may have.   *)
(* Mix is held still: the clipping threshold the FFN shares between all    *)
(* requests of a process (common/agc.rs) is the subject of BatchStep.      *)
(***************************************************************************)
EXTENDS Integers, Sequences

CONSTANTS
  Tokens,          \* token ids, numbers
  BlockSize,       \* rows of the positional table wpe
  NLayers,
  Heads,
  NBuckets,        \* 8 in the code
  MaxLen,          \* bound: tokens in a conversation
  V,               \* hidden vectors
  Wte(_),          \* the embedding of a token without a position
  Wpe(_, _),       \* a vector plus a row of wpe
  Parts,           \* what the trained model uses beyond the common core
  Bin(_, _, _),    \* layer, head, vector: the phase in widths of a bucket
  Mix(_, _, _, _)  \* layer, parts used, vector, attended vectors per head

ASSUME KvCacheAssumption ==
  /\ Tokens \subseteq Nat
  /\ BlockSize \in Nat \ {0}
  /\ NLayers \in Nat \ {0}
  /\ NBuckets \in Nat \ {0}
  /\ MaxLen \in Nat
  /\ Parts \subseteq {"content", "layer_scale", "split_band"}

VARIABLES
  tokens,     \* the conversation: prompt, then the generated tokens
  prompt,     \* length of the prompt
  cached,     \* per layer: position -> the vector its phase and value come from
  positions,  \* per layer and head: bucket -> the positions in it
  out         \* the vector the logits of the last position are computed from

cacheVars == <<tokens, prompt, cached, positions, out>>

Layers  == 0 .. NLayers - 1
Buckets == 0 .. NBuckets - 1

\* kv_cache.rs norms the input of the FFN apart, scores phases without the
\* content vectors, adds the residual unscaled and never splits the bands.
CachedParts == {"ln_ffn"}

-----------------------------------------------------------------------------
(* Scoring *)

\* phase_to_bucket: rounding may give a phase just below a turn one bin too many.
Bucket(l, h, v) == IF Bin(l, h, v) \in Buckets THEN Bin(l, h, v) ELSE NBuckets - 1

Near(b) == {(b + NBuckets - 1) % NBuckets, b, (b + 1) % NBuckets}

\* The vectors position q of layer l attends to, one function per head, when
\* the positions it scores are those of keys[h].
Attended(vec, keys) == [h \in Heads |-> [k \in keys[h] |-> vec[k]]]

\* wave_attention_forward: what q scores, from the vectors of all positions.
DenseKeys(l, h, vec, q) ==
  {k \in 0 .. q : \/ k = q
                  \/ k + 1 = q
                  \/ Bucket(l, h, vec[k]) \in Near(Bucket(l, h, vec[q]))}

\* bucket_positions
Filed(l, h, vec) == [b \in Buckets |-> {k \in DOMAIN vec : Bucket(l, h, vec[k]) = b}]

InBuckets(filed, B) == UNION {filed[b] : b \in B}

-----------------------------------------------------------------------------
(* prefill *)

\* Faulty variant: keys behind the query are not skipped.
KeysBothWays(l, h, vec, q) ==
  InBuckets(Filed(l, h, vec), Near(Bucket(l, h, vec[q])))
    \cup {k \in 0 .. q : k + 1 = q} \cup {q}

PrefillKeys(l, h, vec, q) ==
  {k \in InBuckets(Filed(l, h, vec), Near(Bucket(l, h, vec[q]))) : k <= q}
    \cup {k \in 0 .. q : k + 1 = q} \cup {q}

\* The row of wpe is looked up by the token's id.
PrefillEmbed(tok, pos) == IF tok < BlockSize THEN Wpe(Wte(tok), tok) ELSE Wte(tok)

PrefillInput(toks) == [p \in 0 .. Len(toks) - 1 |-> PrefillEmbed(toks[p + 1], p)]

PrefillLayer(l, before) ==
  [p \in DOMAIN before |->
     Mix(l, CachedParts, before[p],
         Attended(before, [h \in Heads |-> PrefillKeys(l, h, before, p)]))]

\* The vectors before every layer, and behind the last one.
PrefillVectors(toks) ==
  LET vec[l \in 0 .. NLayers] ==
        IF l = 0 THEN PrefillInput(toks) ELSE PrefillLayer(l - 1, vec[l - 1])
  IN  vec

Prefill(toks) ==
  LET vec == PrefillVectors(toks) IN
  /\ tokens = <<>>
  /\ tokens' = toks
  /\ prompt' = Len(toks)
  /\ cached' = [l \in Layers |-> vec[l]]
  /\ positions' = [l \in Layers |-> [h \in Heads |-> Filed(l, h, vec[l])]]
  /\ out' = vec[NLayers][Len(toks) - 1]

-----------------------------------------------------------------------------
(* forward_one *)

ForwardEmbed(tok, pos) == IF pos < BlockSize THEN Wpe(Wte(tok), pos) ELSE Wte(tok)

\* What the new position scores, from the cache.
CachedKeys(l, h, v, pos) ==
  InBuckets(positions[l][h], Near(Bucket(l, h, v)))
    \cup {k \in 0 .. pos : k + 1 = pos} \cup {pos}

FileNew(l, h, v, pos) == [positions[l][h] EXCEPT ![Bucket(l, h, v)] = @ \cup {pos}]

Appended(vec, v, pos) == [k \in 0 .. pos |-> IF k = pos THEN v ELSE vec[k]]

ForwardLayer(l, v, pos) ==
  Mix(l, CachedParts, v,
      Attended(Appended(cached[l], v, pos), [h \in Heads |-> CachedKeys(l, h, v, pos)]))

\* The new position's vector before every layer, and behind the last one.
ForwardVectors(tok, pos) ==
  LET vec[l \in 0 .. NLayers] ==
        IF l = 0 THEN ForwardEmbed(tok, pos) ELSE ForwardLayer(l - 1, vec[l - 1], pos)
  IN  vec

ForwardOne(tok) ==
  LET pos == Len(tokens)
      new == ForwardVectors(tok, pos)
  IN
  /\ tokens # <<>> /\ Len(tokens) < MaxLen
  /\ tokens' = Append(tokens, tok)
  /\ cached' = [l \in Layers |-> Appended(cached[l], new[l], pos)]
  /\ positions' = [l \in Layers |-> [h \in Heads |-> FileNew(l, h, new[l], pos)]]
  /\ out' = new[NLayers]
  /\ UNCHANGED prompt

-----------------------------------------------------------------------------

Empty == [k \in {} |-> 0]

CacheInit ==
  /\ tokens = <<>> /\ prompt = 0
  /\ cached = [l \in Layers |-> Empty]
  /\ positions = [l \in Layers |-> [h \in Heads |-> [b \in Buckets |-> {}]]]
  /\ out = Wte(0)

Prompts == UNION {[1 .. n -> Tokens] : n \in 1 .. MaxLen}

CacheNext ==
  \/ \E toks \in Prompts : Prefill(toks)
  \/ \E tok \in Tokens : ForwardOne(tok)

CacheSpec == CacheInit /\ [][CacheNext]_cacheVars

-----------------------------------------------------------------------------
(* Properties *)

\* Types, and every layer of the cache covers every token of the conversation.
CacheTypeOK ==
  /\ tokens \in Seq(Tokens) /\ Len(tokens) <= MaxLen
  /\ prompt \in 0 .. MaxLen
  /\ cached \in [Layers -> [0 .. Len(tokens) - 1 -> V]]
  /\ positions \in [Layers -> [Heads -> [Buckets -> SUBSET (0 .. MaxLen - 1)]]]
  /\ out \in V

\* The vectors the cache must hold at the next layer, recomputed from those of
\* layer l by the attention that training uses.
Recomputed(l, parts) ==
  [p \in DOMAIN cached[l] |->
     Mix(l, parts, cached[l][p],
         Attended(cached[l], [h \in Heads |-> DenseKeys(l, h, cached[l], p)]))]

\* However a conversation is split into a prompt and generated tokens, each
\* layer of the cache and the result are what recomputing every position with
\* the attention of common/attn.rs gives: no key is missed, none of the future
\* is used, none is scored twice (kv_cache.rs:128-182, 280-320).
CacheIsRecomputable ==
  tokens # <<>> =>
    /\ \A l \in Layers : l + 1 \in Layers => cached[l + 1] = Recomputed(l, CachedParts)
    /\ out = Recomputed(NLayers - 1, CachedParts)[Len(tokens) - 1]

\* The buckets of every head partition the positions of the conversation by the
\* phase of their vectors (kv_cache.rs:138-141, 322-326).
BucketsPartition ==
  \A l \in Layers, h \in Heads : positions[l][h] = Filed(l, h, cached[l])

\* The forward of training (cpu/forward.rs:63-132) on the same tokens.
TrainingVectors(toks) ==
  LET n == Len(toks)
      vec[l \in 0 .. NLayers] ==
        IF l = 0 THEN [p \in 0 .. n - 1 |-> Wpe(Wte(toks[p + 1]), p)]
        ELSE LET before == vec[l - 1]
             IN  [p \in 0 .. n - 1 |->
                    Mix(l - 1, Parts, before[p],
                        Attended(before, [h \in Heads |-> DenseKeys(l - 1, h, before, p)]))]
  IN  vec

\* docs/LAB-MANUAL.md:224, "Training forward and inference forward produce
\* identical output": within the block the logits come from the vector that
\* training would have computed.
InferenceIsTraining ==
  Len(tokens) \in 1 .. BlockSize =>
    out = TrainingVectors(tokens)[NLayers][Len(tokens) - 1]

\* kv_cache.rs:144, "Score and combine (same as attn.rs but reading from cache)":
\* the scores of a model that learns its ODE have the content term that attn.rs
\* adds to them.
ScoredLikeAttn ==
  \A l \in Layers : tokens # <<>> /\ l + 1 \in Layers =>
    cached[l + 1] = Recomputed(l, CachedParts \cup (Parts \cap {"content"}))

\* kv_cache.rs:91, "Prefill: run full forward on prompt tokens": the first layer
\* gets the vectors that embed.rs:122-135 gives it.
InputIsTraining ==
  Len(tokens) \in 1 .. BlockSize =>
    cached[0] = TrainingVectors(tokens)[0]
=============================================================================
