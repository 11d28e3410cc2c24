------------------------------- MODULE WaveRun -------------------------------
(***************************************************************************)
(* From a text to a wave-trained checkpoint: convert-dataset loads the     *)
(* tokens of a source (or its cache), writes the wave dataset, and         *)
(* train --wave-loss (or train-waves) trains on it, saves, and is resumed. *)
(* One process runs at a time and may be killed at any step; every file is *)
(* truncated and written in place, and the source may be edited at any     *)
(* moment.                                                                 *)
(*                                                                         *)
(* Scaled constants: BlockSize (128), SavePeriod (500), Mark2 and Mark3    *)
(* (the stall detector's 2000 and 5000).  The jobs carry the rest.         *)
(***************************************************************************)
EXTENDS Corpus

K == INSTANCE Grid
C == INSTANCE Command

CONSTANTS Sources,      \* contents the data path may have
          FirstSource,  \* the one it has first
          Tokenizer,    \* the BPE tokenizer file
          Jobs,         \* command lines the operator may give
          BlockSize, SavePeriod, Mark2, Mark3,
          MaxRuns, MaxKills, MaxEdits, MaxLost   \* bounds of the instance

ASSUME SourcesReadable ==
    \A s \in Sources : SourceText(s) # Exit => Len(SourceText(s)) >= 2
ASSUME FirstSourceGiven == FirstSource \in Sources
ASSUME MarksInOrder == Mark2 \in Nat /\ Mark3 \in Nat /\ Mark2 < Mark3
ASSUME PeriodPositive == SavePeriod \in Nat \ {0}
ASSUME CountsNatural ==
    \A a \in Jobs :
        /\ a.model.vocab \in Nat
        /\ a.command # "convert-dataset" =>
              /\ C!ConfigOf(a).n_iters \in Nat
              /\ C!ConfigOf(a).batch_size \in Nat
              /\ C!ConfigOf(a).seq_len \in Nat

VARIABLES
    source,   \* content of the data path now
    held,     \* ghost: contents it has had
    raced,    \* ghost: contents read before an edit that changed the size
              \* their cache was then labelled with
    caches,   \* token cache of each tokenizer
    kwds,     \* the wave dataset file
    ckpts,    \* checkpoint files by label; Final is the name itself
    proc,     \* the process running
    left      \* what the operator and the system may still do

vars == <<source, held, raced, caches, kwds, ckpts, proc, left>>

Modes == {"char", "bpe"}
Idle  == [pc |-> "idle"]
Empty == [file |-> "empty"]   \* truncated, its header not yet written
None  == [file |-> "none"]
Final == 0
Bad   == -1                   \* a loss that is not finite

\* f, with v at k.
With(f, k, v) == [i \in DOMAIN f \cup {k} |-> IF i = k THEN v ELSE f[i]]

Tokenize(mode, s) ==
    IF mode = "bpe"
    THEN [toks |-> BpeEncode(Tokenizer, SourceText(s)), vocab |-> Len(Tokenizer.vocab)]
    ELSE TokenizeChars(SourceText(s))
ASSUME TokensAreIds ==
    \A m \in Modes, s \in Sources : SourceText(s) # Exit =>
        Tokenize(m, s).toks \in Seq(Nat) \ {<<>>} /\ Tokenize(m, s).vocab \in Nat

Encoded == [m \in Modes |-> [s \in {x \in Sources : SourceText(x) # Exit} |-> Tokenize(m, s)]]

Init ==
    /\ source = FirstSource /\ held = {source} /\ raced = {}
    /\ caches = [m \in Modes |-> None]
    /\ kwds = None
    /\ ckpts = [l \in {} |-> None]
    /\ proc = Idle
    /\ left = [runs |-> MaxRuns, kills |-> MaxKills, edits |-> MaxEdits, lost |-> MaxLost]

-----------------------------------------------------------------------------
(* Environment.                                                            *)

\* The source is looked at where it is loaded and where its cache is labelled;
\* an edit at any other moment commutes with the steps before those.
Edit(s) ==
    /\ left.edits > 0 /\ s # source /\ proc.pc \in {"idle", "cache create"}
    /\ source' = s /\ held' = held \cup {s}
    /\ left' = [left EXCEPT !.edits = @ - 1]
    /\ UNCHANGED <<raced, caches, kwds, ckpts, proc>>

Kill ==
    /\ proc # Idle /\ left.kills > 0
    /\ proc' = Idle
    /\ left' = [left EXCEPT !.kills = @ - 1]
    /\ UNCHANGED <<source, held, raced, caches, kwds, ckpts>>

Launch == proc = Idle /\ left.runs > 0 /\ left' = [left EXCEPT !.runs = @ - 1]

-----------------------------------------------------------------------------
(* convert-dataset --per-position.                                         *)

StartConvert(a) ==
    /\ Launch /\ a.command = "convert-dataset" /\ a.per_position
    /\ proc' = [pc |-> "load", mode |-> IF a.bpe THEN "bpe" ELSE "char", model |-> a.model]
    /\ UNCHANGED <<source, held, raced, caches, kwds, ckpts>>

\* load_cache: the size of the source now is the label's, and every token the
\* header announces is there.
CacheSizeIgnored(c, s) == c \notin {None, Empty} /\ Len(c.toks) = c.total  \* mutant
CacheValid(c, s) ==
    /\ c \notin {None, Empty}
    /\ c.size = s.size
    /\ Len(c.toks) = c.total

Loaded(pc, toks, vocab, s) ==
    proc' = [pc |-> pc, mode |-> proc.mode, model |-> proc.model,
             toks |-> toks, vocab |-> vocab, src |-> s, sizeAtLoad |-> s.size,
             size |-> 0, at |-> 0]

LoadCached ==
    /\ proc.pc = "load" /\ CacheValid(caches[proc.mode], source)
    /\ LET c == caches[proc.mode] IN Loaded("kwds create", c.toks, c.vocab, source)
    /\ UNCHANGED <<source, held, raced, caches, kwds, ckpts, left>>

LoadSource ==
    /\ proc.pc = "load" /\ ~CacheValid(caches[proc.mode], source)
    /\ IF SourceText(source) = Exit THEN proc' = Idle
       ELSE LET e == Encoded[proc.mode][source]
            IN  Loaded("cache create", e.toks, e.vocab, source)
    /\ UNCHANGED <<source, held, raced, caches, kwds, ckpts, left>>

\* save_cache: the size that labels the tokens is asked for here, after they
\* were read.
CacheCreate ==
    /\ proc.pc = "cache create"
    /\ caches' = [caches EXCEPT ![proc.mode] = Empty]
    /\ raced' = IF source.size = proc.src.size THEN raced ELSE raced \cup {proc.src}
    /\ proc' = [proc EXCEPT !.pc = "cache header", !.size = source.size]
    /\ UNCHANGED <<source, held, kwds, ckpts, left>>

CacheHeader ==
    /\ proc.pc = "cache header"
    /\ caches' = [caches EXCEPT ![proc.mode] =
                    [size |-> proc.size, total |-> Len(proc.toks),
                     vocab |-> proc.vocab, toks |-> <<>>]]
    /\ proc' = [proc EXCEPT !.pc = IF proc.toks = <<>> THEN "kwds create" ELSE "cache tokens"]
    /\ UNCHANGED <<source, held, raced, kwds, ckpts, left>>

\* A token whose write fails is passed over: the result is ignored.
CacheToken ==
    /\ proc.pc = "cache tokens"
    /\ proc' = [proc EXCEPT !.at = @ + 1,
                            !.pc = IF proc.at + 1 = Len(proc.toks) THEN "kwds create" ELSE @]
    /\ \/ /\ caches' = [caches EXCEPT ![proc.mode].toks = Append(@, proc.toks[proc.at + 1])]
          /\ UNCHANGED left
       \/ /\ left.lost > 0 /\ left' = [left EXCEPT !.lost = @ - 1]
          /\ UNCHANGED caches
    /\ UNCHANGED <<source, held, raced, kwds, ckpts>>

KwdsCreate ==
    /\ proc.pc = "kwds create"
    /\ kwds' = Empty
    /\ proc' = [proc EXCEPT !.pc = "kwds header"]
    /\ UNCHANGED <<source, held, raced, caches, ckpts, left>>

KwdsHeader ==
    /\ proc.pc = "kwds header"
    /\ kwds' = [n |-> K!Positions(proc.toks), bands |-> proc.model.n_bands, recs |-> <<>>]
    /\ proc' = IF K!Positions(proc.toks) = 0 THEN Idle ELSE [proc EXCEPT !.pc = "kwds records"]
    /\ UNCHANGED <<source, held, raced, caches, ckpts, left>>

TableVocab(vocab, model) == IF vocab < model.vocab THEN vocab ELSE model.vocab

KwdsRecord ==
    /\ proc.pc = "kwds records"
    /\ LET table == K!Table(TableVocab(proc.vocab, proc.model), K!NoModulus, K!NoModulus)
           r     == Len(kwds.recs)
       IN  /\ kwds' = [kwds EXCEPT !.recs = Append(@, K!Record(table, BlockSize, proc.toks, r))]
           /\ proc' = IF r + 1 = 2 * kwds.n THEN Idle ELSE proc
    /\ UNCHANGED <<source, held, raced, caches, ckpts, left>>

-----------------------------------------------------------------------------
(* The wave loop.                                                          *)

NoLossZero == 0              \* mutant: the reference starts at zero
NoLoss     == 1000000        \* f32::MAX

Resumable(from) == IF from = C!NoPath THEN TRUE ELSE ckpts[from] # Empty

Starts(a, from) ==
    LET c == C!ConfigOf(a)
    IN  /\ C!Parsed(a) /\ C!Route(c) = "wave loop"
        /\ kwds \notin {None, Empty}
        /\ K!ModuliAccepted(c.m1, c.m2)
        /\ Resumable(from)

\* What a resume takes from its file: iteration and generator always, weights
\* and moments each when their count is the model's.
Fresh == [iter |-> 0, rng |-> 0, weights |-> <<>>, adam |-> <<>>]
ResumedSeed(f, n) ==         \* mutant: the generator is seeded anew
    [iter |-> f.iter, rng |-> 0, weights |-> IF f.count = n THEN f.weights ELSE <<>>,
     adam |-> IF f.count = n THEN f.adam ELSE <<>>]
Resumed(f, n) ==
    [iter |-> f.iter, rng |-> f.rng, weights |-> IF f.count = n THEN f.weights ELSE <<>>,
     adam |-> IF f.count = n THEN f.adam ELSE <<>>]

BatchSize(c) == IF c.batch_size = 0 THEN 1 ELSE c.batch_size

StartTrain(a, from) ==
    /\ Launch /\ a.command # "convert-dataset" /\ Starts(a, from)
    /\ LET c == C!ConfigOf(a)
           n == C!CountTrainable(c, kwds.bands)
           r == IF from = C!NoPath THEN Fresh ELSE Resumed(ckpts[from], n)
       IN  proc' = [pc |-> "draw", count |-> n, seq |-> c.seq_len,
                    batchSize |-> BatchSize(c),
                    start |-> r.iter, total |-> r.iter + c.n_iters,
                    iter |-> r.iter, rng |-> r.rng, weights |-> r.weights, adam |-> r.adam,
                    batch |-> <<>>, sum |-> 0, ref |-> BatchSize(c) * NoLoss,
                    losses |-> [i \in {} |-> 0], aborted |-> FALSE,
                    label |-> Final, savedIter |-> r.iter]
    /\ UNCHANGED <<source, held, raced, caches, kwds, ckpts>>

\* Exit 2, a word clap refuses, or a panic before the first iteration.
Refuse(a, from) ==
    /\ Launch /\ a.command # "convert-dataset" /\ ~Starts(a, from)
    /\ UNCHANGED <<source, held, raced, caches, kwds, ckpts, proc>>

\* n_positions - start - 1 wraps for an empty dataset.
WindowLen(n, start, seq) == IF n = 0 THEN seq ELSE Min({seq, n - start - 1})
MaxStart(n, seq) == IF n - (seq + 1) > 1 THEN n - (seq + 1) ELSE 1

AtMark(iter) == iter \in {proc.start + Mark2, proc.start + Mark3}

\* One window: drawn, read, run through the model.  A read past the end of the
\* file panics; a loss that is not finite ends the batch and skips the step.
\* Losses the detector does not read are all taken as 1.
Draw(start, loss) ==
    /\ proc.pc = "draw" /\ proc.iter < proc.total
    /\ start < MaxStart(kwds.n, proc.seq)
    /\ loss \in {1, Bad} \/ AtMark(proc.iter)
    /\ LET len == WindowLen(kwds.n, start, proc.seq)
           in  == K!InputOffset(kwds, start)
           out == K!TargetOffset(kwds, start)
           ok  == K!Readable(kwds.recs, in, len) /\ K!Readable(kwds.recs, out, len)
           q   == [proc EXCEPT !.rng = @ + 1]
       IN  proc' = CASE ~ok -> Idle
                     [] ok /\ loss = Bad ->
                          [q EXCEPT !.iter = @ + 1, !.batch = <<>>, !.sum = 0]
                     [] OTHER ->
                          [q EXCEPT !.batch = Append(@,
                                        [in     |-> K!ReadRecords(kwds.recs, in, len),
                                         target |-> K!ReadRecords(kwds.recs, out, len)]),
                                    !.sum = @ + loss,
                                    !.pc = IF Len(proc.batch) + 1 = proc.batchSize
                                           THEN "step" ELSE @]
    /\ UNCHANGED <<source, held, raced, caches, kwds, ckpts, left>>

\* Of batches of one size, the sums compare as the means do; the reference is
\* a batch of f32::MAX until a mark was reached.
Stalled(sum, ref) == 100 * sum > 98 * ref

Step ==
    /\ proc.pc = "step"
    /\ LET draws == <<proc.rng - proc.batchSize, proc.rng - 1>>
           q == [proc EXCEPT !.weights = Append(@, draws), !.adam = Append(@, draws),
                             !.batch = <<>>, !.sum = 0,
                             !.ref = IF proc.iter = proc.start + Mark2 THEN proc.sum ELSE @,
                             !.losses = IF AtMark(proc.iter)
                                        THEN With(proc.losses, proc.iter, proc.sum) ELSE @]
       IN  proc' = CASE proc.iter = proc.start + Mark3 /\ Stalled(proc.sum, q.ref) ->
                          [q EXCEPT !.pc = "done", !.aborted = TRUE]
                     [] proc.iter > proc.start /\ proc.iter % SavePeriod = 0
                        /\ ~(proc.iter = proc.start + Mark3 /\ Stalled(proc.sum, q.ref)) ->
                          [q EXCEPT !.pc = "save create"]
                     [] OTHER -> [q EXCEPT !.pc = "draw", !.iter = @ + 1]
    /\ UNCHANGED <<source, held, raced, caches, kwds, ckpts, left>>

FinishLoop ==
    /\ proc.pc = "draw" /\ proc.iter = proc.total
    /\ proc' = [proc EXCEPT !.pc = "done"]
    /\ UNCHANGED <<source, held, raced, caches, kwds, ckpts, left>>

\* save_checkpoint, of an iteration (labelled with the next one) or of the end
\* (labelled with the iterations asked for, also after an abort).
AtEnd == proc.pc = "done"
SaveLabel == IF AtEnd THEN Final ELSE proc.iter + 1
SaveIter  == IF AtEnd THEN proc.total ELSE proc.iter + 1

SaveCreate ==
    /\ proc.pc \in {"save create", "done"}
    /\ ckpts' = With(ckpts, SaveLabel, Empty)
    /\ proc' = [proc EXCEPT !.pc = "save header", !.label = SaveLabel, !.savedIter = SaveIter]
    /\ UNCHANGED <<source, held, raced, caches, kwds, left>>

\* The count read from a torn body is taken to be no model's: a cut that
\* leaves exactly the length of another layout is the subject of TrainRun.
TornCount == 0

Written(count, weights, adam) ==
    [count |-> count, iter |-> proc.savedIter, rng |-> proc.rng, weights |-> weights, adam |-> adam]

SaveHeader ==
    /\ proc.pc = "save header"
    /\ ckpts' = With(ckpts, proc.label, Written(TornCount, <<>>, <<>>))
    /\ proc' = [proc EXCEPT !.pc = "save body"]
    /\ UNCHANGED <<source, held, raced, caches, kwds, left>>

SaveBody ==
    /\ proc.pc = "save body"
    /\ ckpts' = With(ckpts, proc.label, Written(proc.count, proc.weights, proc.adam))
    /\ proc' = IF proc.label = Final THEN Idle
               ELSE [proc EXCEPT !.pc = "draw", !.iter = @ + 1]
    /\ UNCHANGED <<source, held, raced, caches, kwds, left>>

-----------------------------------------------------------------------------
Next ==
    \/ \E s \in Sources : Edit(s)
    \/ Kill
    \/ \E a \in Jobs : StartConvert(a)
    \/ LoadCached \/ LoadSource \/ CacheCreate \/ CacheHeader \/ CacheToken
    \/ KwdsCreate \/ KwdsHeader \/ KwdsRecord
    \/ \E a \in Jobs, from \in DOMAIN ckpts \cup {C!NoPath} :
          StartTrain(a, from) \/ Refuse(a, from)
    \/ \E start \in 0 .. (IF kwds \in {None, Empty} THEN 0 ELSE kwds.n),
          loss \in {1, 2, Bad} : Draw(start, loss)
    \/ Step \/ FinishLoop \/ SaveCreate \/ SaveHeader \/ SaveBody

Spec == Init /\ [][Next]_vars

-----------------------------------------------------------------------------
(* Properties.                                                             *)

Training == "batchSize" \in DOMAIN proc

\* Text behind tokens: what the tokens of a source spell.
Spelled(mode, s, toks) ==
    IF mode = "bpe" THEN BpeDecode(Tokenizer, toks)
    ELSE LET table == CharTable(SourceText(s))
         IN  IF \A i \in DOMAIN toks : toks[i] < Len(table)
             THEN [i \in DOMAIN toks |-> table[toks[i] + 1]] ELSE <<>>

\* The tokenizers spell back every text the source may have (a BPE file that
\* lacks some byte's character would not).
RoundTrips ==
    \A m \in Modes, s \in Sources :
        SourceText(s) # Exit => Spelled(m, s, Encoded[m][s].toks) = SourceText(s)

\* The tokens a conversion works on spell the whole text of one content the
\* source has had, with that text's vocabulary and of the size it had when they
\* were loaded, whatever was killed or not written before; only tokens whose
\* source was edited to another size between reading it and labelling its
\* cache may be older.
TextRecovered ==
    "toks" \in DOMAIN proc =>
        \E s \in held :
            /\ SourceText(s) # Exit
            /\ Spelled(proc.mode, s, proc.toks) = SourceText(s)
            /\ proc.vocab = Encoded[proc.mode][s].vocab
            /\ s.size = proc.sizeAtLoad \/ s \in raced

\* A wave says which token it carries: no other row of the table is equal, and
\* only a token outside the table is a zero wave.
Carries(wave, tok, vocab) ==
    LET table == K!Table(vocab, K!NoModulus, K!NoModulus)
    IN  IF tok \in DOMAIN table
        THEN {k \in DOMAIN table : table[k] = wave.row} = {tok}
        ELSE wave = K!Zero

\* The window is a stretch of one text's tokens, each input at its position in
\* that text and each target the token after its input, position left out.
Paired(w) ==
    \E m \in Modes, s \in held, mv \in {a.model.vocab : a \in Jobs} :
        LET e == Encoded[m][s]
            v == TableVocab(e.vocab, [vocab |-> mv])
        IN  /\ SourceText(s) # Exit /\ Len(w.target) = Len(w.in)
            /\ \E p \in 0 .. Len(e.toks) - Len(w.in) - 1 :
                  \A i \in 1 .. Len(w.in) :
                    /\ Carries(w.in[i], e.toks[p + i], v)
                    /\ w.in[i] # K!Zero => w.in[i].pos = (p + i - 1) % BlockSize
                    /\ Carries(w.target[i], e.toks[p + i + 1], v)
                    /\ w.target[i].pos = K!NoPos

\* Every window of a batch is paired: none comes from a torn dataset or from two.
WindowsPair == Training => \A b \in DOMAIN proc.batch : Paired(proc.batch[b])

\* Weights, moments and generator belong together, in the run and in every
\* file: the moments are of exactly the steps in the weights, no window was
\* drawn for two of them, and the generator is past them all.
Coherent(r) ==
    /\ r.adam = r.weights
    /\ \A i \in 1 .. Len(r.weights) - 1 : r.weights[i][2] < r.weights[i + 1][1]
    /\ r.weights # <<>> => r.weights[Len(r.weights)][2] < r.rng
    /\ Len(r.weights) <= r.iter + 1
RunCoherent ==
    /\ Training => Coherent(proc)
    /\ \A l \in DOMAIN ckpts : ckpts[l] # Empty => Coherent(ckpts[l])

\* A run is given up exactly when the losses at both marks were computed and
\* the later one is not below 98% of the earlier: a mark that was skipped for
\* a loss that is not finite never ends the run, and never hides a stall.
AbortIffStalled ==
    Training =>
        LET m2 == proc.start + Mark2
            m3 == proc.start + Mark3
        IN  proc.aborted <=> /\ {m2, m3} \subseteq DOMAIN proc.losses
                             /\ 100 * proc.losses[m3] > 98 * proc.losses[m2]
=============================================================================
