# A specification of wave-engine

TLA+ modules, TLC models and TLAPS proofs about `wave-engine`, a Rust program
that trains, stores and serves "wave" language models on three tiers (CPU,
wgpu, candle).  Paths are relative to the repository unless they start with
`tla/`.

* [Inventory](#inventory)
* [Modules and how they correspond to the code](#modules)
* [Runs, bounds, fairness](#runs)
* [What is proved](#proofs)
* [What the models found](#findings)
* [What is not modelled](#left-out)
* [Plan](#plan)

## Inventory

| component | state it keeps | operations | hard parts | correct when |
|---|---|---|---|---|
| CPU/wgpu training loop (`src/cpu/train_loop.rs`, `src/cpu/train.rs`) | weights, Adam moments and `t`, generator state, `iter` | iterate, skip on a bad loss, periodic and final save, resume by file length | kill during a save, resume of an older layout, NaN | the generator, the moments and the counter describe the same iterations as the weights |
| Checkpoint files (`src/common/checkpoint.rs`) | WCHK files of versions 1 to 4, written in place | save, load | torn files, layouts told apart by length | a complete file is accepted, an incomplete one is not needed |
| One iteration (`src/cpu/train_loop.rs` 299-420, `src/common/ffn.rs`, `src/common/agc.rs`) | one thread per batch element, process-wide gain control | forward, backward, join, reduce, step, springs | threads sharing a mutex-protected AGC and a GPU pool | gradients belong to one model; thresholds stay in the ODE's stable range |
| GPU buffer pool (`src/wgpu_tier/buffers.rs`, `src/wgpu_tier/dispatch_batch.rs`) | weight buffers by address, scratch, staging | cache, dispatch, readback, invalidate | weights changed in place under a cached buffer | a pass uses the weights of the model |
| Candle training loop (`src/candle_tier/candle_train.rs`) | VarMap, optimizer, five files per save | step per element, NaN guard, save, resume from `.safetensors` or `.bin` | partial saves, ignored errors, files from other runs and tiers | counters fit weights, NaN does not spread, something is left to resume |
| Wave-space loop (`src/cpu/wave_training.rs`) | as the CPU loop, plus a stall detector with three marks | convert, iterate, break off a batch, give up, save, resume | data, cache, dataset and checkpoint of different ages and flags, kills between any two writes | a batch pairs real neighbours; moments, weights and generator stay together; only a stall ends a run early |
| Completion server (`src/serve_tier/*`) | connections, blocking tasks, one channel per stream | refuse, generate whole, stream, shut down | disconnects, panics, back-pressure, shutdown | each client gets its script; threads come back |
| Wave memory (`src/common/wave_memory.rs`, `kerr-memory`) | conversation counter and traces, one file | load or create, count, save | kill between count, save and reply; a save that fails | an answered conversation is remembered, no other is |
| KV cache (`src/common/kv_cache.rs`) | per layer phases, values, buckets of positions | prefill, forward_one | two code paths that must agree | a split of the conversation does not show in the result |
| Passes (`src/common/{math,model,block,ffn,attn,out_proj,wave_decode}`, `src/cpu/{forward,backward,model_backward}.rs`) | none that outlives a sample | forward, loss, hand-written backward of every layer | a gradient with a wrong sign or a lost term trains, slowly, to something else | gradients are those of the forward pass |
| Parameter layout (`src/common/wave_model.rs`, `out_proj.rs`) | one flat vector | flatten, unflatten, count, initialise, tell layouts apart | five walks over the same flags with nothing but their order in common; variants of equal count | parameter *i* meets gradient *i*; a vector survives a model |
| wgpu operations (`src/wgpu_tier/*`, `shaders/*`) | scratch slots, uniform, cached weights behind one mutex | pooled and unpooled dispatch, readback, device backward, resident attention | buffers bound in the wrong order or too small, the mutex dropped between submit and readback | what comes back is what the CPU computes, for the caller's own input |
| Candle ops and CUDA kernels (`src/candle_tier/*`) | tensors, states of each step on the device, one gradient cell | tensor forward, custom ops, kernels | threads of a block sharing rows between barriers; two integrators for one model | agreement with the CPU's passes, no races |
| Token cache, tokenizer, data loader (`src/common/{token_cache,bpe,data_loader}.rs`) | cache file beside the text | load or encode, extract JSONL text, words, bytes | stale or torn cache, out-of-vocabulary tokens | the tokens are those of the text that was read |
| Wave datasets and the moduli grid (`src/common/kwds.rs`, `src/common/embed.rs`) | KWDS file | encode, decode, convert, draw windows | grid of another vocabulary, short datasets, torn files | encoding is invertible; a window and its target are neighbours |
| Command line (`src/main.rs`, `src/cli.rs`) | none | flags to configuration to loop, data path and parameter count | combinations of flags | within ModelPass and WaveRun: the configurations are those the flags give |
| Curriculum, LR scale, springs, weight decay | per-layer dynamic parameters | scale, decay, spring | small band counts | not modelled |
| Generation, analysis, galaxy scan, monitors, prompt formatting, probe | none that outlives a call | reports | floating point | not modelled |

How they interact: a training loop calls the threads of an iteration, which
share the model (read only), the gain control (mutex) and the pool (mutex);
after the join the loop steps the optimizer, writes the gain control's ceiling
and every 500 iterations a file.  Files connect the tiers and the server: the
CPU loop, the candle loop and the server read what the others wrote.  In the
server, an async handler starts a blocking task, receives its tokens through a
bounded channel and, for whole answers, counts the conversation under the
memory's mutex, saves and replies.  A sample's passes reach the ODE and the
attention through a compute backend, which the CPU answers with loops and the
wgpu tier with command lists over pooled buffers; the candle tier has passes of
its own over the same parameters.  A wave run starts one process earlier, at
`convert-dataset`, whose tokens come from a text or from the cache beside it.

The hazards of the code (`hazards` in `PROJECT.json`, each at its line) follow
from these interactions, and the properties below are chosen from them.

## Modules

**TrainRun** (`tla/TrainRun.tla`): a run of the CPU/wgpu loop, its files, kills
and resumes.  `Iterate` is one pass of the loop (draw, forward/backward, skip
or step, decide to save), `FinishLoop` the end of the loop, `OpenFile` and
`WriteMore` the truncation and the growth of a file (nothing, part of the header,
less than the base layout, exactly the base layout, everything), `StartFresh`,
`ResumeExtended`, `ResumeBase`, `ResumePanics` the branches of lines 31-84 by
what the file holds, `Crash` a kill at any of these points.  Weights and
moments are the *sets of iterations whose step they contain*, split into the
base body and the ODE extension because a resume may replace one and keep the
other; the generator is the number of draws.  That is as much as the
coherence properties tell apart.  The bound on the counter is part of the
launch (`Begin`), so that no run stops halfway for the bound's sake.

**BatchStep** (`tla/BatchStep.tla`): the inside of one iteration.  `Spawn`,
`Ffn(e)`, `Attn(e)`, `Backward(e)`, `Join`, `SampleForward`/`NoSample`, `Skip`,
`Optimise`: one action per critical section or per stretch of code that touches
shared state.  The gain control is its threshold and ceiling in tenths of a
magnitude; the mean and deviation behind a threshold are any member of
`Readings`, and an observation may be dropped (agc.rs 118-133).  A coupling
pair is the magnitude it is stable at; an optimizer step gives every layer any.
The pool maps a layer's address to the version of the weights uploaded there;
a thread notes for every layer the version its forward pass projected by.
Device, `--agc-headroom` and "resumed" are chosen in `Init` and stay.

**CandleRun** (`tla/CandleRun.tla`): a run of the candle loop, its save of five
files (`Stages`, written by `OpenFile`, `WriteFile`, or `WriteFails`, which the
code ignores), resumes from `.safetensors` and `.bin`, and CPU runs on the
shared `checkpoint.bin`.  Weights are an age (iterations lived through) and the
age at which a NaN came in; a `.meta` file is a number, empty or absent.
`Element` is one batch element (this tier steps per element), `EndBatch` what
follows the batch, the NaN guard and the step with the gradients the custom op
left in its cell included.

**Completion** and **ChatServe** (`tla/Completion.tla`, `tla/ChatServe.tla`):
what `POST /v1/chat/completions` promises a client, and the server that keeps
it.  ChatServe has an action for every await, send, receive, lock and save of
`handlers.rs` and `inference.rs`, the blocking pool as a number of threads
(external: tokio), the client's `Disconnect`, a panic of the generation, Ctrl+C,
`Exit`, `Kill` and `Restart`.  A token is its index.  `Promise` instantiates
Completion with the client's view (connection phase, `max_tokens`, tokens
received), and `KeepsPromise` is its specification.

**KvCache** and **MCKvCache** (`tla/KvCache.tla`, `tla/MCKvCache.tla`): `Prefill`
and `ForwardOne` with the positions each scores (own bucket, neighbours with
wrap-around, previous position, itself), against the attention of `attn.rs` and
the training forward.  The layers of a pass are a recursive function of the
layer.  The arithmetic is uninterpreted: `Mix` gives a position's next vector
and `Bin` the bucket of its phase; the MC module makes them sums modulo 97 and 8
whose values tell apart which vectors, in which roles, went in.

**WaveRun** (`tla/WaveRun.tla`, with **Corpus**, **Grid**, **Command**): the
operator's launch of `convert-dataset` (`StartConvert`) or of a wave training
(`StartTrain`, `Refuse`), as the command line of the job means it (`Command`);
tokens from the source or from the cache of the chosen tokenizer (`LoadSource`,
`LoadCached`); cache and KWDS file written in place, a step for each create,
header and token or record (`CacheCreate` to `KwdsRecord`), any of which a `Kill`
may follow and a token of which may be lost; then the loop: windows drawn per
element, a bad window that ends its batch (`Draw`), the optimizer with the stall
detector at its two marks (`Step`), saves in three steps, resumes whose parameter
count agrees or not, and an `Edit` of the source where the program looks at it.  `Corpus` is the way from a path to tokens
(JSONL lexemes, words, bytes, BPE merges by rank), `Grid` the table of coprime
moduli, encoding, and the header of a dataset.

**Field** (`tla/Field.tla`): arithmetic modulo a prime, on pairs of a value and
its derivative in one direction (dual numbers), so that evaluating a forward
pass also gives the exact derivative to compare a hand-written backward pass
with.  Transcendental functions stay what the passes use of them: a cosine and
sine are a point of the circle (`OnCircle`) whose derivative is the other one.
`Table` and `Given` evaluate an argument once.

**Kerr**, **SplitBand**, **OdePass** (`src/common/math/*`): the Kerr derivative
with its neighbours and four-wave mixing, its reverse, the split-band
integrator; `OdePass` integrates one row with one action per RK4 step and then
walks back, with learnable RK4 weights.  A job names bands, steps and a seed, all
natural numbers (`OdePassAssumption`).

**Layers**, **Attention**, **WaveModel**, **Decode** (`model.rs`, `block.rs`,
`ffn.rs`, `attn.rs`, `out_proj.rs`, `wave_decode.rs`, `wave_loss.rs` and `math/*` of
`src/common`, `forward.rs` and `model_backward.rs` of `src/cpu`): every layer forward and backward, as operators.  **WaveParams**: the
five walks over the parameters, and `load_checkpoint_auto`.  **Candle**: the
candle tier's forward of the same model, its tensor integration, its custom ops
and its harmonics.  **ModelPass** runs one job through them: `WriteParams`,
`Forward`, `Loss`, `Backward`, `Collect`.  `ModelPassAssumption` says what
fields and dimensions a job may have (`Fields`, `DimsOk`): every size is positive, a head and a group are at
least one number wide (the code's constructors divide by both), attention's
content has a size, and the jobs that give the harmonics a direction train the
other parameters only.

**Compute**, **Gpu**, **GpuPass** (`src/common/compute.rs`, `src/wgpu_tier/*`,
`shaders/*`): `Compute` is the backend trait's CPU answers; `Gpu` has an operator
per kernel (`Kernel...`), a transformer of the buffers bound to it, which `Run`
chooses by the pipeline a command sets, and each host
operation as a list of commands with its bindings; `GpuPass` executes a list
command by command (`Submit`, `Execute`, `Readback`, `OnHost`), over buffers that
still hold what an earlier call left.

**GpuPool** (`src/wgpu_tier/buffers.rs` and the pooled operations): the scopes in
which an operation holds the pool's mutex (`Take`, `CacheWeight`, `Ensure`,
`Submit`, `ReadbackScratch`), interleaved for two batch threads.

**CudaOde** (`src/candle_tier/cuda_ode.rs`): a kernel is a list of segments
between barriers and a thread per band steps through it, with the block's shared
rows, the states the forward kernel leaves for the reverse one, and the host's
choice of path.  Which part of which quartet a band plays is taken from the CPU's
list of quartets, where the kernel writes it as eight guards by hand, and a
tensor is a row of numbers, its layout's offset and strides left out.

**MC\*** modules hold the constants of the instances, and the **\*Proofs** modules
the theorems about the module they are named after: TrainRun, BatchStep,
CandleRun, GpuPool, CudaOde, WaveRun; `ServeProofs` about ChatServe and KvCache
and `MathProofs` about OdePass and ModelPass.

## Runs

All runs are exhaustive over the bounds named.  The state machines of long-lived
processes state a `TypeOK` each; those of TrainRun and BatchStep are proved, and
each is an invariant to add to a configuration when a module is changed.

| run | constants | states | shows |
|---|---|---|---|
| `TrainRun` | 2 iterations per launch, 3 launches, iterations up to 6, batch 2, save every 2, untied, learnable ODE, a legacy file at 1 | 290 thousand | `StreamAligned`, `MomentsMatchWeights`, `SnapshotsCoherent`, `SourceKept`, `CompleteFileLoads`, `RunEnds` |
| `BatchStep` | 2 elements, 2 layers, limits 0.5 and 2.0, readings below, between and above them, both devices, both kinds of gain control, new and resumed, learned attention, 2 iterations | 600 thousand | `GradientsOfOneModel`, `SharedWithinPhysics`, `OneForwardPerBatch`, `BatchesEnd` |
| `CandleRun` | 2 iterations per launch, 3 launches, up to 6, batch 2, save every 3, custom op, 1 CPU run, 1 failed write | 7.0 million | `PoisonIsFresh`, `CounterIsAge`, `SomethingToResume`, `OdeGradientsOfThisBatch` |
| `CandleStream` | 2 iterations, 1 CPU run | stops at the finding | `CpuDrawsFromStream` is violated |
| `WaveRun` | 3 processes of 5 jobs (a conversion by words or by BPE, `train-waves`, `train --wave-loss` on the CPU and the candle route, each new or resumed), 4 contents of the data path, 1 edit, 1 kill, 1 token not written, windows of 3, save every 2, marks 1 and 2 | 2.5 million | `TextRecovered`, `WindowsPair`, `RunCoherent`, `AbortIffStalled` |
| `ChatServe` | 2 requests, up to 2 tokens, channel of 2, 1 thread, 1 restart, 1 failed save | 249 thousand | `StreamScripted`, `AnsweredIsRemembered`, `NoPhantomConversation`, `KeepsPromise`, `DisconnectFreesThread`, `EveryRequestEnds`, `ShutdownEnds` |
| `KvCache` | 3 token ids, a block of 4, conversations of up to 6 tokens in every split, 2 layers, 2 heads, 8 buckets | 6 thousand | `CacheIsRecomputable` |
| `OdePass` | 4 coupled shapes of 3 to 6 bands, with and without four-wave mixing, and 3 split-band ones of 2 to 5, in 1 to 4 steps, 4 seeds each | 212 | `OdeGradientExact`, `MixingConservesEnergy` |
| `ModelPass` | 2 layers of 2 bands and 2 heads, or 3 heads that leave a column over, 3 or 4 positions, vocabulary of 3; 7 sets of flags with 2 seeds for the gradients, 5 for the passes alone, 2 for the harmonics; 2 files as long as another variant's, with and without a learned attention | 192 | `ModelGradientExact`, `LayoutRoundTrips`, `AutoLoadRecovers`, `Causal`, `AttentionAligned`, `PassesAgree` |
| `GpuPass` | 18 calls of 3 to 6 bands and 1 to 3 rows: ODE forward and reverse, fused and legacy layers twice over the same buffers, the resident chain and its fallback, attention, products, norm, perturbation | 521 | `GpuForwardAgrees`, `GpuBackwardAgrees` |
| `GpuPool` | 2 threads, 4 and 3 programs of operations of different sizes | 276 thousand | `ScratchFits`, `OwnResults`, no deadlock |
| `CudaOde` | 5 jobs of 3 to 6 bands, 1 or 2 steps and rows: device and host, with and without four-wave mixing, a reverse pass without a forward one | 3 thousand | `RaceFree`, `CudaAgrees`, no deadlock |

Why these bounds are enough for the cases that matter: a save every 2 (or 3)
iterations with 2 per launch makes a launch save twice, once or only at its end,
and lets a resume start from a snapshot, from the final file and from a file an
earlier launch left; three launches allow a kill, a resume and a second kill
during the resumed run; a batch of 2 tells "once per iteration" from "once per
element".  Two threads and two layers let one thread move the shared threshold
between two layers of the other, and let a layer's coupling differ from the
first block's; two iterations let a pool filled in one be used in the next, after
a step that moved the weights or a batch that was skipped.  In
the server the channel of 2 is filled by a role and one token, so that a
generation blocks on it, and one thread makes the second request queue behind
the first.  In WaveRun three processes are a conversion, a training and a
resume of either; the marks fall on the first two iterations so that a stalled,
a moving and a skipped reference are all met.  In the passes a value is wrong
with probability 1 - 1/10007 per seed when an operator is, since both sides are
polynomials (or fixed rational functions) over the field; two bands have a
neighbour on one side only, three on both, and quartets of four-wave mixing need
four or more; two layers make a residual gradient flow through a later layer.
A vocabulary of 2, or of 7 with a learned attention, makes a phase-native file as
long as a dense one of fewer learned parts.  Running a whole layer twice shows buffers whose earlier contents leak into a
call.  Six tokens reach past the block and fill neighbouring buckets, wrap
around included.

Deadlock is left unchecked where the system may really stop (a process that has
ended or was killed for the last time, a server without further requests),
and one job of a pass that is over; BatchStep, GpuPool and CudaOde have an
explicit final step instead and are checked for deadlock, which covers their
mutexes and barriers.

**Fairness.**  TrainRun: the single thread of a running process is scheduled
(`WF(RunStep)`); nothing forces a launch or a kill.  BatchStep: weak fairness
for the main thread and each batch thread, all operating-system threads; both
mutexes are released within one action.  ChatServe: weak fairness of handlers,
of blocking tasks and of `Exit` (tokio runs what is ready); clients read or
leave (`FairSpec`), or may stall for ever (`StalledSpec`).  Launches,
disconnects, panics, kills and Ctrl+C are never forced.

**Further checks.**  These are run by hand: a configuration of their own, or a
listed one with other `INVARIANT`s, `PROPERTY`s or constants as named.
`ChatServeStall` passes, in the others TLC finds the property violated.

| cfg (module) | property | shows |
|---|---|---|
| `ChatServeStall` (ChatServe) | `WholeRequestEnds` | a reader that stalls without leaving does not hold up whole requests while a thread is left (2 threads) |
| `TrainRunTiedOde` (TrainRun) | `CompleteFileLoads` | with `--tied-embeddings` and a learnable ODE a save has a length neither branch of the resume accepts |
| `TrainRun` with | `CheckpointGuard` | README.md:449 promises a NaN checkpoint guard; only the candle tier has one |
| `KvCache` with | `InputIsTraining` | `prefill` adds `wpe[token]` where training and `forward_one` add `wpe[position]` |
| `KvCache`, `Parts = {"content"}`, with | `ScoredLikeAttn` | the cache scores without the content term of `attn.rs` |
| `CandleRun` with | `CounterIsAgeOnAllTiers` | a `.bin` resume takes its counter from whichever `candle_checkpoint_latest.meta` is around |
| `CandleNan` (CandleRun) | `NoNanInFiles` | the guard looks at the loss from before the last step |
| `BatchStepGpu` (BatchStep) | `ForwardUsesModel` | on `--gpu --learnable-attn` the pool is never invalidated (buffers.rs:139 and compute.rs:9 say it is after an optimizer step): the forward pass keeps the first attention projection |
| `ModelPass` with `ContentDim = 16`, `ModelJobs <- MCShortJobs` and | `AttentionLoadsCorrectly` | wave_model.rs:235 says files with a learned attention "load correctly": of those of 1 layer, 2 bands and 2 heads with a vocabulary of 2 to 50, two decoders, a phase-native one of 42 is taken for another variant |
| `BatchStep` with | `PerLayerWithinPhysics` | per-layer gain controls take their ceiling from block 0 |
| `BatchStepResume` (BatchStep) | `ResumedWithinPhysics` | after a resume the gain control starts from the command line's coupling |
| `GpuPass` with | `GpuBetaGradient` | the fused device reverse returns a zero gradient for the neighbour coupling (ops_backward.rs:338) |

## Proofs

`TrainRunProofs` proves, for **every** value of the constants (any save period,
batch size, layout flags, legacy files and bounds), from `TrainRunAssumption`
only:

* `Invariance`: `Spec => []IInv`;
* `TypeCorrect`: the module's `TypeOK`;
* `StreamAlignedAlways`, `MomentsMatchAlways`, `SnapshotsCoherentAlways`,
  `SourceKeptAlways`: the safety properties of the run `TrainRun`, each a
  consequence of `IInv`;
* `CompleteFileLoadsUnlessTiedOde`: `CompleteFileLoads` whenever embeddings are
  not tied or the ODE is frozen, the cases `TrainRunTiedOde` leaves.

The properties are not inductive alone.  `IInv` adds what the argument needs:
`Position` (the loop counter lies between `start` and `start + NIters`, so that
a final save carries the right counter); `JobFits` (a numbered save is of the
iteration just stepped, the final one of the end); `FileInProgress` (a half
written file holds the state of the process writing it, so finishing it gives a
coherent file and killing it leaves a coherent prefix); `SourceBehind` (a
numbered source lies at or before `start`, while snapshots are named after
later iterations, hence the source is never opened); `BaseFileKept` (the final
name is opened by the final save only); `LayoutsSaved` (only two layouts are
ever on disk).  One lemma per action shows `IInv` preserved; the facts on
cardinalities of sets of iterations and on a single optimizer step are lemmas
of their own.

`BatchStepProofs` proves for any set of elements, any number of layers and
iterations and any limits and readings, from `BatchStepAssumption`:

* `Invariance` and `TypeCorrect`;
* `GradientsOfOneModelAlways`: what a batch accumulates was computed from one
  version of the weights;
* `SharedWithinPhysicsAlways`: the shared gain control's threshold never passes
  the least stability limit of the layers it serves, if a ceiling given by
  `--agc-ceiling` does not exceed the one the coupling allows at the start
  (`ManualIsLower`: a higher one holds until the first step, train_loop.rs
  196-204);
* `OneForwardPerBatchAlways`: whichever thread fills the pool, and whether
  attention is learned or frozen, all forward passes of a batch project a layer by
  its weights of one optimizer step; on the CPU that is the last step, on a GPU the
  one before any (`BatchStepGpu` shows what that costs).

Its `IInv` adds to the type `Gain` (each gain control between its bounds and
below its ceiling), `Phases` and `Progress` (where each thread can be while the
main thread is in a phase), `CeilingBelow` and `GainsBelow` (a ceiling and every
threshold lie below the least limit as of the last step, which thresholds read
before a step may not outlive) and `PoolFirst` and `Projections` (the pool is filled during the first
batch, before any step, since `Join` waits for every thread to have gone through all
layers; nothing empties it, and a thread projects by what it holds).  That a finite
set of limits has a least one is `LeastNat`, by well-founded induction.

`CandleRunProofs` proves, from `CandleRunAssumption` (positive batch size and save
period, natural bounds), `Invariance`, `TypeCorrect` and all four properties of
the run: `PoisonIsFreshAlways`, `CounterIsAgeAlways`, `SomethingToResumeAlways`,
`OdeGradientsOfThisBatchAlways`.  `IInv` follows a save through its five files:
`AgesOnDisk` says of each file, by the stage the save is at, whether it is old,
opened or already of this iteration, as long as nothing was cut short; `Spare`
says where a complete file is after one wound; `Wounds` that kills and failures
are counted; `FreshInMemory` that a finite loss comes from clean weights, so a
NaN is no older than the step under way; `CellOfThisBatch` that the gradient
cell is emptied before a save.

`GpuPoolProofs` proves, for any set of threads and any programs of operations,
`Invariance`, `TypeCorrect`, `ScratchFitsAlways` and `OwnResultsAlways`.
That the scopes of every operation run in the order upload, ensure, submit,
readback is a lemma over the operation kinds (`Ordered`); the invariant
(`ThreadInv`) then says of each thread that slots it ensured are large enough
(they only grow), that its parameters and results are on the device unless
somebody had the pool between its scopes, and (`SlotIds`) that no two slots
share a buffer.

`ServeProofs` proves of ChatServe, for any finite set of requests, number of threads,
channel capacity and token bound (`ChatServeAssumption`), `Invariance`,
`TypeCorrect`, `StreamScriptedAlways`, `AnsweredIsRememberedAlways`,
`NoPhantomConversationAlways` and `Refinement`: the server implements
`Completion`, `Spec => KeepsPromise`, with an own lemma for what the client sees
in each step.  `IInv` ties a request's handler, task and connection
(`HandlerFits`), places the events the client has and those in the channel side
by side in one script (`Scripted`, `Reach`), and bounds both conversation counters
from above by the answers finished and from below, up to failed saves, by those
kept (`Remembered`), which needs cardinalities of sets of requests.

`ServeProofs` proves of KvCache, for any number of layers, heads and buckets, any `Mix` and
`Bin` and conversations of any length, `CacheInvariance`, `CacheIsRecomputableAlways` and
`BucketsPartitionAlways`.  `IInv`: every layer covers the conversation, its
buckets file every position under its phase, and a layer follows from the one
before by the attention of `attn.rs`.  The two directions are that the buckets
around the query hold exactly the keys the dense attention scores
(`PrefillIsDense`, `CachedIsDense`) and that positions already there never look at
a later one (`DenseBehind`), so that appending changes none of them.

`CudaOdeProofs` proves `RaceFreeAlways` for any number of bands and of steps
(`CudaOdeAssumption`), every weight and every schedule.  The invariant is small
(each thread is at some segment); the argument is about the kernels: every
segment but the forward kernel's last ends at a barrier, so two threads that may
run are in one segment (`SameSegment`), and in one segment the cells that a
thread writes are touched by no other thread except through the atomic addition
(`NoRace`).

`WaveRunProofs` proves, for any sources, tokenizer, command lines, marks, period
and bounds, `RunCoherentAlways`, `AbortIffStalledAlways`, `TokensGenuineAlways`,
`TextRecoveredAlways` and `WindowsPairAlways`.  `IInv` has three parts.  `RunInv`: a training process is
within its iterations and saves under the next one (`Place`), every window of the
batch in hand was drawn after the last step in the weights, while the moments
equal the weights' steps, which are no more than the iterations (`Steps`), and the
detector's reference is the loss at the first mark once there is one, at most as
large as a batch can make it, so that a skipped mark cannot pass for a stall
(`Marks`); `FilesInv` says the same of checkpoints.  `TextInv`: a cache with as many
tokens as its header promises holds all the tokens of one text, because the file
under way holds no more tokens than were gone through and equals the prefix when
none was lost (`Partial`).  `WindowInv`: a dataset with a header is that of one text
the source has had, as far as it is written, and every window of the batch was read
from one.  A window is read whole or not at all and inputs come before all targets,
so a dataset cut short yields few windows, but only right ones (`WindowPaired`).
That a wave says which token it carries is `RowsApart`, for every vocabulary:
`find_coprime_moduli` always returns an odd number and the one after the next,
because their greatest common divisor is 1 at the first try (`OddCoprime`, along
Euclid's algorithm) and the square root is rounded up, and numbers below the product
of the two are known by their remainders (`Residues`).  Assumed of the constants: the
marks are in order and the period is positive, vocabularies and the configurations'
counts are natural numbers, the tokens of a text are ids, at least one, and, for `TextRecoveredAlways` alone, `RoundTrips`: the tokenizers spell back
the texts the source may have, which a BPE file without some byte's character
would not (the code takes such a byte for id 0, bpe.rs:159-162).  TLC evaluates all
of these on the instance.

`MathProofs` proves of OdePass, for any number of bands, steps and any seed,
`OdeIInvAlways` (the weights are the job's and every row of a forward
integration, whole or split, is a row of numbers) and
`MixingConservesEnergyAlways`.  Values and derivatives modulo `P` together are a
commutative ring (`AddRing`, `MulRing`), which is proved from remainders, and sums
over bands are handled by what changing one entry does to them (`SumChanges`).
What a quartet of bands gives to two of its members it takes from the other two
(`QuartetConserves`, from `Im(conj(x) conj(y) m) = Im(conj(xy) m)`), each quartet
loop adds at four different bands (`QuartetsAreQuartets`), and so the energy fed
to the row stays zero after each of them.

`MathProofs` proves of ModelPass, for any dimensions that `DimsOk` admits, every
decoder, every set of flags and any seed, `AttentionAlignedAlways`,
`LayoutIInvAlways`, `LayoutRoundTripsAlways`, `AutoLoadRecoversAlways` and
`CausalAlways`.  `DimsOk` asks that sizes are
positive, that a head is at least one column wide (nothing in the code makes the
heads fill the row; `attn.rs` leaves the columns over zero) and that the groups divide
the row, as the pre-flight check of `cpu/train_loop.rs` and an assertion of
`block_diag.rs` do.  Reading takes slices and writing
concatenates.  Two parts of a vector that meet are one part (`PartsJoin`), so a
linear layer that was read is written back as the part it was read from, then a
head, attention, a block (`BlockPart`), the decoder (`DecoderPart`) and the model
(`ParamsPart`).  No gap and no overlap is left because the offsets of the reading
walk are the lengths of what the writing walk writes, and because
`count_trainable_params`, which counts by the shapes of a model's fields, arrives at the sum of
these lengths (`CountIs`).  Clamped entries are in range (`EntryInRange`) and the
cosine cache is refreshed after its phases are read (`RefreshIs`).

What a file is taken for (`AutoLoadRecoversAlways`): by `CountIs` a candidate's
length is what every model of its dimensions has, plus what its learned parts add,
plus its decoder (`CandidateIs`).  Lengths rise in the order frozen, ODE, attention,
both (`ExtraRises`; a learned ODE widens the content projection, so it adds the more
the more heads there are), so two variants with one decoder never share a length,
and the order in which candidates are tried decides only between a phase-native
file and a dense variant (`FirstFit`).  A dense decoder is the longer one, so that
variant has fewer learned parts and comes first: `Ambiguous` is exactly this
equation, and the theorem says that a file goes to another model exactly then.
The code's promise that it never does is `AttentionLoadsCorrectly`, which
the check named above refutes.

Causality (`CausalAlways`, with `CausalIInv`, which adds to `LayoutIInv` what rows look
like between two blocks): a job gives a direction, the derivative part of a number,
to the last position alone.  Numbers without a direction (`Still`) and all numbers are
the two kinds (`Kind`), and every operation of Field keeps a kind, the table look-ups
that stand for transcendental functions, too; so both are proved at once, for a kind
`S`.  A passage is `Leveled` when each position is of its level: all numbers for the
last, still ones before.  The weights must be still: a fresh model's are
(`InitModelStill`), and so are those read from a vector without a direction
(`ModelFixed`, along the offsets of the layout).  Norms, the maestros, the
integrations of either kind (`OdeForwardType`, `SplitForwardType`) and the projections
take one position at a time and keep its level.  Attention is where positions meet:
its scores are triangular (`ScoresTriangular`), dividing them by their sums keeps them so
and a later value then only meets a zero (`MixedLeveled`), so a block keeps a passage
leveled (`BlockLeveled`) and no step of the pass does otherwise (`CausalNext`).  ModelPass
runs a fresh model's ODE, whose four-wave mixing is off (wave_model.rs:145), so mixing
has no part in this.

How recursive functions are reasoned about: the layers of a pass, the segments of
a kernel and a sum are functions on `0 .. n` defined by their value before.  That
such a function exists and has the property wanted is shown by the least number
for which it would not (`Least`, from the well-foundedness of the naturals).

Only model-checked:

* liveness (`RunEnds`, `BatchesEnd`, `DisconnectFreesThread`, `EveryRequestEnds`,
  `ShutdownEnds`), which is outside what the prover does here;
* `OdeGradientExact` and `ModelGradientExact`: a hand-written reverse is the exact
  derivative, an identity between sums of products over bands, positions, layers
  and steps with divisions and square roots in it; the ring is there, but each
  operator's transpose would need its own algebra;
* `GpuForwardAgrees`, `GpuBackwardAgrees`, `CudaAgrees` and `PassesAgree`: two
  programs compute the same, term by term in a different order;
* `CpuDrawsFromStream`, which is violated.

## Findings

A run that must end in a violation quotes in `PROJECT.json` the sentence the code
departs from:

* `CandleStream`: the candle tier stores generator state 0, the fixed point of
  xorshift64; a CPU run resumed from the file draws the same batch for ever.

The configurations under "Further checks" show others, two of them told here first.  The rest was read off
the code while translating it, and a model says so where it had to choose:

* GPU pool (`BatchStepGpu`).  On `--gpu --learnable-attn` the pool is keyed by the address of the
  weights, the optimizer writes there in place, and nothing calls
  `invalidate_weight_cache`: the forward pass keeps the first attention projection,
  the backward pass and the optimizer go on with the trained one.
* Loading (`AttentionLoadsCorrectly`).  `load_checkpoint_auto` knows a file by its length alone and tries
  frozen and dense variants first.  A file with a learned attention may be as long as
  one of them and is then read in another order, without an error: 2 bands, 2 heads,
  1 layer and a vocabulary of 42 in that check, and as well 48 bands, 8 heads, 1 layer,
  phase-native with learned ODE, and a vocabulary of 256.
* Passes.  The CPU's gradient of dynamic harmonics omits the transpose of
  `out_proj` (the candle op's has it); the tied decoder's backward omits its
  temperature; the split `out_proj` in groups is flattened in an order its
  gradient does not follow; corrector gradients have entries without a parameter;
  with `--learnable-attn` and no attention pathway the lengths of parameters and
  gradients differ.  `ModelPass` leaves exactly these sets of flags out of
  `ModelGradientExact`'s jobs.  Both families of four-wave mixing range over the
  same quartets, so each is applied twice.  `extract_ode_states` takes cubic
  coupling 0; `forward_from_layer` ignores plate and split bands.
* Layout.  Corrector variants of `load_checkpoint_auto` share counts.
* wgpu.  `vec_accumulate`'s guard drops the neighbour coupling's gradient; the
  value returned third is the gradient of gamma, not omega; the reverse's
  coefficient buffer has two entries where the shader reads a third
  (ops_backward.rs:120); fused paths ignore learnable RK4 weights, and the
  legacy reverse cubic coupling too; the learnable backward returns zero for RK4
  weights.  `train_loop.rs` 218 leaves the fused layer unused.  Two unlocked
  pooled operations can swap results.
* Candle.  Tensor four-wave mixing adds shifted contributions at the wrong band;
  `--split-band` without `--custom-op` never trains the ODE's parameters;
  `cuda_kernel` takes precedence over it; the custom op passes cubic coupling 0
  and leaves one gradient cell for the whole batch; the monitored forward omits
  content scores and selection yet is trained on; the CUDA gain control gets no
  ceiling; the phase-native loss is not divided by the temperature as the CPU's.
* Wave data.  A cache is labelled with the size of the source at the time of
  *saving*, so text edited meanwhile is labelled as current; edits that keep the
  size are invisible and a directory's size is not its contents'
  (token_cache.rs:4-5 promises invalidation on change); the tokenizer is
  identified by its path.  Conversion uses the smaller of tokenizer size and
  `--vocab`, training `--vocab`; conversion ignores `--m1`/`--m2`.  Tokens beyond the
  vocabulary become zero waves.  `find_coprime_moduli`'s search never iterates
  (proved: `ModuliFound`).
  A run given up saves under the last iteration's number; a resume whose
  parameter count differs keeps iteration and schedule with fresh weights; the
  last position of a long window is never trained on; the wave loop ignores
  `--gpu`, curriculum and cubic coupling where cli.rs says flags still apply.

## Left out

Floating point (in the state machines a loss is finite or bad and a coupling is
its stability limit; in the passes numbers are exact and magnitudes below the
knee of the gain control and inside every clamp); tensor libraries and drivers;
monitors, telemetry, the galaxy scan and every read-only report; prompts and
JSON of the server; the contents of a wave memory beyond its counter (nothing
else is changed by the server).  Of Candle: attention masks other than 1 and
tensor four-wave mixing.  Of wgpu: entry points without a caller beyond the
backend trait, tiled, Kahan and f64 variants of a kernel, and validation.  Of
WaveRun: two processes at once, learning rate and best loss, KWMF aggregates,
`load_data_auto` and `data.rs`, which it does not reach; losses off the marks are
taken as 1 and the count of a torn body as no model's.  Curriculum, learning-rate
scale and springs, which no listed state depends on.  A panic inside a batch
thread ends the process (the join unwraps) and is a `Crash` of TrainRun.
`std::fs` writes are in order and a killed process leaves a prefix; power loss
that reorders blocks is not considered.

## Plan

Done: TrainRun, BatchStep, CandleRun, ChatServe over Completion, GpuPool, KvCache,
CudaOde (its races) and WaveRun with their proofs; the passes (OdePass, ModelPass),
the wgpu tier (GpuPass) and the CUDA kernels' results with TLC.  Next, in this
order:

1. Proofs: the round trip of `tokenize_chars`, so that only a BPE file is assumed
   of.
2. The aggregate mode of wave datasets, springs and the curriculum.
