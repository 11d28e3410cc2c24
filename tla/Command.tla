------------------------------- MODULE Command -------------------------------
(***************************************************************************)
(* What the command line of cli.rs means to main.rs: the flags with their  *)
(* defaults, the TrainConfig the two training commands build from them,    *)
(* and where that configuration is sent.  A flag that neither the route    *)
(* nor the wave loop tells apart is left out.                              *)
(***************************************************************************)
EXTENDS Integers

\* DynParam: the word after the flag.
Off     == "off"
Dynamic == "dynamic"
Fixed   == "fixed"
Refused == "refused"
ParseDyn(word) ==
    CASE word \in {"off", "none", ""}  -> Off
      [] word \in {"dyn", "dynamic"}   -> Dynamic
      [] word = "1.0,0.8"              -> Fixed
      [] OTHER                         -> Refused
IsActive(d) == d # Off

NoModulus == 0
NoPath    == -1      \* --resume left out

ModelArgs == [n_bands |-> 84, n_head |-> 4, layers |-> 4, maestro_dim |-> 16,
              out_proj_groups |-> 1, vocab |-> 15]

TrainArgs ==
    [command |-> "train", model |-> ModelArgs,
     iters |-> 10000, seq |-> 128, batch |-> 4, bpe |-> FALSE,
     candle |-> FALSE, cuda_kernel |-> FALSE, gpu |-> FALSE, wave_loss |-> FALSE,
     freeze_ode |-> FALSE, learnable_attn |-> FALSE, m1 |-> NoModulus, m2 |-> NoModulus,
     layer_scale |-> "off", rk4_weights |-> "off", harmonics |-> "off",
     corrector |-> "dyn", no_corrector |-> FALSE]

TrainWavesArgs == [command |-> "train-waves", model |-> ModelArgs,
                   iters |-> 10000, seq |-> 128]

ConvertDatasetArgs == [command |-> "convert-dataset", model |-> ModelArgs,
                       bpe |-> FALSE, per_position |-> FALSE]

-----------------------------------------------------------------------------
(* The configuration.  train-waves is a separate list of literals.          *)

TrainConfig(a) ==
    [n_iters |-> a.iters, batch_size |-> a.batch, seq_len |-> a.seq,
     n_layers |-> a.model.layers, out_proj_groups |-> a.model.out_proj_groups,
     n_bands |-> a.model.n_bands, n_head |-> a.model.n_head,
     maestro_dim |-> a.model.maestro_dim, vocab_size |-> a.model.vocab,
     m1 |-> a.m1, m2 |-> a.m2, freeze_ode |-> a.freeze_ode,
     layer_scale |-> ParseDyn(a.layer_scale), rk4_weights |-> ParseDyn(a.rk4_weights),
     harmonics |-> ParseDyn(a.harmonics),
     corrector |-> IF a.no_corrector THEN Off ELSE ParseDyn(a.corrector),
     learnable_attn |-> a.learnable_attn,
     loss_mode |-> IF a.wave_loss THEN "WaveL2" ELSE "TokenCE",
     candle |-> a.candle, cuda_kernel |-> a.cuda_kernel]

WavesConfig(a) ==
    [TrainConfig(TrainArgs) EXCEPT
        !.n_iters = a.iters, !.batch_size = 1, !.seq_len = a.seq,
        !.n_layers = a.model.layers, !.out_proj_groups = a.model.out_proj_groups,
        !.n_bands = a.model.n_bands, !.n_head = a.model.n_head,
        !.maestro_dim = a.model.maestro_dim, !.vocab_size = a.model.vocab,
        !.loss_mode = "WaveL2"]

ConfigOf(a) == IF a.command = "train" THEN TrainConfig(a) ELSE WavesConfig(a)

\* A word clap cannot parse ends the process before any command runs.
Parsed(a) == a.command = "train" =>
    Refused \notin {ParseDyn(a.layer_scale), ParseDyn(a.rk4_weights),
                    ParseDyn(a.harmonics), ParseDyn(a.corrector)}

\* Where cmd_train sends a configuration; exit codes as names.
Route(c) ==
    LET candle == c.candle \/ c.cuda_kernel
    IN  CASE c.loss_mode = "WaveL2" /\ candle   -> "exit 2"
          [] c.loss_mode = "WaveL2" /\ ~candle  -> "wave loop"
          [] c.loss_mode = "TokenCE" /\ candle  ->
                 IF c.learnable_attn THEN "exit 2" ELSE "candle loop"
          [] OTHER                              -> "token loop"

-----------------------------------------------------------------------------
(* How many parameters the wave loop trains: its model is phase-native      *)
(* whatever the flags say, and takes its bands from the dataset.            *)

ContentDim == 16
MaestroCount(e, m) == m * e + m + e * m + e
OutProjCount(e, groups) == groups * ((e \div groups) * (e \div groups) + e \div groups)
AttnCount(c, e) ==
    LET hd   == e \div c.n_head
        head == 2 * e + 2 + hd * hd + hd
                + (IF c.freeze_ode THEN 0 ELSE ContentDim * e + ContentDim)
    IN  c.n_head * head + e * e + e
If(cond, n) == IF cond THEN n ELSE 0

CountTrainable(c, bands) ==
    LET e     == 2 * bands
        block == 4 * e + 2 * MaestroCount(e, c.maestro_dim) + OutProjCount(e, c.out_proj_groups)
                 + If(~c.freeze_ode, 2 * bands + 2 + If(IsActive(c.rk4_weights), 4))
                 + If(IsActive(c.harmonics), c.n_head)
                 + If(c.learnable_attn, AttnCount(c, e))
    IN  c.n_layers * block + If(IsActive(c.layer_scale), c.n_layers) + 2 * e + bands
=============================================================================
