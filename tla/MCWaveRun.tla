------------------------------ MODULE MCWaveRun ------------------------------
(***************************************************************************)
(* An instance of WaveRun: four contents of the data path (two files of    *)
(* the same size, two directories), a tokenizer of seven tokens,           *)
(* and command lines that differ in what decides the model's layout.       *)
(***************************************************************************)
EXTENDS WaveRun

\* a = 97, b = 98, space = 32
Plain(text) == [dir |-> FALSE, size |-> Len(text),
                file |-> [name |-> 1, ext |-> "txt", readable |-> TRUE, body |-> text]]
Text(s) == <<[kind |-> "other"], [kind |-> "key"], [kind |-> "colon"],
             [kind |-> "string", text |-> s, closed |-> TRUE], [kind |-> "other"]>>

MCFirstSource == Plain(<<97, 98, 32, 98, 98>>)
MCSources ==
    { MCFirstSource,
      Plain(<<98, 98, 32, 97, 98>>),
      [dir |-> TRUE, size |-> 40, files |->
         { [name |-> 2, ext |-> "txt", readable |-> TRUE, body |-> <<97>>],
           [name |-> 3, ext |-> "bin", readable |-> TRUE, body |-> <<98>>],
           [name |-> 1, ext |-> "jsonl", readable |-> TRUE, body |->
              << Text(<<92, 116>>), <<>>, <<[kind |-> "key"], [kind |-> "other"]>>,
                 Text(<<98>>) >>] }],
      [dir |-> TRUE, size |-> 41, files |-> {}] }

Space == <<CodePoint(32)>>
MCTokenizer ==
    [vocab  |-> << <<97>>, <<98>>, Space, <<97, 98>>, Space \o <<98>>,
                   <<CodePoint(9)>>, <<CodePoint(10)>> >>,
     merges |-> << <<Space, <<98>>>>, << <<97>>, <<98>> >> >>]

Model(vocab) == [C!ModelArgs EXCEPT !.n_bands = 4, !.layers = 1, !.maestro_dim = 2,
                                    !.vocab = vocab]
Convert == [C!ConvertDatasetArgs EXCEPT !.model = Model(5), !.per_position = TRUE]
Waves   == [C!TrainWavesArgs EXCEPT !.model = Model(5), !.iters = 3, !.seq = 2]
Train   == [C!TrainArgs EXCEPT !.model = Model(5), !.iters = 2, !.seq = 1, !.batch = 2,
                               !.wave_loss = TRUE, !.freeze_ode = TRUE]
Candle  == [Train EXCEPT !.candle = TRUE]

MCJobs == { Convert, [Convert EXCEPT !.bpe = TRUE], Waves, Train, Candle }

ASSUME MCTokenizerRoundTrips == RoundTrips
=============================================================================
