---------------------------- MODULE MCModelPass ----------------------------
EXTENDS ModelPass
Base == [nBands |-> 2, nHead |-> 2, md |-> 2, T |-> 3, layers |-> 2, vocab |-> 3, groups |-> 1, steps |-> 1,
         head |-> "dense", rank |-> 2, frozen |-> FALSE, loss |-> "tokens",
         learnOde |-> TRUE, odePathway |-> TRUE, splitBand |-> FALSE, corrector |-> TRUE, rk4w |-> FALSE,
         layerScale |-> FALSE, learnAttn |-> FALSE, attnPathway |-> TRUE, dyn |-> FALSE]
Configs == { Base,
             [Base EXCEPT !.head = "rank", !.learnAttn = TRUE, !.layerScale = TRUE],
             [Base EXCEPT !.nHead = 3, !.learnAttn = TRUE],
             [Base EXCEPT !.head = "phase", !.rk4w = TRUE, !.splitBand = TRUE, !.steps = 2],
             [Base EXCEPT !.head = "wave", !.learnOde = FALSE, !.corrector = FALSE],
             [Base EXCEPT !.head = "wave", !.frozen = TRUE, !.steps = 2, !.learnAttn = TRUE],
             [Base EXCEPT !.head = "phase", !.loss = "waves", !.layerScale = TRUE, !.corrector = FALSE] }
Forwards == { [Base EXCEPT !.learnAttn = TRUE, !.head = "phase"],
              [Base EXCEPT !.splitBand = TRUE, !.steps = 3, !.nHead = 3],
              [Base EXCEPT !.head = "tied", !.dyn = TRUE, !.groups = 2, !.T = 4],
              [Base EXCEPT !.odePathway = FALSE, !.learnOde = FALSE, !.corrector = FALSE, !.attnPathway = FALSE],
              [Base EXCEPT !.learnOde = FALSE, !.corrector = FALSE, !.head = "phase", !.learnAttn = TRUE] }
(* Phase-native, and as long as a dense model of fewer learned parts.      *)
OneLayer == [Base EXCEPT !.layers = 1, !.head = "phase"]
Ambiguities == { [OneLayer EXCEPT !.vocab = 2], [OneLayer EXCEPT !.vocab = 7, !.learnAttn = TRUE] }
MCModelJobs == { [d |-> c, seed |-> s, vary |-> "params"] : c \in Configs \cup Ambiguities, s \in 1 .. 2 }
          \cup { [d |-> c, seed |-> 3, vary |-> "last"] : c \in Forwards }
          \cup { [d |-> c, seed |-> 4, vary |-> "harmonics"] :
                   c \in {[Base EXCEPT !.layerScale = TRUE], [Base EXCEPT !.T = 4, !.splitBand = TRUE]} }
(* With the content projection of the code, 16 wide: every model of two    *)
(* bands, two heads and one layer whose embedding has up to MaxVocab rows. *)
MaxVocab == 50
MCShortJobs == { [d |-> [OneLayer EXCEPT !.md = 16, !.learnAttn = TRUE, !.vocab = v, !.head = h], seed |-> 1, vary |-> "params"] :
                   v \in 2 .. MaxVocab, h \in {"phase", "dense"} }
=============================================================================
