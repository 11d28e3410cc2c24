\* A source, its two token caches, one dataset and its checkpoints: three
\* processes one after another, one kill, one edit, one token not written.
CONSTANTS
    Sources    <- MCSources
    FirstSource <- MCFirstSource
    Tokenizer  <- MCTokenizer
    Jobs       <- MCJobs
    BlockSize  = 3
    SavePeriod = 2
    Mark2      = 1
    Mark3      = 2
    MaxRuns    = 3
    MaxKills   = 1
    MaxEdits   = 1
    MaxLost    = 1
SPECIFICATION Spec
\* The operator stops launching after MaxRuns processes.
CHECK_DEADLOCK FALSE
INVARIANTS
    TextRecovered
    WindowsPair
    RunCoherent
    AbortIffStalled
