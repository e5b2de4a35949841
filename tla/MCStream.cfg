SPECIFICATION FairSpec
CONSTANTS
    Setups = 2
    MaxChunks = 2
INVARIANTS
    PromptReaderIsSafe
    LastVerdictDecides
    NothingDropped
PROPERTIES
    LeftComplete
    EveryStreamEnds
