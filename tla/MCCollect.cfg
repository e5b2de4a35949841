SPECIFICATION FairSpec
CONSTANTS
    Outputs <- StdoutAndStderr
    MaxOutputSize = 4
    MarkerSize = 2
    ChunkSizes <- OneAndThree
    MaxSent = 9
INVARIANTS
    FirstBytesKept
    NoTimerLeft
PROPERTIES
    AlwaysSettles
