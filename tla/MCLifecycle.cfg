SPECIFICATION FairSpecLife
CONSTANTS
    Requests = {r1, r2}
    Sessions = {s1}
    Runtimes = {py}
    Stoppers = {cleaner, k1}
    Alone = {r1}
    Foreign = {r2}
    Cleaner = cleaner
    Callers = {post}
    None = None
    MaxConcurrent = 1
    OneAtATime = FALSE
    NoLateArrival = FALSE
    Fails = FALSE
INVARIANTS
    NoStuckActive
PROPERTIES
    EveryCallerAnswered
    EveryRequestIsAnswered
    CleanupSweeps
CHECK_DEADLOCK FALSE
