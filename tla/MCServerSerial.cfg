SPECIFICATION Spec
CONSTANTS
    r1 = r1
    r2 = r2
    r3 = r3
    s1 = s1
    s2 = s2
    py = py
    js = js
    k1 = k1
    k2 = k2
    None = None
    Requests <- ThreeRequests
    Sessions <- TwoSessions
    Runtimes <- TwoRuntimes
    Stoppers <- TwoStoppers
    MaxConcurrent = 2
    OneAtATime = TRUE
    NoLateArrival = TRUE
    Fails = TRUE
SYMMETRY Symmetric
INVARIANTS
    ActiveWhileExecuting
    RightRuntime
    ExecutesInLive
    

    
CHECK_DEADLOCK FALSE
