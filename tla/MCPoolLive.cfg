SPECIFICATION FairSpec
CONSTANTS
    p1 = p1
    p2 = p2
    p3 = p3
    i1 = i1
    i2 = i2
    t1 = t1
    t2 = t2
    k1 = k1
    k2 = k2
    k3 = k3
    k4 = k4
    k5 = k5
    None = None
    Clients <- TwoClients
    Images <- OneImage
    Containers <- ThreeContainers
    Ticks <- TwoTicks
    Fast = TRUE
    CleanSize = 2
    DirtySize = 2
    Strict = TRUE
    Prewarm = FALSE
    StopAnytime = FALSE
    Failures <- AllFailures
    ExecFails = TRUE
PROPERTIES
    EveryAcquireReturns
    DirtyIsRecycled
    DrainReturns
CHECK_DEADLOCK FALSE
