SPECIFICATION Spec
CONSTANTS
    p1 = p1
    p2 = p2
    p3 = p3
    i1 = i1
    i2 = i2
    t1 = t1
    t2 = t2
    k1 = k1
    k2 = k2
    k3 = k3
    k4 = k4
    k5 = k5
    None = None
    Clients <- TwoClients
    Images <- TwoImages
    Containers <- FiveContainers
    Ticks <- OneTick
    Fast = TRUE
    CleanSize = 1
    DirtySize = 1
    Strict = TRUE
    Prewarm = FALSE
    StopAnytime = FALSE
    Failures <- Refusals
    ExecFails = FALSE
SYMMETRY Symmetric
INVARIANTS
    ExclusiveOwner
    DrainMissesFew
    CleanSlate
    HeldIsLive
    NothingForgotten
CHECK_DEADLOCK FALSE
