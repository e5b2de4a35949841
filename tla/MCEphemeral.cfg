SPECIFICATION SpecEngine
CONSTANTS
    p1 = p1
    p2 = p2
    p3 = p3
    i1 = i1
    k1 = k1
    k2 = k2
    k3 = k3
    k4 = k4
    None = None
    Clients <- ThreeClients
    Images <- OneImage
    Containers <- FourContainers
    Ticks <- NoTicks
    Fast = FALSE
    CleanSize = 1
    DirtySize = 1
    Strict = TRUE
    Prewarm = TRUE
    StopAnytime = FALSE
    Failures <- Refusals
    ExecFails = FALSE
    MaxConcurrent = 2
    MaxKept = 1
SYMMETRY Symmetric
INVARIANTS
    NoForeignProcess
    
    
CHECK_DEADLOCK FALSE
