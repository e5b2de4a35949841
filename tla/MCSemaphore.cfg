SPECIFICATION FairSpec
CONSTANTS
    c1 = c1
    c2 = c2
    c3 = c3
    c4 = c4
    Callers <- MCCallers
    Max = 2
INVARIANTS
    MutualExclusion
PROPERTIES
    NoOvertaking
    EveryWaiterRuns
    ImplementsPermits
