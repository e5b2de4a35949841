SPECIFICATION Spec
CONSTANTS
    Calls = {c1, c2, c3}
    Light = {c2, c3}
    MaxEvents = 1
    Keys = {k1}
    Master = master
    Wrong = wrong
    MaxTime = 1
    NoRow = NoRow
INVARIANTS
    FailureIsThrown
CHECK_DEADLOCK FALSE
