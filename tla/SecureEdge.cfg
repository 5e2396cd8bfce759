SPECIFICATION Spec
CONSTANTS
    Calls = {c1, c2}
    Isolates = {i1}
    None = none
    Limit = 2
    Window = 2
    MaxCalls = 5
    MaxTime = 2
    MaxMishaps = 1
SYMMETRY Slots
INVARIANTS EdgeInv RunsOnce LimitHolds
CHECK_DEADLOCK FALSE
