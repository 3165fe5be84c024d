CONSTANTS
    Capacity = 2
    MaxOutput = 3
    Inputs = {0, 3}
    MayFork = TRUE
SPECIFICATION Spec
INVARIANTS
    OutputComplete
    ChildReaped
PROPERTIES
    TimeoutReturns
    PressureReturns
