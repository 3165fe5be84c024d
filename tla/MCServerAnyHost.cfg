CONSTANTS
    MaxRequests = 1
    MaxPings = 0
    PipeCapacity = 1
    Plugins <- MCPlugins
    MaxEvents = 1
    HandlerFaults = {"panic"}
    OversizeResults = {}
    Leaky = {1}
    MaxSends = 5
SPECIFICATION Spec
INVARIANTS
    TypeOK
    PendingMatchesTasks
    AckIsLast
    SessionsSeparate
CHECK_DEADLOCK FALSE
