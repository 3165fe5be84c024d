CONSTANTS
    MaxRequests = 2
    MaxPings = 1
    PipeCapacity = 3
    Plugins <- MCPlugins
    MaxEvents = 1
    HandlerFaults = {"panic", "cancel_error", "stray_output", "crash"}
    OversizeResults = {2}
    MaxSends = 4
SPECIFICATION Spec
INVARIANT Sequential
PROPERTY HostGoneWorkerGone
CHECK_DEADLOCK FALSE
