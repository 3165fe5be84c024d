CONSTANTS
    MaxRequests = 2
    MaxPings = 2
    PipeCapacity = 1
    MaxCancels = 1
    HostFaults = {"timeout", "host_crash"}
    Plugins <- AllPlugins
    MaxEvents = 1
    HandlerFaults = {"panic", "cancel_error", "crash"}
    OversizeResults = {2}
SPECIFICATION Spec
INVARIANTS
    TypeOK
    TranscriptComplete
    PingIsFresh
    NothingLeft
PROPERTIES
    KeepsPromise
    CallsReturn
