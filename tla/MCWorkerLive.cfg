CONSTANTS
    MaxRequests = 1
    MaxPings = 1
    PipeCapacity = 1
    Plugins <- AllPlugins
    MaxEvents = 0
    HandlerFaults = {"crash", "panic", "cancel_error", "stray_output"}
    OversizeResults = {1}
    Leaky = {1}
    HostFaults = {"timeout", "host_crash", "torn", "oversize", "next_event"}
SPECIFICATION Spec
INVARIANTS
    TypeOK
    TranscriptOrder
PROPERTIES
    ResolvesUnlessSilenced
    CancelResolves
    OwnerReturns
    DrainedReturns
    NoOrphan
CHECK_DEADLOCK FALSE
