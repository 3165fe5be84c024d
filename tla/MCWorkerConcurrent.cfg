CONSTANTS
    MaxRequests = 2
    MaxPings = 0
    PipeCapacity = 1
    Plugins <- GoodOnly
    MaxEvents = 0
    HandlerFaults = {"crash"}
    OversizeResults = {}
    Leaky = {}
    HostFaults = {"abandon"}
SPECIFICATION Spec
INVARIANTS
    RepliesHaveRecipients
    OneTerminal
    ClosedMeansStreamEnded
    ShutdownDelivers
PROPERTY KeepsPromise
