CONSTANTS
    MaxRequests = 1
    MaxPings = 0
    PipeCapacity = 1
    Plugins <- GoodOnly
    MaxEvents = 0
    HandlerFaults = {"panic"}
    OversizeResults = {}
    Leaky = {}
    HostFaults = {}
SPECIFICATION SpecHandlersReturn
PROPERTY InvocationResolves
CHECK_DEADLOCK FALSE
