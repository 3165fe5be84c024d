CONSTANTS
    Version = {1, 2}
    FrameworkVersion = 1
    ProtocolVersion = 1
    HostProtocol = {1}
    MANIFEST_VERSION = 1
    Identifier = {"n", "k", "p", "q", "i", "c"}
    Executable <- SomeExecutables
    Replacement <- Replacements
    NoExecutable = NoExecutable
    NoManifest = NoManifest
    CandidateId <- Id
    Scenario <- Scenarios
    MaxReplaced = 1
    MaxFaults = 1
SPECIFICATION Spec
INVARIANTS
    ReportRight
    HealthyIsUsable
    SessionFits
    ResolvedIsAccepted
PROPERTY DriversEnd
