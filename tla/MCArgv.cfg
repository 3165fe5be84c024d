\* Values of commands of one to three fields, on both ways to the plugin.
SPECIFICATION Spec
CONSTANTS
    Command <- MCCommand
    Value <- MCValue
    Hyphened <- MCHyphened
    Unpaired <- MCUnpaired
    Platform = "unix"
INVARIANTS
    InverseOfParse
    FlagsFailLoudly
