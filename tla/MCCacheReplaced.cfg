CONSTANTS
    Host = {h1}
    Path = {p1}
    NoPath = NoPath
    MaxVersion = 2
    ReplaceWhileRead = TRUE
    SameStamp = FALSE
    Aliased = {}
SPECIFICATION Spec
INVARIANT CacheTellsTruth
