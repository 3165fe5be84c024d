CONSTANTS
    Host = {h1, h2}
    Path = {p1, p2}
    NoPath = NoPath
    MaxVersion = 2
    ReplaceWhileRead = FALSE
    SameStamp = FALSE
    Aliased = {p1}
SPECIFICATION Spec
INVARIANT CacheTellsTruth
PROPERTY CacheFileSurvives
