CONSTANTS
    MaxName = 2
    File = {f, g}
    Dir = {"a", "b"}
    RootList <- TwoRoots
    MayFail = TRUE
    MaxWorth = 2
    MaxChanges = 2
    Unsettled <- OneWorld
    NoFile = NoFile
    Overrides = "override"
SPECIFICATION Spec
INVARIANTS
    ResolvesRight
    NothingHidden
    FirstWins
SYMMETRY Symmetry
