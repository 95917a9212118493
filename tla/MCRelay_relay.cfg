\* Maximum age, skew and future tolerance of one tick each.
CONSTANTS
    Pages = {calm, storm, garbled}
    Parses = {calm, storm}
    Producers = {p1, p2}
    Drifts = {0, 1}
    MaxDrift = 1
    Lags = {0, 1}
    MaxAge = 1
    SkewTolerance = 1
    FutureTolerance = 1
    MaxAttempts = 2
    MaxClock = 3
    None = None
SYMMETRY Symmetry
SPECIFICATION Spec
INVARIANTS
    TypeOK
PROPERTIES
    UnnotedPageIsRecent
    LongStandingPageIsRead
    GatedPageParses
    LatePutIsTrusted
