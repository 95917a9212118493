\* Two cycles on every host, dying anywhere, under an operator who edits.
CONSTANTS
    Runs = {r1, r2}
    Hosts <- SomeHosts
    Parameters <- Edited
    StaticConfig <- LocalConfig
    Pages <- SomePages
    Forecasts <- DryOrStorm
    ImminentHorizon = 2
    PrepareHorizon = 4
    StaleAfter = 1
    MaxRecent = 1
    MaxEdits = 1
    MaxCrashes = 1
    MaxClock = 3
SYMMETRY Symmetry
SPECIFICATION Spec
INVARIANTS
    TypeOK
    AllClearIsEarned
    ShownWasSent
    OneConfiguration
PROPERTIES
    HistoryIsComplete
