\* A warned cycle, then one that finds the same and is not sent again.
CONSTANTS
    Runs = {r1, r2}
    Hosts <- OneHost
    Parameters <- Unedited
    StaticConfig <- LocalConfig
    Pages <- SomePages
    Forecasts <- DryOrStorm
    ImminentHorizon = 2
    PrepareHorizon = 4
    StaleAfter = 1
    MaxRecent = 1
    MaxEdits = 0
    MaxCrashes = 0
    MaxClock = 3
SYMMETRY Symmetry
SPECIFICATION Spec
INVARIANTS
    NoActiveAlertIsTrue
