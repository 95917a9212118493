\* Invocations overlap, dying anywhere: what still holds.
CONSTANTS
    Runs = {r1, r2}
    Skies <- WeatherSkies
    Avisos <- ShortAvisos
    Lookback = 3
    ImminentHorizon = 1
    PrepareHorizon = 2
    ForecastHours = 2
    Retention = 4
    AgentSelected = TRUE
    Serialized = FALSE
    CrashStages <- AnyStage
    MaxCrashes = 2
    MaxClock = 4
SYMMETRY Symmetry
SPECIFICATION Spec
INVARIANTS
    RecordedWasDelivered
    SilenceIsJustified
