\* An official warning that lasts longer than the lookback.
CONSTANTS
    Runs = {r1, r2}
    Skies <- WeatherSkies
    Avisos <- LongAvisos
    Lookback = 3
    ImminentHorizon = 1
    PrepareHorizon = 2
    ForecastHours = 2
    Retention = 6
    AgentSelected = FALSE
    Serialized = TRUE
    CrashStages <- NoStage
    MaxCrashes = 0
    MaxClock = 5
SPECIFICATION Spec
PROPERTIES
    OverlapIsNeverRepeated
