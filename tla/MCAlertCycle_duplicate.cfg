\* The schedule delivers one firing twice and both invocations run.
CONSTANTS
    Runs = {r1, r2}
    Skies <- WeatherSkies
    Avisos <- ShortAvisos
    Lookback = 3
    ImminentHorizon = 1
    PrepareHorizon = 2
    ForecastHours = 2
    Retention = 6
    AgentSelected = FALSE
    Serialized = FALSE
    CrashStages <- NoStage
    MaxCrashes = 0
    MaxClock = 2
SPECIFICATION Spec
INVARIANTS
    AuditTrailKept
