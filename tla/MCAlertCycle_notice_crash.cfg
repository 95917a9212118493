\* An invocation dies between a notice and the outage record.
CONSTANTS
    Runs = {r1, r2, r3}
    Skies <- CalmSkies
    Avisos <- ShortAvisos
    Lookback = 3
    ImminentHorizon = 1
    PrepareHorizon = 2
    ForecastHours = 2
    Retention = 6
    AgentSelected = FALSE
    Serialized = TRUE
    CrashStages <- AnyStage
    MaxCrashes = 1
    MaxClock = 2
SPECIFICATION Spec
PROPERTIES
    DownSourceIsAnnounced
