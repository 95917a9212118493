\* A storm that lasts and a source that stays down, two of three invocations
\* dying anywhere, overlapping or not.
CONSTANTS
    Runs = {r1, r2, r3}
    Skies <- StormSkies
    Avisos = {}
    Lookback = 3
    ImminentHorizon = 1
    PrepareHorizon = 2
    ForecastHours = 2
    Retention = 6
    AgentSelected = FALSE
    Serialized = FALSE
    CrashStages <- AnyStage
    MaxCrashes = 2
    MaxClock = 1
SPECIFICATION FairSpec
PROPERTIES
    StormIsAnnounced
    OutageIsAnnounced
