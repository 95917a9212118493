\* One invocation at a time, dying anywhere but between a notice and the
\* outage record.
CONSTANTS
    Runs = {r1, r2, r3}
    Skies <- WeatherSkies
    Avisos <- ShortAvisos
    Lookback = 3
    ImminentHorizon = 1
    PrepareHorizon = 2
    ForecastHours = 2
    Retention = 4
    AgentSelected = TRUE
    Serialized = TRUE
    CrashStages <- AfterNotify
    MaxCrashes = 1
    MaxClock = 4
SYMMETRY Symmetry
SPECIFICATION Spec
INVARIANTS
    TypeOK
    RecordedWasDelivered
    SilenceIsJustified
    AuditTrailKept
PROPERTIES
    NoRepeatAlert
    OperatorIsInformed
    OpenedAtKept
    ImplementsLedger
