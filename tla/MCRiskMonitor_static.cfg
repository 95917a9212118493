\* The thresholds of the static configuration.
CONSTANTS
    ImminentHorizon = 1
    PrepareHorizon = 2
    Rows <- SomeRows
    Forecasts <- AllForecasts
    Thresholds <- StaticThresholds
    MaxHour = 2
SPECIFICATION Spec
INVARIANTS
    NamedWarningEarnedIt
    VerdictIsForeseen
PROPERTIES
    BrokenSourceBuysNothing
    WarningNeverCalms
    TruncationNeverWarns
