--------------------------- MODULE MCRiskMonitor ---------------------------
(***************************************************************************)
(* An instance of RiskMonitor for TLC: a horizon of one and of two samples, *)
(* every forecast of up to two, and rows of each kind the rules tell      *)
(* apart.                                                                   *)
(***************************************************************************)
EXTENDS RiskMonitor

Row(level, phenomenon, zone, start, end) ==
    Warning(level, [phenomenon |-> phenomenon, zone |-> zone], Window(start, end))

SomeRows ==
    {Row("red", "precipitation", "coast", 0, 1),
     Row("orange", "unknown", "unknown", -1, 2),
     Row("yellow", "precipitation", "coast", 1, 3),
     Row("red", "precipitation", "highlands", 0, 4),
     Row("red", "high_temperature", "coast", 0, 2)}

Sample == [mm : {0, 10, 20}, pct : {50, 65, 75}]

AllForecasts == UNION {[1..n -> Sample] : n \in 1..2}

\* The defaults of the static configuration, in whole millimetres.
StaticThresholds ==
    [prepare_mm |-> 10, prepare_pct |-> 60, prepare_pct_degraded |-> 70,
     prepare_levels |-> {"yellow", "orange", "red"},
     imminent_mm |-> 20, imminent_pct |-> 70, imminent_levels |-> {"orange", "red"}]

=============================================================================
