-------------------------------- MODULE Risk --------------------------------
(***************************************************************************)
(* From what the sources say to a verdict and the warning a message names:  *)
(* the filters an official warning passes, the ordered branches of the      *)
(* evaluator, and the read-back of the warnings behind its reasons.         *)
(*                                                                         *)
(* A title is what the classifiers tell of it, a forecast the sequence of   *)
(* its samples from the current one on.                                     *)
(***************************************************************************)
EXTENDS Verdicts, Collections

Available(data) == [status |-> "available", data |-> data]
Unavailable == [status |-> "unavailable"]

Phenomenon == {"precipitation", "wind", "high_temperature", "low_temperature",
               "snow", "hail", "unknown"}
Zone == {"coast", "highlands", "coast_and_highlands", "unknown"}
WarningLevel == {"yellow", "orange", "red"}
SEVERITY == [yellow |-> 0, orange |-> 1, red |-> 2]

Title == [phenomenon : Phenomenon, zone : Zone]
Warning(level, title, window) == [level |-> level, title |-> title, window |-> window]

is_flood_relevant(w) == w.title.phenomenon \in {"precipitation", "unknown"}
may_raise_imminent(w) == is_flood_relevant(w) /\ w.title.zone # "highlands"

\* Of the rows the page marks in force, those its dates confirm and that can
\* flood the city.
current_warnings(page, t) ==
    {w \in page : w.window \in InForce({w.window}, t) /\ is_flood_relevant(w)}

-----------------------------------------------------------------------------
horizon(forecast, requested) == evaluated_horizon(Len(forecast), requested)

accumulated_mm(forecast, hours) == total([i \in 1 .. hours |-> forecast[i].mm])

\* Mutant: the mean over the horizon.
mean_probability_pct(forecast, hours) ==
    total([i \in 1 .. hours |-> forecast[i].pct]) \div hours

max_probability_pct(forecast, hours) == Max({forecast[i].pct : i \in 1..hours})

precipitation_window(t, hours) == Window(t, t + hours)

\* Both thresholds met over the horizon the forecast can answer for.
reached(forecast, requested, mm, pct) ==
    LET hours == horizon(forecast, requested)
    IN  /\ accumulated_mm(forecast, hours) >= mm
        /\ max_probability_pct(forecast, hours) >= pct

\* Mutant: what the windows have in common.
common_window(windows) ==
    Window(Max({w.start : w \in windows}), Min({w.end : w \in windows}))

union_window(windows) ==
    Window(Min({w.start : w \in windows}), Max({w.end : w \in windows}))

windows_of(warnings) == {w.window : w \in warnings}

\* Mutant: a warning is cited by its level alone.
level_reason(w) == [level |-> w.level]

\* A warning is cited by level and title.
warning_reason(w) == [level |-> w.level, title |-> w.title]

Verdict(level, window, matches) ==
    [level |-> level, window |-> window, cited |-> {warning_reason(w) : w \in matches}]

qualifying(warnings, levels) == {w \in warnings : w.level \in levels}

-----------------------------------------------------------------------------
\* Each branch holds of the sources and then gives its verdict; T is the
\* configured thresholds.
imminent_matches(warnings, T) ==
    {w \in qualifying(warnings, T.imminent_levels) : may_raise_imminent(w)}

imminent_from_official(warnings, T) ==
    /\ warnings.status = "available"
    /\ imminent_matches(warnings.data, T) # {}

imminent_from_forecast(forecast, T) ==
    /\ forecast.status = "available"
    /\ reached(forecast.data, ImminentHorizon, T.imminent_mm, T.imminent_pct)

\* Mutant: the imminent accumulation asked of the combined rule.
prepare_combined_strict(warnings, forecast, T) ==
    /\ warnings.status = "available" /\ forecast.status = "available"
    /\ qualifying(warnings.data, T.prepare_levels) # {}
    /\ reached(forecast.data, PrepareHorizon, T.imminent_mm, T.prepare_pct)

prepare_combined(warnings, forecast, T) ==
    /\ warnings.status = "available" /\ forecast.status = "available"
    /\ qualifying(warnings.data, T.prepare_levels) # {}
    /\ reached(forecast.data, PrepareHorizon, T.prepare_mm, T.prepare_pct)

prepare_forecast_only(warnings, forecast, T) ==
    /\ warnings.status = "available" /\ forecast.status = "available"
    /\ qualifying(warnings.data, T.prepare_levels) = {}
    /\ reached(forecast.data, PrepareHorizon, T.prepare_mm, T.prepare_pct_degraded)

\* Mutant: without the official source, the combined rule's probability.
prepare_degraded_eager(warnings, forecast, T) ==
    /\ warnings.status = "unavailable" /\ forecast.status = "available"
    /\ reached(forecast.data, PrepareHorizon, T.prepare_mm, T.prepare_pct)

prepare_degraded(warnings, forecast, T) ==
    /\ warnings.status = "unavailable" /\ forecast.status = "available"
    /\ reached(forecast.data, PrepareHorizon, T.prepare_mm, T.prepare_pct_degraded)

\* Most severe branch first.
evaluate(warnings, forecast, T, t) ==
    LET official == imminent_matches(warnings.data, T)
        combined == qualifying(warnings.data, T.prepare_levels)
        span(requested) == precipitation_window(t, horizon(forecast.data, requested))
    IN  IF imminent_from_official(warnings, T)
        THEN Verdict("imminent", union_window(windows_of(official)), official)
        ELSE IF imminent_from_forecast(forecast, T)
        THEN Verdict("imminent", span(ImminentHorizon), {})
        ELSE IF prepare_combined(warnings, forecast, T)
        THEN Verdict("prepare",
                     union_window(windows_of(combined) \cup {span(PrepareHorizon)}), combined)
        ELSE IF prepare_forecast_only(warnings, forecast, T) \/ prepare_degraded(warnings, forecast, T)
        THEN Verdict("prepare", span(PrepareHorizon), {})
        ELSE Verdict("none", QuietWindow(t), {})

-----------------------------------------------------------------------------
\* The warnings a verdict's reasons cite, and the most severe of them, which
\* the message names.
warnings_behind(verdict, warnings) ==
    {w \in warnings : warning_reason(w) \in verdict.cited}

most_severe_warning(warnings) ==
    {w \in warnings : \A v \in warnings : SEVERITY[v.level] <= SEVERITY[w.level]}

=============================================================================
