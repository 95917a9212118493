---------------------------- MODULE RiskMonitor ----------------------------
(***************************************************************************)
(* The evaluator as the hours go by: rows appear on the official page and   *)
(* are withdrawn, the forecast is redrawn, sources break and are repaired,  *)
(* and after each change a cycle evaluates what it then sees.               *)
(***************************************************************************)
EXTENDS Risk

CONSTANTS
    Rows,        \* rows the official page may mark in force
    Forecasts,   \* sequences of samples the forecast service may answer
    Thresholds,  \* the configured thresholds
    MaxHour      \* bound: hours

ASSUME RowsAssumption ==
    Rows \subseteq [level : WarningLevel, title : Title, window : TimeWindow]
ASSUME ForecastsAssumption ==
    Forecasts \subseteq Seq([mm : Nat, pct : 0..100]) \ {<<>>}
ASSUME ThresholdsAssumption ==
    Thresholds \in [prepare_mm : Nat, prepare_pct : Int, prepare_pct_degraded : Int,
                    prepare_levels : SUBSET WarningLevel, imminent_mm : Nat,
                    imminent_pct : Int, imminent_levels : SUBSET WarningLevel]

VARIABLES
    hour,
    page,      \* the rows marked in force
    forecast,  \* what the forecast service would answer
    down,      \* the sources that cannot be read
    verdict    \* of the last cycle

world == <<hour, page, forecast, down>>
vars == <<world, verdict>>

official_source(rows, broken, t) ==
    IF "senamhi" \in broken THEN Unavailable ELSE Available(current_warnings(rows, t))

forecast_source(points, broken) ==
    IF "open_meteo" \in broken THEN Unavailable ELSE Available(points)

\* A cycle evaluates the world as it is once a step has changed it.
Cycle ==
    verdict' = evaluate(official_source(page', down', hour'),
                        forecast_source(forecast', down'), Thresholds, hour')

Init ==
    /\ hour = 0
    /\ page = {}
    /\ forecast \in Forecasts
    /\ down = {}
    /\ verdict = evaluate(official_source(page, down, hour),
                          forecast_source(forecast, down), Thresholds, hour)

Publish(w) ==
    /\ w \notin page
    /\ page' = page \cup {w}
    /\ UNCHANGED <<hour, forecast, down>>
    /\ Cycle

Withdraw(w) ==
    /\ page' = page \ {w}
    /\ UNCHANGED <<hour, forecast, down>>
    /\ Cycle

\* Open-Meteo answers anew; another number of samples is an operator changing
\* forecast_hours, for the provider refuses an answer shorter than that.
Redraw(points) ==
    /\ forecast' = points
    /\ UNCHANGED <<hour, page, down>>
    /\ Cycle

Break(s) ==
    /\ s \notin down
    /\ down' = down \cup {s}
    /\ UNCHANGED <<hour, page, forecast>>
    /\ Cycle

Repair(s) ==
    /\ down' = down \ {s}
    /\ UNCHANGED <<hour, page, forecast>>
    /\ Cycle

Pass ==
    /\ hour < MaxHour
    /\ hour' = hour + 1
    /\ UNCHANGED <<page, forecast, down>>
    /\ Cycle

Next ==
    \/ \E w \in Rows : Publish(w)
    \/ \E w \in page : Withdraw(w)
    \/ \E points \in Forecasts : Redraw(points)
    \/ \E s \in Source : Break(s)
    \/ \E s \in down : Repair(s)
    \/ Pass

Spec == Init /\ [][Next]_vars

-----------------------------------------------------------------------------
NoMoreSevere(level, other) == ~is_escalation(other, level)

\* Breaking a source never makes the system warn, or warn more severely: the
\* forecast alone is judged by the same rule whether the official source is
\* silent or broken (branches 4 and 5 of evaluate).
BrokenSourceBuysNothing ==
    [][down \subseteq down' /\ UNCHANGED <<hour, page, forecast>>
          => NoMoreSevere(verdict'.level, verdict.level)]_vars

\* An official warning more never calms a verdict, although it moves the
\* forecast from one branch's rule to another's (branches 1, 3 and 4).
WarningNeverCalms ==
    [][page \subseteq page' /\ UNCHANGED <<hour, forecast, down>>
          => NoMoreSevere(verdict.level, verdict'.level)]_vars

\* A forecast cut short never warns where the full one would not, whichever
\* branch each of them is decided by (evaluated_horizon).
TruncationNeverWarns ==
    [][IsPrefix(forecast', forecast) /\ UNCHANGED <<hour, page, down>>
          => NoMoreSevere(verdict'.level, verdict.level)]_vars

\* The warning a message names lies within the window the message is about,
\* and below an official "imminent" it is one that may raise it: reading the
\* warnings back by level and title finds the ones that earned the verdict
\* and no bystander (_warnings_behind, _most_severe_warning).
NamedWarningEarnedIt ==
    LET warnings == IF "senamhi" \in down THEN {} ELSE current_warnings(page, hour)
    IN  \A w \in most_severe_warning(warnings_behind(verdict, warnings)) :
            /\ verdict.window.start <= w.window.start
            /\ w.window.end <= verdict.window.end
            /\ verdict.level = "imminent" => may_raise_imminent(w)
            /\ verdict.level # "none"

\* The evaluator gives no verdict the alert cycle's model leaves out: neither
\* a level its sources rule out nor a window of another kind (evaluate,
\* against the verdicts of module Verdicts).
VerdictIsForeseen ==
    LET sky == [down |-> down, level |-> verdict.level]
        covers == {union_window(windows_of(rows)) : rows \in (SUBSET page) \ {{}}}
    IN  /\ sky \in Sky
        /\ verdict.window \in Windows(sky, covers, Len(forecast), hour)

=============================================================================
