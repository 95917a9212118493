----------------------------- MODULE RiskProofs -----------------------------
(***************************************************************************)
(* Theorems about the evaluator for every set of official rows, every      *)
(* forecast and all thresholds.                                            *)
(***************************************************************************)
EXTENDS RiskMonitor, VerdictProofs

-----------------------------------------------------------------------------
(* What the monitor keeps: a verdict is the evaluation of its world. *)

Seen(rows, points, broken, t) ==
    evaluate(official_source(rows, broken, t), forecast_source(points, broken), Thresholds, t)

MonitorInv ==
    /\ hour \in Nat
    /\ page \in SUBSET Rows /\ IsFiniteSet(page)
    /\ forecast \in Forecasts
    /\ down \in SUBSET Source
    /\ verdict = Seen(page, forecast, down, hour)

LEMMA MonitorInit == Init => MonitorInv
  BY FS_EmptySet DEF Init, MonitorInv, Seen

LEMMA MonitorStep == MonitorInv /\ [Next]_vars => MonitorInv'
<1>. SUFFICES ASSUME MonitorInv, [Next]_vars PROVE MonitorInv'
  OBVIOUS
<1>1. \A w : IsFiniteSet(page \cup {w})
  BY FS_AddElement DEF MonitorInv
<1>2. \A w : IsFiniteSet(page \ {w})
  BY FS_Subset DEF MonitorInv
<1>3. ASSUME NEW w \in Rows, Publish(w) PROVE MonitorInv'
  BY <1>1, <1>3 DEF MonitorInv, Publish, Cycle, Seen
<1>4. ASSUME NEW w \in page, Withdraw(w) PROVE MonitorInv'
  BY <1>2, <1>4 DEF MonitorInv, Withdraw, Cycle, Seen
<1>5. ASSUME NEW points \in Forecasts, Redraw(points) PROVE MonitorInv'
  BY <1>5 DEF MonitorInv, Redraw, Cycle, Seen
<1>6. ASSUME NEW s \in Source, Break(s) \/ Repair(s) PROVE MonitorInv'
  BY <1>6 DEF MonitorInv, Break, Repair, Cycle, Seen
<1>7. CASE Pass
  BY <1>7 DEF MonitorInv, Pass, Cycle, Seen
<1>8. CASE UNCHANGED vars
  BY <1>8 DEF MonitorInv, vars, world, Seen
<1>. QED
  BY <1>3, <1>4, <1>5, <1>6, <1>7, <1>8 DEF Next, MonitorInv

-----------------------------------------------------------------------------
(* Severity. *)

\* The combined rule asks no more of the forecast than the rule without the
\* official source: what the static configuration keeps to, and the parser of
\* the parameters does not ask (StaticConfigRepository, _parse_thresholds).
OrderedThresholds == Thresholds.prepare_pct <= Thresholds.prepare_pct_degraded

LEMMA LevelOf ==
    ASSUME NEW w, NEW f, NEW T, NEW t
    PROVE  evaluate(w, f, T, t).level =
              IF imminent_from_official(w, T) \/ imminent_from_forecast(f, T) THEN "imminent"
              ELSE IF \/ prepare_combined(w, f, T)
                      \/ prepare_forecast_only(w, f, T)
                      \/ prepare_degraded(w, f, T)
              THEN "prepare"
              ELSE "none"
  BY DEF evaluate, Verdict

LEMMA Severities ==
    /\ \A l \in Level : NoMoreSevere("none", l) /\ NoMoreSevere(l, "imminent")
    /\ NoMoreSevere("prepare", "prepare")
  BY DEF NoMoreSevere, is_escalation, LEVEL_RANK, Level

\* A forecast has a sample for every hour it is evaluated over.
LEMMA Samples ==
    ASSUME NEW points \in Forecasts, NEW requested \in {ImminentHorizon, PrepareHorizon}
    PROVE  /\ Len(points) \in Nat \ {0} /\ DOMAIN points = 1 .. Len(points)
           /\ horizon(points, requested) \in 1 .. Len(points)
           /\ \A i \in 1 .. Len(points) : points[i].mm \in Nat /\ points[i].pct \in Int
<1>1. points \in Seq([mm : Nat, pct : 0 .. 100]) /\ points # <<>>
  BY ForecastsAssumption
<1>2. Len(points) \in Nat \ {0} /\ DOMAIN points = 1 .. Len(points)
  BY <1>1
<1>3. horizon(points, requested) \in 1 .. Len(points)
  BY <1>2, HorizonsAssumption DEF horizon, evaluated_horizon, Earlier
<1>4. ASSUME NEW i \in 1 .. Len(points) PROVE points[i].mm \in Nat /\ points[i].pct \in Int
  <2>1. points[i] \in [mm : Nat, pct : 0 .. 100]
    BY <1>1, ElementOfSeq
  <2>2. points[i].mm \in Nat /\ points[i].pct \in 0 .. 100
    BY <2>1
  <2>3. 0 .. 100 \subseteq Int
    OBVIOUS
  <2>. QED  BY <2>2, <2>3
<1>. QED  BY <1>2, <1>3, <1>4

\* The highest probability is that of some hour, and none is higher.
LEMMA HighestIsTaken ==
    ASSUME NEW points \in Forecasts, NEW hours \in 1 .. Len(points)
    PROVE  /\ \E i \in 1 .. hours : max_probability_pct(points, hours) = points[i].pct
           /\ \A i \in 1 .. hours : points[i].pct <= max_probability_pct(points, hours)
           /\ max_probability_pct(points, hours) \in Int
<1>. DEFINE Chances == {points[i].pct : i \in 1 .. hours}
<1>1. /\ Len(points) \in Nat \ {0}
      /\ \A i \in 1 .. hours : points[i].pct \in Int
  BY Samples
<1>2. Chances \in SUBSET Int /\ Chances # {}
  <2>1. 1 \in 1 .. hours
    BY <1>1
  <2>. QED  BY <1>1, <2>1
<1>3. IsFiniteSet(Chances)
  <2>1. [i \in 1 .. hours |-> points[i].pct] \in Surjection(1 .. hours, Chances)
    BY DEF Surjection
  <2>2. IsFiniteSet(1 .. hours)
    BY <1>1, FS_Interval
  <2>. QED  BY <2>1, <2>2, FS_Surjection
<1>4. Max(Chances) \in Chances /\ \A y \in Chances : y <= Max(Chances)
  <2>. HIDE DEF Chances
  <2>. QED  BY <1>2, <1>3, MaxIsTaken
<1>5. max_probability_pct(points, hours) = Max(Chances)
  BY DEF max_probability_pct
<1>. DEFINE highest == Max(Chances)
<1>6. highest \in Chances /\ \A i \in 1 .. hours : points[i].pct <= highest
  BY <1>4
<1>. HIDE DEF highest
<1>. QED  BY <1>1, <1>5, <1>6 DEF highest

LEMMA EasierProbability ==
    ASSUME NEW points \in Forecasts, NEW mm, NEW pct \in Int, NEW less \in Int, less <= pct,
           reached(points, PrepareHorizon, mm, pct)
    PROVE  reached(points, PrepareHorizon, mm, less)
<1>1. horizon(points, PrepareHorizon) \in 1 .. Len(points)
  BY Samples
<1>2. max_probability_pct(points, horizon(points, PrepareHorizon)) \in Int
  BY <1>1, HighestIsTaken
<1>. QED  BY <1>2 DEF reached

\* No more rain falls in fewer hours.
LEMMA FewerHoursAreDrier ==
    ASSUME NEW cut \in Forecasts, NEW points \in Forecasts,
           NEW few \in 1 .. Len(cut), NEW hours \in 1 .. Len(points), few <= hours,
           \A i \in 1 .. few : cut[i] = points[i]
    PROVE  /\ accumulated_mm(cut, few) <= accumulated_mm(points, hours)
           /\ accumulated_mm(cut, few) \in Int /\ accumulated_mm(points, hours) \in Int
<1>. DEFINE u == [i \in 1 .. few |-> cut[i].mm]
            v == [i \in 1 .. hours |-> points[i].mm]
<1>0. few \in Nat /\ hours \in Nat
  OBVIOUS
<1>1. \A i \in 1 .. few : cut[i].mm \in Nat
  <2>1. 1 .. few \subseteq 1 .. Len(cut)
    BY Samples
  <2>. QED  BY <2>1, Samples
<1>2. \A i \in 1 .. hours : points[i].mm \in Nat
  <2>1. 1 .. hours \subseteq 1 .. Len(points)
    BY Samples
  <2>. QED  BY <2>1, Samples
<1>3. u \in Seq(Nat) /\ Len(u) = few
  BY <1>0, <1>1
<1>4. v \in Seq(Nat) /\ Len(v) = hours
  BY <1>0, <1>2
<1>5. \A i \in 1 .. few : u[i] = v[i]
  BY <1>0
<1>6. accumulated_mm(cut, few) = total(u) /\ accumulated_mm(points, hours) = total(v)
  BY DEF accumulated_mm
<1>. HIDE DEF u, v
<1>. QED  BY <1>3, <1>4, <1>5, <1>6, LongerTotal, TotalIsNat

\* What a cut forecast reaches the full one reaches: it is evaluated over no
\* fewer hours, and they begin with the same ones.
LEMMA CutReachesLess ==
    ASSUME NEW cut \in Forecasts, NEW points \in Forecasts, IsPrefix(cut, points),
           NEW requested \in {ImminentHorizon, PrepareHorizon}, NEW mm \in Int, NEW pct \in Int,
           reached(cut, requested, mm, pct)
    PROVE  reached(points, requested, mm, pct)
<1>. DEFINE few == horizon(cut, requested)
            hours == horizon(points, requested)
<1>1. /\ few \in 1 .. Len(cut) /\ hours \in 1 .. Len(points)
      /\ Len(cut) \in Nat \ {0} /\ Len(points) \in Nat \ {0}
  BY Samples
<1>2. few <= hours
  BY <1>1, HorizonsAssumption DEF IsPrefix, horizon, evaluated_horizon, Earlier
<1>3. \A i \in 1 .. Len(cut) : cut[i] = points[i]
  <2>1. /\ \A i \in 1 .. Len(cut) : SubSeq(cut, 1, Len(cut))[i] = cut[i]
        /\ \A i \in 1 .. Len(cut) : SubSeq(points, 1, Len(cut))[i] = points[i]
    BY <1>1
  <2>. QED  BY <2>1 DEF IsPrefix
<1>. HIDE DEF few, hours
<1>4. \A i \in 1 .. few : i \in 1 .. Len(cut) /\ i \in 1 .. hours
  BY <1>1, <1>2
<1>5. /\ accumulated_mm(cut, few) <= accumulated_mm(points, hours)
      /\ accumulated_mm(cut, few) \in Int /\ accumulated_mm(points, hours) \in Int
  BY <1>1, <1>2, <1>3, <1>4, FewerHoursAreDrier
<1>6. max_probability_pct(cut, few) <= max_probability_pct(points, hours)
  <2>1. PICK i \in 1 .. few : max_probability_pct(cut, few) = cut[i].pct
    BY <1>1, HighestIsTaken
  <2>2. points[i].pct <= max_probability_pct(points, hours)
    BY <1>1, <1>4, HighestIsTaken
  <2>. QED  BY <1>3, <1>4, <2>1, <2>2
<1>7. max_probability_pct(cut, few) \in Int /\ max_probability_pct(points, hours) \in Int
  BY <1>1, HighestIsTaken
<1>8. accumulated_mm(cut, few) >= mm /\ max_probability_pct(cut, few) >= pct
  BY DEF reached, few
<1>9. accumulated_mm(points, hours) >= mm /\ max_probability_pct(points, hours) >= pct
  BY <1>5, <1>6, <1>7, <1>8
<1>. QED  BY <1>9 DEF reached, hours

\* The sources a world shows, and what it takes to be elevated.
LEMMA BrokenIsNoMoreSevere ==
    ASSUME OrderedThresholds, NEW rows, NEW points \in Forecasts, NEW t,
           NEW broken \in SUBSET Source, NEW more \in SUBSET Source, broken \subseteq more
    PROVE  NoMoreSevere(Seen(rows, points, more, t).level, Seen(rows, points, broken, t).level)
<1>. DEFINE w == official_source(rows, broken, t)
            v == official_source(rows, more, t)
            f == forecast_source(points, broken)
            g == forecast_source(points, more)
            T == Thresholds
<1>1. v = w \/ v = Unavailable
  BY DEF official_source
<1>2. g = f \/ g = Unavailable
  BY DEF forecast_source
<1>3. w.status \in {"available", "unavailable"} /\ f \in {Available(points), Unavailable}
  BY DEF official_source, forecast_source, Available, Unavailable
<1>4. imminent_from_official(v, T) \/ imminent_from_forecast(g, T)
         => imminent_from_official(w, T) \/ imminent_from_forecast(f, T)
  BY <1>1, <1>2 DEF imminent_from_official, imminent_from_forecast, Unavailable
<1>5. prepare_combined(v, g, T) => prepare_combined(w, f, T)
  BY <1>1, <1>2 DEF prepare_combined, Unavailable
<1>6. prepare_forecast_only(v, g, T) => prepare_forecast_only(w, f, T)
  BY <1>1, <1>2 DEF prepare_forecast_only, Unavailable
<1>7. ASSUME prepare_degraded(v, g, T)
      PROVE  \/ prepare_degraded(w, f, T) \/ prepare_forecast_only(w, f, T)
             \/ prepare_combined(w, f, T)
  <2>1. /\ f.status = "available" /\ f.data = points
        /\ reached(points, PrepareHorizon, T.prepare_mm, T.prepare_pct_degraded)
    BY <1>2, <1>3, <1>7 DEF prepare_degraded, Available, Unavailable
  <2>2. reached(points, PrepareHorizon, T.prepare_mm, T.prepare_pct)
    BY <2>1, EasierProbability, ThresholdsAssumption DEF OrderedThresholds
  <2>. QED
    BY <1>3, <2>1, <2>2 DEF prepare_degraded, prepare_forecast_only, prepare_combined
<1>. QED
  BY <1>4, <1>5, <1>6, <1>7, LevelOf, Severities DEF Seen, Level

\* Breaking a source never makes the system warn, or warn more severely, for
\* every forecast and every set of rows, while the combined rule is no stricter
\* than the degraded one (branches 4 and 5 of evaluate).
THEOREM BrokenBuysNothing ==
    ASSUME OrderedThresholds
    PROVE  Spec => BrokenSourceBuysNothing
<1>. DEFINE Calmer == down \subseteq down' /\ UNCHANGED <<hour, page, forecast>>
                         => NoMoreSevere(verdict'.level, verdict.level)
<1>1. MonitorInv /\ [Next]_vars => [Calmer]_vars
  <2>. SUFFICES ASSUME MonitorInv, MonitorInv', down \subseteq down',
                       UNCHANGED <<hour, page, forecast>>
                PROVE  NoMoreSevere(verdict'.level, verdict.level)
    BY MonitorStep
  <2>. QED  BY BrokenIsNoMoreSevere DEF MonitorInv
<1>. QED  BY <1>1, MonitorInit, MonitorStep, PTL DEF Spec, BrokenSourceBuysNothing

LEMMA WarningIsNoLessSevere ==
    ASSUME OrderedThresholds, NEW rows, NEW more, rows \subseteq more,
           NEW points \in Forecasts, NEW t, NEW broken \in SUBSET Source
    PROVE  NoMoreSevere(Seen(rows, points, broken, t).level, Seen(more, points, broken, t).level)
<1>. DEFINE w == official_source(rows, broken, t)
            v == official_source(more, broken, t)
            f == forecast_source(points, broken)
            T == Thresholds
<1>1. \/ w = Unavailable /\ v = Unavailable
      \/ /\ w = Available(current_warnings(rows, t))
         /\ v = Available(current_warnings(more, t))
  BY DEF official_source
<1>2. current_warnings(rows, t) \subseteq current_warnings(more, t)
  BY DEF current_warnings
<1>3. imminent_from_official(w, T) => imminent_from_official(v, T)
  BY <1>1, <1>2 DEF imminent_from_official, imminent_matches, qualifying, Available, Unavailable
<1>4. prepare_combined(w, f, T) => prepare_combined(v, f, T)
  BY <1>1, <1>2 DEF prepare_combined, qualifying, Available, Unavailable
<1>5. prepare_degraded(w, f, T) => prepare_degraded(v, f, T)
  BY <1>1 DEF prepare_degraded, Available, Unavailable
<1>6. ASSUME prepare_forecast_only(w, f, T)
      PROVE  prepare_forecast_only(v, f, T) \/ prepare_combined(v, f, T)
  <2>1. /\ f.status = "available" /\ f.data = points /\ v.status = "available"
        /\ reached(points, PrepareHorizon, T.prepare_mm, T.prepare_pct_degraded)
    BY <1>1, <1>6 DEF prepare_forecast_only, forecast_source, Available, Unavailable
  <2>2. reached(points, PrepareHorizon, T.prepare_mm, T.prepare_pct)
    BY <2>1, EasierProbability, ThresholdsAssumption DEF OrderedThresholds
  <2>. QED  BY <2>1, <2>2 DEF prepare_forecast_only, prepare_combined
<1>. QED
  BY <1>3, <1>4, <1>5, <1>6, LevelOf, Severities DEF Seen, Level

\* An official warning more never calms a verdict, for every page and forecast,
\* while the combined rule is no stricter than the degraded one (branches 1, 3
\* and 4 of evaluate).
THEOREM MoreWarningNeverCalms ==
    ASSUME OrderedThresholds
    PROVE  Spec => WarningNeverCalms
<1>. DEFINE NoCalmer == page \subseteq page' /\ UNCHANGED <<hour, forecast, down>>
                           => NoMoreSevere(verdict.level, verdict'.level)
<1>1. MonitorInv /\ [Next]_vars => [NoCalmer]_vars
  <2>. SUFFICES ASSUME MonitorInv, MonitorInv', page \subseteq page',
                       UNCHANGED <<hour, forecast, down>>
                PROVE  NoMoreSevere(verdict.level, verdict'.level)
    BY MonitorStep
  <2>. QED  BY WarningIsNoLessSevere DEF MonitorInv
<1>. QED  BY <1>1, MonitorInit, MonitorStep, PTL DEF Spec, WarningNeverCalms

LEMMA CutIsNoMoreSevere ==
    ASSUME NEW rows, NEW cut \in Forecasts, NEW points \in Forecasts, IsPrefix(cut, points),
           NEW broken \in SUBSET Source, NEW t
    PROVE  NoMoreSevere(Seen(rows, cut, broken, t).level, Seen(rows, points, broken, t).level)
<1>. DEFINE w == official_source(rows, broken, t)
            f == forecast_source(points, broken)
            g == forecast_source(cut, broken)
            T == Thresholds
<1>1. \/ f = Unavailable /\ g = Unavailable
      \/ f = Available(points) /\ g = Available(cut)
  BY DEF forecast_source
<1>2. T.imminent_mm \in Int /\ T.imminent_pct \in Int /\ T.prepare_mm \in Int
      /\ T.prepare_pct \in Int /\ T.prepare_pct_degraded \in Int
  BY ThresholdsAssumption
<1>3. \A mm, pct \in Int : reached(cut, ImminentHorizon, mm, pct)
                              => reached(points, ImminentHorizon, mm, pct)
  BY CutReachesLess
<1>4. \A mm, pct \in Int : reached(cut, PrepareHorizon, mm, pct)
                              => reached(points, PrepareHorizon, mm, pct)
  BY CutReachesLess
<1>5. imminent_from_forecast(g, T) => imminent_from_forecast(f, T)
  BY <1>1, <1>2, <1>3 DEF imminent_from_forecast, Available, Unavailable
<1>6. prepare_combined(w, g, T) => prepare_combined(w, f, T)
  BY <1>1, <1>2, <1>4 DEF prepare_combined, Available, Unavailable
<1>7. prepare_forecast_only(w, g, T) => prepare_forecast_only(w, f, T)
  BY <1>1, <1>2, <1>4 DEF prepare_forecast_only, Available, Unavailable
<1>8. prepare_degraded(w, g, T) => prepare_degraded(w, f, T)
  BY <1>1, <1>2, <1>4 DEF prepare_degraded, Available, Unavailable
<1>. QED
  BY <1>5, <1>6, <1>7, <1>8, LevelOf, Severities DEF Seen, Level

\* A forecast cut short never warns where the full one would not, for all
\* forecasts, rows and thresholds (evaluated_horizon, the branches of
\* evaluate).
THEOREM CutForecastNeverWarns == Spec => TruncationNeverWarns
<1>. DEFINE NotSterner == IsPrefix(forecast', forecast) /\ UNCHANGED <<hour, page, down>>
                             => NoMoreSevere(verdict'.level, verdict.level)
<1>1. MonitorInv /\ [Next]_vars => [NotSterner]_vars
  <2>. SUFFICES ASSUME MonitorInv, MonitorInv', IsPrefix(forecast', forecast),
                       UNCHANGED <<hour, page, down>>
                PROVE  NoMoreSevere(verdict'.level, verdict.level)
    BY MonitorStep
  <2>. QED  BY CutIsNoMoreSevere DEF MonitorInv
<1>. QED  BY <1>1, MonitorInit, MonitorStep, PTL DEF Spec, TruncationNeverWarns

-----------------------------------------------------------------------------
(* The verdict's window, and the warning a message names. *)

\* The windows of some rows of a page have extremes.
LEMMA RowWindows ==
    ASSUME NEW rows \in SUBSET Rows, IsFiniteSet(rows), rows # {}
    PROVE  /\ windows_of(rows) \in SUBSET TimeWindow
           /\ IsFiniteSet(windows_of(rows))
           /\ windows_of(rows) # {}
<1>1. \A w \in rows : w.window \in TimeWindow
  BY RowsAssumption
<1>. QED  BY <1>1, WindowsOf

\* The rows a verdict cites: those of the page that are in force, can flood
\* the city, and meet the branch that decided.
LEMMA Matches ==
    ASSUME NEW rows \in SUBSET Rows, IsFiniteSet(rows), NEW t, NEW T,
           NEW some \in {imminent_matches(current_warnings(rows, t), T),
                         qualifying(current_warnings(rows, t), T.prepare_levels)}
    PROVE  /\ some \in SUBSET Rows /\ some \subseteq rows /\ IsFiniteSet(some)
           /\ \A w \in some : w.window.start <= t /\ t <= w.window.end
<1>1. some \subseteq current_warnings(rows, t)
  BY DEF imminent_matches, qualifying
<1>2. \A w \in current_warnings(rows, t) :
         w \in rows /\ w.window.start <= t /\ t <= w.window.end
  BY DEF current_warnings, InForce
<1>. QED  BY <1>1, <1>2, FS_Subset

\* A warning cited is one of the warnings that decided: the branches look at
\* nothing but the level and the title that a reason cites.
LEMMA CitedMatched ==
    ASSUME NEW warnings, NEW T, NEW x \in warnings,
           NEW some \in {imminent_matches(warnings, T), qualifying(warnings, T.prepare_levels)},
           warning_reason(x) \in {warning_reason(w) : w \in some}
    PROVE  x \in some
<1>1. PICK w \in some : x.level = w.level /\ x.title = w.title
  BY DEF warning_reason
<1>2. CASE some = qualifying(warnings, T.prepare_levels)
  BY <1>1, <1>2 DEF qualifying
<1>3. CASE some = imminent_matches(warnings, T)
  BY <1>1, <1>3 DEF imminent_matches, qualifying, may_raise_imminent, is_flood_relevant
<1>. QED  BY <1>2, <1>3

LEMMA ForecastSpan ==
    ASSUME NEW points \in Forecasts, NEW t \in Nat, NEW requested \in {ImminentHorizon, PrepareHorizon}
    PROVE  precipitation_window(t, horizon(points, requested)) \in TimeWindow
<1>1. Len(points) \in Nat \ {0}
  BY ForecastsAssumption
<1>. QED  BY <1>1, SpanIsWindow

\* The warning a message names lies within the window it is about, and is one
\* that earned the verdict, for every page and forecast (_warnings_behind,
\* _most_severe_warning).
THEOREM NamedWarningEarned == Spec => []NamedWarningEarnedIt
<1>. DEFINE f == forecast_source(forecast, down)
            w == official_source(page, down, hour)
            T == Thresholds
            warnings == IF "senamhi" \in down THEN {} ELSE current_warnings(page, hour)
            official == imminent_matches(w.data, T)
            combined == qualifying(w.data, T.prepare_levels)
            span(requested) == precipitation_window(hour, horizon(f.data, requested))
            Earned(x) == /\ verdict.window.start <= x.window.start
                         /\ x.window.end <= verdict.window.end
                         /\ verdict.level = "imminent" => may_raise_imminent(x)
                         /\ verdict.level # "none"
<1>1. MonitorInv => NamedWarningEarnedIt
  <2>. SUFFICES ASSUME MonitorInv, NEW x \in warnings, warning_reason(x) \in verdict.cited
                PROVE  Earned(x)
    BY DEF NamedWarningEarnedIt, most_severe_warning, warnings_behind
  <2>1. w = Available(warnings) /\ warnings = current_warnings(page, hour)
    BY DEF official_source
  <2>2. w.data = current_warnings(page, hour)
    BY <2>1 DEF Available
  <2>3. /\ page \in SUBSET Rows /\ IsFiniteSet(page) /\ hour \in Nat /\ forecast \in Forecasts
        /\ verdict = evaluate(w, f, T, hour)
    BY DEF MonitorInv, Seen
  <2>4. CASE official # {} /\ verdict = Verdict("imminent", union_window(windows_of(official)), official)
    <3>1. x \in official
      BY <2>1, <2>2, <2>4, CitedMatched DEF Verdict
    <3>2. official \in SUBSET Rows /\ IsFiniteSet(official)
      BY <2>2, <2>3, Matches
    <3>3. x.window \in windows_of(official)
      BY <3>1 DEF windows_of
    <3>4. /\ union_window(windows_of(official)).start <= x.window.start
          /\ x.window.end <= union_window(windows_of(official)).end
      BY <2>4, <3>2, <3>3, RowWindows, UnionCovers
    <3>. QED  BY <2>4, <3>1, <3>4 DEF Verdict, imminent_matches
  <2>5. CASE /\ f.status = "available" /\ combined # {}
             /\ verdict = Verdict("prepare",
                                  union_window(windows_of(combined) \cup {span(PrepareHorizon)}),
                                  combined)
    <3>1. x \in combined
      BY <2>1, <2>2, <2>5, CitedMatched DEF Verdict
    <3>2. combined \in SUBSET Rows /\ IsFiniteSet(combined)
      BY <2>2, <2>3, Matches
    <3>3. f.data = forecast
      BY <2>5 DEF forecast_source, Available, Unavailable
    <3>4. span(PrepareHorizon) \in TimeWindow
      BY <2>3, <3>3, ForecastSpan
    <3>. DEFINE all == windows_of(combined) \cup {span(PrepareHorizon)}
    <3>5. all \in SUBSET TimeWindow /\ IsFiniteSet(all) /\ all # {}
      BY <2>5, <3>2, <3>4, RowWindows, FS_AddElement
    <3>6. x.window \in all
      BY <3>1 DEF windows_of
    <3>. HIDE DEF all
    <3>7. union_window(all).start <= x.window.start /\ x.window.end <= union_window(all).end
      BY <3>5, <3>6, UnionCovers
    <3>8. verdict.window = union_window(all) /\ verdict.level = "prepare"
      BY <2>5 DEF Verdict, all
    <3>. QED  BY <3>7, <3>8
  <2>6. CASE verdict.cited = {}
    BY <2>6
  <2>7. \/ /\ official # {}
           /\ verdict = Verdict("imminent", union_window(windows_of(official)), official)
        \/ verdict = Verdict("imminent", span(ImminentHorizon), {})
        \/ /\ f.status = "available" /\ combined # {}
           /\ verdict = Verdict("prepare",
                                union_window(windows_of(combined) \cup {span(PrepareHorizon)}),
                                combined)
        \/ verdict = Verdict("prepare", span(PrepareHorizon), {})
        \/ verdict = Verdict("none", QuietWindow(hour), {})
    <3>. HIDE DEF f, w, T
    <3>. QED  BY <2>3, Branches
  <2>. QED
    BY <2>4, <2>5, <2>6, <2>7 DEF Verdict
<1>. QED  BY <1>1, MonitorInit, MonitorStep, PTL DEF Spec

-----------------------------------------------------------------------------
(* No verdict the alert cycle's model leaves out. *)

\* The union of some windows and one more is the cover of the two.
LEMMA UnionOfOneMore ==
    ASSUME NEW W \in SUBSET TimeWindow, IsFiniteSet(W), W # {}, NEW x \in TimeWindow
    PROVE  union_window(W \cup {x}) = Cover(union_window(W), x)
<1>. DEFINE u == union_window(W)
            c == union_window(W \cup {x})
<1>1. /\ u \in TimeWindow
      /\ \A w \in W : u.start <= w.start /\ w.end <= u.end
      /\ \E w \in W : w.start = u.start
      /\ \E w \in W : w.end = u.end
  BY UnionCovers
<1>2. W \cup {x} \in SUBSET TimeWindow /\ IsFiniteSet(W \cup {x}) /\ W \cup {x} # {}
  BY FS_AddElement
<1>3. /\ c \in TimeWindow
      /\ \A w \in W \cup {x} : c.start <= w.start /\ w.end <= c.end
      /\ \E w \in W \cup {x} : w.start = c.start
      /\ \E w \in W \cup {x} : w.end = c.end
  <2>. DEFINE all == W \cup {x}
  <2>1. all \in SUBSET TimeWindow /\ IsFiniteSet(all) /\ all # {}
    BY <1>2
  <2>. HIDE DEF all
  <2>2. /\ union_window(all) \in TimeWindow
        /\ \A w \in all : union_window(all).start <= w.start /\ w.end <= union_window(all).end
        /\ \E w \in all : w.start = union_window(all).start
        /\ \E w \in all : w.end = union_window(all).end
    BY <2>1, UnionCovers
  <2>. QED  BY <2>2 DEF all
<1>. HIDE DEF u, c
<1>4. /\ u.start \in Int /\ u.end \in Int /\ x.start \in Int /\ x.end \in Int
      /\ c.start \in Int /\ c.end \in Int
  BY <1>1, <1>3 DEF TimeWindow
<1>5. c.start <= u.start /\ c.start <= x.start /\ (c.start = x.start \/ u.start <= c.start)
  BY <1>1, <1>3
<1>6. u.end <= c.end /\ x.end <= c.end /\ (c.end = x.end \/ c.end <= u.end)
  BY <1>1, <1>3
<1>7. c.start = Earlier(u.start, x.start) /\ c.end = Later(u.end, x.end)
  BY <1>4, <1>5, <1>6 DEF Earlier, Later
<1>8. c = [start |-> c.start, end |-> c.end]
  BY <1>3 DEF TimeWindow
<1>9. c = Cover(u, x)
  BY <1>7, <1>8 DEF Cover, Window
<1>. QED  BY <1>9 DEF u, c

\* Warnings that are all in force cover the instant together.
LEMMA UnionInForce ==
    ASSUME NEW rows \in SUBSET Rows, NEW some \in SUBSET rows, IsFiniteSet(some), some # {},
           NEW t \in Nat, \A w \in some : w.window.start <= t /\ t <= w.window.end
    PROVE  union_window(windows_of(some))
             \in InForce({union_window(windows_of(others)) : others \in (SUBSET rows) \ {{}}}, t)
<1>. DEFINE u == union_window(windows_of(some))
<1>1. /\ u \in TimeWindow
      /\ \A w \in windows_of(some) : u.start <= w.start /\ w.end <= u.end
  BY RowWindows, UnionCovers
<1>2. PICK w \in some : TRUE
  OBVIOUS
<1>3. w.window \in windows_of(some) /\ w.window \in TimeWindow
  BY RowsAssumption DEF windows_of
<1>. HIDE DEF u
<1>4. u.start <= t /\ t <= u.end
  BY <1>1, <1>3 DEF TimeWindow
<1>. QED  BY <1>4 DEF InForce, u

\* The evaluator gives no verdict outside those the alert cycle is checked and
\* proved over, for every page, forecast and outage (evaluate, against module
\* Verdicts).
THEOREM VerdictForeseen == Spec => []VerdictIsForeseen
<1>. DEFINE f == forecast_source(forecast, down)
            w == official_source(page, down, hour)
            T == Thresholds
            official == imminent_matches(w.data, T)
            combined == qualifying(w.data, T.prepare_levels)
            span(requested) == precipitation_window(hour, horizon(f.data, requested))
            sky == [down |-> down, level |-> verdict.level]
            covers == {union_window(windows_of(rows)) : rows \in (SUBSET page) \ {{}}}
            Foreseen == sky \in Sky /\ verdict.window \in Windows(sky, covers, Len(forecast), hour)
<1>1. MonitorInv => Foreseen
  <2>. SUFFICES ASSUME MonitorInv PROVE Foreseen
    OBVIOUS
  <2>1. /\ page \in SUBSET Rows /\ IsFiniteSet(page) /\ hour \in Nat /\ forecast \in Forecasts
        /\ down \in SUBSET Source
        /\ verdict = evaluate(w, f, T, hour)
    BY DEF MonitorInv, Seen
  <2>2. w.status = "available" => "senamhi" \notin down /\ w.data = current_warnings(page, hour)
    BY DEF official_source, Available, Unavailable
  <2>3. f.status = "available" => "open_meteo" \notin down /\ f.data = forecast
    BY DEF forecast_source, Available, Unavailable
  <2>4. f.status = "available"
          => /\ span(ImminentHorizon) = ForecastWindow("imminent", Len(forecast), hour)
             /\ span(PrepareHorizon) = ForecastWindow("prepare", Len(forecast), hour)
    BY <2>3 DEF precipitation_window, horizon, ForecastWindow
  <2>5. CASE /\ w.status = "available" /\ official # {}
             /\ verdict = Verdict("imminent", union_window(windows_of(official)), official)
    <3>1. "senamhi" \notin down /\ official = imminent_matches(current_warnings(page, hour), T)
      BY <2>2, <2>5
    <3>. HIDE DEF official
    <3>2. /\ official \subseteq page /\ IsFiniteSet(official)
          /\ \A x \in official : x.window.start <= hour /\ hour <= x.window.end
      BY <2>1, <3>1, Matches
    <3>3. union_window(windows_of(official)) \in InForce(covers, hour)
      BY <2>1, <2>5, <3>2, UnionInForce
    <3>4. sky \in Sky
      BY <2>1, <2>5, <3>1 DEF Sky, Verdict, Source, Level
    <3>5. verdict.level = "imminent" /\ verdict.window = union_window(windows_of(official))
      BY <2>5 DEF Verdict
    <3>. HIDE DEF covers
    <3>. QED  BY <3>1, <3>3, <3>4, <3>5 DEF Windows
  <2>6. CASE f.status = "available" /\ verdict = Verdict("imminent", span(ImminentHorizon), {})
    <3>1. sky \in Sky
      BY <2>1, <2>3, <2>6 DEF Sky, Verdict, Source, Level
    <3>2. verdict.level = "imminent"
          /\ verdict.window = ForecastWindow("imminent", Len(forecast), hour)
      BY <2>4, <2>6 DEF Verdict
    <3>. HIDE DEF covers
    <3>. QED  BY <2>3, <2>6, <3>1, <3>2 DEF Windows
  <2>7. CASE /\ w.status = "available" /\ f.status = "available" /\ combined # {}
             /\ verdict = Verdict("prepare",
                                  union_window(windows_of(combined) \cup {span(PrepareHorizon)}),
                                  combined)
    <3>1. /\ "senamhi" \notin down /\ "open_meteo" \notin down
          /\ combined = qualifying(current_warnings(page, hour), T.prepare_levels)
      BY <2>2, <2>3, <2>7
    <3>2. combined # {}
      BY <2>7
    <3>. HIDE DEF combined
    <3>3. /\ combined \subseteq page /\ IsFiniteSet(combined)
          /\ \A x \in combined : x.window.start <= hour /\ hour <= x.window.end
      BY <2>1, <3>1, Matches
    <3>4. union_window(windows_of(combined)) \in InForce(covers, hour)
      BY <2>1, <3>2, <3>3, UnionInForce
    <3>5. span(PrepareHorizon) = ForecastWindow("prepare", Len(forecast), hour)
          /\ span(PrepareHorizon) \in TimeWindow
      BY <2>1, <2>3, <2>4, <2>7, ForecastSpan
    <3>6. union_window(windows_of(combined) \cup {span(PrepareHorizon)})
            = Cover(union_window(windows_of(combined)), span(PrepareHorizon))
      <4>1. /\ windows_of(combined) \in SUBSET TimeWindow
            /\ IsFiniteSet(windows_of(combined)) /\ windows_of(combined) # {}
        BY <2>1, <3>2, <3>3, RowWindows
      <4>. HIDE DEF span
      <4>. QED  BY <3>5, <4>1, UnionOfOneMore
    <3>7. sky \in Sky
      BY <2>1, <2>7, <3>1 DEF Sky, Verdict, Source, Level
    <3>8. verdict.level = "prepare"
          /\ verdict.window = Cover(union_window(windows_of(combined)),
                                    ForecastWindow("prepare", Len(forecast), hour))
      BY <2>7, <3>5, <3>6 DEF Verdict
    <3>. HIDE DEF covers
    <3>. QED  BY <3>1, <3>4, <3>7, <3>8 DEF Windows
  <2>8. CASE f.status = "available" /\ verdict = Verdict("prepare", span(PrepareHorizon), {})
    <3>1. sky \in Sky
      BY <2>1, <2>3, <2>8 DEF Sky, Verdict, Source, Level
    <3>2. verdict.level = "prepare"
          /\ verdict.window = ForecastWindow("prepare", Len(forecast), hour)
      BY <2>4, <2>8 DEF Verdict
    <3>. HIDE DEF covers
    <3>. QED  BY <2>3, <2>8, <3>1, <3>2 DEF Windows
  <2>9. CASE verdict = Verdict("none", QuietWindow(hour), {})
    <3>1. sky \in Sky /\ verdict.level = "none" /\ verdict.window = QuietWindow(hour)
      BY <2>1, <2>9 DEF Sky, Verdict, Level
    <3>. HIDE DEF covers
    <3>. QED  BY <3>1 DEF Windows
  <2>10. \/ /\ w.status = "available" /\ official # {}
            /\ verdict = Verdict("imminent", union_window(windows_of(official)), official)
         \/ f.status = "available" /\ verdict = Verdict("imminent", span(ImminentHorizon), {})
         \/ /\ w.status = "available" /\ f.status = "available" /\ combined # {}
            /\ verdict = Verdict("prepare",
                                 union_window(windows_of(combined) \cup {span(PrepareHorizon)}),
                                 combined)
         \/ f.status = "available" /\ verdict = Verdict("prepare", span(PrepareHorizon), {})
         \/ verdict = Verdict("none", QuietWindow(hour), {})
    <3>. HIDE DEF f, w, T
    <3>. QED  BY <2>1, Branches
  <2>. HIDE DEF Foreseen, f, w, official, combined, span
  <2>. QED  BY <2>5, <2>6, <2>7, <2>8, <2>9, <2>10
<1>2. Foreseen => VerdictIsForeseen
  BY DEF VerdictIsForeseen
<1>. QED  BY <1>1, <1>2, MonitorInit, MonitorStep, PTL DEF Spec

=============================================================================
