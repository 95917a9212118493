------------------------------ MODULE Verdicts ------------------------------
(***************************************************************************)
(* What the risk evaluator can report to the alert cycle: the sources down, *)
(* a level, and the window the level is about.  The cycle is modelled over  *)
(* these verdicts; the evaluator is shown to give no other (see Risk).      *)
(***************************************************************************)
EXTENDS Values

CONSTANTS
    ImminentHorizon,  \* IMMINENT_HORIZON_HOURS
    PrepareHorizon    \* PREPARE_HORIZON_HOURS

ASSUME HorizonsAssumption ==
    /\ ImminentHorizon \in Nat \ {0}
    /\ PrepareHorizon \in Nat \ {0}

\* Both sources down leave nothing to warn about, and "prepare" always needs
\* a forecast.
Sky == {s \in [down : SUBSET Source, level : Level] :
          /\ s.down = Source => s.level = "none"
          /\ "open_meteo" \in s.down => s.level # "prepare"}

\* An official warning counts only while it is in force, its last instant
\* included.
InForce(avisos, t) == {w \in avisos : w.start <= t /\ t <= w.end}

\* Never more hours than the forecast carries.
evaluated_horizon(carried, requested) == Earlier(requested, carried)

ForecastWindow(level, carried, t) ==
    Window(t, t + evaluated_horizon(carried, IF level = "imminent" THEN ImminentHorizon
                                                                   ELSE PrepareHorizon))

QuietWindow(t) == Window(t, t + PrepareHorizon)

\* The windows a verdict can carry: the official warnings' own, the forecast's,
\* or for the combined rule the cover of both.  "avisos" holds the windows of
\* the official warnings and the covers of several.
Windows(sky, avisos, carried, t) ==
    LET official == IF "senamhi" \in sky.down THEN {} ELSE InForce(avisos, t)
        forecast == IF "open_meteo" \in sky.down THEN {}
                    ELSE {ForecastWindow(sky.level, carried, t)}
    IN  CASE sky.level = "none" -> {QuietWindow(t)}
          [] sky.level = "imminent" -> official \cup forecast
          [] sky.level = "prepare" ->
                forecast \cup {Cover(w, f) : w \in official, f \in forecast}

=============================================================================
