------------------------------ MODULE MCRunOnce ------------------------------
(***************************************************************************)
(* An instance of RunOnce for TLC.  A tick stands for 12 hours: horizons   *)
(* of 2 and 4 ticks, a page stale after 1, static thresholds.              *)
(***************************************************************************)
EXTENDS RunOnce, TLC

Symmetry == Permutations(Runs)

Static == [prepare_mm |-> 10, prepare_pct |-> 60, prepare_pct_degraded |-> 70,
           prepare_levels |-> WarningLevel, imminent_mm |-> 20, imminent_pct |-> 70,
           imminent_levels |-> {"orange", "red"}]

Operated ==
    [location |-> Value([source |-> "operator_supplied"]), thresholds |-> Value(Static),
     checklist |-> Value(<<"water">>), active_channel |-> Value("console"),
     composer |-> Value("template"), forecast_hours |-> Value(4),
     dedup_lookback_hours |-> Value(2)]

\* Good changes, and two no load may let through.
Edited ==
    {Operated,
     [Operated EXCEPT !.dedup_lookback_hours = Value(1)],
     [Operated EXCEPT !.dedup_lookback_hours = Value(0)],
     [Operated EXCEPT !.composer = Value("agent")],
     [Operated EXCEPT !.forecast_hours = Garbled]}

LocalConfig == AlertConfig(Operated)

Rain == [phenomenon |-> "precipitation", zone |-> "coast"]
Wind == [phenomenon |-> "wind", zone |-> "coast"]

Historic == Row("whole", FALSE, Warning("red", Rain, Window(-4, -2)))
Lost == Row("garbled", FALSE, Warning("red", Rain, Window(-4, -2)))

SomePages ==
    {Page(TRUE, <<Historic>>),
     Page(TRUE, <<Row("whole", TRUE, Warning("orange", Rain, Window(-1, 1))), Lost>>),
     Page(TRUE, <<Row("garbled", TRUE, Warning("orange", Rain, Window(-1, 1))), Historic>>),
     Page(TRUE, <<Row("whole", TRUE, Warning("red", Wind, Window(0, 2))), Historic>>),
     Page(TRUE, <<Lost, Lost, Historic>>)}

Samples(mm, pct) == <<[mm |-> mm, pct |-> pct], [mm |-> mm, pct |-> pct],
                      [mm |-> mm, pct |-> pct], [mm |-> mm, pct |-> pct]>>

DryOrStorm == {Samples(0, 10), Samples(12, 80)}

CloudHost == [deployment |-> "cloud", serialized |-> FALSE, bucket |-> TRUE,
              path |-> TRUE, runtime |-> FALSE]

LocalHost == [deployment |-> "local", serialized |-> TRUE, bucket |-> FALSE,
              path |-> TRUE, runtime |-> TRUE]

SomeHosts ==
    {CloudHost, LocalHost,
     [CloudHost EXCEPT !.serialized = TRUE],
     [LocalHost EXCEPT !.serialized = FALSE]}

Unedited == {Operated}
OneHost == {[CloudHost EXCEPT !.serialized = TRUE]}

=============================================================================
