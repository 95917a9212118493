---------------------------- MODULE MCAlertCycle ----------------------------
(***************************************************************************)
(* Instances of AlertCycle for TLC.  A tick stands for 24 hours, so that   *)
(* the code's 24, 48 and 72 hours are the ticks 1, 2 and 3.                *)
(***************************************************************************)
EXTENDS AlertCycleLedger, TLC

Symmetry == Permutations(Runs)

AllSkies == Sky

\* Every verdict, one outage pattern of each kind.
WeatherSkies ==
    {[down |-> {}, level |-> l] : l \in Level}
        \cup {[down |-> {"senamhi"}, level |-> "imminent"],
              [down |-> {"open_meteo"}, level |-> "imminent"]}

\* Outages alone: nothing is ever sent to the community.
CalmSkies == {[down |-> d, level |-> "none"] : d \in SUBSET Source}

\* The storm nobody stops seeing, while the official source stays down.
StormSkies == {[down |-> {"senamhi"}, level |-> "imminent"]}

\* Avisos no longer than the lookback even once covered with a forecast.
ShortAvisos == {Window(-1, 1), Window(0, 1)}

\* An aviso longer than the lookback.
LongAvisos == {Window(0, 5)}

AnyStage == {"outage", "notify", "decide", "compose", "send", "record"}
AfterNotify == {"outage", "decide", "compose", "send", "record"}
NoStage == {}

=============================================================================
