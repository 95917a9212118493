-------------------------------- MODULE Config --------------------------------
(***************************************************************************)
(* The operator's configuration: seven parameters in Parameter Store, each *)
(* missing, not of the expected form, or holding a value, read by exact    *)
(* name and refused as a whole when any of them does not parse.            *)
(***************************************************************************)
EXTENDS Integers

Parameter == {"location", "thresholds", "checklist", "active_channel", "composer",
              "forecast_hours", "dedup_lookback_hours"}

Missing == [status |-> "missing"]
Garbled == [status |-> "garbled"]
Value(v) == [status |-> "value", value |-> v]

CoordinatesSource == {"public_reference", "operator_supplied", "surveyed"}
ComposerName == {"template", "agent"}

\* Mutant: an integer, of whatever sign.
any_int(v) == v \in Int

positive_int(v) == v \in Int /\ v > 0

\* What each parser accepts beyond the form: a source for the coordinates,
\* never inferred; a checklist that is not empty; the one channel there is.
accepts(name, v) ==
    CASE name = "location" -> v.source \in CoordinatesSource
      [] name = "checklist" -> v # <<>>
      [] name = "active_channel" -> v = "console"
      [] name = "composer" -> v \in ComposerName
      [] name \in {"forecast_hours", "dedup_lookback_hours"} -> positive_int(v)
      [] name = "thresholds" -> TRUE

\* One call for the seven names, then every parser in turn: the load gives a
\* configuration or raises.
parses(raw) ==
    \A name \in Parameter : raw[name].status = "value" /\ accepts(name, raw[name].value)

AlertConfig(raw) == [name \in Parameter |-> raw[name].value]

=============================================================================
