-------------------------------- MODULE Dedup --------------------------------
(***************************************************************************)
(* Whether an assessment is sent: the key-range read of prior alerts and   *)
(* the pure rule over what it returned.  An alert record carries at least  *)
(* a level and a window; an assessment carries the same two.               *)
(***************************************************************************)
EXTENDS Values

\* The inclusive key-range read of both repositories: by window start alone.
alerts_with_window_start_between(alerts, earliest, latest) ==
    {a \in alerts : earliest <= a.window.start /\ a.window.start <= latest}

\* Mutant: the range opens at the window's own start.
WindowStartOnly(assessment, now, lookback) == assessment.window.start

\* The range opens at the lookback or at the window's own start, if earlier.
EarliestStart(assessment, now, lookback) ==
    Earlier(now - lookback, assessment.window.start)

\* Mutant: every alert the read returned counts, overlapping or not.
AnyPrior(assessment, prior) == prior

Overlapping(assessment, prior) ==
    {a \in prior : overlaps(a.window, assessment.window)}

\* Mutant: one alert for a period silences it, escalations included.
send_once(assessment, prior) ==
    assessment.level # "none" /\ Overlapping(assessment, prior) = {}

\* A new window sends; over alerts already sent for the period only a level
\* above the highest of them does; "none" never does.
should_send(assessment, prior) ==
    /\ assessment.level # "none"
    /\ \A a \in Overlapping(assessment, prior) :
          is_escalation(a.level, assessment.level)

decide(assessment, now, lookback, alerts) ==
    should_send(assessment,
                alerts_with_window_start_between(
                    alerts,
                    EarliestStart(assessment, now, lookback),
                    assessment.window.end))

=============================================================================
