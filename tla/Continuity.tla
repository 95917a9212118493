------------------------------ MODULE Continuity ------------------------------
(***************************************************************************)
(* What the community was already told, computed twice: by the application *)
(* for the validator, and by the agent's tool for the model.  An instant   *)
(* is a whole number; TicksPerDay of them make a local calendar date.      *)
(***************************************************************************)
EXTENDS Dedup, Collections

CONSTANTS
    TicksPerDay,
    LookbackDays,   \* LOOKBACK_DAYS
    MaxPriorAlerts, \* MAX_PRIOR_ALERTS and the tool's MAX_N
    QueryLimit      \* QUERY_LIMIT

ASSUME HistoryAssumption ==
    {TicksPerDay, LookbackDays, MaxPriorAlerts, QueryLimit} \subseteq Nat \ {0}

days(n) == n * TicksPerDay
date(t) == t \div TicksPerDay

WarningRank == [no_warning |-> 0, yellow |-> 1, orange |-> 2, red |-> 3]

\* An alert on record: its reasons count by their highest warning level; an
\* item that is not legible raises in whichever reader deserializes it.
AlertRecord ==
    [window : TimeWindow, sent_at : Int, level : Level \ {"none"},
     warning : DOMAIN WarningRank, legible : BOOLEAN]

HigherRank(level, warning, other, other_warning) ==
    \/ is_escalation(other, level)
    \/ level = other /\ WarningRank[warning] > WarningRank[other_warning]

Trend(level, warning, previous) ==
    IF HigherRank(level, warning, previous.level, previous.warning) THEN "rising"
    ELSE IF HigherRank(previous.level, previous.warning, level, warning) THEN "falling"
    ELSE "steady"

\* The sort key of the table: window start, then level.
KeyBefore(a, b) ==
    \/ a.window.start < b.window.start
    \/ a.window.start = b.window.start /\ a.level = "imminent" /\ b.level = "prepare"

\* No two items share their key.
Keyed(items) == \A a, b \in items : a # b => KeyBefore(a, b) \/ KeyBefore(b, a)

ContinuitySummary ==
    [consecutive_days : 0 .. LookbackDays + 1, previous_level : SUBSET (Level \ {"none"}),
     trend : {"rising", "steady", "falling", "none"}, prior_alerts : Seq(AlertRecord)]

EMPTY_CONTINUITY ==
    [consecutive_days |-> 0, previous_level |-> {}, trend |-> "none", prior_alerts |-> <<>>]

qualifying(rows, as_of) ==
    {r \in rows : as_of - days(LookbackDays) <= r.sent_at /\ r.sent_at < as_of}

\* Mutant: every date with an alert counts, in a row or not.
dates_with_alerts(rows, as_of) ==
    Cardinality({date(r.sent_at) : r \in rows} \cup {date(as_of)})

\* The dates in a row that end at as_of's own, which counts whenever there is
\* any alert; each earlier one needs one of its own.
consecutive_days(rows, as_of) ==
    Max({n \in 1 .. LookbackDays + 1 :
           \A k \in 1 .. n - 1 : \E r \in rows : date(r.sent_at) = date(as_of) - k})

\* The summary of rows, already cut and sorted newest first.
continuity_of(newest, as_of, level, warning) ==
    IF newest = <<>> THEN EMPTY_CONTINUITY
    ELSE [consecutive_days |-> consecutive_days(Range(newest), as_of),
          previous_level |-> {newest[1].level},
          trend |-> Trend(level, warning, newest[1]),
          prior_alerts |-> newest]

-----------------------------------------------------------------------------
\* The application: alerts by ascending key, of those of one instant the
\* earlier key first.
newer(rows) ==
    [a \in rows |-> {b \in rows : \/ b.sent_at > a.sent_at
                                  \/ b.sent_at = a.sent_at /\ KeyBefore(b, a)}]

newest_first(rows) == in_order(newer(rows))

summarize(records, as_of, level, warning) ==
    continuity_of(newest_first(qualifying(records, as_of)), as_of, level, warning)

\* Mutant: the read opens at the lookback itself.
read_lookback_only(alerts, now) ==
    alerts_with_window_start_between(alerts, now - days(LookbackDays), now + days(LookbackDays))

\* One day wider than the lookback, and open to windows yet to come.
history_read(alerts, now) ==
    alerts_with_window_start_between(alerts, now - days(LookbackDays + 1), now + days(LookbackDays))

\* One item no reader understands is one exception, and so no history at all.
read_continuity(alerts, now, level, warning) ==
    LET records == history_read(alerts, now)
    IN  IF \A r \in records : r.legible THEN summarize(records, now, level, warning)
        ELSE EMPTY_CONTINUITY

-----------------------------------------------------------------------------
\* The tool: the newest keys up to a limit, and of those the legible ones.
higher_keys(items) == [a \in items |-> {b \in items : KeyBefore(a, b)}]

tool_read(alerts, as_of) ==
    LET found == {a \in alerts : as_of - days(LookbackDays + 1) <= a.window.start}
        descending == in_order(higher_keys(found))
    IN  {r \in Range(SubSeq(descending, 1, Min({Len(descending), QueryLimit}))) : r.legible}

\* Of the alerts of one instant it has the later key first.
tool_newer(rows) ==
    [a \in rows |-> {b \in rows : \/ b.sent_at > a.sent_at
                                  \/ b.sent_at = a.sent_at /\ KeyBefore(a, b)}]

tool_newest_first(rows) == in_order(tool_newer(rows))

\* Mutant: the model gets as many as it asks for.
unclamped_n(n) == Max({1, n})

\* Whatever the model asks for, from one to the cap.
clamp_n(n) == Max({1, Min({MaxPriorAlerts, n})})

tool_summarize(rows, binding, n) ==
    LET newest == tool_newest_first(qualifying(rows, binding.as_of))
        summary == continuity_of(newest, binding.as_of, binding.level, binding.warning)
    IN  [summary EXCEPT !.prior_alerts = SubSeq(@, 1, Min({Len(@), n}))]

\* What the tool answers when it is bound to a city and its read succeeds,
\* and otherwise: nothing earlier to mention.
read_facts(alerts, binding, n) ==
    tool_summarize(tool_read(alerts, binding.as_of), binding, clamp_n(n))

=============================================================================
