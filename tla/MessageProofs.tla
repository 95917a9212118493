---------------------------- MODULE MessageProofs ----------------------------
(***************************************************************************)
(* Theorems about what a message is made of and held to, for every request *)
(* and every history: the two computations of continuity, the template and *)
(* the sentences of a draft.                                               *)
(***************************************************************************)
EXTENDS Template, CollectionsProofs

-----------------------------------------------------------------------------
(* Histories. *)

\* An alert on record was sent at an instant and has a window of two.
LEMMA RecordTyped ==
    ASSUME NEW a \in AlertRecord
    PROVE  /\ a.sent_at \in Int /\ a.window.start \in Int
           /\ a.level \in {"prepare", "imminent"} /\ a.warning \in DOMAIN WarningRank
  BY DEF AlertRecord, TimeWindow, Level

\* Records are ordered by their keys: strictly, and any two with distinct keys.
LEMMA KeyOrder ==
    ASSUME NEW a \in AlertRecord, NEW b \in AlertRecord, NEW c \in AlertRecord
    PROVE  /\ ~ KeyBefore(a, a)
           /\ KeyBefore(a, b) => ~ KeyBefore(b, a)
           /\ KeyBefore(a, b) /\ KeyBefore(b, c) => KeyBefore(a, c)
<1>1. \A x \in {a, b, c} : x.window.start \in Int /\ x.level \in {"prepare", "imminent"}
  BY RecordTyped
<1>. QED  BY <1>1 DEF KeyBefore

\* Each of the three orders is one, over alerts of distinct keys.
LEMMA NewerIsAnOrder ==
    ASSUME NEW rows \in SUBSET AlertRecord, Keyed(rows)
    PROVE  StrictOrder(newer(rows)) /\ StrictOrder(tool_newer(rows)) /\ StrictOrder(higher_keys(rows))
<1>1. \A a \in rows : a.sent_at \in Int /\ ~ KeyBefore(a, a)
  BY RecordTyped, KeyOrder
<1>2. \A a, b, c \in rows : KeyBefore(a, b) /\ KeyBefore(b, c) => KeyBefore(a, c)
  BY KeyOrder
<1>3. \A a, b \in rows : a # b => KeyBefore(a, b) \/ KeyBefore(b, a)
  BY DEF Keyed
<1>4. ASSUME NEW before \in {newer(rows), tool_newer(rows), higher_keys(rows)}
      PROVE  DOMAIN before = rows /\ before \in [rows -> SUBSET rows]
  BY DEF newer, tool_newer, higher_keys
<1>5. StrictOrder(newer(rows))
  <2>1. \A a, b \in rows : a \in newer(rows)[b]
            <=> a.sent_at > b.sent_at \/ (a.sent_at = b.sent_at /\ KeyBefore(a, b))
    BY DEF newer
  <2>. QED  BY <1>1, <1>2, <1>3, <1>4, <2>1 DEF StrictOrder
<1>6. StrictOrder(tool_newer(rows))
  <2>1. \A a, b \in rows : a \in tool_newer(rows)[b]
            <=> a.sent_at > b.sent_at \/ (a.sent_at = b.sent_at /\ KeyBefore(b, a))
    BY DEF tool_newer
  <2>. QED  BY <1>1, <1>2, <1>3, <1>4, <2>1 DEF StrictOrder
<1>7. StrictOrder(higher_keys(rows))
  <2>1. \A a, b \in rows : a \in higher_keys(rows)[b] <=> KeyBefore(b, a)
    BY DEF higher_keys
  <2>. QED  BY <1>1, <1>2, <1>3, <1>4, <2>1 DEF StrictOrder
<1>. QED  BY <1>5, <1>6, <1>7

\* Sorting a finite set by a strict order lists its elements, and no other.
LEMMA Listed ==
    ASSUME NEW before, StrictOrder(before), IsFiniteSet(DOMAIN before),
           NEW S, DOMAIN before \subseteq S
    PROVE  /\ in_order(before) \in Seq(S)
           /\ Len(in_order(before)) = Cardinality(DOMAIN before)
           /\ Range(in_order(before)) = DOMAIN before
<1>. DEFINE n == Cardinality(DOMAIN before)
            list == in_order(before)
<1>1. /\ n \in Nat
      /\ list \in [1 .. n -> DOMAIN before]
      /\ \A a \in DOMAIN before : \E i \in 1 .. n : list[i] = a
  BY InOrder
<1>. HIDE DEF n, list
<1>2. list \in [1 .. n -> S]
  BY <1>1
<1>3. list \in Seq(S) /\ Len(list) = n
  BY <1>1, <1>2
<1>4. Range(list) = DOMAIN before
  BY <1>1 DEF Range
<1>. QED  BY <1>3, <1>4 DEF n, list

\* The newest first, as the application has them and as the tool does, are
\* exactly the rows.
LEMMA NewestFirst ==
    ASSUME NEW rows \in SUBSET AlertRecord, Keyed(rows), IsFiniteSet(rows)
    PROVE  /\ newest_first(rows) \in Seq(AlertRecord)
           /\ Range(newest_first(rows)) = rows
           /\ tool_newest_first(rows) \in Seq(AlertRecord)
           /\ Range(tool_newest_first(rows)) = rows
<1>1. DOMAIN newer(rows) = rows /\ DOMAIN tool_newer(rows) = rows
  BY DEF newer, tool_newer
<1>. QED  BY <1>1, NewerIsAnOrder, Listed DEF newest_first, tool_newest_first

\* The lesser of two.
LEMMA MinOfTwo ==
    ASSUME NEW a \in Int, NEW b \in Int
    PROVE  Min({a, b}) = IF a <= b THEN a ELSE b
<1>1. {a, b} \in SUBSET Int /\ {a, b} # {}
  OBVIOUS
<1>2. IsFiniteSet({a, b})
  <2>1. IsFiniteSet({b}) /\ {b} \cup {a} = {a, b}
    BY FS_Singleton
  <2>. QED  BY <2>1, FS_AddElement
<1>3. Min({a, b}) \in {a, b} /\ Min({a, b}) <= a /\ Min({a, b}) <= b
  BY <1>1, <1>2, MinIsTaken
<1>. QED  BY <1>3

\* The greater of two.
LEMMA MaxOfTwo ==
    ASSUME NEW a \in Int, NEW b \in Int
    PROVE  Max({a, b}) = IF a <= b THEN b ELSE a
  BY MaxOf

\* The days in a row are as many as there are, and one day more is not one
\* of them or is further back than the history goes.
LEMMA DaysInARow ==
    ASSUME NEW rows, NEW as_of
    PROVE  LET n == consecutive_days(rows, as_of)
           IN  /\ n \in 1 .. LookbackDays + 1
               /\ \A k \in 1 .. n - 1 : \E r \in rows : date(r.sent_at) = date(as_of) - k
               /\ n <= LookbackDays => ~ \E r \in rows : date(r.sent_at) = date(as_of) - n
<1>. DEFINE On(k) == \E r \in rows : date(r.sent_at) = date(as_of) - k
            Runs == {n \in 1 .. LookbackDays + 1 : \A k \in 1 .. n - 1 : On(k)}
            n == Max(Runs)
<1>1. LookbackDays \in Nat
  BY HistoryAssumption
<1>2. 1 \in Runs
  BY <1>1
<1>3. Runs \in SUBSET Int /\ IsFiniteSet(Runs)
  <2>1. IsFiniteSet(1 .. LookbackDays + 1)
    BY <1>1, FS_Interval
  <2>2. Runs \subseteq 1 .. LookbackDays + 1 /\ 1 .. LookbackDays + 1 \subseteq Int
    BY <1>1
  <2>. HIDE DEF Runs
  <2>3. IsFiniteSet(Runs)
    BY <2>1, <2>2, FS_Subset
  <2>. QED  BY <2>2, <2>3
<1>4. n \in Runs /\ \A m \in Runs : m <= n
  <2>. HIDE DEF Runs
  <2>. QED  BY <1>2, <1>3, MaxIsTaken
<1>5. consecutive_days(rows, as_of) = n
  BY DEF consecutive_days
<1>. HIDE DEF n, On
<1>6. n \in 1 .. LookbackDays + 1 /\ \A k \in 1 .. n - 1 : On(k)
  BY <1>4
<1>7. ASSUME n <= LookbackDays PROVE ~ On(n)
  <2>. SUFFICES ASSUME On(n) PROVE FALSE
    OBVIOUS
  <2>1. n + 1 \in 1 .. LookbackDays + 1 /\ n \in Nat
    BY <1>1, <1>6, <1>7
  <2>2. \A k \in 1 .. (n + 1) - 1 : On(k)
    <3>1. \A k \in 1 .. (n + 1) - 1 : k \in 1 .. n - 1 \/ k = n
      BY <2>1
    <3>. QED  BY <1>6, <3>1
  <2>3. n + 1 \in Runs
    BY <2>1, <2>2
  <2>4. n + 1 <= n
    BY <1>4, <2>3
  <2>. QED  BY <2>1, <2>4
<1>. QED  BY <1>5, <1>6, <1>7 DEF On

\* A summary of a list of alerts is one, and keeps the list.
LEMMA ContinuityTyped ==
    ASSUME NEW newest \in Seq(AlertRecord), NEW as_of,
           NEW level, NEW warning
    PROVE  /\ continuity_of(newest, as_of, level, warning) \in ContinuitySummary
           /\ continuity_of(newest, as_of, level, warning).prior_alerts = newest
<1>1. CASE newest = <<>>
  BY <1>1, HistoryAssumption DEF continuity_of, EMPTY_CONTINUITY, ContinuitySummary
<1>2. CASE newest # <<>>
  <2>1. newest[1] \in AlertRecord
    BY <1>2
  <2>2. newest[1].level \in Level \ {"none"}
    BY <2>1 DEF AlertRecord
  <2>3. consecutive_days(Range(newest), as_of) \in 0 .. LookbackDays + 1
    BY DaysInARow, HistoryAssumption
  <2>4. Trend(level, warning, newest[1]) \in {"rising", "steady", "falling", "none"}
    BY DEF Trend
  <2>. QED  BY <1>2, <2>2, <2>3, <2>4 DEF continuity_of, ContinuitySummary
<1>. QED  BY <1>1, <1>2

\* So is the empty summary, which has no alert.
LEMMA EmptyTyped == EMPTY_CONTINUITY \in ContinuitySummary /\ Len(EMPTY_CONTINUITY.prior_alerts) = 0
  BY HistoryAssumption DEF EMPTY_CONTINUITY, ContinuitySummary

\* What the application makes of a table.
LEMMA ReadTyped ==
    ASSUME NEW alerts \in SUBSET AlertRecord, IsFiniteSet(alerts), Keyed(alerts), NEW now,
           NEW level, NEW warning
    PROVE  read_continuity(alerts, now, level, warning) \in ContinuitySummary
<1>. DEFINE rows == qualifying(history_read(alerts, now), now)
<1>1. rows \in SUBSET AlertRecord /\ rows \subseteq alerts
  BY DEF qualifying, history_read, alerts_with_window_start_between
<1>2. IsFiniteSet(rows) /\ Keyed(rows)
  BY <1>1, FS_Subset DEF Keyed
<1>. HIDE DEF rows
<1>3. newest_first(rows) \in Seq(AlertRecord)
  BY <1>1, <1>2, NewestFirst
<1>4. summarize(history_read(alerts, now), now, level, warning) \in ContinuitySummary
  BY <1>3, ContinuityTyped DEF summarize, rows
<1>. QED  BY <1>4, EmptyTyped DEF read_continuity

\* The tool returns no more alerts than the code allows, whatever is asked.
LEMMA Clamped ==
    ASSUME NEW n \in Int
    PROVE  clamp_n(n) \in 1 .. MaxPriorAlerts
<1>1. MaxPriorAlerts \in Nat \ {0}
  BY HistoryAssumption
<1>2. Min({MaxPriorAlerts, n}) \in Int /\ Min({MaxPriorAlerts, n}) <= MaxPriorAlerts
  BY <1>1, MinOfTwo
<1>. DEFINE m == Min({MaxPriorAlerts, n})
<1>. HIDE DEF m
<1>3. Max({1, m}) = IF 1 <= m THEN m ELSE 1
  BY <1>2, MaxOfTwo DEF m
<1>. QED  BY <1>1, <1>2, <1>3 DEF clamp_n, m

\* What the tool reads of a table: legible alerts of it, and while the limit
\* is not reached each of those it asks for.
LEMMA ToolReads ==
    ASSUME NEW alerts \in SUBSET AlertRecord, IsFiniteSet(alerts), Keyed(alerts), NEW as_of
    PROVE  /\ tool_read(alerts, as_of) \subseteq alerts
           /\ Cardinality(alerts) <= QueryLimit
                => tool_read(alerts, as_of)
                      = {a \in alerts : as_of - days(LookbackDays + 1) <= a.window.start /\ a.legible}
<1>. DEFINE found == {a \in alerts : as_of - days(LookbackDays + 1) <= a.window.start}
            list == in_order(higher_keys(found))
            cut == SubSeq(list, 1, Min({Len(list), QueryLimit}))
<1>1. found \in SUBSET AlertRecord /\ IsFiniteSet(found) /\ Keyed(found)
      /\ Cardinality(found) \in Nat /\ Cardinality(found) <= Cardinality(alerts)
      /\ Cardinality(alerts) \in Nat
  BY FS_Subset, FS_CardinalityType DEF Keyed
<1>2. tool_read(alerts, as_of) = {r \in Range(cut) : r.legible}
  BY DEF tool_read
<1>. HIDE DEF found
<1>3. list \in Seq(found) /\ Len(list) = Cardinality(found) /\ Range(list) = found
  <2>1. DOMAIN higher_keys(found) = found
    BY DEF higher_keys
  <2>. QED  BY <1>1, <2>1, NewerIsAnOrder, Listed
<1>. HIDE DEF list
<1>4. QueryLimit \in Nat \ {0} /\ Len(list) \in Nat
  BY <1>1, <1>3, HistoryAssumption
<1>5. Min({Len(list), QueryLimit}) \in 0 .. Len(list)
      /\ (Len(list) <= QueryLimit => Min({Len(list), QueryLimit}) = Len(list))
  BY <1>4, MinOfTwo
<1>6. cut \in Seq(found)
  <2>. DEFINE upto == Min({Len(list), QueryLimit})
  <2>1. upto \in 0 .. Len(list)
    BY <1>5
  <2>. HIDE DEF upto
  <2>2. SubSeq(list, 1, upto) \in Seq(found)
    BY <1>3, <2>1, SubSeqProperties
  <2>. QED  BY <2>2 DEF upto
<1>7. Range(cut) \subseteq found
  <2>. HIDE DEF cut
  <2>. QED  BY <1>6, RangeOfSeq
<1>8. Cardinality(alerts) <= QueryLimit => Range(cut) = found
  <2>. SUFFICES ASSUME Cardinality(alerts) <= QueryLimit PROVE Range(cut) = found
    OBVIOUS
  <2>1. Min({Len(list), QueryLimit}) = Len(list)
    BY <1>1, <1>3, <1>4, <1>5
  <2>2. cut = list
    BY <1>3, <2>1, SubSeqFull
  <2>. QED  BY <1>3, <2>2
<1>. HIDE DEF cut
<1>. QED  BY <1>2, <1>7, <1>8 DEF found

\* What the tool answers is a summary of no more alerts than that.
LEMMA FactsTyped ==
    ASSUME NEW alerts \in SUBSET AlertRecord, IsFiniteSet(alerts), Keyed(alerts),
           NEW binding, NEW n \in Int
    PROVE  /\ read_facts(alerts, binding, n) \in ContinuitySummary
           /\ Len(read_facts(alerts, binding, n).prior_alerts) <= MaxPriorAlerts
<1>. DEFINE rows == qualifying(tool_read(alerts, binding.as_of), binding.as_of)
            newest == tool_newest_first(rows)
            summary == continuity_of(newest, binding.as_of, binding.level, binding.warning)
            m == Min({Len(newest), clamp_n(n)})
<1>1. rows \in SUBSET AlertRecord /\ rows \subseteq alerts
  BY ToolReads DEF qualifying
<1>2. IsFiniteSet(rows) /\ Keyed(rows)
  BY <1>1, FS_Subset DEF Keyed
<1>3. read_facts(alerts, binding, n)
         = [summary EXCEPT !.prior_alerts = SubSeq(@, 1, Min({Len(@), clamp_n(n)}))]
  BY DEF read_facts, tool_summarize
<1>. HIDE DEF rows
<1>4. newest \in Seq(AlertRecord)
  BY <1>1, <1>2, NewestFirst
<1>. HIDE DEF newest
<1>5. summary \in ContinuitySummary /\ summary.prior_alerts = newest
  BY <1>4, ContinuityTyped
<1>. HIDE DEF summary
<1>6. clamp_n(n) \in 1 .. MaxPriorAlerts /\ MaxPriorAlerts \in Nat /\ Len(newest) \in Nat
  <2>1. clamp_n(n) \in 1 .. MaxPriorAlerts
    BY Clamped
  <2>. QED  BY <1>4, <2>1, HistoryAssumption
<1>7. m \in 0 .. Len(newest) /\ m <= MaxPriorAlerts
  BY <1>6, MinOfTwo
<1>8. read_facts(alerts, binding, n) = [summary EXCEPT !.prior_alerts = SubSeq(newest, 1, m)]
  BY <1>3, <1>5
<1>. HIDE DEF m
<1>9. SubSeq(newest, 1, m) \in Seq(AlertRecord) /\ Len(SubSeq(newest, 1, m)) = m
  BY <1>4, <1>7, SubSeqProperties
<1>. QED  BY <1>5, <1>7, <1>8, <1>9 DEF ContinuitySummary

\* Of a table both can read in full, with no two alerts of one instant, the
\* two computations make the same of it, but for how many alerts are shown.
LEMMA SameReading ==
    ASSUME NEW alerts \in SUBSET AlertRecord, IsFiniteSet(alerts), Keyed(alerts),
           \A a \in alerts : a.legible,
           Cardinality(alerts) <= QueryLimit,
           \A a, b \in alerts : a.sent_at = b.sent_at => a = b,
           \A a \in alerts : a.window.start <= a.sent_at + days(LookbackDays),
           NEW as_of \in Int, NEW level, NEW warning, NEW n \in Int,
           NEW facts,
           facts = read_facts(alerts, [as_of |-> as_of, level |-> level, warning |-> warning], n)
    PROVE  LET summary == read_continuity(alerts, as_of, level, warning)
           IN  /\ facts.consecutive_days = summary.consecutive_days
               /\ facts.previous_level = summary.previous_level
               /\ facts.trend = summary.trend
               /\ IsPrefix(facts.prior_alerts, summary.prior_alerts)
<1>. DEFINE rows == qualifying(tool_read(alerts, as_of), as_of)
            newest == newest_first(rows)
            summary == continuity_of(newest, as_of, level, warning)
            m == Min({Len(newest), clamp_n(n)})
<1>1. tool_read(alerts, as_of) = {a \in alerts : as_of - days(LookbackDays + 1) <= a.window.start}
  BY ToolReads
<1>2. rows = qualifying(history_read(alerts, as_of), as_of)
  <2>1. ASSUME NEW a \in alerts, a.sent_at < as_of
        PROVE  a.window.start <= as_of + days(LookbackDays)
    <3>1. a.window.start \in Int /\ a.sent_at \in Int /\ days(LookbackDays) \in Int
      BY RecordTyped, HistoryAssumption DEF days
    <3>2. a.window.start <= a.sent_at + days(LookbackDays)
      OBVIOUS
    <3>. HIDE DEF days
    <3>. QED  BY <2>1, <3>1, <3>2
  <2>. QED
    BY <1>1, <2>1 DEF qualifying, history_read, alerts_with_window_start_between
<1>3. rows \in SUBSET AlertRecord /\ rows \subseteq alerts
  BY <1>1 DEF qualifying
<1>4. IsFiniteSet(rows) /\ Keyed(rows)
  BY <1>3, FS_Subset DEF Keyed
<1>5. \A r \in history_read(alerts, as_of) : r.legible
  BY DEF history_read, alerts_with_window_start_between
<1>6. read_continuity(alerts, as_of, level, warning) = summary
  BY <1>2, <1>5 DEF read_continuity, summarize
<1>. HIDE DEF rows
<1>7. newer(rows) = tool_newer(rows)
  <2>1. ASSUME NEW a \in rows, NEW b \in rows
        PROVE  (b.sent_at = a.sent_at /\ KeyBefore(b, a)) <=> (b.sent_at = a.sent_at /\ KeyBefore(a, b))
    BY <1>3
  <2>. QED  BY <2>1 DEF newer, tool_newer
<1>8. tool_newest_first(rows) = newest
  BY <1>7 DEF newest_first, tool_newest_first
<1>9. newest \in Seq(AlertRecord)
  BY <1>3, <1>4, NewestFirst
<1>10. facts = [summary EXCEPT !.prior_alerts = SubSeq(@, 1, Min({Len(@), clamp_n(n)}))]
  BY <1>8 DEF read_facts, tool_summarize, rows
<1>. HIDE DEF newest
<1>11. summary \in ContinuitySummary /\ summary.prior_alerts = newest
  BY <1>9, ContinuityTyped
<1>. HIDE DEF summary
<1>12. clamp_n(n) \in 1 .. MaxPriorAlerts /\ Len(newest) \in Nat
  <2>1. clamp_n(n) \in 1 .. MaxPriorAlerts
    BY Clamped
  <2>. QED  BY <1>9, <2>1
<1>13. m \in 0 .. Len(newest)
  BY <1>12, MinOfTwo
<1>14. /\ facts.consecutive_days = summary.consecutive_days
       /\ facts.previous_level = summary.previous_level
       /\ facts.trend = summary.trend
       /\ facts.prior_alerts = SubSeq(newest, 1, m)
  BY <1>10, <1>11 DEF ContinuitySummary
<1>. HIDE DEF m
<1>15. IsPrefix(SubSeq(newest, 1, m), newest)
  <2>. DEFINE first == SubSeq(newest, 1, m)
  <2>1. first \in Seq(AlertRecord) /\ Len(first) = m
    BY <1>9, <1>13, SubSeqProperties
  <2>2. SubSeq(first, 1, m) = first
    BY <2>1, SubSeqFull
  <2>. QED  BY <1>12, <1>13, <2>1, <2>2 DEF IsPrefix
<1>. QED  BY <1>6, <1>11, <1>14, <1>15

\* An instant is its date and its time of the day.
LEMMA Calendar ==
    ASSUME NEW t \in Int
    PROVE  /\ date(t) \in Int /\ time_of_day(t) \in Int
           /\ 0 <= time_of_day(t) /\ time_of_day(t) < TicksPerDay
           /\ t = TicksPerDay * date(t) + time_of_day(t)
  BY HistoryAssumption DEF date, time_of_day

\* Two instants of the same date and time are one.
LEMMA SameInstant ==
    ASSUME NEW t \in Int, NEW u \in Int, date(t) = date(u), time_of_day(t) = time_of_day(u)
    PROVE  t = u
<1>1. t = TicksPerDay * date(t) + time_of_day(t) /\ u = TicksPerDay * date(u) + time_of_day(u)
  BY Calendar
<1>. QED  BY <1>1

\* A lookback of so many days reaches back no more dates than that.
LEMMA DatesBack ==
    ASSUME NEW t \in Int, NEW u \in Int, NEW n \in Nat, u - days(n) <= t
    PROVE  date(u) - n <= date(t)
<1>. DEFINE T == TicksPerDay
            p == date(t)
            q == date(u)
<1>1. T \in Nat \ {0}
  BY HistoryAssumption
<1>2. /\ p \in Int /\ q \in Int /\ t < T * p + T /\ T * q <= u /\ u - n * T <= t
      /\ T * p \in Int /\ T * q \in Int /\ n * T \in Int
  <2>1. /\ p \in Int /\ q \in Int /\ time_of_day(t) \in Int /\ time_of_day(u) \in Int
        /\ 0 <= time_of_day(u) /\ time_of_day(t) < T
        /\ t = T * p + time_of_day(t) /\ u = T * q + time_of_day(u)
    BY Calendar
  <2>2. T * p \in Int /\ T * q \in Int /\ n * T \in Int
    BY <1>1, <2>1
  <2>. HIDE DEF T, p, q
  <2>. QED  BY <1>1, <2>1, <2>2 DEF days, T
<1>. HIDE DEF T, p, q
<1>3. CASE p < q - n
  <2>1. PICK c \in Nat : q = p + n + 1 + c
    <3>1. q - p - n - 1 \in Nat /\ q = p + n + 1 + (q - p - n - 1)
      BY <1>2, <1>3
    <3>. QED  BY <3>1
  <2>2. T * q = T * p + n * T + T + T * c
    BY <1>1, <1>2, <2>1
  <2>3. T * c \in Nat
    BY <1>1
  <2>. QED  BY <1>1, <1>2, <2>2, <2>3
<1>. QED  BY <1>2, <1>3 DEF p, q

\* What the application makes of a table: every qualifying alert of it.
LEMMA ReadTells ==
    ASSUME NEW alerts \in SUBSET AlertRecord, IsFiniteSet(alerts), Keyed(alerts), NEW now \in Int,
           \A a \in alerts : /\ a.window.start <= a.sent_at + days(LookbackDays)
                             /\ a.sent_at - days(1) <= a.window.start,
           NEW level, NEW warning
    PROVE  LET summary == read_continuity(alerts, now, level, warning)
               rows == qualifying(alerts, now)
           IN  \/ summary = EMPTY_CONTINUITY
               \/ /\ rows # {}
                  /\ summary.consecutive_days = consecutive_days(rows, now)
                  /\ Range(summary.prior_alerts) = rows
<1>. DEFINE summary == read_continuity(alerts, now, level, warning)
            rows == qualifying(alerts, now)
            newest == newest_first(rows)
            L == days(LookbackDays)
<1>1. qualifying(history_read(alerts, now), now) = rows
  <2>1. L \in Int /\ days(1) \in Int /\ days(LookbackDays + 1) = L + days(1)
    BY HistoryAssumption DEF days
  <2>2. ASSUME NEW a \in alerts, now - L <= a.sent_at, a.sent_at < now
        PROVE  now - days(LookbackDays + 1) <= a.window.start /\ a.window.start <= now + L
    <3>1. a.window.start \in Int /\ a.sent_at \in Int
      BY RecordTyped
    <3>2. a.window.start <= a.sent_at + L /\ a.sent_at - days(1) <= a.window.start
      OBVIOUS
    <3>. DEFINE D == days(1)
                M == days(LookbackDays + 1)
    <3>3. D \in Int /\ M = L + D /\ a.sent_at - D <= a.window.start
      BY <2>1, <3>2
    <3>. HIDE DEF D, M, L
    <3>4. now - M <= a.window.start /\ a.window.start <= now + L
      BY <2>1, <2>2, <3>1, <3>2, <3>3
    <3>. QED  BY <3>4 DEF M
  <2>. QED  BY <2>2 DEF qualifying, history_read, alerts_with_window_start_between
<1>2. rows \in SUBSET AlertRecord /\ IsFiniteSet(rows) /\ Keyed(rows)
  <2>1. rows \subseteq alerts
    BY DEF qualifying
  <2>. HIDE DEF rows
  <2>. QED  BY <2>1, FS_Subset DEF Keyed
<1>. HIDE DEF rows
<1>3. newest \in Seq(AlertRecord) /\ Range(newest) = rows
  BY <1>2, NewestFirst
<1>4. summary = EMPTY_CONTINUITY \/ summary = continuity_of(newest, now, level, warning)
  BY <1>1 DEF read_continuity, summarize
<1>. HIDE DEF summary, newest
<1>5. CASE summary = continuity_of(newest, now, level, warning) /\ newest # <<>>
  <2>1. summary.consecutive_days = consecutive_days(rows, now) /\ summary.prior_alerts = newest
    BY <1>3, <1>5 DEF continuity_of
  <2>2. rows # {}
    <3>1. 1 \in DOMAIN newest
      BY <1>3, <1>5
    <3>2. newest[1] \in Range(newest)
      BY <3>1 DEF Range
    <3>. QED  BY <1>3, <3>2
  <2>. QED  BY <1>3, <2>1, <2>2 DEF summary, rows
<1>. QED  BY <1>4, <1>5 DEF continuity_of, summary

\* The alerts a summary is made of.
Summarized(alerts, as_of) == qualifying(history_read(alerts, as_of), as_of)

\* A summary that shows no more than n of its alerts.
Shortened(summary, n) == [summary EXCEPT !.prior_alerts = SubSeq(@, 1, Min({Len(@), n}))]

\* Of a table both can read in full the application and the tool read the
\* same alerts, and differ in how those of one instant are ordered.
LEMMA SameRows ==
    ASSUME NEW alerts \in SUBSET AlertRecord, IsFiniteSet(alerts), Keyed(alerts),
           \A a \in alerts : a.legible,
           Cardinality(alerts) <= QueryLimit,
           \A a \in alerts : a.window.start <= a.sent_at + days(LookbackDays),
           NEW as_of \in Int, NEW level, NEW warning, NEW n \in Int
    PROVE  LET rows == Summarized(alerts, as_of)
           IN  /\ rows \in SUBSET AlertRecord /\ rows \subseteq alerts
               /\ IsFiniteSet(rows) /\ Keyed(rows)
               /\ read_continuity(alerts, as_of, level, warning)
                     = continuity_of(newest_first(rows), as_of, level, warning)
               /\ read_facts(alerts, [as_of |-> as_of, level |-> level, warning |-> warning], n)
                     = Shortened(continuity_of(tool_newest_first(rows), as_of, level, warning), clamp_n(n))
<1>. DEFINE rows == qualifying(history_read(alerts, as_of), as_of)
            binding == [as_of |-> as_of, level |-> level, warning |-> warning]
<1>1. tool_read(alerts, as_of) = {a \in alerts : as_of - days(LookbackDays + 1) <= a.window.start}
  BY ToolReads
<1>2. qualifying(tool_read(alerts, as_of), as_of) = rows
  <2>1. ASSUME NEW a \in alerts, a.sent_at < as_of
        PROVE  a.window.start <= as_of + days(LookbackDays)
    <3>1. a.window.start \in Int /\ a.sent_at \in Int /\ days(LookbackDays) \in Int
      BY RecordTyped, HistoryAssumption DEF days
    <3>2. a.window.start <= a.sent_at + days(LookbackDays)
      OBVIOUS
    <3>. HIDE DEF days
    <3>. QED  BY <2>1, <3>1, <3>2
  <2>. QED
    BY <1>1, <2>1 DEF qualifying, history_read, alerts_with_window_start_between
<1>3. rows \in SUBSET AlertRecord /\ rows \subseteq alerts
  BY DEF qualifying, history_read, alerts_with_window_start_between
<1>4. IsFiniteSet(rows) /\ Keyed(rows)
  BY <1>3, FS_Subset DEF Keyed
<1>5. \A r \in history_read(alerts, as_of) : r.legible
  BY DEF history_read, alerts_with_window_start_between
<1>6. read_continuity(alerts, as_of, level, warning)
         = continuity_of(newest_first(rows), as_of, level, warning)
  BY <1>5 DEF read_continuity, summarize
<1>. HIDE DEF rows
<1>7. read_facts(alerts, binding, n)
         = Shortened(continuity_of(tool_newest_first(rows), as_of, level, warning), clamp_n(n))
  BY <1>2 DEF read_facts, tool_summarize, Shortened
<1>. QED  BY <1>3, <1>4, <1>6, <1>7 DEF rows, Summarized

\* Whatever comes early in the one order has the instant of what comes as
\* early in the other.
LEMMA AsNew ==
    ASSUME NEW rows \in SUBSET AlertRecord, Keyed(rows), IsFiniteSet(rows),
           NEW n \in 1 .. Cardinality(rows), NEW i \in 1 .. n
    PROVE  /\ tool_newest_first(rows)[i] \in rows
           /\ \E k \in 1 .. n : newest_first(rows)[k].sent_at = tool_newest_first(rows)[i].sent_at
<1>. DEFINE N == Cardinality(rows)
            here == newest_first(rows)
            there == tool_newest_first(rows)
            x == there[i]
            a == here[n]
<1>1. DOMAIN newer(rows) = rows /\ DOMAIN tool_newer(rows) = rows
  BY DEF newer, tool_newer
<1>2. StrictOrder(newer(rows)) /\ StrictOrder(tool_newer(rows))
  BY NewerIsAnOrder
<1>3. /\ N \in Nat /\ here \in [1 .. N -> rows]
      /\ \A b \in rows : \E k \in 1 .. N : here[k] = b
      /\ \A k \in 1 .. N : Cardinality(newer(rows)[here[k]]) = k - 1
  BY <1>1, <1>2, InOrder DEF newest_first
<1>4. /\ there \in [1 .. N -> rows]
      /\ \A k \in 1 .. N : Cardinality(tool_newer(rows)[there[k]]) = k - 1
  BY <1>1, <1>2, InOrder DEF tool_newest_first
<1>. HIDE DEF N, here, there
<1>5. n \in 1 .. N /\ i \in 1 .. N /\ n \in Int /\ i \in Int /\ i <= n
  BY <1>3 DEF N
<1>6. x \in rows /\ a \in rows /\ Cardinality(newer(rows)[a]) = n - 1
      /\ Cardinality(tool_newer(rows)[x]) = i - 1
  BY <1>3, <1>4, <1>5
<1>. HIDE DEF x, a
<1>7. \A b \in rows : b.sent_at \in Int
  BY RecordTyped
<1>8. \A b \in rows : /\ newer(rows)[b] \in SUBSET rows /\ IsFiniteSet(newer(rows)[b])
                      /\ tool_newer(rows)[b] \in SUBSET rows /\ IsFiniteSet(tool_newer(rows)[b])
  <2>1. \A b \in rows : newer(rows)[b] \in SUBSET rows /\ tool_newer(rows)[b] \in SUBSET rows
    BY DEF newer, tool_newer
  <2>. QED  BY <2>1, FS_Subset
<1>9. a.sent_at <= x.sent_at
  <2>. SUFFICES ASSUME a.sent_at > x.sent_at PROVE FALSE
    BY <1>6, <1>7
  <2>. DEFINE above == newer(rows)[a] \cup {a}
  <2>1. above \in SUBSET tool_newer(rows)[x]
    <3>1. ASSUME NEW b \in newer(rows)[a] PROVE b \in rows /\ b.sent_at >= a.sent_at
      BY <1>6, <1>7 DEF newer
    <3>2. ASSUME NEW b \in rows, b.sent_at >= a.sent_at PROVE b \in tool_newer(rows)[x]
      <4>1. b.sent_at > x.sent_at
        BY <1>6, <1>7, <3>2
      <4>. QED  BY <1>6, <4>1 DEF tool_newer
    <3>3. a.sent_at >= a.sent_at
      BY <1>6, <1>7
    <3>. QED  BY <1>6, <3>1, <3>2, <3>3
  <2>2. a \notin newer(rows)[a]
    BY <1>1, <1>2, <1>6 DEF StrictOrder
  <2>3. Cardinality(above) = (n - 1) + 1
    BY <1>6, <1>8, <2>2, FS_AddElement
  <2>4. Cardinality(above) <= i - 1
    BY <1>6, <1>8, <2>1, FS_Subset
  <2>. HIDE DEF above
  <2>. QED  BY <1>5, <2>3, <2>4
<1>10. CASE x \in newer(rows)[a]
  <2>1. PICK k \in 1 .. N : here[k] = x
    BY <1>3, <1>6
  <2>2. newer(rows)[x] \in SUBSET newer(rows)[a]
    BY <1>1, <1>2, <1>6, <1>10 DEF StrictOrder
  <2>3. Cardinality(newer(rows)[x]) <= Cardinality(newer(rows)[a])
    BY <1>6, <1>8, <2>2, FS_Subset
  <2>4. k - 1 <= n - 1
    BY <1>3, <1>6, <2>1, <2>3
  <2>5. k \in 1 .. n
    BY <1>5, <2>4
  <2>. QED  BY <1>6, <2>1, <2>5 DEF x, here, there
<1>11. CASE x = a
  BY <1>5, <1>6, <1>11 DEF x, a, here, there
<1>12. CASE a \in newer(rows)[x]
  <2>1. a.sent_at >= x.sent_at
    BY <1>6, <1>7, <1>12 DEF newer
  <2>2. a.sent_at = x.sent_at
    BY <1>6, <1>7, <1>9, <2>1
  <2>3. n \in 1 .. n
    BY <1>5
  <2>. QED  BY <1>6, <2>2, <2>3 DEF x, a, here, there
<1>13. x = a \/ x \in newer(rows)[a] \/ a \in newer(rows)[x]
  BY <1>1, <1>2, <1>6 DEF StrictOrder
<1>. QED  BY <1>10, <1>11, <1>12, <1>13

\* The tool tells of as many days, and of alerts of instants the summary shows.
TellsOf(facts, summary) ==
    /\ facts.consecutive_days = summary.consecutive_days
    /\ \A i \in DOMAIN facts.prior_alerts :
          \E k \in 1 .. Min({MaxPriorAlerts, Len(summary.prior_alerts)}) :
             summary.prior_alerts[k].sent_at = facts.prior_alerts[i].sent_at

\* So the tool counts the days the application does, and shows only alerts of
\* instants the application would show.
LEMMA SameTelling ==
    ASSUME NEW alerts \in SUBSET AlertRecord, IsFiniteSet(alerts), Keyed(alerts),
           \A a \in alerts : a.legible,
           Cardinality(alerts) <= QueryLimit,
           \A a \in alerts : a.window.start <= a.sent_at + days(LookbackDays),
           NEW as_of \in Int, NEW level, NEW warning, NEW n \in Int,
           NEW facts,
           facts = read_facts(alerts, [as_of |-> as_of, level |-> level, warning |-> warning], n)
    PROVE  TellsOf(facts, read_continuity(alerts, as_of, level, warning))
<1>. DEFINE rows == Summarized(alerts, as_of)
            here == newest_first(rows)
            there == tool_newest_first(rows)
            summary == continuity_of(here, as_of, level, warning)
            told == continuity_of(there, as_of, level, warning)
            m == Min({Len(there), clamp_n(n)})
            most == Min({MaxPriorAlerts, Len(here)})
<1>1. /\ rows \in SUBSET AlertRecord /\ IsFiniteSet(rows) /\ Keyed(rows)
      /\ read_continuity(alerts, as_of, level, warning) = summary
      /\ facts = Shortened(told, clamp_n(n))
  <2>. HIDE DEF here, there, told, summary
  <2>1. /\ rows \in SUBSET AlertRecord /\ IsFiniteSet(rows) /\ Keyed(rows)
        /\ read_continuity(alerts, as_of, level, warning)
              = continuity_of(newest_first(rows), as_of, level, warning)
        /\ read_facts(alerts, [as_of |-> as_of, level |-> level, warning |-> warning], n)
              = Shortened(continuity_of(tool_newest_first(rows), as_of, level, warning), clamp_n(n))
    BY SameRows
  <2>2. summary = continuity_of(newest_first(rows), as_of, level, warning)
    BY DEF summary, here
  <2>3. told = continuity_of(tool_newest_first(rows), as_of, level, warning)
    BY DEF told, there
  <2>. QED  BY <2>1, <2>2, <2>3
<1>. HIDE DEF rows
<1>2. /\ here \in Seq(AlertRecord) /\ Range(here) = rows
      /\ there \in Seq(AlertRecord) /\ Range(there) = rows
  BY <1>1, NewestFirst
<1>3. Len(here) = Cardinality(rows) /\ Len(there) = Cardinality(rows) /\ Cardinality(rows) \in Nat
  <2>1. DOMAIN newer(rows) = rows /\ DOMAIN tool_newer(rows) = rows
    BY DEF newer, tool_newer
  <2>2. StrictOrder(newer(rows)) /\ StrictOrder(tool_newer(rows))
    BY <1>1, NewerIsAnOrder
  <2>3. Len(in_order(newer(rows))) = Cardinality(rows)
    BY <1>1, <2>1, <2>2, Listed
  <2>4. Len(in_order(tool_newer(rows))) = Cardinality(rows)
    BY <1>1, <2>1, <2>2, Listed
  <2>5. Cardinality(rows) \in Nat
    BY <1>1, FS_CardinalityType
  <2>. QED  BY <2>3, <2>4, <2>5 DEF newest_first, tool_newest_first
<1>4. told.consecutive_days = summary.consecutive_days
  <2>1. here = <<>> <=> there = <<>>
    <3>. HIDE DEF here, there
    <3>. QED  BY <1>2, <1>3
  <2>. HIDE DEF here, there
  <2>2. CASE here = <<>>
    BY <2>1, <2>2 DEF continuity_of
  <2>3. CASE here # <<>>
    BY <1>2, <2>1, <2>3 DEF continuity_of
  <2>. QED  BY <2>2, <2>3
<1>5. /\ told \in ContinuitySummary /\ told.prior_alerts = there
      /\ summary \in ContinuitySummary /\ summary.prior_alerts = here
  <2>. HIDE DEF here, there
  <2>. QED  BY <1>2, ContinuityTyped
<1>6. clamp_n(n) \in 1 .. MaxPriorAlerts /\ MaxPriorAlerts \in Nat
  BY Clamped, HistoryAssumption
<1>. HIDE DEF here, there, told, summary
<1>7. /\ facts.consecutive_days = told.consecutive_days
      /\ facts.prior_alerts = SubSeq(there, 1, m)
  BY <1>1, <1>5 DEF ContinuitySummary, Shortened
<1>8. m \in 0 .. Len(there) /\ most \in Nat /\ m <= most /\ most <= Cardinality(rows)
  <2>. DEFINE c == clamp_n(n)
              N == Cardinality(rows)
  <2>1. Len(there) = N /\ Len(here) = N /\ N \in Nat /\ c \in 1 .. MaxPriorAlerts
    BY <1>3, <1>6
  <2>. HIDE DEF c, N
  <2>2. Min({N, c}) = IF N <= c THEN N ELSE c
    BY <1>6, <2>1, MinOfTwo
  <2>3. Min({MaxPriorAlerts, N}) = IF MaxPriorAlerts <= N THEN MaxPriorAlerts ELSE N
    BY <1>6, <2>1, MinOfTwo
  <2>4. m = Min({N, c}) /\ most = Min({MaxPriorAlerts, N})
    BY <2>1 DEF c
  <2>5. m \in 0 .. N /\ most \in Nat /\ m <= most /\ most <= N
    BY <1>6, <2>1, <2>2, <2>3, <2>4
  <2>. QED  BY <2>1, <2>5 DEF N
<1>. HIDE DEF m, most
<1>9. SubSeq(there, 1, m) \in Seq(AlertRecord) /\ Len(SubSeq(there, 1, m)) = m
      /\ \A i \in 1 .. m : SubSeq(there, 1, m)[i] = there[i]
  <2>1. m \in Nat /\ m <= Len(there)
    BY <1>3, <1>8
  <2>. QED  BY <1>2, <2>1, SubSeqProperties
<1>10. DOMAIN facts.prior_alerts = 1 .. m
  BY <1>7, <1>9, LenProperties
<1>11. ASSUME NEW i \in DOMAIN facts.prior_alerts
       PROVE  \E k \in 1 .. most : summary.prior_alerts[k].sent_at = facts.prior_alerts[i].sent_at
  <2>1. i \in 1 .. m /\ facts.prior_alerts[i] = there[i]
    BY <1>7, <1>9, <1>10
  <2>2. most \in 1 .. Cardinality(rows) /\ i \in 1 .. most
    BY <1>3, <1>8, <2>1
  <2>3. \E k \in 1 .. most : here[k].sent_at = there[i].sent_at
    BY <1>1, <2>2, AsNew DEF here, there
  <2>. QED  BY <1>5, <2>1, <2>3
<1>. QED  BY <1>1, <1>4, <1>5, <1>7, <1>11 DEF most, TellsOf

-----------------------------------------------------------------------------
(* Texts. *)

\* A text with no such token, and one with no two of them.
Free(text, token) == \A i \in DOMAIN text : text[i] # token

AtMostOnce(text, token) == \A i, j \in DOMAIN text : text[i] = token /\ text[j] = token => i = j

\* What the template writes apart from its two headings.
CalmToken == {t \in TextToken : t.kind \notin {"header", "control", "foreign"}}

\* A text in two parts is free of what both are free of, and has at most once
\* what one has at most once and the other not at all.
LEMMA Concatenated ==
    ASSUME NEW T, NEW u \in Seq(T), NEW v \in Seq(T), NEW token
    PROVE  /\ Free(u, token) /\ Free(v, token) => Free(u \o v, token)
           /\ AtMostOnce(u, token) /\ Free(v, token) => AtMostOnce(u \o v, token)
           /\ Free(u, token) /\ AtMostOnce(v, token) => AtMostOnce(u \o v, token)
           /\ Has(u, token) => Has(u \o v, token)
<1>. DEFINE w == u \o v
            m == Len(u)
            n == Len(v)
<1>1. /\ m \in Nat /\ n \in Nat /\ DOMAIN u = 1 .. m /\ DOMAIN v = 1 .. n
      /\ DOMAIN w = 1 .. m + n
      /\ \A i \in 1 .. m + n : w[i] = IF i <= m THEN u[i] ELSE v[i - m]
  BY ConcatProperties
<1>. HIDE DEF w, m, n
<1>2. ASSUME NEW i \in DOMAIN w, w[i] = token
      PROVE  \/ i \in DOMAIN u /\ u[i] = token
             \/ i > m /\ i - m \in DOMAIN v /\ v[i - m] = token
  <2>1. i \in 1 .. m + n
    BY <1>1
  <2>2. CASE i <= m
    BY <1>1, <1>2, <2>1, <2>2
  <2>3. CASE ~ (i <= m)
    BY <1>1, <1>2, <2>1, <2>3
  <2>. QED  BY <2>2, <2>3
<1>3. Free(u, token) /\ Free(v, token) => Free(w, token)
  BY <1>2 DEF Free
<1>4. AtMostOnce(u, token) /\ Free(v, token) => AtMostOnce(w, token)
  BY <1>2 DEF Free, AtMostOnce
<1>5. Free(u, token) /\ AtMostOnce(v, token) => AtMostOnce(w, token)
  <2>. SUFFICES ASSUME Free(u, token), AtMostOnce(v, token),
                       NEW i \in DOMAIN w, NEW j \in DOMAIN w, w[i] = token, w[j] = token
                PROVE  i = j
    BY DEF AtMostOnce
  <2>1. /\ i > m /\ i - m \in DOMAIN v /\ v[i - m] = token
        /\ j > m /\ j - m \in DOMAIN v /\ v[j - m] = token
    BY <1>2 DEF Free
  <2>2. i - m = j - m
    BY <2>1 DEF AtMostOnce
  <2>3. i \in Int /\ j \in Int /\ m \in Int
    BY <1>1
  <2>. QED  BY <2>2, <2>3
<1>6. Has(u, token) => Has(w, token)
  <2>1. ASSUME NEW i \in DOMAIN u, u[i] = token PROVE i \in DOMAIN w /\ w[i] = token
    BY <1>1, <2>1
  <2>. QED  BY <2>1 DEF Has
<1>. QED  BY <1>3, <1>4, <1>5, <1>6 DEF w

\* Such a text has at most one occurrence.
LEMMA AtMostOnceOccurs ==
    ASSUME NEW T, NEW text \in Seq(T), NEW token, AtMostOnce(text, token)
    PROVE  Occurrences(text, token) <= 1
<1>. DEFINE at == {i \in DOMAIN text : text[i] = token}
<1>1. Occurrences(text, token) = Cardinality(at)
  BY DEF Occurrences
<1>2. at = {} \/ \E i : at = {i}
  BY DEF AtMostOnce
<1>. HIDE DEF at
<1>3. Cardinality(at) \in {0, 1}
  BY <1>2, FS_EmptySet, FS_Singleton
<1>. QED  BY <1>1, <1>3

\* A calm text has no header, control or foreign character.
LEMMA CalmIsFree ==
    ASSUME NEW text \in Seq(CalmToken)
    PROVE  /\ \A h \in SECTION_HEADERS : Free(text, Header(h))
           /\ Free(text, Control) /\ Free(text, Foreign)
  BY DEF Free, CalmToken, Header, Control, Foreign, Token

\* What a text is free of it has at most once.
LEMMA FreeIsAtMostOnce ==
    ASSUME NEW text, NEW token, Free(text, token)
    PROVE  AtMostOnce(text, token) /\ ~ Has(text, token)
  BY DEF Free, AtMostOnce, Has

\* The length of a text is that of its parts.
LEMMA LengthAdds ==
    ASSUME NEW u \in Seq(TextToken), NEW v \in Seq(TextToken)
    PROVE  /\ length(u) \in Nat
           /\ length(u \o v) = length(u) + length(v)
<1>. DEFINE size(t) == IF t.kind = "span" THEN t.of.length ELSE 1
            sizes(text) == [i \in DOMAIN text |-> size(text[i])]
<1>1. ASSUME NEW t \in TextToken PROVE size(t) \in Nat
  BY DEF TextToken, PlainToken, SuppliedString
<1>2. ASSUME NEW text \in Seq(TextToken)
      PROVE  /\ sizes(text) \in Seq(Nat) /\ Len(sizes(text)) = Len(text)
             /\ DOMAIN text = 1 .. Len(text)
             /\ \A i \in 1 .. Len(text) : sizes(text)[i] = size(text[i])
  <2>1. Len(text) \in Nat /\ DOMAIN text = 1 .. Len(text) /\ \A i \in 1 .. Len(text) : text[i] \in TextToken
    BY LenProperties
  <2>. HIDE DEF size
  <2>. QED  BY <1>1, <2>1
<1>3. length(u) = total(sizes(u)) /\ length(v) = total(sizes(v)) /\ length(u \o v) = total(sizes(u \o v))
  BY DEF length
<1>. HIDE DEF size
<1>4. sizes(u \o v) = sizes(u) \o sizes(v)
  <2>. DEFINE w == u \o v
              m == Len(u)
              n == Len(v)
              su == sizes(u)
              sv == sizes(v)
              sw == sizes(w)
  <2>1. /\ w \in Seq(TextToken) /\ Len(w) = m + n /\ m \in Nat /\ n \in Nat
        /\ \A i \in 1 .. m + n : w[i] = IF i <= m THEN u[i] ELSE v[i - m]
    BY ConcatProperties
  <2>2. /\ su \in Seq(Nat) /\ Len(su) = m /\ \A i \in 1 .. m : su[i] = size(u[i])
        /\ sv \in Seq(Nat) /\ Len(sv) = n /\ \A i \in 1 .. n : sv[i] = size(v[i])
    BY <1>2
  <2>3. sw \in Seq(Nat) /\ Len(sw) = m + n /\ \A i \in 1 .. m + n : sw[i] = size(w[i])
    <3>. HIDE DEF w
    <3>. QED  BY <1>2, <2>1
  <2>. HIDE DEF w, m, n, su, sv, sw
  <2>4. /\ su \o sv \in Seq(Nat) /\ Len(su \o sv) = m + n
        /\ \A i \in 1 .. m + n : (su \o sv)[i] = IF i <= m THEN su[i] ELSE sv[i - m]
    BY <2>2, ConcatProperties
  <2>5. ASSUME NEW i \in 1 .. m + n PROVE sw[i] = (su \o sv)[i]
    <3>1. CASE i <= m
      <4>1. i \in 1 .. m
        BY <2>1, <3>1
      <4>. QED  BY <2>1, <2>2, <2>3, <2>4, <3>1, <4>1
    <3>2. CASE ~ (i <= m)
      <4>1. i - m \in 1 .. n
        BY <2>1, <3>2
      <4>. QED  BY <2>1, <2>2, <2>3, <2>4, <3>2, <4>1
    <3>. QED  BY <3>1, <3>2
  <2>6. sw = su \o sv
    BY <2>3, <2>4, <2>5, SeqEqual
  <2>. QED  BY <2>6 DEF w, su, sv, sw
<1>. DEFINE su == sizes(u)
            sv == sizes(v)
<1>5. su \in Seq(Nat) /\ sv \in Seq(Nat)
  BY <1>2
<1>6. length(u) = total(su) /\ length(v) = total(sv) /\ length(u \o v) = total(su \o sv)
  BY <1>3, <1>4
<1>. HIDE DEF su, sv
<1>. QED  BY <1>5, <1>6, TotalIsNat, TotalOfConcat

-----------------------------------------------------------------------------
(* The template. *)

\* The tokens that the template writes of its own are calm.
LEMMA Phrases ==
    /\ {Word, Glue, Connector, Senamhi, Stop, NewLine, Bullet, Continuing} \subseteq CalmToken
    /\ \A v \in Int : Figure(v) \in CalmToken /\ Decimal(v) \in CalmToken
    /\ \A u \in NumberUnit : Unit(u) \in CalmToken
    /\ \A u \in {"mm", "%"} : Noun(u) \in CalmToken
    /\ \A d \in Int : Date(d) \in CalmToken /\ Time(d) \in CalmToken
    /\ \A s \in SuppliedString : Span(s) \in CalmToken
    /\ \A h \in SECTION_HEADERS : Header(h) \in TextToken
<1>1. {Word, Glue, Connector, Senamhi, Stop, NewLine, Bullet, Continuing} \subseteq CalmToken
  BY DEF Word, Glue, Connector, Senamhi, Stop, NewLine, Bullet, Continuing, Token, CalmToken, TextToken,
         PlainToken
<1>2. \A v \in Int : Figure(v) \in CalmToken /\ Decimal(v) \in CalmToken
  BY DEF Figure, Decimal, CalmToken, TextToken, PlainToken
<1>3. /\ \A u \in NumberUnit : Unit(u) \in CalmToken
      /\ \A u \in {"mm", "%"} : Noun(u) \in CalmToken
  BY DEF Unit, Noun, CalmToken, TextToken, PlainToken
<1>4. \A d \in Int : Date(d) \in CalmToken /\ Time(d) \in CalmToken
  BY DEF Date, Time, CalmToken, TextToken, PlainToken
<1>5. \A s \in SuppliedString : Span(s) \in CalmToken
  BY DEF Span, CalmToken, TextToken
<1>6. \A h \in SECTION_HEADERS : Header(h) \in TextToken
  BY DEF Header, TextToken, PlainToken
<1>. QED  BY <1>1, <1>2, <1>3, <1>4, <1>5, <1>6

\* A calm text is a text.
LEMMA CalmIsText ==
    ASSUME NEW text \in Seq(CalmToken)
    PROVE  text \in Seq(TextToken)
<1>1. CalmToken \subseteq TextToken
  BY DEF CalmToken
<1>. QED  BY <1>1, SeqMonotonic

\* So is a line of calm tokens.
LEMMA LineIsCalm ==
    ASSUME NEW tokens \in Seq(CalmToken)
    PROVE  Line(tokens) \in Seq(CalmToken)
<1>1. <<NewLine>> \in Seq(CalmToken)
  BY Phrases
<1>. QED  BY <1>1, ConcatProperties DEF Line

\* So is a date with its time.
LEMMA MomentIsCalm ==
    ASSUME NEW t \in Int
    PROVE  Moment(t) \in Seq(CalmToken)
<1>1. date(t) \in Int /\ time_of_day(t) \in Int
  BY HistoryAssumption DEF date, time_of_day
<1>. QED  BY <1>1, Phrases DEF Moment

\* So is a reason, for every reason a request may carry.
LEMMA ReasonIsCalm ==
    ASSUME NEW reason \in Reason
    PROVE  render_reason_es(reason) \in Seq(CalmToken)
<1>1. CASE reason.kind = "warning"
  <2>1. reason.title \in SuppliedString
    BY <1>1 DEF Reason
  <2>. QED  BY <1>1, <2>1, Phrases DEF render_reason_es
<1>2. CASE reason.kind = "forecast"
  <2>1. reason.accumulated_mm \in Nat /\ reason.hours \in Nat /\ reason.probability_pct \in Nat
    BY <1>2 DEF Reason
  <2>2. one_decimal(reason.accumulated_mm) \in Int /\ Whole(reason.hours) \in Int
        /\ Whole(reason.probability_pct) \in Int
    BY <2>1 DEF one_decimal, Whole
  <2>3. {"mm", "h", "%"} \subseteq NumberUnit
    BY DEF NumberUnit
  <2>. QED  BY <1>2, <2>2, <2>3, Phrases DEF render_reason_es
<1>3. CASE reason.kind = "no_qualifying"
  BY <1>3, Phrases DEF render_reason_es
<1>4. CASE reason.kind = "senamhi_unavailable"
  BY <1>4 DEF render_reason_es
<1>5. reason.kind \in {"warning", "forecast", "no_qualifying", "senamhi_unavailable"}
  BY DEF Reason
<1>. QED  BY <1>1, <1>2, <1>3, <1>4, <1>5

\* The reasons are bullets under one heading, or nothing.
LEMMA ReasonLines ==
    ASSUME NEW reasons \in Seq(Reason)
    PROVE  \/ reason_lines(reasons) = <<>>
           \/ \E bullets \in Seq(CalmToken) :
                 reason_lines(reasons) = Line(<<Header("Motivos:")>>) \o bullets
<1>. DEFINE bullet(reason) ==
              IF render_reason_es(reason) = <<>> THEN <<>>
              ELSE Line(<<Bullet>>) \o render_reason_es(reason)
            parts == [i \in DOMAIN reasons |-> bullet(reasons[i])]
            bullets == FlattenSeq(parts)
<1>1. ASSUME NEW reason \in Reason PROVE bullet(reason) \in Seq(CalmToken)
  <2>1. <<Bullet>> \in Seq(CalmToken)
    BY Phrases
  <2>2. Line(<<Bullet>>) \in Seq(CalmToken) /\ render_reason_es(reason) \in Seq(CalmToken)
    BY <2>1, LineIsCalm, ReasonIsCalm
  <2>. QED  BY <2>2, ConcatProperties
<1>2. parts \in Seq(Seq(CalmToken))
  <2>1. Len(reasons) \in Nat /\ DOMAIN reasons = 1 .. Len(reasons)
        /\ \A i \in DOMAIN reasons : reasons[i] \in Reason
    BY LenProperties
  <2>. HIDE DEF bullet
  <2>2. parts \in [1 .. Len(reasons) -> Seq(CalmToken)]
    BY <1>1, <2>1
  <2>. HIDE DEF parts
  <2>. QED  BY <2>1, <2>2
<1>3. reason_lines(reasons) = IF bullets = <<>> THEN <<>> ELSE Line(<<Header("Motivos:")>>) \o bullets
  BY DEF reason_lines
<1>. HIDE DEF parts
<1>4. bullets \in Seq(CalmToken)
  BY <1>2, FlattenedPlaces
<1>. HIDE DEF bullets
<1>. QED  BY <1>3, <1>4

\* So are the lines about a source that is down.
LEMMA DownLines ==
    ASSUME NEW request
    PROVE  down_lines(request) \in Seq(CalmToken)
<1>. DEFINE no_senamhi == <<Glue, Glue, Glue, Senamhi, Glue, Glue, Glue, Glue, Glue, Stop,
                            Glue, Continuing, Word, Stop>>
            no_open_meteo == <<Glue, Glue, Word, Glue, Glue, Glue, Stop>>
            senamhi == IF request.senamhi_status = "unavailable" THEN Line(no_senamhi) ELSE <<>>
            open_meteo == IF request.open_meteo_status = "unavailable" THEN Line(no_open_meteo)
                          ELSE <<>>
<1>1. no_senamhi \in Seq(CalmToken)
  BY Phrases
<1>2. no_open_meteo \in Seq(CalmToken)
  BY Phrases
<1>3. down_lines(request) = senamhi \o open_meteo
  BY DEF down_lines
<1>. HIDE DEF no_senamhi, no_open_meteo
<1>4. Line(no_senamhi) \in Seq(CalmToken) /\ Line(no_open_meteo) \in Seq(CalmToken)
  BY <1>1, <1>2, LineIsCalm
<1>5. senamhi \in Seq(CalmToken) /\ open_meteo \in Seq(CalmToken)
  BY <1>4
<1>. HIDE DEF senamhi, open_meteo
<1>. QED  BY <1>3, <1>5, ConcatProperties

\* And what is written of an item.
LEMMA ItemIsCalm ==
    ASSUME NEW item \in SuppliedString
    PROVE  item_bullet(item) \in Seq(CalmToken)
<1>1. <<Bullet, Span(item)>> \in Seq(CalmToken) /\ <<>> \in Seq(CalmToken)
  BY Phrases
<1>2. Line(<<Bullet, Span(item)>>) \in Seq(CalmToken)
  BY <1>1, LineIsCalm
<1>. QED  BY <1>1, <1>2 DEF item_bullet

\* The checklist takes no more than the room it is given, if that holds the
\* line that says it was cut.
LEMMA ChecklistFits ==
    ASSUME NEW items \in Seq(SuppliedString), NEW budget \in Int,
           length(CHECKLIST_TRUNCATED_ES) <= budget
    PROVE  /\ checklist_lines(items, budget) \in Seq(CalmToken)
           /\ length(checklist_lines(items, budget)) <= budget
<1>. DEFINE bullets(n) == FlattenSeq([i \in 1 .. n |-> item_bullet(items[i])])
            room == budget - length(CHECKLIST_TRUNCATED_ES)
            Fit == {n \in 1 .. Len(items) : length(bullets(n)) <= room}
            kept == Max({0} \cup Fit)
            cut == bullets(kept)
<1>1. Len(items) \in Nat /\ \A i \in 1 .. Len(items) : items[i] \in SuppliedString
  BY LenProperties
<1>2. CHECKLIST_TRUNCATED_ES \in Seq(CalmToken)
  <2>1. <<Bullet, Glue, Word, Word>> \in Seq(CalmToken)
    BY Phrases
  <2>. QED  BY <2>1, LineIsCalm DEF CHECKLIST_TRUNCATED_ES
<1>3. ASSUME NEW n \in 0 .. Len(items) PROVE bullets(n) \in Seq(CalmToken)
  <2>. DEFINE parts == [i \in 1 .. n |-> item_bullet(items[i])]
  <2>1. ASSUME NEW i \in 1 .. n PROVE item_bullet(items[i]) \in Seq(CalmToken)
    <3>1. items[i] \in SuppliedString
      BY <1>1
    <3>. QED  BY <3>1, ItemIsCalm
  <2>2. parts \in Seq(Seq(CalmToken))
    BY <1>1, <2>1
  <2>. HIDE DEF parts
  <2>3. FlattenSeq(parts) \in Seq(CalmToken)
    BY <2>2, FlattenedPlaces
  <2>. QED  BY <2>3 DEF parts
<1>4. ASSUME NEW text \in Seq(CalmToken) PROVE length(text) \in Nat
  BY CalmIsText, LengthAdds
<1>5. checklist_lines(items, budget)
         = IF TruncationItem \notin Range(items) /\ length(bullets(Len(items))) <= budget
           THEN bullets(Len(items))
           ELSE cut \o CHECKLIST_TRUNCATED_ES
  BY DEF checklist_lines
<1>6. kept \in 0 .. Len(items) /\ (kept = 0 \/ kept \in Fit)
  <2>1. Fit \subseteq 1 .. Len(items)
    OBVIOUS
  <2>2. IsFiniteSet(Fit)
    <3>1. IsFiniteSet(1 .. Len(items))
      BY <1>1, FS_Interval
    <3>. HIDE DEF Fit
    <3>. QED  BY <2>1, <3>1, FS_Subset
  <2>. HIDE DEF Fit
  <2>3. {0} \cup Fit \in SUBSET Int /\ {0} \cup Fit # {}
    BY <1>1, <2>1
  <2>4. IsFiniteSet({0} \cup Fit)
    <3>1. {0} \cup Fit = Fit \cup {0}
      OBVIOUS
    <3>. QED  BY <2>2, <3>1, FS_AddElement
  <2>5. kept \in {0} \cup Fit
    BY <2>3, <2>4, MaxIsTaken
  <2>. HIDE DEF kept
  <2>. QED  BY <1>1, <2>1, <2>5
<1>. HIDE DEF kept
<1>7. cut \in Seq(CalmToken) /\ length(cut) <= room
  <2>1. cut \in Seq(CalmToken)
    BY <1>3, <1>6
  <2>2. CASE kept = 0
    <3>. DEFINE none == [i \in 1 .. 0 |-> item_bullet(items[i])]
    <3>1. none = <<>>
      OBVIOUS
    <3>2. cut = <<>>
      BY <2>2, <3>1 DEF FlattenSeq
    <3>3. <<>> \in Seq(TextToken) /\ <<>> \o <<>> = <<>>
      OBVIOUS
    <3>4. length(<<>>) \in Nat /\ length(<<>>) = length(<<>>) + length(<<>>)
      BY <3>3, LengthAdds
    <3>5. length(CHECKLIST_TRUNCATED_ES) \in Nat
      BY <1>2, <1>4
    <3>. QED  BY <2>1, <3>2, <3>4, <3>5
  <2>3. CASE kept \in Fit
    BY <2>1, <2>3
  <2>. QED  BY <1>6, <2>2, <2>3
<1>. HIDE DEF cut
<1>8. /\ cut \o CHECKLIST_TRUNCATED_ES \in Seq(CalmToken)
      /\ length(cut \o CHECKLIST_TRUNCATED_ES) <= budget
  <2>1. cut \o CHECKLIST_TRUNCATED_ES \in Seq(CalmToken)
    BY <1>2, <1>7, ConcatProperties
  <2>2. length(cut \o CHECKLIST_TRUNCATED_ES) = length(cut) + length(CHECKLIST_TRUNCATED_ES)
    BY <1>2, <1>7, CalmIsText, LengthAdds
  <2>3. length(cut) \in Nat /\ length(CHECKLIST_TRUNCATED_ES) \in Nat
    BY <1>2, <1>4, <1>7
  <2>. QED  BY <1>7, <2>1, <2>2, <2>3
<1>9. bullets(Len(items)) \in Seq(CalmToken)
  BY <1>1, <1>3
<1>. HIDE DEF bullets
<1>. QED  BY <1>5, <1>8, <1>9

\* A heading is a line with that header in it, once, and no other.
LEMMA HeadingLine ==
    ASSUME NEW h \in SECTION_HEADERS
    PROVE  /\ Line(<<Header(h)>>) \in Seq(TextToken)
           /\ AtMostOnce(Line(<<Header(h)>>), Header(h))
           /\ \A token : token \notin {NewLine, Header(h)} => Free(Line(<<Header(h)>>), token)
<1>. DEFINE heading == Header(h)
<1>1. NewLine \in TextToken /\ heading \in TextToken /\ NewLine # heading
  BY Phrases DEF CalmToken, NewLine, Token, Header
<1>. HIDE DEF heading
<1>. DEFINE first == <<NewLine>>
            second == <<heading>>
            line == first \o second
<1>2. Line(<<heading>>) = line
  BY DEF Line
<1>3. /\ line \in Seq(TextToken) /\ DOMAIN line = 1 .. 2
      /\ line[1] = NewLine /\ line[2] = heading
  <2>1. first \in Seq(TextToken) /\ Len(first) = 1 /\ first[1] = NewLine
        /\ second \in Seq(TextToken) /\ Len(second) = 1 /\ second[1] = heading
    BY <1>1
  <2>. HIDE DEF first, second
  <2>2. /\ line \in Seq(TextToken) /\ Len(line) = Len(first) + Len(second)
        /\ \A i \in 1 .. Len(first) + Len(second) :
              line[i] = IF i <= Len(first) THEN first[i] ELSE second[i - Len(first)]
    <3>1. first \in Seq(TextToken) /\ second \in Seq(TextToken)
      BY <2>1
    <3>. QED  BY <3>1, ConcatProperties
  <2>. HIDE DEF line
  <2>3. 1 + 1 = 2 /\ 2 - 1 = 1 /\ 1 \in 1 .. 2 /\ 2 \in 1 .. 2 /\ ~ (2 <= 1)
    OBVIOUS
  <2>. QED  BY <2>1, <2>2, <2>3
<1>. HIDE DEF line
<1>4. AtMostOnce(line, heading)
  BY <1>1, <1>3 DEF AtMostOnce
<1>5. \A token : token \notin {NewLine, heading} => Free(line, token)
  BY <1>3 DEF Free
<1>. QED  BY <1>2, <1>3, <1>4, <1>5 DEF heading

\* What is special about the headings and the characters a text may not hold.
LEMMA Special ==
    ASSUME NEW h \in SECTION_HEADERS, NEW other \in SECTION_HEADERS
    PROVE  /\ h # other => Header(h) # Header(other)
           /\ {Control, Foreign} \cap {NewLine, Header(h)} = {}
           /\ Header(h) # NewLine
  BY DEF Header, Control, Foreign, NewLine, Token

\* The part of the body before the recommendations has the city and the
\* heading of the reasons once, and nothing that forges another.
LEMMA Evaluation ==
    ASSUME NEW request \in MessageRequest
    PROVE  /\ evaluation(request) \in Seq(TextToken)
           /\ Has(evaluation(request), Span(request.city))
           /\ AtMostOnce(evaluation(request), Header("Motivos:"))
           /\ \A token \in {Header("Recomendaciones:"), Control, Foreign} : Free(evaluation(request), token)
<1>. DEFINE opening == <<Word, Span(request.city)>> \o Line(<<Glue, Word>>)
            period == <<Word, Glue>> \o Moment(request.window.start) \o <<Glue>>
                      \o Moment(request.window.end) \o <<Word, Word, Span(request.timezone)>>
            reasons == reason_lines(request.reasons)
            down == down_lines(request)
            motives == Line(<<Header("Motivos:")>>)
<1>1. /\ request.city \in SuppliedString /\ request.timezone \in SuppliedString
      /\ request.window \in TimeWindow /\ request.reasons \in Seq(Reason)
  BY DEF MessageRequest
<1>2. opening \in Seq(CalmToken) /\ Has(opening, Span(request.city))
  <2>1. <<Word, Span(request.city)>> \in Seq(CalmToken) /\ <<Glue, Word>> \in Seq(CalmToken)
    BY <1>1, Phrases
  <2>2. Has(<<Word, Span(request.city)>>, Span(request.city))
    BY DEF Has
  <2>3. Line(<<Glue, Word>>) \in Seq(CalmToken)
    BY <2>1, LineIsCalm
  <2>. QED  BY <2>1, <2>2, <2>3, Concatenated, ConcatProperties
<1>3. Line(period) \in Seq(CalmToken)
  <2>. DEFINE start == Moment(request.window.start)
              end == Moment(request.window.end)
              place == <<Word, Word, Span(request.timezone)>>
  <2>1. request.window.start \in Int /\ request.window.end \in Int
    BY <1>1 DEF TimeWindow
  <2>2. start \in Seq(CalmToken) /\ end \in Seq(CalmToken)
    BY <2>1, MomentIsCalm
  <2>3. /\ <<Word, Glue>> \in Seq(CalmToken) /\ <<Glue>> \in Seq(CalmToken)
        /\ place \in Seq(CalmToken)
    BY <1>1, Phrases
  <2>. HIDE DEF start, end, place
  <2>4. <<Word, Glue>> \o start \in Seq(CalmToken)
    BY <2>2, <2>3, ConcatProperties
  <2>5. (<<Word, Glue>> \o start) \o <<Glue>> \in Seq(CalmToken)
    BY <2>3, <2>4, ConcatProperties
  <2>6. ((<<Word, Glue>> \o start) \o <<Glue>>) \o end \in Seq(CalmToken)
    BY <2>2, <2>5, ConcatProperties
  <2>7. (((<<Word, Glue>> \o start) \o <<Glue>>) \o end) \o place \in Seq(CalmToken)
    BY <2>3, <2>6, ConcatProperties
  <2>8. period \in Seq(CalmToken)
    BY <2>7 DEF start, end, place
  <2>. HIDE DEF period
  <2>. QED  BY <2>8, LineIsCalm
<1>4. evaluation(request) = ((opening \o Line(period)) \o reasons) \o down
  BY DEF evaluation
<1>5. down \in Seq(CalmToken)
  BY DownLines
<1>6. /\ reasons \in Seq(TextToken)
      /\ AtMostOnce(reasons, Header("Motivos:"))
      /\ \A token \in {Header("Recomendaciones:"), Control, Foreign} : Free(reasons, token)
  <2>1. {"Motivos:", "Recomendaciones:"} \subseteq SECTION_HEADERS
    BY DEF SECTION_HEADERS
  <2>2. CASE reasons = <<>>
    <3>. HIDE DEF reasons
    <3>1. reasons \in Seq(CalmToken)
      BY <2>2
    <3>. QED  BY <2>1, <3>1, CalmIsText, CalmIsFree, FreeIsAtMostOnce
  <2>3. CASE \E bullets \in Seq(CalmToken) : reasons = motives \o bullets
    <3>. HIDE DEF reasons
    <3>1. PICK bullets \in Seq(CalmToken) : reasons = motives \o bullets
      BY <2>3
    <3>2. /\ motives \in Seq(TextToken)
          /\ AtMostOnce(motives, Header("Motivos:"))
          /\ \A token \in {Header("Recomendaciones:"), Control, Foreign} : Free(motives, token)
      BY <2>1, HeadingLine, Special
    <3>. HIDE DEF motives
    <3>3. /\ bullets \in Seq(TextToken)
          /\ \A token \in {Header("Motivos:"), Header("Recomendaciones:"), Control, Foreign} :
                Free(bullets, token)
      BY <2>1, CalmIsText, CalmIsFree
    <3>. QED  BY <3>1, <3>2, <3>3, Concatenated, ConcatProperties
  <2>. QED  BY <1>1, <2>2, <2>3, ReasonLines
<1>. HIDE DEF opening, period, reasons, down
<1>7. /\ opening \in Seq(TextToken) /\ Line(period) \in Seq(TextToken) /\ down \in Seq(TextToken)
      /\ \A token \in {Header("Motivos:"), Header("Recomendaciones:"), Control, Foreign} :
            Free(opening, token) /\ Free(Line(period), token) /\ Free(down, token)
  <2>1. {"Motivos:", "Recomendaciones:"} \subseteq SECTION_HEADERS
    BY DEF SECTION_HEADERS
  <2>. QED  BY <1>2, <1>3, <1>5, <2>1, CalmIsText, CalmIsFree
<1>8. /\ opening \o Line(period) \in Seq(TextToken)
      /\ Has(opening \o Line(period), Span(request.city))
      /\ \A token \in {Header("Motivos:"), Header("Recomendaciones:"), Control, Foreign} :
            Free(opening \o Line(period), token)
  BY <1>2, <1>7, Concatenated, ConcatProperties
<1>9. /\ (opening \o Line(period)) \o reasons \in Seq(TextToken)
      /\ Has((opening \o Line(period)) \o reasons, Span(request.city))
      /\ AtMostOnce((opening \o Line(period)) \o reasons, Header("Motivos:"))
      /\ \A token \in {Header("Recomendaciones:"), Control, Foreign} :
            Free((opening \o Line(period)) \o reasons, token)
  BY <1>6, <1>8, Concatenated, ConcatProperties
<1>. QED  BY <1>4, <1>7, <1>9, Concatenated, ConcatProperties

\* Whatever there is to say, the template's body names the city, holds each
\* heading once, has none of the characters a body may not have, and, where
\* the evaluation leaves room for it, is as long as a body may be.
LEMMA TemplateFits ==
    ASSUME NEW request \in MessageRequest,
           length(evaluation(request)) + length(Line(<<Header("Recomendaciones:")>>))
              + length(CHECKLIST_TRUNCATED_ES) <= MaxBodyLength
    PROVE  /\ body_of(request) \in Seq(TextToken)
           /\ Has(body_of(request), Span(request.city))
           /\ length(body_of(request)) <= MaxBodyLength
           /\ \A h \in SECTION_HEADERS : AtMostOnce(body_of(request), Header(h))
           /\ Free(body_of(request), Control) /\ Free(body_of(request), Foreign)
<1>. DEFINE found == evaluation(request)
            heading == Line(<<Header("Recomendaciones:")>>)
            above == found \o heading
            items == checklist_lines(request.checklist, MaxBodyLength - length(above))
<1>1. /\ found \in Seq(TextToken) /\ Has(found, Span(request.city))
      /\ AtMostOnce(found, Header("Motivos:"))
      /\ \A token \in {Header("Recomendaciones:"), Control, Foreign} : Free(found, token)
  BY Evaluation
<1>2. /\ SECTION_HEADERS = {"Motivos:", "Recomendaciones:"}
      /\ heading \in Seq(TextToken)
      /\ AtMostOnce(heading, Header("Recomendaciones:"))
      /\ \A token \in {Header("Motivos:"), Control, Foreign} : Free(heading, token)
  <2>1. {"Motivos:", "Recomendaciones:"} = SECTION_HEADERS
    BY DEF SECTION_HEADERS
  <2>. QED  BY <2>1, HeadingLine, Special
<1>3. CHECKLIST_TRUNCATED_ES \in Seq(TextToken)
  <2>1. <<Bullet, Glue, Word, Word>> \in Seq(CalmToken)
    BY Phrases
  <2>. QED  BY <2>1, LineIsCalm, CalmIsText DEF CHECKLIST_TRUNCATED_ES
<1>4. /\ length(found) \in Nat /\ length(heading) \in Nat /\ length(CHECKLIST_TRUNCATED_ES) \in Nat
      /\ length(above) = length(found) + length(heading)
      /\ MaxBodyLength \in Nat
      /\ length(found) + length(heading) + length(CHECKLIST_TRUNCATED_ES) <= MaxBodyLength
  BY <1>1, <1>2, <1>3, LengthAdds, LengthAssumption
<1>5. body_of(request) = IF request.checklist = <<>> THEN found ELSE above \o items
  BY DEF body_of
<1>. HIDE DEF found, heading
<1>6. CASE request.checklist = <<>>
  <2>1. AtMostOnce(found, Header("Recomendaciones:"))
    BY <1>1, FreeIsAtMostOnce
  <2>. QED  BY <1>1, <1>2, <1>4, <1>5, <1>6, <2>1
<1>7. CASE request.checklist # <<>>
  <2>1. /\ above \in Seq(TextToken) /\ Has(above, Span(request.city))
        /\ AtMostOnce(above, Header("Motivos:")) /\ AtMostOnce(above, Header("Recomendaciones:"))
        /\ Free(above, Control) /\ Free(above, Foreign)
    BY <1>1, <1>2, Concatenated, ConcatProperties
  <2>2. items \in Seq(CalmToken) /\ length(items) <= MaxBodyLength - length(above)
    <3>. DEFINE budget == MaxBodyLength - length(above)
    <3>1. budget \in Int /\ length(CHECKLIST_TRUNCATED_ES) <= budget
      BY <1>4
    <3>2. request.checklist \in Seq(SuppliedString)
      BY DEF MessageRequest
    <3>. HIDE DEF budget
    <3>3. /\ checklist_lines(request.checklist, budget) \in Seq(CalmToken)
          /\ length(checklist_lines(request.checklist, budget)) <= budget
      BY <3>1, <3>2, ChecklistFits
    <3>. QED  BY <3>3 DEF budget
  <2>. HIDE DEF above, items
  <2>3. /\ items \in Seq(TextToken)
        /\ \A token \in {Header("Motivos:"), Header("Recomendaciones:"), Control, Foreign} : Free(items, token)
    BY <1>2, <2>2, CalmIsText, CalmIsFree
  <2>4. /\ above \o items \in Seq(TextToken) /\ Has(above \o items, Span(request.city))
        /\ AtMostOnce(above \o items, Header("Motivos:"))
        /\ AtMostOnce(above \o items, Header("Recomendaciones:"))
        /\ Free(above \o items, Control) /\ Free(above \o items, Foreign)
    BY <2>1, <2>3, Concatenated, ConcatProperties
  <2>5. length(above \o items) = length(above) + length(items) /\ length(items) \in Nat
        /\ length(above) \in Nat
    BY <2>1, <2>3, LengthAdds
  <2>. QED  BY <1>2, <1>4, <1>5, <1>7, <2>2, <2>4, <2>5
<1>. QED  BY <1>6, <1>7

-----------------------------------------------------------------------------
(* Where a phrase stands. *)

\* A phrase stands past place q, between tokens that neither measure nor are
\* measured.
Inside(text, q, phrase) ==
    /\ q \in Nat \ {0} /\ q + Len(phrase) + 1 <= Len(text)
    /\ text[q] \in {Connector, NewLine}
    /\ \A j \in 1 .. Len(phrase) : text[q + j] = phrase[j]
    /\ text[q + Len(phrase) + 1] \in {Connector, Stop}

\* No token of a phrase is a string of the system's.
Unsupplied(phrase) == \A j \in DOMAIN phrase : phrase[j].kind # "span"

\* What the rules make of each token of a text on its own: a token that is
\* no string of the system's is kept.
Kept(text, seqs) ==
    /\ Len(seqs) = Len(text)
    /\ \A k \in 1 .. Len(text) : text[k].kind # "span" => seqs[k] = <<text[k]>>

\* What stands in a part stands in the whole.
LEMMA InsideWhole ==
    ASSUME NEW T, NEW u \in Seq(T), NEW v \in Seq(T), NEW phrase \in Seq(T), NEW q
    PROVE  /\ Inside(u, q, phrase) => Inside(u \o v, q, phrase)
           /\ Inside(v, q, phrase) => Inside(u \o v, Len(u) + q, phrase)
<1>. DEFINE w == u \o v
            m == Len(phrase)
            l == Len(u)
<1>1. /\ l \in Nat /\ Len(v) \in Nat /\ m \in Nat /\ Len(w) = l + Len(v)
      /\ \A i \in 1 .. l + Len(v) : w[i] = IF i <= l THEN u[i] ELSE v[i - l]
  BY ConcatProperties
<1>2. ASSUME Inside(u, q, phrase) PROVE Inside(w, q, phrase)
  <2>1. /\ q \in Nat \ {0} /\ q + m + 1 <= l
        /\ u[q] \in {Connector, NewLine} /\ u[q + m + 1] \in {Connector, Stop}
        /\ \A j \in 1 .. m : u[q + j] = phrase[j]
    BY <1>2 DEF Inside
  <2>. HIDE DEF w, m, l
  <2>2. ASSUME NEW k \in 0 .. m + 1 PROVE w[q + k] = u[q + k]
    <3>1. q + k \in 1 .. l + Len(v) /\ q + k <= l
      BY <1>1, <2>1
    <3>. QED  BY <1>1, <3>1
  <2>3. /\ 0 \in 0 .. m + 1 /\ m + 1 \in 0 .. m + 1 /\ q + 0 = q /\ q + (m + 1) = q + m + 1
        /\ 1 .. m \subseteq 0 .. m + 1
    BY <1>1, <2>1
  <2>4. w[q] = u[q] /\ w[q + m + 1] = u[q + m + 1] /\ \A j \in 1 .. m : w[q + j] = u[q + j]
    BY <2>2, <2>3
  <2>5. q + m + 1 <= Len(w)
    BY <1>1, <2>1
  <2>. QED  BY <2>1, <2>4, <2>5 DEF Inside, m
<1>3. ASSUME Inside(v, q, phrase) PROVE Inside(w, l + q, phrase)
  <2>1. /\ q \in Nat \ {0} /\ q + m + 1 <= Len(v)
        /\ v[q] \in {Connector, NewLine} /\ v[q + m + 1] \in {Connector, Stop}
        /\ \A j \in 1 .. m : v[q + j] = phrase[j]
    BY <1>3 DEF Inside
  <2>. HIDE DEF w, m, l
  <2>2. ASSUME NEW k \in 0 .. m + 1 PROVE w[(l + q) + k] = v[q + k]
    <3>1. (l + q) + k \in 1 .. l + Len(v) /\ ~ ((l + q) + k <= l) /\ ((l + q) + k) - l = q + k
      BY <1>1, <2>1
    <3>. QED  BY <1>1, <3>1
  <2>3. /\ 0 \in 0 .. m + 1 /\ m + 1 \in 0 .. m + 1 /\ q + 0 = q /\ q + (m + 1) = q + m + 1
        /\ (l + q) + 0 = l + q /\ (l + q) + (m + 1) = (l + q) + m + 1
        /\ 1 .. m \subseteq 0 .. m + 1
    BY <1>1, <2>1
  <2>4. w[l + q] = v[q] /\ w[(l + q) + m + 1] = v[q + m + 1]
    <3>1. w[(l + q) + 0] = v[q + 0] /\ w[(l + q) + (m + 1)] = v[q + (m + 1)]
      BY <2>2, <2>3
    <3>. QED  BY <2>3, <3>1
  <2>6. \A j \in 1 .. m : w[(l + q) + j] = v[q + j]
    BY <2>2, <2>3
  <2>5. l + q \in Nat \ {0} /\ (l + q) + m + 1 <= Len(w)
    <3>1. /\ l \in Nat /\ m \in Nat /\ q \in Nat /\ q # 0 /\ Len(v) \in Nat
          /\ Len(w) = l + Len(v) /\ q + m + 1 <= Len(v)
      BY <1>1, <2>1
    <3>. QED  BY <3>1
  <2>. QED  BY <2>1, <2>4, <2>5, <2>6 DEF Inside, m
<1>. QED  BY <1>2, <1>3

\* A phrase past place q stands p places further on once its text is flat.
Moved(seqs, ends, q, phrase, p) ==
    /\ Inside(FlattenSeq(seqs), p + q, phrase)
    /\ \A k \in q .. q + Len(phrase) + 1 : ends[k] = p + k

\* A phrase with no string of the system's is left where it stands.
LEMMA InsideFlat ==
    ASSUME NEW T, NEW text \in Seq(TextToken), NEW seqs \in Seq(Seq(T)), NEW ends,
           PartsEnd(seqs, ends), Kept(text, seqs),
           NEW phrase \in Seq(TextToken), Unsupplied(phrase), NEW q, Inside(text, q, phrase)
    PROVE  \E p \in Int : Moved(seqs, ends, q, phrase, p)
<1>. DEFINE m == Len(phrase)
            n == Len(seqs)
            flat == FlattenSeq(seqs)
            z == q + m + 1
<1>1. /\ q \in Nat \ {0} /\ z <= n /\ m \in Nat /\ n \in Nat
      /\ text[q] \in {Connector, NewLine} /\ text[z] \in {Connector, Stop}
      /\ \A j \in 1 .. m : text[q + j] = phrase[j]
  BY LenProperties DEF Inside, Kept
<1>2. \A k \in q .. z : text[k].kind # "span"
  <2>1. text[q].kind # "span" /\ text[z].kind # "span"
    BY <1>1 DEF Connector, NewLine, Stop, Token
  <2>2. ASSUME NEW k \in q .. z, k # q, k # z PROVE text[k].kind # "span"
    <3>0. q \in Nat /\ m \in Nat /\ z = q + m + 1
      BY <1>1
    <3>1. k - q \in 1 .. m /\ q + (k - q) = k
      <4>. HIDE DEF z, m
      <4>. QED  BY <2>2, <3>0
    <3>2. DOMAIN phrase = 1 .. m
      BY LenProperties
    <3>3. text[k] = phrase[k - q]
      BY <1>1, <3>1
    <3>. QED  BY <3>1, <3>2, <3>3 DEF Unsupplied
  <2>. QED  BY <2>1, <2>2
<1>. HIDE DEF m, n, z, flat
<1>3. q \in 1 .. n /\ z \in q .. n
  BY <1>1 DEF z
<1>4. ASSUME NEW k \in q .. z PROVE seqs[k] = <<text[k]>>
  <2>1. k \in 1 .. n /\ n = Len(text)
    BY <1>1, <1>3 DEF Kept, n
  <2>. QED  BY <1>2, <2>1 DEF Kept
<1>5. ASSUME NEW k \in q .. z PROVE Len(seqs[k]) = 1 /\ seqs[k][1] = text[k]
  <2>1. Len(<<text[k]>>) = 1 /\ <<text[k]>>[1] = text[k]
    OBVIOUS
  <2>. QED  BY <1>4, <2>1
<1>6. Single(seqs, q, z)
  BY <1>5 DEF Single
<1>7. PICK p \in Int : Together(seqs, ends, q, z, p)
  <2>1. q \in 1 .. Len(seqs) /\ z \in q .. Len(seqs)
    BY <1>3 DEF n
  <2>. QED  BY <1>6, <2>1, RunsStay
<1>15. \A k \in q .. z :
          ends[k] = p + k /\ p + k \in 1 .. Len(flat) /\ flat[p + k] = seqs[k][1]
  BY <1>7 DEF Together, flat
<1>8. \A k \in q .. z : flat[p + k] = text[k]
  BY <1>5, <1>15
<1>9. /\ q \in q .. z /\ z \in q .. z /\ p + z = (p + q) + m + 1
      /\ \A j \in 1 .. m : q + j \in q .. z /\ p + (q + j) = (p + q) + j
  BY <1>1, <1>15 DEF z
<1>10. /\ p + q \in Nat \ {0} /\ (p + q) + m + 1 <= Len(flat)
  <2>1. p + q \in 1 .. Len(flat) /\ p + z \in 1 .. Len(flat)
    BY <1>15, <1>9
  <2>. QED  BY <1>9, <2>1
<1>11. /\ flat[p + q] = text[q] /\ flat[(p + q) + m + 1] = text[z]
       /\ \A j \in 1 .. m : flat[(p + q) + j] = text[q + j]
  BY <1>8, <1>9
<1>12. /\ flat[p + q] \in {Connector, NewLine} /\ flat[(p + q) + m + 1] \in {Connector, Stop}
       /\ \A j \in 1 .. m : flat[(p + q) + j] = phrase[j]
  BY <1>1, <1>11
<1>13. Inside(flat, p + q, phrase)
  BY <1>10, <1>12 DEF Inside, m
<1>. QED  BY <1>15, <1>13 DEF Moved, flat, z, m

\* What may be read of a draft, whoever wrote it: two texts.
Written(d) == d.title \in Seq(TextToken) /\ d.body \in Seq(TextToken)

\* What the model wrote of its own holds whatever it wrote of its own.
LEMMA InResidue ==
    ASSUME NEW r, NEW d, Written(d), NEW phrase \in Seq(TextToken), Unsupplied(phrase), NEW q,
           Inside(d.body, q, phrase)
    PROVE  /\ residue(r, d) \in Seq(PlainToken)
           /\ \E at : Inside(residue(r, d), at, phrase)
<1>. DEFINE start == d.title \o <<NewLine>>
            text == start \o d.body
            part(i) == IF text[i].kind # "span" THEN <<text[i]>>
                       ELSE IF verbatim(r, text, i) THEN <<>>
                       ELSE text[i].of.text
            seqs == [i \in DOMAIN text |-> part(i)]
<1>1. start \in Seq(TextToken) /\ d.body \in Seq(TextToken)
  <2>1. <<NewLine>> \in Seq(TextToken)
    BY Phrases DEF CalmToken
  <2>. QED  BY <2>1, ConcatProperties DEF Written
<1>2. residue(r, d) = FlattenSeq(seqs)
  BY DEF residue
<1>3. Inside(text, Len(start) + q, phrase) /\ text \in Seq(TextToken)
  <2>. DEFINE body == d.body
  <2>. HIDE DEF start, body
  <2>1. start \in Seq(TextToken) /\ body \in Seq(TextToken) /\ Inside(body, q, phrase)
    BY <1>1 DEF body
  <2>2. Inside(start \o body, Len(start) + q, phrase) /\ start \o body \in Seq(TextToken)
    BY <2>1, InsideWhole, ConcatProperties
  <2>. QED  BY <2>2 DEF body
<1>. HIDE DEF start, text
<1>4. DOMAIN text = 1 .. Len(text) /\ Len(text) \in Nat /\ \A i \in 1 .. Len(text) : text[i] \in TextToken
  BY <1>3, LenProperties
<1>5. ASSUME NEW i \in 1 .. Len(text) PROVE part(i) \in Seq(PlainToken)
  <2>1. text[i] \in TextToken
    BY <1>4
  <2>2. CASE text[i].kind # "span"
    <3>1. text[i] \in PlainToken
      BY <2>1, <2>2 DEF TextToken
    <3>. QED  BY <2>2, <3>1
  <2>3. CASE text[i].kind = "span"
    <3>1. text[i].of \in SuppliedString
      BY <2>1, <2>3 DEF TextToken, PlainToken
    <3>2. text[i].of.text \in Seq(PlainToken)
      BY <3>1 DEF SuppliedString
    <3>. QED  BY <2>3, <3>2
  <2>. QED  BY <2>2, <2>3
<1>6. /\ seqs \in Seq(Seq(PlainToken)) /\ Len(seqs) = Len(text)
      /\ \A i \in 1 .. Len(text) : seqs[i] = part(i)
  <2>. HIDE DEF part
  <2>. QED  BY <1>4, <1>5
<1>7. Kept(text, seqs)
  <2>1. ASSUME NEW i \in 1 .. Len(text), text[i].kind # "span" PROVE part(i) = <<text[i]>>
    BY <2>1
  <2>. HIDE DEF part, seqs
  <2>. QED  BY <1>6, <2>1 DEF Kept
<1>. HIDE DEF seqs
<1>8. PICK ends : PartsEnd(seqs, ends)
  BY <1>6, FlattenedPlaces
<1>9. \E p \in Int : Inside(FlattenSeq(seqs), p + (Len(start) + q), phrase)
  <2>. DEFINE at == Len(start) + q
  <2>1. Inside(text, at, phrase)
    BY <1>3
  <2>. HIDE DEF at
  <2>2. \E p \in Int : Moved(seqs, ends, at, phrase, p)
    BY <1>3, <1>6, <1>7, <1>8, <2>1, InsideFlat
  <2>. QED  BY <2>2 DEF at, Moved
<1>10. FlattenSeq(seqs) \in Seq(PlainToken)
  BY <1>6, FlattenedPlaces
<1>. QED  BY <1>2, <1>9, <1>10

\* What a phrase that stands somewhere says, place by place, of the text.
Spread(text, q, phrase) ==
    /\ q \in Nat \ {0} /\ Len(text) \in Nat /\ Len(phrase) \in Nat
    /\ q + Len(phrase) + 1 <= Len(text)
    /\ DOMAIN text = 1 .. Len(text) /\ DOMAIN phrase = 1 .. Len(phrase)
    /\ \A j \in 1 .. Len(phrase) : q + j \in 1 .. Len(text) /\ text[q + j] = phrase[j]
    /\ \A k \in 1 .. Len(text) : text[k] \in PlainToken

\* A phrase that stands in a text says so of it, place by place.
LEMMA Places ==
    ASSUME NEW text \in Seq(PlainToken), NEW phrase \in Seq(TextToken), NEW q, Inside(text, q, phrase)
    PROVE  Spread(text, q, phrase)
<1>1. /\ Len(text) \in Nat /\ Len(phrase) \in Nat /\ DOMAIN text = 1 .. Len(text)
      /\ DOMAIN phrase = 1 .. Len(phrase) /\ \A k \in 1 .. Len(text) : text[k] \in PlainToken
  BY LenProperties
<1>2. /\ q \in Nat \ {0} /\ q + Len(phrase) + 1 <= Len(text)
      /\ \A j \in 1 .. Len(phrase) : text[q + j] = phrase[j]
  BY DEF Inside
<1>3. \A j \in 1 .. Len(phrase) : q + j \in 1 .. Len(text)
  BY <1>1, <1>2
<1>. QED  BY <1>1, <1>2, <1>3 DEF Spread

\* What a clause implies is one of three units, or none.
LEMMA ImpliedUnit ==
    ASSUME NEW text \in Seq(PlainToken), NEW k \in 1 .. Len(text)
    PROVE  unit_implied_before(text, k) \in {{}, {"mm"}, {"%"}, {"h"}}
<1>. DEFINE units == {j \in clause_before(text, k) :
                        \/ text[j].kind = "noun"
                        \/ text[j].kind = "unit" /\ text[j].unit \in {"mm", "h"}}
<1>1. /\ Len(text) \in Nat /\ \A j \in 1 .. Len(text) : text[j] \in PlainToken
  BY LenProperties
<1>2. units \subseteq 1 .. k - 1 /\ 1 .. k - 1 \subseteq 1 .. Len(text)
  BY <1>1 DEF clause_before
<1>3. \A j \in units : text[j].unit \in {"mm", "%", "h"}
  <2>1. ASSUME NEW j \in units PROVE text[j].unit \in {"mm", "%", "h"}
    <3>1. text[j] \in PlainToken
      BY <1>1, <1>2
    <3>. QED  BY <3>1 DEF PlainToken
  <2>. QED  BY <2>1
<1>4. unit_implied_before(text, k) = IF units = {} THEN {} ELSE {text[Max(units)].unit}
  BY DEF unit_implied_before
<1>. HIDE DEF units
<1>5. CASE units # {}
  <2>1. IsFiniteSet(1 .. k - 1)
    BY <1>1, FS_Interval
  <2>2. IsFiniteSet(units) /\ units \in SUBSET Int
    <3>1. 1 .. k - 1 \subseteq Int
      BY <1>1
    <3>. QED  BY <1>2, <2>1, <3>1, FS_Subset
  <2>3. Max(units) \in units
    BY <1>5, <2>2, MaxIsTaken
  <2>. QED  BY <1>3, <1>4, <1>5, <2>3
<1>. QED  BY <1>4, <1>5

-----------------------------------------------------------------------------
(* What is said in SENAMHI's name. *)

\* A statement holds its mention, and what follows it in the statement.
LEMMA Scope ==
    ASSUME NEW T, NEW text \in Seq(T), NEW i \in 1 .. Len(text), text[i] = Senamhi
    PROVE  LET scope == attribution_scope(text, i)
           IN  /\ scope \in SUBSET (1 .. Len(text)) /\ IsFiniteSet(scope) /\ i \in scope
               /\ \A j \in scope : text[j] # NewLine /\ (j > i => goes_on(text, i, j))
               /\ \A j \in i + 1 .. Len(text) :
                     text[j] # NewLine /\ goes_on(text, i, j) => j \in scope
<1>. DEFINE mentions == {m \in 1 .. i : SaysSenamhi(text[m]) /\ goes_on(text, m, i)}
            first == Min(mentions)
            starts == {1} \cup {k + 1 : k \in {n \in 1 .. first - 1 : text[n] = NewLine}}
            start == Max(starts)
            scope == attribution_scope(text, i)
<1>1. i \in Nat /\ Len(text) \in Nat /\ i <= Len(text)
  BY LenProperties
<1>2. i \in mentions
  BY <1>1 DEF SaysSenamhi, goes_on
<1>3. first \in 1 .. i
  <2>1. IsFiniteSet(1 .. i) /\ mentions \subseteq 1 .. i /\ 1 .. i \subseteq Int
    BY <1>1, FS_Interval
  <2>. HIDE DEF mentions
  <2>2. IsFiniteSet(mentions) /\ mentions \in SUBSET Int
    BY <2>1, FS_Subset
  <2>. QED  BY <1>2, <2>1, <2>2, MinIsTaken
<1>. HIDE DEF first
<1>4. start \in 1 .. first
  <2>1. IsFiniteSet(1 .. first) /\ 1 .. first \subseteq Int /\ 1 \in starts
    BY <1>3, FS_Interval
  <2>2. starts \subseteq 1 .. first
    BY <1>3
  <2>. HIDE DEF starts
  <2>3. IsFiniteSet(starts) /\ starts \in SUBSET Int
    BY <2>1, <2>2, FS_Subset
  <2>. QED  BY <2>1, <2>2, <2>3, MaxIsTaken
<1>5. scope = {j \in start .. Len(text) : text[j] # NewLine /\ (j > i => goes_on(text, i, j))}
  BY DEF attribution_scope, line_start, first
<1>. HIDE DEF start, scope
<1>6. start \in Int /\ start <= i
  BY <1>1, <1>3, <1>4
<1>7. scope \in SUBSET (1 .. Len(text)) /\ IsFiniteSet(scope)
  <2>. DEFINE l == Len(text)
  <2>1. l \in Int /\ start \in Int
    BY <1>1, <1>6
  <2>2. scope \subseteq start .. l
    BY <1>5
  <2>. HIDE DEF l
  <2>3. IsFiniteSet(start .. l) /\ start .. l \subseteq Int
    BY <2>1, FS_Interval
  <2>4. start .. l \subseteq 1 .. l
    BY <1>3, <1>4, <2>1
  <2>. QED  BY <2>2, <2>3, <2>4, FS_Subset DEF l
<1>8. i \in scope
  <2>1. Senamhi # NewLine
    BY DEF Senamhi, NewLine, Token
  <2>. QED  BY <1>1, <1>5, <1>6, <2>1
<1>9. \A j \in i + 1 .. Len(text) : text[j] # NewLine /\ goes_on(text, i, j) => j \in scope
  <2>1. \A j \in i + 1 .. Len(text) : j \in start .. Len(text)
    BY <1>1, <1>6
  <2>. QED  BY <1>5, <2>1
<1>. QED  BY <1>5, <1>7, <1>8, <1>9 DEF scope

\* A word said after a mention with no stop nor point between them is in its clause,
\* unless the statement is left without an end.
LEMMA InItsClause ==
    ASSUME NEW T, NEW text \in Seq(T), NEW i \in 1 .. Len(text), NEW j \in i + 1 .. Len(text),
           text[i] = Senamhi, text[j] = Word,
           \A k \in i .. j : text[k].kind \notin {"span"} \cup (CLAUSE_BOUNDARIES \ {"newline"}),
           ended(text, i)
    PROVE  j \in senamhi_clause(text, i)
<1>. DEFINE scope == attribution_scope(text, i)
            last == Max(scope)
<1>1. i \in Nat /\ j \in Nat /\ i < j /\ j <= Len(text) /\ Len(text) \in Nat
  BY LenProperties
<1>2. /\ scope \in SUBSET (1 .. Len(text)) /\ IsFiniteSet(scope) /\ i \in scope
      /\ \A k \in scope : text[k] # NewLine /\ (k > i => goes_on(text, i, k))
      /\ \A k \in i + 1 .. Len(text) :
            text[k] # NewLine /\ goes_on(text, i, k) => k \in scope
  BY Scope
<1>. HIDE DEF scope
<1>3. last \in scope /\ last \in Int /\ i <= last
  <2>1. scope \in SUBSET Int /\ scope # {}
    BY <1>1, <1>2
  <2>. QED  BY <1>2, <2>1, MaxIsTaken
<1>4. ~ (last \in i .. j)
  <2>1. Terminates(text[last])
    BY DEF ended, last, scope
  <2>2. \A k \in i .. j : ~ Terminates(text[k])
    BY DEF Terminates, CLAUSE_BOUNDARIES, Stop, Token
  <2>. QED  BY <2>1, <2>2
<1>5. goes_on(text, i, last)
  BY <1>1, <1>2, <1>3, <1>4
<1>. HIDE DEF last
<1>6. goes_on(text, i, j)
  <2>1. \A k \in i .. j - 1 : k \in i .. last - 1
    BY <1>1, <1>3, <1>4
  <2>. QED  BY <1>5, <2>1 DEF goes_on
<1>7. j \in scope
  <2>1. Word # NewLine
    BY DEF Word, NewLine, Token
  <2>. QED  BY <1>2, <1>6, <2>1
<1>8. Min({i, j}) = i /\ Max({i, j}) = j
  BY <1>1, MinOfTwo, MaxOfTwo
<1>. QED  BY <1>7, <1>8 DEF senamhi_clause, scope

\* What a reader of SENAMHI's name has of each token of a text: itself, or
\* the words of a string that quotes nothing.
Spelled(r, text, seqs) ==
    /\ seqs \in Seq(Seq(TextToken)) /\ Kept(text, seqs)
    /\ \A k \in 1 .. Len(text) : \A j \in 1 .. Len(seqs[k]) :
          seqs[k][j].kind = "span" => j = 1 /\ Len(seqs[k]) = 1 /\ seqs[k][j] = text[k]

\* The form a reader of SENAMHI's name has is made of such parts.
LEMMA SpelledOut ==
    ASSUME NEW r, NEW text \in Seq(TextToken)
    PROVE  \E seqs : Spelled(r, text, seqs) /\ attribution_form(r, text) = FlattenSeq(seqs)
<1>. DEFINE worded(i) == text[i].kind = "span" /\ ~ Quoted(r, text[i]) /\ text[i].of # r.city
            part(i) == IF worded(i) THEN text[i].of.text ELSE <<text[i]>>
            seqs == [i \in DOMAIN text |-> part(i)]
<1>1. attribution_form(r, text) = FlattenSeq(seqs)
  BY DEF attribution_form
<1>2. DOMAIN text = 1 .. Len(text) /\ Len(text) \in Nat /\ \A i \in 1 .. Len(text) : text[i] \in TextToken
  BY LenProperties
<1>3. ASSUME NEW i \in 1 .. Len(text)
      PROVE  /\ part(i) \in Seq(TextToken)
             /\ text[i].kind # "span" => part(i) = <<text[i]>>
             /\ \A j \in 1 .. Len(part(i)) :
                   part(i)[j].kind = "span" => j = 1 /\ Len(part(i)) = 1 /\ part(i)[j] = text[i]
  <2>1. CASE worded(i)
    <3>. DEFINE words == text[i].of.text
    <3>1. text[i].of \in SuppliedString /\ text[i].kind = "span"
      BY <1>2, <2>1 DEF TextToken, PlainToken
    <3>2. words \in Seq(PlainToken)
      BY <3>1 DEF SuppliedString
    <3>3. part(i) = words
      BY <2>1
    <3>. HIDE DEF words, part
    <3>4. \A j \in 1 .. Len(words) : words[j] \in PlainToken
      BY <3>2
    <3>5. \A token \in PlainToken : token.kind # "span" /\ token \in TextToken
      BY DEF PlainToken, TextToken
    <3>6. words \in Seq(TextToken)
      BY <3>2, <3>5, SeqMonotonic
    <3>. QED  BY <3>1, <3>3, <3>4, <3>5, <3>6
  <2>2. CASE ~ worded(i)
    <3>1. part(i) = <<text[i]>>
      BY <2>2
    <3>2. text[i] \in TextToken
      BY <1>2
    <3>. HIDE DEF part
    <3>. QED  BY <3>1, <3>2
  <2>. QED  BY <2>1, <2>2
<1>4. /\ Len(seqs) = Len(text) /\ seqs \in Seq(Seq(TextToken))
      /\ \A i \in 1 .. Len(text) : seqs[i] = part(i)
  <2>. HIDE DEF part
  <2>. QED  BY <1>2, <1>3
<1>. HIDE DEF part, seqs
<1>5. Kept(text, seqs)
  BY <1>3, <1>4 DEF Kept
<1>6. Spelled(r, text, seqs)
  BY <1>3, <1>4, <1>5 DEF Spelled
<1>. QED  BY <1>1, <1>6

\* A stop is left where it stands.
LEMMA StopStays ==
    ASSUME NEW T, NEW text, NEW seqs \in Seq(Seq(T)), NEW ends, PartsEnd(seqs, ends),
           Kept(text, seqs), NEW k \in 1 .. Len(text), text[k] = Stop
    PROVE  FlattenSeq(seqs)[ends[k]] = Stop
<1>1. seqs[k] = <<Stop>> /\ k \in 1 .. Len(seqs)
  BY DEF Kept, Stop, Token
<1>2. Len(seqs[k]) = 1 /\ seqs[k][1] = Stop
  BY <1>1
<1>3. ends[k] = ends[k - 1] + 1
  BY <1>1, <1>2 DEF PartsEnd
<1>4. FlattenSeq(seqs)[ends[k - 1] + 1] = Stop
  <2>1. 1 \in 1 .. Len(seqs[k])
    BY <1>2
  <2>2. FlattenSeq(seqs)[ends[k - 1] + 1] = seqs[k][1]
    BY <1>1, <2>1 DEF PartsEnd
  <2>. QED  BY <1>2, <2>2
<1>. QED  BY <1>3, <1>4

\* The elements of a finite set, each once.
LEMMA SetToSeqTyped ==
    ASSUME NEW T, NEW S \in SUBSET T, IsFiniteSet(S)
    PROVE  SetToSeq(S) \in Seq(T) /\ Range(SetToSeq(S)) \subseteq S
<1>. DEFINE n == Cardinality(S)
            list == SetToSeq(S)
<1>1. n \in Nat /\ ExistsBijection(1 .. n, S)
  BY FS_CardinalityType
<1>2. PICK f : f \in Bijection(1 .. n, S)
  BY <1>1 DEF ExistsBijection
<1>3. f \in [1 .. n -> S] /\ IsInjective(f)
  BY <1>2 DEF Bijection, Injection
<1>4. list \in [1 .. n -> S]
  BY <1>3 DEF SetToSeq
<1>. HIDE DEF n, list
<1>5. list \in [1 .. n -> T]
  BY <1>4
<1>. QED  BY <1>1, <1>4, <1>5 DEF list, Range

-----------------------------------------------------------------------------
(* What the template writes is the request's. *)

\* What a text counts, dates and quotes is the request's: a figure states its
\* unit and is of that quantity, a date is one of the request's, a time one of
\* its instants' or of the prior alert whose date it follows, and a string of
\* the system's is one of the request's.
Given(r, text) ==
    \A i \in DOMAIN text :
        /\ text[i].kind \notin {"numeral", "ordinal", "prose"}
        /\ IsFigure(text[i]) =>
              /\ i + 1 \in DOMAIN text /\ text[i + 1].kind = "unit"
              /\ text[i].value \in permitted(allowed_numbers(r), {text[i + 1].unit})
        /\ text[i].kind = "date" => text[i].date \in allowed_dates(r)
        /\ text[i].kind = "time" => allowed_time(r, text, i)
        /\ text[i].kind = "span" =>
              text[i].of \in {r.city, r.timezone} \cup Range(r.checklist) \cup titles(r)

\* A text in parts that are given is given.
LEMMA GivenParts ==
    ASSUME NEW r, NEW T, NEW seqs \in Seq(Seq(T)), \A k \in 1 .. Len(seqs) : Given(r, seqs[k])
    PROVE  Given(r, FlattenSeq(seqs))
<1>. DEFINE text == FlattenSeq(seqs)
            n == Len(seqs)
<1>1. text \in Seq(T) /\ \E ends : PartsEnd(seqs, ends)
  BY FlattenedPlaces
<1>2. PICK ends : PartsEnd(seqs, ends)
  BY <1>1
<1>3. /\ Len(text) = ends[n]
      /\ \A k \in 1 .. n : \A j \in 1 .. Len(seqs[k]) :
            ends[k - 1] + j \in 1 .. ends[n] /\ text[ends[k - 1] + j] = seqs[k][j]
      /\ \A i \in 1 .. ends[n] : \E k \in 1 .. n : \E j \in 1 .. Len(seqs[k]) : i = ends[k - 1] + j
      /\ ends \in [0 .. n -> Nat]
  BY <1>2 DEF PartsEnd
<1>4. n \in Nat /\ DOMAIN text = 1 .. Len(text)
      /\ \A k \in 1 .. n : DOMAIN seqs[k] = 1 .. Len(seqs[k]) /\ Len(seqs[k]) \in Nat
  <2>1. \A k \in 1 .. n : seqs[k] \in Seq(T)
    OBVIOUS
  <2>. HIDE DEF text
  <2>. QED  BY <1>1, <2>1, LenProperties
<1>. HIDE DEF text, n
<1>. SUFFICES ASSUME NEW i \in DOMAIN text
              PROVE  /\ text[i].kind \notin {"numeral", "ordinal", "prose"}
                     /\ IsFigure(text[i]) =>
                           /\ i + 1 \in DOMAIN text /\ text[i + 1].kind = "unit"
                           /\ text[i].value \in permitted(allowed_numbers(r), {text[i + 1].unit})
                     /\ text[i].kind = "date" => text[i].date \in allowed_dates(r)
                     /\ text[i].kind = "time" => allowed_time(r, text, i)
                     /\ text[i].kind = "span" =>
                           text[i].of \in {r.city, r.timezone} \cup Range(r.checklist) \cup titles(r)
  BY DEF Given, text
<1>10. PICK k \in 1 .. n : \E j \in 1 .. Len(seqs[k]) : i = ends[k - 1] + j
  BY <1>3, <1>4
<1>5. PICK j \in 1 .. Len(seqs[k]) : i = ends[k - 1] + j
  BY <1>10
<1>6. ends[k - 1] \in Nat /\ j \in Nat
  <2>1. k - 1 \in 0 .. n
    BY <1>4
  <2>2. ends[k - 1] \in Nat
    BY <1>3, <2>1
  <2>3. Len(seqs[k]) \in Nat
    BY <1>4
  <2>. QED  BY <2>2, <2>3
<1>11. \A m \in 1 .. Len(seqs[k]) : ends[k - 1] + m \in DOMAIN text /\ text[ends[k - 1] + m] = seqs[k][m]
  BY <1>3, <1>4
<1>7. /\ text[i] = seqs[k][j]
      /\ j + 1 \in 1 .. Len(seqs[k]) => i + 1 \in DOMAIN text /\ text[i + 1] = seqs[k][j + 1]
  <2>1. i + 1 = ends[k - 1] + (j + 1)
    <3>1. \A e, m \in Nat : (e + m) + 1 = e + (m + 1)
      OBVIOUS
    <3>2. (ends[k - 1] + j) + 1 = ends[k - 1] + (j + 1)
      BY <1>6, <3>1
    <3>. QED  BY <1>5, <3>2
  <2>. QED  BY <1>5, <1>11, <2>1
<1>8. Given(r, seqs[k]) /\ j \in DOMAIN seqs[k] /\ DOMAIN seqs[k] = 1 .. Len(seqs[k])
  BY <1>4 DEF n
<1>. HIDE DEF Given
<1>9. /\ seqs[k][j].kind \notin {"numeral", "ordinal", "prose"}
      /\ IsFigure(seqs[k][j]) =>
            /\ j + 1 \in 1 .. Len(seqs[k]) /\ seqs[k][j + 1].kind = "unit"
            /\ seqs[k][j].value \in permitted(allowed_numbers(r), {seqs[k][j + 1].unit})
      /\ seqs[k][j].kind = "date" => seqs[k][j].date \in allowed_dates(r)
      /\ seqs[k][j].kind = "time" => allowed_time(r, seqs[k], j)
      /\ seqs[k][j].kind = "span" =>
            seqs[k][j].of \in {r.city, r.timezone} \cup Range(r.checklist) \cup titles(r)
  BY <1>8 DEF Given
<1>12. ASSUME j > 1 PROVE i > 1 /\ text[i - 1] = seqs[k][j - 1]
  <2>1. j - 1 \in 1 .. Len(seqs[k])
    BY <1>6, <1>12
  <2>2. i - 1 = ends[k - 1] + (j - 1) /\ i > 1
    <3>1. \A e, m \in Nat : m > 1 => (e + m) - 1 = e + (m - 1) /\ e + m > 1
      OBVIOUS
    <3>2. (ends[k - 1] + j) - 1 = ends[k - 1] + (j - 1) /\ ends[k - 1] + j > 1
      BY <1>6, <1>12, <3>1
    <3>. QED  BY <1>5, <3>2
  <2>. QED  BY <1>11, <2>1, <2>2
<1>13. allowed_time(r, seqs[k], j) => allowed_time(r, text, i)
  BY <1>7, <1>12 DEF allowed_time
<1>. QED  BY <1>6, <1>7, <1>9, <1>13

\* So is one in two parts.
LEMMA GivenConcat ==
    ASSUME NEW r, NEW T, NEW u \in Seq(T), NEW v \in Seq(T), Given(r, u), Given(r, v)
    PROVE  Given(r, u \o v)
<1>1. <<u, v>> \in Seq(Seq(T)) /\ Len(<<u, v>>) = 2 /\ \A k \in 1 .. 2 : <<u, v>>[k] \in {u, v}
  OBVIOUS
<1>2. Given(r, FlattenSeq(<<u, v>>))
  BY <1>1, GivenParts
<1>3. FlattenSeq(<<u, v>>) = u \o v
  <2>. DEFINE parts == <<u, v>>
  <2>1. PICK flat \in [0 .. 2 -> Seq(T)] :
           /\ flat[0] = <<>>
           /\ \A k \in 1 .. 2 : flat[k] = flat[k - 1] \o parts[k]
           /\ FlattenSeq(parts) = flat[2]
    BY <1>1, Flattened
  <2>2. parts[1] = u /\ parts[2] = v /\ 1 \in 1 .. 2 /\ 2 \in 1 .. 2 /\ 1 - 1 = 0 /\ 2 - 1 = 1
    OBVIOUS
  <2>. HIDE DEF parts
  <2>3. flat[1] = <<>> \o u /\ flat[2] = flat[1] \o v
    BY <2>1, <2>2
  <2>4. <<>> \o u = u
    OBVIOUS
  <2>. QED  BY <2>1, <2>3, <2>4 DEF parts
<1>. QED  BY <1>2, <1>3

\* A text of words and marks gives nothing away.
LEMMA NothingGiven ==
    ASSUME NEW r, NEW text,
           \A i \in DOMAIN text :
              text[i].kind \notin {"numeral", "ordinal", "prose", "figure", "decimal", "date", "time", "span"}
    PROVE  Given(r, text)
  BY DEF Given, IsFigure

\* A figure of its own unit may equal what the request has of that quantity.
LEMMA OwnUnit ==
    ASSUME NEW allowed
    PROVE  /\ permitted(allowed, {"mm"}) = allowed.mm
           /\ permitted(allowed, {"%"}) = allowed.pct
           /\ permitted(allowed, {"h"}) = allowed.h
<1>1. /\ {"mm"} # {} /\ {"%"} # {} /\ {"h"} # {}
      /\ {"mm"} # {"%"} /\ {"mm"} # {"h"} /\ {"h"} # {"%"} /\ {"h"} # {"mm"} /\ {"%"} # {"mm"}
      /\ {"mm"} # {"days"} /\ {"h"} # {"days"} /\ {"%"} # {"days"} /\ {"%"} # {"h"}
  OBVIOUS
<1>2. permitted(allowed, {"mm"}) = allowed.mm
  BY <1>1 DEF permitted
<1>3. permitted(allowed, {"%"}) = allowed.pct
  BY <1>1 DEF permitted
<1>4. permitted(allowed, {"h"}) = allowed.h
  BY <1>1 DEF permitted
<1>. QED  BY <1>2, <1>3, <1>4

\* What the template writes of a reason is given.
LEMMA ReasonGiven ==
    ASSUME NEW r, NEW reason \in Reason, reason \in Range(r.reasons)
    PROVE  Given(r, render_reason_es(reason))
<1>1. CASE reason.kind = "warning"
  <2>. DEFINE x == <<Glue, Glue, Senamhi, Glue, Glue, Span(reason.title), Stop>>
  <2>1. render_reason_es(reason) = x
    BY <1>1 DEF render_reason_es
  <2>2. reason.title \in titles(r)
    BY <1>1 DEF titles
  <2>3. /\ Glue.kind = "glue" /\ Senamhi.kind = "senamhi" /\ Stop.kind = "stop"
        /\ Span(reason.title).kind = "span" /\ Span(reason.title).of = reason.title
    BY DEF Glue, Senamhi, Stop, Token, Span
  <2>4. ASSUME NEW i \in DOMAIN x PROVE x[i] \in {Glue, Senamhi, Stop, Span(reason.title)}
    OBVIOUS
  <2>. HIDE DEF x
  <2>. QED  BY <2>1, <2>2, <2>3, <2>4 DEF Given, IsFigure
<1>2. CASE reason.kind = "forecast"
  <2>. DEFINE mm == Decimal(one_decimal(reason.accumulated_mm))
              h == Figure(Whole(reason.hours))
              pct == Figure(Whole(reason.probability_pct))
              x == <<Word, mm, Unit("mm"), Connector, Word, Word,
                     Glue, h, Unit("h"), Connector, Connector, Noun("%"), Word,
                     Connector, pct, Unit("%"), Stop>>
  <2>1. render_reason_es(reason) = x
    BY <1>2 DEF render_reason_es
  <2>2. /\ one_decimal(reason.accumulated_mm) \in allowed_numbers(r).mm
        /\ Whole(reason.hours) \in allowed_numbers(r).h
        /\ Whole(reason.probability_pct) \in allowed_numbers(r).pct
    BY <1>2 DEF allowed_numbers
  <2>3. /\ mm.kind = "decimal" /\ mm.value = one_decimal(reason.accumulated_mm)
        /\ h.kind = "figure" /\ h.value = Whole(reason.hours)
        /\ pct.kind = "figure" /\ pct.value = Whole(reason.probability_pct)
        /\ Unit("mm").kind = "unit" /\ Unit("mm").unit = "mm"
        /\ Unit("h").kind = "unit" /\ Unit("h").unit = "h"
        /\ Unit("%").kind = "unit" /\ Unit("%").unit = "%"
        /\ \A t \in {Word, Connector, Glue, Stop, Unit("mm"), Unit("h"), Unit("%"), Noun("%")} :
              t.kind \notin {"numeral", "ordinal", "prose", "figure", "decimal", "date", "time", "span"}
    BY DEF Figure, Decimal, Unit, Word, Connector, Glue, Stop, Noun, Token
  <2>. HIDE DEF mm, h, pct
  <2>4. ASSUME NEW i \in DOMAIN x
        PROVE  \/ x[i] \in {Word, Connector, Glue, Stop, Unit("mm"), Unit("h"), Unit("%"), Noun("%")}
               \/ i = 2 \/ i = 8 \/ i = 15
    OBVIOUS
  <2>5. /\ x[2] = mm /\ x[3] = Unit("mm") /\ x[8] = h /\ x[9] = Unit("h") /\ x[15] = pct /\ x[16] = Unit("%")
        /\ {3, 9, 16} \subseteq DOMAIN x
    OBVIOUS
  <2>. HIDE DEF x
  <2>6. /\ one_decimal(reason.accumulated_mm) \in permitted(allowed_numbers(r), {"mm"})
        /\ Whole(reason.hours) \in permitted(allowed_numbers(r), {"h"})
        /\ Whole(reason.probability_pct) \in permitted(allowed_numbers(r), {"%"})
    BY <2>2, OwnUnit
  <2>7. ASSUME NEW i \in DOMAIN x, x[i].kind \in {"numeral", "ordinal", "prose", "figure", "decimal", "date", "time", "span"}
        PROVE  /\ IsFigure(x[i]) /\ i + 1 \in DOMAIN x /\ x[i + 1].kind = "unit"
               /\ x[i].value \in permitted(allowed_numbers(r), {x[i + 1].unit})
    <3>1. i = 2 \/ i = 8 \/ i = 15
      BY <2>3, <2>4, <2>7
    <3>2. 2 + 1 = 3 /\ 8 + 1 = 9 /\ 15 + 1 = 16
      OBVIOUS
    <3>3. CASE i = 2
      <4>1. x[i] = mm /\ i + 1 \in DOMAIN x /\ x[i + 1] = Unit("mm")
        BY <2>5, <3>2, <3>3
      <4>. QED  BY <2>3, <2>6, <4>1 DEF IsFigure
    <3>4. CASE i = 8
      <4>1. x[i] = h /\ i + 1 \in DOMAIN x /\ x[i + 1] = Unit("h")
        BY <2>5, <3>2, <3>4
      <4>. QED  BY <2>3, <2>6, <4>1 DEF IsFigure
    <3>5. CASE i = 15
      <4>1. x[i] = pct /\ i + 1 \in DOMAIN x /\ x[i + 1] = Unit("%")
        BY <2>5, <3>2, <3>5
      <4>. QED  BY <2>3, <2>6, <4>1 DEF IsFigure
    <3>. QED  BY <3>1, <3>3, <3>4, <3>5
  <2>8. Given(r, x)
    BY <2>7 DEF Given, IsFigure
  <2>. QED  BY <2>1, <2>8
<1>3. CASE reason.kind = "no_qualifying"
  <2>. DEFINE x == <<Glue, Glue, Glue, Glue, Senamhi, Glue, Glue, Stop,
                     Word, Continuing, Word, Glue, Word, Word, Stop>>
  <2>1. render_reason_es(reason) = x
    BY <1>3 DEF render_reason_es
  <2>2. \A t \in {Word, Continuing, Glue, Stop, Senamhi} :
            t.kind \notin {"numeral", "ordinal", "prose", "figure", "decimal", "date", "time", "span"}
    BY DEF Word, Continuing, Glue, Stop, Senamhi, Token
  <2>3. ASSUME NEW i \in DOMAIN x PROVE x[i] \in {Word, Continuing, Glue, Stop, Senamhi}
    OBVIOUS
  <2>. HIDE DEF x
  <2>. QED  BY <2>1, <2>2, <2>3, NothingGiven
<1>4. CASE reason.kind = "senamhi_unavailable"
  BY <1>4, NothingGiven DEF render_reason_es
<1>5. reason.kind \in {"warning", "forecast", "no_qualifying", "senamhi_unavailable"}
  BY DEF Reason
<1>. QED  BY <1>1, <1>2, <1>3, <1>4, <1>5

\* The parts of the template's body.
Opening(r) ==
    <<Word, Span(r.city)>>
    \o Line(<<Glue, Word>>)
    \o Line(<<Word, Glue>> \o Moment(r.window.start) \o <<Glue>>
            \o Moment(r.window.end) \o <<Word, Word, Span(r.timezone)>>)

Bulleted(reason) ==
    IF render_reason_es(reason) = <<>> THEN <<>> ELSE Line(<<Bullet>>) \o render_reason_es(reason)

Bullets(reasons) == FlattenSeq([i \in DOMAIN reasons |-> Bulleted(reasons[i])])

Items(items, n) == FlattenSeq([i \in 1 .. n |-> item_bullet(items[i])])

Recommended(items, n, cut) ==
    Line(<<Header("Recomendaciones:")>>) \o (Items(items, n) \o (IF cut THEN CHECKLIST_TRUNCATED_ES ELSE <<>>))

\* The reasons are bullets under one heading, or nothing.
LEMMA Reasons ==
    ASSUME NEW reasons \in Seq(Reason)
    PROVE  /\ \A i \in 1 .. Len(reasons) : Bulleted(reasons[i]) \in Seq(CalmToken)
           /\ [i \in DOMAIN reasons |-> Bulleted(reasons[i])] \in Seq(Seq(CalmToken))
           /\ Len([i \in DOMAIN reasons |-> Bulleted(reasons[i])]) = Len(reasons)
           /\ Bullets(reasons) \in Seq(CalmToken)
           /\ \/ reason_lines(reasons) = <<>>
              \/ reason_lines(reasons) = Line(<<Header("Motivos:")>>) \o Bullets(reasons)
<1>. DEFINE parts == [i \in DOMAIN reasons |-> Bulleted(reasons[i])]
<1>1. Len(reasons) \in Nat /\ DOMAIN reasons = 1 .. Len(reasons)
      /\ \A i \in 1 .. Len(reasons) : reasons[i] \in Reason
  BY LenProperties
<1>2. ASSUME NEW reason \in Reason PROVE Bulleted(reason) \in Seq(CalmToken)
  <2>1. <<Bullet>> \in Seq(CalmToken)
    BY Phrases
  <2>2. Line(<<Bullet>>) \in Seq(CalmToken) /\ render_reason_es(reason) \in Seq(CalmToken)
    BY <2>1, LineIsCalm, ReasonIsCalm
  <2>. QED  BY <2>2, ConcatProperties DEF Bulleted
<1>3. parts \in Seq(Seq(CalmToken)) /\ Len(parts) = Len(reasons)
  <2>1. parts \in [1 .. Len(reasons) -> Seq(CalmToken)]
    BY <1>1, <1>2
  <2>. HIDE DEF parts
  <2>. QED  BY <1>1, <2>1
<1>4. Bullets(reasons) \in Seq(CalmToken)
  BY <1>3, FlattenedPlaces DEF Bullets
<1>5. reason_lines(reasons) = IF Bullets(reasons) = <<>> THEN <<>>
                              ELSE Line(<<Header("Motivos:")>>) \o Bullets(reasons)
  BY DEF reason_lines, Bullets, Bulleted
<1>. HIDE DEF parts
<1>. QED  BY <1>1, <1>2, <1>3, <1>4, <1>5 DEF parts

\* The first items of a checklist are bullets of one string each.
LEMMA ItemLines ==
    ASSUME NEW items \in Seq(SuppliedString), NEW n \in 0 .. Len(items)
    PROVE  /\ [i \in 1 .. n |-> item_bullet(items[i])] \in Seq(Seq(CalmToken))
           /\ Len([i \in 1 .. n |-> item_bullet(items[i])]) = n
           /\ Items(items, n) \in Seq(CalmToken)
<1>. DEFINE parts == [i \in 1 .. n |-> item_bullet(items[i])]
<1>1. Len(items) \in Nat /\ \A i \in 1 .. Len(items) : items[i] \in SuppliedString
  BY LenProperties
<1>2. ASSUME NEW i \in 1 .. n PROVE item_bullet(items[i]) \in Seq(CalmToken)
  <2>1. items[i] \in SuppliedString
    BY <1>1
  <2>. QED  BY <2>1, ItemIsCalm
<1>3. n \in Nat /\ parts \in [1 .. n -> Seq(CalmToken)]
  BY <1>1, <1>2
<1>. HIDE DEF parts
<1>4. parts \in Seq(Seq(CalmToken)) /\ Len(parts) = n
  BY <1>3
<1>5. FlattenSeq(parts) \in Seq(CalmToken)
  BY <1>4, FlattenedPlaces
<1>. QED  BY <1>4, <1>5 DEF parts, Items

\* The line that says the checklist was cut is calm.
LEMMA CutIsCalm == CHECKLIST_TRUNCATED_ES \in Seq(CalmToken)
<1>1. <<Bullet, Glue, Word, Word>> \in Seq(CalmToken)
  BY Phrases
<1>. QED  BY <1>1, LineIsCalm DEF CHECKLIST_TRUNCATED_ES

\* A checklist is written up to some item, all of it or with the line that
\* says it was cut.
LEMMA ChecklistLines ==
    ASSUME NEW items \in Seq(SuppliedString), NEW budget \in Int
    PROVE  \E n \in 0 .. Len(items), cut \in BOOLEAN :
              checklist_lines(items, budget)
                 = Items(items, n) \o (IF cut THEN CHECKLIST_TRUNCATED_ES ELSE <<>>)
<1>. DEFINE room == budget - length(CHECKLIST_TRUNCATED_ES)
            Fit == {n \in 1 .. Len(items) : length(Items(items, n)) <= room}
            kept == Max({0} \cup Fit)
            whole == TruncationItem \notin Range(items) /\ length(Items(items, Len(items))) <= budget
<1>1. Len(items) \in Nat /\ Len(items) \in 0 .. Len(items)
  BY LenProperties
<1>2. checklist_lines(items, budget)
         = IF whole THEN Items(items, Len(items))
           ELSE Items(items, kept) \o CHECKLIST_TRUNCATED_ES
  BY DEF checklist_lines, Items
<1>3. kept \in 0 .. Len(items)
  <2>1. Fit \subseteq 1 .. Len(items)
    OBVIOUS
  <2>. HIDE DEF Fit
  <2>2. IsFiniteSet(Fit)
    <3>1. IsFiniteSet(1 .. Len(items))
      BY <1>1, FS_Interval
    <3>. QED  BY <2>1, <3>1, FS_Subset
  <2>3. {0} \cup Fit \in SUBSET Int /\ {0} \cup Fit # {} /\ {0} \cup Fit \subseteq 0 .. Len(items)
    BY <1>1, <2>1
  <2>4. IsFiniteSet({0} \cup Fit)
    <3>1. {0} \cup Fit = Fit \cup {0}
      OBVIOUS
    <3>. QED  BY <2>2, <3>1, FS_AddElement
  <2>5. kept \in {0} \cup Fit
    BY <2>3, <2>4, MaxIsTaken
  <2>. QED  BY <2>3, <2>5
<1>. HIDE DEF kept
<1>4. Items(items, Len(items)) \o <<>> = Items(items, Len(items))
  BY <1>1, ItemLines
<1>5. CASE whole
  <2>1. checklist_lines(items, budget)
           = Items(items, Len(items)) \o (IF FALSE THEN CHECKLIST_TRUNCATED_ES ELSE <<>>)
    BY <1>2, <1>4, <1>5
  <2>. QED  BY <1>1, <2>1
<1>6. CASE ~ whole
  <2>1. checklist_lines(items, budget)
           = Items(items, kept) \o (IF TRUE THEN CHECKLIST_TRUNCATED_ES ELSE <<>>)
    BY <1>2, <1>6
  <2>. QED  BY <1>3, <2>1
<1>. QED  BY <1>5, <1>6

\* The parts of a body in order.
LEMMA BodyParts ==
    ASSUME NEW r \in MessageRequest
    PROVE  /\ Opening(r) \in Seq(CalmToken)
           /\ reason_lines(r.reasons) \in Seq(TextToken)
           /\ down_lines(r) \in Seq(CalmToken)
           /\ evaluation(r) = Opening(r) \o (reason_lines(r.reasons) \o down_lines(r))
           /\ \/ body_of(r) = evaluation(r)
              \/ \E n \in 0 .. Len(r.checklist), cut \in BOOLEAN :
                    body_of(r) = evaluation(r) \o Recommended(r.checklist, n, cut)
<1>. DEFINE period == <<Word, Glue>> \o Moment(r.window.start) \o <<Glue>>
                      \o Moment(r.window.end) \o <<Word, Word, Span(r.timezone)>>
            motives == Line(<<Header("Motivos:")>>)
            heading == Line(<<Header("Recomendaciones:")>>)
<1>1. /\ r.city \in SuppliedString /\ r.timezone \in SuppliedString
      /\ r.window \in TimeWindow /\ r.reasons \in Seq(Reason) /\ r.checklist \in Seq(SuppliedString)
  BY DEF MessageRequest
<1>2. <<Word, Span(r.city)>> \in Seq(CalmToken) /\ Line(<<Glue, Word>>) \in Seq(CalmToken)
  <2>1. <<Word, Span(r.city)>> \in Seq(CalmToken) /\ <<Glue, Word>> \in Seq(CalmToken)
    BY <1>1, Phrases
  <2>. QED  BY <2>1, LineIsCalm
<1>3. Line(period) \in Seq(CalmToken)
  <2>. DEFINE start == Moment(r.window.start)
              end == Moment(r.window.end)
              place == <<Word, Word, Span(r.timezone)>>
  <2>1. r.window.start \in Int /\ r.window.end \in Int
    BY <1>1 DEF TimeWindow
  <2>2. start \in Seq(CalmToken) /\ end \in Seq(CalmToken)
    BY <2>1, MomentIsCalm
  <2>3. /\ <<Word, Glue>> \in Seq(CalmToken) /\ <<Glue>> \in Seq(CalmToken)
        /\ place \in Seq(CalmToken)
    BY <1>1, Phrases
  <2>. HIDE DEF start, end, place
  <2>4. <<Word, Glue>> \o start \in Seq(CalmToken)
    BY <2>2, <2>3, ConcatProperties
  <2>5. (<<Word, Glue>> \o start) \o <<Glue>> \in Seq(CalmToken)
    BY <2>3, <2>4, ConcatProperties
  <2>6. ((<<Word, Glue>> \o start) \o <<Glue>>) \o end \in Seq(CalmToken)
    BY <2>2, <2>5, ConcatProperties
  <2>7. (((<<Word, Glue>> \o start) \o <<Glue>>) \o end) \o place \in Seq(CalmToken)
    BY <2>3, <2>6, ConcatProperties
  <2>8. period \in Seq(CalmToken)
    BY <2>7 DEF start, end, place
  <2>. HIDE DEF period
  <2>. QED  BY <2>8, LineIsCalm
<1>4. Opening(r) \in Seq(CalmToken)
  <2>. HIDE DEF period
  <2>1. Opening(r) = (<<Word, Span(r.city)>> \o Line(<<Glue, Word>>)) \o Line(period)
    BY DEF Opening, period
  <2>. QED  BY <1>2, <1>3, <2>1, ConcatProperties
<1>5. down_lines(r) \in Seq(CalmToken)
  BY DownLines
<1>6. motives \in Seq(TextToken) /\ heading \in Seq(TextToken)
  <2>1. {"Motivos:", "Recomendaciones:"} \subseteq SECTION_HEADERS
    BY DEF SECTION_HEADERS
  <2>. QED  BY <2>1, HeadingLine
<1>7. reason_lines(r.reasons) \in Seq(TextToken)
  <2>2. Bullets(r.reasons) \in Seq(TextToken)
    BY <1>1, Reasons, CalmIsText
  <2>1. \/ reason_lines(r.reasons) = <<>>
        \/ reason_lines(r.reasons) = motives \o Bullets(r.reasons)
    BY <1>1, Reasons
  <2>. HIDE DEF motives
  <2>3. motives \o Bullets(r.reasons) \in Seq(TextToken)
    BY <1>6, <2>2, ConcatProperties
  <2>4. <<>> \in Seq(TextToken)
    OBVIOUS
  <2>. QED  BY <2>1, <2>3, <2>4
<1>8. evaluation(r) = (Opening(r) \o reason_lines(r.reasons)) \o down_lines(r)
  BY DEF evaluation, Opening
<1>9. Opening(r) \in Seq(TextToken) /\ down_lines(r) \in Seq(TextToken)
  BY <1>4, <1>5, CalmIsText
<1>10. evaluation(r) = Opening(r) \o (reason_lines(r.reasons) \o down_lines(r))
  BY <1>7, <1>8, <1>9, ConcatAssociative
<1>11. evaluation(r) \in Seq(TextToken)
  <2>1. Opening(r) \o reason_lines(r.reasons) \in Seq(TextToken)
    BY <1>7, <1>9, ConcatProperties
  <2>. DEFINE above == Opening(r) \o reason_lines(r.reasons)
              below == down_lines(r)
  <2>2. above \in Seq(TextToken) /\ below \in Seq(TextToken) /\ evaluation(r) = above \o below
    BY <1>8, <1>9, <2>1
  <2>. HIDE DEF above, below
  <2>3. above \o below \in Seq(TextToken)
    BY <2>2, ConcatProperties
  <2>. QED  BY <2>2, <2>3
<1>12. ASSUME r.checklist = <<>> PROVE body_of(r) = evaluation(r)
  BY <1>12 DEF body_of
<1>13. ASSUME r.checklist # <<>>
       PROVE  \E n \in 0 .. Len(r.checklist), cut \in BOOLEAN :
                 body_of(r) = evaluation(r) \o Recommended(r.checklist, n, cut)
  <2>. DEFINE budget == MaxBodyLength - length(evaluation(r) \o heading)
  <2>1. body_of(r) = (evaluation(r) \o heading) \o checklist_lines(r.checklist, budget)
    BY <1>13 DEF body_of
  <2>2. budget \in Int
    BY <1>6, <1>11, LengthAdds, LengthAssumption
  <2>. HIDE DEF budget
  <2>3. PICK n \in 0 .. Len(r.checklist), cut \in BOOLEAN :
           checklist_lines(r.checklist, budget)
              = Items(r.checklist, n) \o (IF cut THEN CHECKLIST_TRUNCATED_ES ELSE <<>>)
    BY <1>1, <2>2, ChecklistLines
  <2>. DEFINE last == Items(r.checklist, n) \o (IF cut THEN CHECKLIST_TRUNCATED_ES ELSE <<>>)
  <2>4. last \in Seq(TextToken)
    <3>1. Items(r.checklist, n) \in Seq(CalmToken) /\ CHECKLIST_TRUNCATED_ES \in Seq(CalmToken)
      BY <1>1, ItemLines, CutIsCalm
    <3>2. Items(r.checklist, n) \in Seq(TextToken)
          /\ (IF cut THEN CHECKLIST_TRUNCATED_ES ELSE <<>>) \in Seq(TextToken)
      BY <3>1, CalmIsText
    <3>. QED  BY <3>2, ConcatProperties
  <2>5. Recommended(r.checklist, n, cut) = heading \o last
    BY DEF Recommended
  <2>. DEFINE found == evaluation(r)
  <2>8. found \in Seq(TextToken) /\ heading \in Seq(TextToken) /\ last \in Seq(TextToken)
    BY <1>6, <1>11, <2>4
  <2>. HIDE DEF last, heading, found
  <2>9. (found \o heading) \o last = found \o (heading \o last)
    BY <2>8, ConcatAssociative
  <2>6. (evaluation(r) \o heading) \o last = evaluation(r) \o (heading \o last)
    BY <2>9 DEF found
  <2>7. body_of(r) = evaluation(r) \o Recommended(r.checklist, n, cut)
    <3>1. checklist_lines(r.checklist, budget) = last
      BY <2>3 DEF last
    <3>2. body_of(r) = (evaluation(r) \o heading) \o last
      BY <2>1, <3>1
    <3>3. body_of(r) = evaluation(r) \o (heading \o last)
      BY <2>6, <3>2
    <3>. QED  BY <2>5, <3>3
  <2>. QED  BY <2>7
<1>. HIDE DEF period, motives, heading
<1>. QED  BY <1>4, <1>5, <1>7, <1>10, <1>12, <1>13

\* A token that counts, dates and quotes nothing.
SilentToken ==
    {t \in TextToken :
        t.kind \notin {"numeral", "ordinal", "prose", "figure", "decimal", "date", "time", "span"}}

\* The words and marks of the template are silent.
LEMMA SilentTokens ==
    /\ {Word, Glue, Connector, Senamhi, Stop, NewLine, Bullet, Continuing} \subseteq SilentToken
    /\ \A h \in SECTION_HEADERS : Header(h) \in SilentToken
<1>1. ASSUME NEW t \in {Word, Glue, Connector, Senamhi, Stop, NewLine, Bullet, Continuing}
      PROVE  t \in SilentToken
  <2>1. t \in TextToken
    BY Phrases DEF CalmToken
  <2>2. t.kind \notin {"numeral", "ordinal", "prose", "figure", "decimal", "date", "time", "span"}
    BY DEF Word, Glue, Connector, Senamhi, Stop, NewLine, Bullet, Continuing, Token
  <2>. QED  BY <2>1, <2>2 DEF SilentToken
<1>2. ASSUME NEW h \in SECTION_HEADERS PROVE Header(h) \in SilentToken
  <2>1. Header(h) \in TextToken
    BY Phrases
  <2>. QED  BY <2>1 DEF SilentToken, Header
<1>. QED  BY <1>1, <1>2

\* A silent text is given, and so is a line of it.
LEMMA SilentGiven ==
    ASSUME NEW r, NEW text \in Seq(SilentToken)
    PROVE  text \in Seq(TextToken) /\ Given(r, text) /\ Line(text) \in Seq(SilentToken)
<1>1. text \in Seq(TextToken)
  <2>1. SilentToken \subseteq TextToken
    BY DEF SilentToken
  <2>. QED  BY <2>1, SeqMonotonic
<1>2. \A i \in DOMAIN text : text[i] \in SilentToken
  OBVIOUS
<1>3. Given(r, text)
  BY <1>2, NothingGiven DEF SilentToken
<1>4. <<NewLine>> \in Seq(SilentToken)
  BY SilentTokens
<1>. QED  BY <1>1, <1>3, <1>4, ConcatProperties DEF Line

\* So is a line of what is given.
LEMMA LineGiven ==
    ASSUME NEW r, NEW text \in Seq(TextToken), Given(r, text)
    PROVE  Line(text) \in Seq(TextToken) /\ Given(r, Line(text))
<1>1. <<NewLine>> \in Seq(SilentToken)
  BY SilentTokens
<1>2. <<NewLine>> \in Seq(TextToken) /\ Given(r, <<NewLine>>)
  BY <1>1, SilentGiven
<1>. QED  BY <1>2, GivenConcat, ConcatProperties DEF Line

\* One string of the request's, after words, is given.
LEMMA StringGiven ==
    ASSUME NEW r, NEW text, NEW s \in {r.city, r.timezone} \cup Range(r.checklist) \cup titles(r),
           \A i \in DOMAIN text : text[i] \in SilentToken \/ text[i] = Span(s)
    PROVE  Given(r, text)
<1>1. Span(s).kind = "span" /\ Span(s).of = s
  BY DEF Span
<1>. QED  BY <1>1 DEF Given, SilentToken, IsFigure

\* An instant the request carries, or of a prior alert it tells of.
LEMMA MomentGiven ==
    ASSUME NEW r, NEW t \in moments(r) \cup prior_moments(r)
    PROVE  Given(r, Moment(t))
<1>1. date(t) \in allowed_dates(r)
  BY DEF allowed_dates
<1>2. DOMAIN Moment(t) = 1 .. 2 /\ Moment(t)[1] = Date(date(t)) /\ Moment(t)[2] = Time(time_of_day(t))
  BY DEF Moment
<1>3. Date(date(t)).kind = "date" /\ Date(date(t)).date = date(t)
      /\ Time(time_of_day(t)).kind = "time" /\ Time(time_of_day(t)).time = time_of_day(t)
  BY DEF Date, Time
<1>4. 1 .. 2 = {1, 2}
  OBVIOUS
<1>5. allowed_time(r, Moment(t), 2)
  <2>1. CASE t \in moments(r)
    BY <1>2, <1>3, <2>1 DEF allowed_time
  <2>2. CASE t \in prior_moments(r)
    <3>1. 2 > 1 /\ 2 - 1 = 1
      OBVIOUS
    <3>. QED  BY <1>2, <1>3, <2>2, <3>1 DEF allowed_time
  <2>. QED  BY <2>1, <2>2
<1>. QED  BY <1>1, <1>2, <1>3, <1>4, <1>5 DEF Given, IsFigure

\* The opening is given.
LEMMA OpeningGiven ==
    ASSUME NEW r \in MessageRequest
    PROVE  Given(r, Opening(r))
<1>. DEFINE start == Moment(r.window.start)
            end == Moment(r.window.end)
            place == <<Word, Word, Span(r.timezone)>>
            lead == <<Word, Glue>>
            to == <<Glue>>
            period == lead \o start \o to \o end \o place
            city == <<Word, Span(r.city)>>
            named == <<Glue, Word>>
<1>1. /\ r.city \in SuppliedString /\ r.timezone \in SuppliedString
      /\ r.window.start \in Int /\ r.window.end \in Int
      /\ r.window.start \in moments(r) /\ r.window.end \in moments(r)
  BY DEF MessageRequest, TimeWindow, moments
<1>2. /\ start \in Seq(TextToken) /\ Given(r, start)
      /\ end \in Seq(TextToken) /\ Given(r, end)
  BY <1>1, MomentIsCalm, CalmIsText, MomentGiven
<1>3. /\ lead \in Seq(SilentToken) /\ to \in Seq(SilentToken) /\ named \in Seq(SilentToken)
  BY SilentTokens
<1>4. /\ lead \in Seq(TextToken) /\ Given(r, lead) /\ to \in Seq(TextToken) /\ Given(r, to)
      /\ Line(named) \in Seq(TextToken) /\ Given(r, Line(named))
  BY <1>3, SilentGiven
<1>5. place \in Seq(TextToken) /\ city \in Seq(TextToken)
  <2>1. place \in Seq(CalmToken) /\ city \in Seq(CalmToken)
    BY <1>1, Phrases
  <2>. QED  BY <2>1, CalmIsText
<1>6. Given(r, place) /\ Given(r, city)
  <2>1. \A i \in DOMAIN place : place[i] \in SilentToken \/ place[i] = Span(r.timezone)
    BY SilentTokens
  <2>2. \A i \in DOMAIN city : city[i] \in SilentToken \/ city[i] = Span(r.city)
    BY SilentTokens
  <2>. HIDE DEF place, city
  <2>. QED  BY <2>1, <2>2, StringGiven
<1>7. Opening(r) = (city \o Line(named)) \o Line(period)
  BY DEF Opening
<1>8. period = (((lead \o start) \o to) \o end) \o place
  OBVIOUS
<1>. HIDE DEF start, end, place, lead, to, period, city, named
<1>9. lead \o start \in Seq(TextToken) /\ Given(r, lead \o start)
  BY <1>2, <1>4, GivenConcat, ConcatProperties
<1>10. (lead \o start) \o to \in Seq(TextToken) /\ Given(r, (lead \o start) \o to)
  BY <1>4, <1>9, GivenConcat, ConcatProperties
<1>11. ((lead \o start) \o to) \o end \in Seq(TextToken) /\ Given(r, ((lead \o start) \o to) \o end)
  BY <1>2, <1>10, GivenConcat, ConcatProperties
<1>12. period \in Seq(TextToken) /\ Given(r, period)
  BY <1>5, <1>6, <1>8, <1>11, GivenConcat, ConcatProperties
<1>13. Line(period) \in Seq(TextToken) /\ Given(r, Line(period))
  BY <1>12, LineGiven
<1>14. city \o Line(named) \in Seq(TextToken) /\ Given(r, city \o Line(named))
  BY <1>4, <1>5, <1>6, GivenConcat, ConcatProperties
<1>. QED  BY <1>7, <1>13, <1>14, GivenConcat

\* So are the reasons, under their heading.
LEMMA BulletsGiven ==
    ASSUME NEW r \in MessageRequest
    PROVE  Given(r, reason_lines(r.reasons))
<1>. DEFINE parts == [i \in DOMAIN r.reasons |-> Bulleted(r.reasons[i])]
            motives == Line(<<Header("Motivos:")>>)
<1>1. r.reasons \in Seq(Reason)
  BY DEF MessageRequest
<1>2. Len(r.reasons) \in Nat /\ DOMAIN r.reasons = 1 .. Len(r.reasons)
      /\ \A i \in 1 .. Len(r.reasons) : r.reasons[i] \in Reason /\ r.reasons[i] \in Range(r.reasons)
  BY <1>1, LenProperties DEF Range
<1>3. ASSUME NEW reason \in Reason, reason \in Range(r.reasons) PROVE Given(r, Bulleted(reason))
  <2>1. <<Bullet>> \in Seq(SilentToken)
    BY SilentTokens
  <2>2. Line(<<Bullet>>) \in Seq(TextToken) /\ Given(r, Line(<<Bullet>>))
    BY <2>1, SilentGiven
  <2>3. render_reason_es(reason) \in Seq(TextToken) /\ Given(r, render_reason_es(reason))
    BY <1>3, ReasonIsCalm, CalmIsText, ReasonGiven
  <2>4. Given(r, Line(<<Bullet>>) \o render_reason_es(reason))
    BY <2>2, <2>3, GivenConcat
  <2>5. Given(r, <<>>)
    BY NothingGiven
  <2>. QED  BY <2>4, <2>5 DEF Bulleted
<1>4. /\ parts \in Seq(Seq(CalmToken)) /\ Len(parts) = Len(r.reasons)
      /\ \A k \in 1 .. Len(r.reasons) : Given(r, parts[k])
  <2>1. parts \in Seq(Seq(CalmToken)) /\ Len(parts) = Len(r.reasons)
    BY <1>1, Reasons
  <2>2. ASSUME NEW k \in 1 .. Len(r.reasons) PROVE Given(r, parts[k])
    BY <1>2, <1>3
  <2>. QED  BY <2>1, <2>2
<1>. HIDE DEF parts
<1>5. Given(r, Bullets(r.reasons))
  <2>1. Given(r, FlattenSeq(parts))
    BY <1>4, GivenParts
  <2>. QED  BY <2>1 DEF parts, Bullets
<1>6. motives \in Seq(TextToken) /\ Given(r, motives)
  <2>1. "Motivos:" \in SECTION_HEADERS
    BY DEF SECTION_HEADERS
  <2>2. <<Header("Motivos:")>> \in Seq(SilentToken)
    BY <2>1, SilentTokens
  <2>. QED  BY <2>2, SilentGiven
<1>7. Bullets(r.reasons) \in Seq(TextToken)
  BY <1>1, Reasons, CalmIsText
<1>8. reason_lines(r.reasons) = <<>> \/ reason_lines(r.reasons) = motives \o Bullets(r.reasons)
  BY <1>1, Reasons
<1>. HIDE DEF motives
<1>9. Given(r, motives \o Bullets(r.reasons))
  BY <1>5, <1>6, <1>7, GivenConcat
<1>10. Given(r, <<>>)
  BY NothingGiven
<1>. QED  BY <1>8, <1>9, <1>10

\* What is said of a source that is down.
NoSenamhi == <<Glue, Glue, Glue, Senamhi, Glue, Glue, Glue, Glue, Glue, Stop,
               Glue, Continuing, Word, Stop>>

NoOpenMeteo == <<Glue, Glue, Word, Glue, Glue, Glue, Stop>>

\* It is silent, one line for each source that is down.
LEMMA DownIsSilent ==
    ASSUME NEW r
    PROVE  /\ Line(NoSenamhi) \in Seq(SilentToken) /\ Line(NoOpenMeteo) \in Seq(SilentToken)
           /\ down_lines(r) = (IF r.senamhi_status = "unavailable" THEN Line(NoSenamhi) ELSE <<>>)
                              \o (IF r.open_meteo_status = "unavailable" THEN Line(NoOpenMeteo) ELSE <<>>)
           /\ down_lines(r) \in Seq(SilentToken)
<1>1. NoSenamhi \in Seq(SilentToken) /\ NoOpenMeteo \in Seq(SilentToken)
  <2>1. NoSenamhi \in Seq(SilentToken)
    BY SilentTokens DEF NoSenamhi
  <2>2. NoOpenMeteo \in Seq(SilentToken)
    BY SilentTokens DEF NoOpenMeteo
  <2>. QED  BY <2>1, <2>2
<1>2. Line(NoSenamhi) \in Seq(SilentToken) /\ Line(NoOpenMeteo) \in Seq(SilentToken)
  BY <1>1, SilentGiven
<1>3. down_lines(r) = (IF r.senamhi_status = "unavailable" THEN Line(NoSenamhi) ELSE <<>>)
                      \o (IF r.open_meteo_status = "unavailable" THEN Line(NoOpenMeteo) ELSE <<>>)
  BY DEF down_lines, NoSenamhi, NoOpenMeteo
<1>4. /\ (IF r.senamhi_status = "unavailable" THEN Line(NoSenamhi) ELSE <<>>) \in Seq(SilentToken)
      /\ (IF r.open_meteo_status = "unavailable" THEN Line(NoOpenMeteo) ELSE <<>>) \in Seq(SilentToken)
  BY <1>2
<1>. QED  BY <1>2, <1>3, <1>4, ConcatProperties

\* So are the operator's recommendations.
LEMMA RecommendedGiven ==
    ASSUME NEW r \in MessageRequest, NEW n \in 0 .. Len(r.checklist), NEW cut \in BOOLEAN
    PROVE  /\ Recommended(r.checklist, n, cut) \in Seq(TextToken)
           /\ Given(r, Recommended(r.checklist, n, cut))
<1>. DEFINE items == r.checklist
            parts == [i \in 1 .. n |-> item_bullet(items[i])]
            heading == Line(<<Header("Recomendaciones:")>>)
            ending == IF cut THEN CHECKLIST_TRUNCATED_ES ELSE <<>>
<1>1. items \in Seq(SuppliedString)
  BY DEF MessageRequest
<1>2. Len(items) \in Nat /\ \A i \in 1 .. n : items[i] \in SuppliedString /\ items[i] \in Range(items)
  BY <1>1, LenProperties DEF Range
<1>3. /\ parts \in Seq(Seq(CalmToken)) /\ Len(parts) = n
      /\ Items(items, n) \in Seq(TextToken)
  BY <1>1, ItemLines, CalmIsText
<1>4. ASSUME NEW i \in 1 .. n PROVE Given(r, Line(<<Bullet, Span(items[i])>>))
  <2>. DEFINE bullet == <<Bullet, Span(items[i])>>
  <2>1. bullet \in Seq(CalmToken)
    BY <1>2, Phrases
  <2>2. \A j \in DOMAIN bullet : bullet[j] \in SilentToken \/ bullet[j] = Span(items[i])
    BY SilentTokens
  <2>. HIDE DEF bullet
  <2>3. bullet \in Seq(TextToken) /\ Given(r, bullet)
    BY <1>2, <2>1, <2>2, CalmIsText, StringGiven
  <2>4. Given(r, Line(bullet))
    BY <2>3, LineGiven
  <2>. QED  BY <2>4 DEF bullet
<1>5. \A k \in 1 .. n : Given(r, parts[k])
  <2>1. Given(r, <<>>)
    BY NothingGiven
  <2>. QED  BY <1>4, <2>1 DEF item_bullet
<1>6. Given(r, Items(items, n))
  <2>. HIDE DEF parts
  <2>1. Given(r, FlattenSeq(parts))
    BY <1>3, <1>5, GivenParts
  <2>. QED  BY <2>1 DEF parts, Items
<1>7. heading \in Seq(TextToken) /\ Given(r, heading)
  <2>1. "Recomendaciones:" \in SECTION_HEADERS
    BY DEF SECTION_HEADERS
  <2>2. <<Header("Recomendaciones:")>> \in Seq(SilentToken)
    BY <2>1, SilentTokens
  <2>3. heading \in Seq(SilentToken)
    BY <2>2, SilentGiven
  <2>. QED  BY <2>3, SilentGiven
<1>8. ending \in Seq(TextToken) /\ Given(r, ending)
  <2>1. <<Bullet, Glue, Word, Word>> \in Seq(SilentToken)
    BY SilentTokens
  <2>2. CHECKLIST_TRUNCATED_ES \in Seq(SilentToken)
    BY <2>1, SilentGiven DEF CHECKLIST_TRUNCATED_ES
  <2>3. ending \in Seq(SilentToken)
    BY <2>2
  <2>. QED  BY <2>3, SilentGiven
<1>9. Recommended(items, n, cut) = heading \o (Items(items, n) \o ending)
  BY DEF Recommended
<1>. HIDE DEF parts, heading, ending
<1>10. Items(items, n) \o ending \in Seq(TextToken) /\ Given(r, Items(items, n) \o ending)
  BY <1>3, <1>6, <1>8, GivenConcat, ConcatProperties
<1>. QED  BY <1>7, <1>9, <1>10, GivenConcat, ConcatProperties

\* So is the whole body.
LEMMA BodyGiven ==
    ASSUME NEW r \in MessageRequest
    PROVE  body_of(r) \in Seq(TextToken) /\ Given(r, body_of(r))
<1>. DEFINE reasons == reason_lines(r.reasons)
            down == down_lines(r)
<1>1. Opening(r) \in Seq(TextToken) /\ Given(r, Opening(r))
  BY BodyParts, CalmIsText, OpeningGiven
<1>2. reasons \in Seq(TextToken) /\ Given(r, reasons)
  BY BodyParts, BulletsGiven
<1>3. down \in Seq(TextToken) /\ Given(r, down)
  BY DownIsSilent, SilentGiven
<1>4. evaluation(r) = Opening(r) \o (reasons \o down)
  BY BodyParts
<1>. HIDE DEF reasons, down
<1>5. reasons \o down \in Seq(TextToken) /\ Given(r, reasons \o down)
  BY <1>2, <1>3, GivenConcat, ConcatProperties
<1>6. evaluation(r) \in Seq(TextToken) /\ Given(r, evaluation(r))
  BY <1>1, <1>4, <1>5, GivenConcat, ConcatProperties
<1>7. CASE body_of(r) = evaluation(r)
  BY <1>6, <1>7
<1>8. ASSUME NEW n \in 0 .. Len(r.checklist), NEW cut \in BOOLEAN,
             body_of(r) = evaluation(r) \o Recommended(r.checklist, n, cut)
      PROVE  body_of(r) \in Seq(TextToken) /\ Given(r, body_of(r))
  <2>. DEFINE rest == Recommended(r.checklist, n, cut)
  <2>1. rest \in Seq(TextToken) /\ Given(r, rest)
    BY RecommendedGiven
  <2>. HIDE DEF rest
  <2>2. evaluation(r) \o rest \in Seq(TextToken) /\ Given(r, evaluation(r) \o rest)
    BY <1>6, <2>1, GivenConcat, ConcatProperties
  <2>. QED  BY <1>8, <2>2 DEF rest
<1>. QED  BY <1>7, <1>8, BodyParts

\* The words that count nothing, whatever surrounds them.
Harmless(text) == \A i \in DOMAIN text : text[i].kind \in {"word", "glue", "stop"}

\* A text of one token.
LEMMA OneToken == \A t : Len(<<t>>) = 1 /\ <<t>>[1] = t
  OBVIOUS

\* What is left of a given text, once its quotations are taken out, is given,
\* if every string that is left in it is harmless.
LEMMA ResidueGiven ==
    ASSUME NEW r, NEW d, Written(d), NEW text, text = d.title \o <<NewLine>> \o d.body, Given(r, text),
           \A i \in DOMAIN text :
              text[i].kind = "span" => verbatim(r, text, i) \/ Harmless(text[i].of.text)
    PROVE  residue(r, d) \in Seq(PlainToken) /\ Given(r, residue(r, d))
<1>. DEFINE part(i) == IF text[i].kind # "span" THEN <<text[i]>>
                       ELSE IF verbatim(r, text, i) THEN <<>>
                       ELSE text[i].of.text
            seqs == [i \in DOMAIN text |-> part(i)]
            flat == FlattenSeq(seqs)
            n == Len(text)
<1>1. text \in Seq(TextToken)
  <2>1. <<NewLine>> \in Seq(TextToken)
    BY Phrases DEF CalmToken
  <2>2. d.title \o <<NewLine>> \in Seq(TextToken) /\ d.body \in Seq(TextToken)
    BY <2>1, ConcatProperties DEF Written
  <2>. QED  BY <2>2, ConcatProperties
<1>2. residue(r, d) = flat
  BY DEF residue
<1>3. DOMAIN text = 1 .. n /\ n \in Nat /\ \A i \in 1 .. n : text[i] \in TextToken
  BY <1>1, LenProperties
<1>4. ASSUME NEW i \in 1 .. n PROVE part(i) \in Seq(PlainToken)
  <2>1. CASE text[i].kind # "span"
    <3>1. text[i] \in PlainToken
      BY <1>3, <2>1 DEF TextToken
    <3>. QED  BY <2>1, <3>1
  <2>2. CASE text[i].kind = "span"
    <3>1. text[i].of \in SuppliedString
      BY <1>3, <2>2 DEF TextToken, PlainToken
    <3>2. text[i].of.text \in Seq(PlainToken)
      BY <3>1 DEF SuppliedString
    <3>. QED  BY <2>2, <3>2
  <2>. QED  BY <2>1, <2>2
<1>5. /\ seqs \in Seq(Seq(PlainToken)) /\ Len(seqs) = n
      /\ \A i \in 1 .. n : seqs[i] = part(i)
  <2>1. DOMAIN text = 1 .. n /\ n \in Nat
    BY <1>3
  <2>. HIDE DEF part, n
  <2>2. seqs = [i \in 1 .. n |-> part(i)]
    BY <2>1
  <2>. HIDE DEF seqs
  <2>3. seqs \in [1 .. n -> Seq(PlainToken)]
    BY <1>4, <2>2
  <2>. QED  BY <2>1, <2>2, <2>3
<1>6. ASSUME NEW i \in 1 .. n, text[i].kind # "span" PROVE seqs[i] = <<text[i]>>
  BY <1>5, <1>6
<1>7. ASSUME NEW i \in 1 .. n, text[i].kind = "span" PROVE Harmless(seqs[i])
  <2>1. Harmless(<<>>)
    BY DEF Harmless
  <2>2. verbatim(r, text, i) \/ Harmless(text[i].of.text)
    BY <1>3, <1>7
  <2>. QED  BY <1>5, <1>7, <2>1, <2>2
<1>. HIDE DEF seqs
<1>8. flat \in Seq(PlainToken) /\ \E ends : PartsEnd(seqs, ends)
  BY <1>5, FlattenedPlaces
<1>9. PICK ends : PartsEnd(seqs, ends)
  BY <1>8
<1>10. /\ Len(flat) = ends[n] /\ DOMAIN flat = 1 .. Len(flat)
       /\ \A k \in 1 .. n : ends[k] = ends[k - 1] + Len(seqs[k])
       /\ \A k \in 1 .. n : \A j \in 1 .. Len(seqs[k]) :
             ends[k - 1] + j \in 1 .. ends[n] /\ flat[ends[k - 1] + j] = seqs[k][j]
       /\ \A i \in 1 .. ends[n] : \E k \in 1 .. n : \E j \in 1 .. Len(seqs[k]) : i = ends[k - 1] + j
       /\ ends \in [0 .. n -> Nat]
  <2>1. DOMAIN flat = 1 .. Len(flat)
    BY <1>8, LenProperties
  <2>2. Len(seqs) = n
    BY <1>5
  <2>. HIDE DEF n
  <2>. QED  BY <1>9, <2>1, <2>2 DEF PartsEnd
<1>. HIDE DEF flat, n, part
<1>11. ASSUME NEW k \in 1 .. n, text[k].kind # "span"
       PROVE  /\ ends[k] \in DOMAIN flat /\ flat[ends[k]] = text[k] /\ ends[k] = ends[k - 1] + 1
              /\ Len(seqs[k]) = 1
  <2>1. seqs[k] = <<text[k]>>
    BY <1>6, <1>11
  <2>0. 1 \in 1 .. 1
    OBVIOUS
  <2>2. Len(<<text[k]>>) = 1 /\ <<text[k]>>[1] = text[k]
    BY OneToken
  <2>3. Len(seqs[k]) = 1 /\ seqs[k][1] = text[k] /\ 1 \in 1 .. Len(seqs[k])
    BY <2>0, <2>1, <2>2
  <2>4. ends[k] = ends[k - 1] + 1
    BY <1>10, <2>3
  <2>5. ends[k - 1] + 1 \in 1 .. ends[n] /\ flat[ends[k - 1] + 1] = seqs[k][1]
    BY <1>10, <2>3
  <2>. QED  BY <1>10, <2>3, <2>4, <2>5
<1>. SUFFICES ASSUME NEW i \in DOMAIN flat
              PROVE  /\ flat[i].kind \notin {"numeral", "ordinal", "prose"}
                     /\ IsFigure(flat[i]) =>
                           /\ i + 1 \in DOMAIN flat /\ flat[i + 1].kind = "unit"
                           /\ flat[i].value \in permitted(allowed_numbers(r), {flat[i + 1].unit})
                     /\ flat[i].kind = "date" => flat[i].date \in allowed_dates(r)
                     /\ flat[i].kind = "time" => allowed_time(r, flat, i)
                     /\ flat[i].kind = "span" =>
                           flat[i].of \in {r.city, r.timezone} \cup Range(r.checklist) \cup titles(r)
  BY <1>2, <1>8 DEF Given
<1>12. PICK k \in 1 .. n : \E j \in 1 .. Len(seqs[k]) : i = ends[k - 1] + j
  BY <1>10
<1>13. PICK j \in 1 .. Len(seqs[k]) : i = ends[k - 1] + j
  BY <1>12
<1>14. flat[i] = seqs[k][j]
  <2>1. \A m \in 1 .. Len(seqs[k]) : flat[ends[k - 1] + m] = seqs[k][m]
    BY <1>10
  <2>. QED  BY <1>13, <2>1
<1>15. CASE text[k].kind = "span"
  <2>1. seqs[k] \in Seq(PlainToken)
    BY <1>5
  <2>2. j \in DOMAIN seqs[k]
    BY <2>1, LenProperties
  <2>3. seqs[k][j].kind \in {"word", "glue", "stop"}
    BY <1>7, <1>15, <2>2 DEF Harmless
  <2>. QED  BY <1>14, <2>3 DEF IsFigure
<1>16. CASE text[k].kind # "span"
  <2>1. /\ flat[ends[k]] = text[k] /\ ends[k] = ends[k - 1] + 1 /\ Len(seqs[k]) = 1
    BY <1>11, <1>16
  <2>2. i = ends[k]
    <3>1. j = 1
      BY <2>1
    <3>. QED  BY <1>13, <2>1, <3>1
  <2>3. flat[i] = text[k]
    BY <2>1, <2>2
  <2>4. /\ text[k].kind \notin {"numeral", "ordinal", "prose"}
        /\ IsFigure(text[k]) =>
              /\ k + 1 \in 1 .. n /\ text[k + 1].kind = "unit"
              /\ text[k].value \in permitted(allowed_numbers(r), {text[k + 1].unit})
        /\ text[k].kind = "date" => text[k].date \in allowed_dates(r)
        /\ text[k].kind = "time" => allowed_time(r, text, k)
    BY <1>3 DEF Given
  <2>5. ASSUME IsFigure(text[k])
        PROVE  i + 1 \in DOMAIN flat /\ flat[i + 1] = text[k + 1]
    <3>1. k + 1 \in 1 .. n /\ text[k + 1].kind # "span"
      BY <2>4, <2>5
    <3>2. ends[k + 1] \in DOMAIN flat /\ flat[ends[k + 1]] = text[k + 1] /\ ends[k + 1] = ends[(k + 1) - 1] + 1
      BY <1>11, <3>1
    <3>3. (k + 1) - 1 = k
      BY <1>3
    <3>. QED  BY <2>2, <3>2, <3>3
  <2>6. ASSUME k > 1, text[k - 1].kind = "date" PROVE i > 1 /\ flat[i - 1] = text[k - 1]
    <3>1. k - 1 \in 1 .. n /\ text[k - 1].kind # "span"
      <4>1. n \in Nat /\ k \in 1 .. n /\ k > 1
        BY <1>3, <2>6
      <4>2. k - 1 \in 1 .. n
        BY <4>1
      <4>. QED  BY <2>6, <4>2
    <3>2. ends[k - 1] \in DOMAIN flat /\ flat[ends[k - 1]] = text[k - 1]
      BY <1>11, <3>1
    <3>3. ends[k - 1] \in 1 .. ends[n] /\ ends[k - 1] \in Nat
      <4>1. k - 1 \in 0 .. n
        BY <3>1
      <4>2. ends[k - 1] \in Nat
        BY <1>10, <4>1
      <4>. QED  BY <1>10, <3>2, <4>2
    <3>4. i = ends[k - 1] + 1
      BY <2>1, <2>2
    <3>5. i - 1 = ends[k - 1] /\ i > 1
      BY <3>3, <3>4
    <3>. QED  BY <3>2, <3>5
  <2>7. allowed_time(r, text, k) => allowed_time(r, flat, i)
    BY <2>3, <2>6 DEF allowed_time
  <2>. QED  BY <1>16, <2>3, <2>4, <2>5, <2>7
<1>. QED  BY <1>15, <1>16

\* A given text breaks no rule about numbers.
LEMMA GivenPasses ==
    ASSUME NEW r, NEW text \in Seq(PlainToken), Given(r, text)
    PROVE  /\ ~ untraceable_numbers(r, text)
           /\ ~ word_numbers(r, text) /\ ~ day_counts_in_words(r, text)
<1>1. DOMAIN text = 1 .. Len(text) /\ Len(text) \in Nat
  BY LenProperties
<1>2. ASSUME NEW i \in DOMAIN text, text[i].kind \in {"figure", "decimal", "date", "time", "prose"}
      PROVE  ~ untraceable(r, text, i)
  <2>1. CASE IsFigure(text[i])
    <3>1. /\ i + 1 \in DOMAIN text /\ text[i + 1].kind = "unit"
          /\ text[i].value \in permitted(allowed_numbers(r), {text[i + 1].unit})
      BY <2>1 DEF Given
    <3>2. i < Len(text)
      BY <1>1, <3>1
    <3>3. unit_of(text, i) = {text[i + 1].unit}
      BY <3>1, <3>2 DEF unit_of, unit_after
    <3>. QED  BY <2>1, <3>1, <3>3 DEF untraceable, IsFigure
  <2>2. CASE text[i].kind = "date"
    BY <2>2 DEF Given, untraceable, IsFigure
  <2>3. CASE text[i].kind = "time"
    <3>1. allowed_time(r, text, i)
      BY <2>3 DEF Given
    <3>. QED  BY <2>3, <3>1 DEF untraceable, IsFigure
  <2>4. text[i].kind # "prose"
    BY DEF Given
  <2>. QED  BY <1>2, <2>1, <2>2, <2>3, <2>4 DEF IsFigure
<1>3. ASSUME NEW i \in DOMAIN text PROVE text[i] # Numeral /\ text[i] # Ordinal
  <2>1. text[i].kind \notin {"numeral", "ordinal"}
    BY DEF Given
  <2>2. Numeral.kind = "numeral" /\ Ordinal.kind = "ordinal"
    BY DEF Numeral, Ordinal, Token
  <2>. QED  BY <2>1, <2>2
<1>. QED  BY <1>2, <1>3 DEF untraceable_numbers, word_numbers, day_counts_in_words

-----------------------------------------------------------------------------
(* How often it writes a string. *)

\* There are finitely many occurrences.
LEMMA OccursTyped ==
    ASSUME NEW T, NEW u \in Seq(T), NEW x
    PROVE  /\ IsFiniteSet({i \in DOMAIN u : u[i] = x})
           /\ Occurrences(u, x) \in Nat
           /\ Occurrences(u, x) = 0 <=> Free(u, x)
<1>. DEFINE at == {i \in DOMAIN u : u[i] = x}
<1>1. IsFiniteSet(at)
  <2>1. DOMAIN u = 1 .. Len(u) /\ Len(u) \in Nat
    BY LenProperties
  <2>2. IsFiniteSet(1 .. Len(u))
    BY <2>1, FS_Interval
  <2>3. at \in SUBSET (1 .. Len(u))
    BY <2>1
  <2>. QED  BY <2>2, <2>3, FS_Subset
<1>2. Occurrences(u, x) = Cardinality(at)
  BY DEF Occurrences
<1>3. at = {} <=> Free(u, x)
  BY DEF Free
<1>. HIDE DEF at
<1>4. Cardinality(at) \in Nat /\ (Cardinality(at) = 0 <=> at = {})
  BY <1>1, FS_CardinalityType, FS_EmptySet
<1>. QED  BY <1>1, <1>2, <1>3, <1>4 DEF at

\* What occurs in two parts occurs as often in the whole.
LEMMA OccursAdds ==
    ASSUME NEW T, NEW u \in Seq(T), NEW v \in Seq(T), NEW x
    PROVE  Occurrences(u \o v, x) = Occurrences(u, x) + Occurrences(v, x)
<1>. DEFINE w == u \o v
            m == Len(u)
            n == Len(v)
            A == {i \in 1 .. m : u[i] = x}
            B == {i \in 1 .. n : v[i] = x}
            C == {i \in 1 .. m + n : w[i] = x}
            D == {i \in C : i > m}
            f == [i \in B |-> m + i]
<1>1. /\ m \in Nat /\ n \in Nat /\ DOMAIN u = 1 .. m /\ DOMAIN v = 1 .. n
      /\ w \in Seq(T) /\ DOMAIN w = 1 .. m + n
      /\ \A i \in 1 .. m + n : w[i] = IF i <= m THEN u[i] ELSE v[i - m]
  BY ConcatProperties
<1>. HIDE DEF w, m, n
<1>2. /\ Occurrences(u, x) = Cardinality(A) /\ IsFiniteSet(A)
      /\ Occurrences(v, x) = Cardinality(B) /\ IsFiniteSet(B)
      /\ Occurrences(w, x) = Cardinality(C) /\ IsFiniteSet(C)
  <2>1. A = {i \in DOMAIN u : u[i] = x} /\ B = {i \in DOMAIN v : v[i] = x}
        /\ C = {i \in DOMAIN w : w[i] = x}
    BY <1>1
  <2>. HIDE DEF A, B, C
  <2>2. IsFiniteSet(A) /\ IsFiniteSet(B) /\ IsFiniteSet(C)
    BY <1>1, <2>1, OccursTyped
  <2>. QED  BY <2>1, <2>2 DEF Occurrences
<1>3. f \in Bijection(B, D)
  <2>1. ASSUME NEW i \in B PROVE m + i \in D
    <3>1. m + i \in 1 .. m + n /\ ~ (m + i <= m) /\ (m + i) - m = i /\ i \in 1 .. n /\ v[i] = x /\ m + i > m
      BY <1>1
    <3>2. w[m + i] = x
      BY <1>1, <3>1
    <3>. QED  BY <3>1, <3>2
  <2>2. ASSUME NEW j \in D PROVE j - m \in B /\ m + (j - m) = j
    <3>1. j \in 1 .. m + n /\ ~ (j <= m) /\ j - m \in 1 .. n /\ m + (j - m) = j
      BY <1>1
    <3>2. v[j - m] = x
      BY <1>1, <3>1
    <3>. QED  BY <3>1, <3>2
  <2>3. \A i, j \in B : m + i = m + j => i = j
    BY <1>1
  <2>. HIDE DEF B, D
  <2>4. f \in [B -> D] /\ \A i \in B : f[i] = m + i
    BY <2>1
  <2>5. \A i, j \in B : f[i] = f[j] => i = j
    BY <2>3, <2>4
  <2>6. \A j \in D : \E i \in B : f[i] = j
    BY <2>2, <2>4
  <2>. HIDE DEF f
  <2>7. f \in Injection(B, D)
    BY <2>4, <2>5 DEF Injection, IsInjective
  <2>8. f \in Surjection(B, D)
    BY <2>4, <2>6 DEF Surjection
  <2>. QED  BY <2>7, <2>8 DEF Bijection
<1>4. IsFiniteSet(D) /\ Cardinality(D) = Cardinality(B)
  <2>. HIDE DEF B, D, f
  <2>1. ExistsBijection(B, D)
    BY <1>3 DEF ExistsBijection
  <2>. QED  BY <1>2, <2>1, FS_Bijection
<1>5. C = A \cup D /\ A \cap D = {}
  <2>1. A \cap D = {}
    BY <1>1
  <2>2. ASSUME NEW i \in 1 .. m + n, ~ (i > m) PROVE i \in C <=> i \in A
    <3>1. i <= m /\ i \in 1 .. m
      BY <1>1, <2>2
    <3>2. w[i] = u[i]
      BY <1>1, <3>1
    <3>. QED  BY <3>1, <3>2
  <2>3. A \subseteq 1 .. m + n /\ \A i \in A : ~ (i > m)
    BY <1>1
  <2>4. C \subseteq 1 .. m + n /\ D \subseteq C /\ \A i \in C : i > m => i \in D
    OBVIOUS
  <2>. HIDE DEF A, C, D
  <2>5. A \subseteq C
    BY <2>2, <2>3
  <2>6. C \subseteq A \cup D
    BY <2>2, <2>4
  <2>. QED  BY <2>1, <2>4, <2>5, <2>6
<1>. HIDE DEF A, B, C, D
<1>6. Cardinality(C) = Cardinality(A) + Cardinality(D) - Cardinality(A \cap D)
  BY <1>2, <1>4, <1>5, FS_Union
<1>7. Cardinality(A \cap D) = 0 /\ Cardinality(A) \in Nat /\ Cardinality(D) \in Nat
  BY <1>2, <1>4, <1>5, FS_EmptySet, FS_CardinalityType
<1>. QED  BY <1>2, <1>4, <1>6, <1>7 DEF w

\* No more of it in the first part of a text than in all of it.
LEMMA OccursBefore ==
    ASSUME NEW T, NEW u \in Seq(T), NEW i \in 0 .. Len(u), NEW x
    PROVE  /\ SubSeq(u, 1, i) \in Seq(T)
           /\ Occurrences(SubSeq(u, 1, i), x) <= Occurrences(u, x)
<1>. DEFINE v == SubSeq(u, 1, i)
            A == {j \in DOMAIN v : v[j] = x}
            B == {j \in DOMAIN u : u[j] = x}
<1>1. Len(u) \in Nat /\ DOMAIN u = 1 .. Len(u) /\ i \in 0 .. Len(u) /\ i \in Int
  BY LenProperties
<1>2. v \in Seq(T) /\ Len(v) = i /\ \A j \in 1 .. i : v[j] = u[j]
  <2>1. \A j \in 1 .. i : u[j] \in T
    BY <1>1
  <2>2. /\ v \in Seq(T) /\ Len(v) = (IF 1 <= i THEN i - 1 + 1 ELSE 0)
        /\ \A j \in 1 .. i - 1 + 1 : v[j] = u[1 + j - 1]
    BY <1>1, <2>1, SubSeqProperties
  <2>. HIDE DEF v
  <2>3. \A j \in 1 .. i : j \in 1 .. i - 1 + 1 /\ 1 + j - 1 = j
    BY <1>1
  <2>4. \A j \in 1 .. i : v[j] = u[j]
    BY <2>2, <2>3
  <2>5. (IF 1 <= i THEN i - 1 + 1 ELSE 0) = i
    BY <1>1
  <2>. QED  BY <2>2, <2>4, <2>5
<1>. HIDE DEF v
<1>3. DOMAIN v = 1 .. i
  BY <1>2, LenProperties
<1>4. A \in SUBSET B
  BY <1>1, <1>2, <1>3
<1>5. IsFiniteSet(B)
  BY OccursTyped
<1>6. Occurrences(v, x) = Cardinality(A) /\ Occurrences(u, x) = Cardinality(B)
  BY DEF Occurrences
<1>. HIDE DEF A, B
<1>7. Cardinality(A) <= Cardinality(B)
  BY <1>4, <1>5, FS_Subset
<1>. QED  BY <1>2, <1>6, <1>7 DEF v

\* Part by part, one text gets no more of x than another of y.
NoMore(T, S, n, f, g, x, y) ==
    \A k \in 1 .. n : \E u \in Seq(T) : \E v \in Seq(S) :
       /\ f[k] = f[k - 1] \o u /\ g[k] = g[k - 1] \o v
       /\ Occurrences(u, x) <= Occurrences(v, y)

\* Of two texts that grow part by part, the one whose every part has no more
\* of x than the other's has of y has no more of it in all.
LEMMA OccursNoMore ==
    ASSUME NEW T, NEW S, NEW n \in Nat, NEW f \in [0 .. n -> Seq(T)], NEW g \in [0 .. n -> Seq(S)],
           NEW x, NEW y, f[0] = <<>>,
           NoMore(T, S, n, f, g, x, y)
    PROVE  Occurrences(f[n], x) <= Occurrences(g[n], y)
<1>. DEFINE Upto == {k \in Nat : k <= n => Occurrences(f[k], x) <= Occurrences(g[k], y)}
<1>1. 0 \in Upto
  <2>1. Free(<<>>, x)
    BY DEF Free
  <2>2. <<>> \in Seq(T) /\ g[0] \in Seq(S)
    OBVIOUS
  <2>3. Occurrences(<<>>, x) = 0 /\ Occurrences(g[0], y) \in Nat
    BY <2>1, <2>2, OccursTyped
  <2>. QED  BY <2>3
<1>2. ASSUME NEW k \in Nat, k \in Upto PROVE k + 1 \in Upto
  <2>1. SUFFICES ASSUME k + 1 <= n PROVE Occurrences(f[k + 1], x) <= Occurrences(g[k + 1], y)
    OBVIOUS
  <2>2. k + 1 \in 1 .. n /\ (k + 1) - 1 = k /\ k \in 0 .. n /\ k <= n
    BY <2>1
  <2>3. \E u \in Seq(T) : \E v \in Seq(S) :
              /\ f[k + 1] = f[k] \o u /\ g[k + 1] = g[k] \o v
              /\ Occurrences(u, x) <= Occurrences(v, y)
    BY <2>2 DEF NoMore
  <2>4. PICK u \in Seq(T) : \E v \in Seq(S) :
              /\ f[k + 1] = f[k] \o u /\ g[k + 1] = g[k] \o v
              /\ Occurrences(u, x) <= Occurrences(v, y)
    BY <2>3
  <2>5. PICK v \in Seq(S) :
              /\ f[k + 1] = f[k] \o u /\ g[k + 1] = g[k] \o v
              /\ Occurrences(u, x) <= Occurrences(v, y)
    BY <2>4
  <2>6. Occurrences(f[k], x) <= Occurrences(g[k], y)
    BY <1>2, <2>2
  <2>7. f[k] \in Seq(T) /\ g[k] \in Seq(S)
    BY <2>2
  <2>8. /\ Occurrences(f[k + 1], x) = Occurrences(f[k], x) + Occurrences(u, x)
        /\ Occurrences(g[k + 1], y) = Occurrences(g[k], y) + Occurrences(v, y)
    <3>. DEFINE a == f[k]
                b == g[k]
    <3>1. a \in Seq(T) /\ b \in Seq(S) /\ f[k + 1] = a \o u /\ g[k + 1] = b \o v
      BY <2>5, <2>7
    <3>. HIDE DEF a, b
    <3>2. Occurrences(a \o u, x) = Occurrences(a, x) + Occurrences(u, x)
      BY <3>1, OccursAdds
    <3>3. Occurrences(b \o v, y) = Occurrences(b, y) + Occurrences(v, y)
      BY <3>1, OccursAdds
    <3>. QED  BY <3>1, <3>2, <3>3 DEF a, b
  <2>9. /\ Occurrences(f[k], x) \in Nat /\ Occurrences(u, x) \in Nat
        /\ Occurrences(g[k], y) \in Nat /\ Occurrences(v, y) \in Nat
    BY <2>7, OccursTyped
  <2>. QED  BY <2>5, <2>6, <2>8, <2>9
<1>3. n \in Upto
  <2>. HIDE DEF Upto
  <2>. QED  BY <1>1, <1>2, FromZeroOn
<1>. QED  BY <1>3

\* A text that has x at most once, and only where another has y, has no more.
LEMMA OneForOne ==
    ASSUME NEW T, NEW S, NEW u \in Seq(T), NEW v \in Seq(S), NEW x, NEW y,
           AtMostOnce(u, x), Has(u, x) => Has(v, y)
    PROVE  Occurrences(u, x) <= Occurrences(v, y)
<1>1. Occurrences(u, x) \in Nat /\ Occurrences(v, y) \in Nat /\ Occurrences(u, x) <= 1
      /\ (Occurrences(u, x) = 0 <=> Free(u, x)) /\ (Occurrences(v, y) = 0 <=> Free(v, y))
  BY OccursTyped, AtMostOnceOccurs
<1>2. (Has(u, x) <=> ~ Free(u, x)) /\ (Has(v, y) <=> ~ Free(v, y))
  BY DEF Has, Free
<1>3. CASE Free(u, x)
  BY <1>1, <1>3
<1>4. CASE ~ Free(u, x)
  <2>1. Occurrences(v, y) # 0
    BY <1>1, <1>2, <1>4
  <2>. QED  BY <1>1, <2>1
<1>. QED  BY <1>3, <1>4

\* The line of one item has that item once, and no other string.
LEMMA ItemLine ==
    ASSUME NEW item \in SuppliedString, NEW s
    PROVE  /\ Line(<<Bullet, Span(item)>>) \in Seq(CalmToken)
           /\ AtMostOnce(Line(<<Bullet, Span(item)>>), Span(s))
           /\ Has(Line(<<Bullet, Span(item)>>), Span(s)) => Has(<<item>>, s)
<1>. DEFINE x == Span(s)
            first == <<NewLine>>
            second == <<Bullet, Span(item)>>
<1>1. first \in Seq(CalmToken) /\ second \in Seq(CalmToken)
  BY Phrases
<1>2. NewLine # x /\ Bullet # x /\ (Span(item) = x => item = s)
  BY DEF NewLine, Bullet, Span, Token
<1>3. Free(first, x)
  BY <1>2 DEF Free
<1>4. AtMostOnce(second, x)
  BY <1>2 DEF AtMostOnce
<1>5. ASSUME item # s PROVE Free(second, x)
  BY <1>2, <1>5 DEF Free
<1>6. Line(second) = first \o second
  BY DEF Line
<1>7. Line(second) \in Seq(CalmToken)
  BY <1>1, LineIsCalm
<1>. HIDE DEF first, second
<1>8. AtMostOnce(first \o second, x)
  BY <1>1, <1>3, <1>4, Concatenated
<1>9. ASSUME item # s PROVE ~ Has(first \o second, x)
  BY <1>1, <1>3, <1>5, <1>9, Concatenated, FreeIsAtMostOnce
<1>10. Has(<<s>>, s)
  BY DEF Has
<1>. QED  BY <1>6, <1>7, <1>8, <1>9, <1>10 DEF second

\* The template writes no item more often than it is on the checklist.
LEMMA ItemsNoMore ==
    ASSUME NEW items \in Seq(SuppliedString), NEW n \in 0 .. Len(items), NEW s
    PROVE  Occurrences(Items(items, n), Span(s)) <= Occurrences(items, s)
<1>. DEFINE parts == [i \in 1 .. n |-> item_bullet(items[i])]
            g == [k \in 0 .. n |-> SubSeq(items, 1, k)]
<1>1. Len(items) \in Nat /\ n \in Nat /\ n \in 0 .. Len(items)
      /\ \A i \in 1 .. Len(items) : items[i] \in SuppliedString
  BY LenProperties
<1>2. parts \in Seq(Seq(CalmToken)) /\ Len(parts) = n /\ FlattenSeq(parts) = Items(items, n)
      /\ Items(items, n) \in Seq(CalmToken)
  BY ItemLines DEF Items
<1>3. \A k \in 1 .. n : parts[k] = Line(<<Bullet, Span(items[k])>>) \/ parts[k] = <<>>
  BY DEF item_bullet
<1>. HIDE DEF parts
<1>4. PICK f \in [0 .. n -> Seq(CalmToken)] :
         /\ f[0] = <<>>
         /\ \A k \in 1 .. n : f[k] = f[k - 1] \o parts[k]
         /\ FlattenSeq(parts) = f[n]
  BY <1>2, Flattened
<1>5. g \in [0 .. n -> Seq(SuppliedString)]
  <2>1. ASSUME NEW k \in 0 .. n PROVE SubSeq(items, 1, k) \in Seq(SuppliedString)
    <3>1. k \in 0 .. Len(items)
      BY <1>1
    <3>. QED  BY <3>1, OccursBefore
  <2>. QED  BY <2>1
<1>7. \A k \in 0 .. n : g[k] = SubSeq(items, 1, k)
  OBVIOUS
<1>. HIDE DEF g
<1>6. ASSUME NEW k \in 1 .. n
      PROVE  \E u \in Seq(CalmToken) : \E v \in Seq(SuppliedString) :
                /\ f[k] = f[k - 1] \o u /\ g[k] = g[k - 1] \o v
                /\ Occurrences(u, Span(s)) <= Occurrences(v, s)
  <2>1. k \in 1 .. Len(items) /\ k - 1 \in 0 .. n /\ k \in 0 .. n /\ items[k] \in SuppliedString
        /\ 1 \in 1 .. Len(items) /\ k \in 1 .. Len(items)
    BY <1>1
  <2>2. SubSeq(items, 1, k) = SubSeq(items, 1, k - 1) \o <<items[k]>>
    BY <2>1, SubSeqRecursiveSecond
  <2>3. g[k] = g[k - 1] \o <<items[k]>>
    <3>1. g[k] = SubSeq(items, 1, k)
      BY <1>7, <2>1
    <3>2. g[k - 1] = SubSeq(items, 1, k - 1)
      BY <1>7, <2>1
    <3>. QED  BY <2>2, <3>1, <3>2, Zenon
  <2>4. parts[k] \in Seq(CalmToken) /\ <<items[k]>> \in Seq(SuppliedString)
    <3>1. parts[k] \in Seq(CalmToken)
      <4>1. k \in 1 .. Len(parts)
        BY <1>2
      <4>2. parts \in Seq(Seq(CalmToken))
        BY <1>2
      <4>. QED  BY ONLY <4>1, <4>2
    <3>2. <<items[k]>> \in Seq(SuppliedString)
      BY <2>1
    <3>. QED  BY <3>1, <3>2
  <2>5. Occurrences(parts[k], Span(s)) <= Occurrences(<<items[k]>>, s)
    <3>1. AtMostOnce(parts[k], Span(s)) /\ (Has(parts[k], Span(s)) => Has(<<items[k]>>, s))
      <4>1. AtMostOnce(<<>>, Span(s)) /\ ~ Has(<<>>, Span(s))
        BY DEF AtMostOnce, Has
      <4>. QED  BY <1>3, <2>1, <4>1, ItemLine
    <3>. QED  BY <2>4, <3>1, OneForOne
  <2>6. f[k] = f[k - 1] \o parts[k]
    BY <1>4
  <2>. QED  BY <2>3, <2>4, <2>5, <2>6, Zenon
<1>8. Occurrences(f[n], Span(s)) <= Occurrences(g[n], s)
  <2>1. NoMore(CalmToken, SuppliedString, n, f, g, Span(s), s)
    BY <1>6 DEF NoMore
  <2>. QED  BY <1>1, <1>4, <1>5, <2>1, OccursNoMore
<1>9. Occurrences(g[n], s) <= Occurrences(items, s)
  <2>1. g[n] = SubSeq(items, 1, n)
    BY <1>1, <1>7
  <2>. QED  BY <1>1, <2>1, OccursBefore
<1>10. Occurrences(f[n], Span(s)) \in Nat /\ Occurrences(g[n], s) \in Nat /\ Occurrences(items, s) \in Nat
  <2>1. f[n] \in Seq(CalmToken) /\ g[n] \in Seq(SuppliedString)
    BY <1>1, <1>4, <1>5
  <2>. QED  BY <2>1, OccursTyped
<1>11. Items(items, n) = f[n]
  BY <1>2, <1>4
<1>. QED  BY <1>8, <1>9, <1>10, <1>11

\* What the reasons name, one after the other.
Named1(reason) == IF reason.kind = "warning" THEN <<reason.title>> ELSE <<>>

\* What is written of one reason has the title it names once, and no other
\* string.
LEMMA ReasonLine ==
    ASSUME NEW reason \in Reason, NEW s
    PROVE  /\ Bulleted(reason) \in Seq(CalmToken)
           /\ Named1(reason) \in Seq(SuppliedString)
           /\ AtMostOnce(Bulleted(reason), Span(s))
           /\ Has(Bulleted(reason), Span(s)) => Has(Named1(reason), s)
<1>. DEFINE x == Span(s)
            y == render_reason_es(reason)
            bullet == Line(<<Bullet>>)
<1>1. y \in Seq(CalmToken) /\ bullet \in Seq(CalmToken)
  <2>1. <<Bullet>> \in Seq(CalmToken)
    BY Phrases
  <2>. QED  BY <2>1, LineIsCalm, ReasonIsCalm
<1>2. \A t : t.kind # "span" => t # x
  BY DEF Span
<1>3. /\ \A t \in {NewLine, Bullet, Glue, Word, Senamhi, Stop, Connector, Continuing} : t.kind # "span"
      /\ \A v : Figure(v).kind # "span" /\ Decimal(v).kind # "span" /\ Unit(v).kind # "span" /\ Noun(v).kind # "span"
      /\ \A t : Span(t) = x => t = s
  BY DEF NewLine, Bullet, Glue, Word, Senamhi, Stop, Connector, Continuing, Token, Figure, Decimal, Unit, Noun,
         Span
<1>4. Free(bullet, x)
  <2>1. bullet = <<NewLine>> \o <<Bullet>>
    BY DEF Line
  <2>2. <<NewLine>> \in Seq(CalmToken) /\ <<Bullet>> \in Seq(CalmToken)
    BY Phrases
  <2>3. Free(<<NewLine>>, x) /\ Free(<<Bullet>>, x)
    BY <1>2, <1>3 DEF Free
  <2>. QED  BY <2>1, <2>2, <2>3, Concatenated
<1>. HIDE DEF bullet
<1>5. AtMostOnce(y, x) /\ (Has(y, x) => Has(Named1(reason), s)) /\ Named1(reason) \in Seq(SuppliedString)
  <2>1. CASE reason.kind = "warning"
    <3>. DEFINE z == <<Glue, Glue, Senamhi, Glue, Glue, Span(reason.title), Stop>>
    <3>1. y = z /\ Named1(reason) = <<reason.title>>
      BY <2>1 DEF render_reason_es, Named1
    <3>2. DOMAIN z = 1 .. 7
      OBVIOUS
    <3>3. \A i \in 1 .. 7 : i # 6 => z[i] \in {Glue, Senamhi, Stop}
      OBVIOUS
    <3>4. z[6] = Span(reason.title)
      OBVIOUS
    <3>. HIDE DEF z, x
    <3>5. \A i \in 1 .. 7 : z[i] = x => i = 6
      BY <1>2, <1>3, <3>3
    <3>6. AtMostOnce(z, x)
      BY <3>2, <3>5 DEF AtMostOnce
    <3>7. ASSUME Has(z, x) PROVE reason.title = s
      <4>1. z[6] = x
        BY <3>2, <3>5, <3>7 DEF Has
      <4>. QED  BY <1>3, <3>4, <4>1
    <3>8. Has(<<s>>, s)
      BY DEF Has
    <3>9. reason.title \in SuppliedString
      BY <2>1 DEF Reason
    <3>. QED  BY <3>1, <3>6, <3>7, <3>8, <3>9
  <2>2. ASSUME reason.kind # "warning" PROVE Free(y, x)
    <3>1. CASE reason.kind = "forecast"
      <4>. DEFINE z == <<Word, Decimal(one_decimal(reason.accumulated_mm)), Unit("mm"), Connector, Word, Word,
              Glue, Figure(Whole(reason.hours)), Unit("h"), Connector, Connector, Noun("%"), Word,
              Connector, Figure(Whole(reason.probability_pct)), Unit("%"), Stop>>
      <4>1. y = z
        BY <3>1 DEF render_reason_es
      <4>2. \A i \in DOMAIN z :
               \/ z[i] \in {Word, Connector, Glue, Stop}
               \/ \E v : z[i] = Figure(v) \/ z[i] = Decimal(v) \/ z[i] = Unit(v) \/ z[i] = Noun(v)
        OBVIOUS
      <4>. HIDE DEF z, y, x
      <4>3. \A i \in DOMAIN z : z[i].kind # "span"
        BY <1>3, <4>2
      <4>. QED  BY <1>2, <4>1, <4>3 DEF Free
    <3>2. CASE reason.kind = "no_qualifying"
      <4>. DEFINE z == <<Glue, Glue, Glue, Glue, Senamhi, Glue, Glue, Stop,
              Word, Continuing, Word, Glue, Word, Word, Stop>>
      <4>1. y = z
        BY <3>2 DEF render_reason_es
      <4>2. \A i \in DOMAIN z : z[i] \in {Word, Glue, Stop, Senamhi, Continuing}
        OBVIOUS
      <4>. HIDE DEF z, y, x
      <4>3. \A i \in DOMAIN z : z[i].kind # "span"
        BY <1>3, <4>2
      <4>. QED  BY <1>2, <4>1, <4>3 DEF Free
    <3>3. CASE reason.kind = "senamhi_unavailable"
      BY <3>3 DEF render_reason_es, Free
    <3>. QED  BY <2>2, <3>1, <3>2, <3>3 DEF Reason
  <2>3. ASSUME reason.kind # "warning" PROVE Named1(reason) = <<>>
    BY <2>3 DEF Named1
  <2>4. <<>> \in Seq(SuppliedString)
    OBVIOUS
  <2>. QED  BY <2>1, <2>2, <2>3, <2>4, FreeIsAtMostOnce
<1>. HIDE DEF x, y
<1>6. AtMostOnce(bullet \o y, x) /\ (Has(bullet \o y, x) => Has(Named1(reason), s))
  <2>1. AtMostOnce(bullet \o y, x)
    BY <1>1, <1>4, <1>5, Concatenated
  <2>2. ASSUME ~ Has(y, x) PROVE ~ Has(bullet \o y, x)
    <3>1. Free(y, x)
      BY <2>2 DEF Has, Free
    <3>. QED  BY <1>1, <1>4, <3>1, Concatenated, FreeIsAtMostOnce
  <2>. QED  BY <1>5, <2>1, <2>2
<1>7. bullet \o y \in Seq(CalmToken) /\ <<>> \in Seq(CalmToken)
  BY <1>1, ConcatProperties
<1>8. AtMostOnce(<<>>, x) /\ ~ Has(<<>>, x)
  BY DEF AtMostOnce, Has
<1>9. Bulleted(reason) = IF y = <<>> THEN <<>> ELSE bullet \o y
  BY DEF Bulleted, y, bullet
<1>. QED  BY <1>5, <1>6, <1>7, <1>8, <1>9 DEF x

\* The titles the reasons name, in order.
NamedTitles(reasons) ==
    FlattenSeq([i \in DOMAIN reasons |-> IF reasons[i].kind = "warning" THEN <<reasons[i].title>> ELSE <<>>])

\* The template writes no title more often than the reasons name it.
LEMMA BulletsNoMore ==
    ASSUME NEW reasons \in Seq(Reason), NEW s
    PROVE  /\ NamedTitles(reasons) \in Seq(SuppliedString)
           /\ Occurrences(Bullets(reasons), Span(s)) <= Occurrences(NamedTitles(reasons), s)
<1>. DEFINE n == Len(reasons)
            lines == [i \in DOMAIN reasons |-> Bulleted(reasons[i])]
            names == [i \in DOMAIN reasons |->
                         IF reasons[i].kind = "warning" THEN <<reasons[i].title>> ELSE <<>>]
<1>1. n \in Nat /\ DOMAIN reasons = 1 .. n /\ \A i \in 1 .. n : reasons[i] \in Reason
  BY LenProperties
<1>2. /\ lines \in Seq(Seq(CalmToken)) /\ Len(lines) = n
      /\ \A k \in 1 .. n : lines[k] = Bulleted(reasons[k])
  BY <1>1, Reasons
<1>3. \A k \in 1 .. n : names[k] = Named1(reasons[k])
  BY <1>1 DEF Named1
<1>4. names \in Seq(Seq(SuppliedString)) /\ Len(names) = n
  <2>1. ASSUME NEW k \in 1 .. n PROVE names[k] \in Seq(SuppliedString)
    <3>1. reasons[k] \in Reason
      BY <1>1
    <3>2. Named1(reasons[k]) \in Seq(SuppliedString)
      BY <3>1, ReasonLine
    <3>. QED  BY <1>3, <3>2
  <2>2. names = [k \in 1 .. n |-> names[k]]
    BY <1>1
  <2>. HIDE DEF names, n
  <2>3. names \in [1 .. n -> Seq(SuppliedString)]
    BY <2>1, <2>2
  <2>. QED  BY <1>1, <2>3
<1>5. Bullets(reasons) = FlattenSeq(lines) /\ NamedTitles(reasons) = FlattenSeq(names)
  BY DEF Bullets, NamedTitles
<1>. HIDE DEF lines, names, n
<1>6. PICK f \in [0 .. n -> Seq(CalmToken)] :
         /\ f[0] = <<>>
         /\ \A k \in 1 .. n : f[k] = f[k - 1] \o lines[k]
         /\ FlattenSeq(lines) = f[n]
  BY <1>2, Flattened
<1>7. PICK g \in [0 .. n -> Seq(SuppliedString)] :
         /\ g[0] = <<>>
         /\ \A k \in 1 .. n : g[k] = g[k - 1] \o names[k]
         /\ FlattenSeq(names) = g[n]
  BY <1>4, Flattened
<1>8. ASSUME NEW k \in 1 .. n
      PROVE  \E u \in Seq(CalmToken) : \E v \in Seq(SuppliedString) :
                /\ f[k] = f[k - 1] \o u /\ g[k] = g[k - 1] \o v
                /\ Occurrences(u, Span(s)) <= Occurrences(v, s)
  <2>1. reasons[k] \in Reason /\ lines[k] = Bulleted(reasons[k]) /\ names[k] = Named1(reasons[k])
    BY <1>1, <1>2, <1>3
  <2>2. /\ lines[k] \in Seq(CalmToken) /\ names[k] \in Seq(SuppliedString)
        /\ AtMostOnce(lines[k], Span(s)) /\ (Has(lines[k], Span(s)) => Has(names[k], s))
    BY <2>1, ReasonLine
  <2>3. Occurrences(lines[k], Span(s)) <= Occurrences(names[k], s)
    BY <2>2, OneForOne
  <2>4. f[k] = f[k - 1] \o lines[k] /\ g[k] = g[k - 1] \o names[k]
    BY <1>6, <1>7
  <2>. QED  BY <2>2, <2>3, <2>4, Zenon
<1>9. NoMore(CalmToken, SuppliedString, n, f, g, Span(s), s)
  BY <1>8 DEF NoMore
<1>10. Occurrences(f[n], Span(s)) <= Occurrences(g[n], s)
  BY <1>1, <1>6, <1>7, <1>9, OccursNoMore
<1>11. g[n] \in Seq(SuppliedString)
  BY <1>1, <1>7
<1>. QED  BY <1>5, <1>6, <1>7, <1>10, <1>11

\* The opening names the city, and the timezone once.
LEMMA OpeningOnce ==
    ASSUME NEW r \in MessageRequest, NEW s, s # r.city
    PROVE  /\ Opening(r) \in Seq(TextToken)
           /\ AtMostOnce(Opening(r), Span(s))
           /\ Has(Opening(r), Span(s)) => s = r.timezone
<1>. DEFINE start == Moment(r.window.start)
            end == Moment(r.window.end)
            place == <<Word, Word, Span(r.timezone)>>
            lead == <<Word, Glue>>
            to == <<Glue>>
            before == ((lead \o start) \o to) \o end
            period == lead \o start \o to \o end \o place
            city == <<Word, Span(r.city)>>
            named == <<Glue, Word>>
            new == <<NewLine>>
            x == Span(s)
<1>1. /\ r.city \in SuppliedString /\ r.timezone \in SuppliedString
      /\ r.window.start \in Int /\ r.window.end \in Int
  BY DEF MessageRequest, TimeWindow
<1>2. /\ start \in Seq(TextToken) /\ end \in Seq(TextToken)
  BY <1>1, MomentIsCalm, CalmIsText
<1>3. /\ lead \in Seq(TextToken) /\ to \in Seq(TextToken) /\ named \in Seq(TextToken)
      /\ new \in Seq(TextToken) /\ place \in Seq(TextToken) /\ city \in Seq(TextToken)
  <2>1. /\ lead \in Seq(CalmToken) /\ to \in Seq(CalmToken) /\ named \in Seq(CalmToken)
        /\ new \in Seq(CalmToken) /\ place \in Seq(CalmToken) /\ city \in Seq(CalmToken)
    BY <1>1, Phrases
  <2>. QED  BY <2>1, CalmIsText
<1>4. /\ \A t \in {NewLine, Glue, Word} : t # x
      /\ \A v : Date(v) # x /\ Time(v) # x
      /\ \A t : Span(t) = x => t = s
  BY DEF NewLine, Glue, Word, Token, Date, Time, Span
<1>5. Free(start, x) /\ Free(end, x)
  BY <1>4 DEF Moment, Free
<1>6. Free(lead, x) /\ Free(to, x) /\ Free(named, x) /\ Free(new, x) /\ Free(city, x)
  BY <1>4 DEF Free
<1>7. AtMostOnce(place, x) /\ (Has(place, x) => s = r.timezone)
  <2>1. AtMostOnce(place, x)
    BY <1>4 DEF AtMostOnce
  <2>2. ASSUME Has(place, x) PROVE s = r.timezone
    BY <1>4, <2>2 DEF Has
  <2>. QED  BY <2>1, <2>2
<1>8. Opening(r) = (city \o (new \o named)) \o (new \o period)
  BY DEF Opening, Line
<1>9. period = before \o place
  OBVIOUS
<1>. HIDE DEF start, end, place, lead, to, period, city, named, new, x, before
<1>10. before \in Seq(TextToken) /\ Free(before, x)
  <2>1. lead \o start \in Seq(TextToken) /\ Free(lead \o start, x)
    BY <1>2, <1>3, <1>5, <1>6, Concatenated, ConcatProperties
  <2>2. (lead \o start) \o to \in Seq(TextToken) /\ Free((lead \o start) \o to, x)
    BY <1>3, <1>6, <2>1, Concatenated, ConcatProperties
  <2>3. ((lead \o start) \o to) \o end \in Seq(TextToken) /\ Free(((lead \o start) \o to) \o end, x)
    BY <1>2, <1>5, <2>2, Concatenated, ConcatProperties
  <2>. QED  BY <2>3 DEF before
<1>11. new \o named \in Seq(TextToken) /\ Free(new \o named, x)
  BY <1>3, <1>6, Concatenated, ConcatProperties
<1>12. city \o (new \o named) \in Seq(TextToken) /\ Free(city \o (new \o named), x)
  BY <1>3, <1>6, <1>11, Concatenated, ConcatProperties
<1>. DEFINE above == city \o (new \o named)
<1>13. above \in Seq(TextToken) /\ Free(above, x) /\ Opening(r) = above \o (new \o (before \o place))
  BY <1>8, <1>9, <1>12
<1>. HIDE DEF above
<1>14. /\ before \o place \in Seq(TextToken) /\ AtMostOnce(before \o place, x)
       /\ Free(place, x) => Free(before \o place, x)
  BY <1>3, <1>7, <1>10, Concatenated, ConcatProperties
<1>. DEFINE tail == before \o place
<1>15. tail \in Seq(TextToken) /\ AtMostOnce(tail, x) /\ (Free(place, x) => Free(tail, x))
       /\ Opening(r) = above \o (new \o tail)
  BY <1>13, <1>14
<1>. HIDE DEF tail
<1>16. /\ new \o tail \in Seq(TextToken) /\ AtMostOnce(new \o tail, x)
       /\ Free(place, x) => Free(new \o tail, x)
  BY <1>3, <1>6, <1>15, Concatenated, ConcatProperties
<1>17. /\ above \o (new \o tail) \in Seq(TextToken) /\ AtMostOnce(above \o (new \o tail), x)
       /\ Free(place, x) => Free(above \o (new \o tail), x)
  BY <1>13, <1>16, Concatenated, ConcatProperties
<1>18. ASSUME s # r.timezone PROVE ~ Has(Opening(r), x)
  <2>1. Free(place, x)
    BY <1>7, <1>18 DEF Has, Free
  <2>2. Free(Opening(r), x)
    BY <1>15, <1>17, <2>1
  <2>. QED  BY <2>2, FreeIsAtMostOnce
<1>. QED  BY <1>15, <1>17, <1>18 DEF x

\* What the system supplied is the checklist, the city, the timezone, the
\* titles the reasons name, and perhaps one more.
LEMMA SuppliedCounts ==
    ASSUME NEW r \in MessageRequest, NEW s
    PROVE  /\ supplied(r) \in Seq(SuppliedString)
           /\ Occurrences(r.checklist, s) + Occurrences(<<r.city, r.timezone>>, s)
                 + Occurrences(NamedTitles(r.reasons), s) <= Occurrences(supplied(r), s)
<1>. DEFINE a == r.checklist
            b == <<r.city, r.timezone>>
            c == SetToSeq({w.title : w \in r.warning})
            d == NamedTitles(r.reasons)
<1>1. a \in Seq(SuppliedString) /\ b \in Seq(SuppliedString) /\ r.reasons \in Seq(Reason)
  BY DEF MessageRequest
<1>2. c \in Seq(SuppliedString)
  <2>. DEFINE W == [level : DOMAIN WarningRank \ {"no_warning"}, title : SuppliedString, window : TimeWindow]
  <2>1. r.warning \subseteq W /\ \A v, w \in r.warning : v = w
    BY DEF MessageRequest, Optional
  <2>2. {w.title : w \in r.warning} \in SUBSET SuppliedString
    BY <2>1
  <2>. HIDE DEF W
  <2>3. {w.title : w \in r.warning} = {} \/ \E t : {w.title : w \in r.warning} = {t}
    BY <2>1
  <2>4. IsFiniteSet({w.title : w \in r.warning})
    BY <2>3, FS_EmptySet, FS_Singleton
  <2>. QED  BY <2>2, <2>4, SetToSeqTyped
<1>3. d \in Seq(SuppliedString)
  BY <1>1, BulletsNoMore
<1>4. supplied(r) = ((a \o b) \o c) \o d
  BY DEF supplied, NamedTitles
<1>. HIDE DEF a, b, c, d
<1>. DEFINE ab == a \o b
            abc == ab \o c
<1>5. ab \in Seq(SuppliedString) /\ Occurrences(ab, s) = Occurrences(a, s) + Occurrences(b, s)
  BY <1>1, OccursAdds, ConcatProperties
<1>6. supplied(r) = abc \o d
  BY <1>4
<1>. HIDE DEF ab
<1>7. abc \in Seq(SuppliedString) /\ Occurrences(abc, s) = Occurrences(ab, s) + Occurrences(c, s)
  BY <1>2, <1>5, OccursAdds, ConcatProperties
<1>. HIDE DEF abc
<1>8. abc \o d \in Seq(SuppliedString) /\ Occurrences(abc \o d, s) = Occurrences(abc, s) + Occurrences(d, s)
  BY <1>3, <1>7, OccursAdds, ConcatProperties
<1>9. /\ Occurrences(a, s) \in Nat /\ Occurrences(b, s) \in Nat
      /\ Occurrences(c, s) \in Nat /\ Occurrences(d, s) \in Nat
  BY <1>1, <1>2, <1>3, OccursTyped
<1>10. Occurrences(supplied(r), s)
          = ((Occurrences(a, s) + Occurrences(b, s)) + Occurrences(c, s)) + Occurrences(d, s)
  BY <1>5, <1>6, <1>7, <1>8
<1>11. Occurrences(a, s) + Occurrences(b, s) + Occurrences(d, s) <= Occurrences(supplied(r), s)
  BY <1>9, <1>10
<1>. QED  BY <1>6, <1>8, <1>11 DEF a, b, d

\* A heading and the line that says the checklist was cut hold no string of
\* the system's.
LEMMA NoStringThere ==
    ASSUME NEW s
    PROVE  /\ \A h \in SECTION_HEADERS : Free(Line(<<Header(h)>>), Span(s))
           /\ Free(CHECKLIST_TRUNCATED_ES, Span(s))
           /\ \A r : Free(down_lines(r), Span(s))
<1>1. \A t : t.kind # "span" => t # Span(s)
  BY DEF Span
<1>2. ASSUME NEW text \in Seq(SilentToken) PROVE Free(text, Span(s))
  <2>1. ASSUME NEW i \in DOMAIN text PROVE text[i].kind # "span"
    <3>1. text[i] \in SilentToken
      OBVIOUS
    <3>. QED  BY <3>1 DEF SilentToken
  <2>. QED  BY <1>1, <2>1 DEF Free
<1>3. ASSUME NEW h \in SECTION_HEADERS PROVE Line(<<Header(h)>>) \in Seq(SilentToken)
  <2>1. <<Header(h)>> \in Seq(SilentToken)
    BY SilentTokens
  <2>. QED  BY <2>1, SilentGiven
<1>4. CHECKLIST_TRUNCATED_ES \in Seq(SilentToken)
  <2>1. <<Bullet, Glue, Word, Word>> \in Seq(SilentToken)
    BY SilentTokens
  <2>. QED  BY <2>1, SilentGiven DEF CHECKLIST_TRUNCATED_ES
<1>5. \A r : down_lines(r) \in Seq(SilentToken)
  BY DownIsSilent
<1>. QED  BY <1>2, <1>3, <1>4, <1>5

\* The template writes no string but the city more often than it was supplied.
LEMMA BodyNoMore ==
    ASSUME NEW r \in MessageRequest, NEW s, s # r.city
    PROVE  Occurrences(body_of(r), Span(s)) <= Occurrences(supplied(r), s)
<1>. DEFINE x == Span(s)
            reasons == reason_lines(r.reasons)
            down == down_lines(r)
            motives == Line(<<Header("Motivos:")>>)
            heading == Line(<<Header("Recomendaciones:")>>)
            pair == <<r.city, r.timezone>>
            named == NamedTitles(r.reasons)
            rest == reasons \o down
<1>1. r.checklist \in Seq(SuppliedString) /\ r.reasons \in Seq(Reason) /\ pair \in Seq(SuppliedString)
      /\ named \in Seq(SuppliedString)
  <2>1. r.checklist \in Seq(SuppliedString) /\ r.reasons \in Seq(Reason)
        /\ r.city \in SuppliedString /\ r.timezone \in SuppliedString
    BY DEF MessageRequest
  <2>. QED  BY <2>1, BulletsNoMore
<1>2. Opening(r) \in Seq(TextToken) /\ Occurrences(Opening(r), x) <= Occurrences(pair, s)
  <2>1. Has(pair, r.timezone)
    BY DEF Has
  <2>2. /\ Opening(r) \in Seq(TextToken)
        /\ AtMostOnce(Opening(r), Span(s))
        /\ Has(Opening(r), Span(s)) => Has(pair, s)
    BY <2>1, OpeningOnce
  <2>. HIDE DEF pair
  <2>. QED  BY <1>1, <2>2, OneForOne
<1>3. SECTION_HEADERS = {"Motivos:", "Recomendaciones:"}
  BY DEF SECTION_HEADERS
<1>4. /\ motives \in Seq(TextToken) /\ Occurrences(motives, x) = 0
      /\ heading \in Seq(TextToken) /\ Occurrences(heading, x) = 0
  <2>1. motives \in Seq(TextToken) /\ heading \in Seq(TextToken) /\ Free(motives, x) /\ Free(heading, x)
    BY <1>3, HeadingLine, NoStringThere
  <2>. HIDE DEF motives, heading, x
  <2>. QED  BY <2>1, OccursTyped
<1>5. down \in Seq(TextToken) /\ Occurrences(down, x) = 0
  <2>1. down \in Seq(TextToken) /\ Free(down, x)
    BY DownLines, CalmIsText, NoStringThere
  <2>. HIDE DEF down, x
  <2>. QED  BY <2>1, OccursTyped
<1>6. reasons \in Seq(TextToken) /\ Occurrences(reasons, x) <= Occurrences(named, s)
  <2>. DEFINE bullets == Bullets(r.reasons)
  <2>1. bullets \in Seq(TextToken) /\ Occurrences(bullets, x) <= Occurrences(named, s)
    BY <1>1, Reasons, CalmIsText, BulletsNoMore
  <2>2. reasons = <<>> \/ reasons = motives \o bullets
    BY <1>1, Reasons
  <2>. HIDE DEF bullets, reasons, motives, named, x
  <2>3. motives \o bullets \in Seq(TextToken)
        /\ Occurrences(motives \o bullets, x) = Occurrences(motives, x) + Occurrences(bullets, x)
    BY <1>4, <2>1, OccursAdds, ConcatProperties
  <2>4. <<>> \in Seq(TextToken) /\ Occurrences(<<>>, x) = 0
    <3>1. Free(<<>>, x) /\ <<>> \in Seq(TextToken)
      BY DEF Free
    <3>. QED  BY <3>1, OccursTyped
  <2>5. Occurrences(bullets, x) \in Nat /\ Occurrences(named, s) \in Nat
    BY <1>1, <2>1, OccursTyped
  <2>6. CASE reasons = <<>>
    BY <2>4, <2>5, <2>6
  <2>7. CASE reasons = motives \o bullets
    BY <1>4, <2>1, <2>3, <2>5, <2>7
  <2>. QED  BY <2>2, <2>6, <2>7
<1>7. evaluation(r) = Opening(r) \o rest
  BY BodyParts
<1>8. /\ supplied(r) \in Seq(SuppliedString)
      /\ Occurrences(r.checklist, s) + Occurrences(pair, s) + Occurrences(named, s) <= Occurrences(supplied(r), s)
  BY SuppliedCounts
<1>. HIDE DEF x, reasons, down, motives, heading, pair, named
<1>9. rest \in Seq(TextToken) /\ Occurrences(rest, x) = Occurrences(reasons, x) + Occurrences(down, x)
  BY <1>5, <1>6, OccursAdds, ConcatProperties
<1>. HIDE DEF rest
<1>10. /\ evaluation(r) \in Seq(TextToken)
       /\ Occurrences(evaluation(r), x) = Occurrences(Opening(r), x) + Occurrences(rest, x)
  BY <1>2, <1>7, <1>9, OccursAdds, ConcatProperties
<1>11. /\ Occurrences(Opening(r), x) \in Nat /\ Occurrences(reasons, x) \in Nat
       /\ Occurrences(pair, s) \in Nat /\ Occurrences(named, s) \in Nat
       /\ Occurrences(r.checklist, s) \in Nat /\ Occurrences(supplied(r), s) \in Nat
       /\ Occurrences(evaluation(r), x) \in Nat
  BY <1>1, <1>2, <1>6, <1>8, <1>10, OccursTyped
<1>12. Occurrences(evaluation(r), x) <= Occurrences(pair, s) + Occurrences(named, s)
  BY <1>2, <1>5, <1>6, <1>9, <1>10, <1>11
<1>0. \A a, b, c, d, e, f \in Nat :
         a <= b + c /\ e <= d /\ d + b + c <= f => a <= f /\ a + e <= f
  OBVIOUS
<1>13. ASSUME body_of(r) = evaluation(r) PROVE Occurrences(body_of(r), x) <= Occurrences(supplied(r), s)
  <2>1. Occurrences(evaluation(r), x) <= Occurrences(supplied(r), s)
    BY <1>8, <1>11, <1>12
  <2>. QED  BY <1>13, <2>1
<1>14. ASSUME NEW n \in 0 .. Len(r.checklist), NEW cut \in BOOLEAN,
              body_of(r) = evaluation(r) \o Recommended(r.checklist, n, cut)
       PROVE  Occurrences(body_of(r), x) <= Occurrences(supplied(r), s)
  <2>. DEFINE items == Items(r.checklist, n)
              ending == IF cut THEN CHECKLIST_TRUNCATED_ES ELSE <<>>
              last == items \o ending
  <2>1. items \in Seq(TextToken) /\ Occurrences(items, x) <= Occurrences(r.checklist, s)
    <3>1. Occurrences(items, Span(s)) <= Occurrences(r.checklist, s)
      BY <1>1, ItemsNoMore
    <3>2. items \in Seq(CalmToken)
      BY <1>1, ItemLines
    <3>. QED  BY <3>1, <3>2, CalmIsText DEF x
  <2>2. ending \in Seq(TextToken) /\ Occurrences(ending, x) = 0
    <3>1. CHECKLIST_TRUNCATED_ES \in Seq(TextToken) /\ Free(CHECKLIST_TRUNCATED_ES, x)
      BY CutIsCalm, CalmIsText, NoStringThere DEF x
    <3>2. <<>> \in Seq(TextToken) /\ Free(<<>>, x)
      BY DEF Free
    <3>3. ending \in Seq(TextToken) /\ Free(ending, x)
      BY <3>1, <3>2
    <3>. HIDE DEF ending
    <3>. QED  BY <3>3, OccursTyped
  <2>3. Recommended(r.checklist, n, cut) = heading \o last
    BY DEF Recommended, heading
  <2>. HIDE DEF items, ending
  <2>4. last \in Seq(TextToken) /\ Occurrences(last, x) = Occurrences(items, x) + Occurrences(ending, x)
    BY <2>1, <2>2, OccursAdds, ConcatProperties
  <2>. HIDE DEF last
  <2>5. heading \o last \in Seq(TextToken)
        /\ Occurrences(heading \o last, x) = Occurrences(heading, x) + Occurrences(last, x)
    BY <1>4, <2>4, OccursAdds, ConcatProperties
  <2>. DEFINE end == heading \o last
  <2>6. end \in Seq(TextToken) /\ Occurrences(end, x) = Occurrences(heading, x) + Occurrences(last, x)
        /\ body_of(r) = evaluation(r) \o end
    BY <1>14, <2>3, <2>5
  <2>. HIDE DEF end
  <2>7. Occurrences(evaluation(r) \o end, x) = Occurrences(evaluation(r), x) + Occurrences(end, x)
    BY <1>10, <2>6, OccursAdds
  <2>8. Occurrences(items, x) \in Nat
    BY <2>1, OccursTyped
  <2>9. Occurrences(body_of(r), x) = Occurrences(evaluation(r), x) + Occurrences(items, x)
    BY <1>4, <1>11, <2>2, <2>4, <2>6, <2>7, <2>8
  <2>10. Occurrences(evaluation(r), x) + Occurrences(items, x) <= Occurrences(supplied(r), s)
    BY <1>0, <1>8, <1>11, <1>12, <2>1, <2>8
  <2>. QED  BY <2>9, <2>10
<1>15. Occurrences(body_of(r), x) <= Occurrences(supplied(r), s)
  BY <1>13, <1>14, BodyParts
<1>. QED  BY <1>15 DEF x

\* A string of the system's is its token.
LEMMA SpanOf ==
    ASSUME NEW t \in TextToken, t.kind = "span"
    PROVE  t = Span(t.of) /\ t.of \in SuppliedString
<1>1. t \in [kind : {"span"}, of : SuppliedString]
  BY DEF TextToken, PlainToken
<1>. QED  BY <1>1 DEF Span

\* The template's title, and what the numbers of a message are looked for in.
LEMMA TitleGiven ==
    ASSUME NEW r \in MessageRequest, NEW s, s # r.city
    PROVE  /\ template(r).title \in Seq(CalmToken) /\ Given(r, template(r).title)
           /\ Free(template(r).title, Span(s))
<1>. DEFINE title == <<Continuing, Glue, Word, Span(r.city), Word>>
<1>1. template(r).title = title
  BY DEF template
<1>2. r.city \in SuppliedString
  BY DEF MessageRequest
<1>3. title \in Seq(CalmToken)
  BY <1>2, Phrases
<1>4. \A i \in DOMAIN title : title[i] \in SilentToken \/ title[i] = Span(r.city)
  BY SilentTokens
<1>5. Free(title, Span(s))
  BY DEF Free, Span, Continuing, Glue, Word, Token
<1>. HIDE DEF title
<1>6. Given(r, title)
  BY <1>4, StringGiven
<1>. QED  BY <1>1, <1>3, <1>5, <1>6

\* The whole message is given, and quotes each string but the city's no more
\* often than it was supplied.
LEMMA TemplateGiven ==
    ASSUME NEW r \in MessageRequest, NEW text, text = template(r).title \o <<NewLine>> \o template(r).body
    PROVE  /\ Written(template(r)) /\ text \in Seq(TextToken) /\ Given(r, text)
           /\ \A s : s # r.city => Occurrences(text, Span(s)) <= Occurrences(supplied(r), s)
<1>. DEFINE title == template(r).title
            body == template(r).body
            new == <<NewLine>>
            above == title \o new
<1>1. title \in Seq(CalmToken) /\ Given(r, title)
  <2>1. \E s : s # r.city
    OBVIOUS
  <2>. QED  BY <2>1, TitleGiven
<1>2. body = body_of(r) /\ body \in Seq(TextToken) /\ Given(r, body)
  BY BodyGiven DEF template
<1>3. new \in Seq(SilentToken)
  BY SilentTokens
<1>4. new \in Seq(TextToken) /\ Given(r, new)
  BY <1>3, SilentGiven
<1>5. \A s : Free(new, Span(s))
  BY DEF Free, NewLine, Token, Span
<1>6. title \in Seq(TextToken)
  BY <1>1, CalmIsText
<1>7. text = above \o body
  OBVIOUS
<1>8. Written(template(r))
  BY <1>2, <1>6 DEF Written
<1>9. \A s : s # r.city => Free(title, Span(s))
  BY TitleGiven
<1>. HIDE DEF title, body, new
<1>10. above \in Seq(TextToken) /\ Given(r, above)
  BY <1>1, <1>4, <1>6, GivenConcat, ConcatProperties
<1>11. ASSUME NEW s, s # r.city PROVE Free(above, Span(s))
  BY <1>4, <1>5, <1>6, <1>9, <1>11, Concatenated
<1>. HIDE DEF above
<1>12. text \in Seq(TextToken) /\ Given(r, text)
  <2>1. above \o body \in Seq(TextToken) /\ Given(r, above \o body)
    BY <1>2, <1>10, GivenConcat, ConcatProperties
  <2>. QED  BY <1>7, <2>1
<1>13. ASSUME NEW s, s # r.city PROVE Occurrences(text, Span(s)) <= Occurrences(supplied(r), s)
  <2>1. Occurrences(above \o body, Span(s)) = Occurrences(above, Span(s)) + Occurrences(body, Span(s))
    BY <1>2, <1>10, OccursAdds
  <2>2. Occurrences(above, Span(s)) = 0 /\ Occurrences(body, Span(s)) \in Nat
    BY <1>2, <1>10, <1>11, <1>13, OccursTyped
  <2>3. Occurrences(body, Span(s)) <= Occurrences(supplied(r), s)
    BY <1>2, <1>13, BodyNoMore
  <2>4. Occurrences(above \o body, Span(s)) <= Occurrences(supplied(r), s)
    BY <2>1, <2>2, <2>3
  <2>. QED  BY <1>7, <2>4
<1>. QED  BY <1>8, <1>12, <1>13

\* A written text passes the rules on numbers if it is given, it writes a
\* string no more often than the system supplied it, and what it writes is
\* long enough to quote, or has no figure in it.
LEMMA CountsPass ==
    ASSUME NEW r \in MessageRequest, NEW d, Written(d),
           NEW text, text = d.title \o <<NewLine>> \o d.body,
           text \in Seq(TextToken), Given(r, text),
           \A s : s # r.city => Occurrences(text, Span(s)) <= Occurrences(supplied(r), s),
           \A s : Has(text, Span(s)) => s.long \/ Harmless(s.text),
           Harmless(r.city.text)
    PROVE  LET left == residue(r, d)
           IN  /\ ~ untraceable_numbers(r, left)
               /\ ~ word_numbers(r, left) /\ ~ day_counts_in_words(r, left)
<1>. DEFINE left == residue(r, d)
<1>1. supplied(r) \in Seq(SuppliedString)
  BY SuppliedCounts
<1>. HIDE DEF left
<1>2. ASSUME NEW i \in DOMAIN text, text[i].kind = "span"
      PROVE  verbatim(r, text, i) \/ Harmless(text[i].of.text)
  <2>. DEFINE s == text[i].of
  <2>1. text[i] \in TextToken /\ i \in 0 .. Len(text) /\ i \in 1 .. Len(text)
    <3>1. text \in Seq(TextToken)
      OBVIOUS
    <3>2. DOMAIN text = 1 .. Len(text) /\ Len(text) \in Nat
      BY ONLY <3>1, LenProperties
    <3>3. i \in 1 .. Len(text)
      BY <3>2
    <3>4. text[i] \in TextToken
      BY ONLY <3>1, <3>3
    <3>5. i \in 0 .. Len(text)
      BY ONLY <3>2, <3>3
    <3>. QED  BY <3>3, <3>4, <3>5
  <2>2. text[i] = Span(s) /\ s \in SuppliedString
    BY <1>2, <2>1, SpanOf
  <2>3. Has(text, Span(s))
    BY <2>2 DEF Has
  <2>. HIDE DEF s
  <2>4. CASE Harmless(s.text)
    BY <2>4 DEF s
  <2>5. CASE ~ Harmless(s.text)
    <3>1. Occurrences(text, Span(s)) <= Occurrences(supplied(r), s) /\ s.long
      BY <2>3, <2>5
    <3>2. Occurrences(SubSeq(text, 1, i), Span(s)) <= Occurrences(text, Span(s))
          /\ SubSeq(text, 1, i) \in Seq(TextToken)
      BY <2>1, OccursBefore
    <3>3. /\ Occurrences(SubSeq(text, 1, i), Span(s)) \in Nat /\ Occurrences(text, Span(s)) \in Nat
          /\ Occurrences(supplied(r), s) \in Nat
      BY <1>1, <3>2, OccursTyped
    <3>4. Occurrences(SubSeq(text, 1, i), Span(s)) <= Occurrences(supplied(r), s)
      BY <3>1, <3>2, <3>3
    <3>5. text[i].of.long /\ text[i].of = s
      BY <3>1 DEF s
    <3>. QED  BY <2>2, <3>4, <3>5 DEF verbatim
  <2>. QED  BY <2>4, <2>5
<1>3. left \in Seq(PlainToken) /\ Given(r, left)
  BY <1>2, ResidueGiven DEF left
<1>4. ~ untraceable_numbers(r, left) /\ ~ word_numbers(r, left) /\ ~ day_counts_in_words(r, left)
  BY <1>3, GivenPasses
<1>. QED  BY <1>4 DEF left

\* No number of the template's message is refused, if the strings it was
\* supplied with are long enough to be quotations wherever they count.
LEMMA TemplateCounts ==
    ASSUME NEW r \in MessageRequest,
           \A s \in Range(supplied(r)) : s.long \/ Harmless(s.text),
           Harmless(r.city.text)
    PROVE  LET text == residue(r, template(r))
           IN  /\ ~ untraceable_numbers(r, text)
               /\ ~ word_numbers(r, text) /\ ~ day_counts_in_words(r, text)
<1>. DEFINE text == template(r).title \o <<NewLine>> \o template(r).body
<1>1. /\ Written(template(r)) /\ text \in Seq(TextToken) /\ Given(r, text)
      /\ \A s : s # r.city => Occurrences(text, Span(s)) <= Occurrences(supplied(r), s)
  <2>. HIDE DEF text
  <2>. QED  BY TemplateGiven DEF text
<1>2. ASSUME NEW s, Has(text, Span(s)) PROVE s.long \/ Harmless(s.text)
  <2>1. CASE s # r.city
    <3>1. supplied(r) \in Seq(SuppliedString)
      BY SuppliedCounts
    <3>2. ~ Free(text, Span(s))
      BY <1>2 DEF Has, Free
    <3>3. /\ Occurrences(text, Span(s)) \in Nat /\ Occurrences(supplied(r), s) \in Nat
          /\ Occurrences(text, Span(s)) = 0 <=> Free(text, Span(s))
          /\ Occurrences(supplied(r), s) = 0 <=> Free(supplied(r), s)
      BY <1>1, <3>1, OccursTyped
    <3>4. ~ Free(supplied(r), s)
      BY <1>1, <2>1, <3>2, <3>3
    <3>. QED  BY <3>4 DEF Free, Range
  <2>. QED  BY <2>1
<1>. QED  BY <1>1, <1>2, CountsPass DEF text

-----------------------------------------------------------------------------
(* How it names SENAMHI. *)

\* What a reader of SENAMHI's name makes of one token.
FormOf(r, t) == IF t.kind = "span" /\ ~ Quoted(r, t) /\ t.of # r.city THEN t.of.text ELSE <<t>>

\* The tokens that do not name it.
QuietToken == {t \in TextToken : ~ SaysSenamhi(t)}

\* The tokens that are read as they are.
PlainlyRead(r) == {t \in TextToken : t.kind = "span" => Quoted(r, t)}

\* The form of a text, part by part.
LEMMA Forms ==
    ASSUME NEW r, NEW u \in Seq(TextToken)
    PROVE  /\ [i \in DOMAIN u |-> FormOf(r, u[i])] \in Seq(Seq(TextToken))
           /\ attribution_form(r, u) = FlattenSeq([i \in DOMAIN u |-> FormOf(r, u[i])])
           /\ attribution_form(r, u) \in Seq(TextToken)
           /\ u \in Seq(PlainlyRead(r)) => attribution_form(r, u) = u
           /\ u \in Seq(QuietToken) => attribution_form(r, u) \in Seq(QuietToken)
<1>. DEFINE n == Len(u)
            parts == [i \in DOMAIN u |-> FormOf(r, u[i])]
<1>1. n \in Nat /\ DOMAIN u = 1 .. n /\ \A i \in 1 .. n : u[i] \in TextToken
  BY LenProperties
<1>2. ASSUME NEW t \in TextToken PROVE FormOf(r, t) \in Seq(TextToken)
  <2>1. <<t>> \in Seq(TextToken)
    OBVIOUS
  <2>2. ASSUME t.kind = "span" PROVE t.of.text \in Seq(TextToken)
    <3>1. t.of.text \in Seq(PlainToken)
      BY <2>2, SpanOf DEF SuppliedString
    <3>2. PlainToken \subseteq TextToken
      BY DEF TextToken
    <3>. QED  BY <3>1, <3>2, SeqMonotonic
  <2>. QED  BY <2>1, <2>2 DEF FormOf
<1>3. attribution_form(r, u) = FlattenSeq(parts)
  BY DEF attribution_form, FormOf
<1>4. ASSUME NEW S, \A i \in 1 .. n : FormOf(r, u[i]) \in Seq(S)
      PROVE  parts \in Seq(Seq(S)) /\ attribution_form(r, u) \in Seq(S)
  <2>. HIDE DEF n
  <2>1. parts \in [1 .. n -> Seq(S)]
    BY <1>1, <1>4
  <2>. HIDE DEF parts
  <2>2. parts \in Seq(Seq(S))
    BY <1>1, <2>1
  <2>3. FlattenSeq(parts) \in Seq(S)
    BY <2>2, FlattenedPlaces
  <2>. QED  BY <1>3, <2>2, <2>3
<1>5. parts \in Seq(Seq(TextToken)) /\ attribution_form(r, u) \in Seq(TextToken)
  <2>1. \A i \in 1 .. n : FormOf(r, u[i]) \in Seq(TextToken)
    BY <1>1, <1>2
  <2>. HIDE DEF parts, n
  <2>. QED  BY <1>4, <2>1
<1>6. ASSUME u \in Seq(PlainlyRead(r)) PROVE attribution_form(r, u) = u
  <2>1. ASSUME NEW i \in DOMAIN u PROVE FormOf(r, u[i]) = <<u[i]>>
    <3>1. u[i] \in PlainlyRead(r)
      BY <1>6
    <3>. QED  BY <3>1 DEF PlainlyRead, FormOf
  <2>2. parts = [i \in DOMAIN u |-> <<u[i]>>]
    BY <2>1
  <2>3. FlattenSeq([i \in DOMAIN u |-> <<u[i]>>]) = u
    BY FlattenSingles
  <2>. QED  BY <1>3, <2>2, <2>3
<1>7. ASSUME u \in Seq(QuietToken) PROVE attribution_form(r, u) \in Seq(QuietToken)
  <2>1. ASSUME NEW t \in QuietToken PROVE FormOf(r, t) \in Seq(QuietToken)
    <3>1. <<t>> \in Seq(QuietToken) /\ t \in TextToken /\ ~ SaysSenamhi(t)
      BY DEF QuietToken
    <3>2. ASSUME t.kind = "span" PROVE t.of.text \in Seq(QuietToken)
      <4>1. t.of.text \in Seq(PlainToken)
        BY <3>1, <3>2, SpanOf DEF SuppliedString
      <4>2. \A k \in DOMAIN t.of.text : t.of.text[k] # Senamhi
        BY <3>1, <3>2 DEF SaysSenamhi
      <4>. DEFINE text == t.of.text
      <4>3. Len(text) \in Nat /\ DOMAIN text = 1 .. Len(text)
        BY <4>1, LenProperties
      <4>4. ASSUME NEW k \in 1 .. Len(text) PROVE text[k] \in QuietToken
        <5>1. text[k] \in PlainToken /\ text[k] # Senamhi
          BY <4>1, <4>2, <4>3
        <5>2. text[k].kind # "span"
          BY <5>1 DEF PlainToken
        <5>3. text[k] \in TextToken
          BY <5>1 DEF TextToken
        <5>. QED  BY <5>1, <5>2, <5>3 DEF QuietToken, SaysSenamhi
      <4>5. text \in Seq(PlainToken)
        BY <4>1
      <4>. HIDE DEF text
      <4>6. text \in Seq(QuietToken)
        BY <4>3, <4>4, <4>5
      <4>. QED  BY <4>6 DEF text
    <3>. QED  BY <3>1, <3>2 DEF FormOf
  <2>2. \A i \in 1 .. n : FormOf(r, u[i]) \in Seq(QuietToken)
    <3>1. \A i \in 1 .. n : u[i] \in QuietToken
      BY <1>1, <1>7
    <3>. QED  BY <2>1, <3>1
  <2>. HIDE DEF parts, n
  <2>. QED  BY <1>4, <2>2
<1>. QED  BY <1>3, <1>5, <1>6, <1>7

\* The form of a text in two parts is that of the first and that of the second.
LEMMA FormConcat ==
    ASSUME NEW r, NEW u \in Seq(TextToken), NEW v \in Seq(TextToken)
    PROVE  attribution_form(r, u \o v) = attribution_form(r, u) \o attribution_form(r, v)
<1>. DEFINE w == u \o v
            form(t) == [i \in DOMAIN t |-> FormOf(r, t[i])]
            fu == form(u)
            fv == form(v)
            fw == form(w)
            m == Len(u)
            n == Len(v)
<1>1. /\ m \in Nat /\ n \in Nat /\ w \in Seq(TextToken) /\ DOMAIN w = 1 .. m + n
      /\ DOMAIN u = 1 .. m /\ DOMAIN v = 1 .. n
      /\ \A i \in 1 .. m + n : w[i] = IF i <= m THEN u[i] ELSE v[i - m]
  BY ConcatProperties
<1>2. /\ fu \in Seq(Seq(TextToken)) /\ attribution_form(r, u) = FlattenSeq(fu)
      /\ fv \in Seq(Seq(TextToken)) /\ attribution_form(r, v) = FlattenSeq(fv)
  BY Forms
<1>3. fw \in Seq(Seq(TextToken)) /\ attribution_form(r, w) = FlattenSeq(fw)
  <2>. HIDE DEF w
  <2>. QED  BY <1>1, Forms
<1>. HIDE DEF w, m, n
<1>4. /\ DOMAIN fu = 1 .. m /\ \A i \in 1 .. m : fu[i] = FormOf(r, u[i])
      /\ DOMAIN fv = 1 .. n /\ \A i \in 1 .. n : fv[i] = FormOf(r, v[i])
      /\ DOMAIN fw = 1 .. m + n /\ \A i \in 1 .. m + n : fw[i] = FormOf(r, w[i])
  BY <1>1
<1>. HIDE DEF fu, fv, fw
<1>5. Len(fu) = m /\ Len(fv) = n /\ Len(fw) = m + n
  <2>1. m + n \in Nat
    BY <1>1
  <2>. QED  BY <1>1, <1>2, <1>3, <1>4, <2>1, LenProperties
<1>6. /\ fu \o fv \in Seq(Seq(TextToken)) /\ Len(fu \o fv) = m + n
      /\ \A i \in 1 .. m + n : (fu \o fv)[i] = IF i <= m THEN fu[i] ELSE fv[i - m]
  BY <1>2, <1>5, ConcatProperties
<1>7. ASSUME NEW i \in 1 .. m + n PROVE fw[i] = (fu \o fv)[i]
  <2>1. CASE i <= m
    <3>1. i \in 1 .. m
      BY <1>1, <2>1
    <3>. QED  BY <1>1, <1>4, <1>6, <2>1, <3>1
  <2>2. CASE ~ (i <= m)
    <3>1. i - m \in 1 .. n
      BY <1>1, <2>2
    <3>. QED  BY <1>1, <1>4, <1>6, <2>2, <3>1
  <2>. QED  BY <2>1, <2>2
<1>8. fw = fu \o fv
  BY <1>3, <1>5, <1>6, <1>7, SeqEqual
<1>9. FlattenSeq(fu \o fv) = FlattenSeq(fu) \o FlattenSeq(fv)
  BY <1>2, FlattenConcat
<1>. QED  BY <1>2, <1>3, <1>8, <1>9 DEF w

\* A line of a text from a to b, ended by a stop.
EndedLine(t, a, b) ==
    /\ a \in 2 .. Len(t) /\ b \in a .. Len(t)
    /\ t[a - 1] = NewLine /\ t[b] = Stop
    /\ \A j \in a .. b : t[j] # NewLine
    /\ b < Len(t) => t[b + 1] = NewLine

\* It goes on from no line before it: there is none that is said to matter, it
\* is a bullet, or the line before it is ended.
Opens(t, a, first) == t[a] = Bullet \/ (a > 2 /\ t[a - 2] = Stop) \/ (first /\ a = 2)

\* What parts the clauses of a statement.
Severs(token) == token.kind \in CLAUSE_BOUNDARIES \ {"newline"}

\* The clause of the mention at i quotes a title, or the line says nothing but
\* structured facts up to the end of its first sentence.
Attributed(r, t, a, i, b) ==
    \/ \E q \in i .. b : Quoted(r, t[q]) /\ \A k \in i .. q : ~ Severs(t[k])
    \/ \E e \in i .. b : t[e] = Stop /\ \A j \in a .. e - 1 : IsWord(t[j]) => is_structured_fact(r, t[j])

\* The mention at i is told as the rule asks, in a line of its own.
TellsAt(r, t, i, first) ==
    \E a \in 2 .. i : \E b \in i .. Len(t) :
        EndedLine(t, a, b) /\ Opens(t, a, first) /\ Attributed(r, t, a, i, b)

Tells(r, t, first) == \A i \in DOMAIN t : SaysSenamhi(t[i]) => TellsAt(r, t, i, first)

\* A text that does not name it has nothing to tell.
LEMMA QuietIsTold ==
    ASSUME NEW r, NEW t \in Seq(QuietToken), NEW first
    PROVE  Tells(r, t, first) /\ t \in Seq(TextToken)
<1>1. QuietToken \subseteq TextToken
  BY DEF QuietToken
<1>2. t \in Seq(TextToken)
  BY <1>1, SeqMonotonic
<1>3. \A i \in DOMAIN t : ~ SaysSenamhi(t[i])
  BY DEF QuietToken
<1>. QED  BY <1>2, <1>3 DEF Tells

\* A line of the second of two texts is one of both.
LEMMA LineAfter ==
    ASSUME NEW r, NEW u \in Seq(TextToken), NEW v \in Seq(TextToken), NEW i \in DOMAIN v,
           NEW a \in 2 .. i, NEW b \in i .. Len(v), EndedLine(v, a, b), Attributed(r, v, a, i, b)
    PROVE  /\ EndedLine(u \o v, Len(u) + a, Len(u) + b)
           /\ Attributed(r, u \o v, Len(u) + a, Len(u) + i, Len(u) + b)
<1>. DEFINE w == u \o v
            m == Len(u)
            n == Len(v)
<1>1. /\ m \in Nat /\ n \in Nat /\ DOMAIN v = 1 .. n /\ Len(w) = m + n
      /\ \A k \in 1 .. m + n : w[k] = IF k <= m THEN u[k] ELSE v[k - m]
  BY ConcatProperties, LenProperties
<1>2. b \in i .. n
  OBVIOUS
<1>. HIDE DEF w, m, n
<1>5. i \in 1 .. n /\ a \in 2 .. i /\ b \in i .. n
  BY <1>1, <1>2
<1>6. \A k \in 1 .. n : w[m + k] = v[k]
  <2>1. ASSUME NEW k \in 1 .. n PROVE w[m + k] = v[k]
    <3>1. m + k \in 1 .. m + n /\ ~ (m + k <= m) /\ (m + k) - m = k
      BY <1>1
    <3>. QED  BY <1>1, <3>1
  <2>. QED  BY <2>1
<1>7. \A k \in m + 1 .. m + n : w[k] = v[k - m] /\ k - m \in 1 .. n
  <2>1. ASSUME NEW k \in m + 1 .. m + n PROVE w[k] = v[k - m] /\ k - m \in 1 .. n
    <3>1. k \in 1 .. m + n /\ ~ (k <= m) /\ k - m \in 1 .. n
      BY <1>1
    <3>. QED  BY <1>1, <3>1
  <2>. QED  BY <2>1
<1>8. EndedLine(w, m + a, m + b)
  <2>1. /\ v[a - 1] = NewLine /\ v[b] = Stop /\ (\A j \in a .. b : v[j] # NewLine)
        /\ b < n => v[b + 1] = NewLine
    BY DEF EndedLine, n
  <2>2. /\ m + a \in 2 .. m + n /\ m + b \in m + a .. m + n
        /\ (m + a) - 1 = m + (a - 1) /\ a - 1 \in 1 .. n /\ b \in 1 .. n
    BY <1>1, <1>5
  <2>3. w[(m + a) - 1] = NewLine /\ w[m + b] = Stop
    BY <1>6, <2>1, <2>2
  <2>4. ASSUME NEW j \in m + a .. m + b PROVE w[j] # NewLine
    <3>1. j \in m + 1 .. m + n /\ j - m \in a .. b
      BY <1>1, <1>5
    <3>. QED  BY <1>7, <2>1, <3>1
  <2>5. ASSUME m + b < m + n PROVE w[(m + b) + 1] = NewLine
    <3>1. b < n /\ b + 1 \in 1 .. n /\ (m + b) + 1 = m + (b + 1)
      BY <1>1, <1>5, <2>5
    <3>2. w[m + (b + 1)] = v[b + 1]
      BY <1>6, <3>1
    <3>. QED  BY <2>1, <3>1, <3>2
  <2>. QED  BY <1>1, <2>2, <2>3, <2>4, <2>5 DEF EndedLine
<1>10. Attributed(r, w, m + a, m + i, m + b)
  <2>1. ASSUME NEW q \in i .. b, Quoted(r, v[q]), \A k \in i .. q : ~ Severs(v[k])
        PROVE  \E p \in m + i .. m + b : Quoted(r, w[p]) /\ \A k \in m + i .. p : ~ Severs(w[k])
    <3>1. m + q \in m + i .. m + b /\ q \in 1 .. n
      BY <1>1, <1>5
    <3>2. Quoted(r, w[m + q])
      BY <1>6, <2>1, <3>1
    <3>3. ASSUME NEW k \in m + i .. m + q PROVE ~ Severs(w[k])
      <4>1. k \in m + 1 .. m + n /\ k - m \in i .. q
        BY <1>1, <1>5
      <4>. QED  BY <1>7, <2>1, <4>1
    <3>. QED  BY <3>1, <3>2, <3>3
  <2>2. ASSUME NEW e \in i .. b, v[e] = Stop,
               \A j \in a .. e - 1 : IsWord(v[j]) => is_structured_fact(r, v[j])
        PROVE  \E p \in m + i .. m + b :
                  w[p] = Stop /\ \A j \in m + a .. p - 1 : IsWord(w[j]) => is_structured_fact(r, w[j])
    <3>1. m + e \in m + i .. m + b /\ e \in 1 .. n
      BY <1>1, <1>5
    <3>2. w[m + e] = Stop
      BY <1>6, <2>2, <3>1
    <3>3. ASSUME NEW j \in m + a .. (m + e) - 1 PROVE IsWord(w[j]) => is_structured_fact(r, w[j])
      <4>1. j \in m + 1 .. m + n /\ j - m \in a .. e - 1
        BY <1>1, <1>5
      <4>. QED  BY <1>7, <2>2, <4>1
    <3>. QED  BY <3>1, <3>2, <3>3
  <2>. QED  BY <2>1, <2>2 DEF Attributed
<1>. QED  BY <1>8, <1>10 DEF w, m

\* What is told of the second of two texts is told of both.
LEMMA ToldAfter ==
    ASSUME NEW r, NEW u \in Seq(TextToken), NEW v \in Seq(TextToken), NEW i \in DOMAIN v,
           NEW first \in BOOLEAN, NEW second \in BOOLEAN, TellsAt(r, v, i, second),
           second => u # <<>> /\ u[Len(u)] = Stop
    PROVE  TellsAt(r, u \o v, Len(u) + i, first)
<1>. DEFINE w == u \o v
            m == Len(u)
            n == Len(v)
<1>1. /\ m \in Nat /\ n \in Nat /\ DOMAIN v = 1 .. n /\ Len(w) = m + n
      /\ \A k \in 1 .. m + n : w[k] = IF k <= m THEN u[k] ELSE v[k - m]
      /\ m = 0 <=> u = <<>>
  BY ConcatProperties, LenProperties, EmptySeq
<1>2. PICK a \in 2 .. i : \E b \in i .. n :
         EndedLine(v, a, b) /\ Opens(v, a, second) /\ Attributed(r, v, a, i, b)
  BY DEF TellsAt
<1>3. PICK b \in i .. n : EndedLine(v, a, b) /\ Opens(v, a, second) /\ Attributed(r, v, a, i, b)
  BY <1>2
<1>4. u # <<>> => m >= 1
  BY <1>1
<1>. HIDE DEF w, m, n
<1>5. i \in 1 .. n /\ a \in 2 .. i /\ b \in i .. n
  BY <1>1
<1>6. \A k \in 1 .. n : w[m + k] = v[k]
  <2>1. ASSUME NEW k \in 1 .. n PROVE w[m + k] = v[k]
    <3>1. m + k \in 1 .. m + n /\ ~ (m + k <= m) /\ (m + k) - m = k
      BY <1>1
    <3>. QED  BY <1>1, <3>1
  <2>. QED  BY <2>1
<1>9. Opens(w, m + a, first)
  <2>1. a \in 1 .. n /\ w[m + a] = v[a]
    BY <1>1, <1>5, <1>6
  <2>2. CASE v[a] = Bullet
    BY <2>1, <2>2 DEF Opens
  <2>3. CASE a > 2 /\ v[a - 2] = Stop
    <3>1. a - 2 \in 1 .. n /\ (m + a) - 2 = m + (a - 2) /\ m + a > 2
      BY <1>1, <1>5, <2>3
    <3>2. w[(m + a) - 2] = Stop
      BY <1>6, <2>3, <3>1
    <3>. QED  BY <3>1, <3>2 DEF Opens
  <2>4. CASE second /\ a = 2
    <3>1. m >= 1 /\ u[m] = Stop
      BY <1>4, <2>4 DEF m
    <3>2. (m + a) - 2 = m /\ m + a > 2 /\ m \in 1 .. m + n /\ m <= m
      BY <1>1, <2>4, <3>1
    <3>3. w[(m + a) - 2] = Stop
      BY <1>1, <3>1, <3>2
    <3>. QED  BY <3>2, <3>3 DEF Opens
  <2>. QED  BY <1>3, <2>2, <2>3, <2>4 DEF Opens
<1>8. EndedLine(w, m + a, m + b) /\ Attributed(r, w, m + a, m + i, m + b)
  <2>1. b \in i .. Len(v)
    BY <1>5 DEF n
  <2>. QED  BY <1>3, <2>1, LineAfter DEF w, m
<1>11. m + a \in 2 .. m + i /\ m + b \in m + i .. m + n
  BY <1>1, <1>5
<1>. QED  BY <1>1, <1>8, <1>9, <1>11 DEF TellsAt, w, m

\* So is what is told of the first, if the second begins a line.
LEMMA ToldBefore ==
    ASSUME NEW r, NEW u \in Seq(TextToken), NEW v \in Seq(TextToken), NEW i \in DOMAIN u,
           NEW first \in BOOLEAN, TellsAt(r, u, i, first), v # <<>> => v[1] = NewLine
    PROVE  TellsAt(r, u \o v, i, first)
<1>. DEFINE w == u \o v
            m == Len(u)
            n == Len(v)
<1>1. /\ m \in Nat /\ n \in Nat /\ DOMAIN u = 1 .. m /\ Len(w) = m + n
      /\ \A k \in 1 .. m + n : w[k] = IF k <= m THEN u[k] ELSE v[k - m]
      /\ n = 0 <=> v = <<>>
  BY ConcatProperties, LenProperties, EmptySeq
<1>2. PICK a \in 2 .. i : \E b \in i .. m :
         EndedLine(u, a, b) /\ Opens(u, a, first) /\ Attributed(r, u, a, i, b)
  BY DEF TellsAt
<1>3. PICK b \in i .. m : EndedLine(u, a, b) /\ Opens(u, a, first) /\ Attributed(r, u, a, i, b)
  BY <1>2
<1>. HIDE DEF w, m, n
<1>4. i \in 1 .. m /\ a \in 2 .. i /\ b \in i .. m
  BY <1>1
<1>5. \A k \in 1 .. m : w[k] = u[k]
  <2>1. ASSUME NEW k \in 1 .. m PROVE w[k] = u[k]
    <3>1. k \in 1 .. m + n /\ k <= m
      BY <1>1
    <3>. QED  BY <1>1, <3>1
  <2>. QED  BY <2>1
<1>6. EndedLine(w, a, b)
  <2>1. /\ u[a - 1] = NewLine /\ u[b] = Stop /\ (\A j \in a .. b : u[j] # NewLine)
        /\ b < m => u[b + 1] = NewLine
    BY <1>3 DEF EndedLine, m
  <2>2. a \in 2 .. m + n /\ b \in a .. m + n /\ a - 1 \in 1 .. m /\ b \in 1 .. m
    BY <1>1, <1>4
  <2>3. w[a - 1] = NewLine /\ w[b] = Stop
    BY <1>5, <2>1, <2>2
  <2>4. ASSUME NEW j \in a .. b PROVE w[j] # NewLine
    <3>1. j \in 1 .. m
      BY <1>1, <1>4
    <3>. QED  BY <1>5, <2>1, <3>1
  <2>5. ASSUME b < m + n PROVE w[b + 1] = NewLine
    <3>1. CASE b < m
      <4>1. b + 1 \in 1 .. m
        BY <1>1, <1>4, <3>1
      <4>. QED  BY <1>5, <2>1, <3>1, <4>1
    <3>2. CASE ~ (b < m)
      <4>1. b = m /\ n >= 1 /\ b + 1 \in 1 .. m + n /\ ~ (b + 1 <= m) /\ (b + 1) - m = 1
        BY <1>1, <1>4, <2>5, <3>2
      <4>2. w[b + 1] = v[1]
        BY <1>1, <4>1
      <4>3. v[1] = NewLine
        BY <1>1, <4>1
      <4>. QED  BY <4>2, <4>3
    <3>. QED  BY <3>1, <3>2
  <2>. QED  BY <1>1, <2>2, <2>3, <2>4, <2>5 DEF EndedLine
<1>7. Opens(w, a, first)
  <2>1. a \in 1 .. m /\ (a > 2 => a - 2 \in 1 .. m)
    BY <1>1, <1>4
  <2>. QED  BY <1>3, <1>5, <2>1 DEF Opens
<1>8. Attributed(r, w, a, i, b)
  <2>1. ASSUME NEW q \in i .. b, Quoted(r, u[q]), \A k \in i .. q : ~ Severs(u[k])
        PROVE  \E p \in i .. b : Quoted(r, w[p]) /\ \A k \in i .. p : ~ Severs(w[k])
    <3>1. q \in 1 .. m /\ \A k \in i .. q : k \in 1 .. m
      BY <1>1, <1>4
    <3>. QED  BY <1>5, <2>1, <3>1
  <2>2. ASSUME NEW e \in i .. b, u[e] = Stop,
               \A j \in a .. e - 1 : IsWord(u[j]) => is_structured_fact(r, u[j])
        PROVE  \E p \in i .. b :
                  w[p] = Stop /\ \A j \in a .. p - 1 : IsWord(w[j]) => is_structured_fact(r, w[j])
    <3>1. e \in 1 .. m /\ \A j \in a .. e - 1 : j \in 1 .. m
      BY <1>1, <1>4
    <3>. QED  BY <1>5, <2>2, <3>1
  <2>. QED  BY <1>3, <2>1, <2>2 DEF Attributed
<1>9. a \in 2 .. i /\ b \in i .. m + n
  BY <1>1, <1>4
<1>. QED  BY <1>1, <1>6, <1>7, <1>8, <1>9 DEF TellsAt, w

\* Two texts one after the other tell what each does.
LEMMA ToldConcat ==
    ASSUME NEW r, NEW u \in Seq(TextToken), NEW v \in Seq(TextToken),
           NEW first \in BOOLEAN, NEW second \in BOOLEAN,
           Tells(r, u, first), Tells(r, v, second),
           v # <<>> => v[1] = NewLine, second => u # <<>> /\ u[Len(u)] = Stop
    PROVE  Tells(r, u \o v, first)
<1>. DEFINE w == u \o v
            m == Len(u)
            n == Len(v)
<1>1. /\ m \in Nat /\ n \in Nat /\ DOMAIN u = 1 .. m /\ DOMAIN v = 1 .. n /\ DOMAIN w = 1 .. m + n
      /\ \A k \in 1 .. m + n : w[k] = IF k <= m THEN u[k] ELSE v[k - m]
  BY ConcatProperties
<1>2. \A i \in DOMAIN u : SaysSenamhi(u[i]) => TellsAt(r, w, i, first)
  <2>1. ASSUME NEW i \in DOMAIN u, SaysSenamhi(u[i]) PROVE TellsAt(r, w, i, first)
    <3>1. TellsAt(r, u, i, first)
      BY <2>1 DEF Tells
    <3>. QED  BY <3>1, ToldBefore
  <2>. QED  BY <2>1
<1>3. \A i \in DOMAIN v : SaysSenamhi(v[i]) => TellsAt(r, w, m + i, first)
  <2>1. ASSUME NEW i \in DOMAIN v, SaysSenamhi(v[i]) PROVE TellsAt(r, w, m + i, first)
    <3>1. TellsAt(r, v, i, second)
      BY <2>1 DEF Tells
    <3>. QED  BY <3>1, ToldAfter
  <2>. QED  BY <2>1
<1>. HIDE DEF w, m, n
<1>4. ASSUME NEW k \in 1 .. m + n, SaysSenamhi(w[k]) PROVE TellsAt(r, w, k, first)
  <2>1. CASE k <= m
    <3>1. k \in DOMAIN u /\ w[k] = u[k]
      BY <1>1, <2>1
    <3>. QED  BY <1>2, <1>4, <3>1
  <2>2. CASE ~ (k <= m)
    <3>1. k - m \in DOMAIN v /\ w[k] = v[k - m] /\ m + (k - m) = k
      BY <1>1, <2>2
    <3>2. TellsAt(r, w, m + (k - m), first)
      BY <1>3, <1>4, <3>1
    <3>. QED  BY <3>1, <3>2
  <2>. QED  BY <2>1, <2>2
<1>5. Tells(r, w, first)
  BY <1>1, <1>4 DEF Tells
<1>. QED  BY <1>5 DEF w

\* A statement that is one line of the text, and that goes on from no other,
\* ends as it should, and its clause is in order.
LEMMA StatementStands ==
    ASSUME NEW r, NEW t \in Seq(TextToken), NEW i \in DOMAIN t, SaysSenamhi(t[i]),
           NEW a \in 2 .. i, NEW b \in i .. Len(t), EndedLine(t, a, b), Attributed(r, t, a, i, b),
           \/ t[a] = Bullet
           \/ a > 2 /\ t[a - 2] = Stop
           \/ \A m \in 1 .. a - 1 : ~ SaysSenamhi(t[m])
    PROVE  /\ ended(t, i)
           /\ \/ \E j \in senamhi_clause(t, i) : Quoted(r, t[j])
              \/ \A j \in senamhi_clause(t, i) : IsWord(t[j]) => is_structured_fact(r, t[j])
<1>. DEFINE n == Len(t)
            Mentions == {m \in 1 .. i : SaysSenamhi(t[m]) /\ goes_on(t, m, i)}
            first == Min(Mentions)
<1>1. /\ n \in Nat /\ i \in 1 .. n /\ a \in 2 .. i /\ b \in i .. n /\ a \in Nat /\ b \in Nat /\ i \in Nat
      /\ t[a - 1] = NewLine /\ t[b] = Stop /\ (\A j \in a .. b : t[j] # NewLine)
      /\ b < n => t[b + 1] = NewLine
  <2>1. Len(t) \in Nat /\ DOMAIN t = 1 .. Len(t)
    BY LenProperties
  <2>. QED  BY <2>1 DEF EndedLine
<1>2. Terminates(Stop) /\ Severs(Stop) /\ Stop # NewLine /\ Bullet.kind = "bullet"
  BY DEF Terminates, Severs, CLAUSE_BOUNDARIES, Stop, NewLine, Bullet, Token
<1>3. first \in 1 .. i /\ SaysSenamhi(t[first]) /\ goes_on(t, first, i)
  <2>1. i \in Mentions
    BY <1>1 DEF goes_on
  <2>2. Mentions \in SUBSET Int /\ Mentions # {} /\ IsFiniteSet(Mentions)
    <3>1. IsFiniteSet(1 .. i)
      BY <1>1, FS_Interval
    <3>2. Mentions \in SUBSET (1 .. i)
      OBVIOUS
    <3>3. 1 .. i \subseteq Int
      BY <1>1
    <3>. HIDE DEF Mentions
    <3>. QED  BY <2>1, <3>1, <3>2, <3>3, FS_Subset
  <2>3. first \in Mentions
    <3>. HIDE DEF Mentions
    <3>. QED  BY <2>2, MinIsTaken
  <2>. HIDE DEF first
  <2>. QED  BY <2>3
<1>4. attribution_scope(t, i) = {j \in line_start(t, first) .. n : t[j] # NewLine /\ (j > i => goes_on(t, i, j))}
  BY DEF attribution_scope
<1>. HIDE DEF n, first, Mentions
<1>5. first >= a
  <2>. SUFFICES ASSUME first < a PROVE FALSE
    BY <1>1, <1>3
  <2>1. a - 1 \in first .. i - 1 /\ (a - 1) - 1 = a - 2 /\ (a - 1) + 1 = a /\ (a > 2 => a - 1 > 1)
        /\ first \in 1 .. a - 1
    BY <1>1, <1>3
  <2>2. /\ a - 1 > 1 => ~ Terminates(t[(a - 1) - 1])
        /\ t[(a - 1) + 1].kind \notin {"newline", "header", "bullet"}
    BY <1>1, <1>3, <2>1 DEF goes_on
  <2>3. (a > 2 => ~ Terminates(t[a - 2])) /\ t[a].kind # "bullet"
    BY <2>1, <2>2
  <2>. QED  BY <1>2, <1>3, <2>1, <2>3
<1>6. line_start(t, first) = a
  <2>. DEFINE S == {1} \cup {k + 1 : k \in {l \in 1 .. first - 1 : t[l] = NewLine}}
  <2>1. a \in S
    <3>1. a - 1 \in 1 .. first - 1 /\ (a - 1) + 1 = a
      BY <1>1, <1>3, <1>5
    <3>. QED  BY <1>1, <3>1
  <2>2. \A y \in S : y \in Int /\ y <= a
    <3>1. ASSUME NEW k \in 1 .. first - 1, t[k] = NewLine PROVE k + 1 \in Int /\ k + 1 <= a
      <4>1. ~ (k \in a .. b)
        BY <1>1, <3>1
      <4>. QED  BY <1>1, <1>3, <4>1
    <3>. QED  BY <1>1, <3>1
  <2>3. S \in SUBSET Int
    BY <2>2
  <2>. HIDE DEF S
  <2>4. Max(S) = a
    BY <2>1, <2>2, <2>3, MaxOf
  <2>. QED  BY <2>4 DEF line_start, S
<1>7. ASSUME NEW j \in a .. b PROVE j \in attribution_scope(t, i)
  <2>1. j \in a .. n /\ t[j] # NewLine
    BY <1>1
  <2>2. \A k \in i .. j - 1 : t[k] # NewLine
    <3>1. \A k \in i .. j - 1 : k \in a .. b
      BY <1>1
    <3>. QED  BY <1>1, <3>1
  <2>3. goes_on(t, i, j)
    BY <2>2 DEF goes_on
  <2>. QED  BY <1>4, <1>6, <2>1, <2>3
<1>8. ASSUME NEW j \in attribution_scope(t, i) PROVE j \in a .. b
  <2>1. j \in a .. n /\ t[j] # NewLine /\ (j > i => goes_on(t, i, j))
    BY <1>4, <1>6
  <2>. SUFFICES ASSUME j > b PROVE FALSE
    BY <1>1, <2>1
  <2>2. b < n /\ j # b + 1 /\ b + 1 \in i .. j - 1 /\ j > i /\ (b + 1) - 1 = b /\ b + 1 > 1
    BY <1>1, <2>1
  <2>3. ~ Terminates(t[(b + 1) - 1])
    BY <1>1, <2>1, <2>2 DEF goes_on
  <2>. QED  BY <1>1, <1>2, <2>2, <2>3
<1>9. attribution_scope(t, i) = a .. b
  BY <1>7, <1>8
<1>10. ended(t, i)
  <2>1. a .. b \in SUBSET Int /\ b \in a .. b /\ \A y \in a .. b : y <= b
    BY <1>1
  <2>2. Max(a .. b) = b
    BY <2>1, MaxOf
  <2>. QED  BY <1>1, <1>2, <1>9, <2>2 DEF ended
<1>11. \A j \in Int : j >= i => Min({i, j}) = i /\ Max({i, j}) = j
  <2>1. ASSUME NEW j \in Int, j >= i PROVE Min({i, j}) = i /\ Max({i, j}) = j
    <3>1. {i, j} \in SUBSET Int /\ i \in {i, j} /\ j \in {i, j}
          /\ (\A y \in {i, j} : i <= y) /\ (\A y \in {i, j} : y <= j)
      BY <1>1, <2>1
    <3>. QED  BY <3>1, MinOf, MaxOf
  <2>. QED  BY <2>1
<1>12. ASSUME NEW q \in i .. b, Quoted(r, t[q]), \A k \in i .. q : ~ Severs(t[k])
       PROVE  q \in senamhi_clause(t, i)
  <2>1. q \in Int /\ q >= i /\ q \in a .. b
    BY <1>1
  <2>2. Min({i, q}) = i /\ Max({i, q}) = q
    BY <1>11, <2>1
  <2>. QED  BY <1>9, <1>12, <2>1, <2>2 DEF senamhi_clause, Severs
<1>13. ASSUME NEW e \in i .. b, t[e] = Stop, NEW j \in senamhi_clause(t, i)
       PROVE  j \in a .. e - 1
  <2>1. j \in a .. b /\ \A k \in Min({i, j}) .. Max({i, j}) : ~ Severs(t[k])
    BY <1>9 DEF senamhi_clause, Severs
  <2>. SUFFICES ASSUME j >= e PROVE FALSE
    BY <1>1, <2>1
  <2>2. j \in Int /\ j >= i /\ e \in i .. j
    BY <1>1, <2>1
  <2>3. Min({i, j}) = i /\ Max({i, j}) = j
    BY <1>11, <2>2
  <2>4. ~ Severs(t[e])
    BY <2>1, <2>2, <2>3
  <2>. QED  BY <1>2, <1>13, <2>4
<1>14. \/ \E j \in senamhi_clause(t, i) : Quoted(r, t[j])
       \/ \A j \in senamhi_clause(t, i) : IsWord(t[j]) => is_structured_fact(r, t[j])
  BY <1>12, <1>13 DEF Attributed
<1>. QED  BY <1>10, <1>14

\* The rule is met by a text whose form begins with what does not name
\* SENAMHI and tells the rest as it asks.
LEMMA RuleMet ==
    ASSUME NEW r, NEW given, NEW u \in Seq(QuietToken), NEW v \in Seq(TextToken),
           attribution_form(r, given) = u \o v, Tells(r, v, TRUE)
    PROVE  ~ senamhi_attribution(r, given)
<1>. DEFINE t == u \o v
            m == Len(u)
            n == Len(v)
<1>1. u \in Seq(TextToken) /\ \A k \in DOMAIN u : ~ SaysSenamhi(u[k])
  <2>1. \A k \in DOMAIN u : ~ SaysSenamhi(u[k])
    BY DEF QuietToken
  <2>. QED  BY <2>1, QuietIsTold
<1>2. /\ m \in Nat /\ n \in Nat /\ DOMAIN u = 1 .. m /\ DOMAIN v = 1 .. n
      /\ t \in Seq(TextToken) /\ DOMAIN t = 1 .. m + n /\ Len(t) = m + n
      /\ \A k \in 1 .. m + n : t[k] = IF k <= m THEN u[k] ELSE v[k - m]
  BY <1>1, ConcatProperties
<1>. HIDE DEF t, m, n
<1>3. ASSUME NEW k \in DOMAIN t, SaysSenamhi(t[k])
      PROVE  /\ ended(t, k)
             /\ \/ \E j \in senamhi_clause(t, k) : Quoted(r, t[j])
                \/ \A j \in senamhi_clause(t, k) : IsWord(t[j]) => is_structured_fact(r, t[j])
  <2>1. ~ (k <= m)
    <3>. SUFFICES ASSUME k <= m PROVE FALSE
      OBVIOUS
    <3>1. k \in DOMAIN u /\ t[k] = u[k]
      BY <1>2
    <3>. QED  BY <1>1, <1>3, <3>1
  <2>. DEFINE i == k - m
  <2>2. i \in DOMAIN v /\ t[k] = v[i] /\ m + i = k
    BY <1>2, <2>1
  <2>. HIDE DEF i
  <2>3. TellsAt(r, v, i, TRUE)
    BY <1>3, <2>2 DEF Tells
  <2>4. PICK a \in 2 .. i : \E b \in i .. Len(v) :
           EndedLine(v, a, b) /\ Opens(v, a, TRUE) /\ Attributed(r, v, a, i, b)
    BY <2>3 DEF TellsAt
  <2>5. PICK b \in i .. Len(v) :
           EndedLine(v, a, b) /\ Opens(v, a, TRUE) /\ Attributed(r, v, a, i, b)
    BY <2>4
  <2>6. EndedLine(t, m + a, m + b) /\ Attributed(r, t, m + a, k, m + b)
    BY <1>1, <2>2, <2>4, <2>5, LineAfter DEF t, m
  <2>7. i \in 1 .. n /\ a \in 2 .. i /\ b \in i .. n
    BY <1>2, <2>2, <2>4, <2>5 DEF n
  <2>8. m + a \in 2 .. k /\ m + b \in k .. Len(t)
    BY <1>2, <2>2, <2>7
  <2>9. \/ t[m + a] = Bullet
        \/ m + a > 2 /\ t[(m + a) - 2] = Stop
        \/ \A l \in 1 .. (m + a) - 1 : ~ SaysSenamhi(t[l])
    <3>1. \A l \in 1 .. n : t[m + l] = v[l]
      <4>1. ASSUME NEW l \in 1 .. n PROVE t[m + l] = v[l]
        <5>1. m + l \in 1 .. m + n /\ ~ (m + l <= m) /\ (m + l) - m = l
          BY <1>2
        <5>. QED  BY <1>2, <5>1
      <4>. QED  BY <4>1
    <3>2. a \in 1 .. n
      BY <1>2, <2>7
    <3>3. CASE v[a] = Bullet
      BY <3>1, <3>2, <3>3
    <3>4. CASE a > 2 /\ v[a - 2] = Stop
      <4>1. a - 2 \in 1 .. n /\ (m + a) - 2 = m + (a - 2) /\ m + a > 2
        BY <1>2, <2>7, <3>4
      <4>. QED  BY <3>1, <3>4, <4>1
    <3>5. CASE a = 2
      <4>1. v[2 - 1] = NewLine
        BY <2>5, <3>5 DEF EndedLine
      <4>2. ~ SaysSenamhi(NewLine)
        BY DEF SaysSenamhi, NewLine, Senamhi, Token
      <4>3. ASSUME NEW l \in 1 .. (m + a) - 1 PROVE ~ SaysSenamhi(t[l])
        <5>1. CASE l <= m
          <6>1. l \in DOMAIN u /\ t[l] = u[l]
            BY <1>2, <2>7, <3>2, <5>1
          <6>. QED  BY <1>1, <6>1
        <5>2. CASE ~ (l <= m)
          <6>1. l = m + 1 /\ 1 \in 1 .. n /\ 2 - 1 = 1
            BY <1>2, <2>7, <3>2, <3>5, <5>2
          <6>. QED  BY <3>1, <4>1, <4>2, <6>1
        <5>. QED  BY <5>1, <5>2
      <4>. QED  BY <4>3
    <3>. QED  BY <2>5, <3>3, <3>4, <3>5 DEF Opens
  <2>. QED  BY <1>2, <1>3, <2>6, <2>8, <2>9, StatementStands
<1>4. attribution_form(r, given) = t
  BY DEF t
<1>. QED  BY <1>3, <1>4 DEF senamhi_attribution

\* Lines read as they are, each ended by a stop, that tell what they say.
Complete(r, t, first) ==
    /\ t \in Seq(PlainlyRead(r)) /\ Tells(r, t, first)
    /\ t # <<>> => t[1] = NewLine /\ t[Len(t)] = Stop

\* Such lines are a text.
LEMMA CompleteIsText ==
    ASSUME NEW r, NEW t, NEW first, Complete(r, t, first)
    PROVE  t \in Seq(TextToken)
<1>1. PlainlyRead(r) \subseteq TextToken
  BY DEF PlainlyRead
<1>. QED  BY <1>1, SeqMonotonic DEF Complete

\* What goes on from no line may be said to come first.
LEMMA ToldFirst ==
    ASSUME NEW r, NEW t, Tells(r, t, FALSE)
    PROVE  Tells(r, t, TRUE)
<1>1. \A a : Opens(t, a, FALSE) => Opens(t, a, TRUE)
  BY DEF Opens
<1>2. ASSUME NEW i, TellsAt(r, t, i, FALSE) PROVE TellsAt(r, t, i, TRUE)
  BY <1>1, <1>2 DEF TellsAt
<1>. QED  BY <1>2 DEF Tells

\* One such text after another is one.
LEMMA CompleteConcat ==
    ASSUME NEW r, NEW u, NEW v, NEW first \in BOOLEAN, NEW second \in BOOLEAN,
           Complete(r, u, first), Complete(r, v, second), second => u # <<>>
    PROVE  Complete(r, u \o v, first)
<1>1. u \in Seq(TextToken) /\ v \in Seq(TextToken)
  BY CompleteIsText
<1>2. /\ u \in Seq(PlainlyRead(r)) /\ Tells(r, u, first) /\ (u # <<>> => u[1] = NewLine /\ u[Len(u)] = Stop)
      /\ v \in Seq(PlainlyRead(r)) /\ Tells(r, v, second) /\ (v # <<>> => v[1] = NewLine /\ v[Len(v)] = Stop)
  BY DEF Complete
<1>3. Tells(r, u \o v, first)
  BY <1>1, <1>2, ToldConcat
<1>. DEFINE w == u \o v
            m == Len(u)
            n == Len(v)
<1>4. /\ m \in Nat /\ n \in Nat /\ w \in Seq(PlainlyRead(r)) /\ Len(w) = m + n
      /\ \A k \in 1 .. m + n : w[k] = IF k <= m THEN u[k] ELSE v[k - m]
      /\ (m = 0 <=> u = <<>>) /\ (n = 0 <=> v = <<>>)
  BY <1>2, ConcatProperties, LenProperties, EmptySeq
<1>5. w = <<>> => Len(w) = 0
  OBVIOUS
<1>6. w # <<>> => w[1] = NewLine /\ w[Len(w)] = Stop
  <2>. HIDE DEF w, m, n
  <2>. SUFFICES ASSUME w # <<>> PROVE w[1] = NewLine /\ w[Len(w)] = Stop
    OBVIOUS
  <2>1. m + n >= 1
    <3>1. Len(w) = 0 => w = <<>>
      BY <1>4, EmptySeq
    <3>. QED  BY <1>4, <3>1
  <2>2. w[1] = NewLine
    <3>1. CASE m = 0
      <4>1. 1 \in 1 .. m + n /\ ~ (1 <= m) /\ 1 - m = 1 /\ v # <<>>
        BY <1>4, <2>1, <3>1
      <4>. QED  BY <1>2, <1>4, <4>1
    <3>2. CASE m # 0
      <4>1. 1 \in 1 .. m + n /\ 1 <= m /\ u # <<>>
        BY <1>4, <2>1, <3>2
      <4>. QED  BY <1>2, <1>4, <4>1
    <3>. QED  BY <3>1, <3>2
  <2>3. w[m + n] = Stop
    <3>1. CASE n = 0
      <4>1. m + n \in 1 .. m + n /\ m + n <= m /\ m + n = m /\ u # <<>>
        BY <1>4, <2>1, <3>1
      <4>2. u[m] = Stop
        BY <1>2, <4>1 DEF m
      <4>. QED  BY <1>4, <4>1, <4>2
    <3>2. CASE n # 0
      <4>1. m + n \in 1 .. m + n /\ ~ (m + n <= m) /\ (m + n) - m = n /\ v # <<>>
        BY <1>4, <2>1, <3>2
      <4>2. v[n] = Stop
        BY <1>2, <4>1 DEF n
      <4>. QED  BY <1>4, <4>1, <4>2
    <3>. QED  BY <3>1, <3>2
  <2>. QED  BY <1>4, <2>2, <2>3
<1>. QED  BY <1>3, <1>4, <1>6 DEF Complete, w

\* So are as many of them as there are.
LEMMA CompleteParts ==
    ASSUME NEW r, NEW seqs \in Seq(Seq(TextToken)),
           \A k \in 1 .. Len(seqs) : Complete(r, seqs[k], FALSE)
    PROVE  Complete(r, FlattenSeq(seqs), FALSE)
<1>. DEFINE n == Len(seqs)
<1>1. PICK f \in [0 .. n -> Seq(TextToken)] :
         f[0] = <<>> /\ (\A k \in 1 .. n : f[k] = f[k - 1] \o seqs[k]) /\ FlattenSeq(seqs) = f[n]
  BY Flattened
<1>2. n \in Nat
  BY LenProperties
<1>3. Complete(r, <<>>, FALSE)
  BY DEF Complete, Tells
<1>4. \A k \in 1 .. n : Complete(r, seqs[k], FALSE)
  OBVIOUS
<1>. HIDE DEF n
<1>. DEFINE Upto == {k \in Nat : k <= n => Complete(r, f[k], FALSE)}
<1>5. 0 \in Upto
  BY <1>1, <1>3
<1>6. ASSUME NEW k \in Nat, k \in Upto PROVE k + 1 \in Upto
  <2>1. ASSUME k + 1 <= n PROVE Complete(r, f[k + 1], FALSE)
    <3>1. k <= n /\ k + 1 \in 1 .. n /\ (k + 1) - 1 = k
      BY <1>2, <2>1
    <3>2. f[k + 1] = f[k] \o seqs[k + 1]
      BY <1>1, <3>1
    <3>3. Complete(r, f[k], FALSE) /\ Complete(r, seqs[k + 1], FALSE)
      BY <1>4, <1>6, <3>1
    <3>. DEFINE a == f[k]
                b == seqs[k + 1]
    <3>4. Complete(r, a, FALSE) /\ Complete(r, b, FALSE) /\ f[k + 1] = a \o b
      BY <3>2, <3>3
    <3>. HIDE DEF a, b
    <3>. QED  BY <3>4, CompleteConcat
  <2>2. k + 1 \in Nat
    OBVIOUS
  <2>. QED  BY <2>1, <2>2
<1>7. n \in Upto
  <2>. HIDE DEF Upto
  <2>. QED  BY <1>2, <1>5, <1>6, FromZeroOn
<1>8. Complete(r, f[n], FALSE)
  <2>1. n <= n
    BY <1>2
  <2>. QED  BY <1>7, <2>1
<1>. QED  BY <1>1, <1>8

\* The words and marks of the template, by whether they name SENAMHI.
LEMMA QuietTokens ==
    /\ {Word, Glue, Connector, Stop, NewLine, Bullet, Continuing} \subseteq QuietToken
    /\ \A v \in Int : Figure(v) \in QuietToken /\ Decimal(v) \in QuietToken
    /\ \A u \in NumberUnit : Unit(u) \in QuietToken
    /\ \A u \in {"mm", "%"} : Noun(u) \in QuietToken
    /\ \A d \in Int : Date(d) \in QuietToken /\ Time(d) \in QuietToken
    /\ \A h \in SECTION_HEADERS : Header(h) \in QuietToken
    /\ \A s \in SuppliedString : (\A k \in DOMAIN s.text : s.text[k] # Senamhi) => Span(s) \in QuietToken
    /\ \A t \in QuietToken : t.kind # "span" => \A r : t \in PlainlyRead(r)
    /\ \A r : Senamhi \in PlainlyRead(r)
<1>1. {Word, Glue, Connector, Stop, NewLine, Bullet, Continuing} \subseteq QuietToken
  <2>1. {Word, Glue, Connector, Stop, NewLine, Bullet, Continuing} \subseteq TextToken
    BY Phrases DEF CalmToken
  <2>2. ASSUME NEW t \in {Word, Glue, Connector, Stop, NewLine, Bullet, Continuing}
        PROVE  ~ SaysSenamhi(t)
    BY DEF SaysSenamhi, Senamhi, Word, Glue, Connector, Stop, NewLine, Bullet, Continuing, Token
  <2>. QED  BY <2>1, <2>2 DEF QuietToken
<1>2. \A v \in Int : Figure(v) \in QuietToken /\ Decimal(v) \in QuietToken
  <2>1. \A v \in Int : Figure(v) \in TextToken /\ Decimal(v) \in TextToken
    BY Phrases DEF CalmToken
  <2>. QED  BY <2>1 DEF QuietToken, SaysSenamhi, Figure, Decimal, Senamhi, Token
<1>3. /\ \A u \in NumberUnit : Unit(u) \in QuietToken
      /\ \A u \in {"mm", "%"} : Noun(u) \in QuietToken
  <2>1. /\ \A u \in NumberUnit : Unit(u) \in TextToken
        /\ \A u \in {"mm", "%"} : Noun(u) \in TextToken
    BY Phrases DEF CalmToken
  <2>2. \A u : ~ SaysSenamhi(Unit(u)) /\ ~ SaysSenamhi(Noun(u))
    BY DEF SaysSenamhi, Unit, Noun, Senamhi, Token
  <2>. QED  BY <2>1, <2>2 DEF QuietToken
<1>4. \A d \in Int : Date(d) \in QuietToken /\ Time(d) \in QuietToken
  <2>1. \A d \in Int : Date(d) \in TextToken /\ Time(d) \in TextToken
    BY Phrases DEF CalmToken
  <2>2. \A d : ~ SaysSenamhi(Date(d)) /\ ~ SaysSenamhi(Time(d))
    BY DEF SaysSenamhi, Date, Time, Senamhi, Token
  <2>. QED  BY <2>1, <2>2 DEF QuietToken
<1>5. \A h \in SECTION_HEADERS : Header(h) \in QuietToken
  <2>1. \A h \in SECTION_HEADERS : Header(h) \in TextToken
    BY Phrases
  <2>. QED  BY <2>1 DEF QuietToken, SaysSenamhi, Header, Senamhi, Token
<1>6. ASSUME NEW s \in SuppliedString, \A k \in DOMAIN s.text : s.text[k] # Senamhi
      PROVE  Span(s) \in QuietToken
  <2>1. Span(s) \in TextToken
    BY Phrases DEF CalmToken
  <2>2. Span(s) # Senamhi /\ Span(s).of = s
    BY DEF Span, Senamhi, Token
  <2>. QED  BY <1>6, <2>1, <2>2 DEF QuietToken, SaysSenamhi
<1>7. \A t \in QuietToken : t.kind # "span" => \A r : t \in PlainlyRead(r)
  BY DEF QuietToken, PlainlyRead
<1>8. \A r : Senamhi \in PlainlyRead(r)
  <2>1. Senamhi \in TextToken
    BY Phrases DEF CalmToken
  <2>. QED  BY <2>1 DEF PlainlyRead, Senamhi, Token
<1>. QED  BY <1>1, <1>2, <1>3, <1>4, <1>5, <1>6, <1>7, <1>8

\* A quiet line is complete if it ends with a stop and spells no string.
LEMMA QuietIsComplete ==
    ASSUME NEW r, NEW t \in Seq(QuietToken), \A k \in DOMAIN t : t[k].kind # "span",
           t # <<>> => t[1] = NewLine /\ t[Len(t)] = Stop
    PROVE  Complete(r, t, FALSE)
<1>1. Tells(r, t, FALSE)
  BY QuietIsTold
<1>2. t \in Seq(PlainlyRead(r))
  <2>1. Len(t) \in Nat /\ DOMAIN t = 1 .. Len(t)
    BY LenProperties
  <2>2. \A k \in 1 .. Len(t) : t[k] \in PlainlyRead(r)
    BY <2>1, QuietTokens
  <2>. QED  BY <2>1, <2>2
<1>. QED  BY <1>1, <1>2 DEF Complete

\* A bullet, and what it says of a reason.
LEMMA BulletedPlaces ==
    ASSUME NEW reason, NEW T, NewLine \in T, Bullet \in T,
           render_reason_es(reason) \in Seq(T), render_reason_es(reason) # <<>>
    PROVE  /\ Bulleted(reason) \in Seq(T)
           /\ Len(Bulleted(reason)) = 2 + Len(render_reason_es(reason))
           /\ Bulleted(reason)[1] = NewLine /\ Bulleted(reason)[2] = Bullet
           /\ \A k \in 1 .. Len(render_reason_es(reason)) :
                 Bulleted(reason)[2 + k] = render_reason_es(reason)[k]
<1>. DEFINE y == render_reason_es(reason)
            mark == <<NewLine>> \o <<Bullet>>
            x == mark \o y
            n == Len(y)
<1>1. Bulleted(reason) = x
  BY DEF Bulleted, Line
<1>2. mark \in Seq(T) /\ Len(mark) = 2 /\ mark[1] = NewLine /\ mark[2] = Bullet
  OBVIOUS
<1>3. y \in Seq(T)
  OBVIOUS
<1>. HIDE DEF mark, y
<1>4. /\ x \in Seq(T) /\ Len(x) = 2 + n /\ n \in Nat
      /\ \A k \in 1 .. 2 + n : x[k] = IF k <= 2 THEN mark[k] ELSE y[k - 2]
  <2>1. /\ x \in Seq(T) /\ Len(x) = Len(mark) + Len(y)
        /\ \A k \in 1 .. Len(mark) + Len(y) : x[k] = IF k <= Len(mark) THEN mark[k] ELSE y[k - Len(mark)]
    BY <1>2, <1>3, ConcatProperties
  <2>2. n \in Nat
    BY <1>3, LenProperties
  <2>. HIDE DEF x
  <2>. QED  BY <1>2, <2>1, <2>2
<1>. HIDE DEF x, n
<1>5. 1 \in 1 .. 2 + n /\ 2 \in 1 .. 2 + n /\ 1 <= 2 /\ 2 <= 2
  BY <1>4
<1>6. \A k \in 1 .. n : x[2 + k] = y[k]
  <2>1. ASSUME NEW k \in 1 .. n PROVE x[2 + k] = y[k]
    <3>1. 2 + k \in 1 .. 2 + n /\ ~ (2 + k <= 2) /\ (2 + k) - 2 = k
      BY <1>4
    <3>. QED  BY <1>4, <3>1
  <2>. QED  BY <2>1
<1>7. x[1] = NewLine /\ x[2] = Bullet
  BY <1>2, <1>4, <1>5
<1>. QED  BY <1>1, <1>4, <1>6, <1>7 DEF y, n

\* What the template writes of an aviso of the service, of its having none, or
\* of a forecast, is complete.
LEMMA BulletedIsComplete ==
    ASSUME NEW r, NEW reason \in Reason, reason \in Range(r.reasons), \A s \in titles(r) : s.long
    PROVE  Complete(r, Bulleted(reason), FALSE)
<1>0. /\ Terminates(Stop) /\ Stop # NewLine /\ Bullet # NewLine /\ Glue # NewLine /\ Senamhi # NewLine
      /\ Word # NewLine /\ Continuing # NewLine /\ ~ Severs(Glue) /\ ~ Severs(Senamhi)
      /\ Glue.kind = "glue" /\ Senamhi.kind = "senamhi" /\ Bullet.kind = "bullet"
  BY DEF Terminates, Severs, CLAUSE_BOUNDARIES, Stop, NewLine, Bullet, Glue, Senamhi, Word, Continuing, Token
<1>00. /\ is_structured_fact(r, Glue) /\ is_structured_fact(r, Senamhi) /\ ~ IsWord(Bullet)
  BY <1>0 DEF is_structured_fact, IsWord
<1>1. CASE reason.kind = "warning"
  <2>. DEFINE title == Span(reason.title)
              y == <<Glue, Glue, Senamhi, Glue, Glue, title, Stop>>
              x == Bulleted(reason)
  <2>1. render_reason_es(reason) = y
    BY <1>1 DEF render_reason_es
  <2>2. reason.title \in titles(r) /\ reason.title \in SuppliedString
    BY <1>1 DEF titles, Reason
  <2>3. /\ Quoted(r, title) /\ title.kind = "span" /\ title # NewLine /\ ~ Severs(title) /\ title \in TextToken
    <3>1. title.kind = "span" /\ title.of = reason.title /\ title # NewLine /\ ~ Severs(title)
      BY DEF Span, NewLine, Severs, CLAUSE_BOUNDARIES, Token
    <3>2. title \in TextToken
      BY <2>2, Phrases DEF CalmToken
    <3>. QED  BY <2>2, <3>1, <3>2 DEF Quoted
  <2>4. title \in PlainlyRead(r)
    BY <2>3 DEF PlainlyRead
  <2>5. {NewLine, Bullet, Glue, Senamhi, Stop} \subseteq PlainlyRead(r)
    BY QuietTokens DEF NewLine, Bullet, Glue, Stop, Token
  <2>. HIDE DEF title
  <2>6. /\ y \in Seq(PlainlyRead(r)) /\ Len(y) = 7 /\ y # <<>>
        /\ y[1] = Glue /\ y[2] = Glue /\ y[3] = Senamhi /\ y[4] = Glue /\ y[5] = Glue
        /\ y[6] = title /\ y[7] = Stop
    BY <2>4, <2>5
  <2>. HIDE DEF y
  <2>12. /\ x \in Seq(PlainlyRead(r)) /\ Len(x) = 2 + 7 /\ x[1] = NewLine /\ x[2] = Bullet
         /\ \A k \in 1 .. 7 : x[2 + k] = y[k]
    BY <2>1, <2>5, <2>6, BulletedPlaces
  <2>. HIDE DEF x
  <2>7. /\ Len(x) = 9 /\ DOMAIN x = 1 .. 9 /\ x[1] = NewLine /\ x[2] = Bullet /\ x[3] = Glue /\ x[4] = Glue
        /\ x[5] = Senamhi /\ x[6] = Glue /\ x[7] = Glue /\ x[8] = title /\ x[9] = Stop
    <3>1. /\ 2 + 1 = 3 /\ 2 + 2 = 4 /\ 2 + 3 = 5 /\ 2 + 4 = 6 /\ 2 + 5 = 7 /\ 2 + 6 = 8 /\ 2 + 7 = 9
          /\ {1, 2, 3, 4, 5, 6, 7} \subseteq 1 .. 7
      OBVIOUS
    <3>2. x[3] = y[1] /\ x[4] = y[2] /\ x[5] = y[3] /\ x[6] = y[4] /\ x[7] = y[5] /\ x[8] = y[6] /\ x[9] = y[7]
      BY <2>12, <3>1
    <3>. QED  BY <2>6, <2>12, <3>1, <3>2, LenProperties
  <2>8. \A j \in 2 .. 9 : x[j] # NewLine
    <3>1. \A j \in 2 .. 9 : j = 2 \/ j = 3 \/ j = 4 \/ j = 5 \/ j = 6 \/ j = 7 \/ j = 8 \/ j = 9
      OBVIOUS
    <3>. QED  BY <1>0, <2>3, <2>7, <3>1
  <2>9. EndedLine(x, 2, 9) /\ Opens(x, 2, FALSE)
    <3>1. 2 \in 2 .. 9 /\ 9 \in 2 .. 9 /\ 2 - 1 = 1 /\ ~ (9 < 9)
      OBVIOUS
    <3>. QED  BY <2>7, <2>8, <3>1 DEF EndedLine, Opens
  <2>10. ASSUME NEW i \in DOMAIN x, SaysSenamhi(x[i]) PROVE TellsAt(r, x, i, FALSE)
    <3>1. i = 5 \/ i = 8
      <4>1. \A j \in 1 .. 9 : j = 5 \/ j = 8 \/ x[j] \in {NewLine, Bullet, Glue, Stop}
        <5>1. \A j \in 1 .. 9 : j = 1 \/ j = 2 \/ j = 3 \/ j = 4 \/ j = 5 \/ j = 6 \/ j = 7 \/ j = 8 \/ j = 9
          OBVIOUS
        <5>. QED  BY <2>7, <5>1
      <4>2. \A t \in {NewLine, Bullet, Glue, Stop} : ~ SaysSenamhi(t)
        BY QuietTokens DEF QuietToken
      <4>. QED  BY <2>7, <2>10, <4>1, <4>2
    <3>2. \A k \in i .. 8 : ~ Severs(x[k])
      <4>1. \A k \in i .. 8 : k = 5 \/ k = 6 \/ k = 7 \/ k = 8
        BY <3>1
      <4>. QED  BY <1>0, <2>3, <2>7, <4>1
    <3>3. 8 \in i .. 9 /\ 2 \in 2 .. i /\ 9 \in i .. 9
      BY <3>1
    <3>4. Attributed(r, x, 2, i, 9)
      BY <2>3, <2>7, <3>2, <3>3 DEF Attributed
    <3>. QED  BY <2>7, <2>9, <3>3, <3>4 DEF TellsAt
  <2>11. Tells(r, x, FALSE)
    BY <2>10 DEF Tells
  <2>. QED  BY <2>7, <2>11, <2>12 DEF Complete, x
<1>2. CASE reason.kind = "forecast"
  <2>. DEFINE mm == Decimal(one_decimal(reason.accumulated_mm))
              h == Figure(Whole(reason.hours))
              pct == Figure(Whole(reason.probability_pct))
              y == <<Word, mm, Unit("mm"), Connector, Word, Word,
                     Glue, h, Unit("h"), Connector, Connector, Noun("%"), Word,
                     Connector, pct, Unit("%"), Stop>>
              x == Bulleted(reason)
              Mark == {NewLine, Bullet, Word, Connector, Glue, Stop, Unit("mm"), Unit("h"), Unit("%"), Noun("%"),
                       mm, h, pct}
  <2>1. render_reason_es(reason) = y
    BY <1>2 DEF render_reason_es
  <2>2. one_decimal(reason.accumulated_mm) \in Int /\ Whole(reason.hours) \in Int
        /\ Whole(reason.probability_pct) \in Int
    BY <1>2 DEF Reason, one_decimal, Whole
  <2>3. Mark \subseteq QuietToken
    <3>1. mm \in QuietToken /\ h \in QuietToken /\ pct \in QuietToken
      BY <2>2, QuietTokens
    <3>2. {Unit("mm"), Unit("h"), Unit("%"), Noun("%")} \subseteq QuietToken
      <4>1. {"mm", "h", "%"} \subseteq NumberUnit
        BY DEF NumberUnit
      <4>. QED  BY <4>1, QuietTokens
    <3>3. {NewLine, Bullet, Word, Connector, Glue, Stop} \subseteq QuietToken
      BY QuietTokens
    <3>. HIDE DEF mm, h, pct
    <3>. QED  BY <3>1, <3>2, <3>3
  <2>4. \A t \in Mark : t.kind # "span"
    BY DEF Figure, Decimal, Unit, Word, Connector, Glue, Stop, Noun, Token, NewLine, Bullet
  <2>. HIDE DEF mm, h, pct
  <2>5. y \in Seq(Mark) /\ Len(y) = 17 /\ y # <<>> /\ y[17] = Stop /\ NewLine \in Mark /\ Bullet \in Mark
    OBVIOUS
  <2>. HIDE DEF y, Mark
  <2>6. /\ x \in Seq(Mark) /\ Len(x) = 2 + 17 /\ x[1] = NewLine /\ \A k \in 1 .. 17 : x[2 + k] = y[k]
    BY <2>1, <2>5, BulletedPlaces
  <2>. HIDE DEF x
  <2>7. x \in Seq(QuietToken) /\ \A k \in DOMAIN x : x[k].kind # "span"
    <3>1. x \in Seq(Mark)
      BY <2>6
    <3>2. x \in Seq(QuietToken)
      BY <2>3, <3>1, SeqMonotonic
    <3>3. \A k \in DOMAIN x : x[k] \in Mark
      BY <3>1
    <3>. QED  BY <2>4, <3>2, <3>3
  <2>8. x[Len(x)] = Stop
    <3>1. 17 \in 1 .. 17
      OBVIOUS
    <3>. QED  BY <2>5, <2>6, <3>1
  <2>. QED  BY <2>6, <2>7, <2>8, QuietIsComplete DEF x
<1>3. CASE reason.kind = "no_qualifying"
  <2>. DEFINE y == <<Glue, Glue, Glue, Glue, Senamhi, Glue, Glue, Stop,
                     Word, Continuing, Word, Glue, Word, Word, Stop>>
              x == Bulleted(reason)
  <2>1. render_reason_es(reason) = y
    BY <1>3 DEF render_reason_es
  <2>2. {NewLine, Bullet, Glue, Senamhi, Stop, Word, Continuing} \subseteq PlainlyRead(r)
    BY QuietTokens DEF NewLine, Bullet, Glue, Stop, Word, Continuing, Token
  <2>3. /\ y \in Seq(PlainlyRead(r)) /\ Len(y) = 15 /\ y # <<>> /\ y[5] = Senamhi /\ y[8] = Stop /\ y[15] = Stop
        /\ \A j \in 1 .. 15 : y[j] \in {Glue, Senamhi, Stop, Word, Continuing}
        /\ \A j \in 1 .. 7 : y[j] \in {Glue, Senamhi}
        /\ \A j \in 1 .. 15 : j = 5 \/ y[j] \in {Glue, Stop, Word, Continuing}
    BY <2>2
  <2>. HIDE DEF y
  <2>9. /\ x \in Seq(PlainlyRead(r)) /\ Len(x) = 2 + 15 /\ x[1] = NewLine /\ x[2] = Bullet
        /\ \A k \in 1 .. 15 : x[2 + k] = y[k]
    <3>1. NewLine \in PlainlyRead(r) /\ Bullet \in PlainlyRead(r)
      BY <2>2
    <3>2. y \in Seq(PlainlyRead(r)) /\ Len(y) = 15 /\ y # <<>>
      BY <2>3
    <3>. QED  BY <2>1, <3>1, <3>2, BulletedPlaces
  <2>. HIDE DEF x
  <2>4. /\ Len(x) = 17 /\ DOMAIN x = 1 .. 17 /\ x[7] = Senamhi /\ x[10] = Stop /\ x[17] = Stop
        /\ \A j \in 2 .. 17 : x[j] \in {Bullet, Glue, Senamhi, Stop, Word, Continuing}
        /\ \A j \in 3 .. 9 : x[j] \in {Glue, Senamhi}
        /\ \A j \in 1 .. 17 : j = 7 \/ x[j] \in {NewLine, Bullet, Glue, Stop, Word, Continuing}
    <3>1. \A j \in 3 .. 17 : x[j] = y[j - 2] /\ j - 2 \in 1 .. 15
      <4>1. ASSUME NEW j \in 3 .. 17 PROVE x[j] = y[j - 2] /\ j - 2 \in 1 .. 15
        <5>1. j - 2 \in 1 .. 15 /\ 2 + (j - 2) = j
          OBVIOUS
        <5>. QED  BY <2>9, <5>1
      <4>. QED  BY <4>1
    <3>2. /\ 7 \in 3 .. 17 /\ 10 \in 3 .. 17 /\ 17 \in 3 .. 17 /\ 7 - 2 = 5 /\ 10 - 2 = 8 /\ 17 - 2 = 15 /\ 2 + 15 = 17
          /\ (\A j \in 2 .. 17 : j = 2 \/ j \in 3 .. 17) /\ (\A j \in 1 .. 17 : j = 1 \/ j = 2 \/ j \in 3 .. 17)
          /\ (\A j \in 3 .. 9 : j \in 3 .. 17 /\ j - 2 \in 1 .. 7) /\ (\A j \in 3 .. 17 : j - 2 = 5 => j = 7)
      OBVIOUS
    <3>3. x[7] = Senamhi /\ x[10] = Stop /\ x[17] = Stop
      BY <2>3, <3>1, <3>2
    <3>4. \A j \in 2 .. 17 : x[j] \in {Bullet, Glue, Senamhi, Stop, Word, Continuing}
      BY <2>3, <2>9, <3>1, <3>2
    <3>5. \A j \in 3 .. 9 : x[j] \in {Glue, Senamhi}
      BY <2>3, <3>1, <3>2
    <3>6. \A j \in 1 .. 17 : j = 7 \/ x[j] \in {NewLine, Bullet, Glue, Stop, Word, Continuing}
      BY <2>3, <2>9, <3>1, <3>2
    <3>. QED  BY <2>9, <3>2, <3>3, <3>4, <3>5, <3>6, LenProperties
  <2>5. EndedLine(x, 2, 17) /\ Opens(x, 2, FALSE)
    <3>1. 2 \in 2 .. 17 /\ 17 \in 2 .. 17 /\ 2 - 1 = 1 /\ ~ (17 < 17)
      OBVIOUS
    <3>2. \A j \in 2 .. 17 : x[j] # NewLine
      BY <1>0, <2>4
    <3>. QED  BY <2>4, <2>9, <3>1, <3>2 DEF EndedLine, Opens
  <2>6. Attributed(r, x, 2, 7, 17)
    <3>1. 10 \in 7 .. 17 /\ \A j \in 2 .. 10 - 1 : j = 2 \/ j \in 3 .. 9
      OBVIOUS
    <3>2. \A j \in 2 .. 10 - 1 : IsWord(x[j]) => is_structured_fact(r, x[j])
      BY <1>00, <2>4, <2>9, <3>1
    <3>. QED  BY <2>4, <3>1, <3>2 DEF Attributed
  <2>7. ASSUME NEW i \in DOMAIN x, SaysSenamhi(x[i]) PROVE TellsAt(r, x, i, FALSE)
    <3>1. \A t \in {NewLine, Bullet, Glue, Stop, Word, Continuing} : ~ SaysSenamhi(t)
      BY QuietTokens DEF QuietToken
    <3>2. i = 7
      BY <2>4, <2>7, <3>1
    <3>3. 2 \in 2 .. 7 /\ 17 \in 7 .. 17
      OBVIOUS
    <3>. QED  BY <2>4, <2>5, <2>6, <3>2, <3>3 DEF TellsAt
  <2>8. Tells(r, x, FALSE)
    BY <2>7 DEF Tells
  <2>. QED  BY <2>4, <2>8, <2>9 DEF Complete, x
<1>4. CASE reason.kind = "senamhi_unavailable"
  <2>1. Bulleted(reason) = <<>>
    BY <1>4 DEF Bulleted, render_reason_es
  <2>. QED  BY <2>1 DEF Complete, Tells
<1>5. reason.kind \in {"warning", "forecast", "no_qualifying", "senamhi_unavailable"}
  BY DEF Reason
<1>. QED  BY <1>1, <1>2, <1>3, <1>4, <1>5

\* A line, place by place.
LEMMA LinePlaces ==
    ASSUME NEW T, NewLine \in T, NEW y \in Seq(T)
    PROVE  /\ Line(y) \in Seq(T) /\ Len(Line(y)) = 1 + Len(y) /\ Len(y) \in Nat
           /\ Line(y)[1] = NewLine
           /\ \A k \in 1 .. Len(y) : Line(y)[1 + k] = y[k]
<1>. DEFINE mark == <<NewLine>>
            x == mark \o y
            n == Len(y)
<1>1. Line(y) = x
  BY DEF Line
<1>2. mark \in Seq(T) /\ Len(mark) = 1 /\ mark[1] = NewLine /\ n \in Nat
  BY LenProperties
<1>. HIDE DEF mark
<1>3. /\ x \in Seq(T) /\ Len(x) = 1 + n
      /\ \A k \in 1 .. 1 + n : x[k] = IF k <= 1 THEN mark[k] ELSE y[k - 1]
  <2>1. /\ x \in Seq(T) /\ Len(x) = Len(mark) + Len(y)
        /\ \A k \in 1 .. Len(mark) + Len(y) : x[k] = IF k <= Len(mark) THEN mark[k] ELSE y[k - Len(mark)]
    BY <1>2, ConcatProperties
  <2>. HIDE DEF x
  <2>. QED  BY <1>2, <2>1
<1>. HIDE DEF x, n
<1>4. x[1] = NewLine
  <2>1. 1 \in 1 .. 1 + n /\ 1 <= 1
    BY <1>2
  <2>. QED  BY <1>2, <1>3, <2>1
<1>5. \A k \in 1 .. n : x[1 + k] = y[k]
  <2>1. ASSUME NEW k \in 1 .. n PROVE x[1 + k] = y[k]
    <3>1. 1 + k \in 1 .. 1 + n /\ ~ (1 + k <= 1) /\ (1 + k) - 1 = k
      BY <1>2
    <3>. QED  BY <1>3, <3>1
  <2>. QED  BY <2>1
<1>. QED  BY <1>1, <1>2, <1>3, <1>4, <1>5 DEF n

\* What is said of a source that is down tells of it.
LEMMA DownIsComplete ==
    ASSUME NEW r
    PROVE  Complete(r, down_lines(r), TRUE)
<1>0. /\ Stop # NewLine /\ Glue # NewLine /\ Senamhi # NewLine /\ Word # NewLine /\ Continuing # NewLine
      /\ Glue.kind = "glue" /\ Senamhi.kind = "senamhi"
  BY DEF Stop, NewLine, Glue, Senamhi, Word, Continuing, Token
<1>00. is_structured_fact(r, Glue) /\ is_structured_fact(r, Senamhi)
  BY <1>0 DEF is_structured_fact
<1>1. Complete(r, Line(NoSenamhi), TRUE)
  <2>. DEFINE y == NoSenamhi
              x == Line(y)
  <2>1. {NewLine, Glue, Senamhi, Stop, Word, Continuing} \subseteq PlainlyRead(r)
    BY QuietTokens DEF NewLine, Glue, Stop, Word, Continuing, Token
  <2>2. /\ y \in Seq(PlainlyRead(r)) /\ Len(y) = 14 /\ y[4] = Senamhi /\ y[10] = Stop /\ y[14] = Stop
        /\ \A j \in 1 .. 14 : y[j] \in {Glue, Senamhi, Stop, Word, Continuing}
        /\ \A j \in 1 .. 9 : y[j] \in {Glue, Senamhi}
        /\ \A j \in 1 .. 14 : j = 4 \/ y[j] \in {Glue, Stop, Word, Continuing}
    BY <2>1 DEF NoSenamhi
  <2>. HIDE DEF y
  <2>3. /\ x \in Seq(PlainlyRead(r)) /\ Len(x) = 1 + 14 /\ x[1] = NewLine
        /\ \A k \in 1 .. 14 : x[1 + k] = y[k]
    <3>1. NewLine \in PlainlyRead(r) /\ y \in Seq(PlainlyRead(r)) /\ Len(y) = 14
      BY <2>1, <2>2
    <3>. QED  BY <3>1, LinePlaces
  <2>. HIDE DEF x
  <2>4. /\ Len(x) = 15 /\ DOMAIN x = 1 .. 15 /\ x[5] = Senamhi /\ x[11] = Stop /\ x[15] = Stop
        /\ \A j \in 2 .. 15 : x[j] \in {Glue, Senamhi, Stop, Word, Continuing}
        /\ \A j \in 2 .. 10 : x[j] \in {Glue, Senamhi}
        /\ \A j \in 1 .. 15 : j = 5 \/ x[j] \in {NewLine, Glue, Stop, Word, Continuing}
    <3>1. \A j \in 2 .. 15 : x[j] = y[j - 1] /\ j - 1 \in 1 .. 14
      <4>1. ASSUME NEW j \in 2 .. 15 PROVE x[j] = y[j - 1] /\ j - 1 \in 1 .. 14
        <5>1. j - 1 \in 1 .. 14 /\ 1 + (j - 1) = j
          OBVIOUS
        <5>. QED  BY <2>3, <5>1
      <4>. QED  BY <4>1
    <3>2. /\ 5 \in 2 .. 15 /\ 11 \in 2 .. 15 /\ 15 \in 2 .. 15 /\ 5 - 1 = 4 /\ 11 - 1 = 10 /\ 15 - 1 = 14 /\ 1 + 14 = 15
          /\ (\A j \in 1 .. 15 : j = 1 \/ j \in 2 .. 15)
          /\ (\A j \in 2 .. 10 : j \in 2 .. 15 /\ j - 1 \in 1 .. 9) /\ (\A j \in 2 .. 15 : j - 1 = 4 => j = 5)
      OBVIOUS
    <3>3. x[5] = Senamhi /\ x[11] = Stop /\ x[15] = Stop
      BY <2>2, <3>1, <3>2
    <3>4. \A j \in 2 .. 15 : x[j] \in {Glue, Senamhi, Stop, Word, Continuing}
      BY <2>2, <3>1, <3>2
    <3>5. \A j \in 2 .. 10 : x[j] \in {Glue, Senamhi}
      BY <2>2, <3>1, <3>2
    <3>6. \A j \in 1 .. 15 : j = 5 \/ x[j] \in {NewLine, Glue, Stop, Word, Continuing}
      BY <2>2, <2>3, <3>1, <3>2
    <3>. QED  BY <2>3, <3>2, <3>3, <3>4, <3>5, <3>6, LenProperties
  <2>5. EndedLine(x, 2, 15) /\ Opens(x, 2, TRUE)
    <3>1. 2 \in 2 .. 15 /\ 15 \in 2 .. 15 /\ 2 - 1 = 1 /\ ~ (15 < 15)
      OBVIOUS
    <3>2. \A j \in 2 .. 15 : x[j] # NewLine
      BY <1>0, <2>4
    <3>. QED  BY <2>3, <2>4, <3>1, <3>2 DEF EndedLine, Opens
  <2>6. Attributed(r, x, 2, 5, 15)
    <3>1. 11 \in 5 .. 15 /\ \A j \in 2 .. 11 - 1 : j \in 2 .. 10
      OBVIOUS
    <3>2. \A j \in 2 .. 11 - 1 : IsWord(x[j]) => is_structured_fact(r, x[j])
      BY <1>00, <2>4, <3>1
    <3>. QED  BY <2>4, <3>1, <3>2 DEF Attributed
  <2>7. ASSUME NEW i \in DOMAIN x, SaysSenamhi(x[i]) PROVE TellsAt(r, x, i, TRUE)
    <3>1. \A t \in {NewLine, Glue, Stop, Word, Continuing} : ~ SaysSenamhi(t)
      BY QuietTokens DEF QuietToken
    <3>2. i = 5
      BY <2>4, <2>7, <3>1
    <3>3. 2 \in 2 .. 5 /\ 15 \in 5 .. 15
      OBVIOUS
    <3>. QED  BY <2>4, <2>5, <2>6, <3>2, <3>3 DEF TellsAt
  <2>8. Tells(r, x, TRUE)
    BY <2>7 DEF Tells
  <2>9. Complete(r, x, TRUE)
    BY <2>3, <2>4, <2>8 DEF Complete
  <2>. QED  BY <2>9 DEF x, y
<1>2. Complete(r, Line(NoOpenMeteo), FALSE)
  <2>. DEFINE y == NoOpenMeteo
              x == Line(y)
              Mark == {NewLine, Glue, Word, Stop}
  <2>1. Mark \subseteq QuietToken
    BY QuietTokens
  <2>2. \A t \in Mark : t.kind # "span"
    BY DEF NewLine, Glue, Word, Stop, Token
  <2>3. y \in Seq(Mark) /\ Len(y) = 7 /\ y[7] = Stop /\ NewLine \in Mark
    BY DEF NoOpenMeteo
  <2>. HIDE DEF y, Mark
  <2>4. x \in Seq(Mark) /\ Len(x) = 1 + 7 /\ x[1] = NewLine /\ \A k \in 1 .. 7 : x[1 + k] = y[k]
    BY <2>3, LinePlaces
  <2>. HIDE DEF x
  <2>5. x[Len(x)] = Stop
    <3>1. 7 \in 1 .. 7
      OBVIOUS
    <3>. QED  BY <2>3, <2>4, <3>1
  <2>6. x \in Seq(QuietToken)
    BY <2>1, <2>4, SeqMonotonic
  <2>7. \A k \in DOMAIN x : x[k].kind # "span"
    <3>1. x \in Seq(Mark)
      BY <2>4
    <3>2. \A k \in DOMAIN x : x[k] \in Mark
      BY <3>1
    <3>. QED  BY <2>2, <3>2
  <2>8. Complete(r, x, FALSE)
    BY <2>4, <2>5, <2>6, <2>7, QuietIsComplete
  <2>. QED  BY <2>8 DEF x, y
<1>3. Complete(r, <<>>, TRUE) /\ Complete(r, <<>>, FALSE)
  BY DEF Complete, Tells
<1>. DEFINE a == IF r.senamhi_status = "unavailable" THEN Line(NoSenamhi) ELSE <<>>
            b == IF r.open_meteo_status = "unavailable" THEN Line(NoOpenMeteo) ELSE <<>>
<1>4. Complete(r, a, TRUE) /\ Complete(r, b, FALSE)
  BY <1>1, <1>2, <1>3
<1>5. down_lines(r) = a \o b
  BY DownIsSilent
<1>. HIDE DEF a, b
<1>. QED  BY <1>4, <1>5, CompleteConcat

\* So do the reasons, under their heading.
LEMMA ReasonsComplete ==
    ASSUME NEW r \in MessageRequest, \A s \in titles(r) : s.long
    PROVE  Complete(r, reason_lines(r.reasons), FALSE)
<1>. DEFINE parts == [i \in DOMAIN r.reasons |-> Bulleted(r.reasons[i])]
            n == Len(r.reasons)
            head == Line(<<Header("Motivos:")>>)
            list == Bullets(r.reasons)
<1>1. r.reasons \in Seq(Reason)
  BY DEF MessageRequest
<1>2. n \in Nat /\ DOMAIN r.reasons = 1 .. n /\ \A k \in 1 .. n : r.reasons[k] \in Reason /\ r.reasons[k] \in Range(r.reasons)
  BY <1>1, LenProperties DEF Range
<1>3. list \in Seq(TextToken) /\ Complete(r, list, FALSE)
  <2>1. ASSUME NEW k \in 1 .. n PROVE Complete(r, Bulleted(r.reasons[k]), FALSE)
    <3>. DEFINE reason == r.reasons[k]
    <3>1. reason \in Reason /\ reason \in Range(r.reasons)
      BY <1>2
    <3>. HIDE DEF reason
    <3>2. Complete(r, Bulleted(reason), FALSE)
      BY <3>1, BulletedIsComplete
    <3>. QED  BY <3>2 DEF reason
  <2>2. \A k \in 1 .. n : parts[k] = Bulleted(r.reasons[k])
    BY <1>2
  <2>3. parts \in Seq(Seq(CalmToken)) /\ Len(parts) = n
    BY <1>1, Reasons
  <2>4. CalmToken \subseteq TextToken /\ Seq(CalmToken) \subseteq Seq(TextToken)
    BY CalmIsText DEF CalmToken
  <2>. HIDE DEF parts
  <2>5. parts \in Seq(Seq(TextToken))
    BY <2>3, <2>4, SeqMonotonic
  <2>6. Complete(r, FlattenSeq(parts), FALSE)
    BY <2>1, <2>2, <2>3, <2>5, CompleteParts
  <2>7. list = FlattenSeq(parts)
    BY DEF Bullets, parts
  <2>. QED  BY <2>6, <2>7, CompleteIsText
<1>4. /\ head \in Seq(QuietToken) /\ head \in Seq(PlainlyRead(r)) /\ Len(head) = 2 /\ head[1] = NewLine
  <2>. DEFINE h == Header("Motivos:")
  <2>1. h \in QuietToken /\ NewLine \in QuietToken /\ h.kind # "span" /\ NewLine.kind # "span"
    BY QuietTokens DEF SECTION_HEADERS, Header, NewLine, Token
  <2>2. h \in PlainlyRead(r) /\ NewLine \in PlainlyRead(r)
    BY <2>1, QuietTokens
  <2>. HIDE DEF h
  <2>3. <<h>> \in Seq(QuietToken) /\ <<h>> \in Seq(PlainlyRead(r)) /\ Len(<<h>>) = 1
    BY <2>1, <2>2
  <2>4. Line(<<h>>) \in Seq(QuietToken) /\ Line(<<h>>) \in Seq(PlainlyRead(r))
        /\ Len(Line(<<h>>)) = 1 + 1 /\ Line(<<h>>)[1] = NewLine
    BY <2>1, <2>2, <2>3, LinePlaces
  <2>. QED  BY <2>4 DEF h
<1>5. reason_lines(r.reasons) = IF list = <<>> THEN <<>> ELSE head \o list
  BY DEF reason_lines, Bullets, Bulleted
<1>6. Complete(r, <<>>, FALSE)
  BY DEF Complete, Tells
<1>. HIDE DEF head, list, n
<1>7. ASSUME list # <<>> PROVE Complete(r, head \o list, FALSE)
  <2>1. head \in Seq(TextToken) /\ Tells(r, head, FALSE)
    BY <1>4, QuietIsTold
  <2>2. list \in Seq(PlainlyRead(r)) /\ Tells(r, list, FALSE) /\ list[1] = NewLine /\ list[Len(list)] = Stop
    BY <1>3, <1>7 DEF Complete
  <2>3. Tells(r, head \o list, FALSE)
    BY <1>3, <2>1, <2>2, ToldConcat
  <2>. DEFINE w == head \o list
              m == Len(list)
  <2>4. /\ w \in Seq(PlainlyRead(r)) /\ Len(w) = Len(head) + m
        /\ \A k \in 1 .. Len(head) + m : w[k] = IF k <= Len(head) THEN head[k] ELSE list[k - Len(head)]
    <3>1. head \in Seq(PlainlyRead(r)) /\ list \in Seq(PlainlyRead(r))
      BY <1>4, <2>2
    <3>. QED  BY <3>1, ConcatProperties
  <2>5. m \in Nat /\ m # 0 /\ list[m] = Stop
    BY <1>3, <1>7, <2>2, LenProperties, EmptySeq
  <2>. HIDE DEF w, m
  <2>6. /\ Len(w) = 2 + m /\ \A k \in 1 .. 2 + m : w[k] = IF k <= 2 THEN head[k] ELSE list[k - 2]
    BY <1>4, <2>4
  <2>7. 1 \in 1 .. 2 + m /\ 1 <= 2 /\ 2 + m \in 1 .. 2 + m /\ ~ (2 + m <= 2) /\ (2 + m) - 2 = m
    BY <2>5
  <2>8. w[1] = NewLine /\ w[2 + m] = Stop
    BY <1>4, <2>5, <2>6, <2>7
  <2>9. Complete(r, w, FALSE)
    BY <2>3, <2>4, <2>6, <2>8 DEF Complete, w
  <2>. QED  BY <2>9 DEF w
<1>. QED  BY <1>5, <1>6, <1>7

\* Neither the city nor the operator's own strings name SENAMHI, and every
\* title is long enough to be a quotation.
Attributable(r) ==
    /\ \A s \in titles(r) : s.long
    /\ \A s \in Range(r.checklist) \cup {r.city, r.timezone} : \A i \in DOMAIN s.text : s.text[i] # Senamhi

\* The opening does not name it.
LEMMA OpeningIsQuiet ==
    ASSUME NEW r \in MessageRequest, Attributable(r)
    PROVE  /\ Opening(r) \in Seq(QuietToken)
           /\ template(r).title \in Seq(QuietToken)
<1>. DEFINE start == Moment(r.window.start)
            end == Moment(r.window.end)
            place == <<Word, Word, Span(r.timezone)>>
            lead == <<Word, Glue>>
            to == <<Glue>>
            period == lead \o start \o to \o end \o place
            city == <<Word, Span(r.city)>>
            named == <<Glue, Word>>
<1>1. /\ r.city \in SuppliedString /\ r.timezone \in SuppliedString
      /\ r.window.start \in Int /\ r.window.end \in Int
  BY DEF MessageRequest, TimeWindow
<1>2. Span(r.city) \in QuietToken /\ Span(r.timezone) \in QuietToken
  BY <1>1, QuietTokens DEF Attributable
<1>3. \A t \in Int : Moment(t) \in Seq(QuietToken)
  <2>1. ASSUME NEW t \in Int PROVE Moment(t) \in Seq(QuietToken)
    <3>1. date(t) \in Int /\ time_of_day(t) \in Int
      BY HistoryAssumption DEF date, time_of_day
    <3>2. Date(date(t)) \in QuietToken /\ Time(time_of_day(t)) \in QuietToken
      BY <3>1, QuietTokens
    <3>. QED  BY <3>2 DEF Moment
  <2>. QED  BY <2>1
<1>4. {Word, Glue, NewLine, Continuing} \subseteq QuietToken
  BY QuietTokens
<1>5. /\ start \in Seq(QuietToken) /\ end \in Seq(QuietToken) /\ place \in Seq(QuietToken)
      /\ lead \in Seq(QuietToken) /\ to \in Seq(QuietToken) /\ city \in Seq(QuietToken) /\ named \in Seq(QuietToken)
  BY <1>1, <1>2, <1>3, <1>4
<1>6. Opening(r) = (city \o Line(named)) \o Line(period)
  BY DEF Opening
<1>7. period = (((lead \o start) \o to) \o end) \o place
  OBVIOUS
<1>8. template(r).title \in Seq(QuietToken)
  BY <1>2, <1>4 DEF template
<1>. HIDE DEF start, end, place, lead, to, period, city, named
<1>9. lead \o start \in Seq(QuietToken)
  BY <1>5, ConcatProperties
<1>10. (lead \o start) \o to \in Seq(QuietToken)
  BY <1>5, <1>9, ConcatProperties
<1>11. ((lead \o start) \o to) \o end \in Seq(QuietToken)
  BY <1>5, <1>10, ConcatProperties
<1>12. period \in Seq(QuietToken)
  BY <1>5, <1>7, <1>11, ConcatProperties
<1>13. Line(period) \in Seq(QuietToken) /\ Line(named) \in Seq(QuietToken)
  BY <1>4, <1>5, <1>12, LinePlaces
<1>14. city \o Line(named) \in Seq(QuietToken)
  BY <1>5, <1>13, ConcatProperties
<1>15. (city \o Line(named)) \o Line(period) \in Seq(QuietToken)
  BY <1>13, <1>14, ConcatProperties
<1>. QED  BY <1>6, <1>8, <1>15

\* Nor do the recommendations, which begin a line of their own.
LEMMA RecommendedIsQuiet ==
    ASSUME NEW r \in MessageRequest, Attributable(r), NEW n \in 0 .. Len(r.checklist), NEW cut \in BOOLEAN
    PROVE  LET given == Recommended(r.checklist, n, cut)
           IN  /\ given \in Seq(TextToken)
               /\ attribution_form(r, given) \in Seq(QuietToken)
               /\ attribution_form(r, given) # <<>> => attribution_form(r, given)[1] = NewLine
<1>. DEFINE items == r.checklist
            parts == [i \in 1 .. n |-> item_bullet(items[i])]
            head == Line(<<Header("Recomendaciones:")>>)
            last == Items(items, n) \o (IF cut THEN CHECKLIST_TRUNCATED_ES ELSE <<>>)
            given == Recommended(items, n, cut)
<1>1. /\ items \in Seq(SuppliedString) /\ Len(items) \in Nat
      /\ \A i \in 1 .. Len(items) : items[i] \in SuppliedString /\ items[i] \in Range(items)
  <2>1. items \in Seq(SuppliedString)
    BY DEF MessageRequest
  <2>. QED  BY <2>1, LenProperties DEF Range
<1>2. {Word, Glue, NewLine, Bullet} \subseteq QuietToken
  BY QuietTokens
<1>3. Items(items, n) \in Seq(QuietToken)
  <2>1. ASSUME NEW i \in 1 .. n PROVE item_bullet(items[i]) \in Seq(QuietToken)
    <3>. DEFINE s == items[i]
    <3>1. s \in SuppliedString /\ s \in Range(items)
      BY <1>1
    <3>. HIDE DEF s
    <3>2. Span(s) \in QuietToken
      BY <3>1, QuietTokens DEF Attributable
    <3>3. <<Bullet, Span(s)>> \in Seq(QuietToken)
      BY <1>2, <3>2
    <3>4. Line(<<Bullet, Span(s)>>) \in Seq(QuietToken)
      BY <1>2, <3>3, LinePlaces
    <3>5. <<>> \in Seq(QuietToken)
      OBVIOUS
    <3>. QED  BY <3>4, <3>5 DEF s, item_bullet
  <2>2. n \in Nat /\ parts \in [1 .. n -> Seq(QuietToken)]
    BY <1>1, <2>1
  <2>. HIDE DEF parts
  <2>3. parts \in Seq(Seq(QuietToken))
    BY <2>2
  <2>4. FlattenSeq(parts) \in Seq(QuietToken)
    BY <2>3, FlattenedPlaces
  <2>. QED  BY <2>4 DEF parts, Items
<1>4. (IF cut THEN CHECKLIST_TRUNCATED_ES ELSE <<>>) \in Seq(QuietToken)
  <2>1. <<Bullet, Glue, Word, Word>> \in Seq(QuietToken)
    BY <1>2
  <2>2. CHECKLIST_TRUNCATED_ES \in Seq(QuietToken)
    BY <1>2, <2>1, LinePlaces DEF CHECKLIST_TRUNCATED_ES
  <2>. QED  BY <2>2
<1>5. last \in Seq(QuietToken) /\ last \in Seq(TextToken)
  <2>1. last \in Seq(QuietToken)
    BY <1>3, <1>4, ConcatProperties
  <2>. HIDE DEF last
  <2>. QED  BY <2>1, QuietIsTold
<1>6. /\ head \in Seq(QuietToken) /\ head \in Seq(TextToken) /\ head \in Seq(PlainlyRead(r))
      /\ Len(head) = 2 /\ head[1] = NewLine
  <2>. DEFINE h == Header("Recomendaciones:")
  <2>1. h \in QuietToken /\ h.kind # "span" /\ NewLine.kind # "span"
    BY QuietTokens DEF SECTION_HEADERS, Header, NewLine, Token
  <2>2. h \in PlainlyRead(r) /\ NewLine \in PlainlyRead(r)
    BY <1>2, <2>1, QuietTokens
  <2>. HIDE DEF h
  <2>3. <<h>> \in Seq(QuietToken) /\ <<h>> \in Seq(PlainlyRead(r)) /\ Len(<<h>>) = 1
    BY <2>1, <2>2
  <2>4. Line(<<h>>) \in Seq(QuietToken) /\ Line(<<h>>) \in Seq(PlainlyRead(r))
        /\ Len(Line(<<h>>)) = 1 + 1 /\ Line(<<h>>)[1] = NewLine
    BY <1>2, <2>2, <2>3, LinePlaces
  <2>5. Line(<<h>>) \in Seq(TextToken)
    BY <2>4, QuietIsTold
  <2>. QED  BY <2>4, <2>5 DEF h
<1>7. given = head \o last
  BY DEF Recommended
<1>. HIDE DEF items, head, last, given
<1>. DEFINE form == attribution_form(r, last)
<1>8. attribution_form(r, given) = head \o form /\ form \in Seq(QuietToken)
  <2>1. attribution_form(r, head \o last) = attribution_form(r, head) \o form
    BY <1>5, <1>6, FormConcat
  <2>2. attribution_form(r, head) = head /\ form \in Seq(QuietToken)
    BY <1>5, <1>6, Forms
  <2>. QED  BY <1>7, <2>1, <2>2
<1>. HIDE DEF form
<1>9. given \in Seq(TextToken) /\ head \o form \in Seq(QuietToken) /\ (head \o form)[1] = NewLine
  <2>1. given \in Seq(TextToken)
    BY <1>5, <1>6, <1>7, ConcatProperties
  <2>2. /\ head \o form \in Seq(QuietToken)
        /\ \A k \in 1 .. Len(head) + Len(form) : (head \o form)[k] = IF k <= Len(head) THEN head[k] ELSE form[k - Len(head)]
    BY <1>6, <1>8, ConcatProperties
  <2>3. Len(form) \in Nat
    BY <1>8, LenProperties
  <2>4. 1 \in 1 .. Len(head) + Len(form) /\ 1 <= Len(head)
    BY <1>6, <2>3
  <2>. QED  BY <1>6, <2>1, <2>2, <2>4
<1>. QED  BY <1>8, <1>9 DEF given, items

\* So the template names SENAMHI as the rule asks.
LEMMA TemplateAttributes ==
    ASSUME NEW r \in MessageRequest, Attributable(r)
    PROVE  ~ senamhi_attribution(r, template(r).title) /\ ~ senamhi_attribution(r, template(r).body)
<1>. DEFINE title == template(r).title
            open == Opening(r)
            reasons == reason_lines(r.reasons)
            down == down_lines(r)
            told == reasons \o down
<1>1. /\ open \in Seq(QuietToken) /\ open \in Seq(TextToken)
      /\ title \in Seq(QuietToken) /\ title \in Seq(TextToken)
  <2>1. open \in Seq(QuietToken) /\ title \in Seq(QuietToken)
    BY OpeningIsQuiet
  <2>. HIDE DEF open, title
  <2>. QED  BY <2>1, QuietIsTold
<1>2. Complete(r, told, TRUE)
  <2>1. Complete(r, reasons, FALSE) /\ Complete(r, down, TRUE)
    BY ReasonsComplete, DownIsComplete DEF Attributable
  <2>. HIDE DEF reasons, down
  <2>2. CASE reasons = <<>>
    <3>1. down \in Seq(TextToken)
      BY <2>1, CompleteIsText
    <3>2. told = down
      BY <2>2, <3>1, ConcatEmptySeq
    <3>. QED  BY <2>1, <3>2
  <2>3. CASE reasons # <<>>
    <3>1. Complete(r, told, FALSE)
      BY <2>1, <2>3, CompleteConcat
    <3>. QED  BY <3>1, ToldFirst DEF Complete
  <2>. QED  BY <2>2, <2>3
<1>3. \/ body_of(r) = open \o told
      \/ \E n \in 0 .. Len(r.checklist), cut \in BOOLEAN :
            body_of(r) = (open \o told) \o Recommended(r.checklist, n, cut)
  BY BodyParts
<1>4. template(r).body = body_of(r)
  BY DEF template
<1>. HIDE DEF title, open, reasons, down, told
<1>5. told \in Seq(TextToken) /\ Tells(r, told, TRUE) /\ attribution_form(r, told) = told
      /\ attribution_form(r, open) \in Seq(QuietToken) /\ attribution_form(r, open) \in Seq(TextToken)
  <2>1. told \in Seq(TextToken) /\ told \in Seq(PlainlyRead(r)) /\ Tells(r, told, TRUE)
    BY <1>2, CompleteIsText DEF Complete
  <2>. QED  BY <1>1, <2>1, Forms
<1>. DEFINE first == attribution_form(r, open)
<1>. HIDE DEF first
<1>6. attribution_form(r, open \o told) = first \o told /\ open \o told \in Seq(TextToken)
  <2>1. open \in Seq(TextToken) /\ told \in Seq(TextToken)
    BY <1>1, <1>5
  <2>2. attribution_form(r, open \o told) = attribution_form(r, open) \o attribution_form(r, told)
    BY <2>1, FormConcat
  <2>3. open \o told \in Seq(TextToken)
    BY <2>1, ConcatProperties
  <2>. QED  BY <1>5, <2>2, <2>3 DEF first
<1>7. ASSUME NEW n \in 0 .. Len(r.checklist), NEW cut \in BOOLEAN,
             body_of(r) = (open \o told) \o Recommended(r.checklist, n, cut)
      PROVE  ~ senamhi_attribution(r, body_of(r))
  <2>. DEFINE given == Recommended(r.checklist, n, cut)
              rest == attribution_form(r, given)
  <2>1. given \in Seq(TextToken) /\ rest \in Seq(QuietToken) /\ (rest # <<>> => rest[1] = NewLine)
    BY RecommendedIsQuiet
  <2>. HIDE DEF given
  <2>2. attribution_form(r, (open \o told) \o given) = (first \o told) \o rest
    BY <1>6, <2>1, FormConcat
  <2>. HIDE DEF rest
  <2>3. rest \in Seq(TextToken) /\ Tells(r, rest, FALSE)
    BY <2>1, QuietIsTold
  <2>4. told \o rest \in Seq(TextToken) /\ Tells(r, told \o rest, TRUE)
    BY <1>5, <2>1, <2>3, ToldConcat, ConcatProperties
  <2>5. first \in Seq(TextToken) /\ first \in Seq(QuietToken)
    BY <1>5 DEF first
  <2>6. (first \o told) \o rest = first \o (told \o rest)
    BY <1>5, <2>3, <2>5, ConcatAssociative
  <2>7. attribution_form(r, body_of(r)) = first \o (told \o rest)
    BY <1>7, <2>2, <2>6 DEF given
  <2>. QED  BY <2>4, <2>5, <2>7, RuleMet
<1>8. ASSUME body_of(r) = open \o told PROVE ~ senamhi_attribution(r, body_of(r))
  <2>1. first \in Seq(QuietToken) /\ attribution_form(r, body_of(r)) = first \o told
    BY <1>5, <1>6, <1>8 DEF first
  <2>. QED  BY <1>5, <2>1, RuleMet
<1>9. ~ senamhi_attribution(r, title)
  <2>. DEFINE form == attribution_form(r, title)
  <2>1. form \in Seq(QuietToken)
    BY <1>1, Forms
  <2>. HIDE DEF form
  <2>2. form \o <<>> = form /\ <<>> \in Seq(TextToken) /\ Tells(r, <<>>, TRUE)
    BY <2>1, ConcatEmptySeq DEF Tells
  <2>3. attribution_form(r, title) = form \o <<>>
    BY <2>2 DEF form
  <2>. QED  BY <2>1, <2>2, <2>3, RuleMet
<1>. QED  BY <1>3, <1>4, <1>7, <1>8, <1>9 DEF title

\* The template's message breaks no rule, of a request that leaves it room
\* and whose strings are quotations or harmless words.
LEMMA TemplateObeys ==
    ASSUME NEW r \in MessageRequest,
           \A s \in Range(supplied(r)) : s.long \/ Harmless(s.text),
           Harmless(r.city.text), Attributable(r),
           length(evaluation(r)) + length(Line(<<Header("Recomendaciones:")>>))
              + length(CHECKLIST_TRUNCATED_ES) <= MaxBodyLength,
           length(template(r).title) <= MaxTitleLength
    PROVE  validate_message(r, template(r)) = {}
<1>. DEFINE candidate == template(r)
            title == candidate.title
            body == candidate.body
            text == residue(r, candidate)
            city == Span(r.city)
<1>1. /\ body \in Seq(TextToken) /\ Has(body, city) /\ length(body) <= MaxBodyLength
      /\ \A h \in SECTION_HEADERS : Occurrences(body, Header(h)) <= 1
      /\ Free(body, Control) /\ Free(body, Foreign)
  <2>1. body = body_of(r)
    BY DEF template
  <2>2. /\ body_of(r) \in Seq(TextToken) /\ Has(body_of(r), city) /\ length(body_of(r)) <= MaxBodyLength
        /\ \A h \in SECTION_HEADERS : AtMostOnce(body_of(r), Header(h))
        /\ Free(body_of(r), Control) /\ Free(body_of(r), Foreign)
    BY TemplateFits
  <2>3. \A h \in SECTION_HEADERS : Occurrences(body_of(r), Header(h)) <= 1
    BY <2>2, AtMostOnceOccurs
  <2>. QED  BY <2>1, <2>2, <2>3
<1>2. /\ title \in Seq(TextToken) /\ Free(title, Control) /\ Free(title, Foreign)
      /\ ~ Blank(title)
  <2>1. title = <<Continuing, Glue, Word, city, Word>>
    BY DEF template
  <2>2. title \in Seq(CalmToken)
    <3>1. r.city \in SuppliedString
      BY DEF MessageRequest
    <3>. QED  BY <2>1, <3>1, Phrases
  <2>3. 1 \in DOMAIN title /\ title[1] = Continuing
    BY <2>1
  <2>4. Continuing # NewLine
    BY DEF Continuing, NewLine, Token
  <2>. HIDE DEF title
  <2>5. title \in Seq(TextToken) /\ Free(title, Control) /\ Free(title, Foreign)
    BY <2>2, CalmIsText, CalmIsFree
  <2>. QED  BY <2>3, <2>4, <2>5 DEF Blank
<1>3. ~ Blank(body)
  <2>1. city # NewLine
    BY DEF Span, NewLine, Token
  <2>. QED  BY <1>1, <2>1 DEF Blank, Has
<1>4. candidate.level = r.level /\ candidate.valid_until = r.window.end
  BY DEF template
<1>5. ~ untraceable_numbers(r, text) /\ ~ word_numbers(r, text) /\ ~ day_counts_in_words(r, text)
  BY TemplateCounts
<1>6. ~ senamhi_attribution(r, title) /\ ~ senamhi_attribution(r, body)
  BY TemplateAttributes
<1>7. length(title) \in Nat /\ length(body) \in Nat /\ MaxTitleLength \in Nat /\ MaxBodyLength \in Nat
      /\ length(title) <= MaxTitleLength
  BY <1>1, <1>2, LengthAdds, LengthAssumption
<1>8. ~ (length(title) > MaxTitleLength) /\ ~ (length(body) > MaxBodyLength)
  BY <1>1, <1>7
<1>. HIDE DEF candidate, text, city
<1>9. ~ Has(title \o body, Control) /\ ~ Has(title \o body, Foreign)
  <2>1. Free(title \o body, Control) /\ Free(title \o body, Foreign)
    BY <1>1, <1>2, Concatenated
  <2>. QED  BY <2>1, FreeIsAtMostOnce
<1>10. ~ \E h \in SECTION_HEADERS : Occurrences(body, Header(h)) > 1
  <2>1. \A h \in SECTION_HEADERS : Occurrences(body, Header(h)) \in Nat
    BY <1>1, OccursTyped
  <2>. QED  BY <1>1, <2>1
<1>11. validate_message(r, candidate) = {}
  BY <1>1, <1>2, <1>3, <1>4, <1>5, <1>6, <1>8, <1>9, <1>10 DEF validate_message, text, city
<1>. QED  BY <1>11 DEF candidate

-----------------------------------------------------------------------------
(* A text of several parts. *)

\* The elements of a finite set, each once.
LEMMA SetToSeqOnce ==
    ASSUME NEW T, NEW S \in SUBSET T, IsFiniteSet(S)
    PROVE  /\ SetToSeq(S) \in Seq(T) /\ Range(SetToSeq(S)) = S
           /\ \A i, j \in DOMAIN SetToSeq(S) : SetToSeq(S)[i] = SetToSeq(S)[j] => i = j
<1>. DEFINE n == Cardinality(S)
            list == SetToSeq(S)
<1>1. n \in Nat /\ ExistsBijection(1 .. n, S)
  BY FS_CardinalityType
<1>2. PICK f : f \in Bijection(1 .. n, S)
  BY <1>1 DEF ExistsBijection
<1>3. f \in [1 .. n -> S] /\ IsInjective(f)
  BY <1>2 DEF Bijection, Injection
<1>4. list \in [1 .. n -> S] /\ IsInjective(list)
  BY <1>3 DEF SetToSeq
<1>. HIDE DEF list
<1>5. list \in [1 .. n -> T]
  BY <1>4
<1>6. Range(list) = S
  <2>1. list \in Injection(1 .. n, S)
    BY <1>4, Fun_IsInj DEF IsInjective
  <2>2. IsFiniteSet(1 .. n) /\ Cardinality(1 .. n) = n
    BY <1>1, FS_Interval
  <2>3. list \in Surjection(1 .. n, S)
    BY <2>1, <2>2, FS_Injection DEF n
  <2>. HIDE DEF n
  <2>. QED  BY <1>4, <2>3 DEF Surjection, Range
<1>. HIDE DEF n
<1>7. \A i, j \in DOMAIN list : list[i] = list[j] => i = j
  BY <1>4 DEF IsInjective
<1>. QED  BY <1>1, <1>5, <1>6, <1>7 DEF list

\* What each part has at most once, and only one part has, their text has at
\* most once.
LEMMA OncePerPart ==
    ASSUME NEW T, NEW seqs \in Seq(Seq(T)), NEW x,
           \A k \in 1 .. Len(seqs) : AtMostOnce(seqs[k], x),
           \A k, l \in 1 .. Len(seqs) : Has(seqs[k], x) /\ Has(seqs[l], x) => k = l
    PROVE  /\ AtMostOnce(FlattenSeq(seqs), x)
           /\ Has(FlattenSeq(seqs), x) => \E k \in 1 .. Len(seqs) : Has(seqs[k], x)
<1>. DEFINE n == Len(seqs)
            flat == FlattenSeq(seqs)
<1>1. flat \in Seq(T) /\ \E ends : PartsEnd(seqs, ends)
  BY FlattenedPlaces
<1>2. PICK ends : PartsEnd(seqs, ends)
  BY <1>1
<1>3. /\ Len(flat) = ends[n]
      /\ \A k \in 1 .. n : \A j \in 1 .. Len(seqs[k]) : flat[ends[k - 1] + j] = seqs[k][j]
      /\ \A i \in 1 .. ends[n] : \E k \in 1 .. n : \E j \in 1 .. Len(seqs[k]) : i = ends[k - 1] + j
  BY <1>2 DEF PartsEnd
<1>4. \A k \in 1 .. n : DOMAIN seqs[k] = 1 .. Len(seqs[k])
  <2>1. \A k \in 1 .. n : seqs[k] \in Seq(T)
    OBVIOUS
  <2>. QED  BY <2>1, LenProperties
<1>5. DOMAIN flat = 1 .. Len(flat)
  BY <1>1, LenProperties
<1>6. /\ \A k \in 1 .. n : AtMostOnce(seqs[k], x)
      /\ \A k, l \in 1 .. n : Has(seqs[k], x) /\ Has(seqs[l], x) => k = l
  OBVIOUS
<1>. HIDE DEF n, flat
<1>7. ASSUME NEW i \in DOMAIN flat, flat[i] = x
      PROVE  \E k \in 1 .. n : \E j \in 1 .. Len(seqs[k]) :
                i = ends[k - 1] + j /\ seqs[k][j] = x /\ Has(seqs[k], x)
  <2>1. PICK k \in 1 .. n : \E j \in 1 .. Len(seqs[k]) : i = ends[k - 1] + j
    BY <1>3, <1>5
  <2>2. PICK j \in 1 .. Len(seqs[k]) : i = ends[k - 1] + j
    BY <2>1
  <2>3. \A m \in 1 .. Len(seqs[k]) : flat[ends[k - 1] + m] = seqs[k][m]
    BY <1>3
  <2>4. seqs[k][j] = x
    BY <1>7, <2>2, <2>3
  <2>5. Has(seqs[k], x)
    BY <1>4, <2>4 DEF Has
  <2>. QED  BY <2>2, <2>4, <2>5
<1>8. ASSUME NEW i \in DOMAIN flat, NEW j \in DOMAIN flat, flat[i] = x, flat[j] = x
      PROVE  i = j
  <2>1. PICK k \in 1 .. n : \E a \in 1 .. Len(seqs[k]) :
               i = ends[k - 1] + a /\ seqs[k][a] = x /\ Has(seqs[k], x)
    BY <1>7, <1>8
  <2>2. PICK l \in 1 .. n : \E b \in 1 .. Len(seqs[l]) :
               j = ends[l - 1] + b /\ seqs[l][b] = x /\ Has(seqs[l], x)
    BY <1>7, <1>8
  <2>3. k = l
    BY <1>6, <2>1, <2>2
  <2>4. PICK a \in 1 .. Len(seqs[k]) : i = ends[k - 1] + a /\ seqs[k][a] = x
    BY <2>1
  <2>5. PICK b \in 1 .. Len(seqs[k]) : j = ends[k - 1] + b /\ seqs[k][b] = x
    BY <2>2, <2>3
  <2>6. a = b
    BY <1>4, <1>6, <2>4, <2>5 DEF AtMostOnce
  <2>. QED  BY <2>4, <2>5, <2>6
<1>9. AtMostOnce(flat, x)
  BY <1>8 DEF AtMostOnce
<1>10. Has(flat, x) => \E k \in 1 .. n : Has(seqs[k], x)
  BY <1>7 DEF Has
<1>. QED  BY <1>9, <1>10 DEF flat, n

\* Lines one after the other, each of which tells what it says, do so.
LEMMA CompleteLines ==
    ASSUME NEW r, NEW seqs \in Seq(Seq(TextToken)),
           \A k \in 1 .. Len(seqs) : Complete(r, seqs[k], TRUE)
    PROVE  Complete(r, FlattenSeq(seqs), TRUE)
<1>. DEFINE n == Len(seqs)
<1>1. PICK f \in [0 .. n -> Seq(TextToken)] :
         f[0] = <<>> /\ (\A k \in 1 .. n : f[k] = f[k - 1] \o seqs[k]) /\ FlattenSeq(seqs) = f[n]
  BY Flattened
<1>2. n \in Nat
  BY LenProperties
<1>3. Complete(r, <<>>, TRUE)
  BY DEF Complete, Tells
<1>4. \A k \in 1 .. n : Complete(r, seqs[k], TRUE) /\ seqs[k] \in Seq(TextToken)
  <2>1. \A k \in 1 .. n : seqs[k] \in Seq(TextToken)
    OBVIOUS
  <2>. QED  BY <2>1
<1>. HIDE DEF n
<1>. DEFINE Upto == {k \in Nat : k <= n => Complete(r, f[k], TRUE)}
<1>5. 0 \in Upto
  BY <1>1, <1>3
<1>6. ASSUME NEW k \in Nat, k \in Upto PROVE k + 1 \in Upto
  <2>1. ASSUME k + 1 <= n PROVE Complete(r, f[k + 1], TRUE)
    <3>1. k <= n /\ k + 1 \in 1 .. n /\ (k + 1) - 1 = k
      BY <1>2, <2>1
    <3>2. f[k + 1] = f[k] \o seqs[k + 1]
      BY <1>1, <3>1
    <3>3. Complete(r, f[k], TRUE) /\ Complete(r, seqs[k + 1], TRUE) /\ seqs[k + 1] \in Seq(TextToken)
      BY <1>4, <1>6, <3>1
    <3>. DEFINE a == f[k]
                b == seqs[k + 1]
    <3>4. Complete(r, a, TRUE) /\ Complete(r, b, TRUE) /\ f[k + 1] = a \o b /\ b \in Seq(TextToken)
      BY <3>2, <3>3
    <3>. HIDE DEF a, b
    <3>5. CASE a = <<>>
      <4>1. <<>> \o b = b
        BY <3>4
      <4>. QED  BY <3>4, <3>5, <4>1
    <3>6. CASE a # <<>>
      BY <3>4, <3>6, CompleteConcat
    <3>. QED  BY <3>5, <3>6
  <2>2. k + 1 \in Nat
    OBVIOUS
  <2>. QED  BY <2>1, <2>2
<1>7. n \in Upto
  <2>. HIDE DEF Upto
  <2>. QED  BY <1>2, <1>5, <1>6, FromZeroOn
<1>8. Complete(r, f[n], TRUE)
  <2>1. n <= n
    BY <1>2
  <2>. QED  BY <1>7, <2>1
<1>. QED  BY <1>1, <1>8

\* A text that ends with s is another that begins with it.
Turned(a, b, s) == a \o s = s \o b

\* A part at a time.
LEMMA Regrouped ==
    ASSUME NEW T, NEW a, NEW b, NEW s, NEW u, NEW v,
           a \in Seq(T), b \in Seq(T), s \in Seq(T), u \in Seq(T), v \in Seq(T),
           Turned(a, b, s)
    PROVE  Turned(a \o ((s \o u) \o v), b \o (u \o (v \o s)), s)
<1>. DEFINE uv == u \o v
            vs == v \o s
            x == s \o uv
            y == u \o vs
<1>1. a \in Seq(T)
  OBVIOUS
<1>2. b \in Seq(T)
  OBVIOUS
<1>3. s \in Seq(T)
  OBVIOUS
<1>4. u \in Seq(T)
  OBVIOUS
<1>5. v \in Seq(T)
  OBVIOUS
<1>6. uv \in Seq(T)
  BY ONLY <1>4, <1>5, ConcatProperties
<1>7. vs \in Seq(T)
  BY ONLY <1>3, <1>5, ConcatProperties
<1>8. (s \o u) \o v = s \o uv
  BY ONLY <1>3, <1>4, <1>5, ConcatAssociative
<1>9. uv \o s = u \o vs
  BY ONLY <1>3, <1>4, <1>5, ConcatAssociative
<1>. HIDE DEF uv, vs
<1>10. x \in Seq(T)
  BY ONLY <1>3, <1>6, ConcatProperties
<1>11. y \in Seq(T)
  BY ONLY <1>4, <1>7, ConcatProperties
<1>12. x \o s = s \o (uv \o s)
  BY ONLY <1>3, <1>6, ConcatAssociative
<1>13. x \o s = s \o y
  BY <1>9, <1>12
<1>. HIDE DEF x, y
<1>14. (a \o x) \o s = a \o (x \o s)
  BY ONLY <1>1, <1>3, <1>10, ConcatAssociative
<1>15. (a \o s) \o y = a \o (s \o y)
  BY ONLY <1>1, <1>3, <1>11, ConcatAssociative
<1>16. (s \o b) \o y = s \o (b \o y)
  BY ONLY <1>2, <1>3, <1>11, ConcatAssociative
<1>17. a \o s = s \o b
  BY DEF Turned
<1>18. (a \o x) \o s = s \o (b \o y)
  BY <1>13, <1>14, <1>15, <1>16, <1>17
<1>. QED  BY <1>8, <1>18 DEF x, y, vs, Turned

\* A stop and a new line before each sentence, and a stop at the end, are a
\* stop and then each sentence as a line that is ended.
LEMMA StopsTurn ==
    ASSUME NEW T, {Stop, NewLine} \subseteq T, NEW texts \in Seq(Seq(T))
    PROVE  /\ [i \in DOMAIN texts |-> <<Stop, NewLine>> \o texts[i]] \in Seq(Seq(T))
           /\ [i \in DOMAIN texts |-> Line(texts[i] \o <<Stop>>)] \in Seq(Seq(T))
           /\ Len([i \in DOMAIN texts |-> Line(texts[i] \o <<Stop>>)]) = Len(texts)
           /\ FlattenSeq([i \in DOMAIN texts |-> <<Stop, NewLine>> \o texts[i]]) \o <<Stop>>
                 = <<Stop>> \o FlattenSeq([i \in DOMAIN texts |-> Line(texts[i] \o <<Stop>>)])
<1>. DEFINE n == Len(texts)
            before == [i \in DOMAIN texts |-> <<Stop, NewLine>> \o texts[i]]
            after == [i \in DOMAIN texts |-> Line(texts[i] \o <<Stop>>)]
            stop == <<Stop>>
            new == <<NewLine>>
<1>1. n \in Nat /\ DOMAIN texts = 1 .. n /\ \A i \in 1 .. n : texts[i] \in Seq(T)
  BY LenProperties
<1>2. stop \in Seq(T) /\ new \in Seq(T) /\ <<Stop, NewLine>> = stop \o new
  <2>1. stop \in Seq(T) /\ new \in Seq(T)
    OBVIOUS
  <2>2. Len(stop) = 1 /\ stop[1] = Stop /\ Len(new) = 1 /\ new[1] = NewLine
    OBVIOUS
  <2>. HIDE DEF stop, new
  <2>. DEFINE w == stop \o new
  <2>3. w \in Seq(T) /\ Len(w) = Len(stop) + Len(new)
        /\ \A i \in 1 .. Len(stop) + Len(new) :
              w[i] = IF i <= Len(stop) THEN stop[i] ELSE new[i - Len(stop)]
    BY ONLY <2>1, ConcatProperties
  <2>. HIDE DEF w
  <2>4. w \in Seq(T) /\ Len(w) = 2 /\ w[1] = Stop /\ w[2] = NewLine
    BY <2>2, <2>3
  <2>5. w = <<Stop, NewLine>>
    BY <2>4
  <2>. QED  BY <2>1, <2>5 DEF w
<1>. HIDE DEF n, stop, new
<1>3. ASSUME NEW i \in 1 .. n
      PROVE  /\ (stop \o new) \o texts[i] \in Seq(T)
             /\ Line(texts[i] \o stop) \in Seq(T) /\ Line(texts[i] \o stop) = new \o (texts[i] \o stop)
             /\ texts[i] \o stop \in Seq(T)
  <2>. DEFINE t == texts[i]
  <2>1. t \in Seq(T)
    BY <1>1
  <2>. HIDE DEF t
  <2>2. stop \o new \in Seq(T) /\ t \o stop \in Seq(T)
    BY <1>2, <2>1, ConcatProperties
  <2>3. (stop \o new) \o t \in Seq(T) /\ new \o (t \o stop) \in Seq(T)
    BY <1>2, <2>1, <2>2, ConcatProperties
  <2>. QED  BY <2>2, <2>3 DEF t, Line, new
<1>4. /\ before \in Seq(Seq(T)) /\ Len(before) = n
      /\ \A i \in 1 .. n : before[i] = (stop \o new) \o texts[i]
  <2>. DEFINE pair == stop \o new
  <2>0. <<Stop, NewLine>> = pair /\ DOMAIN texts = 1 .. n
    BY <1>1, <1>2
  <2>. HIDE DEF pair
  <2>1. before = [i \in 1 .. n |-> pair \o texts[i]]
    BY <2>0
  <2>2. \A i \in 1 .. n : pair \o texts[i] \in Seq(T)
    BY <1>3 DEF pair
  <2>. HIDE DEF before
  <2>3. before \in Seq(Seq(T)) /\ Len(before) = n /\ \A i \in 1 .. n : before[i] = pair \o texts[i]
    BY <1>1, <2>1, <2>2
  <2>. QED  BY <2>3 DEF pair
<1>5. /\ after \in Seq(Seq(T)) /\ Len(after) = n
      /\ \A i \in 1 .. n : after[i] = new \o (texts[i] \o stop)
  <2>1. after = [i \in 1 .. n |-> Line(texts[i] \o stop)]
    <3>1. DOMAIN texts = 1 .. n /\ <<Stop>> = stop
      BY <1>1 DEF stop
    <3>. HIDE DEF Line
    <3>. QED  BY <3>1
  <2>2. \A i \in 1 .. n : Line(texts[i] \o stop) \in Seq(T)
    BY <1>3
  <2>3. /\ after \in Seq(Seq(T)) /\ Len(after) = n
        /\ \A i \in 1 .. n : after[i] = Line(texts[i] \o stop)
    <3>. DEFINE line(i) == Line(texts[i] \o stop)
    <3>1. after = [i \in 1 .. n |-> line(i)] /\ \A i \in 1 .. n : line(i) \in Seq(T)
      BY <2>1, <2>2
    <3>. HIDE DEF after, line
    <3>2. after \in Seq(Seq(T)) /\ Len(after) = n /\ \A i \in 1 .. n : after[i] = line(i)
      BY <1>1, <3>1
    <3>. QED  BY <3>2 DEF line
  <2>. QED  BY <1>3, <2>3
<1>. HIDE DEF before, after
<1>6. PICK f \in [0 .. n -> Seq(T)] :
         f[0] = <<>> /\ (\A k \in 1 .. n : f[k] = f[k - 1] \o before[k]) /\ FlattenSeq(before) = f[n]
  BY <1>4, Flattened
<1>7. PICK g \in [0 .. n -> Seq(T)] :
         g[0] = <<>> /\ (\A k \in 1 .. n : g[k] = g[k - 1] \o after[k]) /\ FlattenSeq(after) = g[n]
  BY <1>5, Flattened
<1>. DEFINE Upto == {k \in Nat : k <= n => f[k] \o stop = stop \o g[k]}
<1>8. 0 \in Upto
  <2>1. <<>> \o stop = stop /\ stop \o <<>> = stop
    BY <1>2
  <2>. QED  BY <1>6, <1>7, <2>1
<1>9. ASSUME NEW k \in Nat, k \in Upto PROVE k + 1 \in Upto
  <2>1. ASSUME k + 1 <= n PROVE f[k + 1] \o stop = stop \o g[k + 1]
    <3>1. k <= n /\ k + 1 \in 1 .. n /\ (k + 1) - 1 = k /\ k \in 0 .. n
      BY <1>1, <2>1
    <3>. DEFINE a == f[k]
                b == g[k]
                t == texts[k + 1]
    <3>2. /\ a \in Seq(T) /\ b \in Seq(T) /\ t \in Seq(T) /\ t \o stop \in Seq(T)
          /\ f[k + 1] = a \o ((stop \o new) \o t)
          /\ g[k + 1] = b \o (new \o (t \o stop))
          /\ a \o stop = stop \o b
      BY <1>1, <1>3, <1>4, <1>5, <1>6, <1>7, <1>9, <3>1
    <3>. HIDE DEF a, b, t
    <3>3. (a \o ((stop \o new) \o t)) \o stop = stop \o (b \o (new \o (t \o stop)))
      <4>1. /\ a \in Seq(T) /\ b \in Seq(T) /\ t \in Seq(T) /\ stop \in Seq(T) /\ new \in Seq(T)
            /\ Turned(a, b, stop)
        BY <1>2, <3>2 DEF Turned
      <4>2. Turned(a \o ((stop \o new) \o t), b \o (new \o (t \o stop)), stop)
        BY ONLY <4>1, Regrouped
      <4>. QED  BY <4>2 DEF Turned
    <3>. QED  BY <3>2, <3>3
  <2>2. k + 1 \in Nat
    OBVIOUS
  <2>. QED  BY <2>1, <2>2
<1>10. n \in Upto
  <2>. HIDE DEF Upto
  <2>. QED  BY <1>1, <1>8, <1>9, FromZeroOn
<1>11. f[n] \o stop = stop \o g[n]
  <2>1. n <= n
    BY <1>1
  <2>. QED  BY <1>10, <2>1
<1>. QED  BY <1>4, <1>5, <1>6, <1>7, <1>11 DEF before, after, stop, n

\* The title of the aviso in force is a string the system supplied.
LEMMA TitleSupplied ==
    ASSUME NEW r \in MessageRequest, NEW w \in r.warning
    PROVE  /\ supplied(r) \in Seq(SuppliedString)
           /\ Occurrences(supplied(r), w.title) >= 1
           /\ w.title \in SuppliedString /\ w.title \in titles(r)
<1>. DEFINE a == r.checklist
            b == <<r.city, r.timezone>>
            T == {x.title : x \in r.warning}
            c == SetToSeq(T)
            d == NamedTitles(r.reasons)
            s == w.title
<1>1. a \in Seq(SuppliedString) /\ b \in Seq(SuppliedString) /\ r.reasons \in Seq(Reason)
  BY DEF MessageRequest
<1>2. c \in Seq(SuppliedString) /\ Range(c) = T /\ s \in T /\ s \in SuppliedString
  <2>. DEFINE W == [level : DOMAIN WarningRank \ {"no_warning"}, title : SuppliedString, window : TimeWindow]
  <2>1. r.warning \subseteq W /\ \A v, x \in r.warning : v = x
    BY DEF MessageRequest, Optional
  <2>2. T \in SUBSET SuppliedString /\ s \in T
    BY <2>1
  <2>. HIDE DEF W
  <2>3. T = {s}
    BY <2>1
  <2>4. IsFiniteSet(T)
    BY <2>3, FS_Singleton
  <2>. HIDE DEF T, s
  <2>. QED  BY <2>2, <2>4, SetToSeqOnce
<1>3. d \in Seq(SuppliedString)
  BY <1>1, BulletsNoMore
<1>4. supplied(r) = ((a \o b) \o c) \o d
  BY DEF supplied, NamedTitles
<1>5. w.title \in titles(r)
  BY DEF titles
<1>6. ~ Free(c, s)
  BY <1>2 DEF Free, Range
<1>. HIDE DEF a, b, c, d, T, s
<1>. DEFINE ab == a \o b
            abc == ab \o c
<1>7. ab \in Seq(SuppliedString) /\ Occurrences(ab, s) = Occurrences(a, s) + Occurrences(b, s)
  BY <1>1, OccursAdds, ConcatProperties
<1>8. supplied(r) = abc \o d
  BY <1>4
<1>. HIDE DEF ab
<1>9. abc \in Seq(SuppliedString) /\ Occurrences(abc, s) = Occurrences(ab, s) + Occurrences(c, s)
  BY <1>2, <1>7, OccursAdds, ConcatProperties
<1>. HIDE DEF abc
<1>10. abc \o d \in Seq(SuppliedString) /\ Occurrences(abc \o d, s) = Occurrences(abc, s) + Occurrences(d, s)
  BY <1>3, <1>9, OccursAdds, ConcatProperties
<1>11. /\ Occurrences(ab, s) \in Nat /\ Occurrences(c, s) \in Nat /\ Occurrences(d, s) \in Nat
       /\ Occurrences(c, s) # 0
  BY <1>2, <1>3, <1>6, <1>7, OccursTyped
<1>12. Occurrences(supplied(r), s) >= 1
  BY <1>8, <1>9, <1>10, <1>11
<1>. QED  BY <1>2, <1>5, <1>8, <1>10, <1>12 DEF s

-----------------------------------------------------------------------------
(* A sentence of an honest draft. *)

\* What it counts and dates is the request's, and it does not name SENAMHI
\* or it quotes the aviso in force.
Sentence(r, y) ==
    /\ y \in Seq(CalmToken) /\ Given(r, y)
    /\ \/ y \in Seq(QuietToken) /\ Unsupplied(y)
       \/ \E w \in r.warning : y = <<Glue, Senamhi, Span(w.title)>>

\* It is a line of its own, and ends with a stop.
AsLine(y) == Line(y \o <<Stop>>)

\* As a line it tells what it says, and quotes the aviso at most once.
LEMMA SentenceTells ==
    ASSUME NEW r \in MessageRequest, \A s \in titles(r) : s.long, NEW y, Sentence(r, y)
    PROVE  /\ AsLine(y) \in Seq(CalmToken) /\ Given(r, AsLine(y)) /\ Complete(r, AsLine(y), TRUE)
           /\ \A s : /\ AtMostOnce(AsLine(y), Span(s))
                     /\ Has(AsLine(y), Span(s)) => Has(y, Span(s)) /\ \E w \in r.warning : s = w.title
<1>. DEFINE stop == <<Stop>>
            z == y \o stop
            x == AsLine(y)
            n == Len(y)
<1>0. x = Line(z)
  BY DEF AsLine
<1>1. stop \in Seq(CalmToken) /\ Len(stop) = 1 /\ stop[1] = Stop /\ y \in Seq(CalmToken) /\ Given(r, y)
      /\ NewLine \in CalmToken /\ n \in Nat
  BY Phrases, LenProperties DEF Sentence
<1>. HIDE DEF n
<1>2. stop \in Seq(TextToken) /\ y \in Seq(TextToken) /\ Given(r, stop)
  <2>1. stop \in Seq(SilentToken)
    BY SilentTokens
  <2>. HIDE DEF stop
  <2>. QED  BY <1>1, <2>1, CalmIsText, SilentGiven
<1>. HIDE DEF stop
<1>3. /\ z \in Seq(CalmToken) /\ Len(z) = n + 1 /\ z[n + 1] = Stop
      /\ \A k \in 1 .. n : z[k] = y[k]
  <2>1. /\ z \in Seq(CalmToken) /\ Len(z) = Len(y) + Len(stop)
        /\ \A k \in 1 .. Len(y) + Len(stop) : z[k] = IF k <= Len(y) THEN y[k] ELSE stop[k - Len(y)]
    BY <1>1, ConcatProperties
  <2>. HIDE DEF z
  <2>2. /\ n + 1 \in 1 .. n + 1 /\ ~ (n + 1 <= n) /\ (n + 1) - n = 1
        /\ \A k \in 1 .. n : k \in 1 .. n + 1 /\ k <= n
    BY <1>1
  <2>. QED  BY <1>1, <2>1, <2>2 DEF n
<1>4. z \in Seq(TextToken) /\ Given(r, z)
  <2>1. stop \in Seq(TextToken) /\ y \in Seq(TextToken) /\ Given(r, stop) /\ Given(r, y)
    BY <1>1, <1>2
  <2>2. y \o stop \in Seq(TextToken)
    BY ONLY <2>1, ConcatProperties
  <2>. QED  BY ONLY <2>1, <2>2, GivenConcat DEF z
<1>. HIDE DEF z, x
<1>5. /\ x \in Seq(CalmToken) /\ Len(x) = 1 + (n + 1) /\ x[1] = NewLine
      /\ \A k \in 1 .. n + 1 : x[1 + k] = z[k]
  <2>1. NewLine \in CalmToken /\ z \in Seq(CalmToken) /\ Len(z) = n + 1
    BY <1>1, <1>3
  <2>2. /\ Line(z) \in Seq(CalmToken) /\ Len(Line(z)) = 1 + Len(z)
        /\ Line(z)[1] = NewLine
        /\ \A k \in 1 .. Len(z) : Line(z)[1 + k] = z[k]
    BY ONLY <2>1, LinePlaces
  <2>. QED  BY <1>0, <2>1, <2>2
<1>6. x \in Seq(TextToken) /\ Given(r, x)
  BY <1>0, <1>4, LineGiven
<1>7. /\ DOMAIN x = 1 .. n + 2 /\ Len(x) = n + 2 /\ x[n + 2] = Stop
      /\ \A k \in 1 .. n : x[1 + k] = y[k]
  <2>1. n + 1 \in 1 .. n + 1 /\ 1 + (n + 1) = n + 2 /\ \A k \in 1 .. n : k \in 1 .. n + 1
    BY <1>1
  <2>. QED  BY <1>3, <1>5, <2>1, LenProperties
<1>8. \A i \in 1 .. n + 2 : i = 1 \/ i = n + 2 \/ (i - 1 \in 1 .. n /\ x[i] = y[i - 1])
  <2>1. ASSUME NEW i \in 1 .. n + 2, i # 1, i # n + 2 PROVE i - 1 \in 1 .. n /\ x[i] = y[i - 1]
    <3>1. i - 1 \in 1 .. n /\ 1 + (i - 1) = i
      BY <1>1, <2>1
    <3>. QED  BY <1>7, <3>1
  <2>. QED  BY <2>1
<1>9. \A s : Span(s) # NewLine /\ Span(s) # Stop
  BY DEF Span, NewLine, Stop, Token
<1>10. DOMAIN y = 1 .. n
  BY <1>1, LenProperties DEF n
<1>11. \A s : Has(x, Span(s)) => Has(y, Span(s))
  <2>1. ASSUME NEW s, NEW i \in 1 .. n + 2, x[i] = Span(s) PROVE Has(y, Span(s))
    <3>1. i - 1 \in 1 .. n /\ x[i] = y[i - 1]
      BY <1>5, <1>7, <1>8, <1>9, <2>1
    <3>. QED  BY <1>10, <2>1, <3>1 DEF Has
  <2>. QED  BY <1>7, <2>1 DEF Has
<1>12. CASE y \in Seq(QuietToken) /\ Unsupplied(y)
  <2>1. \A s : ~ Has(y, Span(s)) /\ Free(x, Span(s))
    <3>1. \A s : Span(s).kind = "span"
      BY DEF Span
    <3>2. \A s : ~ Has(y, Span(s))
      BY <1>12, <3>1 DEF Has, Unsupplied
    <3>. QED  BY <1>11, <3>2 DEF Free, Has
  <2>2. \A i \in 1 .. n + 2 : x[i] \in QuietToken /\ x[i].kind # "span"
    <3>1. \A i \in 1 .. n : y[i] \in QuietToken /\ y[i].kind # "span"
      <4>1. \A i \in DOMAIN y : y[i] \in QuietToken
        BY <1>12
      <4>. QED  BY <1>10, <1>12, <4>1 DEF Unsupplied
    <3>2. NewLine \in QuietToken /\ Stop \in QuietToken /\ NewLine.kind # "span" /\ Stop.kind # "span"
      BY QuietTokens DEF NewLine, Stop, Token
    <3>. QED  BY <1>5, <1>7, <1>8, <3>1, <3>2
  <2>3. x \in Seq(QuietToken)
    <3>1. \A i \in 1 .. Len(x) : x[i] \in QuietToken
      BY <1>7, <2>2
    <3>. QED  BY <1>6, <3>1
  <2>4. Complete(r, x, FALSE)
    BY <1>5, <1>7, <2>2, <2>3, QuietIsComplete
  <2>5. Complete(r, x, TRUE)
    BY <2>4, ToldFirst DEF Complete
  <2>. QED  BY <1>5, <1>6, <1>11, <2>1, <2>5, FreeIsAtMostOnce DEF x
<1>13. ASSUME NEW w \in r.warning, y = <<Glue, Senamhi, Span(w.title)>>
       PROVE  /\ Complete(r, x, TRUE)
              /\ \A s : AtMostOnce(x, Span(s)) /\ (Has(x, Span(s)) => s = w.title)
  <2>. DEFINE quoted == Span(w.title)
  <2>1. w.title \in SuppliedString /\ w.title \in titles(r) /\ w.title.long
    BY TitleSupplied
  <2>2. n = 3 /\ y[1] = Glue /\ y[2] = Senamhi /\ y[3] = quoted
    BY <1>13 DEF n
  <2>3. quoted.kind = "span" /\ quoted.of = w.title /\ \A s : Span(s) = quoted => s = w.title
    <3>1. \A s : Span(s).of = s /\ Span(s).kind = "span"
      BY DEF Span
    <3>. QED  BY <3>1
  <2>. HIDE DEF quoted
  <2>4. Quoted(r, quoted) /\ quoted \in PlainlyRead(r)
    <3>1. Quoted(r, quoted)
      BY <2>1, <2>3 DEF Quoted
    <3>2. quoted \in TextToken
      BY <2>1, Phrases DEF CalmToken, quoted
    <3>. QED  BY <3>1, <3>2 DEF PlainlyRead
  <2>5. /\ Len(x) = 5 /\ DOMAIN x = 1 .. 5
        /\ x[1] = NewLine /\ x[2] = Glue /\ x[3] = Senamhi /\ x[4] = quoted /\ x[5] = Stop
    <3>1. 1 \in 1 .. 3 /\ 2 \in 1 .. 3 /\ 3 \in 1 .. 3 /\ 3 + 2 = 5 /\ 1 + 1 = 2 /\ 1 + 2 = 3 /\ 1 + 3 = 4
      OBVIOUS
    <3>. QED  BY <1>5, <1>7, <2>2, <3>1
  <2>6. \A i \in 1 .. 5 : i = 1 \/ i = 2 \/ i = 3 \/ i = 4 \/ i = 5
    OBVIOUS
  <2>7. /\ Glue.kind = "glue" /\ Senamhi.kind = "senamhi" /\ Stop.kind = "stop" /\ NewLine.kind = "newline"
        /\ {Glue, Senamhi, quoted, Stop} \cap {NewLine} = {}
        /\ ~ Severs(Glue) /\ ~ Severs(Senamhi) /\ ~ Severs(quoted)
        /\ quoted \notin {NewLine, Glue, Senamhi, Stop}
    BY <2>3 DEF Glue, Senamhi, Stop, NewLine, Token, Severs, CLAUSE_BOUNDARIES
  <2>8. x \in Seq(PlainlyRead(r))
    <3>1. {NewLine, Glue, Senamhi, Stop} \subseteq PlainlyRead(r)
      BY QuietTokens DEF NewLine, Glue, Stop, Token
    <3>2. \A i \in 1 .. 5 : x[i] \in PlainlyRead(r)
      BY <2>4, <2>5, <2>6, <3>1
    <3>3. \A i \in 1 .. Len(x) : x[i] \in PlainlyRead(r)
      BY <2>5, <3>2
    <3>. QED  BY <1>6, <3>3
  <2>9. EndedLine(x, 2, 5) /\ Opens(x, 2, TRUE)
    <3>1. 2 \in 2 .. 5 /\ 5 \in 2 .. 5 /\ 2 - 1 = 1 /\ ~ (5 < 5) /\ \A j \in 2 .. 5 : j \in 1 .. 5 /\ j # 1
      OBVIOUS
    <3>2. \A j \in 2 .. 5 : x[j] # NewLine
      BY <2>5, <2>6, <2>7, <3>1
    <3>. QED  BY <2>5, <3>1, <3>2 DEF EndedLine, Opens
  <2>10. ASSUME NEW i \in {3, 4} PROVE Attributed(r, x, 2, i, 5)
    <3>1. 4 \in i .. 5 /\ \A k \in i .. 4 : k = 3 \/ k = 4
      BY <2>10
    <3>2. \A k \in i .. 4 : ~ Severs(x[k])
      BY <2>5, <2>7, <3>1
    <3>. QED  BY <2>4, <2>5, <3>1, <3>2 DEF Attributed
  <2>11. ASSUME NEW i \in DOMAIN x, SaysSenamhi(x[i]) PROVE TellsAt(r, x, i, TRUE)
    <3>1. \A t \in {NewLine, Glue, Stop} : ~ SaysSenamhi(t)
      BY QuietTokens DEF QuietToken
    <3>2. i \in {3, 4}
      BY <2>5, <2>6, <2>11, <3>1
    <3>3. 2 \in 2 .. i /\ 5 \in i .. 5 /\ 5 \in i .. Len(x)
      BY <2>5, <3>2
    <3>4. Attributed(r, x, 2, i, 5)
      BY <2>10, <3>2
    <3>. QED  BY <2>5, <2>9, <3>3, <3>4 DEF TellsAt
  <2>12. Complete(r, x, TRUE)
    BY <2>5, <2>8, <2>11 DEF Complete, Tells
  <2>13. \A s : \A i \in 1 .. 5 : x[i] = Span(s) => i = 4 /\ s = w.title
    <3>1. \A s : Span(s) \notin {Glue, Senamhi, Stop, NewLine}
      BY DEF Span, Glue, Senamhi, Stop, NewLine, Token
    <3>. QED  BY <2>3, <2>5, <2>6, <3>1
  <2>14. \A s : AtMostOnce(x, Span(s))
    BY <2>5, <2>13 DEF AtMostOnce
  <2>15. \A s : Has(x, Span(s)) => s = w.title
    BY <2>5, <2>13 DEF Has
  <2>. QED  BY <2>12, <2>14, <2>15
<1>14. \/ y \in Seq(QuietToken) /\ Unsupplied(y)
       \/ \E w \in r.warning : y = <<Glue, Senamhi, Span(w.title)>>
  BY DEF Sentence
<1>15. CASE \E w \in r.warning : y = <<Glue, Senamhi, Span(w.title)>>
  <2>1. PICK w \in r.warning : y = <<Glue, Senamhi, Span(w.title)>>
    BY <1>15
  <2>2. /\ Complete(r, x, TRUE)
        /\ \A s : AtMostOnce(x, Span(s)) /\ (Has(x, Span(s)) => s = w.title)
    BY <1>13, <2>1
  <2>. QED  BY <1>5, <1>6, <1>11, <2>2 DEF x
<1>. QED  BY <1>12, <1>14, <1>15

\* Sentences, a line to each, and the same with stops and new lines between.
AsLines(texts) == FlattenSeq([i \in DOMAIN texts |-> AsLine(texts[i])])

Parted(texts) == FlattenSeq([i \in DOMAIN texts |-> <<Stop, NewLine>> \o texts[i]])

\* No two sentences quote the one string.
QuotedOnce(texts) ==
    \A s : \A k, l \in 1 .. Len(texts) : Has(texts[k], Span(s)) /\ Has(texts[l], Span(s)) => k = l

\* The lines tell what they say, and quote the aviso in force at most once.
LEMMA LinesTell ==
    ASSUME NEW r \in MessageRequest, \A s \in titles(r) : s.long,
           NEW texts \in Seq(Seq(CalmToken)), \A k \in 1 .. Len(texts) : Sentence(r, texts[k]),
           QuotedOnce(texts)
    PROVE  LET lines == AsLines(texts)
           IN  /\ lines \in Seq(CalmToken) /\ Given(r, lines) /\ Complete(r, lines, TRUE)
               /\ \A s : /\ AtMostOnce(lines, Span(s))
                         /\ Has(lines, Span(s)) => \E w \in r.warning : s = w.title
<1>. DEFINE n == Len(texts)
            seqs == [i \in DOMAIN texts |-> AsLine(texts[i])]
            lines == AsLines(texts)
<1>1. n \in Nat /\ DOMAIN texts = 1 .. n
  BY LenProperties
<1>2. ASSUME NEW k \in 1 .. n
      PROVE  /\ AsLine(texts[k]) \in Seq(CalmToken) /\ Given(r, AsLine(texts[k]))
             /\ Complete(r, AsLine(texts[k]), TRUE)
             /\ \A s : /\ AtMostOnce(AsLine(texts[k]), Span(s))
                       /\ Has(AsLine(texts[k]), Span(s))
                             => Has(texts[k], Span(s)) /\ \E w \in r.warning : s = w.title
  BY <1>2, SentenceTells
<1>3. lines = FlattenSeq(seqs)
  BY DEF AsLines
<1>4. seqs = [i \in 1 .. n |-> AsLine(texts[i])]
  BY <1>1
<1>. HIDE DEF seqs, lines
<1>5. /\ seqs \in Seq(Seq(CalmToken)) /\ Len(seqs) = n
      /\ \A k \in 1 .. n : seqs[k] = AsLine(texts[k]) /\ seqs[k] \in Seq(CalmToken)
  <2>. DEFINE line(k) == AsLine(texts[k])
  <2>1. n \in Nat /\ seqs = [i \in 1 .. n |-> line(i)] /\ \A k \in 1 .. n : line(k) \in Seq(CalmToken)
    BY <1>1, <1>2, <1>4
  <2>. HIDE DEF n, line
  <2>2. /\ seqs \in Seq(Seq(CalmToken)) /\ Len(seqs) = n
        /\ \A k \in 1 .. n : seqs[k] = line(k) /\ seqs[k] \in Seq(CalmToken)
    BY ONLY <2>1
  <2>. QED  BY <2>2 DEF line
<1>6. seqs \in Seq(Seq(TextToken))
  <2>1. \A k \in 1 .. n : seqs[k] \in Seq(TextToken)
    BY <1>5, CalmIsText
  <2>. QED  BY <1>1, <1>4, <1>5, <2>1
<1>7. lines \in Seq(CalmToken)
  BY <1>3, <1>5, FlattenedPlaces
<1>8. Given(r, lines)
  BY <1>2, <1>3, <1>5, GivenParts
<1>9. Complete(r, lines, TRUE)
  <2>1. \A k \in 1 .. Len(seqs) : Complete(r, seqs[k], TRUE)
    BY <1>2, <1>5
  <2>. QED  BY <1>3, <1>6, <2>1, CompleteLines
<1>10. ASSUME NEW s
       PROVE  /\ AtMostOnce(lines, Span(s))
              /\ Has(lines, Span(s)) => \E w \in r.warning : s = w.title
  <2>. DEFINE x == Span(s)
  <2>1. \A k \in 1 .. n : AtMostOnce(seqs[k], x)
    BY <1>2, <1>5
  <2>2. \A k \in 1 .. n : Has(seqs[k], x) => Has(texts[k], x) /\ \E w \in r.warning : s = w.title
    BY <1>2, <1>5
  <2>3. \A k, l \in 1 .. n : Has(seqs[k], x) /\ Has(seqs[l], x) => k = l
    BY <2>2 DEF QuotedOnce
  <2>. HIDE DEF x
  <2>4. /\ AtMostOnce(FlattenSeq(seqs), x)
        /\ Has(FlattenSeq(seqs), x) => \E k \in 1 .. Len(seqs) : Has(seqs[k], x)
    <3>1. /\ seqs \in Seq(Seq(CalmToken)) /\ \A k \in 1 .. Len(seqs) : AtMostOnce(seqs[k], x)
          /\ \A k, l \in 1 .. Len(seqs) : Has(seqs[k], x) /\ Has(seqs[l], x) => k = l
      BY <1>5, <2>1, <2>3
    <3>. QED  BY ONLY <3>1, OncePerPart
  <2>. QED  BY <1>3, <1>5, <2>2, <2>4 DEF x
<1>. QED  BY <1>7, <1>8, <1>9, <1>10 DEF lines

\* The two layouts are of the one text, but for the stop that comes first or
\* last.
LEMMA PartedInLines ==
    ASSUME NEW texts \in Seq(Seq(CalmToken))
    PROVE  Parted(texts) \in Seq(CalmToken) /\ Parted(texts) \o <<Stop>> = <<Stop>> \o AsLines(texts)
<1>1. {Stop, NewLine} \subseteq CalmToken
  BY Phrases
<1>2. /\ [i \in DOMAIN texts |-> <<Stop, NewLine>> \o texts[i]] \in Seq(Seq(CalmToken))
      /\ FlattenSeq([i \in DOMAIN texts |-> <<Stop, NewLine>> \o texts[i]]) \o <<Stop>>
            = <<Stop>> \o FlattenSeq([i \in DOMAIN texts |-> Line(texts[i] \o <<Stop>>)])
  BY <1>1, StopsTurn
<1>3. Parted(texts) \in Seq(CalmToken)
  <2>. DEFINE seqs == [i \in DOMAIN texts |-> <<Stop, NewLine>> \o texts[i]]
  <2>1. seqs \in Seq(Seq(CalmToken))
    BY <1>2
  <2>. HIDE DEF seqs
  <2>2. FlattenSeq(seqs) \in Seq(CalmToken)
    BY <2>1, FlattenedPlaces
  <2>. QED  BY <2>2 DEF seqs, Parted
<1>. QED  BY <1>2, <1>3 DEF Parted, AsLines, AsLine

\* A city whose name is a few harmless words may be written anywhere.
LEMMA CityIsHarmless ==
    ASSUME NEW r \in MessageRequest, \A i \in DOMAIN r.city.text : r.city.text[i].kind \in {"word", "glue"}
    PROVE  /\ Harmless(r.city.text)
           /\ Span(r.city) \in CalmToken /\ Span(r.city) \in QuietToken
           /\ Given(r, <<Span(r.city)>>) /\ Given(r, <<Word, Span(r.city)>>)
<1>1. r.city \in SuppliedString
  BY DEF MessageRequest
<1>2. Harmless(r.city.text)
  BY DEF Harmless
<1>3. Span(r.city) \in CalmToken
  BY <1>1, Phrases
<1>4. Span(r.city) \in QuietToken
  <2>1. Senamhi.kind \notin {"word", "glue"}
    BY DEF Senamhi, Token
  <2>2. \A k \in DOMAIN r.city.text : r.city.text[k] # Senamhi
    BY <2>1
  <2>. QED  BY <1>1, <2>2, QuietTokens
<1>. DEFINE a == <<Span(r.city)>>
            b == <<Word, Span(r.city)>>
<1>5. /\ \A i \in DOMAIN a : a[i] \in SilentToken \/ a[i] = Span(r.city)
      /\ \A i \in DOMAIN b : b[i] \in SilentToken \/ b[i] = Span(r.city)
  BY SilentTokens
<1>. HIDE DEF a, b
<1>6. Given(r, a) /\ Given(r, b)
  BY <1>5, StringGiven
<1>. QED  BY <1>2, <1>3, <1>4, <1>6 DEF a, b

\* The title of an honest draft leaves out words of the template's.
LEMMA ShorterTitle ==
    ASSUME NEW r \in MessageRequest, length(template(r).title) <= MaxTitleLength
    PROVE  length(<<Word, Span(r.city)>>) <= MaxTitleLength
<1>. DEFINE a == <<Continuing, Glue>>
            b == <<Word, Span(r.city)>>
            c == <<Word>>
<1>1. a \in Seq(TextToken) /\ b \in Seq(TextToken) /\ c \in Seq(TextToken)
  <2>1. r.city \in SuppliedString
    BY DEF MessageRequest
  <2>2. {Continuing, Glue, Word} \subseteq TextToken /\ Span(r.city) \in TextToken
    BY <2>1, Phrases DEF CalmToken
  <2>. QED  BY <2>2
<1>2. template(r).title = <<Continuing, Glue, Word, Span(r.city), Word>>
  BY DEF template
<1>3. <<Continuing, Glue, Word, Span(r.city), Word>> = (a \o b) \o c
  OBVIOUS
<1>4. template(r).title = (a \o b) \o c
  BY <1>2, <1>3
<1>. HIDE DEF a, b, c
<1>. DEFINE ab == a \o b
<1>5. ab \in Seq(TextToken) /\ length(ab) = length(a) + length(b)
  BY <1>1, LengthAdds, ConcatProperties
<1>6. template(r).title = ab \o c
  BY <1>4
<1>. HIDE DEF ab
<1>7. length(ab \o c) = length(ab) + length(c)
  BY <1>1, <1>5, LengthAdds
<1>8. length(a) \in Nat /\ length(b) \in Nat /\ length(c) \in Nat /\ MaxTitleLength \in Nat
  BY <1>1, LengthAdds, LengthAssumption
<1>9. length(b) <= MaxTitleLength
  BY <1>5, <1>6, <1>7, <1>8
<1>. QED  BY <1>9 DEF b

\* A body of the city and such sentences, in lines of their own.
LEMMA BodyOfSentences ==
    ASSUME NEW r \in MessageRequest, \A s \in titles(r) : s.long,
           \A i \in DOMAIN r.city.text : r.city.text[i].kind \in {"word", "glue"},
           NEW texts \in Seq(Seq(CalmToken)), \A k \in 1 .. Len(texts) : Sentence(r, texts[k]),
           QuotedOnce(texts),
           NEW body, body = <<Span(r.city)>> \o Parted(texts) \o <<Stop>>
    PROVE  /\ body \in Seq(CalmToken) /\ Given(r, body)
           /\ Has(body, Span(r.city))
           /\ ~ senamhi_attribution(r, body)
           /\ \A s : s # r.city =>
                 AtMostOnce(body, Span(s)) /\ (Has(body, Span(s)) => \E w \in r.warning : s = w.title)
<1>. DEFINE city == <<Span(r.city)>>
            stop == <<Stop>>
            lines == AsLines(texts)
            head == city \o stop
<1>1. Parted(texts) \in Seq(CalmToken) /\ Parted(texts) \o stop = stop \o lines
  BY PartedInLines
<1>2. /\ lines \in Seq(CalmToken) /\ Given(r, lines) /\ Complete(r, lines, TRUE)
      /\ \A s : /\ AtMostOnce(lines, Span(s))
                /\ Has(lines, Span(s)) => \E w \in r.warning : s = w.title
  BY LinesTell
<1>3. /\ city \in Seq(CalmToken) /\ Given(r, city)
      /\ city \in Seq(QuietToken) /\ stop \in Seq(QuietToken)
      /\ stop \in Seq(SilentToken) /\ stop \in Seq(CalmToken)
  <2>1. Span(r.city) \in CalmToken /\ Span(r.city) \in QuietToken /\ Given(r, city)
    BY CityIsHarmless
  <2>2. Stop \in QuietToken /\ Stop \in SilentToken /\ Stop \in CalmToken
    BY QuietTokens, SilentTokens, Phrases
  <2>. HIDE DEF lines
  <2>. QED  BY <2>1, <2>2
<1>4. Given(r, stop)
  BY <1>3, SilentGiven
<1>5. \A k \in DOMAIN city : city[k] = Span(r.city)
  OBVIOUS
<1>6. \A k \in DOMAIN stop : stop[k] = Stop
  OBVIOUS
<1>7. 1 \in DOMAIN city
  OBVIOUS
<1>8. body = (city \o Parted(texts)) \o stop
  OBVIOUS
<1>. DEFINE parted == Parted(texts)
<1>9. parted \in Seq(CalmToken) /\ parted \o stop = stop \o lines /\ body = (city \o parted) \o stop
  BY <1>1, <1>8
<1>. HIDE DEF city, stop, lines, parted
<1>10. body = head \o lines
  <2>1. city \in Seq(CalmToken) /\ parted \in Seq(CalmToken) /\ stop \in Seq(CalmToken)
    BY <1>3, <1>9
  <2>2. (city \o parted) \o stop = city \o (parted \o stop)
    BY ONLY <2>1, ConcatAssociative
  <2>3. city \in Seq(CalmToken) /\ lines \in Seq(CalmToken) /\ stop \in Seq(CalmToken)
    BY <1>2, <1>3
  <2>4. (city \o stop) \o lines = city \o (stop \o lines)
    BY ONLY <2>3, ConcatAssociative
  <2>. QED  BY <1>9, <2>2, <2>4
<1>11. head \in Seq(CalmToken) /\ head \in Seq(QuietToken) /\ head \in Seq(TextToken)
  <2>1. city \in Seq(CalmToken) /\ stop \in Seq(CalmToken) /\ city \in Seq(QuietToken) /\ stop \in Seq(QuietToken)
    BY <1>3
  <2>2. city \o stop \in Seq(CalmToken)
    BY ONLY <2>1, ConcatProperties
  <2>3. city \o stop \in Seq(QuietToken)
    BY ONLY <2>1, ConcatProperties
  <2>. QED  BY <2>2, <2>3, CalmIsText
<1>12. Given(r, head)
  <2>1. city \in Seq(CalmToken) /\ stop \in Seq(CalmToken) /\ Given(r, city) /\ Given(r, stop)
    BY <1>3, <1>4
  <2>. QED  BY ONLY <2>1, GivenConcat
<1>13. /\ Has(head, Span(r.city))
       /\ \A s : s # r.city => Free(head, Span(s))
  <2>1. city \in Seq(CalmToken) /\ stop \in Seq(CalmToken) /\ Has(city, Span(r.city))
    BY <1>3, <1>5, <1>7 DEF Has
  <2>2. \A s : s # r.city => Free(city, Span(s)) /\ Free(stop, Span(s))
    <3>1. \A s : Span(s).of = s /\ Span(s) # Stop
      BY DEF Span, Stop, Token
    <3>. QED  BY <1>5, <1>6, <3>1 DEF Free
  <2>3. Has(city \o stop, Span(r.city))
    BY <2>1, Concatenated
  <2>4. \A s : s # r.city => Free(city \o stop, Span(s))
    BY <2>1, <2>2, Concatenated
  <2>. QED  BY <2>3, <2>4
<1>. HIDE DEF head
<1>14. body \in Seq(CalmToken) /\ Given(r, body)
  <2>1. head \in Seq(CalmToken) /\ lines \in Seq(CalmToken) /\ Given(r, head) /\ Given(r, lines)
    BY <1>2, <1>11, <1>12
  <2>2. head \o lines \in Seq(CalmToken)
    BY ONLY <2>1, ConcatProperties
  <2>3. Given(r, head \o lines)
    BY ONLY <2>1, GivenConcat
  <2>. QED  BY <1>10, <2>2, <2>3
<1>15. Has(body, Span(r.city))
  <2>1. head \in Seq(CalmToken) /\ lines \in Seq(CalmToken) /\ Has(head, Span(r.city))
    BY <1>2, <1>11, <1>13
  <2>2. Has(head \o lines, Span(r.city))
    BY ONLY <2>1, Concatenated
  <2>. QED  BY <1>10, <2>2
<1>16. ASSUME NEW s, s # r.city
       PROVE  AtMostOnce(body, Span(s)) /\ (Has(body, Span(s)) => \E w \in r.warning : s = w.title)
  <2>1. Free(head, Span(s)) /\ AtMostOnce(lines, Span(s))
        /\ (Has(lines, Span(s)) => \E w \in r.warning : s = w.title)
    BY <1>2, <1>13, <1>16
  <2>2. head \in Seq(CalmToken) /\ lines \in Seq(CalmToken)
    BY <1>2, <1>11
  <2>3. AtMostOnce(head \o lines, Span(s))
    BY <2>1, <2>2, Concatenated
  <2>4. Has(head \o lines, Span(s)) => Has(lines, Span(s))
    <3>1. Free(lines, Span(s)) => Free(head \o lines, Span(s))
      BY <2>1, <2>2, Concatenated
    <3>. QED  BY <3>1 DEF Free, Has
  <2>. QED  BY <1>10, <2>1, <2>3, <2>4
<1>17. ~ senamhi_attribution(r, body)
  <2>. DEFINE first == attribution_form(r, head)
  <2>1. lines \in Seq(TextToken) /\ lines \in Seq(PlainlyRead(r)) /\ Tells(r, lines, TRUE)
    BY <1>2, CalmIsText DEF Complete
  <2>2. attribution_form(r, lines) = lines
    BY <2>1, Forms
  <2>3. first \in Seq(QuietToken)
    BY <1>11, Forms
  <2>4. attribution_form(r, head \o lines) = first \o attribution_form(r, lines)
    BY <1>11, <2>1, FormConcat
  <2>. HIDE DEF first
  <2>. QED  BY <1>10, <2>1, <2>2, <2>3, <2>4, RuleMet
<1>. QED  BY <1>14, <1>15, <1>16, <1>17

\* A draft of the city and such sentences breaks no rule but that of its
\* length.
LEMMA SentencesObey ==
    ASSUME NEW r \in MessageRequest, \A s \in titles(r) : s.long,
           \A i \in DOMAIN r.city.text : r.city.text[i].kind \in {"word", "glue"},
           length(template(r).title) <= MaxTitleLength,
           NEW texts \in Seq(Seq(CalmToken)), \A k \in 1 .. Len(texts) : Sentence(r, texts[k]),
           QuotedOnce(texts),
           NEW d, d.title = <<Word, Span(r.city)>>,
           d.body = <<Span(r.city)>> \o Parted(texts) \o <<Stop>>,
           d.level = r.level, d.valid_until = r.window.end
    PROVE  validate_message(r, d) \subseteq {"body_too_long"}
<1>. DEFINE title == d.title
            body == d.body
            line == <<NewLine>>
            text == title \o line \o body
            left == residue(r, d)
            city == Span(r.city)
<1>1. /\ body \in Seq(CalmToken) /\ Given(r, body) /\ Has(body, city)
      /\ ~ senamhi_attribution(r, body)
      /\ \A s : s # r.city =>
            AtMostOnce(body, Span(s)) /\ (Has(body, Span(s)) => \E w \in r.warning : s = w.title)
  BY BodyOfSentences
<1>2. /\ Harmless(r.city.text) /\ city \in CalmToken /\ city \in QuietToken
      /\ Given(r, <<Word, city>>)
  BY CityIsHarmless
<1>3. /\ title \in Seq(CalmToken) /\ title \in Seq(QuietToken) /\ Given(r, title)
      /\ title[1] = Word /\ 1 \in DOMAIN title
      /\ \A k \in DOMAIN title : title[k] \in {Word, city}
  <2>1. Word \in CalmToken /\ Word \in QuietToken
    BY Phrases, QuietTokens
  <2>2. title = <<Word, city>>
    OBVIOUS
  <2>. HIDE DEF title, city
  <2>. QED  BY <1>2, <2>1, <2>2
<1>4. /\ line \in Seq(CalmToken) /\ Given(r, line) /\ \A s : Free(line, Span(s))
  <2>1. line \in Seq(SilentToken) /\ line \in Seq(CalmToken)
    BY SilentTokens, Phrases
  <2>2. \A k \in DOMAIN line : line[k] = NewLine
    OBVIOUS
  <2>3. \A s : Span(s) # NewLine
    BY DEF Span, NewLine, Token
  <2>. HIDE DEF line
  <2>. QED  BY <2>1, <2>2, <2>3, SilentGiven DEF Free
<1>5. length(title) <= MaxTitleLength
  BY ShorterTitle
<1>. HIDE DEF title, body, line, city
<1>6. title \in Seq(TextToken) /\ body \in Seq(TextToken) /\ line \in Seq(TextToken)
  BY <1>1, <1>3, <1>4, CalmIsText
<1>. DEFINE head == title \o line
<1>7. /\ head \in Seq(CalmToken) /\ Given(r, head)
      /\ \A s : s # r.city => Free(head, Span(s))
  <2>1. title \in Seq(CalmToken) /\ line \in Seq(CalmToken) /\ Given(r, title) /\ Given(r, line)
    BY <1>3, <1>4
  <2>2. title \o line \in Seq(CalmToken)
    BY ONLY <2>1, ConcatProperties
  <2>3. Given(r, title \o line)
    BY ONLY <2>1, GivenConcat
  <2>4. ASSUME NEW s, s # r.city PROVE Free(title \o line, Span(s))
    <3>1. Span(s) # Word /\ Span(s) # city
      BY <2>4 DEF Span, Word, Token, city
    <3>2. Free(title, Span(s)) /\ Free(line, Span(s))
      BY <1>3, <1>4, <3>1 DEF Free
    <3>. QED  BY ONLY <2>1, <3>2, Concatenated
  <2>. QED  BY <2>2, <2>3, <2>4
<1>. HIDE DEF head
<1>8. /\ head \o body \in Seq(CalmToken) /\ Given(r, head \o body)
      /\ \A s : s # r.city =>
            /\ AtMostOnce(head \o body, Span(s))
            /\ Has(head \o body, Span(s)) => \E w \in r.warning : s = w.title
  <2>1. head \in Seq(CalmToken) /\ body \in Seq(CalmToken) /\ Given(r, head) /\ Given(r, body)
    BY <1>1, <1>7
  <2>2. head \o body \in Seq(CalmToken)
    BY ONLY <2>1, ConcatProperties
  <2>3. Given(r, head \o body)
    BY ONLY <2>1, GivenConcat
  <2>4. ASSUME NEW s, s # r.city
        PROVE  /\ AtMostOnce(head \o body, Span(s))
               /\ Has(head \o body, Span(s)) => \E w \in r.warning : s = w.title
    <3>1. Free(head, Span(s)) /\ AtMostOnce(body, Span(s))
          /\ (Has(body, Span(s)) => \E w \in r.warning : s = w.title)
      BY <1>1, <1>7, <2>4
    <3>2. AtMostOnce(head \o body, Span(s))
      BY ONLY <2>1, <3>1, Concatenated
    <3>3. Free(body, Span(s)) => Free(head \o body, Span(s))
      BY ONLY <2>1, <3>1, Concatenated
    <3>. QED  BY <3>1, <3>2, <3>3 DEF Free, Has
  <2>. QED  BY <2>2, <2>3, <2>4
<1>9. text = head \o body
  BY DEF head
<1>. HIDE DEF text, left
<1>10. text \in Seq(TextToken) /\ Given(r, text)
  BY <1>8, <1>9, CalmIsText
<1>11. \A s : s # r.city => Occurrences(text, Span(s)) <= Occurrences(supplied(r), s)
  <2>1. ASSUME NEW s, s # r.city PROVE Occurrences(text, Span(s)) <= Occurrences(supplied(r), s)
    <3>1. AtMostOnce(text, Span(s)) /\ (Has(text, Span(s)) => \E w \in r.warning : s = w.title)
      BY <1>8, <1>9, <2>1
    <3>2. Has(text, Span(s)) => Has(supplied(r), s)
      <4>1. ASSUME NEW w \in r.warning, s = w.title PROVE Has(supplied(r), s)
        <5>1. supplied(r) \in Seq(SuppliedString) /\ Occurrences(supplied(r), s) >= 1
          BY <4>1, TitleSupplied
        <5>2. Occurrences(supplied(r), s) \in Nat
              /\ (Occurrences(supplied(r), s) = 0 <=> Free(supplied(r), s))
          BY ONLY <5>1, OccursTyped
        <5>3. ~ Free(supplied(r), s)
          BY <5>1, <5>2
        <5>. QED  BY <5>3 DEF Free, Has
      <4>. QED  BY <3>1, <4>1
    <3>3. supplied(r) \in Seq(SuppliedString)
      BY SuppliedCounts
    <3>. QED  BY <1>10, <3>1, <3>2, <3>3, OneForOne
  <2>. QED  BY <2>1
<1>12. \A s : Has(text, Span(s)) => s.long \/ Harmless(s.text)
  <2>1. ASSUME NEW s, Has(text, Span(s)), s # r.city PROVE s.long
    <3>1. PICK w \in r.warning : s = w.title
      BY <1>8, <1>9, <2>1
    <3>. QED  BY <3>1, TitleSupplied
  <2>. QED  BY <1>2, <2>1
<1>13. ~ untraceable_numbers(r, left) /\ ~ word_numbers(r, left) /\ ~ day_counts_in_words(r, left)
  <2>1. Written(d)
    BY <1>6 DEF Written, title, body
  <2>2. text = d.title \o <<NewLine>> \o d.body
    BY DEF text, title, body, line
  <2>. QED  BY <1>2, <1>10, <1>11, <1>12, <2>1, <2>2, CountsPass DEF left
<1>14. ~ senamhi_attribution(r, title)
  <2>. DEFINE form == attribution_form(r, title)
  <2>1. form \in Seq(QuietToken)
    BY <1>3, <1>6, Forms
  <2>. HIDE DEF form
  <2>2. form \o <<>> = form /\ <<>> \in Seq(TextToken) /\ Tells(r, <<>>, TRUE)
    BY <2>1, ConcatEmptySeq DEF Tells
  <2>3. attribution_form(r, title) = form \o <<>>
    BY <2>2 DEF form
  <2>. QED  BY <2>1, <2>2, <2>3, RuleMet
<1>15. ~ Blank(title) /\ ~ Blank(body)
  <2>1. city # NewLine /\ Word # NewLine
    BY DEF Span, Word, NewLine, Token, city
  <2>. QED  BY <1>1, <1>3, <2>1 DEF Blank, Has
<1>16. ~ (length(title) > MaxTitleLength)
  BY <1>5, <1>6, LengthAdds, LengthAssumption
<1>17. ~ Has(title \o body, Control) /\ ~ Has(title \o body, Foreign)
  <2>1. title \in Seq(CalmToken) /\ body \in Seq(CalmToken)
    BY <1>1, <1>3
  <2>2. title \o body \in Seq(CalmToken)
    BY ONLY <2>1, ConcatProperties
  <2>. QED  BY <2>2, CalmIsFree, FreeIsAtMostOnce
<1>18. ~ \E h \in SECTION_HEADERS : Occurrences(body, Header(h)) > 1
  <2>1. ASSUME NEW h \in SECTION_HEADERS PROVE Occurrences(body, Header(h)) = 0
    BY <1>1, CalmIsFree, OccursTyped
  <2>. QED  BY <2>1
<1>19. ~ senamhi_attribution(r, body) /\ Has(body, city)
  BY <1>1
<1>. HIDE DEF left
<1>20. validate_message(r, d) \subseteq {"body_too_long"}
  BY <1>13, <1>14, <1>15, <1>16, <1>17, <1>18, <1>19 DEF validate_message, left, city, title, body
<1>. QED  BY <1>20

=============================================================================
