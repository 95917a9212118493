---------------------------- MODULE VerdictProofs ----------------------------
(***************************************************************************)
(* What the evaluator returns, for every source and threshold: a level,    *)
(* and a window that is one.                                               *)
(***************************************************************************)
EXTENDS Risk, CollectionsProofs

-----------------------------------------------------------------------------
\* The window of several covers each of them, and opens and ends with one.
LEMMA UnionCovers ==
    ASSUME NEW W \in SUBSET TimeWindow, IsFiniteSet(W), W # {}
    PROVE  /\ union_window(W) \in TimeWindow
           /\ \A w \in W : union_window(W).start <= w.start /\ w.end <= union_window(W).end
           /\ \E w \in W : w.start = union_window(W).start
           /\ \E w \in W : w.end = union_window(W).end
<1>. DEFINE Starts == {w.start : w \in W}
            Ends == {w.end : w \in W}
<1>1. Starts \in SUBSET Int /\ Starts # {} /\ Ends \in SUBSET Int /\ Ends # {}
  BY DEF TimeWindow
<1>2. IsFiniteSet(Starts) /\ IsFiniteSet(Ends)
  <2>1. [w \in W |-> w.start] \in Surjection(W, Starts)
    BY DEF Surjection
  <2>2. [w \in W |-> w.end] \in Surjection(W, Ends)
    BY DEF Surjection
  <2>. QED  BY <2>1, <2>2, FS_Surjection
<1>3. Min(Starts) \in Starts /\ \A y \in Starts : Min(Starts) <= y
  BY <1>1, <1>2, MinIsTaken
<1>4. Max(Ends) \in Ends /\ \A y \in Ends : y <= Max(Ends)
  BY <1>1, <1>2, MaxIsTaken
<1>5. union_window(W) = [start |-> Min(Starts), end |-> Max(Ends)]
  BY DEF union_window, Window
<1>. DEFINE lo == Min(Starts)
            hi == Max(Ends)
<1>. HIDE DEF lo, hi
<1>6. \A w \in W : lo <= w.start /\ w.end <= hi
  BY <1>3, <1>4 DEF lo, hi
<1>7. (\E w \in W : w.start = lo) /\ (\E w \in W : w.end = hi)
  BY <1>3, <1>4 DEF lo, hi
<1>8. lo \in Int /\ hi \in Int /\ lo < hi
  <2>1. PICK w \in W : TRUE
    OBVIOUS
  <2>2. lo \in Int /\ hi \in Int
    BY <1>1, <1>3, <1>4 DEF lo, hi
  <2>. QED  BY <1>6, <2>1, <2>2 DEF TimeWindow
<1>9. union_window(W) = [start |-> lo, end |-> hi]
  BY <1>5 DEF lo, hi
<1>. QED  BY <1>6, <1>7, <1>8, <1>9 DEF TimeWindow

\* The windows of finitely many warnings have extremes.
LEMMA WindowsOf ==
    ASSUME NEW rows, IsFiniteSet(rows), rows # {}, \A w \in rows : w.window \in TimeWindow
    PROVE  /\ windows_of(rows) \in SUBSET TimeWindow
           /\ IsFiniteSet(windows_of(rows))
           /\ windows_of(rows) # {}
<1>1. [w \in rows |-> w.window] \in Surjection(rows, windows_of(rows))
  BY DEF Surjection, windows_of
<1>2. IsFiniteSet(windows_of(rows))
  BY <1>1, FS_Surjection
<1>. QED  BY <1>2 DEF windows_of

LEMMA SpanIsWindow ==
    ASSUME NEW points, Len(points) \in Nat \ {0}, NEW t \in Nat,
           NEW requested \in {ImminentHorizon, PrepareHorizon}
    PROVE  precipitation_window(t, horizon(points, requested)) \in TimeWindow
  BY HorizonsAssumption
  DEF precipitation_window, horizon, evaluated_horizon, Earlier, Window, TimeWindow

-----------------------------------------------------------------------------
(* Verdicts. *)

\* In one page's terms, what "evaluate" may return.
LEMMA Branches ==
    ASSUME NEW w, NEW f, NEW T, NEW t
    PROVE  LET v == evaluate(w, f, T, t)
               span(requested) == precipitation_window(t, horizon(f.data, requested))
               official == imminent_matches(w.data, T)
               combined == qualifying(w.data, T.prepare_levels)
           IN  \/ /\ w.status = "available" /\ official # {}
                  /\ v = Verdict("imminent", union_window(windows_of(official)), official)
               \/ /\ f.status = "available"
                  /\ v = Verdict("imminent", span(ImminentHorizon), {})
               \/ /\ w.status = "available" /\ f.status = "available" /\ combined # {}
                  /\ v = Verdict("prepare",
                                 union_window(windows_of(combined) \cup {span(PrepareHorizon)}),
                                 combined)
               \/ /\ f.status = "available"
                  /\ v = Verdict("prepare", span(PrepareHorizon), {})
               \/ v = Verdict("none", QuietWindow(t), {})
  BY DEF evaluate, imminent_from_official, imminent_from_forecast, prepare_combined,
         prepare_forecast_only, prepare_degraded

\* A verdict carries a level and a window, whatever the thresholds.
LEMMA VerdictTyped ==
    ASSUME NEW w, NEW f, NEW T, NEW t \in Nat,
           w.status = "available" =>
              IsFiniteSet(w.data) /\ \A x \in w.data : x.window \in TimeWindow,
           f.status = "available" => Len(f.data) \in Nat \ {0}
    PROVE  evaluate(w, f, T, t).level \in Level /\ evaluate(w, f, T, t).window \in TimeWindow
<1>. DEFINE v == evaluate(w, f, T, t)
            span(requested) == precipitation_window(t, horizon(f.data, requested))
            official == imminent_matches(w.data, T)
            combined == qualifying(w.data, T.prepare_levels)
<1>1. f.status = "available" => span(ImminentHorizon) \in TimeWindow
                               /\ span(PrepareHorizon) \in TimeWindow
  BY SpanIsWindow
<1>2. official \subseteq w.data /\ combined \subseteq w.data
  BY DEF imminent_matches, qualifying
<1>3. w.status = "available" /\ official # {}
         => /\ windows_of(official) \in SUBSET TimeWindow
            /\ IsFiniteSet(windows_of(official)) /\ windows_of(official) # {}
  <2>. SUFFICES ASSUME w.status = "available", official # {}
                PROVE  /\ windows_of(official) \in SUBSET TimeWindow
                       /\ IsFiniteSet(windows_of(official)) /\ windows_of(official) # {}
    OBVIOUS
  <2>1. IsFiniteSet(official) /\ \A x \in official : x.window \in TimeWindow
    BY <1>2, FS_Subset
  <2>. HIDE DEF official
  <2>. QED  BY <2>1, WindowsOf
<1>4. w.status = "available" /\ combined # {}
         => /\ windows_of(combined) \in SUBSET TimeWindow
            /\ IsFiniteSet(windows_of(combined)) /\ windows_of(combined) # {}
  <2>. SUFFICES ASSUME w.status = "available", combined # {}
                PROVE  /\ windows_of(combined) \in SUBSET TimeWindow
                       /\ IsFiniteSet(windows_of(combined)) /\ windows_of(combined) # {}
    OBVIOUS
  <2>1. IsFiniteSet(combined) /\ \A x \in combined : x.window \in TimeWindow
    BY <1>2, FS_Subset
  <2>. HIDE DEF combined
  <2>. QED  BY <2>1, WindowsOf
<1>5. CASE /\ w.status = "available" /\ official # {}
           /\ v = Verdict("imminent", union_window(windows_of(official)), official)
  <2>1. union_window(windows_of(official)) \in TimeWindow
    BY <1>3, <1>5, UnionCovers
  <2>. QED  BY <1>5, <2>1 DEF Verdict, Level
<1>6. CASE f.status = "available" /\ v = Verdict("imminent", span(ImminentHorizon), {})
  BY <1>1, <1>6 DEF Verdict, Level
<1>7. CASE /\ w.status = "available" /\ f.status = "available" /\ combined # {}
           /\ v = Verdict("prepare",
                          union_window(windows_of(combined) \cup {span(PrepareHorizon)}), combined)
  <2>. DEFINE all == windows_of(combined) \cup {span(PrepareHorizon)}
  <2>1. all \in SUBSET TimeWindow /\ IsFiniteSet(all) /\ all # {}
    BY <1>1, <1>4, <1>7, FS_AddElement
  <2>. HIDE DEF all
  <2>2. union_window(all) \in TimeWindow
    BY <2>1, UnionCovers
  <2>3. v.level = "prepare" /\ v.window = union_window(all)
    BY <1>7 DEF Verdict, all
  <2>. QED  BY <2>2, <2>3 DEF Level
<1>8. CASE f.status = "available" /\ v = Verdict("prepare", span(PrepareHorizon), {})
  BY <1>1, <1>8 DEF Verdict, Level
<1>9. CASE v = Verdict("none", QuietWindow(t), {})
  BY <1>9, HorizonsAssumption DEF Verdict, Level, QuietWindow, Window, TimeWindow
<1>10. \/ /\ w.status = "available" /\ official # {}
          /\ v = Verdict("imminent", union_window(windows_of(official)), official)
       \/ f.status = "available" /\ v = Verdict("imminent", span(ImminentHorizon), {})
       \/ /\ w.status = "available" /\ f.status = "available" /\ combined # {}
          /\ v = Verdict("prepare",
                         union_window(windows_of(combined) \cup {span(PrepareHorizon)}), combined)
       \/ f.status = "available" /\ v = Verdict("prepare", span(PrepareHorizon), {})
       \/ v = Verdict("none", QuietWindow(t), {})
  BY Branches
<1>. QED  BY <1>5, <1>6, <1>7, <1>8, <1>9, <1>10

=============================================================================
