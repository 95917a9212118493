---------------------------- MODULE RunOnceProofs ----------------------------
(***************************************************************************)
(* Theorems about one cycle and its public page, for every set of          *)
(* invocations, hosts, configurations, pages and forecasts, and every value *)
(* of the limits.                                                           *)
(***************************************************************************)
EXTENDS RunOnce, VerdictProofs

-----------------------------------------------------------------------------
\* The locals of the invocations are functions on Runs; times are numbers.
Shaped ==
    /\ clock \in Nat
    /\ stage \in [Runs -> Stage]
    /\ loads = [r \in Runs |-> loads[r]]
    /\ now \in [Runs -> Nat]
    /\ seen = [r \in Runs |-> seen[r]]
    /\ message = [r \in Runs |-> message[r]]
    /\ view = [r \in Runs |-> view[r]]

\* An invocation's configurations: none before it is wired, one after.
Configured ==
    \A r \in Runs :
        /\ host.deployment = "local" => loads[r] \subseteq {StaticConfig}
        /\ \A config, other \in loads[r] : config = other
        /\ stage[r] \notin {"idle", "failed", "crashed"} => loads[r] # {}

LEMMA ShapedInit == Init => Shaped
  BY DEF Init, Shaped, Stage

LEMMA ShapedNext == Shaped /\ [Next]_vars => Shaped'
<1>. SUFFICES ASSUME Shaped, [Next]_vars PROVE Shaped'
  OBVIOUS
<1>. USE DEF Shaped, Stage
<1>1. ASSUME NEW r \in Runs, Wire(r) PROVE Shaped'
  BY <1>1 DEF Wire
<1>2. ASSUME NEW r \in Runs, Evaluate(r) PROVE Shaped'
  BY <1>2 DEF Evaluate
<1>3. ASSUME NEW r \in Runs, SaveOutage(r) PROVE Shaped'
  BY <1>3 DEF SaveOutage, mutate
<1>4. ASSUME NEW r \in Runs, Decide(r) PROVE Shaped'
  BY <1>4 DEF Decide
<1>5. ASSUME NEW r \in Runs, Send(r) PROVE Shaped'
  BY <1>5 DEF Send
<1>6. ASSUME NEW r \in Runs, Record(r) PROVE Shaped'
  BY <1>6 DEF Record, mutate
<1>7. ASSUME NEW r \in Runs, Publish(r) PROVE Shaped'
  BY <1>7 DEF Publish, PublishObject, OpenFile, WriteFile, PublishNothing
<1>8. ASSUME NEW r \in Runs, Crash(r) PROVE Shaped'
  BY <1>8 DEF Crash
<1>9. CASE Edit \/ Tick \/ Rest \/ UNCHANGED vars
  BY <1>9 DEF Edit, Tick, Rest, vars, locals
<1>. QED
  BY <1>1, <1>2, <1>3, <1>4, <1>5, <1>6, <1>7, <1>8, <1>9 DEF Next

-----------------------------------------------------------------------------
\* What an invocation's loads return, once some load of it has.
LEMMA Load ==
    ASSUME Configured, NEW r \in Runs
    PROVE  /\ \A config, other \in loads[r] \cup load(r) : config = other
           /\ host.deployment = "local" => load(r) \subseteq {StaticConfig}
  BY DEF Configured, load

LEMMA ConfiguredNext == Shaped /\ Configured /\ [Next]_vars => Configured'
<1>. SUFFICES ASSUME Shaped, Configured, [Next]_vars PROVE Configured'
  OBVIOUS
<1>1. ASSUME NEW r \in Runs, Wire(r) PROVE Configured'
  <2>1. /\ loads' = [loads EXCEPT ![r] = load(r)]
        /\ stage' = [stage EXCEPT ![r] = IF can_wire(load(r)) THEN "wired" ELSE "failed"]
        /\ host' = host
    BY <1>1 DEF Wire
  <2>2. loads'[r] = load(r) /\ (stage'[r] # "failed" => loads'[r] # {})
    BY <2>1 DEF Shaped, can_wire
  <2>3. \A x \in Runs \ {r} : loads'[x] = loads[x] /\ stage'[x] = stage[x]
    BY <2>1 DEF Shaped
  <2>. QED
    BY <2>1, <2>2, <2>3, Load DEF Configured
<1>2. ASSUME NEW r \in Runs, Evaluate(r) PROVE Configured'
  <2>1. /\ loads' = [loads EXCEPT ![r] = @ \cup load(r)]
        /\ host' = host
        /\ stage[r] = "wired"
        /\ \A x \in Runs \ {r} : stage'[x] = stage[x]
    BY <1>2 DEF Evaluate, Shaped
  <2>2. loads'[r] = loads[r] \cup load(r) /\ loads[r] # {}
    BY <2>1 DEF Shaped, Configured
  <2>3. \A x \in Runs \ {r} : loads'[x] = loads[x]
    BY <2>1 DEF Shaped
  <2>. QED
    BY <2>1, <2>2, <2>3, Load DEF Configured
<1>3. ASSUME NEW r \in Runs,
             SaveOutage(r) \/ Decide(r) \/ Send(r) \/ Record(r) \/ Publish(r) \/ Crash(r)
      PROVE  Configured'
  <2>1. /\ loads' = loads /\ host' = host
        /\ stage[r] \notin {"idle", "failed", "crashed"}
        /\ \A x \in Runs \ {r} : stage'[x] = stage[x]
    BY <1>3 DEF SaveOutage, Decide, Send, Record, Publish, PublishObject, OpenFile, WriteFile,
                PublishNothing, Crash, Active, Ended, Shaped
  <2>. QED
    BY <2>1 DEF Configured
<1>4. CASE Edit \/ Tick \/ Rest \/ UNCHANGED vars
  <2>1. loads' = loads /\ host' = host /\ stage' = stage
    BY <1>4 DEF Edit, Tick, Rest, vars, locals
  <2>. QED
    BY <2>1 DEF Configured
<1>. QED
  BY <1>1, <1>2, <1>3, <1>4 DEF Next

\* One invocation runs under one configuration, whatever an operator edits,
\* for every content of Parameter Store (SsmConfigRepository.load).
THEOREM RunsUnderOneConfiguration == Spec => []OneConfiguration
<1>1. Init => Configured
  BY DEF Init, Configured
<1>2. Configured => OneConfiguration
  BY DEF Configured, OneConfiguration
<1>. QED
  BY <1>1, <1>2, ShapedInit, ShapedNext, ConfiguredNext, PTL DEF Spec

-----------------------------------------------------------------------------
\* Every place an alert is kept or shown holds alerts the notifier accepted.
Kept ==
    /\ store.alerts \subseteq delivered
    /\ \A r \in Runs : view[r].alerts \subseteq delivered
    /\ \A r \in Runs : message[r] \subseteq delivered
    /\ \A r \in Runs : stage[r] = "record" => AlertMessage(r) \in delivered
    /\ document.form = "document" => document.alert \cup document.recent \subseteq delivered

LEMMA HoldingHolds ==
    ASSUME NEW alerts, NEW outage
    PROVE  Holding(alerts, outage).alerts = alerts
  BY DEF Holding

\* What a publication puts in the document was delivered.
LEMMA SnapshotsKept ==
    ASSUME Kept, NEW r \in Runs, NEW snapshot \in snapshots(r)
    PROVE  /\ snapshot.form = "document"
           /\ snapshot.alert \cup snapshot.recent \subseteq delivered
           /\ snapshot.evaluated_at = now[r]
           /\ snapshot.level = seen[r].level
           /\ snapshot.available = Source \ seen[r].down
           /\ snapshot.degraded = (seen[r].down # {})
<1>1. PICK lookback : \E some \in recent_alerts(r, lookback) :
                        snapshot = build_snapshot(now[r], seen[r], message[r], some)
  BY DEF snapshots
<1>2. PICK some \in recent_alerts(r, lookback) :
             snapshot = build_snapshot(now[r], seen[r], message[r], some)
  BY <1>1
<1>3. some \subseteq held(r).alerts
  BY DEF recent_alerts, alerts_with_window_start_between
<1>4. held(r).alerts \subseteq delivered /\ message[r] \subseteq delivered
  BY DEF held, Kept
<1>. QED
  BY <1>2, <1>3, <1>4 DEF build_snapshot

LEMMA KeptNext == Shaped /\ Kept /\ [Next]_vars => Kept'
<1>. SUFFICES ASSUME Shaped, Kept, [Next]_vars PROVE Kept'
  OBVIOUS
<1>1. ASSUME NEW r \in Runs, Wire(r) \/ Decide(r) \/ Crash(r) \/ PublishNothing(r)
      PROVE  Kept'
  <2>1. /\ UNCHANGED <<store, document, delivered, seen, message, view>>
        /\ \A x \in Runs : stage'[x] = "record" => stage[x] = "record" /\ x # r
        /\ \A x \in Runs \ {r} : now'[x] = now[x]
    BY <1>1 DEF Wire, Decide, Crash, PublishNothing, Shaped
  <2>. QED
    BY <2>1 DEF Kept, AlertMessage
<1>2. ASSUME NEW r \in Runs, Evaluate(r) PROVE Kept'
  <2>1. /\ UNCHANGED <<store, document, delivered, message>>
        /\ \A x \in Runs : stage'[x] = "record" => stage[x] = "record" /\ x # r
        /\ \A x \in Runs \ {r} : now'[x] = now[x] /\ seen'[x] = seen[x]
        /\ \A x \in Runs : view'[x] = view[x] \/ view'[x] = store
    BY <1>2 DEF Evaluate, Shaped
  <2>. QED
    BY <2>1 DEF Kept, AlertMessage
<1>3. ASSUME NEW r \in Runs, SaveOutage(r) PROVE Kept'
  <2>1. /\ UNCHANGED <<document, delivered, message, seen, now>>
        /\ \A x \in Runs : stage'[x] = "record" => stage[x] = "record" /\ x # r
    BY <1>3 DEF SaveOutage, Shaped
  <2>2. held(r).alerts \subseteq delivered
    BY DEF held, Kept
  <2>3. /\ store' = store \/ store' = Holding(held(r).alerts, seen[r].down)
        /\ \A x \in Runs : view'[x] = view[x] \/ view'[x] = Holding(held(r).alerts, seen[r].down)
    BY <1>3 DEF SaveOutage, mutate, mutated, Shaped
  <2>4. store'.alerts \subseteq delivered /\ \A x \in Runs : view'[x].alerts \subseteq delivered
    BY <2>2, <2>3, HoldingHolds DEF Kept
  <2>. QED
    BY <2>1, <2>4 DEF Kept, AlertMessage
<1>4. ASSUME NEW r \in Runs, Send(r) PROVE Kept'
  <2>1. /\ UNCHANGED <<store, document, view, seen, now>>
        /\ delivered' = delivered \cup {AlertMessage(r)}
        /\ \A x \in Runs : stage'[x] = "record" => x = r \/ stage[x] = "record"
        /\ \A x \in Runs : message'[x] = message[x] \/ message'[x] = {AlertMessage(r)}
    BY <1>4 DEF Send, Shaped
  <2>. QED
    BY <2>1 DEF Kept, AlertMessage
<1>5. ASSUME NEW r \in Runs, Record(r) PROVE Kept'
  <2>. DEFINE alerts == kept(r) \cup {AlertMessage(r)}
  <2>1. /\ UNCHANGED <<document, delivered, message, seen, now>>
        /\ stage[r] = "record"
        /\ \A x \in Runs : stage'[x] = "record" => stage[x] = "record" /\ x # r
    BY <1>5 DEF Record, Shaped
  <2>2. alerts \subseteq delivered
    BY <2>1 DEF kept, held, Kept
  <2>3. /\ store' = Holding(alerts, held(r).outage)
        /\ \A x \in Runs : view'[x] = view[x] \/ view'[x] = Holding(alerts, held(r).outage)
    BY <1>5 DEF Record, mutate, mutated, Shaped
  <2>4. store'.alerts \subseteq delivered /\ \A x \in Runs : view'[x].alerts \subseteq delivered
    BY <2>2, <2>3, HoldingHolds DEF Kept
  <2>. QED
    BY <2>1, <2>4 DEF Kept, AlertMessage
<1>6. ASSUME NEW r \in Runs, PublishObject(r) \/ OpenFile(r) \/ WriteFile(r) PROVE Kept'
  <2>1. /\ UNCHANGED <<store, delivered, view, message, seen, now>>
        /\ \A x \in Runs : stage'[x] = "record" => stage[x] = "record" /\ x # r
        /\ document' = Torn \/ document' \in snapshots(r)
    BY <1>6 DEF PublishObject, OpenFile, WriteFile, Shaped
  <2>2. document'.form = "document" => document'.alert \cup document'.recent \subseteq delivered
    BY <2>1, SnapshotsKept DEF Torn
  <2>. QED
    BY <2>1, <2>2 DEF Kept, AlertMessage
<1>7. CASE Edit \/ Tick \/ Rest \/ UNCHANGED vars
  <2>1. UNCHANGED <<store, document, delivered, locals>>
    BY <1>7 DEF Edit, Tick, Rest, vars, locals
  <2>. QED
    BY <2>1 DEF Kept, AlertMessage, locals
<1>. QED
  BY <1>1, <1>2, <1>3, <1>4, <1>5, <1>6, <1>7 DEF Next, Publish

\* Every alert the page can show was accepted by the notifier, for every
\* number of invocations, overlapping or not, and wherever they die.
THEOREM ShowsOnlyWhatWasSent == Spec => []ShownWasSent
<1>1. Init => Kept
  BY DEF Init, Kept, EmptyStore, Holding, Absent, Foreign
<1>2. Kept => ShownWasSent
  BY DEF Kept, ShownWasSent, Shown, renderPage, resolveViewState, freshness, parseSnapshot,
         renderError, renderStatus
<1>. QED
  BY <1>1, <1>2, ShapedInit, ShapedNext, KeptNext, PTL DEF Spec

-----------------------------------------------------------------------------
\* A page that is not refused loses no row it marks in force: what is read of
\* it is what it announces (senamhi_scraper._refuse_if_in_force).
LEMMA ParseWarningsPage ==
    ASSUME NEW page, NEW t, parse_warnings_page(page, t) # Unavailable
    PROVE  parse_warnings_page(page, t) = Available(announced(page, t))
<1>1. ~ refuse_if_in_force(page)
  BY DEF parse_warnings_page
<1>2. \A i \in DOMAIN page.rows : page.rows[i].cells # "whole" => ~ page.rows[i].marked
  BY <1>1 DEF refuse_if_in_force, anomalies
<1>3. \A row \in Range(page.rows) : in_force(row, t) => row.cells = "whole"
  BY <1>2 DEF Range, in_force
<1>4. announced(page, t) =
        {row.warning : row \in {r \in Range(page.rows) :
                                  r.cells = "whole" /\ in_force(r, t) /\ is_flood_relevant(r.warning)}}
  BY <1>3 DEF announced
<1>. QED
  BY <1>4 DEF parse_warnings_page

\* An assessment that had the SENAMHI page is the one an undamaged page gives.
ReadsTrue == \A r \in Runs : "senamhi" \notin seen[r].down => seen[r].announced = seen[r].level

LEMMA AssessmentReadsTrue ==
    ASSUME NEW config, NEW t, NEW assessment \in assessments(config, t)
    PROVE  "senamhi" \notin assessment.down => assessment.announced = assessment.level
<1>. DEFINE Assessed(fetch) ==
       LET warnings == parse_warnings_page(fetch.page, t)
           forecast == IF fetch.answers
                       THEN Available(SubSeq(fetch.samples, 1, config.forecast_hours))
                       ELSE Unavailable
           verdict == evaluate(warnings, forecast, config.thresholds, t)
           undamaged == evaluate(Available(announced(fetch.page, t)), forecast, config.thresholds, t)
       IN  [level |-> verdict.level, window |-> verdict.window,
            down |-> {s \in Source : \/ s = "senamhi" /\ warnings = Unavailable
                                     \/ s = "open_meteo" /\ ~fetch.answers},
            announced |-> undamaged.level]
<1>1. PICK fetch \in [page : Pages, samples : Forecasts, answers : BOOLEAN] :
             assessment = Assessed(fetch)
  BY DEF assessments
<1>2. SUFFICES ASSUME "senamhi" \notin assessment.down
               PROVE  assessment.announced = assessment.level
  OBVIOUS
<1>3. parse_warnings_page(fetch.page, t) # Unavailable
  BY <1>1, <1>2 DEF Source
<1>4. parse_warnings_page(fetch.page, t) = Available(announced(fetch.page, t))
  BY <1>3, ParseWarningsPage
<1>. QED
  BY <1>1, <1>4

LEMMA ReadsTrueNext == Shaped /\ ReadsTrue /\ [Next]_vars => ReadsTrue'
<1>. SUFFICES ASSUME Shaped, ReadsTrue, [Next]_vars PROVE ReadsTrue'
  OBVIOUS
<1>1. ASSUME NEW r \in Runs, Evaluate(r) PROVE ReadsTrue'
  <2>1. \A x \in Runs \ {r} : seen'[x] = seen[x]
    BY <1>1 DEF Evaluate, Shaped
  <2>2. CASE seen' = seen
    BY <2>2 DEF ReadsTrue
  <2>3. CASE seen' # seen
    <3>1. PICK config : \E assessment \in assessments(config, now'[r]) :
                          seen' = [seen EXCEPT ![r] = assessment]
      BY <1>1, <2>3 DEF Evaluate
    <3>2. PICK assessment \in assessments(config, now'[r]) :
                 seen' = [seen EXCEPT ![r] = assessment]
      BY <3>1
    <3>3. seen'[r] = assessment
      BY <3>2 DEF Shaped
    <3>. QED
      BY <2>1, <3>2, <3>3, AssessmentReadsTrue DEF ReadsTrue
  <2>. QED
    BY <2>2, <2>3
<1>2. ASSUME NEW r \in Runs,
             \/ Wire(r) \/ SaveOutage(r) \/ Decide(r) \/ Send(r)
             \/ Record(r) \/ Publish(r) \/ Crash(r)
      PROVE  seen' = seen
  BY <1>2 DEF Wire, SaveOutage, Decide, Send, Record, Publish, PublishObject, OpenFile,
              WriteFile, PublishNothing, Crash
<1>3. CASE Edit \/ Tick \/ Rest \/ UNCHANGED vars
  BY <1>3 DEF Edit, Tick, Rest, vars, locals, ReadsTrue
<1>. QED
  BY <1>1, <1>2, <1>3 DEF Next, ReadsTrue

\* The document is the work of a cycle that ended well, and says of its
\* sources and its verdict what that cycle saw.
Signed(r) ==
    /\ stage[r] = "done"
    /\ now[r] = document.evaluated_at
    /\ document.level = seen[r].level
    /\ document.available = Source \ seen[r].down
    /\ document.degraded = (seen[r].down # {})

Authored == document.form = "document" => \E r \in Runs : Signed(r)

LEMMA AuthoredNext == Shaped /\ Kept /\ Authored /\ [Next]_vars => Authored'
<1>. SUFFICES ASSUME Shaped, Kept, Authored, [Next]_vars PROVE Authored'
  OBVIOUS
<1>1. ASSUME NEW r \in Runs, PublishObject(r) \/ WriteFile(r) PROVE Authored'
  <2>1. /\ document' \in snapshots(r)
        /\ UNCHANGED <<now, seen>>
        /\ stage'[r] = "done"
    BY <1>1 DEF PublishObject, WriteFile, Shaped
  <2>2. Signed(r)'
    BY <2>1, SnapshotsKept DEF Signed
  <2>. QED
    BY <2>2 DEF Authored
<1>2. ASSUME NEW r \in Runs, OpenFile(r) PROVE Authored'
  BY <1>2 DEF OpenFile, Torn, Authored
<1>3. ASSUME NEW r \in Runs,
             \/ Wire(r) \/ Evaluate(r) \/ SaveOutage(r) \/ Decide(r) \/ Send(r)
             \/ Record(r) \/ PublishNothing(r) \/ Crash(r)
      PROVE  Authored'
  <2>1. /\ document' = document
        /\ stage[r] # "done"
        /\ \A x \in Runs \ {r} : stage'[x] = stage[x] /\ now'[x] = now[x] /\ seen'[x] = seen[x]
    BY <1>3 DEF Wire, Evaluate, SaveOutage, Decide, Send, Record, PublishNothing, Crash, Active,
                Ended, Shaped
  <2>2. ASSUME NEW x \in Runs, Signed(x) PROVE Signed(x)'
    BY <2>1, <2>2 DEF Signed
  <2>. QED
    BY <2>1, <2>2 DEF Authored
<1>4. CASE Edit \/ Tick \/ Rest \/ UNCHANGED vars
  <2>1. UNCHANGED <<document, stage, now, seen>>
    BY <1>4 DEF Edit, Tick, Rest, vars, locals
  <2>. QED
    BY <2>1 DEF Authored, Signed
<1>. QED
  BY <1>1, <1>2, <1>3, <1>4 DEF Next, Publish

\* "Sin riesgo" without reserve is earned: whatever pages SENAMHI serves,
\* whatever fails, and whenever the page is loaded, some cycle of the last
\* hours read both sources and an undamaged page would have told it the same.
THEOREM AllClearOnlyWhenEarned == Spec => []AllClearIsEarned
<1>. DEFINE Inv == Shaped /\ Kept /\ ReadsTrue /\ Authored
<1>1. Init => Inv
  BY ShapedInit DEF Init, Kept, ReadsTrue, Authored, EmptyStore, Holding, Absent, Foreign,
                    NoAssessment
<1>2. Inv /\ [Next]_vars => Inv'
  BY ShapedNext, KeptNext, ReadsTrueNext, AuthoredNext
<1>3. Inv => AllClearIsEarned
  <2>. SUFFICES ASSUME Inv, NEW page \in Shown, IsAllClear(page)
                PROVE  \E r \in Runs :
                         /\ stage[r] = "done"
                         /\ now[r] = document.evaluated_at
                         /\ clock - now[r] <= StaleAfter
                         /\ seen[r].down = {}
                         /\ seen[r].level = "none"
                         /\ seen[r].announced = "none"
    BY DEF AllClearIsEarned
  <2>1. PICK fetched \in BOOLEAN : page = renderPage(fetched, document, clock)
    BY DEF Shown
  <2>2. page # renderError
    BY DEF IsAllClear, renderError
  <2>3. /\ document.form = "document"
        /\ page = renderStatus(document, freshness(document, clock) = "stale")
    BY <2>1, <2>2 DEF renderPage, resolveViewState, parseSnapshot
  <2>4. /\ freshness(document, clock) # "stale"
        /\ ~ is_blind(document)
        /\ document.level = "none"
        /\ ~ is_incomplete(document)
    BY <2>3 DEF IsAllClear, renderStatus, headingText, buildScale
  <2>5. PICK r \in Runs : Signed(r)
    BY <2>3 DEF Authored
  <2>6. clock - now[r] <= StaleAfter
    BY <2>4, <2>5, StaleAssumption DEF freshness, ageInHours, Signed, Shaped
  <2>7. seen[r].down = {}
    BY <2>4, <2>5 DEF is_incomplete, Signed
  <2>. QED
    BY <2>4, <2>5, <2>6, <2>7 DEF Signed, ReadsTrue
<1>. QED
  BY <1>1, <1>2, <1>3, PTL DEF Spec

-----------------------------------------------------------------------------
(* Types.  What is assessed is typed because the pages and forecasts are;  *)
(* what is sent carries a level because only an elevated cycle sends.      *)

LEMMA ConfigTyped ==
    ASSUME NEW config \in Configs
    PROVE  config.forecast_hours \in Nat \ {0} /\ config.dedup_lookback_hours \in Nat \ {0}
<1>1. CASE config = StaticConfig
  BY <1>1, StaticAssumption
<1>2. ASSUME NEW p \in Parameters, parses(p), config = AlertConfig(p)
      PROVE  config.forecast_hours \in Nat \ {0} /\ config.dedup_lookback_hours \in Nat \ {0}
  <2>1. ASSUME NEW name \in {"forecast_hours", "dedup_lookback_hours"}
        PROVE  config[name] \in Nat \ {0}
    <3>1. name \in Parameter /\ accepts(name, p[name].value)
      BY <1>2 DEF parses, Parameter
    <3>2. positive_int(p[name].value)
      BY <3>1 DEF accepts
    <3>. QED  BY <1>2, <3>1, <3>2 DEF positive_int, AlertConfig
  <2>. QED  BY <2>1
<1>. QED  BY <1>1, <1>2 DEF Configs

\* A page announces finitely many warnings, each with a window.
LEMMA AnnouncedTyped ==
    ASSUME NEW page \in Pages, NEW t
    PROVE  IsFiniteSet(announced(page, t)) /\ \A w \in announced(page, t) : w.window \in TimeWindow
<1>. DEFINE rows == page.rows
            Warned == {row.warning : row \in Range(rows)}
<1>. DEFINE cells == [cells : {"whole", "short", "garbled"}, marked : BOOLEAN,
                     warning : [level : WarningLevel, title : Title, window : TimeWindow]]
<1>1. rows \in Seq(cells) /\ Len(rows) \in Nat /\ DOMAIN rows = 1 .. Len(rows)
  <2>1. rows \in Seq(cells)
    BY PagesAssumption
  <2>. HIDE DEF rows, cells
  <2>. QED  BY <2>1, LenProperties
<1>2. \A i \in 1 .. Len(rows) : rows[i].warning.window \in TimeWindow
  <2>. SUFFICES ASSUME NEW i \in 1 .. Len(rows) PROVE rows[i].warning.window \in TimeWindow
    OBVIOUS
  <2>1. rows[i] \in cells
    <3>. HIDE DEF rows, cells
    <3>. QED  BY <1>1, ElementOfSeq
  <2>. QED  BY <2>1
<1>3. Warned = {rows[i].warning : i \in 1 .. Len(rows)}
  BY <1>1 DEF Range
<1>4. IsFiniteSet(Warned)
  <2>1. [i \in 1 .. Len(rows) |-> rows[i].warning] \in Surjection(1 .. Len(rows), Warned)
    BY <1>3 DEF Surjection
  <2>2. IsFiniteSet(1 .. Len(rows))
    BY <1>1, FS_Interval
  <2>. QED  BY <2>1, <2>2, FS_Surjection
<1>5. announced(page, t) \subseteq Warned
  BY DEF announced
<1>6. \A w \in Warned : w.window \in TimeWindow
  BY <1>2, <1>3
<1>. HIDE DEF Warned
<1>. QED  BY <1>4, <1>5, <1>6, FS_Subset

LEMMA AssessmentTyped ==
    ASSUME NEW config \in Configs, NEW t \in Nat, NEW assessment \in assessments(config, t)
    PROVE  assessment \in Assessment
<1>. DEFINE warnings(fetch) == parse_warnings_page(fetch.page, t)
            forecast(fetch) == IF fetch.answers
                               THEN Available(SubSeq(fetch.samples, 1, config.forecast_hours))
                               ELSE Unavailable
            verdict(fetch) == evaluate(warnings(fetch), forecast(fetch), config.thresholds, t)
            undamaged(fetch) ==
               evaluate(Available(announced(fetch.page, t)), forecast(fetch), config.thresholds, t)
<1>1. PICK fetch \in [page : Pages, samples : Forecasts, answers : BOOLEAN] :
             assessment =
               [level |-> verdict(fetch).level, window |-> verdict(fetch).window,
                down |-> {s \in Source : \/ s = "senamhi" /\ warnings(fetch) = Unavailable
                                         \/ s = "open_meteo" /\ ~fetch.answers},
                announced |-> undamaged(fetch).level]
  BY DEF assessments
<1>. DEFINE w == warnings(fetch)
            f == forecast(fetch)
            a == Available(announced(fetch.page, t))
<1>2. IsFiniteSet(announced(fetch.page, t))
      /\ \A x \in announced(fetch.page, t) : x.window \in TimeWindow
  BY AnnouncedTyped
<1>3. /\ a.status = "available" => IsFiniteSet(a.data) /\ \A x \in a.data : x.window \in TimeWindow
      /\ w.status = "available" => IsFiniteSet(w.data) /\ \A x \in w.data : x.window \in TimeWindow
  BY <1>2, ParseWarningsPage DEF Available, Unavailable
<1>4. f.status = "available" => Len(f.data) \in Nat \ {0}
  <2>1. /\ config.forecast_hours \in Nat \ {0} /\ config.forecast_hours <= Len(fetch.samples)
        /\ fetch.samples \in Seq([mm : Nat, pct : 0 .. 100])
    BY ConfigTyped, ForecastsAssumption
  <2>2. Len(SubSeq(fetch.samples, 1, config.forecast_hours)) = config.forecast_hours
    BY <2>1, SubSeqProperties
  <2>. QED  BY <2>1, <2>2 DEF Available, Unavailable
<1>. HIDE DEF w, f, a
<1>5. /\ evaluate(w, f, config.thresholds, t).level \in Level
      /\ evaluate(w, f, config.thresholds, t).window \in TimeWindow
  BY <1>3, <1>4, VerdictTyped
<1>6. evaluate(a, f, config.thresholds, t).level \in Level
  BY <1>3, <1>4, VerdictTyped
<1>. QED  BY <1>1, <1>5, <1>6 DEF Assessment, w, f, a

\* Only an elevated cycle goes on to send, and it runs under a configuration
\* that can be loaded.
Sending ==
    /\ \A r \in Runs : loads[r] \subseteq Configs
    /\ \A r \in Runs : stage[r] \in {"send", "record"} => seen[r].level # "none"

Typed == Shaped /\ TypeOK /\ Sending

LEMMA LoadTyped ==
    ASSUME Typed, NEW r \in Runs
    PROVE  load(r) \subseteq Configs
  BY DEF load, Configs, Typed, TypeOK, Sending

LEMMA HoldingTyped ==
    ASSUME NEW alerts \in SUBSET Alert, NEW outage \in SUBSET Source
    PROVE  Holding(alerts, outage) \in Store
  BY DEF Holding, Store

LEMMA HeldTyped ==
    ASSUME TypeOK, NEW r \in Runs
    PROVE  held(r).alerts \in SUBSET Alert /\ held(r).outage \in SUBSET Source
  BY DEF TypeOK, held, Store

LEMMA SnapshotTyped ==
    ASSUME TypeOK, NEW r \in Runs, NEW snapshot \in snapshots(r)
    PROVE  snapshot \in Document
<1>1. PICK lookback : \E some \in recent_alerts(r, lookback) :
                        snapshot = build_snapshot(now[r], seen[r], message[r], some)
  BY DEF snapshots
<1>2. PICK some \in recent_alerts(r, lookback) :
             snapshot = build_snapshot(now[r], seen[r], message[r], some)
  BY <1>1
<1>3. some \in SUBSET Alert
  BY HeldTyped DEF recent_alerts, alerts_with_window_start_between
<1>4. now[r] \in Nat /\ seen[r] \in Assessment /\ message[r] \in SUBSET Alert
  BY DEF TypeOK
<1>. QED  BY <1>2, <1>3, <1>4 DEF build_snapshot, Document, Assessment

LEMMA TypedInit == Init => Typed
<1>. SUFFICES ASSUME Init PROVE Typed
  OBVIOUS
<1>1. Shaped /\ Sending
  BY ShapedInit DEF Init, Sending
<1>2. EmptyStore \in Store /\ NoAssessment \in Assessment
  BY DEF EmptyStore, Holding, Store, NoAssessment, Assessment, Level, Window, TimeWindow
<1>3. TypeOK
  BY <1>2 DEF Init, TypeOK, Stage
<1>. QED  BY <1>1, <1>3 DEF Typed

LEMMA TypedNext == Typed /\ [Next]_vars => Typed'
<1>. SUFFICES ASSUME Typed, [Next]_vars PROVE TypeOK' /\ Sending'
  BY ShapedNext DEF Typed
<1>1. Shaped /\ TypeOK /\ Sending /\ Shaped'
  BY ShapedNext DEF Typed
<1>2. ASSUME NEW r \in Runs, Wire(r) PROVE TypeOK' /\ Sending'
  <2>1. \A x \in Runs : loads'[x] \subseteq Configs
    BY <1>1, <1>2, LoadTyped DEF Wire, Shaped, Sending
  <2>2. Sending'
    BY <1>1, <1>2, <2>1 DEF Wire, Shaped, Sending
  <2>. QED  BY <1>1, <1>2, <2>1, <2>2, ConfigTyped DEF Wire, TypeOK, Shaped
<1>3. ASSUME NEW r \in Runs, Evaluate(r) PROVE TypeOK' /\ Sending'
  <2>1. \A x \in Runs : loads'[x] \subseteq Configs
    BY <1>1, <1>3, LoadTyped DEF Evaluate, Shaped, Sending
  <2>2. now' \in [Runs -> Nat] /\ now'[r] \in Nat
    BY <1>1 DEF Shaped
  <2>3. seen' \in [Runs -> Assessment]
    <3>1. CASE seen' = seen
      BY <1>1, <3>1 DEF TypeOK
    <3>2. CASE seen' # seen
      <4>1. PICK config \in load(r) : \E assessment \in assessments(config, now'[r]) :
                                         seen' = [seen EXCEPT ![r] = assessment]
        BY <1>3, <3>2 DEF Evaluate
      <4>2. config \in Configs
        BY LoadTyped
      <4>. QED  BY <1>1, <2>2, <4>1, <4>2, AssessmentTyped DEF TypeOK
    <3>. QED  BY <3>1, <3>2
  <2>4. view' \in [Runs -> Store]
    BY <1>1, <1>3 DEF Evaluate, TypeOK
  <2>5. \A x \in Runs : stage'[x] \in {"send", "record"} => stage[x] = stage'[x] /\ seen'[x] = seen[x]
    BY <1>1, <1>3 DEF Evaluate, Shaped
  <2>6. UNCHANGED <<host, clock, params, edits, store, document, delivered, message>>
    BY <1>3 DEF Evaluate
  <2>7. Sending'
    BY <1>1, <2>1, <2>5 DEF Sending
  <2>8. stage' \in [Runs -> Stage]
    BY <1>1 DEF Shaped
  <2>. QED  BY <1>1, <2>1, <2>2, <2>3, <2>4, <2>6, <2>7, <2>8, ConfigTyped DEF TypeOK
<1>4. ASSUME NEW r \in Runs, SaveOutage(r) PROVE TypeOK' /\ Sending'
  <2>1. Holding(held(r).alerts, seen[r].down) \in Store
    BY <1>1, HeldTyped, HoldingTyped DEF TypeOK, Assessment
  <2>2. store' \in Store /\ view' \in [Runs -> Store]
    BY <1>1, <1>4, <2>1 DEF SaveOutage, mutate, mutated, TypeOK
  <2>. QED  BY <1>1, <1>4, <2>2 DEF SaveOutage, TypeOK, Shaped, Sending
<1>5. ASSUME NEW r \in Runs, Decide(r) PROVE TypeOK' /\ Sending'
  <2>1. stage'[r] = "send" => seen[r].level # "none"
    BY <1>1, <1>5 DEF Decide, Shaped, decide, should_send
  <2>. QED  BY <1>1, <1>5, <2>1 DEF Decide, TypeOK, Shaped, Sending
<1>6. ASSUME NEW r \in Runs, Send(r) PROVE TypeOK' /\ Sending'
  <2>1. AlertMessage(r) \in Alert
    BY <1>1, <1>6 DEF Send, AlertMessage, Alert, TypeOK, Assessment, Sending
  <2>. QED  BY <1>1, <1>6, <2>1 DEF Send, TypeOK, Shaped, Sending
<1>7. ASSUME NEW r \in Runs, Record(r) PROVE TypeOK' /\ Sending'
  <2>1. AlertMessage(r) \in Alert
    BY <1>1, <1>7 DEF Record, AlertMessage, Alert, TypeOK, Assessment, Sending
  <2>2. kept(r) \in SUBSET Alert
    BY <1>1, HeldTyped DEF kept, TypeOK, Store
  <2>3. Holding(kept(r) \cup {AlertMessage(r)}, held(r).outage) \in Store
    BY <1>1, <2>1, <2>2, HeldTyped, HoldingTyped
  <2>4. store' \in Store /\ view' \in [Runs -> Store]
    BY <1>1, <1>7, <2>3 DEF Record, mutate, mutated, TypeOK
  <2>. QED  BY <1>1, <1>7, <2>4 DEF Record, TypeOK, Shaped, Sending
<1>8. ASSUME NEW r \in Runs, Publish(r) PROVE TypeOK' /\ Sending'
  <2>1. document' \in {document, Torn} \cup snapshots(r)
    BY <1>8 DEF Publish, PublishObject, OpenFile, WriteFile, PublishNothing
  <2>2. document' \in {Absent, Torn, Foreign} \cup Document
    BY <1>1, <2>1, SnapshotTyped DEF TypeOK
  <2>3. /\ UNCHANGED <<host, clock, params, edits, store, delivered, loads, now, seen, message, view>>
        /\ \A x \in Runs : stage'[x] \in {"send", "record"} => stage[x] = stage'[x]
    BY <1>1, <1>8 DEF Publish, PublishObject, OpenFile, WriteFile, PublishNothing, Shaped
  <2>. QED  BY <1>1, <2>2, <2>3 DEF TypeOK, Shaped, Sending
<1>9. ASSUME NEW r \in Runs, Crash(r) PROVE TypeOK' /\ Sending'
  BY <1>1, <1>9 DEF Crash, TypeOK, Shaped, Sending
<1>10. CASE Edit \/ Tick \/ Rest \/ UNCHANGED vars
  BY <1>1, <1>10 DEF Edit, Tick, Rest, vars, locals, TypeOK, Shaped, Sending
<1>. QED
  BY <1>2, <1>3, <1>4, <1>5, <1>6, <1>7, <1>8, <1>9, <1>10 DEF Next

\* Every reachable state is well typed, the published document included: a
\* window is never empty or inverted, and an alert on record carries a level.
THEOREM TypeCorrect == Spec => []TypeOK
  BY TypedInit, TypedNext, PTL DEF Spec, Typed

-----------------------------------------------------------------------------
(* The history, where invocations do not overlap.  The one that is active   *)
(* holds what is on record, the alert it sends has a key of its own, and    *)
(* all it has delivered is that alert.                                      *)

\* From the assessment on, a local repository answers from what it has read.
Holds == {"outage", "decide", "send", "record", "publish", "writing"}

Finite == IsFiniteSet(store.alerts) /\ \A r \in Runs : IsFiniteSet(view[r].alerts)

OneActive == \A r, x \in Active : r = x

OwnState ==
    host.deployment = "local" => \A r \in Runs : stage[r] \in Holds => view[r] = store

KeyIsFree ==
    \A r \in Runs : host.deployment = "cloud" /\ stage[r] \in {"send", "record"} =>
        \A a \in store.alerts : ~ /\ a.window.start = seen[r].window.start
                                  /\ a.level = seen[r].level

SentItsOwn ==
    \A d \in delivered :
        /\ stage[d.run] \notin {"idle", "wired", "outage", "decide", "send"}
        /\ stage[d.run] = "record" => d = AlertMessage(d.run)

Serial == OneActive /\ OwnState /\ KeyIsFree /\ SentItsOwn /\ Recorded \subseteq store.alerts

HistoryInv == Typed /\ Configured /\ Finite /\ (host.serialized => Serial)

LEMMA HeldIsStore ==
    ASSUME OwnState, NEW r \in Runs, stage[r] \in Holds, host \in Host
    PROVE  held(r) = store
  BY DEF OwnState, held, Host

LEMMA FiniteNext == Typed /\ Finite /\ [Next]_vars => Finite'
<1>. SUFFICES ASSUME Typed, Finite, [Next]_vars PROVE Finite'
  OBVIOUS
<1>1. \A r \in Runs : IsFiniteSet(held(r).alerts)
  BY DEF Finite, held
<1>2. ASSUME NEW r \in Runs, Evaluate(r) PROVE Finite'
  <2>1. store' = store /\ \A x \in Runs : view'[x] = view[x] \/ view'[x] = store
    BY <1>2 DEF Evaluate, Typed, TypeOK
  <2>. QED  BY <2>1 DEF Finite
<1>3. ASSUME NEW r \in Runs, SaveOutage(r) PROVE Finite'
  <2>. DEFINE change == Holding(held(r).alerts, seen[r].down)
  <2>1. IsFiniteSet(change.alerts)
    BY <1>1, HoldingHolds
  <2>2. /\ store' = store \/ store' = change
        /\ \A x \in Runs : view'[x] = view[x] \/ view'[x] = change
    BY <1>3 DEF SaveOutage, mutate, mutated, Typed, TypeOK
  <2>. HIDE DEF change
  <2>. QED  BY <2>1, <2>2 DEF Finite
<1>4. ASSUME NEW r \in Runs, Record(r) PROVE Finite'
  <2>. DEFINE alerts == kept(r) \cup {AlertMessage(r)}
              change == Holding(alerts, held(r).outage)
  <2>1. IsFiniteSet(kept(r))
    <3>1. kept(r) \subseteq held(r).alerts \/ kept(r) \subseteq store.alerts
      BY DEF kept
    <3>. QED  BY <1>1, <3>1, FS_Subset DEF Finite
  <2>2. IsFiniteSet(alerts)
    BY <2>1, FS_AddElement
  <2>3. IsFiniteSet(change.alerts)
    BY <2>2, HoldingHolds
  <2>4. store' = change /\ \A x \in Runs : view'[x] = view[x] \/ view'[x] = change
    BY <1>4 DEF Record, mutate, mutated, Typed, TypeOK
  <2>. HIDE DEF change
  <2>. QED  BY <2>3, <2>4 DEF Finite
<1>5. ASSUME NEW r \in Runs, Wire(r) \/ Decide(r) \/ Send(r) \/ Publish(r) \/ Crash(r)
      PROVE  Finite'
  BY <1>5 DEF Wire, Decide, Send, Publish, PublishObject, OpenFile, WriteFile, PublishNothing,
              Crash, Finite
<1>6. CASE Edit \/ Tick \/ Rest \/ UNCHANGED vars
  BY <1>6 DEF Edit, Tick, Rest, vars, locals, Finite
<1>. QED  BY <1>2, <1>3, <1>4, <1>5, <1>6 DEF Next

\* No two invocations are active, whatever step is taken.
LEMMA OneActiveNext ==
    ASSUME Typed, host.serialized, OneActive, [Next]_vars
    PROVE  OneActive'
<1>1. ASSUME NEW r \in Runs, Wire(r) PROVE OneActive'
  <2>1. Active = {} /\ \A x \in Runs \ {r} : stage'[x] = stage[x]
    BY <1>1 DEF Wire, Typed, Shaped
  <2>2. Active' \subseteq {r}
    BY <2>1 DEF Active
  <2>. QED  BY <2>2 DEF OneActive
<1>2. ASSUME NEW r \in Runs,
             \/ Evaluate(r) \/ SaveOutage(r) \/ Decide(r) \/ Send(r)
             \/ Record(r) \/ Publish(r) \/ Crash(r)
      PROVE  OneActive'
  <2>1. r \in Active /\ \A x \in Runs \ {r} : stage'[x] = stage[x]
    BY <1>2 DEF Evaluate, SaveOutage, Decide, Send, Record, Publish, PublishObject, OpenFile,
                WriteFile, PublishNothing, Crash, Active, Ended, Typed, Shaped
  <2>2. Active' \subseteq Active
    BY <2>1 DEF Active
  <2>. QED  BY <2>2 DEF OneActive
<1>3. CASE Edit \/ Tick \/ Rest \/ UNCHANGED vars
  BY <1>3 DEF Edit, Tick, Rest, vars, locals, OneActive, Active
<1>. QED  BY <1>1, <1>2, <1>3 DEF Next

\* A cycle that goes on to send finds the key of its alert free: an alert with
\* the same start overlaps, is read whatever the lookback, and silences one of
\* no higher level.
LEMMA DecidedKey ==
    ASSUME TypeOK, NEW r \in Runs, NEW lookback \in Nat, NEW alerts \in SUBSET Alert,
           decide(seen[r], now[r], lookback, alerts),
           NEW a \in alerts, a.window.start = seen[r].window.start
    PROVE  a.level # seen[r].level
<1>1. /\ seen[r].window \in TimeWindow /\ a.window \in TimeWindow
      /\ now[r] \in Nat /\ seen[r].level \in Level
  BY DEF TypeOK, Assessment, Alert
<1>2. a \in alerts_with_window_start_between(alerts, EarliestStart(seen[r], now[r], lookback),
                                             seen[r].window.end)
  BY <1>1 DEF alerts_with_window_start_between, EarliestStart, Earlier, TimeWindow
<1>3. overlaps(a.window, seen[r].window)
  BY <1>1 DEF overlaps, TimeWindow
<1>4. is_escalation(a.level, seen[r].level)
  BY <1>2, <1>3 DEF decide, should_send, Overlapping
<1>. QED  BY <1>1, <1>4 DEF is_escalation, LEVEL_RANK, Level

LEMMA SerialNext ==
    ASSUME Typed, Configured, host.serialized, Serial, [Next]_vars
    PROVE  Serial'
<1>. SUFFICES OwnState' /\ KeyIsFree' /\ SentItsOwn' /\ Recorded' \subseteq store'.alerts
  BY OneActiveNext DEF Serial
<1>1. /\ Shaped /\ TypeOK /\ host \in Host
      /\ OneActive /\ OwnState /\ KeyIsFree /\ SentItsOwn /\ Recorded \subseteq store.alerts
      /\ \A d \in delivered : d.run \in Runs
  BY HostsAssumption DEF Typed, TypeOK, Serial, Alert
\* The steps of an invocation that is past its wiring leave the others ended
\* or idle.
<1>2. ASSUME NEW r \in Active, NEW x \in Runs \ {r} PROVE stage[x] \in {"idle"} \cup Ended
  BY <1>1, <1>2 DEF OneActive, Active
<1>3. ASSUME NEW r \in Runs, Wire(r) \/ Crash(r) \/ Publish(r)
      PROVE  OwnState' /\ KeyIsFree' /\ SentItsOwn' /\ Recorded' \subseteq store'.alerts
  <2>1. /\ UNCHANGED <<host, store, delivered, seen, view>>
        /\ stage[r] \notin {"failed", "crashed", "done"}
        /\ \A x \in Runs \ {r} : stage'[x] = stage[x] /\ now'[x] = now[x]
    BY <1>1, <1>3 DEF Wire, Crash, Active, Ended, Publish, PublishObject, OpenFile, WriteFile,
                      PublishNothing, Shaped
  <2>2. \/ stage'[r] \in {"wired", "failed"} /\ stage[r] = "idle"
        \/ stage'[r] = "crashed"
        \/ stage'[r] \in {"writing", "done"} /\ stage[r] \in {"publish", "writing"}
    BY <1>1, <1>3 DEF Wire, Crash, Publish, PublishObject, OpenFile, WriteFile, PublishNothing,
                      Shaped
  <2>3. OwnState' /\ KeyIsFree'
    BY <1>1, <2>1, <2>2 DEF OwnState, KeyIsFree, Holds
  <2>4. SentItsOwn'
    BY <1>1, <2>1, <2>2 DEF SentItsOwn, AlertMessage
  <2>5. Recorded' \subseteq Recorded
    BY <1>1, <2>1, <2>2 DEF Recorded
  <2>. QED  BY <1>1, <2>1, <2>3, <2>4, <2>5
<1>4. ASSUME NEW r \in Runs, Evaluate(r)
      PROVE  OwnState' /\ KeyIsFree' /\ SentItsOwn' /\ Recorded' \subseteq store'.alerts
  <2>1. /\ UNCHANGED <<host, store, delivered>>
        /\ stage[r] = "wired" /\ stage'[r] \in {"failed", "outage"}
        /\ \A x \in Runs \ {r} : /\ stage'[x] = stage[x] /\ seen'[x] = seen[x]
                                 /\ view'[x] = view[x] /\ now'[x] = now[x]
        /\ host.deployment = "local" /\ stage'[r] = "outage" => view'[r] = store
    BY <1>1, <1>4 DEF Evaluate, TypeOK
  <2>2. OwnState' /\ KeyIsFree'
    BY <1>1, <2>1 DEF OwnState, KeyIsFree, Holds
  <2>3. SentItsOwn'
    BY <1>1, <2>1 DEF SentItsOwn, AlertMessage
  <2>4. Recorded' \subseteq Recorded
    BY <1>1, <2>1 DEF Recorded
  <2>. QED  BY <1>1, <2>1, <2>2, <2>3, <2>4
<1>5. ASSUME NEW r \in Runs, SaveOutage(r)
      PROVE  OwnState' /\ KeyIsFree' /\ SentItsOwn' /\ Recorded' \subseteq store'.alerts
  <2>1. /\ UNCHANGED <<host, delivered, seen, now>>
        /\ stage[r] = "outage" /\ stage'[r] = "decide"
        /\ \A x \in Runs \ {r} : stage'[x] = stage[x] /\ view'[x] = view[x]
    BY <1>1, <1>5 DEF SaveOutage, mutate, TypeOK
  <2>2. held(r) = store
    BY <1>1, <2>1, HeldIsStore DEF Holds
  <2>3. store'.alerts = store.alerts
    BY <1>5, <2>2, HoldingHolds DEF SaveOutage, mutate, mutated
  <2>4. host.deployment = "local" => view'[r] = store'
    BY <1>1, <1>5, <2>1 DEF SaveOutage, mutate, TypeOK, OwnState, Holds
  <2>5. \A x \in Runs \ {r} : stage[x] \in {"idle"} \cup Ended
    BY <1>2, <2>1 DEF Active, Ended
  <2>6. OwnState'
    BY <2>1, <2>4, <2>5 DEF OwnState, Holds, Ended
  <2>7. KeyIsFree' /\ SentItsOwn'
    BY <1>1, <2>1, <2>3 DEF KeyIsFree, SentItsOwn, AlertMessage
  <2>8. Recorded' \subseteq Recorded
    BY <1>1, <2>1 DEF Recorded
  <2>. QED  BY <1>1, <2>3, <2>6, <2>7, <2>8
<1>6. ASSUME NEW r \in Runs, Decide(r)
      PROVE  OwnState' /\ KeyIsFree' /\ SentItsOwn' /\ Recorded' \subseteq store'.alerts
  <2>1. /\ UNCHANGED <<host, store, delivered, seen, now, view>>
        /\ stage[r] = "decide" /\ stage'[r] \in {"send", "publish"}
        /\ \A x \in Runs \ {r} : stage'[x] = stage[x]
    BY <1>1, <1>6 DEF Decide, TypeOK
  <2>2. held(r) = store
    BY <1>1, <2>1, HeldIsStore DEF Holds
  <2>3. ASSUME stage'[r] = "send", NEW a \in store.alerts,
               a.window.start = seen[r].window.start
        PROVE  a.level # seen[r].level
    <3>1. PICK config \in load(r) :
                 decide(seen[r], now[r], config.dedup_lookback_hours, held(r).alerts)
      BY <1>1, <1>6, <2>3 DEF Decide, TypeOK
    <3>2. config.dedup_lookback_hours \in Nat
      BY <3>1, LoadTyped, ConfigTyped
    <3>3. store.alerts \in SUBSET Alert
      BY <1>1 DEF TypeOK, Store
    <3>. QED  BY <1>1, <2>2, <2>3, <3>1, <3>2, <3>3, DecidedKey
  <2>4. OwnState'
    BY <1>1, <2>1 DEF OwnState, Holds
  <2>5. KeyIsFree'
    BY <1>1, <2>1, <2>3 DEF KeyIsFree
  <2>6. SentItsOwn' /\ Recorded' \subseteq Recorded
    BY <1>1, <2>1 DEF SentItsOwn, Recorded, AlertMessage
  <2>. QED  BY <1>1, <2>1, <2>4, <2>5, <2>6
<1>7. ASSUME NEW r \in Runs, Send(r)
      PROVE  OwnState' /\ KeyIsFree' /\ SentItsOwn' /\ Recorded' \subseteq store'.alerts
  <2>1. /\ UNCHANGED <<host, store, seen, now, view>>
        /\ delivered' = delivered \cup {AlertMessage(r)}
        /\ stage[r] = "send" /\ stage'[r] = "record"
        /\ \A x \in Runs \ {r} : stage'[x] = stage[x]
    BY <1>1, <1>7 DEF Send, TypeOK
  <2>2. \A d \in delivered : d.run # r
    BY <1>1, <2>1 DEF SentItsOwn
  <2>3. AlertMessage(r).run = r
    BY DEF AlertMessage
  <2>4. OwnState' /\ KeyIsFree'
    BY <1>1, <2>1 DEF OwnState, KeyIsFree, Holds
  <2>5. SentItsOwn'
    <3>. SUFFICES ASSUME NEW d \in delivered'
                  PROVE  /\ stage'[d.run] \notin {"idle", "wired", "outage", "decide", "send"}
                         /\ stage'[d.run] = "record" => d = AlertMessage(d.run)'
      BY DEF SentItsOwn
    <3>1. AlertMessage(d.run)' = AlertMessage(d.run)
      BY <2>1 DEF AlertMessage
    <3>2. CASE d \in delivered
      BY <1>1, <2>1, <2>2, <3>1, <3>2 DEF SentItsOwn
    <3>3. CASE d = AlertMessage(r)
      BY <2>1, <2>3, <3>1, <3>3
    <3>. QED  BY <2>1, <3>2, <3>3
  <2>6. Recorded' \subseteq Recorded
    BY <1>1, <2>1, <2>2, <2>3 DEF Recorded
  <2>. QED  BY <1>1, <2>1, <2>4, <2>5, <2>6
<1>8. ASSUME NEW r \in Runs, Record(r)
      PROVE  OwnState' /\ KeyIsFree' /\ SentItsOwn' /\ Recorded' \subseteq store'.alerts
  <2>1. /\ UNCHANGED <<host, delivered, seen, now>>
        /\ stage[r] = "record" /\ stage'[r] = "publish"
        /\ \A x \in Runs \ {r} : stage'[x] = stage[x] /\ view'[x] = view[x]
        /\ store' = Holding(kept(r) \cup {AlertMessage(r)}, held(r).outage)
        /\ host.deployment = "local" => view'[r] = store'
    BY <1>1, <1>8 DEF Record, mutate, mutated, TypeOK
  <2>2. held(r) = store
    BY <1>1, <2>1, HeldIsStore DEF Holds
  <2>3. store.alerts \subseteq kept(r)
    BY <1>1, <2>1, <2>2 DEF kept, KeyIsFree, Host
  <2>4. store'.alerts = kept(r) \cup {AlertMessage(r)}
    BY <2>1, HoldingHolds
  <2>5. \A x \in Runs \ {r} : stage[x] \in {"idle"} \cup Ended
    BY <1>2, <2>1 DEF Active, Ended
  <2>6. OwnState' /\ KeyIsFree'
    BY <2>1, <2>5 DEF OwnState, KeyIsFree, Holds, Ended
  <2>7. SentItsOwn'
    BY <1>1, <2>1 DEF SentItsOwn, AlertMessage
  <2>8. Recorded' \subseteq Recorded \cup {AlertMessage(r)}
    BY <1>1, <2>1 DEF Recorded, SentItsOwn
  <2>. QED  BY <1>1, <2>3, <2>4, <2>6, <2>7, <2>8
<1>9. CASE Edit \/ Tick \/ Rest \/ UNCHANGED vars
  BY <1>1, <1>9 DEF Edit, Tick, Rest, vars, locals, OwnState, KeyIsFree, SentItsOwn, Recorded,
                    AlertMessage
<1>. QED  BY <1>3, <1>4, <1>5, <1>6, <1>7, <1>8, <1>9 DEF Next

LEMMA HistoryInit == Init => HistoryInv
<1>. SUFFICES ASSUME Init PROVE HistoryInv
  OBVIOUS
<1>1. Typed /\ Configured
  BY TypedInit DEF Init, Configured
<1>2. Finite
  BY FS_EmptySet DEF Init, Finite, EmptyStore, Holding
<1>3. Serial
  BY DEF Init, Serial, OneActive, Active, OwnState, Holds, KeyIsFree, SentItsOwn, Recorded
<1>. QED  BY <1>1, <1>2, <1>3 DEF HistoryInv

LEMMA HistoryNext == HistoryInv /\ [Next]_vars => HistoryInv'
<1>. SUFFICES ASSUME HistoryInv, [Next]_vars PROVE HistoryInv'
  OBVIOUS
<1>1. host' = host
  BY DEF Next, Wire, Evaluate, SaveOutage, Decide, Send, Record, Publish, PublishObject, OpenFile,
         WriteFile, PublishNothing, Crash, Edit, Tick, Rest, vars
<1>2. Typed' /\ Configured' /\ Finite'
  BY TypedNext, ConfiguredNext, FiniteNext DEF HistoryInv, Typed
<1>3. host'.serialized => Serial'
  BY <1>1, SerialNext DEF HistoryInv
<1>. QED  BY <1>2, <1>3 DEF HistoryInv

\* The limited read leaves an alert out only for as many that opened no earlier.
LEMMA HistoryLimit ==
    ASSUME NEW r \in Runs, IsFiniteSet(held(r).alerts), NEW lookback,
           NEW some \in recent_alerts(r, lookback), NEW d \in held(r).alerts, d \notin some,
           clock_again(r) - lookback <= d.window.start, d.window.start <= clock_again(r)
    PROVE  Cardinality({a \in some : d.window.start <= a.window.start}) >= MaxRecent
<1>. DEFINE found == alerts_with_window_start_between(held(r).alerts, clock_again(r) - lookback,
                                                      clock_again(r))
<1>1. /\ some \in SUBSET found
      /\ Cardinality(some) = Min({MaxRecent, Cardinality(found)})
      /\ \A a \in some, b \in found \ some : b.window.start <= a.window.start
  BY DEF recent_alerts
<1>2. d \in found \ some
  BY DEF alerts_with_window_start_between
<1>3. IsFiniteSet(found)
  BY FS_Subset DEF alerts_with_window_start_between
<1>. HIDE DEF found
<1>4. Cardinality(found) \in Nat /\ Cardinality(some) # Cardinality(found)
  BY <1>1, <1>2, <1>3, FS_Subset, FS_CardinalityType
<1>5. Min({MaxRecent, Cardinality(found)}) \in {MaxRecent, Cardinality(found)}
  <2>. DEFINE both == {MaxRecent, Cardinality(found)}
  <2>1. both \in SUBSET Int /\ both # {}
    BY <1>4, BoundsAssumption
  <2>2. IsFiniteSet(both)
    <3>1. IsFiniteSet({MaxRecent}) /\ both = {MaxRecent} \cup {Cardinality(found)}
      BY FS_Singleton
    <3>. QED  BY <3>1, FS_AddElement
  <2>. HIDE DEF both
  <2>3. Min(both) \in both
    BY <2>1, <2>2, MinIsTaken
  <2>. QED  BY <2>3 DEF both
<1>6. Cardinality(some) = MaxRecent
  BY <1>1, <1>4, <1>5
<1>. DEFINE later == {a \in some : d.window.start <= a.window.start}
<1>7. later = some
  BY <1>1, <1>2
<1>. HIDE DEF later
<1>8. Cardinality(later) = MaxRecent
  BY <1>6, <1>7
<1>9. Cardinality(later) >= MaxRecent
  BY <1>8, BoundsAssumption
<1>. QED  BY <1>9 DEF later

\* Where invocations do not overlap, no published history leaves out an alert
\* on record within the lookback but for MAX_RECENT_ALERTS that opened no
\* earlier, for every number of invocations and wherever they die.
THEOREM HistoryLeavesNoneOut == Spec => HistoryIsComplete
<1>. DEFINE LeftOut(r) ==
       \A d \in Recorded \ document'.recent : \A config \in loads[r] :
          (/\ clock_again(r) - config.dedup_lookback_hours <= d.window.start
           /\ d.window.start <= clock_again(r))
          => Cardinality({a \in document'.recent : d.window.start <= a.window.start}) >= MaxRecent
            Complete == \A r \in Runs : Publishes(r) /\ host.serialized => LeftOut(r)
<1>1. HistoryInv /\ [Next]_vars => [Complete]_vars
  <2>. SUFFICES ASSUME HistoryInv, Next, NEW r \in Runs, Publishes(r), host.serialized,
                       NEW d \in Recorded \ document'.recent, NEW config \in loads[r],
                       clock_again(r) - config.dedup_lookback_hours <= d.window.start,
                       d.window.start <= clock_again(r)
                PROVE  Cardinality({a \in document'.recent : d.window.start <= a.window.start})
                         >= MaxRecent
    OBVIOUS
  <2>1. /\ Typed /\ Configured /\ Finite /\ OneActive /\ OwnState /\ Recorded \subseteq store.alerts
        /\ host \in Host
    BY HostsAssumption DEF HistoryInv, Serial, Typed, TypeOK
  <2>2. document' \in snapshots(r)
    <3>1. PICK x \in Runs : PublishObject(x) \/ OpenFile(x) \/ WriteFile(x)
      BY DEF Publishes, Next, Wire, Evaluate, SaveOutage, Decide, Send, Record, Publish,
             PublishNothing, Crash, Edit, Tick, Rest, vars
    <3>2. x = r
      BY <2>1, <3>1 DEF OneActive, Active, Ended, Publishes, PublishObject, OpenFile, WriteFile
    <3>. QED  BY <3>1, <3>2 DEF PublishObject, OpenFile, WriteFile, Publishes, Torn
  <2>3. PICK other \in load(r) : \E some \in recent_alerts(r, other.dedup_lookback_hours) :
               document' = build_snapshot(now[r], seen[r], message[r], some)
    BY <2>2 DEF snapshots
  <2>4. other = config
    BY <2>1, <2>3, Load
  <2>5. PICK some \in recent_alerts(r, config.dedup_lookback_hours) :
               document' = build_snapshot(now[r], seen[r], message[r], some)
    BY <2>3, <2>4
  <2>6. document'.recent = some
    BY <2>5 DEF build_snapshot
  <2>7. d \in held(r).alerts /\ IsFiniteSet(held(r).alerts)
    BY <2>1, HeldIsStore DEF Publishes, Holds, Finite
  <2>. QED  BY <2>5, <2>6, <2>7, HistoryLimit
<1>. QED  BY <1>1, HistoryInit, HistoryNext, PTL DEF Spec, HistoryIsComplete

=============================================================================
