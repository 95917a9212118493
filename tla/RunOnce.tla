------------------------------- MODULE RunOnce -------------------------------
(***************************************************************************)
(* One cycle from its entry point to the public page, on the host it runs  *)
(* on: the Lambda function over the table and Parameter Store, or the      *)
(* command line over one local file.  The page is what a resident would    *)
(* see by loading it now.                                                  *)
(***************************************************************************)
EXTENDS Scraper, Dedup, Config, StatusPage, FiniteSets

CONSTANTS
    Runs,         \* invocations
    Hosts,        \* where and how they run, see Host
    Parameters,   \* contents of Parameter Store an operator may leave
    StaticConfig, \* the configuration the command line runs with
    Pages,        \* SENAMHI pages a cycle may fetch
    Forecasts,    \* forecasts it may fetch, as long as any forecast_hours
    MaxRecent,    \* MAX_RECENT_ALERTS
    MaxEdits,     \* bound: edits of the configuration
    MaxCrashes,   \* bound: invocations that die
    MaxClock      \* bound: ticks

Host == [deployment : {"cloud", "local"},
         serialized : BOOLEAN,   \* no two invocations overlap
         bucket : BOOLEAN,       \* the environment names a snapshot bucket
         path : BOOLEAN,         \* the environment names a snapshot file
         runtime : BOOLEAN]      \* the environment names an agent runtime

Stage == {"idle", "wired", "outage", "decide", "send", "record", "publish",
          "writing", "done", "failed", "crashed"}
Ended == {"done", "failed", "crashed"}

\* The configurations an invocation may run under.
Configs == {StaticConfig} \cup {AlertConfig(p) : p \in {q \in Parameters : parses(q)}}

ASSUME HostsAssumption == Hosts \subseteq Host
ASSUME StaticAssumption ==
    /\ StaticConfig.forecast_hours \in Nat \ {0}
    /\ StaticConfig.dedup_lookback_hours \in Nat \ {0}
ASSUME PagesAssumption ==
    \A page \in Pages : page.rows \in Seq([cells : {"whole", "short", "garbled"}, marked : BOOLEAN,
                                          warning : [level : WarningLevel, title : Title,
                                                     window : TimeWindow]])
ASSUME ForecastsAssumption ==
    \A samples \in Forecasts, config \in Configs :
        samples \in Seq([mm : Nat, pct : 0..100]) /\ config.forecast_hours <= Len(samples)
ASSUME BoundsAssumption ==
    /\ MaxRecent \in Nat \ {0}
    /\ {MaxEdits, MaxCrashes, MaxClock} \subseteq Nat

VARIABLES
    \* the world
    host,
    clock,
    params,     \* Parameter Store
    edits,
    store,      \* the alerts and the outage the table or the file holds
    document,   \* what the page's address serves
    delivered,  \* alerts the notifier accepted
    \* locals of each invocation
    stage,
    loads,      \* the configurations its loads returned
    now,        \* the cycle clock
    seen,       \* the assessment, and the level an undamaged read would give
    message,    \* the alert message it composed and sent, if any
    view        \* the local repository's state, read once

locals == <<stage, loads, now, seen, message, view>>
vars == <<host, clock, params, edits, store, document, delivered, locals>>

Holding(alerts, outage) == [alerts |-> alerts, outage |-> outage]

EmptyStore == Holding({}, {})

NoAssessment == [level |-> "none", window |-> Window(0, 1), down |-> {}, announced |-> "none"]

Active == {r \in Runs : stage[r] \notin {"idle"} \cup Ended}

-----------------------------------------------------------------------------
Init ==
    /\ host \in Hosts
    /\ clock = 0
    /\ params \in {p \in Parameters : parses(p)}
    /\ edits = 0
    /\ store = EmptyStore
    /\ document \in {Absent, Foreign}
    /\ delivered = {}
    /\ stage = [r \in Runs |-> "idle"]
    /\ loads = [r \in Runs |-> {}]
    /\ now = [r \in Runs |-> 0]
    /\ seen = [r \in Runs |-> NoAssessment]
    /\ message = [r \in Runs |-> {}]
    /\ view = [r \in Runs |-> EmptyStore]

-----------------------------------------------------------------------------
\* Mutant: every load reads the parameters again.
load_again(r) ==
    IF host.deployment = "local" THEN {StaticConfig}
    ELSE IF parses(params) THEN {AlertConfig(params)}
    ELSE {}

\* What a load returns, or nothing when it raises: the first configuration
\* read is kept for the whole invocation.
load(r) ==
    IF host.deployment = "local" THEN {StaticConfig}
    ELSE IF loads[r] # {} THEN loads[r]
    ELSE IF parses(params) THEN {AlertConfig(params)}
    ELSE {}

\* The agent's composer cannot be built without a runtime to invoke.
can_wire(configs) ==
    /\ configs # {}
    /\ \A config \in configs : config.composer = "agent" => host.runtime

\* The entry point builds its dependencies, and fails before it has done
\* anything when it cannot.
Wire(r) ==
    /\ stage[r] = "idle"
    /\ host.serialized => Active = {}
    /\ loads' = [loads EXCEPT ![r] = load(r)]
    /\ now' = [now EXCEPT ![r] = clock]
    /\ stage' = [stage EXCEPT ![r] = IF can_wire(load(r)) THEN "wired" ELSE "failed"]
    /\ UNCHANGED <<host, clock, params, edits, store, document, delivered, seen, message, view>>

\* What the cycle at time t assesses of the page and forecast it fetched, and
\* what it would have, had the page come undamaged.
assessments(config, t) ==
    {LET warnings == parse_warnings_page(fetch.page, t)
         forecast == IF fetch.answers
                     THEN Available(SubSeq(fetch.samples, 1, config.forecast_hours))
                     ELSE Unavailable
         verdict == evaluate(warnings, forecast, config.thresholds, t)
         undamaged == evaluate(Available(announced(fetch.page, t)), forecast, config.thresholds, t)
     IN  [level |-> verdict.level, window |-> verdict.window,
          down |-> {s \in Source : \/ s = "senamhi" /\ warnings = Unavailable
                                   \/ s = "open_meteo" /\ ~fetch.answers},
          announced |-> undamaged.level] :
        fetch \in [page : Pages, samples : Forecasts, answers : BOOLEAN]}

\* The cycle reads its clock, loads its configuration again, reads both
\* sources, and evaluates; the local file is read here, once and for all.
\* The command line took its time before it built anything.
Evaluate(r) ==
    /\ stage[r] = "wired"
    /\ now' = IF host.deployment = "cloud" THEN [now EXCEPT ![r] = clock] ELSE now
    /\ loads' = [loads EXCEPT ![r] = @ \cup load(r)]
    /\ \/ /\ load(r) = {}
          /\ stage' = [stage EXCEPT ![r] = "failed"]
          /\ UNCHANGED <<seen, view>>
       \/ \E config \in load(r) :
             /\ \E assessment \in assessments(config, now'[r]) :
                   seen' = [seen EXCEPT ![r] = assessment]
             /\ view' = IF host.deployment = "local" THEN [view EXCEPT ![r] = store] ELSE view
             /\ stage' = [stage EXCEPT ![r] = "outage"]
    /\ UNCHANGED <<host, clock, params, edits, store, document, delivered, message>>

-----------------------------------------------------------------------------
\* The repository, as the invocation sees it: the table itself, or the state
\* read from the file when it was first asked.
held(r) == IF host.deployment = "cloud" THEN store ELSE view[r]

\* Mutant: the file is rewritten with the change alone.
forgetful_mutation(r, change) ==
    IF host.deployment = "cloud" THEN change
    ELSE Holding(change.alerts \ view[r].alerts, change.outage)

\* The table changes by one item; the whole file is replaced by the state the
\* invocation holds, with the change.
mutated(r, change) == change

mutate(r, change) ==
    /\ store' = mutated(r, change)
    /\ view' = IF host.deployment = "local" THEN [view EXCEPT ![r] = mutated(r, change)] ELSE view

\* The outage item is written when the sources down are not those it names.
SaveOutage(r) ==
    /\ stage[r] = "outage"
    /\ IF held(r).outage # seen[r].down
       THEN mutate(r, Holding(held(r).alerts, seen[r].down))
       ELSE UNCHANGED <<store, view>>
    /\ stage' = [stage EXCEPT ![r] = "decide"]
    /\ UNCHANGED <<host, clock, params, edits, document, delivered, loads, now, seen, message>>

Decide(r) ==
    /\ stage[r] = "decide"
    /\ \E config \in load(r) :
          LET send == /\ decide(seen[r], now[r], config.dedup_lookback_hours, held(r).alerts)
                      /\ seen[r].down # Source
          IN  stage' = [stage EXCEPT ![r] = IF send THEN "send" ELSE "publish"]
    /\ UNCHANGED <<host, clock, params, edits, store, document, delivered, loads, now, seen, message, view>>

AlertMessage(r) ==
    [run |-> r, level |-> seen[r].level, window |-> seen[r].window, at |-> now[r]]

\* Mutant: a delivery the notifier refused goes on as if it had been made.
SendSwallowing(r) ==
    /\ stage[r] = "send"
    /\ delivered' \in {delivered, delivered \cup {AlertMessage(r)}}
    /\ message' = [message EXCEPT ![r] = {AlertMessage(r)}]
    /\ stage' = [stage EXCEPT ![r] = "record"]
    /\ UNCHANGED <<host, clock, params, edits, store, document, loads, now, seen, view>>

Send(r) ==
    /\ stage[r] = "send"
    /\ delivered' = delivered \cup {AlertMessage(r)}
    /\ message' = [message EXCEPT ![r] = {AlertMessage(r)}]
    /\ stage' = [stage EXCEPT ![r] = "record"]
    /\ UNCHANGED <<host, clock, params, edits, store, document, loads, now, seen, view>>

\* The table holds one alert per window start and level, the file a list.
kept(r) ==
    IF host.deployment = "local" THEN held(r).alerts
    ELSE {a \in store.alerts : ~ /\ a.window.start = seen[r].window.start
                                 /\ a.level = seen[r].level}

Record(r) ==
    /\ stage[r] = "record"
    /\ mutate(r, Holding(kept(r) \cup {AlertMessage(r)}, held(r).outage))
    /\ stage' = [stage EXCEPT ![r] = "publish"]
    /\ UNCHANGED <<host, clock, params, edits, document, delivered, loads, now, seen, message>>

-----------------------------------------------------------------------------
\* The clock is read again in the cloud; the command line's stands still.
clock_again(r) == IF host.deployment = "cloud" THEN clock ELSE now[r]

\* The alerts whose window opened within the lookback, the latest ones to
\* open; the table's order tells no tie.
recent_alerts(r, lookback) ==
    LET found == alerts_with_window_start_between(held(r).alerts, clock_again(r) - lookback,
                                                  clock_again(r))
    IN  {some \in SUBSET found :
            /\ Cardinality(some) = Min({MaxRecent, Cardinality(found)})
            /\ \A a \in some, b \in found \ some : b.window.start <= a.window.start}

snapshots(r) ==
    UNION {{build_snapshot(now[r], seen[r], message[r], some) :
               some \in recent_alerts(r, config.dedup_lookback_hours)} : config \in load(r)}

select_snapshot_publisher ==
    IF host.bucket THEN "s3" ELSE IF host.path THEN "file" ELSE "none"

\* One object replaces the other, whole.
PublishObject(r) ==
    /\ stage[r] = "publish"
    /\ select_snapshot_publisher = "s3"
    /\ document' \in snapshots(r)
    /\ stage' = [stage EXCEPT ![r] = "done"]
    /\ UNCHANGED <<host, clock, params, edits, store, delivered, loads, now, seen, message, view>>

\* The file is cut before it is written.
OpenFile(r) ==
    /\ stage[r] = "publish"
    /\ select_snapshot_publisher = "file"
    /\ document' = Torn
    /\ stage' = [stage EXCEPT ![r] = "writing"]
    /\ UNCHANGED <<host, clock, params, edits, store, delivered, loads, now, seen, message, view>>

WriteFile(r) ==
    /\ stage[r] = "writing"
    /\ document' \in snapshots(r)
    /\ stage' = [stage EXCEPT ![r] = "done"]
    /\ UNCHANGED <<host, clock, params, edits, store, delivered, loads, now, seen, message, view>>

\* No publisher, or a failure of any part of the publication: reported, and
\* the cycle ends as if nothing had happened.
PublishNothing(r) ==
    /\ stage[r] \in {"publish", "writing"}
    /\ stage' = [stage EXCEPT ![r] = "done"]
    /\ UNCHANGED <<host, clock, params, edits, store, document, delivered, loads, now, seen, message, view>>

-----------------------------------------------------------------------------
Crash(r) ==
    /\ r \in Active
    /\ Cardinality({x \in Runs : stage[x] = "crashed"}) < MaxCrashes
    /\ stage' = [stage EXCEPT ![r] = "crashed"]
    /\ UNCHANGED <<host, clock, params, edits, store, document, delivered, loads, now, seen, message, view>>

\* An operator edits the configuration, well or badly.
Edit ==
    /\ host.deployment = "cloud"
    /\ edits < MaxEdits
    /\ params' \in Parameters \ {params}
    /\ edits' = edits + 1
    /\ UNCHANGED <<host, clock, store, document, delivered, locals>>

Tick ==
    /\ clock < MaxClock
    /\ \A r \in Active :
          /\ now[r] = clock
          /\ stage[r] = "wired" => host.deployment = "local"
    /\ clock' = clock + 1
    /\ UNCHANGED <<host, params, edits, store, document, delivered, locals>>

\* The instance is finite: it may rest once every invocation has ended.
Rest ==
    /\ \A r \in Runs : stage[r] \in Ended
    /\ clock = MaxClock
    /\ UNCHANGED vars

Publish(r) == PublishObject(r) \/ OpenFile(r) \/ WriteFile(r) \/ PublishNothing(r)

Next ==
    \/ \E r \in Runs :
          \/ Wire(r) \/ Evaluate(r) \/ SaveOutage(r) \/ Decide(r)
          \/ Send(r) \/ Record(r) \/ Publish(r) \/ Crash(r)
    \/ Edit
    \/ Tick
    \/ Rest

Spec == Init /\ [][Next]_vars

-----------------------------------------------------------------------------
Alert == [run : Runs, level : Level \ {"none"}, window : TimeWindow, at : Nat]

Assessment == [level : Level, window : TimeWindow, down : SUBSET Source, announced : Level]

Store == [alerts : SUBSET Alert, outage : SUBSET Source]

Document ==
    [form : {"document"}, evaluated_at : Nat, level : Level, available : SUBSET Source,
     degraded : BOOLEAN, alert : SUBSET Alert, recent : SUBSET Alert]

TypeOK ==
    /\ host \in Hosts
    /\ clock \in Nat
    /\ params \in Parameters
    /\ edits \in Nat
    /\ store \in Store
    /\ document \in {Absent, Torn, Foreign} \cup Document
    /\ delivered \subseteq Alert
    /\ stage \in [Runs -> Stage]
    /\ \A r \in Runs : \A config \in loads[r] :
          /\ config.forecast_hours \in Nat \ {0}
          /\ config.dedup_lookback_hours \in Nat \ {0}
    /\ now \in [Runs -> Nat]
    /\ seen \in [Runs -> Assessment]
    /\ message \in [Runs -> SUBSET Alert]
    /\ view \in [Runs -> Store]

\* What a resident who loads the page now may be shown.
Shown == {renderPage(fetched, document, clock) : fetched \in BOOLEAN}

\* Nobody is told "sin riesgo" without reserve unless a cycle of the last
\* hours read both sources and found no risk in them, nor would have found
\* any had every row the SENAMHI page still marks in force been readable: not
\* after a damaged page, an outage, a file cut short, a crash or a page left
\* behind (parse_warnings_page, build_snapshot, resolveViewState, page.ts).
AllClearIsEarned ==
    \A page \in Shown : IsAllClear(page) =>
        \E r \in Runs :
            /\ stage[r] = "done"
            /\ now[r] = document.evaluated_at
            /\ clock - now[r] <= StaleAfter
            /\ seen[r].down = {}
            /\ seen[r].level = "none"
            /\ seen[r].announced = "none"

\* Every alert the page shows, as this cycle's or in its history, is one the
\* notifier accepted, in whatever order invocations overlap, die or rewrite
\* each other's file (run_once, record_alert, _mutate).
ShownWasSent ==
    \A page \in Shown : page.messages \cup page.history \subseteq delivered

\* One invocation runs under one configuration that was whole when read,
\* whatever an operator edits in between (SsmConfigRepository.load).
OneConfiguration ==
    \A r \in Runs :
        /\ \A config, other \in loads[r] : config = other
        /\ stage[r] \notin {"idle", "failed", "crashed"} => loads[r] # {}

\* The alerts whose cycle put them on record.
Recorded == {d \in delivered : stage[d.run] \in {"publish", "writing", "done"}}

Publishes(r) ==
    /\ stage[r] \in {"publish", "writing"}
    /\ document' # document
    /\ document'.form = "document"

\* Where invocations do not overlap, a history that is published leaves out no
\* alert on record whose window opened within the lookback, unless enough
\* that opened no earlier take its place: no later write of the file and no
\* outage in between loses one (_mutate, _recent_alerts).
HistoryIsComplete ==
    [][\A r \in Runs : Publishes(r) /\ host.serialized =>
          \A d \in Recorded \ document'.recent : \A config \in loads[r] :
              (/\ clock_again(r) - config.dedup_lookback_hours <= d.window.start
               /\ d.window.start <= clock_again(r))
              => Cardinality({a \in document'.recent : d.window.start <= a.window.start})
                    >= MaxRecent]_vars

\* The page says no alert is active only when no alert of the level it shows,
\* sent by then, is still running.
NoActiveAlertIsTrue ==
    \A page \in Shown : page.claim = "none_active" =>
        ~ \E d \in delivered :
            /\ d.at <= document.evaluated_at
            /\ d.level = page.heading.level
            /\ d.window.start <= clock /\ clock < d.window.end

=============================================================================
