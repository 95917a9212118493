----------------------------- MODULE AlertCycle -----------------------------
(***************************************************************************)
(* The alert cycle as the cloud runs it: invocations of one use case, each *)
(* an ordered chain of reads, sends and writes against one table, started  *)
(* by a schedule that delivers at least once and retries a failed one.     *)
(*                                                                         *)
(* The clock counts ticks long enough that one invocation, cut off by its  *)
(* timeout, sees at most one of them pass.                                 *)
(***************************************************************************)
EXTENDS Dedup, Outage, Verdicts, FiniteSets

CONSTANTS
    Runs,             \* invocations: schedule firings, retries, manual runs
    Skies,            \* what a cycle may find: sources down, level assessed
    Avisos,           \* windows of the official warnings, and covers of several
    ForecastHours,    \* forecast_hours
    Lookback,         \* dedup_lookback_hours
    Retention,        \* ALERT_RETENTION_DAYS
    AgentSelected,    \* the agent-backed composer is configured
    Serialized,       \* no two invocations overlap: every firing is delivered
                      \* once, or one execution is reserved for the function
    CrashStages,      \* the stages at which an invocation may die
    MaxCrashes,       \* bound: invocations that die
    MaxClock          \* bound: ticks

Stage == {"idle", "outage", "notify", "decide", "compose", "send", "record",
          "done", "crashed"}
Ended == {"done", "crashed"}

ASSUME TimesAssumption ==
    /\ {ForecastHours, Lookback, Retention} \subseteq Nat \ {0}
    /\ Lookback < Retention
    /\ MaxClock \in Nat
    /\ MaxCrashes \in Nat
ASSUME SkiesAssumption == Skies \subseteq Sky
ASSUME AvisosAssumption == Avisos \subseteq TimeWindow
ASSUME ModesAssumption ==
    /\ AgentSelected \in BOOLEAN
    /\ Serialized \in BOOLEAN
    /\ CrashStages \subseteq Stage \ ({"idle"} \cup Ended)

-----------------------------------------------------------------------------
VARIABLES
    \* the world and the table
    clock,
    alerts,      \* alert items, one per window start and level
    outage,      \* the single active-outage item
    \* locals of each invocation
    stage,
    now,         \* the cycle clock, read once
    seen,        \* the assessment and the sources it found down
    plan,        \* the outage decision still being carried out
    composer,    \* who wrote the message
    \* what the outside has observed
    delivered,   \* community alerts the notifier accepted
    believed     \* the sources the operator's notices say are down

locals == <<stage, now, seen, plan, composer>>
vars == <<clock, alerts, outage, locals, delivered, believed>>

Composer == {"template", "agent"}

Assessment == [down : SUBSET Source, level : Level, window : TimeWindow]

NoAssessment == [down |-> {}, level |-> "none", window |-> Window(0, 1)]
NoPlan == OutageDecision(<<>>, NoOutage, FALSE)

\* The alert a run sends, which the run's identity stands for the text of.
Alert == [run : Runs, level : Level, window : TimeWindow, at : Nat, composer : Composer]

Active == {r \in Runs : stage[r] \notin {"idle"} \cup Ended}
Crashed == {r \in Runs : stage[r] = "crashed"}

-----------------------------------------------------------------------------
Init ==
    /\ clock = 0
    /\ alerts = {}
    /\ outage = NoOutage
    /\ stage = [r \in Runs |-> "idle"]
    /\ now = [r \in Runs |-> 0]
    /\ seen = [r \in Runs |-> NoAssessment]
    /\ plan = [r \in Runs |-> NoPlan]
    /\ composer = [r \in Runs |-> "template"]
    /\ delivered = {}
    /\ believed = {}

\* An invocation starts: it reads its clock, then both sources.
Begin(r) ==
    /\ stage[r] = "idle"
    /\ Serialized => Active = {}
    /\ \E sky \in Skies : \E w \in Windows(sky, Avisos, ForecastHours, clock) :
          seen' = [seen EXCEPT ![r] = [down |-> sky.down, level |-> sky.level, window |-> w]]
    /\ now' = [now EXCEPT ![r] = clock]
    /\ stage' = [stage EXCEPT ![r] = "outage"]
    /\ UNCHANGED <<clock, alerts, outage, plan, composer, delivered, believed>>

\* Mutant: the record is saved before its notices go out.
ReadAndSaveOutage(r) ==
    /\ stage[r] = "outage"
    /\ plan' = [plan EXCEPT ![r] = evaluate_outage(seen[r].down, outage, now[r])]
    /\ outage' = plan'[r].next
    /\ stage' = [stage EXCEPT ![r] = "notify"]
    /\ UNCHANGED <<clock, alerts, now, seen, composer, delivered, believed>>

ReadOutage(r) ==
    /\ stage[r] = "outage"
    /\ plan' = [plan EXCEPT ![r] = evaluate_outage(seen[r].down, outage, now[r])]
    /\ stage' = [stage EXCEPT ![r] = "notify"]
    /\ UNCHANGED <<clock, alerts, outage, now, seen, composer, delivered, believed>>

SendNotice(r) ==
    /\ stage[r] = "notify"
    /\ plan[r].notices # <<>>
    /\ believed' = Believe(believed, Head(plan[r].notices))
    /\ plan' = [plan EXCEPT ![r].notices = Tail(@)]
    /\ UNCHANGED <<clock, alerts, outage, stage, now, seen, composer, delivered>>

\* The record is saved, or cleared, only after its notices went out.
WriteOutage(r) ==
    /\ stage[r] = "notify"
    /\ plan[r].notices = <<>>
    /\ outage' = IF plan[r].changed THEN plan[r].next ELSE outage
    /\ stage' = [stage EXCEPT ![r] = "decide"]
    /\ UNCHANGED <<clock, alerts, now, seen, plan, composer, delivered, believed>>

\* Mutant: one source down is enough to hold the alert back.
suppress_when_degraded(r) == seen[r].down # {}

suppress_community_alert(r) == seen[r].down = Source

Decide(r) ==
    /\ stage[r] = "decide"
    /\ LET send == /\ decide(seen[r], now[r], Lookback, alerts)
                   /\ ~suppress_community_alert(r)
       IN  stage' = [stage EXCEPT ![r] = IF send THEN "compose" ELSE "done"]
    /\ UNCHANGED <<clock, alerts, outage, now, seen, plan, composer, delivered, believed>>

\* The agent's draft may be refused or never arrive: the template's text is
\* then sent, and the message says so.
Compose(r) ==
    /\ stage[r] = "compose"
    /\ \E by \in IF AgentSelected THEN Composer ELSE {"template"} :
          composer' = [composer EXCEPT ![r] = by]
    /\ stage' = [stage EXCEPT ![r] = "send"]
    /\ UNCHANGED <<clock, alerts, outage, now, seen, plan, delivered, believed>>

Message(r) ==
    [run |-> r, level |-> seen[r].level, window |-> seen[r].window,
     at |-> now[r], composer |-> composer[r]]

\* Mutant: a send that failed is swallowed and recorded all the same.
SendAlertSwallowing(r) ==
    /\ stage[r] = "send"
    /\ delivered' \in {delivered, delivered \cup {Message(r)}}
    /\ stage' = [stage EXCEPT ![r] = "record"]
    /\ UNCHANGED <<clock, alerts, outage, now, seen, plan, composer, believed>>

SendAlert(r) ==
    /\ stage[r] = "send"
    /\ delivered' = delivered \cup {Message(r)}
    /\ stage' = [stage EXCEPT ![r] = "record"]
    /\ UNCHANGED <<clock, alerts, outage, now, seen, plan, composer, believed>>

\* Mutant: the record names the composer configured, not the one that wrote.
SelectedComposerRecord(r) ==
    [Message(r) EXCEPT !.composer = IF AgentSelected THEN "agent" ELSE "template"]

AlertRecord(r) ==
    [run |-> r, level |-> seen[r].level, window |-> seen[r].window,
     at |-> now[r], composer |-> composer[r]]

\* Mutant: the key is the window start alone.
window_start_sk(a) == <<a.window.start>>

\* Two items are one when window start and level agree.
alert_item_sk(a) == <<a.window.start, a.level>>

Put(items, a) == {b \in items : alert_item_sk(b) # alert_item_sk(a)} \cup {a}

RecordAlert(r) ==
    /\ stage[r] = "record"
    /\ alerts' = Put(alerts, AlertRecord(r))
    /\ stage' = [stage EXCEPT ![r] = "done"]
    /\ UNCHANGED <<clock, outage, now, seen, plan, composer, delivered, believed>>

\* An exception nobody catches, or the timeout: the next step never happens.
Crash(r) ==
    /\ stage[r] \in CrashStages
    /\ Cardinality(Crashed) < MaxCrashes
    /\ stage' = [stage EXCEPT ![r] = "crashed"]
    /\ UNCHANGED <<clock, alerts, outage, now, seen, plan, composer, delivered, believed>>

\* Mutant: the retention counts from the window, not from the send.
expires_after_start(a) == a.window.start + Retention

expires_at(a) == a.at + Retention

\* The table drops an alert item some time after it expires; the outage item
\* carries no expiry.
Expire(a) ==
    /\ a \in alerts
    /\ expires_at(a) <= clock
    /\ alerts' = alerts \ {a}
    /\ UNCHANGED <<clock, outage, locals, delivered, believed>>

Tick ==
    /\ clock < MaxClock
    /\ \A r \in Active : now[r] = clock
    /\ clock' = clock + 1
    /\ UNCHANGED <<alerts, outage, locals, delivered, believed>>

\* The instance is finite: it may rest once every invocation has ended.
Rest ==
    /\ \A r \in Runs : stage[r] \in Ended
    /\ clock = MaxClock
    /\ UNCHANGED vars

Step(r) ==
    \/ ReadOutage(r) \/ SendNotice(r) \/ WriteOutage(r)
    \/ Decide(r) \/ Compose(r) \/ SendAlert(r) \/ RecordAlert(r)

Next ==
    \/ \E r \in Runs : Begin(r) \/ Step(r) \/ Crash(r)
    \/ \E a \in alerts : Expire(a)
    \/ Tick
    \/ Rest

Spec == Init /\ [][Next]_vars

\* The schedule keeps starting invocations, and one that is running goes on
\* to its end unless it dies.
FairSpec ==
    /\ Spec
    /\ \A r \in Runs : WF_vars(Begin(r)) /\ WF_vars(Step(r))

-----------------------------------------------------------------------------
TypeOK ==
    /\ clock \in Nat
    /\ alerts \subseteq Alert
    /\ outage \in ActiveOutage
    /\ stage \in [Runs -> Stage]
    /\ now \in [Runs -> Nat]
    /\ seen \in [Runs -> Assessment]
    /\ plan \in [Runs -> [notices : Seq(OperatorNotice), next : ActiveOutage, changed : BOOLEAN]]
    /\ composer \in [Runs -> Composer]
    /\ delivered \subseteq Alert
    /\ believed \subseteq Source

-----------------------------------------------------------------------------
\* Nothing is recorded before it was delivered, and the record says what was
\* sent: level, window, time and who wrote it.  A record without a delivery
\* would silence every later cycle for the window (run_alert_cycle.execute).
RecordedWasDelivered == alerts \subseteq delivered

\* An elevated cycle that ends without sending leaves a community that was
\* already told at least that much for a period overlapping its own: dedup
\* never swallows the first alert nor an escalation (policies.decide).
SilenceIsJustified ==
    \A r \in Runs :
        /\ stage[r] = "done"
        /\ seen[r].level # "none"
        /\ \A d \in delivered : d.run # r
        => \E d \in delivered :
              /\ overlaps(d.window, seen[r].window)
              /\ ~is_escalation(d.level, seen[r].level)

Settled(d) == stage[d.run] = "done"

\* Every alert whose cycle finished recording keeps an item of its own until
\* it expires: no later send overwrites it (record_alert, alert_item_sk).
AuditTrailKept ==
    \A d \in delivered : Settled(d) => d \in alerts \/ expires_at(d) <= clock

\* The period of alert d still runs when the cycle of alert a reads its clock.
StillRuns(d, a) == overlaps(d.window, a.window) /\ a.at < d.window.end

\* The community is alerted again for a period still running only at a higher
\* level, however invocations die or retry, as long as the earlier alert's
\* window is no longer than the lookback (policies.decide, should_send).
NoRepeatAlert ==
    [][\A a \in delivered' \ delivered : \A d \in delivered :
          Settled(d) /\ Duration(d.window) <= Lookback /\ StillRuns(d, a)
             => is_escalation(d.level, a.level)]_vars

\* What the specification of the store promises without that bound: an alert
\* recorded for an overlapping window is found, and not sent again.
OverlapIsNeverRepeated ==
    [][\A a \in delivered' \ delivered : \A d \in delivered :
          Settled(d) /\ StillRuns(d, a) => is_escalation(d.level, a.level)]_vars

LeavesNotify(r) == stage[r] = "notify" /\ stage'[r] = "decide"

\* When a cycle has dealt with the outage record, an operator who read every
\* notice so far believes exactly the sources this cycle found down to be
\* down (evaluate_outage, and the order notices then state are written in).
OperatorIsInformed ==
    [][\A r \in Runs : LeavesNotify(r) => believed = seen[r].down]_vars

\* At least, no source this cycle found down is one the operator was never
\* told of, or was last told had recovered.
DownSourceIsAnnounced ==
    [][\A r \in Runs : LeavesNotify(r) => seen[r].down \subseteq believed]_vars

\* An outage that widens or narrows is still the same outage: the record
\* keeps the time it opened until it is cleared (evaluate_outage).
OpenedAtKept ==
    [][outage # NoOutage /\ outage' # NoOutage => outage'.opened = outage.opened]_vars

\* While every cycle finds the storm, it is announced, whichever invocations
\* die and wherever (send before record; the schedule and its retries).
StormIsAnnounced ==
    (\E r \in Runs : seen[r].level = "imminent")
        ~> (\E d \in delivered : d.level = "imminent")

\* While every cycle finds a source down, the operator comes to know it,
\* whichever invocations die (notices before the outage record).
OutageIsAnnounced ==
    \A s \in Source : (\E r \in Runs : s \in seen[r].down) ~> s \in believed

=============================================================================
