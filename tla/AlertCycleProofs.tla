-------------------------- MODULE AlertCycleProofs --------------------------
(***************************************************************************)
(* Theorems about the alert cycle for every set of invocations, of official *)
(* warnings and of horizons.                                                *)
(***************************************************************************)
EXTENDS AlertCycleLedger, SequenceTheorems, TLAPS

-----------------------------------------------------------------------------
(* What the helpers return. *)

\* Every window a verdict can carry is a window (Windows).
LEMMA WindowsTyped ==
    ASSUME NEW sky \in Sky, NEW t \in Nat
    PROVE  Windows(sky, Avisos, ForecastHours, t) \subseteq TimeWindow
<1>1. InForce(Avisos, t) \subseteq TimeWindow
  BY AvisosAssumption DEF InForce
<1>2. QuietWindow(t) \in TimeWindow
  BY HorizonsAssumption DEF QuietWindow, Window, TimeWindow
<1>3. ForecastWindow(sky.level, ForecastHours, t) \in TimeWindow
  BY HorizonsAssumption, TimesAssumption
  DEF ForecastWindow, evaluated_horizon, Earlier, Window, TimeWindow
<1>4. ASSUME NEW v \in TimeWindow, NEW w \in TimeWindow
      PROVE  Cover(v, w) \in TimeWindow
  BY DEF Cover, Earlier, Later, Window, TimeWindow
<1>5. sky.level \in {"none", "imminent", "prepare"}
  BY DEF Sky, Level
<1>. QED  BY <1>1, <1>2, <1>3, <1>4, <1>5 DEF Windows

\* The outage rule's notices and next record are well formed
\* (evaluate_outage).
LEMMA EvaluateOutageTyped ==
    ASSUME NEW down \in SUBSET Source, NEW active \in ActiveOutage, NEW t \in Nat
    PROVE  evaluate_outage(down, active, t)
              \in [notices : Seq(OperatorNotice), next : ActiveOutage, changed : BOOLEAN]
<1>1. /\ active.sources \in SUBSET Source
      /\ active.opened \in Nat
      /\ active.notified \in BOOLEAN
  <2>1. CASE active = NoOutage
    BY <2>1 DEF NoOutage, OutageRecord
  <2>2. CASE active \in [sources : (SUBSET Source) \ {{}}, opened : Nat, notified : BOOLEAN]
    BY <2>2
  <2>. QED  BY <2>1, <2>2 DEF ActiveOutage
<1>2. ASSUME NEW s \in SUBSET Source
      PROVE  Unavailable(s) \in OperatorNotice /\ Recovered(s) \in OperatorNotice
  BY DEF Unavailable, Recovered, OperatorNotice, NoticeKind
<1>3. ASSUME NEW s \in SUBSET Source
      PROVE  recovery_notices(s) \in Seq(OperatorNotice)
  BY <1>2 DEF recovery_notices
<1>4. Opened(active, t) \in Nat
  BY <1>1 DEF Opened
<1>5. ASSUME active.sources # {}
      PROVE  [active EXCEPT !.notified = TRUE] \in ActiveOutage
  BY <1>1, <1>5 DEF ActiveOutage, NoOutage, OutageRecord
<1>6. ASSUME down # {}
      PROVE  OutageRecord(down, Opened(active, t), TRUE) \in ActiveOutage
  BY <1>4, <1>6 DEF ActiveOutage, OutageRecord
<1>7. NoOutage \in ActiveOutage
  BY DEF ActiveOutage
<1>12. ASSUME NEW notices \in Seq(OperatorNotice), NEW next \in ActiveOutage,
              NEW changed \in BOOLEAN
       PROVE  OutageDecision(notices, next, changed)
                 \in [notices : Seq(OperatorNotice), next : ActiveOutage, changed : BOOLEAN]
  BY DEF OutageDecision
<1>. DEFINE recovered == active.sources \ down
            newly_down == down \ active.sources
            announced == IF recovered = {} THEN newly_down ELSE down
<1>8. CASE down = {}
  <2>1. evaluate_outage(down, active, t)
           = OutageDecision(recovery_notices(recovered), NoOutage, active # NoOutage)
    BY <1>8 DEF evaluate_outage
  <2>. QED  BY <2>1, <1>1, <1>3, <1>7 DEF OutageDecision
<1>9. CASE down # {} /\ recovered = {} /\ newly_down = {} /\ active.notified
  <2>1. evaluate_outage(down, active, t) = OutageDecision(<<>>, active, FALSE)
    BY <1>9 DEF evaluate_outage
  <2>. QED  BY <2>1 DEF OutageDecision
<1>10. CASE down # {} /\ recovered = {} /\ newly_down = {} /\ ~active.notified
  <2>1. evaluate_outage(down, active, t)
           = OutageDecision(<<Unavailable(down)>>, [active EXCEPT !.notified = TRUE], TRUE)
    BY <1>10 DEF evaluate_outage
  <2>2. active.sources # {}
    BY <1>10
  <2>. QED  BY <2>1, <2>2, <1>2, <1>5 DEF OutageDecision
<1>11. CASE down # {} /\ ~(recovered = {} /\ newly_down = {})
  <2>1. evaluate_outage(down, active, t)
           = OutageDecision(Append(recovery_notices(recovered), Unavailable(announced)),
                            OutageRecord(down, Opened(active, t), TRUE), TRUE)
    BY <1>11 DEF evaluate_outage
  <2>2. announced \in SUBSET Source /\ recovered \in SUBSET Source
    BY <1>1
  <2>3. Append(recovery_notices(recovered), Unavailable(announced)) \in Seq(OperatorNotice)
    BY <2>2, <1>2, <1>3
  <2>4. OutageRecord(down, Opened(active, t), TRUE) \in ActiveOutage
    BY <1>6, <1>11
  <2>. DEFINE notices == Append(recovery_notices(recovered), Unavailable(announced))
              next == OutageRecord(down, Opened(active, t), TRUE)
  <2>5. notices \in Seq(OperatorNotice) /\ next \in ActiveOutage /\ TRUE \in BOOLEAN
    BY <2>3, <2>4
  <2>6. evaluate_outage(down, active, t) = OutageDecision(notices, next, TRUE)
    BY <2>1
  <2>. HIDE DEF notices, next
  <2>. QED  BY <2>5, <2>6 DEF OutageDecision
<1>. QED  BY <1>8, <1>9, <1>10, <1>11

-----------------------------------------------------------------------------
(* Types. *)

Plan == [notices : Seq(OperatorNotice), next : ActiveOutage, changed : BOOLEAN]

LEMMA MessageTyped ==
    ASSUME TypeOK, NEW r \in Runs
    PROVE  Message(r) \in Alert
<1>1. seen[r] \in Assessment /\ now[r] \in Nat /\ composer[r] \in Composer
  BY DEF TypeOK
<1>. QED  BY <1>1 DEF Message, Alert, Assessment

LEMMA TypeInit == Init => TypeOK
<1>. SUFFICES ASSUME Init PROVE TypeOK
  OBVIOUS
<1>1. NoOutage \in ActiveOutage
  BY DEF ActiveOutage
<1>2. NoPlan \in Plan
  BY <1>1 DEF NoPlan, Plan, OutageDecision
<1>3. NoAssessment \in Assessment
  BY DEF NoAssessment, Assessment, Level, Window, TimeWindow
<1>4. "idle" \in Stage /\ "template" \in Composer
  BY DEF Stage, Composer
<1>. QED  BY <1>1, <1>2, <1>3, <1>4 DEF Init, TypeOK, Plan

LEMMA TypeStep == TypeOK /\ [Next]_vars => TypeOK'
<1>. SUFFICES ASSUME TypeOK, [Next]_vars PROVE TypeOK'
  OBVIOUS
<1>. USE DEF TypeOK
<1>1. ASSUME NEW r \in Runs, Begin(r) PROVE TypeOK'
  <2>1. PICK sky \in Skies : \E w \in Windows(sky, Avisos, ForecastHours, clock) :
           seen' = [seen EXCEPT ![r] = [down |-> sky.down, level |-> sky.level, window |-> w]]
    BY <1>1 DEF Begin
  <2>2. PICK w \in Windows(sky, Avisos, ForecastHours, clock) :
           seen' = [seen EXCEPT ![r] = [down |-> sky.down, level |-> sky.level, window |-> w]]
    BY <2>1
  <2>3. sky \in Sky
    BY SkiesAssumption
  <2>4. [down |-> sky.down, level |-> sky.level, window |-> w] \in Assessment
    BY <2>3, WindowsTyped DEF Sky, Assessment
  <2>5. seen' \in [Runs -> Assessment]
    BY <2>2, <2>4
  <2>6. "outage" \in Stage
    BY DEF Stage
  <2>. QED  BY <1>1, <2>5, <2>6 DEF Begin
<1>2. ASSUME NEW r \in Runs, ReadOutage(r) PROVE TypeOK'
  <2>1. seen[r].down \in SUBSET Source
    BY DEF Assessment
  <2>2. evaluate_outage(seen[r].down, outage, now[r]) \in Plan
    BY <2>1, EvaluateOutageTyped DEF Plan
  <2>3. "notify" \in Stage
    BY DEF Stage
  <2>4. plan' \in [Runs -> Plan]
    BY <1>2, <2>2 DEF ReadOutage, Plan
  <2>. QED  BY <1>2, <2>3, <2>4 DEF ReadOutage, Plan
<1>3. ASSUME NEW r \in Runs, SendNotice(r) PROVE TypeOK'
  <2>1. /\ plan[r] \in Plan
        /\ plan[r].notices \in Seq(OperatorNotice)
        /\ plan[r].notices # <<>>
    BY <1>3 DEF SendNotice, Plan
  <2>2. /\ Head(plan[r].notices) \in OperatorNotice
        /\ Tail(plan[r].notices) \in Seq(OperatorNotice)
    BY <2>1
  <2>3. ASSUME NEW notice \in OperatorNotice PROVE Believe(believed, notice) \subseteq Source
    BY DEF Believe, OperatorNotice
  <2>4. [plan[r] EXCEPT !.notices = Tail(@)] \in Plan
    BY <2>1, <2>2 DEF Plan
  <2>5. plan' \in [Runs -> Plan]
    BY <1>3, <2>4 DEF SendNotice, Plan
  <2>6. believed' \subseteq Source
    BY <1>3, <2>2, <2>3 DEF SendNotice
  <2>. QED  BY <1>3, <2>5, <2>6 DEF SendNotice, Plan
<1>4. ASSUME NEW r \in Runs, WriteOutage(r) PROVE TypeOK'
  <2>1. plan[r].next \in ActiveOutage
    OBVIOUS
  <2>2. "decide" \in Stage
    BY DEF Stage
  <2>. QED  BY <1>4, <2>1, <2>2 DEF WriteOutage
<1>5. ASSUME NEW r \in Runs, Decide(r) PROVE TypeOK'
  <2>1. "compose" \in Stage /\ "done" \in Stage
    BY DEF Stage
  <2>. QED  BY <1>5, <2>1 DEF Decide
<1>6. ASSUME NEW r \in Runs, Compose(r) PROVE TypeOK'
  <2>1. "send" \in Stage /\ "template" \in Composer
    BY DEF Stage, Composer
  <2>. QED  BY <1>6, <2>1 DEF Compose
<1>7. ASSUME NEW r \in Runs, SendAlert(r) PROVE TypeOK'
  <2>1. Message(r) \in Alert /\ "record" \in Stage
    BY MessageTyped DEF Stage
  <2>. QED  BY <1>7, <2>1 DEF SendAlert
<1>8. ASSUME NEW r \in Runs, RecordAlert(r) PROVE TypeOK'
  <2>1. AlertRecord(r) \in Alert /\ "done" \in Stage
    BY MessageTyped DEF Stage, AlertRecord, Message
  <2>. QED  BY <1>8, <2>1 DEF RecordAlert, Put
<1>9. ASSUME NEW r \in Runs, Crash(r) PROVE TypeOK'
  <2>1. "crashed" \in Stage
    BY DEF Stage
  <2>. QED  BY <1>9, <2>1 DEF Crash
<1>10. ASSUME NEW a \in alerts, Expire(a) PROVE TypeOK'
  BY <1>10 DEF Expire, locals
<1>11. CASE Tick
  BY <1>11 DEF Tick, locals
<1>12. CASE UNCHANGED vars
  BY <1>12 DEF vars, locals
<1>. QED
  BY <1>1, <1>2, <1>3, <1>4, <1>5, <1>6, <1>7, <1>8, <1>9, <1>10, <1>11, <1>12
  DEF Next, Step, Rest

\* Every state's variables have their types, whatever the interleaving.
THEOREM TypeCorrect == Spec => []TypeOK
  BY TypeInit, TypeStep, PTL DEF Spec

-----------------------------------------------------------------------------
(* Delivery: what is recorded was sent, and silence has a reason.          *)
(*                                                                         *)
(* Neither property is inductive: a record is written from a message that  *)
(* went out one step earlier, and a cycle decides against alert items      *)
(* before it ends.  DeliveryInv carries both across the steps between.     *)

\* A run about to record has sent exactly the message it will record.
SentBeforeRecord == \A r \in Runs : stage[r] = "record" => Message(r) \in delivered

\* A verdict without any source is calm, so suppressing it silences nobody.
DualOutageIsCalm == \A r \in Runs : seen[r].down = Source => seen[r].level = "none"

DeliveryInv ==
    TypeOK /\ RecordedWasDelivered /\ SentBeforeRecord /\ DualOutageIsCalm /\ SilenceIsJustified

\* The policy declines an elevated verdict only over an alert for an
\* overlapping period that was no lower (decide, should_send).
LEMMA DeclinedOverAlert ==
    ASSUME NEW items, NEW x, NEW t, NEW lookback,
           x.level # "none", ~decide(x, t, lookback, items)
    PROVE  \E a \in items : overlaps(a.window, x.window) /\ ~is_escalation(a.level, x.level)
  BY DEF decide, should_send, Overlapping, alerts_with_window_start_between

LEMMA DeliveryInit == Init => DeliveryInv
<1>. SUFFICES ASSUME Init PROVE DeliveryInv
  OBVIOUS
<1>1. TypeOK
  BY TypeInit
<1>2. \A r \in Runs : stage[r] = "idle" /\ seen[r] = NoAssessment
  BY DEF Init
<1>3. DualOutageIsCalm
  BY <1>2 DEF DualOutageIsCalm, NoAssessment
<1>. QED
  BY <1>1, <1>2, <1>3
  DEF Init, DeliveryInv, RecordedWasDelivered, SentBeforeRecord, SilenceIsJustified

LEMMA DeliveryStep == DeliveryInv /\ [Next]_vars => DeliveryInv'
<1>. SUFFICES ASSUME DeliveryInv, [Next]_vars PROVE DeliveryInv'
  OBVIOUS
<1>. USE DEF DeliveryInv
<1>1. TypeOK'
  BY TypeStep
<1>2. ASSUME NEW r \in Runs, Begin(r) PROVE DeliveryInv'
  <2>1. PICK sky \in Skies : seen'[r].down = sky.down /\ seen'[r].level = sky.level
    BY <1>2 DEF Begin, TypeOK
  <2>2. sky.down = Source => sky.level = "none"
    BY SkiesAssumption DEF Sky
  <2>3. \A q \in Runs \ {r} : seen'[q] = seen[q] /\ stage'[q] = stage[q] /\ now'[q] = now[q]
    BY <1>2 DEF Begin, TypeOK
  <2>4. stage'[r] = "outage"
    BY <1>2 DEF Begin, TypeOK
  <2>5. UNCHANGED <<alerts, delivered, composer>>
    BY <1>2 DEF Begin
  <2>6. RecordedWasDelivered' /\ DualOutageIsCalm'
    BY <2>1, <2>2, <2>3, <2>5 DEF RecordedWasDelivered, DualOutageIsCalm
  <2>7. SentBeforeRecord'
    BY <2>3, <2>4, <2>5 DEF SentBeforeRecord, Message
  <2>8. SilenceIsJustified'
    BY <2>3, <2>4, <2>5 DEF SilenceIsJustified
  <2>. QED  BY <1>1, <2>6, <2>7, <2>8
<1>3. ASSUME NEW r \in Runs, ReadOutage(r) \/ SendNotice(r) \/ WriteOutage(r) \/ Compose(r) \/ Crash(r)
      PROVE  DeliveryInv'
  <2>1. UNCHANGED <<alerts, delivered, seen, now>>
    BY <1>3 DEF ReadOutage, SendNotice, WriteOutage, Compose, Crash
  <2>2. \A q \in Runs : stage'[q] \in {"record", "done"} => stage'[q] = stage[q] /\ composer'[q] = composer[q]
    BY <1>3 DEF ReadOutage, SendNotice, WriteOutage, Compose, Crash, TypeOK
  <2>. QED
    BY <1>1, <2>1, <2>2
    DEF RecordedWasDelivered, SentBeforeRecord, DualOutageIsCalm, SilenceIsJustified, Message
<1>4. ASSUME NEW r \in Runs, Decide(r) PROVE DeliveryInv'
  <2>1. UNCHANGED <<alerts, delivered, seen, now, composer>>
    BY <1>4 DEF Decide
  <2>2. /\ stage'[r] \in {"compose", "done"}
        /\ \A q \in Runs \ {r} : stage'[q] = stage[q]
    BY <1>4 DEF Decide, TypeOK
  <2>3. SentBeforeRecord'
    BY <2>1, <2>2 DEF SentBeforeRecord, Message
  <2>4. ASSUME stage'[r] = "done", seen[r].level # "none"
        PROVE  \E d \in delivered : /\ overlaps(d.window, seen[r].window)
                                    /\ ~is_escalation(d.level, seen[r].level)
    <3>1. ~suppress_community_alert(r)
      BY <2>4 DEF DualOutageIsCalm, suppress_community_alert
    <3>2. ~decide(seen[r], now[r], Lookback, alerts)
      BY <1>4, <2>4, <3>1 DEF Decide, TypeOK
    <3>. QED  BY <2>4, <3>2, DeclinedOverAlert DEF RecordedWasDelivered
  <2>5. SilenceIsJustified'
    BY <2>1, <2>2, <2>4 DEF SilenceIsJustified
  <2>. QED  BY <1>1, <2>1, <2>3, <2>5 DEF RecordedWasDelivered, DualOutageIsCalm
<1>5. ASSUME NEW r \in Runs, SendAlert(r) PROVE DeliveryInv'
  <2>1. UNCHANGED <<alerts, seen, now, composer>> /\ delivered' = delivered \cup {Message(r)}
    BY <1>5 DEF SendAlert
  <2>2. /\ stage'[r] = "record"
        /\ \A q \in Runs \ {r} : stage'[q] = stage[q]
    BY <1>5 DEF SendAlert, TypeOK
  <2>3. \A q \in Runs : Message(q)' = Message(q)
    BY <2>1 DEF Message
  <2>4. SentBeforeRecord'
    BY <2>1, <2>2, <2>3 DEF SentBeforeRecord
  <2>5. SilenceIsJustified'
    BY <2>1, <2>2 DEF SilenceIsJustified
  <2>. QED  BY <1>1, <2>1, <2>4, <2>5 DEF RecordedWasDelivered, DualOutageIsCalm
<1>6. ASSUME NEW r \in Runs, RecordAlert(r) PROVE DeliveryInv'
  <2>1. UNCHANGED <<delivered, seen, now, composer>>
    BY <1>6 DEF RecordAlert
  <2>2. /\ stage[r] = "record" /\ stage'[r] = "done"
        /\ \A q \in Runs \ {r} : stage'[q] = stage[q]
    BY <1>6 DEF RecordAlert, TypeOK
  <2>3. Message(r) \in delivered /\ Message(r).run = r /\ AlertRecord(r) = Message(r)
    BY <2>2 DEF SentBeforeRecord, Message, AlertRecord
  <2>4. RecordedWasDelivered'
    BY <1>6, <2>1, <2>3 DEF RecordAlert, Put, RecordedWasDelivered
  <2>5. SentBeforeRecord'
    BY <2>1, <2>2 DEF SentBeforeRecord, Message
  <2>6. SilenceIsJustified'
    BY <2>1, <2>2, <2>3 DEF SilenceIsJustified
  <2>. QED  BY <1>1, <2>1, <2>4, <2>5, <2>6 DEF DualOutageIsCalm
<1>7. ASSUME NEW a \in alerts, Expire(a) PROVE DeliveryInv'
  BY <1>1, <1>7
  DEF Expire, locals, RecordedWasDelivered, SentBeforeRecord, DualOutageIsCalm,
      SilenceIsJustified, Message
<1>8. CASE Tick
  BY <1>1, <1>8
  DEF Tick, locals, RecordedWasDelivered, SentBeforeRecord, DualOutageIsCalm,
      SilenceIsJustified, Message
<1>9. CASE UNCHANGED vars
  BY <1>1, <1>9
  DEF vars, locals, RecordedWasDelivered, SentBeforeRecord, DualOutageIsCalm,
      SilenceIsJustified, Message
<1>. QED
  BY <1>2, <1>3, <1>4, <1>5, <1>6, <1>7, <1>8, <1>9 DEF Next, Step, Rest

\* Nothing is recorded before it was delivered, and the record says what was
\* sent, however invocations overlap, die and retry.
THEOREM RecordsAreTrue == Spec => []RecordedWasDelivered
<1>1. DeliveryInv => RecordedWasDelivered
  BY DEF DeliveryInv
<1>. QED  BY <1>1, DeliveryInit, DeliveryStep, PTL DEF Spec

\* An elevated cycle that ends without sending leaves a community already
\* told at least that much for an overlapping period, however invocations
\* overlap, die and retry.
THEOREM NoAlertIsSwallowed == Spec => []SilenceIsJustified
<1>1. DeliveryInv => SilenceIsJustified
  BY DEF DeliveryInv
<1>. QED  BY <1>1, DeliveryInit, DeliveryStep, PTL DEF Spec

-----------------------------------------------------------------------------
(* The audit trail and the absence of repetition, when no two invocations  *)
(* overlap.                                                                *)
(*                                                                         *)
(* Between the decision and the record an invocation relies on what it     *)
(* read: that no item has its key, and that every alert still running that *)
(* the lookback reaches is a lower one.  With one invocation at a time     *)
(* nobody writes in between; LedgerInv says so step by step.               *)

Deciding == {"compose", "send", "record"}

\* No two invocations are under way.
OneAtATime == \A q, r \in Active : q = r

\* A run under way read its clock at most one tick ago (its timeout).
ClockKept == \A r \in Active : clock <= now[r] + 1

\* No alert has the key a decided run is about to write.
KeyIsFree ==
    \A r \in Runs : stage[r] \in Deciding =>
        \A a \in alerts : ~(a.window.start = seen[r].window.start /\ a.level = seen[r].level)

\* A run delivers its own message only, and not before it has sent.
OwnMessage ==
    \A d \in delivered :
        /\ stage[d.run] \in {"record", "done", "crashed"}
        /\ stage[d.run] = "record" => d = Message(d.run)
        /\ d.window.start <= d.at

\* A verdict's window has begun when its cycle reads the clock.
WindowBegun == \A r \in Runs : stage[r] # "idle" => seen[r].window.start <= now[r]

\* A decided run raises the level over every settled alert still running.
NothingToRepeat ==
    \A r \in Runs : stage[r] \in {"compose", "send"} =>
        \A d \in delivered :
            /\ Settled(d)
            /\ Duration(d.window) <= Lookback
            /\ StillRuns(d, Message(r))
            => is_escalation(d.level, seen[r].level)

LedgerInv ==
    /\ DeliveryInv /\ OneAtATime /\ ClockKept /\ KeyIsFree /\ OwnMessage
    /\ WindowBegun /\ AuditTrailKept /\ NothingToRepeat

\* Every window a verdict can carry has begun by the cycle clock (Windows).
LEMMA WindowsBegin ==
    ASSUME NEW sky \in Sky, NEW t \in Nat, NEW w \in Windows(sky, Avisos, ForecastHours, t)
    PROVE  w.start <= t
<1>1. \A v \in InForce(Avisos, t) : v \in TimeWindow /\ v.start <= t
  BY AvisosAssumption DEF InForce
<1>2. QuietWindow(t).start = t
  BY DEF QuietWindow, Window
<1>3. ForecastWindow(sky.level, ForecastHours, t).start = t
  BY DEF ForecastWindow, Window
<1>4. ASSUME NEW v \in TimeWindow, v.start <= t, NEW f, f.start = t
      PROVE  Cover(v, f).start <= t
  BY <1>4 DEF Cover, Earlier, Window, TimeWindow
<1>5. sky.level \in {"none", "imminent", "prepare"}
  BY DEF Sky, Level
<1>6. CASE sky.level = "none"
  BY <1>6, <1>2 DEF Windows
<1>7. CASE sky.level = "imminent"
  BY <1>7, <1>1, <1>3 DEF Windows
<1>8. CASE sky.level = "prepare"
  BY <1>8, <1>1, <1>3, <1>4 DEF Windows
<1>. QED  BY <1>5, <1>6, <1>7, <1>8

\* The read the policy makes finds every alert for an overlapping window that
\* is still running and no longer than the lookback, and every alert with the
\* window's own start (AlertPolicy.decide).
LEMMA ReadReaches ==
    ASSUME NEW x \in Assessment, NEW t \in Nat, NEW items \in SUBSET Alert,
           NEW a \in items, decide(x, t, Lookback, items), overlaps(a.window, x.window),
           \/ Duration(a.window) <= Lookback /\ t < a.window.end
           \/ a.window.start = x.window.start
    PROVE  is_escalation(a.level, x.level)
<1>1. /\ x.window.start \in Int /\ x.window.end \in Int /\ x.window.start < x.window.end
      /\ a.window.start \in Int /\ a.window.end \in Int /\ a.window.start < a.window.end
  BY DEF Assessment, Alert, TimeWindow
<1>2. Lookback \in Nat
  BY TimesAssumption
<1>3. EarliestStart(x, t, Lookback) <= a.window.start
  BY <1>1, <1>2 DEF EarliestStart, Earlier, Duration
<1>4. a.window.start <= x.window.end
  BY <1>1 DEF overlaps
<1>5. a \in alerts_with_window_start_between(items, EarliestStart(x, t, Lookback), x.window.end)
  BY <1>3, <1>4 DEF alerts_with_window_start_between
<1>. QED  BY <1>5 DEF decide, should_send, Overlapping

LEMMA NoSelfEscalation == \A l \in Level : ~is_escalation(l, l)
  BY DEF is_escalation, Level, LEVEL_RANK

LEMMA ActiveShrinks ==
    ASSUME OneAtATime, ClockKept, UNCHANGED <<clock, now>>, Active' \subseteq Active
    PROVE  OneAtATime' /\ ClockKept'
  BY DEF OneAtATime, ClockKept

LEMMA DecidingIsActive ==
    \A r \in Runs : stage[r] \in {"outage", "notify", "decide"} \cup Deciding => r \in Active
  BY DEF Deciding, Active, Ended

LEMMA LedgerInit == Init => LedgerInv
<1>. SUFFICES ASSUME Init PROVE LedgerInv
  OBVIOUS
<1>1. DeliveryInv
  BY DeliveryInit
<1>2. \A r \in Runs : stage[r] = "idle"
  BY DEF Init
<1>3. delivered = {} /\ alerts = {}
  BY DEF Init
<1>. QED
  BY <1>1, <1>2, <1>3
  DEF LedgerInv, OneAtATime, ClockKept, KeyIsFree, OwnMessage, WindowBegun, AuditTrailKept,
      NothingToRepeat, Active, Deciding

LEMMA LedgerStep ==
    ASSUME Serialized, LedgerInv, [Next]_vars
    PROVE  LedgerInv'
<1>. USE DEF LedgerInv
<1>1. DeliveryInv' /\ TypeOK /\ TypeOK'
  BY DeliveryStep DEF DeliveryInv
<1>2. \A d \in delivered : d \in Alert /\ d.run \in Runs
  BY <1>1 DEF TypeOK, Alert
<1>3. \A q, r \in Runs : stage[q] \in Deciding /\ r \in Active => q = r
  BY DecidingIsActive DEF OneAtATime
<1>4. ASSUME NEW r \in Runs, Begin(r) PROVE LedgerInv'
  <2>1. /\ Active = {} /\ stage[r] = "idle" /\ stage'[r] = "outage" /\ now'[r] = clock
        /\ UNCHANGED <<clock, alerts, delivered, composer>>
    BY <1>1, <1>4 DEF Begin, TypeOK
  <2>2. \A q \in Runs \ {r} : stage'[q] = stage[q] /\ seen'[q] = seen[q] /\ now'[q] = now[q]
    BY <1>1, <1>4 DEF Begin, TypeOK
  <2>3. \A q \in Runs : stage'[q] \notin Deciding
    BY <2>1, <2>2, DecidingIsActive DEF Deciding
  <2>4. Active' = {r}
    BY <2>1, <2>2 DEF Active, Ended
  <2>5. OneAtATime' /\ ClockKept'
    BY <1>1, <2>1, <2>4 DEF OneAtATime, ClockKept, TypeOK
  <2>6. KeyIsFree' /\ NothingToRepeat'
    BY <2>3 DEF KeyIsFree, NothingToRepeat, Deciding
  <2>7. \A d \in delivered : d.run # r
    BY <2>1 DEF OwnMessage
  <2>8. OwnMessage'
    BY <1>2, <2>1, <2>2, <2>3, <2>7 DEF OwnMessage, Deciding
  <2>9. AuditTrailKept'
    BY <1>2, <2>1, <2>2, <2>7 DEF AuditTrailKept, Settled, expires_at
  <2>10. WindowBegun'
    <3>1. PICK sky \in Skies : \E w \in Windows(sky, Avisos, ForecastHours, clock) :
             seen'[r].window = w
      BY <1>1, <1>4 DEF Begin, TypeOK
    <3>2. sky \in Sky /\ clock \in Nat
      BY <1>1, SkiesAssumption DEF TypeOK
    <3>3. seen'[r].window.start <= clock
      BY <3>1, <3>2, WindowsBegin
    <3>. QED  BY <2>1, <2>2, <3>3 DEF WindowBegun
  <2>. QED  BY <1>1, <2>5, <2>6, <2>8, <2>9, <2>10
<1>5. ASSUME NEW r \in Runs, ReadOutage(r) \/ SendNotice(r) \/ WriteOutage(r) PROVE LedgerInv'
  <2>1. /\ stage[r] \in {"outage", "notify"} /\ stage'[r] \in {"notify", "decide"}
        /\ UNCHANGED <<clock, alerts, delivered, composer, seen, now>>
    BY <1>1, <1>5 DEF ReadOutage, SendNotice, WriteOutage, TypeOK
  <2>2. \A q \in Runs \ {r} : stage'[q] = stage[q]
    BY <1>1, <1>5 DEF ReadOutage, SendNotice, WriteOutage, TypeOK
  <2>3. Active' \subseteq Active
    BY <2>1, <2>2 DEF Active, Ended
  <2>4. OneAtATime' /\ ClockKept'
    BY <2>1, <2>3, ActiveShrinks
  <2>5. \A d \in delivered : d.run # r
    BY <2>1 DEF OwnMessage
  <2>6. KeyIsFree'
    BY <2>1, <2>2 DEF KeyIsFree, Deciding
  <2>7. NothingToRepeat'
    BY <1>2, <2>1, <2>2, <2>5 DEF NothingToRepeat, Settled, StillRuns, Message
  <2>8. OwnMessage'
    BY <1>2, <2>1, <2>2, <2>5 DEF OwnMessage, Message
  <2>9. WindowBegun' /\ AuditTrailKept'
    BY <1>2, <2>1, <2>2, <2>5 DEF WindowBegun, AuditTrailKept, Settled, expires_at
  <2>. QED  BY <1>1, <2>4, <2>6, <2>7, <2>8, <2>9
<1>6. ASSUME NEW r \in Runs, Decide(r) PROVE LedgerInv'
  <2>1. /\ stage[r] = "decide" /\ stage'[r] \in {"compose", "done"}
        /\ UNCHANGED <<clock, alerts, delivered, composer, seen, now>>
    BY <1>1, <1>6 DEF Decide, TypeOK
  <2>2. \A q \in Runs \ {r} : stage'[q] = stage[q]
    BY <1>1, <1>6 DEF Decide, TypeOK
  <2>3. r \in Active
    BY <2>1, DecidingIsActive
  <2>4. Active' \subseteq Active
    BY <2>1, <2>2 DEF Active, Ended
  <2>5. OneAtATime' /\ ClockKept'
    BY <2>1, <2>4, ActiveShrinks
  <2>6. \A d \in delivered : d.run # r
    BY <2>1 DEF OwnMessage
  <2>7. \A q \in Runs : stage'[q] \in Deciding => q = r /\ stage'[r] = "compose"
    BY <1>3, <2>1, <2>2, <2>3 DEF Deciding
  <2>8. stage'[r] = "compose" => decide(seen[r], now[r], Lookback, alerts)
    BY <1>1, <1>6 DEF Decide, TypeOK
  <2>9. /\ seen[r] \in Assessment /\ now[r] \in Nat /\ clock \in Nat
        /\ alerts \in SUBSET Alert /\ clock <= now[r] + 1
    BY <1>1, <2>3 DEF TypeOK, ClockKept
  <2>10. KeyIsFree'
    <3>. SUFFICES ASSUME stage'[r] = "compose", NEW a \in alerts,
                         a.window.start = seen[r].window.start, a.level = seen[r].level
                  PROVE  FALSE
      BY <2>1, <2>7 DEF KeyIsFree
    <3>1. /\ a.window \in TimeWindow /\ a.level \in Level
          /\ seen[r].window \in TimeWindow
      BY <2>9 DEF Alert, Assessment
    <3>2. overlaps(a.window, seen[r].window)
      BY <3>1 DEF overlaps, TimeWindow
    <3>3. is_escalation(a.level, seen[r].level)
      BY <2>8, <2>9, <3>2, ReadReaches
    <3>. QED  BY <3>1, <3>3, NoSelfEscalation
  <2>11. NothingToRepeat'
    <3>. SUFFICES ASSUME stage'[r] = "compose", NEW d \in delivered, Settled(d)',
                         Duration(d.window) <= Lookback, StillRuns(d, Message(r))
                  PROVE  is_escalation(d.level, seen[r].level)
      BY <2>1, <2>7 DEF NothingToRepeat, StillRuns, Message, Deciding
    <3>1. Settled(d)
      BY <1>2, <2>2, <2>6 DEF Settled
    <3>2. overlaps(d.window, seen[r].window) /\ now[r] < d.window.end
      BY DEF StillRuns, Message
    <3>3. d.window \in TimeWindow /\ d.at \in Nat /\ d.window.start <= d.at
      BY <1>2 DEF Alert, OwnMessage
    <3>4. ~(expires_at(d) <= clock)
      BY <2>9, <3>2, <3>3, TimesAssumption DEF expires_at, Duration, TimeWindow
    <3>5. d \in alerts
      BY <3>1, <3>4 DEF AuditTrailKept
    <3>. QED  BY <2>8, <2>9, <3>2, <3>5, ReadReaches
  <2>12. OwnMessage'
    BY <1>2, <2>1, <2>2, <2>6 DEF OwnMessage, Message
  <2>13. WindowBegun' /\ AuditTrailKept'
    BY <1>2, <2>1, <2>2, <2>6 DEF WindowBegun, AuditTrailKept, Settled, expires_at
  <2>. QED  BY <1>1, <2>5, <2>10, <2>11, <2>12, <2>13
<1>7. ASSUME NEW r \in Runs, Compose(r) PROVE LedgerInv'
  <2>1. /\ stage[r] = "compose" /\ stage'[r] = "send"
        /\ UNCHANGED <<clock, alerts, delivered, seen, now>>
    BY <1>1, <1>7 DEF Compose, TypeOK
  <2>2. \A q \in Runs \ {r} : stage'[q] = stage[q] /\ composer'[q] = composer[q]
    BY <1>1, <1>7 DEF Compose, TypeOK
  <2>3. Active' \subseteq Active
    BY <2>1, <2>2 DEF Active, Ended
  <2>4. OneAtATime' /\ ClockKept'
    BY <2>1, <2>3, ActiveShrinks
  <2>5. \A d \in delivered : d.run # r
    BY <2>1 DEF OwnMessage
  <2>6. KeyIsFree'
    BY <2>1, <2>2 DEF KeyIsFree, Deciding
  <2>7. NothingToRepeat'
    BY <1>2, <2>1, <2>2, <2>5 DEF NothingToRepeat, Settled, StillRuns, Message
  <2>8. OwnMessage'
    BY <1>2, <2>1, <2>2, <2>5 DEF OwnMessage, Message
  <2>9. WindowBegun' /\ AuditTrailKept'
    BY <1>2, <2>1, <2>2, <2>5 DEF WindowBegun, AuditTrailKept, Settled, expires_at
  <2>. QED  BY <1>1, <2>4, <2>6, <2>7, <2>8, <2>9
<1>8. ASSUME NEW r \in Runs, SendAlert(r) PROVE LedgerInv'
  <2>1. /\ stage[r] = "send" /\ stage'[r] = "record"
        /\ delivered' = delivered \cup {Message(r)}
        /\ UNCHANGED <<clock, alerts, composer, seen, now>>
    BY <1>1, <1>8 DEF SendAlert, TypeOK
  <2>2. \A q \in Runs \ {r} : stage'[q] = stage[q]
    BY <1>1, <1>8 DEF SendAlert, TypeOK
  <2>3. Active' \subseteq Active /\ r \in Active
    BY <2>1, <2>2 DEF Active, Ended
  <2>4. OneAtATime' /\ ClockKept'
    BY <2>1, <2>3, ActiveShrinks
  <2>5. \A d \in delivered : d.run # r
    BY <2>1 DEF OwnMessage
  <2>6. /\ Message(r).run = r /\ Message(r)' = Message(r)
        /\ Message(r).window = seen[r].window /\ Message(r).at = now[r]
    BY <2>1 DEF Message
  <2>7. KeyIsFree'
    BY <2>1, <2>2 DEF KeyIsFree, Deciding
  <2>8. NothingToRepeat'
    BY <1>3, <2>1, <2>2, <2>3 DEF NothingToRepeat, Deciding
  <2>9. seen[r].window.start <= now[r]
    BY <2>1 DEF WindowBegun
  <2>10. \A d \in delivered : stage'[d.run] = stage[d.run] /\ Message(d.run)' = Message(d.run)
    BY <1>2, <2>1, <2>2, <2>5 DEF Message
  <2>11. OwnMessage'
    BY <2>1, <2>6, <2>9, <2>10 DEF OwnMessage
  <2>12. WindowBegun'
    BY <2>1, <2>2 DEF WindowBegun
  <2>13. AuditTrailKept'
    BY <2>1, <2>6, <2>10 DEF AuditTrailKept, Settled, expires_at
  <2>. QED  BY <1>1, <2>4, <2>7, <2>8, <2>11, <2>12, <2>13
<1>9. ASSUME NEW r \in Runs, RecordAlert(r) PROVE LedgerInv'
  <2>1. /\ stage[r] = "record" /\ stage'[r] = "done"
        /\ alerts' = Put(alerts, AlertRecord(r))
        /\ UNCHANGED <<clock, delivered, composer, seen, now>>
    BY <1>1, <1>9 DEF RecordAlert, TypeOK
  <2>2. \A q \in Runs \ {r} : stage'[q] = stage[q]
    BY <1>1, <1>9 DEF RecordAlert, TypeOK
  <2>3. Active' \subseteq Active /\ r \in Active
    BY <2>1, <2>2 DEF Active, Ended
  <2>4. OneAtATime' /\ ClockKept'
    BY <2>1, <2>3, ActiveShrinks
  <2>5. \A q \in Runs : stage'[q] \notin Deciding
    BY <1>3, <2>1, <2>2, <2>3 DEF Deciding
  <2>6. KeyIsFree' /\ NothingToRepeat'
    BY <2>5 DEF KeyIsFree, NothingToRepeat, Deciding
  <2>7. OwnMessage'
    BY <1>2, <2>1, <2>2, <2>5 DEF OwnMessage, Deciding
  <2>8. WindowBegun'
    BY <2>1, <2>2 DEF WindowBegun
  <2>9. AlertRecord(r) = Message(r) /\ AlertRecord(r) \in alerts'
    BY <2>1 DEF AlertRecord, Message, Put
  <2>10. \A a \in alerts : alert_item_sk(a) # alert_item_sk(AlertRecord(r))
    BY <2>1 DEF KeyIsFree, Deciding, alert_item_sk, AlertRecord
  <2>11. alerts \subseteq alerts'
    BY <2>1, <2>10 DEF Put
  <2>12. ASSUME NEW d \in delivered, Settled(d)' PROVE d \in alerts' \/ expires_at(d) <= clock
    <3>1. CASE d.run = r
      BY <2>1, <2>9, <3>1 DEF OwnMessage
    <3>2. CASE d.run # r
      BY <1>2, <2>2, <2>11, <2>12, <3>2 DEF AuditTrailKept, Settled
    <3>. QED  BY <3>1, <3>2
  <2>13. AuditTrailKept'
    BY <2>1, <2>12 DEF AuditTrailKept, expires_at
  <2>. QED  BY <1>1, <2>4, <2>6, <2>7, <2>8, <2>13
<1>10. ASSUME NEW r \in Runs, Crash(r) PROVE LedgerInv'
  <2>1. /\ stage[r] \notin {"idle", "done", "crashed"} /\ stage'[r] = "crashed"
        /\ UNCHANGED <<clock, alerts, delivered, composer, seen, now>>
    BY <1>1, <1>10, ModesAssumption DEF Crash, TypeOK, Ended
  <2>2. \A q \in Runs \ {r} : stage'[q] = stage[q]
    BY <1>1, <1>10 DEF Crash, TypeOK
  <2>3. Active' \subseteq Active
    BY <2>1, <2>2 DEF Active, Ended
  <2>4. OneAtATime' /\ ClockKept'
    BY <2>1, <2>3, ActiveShrinks
  <2>5. KeyIsFree'
    BY <2>1, <2>2 DEF KeyIsFree, Deciding
  <2>6. NothingToRepeat'
    BY <1>2, <2>1, <2>2 DEF NothingToRepeat, Settled, StillRuns, Message
  <2>7. OwnMessage'
    BY <1>2, <2>1, <2>2 DEF OwnMessage, Message
  <2>8. WindowBegun' /\ AuditTrailKept'
    BY <1>2, <2>1, <2>2 DEF WindowBegun, AuditTrailKept, Settled, expires_at
  <2>. QED  BY <1>1, <2>4, <2>5, <2>6, <2>7, <2>8
<1>11. ASSUME NEW a \in alerts, Expire(a) PROVE LedgerInv'
  <2>1. /\ alerts' = alerts \ {a} /\ expires_at(a) <= clock
        /\ UNCHANGED <<clock, delivered, stage, composer, seen, now>>
    BY <1>11 DEF Expire, locals
  <2>2. AuditTrailKept'
    BY <2>1 DEF AuditTrailKept, Settled, expires_at
  <2>3. KeyIsFree'
    BY <2>1 DEF KeyIsFree
  <2>. QED
    BY <1>1, <2>1, <2>2, <2>3
    DEF OneAtATime, ClockKept, OwnMessage, WindowBegun, NothingToRepeat, Active, Settled,
        StillRuns, Message
<1>12. CASE Tick
  <2>1. /\ clock' = clock + 1 /\ \A r \in Active : now[r] = clock
        /\ UNCHANGED <<alerts, delivered, stage, composer, seen, now>>
    BY <1>12 DEF Tick, locals
  <2>2. ClockKept'
    BY <1>1, <2>1 DEF ClockKept, Active, TypeOK
  <2>3. AuditTrailKept'
    BY <1>1, <1>2, <2>1, TimesAssumption DEF AuditTrailKept, Settled, expires_at, TypeOK, Alert
  <2>. QED
    BY <1>1, <2>1, <2>2, <2>3
    DEF OneAtATime, KeyIsFree, OwnMessage, WindowBegun, NothingToRepeat, Active, Settled,
        StillRuns, Message
<1>13. CASE UNCHANGED vars
  BY <1>1, <1>13
  DEF vars, locals, OneAtATime, ClockKept, KeyIsFree, OwnMessage, WindowBegun, AuditTrailKept,
      NothingToRepeat, Active, Settled, StillRuns, Message, expires_at
<1>. QED
  BY <1>4, <1>5, <1>6, <1>7, <1>8, <1>9, <1>10, <1>11, <1>12, <1>13 DEF Next, Step, Rest

\* Every alert whose cycle finished recording keeps an item of its own until
\* it expires, when no two invocations overlap.
THEOREM AuditTrail ==
    ASSUME Serialized
    PROVE  Spec => []AuditTrailKept
<1>1. LedgerInv => AuditTrailKept
  BY DEF LedgerInv
<1>2. LedgerInv /\ [Next]_vars => LedgerInv'
  BY LedgerStep
<1>. QED  BY <1>1, <1>2, LedgerInit, PTL DEF Spec

\* The community is alerted again for a period still running only at a higher
\* level, when no two invocations overlap and the earlier alert's window is no
\* longer than the lookback, wherever invocations die.
THEOREM NeverRepeated ==
    ASSUME Serialized
    PROVE  Spec => NoRepeatAlert
<1>. DEFINE Raised ==
       \A a \in delivered' \ delivered : \A d \in delivered :
          Settled(d) /\ Duration(d.window) <= Lookback /\ StillRuns(d, a)
             => is_escalation(d.level, a.level)
<1>1. LedgerInv /\ [Next]_vars => [Raised]_vars
  <2>. SUFFICES ASSUME LedgerInv, Next PROVE Raised
    BY DEF Raised
  <2>1. CASE delivered' = delivered
    BY <2>1
  <2>2. ASSUME NEW r \in Runs, SendAlert(r) PROVE Raised
    <3>1. stage[r] = "send" /\ delivered' = delivered \cup {Message(r)}
      BY <2>2 DEF SendAlert
    <3>2. Message(r).level = seen[r].level
      BY DEF Message
    <3>. QED  BY <3>1, <3>2 DEF LedgerInv, NothingToRepeat
  <2>. QED
    BY <2>1, <2>2
    DEF Next, Step, Begin, ReadOutage, SendNotice, WriteOutage, Decide, Compose, RecordAlert,
        Crash, Expire, Tick, Rest, vars
<1>2. LedgerInv /\ [Next]_vars => LedgerInv'
  BY LedgerStep
<1>. QED  BY <1>1, <1>2, LedgerInit, PTL DEF Spec, NoRepeatAlert

-----------------------------------------------------------------------------
(* Run one at a time, the alert cycle implements the ledger: every step of  *)
(* the cycle is a step of the ledger or leaves it as it is.                 *)

\* A decided run has something to tell.
Elevated == \A r \in Runs : stage[r] \in Deciding => seen[r].level # "none"

\* An item is there only once the run that wrote it is done.
RecordedIsSettled == \A a \in alerts : Settled(a)

RefinementInv == LedgerInv /\ Elevated /\ RecordedIsSettled

LEMMA RefinementInit == Init => RefinementInv
<1>. SUFFICES ASSUME Init PROVE RefinementInv
  OBVIOUS
<1>1. LedgerInv
  BY LedgerInit
<1>2. Elevated /\ RecordedIsSettled
  BY DEF Init, Elevated, RecordedIsSettled, Deciding
<1>. QED  BY <1>1, <1>2 DEF RefinementInv

LEMMA RefinementStep ==
    ASSUME Serialized, RefinementInv, [Next]_vars
    PROVE  RefinementInv'
<1>1. LedgerInv /\ LedgerInv' /\ TypeOK
  BY LedgerStep DEF RefinementInv, LedgerInv, DeliveryInv
<1>2. Elevated /\ RecordedIsSettled
  BY DEF RefinementInv
<1>3. \A a \in alerts : a.run \in Runs /\ stage[a.run] = "done"
  BY <1>1, <1>2 DEF TypeOK, Alert, RecordedIsSettled, Settled
<1>4. ASSUME NEW r \in Runs, Begin(r) PROVE Elevated' /\ RecordedIsSettled'
  <2>1. /\ stage[r] = "idle" /\ stage'[r] = "outage" /\ alerts' = alerts
        /\ \A q \in Runs \ {r} : stage'[q] = stage[q] /\ seen'[q] = seen[q]
    BY <1>1, <1>4 DEF Begin, TypeOK
  <2>. QED  BY <1>2, <1>3, <2>1 DEF Elevated, RecordedIsSettled, Settled, Deciding
<1>5. ASSUME NEW r \in Runs,
             \/ ReadOutage(r) \/ SendNotice(r) \/ WriteOutage(r) \/ Compose(r) \/ SendAlert(r)
             \/ Crash(r)
      PROVE  Elevated' /\ RecordedIsSettled'
  <2>1. /\ stage[r] \notin {"idle", "done"} /\ alerts' = alerts /\ seen' = seen
        /\ stage'[r] \in Deciding => stage[r] \in Deciding
        /\ \A q \in Runs \ {r} : stage'[q] = stage[q]
    BY <1>1, <1>5, ModesAssumption
    DEF ReadOutage, SendNotice, WriteOutage, Compose, SendAlert, Crash, TypeOK, Deciding, Ended
  <2>. QED  BY <1>2, <1>3, <2>1 DEF Elevated, RecordedIsSettled, Settled
<1>6. ASSUME NEW r \in Runs, Decide(r) PROVE Elevated' /\ RecordedIsSettled'
  <2>1. /\ stage[r] = "decide" /\ alerts' = alerts /\ seen' = seen
        /\ stage'[r] \in Deciding => decide(seen[r], now[r], Lookback, alerts)
        /\ \A q \in Runs \ {r} : stage'[q] = stage[q]
    BY <1>1, <1>6 DEF Decide, TypeOK, Deciding
  <2>2. stage'[r] \in Deciding => seen[r].level # "none"
    BY <2>1 DEF decide, should_send
  <2>. QED  BY <1>2, <1>3, <2>1, <2>2 DEF Elevated, RecordedIsSettled, Settled
<1>7. ASSUME NEW r \in Runs, RecordAlert(r) PROVE Elevated' /\ RecordedIsSettled'
  <2>1. /\ stage[r] = "record" /\ stage'[r] = "done" /\ seen' = seen
        /\ alerts' \subseteq alerts \cup {AlertRecord(r)}
        /\ \A q \in Runs \ {r} : stage'[q] = stage[q]
    BY <1>1, <1>7 DEF RecordAlert, TypeOK, Put
  <2>2. AlertRecord(r).run = r
    BY DEF AlertRecord
  <2>. QED  BY <1>2, <1>3, <2>1, <2>2 DEF Elevated, RecordedIsSettled, Settled, Deciding
<1>8. ASSUME NEW a \in alerts, Expire(a) PROVE Elevated' /\ RecordedIsSettled'
  BY <1>2, <1>8 DEF Expire, locals, Elevated, RecordedIsSettled, Settled
<1>9. ASSUME Tick \/ UNCHANGED vars PROVE Elevated' /\ RecordedIsSettled'
  BY <1>2, <1>9 DEF Tick, vars, locals, Elevated, RecordedIsSettled, Settled
<1>10. Elevated' /\ RecordedIsSettled'
  BY <1>4, <1>5, <1>6, <1>7, <1>8, <1>9 DEF Next, Step, Rest
<1>. QED  BY <1>1, <1>10 DEF RefinementInv

\* A step of the cycle is a step of the ledger, or changes nothing it sees.
LEMMA StepMaps ==
    ASSUME Serialized, RefinementInv, [Next]_vars
    PROVE  [Ledger!Tell \/ Ledger!Enter \/ Ledger!Strike \/ Ledger!Pass]_(Ledger!ledgerVars)
<1>. USE DEF RefinementInv, LedgerInv, DeliveryInv
<1>1. ASSUME NEW r \in Runs,
             \/ Begin(r) \/ ReadOutage(r) \/ SendNotice(r) \/ WriteOutage(r) \/ Decide(r)
             \/ Compose(r) \/ Crash(r)
      PROVE  UNCHANGED Ledger!ledgerVars
  BY <1>1
  DEF Begin, ReadOutage, SendNotice, WriteOutage, Decide, Compose, Crash, Ledger!ledgerVars
<1>2. ASSUME NEW r \in Runs, SendAlert(r) PROVE Ledger!Tell
  <2>1. /\ stage[r] = "send" /\ delivered' = delivered \cup {Message(r)}
        /\ UNCHANGED <<alerts, clock>>
    BY <1>2 DEF SendAlert
  <2>2. Message(r).level = seen[r].level /\ seen[r].level # "none"
    BY <2>1 DEF Message, Elevated, Deciding
  <2>3. ASSUME NEW d \in alerts, Ledger!Remembered(d, Message(r))
        PROVE  is_escalation(d.level, Message(r).level)
    <3>1. d \in delivered /\ Settled(d)
      BY DEF RecordedWasDelivered, RecordedIsSettled
    <3>2. Duration(d.window) <= Lookback /\ StillRuns(d, Message(r))
      BY <2>3 DEF Ledger!Remembered, Ledger!Duration, Ledger!overlaps, Duration, StillRuns, overlaps
    <3>. QED  BY <2>1, <2>2, <3>1, <3>2 DEF NothingToRepeat
  <2>. QED
    BY <2>1, <2>2, <2>3
    DEF Ledger!Tell, Ledger!is_escalation, is_escalation, Ledger!LEVEL_RANK, LEVEL_RANK
<1>3. ASSUME NEW r \in Runs, RecordAlert(r) PROVE Ledger!Enter
  <2>1. /\ stage[r] = "record" /\ alerts' = Put(alerts, AlertRecord(r))
        /\ UNCHANGED <<delivered, clock>>
    BY <1>3 DEF RecordAlert
  <2>2. AlertRecord(r) = Message(r) /\ AlertRecord(r) \in delivered
    BY <2>1 DEF AlertRecord, Message, SentBeforeRecord
  <2>3. \A a \in alerts : alert_item_sk(a) # alert_item_sk(AlertRecord(r))
    BY <2>1 DEF KeyIsFree, Deciding, alert_item_sk, AlertRecord
  <2>4. alerts' = alerts \cup {AlertRecord(r)}
    BY <2>1, <2>3 DEF Put
  <2>. QED  BY <2>1, <2>2, <2>4 DEF Ledger!Enter
<1>4. ASSUME NEW a \in alerts, Expire(a) PROVE Ledger!Strike
  BY <1>4 DEF Expire, expires_at, Ledger!Strike
<1>5. CASE Tick
  BY <1>5 DEF Tick, Ledger!Pass
<1>6. CASE UNCHANGED vars
  BY <1>6 DEF vars, Ledger!ledgerVars
<1>. QED
  BY <1>1, <1>2, <1>3, <1>4, <1>5, <1>6 DEF Next, Step, Rest

\* Run one at a time, the cycle implements the ledger, wherever invocations
\* die: an item put never replaces one still owed, and an alert is told only
\* over what is remembered.
THEOREM CycleImplementsLedger ==
    ASSUME Serialized
    PROVE  Spec => ImplementsLedger
<1>1. Init => Ledger!LedgerInit
  BY DEF Init, Ledger!LedgerInit
<1>2. RefinementInv /\ [Next]_vars => RefinementInv'
  BY RefinementStep
<1>3. RefinementInv /\ [Next]_vars
         => [Ledger!Tell \/ Ledger!Enter \/ Ledger!Strike \/ Ledger!Pass]_(Ledger!ledgerVars)
  BY StepMaps
<1>. QED
  BY <1>1, <1>2, <1>3, RefinementInit, PTL DEF Spec, ImplementsLedger, Ledger!LedgerSpec

-----------------------------------------------------------------------------
(* What the outage rule owes. *)

\* Read in order, the notices lead from one belief to the other.
AddsUp(notices, before, after) ==
    \/ notices = <<>> /\ before = after
    \/ \E n \in OperatorNotice : notices = <<n>> /\ Believe(before, n) = after
    \/ \E n, m \in OperatorNotice :
          notices = <<n, m>> /\ Believe(Believe(before, n), m) = after

\* A second notice follows the first.
LEMMA AppendToOne ==
    ASSUME NEW S, NEW n \in S, NEW m \in S
    PROVE  Append(<<n>>, m) = <<n, m>>
<1>1. <<n>> \in Seq(S) /\ Len(<<n>>) = 1 /\ <<n>>[1] = n
  OBVIOUS
<1>2. /\ Append(<<n>>, m) \in Seq(S) /\ Len(Append(<<n>>, m)) = 2
      /\ Append(<<n>>, m)[1] = n /\ Append(<<n>>, m)[2] = m
  BY <1>1, AppendProperties
<1>3. /\ <<n, m>> \in Seq(S) /\ Len(<<n, m>>) = 2
      /\ <<n, m>>[1] = n /\ <<n, m>>[2] = m
  OBVIOUS
<1>4. \A i \in 1 .. 2 : i = 1 \/ i = 2
  OBVIOUS
<1>. QED  BY <1>2, <1>3, <1>4, SeqEqual

\* From an operator who believes what the record says, the notices lead to the
\* sources down now, and the next record names them (evaluate_outage).
LEMMA NoticesAddUp ==
    ASSUME NEW down \in SUBSET Source, NEW active \in ActiveOutage, NEW t \in Nat,
           NEW p, p = evaluate_outage(down, active, t)
    PROVE  /\ AddsUp(p.notices, active.sources, down)
           /\ (IF p.changed THEN p.next ELSE active).sources = down
<1>1. active.sources \in SUBSET Source
  BY DEF ActiveOutage, NoOutage, OutageRecord
<1>2. ASSUME NEW s \in SUBSET Source
      PROVE  Unavailable(s) \in OperatorNotice /\ Recovered(s) \in OperatorNotice
  BY DEF Unavailable, Recovered, OperatorNotice, NoticeKind
<1>3. \A b, s : Believe(b, Unavailable(s)) = b \cup s /\ Believe(b, Recovered(s)) = b \ s
  BY DEF Believe, Unavailable, Recovered
<1>. DEFINE recovered == active.sources \ down
            newly_down == down \ active.sources
            announced == IF recovered = {} THEN newly_down ELSE down
<1>4. CASE down = {}
  <2>1. p = OutageDecision(recovery_notices(recovered), NoOutage, active # NoOutage)
    BY <1>4 DEF evaluate_outage
  <2>4. (IF p.changed THEN p.next ELSE active).sources = down
    <3>1. CASE active = NoOutage
      BY <1>4, <2>1, <3>1 DEF OutageDecision, NoOutage, OutageRecord
    <3>2. CASE active # NoOutage
      <4>1. p = OutageDecision(recovery_notices(recovered), NoOutage, TRUE)
        BY <2>1, <3>2
      <4>. QED  BY <1>4, <4>1 DEF OutageDecision, NoOutage, OutageRecord
    <3>. QED  BY <3>1, <3>2
  <2>2. CASE recovered = {}
    <3>1. p.notices = <<>>
      BY <2>1, <2>2 DEF OutageDecision, recovery_notices
    <3>. QED  BY <1>4, <2>2, <2>4, <3>1 DEF AddsUp
  <2>3. CASE recovered # {}
    <3>1. p.notices = <<Recovered(recovered)>>
      BY <2>1, <2>3 DEF OutageDecision, recovery_notices
    <3>2. Believe(active.sources, Recovered(recovered)) = down
      BY <1>3, <1>4
    <3>3. AddsUp(p.notices, active.sources, down)
      BY <1>1, <1>2, <3>1, <3>2 DEF AddsUp
    <3>. QED  BY <2>4, <3>3
  <2>. QED  BY <2>2, <2>3
<1>5. CASE down # {} /\ recovered = {} /\ newly_down = {}
  <2>1. active.sources = down
    BY <1>5
  <2>2. CASE active.notified
    <3>1. p = OutageDecision(<<>>, active, FALSE)
      BY <1>5, <2>2 DEF evaluate_outage
    <3>. QED  BY <2>1, <3>1 DEF OutageDecision, AddsUp
  <2>3. CASE ~ active.notified
    <3>1. p = OutageDecision(<<Unavailable(down)>>, [active EXCEPT !.notified = TRUE], TRUE)
      BY <1>5, <2>3 DEF evaluate_outage
    <3>2. Believe(active.sources, Unavailable(down)) = down
      <4>1. Believe(active.sources, Unavailable(down)) = active.sources \cup down
        BY <1>3
      <4>. QED  BY <2>1, <4>1
    <3>3. AddsUp(p.notices, active.sources, down)
      BY <1>2, <3>1, <3>2 DEF AddsUp, OutageDecision
    <3>4. p.changed /\ p.next.sources = down
      BY <2>1, <3>1 DEF OutageDecision, ActiveOutage, NoOutage, OutageRecord
    <3>. QED  BY <3>3, <3>4
  <2>. QED  BY <2>2, <2>3
<1>6. CASE down # {} /\ ~ (recovered = {} /\ newly_down = {})
  <2>1. p = OutageDecision(Append(recovery_notices(recovered), Unavailable(announced)),
                           OutageRecord(down, Opened(active, t), TRUE), TRUE)
    BY <1>6 DEF evaluate_outage
  <2>2. p.changed /\ p.next.sources = down
    BY <2>1 DEF OutageDecision, OutageRecord
  <2>3. CASE recovered = {}
    <3>1. p.notices = <<Unavailable(newly_down)>>
      BY <2>1, <2>3 DEF OutageDecision, recovery_notices
    <3>2. Believe(active.sources, Unavailable(newly_down)) = down
      <4>1. Believe(active.sources, Unavailable(newly_down)) = active.sources \cup newly_down
        BY <1>3
      <4>2. active.sources \cup newly_down = down
        BY <2>3
      <4>. QED  BY <4>1, <4>2
    <3>. QED  BY <1>2, <2>2, <3>1, <3>2 DEF AddsUp
  <2>4. CASE recovered # {}
    <3>1. p.notices = <<Recovered(recovered), Unavailable(down)>>
      <4>1. p.notices = Append(<<Recovered(recovered)>>, Unavailable(down))
        BY <2>1, <2>4 DEF OutageDecision, recovery_notices
      <4>2. Recovered(recovered) \in OperatorNotice /\ Unavailable(down) \in OperatorNotice
        BY <1>1, <1>2
      <4>. QED  BY <4>1, <4>2, AppendToOne
    <3>2. Believe(Believe(active.sources, Recovered(recovered)), Unavailable(down)) = down
      <4>1. Believe(Believe(active.sources, Recovered(recovered)), Unavailable(down))
               = (active.sources \ recovered) \cup down
        BY <1>3
      <4>2. (active.sources \ recovered) \cup down = down
        OBVIOUS
      <4>. QED  BY <4>1, <4>2
    <3>. QED  BY <1>1, <1>2, <2>2, <3>1, <3>2 DEF AddsUp
  <2>. QED  BY <2>3, <2>4
<1>. QED  BY <1>4, <1>5, <1>6

\* A record that replaces another keeps the time it opened (evaluate_outage).
LEMMA RuleKeepsOpening ==
    ASSUME NEW down \in SUBSET Source, NEW active \in ActiveOutage, NEW t \in Nat,
           NEW p, p = evaluate_outage(down, active, t), active # NoOutage, p.next # NoOutage
    PROVE  p.next.opened = active.opened
<1>1. active \in [sources : (SUBSET Source) \ {{}}, opened : Nat, notified : BOOLEAN]
  BY DEF ActiveOutage
<1>2. down # {}
  BY DEF evaluate_outage, OutageDecision
<1>3. \/ p.next = active
      \/ p.next = [active EXCEPT !.notified = TRUE]
      \/ p.next = OutageRecord(down, Opened(active, t), TRUE)
  BY <1>2 DEF evaluate_outage, OutageDecision
<1>. QED  BY <1>1, <1>3 DEF OutageRecord, Opened

-----------------------------------------------------------------------------
(* The opening of an outage.  A cycle writes the record it computed from   *)
(* the one it read, which nobody replaced in between.                      *)

OpeningCarried ==
    \A r \in Runs : stage[r] = "notify" /\ outage # NoOutage /\ plan[r].next # NoOutage
        => plan[r].next.opened = outage.opened

OpeningInv == LedgerInv /\ OpeningCarried

LEMMA OpeningInit == Init => OpeningInv
<1>1. Init => OpeningCarried
  BY DEF Init, OpeningCarried
<1>. QED  BY <1>1, LedgerInit DEF OpeningInv

LEMMA OpeningStep ==
    ASSUME Serialized, OpeningInv, [Next]_vars
    PROVE  OpeningInv'
<1>1. LedgerInv /\ LedgerInv' /\ TypeOK /\ OneAtATime
  BY LedgerStep DEF OpeningInv, LedgerInv, DeliveryInv
<1>2. OpeningCarried
  BY DEF OpeningInv
<1>3. ASSUME NEW r \in Runs, ReadOutage(r) PROVE OpeningCarried'
  <2>1. /\ outage' = outage
        /\ plan'[r] = evaluate_outage(seen[r].down, outage, now[r])
        /\ \A q \in Runs \ {r} : plan'[q] = plan[q] /\ stage'[q] = stage[q]
    BY <1>1, <1>3 DEF ReadOutage, TypeOK
  <2>2. seen[r].down \in SUBSET Source /\ outage \in ActiveOutage /\ now[r] \in Nat
    BY <1>1 DEF TypeOK, Assessment
  <2>3. outage # NoOutage /\ plan'[r].next # NoOutage => plan'[r].next.opened = outage.opened
    BY <2>1, <2>2, RuleKeepsOpening
  <2>. QED  BY <1>2, <2>1, <2>3 DEF OpeningCarried
<1>4. ASSUME NEW r \in Runs, SendNotice(r) PROVE OpeningCarried'
  <2>1. /\ outage' = outage /\ stage' = stage
        /\ \A q \in Runs : plan'[q].next = plan[q].next
    BY <1>1, <1>4 DEF SendNotice, TypeOK
  <2>. QED  BY <1>2, <2>1 DEF OpeningCarried
<1>5. ASSUME NEW r \in Runs, WriteOutage(r) PROVE OpeningCarried'
  <2>1. stage[r] = "notify" /\ stage'[r] = "decide" /\ \A q \in Runs \ {r} : stage'[q] = stage[q]
    BY <1>1, <1>5 DEF WriteOutage, TypeOK
  <2>2. \A q \in Runs : stage'[q] # "notify"
    BY <1>1, <2>1, DecidingIsActive DEF OneAtATime
  <2>. QED  BY <2>2 DEF OpeningCarried
<1>6. ASSUME UNCHANGED <<outage, plan>>,
             \A q \in Runs : stage'[q] = "notify" => stage[q] = "notify"
      PROVE  OpeningCarried'
  BY <1>2, <1>6 DEF OpeningCarried
<1>7. ASSUME NEW r \in Runs,
             \/ Begin(r) \/ Decide(r) \/ Compose(r) \/ SendAlert(r) \/ RecordAlert(r) \/ Crash(r)
      PROVE  OpeningCarried'
  <2>1. UNCHANGED <<outage, plan>> /\ \A q \in Runs : stage'[q] = "notify" => stage[q] = "notify"
    BY <1>1, <1>7
    DEF Begin, Decide, Compose, SendAlert, RecordAlert, Crash, TypeOK
  <2>. QED  BY <1>6, <2>1
<1>8. ASSUME Tick \/ Rest \/ UNCHANGED vars \/ \E a \in alerts : Expire(a)
      PROVE  OpeningCarried'
  BY <1>6, <1>8 DEF Tick, Rest, vars, locals, Expire
<1>. QED
  BY <1>1, <1>3, <1>4, <1>5, <1>7, <1>8 DEF OpeningInv, Next, Step

\* An outage that widens, narrows or is announced again keeps the time it
\* opened until it is cleared, when no two invocations overlap, wherever they
\* die (evaluate_outage, the record's write).
THEOREM OutageKeepsItsOpening ==
    ASSUME Serialized
    PROVE  Spec => OpenedAtKept
<1>. DEFINE Same == outage # NoOutage /\ outage' # NoOutage => outage'.opened = outage.opened
<1>1. OpeningInv /\ [Next]_vars => [Same]_vars
  <2>. SUFFICES ASSUME OpeningInv, Next PROVE Same
    BY DEF Same
  <2>1. ASSUME NEW r \in Runs, WriteOutage(r) PROVE Same
    BY <2>1 DEF OpeningInv, OpeningCarried, WriteOutage
  <2>2. CASE outage' = outage
    BY <2>2
  <2>. QED
    BY <2>1, <2>2
    DEF Next, Step, Begin, ReadOutage, SendNotice, Decide, Compose, SendAlert, RecordAlert,
        Crash, Expire, Tick, Rest, vars, locals
<1>2. OpeningInv /\ [Next]_vars => OpeningInv'
  BY OpeningStep
<1>. QED  BY <1>1, <1>2, OpeningInit, PTL DEF Spec, OpenedAtKept

-----------------------------------------------------------------------------
(* What the operator was told.  Between cycles the operator believes what   *)
(* the record says; while notices go out, the ones still owed lead to what *)
(* the cycle found down.                                                   *)

BeliefIsRecord == (\A r \in Runs : stage[r] # "notify") => believed = outage.sources

NoticesLead ==
    \A r \in Runs : stage[r] = "notify" =>
        /\ AddsUp(plan[r].notices, believed, seen[r].down)
        /\ (IF plan[r].changed THEN plan[r].next ELSE outage).sources = seen[r].down

BeliefInv == LedgerInv /\ BeliefIsRecord /\ NoticesLead

LEMMA BeliefInit == Init => BeliefInv
<1>1. Init => BeliefIsRecord /\ NoticesLead
  BY DEF Init, BeliefIsRecord, NoticesLead, NoOutage, OutageRecord
<1>. QED  BY <1>1, LedgerInit DEF BeliefInv

\* A notice that goes out leaves the others to lead on.
LEMMA OneNoticeLess ==
    ASSUME NEW notices, NEW before, NEW after, AddsUp(notices, before, after), notices # <<>>
    PROVE  AddsUp(Tail(notices), Believe(before, Head(notices)), after)
<1>1. CASE \E n \in OperatorNotice : notices = <<n>> /\ Believe(before, n) = after
  <2>1. PICK n \in OperatorNotice : notices = <<n>> /\ Believe(before, n) = after
    BY <1>1
  <2>2. Head(notices) = n /\ Tail(notices) = <<>>
    BY <2>1
  <2>. QED  BY <2>1, <2>2 DEF AddsUp
<1>2. CASE \E n, m \in OperatorNotice :
              notices = <<n, m>> /\ Believe(Believe(before, n), m) = after
  <2>1. PICK n \in OperatorNotice, m \in OperatorNotice :
           notices = <<n, m>> /\ Believe(Believe(before, n), m) = after
    BY <1>2
  <2>2. Head(notices) = n /\ Tail(notices) = <<m>>
    BY <2>1
  <2>. QED  BY <2>1, <2>2 DEF AddsUp
<1>. QED  BY <1>1, <1>2 DEF AddsUp

LEMMA NoneLeft ==
    ASSUME NEW before, NEW after, AddsUp(<<>>, before, after)
    PROVE  before = after
  BY DEF AddsUp

LEMMA BeliefStep ==
    ASSUME Serialized, "notify" \notin CrashStages, BeliefInv, [Next]_vars
    PROVE  BeliefInv'
<1>1. LedgerInv /\ LedgerInv' /\ TypeOK /\ OneAtATime
  BY LedgerStep DEF BeliefInv, LedgerInv, DeliveryInv
<1>2. BeliefIsRecord /\ NoticesLead
  BY DEF BeliefInv
<1>3. \A q, r \in Runs : stage[q] = "notify" /\ r \in Active => q = r
  BY <1>1, DecidingIsActive DEF OneAtATime
<1>4. ASSUME NEW r \in Runs, ReadOutage(r) PROVE BeliefIsRecord' /\ NoticesLead'
  <2>1. /\ stage[r] = "outage" /\ stage'[r] = "notify" /\ UNCHANGED <<outage, seen, believed>>
        /\ plan'[r] = evaluate_outage(seen[r].down, outage, now[r])
        /\ \A q \in Runs \ {r} : plan'[q] = plan[q] /\ stage'[q] = stage[q]
    BY <1>1, <1>4 DEF ReadOutage, TypeOK
  <2>2. \A q \in Runs : stage[q] # "notify"
    BY <1>3, <2>1, DecidingIsActive
  <2>3. believed = outage.sources
    BY <1>2, <2>2 DEF BeliefIsRecord
  <2>4. seen[r].down \in SUBSET Source /\ outage \in ActiveOutage /\ now[r] \in Nat
    BY <1>1 DEF TypeOK, Assessment
  <2>5. /\ AddsUp(plan'[r].notices, outage.sources, seen[r].down)
        /\ (IF plan'[r].changed THEN plan'[r].next ELSE outage).sources = seen[r].down
    BY <2>1, <2>4, NoticesAddUp
  <2>. QED  BY <2>1, <2>2, <2>3, <2>5 DEF BeliefIsRecord, NoticesLead
<1>5. ASSUME NEW r \in Runs, SendNotice(r) PROVE BeliefIsRecord' /\ NoticesLead'
  <2>1. /\ stage[r] = "notify" /\ plan[r].notices # <<>>
        /\ believed' = Believe(believed, Head(plan[r].notices))
        /\ plan'[r].notices = Tail(plan[r].notices)
        /\ plan'[r].next = plan[r].next /\ plan'[r].changed = plan[r].changed
        /\ UNCHANGED <<outage, seen, stage>>
    BY <1>1, <1>5 DEF SendNotice, TypeOK
  <2>2. \A q \in Runs : stage[q] = "notify" => q = r
    BY <1>3, <2>1, DecidingIsActive
  <2>3. AddsUp(plan'[r].notices, believed', seen[r].down)
    BY <1>2, <2>1, OneNoticeLess DEF NoticesLead
  <2>. QED  BY <1>2, <2>1, <2>2, <2>3 DEF BeliefIsRecord, NoticesLead
<1>6. ASSUME NEW r \in Runs, WriteOutage(r) PROVE BeliefIsRecord' /\ NoticesLead'
  <2>1. /\ stage[r] = "notify" /\ plan[r].notices = <<>> /\ stage'[r] = "decide"
        /\ outage' = IF plan[r].changed THEN plan[r].next ELSE outage
        /\ \A q \in Runs \ {r} : stage'[q] = stage[q]
        /\ UNCHANGED <<plan, seen, believed>>
    BY <1>1, <1>6 DEF WriteOutage, TypeOK
  <2>2. \A q \in Runs : stage'[q] # "notify"
    BY <1>3, <2>1, DecidingIsActive
  <2>3. believed = seen[r].down /\ outage'.sources = seen[r].down
    BY <1>2, <2>1, NoneLeft DEF NoticesLead
  <2>. QED  BY <2>1, <2>2, <2>3 DEF BeliefIsRecord, NoticesLead
<1>7. ASSUME UNCHANGED <<outage, plan, believed>>,
             \A q \in Runs : stage'[q] = "notify" <=> stage[q] = "notify",
             \A q \in Runs : stage[q] = "notify" => seen'[q] = seen[q]
      PROVE  BeliefIsRecord' /\ NoticesLead'
  BY <1>2, <1>7 DEF BeliefIsRecord, NoticesLead
<1>8. ASSUME NEW r \in Runs,
             \/ Begin(r) \/ Decide(r) \/ Compose(r) \/ SendAlert(r) \/ RecordAlert(r) \/ Crash(r)
      PROVE  BeliefIsRecord' /\ NoticesLead'
  <2>1. /\ UNCHANGED <<outage, plan, believed>>
        /\ stage[r] # "notify" /\ stage'[r] # "notify"
        /\ \A q \in Runs \ {r} : stage'[q] = stage[q] /\ seen'[q] = seen[q]
    BY <1>1, <1>8 DEF Begin, Decide, Compose, SendAlert, RecordAlert, Crash, TypeOK
  <2>2. \A q \in Runs : /\ stage'[q] = "notify" <=> stage[q] = "notify"
                        /\ stage[q] = "notify" => seen'[q] = seen[q]
    BY <2>1
  <2>. QED  BY <1>7, <2>1, <2>2
<1>9. ASSUME Tick \/ Rest \/ UNCHANGED vars \/ \E a \in alerts : Expire(a)
      PROVE  BeliefIsRecord' /\ NoticesLead'
  BY <1>7, <1>9 DEF Tick, Rest, vars, locals, Expire
<1>. QED
  BY <1>1, <1>4, <1>5, <1>6, <1>8, <1>9 DEF BeliefInv, Next, Step

\* When a cycle has dealt with the outage record, an operator who read every
\* notice believes exactly the sources it found down to be down, when no two
\* invocations overlap and none dies between its notices and the record.
THEOREM OperatorKeptInformed ==
    ASSUME Serialized, "notify" \notin CrashStages
    PROVE  Spec => OperatorIsInformed
<1>. DEFINE Informed == \A r \in Runs : LeavesNotify(r) => believed = seen[r].down
<1>1. BeliefInv /\ [Next]_vars => [Informed]_vars
  <2>. SUFFICES ASSUME BeliefInv, Next, NEW r \in Runs, LeavesNotify(r)
                PROVE  believed = seen[r].down
    BY DEF Informed
  <2>1. stage[r] = "notify" /\ stage'[r] = "decide" /\ TypeOK /\ NoticesLead
    BY DEF LeavesNotify, BeliefInv, LedgerInv, DeliveryInv
  <2>2. WriteOutage(r)
    <3>1. PICK q \in Runs : stage'[q] # stage[q] /\ (Begin(q) \/ Step(q) \/ Crash(q))
      BY <2>1
      DEF Next, Step, Begin, ReadOutage, SendNotice, WriteOutage, Decide, Compose, SendAlert,
          RecordAlert, Crash, Expire, Tick, Rest, vars, locals, TypeOK
    <3>2. q = r
      BY <2>1, <3>1
      DEF Step, Begin, ReadOutage, SendNotice, WriteOutage, Decide, Compose, SendAlert,
          RecordAlert, Crash, TypeOK
    <3>. QED
      BY <2>1, <3>1, <3>2
      DEF Step, Begin, ReadOutage, SendNotice, Decide, Compose, SendAlert, RecordAlert, Crash, TypeOK
  <2>3. plan[r].notices = <<>>
    BY <2>2 DEF WriteOutage
  <2>. QED  BY <2>1, <2>3, NoneLeft DEF NoticesLead
<1>2. BeliefInv /\ [Next]_vars => BeliefInv'
  BY BeliefStep
<1>. QED  BY <1>1, <1>2, BeliefInit, PTL DEF Spec, OperatorIsInformed

=============================================================================
