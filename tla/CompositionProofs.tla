-------------------------- MODULE CompositionProofs --------------------------
(***************************************************************************)
(* Theorems about one authorized send, for every set of requests,          *)
(* histories and drafts, and whatever the agent does.                      *)
(***************************************************************************)
EXTENDS Composition, MessageProofs

-----------------------------------------------------------------------------
(* Types. *)

\* What is on record is a table: finitely many items under distinct keys.
Table == IsFiniteSet(history) /\ Keyed(history)

\* TypeOK, with what a step of the store or of the notice relies on.
Typed == TypeOK /\ Table /\ (stage = "notify" => reason # "none")

\* A send starts with every variable of its type.
LEMMA TypeInit == Init => Typed
<1>. SUFFICES ASSUME Init PROVE Typed
  OBVIOUS
<1>1. PICK r \in Requests : request = [r EXCEPT !.continuity = EMPTY_CONTINUITY]
  BY DEF Init
<1>2. r \in MessageRequest
  BY CompositionAssumption
<1>3. request \in MessageRequest
  BY <1>1, <1>2, EmptyTyped DEF MessageRequest
<1>4. history \subseteq AlertRecord /\ Table
  BY CompositionAssumption DEF Init, Table
<1>5. late \in 0 .. MaxLate
  BY CompositionAssumption DEF Init
<1>6. /\ notices = <<>> /\ stage = "read" /\ reason = "none" /\ fault = "none"
      /\ message = {} /\ tool = {}
  BY DEF Init
<1>7. disturbed \in BOOLEAN
  BY DEF Init
<1>8. notices \in Seq(FallbackReason)
  BY <1>6
<1>. QED  BY <1>3, <1>4, <1>5, <1>6, <1>7, <1>8 DEF Typed, TypeOK, Stage

\* A reading of a draft leaves its types to the rest.
LEMMA JudgeDraftTyped ==
    ASSUME TypeOK, NEW d, JudgeDraft(d),
           UNCHANGED <<history, late, notices, request, tool, disturbed>>
    PROVE  TypeOK' /\ (stage' = "notify" => reason' # "none")
<1>1. {reason, fault}' \subseteq FallbackReason \cup {"none"} /\ stage' \in Stage
  BY DEF JudgeDraft, FellBack, TypeOK, FallbackReason, Stage
<1>2. \A m \in message' : m.composed_by \in {"template", "agent"}
  BY DEF JudgeDraft, AgentMessage, TypeOK
<1>3. stage' = "notify" => reason' # "none"
  BY DEF JudgeDraft, FellBack
<1>. QED  BY <1>1, <1>2, <1>3 DEF TypeOK

\* Every step keeps them so, whoever takes it.
LEMMA TypeNext == Typed /\ [Next]_vars => Typed'
<1>. SUFFICES ASSUME Typed, [Next]_vars PROVE Typed'
  OBVIOUS
<1>. USE DEF Typed
<1>1. CASE ReadHistory
  <2>1. read_continuity(history, AsOf, request.level, top_warning_level(request.reasons))
           \in ContinuitySummary
    BY ReadTyped DEF TypeOK, Table
  <2>2. request' \in MessageRequest
    BY <1>1, <2>1 DEF ReadHistory, TypeOK, MessageRequest
  <2>. QED  BY <1>1, <2>2 DEF ReadHistory, TypeOK, Table, Stage
<1>2. CASE Invoke
  BY <1>2 DEF Invoke, FellBack, TypeOK, Table, Stage, FallbackReason
<1>3. ASSUME NEW n \in 0 .. MaxPriorAlerts + 1, CallTool(n) PROVE Typed'
  <2>1. n \in Int
    BY HistoryAssumption
  <2>2. tool' \subseteq ContinuitySummary /\ \A facts \in tool' : Len(facts.prior_alerts) <= MaxPriorAlerts
    <3>1. CASE tool' = {read_facts(history, binding(request), n)}
      BY <2>1, <3>1, FactsTyped DEF TypeOK, Table
    <3>2. CASE tool' = {EMPTY_CONTINUITY}
      BY <3>2, EmptyTyped, HistoryAssumption
    <3>. QED  BY <1>3, <3>1, <3>2 DEF CallTool
  <2>. QED  BY <1>3, <2>2 DEF CallTool, TypeOK, Table
<1>4. CASE Answer
  <2>1. PICK d : JudgeDraft(d)
    BY <1>4 DEF Answer
  <2>. QED  BY <1>4, <2>1, JudgeDraftTyped DEF Answer, Table
<1>5. CASE InvokeFails \/ Timeout
  BY <1>5 DEF InvokeFails, Timeout, FellBack, TypeOK, Table, Stage, FallbackReason
<1>6. CASE Notify
  <2>1. reason \in FallbackReason
    BY <1>6 DEF Notify, TypeOK
  <2>. QED  BY <1>6, <2>1 DEF Notify, TypeOK, Table, Stage, Template
<1>7. CASE RecordLate
  <2>1. PICK a \in LateAlerts \ history :
               history' = {b \in history : KeyBefore(a, b) \/ KeyBefore(b, a)} \cup {a}
    BY <1>7 DEF RecordLate
  <2>2. history' \subseteq AlertRecord
    BY <2>1, CompositionAssumption DEF TypeOK
  <2>3. IsFiniteSet(history')
    <3>1. IsFiniteSet({b \in history : KeyBefore(a, b) \/ KeyBefore(b, a)})
      BY FS_Subset DEF Table
    <3>. QED  BY <2>1, <3>1, FS_AddElement
  <2>4. Keyed(history')
    BY <2>1 DEF Table, Keyed
  <2>5. late' \in 0 .. MaxLate
    BY <1>7, CompositionAssumption DEF RecordLate, TypeOK
  <2>. QED  BY <1>7, <2>2, <2>3, <2>4, <2>5 DEF RecordLate, TypeOK, Table
<1>8. CASE Done \/ UNCHANGED vars
  BY <1>8 DEF Done, vars, TypeOK, Table
<1>. QED
  BY <1>1, <1>2, <1>3, <1>4, <1>5, <1>6, <1>7, <1>8 DEF Next

\* The types of every state, for every request, table and draft: among them
\* that the days in a row stay within the lookback and the model is never
\* shown more alerts than its cap, whatever it asks for (continuity.py,
\* agent/history.py).
THEOREM TypeCorrect == Spec => []TypeOK
<1>1. Typed => TypeOK
  BY DEF Typed
<1>. QED  BY <1>1, TypeInit, TypeNext, PTL DEF Spec

-----------------------------------------------------------------------------
(* What the operator hears. *)

\* Until the send is composed the operator was told nothing and nothing went
\* wrong; a fallback is about to be told with the fault that caused it.
Told ==
    /\ stage \in Stage
    /\ stage \in {"read", "compose", "invoked"} =>
          notices = <<>> /\ fault = "none" /\ message = {}
    /\ stage = "notify" => notices = <<>> /\ reason = fault /\ message = {}
    /\ stage = "sent" => FallbackIsTold

\* What the reading of a draft leaves: a candidate of the agent's on its way,
\* or a fallback to be told.
LEMMA JudgeDraftTells ==
    ASSUME NEW d, Told, stage = "invoked", JudgeDraft(d), UNCHANGED notices
    PROVE  Told'
<1>1. notices' = <<>> /\ message = {} /\ fault = "none"
  BY DEF Told
<1>2. CASE /\ message' = {AgentMessage(d)}
           /\ stage' = "sent"
           /\ UNCHANGED <<reason, fault>>
  <2>1. \A m \in message' : m.composed_by = "agent"
    BY <1>2 DEF AgentMessage
  <2>. QED
    BY <1>1, <1>2, <2>1 DEF Told, Stage, FallbackIsTold
<1>3. CASE FellBack("validation_failed") /\ UNCHANGED message
  BY <1>1, <1>3 DEF Told, Stage, FellBack
<1>. QED
  BY <1>2, <1>3 DEF JudgeDraft

\* Every step keeps what the operator was told in step with the fault.
LEMMA ToldNext == Told /\ [Next]_vars => Told'
<1>. SUFFICES ASSUME Told, [Next]_vars PROVE Told'
  OBVIOUS
<1>1. CASE ReadHistory
  BY <1>1 DEF ReadHistory, Told, Stage
<1>2. CASE Invoke
  BY <1>2 DEF Invoke, FellBack, Told, Stage
<1>3. ASSUME NEW n, CallTool(n) PROVE Told'
  BY <1>3 DEF CallTool, Told, Stage
<1>4. CASE Answer
  <2>1. PICK d : JudgeDraft(d)
    BY <1>4 DEF Answer
  <2>. QED
    BY <1>4, <2>1, JudgeDraftTells DEF Answer
<1>5. CASE InvokeFails \/ Timeout
  BY <1>5 DEF InvokeFails, Timeout, FellBack, Told, Stage
<1>6. CASE Notify
  <2>1. notices' = <<fault>> /\ UNCHANGED fault /\ message' = {Template} /\ stage' = "sent"
    BY <1>6 DEF Notify, Told
  <2>2. Template.composed_by # "agent"
    BY DEF Template
  <2>. QED
    BY <2>1, <2>2 DEF Told, Stage, FallbackIsTold
<1>7. CASE RecordLate
  BY <1>7 DEF RecordLate, Told, Stage
<1>8. CASE Done \/ UNCHANGED vars
  BY <1>8 DEF Done, vars, Told, FallbackIsTold
<1>. QED
  BY <1>1, <1>2, <1>3, <1>4, <1>5, <1>6, <1>7, <1>8 DEF Next

\* Whatever the agent, the store and the operator's channel do, a template
\* that goes out in the agent's place is told once, by its own fault, and an
\* agent's message is told of not at all (AgentBackedComposer.compose,
\* _fell_back).
THEOREM FallbackAlwaysTold == Spec => []FallbackIsTold
<1>1. Init => Told
  BY DEF Init, Told, Stage
<1>2. Told => FallbackIsTold
  BY DEF Told, Stage, FallbackIsTold
<1>. QED
  BY <1>1, <1>2, ToldNext, PTL DEF Spec

-----------------------------------------------------------------------------
(* What the model is told and what the validator knows. *)

\* While nothing lands between the reads and none of them fails, each side
\* has what its own computation makes of the one table.
Agreed ==
    /\ stage \in {"read", "compose"} => tool = {}
    /\ \A a \in history : a.window.start <= a.sent_at + days(LookbackDays)
    /\ ~ disturbed /\ late = 0 =>
          /\ stage # "read" =>
                request.continuity = read_continuity(history, AsOf, request.level,
                                                     top_warning_level(request.reasons))
          /\ \A facts \in tool : \E n \in Int : facts = read_facts(history, binding(request), n)

\* Before anything is read there is nothing to disagree about.
LEMMA AgreedInit == Init => Agreed
<1>. SUFFICES ASSUME Init PROVE Agreed
  OBVIOUS
<1>1. history \in Histories /\ stage = "read" /\ tool = {}
  BY DEF Init
<1>. QED  BY <1>1, CompositionAssumption DEF Agreed

\* Neither a reading, nor an alert that lands, breaks the agreement.
LEMMA AgreedNext == Typed /\ Agreed /\ [Next]_vars => Agreed'
<1>. SUFFICES ASSUME Typed, Agreed, [Next]_vars PROVE Agreed'
  OBVIOUS
<1>. USE DEF Agreed
<1>1. CASE ReadHistory
  <2>1. tool = {} /\ UNCHANGED <<history, late, tool>> /\ stage' = "compose"
    BY <1>1 DEF ReadHistory
  <2>2. CASE disturbed' = TRUE
    BY <2>1, <2>2
  <2>3. CASE request' = [request EXCEPT !.continuity =
                            read_continuity(history, AsOf, request.level,
                                            top_warning_level(request.reasons))]
    <3>. DEFINE summary == read_continuity(history, AsOf, request.level,
                                           top_warning_level(request.reasons))
    <3>. HIDE DEF summary
    <3>1. request \in MessageRequest /\ request' = [request EXCEPT !.continuity = summary]
      BY <2>3 DEF Typed, TypeOK, summary
    <3>2. /\ request'.continuity = summary
          /\ request'.level = request.level /\ request'.reasons = request.reasons
      BY <3>1 DEF MessageRequest
    <3>. QED  BY <2>1, <3>2 DEF summary
  <2>. QED  BY <1>1, <2>2, <2>3 DEF ReadHistory
<1>2. CASE Invoke
  BY <1>2 DEF Invoke, FellBack
<1>3. ASSUME NEW n \in 0 .. MaxPriorAlerts + 1, CallTool(n) PROVE Agreed'
  <2>1. n \in Int
    BY HistoryAssumption
  <2>2. UNCHANGED <<history, late, stage, request>> /\ stage = "invoked"
    BY <1>3 DEF CallTool
  <2>3. CASE tool' = {read_facts(history, binding(request), n)} /\ UNCHANGED disturbed
    BY <2>1, <2>2, <2>3 DEF binding
  <2>4. CASE disturbed' = TRUE
    BY <2>2, <2>4
  <2>. QED  BY <1>3, <2>3, <2>4 DEF CallTool
<1>4. CASE Answer
  <2>1. PICK d : JudgeDraft(d)
    BY <1>4 DEF Answer
  <2>2. stage' \in {"sent", "notify"} /\ stage = "invoked"
    BY <1>4, <2>1 DEF Answer, JudgeDraft, FellBack
  <2>. QED  BY <1>4, <2>2 DEF Answer, binding
<1>5. CASE InvokeFails \/ Timeout
  BY <1>5 DEF InvokeFails, Timeout, FellBack, binding
<1>6. CASE Notify
  BY <1>6 DEF Notify, binding
<1>7. CASE RecordLate
  <2>1. late' # 0
    <3>1. late \in Nat
      BY CompositionAssumption DEF Typed, TypeOK
    <3>. QED  BY <1>7, <3>1 DEF RecordLate
  <2>2. \A a \in history' : a.window.start <= a.sent_at + days(LookbackDays)
    BY <1>7, CompositionAssumption DEF RecordLate
  <2>. QED  BY <1>7, <2>1, <2>2 DEF RecordLate
<1>8. CASE Done \/ UNCHANGED vars
  BY <1>8 DEF Done, vars, binding
<1>. QED
  BY <1>1, <1>2, <1>3, <1>4, <1>5, <1>6, <1>7, <1>8 DEF Next

\* Of one table, read in full on both sides, the model is told what the
\* validator knows, for every table and request (continuity.py,
\* agent/history.py).
THEOREM BothSidesAgree == Spec => []SameFacts
<1>1. Typed /\ Agreed => SameFacts
  <2>. SUFFICES ASSUME Typed, Agreed, Undisturbed,
                       \A a, b \in history : a.sent_at = b.sent_at => a = b,
                       NEW facts \in tool
                PROVE  /\ facts.consecutive_days = request.continuity.consecutive_days
                       /\ facts.previous_level = request.continuity.previous_level
                       /\ facts.trend = request.continuity.trend
                       /\ IsPrefix(facts.prior_alerts, request.continuity.prior_alerts)
    BY DEF SameFacts
  <2>. DEFINE level == request.level
              warning == top_warning_level(request.reasons)
  <2>1. stage # "read" /\ ~ disturbed /\ late = 0
    BY DEF Agreed, Undisturbed
  <2>2. request.continuity = read_continuity(history, AsOf, level, warning)
    BY <2>1 DEF Agreed
  <2>3. PICK n \in Int :
             facts = read_facts(history, [as_of |-> AsOf, level |-> level, warning |-> warning], n)
    BY <2>1 DEF Agreed, binding
  <2>4. /\ history \in SUBSET AlertRecord /\ IsFiniteSet(history) /\ Keyed(history)
        /\ AsOf \in Int
        /\ \A a \in history : a.legible /\ a.window.start <= a.sent_at + days(LookbackDays)
        /\ Cardinality(history) <= QueryLimit
    BY CompositionAssumption DEF Typed, TypeOK, Table, Agreed, Undisturbed
  <2>. HIDE DEF level, warning
  <2>. QED  BY <2>2, <2>3, <2>4, SameReading
<1>. QED
  BY <1>1, TypeInit, TypeNext, AgreedInit, AgreedNext, PTL DEF Spec

-----------------------------------------------------------------------------
(* What the model may write. *)

\* An optional value is given or it is not.
LEMMA GivenOrNot ==
    ASSUME NEW S, NEW given \in Optional(S)
    PROVE  given = {} \/ \E x \in S : given = {x}
<1>1. given \subseteq S /\ \A a, b \in given : a = b
  BY DEF Optional
<1>. QED  BY <1>1

\* The claims whose phrases say what a reader takes from them, and those of
\* them that put nothing in SENAMHI's mouth.
ReadableClaim == {claim \in Claims : Worded(claim, READER_BOUNDARIES)}

HonestClaim == {claim \in ReadableClaim : claim.about # "invented"}

\* The tokens that are no string of the system's.
SaidToken == {token \in TextToken : token.kind # "span"}

\* Neither the words of such a phrase nor a date with its time are strings of
\* the system's.
LEMMA Said ==
    /\ <<Glue>> \in Seq(SaidToken) /\ <<Continuing>> \in Seq(SaidToken)
    /\ \A t \in Int : Moment(t) \in Seq(SaidToken)
<1>1. Glue \in SaidToken /\ Continuing \in SaidToken
  <2>1. Glue.kind # "span" /\ Continuing.kind # "span"
    BY DEF Glue, Continuing, Token
  <2>. QED  BY <2>1, Phrases DEF SaidToken, CalmToken
<1>2. ASSUME NEW t \in Int PROVE Moment(t) \in Seq(SaidToken)
  <2>1. date(t) \in Int /\ time_of_day(t) \in Int
    BY HistoryAssumption DEF date, time_of_day
  <2>2. Date(date(t)) \in TextToken /\ Time(time_of_day(t)) \in TextToken
    BY <2>1, Phrases DEF CalmToken
  <2>3. Date(date(t)) \in SaidToken /\ Time(time_of_day(t)) \in SaidToken
    BY <2>2 DEF SaidToken, Date, Time
  <2>. QED  BY <2>3 DEF Moment
<1>. QED  BY <1>1, <1>2

\* What an honest draft writes says what it claims.
LEMMA HonestPhrases ==
    /\ \A v, w \in Int :
          Worded(Claim("mm", v, <<Decimal(v), Unit("mm"), Connector, Figure(w), Unit("h")>>), READER_BOUNDARIES)
    /\ \A v \in Int : Worded(Claim("%", v, <<Noun("%"), Connector, Figure(v), Unit("%")>>), READER_BOUNDARIES)
    /\ \A v \in Int : Worded(Claim("days", v, <<Figure(v), Unit("days"), Continuing>>), READER_BOUNDARIES)
    /\ \A text : Worded(Claim("quote", 0, text), READER_BOUNDARIES)
    /\ \A t, u \in Int : Worded(Claim("window", 0, Moment(t) \o <<Glue>> \o Moment(u)), READER_BOUNDARIES)
    /\ \A t \in Int : Worded(Claim("prior", t, <<Continuing>> \o Moment(t)), READER_BOUNDARIES)
<1>1. ASSUME NEW v \in Int, NEW w \in Int
      PROVE  Worded(Claim("mm", v, <<Decimal(v), Unit("mm"), Connector, Figure(w), Unit("h")>>),
                    READER_BOUNDARIES)
  <2>. DEFINE text == <<Decimal(v), Unit("mm"), Connector, Figure(w), Unit("h")>>
  <2>1. /\ Len(text) = 5 /\ DOMAIN text = 1 .. 5
        /\ text[1] = Decimal(v) /\ text[2] = Unit("mm") /\ text[3] = Connector
        /\ text[4] = Figure(w) /\ text[5] = Unit("h")
    OBVIOUS
  <2>. HIDE DEF text
  <2>2. \A i \in DOMAIN text : text[i].kind # "span"
    BY <2>1 DEF Figure, Decimal, Unit, Connector, Token
  <2>3. 1 \in DOMAIN text /\ MeasuredIn(text, 1, "mm", READER_BOUNDARIES)
    BY <2>1 DEF MeasuredIn, Unit
  <2>4. Worded(Claim("mm", v, text), READER_BOUNDARIES)
    BY <2>1, <2>2, <2>3 DEF Worded, Claim
  <2>. QED  BY <2>4 DEF text
<1>2. ASSUME NEW v \in Int
      PROVE  Worded(Claim("%", v, <<Noun("%"), Connector, Figure(v), Unit("%")>>), READER_BOUNDARIES)
  <2>. DEFINE text == <<Noun("%"), Connector, Figure(v), Unit("%")>>
  <2>1. /\ Len(text) = 4 /\ DOMAIN text = 1 .. 4
        /\ text[1] = Noun("%") /\ text[2] = Connector /\ text[3] = Figure(v) /\ text[4] = Unit("%")
    OBVIOUS
  <2>. HIDE DEF text
  <2>2. \A i \in DOMAIN text : text[i].kind # "span"
    BY <2>1 DEF Figure, Unit, Noun, Connector, Token
  <2>3. 3 \in DOMAIN text /\ MeasuredIn(text, 3, "%", READER_BOUNDARIES)
    BY <2>1 DEF MeasuredIn, Unit
  <2>4. Worded(Claim("%", v, text), READER_BOUNDARIES)
    BY <2>1, <2>2, <2>3 DEF Worded, Claim
  <2>. QED  BY <2>4 DEF text
<1>3. ASSUME NEW v \in Int
      PROVE  Worded(Claim("days", v, <<Figure(v), Unit("days"), Continuing>>), READER_BOUNDARIES)
  <2>. DEFINE text == <<Figure(v), Unit("days"), Continuing>>
  <2>1. /\ Len(text) = 3 /\ DOMAIN text = 1 .. 3
        /\ text[1] = Figure(v) /\ text[2] = Unit("days") /\ text[3] = Continuing
    OBVIOUS
  <2>. HIDE DEF text
  <2>2. \A i \in DOMAIN text : text[i].kind # "span"
    BY <2>1 DEF Figure, Unit, Continuing, Token
  <2>3. 1 \in DOMAIN text /\ MeasuredIn(text, 1, "days", READER_BOUNDARIES)
    BY <2>1 DEF MeasuredIn, Unit
  <2>4. Worded(Claim("days", v, text), READER_BOUNDARIES)
    BY <2>1, <2>2, <2>3 DEF Worded, Claim
  <2>. QED  BY <2>4 DEF text
<1>4. ASSUME NEW text PROVE Worded(Claim("quote", 0, text), READER_BOUNDARIES)
  BY DEF Worded, Claim
<1>5. ASSUME NEW t \in Int, NEW u \in Int
      PROVE  Worded(Claim("window", 0, Moment(t) \o <<Glue>> \o Moment(u)), READER_BOUNDARIES)
  <2>. DEFINE text == Moment(t) \o <<Glue>> \o Moment(u)
  <2>1. Moment(t) \in Seq(SaidToken) /\ <<Glue>> \in Seq(SaidToken) /\ Moment(u) \in Seq(SaidToken)
    BY Said
  <2>2. text \in Seq(SaidToken)
    <3>. DEFINE m == Moment(t)
                n == Moment(u)
                g == <<Glue>>
    <3>1. m \in Seq(SaidToken) /\ g \in Seq(SaidToken) /\ n \in Seq(SaidToken)
      BY <2>1
    <3>. HIDE DEF m, n, g
    <3>2. m \o g \in Seq(SaidToken)
      BY <3>1, ConcatProperties
    <3>3. (m \o g) \o n \in Seq(SaidToken)
      BY <3>1, <3>2, ConcatProperties
    <3>. QED  BY <3>3 DEF m, n, g
  <2>. HIDE DEF text
  <2>3. \A i \in DOMAIN text : text[i].kind # "span"
    BY <2>2 DEF SaidToken
  <2>4. Worded(Claim("window", 0, text), READER_BOUNDARIES)
    BY <2>3 DEF Worded, Claim
  <2>. QED  BY <2>4 DEF text
<1>6. ASSUME NEW t \in Int PROVE Worded(Claim("prior", t, <<Continuing>> \o Moment(t)), READER_BOUNDARIES)
  <2>. DEFINE text == <<Continuing>> \o Moment(t)
  <2>2. /\ Len(text) = 3 /\ DOMAIN text = 1 .. 3
        /\ text[1] = Continuing /\ text[2] = Date(date(t)) /\ text[3] = Time(time_of_day(t))
    <3>. DEFINE c == <<Continuing>>
                m == Moment(t)
    <3>1. /\ c \in Seq(SaidToken) /\ Len(c) = 1 /\ c[1] = Continuing
          /\ m \in Seq(SaidToken) /\ Len(m) = 2 /\ m[1] = Date(date(t)) /\ m[2] = Time(time_of_day(t))
      BY Said DEF Moment
    <3>. HIDE DEF c, m
    <3>2. /\ c \o m \in Seq(SaidToken) /\ Len(c \o m) = 3
          /\ (c \o m)[1] = c[1] /\ (c \o m)[2] = m[1] /\ (c \o m)[3] = m[2]
      <4>1. /\ c \o m \in Seq(SaidToken) /\ Len(c \o m) = Len(c) + Len(m)
            /\ \A i \in 1 .. Len(c) + Len(m) : (c \o m)[i] = IF i <= Len(c) THEN c[i] ELSE m[i - Len(c)]
        BY <3>1, ConcatProperties
      <4>. QED  BY <3>1, <4>1
    <3>3. DOMAIN (c \o m) = 1 .. 3
      BY <3>2, LenProperties
    <3>. QED  BY <3>1, <3>2, <3>3 DEF c, m
  <2>. HIDE DEF text
  <2>3. \A i \in DOMAIN text : text[i].kind # "span"
    BY <2>2 DEF Date, Time, Continuing, Token
  <2>4. 2 \in 1 .. Len(text) - 1 /\ text[2] = Date(date(t)) /\ text[2 + 1] = Time(time_of_day(t))
    BY <2>2
  <2>5. Worded(Claim("prior", t, text), READER_BOUNDARIES)
    BY <2>2, <2>3, <2>4 DEF Worded, Claim
  <2>. QED  BY <2>5 DEF text
<1>. QED  BY <1>1, <1>2, <1>3, <1>4, <1>5, <1>6

\* A claim that is worded and puts nothing in SENAMHI's mouth.
LEMMA Honest ==
    ASSUME NEW about, about # "invented", NEW value, NEW text,
           Claim(about, value, text) \in Claims, Worded(Claim(about, value, text), READER_BOUNDARIES)
    PROVE  Claim(about, value, text) \in HonestClaim
<1>. DEFINE claim == Claim(about, value, text)
<1>1. claim.about = about
  BY DEF Claim
<1>. HIDE DEF claim
<1>2. claim \in Claims /\ Worded(claim, READER_BOUNDARIES)
  BY DEF claim
<1>3. claim \in HonestClaim
  BY <1>1, <1>2 DEF HonestClaim, ReadableClaim
<1>. QED  BY <1>3 DEF claim

\* What it claims of the data it was given, and then of what the tool told it.
Found(r) ==
    (UNION {{Claim("mm", one_decimal(f.mm_24h),
                   <<Decimal(one_decimal(f.mm_24h)), Unit("mm"), Connector, Figure(Whole(24)), Unit("h")>>),
             Claim("%", Whole(f.peak_probability_pct),
                   <<Noun("%"), Connector, Figure(Whole(f.peak_probability_pct)), Unit("%")>>)} :
                f \in r.forecast})
    \cup {Claim("quote", 0, <<Glue, Senamhi, Span(w.title)>>) : w \in r.warning}
    \cup {Claim("window", 0, Moment(r.window.start) \o <<Glue>> \o Moment(r.window.end))}

Recalled(facts) ==
    IF facts.consecutive_days < 2 THEN <<>>
    ELSE <<Claim("days", Whole(facts.consecutive_days),
                 <<Figure(Whole(facts.consecutive_days)), Unit("days"), Continuing>>)>>
         \o [i \in DOMAIN facts.prior_alerts |->
                Claim("prior", facts.prior_alerts[i].sent_at,
                      <<Continuing>> \o Moment(facts.prior_alerts[i].sent_at))]

\* What an honest draft claims it says, and nothing in SENAMHI's name.
LEMMA HonestClaims ==
    ASSUME NEW r \in MessageRequest, NEW facts \in ContinuitySummary
    PROVE  /\ honest_claims(r, facts) = SetToSeq(Found(r)) \o Recalled(facts)
           /\ IsFiniteSet(Found(r)) /\ Found(r) \subseteq HonestClaim
           /\ Recalled(facts) \in Seq(HonestClaim)
           /\ honest_claims(r, facts) \in Seq(HonestClaim)
<1>. DEFINE mm(f) == Claim("mm", one_decimal(f.mm_24h),
                           <<Decimal(one_decimal(f.mm_24h)), Unit("mm"), Connector,
                             Figure(Whole(24)), Unit("h")>>)
            pct(f) == Claim("%", Whole(f.peak_probability_pct),
                           <<Noun("%"), Connector, Figure(Whole(f.peak_probability_pct)), Unit("%")>>)
            amounts == UNION {{mm(f), pct(f)} : f \in r.forecast}
            quotes == {Claim("quote", 0, <<Glue, Senamhi, Span(w.title)>>) : w \in r.warning}
            window == Claim("window", 0, Moment(r.window.start) \o <<Glue>> \o Moment(r.window.end))
            found == amounts \cup quotes \cup {window}
            prior(i) == Claim("prior", facts.prior_alerts[i].sent_at,
                              <<Continuing>> \o Moment(facts.prior_alerts[i].sent_at))
            days_told == <<Claim("days", Whole(facts.consecutive_days),
                            <<Figure(Whole(facts.consecutive_days)), Unit("days"), Continuing>>)>>
            priors == [i \in DOMAIN facts.prior_alerts |-> prior(i)]
            continuity == IF facts.consecutive_days < 2 THEN <<>> ELSE days_told \o priors
<1>1. /\ honest_claims(r, facts) = SetToSeq(found) \o continuity
      /\ Found(r) = found /\ Recalled(facts) = continuity
  BY DEF honest_claims, Found, Recalled
<1>2. ASSUME NEW t \in Int PROVE Moment(t) \in Seq(TextToken)
  BY MomentIsCalm, CalmIsText
<1>3. /\ {Glue, Senamhi, Connector, Continuing} \subseteq TextToken
      /\ \A v \in Int : Figure(v) \in TextToken /\ Decimal(v) \in TextToken
      /\ \A u \in {"mm", "%", "h", "days"} : Unit(u) \in TextToken
      /\ Noun("%") \in TextToken
      /\ \A s \in SuppliedString : Span(s) \in TextToken
  BY Phrases DEF CalmToken, NumberUnit
<1>4. amounts \subseteq HonestClaim /\ IsFiniteSet(amounts)
  <2>1. CASE r.forecast = {}
    <3>1. amounts = {}
      BY <2>1
    <3>. QED  BY <3>1, FS_EmptySet
  <2>2. ASSUME NEW f, r.forecast = {f}, f.mm_24h \in Nat, f.peak_probability_pct \in Nat
        PROVE  amounts \subseteq HonestClaim /\ IsFiniteSet(amounts)
    <3>1. one_decimal(f.mm_24h) \in Int /\ Whole(f.peak_probability_pct) \in Int /\ Whole(24) \in Int
      BY <2>2 DEF one_decimal, Whole
    <3>2. mm(f) \in Claims /\ pct(f) \in Claims
      BY <1>3, <3>1 DEF Claim, Claims
    <3>6. Worded(mm(f), READER_BOUNDARIES) /\ Worded(pct(f), READER_BOUNDARIES)
      BY <3>1, HonestPhrases
    <3>7. mm(f) \in HonestClaim /\ pct(f) \in HonestClaim
      BY <3>2, <3>6, Honest
    <3>. HIDE DEF mm, pct
    <3>3. amounts = ({} \cup {mm(f)}) \cup {pct(f)}
      BY <2>2
    <3>4. IsFiniteSet({} \cup {mm(f)})
      BY FS_EmptySet, FS_AddElement
    <3>5. IsFiniteSet(({} \cup {mm(f)}) \cup {pct(f)})
      BY <3>4, FS_AddElement
    <3>. QED  BY <3>3, <3>5, <3>7
  <2>3. r.forecast = {} \/ \E f : r.forecast = {f} /\ f.mm_24h \in Nat /\ f.peak_probability_pct \in Nat
    <3>. DEFINE S == [mm_24h : Nat, mm_48h : Nat, peak_at : Int, peak_probability_pct : Nat]
    <3>1. r.forecast \in Optional(S)
      BY DEF MessageRequest
    <3>2. r.forecast = {} \/ \E f \in S : r.forecast = {f}
      <4>. HIDE DEF S
      <4>. QED  BY <3>1, GivenOrNot
    <3>. QED  BY <3>2
  <2>. HIDE DEF amounts
  <2>. QED  BY <2>1, <2>2, <2>3
<1>5. quotes \subseteq HonestClaim /\ IsFiniteSet(quotes)
  <2>1. CASE r.warning = {}
    <3>1. quotes = {}
      BY <2>1
    <3>. QED  BY <3>1, FS_EmptySet
  <2>2. ASSUME NEW w, r.warning = {w}, w.title \in SuppliedString
        PROVE  quotes \subseteq HonestClaim /\ IsFiniteSet(quotes)
    <3>. DEFINE quote == Claim("quote", 0, <<Glue, Senamhi, Span(w.title)>>)
    <3>0. quote \in Claims
      BY <1>3, <2>2 DEF Claim, Claims
    <3>1. quote \in HonestClaim
      BY <3>0, HonestPhrases, Honest
    <3>. HIDE DEF quote
    <3>2. quotes = {quote}
      BY <2>2 DEF quote
    <3>. QED  BY <3>1, <3>2, FS_Singleton
  <2>3. r.warning = {} \/ \E w : r.warning = {w} /\ w.title \in SuppliedString
    <3>. DEFINE S == [level : DOMAIN WarningRank \ {"no_warning"}, title : SuppliedString,
                      window : TimeWindow]
    <3>1. r.warning \in Optional(S)
      BY DEF MessageRequest
    <3>2. r.warning = {} \/ \E w \in S : r.warning = {w}
      <4>. HIDE DEF S
      <4>. QED  BY <3>1, GivenOrNot
    <3>. QED  BY <3>2
  <2>. HIDE DEF quotes
  <2>. QED  BY <2>1, <2>2, <2>3
<1>6. window \in HonestClaim
  <2>. DEFINE start == Moment(r.window.start)
              end == Moment(r.window.end)
  <2>1. r.window.start \in Int /\ r.window.end \in Int
    BY DEF MessageRequest, TimeWindow
  <2>2. start \in Seq(TextToken) /\ end \in Seq(TextToken)
    BY <1>2, <2>1
  <2>. HIDE DEF start, end
  <2>3. (start \o <<Glue>>) \o end \in Seq(TextToken)
    <3>1. <<Glue>> \in Seq(TextToken)
      BY <1>3
    <3>2. start \o <<Glue>> \in Seq(TextToken)
      BY <2>2, <3>1, ConcatProperties
    <3>. QED  BY <2>2, <3>2, ConcatProperties
  <2>4. Claim("window", 0, (start \o <<Glue>>) \o end) \in Claims
    BY <2>3 DEF Claim, Claims
  <2>5. window \in Claims /\ Worded(window, READER_BOUNDARIES)
    BY <2>1, <2>4, HonestPhrases DEF start, end
  <2>. QED  BY <2>5, Honest
<1>7. days_told \in Seq(HonestClaim)
  <2>. DEFINE told == Claim("days", Whole(facts.consecutive_days),
                            <<Figure(Whole(facts.consecutive_days)), Unit("days"), Continuing>>)
  <2>1. Whole(facts.consecutive_days) \in Int
    BY HistoryAssumption DEF ContinuitySummary, Whole
  <2>2. told \in HonestClaim
    <3>1. told \in Claims
      BY <1>3, <2>1 DEF Claim, Claims
    <3>. QED  BY <2>1, <3>1, HonestPhrases, Honest
  <2>. HIDE DEF told
  <2>3. <<told>> \in Seq(HonestClaim)
    BY <2>2
  <2>. QED  BY <2>3 DEF told
<1>8. priors \in Seq(HonestClaim)
  <2>1. facts.prior_alerts \in Seq(AlertRecord)
    BY DEF ContinuitySummary
  <2>2. ASSUME NEW i \in DOMAIN facts.prior_alerts PROVE prior(i) \in HonestClaim
    <3>. DEFINE at == facts.prior_alerts[i].sent_at
    <3>1. at \in Int
      BY <2>1, <2>2, RecordTyped
    <3>. HIDE DEF at
    <3>2. <<Continuing>> \in Seq(TextToken) /\ Moment(at) \in Seq(TextToken)
      BY <1>2, <1>3, <3>1
    <3>3. <<Continuing>> \o Moment(at) \in Seq(TextToken)
      BY <3>2, ConcatProperties
    <3>4. Claim("prior", at, <<Continuing>> \o Moment(at)) \in Claims
      BY <3>1, <3>3 DEF Claim, Claims
    <3>5. Claim("prior", at, <<Continuing>> \o Moment(at)) \in HonestClaim
      BY <3>1, <3>4, HonestPhrases, Honest
    <3>. QED  BY <3>5 DEF at
  <2>. HIDE DEF prior
  <2>3. DOMAIN facts.prior_alerts = 1 .. Len(facts.prior_alerts) /\ Len(facts.prior_alerts) \in Nat
    BY <2>1, LenProperties
  <2>. QED  BY <2>2, <2>3
<1>. HIDE DEF amounts, quotes, window, days_told, priors
<1>9. SetToSeq(found) \in Seq(HonestClaim) /\ IsFiniteSet(found) /\ found \subseteq HonestClaim
  <2>1. IsFiniteSet(amounts \cup quotes)
    BY <1>4, <1>5, FS_Union
  <2>2. IsFiniteSet(found)
    BY <2>1, FS_AddElement
  <2>3. found \subseteq HonestClaim
    BY <1>4, <1>5, <1>6
  <2>. HIDE DEF found
  <2>. QED  BY <2>2, <2>3, SetToSeqTyped
<1>10. continuity \in Seq(HonestClaim)
  <2>1. days_told \o priors \in Seq(HonestClaim)
    BY <1>7, <1>8, ConcatProperties
  <2>. QED  BY <2>1
<1>. HIDE DEF found, continuity
<1>. QED  BY <1>1, <1>9, <1>10, ConcatProperties

\* Claims laid out with a separator are text.
LEMMA SentencesTyped ==
    ASSUME NEW claims \in Seq(Claims), NEW separator \in Seq(TextToken)
    PROVE  sentences(claims, separator) \in Seq(TextToken)
<1>. DEFINE parts == [i \in DOMAIN claims |-> separator \o claims[i].text]
<1>1. Len(claims) \in Nat /\ DOMAIN claims = 1 .. Len(claims)
  BY LenProperties
<1>2. ASSUME NEW i \in DOMAIN claims PROVE separator \o claims[i].text \in Seq(TextToken)
  <2>0. claims[i] \in Claims
    BY <1>1
  <2>1. claims[i].text \in Seq(TextToken)
    BY <2>0 DEF Claims
  <2>. QED  BY <2>1, ConcatProperties
<1>3. parts \in Seq(Seq(TextToken))
  BY <1>1, <1>2
<1>. HIDE DEF parts
<1>4. FlattenSeq(parts) \in Seq(TextToken)
  BY <1>3, FlattenedPlaces
<1>. QED  BY <1>4 DEF sentences, parts

\* An honest draft is text.
LEMMA HonestDraftTyped ==
    ASSUME NEW r \in MessageRequest, NEW facts \in ContinuitySummary
    PROVE  Written(honest_draft(r, facts))
<1>. DEFINE told == sentences(honest_claims(r, facts), <<Stop, NewLine>>)
            title == <<Word, Span(r.city)>>
            body == <<Span(r.city)>> \o told \o <<Stop>>
<1>1. {Word, Stop, NewLine} \subseteq TextToken /\ Span(r.city) \in TextToken
  <2>1. r.city \in SuppliedString
    BY DEF MessageRequest
  <2>. QED  BY <2>1, Phrases DEF CalmToken
<1>2. told \in Seq(TextToken)
  <2>1. <<Stop, NewLine>> \in Seq(TextToken)
    BY <1>1
  <2>2. honest_claims(r, facts) \in Seq(Claims)
    <3>1. HonestClaim \subseteq Claims
      BY DEF HonestClaim, ReadableClaim
    <3>. QED  BY <3>1, HonestClaims
  <2>. QED  BY <2>1, <2>2, SentencesTyped
<1>3. honest_draft(r, facts)
         = Answered(title, body, r.level, r.window.end, honest_claims(r, facts), "honest")
  BY DEF honest_draft
<1>. HIDE DEF told
<1>4. title \in Seq(TextToken)
  BY <1>1
<1>5. body \in Seq(TextToken)
  <2>1. <<Span(r.city)>> \in Seq(TextToken) /\ <<Stop>> \in Seq(TextToken)
    BY <1>1
  <2>2. <<Span(r.city)>> \o told \in Seq(TextToken)
    BY <1>2, <2>1, ConcatProperties
  <2>. QED  BY <2>1, <2>2, ConcatProperties
<1>. HIDE DEF title, body
<1>. QED  BY <1>3, <1>4, <1>5 DEF Written, Answered

\* What a draft opens with, is written with and ends in.
separator(d) == IF d.together THEN <<Connector>> ELSE <<Stop, NewLine>>

opening(r, d) == IF d.defect = "no_city" THEN <<Word>> ELSE <<Span(r.city)>>

ending(d) ==
    LET header == Line(<<Header("Motivos:")>>)
    IN  CASE d.defect = "two_headers" -> header \o header
          [] d.defect = "control" -> <<Control>>
          [] d.defect = "foreign" -> <<Foreign>>
          [] d.defect = "too_long" -> [i \in 1 .. MaxBodyLength |-> Word]
          [] OTHER -> <<>>

\* Any other draft is an opening, its claims, a stop and an ending, all of them text.
LEMMA OtherDraft ==
    ASSUME NEW r \in MessageRequest, NEW d \in Drafts
    PROVE  /\ other_draft(r, d).body
                 = opening(r, d) \o sentences(d.claims, separator(d)) \o <<Stop>> \o ending(d)
           /\ d.claims \in Seq(Claims)
           /\ opening(r, d) \in Seq(TextToken) /\ separator(d) \in Seq(TextToken)
           /\ ending(d) \in Seq(TextToken)
           /\ sentences(d.claims, separator(d)) \in Seq(TextToken)
           /\ Written(other_draft(r, d))
<1>. DEFINE said == sentences(d.claims, separator(d))
            title == IF d.defect = "no_title" THEN <<>> ELSE <<Word>>
            body == opening(r, d) \o said \o <<Stop>> \o ending(d)
<1>1. d.claims \in Seq(Claims)
  BY DraftsAssumption
<1>2. {Word, Stop, NewLine, Connector} \subseteq TextToken /\ Span(r.city) \in TextToken
      /\ {Control, Foreign} \subseteq TextToken
  <2>1. r.city \in SuppliedString
    BY DEF MessageRequest
  <2>2. {Control, Foreign} \subseteq TextToken
    BY DEF Control, Foreign, Token, TextToken, PlainToken
  <2>. QED  BY <2>1, <2>2, Phrases DEF CalmToken
<1>3. opening(r, d) \in Seq(TextToken)
  BY <1>2 DEF opening
<1>4. separator(d) \in Seq(TextToken)
  BY <1>2 DEF separator
<1>5. ending(d) \in Seq(TextToken)
  <2>. DEFINE header == Line(<<Header("Motivos:")>>)
              long == [i \in 1 .. MaxBodyLength |-> Word]
  <2>1. header \in Seq(TextToken)
    <3>1. "Motivos:" \in SECTION_HEADERS
      BY DEF SECTION_HEADERS
    <3>. QED  BY <3>1, HeadingLine
  <2>2. long \in Seq(TextToken)
    BY <1>2, LengthAssumption
  <2>3. ending(d) = CASE d.defect = "two_headers" -> header \o header
                      [] d.defect = "control" -> <<Control>>
                      [] d.defect = "foreign" -> <<Foreign>>
                      [] d.defect = "too_long" -> long
                      [] OTHER -> <<>>
    BY DEF ending
  <2>. HIDE DEF header, long
  <2>4. header \o header \in Seq(TextToken)
    BY <2>1, ConcatProperties
  <2>5. <<Control>> \in Seq(TextToken) /\ <<Foreign>> \in Seq(TextToken) /\ <<>> \in Seq(TextToken)
    BY <1>2
  <2>. QED  BY <2>2, <2>3, <2>4, <2>5
<1>6. said \in Seq(TextToken)
  BY <1>1, <1>4, SentencesTyped
<1>7. /\ other_draft(r, d).body = body
      /\ other_draft(r, d).title = title
  BY DEF other_draft, Answered, opening, separator, ending
<1>. HIDE DEF said
<1>8. body \in Seq(TextToken)
  <2>1. <<Stop>> \in Seq(TextToken)
    BY <1>2
  <2>2. opening(r, d) \o said \in Seq(TextToken)
    BY <1>3, <1>6, ConcatProperties
  <2>3. (opening(r, d) \o said) \o <<Stop>> \in Seq(TextToken)
    BY <2>1, <2>2, ConcatProperties
  <2>. QED  BY <1>5, <2>3, ConcatProperties
<1>9. title \in Seq(TextToken)
  BY <1>2
<1>. QED  BY <1>1, <1>3, <1>4, <1>5, <1>6, <1>7, <1>8, <1>9 DEF Written, said

-----------------------------------------------------------------------------
(* What goes out. *)

\* What the rules ask of how a text looks.
Fits(text, r) ==
    /\ text.level = r.level
    /\ text.valid_until = r.window.end
    /\ Has(text.body, Span(r.city))
    /\ length(text.body) <= MaxBodyLength
    /\ \A h \in SECTION_HEADERS : Occurrences(text.body, Header(h)) <= 1
    /\ ~ Has(text.body, Control) /\ ~ Has(text.body, Foreign)

\* A candidate that breaks no rule looks as it should.
LEMMA ValidFits ==
    ASSUME NEW r, NEW d, Written(d), validate_message(r, d) = {}
    PROVE  Fits(d, r)
<1>. DEFINE broken == validate_message(r, d)
            both == d.title \o d.body
            count(h) == Occurrences(d.body, Header(h))
<1>1. d.title \in Seq(TextToken) /\ d.body \in Seq(TextToken)
  BY DEF Written
<1>2. d.level # r.level => "level_mismatch" \in broken
  BY DEF validate_message
<1>3. d.valid_until # r.window.end => "valid_until_mismatch" \in broken
  BY DEF validate_message
<1>4. ~ Has(d.body, Span(r.city)) => "city_missing" \in broken
  BY DEF validate_message
<1>5. length(d.body) > MaxBodyLength => "body_too_long" \in broken
  BY DEF validate_message
<1>6. (\E h \in SECTION_HEADERS : count(h) > 1) => "forged_section_header" \in broken
  BY DEF validate_message
<1>7. Has(both, Control) => "unsafe_character" \in broken
  BY DEF validate_message
<1>8. Has(both, Foreign) => "disallowed_script" \in broken
  BY DEF validate_message
<1>. HIDE DEF broken
<1>9. broken = {}
  BY DEF broken
<1>10. length(d.body) \in Nat /\ MaxBodyLength \in Nat
  BY <1>1, LengthAdds, LengthAssumption
<1>11. ASSUME NEW h \in SECTION_HEADERS PROVE count(h) \in Nat
  <2>. DEFINE at == {i \in DOMAIN d.body : d.body[i] = Header(h)}
  <2>1. DOMAIN d.body = 1 .. Len(d.body) /\ Len(d.body) \in Nat
    BY <1>1, LenProperties
  <2>2. IsFiniteSet(DOMAIN d.body) /\ at \subseteq DOMAIN d.body
    <3>1. IsFiniteSet(1 .. Len(d.body))
      BY <2>1, FS_Interval
    <3>. QED  BY <2>1, <3>1
  <2>. HIDE DEF at
  <2>3. Cardinality(at) \in Nat
    BY <2>2, FS_Subset, FS_CardinalityType
  <2>. QED  BY <2>3 DEF Occurrences, at
<1>. HIDE DEF both, count
<1>12. ASSUME NEW token, ~ Has(both, token) PROVE ~ Has(d.body, token)
  <2>. DEFINE u == d.title
              v == d.body
  <2>1. u \in Seq(TextToken) /\ v \in Seq(TextToken)
    BY <1>1
  <2>. HIDE DEF u, v
  <2>2. /\ Len(u) \in Nat /\ DOMAIN v = 1 .. Len(v) /\ Len(v) \in Nat
        /\ DOMAIN (u \o v) = 1 .. Len(u) + Len(v)
        /\ \A i \in 1 .. Len(u) + Len(v) : (u \o v)[i] = IF i <= Len(u) THEN u[i] ELSE v[i - Len(u)]
    BY <2>1, ConcatProperties
  <2>3. ASSUME NEW i \in DOMAIN v
        PROVE  Len(u) + i \in DOMAIN (u \o v) /\ (u \o v)[Len(u) + i] = v[i]
    <3>1. Len(u) + i \in 1 .. Len(u) + Len(v) /\ ~ (Len(u) + i <= Len(u)) /\ (Len(u) + i) - Len(u) = i
      BY <2>2
    <3>. QED  BY <2>2, <3>1
  <2>4. Has(v, token) => Has(u \o v, token)
    BY <2>3 DEF Has
  <2>. QED  BY <1>12, <2>4 DEF u, v, both
<1>13. \A h \in SECTION_HEADERS : Occurrences(d.body, Header(h)) <= 1
  <2>1. ASSUME NEW h \in SECTION_HEADERS PROVE count(h) <= 1
    BY <1>6, <1>9, <1>11
  <2>. QED  BY <2>1 DEF count
<1>. QED  BY <1>2, <1>3, <1>4, <1>5, <1>7, <1>8, <1>9, <1>10, <1>12, <1>13 DEF Fits

\* So does the template's message, of every request that leaves it room.
LEMMA TemplateFitsToo ==
    ASSUME NEW r \in MessageRequest,
           length(evaluation(r)) + length(Line(<<Header("Recomendaciones:")>>))
              + length(CHECKLIST_TRUNCATED_ES) <= MaxBodyLength
    PROVE  Fits(template(r), r)
<1>1. /\ body_of(r) \in Seq(TextToken)
      /\ Has(body_of(r), Span(r.city))
      /\ length(body_of(r)) <= MaxBodyLength
      /\ \A h \in SECTION_HEADERS : AtMostOnce(body_of(r), Header(h))
      /\ Free(body_of(r), Control) /\ Free(body_of(r), Foreign)
  BY TemplateFits
<1>2. \A h \in SECTION_HEADERS : Occurrences(body_of(r), Header(h)) <= 1
  BY <1>1, AtMostOnceOccurs
<1>3. ~ Has(body_of(r), Control) /\ ~ Has(body_of(r), Foreign)
  BY <1>1, FreeIsAtMostOnce
<1>4. /\ template(r).level = r.level /\ template(r).valid_until = r.window.end
      /\ template(r).body = body_of(r)
  BY DEF template
<1>. QED  BY <1>1, <1>2, <1>3, <1>4 DEF Fits

\* A request is one of those the cycle may have, but for its continuity,
\* which its evaluation does not look at; and what is on its way fits it.
Shown ==
    /\ length(evaluation(request)) + length(Line(<<Header("Recomendaciones:")>>))
          + length(CHECKLIST_TRUNCATED_ES) <= MaxBodyLength
    /\ stage \in {"read", "compose", "invoked", "notify"} => message = {}
    /\ \A m \in message \ {Template} : Fits(m, request)

\* Nothing is out when a send starts.
LEMMA ShownInit == Init => Shown
<1>. SUFFICES ASSUME Init PROVE Shown
  OBVIOUS
<1>1. PICK r \in Requests : request = [r EXCEPT !.continuity = EMPTY_CONTINUITY]
  BY DEF Init
<1>2. r \in MessageRequest
  BY CompositionAssumption
<1>3. evaluation(request) = evaluation(r)
  <2>1. /\ request.city = r.city /\ request.timezone = r.timezone /\ request.window = r.window
        /\ request.reasons = r.reasons /\ request.senamhi_status = r.senamhi_status
        /\ request.open_meteo_status = r.open_meteo_status
    BY <1>1, <1>2 DEF MessageRequest
  <2>. QED  BY <2>1 DEF evaluation, down_lines
<1>4. message = {}
  BY DEF Init
<1>. QED  BY <1>3, <1>4, RoomAssumption DEF Shown

\* Whatever goes out was judged, or is the template's message.
LEMMA ShownNext == Typed /\ Shown /\ [Next]_vars => Shown'
<1>. SUFFICES ASSUME Typed, Shown, [Next]_vars PROVE Shown'
  OBVIOUS
<1>. USE DEF Shown
<1>1. CASE ReadHistory
  <2>1. request \in MessageRequest /\ message = {} /\ UNCHANGED message
    BY <1>1 DEF ReadHistory, Typed, TypeOK
  <2>2. /\ request'.city = request.city /\ request'.timezone = request.timezone
        /\ request'.window = request.window /\ request'.reasons = request.reasons
        /\ request'.senamhi_status = request.senamhi_status
        /\ request'.open_meteo_status = request.open_meteo_status
    BY <1>1, <2>1 DEF ReadHistory, MessageRequest
  <2>3. evaluation(request') = evaluation(request)
    BY <2>2 DEF evaluation, down_lines
  <2>. QED  BY <2>1, <2>3
<1>2. CASE Invoke
  BY <1>2 DEF Invoke, FellBack
<1>3. ASSUME NEW n, CallTool(n) PROVE Shown'
  BY <1>3 DEF CallTool
<1>4. CASE Answer
  <2>1. PICK d : JudgeDraft(d) /\ Written(d)
    <3>1. request \in MessageRequest /\ tool \subseteq ContinuitySummary
      BY DEF Typed, TypeOK
    <3>2. CASE \E facts \in tool : JudgeDraft(honest_draft(request, facts))
      BY <3>1, <3>2, HonestDraftTyped
    <3>3. CASE \E d \in Drafts : JudgeDraft(other_draft(request, d))
      BY <3>1, <3>3, OtherDraft
    <3>. QED  BY <1>4, <3>2, <3>3 DEF Answer
  <2>2. message = {} /\ UNCHANGED request
    BY <1>4 DEF Answer
  <2>3. CASE message' = {AgentMessage(d)} /\ validate_message(request, d) = {} /\ stage' = "sent"
    <3>1. Fits(d, request)
      BY <2>1, <2>3, ValidFits
    <3>2. Fits(AgentMessage(d), request)
      BY <3>1 DEF Fits, AgentMessage
    <3>. QED  BY <2>2, <2>3, <3>2
  <2>4. CASE UNCHANGED message
    BY <2>2, <2>4
  <2>. QED  BY <2>1, <2>3, <2>4 DEF JudgeDraft
<1>5. CASE InvokeFails \/ Timeout
  BY <1>5 DEF InvokeFails, Timeout, FellBack
<1>6. CASE Notify
  BY <1>6 DEF Notify
<1>7. CASE RecordLate
  BY <1>7 DEF RecordLate
<1>8. CASE Done \/ UNCHANGED vars
  BY <1>8 DEF Done, vars
<1>. QED
  BY <1>1, <1>2, <1>3, <1>4, <1>5, <1>6, <1>7, <1>8 DEF Next

\* Whoever wrote it, whatever the history and whatever the model writes, what
\* goes out has the level and the end the cycle decided, names the city,
\* fits, and forges no section or character (validate_message,
\* TemplateComposer.compose).
THEOREM AlwaysPresentable == Spec => []Presentable
<1>1. Typed /\ Shown => Presentable
  <2>. SUFFICES ASSUME Typed, Shown,
                       NEW text \in IF stage = "compose" THEN {template(request)} ELSE message \ {Template}
                PROVE  Fits(text, request)
    BY DEF Presentable, Fits
  <2>1. request \in MessageRequest
    BY DEF Typed, TypeOK
  <2>2. CASE stage = "compose"
    BY <2>1, <2>2, TemplateFitsToo DEF Shown
  <2>3. CASE stage # "compose"
    BY <2>3 DEF Shown
  <2>. QED  BY <2>2, <2>3
<1>. QED
  BY <1>1, TypeInit, TypeNext, ShownInit, ShownNext, PTL DEF Spec

-----------------------------------------------------------------------------
(* What the rules make of a figure. *)

\* A unit ahead in the phrase, and none since, is the one its clause implies.
LEMMA ImpliedAhead ==
    ASSUME NEW text \in Seq(PlainToken), NEW phrase \in Seq(TextToken), NEW q, Inside(text, q, phrase),
           NEW i \in 1 .. Len(phrase), NEW unit \in {"mm", "%", "h"},
           UnitAhead(phrase, i, unit, CLAUSE_BOUNDARIES)
    PROVE  /\ unit_implied_before(text, q + i) = {unit}
           /\ ~ day_word_before(text, q + i)
<1>1. PICK j \in 1 .. i - 1 :
         /\ phrase[j] = Noun(unit) \/ (unit \in {"mm", "h"} /\ phrase[j] = Unit(unit))
         /\ \A k \in j .. i - 1 : ~ Boundary(phrase[k])
         /\ \A k \in j + 1 .. i - 1 : phrase[k].kind \notin {"noun", "unit"}
  BY DEF UnitAhead, Boundary
<1>. DEFINE units == {k \in clause_before(text, q + i) :
                        \/ text[k].kind = "noun"
                        \/ text[k].kind = "unit" /\ text[k].unit \in {"mm", "h"}}
<1>2. /\ q \in Nat \ {0} /\ Len(phrase) \in Nat
      /\ \A k \in 1 .. Len(phrase) : text[q + k] = phrase[k]
  BY Places DEF Spread
<1>3. j \in 1 .. Len(phrase) /\ j \in Nat /\ i \in Nat /\ j <= i - 1
  BY <1>2
<1>4. ASSUME NEW k \in q + j .. (q + i) - 1 PROVE k - q \in j .. i - 1 /\ text[k] = phrase[k - q]
  <2>1. k - q \in j .. i - 1 /\ k - q \in 1 .. Len(phrase) /\ q + (k - q) = k
    BY <1>2, <1>3
  <2>. QED  BY <1>2, <2>1
<1>5. q + j \in units
  <2>1. q + j \in 1 .. (q + i) - 1
    BY <1>2, <1>3
  <2>2. q + j \in clause_before(text, q + i)
    BY <1>1, <1>4, <2>1 DEF clause_before
  <2>3. text[q + j] = phrase[j]
    BY <1>2, <1>3
  <2>. QED  BY <1>1, <2>2, <2>3 DEF Noun, Unit
<1>6. ASSUME NEW k \in units PROVE k <= q + j
  <2>1. k \in 1 .. (q + i) - 1 /\ text[k].kind \in {"noun", "unit"}
    BY <1>6 DEF clause_before
  <2>2. CASE k > q + j
    <3>1. k \in q + j .. (q + i) - 1 /\ k - q \in j + 1 .. i - 1
      BY <1>2, <1>3, <2>1, <2>2
    <3>2. text[k] = phrase[k - q]
      BY <1>4, <3>1
    <3>. QED  BY <1>1, <2>1, <3>1, <3>2
  <2>. QED  BY <1>2, <1>3, <2>1, <2>2
<1>7. units \in SUBSET Int
  BY <1>2 DEF clause_before
<1>8. unit_implied_before(text, q + i) = IF units = {} THEN {} ELSE {text[Max(units)].unit}
  BY DEF unit_implied_before
<1>. HIDE DEF units
<1>9. Max(units) = q + j /\ units # {}
  BY <1>5, <1>6, <1>7, MaxOf
<1>10. text[q + j].unit = unit
  <2>1. text[q + j] = phrase[j]
    BY <1>2, <1>3
  <2>. QED  BY <1>1, <2>1 DEF Noun, Unit
<1>11. text[(q + i) - 1] # Unit("days")
  <2>1. i - 1 \in 1 .. Len(phrase) /\ (q + i) - 1 = q + (i - 1) /\ i - 1 \in j .. i - 1
    BY <1>2, <1>3
  <2>2. text[(q + i) - 1] = phrase[i - 1]
    BY <1>2, <2>1
  <2>3. CASE i - 1 = j
    BY <1>1, <2>2, <2>3 DEF Noun, Unit
  <2>4. CASE i - 1 # j
    <3>1. i - 1 \in j + 1 .. i - 1
      BY <1>3, <2>4
    <3>2. phrase[i - 1].kind # "unit"
      BY <1>1, <3>1
    <3>. QED  BY <2>2, <3>2 DEF Unit
  <2>. QED  BY <2>3, <2>4
<1>12. ~ day_word_before(text, q + i)
  BY <1>11 DEF day_word_before
<1>. QED  BY <1>8, <1>9, <1>10, <1>12

\* The unit a phrase gives a figure is the one the rules hold it to.
LEMMA MeasuredUnit ==
    ASSUME NEW text \in Seq(PlainToken), NEW phrase \in Seq(TextToken), NEW q, Inside(text, q, phrase),
           NEW i \in 1 .. Len(phrase), NEW unit \in NumberUnit, MeasuredIn(phrase, i, unit, CLAUSE_BOUNDARIES)
    PROVE  unit_of(text, q + i) = {unit}
<1>1. /\ q \in Nat \ {0} /\ Len(text) \in Nat /\ Len(phrase) \in Nat
      /\ q + Len(phrase) + 1 <= Len(text)
      /\ \A j \in 1 .. Len(phrase) : q + j \in 1 .. Len(text) /\ text[q + j] = phrase[j]
      /\ \A k \in 1 .. Len(text) : text[k] \in PlainToken
  <2>1. Spread(text, q, phrase)
    BY Places
  <2>. QED  BY <2>1 DEF Spread
<1>2. text[q + Len(phrase) + 1] \in {Connector, Stop}
  BY DEF Inside
<1>3. i \in Nat /\ i <= Len(phrase) /\ q + i < Len(text) /\ q + i + 1 = q + (i + 1)
  <2>1. q \in Nat /\ Len(phrase) \in Nat /\ Len(text) \in Nat /\ q + Len(phrase) + 1 <= Len(text)
    BY <1>1
  <2>. QED  BY <2>1
<1>4. CASE i < Len(phrase) /\ phrase[i + 1].kind = "unit"
  <2>1. phrase[i + 1] = Unit(unit)
    BY <1>4 DEF MeasuredIn
  <2>2. text[q + i + 1] = Unit(unit)
    <3>1. i + 1 \in 1 .. Len(phrase)
      BY <1>1, <1>3, <1>4
    <3>. QED  BY <1>1, <1>3, <2>1, <3>1
  <2>3. unit_after(text, q + i) = {unit}
    BY <1>3, <2>2 DEF unit_after, Unit
  <2>. QED  BY <2>3 DEF unit_of
<1>5. CASE ~ (i < Len(phrase) /\ phrase[i + 1].kind = "unit")
  <2>1. UnitAhead(phrase, i, unit, CLAUSE_BOUNDARIES)
    BY <1>5 DEF MeasuredIn
  <2>2. unit_after(text, q + i) = {}
    <3>1. text[q + i + 1].kind # "unit"
      <4>1. CASE i < Len(phrase)
        <5>1. i + 1 \in 1 .. Len(phrase)
          BY <1>1, <1>3, <4>1
        <5>. QED  BY <1>1, <1>3, <1>5, <4>1, <5>1
      <4>2. CASE i = Len(phrase)
        BY <1>2, <4>2 DEF Connector, Stop, Token
      <4>. QED  BY <1>1, <1>3, <4>1, <4>2
    <3>. QED  BY <3>1 DEF unit_after
  <2>3. unit_before(text, q + i) = {unit}
    <3>1. CASE unit \in {"mm", "%", "h"}
      BY <2>1, <3>1, ImpliedAhead DEF unit_before
    <3>2. CASE unit = "days"
      <4>1. i > 1 /\ phrase[i - 1] = Unit("days")
        <5>1. \A j \in 1 .. i - 1 : j \in 1 .. Len(phrase)
          BY <1>1, <1>3
        <5>2. \A k \in 1 .. Len(phrase) : phrase[k] \in PlainToken
          BY <1>1
        <5>3. Noun("days") \notin PlainToken
          BY DEF Noun, PlainToken
        <5>. QED  BY <2>1, <3>2, <5>1, <5>2, <5>3 DEF UnitAhead
      <4>2. i - 1 \in 1 .. Len(phrase) /\ (q + i) - 1 = q + (i - 1) /\ q + i > 1
        <5>1. q \in Nat /\ q # 0 /\ Len(phrase) \in Nat
          BY <1>1
        <5>. QED  BY <1>3, <4>1, <5>1
      <4>3. text[(q + i) - 1] = Unit("days")
        BY <1>1, <4>1, <4>2
      <4>4. day_word_before(text, q + i)
        BY <4>2, <4>3 DEF day_word_before
      <4>. QED  BY <3>2, <4>4 DEF unit_before
    <3>. QED  BY <3>1, <3>2 DEF NumberUnit
  <2>. QED  BY <2>2, <2>3 DEF unit_of
<1>. QED  BY <1>4, <1>5

\* A figure that is traced is one of the quantities of its unit.
LEMMA FigureHeld ==
    ASSUME NEW r, NEW text \in Seq(PlainToken), ~ untraceable_numbers(r, text),
           NEW phrase \in Seq(TextToken), NEW q, Inside(text, q, phrase),
           NEW i \in 1 .. Len(phrase), NEW v, phrase[i] \in {Figure(v), Decimal(v)},
           NEW unit \in NumberUnit, MeasuredIn(phrase, i, unit, CLAUSE_BOUNDARIES)
    PROVE  v \in permitted(allowed_numbers(r), {unit})
<1>1. q + i \in DOMAIN text /\ text[q + i] \in {Figure(v), Decimal(v)}
  BY Places DEF Spread
<1>2. text[q + i].kind \in {"figure", "decimal"} /\ text[q + i].value = v
  BY <1>1 DEF Figure, Decimal
<1>3. ~ untraceable(r, text, q + i)
  BY <1>1, <1>2 DEF untraceable_numbers
<1>4. unit_of(text, q + i) = {unit}
  BY MeasuredUnit
<1>. QED  BY <1>2, <1>3, <1>4 DEF untraceable, IsFigure

\* One that a decimal point may part from its unit is some quantity of the
\* forecast.
LEMMA PointHeld ==
    ASSUME NEW r, NEW text \in Seq(PlainToken), ~ untraceable_numbers(r, text),
           NEW phrase \in Seq(TextToken), NEW q, Inside(text, q, phrase),
           NEW i \in 1 .. Len(phrase), NEW v, phrase[i] \in {Figure(v), Decimal(v)},
           NEW unit \in {"mm", "%", "h"}, MeasuredIn(phrase, i, unit, READER_BOUNDARIES)
    PROVE  \E units \in {{}, {"mm"}, {"%"}, {"h"}} : v \in permitted(allowed_numbers(r), units)
<1>1. /\ q \in Nat \ {0} /\ Len(text) \in Nat /\ Len(phrase) \in Nat
      /\ q + Len(phrase) + 1 <= Len(text)
      /\ \A j \in 1 .. Len(phrase) : q + j \in 1 .. Len(text) /\ text[q + j] = phrase[j]
      /\ \A k \in 1 .. Len(text) : text[k] \in PlainToken
  <2>1. Spread(text, q, phrase)
    BY Places
  <2>. QED  BY <2>1 DEF Spread
<1>2. q + i \in DOMAIN text /\ text[q + i] \in {Figure(v), Decimal(v)}
  BY Places DEF Spread
<1>3. text[q + i].kind \in {"figure", "decimal"} /\ text[q + i].value = v
  BY <1>2 DEF Figure, Decimal
<1>4. ~ untraceable(r, text, q + i)
  BY <1>2, <1>3 DEF untraceable_numbers
<1>5. v \in permitted(allowed_numbers(r), unit_of(text, q + i))
  BY <1>3, <1>4 DEF untraceable, IsFigure
<1>6. CASE i < Len(phrase) /\ phrase[i + 1].kind = "unit"
  <2>1. MeasuredIn(phrase, i, unit, CLAUSE_BOUNDARIES) /\ unit \in NumberUnit
    BY <1>6 DEF MeasuredIn, NumberUnit
  <2>2. unit_of(text, q + i) = {unit}
    BY <2>1, MeasuredUnit
  <2>. QED  BY <1>5, <2>2
<1>7. CASE ~ (i < Len(phrase) /\ phrase[i + 1].kind = "unit")
  <2>1. PICK j \in 1 .. i - 1 :
           /\ phrase[j] = Noun(unit) \/ (unit \in {"mm", "h"} /\ phrase[j] = Unit(unit))
           /\ \A k \in j + 1 .. i - 1 : phrase[k].kind \notin {"noun", "unit"}
    BY <1>7 DEF MeasuredIn, UnitAhead
  <2>2. /\ i - 1 \in 1 .. Len(phrase) /\ (q + i) - 1 = q + (i - 1)
        /\ i - 1 = j \/ i - 1 \in j + 1 .. i - 1
    BY <1>1, <2>1
  <2>3. phrase[i - 1] # Unit("days")
    BY <2>1, <2>2 DEF Noun, Unit
  <2>4. unit_before(text, q + i) = unit_implied_before(text, q + i)
    <3>1. text[(q + i) - 1] # Unit("days")
      BY <1>1, <2>2, <2>3
    <3>. QED  BY <3>1 DEF unit_before, day_word_before
  <2>5. unit_implied_before(text, q + i) \in {{}, {"mm"}, {"%"}, {"h"}}
    <3>1. q + i \in 1 .. Len(text)
      BY <1>1
    <3>. QED  BY <3>1, ImpliedUnit
  <2>6. unit_after(text, q + i) = {}
    <3>1. text[q + i + 1].kind # "unit"
      <4>1. CASE i < Len(phrase)
        <5>1. i + 1 \in 1 .. Len(phrase) /\ q + i + 1 = q + (i + 1)
          BY <1>1, <4>1
        <5>. QED  BY <1>1, <1>7, <4>1, <5>1
      <4>2. CASE i = Len(phrase)
        <5>1. text[q + Len(phrase) + 1] \in {Connector, Stop}
          BY DEF Inside
        <5>. QED  BY <4>2, <5>1 DEF Connector, Stop, Token
      <4>. QED  BY <1>1, <4>1, <4>2
    <3>. QED  BY <3>1 DEF unit_after
  <2>7. unit_of(text, q + i) \in {{}, {"mm"}, {"%"}, {"h"}}
    BY <2>4, <2>5, <2>6 DEF unit_of
  <2>. QED  BY <1>5, <2>7
<1>. QED  BY <1>6, <1>7

\* The first word past the numerals of a phrase is the first past them in the
\* text.
LEMMA WordAfter ==
    ASSUME NEW text \in Seq(PlainToken), NEW phrase \in Seq(TextToken), NEW q, Inside(text, q, phrase),
           NEW i \in 1 .. Len(phrase), NEW j \in i + 1 .. Len(phrase),
           Within(phrase, i, j, {"numeral", "connector"}),
           IsWord(phrase[j]), phrase[j].kind \notin {"numeral", "connector"}
    PROVE  word_after(text, q + i) = {q + j}
<1>. DEFINE words == {k \in (q + i) + 1 .. Len(text) :
                        IsWord(text[k]) /\ text[k].kind \notin {"numeral", "connector"}}
<1>1. /\ q \in Nat \ {0} /\ Len(text) \in Nat /\ Len(phrase) \in Nat
      /\ q + Len(phrase) + 1 <= Len(text)
      /\ \A k \in 1 .. Len(phrase) : q + k \in 1 .. Len(text) /\ text[q + k] = phrase[k]
      /\ \A k \in 1 .. Len(text) : text[k] \in PlainToken
  <2>1. Spread(text, q, phrase)
    BY Places
  <2>. QED  BY <2>1 DEF Spread
<1>2. i \in Nat /\ j \in Nat /\ i < j /\ j \in 1 .. Len(phrase)
  BY <1>1
<1>3. q + j \in words
  <2>1. q + j \in (q + i) + 1 .. Len(text) /\ text[q + j] = phrase[j]
    BY <1>1, <1>2
  <2>. QED  BY <2>1
<1>4. ASSUME NEW k \in words PROVE q + j <= k
  <2>1. CASE k < q + j
    <3>1. k - q \in i + 1 .. j - 1 /\ k - q \in 1 .. Len(phrase) /\ q + (k - q) = k
      BY <1>1, <1>2, <2>1
    <3>2. text[k] = phrase[k - q]
      BY <1>1, <3>1
    <3>. QED  BY <3>1, <3>2 DEF Within
  <2>. QED  BY <1>1, <1>2, <2>1
<1>5. words \in SUBSET Int
  BY <1>1, <1>2
<1>6. word_after(text, q + i) = IF words = {} THEN {} ELSE {Min(words)}
  BY DEF word_after
<1>. HIDE DEF words
<1>7. Min(words) = q + j
  BY <1>3, <1>4, <1>5, MinOf
<1>. QED  BY <1>3, <1>6, <1>7

\* A quantity in words, of a unit, is refused wherever it stands.
LEMMA WordsRefused ==
    ASSUME NEW r, NEW text \in Seq(PlainToken), NEW phrase \in Seq(TextToken), NEW q,
           Inside(text, q, phrase), NEW i \in 1 .. Len(phrase), NEW unit \in {"mm", "%", "h"},
           InWords(phrase, i, unit, CLAUSE_BOUNDARIES)
    PROVE  word_numbers(r, text)
<1>1. q + i \in DOMAIN text /\ text[q + i] = phrase[i]
  <2>1. Spread(text, q, phrase) /\ i \in 1 .. Len(phrase)
    BY Places
  <2>2. DOMAIN text = 1 .. Len(text)
    BY LenProperties
  <2>. QED  BY ONLY <2>1, <2>2 DEF Spread
<1>2. CASE phrase[i] = Numeral /\ UnitAhead(phrase, i, unit, CLAUSE_BOUNDARIES)
  <2>1. unit_implied_before(text, q + i) = {unit}
    BY <1>2, ImpliedAhead
  <2>2. unit_implied_before(text, q + i) # {}
    BY <2>1
  <2>. QED  BY <1>1, <1>2, <2>2 DEF word_numbers
<1>3. ASSUME NEW j \in i + 1 .. Len(phrase), phrase[i] = Numeral,
             Within(phrase, i, j, {"numeral", "connector"}), phrase[j] = Unit(unit)
      PROVE  word_numbers(r, text)
  <2>1. IsWord(phrase[j]) /\ phrase[j].kind \notin {"numeral", "connector"}
    BY <1>3 DEF IsWord, Unit
  <2>2. word_after(text, q + i) = {q + j}
    BY <1>3, <2>1, WordAfter
  <2>3. j \in 1 .. Len(phrase)
    <3>1. i \in Nat /\ Len(phrase) \in Nat
      BY LenProperties
    <3>. QED  BY <3>1
  <2>4. text[q + j].kind = "unit" /\ text[q + j].unit # "days"
    <3>1. text[q + j] = Unit(unit)
      BY <1>3, <2>3, Places DEF Spread
    <3>. QED  BY <3>1 DEF Unit
  <2>. QED  BY <1>1, <1>3, <2>2, <2>4 DEF word_numbers
<1>. QED  BY <1>2, <1>3 DEF InWords

\* A figure parted from its unit by a month is some quantity of the forecast.
LEMMA PartedHeld ==
    ASSUME NEW r, NEW text \in Seq(PlainToken), ~ untraceable_numbers(r, text),
           NEW phrase \in Seq(TextToken), NEW q, Inside(text, q, phrase),
           NEW i \in 1 .. Len(phrase) - 1, phrase[i].kind = "prose", phrase[i + 1].kind = "unit",
           i > 1 => phrase[i - 1] # Unit("days")
    PROVE  \E units \in {{}, {"mm"}, {"%"}, {"h"}} :
              phrase[i].value \in permitted(allowed_numbers(r), units)
<1>1. /\ q \in Nat \ {0} /\ Len(text) \in Nat /\ Len(phrase) \in Nat
      /\ q + Len(phrase) + 1 <= Len(text)
      /\ \A j \in 1 .. Len(phrase) : q + j \in 1 .. Len(text) /\ text[q + j] = phrase[j]
      /\ \A k \in 1 .. Len(text) : text[k] \in PlainToken
  <2>1. Spread(text, q, phrase)
    BY Places
  <2>. QED  BY <2>1 DEF Spread
<1>2. i \in 1 .. Len(phrase) /\ i + 1 \in 1 .. Len(phrase) /\ q + (i + 1) = (q + i) + 1 /\ q + i < Len(text)
      /\ DOMAIN text = 1 .. Len(text)
  <2>1. q \in Nat /\ Len(phrase) \in Nat /\ Len(text) \in Nat /\ q + Len(phrase) + 1 <= Len(text)
    BY <1>1
  <2>2. DOMAIN text = 1 .. Len(text)
    BY LenProperties
  <2>. QED  BY <2>1, <2>2
<1>3. text[q + i] = phrase[i] /\ text[(q + i) + 1] = phrase[i + 1] /\ q + i \in DOMAIN text
  BY <1>1, <1>2
<1>4. unit_after(text, q + i) # {}
  BY <1>2, <1>3 DEF unit_after
<1>5. text[(q + i) - 1] # Unit("days")
  <2>1. CASE i = 1
    <3>1. (q + i) - 1 = q
      BY <1>1, <2>1
    <3>2. text[q] \in {Connector, NewLine}
      BY DEF Inside
    <3>. QED  BY <3>1, <3>2 DEF Connector, NewLine, Token, Unit
  <2>2. CASE i > 1
    <3>1. i - 1 \in 1 .. Len(phrase) /\ (q + i) - 1 = q + (i - 1)
      <4>1. q \in Nat /\ Len(phrase) \in Nat /\ i \in 1 .. Len(phrase)
        BY <1>1, <1>2
      <4>. QED  BY <2>2, <4>1
    <3>. QED  BY <1>1, <2>2, <3>1
  <2>. QED  BY <1>2, <2>1, <2>2
<1>6. unit_before(text, q + i) = unit_implied_before(text, q + i)
  BY <1>5 DEF unit_before, day_word_before
<1>7. unit_implied_before(text, q + i) \in {{}, {"mm"}, {"%"}, {"h"}}
  <2>1. q + i \in 1 .. Len(text)
    BY <1>1, <1>2
  <2>. QED  BY <2>1, ImpliedUnit
<1>8. ~ untraceable(r, text, q + i)
  BY <1>3 DEF untraceable_numbers
<1>9. text[q + i].value \in permitted(allowed_numbers(r), unit_before(text, q + i))
  BY <1>3, <1>4, <1>8 DEF untraceable, IsFigure
<1>. QED  BY <1>3, <1>6, <1>7, <1>9

\* A date in prose, with no unit after it, is one the request allows.
LEMMA DateHeld ==
    ASSUME NEW r, NEW text \in Seq(PlainToken), ~ untraceable_numbers(r, text),
           NEW phrase \in Seq(TextToken), NEW q, Inside(text, q, phrase),
           NEW i \in 1 .. Len(phrase), phrase[i].kind = "prose",
           i < Len(phrase) => phrase[i + 1].kind # "unit"
    PROVE  phrase[i].date \in allowed_dates(r)
<1>1. /\ q \in Nat \ {0} /\ Len(text) \in Nat /\ Len(phrase) \in Nat
      /\ q + Len(phrase) + 1 <= Len(text)
      /\ \A j \in 1 .. Len(phrase) : q + j \in 1 .. Len(text) /\ text[q + j] = phrase[j]
      /\ \A k \in 1 .. Len(text) : text[k] \in PlainToken
  <2>1. Spread(text, q, phrase)
    BY Places
  <2>. QED  BY <2>1 DEF Spread
<1>2. text[q + i] = phrase[i] /\ q + i \in DOMAIN text
  <2>1. DOMAIN text = 1 .. Len(text)
    BY LenProperties
  <2>. QED  BY <1>1, <2>1
<1>3. text[(q + i) + 1].kind # "unit"
  <2>1. CASE i < Len(phrase)
    <3>1. i + 1 \in 1 .. Len(phrase) /\ q + (i + 1) = (q + i) + 1
      BY <1>1, <2>1
    <3>. QED  BY <1>1, <2>1, <3>1
  <2>2. CASE i = Len(phrase)
    <3>1. text[(q + i) + 1] \in {Connector, Stop}
      BY <2>2 DEF Inside
    <3>. QED  BY <3>1 DEF Connector, Stop, Token
  <2>. QED  BY <1>1, <2>1, <2>2
<1>4. unit_after(text, q + i) = {}
  BY <1>3 DEF unit_after
<1>5. ~ untraceable(r, text, q + i)
  BY <1>2 DEF untraceable_numbers
<1>. QED  BY <1>2, <1>4, <1>5 DEF untraceable, IsFigure

\* A date and the time next to it are allowed, the time for itself or with
\* its date.
LEMMA MomentHeld ==
    ASSUME NEW r, NEW text \in Seq(PlainToken), ~ untraceable_numbers(r, text),
           NEW phrase \in Seq(TextToken), NEW q, Inside(text, q, phrase),
           NEW i \in 1 .. Len(phrase) - 1, NEW d, NEW t,
           phrase[i] = Date(d), phrase[i + 1] = Time(t)
    PROVE  /\ d \in allowed_dates(r)
           /\ \/ t \in {time_of_day(m) : m \in moments(r)}
              \/ \E m \in prior_moments(r) : d = date(m) /\ t = time_of_day(m)
<1>1. /\ q \in Nat \ {0} /\ Len(text) \in Nat /\ Len(phrase) \in Nat
      /\ q + Len(phrase) + 1 <= Len(text)
      /\ \A j \in 1 .. Len(phrase) : q + j \in 1 .. Len(text) /\ text[q + j] = phrase[j]
      /\ \A k \in 1 .. Len(text) : text[k] \in PlainToken
  <2>1. Spread(text, q, phrase)
    BY Places
  <2>. QED  BY <2>1 DEF Spread
<1>2. DOMAIN text = 1 .. Len(text)
  BY LenProperties
<1>3. i \in 1 .. Len(phrase) /\ i + 1 \in 1 .. Len(phrase) /\ (q + (i + 1)) - 1 = q + i
  BY <1>1
<1>4. text[q + i] = Date(d) /\ text[q + (i + 1)] = Time(t)
      /\ q + i \in DOMAIN text /\ q + (i + 1) \in DOMAIN text
  BY <1>1, <1>2, <1>3
<1>5. ~ untraceable(r, text, q + i) /\ ~ untraceable(r, text, q + (i + 1))
  BY <1>4 DEF untraceable_numbers, Date, Time
<1>6. d \in allowed_dates(r)
  BY <1>4, <1>5 DEF untraceable, IsFigure, Date
<1>7. allowed_time(r, text, q + (i + 1))
  BY <1>4, <1>5 DEF untraceable, IsFigure, Time
<1>. QED  BY <1>3, <1>4, <1>6, <1>7 DEF allowed_time, Date, Time

\* Days in words are refused wherever they stand: an ordinal, or a number of
\* them in a clause that says they are in a row.
LEMMA DaysRefused ==
    ASSUME NEW r, NEW text \in Seq(PlainToken), NEW phrase \in Seq(TextToken), NEW q,
           Inside(text, q, phrase), NEW i \in 1 .. Len(phrase), InWords(phrase, i, "days", CLAUSE_BOUNDARIES)
    PROVE  day_counts_in_words(r, text)
<1>1. /\ q \in Nat \ {0} /\ Len(text) \in Nat /\ Len(phrase) \in Nat
      /\ q + Len(phrase) + 1 <= Len(text)
      /\ \A j \in 1 .. Len(phrase) : q + j \in 1 .. Len(text) /\ text[q + j] = phrase[j]
      /\ \A k \in 1 .. Len(text) : text[k] \in PlainToken
  <2>1. Spread(text, q, phrase)
    BY Places
  <2>. QED  BY <2>1 DEF Spread
<1>2. DOMAIN text = 1 .. Len(text) /\ DOMAIN phrase = 1 .. Len(phrase)
  BY LenProperties
<1>3. q + i \in DOMAIN text /\ text[q + i] = phrase[i] /\ i \in Nat
  BY <1>1, <1>2
<1>4. ASSUME NEW j \in i + 1 .. Len(phrase), phrase[i] = Ordinal, Within(phrase, i, j, {}),
             phrase[j] = Unit("days")
      PROVE  day_counts_in_words(r, text)
  <2>1. j \in 1 .. Len(phrase) /\ j \in Nat /\ i < j
    BY <1>1, <1>3
  <2>2. q + j \in (q + i) + 1 .. Len(text) /\ text[q + j] = Unit("days")
    BY <1>1, <1>3, <1>4, <2>1
  <2>3. ASSUME NEW k \in (q + i) + 1 .. (q + j) - 1 PROVE ~ IsWord(text[k])
    <3>1. k - q \in i + 1 .. j - 1 /\ k - q \in 1 .. Len(phrase) /\ q + (k - q) = k
      BY <1>1, <1>3, <2>1
    <3>2. text[k] = phrase[k - q]
      BY <1>1, <3>1
    <3>. QED  BY <1>4, <3>1, <3>2 DEF Within
  <2>. QED  BY <1>3, <1>4, <2>2, <2>3 DEF day_counts_in_words
<1>5. ASSUME NEW j \in i + 1 .. Len(phrase), phrase[i] = Numeral,
             Within(phrase, i, j, {"numeral", "connector"}),
             phrase[j] = Unit("days") \/ phrase[j] = Jornada,
             NEW c \in DOMAIN phrase, phrase[c] = Continuing, SameClause(phrase, i, c, CLAUSE_BOUNDARIES)
      PROVE  day_counts_in_words(r, text)
  <2>1. j \in 1 .. Len(phrase) /\ c \in 1 .. Len(phrase) /\ c \in Nat
    BY <1>1, <1>2, <1>3
  <2>2. IsWord(phrase[j]) /\ phrase[j].kind \notin {"numeral", "connector"}
    BY <1>5 DEF IsWord, Unit, Jornada, Token
  <2>3. word_after(text, q + i) = {q + j}
    BY <1>5, <2>2, WordAfter
  <2>4. text[q + j] \in {Unit("days"), Jornada}
    BY <1>1, <1>5, <2>1
  <2>5. ASSUME NEW k \in 1 .. Len(text),
               (q + i <= k /\ k <= q + c) \/ (q + c <= k /\ k <= q + i)
        PROVE  ~ Boundary(text[k])
    <3>1. /\ k - q \in 1 .. Len(phrase) /\ q + (k - q) = k
          /\ (i <= k - q /\ k - q <= c) \/ (c <= k - q /\ k - q <= i)
      BY <1>1, <1>3, <2>1, <2>5
    <3>2. text[k] = phrase[k - q]
      BY <1>1, <3>1
    <3>. QED  BY <1>2, <1>5, <3>1, <3>2 DEF SameClause, Boundary
  <2>6. q + c \in clause_around(text, q + i)
    <3>1. q + c \in 1 .. Len(text) /\ q + i \in 1 .. Len(text)
      BY <1>1, <2>1
    <3>2. CASE c < i
      <4>1. q + c \in 1 .. (q + i) - 1
        BY <1>1, <1>3, <2>1, <3>1, <3>2
      <4>2. \A k \in q + c .. (q + i) - 1 : k \in 1 .. Len(text) /\ q + c <= k /\ k <= q + i
        BY <1>1, <1>3, <2>1, <3>1
      <4>. QED  BY <2>5, <4>1, <4>2 DEF clause_around, clause_before
    <3>3. CASE i <= c
      <4>1. q + c \in q + i .. Len(text)
        BY <1>1, <1>3, <2>1, <3>1, <3>3
      <4>2. \A k \in q + i .. q + c : k \in 1 .. Len(text) /\ q + i <= k /\ k <= q + c
        BY <1>1, <1>3, <2>1, <3>1
      <4>. QED  BY <2>5, <4>1, <4>2 DEF clause_around
    <3>. QED  BY <1>3, <2>1, <3>2, <3>3
  <2>7. text[q + c] = Continuing
    BY <1>1, <1>5, <2>1
  <2>. QED  BY <1>3, <1>5, <2>3, <2>4, <2>6, <2>7 DEF day_counts_in_words
<1>. QED  BY <1>4, <1>5 DEF InWords

-----------------------------------------------------------------------------
(* How a draft is laid out. *)

\* Its claims, each after the separator, between an opening and an ending
\* that hold no string of the system's but the city.
Around(r, d, op, sep, e) ==
    /\ op \in Seq(TextToken) /\ e \in Seq(SaidToken) /\ sep \in {<<Connector>>, <<Stop, NewLine>>}
    /\ d.body = op \o sentences(d.claims, sep) \o <<Stop>> \o e
    /\ sep = <<Connector>> => d.origin = "one_sentence"
    /\ \A k \in DOMAIN op : op[k].kind = "span" => op[k] = Span(r.city)

\* A draft is text, its claims read as they are worded, and it is laid out
\* around them.
LaidOut(r, d) ==
    /\ Written(d) /\ d.claims \in Seq(ReadableClaim)
    /\ d.origin = "honest" => d.claims \in Seq(HonestClaim)
    /\ \E op, sep, e : Around(r, d, op, sep, e)

\* An honest draft is laid out so, a sentence to each claim.
LEMMA HonestLaidOut ==
    ASSUME NEW r \in MessageRequest, NEW facts \in ContinuitySummary
    PROVE  LaidOut(r, honest_draft(r, facts))
<1>. DEFINE claims == honest_claims(r, facts)
            sep == <<Stop, NewLine>>
            told == sentences(claims, sep)
            d == honest_draft(r, facts)
            op == <<Span(r.city)>>
            title == <<Word, Span(r.city)>>
            body == op \o told \o <<Stop>>
<1>1. claims \in Seq(HonestClaim)
  BY HonestClaims
<1>2. claims \in Seq(ReadableClaim)
  BY <1>1 DEF HonestClaim
<1>3. Written(d)
  BY HonestDraftTyped
<1>4. d = Answered(title, body, r.level, r.window.end, claims, "honest")
  BY DEF honest_draft
<1>. HIDE DEF told, title, claims
<1>5. d.body = body /\ d.claims = claims /\ d.origin = "honest"
  <2>. HIDE DEF d, body
  <2>. QED  BY <1>4 DEF Answered
<1>6. {Stop, NewLine} \subseteq TextToken /\ Span(r.city) \in TextToken
  <2>1. r.city \in SuppliedString
    BY DEF MessageRequest
  <2>. QED  BY <2>1, Phrases DEF CalmToken
<1>7. op \in Seq(TextToken) /\ <<>> \in Seq(SaidToken) /\ <<>> \in Seq(TextToken) /\ <<Stop>> \in Seq(TextToken)
  BY <1>6
<1>8. told \in Seq(TextToken)
  <2>1. claims \in Seq(Claims) /\ sep \in Seq(TextToken)
    BY <1>2, <1>6 DEF ReadableClaim
  <2>. HIDE DEF sep
  <2>. QED  BY <2>1, SentencesTyped DEF told
<1>9. body = body \o <<>>
  <2>1. op \o told \in Seq(TextToken)
    BY <1>7, <1>8, ConcatProperties
  <2>2. (op \o told) \o <<Stop>> \in Seq(TextToken)
    BY <1>7, <2>1, ConcatProperties
  <2>. QED  BY <2>2, ConcatEmptySeq
<1>10. \A k \in DOMAIN op : op[k] = Span(r.city)
  OBVIOUS
<1>11. Around(r, d, op, sep, <<>>)
  <2>2. d.body = op \o sentences(d.claims, sep) \o <<Stop>> \o <<>>
    BY <1>5, <1>9 DEF told
  <2>. HIDE DEF op, d
  <2>. QED  BY <1>5, <1>7, <1>10, <2>2 DEF Around
<1>. HIDE DEF op, sep, d
<1>. QED  BY <1>1, <1>2, <1>3, <1>5, <1>11 DEF LaidOut, d

\* So is whatever else the model may write, whatever is wrong with it.
LEMMA OtherLaidOut ==
    ASSUME NEW r \in MessageRequest, NEW w \in Drafts
    PROVE  LaidOut(r, other_draft(r, w))
<1>. DEFINE d == other_draft(r, w)
            op == opening(r, w)
            sep == separator(w)
            e == ending(w)
<1>1. /\ d.body = op \o sentences(w.claims, sep) \o <<Stop>> \o e
      /\ op \in Seq(TextToken) /\ e \in Seq(TextToken) /\ Written(d)
  BY OtherDraft
<1>2. d.claims = w.claims /\ d.origin = IF w.together THEN "one_sentence" ELSE "lines"
  BY DEF other_draft, Answered
<1>3. w.claims \in Seq(ReadableClaim)
  <2>1. w.claims \in Seq(Claims) /\ \A claim \in Range(w.claims) : Worded(claim, READER_BOUNDARIES)
    BY DraftsAssumption
  <2>2. \A i \in DOMAIN w.claims : w.claims[i] \in ReadableClaim
    BY <2>1 DEF Range, ReadableClaim
  <2>. QED  BY <2>1, <2>2
<1>4. \A k \in DOMAIN op : op[k].kind = "span" => op[k] = Span(r.city)
  BY DEF opening, Word, Token
<1>5. e \in Seq(SaidToken)
  <2>. DEFINE header == Line(<<Header("Motivos:")>>)
              long == [i \in 1 .. MaxBodyLength |-> Word]
  <2>1. {NewLine, Header("Motivos:"), Control, Foreign, Word} \subseteq SaidToken
    BY DEF SaidToken, TextToken, PlainToken, NewLine, Control, Foreign, Word, Token, Header,
           SECTION_HEADERS
  <2>2. header \in Seq(SaidToken)
    <3>1. <<NewLine>> \in Seq(SaidToken) /\ <<Header("Motivos:")>> \in Seq(SaidToken)
      BY <2>1
    <3>. QED  BY <3>1, ConcatProperties DEF Line
  <2>3. long \in Seq(SaidToken)
    BY <2>1, LengthAssumption
  <2>4. e = CASE w.defect = "two_headers" -> header \o header
              [] w.defect = "control" -> <<Control>>
              [] w.defect = "foreign" -> <<Foreign>>
              [] w.defect = "too_long" -> long
              [] OTHER -> <<>>
    BY DEF ending
  <2>. HIDE DEF header, long, e
  <2>5. header \o header \in Seq(SaidToken)
    BY <2>2, ConcatProperties
  <2>6. <<Control>> \in Seq(SaidToken) /\ <<Foreign>> \in Seq(SaidToken) /\ <<>> \in Seq(SaidToken)
    BY <2>1
  <2>. QED  BY <2>3, <2>4, <2>5, <2>6
<1>6. sep \in {<<Connector>>, <<Stop, NewLine>>} /\ (sep = <<Connector>> => w.together)
  <2>1. <<Connector>> # <<Stop, NewLine>>
    <3>1. Len(<<Connector>>) = 1 /\ Len(<<Stop, NewLine>>) = 2
      OBVIOUS
    <3>. QED  BY <3>1
  <2>. QED  BY <2>1 DEF separator
<1>. HIDE DEF d, op, sep, e
<1>7. Around(r, d, op, sep, e)
  BY <1>1, <1>2, <1>4, <1>5, <1>6 DEF Around
<1>. QED  BY <1>1, <1>2, <1>3, <1>7 DEF LaidOut, d

\* Where the parts of such a body are found in it.
LaidAt(w, a, b, x, e) ==
    /\ Len(a) \in Nat /\ Len(b) \in Nat /\ Len(e) \in Nat
    /\ Len(w) = Len(a) + Len(b) + 1 + Len(e)
    /\ \A i \in 1 .. Len(a) : w[i] = a[i]
    /\ \A i \in 1 .. Len(b) : w[Len(a) + i] = b[i]
    /\ w[Len(a) + Len(b) + 1] = x
    /\ \A i \in 1 .. Len(e) : w[Len(a) + Len(b) + 1 + i] = e[i]

\* They are found where their lengths put them.
LEMMA LaidPlaces ==
    ASSUME NEW T, NEW a \in Seq(T), NEW b \in Seq(T), NEW x \in T, NEW e \in Seq(T)
    PROVE  LaidAt(a \o b \o <<x>> \o e, a, b, x, e)
<1>. DEFINE ab == a \o b
            c == <<x>>
            abc == ab \o c
            w == abc \o e
            l == Len(a)
            m == Len(b)
            n == Len(e)
<1>1. l \in Nat /\ m \in Nat /\ n \in Nat
  BY LenProperties
<1>2. /\ ab \in Seq(T) /\ Len(ab) = l + m
      /\ \A i \in 1 .. l + m : ab[i] = IF i <= l THEN a[i] ELSE b[i - l]
  BY ConcatProperties
<1>3. c \in Seq(T) /\ Len(c) = 1 /\ c[1] = x
  OBVIOUS
<1>. HIDE DEF ab, c, l, m, n
<1>4. /\ abc \in Seq(T) /\ Len(abc) = (l + m) + 1
      /\ \A i \in 1 .. (l + m) + 1 : abc[i] = IF i <= l + m THEN ab[i] ELSE c[i - (l + m)]
  <2>1. /\ abc \in Seq(T) /\ Len(abc) = Len(ab) + Len(c)
        /\ \A i \in 1 .. Len(ab) + Len(c) : abc[i] = IF i <= Len(ab) THEN ab[i] ELSE c[i - Len(ab)]
    BY <1>2, <1>3, ConcatProperties
  <2>. QED  BY <1>2, <1>3, <2>1
<1>. HIDE DEF abc
<1>5. /\ Len(w) = (l + m) + 1 + n
      /\ \A i \in 1 .. (l + m) + 1 + n : w[i] = IF i <= (l + m) + 1 THEN abc[i] ELSE e[i - ((l + m) + 1)]
  <2>1. /\ Len(w) = Len(abc) + Len(e)
        /\ \A i \in 1 .. Len(abc) + Len(e) : w[i] = IF i <= Len(abc) THEN abc[i] ELSE e[i - Len(abc)]
    BY <1>4, ConcatProperties
  <2>. QED  BY <1>1, <1>4, <2>1 DEF n
<1>. HIDE DEF w
<1>6. ASSUME NEW i \in 1 .. l PROVE w[i] = a[i]
  <2>1. i \in 1 .. (l + m) + 1 + n /\ i <= (l + m) + 1 /\ i \in 1 .. (l + m) + 1 /\ i <= l + m
        /\ i \in 1 .. l + m /\ i <= l
    BY <1>1
  <2>. QED  BY <1>2, <1>4, <1>5, <2>1
<1>7. ASSUME NEW i \in 1 .. m PROVE w[l + i] = b[i]
  <2>1. /\ l + i \in 1 .. (l + m) + 1 + n /\ l + i <= (l + m) + 1 /\ l + i \in 1 .. (l + m) + 1
        /\ l + i <= l + m /\ l + i \in 1 .. l + m /\ ~ (l + i <= l) /\ (l + i) - l = i
    BY <1>1
  <2>. QED  BY <1>2, <1>4, <1>5, <2>1
<1>8. w[l + m + 1] = x
  <2>1. /\ l + m + 1 \in 1 .. (l + m) + 1 + n /\ l + m + 1 <= (l + m) + 1
        /\ l + m + 1 \in 1 .. (l + m) + 1 /\ ~ (l + m + 1 <= l + m) /\ (l + m + 1) - (l + m) = 1
    BY <1>1
  <2>. QED  BY <1>3, <1>4, <1>5, <2>1
<1>9. ASSUME NEW i \in 1 .. n PROVE w[l + m + 1 + i] = e[i]
  <2>1. /\ l + m + 1 + i \in 1 .. (l + m) + 1 + n /\ ~ (l + m + 1 + i <= (l + m) + 1)
        /\ (l + m + 1 + i) - ((l + m) + 1) = i
    BY <1>1
  <2>. QED  BY <1>5, <2>1
<1>10. LaidAt(w, a, b, x, e)
  BY <1>1, <1>5, <1>6, <1>7, <1>8, <1>9 DEF LaidAt, l, m, n
<1>. QED  BY <1>10 DEF w, abc, ab, c

\* A claim's phrase stands between separators, or a separator and the stop.
Stands(text, sep, q, phrase) ==
    /\ Inside(text, q, phrase)
    /\ sep = <<Stop, NewLine>> =>
          q > 1 /\ text[q - 1] = Stop /\ text[q + Len(phrase) + 1] = Stop

\* Every claim's phrase stands in the body of its draft.
LEMMA Bracketed ==
    ASSUME NEW r, NEW d, LaidOut(r, d), NEW op, NEW sep, NEW e, Around(r, d, op, sep, e),
           NEW c \in DOMAIN d.claims
    PROVE  \E q \in Nat : Stands(d.body, sep, q, d.claims[c].text)
<1>. DEFINE parts == [i \in DOMAIN d.claims |-> sep \o d.claims[i].text]
            told == FlattenSeq(parts)
            n == Len(d.claims)
            phrase == d.claims[c].text
            s == Len(sep)
<1>1. d.claims \in Seq(Claims) /\ n \in Nat /\ DOMAIN d.claims = 1 .. n
  <2>1. d.claims \in Seq(ReadableClaim) /\ ReadableClaim \subseteq Claims
    BY DEF LaidOut, ReadableClaim
  <2>. QED  BY <2>1, LenProperties
<1>2. /\ sep \in Seq(TextToken) /\ s \in {1, 2} /\ sep[1] \in {Connector, Stop}
      /\ sep[s] \in {Connector, NewLine}
      /\ sep = <<Stop, NewLine>> => s = 2 /\ sep[1] = Stop
  <2>1. {Stop, NewLine, Connector} \subseteq TextToken
    BY Phrases DEF CalmToken
  <2>2. sep \in {<<Connector>>, <<Stop, NewLine>>}
    BY DEF Around
  <2>3. CASE sep = <<Connector>>
    <3>1. sep \in Seq(TextToken) /\ s = 1 /\ sep[1] = Connector
      BY <2>1, <2>3
    <3>2. sep # <<Stop, NewLine>>
      BY <3>1 DEF Connector, Stop, Token
    <3>. HIDE DEF s
    <3>. QED  BY <3>1, <3>2
  <2>4. CASE sep = <<Stop, NewLine>>
    <3>1. sep \in Seq(TextToken) /\ s = 2 /\ sep[1] = Stop /\ sep[2] = NewLine
      BY <2>1, <2>4
    <3>. HIDE DEF s
    <3>. QED  BY <3>1
  <2>. QED  BY <2>2, <2>3, <2>4
<1>. HIDE DEF n, s
<1>3. ASSUME NEW i \in 1 .. n
      PROVE  /\ d.claims[i].text \in Seq(TextToken) /\ Len(d.claims[i].text) \in Nat
             /\ sep \o d.claims[i].text \in Seq(TextToken)
             /\ Len(sep \o d.claims[i].text) = s + Len(d.claims[i].text)
             /\ \A j \in 1 .. s : (sep \o d.claims[i].text)[j] = sep[j]
             /\ \A j \in 1 .. Len(d.claims[i].text) :
                   (sep \o d.claims[i].text)[s + j] = d.claims[i].text[j]
  <2>. DEFINE t == d.claims[i].text
  <2>1. d.claims[i] \in Claims
    BY <1>1
  <2>2. t \in Seq(TextToken)
    BY <2>1 DEF Claims
  <2>. HIDE DEF t
  <2>3. /\ Len(t) \in Nat /\ sep \o t \in Seq(TextToken) /\ Len(sep \o t) = s + Len(t)
        /\ \A j \in 1 .. s + Len(t) : (sep \o t)[j] = IF j <= s THEN sep[j] ELSE t[j - s]
    BY <1>2, <2>2, ConcatProperties, LenProperties DEF s
  <2>4. ASSUME NEW j \in 1 .. s PROVE (sep \o t)[j] = sep[j]
    BY <1>2, <2>3
  <2>5. ASSUME NEW j \in 1 .. Len(t) PROVE (sep \o t)[s + j] = t[j]
    <3>1. s + j \in 1 .. s + Len(t) /\ ~ (s + j <= s) /\ (s + j) - s = j
      BY <1>2, <2>3
    <3>. QED  BY <2>3, <3>1
  <2>. QED  BY <2>2, <2>3, <2>4, <2>5 DEF t
<1>4. /\ parts \in Seq(Seq(TextToken)) /\ Len(parts) = n
      /\ \A i \in 1 .. n : parts[i] = sep \o d.claims[i].text
  BY <1>1, <1>3
<1>5. told = sentences(d.claims, sep)
  BY DEF sentences
<1>. HIDE DEF parts, told
<1>6. PICK ends : PartsEnd(parts, ends)
  BY <1>4, FlattenedPlaces
<1>7. told \in Seq(TextToken)
  BY <1>4, FlattenedPlaces DEF told
<1>8. /\ ends \in [0 .. n -> Nat]
      /\ \A k \in 1 .. n : ends[k] = ends[k - 1] + Len(parts[k])
      /\ Len(told) = ends[n]
      /\ \A k \in 1 .. n : \A j \in 1 .. Len(parts[k]) :
            ends[k - 1] + j \in 1 .. Len(told) /\ told[ends[k - 1] + j] = parts[k][j]
  BY <1>4, <1>6 DEF PartsEnd, told
<1>9. /\ op \in Seq(TextToken) /\ e \in Seq(TextToken) /\ Stop \in TextToken
      /\ d.body = op \o told \o <<Stop>> \o e
  BY <1>5, Phrases DEF Around, SaidToken, CalmToken
<1>10. LaidAt(d.body, op, told, Stop, e)
  BY <1>7, <1>9, LaidPlaces
<1>. DEFINE l == Len(op)
            m == Len(phrase)
            from == ends[c - 1]
            q == l + (from + s)
<1>11. /\ l \in Nat /\ m \in Nat /\ from \in Nat /\ c \in 1 .. n /\ c \in Nat
       /\ Len(told) \in Nat /\ Len(d.body) >= l + Len(told) + 1
       /\ \A i \in 1 .. Len(told) : d.body[l + i] = told[i]
       /\ d.body[l + Len(told) + 1] = Stop
  <2>1. c \in 1 .. n /\ c - 1 \in 0 .. n
    BY <1>1
  <2>2. /\ l \in Nat /\ Len(told) \in Nat /\ Len(e) \in Nat
        /\ Len(d.body) = l + Len(told) + 1 + Len(e)
        /\ \A i \in 1 .. Len(told) : d.body[l + i] = told[i]
        /\ d.body[l + Len(told) + 1] = Stop
    BY <1>10 DEF LaidAt
  <2>3. Len(d.body) >= l + Len(told) + 1
    BY <2>2
  <2>4. m \in Nat
    BY <1>3, <2>1
  <2>5. from \in Nat
    BY <1>8, <2>1
  <2>6. c \in Nat
    BY <2>1
  <2>. HIDE DEF l, m, from
  <2>. QED  BY <2>1, <2>2, <2>3, <2>4, <2>5, <2>6
<1>. HIDE DEF l, m, from, phrase
<1>12. /\ Len(parts[c]) = s + m /\ ends[c] = from + (s + m)
       /\ \A j \in 1 .. s : parts[c][j] = sep[j]
       /\ \A j \in 1 .. m : parts[c][s + j] = phrase[j]
  <2>1. parts[c] = sep \o phrase
    BY <1>4, <1>11 DEF phrase
  <2>2. /\ Len(sep \o phrase) = s + m
        /\ \A j \in 1 .. s : (sep \o phrase)[j] = sep[j]
        /\ \A j \in 1 .. m : (sep \o phrase)[s + j] = phrase[j]
    BY <1>3, <1>11 DEF m, phrase
  <2>3. ends[c] = from + Len(parts[c])
    BY <1>8, <1>11 DEF from
  <2>. QED  BY <2>1, <2>2, <2>3
<1>13. \A j \in 1 .. s + m : from + j \in 1 .. Len(told) /\ d.body[l + (from + j)] = parts[c][j]
  BY <1>8, <1>11, <1>12 DEF from
<1>14. ends[c] <= Len(told) /\ d.body[l + (ends[c] + 1)] \in {Connector, Stop}
       /\ (sep = <<Stop, NewLine>> => d.body[l + (ends[c] + 1)] = Stop)
  <2>1. CASE c = n
    <3>1. ends[c] = Len(told) /\ l + (ends[c] + 1) = l + Len(told) + 1
      BY <1>8, <1>11, <2>1
    <3>. QED  BY <1>11, <3>1
  <2>2. CASE c # n
    <3>1. PICK i \in 1 .. n : i = c + 1 /\ i - 1 = c
      BY <1>1, <1>11, <2>2
    <3>2. /\ Len(d.claims[i].text) \in Nat
          /\ Len(sep \o d.claims[i].text) = s + Len(d.claims[i].text)
          /\ (sep \o d.claims[i].text)[1] = sep[1]
      <4>1. 1 \in 1 .. s
        BY <1>2
      <4>. QED  BY <1>3, <4>1
    <3>3. parts[i] = sep \o d.claims[i].text
      BY <1>4
    <3>4. 1 \in 1 .. Len(parts[i]) /\ parts[i][1] = sep[1]
      <4>1. s \in {1, 2} /\ 1 \in 1 .. s
        BY <1>2
      <4>2. Len(parts[i]) = s + Len(d.claims[i].text)
        BY <3>2, <3>3
      <4>3. parts[i][1] = sep[1]
        BY <3>2, <3>3, Zenon
      <4>. QED  BY <3>2, <4>1, <4>2, <4>3
    <3>5. ends[i - 1] + 1 \in 1 .. Len(told) /\ told[ends[i - 1] + 1] = parts[i][1]
      BY <1>8, <3>4
    <3>6. ends[c] + 1 \in 1 .. Len(told) /\ told[ends[c] + 1] = sep[1]
      BY <3>1, <3>4, <3>5
    <3>7. ends[c] \in Nat
      BY <1>8, <1>11
    <3>8. d.body[l + (ends[c] + 1)] = sep[1]
      BY <1>11, <3>6
    <3>. QED  
      <4>1. ends[c] <= Len(told)
        BY <1>11, <3>6, <3>7
      <4>2. sep[1] \in {Connector, Stop} /\ (sep = <<Stop, NewLine>> => sep[1] = Stop)
        BY <1>2
      <4>. QED  BY <3>8, <4>1, <4>2
  <2>. QED  BY <2>1, <2>2
<1>15. /\ q \in Nat \ {0} /\ q + m + 1 = l + (ends[c] + 1) /\ q + m + 1 <= Len(d.body)
       /\ \A j \in 1 .. m : q + j = l + (from + (s + j)) /\ s + j \in 1 .. s + m
       /\ s \in 1 .. s + m /\ 1 \in 1 .. s
       /\ (s = 2 => q > 1 /\ q - 1 = l + (from + 1) /\ 1 \in 1 .. s + m)
  <2>1. ends[c] = from + (s + m) /\ ends[c] <= Len(told) /\ s \in {1, 2}
    BY <1>2, <1>12, <1>14
  <2>. QED  BY <1>11, <2>1
<1>. HIDE DEF q
<1>16. d.body[q] = sep[s]
  <2>1. q = l + (from + s) /\ s \in 1 .. s + m /\ s \in 1 .. s
    BY <1>2, <1>15 DEF q
  <2>. QED  BY <1>12, <1>13, <2>1
<1>17. \A j \in 1 .. m : d.body[q + j] = phrase[j]
  BY <1>12, <1>13, <1>15
<1>18. Inside(d.body, q, phrase)
  BY <1>2, <1>14, <1>15, <1>16, <1>17 DEF Inside, m
<1>19. ASSUME sep = <<Stop, NewLine>>
       PROVE  q > 1 /\ d.body[q - 1] = Stop /\ d.body[q + Len(phrase) + 1] = Stop
  <2>1. s = 2 /\ sep[1] = Stop
    BY <1>2, <1>19
  <2>2. d.body[q - 1] = parts[c][1]
    BY <1>13, <1>15, <2>1
  <2>. QED  BY <1>12, <1>14, <1>15, <1>19, <2>1, <2>2 DEF m
<1>20. Stands(d.body, sep, q, phrase)
  BY <1>18, <1>19 DEF Stands
<1>. QED  BY <1>15, <1>20 DEF phrase

-----------------------------------------------------------------------------
(* What an accepted draft says of the forecast. *)

\* A candidate that breaks no rule breaks none of those on what it says.
LEMMA ValidSays ==
    ASSUME NEW r, NEW d, validate_message(r, d) = {}
    PROVE  /\ ~ untraceable_numbers(r, residue(r, d))
           /\ ~ word_numbers(r, residue(r, d)) /\ ~ day_counts_in_words(r, residue(r, d))
           /\ ~ senamhi_attribution(r, d.body)
<1>. DEFINE broken == validate_message(r, d)
<1>1. untraceable_numbers(r, residue(r, d)) => "unknown_number" \in broken
  BY DEF validate_message
<1>2. word_numbers(r, residue(r, d)) \/ day_counts_in_words(r, residue(r, d)) => "word_number" \in broken
  BY DEF validate_message
<1>3. senamhi_attribution(r, d.body) => "senamhi_attribution" \in broken
  BY DEF validate_message
<1>. HIDE DEF broken
<1>4. broken = {}
  BY DEF broken
<1>. QED  BY <1>1, <1>2, <1>3, <1>4

\* The claims whose quantity some unit of the forecast vouches for: those
\* that part a figure from its unit, and those that give one in figures.
InFigures(claim) ==
    claim.about = "parted" \/ (claim.about \in {"mm", "%", "h"} /\ claim.value >= 0)

\* Of a readable claim in it the quantity is the request's, for that unit if
\* no decimal point breaks the claim, and so are the dates and times.
Held(r, claim) ==
    LET allowed == allowed_numbers(r)
    IN  /\ Unbroken(claim) =>
              /\ claim.about = "mm" => claim.value \in allowed.mm
              /\ claim.about = "%" => claim.value \in allowed.pct
              /\ claim.about = "h" => claim.value \in allowed.h
              /\ claim.about = "days" => claim.value \in allowed.days
        /\ InFigures(claim) => claim.value \in allowed.mm \cup allowed.pct \cup allowed.h
        /\ claim.about = "date" => claim.value \in allowed_dates(r)
        /\ claim.about = "prior" =>
              /\ date(claim.value) \in allowed_dates(r)
              /\ \/ time_of_day(claim.value) \in {time_of_day(m) : m \in moments(r)}
                 \/ \E m \in prior_moments(r) :
                       date(claim.value) = date(m) /\ time_of_day(claim.value) = time_of_day(m)

\* The claims of a draft that breaks no rule are held to the request.
LEMMA ClaimHeld ==
    ASSUME NEW r, NEW d, LaidOut(r, d), validate_message(r, d) = {}, NEW c \in DOMAIN d.claims
    PROVE  Held(r, d.claims[c])
<1>. DEFINE claim == d.claims[c]
            text == residue(r, d)
<1>1. claim \in Claims /\ Worded(claim, READER_BOUNDARIES) /\ Written(d)
  <2>1. d.claims \in Seq(ReadableClaim)
    BY DEF LaidOut
  <2>2. claim \in ReadableClaim
    BY <2>1
  <2>. QED  BY <2>2 DEF ReadableClaim, LaidOut
<1>2. PICK q : Inside(d.body, q, claim.text)
  <2>1. PICK op, sep, e : Around(r, d, op, sep, e)
    BY DEF LaidOut
  <2>. QED  BY <2>1, Bracketed DEF Stands
<1>. HIDE DEF claim
<1>. DEFINE phrase == claim.text
<1>3. phrase \in Seq(TextToken) /\ claim.value \in Int /\ DOMAIN phrase = 1 .. Len(phrase)
      /\ Len(phrase) \in Nat
  BY <1>1, LenProperties DEF Claims
<1>4. SUFFICES ASSUME claim.about # "quote" PROVE Held(r, claim)
  BY DEF Held, InFigures, claim
<1>5. Unsupplied(phrase)
  BY <1>1, <1>4 DEF Worded, Unsupplied
<1>6. Inside(d.body, q, phrase)
  BY <1>2
<1>. HIDE DEF phrase, text
<1>7. text \in Seq(PlainToken) /\ \E at : Inside(text, at, phrase)
  BY <1>1, <1>3, <1>5, <1>6, InResidue DEF text
<1>8. PICK at : Inside(text, at, phrase)
  BY <1>7
<1>9. ~ untraceable_numbers(r, text) /\ ~ word_numbers(r, text) /\ ~ day_counts_in_words(r, text)
  BY ValidSays DEF text
<1>10. ASSUME NEW unit \in NumberUnit, claim.about = unit, Unbroken(claim)
       PROVE  claim.value \in permitted(allowed_numbers(r), {unit})
  <2>1. PICK i \in 1 .. Len(phrase) :
           \/ /\ phrase[i] \in {Figure(claim.value), Decimal(claim.value)}
              /\ MeasuredIn(phrase, i, unit, CLAUSE_BOUNDARIES)
           \/ claim.value < 0 /\ InWords(phrase, i, unit, CLAUSE_BOUNDARIES)
    BY <1>3, <1>10 DEF Unbroken, Worded, phrase, NumberUnit
  <2>2. CASE /\ phrase[i] \in {Figure(claim.value), Decimal(claim.value)}
             /\ MeasuredIn(phrase, i, unit, CLAUSE_BOUNDARIES)
    BY <1>3, <1>7, <1>8, <1>9, <2>2, FigureHeld
  <2>3. CASE InWords(phrase, i, unit, CLAUSE_BOUNDARIES)
    <3>1. unit \in {"mm", "%", "h"} \/ unit = "days"
      BY DEF NumberUnit
    <3>2. CASE unit \in {"mm", "%", "h"}
      BY <1>3, <1>7, <1>8, <1>9, <2>3, <3>2, WordsRefused
    <3>3. CASE unit = "days"
      BY <1>3, <1>7, <1>8, <1>9, <2>3, <3>3, DaysRefused
    <3>. QED  BY <3>1, <3>2, <3>3
  <2>. QED  BY <2>1, <2>2, <2>3
<1>11. /\ permitted(allowed_numbers(r), {"mm"}) = allowed_numbers(r).mm
       /\ permitted(allowed_numbers(r), {"%"}) = allowed_numbers(r).pct
       /\ permitted(allowed_numbers(r), {"h"}) = allowed_numbers(r).h
       /\ permitted(allowed_numbers(r), {"days"}) = allowed_numbers(r).days
       /\ permitted(allowed_numbers(r), {})
             = allowed_numbers(r).mm \cup allowed_numbers(r).pct \cup allowed_numbers(r).h
  BY DEF permitted
<1>12. ASSUME claim.about = "parted"
       PROVE  claim.value \in allowed_numbers(r).mm \cup allowed_numbers(r).pct \cup allowed_numbers(r).h
  <2>1. PICK i \in 1 .. Len(phrase) - 1 :
           /\ phrase[i].kind = "prose" /\ phrase[i].value = claim.value
           /\ phrase[i + 1].kind = "unit" /\ (i > 1 => phrase[i - 1] # Unit("days"))
    BY <1>1, <1>12 DEF Worded, phrase
  <2>2. \E units \in {{}, {"mm"}, {"%"}, {"h"}} : claim.value \in permitted(allowed_numbers(r), units)
    <3>1. \E units \in {{}, {"mm"}, {"%"}, {"h"}} : phrase[i].value \in permitted(allowed_numbers(r), units)
      BY <1>3, <1>7, <1>8, <1>9, <2>1, PartedHeld
    <3>. QED  BY <2>1, <3>1
  <2>. QED  BY <1>11, <2>2
<1>13. ASSUME claim.about = "date" PROVE claim.value \in allowed_dates(r)
  <2>1. PICK i \in DOMAIN phrase :
           /\ phrase[i].kind = "prose" /\ phrase[i].date = claim.value
           /\ i < Len(phrase) => phrase[i + 1].kind # "unit"
    BY <1>1, <1>13 DEF Worded, phrase
  <2>2. i \in 1 .. Len(phrase)
    BY <1>3
  <2>3. phrase[i].date \in allowed_dates(r)
    BY <1>3, <1>7, <1>8, <1>9, <2>1, <2>2, DateHeld
  <2>. QED  BY <2>1, <2>3
<1>14. ASSUME claim.about = "prior"
       PROVE  /\ date(claim.value) \in allowed_dates(r)
              /\ \/ time_of_day(claim.value) \in {time_of_day(m) : m \in moments(r)}
                 \/ \E m \in prior_moments(r) :
                       date(claim.value) = date(m) /\ time_of_day(claim.value) = time_of_day(m)
  <2>1. PICK i \in 1 .. Len(phrase) - 1 :
           phrase[i] = Date(date(claim.value)) /\ phrase[i + 1] = Time(time_of_day(claim.value))
    BY <1>1, <1>14 DEF Worded, phrase
  <2>. QED  BY <1>3, <1>7, <1>8, <1>9, <2>1, MomentHeld
<1>15. ASSUME claim.about \in {"mm", "%", "h"}, claim.value >= 0
       PROVE  claim.value \in allowed_numbers(r).mm \cup allowed_numbers(r).pct \cup allowed_numbers(r).h
  <2>. DEFINE unit == claim.about
  <2>1. PICK i \in 1 .. Len(phrase) :
           /\ phrase[i] \in {Figure(claim.value), Decimal(claim.value)}
           /\ MeasuredIn(phrase, i, unit, READER_BOUNDARIES)
    <3>1. ~ (claim.value < 0)
      BY <1>3, <1>15
    <3>. QED  BY <1>1, <1>3, <1>15, <3>1 DEF Worded, phrase
  <2>2. unit \in {"mm", "%", "h"}
    BY <1>15
  <2>. HIDE DEF unit
  <2>3. \E units \in {{}, {"mm"}, {"%"}, {"h"}} : claim.value \in permitted(allowed_numbers(r), units)
    BY <1>3, <1>7, <1>8, <1>9, <2>1, <2>2, PointHeld
  <2>. QED  BY <1>11, <2>3
<1>16. {"mm", "%", "h", "days"} = NumberUnit
  BY DEF NumberUnit
<1>. QED  BY <1>10, <1>11, <1>12, <1>13, <1>14, <1>15, <1>16 DEF Held, InFigures

\* A draft is laid out as it was written, and goes out only if it broke no
\* rule.
Vouched ==
    /\ stage \in {"read", "compose", "invoked"} => draft = {}
    /\ stage \in {"read", "compose", "invoked", "notify"} => message = {}
    /\ \A d \in draft : LaidOut(request, d)
    /\ \A m \in message : m.composed_by = "agent" => \A d \in draft : validate_message(request, d) = {}

\* There is no draft when a send starts.
LEMMA VouchedInit == Init => Vouched
  BY DEF Init, Vouched

\* A draft is judged in the step that brings it, and none comes after.
LEMMA VouchedNext == Typed /\ Vouched /\ [Next]_vars => Vouched'
<1>. SUFFICES ASSUME Typed, Vouched, [Next]_vars PROVE Vouched'
  OBVIOUS
<1>. USE DEF Vouched
<1>1. CASE ReadHistory
  BY <1>1 DEF ReadHistory
<1>2. CASE Invoke
  BY <1>2 DEF Invoke, FellBack
<1>3. ASSUME NEW n, CallTool(n) PROVE Vouched'
  BY <1>3 DEF CallTool
<1>4. CASE Answer
  <2>1. PICK d : JudgeDraft(d) /\ LaidOut(request, d)
    <3>1. request \in MessageRequest /\ tool \subseteq ContinuitySummary
      BY DEF Typed, TypeOK
    <3>2. CASE \E facts \in tool : JudgeDraft(honest_draft(request, facts))
      BY <3>1, <3>2, HonestLaidOut
    <3>3. CASE \E w \in Drafts : JudgeDraft(other_draft(request, w))
      BY <3>1, <3>3, OtherLaidOut
    <3>. QED  BY <1>4, <3>2, <3>3 DEF Answer
  <2>2. message = {} /\ UNCHANGED request
    BY <1>4 DEF Answer
  <2>3. draft' = {d}
    BY <2>1 DEF JudgeDraft
  <2>4. CASE validate_message(request, d) = {} /\ stage' = "sent"
    BY <2>1, <2>2, <2>3, <2>4
  <2>5. CASE stage' = "notify" /\ UNCHANGED message
    BY <2>1, <2>2, <2>3, <2>5
  <2>. QED  BY <2>1, <2>4, <2>5 DEF JudgeDraft, FellBack
<1>5. CASE InvokeFails \/ Timeout
  BY <1>5 DEF InvokeFails, Timeout, FellBack
<1>6. CASE Notify
  <2>1. Template.composed_by # "agent"
    BY DEF Template
  <2>. QED  BY <1>6, <2>1 DEF Notify
<1>7. CASE RecordLate
  BY <1>7 DEF RecordLate
<1>8. CASE Done \/ UNCHANGED vars
  BY <1>8 DEF Done, vars
<1>. QED
  BY <1>1, <1>2, <1>3, <1>4, <1>5, <1>6, <1>7, <1>8 DEF Next

\* The claims that reach a resident are held to the request.
LEMMA AcceptedHeld ==
    ASSUME Typed, Vouched, NEW d \in draft, NEW claim \in Range(d.claims), Accepted(claim)
    PROVE  Held(request, claim)
<1>1. PICK e \in draft : claim \in Range(e.claims) /\ validate_message(request, e) = {}
  BY DEF Accepted, Vouched
<1>2. PICK c \in DOMAIN e.claims : claim = e.claims[c]
  BY <1>1 DEF Range
<1>3. LaidOut(request, e)
  BY DEF Vouched
<1>. QED  BY <1>1, <1>2, <1>3, ClaimHeld

\* No amount reaches a resident as a quantity the forecast does not give it
\* for, whatever claims the model strings together and however it lays them
\* out; where a decimal point parts a figure from its unit it is at least one
\* of the forecast's (_untraceable_numbers, _unit_implied_before,
\* _word_numbers).
THEOREM FiguresAreAlwaysTheForecasts == Spec => []FiguresAreTheForecasts
<1>1. Typed /\ Vouched => FiguresAreTheForecasts
  <2>. SUFFICES ASSUME Typed, Vouched, NEW d \in draft, NEW claim \in Range(d.claims),
                       Accepted(claim)
                PROVE  /\ Unbroken(claim) =>
                             /\ claim.about = "mm" => IsRainfall(claim.value)
                             /\ claim.about = "%" => IsProbability(claim.value)
                             /\ claim.about = "h" => IsHorizon(claim.value)
                       /\ InFigures(claim) =>
                             IsRainfall(claim.value) \/ IsProbability(claim.value) \/ IsHorizon(claim.value)
    BY DEF FiguresAreTheForecasts, InFigures
  <2>1. Held(request, claim)
    BY AcceptedHeld
  <2>2. \A v \in allowed_numbers(request).mm : IsRainfall(v)
    BY DEF allowed_numbers, IsRainfall, thresholds_met
  <2>3. \A v \in allowed_numbers(request).pct : IsProbability(v)
    BY DEF allowed_numbers, IsProbability, thresholds_met
  <2>4. \A v \in allowed_numbers(request).h : IsHorizon(v)
    BY DEF allowed_numbers, IsHorizon, thresholds_met
  <2>. QED  BY <2>1, <2>2, <2>3, <2>4 DEF Held
<1>. QED
  BY <1>1, TypeInit, TypeNext, VouchedInit, VouchedNext, PTL DEF Spec

-----------------------------------------------------------------------------
(* What it says of the history. *)

\* The history the rules hold a draft to is what the application made of the
\* alerts on record, or none of it.
Remembered ==
    /\ known \subseteq AlertRecord /\ IsFiniteSet(known) /\ Keyed(known)
    /\ \A a \in known : a.window.start <= a.sent_at + days(LookbackDays)
    /\ stage = "read" => request.continuity = EMPTY_CONTINUITY
    /\ request.continuity \in {EMPTY_CONTINUITY,
                               read_continuity(known, AsOf, request.level,
                                               top_warning_level(request.reasons))}

\* No history is known when a send starts.
LEMMA RememberedInit == Init => Remembered
<1>. SUFFICES ASSUME Init PROVE Remembered
  OBVIOUS
<1>1. PICK r \in Requests : request = [r EXCEPT !.continuity = EMPTY_CONTINUITY]
  BY DEF Init
<1>2. r \in MessageRequest
  BY CompositionAssumption
<1>3. request.continuity = EMPTY_CONTINUITY
  BY <1>1, <1>2 DEF MessageRequest
<1>4. known = {}
  BY DEF Init
<1>. QED  BY <1>3, <1>4, FS_EmptySet DEF Remembered, Keyed

\* The history is read once; nothing that happens later changes what was
\* read.
LEMMA RememberedNext == Typed /\ Agreed /\ Remembered /\ [Next]_vars => Remembered'
<1>. SUFFICES ASSUME Typed, Agreed, Remembered, [Next]_vars PROVE Remembered'
  OBVIOUS
<1>1. CASE ReadHistory
  <2>. DEFINE summary == read_continuity(history, AsOf, request.level,
                                         top_warning_level(request.reasons))
  <2>1. /\ known' = history /\ stage = "read" /\ stage' = "compose"
        /\ request' = [request EXCEPT !.continuity = summary] \/ UNCHANGED request
    BY <1>1 DEF ReadHistory
  <2>2. /\ history \subseteq AlertRecord /\ IsFiniteSet(history) /\ Keyed(history)
        /\ \A a \in history : a.window.start <= a.sent_at + days(LookbackDays)
        /\ request \in MessageRequest
    BY DEF Typed, TypeOK, Table, Agreed
  <2>. HIDE DEF summary
  <2>3. CASE request' = [request EXCEPT !.continuity = summary]
    <3>1. /\ request'.continuity = summary
          /\ request'.level = request.level /\ request'.reasons = request.reasons
      BY <2>2, <2>3 DEF MessageRequest
    <3>. QED  BY <2>1, <2>2, <3>1 DEF Remembered, summary
  <2>4. CASE UNCHANGED request
    <3>1. request.continuity = EMPTY_CONTINUITY
      BY <2>1 DEF Remembered
    <3>. QED  BY <2>1, <2>2, <2>4, <3>1 DEF Remembered
  <2>. QED  BY <2>1, <2>3, <2>4
<1>2. CASE UNCHANGED <<known, request>> /\ (stage' = "read" => stage = "read")
  BY <1>2 DEF Remembered
<1>3. CASE Answer
  <2>1. PICK d : JudgeDraft(d)
    BY <1>3 DEF Answer
  <2>. QED  BY <1>2, <1>3, <2>1 DEF Answer, JudgeDraft, FellBack
<1>. QED
  BY <1>1, <1>2, <1>3
  DEF Next, Invoke, CallTool, InvokeFails, Timeout, Notify, RecordLate, Done, vars, FellBack

\* The earlier alerts the rules let a draft mention were really sent.
LEMMA PriorsWereSent ==
    ASSUME Typed, Remembered, SentPromptly
    PROVE  /\ \A t \in prior_moments(request) :
                 t \in Int /\ \E a \in known : SentWithin(a, AsOf) /\ a.sent_at = t
           /\ \A v \in allowed_numbers(request).days :
                 \E n \in 2 .. LookbackDays + 1 : v = Whole(n) /\ InARow(n) /\ ~ InARow(n + 1)
<1>. DEFINE summary == request.continuity
            prior == summary.prior_alerts
            rows == qualifying(known, AsOf)
            n == summary.consecutive_days
<1>1. known \in SUBSET AlertRecord /\ AsOf \in Int /\ LookbackDays \in Nat /\ MaxPriorAlerts \in Nat
  BY CompositionAssumption, HistoryAssumption DEF Remembered
<1>2. \/ summary = EMPTY_CONTINUITY
      \/ rows # {} /\ n = consecutive_days(rows, AsOf) /\ Range(prior) = rows
  <2>1. \A a \in known : a.window.start <= a.sent_at + days(LookbackDays)
                         /\ a.sent_at - days(1) <= a.window.start
    BY DEF Remembered, SentPromptly
  <2>2. CASE summary = read_continuity(known, AsOf, request.level, top_warning_level(request.reasons))
    BY <1>1, <2>1, <2>2, ReadTells DEF Remembered
  <2>. QED  BY <2>2 DEF Remembered
<1>3. \A a \in rows : a \in known /\ SentWithin(a, AsOf)
  BY DEF qualifying, SentWithin
<1>4. \A a \in known : SentWithin(a, AsOf) => a \in rows
  BY DEF qualifying, SentWithin
<1>5. summary \in ContinuitySummary
  BY DEF Typed, TypeOK, MessageRequest
<1>6. ASSUME NEW t \in prior_moments(request)
      PROVE  t \in Int /\ \E a \in known : SentWithin(a, AsOf) /\ a.sent_at = t
  <2>1. PICK i \in 1 .. Min({MaxPriorAlerts, Len(prior)}) : t = prior[i].sent_at
    BY <1>6 DEF prior_moments
  <2>2. summary # EMPTY_CONTINUITY
    BY <1>6 DEF prior_moments, EMPTY_CONTINUITY
  <2>3. prior \in Seq(AlertRecord) /\ Len(prior) \in Nat /\ DOMAIN prior = 1 .. Len(prior)
    BY <1>5 DEF ContinuitySummary
  <2>. HIDE DEF prior
  <2>4. i \in DOMAIN prior
    <3>. DEFINE l == Len(prior)
    <3>1. l \in Nat
      BY <2>3
    <3>. HIDE DEF l
    <3>2. Min({MaxPriorAlerts, l}) = IF MaxPriorAlerts <= l THEN MaxPriorAlerts ELSE l
      BY <1>1, <3>1, MinOfTwo
    <3>3. i \in 1 .. l
      BY <1>1, <2>1, <3>1, <3>2 DEF l
    <3>. QED  BY <2>3, <3>3 DEF l
  <2>5. prior[i] \in Range(prior) /\ prior[i].sent_at \in Int
    BY <2>3, <2>4, RecordTyped DEF Range
  <2>6. prior[i] \in known /\ SentWithin(prior[i], AsOf)
    BY <1>2, <1>3, <2>2, <2>5 DEF prior
  <2>. QED  BY <2>1, <2>5, <2>6
<1>7. ASSUME NEW v \in allowed_numbers(request).days
      PROVE  \E k \in 2 .. LookbackDays + 1 : v = Whole(k) /\ InARow(k) /\ ~ InARow(k + 1)
  <2>1. n > 1 /\ v = Whole(n)
    BY <1>7 DEF allowed_numbers
  <2>2. rows # {} /\ n = consecutive_days(rows, AsOf)
    BY <1>2, <2>1 DEF EMPTY_CONTINUITY
  <2>. HIDE DEF rows, n
  <2>3. /\ n \in 1 .. LookbackDays + 1
        /\ \A k \in 1 .. n - 1 : \E a \in rows : date(a.sent_at) = date(AsOf) - k
        /\ n <= LookbackDays => ~ \E a \in rows : date(a.sent_at) = date(AsOf) - n
    BY <2>2, DaysInARow
  <2>4. n \in 2 .. LookbackDays + 1
    BY <1>1, <2>1, <2>3
  <2>5. InARow(n)
    BY <1>3, <2>2, <2>3 DEF InARow
  <2>6. ~ InARow(n + 1)
    <3>. SUFFICES ASSUME InARow(n + 1) PROVE FALSE
      OBVIOUS
    <3>1. n \in 1 .. (n + 1) - 1
      BY <1>1, <2>4
    <3>2. PICK a \in known : SentWithin(a, AsOf) /\ date(a.sent_at) = date(AsOf) - n
      BY <3>1 DEF InARow
    <3>3. a \in rows
      BY <1>4, <3>2
    <3>4. n = LookbackDays + 1
      BY <1>1, <2>3, <2>4, <3>2, <3>3
    <3>5. a.sent_at \in Int /\ AsOf - days(LookbackDays) <= a.sent_at
      BY <1>1, <3>2, RecordTyped DEF SentWithin
    <3>6. date(AsOf) - LookbackDays <= date(a.sent_at)
      BY <1>1, <3>5, DatesBack
    <3>7. date(AsOf) \in Int
      BY <1>1, Calendar
    <3>. QED  BY <1>1, <3>2, <3>4, <3>6, <3>7
  <2>. QED  BY <2>1, <2>4, <2>5, <2>6
<1>. QED  BY <1>6, <1>7

\* A resident is told of days in a row, or of an earlier alert, only as they
\* were when the cycle started, for every table the application may have
\* read; of days only where no decimal point breaks what is said of them
\* (read_continuity, summarize, _allowed_numbers, _allowed_moments).
THEOREM ContinuityIsAlwaysTrue == Spec => []ContinuityIsTrue
<1>1. Typed /\ Vouched /\ Remembered => ContinuityIsTrue
  <2>. SUFFICES ASSUME Typed, Vouched, Remembered, SentPromptly,
                       NEW d \in draft, NEW claim \in Range(d.claims), Accepted(claim)
                PROVE  /\ claim.about = "days" /\ Unbroken(claim) =>
                             \E n \in 2 .. LookbackDays + 1 :
                                claim.value = Whole(n) /\ InARow(n) /\ ~ InARow(n + 1)
                       /\ claim.about = "prior" =>
                             \/ date(claim.value) \in OwnDates /\ time_of_day(claim.value) \in OwnTimes
                             \/ \E a \in known :
                                   /\ SentWithin(a, AsOf)
                                   /\ date(a.sent_at) = date(claim.value)
                                   /\ a.sent_at = claim.value \/ time_of_day(claim.value) \in OwnTimes
                       /\ claim.about = "date" =>
                             \/ claim.value \in OwnDates
                             \/ \E a \in known : SentWithin(a, AsOf) /\ date(a.sent_at) = claim.value
    BY DEF ContinuityIsTrue
  <2>1. Held(request, claim)
    BY AcceptedHeld
  <2>2. claim.value \in Int
    <3>1. PICK c \in DOMAIN d.claims : claim = d.claims[c]
      BY DEF Range
    <3>2. d.claims \in Seq(ReadableClaim)
      BY DEF Vouched, LaidOut
    <3>3. d.claims[c] \in ReadableClaim
      BY <3>2
    <3>. QED  BY <3>1, <3>3 DEF ReadableClaim, Claims
  <2>3. \A t \in prior_moments(request) :
           t \in Int /\ \E a \in known : SentWithin(a, AsOf) /\ a.sent_at = t
    BY PriorsWereSent
  <2>4. ASSUME claim.about = "days", Unbroken(claim)
        PROVE  \E n \in 2 .. LookbackDays + 1 :
                  claim.value = Whole(n) /\ InARow(n) /\ ~ InARow(n + 1)
    BY <2>1, <2>4, PriorsWereSent DEF Held
  <2>5. \A v \in allowed_dates(request) :
           v \in OwnDates \/ \E a \in known : SentWithin(a, AsOf) /\ date(a.sent_at) = v
    BY <2>3 DEF allowed_dates, OwnDates
  <2>6. ASSUME claim.about = "prior"
        PROVE  \/ date(claim.value) \in OwnDates /\ time_of_day(claim.value) \in OwnTimes
               \/ \E a \in known :
                     /\ SentWithin(a, AsOf)
                     /\ date(a.sent_at) = date(claim.value)
                     /\ a.sent_at = claim.value \/ time_of_day(claim.value) \in OwnTimes
    <3>1. CASE time_of_day(claim.value) \in OwnTimes
      BY <2>1, <2>5, <2>6, <3>1 DEF Held
    <3>2. ASSUME NEW t \in prior_moments(request),
                 date(claim.value) = date(t), time_of_day(claim.value) = time_of_day(t)
          PROVE  \E a \in known : SentWithin(a, AsOf) /\ date(a.sent_at) = date(claim.value)
                                  /\ a.sent_at = claim.value
      <4>1. t \in Int
        BY <2>3
      <4>2. claim.value = t
        BY <2>2, <3>2, <4>1, SameInstant
      <4>. QED  BY <2>3, <4>2
    <3>3. \/ time_of_day(claim.value) \in {time_of_day(m) : m \in moments(request)}
          \/ \E m \in prior_moments(request) :
                date(claim.value) = date(m) /\ time_of_day(claim.value) = time_of_day(m)
      BY <2>1, <2>6 DEF Held
    <3>. QED  BY <3>1, <3>2, <3>3 DEF OwnTimes
  <2>7. ASSUME claim.about = "date"
        PROVE  \/ claim.value \in OwnDates
               \/ \E a \in known : SentWithin(a, AsOf) /\ date(a.sent_at) = claim.value
    BY <2>1, <2>5, <2>7 DEF Held
  <2>. QED  BY <2>4, <2>6, <2>7
<1>. QED
  BY <1>1, TypeInit, TypeNext, AgreedInit, AgreedNext, VouchedInit, VouchedNext,
     RememberedInit, RememberedNext, PTL DEF Spec

-----------------------------------------------------------------------------
(* What it says in SENAMHI's name. *)

\* A string of the system's in a body, other than the city, is one that some
\* claim quotes.
LEMMA QuotedByClaim ==
    ASSUME NEW r, NEW d, LaidOut(r, d), NEW k \in 1 .. Len(d.body),
           d.body[k].kind = "span", d.body[k] # Span(r.city)
    PROVE  \E claim \in Range(d.claims) : claim.about = "quote"
<1>1. PICK op, sep, e : Around(r, d, op, sep, e)
  BY DEF LaidOut
<1>. DEFINE parts == [i \in DOMAIN d.claims |-> sep \o d.claims[i].text]
            told == FlattenSeq(parts)
            n == Len(d.claims)
            l == Len(op)
            m == Len(told)
<1>2. /\ op \in Seq(TextToken) /\ e \in Seq(SaidToken) /\ e \in Seq(TextToken)
      /\ Stop \in TextToken /\ sep \in Seq(SaidToken)
      /\ d.body = op \o told \o <<Stop>> \o e
      /\ \A i \in DOMAIN op : op[i].kind = "span" => op[i] = Span(r.city)
  <2>1. {Stop, NewLine, Connector} \subseteq SaidToken /\ SaidToken \subseteq TextToken
    BY Phrases DEF SaidToken, CalmToken, Stop, NewLine, Connector, Token
  <2>2. sep \in {<<Connector>>, <<Stop, NewLine>>} /\ e \in Seq(SaidToken)
    BY <1>1 DEF Around
  <2>3. sep \in Seq(SaidToken)
    <3>1. <<Connector>> \in Seq(SaidToken) /\ <<Stop, NewLine>> \in Seq(SaidToken)
      BY <2>1
    <3>. QED  BY <2>2, <3>1
  <2>4. e \in Seq(TextToken)
    BY <2>1, <2>2, SeqMonotonic
  <2>. QED  BY <1>1, <2>1, <2>2, <2>3, <2>4 DEF Around, sentences
<1>3. /\ n \in Nat /\ DOMAIN d.claims = 1 .. n
      /\ \A i \in 1 .. n : d.claims[i] \in ReadableClaim
  <2>1. d.claims \in Seq(ReadableClaim)
    BY DEF LaidOut
  <2>. QED  BY <2>1, LenProperties
<1>. HIDE DEF n
<1>4. ASSUME NEW i \in 1 .. n
      PROVE  /\ sep \o d.claims[i].text \in Seq(TextToken)
             /\ \A j \in 1 .. Len(sep \o d.claims[i].text) :
                   (sep \o d.claims[i].text)[j].kind = "span" => d.claims[i].about = "quote"
  <2>. DEFINE t == d.claims[i].text
              w == sep \o t
  <2>1. d.claims[i] \in Claims /\ Worded(d.claims[i], READER_BOUNDARIES)
    BY <1>3 DEF ReadableClaim
  <2>2. t \in Seq(TextToken)
    BY <2>1 DEF Claims
  <2>3. sep \in Seq(TextToken)
    BY <1>2, SeqMonotonic DEF SaidToken
  <2>4. d.claims[i].about # "quote" => \A j \in DOMAIN t : t[j].kind # "span"
    BY <2>1 DEF Worded
  <2>. HIDE DEF t
  <2>5. /\ sep \o t \in Seq(TextToken) /\ Len(sep) \in Nat /\ Len(t) \in Nat
        /\ DOMAIN t = 1 .. Len(t) /\ Len(sep \o t) = Len(sep) + Len(t)
        /\ \A j \in 1 .. Len(sep) + Len(t) : (sep \o t)[j] = IF j <= Len(sep) THEN sep[j] ELSE t[j - Len(sep)]
    BY <2>2, <2>3, ConcatProperties, LenProperties
  <2>6. \A j \in 1 .. Len(sep) : sep[j].kind # "span"
    BY <1>2 DEF SaidToken
  <2>. HIDE DEF w
  <2>7. ASSUME NEW j \in 1 .. Len(sep) + Len(t), (sep \o t)[j].kind = "span"
        PROVE  d.claims[i].about = "quote"
    <3>1. CASE j <= Len(sep)
      <4>1. j \in 1 .. Len(sep) /\ (sep \o t)[j] = sep[j]
        BY <2>5, <3>1
      <4>. QED  BY <2>6, <2>7, <4>1
    <3>2. CASE ~ (j <= Len(sep))
      <4>1. j - Len(sep) \in 1 .. Len(t) /\ (sep \o t)[j] = t[j - Len(sep)]
        BY <2>5, <3>2
      <4>. QED  BY <2>4, <2>5, <2>7, <4>1
    <3>. QED  BY <3>1, <3>2
  <2>. QED  BY <2>5, <2>7 DEF t
<1>5. /\ parts \in Seq(Seq(TextToken)) /\ Len(parts) = n
      /\ \A i \in 1 .. n : parts[i] = sep \o d.claims[i].text
  BY <1>3, <1>4
<1>. HIDE DEF parts
<1>6. PICK ends : PartsEnd(parts, ends)
  BY <1>5, FlattenedPlaces
<1>7. told \in Seq(TextToken)
  BY <1>5, FlattenedPlaces
<1>8. /\ m = ends[n]
      /\ \A i \in 1 .. n : \A j \in 1 .. Len(parts[i]) : told[ends[i - 1] + j] = parts[i][j]
      /\ \A i \in 1 .. m : \E c \in 1 .. n : \E j \in 1 .. Len(parts[c]) : i = ends[c - 1] + j
  BY <1>5, <1>6 DEF PartsEnd
<1>. HIDE DEF told
<1>9. LaidAt(d.body, op, told, Stop, e)
  BY <1>2, <1>7, LaidPlaces
<1>10. /\ l \in Nat /\ m \in Nat /\ Len(e) \in Nat
       /\ Len(d.body) = l + m + 1 + Len(e)
       /\ \A i \in 1 .. l : d.body[i] = op[i]
       /\ \A i \in 1 .. m : d.body[l + i] = told[i]
       /\ d.body[l + m + 1] = Stop
       /\ \A i \in 1 .. Len(e) : d.body[l + m + 1 + i] = e[i]
  BY <1>9 DEF LaidAt
<1>. HIDE DEF l, m
<1>11. CASE k <= l
  <2>1. k \in 1 .. l /\ k \in DOMAIN op
    BY <1>2, <1>10, <1>11, LenProperties DEF l
  <2>. QED  BY <1>2, <1>10, <2>1
<1>12. CASE k \in l + 1 .. l + m
  <2>1. k - l \in 1 .. m /\ l + (k - l) = k
    BY <1>10, <1>12
  <2>2. PICK c \in 1 .. n : \E j \in 1 .. Len(parts[c]) : k - l = ends[c - 1] + j
    BY <1>8, <2>1
  <2>3. PICK j \in 1 .. Len(parts[c]) : k - l = ends[c - 1] + j
    BY <2>2
  <2>4. d.body[k] = told[k - l]
    BY <1>10, <2>1
  <2>5. told[k - l] = parts[c][j]
    BY <1>8, <2>3
  <2>6. d.claims[c].about = "quote"
    BY <1>4, <1>5, <2>4, <2>5
  <2>. QED  BY <1>3, <2>6 DEF Range
<1>13. CASE k = l + m + 1
  BY <1>10, <1>13 DEF Stop, Token
<1>14. CASE k > l + m + 1
  <2>1. k - (l + m + 1) \in 1 .. Len(e) /\ (l + m + 1) + (k - (l + m + 1)) = k
    <3>. DEFINE x == Len(e)
    <3>1. l \in Nat /\ m \in Nat /\ x \in Nat /\ k \in 1 .. l + m + 1 + x
      BY <1>10
    <3>. HIDE DEF x
    <3>2. k - (l + m + 1) \in 1 .. x /\ (l + m + 1) + (k - (l + m + 1)) = k
      BY <1>14, <3>1
    <3>. QED  BY <3>2 DEF x
  <2>2. d.body[k] = e[k - (l + m + 1)]
    BY <1>10, <2>1
  <2>3. e[k - (l + m + 1)] \in SaidToken
    BY <1>2, <2>1
  <2>. QED  BY <2>2, <2>3 DEF SaidToken
<1>. QED
  <2>1. k \in Int /\ (k <= l \/ k \in l + 1 .. l + m \/ k = l + m + 1 \/ k > l + m + 1)
    BY <1>10
  <2>. QED  BY <1>11, <1>12, <1>13, <1>14, <2>1

\* What an accepted draft says in SENAMHI's name it says in the sentence that
\* quotes a title.
LEMMA InventedWithQuote ==
    ASSUME NEW r, r.city.long => r.city \notin titles(r), NEW d, LaidOut(r, d), validate_message(r, d) = {},
           NEW c \in DOMAIN d.claims, d.claims[c].about = "invented", Unbroken(d.claims[c])
    PROVE  BesideQuotation(d)
<1>. DEFINE body == d.body
            phrase == d.claims[c].text
            m == Len(phrase)
            Cuts == CLAUSE_BOUNDARIES \ {"newline"}
<1>1. d.claims[c] \in Claims /\ Worded(d.claims[c], READER_BOUNDARIES)
  <2>1. d.claims \in Seq(ReadableClaim)
    BY DEF LaidOut
  <2>2. d.claims[c] \in ReadableClaim
    BY <2>1
  <2>. QED  BY <2>2 DEF ReadableClaim
<1>2. /\ phrase \in Seq(TextToken) /\ Unsupplied(phrase) /\ body \in Seq(TextToken)
      /\ m \in Nat /\ DOMAIN phrase = 1 .. m
  BY <1>1, LenProperties DEF Claims, Worded, Unsupplied, LaidOut, Written
<1>3. PICK i \in 1 .. m : \E j \in i + 1 .. m :
         phrase[i] = Senamhi /\ phrase[j] = Word /\ (\A k \in i .. j : phrase[k].kind \notin Cuts)
  BY <1>2 DEF Unbroken, Worded
<1>4. PICK j \in i + 1 .. m :
         phrase[i] = Senamhi /\ phrase[j] = Word /\ (\A k \in i .. j : phrase[k].kind \notin Cuts)
  BY <1>3
<1>5. PICK op, sep, e : Around(r, d, op, sep, e)
  BY DEF LaidOut
<1>6. PICK q \in Nat : Stands(body, sep, q, phrase)
  BY <1>5, Bracketed
<1>. HIDE DEF body, phrase, m
<1>7. PICK seqs : Spelled(r, body, seqs) /\ attribution_form(r, body) = FlattenSeq(seqs)
  BY <1>2, SpelledOut
<1>. DEFINE text == FlattenSeq(seqs)
            n == Len(seqs)
<1>8. /\ seqs \in Seq(Seq(TextToken)) /\ Kept(body, seqs) /\ n = Len(body) /\ n \in Nat
      /\ Inside(body, q, phrase)
  BY <1>6, <1>7, LenProperties DEF Spelled, Kept, Stands
<1>9. PICK ends : PartsEnd(seqs, ends)
  BY <1>8, FlattenedPlaces
<1>10. text \in Seq(TextToken)
  BY <1>8, FlattenedPlaces
<1>11. PICK p \in Int : Inside(text, p + q, phrase) /\ \A k \in q .. q + m + 1 : ends[k] = p + k
  <2>1. /\ body \in Seq(TextToken) /\ phrase \in Seq(TextToken) /\ Unsupplied(phrase)
        /\ seqs \in Seq(Seq(TextToken)) /\ Kept(body, seqs) /\ PartsEnd(seqs, ends)
        /\ Inside(body, q, phrase)
    BY <1>2, <1>8, <1>9
  <2>. HIDE DEF text, n
  <2>2. \E p \in Int : Moved(seqs, ends, q, phrase, p)
    BY <2>1, InsideFlat
  <2>. QED  BY <2>2 DEF Moved, text, m
<1>. DEFINE at == p + q
            mention == at + i
            said == at + j
<1>12. /\ at \in Nat \ {0} /\ at + m + 1 <= Len(text) /\ Len(text) \in Nat
       /\ \A k \in 1 .. m : text[at + k] = phrase[k]
  BY <1>10, <1>11, LenProperties DEF Inside, m
<1>. HIDE DEF text, n, at
<1>13. /\ i \in Nat /\ j \in Nat /\ i < j /\ j <= m /\ 1 <= i
       /\ mention \in 1 .. Len(text) /\ said \in mention + 1 .. Len(text)
       /\ text[mention] = Senamhi /\ text[said] = Word
  <2>1. i \in Nat /\ j \in Nat /\ i < j /\ j <= m /\ 1 <= i /\ i \in 1 .. m /\ j \in 1 .. m
    BY <1>2
  <2>2. mention \in 1 .. Len(text) /\ said \in mention + 1 .. Len(text)
    BY <1>2, <1>12, <2>1
  <2>. QED  BY <1>4, <1>12, <2>1, <2>2
<1>14. \A k \in mention .. said : text[k].kind \notin {"span"} \cup Cuts
  <2>1. ASSUME NEW k \in mention .. said PROVE text[k].kind \notin {"span"} \cup Cuts
    <3>1. k - at \in i .. j /\ k - at \in 1 .. m /\ at + (k - at) = k
      BY <1>2, <1>12, <1>13
    <3>2. text[k] = phrase[k - at]
      BY <1>12, <3>1
    <3>. QED  BY <1>2, <1>4, <3>1, <3>2 DEF Unsupplied
  <2>. QED  BY <2>1
<1>. HIDE DEF mention, said
<1>15. /\ ended(text, mention)
       /\ \/ \E x \in senamhi_clause(text, mention) : Quoted(r, text[x])
          \/ \A x \in senamhi_clause(text, mention) : IsWord(text[x]) => is_structured_fact(r, text[x])
  <2>1. ~ senamhi_attribution(r, body)
    BY ValidSays DEF body
  <2>2. mention \in DOMAIN text /\ SaysSenamhi(text[mention])
    BY <1>10, <1>13 DEF SaysSenamhi
  <2>3. attribution_form(r, body) = text
    BY <1>7 DEF text
  <2>. QED  BY <2>1, <2>2, <2>3 DEF senamhi_attribution
<1>16. said \in senamhi_clause(text, mention)
  BY <1>10, <1>13, <1>14, <1>15, InItsClause
<1>17. IsWord(text[said]) /\ ~ is_structured_fact(r, text[said])
  BY <1>13 DEF IsWord, is_structured_fact, Word, Token, Span, Unit
<1>18. PICK x \in senamhi_clause(text, mention) : Quoted(r, text[x])
  BY <1>15, <1>16, <1>17
<1>19. x \in 1 .. Len(text) /\ \A k \in Min({mention, x}) .. Max({mention, x}) : text[k].kind \notin Cuts
  <2>1. attribution_scope(text, mention) \subseteq 1 .. Len(text)
    BY <1>10, <1>13, Scope
  <2>. QED  BY <1>18, <2>1 DEF senamhi_clause
<1>20. PICK k \in 1 .. n : ends[k] = x /\ body[k] = text[x]
  <2>1. /\ Len(text) = ends[n]
        /\ \A y \in 1 .. ends[n] : \E w \in 1 .. n : \E jj \in 1 .. Len(seqs[w]) : y = ends[w - 1] + jj
        /\ \A w \in 1 .. n : \A jj \in 1 .. Len(seqs[w]) : text[ends[w - 1] + jj] = seqs[w][jj]
        /\ \A w \in 1 .. n : ends[w] = ends[w - 1] + Len(seqs[w])
    BY <1>9 DEF PartsEnd, text, n
  <2>2. PICK w \in 1 .. n : \E jj \in 1 .. Len(seqs[w]) : x = ends[w - 1] + jj
    BY <1>19, <2>1
  <2>3. PICK jj \in 1 .. Len(seqs[w]) : x = ends[w - 1] + jj
    BY <2>2
  <2>4. text[x] = seqs[w][jj]
    BY <2>1, <2>3
  <2>5. text[x].kind = "span"
    BY <1>18 DEF Quoted
  <2>6. jj = 1 /\ Len(seqs[w]) = 1 /\ seqs[w][jj] = body[w]
    BY <1>7, <1>8, <2>4, <2>5 DEF Spelled
  <2>7. ends[w] = x /\ body[w] = text[x]
    BY <2>1, <2>3, <2>4, <2>6
  <2>. QED  BY <2>7
<1>21. body[k].kind = "span" /\ body[k] # Span(r.city)
  BY <1>18, <1>20 DEF Quoted, Span
<1>22. \E claim \in Range(d.claims) : claim.about = "quote"
  BY <1>8, <1>21, QuotedByClaim DEF body
<1>23. d.origin = "one_sentence"
  <2>. SUFFICES ASSUME sep = <<Stop, NewLine>> PROVE FALSE
    BY <1>5 DEF Around
  <2>. DEFINE z == q + m + 1
  <2>1. /\ q > 1 /\ q - 1 \in 1 .. n /\ q \in 1 .. n /\ z \in 1 .. n /\ z \in q .. z
        /\ body[q - 1] = Stop /\ body[z] = Stop
    <3>1. q > 1 /\ body[q - 1] = Stop /\ body[z] = Stop
      BY <1>6 DEF Stands, m
    <3>2. q \in Nat /\ q + m + 1 <= n
      BY <1>8 DEF Inside, m
    <3>. QED  BY <1>2, <1>8, <3>1, <3>2
  <2>2. /\ ends[q] = p + q /\ ends[z] = p + z /\ mention = p + q + i /\ p + z > mention
        /\ p + q < mention
    <3>1. q \in q .. z /\ z \in q .. z
      BY <1>2, <2>1
    <3>2. i <= m /\ 1 <= i /\ i \in Nat /\ mention = p + q + i
      BY <1>2, <1>13 DEF mention, at
    <3>. QED  BY <1>2, <1>11, <3>1, <3>2
  <2>3. ASSUME NEW s \in Int, text[s] = Stop
        PROVE  ~ (x <= s /\ s <= mention) /\ ~ (mention <= s /\ s <= x)
    <3>1. x \in Int /\ mention \in Int
      BY <1>13, <1>19
    <3>2. Min({mention, x}) = IF mention <= x THEN mention ELSE x
      BY <3>1, MinOfTwo
    <3>3. Max({mention, x}) = IF mention <= x THEN x ELSE mention
      BY <3>1, MaxOfTwo
    <3>4. text[s].kind \in Cuts
      BY <2>3 DEF Stop, Token, CLAUSE_BOUNDARIES
    <3>. QED  BY <1>19, <3>1, <3>2, <3>3, <3>4
  <2>4. /\ text[ends[q - 1]] = Stop /\ text[ends[z]] = Stop
        /\ ends[q - 1] \in Int /\ ends[z] \in Int
    <3>0. q - 1 \in 1 .. Len(body) /\ z \in 1 .. Len(body)
      BY <1>8, <2>1
    <3>. HIDE DEF z
    <3>1. text[ends[q - 1]] = Stop /\ text[ends[z]] = Stop
      <4>1. \A w \in 1 .. Len(body) : body[w] = Stop => FlattenSeq(seqs)[ends[w]] = Stop
        BY <1>8, <1>9, StopStays
      <4>. QED  BY <2>1, <3>0, <4>1 DEF text
    <3>2. ends \in [0 .. n -> Nat]
      BY <1>9 DEF PartsEnd, n
    <3>3. q - 1 \in 0 .. n /\ z \in 0 .. n
      BY <1>8, <2>1
    <3>. QED  BY <3>1, <3>2, <3>3
  <2>5. CASE k <= q - 1
    <3>1. ends[k] <= ends[q - 1] /\ ends[q - 1] <= ends[q]
      <4>1. k \in 0 .. n /\ q - 1 \in k .. n /\ q - 1 \in 0 .. n /\ q \in q - 1 .. n
        BY <1>8, <2>1, <2>5
      <4>. QED  BY <1>8, <1>9, <4>1, EndsInOrder DEF n
    <3>. QED  BY <1>20, <2>2, <2>3, <2>4, <3>1
  <2>6. CASE k >= z
    <3>1. ends[z] <= ends[k]
      <4>1. z \in 0 .. n /\ k \in z .. n
        BY <1>8, <2>1, <2>6
      <4>. QED  BY <1>8, <1>9, <4>1, EndsInOrder DEF n
    <3>. QED  BY <1>20, <2>2, <2>3, <2>4, <3>1
  <2>7. CASE k \in q .. z
    <3>1. k = q \/ k = z \/ (k - q \in 1 .. m /\ q + (k - q) = k)
      BY <1>2, <2>1, <2>7
    <3>2. body[q].kind # "span" /\ body[z].kind # "span"
      BY <1>8, <2>1 DEF Inside, Connector, NewLine, Stop, Token
    <3>3. ASSUME k - q \in 1 .. m, q + (k - q) = k PROVE body[k].kind # "span"
      <4>1. body[q + (k - q)] = phrase[k - q]
        BY <1>8, <3>3 DEF Inside, m
      <4>. QED  BY <1>2, <3>3, <4>1 DEF Unsupplied
    <3>. QED  BY <1>21, <3>1, <3>2, <3>3
  <2>. QED
    <3>1. k \in Int /\ q \in Int /\ z \in Int
      BY <2>1, <1>2
    <3>. QED  BY <2>5, <2>6, <2>7, <3>1
<1>. QED  BY <1>22, <1>23 DEF BesideQuotation

\* The city is no title that counts as a quotation.
Named == request.city.long => request.city \notin titles(request)

\* What a request asks to say of the history changes neither.
LEMMA SameNames ==
    ASSUME NEW r \in MessageRequest, NEW c
    PROVE  /\ [r EXCEPT !.continuity = c].city = r.city
           /\ titles([r EXCEPT !.continuity = c]) = titles(r)
  BY DEF MessageRequest, titles

\* It holds of every request the cycle may start with.
LEMMA NamedInit == Init => Named
<1>. SUFFICES ASSUME Init PROVE Named
  OBVIOUS
<1>1. PICK r \in Requests : request = [r EXCEPT !.continuity = EMPTY_CONTINUITY]
  BY DEF Init
<1>2. r \in MessageRequest /\ (r.city.long => r.city \notin titles(r))
  BY CompositionAssumption
<1>. QED  BY <1>1, <1>2, SameNames DEF Named

\* Reading the history changes neither the city nor a title.
LEMMA NamedNext == Typed /\ Named /\ [Next]_vars => Named'
<1>. SUFFICES ASSUME Typed, Named, [Next]_vars PROVE Named'
  OBVIOUS
<1>1. request' = request \/ \E c : request' = [request EXCEPT !.continuity = c]
  BY DEF Next, ReadHistory, Invoke, CallTool, Answer, InvokeFails, Timeout, Notify, RecordLate,
         Done, vars
<1>2. request \in MessageRequest
  BY DEF Typed, TypeOK
<1>3. CASE request' = request
  BY <1>3 DEF Named, titles
<1>4. CASE \E c : request' = [request EXCEPT !.continuity = c]
  <2>1. PICK c : request' = [request EXCEPT !.continuity = c]
    BY <1>4
  <2>2. request'.city = request.city /\ titles(request') = titles(request)
    BY <1>2, <2>1, SameNames
  <2>. QED  BY <2>2 DEF Named
<1>. QED  BY <1>1, <1>3, <1>4

\* Nothing is put in SENAMHI's mouth by a body that the rules accept, whatever
\* the model claims and however it lays it out, unless the sentence quotes
\* the title of an aviso or a decimal point parts the words from the name
\* (_attribution_scope, _senamhi_clauses, _is_structured_fact).
THEOREM NothingIsEverInvented == Spec => []NothingIsInvented
<1>1. Typed /\ Vouched /\ Named => NothingIsInvented
  <2>. SUFFICES ASSUME Typed, Vouched, Named, NEW d \in draft, NEW claim \in Range(d.claims),
                       claim.about = "invented", Unbroken(claim), Accepted(claim)
                PROVE  BesideQuotation(d)
    BY DEF NothingIsInvented
  <2>1. LaidOut(request, d) /\ validate_message(request, d) = {}
    BY DEF Vouched, Accepted
  <2>2. PICK c \in DOMAIN d.claims : claim = d.claims[c]
    BY DEF Range
  <2>. QED  BY <2>1, <2>2, InventedWithQuote DEF Named
<1>. QED
  BY <1>1, TypeInit, TypeNext, VouchedInit, VouchedNext, NamedInit, NamedNext, PTL DEF Spec

-----------------------------------------------------------------------------
(* The template's own message. *)

\* The city's name leaves room in the title for the rest of it.
Titled == length(template(request).title) <= MaxTitleLength

\* What a request asks to say of the history is no part of the title.
LEMMA SameTitle ==
    ASSUME NEW r, NEW s, s.city = r.city
    PROVE  template(s).title = template(r).title
  BY DEF template

\* It does of every request the cycle may start with.
LEMMA TitledInit == Init => Titled
<1>. SUFFICES ASSUME Init PROVE Titled
  OBVIOUS
<1>1. PICK r \in Requests : request = [r EXCEPT !.continuity = EMPTY_CONTINUITY]
  BY DEF Init
<1>2. r \in MessageRequest /\ length(template(r).title) <= MaxTitleLength
  BY CompositionAssumption, RoomAssumption
<1>3. request.city = r.city
  BY <1>1, <1>2, SameNames
<1>. QED  BY <1>2, <1>3, SameTitle DEF Titled

\* Reading the history does not change the city.
LEMMA TitledNext == Typed /\ Titled /\ [Next]_vars => Titled'
<1>. SUFFICES ASSUME Typed, Titled, [Next]_vars PROVE Titled'
  OBVIOUS
<1>1. request' = request \/ \E c : request' = [request EXCEPT !.continuity = c]
  BY DEF Next, ReadHistory, Invoke, CallTool, Answer, InvokeFails, Timeout, Notify, RecordLate,
         Done, vars
<1>2. request \in MessageRequest
  BY DEF Typed, TypeOK
<1>3. request'.city = request.city
  BY <1>1, <1>2, SameNames
<1>4. template(request').title = template(request).title
  BY <1>3, SameTitle
<1>. QED  BY <1>4 DEF Titled

\* The template's message passes every rule that guards the agent, for every
\* request whose strings are quotations or harmless words, and every history:
\* what it counts, dates and quotes is the request's and is written no more
\* often than it was supplied, and each line that names SENAMHI is ended, and
\* quotes an aviso or says nothing but what a cycle finds
\* (message_validation.py, invariant V0).
THEOREM TemplateIsAlwaysValid == Spec => []TemplateIsValid
<1>1. Typed /\ Shown /\ Titled => TemplateIsValid
  <2>. SUFFICES ASSUME Typed, Shown, Titled, stage = "compose", Quotable(request)
                PROVE  validate_message(request, template(request)) = {}
    BY DEF TemplateIsValid
  <2>1. request \in MessageRequest
    BY DEF Typed, TypeOK
  <2>2. \A s \in Range(supplied(request)) : s.long \/ Harmless(s.text)
    BY DEF Quotable, Nameable, Harmless
  <2>3. Harmless(request.city.text)
    BY DEF Quotable, Nameable, Harmless
  <2>4. Attributable(request)
    <3>1. \A i \in DOMAIN request.city.text : request.city.text[i] # Senamhi
      BY DEF Quotable, Nameable, Senamhi, Token
    <3>. QED  BY <3>1 DEF Quotable, Nameable, Attributable
  <2>5. length(evaluation(request)) + length(Line(<<Header("Recomendaciones:")>>))
           + length(CHECKLIST_TRUNCATED_ES) <= MaxBodyLength
    BY DEF Shown
  <2>6. length(template(request).title) <= MaxTitleLength
    BY DEF Titled
  <2>. QED  BY <2>1, <2>2, <2>3, <2>4, <2>5, <2>6, TemplateObeys
<1>. QED
  BY <1>1, TypeInit, TypeNext, ShownInit, ShownNext, TitledInit, TitledNext, PTL DEF Spec

-----------------------------------------------------------------------------
(* An honest draft breaks no rule but that of its length. *)

\* A claim whose phrase is a sentence, and holds no string of the system's
\* unless it is the one that quotes the aviso in force.
SaidHonestly(r, claim) ==
    /\ claim \in Claims /\ Sentence(r, claim.text)
    /\ claim.about = "quote" =>
          \E w \in r.warning : claim = Claim("quote", 0, <<Glue, Senamhi, Span(w.title)>>)
    /\ claim.about # "quote" => Unsupplied(claim.text)

\* So is one that names no SENAMHI, of what is given.
LEMMA SaidPlainly ==
    ASSUME NEW r, NEW about, about # "quote", NEW value, NEW text,
           Claim(about, value, text) \in Claims,
           text \in Seq(CalmToken), text \in Seq(QuietToken), Given(r, text), Unsupplied(text)
    PROVE  SaidHonestly(r, Claim(about, value, text))
<1>. DEFINE claim == Claim(about, value, text)
<1>1. claim.about = about /\ claim.text = text
  BY DEF Claim
<1>. HIDE DEF claim
<1>2. claim \in Claims
  BY DEF claim
<1>3. Sentence(r, text)
  BY DEF Sentence
<1>4. SaidHonestly(r, claim)
  BY <1>1, <1>2, <1>3 DEF SaidHonestly
<1>. QED  BY <1>4 DEF claim

\* An instant of the request's is such a phrase.
LEMMA SaidMoment ==
    ASSUME NEW r, NEW t \in Int, t \in moments(r) \cup prior_moments(r)
    PROVE  /\ Moment(t) \in Seq(CalmToken) /\ Moment(t) \in Seq(QuietToken)
           /\ Given(r, Moment(t)) /\ Unsupplied(Moment(t))
<1>1. date(t) \in Int /\ time_of_day(t) \in Int
  BY Calendar
<1>. DEFINE a == Date(date(t))
            b == Time(time_of_day(t))
<1>2. {a, b} \subseteq CalmToken /\ {a, b} \subseteq QuietToken /\ a.kind # "span" /\ b.kind # "span"
  <2>1. {a, b} \subseteq CalmToken
    BY <1>1, Phrases
  <2>2. {a, b} \subseteq QuietToken
    BY <1>1, QuietTokens
  <2>3. a.kind # "span" /\ b.kind # "span"
    BY DEF Date, Time
  <2>. QED  BY <2>1, <2>2, <2>3
<1>3. Moment(t) = <<a, b>>
  BY DEF Moment
<1>4. Given(r, Moment(t))
  BY MomentGiven
<1>. HIDE DEF a, b
<1>5. <<a, b>> \in Seq(CalmToken) /\ <<a, b>> \in Seq(QuietToken)
  BY <1>2
<1>6. Unsupplied(<<a, b>>)
  BY <1>2 DEF Unsupplied
<1>. QED  BY <1>3, <1>4, <1>5, <1>6

\* One such phrase after the other is such a phrase.
LEMMA SaidAfter ==
    ASSUME NEW r, NEW u, NEW v, u \in Seq(CalmToken), u \in Seq(QuietToken), Given(r, u), Unsupplied(u),
           v \in Seq(CalmToken), v \in Seq(QuietToken), Given(r, v), Unsupplied(v)
    PROVE  /\ u \o v \in Seq(CalmToken) /\ u \o v \in Seq(QuietToken)
           /\ Given(r, u \o v) /\ Unsupplied(u \o v)
<1>1. u \in Seq(CalmToken) /\ v \in Seq(CalmToken) /\ Given(r, u) /\ Given(r, v)
  OBVIOUS
<1>2. u \in Seq(QuietToken) /\ v \in Seq(QuietToken)
  OBVIOUS
<1>3. u \o v \in Seq(CalmToken)
  BY ONLY <1>1, ConcatProperties
<1>4. u \o v \in Seq(QuietToken)
  BY ONLY <1>2, ConcatProperties
<1>5. Given(r, u \o v)
  BY ONLY <1>1, GivenConcat
<1>. DEFINE Bare == {t \in CalmToken : t.kind # "span"}
<1>6. u \in Seq(Bare) /\ v \in Seq(Bare)
  <2>1. DOMAIN u = 1 .. Len(u) /\ DOMAIN v = 1 .. Len(v)
    BY ONLY <1>1, LenProperties
  <2>2. (\A i \in 1 .. Len(u) : u[i] \in Bare) /\ (\A i \in 1 .. Len(v) : v[i] \in Bare)
    BY <1>1, <2>1 DEF Unsupplied
  <2>. HIDE DEF Bare
  <2>. QED  BY <1>1, <2>2
<1>7. u \o v \in Seq(Bare)
  <2>. HIDE DEF Bare
  <2>. QED  BY ONLY <1>6, ConcatProperties
<1>8. Unsupplied(u \o v)
  <2>. DEFINE w == u \o v
  <2>1. w \in Seq(Bare)
    BY <1>7
  <2>. HIDE DEF w, Bare
  <2>2. \A i \in DOMAIN w : w[i] \in Bare
    BY <2>1
  <2>3. Unsupplied(w)
    BY <2>2 DEF Unsupplied, Bare
  <2>. QED  BY <2>3 DEF w
<1>. QED  BY <1>3, <1>4, <1>5, <1>8

\* A figure with its unit, if the request has so much of that quantity.
LEMMA SaidFigure ==
    ASSUME NEW r, NEW v \in Int, NEW unit \in NumberUnit, v \in permitted(allowed_numbers(r), {unit}),
           NEW figure \in {Figure(v), Decimal(v)}
    PROVE  LET text == <<figure, Unit(unit)>>
           IN  /\ text \in Seq(CalmToken) /\ text \in Seq(QuietToken)
               /\ Given(r, text) /\ Unsupplied(text)
<1>. DEFINE a == figure
            b == Unit(unit)
            text == <<a, b>>
<1>1. {a, b} \subseteq CalmToken /\ {a, b} \subseteq QuietToken
  <2>1. {a, b} \subseteq CalmToken
    BY Phrases
  <2>2. {a, b} \subseteq QuietToken
    BY QuietTokens
  <2>. QED  BY <2>1, <2>2
<1>2. a.kind \in {"figure", "decimal"} /\ a.value = v /\ b.kind = "unit" /\ b.unit = unit
  BY DEF Figure, Decimal, Unit
<1>. HIDE DEF a, b
<1>3. text \in Seq(CalmToken) /\ text \in Seq(QuietToken)
  BY <1>1
<1>4. /\ DOMAIN text = 1 .. 2 /\ text[1] = a /\ text[2] = b /\ 1 + 1 = 2 /\ 1 \in 1 .. 2 /\ 2 \in 1 .. 2
      /\ \A i \in 1 .. 2 : i = 1 \/ i = 2
  OBVIOUS
<1>. HIDE DEF text
<1>5. Given(r, text)
  BY <1>2, <1>4 DEF Given, IsFigure
<1>6. Unsupplied(text)
  BY <1>2, <1>4 DEF Unsupplied
<1>. QED  BY <1>3, <1>5, <1>6 DEF text, a, b

\* A word, or the name of a quantity.
LEMMA SaidWord ==
    ASSUME NEW r, NEW token \in {Glue, Connector, Continuing, Noun("%")}
    PROVE  /\ <<token>> \in Seq(CalmToken) /\ <<token>> \in Seq(QuietToken)
           /\ Given(r, <<token>>) /\ Unsupplied(<<token>>)
<1>1. token \in CalmToken /\ token \in QuietToken
  <2>1. token \in CalmToken
    BY Phrases
  <2>2. token \in QuietToken
    BY QuietTokens
  <2>. QED  BY <2>1, <2>2
<1>2. token.kind \in {"glue", "connector", "continuing", "noun"}
  BY DEF Glue, Connector, Continuing, Noun, Token
<1>. DEFINE text == <<token>>
<1>3. text \in Seq(CalmToken) /\ text \in Seq(QuietToken)
  BY <1>1
<1>4. \A i \in DOMAIN text : text[i] = token
  OBVIOUS
<1>. HIDE DEF text
<1>5. Given(r, text)
  BY <1>2, <1>4, NothingGiven
<1>6. Unsupplied(text)
  BY <1>2, <1>4 DEF Unsupplied
<1>. QED  BY <1>3, <1>5, <1>6 DEF text

\* What a draft claims of the data it was given it says with the request's
\* own figures, instants and title.
LEMMA FoundSaid ==
    ASSUME NEW r \in MessageRequest, NEW claim \in Found(r)
    PROVE  SaidHonestly(r, claim)
<1>1. claim \in Claims
  <2>1. EMPTY_CONTINUITY \in ContinuitySummary
    BY EmptyTyped
  <2>2. Found(r) \subseteq HonestClaim
    BY <2>1, HonestClaims
  <2>. QED  BY <2>2 DEF HonestClaim, ReadableClaim
<1>2. ASSUME NEW f \in r.forecast,
             claim = Claim("mm", one_decimal(f.mm_24h),
                           <<Decimal(one_decimal(f.mm_24h)), Unit("mm"), Connector,
                             Figure(Whole(24)), Unit("h")>>)
      PROVE  SaidHonestly(r, claim)
  <2>. DEFINE v == one_decimal(f.mm_24h)
              w == Whole(24)
              a == <<Decimal(v), Unit("mm")>>
              b == <<Connector>>
              c == <<Figure(w), Unit("h")>>
              text == <<Decimal(v), Unit("mm"), Connector, Figure(w), Unit("h")>>
  <2>1. v \in Int /\ w \in Int
    <3>1. f.mm_24h \in Nat
      BY DEF MessageRequest, Optional
    <3>. QED  BY <3>1 DEF one_decimal, Whole
  <2>2. v \in permitted(allowed_numbers(r), {"mm"}) /\ w \in permitted(allowed_numbers(r), {"h"})
    <3>1. v \in allowed_numbers(r).mm /\ w \in allowed_numbers(r).h
      BY DEF allowed_numbers
    <3>. QED  BY <3>1, OwnUnit
  <2>3. claim = Claim("mm", v, text)
    BY <1>2
  <2>4. text = (a \o b) \o c
    <3>. HIDE DEF v, w
    <3>. QED  OBVIOUS
  <2>. HIDE DEF v, w
  <2>5. /\ a \in Seq(CalmToken) /\ a \in Seq(QuietToken) /\ Given(r, a) /\ Unsupplied(a)
        /\ c \in Seq(CalmToken) /\ c \in Seq(QuietToken) /\ Given(r, c) /\ Unsupplied(c)
    BY <2>1, <2>2, SaidFigure DEF NumberUnit
  <2>6. b \in Seq(CalmToken) /\ b \in Seq(QuietToken) /\ Given(r, b) /\ Unsupplied(b)
    BY SaidWord
  <2>. HIDE DEF a, b, c, text
  <2>. DEFINE ab == a \o b
  <2>7. ab \in Seq(CalmToken) /\ ab \in Seq(QuietToken) /\ Given(r, ab) /\ Unsupplied(ab)
    BY ONLY <2>5, <2>6, SaidAfter
  <2>8. text = ab \o c
    BY <2>4
  <2>. HIDE DEF ab
  <2>9. text \in Seq(CalmToken) /\ text \in Seq(QuietToken) /\ Given(r, text) /\ Unsupplied(text)
    <3>1. ab \o c \in Seq(CalmToken) /\ ab \o c \in Seq(QuietToken) /\ Given(r, ab \o c) /\ Unsupplied(ab \o c)
      BY ONLY <2>5, <2>7, SaidAfter
    <3>. QED  BY <2>8, <3>1
  <2>. QED  BY <1>1, <2>3, <2>9, SaidPlainly
<1>3. ASSUME NEW f \in r.forecast,
             claim = Claim("%", Whole(f.peak_probability_pct),
                           <<Noun("%"), Connector, Figure(Whole(f.peak_probability_pct)), Unit("%")>>)
      PROVE  SaidHonestly(r, claim)
  <2>. DEFINE v == Whole(f.peak_probability_pct)
              a == <<Noun("%")>>
              b == <<Connector>>
              c == <<Figure(v), Unit("%")>>
              text == <<Noun("%"), Connector, Figure(v), Unit("%")>>
  <2>1. v \in Int
    <3>1. f.peak_probability_pct \in Nat
      BY DEF MessageRequest, Optional
    <3>. QED  BY <3>1 DEF Whole
  <2>2. v \in permitted(allowed_numbers(r), {"%"})
    <3>1. v \in allowed_numbers(r).pct
      BY DEF allowed_numbers
    <3>. QED  BY <3>1, OwnUnit
  <2>3. claim = Claim("%", v, text)
    BY <1>3
  <2>4. text = (a \o b) \o c
    <3>. HIDE DEF v
    <3>. QED  OBVIOUS
  <2>. HIDE DEF v
  <2>5. c \in Seq(CalmToken) /\ c \in Seq(QuietToken) /\ Given(r, c) /\ Unsupplied(c)
    BY <2>1, <2>2, SaidFigure DEF NumberUnit
  <2>6. /\ a \in Seq(CalmToken) /\ a \in Seq(QuietToken) /\ Given(r, a) /\ Unsupplied(a)
        /\ b \in Seq(CalmToken) /\ b \in Seq(QuietToken) /\ Given(r, b) /\ Unsupplied(b)
    BY SaidWord
  <2>. HIDE DEF a, b, c, text
  <2>. DEFINE ab == a \o b
  <2>7. ab \in Seq(CalmToken) /\ ab \in Seq(QuietToken) /\ Given(r, ab) /\ Unsupplied(ab)
    BY ONLY <2>6, SaidAfter
  <2>8. text = ab \o c
    BY <2>4
  <2>. HIDE DEF ab
  <2>9. text \in Seq(CalmToken) /\ text \in Seq(QuietToken) /\ Given(r, text) /\ Unsupplied(text)
    <3>1. ab \o c \in Seq(CalmToken) /\ ab \o c \in Seq(QuietToken) /\ Given(r, ab \o c) /\ Unsupplied(ab \o c)
      BY ONLY <2>5, <2>7, SaidAfter
    <3>. QED  BY <2>8, <3>1
  <2>. QED  BY <1>1, <2>3, <2>9, SaidPlainly
<1>4. ASSUME NEW w \in r.warning, claim = Claim("quote", 0, <<Glue, Senamhi, Span(w.title)>>)
      PROVE  SaidHonestly(r, claim)
  <2>. DEFINE text == <<Glue, Senamhi, Span(w.title)>>
  <2>1. w.title \in SuppliedString /\ w.title \in titles(r)
    BY TitleSupplied
  <2>2. text \in Seq(CalmToken)
    <3>1. {Glue, Senamhi} \subseteq CalmToken /\ Span(w.title) \in CalmToken
      BY <2>1, Phrases
    <3>. QED  BY <3>1
  <2>3. \A i \in DOMAIN text : text[i] \in SilentToken \/ text[i] = Span(w.title)
    BY SilentTokens
  <2>4. claim.about = "quote" /\ claim.text = text
    BY <1>4 DEF Claim
  <2>5. text = <<Glue, Senamhi, Span(w.title)>>
    OBVIOUS
  <2>. HIDE DEF text
  <2>6. Given(r, text)
    BY <2>1, <2>3, StringGiven
  <2>7. Sentence(r, text)
    BY <2>2, <2>5, <2>6 DEF Sentence
  <2>8. \E x \in r.warning : claim = Claim("quote", 0, <<Glue, Senamhi, Span(x.title)>>)
    BY <1>4
  <2>. QED  BY <1>1, <2>4, <2>7, <2>8 DEF SaidHonestly
<1>5. ASSUME claim = Claim("window", 0, Moment(r.window.start) \o <<Glue>> \o Moment(r.window.end))
      PROVE  SaidHonestly(r, claim)
  <2>. DEFINE a == Moment(r.window.start)
              b == <<Glue>>
              c == Moment(r.window.end)
              ab == a \o b
              text == ab \o c
  <2>1. /\ r.window.start \in Int /\ r.window.end \in Int
        /\ r.window.start \in moments(r) /\ r.window.end \in moments(r)
    BY DEF MessageRequest, TimeWindow, moments
  <2>2. /\ a \in Seq(CalmToken) /\ a \in Seq(QuietToken) /\ Given(r, a) /\ Unsupplied(a)
        /\ c \in Seq(CalmToken) /\ c \in Seq(QuietToken) /\ Given(r, c) /\ Unsupplied(c)
    BY <2>1, SaidMoment
  <2>3. b \in Seq(CalmToken) /\ b \in Seq(QuietToken) /\ Given(r, b) /\ Unsupplied(b)
    BY SaidWord
  <2>4. claim = Claim("window", 0, text)
    BY <1>5
  <2>. HIDE DEF a, b, c
  <2>5. ab \in Seq(CalmToken) /\ ab \in Seq(QuietToken) /\ Given(r, ab) /\ Unsupplied(ab)
    BY ONLY <2>2, <2>3, SaidAfter
  <2>. HIDE DEF ab
  <2>6. text \in Seq(CalmToken) /\ text \in Seq(QuietToken) /\ Given(r, text) /\ Unsupplied(text)
    BY ONLY <2>2, <2>5, SaidAfter
  <2>. HIDE DEF text
  <2>. QED  BY <1>1, <2>4, <2>6, SaidPlainly
<1>6. \/ \E f \in r.forecast :
            \/ claim = Claim("mm", one_decimal(f.mm_24h),
                             <<Decimal(one_decimal(f.mm_24h)), Unit("mm"), Connector,
                               Figure(Whole(24)), Unit("h")>>)
            \/ claim = Claim("%", Whole(f.peak_probability_pct),
                             <<Noun("%"), Connector, Figure(Whole(f.peak_probability_pct)), Unit("%")>>)
      \/ \E w \in r.warning : claim = Claim("quote", 0, <<Glue, Senamhi, Span(w.title)>>)
      \/ claim = Claim("window", 0, Moment(r.window.start) \o <<Glue>> \o Moment(r.window.end))
  BY DEF Found
<1>. QED  BY <1>2, <1>3, <1>4, <1>5, <1>6

\* The facts the tool told are those of the request: as many days, and alerts
\* of instants the request would show.
ToldOf(r, facts) ==
    /\ facts.consecutive_days = r.continuity.consecutive_days
    /\ facts.consecutive_days >= 2 =>
          \A i \in DOMAIN facts.prior_alerts : facts.prior_alerts[i].sent_at \in prior_moments(r)

\* Then what a draft claims of them is of the request too.
LEMMA RecalledSaid ==
    ASSUME NEW r \in MessageRequest, NEW facts \in ContinuitySummary, ToldOf(r, facts),
           NEW k \in DOMAIN Recalled(facts)
    PROVE  SaidHonestly(r, Recalled(facts)[k]) /\ Recalled(facts)[k].about # "quote"
<1>. DEFINE Plain == {claim \in Claims : SaidHonestly(r, claim) /\ claim.about # "quote"}
            n == facts.consecutive_days
            day_text == <<Figure(Whole(n)), Unit("days"), Continuing>>
            first == Claim("days", Whole(n), day_text)
            at(i) == facts.prior_alerts[i].sent_at
            prior(i) == Claim("prior", at(i), <<Continuing>> \o Moment(at(i)))
            priors == [i \in DOMAIN facts.prior_alerts |-> prior(i)]
<1>1. n \in Int
  BY HistoryAssumption DEF ContinuitySummary
<1>2. CASE n < 2
  BY <1>2 DEF Recalled
<1>3. CASE ~ (n < 2)
  <2>1. Recalled(facts) = <<first>> \o priors
    BY <1>3 DEF Recalled
  <2>2. n >= 2 /\ n = r.continuity.consecutive_days
        /\ \A i \in DOMAIN facts.prior_alerts : at(i) \in prior_moments(r)
    BY <1>1, <1>3 DEF ToldOf
  <2>3. Whole(n) \in Int /\ Whole(n) \in permitted(allowed_numbers(r), {"days"})
    <3>1. n > 1 /\ Whole(n) \in Int
      BY <1>1, <2>2 DEF Whole
    <3>2. Whole(n) \in allowed_numbers(r).days
      BY <2>2, <3>1 DEF allowed_numbers
    <3>3. {"days"} # {} /\ {"days"} # {"mm"} /\ {"days"} # {"%"} /\ {"days"} # {"h"}
      OBVIOUS
    <3>4. \A allowed : permitted(allowed, {"days"}) = allowed.days
      BY <3>3 DEF permitted
    <3>. QED  BY <3>1, <3>2, <3>4
  <2>4. first \in Plain
    <3>. DEFINE v == Whole(n)
                a == <<Figure(v), Unit("days")>>
                b == <<Continuing>>
                text == a \o b
    <3>1. day_text = text
      <4>. DEFINE whole == <<Figure(v), Unit("days"), Continuing>>
      <4>1. day_text = whole
        OBVIOUS
      <4>2. whole = text
        <5>. HIDE DEF v
        <5>. QED  OBVIOUS
      <4>. QED  BY ONLY <4>1, <4>2
    <3>2. a \in Seq(CalmToken) /\ a \in Seq(QuietToken) /\ Given(r, a) /\ Unsupplied(a)
      <4>. HIDE DEF v
      <4>1. /\ v \in Int /\ "days" \in NumberUnit /\ v \in permitted(allowed_numbers(r), {"days"})
            /\ Figure(v) \in {Figure(v), Decimal(v)}
        BY <2>3 DEF NumberUnit, v
      <4>. QED  BY ONLY <4>1, SaidFigure
    <3>3. b \in Seq(CalmToken) /\ b \in Seq(QuietToken) /\ Given(r, b) /\ Unsupplied(b)
      BY SaidWord
    <3>4. first = Claim("days", v, text)
      BY <3>1
    <3>5. v \in Int
      BY <2>3
    <3>. HIDE DEF a, b, v
    <3>6. text \in Seq(CalmToken) /\ text \in Seq(QuietToken) /\ Given(r, text) /\ Unsupplied(text)
      BY ONLY <3>2, <3>3, SaidAfter
    <3>. HIDE DEF text
    <3>7. Claim("days", v, text) \in Claims
      <4>1. text \in Seq(TextToken)
        BY <3>6, CalmIsText
      <4>. QED  BY <3>5, <4>1 DEF Claim, Claims
    <3>8. SaidHonestly(r, Claim("days", v, text))
      BY <3>6, <3>7, SaidPlainly
    <3>9. Claim("days", v, text).about # "quote"
      BY DEF Claim
    <3>. QED  BY <3>4, <3>7, <3>8, <3>9
  <2>5. ASSUME NEW i \in DOMAIN facts.prior_alerts PROVE prior(i) \in Plain
    <3>. DEFINE t == at(i)
                a == <<Continuing>>
                b == Moment(t)
                text == a \o b
    <3>1. t \in Int /\ t \in prior_moments(r)
      <4>1. facts.prior_alerts \in Seq(AlertRecord)
        BY DEF ContinuitySummary
      <4>2. facts.prior_alerts[i] \in AlertRecord
        BY <4>1
      <4>. QED  BY <2>2, <4>2, RecordTyped
    <3>2. prior(i) = Claim("prior", t, text)
      OBVIOUS
    <3>. HIDE DEF t
    <3>3. b \in Seq(CalmToken) /\ b \in Seq(QuietToken) /\ Given(r, b) /\ Unsupplied(b)
      BY <3>1, SaidMoment
    <3>4. a \in Seq(CalmToken) /\ a \in Seq(QuietToken) /\ Given(r, a) /\ Unsupplied(a)
      BY SaidWord
    <3>. HIDE DEF a, b
    <3>5. text \in Seq(CalmToken) /\ text \in Seq(QuietToken) /\ Given(r, text) /\ Unsupplied(text)
      BY ONLY <3>3, <3>4, SaidAfter
    <3>. HIDE DEF text
    <3>6. Claim("prior", t, text) \in Claims
      <4>1. text \in Seq(TextToken)
        BY <3>5, CalmIsText
      <4>. QED  BY <3>1, <4>1 DEF Claim, Claims
    <3>7. SaidHonestly(r, Claim("prior", t, text))
      BY <3>5, <3>6, SaidPlainly
    <3>8. Claim("prior", t, text).about # "quote"
      BY DEF Claim
    <3>. QED  BY <3>2, <3>6, <3>7, <3>8
  <2>6. DOMAIN facts.prior_alerts = 1 .. Len(facts.prior_alerts) /\ Len(facts.prior_alerts) \in Nat
    <3>1. facts.prior_alerts \in Seq(AlertRecord)
      BY DEF ContinuitySummary
    <3>. QED  BY <3>1, LenProperties
  <2>. HIDE DEF first, prior, Plain
  <2>7. priors \in Seq(Plain) /\ <<first>> \in Seq(Plain)
    BY <2>4, <2>5, <2>6
  <2>. HIDE DEF priors
  <2>8. <<first>> \o priors \in Seq(Plain)
    BY ONLY <2>7, ConcatProperties
  <2>9. Recalled(facts) \in Seq(Plain)
    BY <2>1, <2>8
  <2>10. Recalled(facts)[k] \in Plain
    BY ONLY <2>9, k \in DOMAIN Recalled(facts)
  <2>. QED  BY <2>10 DEF Plain
<1>. QED  BY <1>2, <1>3

\* What an honest draft claims, of the request and of what the tool told, is
\* such sentences, and quotes the aviso once.
LEMMA HonestTexts ==
    ASSUME NEW r \in MessageRequest, NEW facts \in ContinuitySummary, ToldOf(r, facts),
           NEW texts, texts = [i \in DOMAIN honest_claims(r, facts) |-> honest_claims(r, facts)[i].text]
    PROVE  /\ texts \in Seq(Seq(CalmToken))
           /\ \A k \in 1 .. Len(texts) : Sentence(r, texts[k])
           /\ QuotedOnce(texts)
           /\ sentences(honest_claims(r, facts), <<Stop, NewLine>>) = Parted(texts)
<1>. DEFINE claims == honest_claims(r, facts)
            found == SetToSeq(Found(r))
            told == Recalled(facts)
            n == Len(found)
            aviso(w) == Claim("quote", 0, <<Glue, Senamhi, Span(w.title)>>)
<1>1. /\ claims = found \o told
      /\ IsFiniteSet(Found(r)) /\ Found(r) \in SUBSET HonestClaim
      /\ told \in Seq(HonestClaim)
  BY HonestClaims
<1>2. /\ found \in Seq(HonestClaim) /\ Range(found) = Found(r)
      /\ \A i, j \in DOMAIN found : found[i] = found[j] => i = j
  BY <1>1, SetToSeqOnce
<1>. HIDE DEF claims, found, told
<1>3. /\ n \in Nat /\ Len(told) \in Nat /\ DOMAIN found = 1 .. n /\ DOMAIN told = 1 .. Len(told)
      /\ claims \in Seq(HonestClaim) /\ Len(claims) = n + Len(told) /\ DOMAIN claims = 1 .. Len(claims)
      /\ \A k \in 1 .. Len(claims) : claims[k] = IF k <= n THEN found[k] ELSE told[k - n]
  <2>1. found \in Seq(HonestClaim) /\ told \in Seq(HonestClaim)
    BY <1>1, <1>2
  <2>2. /\ found \o told \in Seq(HonestClaim) /\ Len(found \o told) = n + Len(told)
        /\ \A k \in 1 .. n + Len(told) : (found \o told)[k] = IF k <= n THEN found[k] ELSE told[k - n]
    BY ONLY <2>1, ConcatProperties
  <2>3. n \in Nat /\ Len(told) \in Nat /\ DOMAIN found = 1 .. n /\ DOMAIN told = 1 .. Len(told)
    BY ONLY <2>1, LenProperties
  <2>4. DOMAIN (found \o told) = 1 .. Len(found \o told)
    BY ONLY <2>2, LenProperties
  <2>. QED  BY <1>1, <2>2, <2>3, <2>4
<1>4. ASSUME NEW k \in DOMAIN claims
      PROVE  SaidHonestly(r, claims[k])
             /\ (claims[k].about = "quote" => k \in DOMAIN found /\ claims[k] = found[k])
  <2>0. k \in Nat /\ k >= 1 /\ k <= n + Len(told)
    BY <1>3
  <2>1. CASE k <= n
    <3>1. k \in DOMAIN found /\ claims[k] = found[k]
      BY <1>3, <2>0, <2>1
    <3>2. found[k] \in Found(r)
      BY <1>2, <3>1 DEF Range
    <3>. QED  BY <3>1, <3>2, FoundSaid
  <2>2. CASE ~ (k <= n)
    <3>. DEFINE j == k - n
    <3>1. j \in 1 .. Len(told) /\ claims[k] = told[j]
      BY <1>3, <2>0, <2>2
    <3>. HIDE DEF j
    <3>2. j \in DOMAIN Recalled(facts)
      BY <1>3, <3>1 DEF told
    <3>3. SaidHonestly(r, Recalled(facts)[j]) /\ Recalled(facts)[j].about # "quote"
      BY ONLY <3>2, RecalledSaid, r \in MessageRequest, facts \in ContinuitySummary, ToldOf(r, facts)
    <3>. QED  BY <3>1, <3>3 DEF told
  <2>. QED  BY <2>1, <2>2
<1>5. texts = [i \in DOMAIN claims |-> claims[i].text]
  BY DEF claims
<1>6. \A k \in DOMAIN claims : Sentence(r, claims[k].text) /\ claims[k].text \in Seq(CalmToken)
  BY <1>4 DEF SaidHonestly, Sentence
<1>7. /\ texts \in Seq(Seq(CalmToken)) /\ Len(texts) = Len(claims) /\ DOMAIN texts = DOMAIN claims
      /\ \A k \in 1 .. Len(texts) : texts[k] = claims[k].text
  <2>. DEFINE m == Len(claims)
              text(k) == claims[k].text
  <2>1. m \in Nat /\ texts = [i \in 1 .. m |-> text(i)] /\ \A k \in 1 .. m : text(k) \in Seq(CalmToken)
    <3>1. m \in Nat /\ DOMAIN claims = 1 .. m
      BY <1>3
    <3>2. texts = [i \in 1 .. m |-> text(i)]
      BY <1>5, <3>1
    <3>3. \A k \in 1 .. m : text(k) \in Seq(CalmToken)
      BY <1>6, <3>1
    <3>. QED  BY ONLY <3>1, <3>2, <3>3
  <2>2. DOMAIN texts = DOMAIN claims
    BY <1>5
  <2>. HIDE DEF m, text
  <2>3. texts \in Seq(Seq(CalmToken)) /\ Len(texts) = m /\ \A k \in 1 .. m : texts[k] = text(k)
    BY ONLY <2>1
  <2>. QED  BY <2>2, <2>3 DEF m, text
<1>8. \A k \in 1 .. Len(texts) : Sentence(r, texts[k])
  BY <1>3, <1>6, <1>7
<1>9. ASSUME NEW s, NEW k \in 1 .. Len(texts), Has(texts[k], Span(s))
      PROVE  k \in DOMAIN found /\ \E w \in r.warning : found[k] = aviso(w)
  <2>1. k \in DOMAIN claims /\ texts[k] = claims[k].text
    BY <1>3, <1>7
  <2>2. ~ Unsupplied(claims[k].text)
    <3>1. Span(s).kind = "span"
      BY DEF Span
    <3>. QED  BY <1>9, <2>1, <3>1 DEF Has, Unsupplied
  <2>3. claims[k].about = "quote"
    BY <1>4, <2>1, <2>2 DEF SaidHonestly
  <2>4. \E w \in r.warning : claims[k] = aviso(w)
    BY <1>4, <2>1, <2>3 DEF SaidHonestly
  <2>. QED  BY <1>4, <2>1, <2>3, <2>4
<1>10. QuotedOnce(texts)
  <2>1. \A v, w \in r.warning : v = w
    BY DEF MessageRequest, Optional
  <2>2. ASSUME NEW s, NEW k \in 1 .. Len(texts), NEW l \in 1 .. Len(texts),
               Has(texts[k], Span(s)), Has(texts[l], Span(s))
        PROVE  k = l
    <3>1. PICK v \in r.warning : found[k] = aviso(v)
      BY <1>9, <2>2
    <3>2. PICK w \in r.warning : found[l] = aviso(w)
      BY <1>9, <2>2
    <3>3. k \in DOMAIN found /\ l \in DOMAIN found
      BY <1>9, <2>2
    <3>4. found[k] = found[l]
      <4>1. v = w
        BY <2>1
      <4>. QED  BY <3>1, <3>2, <4>1
    <3>. QED  BY <1>2, <3>3, <3>4
  <2>. QED  BY <2>2 DEF QuotedOnce
<1>11. sentences(claims, <<Stop, NewLine>>) = Parted(texts)
  <2>1. [i \in DOMAIN claims |-> <<Stop, NewLine>> \o claims[i].text]
           = [i \in DOMAIN texts |-> <<Stop, NewLine>> \o texts[i]]
    BY <1>3, <1>7
  <2>. QED  BY <2>1 DEF sentences, Parted
<1>. QED  BY <1>7, <1>8, <1>10, <1>11 DEF claims

\* So an honest draft breaks no rule but that of its length.
LEMMA HonestObeys ==
    ASSUME NEW r \in MessageRequest, NEW facts \in ContinuitySummary, ToldOf(r, facts),
           Nameable(r), length(template(r).title) <= MaxTitleLength
    PROVE  validate_message(r, honest_draft(r, facts)) \subseteq {"body_too_long"}
<1>. DEFINE d == honest_draft(r, facts)
            texts == [i \in DOMAIN honest_claims(r, facts) |-> honest_claims(r, facts)[i].text]
            told == sentences(honest_claims(r, facts), <<Stop, NewLine>>)
            title == <<Word, Span(r.city)>>
            body == <<Span(r.city)>> \o told \o <<Stop>>
<1>1. /\ texts \in Seq(Seq(CalmToken))
      /\ \A k \in 1 .. Len(texts) : Sentence(r, texts[k])
      /\ QuotedOnce(texts)
      /\ told = Parted(texts)
  BY HonestTexts
<1>2. d = Answered(title, body, r.level, r.window.end, honest_claims(r, facts), "honest")
  BY DEF honest_draft
<1>. HIDE DEF d, texts, told
<1>3. d.title = title /\ d.body = body /\ d.level = r.level /\ d.valid_until = r.window.end
  <2>. HIDE DEF title, body
  <2>. QED  BY <1>2 DEF Answered
<1>4. /\ \A i \in DOMAIN r.city.text : r.city.text[i].kind \in {"word", "glue"}
      /\ \A s \in titles(r) : s.long
  BY DEF Nameable
<1>5. d.body = <<Span(r.city)>> \o Parted(texts) \o <<Stop>>
  BY <1>1, <1>3
<1>6. d.title = <<Word, Span(r.city)>>
  BY <1>3
<1>7. validate_message(r, d) \subseteq {"body_too_long"}
  BY <1>1, <1>3, <1>4, <1>5, <1>6, SentencesObey
<1>. QED  BY <1>7 DEF d

\* An honest draft was written of the request and of what the tool told.
HonestlyMade ==
    /\ stage \in {"read", "compose", "invoked"} => draft = {}
    /\ \A d \in draft : d.origin = "honest" => \E facts \in tool : d = honest_draft(request, facts)

\* There is no draft when a send starts.
LEMMA HonestlyMadeInit == Init => HonestlyMade
  BY DEF Init, HonestlyMade

\* The tool is called before the answer, and the request is then settled.
LEMMA HonestlyMadeNext == HonestlyMade /\ [Next]_vars => HonestlyMade'
<1>. SUFFICES ASSUME HonestlyMade, [Next]_vars PROVE HonestlyMade'
  OBVIOUS
<1>. USE DEF HonestlyMade
<1>1. CASE ReadHistory
  BY <1>1 DEF ReadHistory
<1>2. CASE Invoke
  BY <1>2 DEF Invoke, FellBack
<1>3. ASSUME NEW n, CallTool(n) PROVE HonestlyMade'
  BY <1>3 DEF CallTool
<1>4. CASE Answer
  <2>1. PICK d : JudgeDraft(d) /\ (d.origin = "honest" => \E facts \in tool : d = honest_draft(request, facts))
    <3>1. CASE \E facts \in tool : JudgeDraft(honest_draft(request, facts))
      BY <3>1
    <3>2. CASE \E w \in Drafts : JudgeDraft(other_draft(request, w))
      <4>1. PICK w \in Drafts : JudgeDraft(other_draft(request, w))
        BY <3>2
      <4>2. other_draft(request, w).origin # "honest"
        BY DEF other_draft, Answered
      <4>. QED  BY <4>1, <4>2
    <3>. QED  BY <1>4, <3>1, <3>2 DEF Answer
  <2>2. UNCHANGED <<request, tool>>
    BY <1>4 DEF Answer
  <2>3. draft' = {d} /\ stage' \in {"sent", "notify"}
    BY <2>1 DEF JudgeDraft, FellBack
  <2>. QED  BY <2>1, <2>2, <2>3
<1>5. CASE InvokeFails \/ Timeout
  BY <1>5 DEF InvokeFails, Timeout, FellBack
<1>6. CASE Notify
  BY <1>6 DEF Notify
<1>7. CASE RecordLate
  BY <1>7 DEF RecordLate
<1>8. CASE Done \/ UNCHANGED vars
  BY <1>8 DEF Done, vars
<1>. QED
  BY <1>1, <1>2, <1>3, <1>4, <1>5, <1>6, <1>7, <1>8 DEF Next

\* Of a table read in full on both sides the tool tells of the request.
LEMMA ToolTellsOfRequest ==
    ASSUME Typed, Agreed, Undisturbed, stage # "read", NEW facts \in tool
    PROVE  ToldOf(request, facts)
<1>. DEFINE level == request.level
            warning == top_warning_level(request.reasons)
            summary == read_continuity(history, AsOf, level, warning)
<1>1. ~ disturbed /\ late = 0
  BY DEF Undisturbed
<1>2. request.continuity = summary
  BY <1>1 DEF Agreed
<1>3. PICK n \in Int :
           facts = read_facts(history, [as_of |-> AsOf, level |-> level, warning |-> warning], n)
  BY <1>1 DEF Agreed, binding
<1>4. /\ history \in SUBSET AlertRecord /\ IsFiniteSet(history) /\ Keyed(history)
      /\ AsOf \in Int
      /\ \A a \in history : a.legible
      /\ \A a \in history : a.window.start <= a.sent_at + days(LookbackDays)
      /\ Cardinality(history) <= QueryLimit
  BY CompositionAssumption DEF Typed, TypeOK, Table, Agreed, Undisturbed
<1>. HIDE DEF level, warning
<1>5. TellsOf(facts, summary)
  <2>1. TellsOf(facts, read_continuity(history, AsOf, level, warning))
    BY <1>3, <1>4, SameTelling
  <2>. QED  BY <2>1
<1>. HIDE DEF summary
<1>6. ASSUME facts.consecutive_days >= 2, NEW i \in DOMAIN facts.prior_alerts
      PROVE  facts.prior_alerts[i].sent_at \in prior_moments(request)
  <2>1. request.continuity.consecutive_days # 0
    BY <1>2, <1>5, <1>6 DEF TellsOf
  <2>. QED  BY <1>2, <1>5, <2>1 DEF TellsOf, prior_moments
<1>. QED  BY <1>2, <1>5, <1>6 DEF TellsOf, ToldOf

\* A model that keeps to its prompt is not refused for what it says: while
\* nothing comes between the two reads, every figure, date and title of its
\* draft is one the validator knows, and every sentence is laid out as the
\* rules ask; only its length may undo it (prompts.py, message_validation.py).
THEOREM HonestDraftAlwaysStands == Spec => []HonestDraftStands
<1>1. Typed /\ Agreed /\ Titled /\ HonestlyMade => HonestDraftStands
  <2>. SUFFICES ASSUME Typed, Agreed, Titled, HonestlyMade, Undisturbed, Nameable(request),
                       NEW d \in draft, d.origin = "honest"
                PROVE  validate_message(request, d) \subseteq {"body_too_long"}
    BY DEF HonestDraftStands
  <2>1. PICK facts \in tool : d = honest_draft(request, facts)
    BY DEF HonestlyMade
  <2>2. request \in MessageRequest /\ facts \in ContinuitySummary
    BY DEF Typed, TypeOK
  <2>3. stage # "read"
    BY DEF HonestlyMade
  <2>4. ToldOf(request, facts)
    BY <2>3, ToolTellsOfRequest
  <2>. QED  BY <2>1, <2>2, <2>4, HonestObeys DEF Titled
<1>. QED
  BY <1>1, TypeInit, TypeNext, AgreedInit, AgreedNext, TitledInit, TitledNext,
     HonestlyMadeInit, HonestlyMadeNext, PTL DEF Spec

=============================================================================
