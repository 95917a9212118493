----------------------------- MODULE Composition -----------------------------
(***************************************************************************)
(* One authorized send, from the history it reads to the message that goes *)
(* out: the application, the agent it invokes, the tool the model calls,   *)
(* the operator's notice, and other invocations recording meanwhile.       *)
(*                                                                         *)
(* The model may write anything; what it writes is a list of claims, so    *)
(* that what a resident is told can be held against the facts.             *)
(***************************************************************************)
EXTENDS Template

CONSTANTS
    AsOf,       \* the cycle clock
    Requests,   \* what the cycle may have to say, before any history
    Histories,  \* the alerts on record when it starts
    LateAlerts, \* alerts another invocation may still put on record
    Drafts,     \* what the model may write beside an honest draft
    MaxLate     \* bound: alerts that land while it composes

\* A table holds finitely many items under distinct keys, and a window opens
\* no more than a lookback after its alert is sent.  The city's name is too
\* short to count as a quotation, or at least is the title of no aviso.
ASSUME CompositionAssumption ==
    /\ AsOf \in Int /\ MaxLate \in Nat
    /\ Requests \subseteq MessageRequest
    /\ \A r \in Requests : r.city.long => r.city \notin titles(r)
    /\ \A h \in Histories : h \subseteq AlertRecord /\ IsFiniteSet(h) /\ Keyed(h)
    /\ LateAlerts \subseteq AlertRecord
    /\ \A a \in LateAlerts \cup UNION Histories : a.window.start <= a.sent_at + days(LookbackDays)

\* What a cycle finds is a short text: it leaves room in the body for the
\* heading of the recommendations and the line that says they were cut.  The
\* city's name leaves room in the title for the rest of it.
ASSUME RoomAssumption ==
    \A r \in Requests :
        /\ length(evaluation(r)) + length(Line(<<Header("Recomendaciones:")>>))
              + length(CHECKLIST_TRUNCATED_ES) <= MaxBodyLength
        /\ length(template(r).title) <= MaxTitleLength

FallbackReason == {"timeout", "transport_error", "bad_status", "malformed_payload",
                   "validation_failed", "unexpected_error"}

Stage == {"read", "compose", "invoked", "notify", "sent"}

VARIABLES
    \* the world
    history,
    late,       \* alerts that landed since the start
    notices,    \* what the operator was told, delivered or not
    \* the application
    stage,
    request,
    reason,     \* why the template's message is used, once it is
    message,    \* what goes out
    \* the agent
    tool,       \* the tool's answer, computed once
    draft,      \* what the model wrote
    \* observed
    known,      \* the alerts on record when the application read them
    fault,      \* what first went wrong
    disturbed   \* a history read failed

vars == <<history, late, notices, stage, request, reason, message, tool, draft, known,
          fault, disturbed>>

-----------------------------------------------------------------------------
\* A claim is what a reader takes from a phrase, and the phrase.
Claim(about, value, text) == [about |-> about, value |-> value, text |-> text]

Claims ==
    [about : {"mm", "%", "h", "days", "parted", "number", "prior", "date", "quote", "window",
              "invented"},
     value : Int, text : Seq(TextToken)]

\* What ends a clause for a reader, to whom the point of a decimal is part of
\* a number.
READER_BOUNDARIES == CLAUSE_BOUNDARIES \ {"decimal"}

\* A unit named before i, in the same clause and no other since.
UnitAhead(text, i, unit, ends) ==
    \/ unit = "days" /\ i > 1 /\ text[i - 1] = Unit("days")
    \/ \E j \in 1 .. i - 1 :
          /\ text[j] = Noun(unit) \/ (unit \in {"mm", "h"} /\ text[j] = Unit(unit))
          /\ \A k \in j .. i - 1 : text[k].kind \notin ends
          /\ \A k \in j + 1 .. i - 1 : text[k].kind \notin {"noun", "unit"}

\* A figure is read as so much of the unit after it, or else of the one ahead.
MeasuredIn(text, i, unit, ends) ==
    IF i < Len(text) /\ text[i + 1].kind = "unit" THEN text[i + 1] = Unit(unit)
    ELSE UnitAhead(text, i, unit, ends)

SameClause(text, i, j, ends) ==
    \A k \in DOMAIN text : (i <= k /\ k <= j) \/ (j <= k /\ k <= i) => text[k].kind \notin ends

\* So is a number written in words, with nothing between that says more; of
\* days in a row where its clause says that they are.
Within(text, i, j, kinds) == \A k \in i + 1 .. j - 1 : IsWord(text[k]) => text[k].kind \in kinds

InWords(text, i, unit, ends) ==
    \/ unit # "days" /\ text[i] = Numeral /\ UnitAhead(text, i, unit, ends)
    \/ \E j \in i + 1 .. Len(text) :
          \/ /\ text[i] = Numeral /\ Within(text, i, j, {"numeral", "connector"})
             /\ text[j] = Unit(unit) \/ (unit = "days" /\ text[j] = Jornada)
             /\ unit = "days" =>
                   \E k \in DOMAIN text : text[k] = Continuing /\ SameClause(text, i, k, ends)
          \/ unit = "days" /\ text[i] = Ordinal /\ Within(text, i, j, {}) /\ text[j] = Unit("days")

\* What each phrase has to say for the claim to be taken from it, its clauses
\* ending at the kinds of ends.  Only a quotation holds a string of the
\* system's.
Worded(claim, ends) ==
    LET text == claim.text
    IN  /\ claim.about # "quote" => \A i \in DOMAIN text : text[i].kind # "span"
        /\ claim.about \in {"mm", "%", "h", "days"} =>
              \E i \in DOMAIN text :
                 \/ /\ text[i] \in {Figure(claim.value), Decimal(claim.value)}
                    /\ MeasuredIn(text, i, claim.about, ends)
                 \/ claim.value < 0 /\ InWords(text, i, claim.about, ends)
        \* a month between the figure and its unit
        /\ claim.about = "parted" =>
              \E i \in 1 .. Len(text) - 1 :
                 /\ text[i].kind = "prose" /\ text[i].value = claim.value
                 /\ text[i + 1].kind = "unit" /\ (i > 1 => text[i - 1] # Unit("days"))
        /\ claim.about = "date" =>
              \E i \in DOMAIN text :
                 /\ text[i].kind = "prose" /\ text[i].date = claim.value
                 /\ i < Len(text) => text[i + 1].kind # "unit"
        /\ claim.about = "prior" =>
              \E i \in 1 .. Len(text) - 1 :
                 text[i] = Date(date(claim.value)) /\ text[i + 1] = Time(time_of_day(claim.value))
        /\ claim.about = "invented" =>
              \E i \in DOMAIN text : \E j \in i + 1 .. Len(text) :
                 /\ text[i] = Senamhi /\ text[j] = Word
                 /\ \A k \in i .. j : text[k].kind \notin ends \ {"newline"}

\* A claim no decimal point stands in the middle of.
Unbroken(claim) == Worded(claim, CLAUSE_BOUNDARIES)

\* The sentences of a body, one to a line or all in one.
sentences(claims, separator) ==
    FlattenSeq([i \in DOMAIN claims |-> separator \o claims[i].text])

Answered(title, body, level, until, claims, origin) ==
    [title |-> title, body |-> body, level |-> level, valid_until |-> until,
     claims |-> claims, origin |-> origin]

Defect == {"none", "level", "until", "no_title", "no_city", "two_headers", "control", "foreign",
           "too_long"}

ASSUME DraftsAssumption ==
    /\ Drafts \subseteq [claims : Seq(Claims), together : BOOLEAN, defect : Defect]
    /\ \A d \in Drafts : \A claim \in Range(d.claims) : Worded(claim, READER_BOUNDARIES)

\* What else it may write: any claims, in one sentence or a line to each,
\* with at most one thing wrong beside them.
other_draft(r, d) ==
    LET separator == IF d.together THEN <<Connector>> ELSE <<Stop, NewLine>>
        opening == IF d.defect = "no_city" THEN <<Word>> ELSE <<Span(r.city)>>
        header == Line(<<Header("Motivos:")>>)
        ending == CASE d.defect = "two_headers" -> header \o header
                    [] d.defect = "control" -> <<Control>>
                    [] d.defect = "foreign" -> <<Foreign>>
                    [] d.defect = "too_long" -> [i \in 1 .. MaxBodyLength |-> Word]
                    [] OTHER -> <<>>
    IN  Answered(IF d.defect = "no_title" THEN <<>> ELSE <<Word>>,
                 opening \o sentences(d.claims, separator) \o <<Stop>> \o ending,
                 IF d.defect = "level" THEN "none" ELSE r.level,
                 r.window.end + (IF d.defect = "until" THEN 1 ELSE 0),
                 d.claims,
                 IF d.together THEN "one_sentence" ELSE "lines")

\* What a model that keeps to its prompt writes of the data it was given and
\* of what the tool told it.
honest_claims(r, facts) ==
    SetToSeq((UNION {{Claim("mm", one_decimal(f.mm_24h),
                            <<Decimal(one_decimal(f.mm_24h)), Unit("mm"), Connector,
                              Figure(Whole(24)), Unit("h")>>),
                      Claim("%", Whole(f.peak_probability_pct),
                            <<Noun("%"), Connector, Figure(Whole(f.peak_probability_pct)), Unit("%")>>)} :
                         f \in r.forecast})
             \cup {Claim("quote", 0, <<Glue, Senamhi, Span(w.title)>>) : w \in r.warning}
             \cup {Claim("window", 0, Moment(r.window.start) \o <<Glue>> \o Moment(r.window.end))})
    \o (IF facts.consecutive_days < 2 THEN <<>>
        ELSE <<Claim("days", Whole(facts.consecutive_days),
                     <<Figure(Whole(facts.consecutive_days)), Unit("days"), Continuing>>)>>
             \o [i \in DOMAIN facts.prior_alerts |->
                    Claim("prior", facts.prior_alerts[i].sent_at,
                          <<Continuing>> \o Moment(facts.prior_alerts[i].sent_at))])

honest_draft(r, facts) ==
    Answered(<<Word, Span(r.city)>>,
             <<Span(r.city)>> \o sentences(honest_claims(r, facts), <<Stop, NewLine>>) \o <<Stop>>,
             r.level, r.window.end, honest_claims(r, facts), "honest")

-----------------------------------------------------------------------------
Init ==
    /\ history \in Histories
    /\ late = 0
    /\ notices = <<>>
    /\ stage = "read"
    /\ request \in {[r EXCEPT !.continuity = EMPTY_CONTINUITY] : r \in Requests}
    /\ reason = "none"
    /\ message = {}
    /\ tool = {}
    /\ draft = {}
    /\ known = {}
    /\ fault = "none"
    /\ disturbed = FALSE

\* What the agent's composer binds for the tool, in the wire's own terms.
top_warning_level(reasons) ==
    LET levels == {r.level : r \in {x \in Range(reasons) : x.kind = "warning"}}
    IN  IF levels = {} THEN "no_warning"
        ELSE CHOOSE l \in levels : \A m \in levels : WarningRank[m] <= WarningRank[l]

binding(r) == [as_of |-> AsOf, level |-> r.level, warning |-> top_warning_level(r.reasons)]

\* The history the validator will know, or none of it if it cannot be read.
ReadHistory ==
    /\ stage = "read"
    /\ known' = history
    /\ \/ /\ request' = [request EXCEPT !.continuity =
                            read_continuity(history, AsOf, request.level,
                                            top_warning_level(request.reasons))]
          /\ UNCHANGED disturbed
       \/ /\ disturbed' = TRUE
          /\ UNCHANGED request
    /\ stage' = "compose"
    /\ UNCHANGED <<history, late, notices, reason, message, tool, draft, fault>>

\* What goes out is a candidate or the template's message, which is known
\* by its request.
Template == [composed_by |-> "template"]

AgentMessage(d) ==
    [title |-> d.title, body |-> d.body, level |-> d.level, valid_until |-> d.valid_until,
     composed_by |-> "agent"]

FellBack(why) ==
    /\ reason' = why
    /\ fault' = why
    /\ stage' = "notify"

\* Building the prompt or the client may raise.  The template's message is
\* composed before either: a pure value of the request, kept out of the state.
Invoke ==
    /\ stage = "compose"
    /\ \/ stage' = "invoked" /\ UNCHANGED <<reason, fault>>
       \/ FellBack("unexpected_error")
    /\ UNCHANGED <<history, late, notices, request, message, tool, draft, known, disturbed>>

\* The model asks for n alerts; without a binding, or when its read raises,
\* the tool has nothing to tell.  A second call gets the first one's answer.
CallTool(n) ==
    /\ stage = "invoked"
    /\ tool = {}
    /\ \/ /\ tool' = {read_facts(history, binding(request), n)}
          /\ UNCHANGED disturbed
       \/ /\ tool' = {EMPTY_CONTINUITY}
          /\ disturbed' = TRUE
    /\ UNCHANGED <<history, late, notices, stage, request, reason, message, draft,
                   known, fault>>

\* A candidate goes out if it breaks no rule; the reading is one step with
\* the answer, for it looks at nothing that another can change.
JudgeDraft(d) ==
    /\ draft' = {d}
    /\ \/ /\ validate_message(request, d) = {}
          /\ message' = {AgentMessage(d)}
          /\ stage' = "sent"
          /\ UNCHANGED <<reason, fault>>
       \/ /\ validate_message(request, d) # {}
          /\ FellBack("validation_failed")
          /\ UNCHANGED message

\* The run ends in structured output: an honest draft, or whatever else, the
\* same whatever the tool said.
Answer ==
    /\ stage = "invoked"
    /\ \/ \E facts \in tool : JudgeDraft(honest_draft(request, facts))
       \/ tool = {} /\ \E d \in Drafts : JudgeDraft(other_draft(request, d))
    /\ UNCHANGED <<history, late, notices, request, tool, known, disturbed>>

\* The runtime fails or refuses, or what it returns is not a candidate.
InvokeFails ==
    /\ stage = "invoked"
    /\ \E why \in {"transport_error", "bad_status", "malformed_payload", "unexpected_error"} :
          FellBack(why)
    /\ UNCHANGED <<history, late, notices, request, message, tool, draft, known,
                   disturbed>>

\* Mutant: a client without a read timeout.
WaitForEver == stage = "invoked" /\ UNCHANGED vars

\* The agent does not answer; the client stops waiting.
Timeout ==
    /\ stage = "invoked"
    /\ FellBack("timeout")
    /\ UNCHANGED <<history, late, notices, request, message, tool, draft, known,
                   disturbed>>

\* Mutant: a notice that raises is caught by the handler of the composition,
\* or by nobody.
NotifyRaising ==
    /\ stage = "notify"
    /\ notices' = Append(notices, reason)
    /\ \/ message' = {Template} /\ stage' = "sent" /\ UNCHANGED reason
       \/ /\ reason = "malformed_payload"
          /\ reason' = "unexpected_error"
          /\ UNCHANGED <<message, stage>>
    /\ UNCHANGED <<history, late, request, tool, draft, known, fault, disturbed>>

\* The operator is told, or telling fails; either way the template goes out.
Notify ==
    /\ stage = "notify"
    /\ notices' = Append(notices, reason)
    /\ message' = {Template}
    /\ stage' = "sent"
    /\ UNCHANGED <<history, late, request, reason, tool, draft, known, fault, disturbed>>

\* Another invocation records an alert: of an earlier clock, or of a later.
RecordLate ==
    /\ stage # "sent"
    /\ late < MaxLate
    /\ \E a \in LateAlerts \ history :
          history' = {b \in history : KeyBefore(a, b) \/ KeyBefore(b, a)} \cup {a}
    /\ late' = late + 1
    /\ UNCHANGED <<notices, stage, request, reason, message, tool, draft, known, fault,
                   disturbed>>

Done == stage = "sent" /\ UNCHANGED vars

Next ==
    \/ ReadHistory \/ Invoke \/ \E n \in 0 .. MaxPriorAlerts + 1 : CallTool(n)
    \/ Answer \/ InvokeFails \/ Timeout \/ Notify
    \/ RecordLate
    \/ Done

\* The application takes its steps, and its client stops waiting; the agent
\* owes nothing.
Fairness ==
    WF_vars(ReadHistory) /\ WF_vars(Invoke) /\ WF_vars(Timeout) /\ WF_vars(Notify)

Spec == Init /\ [][Next]_vars /\ Fairness

-----------------------------------------------------------------------------
TypeOK ==
    /\ history \subseteq AlertRecord
    /\ late \in 0 .. MaxLate
    /\ notices \in Seq(FallbackReason)
    /\ stage \in Stage
    /\ request \in MessageRequest
    /\ {reason, fault} \subseteq FallbackReason \cup {"none"}
    /\ \A m \in message : m.composed_by \in {"template", "agent"}
    /\ tool \subseteq ContinuitySummary
    /\ \A facts \in tool : Len(facts.prior_alerts) <= MaxPriorAlerts
    /\ disturbed \in BOOLEAN

\* Every title is long enough to count as a quotation; the city's name, which
\* is written more than once, has no figure in it.
Nameable(r) ==
    /\ \A s \in titles(r) : s.long
    /\ \A i \in DOMAIN r.city.text : r.city.text[i].kind \in {"word", "glue"}

\* So is every other string with a figure in it; the operator's own do not
\* name SENAMHI, which only an aviso may do at length.
Quotable(r) ==
    /\ Nameable(r)
    /\ \A s \in Range(supplied(r)) :
          s.long \/ \A i \in DOMAIN s.text : s.text[i].kind \in {"word", "glue", "stop"}
    /\ \A s \in Range(r.checklist) \cup {r.timezone} : \A i \in DOMAIN s.text : s.text[i] # Senamhi

\* The template's own message passes every rule that guards the agent, for
\* every request and history (message_validation.py, invariant V0).
TemplateIsValid ==
    stage = "compose" /\ Quotable(request) => validate_message(request, template(request)) = {}

Accepted(claim) ==
    \E m \in message, d \in draft : m.composed_by = "agent" /\ claim \in Range(d.claims)

\* What the forecast and the thresholds it meets say of each quantity.
thresholds_met == {r \in Range(request.reasons) : r.kind = "forecast"}

IsRainfall(v) ==
    \E amount \in (UNION {{f.mm_24h, f.mm_48h} : f \in request.forecast})
                  \cup {r.accumulated_mm : r \in thresholds_met} :
        v \in {amount, one_decimal(amount)}

IsProbability(v) ==
    v \in {Whole(f.peak_probability_pct) : f \in request.forecast}
          \cup {Whole(r.probability_pct) : r \in thresholds_met}

IsHorizon(v) == v \in {Whole(24), Whole(48)} \cup {Whole(r.hours) : r \in thresholds_met}

\* No amount reaches a resident as a quantity the forecast does not give it
\* for, whatever the model wrote beside it and in whatever order.  A figure
\* parted from its unit, by a month or by the point of another figure, may be
\* any quantity's, but one of them; one in words past a point may be anything
\* (_untraceable_numbers, _unit_implied_before, _word_numbers).
FiguresAreTheForecasts ==
    \A d \in draft : \A claim \in Range(d.claims) : Accepted(claim) =>
        /\ Unbroken(claim) =>
              /\ claim.about = "mm" => IsRainfall(claim.value)
              /\ claim.about = "%" => IsProbability(claim.value)
              /\ claim.about = "h" => IsHorizon(claim.value)
        /\ claim.about = "parted" \/ (claim.about \in {"mm", "%", "h"} /\ claim.value >= 0) =>
              IsRainfall(claim.value) \/ IsProbability(claim.value) \/ IsHorizon(claim.value)

SentWithin(a, t) == t - days(LookbackDays) <= a.sent_at /\ a.sent_at < t

InARow(n) ==
    /\ \E a \in known : SentWithin(a, AsOf)
    /\ \A k \in 1 .. n - 1 : \E a \in known : SentWithin(a, AsOf) /\ date(a.sent_at) = date(AsOf) - k

\* No avisos of several days: an alert is sent within a day of the opening of
\* its window.
SentPromptly == \A a \in known : a.sent_at - days(1) <= a.window.start

OwnDates == {date(t) : t \in moments(request)}
OwnTimes == {time_of_day(t) : t \in moments(request)}

\* A resident is told of days in a row, or of an earlier alert, only as they
\* were when the cycle started: alerts really sent, on those very days, at
\* that very time unless the date or the time is one of the request's own.
\* Days in words are only held to it where no decimal point parts them from
\* the words that say they go on
\* (read_continuity, summarize, _allowed_numbers, _allowed_moments).
ContinuityIsTrue ==
    SentPromptly =>
        \A d \in draft : \A claim \in Range(d.claims) : Accepted(claim) =>
            /\ claim.about = "days" /\ Unbroken(claim) =>
                  \E n \in 2 .. LookbackDays + 1 :
                      claim.value = Whole(n) /\ InARow(n) /\ ~ InARow(n + 1)
            /\ claim.about = "prior" =>
                  \/ date(claim.value) \in OwnDates /\ time_of_day(claim.value) \in OwnTimes
                  \/ \E a \in known :
                        /\ SentWithin(a, AsOf)
                        /\ date(a.sent_at) = date(claim.value)
                        /\ a.sent_at = claim.value \/ time_of_day(claim.value) \in OwnTimes
            /\ claim.about = "date" =>
                  \/ claim.value \in OwnDates
                  \/ \E a \in known : SentWithin(a, AsOf) /\ date(a.sent_at) = claim.value

\* Beside a quotation, in the sentence that quotes the title of an aviso.
BesideQuotation(d) ==
    d.origin = "one_sentence" /\ \E other \in Range(d.claims) : other.about = "quote"

\* Nothing is put in SENAMHI's mouth: an accepted body says in its name what
\* the closed vocabulary or the whole title of an aviso says, on one line or
\* over several, unless the same sentence quotes such a title, or a decimal
\* point parts the words from the name (_attribution_scope, _senamhi_clauses,
\* _is_structured_fact).
NothingIsInvented ==
    \A d \in draft : \A claim \in Range(d.claims) :
        claim.about = "invented" /\ Unbroken(claim) /\ Accepted(claim) => BesideQuotation(d)

\* What the comment on the rule says of every clause that names SENAMHI: a
\* structured fact or a quotation, never a paraphrase
\* (message_validation.py:937-942, decision 0002).
NothingIsParaphrased ==
    \A d \in draft : \A claim \in Range(d.claims) :
        claim.about = "invented" /\ Accepted(claim) => BesideQuotation(d)

\* Both sides saw the same alerts, each of them in full.
Undisturbed ==
    /\ ~ disturbed
    /\ late = 0
    /\ \A a \in history : a.legible
    /\ Cardinality(history) <= QueryLimit

\* The model is told what the validator knows, as one contract fixture pins
\* for two copies of the computation (continuity.py, agent/history.py).
SameFacts ==
    Undisturbed /\ (\A a, b \in history : a.sent_at = b.sent_at => a = b) =>
        \A facts \in tool :
            /\ facts.consecutive_days = request.continuity.consecutive_days
            /\ facts.previous_level = request.continuity.previous_level
            /\ facts.trend = request.continuity.trend
            /\ IsPrefix(facts.prior_alerts, request.continuity.prior_alerts)

\* An honest draft breaks no rule but that of its length, unless the two sides
\* could not see the same alerts (prompts.py, message_validation.py).
HonestDraftStands ==
    Undisturbed /\ Nameable(request) =>
        \A d \in draft : d.origin = "honest" => validate_message(request, d) \subseteq {"body_too_long"}

\* Whoever wrote it, what goes out has the level and the end the cycle
\* decided, names the city, fits, and forges no section or character.
Presentable ==
    \A text \in IF stage = "compose" THEN {template(request)} ELSE message \ {Template} :
        /\ text.level = request.level
        /\ text.valid_until = request.window.end
        /\ Has(text.body, Span(request.city))
        /\ length(text.body) <= MaxBodyLength
        /\ \A h \in SECTION_HEADERS : Occurrences(text.body, Header(h)) <= 1
        /\ ~ Has(text.body, Control) /\ ~ Has(text.body, Foreign)

\* The operator hears of a fallback once, with the fault that caused it, and
\* of nothing else (AgentBackedComposer._fell_back).
FallbackIsTold ==
    \A m \in message :
        IF m.composed_by = "agent" THEN notices = <<>> /\ fault = "none"
        ELSE notices = <<fault>>

\* Once a send is authorized a message goes out, whatever the store, the
\* agent and the operator's channel do.
MessageGoesOut == <>(message # {})

=============================================================================
