------------------------------ MODULE Validation ------------------------------
(***************************************************************************)
(* The rules a draft must pass before a resident reads it.                 *)
(*                                                                         *)
(* A text is a sequence of tokens: what the rules tell words apart by.     *)
(* Amounts are in hundredths, so that one decimal place is visible.  A     *)
(* string the system supplied (a checklist item, an aviso title, the city) *)
(* is one token while it is whole, and its own tokens when it is not       *)
(* exempt.                                                                 *)
(***************************************************************************)
EXTENDS Continuity, FiniteSets

CONSTANTS
    MaxTitleLength,  \* MAX_TITLE_LENGTH
    MaxBodyLength    \* MAX_BODY_LENGTH

ASSUME LengthAssumption == {MaxTitleLength, MaxBodyLength} \subseteq Nat \ {0}

NumberUnit == {"mm", "%", "h", "days"}

Token(kind) == [kind |-> kind]
Figure(v) == [kind |-> "figure", value |-> v]       \* "70", "12,4"; negative: not a plain decimal
Decimal(v) == [kind |-> "decimal", value |-> v]     \* "12.4": a figure with a point in it
Unit(u) == [kind |-> "unit", unit |-> u]            \* "mm", "%", "horas", "dias"
Noun(u) == [kind |-> "noun", unit |-> u]            \* "precipitacion", "probabilidad"
Date(d) == [kind |-> "date", date |-> d]
Time(t) == [kind |-> "time", time |-> t]
Prose(d, v) == [kind |-> "prose", date |-> d, value |-> v]  \* "el 3 de octubre"
Header(h) == [kind |-> "header", header |-> h]
Span(s) == [kind |-> "span", of |-> s]

Numeral == Token("numeral")          \* "tres"
Connector == Token("connector")      \* "y", "de"
Ordinal == Token("ordinal")          \* "tercer"
Jornada == Token("day_like")         \* "jornadas", "noches"
Continuing == Token("continuing")    \* "consecutivos", "alerta"
Senamhi == Token("senamhi")
Glue == Token("glue")                \* the closed vocabulary of attribution
Word == Token("word")                \* anything else
Stop == Token("stop")
NewLine == Token("newline")
Bullet == Token("bullet")
Control == Token("control")
Foreign == Token("foreign")          \* a letter of another script

SECTION_HEADERS == {"Motivos:", "Recomendaciones:"}

PlainToken ==
    [kind : {"numeral", "connector", "ordinal", "day_like", "continuing", "senamhi", "glue", "word",
             "stop", "newline", "bullet", "control", "foreign"}]
    \cup [kind : {"figure", "decimal"}, value : Int] \cup [kind : {"unit"}, unit : NumberUnit]
    \cup [kind : {"noun"}, unit : {"mm", "%"}]
    \cup [kind : {"date"}, date : Int] \cup [kind : {"time"}, time : Int]
    \cup [kind : {"prose"}, date : Int, value : Int] \cup [kind : {"header"}, header : SECTION_HEADERS]

\* A string the system supplied: what it says, whether it is long enough to
\* be a quotation, and the characters it takes.
SuppliedString == [text : Seq(PlainToken), long : BOOLEAN, length : Nat]

TextToken == PlainToken \cup [kind : {"span"}, of : SuppliedString]

\* What is given or not.
Optional(S) == {given \in SUBSET S : \A a, b \in given : a = b}

\* What is to be told, and why; a level here is one that is told.
Reason ==
    [kind : {"warning"}, level : DOMAIN WarningRank \ {"no_warning"}, title : SuppliedString]
    \cup [kind : {"forecast"}, accumulated_mm : Nat, hours : Nat, probability_pct : Nat]
    \cup [kind : {"no_qualifying", "senamhi_unavailable"}]

MessageRequest ==
    [city : SuppliedString, timezone : SuppliedString, level : Level \ {"none"}, window : TimeWindow,
     reasons : Seq(Reason),
     forecast : Optional([mm_24h : Nat, mm_48h : Nat, peak_at : Int, peak_probability_pct : Nat]),
     warning : Optional([level : DOMAIN WarningRank \ {"no_warning"}, title : SuppliedString,
                         window : TimeWindow]),
     senamhi_status : {"available", "unavailable"}, open_meteo_status : {"available", "unavailable"},
     checklist : Seq(SuppliedString), continuity : ContinuitySummary]

Whole(n) == 100 * n

\* The amount as "{:.1f}" prints it.
one_decimal(v) == 10 * ((v + 5) \div 10)

time_of_day(t) == t % TicksPerDay

length(text) ==
    total([i \in DOMAIN text |-> IF text[i].kind = "span" THEN text[i].of.length ELSE 1])

-----------------------------------------------------------------------------
\* Every string the system supplied, once for each time it supplied it.
supplied(request) ==
    request.checklist \o <<request.city, request.timezone>>
    \o SetToSeq({w.title : w \in request.warning})
    \o FlattenSeq([i \in DOMAIN request.reasons |->
           IF request.reasons[i].kind = "warning" THEN <<request.reasons[i].title>> ELSE <<>>])

Occurrences(seq, s) == Cardinality({i \in DOMAIN seq : seq[i] = s})

\* Mutant: a supplied string is exempt once, however often it was supplied.
verbatim_once(request, text, i) ==
    text[i].of.long /\ Occurrences(SubSeq(text, 1, i), text[i]) = 1

\* Long enough to be a quotation, and as many times as it was supplied.
verbatim(request, text, i) ==
    /\ text[i].of.long
    /\ Occurrences(SubSeq(text, 1, i), text[i]) <= Occurrences(supplied(request), text[i].of)

\* What the model wrote of its own.
residue(request, candidate) ==
    LET text == candidate.title \o <<NewLine>> \o candidate.body
    IN  FlattenSeq([i \in DOMAIN text |->
            IF text[i].kind # "span" THEN <<text[i]>>
            ELSE IF verbatim(request, text, i) THEN <<>>
            ELSE text[i].of.text])

-----------------------------------------------------------------------------
\* What ends a clause: a stop, a line's end, and the point of a decimal, which
\* the rules do not tell from a full stop.
CLAUSE_BOUNDARIES == {"stop", "newline", "decimal"}

Boundary(token) == token.kind \in CLAUSE_BOUNDARIES

IsFigure(token) == token.kind \in {"figure", "decimal"}

\* The tokens a scan for words sees; it sees none of the punctuation.
IsWord(token) == token.kind \notin {"stop", "newline", "bullet", "control"}

clause_before(text, i) ==
    {j \in 1 .. i - 1 : \A k \in j .. i - 1 : ~ Boundary(text[k])}

clause_around(text, i) ==
    clause_before(text, i)
    \cup {j \in i .. Len(text) : \A k \in i .. j : ~ Boundary(text[k])}

unit_after(text, i) ==
    IF i < Len(text) /\ text[i + 1].kind = "unit" THEN {text[i + 1].unit} ELSE {}

day_word_before(text, i) == i > 1 /\ text[i - 1] = Unit("days")

\* Mutant: only a unit next to the figure is its unit.
no_unit_implied(text, i) == {}

\* The nearest unit of the clause so far.
unit_implied_before(text, i) ==
    LET units == {j \in clause_before(text, i) :
                    \/ text[j].kind = "noun"
                    \/ text[j].kind = "unit" /\ text[j].unit \in {"mm", "h"}}
    IN  IF units = {} THEN {} ELSE {text[Max(units)].unit}

unit_before(text, i) ==
    IF day_word_before(text, i) THEN {"days"} ELSE unit_implied_before(text, i)

\* The unit a figure states, of itself first, then of its clause.
unit_of(text, i) ==
    IF unit_after(text, i) # {} THEN unit_after(text, i) ELSE unit_before(text, i)

allowed_numbers(request) ==
    LET forecasts == request.forecast
        thresholds == {r \in Range(request.reasons) : r.kind = "forecast"}
        amounts == (UNION {{f.mm_24h, f.mm_48h} : f \in forecasts})
                   \cup {r.accumulated_mm : r \in thresholds}
        consecutive == request.continuity.consecutive_days
    IN  [mm |-> amounts \cup {one_decimal(v) : v \in amounts},
         pct |-> {Whole(f.peak_probability_pct) : f \in forecasts}
                 \cup {Whole(r.probability_pct) : r \in thresholds},
         h |-> (UNION {{Whole(24), Whole(48)} : f \in forecasts})
               \cup {Whole(r.hours) : r \in thresholds},
         days |-> IF consecutive > 1 THEN {Whole(consecutive)} ELSE {}]

\* A bare figure may equal any quantity but the day count.
permitted(allowed, units) ==
    CASE units = {} -> allowed.mm \cup allowed.pct \cup allowed.h
      [] units = {"mm"} -> allowed.mm
      [] units = {"%"} -> allowed.pct
      [] units = {"h"} -> allowed.h
      [] units = {"days"} -> allowed.days

\* The instants the request carries, and the prior alerts a model was shown.
moments(request) ==
    {request.window.start, request.window.end}
    \cup (UNION {{w.window.start, w.window.end} : w \in request.warning})
    \cup {f.peak_at : f \in request.forecast}

prior_moments(request) ==
    LET prior == request.continuity.prior_alerts
    IN  IF request.continuity.consecutive_days = 0 THEN {}
        ELSE {prior[i].sent_at : i \in 1 .. Min({MaxPriorAlerts, Len(prior)})}

allowed_dates(request) == {date(t) : t \in moments(request) \cup prior_moments(request)}

\* A prior alert's time is allowed only next to that alert's date.
allowed_time(request, text, i) ==
    \/ text[i].time \in {time_of_day(t) : t \in moments(request)}
    \/ /\ i > 1
       /\ text[i - 1].kind = "date"
       /\ \E t \in prior_moments(request) :
             text[i - 1].date = date(t) /\ text[i].time = time_of_day(t)

\* A date written out is held to the dates, unless a unit follows it.
untraceable(request, text, i) ==
    CASE text[i].kind = "date" -> text[i].date \notin allowed_dates(request)
      [] text[i].kind = "time" -> ~ allowed_time(request, text, i)
      [] text[i].kind = "prose" /\ unit_after(text, i) = {} ->
            text[i].date \notin allowed_dates(request)
      [] text[i].kind = "prose" /\ unit_after(text, i) # {} ->
            text[i].value \notin permitted(allowed_numbers(request), unit_before(text, i))
      [] IsFigure(text[i]) ->
            text[i].value \notin permitted(allowed_numbers(request), unit_of(text, i))

untraceable_numbers(request, text) ==
    \E i \in DOMAIN text :
        /\ text[i].kind \in {"figure", "decimal", "date", "time", "prose"}
        /\ untraceable(request, text, i)

-----------------------------------------------------------------------------
\* The first word past the numerals and connectors that follow i, if any.
word_after(text, i) ==
    LET words == {j \in i + 1 .. Len(text) :
                    IsWord(text[j]) /\ text[j].kind \notin {"numeral", "connector"}}
    IN  IF words = {} THEN {} ELSE {Min(words)}

word_numbers(request, text) ==
    \E i \in DOMAIN text :
        /\ text[i] = Numeral
        /\ \/ \E j \in word_after(text, i) : text[j].kind = "unit" /\ text[j].unit # "days"
           \/ unit_implied_before(text, i) # {}

in_the_checklist(request, phrase) ==
    \E item \in Range(request.checklist) :
        LET words == SelectSeq(item.text, IsWord)
        IN  \E k \in 1 .. Len(words) - Len(phrase) + 1 :
                SubSeq(words, k, k + Len(phrase) - 1) = phrase

\* A number of days in words: an ordinal before the day word, or a numeral
\* unless the operator wrote the phrase and the clause claims no continuity.
day_counts_in_words(request, text) ==
    \E i \in DOMAIN text :
        \/ /\ text[i] = Ordinal
           /\ \E j \in i + 1 .. Len(text) :
                 /\ text[j] = Unit("days")
                 /\ \A k \in i + 1 .. j - 1 : ~ IsWord(text[k])
        \/ /\ text[i] = Numeral
           /\ \E j \in word_after(text, i) :
                 /\ text[j] \in {Unit("days"), Jornada}
                 /\ \/ ~ in_the_checklist(request, SelectSeq(SubSeq(text, i, j), IsWord))
                    \/ \E k \in clause_around(text, i) : text[k] = Continuing

-----------------------------------------------------------------------------
\* The text as a reader of SENAMHI's name has it: a title of the request, if
\* long enough, is a quotation; every other string is its words.
titles(request) ==
    {w.title : w \in request.warning}
    \cup {r.title : r \in {x \in Range(request.reasons) : x.kind = "warning"}}

Quoted(request, token) ==
    token.kind = "span" /\ token.of.long /\ token.of \in titles(request)

attribution_form(request, text) ==
    FlattenSeq([i \in DOMAIN text |->
        IF text[i].kind = "span" /\ ~ Quoted(request, text[i]) /\ text[i].of # request.city
        THEN text[i].of.text ELSE <<text[i]>>])

SaysSenamhi(token) ==
    \/ token = Senamhi
    \/ token.kind = "span" /\ \E k \in DOMAIN token.of.text : token.of.text[k] = Senamhi

Terminates(token) ==
    \/ token = Stop
    \/ token.kind = "span" /\ token.of.text # <<>> /\ Last(token.of.text) = Stop

line_start(text, i) == Max({1} \cup {k + 1 : k \in {n \in 1 .. i - 1 : text[n] = NewLine}})

\* Whether j lies in the statement i is part of: a line that ends without a
\* terminator goes on in the next, unless that is blank, a header or a bullet.
goes_on(text, i, j) ==
    \A k \in i .. j - 1 : text[k] = NewLine =>
        /\ k > 1 => ~ Terminates(text[k - 1])
        /\ text[k + 1].kind \notin {"newline", "header", "bullet"}

\* From the line of the first mention it goes on from to its end; lines
\* before that are never reached.
attribution_scope(text, i) ==
    LET first == Min({m \in 1 .. i : SaysSenamhi(text[m]) /\ goes_on(text, m, i)})
    IN  {j \in line_start(text, first) .. Len(text) :
            text[j] # NewLine /\ (j > i => goes_on(text, i, j))}

\* Mutant: a statement may end with its line, or where a list begins.
ended_anyhow(text, i) == TRUE

ended(text, i) == Terminates(text[Max(attribution_scope(text, i))])

\* The lines of a statement are one; its clauses end as any do.
senamhi_clause(text, i) ==
    {j \in attribution_scope(text, i) :
        \A k \in Min({i, j}) .. Max({i, j}) : text[k].kind \notin CLAUSE_BOUNDARIES \ {"newline"}}

is_structured_fact(request, token) ==
    \/ token.kind \in {"glue", "senamhi", "connector", "figure", "decimal", "date", "time"}
    \/ token = Span(request.city)
    \/ token = Unit("%")

\* Every mention belongs to a statement that is ended, and its clause quotes
\* a title or is built of the closed vocabulary alone.
senamhi_attribution(request, given) ==
    LET text == attribution_form(request, given)
    IN  \E i \in DOMAIN text :
            /\ SaysSenamhi(text[i])
            /\ \/ ~ ended(text, i)
               \/ /\ ~ \E j \in senamhi_clause(text, i) : Quoted(request, text[j])
                  /\ \E j \in senamhi_clause(text, i) :
                        IsWord(text[j]) /\ ~ is_structured_fact(request, text[j])

-----------------------------------------------------------------------------
Has(text, token) == \E i \in DOMAIN text : text[i] = token

Blank(text) == \A i \in DOMAIN text : text[i] = NewLine

\* The rules a candidate breaks, none of them skipped for another.
validate_message(request, candidate) ==
    LET text == residue(request, candidate)
        header_lines(h) == Occurrences(candidate.body, Header(h))
    IN  {rule \in
          {"level_mismatch", "valid_until_mismatch", "empty_title", "empty_body", "city_missing",
           "title_too_long", "body_too_long", "forged_section_header", "unsafe_character",
           "unknown_number", "word_number", "senamhi_attribution", "disallowed_script"} :
          CASE rule = "level_mismatch" -> candidate.level # request.level
            [] rule = "valid_until_mismatch" -> candidate.valid_until # request.window.end
            [] rule = "empty_title" -> Blank(candidate.title)
            [] rule = "empty_body" -> Blank(candidate.body)
            [] rule = "city_missing" -> ~ Has(candidate.body, Span(request.city))
            [] rule = "title_too_long" -> length(candidate.title) > MaxTitleLength
            [] rule = "body_too_long" -> length(candidate.body) > MaxBodyLength
            [] rule = "forged_section_header" -> \E h \in SECTION_HEADERS : header_lines(h) > 1
            [] rule = "unsafe_character" -> Has(candidate.title \o candidate.body, Control)
            [] rule = "unknown_number" -> untraceable_numbers(request, text)
            [] rule = "word_number" ->
                  word_numbers(request, text) \/ day_counts_in_words(request, text)
            [] rule = "senamhi_attribution" ->
                  \/ senamhi_attribution(request, candidate.title)
                  \/ senamhi_attribution(request, candidate.body)
            [] rule = "disallowed_script" -> Has(candidate.title \o candidate.body, Foreign)}

=============================================================================
