------------------------------- MODULE Template -------------------------------
(***************************************************************************)
(* The deterministic message: what it says of a request, line by line.     *)
(***************************************************************************)
EXTENDS Validation

Line(tokens) == <<NewLine>> \o tokens

Moment(t) == <<Date(date(t)), Time(time_of_day(t))>>

\* What the template writes of one reason, if anything.
render_reason_es(reason) ==
    CASE reason.kind = "warning" ->
            <<Glue, Glue, Senamhi, Glue, Glue, Span(reason.title), Stop>>
      [] reason.kind = "forecast" ->
            <<Word, Decimal(one_decimal(reason.accumulated_mm)), Unit("mm"), Connector, Word, Word,
              Glue, Figure(Whole(reason.hours)), Unit("h"), Connector, Connector, Noun("%"), Word,
              Connector, Figure(Whole(reason.probability_pct)), Unit("%"), Stop>>
      [] reason.kind = "no_qualifying" ->
            <<Glue, Glue, Glue, Glue, Senamhi, Glue, Glue, Stop,
              Word, Continuing, Word, Glue, Word, Word, Stop>>
      [] reason.kind = "senamhi_unavailable" -> <<>>

reason_lines(reasons) ==
    LET bullet(reason) ==
            IF render_reason_es(reason) = <<>> THEN <<>>
            ELSE Line(<<Bullet>>) \o render_reason_es(reason)
        bullets == FlattenSeq([i \in DOMAIN reasons |-> bullet(reasons[i])])
    IN  IF bullets = <<>> THEN <<>> ELSE Line(<<Header("Motivos:")>>) \o bullets

down_lines(request) ==
    (IF request.senamhi_status = "unavailable"
     THEN Line(<<Glue, Glue, Glue, Senamhi, Glue, Glue, Glue, Glue, Glue, Stop,
                 Glue, Continuing, Word, Stop>>)
     ELSE <<>>)
    \o (IF request.open_meteo_status = "unavailable"
        THEN Line(<<Glue, Glue, Word, Glue, Glue, Glue, Stop>>)
        ELSE <<>>)

CHECKLIST_TRUNCATED_ES == Line(<<Bullet, Glue, Word, Word>>)

\* The item that reads as that line does, and is never written.
TruncationItem == [text |-> <<Glue, Word, Word>>, long |-> TRUE, length |-> 3]

item_bullet(item) == IF item = TruncationItem THEN <<>> ELSE Line(<<Bullet, Span(item)>>)

\* Mutant: the items are all written, whatever their length.
all_checklist_lines(items, budget) ==
    FlattenSeq([i \in DOMAIN items |-> Line(<<Bullet, Span(items[i])>>)])

\* All the items, or as many of the first as leave room for a line that says
\* there were more.
checklist_lines(items, budget) ==
    LET bullets(n) == FlattenSeq([i \in 1 .. n |-> item_bullet(items[i])])
        room == budget - length(CHECKLIST_TRUNCATED_ES)
    IN  IF TruncationItem \notin Range(items) /\ length(bullets(Len(items))) <= budget
        THEN bullets(Len(items))
        ELSE bullets(Max({0} \cup {n \in 1 .. Len(items) : length(bullets(n)) <= room}))
             \o CHECKLIST_TRUNCATED_ES

\* The body without the operator's recommendations.
evaluation(request) ==
    <<Word, Span(request.city)>>
    \o Line(<<Glue, Word>>)
    \o Line(<<Word, Glue>> \o Moment(request.window.start) \o <<Glue>>
            \o Moment(request.window.end) \o <<Word, Word, Span(request.timezone)>>)
    \o reason_lines(request.reasons)
    \o down_lines(request)

body_of(request) ==
    IF request.checklist = <<>> THEN evaluation(request)
    ELSE LET above == evaluation(request) \o Line(<<Header("Recomendaciones:")>>)
         IN  above \o checklist_lines(request.checklist, MaxBodyLength - length(above))

template(request) ==
    [title |-> <<Continuing, Glue, Word, Span(request.city), Word>>,
     body |-> body_of(request),
     level |-> request.level,
     valid_until |-> request.window.end,
     composed_by |-> "template"]

=============================================================================
