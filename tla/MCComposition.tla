---------------------------- MODULE MCComposition ----------------------------
(***************************************************************************)
(* An instance of Composition for TLC: dates of three instants, a lookback *)
(* of two dates, the cycle at the second instant of date 4.                *)
(***************************************************************************)
EXTENDS Composition, TLC

Supplied(text, long, chars) == [text |-> text, long |-> long, length |-> chars]

City == Supplied(<<Word>>, FALSE, 2)
Zone == Supplied(<<Word>>, TRUE, 2)
Aviso == Supplied(<<Word, Figure(Whole(24)), Senamhi, Stop>>, TRUE, 4)
Store == Supplied(<<Word, Numeral, Unit("days")>>, TRUE, 6)
Phone == Supplied(<<Word, Figure(Whole(105))>>, TRUE, 4)
ShortPhone == Supplied(<<Word, Figure(Whole(105))>>, FALSE, 4)

Warning(w) == [kind |-> "warning", level |-> w.level, title |-> w.title]

Orange == [level |-> "orange", title |-> Aviso, window |-> [start |-> 12, end |-> 15]]

Storm == [mm_24h |-> 1244, mm_48h |-> 3000, peak_at |-> 14, peak_probability_pct |-> 70]

Threshold == [kind |-> "forecast", accumulated_mm |-> 1244, hours |-> 24, probability_pct |-> 70]

Both ==
    [city |-> City, timezone |-> Zone, level |-> "prepare", window |-> [start |-> 12, end |-> 16],
     reasons |-> <<Warning(Orange), Threshold>>, forecast |-> {Storm}, warning |-> {Orange},
     senamhi_status |-> "available", open_meteo_status |-> "available",
     checklist |-> <<Phone, Store, Phone>>, continuity |-> EMPTY_CONTINUITY]

Alone ==
    [Both EXCEPT !.reasons = <<Threshold, [kind |-> "no_qualifying"]>>, !.warning = {},
                 !.checklist = <<Store, Phone, TruncationItem, Store, Phone, Store, Phone>>]

Degraded ==
    [Both EXCEPT !.reasons = <<Threshold, [kind |-> "senamhi_unavailable"]>>, !.warning = {},
                 !.senamhi_status = "unavailable", !.checklist = <<ShortPhone>>]

Official ==
    [Both EXCEPT !.reasons = <<Warning(Orange)>>, !.forecast = {}, !.level = "imminent",
                 !.open_meteo_status = "unavailable", !.checklist = <<>>]

SomeRequests == {Both, Alone, Degraded, Official}

Sent(start, at, level, warning) ==
    [window |-> [start |-> start, end |-> start + 3], sent_at |-> at, level |-> level,
     warning |-> warning, legible |-> TRUE]

Torn == [Sent(10, 10, "prepare", "no_warning") EXCEPT !.legible = FALSE]

SomeHistories ==
    {{},
     {Sent(10, 10, "prepare", "yellow")},
     {Sent(7, 9, "imminent", "red"), Sent(4, 7, "prepare", "no_warning")},
     {Sent(4, 7, "prepare", "no_warning")},
     {Sent(12, 12, "prepare", "orange"), Sent(3, 8, "prepare", "no_warning")},
     {Sent(9, 10, "prepare", "orange"), Sent(6, 7, "prepare", "yellow"), Sent(14, 12, "imminent", "red")},
     {Sent(9, 10, "prepare", "orange"), Torn},
     {Sent(4, 6, "prepare", "orange"), Sent(6, 8, "imminent", "no_warning")}}

SomeLate == {Sent(8, 9, "prepare", "yellow"), Sent(13, 13, "imminent", "red")}

\* The same amount with a comma and with a point.
Written124 == {Figure(1240), Decimal(1240)}

Amounts ==
    {Claim("mm", v, <<Decimal(v), Unit("mm")>>) : v \in {1240, Whole(70), Whole(2)}}
    \cup {Claim("mm", v, <<Noun("mm"), Word, Figure(v)>>) : v \in {1240, Whole(70)}}
    \cup {Claim("%", v, <<Noun("%"), Figure(v)>>) : v \in {Whole(70), Whole(24)}}
    \cup {Claim("h", v, <<Unit("h"), Figure(v)>>) : v \in {Whole(24), Whole(70)}}
    \cup {Claim("mm", -1, <<Numeral, Connector, Unit("mm")>>),
          Claim("%", -1, <<Noun("%"), Word, Numeral>>)}
    \cup {Claim("mm", v, <<Noun("mm"), amount, Connector, Figure(v)>>) :
             amount \in Written124, v \in {Whole(70), Whole(2)}}
    \cup {Claim("mm", -1, <<Noun("mm"), amount, Connector, Numeral>>) : amount \in Written124}

Openings ==
    {Claim("mm", 1240, <<Decimal(1240), Unit("mm")>>), Claim("%", Whole(70), <<Noun("%"), Figure(Whole(70))>>),
     Claim("h", Whole(24), <<Unit("h"), Figure(Whole(24))>>)}

Endings ==
    {Claim("mm", Whole(70), <<Figure(Whole(70)), Unit("mm")>>), Claim("%", Whole(24), <<Figure(Whole(24)), Unit("%")>>),
     Claim("mm", -1, <<Decimal(1240), Unit("mm"), Connector, Numeral>>)}

Figures == {Claim("number", v, <<Word, Figure(v)>>) : v \in {Whole(2), Whole(70)}}

Days ==
    {Claim("days", Whole(n), <<Figure(Whole(n)), Unit("days")>>) : n \in 1 .. 3}
    \cup {Claim("days", Whole(2), <<Unit("days"), Figure(Whole(2))>>),
          Claim("days", -1, <<Ordinal, Unit("days")>>),
          Claim("days", -1, <<Numeral, Unit("days"), Continuing>>),
          Claim("days", -1, <<Continuing, Numeral, Jornada>>)}
    \cup {Claim("days", -1, <<Continuing, amount, Word, Numeral, Unit("days")>>) : amount \in Written124}

Priors ==
    {Claim("prior", t, Moment(t)) : t \in {7, 8, 9, 10, 12, 14}}
    \cup {Claim("date", d, <<Prose(d, Whole(9))>>) : d \in {2, 3, 4}}
    \cup {Claim("parted", v, <<Prose(3, v), Unit("mm")>>) : v \in {Whole(9), Whole(24)}}

Said ==
    {Claim("quote", 0, <<Glue, Senamhi, Span(Aviso)>>),
     Claim("quote", 0, <<Span(Store)>>),
     Claim("invented", 0, <<Senamhi, Word>>),
     Claim("invented", 0, <<Glue, Senamhi, NewLine, Word>>),
     Claim("invented", 0, <<Senamhi, NewLine, Bullet, Word>>)}
    \cup {Claim("invented", 0, <<Glue, Senamhi, Glue, amount, Unit("mm"), Word>>) : amount \in Written124}

Written(claims, together, defect) == [claims |-> claims, together |-> together, defect |-> defect]

\* One claim to a draft, in both layouts where the line end matters, and the
\* pairs in which one phrase can lend the other its unit, its quotation or
\* its line.
SomeDrafts ==
    {Written(<<c>>, FALSE, "none") : c \in Amounts \cup Days \cup Priors \cup Said}
    \cup {Written(<<c, d>>, TRUE, "none") : c \in Openings, d \in Amounts \cup Figures \cup Endings}
    \cup {Written(<<c, d>>, TRUE, "none") : c \in Days, d \in Figures}
    \cup {Written(<<c, d>>, together, "none") : c \in Said, d \in Said, together \in BOOLEAN}
    \cup {Written(<<>>, FALSE, defect) : defect \in Defect}

=============================================================================
