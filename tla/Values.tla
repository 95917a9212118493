------------------------------- MODULE Values -------------------------------
(***************************************************************************)
(* The value objects every other module speaks: risk levels and their      *)
(* order, time windows on a clock of whole ticks, the two data sources.    *)
(***************************************************************************)
EXTENDS Integers

Level == {"none", "prepare", "imminent"}

LEVEL_RANK == [none |-> 0, prepare |-> 1, imminent |-> 2]

is_escalation(previous, candidate) == LEVEL_RANK[candidate] > LEVEL_RANK[previous]

Source == {"senamhi", "open_meteo"}

Window(start, end) == [start |-> start, end |-> end]

\* The constructor refuses an empty or inverted span.
TimeWindow == {w \in [start : Int, end : Int] : w.start < w.end}

\* Windows are half open: two that only touch share no instant.
overlaps(v, w) == v.start < w.end /\ w.start < v.end

Earlier(s, t) == IF s <= t THEN s ELSE t
Later(s, t) == IF s <= t THEN t ELSE s

\* Mutant: the part the two share, which may be empty.
Shared(v, w) == Window(Later(v.start, w.start), Earlier(v.end, w.end))

\* The smallest window covering both.
Cover(v, w) == Window(Earlier(v.start, w.start), Later(v.end, w.end))

Duration(w) == w.end - w.start

=============================================================================
