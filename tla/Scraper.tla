------------------------------- MODULE Scraper -------------------------------
(***************************************************************************)
(* From the SENAMHI page to the warnings in force, or to a source declared *)
(* unavailable.                                                            *)
(*                                                                         *)
(* A page is its rows, under a header that carries the expected labels or  *)
(* not.  A row is what it says (its warning), whether it still shows the   *)
(* "(vigente)" marker, and whether its cells are whole, fewer than the     *)
(* header asks for ("short"), or hold one that does not parse ("garbled"). *)
(***************************************************************************)
EXTENDS Risk

Row(cells, marked, warning) == [cells |-> cells, marked |-> marked, warning |-> warning]

Page(labelled, rows) == [labelled |-> labelled, rows |-> rows]

anomalies(page) == {i \in DOMAIN page.rows : page.rows[i].cells # "whole"}

\* Mutant: a row that does not parse is skipped, in force or not.
refuse_never(page) == FALSE

\* The row in force is the one that cannot be parsed.
refuse_if_in_force(page) == \E i \in anomalies(page) : page.rows[i].marked

\* More than half of the rows are lost: the structure changed, not the rows.
too_many_anomalies(page) == 2 * Cardinality(anomalies(page)) > Len(page.rows)

in_force(row, t) ==
    row.marked /\ row.warning.window.start <= t /\ t <= row.warning.window.end

\* The warnings that drive risk, discarding the other hazards.
parse_warnings_page(page, t) ==
    IF \/ ~page.labelled
       \/ page.rows = <<>>
       \/ refuse_if_in_force(page)
       \/ too_many_anomalies(page)
    THEN Unavailable
    ELSE Available({row.warning :
            row \in {r \in Range(page.rows) :
                       r.cells = "whole" /\ in_force(r, t) /\ is_flood_relevant(r.warning)}})

\* What the page says is in force to somebody who reads past its damage.
announced(page, t) ==
    {row.warning : row \in {r \in Range(page.rows) :
                              in_force(r, t) /\ is_flood_relevant(r.warning)}}

=============================================================================
