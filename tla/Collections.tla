----------------------------- MODULE Collections -----------------------------
(***************************************************************************)
(* The sum of a list and the sorting of distinct elements.                 *)
(***************************************************************************)
EXTENDS Integers, SequencesExt

\* The sum of a list.
total(amounts) == FoldLeft(LAMBDA sum, amount : sum + amount, 0, amounts)

\* The elements of a set in order, each where as many come before it;
\* "before" has for each of them the ones that do.
in_order(before) ==
    [i \in 1 .. Cardinality(DOMAIN before) |->
        CHOOSE a \in DOMAIN before : Cardinality(before[a]) = i - 1]

=============================================================================
