------------------------------ MODULE MCRelay ------------------------------
(***************************************************************************)
(* An instance of Relay for TLC: the two runs that may overlap, two pages  *)
(* that parse and one that does not, clocks that agree and clocks that do  *)
(* not.                                                                     *)
(***************************************************************************)
EXTENDS Relay, TLC

Symmetry == Permutations(Producers) \cup Permutations(Parses)

=============================================================================
