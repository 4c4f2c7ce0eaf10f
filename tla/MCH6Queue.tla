------------------------------ MODULE MCH6Queue ------------------------------
(* Small instances of H6Queue. *)
EXTENDS H6Queue, TLC

CONSTANTS n1, n2, n3, n4, d1, d2, evs, sources

FourNodes == {n1, n2, n3, n4}
TwoData == {d1, d2}
TwoLists == {evs, sources}

\* neither an address nor what a node points to is ever compared but for equality
Symmetry == Permutations(FourNodes) \cup Permutations(TwoData)
=============================================================================
