------------------------------- MODULE MCH6Ev -------------------------------
(* Small instances of H6Ev: model values for the threads, events and bits. *)
EXTENDS H6EvRefinement

CONSTANTS t1, t2, e1, r, w

TwoThreads == {t1, t2}
OneEvent == {e1}
TwoBits == {r, w}
=============================================================================
