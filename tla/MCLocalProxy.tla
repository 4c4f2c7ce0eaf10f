---------------------------- MODULE MCLocalProxy ----------------------------
(* Small instances of LocalProxy. *)
EXTENDS LocalProxy

CONSTANTS l1, l2

OneListener == {l1}
TwoListeners == {l1, l2}
OnePort == {1025}
TwoPorts == {1025, 1026}
=============================================================================
