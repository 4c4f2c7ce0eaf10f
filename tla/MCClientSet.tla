----------------------------- MODULE MCClientSet -----------------------------
(* Small instances of ClientSet. *)
EXTENDS ClientSet

CONSTANTS c1, c2, k1, k2, u1

OneClient == {c1}
TwoClients == {c1, c2}
OneLoop == {k1}
NoUser == {}
OneUser == {u1}
TwoLoops == {k1, k2}
=============================================================================
