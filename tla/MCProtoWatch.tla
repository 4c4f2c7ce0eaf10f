---------------------------- MODULE MCProtoWatch ----------------------------
(* Small instances of ProtoWatch. *)
EXTENDS ProtoWatch

CONSTANT t1

OneThread == {t1}
OneOrTwo == {1, 2}
=============================================================================
