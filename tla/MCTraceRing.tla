---------------------------- MODULE MCTraceRing ----------------------------
(* Small instances of TraceRing. *)
EXTENDS TraceRing

CONSTANTS t1, t2

OneWriter == {t1}
TwoWriters == {t1, t2}
OneText == {"a"}
TwoTexts == {"a", "b"}
ShortLines == 1..(LineMax - 1)
LongLines == {LineMax - 1, LineMax}
AnyGarbage == BOOLEAN
=============================================================================
