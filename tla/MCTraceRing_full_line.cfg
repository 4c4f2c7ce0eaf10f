CONSTANTS
  t1 = t1
  t2 = t2
  Writers <- OneWriter
  Size = 3
  LineMax = 3
  Word = 8
  Lens <- LongLines
  Texts <- OneText
  Garbage <- AnyGarbage
SPECIFICATION Spec
CHECK_DEADLOCK FALSE
INVARIANT AllPrintedAtExit
