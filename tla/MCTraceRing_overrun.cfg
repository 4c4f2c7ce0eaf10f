CONSTANTS
  t1 = t1
  t2 = t2
  Writers <- TwoWriters
  Size = 4
  LineMax = 4
  Word = 10
  Lens <- ShortLines
  Texts <- OneText
  Garbage <- AnyGarbage
SPECIFICATION Spec
CHECK_DEADLOCK FALSE
INVARIANT ReadAssert
