CONSTANTS
  t1 = t1
  t2 = t2
  Writers <- OneWriter
  Size = 3
  LineMax = 3
  Word = 8
  Lens <- ShortLines
  Texts <- TwoTexts
  Garbage <- AnyGarbage
SPECIFICATION FairSpec
INVARIANTS
  TypeOK
  FirstInFirstOut
  NoSleepOnText
  AllPrintedAtExit
PROPERTIES
  TextIsPrinted
  WriterReturns
CHECK_DEADLOCK FALSE
