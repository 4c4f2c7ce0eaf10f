CONSTANTS
  t1 = t1
  t2 = t2
  Writers <- OneWriter
  Size = 3
  LineMax = 3
  Word = 8
  Lens <- ShortLines
  Texts <- OneText
  Garbage <- AnyGarbage
SPECIFICATION FairSpec
CHECK_DEADLOCK FALSE
PROPERTY ExitEndsWorker
