CONSTANTS
  t1 = t1
  LoopThread = loop
  Threads <- OneThread
  Sizes <- OneOrTwo
  MaxBacklog = 2
  Window = 1
  Word = 8
  FirstSeq = 6
  MaxMsgs = 2
SPECIFICATION FairSpec
INVARIANTS
  TypeOK
  MessagesAccounted
  StreamIntact
  NoStrandedText
  ReferencesConserved
PROPERTIES
  SilentAfterKill
  TextLeaves
  KillFinalizes
CHECK_DEADLOCK FALSE
