CONSTANTS
  t1 = t1
  t2 = t2
  e1 = e1
  r = r
  w = w
  LoopThread = loop
  NoEvent = none
  Threads <- TwoThreads
  Events <- OneEvent
  Bits <- TwoBits
  MaxOps = 2
SPECIFICATION FairSpec
INVARIANTS
  TypeOK
  RefConservation
  HandledEventInLoop
  NoLostWakeup
  IoInSync
  IInv
PROPERTIES
  FreedUntouched
  ImplementsLifecycle
  QuitEndsRun
  RemoveTakesEffect
  QuitReleasesEvents
  IoConverges
CHECK_DEADLOCK FALSE
