CONSTANTS
  l1 = l1
  l2 = l2
  NoEvent = none
  Events <- TwoListeners
  Amount = 2
  Ports <- TwoPorts
SPECIFICATION FairSpec
INVARIANTS
  TypeOK
  PlacementAccounted
  ListenerOwned
  ServerOutlivesThreads
  NothingLeftBehind
PROPERTIES
  FollowsLifecycle
  KillEnds
  RemovedEventFreed
CHECK_DEADLOCK FALSE
