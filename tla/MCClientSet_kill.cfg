CONSTANTS
  c1 = c1
  c2 = c2
  k1 = k1
  k2 = k2
  u1 = u1
  Main = main
  NoOne = none
  AcceptLoop = k1
  Clients <- OneClient
  Users <- NoUser
  Loops <- OneLoop
SPECIFICATION FairSpec
PROPERTY SetKillEnds
CHECK_DEADLOCK FALSE
