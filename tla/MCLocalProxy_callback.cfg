CONSTANTS
  l1 = l1
  l2 = l2
  NoEvent = none
  Events <- OneListener
  Amount = 2
  Ports <- OnePort
SPECIFICATION Spec
INVARIANT ServedListenerAlive
CHECK_DEADLOCK FALSE
