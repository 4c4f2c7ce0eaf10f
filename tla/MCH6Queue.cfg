CONSTANTS
  n1 = n1
  n2 = n2
  n3 = n3
  n4 = n4
  d1 = d1
  d2 = d2
  evs = evs
  sources = sources
  Null = null
  Nodes <- FourNodes
  Data <- TwoData
  ListIds <- TwoLists
SPECIFICATION Spec
INVARIANT WellLinked
PROPERTY ImplementsLists
SYMMETRY Symmetry
CHECK_DEADLOCK FALSE
