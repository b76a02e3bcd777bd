SPECIFICATION SetupSpec
CONSTANTS
  Shapes <- SmallShapes
  Networks <- SmallNetworks
INVARIANTS
  NumbersAgree
  TypesAgree
  EdgesHaveChannels
  LinkedAreNeighbours
  NeighboursLinked
  GridConnected
CHECK_DEADLOCK FALSE
