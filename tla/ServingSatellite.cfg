SPECIFICATION Spec
CONSTANTS
  numOfSats = 2
  userTerminalUpdateInterval = 5
  userTerminalSampleInterval = 2
  Positions <- ThreePlaces
INVARIANTS
  ContractKept
  ClosestSelected
  HighestThroughoutSelected
CHECK_DEADLOCK FALSE
