SPECIFICATION ForwardingSpec
CONSTANTS
  sat1 = sat1
  sat2 = sat2
  sat3 = sat3
  gs1 = gs1
  ut1 = ut1
  server = server
  Satellites = {sat1, sat2}
  GroundStations = {gs1}
  UserTerminals = {ut1}
  EndUsers = {server}
  ConnectModule <- Wired
  InterSatelliteLinks <- Chain
  Free = Free
  AddressOrder <- InOrder2
  IslDelays = {2}
  GroundDelays = {1, 4}
  numOfKPaths = 1
  LoadFiles = {FALSE, TRUE}
ACTION_CONSTRAINT OneWholeFileInTwo
CONSTRAINT TerminalsAtFirstSatellite
INVARIANTS
  PacketsDelivered
  OnlyForDestination
  RoutesShortest
  LoadReproducesSave
