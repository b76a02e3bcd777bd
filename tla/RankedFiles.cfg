SPECIFICATION ForwardingSpec
CONSTANTS
  sat1 = sat1
  sat2 = sat2
  sat3 = sat3
  gs1 = gs1
  ut1 = ut1
  server = server
  Satellites = {sat1, sat2}
  GroundStations = {gs1}
  UserTerminals = {}
  EndUsers = {}
  ConnectModule <- NoEndUsers
  InterSatelliteLinks <- Chain
  Free = Free
  AddressOrder <- InOrder2
  IslDelays = {1}
  GroundDelays = {1}
  numOfKPaths = 2
  LoadFiles = {TRUE}
INVARIANTS
  LoadReproducesSave
