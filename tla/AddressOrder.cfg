SPECIFICATION ForwardingSpec
CONSTANTS
  sat1 = sat1
  sat2 = sat2
  sat3 = sat3
  gs1 = gs1
  ut1 = ut1
  server = server
  Satellites = {sat1, sat2, sat3}
  GroundStations = {}
  UserTerminals = {}
  EndUsers = {}
  ConnectModule <- NoEndUsers
  InterSatelliteLinks <- Plane
  Free = Free
  AddressOrder <- Reversed3
  IslDelays = {1, 3}
  GroundDelays = {1}
  numOfKPaths = 1
  LoadFiles = {FALSE}
INVARIANTS
  RoutesShortest
