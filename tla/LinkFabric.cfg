SPECIFICATION Spec
CONSTANTS
  sat1 = sat1
  sat2 = sat2
  gs1 = gs1
  gs2 = gs2
  ut1 = ut1
  ut2 = ut2
  server = server
  Satellites = {sat1, sat2}
  GroundStations = {gs1}
  UserTerminals = {ut1}
  EndUsers = {server}
  ConnectModule <- Wired
  InterSatelliteLinks <- Ring
  Free = Free
INVARIANTS
  TypeOK
  InterfacesFollowGates
  NextHopMatrixCurrent
  EndpointTablesCurrent
  GatesReused
PROPERTIES
  SurvivingLinksUndisturbed
