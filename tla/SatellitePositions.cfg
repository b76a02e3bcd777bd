SPECIFICATION Spec
CONSTANTS
  numOfSats = 3
  InterSatelliteLinks <- Ring
  GroundStations = {gs1}
  UserTerminals = {ut1}
  UpdateInterval = 3
  StartOffset = 1
  MaxDowntime = 4
  Horizon = 2
INVARIANTS
  DelaysOfOneInstant
  DelaysRecent
  RoutesUseCurrentDelays
