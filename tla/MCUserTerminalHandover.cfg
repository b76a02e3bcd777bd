SPECIFICATION Spec
CONSTANTS
  UserTerminals = {ut1, ut2}
  Satellites = {sat1, sat2}
  NoSatellite = NoSatellite
  UpdateInterval = 2
  SlotInterval = 5
  StartOffset = 1
  MaxDowntime = 3
  Downtimes = {1, 3}
SYMMETRY Symmetric
INVARIANTS
  TypeOK
  OracleTracksPending
  NoReconnectForgotten
  ServingSatelliteVisible
  EndpointTablesFollowLinks
PROPERTIES
  HealthyLinkKept
  PredictionHonoured
  DetachedTerminalsProbed
