SPECIFICATION Spec
CONSTANTS
  sat1 = sat1
  sat2 = sat2
  gs1 = gs1
  gs2 = gs2
  server = server
  air = air
  laser = laser
  wire = wire
  Satellites = {sat1, sat2}
  GroundStations = {gs1, gs2}
  Hosts = {server}
  NodeOrder <- Order
  InterfaceOrder <- Radio
  NodeOf <- RadioNodes
  LanOf <- RadioLans
  InterSatelliteLinks <- Pair
  Autoroutes <- SlowRadios
  Parameters <- Varied
  Infinity = 50
  Default = Default
  None = None
INVARIANTS
  TypeOK
  OneRoutePerDestination
  RoutesOnEnabledLinks
  PacketsReachDestinations
PROPERTIES
  TablesFollowSky
