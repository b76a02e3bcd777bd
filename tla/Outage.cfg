SPECIFICATION OutageSpec
CONSTANTS
  UserTerminals = {ut1, ut2}
  Satellites = {sat1}
  NoSatellite = NoSatellite
  UpdateInterval = 2
  SlotInterval = 6
  StartOffset = 1
  MaxDowntime = 3
  Downtimes = {1, 3}
INVARIANTS
  OutageBounded
  PostponedOnce
PROPERTIES
  Reconnects
