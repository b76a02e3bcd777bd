SPECIFICATION Spec
CONSTANTS
  UserTerminals = {ut1}
  Satellites = {sat1, sat2}
  NoSatellite = NoSatellite
  UpdateInterval = 3
  SlotInterval = 2
  StartOffset = 1
  MaxDowntime = 4
  Downtimes = {1, 4}
INVARIANTS
  TypeOK
PROPERTIES
  HandoverIsHard
