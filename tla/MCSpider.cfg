SPECIFICATION Spec
CONSTANTS
  p1 = p1
  p2 = p2
  h1 = h1
  h2 = h2
  north = north
  south = south
  Pods = {p1, p2}
  Nobody = Nobody
  Absent = Absent
  Homes = {h1, h2}
  Zones = {north, south}
  Info <- MCInfo
  PageSize = 1
  Commands <- MCCommands
  Portals <- MCPortals
  RetryLimit = 2
  MaxMessages = 2
  MaxFaults = 1
INVARIANTS
  SweepComplete
  DetectPublishesOnce
SYMMETRY Symmetric
CHECK_DEADLOCK FALSE
