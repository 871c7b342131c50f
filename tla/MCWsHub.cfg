SPECIFICATION FairSpec
CONSTANTS
  c1 = c1
  c2 = c2
  alice = alice
  Conns = {c1, c2}
  Users = {alice}
  User <- MCUser
  MaxConns = 1
  QueueSize = 1
  MaxEvents = 1
INVARIANTS
  CapacityRespected
  NobodyLeftRunning
PROPERTIES
  PumpsEndTogether
CHECK_DEADLOCK FALSE
