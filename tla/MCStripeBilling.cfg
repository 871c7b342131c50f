SPECIFICATION FairSpec
CONSTANTS
  p1 = p1
  p2 = p2
  h1 = h1
  h2 = h2
  Pods = {p1, p2}
  PodOf <- MCPodOf
  Handlers = {h1, h2}
  MaxChanges = 2
  MaxFaults = 1
INVARIANTS
  OneProcessorPerEvent
  LostWasCutOff
PROPERTIES
  DowngradeHasCause
  EventuallyAnswered
CHECK_DEADLOCK FALSE
