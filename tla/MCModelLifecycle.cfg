SPECIFICATION FairSpec
CONSTANTS
  es = es
  pt = pt
  j1 = j1
  j2 = j2
  Pods = {p1}
  MaxFaults = 2
  Countries = {es, pt}
  Base = es
  Size <- MCSize
  Jobs = {j1, j2}
  Everything = Everything
  Arguments <- MCArguments
  Nothing = Nothing
  TransferMax = 15
  Trainings <- MCTrainings
  Rules <- MCRules
  MaxTags = 2
  Indexed = {es, pt}
  MaxStarts = 3
INVARIANTS
  OneActiveVersion
  MixedNeedsCollision
  RefusalNeedsSwap
PROPERTIES
  LoopsConverge
CHECK_DEADLOCK FALSE
