SPECIFICATION FairSpec
CONSTANTS
  p1 = p1
  p2 = p2
  Pods = {p1, p2}
  Nobody = Nobody
  None = None
  Junk = Junk
  Failure = Failure
  NoCache = NoCache
  RetryLimit = 2
  MaxMessages = 2
  MaxFaults = 2
  Contents <- MCContents
  MappingFiles <- MCMappingFiles
  OldRates <- MCOldRates
  NewRates <- MCNewRates
  BatchSizes = {1, 50}
INVARIANTS
  StrandedByRefusal
PROPERTIES
  ImplementsAtLeastOnce
  RegressNeedsStalePod
  EventuallySettled
CHECK_DEADLOCK FALSE
