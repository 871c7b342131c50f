SPECIFICATION FairSpec
CONSTANTS
  first = first
  second = second
  unroutable = unroutable
  malformed = malformed
  w1 = w1
  w2 = w2
  Events <- MCEvents
  Malformed = {malformed}
  Unroutable = {unroutable}
  Earlier <- MCEarlier
  Workers = {w1, w2}
  Pods <- MCPods
  WorkerPool = 2
  MaxRetries = 2
  Attempts = 2
  MaxFaults = 2
INVARIANTS
  SendsBounded
  SentIsTrue
  AckedAccounted
  StrandedNeedsFault
PROPERTIES
  RecordsFinal
  EventuallyAcked
CHECK_DEADLOCK FALSE
