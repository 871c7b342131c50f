SPECIFICATION FairSpec
CONSTANTS
  r1 = r1
  r2 = r2
  r3 = r3
  p1 = p1
  p2 = p2
  Readers = {r1, r2, r3}
  Processes = {p1, p2}
  Proc <- MCProc
  NoReader = NoReader
  MaxRetries = 2
  CancelOnError = TRUE
  MaxMessages = 2
  MaxFaults = 2
INVARIANTS
  TypeOK
  CommittedSettled
  EarlierSettled
PROPERTIES
  ImplementsAtLeastOnce
  EventuallySettled
CHECK_DEADLOCK FALSE
