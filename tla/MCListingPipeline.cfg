SPECIFICATION Spec
CONSTANTS
  a = a
  b = b
  c = c
  d = d
  e = e
  f = f
  p1 = p1
  p2 = p2
  Pods = {p1, p2}
  Nobody = Nobody
  RetryLimit = 1
  MaxMessages = 4
  MaxFaults = 2
  Listings = {a, b, c, d, e, f}
  Features <- MCFeatures
  Prices = {1, 2}
  NoId = NoId
  MaxUpserts = 4
  Hours = 2
  MaxTime = 2
  Missing = Missing
  Refused = Refused
  Answers <- MCAnswers
  Pois <- MCPois
  Replies <- MCReplies
  Scope <- MCScope
  Window = 1
  Fallback = 1
  Seeded = {a}
  CycleRetries = 2
  MaxCycles = 1
  MaxErrors = 1
  NoScore = NoScore
  MaxCalls = 1
INVARIANTS
  MatchesShareCanonical
  PendingNeedsCause
  YearLostToScrape
  UndisturbedCycleExact
  LostDropNeedsFault
  TableAgreesWithTopic
SYMMETRY Symmetric
CHECK_DEADLOCK FALSE
