SPECIFICATION Spec
CONSTANTS
  u1 = u1
  s1 = s1
  s2 = s2
  Users = {u1}
  Streams = {s1, s2}
  UserOf <- MCUserOf
  Conversations = {c1, c2, c3}
  Nothing = Nothing
  ConvLimit = 1
  TurnLimit = 2
  Criteria = {ready}
  Window = 2
  MaxDisturbances = 1
INVARIANTS
  OverrunBounded
  TornNeedsCause
SYMMETRY Symmetric
CHECK_DEADLOCK FALSE
