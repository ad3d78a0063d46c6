SPECIFICATION FairSpec
CONSTANTS
  Creates = {c1}
  Polls = {p1, p2}
  TaskOf <- OneTask
  NoRequest = NoRequest
  c1 = c1
  Lifetimes = {1, 3}
  Timeout = 1
  Skew = 1
  MaxRevoked = 1
CHECK_DEADLOCK FALSE
INVARIANTS
  RejectionsHaveCause
  TokensAreShared
PROPERTIES
  WaitsEnd
