SPECIFICATION FairSpec
CONSTANTS
  p1 = p1  p2 = p2  p3 = p3  r1 = r1  r2 = r2
  Problem = {p1, p2}
  Request = {r1, r2}
  MaxCalls = 3
  MaxFaults = 1
INVARIANTS TypeOK RowFollows
PROPERTIES CompletionIsEarned SolvedGetsListed
CHECK_DEADLOCK FALSE
