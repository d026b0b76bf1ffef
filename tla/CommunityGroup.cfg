SPECIFICATION FairSpec
CONSTANTS
  owner = owner  student = student  g1 = g1  g2 = g2  w1 = w1  w2 = w2
  User = {owner, student}
  Owner = owner
  Group = {g1, g2}
  Worker = {w1, w2}
  MaxCalls = 2
  MaxLost = 1
INVARIANTS TypeOK OwnerIsMember CountMatches
PROPERTIES CourseGetsGroup EnrolledBecomeMembers
CHECK_DEADLOCK FALSE
