SPECIFICATION FairSpec
CONSTANTS
  r1 = r1  r2 = r2  r3 = r3  u1 = u1  k1 = k1  PDF = PDF  HINT = HINT  None = None
  Request <- MCRequest
  User <- MCUser
  Feature <- MCFeature
  Key <- MCKey
  UserOf <- MCUserOf
  FeatureOf <- MCFeatureOf
  KeyOf <- SharedKey
  Cost <- MCCost
  Limit <- MCLimit
  LastMonth = 0
  Flags = {TRUE}
  Faults = {"crash"}
INVARIANTS TypeOK SingleExecution ChargedIffServed
PROPERTIES CompletedIsFinal EveryCallEnds PendingIsFreed
