SPECIFICATION Spec
CONSTANTS
  r1 = r1  r2 = r2  r3 = r3  u1 = u1  k1 = k1  PDF = PDF  HINT = HINT  None = None
  Request <- MCRequest
  User <- MCUser
  Feature <- MCFeature
  Key <- MCKey
  UserOf <- MCUserOf
  FeatureOf <- MCFeatureOf
  KeyOf <- NoKeys
  Cost <- MCCost
  Limit <- MCLimit
  LastMonth = 1
  Flags = {TRUE, FALSE}
  Faults = {"db"}
INVARIANTS WithinAllowance LedgerBalances
PROPERTIES ImplementsAccounts
