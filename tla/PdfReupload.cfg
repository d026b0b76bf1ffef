SPECIFICATION FairSpec
CONSTANTS
  r1 = r1  r2 = r2  r3 = r3
  NoRequest = NoRequest
  Session = {1, 2}
  Request = {r1}
  MaxCalls = 2
  MaxFaults = 0
PROPERTY ReuploadRestores
CHECK_DEADLOCK FALSE
