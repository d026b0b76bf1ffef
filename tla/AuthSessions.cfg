SPECIFICATION Spec
CONSTANTS
  r1 = r1  r2 = r2  i1 = i1  i2 = i2  d1 = d1  d2 = d2
  NoDevice = NoDevice  NoInstance = NoInstance
  Token = {1, 2, 3, 4}
  Code = {1, 2, 3, 4}
  Device = {d1, d2}
  Instance = {i1, i2}
  Request = {r1, r2}
  MaxCalls = 4
  MaxFaults = 2
SYMMETRY Symmetry
INVARIANTS TypeOK OneSessionPerDevice EndedMeansEnded UsedUpOnce
CHECK_DEADLOCK FALSE
