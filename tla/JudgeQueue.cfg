SPECIFICATION FairSpec
CONSTANTS
  i1 = i1  i2 = i2  s1 = s1  s2 = s2
  Job = {1, 2}
  Instance = {i1, i2}
  Slot = {s1}
  MaxRetries = 1
  MaxFaults = 1
  MaxStarts = 1
INVARIANTS TypeOK OneExecution RecordsAgree AcceptedCounts
PROPERTIES JobsSettle KeepsPromise
CHECK_DEADLOCK FALSE
