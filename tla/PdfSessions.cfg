SPECIFICATION FairSpec
CONSTANTS
  r1 = r1  r2 = r2  r3 = r3
  NoRequest = NoRequest
  Session = {1, 2, 3, 4, 5}
  Request = {r1, r2}
  MaxCalls = 4
  MaxFaults = 1
INVARIANTS TypeOK UploadsExclude PlacesAgree VoiceAnsweredOnce
PROPERTY EveryRequestReturns
CHECK_DEADLOCK FALSE
