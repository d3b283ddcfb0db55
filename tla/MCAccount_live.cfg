SPECIFICATION FairSpec
CONSTANTS
  Caller = {c1} Contribution = 2 Retained = {2}
  Window = 1 DayLength = 2 MaxTime = 3
  MaxCalls = 1 MaxHolds = 1 MaxFaults = 1
CHECK_DEADLOCK FALSE
INVARIANTS RecordIsTrue
PROPERTIES ErasureFinishes
