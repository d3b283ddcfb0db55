SPECIFICATION FairSpec
CONSTANTS
  Caller = {c1} Contribution = 1 Retained = {}
  Window = 1 DayLength = 2 MaxTime = 3
  MaxCalls = 1 MaxHolds = 0 MaxFaults = 1
CHECK_DEADLOCK FALSE

PROPERTIES PurgeFinishes
