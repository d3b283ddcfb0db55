SPECIFICATION Spec
CONSTANTS
  Caller = {c1, c2} Contribution = 1 Retained = {}
  Window = 1 DayLength = 2 MaxTime = 3
  MaxCalls = 2 MaxHolds = 1 MaxFaults = 0
SYMMETRY Requests
CHECK_DEADLOCK FALSE
INVARIANTS NeverHalfErased HoldStops HistoryExplains OncePerTransition
