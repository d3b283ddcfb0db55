SPECIFICATION Spec
CONSTANTS
  Event = {e1, e2, e3}
  Page = 2 Chunk = 1 WalkPage = 2 MaxFaults = 1
  Verifying = TRUE CutDeletes = FALSE
SYMMETRY EventSymmetry
INVARIANTS OneHistory Vouched WholeAtRest AlarmsOnlyUnderPrunes
