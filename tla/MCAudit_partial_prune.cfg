SPECIFICATION Spec
CONSTANTS
  Event = {e1, e2, e3, e4}
  Page = 3 Chunk = 1 WalkPage = 2 MaxFaults = 1
  Verifying = FALSE CutDeletes = TRUE
SYMMETRY EventSymmetry
INVARIANT WholeAtRest
