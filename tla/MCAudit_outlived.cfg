SPECIFICATION FairSpec
CONSTANTS
  Event = {e1, e2, e3}
  Page = 2 Chunk = 1 WalkPage = 1 MaxFaults = 1
  Verifying = FALSE CutDeletes = FALSE
PROPERTIES Outlived
