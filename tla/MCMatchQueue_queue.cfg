SPECIFICATION FairSpec
CONSTANTS
  p1 = p1 p2 = p2 p3 = p3 p4 = p4 Unrated = Unrated Nobody = Nobody NoKey = NoKey
  Task = {t1, t2} Player = {p1, p2, p3} Skill <- RowSkill Region <- OneRegion
  Key = {k1} Need = 3 InitialBand = 1 WidenPerSecond = 0 MaxWait = 1 KeyLife = 1
  MaxEnqueues = 3 MaxFaults = 1
INVARIANTS NobodyMissing PairedFairly
PROPERTIES OutStaysOut PairsUp
