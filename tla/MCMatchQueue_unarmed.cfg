SPECIFICATION Spec
CONSTANTS
  p1 = p1 p2 = p2 p3 = p3 p4 = p4 Unrated = Unrated Nobody = Nobody NoKey = NoKey
  Task = {t1} Player = {p1, p2} Skill <- FarSkill Region <- OneRegion
  Key = {} Need = 2 InitialBand = 1 WidenPerSecond = 0 MaxWait = 1 KeyLife = 1
  MaxEnqueues = 2 MaxFaults = 1
INVARIANTS AlarmArmed
