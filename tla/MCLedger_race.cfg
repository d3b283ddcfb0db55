SPECIFICATION Spec
CONSTANTS
  r1 = r1
  r2 = r2
  NoRef = NoRef
  User = {alice}
  Currency = {chips}
  Ref <- RaceRefs
  Amount = {1}
  Caller = {c1, c2}
  Surface = {"inProcess", "controlPlane"}
  Erasable = {}
SYMMETRY RaceSymmetry
INVARIANT Explained
INVARIANT SettledOnce
INVARIANT SettlementsFunded
INVARIANT HonestReplay
INVARIANT AuditedOnce
