SPECIFICATION Spec
CONSTANTS
  r1 = r1
  r2 = r2
  NoRef = NoRef
  User = {alice, bob}
  Currency = {chips}
  Ref <- WideRefs
  Amount = {1}
  Caller = {c1}
  Surface = {"inProcess", "controlPlane"}
  Erasable = {alice}
SYMMETRY PurgeSymmetry
INVARIANT ReversedOnce
PROPERTY AppendOnly
