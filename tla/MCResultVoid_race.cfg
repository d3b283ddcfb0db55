SPECIFICATION VoidSpec
CONSTANTS
  VoidRequest = {q1, q2}
  Result = {r1, r2}
  Key = {k1, k2, k3}
  NoKey = NoKey
  Consumers <- TwoConsumers
  Lease = 2
  MaxClock = 2
SYMMETRY Symmetry
INVARIANTS NeverTwiceAtOnce OneActPerKey
PROPERTY DoneStays
