SPECIFICATION Spec
CONSTANTS
  p1 = p1 p2 = p2 p3 = p3 b0 = b0 b1 = b1 w0 = w0 w1 = w1 d1 = d1 d2 = d2 d3 = d3
  Chip = chip Currency = {chip} NoRef = NoRef NoKey = NoKey
  BetRef <- BetRefs WinRef <- WinRefs
  Task = {t1} User = {p1, p2} Player = {p1, p2} Deposit <- TwoDeposits
  Ref = {b0, b1, w0, w1, d1, d2} Amount = {1} Bankroll = 2
  BetData = {"pass", "dont"} Outcome <- CrapsRolls
  OperatorKey = {k1} Mode = "table" Seats = 2 Timed = FALSE Erasable = {p2}
  MaxBets = 2 MaxRolls = 0 MaxFaults = 0
INVARIANTS NothingHeldAtEnd EndsWhenTold
