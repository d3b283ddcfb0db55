SPECIFICATION Spec
CONSTANTS
  w1 = w1 w2 = w2 w3 = w3 t1 = t1 t2 = t2 u1 = u1 u2 = u2 coins = coins plus = plus pro = pro
  Worker = {w1, w2} Transaction = {t1} Subject = {u1} Sku = {coins, plus, pro} Key = {coins, plus, pro}
  Event <- TwoPlanChanges Keys <- OneKeyEach StateRow = {t1}
  Linked = u1 Nobody = Nobody NoRow = NoRow
  MaxRepeats = 0 MaxSubmits = 0 MaxUpsets = 0
CHECK_DEADLOCK FALSE
INVARIANTS PaidAccessOnly
