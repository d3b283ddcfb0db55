SPECIFICATION FairSpec
CONSTANTS
  w1 = w1 w2 = w2 w3 = w3 t1 = t1 t2 = t2 u1 = u1 u2 = u2 coins = coins plus = plus pro = pro
  Worker = {w1, w2} Transaction = {t1, t2} Subject = {u1} Sku = {plus} Key = {plus}
  Event <- StampedAndNot Keys <- OneKeyEach StateRow = {}
  Linked = Nobody Nobody = Nobody NoRow = NoRow
  MaxRepeats = 0 MaxSubmits = 0 MaxUpsets = 0
CHECK_DEADLOCK FALSE
PROPERTIES OrphansRepaired
