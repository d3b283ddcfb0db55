---- MODULE MCPayments ----
EXTENDS PaymentsProperties, TLC
CONSTANTS w1, w2, w3, t1, t2, u1, u2, coins, plus, pro

Report(t, at, status, sku, stamp) ==
  [tx |-> t, at |-> at, status |-> status, sku |-> sku, stamp |-> stamp]

OneKeyEach == [s \in Sku |-> {s}]
Workers == Permutations(Worker)

\* A charge bought through a checkout that stamps it, its refund, and a period that was
\* paid for and has passed, which nothing stamps.
RefundAndCharge ==
  {Report(t1, 1, "active", plus, u1), Report(t1, 2, "refunded", plus, Nobody),
   Report(t2, 1, "expired", plus, Nobody)}

\* A subscription bought through a checkout that stamps it, and its renewal, which nothing stamps.
StampedAndNot ==
  {Report(t1, 1, "active", plus, u1), Report(t2, 2, "active", plus, Nobody)}

\* A subscription whose plan changes twice.
TwoPlanChanges ==
  {Report(t1, 1, "active", coins, Nobody), Report(t1, 2, "active", plus, Nobody),
   Report(t1, 3, "active", pro, Nobody)}
====
