------------------------- MODULE PaymentsProperties -------------------------
(***************************************************************************)
(* What the store's reports, however they arrive, may do to purchases,     *)
(* access and balances.                                                    *)
(***************************************************************************)
EXTENDS Payments, Functions

Pcs == {"idle", "link", "scan", "owner", "orphan", "read", "commit", "back",
        "fulfil", "finish", "refuse"}

Handler ==
  [pc : Pcs, mode : {"none", "hook", "submit"}, own : Event \union {Nobody},
   job : Event \union {Nobody}, repairing : BOOLEAN, todo : SUBSET Event,
   subject : Subject \union {Nobody}, seen : Rows, row : Rows, kept : Rows]

\* Every variable keeps its shape, and a row is one the store reported.
TypeOK ==
  /\ link \in Subject \union {Nobody}
  /\ inbox \in [Event -> {"absent", "received", "orphan", "failed", "done"}]
  /\ owed \subseteq Event
  /\ purchase \in [Transaction -> Rows]
  /\ \A t \in Transaction : purchase[t] # NoRow => purchase[t].tx = t
  /\ active \subseteq Subject \X Key /\ manual \subseteq Subject \X Key
  /\ credited \subseteq Transaction /\ debited \subseteq Transaction
  /\ balance \in [Subject -> Nat]
  /\ worker \in [Worker -> Handler]
  /\ {repeats, submits, comps, spends, faults} \subseteq Nat

-----------------------------------------------------------------------------

\* writer.ts: the monotonic upsert under its guards implements "the newest report wins,
\* and the first one binds the holder", for any arrivals, repeats and losses.
Standing == INSTANCE NewestWins WITH Report <- Reports, standing <- purchase
Projects == Standing!Spec

\* deriveEntitlement: "the read model agrees with the purchases": access that support
\* does not hold is paid for by a purchase that grants it, and while support has written
\* nothing every such purchase gives its access.
Granted == {m \in Subject \X Key : \E t \in Transaction : Grants(purchase[t], m[1], m[2])}

EntitledByMoney ==
  /\ active \subseteq manual \union Granted
  /\ comps = 0 => Granted \subseteq active

\* webhookGuard.ts answers a finished event "duplicate" for ever: it is safe only if the
\* report has its effect.  The row is no older than the report, and the coins of a
\* charge never refunded are credited, wherever a handler died before.
FinishedIsFulfilled ==
  \A e \in Event : inbox[e] = "done" =>
    /\ purchase[e.tx] # NoRow /\ purchase[e.tx].at >= e.at
    /\ \/ e.tx \in credited \/ e.tx \in StateRow
       \/ \E d \in Event : d.tx = e.tx /\ d.status = "refunded"

\* The ledger's refs (applyGrants, clawbackGrants): what was credited is what holders
\* have, have spent, or was taken back; no purchase pays twice and no refund takes twice.
BooksBalance ==
  SumFunctionOnSet(balance, Subject) + spends + Cardinality(debited) = Cardinality(credited)

\* The store repeats what it has no answer to: every report comes to count, its row no
\* older than it and its coins credited unless refunded, or says why it never will:
\* no holder was known, or another holds the transaction.
Newest(t) == CHOOSE e \in Event : e.tx = t /\ \A d \in Event : d.tx = t => d.at <= e.at

Settled(t) ==
  /\ purchase[t] # NoRow /\ purchase[t].at = Newest(t).at
  /\ Newest(t).status = "refunded" \/ t \in StateRow \/ t \in credited

Converges == \A e \in Event : <>[](Settled(e.tx) \/ inbox[Newest(e.tx)] \in {"orphan", "failed"})

-----------------------------------------------------------------------------
(* What the code's own words say and the code does not do.                 *)

\* orphans.ts, routes.ts: "An account linking has to be able to find exactly the rows
\* that were waiting on it".  Under fairness no orphan outlasts its account's link.
OrphansRepaired == \A e \in Event : inbox[e] = "orphan" /\ link # Nobody ~> inbox[e] # "orphan"

\* writer.ts: "the read model cannot disagree with the purchases", the plan of a
\* transaction changing under a projection included.
PaidAccessOnly == active \subseteq manual \union Granted

\* clawback.ts: "taking back what a grants clause credited".
TakesBackOnlyCredit == debited \subseteq credited
=============================================================================
