------------------------------ MODULE Payments ------------------------------
(***************************************************************************)
(* How a store's reports become purchases, entitlements and ledger         *)
(* credits.  A report arrives by webhook (recorded, then projected) or     *)
(* with the buyer's own submission; it may be late, repeated, or out of    *)
(* order, and a worker may die anywhere.  Each worker is a handler in      *)
(* flight: http/routes.ts around projection/writer.ts, owner.ts,           *)
(* orphans.ts and grants/.  One rail and one store account: the link from  *)
(* that account to a holder is what an unowned report waits for.           *)
(***************************************************************************)
EXTENDS Integers, FiniteSets

CONSTANTS
  Worker,         \* handlers in flight at once
  Event,          \* the store's reports
  Transaction, Subject, Sku, Key,
  Keys,           \* the keys the product behind each SKU grants
  StateRow,       \* transactions that are a subscription's standing and no charge
  Linked,         \* the holder the store account is linked to at first, or Nobody
  Nobody, NoRow,
  MaxRepeats,     \* bound: deliveries of events already answered
  MaxSubmits,     \* bound: receipts submitted
  MaxUpsets       \* bound: workers lost, support's writes and holders' spends, together

Statuses == {"active", "expired", "refunded"}

\* "stamp" is the holder a checkout's report echoes back, or Nobody.
ASSUME PaymentsConstants ==
  /\ Event \subseteq [tx : Transaction, at : Nat, status : Statuses, sku : Sku,
                      stamp : Subject \union {Nobody}]
  /\ \A d, e \in Event : d.tx = e.tx /\ d.at = e.at => d = e
  /\ Keys \in [Sku -> SUBSET Key] /\ StateRow \subseteq Transaction
  /\ Nobody \notin Subject /\ Linked \in Subject \union {Nobody}
  /\ NoRow \notin [tx : Transaction, holder : Subject, at : Nat, status : Statuses, sku : Sku]
  /\ {MaxRepeats, MaxSubmits, MaxUpsets} \subseteq Nat

VARIABLES
  link,       \* the store account's holder
  inbox,      \* the recorded webhook events
  owed,       \* events the store has had no 2xx for
  purchase,   \* the purchase rows
  active,     \* the entitlement rows that grant
  manual,     \* those support holds
  credited,   \* transactions whose grant the ledger has
  debited,    \* transactions whose clawback it has
  balance,    \* what each holder has
  worker,     \* the handlers
  repeats, submits, comps, spends, faults

books == <<credited, debited, balance>>
counts == <<repeats, submits, comps, spends, faults>>
rows == <<purchase, active, manual>>
vars == <<link, inbox, owed, rows, books, worker, counts>>

Row(e, s) == [tx |-> e.tx, holder |-> s, at |-> e.at, status |-> e.status, sku |-> e.sku]
Reports == {Row(e, s) : e \in Event, s \in Subject}
Rows == Reports \union {NoRow}

Paid_Granting(row) == row.status = "active" /\ row.tx \notin StateRow
Paid(row) == row.status # "refunded" /\ row.tx \notin StateRow

Reversed(row) == row.status = "refunded" /\ row.tx \notin StateRow
Grants(row, s, k) ==
  row # NoRow /\ row.holder = s /\ row.status = "active" /\ k \in Keys[row.sku]

Idle == [pc |-> "idle", mode |-> "none", own |-> Nobody, job |-> Nobody, repairing |-> FALSE,
         todo |-> {}, subject |-> Nobody, seen |-> NoRow, row |-> NoRow, kept |-> NoRow]

Init ==
  /\ link = Linked
  /\ inbox = [e \in Event |-> "absent"]
  /\ owed = Event
  /\ purchase = [t \in Transaction |-> NoRow]
  /\ active = {}
  /\ manual = {}
  /\ credited = {}
  /\ debited = {}
  /\ balance = [s \in Subject |-> 0]
  /\ worker = [w \in Worker |-> Idle]
  /\ repeats = 0 /\ submits = 0 /\ comps = 0 /\ spends = 0 /\ faults = 0

-----------------------------------------------------------------------------

Pc(w) == worker[w].pc
Goes(w, next) == worker' = [worker EXCEPT ![w] = next]
GoesTo(w, nexts) == \E next \in nexts : Goes(w, next)
Steps(w, pc) == Goes(w, [worker[w] EXCEPT !.pc = pc])

Finished_Seen(e) == inbox[e] # "absent"
Finished(e) == inbox[e] = "done"

\* The guard: the event is recorded before anything else, and a finished one is answered at once.
Deliver(w, e) ==
  /\ Pc(w) = "idle"
  /\ e \in owed \/ repeats < MaxRepeats
  /\ repeats' = IF e \in owed THEN repeats ELSE repeats + 1
  /\ IF Finished(e)
     THEN owed' = owed \ {e} /\ UNCHANGED <<inbox, worker>>
     ELSE /\ inbox' = [inbox EXCEPT ![e] = IF @ = "absent" THEN "received" ELSE @]
          /\ Goes(w, [Idle EXCEPT !.pc = IF e.stamp = Nobody THEN "owner" ELSE "link",
                                  !.mode = "hook", !.own = e, !.job = e])
          /\ UNCHANGED owed
  /\ UNCHANGED <<link, rows, books, submits, comps, spends, faults>>

\* The buyer's own submission: the store is asked, and says what the event says.
Submit(w, e, s) ==
  /\ Pc(w) = "idle" /\ submits < MaxSubmits
  /\ e.stamp \in {Nobody, s}
  /\ submits' = submits + 1
  /\ Goes(w, [Idle EXCEPT !.pc = "read", !.mode = "submit", !.own = e, !.job = e, !.subject = s])
  /\ UNCHANGED <<link, inbox, owed, rows, books, repeats, comps, spends, faults>>

Claimant(w) == IF worker[w].mode = "hook" THEN worker[w].own.stamp ELSE worker[w].subject

\* The first pairing of a store account wins; then the orphans it may have been waited for by.
LinkAccount(w) ==
  /\ Pc(w) = "link"
  /\ link' = IF link = Nobody THEN Claimant(w) ELSE link
  /\ Steps(w, "scan")
  /\ UNCHANGED <<inbox, owed, rows, books, counts>>

\* The next orphan of the page, whichever was received first, or on with what the worker came for.
Onward(k, todo) ==
  IF todo # {}
  THEN {[k EXCEPT !.pc = "owner", !.job = e, !.repairing = TRUE, !.todo = todo \ {e}] : e \in todo}
  ELSE {[k EXCEPT !.pc = IF k.mode = "hook" THEN "owner" ELSE "fulfil", !.job = k.own,
                  !.repairing = FALSE, !.todo = {}, !.row = k.kept, !.kept = NoRow]}

RepairScan(w) ==
  /\ Pc(w) = "scan"
  /\ GoesTo(w, Onward(worker[w], {e \in Event : inbox[e] = "orphan"}))
  /\ UNCHANGED <<link, inbox, owed, rows, books, counts>>

\* resolveNotificationOwner: the transaction's own row, then the store account's link. Between the two
\* the code asks for the row of the subscription's first transaction, which here is the same row.
Owner(t) == IF purchase[t] # NoRow THEN purchase[t].holder ELSE link

ResolveOwner(w) ==
  LET k == worker[w]
      s == Owner(k.job.tx)
  IN /\ Pc(w) = "owner"
     /\ GoesTo(w, IF s # Nobody THEN {[k EXCEPT !.pc = "read", !.subject = s]}
                  ELSE IF k.repairing THEN Onward(k, k.todo)
                  ELSE {[k EXCEPT !.pc = "orphan"]})
     /\ UNCHANGED <<link, inbox, owed, rows, books, counts>>

\* Acknowledged with the marker a later link looks for, whatever the row says by now.
MarkOrphan(w) ==
  /\ Pc(w) = "orphan"
  /\ inbox' = [inbox EXCEPT ![worker[w].own] = "orphan"]
  /\ owed' = owed \ {worker[w].own}
  /\ Goes(w, Idle)
  /\ UNCHANGED <<link, rows, books, counts>>

\* After the refusal that another holder owns the transaction.
Refused(k) == IF k.repairing THEN Onward(k, k.todo)
              ELSE IF k.mode = "hook" THEN {[k EXCEPT !.pc = "refuse"]} ELSE {Idle}

\* A submission links the account once its purchase is projected, and only then fulfills.
Projected(k, row) ==
  IF k.mode = "submit" /\ ~k.repairing
  THEN {[k EXCEPT !.pc = "link", !.kept = row, !.seen = NoRow]}
  ELSE {[k EXCEPT !.pc = "fulfil", !.row = row, !.seen = NoRow]}

PreRead(w) ==
  LET k == worker[w]
      row == purchase[k.job.tx]
  IN /\ Pc(w) = "read"
     /\ GoesTo(w, IF row # NoRow /\ row.holder # k.subject THEN Refused(k)
                  ELSE IF row # NoRow /\ row.at >= k.job.at
                  THEN Projected(k, row)
                  ELSE {[k EXCEPT !.pc = "commit", !.seen = row]})
     /\ UNCHANGED <<link, inbox, owed, rows, books, counts>>

Upsert_AnyHolder(row) ==
  LET stood == purchase[row.tx] IN
  IF stood = NoRow \/ stood.at < row.at
  THEN [purchase EXCEPT ![row.tx] = row] ELSE purchase

\* Both guards of the statement, against the row as it stands at the commit.
Upsert(row) ==
  LET stood == purchase[row.tx] IN
  IF stood = NoRow \/ (stood.holder = row.holder /\ stood.at < row.at)
  THEN [purchase EXCEPT ![row.tx] = row] ELSE purchase

\* The keys the event's product grants, and those of the product the pre-read saw.
Affected(k) ==
  Keys[k.job.sku] \union (IF k.seen = NoRow THEN {} ELSE Keys[k.seen.sku])

Derived_AsRead(s, keys, table) ==
  LET mine == {<<s, k>> : k \in keys} \ manual
  IN (active \ mine) \union {m \in mine : \E t \in Transaction : Grants(purchase[t], s, m[2])}

\* Each key derived from the purchases as this batch leaves them, unless support holds it.
Derived(s, keys, table) ==
  LET mine == {<<s, k>> : k \in keys} \ manual
  IN (active \ mine) \union {m \in mine : \E t \in Transaction : Grants(table[t], s, m[2])}

Commit(w) ==
  LET k == worker[w]
      table == Upsert(Row(k.job, k.subject))
  IN /\ Pc(w) = "commit"
     /\ purchase' = table
     /\ active' = Derived(k.subject, Affected(k), table)
     /\ Steps(w, "back")
     /\ UNCHANGED <<link, inbox, owed, manual, books, counts>>

ReadBack(w) ==
  LET k == worker[w]
      row == purchase[k.job.tx]
  IN /\ Pc(w) = "back"
     /\ GoesTo(w, IF row.holder # k.subject THEN Refused(k)
                  ELSE Projected(k, row))
     /\ UNCHANGED <<link, inbox, owed, rows, books, counts>>

Credits_Again(row) == Paid(row)
Credits(row) == Paid(row) /\ row.tx \notin credited

Debits_Overdrawn(row) == Reversed(row) /\ row.tx \notin debited
Debits(row) == Reversed(row) /\ row.tx \notin debited /\ balance[row.holder] > 0

\* The credit of a charge that stands, the debit of one that came back; each once
\* per transaction by the ledger's own refs, and a debit the balance cannot cover is refused.
Fulfil(w) ==
  LET k == worker[w]
      moved == IF Credits(k.row) THEN 1 ELSE IF Debits(k.row) THEN -1 ELSE 0
  IN /\ Pc(w) = "fulfil"
     /\ credited' = IF Credits(k.row) THEN credited \union {k.row.tx} ELSE credited
     /\ debited' = IF Debits(k.row) THEN debited \union {k.row.tx} ELSE debited
     /\ balance' = [balance EXCEPT ![k.row.holder] = @ + moved]
     /\ Goes(w, IF k.mode = "submit" /\ ~k.repairing THEN Idle ELSE [k EXCEPT !.pc = "finish"])
     /\ UNCHANGED <<link, inbox, owed, rows, counts>>

Finish(w) ==
  LET k == worker[w] IN
  /\ Pc(w) = "finish"
  /\ inbox' = [inbox EXCEPT ![k.job] = "done"]
  /\ owed' = IF k.repairing THEN owed ELSE owed \ {k.job}
  /\ GoesTo(w, IF k.repairing THEN Onward(k, k.todo) ELSE {Idle})
  /\ UNCHANGED <<link, rows, books, counts>>

Refuse(w) ==
  /\ Pc(w) = "refuse"
  /\ inbox' = [inbox EXCEPT ![worker[w].own] = "failed"]
  /\ owed' = owed \ {worker[w].own}
  /\ Goes(w, Idle)
  /\ UNCHANGED <<link, rows, books, counts>>

\* A worker dies; the store, unanswered, delivers again.
Lose(w) ==
  /\ Pc(w) # "idle" /\ comps + spends + faults < MaxUpsets
  /\ faults' = faults + 1
  /\ Goes(w, Idle)
  /\ UNCHANGED <<link, inbox, owed, rows, books, repeats, submits, comps, spends>>

\* Support grants a key and holds it, or revokes it and lets go.
Comp(s, k, grants) ==
  /\ comps + spends + faults < MaxUpsets
  /\ comps' = comps + 1
  /\ active' = IF grants THEN active \union {<<s, k>>} ELSE active \ {<<s, k>>}
  /\ manual' = IF grants THEN manual \union {<<s, k>>} ELSE manual \ {<<s, k>>}
  /\ UNCHANGED <<link, inbox, owed, purchase, books, worker, repeats, submits, spends, faults>>

Spend(s) ==
  /\ balance[s] > 0 /\ comps + spends + faults < MaxUpsets
  /\ balance' = [balance EXCEPT ![s] = @ - 1]
  /\ spends' = spends + 1
  /\ UNCHANGED <<link, inbox, owed, rows, credited, debited, worker, repeats, submits, comps, faults>>

Works(w) ==
  \/ LinkAccount(w) \/ RepairScan(w) \/ ResolveOwner(w) \/ MarkOrphan(w)
  \/ PreRead(w) \/ Commit(w) \/ ReadBack(w)
  \/ Fulfil(w) \/ Finish(w) \/ Refuse(w)

Next ==
  \/ \E w \in Worker : Works(w) \/ Lose(w)
  \/ \E w \in Worker, e \in Event : Deliver(w, e)
  \/ \E w \in Worker, e \in Event, s \in Subject : Submit(w, e, s)
  \/ \E s \in Subject, k \in Key, grants \in BOOLEAN : Comp(s, k, grants)
  \/ \E s \in Subject : Spend(s)

Spec == Init /\ [][Next]_vars

\* A handler is run to its end, and the store repeats what it has had no answer to.
FairSpec ==
  /\ Spec
  /\ \A w \in Worker : WF_vars(Works(w))
  /\ \A e \in Event : WF_vars(e \in owed /\ \E w \in Worker : Deliver(w, e))
=============================================================================
