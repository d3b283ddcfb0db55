----------------------------- MODULE PaymentsProofs -----------------------------
(***************************************************************************)
(* Theorems about the projection for any reports, stores of them, holders  *)
(* and number of handlers, wherever handlers die.                          *)
(*                                                                         *)
(* A purchase row is written by one statement, and that statement only     *)
(* makes it newer under the same holder (Grows).  So what a handler read   *)
(* before an await still bounds the row after it: HandlerKeeps says, at    *)
(* each point a handler may be suspended, which reports it knows to have   *)
(* landed, and it survives what every other handler does.                  *)
(***************************************************************************)
EXTENDS PaymentsProperties, Induction

\* A row that is no older than a report, and then the standing row is none either.
Landed(row, e) == row # NoRow /\ row.tx = e.tx /\ row.at >= e.at
Stands(row, e) == Landed(row, e) /\ Landed(purchase[e.tx], e)

Counted(e) ==
  e.tx \in credited \/ e.tx \in StateRow \/ \E d \in Event : d.tx = e.tx /\ d.status = "refunded"

HandlerKeeps(k) ==
  /\ k.pc # "idle" => k.mode \in {"hook", "submit"} /\ k.own \in Event /\ k.job \in Event
  /\ k.pc \in {"read", "commit", "back"} => k.subject \in Subject
  /\ k.pc = "link" => IF k.mode = "hook" THEN k.own.stamp # Nobody ELSE k.subject \in Subject
  /\ k.pc \in {"link", "scan", "orphan", "refuse"} => ~k.repairing
  /\ k.pc # "idle" /\ ~k.repairing => k.job = k.own
  /\ k.pc # "idle" /\ k.mode = "submit" /\ (k.pc \in {"link", "scan"} \/ k.repairing) => Stands(k.kept, k.own)
  /\ k.pc = "back" => /\ purchase[k.job.tx] # NoRow
                      /\ purchase[k.job.tx].holder = k.subject => Landed(purchase[k.job.tx], k.job)
  /\ k.pc = "fulfil" => Stands(k.row, k.job)
  /\ k.pc = "finish" => Landed(purchase[k.job.tx], k.job) /\ Counted(k.job)

AllKeep == \A w \in Worker : HandlerKeeps(worker[w])

\* A purchase gets newer, keeps its holder, and a credit is never forgotten.
Grows ==
  /\ purchase' \in [Transaction -> Rows] /\ credited \subseteq credited'
  /\ \A t \in Transaction : purchase[t] # NoRow =>
       /\ purchase'[t] # NoRow /\ purchase'[t].tx = purchase[t].tx
       /\ purchase'[t].holder = purchase[t].holder /\ purchase'[t].at >= purchase[t].at

-----------------------------------------------------------------------------

LEMMA EventIs ==
  ASSUME NEW e \in Event
  PROVE  /\ e.tx \in Transaction /\ e.at \in Nat /\ e.status \in Statuses /\ e.sku \in Sku
         /\ e.stamp \in Subject \union {Nobody}
  BY PaymentsConstants

LEMMA ReportIs ==
  ASSUME NEW row \in Rows, row # NoRow
  PROVE  /\ row.tx \in Transaction /\ row.at \in Nat /\ row.holder \in Subject
         /\ \E e \in Event : row.tx = e.tx /\ row.status = e.status /\ row.at = e.at /\ row.sku = e.sku
<1>1. PICK e \in Event, s \in Subject : row = Row(e, s)
  BY DEF Rows, Reports
<1>2. row.tx = e.tx /\ row.at = e.at /\ row.status = e.status /\ row.sku = e.sku /\ row.holder = s
  BY <1>1 DEF Row
<1>3. QED
  BY <1>2, EventIs

LEMMA IdleKeeps == Idle \in Handler /\ HandlerKeeps(Idle)
<1>1. Idle.pc = "idle" /\ Idle.mode = "none" /\ Idle.repairing = FALSE
  BY DEF Idle
<1>2. HandlerKeeps(Idle)
  BY <1>1 DEF HandlerKeeps
<1>3. Idle \in Handler
  BY DEF Idle, Handler, Pcs, Rows
<1>4. QED
  BY <1>2, <1>3

\* What a handler knows, the others leave true.
LEMMA OthersKeep ==
  ASSUME TypeOK, Grows, NEW k \in Handler, HandlerKeeps(k)
  PROVE  HandlerKeeps(k)'
<1>1. ASSUME NEW e \in Event, Landed(purchase[e.tx], e)
      PROVE  Landed(purchase[e.tx], e)'
  <2>1. e.tx \in Transaction /\ e.at \in Nat
    BY EventIs
  <2>2. purchase[e.tx] \in Rows /\ purchase[e.tx] # NoRow
    BY <1>1, <2>1 DEF TypeOK, Landed
  <2>3. purchase[e.tx].at \in Nat
    BY <2>2, ReportIs
  <2>4. /\ purchase'[e.tx] # NoRow /\ purchase'[e.tx].tx = purchase[e.tx].tx
        /\ purchase'[e.tx].at >= purchase[e.tx].at
    BY <2>1, <2>2 DEF Grows
  <2>5. purchase'[e.tx].at \in Nat
    BY <2>1, <2>4, ReportIs DEF Grows
  <2>6. QED
    BY <1>1, <2>1, <2>3, <2>4, <2>5 DEF Landed
<1>2. ASSUME NEW e \in Event, Counted(e)
      PROVE  Counted(e)'
  BY <1>2 DEF Counted, Grows
<1>3. ASSUME NEW row, NEW e \in Event, Stands(row, e)
      PROVE  Stands(row, e)'
  BY <1>1, <1>3 DEF Stands, Landed
<1>4. CASE k.pc = "idle"
  <2>1. k.pc \notin {"read", "commit", "back", "link", "scan", "orphan", "refuse", "fulfil", "finish"}
    BY <1>4
  <2>2. QED
    BY <1>4, <2>1 DEF HandlerKeeps
<1>5. CASE k.pc # "idle"
  <2>1. k.own \in Event /\ k.job \in Event /\ k.job.tx \in Transaction
    BY <1>5, EventIs DEF HandlerKeeps
  <2>2. k.mode = "submit" /\ (k.pc \in {"link", "scan"} \/ k.repairing) => Stands(k.kept, k.own)'
    BY <1>3, <1>5, <2>1 DEF HandlerKeeps
  <2>3. k.pc = "back" => /\ purchase'[k.job.tx] # NoRow
                         /\ purchase'[k.job.tx].holder = k.subject => Landed(purchase[k.job.tx], k.job)'
    BY <1>1, <2>1 DEF HandlerKeeps, Grows
  <2>4. k.pc = "fulfil" => Stands(k.row, k.job)'
    BY <1>3, <2>1 DEF HandlerKeeps
  <2>5. k.pc = "finish" => Landed(purchase[k.job.tx], k.job)' /\ Counted(k.job)'
    BY <1>1, <1>2, <2>1 DEF HandlerKeeps
  <2>6. QED
    BY <2>2, <2>3, <2>4, <2>5 DEF HandlerKeeps
<1>6. QED
  BY <1>4, <1>5

\* Where a handler goes from the page of orphans, from a refusal and from a projection.
LEMMA OnwardKeeps ==
  ASSUME NEW k \in Handler, HandlerKeeps(k), k.pc # "idle", k.pc = "scan" \/ k.repairing,
         NEW todo \in SUBSET Event, NEW n \in Onward(k, todo)
  PROVE  n \in Handler /\ HandlerKeeps(n)
<1>1. /\ k.mode \in {"hook", "submit"} /\ k.own \in Event
      /\ k.mode = "submit" => Stands(k.kept, k.own)
  BY DEF HandlerKeeps
<1>2. CASE todo # {}
  <2>1. PICK e \in todo : n = [k EXCEPT !.pc = "owner", !.job = e, !.repairing = TRUE, !.todo = todo \ {e}]
    BY <1>2 DEF Onward
  <2>2. n \in Handler
    BY <2>1 DEF Handler, Pcs
  <2>3. n.pc = "owner" /\ n.job = e /\ n.repairing /\ n.mode = k.mode /\ n.own = k.own /\ n.kept = k.kept
    BY <2>1 DEF Handler
  <2>4. QED
    BY <1>1, <2>2, <2>3 DEF HandlerKeeps
<1>3. CASE todo = {} /\ k.mode = "hook"
  <2>1. n = [k EXCEPT !.pc = "owner", !.job = k.own, !.repairing = FALSE, !.todo = {}, !.row = k.kept, !.kept = NoRow]
    BY <1>3 DEF Onward
  <2>2. n \in Handler
    BY <1>1, <2>1 DEF Handler, Pcs, Rows
  <2>3. n.pc = "owner" /\ n.job = n.own /\ n.own = k.own /\ ~n.repairing /\ n.mode = "hook"
    BY <1>3, <2>1 DEF Handler
  <2>4. QED
    BY <1>1, <2>2, <2>3 DEF HandlerKeeps
<1>4. CASE todo = {} /\ k.mode = "submit"
  <2>1. n = [k EXCEPT !.pc = "fulfil", !.job = k.own, !.repairing = FALSE, !.todo = {}, !.row = k.kept, !.kept = NoRow]
    BY <1>4 DEF Onward
  <2>2. n \in Handler
    BY <1>1, <2>1 DEF Handler, Pcs, Rows
  <2>3. /\ n.pc = "fulfil" /\ n.job = n.own /\ n.own = k.own /\ ~n.repairing /\ n.mode = "submit"
        /\ n.row = k.kept
    BY <1>4, <2>1 DEF Handler
  <2>4. QED
    BY <1>1, <1>4, <2>2, <2>3 DEF HandlerKeeps
<1>5. QED
  BY <1>1, <1>2, <1>3, <1>4

LEMMA RefusedKeeps ==
  ASSUME NEW k \in Handler, HandlerKeeps(k), k.pc \in {"read", "back"}, NEW n \in Refused(k)
  PROVE  n \in Handler /\ HandlerKeeps(n)
<1>1. k.pc # "idle" /\ k.mode \in {"hook", "submit"} /\ k.own \in Event /\ k.todo \in SUBSET Event
  BY DEF HandlerKeeps, Handler
<1>2. CASE k.repairing
  <2>1. n \in Onward(k, k.todo)
    BY <1>2 DEF Refused
  <2>2. QED
    BY <1>1, <1>2, <2>1, OnwardKeeps
<1>3. CASE ~k.repairing /\ k.mode = "hook"
  <2>1. n = [k EXCEPT !.pc = "refuse"]
    BY <1>3 DEF Refused
  <2>2. n \in Handler
    BY <2>1 DEF Handler, Pcs
  <2>3. n.pc = "refuse" /\ n.job = k.job /\ n.own = k.own /\ ~n.repairing /\ n.mode = "hook"
    BY <1>3, <2>1 DEF Handler
  <2>4. n.job = n.own
    BY <1>1, <1>3, <2>3 DEF HandlerKeeps
  <2>5. QED
    BY <1>1, <2>2, <2>3, <2>4 DEF HandlerKeeps
<1>4. CASE ~k.repairing /\ k.mode # "hook"
  BY <1>4, IdleKeeps DEF Refused
<1>5. QED
  BY <1>2, <1>3, <1>4

LEMMA ProjectedKeeps ==
  ASSUME NEW k \in Handler, HandlerKeeps(k), k.pc \in {"read", "back"},
         NEW row \in Rows, Stands(row, k.job), NEW n \in Projected(k, row)
  PROVE  n \in Handler /\ HandlerKeeps(n)
<1>1. /\ k.mode \in {"hook", "submit"} /\ k.own \in Event /\ k.job \in Event /\ k.subject \in Subject
      /\ ~k.repairing => k.job = k.own
  BY DEF HandlerKeeps
<1>2. CASE k.mode = "submit" /\ ~k.repairing
  <2>1. n = [k EXCEPT !.pc = "link", !.kept = row, !.seen = NoRow]
    BY <1>2 DEF Projected
  <2>2. n \in Handler
    BY <2>1 DEF Handler, Pcs, Rows
  <2>3. /\ n.pc = "link" /\ n.job = k.job /\ n.own = k.own /\ ~n.repairing /\ n.mode = "submit"
        /\ n.kept = row /\ n.subject = k.subject
    BY <1>2, <2>1 DEF Handler
  <2>4. QED
    BY <1>1, <1>2, <2>2, <2>3 DEF HandlerKeeps
<1>3. CASE ~(k.mode = "submit" /\ ~k.repairing)
  <2>1. n = [k EXCEPT !.pc = "fulfil", !.row = row, !.seen = NoRow]
    BY <1>3 DEF Projected
  <2>2. n \in Handler
    BY <2>1 DEF Handler, Pcs, Rows
  <2>3. /\ n.pc = "fulfil" /\ n.job = k.job /\ n.own = k.own /\ n.repairing = k.repairing
        /\ n.mode = k.mode /\ n.row = row /\ n.kept = k.kept
    BY <2>1 DEF Handler
  <2>4. n.mode = "submit" /\ n.repairing => Stands(n.kept, n.own)
    BY <2>3 DEF HandlerKeeps
  <2>5. QED
    BY <1>1, <2>2, <2>3, <2>4 DEF HandlerKeeps
<1>4. QED
  BY <1>2, <1>3

\* A handler that moves to where it knows what it must, beside others that stay.
LEMMA OneMoves ==
  ASSUME TypeOK, AllKeep, Grows, NEW w \in Worker, NEW n \in Handler, HandlerKeeps(n)',
         worker' = [worker EXCEPT ![w] = n]
  PROVE  worker' \in [Worker -> Handler] /\ AllKeep'
<1>1. worker \in [Worker -> Handler]
  BY DEF TypeOK
<1>2. worker' \in [Worker -> Handler]
  BY <1>1
<1>3. ASSUME NEW v \in Worker
      PROVE  HandlerKeeps(worker[v])'
  <2>1. CASE v = w
    <3>1. worker'[v] = n
      BY <1>1, <2>1
    <3>2. QED
      BY <3>1
  <2>2. CASE v # w
    <3>1. PICK k \in Handler : k = worker[v]
      BY <1>1
    <3>2. HandlerKeeps(k)
      BY <3>1 DEF AllKeep
    <3>3. HandlerKeeps(k)'
      BY <3>2, OthersKeep
    <3>4. worker'[v] = k
      BY <1>1, <2>2, <3>1
    <3>5. QED
      BY <3>3, <3>4
  <2>3. QED
    BY <2>1, <2>2
<1>4. QED
  BY <1>2, <1>3 DEF AllKeep

-----------------------------------------------------------------------------
\* The steps of a handler that write nothing but the handler.

LEMMA SameGrows == ASSUME TypeOK, UNCHANGED <<purchase, credited>> PROVE Grows
<1>1. \A t \in Transaction : purchase[t] # NoRow => purchase[t].at \in Nat
  BY ReportIs DEF TypeOK
<1>2. QED
  BY <1>1 DEF Grows, TypeOK

\* A reader moves to a place its own knowledge already covers.
LEMMA ReaderKeeps ==
  ASSUME TypeOK, AllKeep, UNCHANGED <<purchase, credited>>, NEW w \in Worker,
         NEW n \in Handler, HandlerKeeps(n), worker' = [worker EXCEPT ![w] = n]
  PROVE  worker' \in [Worker -> Handler] /\ AllKeep'
<1>1. Grows
  BY SameGrows
<1>2. HandlerKeeps(n)'
  BY <1>1, OthersKeep
<1>3. QED
  BY <1>1, <1>2, OneMoves

LEMMA WorkerIs ==
  ASSUME TypeOK, AllKeep, NEW w \in Worker
  PROVE  worker[w] \in Handler /\ HandlerKeeps(worker[w])
  BY DEF TypeOK, AllKeep

LEMMA DeliverKeeps ==
  ASSUME TypeOK, AllKeep, NEW w \in Worker, NEW e \in Event, Deliver(w, e)
  PROVE  worker' \in [Worker -> Handler] /\ AllKeep'
<1>1. UNCHANGED <<purchase, credited>>
  BY DEF Deliver, rows, books
<1>2. CASE Finished(e)
  <2>1. worker' = worker
    BY <1>2 DEF Deliver
  <2>2. \A v \in Worker : HandlerKeeps(worker[v])'
    <3>1. TAKE v \in Worker
    <3>2. PICK k \in Handler : k = worker[v]
      BY WorkerIs
    <3>3. HandlerKeeps(k)'
      BY <1>1, <3>2, WorkerIs, SameGrows, OthersKeep
    <3>4. QED
      BY <2>1, <3>2, <3>3
  <2>3. QED
    BY <2>1, <2>2 DEF TypeOK, AllKeep
<1>3. CASE ~Finished(e)
  <2>1. PICK n : /\ n = [Idle EXCEPT !.pc = IF e.stamp = Nobody THEN "owner" ELSE "link",
                                     !.mode = "hook", !.own = e, !.job = e]
                 /\ worker' = [worker EXCEPT ![w] = n]
    BY <1>3 DEF Deliver, Goes
  <2>2. n \in Handler
    BY <2>1, IdleKeeps DEF Handler, Pcs
  <2>3. /\ n.mode = "hook" /\ n.own = e /\ n.job = e /\ ~n.repairing
        /\ n.pc = IF e.stamp = Nobody THEN "owner" ELSE "link"
    BY <2>1 DEF Idle
  <2>4. HandlerKeeps(n)
    BY <2>3 DEF HandlerKeeps
  <2>5. QED
    BY <1>1, <2>1, <2>2, <2>4, ReaderKeeps
<1>4. QED
  BY <1>2, <1>3

LEMMA SubmitKeeps ==
  ASSUME TypeOK, AllKeep, NEW w \in Worker, NEW e \in Event, NEW s \in Subject, Submit(w, e, s)
  PROVE  worker' \in [Worker -> Handler] /\ AllKeep'
<1>1. UNCHANGED <<purchase, credited>>
  BY DEF Submit, rows, books
<1>2. PICK n : /\ n = [Idle EXCEPT !.pc = "read", !.mode = "submit", !.own = e, !.job = e, !.subject = s]
               /\ worker' = [worker EXCEPT ![w] = n]
  BY DEF Submit, Goes
<1>3. n \in Handler
  BY <1>2, IdleKeeps DEF Handler, Pcs
<1>4. n.pc = "read" /\ n.mode = "submit" /\ n.own = e /\ n.job = e /\ n.subject = s /\ ~n.repairing
  BY <1>2 DEF Idle
<1>5. HandlerKeeps(n)
  BY <1>4 DEF HandlerKeeps
<1>6. QED
  BY <1>1, <1>2, <1>3, <1>5, ReaderKeeps

LEMMA LinkKeeps ==
  ASSUME TypeOK, AllKeep, NEW w \in Worker, LinkAccount(w)
  PROVE  worker' \in [Worker -> Handler] /\ AllKeep' /\ link' \in Subject \union {Nobody}
<1>1. UNCHANGED <<purchase, credited>> /\ worker[w].pc = "link"
  BY DEF LinkAccount, rows, books, Pc
<1>2. PICK k \in Handler : k = worker[w] /\ HandlerKeeps(k)
  BY WorkerIs
<1>3. PICK n : n = [k EXCEPT !.pc = "scan"] /\ worker' = [worker EXCEPT ![w] = n]
  BY <1>2 DEF LinkAccount, Steps, Goes
<1>4. n \in Handler
  BY <1>3 DEF Handler, Pcs
<1>5. /\ n.pc = "scan" /\ n.mode = k.mode /\ n.own = k.own /\ n.job = k.job /\ n.repairing = k.repairing
      /\ n.kept = k.kept
  BY <1>3 DEF Handler
<1>6. HandlerKeeps(n)
  BY <1>1, <1>2, <1>5 DEF HandlerKeeps
<1>7. Claimant(w) \in Subject
  <2>1. k.own \in Event /\ IF k.mode = "hook" THEN k.own.stamp # Nobody ELSE k.subject \in Subject
    BY <1>1, <1>2 DEF HandlerKeeps
  <2>2. k.own.stamp \in Subject \union {Nobody}
    BY <2>1, EventIs
  <2>3. QED
    BY <1>2, <2>1, <2>2 DEF Claimant
<1>8. link' \in Subject \union {Nobody}
  BY <1>7 DEF LinkAccount, TypeOK
<1>9. QED
  BY <1>1, <1>3, <1>4, <1>6, <1>8, ReaderKeeps

LEMMA ScanKeeps ==
  ASSUME TypeOK, AllKeep, NEW w \in Worker, RepairScan(w)
  PROVE  worker' \in [Worker -> Handler] /\ AllKeep'
<1>1. UNCHANGED <<purchase, credited>> /\ worker[w].pc = "scan"
  BY DEF RepairScan, rows, books, Pc
<1>2. PICK k \in Handler : k = worker[w] /\ HandlerKeeps(k)
  BY WorkerIs
<1>3. PICK n \in Onward(k, {e \in Event : inbox[e] = "orphan"}) : worker' = [worker EXCEPT ![w] = n]
  BY <1>2 DEF RepairScan, GoesTo, Goes
<1>4. n \in Handler /\ HandlerKeeps(n)
  BY <1>1, <1>2, <1>3, OnwardKeeps
<1>5. QED
  BY <1>1, <1>3, <1>4, ReaderKeeps

LEMMA OwnerKeeps ==
  ASSUME TypeOK, AllKeep, NEW w \in Worker, ResolveOwner(w)
  PROVE  worker' \in [Worker -> Handler] /\ AllKeep'
<1>1. UNCHANGED <<purchase, credited>> /\ worker[w].pc = "owner"
  BY DEF ResolveOwner, rows, books, Pc
<1>2. PICK k \in Handler : k = worker[w] /\ HandlerKeeps(k)
  BY WorkerIs
<1>3. k.job \in Event /\ k.own \in Event /\ k.mode \in {"hook", "submit"}
  BY <1>1, <1>2 DEF HandlerKeeps
<1>4. PICK s : s = Owner(k.job.tx)
  OBVIOUS
<1>5. s # Nobody => s \in Subject
  <2>1. k.job.tx \in Transaction
    BY <1>3, EventIs
  <2>2. purchase[k.job.tx] # NoRow => purchase[k.job.tx].holder \in Subject
    BY <2>1, ReportIs DEF TypeOK
  <2>3. QED
    BY <1>4, <2>2 DEF Owner, TypeOK
<1>6. PICK n : /\ worker' = [worker EXCEPT ![w] = n]
               /\ n \in IF s # Nobody THEN {[k EXCEPT !.pc = "read", !.subject = s]}
                        ELSE IF k.repairing THEN Onward(k, k.todo)
                        ELSE {[k EXCEPT !.pc = "orphan"]}
  BY <1>2, <1>4 DEF ResolveOwner, GoesTo, Goes
<1>7. CASE s # Nobody
  <2>1. n = [k EXCEPT !.pc = "read", !.subject = s]
    BY <1>6, <1>7
  <2>2. n \in Handler
    BY <1>5, <1>7, <2>1 DEF Handler, Pcs
  <2>3. /\ n.pc = "read" /\ n.subject = s /\ n.mode = k.mode /\ n.own = k.own /\ n.job = k.job
        /\ n.repairing = k.repairing /\ n.kept = k.kept
    BY <2>1 DEF Handler
  <2>4. HandlerKeeps(n)
    BY <1>1, <1>2, <1>3, <1>5, <1>7, <2>3 DEF HandlerKeeps
  <2>5. QED
    BY <1>1, <1>6, <2>2, <2>4, ReaderKeeps
<1>8. CASE s = Nobody /\ k.repairing
  <2>1. n \in Onward(k, k.todo) /\ k.todo \in SUBSET Event
    BY <1>6, <1>8 DEF Handler
  <2>2. n \in Handler /\ HandlerKeeps(n)
    BY <1>1, <1>2, <1>8, <2>1, OnwardKeeps
  <2>3. QED
    BY <1>1, <1>6, <2>2, ReaderKeeps
<1>9. CASE s = Nobody /\ ~k.repairing
  <2>1. n = [k EXCEPT !.pc = "orphan"]
    BY <1>6, <1>9
  <2>2. n \in Handler
    BY <2>1 DEF Handler, Pcs
  <2>3. n.pc = "orphan" /\ n.mode = k.mode /\ n.own = k.own /\ n.job = k.job /\ ~n.repairing
    BY <1>9, <2>1 DEF Handler
  <2>4. HandlerKeeps(n)
    BY <1>1, <1>2, <1>3, <1>9, <2>3 DEF HandlerKeeps
  <2>5. QED
    BY <1>1, <1>6, <2>2, <2>4, ReaderKeeps
<1>10. QED
  BY <1>7, <1>8, <1>9

LEMMA PreReadKeeps ==
  ASSUME TypeOK, AllKeep, NEW w \in Worker, PreRead(w)
  PROVE  worker' \in [Worker -> Handler] /\ AllKeep'
<1>1. UNCHANGED <<purchase, credited>> /\ worker[w].pc = "read"
  BY DEF PreRead, rows, books, Pc
<1>2. PICK k \in Handler : k = worker[w] /\ HandlerKeeps(k)
  BY WorkerIs
<1>3. /\ k.job \in Event /\ k.own \in Event /\ k.mode \in {"hook", "submit"} /\ k.subject \in Subject
      /\ k.job.tx \in Transaction
  BY <1>1, <1>2, EventIs DEF HandlerKeeps
<1>4. PICK row \in Rows : row = purchase[k.job.tx] /\ (row # NoRow => row.tx = k.job.tx)
  BY <1>3 DEF TypeOK
<1>5. PICK n : /\ worker' = [worker EXCEPT ![w] = n]
               /\ n \in IF row # NoRow /\ row.holder # k.subject THEN Refused(k)
                        ELSE IF row # NoRow /\ row.at >= k.job.at THEN Projected(k, row)
                        ELSE {[k EXCEPT !.pc = "commit", !.seen = row]}
  BY <1>2, <1>4 DEF PreRead, GoesTo, Goes
<1>6. CASE row # NoRow /\ row.holder # k.subject
  BY <1>1, <1>2, <1>5, <1>6, RefusedKeeps, ReaderKeeps
<1>7. CASE ~(row # NoRow /\ row.holder # k.subject) /\ row # NoRow /\ row.at >= k.job.at
  <2>1. Stands(row, k.job)
    BY <1>4, <1>7 DEF Stands, Landed
  <2>2. n \in Handler /\ HandlerKeeps(n)
    BY <1>1, <1>2, <1>5, <1>7, <2>1, ProjectedKeeps
  <2>3. QED
    BY <1>1, <1>5, <2>2, ReaderKeeps
<1>8. CASE ~(row # NoRow /\ row.holder # k.subject) /\ ~(row # NoRow /\ row.at >= k.job.at)
  <2>1. n = [k EXCEPT !.pc = "commit", !.seen = row]
    BY <1>5, <1>8
  <2>2. n \in Handler
    BY <2>1 DEF Handler, Pcs
  <2>3. /\ n.pc = "commit" /\ n.mode = k.mode /\ n.own = k.own /\ n.job = k.job /\ n.subject = k.subject
        /\ n.repairing = k.repairing /\ n.kept = k.kept
    BY <2>1 DEF Handler
  <2>4. HandlerKeeps(n)
    BY <1>1, <1>2, <1>3, <2>3 DEF HandlerKeeps
  <2>5. QED
    BY <1>1, <1>5, <2>2, <2>4, ReaderKeeps
<1>9. QED
  BY <1>6, <1>7, <1>8

LEMMA BackKeeps ==
  ASSUME TypeOK, AllKeep, NEW w \in Worker, ReadBack(w)
  PROVE  worker' \in [Worker -> Handler] /\ AllKeep'
<1>1. UNCHANGED <<purchase, credited>> /\ worker[w].pc = "back"
  BY DEF ReadBack, rows, books, Pc
<1>2. PICK k \in Handler : k = worker[w] /\ HandlerKeeps(k)
  BY WorkerIs
<1>3. k.job \in Event /\ k.job.tx \in Transaction
  BY <1>1, <1>2, EventIs DEF HandlerKeeps
<1>4. PICK row \in Rows : row = purchase[k.job.tx]
  BY <1>3 DEF TypeOK
<1>5. PICK n : /\ worker' = [worker EXCEPT ![w] = n]
               /\ n \in IF row.holder # k.subject THEN Refused(k) ELSE Projected(k, row)
  BY <1>2, <1>4 DEF ReadBack, GoesTo, Goes
<1>6. CASE row.holder # k.subject
  BY <1>1, <1>2, <1>5, <1>6, RefusedKeeps, ReaderKeeps
<1>7. CASE row.holder = k.subject
  <2>1. Stands(row, k.job)
    BY <1>1, <1>2, <1>4, <1>7 DEF Stands, Landed, HandlerKeeps
  <2>2. n \in Handler /\ HandlerKeeps(n)
    BY <1>1, <1>2, <1>5, <1>7, <2>1, ProjectedKeeps
  <2>3. QED
    BY <1>1, <1>5, <2>2, ReaderKeeps
<1>8. QED
  BY <1>6, <1>7

\* What the upsert does to the table: nothing, or the abstract projection of its row.
Writes(row) ==
  /\ purchase[row.tx] = NoRow \/ (purchase[row.tx].holder = row.holder /\ purchase[row.tx].at < row.at)
  /\ purchase' = [purchase EXCEPT ![row.tx] = row]

LEMMA CommitIs ==
  ASSUME TypeOK, AllKeep, NEW w \in Worker, Commit(w),
         NEW k \in Handler, k = worker[w]
  PROVE  /\ k.pc = "commit" /\ HandlerKeeps(k) /\ k.job \in Event /\ k.own \in Event
         /\ k.subject \in Subject /\ k.mode \in {"hook", "submit"}
         /\ Row(k.job, k.subject) \in Reports
         /\ purchase' \in [Transaction -> Rows] /\ \A t \in Transaction : purchase'[t] # NoRow => purchase'[t].tx = t
         /\ Grows
         /\ \/ /\ purchase' = purchase /\ purchase[k.job.tx] # NoRow
               /\ (purchase[k.job.tx].holder = k.subject => purchase[k.job.tx].at >= k.job.at)
            \/ Writes(Row(k.job, k.subject))
<1>1. /\ k.pc = "commit" /\ HandlerKeeps(k) /\ credited' = credited
      /\ purchase' = Upsert(Row(k.job, k.subject))
  BY WorkerIs DEF Commit, Pc, books
<1>2. k.job \in Event /\ k.own \in Event /\ k.subject \in Subject /\ k.mode \in {"hook", "submit"}
  BY <1>1 DEF HandlerKeeps
<1>3. PICK new \in Reports : new = Row(k.job, k.subject)
  BY <1>2 DEF Reports
<1>4. /\ new.tx = k.job.tx /\ new.at = k.job.at /\ new.holder = k.subject
      /\ k.job.tx \in Transaction /\ k.job.at \in Nat
  BY <1>2, <1>3, EventIs DEF Row
<1>5. purchase[k.job.tx] \in Rows /\ (purchase[k.job.tx] # NoRow => purchase[k.job.tx].at \in Nat)
  BY <1>4, ReportIs DEF TypeOK
<1>6. purchase \in [Transaction -> Rows] /\ \A t \in Transaction : purchase[t] # NoRow => purchase[t].tx = t
  BY DEF TypeOK
<1>7. CASE Writes(new)
  <2>1. /\ purchase' = [purchase EXCEPT ![k.job.tx] = new]
        /\ purchase[k.job.tx] = NoRow \/ (purchase[k.job.tx].holder = k.subject /\ purchase[k.job.tx].at < k.job.at)
    BY <1>4, <1>7 DEF Writes
  <2>2. new \in Rows /\ new # NoRow
    <3>1. new \in [tx : Transaction, holder : Subject, at : Nat, status : Statuses, sku : Sku]
      BY <1>2, <1>3, EventIs DEF Row
    <3>2. QED
      BY <3>1, PaymentsConstants DEF Rows
  <2>3. purchase' \in [Transaction -> Rows] /\ \A t \in Transaction : purchase'[t] # NoRow => purchase'[t].tx = t
    BY <1>4, <1>6, <2>1, <2>2
  <2>4. ASSUME NEW t \in Transaction, purchase[t] # NoRow
        PROVE  /\ purchase'[t] # NoRow /\ purchase'[t].tx = purchase[t].tx
               /\ purchase'[t].holder = purchase[t].holder /\ purchase'[t].at >= purchase[t].at
    <3>1. CASE t = k.job.tx
      <4>1. purchase'[t] = new
        BY <1>6, <2>1, <3>1
      <4>2. purchase[t].holder = k.subject /\ purchase[t].at < k.job.at /\ purchase[t].tx = t
        BY <1>6, <2>1, <2>4, <3>1
      <4>3. QED
        BY <1>4, <1>5, <2>2, <2>4, <3>1, <4>1, <4>2
    <3>2. CASE t # k.job.tx
      <4>1. purchase'[t] = purchase[t] /\ purchase[t].at \in Nat
        BY <1>6, <2>1, <2>4, <3>2, ReportIs
      <4>2. QED
        BY <2>4, <4>1
    <3>3. QED
      BY <3>1, <3>2
  <2>5. Grows
    BY <1>1, <2>3, <2>4 DEF Grows
  <2>6. QED
    BY <1>1, <1>2, <1>3, <1>7, <2>3, <2>5
<1>8. CASE ~Writes(new)
  <2>1. /\ purchase' = purchase
        /\ purchase[k.job.tx] # NoRow
        /\ ~(purchase[k.job.tx].holder = k.subject /\ purchase[k.job.tx].at < k.job.at)
    BY <1>1, <1>3, <1>4, <1>8 DEF Writes, Upsert
  <2>2. purchase[k.job.tx].holder = k.subject => purchase[k.job.tx].at >= k.job.at
    BY <1>4, <1>5, <2>1
  <2>3. Grows
    BY <1>1, <2>1, SameGrows
  <2>4. QED
    BY <1>1, <1>2, <1>3, <1>6, <2>1, <2>2, <2>3
<1>9. QED
  BY <1>7, <1>8

LEMMA CommitKeeps ==
  ASSUME TypeOK, AllKeep, NEW w \in Worker, Commit(w)
  PROVE  worker' \in [Worker -> Handler] /\ AllKeep'
<1>1. PICK k \in Handler : k = worker[w]
  BY WorkerIs
<1>2. /\ k.pc = "commit" /\ HandlerKeeps(k) /\ k.job \in Event /\ k.own \in Event
      /\ k.subject \in Subject /\ k.mode \in {"hook", "submit"} /\ Grows
  BY <1>1, CommitIs
<1>3. k.job.tx \in Transaction /\ k.job.at \in Nat
  BY <1>2, EventIs
<1>4. PICK n : n = [k EXCEPT !.pc = "back"] /\ worker' = [worker EXCEPT ![w] = n]
  BY <1>1 DEF Commit, Steps, Goes
<1>5. n \in Handler
  BY <1>4 DEF Handler, Pcs
<1>6. /\ n.pc = "back" /\ n.mode = k.mode /\ n.own = k.own /\ n.job = k.job /\ n.subject = k.subject
      /\ n.repairing = k.repairing /\ n.kept = k.kept
  BY <1>4 DEF Handler
<1>7. purchase'[k.job.tx] # NoRow /\ (purchase'[k.job.tx].holder = k.subject => Landed(purchase[k.job.tx], k.job)')
  <2>1. CASE Writes(Row(k.job, k.subject))
    <3>1. PICK new \in Reports : new = Row(k.job, k.subject)
      BY <1>1, CommitIs
    <3>2. new.tx = k.job.tx /\ new.at = k.job.at
      BY <3>1 DEF Row
    <3>3. purchase'[k.job.tx] = new
      BY <1>3, <2>1, <3>1, <3>2 DEF Writes, TypeOK
    <3>4. new # NoRow
      <4>1. new \in [tx : Transaction, holder : Subject, at : Nat, status : Statuses, sku : Sku]
        BY <1>2, <3>1, EventIs DEF Row
      <4>2. QED
        BY <4>1, PaymentsConstants
    <3>5. QED
      BY <1>3, <3>2, <3>3, <3>4 DEF Landed
  <2>2. CASE /\ purchase' = purchase /\ purchase[k.job.tx] # NoRow
             /\ (purchase[k.job.tx].holder = k.subject => purchase[k.job.tx].at >= k.job.at)
    BY <1>3, <2>2 DEF Landed, TypeOK
  <2>3. QED
    BY <1>1, <2>1, <2>2, CommitIs
<1>8. n.mode = "submit" /\ n.repairing => Stands(n.kept, n.own)'
  <2>1. HandlerKeeps(k)'
    BY <1>2, OthersKeep
  <2>2. QED
    BY <1>2, <1>6, <2>1 DEF HandlerKeeps
<1>9. n.job \in Event /\ n.own \in Event /\ n.subject \in Subject /\ (~n.repairing => n.job = n.own)
  BY <1>2, <1>6 DEF HandlerKeeps
<1>10. HandlerKeeps(n)'
  BY <1>2, <1>6, <1>7, <1>8, <1>9 DEF HandlerKeeps
<1>11. QED
  BY <1>2, <1>4, <1>5, <1>10, OneMoves

LEMMA FulfilKeeps ==
  ASSUME TypeOK, AllKeep, NEW w \in Worker, Fulfil(w)
  PROVE  /\ worker' \in [Worker -> Handler] /\ AllKeep' /\ Grows
         /\ credited' \subseteq Transaction /\ debited' \subseteq Transaction
         /\ balance' \in [Subject -> Nat]
<1>1. PICK k \in Handler : k = worker[w] /\ HandlerKeeps(k)
  BY WorkerIs
<1>2. k.pc = "fulfil" /\ purchase' = purchase
  BY <1>1 DEF Fulfil, Pc, rows
<1>3. k.job \in Event /\ k.own \in Event /\ k.mode \in {"hook", "submit"} /\ Stands(k.row, k.job)
  BY <1>1, <1>2 DEF HandlerKeeps
<1>4. /\ k.row \in Rows /\ k.row # NoRow /\ k.row.tx = k.job.tx
      /\ k.row.tx \in Transaction /\ k.row.holder \in Subject
  BY <1>3, ReportIs DEF Stands, Landed, Handler
<1>5. credited' \subseteq Transaction /\ debited' \subseteq Transaction
  <2>1. credited' = IF Credits(k.row) THEN credited \union {k.row.tx} ELSE credited
    BY <1>1 DEF Fulfil
  <2>2. debited' = IF Debits(k.row) THEN debited \union {k.row.tx} ELSE debited
    BY <1>1 DEF Fulfil
  <2>3. QED
    BY <1>4, <2>1, <2>2 DEF TypeOK
<1>6. balance' \in [Subject -> Nat]
  <2>1. balance \in [Subject -> Nat] /\ balance[k.row.holder] \in Nat
    BY <1>4 DEF TypeOK
  <2>2. balance' = [balance EXCEPT ![k.row.holder] = @ + IF Credits(k.row) THEN 1 ELSE IF Debits(k.row) THEN -1 ELSE 0]
    BY <1>1 DEF Fulfil
  <2>3. balance[k.row.holder] + (IF Credits(k.row) THEN 1 ELSE IF Debits(k.row) THEN -1 ELSE 0) \in Nat
    BY <2>1 DEF Debits
  <2>4. QED
    BY <2>1, <2>2, <2>3
<1>7. credited \subseteq credited'
  BY DEF Fulfil
<1>8. Grows
  <2>1. \A t \in Transaction : purchase[t] # NoRow => purchase[t].at \in Nat
    BY ReportIs DEF TypeOK
  <2>2. QED
    BY <1>2, <1>7, <2>1 DEF Grows, TypeOK
<1>9. Counted(k.job)'
  <2>1. CASE Credits(k.row)
    <3>1. k.job.tx \in credited'
      BY <1>1, <1>4, <2>1 DEF Fulfil
    <3>2. QED
      BY <3>1 DEF Counted
  <2>2. CASE ~Paid(k.row)
    <3>1. CASE k.row.tx \in StateRow
      BY <1>4, <3>1 DEF Counted
    <3>2. CASE k.row.status = "refunded"
      <4>1. PICK d \in Event : k.row.tx = d.tx /\ k.row.status = d.status
        BY <1>4, ReportIs
      <4>2. QED
        BY <1>4, <3>2, <4>1 DEF Counted
    <3>3. QED
      BY <2>2, <3>1, <3>2 DEF Paid
  <2>3. CASE k.row.tx \in credited
    BY <1>4, <1>7, <2>3 DEF Counted
  <2>4. QED
    BY <2>1, <2>2, <2>3 DEF Credits
<1>10. CASE k.mode = "submit" /\ ~k.repairing
  <2>1. worker' = [worker EXCEPT ![w] = Idle]
    BY <1>1, <1>10 DEF Fulfil, Goes
  <2>2. HandlerKeeps(Idle)'
    BY <1>8, IdleKeeps, OthersKeep
  <2>3. QED
    BY <1>5, <1>6, <1>8, <2>1, <2>2, IdleKeeps, OneMoves
<1>11. CASE ~(k.mode = "submit" /\ ~k.repairing)
  <2>1. PICK n : n = [k EXCEPT !.pc = "finish"] /\ worker' = [worker EXCEPT ![w] = n]
    BY <1>1, <1>11 DEF Fulfil, Goes
  <2>2. n \in Handler
    BY <2>1 DEF Handler, Pcs
  <2>3. /\ n.pc = "finish" /\ n.mode = k.mode /\ n.own = k.own /\ n.job = k.job
        /\ n.repairing = k.repairing /\ n.kept = k.kept
    BY <2>1 DEF Handler
  <2>4. HandlerKeeps(k)'
    BY <1>1, <1>8, OthersKeep
  <2>5. Landed(purchase[n.job.tx], n.job)'
    BY <1>2, <1>3, <2>3 DEF Stands, Landed
  <2>6. n.mode = "submit" /\ n.repairing => Stands(n.kept, n.own)'
    BY <1>2, <2>3, <2>4 DEF HandlerKeeps
  <2>7. ~n.repairing => n.job = n.own
    BY <1>1, <1>2, <2>3 DEF HandlerKeeps
  <2>8. HandlerKeeps(n)'
    BY <1>3, <1>9, <2>3, <2>5, <2>6, <2>7 DEF HandlerKeeps
  <2>9. QED
    BY <1>5, <1>6, <1>8, <2>1, <2>2, <2>8, OneMoves
<1>12. QED
  BY <1>10, <1>11

\* A report is marked done by a handler that knows it to have landed and to count.
LEMMA FinishKeeps ==
  ASSUME TypeOK, AllKeep, NEW w \in Worker, Finish(w)
  PROVE  /\ worker' \in [Worker -> Handler] /\ AllKeep'
         /\ worker[w].job \in Event /\ Landed(purchase[worker[w].job.tx], worker[w].job) /\ Counted(worker[w].job)
<1>1. UNCHANGED <<purchase, credited>> /\ worker[w].pc = "finish"
  BY DEF Finish, rows, books, Pc
<1>2. PICK k \in Handler : k = worker[w] /\ HandlerKeeps(k)
  BY WorkerIs
<1>3. k.job \in Event /\ Landed(purchase[k.job.tx], k.job) /\ Counted(k.job) /\ k.todo \in SUBSET Event
  BY <1>1, <1>2 DEF HandlerKeeps, Handler
<1>4. PICK n \in (IF k.repairing THEN Onward(k, k.todo) ELSE {Idle}) : worker' = [worker EXCEPT ![w] = n]
  BY <1>2 DEF Finish, GoesTo, Goes
<1>5. n \in Handler /\ HandlerKeeps(n)
  BY <1>1, <1>2, <1>3, <1>4, OnwardKeeps, IdleKeeps
<1>6. QED
  BY <1>1, <1>2, <1>3, <1>4, <1>5, ReaderKeeps

LEMMA ToIdleKeeps ==
  ASSUME TypeOK, AllKeep, NEW w \in Worker, MarkOrphan(w) \/ Refuse(w) \/ Lose(w)
  PROVE  /\ worker' \in [Worker -> Handler] /\ AllKeep'
<1>1. UNCHANGED <<purchase, credited>> /\ worker' = [worker EXCEPT ![w] = Idle]
  BY DEF MarkOrphan, Refuse, Lose, rows, books, Goes
<1>2. QED
  BY <1>1, IdleKeeps, ReaderKeeps

LEMMA SameKeeps ==
  ASSUME TypeOK, AllKeep, UNCHANGED <<purchase, credited, worker>>
  PROVE  AllKeep'
<1>1. ASSUME NEW v \in Worker
      PROVE  HandlerKeeps(worker[v])'
  <2>1. PICK k \in Handler : k = worker[v]
    BY WorkerIs
  <2>2. HandlerKeeps(k)'
    BY <2>1, WorkerIs, SameGrows, OthersKeep
  <2>3. worker'[v] = k
    BY <2>1
  <2>4. QED
    BY <2>2, <2>3
<1>2. QED
  BY <1>1 DEF AllKeep

LEMMA OwnIs ==
  ASSUME TypeOK, AllKeep, NEW w \in Worker, worker[w].pc # "idle"
  PROVE  worker[w].own \in Event /\ worker[w].job \in Event
  BY WorkerIs DEF HandlerKeeps

\* Every step keeps the shapes and what the handlers know, and makes no purchase older.
LEMMA StepKeeps ==
  ASSUME TypeOK, AllKeep, [Next]_vars
  PROVE  TypeOK' /\ AllKeep' /\ Grows
<1>1. /\ link \in Subject \union {Nobody}
      /\ inbox \in [Event -> {"absent", "received", "orphan", "failed", "done"}]
      /\ owed \subseteq Event
      /\ purchase \in [Transaction -> Rows] /\ \A t \in Transaction : purchase[t] # NoRow => purchase[t].tx = t
      /\ active \subseteq Subject \X Key /\ manual \subseteq Subject \X Key
      /\ credited \subseteq Transaction /\ debited \subseteq Transaction
      /\ balance \in [Subject -> Nat] /\ worker \in [Worker -> Handler]
      /\ {repeats, submits, comps, spends, faults} \subseteq Nat
  BY DEF TypeOK
<1>2. ASSUME NEW w \in Worker, NEW e \in Event, Deliver(w, e)
      PROVE  TypeOK' /\ AllKeep' /\ Grows
  <2>1. UNCHANGED <<link, purchase, active, manual, credited, debited, balance, submits, comps, spends, faults>>
    BY <1>2 DEF Deliver, rows, books
  <2>2. worker' \in [Worker -> Handler] /\ AllKeep'
    BY <1>2, DeliverKeeps
  <2>3. inbox' = inbox \/ inbox' = [inbox EXCEPT ![e] = IF @ = "absent" THEN "received" ELSE @]
    BY <1>2 DEF Deliver
  <2>4. owed' \subseteq owed /\ repeats' \in Nat
    BY <1>1, <1>2 DEF Deliver
  <2>5. inbox' \in [Event -> {"absent", "received", "orphan", "failed", "done"}]
    BY <1>1, <2>3
  <2>6. QED
    BY <1>1, <2>1, <2>2, <2>4, <2>5, SameGrows DEF TypeOK
<1>3. ASSUME NEW w \in Worker, NEW e \in Event, NEW s \in Subject, Submit(w, e, s)
      PROVE  TypeOK' /\ AllKeep' /\ Grows
  <2>1. UNCHANGED <<link, inbox, owed, purchase, active, manual, credited, debited, balance,
                    repeats, comps, spends, faults>>
    BY <1>3 DEF Submit, rows, books
  <2>2. submits' \in Nat
    BY <1>1, <1>3 DEF Submit
  <2>3. worker' \in [Worker -> Handler] /\ AllKeep'
    BY <1>3, SubmitKeeps
  <2>4. QED
    BY <1>1, <2>1, <2>2, <2>3, SameGrows DEF TypeOK
<1>4. ASSUME NEW w \in Worker, LinkAccount(w)
      PROVE  TypeOK' /\ AllKeep' /\ Grows
  <2>1. UNCHANGED <<inbox, owed, purchase, active, manual, credited, debited, balance,
                    repeats, submits, comps, spends, faults>>
    BY <1>4 DEF LinkAccount, rows, books, counts
  <2>2. worker' \in [Worker -> Handler] /\ AllKeep' /\ link' \in Subject \union {Nobody}
    BY <1>4, LinkKeeps
  <2>3. QED
    BY <1>1, <2>1, <2>2, SameGrows DEF TypeOK
<1>5. ASSUME NEW w \in Worker, RepairScan(w) \/ ResolveOwner(w) \/ PreRead(w) \/ ReadBack(w)
      PROVE  TypeOK' /\ AllKeep' /\ Grows
  <2>1. UNCHANGED <<link, inbox, owed, purchase, active, manual, credited, debited, balance,
                    repeats, submits, comps, spends, faults>>
    BY <1>5 DEF RepairScan, ResolveOwner, PreRead, ReadBack, rows, books, counts
  <2>2. worker' \in [Worker -> Handler] /\ AllKeep'
    BY <1>5, ScanKeeps, OwnerKeeps, PreReadKeeps, BackKeeps
  <2>3. QED
    BY <1>1, <2>1, <2>2, SameGrows DEF TypeOK
<1>6. ASSUME NEW w \in Worker, Commit(w)
      PROVE  TypeOK' /\ AllKeep' /\ Grows
  <2>1. UNCHANGED <<link, inbox, owed, manual, credited, debited, balance,
                    repeats, submits, comps, spends, faults>>
    BY <1>6 DEF Commit, books, counts
  <2>2. PICK k \in Handler : k = worker[w]
    BY WorkerIs
  <2>3. /\ purchase' \in [Transaction -> Rows] /\ \A t \in Transaction : purchase'[t] # NoRow => purchase'[t].tx = t
        /\ Grows
    BY <1>6, <2>2, CommitIs
  <2>4. active' \subseteq active \union {<<k.subject, key>> : key \in Affected(k)}
    BY <1>6, <2>2 DEF Commit, Derived
  <2>5. k.subject \in Subject /\ Affected(k) \subseteq Key
    <3>1. k.subject \in Subject /\ k.job \in Event
      BY <1>6, <2>2, CommitIs
    <3>2. k.seen # NoRow => k.seen.sku \in Sku
      BY ReportIs, EventIs DEF Handler
    <3>3. QED
      BY <3>1, <3>2, EventIs, PaymentsConstants DEF Affected
  <2>6. worker' \in [Worker -> Handler] /\ AllKeep'
    BY <1>6, CommitKeeps
  <2>7. active' \subseteq Subject \X Key
    BY <1>1, <2>4, <2>5
  <2>8. QED
    BY <1>1, <2>1, <2>3, <2>6, <2>7 DEF TypeOK
<1>7. ASSUME NEW w \in Worker, Fulfil(w)
      PROVE  TypeOK' /\ AllKeep' /\ Grows
  <2>1. UNCHANGED <<link, inbox, owed, purchase, active, manual, repeats, submits, comps, spends, faults>>
    BY <1>7 DEF Fulfil, rows, counts
  <2>2. /\ worker' \in [Worker -> Handler] /\ AllKeep' /\ Grows
        /\ credited' \subseteq Transaction /\ debited' \subseteq Transaction
        /\ balance' \in [Subject -> Nat]
    BY <1>7, FulfilKeeps
  <2>3. QED
    BY <1>1, <2>1, <2>2 DEF TypeOK
<1>8. ASSUME NEW w \in Worker, Finish(w)
      PROVE  TypeOK' /\ AllKeep' /\ Grows
  <2>1. UNCHANGED <<link, purchase, active, manual, credited, debited, balance,
                    repeats, submits, comps, spends, faults>>
    BY <1>8 DEF Finish, rows, books, counts
  <2>2. worker' \in [Worker -> Handler] /\ AllKeep' /\ worker[w].job \in Event
    BY <1>8, FinishKeeps
  <2>3. inbox' = [inbox EXCEPT ![worker[w].job] = "done"] /\ owed' \subseteq owed
    BY <1>8 DEF Finish
  <2>4. inbox' \in [Event -> {"absent", "received", "orphan", "failed", "done"}]
    BY <1>1, <2>2, <2>3
  <2>5. QED
    BY <1>1, <2>1, <2>2, <2>3, <2>4, SameGrows DEF TypeOK
<1>9. ASSUME NEW w \in Worker, MarkOrphan(w) \/ Refuse(w)
      PROVE  TypeOK' /\ AllKeep' /\ Grows
  <2>1. UNCHANGED <<link, purchase, active, manual, credited, debited, balance,
                    repeats, submits, comps, spends, faults>>
    BY <1>9 DEF MarkOrphan, Refuse, rows, books, counts
  <2>2. worker' \in [Worker -> Handler] /\ AllKeep'
    BY <1>9, ToIdleKeeps
  <2>3. \/ inbox' = [inbox EXCEPT ![worker[w].own] = "orphan"]
        \/ inbox' = [inbox EXCEPT ![worker[w].own] = "failed"]
    BY <1>9 DEF MarkOrphan, Refuse
  <2>4. owed' \subseteq owed
    BY <1>9 DEF MarkOrphan, Refuse
  <2>5. inbox' \in [Event -> {"absent", "received", "orphan", "failed", "done"}]
    BY <1>1, <2>3
  <2>6. QED
    BY <1>1, <2>1, <2>2, <2>4, <2>5, SameGrows DEF TypeOK
<1>10. ASSUME NEW w \in Worker, Lose(w)
       PROVE  TypeOK' /\ AllKeep' /\ Grows
  <2>1. UNCHANGED <<link, inbox, owed, purchase, active, manual, credited, debited, balance,
                    repeats, submits, comps, spends>>
    BY <1>10 DEF Lose, rows, books
  <2>2. worker' \in [Worker -> Handler] /\ AllKeep' /\ faults' \in Nat
    BY <1>1, <1>10, ToIdleKeeps DEF Lose
  <2>3. QED
    BY <1>1, <2>1, <2>2, SameGrows DEF TypeOK
<1>11. ASSUME NEW s \in Subject, NEW k \in Key, NEW grants \in BOOLEAN, Comp(s, k, grants)
       PROVE  TypeOK' /\ AllKeep' /\ Grows
  <2>1. UNCHANGED <<link, inbox, owed, purchase, credited, debited, balance, worker,
                    repeats, submits, spends, faults>>
    BY <1>11 DEF Comp, books
  <2>2. comps' \in Nat /\ active' \subseteq Subject \X Key /\ manual' \subseteq Subject \X Key
    BY <1>1, <1>11 DEF Comp
  <2>3. QED
    BY <1>1, <2>1, <2>2, SameGrows, SameKeeps DEF TypeOK
<1>12. ASSUME NEW s \in Subject, Spend(s)
       PROVE  TypeOK' /\ AllKeep' /\ Grows
  <2>1. UNCHANGED <<link, inbox, owed, purchase, active, manual, credited, debited, worker,
                    repeats, submits, comps, faults>>
    BY <1>12 DEF Spend, rows
  <2>2. balance' \in [Subject -> Nat] /\ spends' \in Nat
    BY <1>1, <1>12 DEF Spend
  <2>3. QED
    BY <1>1, <2>1, <2>2, SameGrows, SameKeeps DEF TypeOK
<1>13. CASE UNCHANGED vars
  <2>1. UNCHANGED <<link, inbox, owed, purchase, active, manual, credited, debited, balance, worker,
                    repeats, submits, comps, spends, faults>>
    BY <1>13 DEF vars, rows, books, counts
  <2>2. QED
    BY <1>1, <2>1, SameGrows, SameKeeps DEF TypeOK
<1>14. QED
  BY <1>2, <1>3, <1>4, <1>5, <1>6, <1>7, <1>8, <1>9, <1>10, <1>11, <1>12, <1>13 DEF Next, Works

LEMMA InitKeeps == Init => TypeOK /\ AllKeep
<1>1. SUFFICES ASSUME Init PROVE TypeOK /\ AllKeep
  OBVIOUS
<1>2. AllKeep /\ worker \in [Worker -> Handler]
  BY <1>1, IdleKeeps DEF Init, AllKeep
<1>3. purchase \in [Transaction -> Rows] /\ \A t \in Transaction : purchase[t] # NoRow => purchase[t].tx = t
  BY <1>1 DEF Init, Rows
<1>4. /\ inbox \in [Event -> {"absent", "received", "orphan", "failed", "done"}]
      /\ balance \in [Subject -> Nat] /\ {repeats, submits, comps, spends, faults} \subseteq Nat
  BY <1>1 DEF Init
<1>5. link \in Subject \union {Nobody} /\ owed \subseteq Event
  BY <1>1, PaymentsConstants DEF Init
<1>6. /\ active \subseteq Subject \X Key /\ manual \subseteq Subject \X Key
      /\ credited \subseteq Transaction /\ debited \subseteq Transaction
  BY <1>1 DEF Init
<1>7. QED
  BY <1>2, <1>3, <1>4, <1>5, <1>6 DEF TypeOK

LEMMA InvHolds == Spec => [](TypeOK /\ AllKeep)
<1>1. TypeOK /\ AllKeep /\ [Next]_vars => (TypeOK /\ AllKeep)'
  BY StepKeeps
<1>2. QED
  BY <1>1, InitKeeps, PTL DEF Spec

\* Every variable keeps its shape, and every handler knows what its place says it knows.
THEOREM PaymentsTypes == Spec => []TypeOK
<1>1. TypeOK /\ AllKeep => TypeOK
  OBVIOUS
<1>2. QED
  BY <1>1, InvHolds, PTL

-----------------------------------------------------------------------------
\* projectPurchase: however reports arrive, repeat and are lost, every purchase is the
\* abstract projection's.
THEOREM NewestWinsHolds == Spec => Projects
<1>1. Init => Standing!Init
  BY DEF Init, Standing!Init
<1>2. ASSUME TypeOK, AllKeep, [Next]_vars
      PROVE  [Standing!Next]_purchase
  <2>1. CASE \E w \in Worker : Commit(w)
    <3>1. PICK w \in Worker : Commit(w)
      BY <2>1
    <3>2. PICK k \in Handler : k = worker[w]
      BY <1>2, WorkerIs
    <3>3. PICK new \in Reports : new = Row(k.job, k.subject)
      BY <1>2, <3>1, <3>2, CommitIs
    <3>4. purchase' = purchase \/ Writes(new)
      BY <1>2, <3>1, <3>2, <3>3, CommitIs
    <3>5. Writes(new) => Standing!Project(new)
      BY DEF Writes, Standing!Project, Standing!Newer
    <3>6. QED
      BY <3>3, <3>4, <3>5 DEF Standing!Next
  <2>2. CASE ~\E w \in Worker : Commit(w)
    <3>1. purchase' = purchase
      BY <1>2, <2>2 DEF Next, Works, Deliver, Submit, LinkAccount, RepairScan, ResolveOwner, MarkOrphan, PreRead,
           ReadBack, Fulfil, Finish, Refuse, Lose, Comp, Spend, rows, vars
    <3>2. QED
      BY <3>1
  <2>3. QED
    BY <2>1, <2>2
<1>3. TypeOK /\ AllKeep /\ [Next]_vars => [Standing!Next]_purchase
  BY <1>2
<1>4. QED
  BY <1>1, <1>3, InvHolds, PTL DEF Spec, Projects, Standing!Spec

-----------------------------------------------------------------------------
\* webhookGuard: a finished event has had its effect, wherever handlers died before it.
THEOREM FinishedIsSafe == Spec => []FinishedIsFulfilled
<1> DEFINE Effected(e) == inbox[e] = "done" => Landed(purchase[e.tx], e) /\ Counted(e)
           AllEffected == \A e \in Event : Effected(e)
<1>1. Init => AllEffected
  BY DEF Init
<1>2. ASSUME TypeOK, AllKeep, AllEffected, [Next]_vars
      PROVE  AllEffected'
  <2>1. Grows
    BY <1>2, StepKeeps
  <2>2. ASSUME NEW e \in Event, Landed(purchase[e.tx], e), Counted(e)
        PROVE  Landed(purchase[e.tx], e)' /\ Counted(e)'
    <3>1. e.tx \in Transaction /\ e.at \in Nat
      BY EventIs
    <3>2. purchase[e.tx] \in Rows /\ purchase[e.tx] # NoRow /\ purchase[e.tx].at \in Nat
      BY <1>2, <2>2, <3>1, ReportIs DEF TypeOK, Landed
    <3>3. /\ purchase'[e.tx] # NoRow /\ purchase'[e.tx].tx = purchase[e.tx].tx
          /\ purchase'[e.tx].at >= purchase[e.tx].at /\ purchase'[e.tx] \in Rows
      BY <2>1, <3>1, <3>2 DEF Grows
    <3>4. purchase'[e.tx].at \in Nat
      BY <3>3, ReportIs
    <3>5. Landed(purchase[e.tx], e)'
      BY <2>2, <3>1, <3>2, <3>3, <3>4 DEF Landed
    <3>6. Counted(e)'
      BY <2>1, <2>2 DEF Counted, Grows
    <3>7. QED
      BY <3>5, <3>6
  <2>3. ASSUME NEW e \in Event, inbox'[e] = "done"
        PROVE  Landed(purchase[e.tx], e) /\ Counted(e)
    <3>1. inbox \in [Event -> {"absent", "received", "orphan", "failed", "done"}]
      BY <1>2 DEF TypeOK
    <3>2. CASE inbox[e] = "done"
      BY <1>2, <3>2
    <3>3. CASE inbox[e] # "done" /\ \E w \in Worker : Finish(w)
      <4>1. PICK w \in Worker : Finish(w)
        BY <3>3
      <4>2. /\ worker[w].job \in Event
            /\ Landed(purchase[worker[w].job.tx], worker[w].job) /\ Counted(worker[w].job)
        BY <1>2, <4>1, FinishKeeps
      <4>3. inbox' = [inbox EXCEPT ![worker[w].job] = "done"]
        BY <4>1 DEF Finish
      <4>4. e = worker[w].job
        BY <2>3, <3>1, <3>3, <4>3
      <4>5. QED
        BY <4>2, <4>4
    <3>4. CASE inbox[e] # "done" /\ \E w \in Worker : MarkOrphan(w) \/ Refuse(w)
      <4>1. \E d : inbox' = [inbox EXCEPT ![d] = "orphan"] \/ inbox' = [inbox EXCEPT ![d] = "failed"]
        BY <3>4 DEF MarkOrphan, Refuse
      <4>2. QED
        BY <2>3, <3>1, <3>4, <4>1
    <3>5. CASE inbox[e] # "done" /\ \E w \in Worker, d \in Event : Deliver(w, d)
      <4>1. PICK d \in Event : \/ inbox' = inbox
                               \/ inbox' = [inbox EXCEPT ![d] = IF @ = "absent" THEN "received" ELSE @]
        BY <3>5 DEF Deliver
      <4>2. QED
        BY <2>3, <3>1, <3>5, <4>1
    <3>6. CASE UNCHANGED inbox
      BY <2>3, <3>2, <3>6
    <3>7. QED
      BY <1>2, <3>2, <3>3, <3>4, <3>5, <3>6 DEF Next, Works, Submit, LinkAccount, RepairScan, ResolveOwner,
         PreRead, Commit, ReadBack, Fulfil, Lose, Comp, Spend, vars
  <2>4. QED
    BY <2>2, <2>3
<1>3. TypeOK /\ AllKeep /\ AllEffected /\ [Next]_vars => AllEffected'
  BY <1>2
<1>4. TypeOK /\ AllEffected => FinishedIsFulfilled
  BY DEF FinishedIsFulfilled, Landed, Counted
<1>5. QED
  BY <1>1, <1>3, <1>4, InvHolds, PTL DEF Spec

-----------------------------------------------------------------------------
\* One holder's balance moves, and the books with it.
LEMMA BalanceMoves ==
  ASSUME IsFiniteSet(Subject), NEW f \in [Subject -> Nat], NEW s \in Subject, NEW n \in Int
  PROVE  SumFunctionOnSet([f EXCEPT ![s] = @ + n], Subject) = SumFunctionOnSet(f, Subject) + n
<1> DEFINE g == [f EXCEPT ![s] = @ + n]
<1>1. /\ \A x \in Subject : f[x] \in Int /\ g[x] \in Int
      /\ \A x \in Subject \ {s} : g[x] = f[x]
      /\ g[s] = f[s] + n
  OBVIOUS
<1> HIDE DEF g
<1>2. SumFunctionOnSet(g, Subject) = g[s] + SumFunctionOnSet(g, Subject \ {s})
  BY <1>1, SumTakes
<1>3. SumFunctionOnSet(f, Subject) = f[s] + SumFunctionOnSet(f, Subject \ {s})
  BY <1>1, SumTakes
<1>4. SumFunctionOnSet(g, Subject \ {s}) = SumFunctionOnSet(f, Subject \ {s})
  BY <1>1, FS_RemoveElement, SumSame
<1>5. SumFunctionOnSet(f, Subject \ {s}) \in Int
  BY <1>1, FS_RemoveElement, SumInt
<1>6. SumFunctionOnSet(g, Subject) = SumFunctionOnSet(f, Subject) + n
  BY <1>1, <1>2, <1>3, <1>4, <1>5
<1> QED
  BY <1>6 DEF g

\* applyGrants, clawbackGrants: the ledger's refs let each transaction move the books once in
\* each direction, so what was credited is held, spent or taken back, whatever handlers
\* repeat, interleave or die.
THEOREM BooksAlwaysBalance == ASSUME IsFiniteSet(Subject) PROVE Spec => []BooksBalance
<1> DEFINE Counts == IsFiniteSet(credited) /\ IsFiniteSet(debited) /\ BooksBalance
<1>1. Init => Counts
  <2>1. SUFFICES ASSUME Init PROVE Counts
    OBVIOUS
  <2>2. Cardinality(credited) = 0 /\ Cardinality(debited) = 0 /\ IsFiniteSet(credited) /\ IsFiniteSet(debited)
    BY <2>1, FS_EmptySet DEF Init
  <2>3. SumFunctionOnSet(balance, Subject) = 0
    BY <2>1, SumZero DEF Init
  <2>4. QED
    BY <2>1, <2>2, <2>3 DEF BooksBalance, Init
<1>2. ASSUME TypeOK, AllKeep, Counts, [Next]_vars
      PROVE  Counts'
  <2>1. /\ balance \in [Subject -> Nat] /\ spends \in Nat /\ credited \subseteq Transaction
        /\ Cardinality(credited) \in Nat /\ Cardinality(debited) \in Nat
    BY <1>2, FS_CardinalityType DEF TypeOK
  <2>2. SumFunctionOnSet(balance, Subject) \in Int
    <3>1. \A s \in Subject : balance[s] \in Int
      BY <2>1
    <3>2. QED
      BY <3>1, SumInt
  <2>3. CASE \E w \in Worker : Fulfil(w)
    <3>1. PICK w \in Worker : Fulfil(w)
      BY <2>3
    <3> DEFINE row == worker[w].row
               moved == IF Credits(row) THEN 1 ELSE IF Debits(row) THEN -1 ELSE 0
    <3>2. row.holder \in Subject
      <4>1. PICK k \in Handler : k = worker[w] /\ HandlerKeeps(k)
        BY <1>2, WorkerIs
      <4>2. k.pc = "fulfil"
        BY <3>1, <4>1 DEF Fulfil, Pc
      <4>3. k.row \in Rows /\ k.row # NoRow
        BY <4>1, <4>2 DEF HandlerKeeps, Stands, Landed, Handler
      <4>4. QED
        BY <4>1, <4>3, ReportIs
    <3>3. /\ credited' = IF Credits(row) THEN credited \union {row.tx} ELSE credited
          /\ debited' = IF Debits(row) THEN debited \union {row.tx} ELSE debited
          /\ balance' = [balance EXCEPT ![row.holder] = @ + moved]
          /\ spends' = spends
      BY <3>1 DEF Fulfil, counts
    <3>4. moved \in Int
      OBVIOUS
    <3>5. SumFunctionOnSet(balance', Subject) = SumFunctionOnSet(balance, Subject) + moved
      <4> HIDE DEF moved
      <4>1. SumFunctionOnSet([balance EXCEPT ![row.holder] = @ + moved], Subject) = SumFunctionOnSet(balance, Subject) + moved
        BY <2>1, <3>2, <3>4, BalanceMoves
      <4>2. QED
        BY <3>3, <4>1
    <3>6. /\ IsFiniteSet(credited')
          /\ Cardinality(credited') = Cardinality(credited) + IF Credits(row) THEN 1 ELSE 0
      <4>1. Credits(row) => row.tx \notin credited
        BY DEF Credits
      <4>2. IsFiniteSet(credited)
        BY <1>2
      <4> HIDE DEF row, Counts
      <4>3. CASE Credits(row)
        BY <2>1, <3>3, <4>1, <4>2, <4>3, FS_AddElement
      <4>4. CASE ~Credits(row)
        BY <2>1, <3>3, <4>2, <4>4
      <4>5. QED
        BY <4>3, <4>4
    <3>7. /\ IsFiniteSet(debited')
          /\ Cardinality(debited') = Cardinality(debited) + IF Debits(row) THEN 1 ELSE 0
      <4>1. Debits(row) => row.tx \notin debited
        BY DEF Debits
      <4>2. IsFiniteSet(debited)
        BY <1>2
      <4> HIDE DEF row, Counts
      <4>3. CASE Debits(row)
        BY <2>1, <3>3, <4>1, <4>2, <4>3, FS_AddElement
      <4>4. CASE ~Debits(row)
        BY <2>1, <3>3, <4>2, <4>4
      <4>5. QED
        BY <4>3, <4>4
    <3>8. ~(Credits(row) /\ Debits(row))
      BY DEF Credits, Debits, Paid, Reversed
    <3>9. QED
      BY <1>2, <2>1, <2>2, <3>3, <3>5, <3>6, <3>7, <3>8 DEF BooksBalance
  <2>4. CASE \E s \in Subject : Spend(s)
    <3>1. PICK s \in Subject : Spend(s)
      BY <2>4
    <3>2. balance' = [balance EXCEPT ![s] = @ + (-1)] /\ spends' = spends + 1 /\ UNCHANGED <<credited, debited>>
      BY <2>1, <3>1 DEF Spend
    <3>3. SumFunctionOnSet(balance', Subject) = SumFunctionOnSet(balance, Subject) + (-1)
      <4>1. -1 \in Int
        OBVIOUS
      <4>2. SumFunctionOnSet([balance EXCEPT ![s] = @ + (-1)], Subject) = SumFunctionOnSet(balance, Subject) + (-1)
        BY <2>1, <4>1, BalanceMoves
      <4>3. QED
        BY <3>2, <4>2
    <3>4. QED
      BY <1>2, <2>1, <2>2, <3>2, <3>3 DEF BooksBalance
  <2>5. CASE UNCHANGED <<books, spends>>
    BY <1>2, <2>5 DEF BooksBalance, books
  <2>6. QED
    BY <1>2, <2>3, <2>4, <2>5 DEF Next, Works, Deliver, Submit, LinkAccount, RepairScan, ResolveOwner, MarkOrphan, PreRead,
       Commit, ReadBack, Finish, Refuse, Lose, Comp, counts, vars
<1>3. TypeOK /\ AllKeep /\ Counts /\ [Next]_vars => Counts'
  BY <1>2
<1>4. QED
  BY <1>1, <1>3, InvHolds, PTL DEF Spec

-----------------------------------------------------------------------------
\* deriveEntitlement: access follows the purchases, for transactions that keep the product
\* they began with.
THEOREM AccessIsPaid ==
  ASSUME \A d, e \in Event : d.tx = e.tx => d.sku = e.sku
  PROVE  Spec => []EntitledByMoney
<1> DEFINE Untouched == comps = 0 => manual = {}
<1>1. Init => EntitledByMoney /\ Untouched
  <2>1. SUFFICES ASSUME Init PROVE EntitledByMoney /\ Untouched
    OBVIOUS
  <2>2. Granted = {}
    BY <2>1 DEF Init, Granted, Grants
  <2>3. QED
    BY <2>1, <2>2 DEF Init, EntitledByMoney
<1>2. ASSUME TypeOK, AllKeep, EntitledByMoney, Untouched, [Next]_vars
      PROVE  (EntitledByMoney /\ Untouched)'
  <2>1. CASE UNCHANGED <<purchase, active, manual, comps>>
    BY <1>2, <2>1 DEF EntitledByMoney, Granted
  <2>2. ASSUME NEW s \in Subject, NEW k \in Key, NEW grants \in BOOLEAN, Comp(s, k, grants)
        PROVE  (EntitledByMoney /\ Untouched)'
    <3>1. Granted' = Granted
      BY <2>2 DEF Comp, Granted
    <3>2. comps' # 0
      BY <1>2, <2>2 DEF Comp, TypeOK
    <3>3. active' \subseteq manual' \union Granted
      BY <1>2, <2>2 DEF Comp, EntitledByMoney
    <3>4. QED
      BY <3>1, <3>2, <3>3 DEF EntitledByMoney
  <2>3. ASSUME NEW w \in Worker, Commit(w)
        PROVE  (EntitledByMoney /\ Untouched)'
    <3>1. PICK k \in Handler : k = worker[w]
      BY <1>2, WorkerIs
    <3>2. /\ k.job \in Event /\ k.subject \in Subject /\ k.job.tx \in Transaction
          /\ UNCHANGED <<manual, comps>>
          /\ active' = Derived(k.subject, Affected(k), purchase')
          /\ purchase' = purchase \/ Writes(Row(k.job, k.subject))
      BY <1>2, <2>3, <3>1, CommitIs, EventIs DEF Commit, counts
    <3>3. PICK keys : keys = Affected(k) /\ Keys[k.job.sku] \subseteq keys
      BY DEF Affected
    <3>4. PICK mine : /\ mine = {<<k.subject, key>> : key \in keys} \ manual
                      /\ active' = (active \ mine)
                                     \union {m \in mine : \E t \in Transaction : Grants(purchase'[t], k.subject, m[2])}
      BY <3>2, <3>3 DEF Derived
    <3>5. ASSUME NEW m \in Subject \X Key, NEW t \in Transaction, purchase'[t] # purchase[t],
                 Grants(purchase[t], m[1], m[2]) \/ Grants(purchase'[t], m[1], m[2])
          PROVE  m \in mine \union manual
      <4>1. purchase \in [Transaction -> Rows] /\ \A x \in Transaction : purchase[x] # NoRow => purchase[x].tx = x
        BY <1>2 DEF TypeOK
      <4>2. PICK new : new = Row(k.job, k.subject)
        OBVIOUS
      <4>3. new.tx = k.job.tx /\ new.holder = k.subject /\ new.sku = k.job.sku
        BY <4>2 DEF Row
      <4>4. /\ t = k.job.tx /\ purchase'[t] = new
            /\ purchase[t] = NoRow \/ purchase[t].holder = k.subject
        BY <3>2, <3>5, <4>1, <4>2, <4>3 DEF Writes
      <4>5. purchase[t] # NoRow => purchase[t].sku = k.job.sku
        <5>1. ASSUME purchase[t] # NoRow
              PROVE  purchase[t].sku = k.job.sku
          <6>1. PICK d \in Event : purchase[t].tx = d.tx /\ purchase[t].sku = d.sku
            BY <4>1, <5>1, ReportIs
          <6>2. d.tx = k.job.tx
            BY <4>1, <4>4, <5>1, <6>1
          <6>3. QED
            BY <3>2, <6>1, <6>2
        <5>2. QED
          BY <5>1
      <4>6. m[1] = k.subject /\ m[2] \in Keys[k.job.sku]
        BY <3>5, <4>3, <4>4, <4>5 DEF Grants
      <4>7. m = <<k.subject, m[2]>>
        BY <4>6
      <4>8. QED
        BY <3>3, <3>4, <4>6, <4>7
    <3>6. active' \subseteq manual' \union Granted'
      <4>1. ASSUME NEW m \in active', m \notin manual
            PROVE  m \in Granted'
        <5>1. CASE m \in mine /\ \E t \in Transaction : Grants(purchase'[t], k.subject, m[2])
          <6>1. PICK key \in keys : m = <<k.subject, key>>
            BY <3>4, <5>1
          <6>2. m \in Subject \X Key
            BY <1>2, <4>1, StepKeeps DEF TypeOK
          <6>3. m[1] = k.subject
            BY <6>1
          <6>4. QED
            BY <5>1, <6>2, <6>3 DEF Granted
        <5>2. CASE m \in active \ mine
          <6>1. m \in Granted
            BY <1>2, <4>1, <5>2 DEF EntitledByMoney
          <6>2. PICK t \in Transaction : Grants(purchase[t], m[1], m[2])
            BY <6>1 DEF Granted
          <6>3. m \in Subject \X Key
            BY <6>1 DEF Granted
          <6>4. purchase'[t] = purchase[t]
            BY <3>5, <4>1, <5>2, <6>2, <6>3
          <6>5. QED
            BY <6>2, <6>3, <6>4 DEF Granted
        <5>3. QED
          BY <3>4, <4>1, <5>1, <5>2
      <4>2. QED
        BY <3>2, <4>1
    <3>7. comps = 0 => Granted' \subseteq active'
      <4>1. SUFFICES ASSUME comps = 0, NEW m \in Granted' PROVE m \in active'
        OBVIOUS
      <4>2. manual = {} /\ Granted \subseteq active
        BY <1>2, <4>1 DEF EntitledByMoney
      <4>3. PICK t \in Transaction : Grants(purchase'[t], m[1], m[2])
        BY <4>1 DEF Granted
      <4>4. m \in Subject \X Key
        BY <4>1 DEF Granted
      <4>5. CASE m \in mine
        <5>1. m[1] = k.subject
          BY <3>4, <4>5
        <5>2. QED
          BY <3>4, <4>3, <4>5, <5>1
      <4>6. CASE m \notin mine
        <5>1. purchase'[t] = purchase[t]
          BY <3>5, <4>2, <4>3, <4>4, <4>6
        <5>2. m \in Granted
          BY <4>3, <4>4, <5>1 DEF Granted
        <5>3. QED
          BY <3>4, <4>2, <4>6, <5>2
      <4>7. QED
        BY <4>5, <4>6
    <3>8. QED
      BY <1>2, <3>2, <3>6, <3>7 DEF EntitledByMoney
  <2>4. QED
    BY <1>2, <2>1, <2>2, <2>3 DEF Next, Works, Deliver, Submit, LinkAccount, RepairScan, ResolveOwner, MarkOrphan,
       PreRead, ReadBack, Fulfil, Finish, Refuse, Lose, Spend, rows, counts, vars
<1>3. TypeOK /\ AllKeep /\ EntitledByMoney /\ Untouched /\ [Next]_vars => (EntitledByMoney /\ Untouched)'
  BY <1>2
<1>4. QED
  BY <1>1, <1>3, InvHolds, PTL DEF Spec
=============================================================================
