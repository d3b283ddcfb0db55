------------------------------ MODULE LedgerProofs ------------------------------
(***************************************************************************)
(* Theorems about the ledger for every set of users, currencies, refs,     *)
(* amounts and callers.                                                    *)
(*                                                                         *)
(* The argument is in two layers. The lemmas of the first say what a batch *)
(* or a purge does to the three tables, whoever issues it: they mention no *)
(* variable. The second layer checks that every action issues a batch the  *)
(* lemmas are about, from locals that are what the call read.              *)
(*                                                                         *)
(* The last part is about settlement, correction and audit: the log and    *)
(* the holds fit together row by row (LogFits), and what a call read of a  *)
(* row stands until it uses it (ReadStands), because no row but a hold's   *)
(* status ever changes. It is for as long as nobody is erased: a purge     *)
(* frees refs that a call in progress may still be about.                  *)
(***************************************************************************)
EXTENDS LedgerProperties, Induction, TLAPS

EntryRow == [account : Account, kind : Kind, amount : Nat, related : AnyRef \cup {NoRef}]

HoldRow == [account : Account, amount : Amount, status : Status]

\* The tables are typed, and only the caller's own refs name an entry that can be reversed,
\* so that the `:reverse` ref of a reversal is always one suffix onto a caller's ref.
DataOK(d) ==
  /\ DOMAIN d.accounts \subseteq Account
  /\ \A a \in DOMAIN d.accounts : d.accounts[a] \in [balance : Int, held : Int]
  /\ DOMAIN d.entries \subseteq AnyRef
  /\ \A r \in DOMAIN d.entries : d.entries[r] \in EntryRow /\ (r \notin Ref => ~Reversible(d.entries[r]))
  /\ DOMAIN d.holds \subseteq Ref
  /\ \A r \in DOMAIN d.holds : d.holds[r] \in HoldRow

\* What every batch of the ledger is made of.
BatchOK(b) ==
  /\ b.opens \subseteq Account
  /\ DOMAIN b.entries \subseteq AnyRef
  /\ \A r \in DOMAIN b.entries : b.entries[r] \in EntryRow /\ (r \notin Ref => ~Reversible(b.entries[r]))
  /\ DOMAIN b.places \subseteq Ref
  /\ \A r \in DOMAIN b.places : b.places[r] \in HoldRow
  /\ \A r \in DOMAIN b.settles : b.settles[r] \in Status
  /\ b.first.balance \in Int /\ b.first.held \in Int
  /\ b.second.balance \in Int /\ b.second.held \in Int

Calls == [stage : Stage, op : Op, plane : Plane, ref : Ref, account : Account,
          kind : Kind, amount : Nat, taken : Nat]

CallsOK == call \in [Caller -> Calls \cup {NoCall}]

TypeInv ==
  /\ DataOK(db)
  /\ CallsOK
  /\ DOMAIN audited \subseteq AnyRef \X Account
  /\ erased \subseteq Erasable

-----------------------------------------------------------------------------
(* Batches *)

\* A batch committed by run keeps the tables typed.
LEMMA RunTyped ==
  ASSUME NEW d, NEW b, DataOK(d), BatchOK(b)
  PROVE  DataOK(Run(d, b))
<1>1. SUFFICES DataOK(Applied(d, b))
  BY DEF Run
<1>2. /\ DOMAIN AfterSecond(d, b) \subseteq Account
      /\ \A a \in DOMAIN AfterSecond(d, b) : AfterSecond(d, b)[a] \in [balance : Int, held : Int]
  <2>1. LET opened == EnsureAccounts(d.accounts, b.opens)
        IN /\ DOMAIN opened \subseteq Account
           /\ \A a \in DOMAIN opened : opened[a] \in [balance : Int, held : Int]
    BY DEF DataOK, BatchOK, EnsureAccounts, Zero
  <2>2. /\ DOMAIN AfterFirst(d, b) \subseteq Account
        /\ \A a \in DOMAIN AfterFirst(d, b) : AfterFirst(d, b)[a] \in [balance : Int, held : Int]
    BY <2>1 DEF BatchOK, AfterFirst, Adjust
  <2>3. QED
    BY <2>2 DEF BatchOK, AfterSecond, Adjust
<1>3. /\ DOMAIN Insert(d.entries, b.entries) \subseteq AnyRef
      /\ \A r \in DOMAIN Insert(d.entries, b.entries) :
           /\ Insert(d.entries, b.entries)[r] \in EntryRow
           /\ r \notin Ref => ~Reversible(Insert(d.entries, b.entries)[r])
  BY DEF DataOK, BatchOK, Insert
<1>4. /\ DOMAIN SettleHold(d.holds, b.settles) \subseteq Ref
      /\ \A r \in DOMAIN SettleHold(d.holds, b.settles) : SettleHold(d.holds, b.settles)[r] \in HoldRow
  BY DEF DataOK, BatchOK, SettleHold, HoldRow
<1>5. /\ DOMAIN Insert(SettleHold(d.holds, b.settles), b.places) \subseteq Ref
      /\ \A r \in DOMAIN Insert(SettleHold(d.holds, b.settles), b.places) :
           Insert(SettleHold(d.holds, b.settles), b.places)[r] \in HoldRow
  BY <1>4 DEF BatchOK, Insert
<1>6. QED
  BY <1>2, <1>3, <1>5 DEF DataOK, Applied

\* A purge of one person keeps the tables typed.
LEMMA PurgedTyped ==
  ASSUME NEW d, NEW u, DataOK(d)
  PROVE  DataOK(Purged(d, u))
  BY DEF DataOK, Purged

LEMMA PostOK ==
  ASSUME NEW kind \in {"credit", "debit"}, NEW a \in Account, NEW n \in Nat, NEW ref \in Ref
  PROVE  BatchOK(PostBatch(kind, a, n, ref))
  BY DEF BatchOK, PostBatch, Row, NoRows, NewEntry, EntryRow, Kind, Move, Signed, AnyRef

LEMMA TransferOK ==
  ASSUME NEW from \in Account, NEW to \in Account, NEW n \in Nat, NEW ref \in Ref
  PROVE  BatchOK(TransferBatch(from, to, n, ref))
  BY DEF BatchOK, TransferBatch, Row, NoRows, NewEntry, EntryRow, Kind, Move, AnyRef, Derived, Suffix,
         Insert, Reversible

LEMMA HoldOK ==
  ASSUME NEW a \in Account, NEW n \in Amount, NEW ref \in Ref
  PROVE  BatchOK(HoldBatch(a, n, ref))
  BY AmountAssumption
  DEF BatchOK, HoldBatch, Row, NoRows, NewEntry, NewHold, EntryRow, HoldRow, Kind, Status, Move, AnyRef

LEMMA ReverseOK ==
  ASSUME NEW kind \in Kind, NEW a \in Account, NEW n \in Nat, NEW ref \in Ref
  PROVE  BatchOK(ReverseBatch(ref, kind, a, n))
  BY NoRefAssumption
  DEF BatchOK, ReverseBatch, Row, NoRows, NewEntry, EntryRow, Kind, Move, Signed, AnyRef, Derived, Suffix,
      Reversible

LEMMA ReleaseOK ==
  ASSUME NEW a \in Account, NEW n \in Nat, NEW ref \in Ref
  PROVE  BatchOK(ReleaseBatch(ref, a, n))
  BY DEF BatchOK, ReleaseBatch, Row, NoRows, NewEntry, EntryRow, Kind, Status, Move, AnyRef, Derived, Suffix,
         Reversible

LEMMA CaptureOK ==
  ASSUME NEW a \in Account, NEW held \in Nat, NEW n \in Nat, NEW ref \in Ref
  PROVE  BatchOK(CaptureBatch(ref, a, held, n))
  BY DEF BatchOK, CaptureBatch, Row, NoRows, NewEntry, EntryRow, Kind, Status, Move, AnyRef, Derived, Suffix,
         Reversible

\* A committed batch leaves every account solvent: its CHECK ran on the rows as the last UPDATE left them.
LEMMA RunSolvent ==
  ASSUME NEW d, NEW b, \A a \in DOMAIN d.accounts : SolventRow(d.accounts[a])
  PROVE  \A a \in DOMAIN Run(d, b).accounts : SolventRow(Run(d, b).accounts[a])
<1>1. CASE Verdict(d, b) = "applied"
  <2>1. Run(d, b).accounts = AfterSecond(d, b)
    BY <1>1 DEF Run, Applied
  <2>2. ~Overdrawn(d, b)
    BY <1>1 DEF Verdict
  <2>3. QED
    BY <2>1, <2>2 DEF Overdrawn
<1>2. CASE Verdict(d, b) # "applied"
  BY <1>2 DEF Run
<1>3. QED
  BY <1>1, <1>2

-----------------------------------------------------------------------------
(* Steps *)

\* However a batch ends, its call is over or goes on with typed locals.
LEMMA IssueTyped ==
  ASSUME TypeInv, NEW c \in Caller, NEW w \in Calls, NEW b, BatchOK(b), Issue(c, w, b)
  PROVE  TypeInv'
<1>1. DataOK(db)'
  BY RunTyped DEF TypeInv, Issue
<1>2. At(w, "moved") \in Calls /\ At(w, "aborted") \in Calls
  BY DEF At, Calls, Stage
<1>3. CallsOK'
  BY <1>2 DEF TypeInv, CallsOK, Issue, Answer, GoOn, Refuse
<1>4. QED
  BY <1>1, <1>3 DEF TypeInv, Issue

LEMMA LocalsTyped ==
  ASSUME NEW stage \in Stage, NEW op \in Op, NEW plane \in Plane, NEW ref \in Ref, NEW a \in Account,
         NEW kind \in Kind, NEW n \in Nat, NEW taken \in Nat
  PROVE  Locals(stage, op, plane, ref, a, kind, n, taken) \in Calls
  BY DEF Locals, Calls

\* A call in progress has locals, whatever its stage.
LEMMA InProgress ==
  ASSUME TypeInv, NEW c \in Caller, call[c] # NoCall
  PROVE  call[c] \in Calls
  BY DEF TypeInv, CallsOK

LEMMA StageInProgress ==
  ASSUME TypeInv, NEW c \in Caller, call[c].stage \in Stage
  PROVE  call[c] \in Calls
<1>1. call[c] # NoCall
  BY DEF NoCall, Stage
<1>2. QED
  BY <1>1, InProgress

LEMMA InitTyped == Init => TypeInv
  BY DEF Init, TypeInv, DataOK, CallsOK, EmptyLedger, NoRows

LEMMA NextTyped == TypeInv /\ [Next]_vars => TypeInv'
<1> SUFFICES ASSUME TypeInv, [Next]_vars
             PROVE  TypeInv'
  OBVIOUS
<1>1. ASSUME NEW c \in Caller, NEW plane \in Surface, NEW kind \in {"credit", "debit"},
             NEW a \in Account, NEW n \in Amount, NEW ref \in Ref, Post(c, plane, kind, a, n, ref)
      PROVE  TypeInv'
  <2>1. n \in Nat
    BY AmountAssumption
  <2>2. Locals("read", kind, plane, ref, a, kind, n, n) \in Calls
    BY <2>1, LocalsTyped, SurfaceAssumption DEF Stage, Op, Plane, Kind
  <2>3. QED
    BY <1>1, <2>1, <2>2, PostOK, IssueTyped DEF Post
<1>2. ASSUME NEW c \in Caller, NEW from \in Account, NEW to \in Account, NEW n \in Amount, NEW ref \in Ref,
             Transfer(c, from, to, n, ref)
      PROVE  TypeInv'
  <2>1. n \in Nat
    BY AmountAssumption
  <2>2. Locals("read", "transfer", "inProcess", ref, from, "transfer_out", n, n) \in Calls
    BY <2>1, LocalsTyped DEF Stage, Op, Plane, Kind
  <2>3. QED
    BY <1>2, <2>1, <2>2, TransferOK, IssueTyped DEF Transfer
<1>3. ASSUME NEW c \in Caller, NEW a \in Account, NEW n \in Amount, NEW ref \in Ref, PlaceHold(c, a, n, ref)
      PROVE  TypeInv'
  <2>1. n \in Nat
    BY AmountAssumption
  <2>2. Locals("read", "hold", "inProcess", ref, a, "hold", n, n) \in Calls
    BY <2>1, LocalsTyped DEF Stage, Op, Plane, Kind
  <2>3. QED
    BY <1>3, <2>2, HoldOK, IssueTyped DEF PlaceHold
<1>4. ASSUME NEW c \in Caller, NEW named \in Named, NEW ref \in AnyRef, ReadEntry(c, named, ref)
      PROVE  TypeInv'
  <2>1. UNCHANGED <<db, audited, erased>>
    BY <1>4 DEF ReadEntry
  <2>2. CASE call' = [call EXCEPT ![c] = NoCall]
    BY <2>1, <2>2 DEF TypeInv, CallsOK
  <2>3. CASE /\ ref \in DOMAIN db.entries /\ Reversible(db.entries[ref])
             /\ GoOn(c, Locals("read", "reverse", PlaneOf(named), ref, db.entries[ref].account,
                               Opposite(db.entries[ref].kind), db.entries[ref].amount,
                               db.entries[ref].amount), "read")
    <3>1. db.entries[ref] \in EntryRow /\ ref \in Ref
      BY <2>3 DEF TypeInv, DataOK
    <3>2. Opposite(db.entries[ref].kind) \in Kind /\ PlaneOf(named) \in Plane
      BY DEF Opposite, Kind, PlaneOf, Plane
    <3>3. Locals("read", "reverse", PlaneOf(named), ref, db.entries[ref].account,
                 Opposite(db.entries[ref].kind), db.entries[ref].amount, db.entries[ref].amount) \in Calls
      BY <3>1, <3>2, LocalsTyped DEF Stage, Op, EntryRow
    <3>4. CallsOK'
      BY <2>3, <3>3 DEF GoOn, At, Calls, Stage, TypeInv, CallsOK
    <3>5. QED
      BY <2>1, <3>4 DEF TypeInv
  <2>4. QED
    BY <1>4, <2>2, <2>3 DEF ReadEntry, Refuse
<1>5. ASSUME NEW c \in Caller, NEW named \in Named, NEW ref \in Ref, ReadHoldToRelease(c, named, ref)
      PROVE  TypeInv'
  <2> DEFINE w == Locals("read", "release", PlaneOf(named), ref, db.holds[ref].account, "release",
                         db.holds[ref].amount, db.holds[ref].amount)
  <2>1. UNCHANGED <<db, audited, erased>>
    BY <1>5 DEF ReadHoldToRelease
  <2>2. CASE call' = [call EXCEPT ![c] = NoCall]
    BY <2>1, <2>2 DEF TypeInv, CallsOK
  <2>3. CASE ref \in DOMAIN db.holds /\ GoOn(c, w, "read")
    <3>1. db.holds[ref] \in HoldRow
      BY <2>3 DEF TypeInv, DataOK
    <3>2. db.holds[ref].account \in Account /\ db.holds[ref].amount \in Nat
      BY <3>1, AmountAssumption DEF HoldRow
    <3>3. PlaneOf(named) \in Plane
      BY DEF PlaneOf, Plane
    <3>4. w \in Calls
      BY <3>2, <3>3, LocalsTyped DEF Stage, Op, Kind
    <3>5. CallsOK'
      BY <2>3, <3>4 DEF GoOn, At, Calls, Stage, TypeInv, CallsOK
    <3>6. QED
      BY <2>1, <3>5 DEF TypeInv
  <2>4. QED
    BY <1>5, <2>2, <2>3 DEF ReadHoldToRelease, Refuse, Answer
<1>6. ASSUME NEW c \in Caller, NEW ref \in Ref, NEW n \in Amount \cup {0}, ReadHoldToCapture(c, ref, n)
      PROVE  TypeInv'
  <2> DEFINE w == Locals("read", "capture", "inProcess", ref, db.holds[ref].account, "capture",
                         db.holds[ref].amount, n)
  <2>1. UNCHANGED <<db, audited, erased>>
    BY <1>6 DEF ReadHoldToCapture
  <2>2. CASE call' = [call EXCEPT ![c] = NoCall]
    BY <2>1, <2>2 DEF TypeInv, CallsOK
  <2>3. CASE ref \in DOMAIN db.holds /\ GoOn(c, w, "read")
    <3>1. db.holds[ref] \in HoldRow
      BY <2>3 DEF TypeInv, DataOK
    <3>2. db.holds[ref].account \in Account /\ db.holds[ref].amount \in Nat /\ n \in Nat
      BY <3>1, AmountAssumption DEF HoldRow
    <3>3. w \in Calls
      BY <3>2, LocalsTyped DEF Stage, Op, Kind, Plane
    <3>4. CallsOK'
      BY <2>3, <3>3 DEF GoOn, At, Calls, Stage, TypeInv, CallsOK
    <3>5. QED
      BY <2>1, <3>4 DEF TypeInv
  <2>4. QED
    BY <1>6, <2>2, <2>3 DEF ReadHoldToCapture, Refuse, Answer
<1>7. ASSUME NEW c \in Caller, CommitReversal(c)
      PROVE  TypeInv'
  <2>1. call[c] \in Calls
    BY <1>7, StageInProgress DEF CommitReversal, Stage
  <2>2. BatchOK(ReverseBatch(call[c].ref, call[c].kind, call[c].account, call[c].amount))
    BY <2>1, ReverseOK DEF Calls
  <2>3. QED
    BY <1>7, <2>1, <2>2, IssueTyped DEF CommitReversal
<1>8. ASSUME NEW c \in Caller, CommitRelease(c)
      PROVE  TypeInv'
  <2>1. call[c] \in Calls
    BY <1>8, StageInProgress DEF CommitRelease, Stage
  <2>2. BatchOK(ReleaseBatch(call[c].ref, call[c].account, call[c].amount))
    BY <2>1, ReleaseOK DEF Calls
  <2>3. QED
    BY <1>8, <2>1, <2>2, IssueTyped DEF CommitRelease
<1>9. ASSUME NEW c \in Caller, CommitCapture(c)
      PROVE  TypeInv'
  <2>1. call[c] \in Calls
    BY <1>9, StageInProgress DEF CommitCapture, Stage
  <2>2. BatchOK(CaptureBatch(call[c].ref, call[c].account, call[c].amount, call[c].taken))
    BY <2>1, CaptureOK DEF Calls
  <2>3. QED
    BY <1>9, <2>1, <2>2, IssueTyped DEF CommitCapture
<1>10. ASSUME NEW c \in Caller, ProveReplay(c) \/ RereadHold(c)
       PROVE  TypeInv'
  <2>1. call[c] \in Calls
    BY <1>10, StageInProgress DEF ProveReplay, RereadHold, Stage
  <2>2. At(call[c], "raced") \in Calls
    BY <2>1 DEF At, Calls, Stage
  <2>3. QED
    BY <1>10, <2>2 DEF ProveReplay, RereadHold, Refuse, Answer, GoOn, TypeInv, CallsOK
<1>11. ASSUME NEW c \in Caller, EmitAudit(c)
       PROVE  TypeInv'
  <2>1. call[c] \in Calls
    BY <1>11, StageInProgress DEF EmitAudit, Stage
  <2>2. <<EntryRef(call[c]), call[c].account>> \in AnyRef \X Account
    BY <2>1 DEF EntryRef, Calls, AnyRef, Derived, Suffix
  <2>3. DOMAIN audited' \subseteq AnyRef \X Account
    BY <1>11, <2>2 DEF EmitAudit, TypeInv
  <2>4. QED
    BY <1>11, <2>3 DEF EmitAudit, Answer, TypeInv, CallsOK
<1>12. ASSUME NEW c \in Caller, Crash(c)
       PROVE  TypeInv'
  BY <1>12 DEF Crash, TypeInv, CallsOK
<1>13. ASSUME NEW u \in Erasable, Purge(u)
       PROVE  TypeInv'
  BY <1>13, PurgedTyped DEF Purge, TypeInv, CallsOK
<1>14. CASE UNCHANGED vars
  BY <1>14 DEF vars, TypeInv, CallsOK
<1>15. QED
  BY <1>1, <1>2, <1>3, <1>4, <1>5, <1>6, <1>7, <1>8, <1>9, <1>10, <1>11, <1>12, <1>13, <1>14
     DEF Next, Write, Proceed

(***************************************************************************)
(* The state keeps its types: every call in progress has the locals of a   *)
(* write the code can issue, whichever callers crash or are raced and      *)
(* whoever is purged meanwhile.                                            *)
(***************************************************************************)
THEOREM LedgerTypes == Spec => []TypeOK
<1>1. TypeInv => TypeOK
  BY DEF TypeInv, DataOK, CallsOK, TypeOK, EntryRow, HoldRow, Calls
<1>2. QED
  BY <1>1, InitTyped, NextTyped, PTL DEF Spec

-----------------------------------------------------------------------------
(* What the CHECK keeps *)

SolventDb == \A a \in DOMAIN db.accounts : SolventRow(db.accounts[a])

LEMMA IssueRuns ==
  ASSUME NEW c, NEW w, NEW b, Issue(c, w, b)
  PROVE  \E x : db' = Run(db, x)
  BY DEF Issue

\* Only Issue and Purge touch the tables, and every batch goes through run.
LEMMA DbSteps ==
  ASSUME [Next]_vars
  PROVE  \/ UNCHANGED db
         \/ \E b : db' = Run(db, b)
         \/ \E u \in Erasable : Purge(u)
<1>1. ASSUME NEW c \in Caller, Write(c)
      PROVE  UNCHANGED db \/ \E b : db' = Run(db, b)
  <2>1. ASSUME NEW plane, NEW kind, NEW a, NEW n, NEW ref, Post(c, plane, kind, a, n, ref)
        PROVE  \E b : db' = Run(db, b)
    BY <2>1, IssueRuns DEF Post
  <2>2. ASSUME NEW from, NEW to, NEW n, NEW ref, Transfer(c, from, to, n, ref)
        PROVE  \E b : db' = Run(db, b)
    BY <2>2, IssueRuns DEF Transfer
  <2>3. ASSUME NEW a, NEW n, NEW ref, PlaceHold(c, a, n, ref)
        PROVE  \E b : db' = Run(db, b)
    BY <2>3, IssueRuns DEF PlaceHold
  <2>4. ASSUME NEW named, NEW ref, ReadEntry(c, named, ref) \/ ReadHoldToRelease(c, named, ref)
        PROVE  UNCHANGED db
    BY <2>4 DEF ReadEntry, ReadHoldToRelease
  <2>5. ASSUME NEW ref, NEW n, ReadHoldToCapture(c, ref, n)
        PROVE  UNCHANGED db
    BY <2>5 DEF ReadHoldToCapture
  <2>6. QED
    BY <1>1, <2>1, <2>2, <2>3, <2>4, <2>5 DEF Write
<1>2. ASSUME NEW c \in Caller, CommitReversal(c) \/ CommitRelease(c) \/ CommitCapture(c)
      PROVE  \E b : db' = Run(db, b)
  BY <1>2, IssueRuns DEF CommitReversal, CommitRelease, CommitCapture
<1>3. ASSUME NEW c \in Caller, ProveReplay(c) \/ RereadHold(c) \/ EmitAudit(c) \/ Crash(c)
      PROVE  UNCHANGED db
  BY <1>3 DEF ProveReplay, RereadHold, EmitAudit, Crash
<1>4. CASE UNCHANGED vars
  BY <1>4 DEF vars
<1>5. QED
  BY <1>1, <1>2, <1>3, <1>4 DEF Next, Proceed

\* What the CHECK of each batch leaves, every later batch finds.
LEMMA NextSolvent == SolventDb /\ [Next]_vars => SolventDb'
<1> SUFFICES ASSUME SolventDb, [Next]_vars
             PROVE  SolventDb'
  OBVIOUS
<1>1. CASE UNCHANGED db
  BY <1>1 DEF SolventDb
<1>2. ASSUME NEW b, db' = Run(db, b)
      PROVE  SolventDb'
  BY <1>2, RunSolvent DEF SolventDb
<1>3. ASSUME NEW u \in Erasable, Purge(u)
      PROVE  SolventDb'
  BY <1>3 DEF SolventDb, Purge, Purged
<1>4. QED
  BY <1>1, <1>2, <1>3, DbSteps

-----------------------------------------------------------------------------
(* The log *)

(***************************************************************************)
(* No step of any caller changes or removes an entry; only a purge does,   *)
(* and only the entries of the person it erases.                           *)
(***************************************************************************)
THEOREM LedgerAppendOnly == Spec => AppendOnly
<1> DEFINE Kept == \A r \in DOMAIN db.entries :
                     Owner(db.entries[r].account) \notin erased' =>
                       r \in DOMAIN db'.entries /\ db'.entries[r] = db.entries[r]
<1>1. ASSUME [Next]_vars
      PROVE  Kept
  <2>1. CASE UNCHANGED db
    BY <2>1
  <2>2. ASSUME NEW b, db' = Run(db, b)
        PROVE  Kept
    BY <2>2 DEF Run, Applied, Insert
  <2>3. ASSUME NEW u \in Erasable, Purge(u)
        PROVE  Kept
    BY <2>3 DEF Purge, Purged
  <2>4. QED
    BY <1>1, <2>1, <2>2, <2>3, DbSteps
<1>2. QED
  BY <1>1, PTL DEF Spec, AppendOnly

-----------------------------------------------------------------------------
(* Settlement, correction and the audit trail, while nobody is erased *)

\* An entry is under the ref its kind gives it. A settling entry is beside a hold with the status
\* it left, and a correction beside the entry it mirrors.
EntryFits(d, r) ==
  LET e == d.entries[r]
  IN /\ e.kind \in {"release", "capture"} =>
          /\ r = Derived(e.related, "resolve") /\ e.related \in DOMAIN d.holds
          /\ d.holds[e.related].account = e.account
          /\ d.holds[e.related].status = IF e.kind = "release" THEN "released" ELSE "captured"
     /\ e.kind \in {"credit", "debit"} /\ e.related # NoRef =>
          /\ r = Derived(e.related, "reverse") /\ e.related \in DOMAIN d.entries
          /\ Reversible(d.entries[e.related])
          /\ e = [d.entries[e.related] EXCEPT !.kind = Opposite(@), !.related = e.related]
     /\ e.kind \in {"transfer_in", "transfer_out"} => \E x \in Ref : r \in {Derived(x, "in"), Derived(x, "out")}
     /\ e.kind = "hold" => e.related = NoRef

\* A hold that is not open has its settling entry.
HoldFits(d, h) ==
  d.holds[h].status # "open" =>
    /\ Derived(h, "resolve") \in DOMAIN d.entries
    /\ d.entries[Derived(h, "resolve")].kind \in {"release", "capture"}
    /\ d.entries[Derived(h, "resolve")].related = h

LogFits(d) ==
  /\ \A r \in DOMAIN d.entries : EntryFits(d, r)
  /\ \A h \in DOMAIN d.holds : HoldFits(d, h)

\* What a call read of the row it is about stands, whatever else of the row has changed.
ReadStands(d, w) ==
  /\ w.op = "reverse" =>
       /\ w.ref \in DOMAIN d.entries /\ Reversible(d.entries[w.ref])
       /\ w.account = d.entries[w.ref].account /\ w.amount = d.entries[w.ref].amount
       /\ w.kind = Opposite(d.entries[w.ref].kind)
  /\ w.op \in {"release", "capture"} =>
       w.ref \in DOMAIN d.holds /\ d.holds[w.ref].account = w.account /\ d.holds[w.ref].amount = w.amount
  /\ w.op = "capture" => w.taken <= w.amount
  /\ w.op \in {"transfer", "hold", "capture"} => w.plane = "inProcess"
  /\ w.stage = "raced" => OwnDerived(d, EntryRef(w), w.ref, w.account) /\ w.op = "release"

ReadsStand == \A c \in Caller : call[c] # NoCall => ReadStands(db, call[c])

\* A movement still to be recorded is in the log, is not recorded, and is one call's to record.
MovedWaits ==
  \A c \in Caller : call[c].stage = "moved" =>
    /\ EntryRef(call[c]) \in DOMAIN db.entries
    /\ db.entries[EntryRef(call[c])].account = call[c].account
    /\ <<EntryRef(call[c]), call[c].account>> \notin DOMAIN audited
    /\ \A k \in Caller : call[k].stage = "moved" /\ EntryRef(call[k]) = EntryRef(call[c]) => k = c


-----------------------------------------------------------------------------

\* What batches do to a log: rows stay, a hold stays its account's, and is settled for good.
Grown(d, e) ==
  /\ \A r \in DOMAIN d.entries : r \in DOMAIN e.entries /\ e.entries[r] = d.entries[r]
  /\ \A h \in DOMAIN d.holds :
       /\ h \in DOMAIN e.holds /\ e.holds[h].account = d.holds[h].account /\ e.holds[h].amount = d.holds[h].amount
       /\ d.holds[h].status # "open" => e.holds[h].status = d.holds[h].status

LEMMA RunGrows ==
  ASSUME NEW d, NEW b, DataOK(d)
  PROVE  Grown(d, Run(d, b))
<1>1. CASE Run(d, b) = d
  BY <1>1 DEF Grown
<1>2. CASE Run(d, b) = Applied(d, b)
  <2>1. ASSUME NEW r \in DOMAIN d.entries
        PROVE  r \in DOMAIN Run(d, b).entries /\ Run(d, b).entries[r] = d.entries[r]
    BY <1>2, <2>1 DEF Applied, Insert
  <2>2. ASSUME NEW h \in DOMAIN d.holds
        PROVE  /\ h \in DOMAIN Run(d, b).holds
               /\ Run(d, b).holds[h].account = d.holds[h].account /\ Run(d, b).holds[h].amount = d.holds[h].amount
               /\ d.holds[h].status # "open" => Run(d, b).holds[h].status = d.holds[h].status
    <3>1. h \in DOMAIN Run(d, b).holds /\ Run(d, b).holds[h] = SettleHold(d.holds, b.settles)[h]
      BY <1>2, <2>2 DEF Applied, Insert, SettleHold
    <3>2. d.holds[h] \in HoldRow
      BY <2>2 DEF DataOK
    <3>3. QED
      BY <2>2, <3>1, <3>2 DEF SettleHold, HoldRow
  <2>3. QED
    BY <2>1, <2>2 DEF Grown
<1>3. QED
  BY <1>1, <1>2 DEF Run

LEMMA ReadStandsGrown ==
  ASSUME NEW d, NEW e, NEW w, ReadStands(d, w), Grown(d, e)
  PROVE  ReadStands(e, w)
  BY DEF ReadStands, Grown, OwnDerived, Reversible

LEMMA EntryFitsGrown ==
  ASSUME NEW d, NEW e, NEW r \in DOMAIN d.entries, EntryFits(d, r), Grown(d, e)
  PROVE  EntryFits(e, r)
<1>1. e.entries[r] = d.entries[r]
  BY DEF Grown
<1>2. ASSUME d.entries[r].kind \in {"release", "capture"}
      PROVE  LET x == d.entries[r]
             IN /\ r = Derived(x.related, "resolve") /\ x.related \in DOMAIN e.holds
                /\ e.holds[x.related].account = x.account
                /\ e.holds[x.related].status = IF x.kind = "release" THEN "released" ELSE "captured"
  BY <1>2 DEF EntryFits, Grown
<1>3. ASSUME d.entries[r].kind \in {"credit", "debit"}, d.entries[r].related # NoRef
      PROVE  LET x == d.entries[r]
             IN /\ r = Derived(x.related, "reverse") /\ x.related \in DOMAIN e.entries
                /\ Reversible(e.entries[x.related])
                /\ x = [e.entries[x.related] EXCEPT !.kind = Opposite(@), !.related = x.related]
  <2>1. d.entries[r].related \in DOMAIN d.entries
    BY <1>3 DEF EntryFits
  <2>2. e.entries[d.entries[r].related] = d.entries[d.entries[r].related]
    BY <2>1 DEF Grown
  <2>3. QED
    BY <1>3, <2>1, <2>2 DEF EntryFits, Grown
<1>4. QED
  BY <1>1, <1>2, <1>3 DEF EntryFits

LEMMA HoldFitsGrown ==
  ASSUME NEW d, NEW e, NEW h \in DOMAIN d.holds, HoldFits(d, h), Grown(d, e),
         e.holds[h].status = d.holds[h].status
  PROVE  HoldFits(e, h)
  BY DEF HoldFits, Grown

\* What a batch has to add for the log to fit together after it, if it is applied.
Admissible(d, b) ==
  Verdict(d, b) = "applied" =>
    /\ \A r \in DOMAIN b.entries : EntryFits(Applied(d, b), r)
    /\ \A h \in DOMAIN b.places : b.places[h].status = "open"
    /\ \A h \in DOMAIN b.settles : h \in DOMAIN d.holds => HoldFits(Applied(d, b), h)

LEMMA AdmissibleFits ==
  ASSUME NEW d, NEW b, DataOK(d), LogFits(d), Admissible(d, b)
  PROVE  LogFits(Run(d, b))
<1>1. CASE Run(d, b) = d
  BY <1>1
<1>2. CASE Verdict(d, b) = "applied"
  <2>1. Run(d, b) = Applied(d, b) /\ Grown(d, Applied(d, b))
    BY <1>2, RunGrows DEF Run
  <2>2. ASSUME NEW r \in DOMAIN Applied(d, b).entries
        PROVE  EntryFits(Applied(d, b), r)
    <3>1. CASE r \in DOMAIN d.entries
      BY <2>1, <3>1, EntryFitsGrown DEF LogFits
    <3>2. CASE r \in DOMAIN b.entries
      BY <1>2, <3>2 DEF Admissible
    <3>3. QED
      BY <2>2, <3>1, <3>2 DEF Applied, Insert
  <2>3. ASSUME NEW h \in DOMAIN Applied(d, b).holds
        PROVE  HoldFits(Applied(d, b), h)
    <3>1. CASE h \in DOMAIN d.holds /\ h \in DOMAIN b.settles
      BY <1>2, <3>1 DEF Admissible
    <3>2. CASE h \in DOMAIN d.holds /\ h \notin DOMAIN b.settles
      <4>1. Applied(d, b).holds[h] = d.holds[h]
        BY <3>2 DEF Applied, Insert, SettleHold
      <4>2. QED
        BY <2>1, <3>2, <4>1, HoldFitsGrown DEF LogFits
    <3>3. CASE h \notin DOMAIN d.holds
      <4>1. h \in DOMAIN b.places /\ Applied(d, b).holds[h] = b.places[h]
        BY <2>3, <3>3 DEF Applied, Insert, SettleHold
      <4>2. QED
        BY <1>2, <4>1 DEF Admissible, HoldFits
    <3>4. QED
      BY <3>1, <3>2, <3>3
  <2>4. QED
    BY <2>1, <2>2, <2>3 DEF LogFits
<1>3. QED
  BY <1>1, <1>2 DEF Run

LEMMA AddedEntry ==
  ASSUME NEW d, NEW b, NEW r \in DOMAIN b.entries, Verdict(d, b) = "applied"
  PROVE  /\ r \notin DOMAIN d.entries /\ r \in DOMAIN Applied(d, b).entries
         /\ Applied(d, b).entries[r] = b.entries[r]
  BY DEF Verdict, Duplicate, Applied, Insert

LEMMA PostAdmissible ==
  ASSUME NEW d, NEW kind \in {"credit", "debit"}, NEW a, NEW n, NEW ref
  PROVE  Admissible(d, PostBatch(kind, a, n, ref))
<1> DEFINE b == PostBatch(kind, a, n, ref)
<1>1. /\ DOMAIN b.entries = {ref} /\ DOMAIN b.places = {} /\ DOMAIN b.settles = {}
      /\ b.entries[ref].kind = kind /\ b.entries[ref].related = NoRef
  BY DEF PostBatch, Row, NoRows, NewEntry
<1>2. Verdict(d, b) = "applied" => Applied(d, b).entries[ref] = b.entries[ref]
  BY <1>1, AddedEntry
<1> HIDE DEF b
<1>3. Verdict(d, b) = "applied" => EntryFits(Applied(d, b), ref)
  BY <1>1, <1>2 DEF EntryFits
<1>4. Admissible(d, b)
  BY <1>1, <1>3 DEF Admissible
<1>5. QED
  BY <1>4 DEF b

LEMMA TransferAdmissible ==
  ASSUME NEW d, NEW from, NEW to, NEW n, NEW ref \in Ref
  PROVE  Admissible(d, TransferBatch(from, to, n, ref))
<1> DEFINE b == TransferBatch(from, to, n, ref)
           out == Derived(ref, "out")
           in == Derived(ref, "in")
<1>1. /\ DOMAIN b.entries = {out, in} /\ DOMAIN b.places = {} /\ DOMAIN b.settles = {}
      /\ \A r \in {out, in} : b.entries[r].kind \in {"transfer_out", "transfer_in"}
  BY DEF TransferBatch, Row, NoRows, NewEntry, Insert, Derived
<1>2. \A r \in {out, in} : Verdict(d, b) = "applied" => Applied(d, b).entries[r] = b.entries[r]
  BY <1>1, AddedEntry
<1> HIDE DEF b
<1>3. Verdict(d, b) = "applied" => \A r \in {out, in} : EntryFits(Applied(d, b), r)
  BY <1>1, <1>2 DEF EntryFits
<1>4. Admissible(d, b)
  BY <1>1, <1>3 DEF Admissible
<1>5. QED
  BY <1>4 DEF b

LEMMA HoldAdmissible ==
  ASSUME NEW d, NEW a, NEW n, NEW ref
  PROVE  Admissible(d, HoldBatch(a, n, ref))
<1> DEFINE b == HoldBatch(a, n, ref)
<1>1. /\ DOMAIN b.entries = {ref} /\ DOMAIN b.places = {ref} /\ DOMAIN b.settles = {}
      /\ b.entries[ref].kind = "hold" /\ b.entries[ref].related = NoRef
      /\ b.places[ref].status = "open"
  BY DEF HoldBatch, Row, NoRows, NewEntry, NewHold
<1>2. Verdict(d, b) = "applied" => Applied(d, b).entries[ref] = b.entries[ref]
  BY <1>1, AddedEntry
<1> HIDE DEF b
<1>3. Verdict(d, b) = "applied" => EntryFits(Applied(d, b), ref)
  BY <1>1, <1>2 DEF EntryFits
<1>4. Admissible(d, b)
  BY <1>1, <1>3 DEF Admissible
<1>5. QED
  BY <1>4 DEF b

\* A reversal mirrors the entry its call read, for an entry is never changed.
LEMMA ReverseAdmissible ==
  ASSUME NEW d, NEW w, DataOK(d), w.op = "reverse", ReadStands(d, w)
  PROVE  Admissible(d, ReverseBatch(w.ref, w.kind, w.account, w.amount))
<1> DEFINE b == ReverseBatch(w.ref, w.kind, w.account, w.amount)
           r == Derived(w.ref, "reverse")
<1>1. /\ DOMAIN b.entries = {r} /\ DOMAIN b.places = {} /\ DOMAIN b.settles = {}
      /\ b.entries[r] = NewEntry(w.account, w.kind, w.amount, w.ref)
  BY DEF ReverseBatch, Row, NoRows
<1>2. /\ w.ref \in DOMAIN d.entries /\ Reversible(d.entries[w.ref]) /\ d.entries[w.ref] \in EntryRow
      /\ w.account = d.entries[w.ref].account /\ w.amount = d.entries[w.ref].amount
      /\ w.kind = Opposite(d.entries[w.ref].kind)
  BY DEF ReadStands, DataOK
<1> HIDE DEF b
<1>3. ASSUME Verdict(d, b) = "applied"
      PROVE  EntryFits(Applied(d, b), r)
  <2>1. Applied(d, b).entries[r] = NewEntry(w.account, w.kind, w.amount, w.ref)
    BY <1>1, <1>3, AddedEntry
  <2>2. w.ref \in DOMAIN Applied(d, b).entries /\ Applied(d, b).entries[w.ref] = d.entries[w.ref]
    BY <1>2 DEF Applied, Insert
  <2>3. NewEntry(w.account, w.kind, w.amount, w.ref)
          = [d.entries[w.ref] EXCEPT !.kind = Opposite(@), !.related = w.ref]
    <3>1. w.ref \in AnyRef /\ w.kind \in Kind
      BY <1>2 DEF DataOK, Opposite, Kind
    <3>2. PICK e \in EntryRow : e = d.entries[w.ref]
      BY <1>2
    <3> DEFINE f == [e EXCEPT !.kind = w.kind, !.related = w.ref]
    <3>3. f \in EntryRow
      BY <3>1 DEF EntryRow
    <3>4. f.account = e.account /\ f.kind = w.kind /\ f.amount = e.amount /\ f.related = w.ref
      BY DEF EntryRow
    <3>5. f = [d.entries[w.ref] EXCEPT !.kind = Opposite(@), !.related = w.ref]
      BY <1>2, <3>2
    <3> HIDE DEF f
    <3>6. f = NewEntry(w.account, w.kind, w.amount, w.ref)
      BY <1>2, <3>2, <3>3, <3>4 DEF NewEntry, EntryRow
    <3>7. QED
      BY <3>5, <3>6
  <2>4. w.kind \in {"credit", "debit"}
    BY <1>2 DEF Opposite
  <2>5. LET x == Applied(d, b).entries[r]
        IN x.kind = w.kind /\ x.related = w.ref
    BY <2>1 DEF NewEntry
  <2>6. QED
    BY <1>2, <2>1, <2>2, <2>3, <2>4, <2>5 DEF EntryFits
<1>4. Admissible(d, b)
  BY <1>1, <1>3 DEF Admissible
<1>5. QED
  BY <1>4 DEF b

\* One resolution per hold: a hold already settled has an entry under the ref a release or a
\* capture takes, so that their batches are only applied to a hold that is open.
LEMMA SettleAdmissible ==
  ASSUME NEW d, NEW w, NEW b, DataOK(d), LogFits(d), ReadStands(d, w), w.op \in {"release", "capture"},
         DOMAIN b.entries = {Derived(w.ref, "resolve")}, DOMAIN b.places = {}, DOMAIN b.settles = {w.ref},
         NEW n, b.entries[Derived(w.ref, "resolve")] = NewEntry(w.account, w.op, n, w.ref),
         b.settles[w.ref] = IF w.op = "release" THEN "released" ELSE "captured"
  PROVE  Admissible(d, b)
<1> DEFINE r == Derived(w.ref, "resolve")
<1> SUFFICES ASSUME Verdict(d, b) = "applied"
             PROVE  EntryFits(Applied(d, b), r) /\ HoldFits(Applied(d, b), w.ref)
  BY DEF Admissible
<1>1. r \notin DOMAIN d.entries /\ r \in DOMAIN Applied(d, b).entries
  BY AddedEntry
<1>2. Applied(d, b).entries[r] = NewEntry(w.account, w.op, n, w.ref)
  BY AddedEntry
<1>3. w.ref \in DOMAIN d.holds /\ d.holds[w.ref].account = w.account /\ d.holds[w.ref] \in HoldRow
  BY DEF ReadStands, DataOK
<1>4. d.holds[w.ref].status = "open"
  BY <1>1, <1>3 DEF LogFits, HoldFits
<1>5. /\ w.ref \in DOMAIN Applied(d, b).holds
      /\ Applied(d, b).holds[w.ref] = [d.holds[w.ref] EXCEPT !.status = b.settles[w.ref]]
  BY <1>3, <1>4 DEF Applied, Insert, SettleHold
<1>6. Applied(d, b).holds[w.ref].account = w.account /\ Applied(d, b).holds[w.ref].status = b.settles[w.ref]
  BY <1>3, <1>5 DEF HoldRow
<1>7. EntryFits(Applied(d, b), r)
  <2>1. LET e == Applied(d, b).entries[r]
        IN e.kind = w.op /\ e.related = w.ref /\ e.account = w.account
    BY <1>2 DEF NewEntry
  <2>2. CASE w.op = "release"
    BY <1>5, <1>6, <2>1, <2>2 DEF EntryFits
  <2>3. CASE w.op = "capture"
    BY <1>5, <1>6, <2>1, <2>3 DEF EntryFits
  <2>4. QED
    BY <2>2, <2>3
<1>8. HoldFits(Applied(d, b), w.ref)
  BY <1>1, <1>2 DEF HoldFits, NewEntry
<1>9. QED
  BY <1>7, <1>8

LEMMA ReleaseAdmissible ==
  ASSUME NEW d, NEW w, DataOK(d), LogFits(d), ReadStands(d, w), w.op = "release"
  PROVE  Admissible(d, ReleaseBatch(w.ref, w.account, w.amount))
<1> DEFINE b == ReleaseBatch(w.ref, w.account, w.amount)
<1>1. /\ DOMAIN b.entries = {Derived(w.ref, "resolve")} /\ DOMAIN b.places = {} /\ DOMAIN b.settles = {w.ref}
      /\ b.entries[Derived(w.ref, "resolve")] = NewEntry(w.account, w.op, w.amount, w.ref)
      /\ b.settles[w.ref] = "released"
  BY DEF ReleaseBatch, Row, NoRows
<1> HIDE DEF b
<1>2. Admissible(d, b)
  BY <1>1, SettleAdmissible
<1>3. QED
  BY <1>2 DEF b

LEMMA CaptureAdmissible ==
  ASSUME NEW d, NEW w, DataOK(d), LogFits(d), ReadStands(d, w), w.op = "capture"
  PROVE  Admissible(d, CaptureBatch(w.ref, w.account, w.amount, w.taken))
<1> DEFINE b == CaptureBatch(w.ref, w.account, w.amount, w.taken)
<1>1. /\ DOMAIN b.entries = {Derived(w.ref, "resolve")} /\ DOMAIN b.places = {} /\ DOMAIN b.settles = {w.ref}
      /\ b.entries[Derived(w.ref, "resolve")] = NewEntry(w.account, w.op, w.taken, w.ref)
      /\ b.settles[w.ref] = "captured"
  BY DEF CaptureBatch, Row, NoRows
<1> HIDE DEF b
<1>2. Admissible(d, b)
  BY <1>1, SettleAdmissible
<1>3. QED
  BY <1>2 DEF b

-----------------------------------------------------------------------------
(* Steps that keep the log and what calls know of it *)

\* The stage is all that changes as a call goes on.
LEMMA StageOnly ==
  ASSUME NEW w \in Calls, NEW stage \in Stage
  PROVE  /\ At(w, stage) \in Calls /\ At(w, stage).stage = stage
         /\ At(w, stage).op = w.op /\ At(w, stage).plane = w.plane /\ At(w, stage).ref = w.ref
         /\ At(w, stage).account = w.account /\ At(w, stage).kind = w.kind /\ At(w, stage).amount = w.amount
         /\ At(w, stage).taken = w.taken
         /\ EntryRef(At(w, stage)) = EntryRef(w)
<1>1. /\ At(w, stage) \in Calls /\ At(w, stage).stage = stage
      /\ At(w, stage).op = w.op /\ At(w, stage).plane = w.plane /\ At(w, stage).ref = w.ref
      /\ At(w, stage).account = w.account /\ At(w, stage).kind = w.kind /\ At(w, stage).amount = w.amount
      /\ At(w, stage).taken = w.taken
  BY DEF At, Calls
<1>2. QED
  BY <1>1 DEF EntryRef

\* The inductive invariant beside the types, for as long as nobody is erased.
LogKept == erased = {} /\ LogFits(db) /\ ReadsStand /\ MovedWaits /\ AuditedOnce

\* A call that reads, ends or is lost, and writes nothing.
LEMMA ReadKeeps ==
  ASSUME TypeInv, LogKept, NEW c \in Caller, NEW x, UNCHANGED <<db, audited, erased>>,
         call' = [call EXCEPT ![c] = x],
         x = NoCall \/ (x.stage # "moved" /\ ReadStands(db, x))
  PROVE  LogKept'
<1>1. \A k \in Caller : call'[k] = IF k = c THEN x ELSE call[k]
  BY DEF TypeInv, CallsOK
<1>2. x.stage # "moved"
  BY DEF NoCall
<1>3. ReadsStand'
  BY <1>1 DEF LogKept, ReadsStand
<1>4. MovedWaits'
  BY <1>1, <1>2 DEF LogKept, MovedWaits
<1>5. AuditedOnce' /\ LogFits(db)'
  BY DEF LogKept, AuditedOnce, Living
<1>6. QED
  BY <1>3, <1>4, <1>5 DEF LogKept

\* A call that issues its batch.
LEMMA IssueKeeps ==
  ASSUME TypeInv, LogKept, NEW c \in Caller, NEW w \in Calls, NEW b, Issue(c, w, b),
         ReadStands(db, w), w.stage = "read", Admissible(db, b),
         w.plane = "controlPlane" => /\ EntryRef(w) \in DOMAIN b.entries
                                     /\ b.entries[EntryRef(w)].account = w.account
  PROVE  LogKept'
<1>1. db' = Run(db, b) /\ UNCHANGED <<audited, erased>>
  BY DEF Issue
<1>2. Grown(db, db') /\ LogFits(db')
  BY <1>1, RunGrows, AdmissibleFits DEF TypeInv, LogKept
<1>3. PICK x : /\ call' = [call EXCEPT ![c] = x]
               /\ \/ x = NoCall \/ x = At(w, "aborted")
                  \/ x = At(w, "moved") /\ w.plane = "controlPlane" /\ Verdict(db, b) = "applied"
  BY DEF Issue, Answer, GoOn, Refuse
<1>4. \A k \in Caller : call'[k] = IF k = c THEN x ELSE call[k]
  BY <1>3 DEF TypeInv, CallsOK
<1>5. x = NoCall \/ (x \in Calls /\ x.op = w.op /\ x.stage # "raced" /\ x.ref = w.ref /\ x.account = w.account
                     /\ x.kind = w.kind /\ x.amount = w.amount /\ x.taken = w.taken /\ x.plane = w.plane)
  BY <1>3, StageOnly DEF Stage
<1>6. ReadsStand'
  <2>1. ASSUME NEW k \in Caller, call'[k] # NoCall
        PROVE  ReadStands(db', call'[k])
    <3>1. CASE k = c
      <4>1. ReadStands(db, x)
        BY <1>4, <1>5, <2>1, <3>1 DEF ReadStands
      <4>2. QED
        BY <1>2, <1>4, <3>1, <4>1, ReadStandsGrown
    <3>2. CASE k # c
      BY <1>2, <1>4, <2>1, <3>2, ReadStandsGrown DEF LogKept, ReadsStand
    <3>3. QED
      BY <3>1, <3>2
  <2>2. QED
    BY <2>1 DEF ReadsStand
<1>7. AuditedOnce'
  BY <1>1, <1>2 DEF LogKept, AuditedOnce, Living, Grown
<1>8. ASSUME NEW k \in Caller, k # c, call'[k].stage = "moved"
      PROVE  /\ call'[k] = call[k]
             /\ EntryRef(call[k]) \in DOMAIN db.entries /\ EntryRef(call[k]) \in DOMAIN db'.entries
             /\ db'.entries[EntryRef(call[k])].account = call[k].account
             /\ <<EntryRef(call[k]), call[k].account>> \notin DOMAIN audited
  BY <1>2, <1>4, <1>8 DEF LogKept, MovedWaits, Grown
<1>9. CASE x = At(w, "moved") /\ w.plane = "controlPlane" /\ Verdict(db, b) = "applied"
  <2>1. EntryRef(x) = EntryRef(w) /\ x.account = w.account
    BY <1>9, StageOnly DEF Stage
  <2>2. /\ EntryRef(w) \notin DOMAIN db.entries /\ EntryRef(w) \in DOMAIN db'.entries
        /\ db'.entries[EntryRef(w)].account = w.account
    BY <1>1, <1>9, AddedEntry DEF Run
  <2>3. <<EntryRef(w), w.account>> \notin DOMAIN audited
    BY <2>2 DEF LogKept, AuditedOnce, Living
  <2>4. call'[c] = x
    BY <1>4
  <2>5. ASSUME NEW k \in Caller, k # c, call'[k].stage = "moved"
        PROVE  EntryRef(call'[k]) # EntryRef(call'[c])
    BY <1>8, <2>1, <2>2, <2>4, <2>5
  <2>6. \A k, j \in Caller :
          call'[k].stage = "moved" /\ call'[j].stage = "moved" /\ EntryRef(call'[k]) = EntryRef(call'[j]) => k = j
    <3>1. ASSUME NEW k \in Caller, NEW j \in Caller, k # c, j # c,
                 call'[k].stage = "moved", call'[j].stage = "moved", EntryRef(call'[k]) = EntryRef(call'[j])
          PROVE  k = j
      <4>1. call'[k] = call[k] /\ call'[j] = call[j]
        BY <1>8, <3>1
      <4>2. QED
        BY <3>1, <4>1 DEF LogKept, MovedWaits
    <3>2. QED
      BY <2>5, <3>1
  <2>7. ASSUME NEW k \in Caller, call'[k].stage = "moved"
        PROVE  /\ EntryRef(call'[k]) \in DOMAIN db'.entries
               /\ db'.entries[EntryRef(call'[k])].account = call'[k].account
               /\ <<EntryRef(call'[k]), call'[k].account>> \notin DOMAIN audited'
    <3>1. CASE k = c
      BY <1>1, <2>1, <2>2, <2>3, <2>4, <3>1
    <3>2. CASE k # c
      BY <1>1, <1>8, <2>7, <3>2
    <3>3. QED
      BY <3>1, <3>2
  <2>8. MovedWaits'
    BY <2>6, <2>7 DEF MovedWaits
  <2>9. QED
    BY <1>1, <1>2, <1>6, <1>7, <2>8 DEF LogKept
<1>10. CASE x.stage # "moved"
  BY <1>1, <1>2, <1>4, <1>6, <1>7, <1>8, <1>10 DEF LogKept, MovedWaits
<1>11. QED
  BY <1>3, <1>9, <1>10, StageOnly DEF NoCall, Stage

LEMMA EmitKeeps ==
  ASSUME TypeInv, LogKept, NEW c \in Caller, EmitAudit(c)
  PROVE  LogKept'
<1> DEFINE m == <<EntryRef(call[c]), call[c].account>>
<1>1. UNCHANGED <<db, erased>> /\ call' = [call EXCEPT ![c] = NoCall] /\ call[c].stage = "moved"
  BY DEF EmitAudit, Answer
<1>2. m \notin DOMAIN audited /\ m[1] \in DOMAIN db.entries /\ db.entries[m[1]].account = m[2]
  BY <1>1 DEF LogKept, MovedWaits
<1>3. /\ DOMAIN audited' = DOMAIN audited \cup {m} /\ audited'[m] = 1
      /\ \A x \in DOMAIN audited : audited'[x] = audited[x]
  BY <1>2 DEF EmitAudit
<1>4. AuditedOnce'
  BY <1>1, <1>2, <1>3 DEF LogKept, AuditedOnce, Living
<1>5. \A k \in Caller : call'[k] = IF k = c THEN NoCall ELSE call[k]
  BY <1>1 DEF TypeInv, CallsOK
<1>6. ReadsStand'
  BY <1>1, <1>5 DEF LogKept, ReadsStand
<1>7. MovedWaits'
  <2>1. SUFFICES ASSUME NEW k \in Caller, call'[k].stage = "moved"
                 PROVE  /\ EntryRef(call[k]) \in DOMAIN db.entries
                        /\ db.entries[EntryRef(call[k])].account = call[k].account
                        /\ <<EntryRef(call[k]), call[k].account>> \notin DOMAIN audited'
                        /\ \A j \in Caller :
                             call'[j].stage = "moved" /\ EntryRef(call'[j]) = EntryRef(call[k]) => j = k
    BY <1>1, <1>5 DEF MovedWaits, NoCall
  <2>2. k # c /\ call[k].stage = "moved"
    BY <1>5, <2>1 DEF NoCall
  <2>3. EntryRef(call[k]) # EntryRef(call[c])
    BY <1>1, <2>2 DEF LogKept, MovedWaits
  <2>4. \A j \in Caller : call'[j].stage = "moved" => call'[j] = call[j]
    BY <1>5 DEF NoCall
  <2>5. QED
    BY <1>3, <2>2, <2>3, <2>4 DEF LogKept, MovedWaits
<1>8. QED
  BY <1>1, <1>4, <1>6, <1>7 DEF LogKept

LEMMA LocalsAre ==
  ASSUME NEW stage, NEW op, NEW plane, NEW ref, NEW a, NEW kind, NEW n, NEW taken
  PROVE  LET w == Locals(stage, op, plane, ref, a, kind, n, taken)
         IN /\ w.stage = stage /\ w.op = op /\ w.plane = plane /\ w.ref = ref
            /\ w.account = a /\ w.kind = kind /\ w.amount = n /\ w.taken = taken
  BY DEF Locals

LEMMA NextKeeps ==
  ASSUME Erasable = {}, TypeInv, LogKept, [Next]_vars
  PROVE  LogKept'
<1>1. ASSUME NEW c \in Caller, NEW plane \in Surface, NEW kind \in {"credit", "debit"},
             NEW a \in Account, NEW n \in Amount, NEW ref \in Ref, Post(c, plane, kind, a, n, ref)
      PROVE  LogKept'
  <2> DEFINE w == Locals("read", kind, plane, ref, a, kind, n, n)
  <2>1. w \in Calls /\ n \in Nat
    BY LocalsTyped, SurfaceAssumption, AmountAssumption DEF Stage, Op, Plane, Kind
  <2>2. w.op = kind /\ w.stage = "read" /\ w.ref = ref /\ w.account = a
    BY LocalsAre
  <2>3. Issue(c, w, PostBatch(kind, a, n, ref))
    BY <1>1 DEF Post
  <2> HIDE DEF w
  <2>4. ReadStands(db, w)
    BY <2>2 DEF ReadStands
  <2>5. LET b == PostBatch(kind, a, n, ref)
        IN EntryRef(w) \in DOMAIN b.entries /\ b.entries[EntryRef(w)].account = w.account
    BY <2>2 DEF EntryRef, PostBatch, Row, NewEntry
  <2>6. QED
    BY <2>1, <2>2, <2>3, <2>4, <2>5, PostAdmissible, IssueKeeps
<1>2. ASSUME NEW c \in Caller, NEW from \in Account, NEW to \in Account, NEW n \in Amount, NEW ref \in Ref,
             Transfer(c, from, to, n, ref)
      PROVE  LogKept'
  <2> DEFINE w == Locals("read", "transfer", "inProcess", ref, from, "transfer_out", n, n)
  <2>1. w \in Calls
    BY LocalsTyped, AmountAssumption DEF Stage, Op, Plane, Kind
  <2>2. w.op = "transfer" /\ w.stage = "read" /\ w.plane = "inProcess"
    BY LocalsAre
  <2>3. Issue(c, w, TransferBatch(from, to, n, ref))
    BY <1>2 DEF Transfer
  <2> HIDE DEF w
  <2>4. ReadStands(db, w)
    BY <2>2 DEF ReadStands
  <2>5. QED
    BY <2>1, <2>2, <2>3, <2>4, TransferAdmissible, IssueKeeps
<1>3. ASSUME NEW c \in Caller, NEW a \in Account, NEW n \in Amount, NEW ref \in Ref, PlaceHold(c, a, n, ref)
      PROVE  LogKept'
  <2> DEFINE w == Locals("read", "hold", "inProcess", ref, a, "hold", n, n)
  <2>1. w \in Calls
    BY LocalsTyped, AmountAssumption DEF Stage, Op, Plane, Kind
  <2>2. w.op = "hold" /\ w.stage = "read" /\ w.plane = "inProcess"
    BY LocalsAre
  <2>3. Issue(c, w, HoldBatch(a, n, ref))
    BY <1>3 DEF PlaceHold
  <2> HIDE DEF w
  <2>4. ReadStands(db, w)
    BY <2>2 DEF ReadStands
  <2>5. QED
    BY <2>1, <2>2, <2>3, <2>4, HoldAdmissible, IssueKeeps
<1>4. ASSUME NEW c \in Caller, NEW named \in Named, NEW ref \in AnyRef, ReadEntry(c, named, ref)
      PROVE  LogKept'
  <2> DEFINE e == db.entries[ref]
             w == Locals("read", "reverse", PlaneOf(named), ref, e.account, Opposite(e.kind), e.amount, e.amount)
  <2>1. UNCHANGED <<db, audited, erased>>
    BY <1>4 DEF ReadEntry
  <2>2. CASE call' = [call EXCEPT ![c] = NoCall]
    BY <2>1, <2>2, ReadKeeps
  <2>3. CASE ref \in DOMAIN db.entries /\ Reversible(e) /\ GoOn(c, w, "read")
    <3>1. /\ At(w, "read").op = "reverse" /\ At(w, "read").stage = "read" /\ At(w, "read").ref = ref
          /\ At(w, "read").account = e.account /\ At(w, "read").kind = Opposite(e.kind)
          /\ At(w, "read").amount = e.amount
      BY DEF At, Locals
    <3>2. ReadStands(db, At(w, "read"))
      BY <2>3, <3>1 DEF ReadStands
    <3>3. QED
      BY <2>1, <2>3, <3>1, <3>2, ReadKeeps DEF GoOn
  <2>4. QED
    BY <1>4, <2>2, <2>3 DEF ReadEntry, Refuse
<1>5. ASSUME NEW c \in Caller, NEW named \in Named, NEW ref \in Ref, ReadHoldToRelease(c, named, ref)
      PROVE  LogKept'
  <2> DEFINE h == db.holds[ref]
             w == Locals("read", "release", PlaneOf(named), ref, h.account, "release", h.amount, h.amount)
  <2>1. UNCHANGED <<db, audited, erased>>
    BY <1>5 DEF ReadHoldToRelease
  <2>2. CASE call' = [call EXCEPT ![c] = NoCall]
    BY <2>1, <2>2, ReadKeeps
  <2>3. CASE ref \in DOMAIN db.holds /\ GoOn(c, w, "read")
    <3>1. /\ At(w, "read").op = "release" /\ At(w, "read").stage = "read" /\ At(w, "read").ref = ref
          /\ At(w, "read").account = h.account /\ At(w, "read").amount = h.amount /\ At(w, "read").plane = PlaneOf(named)
      BY DEF At, Locals
    <3>2. ReadStands(db, At(w, "read"))
      BY <2>3, <3>1 DEF ReadStands
    <3>3. QED
      BY <2>1, <2>3, <3>1, <3>2, ReadKeeps DEF GoOn
  <2>4. QED
    BY <1>5, <2>2, <2>3 DEF ReadHoldToRelease, Refuse, Answer
<1>6. ASSUME NEW c \in Caller, NEW ref \in Ref, NEW n \in Amount \cup {0}, ReadHoldToCapture(c, ref, n)
      PROVE  LogKept'
  <2> DEFINE h == db.holds[ref]
             w == Locals("read", "capture", "inProcess", ref, h.account, "capture", h.amount, n)
  <2>1. UNCHANGED <<db, audited, erased>>
    BY <1>6 DEF ReadHoldToCapture
  <2>2. CASE call' = [call EXCEPT ![c] = NoCall]
    BY <2>1, <2>2, ReadKeeps
  <2>3. CASE ref \in DOMAIN db.holds /\ n <= h.amount /\ GoOn(c, w, "read")
    <3>1. /\ At(w, "read").op = "capture" /\ At(w, "read").stage = "read" /\ At(w, "read").ref = ref
          /\ At(w, "read").account = h.account /\ At(w, "read").amount = h.amount /\ At(w, "read").plane = "inProcess"
          /\ At(w, "read").taken = n
      BY DEF At, Locals
    <3>2. ReadStands(db, At(w, "read"))
      BY <2>3, <3>1 DEF ReadStands
    <3>3. QED
      BY <2>1, <2>3, <3>1, <3>2, ReadKeeps DEF GoOn
  <2>4. QED
    BY <1>6, <2>2, <2>3 DEF ReadHoldToCapture, Refuse, Answer
<1>7. ASSUME NEW c \in Caller, CommitReversal(c)
      PROVE  LogKept'
  <2>1. call[c] \in Calls /\ call[c].op = "reverse" /\ call[c].stage = "read" /\ call[c] # NoCall
    BY <1>7, StageInProgress DEF CommitReversal, Stage, NoCall
  <2>2. ReadStands(db, call[c])
    BY <2>1 DEF LogKept, ReadsStand
  <2>3. LET b == ReverseBatch(call[c].ref, call[c].kind, call[c].account, call[c].amount)
        IN EntryRef(call[c]) \in DOMAIN b.entries /\ b.entries[EntryRef(call[c])].account = call[c].account
    BY <2>1 DEF EntryRef, ReverseBatch, Row, NewEntry
  <2>4. Admissible(db, ReverseBatch(call[c].ref, call[c].kind, call[c].account, call[c].amount))
    BY <2>1, <2>2, ReverseAdmissible DEF TypeInv
  <2>5. QED
    BY <1>7, <2>1, <2>2, <2>3, <2>4, IssueKeeps DEF CommitReversal
<1>8. ASSUME NEW c \in Caller, CommitRelease(c)
      PROVE  LogKept'
  <2>1. call[c] \in Calls /\ call[c].op = "release" /\ call[c].stage = "read" /\ call[c] # NoCall
    BY <1>8, StageInProgress DEF CommitRelease, Stage, NoCall
  <2>2. ReadStands(db, call[c])
    BY <2>1 DEF LogKept, ReadsStand
  <2>3. LET b == ReleaseBatch(call[c].ref, call[c].account, call[c].amount)
        IN EntryRef(call[c]) \in DOMAIN b.entries /\ b.entries[EntryRef(call[c])].account = call[c].account
    BY <2>1 DEF EntryRef, ReleaseBatch, Row, NewEntry
  <2>4. Admissible(db, ReleaseBatch(call[c].ref, call[c].account, call[c].amount))
    BY <2>1, <2>2, ReleaseAdmissible DEF TypeInv, LogKept
  <2>5. QED
    BY <1>8, <2>1, <2>2, <2>3, <2>4, IssueKeeps DEF CommitRelease
<1>9. ASSUME NEW c \in Caller, CommitCapture(c)
      PROVE  LogKept'
  <2>1. call[c] \in Calls /\ call[c].op = "capture" /\ call[c].stage = "read" /\ call[c] # NoCall
    BY <1>9, StageInProgress DEF CommitCapture, Stage, NoCall
  <2>2. ReadStands(db, call[c])
    BY <2>1 DEF LogKept, ReadsStand
  <2>3. LET b == CaptureBatch(call[c].ref, call[c].account, call[c].amount, call[c].taken)
        IN EntryRef(call[c]) \in DOMAIN b.entries /\ b.entries[EntryRef(call[c])].account = call[c].account
    BY <2>1 DEF EntryRef, CaptureBatch, Row, NewEntry
  <2>4. Admissible(db, CaptureBatch(call[c].ref, call[c].account, call[c].amount, call[c].taken))
    BY <2>1, <2>2, CaptureAdmissible DEF TypeInv, LogKept
  <2>5. QED
    BY <1>9, <2>1, <2>2, <2>3, <2>4, IssueKeeps DEF CommitCapture
<1>10. ASSUME NEW c \in Caller, ProveReplay(c)
       PROVE  LogKept'
  <2>1. call[c] \in Calls /\ call[c].stage = "aborted" /\ call[c] # NoCall
    BY <1>10, StageInProgress DEF ProveReplay, Stage, NoCall
  <2>2. UNCHANGED <<db, audited, erased>>
    BY <1>10 DEF ProveReplay
  <2>3. CASE call' = [call EXCEPT ![c] = NoCall]
    BY <2>2, <2>3, ReadKeeps
  <2>4. CASE IsOwnRow(call[c]) /\ call[c].op = "release" /\ GoOn(c, call[c], "raced")
    <3>1. ReadStands(db, call[c])
      BY <2>1 DEF LogKept, ReadsStand
    <3>2. OwnDerived(db, EntryRef(call[c]), call[c].ref, call[c].account)
      BY <2>4 DEF IsOwnRow
    <3>3. ReadStands(db, At(call[c], "raced")) /\ At(call[c], "raced").stage = "raced"
      BY <2>1, <2>4, <3>1, <3>2, StageOnly DEF ReadStands, Stage
    <3>4. QED
      BY <2>2, <2>4, <3>3, ReadKeeps DEF GoOn
  <2>5. QED
    BY <1>10, <2>3, <2>4 DEF ProveReplay, Refuse, Answer
<1>11. ASSUME NEW c \in Caller, RereadHold(c) \/ Crash(c)
       PROVE  LogKept'
  <2>1. UNCHANGED <<db, audited, erased>> /\ call' = [call EXCEPT ![c] = NoCall]
    BY <1>11 DEF RereadHold, Crash, Answer
  <2>2. QED
    BY <2>1, ReadKeeps
<1>12. ASSUME NEW c \in Caller, EmitAudit(c)
       PROVE  LogKept'
  BY <1>12, EmitKeeps
<1>13. CASE UNCHANGED vars
  BY <1>13 DEF vars, LogKept, ReadsStand, MovedWaits, AuditedOnce, Living
<1>14. QED
  BY <1>1, <1>2, <1>3, <1>4, <1>5, <1>6, <1>7, <1>8, <1>9, <1>10, <1>11, <1>12, <1>13 DEF Next, Write, Proceed

-----------------------------------------------------------------------------
(* The books, while nobody is erased *)

\* Every account with an entry or a hold is open, and its two columns are the sums its rows
\* give. Effects and EntriesOf are of the entries of a batch as well as of a database.
BooksFit(d) ==
  /\ IsFiniteSet(DOMAIN d.entries) /\ IsFiniteSet(DOMAIN d.holds)
  /\ \A r \in DOMAIN d.entries : d.entries[r].account \in DOMAIN d.accounts
  /\ \A h \in DOMAIN d.holds : d.holds[h].account \in DOMAIN d.accounts
  /\ \A a \in DOMAIN d.accounts :
       /\ d.accounts[a].balance = SumFunctionOnSet(Effects(d), EntriesOf(d, a))
       /\ d.accounts[a].held = SumFunctionOnSet(Reserved(d), OpenHolds(d, a))

MovedBalance(b, a) ==
  (IF a = b.first.account THEN b.first.balance ELSE 0) + (IF a = b.second.account THEN b.second.balance ELSE 0)

MovedHeld(b, a) ==
  (IF a = b.first.account THEN b.first.held ELSE 0) + (IF a = b.second.account THEN b.second.held ELSE 0)

Opened(d, b) == DOMAIN d.accounts \cup b.opens

PlacedFor(b, a) == {h \in DOMAIN b.places : b.places[h].account = a}

PlacedAmounts(b) == [h \in DOMAIN b.places |-> b.places[h].amount]

SettledFor(d, b, a) == OpenHolds(d, a) \cap DOMAIN b.settles

\* The two UPDATEs of a batch that is applied move what its rows account for.
Balanced(d, b) ==
  Verdict(d, b) = "applied" =>
    /\ IsFiniteSet(DOMAIN b.entries) /\ IsFiniteSet(DOMAIN b.places)
    /\ \A r \in DOMAIN b.entries : b.entries[r].account \in Opened(d, b)
    /\ \A h \in DOMAIN b.places : b.places[h].account \in Opened(d, b) /\ b.places[h].status = "open"
    /\ \A h \in DOMAIN b.settles : b.settles[h] # "open"
    /\ \A a \in Opened(d, b) :
         /\ MovedBalance(b, a) = SumFunctionOnSet(Effects(b), EntriesOf(b, a))
         /\ MovedHeld(b, a) = SumFunctionOnSet(PlacedAmounts(b), PlacedFor(b, a))
                              - SumFunctionOnSet(Reserved(d), SettledFor(d, b, a))

LEMMA EffectsInt ==
  ASSUME NEW d, \A r \in DOMAIN d.entries : d.entries[r] \in EntryRow
  PROVE  \A r \in DOMAIN d.entries : Effects(d)[r] \in Int
  BY DEF EntryRow, Effects, BalanceEffect

LEMMA HoldAmount == ASSUME NEW x \in HoldRow PROVE x.amount \in Int
<1>1. x.amount \in Amount
  BY DEF HoldRow
<1>2. \A n \in Amount : n \in Int
  BY AmountAssumption
<1>3. QED
  BY <1>1, <1>2

LEMMA ReservedInt ==
  ASSUME NEW d, DataOK(d)
  PROVE  \A h \in DOMAIN d.holds : Reserved(d)[h] \in Int
<1>1. ASSUME NEW h \in DOMAIN d.holds
      PROVE  Reserved(d)[h] \in Int
  <2>1. d.holds[h] \in HoldRow
    BY DEF DataOK
  <2>2. d.holds[h].amount \in Int
    BY <2>1, HoldAmount
  <2>3. QED
    BY <2>2 DEF Reserved
<1>2. QED
  BY <1>1

\* What the columns of an account are after the batch.
LEMMA AccountsMoved ==
  ASSUME NEW d, NEW b, DataOK(d), BatchOK(b), NEW a \in Opened(d, b)
  PROVE  /\ a \in DOMAIN Applied(d, b).accounts
         /\ Applied(d, b).accounts[a].balance = BalanceOf(d, a).balance + MovedBalance(b, a)
         /\ Applied(d, b).accounts[a].held = BalanceOf(d, a).held + MovedHeld(b, a)
<1> DEFINE e == EnsureAccounts(d.accounts, b.opens)
           f == Adjust(e, b.first)
           g == Adjust(f, b.second)
<1>1. a \in DOMAIN e /\ e[a] = BalanceOf(d, a)
  BY DEF EnsureAccounts, Opened, BalanceOf
<1>2. BalanceOf(d, a).balance \in Int /\ BalanceOf(d, a).held \in Int
  BY DEF BalanceOf, Zero, DataOK
<1> HIDE DEF e
<1>3. /\ a \in DOMAIN f
      /\ f[a].balance = e[a].balance + IF a = b.first.account THEN b.first.balance ELSE 0
      /\ f[a].held = e[a].held + IF a = b.first.account THEN b.first.held ELSE 0
  BY <1>1, <1>2 DEF Adjust
<1>4. f[a].balance \in Int /\ f[a].held \in Int
  BY <1>1, <1>2, <1>3 DEF BatchOK
<1> HIDE DEF f
<1>5. /\ a \in DOMAIN g
      /\ g[a].balance = f[a].balance + IF a = b.second.account THEN b.second.balance ELSE 0
      /\ g[a].held = f[a].held + IF a = b.second.account THEN b.second.held ELSE 0
  BY <1>3, <1>4 DEF Adjust
<1> HIDE DEF g
<1>6. Applied(d, b).accounts = g
  BY DEF Applied, AfterSecond, AfterFirst, g, f, e
<1>7. g[a].balance = BalanceOf(d, a).balance + MovedBalance(b, a) /\ g[a].held = BalanceOf(d, a).held + MovedHeld(b, a)
  BY <1>1, <1>2, <1>3, <1>5 DEF MovedBalance, MovedHeld, BatchOK
<1>8. QED
  BY <1>5, <1>6, <1>7

\* An account's columns are its sums, and zero where it is not open yet.
LEMMA ColumnsAre ==
  ASSUME NEW d, BooksFit(d), NEW a
  PROVE  /\ BalanceOf(d, a).balance = SumFunctionOnSet(Effects(d), EntriesOf(d, a))
         /\ BalanceOf(d, a).held = SumFunctionOnSet(Reserved(d), OpenHolds(d, a))
<1>1. CASE a \in DOMAIN d.accounts
  BY <1>1 DEF BooksFit, BalanceOf
<1>2. CASE a \notin DOMAIN d.accounts
  <2>1. EntriesOf(d, a) = {} /\ OpenHolds(d, a) = {}
    BY <1>2 DEF BooksFit, EntriesOf, OpenHolds
  <2>2. SumFunctionOnSet(Effects(d), {}) = 0 /\ SumFunctionOnSet(Reserved(d), {}) = 0
    BY SumEmpty
  <2>3. BalanceOf(d, a).balance = 0 /\ BalanceOf(d, a).held = 0
    BY <1>2 DEF BalanceOf, Zero
  <2>4. QED
    BY <2>1, <2>2, <2>3
<1>3. QED
  BY <1>1, <1>2

\* The entries of an account after the batch sum to what they did and what the batch's do.
LEMMA EffectsMoved ==
  ASSUME NEW d, NEW b, DataOK(d), BatchOK(b), BooksFit(d), IsFiniteSet(DOMAIN b.entries),
         Verdict(d, b) = "applied", NEW a
  PROVE  SumFunctionOnSet(Effects(Applied(d, b)), EntriesOf(Applied(d, b), a))
           = SumFunctionOnSet(Effects(d), EntriesOf(d, a)) + SumFunctionOnSet(Effects(b), EntriesOf(b, a))
<1> DEFINE e == Applied(d, b)
           S == EntriesOf(d, a)
           T == EntriesOf(b, a)
<1>1. e.entries = Insert(d.entries, b.entries) /\ DOMAIN b.entries \cap DOMAIN d.entries = {}
  BY DEF Applied, Verdict, Duplicate
<1>2. /\ EntriesOf(e, a) = S \cup T /\ S \cap T = {}
      /\ S \subseteq DOMAIN d.entries /\ T \subseteq DOMAIN b.entries
  BY <1>1 DEF EntriesOf, Insert
<1>3. /\ \A r \in DOMAIN d.entries : Effects(e)[r] = Effects(d)[r]
      /\ \A r \in DOMAIN b.entries : Effects(e)[r] = Effects(b)[r]
  BY <1>1 DEF Effects, Insert
<1>4. /\ \A r \in DOMAIN d.entries : Effects(d)[r] \in Int
      /\ \A r \in DOMAIN b.entries : Effects(b)[r] \in Int
  BY EffectsInt DEF DataOK, BatchOK
<1>5. IsFiniteSet(S) /\ IsFiniteSet(T)
  BY <1>2, FS_Subset DEF BooksFit
<1> HIDE DEF e, S, T
<1>6. \A r \in S \cup T : Effects(e)[r] \in Int
  BY <1>2, <1>3, <1>4
<1>7. SumFunctionOnSet(Effects(e), S \cup T) = SumFunctionOnSet(Effects(e), S) + SumFunctionOnSet(Effects(e), T)
  BY <1>2, <1>5, <1>6, SumUnion
<1>8. SumFunctionOnSet(Effects(e), S) = SumFunctionOnSet(Effects(d), S)
  <2>1. \A r \in S : Effects(e)[r] = Effects(d)[r]
    BY <1>2, <1>3
  <2>2. QED
    BY <1>5, <2>1, SumSame
<1>9. SumFunctionOnSet(Effects(e), T) = SumFunctionOnSet(Effects(b), T)
  <2>1. \A r \in T : Effects(e)[r] = Effects(b)[r]
    BY <1>2, <1>3
  <2>2. QED
    BY <1>5, <2>1, SumSame
<1>10. SumFunctionOnSet(Effects(e), EntriesOf(e, a)) = SumFunctionOnSet(Effects(d), S) + SumFunctionOnSet(Effects(b), T)
  BY <1>2, <1>7, <1>8, <1>9
<1>11. QED
  BY <1>10 DEF e, S, T

\* The open holds of an account after the batch are the ones it did not settle, and the ones it placed.
LEMMA HoldsMoved ==
  ASSUME NEW d, NEW b, DataOK(d), BatchOK(b), BooksFit(d), Balanced(d, b), Verdict(d, b) = "applied", NEW a
  PROVE  SumFunctionOnSet(Reserved(Applied(d, b)), OpenHolds(Applied(d, b), a))
           = SumFunctionOnSet(Reserved(d), OpenHolds(d, a)) - SumFunctionOnSet(Reserved(d), SettledFor(d, b, a))
             + SumFunctionOnSet(PlacedAmounts(b), PlacedFor(b, a))
<1> DEFINE e == Applied(d, b)
           O == OpenHolds(d, a)
           X == SettledFor(d, b, a)
           S == O \ X
           T == PlacedFor(b, a)
<1>1. e.holds = Insert(SettleHold(d.holds, b.settles), b.places) /\ DOMAIN b.places \cap DOMAIN d.holds = {}
  BY DEF Applied, Verdict, Duplicate
<1>2. /\ \A h \in DOMAIN b.settles : b.settles[h] # "open"
      /\ \A h \in DOMAIN b.places : b.places[h].status = "open"
  BY DEF Balanced
<1>3. \A h \in DOMAIN d.holds : d.holds[h] \in HoldRow
  BY DEF DataOK
<1>4. DOMAIN e.holds = DOMAIN d.holds \cup DOMAIN b.places
  BY <1>1 DEF Insert, SettleHold
<1>5. \A h \in DOMAIN b.places : e.holds[h] = b.places[h] /\ h \notin DOMAIN d.holds
  BY <1>1 DEF Insert, SettleHold
<1>6. ASSUME NEW h \in DOMAIN d.holds
      PROVE  /\ e.holds[h].account = d.holds[h].account /\ e.holds[h].amount = d.holds[h].amount
             /\ e.holds[h].status = "open" <=> d.holds[h].status = "open" /\ h \notin DOMAIN b.settles
  <2>1. e.holds[h] = IF h \in DOMAIN b.settles /\ d.holds[h].status = "open"
                       THEN [d.holds[h] EXCEPT !.status = b.settles[h]] ELSE d.holds[h]
    BY <1>1 DEF Insert, SettleHold
  <2>2. QED
    BY <1>2, <1>3, <2>1 DEF HoldRow
<1> HIDE DEF e
<1>7. OpenHolds(e, a) = S \cup T
  BY <1>2, <1>4, <1>5, <1>6 DEF OpenHolds, PlacedFor, SettledFor
<1>8. /\ S \cap T = {} /\ S \subseteq DOMAIN d.holds /\ T \subseteq DOMAIN b.places
      /\ X \subseteq DOMAIN d.holds /\ S \cap X = {} /\ O = S \cup X
  BY <1>5 DEF OpenHolds, PlacedFor, SettledFor
<1>9. /\ \A h \in DOMAIN d.holds : Reserved(e)[h] = Reserved(d)[h]
      /\ \A h \in DOMAIN b.places : Reserved(e)[h] = PlacedAmounts(b)[h]
  BY <1>4, <1>5, <1>6 DEF Reserved, PlacedAmounts
<1>10. \A h \in DOMAIN d.holds : Reserved(d)[h] \in Int
  BY ReservedInt
<1>11. \A h \in DOMAIN b.places : PlacedAmounts(b)[h] \in Int
  <2>1. ASSUME NEW h \in DOMAIN b.places PROVE PlacedAmounts(b)[h] \in Int
    <3>1. b.places[h] \in HoldRow
      BY DEF BatchOK
    <3>2. b.places[h].amount \in Int
      BY <3>1, HoldAmount
    <3>3. QED
      BY <3>2 DEF PlacedAmounts
  <2>2. QED
    BY <2>1
<1>12. IsFiniteSet(DOMAIN d.holds) /\ IsFiniteSet(DOMAIN b.places)
  BY DEF BooksFit, Balanced
<1>13. IsFiniteSet(S) /\ IsFiniteSet(T) /\ IsFiniteSet(X)
  BY <1>8, <1>12, FS_Subset
<1> HIDE DEF O, X, S, T
<1>14. SumFunctionOnSet(Reserved(e), S \cup T) = SumFunctionOnSet(Reserved(e), S) + SumFunctionOnSet(Reserved(e), T)
  <2>1. \A h \in S \cup T : Reserved(e)[h] \in Int
    BY <1>8, <1>9, <1>10, <1>11
  <2>2. QED
    BY <1>8, <1>13, <2>1, SumUnion
<1>15. SumFunctionOnSet(Reserved(e), S) = SumFunctionOnSet(Reserved(d), S)
  <2>1. \A h \in S : Reserved(e)[h] = Reserved(d)[h]
    BY <1>8, <1>9
  <2>2. QED
    BY <1>13, <2>1, SumSame
<1>16. SumFunctionOnSet(Reserved(e), T) = SumFunctionOnSet(PlacedAmounts(b), T)
  <2>1. \A h \in T : Reserved(e)[h] = PlacedAmounts(b)[h]
    BY <1>8, <1>9
  <2>2. QED
    BY <1>13, <2>1, SumSame
<1>17. SumFunctionOnSet(Reserved(d), S \cup X) = SumFunctionOnSet(Reserved(d), S) + SumFunctionOnSet(Reserved(d), X)
  <2>1. \A h \in S \cup X : Reserved(d)[h] \in Int
    BY <1>8, <1>10
  <2>2. QED
    BY <1>8, <1>13, <2>1, SumUnion
<1>18. SumFunctionOnSet(Reserved(d), S) \in Int
  <2>1. \A h \in S : Reserved(d)[h] \in Int
    BY <1>8, <1>10
  <2>2. QED
    BY <1>13, <2>1, SumInt
<1>19. SumFunctionOnSet(Reserved(d), X) \in Int
  <2>1. \A h \in X : Reserved(d)[h] \in Int
    BY <1>8, <1>10
  <2>2. QED
    BY <1>13, <2>1, SumInt
<1>20. SumFunctionOnSet(PlacedAmounts(b), T) \in Int
  <2>1. \A h \in T : PlacedAmounts(b)[h] \in Int
    BY <1>8, <1>11
  <2>2. QED
    BY <1>13, <2>1, SumInt
<1>21. SumFunctionOnSet(Reserved(e), OpenHolds(e, a))
         = SumFunctionOnSet(Reserved(d), O) - SumFunctionOnSet(Reserved(d), X) + SumFunctionOnSet(PlacedAmounts(b), T)
  <2>1. SumFunctionOnSet(Reserved(e), OpenHolds(e, a)) = SumFunctionOnSet(Reserved(d), S) + SumFunctionOnSet(PlacedAmounts(b), T)
    BY <1>7, <1>14, <1>15, <1>16
  <2>2. SumFunctionOnSet(Reserved(d), O) = SumFunctionOnSet(Reserved(d), S) + SumFunctionOnSet(Reserved(d), X)
    BY <1>8, <1>17
  <2>3. QED
    BY <1>18, <1>19, <1>20, <2>1, <2>2
<1>22. QED
  BY <1>21 DEF e, O, X, T

\* A balanced batch keeps the books.
LEMMA BalancedFits ==
  ASSUME NEW d, NEW b, DataOK(d), BatchOK(b), BooksFit(d), Balanced(d, b)
  PROVE  BooksFit(Run(d, b))
<1>1. CASE Run(d, b) = d
  BY <1>1
<1>2. CASE Verdict(d, b) = "applied"
  <2> DEFINE e == Applied(d, b)
  <2>1. DOMAIN e.accounts = Opened(d, b)
    BY DEF Applied, AfterSecond, AfterFirst, Adjust, EnsureAccounts, Opened
  <2>2. DOMAIN e.entries = DOMAIN d.entries \cup DOMAIN b.entries /\ DOMAIN e.holds = DOMAIN d.holds \cup DOMAIN b.places
    BY DEF Applied, Insert, SettleHold
  <2>3. IsFiniteSet(DOMAIN e.entries) /\ IsFiniteSet(DOMAIN e.holds)
    <3>1. /\ IsFiniteSet(DOMAIN d.entries) /\ IsFiniteSet(DOMAIN b.entries)
          /\ IsFiniteSet(DOMAIN d.holds) /\ IsFiniteSet(DOMAIN b.places)
      BY <1>2 DEF BooksFit, Balanced
    <3> HIDE DEF e
    <3>2. IsFiniteSet(DOMAIN d.entries \cup DOMAIN b.entries) /\ IsFiniteSet(DOMAIN d.holds \cup DOMAIN b.places)
      BY <3>1, FS_Union
    <3>3. QED
      BY <2>2, <3>2
  <2>4. ASSUME NEW r \in DOMAIN e.entries
        PROVE  e.entries[r].account \in DOMAIN e.accounts
    <3>1. e.entries[r] = IF r \in DOMAIN d.entries THEN d.entries[r] ELSE b.entries[r]
      BY <2>2 DEF Applied, Insert
    <3>2. QED
      BY <1>2, <2>1, <2>2, <3>1 DEF BooksFit, Balanced, Opened
  <2>5. ASSUME NEW h \in DOMAIN e.holds
        PROVE  e.holds[h].account \in DOMAIN e.accounts
    <3>1. CASE h \in DOMAIN d.holds
      <4>1. e.holds[h].account = d.holds[h].account
        BY <1>2, <3>1, RunGrows DEF Run, Grown
      <4>2. QED
        BY <2>1, <3>1, <4>1 DEF BooksFit, Opened
    <3>2. CASE h \notin DOMAIN d.holds
      <4>1. h \in DOMAIN b.places /\ e.holds[h] = b.places[h]
        BY <2>2, <3>2 DEF Applied, Insert, SettleHold
      <4>2. QED
        BY <1>2, <2>1, <4>1 DEF Balanced
    <3>3. QED
      BY <3>1, <3>2
  <2>6. ASSUME NEW a \in DOMAIN e.accounts
        PROVE  /\ e.accounts[a].balance = SumFunctionOnSet(Effects(e), EntriesOf(e, a))
               /\ e.accounts[a].held = SumFunctionOnSet(Reserved(e), OpenHolds(e, a))
    <3>1. /\ e.accounts[a].balance = BalanceOf(d, a).balance + MovedBalance(b, a)
          /\ e.accounts[a].held = BalanceOf(d, a).held + MovedHeld(b, a)
      BY <2>1, AccountsMoved
    <3>2. /\ MovedBalance(b, a) = SumFunctionOnSet(Effects(b), EntriesOf(b, a))
          /\ MovedHeld(b, a) = SumFunctionOnSet(PlacedAmounts(b), PlacedFor(b, a))
                               - SumFunctionOnSet(Reserved(d), SettledFor(d, b, a))
      BY <1>2, <2>1 DEF Balanced
    <3>3. e.accounts[a].balance = SumFunctionOnSet(Effects(e), EntriesOf(e, a))
      <4>1. BalanceOf(d, a).balance = SumFunctionOnSet(Effects(d), EntriesOf(d, a))
        BY ColumnsAre
      <4>2. IsFiniteSet(DOMAIN b.entries)
        BY <1>2 DEF Balanced
      <4>3. SumFunctionOnSet(Effects(e), EntriesOf(e, a))
              = SumFunctionOnSet(Effects(d), EntriesOf(d, a)) + SumFunctionOnSet(Effects(b), EntriesOf(b, a))
        BY <1>2, <4>2, EffectsMoved
      <4>4. QED
        BY <3>1, <3>2, <4>1, <4>3
    <3>4. e.accounts[a].held = SumFunctionOnSet(Reserved(e), OpenHolds(e, a))
      <4> DEFINE o == SumFunctionOnSet(Reserved(d), OpenHolds(d, a))
                 x == SumFunctionOnSet(Reserved(d), SettledFor(d, b, a))
                 t == SumFunctionOnSet(PlacedAmounts(b), PlacedFor(b, a))
      <4>1. BalanceOf(d, a).held = o
        BY ColumnsAre
      <4>2. SumFunctionOnSet(Reserved(e), OpenHolds(e, a)) = o - x + t
        BY <1>2, HoldsMoved
      <4>3. BalanceOf(d, a).held \in Int /\ x \in Int /\ t \in Int
        <5>1. BalanceOf(d, a).held \in Int
          BY DEF BalanceOf, Zero, DataOK
        <5>2. x \in Int
          <6>1. IsFiniteSet(SettledFor(d, b, a)) /\ SettledFor(d, b, a) \subseteq DOMAIN d.holds
            BY FS_Subset DEF SettledFor, OpenHolds, BooksFit
          <6>2. \A h \in SettledFor(d, b, a) : Reserved(d)[h] \in Int
            BY <6>1, ReservedInt
          <6>3. QED
            BY <6>1, <6>2, SumInt
        <5>3. t \in Int
          <6>1. IsFiniteSet(PlacedFor(b, a)) /\ PlacedFor(b, a) \subseteq DOMAIN b.places
            BY <1>2, FS_Subset DEF PlacedFor, Balanced
          <6>2. \A h \in PlacedFor(b, a) : PlacedAmounts(b)[h] \in Int
            <7>1. ASSUME NEW h \in DOMAIN b.places PROVE b.places[h].amount \in Int
              <8>1. b.places[h] \in HoldRow
                BY DEF BatchOK
              <8>2. QED
                BY <8>1, HoldAmount
            <7>2. QED
              BY <6>1, <7>1 DEF PlacedAmounts
          <6>3. QED
            BY <6>1, <6>2, SumInt
        <5>4. QED
          BY <5>1, <5>2, <5>3
      <4> HIDE DEF o, x, t
      <4>4. MovedHeld(b, a) = t - x
        BY <3>2 DEF t, x
      <4>5. QED
        BY <3>1, <4>1, <4>2, <4>3, <4>4
    <3>5. QED
      BY <3>3, <3>4
  <2> HIDE DEF e
  <2>7. BooksFit(e)
    BY <2>3, <2>4, <2>5, <2>6 DEF BooksFit
  <2>8. QED
    BY <1>2, <2>7 DEF e, Run
<1>3. QED
  BY <1>1, <1>2 DEF Run

\* The sums of a batch of one entry that places and settles nothing, or one hold.
LEMMA OneEntry ==
  ASSUME NEW b, NEW r, NEW a, DOMAIN b.entries = {r}, b.entries[r].account = a, Effects(b)[r] \in Int
  PROVE  /\ IsFiniteSet(DOMAIN b.entries)
         /\ SumFunctionOnSet(Effects(b), EntriesOf(b, a)) = Effects(b)[r]
         /\ \A x : x # a => SumFunctionOnSet(Effects(b), EntriesOf(b, x)) = 0
<1>1. IsFiniteSet(DOMAIN b.entries)
  BY FS_Singleton
<1>2. EntriesOf(b, a) = {r}
  BY DEF EntriesOf
<1>3. \A x : x # a => EntriesOf(b, x) = {}
  BY DEF EntriesOf
<1>4. SumFunctionOnSet(Effects(b), {r}) = Effects(b)[r]
  BY SumSingle
<1>5. SumFunctionOnSet(Effects(b), {}) = 0
  BY SumEmpty
<1>6. QED
  BY <1>1, <1>2, <1>3, <1>4, <1>5

LEMMA NothingPlaced ==
  ASSUME NEW b, DOMAIN b.places = {}, NEW a
  PROVE  IsFiniteSet(DOMAIN b.places) /\ SumFunctionOnSet(PlacedAmounts(b), PlacedFor(b, a)) = 0
<1>1. PlacedFor(b, a) = {}
  BY DEF PlacedFor
<1>2. SumFunctionOnSet(PlacedAmounts(b), {}) = 0
  BY SumEmpty
<1>3. QED
  BY <1>1, <1>2, FS_EmptySet

LEMMA NothingSettled ==
  ASSUME NEW d, NEW b, DOMAIN b.settles = {}, NEW a
  PROVE  SumFunctionOnSet(Reserved(d), SettledFor(d, b, a)) = 0
<1>1. SettledFor(d, b, a) = {}
  BY DEF SettledFor
<1>2. SumFunctionOnSet(Reserved(d), {}) = 0
  BY SumEmpty
<1>3. QED
  BY <1>1, <1>2

LEMMA PostBalanced ==
  ASSUME NEW d, NEW kind \in {"credit", "debit"}, NEW a \in Account, NEW n \in Nat, NEW ref
  PROVE  Balanced(d, PostBatch(kind, a, n, ref))
<1> DEFINE b == PostBatch(kind, a, n, ref)
<1>1. /\ DOMAIN b.entries = {ref} /\ DOMAIN b.places = {} /\ DOMAIN b.settles = {} /\ b.opens = {a}
      /\ b.entries[ref].account = a /\ Effects(b)[ref] = Signed(kind, n)
      /\ b.first = Move(a, Signed(kind, n), 0) /\ b.second = Move(a, 0, 0)
  BY DEF PostBatch, Row, NoRows, NewEntry, Effects, BalanceEffect, Signed
<1>2. Signed(kind, n) \in Int
  BY DEF Signed
<1> HIDE DEF b
<1>3. \A x : MovedBalance(b, x) = (IF x = a THEN Signed(kind, n) ELSE 0) /\ MovedHeld(b, x) = 0
  BY <1>1, <1>2 DEF MovedBalance, MovedHeld, Move
<1>4. /\ IsFiniteSet(DOMAIN b.entries)
      /\ SumFunctionOnSet(Effects(b), EntriesOf(b, a)) = Signed(kind, n)
      /\ \A x : x # a => SumFunctionOnSet(Effects(b), EntriesOf(b, x)) = 0
  <2>1. Effects(b)[ref] \in Int
    BY <1>1, <1>2
  <2>2. IsFiniteSet(DOMAIN b.entries)
    BY <1>1, <2>1, OneEntry
  <2>3. SumFunctionOnSet(Effects(b), EntriesOf(b, a)) = Effects(b)[ref]
    BY <1>1, <2>1, OneEntry
  <2>4. \A x : x # a => SumFunctionOnSet(Effects(b), EntriesOf(b, x)) = 0
    BY <1>1, <2>1, OneEntry
  <2>5. QED
    BY <1>1, <2>2, <2>3, <2>4
<1>5. \A x : /\ IsFiniteSet(DOMAIN b.places)
             /\ SumFunctionOnSet(PlacedAmounts(b), PlacedFor(b, x)) = 0
             /\ SumFunctionOnSet(Reserved(d), SettledFor(d, b, x)) = 0
  BY <1>1, NothingPlaced, NothingSettled
<1>6. Balanced(d, b)
  BY <1>1, <1>3, <1>4, <1>5 DEF Balanced, Opened
<1>7. QED
  BY <1>6 DEF b

\* The opposite of an entry is on its account, which is open.
LEMMA ReverseBalanced ==
  ASSUME NEW d, NEW w, DataOK(d), BooksFit(d), w.op = "reverse", ReadStands(d, w)
  PROVE  Balanced(d, ReverseBatch(w.ref, w.kind, w.account, w.amount))
<1> DEFINE b == ReverseBatch(w.ref, w.kind, w.account, w.amount)
           r == Derived(w.ref, "reverse")
           a == w.account
<1>1. /\ w.kind \in {"credit", "debit"} /\ a \in DOMAIN d.accounts /\ w.amount \in Nat
  BY DEF ReadStands, Opposite, BooksFit, DataOK, EntryRow
<1>2. /\ DOMAIN b.entries = {r} /\ DOMAIN b.places = {} /\ DOMAIN b.settles = {} /\ b.opens = {}
      /\ b.entries[r].account = a /\ Effects(b)[r] = Signed(w.kind, w.amount)
      /\ b.first = Move(a, Signed(w.kind, w.amount), 0) /\ b.second = Move(a, 0, 0)
  BY <1>1 DEF ReverseBatch, Row, NoRows, NewEntry, Effects, BalanceEffect, Signed
<1>3. Signed(w.kind, w.amount) \in Int
  BY <1>1 DEF Signed
<1> HIDE DEF b, r
<1>4. \A x : MovedBalance(b, x) = (IF x = a THEN Signed(w.kind, w.amount) ELSE 0) /\ MovedHeld(b, x) = 0
  BY <1>2, <1>3 DEF MovedBalance, MovedHeld, Move
<1>5. /\ IsFiniteSet(DOMAIN b.entries)
      /\ SumFunctionOnSet(Effects(b), EntriesOf(b, a)) = Signed(w.kind, w.amount)
      /\ \A x : x # a => SumFunctionOnSet(Effects(b), EntriesOf(b, x)) = 0
  <2>1. Effects(b)[r] \in Int
    BY <1>2, <1>3
  <2>2. IsFiniteSet(DOMAIN b.entries)
    BY <1>2, <2>1, OneEntry
  <2>3. SumFunctionOnSet(Effects(b), EntriesOf(b, a)) = Effects(b)[r]
    BY <1>2, <2>1, OneEntry
  <2>4. \A x : x # a => SumFunctionOnSet(Effects(b), EntriesOf(b, x)) = 0
    BY <1>2, <2>1, OneEntry
  <2>5. QED
    BY <1>2, <2>2, <2>3, <2>4
<1>6. \A x : /\ IsFiniteSet(DOMAIN b.places)
             /\ SumFunctionOnSet(PlacedAmounts(b), PlacedFor(b, x)) = 0
             /\ SumFunctionOnSet(Reserved(d), SettledFor(d, b, x)) = 0
  BY <1>2, NothingPlaced, NothingSettled
<1>7. Balanced(d, b)
  BY <1>1, <1>2, <1>4, <1>5, <1>6 DEF Balanced, Opened
<1>8. QED
  BY <1>7 DEF b

LEMMA HoldBalanced ==
  ASSUME NEW d, NEW a \in Account, NEW n \in Nat, NEW ref
  PROVE  Balanced(d, HoldBatch(a, n, ref))
<1> DEFINE b == HoldBatch(a, n, ref)
<1>1. /\ DOMAIN b.entries = {ref} /\ DOMAIN b.places = {ref} /\ DOMAIN b.settles = {} /\ b.opens = {a}
      /\ b.entries[ref].account = a /\ Effects(b)[ref] = 0
      /\ b.places[ref].account = a /\ b.places[ref].status = "open" /\ PlacedAmounts(b)[ref] = n
      /\ b.first = Move(a, 0, n) /\ b.second = Move(a, 0, 0)
  BY DEF HoldBatch, Row, NoRows, NewEntry, NewHold, Effects, BalanceEffect, PlacedAmounts
<1> HIDE DEF b
<1>2. \A x : MovedBalance(b, x) = 0 /\ MovedHeld(b, x) = IF x = a THEN n ELSE 0
  BY <1>1 DEF MovedBalance, MovedHeld, Move
<1>3. /\ IsFiniteSet(DOMAIN b.entries)
      /\ SumFunctionOnSet(Effects(b), EntriesOf(b, a)) = 0
      /\ \A x : x # a => SumFunctionOnSet(Effects(b), EntriesOf(b, x)) = 0
  <2>1. Effects(b)[ref] \in Int /\ DOMAIN b.entries = {ref} /\ b.entries[ref].account = a
    BY <1>1
  <2>2. IsFiniteSet(DOMAIN b.entries)
    BY <2>1, OneEntry
  <2>3. SumFunctionOnSet(Effects(b), EntriesOf(b, a)) = Effects(b)[ref]
    BY <2>1, OneEntry
  <2>4. \A x : x # a => SumFunctionOnSet(Effects(b), EntriesOf(b, x)) = 0
    BY <2>1, OneEntry
  <2>5. QED
    BY <1>1, <2>2, <2>3, <2>4
<1>4. IsFiniteSet(DOMAIN b.places)
  <2>1. DOMAIN b.places = {ref}
    BY <1>1
  <2>2. QED
    BY <2>1, FS_Singleton
<1>5. SumFunctionOnSet(PlacedAmounts(b), PlacedFor(b, a)) = n
  <2>1. PlacedFor(b, a) = {ref}
    BY <1>1 DEF PlacedFor
  <2>2. SumFunctionOnSet(PlacedAmounts(b), {ref}) = PlacedAmounts(b)[ref]
    <3>1. PlacedAmounts(b)[ref] \in Int
      BY <1>1
    <3>2. QED
      BY <3>1, SumSingle
  <2>3. QED
    BY <1>1, <2>1, <2>2
<1>6. \A x : x # a => SumFunctionOnSet(PlacedAmounts(b), PlacedFor(b, x)) = 0
  <2>1. \A x : x # a => PlacedFor(b, x) = {}
    BY <1>1 DEF PlacedFor
  <2>2. SumFunctionOnSet(PlacedAmounts(b), {}) = 0
    BY SumEmpty
  <2>3. QED
    BY <2>1, <2>2
<1>7. \A x : SumFunctionOnSet(Reserved(d), SettledFor(d, b, x)) = 0
  BY <1>1, NothingSettled
<1>8. Balanced(d, b)
  BY <1>1, <1>2, <1>3, <1>4, <1>5, <1>6, <1>7 DEF Balanced, Opened
<1>9. QED
  BY <1>8 DEF b

LEMMA TransferBalanced ==
  ASSUME NEW d, NEW from \in Account, NEW to \in Account, NEW n \in Nat, NEW ref
  PROVE  Balanced(d, TransferBatch(from, to, n, ref))
<1> DEFINE b == TransferBatch(from, to, n, ref)
           out == Derived(ref, "out")
           in == Derived(ref, "in")
<1>1. /\ DOMAIN b.entries = {out, in} /\ DOMAIN b.places = {} /\ DOMAIN b.settles = {} /\ b.opens = {from, to}
      /\ b.first = Move(from, -n, 0) /\ b.second = Move(to, n, 0) /\ out # in
      /\ b.entries[out] = NewEntry(from, "transfer_out", n, in)
      /\ b.entries[in] = NewEntry(to, "transfer_in", n, out)
  BY DEF TransferBatch, Row, NoRows, Insert, Derived
<1> HIDE DEF b, out, in
<1>2. b.entries[out].account = from /\ b.entries[in].account = to /\ Effects(b)[out] = -n /\ Effects(b)[in] = n
  BY <1>1 DEF NewEntry, Effects, BalanceEffect
<1>3. \A x : /\ MovedBalance(b, x) = (IF x = from THEN -n ELSE 0) + (IF x = to THEN n ELSE 0)
             /\ MovedHeld(b, x) = 0
  BY <1>1 DEF MovedBalance, MovedHeld, Move
<1>4. IsFiniteSet(DOMAIN b.entries)
  <2>1. IsFiniteSet({out} \cup {in}) /\ {out} \cup {in} = {out, in}
    BY FS_Singleton, FS_Union
  <2>2. QED
    BY <1>1, <2>1
<1>5. ASSUME NEW x
      PROVE  SumFunctionOnSet(Effects(b), EntriesOf(b, x)) = (IF x = from THEN -n ELSE 0) + (IF x = to THEN n ELSE 0)
  <2> DEFINE S == IF x = from THEN {out} ELSE {}
             T == IF x = to THEN {in} ELSE {}
  <2>1. EntriesOf(b, x) = S \cup T /\ S \cap T = {}
    BY <1>1, <1>2 DEF EntriesOf
  <2>2. \A r \in S \cup T : Effects(b)[r] \in Int
    BY <1>2
  <2>3. IsFiniteSet(S) /\ IsFiniteSet(T)
    BY FS_Singleton, FS_EmptySet
  <2>4. SumFunctionOnSet(Effects(b), S) = IF x = from THEN -n ELSE 0
    <3>1. SumFunctionOnSet(Effects(b), {out}) = Effects(b)[out]
      <4>1. Effects(b)[out] \in Int
        BY <1>2
      <4>2. QED
        BY <4>1, SumSingle
    <3>2. SumFunctionOnSet(Effects(b), {}) = 0
      BY SumEmpty
    <3>3. QED
      BY <1>2, <3>1, <3>2
  <2>5. SumFunctionOnSet(Effects(b), T) = IF x = to THEN n ELSE 0
    <3>1. SumFunctionOnSet(Effects(b), {in}) = Effects(b)[in]
      <4>1. Effects(b)[in] \in Int
        BY <1>2
      <4>2. QED
        BY <4>1, SumSingle
    <3>2. SumFunctionOnSet(Effects(b), {}) = 0
      BY SumEmpty
    <3>3. QED
      BY <1>2, <3>1, <3>2
  <2> HIDE DEF S, T
  <2>6. SumFunctionOnSet(Effects(b), S \cup T) = SumFunctionOnSet(Effects(b), S) + SumFunctionOnSet(Effects(b), T)
    BY <2>1, <2>2, <2>3, SumUnion
  <2>7. QED
    BY <2>1, <2>4, <2>5, <2>6
<1>6. \A x : /\ IsFiniteSet(DOMAIN b.places)
             /\ SumFunctionOnSet(PlacedAmounts(b), PlacedFor(b, x)) = 0
             /\ SumFunctionOnSet(Reserved(d), SettledFor(d, b, x)) = 0
  BY <1>1, NothingPlaced, NothingSettled
<1>7. \A r \in DOMAIN b.entries : b.entries[r].account \in Opened(d, b)
  BY <1>1, <1>2 DEF Opened
<1>8. Balanced(d, b)
  BY <1>1, <1>3, <1>4, <1>5, <1>6, <1>7 DEF Balanced
<1>9. QED
  BY <1>8 DEF b

\* A batch that settles a hold is applied only while the hold is open, and gives back all of it.
LEMMA SettleBalanced ==
  ASSUME NEW d, NEW w, NEW b, NEW n \in Nat, NEW taken \in Int,
         DataOK(d), BooksFit(d), LogFits(d), ReadStands(d, w), w.op \in {"release", "capture"},
         DOMAIN b.entries = {Derived(w.ref, "resolve")}, DOMAIN b.places = {}, DOMAIN b.settles = {w.ref},
         b.opens = {}, b.entries[Derived(w.ref, "resolve")] = NewEntry(w.account, w.op, n, w.ref),
         b.settles[w.ref] # "open", taken = IF w.op = "capture" THEN -n ELSE 0,
         b.first = Move(w.account, taken, -w.amount), b.second = Move(w.account, 0, 0)
  PROVE  Balanced(d, b)
<1> DEFINE r == Derived(w.ref, "resolve")
           a == w.account
<1>1. SUFFICES ASSUME Verdict(d, b) = "applied" PROVE Balanced(d, b)
  BY DEF Balanced
<1>2. w.ref \in DOMAIN d.holds /\ d.holds[w.ref].account = a /\ d.holds[w.ref].amount = w.amount
  BY DEF ReadStands
<1>3. w.amount \in Int /\ a \in DOMAIN d.accounts
  BY <1>2, HoldAmount DEF DataOK, BooksFit
<1>4. d.holds[w.ref].status = "open"
  <2>1. r \notin DOMAIN d.entries
    BY <1>1, AddedEntry
  <2>2. QED
    BY <1>2, <2>1 DEF LogFits, HoldFits
<1>5. b.entries[r].account = a /\ Effects(b)[r] = taken
  BY DEF NewEntry, Effects, BalanceEffect
<1> HIDE DEF r
<1>6. \A x : /\ MovedBalance(b, x) = (IF x = a THEN taken ELSE 0)
             /\ MovedHeld(b, x) = (IF x = a THEN -w.amount ELSE 0)
  BY <1>3 DEF MovedBalance, MovedHeld, Move
<1>7. /\ IsFiniteSet(DOMAIN b.entries)
      /\ SumFunctionOnSet(Effects(b), EntriesOf(b, a)) = taken
      /\ \A x : x # a => SumFunctionOnSet(Effects(b), EntriesOf(b, x)) = 0
  <2>1. DOMAIN b.entries = {r} /\ b.entries[r].account = a /\ Effects(b)[r] \in Int
    BY <1>5 DEF r
  <2>2. IsFiniteSet(DOMAIN b.entries)
    BY <2>1, OneEntry
  <2>3. SumFunctionOnSet(Effects(b), EntriesOf(b, a)) = Effects(b)[r]
    BY <2>1, OneEntry
  <2>4. \A x : x # a => SumFunctionOnSet(Effects(b), EntriesOf(b, x)) = 0
    BY <2>1, OneEntry
  <2>5. QED
    BY <1>5, <2>2, <2>3, <2>4
<1>8. \A x : IsFiniteSet(DOMAIN b.places) /\ SumFunctionOnSet(PlacedAmounts(b), PlacedFor(b, x)) = 0
  BY NothingPlaced
<1>9. SumFunctionOnSet(Reserved(d), SettledFor(d, b, a)) = w.amount
  <2>1. SettledFor(d, b, a) = {w.ref} /\ Reserved(d)[w.ref] = w.amount
    BY <1>2, <1>4 DEF SettledFor, OpenHolds, Reserved
  <2>2. SumFunctionOnSet(Reserved(d), {w.ref}) = Reserved(d)[w.ref]
    <3>1. Reserved(d)[w.ref] \in Int
      BY <1>3, <2>1
    <3>2. QED
      BY <3>1, SumSingle
  <2>3. QED
    BY <2>1, <2>2
<1>10. \A x : x # a => SumFunctionOnSet(Reserved(d), SettledFor(d, b, x)) = 0
  <2>1. \A x : x # a => SettledFor(d, b, x) = {}
    BY <1>2 DEF SettledFor, OpenHolds
  <2>2. SumFunctionOnSet(Reserved(d), {}) = 0
    BY SumEmpty
  <2>3. QED
    BY <2>1, <2>2
<1>11. ASSUME NEW x
       PROVE  /\ MovedBalance(b, x) = SumFunctionOnSet(Effects(b), EntriesOf(b, x))
              /\ MovedHeld(b, x) = SumFunctionOnSet(PlacedAmounts(b), PlacedFor(b, x))
                                   - SumFunctionOnSet(Reserved(d), SettledFor(d, b, x))
  <2>1. CASE x = a
    BY <1>3, <1>6, <1>7, <1>8, <1>9, <2>1
  <2>2. CASE x # a
    BY <1>6, <1>7, <1>8, <1>10, <2>2
  <2>3. QED
    BY <2>1, <2>2
<1>12. \A x \in DOMAIN b.entries : b.entries[x].account \in Opened(d, b)
  BY <1>3, <1>5 DEF Opened, r
<1>13. QED
  BY <1>7, <1>8, <1>11, <1>12 DEF Balanced

LEMMA ReleaseBalanced ==
  ASSUME NEW d, NEW w, DataOK(d), BooksFit(d), LogFits(d), ReadStands(d, w), w.op = "release", w.amount \in Nat
  PROVE  Balanced(d, ReleaseBatch(w.ref, w.account, w.amount))
<1> DEFINE b == ReleaseBatch(w.ref, w.account, w.amount)
<1>1. /\ DOMAIN b.entries = {Derived(w.ref, "resolve")} /\ DOMAIN b.places = {} /\ DOMAIN b.settles = {w.ref}
      /\ b.opens = {} /\ b.entries[Derived(w.ref, "resolve")] = NewEntry(w.account, w.op, w.amount, w.ref)
      /\ b.settles[w.ref] # "open"
      /\ b.first = Move(w.account, 0, -w.amount) /\ b.second = Move(w.account, 0, 0)
  BY DEF ReleaseBatch, Row, NoRows
<1> HIDE DEF b
<1>2. Balanced(d, b)
  BY <1>1, SettleBalanced
<1>3. QED
  BY <1>2 DEF b

LEMMA CaptureBalanced ==
  ASSUME NEW d, NEW w, DataOK(d), BooksFit(d), LogFits(d), ReadStands(d, w), w.op = "capture", w.taken \in Nat
  PROVE  Balanced(d, CaptureBatch(w.ref, w.account, w.amount, w.taken))
<1> DEFINE b == CaptureBatch(w.ref, w.account, w.amount, w.taken)
<1>1. /\ DOMAIN b.entries = {Derived(w.ref, "resolve")} /\ DOMAIN b.places = {} /\ DOMAIN b.settles = {w.ref}
      /\ b.opens = {} /\ b.entries[Derived(w.ref, "resolve")] = NewEntry(w.account, w.op, w.taken, w.ref)
      /\ b.settles[w.ref] # "open"
      /\ b.first = Move(w.account, -w.taken, -w.amount) /\ b.second = Move(w.account, 0, 0)
  BY DEF CaptureBatch, Row, NoRows
<1>2. -w.taken \in Int
  OBVIOUS
<1> HIDE DEF b
<1>3. Balanced(d, b)
  BY <1>1, <1>2, SettleBalanced
<1>4. QED
  BY <1>3 DEF b

LEMMA BooksIssue ==
  ASSUME TypeInv, BooksFit(db), NEW c, NEW w, NEW b, Issue(c, w, b), BatchOK(b), Balanced(db, b)
  PROVE  BooksFit(db)'
<1>1. db' = Run(db, b)
  BY DEF Issue
<1>2. BooksFit(Run(db, b))
  BY BalancedFits DEF TypeInv
<1>3. QED
  BY <1>1, <1>2

LEMMA NextBooks ==
  ASSUME Erasable = {}, TypeInv, LogKept, BooksFit(db), [Next]_vars
  PROVE  BooksFit(db)'
<1>1. ASSUME NEW c \in Caller, NEW plane \in Surface, NEW kind \in {"credit", "debit"},
             NEW a \in Account, NEW n \in Amount, NEW ref \in Ref, Post(c, plane, kind, a, n, ref)
      PROVE  BooksFit(db)'
  <2>1. n \in Nat
    BY AmountAssumption
  <2>2. BatchOK(PostBatch(kind, a, n, ref)) /\ Balanced(db, PostBatch(kind, a, n, ref))
    BY <2>1, PostOK, PostBalanced
  <2>3. QED
    BY <1>1, <2>2, BooksIssue DEF Post
<1>2. ASSUME NEW c \in Caller, NEW from \in Account, NEW to \in Account, NEW n \in Amount, NEW ref \in Ref,
             Transfer(c, from, to, n, ref)
      PROVE  BooksFit(db)'
  <2>1. n \in Nat
    BY AmountAssumption
  <2>2. BatchOK(TransferBatch(from, to, n, ref)) /\ Balanced(db, TransferBatch(from, to, n, ref))
    BY <2>1, TransferOK, TransferBalanced
  <2>3. QED
    BY <1>2, <2>2, BooksIssue DEF Transfer
<1>3. ASSUME NEW c \in Caller, NEW a \in Account, NEW n \in Amount, NEW ref \in Ref, PlaceHold(c, a, n, ref)
      PROVE  BooksFit(db)'
  <2>1. n \in Nat
    BY AmountAssumption
  <2>2. BatchOK(HoldBatch(a, n, ref)) /\ Balanced(db, HoldBatch(a, n, ref))
    BY <2>1, HoldOK, HoldBalanced
  <2>3. QED
    BY <1>3, <2>2, BooksIssue DEF PlaceHold
<1>4. ASSUME NEW c \in Caller, NEW op \in Op, call[c].stage = "read", call[c].op = op
      PROVE  /\ call[c] \in Calls /\ ReadStands(db, call[c])
             /\ call[c].ref \in Ref /\ call[c].kind \in Kind /\ call[c].account \in Account
             /\ call[c].amount \in Nat /\ call[c].taken \in Nat
  <2>1. call[c] \in Calls /\ call[c] # NoCall
    BY <1>4, StageInProgress DEF Stage, NoCall
  <2>2. QED
    BY <2>1 DEF LogKept, ReadsStand, Calls
<1>5. ASSUME NEW c \in Caller, CommitReversal(c)
      PROVE  BooksFit(db)'
  <2> DEFINE b == ReverseBatch(call[c].ref, call[c].kind, call[c].account, call[c].amount)
  <2>1. call[c].stage = "read" /\ call[c].op = "reverse"
    BY <1>5 DEF CommitReversal
  <2>2. BatchOK(b) /\ Balanced(db, b)
    BY <1>4, <2>1, ReverseOK, ReverseBalanced DEF TypeInv, Op
  <2>3. QED
    BY <1>5, <2>2, BooksIssue DEF CommitReversal
<1>6. ASSUME NEW c \in Caller, CommitRelease(c)
      PROVE  BooksFit(db)'
  <2> DEFINE b == ReleaseBatch(call[c].ref, call[c].account, call[c].amount)
  <2>1. call[c].stage = "read" /\ call[c].op = "release"
    BY <1>6 DEF CommitRelease
  <2>2. BatchOK(b) /\ Balanced(db, b)
    BY <1>4, <2>1, ReleaseOK, ReleaseBalanced DEF TypeInv, LogKept, Op
  <2>3. QED
    BY <1>6, <2>2, BooksIssue DEF CommitRelease
<1>7. ASSUME NEW c \in Caller, CommitCapture(c)
      PROVE  BooksFit(db)'
  <2> DEFINE b == CaptureBatch(call[c].ref, call[c].account, call[c].amount, call[c].taken)
  <2>1. call[c].stage = "read" /\ call[c].op = "capture"
    BY <1>7 DEF CommitCapture
  <2>2. BatchOK(b) /\ Balanced(db, b)
    BY <1>4, <2>1, CaptureOK, CaptureBalanced DEF TypeInv, LogKept, Op
  <2>3. QED
    BY <1>7, <2>2, BooksIssue DEF CommitCapture
<1>8. ASSUME NEW c \in Caller, NEW named, NEW ref, NEW n,
             \/ ReadEntry(c, named, ref) \/ ReadHoldToRelease(c, named, ref) \/ ReadHoldToCapture(c, ref, n)
             \/ ProveReplay(c) \/ RereadHold(c) \/ EmitAudit(c) \/ Crash(c)
      PROVE  BooksFit(db)'
  <2>1. db' = db
    BY <1>8 DEF ReadEntry, ReadHoldToRelease, ReadHoldToCapture, ProveReplay, RereadHold, EmitAudit, Crash
  <2>2. QED
    BY <2>1
<1>9. CASE UNCHANGED vars
  <2>1. db' = db
    BY <1>9 DEF vars
  <2>2. QED
    BY <2>1
<1>10. QED
  BY <1>1, <1>2, <1>3, <1>5, <1>6, <1>7, <1>8, <1>9 DEF Next, Write, Proceed

-----------------------------------------------------------------------------
(* What a log that fits together says *)

LEMMA NobodyErased == ASSUME erased = {}, NEW a PROVE Living(a)
  BY DEF Living

\* A settling entry under a hold's own ref is the one its status tells of.
LEMMA Resolved ==
  ASSUME NEW d, LogFits(d), NEW ref, NEW r \in DOMAIN d.entries, d.entries[r].kind \in {"release", "capture"},
         d.entries[r].related = ref
  PROVE  /\ r = Derived(ref, "resolve") /\ ref \in DOMAIN d.holds
         /\ d.entries[r].account = d.holds[ref].account
         /\ d.holds[ref].status = IF d.entries[r].kind = "release" THEN "released" ELSE "captured"
  BY DEF LogFits, EntryFits

LEMMA SettledByLog == TypeInv /\ LogKept => SettledOnce
<1> SUFFICES ASSUME TypeInv, LogKept, NEW ref \in DOMAIN db.holds
             PROVE  CASE db.holds[ref].status = "open" -> Resolution(ref) = {}
                        [] db.holds[ref].status = "released" ->
                             /\ Resolution(ref) = {Derived(ref, "resolve")}
                             /\ Settles(db.entries[Derived(ref, "resolve")], ref, "release")
                        [] db.holds[ref].status = "captured" ->
                             /\ Resolution(ref) = {Derived(ref, "resolve")}
                             /\ Settles(db.entries[Derived(ref, "resolve")], ref, "capture")
  BY DEF SettledOnce
<1>2. db.holds[ref].status \in Status
  BY DEF TypeInv, DataOK, HoldRow
<1>3. \A r \in Resolution(ref) : r = Derived(ref, "resolve") /\ db.holds[ref].status # "open"
  BY Resolved DEF LogKept, Resolution
<1>4. ASSUME db.holds[ref].status # "open"
      PROVE  /\ Resolution(ref) = {Derived(ref, "resolve")}
             /\ Settles(db.entries[Derived(ref, "resolve")], ref,
                        IF db.holds[ref].status = "released" THEN "release" ELSE "capture")
  <2>1. /\ Derived(ref, "resolve") \in DOMAIN db.entries
        /\ db.entries[Derived(ref, "resolve")].kind \in {"release", "capture"}
        /\ db.entries[Derived(ref, "resolve")].related = ref
    BY <1>4 DEF LogKept, LogFits, HoldFits
  <2>2. Derived(ref, "resolve") \in Resolution(ref)
    BY <2>1, NobodyErased DEF Resolution, LogKept
  <2>3. /\ db.entries[Derived(ref, "resolve")].account = db.holds[ref].account
        /\ db.holds[ref].status = IF db.entries[Derived(ref, "resolve")].kind = "release"
                                     THEN "released" ELSE "captured"
    BY <2>1, Resolved DEF LogKept
  <2>4. QED
    BY <1>2, <1>3, <2>1, <2>2, <2>3 DEF Settles, Status
<1>5. QED
  BY <1>2, <1>3, <1>4 DEF Status

LEMMA ReversedByLog == TypeInv /\ LogKept => ReversedOnce
<1> SUFFICES ASSUME TypeInv, LogKept PROVE ReversedOnce
  OBVIOUS
<1>2. ASSUME NEW r \in Reversals
      PROVE  LET original == db.entries[r].related
             IN /\ r = Derived(original, "reverse") /\ original \in DOMAIN db.entries
                /\ original \notin Reversals
                /\ db.entries[r] = [db.entries[original] EXCEPT !.kind = Opposite(@), !.related = original]
  BY <1>2 DEF LogKept, LogFits, EntryFits, Reversals, Reversible
<1>3. QED
  BY <1>2 DEF ReversedOnce

\* A write of the control plane is one of four, and never a capture.
LEMMA RoutedWrites ==
  ASSUME TypeInv, LogKept, NEW c \in Caller, call[c] # NoCall, call[c].plane = "controlPlane"
  PROVE  call[c].op \in {"credit", "debit", "reverse", "release"}
<1>1. call[c] \in Calls /\ ReadStands(db, call[c])
  BY InProgress DEF LogKept, ReadsStand
<1>2. QED
  BY <1>1 DEF ReadStands, Calls, Op

ReplyIs(w) ==
  CASE w.op \in {"credit", "debit"} -> SameEntry(db, w.ref, w.account, w.kind, w.amount)
    [] w.op = "reverse" -> SameEntry(db, Derived(w.ref, "reverse"), w.account, w.kind, w.amount)
    [] w.op = "release" -> HoldIs(db, w.ref, "released")

\* The row behind a control plane's replay is the very write it repeats.
LEMMA ReplayIsOwn ==
  ASSUME TypeInv, LogKept, NEW c \in Caller, call[c].stage = "aborted", IsOwnRow(call[c]),
         call[c].op # "release", call[c].plane = "controlPlane"
  PROVE  ReplyIs(call[c])
<1> DEFINE w == call[c]
<1>1. w \in Calls /\ w # NoCall
  BY StageInProgress DEF Stage, NoCall
<1>2. CASE w.op \in {"credit", "debit"}
  BY <1>2 DEF IsOwnRow, ReplyIs
<1>3. CASE w.op = "reverse"
  <2> DEFINE r == Derived(w.ref, "reverse")
             e == db.entries[r]
  <2>1. r \in DOMAIN db.entries /\ e.related = w.ref /\ e.account = w.account
    BY <1>3 DEF IsOwnRow, EntryRef, OwnDerived
  <2>2. w.ref # NoRef /\ e.kind \in Kind
    BY <1>1, <2>1, NoRefAssumption DEF Calls, AnyRef, TypeInv, DataOK, EntryRow
  <2>3. e.kind \in {"credit", "debit"}
    BY <2>1, <2>2 DEF LogKept, LogFits, EntryFits, Kind, Derived
  <2>4. e = [db.entries[w.ref] EXCEPT !.kind = Opposite(@), !.related = w.ref] /\ w.ref \in DOMAIN db.entries
    BY <2>1, <2>2, <2>3 DEF LogKept, LogFits, EntryFits
  <2>5. w.amount = db.entries[w.ref].amount /\ w.kind = Opposite(db.entries[w.ref].kind)
    BY <1>1, <1>3 DEF LogKept, ReadsStand, ReadStands
  <2>6. e.amount = w.amount /\ e.kind = w.kind
    BY <2>4, <2>5 DEF TypeInv, DataOK, EntryRow
  <2>7. QED
    BY <1>3, <2>1, <2>6 DEF SameEntry, ReplyIs
<1>4. QED
  BY <1>1, <1>2, <1>3, RoutedWrites

\* A hold that a resolution of its own stands for, and that was not captured, is released.
LEMMA RereadIsOwn ==
  ASSUME TypeInv, LogKept, NEW c \in Caller, call[c].stage = "raced", ~HoldIs(db, call[c].ref, "captured")
  PROVE  call[c].op = "release" /\ HoldIs(db, call[c].ref, "released")
<1> DEFINE w == call[c]
           r == Derived(w.ref, "resolve")
<1>1. w \in Calls /\ w # NoCall
  BY StageInProgress DEF Stage, NoCall
<1>2. w.op = "release" /\ OwnDerived(db, r, w.ref, w.account)
  BY <1>1 DEF LogKept, ReadsStand, ReadStands, EntryRef
<1>3. r \in DOMAIN db.entries /\ db.entries[r].related = w.ref /\ db.entries[r].kind \in Kind /\ w.ref # NoRef
  BY <1>1, <1>2, NoRefAssumption DEF OwnDerived, TypeInv, DataOK, EntryRow, Calls, AnyRef
<1>4. db.entries[r].kind \in {"release", "capture"}
  BY <1>3 DEF LogKept, LogFits, EntryFits, Kind, Derived
<1>5. w.ref \in DOMAIN db.holds /\ db.holds[w.ref].status \in {"released", "captured"}
  BY <1>3, <1>4, Resolved DEF LogKept
<1>6. QED
  BY <1>2, <1>5 DEF HoldIs

LEMMA RepliesHonest ==
  ASSUME TypeInv, LogKept, HonestReplay, [Next]_vars
  PROVE  HonestReplay'
<1>1. ASSUME NEW w, reply'.answer = "replay", reply' = [answer |-> "replay", call |-> w],
             UNCHANGED db, ReplyIs(w)
      PROVE  HonestReplay'
  BY <1>1 DEF HonestReplay, ReplyIs
<1>2. CASE reply'.answer = "replay" => reply'.call.plane # "controlPlane"
  BY <1>2 DEF HonestReplay
<1>3. ASSUME NEW c \in Caller, NEW w, NEW b, Issue(c, w, b)
      PROVE  reply'.answer = "replay" => reply'.call.plane # "controlPlane"
  BY <1>3 DEF Issue, Answer, GoOn, Refuse, NoReply, ProvesReplay
<1>4. ASSUME NEW c \in Caller, Write(c)
      PROVE  HonestReplay'
  <2>1. ASSUME NEW named \in Named, NEW ref \in Ref, ReadHoldToRelease(c, named, ref)
        PROVE  HonestReplay'
    <3> DEFINE h == db.holds[ref]
               w == Locals("read", "release", PlaneOf(named), ref, h.account, "release", h.amount, h.amount)
    <3>1. UNCHANGED db
      BY <2>1 DEF ReadHoldToRelease
    <3>2. CASE ref \in DOMAIN db.holds /\ h.status = "released" /\ reply' = [answer |-> "replay", call |-> w]
      <4>1. ReplyIs(w)
        BY <3>2 DEF ReplyIs, HoldIs, Locals
      <4>2. QED
        BY <1>1, <3>1, <3>2, <4>1
    <3>3. CASE reply'.answer # "replay"
      BY <1>2, <3>3
    <3>4. QED
      BY <2>1, <3>2, <3>3 DEF ReadHoldToRelease, Refuse, GoOn, Answer, NoReply
  <2>2. ASSUME NEW named \in Named, NEW ref \in AnyRef, ReadEntry(c, named, ref)
        PROVE  reply'.answer # "replay"
    BY <2>2 DEF ReadEntry, Refuse, GoOn, NoReply
  <2>3. ASSUME NEW ref \in Ref, NEW n \in Amount \cup {0}, ReadHoldToCapture(c, ref, n)
        PROVE  reply'.answer # "replay"
    BY <2>3 DEF ReadHoldToCapture, Refuse, GoOn, Answer, NoReply
  <2>4. QED
    BY <1>2, <1>3, <1>4, <2>1, <2>2, <2>3 DEF Write, Post, Transfer, PlaceHold
<1>5. ASSUME NEW c \in Caller, Proceed(c)
      PROVE  HonestReplay'
  <2>1. CASE ProveReplay(c)
    <3>1. call[c] # NoCall /\ UNCHANGED db /\ call[c].stage = "aborted"
      BY <2>1 DEF ProveReplay, NoCall
    <3>2. CASE IsOwnRow(call[c]) /\ call[c].op # "release" /\ reply' = [answer |-> "replay", call |-> call[c]]
      <4>1. CASE call[c].plane = "controlPlane"
        BY <1>1, <3>1, <3>2, <4>1, ReplayIsOwn
      <4>2. QED
        BY <1>2, <3>2, <4>1
    <3>3. CASE reply'.answer = "replay" => reply'.call.plane # "controlPlane"
      BY <1>2, <3>3
    <3>4. QED
      BY <2>1, <3>2, <3>3 DEF ProveReplay, Refuse, GoOn, Answer, NoReply
  <2>2. CASE RereadHold(c)
    <3>1. UNCHANGED db /\ call[c].stage = "raced"
      BY <2>2 DEF RereadHold
    <3>2. CASE ~HoldIs(db, call[c].ref, "captured") /\ reply' = [answer |-> "replay", call |-> call[c]]
      <4>1. ReplyIs(call[c])
        BY <3>1, <3>2, RereadIsOwn DEF ReplyIs
      <4>2. QED
        BY <1>1, <3>1, <3>2, <4>1
    <3>3. CASE reply'.answer # "replay"
      BY <1>2, <3>3
    <3>4. QED
      BY <2>2, <3>2, <3>3 DEF RereadHold, Answer
  <2>3. CASE EmitAudit(c)
    BY <1>2, <2>3 DEF EmitAudit, Answer
  <2>4. QED
    BY <1>2, <1>3, <1>5, <2>1, <2>2, <2>3 DEF Proceed, CommitReversal, CommitRelease, CommitCapture
<1>6. ASSUME NEW c \in Caller, Crash(c)
      PROVE  HonestReplay'
  BY <1>2, <1>6 DEF Crash, NoReply
<1>7. ASSUME NEW u \in Erasable, Purge(u)
      PROVE  HonestReplay'
  BY <1>2, <1>7 DEF Purge, NoReply
<1>8. CASE UNCHANGED vars
  BY <1>8 DEF vars, HonestReplay, Living
<1>9. QED
  BY <1>4, <1>5, <1>6, <1>7, <1>8 DEF Next

LEMMA InitKept == Init => LogKept /\ HonestReplay
<1> SUFFICES ASSUME Init PROVE LogKept /\ HonestReplay
  OBVIOUS
<1>1. /\ erased = {} /\ DOMAIN db.entries = {} /\ DOMAIN db.holds = {} /\ DOMAIN audited = {}
      /\ \A c \in Caller : call[c] = NoCall
      /\ reply.answer # "replay"
  BY DEF Init, EmptyLedger, NoRows, NoReply
<1>2. LogFits(db) /\ ReadsStand /\ MovedWaits /\ AuditedOnce
  BY <1>1 DEF LogFits, ReadsStand, MovedWaits, AuditedOnce, NoCall
<1>3. QED
  BY <1>1, <1>2 DEF LogKept, HonestReplay

LEMMA KeptHolds ==
  ASSUME Erasable = {}
  PROVE  Spec => [](TypeInv /\ LogKept /\ HonestReplay)
<1>1. TypeInv /\ LogKept /\ HonestReplay /\ [Next]_vars => (TypeInv /\ LogKept /\ HonestReplay)'
  BY NextTyped, NextKeeps, RepliesHonest
<1>2. QED
  BY <1>1, InitTyped, InitKept, PTL DEF Spec

(***************************************************************************)
(* While nobody is erased: a hold is settled by one entry of the kind its  *)
(* status says, whichever of the releases and captures that read it open   *)
(* commits first (release, capture).                                       *)
(***************************************************************************)
THEOREM LedgerSettlesOnce == ASSUME Erasable = {} PROVE Spec => []SettledOnce
  BY KeptHolds, SettledByLog, PTL

\* While nobody is erased: a correction mirrors what it corrects, once (reverse).
THEOREM LedgerReversesOnce == ASSUME Erasable = {} PROVE Spec => []ReversedOnce
  BY KeptHolds, ReversedByLog, PTL

\* While nobody is erased: a route says "replay" only of a write that is in the log
\* (assertSameEntry, assertOwnDerived and the reread of the hold).
THEOREM LedgerRepliesHonestly == ASSUME Erasable = {} PROVE Spec => []HonestReplay
  BY KeptHolds, PTL

\* While nobody is erased: a movement is recorded once at most, and only if it moved (recordWrite).
THEOREM LedgerAuditsOnce == ASSUME Erasable = {} PROVE Spec => []AuditedOnce
<1>1. LogKept => AuditedOnce
  BY DEF LogKept
<1>2. QED
  BY <1>1, KeptHolds, PTL

\* The books hold in every reachable state.
LEMMA BooksHold ==
  ASSUME Erasable = {}
  PROVE  Spec => [](TypeInv /\ LogKept /\ BooksFit(db))
<1>1. Init => BooksFit(db)
  <2>1. SUFFICES ASSUME Init PROVE BooksFit(db)
    OBVIOUS
  <2>2. DOMAIN db.entries = {} /\ DOMAIN db.holds = {} /\ DOMAIN db.accounts = {}
    BY <2>1 DEF Init, EmptyLedger, NoRows
  <2>3. QED
    BY <2>2, FS_EmptySet DEF BooksFit
<1>2. TypeInv /\ LogKept /\ BooksFit(db) /\ [Next]_vars => BooksFit(db)'
  BY NextBooks
<1>3. QED
  BY <1>1, <1>2, KeptHolds, PTL DEF Spec

(***************************************************************************)
(* While nobody is erased: an account's balance is the sum of its entries  *)
(* and what it holds the sum of its open holds, whatever calls interleave, *)
(* repeat or die between the read of a row and the batch it leads to       *)
(* (LedgerTransaction: the log "explains" the materialized balance).       *)
(***************************************************************************)
THEOREM LedgerExplained == ASSUME Erasable = {} PROVE Spec => []Explained
<1>1. BooksFit(db) => Explained
  <2>1. SUFFICES ASSUME BooksFit(db) PROVE Explained
    OBVIOUS
  <2>2. QED
    BY <2>1, ColumnsAre DEF Explained
<1>2. QED
  BY <1>1, BooksHold, PTL

-----------------------------------------------------------------------------
(* What a hold reserves is there when it is settled *)

\* The reserve of an account covers each of its open holds.
LEMMA ReserveCovers ==
  ASSUME NEW d, DataOK(d), BooksFit(d), NEW h \in DOMAIN d.holds, d.holds[h].status = "open"
  PROVE  /\ d.holds[h].account \in DOMAIN d.accounts
         /\ d.holds[h].amount <= d.accounts[d.holds[h].account].held
<1> DEFINE a == d.holds[h].account
           open == OpenHolds(d, a)
           rest == open \ {h}
<1>1. a \in DOMAIN d.accounts /\ d.accounts[a].held = SumFunctionOnSet(Reserved(d), open)
  BY DEF BooksFit
<1>2. IsFiniteSet(open) /\ IsFiniteSet(rest) /\ h \in open
  BY FS_Subset DEF BooksFit, OpenHolds
<1>3. \A x \in open : Reserved(d)[x] \in Nat
  BY AmountAssumption DEF DataOK, HoldRow, OpenHolds, Reserved
<1>4. SumFunctionOnSet(Reserved(d), open) = Reserved(d)[h] + SumFunctionOnSet(Reserved(d), rest)
  BY <1>2, <1>3, SumTakes
<1>5. SumFunctionOnSet(Reserved(d), rest) \in Nat
  BY <1>2, <1>3, SumNat
<1>6. Reserved(d)[h] = d.holds[h].amount /\ Reserved(d)[h] \in Nat
  BY <1>2, <1>3 DEF Reserved
<1>7. QED
  BY <1>1, <1>4, <1>5, <1>6

\* A batch that gives a hold up, and takes no more than it, passes the CHECK of every account.
LEMMA OpenHoldPays ==
  ASSUME NEW d, DataOK(d), BooksFit(d), \A a \in DOMAIN d.accounts : SolventRow(d.accounts[a]),
         NEW h \in DOMAIN d.holds, d.holds[h].status = "open", NEW n \in Nat, n <= d.holds[h].amount,
         NEW b, b.opens = {}, b.first = Move(d.holds[h].account, -n, -d.holds[h].amount),
         b.second = Move(d.holds[h].account, 0, 0)
  PROVE  ~Overdrawn(d, b)
<1> DEFINE a == d.holds[h].account
           m == d.holds[h].amount
<1>1. a \in DOMAIN d.accounts /\ m <= d.accounts[a].held /\ m \in Nat
  BY ReserveCovers, AmountAssumption DEF DataOK, HoldRow
<1>2. EnsureAccounts(d.accounts, b.opens) = [x \in DOMAIN d.accounts |-> d.accounts[x]]
  BY DEF EnsureAccounts
<1>3. ASSUME NEW x \in DOMAIN d.accounts
      PROVE  /\ AfterFirst(d, b)[x] = IF x = a THEN [balance |-> d.accounts[a].balance + -n,
                                                     held |-> d.accounts[a].held + -m]
                                                ELSE d.accounts[x]
             /\ d.accounts[x].balance \in Int /\ d.accounts[x].held \in Int
  BY <1>2 DEF AfterFirst, Adjust, Move, DataOK
<1>4. DOMAIN AfterFirst(d, b) = DOMAIN d.accounts /\ DOMAIN AfterSecond(d, b) = DOMAIN d.accounts
  BY <1>2 DEF AfterFirst, AfterSecond, Adjust
<1>5. ASSUME NEW x \in DOMAIN d.accounts
      PROVE  /\ SolventRow(AfterFirst(d, b)[x])
             /\ AfterFirst(d, b)[x].balance \in Int /\ AfterFirst(d, b)[x].held \in Int
  <2>1. SolventRow(d.accounts[x])
    OBVIOUS
  <2>2. QED
    BY <1>1, <1>3, <2>1 DEF SolventRow
<1>6. ASSUME NEW x \in DOMAIN d.accounts
      PROVE  SolventRow(AfterSecond(d, b)[x])
  <2>1. /\ AfterSecond(d, b)[x].balance = AfterFirst(d, b)[x].balance
        /\ AfterSecond(d, b)[x].held = AfterFirst(d, b)[x].held
    BY <1>4, <1>5 DEF AfterSecond, Adjust, Move
  <2>2. QED
    BY <1>5, <2>1 DEF SolventRow
<1>7. QED
  BY <1>4, <1>5, <1>6 DEF Overdrawn

\* A hold already settled has its `:resolve` entry, and UNIQUE comes before CHECK.
LEMMA SettledHoldConflicts ==
  ASSUME NEW d, LogFits(d), NEW h \in DOMAIN d.holds, d.holds[h].status # "open",
         NEW b, Derived(h, "resolve") \in DOMAIN b.entries
  PROVE  Verdict(d, b) = "UNIQUE"
<1>1. Derived(h, "resolve") \in DOMAIN d.entries
  BY DEF LogFits, HoldFits
<1>2. QED
  BY <1>1 DEF Verdict, Duplicate

LEMMA FundedByBooks == TypeInv /\ LogKept /\ BooksFit(db) /\ SolventDb => SettlementsFunded
<1> SUFFICES ASSUME TypeInv, LogKept, BooksFit(db), SolventDb, NEW c \in Caller,
                    call[c].stage = "read", call[c].op \in {"release", "capture"}
             PROVE  Verdict(db, Settlement(call[c])) # "CHECK"
  BY DEF SettlementsFunded
<1> DEFINE w == call[c]
           b == Settlement(w)
           h == db.holds[w.ref]
           n == IF w.op = "release" THEN 0 ELSE w.taken
<1>1. w \in Calls /\ ReadStands(db, w)
  BY StageInProgress DEF Stage, NoCall, LogKept, ReadsStand
<1>2. /\ w.ref \in DOMAIN db.holds /\ h.account = w.account /\ h.amount = w.amount
      /\ h.amount \in Nat /\ n \in Nat /\ n <= h.amount
  BY <1>1, AmountAssumption DEF ReadStands, Calls, TypeInv, DataOK, HoldRow
<1>3. /\ b.opens = {} /\ b.first = Move(w.account, -n, -w.amount) /\ b.second = Move(w.account, 0, 0)
      /\ Derived(w.ref, "resolve") \in DOMAIN b.entries
  <2>1. CASE w.op = "release"
    BY <2>1 DEF Settlement, ReleaseBatch, Row, Move
  <2>2. CASE w.op = "capture"
    BY <2>2 DEF Settlement, CaptureBatch, Row, Move
  <2>3. QED
    BY <2>1, <2>2
<1> HIDE DEF b, n
<1>4. CASE h.status = "open"
  <2>1. ~Overdrawn(db, b)
    BY <1>2, <1>3, <1>4, OpenHoldPays DEF TypeInv, SolventDb
  <2>2. QED
    BY <2>1 DEF Verdict, b
<1>5. CASE h.status # "open"
  <2>1. Verdict(db, b) = "UNIQUE"
    BY <1>2, <1>3, <1>5, SettledHoldConflicts DEF LogKept
  <2>2. QED
    BY <2>1 DEF b
<1>6. QED
  BY <1>4, <1>5

(***************************************************************************)
(* While nobody is erased: a release or a capture that read its hold open  *)
(* is never aborted by the CHECK. If the hold is still open its account's  *)
(* reserve covers it; if another settlement came first, its ref is taken   *)
(* (releaseHold and capture, which name no shortfall).                     *)
(***************************************************************************)
THEOREM SettlementsAlwaysFunded == ASSUME Erasable = {} PROVE Spec => []SettlementsFunded
<1>1. Init => SolventDb
  BY DEF Init, SolventDb, EmptyLedger, NoRows
<1>2. QED
  BY <1>1, NextSolvent, BooksHold, FundedByBooks, PTL DEF Spec
=============================================================================
