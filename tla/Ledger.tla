--------------------------------- MODULE Ledger ---------------------------------
(***************************************************************************)
(* The ledger under concurrent callers. D1 runs one batch or one query at  *)
(* a time, so a step of this module is one of those: what a call has read  *)
(* and not yet acted on is kept in its locals, and any other call, a crash *)
(* or an erasure may come between.                                         *)
(*                                                                         *)
(* Two surfaces issue the same batches. `openLedger` is in process: a game *)
(* model or a trusted handler, for which any duplicate ref is a silent     *)
(* no-op. `openLedgerWrites` is behind the control-plane routes: it proves *)
(* that a duplicate is a replay before calling it one, and the route then  *)
(* emits one audit event for a write that moved money.                     *)
(***************************************************************************)
EXTENDS LedgerData

CONSTANTS
  Caller,     \* concurrent calls: requests and Durable Objects
  Surface,    \* which of the two surfaces credit, debit, reverse and release
  Erasable    \* the people whose account may be purged

\* A ref is never null.
ASSUME NoRefAssumption == NoRef \notin AnyRef

ASSUME SurfaceAssumption == Surface \subseteq {"inProcess", "controlPlane"}

ASSUME ErasableAssumption == Erasable \subseteq User

VARIABLES
  db,       \* the three tables
  call,     \* Caller -> the locals of the call in progress, or NoCall
  reply,    \* what the last step answered its caller, or NoReply
  audited,  \* how often each movement was recorded in the audit trail
  erased    \* the people a purge has erased

vars == <<db, call, reply, audited, erased>>

Plane == {"inProcess", "controlPlane"}

\* An in-process reversal or release names a ref and no account.
NoAccount == << >>

\* What a call may name as the account it acts on.
Named ==
  (IF "inProcess" \in Surface THEN {NoAccount} ELSE {})
  \cup (IF "controlPlane" \in Surface THEN Account ELSE {})

PlaneOf(named) == IF named = NoAccount THEN "inProcess" ELSE "controlPlane"

Op == {"credit", "debit", "transfer", "hold", "reverse", "release", "capture"}

NoCall == [stage |-> "idle"]

\* "read": the row is read and the batch not issued. "aborted": the batch met a
\* UNIQUE and the row that holds the ref is not read. "raced": that row is a
\* resolution of this hold, and which one is not read. "moved": the batch is
\* committed and its audit event not emitted.
Stage == {"read", "aborted", "raced", "moved"}

Locals(stage, op, plane, ref, a, kind, n, taken) ==
  [stage |-> stage, op |-> op, plane |-> plane, ref |-> ref,
   account |-> a, kind |-> kind, amount |-> n, taken |-> taken]

At(w, stage) == [w EXCEPT !.stage = stage]

NoReply == [answer |-> "none"]

TypeOK ==
  /\ DOMAIN db.accounts \subseteq Account
  /\ \A a \in DOMAIN db.accounts : db.accounts[a] \in [balance : Int, held : Int]
  /\ DOMAIN db.entries \subseteq AnyRef
  /\ \A r \in DOMAIN db.entries :
       db.entries[r] \in [account : Account, kind : Kind, amount : Nat, related : AnyRef \cup {NoRef}]
  /\ DOMAIN db.holds \subseteq Ref
  /\ \A r \in DOMAIN db.holds :
       db.holds[r] \in [account : Account, amount : Amount, status : Status]
  /\ \A c \in Caller :
       \/ call[c] = NoCall
       \/ call[c] \in [stage : Stage, op : Op, plane : Plane, ref : Ref, account : Account,
                       kind : Kind, amount : Nat, taken : Nat]
  /\ DOMAIN audited \subseteq AnyRef \X Account
  /\ erased \subseteq Erasable

Init ==
  /\ db = EmptyLedger
  /\ call = [c \in Caller |-> NoCall]
  /\ reply = NoReply
  /\ audited = NoRows
  /\ erased = {}

-----------------------------------------------------------------------------
(* How a call goes on *)

Idle(c) == call[c] = NoCall

Answer(c, w, answer) ==
  /\ call' = [call EXCEPT ![c] = NoCall]
  /\ reply' = [answer |-> answer, call |-> w]

\* A refusal moves nothing; its error code is named for the reader and not kept.
Refuse(c, error) ==
  /\ call' = [call EXCEPT ![c] = NoCall]
  /\ reply' = NoReply

GoOn(c, w, stage) ==
  /\ call' = [call EXCEPT ![c] = At(w, stage)]
  /\ reply' = NoReply

\* The ref of the entry a write records, which is also what its audit event names.
EntryRef(w) ==
  CASE w.op = "reverse" -> Derived(w.ref, "reverse")
    [] w.op \in {"release", "capture"} -> Derived(w.ref, "resolve")
    [] OTHER -> w.ref

\* The writes that read the row behind a UNIQUE abort before they answer.
ProvesReplay(w) == w.op \in {"reverse", "release", "capture"} \/ w.plane = "controlPlane"

\* The writes that turn a CHECK abort into insufficient_funds; the others rethrow it.
NamesShortfall(w) == w.op \in {"debit", "transfer", "hold", "reverse"}

\* One call of run, and what the operation makes of how it ended.
Issue(c, w, batch) ==
  LET verdict == Verdict(db, batch)
  IN /\ db' = Run(db, batch)
     /\ \/ verdict = "applied" /\ w.plane = "inProcess" /\ Answer(c, w, "applied")
        \/ verdict = "applied" /\ w.plane = "controlPlane" /\ GoOn(c, w, "moved")
        \/ verdict = "UNIQUE" /\ ProvesReplay(w) /\ GoOn(c, w, "aborted")
        \/ verdict = "UNIQUE" /\ ~ProvesReplay(w) /\ Answer(c, w, "replay")
        \/ verdict = "CHECK" /\ NamesShortfall(w) /\ Refuse(c, "insufficient_funds")
        \/ verdict = "CHECK" /\ ~NamesShortfall(w) /\ Refuse(c, "error")
     /\ UNCHANGED <<audited, erased>>

\* Environment: nobody issues a new write for a person already erased.
Living(a) == Owner(a) \notin erased

-----------------------------------------------------------------------------
(* Writes of one batch *)

\* credit and debit. The control plane's request schema refuses a reserved ref.
Post(c, plane, kind, a, n, ref) ==
  /\ Idle(c) /\ Living(a)
  /\ plane = "controlPlane" => ~IsReservedRef(ref)
  /\ Issue(c, Locals("read", kind, plane, ref, a, kind, n, n), PostBatch(kind, a, n, ref))

Transfer(c, from, to, n, ref) ==
  /\ Idle(c) /\ Living(from) /\ Living(to)
  /\ CurrencyOf(from) = CurrencyOf(to)
  /\ Issue(c, Locals("read", "transfer", "inProcess", ref, from, "transfer_out", n, n),
           TransferBatch(from, to, n, ref))

PlaceHold(c, a, n, ref) ==
  /\ Idle(c) /\ Living(a)
  /\ Issue(c, Locals("read", "hold", "inProcess", ref, a, "hold", n, n), HoldBatch(a, n, ref))

-----------------------------------------------------------------------------
(* Writes that read a row, and only then issue their batch *)

OnAccount(row, named) == named = NoAccount \/ row.account = named

Reversible_Again(entry) == entry.kind \in {"credit", "debit"}

Reversible(entry) == entry.kind \in {"credit", "debit"} /\ entry.related = NoRef

Opposite(kind) == IF kind = "credit" THEN "debit" ELSE "credit"

\* reverse, up to its batch.
ReadEntry(c, named, ref) ==
  LET found == ref \in DOMAIN db.entries /\ OnAccount(db.entries[ref], named)
      entry == db.entries[ref]
  IN /\ Idle(c)
     /\ \/ ~found /\ Refuse(c, "entry_not_found")
        \/ found /\ ~Reversible(entry) /\ Refuse(c, "entry_not_reversible")
        \/ /\ found /\ Reversible(entry)
           /\ GoOn(c, Locals("read", "reverse", PlaneOf(named), ref, entry.account,
                             Opposite(entry.kind), entry.amount, entry.amount), "read")
     /\ UNCHANGED <<db, audited, erased>>

\* release, up to its batch. In process a hold that is not open is refused (requireOpenHold);
\* behind the control plane a released one is this very release replayed.
ReadHoldToRelease(c, named, ref) ==
  LET found == ref \in DOMAIN db.holds /\ OnAccount(db.holds[ref], named)
      hold  == db.holds[ref]
      w     == Locals("read", "release", PlaneOf(named), ref, hold.account, "release", hold.amount, hold.amount)
  IN /\ Idle(c)
     /\ \/ ~found /\ Refuse(c, "hold_not_found")
        \/ found /\ hold.status = "open" /\ GoOn(c, w, "read")
        \/ found /\ hold.status = "captured" /\ Answer(c, w, "hold_not_open")
        \/ /\ found /\ hold.status = "released"
           /\ Answer(c, w, IF w.plane = "controlPlane" THEN "replay" ELSE "hold_not_open")
     /\ UNCHANGED <<db, audited, erased>>

\* capture, up to its batch.
ReadHoldToCapture(c, ref, n) ==
  LET found == ref \in DOMAIN db.holds
      hold  == db.holds[ref]
      w     == Locals("read", "capture", "inProcess", ref, hold.account, "capture", hold.amount, n)
  IN /\ Idle(c)
     /\ \/ ~found /\ Refuse(c, "hold_not_found")
        \/ found /\ hold.status # "open" /\ Answer(c, w, "hold_not_open")
        \/ found /\ hold.status = "open" /\ n > hold.amount /\ Refuse(c, "invalid_amount")
        \/ found /\ hold.status = "open" /\ n <= hold.amount /\ GoOn(c, w, "read")
     /\ UNCHANGED <<db, audited, erased>>

CommitReversal(c) ==
  LET w == call[c]
  IN /\ w.stage = "read" /\ w.op = "reverse"
     /\ Issue(c, w, ReverseBatch(w.ref, w.kind, w.account, w.amount))

CommitRelease(c) ==
  LET w == call[c]
  IN /\ w.stage = "read" /\ w.op = "release"
     /\ Issue(c, w, ReleaseBatch(w.ref, w.account, w.amount))

CommitCapture(c) ==
  LET w == call[c]
  IN /\ w.stage = "read" /\ w.op = "capture"
     /\ Issue(c, w, CaptureBatch(w.ref, w.account, w.amount, w.taken))

-----------------------------------------------------------------------------
(* After a UNIQUE abort: is the row that holds the ref this write's own? *)

IsOwnRow(w) ==
  IF w.op \in {"credit", "debit"}
    THEN SameEntry(db, w.ref, w.account, w.kind, w.amount)
    ELSE OwnDerived(db, EntryRef(w), w.ref, w.account)

ProveReplay_Emits(c) ==
  LET w == call[c]
  IN /\ w.stage = "aborted"
     /\ \/ ~IsOwnRow(w) /\ Refuse(c, "ref_conflict")
        \/ IsOwnRow(w) /\ w.plane = "controlPlane" /\ GoOn(c, w, "moved")
        \/ IsOwnRow(w) /\ w.plane = "inProcess" /\ Answer(c, w, "replay")
     /\ UNCHANGED <<db, audited, erased>>

\* assertSameEntry and assertOwnDerived. The control plane's release has one more
\* question: a resolution of this hold may be the capture that won the race.
ProveReplay(c) ==
  LET w == call[c]
  IN /\ w.stage = "aborted"
     /\ \/ ~IsOwnRow(w) /\ Refuse(c, "ref_conflict")
        \/ /\ IsOwnRow(w) /\ w.op = "release" /\ w.plane = "controlPlane"
           /\ GoOn(c, w, "raced")
        \/ /\ IsOwnRow(w) /\ ~(w.op = "release" /\ w.plane = "controlPlane")
           /\ Answer(c, w, "replay")
     /\ UNCHANGED <<db, audited, erased>>

RereadHold_Trusting(c) ==
  LET w == call[c]
  IN /\ w.stage = "raced"
     /\ Answer(c, w, "replay")
     /\ UNCHANGED <<db, audited, erased>>

RereadHold(c) ==
  LET w == call[c]
  IN /\ w.stage = "raced"
     /\ Answer(c, w, IF HoldIs(db, w.ref, "captured") THEN "hold_not_open" ELSE "replay")
     /\ UNCHANGED <<db, audited, erased>>

-----------------------------------------------------------------------------
(* The route, the Worker and the purge *)

\* recordWrite: one event per movement, after its batch and apart from it.
EmitAudit(c) ==
  LET w == call[c]
      movement == <<EntryRef(w), w.account>>
      times == IF movement \in DOMAIN audited THEN audited[movement] ELSE 0
  IN /\ w.stage = "moved"
     /\ audited' = [m \in DOMAIN audited \cup {movement} |->
                       IF m = movement THEN times + 1 ELSE audited[m]]
     /\ Answer(c, w, "applied")
     /\ UNCHANGED <<db, erased>>

\* The Worker or the Durable Object is lost with the call's locals; its caller may retry.
Crash(c) ==
  /\ ~Idle(c)
  /\ call' = [call EXCEPT ![c] = NoCall]
  /\ reply' = NoReply
  /\ UNCHANGED <<db, audited, erased>>

Purge(u) ==
  /\ u \notin erased
  /\ db' = Purged(db, u)
  /\ erased' = erased \cup {u}
  /\ reply' = NoReply
  /\ UNCHANGED <<call, audited>>

Write(c) ==
  \/ \E plane \in Surface, kind \in {"credit", "debit"}, a \in Account, n \in Amount, ref \in Ref :
       Post(c, plane, kind, a, n, ref)
  \/ \E from, to \in Account, n \in Amount, ref \in Ref : Transfer(c, from, to, n, ref)
  \/ \E a \in Account, n \in Amount, ref \in Ref : PlaceHold(c, a, n, ref)
  \/ \E named \in Named, ref \in AnyRef : ReadEntry(c, named, ref)
  \/ \E named \in Named, ref \in Ref : ReadHoldToRelease(c, named, ref)
  \/ \E ref \in Ref, n \in Amount \cup {0} : ReadHoldToCapture(c, ref, n)

Proceed(c) ==
  \/ CommitReversal(c) \/ CommitRelease(c) \/ CommitCapture(c)
  \/ ProveReplay(c) \/ RereadHold(c) \/ EmitAudit(c)

Next ==
  \/ \E c \in Caller : Write(c) \/ Proceed(c) \/ Crash(c)
  \/ \E u \in Erasable : Purge(u)

Spec == Init /\ [][Next]_vars

=============================================================================
