---------------------------- MODULE LedgerProperties ----------------------------
(* What the ledger promises, whatever its callers interleave, lose or repeat. *)
EXTENDS Ledger, Functions

(***************************************************************************)
(* The entry log explains the money: the balance of an account is the sum  *)
(* of its entries, and what it holds is the sum of its open holds.         *)
(* LedgerTransaction: "the account's materialized balance is the running   *)
(* total, and this log is the auditable history that explains it".         *)
(***************************************************************************)
BalanceEffect(entry) ==
  CASE entry.kind \in {"credit", "transfer_in"} -> entry.amount
    [] entry.kind \in {"debit", "transfer_out", "capture"} -> -entry.amount
    [] OTHER -> 0

Effects(d) == [r \in DOMAIN d.entries |-> BalanceEffect(d.entries[r])]

Reserved(d) == [h \in DOMAIN d.holds |-> d.holds[h].amount]

EntriesOf(d, a) == {r \in DOMAIN d.entries : d.entries[r].account = a}

OpenHolds(d, a) == {h \in DOMAIN d.holds : d.holds[h].account = a /\ d.holds[h].status = "open"}

Explained ==
  \A a \in Account : Living(a) =>
    /\ BalanceOf(db, a).balance = SumFunctionOnSet(Effects(db), EntriesOf(db, a))
    /\ BalanceOf(db, a).held = SumFunctionOnSet(Reserved(db), OpenHolds(db, a))

(***************************************************************************)
(* A hold is settled by exactly one entry, of the kind its status says, on *)
(* its own account, and a hold still open is settled by none: whichever of *)
(* the racing releases and captures commits, the others change nothing.    *)
(***************************************************************************)
Settles(entry, ref, kind) ==
  entry.related = ref /\ entry.kind = kind /\ entry.account = db.holds[ref].account

Resolution(ref) ==
  {r \in DOMAIN db.entries : /\ db.entries[r].kind \in {"release", "capture"}
                             /\ db.entries[r].related = ref
                             /\ Living(db.entries[r].account)}

SettledOnce ==
  \A ref \in DOMAIN db.holds : Living(db.holds[ref].account) =>
    CASE db.holds[ref].status = "open" -> Resolution(ref) = {}
      [] db.holds[ref].status = "released" ->
           /\ Resolution(ref) = {Derived(ref, "resolve")}
           /\ Settles(db.entries[Derived(ref, "resolve")], ref, "release")
      [] db.holds[ref].status = "captured" ->
           /\ Resolution(ref) = {Derived(ref, "resolve")}
           /\ Settles(db.entries[Derived(ref, "resolve")], ref, "capture")

(***************************************************************************)
(* A settlement in flight is never short of funds. release and capture     *)
(* give run no insufficient to refuse with: a CHECK abort would be an      *)
(* error nobody names, and money reserved for ever. So whatever was spent, *)
(* transferred, corrected or reserved since the hold was read, and         *)
(* whichever settlement of it came first, the reserve still covers it or   *)
(* its `:resolve` ref is taken ("one resolution per hold, whichever wins   *)
(* the race").                                                             *)
(***************************************************************************)
Settlement(w) ==
  IF w.op = "release" THEN ReleaseBatch(w.ref, w.account, w.amount)
                      ELSE CaptureBatch(w.ref, w.account, w.amount, w.taken)

SettlementsFunded ==
  \A c \in Caller :
    /\ call[c].stage = "read"
    /\ call[c].op \in {"release", "capture"}
    /\ Living(call[c].account)
    => Verdict(db, Settlement(call[c])) # "CHECK"

(***************************************************************************)
(* A correction mirrors what it corrects: an entry related to a credit or  *)
(* a debit is its opposite, of the same amount, on the same account, and   *)
(* there is at most one. A reversal is never itself reversed.              *)
(***************************************************************************)
Reversals == {r \in DOMAIN db.entries : db.entries[r].kind \in {"credit", "debit"}
                                        /\ db.entries[r].related # NoRef}

ReversedOnce ==
  /\ \A r \in Reversals : Living(db.entries[r].account) =>
       LET original == db.entries[r].related
       IN /\ original \in DOMAIN db.entries
          /\ original \notin Reversals
          /\ db.entries[r] = [db.entries[original] EXCEPT !.kind = Opposite(@), !.related = original]
  /\ \A r, q \in Reversals : db.entries[r].related = db.entries[q].related => r = q

(***************************************************************************)
(* The control plane says "replay" (applied: false) only of a write that   *)
(* is in the log: the very credit or debit asked for, the reversal of the  *)
(* entry named, or the release of the hold named. openLedgerWrites:        *)
(* "applied: false here means only a replay."                              *)
(***************************************************************************)
HonestReplay ==
  reply.answer = "replay" /\ reply.call.plane = "controlPlane" /\ Living(reply.call.account) =>
    LET w == reply.call
    IN CASE w.op \in {"credit", "debit"} -> SameEntry(db, w.ref, w.account, w.kind, w.amount)
         [] w.op = "reverse" -> SameEntry(db, Derived(w.ref, "reverse"), w.account, w.kind, w.amount)
         [] w.op = "release" -> HoldIs(db, w.ref, "released")

(***************************************************************************)
(* A movement is recorded in the audit trail at most once, and nothing is  *)
(* recorded that the log does not hold: a retry of a key, a refusal and a  *)
(* lost race leave no event (routes.ts: "a replay or a refusal, which      *)
(* moved nothing, is not").                                                *)
(***************************************************************************)
AuditedOnce ==
  \A m \in DOMAIN audited : Living(m[2]) =>
    /\ audited[m] = 1
    /\ m[1] \in DOMAIN db.entries
    /\ db.entries[m[1]].account = m[2]

(***************************************************************************)
(* Nothing in the entry log is updated or deleted, a correction included,  *)
(* except that a purge deletes one person's rows and no one else's.        *)
(***************************************************************************)
AppendOnly ==
  [][\A r \in DOMAIN db.entries :
       Owner(db.entries[r].account) \notin erased' =>
         r \in DOMAIN db'.entries /\ db'.entries[r] = db.entries[r]]_vars

-----------------------------------------------------------------------------
(* What a comment or a document says and the code does not do *)

(***************************************************************************)
(* Ledger.release: "Cancel a hold, returning the reserved funds to the     *)
(* player. Idempotent; refuses a resolved hold." An in-process release     *)
(* that answers without an error would then have left the hold released.   *)
(***************************************************************************)
ReleaseRefusesResolved ==
  reply.answer \in {"applied", "replay"} /\ reply.call.op = "release" /\ reply.call.plane = "inProcess"
    => HoldIs(db, reply.call.ref, "released")
=============================================================================
