------------------------------- MODULE LedgerData -------------------------------
(***************************************************************************)
(* The three tables of the ledger and the only way anything is written to  *)
(* them: a D1 batch that commits whole or not at all.                      *)
(*                                                                         *)
(* A database is a record of three partial functions, each keyed by the    *)
(* column the schema declares UNIQUE; a missing row is a key outside the   *)
(* domain:                                                                 *)
(*   accounts  <<user, currency>> -> [balance, held]                       *)
(*   entries   ref -> [account, kind, amount, related]                     *)
(*   holds     ref -> [account, amount, status]                            *)
(* Memos, row ids and timestamps are left out: no guard reads them.        *)
(***************************************************************************)
EXTENDS Integers

CONSTANTS
  User,      \* the people who own accounts
  Currency,  \* the configured currencies
  Ref,       \* the refs a caller chooses for a write
  Amount,    \* the amounts a caller passes to a write
  NoRef      \* the null of the relatedRef column

\* assertAmount: an amount is a positive integer.
ASSUME AmountAssumption == Amount \subseteq Nat \ {0}

Account == User \X Currency

Owner(a) == a[1]

CurrencyOf(a) == a[2]

(***************************************************************************)
(* A derived ref is a ref with a suffix the ledger writes onto it. The     *)
(* pair stands for the concatenation, whose last suffix can be read back,  *)
(* so different pairs are different strings. Ref may itself hold such      *)
(* pairs: an in-process caller may choose any string.                      *)
(***************************************************************************)
Suffix == {"reverse", "resolve", "out", "in"}

Derived(ref, suffix) == <<ref, suffix>>

IsReservedRef(ref) == ref \in Ref \X Suffix

AnyRef == Ref \cup (Ref \X Suffix)

Kind == {"credit", "debit", "hold", "release", "capture", "transfer_in", "transfer_out"}

Status == {"open", "released", "captured"}

NewEntry(a, kind, n, related) ==
  [account |-> a, kind |-> kind, amount |-> n, related |-> related]

NewHold(a, n) == [account |-> a, amount |-> n, status |-> "open"]

NoRows == [r \in {} |-> r]

EmptyLedger == [accounts |-> NoRows, entries |-> NoRows, holds |-> NoRows]

-----------------------------------------------------------------------------
(* Reads *)

Zero == [balance |-> 0, held |-> 0]

\* readBalance: an account that was never opened reads as zero.
BalanceOf(db, a) == IF a \in DOMAIN db.accounts THEN db.accounts[a] ELSE Zero

\* findHold, narrowed to one status.
HoldIs(db, ref, status) == ref \in DOMAIN db.holds /\ db.holds[ref].status = status

\* assertOwnDerived: the row under the derived ref was written for owner, on this account.
OwnDerived(db, derived, owner, a) ==
  /\ derived \in DOMAIN db.entries
  /\ db.entries[derived].related = owner
  /\ db.entries[derived].account = a

\* assertSameEntry: the row under ref is this very credit or debit.
SameEntry(db, ref, a, kind, n) ==
  /\ ref \in DOMAIN db.entries
  /\ db.entries[ref].account = a
  /\ db.entries[ref].kind = kind
  /\ db.entries[ref].amount = n

-----------------------------------------------------------------------------
(***************************************************************************)
(* A batch: the accounts it opens, the entries and the holds it inserts,   *)
(* the status it settles a hold to, and the UPDATEs of accounts, in order. *)
(***************************************************************************)
Move(a, balance, held) == [account |-> a, balance |-> balance, held |-> held]

Row(ref, row) == [r \in {ref} |-> row]

\* ensureAccount: INSERT .. ON CONFLICT DO NOTHING.
EnsureAccounts(accounts, opens) ==
  [a \in DOMAIN accounts \cup opens |-> IF a \in DOMAIN accounts THEN accounts[a] ELSE Zero]

\* adjust: an UPDATE, which touches no row when the account does not exist.
Adjust(accounts, move) ==
  [a \in DOMAIN accounts |->
     IF a = move.account
       THEN [balance |-> accounts[a].balance + move.balance, held |-> accounts[a].held + move.held]
       ELSE accounts[a]]

\* INSERT of rows whose keys are known to be free.
Insert(rows, new) ==
  [r \in DOMAIN rows \cup DOMAIN new |-> IF r \in DOMAIN rows THEN rows[r] ELSE new[r]]

\* UPDATE holds SET status = .. WHERE ref = .. AND status = 'open'.
SettleHold(holds, settles) ==
  [r \in DOMAIN holds |->
     IF r \in DOMAIN settles /\ holds[r].status = "open"
       THEN [holds[r] EXCEPT !.status = settles[r]]
       ELSE holds[r]]

\* The CHECK of the accounts table.
SolventRow(row) == row.balance >= 0 /\ row.held >= 0 /\ row.held <= row.balance

AfterFirst(db, batch) == Adjust(EnsureAccounts(db.accounts, batch.opens), batch.first)

AfterSecond(db, batch) == Adjust(AfterFirst(db, batch), batch.second)

\* The rows inserted come before the UPDATEs in every batch, so UNIQUE aborts before CHECK can.
Duplicate(db, batch) ==
  \/ DOMAIN batch.entries \cap DOMAIN db.entries # {}
  \/ DOMAIN batch.places \cap DOMAIN db.holds # {}

Overdrawn(db, batch) ==
  \/ \E a \in DOMAIN AfterFirst(db, batch) : ~SolventRow(AfterFirst(db, batch)[a])
  \/ \E a \in DOMAIN AfterSecond(db, batch) : ~SolventRow(AfterSecond(db, batch)[a])

\* How d1.batch ends: the first constraint a statement breaks aborts it.
Verdict(db, batch) ==
  IF Duplicate(db, batch) THEN "UNIQUE"
  ELSE IF Overdrawn(db, batch) THEN "CHECK"
  ELSE "applied"

Applied(db, batch) ==
  [accounts |-> AfterSecond(db, batch),
   entries  |-> Insert(db.entries, batch.entries),
   holds    |-> Insert(SettleHold(db.holds, batch.settles), batch.places)]

\* run: the whole batch or nothing.
Run(db, batch) == IF Verdict(db, batch) = "applied" THEN Applied(db, batch) ELSE db

-----------------------------------------------------------------------------
(* The batch of each operation *)

Signed(kind, n) == IF kind \in {"credit", "transfer_in"} THEN n ELSE -n

PostBatch(kind, a, n, ref) ==
  [opens |-> {a}, entries |-> Row(ref, NewEntry(a, kind, n, NoRef)),
   places |-> NoRows, settles |-> NoRows,
   first |-> Move(a, Signed(kind, n), 0), second |-> Move(a, 0, 0)]

TransferBatch(from, to, n, ref) ==
  LET out == Derived(ref, "out")
      in  == Derived(ref, "in")
  IN [opens |-> {from, to},
      entries |-> Insert(Row(out, NewEntry(from, "transfer_out", n, in)),
                         Row(in, NewEntry(to, "transfer_in", n, out))),
      places |-> NoRows, settles |-> NoRows,
      first |-> Move(from, -n, 0), second |-> Move(to, n, 0)]

HoldBatch(a, n, ref) ==
  [opens |-> {a}, entries |-> Row(ref, NewEntry(a, "hold", n, NoRef)),
   places |-> Row(ref, NewHold(a, n)), settles |-> NoRows,
   first |-> Move(a, 0, n), second |-> Move(a, 0, 0)]

\* The opposite of an entry, posted under its `:reverse` ref. It opens no account.
ReverseBatch(ref, kind, a, n) ==
  [opens |-> {}, entries |-> Row(Derived(ref, "reverse"), NewEntry(a, kind, n, ref)),
   places |-> NoRows, settles |-> NoRows,
   first |-> Move(a, Signed(kind, n), 0), second |-> Move(a, 0, 0)]

ReleaseBatch_LeavesOpen(ref, a, n) ==
  [opens |-> {}, entries |-> Row(Derived(ref, "resolve"), NewEntry(a, "release", n, ref)),
   places |-> NoRows, settles |-> NoRows,
   first |-> Move(a, 0, -n), second |-> Move(a, 0, 0)]

ReleaseBatch_OwnRef(ref, a, n) ==
  [opens |-> {}, entries |-> Row(<<ref, "release">>, NewEntry(a, "release", n, ref)),
   places |-> NoRows, settles |-> Row(ref, "released"),
   first |-> Move(a, 0, -n), second |-> Move(a, 0, 0)]

\* One resolution per hold: both batches take the hold's `:resolve` ref.
ReleaseBatch(ref, a, n) ==
  [opens |-> {}, entries |-> Row(Derived(ref, "resolve"), NewEntry(a, "release", n, ref)),
   places |-> NoRows, settles |-> Row(ref, "released"),
   first |-> Move(a, 0, -n), second |-> Move(a, 0, 0)]

CaptureBatch_WholeHold(ref, a, held, n) ==
  [opens |-> {}, entries |-> Row(Derived(ref, "resolve"), NewEntry(a, "capture", n, ref)),
   places |-> NoRows, settles |-> Row(ref, "captured"),
   first |-> Move(a, -held, -held), second |-> Move(a, 0, 0)]

CaptureBatch(ref, a, held, n) ==
  [opens |-> {}, entries |-> Row(Derived(ref, "resolve"), NewEntry(a, "capture", n, ref)),
   places |-> NoRows, settles |-> Row(ref, "captured"),
   first |-> Move(a, -n, -held), second |-> Move(a, 0, 0)]

Purged_EveryEntry(db, u) ==
  [accounts |-> [a \in {x \in DOMAIN db.accounts : Owner(x) # u} |-> db.accounts[a]],
   entries  |-> NoRows,
   holds    |-> [r \in {x \in DOMAIN db.holds : Owner(db.holds[x].account) # u} |-> db.holds[r]]]

\* The purge of one person: one batch that deletes every row of all three tables that is theirs.
Purged(db, u) ==
  [accounts |-> [a \in {x \in DOMAIN db.accounts : Owner(x) # u} |-> db.accounts[a]],
   entries  |-> [r \in {x \in DOMAIN db.entries : Owner(db.entries[x].account) # u} |-> db.entries[r]],
   holds    |-> [r \in {x \in DOMAIN db.holds : Owner(db.holds[x].account) # u} |-> db.holds[r]]]
=============================================================================
