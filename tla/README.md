# Pithy in TLA+

Pithy is a kit for building a backend on Cloudflare Workers out of capabilities: packages that bring
their tables (in D1, a SQLite database whose only transaction is a *batch* of statements fixed in
advance), their routes, their workflows and their Durable Objects. This directory models the parts
of it whose correctness rests on the order of things: the ledger that moves money, the payments that
credit it, the Durable Objects that run games and pair players, the voiding of results, the lifecycle
and the erasure of an account, the roster and the ownership of an organization, and the chain that
makes the audit trail tamper-evident. TLC checks small instances of each model; TLAPS proves
theorems about each of the eight for every value of their constants, a refinement among them: each
safety property that a passing run checks is a theorem, some under a hypothesis that section 7 names.

Paths below are relative to `packages/`.

## 1. Inventory

### The parts that are modelled

| Part | State | Operations | What makes it correct |
| --- | --- | --- | --- |
| **Ledger** (`ledger`) | D1 tables of accounts (balance, held), an append-only log of entries keyed by a unique `ref`, holds keyed by `ref` | credit, debit, transfer, hold, release, capture, reverse; the person purge. In process (`openLedger`) and behind management routes (`openLedgerWrites`) | the log explains the balances; a hold settles once, and what it reserves is there when it does; a retry is recognised by its ref and nothing else is taken for one; each movement made through a route is audited once |
| **Game sessions** (`multiplayer/src/session`) | a Durable Object's storage (metadata, model state, outcome, operator key) and alarm; a row in the index of sessions in flight; a row in the results; holds and payouts in the ledger | create, join, act, leave, close, operator close, deadline | book and holds agree; a bet is decided once; nothing stays held; a session that ends has a result and is unlisted, once and for good; a match in play ends |
| **Result voids** (`multiplayer/src/void`) | the void columns of a result's row, a table of spent keys | void, retry; each runs the composed consumers in turn | a consumer of a result never runs twice at once; a key acts once; what came back stays back |
| **Matchmaking queue** (`matchmaking/src/queue`) | a Durable Object's waiting list, match records, drop keys, sweep alarm | enqueue, leave, status, operator drop, forget, sweep | rosters are fair; no match is lost; who is out stays out; who can be paired is |
| **Audit chain** (`audit/src/chain`, `core/src/audit/chain.ts`) | D1 rows linked by hashes, per tenant; tombstones and checkpoints in an R2 bucket | append, retention prune, checkpoint, verify | one history; nothing removed that is not vouched for; a prune never breaks the chain; a verify never calls a whole chain broken |
| **Account lifecycle and purge** (`auth/src/lifecycle`, `auth/src/purge`, `core/src/retention/holds.ts`) | four columns of the account's row, its history, the purge's Workflow instances, legal holds | suspend, reinstate, delete (soft, hard, for inactivity), restore; the daily pass; a purge's steps, hold and release | what was restored has lost nothing; a hold stops a purge; the record of an erasure is true; the history explains the account; a hook fires once per transition; who is due is erased |
| **Organizations** (`organization/src/members`, `ownership`, `invite`, `acting`) | memberships with roles, one standing offer of ownership, invitations, the selections sessions act under | change a role, remove, leave, add, invite, redeem, withdraw; offer, accept and force ownership; the operator's forms of them | somebody can administer; the seat limit holds; a link makes one membership; an owner is not removed by a request that read a member |
| **Payments projection** (`payments/src/projection`, `grants`, `entitlement`, `http`) | recorded webhook events, purchases, entitlements, the link from a store account to its holder; credits and clawbacks in the ledger | webhook, the buyer's submission, link, orphan repair, grant, clawback, support's comp | the newest report wins and the first holder keeps the transaction; access is paid for; no charge pays twice; a finished event has had its effect; every report comes to count |

How they meet: a session calls the ledger in process (`applyLedgerEffects`), writes the index and
the results in D1, and publishes to leaderboards when it resolves. The queue mints sessions. A void
walks back what a result wrote to boards and ratings. Payments credit and debit the ledger by refs
made from the transaction. Management routes write through the ledger and
then record an audit event, in two steps. The purge of an account runs one step per capability, in
any order relative to what a session is doing with that capability's rows.

What is hard in them: every `await` is a point where another request, another task of the same
Durable Object, or the loss of either may come; D1 commits one batch, Durable Object storage one
put, R2 one object, and no two of the three commit together; retries carry refs or idempotency keys
and must be told apart from different acts under the same key; alarms and workflow steps are
delivered at least once.

### The parts that are not

`PROJECT.json` lists every package with the reason. In short: secrets have a protocol worth modelling
and are among what comes next (section 8); leaderboards, ratings, email, storage, media, vector, artifacts, support,
consent and testers are mostly single statements over their own rows, or calls to an external service;
sign-in keeps its state in the authentication library; core, i18n, turnstile and the user-interface
packages keep no shared state of their own; the command line, the Vite plugin, scripts, templates and
tooling run on one developer's machine.

## 2. Modules

| Module | Models |
| --- | --- |
| `LedgerData` | the three tables, constraints, and the batch of each operation: operators on a database value, no variables |
| `Ledger` | concurrent callers over `LedgerData`, with crashes and the purge |
| `LedgerProperties`, `LedgerProofs` | what the ledger promises; theorems |
| `GameModels` | two built-in game patterns as pure operators: a banked table (`wageringTable`, with craps' betting rule) and a simultaneous match |
| `Session` (EXTENDS `LedgerData`, `GameModels`) | the session object composed with the ledger, the index, the results and the leaderboard |
| `SessionProperties`, `SessionProofs` | its promises, and those the code does not keep; theorems |
| `ResultVoid` | voids, retries, the lease, and its promises |
| `MatchQueue`, `MatchQueueProperties`, `MatchQueueProofs` | the queue of one game; theorems |
| `AuditChain`, `AuditProperties`, `AuditProofs` | one tenant's chain; theorems |
| `Account`, `AccountProperties`, `AccountProofs` | one account, the requests, the daily pass and the purges about it; theorems |
| `Members`, `MembersProperties` | one organization's roster, offers and links |
| `RequestProofs` | theorems about `Members` and `ResultVoid`, the two whose requests read, await and write by what their statement tests; neither's variables occur in the other's formulas |
| `Payments`, `PaymentsProperties`, `PaymentsProofs` | the handlers of one rail and one store account; theorems |
| `NewestWins` | the abstract projection that `Payments` implements |
| `Induction` | lemmas about sums over finite sets and functions by recursion, for the proofs; models nothing |
| `MC*` | instances for TLC, one `.cfg` per question |

Definitions that are named after another with a suffix (`Settle_StateFirst`, `Taken_Exactly`) are
not used by any specification: each is the form a plausible mistake would give the definition, and
`PROJECT.json` says which property notices it.

## 3. How the models correspond to the code

**Ledger.** A database is a record of partial functions keyed by the UNIQUE column of each table. A
batch is data: rows to insert, a status to settle a hold to, and two account updates. `Verdict` ends
it as D1 does, with the first constraint that breaks (inserts before updates, so UNIQUE before
CHECK), and `Run` applies it whole or not at all. `Ledger` splits an operation where the code
awaits: the row is read (`ReadEntry`, `ReadHoldToRelease`, `ReadHoldToCapture`), the batch is issued
(`Post`, `Transfer`, `PlaceHold`, `CommitReversal`, `CommitRelease`, `CommitCapture`), after a UNIQUE
abort the row behind it is read (`ProveReplay`, `RereadHold`), and a route emits its audit event
(`EmitAudit`). A derived ref (`x:resolve`) is a pair `<<x, "resolve">>`, and `Ref` may hold such
pairs itself, since an in-process caller may choose any string. Memos, ids and times are left out:
no guard reads them. Nobody issues a new write for a person already erased; a write in progress goes on.

**Session.** A transition reads storage once, at its start, so everything it will write is known
then. A task therefore holds the *list* of its writes, and `Step` performs one: this is how the order
of the code's writes, and what a loss between any two leaves, are in the model. `Free` is
`serially`, the promise chain of the object. One ledger effect is one step here (its own
interleaving is `Ledger`'s subject); it fails as the ledger fails it. The random stream is a seed
chosen at creation, each draw at the cursor. A bet's refs carry the session's id and the bet's number:
`RefAssumption` is that, and no more (the refs of two bets are different, and nobody's deposit has one). The task refuses what the code refuses, with the
code's error. Left out: sockets and redacted views, the sequential and commit-reveal patterns, the
phase rule of craps beyond which bets are open, and `onJoin` of a table (no built-in table has one).
A session's id is minted by the request that creates it, so a create is not retried.

**ResultVoid.** One D1 query or batch is a step; a consumer's run is a span of time that ends in
"done" or "failed". The key is spent in the batch of the row's update, under the same condition.
`Tick` keeps the code's own assumption (`void.ts:47-51`) that no request runs as long as a lease.

**MatchQueue.** Tasks as in `Session`. Time is the age of each ticket and each drop key, which stops
growing where the code stops telling ages apart. `Delivered` is the input gate of a Durable Object:
a `status` poll, which is not queued, comes in only while a task is away from the object's storage,
minting a session or pushing to presence. A push writes nothing of the queue and is one empty step.

**AuditChain.** A hash is the sequence of what it covers, so it is injective and prefixes are
histories. Each event has a request of its own. The prune, the checkpoint run and the verify are
split at every read and write of D1 and R2 (the read of the row before a run and of the checkpoints
are one step). An event expires only after its request has ended, since no window is as short as a
request. One prune pass runs at a time, as the workflow schedules it. `verify.cut` is a history
variable: the walks under which rows were deleted, or that met a run half deleted. Nothing changes
rows behind the code's back, so the verdicts that report tampering with a row are left out.

**Account.** A request is a read, a decision on what it read, and a batch whose update names the state
it expects; `Batch` writes the history row only with the update. The clock is D1's, and `at` is what
a request took of it when it began: `WindowOpen` compares with the clock *at the statement*, as the
SQL does, while the rest compares with `at`. A purge instance is named by the deletion's start and the
day, and its steps are journaled: `Journals` runs a step again when its answer is lost, `Fail` ends an
instance whose step is out of retries. One contribution stands for all those in front of auth's own
rows; `Retained` are those that keep rows under a stated basis. `overrun` is a history variable: what
each instance erased while the hold that stands now stood.

**Members.** Every handler is a read (`Ask...`) and a write (`Land...`) under the conditions its
statement repeats, with anything in between. A membership's id is its person and tenure, so that
somebody removed and added again holds another membership. `AnsweredOrRetried` is `withD1Retry`: a
batch whose answer is lost runs again whether or not it committed. The catalog is one role that only a
transfer confers, and any others. `blind`, `joined` and `overridden` are history variables:
whether a role change has landed on a role it had not read, the memberships each person's links have
made, and the adds an operator forced past the limit.

**Payments.** A worker is a handler in flight with a program counter at every `await`; `Lose` ends it
anywhere, and the store delivers again what it has had no 2xx for (`owed`). A statement's own guards
are evaluated where it runs (`Upsert`), and what the batch derives is derived from the table as the
batch leaves it (`Derived`). `LinkAccount`, `RepairScan` and `Onward` are the repair of reports that
waited for a link, which a webhook and a submission both run on their way. The ledger is two sets of
refs and the balances: its own model is `Ledger`. A submission names its event: asking the store
returns what the event says.

## 4. Runs

Bounds are named constants; each says what it caps. All model values stand for identities that the
code compares and does not look into.

| Run | Bounds | Shows |
| --- | --- | --- |
| `ledger_race` | 2 callers on both surfaces, 1 account, a ref and the `:resolve` ref derived from it, amount 1 | `Explained`, `SettledOnce`, `SettlementsFunded`, `HonestReplay`, `AuditedOnce` under every interleaving and crash |
| `ledger_wide` | 1 caller, 2 owners (one erasable), transfers and reversals, a ref and its `:reverse` ref | `ReversedOnce`, `AppendOnly` |
| `session_table` | 2 seats, 2 bets of 1 or 2 from purses of 2, 2 rolls with every seed, no fault | `BetsBacked`, `DecidedOnce`, `NothingHeldAtEnd` |
| `session_match` | 3 players for 2 timed seats, an operator, 2 queued tasks, 2 faults, fairness | `EndedInOrder`, `NothingWrittenBack`, `CompleteIsResolved`, `MatchEnds` |
| `void_race` | 2 requests, 2 results, 3 keys, 2 consumers, lease 2, clock to 2 | `NeverTwiceAtOnce`, `OneActPerKey`, `DoneStays` |
| `queue` | 3 players whose skills form a row, matches of 3, 3 enqueues, a drop key, 2 tasks, 1 fault, fairness | `NobodyMissing`, `PairedFairly`, `OutStaysOut`, `PairsUp` |
| `audit_chain` | 3 events, pages of 2, deletes of 1, walks of 2, 1 fault | `OneHistory`, `Vouched`, `WholeAtRest`, `AlarmsOnlyUnderPrunes` |
| `account_purge` | 2 requests, a window of 1 and days of 2 over 3 instants, 1 contribution, 1 hold | `NeverHalfErased`, `HoldStops`, `HistoryExplains`, `OncePerTransition` |
| `account_live` | 1 request, 2 contributions (one retained), 1 hold, 1 fault, fairness | `RecordIsTrue`, `ErasureFinishes` |
| `payments_projection` | 2 handlers, a charge with its refund and an expired period, 2 holders, 1 submission, 1 loss, comp or spend, fairness | `EntitledByMoney`, `FinishedIsFulfilled`, `BooksBalance`, `Projects`, `Converges` |
| `members_roster` | every roster of 3 people within 2 seats, 2 requests at once, 3 in all, 1 invitation, 1 batch run twice | `Administered`, `SeatsHeld`, `OneJoinEach`, `OwnerNotEnded` |
| `members_unoffered` | as `members_roster` with 3 seats | violates `TransferIsOffered` (section 6) |

Why the bounds are enough for what is asked. Two callers already give every pair of steps of two
operations in both orders, and a third adds no new relation between a call and what changed under
it: a call compares one row it read with the row now. A ref is settled, retried and squatted on when
the refs are one and the one derived from it. A third player at a two-seat match loses the race for
the last seat. Rosters of three are the smallest in which fitting the anchor and fitting each other
differ. Three events give an unexpired row before, between or after expired ones, and a page of two
with deletes of one gives a full page, a short one, and a run deleted in two statements. Two faults
at a match let a retry be lost too. Three instants over two days give a window that closes while a
request is in flight and a second pass over what the first left; the third request of
`members_roster` is the second of one worker, so that what the first wrote is read again. A charge
with its refund and a period already over are the three kinds of effect a report has: a credit, a
debit, and neither.

`ledger_race` has one account, so its transfers are to oneself. `Explained` is proved for all
accounts (section 7), and holds when `User` there is `{alice, bob}` (416,439 states) and in the
instance of `ledger_wide`.

What the bounds exclude on purpose:

- `ledger_wide` purges with one caller. With two, a ref the purge freed is used again while a call
  that read the erased row is in progress, and "explained" and "settled once" would have to speak
  of two lives of one ref.
- `session_table` has no fault: the code does not keep these properties otherwise (section 6).
- `payments_projection` has one product, and nothing else stamps what the link is for: two plan
  changes at once, and an orphan that outlasts its link, are in section 6.
- Symmetry is used for callers, requests, tasks, keys, people and events that occur in no ordering
  and in no liveness property; runs with liveness declare none.

Deadlock checking is on where the system can always go on: another call, a tick, a refusal. The
configurations of `Account`, `Members` and `Payments` say `CHECK_DEADLOCK FALSE`, because there the
bounds (requests made, reports delivered, the last instant) are the only thing that stops it, and a
state in which every bound is spent and every request answered has no successor.

More instances, kept for their own questions and checked by hand (`tlc -config <file> <module>`):
`MCSession_purge.cfg` (a table whose player is erased at any moment still ends when told, and holds
nothing) and `MCAudit_outlived.cfg` (under fairness of the prune, no expired event is kept for ever)
pass; those of section 6 are violated.

## 5. Fairness

- `Session`: weak fairness of `Step` (an object that runs a transition is alive, and an awaited call
  returns or throws) and of `Alarm` (the platform redelivers an alarm until its handler returns; the
  retry limit is taken to exceed the faults). Faults are bounded, which is what "transient" means.
  No player is assumed to act: `MatchEnds` rests on the deadline alone.
- `MatchQueue`: weak fairness of `Step` and `Tick`; *strong* fairness of `Sweep`, since the alarm's
  sweep is queued on the promise chain in the order it came and so runs after finitely many calls,
  although each of them disables it while it runs. `MaxEnqueues` bounds re-enqueueing, which starts
  a player's wait over: `PairsUp` promises nothing to players who never stop doing that.
- `AuditChain`: weak fairness of `Prune` as a whole: the workflow is scheduled daily and runs each
  step until it returns. Nothing is assumed of appends, checkpoints or verifies.
- `Account`: weak fairness of the clock, of the cron's two steps (`ListDue`, `StartDue`) and of each
  instance the platform holds (`Works`), which does not include `Fail`. Requests and holds are free.
  `ErasureFinishes` speaks of accounts due before the last day modelled, so that a next day's pass
  exists when an instance fails.
- `Payments`: weak fairness of each handler (a request in flight runs to its end unless it is lost,
  and losses are bounded) and of the delivery of each event the store has had no answer to. Nobody is
  assumed to submit a receipt.

## 6. Where the code and its comments part

One is a run of the project and a `finding` of `PROJECT.json`:

- `members_unoffered`. `acceptNomination` ends its batch with a delete of the offer and reads the
  number of rows it removed, to be "refused unless it removed exactly one row" (`ownership.ts:547`).
  A delete that matches no row is no error, so the batch has committed: the promotion stands although
  the offer was withdrawn, and the caller is told that nothing moved.

  The same batch has a second consequence. Where the nominee has left, the previous holders are
  demoted and nobody is promoted; if `demotesTo` is a role that does not administer, as
  `ownership.workers.test.ts:201` allows, nobody may be left who does, where `ownership.ts:189` says
  "the count cannot reach zero". `Demoted = "member"` in that configuration, with `Administered` in
  place of `TransferIsOffered`, reproduces it, and it is why the theorem `SomebodyAdministers` has a
  hypothesis.

The others can be reproduced with configurations kept beside them
(`tlc -config <file> <module>`), one property each, each property stated at the end of its module
with the words it takes from the code. Where the table names a property too, put it in place of the
properties of that configuration:

| Configuration | The comment | What happens |
| --- | --- | --- |
| `MCLedger_race`, `ReleaseRefusesResolved` | `ledger.ts:71` a release "refuses a resolved hold" | an in-process release that loses the race to a capture is answered as a silent replay |
| `MCSession_purged_seat` | `multiplayer/src/purge/contribution.ts:30-31` the close of an erased player's table succeeds | a roll settles another player's bet, throws at the erased hold, and is abandoned before its state is put; every close then meets `hold_not_open` |
| `MCSession_borrowed_hold` | `wageringTable.ts:97` `betSeq` makes "each bet's hold ref unique" | lost between hold and state, the next bet takes the same ref and stands on another's stake |
| `MCSession_redrawn` | `durableObject.ts:158-159` "the stream never repeats" | lost between state and cursor, the next roll draws the same numbers |
| `MCSession_two_results` | `durableObject.ts:668-670` a recoverable result row | the deadline's abandoned row stands, and the session resolves |
| `MCMatchQueue_unarmed` | `queue/durableObject.ts:366` an alarm "while anyone is waiting" | lost between waiting list and alarm, none is set |
| `MCAudit_partial_prune` | `audit/src/workflows/prune.ts:85-86` a repeated page does no harm | a run too long for one DELETE is lost between two: what remains has no link before it, no later pass prunes it and no verify crosses it |
| `MCAudit_chain`, `VerdictIsTrue` | `verify.ts:202-203` "a gap that is still a gap is one" | a prune that deletes under both walks leaves a gap in each, and a whole chain is reported broken |
| `MCAccount_hard_unchanged` | `transitions.ts:562` "nothing can restore it" | a hard deletion reads a deleted account that is restored and deleted anew before its update, and is answered as if the window were closed |
| `MCAccount_unfinished` | `purge/run.ts:57` "the daily pass starts a fresh one tomorrow" | auth's rows go before the record is written: a purge that fails between the two is not due any more, and its record never comes |
| `MCPayments_plan_changed` | `writer.ts` "the read model cannot disagree with the purchases" | the keys to derive are those of the product read before the batch; when the product changes in between, the third plan's access stays |
| `MCPayments_waiting_for_ever` | `orphans.ts` a link finds "exactly the rows that were waiting on it" | the link is made and its scan has run before the report is marked an orphan: nothing looks for it again |
| `MCPayments_projection`, `TakesBackOnlyCredit` | `clawback.ts` takes back "what a grants clause credited" | a refund that overtakes its charge debits what was never credited, if the holder has a balance |

Four more are stated at the end of `MembersProperties` and are violated when put in place of
`TransferIsOffered`: `StaysOwned` and `OneOwner` (a transfer that reads no holder does not demote one
who came since; a withdrawn membership leaves a held account without its owner), `AlwaysAdministered`
(a member's role change, the one write not conditioned on the role it read, lands on somebody just
made administrator: `Administered` excepts it) and `SelectionKept` (a removal that finds its
membership gone clears the selection of somebody who is a member again).

And some that need no model to see, met on the way: a capture of zero writes an entry of zero
(`ledger/src/data/transaction.ts:54`); a movement lost between its batch and its event is never
audited, since its retry is a replay (`ledger/src/http/routes.ts:74-75`); release and capture refuse a
settled hold, so replayed session effects are not no-ops (`multiplayer/src/game/effects.ts:16-17`); a
hold whose state was lost is in no book and no close releases it (`durableObject.ts:519`); an operator
key lost after the phase refuses its own retry (`:554-555`); an untimed match whose resolve failed is
complete for ever (`:668-670`); a drop lost before its key is refused or repeated
(`queue/durableObject.ts:170-171`); the greedy fill may form fewer rosters than the waiting set allows
(`matching.ts:151`).

Most of them need the loss of an object between two awaited writes: storage puts separated by an
`await` of something else are not written together. Two more that no comment denies: in the queue, a
loss between the match records and the waiting list leaves a player matched *and* waiting; and a
ledger batch in flight while its owner is purged recreates the owner's rows.

## 7. Proofs

Seven modules hold theorems, over the lemmas of an eighth (`Induction`). The assumptions are those the
modules name (`AmountAssumption`, `NoRefAssumption`, `PaymentsConstants`, ...: sizes are naturals,
sentinels are outside the sets they extend); the theorems that need more say so in their statement.

| Theorem | States, for every value of the constants |
| --- | --- |
| `LedgerTypes`, `LedgerAppendOnly` | the types; `AppendOnly` |
| `LedgerSettlesOnce`, `LedgerReversesOnce`, `LedgerRepliesHonestly`, `LedgerAuditsOnce`, `LedgerExplained`, `SettlementsAlwaysFunded` | `[]SettledOnce`; `[]ReversedOnce`; `[]HonestReplay`; `[]AuditedOnce`; `[]Explained`; `[]SettlementsFunded`: each if nobody is erased |
| `SessionTypes`, `SessionEndsInOrder`, `SessionsWriteNothingBack`, `CompleteIsNeverAbandoned` | the types; `[]EndedInOrder`; `NothingWrittenBack`; `CompleteIsResolved`: under any faults, alarms and purges |
| `BetsStayBacked`, `BetsAreDecidedOnce`, `EndedTablesHoldNothing` | `[]BetsBacked`; `[]DecidedOnce`; `[]NothingHeldAtEnd`: each at a table that nothing interrupts |
| `VoidTypes`, `NoDoubleRun`, `KeyActsOnce`, `DoneIsKept` | the types; `[]NeverTwiceAtOnce`; `[]OneActPerKey`; `DoneStays` |
| `QueueTypes`, `QueueMissesNobody`, `QueuePairsFairly`, `QueueKeepsOut` | the types; `[]NobodyMissing`; `[]PairedFairly`; `OutStaysOut` |
| `ChainHasOneHistory`, `NothingGoesUnvouched` | `[]OneHistory`; `[]Vouched`: over `KeptToOneHistory`, the inductive invariant, wherever steps are lost |
| `ChainWholeAtRest`, `NoFalseAlarms` | `[]WholeAtRest`; `[]AlarmsOnlyUnderPrunes`: over `GapsAreTiled`, each if no prune is lost between two DELETEs of one run |
| `AccountTypes`, `NothingHalfErased`, `HoldsStopPurges`, `RecordsAreTrue` | the types; `[]NeverHalfErased`; `[]HoldStops`; `[]RecordIsTrue` |
| `HistoryAlwaysExplains`, `HooksOncePerTransition` | `[]HistoryExplains`; `[]OncePerTransition`: for finitely many requests |
| `MembersTypes`, `SomebodyAdministers`, `OwnersOutlast`, `SeatsAreHeld`, `LinksJoinOnce` | the types; `[]Administered`, if the demoted role administers; `OwnerNotEnded`; `[]SeatsHeld`; `[]OneJoinEach` |
| `PaymentsTypes`, `NewestWinsHolds`, `FinishedIsSafe`, `AccessIsPaid`, `BooksAlwaysBalance` | the types; `Projects`, the refinement; `[]FinishedIsFulfilled`; `[]EntitledByMoney`, if a transaction keeps its product; `[]BooksBalance`, for finitely many holders |

**Induction.** The prover cannot instantiate the library's induction theorems, which take a predicate as a
parameter. A *set* can stand for the predicate: `LeastSet` says that a set of subsets of a finite set
has one with no smaller one in it, `LeastNumber` the same of numbers, and what would be an induction
is a contradiction on the least counterexample. In this way a sum over a finite set splits over a
union, changes by what one element changes and keeps its sign (`SumUnion`, `SumTakes`, `SumNat`), and
a function given by recursion over numbers or by choice from a set exists and keeps to the set its
steps keep to (`RecursionExists`, `FoldExists`). The models are written so that this applies: what the
proofs need of `Keeping` (`Array.filter`) and of the folds of the pairing is said of recursive functions.

**Ledger.** The argument has two layers. The first says of each batch operator that it builds a
well-typed batch (`PostOK` .. `CaptureOK`) and that running a well-typed batch on typed tables gives
typed tables (`RunTyped`). The second goes through the actions. `TypeOK` is not inductive: a reversal derives its
ref from the ref of an entry it read, and that is again a derived ref unless the entry is one a
caller named. The invariant `TypeInv` adds that only entries under a caller's own ref are reversible,
and that the locals of every call are typed by stage. `DbSteps` shows that a step
leaves the tables alone, runs one batch, or purges one person, whatever the call had read; that no
row breaks the CHECK follows at once (`NextSolvent`) and is only a lemma, since it says nothing of
the operations.

The last part is about settlement. `LogFits` says that log and holds fit together row by row: an entry
is under the ref its kind gives it, a settling entry beside a hold with the status it left, a
correction beside the entry it mirrors, and a hold that is not open has its settling entry.
`ReadStands` says that what a call read of a row is still so when it uses it, because rows do not
change but for a hold's status; with the one `:resolve` ref per hold, a release or a capture is then
only ever applied to a hold that is open (`SettleAdmissible`). `MovedWaits` says that a movement still
to be recorded is in the log and one call's to record. For `Explained`, each batch's rows and updates
are shown to move an account's sums of entries and of open holds by what they move its balance and its
reserve, and a transfer those of two accounts.

`SettlementsFunded` is what the CHECK and the operations give together. A release and a capture have no
answer for a shortfall, so neither may meet one: if the hold a call read is still open, the reserve
is a sum it is part of (`ReserveCovers`, from `Explained`), the balance is no less than the reserve,
and what the call takes is no more than the hold has (`OpenHoldPays`); if it has been settled
meanwhile, its `:resolve` entry is in the log and UNIQUE aborts the batch first
(`SettledHoldConflicts`). These six theorems assume `Erasable = {}`: a
purge frees refs that a call in progress may still be about, and what `ledger_wide` leaves out
(section 4) would then be a counterexample.

**Sessions.** A transition is the list of its writes, so the invariant speaks of every such list beside
the stores it writes to. `Orderly` says of each write still to do what makes it right when its turn
comes: a terminal phase is preceded by the removal from the index and, if resolved, by a result; an
outcome is written to an ended session without one; a roster that is written back holds everybody
seated but the leaver. That this stays so needs that one task at a time has a list (`Serial`, which is
`serially`), and nothing about faults: a list that is lost is an empty one. The first four theorems
follow whatever fails.

The last three are about money and assume `Uninterrupted`: a table, no fault, nobody erased meanwhile.
`MCSession_borrowed_hold` and `MCSession_purged_seat` show that they fail otherwise. `Due` is what the
ledger will reserve when a write of the list is due: what it reserves now, less the releases and
captures before that write, with the holds before it. `Settling` says that the book a list writes has
exactly those bets, that money moves only before a book is written, and that each hold it is to settle
is open and settled once; the ledger's own part (`Ledgered`) says that a win is in the log only beside
its released stake, and that what an account has reserved is the sum of its open stakes, so that no
release or capture can fail for want of a reserve. Both were checked by TLC over two tasks before they
were proved. TLC found a first form of `Table` false: it asked
the agreement of every task, and an idle one has nothing to do while another is between two of its
writes. A step then shifts the list by one, and its write does to the ledger exactly what `Due` foretold.

**Voids.** What excludes a second run of a consumer is never read by the request that starts it: a
request claims on what an earlier read said, and the claim compares the row's key. The invariant says
what an old read still entitles its request to: while the row is under the key that was read, nobody
runs on it (`FreeIsFree`) and its statuses are those that were read (`ReadStands`). These rest on a
key being spent once (`KeysSpent`), so that a row never returns to a key, and on no request outliving
its lease (`InTime`), which is the guard of `Tick` and a premise of the lease itself.

**Queue.** A task is a list of writes here too. `Planned` says of every list that it mints before it
records and records before it writes the waiting list, that no player is in two of its rosters, and
that those to be recorded are not among those it writes back. The pairing is a fold over the waiting
list within a fold over its anchors: every roster that either builds is of players who fit each other,
which holds at its empty start and at each step (`FoldExists`). `Outside` says that who is out is in
neither the waiting list nor what a list will write back or mint, from which `OutStaysOut`; `Complete`
that who was minted has their match recorded, was handed it, or is still to be recorded, as long as
nothing was lost.

**Audit chain.** Everything is said of one history, the hash of the newest row, which only an insert
makes longer. `Invariant(h)` says that rows, tombstones and checkpoints hold parts of `h`, and so does
whatever an append, a prune or a verify has read: a part of a history is a part of every longer one, so
that a read stays good however much is appended before it is used. Three conjuncts carry the rest.
`Landed`: while the request of an event in the history is still at work, the position it would insert
at is taken, so that it inserts nothing again, and the event's row is there for it to find, since an
event does not expire before its request is done. `Deleting`: a prune that deletes holds the last rows of the run that its stored tombstone
names, and the ones before them are gone. `Covered`: every position without a row is in some tombstone's
run. `OneHistory` and `Vouched` follow wherever a step is lost.

That a verify comes through needs more, because tombstones overlap: a run that was lost before its
deletion may be read again longer, or from an earlier row that has expired since, and the bucket keeps
the first tombstone too. `Tiled` says that the positions that are gone, but for the run being deleted,
are cut up *exactly* by some of the tombstones. A walk goes from each row to the next over tiles only,
since the bucket holds one tombstone per first position. The last DELETE of a run makes it a tile
(`OneMoreTile`), and `Recount` makes sure that all of its rows were there until then. `Uncut` says the
same of what a verify has read, for a walk under which nothing was deleted (`WalkWhole`). Whatever was
deleted, a walk over parts of one history finds nothing but a link or a gap (`WalkIs`), never another
kind of break. Both theorems assume `CutDeletes = FALSE`, which is what the run `audit_chain` has: a
prune lost between two DELETEs leaves the end of its run behind, with no link before it, and
`MCAudit_partial_prune` shows the chain broken at rest (section 6).

The chain's operators (`InOrder`, `ExpiredRuns`, `Named`, `Bridge`, `Walk`) are recursive functions over
positions: `IsInOrder`, `IsRuns` and the like name the equation of each, and `RecursionExists` gives
the function that solves it.

**Account.** A purge decides on the account once, when its instance starts, and erases in steps that
may come days later. What makes that safe is that an account that was due stays due or gone
(`Doomed`): a restoration is refused by D1's own clock, and no other transition takes a deleted
account out of its deletion. `OnlyDoomed` says that nothing is erased and no purge is about to erase
otherwise; `Erased` that what an instance has gone past is gone, from which the record is true; and
`OneUnderHold` that what an instance erased under the standing hold is the step it is still at.
Every step either writes no history or adds one row for the move it makes (`Moves`, `Records`), so the
replay of the history, a recursive function, goes one step further where the columns do. A hook is
owed by the request whose batch wrote the row (`HooksOwed`): calls made and calls owed together are no
more than the rows.

**Members.** `RosterMoves` sorts every step by what it does to the roster: one role set under the
conditions of its statement, one membership ended, one joined, a transfer, or nothing. The floors are
then a case each, whatever the request had read, because each statement repeats its condition; the
seat limit takes `FiniteSetTheorems`, adding one element at a time (`OneSeat`). `SomebodyAdministers`
assumes that the role a transfer leaves its holders is one that administers: without that the
statement is false (section 6). `LinksSpent` counts each person's joins against the
invitations minted for them: one still pending has joined nobody.

**Payments.** A purchase row is written by one statement, and that statement only makes it newer under
the same holder (`Grows`). So what a handler read before an `await` still bounds the row after it:
`HandlerKeeps` says at each program counter which report the handler knows to have landed, and
survives what every other handler does. The refinement maps the purchases to `NewestWins`: the
initial states map to its initial states, and every step of `Next` to a report it accepts or to a
stutter. `FinishedIsFulfilled` adds that an event is finished only where its handler was, and that a
credit is never forgotten. `AccessIsPaid` assumes that a transaction keeps the product it began with:
`MCPayments_plan_changed` shows that it fails otherwise. `BooksAlwaysBalance` sums over the holders: a
ref that is new to the ledger moves one balance by what it moves the total of its kind.

Model-checked only:

- liveness (`MatchEnds`, `PairsUp`, `ErasureFinishes`, `Converges`, and `Outlived`): the prover
  does not reach fairness;
- what a pure definition computes for every input, beyond what the theorems say of it.

## 8. What is not modelled, and what could come next

Section 1 says which parts are left out and why. Within the parts that are modelled, what is left
out is stated in the `note` of each component in `PROJECT.json`.

What a next step would take, in this order:

1. `KeyRotation`: `secrets/src/rotation`, a staged key, batches of re-encryption, promotion and
   deferred retirement, lost between any two: no row is ever on a key that is gone.
2. An abstract escrow (`open -> released | captured`, money conserved) that `Ledger` implements
   through a refinement mapping, and that `Session` and `Payments` use in place of their own ledgers.
3. Verifies and exports of a range in `AuditChain`.
