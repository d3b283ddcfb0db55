--------------------------- MODULE SessionProperties ---------------------------
(* What a session promises its players, its operators and the ledger. *)
EXTENDS Session

AtRest == \A t \in Task : run[t] = NoTask

Live == meta.phase \in {"open", "active"}

Running(op) == \E t \in Task : run[t].op = op

Seated == ToSet(meta.members)

TypeOK ==
  /\ meta.phase \in Phase /\ Seated \subseteq Player /\ Len(meta.members) <= Seats
  /\ meta.cursor \in 0 .. MaxRolls /\ meta.deadline \in BOOLEAN
  /\ storage.outcome \in {"none", "resolved", "abandoned"}
  /\ storage.operatorClose \in OperatorKey \cup {NoKey}
  /\ alarm \in BOOLEAN
  /\ index.phase \in {"none", "open", "active"} /\ ToSet(index.players) \subseteq Player
  /\ result \in {"none", "resolved", "abandoned"}
  /\ \A a \in DOMAIN db.accounts : db.accounts[a].held \in 0 .. db.accounts[a].balance
  /\ \A t \in Task : run[t] = NoTask \/ run[t].who \in Player \cup OperatorKey \cup {NoKey}
  /\ erased \subseteq Erasable

(***************************************************************************)
(* Between transitions the bet book and the ledger agree: every bet of a   *)
(* living player has an open hold of their own for the very stake, and     *)
(* every open hold is a bet's. A session spans four stores and commits to  *)
(* no two of them together.                                                *)
(***************************************************************************)
Backed == {<<b.user, b.ref, b.amount>> : b \in {x \in Bets(model) : x.user \notin erased}}

OpenHolds == {r \in DOMAIN db.holds : db.holds[r].status = "open"}

Reserved == {<<Owner(db.holds[r].account), r, db.holds[r].amount>> : r \in OpenHolds}

BetsBacked == AtRest /\ Mode = "table" /\ meta # NoMeta => Backed = Reserved

(***************************************************************************)
(* A bet is decided once: its hold is captured, or released, and a win is  *)
(* paid beside a released stake, in the amount of the stake, and never     *)
(* beside a captured one; and no settling write finds its hold settled     *)
(* already. (wageringTable.apply; "a payout pays once".)                   *)
(***************************************************************************)
Bettor(ref) == db.holds[ref].account

DecidedOnce ==
  /\ reply.answer # "hold_not_open"
  /\ \A ref \in DOMAIN db.holds :
       WinRef[ref] \in DOMAIN db.entries /\ Owner(Bettor(ref)) \notin erased =>
         /\ db.holds[ref].status = "released"
         /\ SameEntry(db, WinRef[ref], Bettor(ref), "credit", db.holds[ref].amount)

(***************************************************************************)
(* The stream of a table's draws never repeats: no two events committed to *)
(* the table's state were drawn from one position of the stream.           *)
(***************************************************************************)
NeverRedrawn == AtRest /\ Mode = "table" /\ meta # NoMeta => model.round <= meta.cursor

(***************************************************************************)
(* A table that has ended holds nobody's money: "a bet still open on the   *)
(* table is released, as each player leaving would release theirs, never   *)
(* held forever" (applyClose).                                             *)
(***************************************************************************)
NothingHeldAtEnd == Mode = "table" /\ Terminal(meta.phase) => OpenHolds = {}

(***************************************************************************)
(* Ending a table never fails, whoever's rows the ledger has purged: the   *)
(* purged seat "is settled as it stands, so the close still releases       *)
(* everyone else's" (multiplayerUserPurge).                                *)
(***************************************************************************)
EndsWhenTold ==
  reply.op \in {"close", "operatorClose"} => reply.answer \notin {"hold_not_found", "hold_not_open"}

(***************************************************************************)
(* What ending writes outside the object comes in its order, also when the *)
(* object is lost on the way: off the index before the phase is terminal   *)
(* (endInFlight), its row in the results before the phase is resolved      *)
(* (commitTerminal, "durable-result-first"), and on the leaderboard at     *)
(* most once and only after it (a lost object may lose the entry, never    *)
(* repeat it).                                                             *)
(***************************************************************************)
EndedInOrder ==
  /\ Terminal(meta.phase) => index = NoRow
  /\ meta.phase = "resolved" => result # "none"
  /\ board <= 1 /\ (board = 1 => meta.phase = "resolved")

(***************************************************************************)
(* No transition writes back over what another one wrote since it read:    *)
(* a player who was told they are in keeps the seat until they leave it    *)
(* (#820: "each take its last seat, and each be told they got in"), and    *)
(* phase, roster, outcome and result of an ended session change no more,   *)
(* whatever late alarm, second close or retry finds it.                    *)
(***************************************************************************)
SeatKept(p) ==
  p \in ToSet(meta'.members) \/ \E t \in Task : run[t].op = "leave" /\ run[t].who = p

EndedStays ==
  /\ meta'.phase = meta.phase /\ meta'.members = meta.members
  /\ storage.outcome # "none" => storage'.outcome = storage.outcome
  /\ result # "none" => result' = result

NothingWrittenBack ==
  [][/\ \A p \in Seated : SeatKept(p)
     /\ Terminal(meta.phase) => EndedStays]_vars

(***************************************************************************)
(* A match everyone has submitted to is never recorded as abandoned, also  *)
(* when its deadline passed before its resolution was durable (onDeadline: *)
(* "the final action raced the deadline and won").                         *)
(***************************************************************************)
CompleteIsResolved ==
  [][Mode = "match" /\ result' = "abandoned" /\ result # result' => ~IsComplete(model, meta.members)]_vars

(***************************************************************************)
(* A match in play ends: resolved when its last player submits, abandoned  *)
(* at its deadline otherwise.                                              *)
(***************************************************************************)
MatchEnds == meta.phase = "active" ~> Terminal(meta.phase)

-----------------------------------------------------------------------------
(* What a comment says and the code does not do *)

(***************************************************************************)
(* commitTerminal is durable-result-first, so that there is never "a       *)
(* resolved session with no recoverable result row": the row of a session  *)
(* nobody closed by hand says what its phase says.                         *)
(***************************************************************************)
ResultAgrees == Terminal(meta.phase) /\ closer = NoKey => result = meta.phase

(***************************************************************************)
(* The table's betSeq is "a monotonic counter making each bet's hold ref   *)
(* unique": a bet in the book never names the hold of another bet, of      *)
(* another player or another stake.                                        *)
(***************************************************************************)
HoldIsOwn ==
  Mode = "table" /\ meta # NoMeta =>
    \A b \in Bets(model) : b.user \notin erased =>
      /\ b.ref \in DOMAIN db.holds
      /\ db.holds[b.ref].account = Purse(b.user) /\ db.holds[b.ref].amount = b.amount
=============================================================================
