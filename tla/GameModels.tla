------------------------------- MODULE GameModels -------------------------------
(***************************************************************************)
(* The game models a session plays, as pure operators: from a state and a  *)
(* player's action to the next state and the ledger effects it declares.   *)
(*                                                                         *)
(* A wagering table (craps, roulette) keeps a bet book; a simultaneous     *)
(* match (battle) keeps who has submitted. What a random event decides is  *)
(* a function of the bet's data, fixed by the session's seed and by the    *)
(* position in its stream.                                                 *)
(***************************************************************************)
EXTENDS SequencesExt

CONSTANTS
  BetData,   \* the game's own record of a bet: for craps, its type
  Outcome,   \* what an event may decide: functions from BetData to Decision
  BetRef,    \* the ref of the n-th bet of the session, from 0
  WinRef     \* the ref a bet's win is credited under

Decision == {"win", "lose", "push", "carry"}

ASSUME OutcomeAssumption == Outcome \subseteq [BetData -> Decision]

Bet(p, ref, n, data) == [user |-> p, ref |-> ref, amount |-> n, data |-> data]

EmptyBook == [bets |-> << >>, betSeq |-> 0, round |-> 0]

Bets(book) == ToSet(book.bets)

-----------------------------------------------------------------------------
(* Ledger effects *)

Hold(p, n, ref) == [do |-> "hold", user |-> p, amount |-> n, ref |-> ref]

Credit(p, n, ref) == [do |-> "credit", user |-> p, amount |-> n, ref |-> ref]

Release(ref) == [do |-> "release", ref |-> ref]

Capture(ref) == [do |-> "capture", ref |-> ref]

-----------------------------------------------------------------------------
(* The table *)

\* Array.filter: the elements of a list that are in a set, in their order.
Keeping(list, set) ==
  LET kept[i \in 0 .. Len(list)] ==
        IF i = 0 THEN << >>
        ELSE IF list[i] \in set THEN Append(kept[i - 1], list[i]) ELSE kept[i - 1]
  IN kept[Len(list)]

\* placeBet: craps refuses a second bet of one type by one player.
MayBet(book, p, data) == \A b \in Bets(book) : ~(b.user = p /\ b.data = data)

PlaceBet(book, p, n, data) ==
  [state |-> [book EXCEPT !.bets = Append(@, Bet(p, BetRef[book.betSeq], n, data)),
                          !.betSeq = @ + 1],
   effects |-> <<Hold(p, n, BetRef[book.betSeq])>>]

Settlement_KeepsStake(bet, outcome) ==
  CASE outcome[bet.data] \in {"lose", "win"} ->
         <<Capture(bet.ref)>> \o (IF outcome[bet.data] = "win"
                                    THEN <<Credit(bet.user, bet.amount, WinRef[bet.ref])>> ELSE << >>)
    [] outcome[bet.data] = "push" -> <<Release(bet.ref)>>
    [] outcome[bet.data] = "carry" -> << >>

\* What a decided bet moves. A win pays the stake once over, beside the stake itself.
Settlement(bet, outcome) ==
  CASE outcome[bet.data] = "lose" -> <<Capture(bet.ref)>>
    [] outcome[bet.data] = "push" -> <<Release(bet.ref)>>
    [] outcome[bet.data] = "win"  -> <<Release(bet.ref), Credit(bet.user, bet.amount, WinRef[bet.ref])>>
    [] outcome[bet.data] = "carry" -> << >>

RunEvent_PushStays(book, outcome) ==
  LET carried == {bet \in Bets(book) : outcome[bet.data] \in {"carry", "push"}}
      settled == [i \in DOMAIN book.bets |-> Settlement(book.bets[i], outcome)]
  IN [state |-> [book EXCEPT !.bets = Keeping(@, carried), !.round = @ + 1],
      effects |-> FlattenSeq(settled)]

RunEvent(book, outcome) ==
  LET carried == {bet \in Bets(book) : outcome[bet.data] = "carry"}
      settled == [i \in DOMAIN book.bets |-> Settlement(book.bets[i], outcome)]
  IN [state |-> [book EXCEPT !.bets = Keeping(@, carried), !.round = @ + 1],
      effects |-> FlattenSeq(settled)]

OnLeave(book, p) ==
  LET own == {bet \in Bets(book) : bet.user = p}
      mine == Keeping(book.bets, own)
  IN [state |-> [book EXCEPT !.bets = Keeping(@, Bets(book) \ own)],
      effects |-> [i \in DOMAIN mine |-> Release(mine[i].ref)]]

-----------------------------------------------------------------------------
(* The simultaneous match: everyone submits once, and then it is complete. *)

NewMatch == [submitted |-> {}]

MaySubmit(match, p) == p \notin match.submitted

Submission(match, p) == [match EXCEPT !.submitted = @ \cup {p}]

IsComplete(match, members) == ToSet(members) \subseteq match.submitted
=============================================================================
