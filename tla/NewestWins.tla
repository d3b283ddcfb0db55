----------------------------- MODULE NewestWins -----------------------------
(***************************************************************************)
(* What the projection promises about every provider transaction, as one   *)
(* variable and one action: the first report of a transaction binds it to  *)
(* a holder for ever, and from then on it stands as the newest report of   *)
(* it said, in whatever order the reports arrive and however often.        *)
(***************************************************************************)
EXTENDS Integers

CONSTANTS Transaction, Report, NoRow

VARIABLE standing

Newer(row, report) == row.holder = report.holder /\ row.at < report.at

Project(report) ==
  LET row == standing[report.tx] IN
  /\ row = NoRow \/ Newer(row, report)
  /\ standing' = [standing EXCEPT ![report.tx] = report]

Init == standing = [t \in Transaction |-> NoRow]
Next == \E report \in Report : Project(report)
Spec == Init /\ [][Next]_standing
=============================================================================
