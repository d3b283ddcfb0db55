-------------------------- MODULE AccountProperties --------------------------
(***************************************************************************)
(* What an account's lifecycle and its purge owe the people they are       *)
(* about, whatever requests, purges, holds and failures interleave.        *)
(***************************************************************************)
EXTENDS Account

Columns == [present : BOOLEAN, suspendedAt : Nat, suspendedUntil : Nat,
            deletedAt : Nat, purgeAfter : Nat]

RowActions == {"suspended", "reinstated", "deleted", "restored", "purge_step",
               "purge_retained", "purge_failed", "purged"}

Answer == {"none", "move", "moved", "forward", "updated", "unchanged", "conflict", "closed",
           "missing", "purged"}

Call == [pc : {"idle", "read", "move", "reread", "report", "route", "done"},
         op : Operation \union {"none"}, at : Nat, until : Nat, seen : Columns, answer : Answer]

HistoryRow == [action : RowActions, at : Nat, until : Nat, purgeAfter : Nat, step : Nat]

Run == [pc : {"none", "due", "hold", "step", "record", "failing", "stuck", "failed", "held",
              "not_due", "gone", "purged"},
        item : 0 .. CompleteStep]

\* Every variable keeps its shape.
TypeOK ==
  /\ clock \in Nat \ {0}
  /\ user \in Columns
  /\ history \in Seq(HistoryRow)
  /\ fired \in [HookName -> Nat]
  /\ calls \in Nat
  /\ call \in [Caller -> Call]
  /\ data \subseteq EveryStep
  /\ held \in BOOLEAN /\ holds \in Nat
  /\ overrun \subseteq (Instance \X (1 .. CompleteStep))
  /\ run \in [Instance -> Run]
  /\ pass.pc \in {"idle", "start"} /\ pass.due \in Nat
  /\ faults \in Nat

-----------------------------------------------------------------------------

Doomed == ~user.present \/ Due(user, clock)

\* restoreUser, purgeSubject (transitions.ts:705, 797): an account that stands
\* restored, or was never deleted, has lost nothing: no purge erased a row of it.
NeverHalfErased == user.present /\ user.deletedAt = Never => data = EveryStep

\* run.ts:46: a hold stops a purge before its next step.  While a hold stands,
\* an instance erases at most the one step it had already asked about.
HoldStops ==
  \A id \in Instance : \A x, y \in EveryStep :
    <<id, x>> \in overrun /\ <<id, y>> \in overrun => x = y

\* The erasure record is true (recordPurgeStep inside the erasing step, and
\* completePurge last): a step recorded as erased is erased, and a purged
\* account has nothing left but what was retained.
RecordIsTrue ==
  \A i \in DOMAIN history :
    /\ history[i].action = "purge_step" => history[i].step \notin data
    /\ history[i].action = "purged" => ~user.present /\ data \subseteq Retained

\* The batch of move(): replaying the history row by row gives the columns the
\* account has, so no transition is lost from it and none is in it that did not happen.
Replayed(u, row) ==
  CASE row.action = "suspended" ->
         IF InForce(u, row.at) THEN [u EXCEPT !.suspendedUntil = row.until]
         ELSE [u EXCEPT !.suspendedAt = row.at, !.suspendedUntil = row.until]
    [] row.action = "reinstated" ->
         [u EXCEPT !.suspendedAt = Never, !.suspendedUntil = Never]
    [] row.action = "deleted" ->
         [u EXCEPT !.deletedAt = IF @ = Never THEN row.at ELSE @, !.purgeAfter = row.purgeAfter]
    [] row.action = "restored" -> [u EXCEPT !.deletedAt = Never, !.purgeAfter = Never]
    [] OTHER -> u

Replay[n \in 0 .. Len(history)] ==
  IF n = 0 THEN Present ELSE Replayed(Replay[n - 1], history[n])

HistoryExplains == user.present => user = Replay[Len(history)]

\* A hook fires once per transition: never more often than the account made
\* that transition, and onUserPurged once however many purges overlapped.
Moved(action) ==
  {i \in DOMAIN history :
     /\ history[i].action = action
     /\ action = "suspended" => ~InForce(Replay[i - 1], history[i].at)
     /\ action = "deleted" => Replay[i - 1].deletedAt = Never}

OncePerTransition == \A h \in HookName : fired[h] <= Cardinality(Moved(h))
                     /\ Cardinality(Moved("purged")) <= 1

\* The daily pass (run.ts:260): an account due before the last day modelled is
\* erased, unless a hold stands on it.
ErasureFinishes ==
  [](Due(user, clock) /\ Day(clock) < LastDay => <>(~user.present \/ held))

-----------------------------------------------------------------------------
(* What the code's own words say and the code does not do.                 *)

\* transitions.ts:562 of a hard deletion: "the window is already closed --
\* nothing can restore it".  One that was answered has left the account due or gone.
HardIsFinal ==
  \A c \in Caller :
    /\ call[c].pc = "done" /\ call[c].op = "hard"
    /\ call[c].answer \in {"moved", "forward", "unchanged"}
    => Doomed

\* run.ts:57 of a step out of retries: "the daily pass starts a fresh one
\* tomorrow".  So a purge that is due ends with its record, unless a hold stands.
PurgeFinishes ==
  [](Due(user, clock) /\ Day(clock) < LastDay => <>(Purged \/ held))
=============================================================================
