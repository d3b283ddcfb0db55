-------------------------- MODULE MatchQueueProperties --------------------------
(* What the open queue promises its players and its operators. *)
EXTENDS MatchQueue, FiniteSetsExt

AtRest == \A t \in Task : run[t] = NoTask

TypeOK ==
  /\ Users(waiting) \subseteq Player /\ Len(waiting) = Cardinality(Users(waiting))
  /\ \A i \in DOMAIN waiting : waiting[i].age \in 0 .. MaxWait
  /\ match \in [Player -> 0 .. Len(minted)]
  /\ \A k \in Key : drops[k].user \in Player \cup {Nobody} /\ drops[k].age \in 0 .. KeyLife + 1
  /\ alarm \in BOOLEAN
  /\ \A t \in Task : run[t].made \in [Player -> 0 .. Len(minted)]

(***************************************************************************)
(* A roster is fair between every two of its players, not only between     *)
(* each and its anchor: one region, and for rated players a skill gap that *)
(* fits the wider of the two bands at the moment they were paired.         *)
(***************************************************************************)
PairedFairly ==
  \A s \in DOMAIN minted : \A i, j \in DOMAIN minted[s] : i # j =>
    LET a == minted[s][i]
        b == minted[s][j]
        rated == Unrated \notin {Skill[a.user], Skill[b.user]}
        band(x) == InitialBand + WidenPerSecond * x.age
    IN /\ a.user # b.user /\ Region[a.user] = Region[b.user]
       /\ rated /\ a.age < MaxWait /\ b.age < MaxWait => Gap(a, b) <= Max({band(a), band(b)})

(***************************************************************************)
(* Every player of a minted session learns of it: at rest each one either  *)
(* was handed it or has it recorded (or it was erased). A record is never  *)
(* overwritten by a later match, whose other players would wait for nobody.*)
(***************************************************************************)
NobodyMissing ==
  AtRest /\ faults = 0 =>
    \A s \in DOMAIN minted : \A p \in Users(minted[s]) : match[p] = s \/ s \in told[p]

(***************************************************************************)
(* Who left, was dropped or was forgotten stays out until they enqueue     *)
(* again: no sweep in flight writes them back or seats them afterwards     *)
(* ("a player it left waiting stays dropped"), and a drop is answered as   *)
(* replayed only of a player that key took out.                            *)
(***************************************************************************)
OutStaysOut ==
  [][/\ Users(waiting') \cap out' = {}
     /\ minted' # minted => Users(Last(minted')) \cap out = {}
     /\ reply'.answer = "replayed" => <<reply'.key, reply'.who>> \in removed']_vars

(***************************************************************************)
(* Enough players for a match waiting in one region do not wait for ever:  *)
(* their windows open in the end, and a sweep pairs them (when players     *)
(* stop enqueueing anew, which starts a wait over).                        *)
(***************************************************************************)
PairsUp ==
  \A S \in kSubset(Need, Player) :
    (\A p, q \in S : Region[p] = Region[q]) => (S \subseteq Users(waiting) ~> ~(S \subseteq Users(waiting)))

-----------------------------------------------------------------------------
(* What a comment says and the code keeps only while the object is not lost *)

(***************************************************************************)
(* A sweep is armed while anyone is waiting (reconcileAlarm: "Keep a       *)
(* single sweep alarm armed while anyone is waiting").                     *)
(***************************************************************************)
AlarmArmed == AtRest /\ waiting # << >> => alarm
=============================================================================
