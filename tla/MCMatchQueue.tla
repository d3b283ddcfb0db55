------------------------------ MODULE MCMatchQueue ------------------------------
(* Small queues for TLC: who plays, how well and where. *)
EXTENDS MatchQueueProperties

CONSTANTS p1, p2, p3, p4

OneRegion == [p \in Player |-> "eu"]

\* Two rated players too far apart for the initial band: only a wait pairs them.
FarSkill == (p1 :> 1) @@ (p2 :> 3)

\* The same two, and a player without a rating, who pairs with anyone.
MixedSkill == FarSkill @@ (p3 :> Unrated)

\* Skills in a row: the one in the middle fits both others, who do not fit each other.
RowSkill == (p1 :> 1) @@ (p2 :> 2) @@ (p3 :> 3)

LadderSkill == RowSkill @@ (p4 :> 4)

Interchangeable == Permutations(Task) \cup Permutations(Key)
=============================================================================
