------------------------------ MODULE MCResultVoid ------------------------------
(* Two results, three keys and two consumers for TLC. *)
EXTENDS ResultVoid, TLC

TwoConsumers == <<"leaderboard", "rating">>

Symmetry == Permutations(VoidRequest) \cup Permutations(Result) \cup Permutations(Key)
=============================================================================
