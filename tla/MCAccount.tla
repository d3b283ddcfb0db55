----------------------------- MODULE MCAccount -----------------------------
(* Account on small instances: two requests at once over two days.         *)
EXTENDS AccountProperties, TLC

Requests == Permutations(Caller)
=============================================================================
