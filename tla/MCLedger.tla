-------------------------------- MODULE MCLedger --------------------------------
(* Small instances of Ledger. *)
EXTENDS LedgerProperties, TLC

CONSTANTS r1, r2

PlainRefs == {r1, r2}

\* A ref a caller in process chose that is one the ledger derives from another.
RaceRefs == {r1, <<r1, "resolve">>}
WideRefs == {r1, <<r1, "reverse">>}

\* A person the purge may erase is not interchangeable with one it may not.
PlainSymmetry == Permutations(User) \cup Permutations(Caller) \cup Permutations({r1, r2})
PurgeSymmetry == Permutations(Caller) \cup Permutations({r1, r2})
RaceSymmetry == Permutations(User) \cup Permutations(Caller)
=============================================================================
