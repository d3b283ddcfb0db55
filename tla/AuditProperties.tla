---------------------------- MODULE AuditProperties ----------------------------
(* What the audit chain promises while it is appended to, pruned and verified. *)
EXTENDS AuditChain

Top == ChainHead(rows).seq

(***************************************************************************)
(* There is one history, and each event is in it once: every hash the      *)
(* rows, the tombstones and the checkpoints hold is a beginning of the     *)
(* newest row's, at the position it is stored under. Appends never fork    *)
(* the chain, an insert retried because its answer was lost is not made    *)
(* again, the prune never writes a link nobody made, and a checkpoint is   *)
(* of a head that was ("two concurrent appends never share a position and  *)
(* never name the same predecessor").                                      *)
(***************************************************************************)
Links ==
  {Link(r) : r \in rows} \cup checkpoints
  \cup {[seq |-> t.from - 1, hash |-> t.prior] : t \in tombstones}
  \cup {[seq |-> t.from, hash |-> t.first] : t \in tombstones}
  \cup {[seq |-> t.through, hash |-> t.last] : t \in tombstones}

OneHistory ==
  /\ \A l \in Links : Len(l.hash) = l.seq /\ IsPrefix(l.hash, ChainHead(rows).hash)
  /\ \A r, q \in rows : r.seq = q.seq => r = q
  /\ LET history == ChainHead(rows).hash
     IN \A i, j \in DOMAIN history : history[i][2] = history[j][2] => i = j

(***************************************************************************)
(* No event is gone unvouched for: every position up to the head is a row, *)
(* or lies in a run some tombstone names, also when a prune is lost at any *)
(* point and its run has grown by the time it is tried again ("a retry     *)
(* cannot delete past what the bucket records").                           *)
(***************************************************************************)
Vouched ==
  \A n \in 1 .. Top :
    RowsAt(n, n) # {} \/ \E t \in tombstones : n \in t.from .. t.through

(***************************************************************************)
(* The prune never breaks the chain: whenever none is running, a verify    *)
(* that reads everything at once finds the chain whole, whatever runs were *)
(* removed, in whatever order their windows passed, and whichever steps    *)
(* were lost (prune.ts: "removed without breaking the chain").             *)
(***************************************************************************)
VerdictNow ==
  LET w == Walk(NoLink, InOrder(rows), tombstones, checkpoints)
  IN IF w.found = "linked" THEN Finish(w.at, checkpoints) ELSE w.found

WholeAtRest == prune.stage = "idle" => VerdictNow = "intact"

(***************************************************************************)
(* A verify does not cry wolf: appends, checkpoints and tombstones written *)
(* while it reads never look like a break. The one thing that can is rows  *)
(* deleted under it, or a run half deleted: in each of its two walks, when *)
(* it reports a gap ("Checkpoints first"; "a second walk lists the         *)
(* tombstone").                                                            *)
(***************************************************************************)
AlarmsOnlyUnderPrunes ==
  verify.verdict \notin {"none", "intact"} =>
    /\ verify.verdict \in {"missing", "truncated"}
    /\ verify.walk \in verify.cut
    /\ verify.verdict = "missing" => verify.cut = {1, 2}

(***************************************************************************)
(* An event past its window does not stay: a prune removes it, unless it   *)
(* is and stays the newest of its chain.                                   *)
(***************************************************************************)
KeptFor(e) == \E r \in rows : r.event = e

Outlived == \A e \in Event :
  (e \in expired /\ KeptFor(e)) ~> (~KeptFor(e) \/ Last(ChainHead(rows).hash)[2] = e)

-----------------------------------------------------------------------------
(* What a comment says and the code does not do *)

(***************************************************************************)
(* verifyChainRange: "A second walk lists the tombstone; a gap that is     *)
(* still a gap is one." A chain that is whole would never be reported as   *)
(* anything else.                                                          *)
(***************************************************************************)
VerdictIsTrue == verify.verdict \in {"none", "intact"}
=============================================================================
