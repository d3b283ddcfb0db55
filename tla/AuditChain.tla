------------------------------ MODULE AuditChain ------------------------------
(***************************************************************************)
(* One tenant's audit chain (packages/audit/src/chain): the appends that   *)
(* contend for its next position, the retention prune that removes runs of *)
(* expired events behind a tombstone, the checkpoints written to a bucket, *)
(* and the verify that walks the chain while all of them go on. The rows   *)
(* are in D1, the tombstones and checkpoints in R2: no write spans both.   *)
(***************************************************************************)
EXTENDS Naturals, SequencesExt

CONSTANTS
  Event,        \* what is recorded; each has a request of its own
  Page,         \* how many expired rows a prune step reads (AUDIT_PRUNE_PAGE)
  Chunk,        \* how many rows one DELETE may name (chunkByBoundParameters)
  WalkPage,     \* how many rows one read of a verify takes
  MaxFaults,    \* how many prune steps are lost, and inserts unanswered
  Verifying,    \* whether anybody verifies the chain
  CutDeletes    \* whether a step may be lost between two of its DELETEs

ASSUME ChainAssumption ==
  /\ {Page, Chunk, WalkPage} \subseteq Nat \ {0} /\ MaxFaults \in Nat /\ {CutDeletes, Verifying} \subseteq BOOLEAN

VARIABLES
  rows,         \* pithy_audit_events, the chained rows
  tombstones,   \* the bucket's tombstones
  checkpoints,  \* the bucket's checkpoints
  expired,      \* events past their windows
  append,       \* each event's appendChained
  prune,        \* the retention workflow's pass
  noted,        \* the head a checkpoint run has read and not yet written
  verify,       \* a verifyChainRange over the whole chain
  faults

vars == <<rows, tombstones, checkpoints, expired, append, prune, noted, verify, faults>>

Stored == <<rows, tombstones, checkpoints, expired>>

-----------------------------------------------------------------------------
(* The chain *)

\* A hash is what it covers: its own position and event, and the hash before it.
Hash(row) == Append(row.prev, <<row.seq, row.event>>)

\* A link is a position and its hash; the chain starts after NoLink.
NoLink == [seq |-> 0, hash |-> << >>]

Link(row) == [seq |-> row.seq, hash |-> Hash(row)]

ChainHead(S) == IF S = {} THEN NoLink ELSE Link(CHOOSE r \in S : \A q \in S : q.seq <= r.seq)

\* ORDER BY chainSeq: position by position, the row there if there is one.
InOrder(S) ==
  LET upTo[n \in 0 .. ChainHead(S).seq] ==
        LET here == {r \in S : r.seq = n}
        IN IF n = 0 THEN << >>
           ELSE IF here = {} THEN upTo[n - 1] ELSE Append(upTo[n - 1], CHOOSE r \in here : TRUE)
  IN upTo[ChainHead(S).seq]

FirstRows(S, n) == LET all == InOrder(S) IN SubSeq(all, 1, IF Len(all) < n THEN Len(all) ELSE n)

RowsAt(from, through) == {r \in rows : r.seq \in from .. through}

NoAppend == [stage |-> "none", seq |-> 0, prev |-> << >>, stalls |-> 0]

NoPrune == [stage |-> "idle", after |-> 0, through |-> 0, now |-> {}, page |-> << >>, runs |-> << >>,
            tombs |-> {}, prior |-> << >>, stored |-> {}, doomed |-> << >>]

NoVerify == [read |-> 0, walk |-> 1, checks |-> {}, tombs |-> {}, through |-> 0, at |-> NoLink,
             cut |-> {}, verdict |-> "none"]

Init ==
  /\ rows = {} /\ tombstones = {} /\ checkpoints = {} /\ expired = {}
  /\ append = [e \in Event |-> NoAppend]
  /\ prune = NoPrune /\ noted = {} /\ verify = NoVerify /\ faults = 0

-----------------------------------------------------------------------------
(* appendChained *)

\* Read the head, and stop when it refused three positions without moving.
ReadHead(e) ==
  LET head == ChainHead(rows)
      was == append[e]
      stalls == IF was.stage = "none" \/ head.seq + 1 > was.seq THEN 0 ELSE was.stalls + 1
  IN /\ was.stage \in {"none", "retry"}
     /\ append' = [append EXCEPT ![e] =
          [stage |-> IF stalls >= 3 THEN "failed" ELSE "write",
           seq |-> head.seq + 1, prev |-> head.hash, stalls |-> stalls]]
     /\ UNCHANGED <<Stored, prune, noted, verify, faults>>

NewRow(e) == [seq |-> append[e].seq, event |-> e, prev |-> append[e].prev]

Taken_Exactly(seq) == \E r \in rows : r.seq = seq

\* The condition of the INSERT: an event at or past this position.
Taken(seq) == \E r \in rows : r.seq >= seq

\* The one statement: it refuses when the head has moved.
Insert(e) ==
  /\ append[e].stage = "write"
  /\ IF Taken(append[e].seq)
       THEN append' = [append EXCEPT ![e].stage = "lost"] /\ UNCHANGED rows
       ELSE append' = [append EXCEPT ![e].stage = "done"] /\ rows' = rows \cup {NewRow(e)}
  /\ UNCHANGED <<tombstones, checkpoints, expired, prune, noted, verify, faults>>

\* The insert lands, its answer is lost, and withD1Retry sends it again.
InsertUnanswered(e) ==
  /\ faults < MaxFaults /\ faults' = faults + 1
  /\ append[e].stage = "write" /\ ~Taken(append[e].seq)
  /\ rows' = rows \cup {NewRow(e)}
  /\ UNCHANGED <<tombstones, checkpoints, expired, append, prune, noted, verify>>

\* Nothing inserted: a retry of an insert that landed, or a lost race, tried again until the deadline.
CheckLanded(e) ==
  /\ append[e].stage = "lost"
  /\ \E stage \in IF \E r \in rows : r.event = e THEN {"done"} ELSE {"retry", "failed"} :
       append' = [append EXCEPT ![e].stage = stage]
  /\ UNCHANGED <<Stored, prune, noted, verify, faults>>

\* Time passes an event's window, each action's on its own; never while its own request runs.
Expire(e) ==
  /\ append[e].stage = "done" /\ e \notin expired
  /\ expired' = expired \cup {e}
  /\ UNCHANGED <<rows, tombstones, checkpoints, append, prune, noted, verify, faults>>

-----------------------------------------------------------------------------
(* pruneChainPage, a step of pruneAuditTrail *)

\* The head is never pruned: the next append links to it.
Prunable(head) == head - 1

PruneOnly == <<rows, tombstones, checkpoints, expired, append, noted, verify, faults>>

ReadPruneHead ==
  /\ prune.stage = "idle" /\ ChainHead(rows).seq > 1
  /\ prune' = [prune EXCEPT !.stage = "rows", !.through = Prunable(ChainHead(rows).seq), !.now = expired]
  /\ UNCHANGED PruneOnly

\* Where a pass goes after a page: on from its last row when it was full, else it ends.
PageEnd(p) ==
  [NoPrune EXCEPT !.after = IF Len(p.page) = Page THEN Last(p.page).seq ELSE 0]

\* A row goes on the run before it when it follows its last row.
GoesOn(row, run) == row.seq = Last(run).seq + 1

\* The page's runs of consecutive positions: a row that follows no run starts one.
ExpiredRuns(page) ==
  LET runs[i \in 0 .. Len(page)] ==
        LET before == runs[i - 1]
        IN IF i = 0 THEN << >>
           ELSE IF before # << >> /\ GoesOn(page[i], Last(before))
             THEN [before EXCEPT ![Len(before)] = Append(@, page[i])]
             ELSE Append(before, <<page[i]>>)
  IN runs[Len(page)]

ReadPruneRows ==
  LET due == {r \in rows : r.seq > prune.after /\ r.seq <= prune.through /\ r.event \in prune.now}
      page == FirstRows(due, Page)
  IN /\ prune.stage = "rows"
     /\ prune' = IF page = << >> THEN NoPrune
                 ELSE [prune EXCEPT !.stage = "tombstones", !.page = page, !.runs = ExpiredRuns(page)]
     /\ UNCHANGED PruneOnly

ReadTombstones ==
  /\ prune.stage = "tombstones"
  /\ prune' = [prune EXCEPT !.stage = "count", !.tombs = tombstones]
  /\ UNCHANGED PruneOnly

\* On to the page's next run, refused or deleted.
NextRun(p) ==
  IF Len(p.runs) = 1 THEN PageEnd(p)
  ELSE [p EXCEPT !.stage = "count", !.runs = Tail(@), !.prior = << >>, !.stored = {}, !.doomed = << >>]

Run == prune.runs[1]

From == Run[1].seq

Through == Last(Run).seq

\* A run whose positions hold a row it did not read is refused.
CountRun ==
  /\ prune.stage = "count"
  /\ prune' = IF Cardinality(RowsAt(From, Through)) = Len(Run)
                THEN [prune EXCEPT !.stage = "prior"] ELSE NextRun(prune)
  /\ UNCHANGED PruneOnly

\* The link before a run: a stored event's, or the last of the run a tombstone ends there; none otherwise.
LinksBefore(from) ==
  IF from = 1 THEN {<< >>}
  ELSE IF RowsAt(from - 1, from - 1) # {} THEN {Hash(r) : r \in RowsAt(from - 1, from - 1)}
  ELSE {t.last : t \in {x \in prune.tombs : x.through = from - 1}}

\* runVerifies: the links of a run, and the checkpoints at its positions.
Verifies(run, prior) ==
  \A i \in DOMAIN run :
    /\ run[i].prev = IF i = 1 THEN prior ELSE Hash(run[i - 1])
    /\ \A c \in checkpoints : c.seq = run[i].seq => c.hash = Hash(run[i])

ReadPrior ==
  /\ prune.stage = "prior"
  /\ \/ \E prior \in LinksBefore(From) :
          Verifies(Run, prior) /\ prune' = [prune EXCEPT !.stage = "put", !.prior = prior]
     \/ (\A prior \in LinksBefore(From) : ~Verifies(Run, prior)) /\ prune' = NextRun(prune)
  /\ UNCHANGED PruneOnly

Tombstone_Unlinked(run, prior) ==
  [from |-> run[1].seq, through |-> Last(run).seq, count |-> Len(run),
   prior |-> << >>, first |-> Hash(run[1]), last |-> Hash(Last(run))]

Tombstone(run, prior) ==
  [from |-> run[1].seq, through |-> Last(run).seq, count |-> Len(run),
   prior |-> prior, first |-> Hash(run[1]), last |-> Hash(Last(run))]

Existing_Intended(tomb) == {tomb}

\* writeTombstone: what the bucket holds at the key wins.
Existing(tomb) ==
  LET held == {t \in tombstones : t.from = tomb.from} IN IF held = {} THEN {tomb} ELSE held

PutTombstone ==
  LET tomb == Tombstone(Run, prune.prior)
  IN /\ prune.stage = "put"
     /\ tombstones' = IF \E t \in tombstones : t.from = tomb.from THEN tombstones ELSE tombstones \cup {tomb}
     /\ prune' = [prune EXCEPT !.stage = "recount", !.stored = Existing(tomb)]
     /\ UNCHANGED <<rows, checkpoints, expired, append, noted, verify, faults>>

\* The rows of a run that a tombstone names.
Named(run, t) ==
  LET named[i \in 0 .. Len(run)] ==
        IF i = 0 THEN << >>
        ELSE IF run[i].seq \in t.from .. t.through THEN Append(named[i - 1], run[i]) ELSE named[i - 1]
  IN named[Len(run)]

\* Only the run the stored tombstone names is deleted, when the rows in hand are the rows it names.
Recount ==
  LET t == CHOOSE x \in prune.stored : TRUE
      named == Named(Run, t)
      same == /\ \E i \in DOMAIN Run : Run[i].seq = t.through /\ Hash(Run[i]) = t.last
              /\ Hash(Run[1]) = t.first /\ Len(named) = t.count
              /\ Cardinality(RowsAt(t.from, t.through)) = t.count
  IN /\ prune.stage = "recount"
     /\ prune' = IF same THEN [prune EXCEPT !.stage = "delete", !.doomed = named] ELSE NextRun(prune)
     /\ UNCHANGED PruneOnly

\* One DELETE of a chunk of the run's rows, by their ids.
DeleteChunk ==
  LET some == SubSeq(prune.doomed, 1, IF Chunk < Len(prune.doomed) THEN Chunk ELSE Len(prune.doomed))
      left == SubSeq(prune.doomed, Len(some) + 1, Len(prune.doomed))
  IN /\ prune.stage = "delete"
     /\ rows' = rows \ ToSet(some)
     /\ prune' = IF left # << >> THEN [prune EXCEPT !.doomed = left]
                 ELSE NextRun([prune EXCEPT !.tombs = @ \cup prune.stored])
     /\ verify' = [verify EXCEPT !.cut = IF verify.read = 0 THEN @ ELSE @ \cup {verify.walk}]
     /\ UNCHANGED <<tombstones, checkpoints, expired, append, noted, faults>>

\* Some of a run's rows are deleted, and some are not yet.
BetweenDeletes ==
  prune.stage = "delete" /\ \E t \in prune.stored : Len(prune.doomed) < t.count

\* A pass stops between two pages: its page budget is spent, or a legal hold stands.
StopPass ==
  /\ prune.stage = "idle" /\ prune.after > 0
  /\ prune' = NoPrune
  /\ UNCHANGED PruneOnly

\* The step is lost, and the workflow runs it again from the position it began after.
LoseStep ==
  /\ faults < MaxFaults /\ faults' = faults + 1
  /\ prune.stage # "idle"
  /\ BetweenDeletes => CutDeletes
  /\ prune' = [NoPrune EXCEPT !.after = prune.after]
  /\ UNCHANGED <<Stored, append, noted, verify>>

-----------------------------------------------------------------------------
(* writeCheckpoints *)

NoteHead ==
  /\ noted = {} /\ rows # {}
  /\ noted' = {ChainHead(rows)}
  /\ UNCHANGED <<Stored, append, prune, verify, faults>>

\* The key carries the count, and an object is never replaced.
PutCheckpoint ==
  /\ noted # {} /\ noted' = {}
  /\ checkpoints' = IF \E c \in checkpoints, n \in noted : c.seq = n.seq THEN checkpoints
                    ELSE checkpoints \cup noted
  /\ UNCHANGED <<rows, tombstones, expired, append, prune, verify, faults>>

-----------------------------------------------------------------------------
(* verifyChainRange over the whole chain *)

\* Cross the pruned runs that lead from where the walk stands to the row at seq: at each position the
\* run that starts there, if that is the next one and the run links to the walk.
Bridge(at, seq, tombs) ==
  LET stand[n \in 0 .. seq] ==
        LET l == stand[n - 1]
            next == {t \in tombs : t.from = n /\ n = l.seq + 1 /\ t.through < seq /\ t.prior = l.hash}
            t == CHOOSE x \in next : TRUE
        IN IF n = 0 THEN at ELSE IF next = {} THEN l ELSE [seq |-> t.through, hash |-> t.last]
  IN stand[seq]

\* chainVerifier.push: the link after the row, or why the chain breaks at it.
Push(at, row, tombs, checks) ==
  LET l == Bridge(at, row.seq, tombs)
      crossed == {t \in tombs : t.from > at.seq /\ t.through <= l.seq}
      disagrees(seq, hash) == \E c \in checks : c.seq = seq /\ c.hash # hash
  IN IF \E t \in crossed : disagrees(t.from, t.first) \/ disagrees(t.through, t.last) THEN "checkpoint"
     ELSE IF row.seq > l.seq + 1 THEN "missing"
     ELSE IF row.seq < l.seq + 1 THEN "inserted"
     ELSE IF row.prev # l.hash THEN "unlinked"
     ELSE IF disagrees(row.seq, Hash(row)) THEN "checkpoint"
     ELSE "linked"

\* A walk over a page: where it ends, and the first break.
Walk(from, page, tombs, checks) ==
  LET walked[i \in 0 .. Len(page)] ==
        LET w == walked[i - 1]
        IN IF i = 0 THEN [at |-> from, found |-> "linked"]
           ELSE IF w.found # "linked" THEN w
           ELSE [at |-> Link(page[i]), found |-> Push(w.at, page[i], tombs, checks)]
  IN walked[Len(page)]

\* finish: a checkpoint past the last event is a truncation.
Finish(at, checks) == IF \E c \in checks : c.seq > at.seq THEN "truncated" ELSE "intact"

ReadOrder_HeadFirst == <<"range", "checkpoints", "tombstones", "walk">>

\* Checkpoints first: one written after the head is read would count past it.
ReadOrder == <<"checkpoints", "tombstones", "range", "walk">>

StartVerify ==
  /\ Verifying /\ verify.read = 0
  /\ verify' = [NoVerify EXCEPT !.read = 1]
  /\ UNCHANGED <<Stored, append, prune, noted, faults>>

ReadForWalk ==
  LET what == ReadOrder[verify.read]
  IN /\ verify.read \in 1 .. 3
     /\ verify' = [verify EXCEPT
          !.read = @ + 1,
          !.checks = IF what = "checkpoints" THEN checkpoints ELSE @,
          !.tombs = IF what = "tombstones" THEN tombstones ELSE @,
          !.through = IF what = "range" THEN ChainHead(rows).seq ELSE @]
     /\ UNCHANGED <<Stored, append, prune, noted, faults>>

\* A prune that ran during the walk leaves a gap: a second walk lists its tombstone.
WalksAgain(found) == found = "missing" /\ verify.walk = 1

\* The walks that rows were deleted under, or that met a run half deleted.
Cut == verify.cut \cup (IF BetweenDeletes THEN {verify.walk} ELSE {})

Settle(found) ==
  IF WalksAgain(found)
    THEN [NoVerify EXCEPT !.read = 1, !.walk = 2, !.cut = Cut]
    ELSE [NoVerify EXCEPT !.walk = verify.walk, !.cut = Cut, !.verdict = found]

WalkAPage ==
  LET page == FirstRows({r \in rows : r.seq > verify.at.seq /\ r.seq <= verify.through}, WalkPage)
      w == Walk(verify.at, page, verify.tombs, verify.checks)
  IN /\ verify.read = 4
     /\ verify' = IF w.found # "linked" THEN Settle(w.found)
                  ELSE IF Len(page) = WalkPage THEN [verify EXCEPT !.at = w.at, !.cut = Cut]
                  ELSE Settle(Finish(w.at, verify.checks))
     /\ UNCHANGED <<Stored, append, prune, noted, faults>>

Prune ==
  \/ ReadPruneHead \/ ReadPruneRows \/ ReadTombstones \/ CountRun
  \/ ReadPrior \/ PutTombstone \/ Recount \/ DeleteChunk

Next ==
  \/ \E e \in Event : ReadHead(e) \/ Insert(e) \/ InsertUnanswered(e) \/ CheckLanded(e) \/ Expire(e)
  \/ Prune \/ StopPass \/ LoseStep
  \/ NoteHead \/ PutCheckpoint
  \/ StartVerify \/ ReadForWalk \/ WalkAPage

Spec == Init /\ [][Next]_vars

(***************************************************************************)
(* The prune is scheduled daily and its workflow runs each step until it   *)
(* returns: a pass goes on, and there is always another.                   *)
(***************************************************************************)
FairSpec == Spec /\ WF_vars(Prune)
=============================================================================
