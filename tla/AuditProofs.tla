------------------------------ MODULE AuditProofs ------------------------------
(***************************************************************************)
(* Theorems about one tenant's chain for any events, page and chunk sizes  *)
(* and number of faults.                                                   *)
(*                                                                         *)
(* Everything is said of one history h, the hash of the newest row, which  *)
(* only an insert makes longer and nothing else changes: rows, tombstones  *)
(* and checkpoints hold parts of it, and what a request, a prune or a      *)
(* verify has read is a part of it still when it is used. Whether a verify *)
(* comes through is a question of tiles: the positions that are gone, but  *)
(* for the run being deleted, are cut up exactly by some of the            *)
(* tombstones.                                                             *)
(***************************************************************************)
EXTENDS AuditProperties, SequenceTheorems, Induction, TLAPS

-----------------------------------------------------------------------------
(* A history, and its parts *)

Entries == Nat \X Event

\* A history numbers its events from one, and has each once.
Histories ==
  {h \in Seq(Entries) :
     /\ \A i \in 1 .. Len(h) : h[i][1] = i
     /\ \A i, j \in 1 .. Len(h) : h[i][2] = h[j][2] => i = j}

Upto(h, n) == SubSeq(h, 1, n)

RowAt(h, n) == [seq |-> n, event |-> h[n][2], prev |-> Upto(h, n - 1)]

LinkAt(h, n) == [seq |-> n, hash |-> Upto(h, n)]

TombAt(h, from, through) ==
  [from |-> from, through |-> through, count |-> through - from + 1,
   prior |-> Upto(h, from - 1), first |-> Upto(h, from), last |-> Upto(h, through)]

RowsOf(h) == {RowAt(h, n) : n \in 1 .. Len(h)}

LinksOf(h) == {LinkAt(h, n) : n \in 1 .. Len(h)}

\* A run that was pruned ends before the head.
TombsOf(h) ==
  {TombAt(h, x[1], x[2]) : x \in {y \in (1 .. Len(h)) \X (1 .. Len(h)) : y[1] <= y[2] /\ y[2] < Len(h)}}

\* Consecutive rows before the head that are past their windows.
RunsOf(h, gone) ==
  {run \in Seq(RowsOf(h)) :
     /\ run # << >>
     /\ \A i \in 1 .. Len(run) :
          run[i].seq = run[1].seq + i - 1 /\ run[i].seq < Len(h) /\ run[i].event \in gone}

-----------------------------------------------------------------------------
(* The invariant *)

\* The tables hold parts of the history, the last of it among the rows.
Chained(h) ==
  /\ rows \subseteq RowsOf(h)
  /\ h # << >> => RowAt(h, Len(h)) \in rows
  /\ tombstones \subseteq TombsOf(h)
  /\ \A t, u \in tombstones : t.from = u.from => t = u
  /\ checkpoints \subseteq LinksOf(h) /\ noted \subseteq LinksOf(h)

Appends ==
  [stage : {"none", "write", "lost", "retry", "done", "failed"}, seq : Nat, prev : Seq(Entries), stalls : Nat]

\* What an append read is the history up to a position.
Fits(h, a) == a.stage \in {"write", "lost"} => a.seq \in 1 .. Len(h) + 1 /\ a.prev = Upto(h, a.seq - 1)

\* An event in the history is done, or its request has yet to find that it landed.
Landed(h, e) ==
  \A i \in 1 .. Len(h) : h[i][2] = e /\ append[e].stage # "done" =>
    append[e].stage \in {"write", "lost"} /\ append[e].seq <= Len(h) /\ RowAt(h, i) \in rows

Appending(h) ==
  /\ append \in [Event -> Appends] /\ expired \subseteq Event
  /\ \A e \in Event : Fits(h, append[e]) /\ Landed(h, e) /\ (e \in expired => append[e].stage = "done")

Span(t) == t.from .. t.through

\* The rows a deletion has left of the run its tombstone names: the last ones.
Deleting(h, t) ==
  /\ t \in tombstones /\ prune.stored = {t}
  /\ prune.doomed \in Seq(rows) /\ Len(prune.doomed) \in 1 .. t.count
  /\ \A i \in 1 .. Len(prune.doomed) :
       /\ prune.doomed[i] = RowAt(h, t.through - Len(prune.doomed) + i)
       /\ prune.doomed[i].event \in expired
  /\ \A n \in Span(t) : n <= t.through - Len(prune.doomed) => RowAt(h, n) \notin rows

Prunes(h) ==
  [stage : {"idle", "rows", "tombstones", "count", "prior", "put", "recount", "delete"},
   after : Nat, through : Nat, now : SUBSET expired, page : Seq(RowsOf(h)), runs : Seq(RunsOf(h, expired)),
   tombs : SUBSET tombstones, prior : Seq(Entries), stored : SUBSET tombstones, doomed : Seq(RowsOf(h))]

Pruning(h) ==
  /\ prune \in Prunes(h)
  /\ prune.stage = "rows" => prune.through < Len(h)
  /\ prune.stage \notin {"idle", "rows"} => prune.runs # << >>
  /\ prune.stage = "put" => prune.prior = Upto(h, From - 1)
  /\ prune.stage = "recount" => \E t \in tombstones : prune.stored = {t} /\ t.from = From
  /\ prune.stage = "delete" => \E t \in tombstones : Deleting(h, t)

Gone(h) == {n \in 1 .. Len(h) : RowAt(h, n) \notin rows}

Covered(h) == \A n \in Gone(h) : \E t \in tombstones : n \in Span(t)

Verdicts == {"none", "intact", "missing", "truncated"}

Reads == 0 .. 4

WalkIds == {1, 2}

Positions(h) == 0 .. Len(h)

Places(h) == {LinkAt(h, n) : n \in Positions(h)}

Verifications(h) ==
  [read : Reads, walk : WalkIds, checks : SUBSET checkpoints, tombs : SUBSET tombstones, through : Positions(h),
   at : Places(h), cut : SUBSET WalkIds, verdict : Verdicts]

\* What the verify has read are parts of the history too.
Reading(h) ==
  /\ verify \in Verifications(h)
  /\ verify.read \in 1 .. 3 => verify.at = NoLink
  /\ verify.read # 0 => verify.verdict = "none"
  /\ verify.read = 4 => verify.at.seq <= verify.through /\ \A c \in verify.checks : c.seq <= verify.through

Invariant(h) == Chained(h) /\ Appending(h) /\ Pruning(h) /\ Covered(h) /\ Reading(h)

IInv == \E h \in Histories : Invariant(h)

-----------------------------------------------------------------------------
(* The invariant of a chain whose deletions are not cut short *)

\* The runs of these tombstones are disjoint, and together they are these positions.
Tiles(D, G) ==
  /\ UNION {Span(t) : t \in D} = G
  /\ \A t, u \in D : t # u => Span(t) \cap Span(u) = {}

\* The run in deletion.
InDeletion == IF prune.stage = "delete" THEN UNION {Span(t) : t \in prune.stored} ELSE {}

Tiled(h) == \E D \in SUBSET tombstones : Tiles(D, Gone(h) \ InDeletion)

Present(h, n) == n = 0 \/ RowAt(h, n) \in rows

\* Rows are where a walk under which nothing was deleted expects them.
Uncut(h) ==
  /\ verify.walk = 2 => 1 \in verify.cut
  /\ verify.walk \notin verify.cut =>
       /\ verify.read \in {3, 4} /\ ~BetweenDeletes => \E D \in SUBSET verify.tombs : Tiles(D, Gone(h))
       /\ verify.read = 4 => Present(h, verify.through) /\ Present(h, verify.at.seq)

Whole(h) == Tiled(h) /\ Uncut(h) /\ AlarmsOnlyUnderPrunes

WInv == \E h \in Histories : Invariant(h) /\ Whole(h)

-----------------------------------------------------------------------------
(* A history, position by position *)

LEMMA HistoryIs ==
  ASSUME NEW h \in Histories
  PROVE  /\ h \in Seq(Entries) /\ Len(h) \in Nat /\ DOMAIN h = 1 .. Len(h)
         /\ \A i \in 1 .. Len(h) : h[i] \in Entries /\ h[i] = <<i, h[i][2]>> /\ h[i][2] \in Event
         /\ \A i, j \in 1 .. Len(h) : h[i][2] = h[j][2] => i = j
<1>1. h \in Seq(Entries)
  BY DEF Histories
<1>2. \A i \in 1 .. Len(h) : h[i] \in Entries
  BY <1>1, ElementOfSeq
<1>3. \A i \in 1 .. Len(h) : h[i] = <<i, h[i][2]>> /\ h[i][2] \in Event
  <2>1. \A x \in Entries : x = <<x[1], x[2]>> /\ x[2] \in Event
    BY DEF Entries
  <2>2. \A i \in 1 .. Len(h) : h[i][1] = i
    BY DEF Histories
  <2>3. QED
    BY <1>2, <2>1, <2>2
<1>4. QED
  BY <1>1, <1>2, <1>3, LenProperties DEF Histories

LEMMA UptoIs ==
  ASSUME NEW h \in Histories, NEW n \in 0 .. Len(h)
  PROVE  /\ Upto(h, n) \in Seq(Entries) /\ Len(Upto(h, n)) = n
         /\ \A i \in 1 .. n : Upto(h, n)[i] = h[i]
<1>1. Len(h) \in Nat /\ \A i \in 1 .. Len(h) : h[i] \in Entries
  BY HistoryIs
<1>2. 1 \in Int /\ n \in Int /\ \A i \in 1 .. n : h[i] \in Entries
  BY <1>1
<1>3. /\ SubSeq(h, 1, n) \in Seq(Entries)
      /\ Len(SubSeq(h, 1, n)) = IF 1 <= n THEN n - 1 + 1 ELSE 0
      /\ \A i \in 1 .. n - 1 + 1 : SubSeq(h, 1, n)[i] = h[1 + i - 1]
  BY <1>2, SubSeqProperties
<1>4. QED
  BY <1>1, <1>3 DEF Upto

\* A beginning is known by its elements.
LEMMA UptoEqual ==
  ASSUME NEW h \in Histories, NEW n \in 0 .. Len(h), NEW s \in Seq(Entries),
         Len(s) = n, \A i \in 1 .. n : s[i] = h[i]
  PROVE  s = Upto(h, n)
<1>1. Upto(h, n) \in Seq(Entries) /\ Len(Upto(h, n)) = n /\ \A i \in 1 .. n : Upto(h, n)[i] = h[i]
  BY UptoIs
<1>2. QED
  BY <1>1, SeqEqual

LEMMA UptoAll == ASSUME NEW h \in Histories PROVE Upto(h, Len(h)) = h
<1>1. h \in Seq(Entries) /\ Len(h) \in 0 .. Len(h)
  BY HistoryIs
<1>2. QED
  BY <1>1, UptoEqual

LEMMA UptoNone == ASSUME NEW h \in Histories PROVE Upto(h, 0) = << >>
  BY SubSeqEmpty DEF Upto

\* A row's hash is the history up to its position.
LEMMA RowIs ==
  ASSUME NEW h \in Histories, NEW n \in 1 .. Len(h)
  PROVE  /\ RowAt(h, n).seq = n /\ RowAt(h, n).event = h[n][2] /\ h[n][2] \in Event
         /\ RowAt(h, n).prev = Upto(h, n - 1)
         /\ Hash(RowAt(h, n)) = Upto(h, n) /\ Link(RowAt(h, n)) = LinkAt(h, n)
<1>1. /\ Len(h) \in Nat /\ h[n] \in Entries /\ h[n] = <<n, h[n][2]>> /\ h[n][2] \in Event
      /\ n - 1 \in 0 .. Len(h) /\ n \in 0 .. Len(h)
  BY HistoryIs
<1>2. Upto(h, n - 1) \in Seq(Entries) /\ Len(Upto(h, n - 1)) = n - 1 /\ \A i \in 1 .. n - 1 : Upto(h, n - 1)[i] = h[i]
  BY <1>1, UptoIs
<1> DEFINE s == Append(Upto(h, n - 1), h[n])
<1>3. /\ s \in Seq(Entries) /\ Len(s) = n - 1 + 1 /\ s[n - 1 + 1] = h[n]
      /\ \A i \in 1 .. n - 1 : s[i] = h[i]
  BY <1>1, <1>2, AppendProperties
<1>4. s = Upto(h, n)
  <2> HIDE DEF s
  <2>1. Len(s) = n /\ \A i \in 1 .. n : s[i] = h[i]
    BY <1>1, <1>3
  <2>2. QED
    BY <1>1, <1>3, <2>1, UptoEqual
<1>5. RowAt(h, n).seq = n /\ RowAt(h, n).event = h[n][2] /\ RowAt(h, n).prev = Upto(h, n - 1)
  BY DEF RowAt
<1>6. Hash(RowAt(h, n)) = Upto(h, n)
  BY <1>1, <1>4, <1>5 DEF Hash
<1>7. QED
  BY <1>1, <1>5, <1>6 DEF Link, LinkAt

LEMMA LinkIs == \A h, n : LinkAt(h, n).seq = n /\ LinkAt(h, n).hash = Upto(h, n)
  BY DEF LinkAt

LEMMA TombIs ==
  \A h, m, n :
    LET t == TombAt(h, m, n)
    IN /\ t.from = m /\ t.through = n /\ t.count = n - m + 1
       /\ t.prior = Upto(h, m - 1) /\ t.first = Upto(h, m) /\ t.last = Upto(h, n)
  BY DEF TombAt

LEMMA FirstLink == ASSUME NEW h \in Histories PROVE NoLink = LinkAt(h, 0)
  BY UptoNone DEF NoLink, LinkAt

\* The rows of a history are told apart by their positions.
LEMMA RowsIs ==
  ASSUME NEW h \in Histories, NEW r \in RowsOf(h)
  PROVE  r.seq \in 1 .. Len(h) /\ r = RowAt(h, r.seq) /\ Hash(r) = Upto(h, r.seq) /\ Link(r) = LinkAt(h, r.seq)
<1>1. PICK n \in 1 .. Len(h) : r = RowAt(h, n)
  BY DEF RowsOf
<1>2. QED
  BY <1>1, RowIs

\* An event is at one position.
LEMMA EventOnce ==
  ASSUME NEW h \in Histories, NEW r \in RowsOf(h), NEW q \in RowsOf(h), r.event = q.event
  PROVE  r = q
<1>1. PICK m \in 1 .. Len(h), n \in 1 .. Len(h) : r = RowAt(h, m) /\ q = RowAt(h, n)
  BY DEF RowsOf
<1>2. h[m][2] = h[n][2]
  BY <1>1, RowIs
<1>3. QED
  BY <1>1, <1>2, HistoryIs

LEMMA InTombs ==
  \A h, t : t \in TombsOf(h) <=>
    \E m, n \in 1 .. Len(h) : t = TombAt(h, m, n) /\ m <= n /\ n < Len(h)
<1>1. ASSUME NEW h, NEW t, t \in TombsOf(h)
      PROVE  \E m, n \in 1 .. Len(h) : t = TombAt(h, m, n) /\ m <= n /\ n < Len(h)
  <2>1. PICK x \in (1 .. Len(h)) \X (1 .. Len(h)) : x[1] <= x[2] /\ x[2] < Len(h) /\ t = TombAt(h, x[1], x[2])
    BY <1>1 DEF TombsOf
  <2>2. x[1] \in 1 .. Len(h) /\ x[2] \in 1 .. Len(h)
    BY <2>1
  <2>3. QED
    BY <2>1, <2>2
<1>2. ASSUME NEW h, NEW m \in 1 .. Len(h), NEW n \in 1 .. Len(h), m <= n, n < Len(h)
      PROVE  TombAt(h, m, n) \in TombsOf(h)
  <2>1. <<m, n>> \in {y \in (1 .. Len(h)) \X (1 .. Len(h)) : y[1] <= y[2] /\ y[2] < Len(h)}
    BY <1>2
  <2>2. TombAt(h, <<m, n>>[1], <<m, n>>[2]) \in TombsOf(h)
    BY <2>1 DEF TombsOf
  <2>3. QED
    BY <2>2
<1>3. QED
  BY <1>1, <1>2

LEMMA TombsIs ==
  ASSUME NEW h \in Histories, NEW t \in TombsOf(h)
  PROVE  /\ t.from \in 1 .. Len(h) /\ t.through \in 1 .. Len(h) /\ t.from <= t.through /\ t.through < Len(h)
         /\ t.count = t.through - t.from + 1
         /\ t.prior = Upto(h, t.from - 1) /\ t.first = Upto(h, t.from) /\ t.last = Upto(h, t.through)
         /\ t = TombAt(h, t.from, t.through)
<1>1. PICK m \in 1 .. Len(h), n \in 1 .. Len(h) : t = TombAt(h, m, n) /\ m <= n /\ n < Len(h)
  BY InTombs
<1>2. /\ t.from = m /\ t.through = n /\ t.count = n - m + 1
      /\ t.prior = Upto(h, m - 1) /\ t.first = Upto(h, m) /\ t.last = Upto(h, n)
  BY <1>1, TombIs
<1>3. QED
  BY <1>1, <1>2

-----------------------------------------------------------------------------
(* A history that grew *)

Grown(h, g) == Len(h) <= Len(g) /\ \A i \in 1 .. Len(h) : g[i] = h[i]

LEMMA GrownUpto ==
  ASSUME NEW h \in Histories, NEW g \in Histories, Grown(h, g), NEW n \in 0 .. Len(h)
  PROVE  Upto(g, n) = Upto(h, n) /\ n \in 0 .. Len(g) /\ LinkAt(g, n) = LinkAt(h, n)
<1>1. Len(h) \in Nat /\ Len(g) \in Nat
  BY HistoryIs
<1>2. n \in 0 .. Len(g)
  BY <1>1 DEF Grown
<1>3. Upto(g, n) \in Seq(Entries) /\ Len(Upto(g, n)) = n /\ \A i \in 1 .. n : Upto(g, n)[i] = g[i]
  BY <1>2, UptoIs
<1>4. \A i \in 1 .. n : Upto(g, n)[i] = h[i]
  BY <1>1, <1>3 DEF Grown
<1>5. Upto(g, n) = Upto(h, n)
  BY <1>3, <1>4, UptoEqual
<1>6. QED
  BY <1>2, <1>5 DEF LinkAt

LEMMA GrownParts ==
  ASSUME NEW h \in Histories, NEW g \in Histories, Grown(h, g)
  PROVE  /\ \A n \in 1 .. Len(h) : RowAt(g, n) = RowAt(h, n)
         /\ RowsOf(h) \subseteq RowsOf(g) /\ LinksOf(h) \subseteq LinksOf(g) /\ TombsOf(h) \subseteq TombsOf(g)
<1>1. Len(h) \in Nat /\ Len(g) \in Nat /\ Len(h) <= Len(g)
  BY HistoryIs DEF Grown
<1>2. \A n \in 0 .. Len(h) : Upto(g, n) = Upto(h, n) /\ LinkAt(g, n) = LinkAt(h, n)
  BY GrownUpto
<1>3. ASSUME NEW n \in 1 .. Len(h)
      PROVE  RowAt(g, n) = RowAt(h, n) /\ n \in 1 .. Len(g) /\ LinkAt(g, n) = LinkAt(h, n)
  <2>1. n - 1 \in 0 .. Len(h) /\ g[n] = h[n] /\ n \in 0 .. Len(h)
    BY <1>1 DEF Grown
  <2>2. QED
    BY <1>1, <1>2, <2>1 DEF RowAt
<1>4. RowsOf(h) \subseteq RowsOf(g) /\ LinksOf(h) \subseteq LinksOf(g)
  BY <1>3 DEF RowsOf, LinksOf
<1>5. ASSUME NEW t \in TombsOf(h)
      PROVE  t \in TombsOf(g)
  <2>1. PICK m \in 1 .. Len(h), n \in 1 .. Len(h) : t = TombAt(h, m, n) /\ m <= n /\ n < Len(h)
    BY InTombs
  <2>2. m - 1 \in 0 .. Len(h) /\ m \in 0 .. Len(h) /\ n \in 0 .. Len(h)
    BY <1>1
  <2>3. TombAt(g, m, n) = TombAt(h, m, n)
    BY <1>2, <2>2 DEF TombAt
  <2>4. m \in 1 .. Len(g) /\ n \in 1 .. Len(g) /\ n < Len(g)
    BY <1>1, <2>1
  <2>5. QED
    BY <2>1, <2>3, <2>4, InTombs
<1>6. QED
  BY <1>3, <1>4, <1>5

\* One more event.
LEMMA OneMore ==
  ASSUME NEW h \in Histories, NEW e \in Event, \A i \in 1 .. Len(h) : h[i][2] # e
  PROVE  LET g == Append(h, <<Len(h) + 1, e>>)
         IN g \in Histories /\ Grown(h, g) /\ Len(g) = Len(h) + 1 /\ g[Len(g)] = <<Len(g), e>>
<1> DEFINE x == <<Len(h) + 1, e>>
           g == Append(h, x)
<1>1. /\ Len(h) \in Nat /\ h \in Seq(Entries) /\ x \in Entries
      /\ \A i \in 1 .. Len(h) : h[i] = <<i, h[i][2]>> /\ h[i][2] \in Event
      /\ \A i, j \in 1 .. Len(h) : h[i][2] = h[j][2] => i = j
  BY HistoryIs DEF Entries
<1>2. /\ g \in Seq(Entries) /\ Len(g) = Len(h) + 1
      /\ (\A i \in 1 .. Len(h) : g[i] = h[i]) /\ g[Len(h) + 1] = x
  <2> HIDE DEF x
  <2>1. QED
    BY <1>1, AppendProperties
<1>3. x[1] = Len(h) + 1 /\ x[2] = e
  OBVIOUS
<1> HIDE DEF g, x
<1>4. ASSUME NEW i \in 1 .. Len(g)
      PROVE  g[i][1] = i /\ ((i = Len(h) + 1 /\ g[i][2] = e) \/ (i \in 1 .. Len(h) /\ g[i] = h[i]))
  <2>1. CASE i = Len(h) + 1
    <3>1. g[i] = x
      BY <1>2, <2>1
    <3>2. QED
      BY <1>3, <2>1, <3>1
  <2>2. CASE i # Len(h) + 1
    <3>1. i \in 1 .. Len(h)
      BY <1>1, <1>2, <2>2
    <3>2. h[i][1] = i
      BY <3>1 DEF Histories
    <3>3. QED
      BY <1>2, <3>1, <3>2
  <2>3. QED
    BY <2>1, <2>2
<1>5. \A i, j \in 1 .. Len(g) : g[i][2] = g[j][2] => i = j
  BY <1>1, <1>4
<1>6. g \in Histories
  BY <1>2, <1>4, <1>5 DEF Histories
<1>7. Grown(h, g)
  BY <1>1, <1>2 DEF Grown
<1>8. QED
  BY <1>1, <1>2, <1>6, <1>7 DEF g, x

-----------------------------------------------------------------------------
(* The head, and rows in order *)

\* Of some rows of a history one is the last.
LEMMA LastOf ==
  ASSUME NEW h \in Histories, NEW S \in SUBSET RowsOf(h), S # {}
  PROVE  \E m \in 1 .. Len(h) : RowAt(h, m) \in S /\ ChainHead(S) = LinkAt(h, m) /\ \A q \in S : q.seq <= m
<1> DEFINE L == Len(h)
           B == {L - r.seq : r \in S}
<1>1. L \in Nat /\ \A r \in S : r.seq \in 1 .. L /\ r = RowAt(h, r.seq)
  BY HistoryIs, RowsIs
<1>2. PICK b \in B : \A k \in B : b <= k
  <2>1. B \in SUBSET Nat /\ B # {}
    <3> HIDE DEF L
    <3>1. QED
      BY <1>1
  <2> HIDE DEF B
  <2>2. QED
    BY <2>1, LeastNumber
<1>3. PICK r \in S : b = L - r.seq
  BY <1>2
<1>4. \A q \in S : q.seq <= r.seq
  <2>1. ASSUME NEW q \in S
        PROVE  q.seq <= r.seq
    <3>1. L - q.seq \in B
      OBVIOUS
    <3>2. L - r.seq <= L - q.seq
      BY <1>2, <1>3, <3>1
    <3>3. QED
      <4> HIDE DEF L, B
      <4>1. QED
        BY <1>1, <3>2
  <2>2. QED
    BY <2>1
<1> DEFINE c == CHOOSE x \in S : \A q \in S : q.seq <= x.seq
<1>5. c \in S /\ \A q \in S : q.seq <= c.seq
  BY <1>3, <1>4
<1>6. ChainHead(S) = Link(c)
  BY DEF ChainHead
<1> HIDE DEF c, B
<1>7. c.seq \in 1 .. L /\ c = RowAt(h, c.seq) /\ Link(c) = LinkAt(h, c.seq)
  BY <1>5, RowsIs
<1>8. QED
  BY <1>5, <1>6, <1>7

\* The newest row's hash is the history.
LEMMA HeadIs ==
  ASSUME NEW h \in Histories, Chained(h)
  PROVE  /\ ChainHead(rows) = LinkAt(h, Len(h)) /\ ChainHead(rows).seq = Len(h) /\ ChainHead(rows).hash = h
         /\ rows = {} <=> h = << >>
<1>1. Len(h) \in Nat /\ rows \subseteq RowsOf(h) /\ (h # << >> => RowAt(h, Len(h)) \in rows)
      /\ (h = << >> <=> Len(h) = 0)
  BY HistoryIs, EmptySeq DEF Chained
<1>2. CASE h = << >>
  <2>1. RowsOf(h) = {}
    BY <1>1, <1>2 DEF RowsOf
  <2>2. ChainHead(rows) = LinkAt(h, Len(h))
    BY <1>1, <1>2, <2>1, FirstLink DEF ChainHead
  <2>3. QED
    BY <1>1, <1>2, <2>1, <2>2, UptoAll, LinkIs
<1>3. CASE h # << >>
  <2>1. Len(h) \in 1 .. Len(h) /\ RowAt(h, Len(h)) \in rows /\ rows # {}
    BY <1>1, <1>3
  <2>2. PICK m \in 1 .. Len(h) : RowAt(h, m) \in rows /\ ChainHead(rows) = LinkAt(h, m) /\ \A q \in rows : q.seq <= m
    BY <1>1, <2>1, LastOf
  <2>3. RowAt(h, Len(h)).seq = Len(h)
    BY <2>1, RowIs
  <2>4. m = Len(h)
    BY <1>1, <2>1, <2>2, <2>3
  <2>5. QED
    BY <1>3, <2>1, <2>2, <2>4, UptoAll, LinkIs
<1>4. QED
  BY <1>2, <1>3

\* InOrder, a position at a time.
NextInOrder(s, n, S) ==
  LET here == {r \in S : r.seq = n} IN IF here = {} THEN s ELSE Append(s, CHOOSE r \in here : TRUE)

IsInOrder(g, S) ==
  g = [n \in 0 .. ChainHead(S).seq |->
         LET here == {r \in S : r.seq = n}
         IN IF n = 0 THEN << >>
            ELSE IF here = {} THEN g[n - 1] ELSE Append(g[n - 1], CHOOSE r \in here : TRUE)]

LEMMA InOrderUnfolds == \A S : InOrder(S) = (CHOOSE g : IsInOrder(g, S))[ChainHead(S).seq]
  BY DEF InOrder, IsInOrder

LEMMA InOrderSteps ==
  ASSUME NEW S, ChainHead(S).seq \in Nat
  PROVE  \E f \in [0 .. ChainHead(S).seq -> Seq(S)] :
           /\ f[0] = << >> /\ InOrder(S) = f[ChainHead(S).seq]
           /\ \A n \in 1 .. ChainHead(S).seq : f[n] = NextInOrder(f[n - 1], n, S)
<1> DEFINE N == ChainHead(S).seq
           V == Seq(S)
           more == [x \in V \X (1 .. N) |-> NextInOrder(x[1], x[2], S)]
<1>1. N \in Nat
  OBVIOUS
<1>2. \A s \in V, n \in 1 .. N : NextInOrder(s, n, S) \in V
  <2>1. ASSUME NEW s \in V, NEW n \in 1 .. N
        PROVE  NextInOrder(s, n, S) \in V
    <3> DEFINE here == {r \in S : r.seq = n}
               x == CHOOSE r \in here : TRUE
    <3>1. here # {} => x \in S
      <4>1. here # {} => x \in here
        OBVIOUS
      <4>2. QED
        BY <4>1
    <3>2. NextInOrder(s, n, S) = IF here = {} THEN s ELSE Append(s, x)
      BY DEF NextInOrder
    <3> HIDE DEF here, x
    <3>3. QED
      BY <3>1, <3>2, AppendProperties
  <2>2. QED
    BY <2>1
<1>3. PICK g : Follows(g, more, V, << >>, N)
  <2>1. IsStep(more, V, N)
    <3> HIDE DEF N, V
    <3>1. more \in [V \X (1 .. N) -> V]
      BY <1>2
    <3> HIDE DEF more
    <3>2. QED
      BY <3>1 DEF IsStep
  <2>2. << >> \in V
    BY EmptySeq
  <2> HIDE DEF N, V, more
  <2>3. QED
    BY <1>1, <2>1, <2>2, RecursionExists
<1>4. g \in [0 .. N -> V] /\ g[0] = << >> /\ \A n \in 1 .. N : g[n] = NextInOrder(g[n - 1], n, S)
  <2>1. g \in [0 .. N -> V] /\ g[0] = << >> /\ \A n \in 1 .. N : g[n] = more[<<g[n - 1], n>>]
    <3> HIDE DEF N, V, more
    <3>1. QED
      BY <1>3 DEF Follows
  <2>2. \A n \in 1 .. N : <<g[n - 1], n>> \in V \X (1 .. N)
    <3>1. \A n \in 1 .. N : n - 1 \in 0 .. N
      BY <1>1
    <3> HIDE DEF N, V
    <3>2. QED
      BY <2>1, <3>1
  <2> HIDE DEF N, V
  <2>3. QED
    BY <2>1, <2>2
<1> HIDE DEF more
<1>5. IsInOrder(g, S)
  <2> DEFINE value(n) == IF n = 0 THEN << >> ELSE NextInOrder(g[n - 1], n, S)
  <2>1. \A n \in 0 .. N : g[n] = value(n)
    <3>1. \A n \in 0 .. N : n = 0 \/ n \in 1 .. N
      BY <1>1
    <3> HIDE DEF N
    <3>2. QED
      BY <1>4, <3>1
  <2>2. g = [n \in 0 .. N |-> g[n]]
    BY <1>4
  <2>3. g = [n \in 0 .. N |-> value(n)]
    <3> HIDE DEF value, N
    <3>1. QED
      BY <2>1, <2>2
  <2>4. QED
    BY <2>3 DEF IsInOrder, NextInOrder
<1> DEFINE f == CHOOSE p : IsInOrder(p, S)
<1>6. IsInOrder(f, S)
  BY <1>5
<1>7. InOrder(S) = f[N]
  BY InOrderUnfolds
<1> HIDE DEF f
<1>8. \A n \in 0 .. N : f[n] = g[n]
  <2>1. SameSteps(f, g, N)
    <3>1. \A n \in 0 .. N : f[n] = IF n = 0 THEN << >> ELSE NextInOrder(f[n - 1], n, S)
      BY <1>6 DEF IsInOrder, NextInOrder
    <3>2. 0 \in 0 .. N /\ \A n \in 1 .. N : n \in 0 .. N /\ n # 0
      BY <1>1
    <3> HIDE DEF N
    <3>3. f[0] = << >> /\ \A n \in 1 .. N : f[n] = NextInOrder(f[n - 1], n, S)
      BY <3>1, <3>2
    <3>4. QED
      BY <1>4, <3>3 DEF SameSteps
  <2> HIDE DEF N
  <2>2. QED
    BY <1>1, <2>1, AgreeUpTo
<1>9. N \in 0 .. N /\ InOrder(S) = g[N]
  <2>1. N \in 0 .. N
    BY <1>1
  <2> HIDE DEF N
  <2>2. QED
    BY <1>7, <1>8, <2>1
<1>10. QED
  BY <1>4, <1>9

\* The rows of S up to a position, each once and in order.
Listing(s, S, n) ==
  /\ s \in Seq(S)
  /\ \A i, j \in 1 .. Len(s) : i < j => s[i].seq < s[j].seq
  /\ \A i \in 1 .. Len(s) : s[i].seq <= n
  /\ \A r \in S : r.seq <= n => \E i \in 1 .. Len(s) : s[i] = r

LEMMA OneMoreListed ==
  ASSUME NEW h \in Histories, NEW S \in SUBSET RowsOf(h), NEW n \in 1 .. Len(h), NEW s, Listing(s, S, n - 1)
  PROVE  Listing(NextInOrder(s, n, S), S, n)
<1> DEFINE here == {r \in S : r.seq = n}
           x == CHOOSE r \in here : TRUE
           t == NextInOrder(s, n, S)
<1>1. Len(h) \in Nat /\ \A r \in S : r.seq \in 1 .. Len(h) /\ r = RowAt(h, r.seq)
  BY HistoryIs, RowsIs
<1>2. Len(s) \in Nat /\ (\A i \in 1 .. Len(s) : s[i] \in S) /\ s \in Seq(S)
  BY ElementOfSeq, LenProperties DEF Listing
<1>3. t = IF here = {} THEN s ELSE Append(s, x)
  BY DEF NextInOrder
<1>4. CASE here = {}
  <2>1. t = s
    BY <1>3, <1>4
  <2>2. \A r \in S : r.seq <= n => r.seq <= n - 1
    BY <1>1, <1>4
  <2>3. \A i \in 1 .. Len(s) : s[i].seq <= n
    BY <1>1, <1>2 DEF Listing
  <2> HIDE DEF t, here
  <2>4. Listing(t, S, n)
    BY <2>1, <2>2, <2>3 DEF Listing
  <2>5. QED
    BY <2>4 DEF t
<1>5. CASE here # {}
  <2>1. x \in S /\ x.seq = n
    <3>1. x \in here
      BY <1>5
    <3>2. QED
      BY <3>1
  <2>2. \A r \in S : r.seq = n => r = x
    BY <1>1, <2>1
  <2>3. t = Append(s, x)
    BY <1>3, <1>5
  <2> HIDE DEF t, here, x
  <2>4. /\ t \in Seq(S) /\ Len(t) = Len(s) + 1 /\ t[Len(s) + 1] = x
        /\ \A i \in 1 .. Len(s) : t[i] = s[i]
    BY <1>2, <2>1, <2>3, AppendProperties
  <2>5. \A i \in 1 .. Len(t) : i \in 1 .. Len(s) \/ i = Len(s) + 1
    BY <1>2, <2>4
  <2>6. ASSUME NEW i \in 1 .. Len(t), NEW j \in 1 .. Len(t), i < j
        PROVE  t[i].seq < t[j].seq
    <3>1. i \in 1 .. Len(s)
      BY <1>2, <2>4, <2>6
    <3>2. s[i].seq <= n - 1 /\ s[i].seq \in 1 .. Len(h)
      BY <1>1, <1>2, <3>1 DEF Listing
    <3>3. CASE j = Len(s) + 1
      BY <1>1, <2>1, <2>4, <3>1, <3>2, <3>3
    <3>4. CASE j \in 1 .. Len(s)
      BY <2>4, <2>6, <3>1, <3>4 DEF Listing
    <3>5. QED
      BY <2>5, <3>3, <3>4
  <2>7. ASSUME NEW i \in 1 .. Len(t)
        PROVE  t[i].seq <= n
    <3>1. CASE i = Len(s) + 1
      BY <2>1, <2>4, <3>1
    <3>2. CASE i \in 1 .. Len(s)
      <4>1. s[i].seq <= n - 1 /\ s[i].seq \in 1 .. Len(h)
        BY <1>1, <1>2, <3>2 DEF Listing
      <4>2. QED
        BY <2>4, <3>2, <4>1
    <3>3. QED
      BY <2>5, <3>1, <3>2
  <2>8. ASSUME NEW r \in S, r.seq <= n
        PROVE  \E i \in 1 .. Len(t) : t[i] = r
    <3>1. CASE r.seq = n
      <4>1. r = x /\ Len(s) + 1 \in 1 .. Len(t)
        BY <1>2, <2>2, <2>4, <3>1
      <4>2. QED
        BY <2>4, <4>1
    <3>2. CASE r.seq # n
      <4>1. r.seq <= n - 1
        BY <1>1, <2>8, <3>2
      <4>2. PICK i \in 1 .. Len(s) : s[i] = r
        BY <4>1 DEF Listing
      <4>3. i \in 1 .. Len(t) /\ t[i] = r
        BY <1>2, <2>4, <4>2
      <4>4. QED
        BY <4>3
    <3>3. QED
      BY <3>1, <3>2
  <2>9. Listing(t, S, n)
    BY <2>4, <2>6, <2>7, <2>8 DEF Listing
  <2>10. QED
    BY <2>9 DEF t
<1>6. QED
  BY <1>4, <1>5

LEMMA InOrderIs ==
  ASSUME NEW h \in Histories, NEW S \in SUBSET RowsOf(h)
  PROVE  Listing(InOrder(S), S, Len(h))
<1> DEFINE N == ChainHead(S).seq
<1>1. Len(h) \in Nat /\ N \in 0 .. Len(h) /\ \A r \in S : r.seq <= N
  <2>1. CASE S = {}
    BY <2>1, HistoryIs DEF ChainHead, NoLink
  <2>2. CASE S # {}
    <3>1. PICK m \in 1 .. Len(h) : ChainHead(S) = LinkAt(h, m) /\ \A q \in S : q.seq <= m
      BY <2>2, LastOf
    <3>2. QED
      BY <3>1, HistoryIs, LinkIs
  <2>3. QED
    BY <2>1, <2>2
<1>2. PICK f \in [0 .. N -> Seq(S)] :
        f[0] = << >> /\ InOrder(S) = f[N] /\ \A n \in 1 .. N : f[n] = NextInOrder(f[n - 1], n, S)
  BY <1>1, InOrderSteps
<1> HIDE DEF N
<1>3. Listing(<< >>, S, 0)
  <2>1. \A r \in S : r.seq \in 1 .. Len(h)
    BY RowsIs
  <2>2. << >> \in Seq(S) /\ Len(<< >>) = 0
    BY EmptySeq
  <2>3. \A r \in S : ~(r.seq <= 0)
    BY <1>1, <2>1
  <2>4. QED
    BY <2>2, <2>3 DEF Listing
<1> DEFINE P == {n \in 0 .. N : Listing(f[n], S, n)}
<1>4. P = 0 .. N
  <2>1. 0 \in P
    BY <1>1, <1>2, <1>3
  <2>2. ASSUME NEW n \in 1 .. N, n - 1 \in P
        PROVE  n \in P
    <3>1. n \in 1 .. Len(h) /\ Listing(f[n - 1], S, n - 1)
      BY <1>1, <2>2
    <3>2. Listing(f[n], S, n)
      BY <1>2, <3>1, OneMoreListed
    <3>3. QED
      BY <1>1, <3>2
  <2>3. P \in SUBSET (0 .. N)
    OBVIOUS
  <2> HIDE DEF P
  <2>4. QED
    BY <1>1, <2>1, <2>2, <2>3, UpTo
<1>5. Listing(InOrder(S), S, N)
  <2>1. N \in P
    <3> HIDE DEF P
    <3>1. QED
      BY <1>1, <1>4
  <2>2. Listing(f[N], S, N)
    BY <2>1
  <2>3. QED
    BY <1>2, <2>2
<1>6. \A i \in 1 .. Len(InOrder(S)) : InOrder(S)[i].seq \in 1 .. Len(h)
  <2>1. \A i \in 1 .. Len(InOrder(S)) : InOrder(S)[i] \in S
    BY <1>5, ElementOfSeq DEF Listing
  <2>2. QED
    BY <2>1, RowsIs
<1>7. QED
  <2> DEFINE s == InOrder(S)
  <2>1. /\ s \in Seq(S) /\ \A i, j \in 1 .. Len(s) : i < j => s[i].seq < s[j].seq
        /\ \A r \in S : r.seq <= N => \E i \in 1 .. Len(s) : s[i] = r
    BY <1>5 DEF Listing
  <2>2. \A r \in S : \E i \in 1 .. Len(s) : s[i] = r
    BY <1>1, <2>1
  <2>3. \A i \in 1 .. Len(s) : s[i].seq <= Len(h)
    BY <1>1, <1>6
  <2> HIDE DEF s
  <2>4. Listing(s, S, Len(h))
    BY <2>1, <2>2, <2>3 DEF Listing
  <2>5. QED
    BY <2>4 DEF s

\* The first of some rows, in order and with none left out before them.
FirstOf(p, S, n) ==
  /\ p \in Seq(S) /\ Len(p) <= n
  /\ \A i, j \in 1 .. Len(p) : i < j => p[i].seq < p[j].seq
  /\ \A r \in S, i \in 1 .. Len(p) : r.seq <= p[i].seq => \E j \in 1 .. i : p[j] = r
  /\ Len(p) < n => \A r \in S : \E i \in 1 .. Len(p) : p[i] = r

LEMMA FirstRowsAre ==
  ASSUME NEW h \in Histories, NEW S \in SUBSET RowsOf(h), NEW n \in Nat \ {0}
  PROVE  FirstOf(FirstRows(S, n), S, n)
<1> DEFINE s == InOrder(S)
           k == IF Len(s) < n THEN Len(s) ELSE n
           p == FirstRows(S, n)
<1>1. Listing(s, S, Len(h))
  BY InOrderIs
<1> HIDE DEF s
<1>2. Len(h) \in Nat /\ Len(s) \in Nat /\ s \in Seq(S) /\ (\A i \in 1 .. Len(s) : s[i] \in S)
      /\ \A r \in S : r.seq \in 1 .. Len(h)
  BY <1>1, HistoryIs, RowsIs, ElementOfSeq, LenProperties DEF Listing
<1>3. k \in 0 .. Len(s) /\ k <= n
  BY <1>2
<1>4. p = SubSeq(s, 1, k)
  BY DEF FirstRows, s
<1> HIDE DEF p, k
<1>5. p \in Seq(S) /\ Len(p) = k /\ \A i \in 1 .. k : p[i] = s[i]
  <2>1. k \in Int /\ 1 \in Int /\ \A i \in 1 .. k : s[i] \in S
    BY <1>2, <1>3
  <2>2. /\ p \in Seq(S) /\ Len(p) = IF 1 <= k THEN k - 1 + 1 ELSE 0
        /\ \A i \in 1 .. k - 1 + 1 : p[i] = s[1 + i - 1]
    BY <1>4, <2>1, SubSeqProperties
  <2>3. QED
    BY <1>2, <1>3, <2>2
<1>6. \A i, j \in 1 .. Len(p) : i < j => p[i].seq < p[j].seq
  <2>1. \A i \in 1 .. Len(p) : i \in 1 .. Len(s) /\ p[i] = s[i]
    BY <1>2, <1>3, <1>5
  <2>2. \A i, j \in 1 .. Len(s) : i < j => s[i].seq < s[j].seq
    BY <1>1 DEF Listing
  <2>3. QED
    BY <2>1, <2>2
<1>7. ASSUME NEW r \in S, NEW i \in 1 .. Len(p), r.seq <= p[i].seq
      PROVE  \E j \in 1 .. i : p[j] = r
  <2>1. r.seq \in 1 .. Len(h) /\ i \in 1 .. Len(s) /\ p[i] = s[i] /\ s[i].seq \in 1 .. Len(h)
    BY <1>2, <1>3, <1>5
  <2>2. PICK j \in 1 .. Len(s) : s[j] = r
    BY <1>1, <1>2, <2>1 DEF Listing
  <2>3. j <= i
    <3>1. SUFFICES ASSUME i < j PROVE FALSE
      BY <1>2, <2>1, <2>2
    <3>2. s[i].seq < s[j].seq
      BY <1>1, <2>1, <2>2, <3>1 DEF Listing
    <3>3. QED
      BY <1>2, <1>7, <2>1, <2>2, <3>2
  <2>4. j \in 1 .. i /\ j \in 1 .. k
    BY <1>2, <1>3, <1>5, <2>1, <2>2, <2>3
  <2>5. QED
    BY <1>5, <2>2, <2>4
<1>8. ASSUME Len(p) < n, NEW r \in S
      PROVE  \E i \in 1 .. Len(p) : p[i] = r
  <2>1. k = Len(s)
    BY <1>2, <1>5, <1>8 DEF k
  <2>2. r.seq <= Len(h)
    BY <1>2
  <2>3. PICK i \in 1 .. Len(s) : s[i] = r
    BY <1>1, <2>2 DEF Listing
  <2>4. QED
    BY <1>5, <2>1, <2>3
<1>9. Len(p) <= n
  BY <1>3, <1>5
<1>10. QED
  BY <1>5, <1>6, <1>7, <1>8, <1>9 DEF FirstOf, p

-----------------------------------------------------------------------------
(* The runs of a page, and the rows of a run that a tombstone names *)

\* ExpiredRuns, a row at a time.
NextRuns(before, row) ==
  IF before # << >> /\ GoesOn(row, Last(before))
    THEN [before EXCEPT ![Len(before)] = Append(@, row)]
    ELSE Append(before, <<row>>)

IsRuns(g, page) ==
  g = [i \in 0 .. Len(page) |->
         LET before == g[i - 1]
         IN IF i = 0 THEN << >>
            ELSE IF before # << >> /\ GoesOn(page[i], Last(before))
              THEN [before EXCEPT ![Len(before)] = Append(@, page[i])]
              ELSE Append(before, <<page[i]>>)]

LEMMA RunsUnfold == \A page : ExpiredRuns(page) = (CHOOSE g : IsRuns(g, page))[Len(page)]
  BY DEF ExpiredRuns, IsRuns

\* Rows that may be pruned: past their windows, and not the head.
DueOf(h, gone) == {r \in RowsOf(h) : r.seq < Len(h) /\ r.event \in gone}

LEMMA RunIs ==
  ASSUME NEW h \in Histories, NEW gone, NEW run \in RunsOf(h, gone)
  PROVE  /\ run \in Seq(RowsOf(h)) /\ Len(run) \in Nat \ {0} /\ DOMAIN run = 1 .. Len(run)
         /\ run[1].seq \in 1 .. Len(h) /\ Last(run) = run[Len(run)]
         /\ run[1].seq + Len(run) - 1 < Len(h)
         /\ \A i \in 1 .. Len(run) :
              /\ run[i].seq = run[1].seq + i - 1 /\ run[1].seq + i - 1 \in 1 .. Len(h)
              /\ run[i] = RowAt(h, run[1].seq + i - 1) /\ run[i].event \in gone
<1>1. /\ run \in Seq(RowsOf(h)) /\ run # << >>
      /\ \A i \in 1 .. Len(run) :
           run[i].seq = run[1].seq + i - 1 /\ run[i].seq < Len(h) /\ run[i].event \in gone
  BY DEF RunsOf
<1>2. Len(run) \in Nat \ {0} /\ (\A i \in 1 .. Len(run) : run[i] \in RowsOf(h)) /\ DOMAIN run = 1 .. Len(run)
  BY <1>1, EmptySeq, ElementOfSeq, LenProperties
<1>3. \A i \in 1 .. Len(run) : run[i].seq \in 1 .. Len(h) /\ run[i] = RowAt(h, run[i].seq)
  BY <1>2, RowsIs
<1>4. 1 \in 1 .. Len(run) /\ Len(run) \in 1 .. Len(run)
  BY <1>2
<1>5. run[1].seq + Len(run) - 1 < Len(h) /\ run[1].seq \in 1 .. Len(h)
  BY <1>1, <1>3, <1>4
<1>6. ASSUME NEW i \in 1 .. Len(run)
      PROVE  /\ run[i].seq = run[1].seq + i - 1 /\ run[1].seq + i - 1 \in 1 .. Len(h)
             /\ run[i] = RowAt(h, run[1].seq + i - 1) /\ run[i].event \in gone
  <2>1. run[i].seq = run[1].seq + i - 1 /\ run[i].event \in gone
    BY <1>1
  <2>2. run[i].seq \in 1 .. Len(h) /\ run[i] = RowAt(h, run[i].seq)
    BY <1>3
  <2>3. QED
    BY <2>1, <2>2
<1>7. Last(run) = run[Len(run)]
  BY DEF Last
<1>8. QED
  BY <1>1, <1>2, <1>5, <1>6, <1>7

LEMMA NextRunsIs ==
  ASSUME NEW h \in Histories, NEW gone, NEW before \in Seq(RunsOf(h, gone)), NEW row \in DueOf(h, gone)
  PROVE  NextRuns(before, row) \in Seq(RunsOf(h, gone)) /\ NextRuns(before, row) # << >>
<1> DEFINE R == RunsOf(h, gone)
<1>1. row \in RowsOf(h) /\ row.seq < Len(h) /\ row.event \in gone /\ row.seq \in 1 .. Len(h) /\ Len(h) \in Nat
  BY RowsIs, HistoryIs DEF DueOf
<1>2. CASE before # << >> /\ GoesOn(row, Last(before))
  <2> DEFINE n == Len(before)
             run == before[n]
             longer == Append(run, row)
  <2>1. n \in 1 .. n /\ n \in Nat
    BY <1>2, EmptySeq
  <2>2. run \in R
    <3> HIDE DEF R
    <3>1. QED
      BY <2>1, ElementOfSeq DEF R
  <2>3. /\ run \in Seq(RowsOf(h)) /\ Len(run) \in Nat \ {0} /\ run[1].seq \in 1 .. Len(h) /\ Last(run) = run[Len(run)]
        /\ \A i \in 1 .. Len(run) : run[i].seq = run[1].seq + i - 1 /\ run[i].event \in gone /\ run[i].seq < Len(h)
    <3> HIDE DEF run
    <3>1. QED
      BY <2>2, RunIs DEF RunsOf
  <2>4. row.seq = run[Len(run)].seq + 1
    <3>1. Last(before) = run
      BY DEF Last
    <3>2. QED
      BY <1>2, <2>3, <3>1 DEF GoesOn
  <2> HIDE DEF run
  <2>5. /\ longer \in Seq(RowsOf(h)) /\ longer # << >> /\ Len(longer) = Len(run) + 1
        /\ longer[Len(run) + 1] = row /\ \A i \in 1 .. Len(run) : longer[i] = run[i]
    BY <1>1, <2>3, AppendProperties
  <2> HIDE DEF longer
  <2>6. ASSUME NEW i \in 1 .. Len(longer)
        PROVE  longer[i].seq = longer[1].seq + i - 1 /\ longer[i].seq < Len(h) /\ longer[i].event \in gone
    <3>1. longer[1] = run[1] /\ Len(run) \in 1 .. Len(run)
      BY <2>3, <2>5
    <3>2. CASE i = Len(run) + 1
      <4>1. longer[i] = row /\ run[Len(run)].seq = run[1].seq + Len(run) - 1
        BY <2>3, <2>5, <3>1, <3>2
      <4>0. run[1].seq \in Int /\ Len(run) \in Int
        BY <1>1, <2>3
      <4>2. row.seq = run[1].seq + i - 1
        BY <2>4, <3>2, <4>0, <4>1
      <4>3. QED
        BY <1>1, <2>3, <3>1, <3>2, <4>1, <4>2
    <3>3. CASE i # Len(run) + 1
      <4>1. i \in 1 .. Len(run)
        BY <2>3, <2>5, <3>3
      <4>2. QED
        BY <2>3, <2>5, <3>1, <4>1
    <3>4. QED
      BY <3>2, <3>3
  <2>7. longer \in R
    BY <2>5, <2>6 DEF RunsOf
  <2>8. NextRuns(before, row) = [before EXCEPT ![n] = longer]
    BY <1>2 DEF NextRuns, longer, run
  <2> HIDE DEF R, n
  <2>9. [before EXCEPT ![n] = longer] \in Seq(R) /\ Len([before EXCEPT ![n] = longer]) = n
    BY <2>1, <2>7, ExceptSeq DEF R, n
  <2>10. QED
    BY <2>1, <2>8, <2>9, EmptySeq DEF R
<1>3. CASE ~(before # << >> /\ GoesOn(row, Last(before)))
  <2> DEFINE run == <<row>>
  <2>1. run \in R
    <3>1. run \in Seq(RowsOf(h)) /\ Len(run) = 1 /\ run[1] = row /\ run # << >>
      BY <1>1
    <3>2. \A i \in 1 .. Len(run) : i = 1
      BY <3>1
    <3> HIDE DEF run
    <3>3. run[1].seq = run[1].seq + 1 - 1
      BY <1>1, <3>1
    <3>4. \A i \in 1 .. Len(run) : run[i].seq = run[1].seq + i - 1 /\ run[i].seq < Len(h) /\ run[i].event \in gone
      BY <1>1, <3>1, <3>2, <3>3
    <3>5. run \in RunsOf(h, gone)
      BY <3>1, <3>4 DEF RunsOf
    <3>6. QED
      BY <3>5
  <2>2. NextRuns(before, row) = Append(before, run)
    BY <1>3 DEF NextRuns
  <2> HIDE DEF run, R
  <2>3. QED
    BY <2>1, <2>2, AppendProperties DEF R
<1>4. QED
  BY <1>2, <1>3

LEMMA ExpiredRunsAre ==
  ASSUME NEW h \in Histories, NEW gone, NEW page \in Seq(DueOf(h, gone))
  PROVE  ExpiredRuns(page) \in Seq(RunsOf(h, gone)) /\ (page # << >> => ExpiredRuns(page) # << >>)
<1> DEFINE N == Len(page)
           R == RunsOf(h, gone)
           V == Seq(R)
           more == [x \in V \X (1 .. N) |-> NextRuns(x[1], page[x[2]])]
<1>1. N \in Nat /\ \A n \in 1 .. N : page[n] \in DueOf(h, gone)
  BY LenProperties, ElementOfSeq
<1>2. \A s \in V, n \in 1 .. N : NextRuns(s, page[n]) \in V /\ NextRuns(s, page[n]) # << >>
  BY <1>1, NextRunsIs
<1>3. PICK g : Follows(g, more, V, << >>, N)
  <2>1. IsStep(more, V, N)
    <3> HIDE DEF N, V
    <3>1. more \in [V \X (1 .. N) -> V]
      BY <1>2
    <3> HIDE DEF more
    <3>2. QED
      BY <3>1 DEF IsStep
  <2>2. << >> \in V
    <3> HIDE DEF R
    <3>1. QED
      BY EmptySeq
  <2> HIDE DEF N, V, more
  <2>3. QED
    BY <1>1, <2>1, <2>2, RecursionExists
<1>4. g \in [0 .. N -> V] /\ g[0] = << >> /\ \A n \in 1 .. N : g[n - 1] \in V /\ g[n] = NextRuns(g[n - 1], page[n])
  <2>1. g \in [0 .. N -> V] /\ g[0] = << >> /\ \A n \in 1 .. N : g[n] = more[<<g[n - 1], n>>]
    <3> HIDE DEF N, V, more
    <3>1. QED
      BY <1>3 DEF Follows
  <2>2. \A n \in 1 .. N : g[n - 1] \in V /\ <<g[n - 1], n>> \in V \X (1 .. N)
    <3>1. \A n \in 1 .. N : n - 1 \in 0 .. N
      BY <1>1
    <3> HIDE DEF N, V
    <3>2. QED
      BY <2>1, <3>1
  <2> HIDE DEF N, V
  <2>3. QED
    BY <2>1, <2>2
<1> HIDE DEF more
<1>5. IsRuns(g, page)
  <2> DEFINE value(n) == IF n = 0 THEN << >> ELSE NextRuns(g[n - 1], page[n])
  <2>1. \A n \in 0 .. N : g[n] = value(n)
    <3>1. \A n \in 0 .. N : n = 0 \/ n \in 1 .. N
      BY <1>1
    <3> HIDE DEF N, V
    <3>2. QED
      BY <1>4, <3>1
  <2>2. g = [n \in 0 .. N |-> g[n]]
    <3> HIDE DEF V
    <3>1. QED
      BY <1>4
  <2>3. g = [n \in 0 .. N |-> value(n)]
    <3> HIDE DEF value, N
    <3>1. QED
      BY <2>1, <2>2
  <2>4. QED
    BY <2>3 DEF IsRuns, NextRuns
<1> DEFINE f == CHOOSE p : IsRuns(p, page)
<1>6. IsRuns(f, page)
  BY <1>5
<1>7. ExpiredRuns(page) = f[N]
  BY RunsUnfold
<1> HIDE DEF f
<1>8. \A n \in 0 .. N : f[n] = g[n]
  <2>1. SameSteps(f, g, N)
    <3>1. \A n \in 0 .. N : f[n] = IF n = 0 THEN << >> ELSE NextRuns(f[n - 1], page[n])
      BY <1>6 DEF IsRuns, NextRuns
    <3>2. 0 \in 0 .. N /\ \A n \in 1 .. N : n \in 0 .. N /\ n # 0
      BY <1>1
    <3> HIDE DEF N, V
    <3>3. f[0] = << >> /\ \A n \in 1 .. N : f[n] = NextRuns(f[n - 1], page[n])
      BY <3>1, <3>2
    <3>4. QED
      BY <1>4, <3>3 DEF SameSteps
  <2> HIDE DEF N
  <2>2. QED
    BY <1>1, <2>1, AgreeUpTo
<1>9. N \in 0 .. N /\ ExpiredRuns(page) = g[N] /\ g[N] \in V
  <2>1. N \in 0 .. N
    BY <1>1
  <2> HIDE DEF N, V
  <2>2. QED
    BY <1>4, <1>7, <1>8, <2>1
<1>10. page # << >> => g[N] # << >>
  <2>1. page # << >> => N \in 1 .. N
    BY <1>1, EmptySeq
  <2> HIDE DEF N, V
  <2>2. QED
    BY <1>2, <1>4, <2>1
<1>11. QED
  BY <1>9, <1>10

\* Named, a row at a time.
NextNamed(s, row, t) == IF row.seq \in t.from .. t.through THEN Append(s, row) ELSE s

IsNamed(g, run, t) ==
  g = [i \in 0 .. Len(run) |->
         IF i = 0 THEN << >>
         ELSE IF run[i].seq \in t.from .. t.through THEN Append(g[i - 1], run[i]) ELSE g[i - 1]]

LEMMA NamedUnfolds == \A run, t : Named(run, t) = (CHOOSE g : IsNamed(g, run, t))[Len(run)]
  BY DEF Named, IsNamed

Naming(f, run, t) ==
  /\ f[0] = << >> /\ Named(run, t) = f[Len(run)]
  /\ \A n \in 1 .. Len(run) : f[n] = NextNamed(f[n - 1], run[n], t)

LEMMA NamedSteps ==
  ASSUME NEW S, NEW run \in Seq(S), NEW t
  PROVE  \E f \in [0 .. Len(run) -> Seq(S)] : Naming(f, run, t)
<1> DEFINE N == Len(run)
           V == Seq(S)
           more == [x \in V \X (1 .. N) |-> NextNamed(x[1], run[x[2]], t)]
<1>1. N \in Nat /\ \A n \in 1 .. N : run[n] \in S
  BY LenProperties, ElementOfSeq
<1>2. \A s \in V, n \in 1 .. N : NextNamed(s, run[n], t) \in V
  BY <1>1, AppendProperties DEF NextNamed
<1>3. PICK g : Follows(g, more, V, << >>, N)
  <2>1. IsStep(more, V, N)
    <3> HIDE DEF N, V
    <3>1. more \in [V \X (1 .. N) -> V]
      BY <1>2
    <3> HIDE DEF more
    <3>2. QED
      BY <3>1 DEF IsStep
  <2>2. << >> \in V
    BY EmptySeq
  <2> HIDE DEF N, V, more
  <2>3. QED
    BY <1>1, <2>1, <2>2, RecursionExists
<1>4. g \in [0 .. N -> V] /\ g[0] = << >> /\ \A n \in 1 .. N : g[n] = NextNamed(g[n - 1], run[n], t)
  <2>1. g \in [0 .. N -> V] /\ g[0] = << >> /\ \A n \in 1 .. N : g[n] = more[<<g[n - 1], n>>]
    <3> HIDE DEF N, V, more
    <3>1. QED
      BY <1>3 DEF Follows
  <2>2. \A n \in 1 .. N : <<g[n - 1], n>> \in V \X (1 .. N)
    <3>1. \A n \in 1 .. N : n - 1 \in 0 .. N
      BY <1>1
    <3> HIDE DEF N, V
    <3>2. QED
      BY <2>1, <3>1
  <2> HIDE DEF N, V
  <2>3. QED
    BY <2>1, <2>2
<1> HIDE DEF more
<1>5. IsNamed(g, run, t)
  <2> DEFINE value(n) == IF n = 0 THEN << >> ELSE NextNamed(g[n - 1], run[n], t)
  <2>1. \A n \in 0 .. N : g[n] = value(n)
    <3>1. \A n \in 0 .. N : n = 0 \/ n \in 1 .. N
      BY <1>1
    <3> HIDE DEF N
    <3>2. QED
      BY <1>4, <3>1
  <2>2. g = [n \in 0 .. N |-> g[n]]
    BY <1>4
  <2>3. g = [n \in 0 .. N |-> value(n)]
    <3> HIDE DEF value, N
    <3>1. QED
      BY <2>1, <2>2
  <2>4. QED
    BY <2>3 DEF IsNamed, NextNamed
<1> DEFINE f == CHOOSE p : IsNamed(p, run, t)
<1>6. IsNamed(f, run, t)
  BY <1>5
<1>7. Named(run, t) = f[N]
  BY NamedUnfolds
<1> HIDE DEF f
<1>8. \A n \in 0 .. N : f[n] = g[n]
  <2>1. SameSteps(f, g, N)
    <3>1. \A n \in 0 .. N : f[n] = IF n = 0 THEN << >> ELSE NextNamed(f[n - 1], run[n], t)
      BY <1>6 DEF IsNamed, NextNamed
    <3>2. 0 \in 0 .. N /\ \A n \in 1 .. N : n \in 0 .. N /\ n # 0
      BY <1>1
    <3> HIDE DEF N
    <3>3. f[0] = << >> /\ \A n \in 1 .. N : f[n] = NextNamed(f[n - 1], run[n], t)
      BY <3>1, <3>2
    <3>4. QED
      BY <1>4, <3>3 DEF SameSteps
  <2> HIDE DEF N
  <2>2. QED
    BY <1>1, <2>1, AgreeUpTo
<1>9. N \in 0 .. N /\ Named(run, t) = g[N]
  <2>1. N \in 0 .. N
    BY <1>1
  <2> HIDE DEF N
  <2>2. QED
    BY <1>7, <1>8, <2>1
<1>10. QED
  BY <1>4, <1>9 DEF Naming

\* The rows a tombstone names are the first of the run it was written for.
LEMMA NamedIs ==
  ASSUME NEW h \in Histories, NEW gone, NEW run \in RunsOf(h, gone), NEW k \in 1 .. Len(run),
         NEW t, t.from = run[1].seq, t.through = run[k].seq
  PROVE  /\ Named(run, t) \in Seq(RowsOf(h)) /\ Len(Named(run, t)) = k
         /\ \A i \in 1 .. k : Named(run, t)[i] = run[i]
<1> DEFINE N == Len(run)
           short(n) == IF n <= k THEN n ELSE k
           Part(s, n) == s \in Seq(RowsOf(h)) /\ Len(s) = short(n) /\ \A i \in 1 .. short(n) : s[i] = run[i]
<1>1. /\ N \in Nat \ {0} /\ run \in Seq(RowsOf(h)) /\ run[1].seq \in 1 .. Len(h) /\ Len(h) \in Nat
      /\ \A i \in 1 .. N : run[i].seq = run[1].seq + i - 1 /\ run[i] \in RowsOf(h)
  <2>1. run \in Seq(RowsOf(h))
    BY RunIs
  <2>2. \A i \in 1 .. N : run[i] \in RowsOf(h)
    BY <2>1, ElementOfSeq
  <2>3. QED
    BY <2>1, <2>2, RunIs, HistoryIs
<1>2. PICK f \in [0 .. N -> Seq(RowsOf(h))] :
        f[0] = << >> /\ Named(run, t) = f[N] /\ \A n \in 1 .. N : f[n] = NextNamed(f[n - 1], run[n], t)
  <2>1. run \in Seq(RowsOf(h))
    BY <1>1
  <2> DEFINE S == RowsOf(h)
  <2> HIDE DEF S
  <2>2. run \in Seq(S)
    BY <2>1 DEF S
  <2>3. \E f \in [0 .. Len(run) -> Seq(S)] : Naming(f, run, t)
    BY <2>2, NamedSteps
  <2>4. QED
    BY <2>3 DEF S, Naming
<1>3. ASSUME NEW n \in 1 .. N
      PROVE  run[n].seq \in t.from .. t.through <=> n <= k
  <2>1. k \in 1 .. N /\ N \in Nat /\ t.from \in Nat
    BY <1>1
  <2>2. run[n].seq = t.from + n - 1 /\ t.through = t.from + k - 1
    BY <1>1
  <2>3. QED
    BY <2>1, <2>2
<1>4. ASSUME NEW n \in 1 .. N, Part(f[n - 1], n - 1)
      PROVE  Part(f[n], n)
  <2>1. CASE n <= k
    <3>0. run[n].seq \in t.from .. t.through /\ f[n] = NextNamed(f[n - 1], run[n], t)
      BY <1>2, <1>3, <2>1
    <3>1. f[n] = Append(f[n - 1], run[n]) /\ short(n - 1) = n - 1 /\ short(n) = n
      <4>1. f[n] = Append(f[n - 1], run[n])
        BY <3>0 DEF NextNamed
      <4>2. short(n - 1) = n - 1 /\ short(n) = n
        BY <1>1, <2>1
      <4>3. QED
        BY <4>1, <4>2
    <3> DEFINE s == f[n - 1]
    <3>2. s \in Seq(RowsOf(h)) /\ Len(s) = n - 1 /\ \A i \in 1 .. n - 1 : s[i] = run[i]
      BY <1>4, <3>1
    <3> HIDE DEF s
    <3>3. /\ Append(s, run[n]) \in Seq(RowsOf(h)) /\ Len(Append(s, run[n])) = Len(s) + 1
          /\ (\A i \in 1 .. Len(s) : Append(s, run[n])[i] = s[i]) /\ Append(s, run[n])[Len(s) + 1] = run[n]
      BY <1>1, <3>2, AppendProperties
    <3>4. f[n] = Append(s, run[n])
      BY <3>1 DEF s
    <3>5. ASSUME NEW i \in 1 .. n
          PROVE  f[n][i] = run[i]
      <4>1. CASE i = n
        BY <3>2, <3>3, <3>4, <4>1
      <4>2. CASE i # n
        <5>1. i \in 1 .. n - 1
          BY <4>2
        <5>2. QED
          BY <3>2, <3>3, <3>4, <5>1
      <4>3. QED
        BY <4>1, <4>2
    <3>6. QED
      BY <3>1, <3>2, <3>3, <3>4, <3>5
  <2>2. CASE ~(n <= k)
    <3>1. f[n] = f[n - 1] /\ short(n - 1) = k /\ short(n) = k
      BY <1>1, <1>2, <1>3, <2>2 DEF NextNamed
    <3>2. QED
      BY <1>4, <3>1
  <2>3. QED
    BY <2>1, <2>2
<1>5. Part(<< >>, 0)
  <2>1. << >> \in Seq(RowsOf(h)) /\ Len(<< >>) = 0
    BY EmptySeq
  <2>2. QED
    BY <2>1
<1> HIDE DEF Part
<1> DEFINE P == {n \in 0 .. N : Part(f[n], n)}
<1>6. P = 0 .. N
  <2>1. 0 \in P
    BY <1>1, <1>2, <1>5
  <2>2. ASSUME NEW n \in 1 .. N, n - 1 \in P
        PROVE  n \in P
    <3>1. Part(f[n - 1], n - 1)
      BY <2>2
    <3>2. Part(f[n], n)
      BY <1>4, <3>1
    <3>3. QED
      BY <1>1, <3>2
  <2>3. P \in SUBSET (0 .. N)
    OBVIOUS
  <2> HIDE DEF P
  <2>4. QED
    BY <1>1, <2>1, <2>2, <2>3, UpTo
<1>7. Part(Named(run, t), N)
  <2>1. N \in P
    <3> HIDE DEF P
    <3>1. QED
      BY <1>1, <1>6
  <2>2. Part(f[N], N)
    BY <2>1
  <2>3. QED
    BY <1>2, <2>2
<1>8. short(N) = k
  BY <1>1
<1>9. QED
  BY <1>7, <1>8 DEF Part

-----------------------------------------------------------------------------
(* The walk of a verify *)

\* Bridge, a position at a time.
Leads(l, n, seq, tombs) ==
  {t \in tombs : t.from = n /\ n = l.seq + 1 /\ t.through < seq /\ t.prior = l.hash}

EndOf(t) == [seq |-> t.through, hash |-> t.last]

NextStand(l, n, seq, tombs) ==
  IF Leads(l, n, seq, tombs) = {} THEN l ELSE EndOf(CHOOSE x \in Leads(l, n, seq, tombs) : TRUE)

IsBridge(g, at, seq, tombs) ==
  g = [n \in 0 .. seq |->
         LET l == g[n - 1]
             next == {t \in tombs : t.from = n /\ n = l.seq + 1 /\ t.through < seq /\ t.prior = l.hash}
             t == CHOOSE x \in next : TRUE
         IN IF n = 0 THEN at ELSE IF next = {} THEN l ELSE [seq |-> t.through, hash |-> t.last]]

LEMMA BridgeUnfolds == \A at, seq, tombs : Bridge(at, seq, tombs) = (CHOOSE g : IsBridge(g, at, seq, tombs))[seq]
  BY DEF Bridge, IsBridge

\* Where a walk may stand.
Stands(at, tombs) == {at} \cup {EndOf(t) : t \in tombs}

Bridging(f, at, seq, tombs) ==
  /\ f[0] = at /\ Bridge(at, seq, tombs) = f[seq]
  /\ \A n \in 1 .. seq : f[n] = NextStand(f[n - 1], n, seq, tombs)

LEMMA BridgeSteps ==
  ASSUME NEW at, NEW seq \in Nat, NEW tombs
  PROVE  \E f \in [0 .. seq -> Stands(at, tombs)] : Bridging(f, at, seq, tombs)
<1> DEFINE N == seq
           V == Stands(at, tombs)
           more == [x \in V \X (1 .. N) |-> NextStand(x[1], x[2], seq, tombs)]
<1>1. N \in Nat
  OBVIOUS
<1>2. \A s \in V, n \in 1 .. N : NextStand(s, n, seq, tombs) \in V
  <2>1. ASSUME NEW s \in V, NEW n \in 1 .. N
        PROVE  NextStand(s, n, seq, tombs) \in V
    <3> DEFINE next == Leads(s, n, seq, tombs)
               x == CHOOSE y \in next : TRUE
    <3>1. next # {} => x \in next
      <4> HIDE DEF next
      <4>1. QED OBVIOUS
    <3>2. next # {} => x \in tombs
      <4> HIDE DEF x
      <4>1. QED
        BY <3>1 DEF Leads
    <3>3. NextStand(s, n, seq, tombs) = IF next = {} THEN s ELSE EndOf(x)
      BY DEF NextStand
    <3> HIDE DEF next, x
    <3>4. QED
      BY <3>2, <3>3 DEF Stands
  <2>2. QED
    BY <2>1
<1>3. PICK g : Follows(g, more, V, at, N)
  <2>1. IsStep(more, V, N)
    <3> HIDE DEF N, V
    <3>1. more \in [V \X (1 .. N) -> V]
      BY <1>2
    <3> HIDE DEF more
    <3>2. QED
      BY <3>1 DEF IsStep
  <2>2. at \in V
    BY DEF Stands
  <2> HIDE DEF N, V, more
  <2>3. QED
    BY <1>1, <2>1, <2>2, RecursionExists
<1>4. g \in [0 .. N -> V] /\ g[0] = at /\ \A n \in 1 .. N : g[n] = NextStand(g[n - 1], n, seq, tombs)
  <2>1. g \in [0 .. N -> V] /\ g[0] = at /\ \A n \in 1 .. N : g[n] = more[<<g[n - 1], n>>]
    <3> HIDE DEF N, V, more
    <3>1. QED
      BY <1>3 DEF Follows
  <2>2. \A n \in 1 .. N : <<g[n - 1], n>> \in V \X (1 .. N)
    <3>1. \A n \in 1 .. N : n - 1 \in 0 .. N
      BY <1>1
    <3> HIDE DEF N, V
    <3>2. QED
      BY <2>1, <3>1
  <2> HIDE DEF N, V
  <2>3. QED
    BY <2>1, <2>2
<1> HIDE DEF more
<1>5. IsBridge(g, at, seq, tombs)
  <2> DEFINE value(n) == IF n = 0 THEN at ELSE NextStand(g[n - 1], n, seq, tombs)
  <2>1. \A n \in 0 .. N : g[n] = value(n)
    <3>1. \A n \in 0 .. N : n = 0 \/ n \in 1 .. N
      BY <1>1
    <3> HIDE DEF N, V
    <3>2. QED
      BY <1>4, <3>1
  <2>2. g = [n \in 0 .. N |-> g[n]]
    <3> HIDE DEF V
    <3>1. QED
      BY <1>4
  <2>3. g = [n \in 0 .. N |-> value(n)]
    <3> HIDE DEF value, N
    <3>1. QED
      BY <2>1, <2>2
  <2>4. QED
    BY <2>3 DEF IsBridge, NextStand, Leads, EndOf
<1> DEFINE f == CHOOSE p : IsBridge(p, at, seq, tombs)
<1>6. IsBridge(f, at, seq, tombs)
  BY <1>5
<1>7. Bridge(at, seq, tombs) = f[N]
  BY BridgeUnfolds
<1> HIDE DEF f
<1>8. \A n \in 0 .. N : f[n] = g[n]
  <2>1. SameSteps(f, g, N)
    <3>1. \A n \in 0 .. N : f[n] = IF n = 0 THEN at ELSE NextStand(f[n - 1], n, seq, tombs)
      BY <1>6 DEF IsBridge, NextStand, Leads, EndOf
    <3>2. 0 \in 0 .. N /\ \A n \in 1 .. N : n \in 0 .. N /\ n # 0
      BY <1>1
    <3> HIDE DEF N, V
    <3>3. f[0] = at /\ \A n \in 1 .. N : f[n] = NextStand(f[n - 1], n, seq, tombs)
      BY <3>1, <3>2
    <3>4. QED
      BY <1>4, <3>3 DEF SameSteps
  <2> HIDE DEF N
  <2>2. QED
    BY <1>1, <2>1, AgreeUpTo
<1>9. N \in 0 .. N /\ Bridge(at, seq, tombs) = g[N]
  <2>1. N \in 0 .. N
    BY <1>1
  <2> HIDE DEF N
  <2>2. QED
    BY <1>7, <1>8, <2>1
<1>10. Bridging(g, at, seq, tombs)
  BY <1>4, <1>9 DEF Bridging
<1>11. QED
  BY <1>4, <1>10

\* It stays, or goes to the end of a run that starts after where it stands.
LEMMA NextStandIs ==
  ASSUME NEW l, NEW n, NEW seq, NEW tombs
  PROVE  \/ NextStand(l, n, seq, tombs) = l /\ Leads(l, n, seq, tombs) = {}
         \/ \E t \in tombs :
              /\ NextStand(l, n, seq, tombs) = EndOf(t)
              /\ t.from = n /\ n = l.seq + 1 /\ t.through < seq /\ t.prior = l.hash
<1> DEFINE next == Leads(l, n, seq, tombs)
           x == CHOOSE y \in next : TRUE
<1>1. NextStand(l, n, seq, tombs) = IF next = {} THEN l ELSE EndOf(x)
  BY DEF NextStand
<1>2. next # {} => x \in next
  <2> HIDE DEF next
  <2>1. QED OBVIOUS
<1>3. CASE next = {}
  BY <1>1, <1>3
<1>4. CASE next # {}
  <2> HIDE DEF x
  <2>1. /\ x \in tombs /\ x.from = n /\ n = l.seq + 1 /\ x.through < seq /\ x.prior = l.hash
    BY <1>2, <1>4 DEF Leads
  <2> HIDE DEF next
  <2>2. QED
    BY <1>1, <1>4, <2>1
<1>5. QED
  BY <1>3, <1>4

LEMMA EndIs ==
  ASSUME NEW h \in Histories, NEW t \in TombsOf(h)
  PROVE  EndOf(t) = LinkAt(h, t.through)
  BY TombsIs DEF EndOf, LinkAt

\* From a link of the history it comes to a later one, before the row.
LEMMA BridgeIs ==
  ASSUME NEW h \in Histories, NEW tombs \in SUBSET TombsOf(h),
         NEW m \in 0 .. Len(h), NEW seq \in 1 .. Len(h), m < seq
  PROVE  \E k \in m .. seq - 1 : Bridge(LinkAt(h, m), seq, tombs) = LinkAt(h, k)
<1> DEFINE at == LinkAt(h, m)
           Reached(l) == \E k \in m .. seq - 1 : l = LinkAt(h, k)
<1>1. Len(h) \in Nat /\ seq \in Nat /\ m \in m .. seq - 1
  BY HistoryIs
<1>2. PICK f \in [0 .. seq -> Stands(at, tombs)] :
        f[0] = at /\ Bridge(at, seq, tombs) = f[seq] /\ \A n \in 1 .. seq : f[n] = NextStand(f[n - 1], n, seq, tombs)
  <2> HIDE DEF at, Reached
  <2>1. seq \in Nat
    BY <1>1
  <2>2. PICK f \in [0 .. seq -> Stands(at, tombs)] : Bridging(f, at, seq, tombs)
    BY <2>1, BridgeSteps
  <2>3. QED
    BY <2>2 DEF Bridging
<1>3. ASSUME NEW n \in 1 .. seq, NEW l, Reached(l)
      PROVE  Reached(NextStand(l, n, seq, tombs))
  <2>1. CASE NextStand(l, n, seq, tombs) = l
    BY <1>3, <2>1
  <2>2. ASSUME NEW t \in tombs, NextStand(l, n, seq, tombs) = EndOf(t),
               t.from = n, n = l.seq + 1, t.through < seq
        PROVE  Reached(NextStand(l, n, seq, tombs))
    <3>1. PICK k \in m .. seq - 1 : l = LinkAt(h, k)
      BY <1>3
    <3>2. l.seq = k
      BY <3>1, LinkIs
    <3>3. t.from \in 1 .. Len(h) /\ t.through \in 1 .. Len(h) /\ t.from <= t.through /\ EndOf(t) = LinkAt(h, t.through)
      BY TombsIs, EndIs
    <3>4. t.through \in m .. seq - 1
      BY <1>1, <2>2, <3>2, <3>3
    <3>5. QED
      BY <2>2, <3>3, <3>4
  <2>3. QED
    BY <2>1, <2>2, NextStandIs
<1>4. Reached(at)
  BY <1>1
<1> HIDE DEF Reached
<1> DEFINE P == {n \in 0 .. seq : Reached(f[n])}
<1>5. P = 0 .. seq
  <2>1. 0 \in P
    BY <1>1, <1>2, <1>4
  <2>2. ASSUME NEW n \in 1 .. seq, n - 1 \in P
        PROVE  n \in P
    <3>1. Reached(f[n - 1])
      BY <2>2
    <3>2. Reached(f[n])
      BY <1>2, <1>3, <3>1
    <3>3. QED
      BY <1>1, <3>2
  <2>3. P \in SUBSET (0 .. seq)
    OBVIOUS
  <2> HIDE DEF P
  <2>4. QED
    BY <1>1, <2>1, <2>2, <2>3, UpTo
<1>6. Reached(f[seq])
  <2>1. seq \in P
    <3> HIDE DEF P
    <3>1. QED
      BY <1>1, <1>5
  <2>2. QED
    BY <2>1
<1>7. QED
  BY <1>2, <1>6 DEF Reached

\* Tombstones that start at different positions.
OnePerStart(tombs) == \A t, u \in tombs : t.from = u.from => t = u

\* It crosses a gap that tombstones tile: at each position it is past it.
LEMMA BridgeWhole ==
  ASSUME NEW h \in Histories, NEW tombs \in SUBSET TombsOf(h), OnePerStart(tombs),
         NEW D \in SUBSET tombs, NEW G, Tiles(D, G),
         NEW m \in 0 .. Len(h), NEW seq \in 1 .. Len(h), m < seq, m \notin G, seq \notin G,
         \A n \in m + 1 .. seq - 1 : n \in G
  PROVE  Bridge(LinkAt(h, m), seq, tombs) = LinkAt(h, seq - 1)
<1> DEFINE at == LinkAt(h, m)
           Past(n, l) ==
             \E k \in m .. seq - 1 :
               /\ l = LinkAt(h, k) /\ (n <= m => k = m) /\ (n <= seq - 1 => n <= k)
               /\ n >= seq => k = seq - 1
               /\ k = m \/ \E u \in D : u.through = k
<1>1. Len(h) \in Nat /\ seq \in Nat /\ m \in m .. seq - 1 /\ m \in Nat
  BY HistoryIs
<1>2. PICK f \in [0 .. seq -> Stands(at, tombs)] :
        f[0] = at /\ Bridge(at, seq, tombs) = f[seq] /\ \A n \in 1 .. seq : f[n] = NextStand(f[n - 1], n, seq, tombs)
  <2> HIDE DEF at, Past
  <2>1. seq \in Nat
    BY <1>1
  <2>2. PICK f \in [0 .. seq -> Stands(at, tombs)] : Bridging(f, at, seq, tombs)
    BY <2>1, BridgeSteps
  <2>3. QED
    BY <2>2 DEF Bridging
<1>3. \A t \in tombs : /\ t.from \in 1 .. Len(h) /\ t.through \in 1 .. Len(h) /\ t.from <= t.through
                       /\ t.prior = Upto(h, t.from - 1) /\ EndOf(t) = LinkAt(h, t.through)
  BY TombsIs, EndIs
<1>4. ASSUME NEW n \in 1 .. seq, NEW l, Past(n - 1, l)
      PROVE  Past(n, NextStand(l, n, seq, tombs))
  <2> DEFINE r == NextStand(l, n, seq, tombs)
  <2>1. PICK k \in m .. seq - 1 :
          /\ l = LinkAt(h, k) /\ (n - 1 <= m => k = m) /\ (n - 1 <= seq - 1 => n - 1 <= k)
          /\ n - 1 >= seq => k = seq - 1
          /\ k = m \/ \E u \in D : u.through = k
    BY <1>4
  <2>2. l.seq = k /\ l.hash = Upto(h, k) /\ k \in Nat /\ n \in Nat /\ n - 1 <= k
    BY <1>1, <2>1, LinkIs
  <2> HIDE DEF Past
  <2>3. CASE k >= n
    <3>1. r = l
      BY <1>1, <2>2, <2>3, NextStandIs
    <3>2. n <= seq - 1
      BY <1>1, <2>3
    <3>3. n <= m => k = m
      BY <1>1, <2>1, <2>2
    <3>4. Past(n, l)
      BY <1>1, <2>1, <2>2, <2>3, <3>2, <3>3 DEF Past
    <3>5. QED
      BY <3>1, <3>4
  <2>4. CASE k = n - 1 /\ n = seq
    <3>1. r = l
      <4>1. SUFFICES ASSUME NEW t \in tombs, t.from = n, t.through < seq PROVE FALSE
        BY NextStandIs
      <4>2. QED
        BY <1>1, <1>3, <2>4, <4>1
    <3>2. ~(n <= m) /\ ~(n <= seq - 1) /\ k = seq - 1
      BY <1>1, <2>4
    <3>3. Past(n, l)
      BY <1>1, <2>1, <2>2, <3>2 DEF Past
    <3>4. QED
      BY <3>1, <3>3
  <2>5. CASE k = n - 1 /\ n # seq
    <3>1. n \in m + 1 .. seq - 1 /\ n \in G
      BY <1>1, <2>1, <2>5
    <3>2. PICK t \in D : n \in Span(t)
      BY <3>1 DEF Tiles
    <3>3. t \in tombs /\ t.from <= n /\ n <= t.through
      BY <3>2 DEF Span
    <3>4. \A u \in D, i \in Nat : i \in Span(u) => i \in G
      BY DEF Tiles
    <3>5. t.from = n
      <4>1. SUFFICES ASSUME t.from <= n - 1 PROVE FALSE
        BY <1>1, <1>3, <2>2, <3>3
      <4>2. k \in Span(t)
        BY <1>1, <1>3, <2>2, <2>5, <3>3, <4>1 DEF Span
      <4>3. k # m
        BY <2>2, <3>2, <3>4, <4>2
      <4>4. PICK u \in D : u.through = k
        BY <2>1, <4>3
      <4>5. u # t /\ k \in Span(u)
        BY <1>1, <1>3, <2>2, <2>5, <3>3, <4>4 DEF Span
      <4>6. QED
        BY <3>2, <4>2, <4>4, <4>5 DEF Tiles
    <3>6. t.through < seq
      <4>1. SUFFICES ASSUME seq <= t.through PROVE FALSE
        BY <1>1, <1>3, <3>3
      <4>2. seq \in Span(t)
        BY <1>1, <1>3, <2>2, <3>1, <3>3, <4>1 DEF Span
      <4>3. QED
        BY <1>1, <3>2, <3>4, <4>2
    <3>7. t.prior = l.hash /\ n = l.seq + 1
      BY <1>3, <2>2, <2>5, <3>3, <3>5
    <3>8. t \in Leads(l, n, seq, tombs)
      BY <3>3, <3>5, <3>6, <3>7 DEF Leads
    <3>9. PICK u \in tombs : r = EndOf(u) /\ u.from = n
      BY <3>8, NextStandIs
    <3>10. r = LinkAt(h, t.through)
      BY <1>3, <3>3, <3>5, <3>9 DEF OnePerStart
    <3>11. t.through \in m .. seq - 1 /\ ~(n <= m) /\ n <= t.through /\ ~(n >= seq)
      BY <1>1, <1>3, <3>1, <3>3, <3>6
    <3>12. Past(n, LinkAt(h, t.through))
      BY <3>2, <3>11 DEF Past
    <3>13. QED
      BY <3>10, <3>12
  <2>6. QED
    BY <1>1, <2>1, <2>2, <2>3, <2>4, <2>5
<1>5. Past(0, at)
  BY <1>1
<1> HIDE DEF Past
<1> DEFINE P == {n \in 0 .. seq : Past(n, f[n])}
<1>6. P = 0 .. seq
  <2>1. 0 \in P
    BY <1>1, <1>2, <1>5
  <2>2. ASSUME NEW n \in 1 .. seq, n - 1 \in P
        PROVE  n \in P
    <3>1. Past(n - 1, f[n - 1])
      BY <2>2
    <3>2. Past(n, f[n])
      BY <1>2, <1>4, <3>1
    <3>3. QED
      BY <1>1, <3>2
  <2>3. P \in SUBSET (0 .. seq)
    OBVIOUS
  <2> HIDE DEF P
  <2>4. QED
    BY <1>1, <2>1, <2>2, <2>3, UpTo
<1>7. Past(seq, f[seq])
  <2>1. seq \in P
    <3> HIDE DEF P
    <3>1. QED
      BY <1>1, <1>6
  <2>2. QED
    BY <2>1
<1>8. PICK k \in m .. seq - 1 : f[seq] = LinkAt(h, k) /\ (seq >= seq => k = seq - 1)
  BY <1>7 DEF Past
<1>9. k = seq - 1
  BY <1>1, <1>8
<1>10. QED
  BY <1>2, <1>8, <1>9

Disagrees(checks, seq, hash) == \E c \in checks : c.seq = seq /\ c.hash # hash

Crossed(at, l, tombs) == {t \in tombs : t.from > at.seq /\ t.through <= l.seq}

PushAfter(at, l, row, tombs, checks) ==
  IF \E t \in Crossed(at, l, tombs) : Disagrees(checks, t.from, t.first) \/ Disagrees(checks, t.through, t.last)
    THEN "checkpoint"
  ELSE IF row.seq > l.seq + 1 THEN "missing"
  ELSE IF row.seq < l.seq + 1 THEN "inserted"
  ELSE IF row.prev # l.hash THEN "unlinked"
  ELSE IF Disagrees(checks, row.seq, Hash(row)) THEN "checkpoint"
  ELSE "linked"

LEMMA PushUnfolds ==
  \A at, row, tombs, checks :
    Push(at, row, tombs, checks) = PushAfter(at, Bridge(at, row.seq, tombs), row, tombs, checks)
  BY DEF Push, PushAfter, Crossed, Disagrees

LEMMA LinksIs ==
  ASSUME NEW h \in Histories, NEW c \in LinksOf(h)
  PROVE  c.seq \in 1 .. Len(h) /\ c.hash = Upto(h, c.seq) /\ c = LinkAt(h, c.seq)
<1>1. PICK n \in 1 .. Len(h) : c = LinkAt(h, n)
  BY DEF LinksOf
<1>2. QED
  BY <1>1, LinkIs

\* Over parts of one history, the one thing that can be wrong is a gap.
LEMMA PushIs ==
  ASSUME NEW h \in Histories, NEW tombs \in SUBSET TombsOf(h), NEW checks \in SUBSET LinksOf(h),
         NEW m \in 0 .. Len(h), NEW row \in RowsOf(h), m < row.seq
  PROVE  LET at == LinkAt(h, m)
         IN Push(at, row, tombs, checks) =
              IF Bridge(at, row.seq, tombs) = LinkAt(h, row.seq - 1) THEN "linked" ELSE "missing"
<1> DEFINE at == LinkAt(h, m)
           l == Bridge(at, row.seq, tombs)
<1>1. Len(h) \in Nat /\ row.seq \in 1 .. Len(h) /\ row = RowAt(h, row.seq) /\ Hash(row) = Upto(h, row.seq)
  BY HistoryIs, RowsIs
<1>2. PICK k \in m .. row.seq - 1 : l = LinkAt(h, k)
  BY <1>1, BridgeIs
<1>3. l.seq = k /\ l.hash = Upto(h, k) /\ k \in Int
  BY <1>1, <1>2, LinkIs
<1> HIDE DEF l
<1>4. \A n : ~Disagrees(checks, n, Upto(h, n))
  BY LinksIs DEF Disagrees
<1>5. ~(\E t \in Crossed(at, l, tombs) : Disagrees(checks, t.from, t.first) \/ Disagrees(checks, t.through, t.last))
  <2>1. \A t \in tombs : t.first = Upto(h, t.from) /\ t.last = Upto(h, t.through)
    BY TombsIs
  <2>2. QED
    BY <1>4, <2>1 DEF Crossed
<1>6. ~(row.seq < l.seq + 1)
  BY <1>1, <1>2, <1>3
<1>7. ~Disagrees(checks, row.seq, Hash(row))
  BY <1>1, <1>4
<1>8. Push(at, row, tombs, checks) = PushAfter(at, l, row, tombs, checks)
  BY PushUnfolds DEF l
<1>9. CASE k = row.seq - 1
  <2>1. ~(row.seq > l.seq + 1)
    BY <1>1, <1>3, <1>9
  <2>2. row.prev = l.hash
    BY <1>1, <1>3, <1>9, RowIs
  <2>3. PushAfter(at, l, row, tombs, checks) = "linked"
    BY <1>5, <1>6, <1>7, <2>1, <2>2 DEF PushAfter
  <2>4. l = LinkAt(h, row.seq - 1)
    BY <1>2, <1>9
  <2>5. QED
    BY <1>8, <2>3, <2>4 DEF l
<1>10. CASE k # row.seq - 1
  <2>1. row.seq > l.seq + 1
    BY <1>1, <1>2, <1>3, <1>10
  <2>2. PushAfter(at, l, row, tombs, checks) = "missing"
    BY <1>5, <1>6, <2>1 DEF PushAfter
  <2>3. l # LinkAt(h, row.seq - 1)
    BY <1>3, <1>10, LinkIs
  <2>4. QED
    BY <1>8, <2>2, <2>3 DEF l
<1>11. QED
  BY <1>9, <1>10

\* Walk, a row at a time.
NextWalk(w, row, tombs, checks) ==
  IF w.found # "linked" THEN w
  ELSE [at |-> Link(row), found |-> Push(w.at, row, tombs, checks)]

IsWalk(g, from, page, tombs, checks) ==
  g = [i \in 0 .. Len(page) |->
         LET w == g[i - 1]
         IN IF i = 0 THEN [at |-> from, found |-> "linked"]
            ELSE IF w.found # "linked" THEN w
            ELSE [at |-> Link(page[i]), found |-> Push(w.at, page[i], tombs, checks)]]

LEMMA WalkUnfolds ==
  \A from, page, tombs, checks :
    Walk(from, page, tombs, checks) = (CHOOSE g : IsWalk(g, from, page, tombs, checks))[Len(page)]
  BY DEF Walk, IsWalk

Pushes == {"linked", "missing", "inserted", "unlinked", "checkpoint"}

LEMMA PushKinds == \A at, row, tombs, checks : Push(at, row, tombs, checks) \in Pushes
<1>1. ASSUME NEW at, NEW l, NEW row, NEW tombs, NEW checks
      PROVE  PushAfter(at, l, row, tombs, checks) \in Pushes
  BY DEF PushAfter, Pushes
<1>2. QED
  BY <1>1, PushUnfolds

Walks(from, page) == [at : {from} \cup {Link(page[i]) : i \in 1 .. Len(page)}, found : Pushes]

Walking(f, from, page, tombs, checks) ==
  /\ f[0] = [at |-> from, found |-> "linked"] /\ Walk(from, page, tombs, checks) = f[Len(page)]
  /\ \A n \in 1 .. Len(page) : f[n] = NextWalk(f[n - 1], page[n], tombs, checks)

LEMMA WalkSteps ==
  ASSUME NEW from, NEW page, Len(page) \in Nat, NEW tombs, NEW checks
  PROVE  \E f \in [0 .. Len(page) -> Walks(from, page)] : Walking(f, from, page, tombs, checks)
<1> DEFINE N == Len(page)
           V == Walks(from, page)
           base == [at |-> from, found |-> "linked"]
           more == [x \in V \X (1 .. N) |-> NextWalk(x[1], page[x[2]], tombs, checks)]
<1>1. N \in Nat
  OBVIOUS
<1>2. \A w \in V, n \in 1 .. N : NextWalk(w, page[n], tombs, checks) \in V
  <2>1. ASSUME NEW w \in V, NEW n \in 1 .. N
        PROVE  NextWalk(w, page[n], tombs, checks) \in V
    <3>1. [at |-> Link(page[n]), found |-> Push(w.at, page[n], tombs, checks)] \in V
      BY PushKinds DEF Walks
    <3> HIDE DEF V
    <3>2. QED
      BY <3>1 DEF NextWalk
  <2>2. QED
    BY <2>1
<1>3. PICK g : Follows(g, more, V, base, N)
  <2>1. IsStep(more, V, N)
    <3> HIDE DEF N, V
    <3>1. more \in [V \X (1 .. N) -> V]
      BY <1>2
    <3> HIDE DEF more
    <3>2. QED
      BY <3>1 DEF IsStep
  <2>2. base \in V
    BY DEF Walks, Pushes
  <2> HIDE DEF N, V, more, base
  <2>3. QED
    BY <1>1, <2>1, <2>2, RecursionExists
<1>4. g \in [0 .. N -> V] /\ g[0] = base /\ \A n \in 1 .. N : g[n] = NextWalk(g[n - 1], page[n], tombs, checks)
  <2>1. g \in [0 .. N -> V] /\ g[0] = base /\ \A n \in 1 .. N : g[n] = more[<<g[n - 1], n>>]
    <3> HIDE DEF N, V, more, base
    <3>1. QED
      BY <1>3 DEF Follows
  <2>2. \A n \in 1 .. N : <<g[n - 1], n>> \in V \X (1 .. N)
    <3>1. \A n \in 1 .. N : n - 1 \in 0 .. N
      BY <1>1
    <3> HIDE DEF N, V
    <3>2. QED
      BY <2>1, <3>1
  <2> HIDE DEF N, V, base
  <2>3. QED
    BY <2>1, <2>2
<1> HIDE DEF more
<1>5. IsWalk(g, from, page, tombs, checks)
  <2> DEFINE value(n) == IF n = 0 THEN base ELSE NextWalk(g[n - 1], page[n], tombs, checks)
  <2>1. \A n \in 0 .. N : g[n] = value(n)
    <3>1. \A n \in 0 .. N : n = 0 \/ n \in 1 .. N
      BY <1>1
    <3> HIDE DEF N, V, base
    <3>2. QED
      BY <1>4, <3>1
  <2>2. g = [n \in 0 .. N |-> g[n]]
    <3> HIDE DEF V
    <3>1. QED
      BY <1>4
  <2>3. g = [n \in 0 .. N |-> value(n)]
    <3> HIDE DEF value, N
    <3>1. QED
      BY <2>1, <2>2
  <2>4. QED
    BY <2>3 DEF IsWalk, NextWalk
<1> DEFINE f == CHOOSE p : IsWalk(p, from, page, tombs, checks)
<1>6. IsWalk(f, from, page, tombs, checks)
  BY <1>5
<1>7. Walk(from, page, tombs, checks) = f[N]
  BY WalkUnfolds
<1> HIDE DEF f
<1>8. \A n \in 0 .. N : f[n] = g[n]
  <2>1. SameSteps(f, g, N)
    <3>1. \A n \in 0 .. N : f[n] = IF n = 0 THEN base ELSE NextWalk(f[n - 1], page[n], tombs, checks)
      BY <1>6 DEF IsWalk, NextWalk
    <3>2. 0 \in 0 .. N /\ \A n \in 1 .. N : n \in 0 .. N /\ n # 0
      BY <1>1
    <3> HIDE DEF N, V, base
    <3>3. f[0] = base /\ \A n \in 1 .. N : f[n] = NextWalk(f[n - 1], page[n], tombs, checks)
      BY <3>1, <3>2
    <3>4. QED
      BY <1>4, <3>3 DEF SameSteps
  <2> HIDE DEF N
  <2>2. QED
    BY <1>1, <2>1, AgreeUpTo
<1>9. N \in 0 .. N /\ Walk(from, page, tombs, checks) = g[N]
  <2>1. N \in 0 .. N
    BY <1>1
  <2> HIDE DEF N
  <2>2. QED
    BY <1>7, <1>8, <2>1
<1>10. Walking(g, from, page, tombs, checks)
  BY <1>4, <1>9 DEF Walking
<1>11. QED
  BY <1>4, <1>10

\* Rows of a page, each after the one before, the first after a position.
Ascends(h, page, m) ==
  /\ page \in Seq(RowsOf(h))
  /\ \A i \in 1 .. Len(page) : m < page[i].seq
  /\ \A i, j \in 1 .. Len(page) : i < j => page[i].seq < page[j].seq

\* The position a walk has reached after some rows of a page.
Stood(page, m, i) == IF i = 0 THEN m ELSE page[i].seq

LEMMA StoodIs ==
  ASSUME NEW h \in Histories, NEW m \in 0 .. Len(h), NEW page, Ascends(h, page, m)
  PROVE  /\ Len(page) \in Nat /\ \A i \in 0 .. Len(page) : Stood(page, m, i) \in m .. Len(h)
         /\ \A i \in 1 .. Len(page) : page[i] \in RowsOf(h) /\ Stood(page, m, i) = page[i].seq
                                      /\ Stood(page, m, i - 1) < page[i].seq
<1>1. Len(h) \in Nat /\ m \in Nat
  BY HistoryIs
<1>2. Len(page) \in Nat /\ (\A i \in 1 .. Len(page) : page[i] \in RowsOf(h))
  BY ElementOfSeq, LenProperties DEF Ascends
<1>3. \A i \in 1 .. Len(page) : page[i].seq \in 1 .. Len(h) /\ m < page[i].seq
  BY <1>2, RowsIs DEF Ascends
<1>4. ASSUME NEW i \in 0 .. Len(page)
      PROVE  Stood(page, m, i) \in m .. Len(h)
  <2>1. CASE i = 0
    BY <1>1, <2>1 DEF Stood
  <2>2. CASE i # 0
    <3>1. i \in 1 .. Len(page)
      BY <1>2, <2>2
    <3>2. QED
      BY <1>1, <1>3, <2>2, <3>1 DEF Stood
  <2>3. QED
    BY <2>1, <2>2
<1>5. ASSUME NEW i \in 1 .. Len(page)
      PROVE  Stood(page, m, i) = page[i].seq /\ Stood(page, m, i - 1) < page[i].seq
  <2>1. Stood(page, m, i) = page[i].seq
    BY <1>2 DEF Stood
  <2>2. CASE i = 1
    <3>1. Stood(page, m, i - 1) = m
      BY <2>2 DEF Stood
    <3>2. QED
      BY <1>3, <2>1, <3>1
  <2>3. CASE i # 1
    <3>1. i - 1 \in 1 .. Len(page) /\ i - 1 < i /\ i - 1 # 0
      BY <1>2, <2>3
    <3>2. Stood(page, m, i - 1) = page[i - 1].seq
      BY <3>1 DEF Stood
    <3>3. page[i - 1].seq < page[i].seq
      BY <3>1 DEF Ascends
    <3>4. QED
      BY <2>1, <3>2, <3>3
  <2>4. QED
    BY <2>2, <2>3
<1>6. QED
  BY <1>2, <1>4, <1>5

\* What a walk is after some rows of a page: at the last of them, unless it has met a gap.
Walked(h, page, m, n, w) ==
  w.found \in {"linked", "missing"} /\ (w.found = "linked" => w.at = LinkAt(h, Stood(page, m, n)))

\* The tombstones lead to a row from the one before it.
Bridged(h, page, m, n, tombs) ==
  Bridge(LinkAt(h, Stood(page, m, n - 1)), page[n].seq, tombs) = LinkAt(h, page[n].seq - 1)

\* One more row: linked when the bridge leads to it, a gap otherwise.
LEMMA OneMoreWalked ==
  ASSUME NEW h \in Histories, NEW tombs \in SUBSET TombsOf(h), NEW checks \in SUBSET LinksOf(h),
         NEW m \in 0 .. Len(h), NEW page, Ascends(h, page, m), NEW n \in 1 .. Len(page), NEW w,
         Walked(h, page, m, n - 1, w)
  PROVE  /\ Walked(h, page, m, n, NextWalk(w, page[n], tombs, checks))
         /\ w.found = "linked" /\ Bridged(h, page, m, n, tombs) => NextWalk(w, page[n], tombs, checks).found = "linked"
<1> DEFINE v == NextWalk(w, page[n], tombs, checks)
<1>1. Len(page) \in Nat /\ Len(h) \in Nat /\ m \in Nat
  BY StoodIs, HistoryIs
<1>2. /\ page[n] \in RowsOf(h) /\ Stood(page, m, n) = page[n].seq /\ Stood(page, m, n - 1) < page[n].seq
      /\ Stood(page, m, n - 1) \in m .. Len(h)
  <2>1. n - 1 \in 0 .. Len(page)
    BY <1>1
  <2>2. QED
    BY <2>1, StoodIs
<1>3. CASE w.found # "linked"
  <2>1. v = w
    BY <1>3 DEF NextWalk
  <2>2. QED
    BY <1>3, <2>1 DEF Walked
<1>4. CASE w.found = "linked"
  <2> DEFINE k == Stood(page, m, n - 1)
  <2>1. k \in 0 .. Len(h) /\ w.at = LinkAt(h, k) /\ k < page[n].seq
    BY <1>1, <1>2, <1>4 DEF Walked
  <2>2. v = [at |-> Link(page[n]), found |-> Push(w.at, page[n], tombs, checks)]
    BY <1>4 DEF NextWalk
  <2>3. Link(page[n]) = LinkAt(h, Stood(page, m, n))
    BY <1>2, RowsIs
  <2> HIDE DEF k, v
  <2>4. Push(w.at, page[n], tombs, checks) =
          IF Bridge(w.at, page[n].seq, tombs) = LinkAt(h, page[n].seq - 1) THEN "linked" ELSE "missing"
    BY <1>2, <2>1, PushIs
  <2>5. Walked(h, page, m, n, v)
    BY <2>2, <2>3, <2>4 DEF Walked
  <2>6. Bridge(LinkAt(h, k), page[n].seq, tombs) = LinkAt(h, page[n].seq - 1) => v.found = "linked"
    BY <2>1, <2>2, <2>4
  <2>7. QED
    BY <2>5, <2>6 DEF k, v, Bridged
<1>5. QED
  BY <1>3, <1>4

\* So a walk comes through or finds a gap, and stands at the last row it linked.
LEMMA WalkIs ==
  ASSUME NEW h \in Histories, NEW tombs \in SUBSET TombsOf(h), NEW checks \in SUBSET LinksOf(h),
         NEW m \in 0 .. Len(h), NEW page, Ascends(h, page, m)
  PROVE  LET w == Walk(LinkAt(h, m), page, tombs, checks)
         IN w.found \in {"linked", "missing"} /\ (w.found = "linked" => w.at = LinkAt(h, Stood(page, m, Len(page))))
<1> DEFINE N == Len(page)
           from == LinkAt(h, m)
           Good(n, w) == Walked(h, page, m, n, w)
<1>1. N \in Nat
  BY StoodIs
<1>2. PICK f \in [0 .. N -> Walks(from, page)] : Walking(f, from, page, tombs, checks)
  BY <1>1, WalkSteps
<1>3. /\ f[0] = [at |-> from, found |-> "linked"] /\ Walk(from, page, tombs, checks) = f[N]
      /\ \A n \in 1 .. N : f[n] = NextWalk(f[n - 1], page[n], tombs, checks)
  BY <1>2 DEF Walking
<1>4. ASSUME NEW n \in 1 .. N, NEW w, Good(n - 1, w)
      PROVE  Good(n, NextWalk(w, page[n], tombs, checks))
  BY <1>4, OneMoreWalked
<1>5. Good(0, f[0])
  BY <1>3 DEF Stood, Walked
<1> HIDE DEF Good, N
<1> DEFINE P == {n \in 0 .. N : Good(n, f[n])}
<1>6. P = 0 .. N
  <2>1. 0 \in P
    BY <1>1, <1>5
  <2>2. ASSUME NEW n \in 1 .. N, n - 1 \in P
        PROVE  n \in P
    <3>1. Good(n - 1, f[n - 1])
      BY <2>2
    <3>2. Good(n, f[n])
      BY <1>3, <1>4, <3>1
    <3>3. QED
      BY <1>1, <3>2
  <2>3. P \in SUBSET (0 .. N)
    OBVIOUS
  <2> HIDE DEF P
  <2>4. QED
    BY <1>1, <2>1, <2>2, <2>3, UpTo
<1>7. Good(N, f[N])
  <2>1. N \in P
    <3> HIDE DEF P
    <3>1. QED
      BY <1>1, <1>6
  <2>2. QED
    BY <2>1
<1>8. QED
  BY <1>3, <1>7 DEF Good, N, Walked

\* What is between the rows of a page is G, and they are not in it.
GapsOf(page, m, G) ==
  /\ m \notin G
  /\ \A i \in 1 .. Len(page) :
       page[i].seq \notin G /\ \A n \in Stood(page, m, i - 1) + 1 .. page[i].seq - 1 : n \in G

\* And it comes through when tombstones tile what is between its rows.
LEMMA WalkWhole ==
  ASSUME NEW h \in Histories, NEW tombs \in SUBSET TombsOf(h), OnePerStart(tombs), NEW checks \in SUBSET LinksOf(h),
         NEW m \in 0 .. Len(h), NEW page, Ascends(h, page, m),
         NEW D \in SUBSET tombs, NEW G, Tiles(D, G), GapsOf(page, m, G)
  PROVE  Walk(LinkAt(h, m), page, tombs, checks).found = "linked"
<1> DEFINE N == Len(page)
           from == LinkAt(h, m)
           Good(n, w) == w.found = "linked" /\ w.at = LinkAt(h, Stood(page, m, n))
<1>1. N \in Nat /\ Len(h) \in Nat /\ m \in Nat
  BY StoodIs, HistoryIs
<1>2. PICK f \in [0 .. N -> Walks(from, page)] : Walking(f, from, page, tombs, checks)
  BY <1>1, WalkSteps
<1>3. /\ f[0] = [at |-> from, found |-> "linked"] /\ Walk(from, page, tombs, checks) = f[N]
      /\ \A n \in 1 .. N : f[n] = NextWalk(f[n - 1], page[n], tombs, checks)
  BY <1>2 DEF Walking
<1>4. ASSUME NEW n \in 1 .. N, NEW w, Good(n - 1, w)
      PROVE  Good(n, NextWalk(w, page[n], tombs, checks))
  <2> DEFINE k == Stood(page, m, n - 1)
  <2>1. /\ page[n] \in RowsOf(h) /\ k < page[n].seq /\ k \in m .. Len(h) /\ page[n].seq \in 1 .. Len(h)
    <3>1. n - 1 \in 0 .. N
      BY <1>1
    <3>2. QED
      BY <3>1, StoodIs, RowsIs
  <2>2. k \notin G
    <3>1. CASE n = 1
      BY <3>1 DEF Stood, GapsOf
    <3>2. CASE n # 1
      <4>1. n - 1 \in 1 .. N /\ n - 1 # 0
        BY <1>1, <3>2
      <4>2. QED
        BY <4>1 DEF Stood, GapsOf
    <3>3. QED
      BY <3>1, <3>2
  <2>3. k \in 0 .. Len(h) /\ page[n].seq \notin G /\ \A i \in k + 1 .. page[n].seq - 1 : i \in G
    BY <1>1, <2>1 DEF GapsOf
  <2>4. Bridge(LinkAt(h, k), page[n].seq, tombs) = LinkAt(h, page[n].seq - 1)
    <3> DEFINE s == page[n].seq
    <3>1. s \in 1 .. Len(h) /\ s \notin G /\ k < s /\ \A i \in k + 1 .. s - 1 : i \in G
      BY <2>1, <2>3
    <3> HIDE DEF k, s
    <3>2. Bridge(LinkAt(h, k), s, tombs) = LinkAt(h, s - 1)
      BY <2>2, <2>3, <3>1, BridgeWhole
    <3>3. QED
      BY <3>2 DEF s
  <2>5. w.found = "linked" /\ Walked(h, page, m, n - 1, w)
    BY <1>4 DEF Walked
  <2> DEFINE v == NextWalk(w, page[n], tombs, checks)
  <2>6. Bridged(h, page, m, n, tombs)
    BY <2>4 DEF Bridged
  <2> HIDE DEF Good
  <2>7. Walked(h, page, m, n, v) /\ v.found = "linked"
    BY <2>5, <2>6, OneMoreWalked
  <2>8. QED
    BY <2>7 DEF Walked, Good
<1>5. Good(0, f[0])
  BY <1>3 DEF Stood, Walked
<1> HIDE DEF Good, N
<1> DEFINE P == {n \in 0 .. N : Good(n, f[n])}
<1>6. P = 0 .. N
  <2>1. 0 \in P
    BY <1>1, <1>5
  <2>2. ASSUME NEW n \in 1 .. N, n - 1 \in P
        PROVE  n \in P
    <3>1. Good(n - 1, f[n - 1])
      BY <2>2
    <3>2. Good(n, f[n])
      BY <1>3, <1>4, <3>1
    <3>3. QED
      BY <1>1, <3>2
  <2>3. P \in SUBSET (0 .. N)
    OBVIOUS
  <2> HIDE DEF P
  <2>4. QED
    BY <1>1, <2>1, <2>2, <2>3, UpTo
<1>7. Good(N, f[N])
  <2>1. N \in P
    <3> HIDE DEF P
    <3>1. QED
      BY <1>1, <1>6
  <2>2. QED
    BY <2>1
<1>8. QED
  BY <1>3, <1>7 DEF Good, N

-----------------------------------------------------------------------------
(* The tables and the history *)

\* The rows of a stretch of positions.
Stretch(a, b) == {r \in rows : r.seq > a /\ r.seq <= b}

\* A page of a stretch goes up from where it starts; the positions it skips are gone; a page that
\* is not full ends at the stretch's end, if there is a row.
LEMMA PageIs ==
  ASSUME NEW h \in Histories, Chained(h), NEW a \in 0 .. Len(h), NEW b \in 0 .. Len(h), a <= b,
         NEW n \in Nat, NEW p, FirstOf(p, Stretch(a, b), n)
  PROVE  /\ Ascends(h, p, a)
         /\ Present(h, a) => GapsOf(p, a, Gone(h))
         /\ Stood(p, a, Len(p)) \in a .. b
         /\ Present(h, a) => Present(h, Stood(p, a, Len(p)))
         /\ Len(p) # n /\ Present(h, b) => Stood(p, a, Len(p)) = b
<1> DEFINE S == Stretch(a, b)
           N == Len(p)
<1>1. Len(h) \in Nat /\ a \in Nat /\ b \in Nat /\ rows \subseteq RowsOf(h)
  BY HistoryIs DEF Chained
<1>2. S \subseteq rows /\ \A r \in S : r \in RowsOf(h) /\ r.seq \in 1 .. Len(h) /\ r = RowAt(h, r.seq) /\ r.seq \in a + 1 .. b
  <2>1. \A r \in S : r \in rows /\ r.seq > a /\ r.seq <= b
    BY DEF Stretch
  <2>2. \A r \in rows : r \in RowsOf(h) /\ r.seq \in 1 .. Len(h) /\ r = RowAt(h, r.seq)
    BY <1>1, RowsIs
  <2>3. QED
    BY <1>1, <2>1, <2>2
<1>3. \A i \in a + 1 .. b : i \in 1 .. Len(h) /\ (RowAt(h, i) \in rows => RowAt(h, i) \in S)
  <2>1. \A i \in a + 1 .. b : i \in 1 .. Len(h) /\ i > a /\ i <= b
    BY <1>1
  <2>2. \A i \in 1 .. Len(h) : RowAt(h, i).seq = i
    BY RowIs
  <2>3. QED
    BY <2>1, <2>2 DEF Stretch
<1>4. /\ p \in Seq(S) /\ N <= n
      /\ \A i, j \in 1 .. N : i < j => p[i].seq < p[j].seq
      /\ \A r \in S, i \in 1 .. N : r.seq <= p[i].seq => \E j \in 1 .. i : p[j] = r
      /\ N < n => \A r \in S : \E i \in 1 .. N : p[i] = r
  BY DEF FirstOf
<1> HIDE DEF S
<1>5. N \in Nat /\ \A i \in 1 .. N : p[i] \in S
  BY <1>4, ElementOfSeq, LenProperties
<1>6. Ascends(h, p, a)
  <2>1. p \in Seq(RowsOf(h))
    BY <1>2, <1>4, SeqMonotonic
  <2>2. \A i \in 1 .. N : a < p[i].seq
    BY <1>1, <1>2, <1>5
  <2>3. QED
    BY <1>4, <2>1, <2>2 DEF Ascends
<1>7. /\ \A i \in 0 .. N : Stood(p, a, i) \in a .. Len(h)
      /\ \A i \in 1 .. N : Stood(p, a, i) = p[i].seq /\ Stood(p, a, i - 1) < p[i].seq
  BY <1>6, StoodIs
<1>8. ASSUME Present(h, a)
      PROVE  GapsOf(p, a, Gone(h))
  <2>1. a \notin Gone(h)
    BY <1>1, <1>8 DEF Present, Gone
  <2>2. \A i \in 1 .. N : p[i].seq \notin Gone(h)
    BY <1>2, <1>5 DEF Gone
  <2>3. ASSUME NEW i \in 1 .. N, NEW k \in Stood(p, a, i - 1) + 1 .. p[i].seq - 1
        PROVE  k \in Gone(h)
    <3>1. i - 1 \in 0 .. N /\ Stood(p, a, i - 1) \in a .. Len(h) /\ p[i].seq \in a + 1 .. b
      BY <1>2, <1>5, <1>7
    <3>2. k \in a + 1 .. b /\ Stood(p, a, i - 1) < k /\ k < p[i].seq /\ k \in 1 .. Len(h)
      BY <1>1, <3>1
    <3>3. SUFFICES ASSUME RowAt(h, k) \in rows PROVE FALSE
      BY <3>2 DEF Gone
    <3>4. RowAt(h, k) \in S /\ RowAt(h, k).seq = k
      BY <1>3, <3>2, <3>3, RowIs
    <3>5. PICK j \in 1 .. i : p[j] = RowAt(h, k)
      <4>1. RowAt(h, k).seq <= p[i].seq
        BY <1>1, <3>1, <3>2, <3>4
      <4>2. QED
        BY <1>4, <3>4, <4>1
    <3>6. j # i /\ j \in 1 .. i - 1 /\ i - 1 # 0 /\ j \in 1 .. N /\ i - 1 \in 1 .. N
      <4>1. k < p[i].seq /\ p[j].seq = k /\ k \in Int
        BY <3>2, <3>4, <3>5
      <4>2. j # i
        BY <4>1
      <4>3. N \in Nat
        BY <1>5
      <4>4. QED
        BY <4>2, <4>3
    <3>7. Stood(p, a, i - 1) = p[i - 1].seq
      BY <1>7, <3>6
    <3>8. p[j].seq <= p[i - 1].seq
      <4>1. CASE j = i - 1
        BY <1>1, <1>2, <1>5, <3>6, <4>1
      <4>2. CASE j # i - 1
        <5>1. j < i - 1
          BY <3>6, <4>2
        <5>2. p[j].seq < p[i - 1].seq /\ p[j].seq \in 1 .. Len(h) /\ p[i - 1].seq \in 1 .. Len(h)
          BY <1>2, <1>4, <1>5, <3>6, <5>1
        <5>3. QED
          BY <1>1, <5>2
      <4>3. QED
        BY <4>1, <4>2
    <3>9. QED
      BY <1>1, <3>1, <3>2, <3>4, <3>5, <3>7, <3>8
  <2>4. QED
    BY <2>1, <2>2, <2>3 DEF GapsOf
<1>9. Stood(p, a, N) \in a .. b /\ (Present(h, a) => Present(h, Stood(p, a, N)))
  <2>1. CASE N = 0
    BY <1>1, <2>1 DEF Stood
  <2>2. CASE N # 0
    <3>1. N \in 1 .. N
      BY <1>5, <2>2
    <3>2. p[N] \in rows /\ p[N] = RowAt(h, p[N].seq) /\ p[N].seq \in a + 1 .. b /\ Stood(p, a, N) = p[N].seq
      BY <1>2, <1>5, <1>7, <3>1
    <3>3. QED
      BY <1>1, <3>2 DEF Present
  <2>3. QED
    BY <2>1, <2>2
<1>10. ASSUME N # n, Present(h, b)
       PROVE  Stood(p, a, N) = b
  <2>1. N < n
    BY <1>4, <1>5, <1>10
  <2>2. CASE a = b
    BY <1>1, <1>9, <2>2
  <2>3. CASE a # b
    <3>1. b \in a + 1 .. b /\ b # 0
      BY <1>1, <2>3
    <3>2. RowAt(h, b) \in S /\ RowAt(h, b).seq = b
      BY <1>3, <1>10, <3>1, RowIs DEF Present
    <3>3. PICK i \in 1 .. N : p[i] = RowAt(h, b)
      BY <1>4, <2>1, <3>2
    <3>4. N \in 1 .. N /\ p[N].seq \in a + 1 .. b /\ Stood(p, a, N) = p[N].seq
      <4>1. N \in 1 .. N
        BY <1>5
      <4>2. QED
        BY <1>2, <1>5, <1>7, <4>1
    <3>5. CASE i = N
      BY <3>2, <3>3, <3>4, <3>5
    <3>6. CASE i # N
      <4>1. p[i].seq < p[N].seq
        BY <1>4, <1>5, <3>4, <3>6
      <4>2. QED
        BY <1>1, <3>2, <3>3, <3>4, <4>1
    <3>7. QED
      BY <3>5, <3>6
  <2>4. QED
    BY <2>2, <2>3
<1>11. QED
  BY <1>6, <1>8, <1>9, <1>10

\* As many rows in a span as it has positions: none is gone.
LEMMA AllThere ==
  ASSUME NEW h \in Histories, Chained(h), NEW a \in 1 .. Len(h), NEW b \in 1 .. Len(h), a <= b,
         Cardinality(RowsAt(a, b)) = b - a + 1
  PROVE  \A n \in a .. b : RowAt(h, n) \in rows
<1> DEFINE F == {RowAt(h, n) : n \in a .. b}
           f == [n \in a .. b |-> RowAt(h, n)]
<1>1. Len(h) \in Nat /\ a \in Int /\ b \in Int /\ \A n \in a .. b : n \in 1 .. Len(h)
  BY HistoryIs
<1>2. IsFiniteSet(a .. b) /\ Cardinality(a .. b) = b - a + 1
  <2>1. ~(a > b)
    BY <1>1
  <2>2. QED
    BY <1>1, <2>1, FS_Interval
<1>3. f \in Bijection(a .. b, F)
  <2>1. \A n \in a .. b : RowAt(h, n).seq = n
    BY <1>1, RowIs
  <2>2. f \in [a .. b -> F] /\ (\A m, n \in a .. b : f[m] = f[n] => m = n) /\ \A r \in F : \E n \in a .. b : f[n] = r
    BY <2>1
  <2> HIDE DEF f, F
  <2>3. QED
    BY <2>2 DEF Bijection, Injection, Surjection, IsInjective
<1>4. IsFiniteSet(F) /\ Cardinality(F) = b - a + 1
  <2> HIDE DEF f, F
  <2>1. ExistsBijection(a .. b, F)
    BY <1>3 DEF ExistsBijection
  <2>2. QED
    BY <1>2, <2>1, FS_Bijection
<1>5. RowsAt(a, b) \subseteq F
  <2>1. ASSUME NEW r \in RowsAt(a, b)
        PROVE  r \in F
    <3>1. r \in rows /\ r.seq \in a .. b
      BY DEF RowsAt
    <3>2. r = RowAt(h, r.seq)
      BY <3>1, RowsIs DEF Chained
    <3>3. QED
      BY <3>1, <3>2
  <2>2. QED
    BY <2>1
<1>6. RowsAt(a, b) = F
  <2> HIDE DEF F
  <2>1. QED
    BY <1>4, <1>5, FS_Subset
<1>7. RowsAt(a, b) \subseteq rows
  BY DEF RowsAt
<1>8. QED
  BY <1>6, <1>7

-----------------------------------------------------------------------------
(* What a step leaves alone *)

LEMMA ChainStays ==
  ASSUME NEW h, Chained(h), Covered(h), UNCHANGED <<rows, tombstones, checkpoints, noted>>
  PROVE  Chained(h)' /\ Covered(h)'
  BY DEF Chained, Covered, Gone

LEMMA AppendsStay ==
  ASSUME NEW h, Appending(h), UNCHANGED <<append, rows, expired>>
  PROVE  Appending(h)'
  BY DEF Appending, Fits, Landed

LEMMA PruneStays ==
  ASSUME NEW h, Pruning(h), UNCHANGED <<prune, rows, tombstones, expired>>
  PROVE  Pruning(h)'
  BY DEF Pruning, Prunes, Deleting, From, Run

LEMMA VerifyStays ==
  ASSUME NEW h, Reading(h), UNCHANGED verify, checkpoints \subseteq checkpoints', tombstones \subseteq tombstones'
  PROVE  Reading(h)'
<1>1. verify.checks \subseteq checkpoints /\ verify.tombs \subseteq tombstones
  BY DEF Reading, Verifications
<1>2. verify' = verify /\ verify.checks \subseteq checkpoints' /\ verify.tombs \subseteq tombstones'
  BY <1>1
<1>3. verify' \in Verifications(h)'
  BY <1>2 DEF Reading, Verifications
<1>4. QED
  BY <1>2, <1>3 DEF Reading

LEMMA WholeStays ==
  ASSUME NEW h, Whole(h), UNCHANGED <<rows, tombstones, prune, verify>>
  PROVE  Whole(h)'
  BY DEF Whole, Tiled, Uncut, AlarmsOnlyUnderPrunes, Gone, InDeletion, Present, BetweenDeletes

-----------------------------------------------------------------------------
(* Appends *)

\* A request reads the head: no row is of its event.
LEMMA HeadRead ==
  ASSUME NEW h \in Histories, Chained(h), Appending(h), NEW e \in Event, ReadHead(e)
  PROVE  Appending(h)'
<1> DEFINE was == append[e]
           stalls == IF was.stage = "none" \/ Len(h) + 1 > was.seq THEN 0 ELSE was.stalls + 1
           now == [stage |-> IF stalls >= 3 THEN "failed" ELSE "write", seq |-> Len(h) + 1, prev |-> h, stalls |-> stalls]
<1>1. was.stage \in {"none", "retry"} /\ append' = [append EXCEPT ![e] = now] /\ UNCHANGED <<rows, expired>>
  BY HeadIs DEF ReadHead, Stored
<1>2. append \in [Event -> Appends] /\ expired \subseteq Event /\ Len(h) \in Nat /\ h \in Seq(Entries)
  BY HistoryIs DEF Appending
<1>3. stalls \in Nat
  <2>1. was.stalls \in Nat
    BY <1>2 DEF Appends
  <2>2. QED
    BY <2>1
<1> HIDE DEF stalls
<1>4. now \in Appends
  BY <1>2, <1>3 DEF Appends
<1>5. now.stage \in {"failed", "write"} /\ now.seq = Len(h) + 1 /\ now.prev = h
  OBVIOUS
<1> HIDE DEF now
<1>6. append' \in [Event -> Appends] /\ append'[e] = now /\ \A f \in Event : f # e => append'[f] = append[f]
  BY <1>1, <1>2, <1>4
<1>7. Fits(h, now)
  <2>1. Upto(h, now.seq - 1) = h
    BY <1>2, <1>5, UptoAll
  <2>2. QED
    BY <1>2, <1>5, <2>1 DEF Fits
<1>8. \A i \in 1 .. Len(h) : h[i][2] # e
  BY <1>1 DEF Appending, Landed
<1>9. e \notin expired
  BY <1>1 DEF Appending
<1>10. ASSUME NEW f \in Event
       PROVE  Fits(h, append'[f]) /\ Landed(h, f)' /\ (f \in expired' => append'[f].stage = "done")
  <2>1. CASE f = e
    BY <1>1, <1>6, <1>7, <1>8, <1>9, <2>1 DEF Landed
  <2>2. CASE f # e
    BY <1>1, <1>6, <2>2 DEF Appending, Landed
  <2>3. QED
    BY <2>1, <2>2
<1>11. QED
  BY <1>1, <1>2, <1>6, <1>10 DEF Appending

\* A request's stage moves: what it read stays, and it is done, or none of its own is in the history,
\* or it has yet to find that it is.
LEMMA StageMoves ==
  ASSUME NEW h \in Histories, Appending(h), NEW e \in Event, UNCHANGED <<rows, expired>>,
         NEW stage \in {"lost", "retry", "done", "failed"}, append' = [append EXCEPT ![e].stage = stage],
         append[e].stage \in {"write", "lost"},
         stage \in {"done", "lost"} \/ \A i \in 1 .. Len(h) : h[i][2] # e
  PROVE  Appending(h)'
<1>1. append \in [Event -> Appends] /\ expired \subseteq Event
  BY DEF Appending
<1> DEFINE now == [append[e] EXCEPT !.stage = stage]
<1>2. now \in Appends /\ now.stage = stage /\ now.seq = append[e].seq /\ now.prev = append[e].prev
  BY <1>1 DEF Appends
<1>3. append' = [append EXCEPT ![e] = now]
  OBVIOUS
<1> HIDE DEF now
<1>4. append' \in [Event -> Appends] /\ append'[e] = now /\ \A f \in Event : f # e => append'[f] = append[f]
  BY <1>1, <1>2, <1>3
<1>5. Fits(h, now)
  BY <1>2 DEF Appending, Fits
<1>6. e \in expired => FALSE
  BY DEF Appending
<1>7. Landed(h, e)'
  <2>1. CASE stage = "done"
    BY <1>2, <1>4, <2>1 DEF Landed
  <2>2. CASE stage = "lost"
    BY <1>2, <1>4, <2>2 DEF Appending, Landed
  <2>3. CASE \A i \in 1 .. Len(h) : h[i][2] # e
    BY <2>3 DEF Landed
  <2>4. QED
    BY <2>1, <2>2, <2>3
<1>8. ASSUME NEW f \in Event
      PROVE  Fits(h, append'[f]) /\ Landed(h, f)' /\ (f \in expired' => append'[f].stage = "done")
  <2>1. CASE f = e
    BY <1>4, <1>5, <1>6, <1>7, <2>1
  <2>2. CASE f # e
    BY <1>4, <2>2 DEF Appending, Landed
  <2>3. QED
    BY <2>1, <2>2
<1>9. QED
  BY <1>1, <1>4, <1>8 DEF Appending

\* A landed insert's row is there to be found.
LEMMA LandedChecked ==
  ASSUME NEW h \in Histories, Chained(h), Appending(h), NEW e \in Event, CheckLanded(e)
  PROVE  Appending(h)'
<1>1. PICK stage \in IF \E r \in rows : r.event = e THEN {"done"} ELSE {"retry", "failed"} :
        append' = [append EXCEPT ![e].stage = stage]
  BY DEF CheckLanded
<1>2. append[e].stage = "lost" /\ UNCHANGED <<rows, expired>> /\ stage \in {"lost", "retry", "done", "failed"}
  BY <1>1 DEF CheckLanded, Stored
<1>3. stage # "done" => \A i \in 1 .. Len(h) : h[i][2] # e
  <2>1. ASSUME NEW i \in 1 .. Len(h), h[i][2] = e
        PROVE  \E r \in rows : r.event = e
    <3>1. RowAt(h, i) \in rows
      BY <1>2, <2>1 DEF Appending, Landed
    <3>2. RowAt(h, i).event = e
      BY <2>1, RowIs
    <3>3. QED
      BY <3>1, <3>2
  <2>2. QED
    BY <1>1, <2>1
<1>4. QED
  BY <1>1, <1>2, <1>3, StageMoves

LEMMA ExpiredMore ==
  ASSUME NEW h \in Histories, Appending(h), Pruning(h), NEW e \in Event, Expire(e)
  PROVE  Appending(h)' /\ Pruning(h)'
<1>1. append[e].stage = "done" /\ expired' = expired \cup {e} /\ UNCHANGED <<rows, tombstones, append, prune>>
  BY DEF Expire
<1>2. Appending(h)'
  BY <1>1 DEF Appending, Landed
<1>3. RunsOf(h, expired) \subseteq RunsOf(h, expired')
  BY <1>1 DEF RunsOf
<1>4. Seq(RunsOf(h, expired)) \subseteq Seq(RunsOf(h, expired'))
  <2> DEFINE A == RunsOf(h, expired)
             B == RunsOf(h, expired')
  <2> HIDE DEF A, B
  <2>1. A \subseteq B
    BY <1>3 DEF A, B
  <2>2. \A s \in Seq(A) : s \in Seq(B)
    BY <2>1, SeqMonotonic
  <2>3. QED
    BY <2>2 DEF A, B
<1>5. prune \in Prunes(h)'
  BY <1>1, <1>4 DEF Pruning, Prunes
<1>6. ASSUME NEW t, Deleting(h, t)
      PROVE  Deleting(h, t)'
  BY <1>1, <1>6 DEF Deleting
<1>7. Pruning(h)'
  BY <1>1, <1>5, <1>6 DEF Pruning, From, Run
<1>8. QED
  BY <1>2, <1>7

\* An insert that goes through is the history's next entry, and its event's only one.
LEMMA NewRowIs ==
  ASSUME NEW h \in Histories, Chained(h), Appending(h), NEW e \in Event,
         append[e].stage = "write", ~Taken(append[e].seq)
  PROVE  \E g \in Histories :
           /\ Grown(h, g) /\ Len(g) = Len(h) + 1 /\ g[Len(g)][2] = e /\ NewRow(e) = RowAt(g, Len(g))
           /\ append[e].seq = Len(g)
<1>1. /\ Len(h) \in Nat /\ append[e].seq \in 1 .. Len(h) + 1 /\ append[e].prev = Upto(h, append[e].seq - 1)
      /\ \A i \in 1 .. Len(h) : h[i][2] = e => append[e].seq <= Len(h)
  BY HistoryIs DEF Appending, Fits, Landed
<1>2. append[e].seq = Len(h) + 1
  <2>1. CASE h = << >>
    <3>1. Len(h) = 0
      BY <2>1, HistoryIs, EmptySeq
    <3>2. QED
      BY <1>1, <3>1
  <2>2. CASE h # << >>
    <3>1. Len(h) # 0
      BY <2>2, HistoryIs, EmptySeq
    <3>2. Len(h) \in 1 .. Len(h) /\ RowAt(h, Len(h)) \in rows
      BY <1>1, <2>2, <3>1 DEF Chained
    <3>3. RowAt(h, Len(h)).seq = Len(h)
      BY <3>2, RowIs
    <3>4. ~(Len(h) >= append[e].seq)
      BY <3>2, <3>3 DEF Taken
    <3>5. QED
      BY <1>1, <3>4
  <2>3. QED
    BY <2>1, <2>2
<1>3. \A i \in 1 .. Len(h) : h[i][2] # e
  BY <1>1, <1>2
<1> DEFINE g == Append(h, <<Len(h) + 1, e>>)
<1>4. g \in Histories /\ Grown(h, g) /\ Len(g) = Len(h) + 1 /\ g[Len(g)] = <<Len(g), e>>
  BY <1>3, OneMore
<1> HIDE DEF g
<1>5. g[Len(g)][2] = e
  BY <1>4
<1>6. Upto(g, Len(h)) = Upto(h, Len(h)) /\ append[e].prev = Upto(h, Len(h))
  <2>1. Len(h) \in 0 .. Len(h) /\ append[e].seq - 1 = Len(h)
    BY <1>1, <1>2
  <2>2. QED
    BY <1>1, <1>4, <2>1, GrownUpto
<1>7. Len(g) - 1 = Len(h)
  BY <1>1, <1>4
<1>8. NewRow(e) = RowAt(g, Len(g))
  BY <1>2, <1>4, <1>5, <1>6, <1>7 DEF NewRow, RowAt
<1>9. QED
  BY <1>2, <1>4, <1>5, <1>8

\* What the row of a new last entry adds to.
Grows(h, g) == Grown(h, g) /\ Len(g) = Len(h) + 1 /\ rows' = rows \cup {RowAt(g, Len(g))}

LEMMA GrowthIs ==
  ASSUME NEW h \in Histories, NEW g \in Histories, Grows(h, g), Chained(h)
  PROVE  /\ Len(h) \in Nat /\ Len(g) = Len(h) + 1 /\ rows \subseteq rows'
         /\ \A n \in 0 .. Len(h) : Upto(g, n) = Upto(h, n) /\ LinkAt(g, n) = LinkAt(h, n)
         /\ \A n \in 1 .. Len(h) : RowAt(g, n) = RowAt(h, n) /\ (RowAt(g, n) \in rows' <=> RowAt(h, n) \in rows)
         /\ RowsOf(h) \subseteq RowsOf(g) /\ LinksOf(h) \subseteq LinksOf(g) /\ TombsOf(h) \subseteq TombsOf(g)
         /\ Gone(g)' = Gone(h)
<1>1. Len(h) \in Nat /\ Len(g) = Len(h) + 1 /\ rows' = rows \cup {RowAt(g, Len(g))} /\ Grown(h, g)
  BY HistoryIs DEF Grows
<1>2. /\ \A n \in 1 .. Len(h) : RowAt(g, n) = RowAt(h, n)
      /\ RowsOf(h) \subseteq RowsOf(g) /\ LinksOf(h) \subseteq LinksOf(g) /\ TombsOf(h) \subseteq TombsOf(g)
  BY <1>1, GrownParts
<1>3. \A n \in 0 .. Len(h) : Upto(g, n) = Upto(h, n) /\ LinkAt(g, n) = LinkAt(h, n)
  BY <1>1, GrownUpto
<1>4. ASSUME NEW n \in 1 .. Len(h)
      PROVE  RowAt(g, n) \in rows' <=> RowAt(h, n) \in rows
  <2>1. n \in 1 .. Len(g) /\ Len(g) \in 1 .. Len(g) /\ n # Len(g)
    BY <1>1
  <2>2. RowAt(g, n).seq = n /\ RowAt(g, Len(g)).seq = Len(g)
    BY <2>1, RowIs
  <2>3. QED
    BY <1>1, <1>2, <2>1, <2>2
<1>5. Gone(g)' = Gone(h)
  <2>1. \A n : n \in 1 .. Len(g) <=> n \in 1 .. Len(h) \/ n = Len(g)
    BY <1>1
  <2>2. RowAt(g, Len(g)) \in rows'
    BY <1>1
  <2>3. \A n : n \in Gone(g)' <=> n \in 1 .. Len(g) /\ RowAt(g, n) \notin rows'
    BY DEF Gone
  <2>4. \A n : n \in Gone(h) <=> n \in 1 .. Len(h) /\ RowAt(h, n) \notin rows
    BY DEF Gone
  <2>5. \A n : n \in Gone(g)' <=> n \in Gone(h)
    BY <1>4, <2>1, <2>2, <2>3, <2>4
  <2> HIDE DEF Gone
  <2>6. QED
    BY <2>5
<1>6. QED
  BY <1>1, <1>2, <1>3, <1>4, <1>5

LEMMA ChainGrows ==
  ASSUME NEW h \in Histories, NEW g \in Histories, Grows(h, g), Chained(h), Covered(h),
         UNCHANGED <<tombstones, checkpoints, noted>>
  PROVE  Chained(g)' /\ Covered(g)'
<1>1. /\ Len(h) \in Nat /\ Len(g) = Len(h) + 1 /\ Gone(g)' = Gone(h)
      /\ RowsOf(h) \subseteq RowsOf(g) /\ LinksOf(h) \subseteq LinksOf(g) /\ TombsOf(h) \subseteq TombsOf(g)
  BY GrowthIs
<1>2. rows' = rows \cup {RowAt(g, Len(g))}
  BY DEF Grows
<1>3. RowAt(g, Len(g)) \in RowsOf(g)
  BY <1>1 DEF RowsOf
<1>4. Chained(g)'
  BY <1>1, <1>2, <1>3 DEF Chained
<1>5. Covered(g)'
  BY <1>1 DEF Covered
<1>6. QED
  BY <1>4, <1>5

LEMMA RunsGrow ==
  ASSUME NEW h \in Histories, NEW g \in Histories, Grown(h, g), NEW gone
  PROVE  Seq(RunsOf(h, gone)) \subseteq Seq(RunsOf(g, gone)) /\ Seq(RowsOf(h)) \subseteq Seq(RowsOf(g))
<1>1. RowsOf(h) \subseteq RowsOf(g) /\ Len(h) \in Nat /\ Len(g) \in Nat /\ Len(h) <= Len(g)
  BY GrownParts, HistoryIs DEF Grown
<1>2. Seq(RowsOf(h)) \subseteq Seq(RowsOf(g))
  <2> DEFINE A == RowsOf(h)
             B == RowsOf(g)
  <2> HIDE DEF A, B
  <2>1. A \subseteq B
    BY <1>1 DEF A, B
  <2>2. \A s \in Seq(A) : s \in Seq(B)
    BY <2>1, SeqMonotonic
  <2>3. QED
    BY <2>2 DEF A, B
<1>3. RunsOf(h, gone) \subseteq RunsOf(g, gone)
  <2>1. ASSUME NEW run \in RunsOf(h, gone)
        PROVE  run \in RunsOf(g, gone)
    <3>1. /\ run \in Seq(RowsOf(h)) /\ run # << >>
          /\ \A i \in 1 .. Len(run) : run[i].seq = run[1].seq + i - 1 /\ run[i].seq < Len(h) /\ run[i].event \in gone
      BY DEF RunsOf
    <3>2. \A i \in 1 .. Len(run) : run[i].seq \in 1 .. Len(h)
      BY RunIs
    <3>3. \A i \in 1 .. Len(run) : run[i].seq < Len(g)
      BY <1>1, <3>1, <3>2
    <3>4. QED
      BY <1>2, <3>1, <3>3 DEF RunsOf
  <2>2. QED
    BY <2>1
<1>4. Seq(RunsOf(h, gone)) \subseteq Seq(RunsOf(g, gone))
  <2> DEFINE A == RunsOf(h, gone)
             B == RunsOf(g, gone)
  <2> HIDE DEF A, B
  <2>1. A \subseteq B
    BY <1>3 DEF A, B
  <2>2. \A s \in Seq(A) : s \in Seq(B)
    BY <2>1, SeqMonotonic
  <2>3. QED
    BY <2>2 DEF A, B
<1>5. QED
  BY <1>2, <1>4

LEMMA FirstRunIs ==
  ASSUME NEW h \in Histories, NEW gone, NEW runs \in Seq(RunsOf(h, gone)), runs # << >>
  PROVE  runs[1] \in RunsOf(h, gone) /\ Len(runs) \in Nat \ {0}
<1>1. Len(runs) \in Nat \ {0}
  BY EmptySeq
<1>2. 1 \in 1 .. Len(runs)
  BY <1>1
<1>3. QED
  BY <1>1, <1>2, ElementOfSeq

LEMMA PruneGrows ==
  ASSUME NEW h \in Histories, NEW g \in Histories, Grows(h, g), Chained(h), Pruning(h),
         UNCHANGED <<tombstones, expired, prune>>
  PROVE  Pruning(g)'
<1>1. /\ Len(h) \in Nat /\ Len(g) = Len(h) + 1 /\ rows \subseteq rows'
      /\ \A n \in 0 .. Len(h) : Upto(g, n) = Upto(h, n)
      /\ \A n \in 1 .. Len(h) : RowAt(g, n) = RowAt(h, n) /\ (RowAt(g, n) \in rows' <=> RowAt(h, n) \in rows)
  BY GrowthIs
<1>2. prune \in Prunes(g)'
  <2>1. Seq(RunsOf(h, expired)) \subseteq Seq(RunsOf(g, expired)) /\ Seq(RowsOf(h)) \subseteq Seq(RowsOf(g))
    BY RunsGrow DEF Grows
  <2>2. QED
    BY <2>1 DEF Pruning, Prunes
<1>3. prune.stage = "rows" => prune.through < Len(g)
  <2>1. prune.through \in Nat
    BY DEF Pruning, Prunes
  <2>2. QED
    BY <1>1, <2>1 DEF Pruning
<1>4. prune.stage = "put" => prune.prior = Upto(g, From - 1)
  <2>1. SUFFICES ASSUME prune.stage = "put" PROVE prune.prior = Upto(g, From - 1)
    OBVIOUS
  <2>2. prune.runs \in Seq(RunsOf(h, expired)) /\ prune.runs # << >> /\ prune.prior = Upto(h, From - 1)
    BY <2>1 DEF Pruning, Prunes
  <2>3. Run \in RunsOf(h, expired)
    BY <2>2, FirstRunIs DEF Run
  <2>4. From \in 1 .. Len(h)
    BY <2>3, RunIs DEF From
  <2>5. From - 1 \in 0 .. Len(h)
    BY <1>1, <2>4
  <2>6. QED
    BY <1>1, <2>2, <2>5
<1>5. ASSUME NEW t \in tombstones, Deleting(h, t)
      PROVE  Deleting(g, t)'
  <2>1. /\ t.from \in 1 .. Len(h) /\ t.through \in 1 .. Len(h) /\ t.from <= t.through
        /\ t.count = t.through - t.from + 1
    BY TombsIs DEF Chained
  <2>2. prune.doomed \in Seq(rows')
    <3>1. prune.doomed \in Seq(rows)
      BY <1>5 DEF Deleting
    <3> HIDE DEF Deleting
    <3>2. QED
      BY <1>1, <3>1, SeqMonotonic
  <2>3. ASSUME NEW i \in 1 .. Len(prune.doomed)
        PROVE  /\ prune.doomed[i] = RowAt(g, t.through - Len(prune.doomed) + i)
               /\ prune.doomed[i].event \in expired
    <3>1. /\ prune.doomed[i] = RowAt(h, t.through - Len(prune.doomed) + i)
          /\ prune.doomed[i].event \in expired /\ Len(prune.doomed) \in 1 .. t.count
      BY <1>5 DEF Deleting
    <3>2. t.through - Len(prune.doomed) + i \in 1 .. Len(h)
      BY <1>1, <2>1, <3>1
    <3>3. QED
      BY <1>1, <3>1, <3>2
  <2>4. ASSUME NEW n \in Span(t), n <= t.through - Len(prune.doomed)
        PROVE  RowAt(g, n) \notin rows'
    <3>1. n \in 1 .. Len(h)
      BY <1>1, <2>1 DEF Span
    <3>2. QED
      BY <1>1, <1>5, <2>4, <3>1 DEF Deleting
  <2>5. QED
    BY <1>5, <2>2, <2>3, <2>4 DEF Deleting
<1>6. QED
  BY <1>2, <1>3, <1>4, <1>5 DEF Pruning, From, Run

LEMMA VerifyGrows ==
  ASSUME NEW h \in Histories, NEW g \in Histories, Grows(h, g), Chained(h), Reading(h),
         UNCHANGED <<tombstones, checkpoints, verify>>
  PROVE  Reading(g)'
<1>1. /\ Len(h) \in Nat /\ Len(g) = Len(h) + 1 /\ \A n \in 0 .. Len(h) : LinkAt(g, n) = LinkAt(h, n)
  BY GrowthIs
<1>2. 0 .. Len(h) \subseteq 0 .. Len(g)
  BY <1>1
<1>3. Places(h) \subseteq Places(g)
  BY <1>1, <1>2 DEF Places, Positions
<1>4. verify \in Verifications(g)'
  <2> DEFINE A == Places(h)
             B == Places(g)
             X == Positions(h)
             Y == Positions(g)
  <2>1. verify \in [read : Reads, walk : WalkIds, checks : SUBSET checkpoints, tombs : SUBSET tombstones, through : X,
                    at : A, cut : SUBSET WalkIds, verdict : Verdicts]
    BY DEF Reading, Verifications
  <2>2. A \subseteq B /\ X \subseteq Y
    BY <1>2, <1>3 DEF Positions
  <2> HIDE DEF A, B, X, Y
  <2>3. verify \in [read : Reads, walk : WalkIds, checks : SUBSET checkpoints, tombs : SUBSET tombstones, through : Y,
                    at : B, cut : SUBSET WalkIds, verdict : Verdicts]
    BY <2>1, <2>2
  <2>4. QED
    BY <2>3 DEF Verifications, B, Y
<1>5. QED
  BY <1>4 DEF Reading

LEMMA WholeGrows ==
  ASSUME NEW h \in Histories, NEW g \in Histories, Grows(h, g), Chained(h), Reading(h), Whole(h),
         UNCHANGED <<tombstones, prune, verify>>
  PROVE  Whole(g)'
<1>1. /\ Len(h) \in Nat /\ Gone(g)' = Gone(h)
      /\ \A n \in 1 .. Len(h) : RowAt(g, n) = RowAt(h, n) /\ (RowAt(g, n) \in rows' <=> RowAt(h, n) \in rows)
  BY GrowthIs
<1>2. \A n \in 0 .. Len(h) : Present(h, n) => Present(g, n)'
  <2>1. \A n \in 0 .. Len(h) : n = 0 \/ n \in 1 .. Len(h)
    BY <1>1
  <2>2. QED
    BY <1>1, <2>1 DEF Present
<1>3. verify.through \in 0 .. Len(h) /\ verify.at.seq \in 0 .. Len(h)
  <2>1. verify.through \in 0 .. Len(h) /\ verify.at \in Places(h)
    BY DEF Reading, Verifications, Positions
  <2>2. QED
    BY <2>1, LinkIs DEF Places, Positions
<1>4. Tiled(g)'
  <2>1. PICK D \in SUBSET tombstones : Tiles(D, Gone(h) \ InDeletion)
    BY DEF Whole, Tiled
  <2>2. InDeletion' = InDeletion
    BY DEF InDeletion
  <2>3. QED
    BY <1>1, <2>1, <2>2 DEF Tiled
<1>5. Uncut(g)'
  <2>1. BetweenDeletes' <=> BetweenDeletes
    BY DEF BetweenDeletes
  <2>2. Uncut(h)
    BY DEF Whole
  <2>3. Present(h, verify.through) => Present(g, verify.through)'
    BY <1>2, <1>3
  <2>4. Present(h, verify.at.seq) => Present(g, verify.at.seq)'
    BY <1>2, <1>3
  <2>5. verify' = verify
    OBVIOUS
  <2>6. QED
    BY <1>1, <2>1, <2>2, <2>3, <2>4, <2>5 DEF Uncut
<1>6. AlarmsOnlyUnderPrunes'
  BY DEF Whole, AlarmsOnlyUnderPrunes
<1>7. QED
  BY <1>4, <1>5, <1>6 DEF Whole

\* An insert that goes through, answered or not.
LEMMA Appended ==
  ASSUME NEW h \in Histories, Chained(h), Appending(h), NEW e \in Event,
         append[e].stage = "write", ~Taken(append[e].seq), rows' = rows \cup {NewRow(e)}, UNCHANGED expired,
         append' = [append EXCEPT ![e].stage = "done"] \/ UNCHANGED append
  PROVE  \E g \in Histories : Grows(h, g) /\ Appending(g)'
<1>1. PICK g \in Histories :
        /\ Grown(h, g) /\ Len(g) = Len(h) + 1 /\ g[Len(g)][2] = e /\ NewRow(e) = RowAt(g, Len(g))
        /\ append[e].seq = Len(g)
  BY NewRowIs
<1>2. Grows(h, g)
  BY <1>1 DEF Grows
<1>3. /\ Len(h) \in Nat /\ Len(g) = Len(h) + 1 /\ rows \subseteq rows' /\ RowAt(g, Len(g)) \in rows'
      /\ \A n \in 0 .. Len(h) : Upto(g, n) = Upto(h, n)
      /\ \A n \in 1 .. Len(h) : RowAt(g, n) = RowAt(h, n)
  <2>1. RowAt(g, Len(g)) \in rows'
    BY <1>2 DEF Grows
  <2>2. QED
    BY <1>2, <2>1, GrowthIs
<1>4. append \in [Event -> Appends] /\ expired \subseteq Event /\ e \notin expired
  BY DEF Appending
<1>5. /\ append' \in [Event -> Appends] /\ \A f \in Event : f # e => append'[f] = append[f]
      /\ append'[e].stage = "done" \/ append'[e] = append[e]
  <2>1. CASE append' = [append EXCEPT ![e].stage = "done"]
    <3> DEFINE now == [append[e] EXCEPT !.stage = "done"]
    <3>1. now \in Appends /\ now.stage = "done" /\ append' = [append EXCEPT ![e] = now]
      BY <1>4, <2>1 DEF Appends
    <3> HIDE DEF now
    <3>2. QED
      BY <1>4, <3>1
  <2>2. CASE UNCHANGED append
    BY <1>4, <2>2
  <2>3. QED
    BY <2>1, <2>2
<1>6. ASSUME NEW f \in Event
      PROVE  Fits(g, append[f])
  <2>1. SUFFICES ASSUME append[f].stage \in {"write", "lost"}
                 PROVE  append[f].seq \in 1 .. Len(g) + 1 /\ append[f].prev = Upto(g, append[f].seq - 1)
    BY DEF Fits
  <2>2. append[f].seq \in 1 .. Len(h) + 1 /\ append[f].prev = Upto(h, append[f].seq - 1)
    BY <2>1 DEF Appending, Fits
  <2>3. append[f].seq - 1 \in 0 .. Len(h) /\ append[f].seq \in 1 .. Len(g) + 1
    BY <1>3, <2>2
  <2>4. QED
    BY <1>3, <2>2, <2>3
<1>7. ASSUME NEW f \in Event, f # e
      PROVE  Landed(g, f)'
  <2>1. SUFFICES ASSUME NEW i \in 1 .. Len(g), g[i][2] = f, append[f].stage # "done"
                 PROVE  append[f].stage \in {"write", "lost"} /\ append[f].seq <= Len(g) /\ RowAt(g, i) \in rows'
    BY <1>5, <1>7 DEF Landed
  <2>2. i \in 1 .. Len(h)
    BY <1>1, <1>3, <1>7, <2>1
  <2>3. h[i][2] = f
    BY <1>1, <2>1, <2>2 DEF Grown
  <2>4. append[f].stage \in {"write", "lost"} /\ append[f].seq <= Len(h) /\ RowAt(h, i) \in rows
    BY <2>1, <2>2, <2>3 DEF Appending, Landed
  <2>5. append[f].seq \in Nat
    BY <1>4 DEF Appends
  <2>6. QED
    BY <1>3, <2>2, <2>4, <2>5
<1>8. Landed(g, e)'
  <2>1. SUFFICES ASSUME NEW i \in 1 .. Len(g), g[i][2] = e, append'[e].stage # "done"
                 PROVE  append'[e].stage \in {"write", "lost"} /\ append'[e].seq <= Len(g) /\ RowAt(g, i) \in rows'
    BY DEF Landed
  <2>2. append'[e] = append[e] /\ append[e].stage = "write" /\ append[e].seq = Len(g)
    BY <1>1, <1>5, <2>1
  <2>3. i = Len(g)
    BY <1>1, <1>3, <2>1, HistoryIs
  <2>4. QED
    BY <1>3, <2>2, <2>3
<1>9. ASSUME NEW f \in Event
      PROVE  Fits(g, append'[f]) /\ Landed(g, f)' /\ (f \in expired' => append'[f].stage = "done")
  <2>1. CASE f = e
    <3>1. Fits(g, append'[e])
      BY <1>5, <1>6 DEF Fits
    <3>2. QED
      BY <1>4, <1>8, <2>1, <3>1
  <2>2. CASE f # e
    BY <1>5, <1>6, <1>7, <2>2 DEF Appending
  <2>3. QED
    BY <2>1, <2>2
<1>10. Appending(g)'
  BY <1>4, <1>5, <1>9 DEF Appending
<1>11. QED
  BY <1>2, <1>10

-----------------------------------------------------------------------------
(* The prune reads *)

\* What a prune that is at a page's runs has in hand.
LEMMA PruneIs ==
  ASSUME NEW h \in Histories, Pruning(h), prune.stage \notin {"idle", "rows"}
  PROVE  /\ prune \in Prunes(h) /\ prune.runs \in Seq(RunsOf(h, expired)) /\ prune.runs # << >>
         /\ Run \in RunsOf(h, expired)
         /\ From \in 1 .. Len(h) /\ Through \in From .. Len(h) - 1 /\ Through = From + Len(Run) - 1
         /\ Len(Run) \in Nat \ {0} /\ Run \in Seq(RowsOf(h))
         /\ \A i \in 1 .. Len(Run) :
              Run[i] = RowAt(h, From + i - 1) /\ From + i - 1 \in 1 .. Len(h) /\ Run[i].event \in expired
<1>1. prune \in Prunes(h) /\ prune.runs # << >>
  BY DEF Pruning
<1>2. prune.runs \in Seq(RunsOf(h, expired))
  BY <1>1 DEF Prunes
<1>3. Run \in RunsOf(h, expired)
  BY <1>1, <1>2, FirstRunIs DEF Run
<1>4. /\ Run \in Seq(RowsOf(h)) /\ Len(Run) \in Nat \ {0}
      /\ Run[1].seq \in 1 .. Len(h) /\ Last(Run) = Run[Len(Run)] /\ Run[1].seq + Len(Run) - 1 < Len(h)
      /\ \A i \in 1 .. Len(Run) :
           /\ Run[i].seq = Run[1].seq + i - 1 /\ Run[1].seq + i - 1 \in 1 .. Len(h)
           /\ Run[i] = RowAt(h, Run[1].seq + i - 1) /\ Run[i].event \in expired
  BY <1>3, RunIs
<1>5. Len(h) \in Nat
  BY HistoryIs
<1> HIDE DEF Run
<1>6. From = Run[1].seq /\ Through = Run[Len(Run)].seq
  BY <1>4 DEF From, Through
<1>7. Through = From + Len(Run) - 1
  BY <1>4, <1>6
<1>8. QED
  BY <1>1, <1>2, <1>3, <1>4, <1>5, <1>6, <1>7

LEMMA NoPruneIs ==
  ASSUME NEW h, NEW n \in Nat
  PROVE  /\ NoPrune \in Prunes(h) /\ [NoPrune EXCEPT !.after = n] \in Prunes(h)
         /\ [NoPrune EXCEPT !.after = n].stage = "idle" /\ NoPrune.stage = "idle"
<1>1. \A S : << >> \in Seq(S)
  BY EmptySeq
<1>2. << >> \in Seq(RowsOf(h)) /\ << >> \in Seq(RunsOf(h, expired)) /\ << >> \in Seq(Entries)
  BY <1>1
<1>3. QED
  BY <1>2 DEF NoPrune, Prunes

\* On to the next run, or the end of the page.
LEMMA NextRunIs ==
  ASSUME NEW h \in Histories, NEW p \in Prunes(h), p.runs # << >>
  PROVE  /\ NextRun(p) \in Prunes(h) /\ NextRun(p).stage \in {"idle", "count"}
         /\ NextRun(p).stage = "count" => NextRun(p).runs # << >>
<1>1. p.page \in Seq(RowsOf(h)) /\ p.runs \in Seq(RunsOf(h, expired)) /\ Len(p.runs) \in Nat \ {0}
  <2>1. p.page \in Seq(RowsOf(h)) /\ p.runs \in Seq(RunsOf(h, expired))
    BY DEF Prunes
  <2>2. QED
    BY <2>1, FirstRunIs
<1>2. Page \in Nat \ {0}
  BY ChainAssumption
<1>3. CASE Len(p.runs) = 1
  <2>1. (IF Len(p.page) = Page THEN Last(p.page).seq ELSE 0) \in Nat
    <3>1. CASE Len(p.page) = Page
      <4>1. Len(p.page) \in 1 .. Len(p.page)
        BY <1>2, <3>1
      <4>2. p.page[Len(p.page)] \in RowsOf(h)
        BY <1>1, <4>1, ElementOfSeq
      <4>3. p.page[Len(p.page)].seq \in 1 .. Len(h)
        BY <4>2, RowsIs
      <4>4. QED
        BY <3>1, <4>3, HistoryIs DEF Last
    <3>2. QED
      BY <3>1
  <2>2. PageEnd(p) \in Prunes(h) /\ PageEnd(p).stage = "idle"
    BY <2>1, NoPruneIs DEF PageEnd
  <2>3. NextRun(p) = PageEnd(p)
    BY <1>3 DEF NextRun
  <2>4. QED
    BY <2>2, <2>3
<1>4. CASE Len(p.runs) # 1
  <2> DEFINE A == RunsOf(h, expired)
  <2>1. /\ Tail(p.runs) \in Seq(A) /\ Tail(p.runs) # << >>
    <3> DEFINE n == Len(p.runs)
    <3>1. p.runs \in Seq(A) /\ n \in Nat \ {0} /\ n # 1
      BY <1>1, <1>4
    <3> HIDE DEF A
    <3>2. Tail(p.runs) \in Seq(A) /\ Len(Tail(p.runs)) = n - 1
      BY <3>1, HeadTailProperties
    <3> HIDE DEF n
    <3>3. n - 1 # 0
      BY <3>1
    <3>4. QED
      BY <3>2, <3>3, EmptySeq
  <2>2. << >> \in Seq(RowsOf(h)) /\ << >> \in Seq(Entries)
    <3>1. \A S : << >> \in Seq(S)
      BY EmptySeq
    <3>2. QED
      BY <3>1
  <2> DEFINE q == [p EXCEPT !.stage = "count", !.runs = Tail(@), !.prior = << >>, !.stored = {}, !.doomed = << >>]
  <2>3. q \in Prunes(h) /\ q.stage = "count" /\ q.runs = Tail(p.runs)
    BY <2>1, <2>2 DEF Prunes
  <2>4. NextRun(p) = q
    BY <1>4 DEF NextRun
  <2> HIDE DEF q
  <2>5. QED
    BY <2>1, <2>3, <2>4
<1>5. QED
  BY <1>3, <1>4

\* A prune whose step ends with nothing of a run in hand.
LEMMA NothingInHand ==
  ASSUME NEW h, UNCHANGED <<tombstones, expired>>, prune' \in Prunes(h),
         prune'.stage \in {"idle", "tombstones", "count", "prior"}, prune'.stage # "idle" => prune'.runs # << >>
  PROVE  Pruning(h)'
<1>1. prune' \in Prunes(h)'
  BY DEF Prunes
<1>2. QED
  BY <1>1 DEF Pruning

\* No row is deleted before the step or after it.
LEMMA WholeAsPruned ==
  ASSUME NEW h, Whole(h), UNCHANGED <<rows, verify>>, tombstones \subseteq tombstones',
         prune.stage # "delete", prune'.stage # "delete"
  PROVE  Whole(h)'
<1>1. InDeletion = {} /\ InDeletion' = {} /\ ~BetweenDeletes /\ ~BetweenDeletes'
  BY DEF InDeletion, BetweenDeletes
<1>2. Tiled(h)'
  BY <1>1 DEF Whole, Tiled, Gone
<1>3. Uncut(h)'
  BY <1>1 DEF Whole, Uncut, Gone, Present
<1>4. QED
  BY <1>2, <1>3 DEF Whole, AlarmsOnlyUnderPrunes

LEMMA PruneHeadRead ==
  ASSUME NEW h \in Histories, Chained(h), Pruning(h), ReadPruneHead
  PROVE  Pruning(h)' /\ prune'.stage # "delete"
<1>1. /\ prune' = [prune EXCEPT !.stage = "rows", !.through = Len(h) - 1, !.now = expired]
      /\ Len(h) > 1 /\ UNCHANGED <<tombstones, expired>>
  BY HeadIs DEF ReadPruneHead, PruneOnly, Prunable
<1>2. Len(h) \in Nat /\ prune \in Prunes(h)
  BY HistoryIs DEF Pruning
<1> DEFINE x == Len(h) - 1
<1>3. prune' \in Prunes(h) /\ prune'.stage = "rows" /\ prune'.through = x
  <2>1. x \in Nat /\ prune' = [prune EXCEPT !.stage = "rows", !.through = x, !.now = expired]
    BY <1>1, <1>2
  <2> HIDE DEF x
  <2>2. QED
    BY <1>2, <2>1 DEF Prunes
<1>4. prune' \in Prunes(h)'
  BY <1>1, <1>3 DEF Prunes
<1>5. QED
  BY <1>2, <1>3, <1>4 DEF Pruning

LEMMA PruneRowsRead ==
  ASSUME NEW h \in Histories, Chained(h), Pruning(h), ReadPruneRows
  PROVE  Pruning(h)' /\ prune'.stage # "delete"
<1> DEFINE due == {r \in rows : r.seq > prune.after /\ r.seq <= prune.through /\ r.event \in prune.now}
           page == FirstRows(due, Page)
           q == [prune EXCEPT !.stage = "tombstones", !.page = page, !.runs = ExpiredRuns(page)]
<1>1. /\ prune.stage = "rows" /\ prune' = IF page = << >> THEN NoPrune ELSE q
      /\ UNCHANGED <<tombstones, expired>>
  BY DEF ReadPruneRows, PruneOnly
<1>2. Len(h) \in Nat /\ prune \in Prunes(h) /\ prune.through < Len(h) /\ prune.through \in Nat /\ prune.now \subseteq expired
  BY <1>1, HistoryIs DEF Pruning, Prunes
<1>3. due \subseteq DueOf(h, expired) /\ due \subseteq RowsOf(h)
  <2>1. ASSUME NEW r \in due
        PROVE  r \in RowsOf(h) /\ r.seq < Len(h) /\ r.event \in expired
    <3>1. r \in RowsOf(h) /\ r.seq <= prune.through /\ r.event \in expired
      BY <1>2 DEF Chained
    <3>2. r.seq \in 1 .. Len(h)
      BY <3>1, RowsIs
    <3>3. QED
      BY <1>2, <3>1, <3>2
  <2>2. QED
    BY <2>1 DEF DueOf
<1> HIDE DEF due
<1>4. page \in Seq(due)
  <2>1. Page \in Nat \ {0}
    BY ChainAssumption
  <2>2. FirstOf(page, due, Page)
    BY <1>3, <2>1, FirstRowsAre
  <2>3. QED
    BY <2>2 DEF FirstOf
<1> HIDE DEF page
<1>5. page \in Seq(DueOf(h, expired)) /\ page \in Seq(RowsOf(h))
  <2>1. \A A, B : A \subseteq B => \A s \in Seq(A) : s \in Seq(B)
    BY SeqMonotonic
  <2>2. QED
    BY <1>3, <1>4, <2>1
<1>6. ExpiredRuns(page) \in Seq(RunsOf(h, expired)) /\ (page # << >> => ExpiredRuns(page) # << >>)
  BY <1>5, ExpiredRunsAre
<1>7. q \in Prunes(h) /\ q.stage = "tombstones" /\ q.runs = ExpiredRuns(page)
  BY <1>2, <1>5, <1>6 DEF Prunes
<1>8. NoPrune \in Prunes(h) /\ NoPrune.stage = "idle"
  BY NoPruneIs
<1> HIDE DEF q
<1>9. /\ prune' \in Prunes(h) /\ prune'.stage \in {"idle", "tombstones"}
      /\ prune'.stage # "idle" => prune'.runs # << >>
  BY <1>1, <1>6, <1>7, <1>8
<1>10. QED
  BY <1>1, <1>9, NothingInHand

LEMMA TombstonesRead ==
  ASSUME NEW h \in Histories, Pruning(h), ReadTombstones
  PROVE  Pruning(h)' /\ prune'.stage # "delete"
<1>1. /\ prune.stage = "tombstones" /\ prune' = [prune EXCEPT !.stage = "count", !.tombs = tombstones]
      /\ UNCHANGED <<tombstones, expired>>
  BY DEF ReadTombstones, PruneOnly
<1>2. prune \in Prunes(h) /\ prune.runs # << >>
  BY <1>1, PruneIs
<1>3. prune' \in Prunes(h) /\ prune'.stage = "count" /\ prune'.runs = prune.runs
  BY <1>1, <1>2 DEF Prunes
<1>4. QED
  BY <1>1, <1>2, <1>3, NothingInHand

LEMMA RunCounted ==
  ASSUME NEW h \in Histories, Pruning(h), CountRun
  PROVE  Pruning(h)' /\ prune'.stage # "delete"
<1>1. /\ prune.stage = "count" /\ UNCHANGED <<tombstones, expired>>
      /\ prune' = [prune EXCEPT !.stage = "prior"] \/ prune' = NextRun(prune)
  BY DEF CountRun, PruneOnly
<1>2. prune \in Prunes(h) /\ prune.runs # << >>
  BY <1>1, PruneIs
<1>3. CASE prune' = [prune EXCEPT !.stage = "prior"]
  <2>1. prune' \in Prunes(h) /\ prune'.stage = "prior" /\ prune'.runs = prune.runs
    BY <1>2, <1>3 DEF Prunes
  <2>2. QED
    BY <1>1, <1>2, <2>1, NothingInHand
<1>4. CASE prune' = NextRun(prune)
  <2>1. /\ prune' \in Prunes(h) /\ prune'.stage \in {"idle", "count"}
        /\ prune'.stage = "count" => prune'.runs # << >>
    BY <1>2, <1>4, NextRunIs
  <2>2. QED
    BY <1>1, <2>1, NothingInHand
<1>5. QED
  BY <1>1, <1>3, <1>4

\* A run verifies from one link only: the history before its first row.
LEMMA PriorRead ==
  ASSUME NEW h \in Histories, Pruning(h), ReadPrior
  PROVE  Pruning(h)' /\ prune'.stage # "delete"
<1>1. prune.stage = "prior" /\ UNCHANGED <<tombstones, expired>>
  BY DEF ReadPrior, PruneOnly
<1>2. /\ prune \in Prunes(h) /\ prune.runs # << >> /\ Len(Run) \in Nat \ {0} /\ From \in 1 .. Len(h)
      /\ Run \in RunsOf(h, expired) /\ Run[1] = RowAt(h, From)
  <2>1. /\ prune \in Prunes(h) /\ prune.runs # << >> /\ Len(Run) \in Nat \ {0} /\ From \in 1 .. Len(h)
        /\ Run \in RunsOf(h, expired) /\ \A i \in 1 .. Len(Run) : Run[i] = RowAt(h, From + i - 1)
    BY <1>1, PruneIs
  <2>2. Run[1] = RowAt(h, From + 1 - 1) /\ From + 1 - 1 = From
    BY <2>1
  <2>3. QED
    BY <2>1, <2>2
<1>3. CASE \E prior \in LinksBefore(From) :
             Verifies(Run, prior) /\ prune' = [prune EXCEPT !.stage = "put", !.prior = prior]
  <2>1. PICK prior \in LinksBefore(From) :
          Verifies(Run, prior) /\ prune' = [prune EXCEPT !.stage = "put", !.prior = prior]
    BY <1>3
  <2>2. 1 \in DOMAIN Run
    <3>1. DOMAIN Run = 1 .. Len(Run)
      BY <1>2, RunIs
    <3>2. QED
      BY <1>2, <3>1
  <2>3. Run[1].prev = prior
    BY <2>1, <2>2 DEF Verifies
  <2>4. prior = Upto(h, From - 1) /\ prior \in Seq(Entries)
    <3>1. From - 1 \in 0 .. Len(h)
      BY <1>2, HistoryIs
    <3>2. QED
      BY <1>2, <2>3, <3>1, RowIs, UptoIs
  <2>5. prune' \in Prunes(h) /\ prune'.stage = "put" /\ prune'.runs = prune.runs /\ prune'.prior = prior
    BY <1>2, <2>1, <2>4 DEF Prunes
  <2>6. prune' \in Prunes(h)'
    BY <1>1, <2>5 DEF Prunes
  <2>7. From' = From
    BY <2>5 DEF From, Run
  <2>8. QED
    BY <1>2, <2>4, <2>5, <2>6, <2>7 DEF Pruning
<1>4. CASE prune' = NextRun(prune)
  <2>1. /\ prune' \in Prunes(h) /\ prune'.stage \in {"idle", "count"}
        /\ prune'.stage = "count" => prune'.runs # << >>
    BY <1>2, <1>4, NextRunIs
  <2>2. QED
    BY <1>1, <2>1, NothingInHand
<1>5. QED
  BY <1>3, <1>4 DEF ReadPrior

LEMMA PassStopped ==
  ASSUME NEW h, Pruning(h), StopPass \/ LoseStep
  PROVE  Pruning(h)' /\ prune'.stage # "delete"
<1>1. prune.after \in Nat
  BY DEF Pruning, Prunes
<1>2. UNCHANGED <<tombstones, expired>> /\ (prune' = NoPrune \/ prune' = [NoPrune EXCEPT !.after = prune.after])
  BY DEF StopPass, LoseStep, PruneOnly, Stored
<1>3. prune' \in Prunes(h) /\ prune'.stage = "idle"
  BY <1>1, <1>2, NoPruneIs
<1>4. QED
  BY <1>2, <1>3, NothingInHand

-----------------------------------------------------------------------------
(* The prune writes *)

\* The tombstone of a run that verified is of a part of the history; what was stored first stays.
LEMMA TombstonePut ==
  ASSUME NEW h \in Histories, Chained(h), Covered(h), Pruning(h), PutTombstone
  PROVE  Chained(h)' /\ Covered(h)' /\ Pruning(h)' /\ tombstones \subseteq tombstones'
<1> DEFINE tomb == Tombstone(Run, prune.prior)
<1>1. /\ prune.stage = "put" /\ UNCHANGED <<rows, checkpoints, expired, noted>>
      /\ tombstones' = IF \E t \in tombstones : t.from = tomb.from THEN tombstones ELSE tombstones \cup {tomb}
      /\ prune' = [prune EXCEPT !.stage = "recount", !.stored = Existing(tomb)]
  BY DEF PutTombstone
<1>2. /\ prune \in Prunes(h) /\ prune.runs # << >> /\ Len(Run) \in Nat \ {0} /\ Run \in RunsOf(h, expired)
      /\ From \in 1 .. Len(h) /\ Through \in From .. Len(h) - 1 /\ Through = From + Len(Run) - 1
      /\ \A i \in 1 .. Len(Run) : Run[i] = RowAt(h, From + i - 1) /\ From + i - 1 \in 1 .. Len(h)
  BY <1>1, PruneIs
<1>3. Len(h) \in Nat /\ prune.prior = Upto(h, From - 1)
  BY <1>1, HistoryIs DEF Pruning
<1>4. tomb = TombAt(h, From, Through) /\ tomb.from = From
  <2>1. Run[1] = RowAt(h, From) /\ Last(Run) = RowAt(h, Through) /\ Through \in 1 .. Len(h)
    <3>1. From + 1 - 1 = From /\ From + Len(Run) - 1 = Through /\ 1 \in 1 .. Len(Run) /\ Len(Run) \in 1 .. Len(Run)
      BY <1>2
    <3>2. Last(Run) = Run[Len(Run)]
      BY <1>2, RunIs
    <3>3. QED
      BY <1>2, <3>1, <3>2
  <2>2. /\ Hash(Run[1]) = Upto(h, From) /\ Hash(Last(Run)) = Upto(h, Through)
        /\ Run[1].seq = From /\ Last(Run).seq = Through
    BY <1>2, <2>1, RowIs
  <2>3. Len(Run) = Through - From + 1
    BY <1>2
  <2>4. QED
    BY <1>3, <2>2, <2>3 DEF Tombstone, TombAt
<1>5. tomb \in TombsOf(h)
  <2>1. Through \in 1 .. Len(h) /\ From <= Through /\ Through < Len(h)
    BY <1>2, <1>3
  <2>2. QED
    BY <1>2, <1>4, <2>1, InTombs
<1> HIDE DEF tomb
<1>6. tombstones \subseteq tombstones' /\ tombstones' \subseteq TombsOf(h) /\ \A t, u \in tombstones' : t.from = u.from => t = u
  <2>1. CASE \E t \in tombstones : t.from = tomb.from
    BY <1>1, <2>1 DEF Chained
  <2>2. CASE ~\E t \in tombstones : t.from = tomb.from
    BY <1>1, <1>5, <2>2 DEF Chained
  <2>3. QED
    BY <2>1, <2>2
<1>7. PICK t \in tombstones' : Existing(tomb) = {t} /\ t.from = From
  <2> DEFINE held == {t \in tombstones : t.from = tomb.from}
  <2>1. CASE held = {}
    <3>1. Existing(tomb) = {tomb}
      BY <2>1 DEF Existing
    <3>2. tomb \in tombstones'
      BY <1>1, <2>1
    <3>3. QED
      BY <1>4, <3>1, <3>2
  <2>2. CASE held # {}
    <3>1. PICK t \in tombstones : t.from = tomb.from
      BY <2>2
    <3>2. held = {t}
      BY <3>1 DEF Chained
    <3>3. Existing(tomb) = held
      BY <2>2 DEF Existing
    <3>4. QED
      BY <1>4, <1>6, <3>1, <3>2, <3>3
  <2>3. QED
    BY <2>1, <2>2
<1>8. prune' = [prune EXCEPT !.stage = "recount", !.stored = {t}]
  BY <1>1, <1>7
<1>9. prune' \in Prunes(h)' /\ prune'.stage = "recount" /\ prune'.runs = prune.runs /\ prune'.stored = {t}
  <2>1. prune.tombs \in SUBSET tombstones' /\ {t} \in SUBSET tombstones'
    <3>1. prune.tombs \in SUBSET tombstones
      BY <1>2 DEF Prunes
    <3>2. QED
      BY <1>6, <3>1
  <2>2. QED
    BY <1>1, <1>2, <1>8, <2>1 DEF Prunes
<1>10. From' = From
  BY <1>9 DEF From, Run
<1>11. Pruning(h)'
  BY <1>2, <1>7, <1>9, <1>10 DEF Pruning
<1>12. Chained(h)' /\ Covered(h)'
  BY <1>1, <1>6 DEF Chained, Covered, Gone
<1>13. QED
  BY <1>6, <1>11, <1>12

\* Elements of a sequence that are all of some rows.
LEMMA SeqOver ==
  ASSUME NEW S, NEW T, NEW s \in Seq(S), \A i \in 1 .. Len(s) : s[i] \in T
  PROVE  s \in Seq(T)
<1>1. Len(s) \in Nat /\ s = [i \in 1 .. Len(s) |-> s[i]]
  BY LenProperties, SeqDef
<1>2. QED
  BY <1>1, IsASeq

\* Only rows that are all there are deleted: those the stored tombstone names.
LEMMA RunRecounted ==
  ASSUME NEW h \in Histories, Chained(h), Pruning(h), Recount
  PROVE  /\ Pruning(h)'
         /\ \/ prune'.stage # "delete"
            \/ /\ prune'.stage = "delete" /\ ~BetweenDeletes'
               /\ \E t \in tombstones : prune'.stored = {t} /\ \A n \in Span(t) : RowAt(h, n) \in rows
<1>1. prune.stage = "recount" /\ UNCHANGED <<rows, tombstones, expired>>
  BY DEF Recount, PruneOnly
<1>2. /\ prune \in Prunes(h) /\ prune.runs # << >> /\ Len(Run) \in Nat \ {0} /\ Run \in RunsOf(h, expired)
      /\ From \in 1 .. Len(h)
      /\ \A i \in 1 .. Len(Run) :
           Run[i] = RowAt(h, From + i - 1) /\ From + i - 1 \in 1 .. Len(h) /\ Run[i].event \in expired
  BY <1>1, PruneIs
<1>3. PICK t \in tombstones : prune.stored = {t} /\ t.from = From
  BY <1>1 DEF Pruning
<1>4. (CHOOSE x \in prune.stored : TRUE) = t
  BY <1>3
<1>5. /\ t.from \in 1 .. Len(h) /\ t.through \in 1 .. Len(h) /\ t.from <= t.through /\ t.through < Len(h)
      /\ t.count = t.through - t.from + 1 /\ Len(h) \in Nat
  BY TombsIs, HistoryIs DEF Chained
<1> DEFINE named == Named(Run, t)
<1>6. CASE prune' = NextRun(prune)
  <2>1. /\ prune' \in Prunes(h) /\ prune'.stage \in {"idle", "count"}
        /\ prune'.stage = "count" => prune'.runs # << >>
    BY <1>2, <1>6, NextRunIs
  <2>2. QED
    BY <1>1, <2>1, NothingInHand
<1>7. CASE /\ prune' = [prune EXCEPT !.stage = "delete", !.doomed = named]
           /\ \E i \in DOMAIN Run : Run[i].seq = t.through
           /\ Cardinality(RowsAt(t.from, t.through)) = t.count
  <2>1. PICK k \in 1 .. Len(Run) : Run[k].seq = t.through
    <3>1. DOMAIN Run = 1 .. Len(Run)
      BY <1>2, RunIs
    <3>2. QED
      BY <1>7, <3>1
  <2>2. t.through = From + k - 1 /\ k = t.count
    <3>1. Run[k] = RowAt(h, From + k - 1) /\ From + k - 1 \in 1 .. Len(h)
      BY <1>2
    <3>2. Run[k].seq = From + k - 1
      BY <3>1, RowIs
    <3>3. QED
      BY <1>3, <1>5, <2>1, <3>2
  <2>3. named \in Seq(RowsOf(h)) /\ Len(named) = k /\ \A i \in 1 .. k : named[i] = Run[i]
    <3>1. t.from = Run[1].seq /\ t.through = Run[k].seq
      BY <1>3, <2>1 DEF From
    <3>2. QED
      BY <1>2, <2>1, <3>1, NamedIs
  <2> HIDE DEF named
  <2>4. \A n \in t.from .. t.through : RowAt(h, n) \in rows
    BY <1>5, <1>7, AllThere
  <2>5. ASSUME NEW i \in 1 .. Len(named)
        PROVE  named[i] = RowAt(h, t.through - Len(named) + i) /\ named[i].event \in expired /\ named[i] \in rows
    <3>0. Len(named) = k /\ k \in Nat /\ Len(Run) \in Nat /\ From \in Nat /\ k <= Len(Run)
      BY <1>2, <1>5, <2>1, <2>3
    <3>1. i \in 1 .. Len(Run) /\ t.through - Len(named) + i = From + i - 1 /\ named[i] = Run[i]
      <4>1. i \in 1 .. k
        BY <3>0
      <4>2. i \in 1 .. Len(Run)
        BY <3>0, <4>1
      <4>3. QED
        BY <2>2, <2>3, <3>0, <4>1, <4>2
    <3>2. From + i - 1 \in t.from .. t.through
      BY <1>2, <1>3, <2>2, <2>3
    <3>3. QED
      BY <1>2, <2>4, <3>1, <3>2
  <2>6. named \in Seq(rows)
    BY <2>3, <2>5, SeqOver
  <2>7. /\ prune' \in Prunes(h) /\ prune'.stage = "delete" /\ prune'.runs = prune.runs
        /\ prune'.stored = {t} /\ prune'.doomed = named
    BY <1>2, <1>3, <1>7, <2>3 DEF Prunes
  <2>8. Deleting(h, t)'
    <3>1. Len(named) \in 1 .. t.count
      BY <2>1, <2>2, <2>3
    <3>2. ASSUME NEW n \in Span(t), n <= t.through - Len(named)
          PROVE  FALSE
      BY <1>5, <2>2, <2>3, <3>2 DEF Span
    <3>3. QED
      BY <1>1, <2>5, <2>6, <2>7, <3>1, <3>2 DEF Deleting
  <2>9. prune' \in Prunes(h)'
    BY <1>1, <2>7 DEF Prunes
  <2>10. Pruning(h)'
    BY <1>1, <1>2, <2>7, <2>8, <2>9 DEF Pruning
  <2>11. ~BetweenDeletes'
    <3>1. ~(Len(named) < t.count)
      BY <1>5, <2>2, <2>3
    <3>2. QED
      BY <2>7, <3>1 DEF BetweenDeletes
  <2>12. QED
    BY <2>4, <2>7, <2>10, <2>11 DEF Span
<1>8. QED
  BY <1>4, <1>6, <1>7 DEF Recount

LEMMA WholeRecounted ==
  ASSUME NEW h, Whole(h), UNCHANGED <<rows, tombstones, verify>>, prune.stage # "delete",
         prune'.stage = "delete", ~BetweenDeletes', NEW t, prune'.stored = {t}, \A n \in Span(t) : RowAt(h, n) \in rows
  PROVE  Whole(h)'
<1>1. InDeletion = {} /\ InDeletion' = Span(t) /\ ~BetweenDeletes
  BY DEF InDeletion, BetweenDeletes
<1>2. Gone(h)' = Gone(h) /\ Gone(h) \ Span(t) = Gone(h)
  BY DEF Gone
<1>3. Tiled(h)'
  BY <1>1, <1>2 DEF Whole, Tiled
<1>4. Uncut(h)'
  BY <1>1, <1>2 DEF Whole, Uncut, Present
<1>5. QED
  BY <1>3, <1>4 DEF Whole, AlarmsOnlyUnderPrunes

\* Between two deletions nothing of a run is deleted and the rest not: the gaps are tiled.
LEMMA NothingHalfGone ==
  ASSUME NEW h \in Histories, Chained(h), Pruning(h), Tiled(h), ~BetweenDeletes
  PROVE  /\ Gone(h) \ InDeletion = Gone(h)
         /\ \E D \in SUBSET tombstones : Tiles(D, Gone(h))
<1>1. Gone(h) \ InDeletion = Gone(h)
  <2>1. CASE prune.stage # "delete"
    BY <2>1 DEF InDeletion
  <2>2. CASE prune.stage = "delete"
    <3>1. PICK t \in tombstones : Deleting(h, t)
      BY <2>2 DEF Pruning
    <3> DEFINE k == Len(prune.doomed)
    <3>2. /\ prune.stored = {t} /\ prune.doomed \in Seq(rows) /\ k \in 1 .. t.count
          /\ \A i \in 1 .. k : prune.doomed[i] = RowAt(h, t.through - k + i)
      BY <3>1 DEF Deleting
    <3>3. /\ t.from \in 1 .. Len(h) /\ t.through \in 1 .. Len(h) /\ t.from <= t.through
          /\ t.count = t.through - t.from + 1
      BY TombsIs DEF Chained
    <3>4. ~(k < t.count)
      BY <2>2, <3>2 DEF BetweenDeletes
    <3> HIDE DEF k
    <3>5. k = t.count
      BY <3>2, <3>3, <3>4
    <3>6. ASSUME NEW n \in Span(t)
          PROVE  RowAt(h, n) \in rows
      <4>1. n - t.from + 1 \in 1 .. k /\ t.through - k + (n - t.from + 1) = n
        BY <3>3, <3>5 DEF Span
      <4>2. prune.doomed[n - t.from + 1] \in rows
        BY <3>2, <4>1, ElementOfSeq DEF k
      <4>3. QED
        BY <3>2, <4>1, <4>2
    <3>7. InDeletion = Span(t)
      BY <2>2, <3>2 DEF InDeletion
    <3>8. QED
      BY <3>6, <3>7 DEF Gone
  <2>3. QED
    BY <2>1, <2>2
<1>2. QED
  BY <1>1 DEF Tiled

LEMMA WholeWhenLost ==
  ASSUME NEW h \in Histories, Chained(h), Pruning(h), Whole(h), ~BetweenDeletes, prune'.stage = "idle",
         UNCHANGED <<rows, tombstones, verify>>
  PROVE  Whole(h)'
<1>1. InDeletion' = {} /\ ~BetweenDeletes'
  BY DEF InDeletion, BetweenDeletes
<1>2. \E D \in SUBSET tombstones : Tiles(D, Gone(h))
  BY NothingHalfGone DEF Whole
<1>3. Tiled(h)'
  BY <1>1, <1>2 DEF Tiled, Gone
<1>4. Uncut(h)'
  BY <1>1 DEF Whole, Uncut, Gone, Present
<1>5. QED
  BY <1>3, <1>4 DEF Whole, AlarmsOnlyUnderPrunes

-----------------------------------------------------------------------------
(* The prune deletes *)

\* The rows of a run from one position to another.
Part(h, from, through) == {RowAt(h, n) : n \in from .. through}

Left(k) == SubSeq(prune.doomed, k + 1, Len(prune.doomed))

\* One DELETE removes the next rows of the run, k of them; the rest are left.
Cuts(h, t, k) ==
  LET n == Len(prune.doomed)
  IN /\ k \in 1 .. n /\ rows' = rows \ Part(h, t.through - n + 1, t.through - n + k)
     /\ Left(k) \in Seq(RowsOf(h)) /\ Len(Left(k)) = n - k
     /\ \A i \in 1 .. n - k : Left(k)[i] = prune.doomed[k + i]
     /\ prune' = IF k # n THEN [prune EXCEPT !.doomed = Left(k)]
                 ELSE NextRun([prune EXCEPT !.tombs = @ \cup prune.stored])

LEMMA ChunkCut ==
  ASSUME NEW h \in Histories, Chained(h), NEW t \in tombstones, Deleting(h, t), DeleteChunk
  PROVE  \E k \in 1 .. Len(prune.doomed) : Cuts(h, t, k)
<1> DEFINE s == prune.doomed
           n == Len(s)
           k == IF Chunk < n THEN Chunk ELSE n
           some == SubSeq(s, 1, k)
<1>1. s \in Seq(rows) /\ n \in 1 .. t.count /\ \A i \in 1 .. n : s[i] = RowAt(h, t.through - n + i)
  BY DEF Deleting
<1>2. t.through \in Nat /\ t.count \in Nat /\ Chunk \in Nat \ {0} /\ rows \subseteq RowsOf(h)
  <2>1. t.from \in 1 .. Len(h) /\ t.through \in 1 .. Len(h) /\ t.from <= t.through /\ t.count = t.through - t.from + 1
    BY TombsIs DEF Chained
  <2>2. QED
    BY <2>1, HistoryIs, ChainAssumption DEF Chained
<1>3. LET rest == SubSeq(s, Len(some) + 1, n)
      IN /\ rows' = rows \ ToSet(some)
         /\ prune' = IF rest # << >> THEN [prune EXCEPT !.doomed = rest]
                     ELSE NextRun([prune EXCEPT !.tombs = @ \cup prune.stored])
  BY DEF DeleteChunk
<1> HIDE DEF s
<1>4. k \in 1 .. n
  BY <1>1, <1>2
<1> HIDE DEF k
<1>5. n \in Nat /\ k \in Int /\ 1 \in Int /\ k + 1 \in Int /\ n \in Int
  BY <1>1, <1>2, <1>4
<1>6. some \in Seq(rows) /\ Len(some) = k /\ \A i \in 1 .. k : some[i] = s[i]
  <2>1. \A i \in 1 .. k : s[i] \in rows
    <3>1. \A i \in 1 .. n : s[i] \in rows
      BY <1>1, ElementOfSeq
    <3>2. QED
      BY <1>4, <1>5, <3>1
  <2>2. /\ SubSeq(s, 1, k) \in Seq(rows) /\ Len(SubSeq(s, 1, k)) = IF 1 <= k THEN k - 1 + 1 ELSE 0
        /\ \A i \in 1 .. k - 1 + 1 : SubSeq(s, 1, k)[i] = s[1 + i - 1]
    BY <1>5, <2>1, SubSeqProperties
  <2>3. QED
    BY <1>4, <1>5, <2>2
<1> DEFINE rest == SubSeq(s, k + 1, n)
<1>7. rest \in Seq(rows) /\ Len(rest) = n - k /\ \A i \in 1 .. n - k : rest[i] = s[k + i]
  <2>1. \A i \in k + 1 .. n : s[i] \in rows
    <3>1. \A i \in 1 .. n : s[i] \in rows
      BY <1>1, ElementOfSeq
    <3>2. QED
      BY <1>4, <1>5, <3>1
  <2>2. /\ rest \in Seq(rows) /\ Len(rest) = IF k + 1 <= n THEN n - (k + 1) + 1 ELSE 0
        /\ \A i \in 1 .. n - (k + 1) + 1 : rest[i] = s[k + 1 + i - 1]
    BY <1>5, <2>1, SubSeqProperties
  <2>3. n - (k + 1) + 1 = n - k /\ \A i \in Int : k + 1 + i - 1 = k + i
    BY <1>5
  <2> HIDE DEF rest
  <2>4. Len(rest) = n - k
    BY <1>4, <1>5, <2>2
  <2>5. ASSUME NEW i \in 1 .. n - k
        PROVE  rest[i] = s[k + i]
    <3>1. i \in 1 .. n - (k + 1) + 1 /\ k + 1 + i - 1 = k + i
      BY <1>5, <2>3
    <3>2. QED
      BY <2>2, <3>1
  <2>6. QED
    BY <2>2, <2>4, <2>5
<1>8. rest \in Seq(RowsOf(h))
  BY <1>2, <1>7, SeqMonotonic
<1>9. rest # << >> <=> k # n
  <2> HIDE DEF rest
  <2>1. rest # << >> <=> Len(rest) # 0
    BY <1>7, EmptySeq
  <2>2. QED
    BY <1>4, <1>5, <1>7, <2>1
<1>10. ToSet(some) = Part(h, t.through - n + 1, t.through - n + k)
  <2> HIDE DEF some
  <2>1. ToSet(some) = {s[i] : i \in 1 .. k}
    <3>1. DOMAIN some = 1 .. k
      BY <1>6, LenProperties
    <3>2. QED
      BY <1>6, <3>1 DEF ToSet
  <2>2. ASSUME NEW i \in 1 .. k
        PROVE  s[i] = RowAt(h, t.through - n + i) /\ t.through - n + i \in t.through - n + 1 .. t.through - n + k
    <3>1. i \in 1 .. n
      BY <1>4, <1>5
    <3>2. QED
      BY <1>1, <1>2, <1>5, <3>1
  <2>3. ASSUME NEW m \in t.through - n + 1 .. t.through - n + k
        PROVE  m - (t.through - n) \in 1 .. k /\ t.through - n + (m - (t.through - n)) = m
    BY <1>2, <1>5
  <2>4. \A x \in {s[i] : i \in 1 .. k} : x \in Part(h, t.through - n + 1, t.through - n + k)
    BY <2>2 DEF Part
  <2>5. ASSUME NEW x \in Part(h, t.through - n + 1, t.through - n + k)
        PROVE  x \in {s[i] : i \in 1 .. k}
    <3>1. PICK m \in t.through - n + 1 .. t.through - n + k : x = RowAt(h, m)
      BY DEF Part
    <3>2. m - (t.through - n) \in 1 .. k /\ x = s[m - (t.through - n)]
      BY <2>2, <2>3, <3>1
    <3>3. QED
      BY <3>2
  <2>6. QED
    BY <2>1, <2>4, <2>5
<1>11. Left(k) = rest
  BY DEF Left, s
<1>12. /\ rows' = rows \ ToSet(some)
       /\ prune' = IF rest # << >> THEN [prune EXCEPT !.doomed = rest]
                   ELSE NextRun([prune EXCEPT !.tombs = @ \cup prune.stored])
  BY <1>3, <1>6
<1> HIDE DEF rest, some
<1>13. Cuts(h, t, k)
  BY <1>4, <1>7, <1>8, <1>9, <1>10, <1>11, <1>12 DEF Cuts, s
<1>14. QED
  BY <1>4, <1>13 DEF s

\* Where the run stood, and which of its rows go.
LEMMA CutIs ==
  ASSUME NEW h \in Histories, Chained(h), NEW t \in tombstones, Deleting(h, t),
         NEW k \in 1 .. Len(prune.doomed), Cuts(h, t, k)
  PROVE  LET n == Len(prune.doomed)
         IN /\ Len(h) \in Nat /\ t.from \in 1 .. Len(h) /\ t.through \in 1 .. Len(h) - 1 /\ n \in 1 .. t.count
            /\ t.count = t.through - t.from + 1 /\ rows' \subseteq rows
            /\ \A m \in 1 .. Len(h) :
                 RowAt(h, m) \in rows' <=> RowAt(h, m) \in rows /\ ~(m \in t.through - n + 1 .. t.through - n + k)
            /\ \A m \in t.through - n + 1 .. t.through : RowAt(h, m) \in rows /\ RowAt(h, m).event \in expired
<1> DEFINE n == Len(prune.doomed)
<1>1. /\ Len(h) \in Nat /\ t.from \in 1 .. Len(h) /\ t.through \in 1 .. Len(h) /\ t.from <= t.through /\ t.through < Len(h)
      /\ t.count = t.through - t.from + 1
  BY TombsIs, HistoryIs DEF Chained
<1>2. /\ n \in 1 .. t.count /\ prune.doomed \in Seq(rows)
      /\ \A i \in 1 .. n : prune.doomed[i] = RowAt(h, t.through - n + i) /\ prune.doomed[i].event \in expired
  BY DEF Deleting
<1>3. \A i \in 1 .. n : prune.doomed[i] \in rows
  BY <1>2, ElementOfSeq
<1>4. rows' = rows \ Part(h, t.through - n + 1, t.through - n + k)
  BY DEF Cuts
<1> HIDE DEF n
<1>5. ASSUME NEW m \in t.through - n + 1 .. t.through
      PROVE  RowAt(h, m) \in rows /\ RowAt(h, m).event \in expired
  <2>1. m - (t.through - n) \in 1 .. n /\ t.through - n + (m - (t.through - n)) = m
    BY <1>1, <1>2
  <2>2. QED
    BY <1>2, <1>3, <2>1
<1>6. k \in 1 .. n
  BY DEF n
<1>7. \A m \in t.through - n + 1 .. t.through - n + k : m \in 1 .. Len(h)
  BY <1>1, <1>2, <1>6
<1>8. ASSUME NEW m \in 1 .. Len(h)
      PROVE  RowAt(h, m) \in rows' <=> RowAt(h, m) \in rows /\ ~(m \in t.through - n + 1 .. t.through - n + k)
  <2>1. RowAt(h, m) \in Part(h, t.through - n + 1, t.through - n + k) <=> m \in t.through - n + 1 .. t.through - n + k
    <3>1. \A l \in t.through - n + 1 .. t.through - n + k : RowAt(h, l) = RowAt(h, m) => l = m
      <4>1. \A l \in 1 .. Len(h) : RowAt(h, l).seq = l
        BY RowIs
      <4>2. QED
        BY <1>7, <4>1
    <3>2. QED
      BY <3>1 DEF Part
  <2>2. QED
    BY <1>4, <2>1
<1>9. rows' \subseteq rows
  BY <1>4
<1>10. QED
  BY <1>1, <1>2, <1>5, <1>8, <1>9 DEF n

\* The head stays, and what goes is named by the run's tombstone.
LEMMA ChainCut ==
  ASSUME NEW h \in Histories, Chained(h), Covered(h), NEW t \in tombstones, Deleting(h, t),
         NEW k \in 1 .. Len(prune.doomed), Cuts(h, t, k), UNCHANGED <<tombstones, checkpoints, noted>>
  PROVE  Chained(h)' /\ Covered(h)'
<1> DEFINE n == Len(prune.doomed)
<1>1. /\ Len(h) \in Nat /\ t.from \in 1 .. Len(h) /\ t.through \in 1 .. Len(h) - 1 /\ n \in 1 .. t.count
      /\ t.count = t.through - t.from + 1 /\ rows' \subseteq rows
      /\ \A m \in 1 .. Len(h) :
           RowAt(h, m) \in rows' <=> RowAt(h, m) \in rows /\ ~(m \in t.through - n + 1 .. t.through - n + k)
  BY CutIs
<1>2. k \in 1 .. n
  OBVIOUS
<1> HIDE DEF n
<1>3. h # << >> => RowAt(h, Len(h)) \in rows'
  <2>1. SUFFICES ASSUME h # << >> PROVE RowAt(h, Len(h)) \in rows'
    OBVIOUS
  <2>2. Len(h) \in 1 .. Len(h) /\ ~(Len(h) \in t.through - n + 1 .. t.through - n + k)
    BY <1>1, <1>2
  <2>3. QED
    BY <1>1, <2>1, <2>2 DEF Chained
<1>4. Chained(h)'
  BY <1>1, <1>3 DEF Chained
<1>5. ASSUME NEW m \in Gone(h)'
      PROVE  \E u \in tombstones : m \in Span(u)
  <2>1. m \in 1 .. Len(h) /\ RowAt(h, m) \notin rows'
    BY DEF Gone
  <2>2. CASE RowAt(h, m) \notin rows
    BY <2>1, <2>2 DEF Covered, Gone
  <2>3. CASE m \in t.through - n + 1 .. t.through - n + k
    <3>1. m \in Span(t)
      BY <1>1, <1>2, <2>3 DEF Span
    <3>2. QED
      BY <3>1
  <2>4. QED
    BY <1>1, <2>1, <2>2, <2>3
<1>6. QED
  BY <1>4, <1>5 DEF Covered

\* Only events past their windows go, whose requests are done.
LEMMA AppendsCut ==
  ASSUME NEW h \in Histories, Chained(h), Appending(h), NEW t \in tombstones, Deleting(h, t),
         NEW k \in 1 .. Len(prune.doomed), Cuts(h, t, k), UNCHANGED <<append, expired>>
  PROVE  Appending(h)'
<1> DEFINE n == Len(prune.doomed)
<1>1. /\ Len(h) \in Nat /\ t.through \in 1 .. Len(h) - 1
      /\ n \in Nat
      /\ \A m \in 1 .. Len(h) :
           RowAt(h, m) \in rows' <=> RowAt(h, m) \in rows /\ ~(m \in t.through - n + 1 .. t.through - n + k)
      /\ \A m \in t.through - n + 1 .. t.through : RowAt(h, m) \in rows /\ RowAt(h, m).event \in expired
  <2>1. t.count \in Nat
    BY TombsIs, HistoryIs DEF Chained
  <2>2. QED
    BY <2>1, CutIs
<1>2. k \in 1 .. n
  OBVIOUS
<1> HIDE DEF n
<1>3. ASSUME NEW e \in Event
      PROVE  Landed(h, e)'
  <2>1. SUFFICES ASSUME NEW i \in 1 .. Len(h), h[i][2] = e, append[e].stage # "done"
                 PROVE  append[e].stage \in {"write", "lost"} /\ append[e].seq <= Len(h) /\ RowAt(h, i) \in rows'
    BY DEF Landed
  <2>2. append[e].stage \in {"write", "lost"} /\ append[e].seq <= Len(h) /\ RowAt(h, i) \in rows
    BY <2>1 DEF Appending, Landed
  <2>3. ~(i \in t.through - n + 1 .. t.through - n + k)
    <3>1. SUFFICES ASSUME i \in t.through - n + 1 .. t.through - n + k PROVE FALSE
      OBVIOUS
    <3>2. i \in t.through - n + 1 .. t.through
      BY <1>1, <1>2, <3>1
    <3>3. e \in expired
      BY <1>1, <2>1, <3>2, RowIs
    <3>4. QED
      BY <2>1, <3>3 DEF Appending
  <2>4. QED
    BY <1>1, <2>2, <2>3
<1>4. QED
  BY <1>3 DEF Appending

LEMMA RunCut ==
  ASSUME NEW h \in Histories, Chained(h), Pruning(h), prune.stage = "delete", NEW t \in tombstones, Deleting(h, t),
         NEW k \in 1 .. Len(prune.doomed), Cuts(h, t, k), UNCHANGED <<tombstones, expired>>
  PROVE  /\ Pruning(h)'
         /\ IF k # Len(prune.doomed) THEN prune'.stage = "delete" /\ prune'.stored = {t}
            ELSE prune'.stage # "delete"
<1> DEFINE n == Len(prune.doomed)
<1>1. prune \in Prunes(h) /\ prune.runs # << >>
  BY PruneIs
<1>2. /\ Len(h) \in Nat /\ t.from \in 1 .. Len(h) /\ t.through \in 1 .. Len(h) - 1 /\ n \in 1 .. t.count
      /\ t.count = t.through - t.from + 1 /\ rows' \subseteq rows
      /\ \A m \in 1 .. Len(h) :
           RowAt(h, m) \in rows' <=> RowAt(h, m) \in rows /\ ~(m \in t.through - n + 1 .. t.through - n + k)
      /\ \A m \in t.through - n + 1 .. t.through : RowAt(h, m) \in rows /\ RowAt(h, m).event \in expired
  BY CutIs
<1>3. /\ k \in 1 .. n /\ Left(k) \in Seq(RowsOf(h)) /\ Len(Left(k)) = n - k
      /\ \A i \in 1 .. n - k : Left(k)[i] = prune.doomed[k + i]
      /\ prune' = IF k # n THEN [prune EXCEPT !.doomed = Left(k)]
                  ELSE NextRun([prune EXCEPT !.tombs = @ \cup prune.stored])
  BY DEF Cuts
<1>4. /\ prune.stored = {t} /\ \A i \in 1 .. n : prune.doomed[i] = RowAt(h, t.through - n + i)
      /\ \A m \in Span(t) : m <= t.through - n => RowAt(h, m) \notin rows
  BY DEF Deleting
<1>5. CASE k = n
  <2> DEFINE q == [prune EXCEPT !.tombs = @ \cup prune.stored]
  <2>1. prune.tombs \cup prune.stored \in SUBSET tombstones
    BY <1>1 DEF Prunes
  <2>2. q \in Prunes(h) /\ q.runs = prune.runs
    BY <1>1, <2>1 DEF Prunes
  <2>3. prune' = NextRun(q)
    BY <1>3, <1>5
  <2> HIDE DEF q
  <2>4. /\ prune' \in Prunes(h) /\ prune'.stage \in {"idle", "count"}
        /\ prune'.stage = "count" => prune'.runs # << >>
    BY <1>1, <2>2, <2>3, NextRunIs
  <2>5. QED
    BY <1>5, <2>4, NothingInHand
<1>6. CASE k # n
  <2>1. prune' = [prune EXCEPT !.doomed = Left(k)]
    BY <1>3, <1>6
  <2>2. /\ prune' \in Prunes(h) /\ prune'.stage = "delete" /\ prune'.runs = prune.runs
        /\ prune'.stored = {t} /\ prune'.doomed = Left(k)
    BY <1>1, <1>3, <1>4, <2>1 DEF Prunes
  <2> HIDE DEF n
  <2>0. /\ n \in Nat /\ k \in Nat /\ k >= 1 /\ k <= n
        /\ t.through \in Nat /\ n <= t.through /\ t.through <= Len(h) - 1 /\ Len(h) \in Nat
    <3>1. t.from >= 1 /\ t.from \in Nat /\ t.through \in Nat /\ t.through <= Len(h) - 1 /\ Len(h) \in Nat
      BY <1>2
    <3>2. n \in Nat /\ n <= t.through - t.from + 1
      BY <1>2, <3>1
    <3>3. QED
      BY <1>3, <3>1, <3>2
  <2>3. ASSUME NEW i \in 1 .. n - k
        PROVE  /\ Left(k)[i] = RowAt(h, t.through - (n - k) + i)
               /\ Left(k)[i].event \in expired /\ Left(k)[i] \in rows'
    <3>1. k + i \in 1 .. n /\ t.through - n + (k + i) = t.through - (n - k) + i
      BY <2>0
    <3>2. Left(k)[i] = RowAt(h, t.through - (n - k) + i)
      BY <1>3, <1>4, <3>1
    <3> DEFINE m == t.through - (n - k) + i
    <3>3. m \in t.through - n + 1 .. t.through /\ ~(m \in t.through - n + 1 .. t.through - n + k) /\ m \in 1 .. Len(h)
      BY <2>0
    <3> HIDE DEF m
    <3>4. RowAt(h, m) \in rows' /\ RowAt(h, m).event \in expired
      BY <1>2, <3>3
    <3>5. QED
      BY <3>2, <3>4 DEF m
  <2>4. Left(k) \in Seq(rows')
    BY <1>3, <2>3, SeqOver
  <2>5. n - k \in 1 .. t.count
    BY <1>2, <1>3, <1>6
  <2>6. ASSUME NEW m \in Span(t), m <= t.through - (n - k)
        PROVE  RowAt(h, m) \notin rows'
    <3>1. m \in 1 .. Len(h)
      BY <1>2 DEF Span
    <3>2. CASE m <= t.through - n
      BY <1>2, <1>4, <3>1, <3>2
    <3>3. CASE ~(m <= t.through - n)
      <4>1. m \in t.through - n + 1 .. t.through - n + k
        BY <2>0, <2>6, <3>1, <3>3
      <4>2. QED
        BY <1>2, <3>1, <4>1
    <3>4. QED
      BY <3>2, <3>3
  <2>7. Deleting(h, t)'
    BY <1>3, <2>2, <2>3, <2>4, <2>5, <2>6 DEF Deleting
  <2>8. prune' \in Prunes(h)'
    BY <2>2 DEF Prunes
  <2>9. Pruning(h)'
    BY <1>1, <2>2, <2>7, <2>8 DEF Pruning
  <2>10. QED
    BY <1>6, <2>2, <2>9 DEF n
<1>7. QED
  BY <1>5, <1>6

\* A set that is tiled is, with a tile more, once the tile is no part of it.
LEMMA OneMoreTile ==
  ASSUME NEW D, NEW G, Tiles(D, G), NEW t, Span(t) \cap G = {}
  PROVE  Tiles(D \cup {t}, G \cup Span(t))
<1>1. \A u \in D : Span(u) \cap Span(t) = {}
  BY DEF Tiles
<1>2. UNION {Span(u) : u \in D \cup {t}} = G \cup Span(t)
  BY DEF Tiles
<1>3. QED
  BY <1>1, <1>2 DEF Tiles

\* What a deletion has taken is in deletion; the last of it makes the run a tile.
LEMMA WholeCut ==
  ASSUME NEW h \in Histories, Chained(h), Reading(h), Whole(h), prune.stage = "delete", NEW t \in tombstones, Deleting(h, t),
         NEW k \in 1 .. Len(prune.doomed), Cuts(h, t, k), UNCHANGED <<tombstones, checkpoints>>,
         IF k # Len(prune.doomed) THEN prune'.stage = "delete" /\ prune'.stored = {t} ELSE prune'.stage # "delete",
         verify' = [verify EXCEPT !.cut = IF verify.read = 0 THEN @ ELSE @ \cup {verify.walk}]
  PROVE  Whole(h)'
<1> DEFINE n == Len(prune.doomed)
<1>1. /\ Len(h) \in Nat /\ t.from \in 1 .. Len(h) /\ t.through \in 1 .. Len(h) - 1 /\ n \in 1 .. t.count
      /\ t.count = t.through - t.from + 1 /\ rows' \subseteq rows
      /\ \A m \in 1 .. Len(h) :
           RowAt(h, m) \in rows' <=> RowAt(h, m) \in rows /\ ~(m \in t.through - n + 1 .. t.through - n + k)
  BY CutIs
<1>2. prune.stored = {t} /\ \A m \in Span(t) : m <= t.through - n => RowAt(h, m) \notin rows
  BY DEF Deleting
<1>3. k \in 1 .. n
  OBVIOUS
<1>4. InDeletion = Span(t) /\ InDeletion' = IF k # n THEN Span(t) ELSE {}
  BY <1>2 DEF InDeletion
<1> HIDE DEF n
<1>5. n \in Nat /\ k \in Nat /\ k >= 1 /\ k <= n /\ t.through \in Nat /\ t.from \in Nat /\ n <= t.through - t.from + 1
  BY <1>1, <1>3
<1>6. \A m \in t.through - n + 1 .. t.through - n + k : m \in Span(t)
  BY <1>5 DEF Span
<1>7. Gone(h)' \ Span(t) = Gone(h) \ Span(t)
  <2>1. ASSUME NEW m \in 1 .. Len(h), m \notin Span(t)
        PROVE  RowAt(h, m) \in rows' <=> RowAt(h, m) \in rows
    BY <1>1, <1>6, <2>1
  <2>2. QED
    BY <2>1 DEF Gone
<1>8. k = n => Span(t) \subseteq Gone(h)'
  <2>1. SUFFICES ASSUME k = n, NEW m \in Span(t) PROVE m \in 1 .. Len(h) /\ RowAt(h, m) \notin rows'
    BY DEF Gone
  <2>2. m \in 1 .. Len(h)
    BY <1>1, <1>5 DEF Span
  <2>3. CASE m <= t.through - n
    BY <1>1, <1>2, <2>2, <2>3
  <2>4. CASE ~(m <= t.through - n)
    <3>1. m \in t.through - n + 1 .. t.through - n + k
      BY <1>5, <2>1, <2>2, <2>4 DEF Span
    <3>2. QED
      BY <1>1, <2>2, <3>1
  <2>5. QED
    BY <2>3, <2>4
<1>9. Tiled(h)'
  <2>1. PICK D \in SUBSET tombstones : Tiles(D, Gone(h) \ Span(t))
    BY <1>4 DEF Whole, Tiled
  <2>2. CASE k # n
    <3>1. Gone(h)' \ InDeletion' = Gone(h) \ Span(t)
      BY <1>4, <1>7, <2>2
    <3>2. QED
      BY <2>1, <3>1 DEF Tiled
  <2>3. CASE k = n
    <3>1. (Gone(h) \ Span(t)) \cup Span(t) = Gone(h)' \ InDeletion'
      BY <1>4, <1>7, <1>8, <2>3
    <3>2. Tiles(D \cup {t}, (Gone(h) \ Span(t)) \cup Span(t))
      BY <2>1, OneMoreTile
    <3>3. D \cup {t} \in SUBSET tombstones'
      BY <2>1
    <3>4. QED
      BY <3>1, <3>2, <3>3 DEF Tiled
  <2>4. QED
    BY <2>2, <2>3
<1>10. verify \in Verifications(h)
  BY DEF Reading
<1> DEFINE cut == IF verify.read = 0 THEN verify.cut ELSE verify.cut \cup {verify.walk}
<1>11. verify' = [verify EXCEPT !.cut = cut] /\ cut \in SUBSET WalkIds
  BY <1>10 DEF Verifications
<1>12. verify.cut \subseteq cut /\ (verify.read # 0 => verify.walk \in cut)
  OBVIOUS
<1> HIDE DEF cut
<1>13. /\ verify' \in Verifications(h) /\ verify'.read = verify.read /\ verify'.walk = verify.walk
       /\ verify'.checks = verify.checks /\ verify'.through = verify.through /\ verify'.at = verify.at
       /\ verify'.cut = cut /\ verify'.verdict = verify.verdict
  BY <1>10, <1>11 DEF Verifications
<1>14. Uncut(h)'
  <2>1. verify'.walk = 2 => 1 \in verify'.cut
    BY <1>12, <1>13 DEF Whole, Uncut
  <2>2. verify'.walk \notin verify'.cut => verify'.read = 0
    BY <1>12, <1>13
  <2>3. QED
    BY <2>1, <2>2 DEF Uncut
<1>15. AlarmsOnlyUnderPrunes'
  <2>1. CASE verify.read = 0
    <3>1. cut = verify.cut
      BY <2>1 DEF cut
    <3>2. QED
      BY <1>13, <3>1 DEF Whole, AlarmsOnlyUnderPrunes
  <2>2. CASE verify.read # 0
    <3>1. verify'.verdict = "none"
      BY <1>13, <2>2 DEF Reading
    <3>2. QED
      BY <3>1 DEF AlarmsOnlyUnderPrunes
  <2>3. QED
    BY <2>1, <2>2
<1>16. QED
  BY <1>9, <1>14, <1>15 DEF Whole

\* The deletion changes of a verify only which of its walks was cut.
LEMMA VerifyCut ==
  ASSUME NEW h, Reading(h), UNCHANGED <<tombstones, checkpoints>>,
         verify' = [verify EXCEPT !.cut = IF verify.read = 0 THEN @ ELSE @ \cup {verify.walk}]
  PROVE  Reading(h)'
<1>1. verify \in Verifications(h)
  BY DEF Reading
<1> DEFINE cut == IF verify.read = 0 THEN verify.cut ELSE verify.cut \cup {verify.walk}
<1>2. verify' = [verify EXCEPT !.cut = cut] /\ cut \in SUBSET WalkIds
  BY <1>1 DEF Verifications
<1> HIDE DEF cut
<1>3. /\ verify' \in Verifications(h) /\ verify'.read = verify.read
      /\ verify'.checks = verify.checks /\ verify'.through = verify.through /\ verify'.at = verify.at
      /\ verify'.verdict = verify.verdict
  BY <1>1, <1>2 DEF Verifications
<1>4. verify' \in Verifications(h)'
  BY <1>3 DEF Verifications
<1>5. QED
  BY <1>3, <1>4 DEF Reading

-----------------------------------------------------------------------------
(* Checkpoints *)

LEMMA HeadNoted ==
  ASSUME NEW h \in Histories, Chained(h), Covered(h), NoteHead
  PROVE  Chained(h)' /\ Covered(h)'
<1>1. rows # {} /\ noted' = {LinkAt(h, Len(h))} /\ UNCHANGED <<rows, tombstones, checkpoints>>
  BY HeadIs DEF NoteHead, Stored
<1>2. h # << >>
  BY <1>1, HeadIs
<1>3. Len(h) \in 1 .. Len(h)
  <2>1. Len(h) \in Nat \ {0}
    BY <1>2, HistoryIs, EmptySeq
  <2>2. QED
    BY <2>1
<1>4. noted' \subseteq LinksOf(h)
  BY <1>1, <1>3 DEF LinksOf
<1>5. QED
  BY <1>1, <1>4 DEF Chained, Covered, Gone

LEMMA CheckpointPut ==
  ASSUME NEW h, Chained(h), Covered(h), PutCheckpoint
  PROVE  Chained(h)' /\ Covered(h)' /\ checkpoints \subseteq checkpoints'
<1>1. noted' = {} /\ UNCHANGED <<rows, tombstones>> /\ checkpoints \subseteq checkpoints'
      /\ checkpoints' \subseteq checkpoints \cup noted
  BY DEF PutCheckpoint
<1>2. QED
  BY <1>1 DEF Chained, Covered, Gone

-----------------------------------------------------------------------------
(* The verify *)

\* A verify as it begins a walk, or as it ends.
Anew(read, walk, cut, verdict) ==
  [NoVerify EXCEPT !.read = read, !.walk = walk, !.cut = cut, !.verdict = verdict]

LEMMA NoVerifyFits == ASSUME NEW h \in Histories PROVE NoVerify \in Verifications(h)
<1>1. 0 \in Positions(h) /\ 0 \in Reads /\ 1 \in WalkIds /\ "none" \in Verdicts
  BY HistoryIs DEF Positions, Reads, WalkIds, Verdicts
<1>2. NoLink \in Places(h)
  BY <1>1, FirstLink DEF Places
<1>3. QED
  BY <1>1, <1>2 DEF NoVerify, Verifications

LEMMA NoVerifyIs ==
  ASSUME NEW h \in Histories, NEW read \in Reads, NEW walk \in WalkIds, NEW cut \in SUBSET WalkIds, NEW verdict \in Verdicts,
         NEW v, v = Anew(read, walk, cut, verdict)
  PROVE  /\ v \in Verifications(h) /\ v.read = read /\ v.walk = walk /\ v.cut = cut /\ v.verdict = verdict
         /\ v.at = NoLink /\ v.checks = {}
<1>1. NoVerify.at = NoLink /\ NoVerify.checks = {}
  BY DEF NoVerify
<1>2. QED
  BY <1>1, NoVerifyFits DEF Verifications, Anew

\* A verify that has read nothing, or is over, expects nothing of the rows.
LEMMA NothingExpected ==
  ASSUME NEW h \in Histories, UNCHANGED <<tombstones, checkpoints>>,
         NEW read \in {0, 1}, NEW walk \in WalkIds, NEW cut \in SUBSET WalkIds, NEW verdict \in Verdicts,
         verify' = Anew(read, walk, cut, verdict),
         read = 1 => verdict = "none"
  PROVE  /\ Reading(h)'
         /\ (walk = 2 => 1 \in cut) => Uncut(h)'
         /\ verify'.verdict = verdict /\ verify'.cut = cut /\ verify'.walk = walk
<1>1. read \in Reads
  BY DEF Reads
<1>2. /\ verify' \in Verifications(h) /\ verify'.read = read /\ verify'.walk = walk /\ verify'.cut = cut
      /\ verify'.verdict = verdict /\ verify'.at = NoLink
  BY <1>1, NoVerifyIs
<1>3. verify' \in Verifications(h)'
  BY <1>2 DEF Verifications
<1>4. Reading(h)'
  BY <1>2, <1>3 DEF Reading
<1>5. (walk = 2 => 1 \in cut) => Uncut(h)'
  BY <1>2 DEF Uncut
<1>6. QED
  BY <1>2, <1>4, <1>5

\* The gaps stay tiled when nothing but the verify moves.
LEMMA TiledStays ==
  ASSUME NEW h, Tiled(h), UNCHANGED <<rows, tombstones, prune>>
  PROVE  Tiled(h)'
  BY DEF Tiled, Gone, InDeletion

LEMMA VerifyStarted ==
  ASSUME NEW h \in Histories, StartVerify
  PROVE  Reading(h)' /\ (Whole(h) => Whole(h)')
<1>1. UNCHANGED <<rows, tombstones, checkpoints, prune>> /\ verify' = [NoVerify EXCEPT !.read = 1]
  BY DEF StartVerify, Stored
<1>2. verify' = Anew(1, 1, {}, "none")
  <2>1. NoVerify \in Verifications(h)
    BY NoVerifyFits
  <2>2. NoVerify.walk = 1 /\ NoVerify.cut = {} /\ NoVerify.verdict = "none"
    BY DEF NoVerify
  <2>3. QED
    BY <1>1, <2>1, <2>2 DEF Verifications, Anew
<1>3. Reading(h)' /\ Uncut(h)' /\ verify'.verdict = "none"
  <2>1. 1 \in {0, 1} /\ 1 \in WalkIds /\ {} \in SUBSET WalkIds /\ "none" \in Verdicts /\ ~(1 = 2)
    BY DEF Verdicts, WalkIds
  <2>2. QED
    BY <1>1, <1>2, <2>1, NothingExpected
<1>4. QED
  BY <1>1, <1>3, TiledStays DEF Whole, AlarmsOnlyUnderPrunes

Reread(v, read, checks, tombs, through) ==
  [v EXCEPT !.read = read, !.checks = checks, !.tombs = tombs, !.through = through]

LEMMA ReadIs ==
  ASSUME NEW h, NEW v \in Verifications(h), NEW r \in Reads,
         NEW c \in SUBSET checkpoints, NEW t \in SUBSET tombstones, NEW x \in Positions(h),
         NEW w, w = Reread(v, r, c, t, x)
  PROVE  /\ w \in Verifications(h) /\ w.read = r /\ w.checks = c /\ w.tombs = t /\ w.through = x
         /\ w.walk = v.walk /\ w.at = v.at /\ w.cut = v.cut /\ w.verdict = v.verdict
  BY DEF Verifications, Reread

\* Checkpoints first, then tombstones, then the head.
LEMMA ReadInOrder ==
  ASSUME NEW h \in Histories, Chained(h), Reading(h), ReadForWalk
  PROVE  /\ UNCHANGED <<rows, tombstones, checkpoints, prune>> /\ verify.read \in 1 .. 3
         /\ verify' \in Verifications(h)
         /\ verify'.read = verify.read + 1 /\ verify'.walk = verify.walk /\ verify'.at = verify.at
         /\ verify'.cut = verify.cut /\ verify'.verdict = verify.verdict
         /\ verify.read # 1 => verify'.checks = verify.checks
         /\ verify'.tombs = IF verify.read = 2 THEN tombstones ELSE verify.tombs
         /\ verify.read = 3 => verify'.through = Len(h)
<1>1. verify \in Verifications(h)
  BY DEF Reading
<1>2. ReadOrder[1] = "checkpoints" /\ ReadOrder[2] = "tombstones" /\ ReadOrder[3] = "range"
  BY DEF ReadOrder
<1> DEFINE what == ReadOrder[verify.read]
           r == verify.read + 1
           c == IF what = "checkpoints" THEN checkpoints ELSE verify.checks
           t == IF what = "tombstones" THEN tombstones ELSE verify.tombs
           x == IF what = "range" THEN Len(h) ELSE verify.through
<1>3. ChainHead(rows).seq = Len(h) /\ Len(h) \in Positions(h)
  BY HeadIs, HistoryIs DEF Positions
<1>4. /\ verify.read \in 1 .. 3 /\ UNCHANGED <<rows, tombstones, checkpoints, prune>>
      /\ verify' = Reread(verify, r, c, t, x)
  BY <1>3 DEF ReadForWalk, Stored, Reread
<1>5. c \in SUBSET checkpoints /\ t \in SUBSET tombstones /\ x \in Positions(h)
  BY <1>1, <1>3 DEF Verifications
<1>6. r \in Reads
  BY <1>4 DEF Reads
<1>7. /\ verify.read # 1 => c = verify.checks
      /\ t = IF verify.read = 2 THEN tombstones ELSE verify.tombs
      /\ verify.read = 3 => x = Len(h)
  <2>1. verify.read = 1 \/ verify.read = 2 \/ verify.read = 3
    BY <1>4
  <2>2. QED
    BY <1>2, <2>1
<1> HIDE DEF c, t, x
<1>8. /\ verify' \in Verifications(h) /\ verify'.read = r /\ verify'.checks = c /\ verify'.tombs = t /\ verify'.through = x
      /\ verify'.walk = verify.walk /\ verify'.at = verify.at /\ verify'.cut = verify.cut /\ verify'.verdict = verify.verdict
  <2> HIDE DEF r, what
  <2>1. QED
    BY <1>1, <1>4, <1>5, <1>6, ReadIs
<1>9. QED
  BY <1>4, <1>7, <1>8

LEMMA ReadOn ==
  ASSUME NEW h \in Histories, Chained(h), Pruning(h), Reading(h), ReadForWalk
  PROVE  Reading(h)' /\ (Whole(h) => Whole(h)')
<1>1. verify \in Verifications(h) /\ Len(h) \in Nat
  BY HistoryIs DEF Reading
<1>2. UNCHANGED <<rows, tombstones, checkpoints, prune>> /\ verify.read \in 1 .. 3
  BY ReadInOrder
<1>3. verify.at = NoLink /\ verify.verdict = "none"
  BY <1>2 DEF Reading
<1>4. Whole(h) => Tiled(h)'
  BY <1>2, TiledStays DEF Whole
<1>5. BetweenDeletes' <=> BetweenDeletes
  BY <1>2 DEF BetweenDeletes
<1>6. CASE verify.read = 1
  <2>1. /\ verify' \in Verifications(h) /\ verify'.read = 2 /\ verify'.walk = verify.walk /\ verify'.cut = verify.cut
        /\ verify'.at = NoLink /\ verify'.verdict = "none"
    BY <1>3, <1>6, ReadInOrder
  <2>2. verify' \in Verifications(h)'
    BY <1>2, <2>1 DEF Verifications
  <2>3. Whole(h) => Uncut(h)' /\ AlarmsOnlyUnderPrunes'
    BY <2>1 DEF Whole, Uncut, AlarmsOnlyUnderPrunes
  <2>4. QED
    BY <1>4, <2>1, <2>2, <2>3 DEF Reading, Whole
<1>7. CASE verify.read = 2
  <2>1. /\ verify' \in Verifications(h) /\ verify'.read = 3 /\ verify'.walk = verify.walk /\ verify'.cut = verify.cut
        /\ verify'.at = NoLink /\ verify'.verdict = "none" /\ verify'.tombs = tombstones
    BY <1>3, <1>7, ReadInOrder
  <2>2. verify' \in Verifications(h)'
    BY <1>2, <2>1 DEF Verifications
  <2>3. ASSUME Whole(h)
        PROVE  Uncut(h)' /\ AlarmsOnlyUnderPrunes'
    <3>1. ~BetweenDeletes => \E D \in SUBSET tombstones : Tiles(D, Gone(h))
      BY <2>3, NothingHalfGone DEF Whole
    <3>2. Gone(h)' = Gone(h)
      BY <1>2 DEF Gone
    <3>3. verify.walk = 2 => 1 \in verify.cut
      BY <2>3 DEF Whole, Uncut
    <3>4. QED
      BY <1>5, <2>1, <3>1, <3>2, <3>3 DEF Uncut, AlarmsOnlyUnderPrunes
  <2>4. QED
    BY <1>4, <2>1, <2>2, <2>3 DEF Reading, Whole
<1>8. CASE verify.read = 3
  <2>1. /\ verify' \in Verifications(h) /\ verify'.read = 4 /\ verify'.walk = verify.walk /\ verify'.cut = verify.cut
        /\ verify'.at = NoLink /\ verify'.verdict = "none" /\ verify'.tombs = verify.tombs
        /\ verify'.through = Len(h) /\ verify'.checks = verify.checks
    BY <1>3, <1>8, ReadInOrder
  <2>2. verify' \in Verifications(h)'
    BY <1>2, <2>1 DEF Verifications
  <2>3. \A c \in verify.checks : c.seq <= Len(h)
    <3>1. verify.checks \subseteq LinksOf(h)
      BY <1>1 DEF Verifications, Chained
    <3>2. QED
      BY <1>1, <3>1, LinksIs
  <2>4. verify'.at.seq = 0
    BY <2>1 DEF NoLink
  <2>5. ASSUME Whole(h)
        PROVE  Uncut(h)' /\ AlarmsOnlyUnderPrunes'
    <3>1. Gone(h)' = Gone(h)
      BY <1>2 DEF Gone
    <3>2. Present(h, verify.through)' /\ Present(h, verify.at.seq)'
      <4>1. h = << >> => Len(h) = 0
        BY EmptySeq
      <4>2. QED
        BY <1>2, <2>1, <2>4, <4>1 DEF Present, Chained
    <3>3. Uncut(h)
      BY <2>5 DEF Whole
    <3>4. QED
      BY <1>5, <1>8, <2>1, <3>1, <3>2, <3>3 DEF Uncut, AlarmsOnlyUnderPrunes
  <2>6. QED
    BY <1>1, <1>4, <2>1, <2>2, <2>3, <2>4, <2>5 DEF Reading, Whole
<1>9. QED
  BY <1>2, <1>6, <1>7, <1>8

\* The page a walk reads next, and what it makes of it.
NextPage == FirstRows({r \in rows : r.seq > verify.at.seq /\ r.seq <= verify.through}, WalkPage)

PageWalk == Walk(verify.at, NextPage, verify.tombs, verify.checks)

\* A walk from position m over a page goes on at position k; it stops where a gap is not tiled, only.
PageEnds(h, m, k) ==
  /\ verify.at = LinkAt(h, m)
  /\ PageWalk.found \in {"linked", "missing"}
  /\ PageWalk.found = "linked" => PageWalk.at = LinkAt(h, k)
  /\ Present(h, m) => Present(h, k)
  /\ Len(NextPage) # WalkPage /\ Present(h, verify.through) => k = verify.through
  /\ (\E D \in SUBSET verify.tombs : Tiles(D, Gone(h))) /\ Present(h, m) => PageWalk.found = "linked"

LEMMA PageWalked ==
  ASSUME NEW h \in Histories, Chained(h), Reading(h), verify.read = 4
  PROVE  \E m \in 0 .. Len(h), k \in 0 .. Len(h) : PageEnds(h, m, k) /\ k <= verify.through
<1>1. verify \in Verifications(h) /\ Len(h) \in Nat
  BY HistoryIs DEF Reading
<1>2. PICK m \in 0 .. Len(h) : verify.at = LinkAt(h, m)
  BY <1>1 DEF Verifications, Places, Positions
<1>3. verify.at.seq = m
  BY <1>2, LinkIs
<1>4. verify.through \in 0 .. Len(h) /\ m <= verify.through
  BY <1>1, <1>3 DEF Reading, Verifications, Positions
<1>5. verify.tombs \in SUBSET TombsOf(h) /\ verify.checks \in SUBSET LinksOf(h) /\ OnePerStart(verify.tombs)
  <2>1. verify.tombs \subseteq tombstones /\ verify.checks \subseteq checkpoints
    BY <1>1 DEF Verifications
  <2>2. QED
    BY <2>1 DEF Chained, OnePerStart
<1> DEFINE S == Stretch(m, verify.through)
           p == NextPage
           k == Stood(p, m, Len(p))
<1>6. FirstOf(p, S, WalkPage) /\ WalkPage \in Nat
  <2>1. S \in SUBSET RowsOf(h)
    BY DEF Chained, Stretch
  <2>2. WalkPage \in Nat \ {0}
    BY ChainAssumption
  <2>3. p = FirstRows(S, WalkPage)
    BY <1>3 DEF NextPage, Stretch
  <2> HIDE DEF S, p
  <2>4. QED
    BY <2>1, <2>2, <2>3, FirstRowsAre
<1> HIDE DEF p
<1>7. /\ Ascends(h, p, m) /\ (Present(h, m) => GapsOf(p, m, Gone(h)))
      /\ k \in m .. verify.through /\ (Present(h, m) => Present(h, k))
      /\ Len(p) # WalkPage /\ Present(h, verify.through) => k = verify.through
  BY <1>4, <1>6, PageIs
<1>8. PageWalk = Walk(LinkAt(h, m), p, verify.tombs, verify.checks)
  BY <1>2 DEF PageWalk, p
<1>9. PageWalk.found \in {"linked", "missing"} /\ (PageWalk.found = "linked" => PageWalk.at = LinkAt(h, k))
  BY <1>5, <1>7, <1>8, WalkIs
<1>10. ASSUME NEW D \in SUBSET verify.tombs, Tiles(D, Gone(h)), Present(h, m)
       PROVE  PageWalk.found = "linked"
  <2> DEFINE G == Gone(h)
  <2>1. GapsOf(p, m, G) /\ Tiles(D, G)
    BY <1>7, <1>10
  <2> HIDE DEF G
  <2>2. QED
    BY <1>5, <1>7, <1>8, <2>1, WalkWhole
<1> HIDE DEF k
<1>11. k \in 0 .. Len(h) /\ k <= verify.through
  BY <1>4, <1>7
<1>12. PageEnds(h, m, k)
  BY <1>2, <1>7, <1>9, <1>10 DEF PageEnds, p
<1>13. QED
  BY <1>11, <1>12

LEMMA CutGrows ==
  ASSUME NEW h, verify \in Verifications(h)
  PROVE  Cut \in SUBSET WalkIds /\ verify.cut \subseteq Cut /\ (verify.walk \notin Cut => verify.walk \notin verify.cut /\ ~BetweenDeletes)
  BY DEF Cut, Verifications

\* A verify that settles for an alarm does so under a deletion.
LEMMA Settled ==
  ASSUME NEW h \in Histories, Reading(h), UNCHANGED <<rows, tombstones, checkpoints, prune>>,
         NEW found \in {"missing", "truncated", "intact"}, verify' = Settle(found)
  PROVE  /\ Reading(h)'
         /\ Whole(h) /\ (found # "intact" => verify.walk \in Cut) => Whole(h)'
<1>1. verify \in Verifications(h) /\ Cut \in SUBSET WalkIds /\ verify.cut \subseteq Cut
  BY CutGrows DEF Reading
<1>2. verify.walk \in WalkIds
  BY <1>1 DEF Verifications
<1>3. Whole(h) => Tiled(h)' /\ (verify.walk = 2 => 1 \in Cut)
  BY <1>1, TiledStays DEF Whole, Uncut
<1>4. NoVerify \in Verifications(h) /\ NoVerify.read = 0 /\ NoVerify.verdict = "none"
  BY NoVerifyFits DEF NoVerify
<1>5. CASE WalksAgain(found)
  <2>1. found = "missing" /\ verify.walk = 1
    BY <1>5 DEF WalksAgain
  <2>2. verify' = [NoVerify EXCEPT !.read = 1, !.walk = 2, !.cut = Cut]
    BY <1>5 DEF Settle
  <2>3. verify' = Anew(1, 2, Cut, "none")
    <3> HIDE DEF NoVerify
    <3>1. QED
      BY <1>4, <2>2 DEF Verifications, Anew
  <2>4. 1 \in {0, 1} /\ 2 \in WalkIds /\ "none" \in Verdicts
    BY DEF WalkIds, Verdicts
  <2>5. Reading(h)' /\ verify'.verdict = "none" /\ (1 \in Cut => Uncut(h)')
    BY <1>1, <2>3, <2>4, NothingExpected
  <2>6. QED
    BY <1>3, <2>1, <2>5 DEF Whole, AlarmsOnlyUnderPrunes
<1>6. CASE ~WalksAgain(found)
  <2>1. verify' = [NoVerify EXCEPT !.walk = verify.walk, !.cut = Cut, !.verdict = found]
    BY <1>6 DEF Settle
  <2>2. verify' = Anew(0, verify.walk, Cut, found)
    BY <1>4, <2>1 DEF Verifications, Anew
  <2>3. 0 \in {0, 1} /\ found \in Verdicts /\ ~(0 = 1)
    BY DEF Verdicts
  <2>4. /\ Reading(h)' /\ verify'.verdict = found /\ verify'.cut = Cut /\ verify'.walk = verify.walk
        /\ (verify.walk = 2 => 1 \in Cut) => Uncut(h)'
    BY <1>1, <1>2, <2>2, <2>3, NothingExpected
  <2>5. ASSUME Whole(h), found # "intact" => verify.walk \in Cut
        PROVE  AlarmsOnlyUnderPrunes'
    <3>1. found = "missing" => Cut = {1, 2}
      <4>1. SUFFICES ASSUME found = "missing" PROVE Cut = {1, 2}
        OBVIOUS
      <4>2. verify.walk = 2
        BY <1>2, <1>6, <4>1 DEF WalksAgain, WalkIds
      <4>3. QED
        BY <1>1, <1>3, <2>5, <4>1, <4>2 DEF WalkIds
    <3>2. QED
      BY <2>4, <2>5, <3>1 DEF AlarmsOnlyUnderPrunes
  <2>6. QED
    BY <1>3, <2>4, <2>5 DEF Whole
<1>7. QED
  BY <1>5, <1>6

\* A walk goes over a page.
LEMMA WalkedOn ==
  ASSUME NEW h \in Histories, Chained(h), Reading(h), WalkAPage
  PROVE  Reading(h)' /\ (Whole(h) => Whole(h)')
<1>1. /\ verify.read = 4 /\ UNCHANGED <<rows, tombstones, checkpoints, prune>>
      /\ verify' = IF PageWalk.found # "linked" THEN Settle(PageWalk.found)
                   ELSE IF Len(NextPage) = WalkPage THEN [verify EXCEPT !.at = PageWalk.at, !.cut = Cut]
                   ELSE Settle(Finish(PageWalk.at, verify.checks))
  BY DEF WalkAPage, Stored, PageWalk, NextPage
<1>2. /\ verify \in Verifications(h) /\ Cut \in SUBSET WalkIds /\ verify.cut \subseteq Cut
      /\ verify.walk \notin Cut => verify.walk \notin verify.cut /\ ~BetweenDeletes
  BY CutGrows DEF Reading
<1>3. PICK m \in 0 .. Len(h), k \in 0 .. Len(h) : PageEnds(h, m, k) /\ k <= verify.through
  BY <1>1, PageWalked
<1>4. verify.at.seq = m /\ LinkAt(h, k).seq = k /\ verify.verdict = "none"
  BY <1>1, <1>3, LinkIs DEF PageEnds, Reading
<1>5. ASSUME Whole(h), verify.walk \notin Cut
      PROVE  /\ \E D \in SUBSET verify.tombs : Tiles(D, Gone(h))
             /\ Present(h, verify.through) /\ Present(h, m)
             /\ PageWalk.found = "linked" /\ Present(h, k)
  <2>1. /\ \E D \in SUBSET verify.tombs : Tiles(D, Gone(h))
        /\ Present(h, verify.through) /\ Present(h, m)
    BY <1>1, <1>2, <1>4, <1>5 DEF Whole, Uncut
  <2>2. QED
    BY <1>3, <2>1 DEF PageEnds
<1>6. CASE PageWalk.found # "linked"
  <2>1. PageWalk.found = "missing" /\ verify' = Settle("missing")
    BY <1>1, <1>3, <1>6 DEF PageEnds
  <2>2. "missing" \in {"missing", "truncated", "intact"}
    OBVIOUS
  <2>3. Whole(h) => verify.walk \in Cut
    BY <1>5, <1>6
  <2>4. QED
    BY <1>1, <2>1, <2>2, <2>3, Settled
<1>7. CASE PageWalk.found = "linked" /\ Len(NextPage) = WalkPage
  <2>1. verify' = [verify EXCEPT !.at = LinkAt(h, k), !.cut = Cut]
    BY <1>1, <1>3, <1>7 DEF PageEnds
  <2>2. LinkAt(h, k) \in Places(h)
    BY DEF Places, Positions
  <2>3. /\ verify' \in Verifications(h) /\ verify'.read = verify.read /\ verify'.walk = verify.walk
        /\ verify'.checks = verify.checks /\ verify'.tombs = verify.tombs /\ verify'.through = verify.through
        /\ verify'.at = LinkAt(h, k) /\ verify'.cut = Cut /\ verify'.verdict = verify.verdict
    BY <1>2, <2>1, <2>2 DEF Verifications
  <2>4. verify' \in Verifications(h)'
    BY <1>1, <2>3 DEF Verifications
  <2>5. Reading(h)'
    BY <1>1, <1>3, <1>4, <2>3, <2>4 DEF Reading
  <2>6. ASSUME Whole(h)
        PROVE  Whole(h)'
    <3>1. Tiled(h)'
      BY <1>1, <2>6, TiledStays DEF Whole
    <3>2. verify'.walk = 2 => 1 \in verify'.cut
      BY <1>2, <2>3, <2>6 DEF Whole, Uncut
    <3>3. Gone(h)' = Gone(h)
      BY <1>1 DEF Gone
    <3>4. ASSUME verify'.walk \notin verify'.cut
          PROVE  /\ \E D \in SUBSET verify'.tombs : Tiles(D, Gone(h)')
                 /\ Present(h, verify.through)' /\ Present(h, verify.at.seq)'
      BY <1>1, <1>4, <1>5, <2>3, <2>6, <3>3, <3>4 DEF Present
    <3>5. AlarmsOnlyUnderPrunes'
      BY <1>4, <2>3 DEF AlarmsOnlyUnderPrunes
    <3>6. QED
      BY <3>1, <3>2, <3>4, <3>5 DEF Whole, Uncut
  <2>7. QED
    BY <2>5, <2>6
<1>8. CASE PageWalk.found = "linked" /\ Len(NextPage) # WalkPage
  <2> DEFINE found == Finish(PageWalk.at, verify.checks)
  <2>1. verify' = Settle(found) /\ PageWalk.at = LinkAt(h, k)
    BY <1>1, <1>3, <1>8 DEF PageEnds
  <2>2. found \in {"missing", "truncated", "intact"}
    BY DEF Finish
  <2>3. ASSUME Whole(h), verify.walk \notin Cut
        PROVE  found = "intact"
    <3>1. k = verify.through
      BY <1>3, <1>5, <1>8, <2>3 DEF PageEnds
    <3>2. \A c \in verify.checks : c.seq <= k /\ c.seq \in Int
      <4>1. verify.checks \subseteq LinksOf(h)
        BY <1>2 DEF Verifications, Chained
      <4>2. QED
        BY <1>1, <3>1, <4>1, LinksIs DEF Reading
    <3>3. k \in Int
      OBVIOUS
    <3>4. QED
      BY <1>4, <2>1, <3>2, <3>3 DEF Finish
  <2> HIDE DEF found
  <2>4. QED
    BY <1>1, <2>1, <2>2, <2>3, Settled
<1>9. QED
  BY <1>6, <1>7, <1>8

-----------------------------------------------------------------------------
(* Every step *)

\* A history, the same or one longer, is kept to, and is whole if it was and no deletion was cut short.
Keeps(h, g) == Invariant(g)' /\ (CutDeletes = FALSE /\ Whole(h) => Whole(g)')

LEMMA InsertKeeps ==
  ASSUME NEW h \in Histories, Invariant(h), NEW e \in Event,
         append[e].stage = "write", ~Taken(append[e].seq), rows' = rows \cup {NewRow(e)},
         append' = [append EXCEPT ![e].stage = "done"] \/ UNCHANGED append,
         UNCHANGED <<tombstones, checkpoints, expired, prune, noted, verify>>
  PROVE  \E g \in Histories : Keeps(h, g)
<1>1. Chained(h) /\ Covered(h) /\ Appending(h) /\ Pruning(h) /\ Reading(h)
  BY DEF Invariant
<1>2. PICK g \in Histories : Grows(h, g) /\ Appending(g)'
  BY <1>1, Appended
<1>3. Chained(g)' /\ Covered(g)'
  BY <1>1, <1>2, ChainGrows
<1>4. Pruning(g)'
  BY <1>1, <1>2, PruneGrows
<1>5. Reading(g)'
  BY <1>1, <1>2, VerifyGrows
<1>6. Whole(h) => Whole(g)'
  BY <1>1, <1>2, WholeGrows
<1>7. Keeps(h, g)
  BY <1>2, <1>3, <1>4, <1>5, <1>6 DEF Keeps, Invariant
<1>8. QED
  BY <1>7

LEMMA AppendKeeps ==
  ASSUME NEW h \in Histories, Invariant(h), NEW e \in Event,
         ReadHead(e) \/ Insert(e) \/ InsertUnanswered(e) \/ CheckLanded(e) \/ Expire(e)
  PROVE  \E g \in Histories : Keeps(h, g)
<1>1. Chained(h) /\ Covered(h) /\ Appending(h) /\ Pruning(h) /\ Reading(h)
  BY DEF Invariant
<1>2. ASSUME Appending(h)', Pruning(h)', UNCHANGED <<rows, tombstones, checkpoints, noted, prune, verify>>
      PROVE  Keeps(h, h)
  <2>1. Chained(h)' /\ Covered(h)'
    BY <1>1, <1>2, ChainStays
  <2>2. Reading(h)'
    BY <1>1, <1>2, VerifyStays
  <2>3. Whole(h) => Whole(h)'
    BY <1>2, WholeStays
  <2>4. QED
    BY <1>2, <2>1, <2>2, <2>3 DEF Keeps, Invariant
<1>3. CASE ReadHead(e)
  <2>1. UNCHANGED <<rows, tombstones, checkpoints, expired, noted, prune, verify>>
    BY <1>3 DEF ReadHead, Stored
  <2>2. Appending(h)' /\ Pruning(h)'
    BY <1>1, <1>3, <2>1, HeadRead, PruneStays
  <2>3. QED
    BY <1>2, <2>1, <2>2
<1>4. CASE Insert(e)
  <2>1. append[e].stage = "write" /\ UNCHANGED <<tombstones, checkpoints, expired, prune, noted, verify>>
    BY <1>4 DEF Insert
  <2>2. CASE Taken(append[e].seq)
    <3>1. append' = [append EXCEPT ![e].stage = "lost"] /\ UNCHANGED rows
      BY <1>4, <2>2 DEF Insert
    <3>2. Appending(h)'
      BY <1>1, <2>1, <3>1, StageMoves
    <3>3. Pruning(h)'
      BY <1>1, <2>1, <3>1, PruneStays
    <3>4. QED
      BY <1>2, <2>1, <3>1, <3>2, <3>3
  <2>3. CASE ~Taken(append[e].seq)
    <3>1. append' = [append EXCEPT ![e].stage = "done"] /\ rows' = rows \cup {NewRow(e)}
      BY <1>4, <2>3 DEF Insert
    <3>2. QED
      BY <2>1, <2>3, <3>1, InsertKeeps
  <2>4. QED
    BY <2>2, <2>3
<1>5. CASE InsertUnanswered(e)
  BY <1>5, InsertKeeps DEF InsertUnanswered
<1>6. CASE CheckLanded(e)
  <2>1. UNCHANGED <<rows, tombstones, checkpoints, expired, noted, prune, verify>>
    BY <1>6 DEF CheckLanded, Stored
  <2>2. Appending(h)' /\ Pruning(h)'
    BY <1>1, <1>6, <2>1, LandedChecked, PruneStays
  <2>3. QED
    BY <1>2, <2>1, <2>2
<1>7. CASE Expire(e)
  <2>1. UNCHANGED <<rows, tombstones, checkpoints, noted, prune, verify>>
    BY <1>7 DEF Expire
  <2>2. Appending(h)' /\ Pruning(h)'
    BY <1>1, <1>7, ExpiredMore
  <2>3. QED
    BY <1>2, <2>1, <2>2
<1>8. QED
  BY <1>3, <1>4, <1>5, <1>6, <1>7

LEMMA PruneKeeps ==
  ASSUME NEW h \in Histories, Invariant(h), Prune \/ StopPass \/ LoseStep
  PROVE  Keeps(h, h)
<1>1. Chained(h) /\ Covered(h) /\ Appending(h) /\ Pruning(h) /\ Reading(h)
  BY DEF Invariant
<1>2. ASSUME Pruning(h)', UNCHANGED <<rows, tombstones, checkpoints, expired, append, noted, verify>>
      PROVE  Invariant(h)'
  BY <1>1, <1>2, ChainStays, AppendsStay, VerifyStays DEF Invariant
<1>3. CASE ReadPruneHead \/ ReadPruneRows \/ ReadTombstones \/ CountRun \/ ReadPrior
  <2>1. prune.stage # "delete" /\ UNCHANGED <<rows, tombstones, checkpoints, expired, append, noted, verify>>
    BY <1>3 DEF ReadPruneHead, ReadPruneRows, ReadTombstones, CountRun, ReadPrior, PruneOnly
  <2>2. Pruning(h)' /\ prune'.stage # "delete"
    BY <1>1, <1>3, PruneHeadRead, PruneRowsRead, TombstonesRead, RunCounted, PriorRead
  <2>3. Whole(h) => Whole(h)'
    BY <2>1, <2>2, WholeAsPruned
  <2>4. QED
    BY <1>2, <2>1, <2>2, <2>3 DEF Keeps
<1>4. CASE PutTombstone
  <2>1. prune.stage = "put" /\ prune'.stage # "delete" /\ UNCHANGED <<rows, checkpoints, expired, append, verify>>
    <3>1. prune.stage = "put" /\ UNCHANGED <<rows, checkpoints, expired, append, verify>>
      BY <1>4 DEF PutTombstone
    <3>2. prune \in Prunes(h) /\ prune' = [prune EXCEPT !.stage = "recount", !.stored = Existing(Tombstone(Run, prune.prior))]
      BY <1>1, <1>4 DEF PutTombstone, Pruning
    <3>3. prune'.stage = "recount"
      BY <3>2 DEF Prunes
    <3>4. QED
      BY <3>1, <3>3
  <2>2. Chained(h)' /\ Covered(h)' /\ Pruning(h)' /\ tombstones \subseteq tombstones'
    BY <1>1, <1>4, TombstonePut
  <2>3. Appending(h)' /\ Reading(h)'
    BY <1>1, <2>1, <2>2, AppendsStay, VerifyStays
  <2>4. Whole(h) => Whole(h)'
    BY <2>1, <2>2, WholeAsPruned
  <2>5. QED
    BY <2>2, <2>3, <2>4 DEF Keeps, Invariant
<1>5. CASE Recount
  <2>1. prune.stage = "recount" /\ UNCHANGED <<rows, tombstones, checkpoints, expired, append, noted, verify>>
    BY <1>5 DEF Recount, PruneOnly
  <2>2. /\ Pruning(h)'
        /\ \/ prune'.stage # "delete"
           \/ /\ prune'.stage = "delete" /\ ~BetweenDeletes'
              /\ \E t \in tombstones : prune'.stored = {t} /\ \A n \in Span(t) : RowAt(h, n) \in rows
    BY <1>1, <1>5, RunRecounted
  <2>3. Whole(h) => Whole(h)'
    <3>1. CASE prune'.stage # "delete"
      BY <2>1, <3>1, WholeAsPruned
    <3>2. CASE /\ prune'.stage = "delete" /\ ~BetweenDeletes'
               /\ \E t \in tombstones : prune'.stored = {t} /\ \A n \in Span(t) : RowAt(h, n) \in rows
      BY <2>1, <3>2, WholeRecounted
    <3>3. QED
      BY <2>2, <3>1, <3>2
  <2>4. QED
    BY <1>2, <2>1, <2>2, <2>3 DEF Keeps
<1>6. CASE DeleteChunk
  <2>1. /\ prune.stage = "delete" /\ UNCHANGED <<tombstones, checkpoints, expired, append, noted>>
        /\ verify' = [verify EXCEPT !.cut = IF verify.read = 0 THEN @ ELSE @ \cup {verify.walk}]
    BY <1>6 DEF DeleteChunk
  <2>2. PICK t \in tombstones : Deleting(h, t)
    BY <1>1, <2>1 DEF Pruning
  <2>3. PICK k \in 1 .. Len(prune.doomed) : Cuts(h, t, k)
    BY <1>1, <1>6, <2>2, ChunkCut
  <2>4. Chained(h)' /\ Covered(h)'
    BY <1>1, <2>1, <2>2, <2>3, ChainCut
  <2>5. Appending(h)'
    BY <1>1, <2>1, <2>2, <2>3, AppendsCut
  <2>6. /\ Pruning(h)'
        /\ IF k # Len(prune.doomed) THEN prune'.stage = "delete" /\ prune'.stored = {t} ELSE prune'.stage # "delete"
    BY <1>1, <2>1, <2>2, <2>3, RunCut
  <2>7. Reading(h)'
    BY <1>1, <2>1, VerifyCut
  <2>8. Whole(h) => Whole(h)'
    BY <1>1, <2>1, <2>2, <2>3, <2>6, WholeCut
  <2>9. QED
    BY <2>4, <2>5, <2>6, <2>7, <2>8 DEF Keeps, Invariant
<1>7. CASE StopPass \/ LoseStep
  <2>1. UNCHANGED <<rows, tombstones, checkpoints, expired, append, noted, verify>>
    BY <1>7 DEF StopPass, LoseStep, PruneOnly, Stored
  <2>2. Pruning(h)' /\ prune'.stage # "delete"
    BY <1>1, <1>7, PassStopped
  <2>3. prune'.stage = "idle"
    BY <1>7, NoPruneIs DEF StopPass, LoseStep, NoPrune
  <2>4. CutDeletes = FALSE => ~BetweenDeletes
    BY <1>7 DEF StopPass, LoseStep, BetweenDeletes
  <2>5. CutDeletes = FALSE /\ Whole(h) => Whole(h)'
    BY <1>1, <2>1, <2>3, <2>4, WholeWhenLost
  <2>6. QED
    BY <1>2, <2>1, <2>2, <2>5 DEF Keeps
<1>8. QED
  BY <1>3, <1>4, <1>5, <1>6, <1>7 DEF Prune

LEMMA CheckpointKeeps ==
  ASSUME NEW h \in Histories, Invariant(h), NoteHead \/ PutCheckpoint
  PROVE  Keeps(h, h)
<1>1. Chained(h) /\ Covered(h) /\ Appending(h) /\ Pruning(h) /\ Reading(h)
  BY DEF Invariant
<1>2. UNCHANGED <<rows, tombstones, expired, append, prune, verify>>
  BY DEF NoteHead, PutCheckpoint, Stored
<1>3. Chained(h)' /\ Covered(h)' /\ checkpoints \subseteq checkpoints'
  BY <1>1, HeadNoted, CheckpointPut DEF NoteHead, Stored
<1>4. Appending(h)' /\ Pruning(h)'
  BY <1>1, <1>2, AppendsStay, PruneStays
<1>5. Reading(h)'
  BY <1>1, <1>2, <1>3, VerifyStays
<1>6. Whole(h) => Whole(h)'
  BY <1>2, WholeStays
<1>7. QED
  BY <1>3, <1>4, <1>5, <1>6 DEF Keeps, Invariant

LEMMA VerifyKeeps ==
  ASSUME NEW h \in Histories, Invariant(h), StartVerify \/ ReadForWalk \/ WalkAPage
  PROVE  Keeps(h, h)
<1>1. Chained(h) /\ Covered(h) /\ Appending(h) /\ Pruning(h) /\ Reading(h)
  BY DEF Invariant
<1>2. UNCHANGED <<rows, tombstones, checkpoints, expired, append, prune, noted>>
  BY DEF StartVerify, ReadForWalk, WalkAPage, Stored
<1>3. Chained(h)' /\ Covered(h)' /\ Appending(h)' /\ Pruning(h)'
  BY <1>1, <1>2, ChainStays, AppendsStay, PruneStays
<1>4. Reading(h)' /\ (Whole(h) => Whole(h)')
  BY <1>1, VerifyStarted, ReadOn, WalkedOn
<1>5. QED
  BY <1>3, <1>4 DEF Keeps, Invariant

LEMMA StutterKeeps ==
  ASSUME NEW h \in Histories, Invariant(h), UNCHANGED vars
  PROVE  Keeps(h, h)
<1>1. UNCHANGED <<rows, tombstones, checkpoints, expired, append, prune, noted, verify>>
  BY DEF vars
<1>2. Chained(h) /\ Covered(h) /\ Appending(h) /\ Pruning(h) /\ Reading(h)
  BY DEF Invariant
<1>3. Invariant(h)'
  BY <1>1, <1>2, ChainStays, AppendsStay, PruneStays, VerifyStays DEF Invariant
<1>4. Whole(h) => Whole(h)'
  BY <1>1, WholeStays
<1>5. QED
  BY <1>3, <1>4 DEF Keeps

LEMMA EveryStepKeeps ==
  ASSUME NEW h \in Histories, Invariant(h), [Next]_vars
  PROVE  \E g \in Histories : Keeps(h, g)
  BY AppendKeeps, PruneKeeps, CheckpointKeeps, VerifyKeeps, StutterKeeps DEF Next

\* Nothing has happened yet.
LEMMA AtFirst == ASSUME Init PROVE \E h \in Histories : Invariant(h) /\ Whole(h)
<1> DEFINE h == << >>
<1>1. h \in Histories /\ Len(h) = 0
  BY EmptySeq DEF Histories
<1>2. Chained(h) /\ Covered(h)
  BY <1>1 DEF Init, Chained, Covered, Gone
<1>3. Appending(h)
  <2>1. << >> \in Seq(Entries)
    BY EmptySeq
  <2>2. NoAppend \in Appends /\ NoAppend.stage = "none"
    BY <2>1 DEF NoAppend, Appends
  <2>3. QED
    BY <1>1, <2>2 DEF Init, Appending, Fits, Landed
<1> HIDE DEF h
<1>4. Pruning(h)
  <2>1. NoPrune \in Prunes(h) /\ NoPrune.stage = "idle"
    BY NoPruneIs
  <2>2. QED
    BY <2>1 DEF Init, Pruning
<1>5. NoVerify \in Verifications(h) /\ verify = NoVerify
  BY <1>1, NoVerifyFits DEF Init
<1>6. NoVerify.read = 0 /\ NoVerify.walk = 1 /\ NoVerify.cut = {} /\ NoVerify.verdict = "none"
  BY DEF NoVerify
<1>7. Reading(h)
  BY <1>5, <1>6 DEF Reading
<1>8. Gone(h) = {}
  BY <1>1 DEF Gone
<1>9. Tiles({}, {}) /\ prune.stage = "idle"
  BY DEF Tiles, Init, NoPrune
<1>10. Tiled(h)
  BY <1>8, <1>9 DEF Tiled, InDeletion
<1>11. Whole(h)
  BY <1>5, <1>6, <1>10 DEF Whole, Uncut, AlarmsOnlyUnderPrunes
<1>12. QED
  BY <1>1, <1>2, <1>3, <1>4, <1>7, <1>11 DEF Invariant

-----------------------------------------------------------------------------
(* The theorems *)

(***************************************************************************)
(* The invariant: the tables, the requests, the prune and the verify all   *)
(* hold parts of one history (appendChained, pruneChainPage,               *)
(* writeCheckpoints and verifyChainRange, at any point between their       *)
(* calls).                                                                 *)
(***************************************************************************)
THEOREM KeptToOneHistory == Spec => []IInv
<1>1. Init => IInv
  BY AtFirst DEF IInv
<1>2. IInv /\ [Next]_vars => IInv'
  BY EveryStepKeeps DEF IInv, Keeps
<1>3. QED
  BY <1>1, <1>2, PTL DEF Spec

\* A beginning of a history is a prefix of it.
LEMMA PrefixIs ==
  ASSUME NEW h \in Histories, NEW n \in 0 .. Len(h)
  PROVE  Len(Upto(h, n)) = n /\ IsPrefix(Upto(h, n), h)
<1>1. Upto(h, n) \in Seq(Entries) /\ Len(Upto(h, n)) = n /\ Len(h) \in Nat /\ h \in Seq(Entries)
  BY UptoIs, HistoryIs
<1>2. SubSeq(Upto(h, n), 1, Len(Upto(h, n))) = Upto(h, n)
  BY <1>1, SubSeqFull
<1>3. QED
  BY <1>1, <1>2 DEF IsPrefix, Upto

LEMMA LinksOfHistory ==
  ASSUME NEW h \in Histories, Chained(h), NEW l \in Links
  PROVE  \E n \in 0 .. Len(h) : l = LinkAt(h, n)
<1>1. Len(h) \in Nat
  BY HistoryIs
<1>2. CASE l \in {Link(r) : r \in rows}
  <2>1. PICK r \in rows : l = Link(r)
    BY <1>2
  <2>2. r.seq \in 1 .. Len(h) /\ Link(r) = LinkAt(h, r.seq)
    BY RowsIs DEF Chained
  <2>3. r.seq \in 0 .. Len(h)
    BY <1>1, <2>2
  <2>4. QED
    BY <2>1, <2>2, <2>3
<1>3. CASE l \in checkpoints
  <2>1. l.seq \in 1 .. Len(h) /\ l = LinkAt(h, l.seq)
    BY <1>3, LinksIs DEF Chained
  <2>2. l.seq \in 0 .. Len(h)
    BY <1>1, <2>1
  <2>3. QED
    BY <2>1, <2>2
<1>4. CASE \E t \in tombstones :
             \/ l = [seq |-> t.from - 1, hash |-> t.prior] \/ l = [seq |-> t.from, hash |-> t.first]
             \/ l = [seq |-> t.through, hash |-> t.last]
  <2>1. PICK t \in tombstones :
             \/ l = [seq |-> t.from - 1, hash |-> t.prior] \/ l = [seq |-> t.from, hash |-> t.first]
             \/ l = [seq |-> t.through, hash |-> t.last]
    BY <1>4
  <2>2. /\ t.from \in 1 .. Len(h) /\ t.through \in 1 .. Len(h)
        /\ t.prior = Upto(h, t.from - 1) /\ t.first = Upto(h, t.from) /\ t.last = Upto(h, t.through)
    BY TombsIs DEF Chained
  <2>3. t.from - 1 \in 0 .. Len(h) /\ t.from \in 0 .. Len(h) /\ t.through \in 0 .. Len(h)
    BY <1>1, <2>2
  <2>4. l = LinkAt(h, t.from - 1) \/ l = LinkAt(h, t.from) \/ l = LinkAt(h, t.through)
    BY <2>1, <2>2 DEF LinkAt
  <2>5. QED
    BY <2>3, <2>4
<1>5. QED
  BY <1>2, <1>3, <1>4 DEF Links

(***************************************************************************)
(* There is one history, each event in it once: every hash the tables hold *)
(* is a beginning of the newest row's (appendChained's one guarded INSERT, *)
(* the tombstones pruneChainPage writes, the checkpoints of                *)
(* writeCheckpoints).                                                      *)
(***************************************************************************)
THEOREM ChainHasOneHistory == Spec => []OneHistory
<1>1. IInv => OneHistory
  <2>1. SUFFICES ASSUME NEW h \in Histories, Invariant(h) PROVE OneHistory
    BY DEF IInv
  <2>2. Chained(h)
    BY <2>1 DEF Invariant
  <2>3. ChainHead(rows).hash = h
    BY <2>2, HeadIs
  <2>4. \A l \in Links : Len(l.hash) = l.seq /\ IsPrefix(l.hash, h)
    <3>1. SUFFICES ASSUME NEW l \in Links PROVE Len(l.hash) = l.seq /\ IsPrefix(l.hash, h)
      OBVIOUS
    <3>2. PICK n \in 0 .. Len(h) : l = LinkAt(h, n)
      BY <2>2, LinksOfHistory
    <3>3. QED
      BY <3>2, LinkIs, PrefixIs
  <2>5. \A r, q \in rows : r.seq = q.seq => r = q
    <3>1. \A r \in rows : r = RowAt(h, r.seq)
      BY <2>2, RowsIs DEF Chained
    <3>2. QED
      BY <3>1
  <2>6. \A i, j \in DOMAIN h : h[i][2] = h[j][2] => i = j
    BY HistoryIs
  <2>7. QED
    BY <2>3, <2>4, <2>5, <2>6 DEF OneHistory
<1>2. QED
  BY <1>1, KeptToOneHistory, PTL

(***************************************************************************)
(* No event is gone unvouched for: every position up to the head is a row, *)
(* or some tombstone names it (pruneChainPage: the tombstone first, and    *)
(* only the rows the stored one names), wherever a prune is lost.          *)
(***************************************************************************)
THEOREM NothingGoesUnvouched == Spec => []Vouched
<1>1. IInv => Vouched
  <2>1. SUFFICES ASSUME NEW h \in Histories, Invariant(h), NEW n \in 1 .. Top
                 PROVE  RowsAt(n, n) # {} \/ \E t \in tombstones : n \in t.from .. t.through
    BY DEF IInv, Vouched
  <2>2. Chained(h) /\ Covered(h)
    BY <2>1 DEF Invariant
  <2>3. n \in 1 .. Len(h)
    BY <2>2, HeadIs DEF Top
  <2>4. CASE RowAt(h, n) \in rows
    <3>1. RowAt(h, n).seq = n /\ n \in n .. n
      BY <2>3, RowIs
    <3>2. QED
      BY <2>4, <3>1 DEF RowsAt
  <2>5. CASE RowAt(h, n) \notin rows
    BY <2>2, <2>3, <2>5 DEF Covered, Gone, Span
  <2>6. QED
    BY <2>4, <2>5
<1>2. QED
  BY <1>1, KeptToOneHistory, PTL

(***************************************************************************)
(* The stronger invariant, of a chain whose prune is never lost between    *)
(* two DELETEs of one run: what is gone is tiled by tombstones.            *)
(***************************************************************************)
THEOREM GapsAreTiled == ASSUME CutDeletes = FALSE PROVE Spec => []WInv
<1>1. Init => WInv
  BY AtFirst DEF WInv
<1>2. WInv /\ [Next]_vars => WInv'
  BY EveryStepKeeps DEF WInv, Keeps
<1>3. QED
  BY <1>1, <1>2, PTL DEF Spec

(***************************************************************************)
(* The prune never breaks the chain: whenever none is running, a verify    *)
(* that reads everything at once finds it whole (prune.ts: "removed        *)
(* without breaking the chain"), unless a prune was lost between two       *)
(* DELETEs of one run.                                                     *)
(***************************************************************************)
THEOREM ChainWholeAtRest == ASSUME CutDeletes = FALSE PROVE Spec => []WholeAtRest
<1>1. WInv => WholeAtRest
  <2>1. SUFFICES ASSUME NEW h \in Histories, Invariant(h), Whole(h), prune.stage = "idle"
                 PROVE  VerdictNow = "intact"
    BY DEF WInv, WholeAtRest
  <2>2. Chained(h) /\ Len(h) \in Nat
    BY <2>1, HistoryIs DEF Invariant
  <2>3. PICK D \in SUBSET tombstones : Tiles(D, Gone(h))
    <3>1. Gone(h) \ InDeletion = Gone(h)
      BY <2>1 DEF InDeletion
    <3>2. QED
      BY <2>1, <3>1 DEF Whole, Tiled
  <2> DEFINE p == InOrder(rows)
             w == Walk(NoLink, p, tombstones, checkpoints)
             G == Gone(h)
  <2>4. Listing(p, rows, Len(h))
    BY <2>2, InOrderIs DEF Chained
  <2> HIDE DEF p, G
  <2>5. p \in Seq(rows) /\ Len(p) \in Nat
    BY <2>4, LenProperties DEF Listing
  <2>6. FirstOf(p, rows, Len(p) + 1)
    <3>1. \A r \in rows : \E j \in 1 .. Len(p) : p[j] = r
      <4>1. \A r \in rows : r.seq <= Len(h)
        BY <2>2, RowsIs DEF Chained
      <4>2. QED
        BY <2>4, <4>1 DEF Listing
    <3>2. ASSUME NEW r \in rows, NEW i \in 1 .. Len(p), r.seq <= p[i].seq
          PROVE  \E j \in 1 .. i : p[j] = r
      <4>1. PICK j \in 1 .. Len(p) : p[j] = r
        BY <3>1
      <4>2. p[i] \in rows
        BY <2>5, ElementOfSeq
      <4>3. p[i].seq \in Int /\ r.seq \in Int
        BY <2>2, <4>2, RowsIs DEF Chained
      <4>4. ~(i < j)
        BY <2>4, <3>2, <4>1, <4>3 DEF Listing
      <4>5. QED
        BY <2>5, <4>1, <4>4
    <3>3. \A i, j \in 1 .. Len(p) : i < j => p[i].seq < p[j].seq
      BY <2>4 DEF Listing
    <3>4. Len(p) <= Len(p) + 1
      BY <2>5
    <3>5. QED
      BY <2>5, <3>1, <3>2, <3>3, <3>4 DEF FirstOf
  <2>7. rows = Stretch(0, Len(h))
    <3>1. \A r \in rows : r.seq > 0 /\ r.seq <= Len(h)
      BY <2>2, RowsIs DEF Chained
    <3>2. QED
      BY <3>1 DEF Stretch
  <2>8. Present(h, 0) /\ Present(h, Len(h))
    <3>1. h = << >> => Len(h) = 0
      BY EmptySeq
    <3>2. QED
      BY <2>2, <3>1 DEF Present, Chained
  <2>9. /\ Ascends(h, p, 0) /\ GapsOf(p, 0, G)
        /\ Stood(p, 0, Len(p)) = Len(h)
    <3>1. 0 \in 0 .. Len(h) /\ Len(h) \in 0 .. Len(h) /\ 0 <= Len(h) /\ Len(p) + 1 \in Nat /\ Len(p) # Len(p) + 1
      BY <2>2, <2>5
    <3>2. FirstOf(p, Stretch(0, Len(h)), Len(p) + 1)
      BY <2>6, <2>7
    <3>3. QED
      BY <2>2, <2>8, <3>1, <3>2, PageIs DEF G
  <2>10. tombstones \in SUBSET TombsOf(h) /\ OnePerStart(tombstones) /\ checkpoints \in SUBSET LinksOf(h)
    BY <2>2 DEF Chained, OnePerStart
  <2>11. NoLink = LinkAt(h, 0) /\ 0 \in 0 .. Len(h)
    BY <2>2, FirstLink
  <2>12. w.found = "linked"
    <3>1. Tiles(D, G)
      BY <2>3 DEF G
    <3>2. QED
      BY <2>9, <2>10, <2>11, <3>1, WalkWhole
  <2>13. w.at = LinkAt(h, Len(h))
    BY <2>9, <2>10, <2>11, <2>12, WalkIs
  <2>14. w.at.seq = Len(h)
    BY <2>13, LinkIs
  <2> HIDE DEF w
  <2>15. \A c \in checkpoints : c.seq \in 1 .. Len(h)
    BY <2>10, LinksIs
  <2>16. Finish(w.at, checkpoints) = "intact"
    BY <2>2, <2>14, <2>15 DEF Finish
  <2>17. QED
    BY <2>12, <2>16 DEF VerdictNow, w, p
<1>2. QED
  BY <1>1, GapsAreTiled, PTL

(***************************************************************************)
(* A verify does not cry wolf: what is appended, checkpointed or recorded  *)
(* in tombstones while it reads never looks like a break. Only a deletion  *)
(* under the walk that reports does, and for a gap to be reported there    *)
(* was one under each of its two walks (verifyChainRange), unless a prune  *)
(* was lost between two DELETEs of one run.                                *)
(***************************************************************************)
THEOREM NoFalseAlarms == ASSUME CutDeletes = FALSE PROVE Spec => []AlarmsOnlyUnderPrunes
<1>1. WInv => AlarmsOnlyUnderPrunes
  BY DEF WInv, Whole
<1>2. QED
  BY <1>1, GapsAreTiled, PTL
=============================================================================
