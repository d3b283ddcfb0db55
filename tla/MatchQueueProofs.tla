---------------------------- MODULE MatchQueueProofs ----------------------------
(***************************************************************************)
(* Theorems about the open queue for any players, skills, regions, keys,   *)
(* number of calls and size of a match.                                    *)
(*                                                                         *)
(* A task of the queue is a plan: the writes it will perform, decided when *)
(* it starts. What the properties say of the queue between two calls       *)
(* follows from what is true of every plan (Planned), and of the queue     *)
(* beside the plan in progress: whom it is about to record was not         *)
(* recorded before, and whom it is about to write back was not taken out.  *)
(***************************************************************************)
EXTENDS MatchQueueProperties, SequenceTheorems, Induction, TLAPS

Waiter == [user : Player, age : 0 .. MaxWait]

\* Nobody waits twice.
Distinct(tickets) == \A i, j \in DOMAIN tickets : tickets[i].user = tickets[j].user => i = j

Lists == {tickets \in Seq(Waiter) : Distinct(tickets)}

\* Each player of a roster fits every one before them.
Fits(a, b) == a.user # b.user /\ Region[a.user] = Region[b.user] /\ Compatible(a, b)

Rosters == {roster \in Seq(Waiter) : \A i, j \in DOMAIN roster : i < j => Fits(roster[i], roster[j])}

Writes ==
  [do : {"arm", "disarm", "notify", "key", "prune", "forget"}]
    \cup [do : {"mint"}, roster : Rosters] \cup [do : {"match"}, user : Player]
    \cup [do : {"waiting"}, tickets : Lists]

Leaving == {"leave", "drop", "forget"}

Tasks == [op : {"idle", "enqueue", "sweep"} \cup Leaving, who : Player \cup {Nobody}, key : Key \cup {NoKey},
          todo : Seq(Writes), made : [Player -> Nat]]

Shape ==
  /\ waiting \in Lists
  /\ minted \in Seq(Rosters)
  /\ match \in [Player -> 0 .. Len(minted)]
  /\ drops \in [Key -> [user : Player \cup {Nobody}, age : 0 .. KeyLife + 1]]
  /\ alarm \in BOOLEAN
  /\ run \in [Task -> Tasks] /\ \A t \in Task : run[t].made \in [Player -> 0 .. Len(minted)]
  /\ told \in [Player -> SUBSET Nat]
  /\ faults \in Nat

Doing(w, what) == {i \in DOMAIN w.todo : w.todo[i].do = what}

\* Whom a task is still to record, and for whom it is still to mint.
ToRecord(w) == {w.todo[i].user : i \in Doing(w, "match")}

ToMint(w) == UNION {Users(w.todo[i].roster) : i \in Doing(w, "mint")}

\* What every task plans, and what is left of its plan.
Planned(w) ==
  /\ \A i \in Doing(w, "mint"), j \in Doing(w, "match") : i < j
  /\ \A i \in Doing(w, "match") : \E j \in Doing(w, "waiting") : i < j
  /\ ToMint(w) \subseteq ToRecord(w)
  /\ \A i, j \in Doing(w, "mint") : i # j => Users(w.todo[i].roster) \cap Users(w.todo[j].roster) = {}
  /\ \A i \in Doing(w, "waiting") : Users(w.todo[i].tickets) \cap ToRecord(w) = {}
  /\ w.op \in Leaving => /\ Doing(w, "mint") = {}
                         /\ \A i \in Doing(w, "waiting") : w.who \notin Users(w.todo[i].tickets)
  /\ Doing(w, "key") # {} => w.op = "drop"

Plans == \A t \in Task : Planned(run[t])

\* serialize: one task at a time.
Serial == \A t, u \in Task : run[t] # NoTask /\ run[u] # NoTask => t = u

\* Who is out is neither waiting nor in the plan in progress.
Outside ==
  /\ Users(waiting) \cap out = {}
  /\ \A t \in Task : /\ ToMint(run[t]) \cap out = {}
                     /\ \A i \in Doing(run[t], "waiting") : Users(run[t].todo[i].tickets) \cap out = {}

\* A key is recorded after the drop it stands for.
Keyed ==
  /\ \A k \in Key : drops[k] = NoDrop \/ <<k, drops[k].user>> \in removed
  /\ \A t \in Task : Doing(run[t], "key") # {} =>
       1 \in Doing(run[t], "waiting") \/ <<run[t].key, run[t].who>> \in removed

\* While nothing is lost: a player of a minted session has it recorded or is about to; who is
\* about to be recorded, or waits, has no other session.
Complete ==
  /\ \A s \in DOMAIN minted : \A p \in Users(minted[s]) :
       \/ match[p] = s \/ s \in told[p]
       \/ \E t \in Task : run[t].made[p] = s /\ p \in ToRecord(run[t]) \ ToMint(run[t])
  /\ \A t \in Task : \A p \in ToRecord(run[t]) :
       match[p] = NoSession \/ (match[p] = run[t].made[p] /\ p \notin ToMint(run[t]))
  /\ \A p \in Users(waiting) : match[p] = NoSession \/ \E t \in Task : Doing(run[t], "waiting") # {}
  /\ \A t \in Task : \A i \in Doing(run[t], "waiting") : \A p \in Users(run[t].todo[i].tickets) :
       match[p] = NoSession

Inv == Shape /\ Plans /\ Serial /\ Outside /\ Keyed /\ (faults = 0 => Complete)

-----------------------------------------------------------------------------
(* The folds the queue is built from, one ticket at a time *)

\* A finite set of numbers has a greatest one, which the library's Max is.
LEMMA MaxIn ==
  ASSUME NEW N \in Nat, NEW T \in SUBSET (1 .. N), T # {}
  PROVE  Max(T) \in T
<1> DEFINE S == {N - x : x \in T}
<1>1. PICK m \in S : \A k \in S : m <= k
  <2>1. \A x \in T : N - x \in Nat
    OBVIOUS
  <2>2. S \in SUBSET Nat
    BY <2>1
  <2>3. S # {}
    OBVIOUS
  <2> HIDE DEF S
  <2>4. QED
    BY <2>2, <2>3, LeastNumber
<1>2. PICK x \in T : m = N - x
  BY <1>1
<1>3. ASSUME NEW y \in T
      PROVE  x >= y
  <2>1. N - x <= N - y
    BY <1>1, <1>2
  <2>2. x \in Int /\ y \in Int
    OBVIOUS
  <2>3. QED
    BY <2>1, <2>2
<1>4. QED
  BY <1>3 DEF Max

\* A fold over a sequence of N elements goes through its prefixes.
LEMMA Prefix ==
  ASSUME NEW N \in Nat, NEW k \in 1 .. N
  PROVE  1 .. k \in SUBSET (1 .. N) /\ 1 .. k # {} /\ Max(1 .. k) = k /\ (1 .. k) \ {k} = 1 .. k - 1
<1>1. Max(1 .. k) = k
  BY DEF Max
<1>2. QED
  BY <1>1

LEMMA MaxChooses ==
  ASSUME NEW N \in Nat, NEW c, c = [T \in SUBSET (1 .. N) |-> Max(T)]
  PROVE  Chooses(c, 1 .. N)
<1>1. \A T \in SUBSET (1 .. N) : T # {} => Max(T) \in T
  BY MaxIn
<1>2. QED
  BY <1>1 DEF Chooses

IsKept(F, tickets, gone) ==
  F = [T \in SUBSET DOMAIN tickets |->
         IF T = {} THEN << >>
         ELSE IF tickets[Max(T)].user \in gone THEN F[T \ {Max(T)}]
              ELSE Append(F[T \ {Max(T)}], tickets[Max(T)])]

LEMMA WithoutSteps ==
  ASSUME NEW tickets \in Seq(Waiter), NEW gone
  PROVE  \E f : /\ f[0] = << >> /\ Without(tickets, gone) = f[Len(tickets)]
               /\ \A k \in 1 .. Len(tickets) :
                    f[k] = IF tickets[k].user \in gone THEN f[k - 1] ELSE Append(f[k - 1], tickets[k])
<1> DEFINE N == Len(tickets)
           V == Seq(Waiter)
           c == [T \in SUBSET (1 .. N) |-> Max(T)]
           step == [x \in V \X (1 .. N) |->
                      IF tickets[x[2]].user \in gone THEN x[1] ELSE Append(x[1], tickets[x[2]])]
           F == CHOOSE G : IsKept(G, tickets, gone)
<1>1. N \in Nat /\ DOMAIN tickets = 1 .. N /\ \A k \in 1 .. N : tickets[k] \in Waiter
  OBVIOUS
<1>2. Without(tickets, gone) = F[DOMAIN tickets]
  BY DEF Without, FoldLeft, MapThenFoldSet, IsKept
<1>3. PICK g : FoldsOver(g, c, step, V, << >>, 1 .. N)
  <2>0. IsFiniteSet(1 .. N)
    BY <1>1, FS_Interval
  <2>1. Chooses(c, 1 .. N)
    <3> HIDE DEF N
    <3>1. QED
      BY <1>1, MaxChooses
  <2>2. step \in [V \X (1 .. N) -> V] /\ << >> \in V
    BY <1>1
  <2> HIDE DEF N, V, c, step
  <2>3. QED
    BY <2>0, <2>1, <2>2, FoldExists
<1>4. g \in [SUBSET (1 .. N) -> V] /\ g[{}] = << >>
  <2> HIDE DEF N, V, c, step
  <2>1. QED
    BY <1>3 DEF FoldsOver
<1>5. ASSUME NEW T \in SUBSET (1 .. N), T # {}
      PROVE  g[T] = IF tickets[Max(T)].user \in gone THEN g[T \ {Max(T)}]
                    ELSE Append(g[T \ {Max(T)}], tickets[Max(T)])
  <2>1. c[T] = Max(T) /\ Max(T) \in T
    BY <1>1, <1>5, MaxIn
  <2>2. g[T] = step[<<g[T \ {c[T]}], c[T]>>]
    <3> HIDE DEF N, V, c, step
    <3>1. QED
      BY <1>3, <1>5 DEF FoldsOver
  <2>3. <<g[T \ {Max(T)}], Max(T)>> \in V \X (1 .. N)
    <3>1. g[T \ {Max(T)}] \in V /\ Max(T) \in 1 .. N
      <4> HIDE DEF N, V
      <4>1. QED
        BY <1>4, <2>1
    <3>2. QED
      BY <3>1
  <2> HIDE DEF c
  <2>4. g[T] = step[<<g[T \ {Max(T)}], Max(T)>>]
    BY <2>1, <2>2
  <2>5. QED
    <3> HIDE DEF N, V
    <3>1. QED
      BY <2>3, <2>4
<1>6. IsKept(g, tickets, gone)
  <2>1. \A T \in SUBSET (1 .. N) :
          g[T] = IF T = {} THEN << >>
                 ELSE IF tickets[Max(T)].user \in gone THEN g[T \ {Max(T)}]
                      ELSE Append(g[T \ {Max(T)}], tickets[Max(T)])
    <3> HIDE DEF N, V
    <3>1. QED
      BY <1>4, <1>5
  <2>3. g = [T \in SUBSET (1 .. N) |-> g[T]]
    BY <1>4
  <2>4. QED
    BY <1>1, <2>1, <2>3 DEF IsKept
<1>7. IsKept(F, tickets, gone)
  BY <1>6
<1> HIDE DEF F
<1> DEFINE f == [k \in 0 .. N |-> F[1 .. k]]
<1>8. f[0] = << >>
  <2>1. F[{}] = << >>
    BY <1>7 DEF IsKept
  <2>2. 1 .. 0 = {}
    OBVIOUS
  <2>3. QED
    BY <1>1, <2>1, <2>2
<1>9. ASSUME NEW k \in 1 .. N
      PROVE  f[k] = IF tickets[k].user \in gone THEN f[k - 1] ELSE Append(f[k - 1], tickets[k])
  <2>1. F[1 .. k] = IF tickets[k].user \in gone THEN F[1 .. k - 1] ELSE Append(F[1 .. k - 1], tickets[k])
    <3>1. 1 .. k \in SUBSET DOMAIN tickets /\ 1 .. k # {} /\ Max(1 .. k) = k /\ (1 .. k) \ {k} = 1 .. k - 1
      BY <1>1, Prefix
    <3>2. QED
      BY <1>7, <3>1 DEF IsKept
  <2>2. f[k] = F[1 .. k] /\ f[k - 1] = F[1 .. k - 1]
    OBVIOUS
  <2> HIDE DEF f
  <2>3. QED
    BY <2>1, <2>2
<1>10. Without(tickets, gone) = f[N]
  BY <1>1, <1>2
<1>11. QED
  BY <1>8, <1>9, <1>10

\* Exactly the others stay.
LEMMA WithoutIs ==
  ASSUME NEW tickets \in Lists, NEW gone
  PROVE  Without(tickets, gone) \in Lists /\ Users(Without(tickets, gone)) = Users(tickets) \ gone
<1> DEFINE N == Len(tickets)
           users(k) == {tickets[j].user : j \in 1 .. k}
<1>1. /\ tickets \in Seq(Waiter) /\ N \in Nat /\ DOMAIN tickets = 1 .. N
      /\ \A k \in 1 .. N : tickets[k] \in Waiter
      /\ \A i, j \in 1 .. N : tickets[i].user = tickets[j].user => i = j
  BY DEF Lists, Distinct
<1>2. PICK f : /\ f[0] = << >> /\ Without(tickets, gone) = f[N]
               /\ \A k \in 1 .. N : f[k] = IF tickets[k].user \in gone THEN f[k - 1]
                                          ELSE Append(f[k - 1], tickets[k])
  BY <1>1, WithoutSteps
<1> DEFINE P == {k \in 0 .. N : f[k] \in Lists /\ Users(f[k]) = users(k) \ gone}
<1>3. 0 \in P
  <2>1. << >> \in Lists /\ Users(<< >>) = {}
    BY DEF Lists, Distinct, Users
  <2>2. users(0) = {}
    OBVIOUS
  <2>3. QED
    BY <1>1, <1>2, <2>1, <2>2
<1>4. ASSUME NEW k \in 1 .. N, k - 1 \in P
      PROVE  k \in P
  <2>1. f[k - 1] \in Seq(Waiter) /\ Distinct(f[k - 1]) /\ Users(f[k - 1]) = users(k - 1) \ gone
    BY <1>4 DEF Lists
  <2>2. users(k) = users(k - 1) \cup {tickets[k].user} /\ tickets[k].user \notin users(k - 1)
    <3>1. 1 .. k = (1 .. k - 1) \cup {k}
      OBVIOUS
    <3>2. users(k) = users(k - 1) \cup {tickets[k].user}
      BY <3>1
    <3>3. tickets[k].user \notin users(k - 1)
      BY <1>1
    <3>4. QED
      BY <3>2, <3>3
  <2>3. CASE tickets[k].user \in gone
    BY <1>2, <1>4, <2>2, <2>3
  <2>4. CASE tickets[k].user \notin gone
    <3> DEFINE l == f[k - 1]
    <3>1. f[k] = Append(l, tickets[k]) /\ tickets[k] \in Waiter
      BY <1>1, <1>2, <2>4
    <3>2. tickets[k].user \notin Users(l)
      BY <2>1, <2>2
    <3>3. /\ f[k] \in Seq(Waiter) /\ DOMAIN f[k] = 1 .. Len(l) + 1 /\ DOMAIN l = 1 .. Len(l) /\ Len(l) \in Nat
          /\ f[k][Len(l) + 1] = tickets[k] /\ \A i \in 1 .. Len(l) : f[k][i] = l[i]
      BY <2>1, <3>1
    <3>8. Distinct(l)
      BY <2>1
    <3> HIDE DEF l, users
    <3>4. ASSUME NEW i \in DOMAIN f[k], NEW j \in DOMAIN f[k], f[k][i].user = f[k][j].user
          PROVE  i = j
      <4>1. \A m \in 1 .. Len(l) : l[m].user # tickets[k].user
        BY <3>2, <3>3 DEF Users
      <4>2. i \in 1 .. Len(l) /\ j \in 1 .. Len(l) => i = j
        BY <3>3, <3>4, <3>8 DEF Distinct
      <4>3. QED
        BY <3>3, <3>4, <4>1, <4>2
    <3>5. Users(f[k]) = Users(l) \cup {tickets[k].user}
      BY <3>3 DEF Users
    <3>6. Users(f[k]) = users(k) \ gone
      BY <2>1, <2>2, <2>4, <3>5 DEF l
    <3>7. QED
      BY <3>3, <3>4, <3>6 DEF Lists, Distinct
  <2>5. QED
    BY <2>3, <2>4
<1>5. P = 0 .. N
  <2>1. P \in SUBSET (0 .. N)
    OBVIOUS
  <2> HIDE DEF P, N
  <2>2. QED
    BY <1>1, <1>3, <1>4, <2>1, UpTo
<1>6. N \in P
  <2> HIDE DEF P, N
  <2>1. QED
    BY <1>1, <1>5
<1>7. users(N) = Users(tickets)
  BY <1>1 DEF Users
<1>8. QED
  BY <1>2, <1>6, <1>7

IsFilled(F, tickets, i, seated) ==
  LET younger == SubSeq(tickets, i + 1, Len(tickets))
      joined(roster, x) == IF x.user \notin seated /\ MayJoin(roster, x) THEN Append(roster, x) ELSE roster
  IN F = [T \in SUBSET DOMAIN younger |->
            IF T = {} THEN <<tickets[i]>> ELSE joined(F[T \ {Max(T)}], younger[Max(T)])]

FillsBy(f, tickets, i, seated) ==
  /\ f[0] = <<tickets[i]>> /\ Fill(tickets, i, seated) = f[Len(tickets) - i]
  /\ \A k \in 1 .. Len(tickets) - i :
       f[k] = IF tickets[i + k].user \notin seated /\ MayJoin(f[k - 1], tickets[i + k])
              THEN Append(f[k - 1], tickets[i + k]) ELSE f[k - 1]

LEMMA FillSteps ==
  ASSUME NEW tickets \in Seq(Waiter), NEW i \in DOMAIN tickets, NEW seated
  PROVE  \E f : FillsBy(f, tickets, i, seated)
<1> DEFINE younger == SubSeq(tickets, i + 1, Len(tickets))
           N == Len(tickets) - i
           V == Seq(Waiter)
           joined(roster, x) == IF x.user \notin seated /\ MayJoin(roster, x) THEN Append(roster, x) ELSE roster
           c == [T \in SUBSET (1 .. N) |-> Max(T)]
           step == [x \in V \X (1 .. N) |-> joined(x[1], younger[x[2]])]
           F == CHOOSE G : IsFilled(G, tickets, i, seated)
<1>1. /\ N \in Nat /\ DOMAIN younger = 1 .. N /\ \A k \in 1 .. N : younger[k] = tickets[i + k]
      /\ \A k \in 1 .. N : younger[k] \in Waiter
  OBVIOUS
<1>2. Fill(tickets, i, seated) = F[DOMAIN younger]
  BY DEF Fill, FoldLeft, MapThenFoldSet, IsFilled
<1> HIDE DEF younger
<1>3. \A r \in V, x \in Waiter : joined(r, x) \in V
  OBVIOUS
<1>4. PICK g : FoldsOver(g, c, step, V, <<tickets[i]>>, 1 .. N)
  <2>0. IsFiniteSet(1 .. N)
    BY <1>1, FS_Interval
  <2>1. Chooses(c, 1 .. N)
    <3> HIDE DEF N
    <3>1. QED
      BY <1>1, MaxChooses
  <2>2. step \in [V \X (1 .. N) -> V]
    <3> HIDE DEF joined, V, N
    <3>1. QED
      BY <1>1, <1>3
  <2>3. <<tickets[i]>> \in V
    OBVIOUS
  <2> HIDE DEF N, V, c, step
  <2>4. QED
    BY <2>0, <2>1, <2>2, <2>3, FoldExists
<1>5. g \in [SUBSET (1 .. N) -> V] /\ g[{}] = <<tickets[i]>>
  <2> HIDE DEF N, V, c, step
  <2>1. QED
    BY <1>4 DEF FoldsOver
<1>6. ASSUME NEW T \in SUBSET (1 .. N), T # {}
      PROVE  g[T] = joined(g[T \ {Max(T)}], younger[Max(T)])
  <2>1. c[T] = Max(T) /\ Max(T) \in T
    <3>1. Max(T) \in T
      <4> HIDE DEF N
      <4>1. QED
        BY <1>1, <1>6, MaxIn
    <3>2. QED
      BY <3>1
  <2>2. g[T] = step[<<g[T \ {c[T]}], c[T]>>]
    <3> HIDE DEF N, V, c, step
    <3>1. QED
      BY <1>4, <1>6 DEF FoldsOver
  <2>3. <<g[T \ {Max(T)}], Max(T)>> \in V \X (1 .. N)
    <3>1. g[T \ {Max(T)}] \in V /\ Max(T) \in 1 .. N
      <4> HIDE DEF N, V
      <4>1. QED
        BY <1>5, <2>1
    <3>2. QED
      BY <3>1
  <2> HIDE DEF c
  <2>4. g[T] = step[<<g[T \ {Max(T)}], Max(T)>>]
    BY <2>1, <2>2
  <2>5. QED
    <3> HIDE DEF N, V, joined
    <3>1. QED
      BY <2>3, <2>4
<1>7. IsFilled(g, tickets, i, seated)
  <2>1. \A T \in SUBSET (1 .. N) :
          g[T] = IF T = {} THEN <<tickets[i]>> ELSE joined(g[T \ {Max(T)}], younger[Max(T)])
    <3> HIDE DEF N, V, joined
    <3>1. QED
      BY <1>5, <1>6
  <2>2. g = [T \in SUBSET (1 .. N) |-> g[T]]
    BY <1>5
  <2>3. g = [T \in SUBSET DOMAIN younger |->
               IF T = {} THEN <<tickets[i]>> ELSE joined(g[T \ {Max(T)}], younger[Max(T)])]
    <3> HIDE DEF N, V, joined
    <3>1. QED
      BY <1>1, <2>1, <2>2
  <2>4. QED
    BY <2>3 DEF IsFilled, younger
<1>8. F = [T \in SUBSET DOMAIN younger |->
             IF T = {} THEN <<tickets[i]>> ELSE joined(F[T \ {Max(T)}], younger[Max(T)])]
  <2>1. IsFilled(F, tickets, i, seated)
    BY <1>7
  <2> HIDE DEF F
  <2>2. QED
    BY <2>1 DEF IsFilled, younger
<1> HIDE DEF F
<1> DEFINE f == [k \in 0 .. N |-> F[1 .. k]]
<1>9. f[0] = <<tickets[i]>>
  <2>1. F[{}] = <<tickets[i]>>
    BY <1>8
  <2>2. 1 .. 0 = {}
    OBVIOUS
  <2>3. QED
    BY <1>1, <2>1, <2>2
<1>10. ASSUME NEW k \in 1 .. N
       PROVE  f[k] = joined(f[k - 1], tickets[i + k])
  <2>1. F[1 .. k] = joined(F[1 .. k - 1], younger[k])
    <3>1. 1 .. k \in SUBSET DOMAIN younger /\ 1 .. k # {} /\ Max(1 .. k) = k /\ (1 .. k) \ {k} = 1 .. k - 1
      <4> HIDE DEF N
      <4>1. QED
        BY <1>1, Prefix
    <3> HIDE DEF joined
    <3>2. QED
      BY <1>8, <3>1
  <2>2. f[k] = F[1 .. k] /\ f[k - 1] = F[1 .. k - 1]
    OBVIOUS
  <2> HIDE DEF f, joined
  <2>3. QED
    BY <1>1, <2>1, <2>2
<1>11. Fill(tickets, i, seated) = f[N]
  BY <1>1, <1>2
<1>12. QED
  <2> HIDE DEF f
  <2>1. QED
    BY <1>9, <1>10, <1>11 DEF FillsBy

\* A roster is one of players who fit each other, of the list and not seated before.
LEMMA FillIs ==
  ASSUME NEW tickets \in Lists, NEW i \in DOMAIN tickets, NEW seated, tickets[i].user \notin seated
  PROVE  /\ Fill(tickets, i, seated) \in Rosters
         /\ Users(Fill(tickets, i, seated)) \subseteq Users(tickets) \ seated
<1> DEFINE N == Len(tickets) - i
           users(k) == {tickets[j].user : j \in i .. i + k}
<1>1. /\ tickets \in Seq(Waiter) /\ N \in Nat /\ DOMAIN tickets = 1 .. i + N /\ i \in Nat \ {0}
      /\ \A k \in 0 .. N : tickets[i + k] \in Waiter
      /\ \A j, k \in 1 .. i + N : tickets[j].user = tickets[k].user => j = k
  <2>1. tickets \in Seq(Waiter) /\ Distinct(tickets)
    BY DEF Lists
  <2>7. Len(tickets) \in Nat /\ DOMAIN tickets = 1 .. Len(tickets)
    BY <2>1
  <2>2. N \in Nat /\ DOMAIN tickets = 1 .. i + N /\ i \in Nat \ {0}
    BY <2>7
  <2>3. \A j \in 1 .. i + N : tickets[j] \in Waiter
    BY <2>1, <2>2
  <2>4. \A k \in 0 .. N : tickets[i + k] \in Waiter
    BY <2>2, <2>3
  <2>5. \A j, k \in 1 .. i + N : tickets[j].user = tickets[k].user => j = k
    BY <2>1, <2>2 DEF Distinct
  <2>6. QED
    BY <2>1, <2>2, <2>4, <2>5
<1>9. PICK f : FillsBy(f, tickets, i, seated)
  BY <1>1, FillSteps
<1>2. /\ f[0] = <<tickets[i]>> /\ Fill(tickets, i, seated) = f[N]
      /\ \A k \in 1 .. N :
           f[k] = IF tickets[i + k].user \notin seated /\ MayJoin(f[k - 1], tickets[i + k])
                  THEN Append(f[k - 1], tickets[i + k]) ELSE f[k - 1]
  BY <1>9 DEF FillsBy
<1> DEFINE P == {k \in 0 .. N : f[k] \in Rosters /\ Users(f[k]) \subseteq users(k) \ seated}
<1>3. 0 \in P
  <2> DEFINE r == <<tickets[i]>>
  <2>1. r \in Seq(Waiter) /\ DOMAIN r = {1} /\ r[1] = tickets[i]
    BY <1>1
  <2> HIDE DEF r
  <2>2. r \in Rosters
    BY <2>1 DEF Rosters
  <2>3. Users(r) = {tickets[i].user}
    BY <2>1 DEF Users
  <2>4. users(0) = {tickets[i].user}
    BY <1>1
  <2>5. f[0] = r
    BY <1>2 DEF r
  <2>6. QED
    BY <1>1, <2>2, <2>3, <2>4, <2>5
<1>4. ASSUME NEW k \in 1 .. N, k - 1 \in P
      PROVE  k \in P
  <2> DEFINE r == f[k - 1]
             x == tickets[i + k]
  <2>1. r \in Rosters /\ Users(r) \subseteq users(k - 1) \ seated
    BY <1>4
  <2>2. x \in Waiter /\ x.user \in users(k) /\ users(k - 1) \subseteq users(k) /\ x.user \notin users(k - 1)
    <3>1. x \in Waiter
      BY <1>1
    <3>2. x.user \in users(k) /\ users(k - 1) \subseteq users(k)
      BY <1>1
    <3>3. x.user \notin users(k - 1)
      <4>1. \A j \in i .. i + (k - 1) : tickets[j].user # x.user
        BY <1>1
      <4>2. QED
        BY <4>1
    <3>4. QED
      BY <3>1, <3>2, <3>3
  <2> HIDE DEF users
  <2>3. CASE x.user \notin seated /\ MayJoin(r, x)
    <3>1. f[k] = Append(r, x)
      BY <1>2, <2>3
    <3>2. r \in Seq(Waiter) /\ \A m, n \in DOMAIN r : m < n => Fits(r[m], r[n])
      BY <2>1 DEF Rosters
    <3>3. /\ f[k] \in Seq(Waiter) /\ DOMAIN f[k] = 1 .. Len(r) + 1 /\ DOMAIN r = 1 .. Len(r) /\ Len(r) \in Nat
          /\ f[k][Len(r) + 1] = x /\ \A m \in 1 .. Len(r) : f[k][m] = r[m]
      <4> HIDE DEF r, x
      <4>1. QED
        BY <2>2, <3>1, <3>2
    <3>4. \A m \in DOMAIN r : Fits(r[m], x)
      <4>1. \A m \in DOMAIN r : Region[x.user] = Region[r[m].user] /\ Compatible(r[m], x)
        BY <2>3 DEF MayJoin
      <4>2. \A m \in DOMAIN r : r[m].user # x.user
        BY <2>1, <2>2 DEF Users
      <4> HIDE DEF r, x
      <4>3. QED
        BY <4>1, <4>2 DEF Fits
    <3> HIDE DEF r, x
    <3>5. f[k] \in Rosters
      <4>1. ASSUME NEW m \in DOMAIN f[k], NEW n \in DOMAIN f[k], m < n
            PROVE  Fits(f[k][m], f[k][n])
        BY <3>2, <3>3, <3>4, <4>1
      <4>2. QED
        BY <3>3, <4>1 DEF Rosters
    <3>6. Users(f[k]) = Users(r) \cup {x.user}
      BY <3>3 DEF Users
    <3>7. QED
      BY <2>1, <2>2, <2>3, <3>5, <3>6
  <2>4. CASE ~(x.user \notin seated /\ MayJoin(r, x))
    BY <1>2, <2>1, <2>2, <2>4
  <2>5. QED
    BY <2>3, <2>4
<1>5. P = 0 .. N
  <2>1. P \in SUBSET (0 .. N)
    OBVIOUS
  <2> HIDE DEF P, N
  <2>2. QED
    BY <1>1, <1>3, <1>4, <2>1, UpTo
<1>6. N \in P
  <2> HIDE DEF P, N
  <2>1. QED
    BY <1>1, <1>5
<1>7. users(N) \subseteq Users(tickets)
  BY <1>1 DEF Users
<1>8. QED
  BY <1>2, <1>6, <1>7

-----------------------------------------------------------------------------
(* The rosters formed *)

\* What is formed of the waiters from the i-th on, by what is formed of those after it.
Formed(tickets, i, seated, after) ==
  LET roster == Fill(tickets, i, seated)
  IN IF tickets[i].user \in seated \/ Len(roster) < Need THEN after[seated]
     ELSE <<roster>> \o after[seated \cup Users(roster)]

IsFormed(F, tickets) ==
  F = [i \in 1 .. Len(tickets) + 1 |-> [seated \in SUBSET Users(tickets) |->
         IF i > Len(tickets) THEN << >> ELSE Formed(tickets, i, seated, F[i + 1])]]

LEMMA FormMatchesIs == \A tickets : FormMatches(tickets) = (CHOOSE F : IsFormed(F, tickets))[1][{}]
  BY DEF FormMatches, IsFormed, Formed

LEMMA FormedExists == ASSUME NEW tickets \in Lists PROVE \E F : IsFormed(F, tickets)
<1> DEFINE N == Len(tickets)
           U == SUBSET Users(tickets)
           V == [U -> Seq(Rosters)]
           next(f, n) == [seated \in U |-> Formed(tickets, N + 1 - n, seated, f)]
           more == [x \in V \X (1 .. N) |-> next(x[1], x[2])]
           none == [seated \in U |-> << >>]
<1>1. N \in Nat /\ DOMAIN tickets = 1 .. N
  BY DEF Lists
<1>2. ASSUME NEW f \in V, NEW i \in 1 .. N, NEW seated \in U
      PROVE  Formed(tickets, i, seated, f) \in Seq(Rosters)
  <2> DEFINE roster == Fill(tickets, i, seated)
  <2>1. CASE tickets[i].user \in seated \/ Len(roster) < Need
    <3>1. f[seated] \in Seq(Rosters)
      OBVIOUS
    <3>2. QED
      BY <2>1, <3>1 DEF Formed
  <2>2. CASE ~(tickets[i].user \in seated \/ Len(roster) < Need)
    <3>1. roster \in Rosters /\ Users(roster) \subseteq Users(tickets)
      BY <1>1, <2>2, FillIs
    <3>2. f[seated \cup Users(roster)] \in Seq(Rosters)
      BY <3>1
    <3>3. Formed(tickets, i, seated, f) = <<roster>> \o f[seated \cup Users(roster)]
      BY <2>2 DEF Formed
    <3> HIDE DEF roster
    <3>4. QED
      BY <3>1, <3>2, <3>3
  <2>3. QED
    BY <2>1, <2>2
<1>3. PICK h : Follows(h, more, V, none, N)
  <2>1. \A f \in V, n \in 1 .. N : next(f, n) \in V
    <3>1. \A n \in 1 .. N : N + 1 - n \in 1 .. N
      BY <1>1
    <3> HIDE DEF N, U
    <3>2. QED
      BY <1>2, <3>1
  <2>2. none \in V
    OBVIOUS
  <2>3. IsStep(more, V, N)
    <3> HIDE DEF next, V, N
    <3>1. QED
      BY <2>1 DEF IsStep
  <2> HIDE DEF V, N, more, none
  <2>4. QED
    BY <1>1, <2>2, <2>3, RecursionExists
<1>4. h \in [0 .. N -> V] /\ h[0] = none /\ \A n \in 1 .. N : h[n] = next(h[n - 1], n)
  <2>1. h \in [0 .. N -> V] /\ h[0] = none /\ \A n \in 1 .. N : h[n] = more[<<h[n - 1], n>>]
    <3> HIDE DEF V, N, more, none
    <3>1. QED
      BY <1>3 DEF Follows
  <2>2. \A n \in 1 .. N : <<h[n - 1], n>> \in V \X (1 .. N)
    <3> HIDE DEF V
    <3>1. QED
      BY <1>1, <2>1
  <2> HIDE DEF V, N, next, none
  <2>3. \A n \in 1 .. N : h[n] = next(h[n - 1], n)
    BY <2>1, <2>2
  <2>4. QED
    BY <2>1, <2>3
<1> DEFINE F == [i \in 1 .. N + 1 |-> h[N + 1 - i]]
           G(i) == [seated \in U |-> IF i > N THEN << >> ELSE Formed(tickets, i, seated, F[i + 1])]
<1>5. ASSUME NEW i \in 1 .. N + 1
      PROVE  F[i] = G(i)
  <2>1. CASE i = N + 1
    <3>1. N + 1 - i = 0 /\ i > N
      BY <1>1, <2>1
    <3>2. F[i] = none
      BY <1>4, <3>1
    <3>3. G(i) = none
      BY <3>1
    <3>4. QED
      BY <3>2, <3>3
  <2>2. CASE i # N + 1
    <3> DEFINE n == N + 1 - i
    <3>1. n \in 1 .. N /\ i + 1 \in 1 .. N + 1 /\ N + 1 - (i + 1) = n - 1 /\ N + 1 - n = i /\ ~(i > N)
      BY <1>1, <2>2
    <3>2. F[i] = h[n] /\ F[i + 1] = h[n - 1]
      BY <3>1
    <3>3. h[n] = next(h[n - 1], n)
      <4> HIDE DEF next, n
      <4>1. QED
        BY <1>4, <3>1
    <3>4. next(h[n - 1], n) = [seated \in U |-> Formed(tickets, i, seated, h[n - 1])]
      <4> HIDE DEF n
      <4>1. QED
        BY <3>1
    <3>5. G(i) = [seated \in U |-> Formed(tickets, i, seated, h[n - 1])]
      <4> HIDE DEF F, n
      <4>1. QED
        BY <3>1, <3>2
    <3> HIDE DEF F, G, next, n
    <3>6. QED
      BY <3>2, <3>3, <3>4, <3>5
  <2>3. QED
    BY <2>1, <2>2
<1>6. F = [i \in 1 .. N + 1 |-> G(i)]
  <2>1. F = [i \in 1 .. N + 1 |-> F[i]]
    OBVIOUS
  <2> HIDE DEF F, G
  <2>2. QED
    BY <1>5, <2>1
<1>7. IsFormed(F, tickets)
  <2> HIDE DEF F
  <2>1. QED
    BY <1>6 DEF IsFormed
<1>8. QED
  BY <1>7

\* What is formed of a list, beside who is seated already.
WellFormed(rosters, tickets, seated) ==
  /\ rosters \in Seq(Rosters)
  /\ Seated(rosters) \subseteq Users(tickets) \ seated
  /\ \A i, j \in DOMAIN rosters : i # j => Users(rosters[i]) \cap Users(rosters[j]) = {}

LEMMA FormedIs ==
  ASSUME NEW tickets \in Lists, NEW i \in DOMAIN tickets, NEW seated \in SUBSET Users(tickets), NEW after,
         \A s \in SUBSET Users(tickets) : WellFormed(after[s], tickets, s)
  PROVE  WellFormed(Formed(tickets, i, seated, after), tickets, seated)
<1> DEFINE roster == Fill(tickets, i, seated)
           rest == after[seated \cup Users(roster)]
<1>1. CASE tickets[i].user \in seated \/ Len(roster) < Need
  BY <1>1 DEF Formed
<1>2. CASE ~(tickets[i].user \in seated \/ Len(roster) < Need)
  <2>1. roster \in Rosters /\ Users(roster) \subseteq Users(tickets) \ seated
    BY <1>2, FillIs
  <2>2. WellFormed(rest, tickets, seated \cup Users(roster))
    BY <2>1
  <2>3. Formed(tickets, i, seated, after) = <<roster>> \o rest
    BY <1>2 DEF Formed
  <2> DEFINE all == <<roster>> \o rest
  <2> HIDE DEF roster, rest
  <2>4. rest \in Seq(Rosters)
    BY <2>2 DEF WellFormed
  <2>5. /\ all \in Seq(Rosters) /\ DOMAIN all = 1 .. Len(rest) + 1 /\ DOMAIN rest = 1 .. Len(rest) /\ Len(rest) \in Nat
        /\ all[1] = roster /\ \A k \in 1 .. Len(rest) : all[k + 1] = rest[k]
    BY <2>1, <2>4
  <2> HIDE DEF all
  <2>6. \A k \in DOMAIN all : k = 1 \/ (k - 1 \in DOMAIN rest /\ all[k] = rest[k - 1])
    <3>1. ASSUME NEW k \in DOMAIN all, k # 1
          PROVE  k - 1 \in DOMAIN rest /\ all[k] = rest[k - 1]
      <4>1. k - 1 \in 1 .. Len(rest) /\ (k - 1) + 1 = k
        BY <2>5, <3>1
      <4>2. QED
        BY <2>5, <4>1
    <3>2. QED
      BY <3>1
  <2>7. Seated(rest) \subseteq Users(tickets) \ (seated \cup Users(roster))
    BY <2>2 DEF WellFormed
  <2>8. \A k \in DOMAIN rest : Users(rest[k]) \cap Users(roster) = {}
    BY <2>7 DEF Seated
  <2>9. Seated(all) \subseteq Users(tickets) \ seated
    <3>1. ASSUME NEW k \in DOMAIN all
          PROVE  Users(all[k]) \subseteq Users(tickets) \ seated
      <4>1. CASE k = 1
        BY <2>1, <2>5, <4>1
      <4>2. CASE k # 1
        BY <2>6, <2>7, <4>2 DEF Seated
      <4>3. QED
        BY <4>1, <4>2
    <3>2. QED
      BY <3>1 DEF Seated
  <2>10. ASSUME NEW k \in DOMAIN all, NEW m \in DOMAIN all, k # m
         PROVE  Users(all[k]) \cap Users(all[m]) = {}
    <3>1. CASE k # 1 /\ m # 1
      <4>1. k - 1 \in DOMAIN rest /\ m - 1 \in DOMAIN rest /\ all[k] = rest[k - 1] /\ all[m] = rest[m - 1]
        BY <2>6, <3>1
      <4>2. k - 1 # m - 1
        BY <2>5, <2>10
      <4>3. QED
        BY <2>2, <4>1, <4>2 DEF WellFormed
    <3>2. CASE k = 1
      BY <2>5, <2>6, <2>8, <2>10, <3>2
    <3>3. CASE m = 1
      BY <2>5, <2>6, <2>8, <2>10, <3>3
    <3>4. QED
      BY <3>1, <3>2, <3>3
  <2>11. QED
    BY <2>3, <2>5, <2>9, <2>10 DEF WellFormed, all
<1>3. QED
  BY <1>1, <1>2

\* The rosters formed of a list are of its players, and no player is in two.
LEMMA FormMatchesFits ==
  ASSUME NEW tickets \in Lists
  PROVE  WellFormed(FormMatches(tickets), tickets, {})
<1> DEFINE N == Len(tickets)
           U == SUBSET Users(tickets)
           F == CHOOSE G : IsFormed(G, tickets)
<1>1. N \in Nat /\ DOMAIN tickets = 1 .. N
  BY DEF Lists
<1>2. FormMatches(tickets) = F[1][{}]
  BY FormMatchesIs
<1>3. IsFormed(F, tickets)
  BY FormedExists
<1> HIDE DEF F
<1>4. \A i \in 1 .. N + 1 :
        F[i] = [seated \in U |-> IF i > N THEN << >> ELSE Formed(tickets, i, seated, F[i + 1])]
  BY <1>3 DEF IsFormed
<1> DEFINE P == {n \in 0 .. N : \A s \in U : WellFormed(F[N + 1 - n][s], tickets, s)}
<1>5. 0 \in P
  <2>1. ASSUME NEW s \in U
        PROVE  WellFormed(F[N + 1 - 0][s], tickets, s)
    <3>1. F[N + 1 - 0][s] = << >>
      <4> HIDE DEF U
      <4>1. N + 1 \in 1 .. N + 1 /\ N + 1 > N /\ N + 1 - 0 = N + 1
        BY <1>1
      <4> HIDE DEF N
      <4>2. QED
        BY <1>4, <4>1
    <3>2. WellFormed(<< >>, tickets, s)
      BY DEF WellFormed, Seated
    <3>3. QED
      BY <3>1, <3>2
  <2>2. QED
    BY <1>1, <2>1
<1>6. ASSUME NEW n \in 1 .. N, n - 1 \in P
      PROVE  n \in P
  <2> DEFINE i == N + 1 - n
  <2>1. i \in 1 .. N /\ ~(i > N) /\ N + 1 - (n - 1) = i + 1 /\ i \in 1 .. N + 1
    BY <1>1
  <2>2. \A s \in U : WellFormed(F[i + 1][s], tickets, s)
    BY <1>6, <2>1
  <2>3. ASSUME NEW s \in U
        PROVE  WellFormed(F[i][s], tickets, s)
    <3>1. F[i][s] = Formed(tickets, i, s, F[i + 1])
      <4> HIDE DEF i, N, U
      <4>1. QED
        BY <1>4, <2>1
    <3>2. i \in DOMAIN tickets
      BY <1>1, <2>1
    <3> HIDE DEF i
    <3>3. WellFormed(Formed(tickets, i, s, F[i + 1]), tickets, s)
      BY <2>2, <3>2, FormedIs
    <3>4. QED
      BY <3>1, <3>3
  <2>4. QED
    BY <2>3
<1>7. P = 0 .. N
  <2>1. P \in SUBSET (0 .. N)
    OBVIOUS
  <2> HIDE DEF P, N
  <2>2. QED
    BY <1>1, <1>5, <1>6, <2>1, UpTo
<1>8. N \in P
  <2> HIDE DEF P, N
  <2>1. QED
    BY <1>1, <1>7
<1>9. N + 1 - N = 1 /\ {} \in U
  BY <1>1
<1>10. QED
  <2>1. WellFormed(F[N + 1 - N][{}], tickets, {})
    BY <1>8, <1>9
  <2>2. QED
    BY <1>2, <1>9, <2>1

-----------------------------------------------------------------------------
(* The plan of a pairing *)

LEMMA UsersJoin ==
  ASSUME NEW s \in Seq(Waiter), NEW t \in Seq(Waiter)
  PROVE  s \o t \in Seq(Waiter) /\ Users(s \o t) = Users(s) \cup Users(t)
<1> DEFINE u == s \o t
<1>1. /\ Len(s) \in Nat /\ Len(t) \in Nat /\ DOMAIN s = 1 .. Len(s) /\ DOMAIN t = 1 .. Len(t)
      /\ u \in Seq(Waiter) /\ DOMAIN u = 1 .. Len(s) + Len(t)
      /\ \A i \in 1 .. Len(s) : u[i] = s[i]
      /\ \A i \in 1 .. Len(t) : u[Len(s) + i] = t[i]
  OBVIOUS
<1> HIDE DEF u
<1>2. ASSUME NEW i \in DOMAIN u
      PROVE  u[i].user \in Users(s) \cup Users(t)
  <2>1. CASE i \in DOMAIN s
    BY <1>1, <2>1 DEF Users
  <2>2. CASE i \notin DOMAIN s
    <3>1. i - Len(s) \in 1 .. Len(t) /\ Len(s) + (i - Len(s)) = i
      BY <1>1, <2>2
    <3>2. u[i] = t[i - Len(s)]
      BY <1>1, <3>1
    <3>3. QED
      BY <1>1, <3>1, <3>2 DEF Users
  <2>3. QED
    BY <2>1, <2>2
<1>3. \A i \in DOMAIN s : s[i].user \in Users(u)
  BY <1>1 DEF Users
<1>4. ASSUME NEW i \in DOMAIN t
      PROVE  t[i].user \in Users(u)
  <2>1. Len(s) + i \in DOMAIN u /\ u[Len(s) + i] = t[i]
    BY <1>1
  <2>2. QED
    BY <2>1 DEF Users
<1>5. Users(u) = Users(s) \cup Users(t)
  BY <1>2, <1>3, <1>4 DEF Users
<1>6. QED
  BY <1>1, <1>5 DEF u

IsFlat(F, rosters) ==
  F = [i \in 1 .. Len(rosters) |-> IF i = 1 THEN rosters[i] ELSE F[i - 1] \o rosters[i]]

LEMMA FlatExists == ASSUME NEW rosters \in Seq(Rosters) PROVE \E F : IsFlat(F, rosters)
<1> DEFINE N == Len(rosters)
           V == Seq(Waiter)
           more == [x \in V \X (1 .. N) |-> IF x[2] = 1 THEN rosters[x[2]] ELSE x[1] \o rosters[x[2]]]
<1>1. N \in Nat /\ \A i \in 1 .. N : rosters[i] \in V
  BY DEF Rosters
<1>2. PICK h : Follows(h, more, V, << >>, N)
  <2>1. IsStep(more, V, N)
    <3> HIDE DEF N
    <3>1. more \in [V \X (1 .. N) -> V]
      BY <1>1
    <3> HIDE DEF more, V
    <3>2. QED
      BY <3>1 DEF IsStep
  <2>2. << >> \in V
    OBVIOUS
  <2> HIDE DEF V, N, more
  <2>3. QED
    BY <1>1, <2>1, <2>2, RecursionExists
<1>3. /\ h \in [0 .. N -> V]
      /\ \A n \in 1 .. N : h[n] = IF n = 1 THEN rosters[n] ELSE h[n - 1] \o rosters[n]
  <2>1. h \in [0 .. N -> V] /\ \A n \in 1 .. N : h[n] = more[<<h[n - 1], n>>]
    <3> HIDE DEF V, N, more
    <3>1. QED
      BY <1>2 DEF Follows
  <2>2. \A n \in 1 .. N : <<h[n - 1], n>> \in V \X (1 .. N)
    <3> HIDE DEF V
    <3>1. QED
      BY <1>1, <2>1
  <2> HIDE DEF V, N
  <2>3. QED
    BY <2>1, <2>2
<1> DEFINE F == [i \in 1 .. N |-> h[i]]
<1>4. \A i \in 1 .. N : F[i] = IF i = 1 THEN rosters[i] ELSE F[i - 1] \o rosters[i]
  <2> HIDE DEF N
  <2>1. \A i \in 1 .. N : i = 1 \/ i - 1 \in 1 .. N
    BY <1>1
  <2>2. QED
    BY <1>3, <2>1
<1>5. F = [i \in 1 .. N |-> F[i]]
  OBVIOUS
<1> HIDE DEF F
<1>6. IsFlat(F, rosters)
  BY <1>4, <1>5 DEF IsFlat
<1>7. QED
  BY <1>6

\* The players of the rosters put end to end are those seated.
LEMMA FlattenIs ==
  ASSUME NEW rosters \in Seq(Rosters)
  PROVE  FlattenSeq(rosters) \in Seq(Waiter) /\ Users(FlattenSeq(rosters)) = Seated(rosters)
<1> DEFINE N == Len(rosters)
           F == CHOOSE G : IsFlat(G, rosters)
           users(k) == UNION {Users(rosters[j]) : j \in 1 .. k}
<1>1. N \in Nat /\ DOMAIN rosters = 1 .. N /\ \A i \in 1 .. N : rosters[i] \in Seq(Waiter)
  BY DEF Rosters
<1>2. FlattenSeq(rosters) = IF N = 0 THEN rosters ELSE F[N]
  BY DEF FlattenSeq, IsFlat
<1>3. IsFlat(F, rosters)
  BY FlatExists
<1> HIDE DEF F
<1>4. \A i \in 1 .. N : F[i] = IF i = 1 THEN rosters[i] ELSE F[i - 1] \o rosters[i]
  BY <1>3 DEF IsFlat
<1> HIDE DEF N
<1> DEFINE P == {k \in 0 .. N : k = 0 \/ (F[k] \in Seq(Waiter) /\ Users(F[k]) = users(k))}
<1>5. 0 \in P
  BY <1>1
<1>6. ASSUME NEW k \in 1 .. N, k - 1 \in P
      PROVE  k \in P
  <2>1. users(k) = users(k - 1) \cup Users(rosters[k])
    <3>1. 1 .. k = (1 .. k - 1) \cup {k}
      BY <1>1
    <3>2. QED
      BY <3>1
  <2>2. CASE k = 1
    <3>1. users(0) = {}
      OBVIOUS
    <3>2. F[k] = rosters[k]
      BY <1>4, <2>2
    <3>3. Users(F[k]) = users(k)
      BY <2>1, <2>2, <3>1, <3>2
    <3>4. QED
      BY <1>1, <3>2, <3>3
  <2>3. CASE k # 1
    <3>1. F[k - 1] \in Seq(Waiter) /\ Users(F[k - 1]) = users(k - 1)
      BY <1>1, <1>6, <2>3
    <3>2. F[k] = F[k - 1] \o rosters[k] /\ rosters[k] \in Seq(Waiter)
      BY <1>1, <1>4, <2>3
    <3>3. F[k] \in Seq(Waiter) /\ Users(F[k]) = Users(F[k - 1]) \cup Users(rosters[k])
      <4> HIDE DEF users
      <4>1. QED
        BY <3>1, <3>2, UsersJoin
    <3>4. Users(F[k]) = users(k)
      <4> HIDE DEF users
      <4>1. QED
        BY <2>1, <3>1, <3>3
    <3>5. QED
      BY <1>1, <3>3, <3>4
  <2>4. QED
    BY <2>2, <2>3
<1>7. P = 0 .. N
  <2>1. P \in SUBSET (0 .. N)
    OBVIOUS
  <2> HIDE DEF P
  <2>2. QED
    BY <1>1, <1>5, <1>6, <2>1, UpTo
<1>8. CASE N = 0
  <2>1. rosters = << >>
    BY <1>1, <1>8, EmptySeq DEF N
  <2>2. Users(<< >>) = {} /\ Seated(<< >>) = {}
    BY DEF Users, Seated
  <2>3. QED
    BY <1>2, <1>8, <2>1, <2>2
<1>9. CASE N # 0
  <2>1. N \in P
    <3> HIDE DEF P
    <3>1. QED
      BY <1>1, <1>7
  <2>2. F[N] \in Seq(Waiter) /\ Users(F[N]) = users(N)
    BY <1>9, <2>1
  <2>3. users(N) = Seated(rosters)
    BY <1>1 DEF Seated
  <2>4. QED
    BY <1>2, <1>9, <2>2, <2>3
<1>10. QED
  BY <1>8, <1>9

\* A plan part by part: mints, records, the waiting list, and what keeps nothing of the queue.
IsPlan(todo, rosters, flat, left) ==
  /\ todo \in Seq(Writes) /\ Len(todo) > Len(rosters) + Len(flat)
  /\ \A i \in 1 .. Len(rosters) : todo[i] = [do |-> "mint", roster |-> rosters[i]]
  /\ \A i \in 1 .. Len(flat) : todo[Len(rosters) + i] = [do |-> "match", user |-> flat[i].user]
  /\ todo[Len(rosters) + Len(flat) + 1] = Waiting(left)
  /\ \A i \in DOMAIN todo : i > Len(rosters) + Len(flat) + 1 => todo[i].do \in {"notify", "arm", "disarm"}

LEMMA PairIs ==
  ASSUME NEW tickets \in Lists
  PROVE  LET rosters == FormMatches(tickets)
         IN IsPlan(Pair(tickets), rosters, FlattenSeq(rosters), Without(tickets, Seated(rosters)))
<1> DEFINE rosters == FormMatches(tickets)
           flat == FlattenSeq(rosters)
           left == Without(tickets, Seated(rosters))
           R == Len(rosters)
           M == Len(flat)
           mints == [i \in DOMAIN rosters |-> [do |-> "mint", roster |-> rosters[i]]]
           records == Recorded(flat)
           last == (IF rosters = << >> THEN << >> ELSE <<[do |-> "notify"]>>) \o Reconcile(left)
<1>1. rosters \in Seq(Rosters)
  BY FormMatchesFits DEF WellFormed
<1>2. flat \in Seq(Waiter)
  BY <1>1, FlattenIs
<1>3. left \in Lists
  BY WithoutIs
<1>4. Pair(tickets) = mints \o records \o <<Waiting(left)>> \o
                        (IF rosters = << >> THEN << >> ELSE <<[do |-> "notify"]>>) \o Reconcile(left)
  BY DEF Pair
<1> HIDE DEF rosters, flat, left
<1>5. R \in Nat /\ DOMAIN rosters = 1 .. R /\ \A i \in 1 .. R : rosters[i] \in Rosters
  BY <1>1
<1>6. M \in Nat /\ DOMAIN flat = 1 .. M /\ \A i \in 1 .. M : flat[i] \in Waiter
  BY <1>2
<1>7. mints \in Seq(Writes) /\ Len(mints) = R /\ \A i \in 1 .. R : mints[i] = [do |-> "mint", roster |-> rosters[i]]
  <2> HIDE DEF R
  <2>1. \A i \in 1 .. R : [do |-> "mint", roster |-> rosters[i]] \in Writes
    BY <1>5 DEF Writes
  <2>2. mints = [i \in 1 .. R |-> [do |-> "mint", roster |-> rosters[i]]]
    BY <1>5
  <2>3. mints \in [1 .. R -> Writes]
    BY <2>1, <2>2
  <2>4. mints \in Seq(Writes)
    BY <1>5, <2>3
  <2>5. Len(mints) = R
    BY <1>5, <2>2, <2>4
  <2>6. QED
    BY <2>2, <2>4, <2>5
<1>8. records \in Seq(Writes) /\ Len(records) = M /\ \A i \in 1 .. M : records[i] = [do |-> "match", user |-> flat[i].user]
  <2> HIDE DEF M
  <2>1. \A i \in 1 .. M : [do |-> "match", user |-> flat[i].user] \in Writes
    BY <1>6 DEF Writes, Waiter
  <2>2. records = [i \in 1 .. M |-> [do |-> "match", user |-> flat[i].user]]
    BY <1>6 DEF Recorded
  <2> HIDE DEF records
  <2>3. records \in [1 .. M -> Writes]
    BY <2>1, <2>2
  <2>4. records \in Seq(Writes)
    BY <1>6, <2>3
  <2>5. Len(records) = M
    BY <1>6, <2>2, <2>4
  <2>6. QED
    BY <2>2, <2>4, <2>5
<1>9. Waiting(left) \in Writes
  BY <1>3 DEF Writes, Waiting
<1>10. [do |-> "notify"] \in Writes /\ [do |-> "arm"] \in Writes /\ [do |-> "disarm"] \in Writes
  BY DEF Writes
<1>11. last \in Seq(Writes) /\ \A i \in DOMAIN last : last[i].do \in {"notify", "arm", "disarm"}
  <2> DEFINE a == IF rosters = << >> THEN << >> ELSE <<[do |-> "notify"]>>
             b == Reconcile(left)
  <2>1. a \in Seq(Writes) /\ \A i \in DOMAIN a : a[i].do \in {"notify", "arm", "disarm"}
    <3>1. CASE rosters = << >>
      BY <3>1
    <3>2. CASE rosters # << >>
      BY <1>10, <3>2
    <3>3. QED
      BY <3>1, <3>2
  <2>2. b \in Seq(Writes) /\ \A i \in DOMAIN b : b[i].do \in {"notify", "arm", "disarm"}
    BY <1>10 DEF Reconcile
  <2> HIDE DEF a, b
  <2>3. a \o b \in Seq(Writes)
    BY <2>1, <2>2
  <2>4. ASSUME NEW i \in DOMAIN (a \o b)
        PROVE  (a \o b)[i].do \in {"notify", "arm", "disarm"}
    <3>1. CASE i \in DOMAIN a
      BY <2>1, <2>2, <3>1
    <3>2. CASE i \notin DOMAIN a
      <4>1. i - Len(a) \in DOMAIN b /\ (a \o b)[i] = b[i - Len(a)]
        BY <2>1, <2>2, <3>2
      <4>2. QED
        BY <2>2, <4>1
    <3>3. QED
      BY <3>1, <3>2
  <2>5. QED
    BY <2>3, <2>4 DEF a, b
<1> DEFINE todo == mints \o records \o <<Waiting(left)>> \o last
<1>12. Pair(tickets) = todo
  <2> DEFINE a == IF rosters = << >> THEN << >> ELSE <<[do |-> "notify"]>>
             b == Reconcile(left)
             c == mints \o records \o <<Waiting(left)>>
  <2>1. c \in Seq(Writes) /\ a \in Seq(Writes) /\ b \in Seq(Writes)
    <3>1. a \in Seq(Writes)
      BY <1>10
    <3>2. b \in Seq(Writes)
      BY <1>10 DEF Reconcile
    <3> HIDE DEF mints, records
    <3>3. c \in Seq(Writes)
      BY <1>7, <1>8, <1>9
    <3>4. QED
      BY <3>1, <3>2, <3>3
  <2>2. Pair(tickets) = (c \o a) \o b
    BY <1>4
  <2>3. todo = c \o (a \o b)
    OBVIOUS
  <2> HIDE DEF a, b, c, todo
  <2>4. QED
    BY <2>1, <2>2, <2>3, ConcatAssociative
<1> HIDE DEF mints, records, last
<1>13. todo \in Seq(Writes) /\ Len(todo) = R + M + 1 + Len(last)
  <2> DEFINE c == mints \o records
             d == c \o <<Waiting(left)>>
  <2>1. c \in Seq(Writes) /\ Len(c) = R + M
    BY <1>5, <1>6, <1>7, <1>8
  <2> HIDE DEF c
  <2>2. d \in Seq(Writes) /\ Len(d) = R + M + 1
    <3> HIDE DEF R, M
    <3>1. QED
      BY <1>5, <1>6, <1>9, <2>1
  <2> HIDE DEF d
  <2>3. d \o last \in Seq(Writes) /\ Len(d \o last) = R + M + 1 + Len(last)
    BY <1>11, <2>2
  <2>4. todo = d \o last
    BY DEF d, c
  <2>5. QED
    BY <2>3, <2>4
<1>14. /\ \A i \in 1 .. R : todo[i] = mints[i]
       /\ \A i \in 1 .. M : todo[R + i] = records[i]
       /\ todo[R + M + 1] = Waiting(left)
       /\ \A i \in 1 .. Len(last) : todo[R + M + 1 + i] = last[i]
  <2> DEFINE c == mints \o records
             d == c \o <<Waiting(left)>>
  <2>1. /\ c \in Seq(Writes) /\ Len(c) = R + M
        /\ \A i \in 1 .. R : c[i] = mints[i]
        /\ \A i \in 1 .. M : c[R + i] = records[i]
    BY <1>5, <1>6, <1>7, <1>8
  <2> HIDE DEF c, R, M
  <2>2. /\ d \in Seq(Writes) /\ Len(d) = R + M + 1
        /\ \A i \in 1 .. R + M : d[i] = c[i]
        /\ d[R + M + 1] = Waiting(left)
    BY <1>5, <1>6, <1>9, <2>1
  <2> HIDE DEF d
  <2>3. /\ \A i \in 1 .. R + M + 1 : (d \o last)[i] = d[i]
        /\ \A i \in 1 .. Len(last) : (d \o last)[R + M + 1 + i] = last[i]
    BY <1>5, <1>6, <1>11, <2>2
  <2>4. todo = d \o last
    BY DEF d, c
  <2> HIDE DEF todo
  <2>5. \A i \in 1 .. R : i \in 1 .. R + M /\ i \in 1 .. R + M + 1
    BY <1>5, <1>6
  <2>6. \A i \in 1 .. M : R + i \in 1 .. R + M /\ R + i \in 1 .. R + M + 1
    BY <1>5, <1>6
  <2>7. R + M + 1 \in 1 .. R + M + 1
    BY <1>5, <1>6
  <2>8. \A i \in 1 .. R : todo[i] = mints[i]
    BY <2>1, <2>2, <2>3, <2>4, <2>5
  <2>9. \A i \in 1 .. M : todo[R + i] = records[i]
    BY <2>1, <2>2, <2>3, <2>4, <2>6
  <2>10. QED
    BY <2>2, <2>3, <2>4, <2>7, <2>8, <2>9
<1> HIDE DEF todo
<1>15. ASSUME NEW i \in DOMAIN todo, i > R + M + 1
       PROVE  todo[i].do \in {"notify", "arm", "disarm"}
  <2>1. i - (R + M + 1) \in DOMAIN last /\ R + M + 1 + (i - (R + M + 1)) = i
    BY <1>5, <1>6, <1>11, <1>13, <1>15
  <2>2. todo[i] = last[i - (R + M + 1)]
    BY <1>11, <1>14, <2>1
  <2>3. QED
    BY <1>11, <2>1, <2>2
<1>16. Len(todo) > R + M
  BY <1>5, <1>6, <1>11, <1>13
<1>17. IsPlan(todo, rosters, flat, left)
  BY <1>7, <1>8, <1>13, <1>14, <1>15, <1>16 DEF IsPlan
<1>18. QED
  BY <1>12, <1>17 DEF rosters, flat, left

\* What a task that pairs a list has before it.
PlansPair(w, tickets) ==
  /\ w.todo \in Seq(Writes) /\ w.todo # << >> /\ Planned(w)
  /\ ToRecord(w) \subseteq Users(tickets)
  /\ \A i \in Doing(w, "waiting") : Users(w.todo[i].tickets) \subseteq Users(tickets)
  /\ Doing(w, "key") = {}

LEMMA PairPlans ==
  ASSUME NEW tickets \in Lists, NEW w, w.todo = Pair(tickets), w.op \notin Leaving
  PROVE  PlansPair(w, tickets)
<1> DEFINE rosters == FormMatches(tickets)
           flat == FlattenSeq(rosters)
           left == Without(tickets, Seated(rosters))
           R == Len(rosters)
           M == Len(flat)
           todo == w.todo
<1>1. IsPlan(todo, rosters, flat, left)
  BY PairIs
<1>2. WellFormed(rosters, tickets, {})
  BY FormMatchesFits
<1>3. rosters \in Seq(Rosters)
  BY <1>2 DEF WellFormed
<1>4. flat \in Seq(Waiter) /\ Users(flat) = Seated(rosters)
  BY <1>3, FlattenIs
<1>5. left \in Lists /\ Users(left) = Users(tickets) \ Seated(rosters)
  BY WithoutIs
<1> HIDE DEF rosters, flat, left
<1>6. R \in Nat /\ DOMAIN rosters = 1 .. R
  BY <1>3
<1>7. M \in Nat /\ DOMAIN flat = 1 .. M
  BY <1>4
<1>8. /\ todo \in Seq(Writes) /\ Len(todo) > R + M
      /\ \A i \in 1 .. R : todo[i] = [do |-> "mint", roster |-> rosters[i]]
      /\ \A i \in 1 .. M : todo[R + i] = [do |-> "match", user |-> flat[i].user]
      /\ todo[R + M + 1] = Waiting(left)
      /\ \A i \in DOMAIN todo : i > R + M + 1 => todo[i].do \in {"notify", "arm", "disarm"}
  BY <1>1 DEF IsPlan
<1>9. Len(todo) \in Nat /\ DOMAIN todo = 1 .. Len(todo) /\ todo # << >>
  <2>1. Len(todo) \in Nat /\ DOMAIN todo = 1 .. Len(todo)
    BY <1>8
  <2>2. Len(todo) # 0
    BY <1>6, <1>7, <1>8, <2>1
  <2>3. QED
    BY <2>1, <2>2
<1> HIDE DEF R, M, todo
<1>10. ASSUME NEW i \in DOMAIN todo
       PROVE  \/ i \in 1 .. R /\ todo[i].do = "mint" /\ todo[i].roster = rosters[i]
              \/ /\ i \in R + 1 .. R + M /\ i - R \in DOMAIN flat
                 /\ todo[i].do = "match" /\ todo[i].user = flat[i - R].user
              \/ i = R + M + 1 /\ todo[i].do = "waiting" /\ todo[i].tickets = left
              \/ i > R + M + 1 /\ todo[i].do \in {"notify", "arm", "disarm"}
  <2>1. CASE i \in 1 .. R
    <3>1. todo[i] = [do |-> "mint", roster |-> rosters[i]]
      BY <1>8, <2>1
    <3>2. QED
      BY <2>1, <3>1
  <2>2. CASE i \in R + 1 .. R + M
    <3>1. i - R \in 1 .. M /\ R + (i - R) = i
      BY <1>6, <1>7, <2>2
    <3>2. todo[i] = [do |-> "match", user |-> flat[i - R].user]
      BY <1>8, <3>1
    <3>3. QED
      BY <1>7, <2>2, <3>1, <3>2
  <2>3. CASE i = R + M + 1
    BY <1>8, <2>3 DEF Waiting
  <2>4. CASE i > R + M + 1
    BY <1>8, <2>4
  <2>5. i \in 1 .. R \/ i \in R + 1 .. R + M \/ i = R + M + 1 \/ i > R + M + 1
    BY <1>6, <1>7, <1>9
  <2>6. QED
    BY <2>1, <2>2, <2>3, <2>4, <2>5
<1>11. Doing(w, "mint") = 1 .. R /\ \A i \in 1 .. R : todo[i].roster = rosters[i]
  <2>1. \A i \in 1 .. R : i \in DOMAIN todo
    BY <1>6, <1>7, <1>8, <1>9
  <2>2. ASSUME NEW i \in 1 .. R
        PROVE  todo[i].do = "mint" /\ todo[i].roster = rosters[i]
    <3>1. todo[i] = [do |-> "mint", roster |-> rosters[i]]
      BY <1>8
    <3>2. QED
      BY <3>1
  <2>3. \A i \in DOMAIN todo : todo[i].do = "mint" => i \in 1 .. R
    BY <1>10
  <2>4. QED
    BY <2>1, <2>2, <2>3 DEF Doing, todo
<1>12. Doing(w, "match") = R + 1 .. R + M
  <2>1. \A i \in R + 1 .. R + M : i \in DOMAIN todo
    BY <1>6, <1>7, <1>8, <1>9
  <2>2. \A i \in R + 1 .. R + M : i \notin 1 .. R /\ i # R + M + 1 /\ ~(i > R + M + 1)
    BY <1>6, <1>7
  <2>3. QED
    BY <1>10, <2>1, <2>2 DEF Doing, todo
<1>13. Doing(w, "waiting") = {R + M + 1} /\ todo[R + M + 1].tickets = left
  <2>1. R + M + 1 \in DOMAIN todo
    BY <1>6, <1>7, <1>8, <1>9
  <2>2. todo[R + M + 1].do = "waiting" /\ todo[R + M + 1].tickets = left
    BY <1>8 DEF Waiting
  <2>3. QED
    BY <1>10, <2>1, <2>2 DEF Doing, todo
<1>14. Doing(w, "key") = {}
  BY <1>10 DEF Doing, todo
<1>15. ToRecord(w) = Seated(rosters)
  <2>1. \A i \in R + 1 .. R + M : i \in DOMAIN todo /\ i - R \in DOMAIN flat /\ todo[i].user = flat[i - R].user
    <3>1. \A i \in R + 1 .. R + M : i \in DOMAIN todo
      BY <1>12 DEF Doing, todo
    <3>2. \A i \in R + 1 .. R + M : i \notin 1 .. R /\ i # R + M + 1 /\ ~(i > R + M + 1)
      BY <1>6, <1>7
    <3>3. QED
      BY <1>10, <3>1, <3>2
  <2>2. \A j \in DOMAIN flat : R + j \in R + 1 .. R + M /\ todo[R + j].user = flat[j].user
    <3>1. \A j \in 1 .. M : R + j \in R + 1 .. R + M
      BY <1>6, <1>7
    <3>2. ASSUME NEW j \in 1 .. M
          PROVE  todo[R + j].user = flat[j].user
      <4>1. todo[R + j] = [do |-> "match", user |-> flat[j].user]
        BY <1>8
      <4>2. QED
        BY <4>1
    <3>3. QED
      BY <1>7, <3>1, <3>2
  <2>3. ToRecord(w) = {todo[i].user : i \in R + 1 .. R + M}
    BY <1>12 DEF ToRecord, todo
  <2>4. {todo[i].user : i \in R + 1 .. R + M} \subseteq Users(flat)
    BY <2>1 DEF Users
  <2>5. Users(flat) \subseteq {todo[i].user : i \in R + 1 .. R + M}
    BY <2>2 DEF Users
  <2>6. QED
    BY <1>4, <2>3, <2>4, <2>5
<1>16. ToMint(w) = Seated(rosters)
  <2>1. ToMint(w) = UNION {Users(todo[i].roster) : i \in 1 .. R}
    BY <1>11 DEF ToMint, todo
  <2>2. {Users(todo[i].roster) : i \in 1 .. R} = {Users(rosters[i]) : i \in 1 .. R}
    BY <1>11
  <2>3. QED
    BY <1>6, <2>1, <2>2 DEF Seated
<1>17. Planned(w)
  <2>1. \A i \in Doing(w, "mint"), j \in Doing(w, "match") : i < j
    BY <1>6, <1>7, <1>11, <1>12
  <2>2. \A i \in Doing(w, "match") : \E j \in Doing(w, "waiting") : i < j
    <3>1. \A i \in Doing(w, "match") : i < R + M + 1
      BY <1>6, <1>7, <1>12
    <3>2. QED
      BY <1>13, <3>1
  <2>3. \A i, j \in Doing(w, "mint") : i # j => Users(w.todo[i].roster) \cap Users(w.todo[j].roster) = {}
    BY <1>2, <1>6, <1>11 DEF WellFormed, todo
  <2>4. \A i \in Doing(w, "waiting") : Users(w.todo[i].tickets) \cap ToRecord(w) = {}
    BY <1>5, <1>13, <1>15 DEF todo
  <2>5. Doing(w, "key") # {} => w.op = "drop"
    BY <1>14
  <2>6. QED
    BY <1>15, <1>16, <2>1, <2>2, <2>3, <2>4, <2>5 DEF Planned
<1>18. Seated(rosters) \subseteq Users(tickets)
  BY <1>2 DEF WellFormed
<1>19. QED
  BY <1>5, <1>8, <1>9, <1>13, <1>14, <1>15, <1>17, <1>18 DEF PlansPair, todo

-----------------------------------------------------------------------------
(* Plans as they are carried out *)

LEMMA Idle ==
  /\ NoTask \in Tasks /\ Planned(NoTask) /\ ToRecord(NoTask) = {} /\ ToMint(NoTask) = {}
  /\ \A what : Doing(NoTask, what) = {}
  /\ NoTask.todo = << >> /\ \A p \in Player : NoTask.made[p] = NoSession
<1>1. NoTask.todo = << >>
  BY DEF NoTask
<1>2. \A what : Doing(NoTask, what) = {}
  BY <1>1 DEF Doing
<1>3. ToRecord(NoTask) = {} /\ ToMint(NoTask) = {}
  BY <1>2 DEF ToRecord, ToMint
<1>4. NoTask.op = "idle" /\ \A p \in Player : NoTask.made[p] = NoSession
  BY DEF NoTask
<1>5. Planned(NoTask)
  <2>1. NoTask.op \notin Leaving
    BY <1>4 DEF Leaving
  <2>2. QED
    BY <1>2, <1>3, <2>1 DEF Planned
<1>6. NoTask \in Tasks
  <2>1. << >> \in Seq(Writes)
    OBVIOUS
  <2>2. QED
    BY <2>1 DEF NoTask, Tasks, NoSession
<1>7. QED
  BY <1>1, <1>2, <1>3, <1>4, <1>5, <1>6

\* What is left of a plan once its first write is done.
Rest(v, w) ==
  /\ v.todo \in Seq(Writes) /\ Planned(v)
  /\ \A what : \A i \in Doing(v, what) : i + 1 \in Doing(w, what) /\ v.todo[i] = w.todo[i + 1]
  /\ \A what : \A i \in Doing(w, what) : i # 1 => i - 1 \in Doing(v, what)
  /\ ToRecord(v) \subseteq ToRecord(w) /\ ToMint(v) \subseteq ToMint(w)
  /\ w.todo[1].do = "match" => /\ ToRecord(w) = ToRecord(v) \cup {w.todo[1].user}
                               /\ ToMint(w) = {}
  /\ w.todo[1].do # "match" => ToRecord(v) = ToRecord(w)
  /\ w.todo[1].do = "mint" => /\ Users(w.todo[1].roster) \subseteq ToMint(w)
                              /\ Users(w.todo[1].roster) \cap ToMint(v) = {}

LEMMA RestOf ==
  ASSUME NEW w, w.todo \in Seq(Writes), w.todo # << >>, Planned(w),
         NEW v, v.todo = Tail(w.todo), (v.op = w.op /\ v.who = w.who) \/ (v.op = "idle" /\ v.todo = << >>)
  PROVE  Rest(v, w)
<1> DEFINE N == Len(w.todo)
           a == w.todo
           b == v.todo
<1>1. /\ N \in Nat \ {0} /\ DOMAIN a = 1 .. N
      /\ b \in Seq(Writes) /\ DOMAIN b = 1 .. N - 1 /\ \A i \in 1 .. N - 1 : b[i] = a[i + 1]
  <2>1. N \in Nat \ {0} /\ DOMAIN a = 1 .. N
    BY EmptySeq
  <2>2. b \in Seq(Writes) /\ DOMAIN b = 1 .. N - 1 /\ \A i \in 1 .. N - 1 : b[i] = a[i + 1]
    BY <2>1
  <2>3. QED
    BY <2>1, <2>2
<1> HIDE DEF a, b, N
<1>2. \A what : \A i \in Doing(v, what) : i + 1 \in Doing(w, what) /\ v.todo[i] = w.todo[i + 1] /\ i \in Nat
  BY <1>1 DEF Doing, a, b
<1>3. \A what : \A i \in Doing(w, what) : i # 1 => i - 1 \in Doing(v, what) /\ v.todo[i - 1] = w.todo[i]
  <2>1. ASSUME NEW what, NEW i \in Doing(w, what), i # 1
        PROVE  i - 1 \in Doing(v, what) /\ v.todo[i - 1] = w.todo[i]
    <3>1. i \in 1 .. N /\ a[i].do = what
      BY <1>1 DEF Doing, a
    <3>2. i - 1 \in 1 .. N - 1 /\ (i - 1) + 1 = i
      BY <1>1, <2>1, <3>1
    <3>3. b[i - 1] = a[i]
      BY <1>1, <3>2
    <3>4. QED
      BY <1>1, <3>1, <3>2, <3>3 DEF Doing, a, b
  <2>2. QED
    BY <2>1
<1>4. \A what : \A i \in Doing(w, what) : i \in Nat \ {0}
  BY <1>1 DEF Doing, a
<1>5. ToRecord(v) \subseteq ToRecord(w) /\ ToMint(v) \subseteq ToMint(w)
  BY <1>2 DEF ToRecord, ToMint
<1>6. 1 \in Doing(w, w.todo[1].do)
  BY <1>1 DEF Doing, a
<1>7. \A what : w.todo[1].do # what => 1 \notin Doing(w, what)
  BY DEF Doing
<1>8. ASSUME w.todo[1].do # "match"
      PROVE  ToRecord(v) = ToRecord(w)
  <2>1. \A i \in Doing(w, "match") : i # 1
    BY <1>7, <1>8
  <2>2. ToRecord(w) \subseteq ToRecord(v)
    BY <1>3, <2>1 DEF ToRecord
  <2>3. QED
    BY <1>5, <2>2
<1>9. ASSUME w.todo[1].do = "match"
      PROVE  ToRecord(w) = ToRecord(v) \cup {w.todo[1].user} /\ ToMint(w) = {}
  <2>1. 1 \in Doing(w, "match")
    BY <1>6, <1>9
  <2>2. w.todo[1].user \in ToRecord(w)
    BY <2>1 DEF ToRecord
  <2>3. ToRecord(w) \subseteq ToRecord(v) \cup {w.todo[1].user}
    BY <1>3 DEF ToRecord
  <2>4. Doing(w, "mint") = {}
    BY <1>4, <2>1 DEF Planned
  <2>5. QED
    BY <1>5, <2>2, <2>3, <2>4 DEF ToMint
<1>10. ASSUME w.todo[1].do = "mint"
       PROVE  Users(w.todo[1].roster) \subseteq ToMint(w) /\ Users(w.todo[1].roster) \cap ToMint(v) = {}
  <2>1. 1 \in Doing(w, "mint")
    BY <1>6, <1>10
  <2>2. ASSUME NEW i \in Doing(v, "mint")
        PROVE  Users(w.todo[1].roster) \cap Users(v.todo[i].roster) = {}
    <3>1. i + 1 \in Doing(w, "mint") /\ v.todo[i] = w.todo[i + 1] /\ i + 1 # 1
      <4>1. i + 1 \in Doing(w, "mint") /\ v.todo[i] = w.todo[i + 1] /\ i \in Nat
        BY <1>2
      <4>2. i \in 1 .. N - 1
        BY <1>1 DEF Doing, b
      <4>3. i + 1 # 1
        BY <1>1, <4>2
      <4>4. QED
        BY <4>1, <4>3
    <3>2. QED
      BY <2>1, <3>1 DEF Planned
  <2>3. QED
    BY <2>1, <2>2 DEF ToMint
<1>11. Planned(v)
  <2>1. \A i \in Doing(v, "mint"), j \in Doing(v, "match") : i < j
    <3>1. ASSUME NEW i \in Doing(v, "mint"), NEW j \in Doing(v, "match")
          PROVE  i < j
      <4>1. i + 1 \in Doing(w, "mint") /\ j + 1 \in Doing(w, "match") /\ i \in Nat /\ j \in Nat
        BY <1>2
      <4>2. i + 1 < j + 1
        BY <4>1 DEF Planned
      <4>3. QED
        BY <4>1, <4>2
    <3>2. QED
      BY <3>1
  <2>2. \A i \in Doing(v, "match") : \E j \in Doing(v, "waiting") : i < j
    <3>1. ASSUME NEW i \in Doing(v, "match")
          PROVE  \E j \in Doing(v, "waiting") : i < j
      <4>1. i + 1 \in Doing(w, "match") /\ i \in Nat
        BY <1>2
      <4>2. PICK j \in Doing(w, "waiting") : i + 1 < j
        BY <4>1 DEF Planned
      <4>3. j \in Nat /\ j # 1 /\ i < j - 1
        BY <1>4, <4>1, <4>2
      <4>4. j - 1 \in Doing(v, "waiting")
        BY <1>3, <4>3
      <4>5. QED
        BY <4>3, <4>4
    <3>2. QED
      BY <3>1
  <2>3. ToMint(v) \subseteq ToRecord(v)
    <3>1. CASE w.todo[1].do = "match"
      BY <1>5, <1>9, <3>1
    <3>2. CASE w.todo[1].do # "match"
      BY <1>5, <1>8, <3>2 DEF Planned
    <3>3. QED
      BY <3>1, <3>2
  <2>4. \A i, j \in Doing(v, "mint") : i # j => Users(v.todo[i].roster) \cap Users(v.todo[j].roster) = {}
    <3>1. ASSUME NEW i \in Doing(v, "mint"), NEW j \in Doing(v, "mint"), i # j
          PROVE  Users(v.todo[i].roster) \cap Users(v.todo[j].roster) = {}
      <4>1. /\ i + 1 \in Doing(w, "mint") /\ v.todo[i] = w.todo[i + 1] /\ i \in Nat
            /\ j + 1 \in Doing(w, "mint") /\ v.todo[j] = w.todo[j + 1] /\ j \in Nat
        BY <1>2
      <4>2. i + 1 # j + 1
        BY <3>1, <4>1
      <4>3. QED
        BY <4>1, <4>2 DEF Planned
    <3>2. QED
      BY <3>1
  <2>5. \A i \in Doing(v, "waiting") : Users(v.todo[i].tickets) \cap ToRecord(v) = {}
    BY <1>2, <1>5 DEF Planned
  <2>6. v.op \in Leaving => /\ Doing(v, "mint") = {}
                            /\ \A i \in Doing(v, "waiting") : v.who \notin Users(v.todo[i].tickets)
    <3>1. ASSUME v.op \in Leaving
          PROVE  w.op \in Leaving /\ v.who = w.who
      BY <3>1 DEF Leaving
    <3>2. QED
      BY <1>2, <3>1 DEF Planned
  <2>7. Doing(v, "key") # {} => v.op = "drop"
    <3>1. ASSUME Doing(v, "key") # {}
          PROVE  v.op = w.op
      <4>1. v.todo # << >>
        BY <3>1 DEF Doing
      <4>2. QED
        BY <4>1
    <3>2. QED
      BY <1>2, <3>1 DEF Planned
  <2>8. QED
    BY <2>1, <2>2, <2>3, <2>4, <2>5, <2>6, <2>7 DEF Planned
<1>12. QED
  BY <1>1, <1>2, <1>3, <1>5, <1>8, <1>9, <1>10, <1>11 DEF Rest, b

\* A task one write further, and every other task at rest.
Onward(t, v) ==
  /\ run[t] \in Tasks /\ run[t].todo # << >> /\ Planned(run[t]) /\ run[t].todo[1] \in Writes
  /\ run[t].made \in [Player -> 0 .. Len(minted)]
  /\ run' = [run EXCEPT ![t] = v] /\ v \in Tasks /\ Rest(v, run[t])
  /\ v.todo = << >> \/ (v.op = run[t].op /\ v.who = run[t].who /\ v.key = run[t].key)
  /\ v.todo = << >> \/ v.made = Made(run[t], run[t].todo[1])
  /\ v.made \in [Player -> 0 .. Len(minted')]
  /\ Perform(run[t], run[t].todo[1])
  /\ \A u \in Task : u # t => run[u] = NoTask

\* The sessions minted are kept; a mint appends its roster to them.
LEMMA Minting ==
  ASSUME Shape, NEW w, NEW step \in Writes, Perform(w, step)
  PROVE  /\ Len(minted) \in Nat /\ DOMAIN minted = 1 .. Len(minted)
         /\ minted' \in Seq(Rosters) /\ DOMAIN minted' = 1 .. Len(minted') /\ Len(minted') \in Nat
         /\ Len(minted) <= Len(minted') /\ \A s \in DOMAIN minted : minted'[s] = minted[s]
         /\ step.do # "mint" => minted' = minted
         /\ step.do = "mint" => /\ Len(minted') = Len(minted) + 1
                                /\ minted'[Len(minted) + 1] = step.roster
<1>1. minted \in Seq(Rosters)
  BY DEF Shape
<1>2. Len(minted) \in Nat /\ DOMAIN minted = 1 .. Len(minted)
  BY <1>1
<1>3. CASE step.do # "mint"
  <2>1. minted' = minted
    BY <1>3 DEF Perform
  <2>2. minted' \in Seq(Rosters) /\ DOMAIN minted' = 1 .. Len(minted') /\ Len(minted') \in Nat
    BY <1>1, <2>1
  <2>3. Len(minted) <= Len(minted') /\ \A s \in DOMAIN minted : minted'[s] = minted[s]
    BY <1>2, <2>1
  <2>4. QED
    BY <1>2, <1>3, <2>1, <2>2, <2>3
<1>4. CASE step.do = "mint"
  <2>1. minted' = Append(minted, step.roster)
    BY <1>4 DEF Perform
  <2>2. step.roster \in Rosters
    BY <1>4 DEF Writes
  <2>3. /\ minted' \in Seq(Rosters) /\ Len(minted') = Len(minted) + 1
        /\ minted'[Len(minted) + 1] = step.roster /\ \A s \in 1 .. Len(minted) : minted'[s] = minted[s]
    BY <1>1, <1>2, <2>1, <2>2
  <2>4. DOMAIN minted' = 1 .. Len(minted') /\ Len(minted') \in Nat
    BY <2>3
  <2>5. Len(minted) <= Len(minted') /\ \A s \in DOMAIN minted : minted'[s] = minted[s]
    BY <1>2, <2>3
  <2>6. QED
    BY <1>2, <1>4, <2>3, <2>4, <2>5
<1>5. QED
  BY <1>3, <1>4

LEMMA StepOnward ==
  ASSUME Inv, NEW t \in Task, Step(t)
  PROVE  \E v : Onward(t, v)
<1> DEFINE w == run[t]
           h == w.todo[1]
           v == IF Len(w.todo) = 1 THEN NoTask ELSE [w EXCEPT !.todo = Tail(@), !.made = Made(w, h)]
<1>1. w \in Tasks /\ w.todo \in Seq(Writes) /\ w.made \in [Player -> 0 .. Len(minted)]
  BY DEF Inv, Shape, Tasks
<1>2. w.todo # << >> /\ Head(w.todo) = h /\ Perform(w, h) /\ run' = [run EXCEPT ![t] = v]
  <2>1. /\ w.todo # << >> /\ Perform(w, Head(w.todo))
        /\ IF Len(w.todo) = 1 THEN run' = [run EXCEPT ![t] = NoTask]
           ELSE run' = [run EXCEPT ![t].todo = Tail(@), ![t].made = Made(w, Head(w.todo))]
    BY DEF Step
  <2>2. Head(w.todo) = h
    BY <1>1, <2>1
  <2>3. run \in [Task -> Tasks]
    BY DEF Inv, Shape
  <2>4. run' = [run EXCEPT ![t] = v]
    <3> HIDE DEF h
    <3>1. CASE Len(w.todo) = 1
      BY <2>1, <3>1
    <3>2. CASE Len(w.todo) # 1
      <4>1. run' = [run EXCEPT ![t].todo = Tail(@), ![t].made = Made(w, h)]
        BY <2>1, <2>2, <3>2
      <4>2. QED
        BY <1>1, <2>3, <3>2, <4>1 DEF Tasks
    <3>3. QED
      BY <3>1, <3>2
  <2>5. QED
    BY <2>1, <2>2, <2>4
<1>3. Planned(w)
  BY DEF Inv, Plans
<1>4. h \in Writes
  BY <1>1, <1>2
<1>5. \A u \in Task : u # t => run[u] = NoTask
  <2>1. w # NoTask
    BY <1>2, Idle
  <2>2. QED
    BY <2>1 DEF Inv, Serial
<1>6. Shape
  BY DEF Inv
<1>7. Made(w, h) \in [Player -> 0 .. Len(minted')]
  <2>1. /\ Len(minted) \in Nat /\ Len(minted') \in Nat /\ Len(minted) <= Len(minted')
        /\ h.do = "mint" => Len(minted') = Len(minted) + 1
    BY <1>2, <1>4, <1>6, Minting
  <2>2. CASE h.do = "mint"
    BY <1>1, <2>1, <2>2 DEF Made
  <2>3. CASE h.do # "mint"
    BY <1>1, <2>1, <2>3 DEF Made
  <2>4. QED
    BY <2>2, <2>3
<1>8. Len(minted') \in Nat
  BY <1>2, <1>4, <1>6, Minting
<1>9. CASE Len(w.todo) = 1
  <2>1. v = NoTask
    BY <1>9
  <2>2. v \in Tasks /\ v.todo = << >> /\ v.op = "idle"
    BY <2>1, Idle DEF NoTask
  <2>3. Tail(w.todo) = << >>
    <3>1. Tail(w.todo) \in Seq(Writes) /\ Len(Tail(w.todo)) = 0
      BY <1>1, <1>2, <1>9
    <3>2. QED
      BY <3>1, EmptySeq
  <2>4. Rest(v, w)
    <3> HIDE DEF v, w
    <3>1. QED
      BY <1>1, <1>2, <1>3, <2>2, <2>3, RestOf
  <2>5. v.made \in [Player -> 0 .. Len(minted')]
    <3>1. 0 \in 0 .. Len(minted')
      BY <1>8
    <3> HIDE DEF v
    <3>2. QED
      BY <2>1, <3>1 DEF NoTask, NoSession
  <2>6. QED
    <3> HIDE DEF v
    <3>1. QED
      BY <1>1, <1>2, <1>3, <1>4, <1>5, <2>2, <2>4, <2>5 DEF Onward
<1>10. CASE Len(w.todo) # 1
  <2>1. v = [w EXCEPT !.todo = Tail(@), !.made = Made(w, h)]
    BY <1>10
  <2>2. Tail(w.todo) \in Seq(Writes)
    BY <1>1, <1>2
  <2>3. Made(w, h) \in [Player -> Nat]
    BY <1>7, <1>8
  <2> HIDE DEF v, h
  <2>4. /\ v \in Tasks /\ v.todo = Tail(w.todo) /\ v.made = Made(w, h)
        /\ v.op = w.op /\ v.who = w.who /\ v.key = w.key
    BY <1>1, <2>1, <2>2, <2>3 DEF Tasks
  <2>5. Rest(v, w)
    <3> HIDE DEF w
    <3>1. QED
      BY <1>1, <1>2, <1>3, <2>4, RestOf
  <2>6. QED
    BY <1>1, <1>2, <1>3, <1>4, <1>5, <1>7, <2>4, <2>5 DEF Onward, h
<1>11. QED
  BY <1>9, <1>10

\* What Onward says of every task.
LEMMA OthersIdle ==
  ASSUME Shape, NEW t \in Task, NEW v, Onward(t, v)
  PROVE  run'[t] = v /\ \A u \in Task : u # t => run[u] = NoTask /\ run'[u] = NoTask
<1>1. run' = [run EXCEPT ![t] = v] /\ \A u \in Task : u # t => run[u] = NoTask
  BY DEF Onward
<1>2. run \in [Task -> Tasks]
  BY DEF Shape
<1>3. QED
  BY <1>1, <1>2

LEMMA StepShape ==
  ASSUME Shape, NEW t \in Task, NEW v, Onward(t, v), faults' = faults
  PROVE  Shape'
<1> DEFINE w == run[t]
           h == w.todo[1]
<1>1. /\ w \in Tasks /\ h \in Writes /\ Perform(w, h) /\ v \in Tasks /\ run' = [run EXCEPT ![t] = v]
      /\ w.made \in [Player -> 0 .. Len(minted)] /\ v.made \in [Player -> 0 .. Len(minted')]
  BY DEF Onward
<1>2. w.who \in Player \cup {Nobody}
  BY <1>1 DEF Tasks
<1>3. /\ run \in [Task -> Tasks] /\ waiting \in Lists /\ match \in [Player -> 0 .. Len(minted)]
      /\ drops \in [Key -> [user : Player \cup {Nobody}, age : 0 .. KeyLife + 1]] /\ alarm \in BOOLEAN
      /\ told \in [Player -> SUBSET Nat] /\ faults \in Nat
      /\ \A u \in Task : run[u].made \in [Player -> 0 .. Len(minted)]
  BY DEF Shape
<1>4. \A u \in Task : u # t => run[u] = NoTask
  BY DEF Onward
<1> HIDE DEF w, h
<1>5. /\ minted' \in Seq(Rosters) /\ Len(minted) \in Nat /\ Len(minted') \in Nat /\ Len(minted) <= Len(minted')
  BY <1>1, Minting
<1>6. waiting' \in Lists
  <2>1. CASE h.do = "waiting"
    <3>1. h.tickets \in Lists
      BY <1>1, <2>1 DEF Writes
    <3>2. QED
      BY <1>1, <2>1, <3>1 DEF Perform
  <2>2. CASE h.do # "waiting"
    BY <1>1, <1>3, <2>2 DEF Perform
  <2>3. QED
    BY <2>1, <2>2
<1>7. match' \in [Player -> 0 .. Len(minted')]
  <2>1. match \in [Player -> 0 .. Len(minted')]
    BY <1>3, <1>5
  <2>2. CASE h.do = "match"
    <3>1. h.user \in Player
      BY <1>1, <2>2 DEF Writes
    <3>2. w.made[h.user] \in 0 .. Len(minted')
      BY <1>1, <1>5, <3>1
    <3>3. match' = [match EXCEPT ![h.user] = w.made[h.user]]
      BY <1>1, <2>2 DEF Perform
    <3>4. QED
      BY <2>1, <3>2, <3>3
  <2>3. CASE h.do = "forget"
    <3>1. match' = [match EXCEPT ![w.who] = 0]
      BY <1>1, <2>3 DEF Perform, NoSession
    <3>2. 0 \in 0 .. Len(minted')
      BY <1>5
    <3>3. QED
      BY <2>1, <3>1, <3>2
  <2>4. CASE h.do \notin {"match", "forget"}
    BY <1>1, <2>1, <2>4 DEF Perform
  <2>5. QED
    BY <2>2, <2>3, <2>4
<1>8. drops' \in [Key -> [user : Player \cup {Nobody}, age : 0 .. KeyLife + 1]]
  <2> DEFINE D == [user : Player \cup {Nobody}, age : 0 .. KeyLife + 1]
  <2>1. NoDrop \in D
    BY SettingsAssumption DEF NoDrop
  <2>2. [user |-> w.who, age |-> 0] \in D
    BY <1>2, SettingsAssumption
  <2>3. drops \in [Key -> D]
    BY <1>3
  <2> HIDE DEF D
  <2>4. CASE h.do = "key"
    <3>1. drops' = [drops EXCEPT ![w.key] = [user |-> w.who, age |-> 0]]
      BY <1>1, <2>4 DEF Perform
    <3>2. QED
      BY <2>2, <2>3, <3>1 DEF D
  <2>5. CASE h.do = "prune"
    <3>1. drops' = [k \in Key |-> IF drops[k].age > KeyLife THEN NoDrop ELSE drops[k]]
      BY <1>1, <2>5 DEF Perform
    <3>2. QED
      BY <2>1, <2>3, <3>1 DEF D
  <2>6. CASE h.do = "forget"
    <3>1. drops' = [k \in Key |-> IF k \in Named(w.who) THEN NoDrop ELSE drops[k]]
      BY <1>1, <2>6 DEF Perform
    <3>2. QED
      BY <2>1, <2>3, <3>1 DEF D
  <2>7. CASE h.do \notin {"key", "prune", "forget"}
    <3>1. drops' = drops
      BY <1>1, <2>7 DEF Perform
    <3>2. QED
      BY <2>3, <3>1 DEF D
  <2>8. QED
    BY <2>4, <2>5, <2>6, <2>7
<1>9. alarm' \in BOOLEAN
  <2>1. CASE h.do = "arm"
    BY <1>1, <2>1 DEF Perform
  <2>2. CASE h.do = "disarm"
    BY <1>1, <2>2 DEF Perform
  <2>3. CASE h.do \notin {"arm", "disarm"}
    BY <1>1, <1>3, <2>3 DEF Perform
  <2>4. QED
    BY <2>1, <2>2, <2>3
<1>10. told' \in [Player -> SUBSET Nat]
  <2>1. CASE h.do = "forget"
    <3>1. told' = [told EXCEPT ![w.who] = @ \cup ({match[w.who]} \ {NoSession})]
      BY <1>1, <2>1 DEF Perform
    <3>2. \A p \in Player : match[p] \in Nat
      BY <1>3, <1>5
    <3>3. CASE w.who \in Player
      <4>1. told[w.who] \cup ({match[w.who]} \ {NoSession}) \in SUBSET Nat
        BY <1>3, <3>2, <3>3
      <4>2. QED
        BY <1>3, <3>1, <4>1
    <3>4. CASE w.who \notin Player
      BY <1>3, <3>1, <3>4
    <3>5. QED
      BY <3>3, <3>4
  <2>2. CASE h.do # "forget"
    BY <1>1, <1>3, <2>2 DEF Perform
  <2>3. QED
    BY <2>1, <2>2
<1>11. run' \in [Task -> Tasks]
  BY <1>1, <1>3
<1>12. \A u \in Task : run'[u].made \in [Player -> 0 .. Len(minted')]
  <2>1. ASSUME NEW u \in Task
        PROVE  run'[u].made \in [Player -> 0 .. Len(minted')]
    <3>1. CASE u = t
      BY <1>1, <1>3, <3>1
    <3>2. CASE u # t
      <4>1. run'[u] = run[u]
        BY <1>1, <1>3, <3>2
      <4>2. run[u].made \in [Player -> 0 .. Len(minted)]
        BY <1>3
      <4>3. QED
        BY <1>5, <4>1, <4>2
    <3>3. QED
      BY <3>1, <3>2
  <2>2. QED
    BY <2>1
<1>13. faults' \in Nat
  BY <1>3
<1>14. QED
  BY <1>5, <1>6, <1>7, <1>8, <1>9, <1>10, <1>11, <1>12, <1>13 DEF Shape

LEMMA StepPlans ==
  ASSUME Shape, NEW t \in Task, NEW v, Onward(t, v)
  PROVE  (Plans /\ Serial)'
<1>1. run'[t] = v /\ \A u \in Task : u # t => run'[u] = NoTask
  BY OthersIdle
<1>2. Planned(v)
  BY DEF Onward, Rest
<1>3. \A u \in Task : Planned(run'[u])
  BY <1>1, <1>2, Idle
<1>4. Serial'
  BY <1>1 DEF Serial
<1>5. Plans'
  BY <1>3 DEF Plans
<1>6. QED
  BY <1>4, <1>5

LEMMA StepOutside ==
  ASSUME Shape, Outside, NEW t \in Task, NEW v, Onward(t, v)
  PROVE  Outside'
<1> DEFINE w == run[t]
           h == w.todo[1]
<1>1. Rest(v, w) /\ Planned(w) /\ Perform(w, h) /\ w.todo # << >> /\ h \in Writes /\ w \in Tasks
  BY DEF Onward
<1>2. /\ Users(waiting) \cap out = {} /\ ToMint(w) \cap out = {}
      /\ \A i \in Doing(w, "waiting") : Users(w.todo[i].tickets) \cap out = {}
  BY DEF Outside
<1>3. 1 \in Doing(w, h.do)
  <2>1. w.todo \in Seq(Writes)
    BY <1>1 DEF Tasks
  <2>2. 1 \in DOMAIN w.todo
    BY <1>1, <2>1
  <2>3. QED
    BY <2>2 DEF Doing
<1>4. \/ out' = out
      \/ h.do = "waiting" /\ w.op \in Leaving /\ out' = out \cup {w.who}
  BY <1>1 DEF Perform, Leaving
<1>5. Users(waiting') \cap out' = {}
  <2>1. CASE h.do = "waiting"
    <3>1. waiting' = h.tickets
      BY <1>1, <2>1 DEF Perform
    <3>2. Users(h.tickets) \cap out = {}
      BY <1>2, <1>3, <2>1
    <3>3. w.op \in Leaving => w.who \notin Users(h.tickets)
      BY <1>1, <1>3, <2>1 DEF Planned
    <3>4. QED
      BY <1>4, <3>1, <3>2, <3>3
  <2>2. CASE h.do # "waiting"
    <3>1. waiting' = waiting
      BY <1>1, <2>2 DEF Perform
    <3>2. QED
      BY <1>2, <1>4, <2>2, <3>1
  <2>3. QED
    BY <2>1, <2>2
<1>6. ToMint(v) \cap out' = {}
  <2>1. CASE w.op \in Leaving
    <3>1. ToMint(w) = {}
      BY <1>1, <2>1 DEF Planned, ToMint
    <3>2. QED
      BY <1>1, <3>1 DEF Rest
  <2>2. CASE w.op \notin Leaving
    BY <1>1, <1>2, <1>4, <2>2 DEF Rest
  <2>3. QED
    BY <2>1, <2>2
<1>7. ASSUME NEW i \in Doing(v, "waiting")
      PROVE  Users(v.todo[i].tickets) \cap out' = {}
  <2>1. i + 1 \in Doing(w, "waiting") /\ v.todo[i] = w.todo[i + 1]
    BY <1>1 DEF Rest
  <2>2. Users(v.todo[i].tickets) \cap out = {}
    BY <1>2, <2>1
  <2>3. w.op \in Leaving => w.who \notin Users(v.todo[i].tickets)
    BY <1>1, <2>1 DEF Planned
  <2>4. QED
    BY <1>4, <2>2, <2>3
<1>8. run'[t] = v /\ \A u \in Task : u # t => run'[u] = NoTask
  BY OthersIdle
<1>9. ASSUME NEW u \in Task
      PROVE  /\ ToMint(run'[u]) \cap out' = {}
             /\ \A i \in Doing(run'[u], "waiting") : Users(run'[u].todo[i].tickets) \cap out' = {}
  <2>1. CASE u = t
    BY <1>6, <1>7, <1>8, <2>1
  <2>2. CASE u # t
    <3>1. run'[u] = NoTask
      BY <1>8, <2>2
    <3>2. QED
      BY <3>1, Idle
  <2>3. QED
    BY <2>1, <2>2
<1>10. QED
  BY <1>5, <1>9 DEF Outside

LEMMA StepKeyed ==
  ASSUME Shape, Keyed, NEW t \in Task, NEW v, Onward(t, v)
  PROVE  Keyed'
<1> DEFINE w == run[t]
           h == w.todo[1]
<1>1. /\ Rest(v, w) /\ Planned(w) /\ Perform(w, h) /\ w.todo # << >> /\ h \in Writes /\ w \in Tasks
      /\ v.todo = << >> \/ (v.op = w.op /\ v.who = w.who /\ v.key = w.key)
  BY DEF Onward
<1>2. /\ \A k \in Key : drops[k] = NoDrop \/ <<k, drops[k].user>> \in removed
      /\ Doing(w, "key") # {} => 1 \in Doing(w, "waiting") \/ <<w.key, w.who>> \in removed
  BY DEF Keyed
<1>3. 1 \in Doing(w, h.do)
  <2>1. w.todo \in Seq(Writes)
    BY <1>1 DEF Tasks
  <2>2. 1 \in DOMAIN w.todo
    BY <1>1, <2>1
  <2>3. QED
    BY <2>2 DEF Doing
<1>4. removed \subseteq removed'
  BY <1>1 DEF Perform
<1>5. drops \in [Key -> [user : Player \cup {Nobody}, age : 0 .. KeyLife + 1]]
  BY DEF Shape
<1>6. ASSUME NEW k \in Key
      PROVE  drops'[k] = NoDrop \/ <<k, drops'[k].user>> \in removed'
  <2>1. CASE h.do = "key"
    <3>1. drops' = [drops EXCEPT ![w.key] = [user |-> w.who, age |-> 0]]
      BY <1>1, <2>1 DEF Perform
    <3>2. CASE k = w.key
      <4>1. drops'[k].user = w.who
        BY <1>5, <3>1, <3>2
      <4>2. 1 \notin Doing(w, "waiting")
        BY <2>1 DEF Doing
      <4>3. <<w.key, w.who>> \in removed
        BY <1>2, <1>3, <2>1, <4>2
      <4>4. QED
        BY <1>4, <3>2, <4>1, <4>3
    <3>3. CASE k # w.key
      <4>1. drops'[k] = drops[k]
        BY <1>5, <3>1, <3>3
      <4>2. QED
        BY <1>2, <1>4, <4>1
    <3>4. QED
      BY <3>2, <3>3
  <2>2. CASE h.do # "key"
    <3>1. drops'[k] \in {NoDrop, drops[k]}
      <4>1. CASE h.do = "prune"
        BY <1>1, <4>1 DEF Perform
      <4>2. CASE h.do = "forget"
        BY <1>1, <4>2 DEF Perform
      <4>3. CASE h.do \notin {"prune", "forget"}
        BY <1>1, <2>2, <4>3 DEF Perform
      <4>4. QED
        BY <4>1, <4>2, <4>3
    <3>2. QED
      BY <1>2, <1>4, <3>1
  <2>3. QED
    BY <2>1, <2>2
<1>7. ASSUME Doing(v, "key") # {}
      PROVE  <<v.key, v.who>> \in removed'
  <2>1. Doing(w, "key") # {}
    BY <1>1, <1>7 DEF Rest
  <2>2. v.todo # << >>
    BY <1>7 DEF Doing
  <2>3. CASE 1 \in Doing(w, "waiting")
    <3>1. w.op = "drop" /\ h.do = "waiting"
      BY <1>1, <2>1, <2>3 DEF Planned, Doing
    <3>2. <<w.key, w.who>> \in removed'
      BY <1>1, <3>1 DEF Perform
    <3>3. QED
      BY <1>1, <2>2, <3>2
  <2>4. CASE 1 \notin Doing(w, "waiting")
    BY <1>1, <1>2, <1>4, <2>1, <2>2, <2>4
  <2>5. QED
    BY <2>3, <2>4
<1>8. run'[t] = v /\ \A u \in Task : u # t => run'[u] = NoTask
  BY OthersIdle
<1>9. ASSUME NEW u \in Task, Doing(run'[u], "key") # {}
      PROVE  <<run'[u].key, run'[u].who>> \in removed'
  <2>1. u = t
    BY <1>8, <1>9, Idle
  <2>2. QED
    BY <1>7, <1>8, <1>9, <2>1
<1>10. QED
  BY <1>6, <1>9 DEF Keyed

LEMMA UsersPlay == ASSUME NEW l \in Seq(Waiter) PROVE Users(l) \subseteq Player
<1>1. \A i \in DOMAIN l : l[i] \in Waiter
  OBVIOUS
<1>2. \A i \in DOMAIN l : l[i].user \in Player
  BY <1>1 DEF Waiter
<1>3. QED
  BY <1>2 DEF Users

\* Complete, of one task and its plan.
Awaited(w, p, s) == w.made[p] = s /\ p \in ToRecord(w) \ ToMint(w)

Fresh(w, p, m) == m[p] = NoSession \/ (m[p] = w.made[p] /\ p \notin ToMint(w))

\* What a write does to the records of matches.
LEMMA Recording ==
  ASSUME Shape, NEW w, NEW h \in Writes, Perform(w, h), NEW p \in Player
  PROVE  /\ match'[p] = match[p] \/ (match'[p] = NoSession /\ h.do = "forget")
                                \/ (h.do = "match" /\ p = h.user /\ match'[p] = w.made[p])
         /\ h.do = "match" => match'[h.user] = w.made[h.user]
         /\ match'[p] = match[p] \/ (h.do = "match" /\ p = h.user)
              \/ match[p] = NoSession \/ match[p] \in told'[p]
         /\ told[p] \subseteq told'[p]
<1>1. match \in [Player -> 0 .. Len(minted)] /\ told \in [Player -> SUBSET Nat]
  BY DEF Shape
<1>2. CASE h.do = "match"
  <2>1. match' = [match EXCEPT ![h.user] = w.made[h.user]] /\ told' = told /\ h.user \in Player
    BY <1>2 DEF Perform, Writes
  <2>2. QED
    BY <1>1, <1>2, <2>1
<1>3. CASE h.do = "forget"
  <2>1. /\ match' = [match EXCEPT ![w.who] = NoSession]
        /\ told' = [told EXCEPT ![w.who] = @ \cup ({match[w.who]} \ {NoSession})]
    BY <1>3 DEF Perform
  <2>2. CASE p = w.who
    <3>1. match'[p] = NoSession /\ told'[p] = told[p] \cup ({match[p]} \ {NoSession})
      BY <1>1, <2>1, <2>2
    <3>2. QED
      BY <1>3, <3>1
  <2>3. CASE p # w.who
    <3>1. match'[p] = match[p] /\ told'[p] = told[p]
      BY <1>1, <2>1, <2>3
    <3>2. QED
      BY <1>3, <3>1
  <2>4. QED
    BY <2>2, <2>3
<1>4. CASE h.do \notin {"match", "forget"}
  BY <1>4 DEF Perform
<1>5. QED
  BY <1>2, <1>3, <1>4

LEMMA StepComplete ==
  ASSUME Shape, Complete, NEW t \in Task, NEW v, Onward(t, v)
  PROVE  Complete'
<1> DEFINE w == run[t]
           h == w.todo[1]
<1>1. /\ Rest(v, w) /\ Planned(w) /\ Perform(w, h) /\ w.todo # << >> /\ h \in Writes /\ w \in Tasks
      /\ v.todo = << >> \/ v.made = Made(w, h)
  BY DEF Onward
<1>2. run'[t] = v /\ \A u \in Task : u # t => run[u] = NoTask /\ run'[u] = NoTask
  BY OthersIdle
<1>3. 1 \in Doing(w, h.do)
  <2>1. w.todo \in Seq(Writes)
    BY <1>1 DEF Tasks
  <2>2. 1 \in DOMAIN w.todo
    BY <1>1, <2>1
  <2>3. QED
    BY <2>2 DEF Doing
<1>4. ToRecord(w) \subseteq Player /\ ToRecord(v) \subseteq ToRecord(w) /\ ToMint(w) \subseteq ToRecord(w)
  <2>1. w.todo \in Seq(Writes)
    BY <1>1 DEF Tasks
  <2>2. \A i \in Doing(w, "match") : w.todo[i].user \in Player
    BY <2>1 DEF Doing, Writes
  <2>3. QED
    BY <1>1, <2>2 DEF ToRecord, Rest, Planned
<1>5. ToRecord(v) # {} => v.todo # << >>
  BY DEF ToRecord, Doing
<1>6. match \in [Player -> 0 .. Len(minted)] /\ minted \in Seq(Rosters) /\ waiting \in Lists
  BY DEF Shape
<1>7. /\ Len(minted) \in Nat /\ DOMAIN minted = 1 .. Len(minted)
      /\ DOMAIN minted' = 1 .. Len(minted')
      /\ Len(minted) <= Len(minted') /\ \A s \in DOMAIN minted : minted'[s] = minted[s]
      /\ h.do # "mint" => minted' = minted
      /\ h.do = "mint" => Len(minted') = Len(minted) + 1 /\ minted'[Len(minted) + 1] = h.roster
  BY <1>1, Minting
<1>8. /\ \A s \in DOMAIN minted : \A p \in Users(minted[s]) :
           match[p] = s \/ s \in told[p] \/ Awaited(w, p, s)
      /\ \A p \in ToRecord(w) : Fresh(w, p, match)
      /\ \A p \in Users(waiting) : match[p] = NoSession \/ Doing(w, "waiting") # {}
      /\ \A i \in Doing(w, "waiting") : \A p \in Users(w.todo[i].tickets) : match[p] = NoSession
  <2>1. ASSUME NEW s \in DOMAIN minted, NEW p \in Users(minted[s])
        PROVE  match[p] = s \/ s \in told[p] \/ Awaited(w, p, s)
    <3>1. \/ match[p] = s \/ s \in told[p]
          \/ \E u \in Task : run[u].made[p] = s /\ p \in ToRecord(run[u]) \ ToMint(run[u])
      BY DEF Complete
    <3>2. \A u \in Task : p \in ToRecord(run[u]) => u = t
      BY <1>2, Idle
    <3>3. QED
      BY <3>1, <3>2 DEF Awaited
  <2>2. \A p \in ToRecord(w) : Fresh(w, p, match)
    BY DEF Complete, Fresh
  <2>3. \A p \in Users(waiting) : match[p] = NoSession \/ Doing(w, "waiting") # {}
    <3>1. \A u \in Task : Doing(run[u], "waiting") # {} => u = t
      BY <1>2, Idle
    <3>2. QED
      BY <3>1 DEF Complete
  <2>4. \A i \in Doing(w, "waiting") : \A p \in Users(w.todo[i].tickets) : match[p] = NoSession
    BY DEF Complete
  <2>5. QED
    BY <2>1, <2>2, <2>3, <2>4
<1>9. \A l \in Lists : Users(l) \subseteq Player
  BY UsersPlay DEF Lists
<1>10. \A r \in Rosters : Users(r) \subseteq Player
  BY UsersPlay DEF Rosters
<1>11. ASSUME NEW s \in DOMAIN minted', NEW p \in Users(minted'[s])
       PROVE  match'[p] = s \/ s \in told'[p] \/ Awaited(v, p, s)
  <2>1. CASE s \in DOMAIN minted
    <3>1. p \in Users(minted[s]) /\ s # NoSession
      <4>1. Len(minted) \in Nat /\ s \in 1 .. Len(minted)
        BY <1>7, <2>1
      <4>2. s # 0
        BY <4>1
      <4>3. minted'[s] = minted[s]
        BY <1>7, <2>1
      <4>4. QED
        BY <4>2, <4>3 DEF NoSession
    <3>2. p \in Player
      <4>1. minted[s] \in Rosters
        BY <1>6, <2>1
      <4>2. QED
        BY <1>10, <3>1, <4>1
    <3>3. CASE match[p] = s
      <4>1. \/ match'[p] = match[p] \/ match[p] = NoSession \/ match[p] \in told'[p]
            \/ h.do = "match" /\ p = h.user /\ match'[p] = w.made[p]
        BY <1>1, <3>2, Recording
      <4>2. CASE h.do = "match" /\ p = h.user /\ match'[p] = w.made[p]
        <5>1. p \in ToRecord(w)
          BY <1>3, <4>2 DEF ToRecord
        <5>2. Fresh(w, p, match)
          BY <1>8, <5>1
        <5>3. w.made[p] = s
          BY <3>1, <3>3, <5>2 DEF Fresh
        <5>4. QED
          BY <4>2, <5>3
      <4>3. QED
        BY <3>1, <3>3, <4>1, <4>2
    <3>4. CASE s \in told[p]
      BY <1>1, <3>2, <3>4, Recording
    <3>5. CASE Awaited(w, p, s)
      <4>1. w.made[p] = s /\ p \in ToRecord(w) /\ p \notin ToMint(w) /\ p \notin ToMint(v)
        BY <1>1, <3>5 DEF Awaited, Rest
      <4>2. CASE h.do = "match" /\ p = h.user
        <5>1. match'[h.user] = w.made[h.user]
          BY <1>1, <3>2, <4>2, Recording
        <5>2. QED
          BY <4>1, <4>2, <5>1
      <4>3. CASE ~(h.do = "match" /\ p = h.user)
        <5>1. p \in ToRecord(v)
          BY <1>1, <4>1, <4>3 DEF Rest
        <5>2. v.made = Made(w, h)
          BY <1>1, <1>5, <5>1
        <5>3. h.do = "mint" => p \notin Users(h.roster)
          BY <1>1, <4>1 DEF Rest
        <5>4. v.made[p] = w.made[p]
          BY <3>2, <5>2, <5>3 DEF Made
        <5>5. QED
          BY <4>1, <5>1, <5>4 DEF Awaited
      <4>4. QED
        BY <4>2, <4>3
    <3>6. QED
      BY <1>8, <2>1, <3>1, <3>3, <3>4, <3>5
  <2>2. CASE s \notin DOMAIN minted
    <3>1. h.do = "mint"
      BY <1>7, <2>2
    <3>2. s = Len(minted) + 1 /\ minted'[s] = h.roster
      BY <1>7, <2>2, <3>1
    <3>3. p \in Users(h.roster) /\ p \in ToMint(w) /\ p \notin ToMint(v)
      BY <1>1, <3>1, <3>2 DEF Rest
    <3>4. p \in ToRecord(v)
      BY <1>1, <1>4, <3>1, <3>3 DEF Rest
    <3>5. v.made = Made(w, h)
      BY <1>1, <1>5, <3>4
    <3>6. p \in Player
      BY <1>4, <3>3
    <3>7. v.made[p] = s
      BY <3>1, <3>2, <3>3, <3>5, <3>6 DEF Made
    <3>8. QED
      BY <3>3, <3>4, <3>7 DEF Awaited
  <2>3. QED
    BY <2>1, <2>2
<1>12. ASSUME NEW p \in ToRecord(v)
       PROVE  Fresh(v, p, match')
  <2>1. p \in ToRecord(w) /\ p \in Player /\ Fresh(w, p, match)
    BY <1>4, <1>8
  <2>2. v.made = Made(w, h)
    BY <1>1, <1>5, <1>12
  <2>3. CASE h.do = "mint"
    <3>1. match'[p] = match[p]
      BY <1>1, <2>1, <2>3, Recording
    <3>2. CASE p \in Users(h.roster)
      <4>1. p \in ToMint(w)
        BY <1>1, <2>3, <3>2 DEF Rest
      <4>2. QED
        BY <2>1, <3>1, <4>1 DEF Fresh
    <3>3. CASE p \notin Users(h.roster)
      <4>1. v.made[p] = w.made[p]
        BY <2>1, <2>2, <3>3 DEF Made
      <4>2. QED
        BY <1>1, <2>1, <3>1, <4>1 DEF Fresh, Rest
    <3>4. QED
      BY <3>2, <3>3
  <2>4. CASE h.do # "mint"
    <3>1. v.made = w.made
      BY <2>2, <2>4 DEF Made
    <3>2. \/ match'[p] = match[p] \/ match'[p] = NoSession
          \/ h.do = "match" /\ match'[p] = w.made[p]
      BY <1>1, <2>1, Recording
    <3>3. h.do = "match" => p \notin ToMint(v)
      BY <1>1 DEF Rest
    <3>4. ToMint(v) \subseteq ToMint(w)
      BY <1>1 DEF Rest
    <3>5. QED
      BY <2>1, <3>1, <3>2, <3>3, <3>4 DEF Fresh
  <2>5. QED
    BY <2>3, <2>4
<1>13. ASSUME NEW p \in Users(waiting')
       PROVE  match'[p] = NoSession \/ Doing(v, "waiting") # {}
  <2>1. CASE h.do = "waiting"
    <3>1. waiting' = h.tickets /\ h.tickets \in Lists
      BY <1>1, <2>1 DEF Perform, Writes
    <3>2. match[p] = NoSession /\ p \in Player
      BY <1>3, <1>8, <1>9, <2>1, <3>1
    <3>3. match'[p] = match[p]
      BY <1>1, <2>1, <3>2, Recording
    <3>4. QED
      BY <3>2, <3>3
  <2>2. CASE h.do = "match"
    <3>1. PICK j \in Doing(w, "waiting") : 1 < j
      BY <1>1, <1>3, <2>2 DEF Planned
    <3>2. j - 1 \in Doing(v, "waiting")
      BY <1>1, <3>1 DEF Rest
    <3>3. QED
      BY <3>2
  <2>3. CASE h.do \notin {"waiting", "match"}
    <3>1. waiting' = waiting
      BY <1>1, <2>3 DEF Perform
    <3>2. p \in Player
      BY <1>6, <1>9, <3>1
    <3>3. CASE match[p] = NoSession
      <4>1. match'[p] = match[p] \/ match'[p] = NoSession
        BY <1>1, <2>3, <3>2, Recording
      <4>2. QED
        BY <3>3, <4>1
    <3>4. CASE Doing(w, "waiting") # {}
      <4>1. PICK j \in Doing(w, "waiting") : TRUE
        BY <3>4
      <4>2. j # 1
        BY <2>3 DEF Doing
      <4>3. j - 1 \in Doing(v, "waiting")
        BY <1>1, <4>2 DEF Rest
      <4>4. QED
        BY <4>3
    <3>5. QED
      BY <1>8, <3>1, <3>3, <3>4
  <2>4. QED
    BY <2>1, <2>2, <2>3
<1>14. ASSUME NEW i \in Doing(v, "waiting"), NEW p \in Users(v.todo[i].tickets)
       PROVE  match'[p] = NoSession
  <2>1. i + 1 \in Doing(w, "waiting") /\ p \in Users(w.todo[i + 1].tickets)
    BY <1>1 DEF Rest
  <2>2. match[p] = NoSession /\ p \notin ToRecord(w)
    BY <1>1, <1>8, <2>1 DEF Planned
  <2>3. p \in Player
    <3>1. w.todo[i + 1] \in Writes /\ w.todo[i + 1].do = "waiting"
      BY <1>1, <2>1 DEF Doing, Tasks
    <3>2. w.todo[i + 1].tickets \in Lists
      BY <3>1 DEF Writes
    <3>3. QED
      BY <1>9, <2>1, <3>2
  <2>4. ~(h.do = "match" /\ p = h.user)
    BY <1>3, <2>2 DEF ToRecord
  <2>5. match'[p] = match[p] \/ match'[p] = NoSession
    BY <1>1, <2>3, <2>4, Recording
  <2>6. QED
    BY <2>2, <2>5
<1>15. ASSUME NEW u \in Task, u # t
       PROVE  ToRecord(run'[u]) = {} /\ Doing(run'[u], "waiting") = {}
  BY <1>2, <1>15, Idle
<1>16. QED
  <2>1. \A s \in DOMAIN minted' : \A p \in Users(minted'[s]) :
          \/ match'[p] = s \/ s \in told'[p]
          \/ \E u \in Task : run'[u].made[p] = s /\ p \in ToRecord(run'[u]) \ ToMint(run'[u])
    BY <1>2, <1>11 DEF Awaited
  <2>2. \A u \in Task : \A p \in ToRecord(run'[u]) :
          match'[p] = NoSession \/ (match'[p] = run'[u].made[p] /\ p \notin ToMint(run'[u]))
    BY <1>2, <1>12, <1>15 DEF Fresh
  <2>3. \A p \in Users(waiting') : match'[p] = NoSession \/ \E u \in Task : Doing(run'[u], "waiting") # {}
    BY <1>2, <1>13
  <2>4. \A u \in Task : \A i \in Doing(run'[u], "waiting") : \A p \in Users(run'[u].todo[i].tickets) :
          match'[p] = NoSession
    BY <1>2, <1>14, <1>15
  <2>5. QED
    BY <2>1, <2>2, <2>3, <2>4 DEF Complete

-----------------------------------------------------------------------------
(* Tasks as they start *)

\* A task that starts at rest, with a plan that fits what the queue holds.
Starts(t, v) ==
  /\ \A u \in Task : run[u] = NoTask
  /\ run' = [run EXCEPT ![t] = v] /\ v \in Tasks /\ Planned(v) /\ \A p \in Player : v.made[p] = NoSession
  /\ UNCHANGED <<Stored, told, removed, faults>>
  /\ out' \subseteq out /\ ToMint(v) \cap out' = {}
  /\ \A i \in Doing(v, "waiting") : Users(v.todo[i].tickets) \cap out' = {}
  /\ Doing(v, "key") # {} => 1 \in Doing(v, "waiting")
  /\ faults = 0 => \A p \in ToRecord(v) : match[p] = NoSession
  /\ faults = 0 => \A i \in Doing(v, "waiting") : \A p \in Users(v.todo[i].tickets) : match[p] = NoSession

\* While nothing is lost, who waits at rest has no session, and who was minted one knows.
LEMMA Resting ==
  ASSUME Complete, \A u \in Task : run[u] = NoTask
  PROVE  /\ \A p \in Users(waiting) : match[p] = NoSession
         /\ \A s \in DOMAIN minted : \A p \in Users(minted[s]) : match[p] = s \/ s \in told[p]
<1>1. \A u \in Task : ToRecord(run[u]) = {} /\ Doing(run[u], "waiting") = {}
  BY Idle
<1>2. QED
  BY <1>1 DEF Complete

LEMMA StartKeeps ==
  ASSUME Inv, NEW t \in Task, NEW v, Starts(t, v)
  PROVE  Inv'
<1>1. Shape /\ Outside /\ Keyed /\ (faults = 0 => Complete)
  BY DEF Inv
<1>2. /\ run \in [Task -> Tasks] /\ match \in [Player -> 0 .. Len(minted)]
      /\ \A u \in Task : run[u].made \in [Player -> 0 .. Len(minted)]
  BY <1>1 DEF Shape
<1>3. /\ run'[t] = v /\ \A u \in Task : u # t => run'[u] = NoTask
  BY <1>2 DEF Starts
<1>4. /\ waiting' = waiting /\ match' = match /\ drops' = drops /\ alarm' = alarm /\ minted' = minted
      /\ told' = told /\ removed' = removed /\ faults' = faults
  BY DEF Starts, Stored
<1>5. Shape'
  <2>1. run' \in [Task -> Tasks]
    BY <1>2 DEF Starts
  <2>2. v.made \in [Player -> 0 .. Len(minted)]
    <3>1. v.made \in [Player -> Nat] /\ \A p \in Player : v.made[p] = 0
      BY DEF Starts, Tasks, NoSession
    <3>2. Len(minted) \in Nat
      BY <1>1 DEF Shape
    <3>3. 0 \in 0 .. Len(minted)
      BY <3>2
    <3>4. QED
      BY <3>1, <3>3
  <2>3. \A u \in Task : run'[u].made \in [Player -> 0 .. Len(minted)]
    BY <1>2, <1>3, <2>2 DEF Starts
  <2>4. QED
    BY <1>1, <1>4, <2>1, <2>3 DEF Shape
<1>6. Plans'
  BY <1>3, Idle DEF Plans, Starts
<1>7. Serial'
  BY <1>3 DEF Serial
<1>8. Outside'
  <2>1. Users(waiting') \cap out' = {}
    BY <1>1, <1>4 DEF Outside, Starts
  <2>2. ASSUME NEW u \in Task
        PROVE  /\ ToMint(run'[u]) \cap out' = {}
               /\ \A i \in Doing(run'[u], "waiting") : Users(run'[u].todo[i].tickets) \cap out' = {}
    <3>1. CASE u = t
      BY <1>3, <3>1 DEF Starts
    <3>2. CASE u # t
      BY <1>3, <3>2, Idle
    <3>3. QED
      BY <3>1, <3>2
  <2>3. QED
    BY <2>1, <2>2 DEF Outside
<1>9. Keyed'
  <2>1. \A u \in Task : Doing(run'[u], "key") # {} => 1 \in Doing(run'[u], "waiting")
    BY <1>3, Idle DEF Starts
  <2>2. QED
    BY <1>1, <1>4, <2>1 DEF Keyed
<1>10. ASSUME faults' = 0
       PROVE  Complete'
  <2>1. Complete /\ faults = 0
    BY <1>1, <1>4, <1>10
  <2>2. /\ \A p \in Users(waiting) : match[p] = NoSession
        /\ \A s \in DOMAIN minted : \A p \in Users(minted[s]) : match[p] = s \/ s \in told[p]
    BY <2>1, Resting DEF Starts
  <2>3. \A u \in Task : \A p \in ToRecord(run'[u]) : match[p] = NoSession
    BY <1>3, <2>1, Idle DEF Starts
  <2>4. \A u \in Task : \A i \in Doing(run'[u], "waiting") : \A p \in Users(run'[u].todo[i].tickets) :
          match[p] = NoSession
    <3>1. ASSUME NEW u \in Task, NEW i \in Doing(run'[u], "waiting"), NEW p \in Users(run'[u].todo[i].tickets)
          PROVE  match[p] = NoSession
      <4>1. u = t
        BY <1>3, <3>1, Idle
      <4>2. QED
        BY <1>3, <2>1, <3>1, <4>1 DEF Starts
    <3>2. QED
      BY <3>1
  <2>5. QED
    BY <1>4, <2>2, <2>3, <2>4 DEF Complete
<1>11. QED
  BY <1>5, <1>6, <1>7, <1>8, <1>9, <1>10 DEF Inv

\* A plan of a task that pairs nobody: it writes no list but W.
Only(todo, W) ==
  /\ todo \in Seq(Writes)
  /\ \A i \in DOMAIN todo : /\ todo[i].do \in {"waiting", "key", "disarm", "prune", "forget"}
                            /\ todo[i].do = "waiting" => todo[i].tickets = W

LEMMA OnlyJoin ==
  ASSUME NEW W, NEW a, Only(a, W), NEW b, Only(b, W)
  PROVE  Only(a \o b, W)
<1> DEFINE c == a \o b
<1>1. a \in Seq(Writes) /\ b \in Seq(Writes)
  BY DEF Only
<1>2. /\ Len(a) \in Nat /\ Len(b) \in Nat /\ DOMAIN a = 1 .. Len(a) /\ DOMAIN b = 1 .. Len(b)
      /\ c \in Seq(Writes) /\ DOMAIN c = 1 .. Len(a) + Len(b)
      /\ \A i \in 1 .. Len(a) : c[i] = a[i]
      /\ \A i \in 1 .. Len(b) : c[Len(a) + i] = b[i]
  BY <1>1
<1> HIDE DEF c
<1>3. ASSUME NEW i \in DOMAIN c
      PROVE  (\E j \in DOMAIN a : c[i] = a[j]) \/ (\E j \in DOMAIN b : c[i] = b[j])
  <2>1. CASE i \in DOMAIN a
    BY <1>2, <2>1
  <2>2. CASE i \notin DOMAIN a
    <3>1. i - Len(a) \in 1 .. Len(b) /\ Len(a) + (i - Len(a)) = i
      BY <1>2, <2>2
    <3>2. c[i] = b[i - Len(a)]
      BY <1>2, <3>1
    <3>3. QED
      BY <1>2, <3>1, <3>2
  <2>3. QED
    BY <2>1, <2>2
<1>4. QED
  BY <1>2, <1>3 DEF Only, c

LEMMA OnlyOne ==
  ASSUME NEW W \in Lists
  PROVE  /\ Only(<< >>, W) /\ Only(<<Waiting(W)>>, W) /\ Only(Drained(W), W)
         /\ \A d \in {"key", "disarm", "prune", "forget"} : Only(<<[do |-> d]>>, W)
<1>1. Waiting(W) \in Writes /\ Waiting(W).do = "waiting" /\ Waiting(W).tickets = W
  BY DEF Waiting, Writes
<1>2. Only(<<Waiting(W)>>, W)
  BY <1>1 DEF Only
<1>3. ASSUME NEW d \in {"key", "disarm", "prune", "forget"}
      PROVE  Only(<<[do |-> d]>>, W)
  <2>1. [do |-> d] \in Writes /\ [do |-> d].do = d
    BY DEF Writes
  <2>2. QED
    BY <2>1 DEF Only
<1>4. Only(<< >>, W)
  BY DEF Only
<1>5. Only(Drained(W), W)
  BY <1>3, <1>4 DEF Drained
<1>6. QED
  BY <1>2, <1>3, <1>4, <1>5

\* The plan of who is taken out of the list holds nothing but the list without them.
LEMMA OnlyPlans ==
  ASSUME NEW W, NEW w, Only(w.todo, W), w.op \in Leaving => w.who \notin Users(W),
         Doing(w, "key") # {} => w.op = "drop"
  PROVE  /\ Planned(w) /\ ToMint(w) = {} /\ ToRecord(w) = {}
         /\ \A i \in Doing(w, "waiting") : w.todo[i].tickets = W
<1>1. Doing(w, "mint") = {} /\ Doing(w, "match") = {}
  BY DEF Only, Doing
<1>2. ToMint(w) = {} /\ ToRecord(w) = {}
  BY <1>1 DEF ToMint, ToRecord
<1>3. \A i \in Doing(w, "waiting") : w.todo[i].tickets = W
  BY DEF Only, Doing
<1>4. QED
  BY <1>1, <1>2, <1>3 DEF Planned

Begun(t, v, op, who, key, todo) ==
  /\ \A u \in Task : run[u] = NoTask
  /\ run' = [run EXCEPT ![t] = v] /\ v \in Tasks /\ \A p \in Player : v.made[p] = NoSession
  /\ v.op = op /\ v.who = who /\ v.key = key /\ v.todo = todo

LEMMA StartBegins ==
  ASSUME NEW t, NEW op \in {"enqueue", "sweep"} \cup Leaving, NEW who \in Player \cup {Nobody},
         NEW key \in Key \cup {NoKey}, NEW todo \in Seq(Writes), Start(t, op, who, key, todo)
  PROVE  \E v : Begun(t, v, op, who, key, todo)
<1> DEFINE v == [NoTask EXCEPT !.op = op, !.who = who, !.key = key, !.todo = todo]
<1>1. NoTask \in Tasks /\ \A p \in Player : NoTask.made[p] = NoSession
  BY Idle
<1>2. v \in Tasks /\ v.made = NoTask.made /\ v.op = op /\ v.who = who /\ v.key = key /\ v.todo = todo
  BY <1>1 DEF Tasks, NoTask
<1>3. run' = [run EXCEPT ![t] = v] /\ \A u \in Task : run[u] = NoTask
  BY DEF Start, Free
<1> HIDE DEF v
<1>4. QED
  BY <1>1, <1>2, <1>3 DEF Begun

\* What rests is what Starts needs to know of the queue.
LEMMA AtRestKnows ==
  ASSUME Inv, \A u \in Task : run[u] = NoTask
  PROVE  /\ waiting \in Lists /\ Users(waiting) \subseteq Player /\ Users(waiting) \cap out = {}
         /\ faults = 0 => \A p \in Users(waiting) : match[p] = NoSession
<1>1. waiting \in Lists /\ Users(waiting) \cap out = {}
  BY DEF Inv, Shape, Outside
<1>2. Users(waiting) \subseteq Player
  BY <1>1, UsersPlay DEF Lists
<1>3. faults = 0 => \A p \in Users(waiting) : match[p] = NoSession
  BY Resting DEF Inv
<1>4. QED
  BY <1>1, <1>2, <1>3

\* A pairing of a list none of whose players is out or has a session.
LEMMA PairKeeps ==
  ASSUME Inv, NEW t \in Task, NEW tickets \in Lists, NEW op \in {"enqueue", "sweep"},
         NEW who \in Player \cup {Nobody}, Start(t, op, who, NoKey, Pair(tickets)),
         UNCHANGED <<Stored, told, removed, faults>>, out' \subseteq out,
         Users(tickets) \cap out' = {}, faults = 0 => \A p \in Users(tickets) : match[p] = NoSession
  PROVE  Inv'
<1>1. Pair(tickets) \in Seq(Writes)
  BY PairIs DEF IsPlan
<1>2. PICK v : Begun(t, v, op, who, NoKey, Pair(tickets))
  BY <1>1, StartBegins
<1>3. PlansPair(v, tickets)
  <2>1. v.todo = Pair(tickets) /\ v.op \notin Leaving
    BY <1>2 DEF Begun, Leaving
  <2>2. QED
    BY <2>1, PairPlans
<1>4. ToMint(v) \subseteq Users(tickets)
  BY <1>3 DEF PlansPair, Planned
<1>5. \A i \in Doing(v, "waiting") : Users(v.todo[i].tickets) \cap out' = {}
  BY <1>3 DEF PlansPair
<1>6. faults = 0 => /\ \A p \in ToRecord(v) : match[p] = NoSession
                    /\ \A i \in Doing(v, "waiting") : \A p \in Users(v.todo[i].tickets) : match[p] = NoSession
  BY <1>3 DEF PlansPair
<1>7. Starts(t, v)
  BY <1>2, <1>3, <1>4, <1>5, <1>6 DEF Starts, Begun, PlansPair
<1>8. QED
  BY <1>7, StartKeeps

\* A task that takes its player out of the list, or finds it empty.
LEMMA OnlyKeeps ==
  ASSUME Inv, NEW t \in Task, NEW W, NEW op \in {"sweep"} \cup Leaving, NEW who \in Player \cup {Nobody},
         NEW key \in Key \cup {NoKey}, NEW todo, Start(t, op, who, key, todo), Only(todo, W),
         UNCHANGED <<Stored, told, removed, faults, out>>,
         W \in Lists, Users(W) \subseteq Users(waiting), op \in Leaving => who \notin Users(W),
         \A i \in DOMAIN todo : todo[i].do = "key" => op = "drop" /\ todo[1].do = "waiting" /\ 1 \in DOMAIN todo
  PROVE  Inv'
<1>1. todo \in Seq(Writes)
  BY DEF Only
<1>2. PICK v : Begun(t, v, op, who, key, todo)
  BY <1>1, StartBegins
<1>3. v.todo = todo /\ v.op = op /\ v.who = who /\ \A u \in Task : run[u] = NoTask
  BY <1>2 DEF Begun
<1>4. Doing(v, "key") # {} => v.op = "drop" /\ 1 \in Doing(v, "waiting")
  BY <1>3 DEF Doing
<1>5. /\ Planned(v) /\ ToMint(v) = {} /\ ToRecord(v) = {}
      /\ \A i \in Doing(v, "waiting") : v.todo[i].tickets = W
  BY <1>3, <1>4, OnlyPlans
<1>6. /\ Users(waiting) \cap out = {}
      /\ faults = 0 => \A p \in Users(waiting) : match[p] = NoSession
  BY <1>3, AtRestKnows
<1>7. Starts(t, v)
  BY <1>2, <1>4, <1>5, <1>6 DEF Starts, Begun
<1>8. QED
  BY <1>7, StartKeeps

LEMMA SameKeeps == ASSUME Inv, UNCHANGED <<Stored, History, run, faults>> PROVE Inv'
<1>1. /\ waiting' = waiting /\ match' = match /\ drops' = drops /\ alarm' = alarm /\ minted' = minted
      /\ told' = told /\ removed' = removed /\ out' = out /\ run' = run /\ faults' = faults
  BY DEF Stored, History
<1>2. Shape' /\ Plans' /\ Serial'
  BY <1>1 DEF Inv, Shape, Plans, Serial
<1>3. Outside' /\ Keyed'
  BY <1>1 DEF Inv, Outside, Keyed
<1>4. faults' = 0 => Complete'
  BY <1>1 DEF Inv, Complete
<1>5. QED
  BY <1>2, <1>3, <1>4 DEF Inv

LEMMA RefuseKeeps == ASSUME Inv, NEW t \in Task, NEW answer, Refuse(t, answer) PROVE Inv'
<1>1. UNCHANGED <<Stored, History, run, faults>>
  BY DEF Refuse
<1>2. QED
  BY <1>1, SameKeeps

LEMMA EnqueueKeeps == ASSUME Inv, NEW t \in Task, NEW p \in Player, Enqueue(t, p) PROVE Inv'
<1>1. CASE Undelivered(p) /\ Refuse(t, NoReply)
  BY <1>1, RefuseKeeps
<1>2. CASE /\ ~Undelivered(p)
           /\ Start(t, "enqueue", p, NoKey, Pair(Upsert(p)))
           /\ out' = out \ {p}
           /\ UNCHANGED <<Stored, told, removed, faults>>
  <2>1. \A u \in Task : run[u] = NoTask
    BY <1>2 DEF Start, Free
  <2>2. /\ waiting \in Lists /\ Users(waiting) \subseteq Player /\ Users(waiting) \cap out = {}
        /\ faults = 0 => \A q \in Users(waiting) : match[q] = NoSession
    BY <2>1, AtRestKnows
  <2> DEFINE W == Without(waiting, {p})
  <2>3. W \in Lists /\ Users(W) = Users(waiting) \ {p}
    BY <2>2, WithoutIs
  <2>4. Upsert(p) \in Lists /\ Users(Upsert(p)) = Users(W) \cup {p}
    <3> DEFINE l == Append(W, Ticket(p))
    <3>1. Upsert(p) = l
      BY DEF Upsert
    <3> HIDE DEF W
    <3>2. W \in Seq(Waiter) /\ Distinct(W)
      BY <2>3 DEF Lists
    <3>3. Ticket(p) \in Waiter /\ Ticket(p).user = p
      BY SettingsAssumption DEF Ticket, Waiter
    <3>4. /\ l \in Seq(Waiter) /\ DOMAIN l = 1 .. Len(W) + 1 /\ DOMAIN W = 1 .. Len(W) /\ Len(W) \in Nat
          /\ l[Len(W) + 1] = Ticket(p) /\ \A i \in 1 .. Len(W) : l[i] = W[i]
      BY <3>2, <3>3
    <3> HIDE DEF l
    <3>5. Users(l) = Users(W) \cup {p}
      BY <3>3, <3>4 DEF Users
    <3>6. \A i \in 1 .. Len(W) : W[i].user # p
      BY <2>3, <3>4 DEF Users
    <3>7. Distinct(l)
      <4>1. ASSUME NEW i \in DOMAIN l, NEW j \in DOMAIN l, l[i].user = l[j].user
            PROVE  i = j
        <5>1. CASE i \in 1 .. Len(W) /\ j \in 1 .. Len(W)
          BY <3>2, <3>4, <4>1, <5>1 DEF Distinct
        <5>2. CASE i = Len(W) + 1
          BY <3>3, <3>4, <3>6, <4>1, <5>2
        <5>3. CASE j = Len(W) + 1
          BY <3>3, <3>4, <3>6, <4>1, <5>3
        <5>4. QED
          BY <3>4, <5>1, <5>2, <5>3
      <4>2. QED
        BY <4>1 DEF Distinct
    <3>8. QED
      BY <3>1, <3>4, <3>5, <3>7 DEF Lists
  <2>5. Users(Upsert(p)) \cap out' = {}
    BY <1>2, <2>2, <2>3, <2>4
  <2>6. faults = 0 => \A q \in Users(Upsert(p)) : match[q] = NoSession
    BY <1>2, <2>2, <2>3, <2>4 DEF Undelivered
  <2>7. out' \subseteq out
    BY <1>2
  <2>8. QED
    BY <1>2, <2>4, <2>5, <2>6, <2>7, PairKeeps
<1>3. QED
  BY <1>1, <1>2 DEF Enqueue

LEMMA LeaveKeeps == ASSUME Inv, NEW t \in Task, NEW p \in Player, Leave(t, p) PROVE Inv'
<1> DEFINE W == Without(waiting, {p})
<1>1. CASE Refuse(t, NoReply)
  BY <1>1, RefuseKeeps
<1>2. CASE /\ Start(t, "leave", p, NoKey, <<Waiting(W)>> \o Drained(W))
           /\ UNCHANGED <<Stored, History, enqueues, faults>>
  <2>1. waiting \in Lists
    BY DEF Inv, Shape
  <2>2. W \in Lists /\ Users(W) = Users(waiting) \ {p}
    BY <2>1, WithoutIs
  <2> DEFINE todo == <<Waiting(W)>> \o Drained(W)
  <2> HIDE DEF W
  <2>3. Only(todo, W)
    BY <2>2, OnlyOne, OnlyJoin
  <2>4. \A i \in DOMAIN todo : todo[i].do # "key"
    BY DEF Drained, Waiting
  <2> HIDE DEF todo
  <2>5. Start(t, "leave", p, NoKey, todo) /\ UNCHANGED <<Stored, told, removed, faults, out>>
    BY <1>2 DEF todo, History
  <2>6. "leave" \in {"sweep"} \cup Leaving /\ NoKey \in Key \cup {NoKey} /\ p \in Player \cup {Nobody}
    BY DEF Leaving
  <2>7. Users(W) \subseteq Users(waiting) /\ p \notin Users(W)
    BY <2>2
  <2>8. QED
    BY <2>2, <2>3, <2>4, <2>5, <2>6, <2>7, OnlyKeeps
<1>3. QED
  BY <1>1, <1>2 DEF Leave

LEMMA DropKeeps == ASSUME Inv, NEW t \in Task, NEW p \in Player, NEW k \in Key, Drop(t, p, k) PROVE Inv'
<1> DEFINE W == Without(waiting, {p})
           todo == <<Waiting(W), [do |-> "key"]>> \o Drained(W) \o <<[do |-> "prune"]>>
<1>1. CASE \E answer : Refuse(t, answer)
  BY <1>1, RefuseKeeps
<1>2. CASE Start(t, "drop", p, k, todo) /\ UNCHANGED <<Stored, History, enqueues, faults>>
  <2>1. waiting \in Lists
    BY DEF Inv, Shape
  <2>2. W \in Lists /\ Users(W) = Users(waiting) \ {p}
    BY <2>1, WithoutIs
  <2> HIDE DEF W
  <2>3. Only(todo, W)
    <3>1. <<Waiting(W), [do |-> "key"]>> = <<Waiting(W)>> \o <<[do |-> "key"]>>
      OBVIOUS
    <3>2. Only(<<Waiting(W), [do |-> "key"]>>, W)
      <4>1. Only(<<Waiting(W)>>, W) /\ Only(<<[do |-> "key"]>>, W)
        BY <2>2, OnlyOne
      <4>2. Only(<<Waiting(W)>> \o <<[do |-> "key"]>>, W)
        BY <4>1, OnlyJoin
      <4>3. QED
        BY <3>1, <4>2
    <3>3. QED
      BY <2>2, <3>2, OnlyOne, OnlyJoin
  <2>4. todo[1].do = "waiting" /\ 1 \in DOMAIN todo
    BY DEF Drained, Waiting
  <2> HIDE DEF todo
  <2>5. UNCHANGED <<Stored, told, removed, faults, out>>
    BY <1>2 DEF History
  <2>6. "drop" \in {"sweep"} \cup Leaving /\ k \in Key \cup {NoKey} /\ p \in Player \cup {Nobody}
    BY DEF Leaving
  <2>7. Users(W) \subseteq Users(waiting) /\ p \notin Users(W)
    BY <2>2
  <2>8. QED
    BY <1>2, <2>2, <2>3, <2>4, <2>5, <2>6, <2>7, OnlyKeeps
<1>3. QED
  BY <1>1, <1>2 DEF Drop

LEMMA ForgetKeeps == ASSUME Inv, NEW t \in Task, NEW p \in Player, Forget(t, p) PROVE Inv'
<1> DEFINE W == Without(waiting, {p})
           first == IF p \in Users(waiting) THEN <<Waiting(W)>> \o Drained(W) ELSE << >>
           todo == first \o <<[do |-> "forget"]>>
<1>1. Start(t, "forget", p, NoKey, todo) /\ UNCHANGED <<Stored, History, enqueues, faults>>
  BY DEF Forget
<1>2. waiting \in Lists
  BY DEF Inv, Shape
<1>3. W \in Lists /\ Users(W) = Users(waiting) \ {p}
  BY <1>2, WithoutIs
<1> HIDE DEF W
<1>4. Only(todo, W)
  <2>1. Only(first, W)
    BY <1>3, OnlyOne, OnlyJoin
  <2> HIDE DEF first
  <2>2. QED
    BY <1>3, <2>1, OnlyOne, OnlyJoin
<1>5. \A i \in DOMAIN todo : todo[i].do # "key"
  BY DEF Drained, Waiting
<1> HIDE DEF todo
<1>6. UNCHANGED <<Stored, told, removed, faults, out>>
  BY <1>1 DEF History
<1>7. "forget" \in {"sweep"} \cup Leaving /\ NoKey \in Key \cup {NoKey} /\ p \in Player \cup {Nobody}
  BY DEF Leaving
<1>8. Users(W) \subseteq Users(waiting) /\ p \notin Users(W)
  BY <1>3
<1>9. QED
  BY <1>1, <1>3, <1>4, <1>5, <1>6, <1>7, <1>8, OnlyKeeps

LEMMA SweepKeeps == ASSUME Inv, NEW t \in Task, Sweep(t) PROVE Inv'
<1>1. UNCHANGED <<Stored, told, removed, faults, out>>
  BY DEF Sweep, History
<1>2. waiting \in Lists
  BY DEF Inv, Shape
<1>3. CASE waiting = << >>
  <2>1. Start(t, "sweep", Nobody, NoKey, <<[do |-> "disarm"]>>)
    BY <1>3 DEF Sweep
  <2> DEFINE todo == <<[do |-> "disarm"]>>
  <2>2. Only(todo, waiting)
    BY <1>2, OnlyOne
  <2>3. \A i \in DOMAIN todo : todo[i].do # "key"
    OBVIOUS
  <2> HIDE DEF todo
  <2>4. Start(t, "sweep", Nobody, NoKey, todo)
    BY <2>1 DEF todo
  <2>5. "sweep" \in {"sweep"} \cup Leaving /\ NoKey \in Key \cup {NoKey} /\ Nobody \in Player \cup {Nobody}
        /\ "sweep" \notin Leaving
    BY DEF Leaving
  <2>6. QED
    BY <1>1, <1>2, <2>2, <2>3, <2>4, <2>5, OnlyKeeps
<1>4. CASE waiting # << >>
  <2>1. Start(t, "sweep", Nobody, NoKey, Pair(waiting))
    BY <1>4 DEF Sweep
  <2>2. \A u \in Task : run[u] = NoTask
    BY <2>1 DEF Start, Free
  <2>3. /\ Users(waiting) \cap out = {}
        /\ faults = 0 => \A q \in Users(waiting) : match[q] = NoSession
    BY <2>2, AtRestKnows
  <2>4. "sweep" \in {"enqueue", "sweep"} /\ Nobody \in Player \cup {Nobody} /\ out' \subseteq out
        /\ Users(waiting) \cap out' = {}
    BY <1>1, <2>3
  <2>5. QED
    BY <1>1, <1>2, <2>1, <2>3, <2>4, PairKeeps
<1>5. QED
  BY <1>3, <1>4

-----------------------------------------------------------------------------
(* Losses, polls and the passing of time *)

LEMMA FaultKeeps == ASSUME Inv, Fault PROVE Inv'
<1>1. Shape /\ Outside /\ Keyed
  BY DEF Inv
<1>2. /\ run' = [t \in Task |-> NoTask] /\ faults' = faults + 1
      /\ waiting' = waiting /\ match' = match /\ drops' = drops /\ alarm' = alarm /\ minted' = minted
      /\ told' = told /\ removed' = removed /\ out' = out
  BY DEF Fault, Stored, History
<1>3. \A t \in Task : run'[t] = NoTask
  BY <1>2
<1>4. Shape'
  <2>1. run' \in [Task -> Tasks]
    BY <1>2, Idle
  <2>2. NoTask.made \in [Player -> 0 .. Len(minted)]
    <3>1. 0 \in 0 .. Len(minted)
      BY <1>1 DEF Shape
    <3>2. QED
      BY <3>1 DEF NoTask, NoSession
  <2>3. \A t \in Task : run'[t].made \in [Player -> 0 .. Len(minted)]
    BY <1>3, <2>2
  <2>4. faults' \in Nat
    BY <1>1, <1>2 DEF Shape
  <2>5. QED
    BY <1>1, <1>2, <2>1, <2>3, <2>4 DEF Shape
<1>5. Plans' /\ Serial'
  BY <1>3, Idle DEF Plans, Serial
<1>6. Outside'
  BY <1>1, <1>2, <1>3, Idle DEF Outside
<1>7. Keyed'
  BY <1>1, <1>2, <1>3, Idle DEF Keyed
<1>8. faults' # 0
  BY <1>1, <1>2 DEF Shape
<1>9. QED
  BY <1>4, <1>5, <1>6, <1>7, <1>8 DEF Inv

\* A poll takes a match away only to hand it over.
LEMMA StatusKeeps == ASSUME Inv, NEW p \in Player, Status(p) PROVE Inv'
<1>1. Shape /\ Outside /\ Keyed /\ Plans /\ Serial /\ (faults = 0 => Complete)
  BY DEF Inv
<1>2. /\ match' = [match EXCEPT ![p] = NoSession] /\ told' = [told EXCEPT ![p] = @ \cup {match[p]}]
      /\ waiting' = waiting /\ drops' = drops /\ alarm' = alarm /\ minted' = minted
      /\ run' = run /\ removed' = removed /\ out' = out /\ faults' = faults
  BY DEF Status
<1>3. /\ match \in [Player -> 0 .. Len(minted)] /\ told \in [Player -> SUBSET Nat]
      /\ minted \in Seq(Rosters) /\ waiting \in Lists /\ run \in [Task -> Tasks]
  BY <1>1 DEF Shape
<1>4. Len(minted) \in Nat
  BY <1>3
<1>5. match' \in [Player -> 0 .. Len(minted)] /\ told' \in [Player -> SUBSET Nat]
  <2>1. 0 \in 0 .. Len(minted) /\ match[p] \in Nat
    BY <1>3, <1>4
  <2>2. match' \in [Player -> 0 .. Len(minted)]
    BY <1>2, <1>3, <2>1 DEF NoSession
  <2>3. told' \in [Player -> SUBSET Nat]
    BY <1>2, <1>3, <2>1
  <2>4. QED
    BY <2>2, <2>3
<1>6. Shape'
  BY <1>1, <1>2, <1>5 DEF Shape
<1>7. Plans' /\ Serial'
  BY <1>1, <1>2 DEF Plans, Serial
<1>8. Outside' /\ Keyed'
  BY <1>1, <1>2 DEF Outside, Keyed
<1>9. \A q : match'[q] = match[q] \/ (q = p /\ match'[q] = NoSession /\ match[q] \in told'[q])
  BY <1>2, <1>3
<1>10. \A q \in Player : told[q] \subseteq told'[q]
  BY <1>2, <1>3
<1>11. ASSUME Complete
       PROVE  Complete'
  <2>1. ASSUME NEW s \in DOMAIN minted, NEW q \in Users(minted[s])
        PROVE  \/ match'[q] = s \/ s \in told'[q]
               \/ \E t \in Task : run[t].made[q] = s /\ q \in ToRecord(run[t]) \ ToMint(run[t])
    <3>1. q \in Player
      <4>1. minted[s] \in Seq(Waiter)
        BY <1>3 DEF Rosters
      <4>2. QED
        BY <4>1, UsersPlay
    <3>2. \/ match[q] = s \/ s \in told[q]
          \/ \E t \in Task : run[t].made[q] = s /\ q \in ToRecord(run[t]) \ ToMint(run[t])
      BY <1>11 DEF Complete
    <3>3. QED
      BY <1>9, <1>10, <3>1, <3>2
  <2>2. \A t \in Task : \A q \in ToRecord(run[t]) :
          match'[q] = NoSession \/ (match'[q] = run[t].made[q] /\ q \notin ToMint(run[t]))
    BY <1>9, <1>11 DEF Complete
  <2>3. \A q \in Users(waiting) : match'[q] = NoSession \/ \E t \in Task : Doing(run[t], "waiting") # {}
    BY <1>9, <1>11 DEF Complete
  <2>4. \A t \in Task : \A i \in Doing(run[t], "waiting") : \A q \in Users(run[t].todo[i].tickets) :
          match'[q] = NoSession
    BY <1>9, <1>11 DEF Complete
  <2>5. QED
    BY <1>2, <2>1, <2>2, <2>3, <2>4 DEF Complete
<1>12. QED
  BY <1>1, <1>2, <1>6, <1>7, <1>8, <1>11 DEF Inv

LEMMA OlderIs ==
  ASSUME NEW l \in Lists
  PROVE  Older(l) \in Lists /\ Users(Older(l)) = Users(l)
<1> DEFINE o == Older(l)
<1>1. l \in Seq(Waiter) /\ Distinct(l)
  BY DEF Lists
<1>2. Len(l) \in Nat /\ DOMAIN l = 1 .. Len(l) /\ \A i \in 1 .. Len(l) : l[i] \in Waiter
  BY <1>1
<1>3. o = [i \in 1 .. Len(l) |-> [l[i] EXCEPT !.age = IF @ < MaxWait THEN @ + 1 ELSE @]]
  BY <1>2 DEF Older
<1> HIDE DEF o
<1>4. ASSUME NEW i \in 1 .. Len(l)
      PROVE  o[i] \in Waiter /\ o[i].user = l[i].user
  <2>1. l[i] \in [user : Player, age : 0 .. MaxWait] /\ MaxWait \in Nat
    BY <1>2, SettingsAssumption DEF Waiter
  <2>2. o[i] = [l[i] EXCEPT !.age = IF @ < MaxWait THEN @ + 1 ELSE @]
    BY <1>3
  <2>3. (IF l[i].age < MaxWait THEN l[i].age + 1 ELSE l[i].age) \in 0 .. MaxWait
    BY <2>1
  <2>4. QED
    BY <2>1, <2>2, <2>3 DEF Waiter
<1>5. o \in Seq(Waiter) /\ DOMAIN o = 1 .. Len(l)
  <2>1. DOMAIN o = 1 .. Len(l)
    BY <1>3
  <2>2. o \in [1 .. Len(l) -> Waiter]
    BY <1>3, <1>4
  <2>3. QED
    BY <1>2, <2>1, <2>2
<1>6. Distinct(o)
  BY <1>1, <1>2, <1>4, <1>5 DEF Distinct
<1>7. Users(o) = Users(l)
  BY <1>2, <1>4, <1>5 DEF Users
<1>8. QED
  BY <1>5, <1>6, <1>7 DEF Lists, o

\* A task after a second: the lists it is about to write hold older tickets of the same players.
Aged(v, w) ==
  /\ v \in Tasks /\ v.op = w.op /\ v.who = w.who /\ v.key = w.key /\ v.made = w.made
  /\ \A what : Doing(v, what) = Doing(w, what)
  /\ \A i \in Doing(w, "mint") : v.todo[i] = w.todo[i]
  /\ \A i \in Doing(w, "match") : v.todo[i] = w.todo[i]
  /\ \A i \in Doing(w, "waiting") : Users(v.todo[i].tickets) = Users(w.todo[i].tickets)

LEMMA AgedIs ==
  ASSUME NEW v, NEW w, Aged(v, w), Planned(w)
  PROVE  ToRecord(v) = ToRecord(w) /\ ToMint(v) = ToMint(w) /\ Planned(v)
<1>1. ToRecord(v) = ToRecord(w) /\ ToMint(v) = ToMint(w)
  BY DEF Aged, ToRecord, ToMint
<1>2. QED
  BY <1>1 DEF Aged, Planned

Held(step) == IF step.do = "waiting" THEN Waiting(Older(step.tickets)) ELSE step

LEMMA Ages ==
  ASSUME NEW w \in Tasks
  PROVE  Aged([w EXCEPT !.todo = [i \in DOMAIN @ |-> Held(@[i])]], w)
<1> DEFINE b == [i \in DOMAIN w.todo |-> Held(w.todo[i])]
           v == [w EXCEPT !.todo = [i \in DOMAIN @ |-> Held(@[i])]]
<1>1. w.todo \in Seq(Writes)
  BY DEF Tasks
<1>2. Len(w.todo) \in Nat /\ DOMAIN w.todo = 1 .. Len(w.todo) /\ \A i \in DOMAIN w.todo : w.todo[i] \in Writes
  BY <1>1
<1>3. ASSUME NEW step \in Writes
      PROVE  /\ Held(step) \in Writes /\ Held(step).do = step.do
             /\ step.do = "waiting" => Users(Held(step).tickets) = Users(step.tickets)
             /\ step.do # "waiting" => Held(step) = step
  <2>1. CASE step.do = "waiting"
    <3>1. step.tickets \in Lists
      BY <2>1 DEF Writes
    <3>2. Older(step.tickets) \in Lists /\ Users(Older(step.tickets)) = Users(step.tickets)
      BY <3>1, OlderIs
    <3>3. Held(step) = [do |-> "waiting", tickets |-> Older(step.tickets)]
      BY <2>1 DEF Held, Waiting
    <3>4. Held(step) \in Writes
      BY <3>2, <3>3 DEF Writes
    <3>5. QED
      BY <2>1, <3>2, <3>3, <3>4
  <2>2. CASE step.do # "waiting"
    BY <2>2 DEF Held
  <2>3. QED
    BY <2>1, <2>2
<1>4. DOMAIN b = DOMAIN w.todo /\ \A i \in DOMAIN w.todo : b[i] = Held(w.todo[i])
  OBVIOUS
<1>5. b \in Seq(Writes)
  <2>1. b \in [1 .. Len(w.todo) -> Writes]
    BY <1>2, <1>3, <1>4
  <2>2. QED
    BY <1>2, <2>1
<1>6. v.todo = b /\ v.op = w.op /\ v.who = w.who /\ v.key = w.key /\ v.made = w.made
  BY DEF Tasks
<1>7. v \in Tasks
  BY <1>5 DEF Tasks
<1> HIDE DEF v, b
<1>8. \A what : Doing(v, what) = Doing(w, what)
  BY <1>2, <1>3, <1>4, <1>6 DEF Doing
<1>9. \A i \in DOMAIN w.todo : w.todo[i].do # "waiting" => v.todo[i] = w.todo[i]
  BY <1>2, <1>3, <1>4, <1>6
<1>10. \A i \in Doing(w, "waiting") : Users(v.todo[i].tickets) = Users(w.todo[i].tickets)
  BY <1>2, <1>3, <1>4, <1>6 DEF Doing
<1>11. \A i \in Doing(w, "mint") : v.todo[i] = w.todo[i]
  BY <1>9 DEF Doing
<1>12. \A i \in Doing(w, "match") : v.todo[i] = w.todo[i]
  BY <1>9 DEF Doing
<1>13. Aged(v, w)
  BY <1>6, <1>7, <1>8, <1>10, <1>11, <1>12 DEF Aged
<1>14. QED
  BY <1>13 DEF v

LEMMA TickKeeps == ASSUME Inv, Tick PROVE Inv'
<1>1. Shape /\ Outside /\ Keyed /\ Plans /\ Serial /\ (faults = 0 => Complete)
  BY DEF Inv
<1>2. run \in [Task -> Tasks] /\ waiting \in Lists
  BY <1>1 DEF Shape
<1>3. /\ waiting' = Older(waiting) /\ drops' = [k \in Key |-> Overdue(drops[k])]
      /\ run' = [t \in Task |-> [run[t] EXCEPT !.todo = [i \in DOMAIN @ |-> Held(@[i])]]]
      /\ match' = match /\ alarm' = alarm /\ minted' = minted
      /\ told' = told /\ removed' = removed /\ out' = out /\ faults' = faults
  BY DEF Tick, Held, History
<1>4. \A t \in Task : Aged(run'[t], run[t])
  BY <1>2, <1>3, Ages
<1>5. \A t \in Task : /\ ToRecord(run'[t]) = ToRecord(run[t]) /\ ToMint(run'[t]) = ToMint(run[t])
                      /\ Planned(run'[t])
  BY <1>1, <1>4, AgedIs DEF Plans
<1>6. waiting' \in Lists /\ Users(waiting') = Users(waiting)
  BY <1>2, <1>3, OlderIs
<1>7. ASSUME NEW k \in Key
      PROVE  /\ drops'[k] \in [user : Player \cup {Nobody}, age : 0 .. KeyLife + 1]
             /\ drops'[k].user = drops[k].user /\ (drops[k] = NoDrop => drops'[k] = NoDrop)
  <2>1. drops[k] \in [user : Player \cup {Nobody}, age : 0 .. KeyLife + 1] /\ KeyLife \in Nat
    BY <1>1, SettingsAssumption DEF Shape
  <2>2. drops'[k] = Overdue(drops[k])
    BY <1>3
  <2>3. CASE drops[k] # NoDrop /\ drops[k].age <= KeyLife
    <3>1. drops'[k] = [drops[k] EXCEPT !.age = @ + 1]
      BY <2>2, <2>3 DEF Overdue
    <3>2. drops[k].age + 1 \in 0 .. KeyLife + 1
      BY <2>1, <2>3
    <3>3. QED
      BY <2>1, <2>3, <3>1, <3>2
  <2>4. CASE ~(drops[k] # NoDrop /\ drops[k].age <= KeyLife)
    BY <2>1, <2>2, <2>4 DEF Overdue
  <2>5. QED
    BY <2>3, <2>4
<1>8. Shape'
  <2>1. run' \in [Task -> Tasks]
    <3>1. \A t \in Task : run'[t] \in Tasks
      BY <1>4 DEF Aged
    <3>2. QED
      BY <1>3, <3>1
  <2>2. \A t \in Task : run'[t].made \in [Player -> 0 .. Len(minted)]
    BY <1>1, <1>4 DEF Aged, Shape
  <2>3. drops' \in [Key -> [user : Player \cup {Nobody}, age : 0 .. KeyLife + 1]]
    BY <1>3, <1>7
  <2>4. QED
    BY <1>1, <1>3, <1>6, <2>1, <2>2, <2>3 DEF Shape
<1>9. Plans'
  BY <1>5 DEF Plans
<1>10. Serial'
  <2>1. ASSUME NEW t \in Task, run[t] = NoTask
        PROVE  run'[t] = NoTask
    <3> DEFINE b == [i \in DOMAIN << >> |-> Held(<< >>[i])]
    <3>1. run'[t] = [NoTask EXCEPT !.todo = b]
      BY <1>3, <2>1 DEF NoTask
    <3>2. b = << >>
      OBVIOUS
    <3> HIDE DEF b
    <3>3. QED
      BY <3>1, <3>2 DEF NoTask
  <2>2. QED
    BY <1>1, <2>1 DEF Serial
<1>11. Outside'
  <2>1. Users(waiting') \cap out = {}
    BY <1>1, <1>6 DEF Outside
  <2>2. \A t \in Task : /\ ToMint(run'[t]) \cap out = {}
                         /\ \A i \in Doing(run'[t], "waiting") : Users(run'[t].todo[i].tickets) \cap out = {}
    BY <1>1, <1>4, <1>5 DEF Outside, Aged
  <2>3. QED
    BY <1>3, <2>1, <2>2 DEF Outside
<1>12. Keyed'
  <2>1. \A k \in Key : drops'[k] = NoDrop \/ <<k, drops'[k].user>> \in removed
    BY <1>1, <1>7 DEF Keyed
  <2>2. \A t \in Task : Doing(run'[t], "key") # {} =>
          1 \in Doing(run'[t], "waiting") \/ <<run'[t].key, run'[t].who>> \in removed
    BY <1>1, <1>4 DEF Keyed, Aged
  <2>3. QED
    BY <1>3, <2>1, <2>2 DEF Keyed
<1>13. ASSUME Complete
       PROVE  Complete'
  <2>1. \A s \in DOMAIN minted : \A p \in Users(minted[s]) :
          \/ match[p] = s \/ s \in told[p]
          \/ \E t \in Task : run'[t].made[p] = s /\ p \in ToRecord(run'[t]) \ ToMint(run'[t])
    BY <1>4, <1>5, <1>13 DEF Complete, Aged
  <2>2. \A t \in Task : \A p \in ToRecord(run'[t]) :
          match[p] = NoSession \/ (match[p] = run'[t].made[p] /\ p \notin ToMint(run'[t]))
    BY <1>4, <1>5, <1>13 DEF Complete, Aged
  <2>3. \A p \in Users(waiting') : match[p] = NoSession \/ \E t \in Task : Doing(run'[t], "waiting") # {}
    BY <1>4, <1>6, <1>13 DEF Complete, Aged
  <2>4. \A t \in Task : \A i \in Doing(run'[t], "waiting") : \A p \in Users(run'[t].todo[i].tickets) :
          match[p] = NoSession
    BY <1>4, <1>13 DEF Complete, Aged
  <2>5. minted' = minted /\ match' = match /\ told' = told
    BY <1>3
  <2>6. QED
    BY <2>1, <2>2, <2>3, <2>4, <2>5 DEF Complete
<1>14. QED
  BY <1>1, <1>3, <1>8, <1>9, <1>10, <1>11, <1>12, <1>13 DEF Inv

-----------------------------------------------------------------------------
(* The invariant *)

LEMMA Starting == Init => Inv
<1> SUFFICES ASSUME Init PROVE Inv
  OBVIOUS
<1>1. /\ waiting = << >> /\ match = [p \in Player |-> NoSession] /\ drops = [k \in Key |-> NoDrop]
      /\ alarm = FALSE /\ minted = << >> /\ run = [t \in Task |-> NoTask]
      /\ told = [p \in Player |-> {}] /\ removed = {} /\ out = {} /\ faults = 0
  BY DEF Init
<1>2. \A t \in Task : run[t] = NoTask
  BY <1>1
<1>3. << >> \in Lists /\ Users(<< >>) = {}
  BY DEF Lists, Distinct, Users
<1>4. Shape
  <2>1. << >> \in Seq(Rosters) /\ Len(<< >>) = 0
    OBVIOUS
  <2>2. NoDrop \in [user : Player \cup {Nobody}, age : 0 .. KeyLife + 1]
    BY SettingsAssumption DEF NoDrop
  <2>3. drops \in [Key -> [user : Player \cup {Nobody}, age : 0 .. KeyLife + 1]]
    BY <1>1, <2>2
  <2>4. match \in [Player -> 0 .. 0] /\ NoTask.made \in [Player -> 0 .. 0]
    BY <1>1 DEF NoSession, NoTask
  <2>5. run \in [Task -> Tasks]
    BY <1>1, Idle
  <2>6. told \in [Player -> SUBSET Nat] /\ alarm \in BOOLEAN /\ faults \in Nat
    BY <1>1
  <2>7. QED
    BY <1>1, <1>2, <1>3, <2>1, <2>3, <2>4, <2>5, <2>6 DEF Shape
<1>5. Plans /\ Serial
  BY <1>2, Idle DEF Plans, Serial
<1>6. Outside /\ Keyed
  BY <1>1, <1>2, <1>3, Idle DEF Outside, Keyed
<1>7. Complete
  <2>1. DOMAIN minted = {} /\ Users(waiting) = {}
    BY <1>1, <1>3
  <2>2. QED
    BY <1>2, <2>1, Idle DEF Complete
<1>8. QED
  BY <1>4, <1>5, <1>6, <1>7 DEF Inv

LEMMA StepKeeps == ASSUME Inv, NEW t \in Task, Step(t) PROVE Inv'
<1>1. PICK v : Onward(t, v)
  BY StepOnward
<1>2. Shape /\ Outside /\ Keyed /\ (faults = 0 => Complete)
  BY DEF Inv
<1>3. faults' = faults
  BY DEF Step
<1>4. Shape'
  BY <1>1, <1>2, <1>3, StepShape
<1>5. Plans' /\ Serial'
  BY <1>1, <1>2, StepPlans
<1>6. Outside'
  BY <1>1, <1>2, StepOutside
<1>7. Keyed'
  BY <1>1, <1>2, StepKeyed
<1>8. faults' = 0 => Complete'
  BY <1>1, <1>2, <1>3, StepComplete
<1>9. QED
  BY <1>4, <1>5, <1>6, <1>7, <1>8 DEF Inv

LEMMA NextKeeps == Inv /\ [Next]_vars => Inv'
<1> SUFFICES ASSUME Inv, [Next]_vars PROVE Inv'
  OBVIOUS
<1>1. CASE \E t \in Task : Step(t)
  BY <1>1, StepKeeps
<1>2. CASE \E t \in Task : Sweep(t)
  BY <1>2, SweepKeeps
<1>3. CASE \E t \in Task : \E p \in Player : Enqueue(t, p)
  BY <1>3, EnqueueKeeps
<1>4. CASE \E t \in Task : \E p \in Player : Leave(t, p)
  BY <1>4, LeaveKeeps
<1>5. CASE \E t \in Task : \E p \in Player : Forget(t, p)
  BY <1>5, ForgetKeeps
<1>6. CASE \E t \in Task : \E p \in Player, k \in Key : Drop(t, p, k)
  BY <1>6, DropKeeps
<1>7. CASE \E p \in Player : Status(p)
  BY <1>7, StatusKeeps
<1>8. CASE Fault
  BY <1>8, FaultKeeps
<1>9. CASE Tick
  BY <1>9, TickKeeps
<1>10. CASE UNCHANGED vars
  BY <1>10, SameKeeps DEF vars, Stored, History
<1>11. QED
  BY <1>1, <1>2, <1>3, <1>4, <1>5, <1>6, <1>7, <1>8, <1>9, <1>10 DEF Next

\* Who waits twice would make the list longer than its players.
LEMMA DistinctCounts == ASSUME NEW l \in Lists PROVE Len(l) = Cardinality(Users(l))
<1> DEFINE N == Len(l)
           f == [i \in 1 .. N |-> l[i].user]
<1>1. N \in Nat /\ DOMAIN l = 1 .. N /\ \A i, j \in 1 .. N : l[i].user = l[j].user => i = j
  BY DEF Lists, Distinct
<1>2. Users(l) = {l[i].user : i \in 1 .. N}
  BY <1>1 DEF Users
<1>3. f \in Bijection(1 .. N, Users(l))
  <2> HIDE DEF N
  <2>1. f \in [1 .. N -> Users(l)]
    BY <1>2
  <2>2. \A i, j \in 1 .. N : f[i] = f[j] => i = j
    BY <1>1
  <2>3. \A u \in Users(l) : \E i \in 1 .. N : f[i] = u
    BY <1>2
  <2> HIDE DEF f
  <2>4. QED
    BY <2>1, <2>2, <2>3 DEF Bijection, Injection, Surjection, IsInjective
<1>4. ExistsBijection(1 .. N, Users(l))
  <2> HIDE DEF N, f
  <2>1. QED
    BY <1>3 DEF ExistsBijection
<1>5. QED
  <2> HIDE DEF N
  <2>1. QED
    BY <1>1, <1>4, FS_CountingElements

LEMMA InvTypes == Inv => TypeOK
<1> SUFFICES ASSUME Inv PROVE TypeOK
  OBVIOUS
<1>1. Shape
  BY DEF Inv
<1>2. waiting \in Lists /\ waiting \in Seq(Waiter)
  BY <1>1 DEF Shape, Lists
<1>3. Users(waiting) \subseteq Player /\ Len(waiting) = Cardinality(Users(waiting))
  BY <1>2, UsersPlay, DistinctCounts
<1>4. \A i \in DOMAIN waiting : waiting[i].age \in 0 .. MaxWait
  <2>1. \A i \in DOMAIN waiting : waiting[i] \in Waiter
    BY <1>2
  <2>2. QED
    BY <2>1 DEF Waiter
<1>5. QED
  BY <1>1, <1>3, <1>4 DEF Shape, TypeOK

LEMMA Wider ==
  ASSUME NEW a \in Int, NEW b \in Int
  PROVE  a <= Max({a, b}) /\ b <= Max({a, b})
<1>1. Max({a, b}) = IF a >= b THEN a ELSE b
  BY DEF Max
<1>2. QED
  BY <1>1

\* The pairing rule does not depend on who of the two came first.
LEMMA GapBothWays ==
  ASSUME NEW a \in Waiter, NEW b \in Waiter, Unrated \notin {Skill[a.user], Skill[b.user]}
  PROVE  Gap(a, b) = Gap(b, a) /\ Gap(a, b) \in Nat
<1>1. Skill[a.user] \in Nat /\ Skill[b.user] \in Nat
  BY PlayerAssumption DEF Waiter
<1>2. QED
  BY <1>1 DEF Gap

LEMMA FitsBothWays ==
  ASSUME NEW a \in Waiter, NEW b \in Waiter, Fits(a, b) \/ Fits(b, a),
         Unrated \notin {Skill[a.user], Skill[b.user]}, a.age < MaxWait, b.age < MaxWait
  PROVE  LET band(x) == InitialBand + WidenPerSecond * x.age
         IN Gap(a, b) <= Max({band(a), band(b)})
<1> DEFINE band(x) == InitialBand + WidenPerSecond * x.age
<1>1. a.age \in Nat /\ b.age \in Nat /\ MaxWait \in Nat
  BY SettingsAssumption DEF Waiter
<1>2. band(a) \in Int /\ band(b) \in Int
  BY <1>1, SettingsAssumption
<1>3. Gap(a, b) = Gap(b, a) /\ Gap(a, b) \in Nat
  BY GapBothWays
<1>4. \E x \in {a, b} : Reaches(x, Gap(a, b))
  <2>1. (\E x \in {a, b} : Reaches(x, Gap(a, b))) \/ (\E x \in {b, a} : Reaches(x, Gap(b, a)))
    BY DEF Fits, Compatible
  <2>2. QED
    BY <1>3, <2>1
<1>5. Gap(a, b) <= band(a) \/ Gap(a, b) <= band(b)
  <2>1. \A x \in {a, b} : Reaches(x, Gap(a, b)) => Gap(a, b) <= band(x)
    <3>1. \A x \in {a, b} : ~(x.age >= MaxWait)
      BY <1>1
    <3>2. QED
      BY <3>1 DEF Reaches
  <2>2. QED
    BY <1>4, <2>1
<1> HIDE DEF band
<1>6. band(a) <= Max({band(a), band(b)}) /\ band(b) <= Max({band(a), band(b)}) /\ Max({band(a), band(b)}) \in Int
  <2>1. Max({band(a), band(b)}) = IF band(a) >= band(b) THEN band(a) ELSE band(b)
    BY <1>2 DEF Max
  <2>2. QED
    BY <1>2, <2>1
<1>7. Gap(a, b) <= Max({band(a), band(b)})
  BY <1>2, <1>3, <1>5, <1>6
<1>8. QED
  BY <1>7 DEF band

LEMMA InvFair == Inv => PairedFairly
<1> SUFFICES ASSUME Inv,
                    NEW s \in DOMAIN minted, NEW i \in DOMAIN minted[s], NEW j \in DOMAIN minted[s], i # j
             PROVE  LET a == minted[s][i]
                        b == minted[s][j]
                        rated == Unrated \notin {Skill[a.user], Skill[b.user]}
                        band(x) == InitialBand + WidenPerSecond * x.age
                    IN /\ a.user # b.user /\ Region[a.user] = Region[b.user]
                       /\ rated /\ a.age < MaxWait /\ b.age < MaxWait => Gap(a, b) <= Max({band(a), band(b)})
  BY DEF PairedFairly
<1> DEFINE a == minted[s][i]
           b == minted[s][j]
<1>1. minted[s] \in Rosters
  BY DEF Inv, Shape
<1>2. /\ minted[s] \in Seq(Waiter)
      /\ \A m, n \in DOMAIN minted[s] : m < n => Fits(minted[s][m], minted[s][n])
  BY <1>1 DEF Rosters
<1>3. a \in Waiter /\ b \in Waiter /\ i \in Nat /\ j \in Nat
  BY <1>2
<1>4. Fits(a, b) \/ Fits(b, a)
  <2>1. i < j \/ j < i
    BY <1>3
  <2>2. QED
    BY <1>2, <2>1
<1> HIDE DEF a, b
<1>5. a.user # b.user /\ Region[a.user] = Region[b.user]
  BY <1>4 DEF Fits
<1>6. ASSUME Unrated \notin {Skill[a.user], Skill[b.user]}, a.age < MaxWait, b.age < MaxWait
      PROVE  LET band(x) == InitialBand + WidenPerSecond * x.age
             IN Gap(a, b) <= Max({band(a), band(b)})
  BY <1>3, <1>4, <1>6, FitsBothWays
<1>7. QED
  BY <1>5, <1>6 DEF a, b

LEMMA InvMisses == Inv => NobodyMissing
BY Resting DEF Inv, NobodyMissing, AtRest

\* A step's replies, and whom it mints for.
LEMMA StaysOut ==
  ASSUME Inv, Next
  PROVE  /\ minted' # minted => Users(Last(minted')) \cap out = {}
         /\ reply'.answer = "replayed" => <<reply'.key, reply'.who>> \in removed'
<1>1. NoReply.answer # "replayed"
  BY DEF NoReply
<1>2. ASSUME NEW t \in Task, Step(t)
      PROVE  /\ minted' # minted => Users(Last(minted')) \cap out = {}
             /\ reply'.answer # "replayed"
  <2> DEFINE h == run[t].todo[1]
  <2>1. reply'.answer # "replayed"
    BY <1>1, <1>2 DEF Step, Answer
  <2>2. PICK v : Onward(t, v)
    BY <1>2, StepOnward
  <2>3. h \in Writes /\ Perform(run[t], h) /\ Rest(v, run[t])
    BY <2>2 DEF Onward
  <2>4. Shape /\ ToMint(run[t]) \cap out = {}
    BY DEF Inv, Outside
  <2> HIDE DEF h
  <2>5. ASSUME h.do = "mint"
        PROVE  Users(Last(minted')) \cap out = {}
    <3>1. Len(minted') = Len(minted) + 1 /\ minted'[Len(minted) + 1] = h.roster
      BY <2>3, <2>4, <2>5, Minting
    <3>2. Last(minted') = h.roster
      BY <3>1 DEF Last
    <3>3. Users(h.roster) \subseteq ToMint(run[t])
      BY <2>3, <2>5 DEF Rest, h
    <3>4. QED
      BY <2>4, <3>2, <3>3
  <2>6. h.do # "mint" => minted' = minted
    BY <2>3 DEF Perform
  <2>7. QED
    BY <2>1, <2>5, <2>6
<1>3. ASSUME NEW t \in Task, NEW p \in Player, NEW k \in Key, Drop(t, p, k)
      PROVE  /\ minted' = minted
             /\ reply'.answer = "replayed" => <<reply'.key, reply'.who>> \in removed'
  <2>1. CASE SameDrop(k, p) /\ Refuse(t, Answer(p, k, "replayed"))
    <3>1. drops[k].user = p /\ drops[k] # NoDrop
      BY <2>1, PlayerAssumption DEF SameDrop, NoDrop
    <3>2. <<k, p>> \in removed
      BY <3>1 DEF Inv, Keyed
    <3>3. reply'.key = k /\ reply'.who = p /\ removed' = removed /\ minted' = minted
      BY <2>1 DEF Refuse, Answer, History, Stored
    <3>4. QED
      BY <3>2, <3>3
  <2>2. CASE Refuse(t, Answer(p, k, "conflict")) \/ Refuse(t, Answer(p, k, "not_queued"))
    BY <2>2 DEF Refuse, Answer, Stored
  <2>3. CASE /\ \E todo : Start(t, "drop", p, k, todo)
             /\ UNCHANGED <<Stored, History, enqueues, faults>>
    BY <1>1, <2>3 DEF Start, Stored
  <2>4. QED
    BY <1>3, <2>1, <2>2, <2>3 DEF Drop
<1>4. CASE \E t \in Task : Sweep(t)
  BY <1>1, <1>4 DEF Sweep, Start, Stored
<1>5. CASE \E t \in Task : \E p \in Player : Enqueue(t, p)
  BY <1>1, <1>5 DEF Enqueue, Start, Refuse, Stored
<1>6. CASE \E t \in Task : \E p \in Player : Leave(t, p) \/ Forget(t, p)
  BY <1>1, <1>6 DEF Leave, Forget, Start, Refuse, Stored
<1>7. CASE (\E p \in Player : Status(p)) \/ Fault \/ Tick
  BY <1>1, <1>7 DEF Status, Fault, Tick, Stored
<1>8. QED
  BY <1>2, <1>3, <1>4, <1>5, <1>6, <1>7 DEF Next

-----------------------------------------------------------------------------
(* What is proved of the queue *)

(***************************************************************************)
(* The stored state is well formed: nobody waits twice, and no record,     *)
(* nor any that a task is about to write, names a session that was not     *)
(* minted (durableObject.ts enqueueNow, applyMatches).                     *)
(***************************************************************************)
THEOREM QueueTypes == Spec => []TypeOK
<1>1. Spec => []Inv
  BY Starting, NextKeeps, PTL DEF Spec
<1>2. QED
  BY <1>1, InvTypes, PTL

(***************************************************************************)
(* Every two players of a minted roster are of one region and, when rated  *)
(* and not at the end of their wait, within the wider of their bands, for  *)
(* rosters of any size (matching.ts formMatches, compatible).              *)
(***************************************************************************)
THEOREM QueuePairsFairly == Spec => []PairedFairly
<1>1. Spec => []Inv
  BY Starting, NextKeeps, PTL DEF Spec
<1>2. QED
  BY <1>1, InvFair, PTL

(***************************************************************************)
(* At rest, and while nothing was lost, each player of every minted        *)
(* session has it recorded or was handed it: applyMatches records all of a *)
(* roster, and no later write takes a record away but the poll that hands  *)
(* it over or the player's erasure.                                        *)
(***************************************************************************)
THEOREM QueueMissesNobody == Spec => []NobodyMissing
<1>1. Spec => []Inv
  BY Starting, NextKeeps, PTL DEF Spec
<1>2. QED
  BY <1>1, InvMisses, PTL

(***************************************************************************)
(* Who left, was dropped or was forgotten is neither written back nor      *)
(* seated until they enqueue again, and a replayed drop is one whose key   *)
(* took that player out (durableObject.ts serialize, dropNow), whatever is *)
(* lost or expires on the way.                                             *)
(***************************************************************************)
THEOREM QueueKeepsOut == Spec => OutStaysOut
<1> DEFINE A == /\ Users(waiting') \cap out' = {}
                /\ minted' # minted => Users(Last(minted')) \cap out = {}
                /\ reply'.answer = "replayed" => <<reply'.key, reply'.who>> \in removed'
<1>1. Spec => []Inv
  BY Starting, NextKeeps, PTL DEF Spec
<1>2. Inv /\ Inv' /\ [Next]_vars => [A]_vars
  <2> SUFFICES ASSUME Inv, Inv', Next PROVE A
    OBVIOUS
  <2>1. Users(waiting') \cap out' = {}
    BY DEF Inv, Outside
  <2>2. QED
    BY <2>1, StaysOut
<1>3. QED
  BY <1>1, <1>2, PTL DEF Spec, OutStaysOut
=============================================================================
