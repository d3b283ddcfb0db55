------------------------------- MODULE MatchQueue -------------------------------
(***************************************************************************)
(* The open queue of one game: a Durable Object that keeps who is waiting, *)
(* pairs them when someone enqueues and at every sweep of its alarm, mints *)
(* a session for each full roster and records it for each of its players.  *)
(*                                                                         *)
(* Every method that rewrites the waiting list runs after the one before   *)
(* it; a poll of one's status does not, and is delivered while a task is   *)
(* away minting. As in Session, a task's writes are known when it starts   *)
(* and are performed one per step.                                         *)
(*                                                                         *)
(* Time is kept as the age of each ticket and of each drop key, which      *)
(* stops growing where the code stops telling ages apart.                  *)
(***************************************************************************)
EXTENDS Integers, SequencesExt

CONSTANTS
  Task,        \* calls in progress or queued on the object
  Player,
  Skill,       \* Player -> a number, or Unrated
  Unrated,
  Nobody, NoKey, \* no player, no key
  Region,      \* Player -> the bucket they are pinned to
  Key,         \* the idempotency keys operators drop players with
  Need,        \* players in a match
  InitialBand, WidenPerSecond, MaxWait,  \* the queue settings
  KeyLife,     \* DROP_KEY_RETENTION_MS
  MaxEnqueues, \* bound on the calls to enqueue
  MaxFaults    \* bound on lost objects and failed mints

ASSUME NeedAssumption == Need \in Nat /\ Need >= 2

ASSUME SettingsAssumption ==
  InitialBand \in Nat /\ WidenPerSecond \in Nat /\ MaxWait \in Nat /\ KeyLife \in Nat

ASSUME PlayerAssumption ==
  /\ DOMAIN Skill = Player /\ DOMAIN Region = Player
  /\ Nobody \notin Player
  /\ \A p \in Player : Skill[p] = Unrated \/ Skill[p] \in Nat

VARIABLES
  waiting,  \* the waiting list: tickets, oldest first
  match,    \* Player -> the session recorded for them, or NoSession
  drops,    \* Key -> the drop recorded under it, or NoDrop
  alarm,    \* whether the sweep is set
  minted,   \* the sessions minted, by id: the rosters as they were paired
  run,      \* Task -> what it does
  reply,    \* what a drop that just finished was answered
  told,     \* history: Player -> the sessions status handed them or forget erased
  removed,  \* history: <<key, player>> for each drop that took a player out
  out,      \* history: who left or was dropped or forgotten since they last enqueued
  enqueues, faults

vars == <<waiting, match, drops, alarm, minted, run, reply, told, removed, out, enqueues, faults>>

Stored == <<waiting, match, drops, alarm, minted>>

History == <<told, removed, out>>

NoSession == 0

NoDrop == [user |-> Nobody, age |-> 0]

NoTask == [op |-> "idle", who |-> Nobody, key |-> NoKey, todo |-> << >>, made |-> [p \in Player |-> NoSession]]

NoReply == [who |-> Nobody, key |-> NoKey, answer |-> "none"]

Ticket(p) == [user |-> p, age |-> 0]

Users(tickets) == {tickets[i].user : i \in DOMAIN tickets}

\* The tickets of everyone but the players gone.
Without(tickets, gone) ==
  FoldLeft(LAMBDA kept, x : IF x.user \in gone THEN kept ELSE Append(kept, x), << >>, tickets)

Init ==
  /\ waiting = << >>
  /\ match = [p \in Player |-> NoSession]
  /\ drops = [k \in Key |-> NoDrop]
  /\ alarm = FALSE
  /\ minted = << >>
  /\ run = [t \in Task |-> NoTask]
  /\ reply = NoReply
  /\ told = [p \in Player |-> {}]
  /\ removed = {} /\ out = {}
  /\ enqueues = 0 /\ faults = 0

-----------------------------------------------------------------------------
(* The pairing rule *)

Gap(a, b) == IF Skill[a.user] > Skill[b.user] THEN Skill[a.user] - Skill[b.user] ELSE Skill[b.user] - Skill[a.user]

Reaches_NeverOpens(a, gap) == gap <= InitialBand + WidenPerSecond * a.age

\* band: a ticket's window widens with its wait, and past MaxWait it opens to anyone.
Reaches(a, gap) == a.age >= MaxWait \/ gap <= InitialBand + WidenPerSecond * a.age

\* compatible: the wider of the two bands decides; an unrated player pairs with anyone.
Compatible(a, b) ==
  \/ Unrated \in {Skill[a.user], Skill[b.user]}
  \/ \E x \in {a, b} : Reaches(x, Gap(a, b))

MayJoin_AnchorOnly(roster, x) ==
  Len(roster) < Need /\ Region[x.user] = Region[roster[1].user] /\ Compatible(roster[1], x)

\* A candidate fits every member of the roster, not only its anchor.
MayJoin(roster, x) ==
  /\ Len(roster) < Need
  /\ \A i \in DOMAIN roster : Region[x.user] = Region[roster[i].user] /\ Compatible(roster[i], x)

\* The oldest waiter not yet seated anchors a roster and younger ones, in order, fill it.
Fill(tickets, i, seated) ==
  LET joined(roster, x) == IF x.user \notin seated /\ MayJoin(roster, x) THEN Append(roster, x) ELSE roster
  IN FoldLeft(joined, <<tickets[i]>>, SubSeq(tickets, i + 1, Len(tickets)))

\* The rosters formed, waiter by waiter. Which region's come first is not observed, so they come by
\* their anchors' age; an anchor whose roster does not fill keeps waiting.
FormMatches(tickets) ==
  LET formed[i \in 1 .. Len(tickets) + 1] == [seated \in SUBSET Users(tickets) |->
        IF i > Len(tickets) THEN << >>
        ELSE LET roster == Fill(tickets, i, seated)
             IN IF tickets[i].user \in seated \/ Len(roster) < Need
                  THEN formed[i + 1][seated]
                  ELSE <<roster>> \o formed[i + 1][seated \cup Users(roster)]]
  IN formed[1][{}]

Seated(rosters) == UNION {Users(rosters[i]) : i \in DOMAIN rosters}

-----------------------------------------------------------------------------
(* Writes and tasks *)

Reconcile(tickets) == <<[do |-> IF tickets = << >> THEN "disarm" ELSE "arm"]>>

\* leave, drop and forget: an empty queue needs no sweep.
Drained(tickets) == IF tickets = << >> THEN <<[do |-> "disarm"]>> ELSE << >>

Waiting(tickets) == [do |-> "waiting", tickets |-> tickets]

Recorded_ButAnchor(paired) == [i \in 1 .. Len(paired) - 1 |-> [do |-> "match", user |-> paired[i + 1].user]]

\* Every player of a minted roster gets a record of it, until a poll collects it.
Recorded(paired) == [i \in DOMAIN paired |-> [do |-> "match", user |-> paired[i].user]]

\* applyMatches, then reconcileAlarm: mint every roster, record its players, write who is left and
\* push the news to presence, which keeps nothing of the queue.
Pair(tickets) ==
  LET rosters == FormMatches(tickets)
      left == Without(tickets, Seated(rosters))
  IN [i \in DOMAIN rosters |-> [do |-> "mint", roster |-> rosters[i]]]
     \o Recorded(FlattenSeq(rosters)) \o <<Waiting(left)>>
     \o (IF rosters = << >> THEN << >> ELSE <<[do |-> "notify"]>>)
     \o Reconcile(left)

Free_Unqueued == TRUE

\* serialize: a mutation starts only once the one before it has settled.
Free == \A t \in Task : run[t] = NoTask

Answer(who, key, answer) == [who |-> who, key |-> key, answer |-> answer]

Refuse(t, answer) ==
  /\ run[t] = NoTask /\ Free
  /\ reply' = answer
  /\ UNCHANGED <<Stored, History, run, enqueues, faults>>

Start(t, op, who, key, todo) ==
  /\ run[t] = NoTask /\ Free
  /\ run' = [run EXCEPT ![t] = [NoTask EXCEPT !.op = op, !.who = who, !.key = key, !.todo = todo]]
  /\ reply' = NoReply

Named(p) == {k \in Key : drops[k].user = p}

\* The writes themselves, of a task w.
Perform(w, step) ==
  /\ waiting' = IF step.do = "waiting" THEN step.tickets ELSE waiting
  /\ match' = CASE step.do = "match" -> [match EXCEPT ![step.user] = w.made[step.user]]
                [] step.do = "forget" -> [match EXCEPT ![w.who] = NoSession]
                [] OTHER -> match
  /\ drops' = CASE step.do = "key" -> [drops EXCEPT ![w.key] = [user |-> w.who, age |-> 0]]
                [] step.do = "prune" -> [k \in Key |-> IF drops[k].age > KeyLife THEN NoDrop ELSE drops[k]]
                [] step.do = "forget" -> [k \in Key |-> IF k \in Named(w.who) THEN NoDrop ELSE drops[k]]
                [] OTHER -> drops
  /\ alarm' = CASE step.do = "arm" -> TRUE [] step.do = "disarm" -> FALSE [] OTHER -> alarm
  /\ minted' = IF step.do = "mint" THEN Append(minted, step.roster) ELSE minted
  /\ out' = IF step.do = "waiting" /\ w.op \in {"leave", "drop", "forget"} THEN out \cup {w.who} ELSE out
  /\ removed' = IF step.do = "waiting" /\ w.op = "drop" THEN removed \cup {<<w.key, w.who>>} ELSE removed
  /\ told' = IF step.do = "forget" THEN [told EXCEPT ![w.who] = @ \cup ({match[w.who]} \ {NoSession})] ELSE told

Made(w, step) ==
  IF step.do = "mint"
    THEN [p \in Player |-> IF p \in Users(step.roster) THEN Len(minted) + 1 ELSE w.made[p]]
    ELSE w.made

Step(t) ==
  LET w == run[t]
      step == Head(w.todo)
  IN /\ w.todo # << >>
     /\ Perform(w, step)
     /\ IF Len(w.todo) = 1
          THEN /\ run' = [run EXCEPT ![t] = NoTask]
               /\ reply' = IF w.op = "drop" THEN Answer(w.who, w.key, "done") ELSE NoReply
          ELSE /\ run' = [run EXCEPT ![t].todo = Tail(@), ![t].made = Made(w, step)]
               /\ reply' = NoReply
     /\ UNCHANGED <<enqueues, faults>>

\* The object is lost, or a mint fails and its task throws.
Fault ==
  /\ faults < MaxFaults
  /\ \E t \in Task : run[t] # NoTask
  /\ run' = [t \in Task |-> NoTask]
  /\ reply' = NoReply
  /\ faults' = faults + 1
  /\ UNCHANGED <<Stored, History, enqueues>>

-----------------------------------------------------------------------------
(* The calls *)

\* A match already waiting for the player wins.
Undelivered(p) == match[p] # NoSession

\* A second enqueue replaces the ticket, with a fresh wait.
Upsert(p) == Append(Without(waiting, {p}), Ticket(p))

Enqueue(t, p) ==
  /\ enqueues < MaxEnqueues
  /\ \/ Undelivered(p) /\ Refuse(t, NoReply)
     \/ /\ ~Undelivered(p)
        /\ Start(t, "enqueue", p, NoKey, Pair(Upsert(p)))
        /\ enqueues' = enqueues + 1
        /\ out' = out \ {p}
        /\ UNCHANGED <<Stored, told, removed, faults>>

Leave(t, p) ==
  \/ p \notin Users(waiting) /\ Refuse(t, NoReply)
  \/ /\ p \in Users(waiting)
     /\ Start(t, "leave", p, NoKey, <<Waiting(Without(waiting, {p}))>> \o Drained(Without(waiting, {p})))
     /\ UNCHANGED <<Stored, History, enqueues, faults>>

SameDrop_AnyPlayer(k, p) == drops[k] # NoDrop

SameDrop(k, p) == drops[k].user = p

Drop(t, p, k) ==
  \/ SameDrop(k, p) /\ Refuse(t, Answer(p, k, "replayed"))
  \/ drops[k] # NoDrop /\ ~SameDrop(k, p) /\ Refuse(t, Answer(p, k, "conflict"))
  \/ drops[k] = NoDrop /\ p \notin Users(waiting) /\ Refuse(t, Answer(p, k, "not_queued"))
  \/ /\ drops[k] = NoDrop /\ p \in Users(waiting)
     /\ Start(t, "drop", p, k,
              <<Waiting(Without(waiting, {p})), [do |-> "key"]>>
              \o Drained(Without(waiting, {p})) \o <<[do |-> "prune"]>>)
     /\ UNCHANGED <<Stored, History, enqueues, faults>>

Forget(t, p) ==
  /\ Start(t, "forget", p, NoKey,
           (IF p \in Users(waiting) THEN <<Waiting(Without(waiting, {p}))>> \o Drained(Without(waiting, {p}))
                                    ELSE << >>) \o <<[do |-> "forget"]>>)
  /\ UNCHANGED <<Stored, History, enqueues, faults>>

\* The input gate: an event is delivered only while no task waits for the object's own storage.
Delivered == \A t \in Task : run[t] # NoTask => Head(run[t].todo).do \in {"mint", "notify"}

\* A poll reads and clears the match in one go: it is handed over once.
Status(p) ==
  /\ Delivered /\ match[p] # NoSession
  /\ match' = [match EXCEPT ![p] = NoSession]
  /\ told' = [told EXCEPT ![p] = @ \cup {match[p]}]
  /\ reply' = NoReply
  /\ UNCHANGED <<waiting, drops, alarm, minted, run, removed, out, enqueues, faults>>

\* The alarm is delivered again until its handler returns.
Sweep(t) ==
  /\ alarm
  /\ Start(t, "sweep", Nobody, NoKey, IF waiting = << >> THEN <<[do |-> "disarm"]>> ELSE Pair(waiting))
  /\ UNCHANGED <<Stored, History, enqueues, faults>>

Older(tickets) == [i \in DOMAIN tickets |-> [tickets[i] EXCEPT !.age = IF @ < MaxWait THEN @ + 1 ELSE @]]

Overdue(drop) == IF drop # NoDrop /\ drop.age <= KeyLife THEN [drop EXCEPT !.age = @ + 1] ELSE drop

\* A second passes, for the tickets of a list about to be written as well.
Tick ==
  LET held(step) == IF step.do = "waiting" THEN Waiting(Older(step.tickets)) ELSE step
  IN /\ waiting' = Older(waiting)
     /\ drops' = [k \in Key |-> Overdue(drops[k])]
     /\ run' = [t \in Task |-> [run[t] EXCEPT !.todo = [i \in DOMAIN @ |-> held(@[i])]]]
     /\ reply' = NoReply
     /\ UNCHANGED <<match, alarm, minted, History, enqueues, faults>>

Next ==
  \/ \E t \in Task :
       \/ Step(t) \/ Sweep(t)
       \/ \E p \in Player : Enqueue(t, p) \/ Leave(t, p) \/ Forget(t, p)
       \/ \E p \in Player, k \in Key : Drop(t, p, k)
  \/ \E p \in Player : Status(p)
  \/ Fault \/ Tick

Spec == Init /\ [][Next]_vars

(***************************************************************************)
(* A task started is carried on, and time passes. The platform delivers    *)
(* the alarm, and its sweep queues behind finitely many calls: a chance    *)
(* that keeps returning is taken.                                          *)
(***************************************************************************)
FairSpec == Spec /\ WF_vars(Tick) /\ \A t \in Task : WF_vars(Step(t)) /\ SF_vars(Sweep(t))
=============================================================================
