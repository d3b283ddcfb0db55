------------------------------ MODULE SessionProofs ------------------------------
(***************************************************************************)
(* Theorems about a session for any players, seats, bets, draws, queued    *)
(* tasks and number of faults.                                             *)
(*                                                                         *)
(* A transition is a plan: the writes it still has to do. What a session   *)
(* promises between two transitions, and of what a fault leaves behind,    *)
(* follows from what is true of every plan beside the four stores it       *)
(* writes to (Orderly), and, of a table nothing interrupts, from the       *)
(* ledger and the book agreeing again wherever the plan next writes the    *)
(* book (Settling).                                                        *)
(***************************************************************************)
EXTENDS SessionProperties, SequenceTheorems, Induction, TLAPS

Statuses == {"resolved", "abandoned"}

Metas ==
  {m \in [phase : Phase, members : Seq(Player), cursor : 0 .. MaxRolls, deadline : BOOLEAN,
          seed : Seeds \cup {<< >>}] : Len(m.members) <= Seats}

\* The refs of the first n bets of the session.
RefsTo(n) == {BetRef[k] : k \in 0 .. n - 1}

Bettings == [user : Player, ref : Ref, amount : Amount, data : BetData]

\* A book numbers its bets: no two have one ref.
Books ==
  {book \in [bets : Seq(Bettings), betSeq : 0 .. MaxBets, round : Nat] :
     /\ \A i \in DOMAIN book.bets : book.bets[i].ref \in RefsTo(book.betSeq)
     /\ \A i, j \in DOMAIN book.bets : book.bets[i].ref = book.bets[j].ref => i = j}

Matches == [submitted : SUBSET Player]

Boards == IF Mode = "table" THEN Books ELSE Matches

Writes ==
  [do : {"unlist", "arm", "disarm", "key", "publish"}]
    \cup [do : {"model"}, state : Boards] \cup [do : {"meta", "list"}, meta : Metas]
    \cup [do : {"outcome", "result"}, status : Statuses]

Effects ==
  [do : {"hold", "credit"}, user : Player, amount : Amount, ref : Ref]
    \cup [do : {"release", "capture"}, ref : Ref]

Plans == IF Mode = "table" THEN Seq(Writes \cup Effects) ELSE Seq(Writes)

Tasks == [op : {"idle", "create", "join", "submit", "bet", "roll", "leave", "close", "operatorClose", "alarm"},
          who : Player \cup OperatorKey \cup {NoKey}, todo : Plans]

HoldRows == [account : Account, amount : Amount, status : Status]

\* No account of a database is overdrawn, and its holds are typed.
Sound(d) ==
  /\ \A a \in DOMAIN d.accounts : /\ d.accounts[a] \in [balance : Nat, held : Nat]
                                  /\ d.accounts[a].held <= d.accounts[a].balance
  /\ \A r \in DOMAIN d.holds : d.holds[r] \in HoldRows

\* A session is played on a board once it is created, a match once its roster is full.
Played(m) == m # NoMeta /\ (Mode = "table" \/ m.phase = "active")

Shape ==
  /\ storage \in [meta : Metas, model : Boards \cup {<< >>}, outcome : Statuses \cup {"none"},
                  operatorClose : OperatorKey \cup {NoKey}]
  /\ meta # NoMeta => meta.phase # "none" /\ meta.seed \in Seeds
  /\ Played(meta) => model \in Boards
  /\ alarm \in BOOLEAN
  /\ index \in [players : Seq(Player), phase : {"none", "open", "active"}]
  /\ result \in Statuses \cup {"none"}
  /\ board \in {0, 1}
  /\ Sound(db)
  /\ run \in [Task -> Tasks] /\ \A t \in Task : run[t] # NoTask => run[t].todo # << >>
  /\ erased \subseteq Erasable /\ faults \in Nat

Serial == \A t, u \in Task : run[t] # NoTask /\ run[u] # NoTask => t = u

Doing(todo, what) == {i \in DOMAIN todo : todo[i].do = what}

\* The write that ends the session.
Ending(todo) == {i \in Doing(todo, "meta") : Terminal(todo[i].meta.phase)}

Leaver(w) == IF w.op = "leave" THEN {w.who} ELSE {}

Before(todo, i, what) == \E j \in Doing(todo, what) : j < i

\* What every plan keeps to, beside what is stored, one kind of write after the other.
OnceEach(todo) == \A what \in {"meta", "outcome", "publish"} : \A i, j \in Doing(todo, what) : i = j

MetaFits(w) ==
  \A i \in Doing(w.todo, "meta") :
    /\ ~Terminal(meta.phase)
    /\ w.todo[i].meta.phase # "none" /\ w.todo[i].meta.seed \in Seeds
    /\ Seated \ Leaver(w) \subseteq ToSet(w.todo[i].meta.members)
    /\ Played(w.todo[i].meta) => model \in Boards \/ Before(w.todo, i, "model")

ListFits(todo) ==
  \A i \in Doing(todo, "list") :
    ~Terminal(meta.phase) /\ Ending(todo) = {} /\ ~Terminal(todo[i].meta.phase)

EndFits(todo) ==
  \A i \in Ending(todo) :
    /\ index = NoRow \/ Before(todo, i, "unlist")
    /\ todo[i].meta.phase = "resolved" => result # "none" \/ Before(todo, i, "result")

OutcomeFits(todo) ==
  \A i \in Doing(todo, "outcome") :
    storage.outcome = "none" /\ (Terminal(meta.phase) \/ \E j \in Ending(todo) : j < i)

PublishFits(todo) ==
  \A i \in Doing(todo, "publish") :
    /\ board = 0
    /\ meta.phase = "resolved" \/ \E j \in Ending(todo) : j < i /\ todo[j].meta.phase = "resolved"

ResultFits(todo) ==
  \A i \in Doing(todo, "result") :
    Mode = "match" /\ todo[i].status = "abandoned" => i = 1 /\ ~IsComplete(model, meta.members)

KeyFits(w) == Doing(w.todo, "key") # {} => w.who \in OperatorKey

Orderly(w) ==
  /\ OnceEach(w.todo) /\ MetaFits(w) /\ ListFits(w.todo) /\ EndFits(w.todo) /\ KeyFits(w)
  /\ OutcomeFits(w.todo) /\ PublishFits(w.todo) /\ ResultFits(w.todo)

Order ==
  /\ \A t \in Task : Orderly(run[t])
  /\ EndedInOrder
  /\ ~Terminal(meta.phase) => storage.outcome = "none"

Inv == Shape /\ Serial /\ Order

-----------------------------------------------------------------------------
(* A table that nothing interrupts *)

Tickets(book) == {<<b.user, b.ref, b.amount>> : b \in Bets(book)}

Undone(todo, i) == {todo[j].ref : j \in {k \in DOMAIN todo : k < i /\ todo[k].do \in {"release", "capture"}}}

Placed(todo, i) == {<<todo[j].user, todo[j].ref, todo[j].amount>> : j \in {k \in Doing(todo, "hold") : k < i}}

\* What the ledger will reserve when the i-th write is due.
Due(todo, i) == {x \in Reserved : x[2] \notin Undone(todo, i)} \cup Placed(todo, i)

Settling(todo) ==
  /\ \A i \in Doing(todo, "model") : /\ Tickets(todo[i].state) = Due(todo, i)
                                     /\ DOMAIN db.holds \subseteq RefsTo(todo[i].state.betSeq)
  /\ \A i \in DOMAIN todo : IsEffect(todo[i]) => \E j \in Doing(todo, "model") : i < j
  /\ Doing(todo, "model") = {} \/ Doing(todo, "hold") # {} =>
       IF model \in Books THEN Tickets(model) = Reserved /\ DOMAIN db.holds \subseteq RefsTo(model.betSeq)
                          ELSE DOMAIN db.holds = {}
  /\ \A i \in Doing(todo, "hold") :
       /\ i = 1 /\ model \in Books /\ model.betSeq < MaxBets /\ todo[i].ref = BetRef[model.betSeq]
       /\ ~Terminal(meta.phase)
       /\ todo[i].user \in Seated
       /\ \A j \in Doing(todo, "model") : todo[i].ref \in RefsTo(todo[j].state.betSeq)
  /\ \A i \in DOMAIN todo : todo[i].do \in {"release", "capture"} =>
       /\ todo[i].ref \in OpenHolds
       /\ \A j \in DOMAIN todo : todo[j].do \in {"release", "capture"} /\ todo[j].ref = todo[i].ref => j = i
  /\ \A i \in Doing(todo, "credit") :
       \E r \in DOMAIN db.holds :
         /\ todo[i].ref = WinRef[r]
         /\ db.holds[r].account = Purse(todo[i].user) /\ db.holds[r].amount = todo[i].amount
         /\ db.holds[r].status = "released" \/ \E j \in Doing(todo, "release") : j < i /\ todo[j].ref = r
  /\ \A i \in Doing(todo, "meta") : {x[1] : x \in Due(todo, i)} \subseteq ToSet(todo[i].meta.members)
  /\ \A i \in Ending(todo) : Due(todo, i) = {}

Held(a) == {r \in OpenHolds : db.holds[r].account = a}

Stakes == [r \in DOMAIN db.holds |-> db.holds[r].amount]

Deposited == {Deposit[p] : p \in User}

Ledgered ==
  /\ DOMAIN db.holds \subseteq RefsTo(MaxBets)
  /\ \A r \in DOMAIN db.holds : db.holds[r].account \in DOMAIN db.accounts /\ CurrencyOf(db.holds[r].account) = Chip
  /\ DOMAIN db.entries \subseteq Deposited \cup DOMAIN db.holds \cup {WinRef[r] : r \in DOMAIN db.holds}
                                 \cup {Derived(r, "resolve") : r \in DOMAIN db.holds \ OpenHolds}
  /\ \A r \in DOMAIN db.holds : WinRef[r] \in DOMAIN db.entries =>
       /\ db.holds[r].status = "released"
       /\ SameEntry(db, WinRef[r], db.holds[r].account, "credit", db.holds[r].amount)
  /\ \A a \in DOMAIN db.accounts : db.accounts[a].held = SumFunctionOnSet(Stakes, Held(a))

Table ==
  /\ \A t \in Task : run[t] # NoTask => Settling(run[t].todo)
  /\ AtRest => Settling(<< >>)
  /\ Ledgered
  /\ {x[1] : x \in Reserved} \subseteq Seated
  /\ Terminal(meta.phase) => OpenHolds = {}
  /\ meta.deadline = FALSE
  /\ \A t \in Task : \A i \in Doing(run[t].todo, "meta") : run[t].todo[i].meta.deadline = FALSE
  /\ reply.answer # "hold_not_open"
  /\ erased = {}

Uninterrupted == Mode = "table" /\ MaxFaults = 0 /\ Erasable = {}

IInv == Inv /\ (Uninterrupted => Table)
-----------------------------------------------------------------------------
(* Plans and their first write *)

LEMMA PlanIs ==
  ASSUME NEW todo \in Plans
  PROVE  /\ todo \in Seq(Writes \cup Effects)
         /\ Len(todo) \in Nat /\ DOMAIN todo = 1 .. Len(todo)
         /\ \A i \in DOMAIN todo : todo[i] \in Writes \cup Effects /\ (Mode # "table" => todo[i] \in Writes)
         /\ todo # << >> => Len(todo) # 0 /\ 1 \in DOMAIN todo /\ Head(todo) = todo[1] /\ Tail(todo) \in Plans
<1>1. todo \in Seq(Writes \cup Effects) /\ (Mode # "table" => todo \in Seq(Writes))
  <2>1. CASE Mode = "table"
    BY <2>1 DEF Plans
  <2>2. CASE Mode # "table"
    <3>1. todo \in Seq(Writes)
      BY <2>2 DEF Plans
    <3>2. todo \in Seq(Writes \cup Effects)
      BY <3>1
    <3>3. QED
      BY <3>1, <3>2
  <2>3. QED
    BY <2>1, <2>2
<1>2. Len(todo) \in Nat /\ DOMAIN todo = 1 .. Len(todo)
  BY <1>1
<1>3. \A i \in DOMAIN todo : todo[i] \in Writes \cup Effects /\ (Mode # "table" => todo[i] \in Writes)
  BY <1>1, <1>2
<1>4. ASSUME todo # << >>
      PROVE  Len(todo) # 0 /\ 1 \in DOMAIN todo /\ Head(todo) = todo[1] /\ Tail(todo) \in Plans
  <2>1. Len(todo) # 0
    BY <1>1, <1>4, EmptySeq
  <2>2. 1 \in DOMAIN todo /\ Head(todo) = todo[1]
    BY <1>1, <1>2, <2>1
  <2>3. Tail(todo) \in Seq(Writes \cup Effects) /\ (Mode # "table" => Tail(todo) \in Seq(Writes))
    BY <1>1, <1>4
  <2>4. QED
    BY <2>1, <2>2, <2>3 DEF Plans
<1>5. QED
  BY <1>1, <1>2, <1>3, <1>4

LEMMA WriteIs ==
  ASSUME NEW h \in Writes \cup Effects
  PROVE  /\ h.do \in {"unlist", "arm", "disarm", "key", "publish", "model", "meta", "list", "outcome",
                      "result", "hold", "credit", "release", "capture"}
         /\ h.do = "model" => h.state \in Boards
         /\ h.do \in {"meta", "list"} => h.meta \in Metas
         /\ h.do \in {"outcome", "result"} => h.status \in Statuses
         /\ h.do \in {"hold", "credit"} => h.user \in Player /\ h.amount \in Amount
         /\ IsEffect(h) => h.ref \in Ref
         /\ h \in Writes => ~IsEffect(h)
<1>1. CASE h \in [do : {"unlist", "arm", "disarm", "key", "publish"}]
  BY <1>1 DEF IsEffect
<1>2. CASE h \in [do : {"model"}, state : Boards]
  BY <1>2 DEF IsEffect
<1>3. CASE h \in [do : {"meta", "list"}, meta : Metas]
  BY <1>3 DEF IsEffect
<1>4. CASE h \in [do : {"outcome", "result"}, status : Statuses]
  BY <1>4 DEF IsEffect
<1>5. CASE h \in Effects
  <2>1. CASE h \in [do : {"hold", "credit"}, user : Player, amount : Amount, ref : Ref]
    <3>1. h \notin Writes
      BY <2>1 DEF Writes
    <3>2. QED
      BY <2>1, <3>1
  <2>2. CASE h \in [do : {"release", "capture"}, ref : Ref]
    <3>1. h \notin Writes
      BY <2>2 DEF Writes
    <3>2. QED
      BY <2>2, <3>1
  <2>3. QED
    BY <1>5, <2>1, <2>2 DEF Effects
<1>6. QED
  BY <1>1, <1>2, <1>3, <1>4, <1>5 DEF Writes

\* Nothing is planned of a task that does nothing.
LEMMA Idle ==
  /\ NoTask \in Tasks /\ NoTask.todo = << >> /\ \A what : Doing(<< >>, what) = {}
  /\ Ending(<< >>) = {} /\ Orderly(NoTask)
<1>1. NoTask.todo = << >>
  BY DEF NoTask
<1>2. \A what : Doing(<< >>, what) = {}
  BY DEF Doing
<1>3. Ending(<< >>) = {}
  BY <1>2 DEF Ending
<1>4. << >> \in Plans
  BY DEF Plans
<1>5. NoTask \in Tasks
  BY <1>4 DEF NoTask, Tasks
<1>6. Orderly(NoTask)
  BY <1>1, <1>2, <1>3 DEF Orderly, OnceEach, MetaFits, ListFits, EndFits, OutcomeFits, PublishFits, ResultFits, KeyFits
<1>7. QED
  BY <1>1, <1>2, <1>3, <1>5, <1>6

\* What is left of a plan once its first write is done.
Rest(a, b) ==
  /\ b \in Plans
  /\ \A what : \A i \in Doing(b, what) : i + 1 \in Doing(a, what) /\ b[i] = a[i + 1]
  /\ \A what : \A i \in Doing(a, what) : i # 1 => i - 1 \in Doing(b, what)
  /\ \A i \in Ending(b) : i + 1 \in Ending(a)
  /\ \A i \in Ending(a) : i # 1 => i - 1 \in Ending(b)
  /\ \A i \in DOMAIN b : i \in Nat \ {0} /\ i + 1 \in DOMAIN a /\ b[i] = a[i + 1]
  /\ \A i \in DOMAIN a : i \in Nat \ {0} /\ (i # 1 => i - 1 \in DOMAIN b /\ b[i - 1] = a[i])

LEMMA RestOf == ASSUME NEW a \in Plans, a # << >> PROVE Rest(a, Tail(a))
<1> DEFINE N == Len(a)
           b == Tail(a)
<1>1. /\ N \in Nat \ {0} /\ DOMAIN a = 1 .. N /\ a \in Seq(Writes \cup Effects) /\ b \in Plans
  BY PlanIs
<1>2. DOMAIN b = 1 .. N - 1 /\ \A i \in 1 .. N - 1 : b[i] = a[i + 1]
  BY <1>1
<1> HIDE DEF b, N
<1>3. \A i \in DOMAIN b : i \in Nat \ {0} /\ i + 1 \in DOMAIN a /\ b[i] = a[i + 1]
  BY <1>1, <1>2
<1>4. ASSUME NEW i \in DOMAIN a
      PROVE  i \in Nat \ {0} /\ (i # 1 => i - 1 \in DOMAIN b /\ b[i - 1] = a[i])
  <2>1. i \in Nat \ {0} /\ (i # 1 => i - 1 \in 1 .. N - 1 /\ (i - 1) + 1 = i)
    BY <1>1
  <2>2. QED
    BY <1>2, <2>1
<1>5. \A what : \A i \in Doing(b, what) : i + 1 \in Doing(a, what) /\ b[i] = a[i + 1]
  BY <1>3 DEF Doing
<1>6. \A what : \A i \in Doing(a, what) : i # 1 => i - 1 \in Doing(b, what)
  BY <1>4 DEF Doing
<1>7. \A i \in Ending(b) : i + 1 \in Ending(a)
  BY <1>5 DEF Ending
<1>8. \A i \in Ending(a) : i # 1 => i - 1 \in Ending(b)
  <2>1. ASSUME NEW i \in Ending(a), i # 1
        PROVE  i - 1 \in Ending(b)
    <3>1. i \in Doing(a, "meta") /\ i \in DOMAIN a
      BY DEF Ending, Doing
    <3>2. i - 1 \in Doing(b, "meta") /\ b[i - 1] = a[i]
      BY <1>4, <1>6, <2>1, <3>1
    <3>3. QED
      BY <3>2 DEF Ending
  <2>2. QED
    BY <2>1
<1>9. QED
  BY <1>1, <1>3, <1>4, <1>5, <1>6, <1>7, <1>8 DEF Rest, b

\* A write that is done, and what the task is then; and a write that throws.
Onward(t, v) ==
  LET w == run[t]
  IN /\ w \in Tasks /\ w.todo \in Plans /\ w.todo # << >> /\ w.todo[1] \in Writes \cup Effects
     /\ Perform(t, w.todo[1]) /\ ~Throws(w.op, w.todo[1])
     /\ v \in Tasks /\ v.todo = Tail(w.todo) /\ (v # NoTask => v.todo # << >> /\ v.op = w.op /\ v.who = w.who)
     /\ run' = [run EXCEPT ![t] = v]
     /\ \A u \in Task : u # t => run[u] = NoTask
     /\ reply'.answer \in {"done", "none"}
     /\ UNCHANGED <<erased, faults>>

Thrown(t) ==
  LET w == run[t]
  IN /\ w \in Tasks /\ w.todo \in Plans /\ w.todo # << >> /\ w.todo[1] \in Writes \cup Effects
     /\ Throws(w.op, w.todo[1]) /\ reply'.answer = EffectError(w.todo[1])
     /\ run' = [run EXCEPT ![t] = NoTask]
     /\ UNCHANGED <<Stored, erased, faults>>

LEMMA StepIs ==
  ASSUME Shape, Serial, NEW t \in Task, Step(t)
  PROVE  Thrown(t) \/ \E v : Onward(t, v)
<1> DEFINE w == run[t]
           a == w.todo
<1>1. run \in [Task -> Tasks] /\ w \in Tasks /\ a \in Plans
  BY DEF Shape, Tasks
<1>2. a # << >>
  BY DEF Step
<1>3. a[1] \in Writes \cup Effects /\ Head(a) = a[1] /\ Tail(a) \in Plans /\ Len(a) \in Nat \ {0}
  BY <1>1, <1>2, PlanIs
<1>4. \A u \in Task : u # t => run[u] = NoTask
  <2>1. w # NoTask
    BY <1>2, Idle
  <2>2. QED
    BY <2>1 DEF Serial
<1>5. CASE Throws(w.op, Head(a))
  <2>1. Answer(t, w.op, w.who, EffectError(Head(a))) /\ UNCHANGED Stored /\ UNCHANGED <<erased, faults>>
    BY <1>5 DEF Step
  <2>2. QED
    BY <1>1, <1>2, <1>3, <1>5, <2>1 DEF Answer, Thrown
<1>6. CASE ~Throws(w.op, Head(a))
  <2>1. /\ Perform(t, Head(a)) /\ UNCHANGED <<erased, faults>>
        /\ IF Len(a) = 1 THEN Answer(t, w.op, w.who, "done")
                         ELSE run' = [run EXCEPT ![t].todo = Tail(@)] /\ reply' = NoReply
    BY <1>6 DEF Step
  <2>2. CASE Len(a) = 1
    <3>1. Tail(a) = << >>
      <4>1. Tail(a) \in Seq(Writes \cup Effects) /\ Len(Tail(a)) = 0
        <5>1. a \in Seq(Writes \cup Effects)
          BY <1>1, PlanIs
        <5>2. QED
          BY <1>2, <2>2, <5>1
      <4>2. QED
        BY <4>1, EmptySeq
    <3>2. run' = [run EXCEPT ![t] = NoTask] /\ reply'.answer = "done"
      BY <2>1, <2>2 DEF Answer
    <3>3. Onward(t, NoTask)
      BY <1>1, <1>2, <1>3, <1>4, <1>6, <2>1, <3>1, <3>2, Idle DEF Onward
    <3>4. QED
      BY <3>3
  <2>3. CASE Len(a) # 1
    <3> DEFINE v == [w EXCEPT !.todo = Tail(a)]
    <3>1. Tail(a) # << >>
      <4>1. a \in Seq(Writes \cup Effects) /\ Tail(a) \in Seq(Writes \cup Effects)
        BY <1>1, <1>3, PlanIs
      <4>2. Len(Tail(a)) = Len(a) - 1
        BY <1>2, <4>1
      <4>3. Len(Tail(a)) # 0
        BY <1>3, <2>3, <4>2
      <4>4. Len(<< >>) = 0
        BY EmptySeq
      <4>5. QED
        BY <4>3, <4>4
    <3>2. v \in Tasks /\ v.todo = Tail(a) /\ v.op = w.op /\ v.who = w.who
      BY <1>1, <1>3 DEF Tasks
    <3>3. run' = [run EXCEPT ![t] = v] /\ reply'.answer = "none"
      <4>1. run' = [run EXCEPT ![t].todo = Tail(@)] /\ reply' = NoReply
        BY <2>1, <2>3
      <4>2. QED
        BY <1>1, <4>1 DEF NoReply
    <3> HIDE DEF v
    <3>4. Onward(t, v)
      BY <1>1, <1>2, <1>3, <1>4, <1>6, <2>1, <3>1, <3>2, <3>3 DEF Onward
    <3>5. QED
      BY <3>4
  <2>4. QED
    BY <2>2, <2>3
<1>7. QED
  BY <1>5, <1>6

\* What one write changes.
LEMMA PerformIs ==
  ASSUME Shape, NEW t \in Task, NEW h \in Writes \cup Effects, Perform(t, h)
  PROVE  /\ meta' = IF h.do = "meta" THEN h.meta ELSE meta
         /\ model' = IF h.do = "model" THEN h.state ELSE model
         /\ storage'.outcome = IF h.do = "outcome" THEN h.status ELSE storage.outcome
         /\ storage'.operatorClose = IF h.do = "key" THEN run[t].who ELSE storage.operatorClose
         /\ storage' \in [meta : {meta'}, model : {model'}, outcome : {storage'.outcome},
                          operatorClose : {storage'.operatorClose}]
         /\ index' = (IF h.do = "list" THEN [players |-> h.meta.members, phase |-> h.meta.phase]
                      ELSE IF h.do = "unlist" THEN NoRow ELSE index)
         /\ result' = IF h.do = "result" /\ result = "none" THEN h.status ELSE result
         /\ board' = IF h.do = "publish" THEN board + 1 ELSE board
         /\ alarm' = (IF h.do = "arm" THEN TRUE ELSE IF h.do = "disarm" THEN FALSE ELSE alarm)
         /\ db' = IF IsEffect(h) THEN Settled(h) ELSE db
<1>1. storage \in [meta : Metas, model : Boards \cup {<< >>}, outcome : Statuses \cup {"none"},
                   operatorClose : OperatorKey \cup {NoKey}]
  BY DEF Shape
<1>2. storage' = CASE h.do = "model"   -> [storage EXCEPT !.model = h.state]
                   [] h.do = "meta"    -> [storage EXCEPT !.meta = h.meta]
                   [] h.do = "outcome" -> [storage EXCEPT !.outcome = h.status]
                   [] h.do = "key"     -> [storage EXCEPT !.operatorClose = run[t].who]
                   [] OTHER            -> storage
  BY DEF Perform
<1>3. storage' = [storage EXCEPT !.model = IF h.do = "model" THEN h.state ELSE @,
                                 !.meta = IF h.do = "meta" THEN h.meta ELSE @,
                                 !.outcome = IF h.do = "outcome" THEN h.status ELSE @,
                                 !.operatorClose = IF h.do = "key" THEN run[t].who ELSE @]
  <2>1. CASE h.do = "model"
    BY <1>1, <1>2, <2>1
  <2>2. CASE h.do = "meta"
    BY <1>1, <1>2, <2>2
  <2>3. CASE h.do = "outcome"
    BY <1>1, <1>2, <2>3
  <2>4. CASE h.do = "key"
    BY <1>1, <1>2, <2>4
  <2>5. CASE h.do \notin {"model", "meta", "outcome", "key"}
    BY <1>1, <1>2, <2>5
  <2>6. QED
    BY <2>1, <2>2, <2>3, <2>4, <2>5
<1>4. /\ meta' = IF h.do = "meta" THEN h.meta ELSE meta
      /\ model' = IF h.do = "model" THEN h.state ELSE model
  BY <1>1, <1>3 DEF meta, model
<1>5. /\ storage'.outcome = IF h.do = "outcome" THEN h.status ELSE storage.outcome
      /\ storage'.operatorClose = IF h.do = "key" THEN run[t].who ELSE storage.operatorClose
  BY <1>1, <1>3
<1>6. storage' \in [meta : {meta'}, model : {model'}, outcome : {storage'.outcome},
                    operatorClose : {storage'.operatorClose}]
  BY <1>1, <1>3 DEF meta, model
<1>7. /\ index' = (IF h.do = "list" THEN [players |-> h.meta.members, phase |-> h.meta.phase]
                   ELSE IF h.do = "unlist" THEN NoRow ELSE index)
      /\ alarm' = (IF h.do = "arm" THEN TRUE ELSE IF h.do = "disarm" THEN FALSE ELSE alarm)
  BY DEF Perform
<1>8. /\ result' = IF h.do = "result" /\ result = "none" THEN h.status ELSE result
      /\ board' = IF h.do = "publish" THEN board + 1 ELSE board
      /\ db' = IF IsEffect(h) THEN Settled(h) ELSE db
  BY DEF Perform
<1>9. QED
  BY <1>4, <1>5, <1>6, <1>7, <1>8

-----------------------------------------------------------------------------
(* One write keeps the order of the rest *)

LEMMA BeforeRest ==
  ASSUME NEW a, NEW b, Rest(a, b), NEW i \in DOMAIN b
  PROVE  /\ \A what : Before(a, i + 1, what) => a[1].do = what \/ Before(b, i, what)
         /\ \A j \in Ending(a) : j < i + 1 => 1 \in Ending(a) \/ (j - 1 \in Ending(b) /\ j - 1 < i /\ b[j - 1] = a[j])
         /\ ~(i + 1 = 1)
<1>1. i \in Nat \ {0}
  BY DEF Rest
<1>2. ASSUME NEW what, Before(a, i + 1, what)
      PROVE  a[1].do = what \/ Before(b, i, what)
  <2>1. PICK j \in Doing(a, what) : j < i + 1
    BY <1>2 DEF Before
  <2>2. j \in DOMAIN a /\ a[j].do = what /\ j \in Nat \ {0}
    BY DEF Doing, Rest
  <2>3. CASE j = 1
    BY <2>2, <2>3
  <2>4. CASE j # 1
    <3>1. j - 1 \in Doing(b, what)
      BY <2>4 DEF Rest
    <3>2. j - 1 < i
      BY <1>1, <2>1, <2>2
    <3>3. QED
      BY <3>1, <3>2 DEF Before
  <2>5. QED
    BY <2>3, <2>4
<1>3. ASSUME NEW j \in Ending(a), j < i + 1, 1 \notin Ending(a)
      PROVE  j - 1 \in Ending(b) /\ j - 1 < i /\ b[j - 1] = a[j]
  <2>1. j # 1
    BY <1>3
  <2>2. j \in DOMAIN a
    BY DEF Ending, Doing
  <2>3. j - 1 \in Ending(b)
    BY <2>1 DEF Rest
  <2>4. j \in Nat \ {0} /\ b[j - 1] = a[j]
    BY <2>1, <2>2 DEF Rest
  <2>5. j - 1 < i
    BY <1>1, <1>3, <2>4
  <2>6. QED
    BY <2>3, <2>4, <2>5
<1>4. ~(i + 1 = 1)
  BY <1>1
<1>5. QED
  BY <1>2, <1>3, <1>4

\* Nothing comes before the first write; what it is.
LEMMA FirstIs ==
  ASSUME NEW a \in Plans, a # << >>
  PROVE  /\ \A what : ~Before(a, 1, what)
         /\ \A what : 1 \in Doing(a, what) <=> a[1].do = what
         /\ 1 \in Ending(a) <=> a[1].do = "meta" /\ Terminal(a[1].meta.phase)
         /\ ~ \E j \in Ending(a) : j < 1
<1>1. 1 \in DOMAIN a /\ \A j \in DOMAIN a : j \in Nat \ {0}
  BY PlanIs
<1>2. \A j \in DOMAIN a : ~(j < 1)
  BY <1>1
<1>3. \A what : ~Before(a, 1, what)
  BY <1>2 DEF Before, Doing
<1>4. \A what : 1 \in Doing(a, what) <=> a[1].do = what
  BY <1>1 DEF Doing
<1>5. QED
  BY <1>2, <1>3, <1>4 DEF Ending, Doing

LEMMA StepOrder ==
  ASSUME Shape, Order, NEW t \in Task, NEW v, Onward(t, v)
  PROVE  Orderly(v)' /\ EndedInOrder' /\ (~Terminal(meta.phase) => storage.outcome = "none")'
<1> DEFINE w == run[t]
           a == w.todo
           b == v.todo
           h == a[1]
<1>1. a \in Plans /\ a # << >> /\ h \in Writes \cup Effects /\ Perform(t, h) /\ b = Tail(a)
  BY DEF Onward
<1>2. Rest(a, b) /\ b \in Plans
  <2>1. Rest(a, Tail(a))
    BY <1>1, RestOf
  <2> HIDE DEF a, b
  <2>2. QED
    BY <1>1, <2>1 DEF Rest
<1>3. Orderly(w) /\ EndedInOrder /\ (~Terminal(meta.phase) => storage.outcome = "none")
  BY DEF Order
<1>4. b # << >> => v.op = w.op /\ v.who = w.who
  BY Idle DEF Onward
<1>5. /\ meta' = IF h.do = "meta" THEN h.meta ELSE meta
      /\ model' = IF h.do = "model" THEN h.state ELSE model
      /\ storage'.outcome = IF h.do = "outcome" THEN h.status ELSE storage.outcome
  BY <1>1, PerformIs
<1>6. /\ index' = (IF h.do = "list" THEN [players |-> h.meta.members, phase |-> h.meta.phase]
                   ELSE IF h.do = "unlist" THEN NoRow ELSE index)
      /\ result' = IF h.do = "result" /\ result = "none" THEN h.status ELSE result
      /\ board' = IF h.do = "publish" THEN board + 1 ELSE board
  BY <1>1, PerformIs
<1>7. /\ h.do = "model" => h.state \in Boards
      /\ h.do \in {"outcome", "result"} => h.status \in Statuses
  BY <1>1, WriteIs
<1>8. /\ \A what : ~Before(a, 1, what)
      /\ \A what : 1 \in Doing(a, what) <=> h.do = what
      /\ 1 \in Ending(a) <=> h.do = "meta" /\ Terminal(h.meta.phase)
      /\ ~ \E j \in Ending(a) : j < 1
  BY <1>1, FirstIs
<1>9. /\ OnceEach(a) /\ MetaFits(w) /\ ListFits(a) /\ EndFits(a) /\ OutcomeFits(a) /\ PublishFits(a)
      /\ ResultFits(a) /\ KeyFits(w)
  BY <1>3 DEF Orderly
<1>10. /\ \A what : \A i \in Doing(b, what) : i \in DOMAIN b /\ i + 1 \in Doing(a, what) /\ b[i] = a[i + 1]
       /\ \A i \in Ending(b) : i \in DOMAIN b /\ i + 1 \in Ending(a) /\ b[i] = a[i + 1]
  BY <1>2 DEF Rest, Ending, Doing
<1>11. \A i \in DOMAIN b : /\ \A what : Before(a, i + 1, what) => h.do = what \/ Before(b, i, what)
                           /\ \A j \in Ending(a) : j < i + 1 => 1 \in Ending(a) \/ (j - 1 \in Ending(b) /\ j - 1 < i /\ b[j - 1] = a[j])
                           /\ ~(i + 1 = 1)
  BY <1>2, BeforeRest
<1>12. \A what \in {"meta", "outcome", "publish"} : \A i \in Doing(b, what) : h.do # what
  BY <1>8, <1>9, <1>10, <1>11 DEF OnceEach
<1>13. h.do = "meta" => ~Terminal(meta.phase)
  BY <1>8, <1>9 DEF MetaFits
<1>14. h.do = "list" => ~Terminal(meta.phase) /\ Ending(a) = {}
  BY <1>8, <1>9 DEF ListFits
<1> HIDE DEF w, b, h
<1>20. OnceEach(b)
  <2>1. ASSUME NEW what \in {"meta", "outcome", "publish"}, NEW i \in Doing(b, what), NEW j \in Doing(b, what)
        PROVE  i = j
    <3>1. i + 1 = j + 1
      BY <1>9, <1>10 DEF OnceEach
    <3>2. i \in Nat /\ j \in Nat
      BY <1>2, <1>10 DEF Rest
    <3>3. QED
      BY <3>1, <3>2
  <2>2. QED
    BY <2>1 DEF OnceEach
<1>21. MetaFits(v)'
  <2>1. ASSUME NEW i \in Doing(b, "meta")
        PROVE  /\ ~Terminal(meta'.phase)
               /\ b[i].meta.phase # "none" /\ b[i].meta.seed \in Seeds
               /\ Seated' \ Leaver(v) \subseteq ToSet(b[i].meta.members)
               /\ Played(b[i].meta) => model' \in Boards \/ Before(b, i, "model")
    <3>1. i \in DOMAIN b /\ i + 1 \in Doing(a, "meta") /\ b[i] = a[i + 1] /\ h.do # "meta"
      BY <1>10, <1>12
    <3>2. /\ ~Terminal(meta.phase)
          /\ b[i].meta.phase # "none" /\ b[i].meta.seed \in Seeds
          /\ Seated \ Leaver(w) \subseteq ToSet(b[i].meta.members)
          /\ Played(b[i].meta) => model \in Boards \/ Before(a, i + 1, "model")
      BY <1>9, <3>1 DEF MetaFits, w
    <3>3. meta' = meta
      BY <1>5, <3>1
    <3>4. Seated' = Seated
      BY <3>3 DEF Seated
    <3>5. Leaver(v) = Leaver(w)
      <4>1. b # << >>
        BY <3>1
      <4>2. QED
        BY <1>4, <4>1 DEF Leaver
    <3>6. Played(b[i].meta) => model' \in Boards \/ Before(b, i, "model")
      BY <1>5, <1>7, <1>11, <3>1, <3>2
    <3>7. QED
      BY <3>2, <3>3, <3>4, <3>5, <3>6
  <2>2. QED
    BY <2>1 DEF MetaFits, Seated, b
<1>22. ListFits(b)'
  <2>1. ASSUME NEW i \in Doing(b, "list")
        PROVE  ~Terminal(meta'.phase) /\ Ending(b) = {} /\ ~Terminal(b[i].meta.phase)
    <3>1. i + 1 \in Doing(a, "list") /\ b[i] = a[i + 1]
      BY <1>10
    <3>2. ~Terminal(meta.phase) /\ Ending(a) = {} /\ ~Terminal(b[i].meta.phase)
      BY <1>9, <3>1 DEF ListFits
    <3>3. Ending(b) = {}
      BY <1>10, <3>2
    <3>4. ~Terminal(meta'.phase)
      BY <1>5, <1>8, <3>2
    <3>5. QED
      BY <3>2, <3>3, <3>4
  <2>2. QED
    BY <2>1 DEF ListFits
<1>23. EndFits(b)'
  <2>1. ASSUME NEW i \in Ending(b)
        PROVE  /\ index' = NoRow \/ Before(b, i, "unlist")
               /\ b[i].meta.phase = "resolved" => result' # "none" \/ Before(b, i, "result")
    <3>1. i \in DOMAIN b /\ i + 1 \in Ending(a) /\ b[i] = a[i + 1]
      BY <1>10
    <3>2. /\ index = NoRow \/ Before(a, i + 1, "unlist")
          /\ b[i].meta.phase = "resolved" => result # "none" \/ Before(a, i + 1, "result")
      BY <1>9, <3>1 DEF EndFits
    <3>3. h.do # "list"
      BY <1>14, <3>1
    <3>4. index' = NoRow \/ Before(b, i, "unlist")
      BY <1>6, <1>11, <3>1, <3>2, <3>3
    <3>5. h.do = "result" => result' # "none"
      BY <1>6, <1>7 DEF Statuses
    <3>6. result # "none" => result' # "none"
      BY <1>6
    <3>7. b[i].meta.phase = "resolved" => result' # "none" \/ Before(b, i, "result")
      BY <1>11, <3>1, <3>2, <3>5, <3>6
    <3>8. QED
      BY <3>4, <3>7
  <2>2. QED
    BY <2>1 DEF EndFits
<1>24. OutcomeFits(b)'
  <2>1. ASSUME NEW i \in Doing(b, "outcome")
        PROVE  storage'.outcome = "none" /\ (Terminal(meta'.phase) \/ \E j \in Ending(b) : j < i)
    <3>1. i \in DOMAIN b /\ i + 1 \in Doing(a, "outcome") /\ h.do # "outcome"
      BY <1>10, <1>12
    <3>2. storage.outcome = "none" /\ (Terminal(meta.phase) \/ \E j \in Ending(a) : j < i + 1)
      BY <1>9, <3>1 DEF OutcomeFits
    <3>3. storage'.outcome = "none"
      BY <1>5, <3>1, <3>2
    <3>4. CASE Terminal(meta.phase)
      BY <1>5, <1>13, <3>3, <3>4
    <3>5. CASE 1 \in Ending(a)
      BY <1>5, <1>8, <3>3, <3>5
    <3>6. CASE ~Terminal(meta.phase) /\ 1 \notin Ending(a)
      BY <1>11, <3>1, <3>2, <3>3, <3>6
    <3>7. QED
      BY <3>4, <3>5, <3>6
  <2>2. QED
    BY <2>1 DEF OutcomeFits
<1>25. PublishFits(b)'
  <2>1. ASSUME NEW i \in Doing(b, "publish")
        PROVE  /\ board' = 0
               /\ meta'.phase = "resolved" \/ \E j \in Ending(b) : j < i /\ b[j].meta.phase = "resolved"
    <3>1. i \in DOMAIN b /\ i + 1 \in Doing(a, "publish") /\ h.do # "publish"
      BY <1>10, <1>12
    <3>2. /\ board = 0
          /\ meta.phase = "resolved" \/ \E j \in Ending(a) : j < i + 1 /\ a[j].meta.phase = "resolved"
      BY <1>9, <3>1 DEF PublishFits
    <3>3. board' = 0
      BY <1>6, <3>1, <3>2
    <3>4. CASE meta.phase = "resolved"
      BY <1>5, <1>13, <3>3, <3>4 DEF Terminal
    <3>5. CASE meta.phase # "resolved"
      <4>1. PICK j \in Ending(a) : j < i + 1 /\ a[j].meta.phase = "resolved"
        BY <3>2, <3>5
      <4>2. CASE j = 1
        <5>1. h.do = "meta" /\ h.meta.phase = "resolved"
          BY <1>8, <4>1, <4>2 DEF h
        <5>2. QED
          BY <1>5, <3>3, <5>1
      <4>3. CASE j # 1
        <5>1. j - 1 \in Ending(b) /\ j \in DOMAIN a
          BY <1>2, <4>3 DEF Rest, Ending, Doing
        <5>2. b[j - 1] = a[j] /\ j \in Nat \ {0} /\ i \in Nat \ {0}
          BY <1>2, <3>1, <4>3, <5>1 DEF Rest
        <5>3. j - 1 < i
          BY <4>1, <5>2
        <5>4. QED
          BY <3>3, <4>1, <5>1, <5>2, <5>3
      <4>4. QED
        BY <4>2, <4>3
    <3>6. QED
      BY <3>4, <3>5
  <2>2. QED
    BY <2>1 DEF PublishFits
<1>26. ResultFits(b)'
  <2>1. ASSUME NEW i \in Doing(b, "result")
        PROVE  ~(Mode = "match" /\ b[i].status = "abandoned")
    <3>1. i \in DOMAIN b /\ i + 1 \in Doing(a, "result") /\ b[i] = a[i + 1] /\ ~(i + 1 = 1)
      BY <1>10, <1>11
    <3>2. QED
      BY <1>9, <3>1 DEF ResultFits
  <2>2. QED
    BY <2>1 DEF ResultFits
<1>27. Orderly(v)'
  <2>1. KeyFits(v)'
    <3>1. Doing(b, "key") # {} => b # << >> /\ Doing(a, "key") # {}
      BY <1>10
    <3>2. QED
      BY <1>4, <1>9, <3>1 DEF KeyFits, w, b
  <2>2. OnceEach(b)'
    BY <1>20 DEF OnceEach, Doing
  <2>3. QED
    BY <1>21, <1>22, <1>23, <1>24, <1>25, <1>26, <2>2, <2>1 DEF Orderly, b
<1>28. EndedInOrder'
  <2>1. Terminal(meta'.phase) => index' = NoRow
    <3>1. CASE h.do = "meta"
      <4>1. Terminal(meta'.phase) => 1 \in Ending(a)
        BY <1>5, <1>8, <3>1
      <4>2. 1 \in Ending(a) => index = NoRow
        BY <1>8, <1>9 DEF EndFits
      <4>3. index' = index
        BY <1>6, <3>1
      <4>4. QED
        BY <4>1, <4>2, <4>3
    <3>2. CASE h.do # "meta"
      BY <1>3, <1>5, <1>6, <1>14, <3>2 DEF EndedInOrder
    <3>3. QED
      BY <3>1, <3>2
  <2>2. meta'.phase = "resolved" => result' # "none"
    <3>1. CASE h.do = "meta"
      <4>1. meta'.phase = "resolved" => 1 \in Ending(a)
        BY <1>5, <1>8, <3>1 DEF Terminal
      <4>2. 1 \in Ending(a) => (h.meta.phase = "resolved" => result # "none")
        BY <1>8, <1>9 DEF EndFits, h
      <4>3. result' = result
        BY <1>6, <3>1
      <4>4. QED
        BY <1>5, <3>1, <4>1, <4>2, <4>3
    <3>2. CASE h.do # "meta"
      <4>1. meta'.phase = "resolved" => result # "none"
        BY <1>3, <1>5, <3>2 DEF EndedInOrder
      <4>2. result # "none" => result' # "none"
        BY <1>6
      <4>3. QED
        BY <4>1, <4>2
    <3>3. QED
      BY <3>1, <3>2
  <2>3. board' <= 1 /\ (board' = 1 => meta'.phase = "resolved")
    <3>1. CASE h.do = "publish"
      <4>1. board = 0 /\ meta.phase = "resolved"
        BY <1>8, <1>9, <3>1 DEF PublishFits
      <4>2. QED
        BY <1>5, <1>6, <3>1, <4>1
    <3>2. CASE h.do # "publish"
      <4>1. board' = board /\ board <= 1 /\ (board = 1 => meta.phase = "resolved")
        BY <1>3, <1>6, <3>2 DEF EndedInOrder
      <4>2. meta.phase = "resolved" => meta' = meta
        BY <1>5, <1>13 DEF Terminal
      <4>3. QED
        BY <4>1, <4>2
    <3>3. QED
      BY <3>1, <3>2
  <2>4. QED
    BY <2>1, <2>2, <2>3 DEF EndedInOrder
<1>29. (~Terminal(meta.phase) => storage.outcome = "none")'
  <2>1. CASE h.do = "outcome"
    <3>1. Terminal(meta.phase)
      BY <1>8, <1>9, <2>1 DEF OutcomeFits
    <3>2. QED
      BY <1>5, <2>1, <3>1
  <2>2. CASE h.do = "meta"
    BY <1>3, <1>5, <1>13, <2>2
  <2>3. CASE h.do \notin {"outcome", "meta"}
    BY <1>3, <1>5, <2>3
  <2>4. QED
    BY <2>1, <2>2, <2>3
<1>30. QED
  BY <1>27, <1>28, <1>29

-----------------------------------------------------------------------------
(* A batch keeps a database sound *)

IntRows(rows) == \A a \in DOMAIN rows : rows[a] \in [balance : Int, held : Int]

IntMove(move) == move.balance \in Int /\ move.held \in Int

WellMade(batch) ==
  /\ IntMove(batch.first) /\ IntMove(batch.second)
  /\ \A r \in DOMAIN batch.places : batch.places[r] \in HoldRows
  /\ \A r \in DOMAIN batch.settles : batch.settles[r] \in Status

LEMMA AdjustInts ==
  ASSUME NEW rows, IntRows(rows), NEW move, IntMove(move)
  PROVE  IntRows(Adjust(rows, move))
<1>1. DOMAIN Adjust(rows, move) = DOMAIN rows
  BY DEF Adjust
<1>2. ASSUME NEW a \in DOMAIN rows
      PROVE  Adjust(rows, move)[a] \in [balance : Int, held : Int]
  <2>1. rows[a] \in [balance : Int, held : Int]
    BY DEF IntRows
  <2>2. CASE a = move.account
    <3>1. Adjust(rows, move)[a] = [balance |-> rows[a].balance + move.balance, held |-> rows[a].held + move.held]
      BY <2>2 DEF Adjust
    <3>2. rows[a].balance + move.balance \in Int /\ rows[a].held + move.held \in Int
      BY <2>1 DEF IntMove
    <3>3. QED
      BY <3>1, <3>2
  <2>3. CASE a # move.account
    <3>1. Adjust(rows, move)[a] = rows[a]
      BY <2>3 DEF Adjust
    <3>2. QED
      BY <2>1, <3>1
  <2>4. QED
    BY <2>2, <2>3
<1>3. QED
  BY <1>1, <1>2 DEF IntRows

LEMMA RunSound ==
  ASSUME NEW d, Sound(d), NEW batch, WellMade(batch)
  PROVE  Sound(Run(d, batch))
<1>1. CASE Verdict(d, batch) # "applied"
  BY <1>1 DEF Run
<1>2. CASE Verdict(d, batch) = "applied"
  <2>1. ~Overdrawn(d, batch) /\ Run(d, batch) = Applied(d, batch)
    BY <1>2 DEF Verdict, Run
  <2>2. IntRows(d.accounts)
    <3>1. \A a \in DOMAIN d.accounts : d.accounts[a] \in [balance : Nat, held : Nat]
      BY DEF Sound
    <3>2. QED
      BY <3>1 DEF IntRows
  <2>3. IntRows(EnsureAccounts(d.accounts, batch.opens))
    BY <2>2 DEF IntRows, EnsureAccounts, Zero
  <2>4. IntRows(AfterFirst(d, batch)) /\ IntRows(AfterSecond(d, batch))
    BY <2>3, AdjustInts DEF WellMade, AfterFirst, AfterSecond
  <2>5. \A a \in DOMAIN AfterSecond(d, batch) :
          /\ AfterSecond(d, batch)[a] \in [balance : Nat, held : Nat]
          /\ AfterSecond(d, batch)[a].held <= AfterSecond(d, batch)[a].balance
    <3>1. ASSUME NEW a \in DOMAIN AfterSecond(d, batch)
          PROVE  /\ AfterSecond(d, batch)[a] \in [balance : Nat, held : Nat]
                 /\ AfterSecond(d, batch)[a].held <= AfterSecond(d, batch)[a].balance
      <4> DEFINE row == AfterSecond(d, batch)[a]
      <4>1. SolventRow(row)
        BY <2>1 DEF Overdrawn
      <4>2. row \in [balance : Int, held : Int]
        BY <2>4 DEF IntRows
      <4> HIDE DEF row
      <4>3. row \in [balance : Nat, held : Nat] /\ row.held <= row.balance
        BY <4>1, <4>2 DEF SolventRow
      <4>4. QED
        BY <4>3 DEF row
    <3>2. QED
      BY <3>1
  <2>6. \A r \in DOMAIN SettleHold(d.holds, batch.settles) : SettleHold(d.holds, batch.settles)[r] \in HoldRows
    <3>1. ASSUME NEW r \in DOMAIN d.holds
          PROVE  SettleHold(d.holds, batch.settles)[r] \in HoldRows
      <4>1. d.holds[r] \in HoldRows
        BY DEF Sound
      <4>2. CASE r \in DOMAIN batch.settles /\ d.holds[r].status = "open"
        <5>1. SettleHold(d.holds, batch.settles)[r] = [d.holds[r] EXCEPT !.status = batch.settles[r]]
          BY <4>2 DEF SettleHold
        <5>2. batch.settles[r] \in Status
          BY <4>2 DEF WellMade
        <5>3. QED
          BY <4>1, <5>1, <5>2 DEF HoldRows
      <4>3. CASE ~(r \in DOMAIN batch.settles /\ d.holds[r].status = "open")
        <5>1. SettleHold(d.holds, batch.settles)[r] = d.holds[r]
          BY <4>3 DEF SettleHold
        <5>2. QED
          BY <4>1, <5>1
      <4>4. QED
        BY <4>2, <4>3
    <3>2. DOMAIN SettleHold(d.holds, batch.settles) = DOMAIN d.holds
      BY DEF SettleHold
    <3>3. QED
      BY <3>1, <3>2
  <2> DEFINE settled == SettleHold(d.holds, batch.settles)
  <2>7. \A r \in DOMAIN Insert(settled, batch.places) : Insert(settled, batch.places)[r] \in HoldRows
    <3> HIDE DEF settled
    <3>1. DOMAIN Insert(settled, batch.places) = DOMAIN settled \cup DOMAIN batch.places
      BY DEF Insert
    <3>2. ASSUME NEW r \in DOMAIN settled \cup DOMAIN batch.places
          PROVE  Insert(settled, batch.places)[r] \in HoldRows
      <4>1. CASE r \in DOMAIN settled
        BY <2>6, <4>1 DEF Insert, settled
      <4>2. CASE r \notin DOMAIN settled
        BY <4>2 DEF Insert, WellMade
      <4>3. QED
        BY <4>1, <4>2
    <3>3. QED
      BY <3>1, <3>2
  <2>8. Applied(d, batch).accounts = AfterSecond(d, batch) /\ Applied(d, batch).holds = Insert(settled, batch.places)
    BY DEF Applied
  <2> HIDE DEF settled
  <2>9. QED
    BY <2>1, <2>5, <2>7, <2>8 DEF Sound
<1>3. QED
  BY <1>1, <1>2

LEMMA EffectSound ==
  ASSUME Sound(db), NEW h \in Effects
  PROVE  Sound(Settled(h))
<1>1. IsEffect(h) /\ h \in Writes \cup Effects
  BY DEF Effects, IsEffect
<1>2. /\ h.do \in {"hold", "credit"} => h.user \in Player /\ h.amount \in Amount
      /\ h.do \in {"hold", "credit", "release", "capture"}
  BY <1>1, WriteIs DEF IsEffect
<1>3. CASE EffectError(h) # "none"
  BY <1>3 DEF Settled
<1>4. CASE EffectError(h) = "none"
  <2>1. h.do \in {"release", "capture"} => h.ref \in DOMAIN db.holds /\ db.holds[h.ref] \in HoldRows
    BY <1>4 DEF EffectError, HoldError, Sound
  <2>2. WellMade(EffectBatch(h))
    <3>1. \A n \in Amount : n \in Nat /\ -n \in Int
      BY AmountAssumption
    <3>2. DOMAIN NoRows = {}
      BY DEF NoRows
    <3>3. CASE h.do = "hold"
      <4>1. EffectBatch(h) = HoldBatch(Purse(h.user), h.amount, h.ref)
        BY <3>3 DEF EffectBatch
      <4>2. NewHold(Purse(h.user), h.amount) \in HoldRows
        BY <1>2, <3>3, PurseAssumption DEF NewHold, HoldRows, Purse, Account, Status
      <4>3. WellMade(HoldBatch(Purse(h.user), h.amount, h.ref))
        BY <1>2, <3>1, <3>2, <3>3, <4>2 DEF HoldBatch, WellMade, IntMove, Move, Row
      <4>4. QED
        BY <4>1, <4>3
    <3>4. CASE h.do = "credit"
      <4>1. EffectBatch(h) = PostBatch("credit", Purse(h.user), h.amount, h.ref)
        BY <3>4 DEF EffectBatch
      <4>2. QED
        BY <1>2, <3>1, <3>2, <3>4, <4>1 DEF PostBatch, WellMade, IntMove, Move, Row, Signed
    <3>5. CASE h.do = "release"
      <4>1. EffectBatch(h) = ReleaseBatch(h.ref, db.holds[h.ref].account, db.holds[h.ref].amount)
        BY <3>5 DEF EffectBatch
      <4>2. db.holds[h.ref].amount \in Amount
        BY <2>1, <3>5 DEF HoldRows
      <4>3. QED
        BY <3>1, <3>2, <4>1, <4>2 DEF ReleaseBatch, WellMade, IntMove, Move, Row, Status
    <3>6. CASE h.do = "capture"
      <4>1. EffectBatch(h) = CaptureBatch(h.ref, db.holds[h.ref].account, db.holds[h.ref].amount, db.holds[h.ref].amount)
        BY <3>6 DEF EffectBatch
      <4>2. db.holds[h.ref].amount \in Amount
        BY <2>1, <3>6 DEF HoldRows
      <4>3. QED
        BY <3>1, <3>2, <4>1, <4>2 DEF CaptureBatch, WellMade, IntMove, Move, Row, Status
    <3>7. QED
      BY <1>2, <3>3, <3>4, <3>5, <3>6
  <2>3. Settled(h) = Run(db, EffectBatch(h))
    BY <1>4 DEF Settled
  <2>4. QED
    BY <2>2, <2>3, RunSound
<1>5. QED
  BY <1>3, <1>4

LEMMA PurgeSound == ASSUME NEW d, Sound(d), NEW p PROVE Sound(Purged(d, p))
  BY DEF Sound, Purged

-----------------------------------------------------------------------------
(* One write keeps the types *)

LEMMA StepShape ==
  ASSUME Shape, Order, NEW t \in Task, NEW v, Onward(t, v)
  PROVE  Shape'
<1> DEFINE w == run[t]
           h == w.todo[1]
<1>1. /\ w \in Tasks /\ w.todo \in Plans /\ w.todo # << >> /\ h \in Writes \cup Effects /\ Perform(t, h)
      /\ v \in Tasks /\ (v # NoTask => v.todo # << >>) /\ run' = [run EXCEPT ![t] = v] /\ erased' = erased /\ faults' = faults
  BY DEF Onward
<1>2. /\ storage \in [meta : Metas, model : Boards \cup {<< >>}, outcome : Statuses \cup {"none"},
                      operatorClose : OperatorKey \cup {NoKey}]
      /\ meta \in Metas /\ model \in Boards \cup {<< >>}
  BY DEF Shape, meta, model
<1>3. /\ h.do = "model" => h.state \in Boards
      /\ h.do \in {"meta", "list"} => h.meta \in Metas
      /\ h.do \in {"outcome", "result"} => h.status \in Statuses
      /\ h \in Writes => ~IsEffect(h)
  BY <1>1, WriteIs
<1>4. /\ meta' = IF h.do = "meta" THEN h.meta ELSE meta
      /\ model' = IF h.do = "model" THEN h.state ELSE model
      /\ storage'.outcome = IF h.do = "outcome" THEN h.status ELSE storage.outcome
      /\ storage'.operatorClose = IF h.do = "key" THEN w.who ELSE storage.operatorClose
      /\ storage' \in [meta : {meta'}, model : {model'}, outcome : {storage'.outcome},
                       operatorClose : {storage'.operatorClose}]
  BY <1>1, PerformIs
<1>5. /\ index' = (IF h.do = "list" THEN [players |-> h.meta.members, phase |-> h.meta.phase]
                   ELSE IF h.do = "unlist" THEN NoRow ELSE index)
      /\ result' = IF h.do = "result" /\ result = "none" THEN h.status ELSE result
      /\ board' = IF h.do = "publish" THEN board + 1 ELSE board
      /\ alarm' = (IF h.do = "arm" THEN TRUE ELSE IF h.do = "disarm" THEN FALSE ELSE alarm)
      /\ db' = IF IsEffect(h) THEN Settled(h) ELSE db
  BY <1>1, PerformIs
<1>6. \A what : 1 \in Doing(w.todo, what) <=> h.do = what
  BY <1>1, FirstIs
<1>7. \A what : ~Before(w.todo, 1, what)
  BY <1>1, FirstIs
<1>8. MetaFits(w) /\ ListFits(w.todo) /\ PublishFits(w.todo) /\ KeyFits(w)
  BY DEF Order, Orderly
<1>9. h.do = "meta" => /\ h.meta.phase # "none" /\ h.meta.seed \in Seeds
                       /\ Played(h.meta) => model \in Boards
  BY <1>6, <1>7, <1>8 DEF MetaFits
<1>10. h.do = "list" => ~Terminal(h.meta.phase)
  BY <1>6, <1>8 DEF ListFits
<1>11. h.do = "publish" => board = 0
  BY <1>6, <1>8 DEF PublishFits
<1>12. w.who \in Player \cup OperatorKey \cup {NoKey}
  BY <1>1 DEF Tasks
<1>13. /\ meta # NoMeta => meta.phase # "none" /\ meta.seed \in Seeds
       /\ Played(meta) => model \in Boards
       /\ alarm \in BOOLEAN
       /\ index \in [players : Seq(Player), phase : {"none", "open", "active"}]
       /\ result \in Statuses \cup {"none"}
       /\ board \in {0, 1}
       /\ Sound(db)
       /\ run \in [Task -> Tasks] /\ (\A u \in Task : run[u] # NoTask => run[u].todo # << >>)
       /\ erased \subseteq Erasable /\ faults \in Nat
  BY DEF Shape
<1> HIDE DEF w, h
<1>14. storage' \in [meta : Metas, model : Boards \cup {<< >>}, outcome : Statuses \cup {"none"},
                     operatorClose : OperatorKey \cup {NoKey}]
  <2>1. meta' \in Metas
    BY <1>2, <1>3, <1>4
  <2>2. model' \in Boards \cup {<< >>}
    BY <1>2, <1>3, <1>4
  <2>3. storage'.outcome \in Statuses \cup {"none"}
    BY <1>2, <1>3, <1>4
  <2>4. storage'.operatorClose \in OperatorKey \cup {NoKey}
    <3>1. h.do = "key" => w.who \in OperatorKey \cup {NoKey}
      BY <1>6, <1>8 DEF KeyFits
    <3>2. QED
      BY <1>2, <1>4, <3>1
  <2>5. QED
    BY <1>4, <2>1, <2>2, <2>3, <2>4
<1>15. meta' # NoMeta => meta'.phase # "none" /\ meta'.seed \in Seeds
  BY <1>4, <1>9, <1>13
<1>16. Played(meta') => model' \in Boards
  BY <1>3, <1>4, <1>9, <1>13
<1>17. alarm' \in BOOLEAN
  BY <1>5, <1>13
<1>18. index' \in [players : Seq(Player), phase : {"none", "open", "active"}]
  <2>1. NoRow \in [players : Seq(Player), phase : {"none", "open", "active"}]
    BY DEF NoRow
  <2>2. h.do = "list" => [players |-> h.meta.members, phase |-> h.meta.phase]
                            \in [players : Seq(Player), phase : {"none", "open", "active"}]
    BY <1>3, <1>10 DEF Metas, Phase, Terminal
  <2>3. QED
    BY <1>5, <1>13, <2>1, <2>2
<1>19. result' \in Statuses \cup {"none"}
  BY <1>3, <1>5, <1>13
<1>20. board' \in {0, 1}
  BY <1>5, <1>11, <1>13
<1>21. Sound(db)'
  <2>1. IsEffect(h) => Sound(Settled(h))
    BY <1>1, <1>3, <1>13, EffectSound
  <2>2. Sound(db')
    BY <1>5, <1>13, <2>1
  <2>3. QED
    BY <2>2 DEF Sound
<1>22. run' \in [Task -> Tasks] /\ \A u \in Task : run'[u] # NoTask => run'[u].todo # << >>
  BY <1>1, <1>13
<1>23. QED
  BY <1>1, <1>13, <1>14, <1>15, <1>16, <1>17, <1>18, <1>19, <1>20, <1>21, <1>22 DEF Shape, Played

-----------------------------------------------------------------------------
(* The plans of the transitions keep the order *)

\* Writes that are of no moment to the order.
Quiet == {"model", "arm", "hold", "credit", "release", "capture"}

\* A transition that goes on writes its meta last, and just before it, it may, the index row.
GoesOn(todo, m) ==
  LET n == Len(todo)
  IN /\ n \in Nat \ {0} /\ DOMAIN todo = 1 .. n /\ todo[n] = Meta(m)
     /\ \A i \in 1 .. n - 1 : todo[i].do \in Quiet \/ todo[i] = List(m)

Ended(status, m) == [m EXCEPT !.phase = status, !.deadline = FALSE]

\* A transition that ends the session takes it off the index with its u-th write, after the
\* result if it records one.
EndsAt(w, u, status, m) ==
  LET todo == w.todo
  IN /\ u \in Nat \ {0} /\ Len(todo) \in {u + 3, u + 4} /\ DOMAIN todo = 1 .. Len(todo)
     /\ \A i \in 1 .. u - 1 :
          todo[i].do \in Quiet \/ (i = u - 1 /\ todo[i] = [do |-> "result", status |-> status])
     /\ todo[u] = [do |-> "unlist"] /\ todo[u + 1] = Meta(Ended(status, m))
     /\ todo[u + 2] = [do |-> "outcome", status |-> status] /\ todo[u + 3] = [do |-> "disarm"]
     /\ Len(todo) = u + 4 => \/ todo[u + 4] = [do |-> "publish"] /\ status = "resolved"
                             \/ todo[u + 4] = [do |-> "key"] /\ w.who \in OperatorKey
     /\ status = "resolved" => u # 1 /\ todo[u - 1].do = "result"
     /\ Mode = "match" /\ u # 1 /\ todo[u - 1].do = "result" /\ status = "abandoned" =>
          u = 2 /\ ~IsComplete(model, meta.members)

LEMMA GoingFits ==
  ASSUME NEW w, NEW m, GoesOn(w.todo, m), ~Terminal(meta.phase), ~Terminal(m.phase), m.phase # "none",
         m.seed \in Seeds, Seated \ Leaver(w) \subseteq ToSet(m.members),
         Played(m) => model \in Boards \/ \E i \in DOMAIN w.todo : w.todo[i].do = "model"
  PROVE  Orderly(w)
<1> DEFINE todo == w.todo
           n == Len(todo)
<1>1. /\ n \in Nat \ {0} /\ DOMAIN todo = 1 .. n /\ todo[n] = Meta(m)
      /\ \A i \in 1 .. n - 1 : todo[i].do \in Quiet \/ todo[i] = List(m)
  BY DEF GoesOn
<1>2. Meta(m).do = "meta" /\ Meta(m).meta = m /\ List(m).do = "list" /\ List(m).meta = m
  BY DEF Meta, List
<1> HIDE DEF todo, n
<1>3. \A i \in DOMAIN todo : i = n \/ todo[i].do \in Quiet \cup {"list"}
  <2>1. \A i \in 1 .. n : i = n \/ i \in 1 .. n - 1
    BY <1>1
  <2>2. QED
    BY <1>1, <1>2, <2>1
<1>4. \A what : what \notin Quiet \cup {"list", "meta"} => Doing(todo, what) = {}
  BY <1>1, <1>2, <1>3 DEF Doing
<1>5. /\ \A i \in Doing(todo, "meta") : i = n /\ todo[i].meta = m
      /\ \A i \in Doing(todo, "list") : todo[i].meta = m
  <2>1. "meta" \notin Quiet \cup {"list"}
    BY DEF Quiet
  <2>2. \A i \in Doing(todo, "meta") : i = n /\ todo[i].meta = m
    BY <1>1, <1>2, <1>3, <2>1 DEF Doing
  <2>3. ASSUME NEW i \in Doing(todo, "list")
        PROVE  todo[i].meta = m
    <3>1. i \in 1 .. n /\ todo[i].do = "list" /\ i # n
      BY <1>1, <1>2 DEF Doing
    <3>2. i \in 1 .. n - 1
      BY <1>1, <3>1
    <3>3. todo[i].do \notin Quiet
      BY <3>1 DEF Quiet
    <3>4. QED
      BY <1>1, <1>2, <3>2, <3>3
  <2>4. QED
    BY <2>2, <2>3
<1>6. Ending(todo) = {}
  BY <1>5 DEF Ending
<1>7. /\ Doing(todo, "outcome") = {} /\ Doing(todo, "publish") = {} /\ Doing(todo, "result") = {}
      /\ Doing(todo, "key") = {}
  BY <1>4 DEF Quiet
<1>8. \A i \in DOMAIN todo : todo[i].do = "model" => i < n
  <2>1. ASSUME NEW i \in DOMAIN todo, todo[i].do = "model"
        PROVE  i < n
    <3>1. i # n /\ i \in 1 .. n
      BY <1>1, <1>2, <2>1
    <3>2. QED
      BY <1>1, <3>1
  <2>2. QED
    BY <2>1
<1>9. MetaFits(w)
  <2>1. Played(m) => model \in Boards \/ Before(todo, n, "model")
    BY <1>8 DEF Before, Doing, todo
  <2>2. QED
    BY <1>5, <2>1 DEF MetaFits, todo
<1>10. QED
  BY <1>5, <1>6, <1>7, <1>9 DEF Orderly, OnceEach, ListFits, EndFits, OutcomeFits, PublishFits, ResultFits, KeyFits, todo

LEMMA EndingFits ==
  ASSUME Shape, Order, NEW w, NEW u, NEW status \in Statuses, NEW m \in Metas, EndsAt(w, u, status, m),
         ~Terminal(meta.phase), meta # NoMeta, m.phase # "none", m.seed \in Seeds, Seated \ Leaver(w) \subseteq ToSet(m.members)
  PROVE  Orderly(w)
<1> DEFINE todo == w.todo
           N == Len(todo)
           e == Ended(status, m)
<1>1. /\ u \in Nat \ {0} /\ N \in {u + 3, u + 4} /\ DOMAIN todo = 1 .. N
      /\ \A i \in 1 .. u - 1 :
           todo[i].do \in Quiet \/ (i = u - 1 /\ todo[i] = [do |-> "result", status |-> status])
      /\ todo[u] = [do |-> "unlist"] /\ todo[u + 1] = Meta(e)
      /\ todo[u + 2] = [do |-> "outcome", status |-> status] /\ todo[u + 3] = [do |-> "disarm"]
      /\ N = u + 4 => \/ todo[u + 4] = [do |-> "publish"] /\ status = "resolved"
                      \/ todo[u + 4] = [do |-> "key"] /\ w.who \in OperatorKey
      /\ status = "resolved" => u # 1 /\ todo[u - 1].do = "result"
      /\ Mode = "match" /\ u # 1 /\ todo[u - 1].do = "result" /\ status = "abandoned" =>
           u = 2 /\ ~IsComplete(model, meta.members)
  BY DEF EndsAt
<1>3. e.phase = status /\ e.members = m.members /\ e.seed = m.seed /\ e # NoMeta
  BY DEF Ended, Metas, Statuses, NoMeta
<1>4. Meta(e).do = "meta" /\ Meta(e).meta = e /\ Terminal(status) /\ status # "none" /\ status # "active"
  BY DEF Meta, Terminal, Statuses
<1> HIDE DEF todo, N, e
<1>5. /\ todo[u].do = "unlist" /\ todo[u + 1].do = "meta" /\ todo[u + 1].meta = e
      /\ todo[u + 2].do = "outcome" /\ todo[u + 3].do = "disarm"
      /\ N = u + 4 => \/ todo[u + 4].do = "publish" /\ status = "resolved"
                      \/ todo[u + 4].do = "key" /\ w.who \in OperatorKey
  BY <1>1, <1>4
<1>6. /\ \A i \in 1 .. u - 1 : todo[i].do \in Quiet \/ (i = u - 1 /\ todo[i].do = "result" /\ todo[i].status = status)
      /\ \A i \in DOMAIN todo : i \in 1 .. u - 1 \/ i \in {u, u + 1, u + 2, u + 3} \/ (i = u + 4 /\ N = u + 4)
  <2>1. \A i \in 1 .. u - 1 : todo[i].do \in Quiet \/ (i = u - 1 /\ todo[i].do = "result" /\ todo[i].status = status)
    BY <1>1
  <2>2. \A i \in 1 .. N : i \in 1 .. u - 1 \/ i \in {u, u + 1, u + 2, u + 3} \/ (i = u + 4 /\ N = u + 4)
    <3>1. u \in Nat /\ (N = u + 3 \/ N = u + 4)
      BY <1>1
    <3>2. QED
      BY <3>1
  <2>3. QED
    BY <1>1, <2>1, <2>2
<1>7. Quiet \cap {"meta", "outcome", "publish", "list", "result", "key", "unlist", "disarm"} = {}
  BY DEF Quiet
<1>8. /\ \A i \in Doing(todo, "meta") : i = u + 1
      /\ \A i \in Doing(todo, "outcome") : i = u + 2
      /\ \A i \in Doing(todo, "publish") : i = u + 4 /\ status = "resolved"
      /\ Doing(todo, "list") = {}
      /\ \A i \in Doing(todo, "result") : i = u - 1 /\ u # 1 /\ todo[i].status = status
      /\ Doing(todo, "key") # {} => w.who \in OperatorKey
  <2>1. \A i \in Doing(todo, "meta") : i = u + 1
    BY <1>5, <1>6, <1>7 DEF Doing
  <2>2. \A i \in Doing(todo, "outcome") : i = u + 2
    BY <1>5, <1>6, <1>7 DEF Doing
  <2>3. \A i \in Doing(todo, "publish") : i = u + 4 /\ status = "resolved"
    BY <1>5, <1>6, <1>7 DEF Doing
  <2>4. Doing(todo, "list") = {}
    BY <1>5, <1>6, <1>7 DEF Doing
  <2>5. \A i \in Doing(todo, "result") : i = u - 1 /\ u # 1 /\ todo[i].status = status
    <3>1. \A i \in Doing(todo, "result") : i = u - 1 /\ i \in 1 .. u - 1 /\ todo[i].status = status
      BY <1>5, <1>6, <1>7 DEF Doing
    <3>2. u = 1 => 1 .. u - 1 = {}
      BY <1>1
    <3>3. QED
      BY <3>1, <3>2
  <2>6. Doing(todo, "key") # {} => w.who \in OperatorKey
    BY <1>5, <1>6, <1>7 DEF Doing
  <2>7. QED
    BY <2>1, <2>2, <2>3, <2>4, <2>5, <2>6
<1>9. u \in Doing(todo, "unlist") /\ u + 1 \in Ending(todo) /\ (status = "resolved" => u - 1 \in Doing(todo, "result"))
  <2>1. u \in DOMAIN todo /\ u + 1 \in DOMAIN todo /\ (u # 1 => u - 1 \in DOMAIN todo)
    BY <1>1
  <2>2. QED
    BY <1>1, <1>3, <1>4, <1>5, <2>1 DEF Doing, Ending
<1>10. u < u + 1 /\ u - 1 < u + 1 /\ u + 1 < u + 2 /\ u + 1 < u + 4
  BY <1>1
<1>11. OnceEach(todo)
  BY <1>8 DEF OnceEach
<1>12. MetaFits(w)
  <2>1. Played(e) => model \in Boards
    <3>1. Played(e) => Mode = "table"
      BY <1>3, <1>4 DEF Played
    <3>2. Mode = "table" /\ model \notin Boards => meta = NoMeta
      BY DEF Shape, Played
    <3>3. QED
      BY <3>1, <3>2
  <2>2. \A i \in Doing(todo, "meta") : todo[i].meta = e
    BY <1>5, <1>8
  <2>3. e.phase # "none" /\ e.seed \in Seeds /\ Seated \ Leaver(w) \subseteq ToSet(e.members)
    BY <1>3, <1>4
  <2>4. QED
    BY <2>1, <2>2, <2>3 DEF MetaFits, todo
<1>13. ListFits(todo)
  BY <1>8 DEF ListFits
<1>14. EndFits(todo)
  <2>1. ASSUME NEW i \in Ending(todo)
        PROVE  Before(todo, i, "unlist") /\ (todo[i].meta.phase = "resolved" => Before(todo, i, "result"))
    <3>1. i = u + 1 /\ todo[i].meta = e
      BY <1>5, <1>8 DEF Ending
    <3>2. QED
      BY <1>3, <1>9, <1>10, <3>1 DEF Before
  <2>2. QED
    BY <2>1 DEF EndFits
<1>15. OutcomeFits(todo)
  BY <1>8, <1>9, <1>10 DEF OutcomeFits, Order
<1>16. PublishFits(todo)
  <2>1. board = 0
    <3>1. board \in {0, 1} /\ (board = 1 => meta.phase = "resolved")
      BY DEF Shape, Order, EndedInOrder
    <3>2. QED
      BY <3>1 DEF Terminal
  <2>2. QED
    BY <1>3, <1>5, <1>8, <1>9, <1>10, <2>1 DEF PublishFits
<1>17. ResultFits(todo)
  <2>1. ASSUME NEW i \in Doing(todo, "result"), Mode = "match" /\ todo[i].status = "abandoned"
        PROVE  i = 1 /\ ~IsComplete(model, meta.members)
    <3>1. i = u - 1 /\ u # 1 /\ status = "abandoned" /\ todo[u - 1].do = "result"
      BY <1>8, <2>1 DEF Doing
    <3>2. u = 2 /\ ~IsComplete(model, meta.members)
      BY <1>1, <2>1, <3>1
    <3>3. QED
      BY <3>1, <3>2
  <2>2. QED
    BY <2>1 DEF ResultFits
<1>18. KeyFits(w)
  BY <1>8 DEF KeyFits, todo
<1>19. QED
  BY <1>11, <1>12, <1>13, <1>14, <1>15, <1>16, <1>17, <1>18 DEF Orderly, todo

-----------------------------------------------------------------------------
(* The lists a game model computes, one element at a time *)

IsKept(f, list, set) ==
  f = [i \in 0 .. Len(list) |-> IF i = 0 THEN << >>
                                ELSE IF list[i] \in set THEN Append(f[i - 1], list[i]) ELSE f[i - 1]]

\* The definition itself.
LEMMA KeepingUnfolds == \A list, set : Keeping(list, set) = (CHOOSE f : IsKept(f, list, set))[Len(list)]
  BY DEF Keeping, IsKept

LEMMA KeepingSteps ==
  ASSUME NEW S, NEW list \in Seq(S), NEW set
  PROVE  \E F \in [0 .. Len(list) -> Seq(S)] :
           /\ F[0] = << >> /\ Keeping(list, set) = F[Len(list)]
           /\ \A k \in 1 .. Len(list) : F[k] = IF list[k] \in set THEN Append(F[k - 1], list[k]) ELSE F[k - 1]
<1> DEFINE N == Len(list)
           V == Seq(S)
           more == [x \in V \X (1 .. N) |-> IF list[x[2]] \in set THEN Append(x[1], list[x[2]]) ELSE x[1]]
<1>1. N \in Nat /\ \A i \in 1 .. N : list[i] \in S
  OBVIOUS
<1>2. PICK h : Follows(h, more, V, << >>, N)
  <2>1. IsStep(more, V, N)
    <3> HIDE DEF N
    <3>1. more \in [V \X (1 .. N) -> V]
      BY <1>1
    <3> HIDE DEF more, V
    <3>2. QED
      BY <3>1 DEF IsStep
  <2>2. << >> \in V
    OBVIOUS
  <2> HIDE DEF V, N, more
  <2>3. QED
    BY <1>1, <2>1, <2>2, RecursionExists
<1>3. /\ h \in [0 .. N -> V] /\ h[0] = << >>
      /\ \A n \in 1 .. N : h[n] = IF list[n] \in set THEN Append(h[n - 1], list[n]) ELSE h[n - 1]
  <2>1. h \in [0 .. N -> V] /\ h[0] = << >> /\ \A n \in 1 .. N : h[n] = more[<<h[n - 1], n>>]
    <3> HIDE DEF V, N, more
    <3>1. QED
      BY <1>2 DEF Follows
  <2>2. \A n \in 1 .. N : <<h[n - 1], n>> \in V \X (1 .. N)
    <3> HIDE DEF V
    <3>1. QED
      BY <1>1, <2>1
  <2> HIDE DEF V, N
  <2>3. QED
    BY <2>1, <2>2
<1> HIDE DEF V, more
<1>4. IsKept(h, list, set)
  <2> DEFINE value(i) == IF i = 0 THEN << >>
                         ELSE IF list[i] \in set THEN Append(h[i - 1], list[i]) ELSE h[i - 1]
  <2>1. \A i \in 0 .. N : h[i] = value(i)
    <3>1. \A i \in 0 .. N : i = 0 \/ i \in 1 .. N
      BY <1>1
    <3> HIDE DEF N
    <3>2. QED
      BY <1>3, <3>1
  <2>2. h = [i \in 0 .. N |-> h[i]]
    BY <1>3
  <2>3. h = [i \in 0 .. N |-> value(i)]
    <3> HIDE DEF value, N
    <3>1. QED
      BY <2>1, <2>2
  <2>4. QED
    BY <2>3 DEF IsKept
<1> DEFINE f == CHOOSE g : IsKept(g, list, set)
<1>5. IsKept(f, list, set)
  BY <1>4
<1>6. Keeping(list, set) = f[N]
  BY KeepingUnfolds
<1> HIDE DEF f
<1>7. \A n \in 0 .. N : f[n] = h[n]
  <2>1. SameSteps(f, h, N)
    <3>1. \A i \in 0 .. N : f[i] = IF i = 0 THEN << >>
                                   ELSE IF list[i] \in set THEN Append(f[i - 1], list[i]) ELSE f[i - 1]
      BY <1>5 DEF IsKept
    <3>2. 0 \in 0 .. N /\ \A n \in 1 .. N : n \in 0 .. N /\ n # 0
      BY <1>1
    <3> HIDE DEF N
    <3>3. f[0] = << >> /\ \A n \in 1 .. N : f[n] = IF list[n] \in set THEN Append(f[n - 1], list[n]) ELSE f[n - 1]
      BY <3>1, <3>2
    <3>4. QED
      BY <1>3, <3>3 DEF SameSteps
  <2> HIDE DEF N
  <2>2. QED
    BY <1>1, <2>1, AgreeUpTo
<1>8. Keeping(list, set) = h[N]
  BY <1>1, <1>6, <1>7
<1> HIDE DEF N
<1>9. QED
  BY <1>3, <1>8 DEF V, N

\* It keeps the order, and so keeps elements that differ apart.
Apart(list) == \A i, j \in DOMAIN list : list[i] = list[j] => i = j

LEMMA AppendIs ==
  ASSUME NEW S, NEW s \in Seq(S), NEW x \in S
  PROVE  /\ Append(s, x) \in Seq(S) /\ Len(Append(s, x)) = Len(s) + 1 /\ ToSet(Append(s, x)) = ToSet(s) \cup {x}
         /\ Apart(s) /\ x \notin ToSet(s) => Apart(Append(s, x))
<1> DEFINE a == Append(s, x)
           n == Len(s)
<1>1. /\ a \in Seq(S) /\ n \in Nat /\ DOMAIN s = 1 .. n /\ Len(a) = n + 1 /\ DOMAIN a = 1 .. n + 1
      /\ a[n + 1] = x /\ \A i \in 1 .. n : a[i] = s[i]
  OBVIOUS
<1> HIDE DEF a, n
<1>2. 1 .. n + 1 = (1 .. n) \cup {n + 1}
  BY <1>1
<1>3. ToSet(a) = ToSet(s) \cup {x}
  BY <1>1, <1>2 DEF ToSet
<1>4. ASSUME Apart(s), x \notin ToSet(s)
      PROVE  Apart(a)
  <2>1. \A i \in 1 .. n : a[i] # x
    BY <1>1, <1>4 DEF ToSet
  <2>2. QED
    BY <1>1, <1>2, <1>4, <2>1 DEF Apart
<1>5. QED
  BY <1>1, <1>3, <1>4 DEF a, n

LEMMA KeepingIs ==
  ASSUME NEW S, NEW list \in Seq(S), NEW set
  PROVE  /\ Keeping(list, set) \in Seq(S) /\ ToSet(Keeping(list, set)) = ToSet(list) \cap set
         /\ Len(Keeping(list, set)) <= Len(list) /\ (Apart(list) => Apart(Keeping(list, set)))
<1> DEFINE N == Len(list)
           prefix(k) == {list[i] : i \in 1 .. k}
<1>1. N \in Nat /\ DOMAIN list = 1 .. N /\ \A i \in 1 .. N : list[i] \in S
  OBVIOUS
<1>2. PICK F \in [0 .. N -> Seq(S)] :
        /\ F[0] = << >> /\ Keeping(list, set) = F[N]
        /\ \A k \in 1 .. N : F[k] = IF list[k] \in set THEN Append(F[k - 1], list[k]) ELSE F[k - 1]
  BY KeepingSteps
<1> HIDE DEF N
<1> DEFINE P == {k \in 0 .. N : /\ ToSet(F[k]) = prefix(k) \cap set /\ Len(F[k]) <= k
                                /\ Apart(list) => Apart(F[k])}
<1>3. 0 \in P
  <2>1. ToSet(<< >>) = {} /\ Len(<< >>) = 0 /\ Apart(<< >>)
    BY DEF ToSet, Apart
  <2>2. prefix(0) = {}
    OBVIOUS
  <2>3. QED
    BY <1>1, <1>2, <2>1, <2>2
<1>4. ASSUME NEW k \in 1 .. N, k - 1 \in P
      PROVE  k \in P
  <2>1. /\ ToSet(F[k - 1]) = prefix(k - 1) \cap set /\ Len(F[k - 1]) <= k - 1
        /\ Apart(list) => Apart(F[k - 1])
    BY <1>4
  <2>2. F[k - 1] \in Seq(S) /\ list[k] \in S /\ k \in 0 .. N /\ k - 1 \in Nat
    BY <1>1, <1>2
  <2>3. prefix(k) = prefix(k - 1) \cup {list[k]}
    <3>1. 1 .. k = (1 .. k - 1) \cup {k}
      BY <2>2
    <3>2. QED
      BY <3>1
  <2>4. Apart(list) => list[k] \notin prefix(k - 1)
    <3>1. \A i \in 1 .. k - 1 : i \in 1 .. N /\ i # k
      BY <1>1
    <3>2. QED
      BY <1>1, <3>1 DEF Apart
  <2> HIDE DEF prefix
  <2>5. CASE list[k] \in set
    <3>1. F[k] = Append(F[k - 1], list[k])
      BY <1>2, <2>5
    <3>2. /\ ToSet(F[k]) = ToSet(F[k - 1]) \cup {list[k]} /\ Len(F[k]) = Len(F[k - 1]) + 1
          /\ Apart(F[k - 1]) /\ list[k] \notin ToSet(F[k - 1]) => Apart(F[k])
      BY <2>2, <3>1, AppendIs
    <3>3. ToSet(F[k]) = prefix(k) \cap set
      BY <2>1, <2>3, <2>5, <3>2
    <3>4. Len(F[k]) <= k
      <4>1. Len(F[k - 1]) \in Nat /\ k \in Nat
        BY <2>2
      <4>2. QED
        BY <2>1, <3>2, <4>1
    <3>5. Apart(list) => Apart(F[k])
      BY <2>1, <2>4, <3>2
    <3>6. QED
      BY <2>2, <3>3, <3>4, <3>5
  <2>6. CASE list[k] \notin set
    <3>1. F[k] = F[k - 1]
      BY <1>2, <2>6
    <3>2. ToSet(F[k]) = prefix(k) \cap set
      BY <2>1, <2>3, <2>6, <3>1
    <3>3. Len(F[k]) <= k
      <4>1. Len(F[k - 1]) \in Nat /\ k \in Nat
        BY <2>2
      <4>2. QED
        BY <2>1, <3>1, <4>1
    <3>4. QED
      BY <2>1, <2>2, <3>1, <3>2, <3>3
  <2>7. QED
    BY <2>5, <2>6
<1>5. P = 0 .. N
  <2>1. P \in SUBSET (0 .. N)
    OBVIOUS
  <2> HIDE DEF P
  <2>2. QED
    BY <1>1, <1>3, <1>4, <2>1, UpTo
<1>6. N \in P
  <2> HIDE DEF P
  <2>1. QED
    BY <1>1, <1>5
<1>7. prefix(N) = ToSet(list)
  BY <1>1 DEF ToSet
<1> HIDE DEF prefix
<1>8. QED
  BY <1>1, <1>2, <1>6, <1>7 DEF N

IsFlat(F, lists) == F = [i \in 1 .. Len(lists) |-> IF i = 1 THEN lists[i] ELSE F[i - 1] \o lists[i]]

LEMMA FlattenSteps ==
  ASSUME NEW S, NEW lists \in Seq(Seq(S))
  PROVE  \E F \in [0 .. Len(lists) -> Seq(S)] :
           /\ F[0] = << >> /\ FlattenSeq(lists) = F[Len(lists)]
           /\ \A k \in 1 .. Len(lists) : F[k] = F[k - 1] \o lists[k]
<1> DEFINE N == Len(lists)
           V == Seq(S)
           more == [x \in V \X (1 .. N) |-> x[1] \o lists[x[2]]]
<1>1. N \in Nat /\ DOMAIN lists = 1 .. N /\ \A i \in 1 .. N : lists[i] \in V
  OBVIOUS
<1>2. PICK h : Follows(h, more, V, << >>, N)
  <2>1. IsStep(more, V, N)
    <3> HIDE DEF N
    <3>1. more \in [V \X (1 .. N) -> V]
      BY <1>1
    <3> HIDE DEF more, V
    <3>2. QED
      BY <3>1 DEF IsStep
  <2>2. << >> \in V
    OBVIOUS
  <2> HIDE DEF V, N, more
  <2>3. QED
    BY <1>1, <2>1, <2>2, RecursionExists
<1>3. h \in [0 .. N -> V] /\ h[0] = << >> /\ \A n \in 1 .. N : h[n] = h[n - 1] \o lists[n]
  <2>1. h \in [0 .. N -> V] /\ h[0] = << >> /\ \A n \in 1 .. N : h[n] = more[<<h[n - 1], n>>]
    <3> HIDE DEF V, N, more
    <3>1. QED
      BY <1>2 DEF Follows
  <2>2. \A n \in 1 .. N : <<h[n - 1], n>> \in V \X (1 .. N)
    <3>1. \A n \in 1 .. N : n - 1 \in 0 .. N
      BY <1>1
    <3> HIDE DEF V, N
    <3>2. QED
      BY <2>1, <3>1
  <2> HIDE DEF V, N
  <2>3. QED
    BY <2>1, <2>2
<1> DEFINE G == [i \in 1 .. N |-> h[i]]
<1>4. \A i \in 1 .. N : h[i] = IF i = 1 THEN lists[i] ELSE h[i - 1] \o lists[i]
  <2>1. ASSUME 1 \in 1 .. N
        PROVE  h[1] = lists[1]
    <3>1. h[1] = h[0] \o lists[1]
      <4>1. h[1] = h[1 - 1] \o lists[1]
        <5> HIDE DEF N
        <5>1. QED
          BY <1>3, <2>1
      <4>2. QED
        BY <4>1
    <3>2. lists[1] \in Seq(S)
      BY <1>1, <2>1
    <3>3. QED
      BY <1>3, <3>1, <3>2, ConcatEmptySeq
  <2> HIDE DEF N
  <2>2. QED
    BY <1>3, <2>1
<1>5. IsFlat(G, lists)
  <2>1. \A i \in 1 .. N : G[i] = IF i = 1 THEN lists[i] ELSE G[i - 1] \o lists[i]
    <3>1. \A i \in 1 .. N : i = 1 \/ i - 1 \in 1 .. N
      BY <1>1
    <3> HIDE DEF N
    <3>2. QED
      BY <1>4, <3>1
  <2>2. G = [i \in 1 .. N |-> G[i]]
    OBVIOUS
  <2> HIDE DEF G
  <2>3. QED
    BY <2>1, <2>2 DEF IsFlat
<1> DEFINE F == CHOOSE K : IsFlat(K, lists)
<1>6. IsFlat(F, lists) /\ FlattenSeq(lists) = IF N = 0 THEN lists ELSE F[N]
  <2>1. IsFlat(F, lists)
    BY <1>5
  <2>2. FlattenSeq(lists) = IF N = 0 THEN lists ELSE F[N]
    BY <1>1 DEF FlattenSeq, IsFlat
  <2>3. QED
    BY <2>1, <2>2
<1> HIDE DEF F, G, V, more
<1>7. CASE N = 0
  <2>1. lists = << >>
    BY <1>7, EmptySeq
  <2>2. FlattenSeq(lists) = h[N]
    BY <1>3, <1>6, <1>7, <2>1
  <2> HIDE DEF N
  <2>3. QED
    BY <1>3, <2>2 DEF V, N
<1>8. CASE N # 0
  <2>1. F[1] = lists[1] /\ \A n \in 2 .. N : F[n] = F[n - 1] \o lists[n]
    <3>1. \A n \in 1 .. N : F[n] = IF n = 1 THEN lists[n] ELSE F[n - 1] \o lists[n]
      BY <1>6 DEF IsFlat
    <3>2. 1 \in 1 .. N /\ \A n \in 2 .. N : n \in 1 .. N /\ n # 1
      BY <1>1, <1>8
    <3> HIDE DEF N
    <3>3. QED
      BY <3>1, <3>2
  <2>2. h[1] = lists[1] /\ \A n \in 2 .. N : h[n] = h[n - 1] \o lists[n]
    <3>1. 1 \in 1 .. N /\ \A n \in 2 .. N : n \in 1 .. N /\ n # 1
      BY <1>1, <1>8
    <3> HIDE DEF N
    <3>2. QED
      BY <1>4, <3>1
  <2> DEFINE P == {n \in 0 .. N : n = 0 \/ F[n] = h[n]}
  <2>3. 0 \in P /\ \A n \in 1 .. N : n - 1 \in P => n \in P
    <3>1. \A n \in 1 .. N : n = 1 \/ n \in 2 .. N
      BY <1>1
    <3>2. 0 \in P
      BY <1>1
    <3>3. ASSUME NEW n \in 1 .. N, n - 1 \in P
          PROVE  n \in P
      <4>1. CASE n = 1
        BY <2>1, <2>2, <4>1
      <4>2. CASE n # 1
        <5>1. n \in 2 .. N /\ n - 1 # 0 /\ n \in 0 .. N
          BY <1>1, <3>1, <4>2
        <5>2. F[n - 1] = h[n - 1]
          BY <3>3, <5>1
        <5> HIDE DEF N
        <5>3. QED
          BY <2>1, <2>2, <5>1, <5>2
      <4>3. QED
        BY <4>1, <4>2
    <3> HIDE DEF P
    <3>4. QED
      BY <3>2, <3>3
  <2>4. P = 0 .. N
    <3>1. P \in SUBSET (0 .. N)
      OBVIOUS
    <3> HIDE DEF P, N
    <3>2. QED
      BY <1>1, <2>3, <3>1, UpTo
  <2>5. N \in P
    <3> HIDE DEF P, N
    <3>1. QED
      BY <1>1, <2>4
  <2>6. FlattenSeq(lists) = h[N]
    BY <1>6, <1>8, <2>5
  <2> HIDE DEF N, P
  <2>7. QED
    BY <1>3, <2>6 DEF V, N
<1>9. QED
  BY <1>7, <1>8

-----------------------------------------------------------------------------
(* What a move makes of a book *)

\* The bets of a book that has numbered n.
IsBetList(bets, n) ==
  /\ bets \in Seq(Bettings)
  /\ \A i \in DOMAIN bets : bets[i].ref \in RefsTo(n)
  /\ \A i, j \in DOMAIN bets : bets[i].ref = bets[j].ref => i = j

LEMMA BookIs ==
  ASSUME NEW book \in Books
  PROVE  /\ IsBetList(book.bets, book.betSeq) /\ book.betSeq \in 0 .. MaxBets /\ book.round \in Nat
         /\ book \in [bets : Seq(Bettings), betSeq : 0 .. MaxBets, round : Nat]
         /\ \A b \in Bets(book) : b \in Bettings /\ b.ref \in RefsTo(book.betSeq)
         /\ \A b, c \in Bets(book) : b.ref = c.ref => b = c
         /\ Apart(book.bets)
<1>1. book \in [bets : Seq(Bettings), betSeq : 0 .. MaxBets, round : Nat]
  BY DEF Books
<1>2. IsBetList(book.bets, book.betSeq)
  BY <1>1 DEF Books, IsBetList
<1>3. \A i \in DOMAIN book.bets : book.bets[i] \in Bettings
  BY <1>1
<1>4. \A b \in Bets(book) : b \in Bettings /\ b.ref \in RefsTo(book.betSeq)
  BY <1>2, <1>3 DEF Bets, ToSet, IsBetList
<1>5. \A b, c \in Bets(book) : b.ref = c.ref => b = c
  BY <1>2 DEF Bets, ToSet, IsBetList
<1>6. Apart(book.bets)
  BY <1>2 DEF Apart, IsBetList
<1>7. QED
  BY <1>1, <1>2, <1>4, <1>5, <1>6

LEMMA KeptBets ==
  ASSUME NEW bets, NEW n, IsBetList(bets, n), NEW set
  PROVE  IsBetList(Keeping(bets, set), n) /\ ToSet(Keeping(bets, set)) = ToSet(bets) \cap set
<1> DEFINE K == Keeping(bets, set)
<1>1. bets \in Seq(Bettings) /\ Apart(bets)
  BY DEF IsBetList, Apart
<1>2. K \in Seq(Bettings) /\ ToSet(K) = ToSet(bets) \cap set /\ Apart(K)
  BY <1>1, KeepingIs
<1> HIDE DEF K
<1>3. \A i \in DOMAIN K : \E x \in DOMAIN bets : K[i] = bets[x]
  BY <1>2 DEF ToSet
<1>4. \A i \in DOMAIN K : K[i].ref \in RefsTo(n)
  BY <1>3 DEF IsBetList
<1>5. ASSUME NEW i \in DOMAIN K, NEW j \in DOMAIN K, K[i].ref = K[j].ref
      PROVE  i = j
  <2>1. K[i] = K[j]
    BY <1>3, <1>5 DEF IsBetList
  <2>2. QED
    BY <1>2, <2>1 DEF Apart
<1>6. QED
  BY <1>2, <1>4, <1>5 DEF IsBetList, K

\* A bet placed has the next number, which no bet has.
LEMMA PlaceBetIs ==
  ASSUME NEW book \in Books, book.betSeq < MaxBets, NEW p \in Player, NEW n \in Amount, NEW data \in BetData
  PROVE  LET placed == PlaceBet(book, p, n, data)
             ref == BetRef[book.betSeq]
         IN /\ placed.state \in Books /\ placed.state.betSeq = book.betSeq + 1
            /\ Bets(placed.state) = Bets(book) \cup {Bet(p, ref, n, data)}
            /\ placed.effects = <<Hold(p, n, ref)>> /\ Hold(p, n, ref) \in Effects
            /\ ref \in Ref /\ ref \notin RefsTo(book.betSeq) /\ ref \in RefsTo(book.betSeq + 1)
            /\ RefsTo(book.betSeq) \subseteq RefsTo(book.betSeq + 1)
<1> DEFINE k == book.betSeq
           ref == BetRef[k]
           bet == Bet(p, ref, n, data)
           bets == Append(book.bets, bet)
           new == [book EXCEPT !.bets = bets, !.betSeq = k + 1]
<1>1. /\ IsBetList(book.bets, k) /\ k \in 0 .. MaxBets - 1 /\ k + 1 \in 0 .. MaxBets
      /\ book \in [bets : Seq(Bettings), betSeq : 0 .. MaxBets, round : Nat]
  BY BookIs, FaultAssumption
<1>2. ref \in Ref /\ \A m \in 0 .. MaxBets - 1 : m # k => BetRef[m] # ref
  BY <1>1, RefAssumption DEF Minted
<1> HIDE DEF k, ref
<1>3. ref \notin RefsTo(k)
  <2>1. \A m \in 0 .. k - 1 : m \in 0 .. MaxBets - 1 /\ m # k
    BY <1>1, FaultAssumption
  <2>2. QED
    BY <1>2, <2>1 DEF RefsTo
<1>4. ref \in RefsTo(k + 1) /\ RefsTo(k) \subseteq RefsTo(k + 1)
  <2>1. k \in 0 .. (k + 1) - 1 /\ 0 .. k - 1 \subseteq 0 .. (k + 1) - 1
    BY <1>1, FaultAssumption
  <2>2. QED
    BY <2>1 DEF RefsTo, ref
<1>5. bet \in Bettings /\ bet.ref = ref
  BY <1>2 DEF Bet, Bettings
<1>6. /\ bets \in Seq(Bettings) /\ ToSet(bets) = ToSet(book.bets) \cup {bet}
  BY <1>1, <1>5, AppendIs
<1>7. IsBetList(bets, k + 1)
  <2>1. book.bets \in Seq(Bettings)
    BY <1>1
  <2> DEFINE N == Len(book.bets)
  <2>2. /\ N \in Nat /\ DOMAIN book.bets = 1 .. N /\ DOMAIN bets = 1 .. N + 1
        /\ bets[N + 1] = bet /\ \A i \in 1 .. N : bets[i] = book.bets[i]
    BY <1>5, <2>1
  <2> HIDE DEF N, bets, bet
  <2>3. 1 .. N + 1 = (1 .. N) \cup {N + 1}
    BY <2>2
  <2>4. \A i \in 1 .. N : bets[i].ref \in RefsTo(k)
    BY <1>1, <2>2 DEF IsBetList
  <2>5. \A i \in DOMAIN bets : bets[i].ref \in RefsTo(k + 1)
    BY <1>4, <1>5, <2>2, <2>3, <2>4
  <2>6. \A i, j \in DOMAIN bets : bets[i].ref = bets[j].ref => i = j
    <3>1. \A i \in 1 .. N : bets[i].ref # ref
      BY <1>3, <2>4
    <3>2. \A i, j \in 1 .. N : bets[i].ref = bets[j].ref => i = j
      BY <1>1, <2>2 DEF IsBetList
    <3>3. QED
      BY <1>5, <2>2, <2>3, <3>1, <3>2
  <2>7. QED
    BY <1>6, <2>5, <2>6 DEF IsBetList
<1> HIDE DEF bets, bet
<1>8. new \in [bets : Seq(Bettings), betSeq : 0 .. MaxBets, round : Nat] /\ new.bets = bets /\ new.betSeq = k + 1
  BY <1>1, <1>6
<1> HIDE DEF new
<1>9. new \in Books
  BY <1>7, <1>8 DEF Books, IsBetList
<1>10. PlaceBet(book, p, n, data).state = new /\ PlaceBet(book, p, n, data).effects = <<Hold(p, n, ref)>>
  BY <1>1 DEF PlaceBet, new, bets, bet, ref, k
<1>11. Hold(p, n, ref) \in Effects
  BY <1>2 DEF Hold, Effects
<1>12. Bets(new) = Bets(book) \cup {bet}
  BY <1>6, <1>8 DEF Bets
<1>13. QED
  BY <1>2, <1>3, <1>4, <1>8, <1>9, <1>10, <1>11, <1>12 DEF ref, k, bet

\* Who leaves has their own bets released, and nobody else's.
Own(book, p) == {b \in Bets(book) : b.user = p}

LEMMA OnLeaveIs ==
  ASSUME NEW book \in Books, NEW p
  PROVE  /\ OnLeave(book, p).state \in Books /\ OnLeave(book, p).state.betSeq = book.betSeq
         /\ Bets(OnLeave(book, p).state) = Bets(book) \ Own(book, p)
         /\ OnLeave(book, p).effects \in Seq(Effects)
         /\ \A i \in DOMAIN OnLeave(book, p).effects : OnLeave(book, p).effects[i].do = "release"
         /\ {OnLeave(book, p).effects[i].ref : i \in DOMAIN OnLeave(book, p).effects} = {b.ref : b \in Own(book, p)}
         /\ \A i, j \in DOMAIN OnLeave(book, p).effects :
              OnLeave(book, p).effects[i].ref = OnLeave(book, p).effects[j].ref => i = j
<1> DEFINE own == Own(book, p)
           mine == Keeping(book.bets, own)
           rest == Keeping(book.bets, Bets(book) \ own)
           new == [book EXCEPT !.bets = rest]
           effects == [i \in DOMAIN mine |-> Release(mine[i].ref)]
<1>1. /\ IsBetList(book.bets, book.betSeq)
      /\ book \in [bets : Seq(Bettings), betSeq : 0 .. MaxBets, round : Nat]
  BY BookIs
<1>2. /\ IsBetList(mine, book.betSeq) /\ ToSet(mine) = Bets(book) \cap own
      /\ IsBetList(rest, book.betSeq) /\ ToSet(rest) = Bets(book) \cap (Bets(book) \ own)
  BY <1>1, KeptBets DEF Bets
<1>3. Bets(book) \cap own = own /\ Bets(book) \cap (Bets(book) \ own) = Bets(book) \ own
  BY DEF Own
<1>4. OnLeave(book, p).state = new /\ OnLeave(book, p).effects = effects
  BY DEF OnLeave, Own
<1> HIDE DEF mine, rest, own
<1>5. /\ new \in [bets : Seq(Bettings), betSeq : 0 .. MaxBets, round : Nat]
      /\ new.bets = rest /\ new.betSeq = book.betSeq
  BY <1>1, <1>2 DEF IsBetList
<1>6. new \in Books
  BY <1>2, <1>5 DEF Books, IsBetList
<1>7. Bets(new) = Bets(book) \ own
  BY <1>2, <1>3, <1>5 DEF Bets
<1>8. mine \in Seq(Bettings) /\ DOMAIN mine = 1 .. Len(mine) /\ Len(mine) \in Nat
  BY <1>2 DEF IsBetList
<1>9. \A i \in DOMAIN mine : mine[i].ref \in Ref
  <2>1. \A i \in DOMAIN mine : mine[i] \in Bettings
    BY <1>8
  <2>2. QED
    BY <2>1 DEF Bettings
<1>10. /\ DOMAIN effects = DOMAIN mine
       /\ \A i \in DOMAIN effects : effects[i] \in Effects /\ effects[i].do = "release" /\ effects[i].ref = mine[i].ref
  <2>1. DOMAIN effects = DOMAIN mine
    OBVIOUS
  <2>2. ASSUME NEW i \in DOMAIN mine
        PROVE  effects[i] \in Effects /\ effects[i].do = "release" /\ effects[i].ref = mine[i].ref
    <3>1. effects[i] = [do |-> "release", ref |-> mine[i].ref]
      BY DEF Release
    <3>2. QED
      BY <1>9, <3>1 DEF Effects
  <2> HIDE DEF effects
  <2>3. QED
    BY <2>1, <2>2
<1>11. effects \in Seq(Effects)
  <2>1. effects \in [1 .. Len(mine) -> Effects]
    <3>1. effects = [i \in 1 .. Len(mine) |-> effects[i]]
      BY <1>8
    <3> HIDE DEF effects
    <3>2. QED
      BY <1>8, <1>10, <3>1
  <2> HIDE DEF effects
  <2>2. QED
    BY <1>8, <2>1
<1> HIDE DEF effects
<1>12. {effects[i].ref : i \in DOMAIN effects} = {b.ref : b \in own}
  <2>1. ToSet(mine) = own
    BY <1>2, <1>3
  <2>2. QED
    BY <1>10, <2>1 DEF ToSet
<1>13. \A i, j \in DOMAIN effects : effects[i].ref = effects[j].ref => i = j
  BY <1>2, <1>10 DEF IsBetList
<1> HIDE DEF new
<1>14. QED
  <2> DEFINE seat == OnLeave(book, p)
  <2>1. seat.state = new /\ seat.effects = effects
    BY <1>4
  <2> HIDE DEF seat
  <2>2. seat.state \in Books /\ seat.state.betSeq = book.betSeq /\ Bets(seat.state) = Bets(book) \ Own(book, p)
    BY <1>5, <1>6, <1>7, <2>1 DEF own
  <2>3. /\ seat.effects \in Seq(Effects) /\ \A i \in DOMAIN seat.effects : seat.effects[i].do = "release"
        /\ {seat.effects[i].ref : i \in DOMAIN seat.effects} = {b.ref : b \in Own(book, p)}
        /\ \A i, j \in DOMAIN seat.effects : seat.effects[i].ref = seat.effects[j].ref => i = j
    BY <1>10, <1>11, <1>12, <1>13, <2>1 DEF own
  <2>4. QED
    BY <2>2, <2>3 DEF seat

\* Of two lists put together, the places of the first come first.
Joined(f, g, h) ==
  /\ Len(f) \in Nat /\ Len(g) \in Nat /\ Len(h) = Len(f) + Len(g)
  /\ DOMAIN f = 1 .. Len(f) /\ DOMAIN g = 1 .. Len(g) /\ DOMAIN h = 1 .. Len(h)
  /\ \A i \in DOMAIN f : i \in DOMAIN h /\ h[i] = f[i] /\ i <= Len(f)
  /\ \A i \in DOMAIN g : i + Len(f) \in DOMAIN h /\ h[i + Len(f)] = g[i]
  /\ \A i \in DOMAIN h : \/ i \in DOMAIN f /\ i <= Len(f) /\ h[i] = f[i]
                         \/ i - Len(f) \in DOMAIN g /\ i > Len(f) /\ h[i] = g[i - Len(f)]

LEMMA JoinedIs ==
  ASSUME NEW S, NEW f \in Seq(S), NEW g \in Seq(S)
  PROVE  Joined(f, g, f \o g) /\ f \o g \in Seq(S)
<1> DEFINE h == f \o g
           m == Len(f)
           n == Len(g)
<1>1. /\ m \in Nat /\ n \in Nat /\ DOMAIN f = 1 .. m /\ DOMAIN g = 1 .. n
      /\ h \in Seq(S) /\ Len(h) = m + n /\ DOMAIN h = 1 .. m + n
      /\ \A i \in 1 .. m + n : h[i] = IF i <= m THEN f[i] ELSE g[i - m]
  OBVIOUS
<1> HIDE DEF h, m, n
<1>2. \A i \in 1 .. m : i \in 1 .. m + n /\ i <= m
  BY <1>1
<1>3. \A i \in 1 .. n : i + m \in 1 .. m + n /\ ~(i + m <= m) /\ (i + m) - m = i
  BY <1>1
<1>4. \A i \in 1 .. m + n : (i <= m /\ i \in 1 .. m) \/ (i > m /\ ~(i <= m) /\ i - m \in 1 .. n)
  BY <1>1
<1>5. \A i \in DOMAIN g : i + m \in DOMAIN h /\ h[i + m] = g[i]
  <2>1. ASSUME NEW i \in DOMAIN g
        PROVE  i + m \in DOMAIN h /\ h[i + m] = g[i]
    <3>1. h[i + m] = g[(i + m) - m]
      BY <1>1, <1>3
    <3>2. QED
      BY <1>1, <1>3, <3>1
  <2>2. QED
    BY <2>1
<1>6. \A i \in DOMAIN f : i \in DOMAIN h /\ h[i] = f[i] /\ i <= m
  BY <1>1, <1>2
<1>7. \A i \in DOMAIN h : \/ i \in DOMAIN f /\ i <= m /\ h[i] = f[i]
                          \/ i - m \in DOMAIN g /\ i > m /\ h[i] = g[i - m]
  BY <1>1, <1>4
<1>8. QED
  BY <1>1, <1>5, <1>6, <1>7 DEF Joined, h, m, n

\* All the refs a list of writes releases or captures.
Undoes(h) == h.do \in {"release", "capture"}

Struck(todo) == {todo[j].ref : j \in {k \in DOMAIN todo : Undoes(todo[k])}}

LEMMA UndoneJoined ==
  ASSUME NEW f, NEW g, NEW h, Joined(f, g, h)
  PROVE  /\ \A i \in DOMAIN f : Undone(h, i) = Undone(f, i)
         /\ \A i \in DOMAIN g : Undone(h, i + Len(f)) = Struck(f) \cup Undone(g, i)
         /\ Struck(h) = Struck(f) \cup Struck(g)
<1> DEFINE m == Len(f)
<1>1. /\ m \in Nat /\ Len(g) \in Nat /\ DOMAIN f = 1 .. m /\ DOMAIN g = 1 .. Len(g)
      /\ DOMAIN h = 1 .. m + Len(g)
  BY DEF Joined
<1>2. /\ \A i \in DOMAIN f : i \in DOMAIN h /\ h[i] = f[i] /\ i <= m
      /\ \A i \in DOMAIN g : i + m \in DOMAIN h /\ h[i + m] = g[i]
      /\ \A i \in DOMAIN h : \/ i \in DOMAIN f /\ i <= m /\ h[i] = f[i]
                             \/ i - m \in DOMAIN g /\ i > m /\ h[i] = g[i - m]
  BY DEF Joined
<1> HIDE DEF m
<1>3. ASSUME NEW i \in DOMAIN f
      PROVE  Undone(h, i) = Undone(f, i)
  <2>1. {k \in DOMAIN h : k < i /\ h[k].do \in {"release", "capture"}}
          = {k \in DOMAIN f : k < i /\ f[k].do \in {"release", "capture"}}
    <3>1. ASSUME NEW k \in DOMAIN h, k < i
          PROVE  k \in DOMAIN f
      BY <1>1, <3>1
    <3>2. QED
      BY <1>2, <3>1
  <2>2. QED
    BY <1>2, <2>1 DEF Undone
<1>4. ASSUME NEW i \in DOMAIN g
      PROVE  Undone(h, i + m) = Struck(f) \cup Undone(g, i)
  <2>1. ASSUME NEW r \in Undone(h, i + m)
        PROVE  r \in Struck(f) \cup Undone(g, i)
    <3>1. PICK k \in DOMAIN h : k < i + m /\ h[k].do \in {"release", "capture"} /\ h[k].ref = r
      BY DEF Undone
    <3>2. CASE k \in DOMAIN f /\ h[k] = f[k]
      BY <3>1, <3>2 DEF Struck, Undoes
    <3>3. CASE k - m \in DOMAIN g /\ h[k] = g[k - m]
      <4>1. k - m < i
        BY <1>1, <3>1, <3>3
      <4>2. QED
        BY <3>1, <3>3, <4>1 DEF Undone
    <3>4. QED
      BY <1>2, <3>2, <3>3
  <2>2. ASSUME NEW r \in Struck(f)
        PROVE  r \in Undone(h, i + m)
    <3>1. PICK k \in DOMAIN f : Undoes(f[k]) /\ f[k].ref = r
      BY DEF Struck
    <3>2. k \in DOMAIN h /\ h[k] = f[k] /\ k < i + m
      BY <1>1, <1>2
    <3>3. QED
      BY <3>1, <3>2 DEF Undone, Undoes
  <2>3. ASSUME NEW r \in Undone(g, i)
        PROVE  r \in Undone(h, i + m)
    <3>1. PICK k \in DOMAIN g : k < i /\ g[k].do \in {"release", "capture"} /\ g[k].ref = r
      BY DEF Undone
    <3>2. k + m \in DOMAIN h /\ h[k + m] = g[k] /\ k + m < i + m
      BY <1>1, <1>2, <3>1
    <3>3. QED
      BY <3>1, <3>2 DEF Undone
  <2>4. QED
    BY <2>1, <2>2, <2>3
<1>5. Struck(h) = Struck(f) \cup Struck(g)
  <2>1. Struck(h) \subseteq Struck(f) \cup Struck(g)
    BY <1>2 DEF Struck
  <2>2. Struck(f) \subseteq Struck(h)
    BY <1>2 DEF Struck
  <2>3. Struck(g) \subseteq Struck(h)
    BY <1>2 DEF Struck
  <2>4. QED
    BY <2>1, <2>2, <2>3
<1>6. QED
  BY <1>3, <1>4, <1>5 DEF m

-----------------------------------------------------------------------------
(* Lists of writes that decide bets *)

Deciding == {"model", "credit", "release", "capture"}

\* The win of a bet is credited after its stake is released.
Wins(h, b) == h.ref = WinRef[b.ref] /\ h.user = b.user /\ h.amount = b.amount

\* A list of writes that decides every bet of B but those of C, each once, and writes on its way
\* only books that hold what is not decided yet and have numbered n bets.
Clears(n, B, todo, C) ==
  /\ C \subseteq B /\ DOMAIN todo = 1 .. Len(todo)
  /\ \A i \in DOMAIN todo : todo[i].do \in Deciding
  /\ \A i \in Doing(todo, "model") : /\ todo[i].state \in Books /\ todo[i].state.betSeq = n
                                     /\ Bets(todo[i].state) = {b \in B : b.ref \notin Undone(todo, i)}
  /\ Struck(todo) = {b.ref : b \in B \ C}
  /\ \A i, j \in DOMAIN todo : Undoes(todo[i]) /\ Undoes(todo[j]) /\ todo[i].ref = todo[j].ref => i = j
  /\ \A i \in Doing(todo, "credit") :
       \E b \in B : Wins(todo[i], b) /\ \E j \in Doing(todo, "release") : j < i /\ todo[j].ref = b.ref

Numbered(B) == \A b, c \in B : b.ref = c.ref => b = c

LEMMA ClearsThen ==
  ASSUME NEW n, NEW B, NEW C, NEW D, NEW f, NEW g, NEW h, Numbered(B), Joined(f, g, h),
         Clears(n, B, f, C), Clears(n, C, g, D)
  PROVE  Clears(n, B, h, D)
<1> DEFINE m == Len(f)
<1>1. /\ m \in Nat /\ DOMAIN f = 1 .. m /\ DOMAIN g = 1 .. Len(g) /\ DOMAIN h = 1 .. Len(h)
      /\ \A i \in DOMAIN f : i \in DOMAIN h /\ h[i] = f[i] /\ i <= m
      /\ \A i \in DOMAIN g : i + m \in DOMAIN h /\ h[i + m] = g[i]
      /\ \A i \in DOMAIN h : \/ i \in DOMAIN f /\ i <= m /\ h[i] = f[i]
                             \/ i - m \in DOMAIN g /\ i > m /\ h[i] = g[i - m]
  BY DEF Joined
<1>2. \A i \in DOMAIN h : i \in Nat
  BY <1>1
<1>3. C \subseteq B /\ D \subseteq C
  BY DEF Clears
<1> HIDE DEF m
<1>4. \A b \in B : b.ref \notin Struck(f) <=> b \in C
  <2>1. Struck(f) = {b.ref : b \in B \ C}
    BY DEF Clears
  <2>2. QED
    BY <1>3, <2>1 DEF Numbered
<1>5. /\ \A i \in DOMAIN f : Undone(h, i) = Undone(f, i)
      /\ \A i \in DOMAIN g : Undone(h, i + m) = Struck(f) \cup Undone(g, i)
      /\ Struck(h) = Struck(f) \cup Struck(g)
  BY UndoneJoined DEF m
<1>6. \A i \in DOMAIN h : h[i].do \in Deciding
  BY <1>1 DEF Clears
<1>7. ASSUME NEW i \in Doing(h, "model")
      PROVE  /\ h[i].state \in Books /\ h[i].state.betSeq = n
             /\ Bets(h[i].state) = {b \in B : b.ref \notin Undone(h, i)}
  <2>1. i \in DOMAIN h /\ h[i].do = "model"
    BY DEF Doing
  <2>2. CASE i \in DOMAIN f /\ h[i] = f[i]
    BY <1>5, <2>1, <2>2 DEF Clears, Doing
  <2>3. CASE i - m \in DOMAIN g /\ h[i] = g[i - m]
    <3>1. i - m \in Doing(g, "model") /\ (i - m) + m = i
      BY <1>1, <1>2, <2>1, <2>3 DEF Doing
    <3>2. /\ h[i].state \in Books /\ h[i].state.betSeq = n
          /\ Bets(h[i].state) = {b \in C : b.ref \notin Undone(g, i - m)}
      BY <2>3, <3>1 DEF Clears
    <3>3. Undone(h, i) = Struck(f) \cup Undone(g, i - m)
      BY <1>5, <2>3, <3>1
    <3>4. {b \in C : b.ref \notin Undone(g, i - m)} = {b \in B : b.ref \notin Undone(h, i)}
      BY <1>3, <1>4, <3>3
    <3>5. QED
      BY <3>2, <3>4
  <2>4. QED
    BY <1>1, <2>1, <2>2, <2>3
<1>8. Struck(h) = {b.ref : b \in B \ D}
  <2>1. Struck(f) = {b.ref : b \in B \ C} /\ Struck(g) = {b.ref : b \in C \ D}
    BY DEF Clears
  <2>2. QED
    BY <1>3, <1>5, <2>1
<1>9. \A r \in Struck(g) : r \notin Struck(f)
  <2>1. Struck(g) = {b.ref : b \in C \ D}
    BY DEF Clears
  <2>2. QED
    BY <1>3, <1>4, <2>1
<1>10. ASSUME NEW i \in DOMAIN h, NEW j \in DOMAIN h, Undoes(h[i]), Undoes(h[j]), h[i].ref = h[j].ref
       PROVE  i = j
  <2>1. \A k \in DOMAIN h : Undoes(h[k]) => \/ k \in DOMAIN f /\ h[k] = f[k] /\ h[k].ref \in Struck(f)
                                            \/ k - m \in DOMAIN g /\ h[k] = g[k - m] /\ h[k].ref \in Struck(g)
    BY <1>1 DEF Struck
  <2>2. CASE i \in DOMAIN f /\ h[i] = f[i] /\ j \in DOMAIN f /\ h[j] = f[j]
    BY <1>10, <2>2 DEF Clears
  <2>3. CASE i - m \in DOMAIN g /\ h[i] = g[i - m] /\ j - m \in DOMAIN g /\ h[j] = g[j - m]
    <3>1. i - m = j - m
      BY <1>10, <2>3 DEF Clears
    <3>2. QED
      BY <1>1, <1>2, <3>1
  <2>4. QED
    BY <1>9, <1>10, <2>1, <2>2, <2>3
<1>11. ASSUME NEW i \in Doing(h, "credit")
       PROVE  \E b \in B : Wins(h[i], b) /\ \E j \in Doing(h, "release") : j < i /\ h[j].ref = b.ref
  <2>1. i \in DOMAIN h /\ h[i].do = "credit"
    BY DEF Doing
  <2>2. CASE i \in DOMAIN f /\ h[i] = f[i]
    <3>1. PICK b \in B : Wins(f[i], b) /\ \E j \in Doing(f, "release") : j < i /\ f[j].ref = b.ref
      BY <2>1, <2>2 DEF Clears, Doing
    <3>2. PICK j \in Doing(f, "release") : j < i /\ f[j].ref = b.ref
      BY <3>1
    <3>3. j \in Doing(h, "release") /\ h[j] = f[j]
      BY <1>1 DEF Doing
    <3>4. QED
      BY <2>2, <3>1, <3>2, <3>3
  <2>3. CASE i - m \in DOMAIN g /\ h[i] = g[i - m]
    <3>1. i - m \in Doing(g, "credit") /\ i - m \in Nat /\ i \in Nat
      BY <1>1, <1>2, <2>1, <2>3 DEF Doing
    <3>2. PICK b \in C : Wins(g[i - m], b) /\ \E j \in Doing(g, "release") : j < i - m /\ g[j].ref = b.ref
      BY <3>1 DEF Clears
    <3>3. PICK j \in Doing(g, "release") : j < i - m /\ g[j].ref = b.ref
      BY <3>2
    <3>4. j + m \in Doing(h, "release") /\ h[j + m] = g[j] /\ j \in Nat
      BY <1>1 DEF Doing
    <3>5. j + m < i
      BY <1>1, <3>1, <3>3, <3>4
    <3>6. QED
      BY <1>3, <2>3, <3>2, <3>3, <3>4, <3>5
  <2>4. QED
    BY <1>1, <2>1, <2>2, <2>3
<1>12. D \subseteq B
  BY <1>3
<1>13. QED
  BY <1>1, <1>6, <1>7, <1>8, <1>10, <1>11, <1>12 DEF Clears

\* Leaving decides one's own bets, and so does writing the book that is left.
LEMMA LeavingClears ==
  ASSUME NEW book \in Books, NEW p
  PROVE  LET seat == OnLeave(book, p)
         IN /\ Clears(book.betSeq, Bets(book), seat.effects, Bets(seat.state))
            /\ Clears(book.betSeq, Bets(seat.state), <<Model(seat.state)>>, Bets(seat.state))
<1> DEFINE fx == OnLeave(book, p).effects
           new == OnLeave(book, p).state
           own == Own(book, p)
           one == <<Model(new)>>
<1>1. /\ new \in Books /\ new.betSeq = book.betSeq /\ Bets(new) = Bets(book) \ own
      /\ fx \in Seq(Effects) /\ \A i \in DOMAIN fx : fx[i].do = "release"
      /\ {fx[i].ref : i \in DOMAIN fx} = {b.ref : b \in own}
      /\ \A i, j \in DOMAIN fx : fx[i].ref = fx[j].ref => i = j
  BY OnLeaveIs
<1>2. own \subseteq Bets(book)
  BY DEF Own
<1> HIDE DEF fx, new, own
<1>3. DOMAIN fx = 1 .. Len(fx)
  BY <1>1
<1>4. Clears(book.betSeq, Bets(book), fx, Bets(new))
  <2>1. Doing(fx, "model") = {} /\ Doing(fx, "credit") = {} /\ \A i \in DOMAIN fx : fx[i].do \in Deciding
    BY <1>1 DEF Doing, Deciding
  <2>2. Bets(book) \ Bets(new) = own
    BY <1>1, <1>2
  <2>3. Struck(fx) = {b.ref : b \in Bets(book) \ Bets(new)}
    <3>1. Struck(fx) = {fx[i].ref : i \in DOMAIN fx}
      BY <1>1 DEF Struck, Undoes
    <3>2. QED
      BY <1>1, <2>2, <3>1
  <2>4. Bets(new) \subseteq Bets(book)
    BY <1>1
  <2>5. QED
    BY <1>1, <1>3, <2>1, <2>3, <2>4 DEF Clears
<1>5. Clears(book.betSeq, Bets(new), one, Bets(new))
  <2>1. DOMAIN one = 1 .. Len(one) /\ DOMAIN one = {1} /\ one[1].do = "model" /\ one[1].state = new
    BY DEF Model
  <2> HIDE DEF one
  <2>2. Doing(one, "model") = {1} /\ Doing(one, "credit") = {} /\ \A i \in DOMAIN one : one[i].do \in Deciding
    BY <2>1 DEF Doing, Deciding
  <2>3. Struck(one) = {} /\ Undone(one, 1) = {}
    BY <2>1 DEF Struck, Undone, Undoes
  <2>4. QED
    BY <1>1, <2>1, <2>2, <2>3 DEF Clears
<1>6. QED
  BY <1>4, <1>5 DEF fx, new

\* Settling everyone out, seat after seat.
IsLeft(f, book, members) ==
  f = [i \in 0 .. Len(members) |->
         IF i = 0 THEN [state |-> book, effects |-> << >>]
         ELSE LET seat == OnLeave(f[i - 1].state, members[i])
              IN [state |-> seat.state,
                  effects |-> Append(f[i - 1].effects \o seat.effects, Model(seat.state))]]

LEMMA SettleOutUnfolds ==
  \A book, members : SettleOut(book, members) = (CHOOSE f : IsLeft(f, book, members))[Len(members)].effects
  BY DEF SettleOut, IsLeft

Lefts == [state : Books, effects : Seq(Writes \cup Effects)]

NextLeft(left, p) ==
  LET seat == OnLeave(left.state, p)
  IN [state |-> seat.state, effects |-> Append(left.effects \o seat.effects, Model(seat.state))]

LEMMA NextLeftIs ==
  ASSUME NEW left \in Lefts, NEW p, Mode = "table"
  PROVE  /\ NextLeft(left, p) \in Lefts
         /\ \A n, B : /\ n = left.state.betSeq /\ Numbered(B) /\ Clears(n, B, left.effects, Bets(left.state))
                      => /\ Clears(n, B, NextLeft(left, p).effects, Bets(NextLeft(left, p).state))
                         /\ NextLeft(left, p).state.betSeq = n
         /\ Bets(NextLeft(left, p).state) = Bets(left.state) \ Own(left.state, p)
         /\ LET fx == NextLeft(left, p).effects IN Len(fx) \in Nat \ {0} /\ fx[Len(fx)].do = "model"
<1> DEFINE S == Writes \cup Effects
           seat == OnLeave(left.state, p)
           f == left.effects \o seat.effects
           one == <<Model(seat.state)>>
           h == Append(f, Model(seat.state))
<1>1. left.state \in Books /\ left.effects \in Seq(S)
  BY DEF Lefts
<1>2. /\ seat.state \in Books /\ seat.state.betSeq = left.state.betSeq
      /\ Bets(seat.state) = Bets(left.state) \ Own(left.state, p) /\ seat.effects \in Seq(Effects)
  BY <1>1, OnLeaveIs
<1>3. seat.effects \in Seq(S)
  BY <1>2
<1>4. Model(seat.state) \in S /\ Model(seat.state).do = "model"
  BY <1>2 DEF Model, Writes, Boards
<1> HIDE DEF S, seat
<1>5. f \in Seq(S) /\ one \in Seq(S) /\ h = f \o one /\ h \in Seq(S) /\ Len(h) = Len(f) + 1 /\ Len(f) \in Nat
      /\ h[Len(f) + 1] = Model(seat.state)
  <2>1. f \in Seq(S)
    BY <1>1, <1>3
  <2> HIDE DEF f
  <2>2. QED
    BY <1>4, <2>1
<1>6. Joined(left.effects, seat.effects, f) /\ Joined(f, one, h)
  BY <1>1, <1>3, <1>5, JoinedIs
<1>7. NextLeft(left, p) = [state |-> seat.state, effects |-> h]
  BY DEF NextLeft, seat
<1>8. /\ Clears(left.state.betSeq, Bets(left.state), seat.effects, Bets(seat.state))
      /\ Clears(left.state.betSeq, Bets(seat.state), one, Bets(seat.state))
  BY <1>1, LeavingClears DEF seat
<1> HIDE DEF f, h, one
<1>9. ASSUME NEW n, NEW B, n = left.state.betSeq, Numbered(B), Clears(n, B, left.effects, Bets(left.state))
      PROVE  Clears(n, B, h, Bets(seat.state))
  <2>1. Clears(n, B, f, Bets(seat.state))
    BY <1>6, <1>8, <1>9, ClearsThen
  <2>2. QED
    BY <1>6, <1>8, <1>9, <2>1, ClearsThen
<1>10. NextLeft(left, p) \in Lefts
  BY <1>2, <1>5, <1>7 DEF Lefts, S
<1>11. NextLeft(left, p).state = seat.state /\ NextLeft(left, p).effects = h
  BY <1>7
<1>12. Len(h) \in Nat \ {0} /\ h[Len(h)].do = "model"
  BY <1>4, <1>5
<1>13. QED
  BY <1>2, <1>9, <1>10, <1>11, <1>12

LEMMA SettleOutSteps ==
  ASSUME NEW book \in Books, NEW S, NEW members \in Seq(S), Mode = "table"
  PROVE  \E F \in [0 .. Len(members) -> Lefts] :
           /\ F[0] = [state |-> book, effects |-> << >>] /\ SettleOut(book, members) = F[Len(members)].effects
           /\ \A k \in 1 .. Len(members) : F[k] = NextLeft(F[k - 1], members[k])
<1> DEFINE N == Len(members)
           base == [state |-> book, effects |-> << >>]
           more == [x \in Lefts \X (1 .. N) |-> NextLeft(x[1], members[x[2]])]
<1>1. N \in Nat
  OBVIOUS
<1>2. PICK h : Follows(h, more, Lefts, base, N)
  <2>1. IsStep(more, Lefts, N)
    <3> HIDE DEF N
    <3>1. \A x \in Lefts \X (1 .. N) : NextLeft(x[1], members[x[2]]) \in Lefts
      <4>1. \A left \in Lefts : \A p : NextLeft(left, p) \in Lefts
        BY NextLeftIs
      <4> HIDE DEF N
      <4>2. QED
        BY <4>1
    <3>2. more \in [Lefts \X (1 .. N) -> Lefts]
      BY <3>1
    <3> HIDE DEF more
    <3>3. QED
      BY <3>2 DEF IsStep
  <2>2. base \in Lefts
    BY DEF Lefts
  <2> HIDE DEF N, more, base
  <2>3. QED
    BY <1>1, <2>1, <2>2, RecursionExists
<1>3. h \in [0 .. N -> Lefts] /\ h[0] = base /\ \A n \in 1 .. N : h[n] = NextLeft(h[n - 1], members[n])
  <2>1. h \in [0 .. N -> Lefts] /\ h[0] = base /\ \A n \in 1 .. N : h[n] = more[<<h[n - 1], n>>]
    <3> HIDE DEF N, more, base
    <3>1. QED
      BY <1>2 DEF Follows
  <2>2. \A n \in 1 .. N : <<h[n - 1], n>> \in Lefts \X (1 .. N)
    <3>1. \A n \in 1 .. N : n - 1 \in 0 .. N
      BY <1>1
    <3> HIDE DEF N
    <3>2. QED
      BY <2>1, <3>1
  <2> HIDE DEF N
  <2>3. QED
    BY <2>1, <2>2
<1> HIDE DEF more
<1>4. IsLeft(h, book, members)
  <2> DEFINE value(i) == IF i = 0 THEN base ELSE NextLeft(h[i - 1], members[i])
  <2>1. \A i \in 0 .. N : h[i] = value(i)
    <3>1. \A i \in 0 .. N : i = 0 \/ i \in 1 .. N
      BY <1>1
    <3> HIDE DEF N
    <3>2. QED
      BY <1>3, <3>1
  <2>2. h = [i \in 0 .. N |-> h[i]]
    BY <1>3
  <2>3. h = [i \in 0 .. N |-> value(i)]
    <3> HIDE DEF value, N
    <3>1. QED
      BY <2>1, <2>2
  <2>4. QED
    BY <2>3 DEF IsLeft, NextLeft
<1> DEFINE f == CHOOSE g : IsLeft(g, book, members)
<1>5. IsLeft(f, book, members)
  BY <1>4
<1>6. SettleOut(book, members) = f[N].effects
  BY SettleOutUnfolds
<1> HIDE DEF f
<1>7. \A n \in 0 .. N : f[n] = h[n]
  <2>1. SameSteps(f, h, N)
    <3>1. \A i \in 0 .. N : f[i] = IF i = 0 THEN base ELSE NextLeft(f[i - 1], members[i])
      BY <1>5 DEF IsLeft, NextLeft
    <3>2. 0 \in 0 .. N /\ \A n \in 1 .. N : n \in 0 .. N /\ n # 0
      BY <1>1
    <3> HIDE DEF N, base
    <3>3. f[0] = base /\ \A n \in 1 .. N : f[n] = NextLeft(f[n - 1], members[n])
      BY <3>1, <3>2
    <3>4. QED
      BY <1>3, <3>3 DEF SameSteps
  <2> HIDE DEF N
  <2>2. QED
    BY <1>1, <2>1, AgreeUpTo
<1>8. SettleOut(book, members) = h[N].effects
  <2>1. N \in 0 .. N
    BY <1>1
  <2> HIDE DEF N
  <2>2. QED
    BY <1>6, <1>7, <2>1
<1> HIDE DEF N
<1>9. QED
  BY <1>3, <1>8 DEF N

\* Everyone of the list is settled out, and nobody else; the last write is the book.
LEMMA SettleOutIs ==
  ASSUME NEW book \in Books, NEW S, NEW members \in Seq(S), Mode = "table"
  PROVE  /\ SettleOut(book, members) \in Seq(Writes \cup Effects)
         /\ Clears(book.betSeq, Bets(book), SettleOut(book, members), {b \in Bets(book) : b.user \notin ToSet(members)})
         /\ LET fx == SettleOut(book, members)
            IN fx = << >> \/ (Len(fx) \in Nat \ {0} /\ fx[Len(fx)].do = "model")
<1> DEFINE N == Len(members)
           n == book.betSeq
           B == Bets(book)
           stay(k) == {b \in B : \A i \in 1 .. k : b.user # members[i]}
<1>1. N \in Nat /\ DOMAIN members = 1 .. N
  OBVIOUS
<1>2. PICK F \in [0 .. N -> Lefts] :
        /\ F[0] = [state |-> book, effects |-> << >>] /\ SettleOut(book, members) = F[N].effects
        /\ \A k \in 1 .. N : F[k] = NextLeft(F[k - 1], members[k])
  BY SettleOutSteps
<1>3. Numbered(B)
  BY BookIs DEF Numbered
<1> HIDE DEF N, B, n
<1> DEFINE P == {k \in 0 .. N : /\ F[k].state.betSeq = n /\ Bets(F[k].state) = stay(k)
                                /\ Clears(n, B, F[k].effects, Bets(F[k].state))
                                /\ k = 0 \/ (Len(F[k].effects) \in Nat \ {0} /\ F[k].effects[Len(F[k].effects)].do = "model")}
<1>4. 0 \in P
  <2>1. F[0].state = book /\ F[0].effects = << >>
    BY <1>2
  <2>2. stay(0) = B
    OBVIOUS
  <2>3. Clears(n, B, << >>, B)
    BY DEF Clears, Doing, Struck
  <2>4. 0 \in 0 .. N
    BY <1>1
  <2> HIDE DEF stay
  <2>5. QED
    BY <2>1, <2>2, <2>3, <2>4 DEF n, B
<1>5. ASSUME NEW k \in 1 .. N, k - 1 \in P
      PROVE  k \in P
  <2> DEFINE left == F[k - 1]
             q == members[k]
  <2>1. /\ left \in Lefts /\ F[k] = NextLeft(left, q) /\ left.state.betSeq = n /\ Bets(left.state) = stay(k - 1)
        /\ Clears(n, B, left.effects, Bets(left.state)) /\ k \in 0 .. N
    <3>1. k - 1 \in 0 .. N /\ k \in 0 .. N
      BY <1>1
    <3> HIDE DEF stay
    <3>2. QED
      BY <1>2, <1>5, <3>1
  <2> HIDE DEF left, q, stay
  <2>2. /\ Clears(n, B, F[k].effects, Bets(F[k].state)) /\ F[k].state.betSeq = n
        /\ Bets(F[k].state) = Bets(left.state) \ Own(left.state, q)
        /\ Len(F[k].effects) \in Nat \ {0} /\ F[k].effects[Len(F[k].effects)].do = "model"
    <3> DEFINE next == NextLeft(left, q)
    <3>1. /\ \A k1, B1 : k1 = left.state.betSeq /\ Numbered(B1) /\ Clears(k1, B1, left.effects, Bets(left.state))
                       => Clears(k1, B1, next.effects, Bets(next.state)) /\ next.state.betSeq = k1
          /\ Bets(next.state) = Bets(left.state) \ Own(left.state, q)
          /\ Len(next.effects) \in Nat \ {0} /\ next.effects[Len(next.effects)].do = "model"
      BY <2>1, NextLeftIs
    <3> HIDE DEF next
    <3>2. Clears(n, B, next.effects, Bets(next.state)) /\ next.state.betSeq = n
      BY <1>3, <2>1, <3>1
    <3>3. F[k] = next
      BY <2>1 DEF next
    <3>4. QED
      BY <3>1, <3>2, <3>3
  <2>3. stay(k - 1) \ {b \in stay(k - 1) : b.user = q} = stay(k)
    <3>1. 1 .. k = (1 .. k - 1) \cup {k}
      BY <1>1
    <3>2. QED
      BY <3>1 DEF stay, q
  <2>4. Bets(F[k].state) = stay(k)
    BY <2>1, <2>2, <2>3 DEF Own
  <2>5. QED
    BY <2>1, <2>2, <2>4
<1>6. P = 0 .. N
  <2>1. P \in SUBSET (0 .. N)
    OBVIOUS
  <2> HIDE DEF P
  <2>2. QED
    BY <1>1, <1>4, <1>5, <2>1, UpTo
<1>7. N \in P
  <2> HIDE DEF P
  <2>1. QED
    BY <1>1, <1>6
<1>8. stay(N) = {b \in Bets(book) : b.user \notin ToSet(members)}
  BY <1>1 DEF ToSet, B
<1>9. N = 0 => F[N].effects = << >>
  BY <1>2
<1>10. F[N] \in Lefts
  <2>1. N \in 0 .. N
    BY <1>1
  <2>2. QED
    BY <1>2, <2>1
<1> HIDE DEF stay
<1>11. /\ Clears(n, B, F[N].effects, stay(N))
       /\ N = 0 \/ (Len(F[N].effects) \in Nat \ {0} /\ F[N].effects[Len(F[N].effects)].do = "model")
  BY <1>7
<1> HIDE DEF P
<1>12. QED
  BY <1>2, <1>8, <1>9, <1>10, <1>11 DEF Lefts, n, B

\* A draw decides a bet at once, or carries it.
Carried(outcome, B) == {b \in B : outcome[b.data] = "carry"}

LEMMA SettlementIs ==
  ASSUME NEW n, NEW B, NEW bet \in B, bet \in Bettings, WinRef[bet.ref] \in Ref, NEW outcome \in [BetData -> Decision]
  PROVE  /\ Settlement(bet, outcome) \in Seq(Effects)
         /\ Clears(n, B, Settlement(bet, outcome), B \ ({bet} \ Carried(outcome, B)))
<1> DEFINE fx == Settlement(bet, outcome)
           C == B \ ({bet} \ Carried(outcome, B))
           d == outcome[bet.data]
           win == Credit(bet.user, bet.amount, WinRef[bet.ref])
<1>1. bet.user \in Player /\ bet.ref \in Ref /\ bet.amount \in Amount /\ d \in {"win", "lose", "push", "carry"}
  BY DEF Bettings, Decision
<1>2. /\ Release(bet.ref) \in Effects /\ Capture(bet.ref) \in Effects /\ win \in Effects
      /\ Release(bet.ref).do = "release" /\ Release(bet.ref).ref = bet.ref
      /\ Capture(bet.ref).do = "capture" /\ Capture(bet.ref).ref = bet.ref
      /\ win.do = "credit" /\ Wins(win, bet)
  BY <1>1 DEF Release, Capture, Credit, Effects, Wins
<1>3. C = IF d = "carry" THEN B ELSE B \ {bet}
  BY DEF Carried
<1>4. fx = CASE d = "lose" -> <<Capture(bet.ref)>>
             [] d = "push" -> <<Release(bet.ref)>>
             [] d = "win"  -> <<Release(bet.ref), win>>
             [] d = "carry" -> << >>
  BY DEF Settlement
<1> HIDE DEF fx, C, d, win
<1>5. CASE d = "carry"
  <2>1. fx = << >> /\ C = B
    BY <1>3, <1>4, <1>5
  <2>2. Clears(n, B, << >>, B)
    BY DEF Clears, Doing, Struck
  <2>3. << >> \in Seq(Effects)
    OBVIOUS
  <2>4. QED
    BY <2>1, <2>2, <2>3 DEF fx, C
<1>6. ASSUME NEW h \in Effects, Undoes(h), h.ref = bet.ref, fx = <<h>>, d # "carry"
      PROVE  fx \in Seq(Effects) /\ Clears(n, B, fx, C)
  <2>1. DOMAIN fx = {1} /\ DOMAIN fx = 1 .. Len(fx) /\ fx[1] = h /\ fx \in Seq(Effects)
    BY <1>6
  <2>2. Doing(fx, "model") = {} /\ Doing(fx, "credit") = {} /\ \A i \in DOMAIN fx : fx[i].do \in Deciding
    BY <1>6, <2>1 DEF Doing, Deciding, Undoes
  <2>3. Struck(fx) = {bet.ref}
    BY <1>6, <2>1 DEF Struck
  <2>4. Struck(fx) = {b.ref : b \in B \ C} /\ C \subseteq B
    BY <1>3, <1>6, <2>3
  <2>5. QED
    BY <2>1, <2>2, <2>4 DEF Clears
<1>7. CASE d = "win"
  <2>1. fx = <<Release(bet.ref), win>>
    BY <1>4, <1>7
  <2>2. /\ DOMAIN fx = {1, 2} /\ DOMAIN fx = 1 .. Len(fx) /\ fx[1] = Release(bet.ref) /\ fx[2] = win
        /\ fx \in Seq(Effects)
    BY <1>2, <2>1
  <2> HIDE DEF fx
  <2>3. /\ Doing(fx, "model") = {} /\ Doing(fx, "credit") = {2} /\ Doing(fx, "release") = {1}
        /\ \A i \in DOMAIN fx : fx[i].do \in Deciding
        /\ \A i \in DOMAIN fx : Undoes(fx[i]) => i = 1
    BY <1>2, <2>2 DEF Doing, Deciding, Undoes
  <2>4. Struck(fx) = {bet.ref}
    <3>1. {k \in DOMAIN fx : Undoes(fx[k])} = {1}
      BY <1>2, <2>2, <2>3 DEF Undoes
    <3>2. QED
      BY <1>2, <2>2, <3>1 DEF Struck
  <2>5. Struck(fx) = {b.ref : b \in B \ C} /\ C \subseteq B
    BY <1>3, <1>7, <2>4
  <2>6. 1 < 2
    OBVIOUS
  <2>7. Clears(n, B, fx, C)
    BY <1>2, <2>2, <2>3, <2>5, <2>6 DEF Clears
  <2>8. QED
    BY <2>2, <2>7 DEF fx, C
<1>8. CASE d = "lose"
  BY <1>2, <1>4, <1>6, <1>8 DEF Undoes, fx, C
<1>9. CASE d = "push"
  BY <1>2, <1>4, <1>6, <1>9 DEF Undoes, fx, C
<1>10. QED
  BY <1>1, <1>5, <1>7, <1>8, <1>9

\* A draw decides each bet that it does not carry.
LEMMA RunEventIs ==
  ASSUME NEW book \in Books, NEW outcome \in Outcome
  PROVE  /\ RunEvent(book, outcome).state \in Books /\ RunEvent(book, outcome).state.betSeq = book.betSeq
         /\ Bets(RunEvent(book, outcome).state) = Carried(outcome, Bets(book))
         /\ RunEvent(book, outcome).effects \in Seq(Effects)
         /\ Clears(book.betSeq, Bets(book), RunEvent(book, outcome).effects, Carried(outcome, Bets(book)))
<1> DEFINE bets == book.bets
           N == Len(bets)
           B == Bets(book)
           carried == Carried(outcome, B)
           rest == Keeping(bets, carried)
           new == [book EXCEPT !.bets = rest, !.round = @ + 1]
           settled == [i \in DOMAIN bets |-> Settlement(bets[i], outcome)]
           fx == FlattenSeq(settled)
           n == book.betSeq
<1>1. /\ IsBetList(bets, n) /\ n \in 0 .. MaxBets /\ book.round \in Nat
      /\ book \in [bets : Seq(Bettings), betSeq : 0 .. MaxBets, round : Nat]
      /\ (\A b \in B : b \in Bettings /\ b.ref \in RefsTo(n)) /\ Numbered(B) /\ Apart(bets)
  BY BookIs DEF Numbered
<1>2. bets \in Seq(Bettings) /\ N \in Nat /\ DOMAIN bets = 1 .. N /\ \A i \in 1 .. N : bets[i] \in B
  <2>1. bets \in Seq(Bettings)
    BY <1>1
  <2>2. N \in Nat /\ DOMAIN bets = 1 .. N
    BY <2>1
  <2>3. \A i \in DOMAIN bets : bets[i] \in B
    BY DEF Bets, ToSet
  <2>4. QED
    BY <2>1, <2>2, <2>3
<1>3. outcome \in [BetData -> Decision]
  BY OutcomeAssumption
<1>4. \A b \in B : WinRef[b.ref] \in Ref
  <2>1. \A k \in 0 .. n - 1 : k \in 0 .. MaxBets - 1
    BY <1>1, FaultAssumption
  <2>2. QED
    BY <1>1, <2>1, RefAssumption DEF RefsTo
<1>5. IsBetList(rest, n) /\ ToSet(rest) = ToSet(bets) \cap carried
  BY <1>1, KeptBets
<1>6. RunEvent(book, outcome).state = new /\ RunEvent(book, outcome).effects = fx
  BY DEF RunEvent, Carried
<1>7. /\ new \in [bets : Seq(Bettings), betSeq : 0 .. MaxBets, round : Nat]
      /\ new.bets = rest /\ new.betSeq = n
  <2> HIDE DEF rest
  <2>1. rest \in Seq(Bettings) /\ book.round + 1 \in Nat
    BY <1>1, <1>5 DEF IsBetList
  <2>2. QED
    BY <1>1, <2>1
<1> HIDE DEF new, rest
<1>8. new \in Books
  BY <1>5, <1>7 DEF Books, IsBetList
<1>9. Bets(new) = carried
  BY <1>5, <1>7 DEF Bets, Carried
<1>10. settled \in Seq(Seq(Effects)) /\ Len(settled) = N /\ \A i \in 1 .. N : settled[i] = Settlement(bets[i], outcome)
  <2>1. \A b \in B : Settlement(b, outcome) \in Seq(Effects)
    BY <1>1, <1>3, <1>4, SettlementIs
  <2>2. settled \in [1 .. N -> Seq(Effects)]
    <3> HIDE DEF N, B, bets
    <3>1. QED
      BY <1>2, <2>1
  <2>3. DOMAIN settled = 1 .. N /\ \A i \in 1 .. N : settled[i] = Settlement(bets[i], outcome)
    BY <1>2
  <2> DEFINE T == Seq(Effects)
  <2> HIDE DEF settled, N, T
  <2>4. settled \in Seq(T) /\ Len(settled) = N
    <3>1. settled \in [1 .. N -> T]
      BY <2>2 DEF T
    <3>2. QED
      BY <1>2, <2>3, <3>1
  <2>5. QED
    BY <2>3, <2>4 DEF T
<1> HIDE DEF settled
<1>11. PICK F \in [0 .. N -> Seq(Effects)] :
         /\ F[0] = << >> /\ fx = F[N] /\ \A k \in 1 .. N : F[k] = F[k - 1] \o settled[k]
  <2> HIDE DEF N, bets
  <2>1. \E F \in [0 .. Len(settled) -> Seq(Effects)] :
          /\ F[0] = << >> /\ FlattenSeq(settled) = F[Len(settled)]
          /\ \A k \in 1 .. Len(settled) : F[k] = F[k - 1] \o settled[k]
    <3>1. settled \in Seq(Seq(Effects))
      BY <1>10
    <3>2. QED
      BY <3>1, FlattenSteps
  <2>2. Len(settled) = N
    BY <1>10
  <2>3. QED
    BY <2>1, <2>2
<1> HIDE DEF fx, N, B, n, bets
<1> DEFINE done(k) == {bets[i] : i \in 1 .. k}
           left(k) == B \ (done(k) \ carried)
           P == {k \in 0 .. N : Clears(n, B, F[k], left(k))}
<1>12. 0 \in P
  <2>1. left(0) = B
    OBVIOUS
  <2>2. Clears(n, B, << >>, B)
    BY DEF Clears, Doing, Struck
  <2>3. 0 \in 0 .. N
    BY <1>2
  <2> HIDE DEF left
  <2>4. QED
    BY <1>11, <2>1, <2>2, <2>3
<1>13. ASSUME NEW k \in 1 .. N, k - 1 \in P
       PROVE  k \in P
  <2> DEFINE C == left(k - 1)
             b == bets[k]
             g == Settlement(b, outcome)
  <2>1. Clears(n, B, F[k - 1], C) /\ k - 1 \in 0 .. N /\ k \in 0 .. N
    <3>1. k \in 0 .. N
      BY <1>2
    <3> HIDE DEF left
    <3>2. QED
      BY <1>13, <3>1
  <2>2. b \in B /\ b \in C /\ b \in Bettings /\ WinRef[b.ref] \in Ref
    <3>1. \A i \in 1 .. k - 1 : i \in DOMAIN bets /\ i # k
      BY <1>2
    <3>2. \A i \in 1 .. k - 1 : bets[i] # bets[k]
      BY <1>1, <1>2, <3>1 DEF Apart
    <3>3. QED
      BY <1>1, <1>2, <1>4, <3>2
  <2>3. Carried(outcome, C) \cap {b} = carried \cap {b}
    BY <2>2 DEF Carried
  <2>4. Carried(outcome, C) \cap {b} = carried \cap {b} => C \ ({b} \ Carried(outcome, C)) = left(k)
    <3>1. 1 .. k = (1 .. k - 1) \cup {k}
      BY <1>2
    <3>2. done(k) = done(k - 1) \cup {b}
      BY <3>1
    <3> HIDE DEF done, b, carried
    <3>3. QED
      BY <3>2
  <2> HIDE DEF left, C, b, carried
  <2>5. g \in Seq(Effects) /\ Clears(n, C, g, C \ ({b} \ Carried(outcome, C)))
    BY <1>3, <2>2, SettlementIs
  <2>6. F[k - 1] \in Seq(Effects) /\ F[k] = F[k - 1] \o g
    BY <1>10, <1>11, <2>1 DEF b
  <2>7. Joined(F[k - 1], g, F[k])
    BY <2>5, <2>6, JoinedIs
  <2>8. Clears(n, B, F[k], left(k))
    <3>1. Clears(n, C, g, left(k))
      BY <2>3, <2>4, <2>5
    <3> HIDE DEF g
    <3>2. QED
      BY <1>1, <2>1, <2>7, <3>1, ClearsThen
  <2>9. QED
    BY <2>1, <2>8
<1>14. P = 0 .. N
  <2>1. P \in SUBSET (0 .. N)
    OBVIOUS
  <2> HIDE DEF P
  <2>2. QED
    BY <1>2, <1>12, <1>13, <2>1, UpTo
<1>15. N \in P
  <2> HIDE DEF P
  <2>1. QED
    BY <1>2, <1>14
<1>16. left(N) = carried
  <2>1. done(N) = B
    BY <1>2 DEF B, Bets, ToSet, bets
  <2>2. QED
    BY <2>1 DEF Carried
<1>17. fx \in Seq(Effects)
  <2>1. N \in 0 .. N
    BY <1>2
  <2>2. QED
    BY <1>11, <2>1
<1> HIDE DEF left, carried
<1>18. Clears(n, B, fx, carried)
  BY <1>11, <1>15, <1>16
<1> HIDE DEF P
<1>19. QED
  BY <1>6, <1>7, <1>8, <1>9, <1>17, <1>18 DEF n, B, carried

-----------------------------------------------------------------------------
(* A plan is a list of quiet writes, and then a tail that goes on or ends *)

QuietList(fx) ==
  /\ fx \in Seq(Writes \cup Effects) /\ (Mode # "table" => fx \in Seq(Writes))
  /\ \A i \in DOMAIN fx : fx[i].do \in Quiet

Goings(m) == {<<Meta(m)>>, <<List(m), Meta(m)>>}

LEMMA GoingPlan ==
  ASSUME NEW fx, QuietList(fx), NEW m \in Metas, NEW tail \in Goings(m)
  PROVE  /\ fx \o tail \in Plans /\ fx \o tail # << >> /\ GoesOn(fx \o tail, m) /\ Joined(fx, tail, fx \o tail)
         /\ \A i \in DOMAIN tail : tail[i].do \in {"meta", "list"} /\ tail[i].meta = m
<1> DEFINE todo == fx \o tail
           f == Len(fx)
           k == Len(tail)
           n == Len(todo)
<1>1. /\ tail \in Seq(Writes) /\ k \in {1, 2} /\ DOMAIN tail = 1 .. k /\ tail[k] = Meta(m)
      /\ k = 2 => tail[1] = List(m)
  <2>1. Meta(m) \in Writes /\ List(m) \in Writes
    BY DEF Meta, List, Writes
  <2>2. CASE tail = <<Meta(m)>>
    BY <2>1, <2>2
  <2>3. CASE tail = <<List(m), Meta(m)>>
    BY <2>1, <2>3
  <2>4. QED
    BY <2>2, <2>3 DEF Goings
<1>2. Meta(m).do = "meta" /\ Meta(m).meta = m /\ List(m).do = "list" /\ List(m).meta = m
  BY DEF Meta, List
<1>3. tail \in Seq(Writes \cup Effects)
  BY <1>1
<1>4. Joined(fx, tail, todo) /\ todo \in Seq(Writes \cup Effects)
  BY <1>3, JoinedIs DEF QuietList
<1>5. Mode # "table" => todo \in Seq(Writes)
  BY <1>1, JoinedIs DEF QuietList
<1>6. todo \in Plans
  BY <1>4, <1>5 DEF Plans
<1> HIDE DEF todo, k, n
<1>7. /\ f \in Nat /\ n = f + k /\ DOMAIN todo = 1 .. n /\ DOMAIN fx = 1 .. f
      /\ \A i \in DOMAIN fx : todo[i] = fx[i]
      /\ \A i \in DOMAIN tail : todo[i + f] = tail[i]
  BY <1>4 DEF Joined, n, k
<1> HIDE DEF f
<1>8. k \in DOMAIN tail /\ k + f = n /\ n \in Nat \ {0} /\ (k = 2 => 1 \in DOMAIN tail /\ 1 + f = n - 1)
  BY <1>1, <1>7
<1>9. todo[n] = Meta(m)
  BY <1>1, <1>7, <1>8
<1>10. \A i \in 1 .. n - 1 : todo[i].do \in Quiet \/ todo[i] = List(m)
  <2>1. ASSUME NEW i \in 1 .. n - 1
        PROVE  i \in 1 .. f \/ (k = 2 /\ i = 1 + f)
    BY <1>1, <1>7
  <2>2. \A i \in 1 .. f : todo[i].do \in Quiet
    BY <1>7 DEF QuietList
  <2>3. k = 2 => todo[1 + f] = List(m)
    BY <1>1, <1>7, <1>8
  <2>4. QED
    BY <2>1, <2>2, <2>3
<1>11. GoesOn(todo, m)
  BY <1>7, <1>8, <1>9, <1>10 DEF GoesOn, n
<1>12. todo # << >>
  <2>1. Len(<< >>) = 0
    OBVIOUS
  <2>2. QED
    BY <1>8, <2>1 DEF n
<1>13. \A i \in DOMAIN tail : tail[i].do \in {"meta", "list"} /\ tail[i].meta = m
  <2>1. \A i \in DOMAIN tail : i = k \/ (i = 1 /\ k = 2)
    BY <1>1
  <2>2. QED
    BY <1>1, <1>2, <2>1
<1>14. QED
  BY <1>4, <1>6, <1>11, <1>12, <1>13 DEF todo

\* A tail that ends: off the index with its k-th write, after the result if it records one.
IsEnd(tail, k, status, m, who) ==
  /\ tail \in Seq(Writes) /\ k \in {1, 2} /\ Len(tail) \in {k + 3, k + 4} /\ DOMAIN tail = 1 .. Len(tail)
  /\ k = 2 => tail[1] = [do |-> "result", status |-> status]
  /\ k = 1 => status = "abandoned"
  /\ tail[k] = [do |-> "unlist"] /\ tail[k + 1] = Meta(Ended(status, m))
  /\ tail[k + 2] = [do |-> "outcome", status |-> status] /\ tail[k + 3] = [do |-> "disarm"]
  /\ Len(tail) = k + 4 => \/ tail[k + 4] = [do |-> "publish"] /\ status = "resolved"
                          \/ tail[k + 4] = [do |-> "key"] /\ who \in OperatorKey

LEMMA EndedIs ==
  ASSUME NEW status \in Statuses, NEW m \in Metas
  PROVE  Ended(status, m) \in Metas /\ Ended(status, m).phase = status /\ Ended(status, m).members = m.members
         /\ Ended(status, m).deadline = FALSE /\ Ended(status, m).seed = m.seed
<1>1. status \in Phase
  BY DEF Statuses, Phase
<1>2. QED
  BY <1>1 DEF Ended, Metas

LEMMA FirstOfFive ==
  ASSUME NEW S, NEW r \in S, NEW a \in S, NEW b \in S, NEW c \in S, NEW d \in S
  PROVE  <<r>> \o <<a, b, c, d>> = <<r, a, b, c, d>> /\ <<a, b, c, d>> \o <<r>> = <<a, b, c, d, r>>
<1> DEFINE f == <<r>>
           g == <<a, b, c, d>>
           s == <<r, a, b, c, d>>
           t == <<a, b, c, d, r>>
<1>1. /\ f \in Seq(S) /\ Len(f) = 1 /\ DOMAIN f = {1} /\ f[1] = r
      /\ g \in Seq(S) /\ Len(g) = 4 /\ DOMAIN g = {1, 2, 3, 4} /\ g[1] = a /\ g[2] = b /\ g[3] = c /\ g[4] = d
  OBVIOUS
<1>2. /\ s \in Seq(S) /\ Len(s) = 5 /\ s[1] = r /\ s[2] = a /\ s[3] = b /\ s[4] = c /\ s[5] = d
      /\ t \in Seq(S) /\ Len(t) = 5 /\ t[1] = a /\ t[2] = b /\ t[3] = c /\ t[4] = d /\ t[5] = r
  OBVIOUS
<1>3. \A i \in 1 .. 5 : i \in {1, 2, 3, 4, 5}
  OBVIOUS
<1> HIDE DEF f, g, s, t
<1>4. Joined(f, g, f \o g) /\ f \o g \in Seq(S) /\ Joined(g, f, g \o f) /\ g \o f \in Seq(S)
  BY <1>1, JoinedIs
<1>5. f \o g = s
  <2> DEFINE h == f \o g
  <2> HIDE DEF h
  <2>1. Len(h) = 1 + 4 /\ h[1] = f[1] /\ h[1 + 1] = g[1] /\ h[2 + 1] = g[2] /\ h[3 + 1] = g[3] /\ h[4 + 1] = g[4]
    BY <1>1, <1>4 DEF Joined, h
  <2>2. Len(h) = 5 /\ h[1] = r /\ h[2] = a /\ h[3] = b /\ h[4] = c /\ h[5] = d
    BY <1>1, <2>1
  <2>3. \A i \in 1 .. Len(h) : h[i] = s[i]
    BY <1>2, <1>3, <2>2
  <2>4. h \in Seq(S) /\ s \in Seq(S) /\ Len(h) = Len(s)
    BY <1>2, <1>4, <2>2 DEF h
  <2>5. h = s
    BY <2>3, <2>4, SeqEqual
  <2>6. QED
    BY <2>5 DEF h
<1>6. g \o f = t
  <2> DEFINE h == g \o f
  <2> HIDE DEF h
  <2>1. Len(h) = 4 + 1 /\ h[1] = g[1] /\ h[2] = g[2] /\ h[3] = g[3] /\ h[4] = g[4] /\ h[1 + 4] = f[1]
    BY <1>1, <1>4 DEF Joined, h
  <2>2. Len(h) = 5 /\ h[1] = a /\ h[2] = b /\ h[3] = c /\ h[4] = d /\ h[5] = r
    BY <1>1, <2>1
  <2>3. \A i \in 1 .. Len(h) : h[i] = t[i]
    BY <1>2, <1>3, <2>2
  <2>4. h \in Seq(S) /\ t \in Seq(S) /\ Len(h) = Len(t)
    BY <1>2, <1>4, <2>2 DEF h
  <2>5. h = t
    BY <2>3, <2>4, SeqEqual
  <2>6. QED
    BY <2>5 DEF h
<1>7. QED
  BY <1>5, <1>6 DEF f, g, s, t

LEMMA EndTails ==
  ASSUME NEW status \in Statuses, NEW m \in Metas, NEW who
  PROVE  /\ IsEnd(CommitTerminal(status, m), 2, status, m, who)
         /\ status = "resolved" => IsEnd(Resolve(m), 2, status, m, who)
         /\ status = "abandoned" /\ who \in OperatorKey =>
              IsEnd(EndInFlight(status, m) \o <<[do |-> "key"]>>, 1, status, m, who)
<1> DEFINE a == [do |-> "unlist"]
           b == Meta(Ended(status, m))
           c == [do |-> "outcome", status |-> status]
           d == [do |-> "disarm"]
           r == [do |-> "result", status |-> status]
           p == [do |-> "publish"]
           q == [do |-> "key"]
<1>1. /\ a \in Writes /\ b \in Writes /\ c \in Writes /\ d \in Writes /\ r \in Writes /\ p \in Writes /\ q \in Writes
  <2>1. b \in Writes
    BY EndedIs DEF Meta, Writes
  <2>2. a \in Writes /\ c \in Writes /\ d \in Writes /\ r \in Writes /\ p \in Writes /\ q \in Writes
    BY DEF Writes
  <2>3. QED
    BY <2>1, <2>2
<1>2. EndInFlight(status, m) = <<a, b, c, d>>
  BY DEF EndInFlight, Ended
<1> HIDE DEF a, b, c, d, r, p, q
<1>3. CommitTerminal(status, m) = <<r, a, b, c, d>>
  <2>1. CommitTerminal(status, m) = <<r>> \o <<a, b, c, d>>
    BY <1>2 DEF CommitTerminal, r
  <2>2. QED
    BY <1>1, <2>1, FirstOfFive
<1>4. EndInFlight(status, m) \o <<q>> = <<a, b, c, d, q>>
  BY <1>1, <1>2, FirstOfFive
<1>5. status = "resolved" => Resolve(m) = <<r, a, b, c, d, p>>
  <2>1. status = "resolved" => Resolve(m) = Append(CommitTerminal(status, m), p)
    BY DEF Resolve, p
  <2>2. QED
    BY <1>1, <1>3, <2>1
<1>6. IsEnd(CommitTerminal(status, m), 2, status, m, who)
  <2>1. <<r, a, b, c, d>> \in Seq(Writes)
    BY <1>1
  <2>2. QED
    BY <1>3, <2>1 DEF IsEnd, a, b, c, d, r
<1>7. ASSUME status = "resolved"
      PROVE  IsEnd(Resolve(m), 2, status, m, who)
  <2> DEFINE tail == <<r, a, b, c, d, p>>
  <2>1. /\ tail \in Seq(Writes) /\ Len(tail) = 6 /\ DOMAIN tail = 1 .. 6
        /\ tail[1] = r /\ tail[2] = a /\ tail[3] = b /\ tail[4] = c /\ tail[5] = d /\ tail[6] = p
    BY <1>1
  <2> HIDE DEF tail
  <2>2. IsEnd(tail, 2, status, m, who)
    BY <1>7, <2>1 DEF IsEnd, a, b, c, d, r, p
  <2>3. QED
    BY <1>5, <1>7, <2>2 DEF tail
<1>8. ASSUME status = "abandoned", who \in OperatorKey
      PROVE  IsEnd(EndInFlight(status, m) \o <<q>>, 1, status, m, who)
  <2> DEFINE tail == <<a, b, c, d, q>>
  <2>1. /\ tail \in Seq(Writes) /\ Len(tail) = 5 /\ DOMAIN tail = 1 .. 5
        /\ tail[1] = a /\ tail[2] = b /\ tail[3] = c /\ tail[4] = d /\ tail[5] = q
    BY <1>1
  <2> HIDE DEF tail
  <2>2. IsEnd(tail, 1, status, m, who)
    BY <1>8, <2>1 DEF IsEnd, a, b, c, d, q
  <2>3. QED
    BY <1>4, <1>8, <2>2 DEF tail
<1>9. QED
  BY <1>6, <1>7, <1>8 DEF q

LEMMA EndTail ==
  ASSUME NEW tail, NEW k, NEW status, NEW m, NEW who, IsEnd(tail, k, status, m, who)
  PROVE  \A i \in DOMAIN tail : /\ tail[i].do \in {"unlist", "meta", "outcome", "disarm", "result", "publish", "key"}
                                /\ tail[i].do = "meta" => tail[i].meta = Ended(status, m)
<1>1. Meta(Ended(status, m)).do = "meta" /\ Meta(Ended(status, m)).meta = Ended(status, m)
  BY DEF Meta
<1>2. \A i \in DOMAIN tail : (i = 1 /\ k = 2) \/ i = k \/ i = k + 1 \/ i = k + 2 \/ i = k + 3 \/ (i = k + 4 /\ Len(tail) = k + 4)
  <2>1. k \in {1, 2} /\ Len(tail) \in {k + 3, k + 4} /\ DOMAIN tail = 1 .. Len(tail)
    BY DEF IsEnd
  <2>2. CASE k = 1
    BY <2>1, <2>2
  <2>3. CASE k = 2
    BY <2>1, <2>3
  <2>4. QED
    BY <2>1, <2>2, <2>3
<1>3. /\ k = 2 => tail[1].do = "result"
      /\ tail[k].do = "unlist" /\ tail[k + 1] = Meta(Ended(status, m)) /\ tail[k + 2].do = "outcome"
      /\ tail[k + 3].do = "disarm"
      /\ Len(tail) = k + 4 => tail[k + 4].do \in {"publish", "key"}
  <2>1. /\ k = 2 => tail[1] = [do |-> "result", status |-> status]
        /\ tail[k] = [do |-> "unlist"] /\ tail[k + 1] = Meta(Ended(status, m))
        /\ tail[k + 2] = [do |-> "outcome", status |-> status] /\ tail[k + 3] = [do |-> "disarm"]
        /\ Len(tail) = k + 4 => tail[k + 4] = [do |-> "publish"] \/ tail[k + 4] = [do |-> "key"]
    BY DEF IsEnd
  <2>2. Len(tail) = k + 4 => tail[k + 4].do \in {"publish", "key"}
    BY <2>1
  <2>3. k = 2 => tail[1].do = "result"
    BY <2>1
  <2>4. tail[k].do = "unlist" /\ tail[k + 2].do = "outcome" /\ tail[k + 3].do = "disarm"
    BY <2>1
  <2>5. QED
    BY <2>1, <2>2, <2>3, <2>4
<1>4. QED
  BY <1>1, <1>2, <1>3

LEMMA EndingPlan ==
  ASSUME NEW fx, QuietList(fx), NEW w, NEW tail, w.todo = fx \o tail, NEW status \in Statuses, NEW m \in Metas,
         NEW k, IsEnd(tail, k, status, m, w.who),
         Mode = "match" /\ k = 2 /\ status = "abandoned" => fx = << >> /\ ~IsComplete(model, meta.members)
  PROVE  /\ w.todo \in Plans /\ w.todo # << >> /\ \E u : EndsAt(w, u, status, m)
         /\ Joined(fx, tail, w.todo)
<1> DEFINE todo == w.todo
           f == Len(fx)
           n == Len(tail)
           u == f + k
<1>1. /\ tail \in Seq(Writes) /\ k \in {1, 2} /\ n \in {k + 3, k + 4} /\ DOMAIN tail = 1 .. n
      /\ k = 2 => tail[1] = [do |-> "result", status |-> status]
      /\ k = 1 => status = "abandoned"
      /\ tail[k] = [do |-> "unlist"] /\ tail[k + 1] = Meta(Ended(status, m))
      /\ tail[k + 2] = [do |-> "outcome", status |-> status] /\ tail[k + 3] = [do |-> "disarm"]
      /\ n = k + 4 => \/ tail[k + 4] = [do |-> "publish"] /\ status = "resolved"
                      \/ tail[k + 4] = [do |-> "key"] /\ w.who \in OperatorKey
  BY DEF IsEnd
<1>2. tail \in Seq(Writes \cup Effects)
  BY <1>1
<1>3. Joined(fx, tail, todo) /\ todo \in Seq(Writes \cup Effects)
  BY <1>2, JoinedIs DEF QuietList
<1>4. Mode # "table" => todo \in Seq(Writes)
  BY <1>1, JoinedIs DEF QuietList
<1>5. todo \in Plans
  BY <1>3, <1>4 DEF Plans
<1> HIDE DEF todo, n
<1>6. /\ f \in Nat /\ Len(todo) = f + n /\ DOMAIN todo = 1 .. Len(todo) /\ DOMAIN fx = 1 .. f
      /\ \A i \in DOMAIN fx : todo[i] = fx[i]
      /\ \A i \in DOMAIN tail : todo[i + f] = tail[i]
  BY <1>3 DEF Joined, n
<1> HIDE DEF f
<1>7. u \in Nat \ {0} /\ Len(todo) \in {u + 3, u + 4} /\ (Len(todo) = u + 4 => n = k + 4)
  BY <1>1, <1>6
<1>8. /\ k \in DOMAIN tail /\ k + f = u /\ k + 1 \in DOMAIN tail /\ (k + 1) + f = u + 1
      /\ k + 2 \in DOMAIN tail /\ (k + 2) + f = u + 2 /\ k + 3 \in DOMAIN tail /\ (k + 3) + f = u + 3
      /\ (n = k + 4 => k + 4 \in DOMAIN tail /\ (k + 4) + f = u + 4)
      /\ (k = 2 => 1 \in DOMAIN tail /\ 1 + f = u - 1 /\ u # 1)
      /\ (k = 1 => u - 1 = f)
  BY <1>1, <1>6
<1> HIDE DEF u
<1>9. /\ todo[u] = [do |-> "unlist"] /\ todo[u + 1] = Meta(Ended(status, m))
      /\ todo[u + 2] = [do |-> "outcome", status |-> status] /\ todo[u + 3] = [do |-> "disarm"]
  <2>1. todo[u] = tail[k] /\ todo[u + 1] = tail[k + 1] /\ todo[u + 2] = tail[k + 2] /\ todo[u + 3] = tail[k + 3]
    BY <1>6, <1>8
  <2>2. QED
    BY <1>1, <2>1
<1>10. Len(todo) = u + 4 => \/ todo[u + 4] = [do |-> "publish"] /\ status = "resolved"
                            \/ todo[u + 4] = [do |-> "key"] /\ w.who \in OperatorKey
  <2>1. n = k + 4 => todo[u + 4] = tail[k + 4]
    BY <1>6, <1>8
  <2>2. QED
    BY <1>1, <1>7, <2>1
<1>11. k = 2 => u # 1 /\ todo[u - 1] = [do |-> "result", status |-> status]
  BY <1>1, <1>6, <1>8
<1>12. \A i \in 1 .. f : todo[i].do \in Quiet
  BY <1>6 DEF QuietList
<1>13. \A i \in 1 .. u - 1 : todo[i].do \in Quiet \/ (i = u - 1 /\ todo[i] = [do |-> "result", status |-> status])
  <2>1. ASSUME NEW i \in 1 .. u - 1
        PROVE  i \in 1 .. f \/ (k = 2 /\ i = u - 1)
    <3>1. k = 1 => i \in 1 .. f
      BY <1>8
    <3>2. k = 2 => f = u - 2 /\ u \in Nat
      BY <1>6, <1>7, <1>8
    <3>3. k = 2 => i \in 1 .. f \/ i = u - 1
      BY <3>2
    <3>4. QED
      BY <1>1, <3>1, <3>3
  <2>2. QED
    BY <1>11, <1>12, <2>1
<1>14. status = "resolved" => u # 1 /\ todo[u - 1].do = "result"
  BY <1>1, <1>11
<1>15. ASSUME Mode = "match", u # 1, todo[u - 1].do = "result", status = "abandoned"
       PROVE  u = 2 /\ ~IsComplete(model, meta.members)
  <2>1. CASE k = 2
    <3>1. fx = << >> /\ ~IsComplete(model, meta.members)
      BY <1>15, <2>1
    <3>2. f = 0
      BY <3>1 DEF f
    <3>3. QED
      BY <1>6, <2>1, <3>1, <3>2 DEF u
  <2>2. CASE k = 1
    <3>1. u - 1 \in 1 .. f
      BY <1>6, <1>7, <1>8, <1>15, <2>2
    <3>2. "result" \notin Quiet
      BY DEF Quiet
    <3>3. QED
      BY <1>12, <1>15, <3>1, <3>2
  <2>3. QED
    BY <1>1, <2>1, <2>2
<1>16. EndsAt(w, u, status, m)
  BY <1>6, <1>7, <1>9, <1>10, <1>13, <1>14, <1>15 DEF EndsAt, todo
<1>17. todo # << >>
  <2>1. Len(<< >>) = 0
    OBVIOUS
  <2>2. Len(todo) # 0
    BY <1>7
  <2>3. QED
    BY <2>1, <2>2
<1>18. QED
  BY <1>3, <1>5, <1>16, <1>17 DEF todo

-----------------------------------------------------------------------------
(* A transition begins, or is refused *)

Dry(todo) == \A i \in Doing(todo, "meta") : todo[i].meta.deadline = FALSE

Begun(w) ==
  /\ w \in Tasks /\ w # NoTask /\ w.todo # << >> /\ Orderly(w)
  /\ Uninterrupted => Settling(w.todo) /\ Dry(w.todo)

Began(t) == \E w : Begun(w) /\ Start(t, w.op, w.who, w.todo)

Refused(t) == \E op, who, error : error # "hold_not_open" /\ Refuse(t, op, who, error)

\* What is stored is what it was.
SameStores == UNCHANGED <<storage, index, result, board, db, erased>>

LEMMA OrderlyStays ==
  ASSUME SameStores, NEW w, Orderly(w)
  PROVE  Orderly(w)'
<1>1. /\ storage' = storage /\ index' = index /\ result' = result /\ board' = board /\ db' = db
      /\ meta' = meta /\ model' = model /\ Seated' = Seated
  BY DEF SameStores, meta, model, Seated
<1>2. OnceEach(w.todo) /\ MetaFits(w) /\ ListFits(w.todo) /\ EndFits(w.todo) /\ KeyFits(w)
      /\ OutcomeFits(w.todo) /\ PublishFits(w.todo) /\ ResultFits(w.todo)
  BY DEF Orderly
<1>3. OnceEach(w.todo)' /\ KeyFits(w)'
  BY <1>2 DEF OnceEach, KeyFits, Doing
<1>4. MetaFits(w)'
  BY <1>1, <1>2 DEF MetaFits, Doing, Before, Leaver, Played
<1>5. ListFits(w.todo)'
  BY <1>1, <1>2 DEF ListFits, Doing, Ending
<1>6. EndFits(w.todo)'
  BY <1>1, <1>2 DEF EndFits, Doing, Ending, Before
<1>7. OutcomeFits(w.todo)'
  BY <1>1, <1>2 DEF OutcomeFits, Doing, Ending
<1>8. PublishFits(w.todo)'
  BY <1>1, <1>2 DEF PublishFits, Doing, Ending
<1>9. ResultFits(w.todo)'
  BY <1>1, <1>2 DEF ResultFits, Doing
<1>10. QED
  BY <1>3, <1>4, <1>5, <1>6, <1>7, <1>8, <1>9 DEF Orderly

LEMMA SettlingStays ==
  ASSUME SameStores, NEW todo, Settling(todo)
  PROVE  Settling(todo)'
<1>1. /\ db' = db /\ meta' = meta /\ model' = model /\ Seated' = Seated
      /\ OpenHolds' = OpenHolds /\ Reserved' = Reserved
  BY DEF SameStores, meta, model, Seated, OpenHolds, Reserved
<1>2. \A i : Due(todo, i)' = Due(todo, i)
  BY <1>1 DEF Due, Undone, Placed, Doing
<1>3. \A i : Due(todo, i) = Due(todo, i)'
  BY <1>2
<1>4. QED
  BY <1>1, <1>2 DEF Settling, Doing, Ending, Tickets, IsEffect

\* A primed plan is the plan of the task afterwards.
LEMMA OrderlyOf ==
  ASSUME NEW t, NEW w, w = run'[t], Orderly(w)'
  PROVE  Orderly(run[t])'
<1>1. OnceEach(w.todo)' /\ MetaFits(w)' /\ ListFits(w.todo)' /\ EndFits(w.todo)' /\ KeyFits(w)'
      /\ OutcomeFits(w.todo)' /\ PublishFits(w.todo)' /\ ResultFits(w.todo)'
  BY DEF Orderly
<1>2. OnceEach(run[t].todo)' /\ KeyFits(run[t])'
  BY <1>1 DEF OnceEach, KeyFits, Doing
<1>3. MetaFits(run[t])'
  BY <1>1 DEF MetaFits, Doing, Before, Leaver
<1>4. ListFits(run[t].todo)' /\ EndFits(run[t].todo)'
  BY <1>1 DEF ListFits, EndFits, Doing, Ending, Before
<1>5. OutcomeFits(run[t].todo)' /\ PublishFits(run[t].todo)' /\ ResultFits(run[t].todo)'
  BY <1>1 DEF OutcomeFits, PublishFits, ResultFits, Doing, Ending
<1>6. QED
  BY <1>2, <1>3, <1>4, <1>5 DEF Orderly

LEMMA SettlingOf ==
  ASSUME NEW t, NEW todo, todo = run'[t].todo, Settling(todo)'
  PROVE  Settling(run[t].todo)'
<1> DEFINE a == run[t].todo
<1>1. a' = todo
  OBVIOUS
<1> HIDE DEF a
<1>2. \A what : Doing(a, what)' = Doing(todo, what)
  BY <1>1 DEF Doing
<1>3. \A i : Due(a, i)' = Due(todo, i)'
  BY <1>1, <1>2 DEF Due, Undone, Placed, Doing
<1>4. Ending(a)' = Ending(todo)'
  BY <1>1 DEF Ending, Doing
<1>5. Settling(a)'
  BY <1>1, <1>2, <1>3, <1>4 DEF Settling, Doing
<1>6. QED
  BY <1>5 DEF a

\* If only tasks change, and those that do are in order, the invariant stays.
LEMMA TasksKeep ==
  ASSUME IInv, SameStores, alarm' \in BOOLEAN, faults' \in Nat, run' \in [Task -> Tasks],
         \A t \in Task : run'[t] = run[t] \/ run'[t] = NoTask \/ Begun(run'[t]),
         \A t, u \in Task : run'[t] # NoTask /\ run'[u] # NoTask => t = u,
         Uninterrupted => /\ reply'.answer # "hold_not_open"
                          /\ AtRest' => Settling(<< >>)
  PROVE  IInv'
<1>1. Shape /\ Serial /\ Order /\ (Uninterrupted => Table)
  BY DEF IInv, Inv
<1>2. /\ storage' = storage /\ index' = index /\ result' = result /\ board' = board /\ db' = db /\ erased' = erased
      /\ meta' = meta /\ model' = model /\ Seated' = Seated
  BY DEF SameStores, meta, model, Seated
<1>3. \A t \in Task : run'[t] # NoTask => run'[t].todo # << >>
  <2>1. \A t \in Task : run[t] # NoTask => run[t].todo # << >>
    BY <1>1 DEF Shape
  <2>2. QED
    BY <2>1 DEF Begun
<1>4. Shape'
  <2>1. Sound(db)'
    BY <1>1, <1>2 DEF Shape, Sound
  <2>2. QED
    BY <1>1, <1>2, <1>3, <2>1 DEF Shape, Played
<1>5. Serial'
  BY DEF Serial
<1>6. \A t \in Task : Orderly(run'[t])
  <2>1. \A t \in Task : Orderly(run[t])
    BY <1>1 DEF Order
  <2>2. QED
    BY <2>1, Idle DEF Begun
<1>7. \A t \in Task : Orderly(run[t])'
  <2>1. ASSUME NEW t \in Task
        PROVE  Orderly(run[t])'
    <3>1. PICK w : w = run'[t]
      OBVIOUS
    <3>2. Orderly(w)
      BY <1>6, <3>1
    <3>3. Orderly(w)'
      BY <3>2, OrderlyStays
    <3>4. QED
      BY <3>1, <3>3, OrderlyOf
  <2>2. QED
    BY <2>1
<1>8. Order'
  BY <1>1, <1>2, <1>7 DEF Order, EndedInOrder
<1>9. ASSUME Uninterrupted
      PROVE  Table'
  <2>1. Table
    BY <1>1, <1>9
  <2>2. \A t \in Task : (run'[t] # NoTask => Settling(run'[t].todo)) /\ Dry(run'[t].todo)
    <3>1. \A t \in Task : (run[t] # NoTask => Settling(run[t].todo)) /\ Dry(run[t].todo)
      BY <2>1 DEF Table, Dry
    <3>2. Dry(<< >>)
      BY Idle DEF Dry
    <3>3. QED
      BY <1>9, <3>1, <3>2, Idle DEF Begun
  <2>3. \A t \in Task : (run[t] # NoTask => Settling(run[t].todo))'
    <3>1. ASSUME NEW t \in Task, run'[t] # NoTask
          PROVE  Settling(run[t].todo)'
      <4>1. PICK todo : todo = run'[t].todo
        OBVIOUS
      <4>2. Settling(todo)'
        BY <2>2, <3>1, <4>1, SettlingStays
      <4>3. QED
        BY <4>1, <4>2, SettlingOf
    <3>2. QED
      BY <3>1
  <2>4. OpenHolds' = OpenHolds /\ Reserved' = Reserved
    BY <1>2 DEF OpenHolds, Reserved
  <2>5. Ledgered'
    <3>1. Ledgered
      BY <2>1 DEF Table
    <3>2. \A a : Held(a)' = Held(a)
      BY <1>2, <2>4 DEF Held
    <3>3. Stakes' = Stakes
      BY <1>2 DEF Stakes
    <3>4. QED
      BY <1>2, <2>4, <3>1, <3>2, <3>3 DEF Ledgered
  <2>6. \A t \in Task : \A i \in Doing(run'[t].todo, "meta") : run'[t].todo[i].meta.deadline = FALSE
    BY <2>2 DEF Dry
  <2>7. (\A t \in Task : \A i \in Doing(run[t].todo, "meta") : run[t].todo[i].meta.deadline = FALSE)'
    BY <2>6 DEF Doing
  <2>8. AtRest' => Settling(<< >>)'
    BY <1>9, SettlingStays
  <2>9. QED
    BY <1>2, <1>9, <2>1, <2>3, <2>4, <2>5, <2>7, <2>8 DEF Table
<1>10. Uninterrupted' <=> Uninterrupted
  BY DEF Uninterrupted
<1>11. QED
  BY <1>4, <1>5, <1>8, <1>9, <1>10 DEF IInv, Inv

LEMMA RefusedKeeps == ASSUME IInv, NEW t \in Task, Refused(t) PROVE IInv'
<1>1. PICK op, who, error : error # "hold_not_open" /\ Refuse(t, op, who, error)
  BY DEF Refused
<1>2. /\ run[t] = NoTask /\ SameStores /\ alarm' = alarm /\ faults' = faults
      /\ run' = [run EXCEPT ![t] = NoTask] /\ reply'.answer # "hold_not_open"
  BY <1>1 DEF Refuse, Answer, Stored, SameStores
<1>3. run \in [Task -> Tasks] /\ alarm \in BOOLEAN /\ faults \in Nat
  BY DEF IInv, Inv, Shape
<1>4. run' = run
  BY <1>2, <1>3
<1>5. \A u, v \in Task : run[u] # NoTask /\ run[v] # NoTask => u = v
  BY DEF IInv, Inv, Serial
<1>6. Uninterrupted => Settling(<< >>)
  BY <1>1 DEF IInv, Table, Refuse, Free, AtRest
<1>7. QED
  BY <1>2, <1>3, <1>4, <1>5, <1>6, TasksKeep

LEMMA BeganKeeps == ASSUME IInv, NEW t \in Task, Began(t) PROVE IInv'
<1>1. PICK w : Begun(w) /\ Start(t, w.op, w.who, w.todo)
  BY DEF Began
<1>2. /\ run[t] = NoTask /\ SameStores /\ alarm' = alarm /\ faults' = faults /\ reply'.answer # "hold_not_open"
      /\ run' = [run EXCEPT ![t] = [op |-> w.op, who |-> w.who, todo |-> w.todo]]
      /\ \A u \in Task : run[u] = NoTask
  BY <1>1 DEF Start, Stored, SameStores, Free, NoReply
<1>3. w \in Tasks /\ w = [op |-> w.op, who |-> w.who, todo |-> w.todo]
  BY <1>1 DEF Begun, Tasks
<1>4. run \in [Task -> Tasks] /\ alarm \in BOOLEAN /\ faults \in Nat
  BY DEF IInv, Inv, Shape
<1>5. run' \in [Task -> Tasks] /\ run'[t] = w /\ \A u \in Task : u # t => run'[u] = NoTask
  BY <1>2, <1>3, <1>4
<1>6. Uninterrupted => Settling(<< >>)
  BY <1>2 DEF IInv, Table, AtRest
<1>7. \A u \in Task : run'[u] = NoTask \/ Begun(run'[u])
  BY <1>1, <1>5
<1>8. \A u, v \in Task : run'[u] # NoTask /\ run'[v] # NoTask => u = v
  BY <1>5
<1>9. QED
  BY <1>2, <1>4, <1>5, <1>6, <1>7, <1>8, TasksKeep

LEMMA FaultKeeps == ASSUME IInv, Fault PROVE IInv'
<1>1. /\ faults < MaxFaults /\ SameStores /\ alarm' = alarm /\ faults' = faults + 1
      /\ run' = [u \in Task |-> NoTask]
  BY DEF Fault, Stored, SameStores
<1>2. alarm \in BOOLEAN /\ faults \in Nat
  BY DEF IInv, Inv, Shape
<1>3. ~Uninterrupted
  BY <1>1, <1>2 DEF Uninterrupted
<1>4. run' \in [Task -> Tasks] /\ \A u \in Task : run'[u] = NoTask
  BY <1>1, Idle
<1>5. QED
  BY <1>1, <1>2, <1>3, <1>4, TasksKeep

\* An alarm that finds nothing to do is spent.
LEMMA SpentKeeps ==
  ASSUME IInv, AtRest, alarm' = FALSE,
         UNCHANGED <<storage, index, result, board, db, run, reply, closer, erased, faults>>
  PROVE  IInv'
<1>1. SameStores
  BY DEF SameStores
<1>2. run \in [Task -> Tasks] /\ faults \in Nat /\ \A u, v \in Task : run[u] # NoTask /\ run[v] # NoTask => u = v
  BY DEF IInv, Inv, Shape, Serial
<1>3. Uninterrupted => reply'.answer # "hold_not_open" /\ Settling(<< >>)
  BY DEF IInv, Table
<1>4. QED
  BY <1>1, <1>2, <1>3, TasksKeep

\* The purge of a player: of no moment to the order, and none in a table nothing interrupts.
LEMMA PurgeKeeps == ASSUME IInv, NEW p \in Player, LedgerPurge(p) PROVE IInv'
<1>1. /\ p \in Erasable /\ db' = Purged(db, p) /\ erased' = erased \cup {p}
      /\ UNCHANGED <<storage, alarm, index, result, board, run, reply, closer, faults>>
  BY DEF LedgerPurge
<1>2. Shape /\ Serial /\ Order
  BY DEF IInv, Inv
<1>3. ~Uninterrupted /\ ~Uninterrupted'
  BY <1>1 DEF Uninterrupted
<1>4. meta' = meta /\ model' = model /\ Seated' = Seated
  BY <1>1 DEF meta, model, Seated
<1>5. Sound(db')
  BY <1>1, <1>2, PurgeSound DEF Shape
<1>6. Sound(db)'
  BY <1>5 DEF Sound
<1>7. erased' \subseteq Erasable
  BY <1>1, <1>2 DEF Shape
<1>8. Shape'
  BY <1>1, <1>2, <1>4, <1>6, <1>7 DEF Shape, Played
<1>9. Serial'
  BY <1>1, <1>2 DEF Serial
<1>10. ASSUME NEW t \in Task
       PROVE  Orderly(run[t])'
  <2>1. /\ OnceEach(run[t].todo) /\ MetaFits(run[t]) /\ ListFits(run[t].todo) /\ EndFits(run[t].todo) /\ KeyFits(run[t])
        /\ OutcomeFits(run[t].todo) /\ PublishFits(run[t].todo) /\ ResultFits(run[t].todo)
    BY <1>2 DEF Order, Orderly
  <2>2. OnceEach(run[t].todo)' /\ KeyFits(run[t])'
    BY <1>1, <2>1 DEF OnceEach, KeyFits, Doing
  <2>3. MetaFits(run[t])'
    BY <1>1, <1>4, <2>1 DEF MetaFits, Doing, Before, Leaver, Played
  <2>4. ListFits(run[t].todo)' /\ EndFits(run[t].todo)'
    BY <1>1, <1>4, <2>1 DEF ListFits, EndFits, Doing, Ending, Before
  <2>5. OutcomeFits(run[t].todo)' /\ PublishFits(run[t].todo)' /\ ResultFits(run[t].todo)'
    BY <1>1, <1>4, <2>1 DEF OutcomeFits, PublishFits, ResultFits, Doing, Ending
  <2>6. QED
    BY <2>2, <2>3, <2>4, <2>5 DEF Orderly
<1>11. Order'
  BY <1>1, <1>2, <1>4, <1>10 DEF Order, EndedInOrder
<1>12. QED
  BY <1>3, <1>8, <1>9, <1>11 DEF IInv, Inv

-----------------------------------------------------------------------------
(* What it takes for a transition to begin *)

Ops == {"create", "join", "submit", "bet", "roll", "leave", "close", "operatorClose", "alarm"}

Whos == Player \cup OperatorKey \cup {NoKey}

LEMMA GoingBegins ==
  ASSUME NEW t, NEW op \in Ops, NEW who \in Whos, NEW fx, QuietList(fx), NEW m \in Metas, NEW tail \in Goings(m),
         Start(t, op, who, fx \o tail), ~Terminal(meta.phase), ~Terminal(m.phase), m.phase # "none", m.seed \in Seeds,
         Seated \ (IF op = "leave" THEN {who} ELSE {}) \subseteq ToSet(m.members),
         Played(m) => model \in Boards \/ \E i \in DOMAIN fx : fx[i].do = "model",
         Uninterrupted => Settling(fx \o tail) /\ m.deadline = FALSE
  PROVE  Began(t)
<1> DEFINE todo == fx \o tail
           w == [op |-> op, who |-> who, todo |-> todo]
<1>1. /\ todo \in Plans /\ todo # << >> /\ GoesOn(todo, m) /\ Joined(fx, tail, todo)
      /\ \A i \in DOMAIN tail : tail[i].do \in {"meta", "list"} /\ tail[i].meta = m
  BY GoingPlan
<1> HIDE DEF todo
<1>2. w \in Tasks /\ w # NoTask /\ w.op = op /\ w.who = who /\ w.todo = todo
  BY <1>1 DEF Tasks, Ops, Whos, NoTask
<1> HIDE DEF w
<1>3. Leaver(w) = IF op = "leave" THEN {who} ELSE {}
  BY <1>2 DEF Leaver
<1>4. Played(m) => model \in Boards \/ \E i \in DOMAIN w.todo : w.todo[i].do = "model"
  BY <1>1, <1>2 DEF Joined
<1>5. GoesOn(w.todo, m)
  BY <1>1, <1>2
<1>6. Orderly(w)
  BY <1>3, <1>4, <1>5, GoingFits
<1>7. m.deadline = FALSE => Dry(w.todo)
  <2>1. ASSUME NEW i \in Doing(w.todo, "meta")
        PROVE  w.todo[i].meta = m
    <3>1. i \in DOMAIN todo /\ todo[i].do = "meta"
      BY <1>2 DEF Doing
    <3>2. \A j \in DOMAIN fx : fx[j].do # "meta"
      BY DEF QuietList, Quiet
    <3>3. i - Len(fx) \in DOMAIN tail /\ todo[i] = tail[i - Len(fx)]
      BY <1>1, <3>1, <3>2 DEF Joined
    <3>4. QED
      BY <1>1, <1>2, <3>3
  <2>2. QED
    BY <2>1 DEF Dry
<1>8. Uninterrupted => Settling(w.todo) /\ Dry(w.todo)
  BY <1>2, <1>7 DEF todo
<1>9. Start(t, w.op, w.who, w.todo)
  BY <1>2 DEF todo
<1>10. QED
  BY <1>1, <1>2, <1>6, <1>8, <1>9 DEF Began, Begun

LEMMA EndingBegins ==
  ASSUME IInv, NEW t, NEW op \in Ops, NEW who \in Whos, NEW fx, QuietList(fx), NEW status \in Statuses, NEW m \in Metas,
         NEW k, NEW tail, IsEnd(tail, k, status, m, who),
         Start(t, op, who, fx \o tail), ~Terminal(meta.phase), meta # NoMeta, m.phase # "none", m.seed \in Seeds,
         Seated \ (IF op = "leave" THEN {who} ELSE {}) \subseteq ToSet(m.members),
         Mode = "match" /\ k = 2 /\ status = "abandoned" => fx = << >> /\ ~IsComplete(model, meta.members),
         Uninterrupted => Settling(fx \o tail)
  PROVE  Began(t)
<1> DEFINE todo == fx \o tail
           w == [op |-> op, who |-> who, todo |-> todo]
<1>1. w.op = op /\ w.who = who /\ w.todo = todo
  OBVIOUS
<1> HIDE DEF todo, w
<1>2. w.todo = fx \o tail
  BY <1>1 DEF todo
<1>3. IsEnd(tail, k, status, m, w.who)
  BY <1>1
<1>4. w.todo \in Plans /\ w.todo # << >> /\ (\E u : EndsAt(w, u, status, m)) /\ Joined(fx, tail, w.todo)
  BY <1>2, <1>3, EndingPlan
<1>5. w \in Tasks /\ w # NoTask
  BY <1>1, <1>4 DEF Tasks, Ops, Whos, NoTask, w
<1>6. Leaver(w) = IF op = "leave" THEN {who} ELSE {}
  BY <1>1 DEF Leaver
<1>7. PICK u : EndsAt(w, u, status, m)
  BY <1>4
<1>8. Shape /\ Order
  BY DEF IInv, Inv
<1>9. Orderly(w)
  BY <1>6, <1>7, <1>8, EndingFits
<1>10. Dry(w.todo)
  <2>1. ASSUME NEW i \in Doing(w.todo, "meta")
        PROVE  w.todo[i].meta.deadline = FALSE
    <3>1. i \in DOMAIN w.todo /\ w.todo[i].do = "meta"
      BY DEF Doing
    <3>2. \A j \in DOMAIN fx : fx[j].do # "meta"
      BY DEF QuietList, Quiet
    <3>3. i - Len(fx) \in DOMAIN tail /\ w.todo[i] = tail[i - Len(fx)]
      BY <1>4, <3>1, <3>2 DEF Joined
    <3>4. w.todo[i].meta = Ended(status, m)
      BY <3>1, <3>3, EndTail
    <3>5. Ended(status, m).deadline = FALSE
      BY EndedIs
    <3>6. QED
      BY <3>4, <3>5
  <2>2. QED
    BY <2>1 DEF Dry
<1>11. Uninterrupted => Settling(w.todo)
  BY <1>2
<1>12. Start(t, w.op, w.who, w.todo)
  BY <1>1 DEF todo
<1>13. QED
  BY <1>4, <1>5, <1>9, <1>10, <1>11, <1>12 DEF Began, Begun

\* Between transitions the ledger reserves what the book holds.
LEMMA AtEase ==
  ASSUME IInv, Uninterrupted, AtRest, model \in Books
  PROVE  /\ Tickets(model) = Reserved /\ DOMAIN db.holds \subseteq RefsTo(model.betSeq)
         /\ \A b \in Bets(model) : /\ b.ref \in OpenHolds /\ db.holds[b.ref].account = Purse(b.user)
                                   /\ db.holds[b.ref].amount = b.amount /\ b.user \in Seated
         /\ Numbered(Bets(model))
<1>1. Table /\ Shape
  BY DEF IInv, Inv
<1>2. Settling(<< >>)
  BY <1>1 DEF Table
<1>3. Doing(<< >>, "model") = {}
  BY Idle
<1>4. Tickets(model) = Reserved /\ DOMAIN db.holds \subseteq RefsTo(model.betSeq)
  BY <1>2, <1>3 DEF Settling
<1>5. ASSUME NEW b \in Bets(model)
      PROVE  /\ b.ref \in OpenHolds /\ db.holds[b.ref].account = Purse(b.user)
             /\ db.holds[b.ref].amount = b.amount /\ b.user \in Seated
  <2>1. <<b.user, b.ref, b.amount>> \in Reserved
    BY <1>4 DEF Tickets
  <2>2. PICK r \in OpenHolds : <<b.user, b.ref, b.amount>> = <<Owner(db.holds[r].account), r, db.holds[r].amount>>
    BY <2>1 DEF Reserved
  <2>3. r = b.ref /\ Owner(db.holds[r].account) = b.user /\ db.holds[r].amount = b.amount
    BY <2>2
  <2>4. r \in DOMAIN db.holds /\ db.holds[r].account \in User \X Currency
    BY <1>1 DEF OpenHolds, Shape, Sound, HoldRows, Account
  <2>5. CurrencyOf(db.holds[r].account) = Chip
    BY <1>1, <2>4 DEF Table, Ledgered
  <2>6. db.holds[r].account = Purse(b.user)
    BY <2>3, <2>4, <2>5 DEF Owner, CurrencyOf, Purse
  <2>7. b.user \in Seated
    <3>1. <<b.user, b.ref, b.amount>>[1] \in {x[1] : x \in Reserved}
      BY <2>1
    <3>2. QED
      BY <1>1, <3>1 DEF Table
  <2>8. QED
    BY <2>2, <2>3, <2>6, <2>7
<1>6. Numbered(Bets(model))
  BY BookIs DEF Numbered
<1>7. QED
  BY <1>4, <1>5, <1>6

\* What an effect of a list touches, a later book of the list accounts for.
Covered(fx) == \A i \in DOMAIN fx : IsEffect(fx[i]) => \E j \in Doing(fx, "model") : i < j

Closing == {"unlist", "meta", "list", "outcome", "disarm", "result", "publish", "key"}

LEMMA ClearingSettles ==
  ASSUME IInv, Uninterrupted, AtRest, model \in Books,
         NEW fx, NEW C, Clears(model.betSeq, Bets(model), fx, C), Covered(fx),
         NEW tail, NEW todo, Joined(fx, tail, todo),
         \A i \in DOMAIN tail : /\ tail[i].do \in Closing
                                /\ tail[i].do = "meta" => /\ {b.user : b \in C} \subseteq ToSet(tail[i].meta.members)
                                                          /\ Terminal(tail[i].meta.phase) => C = {}
  PROVE  Settling(todo)
<1> DEFINE B == Bets(model)
           f == Len(fx)
           n == model.betSeq
<1>1. /\ Tickets(model) = Reserved /\ DOMAIN db.holds \subseteq RefsTo(n) /\ Numbered(B)
      /\ \A b \in B : /\ b.ref \in OpenHolds /\ db.holds[b.ref].account = Purse(b.user)
                      /\ db.holds[b.ref].amount = b.amount /\ b.user \in Seated
  BY AtEase
<1>2. /\ C \subseteq B /\ Struck(fx) = {b.ref : b \in B \ C}
      /\ \A i \in DOMAIN fx : fx[i].do \in Deciding
      /\ \A i \in Doing(fx, "model") : /\ fx[i].state \in Books /\ fx[i].state.betSeq = n
                                       /\ Bets(fx[i].state) = {b \in B : b.ref \notin Undone(fx, i)}
      /\ \A i, j \in DOMAIN fx : Undoes(fx[i]) /\ Undoes(fx[j]) /\ fx[i].ref = fx[j].ref => i = j
      /\ \A i \in Doing(fx, "credit") :
           \E b \in B : Wins(fx[i], b) /\ \E j \in Doing(fx, "release") : j < i /\ fx[j].ref = b.ref
  BY DEF Clears
<1>3. /\ f \in Nat /\ DOMAIN fx = 1 .. f /\ DOMAIN todo = 1 .. Len(todo)
      /\ \A i \in DOMAIN fx : i \in DOMAIN todo /\ todo[i] = fx[i] /\ i <= f
      /\ \A i \in DOMAIN tail : i + f \in DOMAIN todo /\ todo[i + f] = tail[i]
      /\ \A i \in DOMAIN todo : \/ i \in DOMAIN fx /\ i <= f /\ todo[i] = fx[i]
                                \/ i - f \in DOMAIN tail /\ i > f /\ todo[i] = tail[i - f]
  BY DEF Joined
<1>4. /\ \A i \in DOMAIN fx : Undone(todo, i) = Undone(fx, i)
      /\ \A i \in DOMAIN tail : Undone(todo, i + f) = Struck(fx) \cup Undone(tail, i)
  BY UndoneJoined
<1> HIDE DEF f, n, B
<1>5. \A i \in DOMAIN todo : todo[i].do \in Deciding => i \in DOMAIN fx /\ todo[i] = fx[i]
  <2>1. Deciding \cap Closing = {}
    BY DEF Deciding, Closing
  <2>2. QED
    BY <1>3, <2>1
<1>6. Doing(todo, "hold") = {}
  BY <1>2, <1>3 DEF Doing, Deciding, Closing
<1>7. \A i : Placed(todo, i) = {}
  BY <1>6 DEF Placed
<1>8. \A i : Due(todo, i) = {<<b.user, b.ref, b.amount>> : b \in {x \in B : x.ref \notin Undone(todo, i)}}
  <2>1. ASSUME NEW i
        PROVE  Due(todo, i) = {<<b.user, b.ref, b.amount>> : b \in {x \in B : x.ref \notin Undone(todo, i)}}
    <3>1. Due(todo, i) = {x \in Tickets(model) : x[2] \notin Undone(todo, i)}
      BY <1>1, <1>7 DEF Due
    <3>2. Tickets(model) = {<<b.user, b.ref, b.amount>> : b \in B}
      BY DEF Tickets, B
    <3>3. \A b : <<b.user, b.ref, b.amount>>[2] = b.ref
      OBVIOUS
    <3>4. QED
      BY <3>1, <3>2, <3>3
  <2>2. QED
    BY <2>1
<1>9. ASSUME NEW i \in Doing(todo, "model")
      PROVE  Tickets(todo[i].state) = Due(todo, i) /\ DOMAIN db.holds \subseteq RefsTo(todo[i].state.betSeq)
  <2>1. i \in Doing(fx, "model") /\ todo[i] = fx[i] /\ i \in DOMAIN fx
    BY <1>5 DEF Doing, Deciding
  <2>2. Bets(todo[i].state) = {b \in B : b.ref \notin Undone(todo, i)} /\ todo[i].state.betSeq = n
    BY <1>2, <1>4, <2>1
  <2>3. QED
    BY <1>1, <1>8, <2>2 DEF Tickets
<1>10. ASSUME NEW i \in DOMAIN todo, IsEffect(todo[i])
       PROVE  \E j \in Doing(todo, "model") : i < j
  <2>1. todo[i].do \notin Closing
    BY <1>10 DEF IsEffect, Closing
  <2>2. i \in DOMAIN fx /\ todo[i] = fx[i]
    BY <1>3, <2>1
  <2>3. PICK j \in Doing(fx, "model") : i < j
    BY <1>10, <2>2 DEF Covered
  <2>4. j \in Doing(todo, "model")
    BY <1>3 DEF Doing
  <2>5. QED
    BY <2>3, <2>4
<1>11. ASSUME NEW i \in DOMAIN todo, todo[i].do \in {"release", "capture"}
       PROVE  /\ todo[i].ref \in OpenHolds
              /\ \A j \in DOMAIN todo : todo[j].do \in {"release", "capture"} /\ todo[j].ref = todo[i].ref => j = i
  <2>1. \A j \in DOMAIN todo : todo[j].do \in {"release", "capture"} => j \in DOMAIN fx /\ todo[j] = fx[j] /\ Undoes(fx[j])
    BY <1>5 DEF Deciding, Undoes
  <2>2. fx[i].ref \in Struck(fx)
    BY <1>11, <2>1 DEF Struck
  <2>3. todo[i].ref \in OpenHolds
    BY <1>1, <1>2, <1>11, <2>1, <2>2
  <2>4. QED
    BY <1>2, <1>11, <2>1, <2>3
<1>12. ASSUME NEW i \in Doing(todo, "credit")
       PROVE  \E r \in DOMAIN db.holds :
                /\ todo[i].ref = WinRef[r]
                /\ db.holds[r].account = Purse(todo[i].user) /\ db.holds[r].amount = todo[i].amount
                /\ db.holds[r].status = "released" \/ \E j \in Doing(todo, "release") : j < i /\ todo[j].ref = r
  <2>1. i \in Doing(fx, "credit") /\ todo[i] = fx[i]
    BY <1>5 DEF Doing, Deciding
  <2>2. PICK b \in B : Wins(fx[i], b) /\ \E j \in Doing(fx, "release") : j < i /\ fx[j].ref = b.ref
    BY <1>2, <2>1
  <2>3. \E j \in Doing(todo, "release") : j < i /\ todo[j].ref = b.ref
    BY <1>3, <2>2 DEF Doing
  <2>4. b.ref \in DOMAIN db.holds
    BY <1>1 DEF OpenHolds
  <2>5. QED
    BY <1>1, <2>1, <2>2, <2>3, <2>4 DEF Wins
<1>13. ASSUME NEW i \in Doing(todo, "meta")
       PROVE  /\ {x[1] : x \in Due(todo, i)} \subseteq ToSet(todo[i].meta.members)
              /\ Terminal(todo[i].meta.phase) => Due(todo, i) = {}
  <2>1. i \in DOMAIN todo /\ todo[i].do = "meta"
    BY DEF Doing
  <2>2. i - f \in DOMAIN tail /\ todo[i] = tail[i - f] /\ (i - f) + f = i
    <3>1. "meta" \notin Deciding
      BY DEF Deciding
    <3>2. i \in Nat
      BY <1>3, <2>1
    <3>3. QED
      BY <1>2, <1>3, <2>1, <3>1, <3>2
  <2>3. Undone(todo, i) = Struck(fx) \cup Undone(tail, i - f)
    BY <1>4, <2>2
  <2>4. {x \in B : x.ref \notin Undone(todo, i)} \subseteq C
    BY <1>2, <2>3
  <2>5. Due(todo, i) \subseteq {<<b.user, b.ref, b.amount>> : b \in C}
    BY <1>8, <2>4
  <2>6. \A b : <<b.user, b.ref, b.amount>>[1] = b.user
    OBVIOUS
  <2>7. {x[1] : x \in Due(todo, i)} \subseteq {b.user : b \in C}
    BY <2>5, <2>6
  <2>8. /\ {b.user : b \in C} \subseteq ToSet(todo[i].meta.members)
        /\ Terminal(todo[i].meta.phase) => C = {}
    BY <2>1, <2>2
  <2>9. QED
    BY <2>5, <2>7, <2>8
<1>14. \A i \in Ending(todo) : Due(todo, i) = {}
  BY <1>13 DEF Ending
<1>15. Tickets(model) = Reserved /\ DOMAIN db.holds \subseteq RefsTo(model.betSeq)
  BY <1>1 DEF n
<1>16. QED
  BY <1>6, <1>9, <1>10, <1>11, <1>12, <1>13, <1>14, <1>15 DEF Settling

-----------------------------------------------------------------------------
(* Each transition begins in order, or is refused *)

LEMMA NowIs ==
  ASSUME IInv
  PROVE  /\ meta \in Metas /\ meta.members \in Seq(Player) /\ Len(meta.members) <= Seats /\ Seated = ToSet(meta.members)
         /\ meta # NoMeta => meta.phase # "none" /\ meta.seed \in Seeds
         /\ Played(meta) => model \in Boards
         /\ Uninterrupted => Table /\ Mode = "table" /\ meta.deadline = FALSE
<1>1. Shape /\ (Uninterrupted => Table)
  BY DEF IInv, Inv
<1>2. meta \in Metas
  BY <1>1 DEF Shape, meta
<1>3. Uninterrupted => Mode = "table" /\ meta.deadline = FALSE
  BY <1>1 DEF Uninterrupted, Table
<1>4. QED
  BY <1>1, <1>2, <1>3 DEF Metas, Shape, Seated

LEMMA QuietIs ==
  /\ QuietList(<< >>)
  /\ Mode = "table" => \A fx \in Seq(Writes \cup Effects) : (\A i \in DOMAIN fx : fx[i].do \in Deciding) => QuietList(fx)
  /\ \A h \in Writes : h.do \in Quiet => QuietList(<<h>>)
  /\ \A f, g : QuietList(f) /\ QuietList(g) => QuietList(f \o g)
<1>1. QuietList(<< >>)
  BY DEF QuietList
<1>2. ASSUME Mode = "table", NEW fx \in Seq(Writes \cup Effects), \A i \in DOMAIN fx : fx[i].do \in Deciding
      PROVE  QuietList(fx)
  BY <1>2 DEF QuietList, Quiet, Deciding
<1>3. ASSUME NEW h \in Writes, h.do \in Quiet
      PROVE  QuietList(<<h>>)
  <2>1. <<h>> \in Seq(Writes) /\ <<h>> \in Seq(Writes \cup Effects) /\ DOMAIN <<h>> = {1} /\ <<h>>[1] = h
    OBVIOUS
  <2>2. QED
    BY <1>3, <2>1 DEF QuietList
<1>4. ASSUME NEW f, NEW g, QuietList(f), QuietList(g)
      PROVE  QuietList(f \o g)
  <2>1. Joined(f, g, f \o g) /\ f \o g \in Seq(Writes \cup Effects)
    BY <1>4, JoinedIs DEF QuietList
  <2>2. Mode # "table" => f \o g \in Seq(Writes)
    BY <1>4, JoinedIs DEF QuietList
  <2>3. \A i \in DOMAIN (f \o g) : (f \o g)[i].do \in Quiet
    BY <1>4, <2>1 DEF Joined, QuietList
  <2>4. QED
    BY <2>1, <2>2, <2>3 DEF QuietList
<1>5. QED
  BY <1>1, <1>2, <1>3, <1>4

LEMMA CoveredIs ==
  /\ Covered(<< >>)
  /\ \A fx : Len(fx) \in Nat \ {0} /\ DOMAIN fx = 1 .. Len(fx) /\ fx[Len(fx)].do = "model" => Covered(fx)
<1>1. Covered(<< >>)
  BY DEF Covered
<1>2. ASSUME NEW fx, Len(fx) \in Nat \ {0}, DOMAIN fx = 1 .. Len(fx), fx[Len(fx)].do = "model"
      PROVE  Covered(fx)
  <2>1. ASSUME NEW i \in DOMAIN fx, IsEffect(fx[i])
        PROVE  \E j \in Doing(fx, "model") : i < j
    <3>1. i # Len(fx)
      BY <1>2, <2>1 DEF IsEffect
    <3>2. i < Len(fx) /\ Len(fx) \in DOMAIN fx
      BY <1>2, <3>1
    <3>3. QED
      BY <1>2, <3>2 DEF Doing
  <2>2. QED
    BY <2>1 DEF Covered
<1>3. QED
  BY <1>1, <1>2

\* Nothing to decide leaves all.
LEMMA NothingClears == ASSUME NEW n, NEW B PROVE Clears(n, B, << >>, B)
  BY DEF Clears, Doing, Struck

LEMMA EmptyBookIs == EmptyBook \in Books /\ Bets(EmptyBook) = {} /\ EmptyBook.betSeq = 0
<1>1. EmptyBook.bets = << >> /\ EmptyBook.betSeq = 0 /\ EmptyBook.round = 0 /\ 0 \in 0 .. MaxBets
  BY FaultAssumption DEF EmptyBook
<1>2. EmptyBook \in [bets : Seq(Bettings), betSeq : 0 .. MaxBets, round : Nat]
  BY <1>1 DEF EmptyBook
<1>3. QED
  BY <1>1, <1>2 DEF Books, Bets, ToSet

LEMMA CreateBegins ==
  ASSUME IInv, NEW t \in Task, NEW p \in Player, NEW seed \in Seeds, Create(t, p, seed)
  PROVE  Began(t)
<1> DEFINE m == [meta EXCEPT !.phase = IF Mode = "table" THEN "active" ELSE "open", !.members = <<p>>, !.seed = seed]
           fx == IF Mode = "table" THEN <<Model(EmptyBook)>> ELSE << >>
           tail == <<List(m), Meta(m)>>
           todo == fx \o tail
<1>1. meta = NoMeta /\ model = << >> /\ Start(t, "create", p, todo)
  BY DEF Create
<1>2. /\ m \in Metas /\ m.phase = (IF Mode = "table" THEN "active" ELSE "open") /\ m.members = <<p>> /\ m.seed = seed
      /\ m.deadline = FALSE
  <2>1. /\ meta \in Metas /\ meta.cursor \in 0 .. MaxRolls /\ meta.deadline = FALSE
    BY <1>1, NowIs DEF NoMeta, Metas
  <2>2. <<p>> \in Seq(Player) /\ Len(<<p>>) = 1 /\ 1 <= Seats
    BY ModeAssumption
  <2>3. (IF Mode = "table" THEN "active" ELSE "open") \in Phase
    BY DEF Phase
  <2>4. QED
    BY <2>1, <2>2, <2>3 DEF Metas
<1> HIDE DEF m
<1>3. ~Terminal(meta.phase) /\ ~Terminal(m.phase) /\ m.phase # "none" /\ Seated = {}
  BY <1>1, <1>2 DEF NoMeta, Terminal, Seated, ToSet
<1>4. Model(EmptyBook).do = "model" /\ Model(EmptyBook).state = EmptyBook
  BY DEF Model
<1>5. QuietList(fx)
  <2>1. Mode = "table" => Model(EmptyBook) \in Writes /\ Model(EmptyBook).do \in Quiet
    BY <1>4, EmptyBookIs DEF Model, Writes, Boards, Quiet
  <2>2. QED
    BY <2>1, QuietIs
<1>6. Played(m) => \E i \in DOMAIN fx : fx[i].do = "model"
  <2>1. Played(m) => Mode = "table"
    BY <1>2 DEF Played
  <2>2. Mode = "table" => 1 \in DOMAIN fx /\ fx[1] = Model(EmptyBook)
    OBVIOUS
  <2>3. QED
    BY <1>4, <2>1, <2>2
<1>7. tail \in Goings(m)
  BY DEF Goings
<1>8. ASSUME Uninterrupted
      PROVE  Settling(todo)
  <2>1. Table /\ Mode = "table" /\ AtRest
    BY <1>1, <1>8, NowIs DEF Start, Free, AtRest
  <2>2. Settling(<< >>) /\ Doing(<< >>, "model") = {} /\ model \notin Books
    <3>1. << >> \notin Books
      <4>1. ASSUME << >> \in Books PROVE FALSE
        <5>1. << >> \in [bets : Seq(Bettings), betSeq : 0 .. MaxBets, round : Nat]
          BY <4>1 DEF Books
        <5>2. DOMAIN << >> = {"bets", "betSeq", "round"}
          BY <5>1
        <5>3. QED
          BY <5>2
      <4>2. QED
        BY <4>1
    <3>2. QED
      BY <1>1, <2>1, <3>1, Idle DEF Table
  <2>3. DOMAIN db.holds = {}
    BY <2>2 DEF Settling
  <2>4. Reserved = {}
    BY <2>3 DEF Reserved, OpenHolds
  <2>5. /\ Joined(fx, tail, todo) /\ \A i \in DOMAIN tail : tail[i].do \in {"meta", "list"} /\ tail[i].meta = m
    BY <1>2, <1>5, <1>7, GoingPlan
  <2>6. DOMAIN fx = {1} /\ fx[1] = Model(EmptyBook)
    BY <2>1
  <2> HIDE DEF fx, tail, todo
  <2>7. \A i \in DOMAIN todo : todo[i] = Model(EmptyBook) \/ (todo[i].do \in {"meta", "list"} /\ todo[i].meta = m)
    <3>1. ASSUME NEW i \in DOMAIN todo
          PROVE  \/ i \in DOMAIN fx /\ todo[i] = fx[i]
                 \/ i - Len(fx) \in DOMAIN tail /\ todo[i] = tail[i - Len(fx)]
      BY <2>5 DEF Joined
    <3>2. \A i \in DOMAIN fx : fx[i] = Model(EmptyBook)
      BY <2>6
    <3>3. QED
      BY <2>5, <3>1, <3>2
  <2>8. \A i \in DOMAIN todo : ~IsEffect(todo[i]) /\ todo[i].do \notin {"hold", "credit", "release", "capture"}
    <3>1. ASSUME NEW i \in DOMAIN todo
          PROVE  todo[i].do \in {"model", "meta", "list"}
      <4>1. CASE todo[i] = Model(EmptyBook)
        BY <1>4, <4>1
      <4>2. QED
        BY <2>7, <4>1
    <3>2. QED
      BY <3>1 DEF IsEffect
  <2>9. \A i : Due(todo, i) = {}
    BY <2>4, <2>8 DEF Due, Placed, Doing
  <2>10. \A i \in Doing(todo, "model") : todo[i].state = EmptyBook
    BY <1>4, <2>7 DEF Doing
  <2>11. \A i \in Doing(todo, "model") : Tickets(todo[i].state) = Due(todo, i) /\ DOMAIN db.holds \subseteq RefsTo(todo[i].state.betSeq)
    BY <2>3, <2>9, <2>10, EmptyBookIs DEF Tickets
  <2>12. Doing(todo, "hold") = {} /\ Doing(todo, "credit") = {}
    BY <2>8 DEF Doing
  <2>13. QED
    BY <2>2, <2>3, <2>8, <2>9, <2>11, <2>12 DEF Settling
<1> HIDE DEF tail, todo, fx
<1>9. "create" \in Ops /\ p \in Whos
  BY DEF Ops, Whos
<1>10. Start(t, "create", p, fx \o tail) /\ (Uninterrupted => Settling(fx \o tail) /\ m.deadline = FALSE)
  BY <1>1, <1>2, <1>8 DEF todo
<1>11. m.seed \in Seeds /\ Seated \subseteq ToSet(m.members)
  BY <1>2, <1>3
<1>12. QED
  BY <1>2, <1>3, <1>5, <1>6, <1>7, <1>9, <1>10, <1>11, GoingBegins

LEMMA RefusedIs ==
  ASSUME NEW t, NEW op, NEW who, NEW error, Refuse(t, op, who, error), error # "hold_not_open"
  PROVE  Refused(t)
  BY DEF Refused

LEMMA WithIs ==
  ASSUME meta \in Metas, NEW phase \in Phase, NEW members \in Seq(Player), Len(members) <= Seats
  PROVE  /\ With(phase, members) \in Metas /\ With(phase, members).phase = phase /\ With(phase, members).members = members
         /\ With(phase, members).seed = meta.seed /\ With(phase, members).deadline = meta.deadline
  BY DEF With, Metas

\* A match that starts has a board.
LEMMA NewMatchIs == Mode # "table" => Model(NewMatch) \in Writes /\ Model(NewMatch).do = "model"
<1>1. NewMatch \in Matches
  BY DEF NewMatch, Matches
<1>2. QED
  BY <1>1 DEF Model, Writes, Boards

LEMMA JoinBegins ==
  ASSUME IInv, NEW t \in Task, NEW p \in Player, Join(t, p)
  PROVE  Began(t) \/ Refused(t)
<1> DEFINE members == Append(meta.members, p)
           fills == Mode = "match" /\ Len(members) = Seats
           m == IF fills THEN [With("active", members) EXCEPT !.deadline = Timed] ELSE With(meta.phase, members)
           a == IF fills THEN <<Model(NewMatch)>> ELSE << >>
           b == IF fills /\ Timed THEN <<[do |-> "arm"]>> ELSE << >>
           fx == a \o b
           tail == <<List(m), Meta(m)>>
           new == meta # NoMeta /\ p \notin ToSet(meta.members) /\ ~Terminal(meta.phase) /\ ~(Len(meta.members) >= Seats)
                    /\ Start(t, "join", p, JoinWrites(fills, m))
<1>1. CASE ~new
  <2>1. \/ Refuse(t, "join", p, "session_not_found") \/ Refuse(t, "join", p, "done")
        \/ Refuse(t, "join", p, "invalid_transition") \/ Refuse(t, "join", p, "session_full")
    BY <1>1 DEF Join
  <2>2. QED
    BY <2>1, RefusedIs
<1>2. CASE new
  <2>1. /\ meta \in Metas /\ meta.members \in Seq(Player) /\ Len(meta.members) <= Seats /\ Seated = ToSet(meta.members)
        /\ meta.phase # "none" /\ meta.seed \in Seeds /\ (Played(meta) => model \in Boards)
        /\ Uninterrupted => Table /\ Mode = "table" /\ meta.deadline = FALSE
    BY <1>2, NowIs
  <2>2. /\ members \in Seq(Player) /\ Len(members) = Len(meta.members) + 1 /\ ToSet(members) = Seated \cup {p}
        /\ Len(members) <= Seats
    <3>1. members \in Seq(Player) /\ Len(members) = Len(meta.members) + 1 /\ ToSet(members) = Seated \cup {p}
      BY <2>1, AppendIs
    <3>2. Len(meta.members) \in Nat /\ Seats \in Nat /\ ~(Len(meta.members) >= Seats)
      BY <1>2, <2>1, ModeAssumption
    <3>3. QED
      BY <3>1, <3>2
  <2>3. AtRest /\ Start(t, "join", p, fx \o tail)
    <3>1. JoinWrites(fills, m) = a \o b \o tail
      BY DEF JoinWrites
    <3>2. QED
      BY <1>2, <3>1 DEF Start, Free, AtRest
  <2> HIDE DEF members
  <2>4. "active" \in Phase /\ meta.phase \in Phase /\ ~Terminal("active") /\ ~Terminal(meta.phase)
    BY <1>2, <2>1 DEF Phase, Metas, Terminal
  <2>5. /\ \A phase \in {"active", meta.phase} :
             /\ With(phase, members) \in Metas /\ With(phase, members).phase = phase
             /\ With(phase, members).members = members
             /\ With(phase, members).seed = meta.seed /\ With(phase, members).deadline = meta.deadline
    BY <2>1, <2>2, <2>4, WithIs
  <2>6. /\ m \in Metas /\ m.members = members /\ m.seed = meta.seed /\ m.phase = (IF fills THEN "active" ELSE meta.phase)
        /\ ~fills => m.deadline = meta.deadline
    <3>1. CASE fills
      <4> DEFINE x == With("active", members)
                 y == [x EXCEPT !.deadline = Timed]
      <4>1. x \in Metas /\ x.phase = "active" /\ x.members = members /\ x.seed = meta.seed
        BY <2>5
      <4> HIDE DEF x
      <4>2. Timed \in BOOLEAN
        BY ModeAssumption
      <4>3. y \in Metas /\ y.phase = "active" /\ y.members = members /\ y.seed = meta.seed
        BY <4>1, <4>2 DEF Metas
      <4> HIDE DEF y
      <4>4. m = y
        BY <3>1 DEF y, x
      <4>5. QED
        BY <3>1, <4>3, <4>4
    <3>2. CASE ~fills
      BY <2>5, <3>2
    <3>3. QED
      BY <3>1, <3>2
  <2> HIDE DEF m
  <2>7. fills => Mode # "table"
    OBVIOUS
  <2>8. fills => Model(NewMatch) \in Writes /\ Model(NewMatch).do = "model"
    BY <2>7, NewMatchIs
  <2>9. QuietList(a) /\ QuietList(b) /\ QuietList(fx)
    <3>1. QuietList(a)
      BY <2>8, QuietIs DEF Quiet
    <3>2. [do |-> "arm"] \in Writes /\ [do |-> "arm"].do \in Quiet
      BY DEF Writes, Quiet
    <3>3. QuietList(b)
      BY <3>2, QuietIs
    <3>4. QED
      BY <3>1, <3>3, QuietIs
  <2>10. Played(m) => model \in Boards \/ \E i \in DOMAIN fx : fx[i].do = "model"
    <3>1. CASE fills
      <4>1. Joined(a, b, fx)
        BY <2>9, JoinedIs DEF QuietList
      <4>2. 1 \in DOMAIN a /\ a[1].do = "model"
        BY <2>8, <3>1
      <4>3. 1 \in DOMAIN fx /\ fx[1].do = "model"
        BY <4>1, <4>2 DEF Joined
      <4>4. QED
        BY <4>3
    <3>2. CASE ~fills
      <4>1. Played(m) => Played(meta)
        BY <1>2, <2>6, <3>2 DEF Played
      <4>2. QED
        BY <2>1, <4>1
    <3>3. QED
      BY <3>1, <3>2
  <2>11. ASSUME Uninterrupted
         PROVE  Settling(fx \o tail) /\ m.deadline = FALSE
    <3>1. ~fills /\ Mode = "table" /\ meta.deadline = FALSE
      BY <2>1, <2>11
    <3>2. fx = << >>
      BY <3>1
    <3>3. model \in Books
      BY <1>2, <2>1, <3>1 DEF Played, Boards
    <3>4. tail \in Goings(m)
      BY DEF Goings
    <3> HIDE DEF fx, tail
    <3>5. /\ Joined(fx, tail, fx \o tail)
          /\ \A i \in DOMAIN tail : tail[i].do \in {"meta", "list"} /\ tail[i].meta = m
      BY <2>6, <2>9, <3>4, GoingPlan
    <3>6. {b1.user : b1 \in Bets(model)} \subseteq ToSet(m.members)
      BY <2>2, <2>3, <2>6, <2>11, <3>3, AtEase
    <3>7. ~Terminal(m.phase)
      BY <2>4, <2>6
    <3>8. Clears(model.betSeq, Bets(model), fx, Bets(model)) /\ Covered(fx)
      BY <3>2, NothingClears, CoveredIs
    <3>9. \A i \in DOMAIN tail :
            /\ tail[i].do \in Closing
            /\ tail[i].do = "meta" => /\ {b1.user : b1 \in Bets(model)} \subseteq ToSet(tail[i].meta.members)
                                      /\ Terminal(tail[i].meta.phase) => Bets(model) = {}
      BY <3>5, <3>6, <3>7 DEF Closing
    <3>10. Settling(fx \o tail)
      BY <2>3, <2>11, <3>3, <3>5, <3>8, <3>9, ClearingSettles
    <3>11. QED
      BY <2>6, <3>1, <3>10
  <2>12. tail \in Goings(m)
    BY DEF Goings
  <2>13. "join" \in Ops /\ p \in Whos /\ "join" # "leave"
    BY DEF Ops, Whos
  <2>14. ~Terminal(m.phase) /\ m.phase # "none" /\ m.seed \in Seeds /\ Seated \subseteq ToSet(m.members)
    BY <2>1, <2>2, <2>4, <2>6
  <2> HIDE DEF fx, tail
  <2>15. Began(t)
    BY <2>3, <2>4, <2>6, <2>9, <2>10, <2>11, <2>12, <2>13, <2>14, GoingBegins
  <2>16. QED
    BY <2>15
<1>3. QED
  BY <1>1, <1>2

LEMMA RefuseActionIs == ASSUME NEW t, NEW op, NEW p, RefuseAction(t, op, p) PROVE Refused(t)
<1>1. Refuse(t, op, p, "invalid_transition") \/ Refuse(t, op, p, "not_a_member")
  BY DEF RefuseAction
<1>2. QED
  BY <1>1, RefusedIs

LEMMA MayActIs ==
  ASSUME IInv, NEW p, MayAct(p)
  PROVE  meta # NoMeta /\ ~Terminal(meta.phase) /\ meta.phase # "none" /\ meta.seed \in Seeds /\ model \in Boards
         /\ p \in Seated /\ p \in Player
<1>1. meta.phase = "active" /\ p \in ToSet(meta.members)
  BY DEF MayAct
<1>2. meta # NoMeta /\ ~Terminal(meta.phase)
  BY <1>1 DEF NoMeta, Terminal
<1>3. Played(meta)
  BY <1>1, <1>2 DEF Played
<1>4. p \in Player
  <2>1. meta.members \in Seq(Player)
    BY NowIs
  <2>2. \A i \in DOMAIN meta.members : meta.members[i] \in Player
    BY <2>1
  <2>3. QED
    BY <1>1, <2>2 DEF ToSet
<1>5. QED
  BY <1>1, <1>2, <1>3, <1>4, NowIs

LEMMA SubmitBegins ==
  ASSUME IInv, NEW t \in Task, NEW p \in Player, Submit(t, p)
  PROVE  Began(t) \/ Refused(t)
<1> DEFINE next == Submission(model, p)
           fx == <<Model(next)>>
           tail == IF IsComplete(next, meta.members) THEN Resolve(meta) ELSE <<Meta(meta)>>
<1>1. CASE RefuseAction(t, "submit", p) \/ Refuse(t, "submit", p, "invalid_transition")
  BY <1>1, RefuseActionIs, RefusedIs
<1>2. CASE MayAct(p) /\ MaySubmit(model, p) /\ Start(t, "submit", p, fx \o tail)
  <2>1. /\ meta # NoMeta /\ ~Terminal(meta.phase) /\ meta.phase # "none" /\ meta.seed \in Seeds /\ model \in Boards
        /\ meta \in Metas /\ Seated = ToSet(meta.members)
    BY <1>2, MayActIs, NowIs
  <2>2. Mode = "match" /\ Mode # "table" /\ ~Uninterrupted
    BY DEF Submit, Uninterrupted
  <2>3. next \in Boards
    BY <2>1, <2>2 DEF Submission, Boards, Matches
  <2>4. Model(next) \in Writes /\ Model(next).do \in Quiet
    BY <2>3 DEF Model, Writes, Quiet
  <2> HIDE DEF next
  <2>5. QuietList(fx)
    BY <2>4, QuietIs
  <2>6. "submit" \in Ops /\ p \in Whos /\ "submit" # "leave"
    BY DEF Ops, Whos
  <2> HIDE DEF fx
  <2>7. CASE IsComplete(next, meta.members)
    <3>1. "resolved" \in Statuses /\ "resolved" # "abandoned" /\ IsEnd(Resolve(meta), 2, "resolved", meta, p)
      BY <2>1, EndTails DEF Statuses
    <3>2. Start(t, "submit", p, fx \o Resolve(meta))
      BY <1>2, <2>7
    <3>3. Began(t)
      BY <2>1, <2>2, <2>5, <2>6, <3>1, <3>2, EndingBegins
    <3>4. QED
      BY <3>3
  <2>8. CASE ~IsComplete(next, meta.members)
    <3>1. <<Meta(meta)>> \in Goings(meta) /\ Start(t, "submit", p, fx \o <<Meta(meta)>>)
      BY <1>2, <2>8 DEF Goings
    <3>2. Began(t)
      BY <2>1, <2>2, <2>5, <2>6, <3>1, GoingBegins
    <3>3. QED
      BY <3>2
  <2>9. QED
    BY <2>7, <2>8
<1>3. QED
  BY <1>1, <1>2 DEF Submit

LEMMA AlarmBegins ==
  ASSUME IInv, NEW t \in Task, Alarm(t)
  PROVE  \/ Began(t)
         \/ /\ AtRest /\ alarm' = FALSE
            /\ UNCHANGED <<storage, index, result, board, db, run, reply, closer, erased, faults>>
<1> DEFINE tail == IF IsComplete(model, meta.members) THEN Resolve(meta) ELSE CommitTerminal("abandoned", meta)
           live == ~Terminal(meta.phase) /\ meta.deadline
<1>1. CASE ~live
  BY <1>1 DEF Alarm, Free, AtRest
<1>2. CASE live
  <2>1. Start(t, "alarm", NoKey, tail) /\ meta # NoMeta /\ ~Terminal(meta.phase)
    BY <1>2 DEF Alarm, NoMeta
  <2>2. /\ meta.phase # "none" /\ meta.seed \in Seeds /\ meta \in Metas /\ Seated = ToSet(meta.members)
        /\ ~Uninterrupted
    BY <1>2, <2>1, NowIs
  <2>3. "alarm" \in Ops /\ NoKey \in Whos /\ "alarm" # "leave"
    BY DEF Ops, Whos
  <2>4. \A s \in Seq(Writes) : << >> \o s = s
    OBVIOUS
  <2>5. ASSUME NEW status \in Statuses, IsEnd(tail, 2, status, meta, NoKey),
               Mode = "match" /\ status = "abandoned" => ~IsComplete(model, meta.members)
        PROVE  Began(t)
    <3>1. tail \in Seq(Writes)
      BY <2>5 DEF IsEnd
    <3> HIDE DEF tail
    <3>2. Start(t, "alarm", NoKey, << >> \o tail)
      BY <2>1, <2>4, <3>1
    <3>3. QuietList(<< >>)
      BY QuietIs
    <3>4. QED
      BY <2>1, <2>2, <2>3, <2>5, <3>2, <3>3, EndingBegins
  <2>6. CASE IsComplete(model, meta.members)
    <3>1. "resolved" \in Statuses /\ "resolved" # "abandoned" /\ IsEnd(Resolve(meta), 2, "resolved", meta, NoKey)
      BY <2>2, EndTails DEF Statuses
    <3>2. QED
      BY <2>5, <2>6, <3>1
  <2>7. CASE ~IsComplete(model, meta.members)
    <3>1. "abandoned" \in Statuses /\ IsEnd(CommitTerminal("abandoned", meta), 2, "abandoned", meta, NoKey)
      BY <2>2, EndTails DEF Statuses
    <3>2. QED
      BY <2>5, <2>7, <3>1
  <2>8. QED
    BY <2>6, <2>7
<1>3. QED
  BY <1>1, <1>2

\* Everyone is settled out of a table before it ends.
LEMMA SettledOut ==
  ASSUME IInv, Mode = "table", meta # NoMeta
  PROVE  LET fx == SettleOut(model, meta.members)
         IN /\ QuietList(fx) /\ model \in Books
            /\ \A tail, k, status, m, who :
                 Uninterrupted /\ AtRest /\ IsEnd(tail, k, status, m, who) => Settling(fx \o tail)
<1> DEFINE fx == SettleOut(model, meta.members)
           C == {b \in Bets(model) : b.user \notin ToSet(meta.members)}
<1>1. model \in Books /\ meta.members \in Seq(Player)
  BY NowIs DEF Played, Boards
<1>2. /\ fx \in Seq(Writes \cup Effects) /\ Clears(model.betSeq, Bets(model), fx, C)
      /\ fx = << >> \/ (Len(fx) \in Nat \ {0} /\ fx[Len(fx)].do = "model")
  BY <1>1, SettleOutIs
<1> HIDE DEF fx
<1>3. (\A i \in DOMAIN fx : fx[i].do \in Deciding) /\ DOMAIN fx = 1 .. Len(fx)
  BY <1>2 DEF Clears
<1>4. QuietList(fx)
  BY <1>2, <1>3, QuietIs
<1>5. Covered(fx)
  BY <1>2, <1>3, CoveredIs
<1>6. ASSUME NEW tail, NEW k, NEW status, NEW m, NEW who, Uninterrupted, AtRest,
             IsEnd(tail, k, status, m, who)
      PROVE  Settling(fx \o tail)
  <2>1. C = {}
    <3>1. \A b \in Bets(model) : b.user \in Seated
      BY <1>1, <1>6, AtEase
    <3>2. QED
      BY <3>1 DEF Seated
  <2>2. Joined(fx, tail, fx \o tail)
    <3>1. tail \in Seq(Writes)
      BY <1>6 DEF IsEnd
    <3>2. tail \in Seq(Writes \cup Effects)
      BY <3>1
    <3>3. QED
      BY <1>2, <3>2, JoinedIs
  <2> HIDE DEF C
  <2>3. \A i \in DOMAIN tail :
            /\ tail[i].do \in Closing
            /\ tail[i].do = "meta" => /\ {b.user : b \in C} \subseteq ToSet(tail[i].meta.members)
                                      /\ Terminal(tail[i].meta.phase) => C = {}
    <3>1. \A i \in DOMAIN tail : tail[i].do \in {"unlist", "meta", "outcome", "disarm", "result", "publish", "key"}
      BY <1>6, EndTail
    <3>2. QED
      BY <2>1, <3>1 DEF Closing
  <2>4. QED
    BY <1>1, <1>2, <1>5, <1>6, <2>2, <2>3, ClearingSettles
<1>7. QED
  BY <1>1, <1>4, <1>6 DEF fx

LEMMA CloseBegins ==
  ASSUME IInv, NEW t \in Task, NEW p \in Player, Close(t, p)
  PROVE  Began(t) \/ Refused(t)
<1> DEFINE fx == SettleOut(model, meta.members)
           tail == CommitTerminal("resolved", meta)
<1>1. CASE Refuse(t, "close", p, "not_a_member") \/ Refuse(t, "close", p, "done")
  BY <1>1, RefusedIs
<1>2. CASE ~Terminal(meta.phase) /\ Start(t, "close", p, fx \o tail)
  <2>1. meta # NoMeta /\ Mode = "table" /\ Mode # "match" /\ AtRest
    BY <1>2 DEF Close, Start, Free, AtRest
  <2>2. meta.phase # "none" /\ meta.seed \in Seeds /\ meta \in Metas /\ Seated = ToSet(meta.members)
    BY <2>1, NowIs
  <2>3. "resolved" \in Statuses /\ IsEnd(tail, 2, "resolved", meta, p)
    BY <2>2, EndTails DEF Statuses
  <2>4. QuietList(fx)
    BY <2>1, SettledOut
  <2>5. Uninterrupted => Settling(fx \o tail)
    BY <2>1, <2>3, SettledOut
  <2>6. "close" \in Ops /\ p \in Whos /\ "close" # "leave"
    BY DEF Ops, Whos
  <2> HIDE DEF fx, tail
  <2>7. Began(t)
    BY <1>2, <2>1, <2>2, <2>3, <2>4, <2>5, <2>6, EndingBegins
  <2>8. QED
    BY <2>7
<1>3. QED
  BY <1>1, <1>2 DEF Close

LEMMA OperatorCloseBegins ==
  ASSUME IInv, NEW t \in Task, NEW key \in OperatorKey, OperatorClose(t, key)
  PROVE  Began(t) \/ Refused(t)
<1> DEFINE fx == IF Mode = "table" THEN SettleOut(model, meta.members) ELSE << >>
           e == EndInFlight("abandoned", meta)
           one == <<[do |-> "key"]>>
           tail == e \o one
<1>1. CASE Refuse(t, "operatorClose", key, "replayed") \/ Refuse(t, "operatorClose", key, "invalid_transition")
  BY <1>1, RefusedIs
<1>2. CASE ~Terminal(meta.phase) /\ Start(t, "operatorClose", key, fx \o e \o one)
  <2>1. meta # NoMeta /\ AtRest
    BY <1>2 DEF OperatorClose, Start, Free, AtRest
  <2>2. meta.phase # "none" /\ meta.seed \in Seeds /\ meta \in Metas /\ Seated = ToSet(meta.members)
    BY <2>1, NowIs
  <2>3. "abandoned" \in Statuses /\ IsEnd(tail, 1, "abandoned", meta, key)
    BY <2>2, EndTails DEF Statuses
  <2>4. QuietList(fx)
    <3>1. Mode = "table" => QuietList(SettleOut(model, meta.members))
      BY <2>1, SettledOut
    <3>2. QED
      BY <3>1, QuietIs
  <2>5. Uninterrupted => Settling(fx \o tail)
    <3>1. Uninterrupted => Mode = "table"
      BY DEF Uninterrupted
    <3>2. Mode = "table" /\ Uninterrupted => Settling(SettleOut(model, meta.members) \o tail)
      BY <2>1, <2>3, SettledOut
    <3>3. QED
      BY <3>1, <3>2
  <2>6. "operatorClose" \in Ops /\ key \in Whos /\ "operatorClose" # "leave"
    BY DEF Ops, Whos
  <2>7. fx \o e \o one = fx \o tail
    <3>1. fx \in Seq(Writes \cup Effects)
      BY <2>4 DEF QuietList
    <3>2. e \in Seq(Writes \cup Effects) /\ one \in Seq(Writes \cup Effects)
      <4>1. Ended("abandoned", meta) \in Metas
        BY <2>2, <2>3, EndedIs
      <4>2. /\ Meta(Ended("abandoned", meta)) \in Writes /\ [do |-> "unlist"] \in Writes
            /\ [do |-> "outcome", status |-> "abandoned"] \in Writes /\ [do |-> "disarm"] \in Writes
            /\ [do |-> "key"] \in Writes
        BY <2>3, <4>1 DEF Meta, Writes
      <4>3. e = <<[do |-> "unlist"], Meta(Ended("abandoned", meta)), [do |-> "outcome", status |-> "abandoned"],
                  [do |-> "disarm"]>>
        BY DEF EndInFlight, Ended
      <4>4. ASSUME NEW a \in Writes \cup Effects, NEW b \in Writes \cup Effects,
                   NEW c \in Writes \cup Effects, NEW d \in Writes \cup Effects
            PROVE  <<a, b, c, d>> \in Seq(Writes \cup Effects) /\ <<a>> \in Seq(Writes \cup Effects)
        OBVIOUS
      <4>5. e \in Seq(Writes \cup Effects)
        <5> HIDE DEF e
        <5>1. /\ [do |-> "unlist"] \in Writes \cup Effects
              /\ Meta(Ended("abandoned", meta)) \in Writes \cup Effects
              /\ [do |-> "outcome", status |-> "abandoned"] \in Writes \cup Effects
              /\ [do |-> "disarm"] \in Writes \cup Effects
          BY <4>2
        <5>2. <<[do |-> "unlist"], Meta(Ended("abandoned", meta)), [do |-> "outcome", status |-> "abandoned"],
                [do |-> "disarm"]>> \in Seq(Writes \cup Effects)
          BY <5>1, <4>4
        <5>3. QED
          BY <4>3, <5>2
      <4>6. one \in Seq(Writes \cup Effects)
        BY <4>2, <4>4
      <4>7. QED
        BY <4>5, <4>6
    <3> HIDE DEF fx, e, one
    <3>3. QED
      BY <3>1, <3>2, ConcatAssociative
  <2> HIDE DEF fx, tail
  <2>8. Start(t, "operatorClose", key, fx \o tail)
    BY <1>2, <2>7
  <2>9. Began(t)
    BY <1>2, <2>1, <2>2, <2>3, <2>4, <2>5, <2>6, <2>8, EndingBegins
  <2>10. QED
    BY <2>9
<1>3. QED
  BY <1>1, <1>2 DEF OperatorClose

LEMMA PairIs == ASSUME NEW S, NEW a \in S, NEW b \in S PROVE <<a>> \o <<b>> = <<a, b>>
<1> DEFINE f == <<a>>
           g == <<b>>
           s == <<a, b>>
           h == f \o g
<1>1. f \in Seq(S) /\ Len(f) = 1 /\ DOMAIN f = {1} /\ f[1] = a /\ g \in Seq(S) /\ DOMAIN g = {1} /\ Len(g) = 1 /\ g[1] = b
  OBVIOUS
<1>2. s \in Seq(S) /\ Len(s) = 2 /\ s[1] = a /\ s[2] = b
  OBVIOUS
<1> HIDE DEF f, g, s
<1>3. Joined(f, g, h) /\ h \in Seq(S)
  BY <1>1, JoinedIs
<1> HIDE DEF h
<1>4. Len(h) = 1 + 1 /\ h[1] = f[1] /\ h[1 + 1] = g[1]
  BY <1>1, <1>3 DEF Joined
<1>5. Len(h) = 2 /\ h[1] = a /\ h[2] = b
  BY <1>1, <1>4
<1>6. \A i \in 1 .. Len(h) : h[i] = s[i]
  <2>1. \A i \in 1 .. 2 : i = 1 \/ i = 2
    OBVIOUS
  <2>2. QED
    BY <1>2, <1>5, <2>1
<1>7. Len(h) = Len(s)
  BY <1>2, <1>5
<1>8. h = s
  BY <1>2, <1>3, <1>6, <1>7, SeqEqual
<1>9. QED
  BY <1>8 DEF f, g, s, h

\* Effects that decide a book's bets, and then the book they leave.
LEMMA ThenBook ==
  ASSUME Mode = "table", NEW book \in Books, NEW new \in Books, new.betSeq = book.betSeq,
         NEW effects \in Seq(Effects), Clears(book.betSeq, Bets(book), effects, Bets(new))
  PROVE  LET fx == effects \o <<Model(new)>>
         IN QuietList(fx) /\ Covered(fx) /\ Clears(book.betSeq, Bets(book), fx, Bets(new))
<1> DEFINE one == <<Model(new)>>
           fx == effects \o one
<1>1. Model(new) \in Writes /\ Model(new).do = "model" /\ Model(new).state = new
  BY DEF Model, Writes, Boards
<1>2. /\ one \in Seq(Writes \cup Effects) /\ Len(one) = 1 /\ DOMAIN one = {1} /\ DOMAIN one = 1 .. Len(one)
      /\ one[1] = Model(new)
  BY <1>1
<1> HIDE DEF one
<1>3. Doing(one, "model") = {1} /\ Doing(one, "credit") = {} /\ \A i \in DOMAIN one : one[i].do \in Deciding
  BY <1>1, <1>2 DEF Doing, Deciding
<1>4. Struck(one) = {} /\ Undone(one, 1) = {}
  BY <1>1, <1>2 DEF Struck, Undone, Undoes
<1>5. Clears(book.betSeq, Bets(new), one, Bets(new))
  BY <1>1, <1>2, <1>3, <1>4 DEF Clears, Undoes
<1>6. effects \in Seq(Writes \cup Effects)
  OBVIOUS
<1>7. Joined(effects, one, fx) /\ fx \in Seq(Writes \cup Effects)
  BY <1>2, <1>6, JoinedIs
<1> HIDE DEF fx
<1>8. Numbered(Bets(book))
  BY BookIs DEF Numbered
<1>9. Clears(book.betSeq, Bets(book), fx, Bets(new))
  BY <1>5, <1>7, <1>8, ClearsThen
<1>10. QuietList(fx)
  BY <1>7, <1>9, QuietIs DEF Clears
<1>11. Covered(fx)
  <2>1. /\ Len(effects) \in Nat /\ Len(fx) = Len(effects) + 1 /\ DOMAIN fx = 1 .. Len(fx)
        /\ fx[1 + Len(effects)] = one[1]
    BY <1>2, <1>7 DEF Joined
  <2>2. Len(fx) \in Nat \ {0} /\ fx[Len(fx)].do = "model"
    BY <1>1, <1>2, <2>1
  <2>3. QED
    BY <2>1, <2>2, CoveredIs
<1>12. QED
  BY <1>9, <1>10, <1>11 DEF fx, one

LEMMA RollBegins ==
  ASSUME IInv, NEW t \in Task, NEW p \in Player, Roll(t, p)
  PROVE  Began(t) \/ Refused(t)
<1> DEFINE event == RunEvent(model, meta.seed[meta.cursor])
           next == event.state
           effects == event.effects
           m == Spent(meta)
           one == <<Model(next)>>
           fx == effects \o one
           tail == <<Meta(m)>>
<1>1. CASE RefuseAction(t, "roll", p)
  BY <1>1, RefuseActionIs
<1>2. CASE MayAct(p) /\ Start(t, "roll", p, Settle(effects, next, m))
  <2>1. /\ meta # NoMeta /\ ~Terminal(meta.phase) /\ meta.phase # "none" /\ meta.seed \in Seeds /\ model \in Boards
        /\ meta \in Metas /\ Seated = ToSet(meta.members) /\ AtRest
        /\ Uninterrupted => meta.deadline = FALSE
    BY <1>2, MayActIs, NowIs DEF Start, Free, AtRest
  <2>2. Mode = "table" /\ meta.cursor < MaxRolls
    BY <1>2 DEF Roll
  <2>3. model \in Books
    BY <2>1, <2>2 DEF Boards
  <2>4. meta.cursor \in 0 .. MaxRolls /\ meta.cursor \in 0 .. MaxRolls - 1 /\ meta.cursor + 1 \in 0 .. MaxRolls
    <3>1. meta.cursor \in 0 .. MaxRolls
      BY <2>1 DEF Metas
    <3>2. QED
      BY <2>2, <3>1, FaultAssumption
  <2>5. meta.seed[meta.cursor] \in Outcome
    BY <2>1, <2>4 DEF Seeds
  <2>6. /\ m \in Metas /\ m.phase = meta.phase /\ m.members = meta.members /\ m.seed = meta.seed
        /\ m.deadline = meta.deadline
    BY <2>1, <2>4 DEF Spent, Metas
  <2>7. /\ next \in Books /\ next.betSeq = model.betSeq /\ Bets(next) = Carried(meta.seed[meta.cursor], Bets(model))
        /\ effects \in Seq(Effects) /\ Clears(model.betSeq, Bets(model), effects, Bets(next))
    BY <2>3, <2>5, RunEventIs
  <2>8. Bets(next) \subseteq Bets(model)
    BY <2>7 DEF Carried
  <2> HIDE DEF effects, next, m
  <2>9. QuietList(fx) /\ Covered(fx) /\ Clears(model.betSeq, Bets(model), fx, Bets(next))
    BY <2>2, <2>3, <2>7, ThenBook
  <2>10. Settle(effects, next, m) = fx \o tail
    <3>1. Model(next) \in Writes \cup Effects /\ Meta(m) \in Writes \cup Effects
      BY <2>2, <2>6, <2>7 DEF Model, Meta, Writes, Boards
    <3>2. ASSUME NEW a \in Writes \cup Effects, NEW b \in Writes \cup Effects
          PROVE  /\ <<a>> \in Seq(Writes \cup Effects) /\ <<b>> \in Seq(Writes \cup Effects)
                 /\ <<a>> \o <<b>> = <<a, b>>
      <4> DEFINE S == Writes \cup Effects
      <4>1. a \in S /\ b \in S
        OBVIOUS
      <4> HIDE DEF S
      <4>2. <<a>> \in Seq(S) /\ <<b>> \in Seq(S)
        BY <4>1
      <4>3. <<a>> \o <<b>> = <<a, b>>
        BY <4>1, PairIs
      <4>4. QED
        BY <4>2, <4>3 DEF S
    <3>3. one \in Seq(Writes \cup Effects) /\ tail \in Seq(Writes \cup Effects)
      BY <3>1, <3>2
    <3>4. one \o tail = <<Model(next), Meta(m)>>
      BY <3>1, <3>2
    <3>5. effects \in Seq(Writes \cup Effects)
      BY <2>7
    <3>6. Settle(effects, next, m) = effects \o (one \o tail)
      BY <3>4 DEF Settle
    <3> HIDE DEF one, tail
    <3>7. effects \o (one \o tail) = (effects \o one) \o tail
      BY <3>3, <3>5, ConcatAssociative
    <3>8. QED
      BY <3>6, <3>7
  <2>11. tail \in Goings(m)
    BY DEF Goings
  <2> HIDE DEF fx, tail
  <2>12. /\ Joined(fx, tail, fx \o tail)
         /\ \A i \in DOMAIN tail : tail[i].do \in {"meta", "list"} /\ tail[i].meta = m
    BY <2>6, <2>9, <2>11, GoingPlan
  <2>13. ASSUME Uninterrupted
         PROVE  Settling(fx \o tail)
    <3>1. {b1.user : b1 \in Bets(next)} \subseteq ToSet(m.members)
      BY <2>1, <2>3, <2>6, <2>8, <2>13, AtEase
    <3>2. ~Terminal(m.phase)
      BY <2>1, <2>6
    <3>3. \A i \in DOMAIN tail :
            /\ tail[i].do \in Closing
            /\ tail[i].do = "meta" => /\ {b1.user : b1 \in Bets(next)} \subseteq ToSet(tail[i].meta.members)
                                      /\ Terminal(tail[i].meta.phase) => Bets(next) = {}
      BY <2>12, <3>1, <3>2 DEF Closing
    <3>4. QED
      BY <2>1, <2>3, <2>9, <2>12, <2>13, <3>3, ClearingSettles
  <2>14. "roll" \in Ops /\ p \in Whos /\ "roll" # "leave"
    BY DEF Ops, Whos
  <2>15. Start(t, "roll", p, fx \o tail)
    BY <1>2, <2>10
  <2>16. /\ ~Terminal(m.phase) /\ m.phase # "none" /\ m.seed \in Seeds /\ Seated \subseteq ToSet(m.members)
         /\ Uninterrupted => m.deadline = FALSE
    BY <2>1, <2>6
  <2>17. Began(t)
    BY <2>1, <2>6, <2>9, <2>11, <2>13, <2>14, <2>15, <2>16, GoingBegins
  <2>18. QED
    BY <2>17
<1>3. QED
  BY <1>1, <1>2 DEF Roll

LEMMA LeaveBegins ==
  ASSUME IInv, NEW t \in Task, NEW p \in Player, Leave(t, p)
  PROVE  Began(t) \/ Refused(t)
<1> DEFINE members == Keeping(meta.members, ToSet(meta.members) \ {p})
           m == With(meta.phase, members)
           seat == OnLeave(model, p)
           effects == seat.effects
           next == seat.state
           fx == effects \o <<Model(next)>>
           ends == CommitTerminal("resolved", m)
           on == <<List(m), Meta(m)>>
           tail == IF m.members = << >> THEN ends ELSE on
<1>1. CASE Refuse(t, "leave", p, "departed") \/ Refuse(t, "leave", p, "done")
  BY <1>1, RefusedIs
<1>2. CASE ~Terminal(meta.phase) /\ Start(t, "leave", p, fx \o tail)
  <2>1. Mode = "table" /\ Mode # "match" /\ meta # NoMeta /\ AtRest
    BY <1>2 DEF Leave, Start, Free, AtRest
  <2>2. /\ meta \in Metas /\ meta.members \in Seq(Player) /\ Len(meta.members) <= Seats /\ Seated = ToSet(meta.members)
        /\ meta.phase # "none" /\ meta.seed \in Seeds /\ model \in Books
        /\ Uninterrupted => meta.deadline = FALSE
    BY <2>1, NowIs DEF Played, Boards
  <2>3. /\ members \in Seq(Player) /\ ToSet(members) = Seated \ {p} /\ Len(members) <= Seats
    <3>1. /\ members \in Seq(Player) /\ ToSet(members) = ToSet(meta.members) \cap (ToSet(meta.members) \ {p})
          /\ Len(members) <= Len(meta.members)
      BY <2>2, KeepingIs
    <3>2. Len(members) \in Nat /\ Len(meta.members) \in Nat /\ Seats \in Nat
      BY <2>2, <3>1, ModeAssumption
    <3> HIDE DEF members
    <3>3. Len(members) <= Seats
      BY <2>2, <3>1, <3>2
    <3>4. ToSet(members) = Seated \ {p}
      BY <2>2, <3>1
    <3>5. QED
      BY <3>1, <3>3, <3>4
  <2> HIDE DEF members
  <2>4. meta.phase \in Phase
    BY <2>2 DEF Metas
  <2>5. /\ m \in Metas /\ m.phase = meta.phase /\ m.members = members /\ m.seed = meta.seed
        /\ m.deadline = meta.deadline
    BY <2>2, <2>3, <2>4, WithIs
  <2> HIDE DEF m
  <2>6. /\ next \in Books /\ next.betSeq = model.betSeq /\ Bets(next) = Bets(model) \ Own(model, p)
        /\ effects \in Seq(Effects) /\ Clears(model.betSeq, Bets(model), effects, Bets(next))
    BY <2>2, OnLeaveIs, LeavingClears
  <2>7. Bets(next) \subseteq Bets(model) /\ \A b \in Bets(next) : b.user # p
    BY <2>6 DEF Own
  <2> HIDE DEF effects, next, seat
  <2>8. QuietList(fx) /\ Covered(fx) /\ Clears(model.betSeq, Bets(model), fx, Bets(next))
    BY <2>1, <2>2, <2>6, ThenBook
  <2>9. fx \in Seq(Writes \cup Effects)
    BY <2>8 DEF QuietList
  <2> HIDE DEF fx
  <2>10. Uninterrupted => {b1.user : b1 \in Bets(next)} \subseteq ToSet(m.members)
    BY <2>1, <2>2, <2>3, <2>5, <2>7, AtEase
  <2>11. "leave" \in Ops /\ p \in Whos
    BY DEF Ops, Whos
  <2>12. Seated \ {p} \subseteq ToSet(m.members) /\ m.phase # "none" /\ m.seed \in Seeds
    BY <2>2, <2>3, <2>5
  <2>13. CASE m.members = << >>
    <3>1. "resolved" \in Statuses /\ IsEnd(ends, 2, "resolved", m, p)
      BY <2>5, EndTails DEF Statuses
    <3>2. Start(t, "leave", p, fx \o ends)
      BY <1>2, <2>13
    <3> HIDE DEF ends
    <3>3. ASSUME Uninterrupted
          PROVE  Settling(fx \o ends)
      <4>1. ends \in Seq(Writes)
        BY <3>1 DEF IsEnd
      <4>2. ends \in Seq(Writes \cup Effects)
        BY <4>1
      <4>3. Joined(fx, ends, fx \o ends)
        BY <2>9, <4>2, JoinedIs
      <4>4. Bets(next) = {}
        <5>1. ToSet(m.members) = {}
          BY <2>13 DEF ToSet
        <5>2. QED
          BY <2>10, <3>3, <5>1
      <4>5. \A i \in DOMAIN ends : ends[i].do \in Closing
        <5>1. \A i \in DOMAIN ends : ends[i].do \in {"unlist", "meta", "outcome", "disarm", "result", "publish", "key"}
          BY <3>1, EndTail
        <5>2. QED
          BY <5>1 DEF Closing
      <4>6. \A i \in DOMAIN ends :
              /\ ends[i].do \in Closing
              /\ ends[i].do = "meta" => /\ {b1.user : b1 \in Bets(next)} \subseteq ToSet(ends[i].meta.members)
                                        /\ Terminal(ends[i].meta.phase) => Bets(next) = {}
        BY <4>4, <4>5
      <4>7. QED
        BY <2>1, <2>2, <2>8, <3>3, <4>3, <4>6, ClearingSettles
    <3>4. Began(t)
      BY <1>2, <2>1, <2>5, <2>8, <2>11, <2>12, <3>1, <3>2, <3>3, EndingBegins
    <3>5. QED
      BY <3>4
  <2>14. CASE m.members # << >>
    <3>1. on \in Goings(m) /\ Start(t, "leave", p, fx \o on)
      BY <1>2, <2>14 DEF Goings
    <3> HIDE DEF on
    <3>2. /\ Joined(fx, on, fx \o on)
          /\ \A i \in DOMAIN on : on[i].do \in {"meta", "list"} /\ on[i].meta = m
      BY <2>5, <2>8, <3>1, GoingPlan
    <3>3. ~Terminal(m.phase)
      BY <1>2, <2>5
    <3>4. ASSUME Uninterrupted
          PROVE  Settling(fx \o on)
      <4>1. \A i \in DOMAIN on :
              /\ on[i].do \in Closing
              /\ on[i].do = "meta" => /\ {b1.user : b1 \in Bets(next)} \subseteq ToSet(on[i].meta.members)
                                      /\ Terminal(on[i].meta.phase) => Bets(next) = {}
        BY <2>10, <3>2, <3>3, <3>4 DEF Closing
      <4>2. QED
        BY <2>1, <2>2, <2>8, <3>2, <3>4, <4>1, ClearingSettles
    <3>5. Played(m) => model \in Boards
      BY <2>1, <2>2 DEF Boards
    <3>6. Uninterrupted => m.deadline = FALSE
      BY <2>2, <2>5
    <3>7. Began(t)
      BY <1>2, <2>5, <2>8, <2>11, <2>12, <3>1, <3>3, <3>4, <3>5, <3>6, GoingBegins
    <3>8. QED
      BY <3>7
  <2>15. QED
    BY <2>13, <2>14
<1>3. QED
  BY <1>1, <1>2 DEF Leave

LEMMA BetBegins ==
  ASSUME IInv, NEW t \in Task, NEW p \in Player, NEW n \in Amount, NEW data \in BetData, PlaceABet(t, p, n, data)
  PROVE  Began(t) \/ Refused(t)
<1> DEFINE bet == PlaceBet(model, p, n, data)
           ref == BetRef[model.betSeq]
           next == bet.state
           hold == Hold(p, n, ref)
           fx == <<hold>> \o <<Model(next)>>
           tail == <<Meta(meta)>>
           todo == fx \o tail
<1>1. CASE RefuseAction(t, "bet", p) \/ Refuse(t, "bet", p, "invalid_transition")
  BY <1>1, RefuseActionIs, RefusedIs
<1>2. CASE MayAct(p) /\ Start(t, "bet", p, Settle(bet.effects, next, meta))
  <2>1. /\ meta # NoMeta /\ ~Terminal(meta.phase) /\ meta.phase # "none" /\ meta.seed \in Seeds /\ model \in Boards
        /\ meta \in Metas /\ Seated = ToSet(meta.members) /\ AtRest /\ p \in Seated
        /\ Uninterrupted => meta.deadline = FALSE
    BY <1>2, MayActIs, NowIs DEF Start, Free, AtRest
  <2>2. Mode = "table" /\ model.betSeq < MaxBets
    BY <1>2 DEF PlaceABet
  <2>3. model \in Books
    BY <2>1, <2>2 DEF Boards
  <2>4. /\ next \in Books /\ next.betSeq = model.betSeq + 1
        /\ Bets(next) = Bets(model) \cup {Bet(p, ref, n, data)}
        /\ bet.effects = <<hold>> /\ hold \in Effects
        /\ ref \notin RefsTo(model.betSeq) /\ ref \in RefsTo(model.betSeq + 1)
        /\ RefsTo(model.betSeq) \subseteq RefsTo(model.betSeq + 1)
    BY <2>2, <2>3, PlaceBetIs
  <2> DEFINE S == Writes \cup Effects
  <2>5. Model(next) \in S /\ Meta(meta) \in S /\ hold \in S /\ Model(next).do = "model" /\ Model(next).state = next
    BY <2>1, <2>2, <2>4 DEF Model, Meta, Writes, Boards
  <2>6. hold.do = "hold" /\ hold.user = p /\ hold.amount = n /\ hold.ref = ref
    BY DEF Hold
  <2>7. Meta(meta).do = "meta" /\ Meta(meta).meta = meta
    BY DEF Meta
  <2> HIDE DEF hold, next, ref, S
  <2>8. <<hold>> \in Seq(S) /\ <<Model(next)>> \in Seq(S) /\ tail \in Seq(S)
    BY <2>5
  <2>9. Settle(bet.effects, next, meta) = todo
    <3>1. <<Model(next)>> \o tail = <<Model(next), Meta(meta)>>
      BY <2>5, PairIs
    <3>2. Settle(bet.effects, next, meta) = <<hold>> \o (<<Model(next)>> \o tail)
      BY <2>4, <3>1 DEF Settle
    <3> HIDE DEF tail
    <3>3. <<hold>> \o (<<Model(next)>> \o tail) = (<<hold>> \o <<Model(next)>>) \o tail
      BY <2>8, ConcatAssociative
    <3>4. QED
      BY <3>2, <3>3
  <2>10. fx = <<hold, Model(next)>>
    BY <2>5, PairIs
  <2>11. DOMAIN fx = {1, 2} /\ fx[1] = hold /\ fx[2] = Model(next) /\ fx \in Seq(S)
    <3>1. <<hold, Model(next)>> \in Seq(S)
      BY <2>5
    <3>2. QED
      BY <2>10, <3>1
  <2> HIDE DEF fx
  <2>12. QuietList(fx)
    BY <2>2, <2>5, <2>6, <2>11 DEF QuietList, Quiet, S
  <2>13. tail \in Goings(meta)
    BY DEF Goings
  <2>14. /\ Joined(fx, tail, todo)
         /\ \A i \in DOMAIN tail : tail[i].do \in {"meta", "list"} /\ tail[i].meta = meta
    BY <2>1, <2>12, <2>13, GoingPlan
  <2>15. Len(fx) = 2 /\ DOMAIN tail = {1} /\ tail[1] = Meta(meta)
    BY <2>11, <2>14 DEF Joined
  <2>16. DOMAIN todo = {1, 2, 3} /\ todo[1] = hold /\ todo[2] = Model(next) /\ todo[3] = Meta(meta)
    <3>1. DOMAIN todo = 1 .. 3
      <4>1. Len(tail) = 1
        OBVIOUS
      <4>2. QED
        BY <2>14, <2>15, <4>1 DEF Joined
    <3>2. todo[1] = fx[1] /\ todo[2] = fx[2] /\ todo[1 + 2] = tail[1]
      BY <2>11, <2>14, <2>15 DEF Joined
    <3>3. QED
      BY <2>11, <2>15, <3>1, <3>2
  <2> HIDE DEF todo
  <2>17. ASSUME Uninterrupted
         PROVE  Settling(todo)
    <3>1. /\ Tickets(model) = Reserved /\ DOMAIN db.holds \subseteq RefsTo(model.betSeq)
          /\ \A b \in Bets(model) : b.user \in Seated
      BY <2>1, <2>3, <2>17, AtEase
    <3>2. /\ Doing(todo, "hold") = {1} /\ Doing(todo, "model") = {2} /\ Doing(todo, "meta") = {3}
          /\ Doing(todo, "credit") = {} /\ \A i \in DOMAIN todo : todo[i].do \notin {"release", "capture"}
      BY <2>5, <2>6, <2>7, <2>16 DEF Doing
    <3>3. \A i : Undone(todo, i) = {}
      BY <3>2 DEF Undone
    <3>4. Placed(todo, 2) = {<<p, ref, n>>} /\ Placed(todo, 3) = {<<p, ref, n>>}
      <4>1. ASSUME NEW i \in {2, 3}
            PROVE  Placed(todo, i) = {<<p, ref, n>>}
        <5>1. {k \in Doing(todo, "hold") : k < i} = {1}
          BY <3>2
        <5>2. QED
          BY <2>6, <2>16, <5>1 DEF Placed
      <4>2. QED
        BY <4>1
    <3>5. Due(todo, 2) = Reserved \cup {<<p, ref, n>>} /\ Due(todo, 3) = Reserved \cup {<<p, ref, n>>}
      BY <3>3, <3>4 DEF Due
    <3>6. Tickets(next) = Due(todo, 2)
      <4>1. Bet(p, ref, n, data).user = p /\ Bet(p, ref, n, data).ref = ref /\ Bet(p, ref, n, data).amount = n
        BY DEF Bet
      <4>2. Bets(next) = Bets(model) \cup {Bet(p, ref, n, data)}
        BY <2>4 DEF ref
      <4>3. Tickets(next) = Tickets(model) \cup {<<p, ref, n>>}
        BY <4>1, <4>2 DEF Tickets
      <4>4. QED
        BY <3>1, <3>5, <4>3
    <3>7. DOMAIN db.holds \subseteq RefsTo(next.betSeq) /\ ref \in RefsTo(next.betSeq)
      BY <2>4, <3>1 DEF ref
    <3>8. Ending(todo) = {}
      BY <2>1, <2>7, <2>16, <3>2 DEF Ending
    <3>9. {x[1] : x \in Due(todo, 3)} \subseteq Seated
      <4>1. \A x \in Reserved : x[1] \in Seated
        <5>1. \A b \in Bets(model) : <<b.user, b.ref, b.amount>>[1] = b.user
          OBVIOUS
        <5>2. QED
          BY <3>1, <5>1 DEF Tickets
      <4>2. <<p, ref, n>>[1] = p
        OBVIOUS
      <4>3. QED
        BY <2>1, <3>5, <4>1, <4>2
    <3>10. \A i \in DOMAIN todo : IsEffect(todo[i]) => i = 1
      <4>1. ~IsEffect(todo[2]) /\ ~IsEffect(todo[3])
        BY <2>5, <2>7, <2>16 DEF IsEffect
      <4>2. QED
        BY <2>16, <4>1
    <3>11. \A i \in DOMAIN todo : IsEffect(todo[i]) => \E j \in Doing(todo, "model") : i < j
      BY <3>2, <3>10
    <3>12. \A i \in Doing(todo, "model") : /\ Tickets(todo[i].state) = Due(todo, i)
                                           /\ DOMAIN db.holds \subseteq RefsTo(todo[i].state.betSeq)
      BY <2>5, <2>16, <3>2, <3>6, <3>7
    <3>13. \A i \in Doing(todo, "hold") :
             /\ i = 1 /\ model \in Books /\ model.betSeq < MaxBets /\ todo[i].ref = BetRef[model.betSeq]
             /\ ~Terminal(meta.phase)
             /\ todo[i].user \in Seated
             /\ \A j \in Doing(todo, "model") : todo[i].ref \in RefsTo(todo[j].state.betSeq)
      BY <2>1, <2>2, <2>3, <2>5, <2>6, <2>16, <3>2, <3>7 DEF ref
    <3>14. \A i \in Doing(todo, "meta") : {x[1] : x \in Due(todo, i)} \subseteq ToSet(todo[i].meta.members)
      BY <2>1, <2>7, <2>16, <3>2, <3>9
    <3>15. QED
      BY <2>3, <3>1, <3>2, <3>8, <3>11, <3>12, <3>13, <3>14 DEF Settling
  <2>18. "bet" \in Ops /\ p \in Whos /\ "bet" # "leave"
    BY DEF Ops, Whos
  <2>19. Start(t, "bet", p, fx \o tail) /\ (Uninterrupted => Settling(fx \o tail) /\ meta.deadline = FALSE)
    BY <1>2, <2>1, <2>9, <2>17 DEF todo
  <2>20. Seated \subseteq ToSet(meta.members)
    BY <2>1
  <2> HIDE DEF tail
  <2>21. Began(t)
    BY <2>1, <2>12, <2>13, <2>18, <2>19, <2>20, GoingBegins
  <2>22. QED
    BY <2>21
<1>3. QED
  BY <1>1, <1>2 DEF PlaceABet

-----------------------------------------------------------------------------
(* A write is done, or throws *)

LEMMA ThrownKeeps == ASSUME IInv, NEW t \in Task, Thrown(t) PROVE IInv'
<1> DEFINE a == run[t].todo
           h == a[1]
<1>1. /\ a \in Plans /\ a # << >> /\ h \in Writes \cup Effects /\ IsEffect(h) /\ EffectError(h) # "none"
      /\ reply'.answer = EffectError(h) /\ run' = [run EXCEPT ![t] = NoTask] /\ SameStores
      /\ alarm' = alarm /\ faults' = faults
  BY DEF Thrown, Throws, Stored, SameStores
<1>2. run \in [Task -> Tasks] /\ alarm \in BOOLEAN /\ faults \in Nat
      /\ \A u, v \in Task : run[u] # NoTask /\ run[v] # NoTask => u = v
  BY DEF IInv, Inv, Shape, Serial
<1>3. run' \in [Task -> Tasks] /\ (\A u \in Task : run'[u] = run[u] \/ run'[u] = NoTask)
      /\ \A u, v \in Task : run'[u] # NoTask /\ run'[v] # NoTask => u = v
  BY <1>1, <1>2, Idle
<1>4. ASSUME Uninterrupted
      PROVE  reply'.answer # "hold_not_open" /\ Settling(<< >>)
  <2>1. Table /\ Settling(a)
    BY <1>1, <1>4, Idle DEF IInv, Table
  <2>2. \A what : 1 \in Doing(a, what) <=> h.do = what
    BY <1>1, FirstIs
  <2>3. 1 \in DOMAIN a
    BY <1>1, PlanIs
  <2> HIDE DEF a, h
  <2>4. h.do \in {"release", "capture"} => h.ref \in OpenHolds
    BY <2>1, <2>3 DEF Settling, h
  <2>5. h.do = "hold" /\ EffectError(h) = "insufficient_funds"
    BY <1>1, <2>4 DEF IsEffect, EffectError, HoldError, OpenHolds
  <2>6. Doing(a, "hold") # {}
    BY <2>2, <2>5
  <2>7. IF model \in Books THEN Tickets(model) = Reserved /\ DOMAIN db.holds \subseteq RefsTo(model.betSeq)
                           ELSE DOMAIN db.holds = {}
    BY <2>1, <2>6 DEF Settling
  <2>8. Settling(<< >>)
    <3>1. DOMAIN << >> = {} /\ Ending(<< >>) = {} /\ \A what : Doing(<< >>, what) = {}
      BY Idle
    <3>2. QED
      BY <2>7, <3>1 DEF Settling
  <2>9. QED
    BY <1>1, <2>5, <2>8
<1>5. QED
  BY <1>1, <1>2, <1>3, <1>4, TasksKeep

LEMMA IdleAfter == Orderly(NoTask)'
<1>1. NoTask.todo = << >>
  BY DEF NoTask
<1>2. Doing(<< >>, "meta") = {} /\ \A what : Doing(<< >>, what) = {}
  BY DEF Doing
<1>3. Ending(<< >>)' = {}
  BY <1>2 DEF Ending
<1>4. OnceEach(NoTask.todo)' /\ KeyFits(NoTask)'
  BY <1>1, <1>2 DEF OnceEach, KeyFits
<1>5. MetaFits(NoTask)' /\ ListFits(NoTask.todo)'
  BY <1>1, <1>2 DEF MetaFits, ListFits
<1>6. EndFits(NoTask.todo)'
  BY <1>1, <1>3 DEF EndFits
<1>7. OutcomeFits(NoTask.todo)' /\ PublishFits(NoTask.todo)' /\ ResultFits(NoTask.todo)'
  BY <1>1, <1>2 DEF OutcomeFits, PublishFits, ResultFits
<1>8. QED
  BY <1>4, <1>5, <1>6, <1>7 DEF Orderly

LEMMA OnwardInv == ASSUME Inv, NEW t \in Task, NEW v, Onward(t, v) PROVE Inv'
<1>1. Shape /\ Order
  BY DEF Inv
<1>2. Orderly(v)' /\ EndedInOrder' /\ (~Terminal(meta.phase) => storage.outcome = "none")'
  BY <1>1, StepOrder
<1>3. Shape'
  BY <1>1, StepShape
<1>4. run' = [run EXCEPT ![t] = v] /\ (\A u \in Task : u # t => run[u] = NoTask) /\ run \in [Task -> Tasks]
  BY <1>1 DEF Onward, Shape
<1>5. run'[t] = v /\ \A u \in Task : u # t => run'[u] = NoTask
  BY <1>4
<1>6. Serial'
  BY <1>5 DEF Serial
<1>7. ASSUME NEW u \in Task
      PROVE  Orderly(run[u])'
  <2>1. CASE u = t
    <3>1. v = run'[u]
      BY <1>5, <2>1
    <3>2. QED
      BY <1>2, <3>1, OrderlyOf
  <2>2. CASE u # t
    <3>1. NoTask = run'[u]
      BY <1>5, <2>2
    <3>2. QED
      BY <3>1, IdleAfter, OrderlyOf
  <2>3. QED
    BY <2>1, <2>2
<1>8. QED
  BY <1>2, <1>3, <1>6, <1>7 DEF Inv, Order

-----------------------------------------------------------------------------
(* What a write of an uninterrupted table does to the ledger *)

\* No ref of one bet is a ref of another, or of a deposit.
LEMMA RefsAre ==
  ASSUME NEW r \in RefsTo(MaxBets), NEW s \in RefsTo(MaxBets)
  PROVE  /\ WinRef[r] # s /\ Derived(r, "resolve") # s /\ Derived(r, "resolve") # WinRef[s]
         /\ WinRef[r] = WinRef[s] => r = s
         /\ Derived(r, "resolve") = Derived(s, "resolve") => r = s
         /\ r \notin Deposited /\ WinRef[r] \notin Deposited /\ Derived(r, "resolve") \notin Deposited
<1>1. PICK m \in 0 .. MaxBets - 1 : r = BetRef[m]
  BY DEF RefsTo
<1>2. PICK n \in 0 .. MaxBets - 1 : s = BetRef[n]
  BY DEF RefsTo
<1>3. /\ r # WinRef[r] /\ Derived(r, "resolve") \notin {r, WinRef[r]} /\ s # WinRef[s]
      /\ Derived(s, "resolve") \notin {s, WinRef[s]}
  BY <1>1, <1>2, RefAssumption
<1>4. Minted(m) = {r, WinRef[r], Derived(r, "resolve")} /\ Minted(n) = {s, WinRef[s], Derived(s, "resolve")}
  BY <1>1, <1>2 DEF Minted
<1>5. m # n => Minted(m) \cap Minted(n) = {}
  BY RefAssumption
<1>6. \A p \in User : Deposit[p] \notin Minted(m)
  BY RefAssumption
<1>7. r \notin Deposited /\ WinRef[r] \notin Deposited /\ Derived(r, "resolve") \notin Deposited
  BY <1>4, <1>6 DEF Deposited
<1> HIDE DEF Derived, Minted
<1>8. CASE m = n
  BY <1>1, <1>2, <1>3, <1>7, <1>8
<1>9. CASE m # n
  <2>1. \A x \in {r, WinRef[r], Derived(r, "resolve")} : x \notin {s, WinRef[s], Derived(s, "resolve")}
    BY <1>4, <1>5, <1>9
  <2>2. QED
    BY <1>7, <2>1
<1>10. QED
  BY <1>8, <1>9

\* A batch that touches one account, and then does not.
LEMMA AfterIs ==
  ASSUME NEW d, Sound(d), NEW b, NEW x, NEW m \in Int, NEW n \in Int,
         b.first = Move(x, m, n), b.second = Move(x, 0, 0)
  PROVE  /\ DOMAIN AfterFirst(d, b) = DOMAIN d.accounts \cup b.opens
         /\ AfterSecond(d, b) = AfterFirst(d, b)
         /\ \A a \in DOMAIN d.accounts \cup b.opens :
              LET row == IF a \in DOMAIN d.accounts THEN d.accounts[a] ELSE Zero
              IN AfterFirst(d, b)[a] = [balance |-> row.balance + (IF a = x THEN m ELSE 0),
                                        held |-> row.held + (IF a = x THEN n ELSE 0)]
<1> DEFINE rows == EnsureAccounts(d.accounts, b.opens)
           D == DOMAIN d.accounts \cup b.opens
           first == AfterFirst(d, b)
           moved(a) == [balance |-> rows[a].balance + (IF a = x THEN m ELSE 0),
                        held |-> rows[a].held + (IF a = x THEN n ELSE 0)]
<1>1. DOMAIN rows = D /\ \A a \in D : rows[a] = IF a \in DOMAIN d.accounts THEN d.accounts[a] ELSE Zero
  BY DEF EnsureAccounts
<1>2. \A a \in D : rows[a] \in [balance : Nat, held : Nat]
  BY <1>1 DEF Sound, Zero
<1> HIDE DEF D, rows
<1>3. /\ b.first.account = x /\ b.first.balance = m /\ b.first.held = n
      /\ b.second.account = x /\ b.second.balance = 0 /\ b.second.held = 0
  BY DEF Move
<1>4. DOMAIN first = D /\ \A a \in D : first[a] = moved(a)
  <2>1. first = [a \in D |-> IF a = x THEN [balance |-> rows[a].balance + m, held |-> rows[a].held + n] ELSE rows[a]]
    BY <1>1, <1>3 DEF AfterFirst, Adjust, rows
  <2>2. ASSUME NEW a \in D
        PROVE  first[a] = moved(a)
    <3>1. rows[a] \in [balance : Nat, held : Nat]
      BY <1>2
    <3>2. CASE a = x
      BY <2>1, <3>2
    <3>3. CASE a # x
      <4>1. first[a] = rows[a]
        BY <2>1, <3>3
      <4>2. rows[a] = [balance |-> rows[a].balance + 0, held |-> rows[a].held + 0]
        BY <3>1
      <4>3. QED
        BY <3>3, <4>1, <4>2
    <3>4. QED
      BY <3>2, <3>3
  <2>3. DOMAIN first = D
    BY <2>1
  <2>4. QED
    BY <2>2, <2>3
<1>5. \A a \in D : first[a] \in [balance : Int, held : Int]
  BY <1>2, <1>4
<1>6. AfterSecond(d, b) = first
  <2>1. AfterSecond(d, b) = [a \in D |-> IF a = x THEN [balance |-> first[a].balance + 0, held |-> first[a].held + 0]
                                                  ELSE first[a]]
    BY <1>3, <1>4 DEF AfterSecond, Adjust
  <2>2. first = [a \in D |-> first[a]]
    BY <1>4 DEF AfterFirst, Adjust
  <2> HIDE DEF first
  <2>3. \A a \in D : (IF a = x THEN [balance |-> first[a].balance + 0, held |-> first[a].held + 0] ELSE first[a]) = first[a]
    BY <1>5
  <2>4. QED
    BY <2>1, <2>2, <2>3
<1>7. QED
  BY <1>1, <1>4, <1>6 DEF D

LEMMA RowIs == ASSUME NEW ref, NEW row PROVE DOMAIN Row(ref, row) = {ref} /\ Row(ref, row)[ref] = row
BY DEF Row

LEMMA InsertRow ==
  ASSUME NEW rows, NEW ref, NEW row
  PROVE  /\ DOMAIN Insert(rows, Row(ref, row)) = DOMAIN rows \cup {ref}
         /\ \A r \in DOMAIN rows : Insert(rows, Row(ref, row))[r] = rows[r]
         /\ ref \notin DOMAIN rows => Insert(rows, Row(ref, row))[ref] = row
<1>1. DOMAIN Row(ref, row) = {ref} /\ Row(ref, row)[ref] = row
  BY RowIs
<1>2. QED
  BY <1>1 DEF Insert

LEMMA InsertNone ==
  ASSUME NEW rows
  PROVE  /\ DOMAIN NoRows = {}
         /\ DOMAIN Insert(rows, NoRows) = DOMAIN rows /\ \A r \in DOMAIN rows : Insert(rows, NoRows)[r] = rows[r]
BY DEF Insert, NoRows

LEMMA SettleNone ==
  ASSUME NEW rows
  PROVE  DOMAIN SettleHold(rows, NoRows) = DOMAIN rows /\ \A r \in DOMAIN rows : SettleHold(rows, NoRows)[r] = rows[r]
<1>1. DOMAIN NoRows = {}
  BY InsertNone
<1>2. QED
  BY <1>1 DEF SettleHold

\* What a write gives to and takes from what is held on an account.
Gives(h, a) == IF h.do = "hold" /\ a = Purse(h.user) THEN h.amount ELSE 0

Takes(h, a) == IF Undoes(h) /\ a = db.holds[h.ref].account THEN db.holds[h.ref].amount ELSE 0

Settles(h) == IF h.do = "release" THEN "released" ELSE "captured"

HoldsMove(h) ==
  /\ DOMAIN db'.holds = DOMAIN db.holds \cup (IF h.do = "hold" THEN {h.ref} ELSE {})
  /\ \A r \in DOMAIN db.holds :
       db'.holds[r] = IF Undoes(h) /\ r = h.ref THEN [db.holds[r] EXCEPT !.status = Settles(h)] ELSE db.holds[r]
  /\ h.do = "hold" => /\ h.ref \notin DOMAIN db.holds /\ db'.holds[h.ref] = NewHold(Purse(h.user), h.amount)
                      /\ h.ref \in RefsTo(MaxBets) /\ h.user \in Player
  /\ Undoes(h) => h.ref \in OpenHolds

Logs(h) ==
  IF h.do \in {"hold", "credit"} THEN {h.ref} ELSE IF Undoes(h) THEN {Derived(h.ref, "resolve")} ELSE {}

EntriesMove(h) ==
  /\ DOMAIN db'.entries = DOMAIN db.entries \cup Logs(h)
  /\ \A r \in DOMAIN db.entries : db'.entries[r] = db.entries[r]
  /\ h.do = "credit" /\ h.ref \notin DOMAIN db.entries =>
       db'.entries[h.ref] = NewEntry(Purse(h.user), "credit", h.amount, NoRef)

HeldOn(a) == IF a \in DOMAIN db.accounts THEN db.accounts[a].held ELSE 0

AccountsMove(h) ==
  /\ DOMAIN db'.accounts = DOMAIN db.accounts \cup (IF h.do = "hold" THEN {Purse(h.user)} ELSE {})
  /\ \A a \in DOMAIN db'.accounts : db'.accounts[a].held = HeldOn(a) + Gives(h, a) - Takes(h, a)

Moves(h) == HoldsMove(h) /\ EntriesMove(h) /\ AccountsMove(h)

LEMMA StillMoves ==
  ASSUME Sound(db), NEW h, ~IsEffect(h), db' = db
  PROVE  Moves(h)
<1>1. h.do \notin {"hold", "credit"} /\ ~Undoes(h)
  BY DEF IsEffect, Undoes
<1>2. \A a : Gives(h, a) = 0 /\ Takes(h, a) = 0
  BY <1>1 DEF Gives, Takes
<1>3. \A a \in DOMAIN db.accounts : db.accounts[a].held \in Nat
  BY DEF Sound
<1>4. \A a \in DOMAIN db.accounts : db.accounts[a].held = HeldOn(a) + 0 - 0
  BY <1>3 DEF HeldOn
<1>5. AccountsMove(h)
  BY <1>1, <1>2, <1>4 DEF AccountsMove
<1>6. HoldsMove(h)
  BY <1>1 DEF HoldsMove
<1>7. EntriesMove(h)
  BY <1>1 DEF EntriesMove, Logs
<1>8. QED
  BY <1>5, <1>6, <1>7 DEF Moves

LEMMA HoldMoves ==
  ASSUME Sound(db), Ledgered, NEW op, NEW h, h.do = "hold", h.user \in Player, h.amount \in Amount,
         h.ref \in RefsTo(MaxBets), h.ref \notin DOMAIN db.holds, ~Throws(op, h), db' = Settled(h)
  PROVE  Moves(h)
<1> DEFINE x == Purse(h.user)
           n == h.amount
           ref == h.ref
           b == HoldBatch(x, n, ref)
<1>1. EffectBatch(h) = b /\ IsEffect(h)
  BY DEF EffectBatch, IsEffect
<1>2. /\ b.opens = {x} /\ b.entries = Row(ref, NewEntry(x, "hold", n, NoRef)) /\ b.places = Row(ref, NewHold(x, n))
      /\ b.settles = NoRows /\ b.first = Move(x, 0, n) /\ b.second = Move(x, 0, 0)
  BY DEF HoldBatch
<1>3. n \in Nat /\ n \in Int
  BY AmountAssumption
<1> HIDE DEF b, x
<1>4. /\ DOMAIN db.holds \subseteq RefsTo(MaxBets)
      /\ DOMAIN db.entries \subseteq Deposited \cup DOMAIN db.holds \cup {WinRef[r] : r \in DOMAIN db.holds}
                                     \cup {Derived(r, "resolve") : r \in DOMAIN db.holds \ OpenHolds}
  BY DEF Ledgered
<1>5. ref \notin DOMAIN db.entries
  <2>1. \A r \in DOMAIN db.holds : ref # WinRef[r] /\ ref # Derived(r, "resolve")
    BY <1>4, RefsAre
  <2>2. ref \notin Deposited
    BY RefsAre
  <2>3. QED
    BY <1>4, <2>1, <2>2
<1>6. ~Duplicate(db, b)
  <2>1. DOMAIN b.entries = {ref}
    BY <1>2 DEF Row
  <2>2. DOMAIN b.places = {ref}
    BY <1>2 DEF Row
  <2>3. QED
    BY <1>5, <2>1, <2>2 DEF Duplicate
<1>7. EffectError(h) = "none" /\ Verdict(db, b) # "CHECK"
  <2>1. EffectError(h) = IF Verdict(db, b) = "CHECK" THEN "insufficient_funds" ELSE "none"
    BY <1>1 DEF EffectError
  <2>2. QED
    BY <1>1, <2>1 DEF Throws, Forgives
<1>8. Verdict(db, b) = "applied"
  BY <1>6, <1>7 DEF Verdict
<1>9. db' = Applied(db, b)
  BY <1>1, <1>7, <1>8 DEF Settled, Run
<1>10. /\ db'.accounts = AfterSecond(db, b) /\ db'.entries = Insert(db.entries, b.entries)
       /\ db'.holds = Insert(SettleHold(db.holds, b.settles), b.places)
  BY <1>9 DEF Applied
<1>11. HoldsMove(h)
  <2> DEFINE settled == SettleHold(db.holds, NoRows)
  <2>1. DOMAIN settled = DOMAIN db.holds /\ \A r \in DOMAIN db.holds : settled[r] = db.holds[r]
    BY SettleNone
  <2> HIDE DEF settled
  <2>2. db'.holds = Insert(settled, Row(ref, NewHold(x, n)))
    BY <1>2, <1>10 DEF settled
  <2>3. /\ DOMAIN db'.holds = DOMAIN db.holds \cup {ref} /\ \A r \in DOMAIN db.holds : db'.holds[r] = db.holds[r]
        /\ db'.holds[ref] = NewHold(x, n)
    <3> DEFINE row == NewHold(x, n)
    <3> HIDE DEF row, ref
    <3>1. /\ DOMAIN Insert(settled, Row(ref, row)) = DOMAIN settled \cup {ref}
          /\ \A r \in DOMAIN settled : Insert(settled, Row(ref, row))[r] = settled[r]
          /\ ref \notin DOMAIN settled => Insert(settled, Row(ref, row))[ref] = row
      BY InsertRow
    <3>2. ref \notin DOMAIN db.holds
      BY DEF ref
    <3>3. db'.holds = Insert(settled, Row(ref, row))
      BY <2>2 DEF row
    <3>4. QED
      BY <2>1, <3>1, <3>2, <3>3 DEF row
  <2>4. ~Undoes(h)
    BY DEF Undoes
  <2>5. QED
    BY <2>3, <2>4 DEF HoldsMove, x
<1>12. EntriesMove(h)
  <2> DEFINE row == NewEntry(x, "hold", n, NoRef)
  <2>0. db'.entries = Insert(db.entries, Row(ref, row))
    BY <1>2, <1>10
  <2> HIDE DEF row, ref
  <2>1. /\ DOMAIN Insert(db.entries, Row(ref, row)) = DOMAIN db.entries \cup {ref}
        /\ \A r \in DOMAIN db.entries : Insert(db.entries, Row(ref, row))[r] = db.entries[r]
        /\ ref \notin DOMAIN db.entries => Insert(db.entries, Row(ref, row))[ref] = row
    BY InsertRow
  <2>2. QED
    BY <2>0, <2>1 DEF EntriesMove, Logs, ref
<1>13. AccountsMove(h)
  <2>1. /\ DOMAIN AfterFirst(db, b) = DOMAIN db.accounts \cup {x}
        /\ AfterSecond(db, b) = AfterFirst(db, b)
        /\ \A a \in DOMAIN db.accounts \cup {x} :
              LET row == IF a \in DOMAIN db.accounts THEN db.accounts[a] ELSE Zero
              IN AfterFirst(db, b)[a] = [balance |-> row.balance + (IF a = x THEN 0 ELSE 0),
                                         held |-> row.held + (IF a = x THEN n ELSE 0)]
    BY <1>2, <1>3, AfterIs
  <2>2. \A a \in DOMAIN db.accounts \cup {x} : AfterFirst(db, b)[a].held = HeldOn(a) + (IF a = x THEN n ELSE 0)
    <3>1. ASSUME NEW a \in DOMAIN db.accounts \cup {x}
          PROVE  AfterFirst(db, b)[a].held = HeldOn(a) + (IF a = x THEN n ELSE 0)
      <4> DEFINE row == IF a \in DOMAIN db.accounts THEN db.accounts[a] ELSE Zero
      <4>1. AfterFirst(db, b)[a] = [balance |-> row.balance + (IF a = x THEN 0 ELSE 0),
                                    held |-> row.held + (IF a = x THEN n ELSE 0)]
        BY <2>1
      <4>2. row.held = HeldOn(a)
        BY DEF HeldOn, Zero
      <4> HIDE DEF row
      <4>3. QED
        BY <4>1, <4>2
    <3>2. QED
      BY <3>1
  <2>3. \A a : Takes(h, a) = 0 /\ Gives(h, a) = IF a = x THEN n ELSE 0
    BY DEF Takes, Gives, Undoes, x
  <2>4. \A a : HeldOn(a) \in Nat
    BY DEF HeldOn, Sound
  <2>5. \A a \in DOMAIN db.accounts \cup {x} : AfterFirst(db, b)[a].held = HeldOn(a) + Gives(h, a) - Takes(h, a)
    <3>1. ASSUME NEW a \in DOMAIN db.accounts \cup {x}
          PROVE  AfterFirst(db, b)[a].held = HeldOn(a) + Gives(h, a) - Takes(h, a)
      <4> DEFINE g == IF a = x THEN n ELSE 0
      <4>1. g \in Nat /\ HeldOn(a) \in Nat
        BY <1>3, <2>4
      <4>2. AfterFirst(db, b)[a].held = HeldOn(a) + g /\ Gives(h, a) = g /\ Takes(h, a) = 0
        BY <2>2, <2>3
      <4> HIDE DEF g
      <4>3. QED
        BY <4>1, <4>2
    <3>2. QED
      BY <3>1
  <2>6. QED
    BY <1>10, <2>1, <2>5 DEF AccountsMove, x
<1>14. QED
  BY <1>11, <1>12, <1>13 DEF Moves

LEMMA AmountIs == ASSUME NEW n \in Amount PROVE n \in Nat /\ n \in Int
BY AmountAssumption

LEMMA CreditMoves ==
  ASSUME Sound(db), Ledgered, NEW h, h.do = "credit", h.user \in Player, h.amount \in Amount,
         Purse(h.user) \in DOMAIN db.accounts, db' = Settled(h)
  PROVE  Moves(h)
<1> DEFINE x == Purse(h.user)
           n == h.amount
           ref == h.ref
           b == PostBatch("credit", x, n, ref)
<1>1. EffectBatch(h) = b /\ EffectError(h) = "none" /\ ~Undoes(h)
  BY DEF EffectBatch, EffectError, Undoes
<1>2. /\ b.opens = {x} /\ b.entries = Row(ref, NewEntry(x, "credit", n, NoRef)) /\ b.places = NoRows
      /\ b.settles = NoRows /\ b.first = Move(x, n, 0) /\ b.second = Move(x, 0, 0)
  BY DEF PostBatch, Signed
<1>3. n \in Nat /\ n \in Int
  BY AmountIs
<1> HIDE DEF b, x
<1>4. db' = Run(db, b)
  BY <1>1 DEF Settled
<1>5. \A a : Takes(h, a) = 0 /\ Gives(h, a) = 0
  BY <1>1 DEF Takes, Gives
<1>6. \A a : HeldOn(a) \in Nat /\ HeldOn(a) = HeldOn(a) + 0 - 0
  BY DEF HeldOn, Sound
<1>7. CASE Duplicate(db, b)
  <2>1. db' = db
    BY <1>4, <1>7 DEF Verdict, Run
  <2>2. ref \in DOMAIN db.entries
    <3>1. DOMAIN b.entries = {ref} /\ DOMAIN b.places = {}
      BY <1>2, InsertNone DEF Row
    <3>2. QED
      BY <1>7, <3>1 DEF Duplicate
  <2>3. HoldsMove(h) /\ EntriesMove(h)
    BY <1>1, <2>1, <2>2 DEF HoldsMove, EntriesMove, Logs
  <2>4. AccountsMove(h)
    BY <1>5, <1>6, <2>1 DEF AccountsMove, HeldOn
  <2>5. QED
    BY <2>3, <2>4 DEF Moves
<1>8. CASE ~Duplicate(db, b)
  <2>0. x \in DOMAIN db.accounts
    BY DEF x
  <2>1. /\ DOMAIN AfterFirst(db, b) = DOMAIN db.accounts
        /\ AfterSecond(db, b) = AfterFirst(db, b)
        /\ \A a \in DOMAIN db.accounts :
              AfterFirst(db, b)[a] = [balance |-> db.accounts[a].balance + (IF a = x THEN n ELSE 0),
                                      held |-> db.accounts[a].held + (IF a = x THEN 0 ELSE 0)]
    <3>1. DOMAIN db.accounts \cup {x} = DOMAIN db.accounts
      BY <2>0
    <3>2. /\ DOMAIN AfterFirst(db, b) = DOMAIN db.accounts \cup {x}
          /\ AfterSecond(db, b) = AfterFirst(db, b)
          /\ \A a \in DOMAIN db.accounts \cup {x} :
                LET row == IF a \in DOMAIN db.accounts THEN db.accounts[a] ELSE Zero
                IN AfterFirst(db, b)[a] = [balance |-> row.balance + (IF a = x THEN n ELSE 0),
                                           held |-> row.held + (IF a = x THEN 0 ELSE 0)]
      BY <1>2, <1>3, AfterIs
    <3>3. ASSUME NEW a \in DOMAIN db.accounts
          PROVE  AfterFirst(db, b)[a] = [balance |-> db.accounts[a].balance + (IF a = x THEN n ELSE 0),
                                         held |-> db.accounts[a].held + (IF a = x THEN 0 ELSE 0)]
      BY <3>1, <3>2
    <3>4. QED
      BY <3>1, <3>2, <3>3
  <2>2. \A a \in DOMAIN db.accounts : db.accounts[a] \in [balance : Nat, held : Nat]
                                      /\ db.accounts[a].held <= db.accounts[a].balance
    BY DEF Sound
  <2>3. \A a \in DOMAIN db.accounts : SolventRow(AfterFirst(db, b)[a]) /\ AfterFirst(db, b)[a].held = HeldOn(a)
    <3>1. ASSUME NEW a \in DOMAIN db.accounts
          PROVE  SolventRow(AfterFirst(db, b)[a]) /\ AfterFirst(db, b)[a].held = HeldOn(a)
      <4> DEFINE g == IF a = x THEN n ELSE 0
                 u == db.accounts[a].balance
                 v == db.accounts[a].held
      <4>1. g \in Nat
        BY <1>3
      <4>2. u \in Nat /\ v \in Nat /\ v <= u /\ HeldOn(a) = v
        BY <2>2 DEF HeldOn
      <4>3. AfterFirst(db, b)[a].balance = u + g /\ AfterFirst(db, b)[a].held = v + 0
        <5>1. AfterFirst(db, b)[a] = [balance |-> u + (IF a = x THEN n ELSE 0), held |-> v + (IF a = x THEN 0 ELSE 0)]
          BY <2>1
        <5>2. (IF a = x THEN 0 ELSE 0) = 0
          OBVIOUS
        <5> HIDE DEF u, v
        <5>3. QED
          BY <5>1, <5>2
      <4> HIDE DEF g, u, v
      <4>4. QED
        BY <4>1, <4>2, <4>3 DEF SolventRow
    <3>2. QED
      BY <3>1
  <2>4. Verdict(db, b) = "applied"
    BY <1>8, <2>1, <2>3 DEF Verdict, Overdrawn
  <2>5. /\ db'.accounts = AfterSecond(db, b) /\ db'.entries = Insert(db.entries, b.entries)
        /\ db'.holds = Insert(SettleHold(db.holds, b.settles), b.places)
    BY <1>4, <2>4 DEF Run, Applied
  <2>6. HoldsMove(h)
    <3> DEFINE settled == SettleHold(db.holds, NoRows)
    <3>1. DOMAIN settled = DOMAIN db.holds /\ \A r \in DOMAIN db.holds : settled[r] = db.holds[r]
      BY SettleNone
    <3> HIDE DEF settled
    <3>2. db'.holds = Insert(settled, NoRows)
      BY <1>2, <2>5 DEF settled
    <3>3. DOMAIN db'.holds = DOMAIN db.holds /\ \A r \in DOMAIN db.holds : db'.holds[r] = db.holds[r]
      <4>1. DOMAIN Insert(settled, NoRows) = DOMAIN settled /\ \A r \in DOMAIN settled : Insert(settled, NoRows)[r] = settled[r]
        BY InsertNone
      <4>2. QED
        BY <3>1, <3>2, <4>1
    <3>4. QED
      BY <1>1, <3>3 DEF HoldsMove
  <2>7. EntriesMove(h)
    <3> DEFINE row == NewEntry(x, "credit", n, NoRef)
    <3>0. db'.entries = Insert(db.entries, Row(ref, row))
      BY <1>2, <2>5
    <3> HIDE DEF row
    <3>1. /\ DOMAIN Insert(db.entries, Row(ref, row)) = DOMAIN db.entries \cup {ref}
          /\ \A r \in DOMAIN db.entries : Insert(db.entries, Row(ref, row))[r] = db.entries[r]
          /\ ref \notin DOMAIN db.entries => Insert(db.entries, Row(ref, row))[ref] = row
      BY InsertRow
    <3>2. QED
      BY <3>0, <3>1 DEF EntriesMove, Logs, x, row
  <2>8. AccountsMove(h)
    BY <1>5, <1>6, <2>1, <2>3, <2>5 DEF AccountsMove
  <2>9. QED
    BY <2>6, <2>7, <2>8 DEF Moves
<1>9. QED
  BY <1>7, <1>8

\* There are no more holds than bets.
LEMMA HoldsFinite == ASSUME NEW S \in SUBSET RefsTo(MaxBets) PROVE IsFiniteSet(S)
<1> DEFINE N == 0 .. MaxBets - 1
           f == [k \in N |-> BetRef[k]]
<1>1. IsFiniteSet(N)
  BY FS_Interval, FaultAssumption
<1>2. f \in Surjection(N, RefsTo(MaxBets))
  BY DEF RefsTo, Surjection
<1> HIDE DEF f, N
<1>3. IsFiniteSet(RefsTo(MaxBets))
  BY <1>1, <1>2, FS_Surjection
<1>4. QED
  BY <1>3, FS_Subset

\* What is reserved on an account covers each of its open holds.
LEMMA HeldCovers ==
  ASSUME Sound(db), Ledgered, NEW ref \in OpenHolds
  PROVE  /\ db.holds[ref].account \in DOMAIN db.accounts
         /\ db.holds[ref].amount <= db.accounts[db.holds[ref].account].held
<1> DEFINE x == db.holds[ref].account
           S == Held(x)
<1>1. ref \in DOMAIN db.holds /\ S \in SUBSET DOMAIN db.holds /\ ref \in S
  BY DEF OpenHolds, Held
<1>2. /\ DOMAIN db.holds \in SUBSET RefsTo(MaxBets) /\ x \in DOMAIN db.accounts
      /\ db.accounts[x].held = SumFunctionOnSet(Stakes, S)
  BY <1>1 DEF Ledgered
<1>3. \A r \in DOMAIN db.holds : Stakes[r] = db.holds[r].amount /\ Stakes[r] \in Nat
  BY AmountAssumption DEF Stakes, Sound, HoldRows
<1>4. IsFiniteSet(S) /\ IsFiniteSet(S \ {ref}) /\ \A r \in S : Stakes[r] \in Nat /\ Stakes[r] \in Int
  BY <1>1, <1>2, <1>3, HoldsFinite
<1> HIDE DEF S
<1>5. SumFunctionOnSet(Stakes, S) = Stakes[ref] + SumFunctionOnSet(Stakes, S \ {ref})
  BY <1>1, <1>4, SumTakes
<1>6. SumFunctionOnSet(Stakes, S \ {ref}) \in Nat
  BY <1>4, SumNat
<1>7. Stakes[ref] = db.holds[ref].amount /\ Stakes[ref] \in Nat
  BY <1>1, <1>3
<1>8. QED
  BY <1>2, <1>5, <1>6, <1>7

LEMMA SettleMoves ==
  ASSUME Sound(db), Ledgered, NEW h, Undoes(h), h.ref \in OpenHolds, db' = Settled(h)
  PROVE  Moves(h)
<1> DEFINE ref == h.ref
           x == db.holds[ref].account
           n == db.holds[ref].amount
           k == IF h.do = "release" THEN 0 ELSE -n
           derived == Derived(ref, "resolve")
           status == Settles(h)
           b == EffectBatch(h)
<1>1. /\ ref \in DOMAIN db.holds /\ db.holds[ref].status = "open" /\ h.do \in {"release", "capture"}
      /\ h.do # "hold" /\ h.do # "credit"
  BY DEF OpenHolds, Undoes
<1>2. EffectError(h) = "none"
  BY <1>1 DEF EffectError, HoldError
<1>3. n \in Nat /\ n \in Int /\ -n \in Int /\ k \in Int /\ db.holds[ref] \in HoldRows
  <2>1. n \in Amount /\ db.holds[ref] \in HoldRows
    BY <1>1 DEF Sound, HoldRows
  <2> HIDE DEF n
  <2>2. n \in Nat
    BY <2>1, AmountIs
  <2>3. QED
    BY <2>1, <2>2
<1>4. x \in DOMAIN db.accounts /\ n <= db.accounts[x].held
  BY HeldCovers
<1>5. /\ DOMAIN b.entries = {derived} /\ b.opens = {} /\ b.places = NoRows /\ b.settles = Row(ref, status)
      /\ b.first = Move(x, k, -n) /\ b.second = Move(x, 0, 0)
  <2>1. CASE h.do = "release"
    <3>1. b = ReleaseBatch(ref, x, n)
      BY <2>1 DEF EffectBatch
    <3>2. QED
      BY <2>1, <3>1 DEF ReleaseBatch, Settles, Row
  <2>2. CASE h.do = "capture"
    <3>1. b = CaptureBatch(ref, x, n, n)
      BY <2>2 DEF EffectBatch
    <3>2. QED
      BY <2>2, <3>1 DEF CaptureBatch, Settles, Row
  <2>3. QED
    BY <1>1, <2>1, <2>2
<1> HIDE DEF b
<1>6. derived \notin DOMAIN db.entries
  <2>1. /\ DOMAIN db.holds \subseteq RefsTo(MaxBets)
        /\ DOMAIN db.entries \subseteq Deposited \cup DOMAIN db.holds \cup {WinRef[r] : r \in DOMAIN db.holds}
                                       \cup {Derived(r, "resolve") : r \in DOMAIN db.holds \ OpenHolds}
    BY DEF Ledgered
  <2>2. \A r \in DOMAIN db.holds : derived # r /\ derived # WinRef[r] /\ (derived = Derived(r, "resolve") => ref = r)
    BY <1>1, <2>1, RefsAre
  <2>3. derived \notin Deposited
    BY <1>1, <2>1, RefsAre
  <2>4. \A r \in DOMAIN db.holds \ OpenHolds : derived # Derived(r, "resolve")
    BY <2>2
  <2> HIDE DEF derived
  <2>5. QED
    BY <2>1, <2>2, <2>3, <2>4
<1> HIDE DEF derived, status
<1>7. /\ DOMAIN AfterFirst(db, b) = DOMAIN db.accounts
      /\ AfterSecond(db, b) = AfterFirst(db, b)
      /\ \A a \in DOMAIN db.accounts :
            AfterFirst(db, b)[a] = [balance |-> db.accounts[a].balance + (IF a = x THEN k ELSE 0),
                                    held |-> db.accounts[a].held + (IF a = x THEN -n ELSE 0)]
  <2> HIDE DEF x, k, n
  <2>1. DOMAIN db.accounts \cup b.opens = DOMAIN db.accounts
    BY <1>5
  <2> DEFINE m == -n
  <2>2. m \in Int /\ k \in Int /\ b.first = Move(x, k, m) /\ b.second = Move(x, 0, 0)
    BY <1>3, <1>5
  <2> HIDE DEF m, ref
  <2>3. /\ DOMAIN AfterFirst(db, b) = DOMAIN db.accounts \cup b.opens
        /\ AfterSecond(db, b) = AfterFirst(db, b)
        /\ \A a \in DOMAIN db.accounts \cup b.opens :
              LET row == IF a \in DOMAIN db.accounts THEN db.accounts[a] ELSE Zero
              IN AfterFirst(db, b)[a] = [balance |-> row.balance + (IF a = x THEN k ELSE 0),
                                         held |-> row.held + (IF a = x THEN m ELSE 0)]
    BY <2>2, AfterIs
  <2>4. QED
    BY <2>1, <2>3 DEF m
<1>8. \A a \in DOMAIN db.accounts :
        SolventRow(AfterFirst(db, b)[a]) /\ AfterFirst(db, b)[a].held = HeldOn(a) + 0 - (IF a = x THEN n ELSE 0)
  <2>1. ASSUME NEW a \in DOMAIN db.accounts
        PROVE  SolventRow(AfterFirst(db, b)[a]) /\ AfterFirst(db, b)[a].held = HeldOn(a) + 0 - (IF a = x THEN n ELSE 0)
    <3> DEFINE u == db.accounts[a].balance
               v == db.accounts[a].held
    <3>1. u \in Nat /\ v \in Nat /\ v <= u /\ HeldOn(a) = v
      BY DEF HeldOn, Sound
    <3>2. AfterFirst(db, b)[a] = [balance |-> u + (IF a = x THEN k ELSE 0), held |-> v + (IF a = x THEN -n ELSE 0)]
      BY <1>7
    <3>3. a = x => n <= v
      BY <1>4
    <3>4. k = 0 \/ k = -n
      OBVIOUS
    <3> HIDE DEF u, v, x, n, k
    <3>5. CASE a = x
      <4>1. AfterFirst(db, b)[a].balance = u + k /\ AfterFirst(db, b)[a].held = v + (-n)
        BY <3>2, <3>5
      <4>2. QED
        BY <1>3, <3>1, <3>3, <3>4, <3>5, <4>1 DEF SolventRow
    <3>6. CASE a # x
      <4>1. AfterFirst(db, b)[a].balance = u + 0 /\ AfterFirst(db, b)[a].held = v + 0
        BY <3>2, <3>6
      <4>2. QED
        BY <3>1, <3>6, <4>1 DEF SolventRow
    <3>7. QED
      BY <3>5, <3>6
  <2>2. QED
    BY <2>1
<1>9. Verdict(db, b) = "applied"
  <2>1. DOMAIN b.places = {}
    BY <1>5, InsertNone
  <2>2. ~Duplicate(db, b)
    BY <1>5, <1>6, <2>1 DEF Duplicate
  <2>3. ~Overdrawn(db, b)
    BY <1>7, <1>8 DEF Overdrawn
  <2>4. QED
    BY <2>2, <2>3 DEF Verdict
<1>10. db' = Applied(db, b)
  BY <1>2, <1>9 DEF Settled, Run, b
<1>11. /\ db'.accounts = AfterSecond(db, b) /\ db'.entries = Insert(db.entries, b.entries)
       /\ db'.holds = Insert(SettleHold(db.holds, b.settles), b.places)
  BY <1>10 DEF Applied
<1>12. HoldsMove(h)
  <2> DEFINE settled == SettleHold(db.holds, Row(ref, status))
  <2>1. DOMAIN Row(ref, status) = {ref} /\ Row(ref, status)[ref] = status
    BY RowIs
  <2>2. DOMAIN settled = DOMAIN db.holds
        /\ \A r \in DOMAIN db.holds : settled[r] = IF r = ref THEN [db.holds[r] EXCEPT !.status = status] ELSE db.holds[r]
    BY <1>1, <2>1 DEF SettleHold
  <2>3. db'.holds = Insert(settled, NoRows)
    BY <1>5, <1>11
  <2> HIDE DEF settled
  <2>4. DOMAIN Insert(settled, NoRows) = DOMAIN settled /\ \A r \in DOMAIN settled : Insert(settled, NoRows)[r] = settled[r]
    BY InsertNone
  <2>5. QED
    BY <1>1, <2>2, <2>3, <2>4 DEF HoldsMove, status
<1>13. EntriesMove(h)
  <2>1. DOMAIN db'.entries = DOMAIN db.entries \cup {derived} /\ \A r \in DOMAIN db.entries : db'.entries[r] = db.entries[r]
    BY <1>5, <1>11 DEF Insert
  <2>2. QED
    BY <1>1, <2>1 DEF EntriesMove, Logs, derived
<1>14. AccountsMove(h)
  <2>1. \A a : Gives(h, a) = 0 /\ Takes(h, a) = IF a = x THEN n ELSE 0
    BY <1>1 DEF Gives, Takes
  <2>2. \A a \in DOMAIN db.accounts : db'.accounts[a].held = HeldOn(a) + 0 - (IF a = x THEN n ELSE 0)
    BY <1>7, <1>8, <1>11
  <2>3. DOMAIN db'.accounts = DOMAIN db.accounts
    BY <1>7, <1>11
  <2>4. QED
    BY <1>1, <2>1, <2>2, <2>3 DEF AccountsMove
<1>15. QED
  BY <1>12, <1>13, <1>14 DEF Moves

LEMMA FreshRef ==
  ASSUME NEW n \in Nat, n < MaxBets
  PROVE  BetRef[n] \in RefsTo(MaxBets) /\ BetRef[n] \notin RefsTo(n)
<1>1. n \in 0 .. MaxBets - 1 /\ \A m \in 0 .. n - 1 : m \in 0 .. MaxBets - 1 /\ m # n
  BY FaultAssumption
<1>2. \A m \in 0 .. MaxBets - 1 : m # n => BetRef[m] # BetRef[n]
  BY <1>1, RefAssumption DEF Minted
<1>3. QED
  BY <1>1, <1>2 DEF RefsTo

\* The first write of a plan that settles, and what the ledger does of it.
LEMMA EffectMoves ==
  ASSUME Shape, Table, Mode = "table", NEW t \in Task, NEW v, Onward(t, v)
  PROVE  LET h == run[t].todo[1]
         IN /\ Moves(h)
            /\ h.do = "hold" => h.user \in Seated /\ h.ref \notin DOMAIN db.holds
<1> DEFINE w == run[t]
           a == w.todo
           h == a[1]
<1>1. a \in Plans /\ a # << >> /\ h \in Writes \cup Effects /\ Perform(t, h) /\ ~Throws(w.op, h)
  BY DEF Onward
<1>2. Settling(a) /\ Ledgered /\ Sound(db)
  <2>1. w # NoTask
    BY <1>1, Idle
  <2>2. QED
    BY <2>1 DEF Table, Shape
<1>3. (\A what : 1 \in Doing(a, what) <=> h.do = what) /\ 1 \in DOMAIN a
  BY <1>1, FirstIs, PlanIs
<1>4. db' = IF IsEffect(h) THEN Settled(h) ELSE db
  BY <1>1, PerformIs
<1>5. h.do \in {"hold", "credit"} => h.user \in Player /\ h.amount \in Amount
  BY <1>1, WriteIs
<1> HIDE DEF a, h
<1>6. CASE h.do = "hold"
  <2>1. 1 \in Doing(a, "hold")
    BY <1>3, <1>6
  <2>2. /\ model \in Books /\ model.betSeq < MaxBets /\ h.ref = BetRef[model.betSeq] /\ h.user \in Seated
        /\ DOMAIN db.holds \subseteq RefsTo(model.betSeq)
    BY <1>2, <2>1 DEF Settling, h
  <2>3. model.betSeq \in Nat
    BY <2>2, FaultAssumption DEF Books
  <2>4. h.ref \in RefsTo(MaxBets) /\ h.ref \notin DOMAIN db.holds
    BY <2>2, <2>3, FreshRef
  <2>5. db' = Settled(h)
    BY <1>4, <1>6 DEF IsEffect
  <2>6. Moves(h)
    BY <1>1, <1>2, <1>5, <1>6, <2>4, <2>5, HoldMoves
  <2>7. QED
    BY <2>2, <2>4, <2>6 DEF h, a
<1>7. CASE h.do = "credit"
  <2>1. 1 \in Doing(a, "credit")
    BY <1>3, <1>7
  <2>2. PICK r \in DOMAIN db.holds : db.holds[r].account = Purse(h.user)
    BY <1>2, <2>1 DEF Settling, h
  <2>3. Purse(h.user) \in DOMAIN db.accounts
    BY <1>2, <2>2 DEF Ledgered
  <2>4. db' = Settled(h)
    BY <1>4, <1>7 DEF IsEffect
  <2>5. Moves(h)
    BY <1>2, <1>5, <1>7, <2>3, <2>4, CreditMoves
  <2>6. QED
    BY <1>7, <2>5 DEF h, a
<1>8. CASE Undoes(h)
  <2>1. h.ref \in OpenHolds
    BY <1>2, <1>3, <1>8 DEF Settling, Undoes, h
  <2>2. db' = Settled(h) /\ h.do # "hold"
    BY <1>4, <1>8 DEF IsEffect, Undoes
  <2>3. Moves(h)
    BY <1>2, <1>8, <2>1, <2>2, SettleMoves
  <2>4. QED
    BY <2>2, <2>3 DEF h, a
<1>9. CASE ~IsEffect(h)
  <2>1. h.do # "hold" /\ db' = db
    BY <1>4, <1>9 DEF IsEffect
  <2>2. Moves(h)
    BY <1>2, <1>9, <2>1, StillMoves
  <2>3. QED
    BY <2>1, <2>2 DEF h, a
<1>10. QED
  BY <1>6, <1>7, <1>8, <1>9 DEF IsEffect, Undoes

\* The hold a write settles, the one it takes, and the bet that one is for.
Lost(h) == IF Undoes(h) THEN {h.ref} ELSE {}

Gained(h) == IF h.do = "hold" THEN {h.ref} ELSE {}

Ticket(h) == IF h.do = "hold" THEN {<<h.user, h.ref, h.amount>>} ELSE {}

LEMMA MovesReserved ==
  ASSUME Sound(db), NEW h, Moves(h)
  PROVE  /\ OpenHolds' = (OpenHolds \ Lost(h)) \cup Gained(h)
         /\ Reserved' = {x \in Reserved : x[2] \notin Lost(h)} \cup Ticket(h)
         /\ DOMAIN db'.holds = DOMAIN db.holds \cup Gained(h)
         /\ \A r \in DOMAIN db.holds : /\ db'.holds[r].account = db.holds[r].account
                                       /\ db'.holds[r].amount = db.holds[r].amount
                                       /\ r \notin Lost(h) => db'.holds[r].status = db.holds[r].status
                                       /\ r \in Lost(h) => db'.holds[r].status = Settles(h)
         /\ h.do = "hold" => db'.holds[h.ref] = NewHold(Purse(h.user), h.amount) /\ h.ref \notin DOMAIN db.holds
         /\ Undoes(h) => h.ref \in OpenHolds
<1>1. HoldsMove(h)
  BY DEF Moves
<1>2. DOMAIN db'.holds = DOMAIN db.holds \cup Gained(h)
  BY <1>1 DEF HoldsMove, Gained
<1>3. h.do = "hold" => db'.holds[h.ref] = NewHold(Purse(h.user), h.amount) /\ h.ref \notin DOMAIN db.holds
  BY <1>1 DEF HoldsMove
<1>4. ASSUME NEW r \in DOMAIN db.holds
      PROVE  /\ db'.holds[r].account = db.holds[r].account
             /\ db'.holds[r].amount = db.holds[r].amount
             /\ r \notin Lost(h) => db'.holds[r].status = db.holds[r].status
             /\ r \in Lost(h) => db'.holds[r].status = Settles(h)
  <2>1. db.holds[r] \in HoldRows
    BY DEF Sound
  <2>2. db'.holds[r] = IF Undoes(h) /\ r = h.ref THEN [db.holds[r] EXCEPT !.status = Settles(h)] ELSE db.holds[r]
    BY <1>1 DEF HoldsMove
  <2>3. r \in Lost(h) <=> Undoes(h) /\ r = h.ref
    BY DEF Lost
  <2>4. CASE r \in Lost(h)
    BY <2>1, <2>2, <2>3, <2>4 DEF HoldRows
  <2>5. CASE r \notin Lost(h)
    BY <2>2, <2>3, <2>5
  <2>6. QED
    BY <2>4, <2>5
<1>5. Settles(h) # "open" /\ (Undoes(h) => h.ref \in OpenHolds)
  BY <1>1 DEF Settles, HoldsMove
<1>6. /\ h.do = "hold" => /\ db'.holds[h.ref].status = "open" /\ db'.holds[h.ref].account = Purse(h.user)
                          /\ db'.holds[h.ref].amount = h.amount
  BY <1>3 DEF NewHold
<1>7. OpenHolds' = (OpenHolds \ Lost(h)) \cup Gained(h)
  <2>1. \A r \in DOMAIN db.holds : r \in OpenHolds' <=> r \in OpenHolds /\ r \notin Lost(h)
    BY <1>2, <1>4, <1>5 DEF OpenHolds
  <2>2. \A r \in Gained(h) : r \in OpenHolds'
    BY <1>2, <1>6 DEF OpenHolds, Gained
  <2>3. OpenHolds' \subseteq DOMAIN db.holds \cup Gained(h) /\ OpenHolds \subseteq DOMAIN db.holds
    BY <1>2 DEF OpenHolds
  <2>4. \A r \in Gained(h) : r \notin DOMAIN db.holds
    BY <1>3 DEF Gained
  <2>5. QED
    BY <2>1, <2>2, <2>3, <2>4
<1> DEFINE old(r) == <<Owner(db.holds[r].account), r, db.holds[r].amount>>
           new(r) == <<Owner(db'.holds[r].account), r, db'.holds[r].amount>>
<1>8. Reserved = {old(r) : r \in OpenHolds} /\ Reserved' = {new(r) : r \in OpenHolds'}
  BY DEF Reserved
<1>9. \A r \in OpenHolds : new(r) = old(r) /\ old(r)[2] = r
  BY <1>4 DEF OpenHolds
<1>10. {new(r) : r \in Gained(h)} = Ticket(h)
  <2>1. CASE h.do = "hold"
    <3>1. Owner(Purse(h.user)) = h.user
      BY DEF Owner, Purse
    <3>2. new(h.ref) = <<h.user, h.ref, h.amount>>
      BY <1>6, <2>1, <3>1
    <3> HIDE DEF new
    <3>3. QED
      BY <2>1, <3>2 DEF Gained, Ticket
  <2>2. CASE h.do # "hold"
    BY <2>2 DEF Gained, Ticket
  <2>3. QED
    BY <2>1, <2>2
<1> HIDE DEF old, new
<1>11. Reserved' = {x \in Reserved : x[2] \notin Lost(h)} \cup Ticket(h)
  <2>1. \A x : x \in Reserved' <=> (\E r \in OpenHolds : r \notin Lost(h) /\ x = old(r)) \/ x \in Ticket(h)
    BY <1>7, <1>8, <1>9, <1>10
  <2>2. \A x : (x \in Reserved /\ x[2] \notin Lost(h)) <=> (\E r \in OpenHolds : r \notin Lost(h) /\ x = old(r))
    BY <1>8, <1>9
  <2>3. QED
    BY <2>1, <2>2
<1>12. QED
  BY <1>2, <1>3, <1>4, <1>5, <1>7, <1>11

\* A plan without its first write.
LEMMA UndoneRest ==
  ASSUME NEW a \in Plans, a # << >>, NEW b, Rest(a, b), NEW i \in DOMAIN b
  PROVE  /\ Undone(a, i + 1) = Lost(a[1]) \cup Undone(b, i)
         /\ Placed(a, i + 1) = Ticket(a[1]) \cup Placed(b, i)
<1>1. i \in Nat \ {0} /\ 1 \in DOMAIN a /\ 1 < i + 1
  <2>1. i \in Nat \ {0}
    BY DEF Rest
  <2>2. 1 \in DOMAIN a
    BY PlanIs
  <2>3. QED
    BY <2>1, <2>2
<1>2. /\ \A k \in DOMAIN b : k \in Nat \ {0} /\ k + 1 \in DOMAIN a /\ b[k] = a[k + 1]
      /\ \A k \in DOMAIN a : k \in Nat \ {0} /\ (k # 1 => k - 1 \in DOMAIN b /\ b[k - 1] = a[k])
  BY DEF Rest
<1>3. ASSUME NEW k \in DOMAIN a, k < i + 1
      PROVE  k = 1 \/ (k - 1 \in DOMAIN b /\ k - 1 < i /\ b[k - 1] = a[k])
  BY <1>1, <1>2, <1>3
<1>4. ASSUME NEW k \in DOMAIN b, k < i
      PROVE  k + 1 \in DOMAIN a /\ k + 1 < i + 1 /\ b[k] = a[k + 1]
  BY <1>1, <1>2, <1>4
<1>5. Undone(a, i + 1) = Lost(a[1]) \cup Undone(b, i)
  <2>1. \A x : x \in Undone(a, i + 1) <=> \E k \in DOMAIN a : k < i + 1 /\ Undoes(a[k]) /\ x = a[k].ref
    BY DEF Undone, Undoes
  <2>2. \A x : x \in Undone(b, i) <=> \E k \in DOMAIN b : k < i /\ Undoes(b[k]) /\ x = b[k].ref
    BY DEF Undone, Undoes
  <2>3. \A x : x \in Lost(a[1]) <=> Undoes(a[1]) /\ x = a[1].ref
    BY DEF Lost
  <2>4. \A x \in Undone(a, i + 1) : x \in Lost(a[1]) \/ x \in Undone(b, i)
    BY <1>3, <2>1, <2>2, <2>3
  <2>5. \A x \in Undone(b, i) : x \in Undone(a, i + 1)
    BY <1>4, <2>1, <2>2
  <2>6. \A x \in Lost(a[1]) : x \in Undone(a, i + 1)
    BY <1>1, <2>1, <2>3
  <2>7. QED
    BY <2>4, <2>5, <2>6
<1>6. Placed(a, i + 1) = Ticket(a[1]) \cup Placed(b, i)
  <2>1. \A x : x \in Placed(a, i + 1) <=>
                 \E k \in DOMAIN a : k < i + 1 /\ a[k].do = "hold" /\ x = <<a[k].user, a[k].ref, a[k].amount>>
    BY DEF Placed, Doing
  <2>2. \A x : x \in Placed(b, i) <=>
                 \E k \in DOMAIN b : k < i /\ b[k].do = "hold" /\ x = <<b[k].user, b[k].ref, b[k].amount>>
    BY DEF Placed, Doing
  <2>3. \A x : x \in Ticket(a[1]) <=> a[1].do = "hold" /\ x = <<a[1].user, a[1].ref, a[1].amount>>
    BY DEF Ticket
  <2>4. \A x \in Placed(a, i + 1) : x \in Ticket(a[1]) \/ x \in Placed(b, i)
    BY <1>3, <2>1, <2>2, <2>3
  <2>5. \A x \in Placed(b, i) : x \in Placed(a, i + 1)
    BY <1>4, <2>1, <2>2
  <2>6. \A x \in Ticket(a[1]) : x \in Placed(a, i + 1)
    BY <1>1, <2>1, <2>3
  <2>7. QED
    BY <2>4, <2>5, <2>6
<1>7. QED
  BY <1>5, <1>6

\* What is due does not change when what it counts on is done.
LEMMA DueShifts ==
  ASSUME Sound(db), NEW a \in Plans, a # << >>, NEW b, Rest(a, b), Settling(a), Moves(a[1]), NEW i \in DOMAIN b
  PROVE  Due(b, i)' = Due(a, i + 1)
<1> DEFINE h == a[1]
<1>1. /\ Undone(a, i + 1) = Lost(h) \cup Undone(b, i)
      /\ Placed(a, i + 1) = Ticket(h) \cup Placed(b, i)
  BY UndoneRest
<1>2. /\ Reserved' = {x \in Reserved : x[2] \notin Lost(h)} \cup Ticket(h)
      /\ h.do = "hold" => h.ref \notin DOMAIN db.holds
  BY MovesReserved
<1>3. Due(b, i)' = {x \in Reserved' : x[2] \notin Undone(b, i)} \cup Placed(b, i)
  BY DEF Due, Undone, Placed, Doing
<1>4. \A x \in Ticket(h) : x[2] \notin Undone(b, i)
  <2>1. Undone(b, i) \subseteq OpenHolds
    <3>1. ASSUME NEW k \in DOMAIN b, b[k].do \in {"release", "capture"}
          PROVE  b[k].ref \in OpenHolds
      <4>1. k + 1 \in DOMAIN a /\ b[k] = a[k + 1]
        BY DEF Rest
      <4>2. QED
        BY <3>1, <4>1 DEF Settling
    <3>2. QED
      BY <3>1 DEF Undone
  <2>2. ASSUME NEW x \in Ticket(h)
        PROVE  x[2] \notin Undone(b, i)
    <3>1. h.do = "hold" /\ x = <<h.user, h.ref, h.amount>>
      BY DEF Ticket
    <3>2. x[2] = h.ref
      BY <3>1
    <3>3. QED
      BY <1>2, <2>1, <3>1, <3>2 DEF OpenHolds
  <2>3. QED
    BY <2>2
<1> HIDE DEF h
<1>5. Due(a, i + 1) = {x \in Reserved : x[2] \notin Lost(h) \cup Undone(b, i)} \cup (Ticket(h) \cup Placed(b, i))
  BY <1>1 DEF Due
<1>6. QED
  BY <1>2, <1>3, <1>4, <1>5

\* What is held on an account is what its open holds add up to, after a write too.
LEMMA HeldMoves ==
  ASSUME Sound(db), Ledgered, NEW h, Moves(h), DOMAIN db'.holds \subseteq RefsTo(MaxBets),
         h.do = "hold" => h.amount \in Amount, NEW a
  PROVE  SumFunctionOnSet(Stakes, Held(a))' = HeldOn(a) + Gives(h, a) - Takes(h, a)
<1> DEFINE S == Held(a)
           f == Stakes
           S2 == {r \in OpenHolds' : db'.holds[r].account = a}
           f2 == [r \in DOMAIN db'.holds |-> db'.holds[r].amount]
<1>1. /\ OpenHolds' = (OpenHolds \ Lost(h)) \cup Gained(h)
      /\ DOMAIN db'.holds = DOMAIN db.holds \cup Gained(h)
      /\ \A r \in DOMAIN db.holds : /\ db'.holds[r].account = db.holds[r].account
                                    /\ db'.holds[r].amount = db.holds[r].amount
      /\ h.do = "hold" => db'.holds[h.ref] = NewHold(Purse(h.user), h.amount) /\ h.ref \notin DOMAIN db.holds
      /\ Undoes(h) => h.ref \in OpenHolds
  BY MovesReserved
<1>2. /\ DOMAIN db.holds \subseteq RefsTo(MaxBets)
      /\ \A r \in DOMAIN db.holds : db.holds[r].account \in DOMAIN db.accounts
      /\ \A x \in DOMAIN db.accounts : db.accounts[x].held = SumFunctionOnSet(Stakes, Held(x))
  BY DEF Ledgered
<1>3. \A r \in DOMAIN db.holds : f[r] = db.holds[r].amount /\ f[r] \in Nat /\ f[r] \in Int
  BY AmountAssumption DEF Stakes, Sound, HoldRows
<1>4. S \subseteq DOMAIN db.holds /\ S2 \subseteq DOMAIN db'.holds
  BY DEF Held, OpenHolds
<1>5. IsFiniteSet(S) /\ IsFiniteSet(S2)
  <2>1. S \in SUBSET RefsTo(MaxBets) /\ S2 \in SUBSET RefsTo(MaxBets)
    BY <1>2, <1>4
  <2> HIDE DEF S, S2
  <2>2. QED
    BY <2>1, HoldsFinite
<1>6. HeldOn(a) = SumFunctionOnSet(f, S)
  <2>1. CASE a \in DOMAIN db.accounts
    BY <1>2, <2>1 DEF HeldOn
  <2>2. CASE a \notin DOMAIN db.accounts
    <3>1. S = {}
      BY <1>2, <2>2 DEF Held, OpenHolds
    <3>2. SumFunctionOnSet(f, {}) = 0
      BY SumEmpty
    <3>3. QED
      BY <2>2, <3>1, <3>2 DEF HeldOn
  <2>3. QED
    BY <2>1, <2>2
<1>7. \A r \in DOMAIN db.holds : f2[r] = f[r]
  BY <1>1, <1>3
<1>8. HeldOn(a) \in Nat
  <2>1. \A r \in S : f[r] \in Nat
    BY <1>3, <1>4
  <2> HIDE DEF f, S
  <2>2. QED
    BY <1>5, <1>6, <2>1, SumNat
<1>9. SumFunctionOnSet(Stakes, Held(a))' = SumFunctionOnSet(f2, S2)
  <2>1. Stakes' = f2
    BY DEF Stakes
  <2>2. Held(a)' = S2
    BY DEF Held
  <2> HIDE DEF f2, S2
  <2>3. QED
    BY <2>1, <2>2
<1>10. \A r \in DOMAIN db.holds : r \in S2 <=> r \in S /\ r \notin Lost(h)
  <2>1. Gained(h) \cap DOMAIN db.holds = {}
    BY <1>1 DEF Gained
  <2>2. QED
    BY <1>1, <2>1 DEF Held
<1>11. \A r \in S2 : r \in S \/ (h.do = "hold" /\ r = h.ref)
  BY <1>1, <1>4, <1>10 DEF Gained
<1>12. h.do = "hold" => /\ h.ref \in S2 <=> a = Purse(h.user)
                        /\ f2[h.ref] = h.amount /\ h.ref \notin DOMAIN db.holds
  BY <1>1 DEF Gained, NewHold
<1> HIDE DEF f, f2, S, S2
<1>20. CASE h.do = "hold" /\ a = Purse(h.user)
  <2>1. ~Undoes(h) /\ Lost(h) = {}
    BY <1>20 DEF Undoes, Lost
  <2>2. h.ref \in S2 /\ S2 \ {h.ref} = S /\ f2[h.ref] = h.amount
    BY <1>4, <1>10, <1>11, <1>12, <1>20, <2>1
  <2>3. h.amount \in Nat
    BY <1>20, AmountIs
  <2>4. \A r \in S2 : f2[r] \in Int
    BY <1>3, <1>4, <1>7, <1>11, <2>2, <2>3
  <2>5. SumFunctionOnSet(f2, S2) = f2[h.ref] + SumFunctionOnSet(f2, S2 \ {h.ref})
    BY <1>5, <2>2, <2>4, SumTakes
  <2>6. SumFunctionOnSet(f2, S) = SumFunctionOnSet(f, S)
    <3>1. \A r \in S : f2[r] = f[r]
      BY <1>4, <1>7
    <3>2. QED
      BY <1>5, <3>1, SumSame
  <2>7. Gives(h, a) = h.amount /\ Takes(h, a) = 0
    BY <1>20, <2>1 DEF Gives, Takes
  <2>8. SumFunctionOnSet(f2, S2) = h.amount + HeldOn(a)
    BY <1>6, <2>2, <2>5, <2>6
  <2>9. h.amount + HeldOn(a) = HeldOn(a) + h.amount - 0
    BY <1>8, <2>3
  <2>10. QED
    BY <1>9, <2>7, <2>8, <2>9
<1>21. CASE Undoes(h) /\ a = db.holds[h.ref].account
  <2>1. h.do # "hold" /\ Lost(h) = {h.ref}
    BY <1>21 DEF Undoes, Lost
  <2>2. h.ref \in S /\ h.ref \in DOMAIN db.holds
    BY <1>1, <1>21 DEF S, Held, OpenHolds
  <2>3. S2 = S \ {h.ref}
    BY <1>4, <1>10, <1>11, <2>1
  <2>4. \A r \in S : f[r] \in Int /\ f2[r] = f[r] /\ f[r] \in Nat
    BY <1>3, <1>4, <1>7
  <2>5. SumFunctionOnSet(f, S) = f[h.ref] + SumFunctionOnSet(f, S \ {h.ref})
    BY <1>5, <2>2, <2>4, SumTakes
  <2>6. SumFunctionOnSet(f2, S2) = SumFunctionOnSet(f, S2) /\ SumFunctionOnSet(f, S2) \in Nat
    <3>1. \A r \in S2 : f2[r] = f[r] /\ f[r] \in Nat
      BY <2>3, <2>4
    <3>2. QED
      BY <1>5, <3>1, SumSame, SumNat
  <2>7. Gives(h, a) = 0 /\ Takes(h, a) = f[h.ref] /\ f[h.ref] \in Nat
    BY <1>3, <1>21, <2>1, <2>2 DEF Gives, Takes
  <2>8. QED
    BY <1>6, <1>8, <1>9, <2>3, <2>5, <2>6, <2>7
<1>22. CASE ~(h.do = "hold" /\ a = Purse(h.user)) /\ ~(Undoes(h) /\ a = db.holds[h.ref].account)
  <2>1. S2 = S
    <3>1. \A r \in S : r \notin Lost(h)
      BY <1>22 DEF Lost, S, Held
    <3>2. QED
      BY <1>4, <1>10, <1>11, <1>12, <1>22, <3>1
  <2>2. \A r \in S : f2[r] = f[r]
    BY <1>4, <1>7
  <2>3. SumFunctionOnSet(f2, S) = SumFunctionOnSet(f, S)
    BY <1>5, <2>2, SumSame
  <2>4. Gives(h, a) = 0 /\ Takes(h, a) = 0
    BY <1>22 DEF Gives, Takes
  <2>5. SumFunctionOnSet(Stakes, Held(a))' = HeldOn(a)
    BY <1>6, <1>9, <2>1, <2>3
  <2>6. HeldOn(a) = HeldOn(a) + 0 - 0
    BY <1>8
  <2>7. QED
    BY <2>4, <2>5, <2>6
<1>23. QED
  BY <1>20, <1>21, <1>22

LEMMA MovesLedgered ==
  ASSUME Sound(db), Ledgered, NEW h, Moves(h), h.do = "hold" => h.amount \in Amount,
         h.do = "credit" => \E r \in DOMAIN db.holds :
           /\ h.ref = WinRef[r] /\ db.holds[r].status = "released"
           /\ db.holds[r].account = Purse(h.user) /\ db.holds[r].amount = h.amount
  PROVE  Ledgered'
<1>1. /\ OpenHolds' = (OpenHolds \ Lost(h)) \cup Gained(h)
      /\ DOMAIN db'.holds = DOMAIN db.holds \cup Gained(h)
      /\ \A r \in DOMAIN db.holds : /\ db'.holds[r].account = db.holds[r].account
                                    /\ db'.holds[r].amount = db.holds[r].amount
                                    /\ r \notin Lost(h) => db'.holds[r].status = db.holds[r].status
      /\ h.do = "hold" => db'.holds[h.ref] = NewHold(Purse(h.user), h.amount) /\ h.ref \notin DOMAIN db.holds
      /\ Undoes(h) => h.ref \in OpenHolds
  BY MovesReserved
<1>2. /\ DOMAIN db.holds \subseteq RefsTo(MaxBets)
      /\ \A r \in DOMAIN db.holds : db.holds[r].account \in DOMAIN db.accounts /\ CurrencyOf(db.holds[r].account) = Chip
      /\ DOMAIN db.entries \subseteq Deposited \cup DOMAIN db.holds \cup {WinRef[r] : r \in DOMAIN db.holds}
                                     \cup {Derived(r, "resolve") : r \in DOMAIN db.holds \ OpenHolds}
      /\ \A r \in DOMAIN db.holds : WinRef[r] \in DOMAIN db.entries =>
           /\ db.holds[r].status = "released"
           /\ SameEntry(db, WinRef[r], db.holds[r].account, "credit", db.holds[r].amount)
  BY DEF Ledgered
<1>3. HoldsMove(h) /\ EntriesMove(h) /\ AccountsMove(h)
  BY DEF Moves
<1>4. DOMAIN db'.holds \subseteq RefsTo(MaxBets)
  BY <1>1, <1>2, <1>3 DEF HoldsMove, Gained
<1>5. \A r \in DOMAIN db'.holds : db'.holds[r].account \in DOMAIN db'.accounts /\ CurrencyOf(db'.holds[r].account) = Chip
  <2>1. DOMAIN db'.accounts = DOMAIN db.accounts \cup (IF h.do = "hold" THEN {Purse(h.user)} ELSE {})
    BY <1>3 DEF AccountsMove
  <2>2. h.do = "hold" => db'.holds[h.ref].account = Purse(h.user) /\ CurrencyOf(Purse(h.user)) = Chip
    BY <1>1 DEF NewHold, CurrencyOf, Purse
  <2>3. \A r \in DOMAIN db.holds : db'.holds[r].account \in DOMAIN db'.accounts /\ CurrencyOf(db'.holds[r].account) = Chip
    BY <1>1, <1>2, <2>1
  <2>4. QED
    BY <1>1, <2>1, <2>2, <2>3 DEF Gained
<1>6. /\ DOMAIN db'.entries = DOMAIN db.entries \cup Logs(h)
      /\ \A r \in DOMAIN db.entries : db'.entries[r] = db.entries[r]
      /\ h.do = "credit" /\ h.ref \notin DOMAIN db.entries =>
           db'.entries[h.ref] = NewEntry(Purse(h.user), "credit", h.amount, NoRef)
  BY <1>3 DEF EntriesMove
<1>7. DOMAIN db'.entries \subseteq Deposited \cup DOMAIN db'.holds \cup {WinRef[r] : r \in DOMAIN db'.holds}
                                   \cup {Derived(r, "resolve") : r \in DOMAIN db'.holds \ OpenHolds'}
  <2>1. DOMAIN db.holds \subseteq DOMAIN db'.holds /\ DOMAIN db.holds \ OpenHolds \subseteq DOMAIN db'.holds \ OpenHolds'
    BY <1>1 DEF Gained
  <2>2. Logs(h) \subseteq DOMAIN db'.holds \cup {WinRef[r] : r \in DOMAIN db'.holds}
                          \cup {Derived(r, "resolve") : r \in DOMAIN db'.holds \ OpenHolds'}
    <3>1. CASE h.do = "hold"
      BY <1>1, <3>1 DEF Logs, Gained
    <3>2. CASE h.do = "credit"
      BY <2>1, <3>2 DEF Logs
    <3>3. CASE Undoes(h)
      <4>1. h.ref \in DOMAIN db'.holds /\ h.ref \notin OpenHolds' /\ h.do \notin {"hold", "credit"}
        BY <1>1, <3>3 DEF Lost, Gained, Undoes, OpenHolds
      <4>2. Logs(h) = {Derived(h.ref, "resolve")}
        BY <3>3, <4>1 DEF Logs
      <4>3. QED
        BY <4>1, <4>2
    <3>4. CASE h.do \notin {"hold", "credit"} /\ ~Undoes(h)
      BY <3>4 DEF Logs
    <3>5. QED
      BY <3>1, <3>2, <3>3, <3>4
  <2> HIDE DEF Derived
  <2>3. QED
    BY <1>2, <1>6, <2>1, <2>2
<1>8. ASSUME NEW r \in DOMAIN db'.holds, WinRef[r] \in DOMAIN db'.entries
      PROVE  /\ db'.holds[r].status = "released"
             /\ SameEntry(db, WinRef[r], db.holds[r].account, "credit", db.holds[r].amount)'
  <2>1. r \in RefsTo(MaxBets) /\ DOMAIN db.holds \subseteq RefsTo(MaxBets)
    BY <1>2, <1>4
  <2>2. CASE WinRef[r] \in DOMAIN db.entries
    <3>1. r \in DOMAIN db.holds
      <4>1. \A s \in DOMAIN db.holds : /\ WinRef[r] # s /\ WinRef[r] # Derived(s, "resolve")
                                       /\ WinRef[r] = WinRef[s] => r = s
        BY <2>1, RefsAre
      <4>2. WinRef[r] \notin Deposited
        BY <2>1, RefsAre
      <4> HIDE DEF Derived
      <4>3. WinRef[r] \in {WinRef[s] : s \in DOMAIN db.holds}
        BY <1>2, <2>2, <4>1, <4>2
      <4>4. QED
        BY <4>1, <4>3
    <3>2. /\ db.holds[r].status = "released"
          /\ SameEntry(db, WinRef[r], db.holds[r].account, "credit", db.holds[r].amount)
      BY <1>2, <2>2, <3>1
    <3>3. r \notin Lost(h)
      BY <1>1, <3>2 DEF Lost, OpenHolds
    <3>4. QED
      BY <1>1, <1>6, <2>2, <3>1, <3>2, <3>3 DEF SameEntry
  <2>3. CASE WinRef[r] \notin DOMAIN db.entries
    <3>1. WinRef[r] \in Logs(h)
      BY <1>6, <1>8, <2>3
    <3>2. h.do # "hold"
      <4>1. h.do = "hold" => h.ref \in RefsTo(MaxBets) /\ Logs(h) = {h.ref}
        BY <1>3 DEF HoldsMove, Logs
      <4>2. h.do = "hold" => WinRef[r] # h.ref
        BY <2>1, <4>1, RefsAre
      <4>3. QED
        BY <3>1, <4>1, <4>2
    <3>3. ~Undoes(h)
      <4>1. Undoes(h) => h.ref \in RefsTo(MaxBets) /\ Logs(h) = {Derived(h.ref, "resolve")}
        BY <1>1, <2>1 DEF Undoes, Logs, OpenHolds
      <4>2. Undoes(h) => WinRef[r] # Derived(h.ref, "resolve")
        BY <2>1, <4>1, RefsAre
      <4>3. QED
        BY <3>1, <4>1, <4>2
    <3>4. h.do = "credit" /\ WinRef[r] = h.ref
      BY <3>1, <3>2, <3>3 DEF Logs
    <3>5. PICK s \in DOMAIN db.holds : /\ h.ref = WinRef[s] /\ db.holds[s].status = "released"
                                       /\ db.holds[s].account = Purse(h.user) /\ db.holds[s].amount = h.amount
      BY <3>4
    <3>6. s \in RefsTo(MaxBets)
      BY <2>1
    <3>7. r = s
      BY <2>1, <3>4, <3>5, <3>6, RefsAre
    <3>8. r \notin Lost(h)
      BY <3>3 DEF Lost
    <3>9. /\ db'.entries[WinRef[r]].account = Purse(h.user) /\ db'.entries[WinRef[r]].kind = "credit"
          /\ db'.entries[WinRef[r]].amount = h.amount
      BY <1>6, <2>3, <3>4 DEF NewEntry
    <3>10. QED
      BY <1>1, <1>8, <3>5, <3>7, <3>8, <3>9 DEF SameEntry
  <2>4. QED
    BY <2>2, <2>3
<1>9. \A a \in DOMAIN db'.accounts : db'.accounts[a].held = SumFunctionOnSet(Stakes, Held(a))'
  <2>1. ASSUME NEW a \in DOMAIN db'.accounts
        PROVE  db'.accounts[a].held = SumFunctionOnSet(Stakes, Held(a))'
    <3>1. SumFunctionOnSet(Stakes, Held(a))' = HeldOn(a) + Gives(h, a) - Takes(h, a)
      BY <1>4, HeldMoves
    <3>2. QED
      BY <1>3, <3>1 DEF AccountsMove
  <2>2. QED
    BY <2>1
<1>10. QED
  BY <1>4, <1>5, <1>7, <1>8, <1>9 DEF Ledgered

\* What is left of a plan settles, once its first write is done.
LEMMA SettlingOnward ==
  ASSUME Shape, Table, Mode = "table", NEW t \in Task, NEW v, Onward(t, v)
  PROVE  Settling(v.todo)'
<1> DEFINE w == run[t]
           a == w.todo
           b == v.todo
           h == a[1]
<1>1. a \in Plans /\ a # << >> /\ h \in Writes \cup Effects /\ Perform(t, h) /\ b = Tail(a)
  BY DEF Onward
<1>2. Settling(a) /\ Sound(db)
  <2>1. w # NoTask
    BY <1>1, Idle
  <2>2. QED
    BY <2>1 DEF Table, Shape
<1>3. Rest(a, b)
  <2>1. Rest(a, Tail(a))
    BY <1>1, RestOf
  <2> HIDE DEF a, b
  <2>2. QED
    BY <1>1, <2>1
<1>4. (\A what : 1 \in Doing(a, what) <=> h.do = what) /\ 1 \in DOMAIN a
  BY <1>1, FirstIs, PlanIs
<1>5. Moves(h)
  BY EffectMoves
<1>6. /\ meta' = IF h.do = "meta" THEN h.meta ELSE meta
      /\ model' = IF h.do = "model" THEN h.state ELSE model
  BY <1>1, PerformIs
<1>7. h.do = "model" => h.state \in Books
  BY <1>1, WriteIs DEF Boards
<1> HIDE DEF a, b
<1>8. \A i \in DOMAIN b : Due(b, i)' = Due(a, i + 1)
  BY <1>1, <1>2, <1>3, <1>5, DueShifts
<1> HIDE DEF h
<1>9. /\ OpenHolds' = (OpenHolds \ Lost(h)) \cup Gained(h)
      /\ Reserved' = {x \in Reserved : x[2] \notin Lost(h)} \cup Ticket(h)
      /\ DOMAIN db'.holds = DOMAIN db.holds \cup Gained(h)
      /\ \A r \in DOMAIN db.holds : /\ db'.holds[r].account = db.holds[r].account
                                    /\ db'.holds[r].amount = db.holds[r].amount
                                    /\ r \notin Lost(h) => db'.holds[r].status = db.holds[r].status
                                    /\ r \in Lost(h) => db'.holds[r].status = Settles(h)
      /\ Undoes(h) => h.ref \in OpenHolds
  BY <1>2, <1>5, MovesReserved
<1>10. /\ \A what : \A i \in Doing(b, what) : i \in DOMAIN b /\ i + 1 \in Doing(a, what) /\ b[i] = a[i + 1]
       /\ \A what : \A i \in Doing(a, what) : i # 1 => i - 1 \in Doing(b, what)
       /\ \A i \in Ending(b) : i \in DOMAIN b /\ i + 1 \in Ending(a)
       /\ \A i \in DOMAIN b : i \in Nat \ {0} /\ i + 1 # 1 /\ i + 1 \in DOMAIN a /\ b[i] = a[i + 1]
       /\ \A i \in DOMAIN a : i \in Nat
  <2>1. \A i \in DOMAIN b : i \in Nat \ {0} /\ i + 1 \in DOMAIN a /\ b[i] = a[i + 1]
    BY <1>3 DEF Rest
  <2>2. \A i \in DOMAIN b : i + 1 # 1
    BY <2>1
  <2>3. QED
    BY <1>3, <2>1, <2>2 DEF Rest, Ending, Doing
<1>11. \A i \in Doing(a, "hold") : i = 1
  BY <1>2 DEF Settling
<1>12. Doing(b, "hold") = {}
  BY <1>10, <1>11
<1>13. ~IsEffect(h) => Lost(h) = {} /\ Gained(h) = {} /\ Ticket(h) = {}
  BY DEF IsEffect, Lost, Gained, Ticket, Undoes
<1>14. ~IsEffect(h) => Reserved' = Reserved /\ DOMAIN db'.holds = DOMAIN db.holds
  BY <1>9, <1>13
\* Clause by clause.
<1>20. ASSUME NEW i \in Doing(b, "model")
       PROVE  Tickets(b[i].state) = Due(b, i)' /\ DOMAIN db'.holds \subseteq RefsTo(b[i].state.betSeq)
  <2>1. i + 1 \in Doing(a, "model") /\ b[i] = a[i + 1] /\ Due(b, i)' = Due(a, i + 1)
    BY <1>8, <1>10
  <2>2. Tickets(b[i].state) = Due(a, i + 1) /\ DOMAIN db.holds \subseteq RefsTo(b[i].state.betSeq)
    BY <1>2, <2>1 DEF Settling
  <2>3. h.do = "hold" => h.ref \in RefsTo(b[i].state.betSeq)
    <3>1. h.do = "hold" => 1 \in Doing(a, "hold")
      BY <1>4
    <3>2. QED
      BY <1>2, <2>1, <3>1 DEF Settling, h
  <2>4. QED
    BY <1>9, <2>1, <2>2, <2>3 DEF Gained
<1>21. ASSUME NEW i \in DOMAIN b, IsEffect(b[i])
       PROVE  \E j \in Doing(b, "model") : i < j
  <2>1. i + 1 \in DOMAIN a /\ IsEffect(a[i + 1]) /\ i \in Nat
    BY <1>10, <1>21
  <2>2. PICK j \in Doing(a, "model") : i + 1 < j
    BY <1>2, <2>1 DEF Settling
  <2>3. j \in Nat
    BY <1>10 DEF Doing
  <2>4. j # 1 /\ i < j - 1
    BY <2>1, <2>2, <2>3
  <2>5. QED
    BY <1>10, <2>4
<1>22. ASSUME Doing(b, "model") = {}
       PROVE  IF model' \in Books THEN Tickets(model') = Reserved' /\ DOMAIN db'.holds \subseteq RefsTo(model'.betSeq)
                                  ELSE DOMAIN db'.holds = {}
  <2>1. \A j \in Doing(a, "model") : j = 1
    BY <1>10, <1>22
  <2>2. ~IsEffect(h)
    <3>1. ASSUME IsEffect(h)
          PROVE  FALSE
      <4>1. PICK j \in Doing(a, "model") : 1 < j
        BY <1>2, <1>4, <3>1 DEF Settling, h
      <4>2. QED
        BY <2>1, <4>1
    <3>2. QED
      BY <3>1
  <2>3. CASE h.do = "model"
    <3>1. 1 \in Doing(a, "model")
      BY <1>4, <2>3
    <3>2. Tickets(h.state) = Due(a, 1) /\ DOMAIN db.holds \subseteq RefsTo(h.state.betSeq)
      BY <1>2, <3>1 DEF Settling, h
    <3>3. Due(a, 1) = Reserved
      <4>1. \A k \in DOMAIN a : ~(k < 1)
        <5>1. \A k \in DOMAIN a : k \in Nat \ {0}
          BY <1>1, PlanIs
        <5>2. QED
          BY <5>1
      <4>2. Undone(a, 1) = {} /\ Placed(a, 1) = {}
        BY <4>1 DEF Undone, Placed, Doing
      <4>3. QED
        BY <4>2 DEF Due
    <3>4. model' \in Books /\ model' = h.state
      BY <1>6, <1>7, <2>3
    <3>5. QED
      BY <1>14, <2>2, <3>2, <3>3, <3>4
  <2>4. CASE h.do # "model"
    <3>1. Doing(a, "model") = {}
      BY <1>4, <2>1, <2>4
    <3>2. IF model \in Books THEN Tickets(model) = Reserved /\ DOMAIN db.holds \subseteq RefsTo(model.betSeq)
                             ELSE DOMAIN db.holds = {}
      BY <1>2, <3>1 DEF Settling
    <3>3. model' = model
      BY <1>6, <2>4
    <3>4. QED
      BY <1>14, <2>2, <3>2, <3>3
  <2>5. QED
    BY <2>3, <2>4
<1>23. ASSUME NEW i \in DOMAIN b, b[i].do \in {"release", "capture"}
       PROVE  /\ b[i].ref \in OpenHolds'
              /\ \A j \in DOMAIN b : b[j].do \in {"release", "capture"} /\ b[j].ref = b[i].ref => j = i
  <2>1. i + 1 \in DOMAIN a /\ b[i] = a[i + 1] /\ i + 1 # 1 /\ i \in Nat
    BY <1>10
  <2>2. /\ b[i].ref \in OpenHolds
        /\ \A j \in DOMAIN a : a[j].do \in {"release", "capture"} /\ a[j].ref = b[i].ref => j = i + 1
    BY <1>2, <1>23, <2>1 DEF Settling
  <2>3. ~(Undoes(h) /\ h.ref = b[i].ref)
    BY <1>4, <2>1, <2>2 DEF Undoes, h
  <2>4. b[i].ref \in OpenHolds'
    BY <1>9, <2>2, <2>3 DEF Lost
  <2>5. ASSUME NEW j \in DOMAIN b, b[j].do \in {"release", "capture"}, b[j].ref = b[i].ref
        PROVE  j = i
    <3>1. j + 1 \in DOMAIN a /\ b[j] = a[j + 1] /\ j \in Nat
      BY <1>10
    <3>2. j + 1 = i + 1
      BY <2>2, <2>5, <3>1
    <3>3. QED
      BY <2>1, <3>1, <3>2
  <2>6. QED
    BY <2>4, <2>5
<1>24. ASSUME NEW i \in Doing(b, "credit")
       PROVE  \E r \in DOMAIN db'.holds :
                /\ b[i].ref = WinRef[r]
                /\ db'.holds[r].account = Purse(b[i].user) /\ db'.holds[r].amount = b[i].amount
                /\ db'.holds[r].status = "released" \/ \E j \in Doing(b, "release") : j < i /\ b[j].ref = r
  <2>1. i + 1 \in Doing(a, "credit") /\ b[i] = a[i + 1] /\ i \in Nat
    BY <1>10
  <2>2. PICK r \in DOMAIN db.holds :
          /\ b[i].ref = WinRef[r]
          /\ db.holds[r].account = Purse(b[i].user) /\ db.holds[r].amount = b[i].amount
          /\ db.holds[r].status = "released" \/ \E j \in Doing(a, "release") : j < i + 1 /\ a[j].ref = r
    BY <1>2, <2>1 DEF Settling
  <2>3. r \in DOMAIN db'.holds /\ db'.holds[r].account = db.holds[r].account /\ db'.holds[r].amount = db.holds[r].amount
    BY <1>9
  <2>4. db'.holds[r].status = "released" \/ \E j \in Doing(b, "release") : j < i /\ b[j].ref = r
    <3>1. CASE db.holds[r].status = "released"
      <4>1. r \notin Lost(h)
        BY <1>9, <3>1 DEF Lost, OpenHolds
      <4>2. QED
        BY <1>9, <3>1, <4>1
    <3>2. CASE \E j \in Doing(a, "release") : j < i + 1 /\ a[j].ref = r
      <4>1. PICK j \in Doing(a, "release") : j < i + 1 /\ a[j].ref = r
        BY <3>2
      <4>2. CASE j = 1
        <5>1. h.do = "release" /\ h.ref = r
          BY <1>4, <4>1, <4>2 DEF h
        <5>2. r \in Lost(h) /\ Settles(h) = "released"
          BY <5>1 DEF Lost, Undoes, Settles
        <5>3. QED
          BY <1>9, <5>2
      <4>3. CASE j # 1
        <5>1. j - 1 \in Doing(b, "release") /\ j \in Nat
          BY <1>10, <4>3 DEF Doing
        <5>2. b[j - 1] = a[(j - 1) + 1] /\ (j - 1) + 1 = j
          BY <1>10, <5>1
        <5>3. j - 1 < i /\ b[j - 1].ref = r
          BY <2>1, <4>1, <5>1, <5>2
        <5>4. QED
          BY <5>1, <5>3
      <4>4. QED
        BY <4>2, <4>3
    <3>3. QED
      BY <2>2, <3>1, <3>2
  <2>5. QED
    BY <2>2, <2>3, <2>4
<1>25. ASSUME NEW i \in Doing(b, "meta")
       PROVE  {x[1] : x \in Due(b, i)'} \subseteq ToSet(b[i].meta.members)
  <2>1. i + 1 \in Doing(a, "meta") /\ b[i] = a[i + 1] /\ Due(b, i)' = Due(a, i + 1)
    BY <1>8, <1>10
  <2>2. {x[1] : x \in Due(a, i + 1)} \subseteq ToSet(a[i + 1].meta.members)
    BY <1>2, <2>1 DEF Settling
  <2>3. QED
    BY <2>1, <2>2
<1>26. ASSUME NEW i \in Ending(b)
       PROVE  Due(b, i)' = {}
  <2>1. i + 1 \in Ending(a) /\ Due(b, i)' = Due(a, i + 1)
    BY <1>8, <1>10
  <2>2. QED
    BY <1>2, <2>1 DEF Settling
<1>27. (\A what : Doing(b, what)' = Doing(b, what)) /\ Ending(b)' = Ending(b)
  BY DEF Doing, Ending
<1>28. Settling(b)'
  BY <1>12, <1>20, <1>21, <1>22, <1>23, <1>24, <1>25, <1>26, <1>27 DEF Settling
<1>29. QED
  BY <1>28 DEF b

\* Before the first write nothing else is done.
LEMMA DueFirst ==
  ASSUME NEW a \in Plans
  PROVE  Due(a, 1) = Reserved
<1>1. \A k \in DOMAIN a : ~(k < 1)
  <2>1. \A k \in DOMAIN a : k \in Nat \ {0}
    BY PlanIs
  <2>2. QED
    BY <2>1
<1>2. Undone(a, 1) = {} /\ Placed(a, 1) = {}
  BY <1>1 DEF Undone, Placed, Doing
<1>3. QED
  BY <1>2 DEF Due

LEMMA OnwardTable ==
  ASSUME Shape, Table, Mode = "table", NEW t \in Task, NEW v, Onward(t, v)
  PROVE  Table'
<1> DEFINE w == run[t]
           a == w.todo
           b == v.todo
           h == a[1]
<1>1. /\ a \in Plans /\ a # << >> /\ h \in Writes \cup Effects /\ Perform(t, h) /\ b = Tail(a)
      /\ run' = [run EXCEPT ![t] = v] /\ (\A u \in Task : u # t => run[u] = NoTask)
      /\ reply'.answer \in {"done", "none"} /\ erased' = erased
  BY DEF Onward
<1>2. Settling(a) /\ Sound(db) /\ Ledgered
  <2>1. w # NoTask
    BY <1>1, Idle
  <2>2. QED
    BY <2>1 DEF Table, Shape
<1>3. Rest(a, b)
  <2>1. Rest(a, Tail(a))
    BY <1>1, RestOf
  <2> HIDE DEF a, b
  <2>2. QED
    BY <1>1, <2>1
<1>4. /\ \A what : 1 \in Doing(a, what) <=> h.do = what
      /\ 1 \in Ending(a) <=> h.do = "meta" /\ Terminal(h.meta.phase)
      /\ 1 \in DOMAIN a
  BY <1>1, FirstIs, PlanIs
<1>5. Moves(h)
  BY EffectMoves
<1>6. meta' = IF h.do = "meta" THEN h.meta ELSE meta
  BY <1>1, PerformIs
<1>7. h.do \in {"hold", "credit"} => h.user \in Player /\ h.amount \in Amount
  BY <1>1, WriteIs
<1>8. Settling(b)'
  BY SettlingOnward
<1>9. run'[t] = v /\ \A u \in Task : u # t => run'[u] = NoTask
  BY <1>1 DEF Shape
<1>10. Due(a, 1) = Reserved
  BY <1>1, DueFirst
<1>11. /\ \A u \in Task : \A i \in Doing(run[u].todo, "meta") : run[u].todo[i].meta.deadline = FALSE
       /\ meta.deadline = FALSE /\ (Terminal(meta.phase) => OpenHolds = {}) /\ erased = {}
       /\ {x[1] : x \in Reserved} \subseteq Seated
  BY DEF Table
<1>12. \A i \in Doing(a, "meta") : a[i].meta.deadline = FALSE
  BY <1>11
<1> HIDE DEF a, b, h
<1>13. /\ OpenHolds' = (OpenHolds \ Lost(h)) \cup Gained(h)
       /\ Reserved' = {x \in Reserved : x[2] \notin Lost(h)} \cup Ticket(h)
  BY <1>2, <1>5, MovesReserved
<1>14. h.do = "meta" => OpenHolds' = OpenHolds /\ Reserved' = Reserved
  BY <1>13 DEF Lost, Gained, Ticket, Undoes
<1>15. h.do = "hold" => h.user \in Seated /\ ~Terminal(meta.phase)
  BY <1>2, <1>4 DEF Settling, h
<1>20. \A u \in Task : run'[u] # NoTask => Settling(run[u].todo)'
  <2>1. ASSUME NEW u \in Task, run'[u] # NoTask
        PROVE  Settling(run[u].todo)'
    <3>1. b = run'[u].todo
      BY <1>9, <2>1 DEF b
    <3>2. QED
      BY <1>8, <3>1, SettlingOf
  <2>2. QED
    BY <2>1
<1>21. ASSUME AtRest'
       PROVE  Settling(<< >>)'
  <2>1. run'[t] = NoTask
    BY <1>21 DEF AtRest
  <2>2. b = << >>
    BY <1>9, <2>1, Idle DEF b
  <2>3. QED
    BY <1>8, <2>2
<1>22. Ledgered'
  <2>1. ASSUME h.do = "credit"
        PROVE  \E r \in DOMAIN db.holds :
                 /\ h.ref = WinRef[r] /\ db.holds[r].status = "released"
                 /\ db.holds[r].account = Purse(h.user) /\ db.holds[r].amount = h.amount
    <3>1. 1 \in Doing(a, "credit")
      BY <1>4, <2>1
    <3>2. \A j \in Doing(a, "release") : ~(j < 1)
      <4>1. \A j \in DOMAIN a : j \in Nat \ {0}
        BY <1>1, PlanIs
      <4>2. QED
        BY <4>1 DEF Doing
    <3>3. QED
      BY <1>2, <3>1, <3>2 DEF Settling, h
  <2>2. QED
    BY <1>2, <1>5, <1>7, <2>1, MovesLedgered
<1>23. {x[1] : x \in Reserved'} \subseteq Seated'
  <2>1. CASE h.do = "meta"
    <3>1. 1 \in Doing(a, "meta")
      BY <1>4, <2>1
    <3>2. {x[1] : x \in Reserved} \subseteq ToSet(h.meta.members)
      BY <1>2, <1>10, <3>1 DEF Settling, h
    <3>3. Seated' = ToSet(h.meta.members)
      BY <1>6, <2>1 DEF Seated
    <3>4. QED
      BY <1>14, <2>1, <3>2, <3>3
  <2>2. CASE h.do # "meta"
    <3>1. Seated' = Seated
      BY <1>6, <2>2 DEF Seated
    <3>2. \A x \in Ticket(h) : x[1] \in Seated
      BY <1>15 DEF Ticket
    <3>3. QED
      BY <1>11, <1>13, <3>1, <3>2
  <2>3. QED
    BY <2>1, <2>2
<1>24. Terminal(meta'.phase) => OpenHolds' = {}
  <2>1. CASE h.do = "meta"
    <3>1. ASSUME Terminal(meta'.phase)
          PROVE  OpenHolds' = {}
      <4>1. 1 \in Ending(a)
        BY <1>4, <1>6, <2>1, <3>1
      <4>2. Reserved = {}
        BY <1>2, <1>10, <4>1 DEF Settling
      <4>3. OpenHolds = {}
        BY <4>2 DEF Reserved
      <4>4. QED
        BY <1>14, <2>1, <4>3
    <3>2. QED
      BY <3>1
  <2>2. CASE h.do # "meta"
    BY <1>6, <1>11, <1>13, <1>15, <2>2 DEF Gained
  <2>3. QED
    BY <2>1, <2>2
<1>25. meta'.deadline = FALSE
  BY <1>4, <1>6, <1>11, <1>12 DEF h
<1>26. ASSUME NEW u \in Task, NEW i \in Doing(run'[u].todo, "meta")
       PROVE  run'[u].todo[i].meta.deadline = FALSE
  <2>1. CASE u = t
    <3>1. i \in Doing(b, "meta") /\ run'[u].todo = b
      BY <1>9, <2>1 DEF b
    <3>2. i + 1 \in Doing(a, "meta") /\ b[i] = a[i + 1]
      BY <1>3, <3>1 DEF Rest
    <3>3. QED
      BY <1>12, <3>1, <3>2
  <2>2. CASE u # t
    <3>1. run'[u] = NoTask
      BY <1>9, <2>2
    <3>2. QED
      BY <3>1, Idle
  <2>3. QED
    BY <2>1, <2>2
<1>27. \A u \in Task : \A i \in Doing(run[u].todo, "meta")' : run'[u].todo[i].meta.deadline = FALSE
  BY <1>26 DEF Doing
<1>28. reply'.answer # "hold_not_open" /\ erased' = {}
  BY <1>1, <1>11
<1>29. QED
  BY <1>20, <1>21, <1>22, <1>23, <1>24, <1>25, <1>27, <1>28 DEF Table

LEMMA StepKeeps == ASSUME IInv, NEW t \in Task, Step(t) PROVE IInv'
<1>1. Inv /\ Shape /\ Serial /\ (Uninterrupted => Table /\ Mode = "table")
  BY DEF IInv, Inv, Uninterrupted
<1>2. CASE Thrown(t)
  BY <1>2, ThrownKeeps
<1>3. CASE \E v : Onward(t, v)
  <2>1. PICK v : Onward(t, v)
    BY <1>3
  <2>2. Inv'
    BY <1>1, <2>1, OnwardInv
  <2>3. ASSUME Uninterrupted
        PROVE  Table'
    BY <1>1, <2>1, <2>3, OnwardTable
  <2>4. Uninterrupted' <=> Uninterrupted
    BY DEF Uninterrupted
  <2>5. QED
    BY <2>2, <2>3, <2>4 DEF IInv
<1>4. QED
  BY <1>1, <1>2, <1>3, StepIs

-----------------------------------------------------------------------------
(* The invariant holds at first and is kept *)

LEMMA InitInv == ASSUME Init PROVE IInv
<1>1. /\ storage = [meta |-> NoMeta, model |-> << >>, outcome |-> "none", operatorClose |-> NoKey]
      /\ alarm = FALSE /\ index = NoRow /\ result = "none" /\ board = 0
      /\ run = [t \in Task |-> NoTask] /\ reply = NoReply /\ erased = {} /\ faults = 0
  BY DEF Init
<1>2. /\ db.accounts = [a \in Account |-> [balance |-> Bankroll, held |-> 0]]
      /\ DOMAIN db.entries = Deposited /\ db.holds = NoRows
  BY DEF Init, Deposited
<1>3. DOMAIN db.holds = {}
  BY <1>2, InsertNone
<1>4. OpenHolds = {} /\ Reserved = {} /\ \A a : Held(a) = {}
  <2>1. OpenHolds = {}
    BY <1>3 DEF OpenHolds
  <2>2. QED
    BY <2>1 DEF Reserved, Held
<1>5. meta = NoMeta /\ model = << >> /\ meta.phase = "none" /\ meta.members = << >> /\ meta.deadline = FALSE
  BY <1>1 DEF meta, model, NoMeta
<1>6. ~Terminal(meta.phase) /\ ~Played(meta)
  BY <1>5 DEF Terminal, Played
<1>7. NoMeta \in Metas
  <2>1. << >> \in Seq(Player) /\ Len(<< >>) <= Seats
    BY ModeAssumption
  <2>2. 0 \in 0 .. MaxRolls
    BY FaultAssumption
  <2>3. QED
    BY <2>1, <2>2 DEF Metas, NoMeta, Phase
<1>8. Sound(db)
  <2>1. \A a \in DOMAIN db.accounts : /\ db.accounts[a] \in [balance : Nat, held : Nat]
                                      /\ db.accounts[a].held <= db.accounts[a].balance
    BY <1>2, PurseAssumption
  <2>2. QED
    BY <1>3, <2>1 DEF Sound
<1>9. NoTask \in Tasks /\ Orderly(NoTask) /\ NoTask.todo = << >> /\ \A what : Doing(<< >>, what) = {}
  BY Idle
<1>10. \A t \in Task : run[t] = NoTask
  BY <1>1
<1>11. Shape
  <2>1. storage \in [meta : Metas, model : Boards \cup {<< >>}, outcome : Statuses \cup {"none"},
                     operatorClose : OperatorKey \cup {NoKey}]
    BY <1>1, <1>7
  <2>2. index \in [players : Seq(Player), phase : {"none", "open", "active"}]
    <3>1. << >> \in Seq(Player)
      OBVIOUS
    <3>2. QED
      BY <1>1, <3>1 DEF NoRow
  <2>3. run \in [Task -> Tasks]
    BY <1>1, <1>9
  <2>4. QED
    BY <1>1, <1>5, <1>6, <1>8, <1>10, <2>1, <2>2, <2>3 DEF Shape
<1>12. Serial
  BY <1>10 DEF Serial
<1>13. Order
  <2>1. EndedInOrder
    BY <1>1, <1>5, <1>6 DEF EndedInOrder
  <2>2. QED
    BY <1>1, <1>9, <1>10, <2>1 DEF Order
<1>14. Table
  <2>1. model \notin Books
    <3>1. \A book \in Books : DOMAIN book = {"bets", "betSeq", "round"}
      BY DEF Books
    <3>2. DOMAIN << >> = {}
      OBVIOUS
    <3>3. QED
      BY <1>5, <3>1, <3>2
  <2>2. Settling(<< >>)
    <3>1. Ending(<< >>) = {} /\ DOMAIN << >> = {}
      BY Idle
    <3>2. QED
      BY <1>3, <1>9, <2>1, <3>1 DEF Settling
  <2>3. Ledgered
    <3>1. ASSUME NEW a \in DOMAIN db.accounts
          PROVE  db.accounts[a].held = SumFunctionOnSet(Stakes, Held(a))
      <4>1. SumFunctionOnSet(Stakes, {}) = 0
        BY SumEmpty
      <4>2. db.accounts[a].held = 0
        BY <1>2
      <4>3. QED
        BY <1>4, <4>1, <4>2
    <3>2. QED
      BY <1>2, <1>3, <3>1 DEF Ledgered
  <2>4. reply.answer # "hold_not_open"
    BY <1>1 DEF NoReply
  <2>5. QED
    BY <1>1, <1>4, <1>5, <1>9, <1>10, <2>2, <2>3, <2>4 DEF Table
<1>15. QED
  BY <1>11, <1>12, <1>13, <1>14 DEF IInv, Inv

LEMMA CallKeeps == ASSUME IInv, NEW t \in Task, NEW p \in Player, Call(t, p) PROVE IInv'
<1>1. ASSUME NEW seed \in Seeds, Create(t, p, seed)
      PROVE  IInv'
  BY <1>1, CreateBegins, BeganKeeps
<1>2. CASE Join(t, p)
  BY <1>2, JoinBegins, BeganKeeps, RefusedKeeps
<1>3. CASE Submit(t, p)
  BY <1>3, SubmitBegins, BeganKeeps, RefusedKeeps
<1>4. CASE Roll(t, p)
  BY <1>4, RollBegins, BeganKeeps, RefusedKeeps
<1>5. CASE Leave(t, p)
  BY <1>5, LeaveBegins, BeganKeeps, RefusedKeeps
<1>6. CASE Close(t, p)
  BY <1>6, CloseBegins, BeganKeeps, RefusedKeeps
<1>7. ASSUME NEW n \in Amount, NEW data \in BetData, PlaceABet(t, p, n, data)
      PROVE  IInv'
  BY <1>7, BetBegins, BeganKeeps, RefusedKeeps
<1>8. QED
  BY <1>1, <1>2, <1>3, <1>4, <1>5, <1>6, <1>7 DEF Call

LEMMA StutterKeeps == ASSUME IInv, UNCHANGED vars PROVE IInv'
<1>1. SameStores /\ run' = run /\ alarm' = alarm /\ faults' = faults /\ reply' = reply
  BY DEF vars, SameStores
<1>2. run \in [Task -> Tasks] /\ alarm \in BOOLEAN /\ faults \in Nat
      /\ \A t, u \in Task : run[t] # NoTask /\ run[u] # NoTask => t = u
  BY DEF IInv, Inv, Shape, Serial
<1>3. AtRest' <=> AtRest
  BY <1>1 DEF AtRest
<1>4. Uninterrupted => reply'.answer # "hold_not_open" /\ (AtRest' => Settling(<< >>))
  BY <1>1, <1>3 DEF IInv, Table
<1>5. QED
  BY <1>1, <1>2, <1>4, TasksKeep

LEMMA NextKeeps == ASSUME IInv, [Next]_vars PROVE IInv'
<1>1. ASSUME NEW t \in Task, Step(t)
      PROVE  IInv'
  BY <1>1, StepKeeps
<1>2. ASSUME NEW t \in Task, Alarm(t)
      PROVE  IInv'
  BY <1>2, AlarmBegins, BeganKeeps, SpentKeeps
<1>3. ASSUME NEW t \in Task, NEW p \in Player, Call(t, p)
      PROVE  IInv'
  BY <1>3, CallKeeps
<1>4. ASSUME NEW t \in Task, NEW key \in OperatorKey, OperatorClose(t, key)
      PROVE  IInv'
  BY <1>4, OperatorCloseBegins, BeganKeeps, RefusedKeeps
<1>5. CASE Fault
  BY <1>5, FaultKeeps
<1>6. ASSUME NEW p \in Player, LedgerPurge(p)
      PROVE  IInv'
  BY <1>6, PurgeKeeps
<1>7. CASE UNCHANGED vars
  BY <1>7, StutterKeeps
<1>8. QED
  BY <1>1, <1>2, <1>3, <1>4, <1>5, <1>6, <1>7 DEF Next

(***************************************************************************)
(* The inductive invariant, for any number of players, seats, tasks and    *)
(* faults: the types, the order of every plan's writes beside the stores,  *)
(* and, of an uninterrupted table, the agreement of the book, the ledger   *)
(* and the writes still to do. The theorems below are read off it.         *)
(***************************************************************************)
THEOREM AlwaysIInv == Spec => []IInv
<1>1. Init => IInv
  BY InitInv
<1>2. IInv /\ [Next]_vars => IInv'
  BY NextKeeps
<1>3. QED
  BY <1>1, <1>2, PTL DEF Spec

-----------------------------------------------------------------------------
(* What a session promises *)

LEMMA MembersAre == ASSUME NEW S, NEW list \in Seq(S) PROVE ToSet(list) \subseteq S
<1>1. DOMAIN list = 1 .. Len(list) /\ \A i \in 1 .. Len(list) : list[i] \in S
  OBVIOUS
<1>2. QED
  BY <1>1 DEF ToSet

(***************************************************************************)
(* Whatever calls, faults, alarms and purges meet a session of any size,   *)
(* its storage, its rows in the index and the results, and what it runs    *)
(* keep their types, and no account it moves is ever overdrawn.            *)
(***************************************************************************)
THEOREM SessionTypes == Spec => []TypeOK
<1>1. IInv => TypeOK
  <2> SUFFICES ASSUME IInv PROVE TypeOK
    OBVIOUS
  <2>1. Shape
    BY DEF IInv, Inv
  <2>2. storage \in [meta : Metas, model : Boards \cup {<< >>}, outcome : Statuses \cup {"none"},
                     operatorClose : OperatorKey \cup {NoKey}]
    BY <2>1 DEF Shape
  <2>3. meta \in Metas
    BY <2>2 DEF meta
  <2>4. /\ meta.phase \in Phase /\ meta.members \in Seq(Player) /\ Len(meta.members) <= Seats
        /\ meta.cursor \in 0 .. MaxRolls /\ meta.deadline \in BOOLEAN
    BY <2>3 DEF Metas
  <2>5. Seated \subseteq Player
    BY <2>4, MembersAre DEF Seated
  <2>6. index.phase \in {"none", "open", "active"} /\ index.players \in Seq(Player)
    BY <2>1 DEF Shape
  <2>7. ToSet(index.players) \subseteq Player
    BY <2>6, MembersAre
  <2>8. \A a \in DOMAIN db.accounts : db.accounts[a].held \in 0 .. db.accounts[a].balance
    <3>1. \A a \in DOMAIN db.accounts : /\ db.accounts[a] \in [balance : Nat, held : Nat]
                                        /\ db.accounts[a].held <= db.accounts[a].balance
      BY <2>1 DEF Shape, Sound
    <3>2. QED
      BY <3>1
  <2>9. \A t \in Task : run[t] = NoTask \/ run[t].who \in Player \cup OperatorKey \cup {NoKey}
    BY <2>1 DEF Shape, Tasks
  <2>10. /\ storage.outcome \in {"none", "resolved", "abandoned"}
         /\ storage.operatorClose \in OperatorKey \cup {NoKey}
    BY <2>2 DEF Statuses
  <2>11. alarm \in BOOLEAN /\ result \in {"none", "resolved", "abandoned"} /\ erased \subseteq Erasable
    BY <2>1 DEF Shape, Statuses
  <2>12. QED
    BY <2>4, <2>5, <2>6, <2>7, <2>8, <2>9, <2>10, <2>11 DEF TypeOK
<1>2. QED
  BY <1>1, AlwaysIInv, PTL

(***************************************************************************)
(* What ending writes outside the object comes in its order, wherever the  *)
(* object is lost on the way: off the index before the phase is terminal,  *)
(* in the results before it is resolved, on the leaderboard at most once   *)
(* and after it.                                                           *)
(***************************************************************************)
THEOREM SessionEndsInOrder == Spec => []EndedInOrder
<1>1. IInv => EndedInOrder
  BY DEF IInv, Inv, Order
<1>2. QED
  BY <1>1, AlwaysIInv, PTL

\* Only a write of a transition changes the session's storage or its result.
LEMMA OnlyWritesChange ==
  ASSUME IInv, [Next]_vars
  PROVE  (storage' = storage /\ result' = result) \/ \E t \in Task : \E v : Onward(t, v)
<1> DEFINE Still == storage' = storage /\ result' = result
<1>1. ASSUME NEW t \in Task, Began(t) \/ Refused(t)
      PROVE  Still
  BY <1>1 DEF Began, Refused, Start, Refuse, Stored
<1>2. ASSUME NEW t \in Task, Step(t)
      PROVE  Still \/ \E v : Onward(t, v)
  <2>1. Thrown(t) \/ \E v : Onward(t, v)
    BY <1>2, StepIs DEF IInv, Inv
  <2>2. Thrown(t) => Still
    BY DEF Thrown, Stored
  <2>3. QED
    BY <2>1, <2>2
<1>3. ASSUME NEW t \in Task, Alarm(t)
      PROVE  Still
  BY <1>1, <1>3, AlarmBegins
<1>4. ASSUME NEW t \in Task, NEW p \in Player, Call(t, p)
      PROVE  Still
  <2>1. Began(t) \/ Refused(t)
    <3>1. ASSUME NEW seed \in Seeds, Create(t, p, seed)
          PROVE  Began(t)
      BY <3>1, CreateBegins
    <3>2. ASSUME NEW n \in Amount, NEW data \in BetData, PlaceABet(t, p, n, data)
          PROVE  Began(t) \/ Refused(t)
      BY <3>2, BetBegins
    <3>3. CASE Join(t, p) \/ Submit(t, p) \/ Roll(t, p) \/ Leave(t, p) \/ Close(t, p)
      BY <3>3, JoinBegins, SubmitBegins, RollBegins, LeaveBegins, CloseBegins
    <3>4. QED
      BY <1>4, <3>1, <3>2, <3>3 DEF Call
  <2>2. QED
    BY <1>1, <2>1
<1>5. ASSUME NEW t \in Task, NEW key \in OperatorKey, OperatorClose(t, key)
      PROVE  Still
  BY <1>1, <1>5, OperatorCloseBegins
<1>6. (Fault => Still) /\ \A p \in Player : LedgerPurge(p) => Still
  BY DEF Fault, LedgerPurge, Stored
<1>7. UNCHANGED vars => Still
  BY DEF vars
<1>8. QED
  BY <1>2, <1>3, <1>4, <1>5, <1>6, <1>7 DEF Next

\* The write a plan begins with keeps to what the plan keeps to.
LEMMA OnwardIs ==
  ASSUME IInv, NEW t \in Task, NEW v, Onward(t, v)
  PROVE  LET h == run[t].todo[1]
         IN /\ meta' = IF h.do = "meta" THEN h.meta ELSE meta
            /\ storage'.outcome = IF h.do = "outcome" THEN h.status ELSE storage.outcome
            /\ result' = IF h.do = "result" /\ result = "none" THEN h.status ELSE result
            /\ h.do = "meta" => ~Terminal(meta.phase) /\ Seated \ Leaver(run[t]) \subseteq ToSet(h.meta.members)
            /\ h.do = "outcome" => storage.outcome = "none"
            /\ h.do = "result" /\ Mode = "match" /\ h.status = "abandoned" => ~IsComplete(model, meta.members)
<1> DEFINE a == run[t].todo
           h == a[1]
<1>1. Shape /\ Orderly(run[t])
  BY DEF IInv, Inv, Order
<1>2. a \in Plans /\ a # << >> /\ h \in Writes \cup Effects /\ Perform(t, h)
  BY DEF Onward
<1>3. \A what : 1 \in Doing(a, what) <=> h.do = what
  BY <1>2, FirstIs
<1>4. /\ meta' = IF h.do = "meta" THEN h.meta ELSE meta
      /\ storage'.outcome = IF h.do = "outcome" THEN h.status ELSE storage.outcome
      /\ result' = IF h.do = "result" /\ result = "none" THEN h.status ELSE result
  BY <1>1, <1>2, PerformIs
<1>5. MetaFits(run[t]) /\ OutcomeFits(a) /\ ResultFits(a)
  BY <1>1 DEF Orderly
<1>6. h.do = "meta" => ~Terminal(meta.phase) /\ Seated \ Leaver(run[t]) \subseteq ToSet(h.meta.members)
  BY <1>3, <1>5 DEF MetaFits
<1>7. h.do = "outcome" => storage.outcome = "none"
  BY <1>3, <1>5 DEF OutcomeFits
<1>8. h.do = "result" /\ Mode = "match" /\ h.status = "abandoned" => ~IsComplete(model, meta.members)
  BY <1>3, <1>5 DEF ResultFits
<1>9. QED
  BY <1>4, <1>6, <1>7, <1>8

(***************************************************************************)
(* No transition writes back over what another wrote since it read: a      *)
(* player keeps the seat they were told they have until they leave it, and *)
(* the phase, the roster, the outcome and the result of an ended session   *)
(* change no more.                                                         *)
(***************************************************************************)
THEOREM SessionsWriteNothingBack == Spec => NothingWrittenBack
<1> DEFINE Kept == /\ \A p \in Seated : SeatKept(p)
                   /\ Terminal(meta.phase) => EndedStays
<1>1. IInv /\ [Next]_vars => Kept
  <2> SUFFICES ASSUME IInv, [Next]_vars PROVE Kept
    OBVIOUS
  <2>1. CASE storage' = storage /\ result' = result
    <3>1. meta' = meta
      BY <2>1 DEF meta
    <3>2. QED
      BY <2>1, <3>1 DEF SeatKept, EndedStays, Seated
  <2>2. ASSUME NEW t \in Task, NEW v, Onward(t, v)
        PROVE  Kept
    <3> DEFINE h == run[t].todo[1]
    <3>1. /\ meta' = IF h.do = "meta" THEN h.meta ELSE meta
          /\ storage'.outcome = IF h.do = "outcome" THEN h.status ELSE storage.outcome
          /\ result' = IF h.do = "result" /\ result = "none" THEN h.status ELSE result
          /\ h.do = "meta" => ~Terminal(meta.phase) /\ Seated \ Leaver(run[t]) \subseteq ToSet(h.meta.members)
          /\ h.do = "outcome" => storage.outcome = "none"
      BY <2>2, OnwardIs
    <3> HIDE DEF h
    <3>2. ASSUME NEW p \in Seated
          PROVE  SeatKept(p)
      <4>1. CASE h.do = "meta" /\ p \notin Leaver(run[t])
        BY <3>1, <4>1 DEF SeatKept
      <4>2. CASE p \in Leaver(run[t])
        <5>1. run[t].op = "leave" /\ run[t].who = p
          BY <4>2 DEF Leaver
        <5>2. QED
          BY <5>1 DEF SeatKept
      <4>3. CASE h.do # "meta"
        BY <3>1, <4>3 DEF SeatKept, Seated
      <4>4. QED
        BY <4>1, <4>2, <4>3
    <3>3. Terminal(meta.phase) => EndedStays
      BY <3>1 DEF EndedStays
    <3>4. QED
      BY <3>2, <3>3
  <2>3. QED
    BY <2>1, <2>2, OnlyWritesChange
<1>2. QED
  BY <1>1, AlwaysIInv, PTL DEF Spec, NothingWrittenBack

(***************************************************************************)
(* A match everyone has submitted to is never recorded as abandoned, also  *)
(* when its deadline passes before its resolution is durable.              *)
(***************************************************************************)
THEOREM CompleteIsNeverAbandoned == Spec => CompleteIsResolved
<1> DEFINE Right == Mode = "match" /\ result' = "abandoned" /\ result # result' => ~IsComplete(model, meta.members)
<1>1. IInv /\ [Next]_vars => Right
  <2> SUFFICES ASSUME IInv, [Next]_vars PROVE Right
    OBVIOUS
  <2>1. CASE result' = result
    BY <2>1
  <2>2. ASSUME NEW t \in Task, NEW v, Onward(t, v)
        PROVE  Right
    <3> DEFINE h == run[t].todo[1]
    <3>1. /\ result' = IF h.do = "result" /\ result = "none" THEN h.status ELSE result
          /\ h.do = "result" /\ Mode = "match" /\ h.status = "abandoned" => ~IsComplete(model, meta.members)
      BY <2>2, OnwardIs
    <3> HIDE DEF h
    <3>2. QED
      BY <3>1
  <2>3. QED
    BY <2>1, <2>2, OnlyWritesChange
<1>2. QED
  BY <1>1, AlwaysIInv, PTL DEF Spec, CompleteIsResolved

(***************************************************************************)
(* At a table that is neither lost nor purged while it runs, the book and  *)
(* the ledger agree between transitions: every bet has an open hold of     *)
(* the bettor's own for the stake, and every open hold is a bet's.         *)
(***************************************************************************)
THEOREM BetsStayBacked == ASSUME Uninterrupted PROVE Spec => []BetsBacked
<1>1. IInv => BetsBacked
  <2> SUFFICES ASSUME IInv, AtRest, Mode = "table", meta # NoMeta PROVE Backed = Reserved
    BY DEF BetsBacked
  <2>1. Table /\ Shape
    BY DEF IInv, Inv
  <2>2. model \in Books
    BY <2>1 DEF Shape, Played, Boards
  <2>3. Settling(<< >>) /\ erased = {}
    BY <2>1 DEF Table
  <2>4. Tickets(model) = Reserved
    BY <2>2, <2>3, Idle DEF Settling
  <2>5. Backed = Tickets(model)
    BY <2>3 DEF Backed, Tickets
  <2>6. QED
    BY <2>4, <2>5
<1>2. QED
  BY <1>1, AlwaysIInv, PTL

(***************************************************************************)
(* At such a table a bet is decided once: a win is paid only beside a      *)
(* released stake, in its amount and to its owner, and no settling write   *)
(* finds its hold settled already.                                         *)
(***************************************************************************)
THEOREM BetsAreDecidedOnce == ASSUME Uninterrupted PROVE Spec => []DecidedOnce
<1>1. IInv => DecidedOnce
  BY DEF IInv, Table, Ledgered, DecidedOnce, Bettor
<1>2. QED
  BY <1>1, AlwaysIInv, PTL

(***************************************************************************)
(* Such a table, once it has ended, holds nobody's money.                  *)
(***************************************************************************)
THEOREM EndedTablesHoldNothing == ASSUME Uninterrupted PROVE Spec => []NothingHeldAtEnd
<1>1. IInv => NothingHeldAtEnd
  BY DEF IInv, Table, NothingHeldAtEnd
<1>2. QED
  BY <1>1, AlwaysIInv, PTL
=============================================================================
