-------------------------------- MODULE Session --------------------------------
(***************************************************************************)
(* One game session: a Durable Object that runs its transitions one at a   *)
(* time, each a sequence of awaited writes to four places: its own         *)
(* storage, the ledger, the index of sessions in flight and the results.   *)
(*                                                                         *)
(* A transition reads storage when it starts, so all it will write is      *)
(* known then: the model keeps it as the list of writes still to do and    *)
(* performs one per step, in the order of the code. A write may throw, and *)
(* the object may be lost between any two; the rest of the list is lost    *)
(* with it and what was written stays written.                             *)
(***************************************************************************)
EXTENDS LedgerData, GameModels

CONSTANTS
  Task,       \* transitions in progress or queued on the object
  Player,     \* the users of the session
  Chip,       \* the currency the table plays in
  Deposit,    \* User -> the ref of what a player owned before the session
  Bankroll,   \* how much that is
  OperatorKey,\* the idempotency keys management clients close with
  NoKey,      \* no such key
  Mode,       \* "match" or "table"
  Seats,      \* a match's roster, a table's seats
  Timed,      \* whether the game sets a turn timeout
  Erasable,   \* who the ledger's purge may erase while the session runs
  MaxBets,    \* bound on the bets placed
  MaxRolls,   \* bound on the events run
  MaxFaults   \* bound on lost objects and failed calls

ASSUME ModeAssumption == Mode \in {"match", "table"} /\ Seats \in Nat \ {0} /\ Timed \in BOOLEAN

ASSUME FaultAssumption == MaxFaults \in Nat /\ MaxBets \in Nat /\ MaxRolls \in Nat

ASSUME PurseAssumption == Player \subseteq User /\ Chip \in Currency /\ Bankroll \in Nat

\* The refs of the n-th bet carry the session's id and n: its hold's, its win's, its settlement's.
Minted(n) == {BetRef[n], WinRef[BetRef[n]], Derived(BetRef[n], "resolve")}

ASSUME RefAssumption ==
  \A n \in 0 .. MaxBets - 1 :
    /\ BetRef[n] \in Ref /\ WinRef[BetRef[n]] \in Ref
    /\ BetRef[n] # WinRef[BetRef[n]]
    /\ Derived(BetRef[n], "resolve") \notin {BetRef[n], WinRef[BetRef[n]]}
    /\ \A m \in 0 .. MaxBets - 1 : m # n => Minted(m) \cap Minted(n) = {}
    /\ \A p \in User : Deposit[p] \notin Minted(n)

VARIABLES
  storage,  \* the object's own storage: meta, model, outcome, operatorClose
  alarm,    \* whether the deadline alarm is set
  index,    \* the session's row in pithy_multiplayer_sessions
  result,   \* the session's row in pithy_multiplayer_results
  board,    \* how often the session was published to the leaderboard
  db,       \* the ledger
  run,      \* Task -> the transition it runs
  reply,    \* what the last call to finish was answered
  closer,   \* history: the operator key whose call ended the session
  erased,   \* who the ledger's purge has erased
  faults    \* how many faults there have been

vars == <<storage, alarm, index, result, board, db, run, reply, closer, erased, faults>>

NoRow == [players |-> << >>, phase |-> "none"]

NoTask == [op |-> "idle", who |-> NoKey, todo |-> << >>]

NoReply == [op |-> "none", who |-> NoKey, answer |-> "none"]

Phase == {"none", "open", "active", "resolved", "abandoned"}

Terminal(phase) == phase \in {"resolved", "abandoned"}

Seeds == [0 .. MaxRolls - 1 -> Outcome]

NoMeta == [phase |-> "none", members |-> << >>, cursor |-> 0, deadline |-> FALSE, seed |-> << >>]

Purse(p) == <<p, Chip>>

Init ==
  /\ storage = [meta |-> NoMeta, model |-> << >>, outcome |-> "none", operatorClose |-> NoKey]
  /\ alarm = FALSE
  /\ index = NoRow
  /\ result = "none"
  /\ board = 0
  /\ db = [accounts |-> [a \in Account |-> [balance |-> Bankroll, held |-> 0]],
           entries  |-> [r \in {Deposit[p] : p \in User} |->
                           NewEntry(Purse(CHOOSE p \in User : Deposit[p] = r), "credit", Bankroll, NoRef)],
           holds    |-> NoRows]
  /\ run = [t \in Task |-> NoTask]
  /\ reply = NoReply
  /\ closer = NoKey
  /\ erased = {}
  /\ faults = 0

-----------------------------------------------------------------------------
(* What one write does, and when it throws *)

Model(state) == [do |-> "model", state |-> state]

Meta(meta) == [do |-> "meta", meta |-> meta]

List(meta) == [do |-> "list", meta |-> meta]

\* ledger.release and ledger.capture as a table calls them: requireOpenHold first.
HoldError(ref) ==
  IF ref \notin DOMAIN db.holds THEN "hold_not_found"
  ELSE IF db.holds[ref].status # "open" THEN "hold_not_open"
  ELSE "none"

\* The batch a ledger effect issues, once its own reads let it.
EffectBatch(step) ==
  CASE step.do = "hold"    -> HoldBatch(Purse(step.user), step.amount, step.ref)
    [] step.do = "credit"  -> PostBatch("credit", Purse(step.user), step.amount, step.ref)
    [] step.do = "release" -> ReleaseBatch(step.ref, db.holds[step.ref].account, db.holds[step.ref].amount)
    [] step.do = "capture" -> CaptureBatch(step.ref, db.holds[step.ref].account,
                                           db.holds[step.ref].amount, db.holds[step.ref].amount)

IsEffect(step) == step.do \in {"hold", "credit", "release", "capture"}

\* Two writes may fail for what the ledger holds; a duplicate ref is a silent no-op.
EffectError(step) ==
  IF step.do \in {"release", "capture"} /\ HoldError(step.ref) # "none" THEN HoldError(step.ref)
  ELSE IF step.do = "hold" /\ Verdict(db, EffectBatch(step)) = "CHECK" THEN "insufficient_funds"
  ELSE "none"

\* Settling a seat out of a session that is ending forgives a hold a purge erased.
Forgives(op, error) == op \in {"close", "operatorClose"} /\ error = "hold_not_found"

Throws(op, step) ==
  IsEffect(step) /\ EffectError(step) # "none" /\ ~Forgives(op, EffectError(step))

Settled(step) == IF EffectError(step) = "none" THEN Run(db, EffectBatch(step)) ELSE db

Perform(t, step) ==
  /\ storage' =
       CASE step.do = "model"   -> [storage EXCEPT !.model = step.state]
         [] step.do = "meta"    -> [storage EXCEPT !.meta = step.meta]
         [] step.do = "outcome" -> [storage EXCEPT !.outcome = step.status]
         [] step.do = "key"     -> [storage EXCEPT !.operatorClose = run[t].who]
         [] OTHER               -> storage
  /\ db' = IF IsEffect(step) THEN Settled(step) ELSE db
  /\ index' = CASE step.do = "list"   -> [players |-> step.meta.members, phase |-> step.meta.phase]
                [] step.do = "unlist" -> NoRow
                [] OTHER              -> index
  \* INSERT .. ON CONFLICT DO NOTHING: the first result stands.
  /\ result' = IF step.do = "result" /\ result = "none" THEN step.status ELSE result
  /\ board' = IF step.do = "publish" THEN board + 1 ELSE board
  /\ alarm' = CASE step.do = "arm" -> TRUE [] step.do = "disarm" -> FALSE [] OTHER -> alarm
  /\ closer' = IF step.do = "meta" /\ run[t].op = "operatorClose" THEN run[t].who ELSE closer

-----------------------------------------------------------------------------
(* The task: start, step, fail *)

Free_Unqueued == TRUE

\* serially: a transition starts only once the one before it has settled.
Free == \A t \in Task : run[t] = NoTask

Answer(t, op, who, answer) ==
  /\ run' = [run EXCEPT ![t] = NoTask]
  /\ reply' = [op |-> op, who |-> who, answer |-> answer]

Stored == <<storage, alarm, index, result, board, db, closer>>

\* A call that ends in its first reads.
Refuse(t, op, who, error) ==
  /\ run[t] = NoTask /\ Free
  /\ Answer(t, op, who, error)
  /\ UNCHANGED <<Stored, erased, faults>>

\* A call that goes on to write.
Start(t, op, who, todo) ==
  /\ run[t] = NoTask /\ Free
  /\ run' = [run EXCEPT ![t] = [op |-> op, who |-> who, todo |-> todo]]
  /\ reply' = NoReply
  /\ UNCHANGED <<Stored, erased, faults>>

Step(t) ==
  LET w == run[t]
      step == Head(w.todo)
  IN /\ w.todo # << >>
     /\ \/ /\ Throws(w.op, step)
           /\ Answer(t, w.op, w.who, EffectError(step))
           /\ UNCHANGED Stored
        \/ /\ ~Throws(w.op, step)
           /\ Perform(t, step)
           /\ IF Len(w.todo) = 1
                THEN Answer(t, w.op, w.who, "done")
                ELSE /\ run' = [run EXCEPT ![t].todo = Tail(@)]
                     /\ reply' = NoReply
     /\ UNCHANGED <<erased, faults>>

\* The object is lost, or a call to D1 fails: every transition on it ends where it stands.
Fault ==
  /\ faults < MaxFaults
  /\ \E t \in Task : run[t] # NoTask
  /\ run' = [t \in Task |-> NoTask]
  /\ reply' = NoReply
  /\ faults' = faults + 1
  /\ UNCHANGED <<Stored, erased>>

-----------------------------------------------------------------------------
(* The programs of the transitions *)

meta == storage.meta

model == storage.model

With(phase, members) == [meta EXCEPT !.phase = phase, !.members = members]

\* The index row goes first: a failure leaves the session live, never terminal and listed.
EndInFlight_MetaFirst(status, m) ==
  <<Meta([m EXCEPT !.phase = status, !.deadline = FALSE]), [do |-> "unlist"],
    [do |-> "outcome", status |-> status], [do |-> "disarm"]>>

EndInFlight(status, m) ==
  <<[do |-> "unlist"], Meta([m EXCEPT !.phase = status, !.deadline = FALSE]),
    [do |-> "outcome", status |-> status], [do |-> "disarm"]>>

CommitTerminal_ResultLast(status, m) ==
  Append(EndInFlight(status, m), [do |-> "result", status |-> status])

CommitTerminal(status, m) ==
  <<[do |-> "result", status |-> status]>> \o EndInFlight(status, m)

Resolve_PublishFirst(m) == <<[do |-> "publish"]>> \o CommitTerminal("resolved", m)

\* resolve: the publish is last and best-effort, so losing it loses nothing else.
Resolve(m) == Append(CommitTerminal("resolved", m), [do |-> "publish"])

SettleOut_Nothing(book, members) == << >>

\* settleOut: seat by seat, in join order, the model's state written after each.
SettleOut(book, members) ==
  LET left[i \in 0 .. Len(members)] ==
        IF i = 0 THEN [state |-> book, effects |-> << >>]
        ELSE LET seat == OnLeave(left[i - 1].state, members[i])
             IN [state |-> seat.state,
                 effects |-> Append(left[i - 1].effects \o seat.effects, Model(seat.state))]
  IN left[Len(members)].effects

-----------------------------------------------------------------------------
(* The transitions *)

\* Environment: nobody acts for a person already erased.
Acts(p) == p \notin erased

\* A session id is minted by the request that creates it, so a create is never retried on it.
Create(t, p, seed) ==
  LET m == [meta EXCEPT !.phase = IF Mode = "table" THEN "active" ELSE "open",
                        !.members = <<p>>, !.seed = seed]
  IN /\ Acts(p) /\ meta = NoMeta /\ index = NoRow /\ model = << >>
     /\ Start(t, "create", p,
              (IF Mode = "table" THEN <<Model(EmptyBook)>> ELSE << >>) \o <<List(m), Meta(m)>>)

JoinWrites_NoAlarm(fills, m) ==
  (IF fills THEN <<Model(NewMatch)>> ELSE << >>) \o <<List(m), Meta(m)>>

\* A join that fills a match's roster starts it, and sets its alarm before it says so.
JoinWrites(fills, m) ==
  (IF fills THEN <<Model(NewMatch)>> ELSE << >>)
  \o (IF fills /\ Timed THEN <<[do |-> "arm"]>> ELSE << >>) \o <<List(m), Meta(m)>>

Join(t, p) ==
  LET members == Append(meta.members, p)
      fills == Mode = "match" /\ Len(members) = Seats
      m == IF fills THEN [With("active", members) EXCEPT !.deadline = Timed]
                    ELSE With(meta.phase, members)
      new == meta # NoMeta /\ p \notin ToSet(meta.members)
      full == Len(meta.members) >= Seats
  IN /\ Acts(p)
     /\ \/ meta = NoMeta /\ Refuse(t, "join", p, "session_not_found")
        \/ p \in ToSet(meta.members) /\ Refuse(t, "join", p, "done")
        \/ new /\ Terminal(meta.phase) /\ Refuse(t, "join", p, "invalid_transition")
        \/ new /\ ~Terminal(meta.phase) /\ full /\ Refuse(t, "join", p, "session_full")
        \/ new /\ ~Terminal(meta.phase) /\ ~full /\ Start(t, "join", p, JoinWrites(fills, m))

\* applyAction's first reads: a current member, and a session in play.
MayAct(p) == p \in ToSet(meta.members) /\ meta.phase = "active"

RefuseAction(t, op, p) ==
  /\ meta # NoMeta /\ Acts(p) /\ ~MayAct(p)
  /\ Refuse(t, op, p, IF p \in ToSet(meta.members) THEN "invalid_transition" ELSE "not_a_member")

Submit(t, p) ==
  LET next == Submission(model, p)
  IN /\ Mode = "match" /\ Acts(p)
     /\ \/ RefuseAction(t, "submit", p)
        \/ MayAct(p) /\ ~MaySubmit(model, p) /\ Refuse(t, "submit", p, "invalid_transition")
        \/ /\ MayAct(p) /\ MaySubmit(model, p)
           /\ Start(t, "submit", p,
                    <<Model(next)>> \o (IF IsComplete(next, meta.members) THEN Resolve(meta)
                                                                         ELSE <<Meta(meta)>>))

\* The effects go before the state they belong to: an effect that throws refuses the action.
Settle_StateFirst(effects, next, m) == <<Model(next)>> \o effects \o <<Meta(m)>>

Settle(effects, next, m) == effects \o <<Model(next), Meta(m)>>

PlaceABet(t, p, n, data) ==
  LET bet == PlaceBet(model, p, n, data)
  IN /\ Mode = "table" /\ Acts(p)
     /\ MayAct(p) => model.betSeq < MaxBets
     /\ \/ RefuseAction(t, "bet", p)
        \/ MayAct(p) /\ ~MayBet(model, p, data) /\ Refuse(t, "bet", p, "invalid_transition")
        \/ MayAct(p) /\ MayBet(model, p, data) /\ Start(t, "bet", p, Settle(bet.effects, bet.state, meta))

\* A draw moves the cursor; the state and the cursor are two writes.
Spent(m) == [m EXCEPT !.cursor = @ + 1]

Roll(t, p) ==
  LET event == RunEvent(model, meta.seed[meta.cursor])
  IN /\ Mode = "table" /\ Acts(p)
     /\ MayAct(p) => meta.cursor < MaxRolls
     /\ \/ RefuseAction(t, "roll", p)
        \/ MayAct(p) /\ Start(t, "roll", p, Settle(event.effects, event.state, Spent(meta)))

\* One who is not seated is answered and changes nothing: "departed" stands for the view of
\* a player who left and for the refusal of one who never joined.
Leave(t, p) ==
  LET m == With(meta.phase, Keeping(meta.members, ToSet(meta.members) \ {p}))
      seat == OnLeave(model, p)
  IN /\ Mode = "table" /\ meta # NoMeta
     /\ \/ p \notin ToSet(meta.members) /\ Refuse(t, "leave", p, "departed")
        \/ p \in ToSet(meta.members) /\ Terminal(meta.phase) /\ Refuse(t, "leave", p, "done")
        \/ /\ p \in ToSet(meta.members) /\ ~Terminal(meta.phase)
           /\ Start(t, "leave", p,
                    seat.effects \o <<Model(seat.state)>>
                    \o (IF m.members = << >> THEN CommitTerminal("resolved", m) ELSE <<List(m), Meta(m)>>))

Close(t, p) ==
  /\ Mode = "table" /\ meta # NoMeta
  /\ \/ p \notin ToSet(meta.members) /\ Refuse(t, "close", p, "not_a_member")
     \/ p \in ToSet(meta.members) /\ Terminal(meta.phase) /\ Refuse(t, "close", p, "done")
     \/ /\ p \in ToSet(meta.members) /\ ~Terminal(meta.phase)
        /\ Start(t, "close", p, SettleOut(model, meta.members) \o CommitTerminal("resolved", meta))

OperatorClose(t, key) ==
  /\ meta # NoMeta
  /\ \/ storage.operatorClose = key /\ Refuse(t, "operatorClose", key, "replayed")
     \/ /\ storage.operatorClose # key /\ Terminal(meta.phase)
        /\ Refuse(t, "operatorClose", key, "invalid_transition")
     \/ /\ storage.operatorClose # key /\ ~Terminal(meta.phase)
        /\ Start(t, "operatorClose", key,
                 (IF Mode = "table" THEN SettleOut(model, meta.members) ELSE << >>)
                 \o EndInFlight("abandoned", meta) \o <<[do |-> "key"]>>)

\* The alarm is delivered again until its handler returns, and is spent when it has.
Alarm_Abandons(t) ==
  /\ alarm /\ run[t] = NoTask /\ Free
  /\ IF Terminal(meta.phase) \/ ~meta.deadline
       THEN alarm' = FALSE /\ UNCHANGED <<storage, index, result, board, db, run, reply, closer, erased, faults>>
       ELSE Start(t, "alarm", NoKey, CommitTerminal("abandoned", meta))

Alarm(t) ==
  /\ alarm /\ run[t] = NoTask /\ Free
  /\ IF Terminal(meta.phase) \/ ~meta.deadline
       THEN alarm' = FALSE /\ UNCHANGED <<storage, index, result, board, db, run, reply, closer, erased, faults>>
       ELSE Start(t, "alarm", NoKey,
                  IF IsComplete(model, meta.members) THEN Resolve(meta) ELSE CommitTerminal("abandoned", meta))

\* The ledger's step of an account's purge, at any moment of the session's life.
LedgerPurge(p) ==
  /\ p \in Erasable /\ p \notin erased
  /\ db' = Purged(db, p)
  /\ erased' = erased \cup {p}
  /\ UNCHANGED <<storage, alarm, index, result, board, run, reply, closer, faults>>

Call(t, p) ==
  \/ \E seed \in Seeds : Create(t, p, seed)
  \/ Join(t, p) \/ Submit(t, p) \/ Roll(t, p) \/ Leave(t, p) \/ Close(t, p)
  \/ \E n \in Amount, data \in BetData : PlaceABet(t, p, n, data)

Next ==
  \/ \E t \in Task :
       \/ Step(t) \/ Alarm(t)
       \/ \E p \in Player : Call(t, p)
       \/ \E key \in OperatorKey : OperatorClose(t, key)
  \/ Fault
  \/ \E p \in Player : LedgerPurge(p)

Spec == Init /\ [][Next]_vars

(***************************************************************************)
(* A transition started is carried on (the object is alive while it runs), *)
(* and the platform delivers an alarm until its handler returns.           *)
(***************************************************************************)
Fairness == \A t \in Task : WF_vars(Step(t)) /\ WF_vars(Alarm(t))

FairSpec == Spec /\ Fairness
=============================================================================
