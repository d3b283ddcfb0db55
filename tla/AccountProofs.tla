----------------------------- MODULE AccountProofs -----------------------------
(***************************************************************************)
(* Theorems about the account and its purge for any number of requests and *)
(* capabilities, any window and any times.                                 *)
(*                                                                         *)
(* A purge decides on the account once, when its instance starts, and      *)
(* erases in steps that may come days later. What makes that safe is that  *)
(* an account that was due stays due or gone (Doomed): a restoration is    *)
(* refused by the database's own clock, and no other transition moves a    *)
(* deleted account away from its deletion.                                 *)
(*                                                                         *)
(* What the history says rests on the batch: a row is written with the     *)
(* move it is of, and its hook is owed by the request that wrote it.       *)
(***************************************************************************)
EXTENDS AccountProperties, Induction, TLAPS

\* A request that is to move the columns took its time from the clock.
CallsSound ==
  \A c \in Caller :
    /\ call[c].pc = "read" => call[c].op \in Operation
    /\ call[c].pc = "reread" => call[c].op \in Operation \ {"reinstate"}
    /\ call[c].pc \in {"read", "move", "reread"} => call[c].at \in 1 .. clock

\* Where an instance stands in its list of steps.
RunsSound ==
  \A id \in Instance :
    /\ run[id].pc \in {"none", "due"} => run[id].item = 0
    /\ run[id].pc \in {"hold", "stuck"} => run[id].item \in 1 .. CompleteStep
    /\ run[id].pc = "record" => run[id].item \in Erasing \ data

\* What a purge has gone past is erased, and the account's row goes with auth's own step.
Erased ==
  /\ \A id \in Instance : \A x \in Erasing : x < run[id].item => x \notin data
  /\ AuthStep \notin data => ~user.present

Purging(id) == run[id].pc \in {"hold", "step", "record"}

\* Nothing is erased, and no purge is about to erase, unless the account is due or gone.
OnlyDoomed ==
  /\ data # EveryStep => Doomed
  /\ \A id \in Instance : Purging(id) => Doomed

\* What a purge erased under the hold that stands is the step it is still at, or its last.
OneUnderHold ==
  \A id \in Instance : \A x \in EveryStep : <<id, x>> \in overrun =>
    /\ held
    /\ \/ run[id].item = x
       \/ run[id].pc \notin {"step", "record"}
       \/ run[id].item = CompleteStep

Inv == TypeOK /\ CallsSound /\ RunsSound /\ Erased /\ OnlyDoomed /\ OneUnderHold /\ HoldStops /\ RecordIsTrue

LEMMA Steps ==
  /\ Erasing \subseteq EveryStep
  /\ EveryStep \subseteq 1 .. CompleteStep - 1
  /\ AuthStep \in Erasing /\ MailStep \notin Erasing /\ CompleteStep \notin Erasing
  /\ Retained \cap Erasing = {} /\ Retained \subseteq EveryStep
  /\ EveryStep \ Erasing \subseteq Retained
  /\ CompleteStep \in Nat /\ MailStep \in 1 .. CompleteStep - 1
  BY AccountBounds DEF Erasing, EveryStep, AuthStep, MailStep, CompleteStep

LEMMA IdleIs == Gone \in Columns /\ Present \in Columns /\ Idle \in Call
<1>1. Gone \in Columns /\ Present \in Columns
  BY DEF Gone, Present, Never, Columns
<1>2. QED
  BY <1>1 DEF Idle, Call, Answer, Never

LEMMA InitInv == Init => Inv
<1>1. SUFFICES ASSUME Init PROVE Inv
  OBVIOUS
<1>2. TypeOK
  <2>1. user \in Columns
    BY <1>1, IdleIs DEF Init
  <2>3. call \in [Caller -> Call]
    BY <1>1, IdleIs DEF Init
  <2>4. run \in [Instance -> Run]
    BY <1>1, Steps DEF Init, Run
  <2>5. fired \in [HookName -> Nat] /\ history \in Seq(HistoryRow)
    BY <1>1 DEF Init
  <2>6. clock = 1 /\ calls = 0 /\ data = EveryStep /\ holds = 0 /\ overrun = {} /\ faults = 0
    BY <1>1 DEF Init
  <2>8. held \in BOOLEAN
    BY <1>1 DEF Init
  <2>9. pass.pc \in {"idle", "start"} /\ pass.due \in Nat
    BY <1>1 DEF Init, Never
  <2>7. QED
    BY <2>1, <2>3, <2>4, <2>5, <2>6, <2>8, <2>9 DEF TypeOK
<1>3. CallsSound
  BY <1>1 DEF Init, CallsSound, Idle
<1>4. RunsSound
  BY <1>1 DEF Init, RunsSound
<1>5. Erased
  <2>1. \A x \in Erasing : ~(x < 0)
    BY Steps
  <2>2. QED
    BY <1>1, <2>1, Steps DEF Init, Erased
<1>6. OnlyDoomed /\ OneUnderHold /\ HoldStops /\ RecordIsTrue
  BY <1>1 DEF Init, OnlyDoomed, OneUnderHold, HoldStops, RecordIsTrue, Purging
<1>7. QED
  BY <1>2, <1>3, <1>4, <1>5, <1>6 DEF Inv

-----------------------------------------------------------------------------
(* Steps that erase nothing *)

LEMMA RecordGrows ==
  ASSUME TypeOK, RecordIsTrue, data' \subseteq data, ~user.present => ~user'.present,
         \/ history' = history
         \/ \E row \in HistoryRow : /\ history' = Append(history, row)
                                    /\ row.action = "purge_step" => row.step \notin data'
                                    /\ row.action = "purged" => ~user'.present /\ data' \subseteq Retained
  PROVE  RecordIsTrue'
<1>1. CASE history' = history
  BY <1>1 DEF RecordIsTrue
<1>2. CASE \E row \in HistoryRow : /\ history' = Append(history, row)
                                   /\ row.action = "purge_step" => row.step \notin data'
                                   /\ row.action = "purged" => ~user'.present /\ data' \subseteq Retained
  <2>1. PICK row \in HistoryRow : /\ history' = Append(history, row)
                                  /\ row.action = "purge_step" => row.step \notin data'
                                  /\ row.action = "purged" => ~user'.present /\ data' \subseteq Retained
    BY <1>2
  <2>2. SUFFICES ASSUME NEW i \in DOMAIN history'
                 PROVE  /\ history'[i].action = "purge_step" => history'[i].step \notin data'
                        /\ history'[i].action = "purged" => ~user'.present /\ data' \subseteq Retained
    BY DEF RecordIsTrue
  <2>3. history \in Seq(HistoryRow)
    BY DEF TypeOK
  <2>4. (i \in DOMAIN history /\ history'[i] = history[i]) \/ history'[i] = row
    BY <2>1, <2>2, <2>3
  <2>5. QED
    BY <2>1, <2>4 DEF RecordIsTrue
<1>3. QED
  BY <1>1, <1>2

\* A step that leaves the rows and the purges as they are, or starts a purge, and keeps the
\* account due or gone if it was, keeps what the invariant says of purges.
LEMMA Undisturbed ==
  ASSUME Inv, TypeOK', CallsSound',
         Doomed => Doomed',
         data' = data,
         user'.present = user.present,
         overrun' = {} \/ UNCHANGED <<overrun, held>>,
         \A id \in Instance : \/ run'[id] = run[id]
                              \/ run[id].pc = "none" /\ run'[id] = [pc |-> "due", item |-> 0],
         \/ history' = history
         \/ \E row \in HistoryRow : /\ row.action \notin {"purge_step", "purged"}
                                    /\ history' = Append(history, row)
  PROVE  Inv'
<1>1. RunsSound'
  BY DEF Inv, RunsSound
<1>2. Erased'
  BY DEF Inv, Erased, RunsSound
<1>3. OnlyDoomed'
  BY DEF Inv, OnlyDoomed, Purging, Doomed
<1>4. OneUnderHold' /\ HoldStops'
  BY DEF Inv, OneUnderHold, HoldStops
<1>5. RecordIsTrue'
  BY RecordGrows DEF Inv
<1>6. QED
  BY <1>1, <1>2, <1>3, <1>4, <1>5 DEF Inv

Sound(v) ==
  /\ v.pc = "read" => v.op \in Operation
  /\ v.pc = "reread" => v.op \in Operation \ {"reinstate"}
  /\ v.pc \in {"read", "move", "reread"} => v.at \in 1 .. clock

LEMMA GoesKeeps ==
  ASSUME call \in [Caller -> Call], CallsSound, NEW c \in Caller, NEW v \in Call, Goes(c, v), Sound(v), clock' = clock
  PROVE  call' \in [Caller -> Call] /\ CallsSound'
  BY DEF Goes, CallsSound, Sound

LEMMA ToldIs ==
  ASSUME NEW c \in Caller, call[c] \in Call, NEW answer \in Answer
  PROVE  Told(c, answer) \in Call /\ Sound(Told(c, answer))
<1>1. Idle \in Call /\ call[c].op \in Operation \union {"none"}
  BY IdleIs DEF Call
<1>2. Told(c, answer) \in Call /\ Told(c, answer).pc = "done"
  BY <1>1 DEF Told, Call
<1>3. QED
  BY <1>2 DEF Sound

LEMMA BatchDoes ==
  ASSUME TypeOK, NEW guard \in BOOLEAN, NEW columns \in Columns, NEW row \in HistoryRow, Batch(guard, columns, row),
         row.action \notin {"purge_step", "purged"}, columns.present = user.present
  PROVE  /\ user' \in Columns
         /\ history' \in Seq(HistoryRow)
         /\ user'.present = user.present
         /\ IF user.present /\ guard THEN user' = columns ELSE user' = user
         /\ \/ history' = history
            \/ \E r \in HistoryRow : /\ r.action \notin {"purge_step", "purged"}
                                     /\ history' = Append(history, r)
<1>1. history \in Seq(HistoryRow) /\ user \in Columns
  BY DEF TypeOK
<1>2. CASE user.present /\ guard
  <2>1. user' = columns /\ history' = Append(history, row)
    BY <1>2 DEF Batch
  <2>2. history' \in Seq(HistoryRow)
    BY <1>1, <2>1
  <2>3. QED
    BY <1>2, <2>1, <2>2
<1>3. CASE ~(user.present /\ guard)
  BY <1>1, <1>3 DEF Batch
<1>4. QED
  BY <1>2, <1>3

\* The decisions are answers, and what a lost write finds is moved on from only by a suspension.
LEMMA DecidedIs ==
  ASSUME NEW op \in Operation, NEW u, NEW t
  PROVE  Decided(op, u, t) \in Answer /\ Absent(op) \in Answer \ {"move"}
  BY DEF Decided, Absent, Operation, Answer

LEMMA FoundIs ==
  ASSUME NEW op \in Operation \ {"reinstate"}, NEW u, NEW t
  PROVE  Found(op, u, t) \in Answer
  BY DEF Found, Operation, Answer

\* A request that only changes its own locals.
LEMMA OwnLocals ==
  ASSUME Inv, NEW c \in Caller, NEW v \in Call, Goes(c, v), Sound(v),
         UNCHANGED <<clock, user, history, holdVars, purgeVars>>,
         fired' \in [HookName -> Nat], calls' \in Nat
  PROVE  Inv'
<1>1. call' \in [Caller -> Call] /\ CallsSound'
  BY GoesKeeps DEF Inv, TypeOK
<1>2. TypeOK'
  BY <1>1 DEF Inv, TypeOK, holdVars, purgeVars
<1>3. Doomed => Doomed'
  BY DEF Doomed, Due
<1>4. data' = data /\ user' = user /\ history' = history /\ UNCHANGED <<overrun, held>> /\ run' = run
  BY DEF holdVars, purgeVars
<1>5. QED
  BY <1>1, <1>2, <1>3, <1>4, Undisturbed

LEMMA BeginKeepsInv ==
  ASSUME Inv, NEW c \in Caller, NEW op \in Operation, NEW until \in {Never} \union Time, Begin(c, op, until)
  PROVE  Inv'
<1> DEFINE v == [Idle EXCEPT !.pc = "read", !.op = op, !.at = clock, !.until = until]
<1>1. clock \in Nat \ {0} /\ until \in Nat
  BY AccountBounds DEF Inv, TypeOK, Never, Time
<1>2. v \in Call /\ v.pc = "read" /\ v.op = op /\ v.at = clock
  BY <1>1, IdleIs DEF Call
<1>3. Sound(v)
  BY <1>1, <1>2 DEF Sound
<1>4. Goes(c, v) /\ UNCHANGED <<clock, user, history, fired, holdVars, purgeVars>> /\ calls' = calls + 1
  BY DEF Begin
<1>5. fired' \in [HookName -> Nat] /\ calls' \in Nat
  BY <1>4 DEF Inv, TypeOK
<1>6. QED
  BY <1>2, <1>3, <1>4, <1>5, OwnLocals

\* A read that goes on to move, to report or to end.
LEMMA Answered ==
  ASSUME Inv, NEW c \in Caller, NEW answer \in Answer, call[c].op \in Operation, call[c].at \in 1 .. clock,
         Goes(c, IF After(call[c].op, answer) = "done" THEN Told(c, answer)
                 ELSE [call[c] EXCEPT !.seen = user, !.answer = answer, !.pc = After(call[c].op, answer)]),
         UNCHANGED <<clock, user, history, fired, calls, holdVars, purgeVars>>
  PROVE  Inv'
<1> DEFINE v == [call[c] EXCEPT !.seen = user, !.answer = answer, !.pc = After(call[c].op, answer)]
<1>1. call[c] \in Call /\ user \in Columns /\ fired' \in [HookName -> Nat] /\ calls' \in Nat
  BY DEF Inv, TypeOK
<1>2. CASE After(call[c].op, answer) = "done"
  BY <1>1, <1>2, ToldIs, OwnLocals
<1>3. CASE After(call[c].op, answer) # "done"
  <2>1. After(call[c].op, answer) \in {"move", "report"}
    BY <1>3 DEF After
  <2>2. v \in Call /\ v.pc \in {"move", "report"} /\ v.op = call[c].op /\ v.at = call[c].at
    BY <1>1, <2>1 DEF Call
  <2>3. Sound(v)
    BY <2>2 DEF Sound
  <2>4. QED
    BY <1>1, <1>3, <2>2, <2>3, OwnLocals
<1>4. QED
  BY <1>2, <1>3

LEMMA ReadsKeepInv ==
  ASSUME Inv, NEW c \in Caller, Read(c) \/ Reread(c)
  PROVE  Inv'
<1>1. CASE Read(c)
  <2>1. call[c].op \in Operation /\ call[c].at \in 1 .. clock
    BY <1>1 DEF Read, Inv, CallsSound
  <2>2. PICK answer : answer = IF user.present THEN Decided(call[c].op, user, call[c].at) ELSE Absent(call[c].op)
    OBVIOUS
  <2>3. answer \in Answer
    BY <2>1, <2>2, DecidedIs
  <2>4. QED
    BY <1>1, <2>1, <2>2, <2>3, Answered DEF Read
<1>2. CASE Reread(c)
  <2>1. call[c].op \in Operation \ {"reinstate"} /\ call[c].at \in 1 .. clock
    BY <1>2 DEF Reread, Inv, CallsSound
  <2>2. PICK answer : answer = IF user.present THEN Found(call[c].op, user, call[c].at) ELSE Absent(call[c].op)
    OBVIOUS
  <2>3. answer \in Answer
    BY <2>1, <2>2, DecidedIs, FoundIs
  <2>4. QED
    BY <1>2, <2>1, <2>2, <2>3, Answered DEF Reread
<1>3. QED
  BY <1>1, <1>2

LEMMA ReportKeepsInv ==
  ASSUME Inv, NEW c \in Caller, Report(c)
  PROVE  Inv'
<1> DEFINE k == call[c]
           v == [k EXCEPT !.pc = "route"]
<1>1. /\ k \in Call /\ k.answer \in Answer
      /\ UNCHANGED <<clock, user, history, calls, holdVars, purgeVars>>
  BY DEF Report, Inv, TypeOK, Call
<1>2. fired' \in [HookName -> Nat] /\ calls' \in Nat
  <2>1. fired \in [HookName -> Nat] /\ calls \in Nat
    BY DEF Inv, TypeOK
  <2>2. fired' = fired \/ \E h : fired' = [fired EXCEPT ![h] = @ + 1]
    BY DEF Report
  <2>3. QED
    BY <1>1, <2>1, <2>2
<1>3. CASE Goes(c, v)
  <2>1. v \in Call /\ v.pc = "route"
    BY <1>1 DEF Call
  <2>2. QED
    BY <1>1, <1>2, <1>3, <2>1, OwnLocals DEF Sound
<1>4. CASE Goes(c, Told(c, k.answer))
  BY <1>1, <1>2, <1>4, ToldIs, OwnLocals
<1>5. QED
  BY <1>3, <1>4 DEF Report, Answers

-----------------------------------------------------------------------------
(* Steps that move the columns *)

\* One batch: an account due or gone stays so if the batch would not have moved it, or moves
\* only its window, and to a time that is past.
LEMMA BatchKeepsInv ==
  ASSUME Inv, NEW c \in Caller, NEW guard \in BOOLEAN, NEW columns \in Columns, NEW row \in HistoryRow,
         Batch(guard, columns, row),
         row.action \notin {"purge_step", "purged"}, columns.present = user.present,
         guard /\ Due(user, clock) => Due(columns, clock),
         NEW v \in Call, Goes(c, v), Sound(v),
         StaysPut
  PROVE  Inv'
<1>1. /\ user' \in Columns
      /\ history' \in Seq(HistoryRow)
      /\ user'.present = user.present
      /\ IF user.present /\ guard THEN user' = columns ELSE user' = user
      /\ \/ history' = history
         \/ \E r \in HistoryRow : /\ r.action \notin {"purge_step", "purged"}
                                  /\ history' = Append(history, r)
  BY BatchDoes DEF Inv
<1>2. UNCHANGED <<clock, fired, calls, held, holds, data, overrun, run, pass, faults>>
  BY DEF StaysPut, holdVars, purgeVars
<1>3. call' \in [Caller -> Call] /\ CallsSound'
  BY <1>2, GoesKeeps DEF Inv, TypeOK
<1>4. TypeOK'
  BY <1>1, <1>2, <1>3 DEF Inv, TypeOK
<1>5. Doomed => Doomed'
  BY <1>1, <1>2 DEF Doomed, Due
<1>6. QED
  BY <1>1, <1>2, <1>3, <1>4, <1>5, Undisturbed

\* The locals of a request after its batch.
LEMMA AfterBatch ==
  ASSUME Inv, NEW c \in Caller, call[c].pc = "move", call[c].op \in Operation
  PROVE  /\ \A answer \in Answer : Told(c, answer) \in Call /\ Sound(Told(c, answer))
         /\ \A answer \in Answer : /\ [call[c] EXCEPT !.pc = "report", !.answer = answer] \in Call
                                   /\ Sound([call[c] EXCEPT !.pc = "report", !.answer = answer])
         /\ call[c].op # "reinstate" =>
              /\ [call[c] EXCEPT !.pc = "reread"] \in Call
              /\ Sound([call[c] EXCEPT !.pc = "reread"])
         /\ call[c] \in Call /\ call[c].at \in 1 .. clock
<1>1. call[c] \in Call /\ call[c].at \in 1 .. clock
  BY DEF Inv, TypeOK, CallsSound
<1>2. ASSUME NEW answer \in Answer
      PROVE  /\ [call[c] EXCEPT !.pc = "report", !.answer = answer] \in Call
             /\ Sound([call[c] EXCEPT !.pc = "report", !.answer = answer])
  BY <1>1 DEF Call, Sound
<1>3. ASSUME call[c].op # "reinstate"
      PROVE  /\ [call[c] EXCEPT !.pc = "reread"] \in Call
             /\ Sound([call[c] EXCEPT !.pc = "reread"])
  BY <1>1, <1>3 DEF Call, Sound
<1>4. QED
  BY <1>1, <1>2, <1>3, ToldIs

LEMMA SuspendsKeepInv ==
  ASSUME Inv, NEW c \in Caller, Suspend(c) \/ Restate(c) \/ Reinstate(c)
  PROVE  Inv'
<1> DEFINE k == call[c]
           standing == user.deletedAt = Never
<1>1. k.pc = "move" /\ k.op \in Operation /\ StaysPut
  BY DEF Suspend, Restate, Reinstate, Moving, Operation
<1>2. k \in Call /\ k.at \in 1 .. clock /\ k.at \in Nat /\ k.until \in Nat /\ clock \in Nat /\ user \in Columns
  BY <1>1, AfterBatch DEF Inv, TypeOK, Call
<1>3. {"moved", "updated", "unchanged", "conflict"} \subseteq Answer
  BY DEF Answer
<1>4. ~(standing /\ Due(user, clock))
  BY DEF Due
<1>5. CASE Suspend(c)
  <2> DEFINE columns == [user EXCEPT !.suspendedAt = k.at, !.suspendedUntil = k.until]
             row == Row("suspended", k.at, k.until, Never, 0)
  <2>1. columns \in Columns /\ columns.present = user.present /\ row \in HistoryRow /\ row.action = "suspended"
    BY <1>2 DEF Columns, Row, HistoryRow, RowActions, Never
  <2>2. PICK guard \in BOOLEAN : Batch(guard, columns, row) /\ (guard => standing)
    BY <1>5 DEF Suspend
  <2>3. PICK v \in Call : Goes(c, v) /\ Sound(v)
    BY <1>1, <1>3, <1>5, AfterBatch DEF Suspend, Moving, Reports
  <2>4. QED
    BY <1>1, <1>4, <2>1, <2>2, <2>3, BatchKeepsInv
<1>6. CASE Restate(c)
  <2> DEFINE columns == [user EXCEPT !.suspendedUntil = k.until]
             row == Row("suspended", k.at, k.until, Never, 0)
  <2>1. columns \in Columns /\ columns.present = user.present /\ row \in HistoryRow /\ row.action = "suspended"
    BY <1>2 DEF Columns, Row, HistoryRow, RowActions, Never
  <2>2. PICK guard \in BOOLEAN : Batch(guard, columns, row) /\ (guard => standing)
    BY <1>6 DEF Restate
  <2>3. PICK v \in Call : Goes(c, v) /\ Sound(v)
    BY <1>1, <1>3, <1>6, AfterBatch DEF Restate, Moving, Reports, Answers
  <2>4. QED
    BY <1>1, <1>4, <2>1, <2>2, <2>3, BatchKeepsInv
<1>7. CASE Reinstate(c)
  <2> DEFINE columns == [user EXCEPT !.suspendedAt = Never, !.suspendedUntil = Never]
             row == Row("reinstated", k.at, Never, Never, 0)
  <2>1. columns \in Columns /\ columns.present = user.present /\ row \in HistoryRow /\ row.action = "reinstated"
    BY <1>2 DEF Columns, Row, HistoryRow, RowActions, Never
  <2>2. PICK guard \in BOOLEAN : Batch(guard, columns, row) /\ (guard => standing)
    BY <1>7 DEF Reinstate
  <2>3. PICK v \in Call : Goes(c, v) /\ Sound(v)
    BY <1>1, <1>3, <1>7, AfterBatch DEF Reinstate, Moving, Reports, Answers
  <2>4. QED
    BY <1>1, <1>4, <2>1, <2>2, <2>3, BatchKeepsInv
<1>8. QED
  BY <1>5, <1>6, <1>7

LEMMA DeleteKeepsInv ==
  ASSUME Inv, NEW c \in Caller, Delete(c)
  PROVE  Inv'
<1> DEFINE k == call[c]
           closes == ClosesAt(k)
           columns == [user EXCEPT !.deletedAt = k.at, !.purgeAfter = closes]
           row == Row("deleted", k.at, Never, closes, 0)
           standing == user.deletedAt = Never
<1>1. k.pc = "move" /\ k.op \in Operation /\ k.op # "reinstate" /\ StaysPut
  BY DEF Delete, Moving, Operation
<1>2. k \in Call /\ k.at \in Nat /\ user \in Columns
  BY <1>1, AfterBatch DEF Inv, TypeOK, Call
<1>3. closes \in Nat
  BY <1>2, AccountBounds DEF ClosesAt
<1>4. columns \in Columns /\ columns.present = user.present /\ row \in HistoryRow /\ row.action = "deleted"
  BY <1>2, <1>3 DEF Columns, Row, HistoryRow, RowActions, Never
<1>5. Batch(standing, columns, row) /\ ~(standing /\ Due(user, clock))
  BY DEF Delete, Due
<1>6. "moved" \in Answer
  BY DEF Answer
<1>7. PICK v \in Call : Goes(c, v) /\ Sound(v)
  BY <1>1, <1>6, AfterBatch DEF Delete, Moving, Reports
<1>8. QED
  BY <1>1, <1>4, <1>5, <1>7, BatchKeepsInv

\* A window is only ever brought to a time that is past.
LEMMA BringForwardKeepsInv ==
  ASSUME Inv, NEW c \in Caller, BringForward(c)
  PROVE  Inv'
<1> DEFINE k == call[c]
           columns == [user EXCEPT !.purgeAfter = k.at]
           row == Row("deleted", k.at, Never, k.at, 0)
<1>1. k.pc = "move" /\ k.op \in Operation /\ StaysPut
  BY DEF BringForward, Moving, Operation
<1>2. k \in Call /\ k.at \in Nat /\ k.at \in 1 .. clock /\ clock \in Nat /\ user \in Columns
  BY <1>1, AfterBatch DEF Inv, TypeOK, Call
<1>3. columns \in Columns /\ columns.present = user.present /\ row \in HistoryRow /\ row.action = "deleted"
  BY <1>2 DEF Columns, Row, HistoryRow, RowActions, Never
<1>4. PICK guard \in BOOLEAN : Batch(guard, columns, row)
  BY DEF BringForward
<1>5. Due(user, clock) => Due(columns, clock)
  BY <1>2 DEF Due, Columns, Never
<1>6. {"forward", "unchanged"} \subseteq Answer
  BY DEF Answer
<1>7. PICK v \in Call : Goes(c, v) /\ Sound(v)
  BY <1>1, <1>6, AfterBatch DEF BringForward, Reports
<1>8. QED
  BY <1>1, <1>3, <1>4, <1>5, <1>7, BatchKeepsInv

\* A restoration matches nothing once the database's clock has reached the window.
LEMMA RestoreKeepsInv ==
  ASSUME Inv, NEW c \in Caller, Restore(c)
  PROVE  Inv'
<1> DEFINE k == call[c]
           columns == [user EXCEPT !.deletedAt = Never, !.purgeAfter = Never]
           row == Row("restored", k.at, Never, Never, 0)
           mine == user.deletedAt # Never /\ WindowOpen(k)
<1>1. k.pc = "move" /\ k.op \in Operation /\ k.op # "reinstate" /\ StaysPut
  BY DEF Restore, Moving, Operation
<1>2. k \in Call /\ k.at \in Nat /\ clock \in Nat /\ user \in Columns
  BY <1>1, AfterBatch DEF Inv, TypeOK, Call
<1>3. columns \in Columns /\ columns.present = user.present /\ row \in HistoryRow /\ row.action = "restored"
  BY <1>2 DEF Columns, Row, HistoryRow, RowActions, Never
<1>4. Batch(mine, columns, row)
  BY DEF Restore
<1>5. ~(mine /\ Due(user, clock))
  BY <1>2 DEF Due, WindowOpen, Columns
<1>6. "moved" \in Answer
  BY DEF Answer
<1>7. PICK v \in Call : Goes(c, v) /\ Sound(v)
  BY <1>1, <1>6, AfterBatch DEF Restore, Reports
<1>8. mine \in BOOLEAN
  BY DEF WindowOpen
<1>9. QED
  BY <1>1, <1>3, <1>4, <1>5, <1>7, <1>8, BatchKeepsInv

-----------------------------------------------------------------------------
(* Starts, holds and time *)

\* An id that was never used starts where an instance starts.
LEMMA StartedIs ==
  ASSUME run \in [Instance -> Run], NEW id, Started(id)
  PROVE  /\ run' \in [Instance -> Run]
         /\ \A j \in Instance : \/ run'[j] = run[j]
                                \/ run[j].pc = "none" /\ run'[j] = [pc |-> "due", item |-> 0]
<1>1. [pc |-> "due", item |-> 0] \in Run
  BY Steps DEF Run
<1>2. CASE run[id].pc = "none"
  <2>1. run' = [run EXCEPT ![id] = [pc |-> "due", item |-> 0]]
    BY <1>2 DEF Started
  <2>2. QED
    BY <1>1, <1>2, <2>1
<1>3. CASE run[id].pc # "none"
  <2>1. run' = run
    BY <1>3 DEF Started
  <2>2. QED
    BY <2>1
<1>4. QED
  BY <1>2, <1>3

LEMMA RouteKeepsInv ==
  ASSUME Inv, NEW c \in Caller, Route(c)
  PROVE  Inv'
<1>1. /\ UNCHANGED <<clock, user, history, fired, calls, held, holds, data, overrun, pass, faults>>
      /\ Goes(c, Told(c, call[c].answer))
      /\ UNCHANGED run \/ Started(<<Result(call[c])[1], Day(clock)>>)
  BY DEF Route, Answers, holdVars
<1>2. call[c] \in Call /\ call[c].answer \in Answer
  BY DEF Inv, TypeOK, Call
<1>3. call' \in [Caller -> Call] /\ CallsSound'
  BY <1>1, <1>2, ToldIs, GoesKeeps DEF Inv, TypeOK
<1>4. /\ run' \in [Instance -> Run]
      /\ \A id \in Instance : \/ run'[id] = run[id]
                              \/ run[id].pc = "none" /\ run'[id] = [pc |-> "due", item |-> 0]
  BY <1>1, StartedIs DEF Inv, TypeOK
<1>5. TypeOK' /\ (Doomed => Doomed')
  BY <1>1, <1>3, <1>4 DEF Inv, TypeOK, Doomed, Due
<1>6. QED
  BY <1>1, <1>3, <1>4, <1>5, Undisturbed

LEMMA PassKeepsInv ==
  ASSUME Inv, ListDue \/ StartDue
  PROVE  Inv'
<1>1. UNCHANGED <<clock, user, history, fired, call, calls, held, holds, data, overrun, faults>>
  BY DEF ListDue, StartDue, requestVars, holdVars
<1>2. pass'.pc \in {"idle", "start"} /\ pass'.due \in Nat
  <2>1. CASE ListDue
    BY <2>1 DEF ListDue, Inv, TypeOK, Columns, Never
  <2>2. CASE StartDue
    <3>1. pass' = [pass EXCEPT !.pc = "idle"]
      BY <2>2 DEF StartDue
    <3>2. pass.pc = "start" /\ pass.due \in Nat
      BY <2>2 DEF StartDue, Inv, TypeOK
    <3>3. pass'.due = pass.due /\ pass'.pc \in {"idle", pass.pc}
      BY <3>1
    <3>4. QED
      BY <3>2, <3>3
  <2>3. QED
    BY <2>1, <2>2
<1>3. UNCHANGED run \/ Started(<<pass.due, Day(clock)>>)
  BY DEF ListDue, StartDue
<1>4. /\ run' \in [Instance -> Run]
      /\ \A id \in Instance : \/ run'[id] = run[id]
                              \/ run[id].pc = "none" /\ run'[id] = [pc |-> "due", item |-> 0]
  BY <1>3, StartedIs DEF Inv, TypeOK
<1>5. TypeOK' /\ CallsSound' /\ (Doomed => Doomed')
  BY <1>1, <1>2, <1>4 DEF Inv, TypeOK, CallsSound, Doomed, Due
<1>6. QED
  BY <1>1, <1>4, <1>5, Undisturbed

LEMMA WorldKeepsInv ==
  ASSUME Inv, PlaceHold \/ ReleaseHold \/ Tick
  PROVE  Inv'
<1>1. UNCHANGED <<user, history, fired, call, calls, data, run, pass, faults>>
  BY DEF PlaceHold, ReleaseHold, Tick, requestVars, purgeVars
<1>2. held' \in BOOLEAN /\ holds' \in Nat /\ (overrun' = {} \/ UNCHANGED <<overrun, held>>)
  <2>1. held \in BOOLEAN /\ holds \in Nat
    BY DEF Inv, TypeOK
  <2>2. CASE PlaceHold
    BY <2>1, <2>2 DEF PlaceHold
  <2>3. CASE ReleaseHold
    BY <2>1, <2>3 DEF ReleaseHold
  <2>4. CASE Tick
    BY <2>1, <2>4 DEF Tick, holdVars, purgeVars
  <2>5. QED
    BY <2>2, <2>3, <2>4
<1>3. clock \in Nat \ {0} /\ clock' \in {clock, clock + 1}
  BY DEF PlaceHold, ReleaseHold, Tick, Inv, TypeOK
<1>4. overrun' \subseteq (Instance \X (1 .. CompleteStep))
  BY <1>2 DEF Inv, TypeOK
<1>5. TypeOK'
  BY <1>1, <1>2, <1>3, <1>4 DEF Inv, TypeOK
<1>6. CallsSound'
  BY <1>1, <1>3 DEF Inv, CallsSound
<1>7. Doomed => Doomed'
  BY <1>1, <1>3 DEF Doomed, Due, Inv, TypeOK, Columns
<1>8. QED
  BY <1>1, <1>2, <1>5, <1>6, <1>7, Undisturbed

-----------------------------------------------------------------------------
(* The steps of an instance *)

\* Where an instance may go next without erasing.
Fit(id, r) ==
  /\ r \in Run
  /\ r.pc \notin {"none", "due", "record"}
  /\ r.pc \in {"hold", "stuck"} => r.item \in 1 .. CompleteStep
  /\ \A x \in Erasing : x < r.item => x \notin data
  /\ r.pc \in {"hold", "step"} => Doomed
  /\ r.pc = "step" => \A x \in EveryStep : <<id, x>> \in overrun => r.item \in {x, CompleteStep}

\* An instance that takes a step that erases nothing.
LEMMA InstanceKeeps ==
  ASSUME Inv, NEW id \in Instance, NEW r \in Run, Fit(id, r),
         run' = [run EXCEPT ![id] = r],
         UNCHANGED <<clock, user, call, calls, data, held, holds, overrun, pass>>,
         fired' \in [HookName -> Nat], faults' \in Nat,
         \/ history' = history
         \/ \E row \in HistoryRow : /\ history' = Append(history, row)
                                    /\ row.action = "purge_step" => row.step \notin data
                                    /\ row.action = "purged" => ~user.present /\ data \subseteq Retained
  PROVE  Inv'
<1>1. /\ run \in [Instance -> Run]
      /\ run'[id] = r
      /\ \A j \in Instance : j # id => run'[j] = run[j]
      /\ run' \in [Instance -> Run]
  BY DEF Inv, TypeOK
<1>2. history' \in Seq(HistoryRow)
  <2>1. history \in Seq(HistoryRow)
    BY DEF Inv, TypeOK
  <2>2. history' = history \/ \E row \in HistoryRow : history' = Append(history, row)
    OBVIOUS
  <2>3. QED
    BY <2>1, <2>2
<1>3. TypeOK' /\ CallsSound'
  BY <1>1, <1>2 DEF Inv, TypeOK, CallsSound
<1>4. RunsSound'
  BY <1>1 DEF Inv, RunsSound, Fit
<1>5. Erased'
  BY <1>1 DEF Inv, Erased, Fit
<1>6. Doomed' = Doomed
  BY DEF Doomed, Due
<1>7. OnlyDoomed'
  BY <1>1, <1>6 DEF Inv, OnlyDoomed, Purging, Fit
<1>8. OneUnderHold' /\ HoldStops'
  BY <1>1 DEF Inv, OneUnderHold, HoldStops, Fit
<1>9. RecordIsTrue'
  BY RecordGrows DEF Inv
<1>10. QED
  BY <1>3, <1>4, <1>5, <1>7, <1>8, <1>9 DEF Inv

LEMMA EndsIs ==
  ASSUME Inv, NEW id \in Instance, NEW pc, [run[id] EXCEPT !.pc = pc] \in Run, Ends(id, pc)
  PROVE  \E r \in Run : r.pc = pc /\ r.item = run[id].item /\ run' = [run EXCEPT ![id] = r]
<1>1. run \in [Instance -> Run]
  BY DEF Inv, TypeOK
<1>2. [run[id] EXCEPT !.pc = pc].pc = pc /\ [run[id] EXCEPT !.pc = pc].item = run[id].item
  BY <1>1 DEF Run
<1>3. run' = [run EXCEPT ![id] = [run[id] EXCEPT !.pc = pc]]
  BY <1>1 DEF Ends
<1>4. QED
  BY <1>2, <1>3

LEMMA PlacedIs ==
  ASSUME NEW r \in Run, NEW pc \in {"not_due", "gone", "held", "step"}
  PROVE  [r EXCEPT !.pc = pc] \in Run
  BY DEF Run

\* Going on past a step that is done with.
LEMMA AdvancedIs ==
  ASSUME Inv, NEW id \in Instance, run[id].item \in 0 .. CompleteStep - 1, Doomed,
         \A x \in Erasing : x <= run[id].item => x \notin data
  PROVE  Advanced(id) \in Run /\ Fit(id, Advanced(id))
<1>1. Advanced(id) \in Run /\ Advanced(id).item = run[id].item + 1
      /\ Advanced(id).pc = IF run[id].item + 1 = CompleteStep THEN "step" ELSE "hold"
  BY Steps DEF Advanced, Run
<1>2. \A x \in Erasing : x < run[id].item + 1 => x \notin data
  BY Steps
<1>3. QED
  BY <1>1, <1>2, Steps DEF Fit

LEMMA ChecksKeepInv ==
  ASSUME Inv, NEW id \in Instance, CheckDue(id) \/ AskHold(id)
  PROVE  Inv'
<1>1. run[id] \in Run /\ fired' \in [HookName -> Nat] /\ faults' \in Nat
      /\ UNCHANGED <<clock, user, history, call, calls, data, held, holds, overrun, pass>>
  BY DEF CheckDue, AskHold, Others, requestVars, holdVars, Inv, TypeOK
<1>2. CASE CheckDue(id)
  <2>1. run[id].item = 0
    BY <1>2 DEF CheckDue, At, Inv, RunsSound
  <2>2. CASE Due(user, clock)
    <3>1. Advanced(id) \in Run /\ Fit(id, Advanced(id))
      BY <2>1, <2>2, Steps, AdvancedIs DEF Doomed
    <3>2. run' = [run EXCEPT ![id] = Advanced(id)]
      BY <1>2, <2>2 DEF CheckDue
    <3>3. QED
      BY <1>1, <3>1, <3>2, InstanceKeeps
  <2>3. CASE ~Due(user, clock)
    <3>1. PICK pc \in {"not_due", "gone"} : Ends(id, pc)
      BY <1>2, <2>3 DEF CheckDue
    <3>2. [run[id] EXCEPT !.pc = pc] \in Run
      BY <1>1, <3>1, PlacedIs
    <3>3. PICK r \in Run : r.pc = pc /\ r.item = run[id].item /\ run' = [run EXCEPT ![id] = r]
      BY <3>1, <3>2, EndsIs
    <3>4. Fit(id, r)
      BY <3>1, <3>3 DEF Fit, Inv, Erased
    <3>5. QED
      BY <1>1, <3>3, <3>4, InstanceKeeps
  <2>4. QED
    BY <2>2, <2>3
<1>3. CASE AskHold(id)
  <2>1. run[id].pc = "hold" /\ Doomed
    BY <1>3 DEF AskHold, At, Inv, OnlyDoomed, Purging
  <2>2. PICK pc \in {"held", "step"} : Ends(id, pc) /\ (pc = "step" => ~held)
    BY <1>3 DEF AskHold
  <2>3. [run[id] EXCEPT !.pc = pc] \in Run
    BY <1>1, <2>2, PlacedIs
  <2>4. PICK r \in Run : r.pc = pc /\ r.item = run[id].item /\ run' = [run EXCEPT ![id] = r]
    BY <2>2, <2>3, EndsIs
  <2>5. pc = "step" => \A x \in EveryStep : <<id, x>> \notin overrun
    BY <2>2 DEF Inv, OneUnderHold
  <2>6. Fit(id, r)
    BY <2>1, <2>2, <2>4, <2>5 DEF Fit, Inv, Erased
  <2>7. QED
    BY <1>1, <2>4, <2>6, InstanceKeeps
<1>4. QED
  BY <1>2, <1>3

\* An answer that is lost sends the instance back to the same step; one that arrives, on.
LEMMA JournalsIs ==
  ASSUME Inv, NEW id \in Instance, Journals(id), run[id].pc \in {"step", "record"}, run[id].item \in 0 .. CompleteStep - 1,
         \A x \in Erasing : x <= run[id].item => x \notin data
  PROVE  /\ faults' \in Nat
         /\ \E r \in Run : Fit(id, r) /\ run' = [run EXCEPT ![id] = r]
<1>1. faults' \in Nat
  BY DEF Journals, CanFail, Inv, TypeOK
<1>2. Doomed
  BY DEF Inv, OnlyDoomed, Purging
<1>3. CASE run' = [run EXCEPT ![id] = Advanced(id)]
  BY <1>1, <1>2, <1>3, AdvancedIs
<1>4. CASE Ends(id, "step")
  <2>1. [run[id] EXCEPT !.pc = "step"] \in Run
    BY DEF Inv, TypeOK, Run
  <2>2. PICK r \in Run : r.pc = "step" /\ r.item = run[id].item /\ run' = [run EXCEPT ![id] = r]
    BY <1>4, <2>1, EndsIs
  <2>3. Fit(id, r)
    BY <1>2, <2>2 DEF Fit, Inv, Erased, OneUnderHold
  <2>4. QED
    BY <1>1, <2>2, <2>3
<1>5. QED
  BY <1>3, <1>4 DEF Journals, Ends

\* Erasing takes one capability's rows, once the account is due or gone.
LEMMA EraseKeepsInv ==
  ASSUME Inv, NEW id \in Instance, Erase(id)
  PROVE  Inv'
<1> DEFINE x == run[id].item
<1>1. PICK item \in Erasing : item = x /\ run[id].pc = "step"
  BY DEF Erase, At
<1>2. /\ data' = data \ {item}
      /\ user' = IF item = AuthStep THEN Gone ELSE user
      /\ overrun' = IF held THEN overrun \union {<<id, item>>} ELSE overrun
      /\ Ends(id, "record")
      /\ UNCHANGED <<clock, history, fired, call, calls, held, holds, pass, faults>>
  BY <1>1 DEF Erase, Others, requestVars, holdVars
<1>3. run \in [Instance -> Run] /\ user \in Columns /\ data \subseteq EveryStep
  BY DEF Inv, TypeOK
<1>4. PICK r \in Run : r.pc = "record" /\ r.item = item /\ run' = [run EXCEPT ![id] = r]
  <2>1. [run[id] EXCEPT !.pc = "record"] \in Run
    BY <1>3 DEF Run
  <2>2. QED
    BY <1>1, <1>2, <2>1, EndsIs
<1>5. /\ run'[id] = r
      /\ \A j \in Instance : j # id => run'[j] = run[j]
      /\ run' \in [Instance -> Run]
  BY <1>3, <1>4
<1>6. Doomed /\ user' \in Columns
  BY <1>1, <1>2, <1>3, IdleIs DEF Inv, OnlyDoomed, Purging
<1>7. Doomed'
  BY <1>2, <1>6 DEF Doomed, Due, Gone, Present
<1>8. TypeOK'
  <2>1. item \in 1 .. CompleteStep
    BY <1>1, Steps
  <2>2. overrun' \subseteq (Instance \X (1 .. CompleteStep))
    BY <1>2, <2>1 DEF Inv, TypeOK
  <2>3. QED
    BY <1>2, <1>3, <1>5, <1>6, <2>2 DEF Inv, TypeOK
<1>9. CallsSound'
  BY <1>2 DEF Inv, CallsSound
<1>10. RunsSound'
  BY <1>1, <1>2, <1>4, <1>5 DEF Inv, RunsSound
<1>11. Erased'
  <2>1. \A j \in Instance : \A y \in Erasing : y < run'[j].item => y \notin data'
    BY <1>1, <1>2, <1>4, <1>5 DEF Inv, Erased
  <2>2. AuthStep \notin data' => ~user'.present
    BY <1>2 DEF Inv, Erased, Gone, Present
  <2>3. QED
    BY <2>1, <2>2 DEF Erased
<1>12. OnlyDoomed'
  BY <1>7 DEF OnlyDoomed
<1>13. OneUnderHold'
  <2>1. SUFFICES ASSUME NEW j \in Instance, NEW y \in EveryStep, <<j, y>> \in overrun'
                 PROVE  /\ held
                        /\ \/ run'[j].item = y
                           \/ run'[j].pc \notin {"step", "record"}
                           \/ run'[j].item = CompleteStep
    BY <1>2 DEF OneUnderHold
  <2>2. CASE j = id /\ y = item
    BY <1>2, <1>4, <1>5, <2>1, <2>2 DEF Inv, OneUnderHold
  <2>3. CASE ~(j = id /\ y = item)
    <3>1. <<j, y>> \in overrun
      BY <1>2, <2>1, <2>3
    <3>2. held /\ (run[j].item = y \/ run[j].pc \notin {"step", "record"} \/ run[j].item = CompleteStep)
      BY <3>1 DEF Inv, OneUnderHold
    <3>3. QED
      BY <1>1, <1>4, <1>5, <3>2
  <2>4. QED
    BY <2>2, <2>3
<1>14. HoldStops'
  <2>1. \A y \in EveryStep : <<id, y>> \in overrun => y = item
    BY <1>1, Steps DEF Inv, OneUnderHold
  <2>2. \A j \in Instance, y \in EveryStep : <<j, y>> \in overrun' => <<j, y>> \in overrun \/ (j = id /\ y = item)
    BY <1>2
  <2>3. QED
    BY <2>1, <2>2 DEF Inv, HoldStops
<1>15. RecordIsTrue'
  <2>1. ~user.present => ~user'.present
    BY <1>2 DEF Gone, Present
  <2>2. QED
    BY <1>2, <2>1, RecordGrows DEF Inv
<1>16. QED
  BY <1>8, <1>9, <1>10, <1>11, <1>12, <1>13, <1>14, <1>15 DEF Inv

LEMMA RecordsKeepInv ==
  ASSUME Inv, NEW id \in Instance, RecordStep(id) \/ RetainStep(id) \/ MailComplete(id)
  PROVE  Inv'
<1>1. run[id] \in Run /\ fired' \in [HookName -> Nat] /\ clock \in Nat /\ Journals(id)
      /\ UNCHANGED <<clock, user, call, calls, data, held, holds, overrun, pass>>
  BY DEF RecordStep, RetainStep, MailComplete, Others, requestVars, holdVars, Inv, TypeOK
<1>2. /\ run[id].item \in 1 .. CompleteStep - 1
      /\ run[id].pc \in {"step", "record"}
      /\ \A x \in Erasing : x <= run[id].item => x \notin data
  <2>0. Erasing \subseteq 1 .. CompleteStep /\ CompleteStep \in Nat
    BY Steps
  <2>1. \A x \in Erasing : x < run[id].item => x \notin data
    BY DEF Inv, Erased
  <2>2. CASE RecordStep(id)
    <3>1. run[id].pc = "record" /\ run[id].item \in Erasing \ data
      BY <2>2 DEF RecordStep, At, Inv, RunsSound
    <3>2. run[id].item \in 1 .. CompleteStep - 1
      BY <3>1, Steps
    <3>3. QED
      BY <2>0, <2>1, <3>1, <3>2
  <2>3. CASE RetainStep(id) \/ MailComplete(id)
    <3>1. run[id].pc = "step" /\ run[id].item \in Retained \cup {MailStep}
      BY <2>3 DEF RetainStep, MailComplete, At
    <3>2. run[id].item \in 1 .. CompleteStep - 1 /\ run[id].item \notin Erasing
      BY <3>1, Steps
    <3>3. QED
      BY <2>0, <2>1, <3>1, <3>2
  <2>5. QED
    BY <2>2, <2>3
<1>3. faults' \in Nat /\ \E r \in Run : Fit(id, r) /\ run' = [run EXCEPT ![id] = r]
  BY <1>1, <1>2, JournalsIs
<1>4. \/ history' = history
      \/ \E row \in HistoryRow : /\ history' = Append(history, row)
                                 /\ row.action = "purge_step" => row.step \notin data
                                 /\ row.action # "purged"
  <2>1. run[id].item \in Nat
    BY <1>2, Steps
  <2>2. CASE RecordStep(id)
    <3> DEFINE row == Row("purge_step", clock, Never, Never, run[id].item)
    <3>1. row \in HistoryRow /\ row.action = "purge_step" /\ row.step = run[id].item
      BY <1>1, <2>1 DEF Row, HistoryRow, RowActions, Never
    <3>2. run[id].item \notin data
      BY <2>2 DEF RecordStep, At, Inv, RunsSound
    <3>3. QED
      BY <2>2, <3>1, <3>2 DEF RecordStep
  <2>3. CASE RetainStep(id)
    <3> DEFINE row == Row("purge_retained", clock, Never, Never, run[id].item)
    <3>1. row \in HistoryRow /\ row.action = "purge_retained"
      BY <1>1, <2>1 DEF Row, HistoryRow, RowActions, Never
    <3>2. QED
      BY <2>3, <3>1 DEF RetainStep
  <2>4. CASE MailComplete(id)
    BY <2>4 DEF MailComplete
  <2>5. QED
    BY <2>2, <2>3, <2>4
<1>5. QED
  BY <1>1, <1>3, <1>4, InstanceKeeps

\* The record that the purge is done comes after every step that erases.
LEMMA CompleteKeepsInv ==
  ASSUME Inv, NEW id \in Instance, CompletePurge(id)
  PROVE  Inv'
<1>1. /\ run[id] \in Run /\ run \in [Instance -> Run] /\ clock \in Nat
      /\ UNCHANGED <<clock, user, call, calls, data, held, holds, overrun, pass>>
      /\ run[id].pc = "step" /\ run[id].item = CompleteStep
  BY DEF CompletePurge, At, holdVars, Inv, TypeOK
<1>2. \A x \in Erasing : x \notin data
  BY <1>1, Steps DEF Inv, Erased
<1>3. ~user.present /\ data \subseteq Retained
  BY <1>2, Steps DEF Inv, Erased, TypeOK
<1>4. fired' \in [HookName -> Nat] /\ faults' \in Nat
  <2>1. fired \in [HookName -> Nat] /\ faults \in Nat
    BY DEF Inv, TypeOK
  <2>2. fired' = fired \/ fired' = [fired EXCEPT !["purged"] = @ + 1]
    BY DEF CompletePurge
  <2>3. faults' = faults \/ faults' = faults + 1
    BY DEF CompletePurge
  <2>4. QED
    BY <2>1, <2>2, <2>3
<1>5. history' = history \/ \E row \in HistoryRow : history' = Append(history, row) /\ row.action = "purged"
  <2> DEFINE row == Row("purged", clock, Never, Never, 0)
  <2>1. row \in HistoryRow /\ row.action = "purged"
    BY <1>1 DEF Row, HistoryRow, RowActions, Never
  <2>2. history' = history \/ history' = Append(history, row)
    BY DEF CompletePurge
  <2>3. QED
    BY <2>1, <2>2
<1>6. \E r \in Run : Fit(id, r) /\ run' = [run EXCEPT ![id] = r]
  <2>1. CASE Ends(id, "purged")
    <3>1. [run[id] EXCEPT !.pc = "purged"] \in Run
      BY <1>1 DEF Run
    <3>2. PICK r \in Run : r.pc = "purged" /\ run' = [run EXCEPT ![id] = r]
      BY <2>1, <3>1, EndsIs
    <3>3. QED
      BY <1>2, <3>2 DEF Fit
  <2>2. CASE run' = run
    <3>1. Fit(id, run[id])
      BY <1>1, <1>2 DEF Fit, Inv, OnlyDoomed, Purging
    <3>2. QED
      BY <1>1, <2>2, <3>1
  <2>3. QED
    BY <2>1, <2>2 DEF CompletePurge
<1>7. QED
  BY <1>1, <1>3, <1>4, <1>5, <1>6, InstanceKeeps

LEMMA FailuresKeepInv ==
  ASSUME Inv, NEW id \in Instance, Fail(id) \/ RecordFailure(id)
  PROVE  Inv'
<1>1. /\ run[id] \in Run /\ run \in [Instance -> Run] /\ clock \in Nat /\ fired' \in [HookName -> Nat]
      /\ UNCHANGED <<clock, user, call, calls, data, held, holds, overrun, pass>>
  BY DEF Fail, RecordFailure, Others, requestVars, holdVars, Inv, TypeOK
<1>2. faults' \in Nat
  BY DEF Fail, RecordFailure, Inv, TypeOK
<1>3. ASSUME NEW pc \in {"step", "stuck", "failing", "failed"}, Ends(id, pc),
             pc = "step" => run[id].pc = "record", pc = "stuck" => run[id].pc = "hold"
      PROVE  \E r \in Run : Fit(id, r) /\ run' = [run EXCEPT ![id] = r]
  <2>1. [run[id] EXCEPT !.pc = pc] \in Run
    BY <1>1, <1>3 DEF Run
  <2>2. PICK r \in Run : r.pc = pc /\ r.item = run[id].item /\ run' = [run EXCEPT ![id] = r]
    BY <1>3, <2>1, EndsIs
  <2>3. pc = "step" => Doomed /\ \A x \in EveryStep : <<id, x>> \in overrun => run[id].item \in {x, CompleteStep}
    BY <1>3 DEF Inv, OnlyDoomed, Purging, OneUnderHold
  <2>4. pc = "stuck" => run[id].item \in 1 .. CompleteStep
    BY <1>3 DEF Inv, RunsSound
  <2>5. Fit(id, r)
    BY <1>3, <2>2, <2>3, <2>4 DEF Fit, Inv, Erased
  <2>6. QED
    BY <2>2, <2>5
<1>4. CASE Fail(id)
  <2>1. history' = history
    BY <1>4 DEF Fail
  <2>2. \E r \in Run : Fit(id, r) /\ run' = [run EXCEPT ![id] = r]
    <3>1. CASE At(id, "record") /\ Ends(id, "step")
      BY <1>3, <3>1 DEF At
    <3>2. CASE Ends(id, IF At(id, "due") THEN "failed" ELSE IF At(id, "hold") THEN "stuck" ELSE "failing")
      BY <1>3, <3>2 DEF At
    <3>3. QED
      BY <1>4, <3>1, <3>2 DEF Fail
  <2>3. QED
    BY <1>1, <1>2, <2>1, <2>2, InstanceKeeps
<1>5. CASE RecordFailure(id)
  <2>1. Ends(id, "failed") /\ run[id].pc \in {"failing", "stuck"}
    BY <1>5 DEF RecordFailure
  <2>2. Current(id) \in Nat
    <3>1. run[id].item \in 0 .. CompleteStep /\ (run[id].pc = "stuck" => run[id].item \in 1 .. CompleteStep)
      BY <1>1 DEF Inv, RunsSound, Run
    <3>2. QED
      BY <2>1, <3>1, Steps DEF Current, At
  <2>3. history' = history \/ \E row \in HistoryRow : history' = Append(history, row) /\ row.action = "purge_failed"
    <3> DEFINE row == Row("purge_failed", clock, Never, Never, Current(id))
    <3>1. row \in HistoryRow /\ row.action = "purge_failed"
      BY <1>1, <2>2 DEF Row, HistoryRow, RowActions, Never
    <3>2. history' = history \/ history' = Append(history, row)
      BY <1>5 DEF RecordFailure
    <3>3. QED
      BY <3>1, <3>2
  <2>4. \E r \in Run : Fit(id, r) /\ run' = [run EXCEPT ![id] = r]
    BY <1>3, <2>1
  <2>5. QED
    BY <1>1, <1>2, <2>3, <2>4, InstanceKeeps
<1>6. QED
  BY <1>4, <1>5

LEMMA StepKeepsInv == Inv /\ [Next]_vars => Inv'
<1>1. SUFFICES ASSUME Inv, [Next]_vars PROVE Inv'
  OBVIOUS
<1>2. CASE UNCHANGED vars
  <2>1. UNCHANGED <<clock, user, history, fired, call, calls, data, held, holds, overrun, run, pass, faults>>
    BY <1>2 DEF vars
  <2>2. TypeOK' /\ CallsSound'
    BY <1>1, <2>1 DEF Inv, TypeOK, CallsSound
  <2>3. Doomed => Doomed'
    BY <2>1 DEF Doomed, Due
  <2>4. QED
    BY <1>1, <2>1, <2>2, <2>3, Undisturbed
<1>3. ASSUME NEW c \in Caller, Request(c)
      PROVE  Inv'
  BY <1>1, <1>3, BeginKeepsInv, ReadsKeepInv, ReportKeepsInv, RouteKeepsInv, SuspendsKeepInv, DeleteKeepsInv,
     BringForwardKeepsInv, RestoreKeepsInv DEF Request
<1>4. ASSUME NEW id \in Instance, Purge(id)
      PROVE  Inv'
  BY <1>1, <1>4, ChecksKeepInv, EraseKeepsInv, RecordsKeepInv, CompleteKeepsInv, FailuresKeepInv DEF Purge, Works
<1>5. QED
  BY <1>1, <1>2, <1>3, <1>4, PassKeepsInv, WorldKeepsInv DEF Next

THEOREM InvHolds == Spec => []Inv
  BY InitInv, StepKeepsInv, PTL DEF Spec

-----------------------------------------------------------------------------
(* Theorems *)

\* The account's columns, its history, the locals of every request and every instance of the
\* purge keep their types.
THEOREM AccountTypes == Spec => []TypeOK
<1>1. Inv => TypeOK
  BY DEF Inv
<1>2. QED
  BY <1>1, InvHolds, PTL

(***************************************************************************)
(* An account that stands undeleted has lost nothing, however a            *)
(* restoration, a hard deletion and any number of purges interleave: by    *)
(* the time the first step erases, no restoration can match any more.      *)
(***************************************************************************)
THEOREM NothingHalfErased == Spec => []NeverHalfErased
<1>1. Inv => NeverHalfErased
  BY DEF Inv, OnlyDoomed, Doomed, Due, NeverHalfErased
<1>2. QED
  BY <1>1, InvHolds, PTL

\* Under a standing hold each instance of a purge erases at most the step it had asked about.
THEOREM HoldsStopPurges == Spec => []HoldStops
<1>1. Inv => HoldStops
  BY DEF Inv
<1>2. QED
  BY <1>1, InvHolds, PTL

\* A step recorded as erased is erased, and a purge recorded as done left nothing but what is retained.
THEOREM RecordsAreTrue == Spec => []RecordIsTrue
<1>1. Inv => RecordIsTrue
  BY DEF Inv
<1>2. QED
  BY <1>1, InvHolds, PTL

-----------------------------------------------------------------------------
(* What the history says: replaying it, row by row *)

IsReplay(g, h) ==
  g = [n \in 0 .. Len(h) |-> IF n = 0 THEN Present ELSE Replayed(g[n - 1], h[n])]

LEMMA ReplayedTyped == ASSUME NEW u \in Columns, NEW row \in HistoryRow PROVE Replayed(u, row) \in Columns
<1>1. row.at \in Nat /\ row.until \in Nat /\ row.purgeAfter \in Nat /\ Never \in Nat
  BY DEF HistoryRow, Never
<1>2. QED
  BY <1>1 DEF Replayed, Columns

\* Every history has one.
LEMMA ReplayExists == ASSUME NEW h \in Seq(HistoryRow) PROVE \E g : IsReplay(g, h)
<1> DEFINE N == Len(h)
           step == [x \in Columns \X (1 .. N) |-> Replayed(x[1], h[x[2]])]
<1>1. N \in Nat /\ \A n \in 1 .. N : h[n] \in HistoryRow
  OBVIOUS
<1>2. step \in [Columns \X (1 .. N) -> Columns]
  <2>1. ASSUME NEW x \in Columns \X (1 .. N)
        PROVE  Replayed(x[1], h[x[2]]) \in Columns
    <3>1. x[1] \in Columns /\ h[x[2]] \in HistoryRow
      BY <1>1
    <3>2. QED
      BY <3>1, ReplayedTyped
  <2>2. QED
    BY <2>1
<1>3. Present \in Columns
  BY IdleIs
<1>4. PICK g : Follows(g, step, Columns, Present, N)
  <2>1. N \in Nat /\ IsStep(step, Columns, N)
    BY <1>1, <1>2 DEF IsStep
  <2> HIDE DEF N, step
  <2>2. QED
    BY <1>3, <2>1, RecursionExists
<1>5. g \in [0 .. N -> Columns] /\ g[0] = Present /\ \A n \in 1 .. N : g[n] = step[<<g[n - 1], n>>]
  BY <1>4 DEF Follows
<1>6. ASSUME NEW n \in 1 .. N
      PROVE  g[n] = Replayed(g[n - 1], h[n])
  <2>1. <<g[n - 1], n>> \in Columns \X (1 .. N)
    BY <1>1, <1>5
  <2>2. g[n] = step[<<g[n - 1], n>>]
    BY <1>5
  <2>3. QED
    BY <2>1, <2>2
<1>7. g = [n \in 0 .. N |-> IF n = 0 THEN Present ELSE Replayed(g[n - 1], h[n])]
  <2>1. DOMAIN g = 0 .. N
    BY <1>5
  <2>2. \A n \in 0 .. N : g[n] = IF n = 0 THEN Present ELSE Replayed(g[n - 1], h[n])
    BY <1>1, <1>5, <1>6
  <2> HIDE DEF step
  <2>3. QED
    BY <1>5, <2>1, <2>2
<1>8. QED
  BY <1>7 DEF IsReplay

LEMMA ReplayIsChosen ==
  Replay = CHOOSE g : IsReplay(g, history)
  BY DEF Replay, IsReplay

LEMMA ReplayFollows ==
  ASSUME NEW h \in Seq(HistoryRow), NEW g, g = CHOOSE f : IsReplay(f, h)
  PROVE  /\ g[0] = Present
         /\ \A n \in 1 .. Len(h) : g[n] = Replayed(g[n - 1], h[n])
<1>1. IsReplay(g, h)
  BY ReplayExists
<1>2. g = [n \in 0 .. Len(h) |-> IF n = 0 THEN Present ELSE Replayed(g[n - 1], h[n])]
  BY <1>1 DEF IsReplay
<1>3. Len(h) \in Nat
  OBVIOUS
<1> DEFINE f == [n \in 0 .. Len(h) |-> IF n = 0 THEN Present ELSE Replayed(g[n - 1], h[n])]
<1>4. f[0] = Present /\ \A n \in 1 .. Len(h) : f[n] = Replayed(g[n - 1], h[n])
  BY <1>3
<1>5. QED
  BY <1>2, <1>4

\* A row more leaves the replay of the rows before it as it was.
LEMMA ReplayGrows ==
  ASSUME NEW h \in Seq(HistoryRow), NEW row \in HistoryRow, NEW f, NEW g,
         f = CHOOSE x : IsReplay(x, h), g = CHOOSE x : IsReplay(x, Append(h, row))
  PROVE  /\ \A n \in 0 .. Len(h) : g[n] = f[n]
         /\ g[Len(h) + 1] = Replayed(f[Len(h)], row)
<1> DEFINE k == Append(h, row)
           N == Len(h)
<1>1. /\ k \in Seq(HistoryRow) /\ Len(k) = N + 1 /\ k[N + 1] = row /\ \A n \in 1 .. N : k[n] = h[n]
      /\ N \in Nat
  OBVIOUS
<1>2. f[0] = Present /\ \A n \in 1 .. N : f[n] = Replayed(f[n - 1], h[n])
  BY ReplayFollows
<1> HIDE DEF k
<1>3. g[0] = Present /\ \A n \in 1 .. N + 1 : g[n] = Replayed(g[n - 1], k[n])
  <2>1. g = CHOOSE x : IsReplay(x, k)
    BY DEF k
  <2>2. g[0] = Present /\ \A n \in 1 .. Len(k) : g[n] = Replayed(g[n - 1], k[n])
    BY <1>1, <2>1, ReplayFollows
  <2>3. QED
    BY <1>1, <2>2
<1>4. ASSUME NEW n \in 1 .. N, g[n - 1] = f[n - 1]
      PROVE  g[n] = f[n]
  <2>1. n \in 1 .. N + 1 /\ k[n] = h[n]
    BY <1>1
  <2>2. QED
    BY <1>2, <1>3, <1>4, <2>1
<1>5. \A n \in 0 .. N : g[n] = f[n]
  <2>1. N \in Nat /\ SameSteps(g, f, N)
    BY <1>1, <1>2, <1>3, <1>4 DEF SameSteps
  <2> HIDE DEF N
  <2>2. QED
    BY <2>1, AgreeUpTo
<1>6. g[N + 1] = Replayed(f[N], row)
  <2>1. N + 1 \in 1 .. N + 1 /\ N \in 0 .. N /\ (N + 1) - 1 = N
    BY <1>1
  <2>2. QED
    BY <1>1, <1>3, <1>5, <2>1
<1>7. QED
  BY <1>5, <1>6

-----------------------------------------------------------------------------
(* What each step does to the account's row, its history and its hooks *)

ColumnActions == {"suspended", "reinstated", "deleted", "restored"}

PurgeActions == {"purge_step", "purge_retained", "purge_failed"}

\* A row that moved the account and did not restate where it stood.
Transition(u, row) ==
  /\ row.action = "suspended" => ~InForce(u, row.at)
  /\ row.action = "deleted" => u.deletedAt = Never

\* A request that is to call a hook.
Owes(k, h) == k.pc = "report" /\ k.answer = "moved" /\ k.op # "restore" /\ HookOf(k.op) = h

Silent ==
  /\ UNCHANGED <<history, fired>>
  /\ user' = user \/ ~user'.present
  /\ \/ call' = call
     \/ \E c \in Caller : \E v : Goes(c, v) /\ (v.pc = "report" => v.op \in Operation /\ v.answer # "moved")

\* A batch of request c that moved the account, and what c goes on with.
MovesBy(c, row, v) ==
  /\ call[c].pc # "report" /\ user.present
  /\ row.action \in ColumnActions
  /\ user' = Replayed(user, row) /\ history' = Append(history, row) /\ fired' = fired
  /\ Goes(c, v)
  /\ v.pc = "report" => v.op \in Operation
  /\ \A h : Owes(v, h) => row.action = h /\ Transition(user, row)

Moves == \E c \in Caller, row \in HistoryRow : \E v : MovesBy(c, row, v)

Records ==
  \E row \in HistoryRow :
    /\ row.action \in PurgeActions
    /\ history' = Append(history, row) /\ UNCHANGED <<user, fired, call>>

LEMMA ReadsAreSilent ==
  ASSUME Inv, NEW c \in Caller, Read(c) \/ Reread(c)
  PROVE  Silent
<1> DEFINE next(answer) ==
             IF After(call[c].op, answer) = "done" THEN Told(c, answer)
             ELSE [call[c] EXCEPT !.seen = user, !.answer = answer, !.pc = After(call[c].op, answer)]
<1>1. call[c].op \in Operation /\ call[c] \in Call /\ UNCHANGED <<user, history, fired>>
  BY DEF Read, Reread, Inv, CallsSound, TypeOK
<1>2. \E answer : Goes(c, next(answer))
  <2>1. CASE Read(c)
    <3> DEFINE decided == IF user.present THEN Decided(call[c].op, user, call[c].at) ELSE Absent(call[c].op)
    <3>1. Goes(c, next(decided))
      BY <2>1 DEF Read
    <3> HIDE DEF next, decided
    <3>2. QED
      BY <3>1
  <2>2. CASE Reread(c)
    <3> DEFINE found == IF user.present THEN Found(call[c].op, user, call[c].at) ELSE Absent(call[c].op)
    <3>1. Goes(c, next(found))
      BY <2>2 DEF Reread
    <3> HIDE DEF next, found
    <3>2. QED
      BY <3>1
  <2>3. QED
    BY <2>1, <2>2
<1>3. ASSUME NEW answer
      PROVE  next(answer).pc = "report" => next(answer).op \in Operation /\ next(answer).answer # "moved"
  <2>1. CASE After(call[c].op, answer) = "done"
    <3>1. Told(c, answer).pc = "done"
      BY DEF Told, Idle
    <3>2. QED
      BY <2>1, <3>1
  <2>2. CASE After(call[c].op, answer) # "done"
    <3>1. /\ next(answer).pc = After(call[c].op, answer) /\ next(answer).answer = answer
          /\ next(answer).op = call[c].op
      BY <1>1, <2>2 DEF Call
    <3>2. After(call[c].op, answer) = "report" => answer = "unchanged"
      BY DEF After
    <3>3. QED
      BY <1>1, <3>1, <3>2
  <2>3. QED
    BY <2>1, <2>2
<1>4. QED
  <2> HIDE DEF next
  <2>1. QED
    BY <1>1, <1>2, <1>3 DEF Silent

\* A batch that moved the account, and one that matched nothing.
LEMMA BatchMoves ==
  ASSUME Inv, NEW c \in Caller, call[c].pc = "move", StaysPut,
         NEW guard \in BOOLEAN, NEW columns, NEW row \in HistoryRow, Batch(guard, columns, row),
         row.action \in ColumnActions, user.present /\ guard => columns = Replayed(user, row),
         NEW v, Goes(c, v), v.pc = "report" => v.op \in Operation,
         user.present /\ guard => \A h : Owes(v, h) => row.action = h /\ Transition(user, row),
         ~(user.present /\ guard) => (v.pc = "report" => v.answer # "moved")
  PROVE  Silent \/ Moves
<1>1. fired' = fired
  BY DEF StaysPut
<1>2. CASE user.present /\ guard
  BY <1>1, <1>2 DEF Batch, Moves, MovesBy
<1>3. CASE ~(user.present /\ guard)
  BY <1>1, <1>3 DEF Batch, Silent
<1>4. QED
  BY <1>2, <1>3

\* A request before its batch: what it is told, what it reports and that it owes no hook yet.
LEMMA AnswersAre ==
  ASSUME Inv, NEW c \in Caller, NEW answer
  PROVE  /\ Told(c, answer).pc = "done"
         /\ LET v == [call[c] EXCEPT !.pc = "report", !.answer = answer]
            IN v.pc = "report" /\ v.answer = answer /\ v.op = call[c].op
         /\ [call[c] EXCEPT !.pc = "reread"].pc = "reread"
<1>1. call[c] \in Call
  BY DEF Inv, TypeOK
<1>2. Told(c, answer).pc = "done"
  BY DEF Told, Idle
<1>3. QED
  BY <1>1, <1>2 DEF Call

LEMMA SuspendsMove ==
  ASSUME Inv, NEW c \in Caller, Suspend(c) \/ Restate(c) \/ Reinstate(c)
  PROVE  Silent \/ Moves
<1> DEFINE k == call[c]
<1>1. k.pc = "move" /\ k.op \in Operation /\ StaysPut
  BY DEF Suspend, Restate, Reinstate, Moving, Operation
<1>2. k \in Call /\ k.at \in Nat /\ k.until \in Nat /\ user \in Columns
  BY DEF Inv, TypeOK, Call
<1>3. CASE Suspend(c)
  <2> DEFINE mine == user.deletedAt = Never /\ ~InForce(user, k.at)
             columns == [user EXCEPT !.suspendedAt = k.at, !.suspendedUntil = k.until]
             row == Row("suspended", k.at, k.until, Never, 0)
  <2>1. row \in HistoryRow /\ row.action = "suspended" /\ row.at = k.at /\ row.until = k.until
    BY <1>2 DEF Row, HistoryRow, RowActions, Never
  <2>2. Batch(mine, columns, row) /\ mine \in BOOLEAN /\ k.op = "suspend"
    BY <1>3 DEF Suspend, InForce, Moving
  <2>3. mine => columns = Replayed(user, row)
    BY <2>1 DEF Replayed
  <2>4. PICK v : /\ Goes(c, v)
                 /\ v = IF user.present /\ mine THEN [k EXCEPT !.pc = "report", !.answer = "moved"]
                        ELSE [k EXCEPT !.pc = "reread"]
    BY <1>3 DEF Suspend, Reports
  <2>5. v.pc = "report" => v.op \in Operation
    BY <1>1, <2>4, AnswersAre
  <2>6. mine => \A h : Owes(v, h) => row.action = h /\ Transition(user, row)
    <3>1. v.op = "suspend" \/ v.pc = "reread"
      BY <2>2, <2>4, AnswersAre
    <3>2. QED
      BY <2>1, <3>1 DEF Owes, HookOf, Transition
  <2>7. ~(user.present /\ mine) => v.pc # "report"
    BY <2>4, AnswersAre
  <2> HIDE DEF mine, columns, row
  <2>8. QED
    BY <1>1, <2>1, <2>2, <2>3, <2>4, <2>5, <2>6, <2>7, BatchMoves DEF ColumnActions
<1>4. CASE Restate(c)
  <2> DEFINE mine == user.deletedAt = Never /\ user.suspendedAt = k.seen.suspendedAt /\ InForce(user, k.at)
             columns == [user EXCEPT !.suspendedUntil = k.until]
             row == Row("suspended", k.at, k.until, Never, 0)
  <2>1. row \in HistoryRow /\ row.action = "suspended" /\ row.at = k.at /\ row.until = k.until
    BY <1>2 DEF Row, HistoryRow, RowActions, Never
  <2>2. Batch(mine, columns, row) /\ mine \in BOOLEAN
    BY <1>4 DEF Restate, InForce
  <2>3. mine => columns = Replayed(user, row)
    BY <2>1 DEF Replayed
  <2>4. PICK v : /\ Goes(c, v)
                 /\ v = IF user.present /\ mine THEN [k EXCEPT !.pc = "report", !.answer = "updated"]
                        ELSE Told(c, "conflict")
    BY <1>4 DEF Restate, Reports, Answers
  <2>5. v.pc = "report" => v.op \in Operation /\ v.answer = "updated"
    BY <1>1, <2>4, AnswersAre
  <2>6. \A h : ~Owes(v, h)
    BY <2>5 DEF Owes
  <2> HIDE DEF mine, columns, row
  <2>7. QED
    BY <1>1, <2>1, <2>2, <2>3, <2>4, <2>5, <2>6, BatchMoves DEF ColumnActions
<1>5. CASE Reinstate(c)
  <2> DEFINE mine == user.deletedAt = Never /\ InForce(user, k.at)
             columns == [user EXCEPT !.suspendedAt = Never, !.suspendedUntil = Never]
             row == Row("reinstated", k.at, Never, Never, 0)
  <2>1. row \in HistoryRow /\ row.action = "reinstated"
    BY <1>2 DEF Row, HistoryRow, RowActions, Never
  <2>2. Batch(mine, columns, row) /\ mine \in BOOLEAN /\ k.op = "reinstate"
    BY <1>5 DEF Reinstate, InForce, Moving
  <2>3. mine => columns = Replayed(user, row)
    BY <2>1 DEF Replayed
  <2>4. PICK v : /\ Goes(c, v)
                 /\ v = IF user.present /\ mine THEN [k EXCEPT !.pc = "report", !.answer = "moved"]
                        ELSE Told(c, "unchanged")
    BY <1>5 DEF Reinstate, Reports, Answers
  <2>5. v.pc = "report" => v.op \in Operation
    BY <1>1, <2>4, AnswersAre
  <2>6. mine => \A h : Owes(v, h) => row.action = h /\ Transition(user, row)
    <3>1. v.op = "reinstate" \/ v.pc = "done"
      BY <2>2, <2>4, AnswersAre
    <3>2. QED
      BY <2>1, <3>1 DEF Owes, HookOf, Transition
  <2>7. ~(user.present /\ mine) => v.pc # "report"
    BY <2>4, AnswersAre
  <2> HIDE DEF mine, columns, row
  <2>8. QED
    BY <1>1, <2>1, <2>2, <2>3, <2>4, <2>5, <2>6, <2>7, BatchMoves DEF ColumnActions
<1>6. QED
  BY <1>3, <1>4, <1>5

LEMMA DeletesMove ==
  ASSUME Inv, NEW c \in Caller, Delete(c) \/ BringForward(c) \/ Restore(c)
  PROVE  Silent \/ Moves
<1> DEFINE k == call[c]
<1>1. k.pc = "move" /\ k.op \in Operation /\ StaysPut
  BY DEF Delete, BringForward, Restore, Moving, Operation
<1>2. k \in Call /\ k.at \in Nat /\ user \in Columns
  BY DEF Inv, TypeOK, Call
<1>3. CASE Delete(c)
  <2> DEFINE mine == user.deletedAt = Never
             columns == [user EXCEPT !.deletedAt = k.at, !.purgeAfter = ClosesAt(k)]
             row == Row("deleted", k.at, Never, ClosesAt(k), 0)
  <2>1. ClosesAt(k) \in Nat
    BY <1>2, AccountBounds DEF ClosesAt
  <2>2. row \in HistoryRow /\ row.action = "deleted" /\ row.at = k.at /\ row.purgeAfter = ClosesAt(k)
    BY <1>2, <2>1 DEF Row, HistoryRow, RowActions, Never
  <2>3. Batch(mine, columns, row) /\ mine \in BOOLEAN /\ k.op \in {"soft", "hard", "inactive"}
    BY <1>3 DEF Delete, Moving
  <2>4. mine => columns = Replayed(user, row)
    BY <2>2 DEF Replayed
  <2>5. PICK v : /\ Goes(c, v)
                 /\ v = IF user.present /\ mine THEN [k EXCEPT !.pc = "report", !.answer = "moved"]
                        ELSE [k EXCEPT !.pc = "reread"]
    BY <1>3 DEF Delete, Reports
  <2>6. v.pc = "report" => v.op \in Operation
    BY <1>1, <2>5, AnswersAre
  <2>7. mine => \A h : Owes(v, h) => row.action = h /\ Transition(user, row)
    <3>1. v.op \in {"soft", "hard", "inactive"} \/ v.pc = "reread"
      BY <2>3, <2>5, AnswersAre
    <3>2. QED
      BY <2>2, <3>1 DEF Owes, HookOf, Transition
  <2>8. ~(user.present /\ mine) => v.pc # "report"
    BY <2>5, AnswersAre
  <2> HIDE DEF mine, columns, row
  <2>9. QED
    BY <1>1, <2>2, <2>3, <2>4, <2>5, <2>6, <2>7, <2>8, BatchMoves DEF ColumnActions
<1>4. CASE BringForward(c)
  <2> DEFINE mine == user.deletedAt = k.seen.deletedAt /\ user.purgeAfter > k.at
             columns == [user EXCEPT !.purgeAfter = k.at]
             row == Row("deleted", k.at, Never, k.at, 0)
  <2>1. row \in HistoryRow /\ row.action = "deleted" /\ row.at = k.at /\ row.purgeAfter = k.at
    BY <1>2 DEF Row, HistoryRow, RowActions, Never
  <2>2. Batch(mine, columns, row) /\ mine \in BOOLEAN /\ k.seen.deletedAt # Never
    BY <1>4 DEF BringForward
  <2>3. mine => columns = Replayed(user, row)
    <3>1. ASSUME mine PROVE [user EXCEPT !.deletedAt = IF @ = Never THEN k.at ELSE @, !.purgeAfter = k.at] = columns
      BY <1>2, <2>2, <3>1 DEF Columns
    <3>2. QED
      BY <2>1, <3>1 DEF Replayed
  <2>4. PICK v : /\ Goes(c, v)
                 /\ \E answer \in {"forward", "unchanged"} : v = [k EXCEPT !.pc = "report", !.answer = answer]
    BY <1>4 DEF BringForward, Reports
  <2>5. v.op \in Operation /\ v.answer # "moved"
    BY <1>1, <2>4, AnswersAre
  <2>6. \A h : ~Owes(v, h)
    BY <2>5 DEF Owes
  <2> HIDE DEF mine, columns, row
  <2>7. QED
    BY <1>1, <2>1, <2>2, <2>3, <2>4, <2>5, <2>6, BatchMoves DEF ColumnActions
<1>5. CASE Restore(c)
  <2> DEFINE mine == user.deletedAt # Never /\ WindowOpen(k)
             columns == [user EXCEPT !.deletedAt = Never, !.purgeAfter = Never]
             row == Row("restored", k.at, Never, Never, 0)
  <2>1. row \in HistoryRow /\ row.action = "restored"
    BY <1>2 DEF Row, HistoryRow, RowActions, Never
  <2>2. Batch(mine, columns, row) /\ mine \in BOOLEAN /\ k.op = "restore"
    BY <1>5 DEF Restore, WindowOpen, Moving
  <2>3. mine => columns = Replayed(user, row)
    BY <2>1 DEF Replayed
  <2>4. PICK v : /\ Goes(c, v)
                 /\ v = IF user.present /\ mine THEN [k EXCEPT !.pc = "report", !.answer = "moved"]
                        ELSE [k EXCEPT !.pc = "reread"]
    BY <1>5 DEF Restore, Reports
  <2>5. v.pc = "report" => v.op \in Operation
    BY <1>1, <2>4, AnswersAre
  <2>6. \A h : ~Owes(v, h)
    <3>1. v.op = "restore" \/ v.pc = "reread"
      BY <2>2, <2>4, AnswersAre
    <3>2. QED
      BY <3>1 DEF Owes
  <2>7. ~(user.present /\ mine) => v.pc # "report"
    BY <2>4, AnswersAre
  <2> HIDE DEF mine, columns, row
  <2>8. QED
    BY <1>1, <2>1, <2>2, <2>3, <2>4, <2>5, <2>6, <2>7, BatchMoves DEF ColumnActions
<1>6. QED
  BY <1>3, <1>4, <1>5

LEMMA NextKinds ==
  ASSUME Inv, [Next]_vars
  PROVE  \/ Silent \/ Moves \/ Records
         \/ \E c \in Caller : Report(c)
         \/ \E id \in Instance : CompletePurge(id)
<1>1. CASE UNCHANGED vars
  BY <1>1 DEF vars, Silent
<1>2. ASSUME NEW c \in Caller, Request(c)
      PROVE  Silent \/ Moves \/ Report(c)
  <2>1. ASSUME NEW op \in Operation, NEW until \in {Never} \union Time, Begin(c, op, until)
        PROVE  Silent
    <3>1. UNCHANGED <<user, history, fired>>
      BY <2>1 DEF Begin
    <3> DEFINE v == [Idle EXCEPT !.pc = "read", !.op = op, !.at = clock, !.until = until]
    <3>2. Goes(c, v) /\ v.pc = "read"
      BY <2>1 DEF Begin, Idle
    <3> HIDE DEF v
    <3>3. QED
      BY <3>1, <3>2 DEF Silent
  <2>2. CASE Route(c)
    <3>1. UNCHANGED <<user, history, fired>> /\ Goes(c, Told(c, call[c].answer))
      BY <2>2 DEF Route, Answers
    <3>2. Told(c, call[c].answer).pc # "report"
      BY <1>1, AnswersAre
    <3>3. QED
      BY <3>1, <3>2 DEF Silent
  <2>3. QED
    BY <1>2, <2>1, <2>2, ReadsAreSilent, SuspendsMove, DeletesMove DEF Request
<1>3. ASSUME NEW id \in Instance, Purge(id)
      PROVE  Silent \/ Records \/ CompletePurge(id)
  <2>1. CASE CheckDue(id) \/ AskHold(id) \/ MailComplete(id) \/ Fail(id)
    <3>1. UNCHANGED <<user, history, fired, call>>
      BY <2>1 DEF CheckDue, AskHold, MailComplete, Fail, Others, requestVars
    <3>2. QED
      BY <3>1 DEF Silent
  <2>2. CASE Erase(id)
    <3>1. UNCHANGED <<history, fired, call>> /\ (user' = user \/ user' = Gone)
      BY <2>2 DEF Erase, Others, requestVars
    <3>2. ~Gone.present
      BY DEF Gone, Present
    <3>3. QED
      BY <3>1, <3>2 DEF Silent
  <2>3. CASE RecordStep(id) \/ RetainStep(id)
    <3> DEFINE row(action) == Row(action, clock, Never, Never, run[id].item)
    <3>1. row("purge_step") \in HistoryRow /\ row("purge_step").action \in PurgeActions
      BY DEF Row, HistoryRow, RowActions, Never, PurgeActions, Inv, TypeOK, Run, CompleteStep
    <3>2. row("purge_retained") \in HistoryRow /\ row("purge_retained").action \in PurgeActions
      BY DEF Row, HistoryRow, RowActions, Never, PurgeActions, Inv, TypeOK, Run, CompleteStep
    <3>3. UNCHANGED <<user, fired, call>>
      BY <2>3 DEF RecordStep, RetainStep, Others, requestVars
    <3>4. history' = Append(history, row("purge_step")) \/ history' = Append(history, row("purge_retained"))
      BY <2>3 DEF RecordStep, RetainStep
    <3> HIDE DEF row
    <3>5. QED
      BY <3>1, <3>2, <3>3, <3>4 DEF Records
  <2>4. CASE RecordFailure(id)
    <3> DEFINE row == Row("purge_failed", clock, Never, Never, Current(id))
    <3>1. Current(id) \in Nat
      <4>1. run[id].item \in 0 .. CompleteStep /\ (run[id].pc = "stuck" => run[id].item \in 1 .. CompleteStep)
        BY DEF Inv, RunsSound, TypeOK, Run
      <4>2. QED
        BY <4>1, Steps DEF Current, At
    <3>2. row \in HistoryRow /\ row.action \in PurgeActions
      BY <3>1 DEF Row, HistoryRow, RowActions, Never, PurgeActions, Inv, TypeOK
    <3>3. UNCHANGED <<user, fired, call>> /\ (history' = history \/ history' = Append(history, row))
      BY <2>4 DEF RecordFailure, Others, requestVars
    <3> HIDE DEF row
    <3>4. QED
      BY <3>2, <3>3 DEF Records, Silent
  <2>5. QED
    BY <1>3, <2>1, <2>2, <2>3, <2>4 DEF Purge, Works
<1>4. CASE ListDue \/ StartDue \/ PlaceHold \/ ReleaseHold \/ Tick
  <2>1. UNCHANGED <<user, history, fired, call>>
    BY <1>4 DEF ListDue, StartDue, PlaceHold, ReleaseHold, Tick, requestVars
  <2>2. QED
    BY <2>1 DEF Silent
<1>5. QED
  BY <1>1, <1>2, <1>3, <1>4 DEF Next

-----------------------------------------------------------------------------
(* The history explains the account, and no hook fires without a row *)

Owing(h) == {c \in Caller : Owes(call[c], h)}

\* What was called, and what requests are still to call, is in the history.
HooksOwed == \A h \in HookName : fired[h] + Cardinality(Owing(h)) <= Cardinality(Moved(h))

PurgedOnce == Cardinality(Moved("purged")) <= 1

ReportsSound == \A c \in Caller : call[c].pc = "report" => call[c].op \in Operation

Books == HistoryExplains /\ HooksOwed /\ PurgedOnce /\ ReportsSound

\* Of a new row, the replay of the ones before it says whether it is a transition.
LEMMA HistoryGrows ==
  ASSUME Inv, NEW row \in HistoryRow, history' = Append(history, row)
  PROVE  /\ \A n \in 0 .. Len(history) : Replay'[n] = Replay[n]
         /\ Replay'[Len(history')] = Replayed(Replay[Len(history)], row)
<1>1. history \in Seq(HistoryRow) /\ Len(history') = Len(history) + 1
  BY DEF Inv, TypeOK
<1>2. Replay = CHOOSE g : IsReplay(g, history)
  BY ReplayIsChosen
<1>3. Replay' = CHOOSE g : IsReplay(g, Append(history, row))
  BY DEF Replay, IsReplay
<1>4. QED
  BY <1>1, <1>2, <1>3, ReplayGrows

LEMMA MovedGrows ==
  ASSUME Inv, NEW row \in HistoryRow, history' = Append(history, row), NEW h
  PROVE  Moved(h)' = Moved(h) \union (IF row.action = h /\ Transition(Replay[Len(history)], row)
                                      THEN {Len(history) + 1} ELSE {})
<1> DEFINE N == Len(history)
<1>1. /\ N \in Nat /\ DOMAIN history = 1 .. N /\ DOMAIN history' = 1 .. N + 1
      /\ history'[N + 1] = row /\ \A i \in 1 .. N : history'[i] = history[i]
  BY DEF Inv, TypeOK
<1>2. \A n \in 0 .. N : Replay'[n] = Replay[n]
  BY HistoryGrows
<1>3. ASSUME NEW i \in 1 .. N
      PROVE  i \in Moved(h)' <=> i \in Moved(h)
  <2>1. Replay'[i - 1] = Replay[i - 1] /\ history'[i] = history[i]
    BY <1>1, <1>2
  <2>2. QED
    BY <1>1, <2>1 DEF Moved
<1>4. N + 1 \in Moved(h)' <=> row.action = h /\ Transition(Replay[N], row)
  <2>1. Replay'[(N + 1) - 1] = Replay[N]
    BY <1>1, <1>2
  <2>2. QED
    BY <1>1, <2>1 DEF Moved, Transition
<1>5. Moved(h) \subseteq 1 .. N /\ Moved(h)' \subseteq 1 .. N + 1
  BY <1>1 DEF Moved
<1>6. QED
  BY <1>1, <1>3, <1>4, <1>5

LEMMA MovedFinite ==
  ASSUME Inv, NEW h
  PROVE  IsFiniteSet(Moved(h)) /\ Cardinality(Moved(h)) \in Nat
<1>1. Len(history) \in Nat /\ DOMAIN history = 1 .. Len(history)
  BY DEF Inv, TypeOK
<1>2. Moved(h) \subseteq 1 .. Len(history) /\ IsFiniteSet(1 .. Len(history))
  BY <1>1, FS_Interval DEF Moved
<1>3. QED
  BY <1>2, FS_Subset, FS_CardinalityType

LEMMA OwingFinite ==
  ASSUME IsFiniteSet(Caller), NEW h
  PROVE  IsFiniteSet(Owing(h)) /\ Cardinality(Owing(h)) \in Nat
<1>1. Owing(h) \subseteq Caller
  BY DEF Owing
<1>2. QED
  BY <1>1, FS_Subset, FS_CardinalityType

LEMMA InitBooks == Init => Books
<1>1. SUFFICES ASSUME Init PROVE Books
  OBVIOUS
<1>2. Inv /\ history = <<>> /\ Len(history) = 0 /\ DOMAIN history = {}
  BY <1>1, InitInv DEF Init
<1>3. Replay[0] = Present
  <2>1. history \in Seq(HistoryRow) /\ Replay = CHOOSE g : IsReplay(g, history)
    BY <1>2, ReplayIsChosen DEF Inv, TypeOK
  <2>2. QED
    BY <2>1, ReplayFollows
<1>4. HistoryExplains /\ ReportsSound
  BY <1>1, <1>2, <1>3 DEF Init, HistoryExplains, ReportsSound, Idle
<1>5. ASSUME NEW h
      PROVE  Cardinality(Moved(h)) = 0 /\ Cardinality(Owing(h)) = 0
  <2>1. Moved(h) = {}
    BY <1>2 DEF Moved
  <2>2. Owing(h) = {}
    BY <1>1 DEF Init, Owing, Owes, Idle
  <2>3. QED
    BY <2>1, <2>2, FS_EmptySet
<1>6. HooksOwed
  <2>1. \A h \in HookName : fired[h] = 0
    BY <1>1 DEF Init
  <2>2. QED
    BY <1>5, <2>1 DEF HooksOwed
<1>7. QED
  BY <1>4, <1>5, <1>6 DEF Books, PurgedOnce

\* One request goes on: only it can come to owe a hook, or stop owing it.
LEMMA OwingMoves ==
  ASSUME Inv, NEW c \in Caller, NEW v, Goes(c, v), NEW h
  PROVE  Owing(h)' = (Owing(h) \ {c}) \union (IF Owes(v, h) THEN {c} ELSE {})
<1>1. call'[c] = v /\ \A d \in Caller \ {c} : call'[d] = call[d]
  BY DEF Goes, Inv, TypeOK
<1>2. QED
  BY <1>1 DEF Owing

LEMMA SilentKeepsBooks ==
  ASSUME IsFiniteSet(Caller), Inv, Books, Silent
  PROVE  Books'
<1>1. history' = history /\ Replay' = Replay
  BY DEF Silent, Replay
<1>2. \A h : Moved(h)' = Moved(h)
  BY <1>1 DEF Moved
<1>3. HistoryExplains'
  BY <1>1 DEF Silent, Books, HistoryExplains
<1>4. PurgedOnce'
  BY <1>2 DEF Books, PurgedOnce
<1>5. ReportsSound' /\ \A h : Owing(h)' \subseteq Owing(h)
  <2>1. CASE call' = call
    BY <2>1 DEF Books, ReportsSound, Owing
  <2>2. CASE \E c \in Caller : \E v : Goes(c, v) /\ (v.pc = "report" => v.op \in Operation /\ v.answer # "moved")
    <3>0. PICK c \in Caller : \E v : Goes(c, v) /\ (v.pc = "report" => v.op \in Operation /\ v.answer # "moved")
      BY <2>2
    <3>1. PICK v : Goes(c, v) /\ (v.pc = "report" => v.op \in Operation /\ v.answer # "moved")
      BY <3>0
    <3>2. call'[c] = v /\ \A d \in Caller \ {c} : call'[d] = call[d]
      BY <3>1 DEF Goes, Inv, TypeOK
    <3>3. \A h : ~Owes(v, h)
      BY <3>1 DEF Owes
    <3>4. QED
      BY <3>1, <3>2, <3>3 DEF Books, ReportsSound, Owing
  <2>3. QED
    BY <2>1, <2>2 DEF Silent
<1>6. HooksOwed'
  <2>1. ASSUME NEW h \in HookName
        PROVE  fired'[h] + Cardinality(Owing(h)') <= Cardinality(Moved(h)')
    <3>1. Cardinality(Owing(h)') \in Nat /\ Cardinality(Owing(h)') <= Cardinality(Owing(h))
      BY <1>5, OwingFinite, FS_Subset, FS_CardinalityType
    <3>2. fired'[h] = fired[h] /\ fired[h] \in Nat /\ Cardinality(Owing(h)) \in Nat /\ Cardinality(Moved(h)) \in Nat
      BY OwingFinite, MovedFinite DEF Silent, Inv, TypeOK
    <3>3. QED
      BY <1>2, <3>1, <3>2 DEF Books, HooksOwed
  <2>2. QED
    BY <2>1 DEF HooksOwed
<1>7. QED
  BY <1>3, <1>4, <1>5, <1>6 DEF Books

\* The row and the columns go together, and the hook that is owed has its row.
LEMMA MovesKeepBooks ==
  ASSUME IsFiniteSet(Caller), Inv, Books, Moves
  PROVE  Books'
<1>0. PICK c \in Caller, row \in HistoryRow : \E v : MovesBy(c, row, v)
  BY DEF Moves
<1>1. PICK v :
         /\ call[c].pc # "report" /\ user.present
         /\ row.action \in ColumnActions
         /\ user' = Replayed(user, row) /\ history' = Append(history, row) /\ fired' = fired
         /\ Goes(c, v)
         /\ v.pc = "report" => v.op \in Operation
         /\ \A h : Owes(v, h) => row.action = h /\ Transition(user, row)
  BY <1>0 DEF MovesBy
<1>2. user = Replay[Len(history)]
  BY <1>1 DEF Books, HistoryExplains
<1>3. HistoryExplains'
  BY <1>1, <1>2, HistoryGrows DEF HistoryExplains
<1>4. ReportsSound'
  <2>1. call'[c] = v /\ \A d \in Caller \ {c} : call'[d] = call[d]
    BY <1>1 DEF Goes, Inv, TypeOK
  <2>2. QED
    BY <1>1, <2>1 DEF Books, ReportsSound
<1>5. PurgedOnce'
  <2>1. row.action # "purged"
    BY <1>1 DEF ColumnActions
  <2>2. Moved("purged")' = Moved("purged") \union {}
    BY <1>1, <2>1, MovedGrows
  <2>3. QED
    BY <2>2 DEF Books, PurgedOnce
<1>6. ASSUME NEW h \in HookName
      PROVE  fired'[h] + Cardinality(Owing(h)') <= Cardinality(Moved(h)')
  <2>1. fired'[h] = fired[h] /\ fired[h] \in Nat /\ fired[h] + Cardinality(Owing(h)) <= Cardinality(Moved(h))
    BY <1>1 DEF Inv, TypeOK, Books, HooksOwed
  <2>2. c \notin Owing(h)
    BY <1>1 DEF Owing, Owes
  <2>3. Owing(h)' = Owing(h) \union (IF Owes(v, h) THEN {c} ELSE {})
    BY <1>1, <2>2, OwingMoves
  <2>4. /\ IsFiniteSet(Owing(h)) /\ Cardinality(Owing(h)) \in Nat
        /\ IsFiniteSet(Moved(h)) /\ Cardinality(Moved(h)) \in Nat
    BY OwingFinite, MovedFinite
  <2>5. Moved(h)' = Moved(h) \union (IF row.action = h /\ Transition(user, row) THEN {Len(history) + 1} ELSE {})
    BY <1>1, <1>2, MovedGrows
  <2>6. Len(history) + 1 \notin Moved(h)
    BY DEF Moved, Inv, TypeOK
  <2>7. CASE Owes(v, h)
    <3>1. Moved(h)' = Moved(h) \union {Len(history) + 1} /\ Owing(h)' = Owing(h) \union {c}
      BY <1>1, <2>3, <2>5, <2>7
    <3>2. Cardinality(Moved(h)') = Cardinality(Moved(h)) + 1
      BY <2>4, <2>6, <3>1, FS_AddElement
    <3>3. Cardinality(Owing(h)') = Cardinality(Owing(h)) + 1
      BY <2>2, <2>4, <3>1, FS_AddElement
    <3>4. QED
      BY <2>1, <2>4, <3>2, <3>3
  <2>8. CASE ~Owes(v, h)
    <3>1. Owing(h)' = Owing(h)
      BY <2>3, <2>8
    <3>2. Cardinality(Moved(h)') \in Nat /\ Cardinality(Moved(h)) <= Cardinality(Moved(h)')
      <4>1. Moved(h)' = Moved(h) \/ Moved(h)' = Moved(h) \union {Len(history) + 1}
        BY <2>5
      <4>2. CASE Moved(h)' = Moved(h)
        BY <2>4, <4>2
      <4>3. CASE Moved(h)' = Moved(h) \union {Len(history) + 1}
        <5>1. Cardinality(Moved(h)') = Cardinality(Moved(h)) + 1
          BY <2>4, <2>6, <4>3, FS_AddElement
        <5>2. QED
          BY <2>4, <5>1
      <4>4. QED
        BY <4>1, <4>2, <4>3
    <3>3. QED
      BY <2>1, <2>4, <3>1, <3>2
  <2>9. QED
    BY <2>7, <2>8
<1>7. QED
  BY <1>3, <1>4, <1>5, <1>6 DEF Books, HooksOwed

LEMMA RecordsKeepBooks ==
  ASSUME Inv, Books, Records
  PROVE  Books'
<1>1. PICK row \in HistoryRow : /\ row.action \in PurgeActions
                               /\ history' = Append(history, row) /\ UNCHANGED <<user, fired, call>>
  BY DEF Records
<1>2. HistoryExplains'
  <2>1. Replayed(Replay[Len(history)], row) = Replay[Len(history)]
    BY <1>1 DEF Replayed, PurgeActions
  <2>2. QED
    BY <1>1, <2>1, HistoryGrows DEF Books, HistoryExplains
<1>3. \A h \in HookName : Moved(h)' = Moved(h)
  <2>1. \A h \in HookName : row.action # h
    BY <1>1 DEF PurgeActions, HookName
  <2>2. ASSUME NEW h \in HookName
        PROVE  Moved(h)' = Moved(h) \union {}
    BY <1>1, <2>1, MovedGrows
  <2>3. QED
    BY <2>2
<1>4. PurgedOnce'
  BY <1>3 DEF Books, PurgedOnce, HookName
<1>5. ReportsSound' /\ \A h : Owing(h)' = Owing(h)
  BY <1>1 DEF Books, ReportsSound, Owing
<1>6. HooksOwed'
  BY <1>1, <1>3, <1>5 DEF Books, HooksOwed
<1>7. QED
  BY <1>2, <1>4, <1>5, <1>6 DEF Books

\* Calling a hook is no longer owing it.
LEMMA ReportKeepsBooks ==
  ASSUME IsFiniteSet(Caller), Inv, Books, NEW c \in Caller, Report(c)
  PROVE  Books'
<1> DEFINE k == call[c]
<1>1. k.pc = "report" /\ k \in Call /\ k.op \in Operation /\ UNCHANGED <<user, history>>
  BY DEF Report, Books, ReportsSound, Inv, TypeOK
<1>2. PICK v : Goes(c, v) /\ v.pc # "report"
  <2>1. Told(c, k.answer).pc # "report" /\ [k EXCEPT !.pc = "route"].pc # "report"
    BY <1>1, AnswersAre DEF Call
  <2>2. Goes(c, Told(c, k.answer)) \/ Goes(c, [k EXCEPT !.pc = "route"])
    BY DEF Report, Answers
  <2>3. QED
    BY <2>1, <2>2
<1>3. Replay' = Replay /\ \A h : Moved(h)' = Moved(h)
  BY <1>1 DEF Replay, Moved
<1>4. HistoryExplains' /\ PurgedOnce'
  BY <1>1, <1>3 DEF Books, HistoryExplains, PurgedOnce
<1>5. ReportsSound'
  <2>1. call'[c] = v /\ \A d \in Caller \ {c} : call'[d] = call[d]
    BY <1>2 DEF Goes, Inv, TypeOK
  <2>2. QED
    BY <1>2, <2>1 DEF Books, ReportsSound
<1>6. ASSUME NEW h \in HookName
      PROVE  fired'[h] + Cardinality(Owing(h)') <= Cardinality(Moved(h)')
  <2>1. Owing(h)' = Owing(h) \ {c}
    <3>1. ~Owes(v, h)
      BY <1>2 DEF Owes
    <3>2. Owing(h)' = (Owing(h) \ {c}) \union {}
      BY <1>2, <3>1, OwingMoves
    <3>3. QED
      BY <3>2
  <2>2. /\ IsFiniteSet(Owing(h)) /\ Cardinality(Owing(h)) \in Nat /\ Cardinality(Moved(h)) \in Nat
        /\ fired[h] \in Nat /\ fired[h] + Cardinality(Owing(h)) <= Cardinality(Moved(h))
    BY OwingFinite, MovedFinite DEF Inv, TypeOK, Books, HooksOwed
  <2>3. CASE Owes(k, h)
    <3>1. c \in Owing(h)
      BY <2>3 DEF Owing
    <3>2. Cardinality(Owing(h)') = Cardinality(Owing(h)) - 1
      BY <2>1, <2>2, <3>1, FS_RemoveElement
    <3>3. fired'[h] = fired[h] + 1
      BY <2>3 DEF Owes, Report, Inv, TypeOK
    <3>4. QED
      BY <1>3, <2>2, <3>2, <3>3
  <2>4. CASE ~Owes(k, h)
    <3>1. c \notin Owing(h) /\ Owing(h)' = Owing(h)
      BY <2>1, <2>4 DEF Owing
    <3>2. fired'[h] = fired[h]
      <4>1. CASE k.answer = "moved" /\ k.op # "restore"
        <5>1. HookOf(k.op) # h
          BY <1>1, <2>4, <4>1 DEF Owes
        <5>2. QED
          BY <4>1, <5>1 DEF Report, Inv, TypeOK
      <4>2. CASE ~(k.answer = "moved" /\ k.op # "restore")
        BY <4>2 DEF Report
      <4>3. QED
        BY <4>1, <4>2
    <3>3. QED
      BY <1>3, <2>2, <3>1, <3>2
  <2>5. QED
    BY <2>3, <2>4
<1>7. QED
  BY <1>4, <1>5, <1>6 DEF Books, HooksOwed

\* One row says the account is purged, and the hook is called by the purge that wrote it.
LEMMA CompleteKeepsBooks ==
  ASSUME IsFiniteSet(Caller), Inv, Books, NEW id \in Instance, CompletePurge(id)
  PROVE  Books'
<1>1. UNCHANGED <<user, call>>
  BY DEF CompletePurge
<1>2. ReportsSound' /\ \A h : Owing(h)' = Owing(h)
  BY <1>1 DEF Books, ReportsSound, Owing
<1>3. CASE Purged
  <2>1. history' = history /\ fired' = fired
    BY <1>3 DEF CompletePurge
  <2>2. Replay' = Replay /\ \A h : Moved(h)' = Moved(h)
    BY <2>1 DEF Replay, Moved
  <2>3. QED
    BY <1>1, <1>2, <2>1, <2>2 DEF Books, HistoryExplains, HooksOwed, PurgedOnce
<1>4. CASE ~Purged
  <2> DEFINE row == Row("purged", clock, Never, Never, 0)
  <2>1. row \in HistoryRow /\ row.action = "purged" /\ history' = Append(history, row)
    BY <1>4 DEF Row, HistoryRow, RowActions, Never, Inv, TypeOK, CompletePurge
  <2>2. fired' = fired \/ fired' = [fired EXCEPT !["purged"] = @ + 1]
    BY <1>4 DEF CompletePurge
  <2> HIDE DEF row
  <2>3. HistoryExplains'
    <3>1. Replayed(Replay[Len(history)], row) = Replay[Len(history)]
      BY <2>1 DEF Replayed
    <3>2. QED
      BY <1>1, <2>1, <3>1, HistoryGrows DEF Books, HistoryExplains
  <2>4. Moved("purged") = {} /\ Transition(Replay[Len(history)], row)
    BY <1>4, <2>1 DEF Moved, Purged, Transition
  <2>5. Moved("purged")' = {Len(history) + 1}
    <3>1. Moved("purged")' = Moved("purged") \union {Len(history) + 1}
      BY <2>1, <2>4, MovedGrows
    <3>2. QED
      BY <2>4, <3>1
  <2>6. Cardinality(Moved("purged")) = 0 /\ Cardinality(Moved("purged")') = 1
    BY <2>4, <2>5, FS_EmptySet, FS_Singleton
  <2>7. ASSUME NEW h \in HookName
        PROVE  fired'[h] + Cardinality(Owing(h)') <= Cardinality(Moved(h)')
    <3>1. /\ fired[h] \in Nat /\ Cardinality(Owing(h)) \in Nat
          /\ fired[h] + Cardinality(Owing(h)) <= Cardinality(Moved(h))
      BY OwingFinite DEF Inv, TypeOK, Books, HooksOwed
    <3>2. CASE h = "purged"
      <4>1. fired'[h] = fired[h] \/ fired'[h] = fired[h] + 1
        BY <2>2, <3>2 DEF Inv, TypeOK
      <4>2. QED
        BY <1>2, <2>6, <3>1, <3>2, <4>1
    <3>3. CASE h # "purged"
      <4>1. Moved(h)' = Moved(h) \union {}
        BY <2>1, <3>3, MovedGrows
      <4>2. fired'[h] = fired[h]
        BY <2>2, <3>3 DEF Inv, TypeOK
      <4>3. QED
        BY <1>2, <3>1, <4>1, <4>2
    <3>4. QED
      BY <3>2, <3>3
  <2>8. QED
    BY <1>2, <2>3, <2>6, <2>7 DEF Books, HooksOwed, PurgedOnce
<1>5. QED
  BY <1>3, <1>4

LEMMA NextBooks ==
  ASSUME IsFiniteSet(Caller)
  PROVE  Inv /\ Books /\ [Next]_vars => Books'
  BY NextKinds, SilentKeepsBooks, MovesKeepBooks, RecordsKeepBooks, ReportKeepsBooks, CompleteKeepsBooks

LEMMA BooksHold == ASSUME IsFiniteSet(Caller) PROVE Spec => []Books
  BY InvHolds, InitBooks, NextBooks, PTL DEF Spec

(***************************************************************************)
(* Replaying an account's history gives the columns it has, however its    *)
(* transitions, its purges and their failures interleave: the guard of a   *)
(* batch that moved and the row it wrote agree on what the move was.       *)
(***************************************************************************)
THEOREM HistoryAlwaysExplains == ASSUME IsFiniteSet(Caller) PROVE Spec => []HistoryExplains
<1>1. Books => HistoryExplains
  BY DEF Books
<1>2. QED
  BY <1>1, BooksHold, PTL

(***************************************************************************)
(* No hook is called more often than the account made its transition, and  *)
(* one purge at most is recorded as done: a call is owed by the request    *)
(* whose batch wrote the row, until the request makes it.                  *)
(***************************************************************************)
THEOREM HooksOncePerTransition == ASSUME IsFiniteSet(Caller) PROVE Spec => []OncePerTransition
<1>1. Inv /\ Books => OncePerTransition
  <2>1. SUFFICES ASSUME Inv, Books PROVE OncePerTransition
    OBVIOUS
  <2>2. ASSUME NEW h \in HookName
        PROVE  fired[h] <= Cardinality(Moved(h))
    <3>1. /\ fired[h] \in Nat /\ Cardinality(Owing(h)) \in Nat /\ Cardinality(Moved(h)) \in Nat
          /\ fired[h] + Cardinality(Owing(h)) <= Cardinality(Moved(h))
      BY <2>1, OwingFinite, MovedFinite DEF Inv, TypeOK, Books, HooksOwed
    <3>2. QED
      BY <3>1
  <2>3. QED
    BY <2>1, <2>2 DEF OncePerTransition, Books, PurgedOnce
<1>2. QED
  BY <1>1, InvHolds, BooksHold, PTL
=============================================================================
