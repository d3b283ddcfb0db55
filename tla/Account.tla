------------------------------- MODULE Account -------------------------------
(***************************************************************************)
(* One account's lifecycle: suspended, reinstated, deleted, restored, and  *)
(* erased by the purge.  lifecycle/transitions.ts is the one place that    *)
(* writes the account's four columns; a transition reads the account,      *)
(* decides, and moves the columns in a batch whose update names the state  *)
(* it expects and whose history row is written only if the update moved.   *)
(* purge/run.ts erases a due account one capability at a time, in durable  *)
(* steps that may run more than once, and asks before every step whether a *)
(* legal hold stands.  Requests, the daily pass, the purges and the holds  *)
(* interleave freely; the clock is D1's, and what a request reads of it is *)
(* the `at` it took when it began.                                         *)
(***************************************************************************)
EXTENDS Integers, Sequences, FiniteSets

CONSTANTS
  Caller,        \* requests in flight at once
  Contribution,  \* how many capabilities purge rows before auth does
  Retained,      \* those of them that keep their rows under a stated basis
  Window,        \* how long a soft deletion stays restorable
  DayLength,     \* instants in a day
  MaxTime,       \* bound: the last instant of the clock
  MaxCalls,      \* bound: requests made
  MaxHolds,      \* bound: holds placed
  MaxFaults      \* bound: steps lost or failed

ASSUME AccountBounds ==
  /\ Contribution \in Nat /\ Retained \subseteq 1..Contribution
  /\ Window \in Nat \ {0} /\ DayLength \in Nat \ {0} /\ MaxTime \in Nat \ {0}
  /\ MaxCalls \in Nat /\ MaxHolds \in Nat /\ MaxFaults \in Nat

VARIABLES
  clock,    \* the database's time
  user,     \* the account's row
  history,  \* its rows in pithy_auth_user_lifecycle
  fired,    \* how often each hook was called
  call,     \* the requests
  calls,    \* how many were made
  data,     \* the capabilities still holding rows about the account
  held,     \* whether a legal hold stands
  holds,    \* how many were placed
  overrun,  \* ghost: what each purge erased under the hold that stands now
  run,      \* the purge's Workflow instances
  pass,     \* the daily pass
  faults    \* steps lost or failed so far

requestVars == <<call, calls, fired>>
purgeVars == <<data, overrun, run, pass, faults>>
holdVars == <<held, holds>>
vars == <<clock, user, history, fired, call, calls, data, held, holds, overrun,
          run, pass, faults>>

Never == 0                      \* a null column
Time == 1..MaxTime
Day(t) == (t - 1) \div DayLength
LastDay == Day(MaxTime)

\* The purge's steps in order: each contribution, the last mail, auth's own
\* rows, and the record that it is done.
MailStep == Contribution + 1
AuthStep == Contribution + 2
CompleteStep == Contribution + 3
Erasing == ((1..Contribution) \ Retained) \union {AuthStep}
EveryStep == (1..Contribution) \union {AuthStep}

Operation == {"suspend", "reinstate", "soft", "hard", "inactive", "restore"}
HookName == {"suspended", "reinstated", "deleted", "purged"}

Present == [present |-> TRUE, suspendedAt |-> Never, suspendedUntil |-> Never,
            deletedAt |-> Never, purgeAfter |-> Never]
Gone == [Present EXCEPT !.present = FALSE]

InForce(u, t) ==
  u.suspendedAt # Never /\ (u.suspendedUntil = Never \/ u.suspendedUntil > t)

Standing(u, t) == IF u.deletedAt # Never THEN "deleted"
                  ELSE IF InForce(u, t) THEN "suspended" ELSE "active"

Due(u, t) == /\ u.present
             /\ u.deletedAt # Never
             /\ u.purgeAfter # Never
             /\ u.purgeAfter <= t

Row(action, at, until, purgeAfter, step) ==
  [action |-> action, at |-> at, until |-> until, purgeAfter |-> purgeAfter,
   step |-> step]

Purged == \E i \in DOMAIN history : history[i].action = "purged"

Idle == [pc |-> "idle", op |-> "none", at |-> Never, until |-> Never,
         seen |-> Gone, answer |-> "none"]

\* A purge's instance is named by the deletion's start and the day it was started.
Instance == Time \X (0..LastDay)

Init ==
  /\ clock = 1
  /\ user = Present
  /\ history = <<>>
  /\ fired = [h \in HookName |-> 0]
  /\ call = [c \in Caller |-> Idle]
  /\ calls = 0
  /\ data = EveryStep
  /\ held = FALSE
  /\ holds = 0
  /\ overrun = {}
  /\ run = [i \in Instance |-> [pc |-> "none", item |-> 0]]
  /\ pass = [day |-> -1, pc |-> "idle", due |-> Never]
  /\ faults = 0

-----------------------------------------------------------------------------
(* The requests.  One that dies takes no further step: nothing here is     *)
(* fair to it, so every behaviour may leave a request wherever it got to.  *)

Goes(c, next) == call' = [call EXCEPT ![c] = next]
\* An answered request remembers only what it asked and what it was told.
Told(c, answer) == [Idle EXCEPT !.pc = "done", !.op = call[c].op, !.answer = answer]
Answers(c, answer) == Goes(c, Told(c, answer))
Reports(c, answer) == Goes(c, [call[c] EXCEPT !.pc = "report", !.answer = answer])

\* The inactivity pass asks for a hold before it deletes; nobody else does.
Begin(c, op, until) ==
  /\ call[c].pc \in {"idle", "done"}
  /\ calls < MaxCalls
  /\ until # Never => op = "suspend" /\ until > clock
  /\ op = "inactive" => ~held
  /\ calls' = calls + 1
  /\ Goes(c, [Idle EXCEPT !.pc = "read", !.op = op, !.at = clock, !.until = until])
  /\ UNCHANGED <<clock, user, history, fired, holdVars, purgeVars>>

Absent(op) == IF op = "restore" /\ Purged THEN "purged" ELSE "missing"

\* What the read alone settles; "move" when the columns have to change.
Decided(op, u, at) ==
  LET standing == Standing(u, at) IN
  CASE op = "suspend" -> IF standing = "deleted" THEN "conflict" ELSE "move"
    [] op = "reinstate" -> IF standing = "deleted" THEN "conflict"
                           ELSE IF standing = "suspended" THEN "move" ELSE "unchanged"
    [] op \in {"soft", "inactive"} -> IF standing = "deleted" THEN "unchanged" ELSE "move"
    [] op = "hard" -> IF standing = "deleted" /\ u.purgeAfter <= at
                      THEN "unchanged" ELSE "move"
    [] op = "restore" -> IF standing # "deleted" THEN "unchanged"
                         ELSE IF u.purgeAfter <= at THEN "closed" ELSE "move"

\* A deletion that found the account deleted still starts its purge.
After(op, answer) ==
  IF answer = "move" THEN "move"
  ELSE IF answer = "unchanged" /\ op \in {"soft", "hard"} THEN "report" ELSE "done"

Read(c) ==
  LET op == call[c].op
      answer == IF user.present THEN Decided(op, user, call[c].at) ELSE Absent(op)
  IN /\ call[c].pc = "read"
     /\ Goes(c, IF After(op, answer) = "done" THEN Told(c, answer)
                ELSE [call[c] EXCEPT !.seen = user, !.answer = answer,
                                     !.pc = After(op, answer)])
     /\ UNCHANGED <<clock, user, history, fired, calls, holdVars, purgeVars>>

\* The batch: the conditional update, and the history row only if it moved.
Batch_RowRegardless(guard, columns, row) ==
  /\ user' = IF user.present /\ guard THEN columns ELSE user
  /\ history' = Append(history, row)
Batch(guard, columns, row) ==
  IF user.present /\ guard
  THEN user' = columns /\ history' = Append(history, row)
  ELSE UNCHANGED <<user, history>>

Moving(c, ops) == call[c].pc = "move" /\ call[c].op \in ops

StaysPut == UNCHANGED <<clock, fired, calls, holdVars, purgeVars>>

\* Pinned by the suspension's start: a reinstatement and a new suspension in between match nothing.
Restate(c) ==
  LET k == call[c]
      mine == /\ user.deletedAt = Never
              /\ user.suspendedAt = k.seen.suspendedAt
              /\ InForce(user, k.at)
  IN /\ Moving(c, {"suspend"})
     /\ Standing(k.seen, k.at) = "suspended"
     /\ Batch(mine, [user EXCEPT !.suspendedUntil = k.until],
              Row("suspended", k.at, k.until, Never, 0))
     /\ IF user.present /\ mine THEN Reports(c, "updated") ELSE Answers(c, "conflict")
     /\ StaysPut

\* A fresh suspension; it loses to another one, and then restates it.
Suspend(c) ==
  LET k == call[c]
      mine == user.deletedAt = Never /\ ~InForce(user, k.at)
  IN /\ Moving(c, {"suspend"})
     /\ Standing(k.seen, k.at) # "suspended"
     /\ Batch(mine, [user EXCEPT !.suspendedAt = k.at, !.suspendedUntil = k.until],
              Row("suspended", k.at, k.until, Never, 0))
     /\ IF user.present /\ mine THEN Reports(c, "moved")
        ELSE Goes(c, [k EXCEPT !.pc = "reread"])
     /\ StaysPut

Reinstate(c) ==
  LET k == call[c]
      mine == user.deletedAt = Never /\ InForce(user, k.at)
  IN /\ Moving(c, {"reinstate"})
     /\ Batch(mine, [user EXCEPT !.suspendedAt = Never, !.suspendedUntil = Never],
              Row("reinstated", k.at, Never, Never, 0))
     /\ IF user.present /\ mine THEN Reports(c, "moved") ELSE Answers(c, "unchanged")
     /\ StaysPut

ClosesAt(k) == IF k.op = "hard" THEN k.at ELSE k.at + Window

Delete(c) ==
  LET k == call[c]
      mine == user.deletedAt = Never
  IN /\ Moving(c, {"soft", "hard", "inactive"})
     /\ k.seen.deletedAt = Never
     /\ Batch(mine, [user EXCEPT !.deletedAt = k.at, !.purgeAfter = ClosesAt(k)],
              Row("deleted", k.at, Never, ClosesAt(k), 0))
     /\ IF user.present /\ mine THEN Reports(c, "moved")
        ELSE Goes(c, [k EXCEPT !.pc = "reread"])
     /\ StaysPut

\* A hard deletion of a deleted account, pinned by that deletion's start.
\* Matching nothing is answered as "unchanged", without another read.
BringForward(c) ==
  LET k == call[c]
      mine == user.deletedAt = k.seen.deletedAt /\ user.purgeAfter > k.at
  IN /\ Moving(c, {"hard"})
     /\ k.seen.deletedAt # Never
     /\ Batch(mine, [user EXCEPT !.purgeAfter = k.at],
              Row("deleted", k.at, Never, k.at, 0))
     /\ IF user.present /\ mine THEN Reports(c, "forward") ELSE Reports(c, "unchanged")
     /\ StaysPut

\* The window is compared with the database's own time, in the statement.
WindowOpen_AsRead(k) == user.purgeAfter > k.at
WindowOpen(k) == user.purgeAfter > clock

Restore(c) ==
  LET k == call[c]
      mine == user.deletedAt # Never /\ WindowOpen(k)
  IN /\ Moving(c, {"restore"})
     /\ Batch(mine, [user EXCEPT !.deletedAt = Never, !.purgeAfter = Never],
              Row("restored", k.at, Never, Never, 0))
     /\ IF user.present /\ mine THEN Reports(c, "moved")
        ELSE Goes(c, [k EXCEPT !.pc = "reread"])
     /\ StaysPut

\* What a request that lost its write finds.
Found(op, u, at) ==
  CASE op = "suspend" -> IF Standing(u, at) = "suspended" THEN "move" ELSE "conflict"
    [] op \in {"soft", "hard", "inactive"} ->
         IF u.deletedAt = Never THEN "conflict" ELSE "unchanged"
    [] op = "restore" -> IF u.deletedAt = Never THEN "unchanged"
                         ELSE IF u.purgeAfter <= clock THEN "closed" ELSE "conflict"

Reread(c) ==
  LET op == call[c].op
      answer == IF user.present THEN Found(op, user, call[c].at) ELSE Absent(op)
  IN /\ call[c].pc = "reread"
     /\ Goes(c, IF After(op, answer) = "done" THEN Told(c, answer)
                ELSE [call[c] EXCEPT !.seen = user, !.answer = answer,
                                     !.pc = After(op, answer)])
     /\ UNCHANGED <<clock, user, history, fired, calls, holdVars, purgeVars>>

\* The hook, for a transition and never for a restatement.
HookOf(op) == CASE op = "suspend" -> "suspended"
                [] op = "reinstate" -> "reinstated"
                [] op \in {"soft", "hard", "inactive"} -> "deleted"

Report_Restatements(c) ==
  LET k == call[c] IN
  /\ k.pc = "report"
  /\ fired' = IF k.answer # "unchanged" /\ k.op # "restore"
              THEN [fired EXCEPT ![HookOf(k.op)] = @ + 1] ELSE fired
  /\ IF k.op \in {"soft", "hard"} THEN Goes(c, [k EXCEPT !.pc = "route"])
     ELSE Answers(c, k.answer)
  /\ UNCHANGED <<clock, user, history, calls, holdVars, purgeVars>>

Report(c) ==
  LET k == call[c] IN
  /\ k.pc = "report"
  /\ fired' = IF k.answer = "moved" /\ k.op # "restore"
              THEN [fired EXCEPT ![HookOf(k.op)] = @ + 1] ELSE fired
  /\ IF k.op \in {"soft", "hard"} THEN Goes(c, [k EXCEPT !.pc = "route"])
     ELSE Answers(c, k.answer)
  /\ UNCHANGED <<clock, user, history, calls, holdVars, purgeVars>>

-----------------------------------------------------------------------------
(* Starting a purge: by a deletion that is due already, or by the day's    *)
(* pass.  The instance's id is taken once, so a second start finds it.     *)

Started(id) == run' = IF run[id].pc = "none"
                      THEN [run EXCEPT ![id] = [pc |-> "due", item |-> 0]] ELSE run

Result(k) == CASE k.answer = "moved" -> <<k.at, ClosesAt(k)>>
               [] k.answer = "forward" -> <<k.seen.deletedAt, k.at>>
               [] OTHER -> <<k.seen.deletedAt, k.seen.purgeAfter>>

Route(c) ==
  LET k == call[c] IN
  /\ k.pc = "route"
  /\ IF k.op = "hard" \/ Result(k)[2] <= clock
     THEN Started(<<Result(k)[1], Day(clock)>>) ELSE UNCHANGED run
  /\ Answers(c, k.answer)
  /\ UNCHANGED <<clock, user, history, fired, calls, holdVars, data, overrun, pass, faults>>

ListDue ==
  /\ pass.pc = "idle"
  /\ pass.day < Day(clock)
  /\ pass' = [day |-> Day(clock),
              pc |-> IF Due(user, clock) THEN "start" ELSE "idle",
              due |-> IF Due(user, clock) THEN user.deletedAt ELSE Never]
  /\ UNCHANGED <<clock, user, history, requestVars, data, holdVars, overrun, run, faults>>

StartDue_OneId ==
  /\ pass.pc = "start"
  /\ IF held THEN UNCHANGED run ELSE Started(<<pass.due, Day(pass.due)>>)
  /\ pass' = [pass EXCEPT !.pc = "idle"]
  /\ UNCHANGED <<clock, user, history, requestVars, data, holdVars, overrun, faults>>

StartDue ==
  /\ pass.pc = "start"
  /\ IF held THEN UNCHANGED run ELSE Started(<<pass.due, Day(clock)>>)
  /\ pass' = [pass EXCEPT !.pc = "idle"]
  /\ UNCHANGED <<clock, user, history, requestVars, data, holdVars, overrun, faults>>

-----------------------------------------------------------------------------
(* One instance.  A step is asked for, run, and journaled; lost before the *)
(* journal, it is run again from its start.                                *)

Others == <<clock, requestVars, pass>>
At(id, pc) == run[id].pc = pc
Ends(id, pc) == run' = [run EXCEPT ![id].pc = pc]

\* Before every step but the last, whether a hold stands is a step of its own.
Advanced_Unasked(id) == [pc |-> "step", item |-> run[id].item + 1]
Advanced(id) ==
  LET next == run[id].item + 1
  IN [pc |-> IF next = CompleteStep THEN "step" ELSE "hold", item |-> next]

CanFail == faults < MaxFaults /\ Day(clock) < LastDay

\* The step is journaled, or its answer is lost and it runs again.
Journals(id) ==
  \/ run' = [run EXCEPT ![id] = Advanced(id)] /\ UNCHANGED faults
  \/ CanFail /\ faults' = faults + 1 /\ run' = [run EXCEPT ![id].pc = "step"]

CheckDue(id) ==
  /\ At(id, "due")
  /\ IF Due(user, clock) THEN run' = [run EXCEPT ![id] = Advanced(id)]
     ELSE Ends(id, IF user.present THEN "not_due" ELSE "gone")
  /\ UNCHANGED <<Others, user, history, data, holdVars, overrun, faults>>

AskHold_PassesOver(id) ==
  /\ At(id, "hold")
  /\ IF held THEN run' = [run EXCEPT ![id] = Advanced(id)] ELSE Ends(id, "step")
  /\ UNCHANGED <<Others, user, history, data, holdVars, overrun, faults>>

AskHold(id) ==
  /\ At(id, "hold")
  /\ Ends(id, IF held THEN "held" ELSE "step")
  /\ UNCHANGED <<Others, user, history, data, holdVars, overrun, faults>>

\* A contribution's rows go; auth's own step takes the account's row with them.
Erase(id) ==
  /\ At(id, "step")
  /\ run[id].item \in Erasing
  /\ data' = data \ {run[id].item}
  /\ user' = IF run[id].item = AuthStep THEN Gone ELSE user
  /\ overrun' = IF held THEN overrun \union {<<id, run[id].item>>} ELSE overrun
  /\ Ends(id, "record")
  /\ UNCHANGED <<Others, history, holdVars, faults>>

RecordStep(id) ==
  /\ At(id, "record")
  /\ history' = Append(history, Row("purge_step", clock, Never, Never, run[id].item))
  /\ Journals(id)
  /\ UNCHANGED <<Others, user, data, holdVars, overrun>>

RetainStep(id) ==
  /\ At(id, "step")
  /\ run[id].item \in Retained
  /\ history' = Append(history, Row("purge_retained", clock, Never, Never, run[id].item))
  /\ Journals(id)
  /\ UNCHANGED <<Others, user, data, holdVars, overrun>>

MailComplete(id) ==
  /\ At(id, "step")
  /\ run[id].item = MailStep
  /\ Journals(id)
  /\ UNCHANGED <<Others, user, history, data, holdVars, overrun>>

\* One purged row per account: only the call whose row landed goes on to the
\* hook, and a call lost in between never fires it.
CompletePurge(id) ==
  /\ At(id, "step")
  /\ run[id].item = CompleteStep
  /\ history' = IF Purged THEN history
                ELSE Append(history, Row("purged", clock, Never, Never, 0))
  /\ \/ /\ fired' = IF Purged THEN fired ELSE [fired EXCEPT !["purged"] = @ + 1]
        /\ Ends(id, "purged")
        /\ UNCHANGED faults
     \/ /\ CanFail
        /\ faults' = faults + 1
        /\ UNCHANGED <<fired, run>>
  /\ UNCHANGED <<clock, call, calls, pass, user, data, holdVars, overrun>>

\* A step throws or is lost: tried again from its start, or given up.
Fail(id) ==
  /\ run[id].pc \in {"due", "hold", "step", "record"}
  /\ CanFail
  /\ faults' = faults + 1
  /\ \/ At(id, "record") /\ Ends(id, "step")
     \/ Ends(id, IF At(id, "due") THEN "failed" ELSE IF At(id, "hold") THEN "stuck" ELSE "failing")
  /\ UNCHANGED <<Others, user, history, data, holdVars, overrun>>

\* `current` is set as a step starts, after its hold was asked for.
Current(id) ==
  IF At(id, "stuck") /\ run[id].item # MailStep THEN run[id].item - 1 ELSE run[id].item

RecordFailure(id) ==
  /\ run[id].pc \in {"failing", "stuck"}
  /\ \/ history' = Append(history, Row("purge_failed", clock, Never, Never, Current(id)))
     \/ CanFail /\ UNCHANGED history
  /\ Ends(id, "failed")
  /\ UNCHANGED <<Others, user, data, holdVars, overrun, faults>>

-----------------------------------------------------------------------------
(* The world: holds come and go, and time passes.                          *)

PlaceHold ==
  /\ ~held /\ holds < MaxHolds /\ Day(clock) < LastDay
  /\ held' = TRUE /\ holds' = holds + 1 /\ overrun' = {}
  /\ UNCHANGED <<clock, user, history, requestVars, data, run, pass, faults>>

ReleaseHold ==
  /\ held /\ Day(clock) < LastDay
  /\ held' = FALSE /\ overrun' = {}
  /\ UNCHANGED <<clock, user, history, requestVars, data, holds, run, pass, faults>>

Tick ==
  /\ clock < MaxTime
  /\ clock' = clock + 1
  /\ UNCHANGED <<user, history, requestVars, purgeVars, holdVars>>

Request(c) ==
  \/ \E op \in Operation, until \in {Never} \union Time : Begin(c, op, until)
  \/ Read(c) \/ Reread(c) \/ Report(c) \/ Route(c)
  \/ Suspend(c) \/ Restate(c) \/ Reinstate(c)
  \/ Delete(c) \/ BringForward(c) \/ Restore(c)

Works(id) ==
  \/ CheckDue(id) \/ AskHold(id) \/ Erase(id) \/ RecordStep(id) \/ RetainStep(id)
  \/ MailComplete(id) \/ CompletePurge(id) \/ RecordFailure(id)

Purge(id) == Works(id) \/ Fail(id)

Next ==
  \/ \E c \in Caller : Request(c)
  \/ \E id \in Instance : Purge(id)
  \/ ListDue \/ StartDue \/ PlaceHold \/ ReleaseHold \/ Tick

Spec == Init /\ [][Next]_vars

\* The platform runs an instance it holds, the cron fires once a day, time goes on.
FairSpec ==
  /\ Spec
  /\ WF_vars(Tick) /\ WF_vars(ListDue) /\ WF_vars(StartDue)
  /\ \A id \in Instance : WF_vars(Works(id))
=============================================================================
