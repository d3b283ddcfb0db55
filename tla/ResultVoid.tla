------------------------------- MODULE ResultVoid -------------------------------
(***************************************************************************)
(* Voiding results: an operator's request marks a result void under its    *)
(* idempotency key, then calls each composed consumer in turn and records  *)
(* what it did. Requests run concurrently, one D1 query or batch a step; a *)
(* consumer's run is a span of time. What keeps two runs of one consumer   *)
(* apart is the key, which is spent once, and the lease of the void that   *)
(* left consumers pending.                                                 *)
(*                                                                         *)
(* The names that every specification has are prefixed, so that a module   *)
(* (RequestProofs) can extend this one beside Members.                     *)
(***************************************************************************)
EXTENDS Integers, Sequences, SequencesExt

CONSTANTS
  VoidRequest,  \* requests in progress at once
  Result,       \* the results that may be voided
  Key,          \* idempotency keys
  NoKey,        \* the null of the voidKey column
  Consumers,    \* the composed consumers, in the order they are called
  Lease,        \* VOID_LEASE_MS
  MaxClock      \* bound on the clock

ASSUME LeaseAssumption == Lease \in Nat \ {0} /\ MaxClock \in Nat

ASSUME ConsumersAssumption == Consumers \in Seq(STRING) /\ Len(Consumers) > 0

ASSUME NamesAssumption == NoKey \notin Key /\ "nothing" \notin Result

VARIABLES
  row,     \* Result -> the void columns of its row
  spent,   \* the key table: Key -> the result it was spent on and when, or Unspent
  call,    \* VoidRequest -> the locals of the request
  clock,
  reply,   \* what the last request to end was answered
  acts     \* history: Key -> how many requests acted under it (each emits one audit event)

voidVars == <<row, spent, call, clock, reply, acts>>

Consumer == ToSet(Consumers)

Status == {"unset", "pending", "done", "failed"}

Unspent == [on |-> "nothing", at |-> 0]

Counting == [key |-> NoKey, status |-> [c \in Consumer |-> "unset"]]

NoCall == [stage |-> "idle"]

NoReply == [answer |-> "none"]

VoidInit ==
  /\ row = [r \in Result |-> Counting]
  /\ spent = [k \in Key |-> Unspent]
  /\ call = [q \in VoidRequest |-> NoCall]
  /\ clock = 0
  /\ reply = NoReply
  /\ acts = [k \in Key |-> 0]

Voided(r) == row[r].key # NoKey

IsSpent(k) == spent[k] # Unspent

\* Nothing is left for a retry to do.
Finished(status) == \A c \in Consumer : status[c] = "done"

\* A request, gone or still at work, has claimed consumers it did not report on.
Waits(status) == \E c \in Consumer : status[c] = "pending"

-----------------------------------------------------------------------------

GoOn(q, w) == call' = [call EXCEPT ![q] = w] /\ reply' = NoReply

End(q, answer) ==
  /\ call' = [call EXCEPT ![q] = NoCall]
  /\ reply' = [answer |-> answer, result |-> call[q].result]

Matching_AnyResult(k, r) == "replay"

\* byVoidKey found the key: a replay of this void, or a key used to void another result.
Matching(k, r) == IF spent[k].on = r THEN "replay" ELSE "conflict"

\* A request starts, takes the time, and reads whether its key was ever spent.
Begin(q, k, r) ==
  /\ call[q] = NoCall
  /\ IF IsSpent(k)
       THEN call' = call /\ reply' = [answer |-> Matching(k, r), result |-> r]
       ELSE GoOn(q, [stage |-> "unspent", key |-> k, result |-> r, now |-> clock,
                     from |-> NoKey, status |-> row[r].status])
  /\ UNCHANGED <<row, spent, clock, acts>>

\* get: what the row says now decides between a first void, a retry and nothing to do.
ReadResult(q) ==
  LET w == call[q]
      status == row[w.result].status
      read(stage) == [w EXCEPT !.stage = stage, !.from = row[w.result].key, !.status = status]
  IN /\ w.stage = "unspent"
     /\ \/ ~Voided(w.result) /\ GoOn(q, read("counts"))
        \/ Voided(w.result) /\ Finished(status) /\ End(q, "replay")
        \/ /\ Voided(w.result) /\ ~Finished(status)
           /\ GoOn(q, read(IF Waits(status) THEN "leased" ELSE "free"))
     /\ UNCHANGED <<row, spent, clock, acts>>

HeldUntil_Unleased(k) == 0

HeldUntil(k) == spent[k].at + Lease

\* stillRunning
CheckLease(q) ==
  LET w == call[q]
  IN /\ w.stage = "leased"
     /\ IF w.now < HeldUntil(w.from) THEN End(q, "conflict") ELSE GoOn(q, [w EXCEPT !.stage = "free"])
     /\ UNCHANGED <<row, spent, clock, acts>>

Take(q, status) ==
  LET w == call[q]
  IN /\ spent' = [spent EXCEPT ![w.key] = [on |-> w.result, at |-> w.now]]
     /\ row' = [row EXCEPT ![w.result] = [key |-> w.key, status |-> status]]
     /\ acts' = [acts EXCEPT ![w.key] = @ + 1]
     /\ GoOn(q, [w EXCEPT !.stage = "running", !.status = status])
     /\ UNCHANGED clock

Spend_Again(q, condition, status) ==
  \/ condition /\ Take(q, status)
  \/ ~condition /\ End(q, "replay") /\ UNCHANGED <<row, spent, clock, acts>>

\* The batch of a spend and an update: the spend selects nothing when the condition is false,
\* and meets the key's unique index when it is true and the key is spent.
Spend(q, condition, status) ==
  \/ condition /\ ~IsSpent(call[q].key) /\ Take(q, status)
  \/ condition /\ IsSpent(call[q].key) /\ End(q, Matching(call[q].key, call[q].result)) /\ UNCHANGED <<row, spent, clock, acts>>
  \/ ~condition /\ End(q, "replay") /\ UNCHANGED <<row, spent, clock, acts>>

MarkVoided(q) ==
  LET w == call[q]
  IN /\ w.stage = "counts"
     /\ Spend(q, ~Voided(w.result), [c \in Consumer |-> "pending"])

Claimable_Unconditional(w) == Voided(w.result)

Claimable(w) == Voided(w.result) /\ row[w.result].key = w.from

ClaimRetry(q) ==
  LET w == call[q]
  IN /\ w.stage = "free"
     /\ Spend(q, Claimable(w), [c \in Consumer |-> IF w.status[c] = "done" THEN "done" ELSE "pending"])

Recorded(status, c, outcome) == [status EXCEPT ![c] = outcome]

\* The first consumer still pending has run, and recordConsumers writes the whole list over
\* the row's.
RecordConsumer(q, outcome) ==
  LET w == call[q]
  IN /\ w.stage = "running"
     /\ \E i \in DOMAIN Consumers :
          LET status == Recorded(w.status, Consumers[i], outcome)
          IN /\ w.status[Consumers[i]] = "pending"
             /\ \A j \in 1 .. i - 1 : w.status[Consumers[j]] # "pending"
             /\ row' = [row EXCEPT ![w.result].status = status]
             /\ IF Waits(status) THEN GoOn(q, [w EXCEPT !.status = status]) ELSE End(q, "acted")
     /\ UNCHANGED <<spent, clock, acts>>

Crash(q) ==
  /\ call[q] # NoCall
  /\ GoOn(q, NoCall)
  /\ UNCHANGED <<row, spent, clock, acts>>

(***************************************************************************)
(* Environment: no request runs as long as a lease ("longer than any one   *)
(* request runs, so a void past it has stopped, not slowed down").         *)
(***************************************************************************)
Tick ==
  /\ clock < MaxClock
  /\ \A q \in VoidRequest : call[q] # NoCall => clock + 1 < call[q].now + Lease
  /\ clock' = clock + 1
  /\ reply' = NoReply
  /\ UNCHANGED <<row, spent, call, acts>>

VoidNext ==
  \/ \E q \in VoidRequest :
       \/ \E k \in Key, r \in Result : Begin(q, k, r)
       \/ ReadResult(q) \/ CheckLease(q) \/ MarkVoided(q) \/ ClaimRetry(q)
       \/ Crash(q)
       \/ \E outcome \in {"done", "failed"} : RecordConsumer(q, outcome)
  \/ Tick

VoidSpec == VoidInit /\ [][VoidNext]_voidVars

-----------------------------------------------------------------------------
(* Properties *)

Calls == [stage : {"unspent", "counts", "leased", "free", "running"}, key : Key,
          result : Result, now : Nat, from : Key \cup {NoKey}, status : [Consumer -> Status]]

\* Every variable keeps its shape, and no time is later than the clock.
VoidTypeOK ==
  /\ row \in [Result -> [key : Key \cup {NoKey}, status : [Consumer -> Status]]]
  /\ spent \in [Key -> [on : Result, at : Nat] \cup {Unspent}]
  /\ call \in [VoidRequest -> Calls \cup {NoCall}]
  /\ clock \in Nat
  /\ acts \in [Key -> Nat]

(***************************************************************************)
(* No two requests run one consumer for one result at once: "two           *)
(* leaderboard runs that both read a contribution before either removes it *)
(* take the score off twice". Keys alone do not give it, since each        *)
(* operator may send a new one; the lease does.                            *)
(***************************************************************************)
Running(q, r) == call[q].stage = "running" /\ call[q].result = r

NeverTwiceAtOnce ==
  \A r \in Result, p, q \in VoidRequest : Running(p, r) /\ Running(q, r) => p = q

(***************************************************************************)
(* "What already came back stays back": a consumer recorded as done is     *)
(* never pending or failed again, whichever retry writes the whole list    *)
(* over the row.                                                           *)
(***************************************************************************)
DoneStays ==
  [][\A r \in Result, c \in Consumer : row[r].status[c] = "done" => row'[r].status[c] = "done"]_voidVars

(***************************************************************************)
(* One act per key, whatever is sent twice: at most one request ever acts  *)
(* under it (and is audited), a void holds a key spent on that result, and *)
(* a request is answered as replayed only of a result that is void.        *)
(***************************************************************************)
OneActPerKey ==
  /\ \A k \in Key : acts[k] = IF IsSpent(k) THEN 1 ELSE 0
  /\ \A r \in Result : Voided(r) => spent[row[r].key].on = r
  /\ reply.answer = "replay" => Voided(reply.result)
=============================================================================
