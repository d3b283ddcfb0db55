----------------------------- MODULE RequestProofs -----------------------------
(***************************************************************************)
(* Theorems about the two components that overlapping requests change: an  *)
(* organization's roster and the void columns of the results.  In both, a  *)
(* request reads, awaits, and then sends a statement that tests what it    *)
(* relies on, so a proof comes down to what a statement that lands does to *)
(* the rows as they then are, given what the request read.                 *)
(***************************************************************************)
EXTENDS MembersProperties, ResultVoid, FiniteSetTheorems, TLAPS

-----------------------------------------------------------------------------
(***************************************************************************)
(* THE ROSTER, for any finite set of people, any number of requests at     *)
(* once, any catalog of roles and any limit.                               *)
(*                                                                         *)
(* The only thing carried from the read is what the request was for        *)
(* (Purposes), and the only history a ledger of invitations (LinksSpent).  *)
(***************************************************************************)

\* What a request between its read and its write may be for.
Purpose(r) ==
  /\ r \in Request
  /\ r.op \in {"change", "operate", "add"} => r.to \in Assignable
  /\ r.op = "redeem" => r.to \in Assignable
  /\ r.op = "end" => r.was \in Assignable

Purposes == \A w \in Worker : worker[w] # NoRequest => Purpose(worker[w])

\* A link that still stands has made one membership fewer than were ever sent.
LinksSpent == \A p \in Person : joined[p] + (IF invite[p].pending THEN 1 ELSE 0) <= invite[p].serial

\* A read changes nothing but the request that made it.
LEMMA AskIs ==
  ASSUME TypeOK, NEW w \in Worker, Ask(w)
  PROVE  /\ UNCHANGED <<role, tenure, offer, invite, acting, overridden, joined, blind, sent, faults>>
         /\ requests' \in Nat
         /\ \E r \in Request : Purpose(r) /\ worker' = [worker EXCEPT ![w] = r]
<1> DEFINE made(op, p, to, flag) == [op |-> op, who |-> p, tenure |-> tenure[p], was |-> role[p], to |-> to, flag |-> flag]
<1>1. /\ role \in [Person -> Role \union {Out}] /\ tenure \in [Person -> Nat] /\ requests \in Nat
      /\ invite \in [Person -> [serial : Nat, role : Assignable, pending : BOOLEAN]]
      /\ Assignable \subseteq Role /\ Owner \in Role
  BY MembersConstants DEF TypeOK, Assignable
<1>2. ASSUME NEW op \in {"change", "operate", "end", "add", "nominate", "withdraw", "accept", "force", "choose"},
             NEW p \in Person, NEW to \in Role \union {Out}, NEW flag \in BOOLEAN, Read(w, op, p, to, flag),
             op \in {"change", "operate", "add"} => to \in Assignable,
             op = "end" => role[p] \in Assignable
      PROVE  /\ UNCHANGED <<role, tenure, offer, invite, acting, overridden, joined, blind, sent, faults>>
             /\ requests' \in Nat
             /\ \E r \in Request : Purpose(r) /\ worker' = [worker EXCEPT ![w] = r]
  <2>1. made(op, p, to, flag) \in Request
    BY <1>1, <1>2 DEF Request
  <2>2. Purpose(made(op, p, to, flag))
    BY <1>2, <2>1 DEF Purpose
  <2>3. UNCHANGED <<role, tenure, offer, invite, acting, overridden, joined, blind, sent, faults>>
    BY <1>2 DEF Read, people, ghosts
  <2>4. requests' \in Nat
    BY <1>1, <1>2 DEF Read
  <2>5. worker' = [worker EXCEPT ![w] = made(op, p, to, flag)]
    BY <1>2 DEF Read
  <2>6. QED
    BY <2>1, <2>2, <2>3, <2>4, <2>5
<1>3. CASE AskRoleChange(w)
  BY <1>1, <1>2, <1>3 DEF AskRoleChange, Members
<1>4. CASE AskOperatorChange(w)
  BY <1>1, <1>2, <1>4 DEF AskOperatorChange, Members
<1>5. CASE AskEnd(w)
  BY <1>1, <1>2, <1>5 DEF AskEnd, Members
<1>6. CASE AskAdd(w)
  BY <1>1, <1>2, <1>6 DEF AskAdd
<1>7. CASE AskRedeem(w)
  <2>1. PICK p \in Person :
          /\ requests' = requests + 1
          /\ worker' = [worker EXCEPT ![w] = [op |-> "redeem", who |-> p, tenure |-> invite[p].serial, was |-> role[p],
                                              to |-> invite[p].role, flag |-> p \in Members]]
    BY <1>7 DEF AskRedeem
  <2> DEFINE r == [op |-> "redeem", who |-> p, tenure |-> invite[p].serial, was |-> role[p],
                   to |-> invite[p].role, flag |-> p \in Members]
  <2>2. invite[p].serial \in Nat /\ invite[p].role \in Assignable
    BY <1>1
  <2>3. r \in Request /\ Purpose(r)
    BY <1>1, <2>2 DEF Request, Purpose
  <2>4. UNCHANGED <<role, tenure, offer, invite, acting, overridden, joined, blind, sent, faults>>
    BY <1>7 DEF AskRedeem, people, ghosts
  <2>5. requests' \in Nat
    BY <1>1, <2>1
  <2>6. worker' = [worker EXCEPT ![w] = r]
    BY <2>1
  <2>7. QED
    BY <2>3, <2>4, <2>5, <2>6
<1>8. CASE AskNominate(w)
  BY <1>1, <1>2, <1>8 DEF AskNominate, Members
<1>9. CASE AskWithdraw(w)
  BY <1>1, <1>2, <1>9 DEF AskWithdraw
<1>10. CASE AskAccept(w)
  BY <1>1, <1>2, <1>10 DEF AskAccept, TypeOK
<1>11. CASE AskForce(w)
  BY <1>1, <1>2, <1>11 DEF AskForce, Members
<1>12. CASE AskChoose(w)
  BY <1>1, <1>2, <1>12 DEF AskChoose, Members
<1>13. QED
  BY <1>3, <1>4, <1>5, <1>6, <1>7, <1>8, <1>9, <1>10, <1>11, <1>12 DEF Ask

\* A write that ends its request, or leaves it to run again.
LEMMA AnswerIs ==
  ASSUME TypeOK, Purposes, NEW w \in Worker, worker[w] # NoRequest, Answered(w) \/ AnsweredOrRetried(w)
  PROVE  /\ worker' \in [Worker -> Request \union {NoRequest}] /\ Purposes'
         /\ {requests', sent', faults'} \subseteq Nat
<1>1. worker \in [Worker -> Request \union {NoRequest}] /\ {requests, sent, faults} \subseteq Nat
  BY DEF TypeOK
<1>2. CASE Answered(w)
  BY <1>1, <1>2 DEF Answered, Purposes
<1>3. CASE AnsweredOrRetried(w) /\ ~Answered(w)
  <2>1. UNCHANGED <<worker, requests, sent>> /\ faults' = faults + 1
    BY <1>3 DEF AnsweredOrRetried
  <2>2. QED
    BY <1>1, <2>1 DEF Purposes
<1>4. QED
  BY <1>2, <1>3

\* Everything but the roster, the ghosts and the requests keeps its shape by inspection.
LEMMA TypesStep ==
  ASSUME TypeOK, Purposes, [Next]_vars
  PROVE  TypeOK' /\ Purposes'
<1>1. /\ role \in [Person -> Role \union {Out}] /\ tenure \in [Person -> Nat]
      /\ offer \in [to : Person, tenure : Nat, live : BOOLEAN] \union {NoOffer}
      /\ invite \in [Person -> [serial : Nat, role : Assignable, pending : BOOLEAN]]
      /\ acting \subseteq Person
      /\ worker \in [Worker -> Request \union {NoRequest}]
      /\ overridden \in Nat /\ joined \in [Person -> Nat] /\ blind \in BOOLEAN
      /\ {requests, sent, faults} \subseteq Nat
      /\ Assignable \subseteq Role /\ Owner \in Role /\ Demoted \in Role
  BY MembersConstants DEF TypeOK, Assignable
<1>2. ASSUME NEW w \in Worker, worker[w] # NoRequest
      PROVE  /\ worker[w].who \in Person /\ worker[w].tenure \in Nat /\ worker[w].to \in Role \union {Out}
             /\ worker[w].was \in Role \union {Out} /\ worker[w].flag \in BOOLEAN
             /\ worker[w] \in Request /\ Purpose(worker[w])
  BY <1>1, <1>2 DEF Request, Purposes
<1>3. CASE \E w \in Worker : Ask(w)
  <2>1. PICK w \in Worker : Ask(w)
    BY <1>3
  <2>2. /\ UNCHANGED <<role, tenure, offer, invite, acting, overridden, joined, blind, sent, faults>>
        /\ requests' \in Nat
        /\ \E r \in Request : Purpose(r) /\ worker' = [worker EXCEPT ![w] = r]
    BY <2>1, AskIs
  <2>3. worker' \in [Worker -> Request \union {NoRequest}] /\ Purposes'
    BY <1>1, <2>2 DEF Purposes
  <2>4. QED
    BY <1>1, <2>2, <2>3 DEF TypeOK
<1>4. ASSUME NEW w \in Worker, LandRoleChange(w) \/ LandOperatorChange(w)
      PROVE  TypeOK' /\ Purposes'
  <2>1. worker[w] # NoRequest /\ (Answered(w) \/ AnsweredOrRetried(w))
    BY <1>4 DEF LandRoleChange, LandOperatorChange, Writing
  <2>2. UNCHANGED <<tenure, offer, invite, acting, overridden, joined>>
    BY <1>4 DEF LandRoleChange, LandOperatorChange, ghosts
  <2>3. role' = role \/ role' = [role EXCEPT ![worker[w].who] = worker[w].to]
    BY <1>4 DEF LandRoleChange, LandOperatorChange
  <2>4. blind' \in BOOLEAN
    BY <1>1, <1>4 DEF LandRoleChange, LandOperatorChange, ghosts
  <2>5. role' \in [Person -> Role \union {Out}]
    BY <1>1, <1>2, <2>1, <2>3
  <2>6. QED
    BY <1>1, <2>1, <2>2, <2>4, <2>5, AnswerIs DEF TypeOK
<1>5. ASSUME NEW w \in Worker, LandEnd(w)
      PROVE  TypeOK' /\ Purposes'
  <2>1. worker[w] # NoRequest /\ AnsweredOrRetried(w) /\ UNCHANGED <<tenure, invite, overridden, joined, blind>>
    BY <1>5 DEF LandEnd, Writing, ghosts
  <2>2. role' = role \/ role' = [role EXCEPT ![worker[w].who] = Out]
    BY <1>5 DEF LandEnd
  <2>3. acting' \subseteq acting /\ offer' \in {offer, NoOffer}
    BY <1>5 DEF LandEnd
  <2>4. role' \in [Person -> Role \union {Out}] /\ acting' \subseteq Person
        /\ offer' \in [to : Person, tenure : Nat, live : BOOLEAN] \union {NoOffer}
    BY <1>1, <2>2, <2>3
  <2>5. QED
    BY <1>1, <2>1, <2>4, AnswerIs DEF TypeOK
<1>6. ASSUME NEW w \in Worker, LandAdd(w) \/ LandRedeem(w)
      PROVE  TypeOK' /\ Purposes'
  <2>1. worker[w] # NoRequest /\ (Answered(w) \/ AnsweredOrRetried(w)) /\ UNCHANGED <<offer, acting, blind>>
    BY <1>6 DEF LandAdd, LandRedeem, Writing
  <2>2. UNCHANGED <<role, tenure>> \/ Join(worker[w].who, worker[w].to)
    BY <1>6 DEF LandAdd, LandRedeem, people
  <2>3. role' \in [Person -> Role \union {Out}] /\ tenure' \in [Person -> Nat]
    BY <1>1, <1>2, <2>1, <2>2 DEF Join
  <2>4. overridden' \in Nat
    BY <1>1, <1>6 DEF LandAdd, LandRedeem
  <2>5. joined' = joined \/ joined' = [joined EXCEPT ![worker[w].who] = @ + 1]
    BY <1>6 DEF LandAdd, LandRedeem
  <2>6. invite' = invite \/ invite' = [invite EXCEPT ![worker[w].who].pending = FALSE]
    BY <1>6 DEF LandAdd, LandRedeem
  <2>7. joined' \in [Person -> Nat]
    BY <1>1, <1>2, <2>1, <2>5
  <2>8. invite' \in [Person -> [serial : Nat, role : Assignable, pending : BOOLEAN]]
    <3>1. invite \in [Person -> [serial : Nat, role : Assignable, pending : BOOLEAN]]
      BY <1>1
    <3>2. \A p \in Person : [invite[p] EXCEPT !.pending = FALSE] \in [serial : Nat, role : Assignable, pending : BOOLEAN]
      BY <3>1
    <3>3. QED
      BY <2>6, <3>1, <3>2
  <2>9. QED
    BY <1>1, <2>1, <2>3, <2>4, <2>7, <2>8, AnswerIs DEF TypeOK
<1>7. ASSUME NEW w \in Worker, LandNominate(w) \/ LandWithdraw(w) \/ LandChoose(w)
      PROVE  TypeOK' /\ Purposes'
  <2>1. worker[w] # NoRequest /\ Answered(w) /\ UNCHANGED <<role, tenure, invite, overridden, joined, blind>>
    BY <1>7 DEF LandNominate, LandWithdraw, LandChoose, Writing, people, ghosts
  <2>2. offer' \in {offer, NoOffer, [to |-> worker[w].who, tenure |-> worker[w].tenure, live |-> TRUE]}
    BY <1>7 DEF LandNominate, LandWithdraw, LandChoose
  <2>3. [to |-> worker[w].who, tenure |-> worker[w].tenure, live |-> TRUE] \in [to : Person, tenure : Nat, live : BOOLEAN]
    BY <1>2, <2>1
  <2>4. acting' = acting \/ acting' = acting \union {worker[w].who}
    BY <1>7 DEF LandNominate, LandWithdraw, LandChoose
  <2>5. offer' \in [to : Person, tenure : Nat, live : BOOLEAN] \union {NoOffer}
    BY <1>1, <2>2, <2>3
  <2>6. acting' \subseteq Person
    BY <1>1, <1>2, <2>1, <2>4
  <2>7. QED
    BY <1>1, <2>1, <2>5, <2>6, AnswerIs DEF TypeOK
<1>8. ASSUME NEW w \in Worker, ReadHolders(w)
      PROVE  TypeOK' /\ Purposes'
  <2>1. worker[w] # NoRequest /\ worker[w] \in Request
    BY <1>2, <1>8 DEF ReadHolders, Writing
  <2> DEFINE r == [worker[w] EXCEPT !.op = "transfer", !.flag = (Owners \ {worker[w].who} # {})]
  <2>2. r \in Request /\ r.op = "transfer"
    BY <2>1 DEF Request
  <2>3. worker' = [worker EXCEPT ![w] = r]
    BY <1>1, <1>8 DEF ReadHolders
  <2>4. worker' \in [Worker -> Request \union {NoRequest}] /\ Purposes'
    BY <1>1, <2>2, <2>3 DEF Purposes, Purpose
  <2>5. UNCHANGED <<role, tenure, offer, invite, acting, overridden, joined, blind, requests, sent, faults>>
    BY <1>8 DEF ReadHolders, people, ghosts
  <2>6. QED
    BY <1>1, <2>4, <2>5 DEF TypeOK
<1>9. ASSUME NEW w \in Worker, LandAccept(w) \/ LandForce(w)
      PROVE  TypeOK' /\ Purposes'
  <2>1. worker[w] # NoRequest /\ AnsweredOrRetried(w) /\ UNCHANGED <<tenure, invite, overridden, joined, blind>>
    BY <1>9 DEF LandAccept, LandForce, Writing, ghosts
  <2>2. role' \in [Person -> Role \union {Out}]
    BY <1>1, <1>9 DEF LandAccept, LandForce
  <2>3. acting' \subseteq Person /\ offer' \in {offer, NoOffer}
    BY <1>1, <1>9 DEF LandAccept, LandForce
  <2>4. QED
    BY <1>1, <2>1, <2>2, <2>3, AnswerIs DEF TypeOK
<1>10. ASSUME NEW p \in Person, Invite(p) \/ WithdrawInvitation(p)
       PROVE  TypeOK' /\ Purposes'
  <2>1. UNCHANGED <<role, tenure, offer, acting, worker, overridden, joined, blind, requests, faults>>
    BY <1>10 DEF Invite, WithdrawInvitation, people, ghosts
  <2>2. sent' \in Nat
    BY <1>1, <1>10 DEF Invite, WithdrawInvitation
  <2>3. invite' \in [Person -> [serial : Nat, role : Assignable, pending : BOOLEAN]]
    <3>1. CASE Invite(p)
      <4>1. PICK to \in Assignable :
              invite' = [invite EXCEPT ![p] = [serial |-> @.serial + 1, role |-> to, pending |-> TRUE]]
        BY <3>1 DEF Invite
      <4>2. [serial |-> invite[p].serial + 1, role |-> to, pending |-> TRUE]
              \in [serial : Nat, role : Assignable, pending : BOOLEAN]
        BY <1>1
      <4>3. QED
        BY <1>1, <4>1, <4>2
    <3>2. CASE WithdrawInvitation(p)
      BY <1>1, <3>2 DEF WithdrawInvitation
    <3>3. QED
      BY <1>10, <3>1, <3>2
  <2>4. QED
    BY <1>1, <2>1, <2>2, <2>3 DEF TypeOK, Purposes
<1>11. CASE Expire
  <2>1. UNCHANGED <<role, tenure, invite, acting, worker, overridden, joined, blind, requests, sent, faults>>
    BY <1>11 DEF Expire, people, ghosts
  <2>2. offer' \in [to : Person, tenure : Nat, live : BOOLEAN] \union {NoOffer}
    BY <1>1, <1>11 DEF Expire
  <2>3. QED
    BY <1>1, <2>1, <2>2 DEF TypeOK, Purposes
<1>12. CASE UNCHANGED vars
  BY <1>1, <1>12 DEF vars, people, ghosts, TypeOK, Purposes
<1>13. QED
  BY <1>3, <1>4, <1>5, <1>6, <1>7, <1>8, <1>9, <1>10, <1>11, <1>12 DEF Next, Land

LEMMA InitTypes == Init => TypeOK /\ Purposes
<1>1. SUFFICES ASSUME Init PROVE TypeOK /\ Purposes
  OBVIOUS
<1>2. offer = NoOffer /\ acting = {} /\ overridden = 0 /\ blind = FALSE /\ requests = 0 /\ sent = 0 /\ faults = 0
  BY <1>1 DEF Init
<1>3. /\ role \in [Person -> Role \union {Out}]
      /\ tenure \in [Person -> Nat] /\ joined \in [Person -> Nat]
      /\ invite \in [Person -> [serial : Nat, role : Assignable, pending : BOOLEAN]]
      /\ worker \in [Worker -> Request \union {NoRequest}]
  BY <1>1, MembersConstants DEF Init
<1>4. Purposes
  BY <1>1 DEF Init, Purposes
<1>5. /\ offer \in [to : Person, tenure : Nat, live : BOOLEAN] \union {NoOffer}
      /\ acting \subseteq Person /\ blind \in BOOLEAN
  BY <1>2
<1>6. overridden \in Nat /\ {requests, sent, faults} \subseteq Nat
  BY <1>2
<1>7. QED
  BY <1>3, <1>4, <1>5, <1>6 DEF TypeOK

\* Every variable keeps its shape, and every request what it is for.
THEOREM MembersTypes == Spec => []TypeOK
<1>1. TypeOK /\ Purposes /\ [Next]_vars => (TypeOK /\ Purposes)'
  BY TypesStep
<1>2. QED
  BY <1>1, InitTypes, PTL DEF Spec

LEMMA TypesHold == Spec => [](TypeOK /\ Purposes)
<1>1. TypeOK /\ Purposes /\ [Next]_vars => (TypeOK /\ Purposes)'
  BY TypesStep
<1>2. QED
  BY <1>1, InitTypes, PTL DEF Spec

-----------------------------------------------------------------------------
\* What a step may do to the roster, whichever request takes it.

RoleSet(p, to) == role[p] # Out /\ to \in Assignable /\ role' = [role EXCEPT ![p] = to]

\* A role changes on a decision that still holds, or is recorded as landing on another.
Changed ==
  \E p \in Person, to \in Assignable :
    /\ RoleSet(p, to) /\ overridden' = overridden
    /\ role[p] \in Administering /\ to \notin Administering => StillAdministered(p) \/ blind'

Ended ==
  \E p \in Person :
    /\ role[p] \in Assignable /\ (role[p] \in Administering => StillAdministered(p))
    /\ role' = [role EXCEPT ![p] = Out] /\ overridden' = overridden

Joined ==
  \E p \in Person, to \in Assignable :
    /\ role[p] = Out /\ role' = [role EXCEPT ![p] = to]
    /\ IF RoomFor THEN overridden' = overridden ELSE overridden' = overridden + 1

Transferred ==
  /\ overridden' = overridden
  /\ \A p \in Person : role'[p] = role[p] \/ (role[p] # Out /\ role'[p] \in {Owner, Demoted})

Forced ==
  /\ overridden' = overridden
  /\ \E q \in Person :
       /\ role[q] # Out /\ role'[q] = Owner
       /\ \A p \in Person \ {q} : role'[p] = role[p] \/ (role[p] = Owner /\ role'[p] \in {Demoted, Out})

RosterMoves ==
  /\ blind => blind'
  /\ \/ role' = role /\ overridden' = overridden
     \/ Changed \/ Ended \/ Joined \/ Transferred \/ Forced

LEMMA RosterStep ==
  ASSUME TypeOK, Purposes, [Next]_vars
  PROVE  RosterMoves
<1>1. role \in [Person -> Role \union {Out}] /\ overridden \in Nat /\ blind \in BOOLEAN
  BY DEF TypeOK
<1>2. ASSUME NEW w \in Worker, worker[w] # NoRequest
      PROVE  /\ worker[w].who \in Person /\ Purpose(worker[w])
             /\ worker[w] \in Request
  BY <1>2 DEF TypeOK, Request, Purposes
<1>3. CASE UNCHANGED <<role, overridden, blind>>
  BY <1>3 DEF RosterMoves
<1>4. ASSUME NEW w \in Worker, LandRoleChange(w)
      PROVE  RosterMoves
  <2> DEFINE r == worker[w]
  <2>1. /\ r # NoRequest /\ r.op = "change"
        /\ IF RoleChangeLands(r)
           THEN role' = [role EXCEPT ![r.who] = r.to] /\ blind' = (blind \/ role[r.who] # r.was)
           ELSE UNCHANGED <<role, blind>>
        /\ overridden' = overridden
    BY <1>4 DEF LandRoleChange, Writing
  <2>2. r.who \in Person /\ r.to \in Assignable
    BY <1>2, <2>1 DEF Purpose
  <2>3. CASE RoleChangeLands(r)
    <3>1. blind' = (blind \/ role[r.who] # r.was) /\ role' = [role EXCEPT ![r.who] = r.to]
      BY <2>1, <2>3
    <3>2. blind => blind'
      BY <3>1
    <3>3. role[r.who] \in Administering /\ r.to \notin Administering => StillAdministered(r.who) \/ blind'
      BY <2>3, <3>1 DEF RoleChangeLands
    <3>4. RoleSet(r.who, r.to)
      BY <2>2, <2>3, <3>1 DEF RoleSet, RoleChangeLands, Present
    <3>5. QED
      BY <2>1, <2>2, <3>2, <3>3, <3>4 DEF RosterMoves, Changed
  <2>4. CASE ~RoleChangeLands(r)
    BY <1>3, <2>1, <2>4
  <2>5. QED
    BY <2>3, <2>4
<1>5. ASSUME NEW w \in Worker, LandOperatorChange(w)
      PROVE  RosterMoves
  <2> DEFINE r == worker[w]
  <2>1. /\ r # NoRequest /\ r.op = "operate" /\ UNCHANGED <<overridden, blind>>
        /\ \/ role' = role
           \/ RoleChangeLands(r) /\ role[r.who] = r.was /\ role' = [role EXCEPT ![r.who] = r.to]
    BY <1>5 DEF LandOperatorChange, Writing, ghosts
  <2>2. r.who \in Person /\ r.to \in Assignable
    BY <1>2, <2>1 DEF Purpose
  <2>3. QED
    BY <2>1, <2>2 DEF RosterMoves, Changed, RoleSet, RoleChangeLands, Present
<1>6. ASSUME NEW w \in Worker, LandEnd(w)
      PROVE  RosterMoves
  <2> DEFINE r == worker[w]
  <2>1. /\ r # NoRequest /\ r.op = "end" /\ UNCHANGED <<overridden, blind>>
        /\ role' = role \/ (Ends(r) /\ role' = [role EXCEPT ![r.who] = Out])
    BY <1>6 DEF LandEnd, Writing, ghosts
  <2>2. r.who \in Person /\ r.was \in Assignable
    BY <1>2, <2>1 DEF Purpose
  <2>3. QED
    BY <2>1, <2>2 DEF RosterMoves, Ended, Ends
<1>7. ASSUME NEW w \in Worker, LandAdd(w)
      PROVE  RosterMoves
  <2> DEFINE r == worker[w]
  <2>1. /\ r # NoRequest /\ r.op = "add" /\ blind' = blind
        /\ \/ UNCHANGED <<role, overridden>>
           \/ /\ Seats(r) /\ role[r.who] = Out /\ role' = [role EXCEPT ![r.who] = r.to]
              /\ overridden' = overridden + IF r.flag /\ ~RoomFor THEN 1 ELSE 0
    BY <1>7 DEF LandAdd, Writing, people, Join
  <2>2. r.who \in Person /\ r.to \in Assignable
    BY <1>2, <2>1 DEF Purpose
  <2>3. CASE UNCHANGED <<role, overridden>>
    BY <1>3, <2>1, <2>3
  <2>4. CASE /\ Seats(r) /\ role[r.who] = Out /\ role' = [role EXCEPT ![r.who] = r.to]
             /\ overridden' = overridden + IF r.flag /\ ~RoomFor THEN 1 ELSE 0
    <3>1. CASE RoomFor
      <4>1. overridden' = overridden + 0
        BY <2>4, <3>1
      <4>2. overridden' = overridden
        BY <1>1, <4>1
      <4>3. QED
        BY <2>1, <2>2, <2>4, <3>1, <4>2 DEF RosterMoves, Joined
    <3>2. CASE ~RoomFor
      <4>1. overridden' = overridden + 1
        BY <2>4, <3>2 DEF Seats
      <4>2. QED
        BY <2>1, <2>2, <2>4, <3>2, <4>1 DEF RosterMoves, Joined
    <3>3. QED
      BY <3>1, <3>2
  <2>5. QED
    BY <2>1, <2>3, <2>4
<1>8. ASSUME NEW w \in Worker, LandRedeem(w)
      PROVE  RosterMoves
  <2> DEFINE r == worker[w]
  <2>1. /\ r # NoRequest /\ r.op = "redeem" /\ UNCHANGED <<overridden, blind>>
        /\ role' = role \/ (RoomFor /\ role[r.who] = Out /\ role' = [role EXCEPT ![r.who] = r.to])
    BY <1>8 DEF LandRedeem, Writing, people, Join
  <2>2. r.who \in Person /\ r.to \in Assignable
    BY <1>2, <2>1 DEF Purpose
  <2>3. QED
    BY <2>1, <2>2 DEF RosterMoves, Joined
<1>9. ASSUME NEW w \in Worker, LandAccept(w)
      PROVE  RosterMoves
  <2>1. /\ UNCHANGED <<overridden, blind>>
        /\ role' = [p \in Person |-> IF p = worker[w].who /\ Present(p, worker[w].tenure) THEN Owner
                                     ELSE IF worker[w].flag /\ role[p] = Owner THEN Demoted ELSE role[p]]
    BY <1>9 DEF LandAccept, ghosts
  <2>2. Owner # Out
    BY MembersConstants
  <2>3. Transferred
    BY <2>1, <2>2 DEF Transferred, Present
  <2>4. QED
    BY <2>1, <2>3 DEF RosterMoves
<1>10. ASSUME NEW w \in Worker, LandForce(w)
       PROVE  RosterMoves
  <2>1. /\ worker[w] # NoRequest /\ UNCHANGED <<overridden, blind>>
        /\ \/ role' = role
           \/ /\ role[worker[w].who] # Out
              /\ role' = [p \in Person |-> IF p = worker[w].who THEN Owner
                                           ELSE IF role[p] # Owner THEN role[p]
                                           ELSE IF worker[w].flag THEN Demoted ELSE Out]
    BY <1>10 DEF LandForce, Writing, ghosts, Present
  <2>2. worker[w].who \in Person
    BY <1>2, <2>1
  <2>3. QED
    BY <2>1, <2>2 DEF RosterMoves, Forced
<1>11. CASE \E w \in Worker : Ask(w)
  BY <1>3, <1>11, AskIs
<1>12. CASE \E w \in Worker : LandNominate(w) \/ LandWithdraw(w) \/ LandChoose(w) \/ ReadHolders(w)
  BY <1>3, <1>12 DEF LandNominate, LandWithdraw, LandChoose, ReadHolders, people, ghosts
<1>13. CASE Expire \/ \E p \in Person : Invite(p) \/ WithdrawInvitation(p)
  BY <1>3, <1>13 DEF Expire, Invite, WithdrawInvitation, people, ghosts
<1>14. CASE UNCHANGED vars
  BY <1>3, <1>14 DEF vars, people, ghosts
<1>15. QED
  BY <1>4, <1>5, <1>6, <1>7, <1>8, <1>9, <1>10, <1>11, <1>12, <1>13, <1>14 DEF Next, Land

-----------------------------------------------------------------------------
\* stillAdministered: where the role a transfer leaves its holders administers, no overlap
\* of requests leaves the account to nobody.
THEOREM SomebodyAdministers ==
  ASSUME Demoted \in Administering
  PROVE  Spec => []Administered
<1>1. Init => Administered
  BY DEF Init, Administered
<1>2. ASSUME TypeOK, Purposes, Administered, [Next]_vars
      PROVE  Administered'
  <2>1. /\ role \in [Person -> Role \union {Out}] /\ Owner \in Administering /\ Demoted \in Administering
        /\ Out \notin Administering
    BY <1>2, MembersConstants DEF TypeOK
  <2>2. RosterMoves
    BY <1>2, RosterStep
  <2>3. CASE blind
    BY <2>2, <2>3 DEF RosterMoves, Administered
  <2>4. SUFFICES ASSUME ~blind, ~blind', Administrators # {}
                 PROVE  \E q \in Person : role'[q] \in Administering
    BY <1>2, <2>3 DEF Administered, Administrators
  <2>5. PICK q \in Person : role[q] \in Administering
    BY <2>4 DEF Administrators
  <2>6. CASE role' = role
    BY <2>5, <2>6
  <2>7. CASE Changed
    BY <2>1, <2>4, <2>5, <2>7 DEF Changed, RoleSet, StillAdministered, Administrators
  <2>8. CASE Ended
    BY <2>1, <2>5, <2>8 DEF Ended, StillAdministered, Administrators
  <2>9. CASE Joined
    BY <2>1, <2>5, <2>9 DEF Joined
  <2>10. CASE Transferred
    BY <2>1, <2>5, <2>10 DEF Transferred
  <2>11. CASE Forced
    BY <2>1, <2>11 DEF Forced
  <2>12. QED
    BY <2>2, <2>6, <2>7, <2>8, <2>9, <2>10, <2>11 DEF RosterMoves
<1>3. TypeOK /\ Purposes /\ Administered /\ [Next]_vars => Administered'
  BY <1>2
<1>4. QED
  BY <1>1, <1>3, TypesHold, PTL DEF Spec

\* staleRole: an owner's membership ends only as somebody else comes to own the account.
THEOREM OwnersOutlast == Spec => OwnerNotEnded
<1>1. ASSUME TypeOK, Purposes, [Next]_vars, NEW p \in Person, role[p] = Owner, role'[p] = Out
      PROVE  \E q \in Person : role'[q] = Owner
  <2>1. /\ role \in [Person -> Role \union {Out}] /\ Owner # Out /\ Demoted # Out
        /\ Owner \notin Assignable /\ Out \notin Assignable
    BY <1>1, MembersConstants DEF TypeOK, Assignable
  <2>2. RosterMoves
    BY <1>1, RosterStep
  <2>3. CASE role' = role
    BY <1>1, <2>1, <2>3
  <2>4. CASE Changed
    BY <1>1, <2>1, <2>4 DEF Changed, RoleSet
  <2>5. CASE Ended
    BY <1>1, <2>1, <2>5 DEF Ended
  <2>6. CASE Joined
    BY <1>1, <2>1, <2>6 DEF Joined
  <2>7. CASE Transferred
    BY <1>1, <2>1, <2>7 DEF Transferred
  <2>8. CASE Forced
    BY <2>8 DEF Forced
  <2>9. QED
    BY <2>2, <2>3, <2>4, <2>5, <2>6, <2>7, <2>8 DEF RosterMoves
<1>2. TypeOK /\ Purposes /\ [Next]_vars =>
        [\A p \in Person : role[p] = Owner /\ role'[p] = Out => \E q \in Person : role'[q] = Owner]_vars
  BY <1>1
<1>3. QED
  BY <1>2, TypesHold, PTL DEF Spec, OwnerNotEnded

\* One person more is one seat more.
LEMMA OneSeat ==
  ASSUME NEW S \in SUBSET Person, NEW T \in SUBSET Person, NEW p \in Person, T \subseteq S \union {p}
  PROVE  /\ Cardinality(S) \in Nat /\ Cardinality(T) \in Nat
         /\ Cardinality(T) <= Cardinality(S) + 1
         /\ T \subseteq S => Cardinality(T) <= Cardinality(S)
<1>1. IsFiniteSet(S) /\ IsFiniteSet(T)
  BY MembersConstants, FS_Subset
<1>2. IsFiniteSet(S \union {p}) /\ Cardinality(S \union {p}) \in {Cardinality(S), Cardinality(S) + 1}
  BY <1>1, FS_AddElement
<1>3. Cardinality(S) \in Nat /\ Cardinality(T) \in Nat
  BY <1>1, FS_CardinalityType
<1>4. Cardinality(T) <= Cardinality(S \union {p})
  BY <1>2, FS_Subset
<1>5. T \subseteq S => Cardinality(T) <= Cardinality(S)
  BY <1>1, FS_Subset
<1>6. QED
  BY <1>2, <1>3, <1>4, <1>5

\* addMember and acceptInvitation: the limit is passed by an operator's adds and nothing else.
THEOREM SeatsAreHeld == Spec => []SeatsHeld
<1>1. Init => SeatsHeld
  <2>1. SUFFICES ASSUME Init PROVE SeatsHeld
    OBVIOUS
  <2>2. Cardinality(Members) <= SeatLimit /\ overridden = 0 /\ SeatLimit \in Nat
    BY <2>1, MembersConstants DEF Init
  <2>3. Members \in SUBSET Person
    BY DEF Members
  <2>4. Cardinality(Members) \in Nat
    BY <2>3, MembersConstants, FS_Subset, FS_CardinalityType
  <2>5. QED
    BY <2>2, <2>4 DEF SeatsHeld
<1>2. ASSUME TypeOK, Purposes, SeatsHeld, [Next]_vars
      PROVE  SeatsHeld'
  <2>1. /\ role \in [Person -> Role \union {Out}] /\ Owner # Out /\ Demoted # Out
        /\ Out \notin Assignable /\ overridden \in Nat /\ SeatLimit \in Nat
    BY <1>2, MembersConstants DEF TypeOK, Assignable
  <2>2. Members \in SUBSET Person /\ Members' \in SUBSET Person
    BY DEF Members
  <2>3. ASSUME overridden' = overridden, \A p \in Person : role'[p] # Out => role[p] # Out
        PROVE  SeatsHeld'
    <3>1. Members' \subseteq Members
      BY <2>3 DEF Members
    <3>2. CASE Members' = {}
      BY <1>2, <2>1, <2>3, <3>2, FS_EmptySet DEF SeatsHeld
    <3>3. CASE Members' # {}
      <4>1. PICK p \in Person : p \in Members'
        BY <2>2, <3>3
      <4>2. QED
        BY <1>2, <2>1, <2>2, <2>3, <3>1, OneSeat DEF SeatsHeld
    <3>4. QED
      BY <3>2, <3>3
  <2>4. CASE Joined
    <3>1. PICK p \in Person :
            /\ \E to \in Assignable : role' = [role EXCEPT ![p] = to]
            /\ IF RoomFor THEN overridden' = overridden ELSE overridden' = overridden + 1
      BY <2>4 DEF Joined
    <3>2. Members' \subseteq Members \union {p}
      BY <2>1, <3>1 DEF Members
    <3>3. /\ Cardinality(Members) \in Nat /\ Cardinality(Members') \in Nat
          /\ Cardinality(Members') <= Cardinality(Members) + 1
      BY <2>2, <3>2, OneSeat
    <3>4. QED
      BY <1>2, <2>1, <3>1, <3>3 DEF SeatsHeld, RoomFor
  <2>5. RosterMoves
    BY <1>2, RosterStep
  <2>6. CASE role' = role /\ overridden' = overridden
    BY <2>3, <2>6
  <2>7. CASE Changed
    BY <2>1, <2>3, <2>7 DEF Changed, RoleSet
  <2>8. CASE Ended
    BY <2>1, <2>3, <2>8 DEF Ended
  <2>9. CASE Transferred
    BY <2>3, <2>9 DEF Transferred
  <2>10. CASE Forced
    BY <2>1, <2>3, <2>10 DEF Forced
  <2>11. QED
    BY <2>4, <2>5, <2>6, <2>7, <2>8, <2>9, <2>10 DEF RosterMoves
<1>3. TypeOK /\ Purposes /\ SeatsHeld /\ [Next]_vars => SeatsHeld'
  BY <1>2
<1>4. QED
  BY <1>1, <1>3, TypesHold, PTL DEF Spec

-----------------------------------------------------------------------------
\* acceptInvitation: what is spent was pending, and what is pending was sent once.
LEMMA LinksStep ==
  ASSUME TypeOK, Purposes, LinksSpent, [Next]_vars
  PROVE  LinksSpent'
<1>1. /\ invite \in [Person -> [serial : Nat, role : Assignable, pending : BOOLEAN]]
      /\ joined \in [Person -> Nat]
  BY DEF TypeOK
<1>2. CASE UNCHANGED <<invite, joined>>
  BY <1>2 DEF LinksSpent
<1>3. ASSUME NEW w \in Worker, LandRedeem(w)
      PROVE  LinksSpent'
  <2> DEFINE r == worker[w]
  <2>1. r # NoRequest /\ r.who \in Person
    BY <1>3 DEF LandRedeem, Writing, TypeOK, Request
  <2>2. \/ UNCHANGED <<invite, joined>>
        \/ /\ invite[r.who].pending /\ invite' = [invite EXCEPT ![r.who].pending = FALSE]
           /\ joined' = joined \/ joined' = [joined EXCEPT ![r.who] = @ + 1]
    BY <1>3 DEF LandRedeem, Redeemable
  <2>3. CASE /\ invite[r.who].pending /\ invite' = [invite EXCEPT ![r.who].pending = FALSE]
             /\ joined' = joined \/ joined' = [joined EXCEPT ![r.who] = @ + 1]
    <3>1. ASSUME NEW p \in Person, p # r.who
          PROVE  invite'[p] = invite[p] /\ joined'[p] = joined[p]
      BY <1>1, <2>3, <3>1
    <3>2. ~invite'[r.who].pending /\ invite'[r.who].serial = invite[r.who].serial
      BY <1>1, <2>1, <2>3
    <3>3. joined'[r.who] <= joined[r.who] + 1 /\ joined'[r.who] \in Nat
      BY <1>1, <2>1, <2>3
    <3>4. joined[r.who] + 1 <= invite[r.who].serial
      BY <2>1, <2>3 DEF LinksSpent
    <3>5. joined'[r.who] + 0 <= invite'[r.who].serial
      BY <1>1, <2>1, <3>2, <3>3, <3>4
    <3>6. QED
      BY <3>1, <3>2, <3>5 DEF LinksSpent
  <2>4. QED
    BY <1>2, <2>2, <2>3
<1>4. ASSUME NEW p \in Person, Invite(p)
      PROVE  LinksSpent'
  <2>1. joined' = joined
    BY <1>4 DEF Invite, ghosts
  <2>2. PICK to \in Assignable :
          invite' = [invite EXCEPT ![p] = [serial |-> @.serial + 1, role |-> to, pending |-> TRUE]]
    BY <1>4 DEF Invite
  <2>3. ASSUME NEW q \in Person, q # p
        PROVE  invite'[q] = invite[q]
    BY <1>1, <2>2, <2>3
  <2>4. invite'[p].serial = invite[p].serial + 1 /\ invite'[p].pending
    BY <1>1, <2>2
  <2>5. joined[p] <= invite[p].serial
    BY <1>1 DEF LinksSpent
  <2>6. joined'[p] + 1 <= invite'[p].serial
    BY <1>1, <2>1, <2>4, <2>5
  <2>7. QED
    BY <2>1, <2>3, <2>4, <2>6 DEF LinksSpent
<1>5. ASSUME NEW p \in Person, WithdrawInvitation(p)
      PROVE  LinksSpent'
  <2>1. joined' = joined /\ invite' = [invite EXCEPT ![p].pending = FALSE]
    BY <1>5 DEF WithdrawInvitation, ghosts
  <2>2. ASSUME NEW q \in Person, q # p
        PROVE  invite'[q] = invite[q]
    BY <1>1, <2>1, <2>2
  <2>3. invite'[p].serial = invite[p].serial /\ ~invite'[p].pending
    BY <1>1, <2>1
  <2>4. joined[p] + 0 <= invite[p].serial
    BY <1>1 DEF LinksSpent
  <2>5. QED
    BY <2>1, <2>2, <2>3, <2>4 DEF LinksSpent
<1>6. CASE \E w \in Worker : Ask(w)
  BY <1>2, <1>6, AskIs
<1>7. ASSUME NEW w \in Worker, Land(w), ~LandRedeem(w)
      PROVE  LinksSpent'
  BY <1>2, <1>7 DEF Land, LandRoleChange, LandOperatorChange, LandEnd, LandAdd, LandNominate,
       LandWithdraw, ReadHolders, LandAccept, LandForce, LandChoose, ghosts
<1>8. CASE Expire \/ UNCHANGED vars
  BY <1>2, <1>8 DEF Expire, vars, ghosts
<1>9. QED
  BY <1>3, <1>4, <1>5, <1>6, <1>7, <1>8 DEF Next

\* invite.ts: a link makes one membership, however often and by however many it is redeemed.
THEOREM LinksJoinOnce == Spec => []OneJoinEach
<1>1. Init => LinksSpent
  BY DEF Init, LinksSpent
<1>2. TypeOK /\ Purposes /\ LinksSpent /\ [Next]_vars => LinksSpent'
  BY LinksStep
<1>3. TypeOK /\ LinksSpent => OneJoinEach
  BY DEF TypeOK, LinksSpent, OneJoinEach
<1>4. QED
  BY <1>1, <1>2, <1>3, TypesHold, PTL DEF Spec

-----------------------------------------------------------------------------
(***************************************************************************)
(* VOIDING RESULTS, for any sets of requests, results and keys, any list   *)
(* of consumers and any lease.                                             *)
(*                                                                         *)
(* What excludes a second run is never read by the request that starts     *)
(* it: a request starts a run on what an earlier read of it said. The      *)
(* inductive invariant therefore says what an old read still entitles its  *)
(* request to: while the row is still under the key that was read, nobody  *)
(* runs on it (FreeIsFree) and its statuses are those that were read       *)
(* (ReadStands). Both rest on a key being spent once, so that a row never  *)
(* returns to a key, and on no request outliving its lease (InTime).       *)
(***************************************************************************)

Active(q) == call[q] # NoCall

Pending(q) == call[q].stage \in {"leased", "free"} /\ row[call[q].result].key = call[q].from

\* A key is spent on a result that is void, and a void row holds a key spent on it.
KeysSpent ==
  /\ \A k \in Key : IsSpent(k) => Voided(spent[k].on)
  /\ \A r \in Result : Voided(r) => spent[row[r].key].on = r
  /\ \A r \in Result : ~Voided(r) => \A c \in Consumer : row[r].status[c] = "unset"
  /\ \A k \in Key : acts[k] = IF IsSpent(k) THEN 1 ELSE 0

HonestReply == reply.answer = "replay" => Voided(reply.result)

InTime == \A q \in VoidRequest : Active(q) => call[q].now <= clock /\ clock < call[q].now + Lease

\* A request that runs consumers does so under the key the row is void by, and its copy of
\* the statuses is the row's.
RunIsRecorded ==
  \A q \in VoidRequest : call[q].stage = "running" =>
    /\ row[call[q].result].key = call[q].key
    /\ spent[call[q].key] = [on |-> call[q].result, at |-> call[q].now]
    /\ row[call[q].result].status = call[q].status

ReadWasVoid ==
  \A q \in VoidRequest : call[q].stage \in {"leased", "free"} =>
    /\ call[q].from \in Key /\ IsSpent(call[q].from) /\ Voided(call[q].result)
    /\ ~Finished(call[q].status)

FreeIsFree ==
  \A q \in VoidRequest : Pending(q) /\ call[q].stage = "free" =>
    \A p \in VoidRequest : ~Running(p, call[q].result)

\* Nobody else can have been running when the request began: any lease was over.
ReadStands ==
  \A q \in VoidRequest :
    Pending(q) /\ (call[q].stage = "free" \/ call[q].now >= HeldUntil(call[q].from)) =>
      row[call[q].result].status = call[q].status

\* Every run has something left to run.
RunWaits == \A q \in VoidRequest : call[q].stage = "running" => Waits(call[q].status)

VoidInv ==
  /\ VoidTypeOK
  /\ KeysSpent
  /\ HonestReply
  /\ InTime
  /\ RunIsRecorded
  /\ RunWaits
  /\ ReadWasVoid
  /\ FreeIsFree
  /\ ReadStands
  /\ NeverTwiceAtOnce

\* The initial states satisfy the invariant.
LEMMA VoidInitInv == VoidInit => VoidInv
<1>1. SUFFICES ASSUME VoidInit PROVE VoidInv
  OBVIOUS
<1>2. \A q \in VoidRequest : call[q] = NoCall /\ call[q].stage = "idle"
  BY <1>1 DEF VoidInit, NoCall
<1>3. VoidTypeOK
  BY <1>1, LeaseAssumption DEF VoidInit, VoidTypeOK, Counting, Status, Consumer
<1>4. KeysSpent
  BY <1>1 DEF VoidInit, KeysSpent, IsSpent, Voided, Counting
<1>5. HonestReply
  BY <1>1 DEF VoidInit, HonestReply, NoReply
<1>6. QED
  BY <1>2, <1>3, <1>4, <1>5
  DEF VoidInv, InTime, Active, RunIsRecorded, RunWaits, ReadWasVoid, FreeIsFree, ReadStands, Pending, NeverTwiceAtOnce, Running

-----------------------------------------------------------------------------
(* Steps that write no table *)

\* The locals a request may hold while it runs nothing.
Entitled(w) ==
  /\ w \in Calls
  /\ w.stage # "running"
  /\ w.now <= clock /\ clock < w.now + Lease
  /\ w.stage \in {"leased", "free"} => w.from \in Key /\ IsSpent(w.from) /\ Voided(w.result) /\ ~Finished(w.status)
  /\ w.stage = "free" /\ row[w.result].key = w.from => \A p \in VoidRequest : ~Running(p, w.result)
  /\ /\ w.stage \in {"leased", "free"} /\ row[w.result].key = w.from
     /\ w.stage = "free" \/ w.now >= HeldUntil(w.from)
     => row[w.result].status = w.status

\* A request that writes nothing and keeps entitled locals, or ends, keeps the invariant.
LEMMA QuietStep ==
  ASSUME VoidInv, NEW q \in VoidRequest, NEW w,
         w = NoCall \/ Entitled(w),
         UNCHANGED <<row, spent, clock, acts>>,
         call' = [call EXCEPT ![q] = w],
         HonestReply'
  PROVE  VoidInv'
<1>1. /\ call \in [VoidRequest -> Calls \cup {NoCall}]
      /\ call'[q] = w
      /\ \A p \in VoidRequest : p # q => call'[p] = call[p]
      /\ call' \in [VoidRequest -> Calls \cup {NoCall}]
  BY DEF VoidInv, VoidTypeOK, Entitled
<1>2. \A k : Voided(k)' = Voided(k) /\ IsSpent(k)' = IsSpent(k) /\ HeldUntil(k)' = HeldUntil(k)
  BY DEF Voided, IsSpent, HeldUntil
<1>3. NoCall.stage = "idle"
  BY DEF NoCall
<1>4. \A p \in VoidRequest : \A r : Running(p, r)' => Running(p, r)
  BY <1>1, <1>3 DEF Running, Entitled
<1>5. VoidTypeOK'
  BY <1>1 DEF VoidInv, VoidTypeOK
<1>6. KeysSpent'
  BY <1>2 DEF VoidInv, KeysSpent
<1>7. InTime'
  BY <1>1, <1>3 DEF VoidInv, InTime, Active, Entitled
<1>8. RunIsRecorded' /\ RunWaits'
  BY <1>1, <1>3 DEF VoidInv, RunIsRecorded, RunWaits, Entitled, Waits
<1>9. ReadWasVoid'
  BY <1>1, <1>2, <1>3 DEF VoidInv, ReadWasVoid, Entitled, Finished
<1>10. FreeIsFree'
  BY <1>1, <1>3, <1>4 DEF VoidInv, FreeIsFree, Entitled, Pending
<1>11. ReadStands'
  BY <1>1, <1>2, <1>3 DEF VoidInv, ReadStands, Entitled, Pending
<1>12. NeverTwiceAtOnce'
  BY <1>4 DEF VoidInv, NeverTwiceAtOnce
<1>13. QED
  BY <1>5, <1>6, <1>7, <1>8, <1>9, <1>10, <1>11, <1>12 DEF VoidInv

LEMMA BeginKeepsInv ==
  ASSUME VoidInv, NEW q \in VoidRequest, NEW k \in Key, NEW r \in Result, Begin(q, k, r)
  PROVE  VoidInv'
<1>1. UNCHANGED <<row, spent, clock, acts>> /\ call[q] = NoCall
  BY DEF Begin
<1>2. CASE IsSpent(k)
  <2>1. call' = [call EXCEPT ![q] = NoCall]
    BY <1>1, <1>2 DEF Begin, VoidInv, VoidTypeOK
  <2>2. Matching(k, r) = "replay" => spent[k].on = r
    BY DEF Matching
  <2>3. HonestReply'
    BY <1>1, <1>2, <2>2 DEF Begin, HonestReply, VoidInv, KeysSpent, Voided
  <2>4. QED
    BY <1>1, <2>1, <2>3, QuietStep
<1>3. CASE ~IsSpent(k)
  <2> DEFINE w == [stage |-> "unspent", key |-> k, result |-> r, now |-> clock, from |-> NoKey, status |-> row[r].status]
  <2>1. call' = [call EXCEPT ![q] = w] /\ HonestReply'
    BY <1>3 DEF Begin, GoOn, HonestReply, NoReply
  <2>2. Entitled(w)
    BY LeaseAssumption DEF VoidInv, VoidTypeOK, Entitled, Calls
  <2>3. QED
    BY <1>1, <2>1, <2>2, QuietStep
<1>4. QED
  BY <1>2, <1>3

LEMMA ReadResultKeepsInv ==
  ASSUME VoidInv, NEW q \in VoidRequest, ReadResult(q)
  PROVE  VoidInv'
<1> DEFINE w == call[q]
           status == row[w.result].status
           read(stage) == [w EXCEPT !.stage = stage, !.from = row[w.result].key, !.status = status]
<1>1. UNCHANGED <<row, spent, clock, acts>> /\ w.stage = "unspent"
  BY DEF ReadResult
<1>2. w \in Calls /\ w.now <= clock /\ clock < w.now + Lease
  BY <1>1 DEF VoidInv, VoidTypeOK, InTime, Active, NoCall
<1>3. ASSUME NEW stage \in {"counts", "leased", "free"}
      PROVE  /\ read(stage) \in Calls
             /\ read(stage).stage = stage
             /\ read(stage).from = row[w.result].key
             /\ read(stage).status = status
             /\ read(stage).result = w.result
             /\ read(stage).now = w.now
  BY <1>2 DEF VoidInv, VoidTypeOK, Calls
<1>4. Voided(w.result) => row[w.result].key \in Key /\ IsSpent(row[w.result].key)
  BY <1>2, NamesAssumption DEF VoidInv, VoidTypeOK, KeysSpent, Voided, IsSpent, Unspent, Calls
<1>5. ASSUME NEW p \in VoidRequest, Running(p, w.result)
      PROVE  Waits(status)
  <2>1. status = call[p].status
    BY <1>5 DEF VoidInv, RunIsRecorded, Running
  <2>2. Waits(call[p].status)
    BY <1>5 DEF VoidInv, RunWaits, Running
  <2>3. QED
    BY <2>1, <2>2
<1>6. CASE ~Voided(w.result) /\ GoOn(q, read("counts"))
  <2>1. Entitled(read("counts"))
    BY <1>2, <1>3 DEF Entitled
  <2>2. QED
    BY <1>1, <1>6, <2>1, QuietStep DEF GoOn, HonestReply, NoReply
<1>7. CASE Voided(w.result) /\ End(q, "replay")
  BY <1>1, <1>7, QuietStep DEF End, HonestReply, Voided
<1>8. CASE Voided(w.result) /\ ~Finished(status) /\ Waits(status) /\ GoOn(q, read("leased"))
  <2>1. Entitled(read("leased"))
    BY <1>2, <1>3, <1>4, <1>8 DEF Entitled
  <2>2. QED
    BY <1>1, <1>8, <2>1, QuietStep DEF GoOn, HonestReply, NoReply
<1>9. CASE Voided(w.result) /\ ~Finished(status) /\ ~Waits(status) /\ GoOn(q, read("free"))
  <2>1. Entitled(read("free"))
    BY <1>2, <1>3, <1>4, <1>5, <1>9 DEF Entitled
  <2>2. QED
    BY <1>1, <1>9, <2>1, QuietStep DEF GoOn, HonestReply, NoReply
<1>10. QED
  BY <1>6, <1>7, <1>8, <1>9 DEF ReadResult

LEMMA CheckLeaseKeepsInv ==
  ASSUME VoidInv, NEW q \in VoidRequest, CheckLease(q)
  PROVE  VoidInv'
<1> DEFINE w == call[q]
           free == [w EXCEPT !.stage = "free"]
<1>1. UNCHANGED <<row, spent, clock, acts>> /\ w.stage = "leased"
  BY DEF CheckLease
<1>2. w \in Calls /\ w.now <= clock /\ clock < w.now + Lease
  BY <1>1 DEF VoidInv, VoidTypeOK, InTime, Active, NoCall
<1>3. CASE w.now < HeldUntil(w.from)
  BY <1>1, <1>3, QuietStep DEF CheckLease, End, HonestReply
<1>4. CASE w.now >= HeldUntil(w.from)
  <2>1. /\ free \in Calls /\ free.stage = "free" /\ free.from = w.from /\ free.status = w.status
        /\ free.result = w.result /\ free.now = w.now
    BY <1>2 DEF Calls
  <2>2. w.from \in Key /\ IsSpent(w.from) /\ Voided(w.result) /\ ~Finished(w.status)
    BY <1>1 DEF VoidInv, ReadWasVoid
  <2>3. ASSUME row[w.result].key = w.from, NEW p \in VoidRequest, Running(p, w.result)
        PROVE  FALSE
    <3>1. spent[w.from].at = call[p].now
      <4>1. call[p].stage = "running" /\ call[p].result = w.result
        BY <2>3 DEF Running
      <4>2. /\ call[p].key = w.from
            /\ spent[call[p].key] = [on |-> call[p].result, at |-> call[p].now]
        BY <2>3, <4>1 DEF VoidInv, RunIsRecorded
      <4>3. QED
        BY <4>2
    <3>2. call[p] \in Calls /\ clock < call[p].now + Lease
      BY <2>3 DEF VoidInv, VoidTypeOK, InTime, Active, NoCall, Running
    <3>3. QED
      BY <1>2, <1>4, <3>1, <3>2, LeaseAssumption DEF VoidInv, VoidTypeOK, Calls, HeldUntil
  <2>4. row[w.result].key = w.from => row[w.result].status = w.status
    BY <1>1, <1>4 DEF VoidInv, ReadStands, Pending
  <2>5. Entitled(free)
    BY <1>2, <2>1, <2>2, <2>3, <2>4 DEF Entitled
  <2>6. spent[w.from].at \in Nat /\ w.now \in Nat
    BY <1>2, <2>2 DEF VoidInv, VoidTypeOK, Calls, Unspent
  <2>7. ~(w.now < HeldUntil(w.from))
    BY <1>4, <2>6, LeaseAssumption DEF HeldUntil
  <2>8. QED
    BY <1>1, <2>5, <2>7, QuietStep DEF CheckLease, GoOn, HonestReply, NoReply
<1>5. QED
  <2>1. w.from \in Key
    BY <1>1 DEF VoidInv, ReadWasVoid
  <2>2. HeldUntil(w.from) \in Nat /\ w.now \in Nat
    BY <1>2, <2>1, LeaseAssumption DEF HeldUntil, VoidInv, VoidTypeOK, Calls, Unspent
  <2>3. QED
    BY <1>3, <1>4, <2>2

LEMMA CrashKeepsInv ==
  ASSUME VoidInv, NEW q \in VoidRequest, Crash(q)
  PROVE  VoidInv'
  BY QuietStep DEF Crash, GoOn, HonestReply, NoReply

-----------------------------------------------------------------------------
(* Steps that write the tables *)

\* Taking a result over: the statuses written are the row's where something was recorded as done.
LEMMA TakeKeepsInv ==
  ASSUME VoidInv, NEW q \in VoidRequest, NEW status \in [Consumer -> Status],
         NEW k \in Key, NEW r \in Result, k = call[q].key, r = call[q].result,
         call[q] \in Calls,
         ~IsSpent(k),
         \A p \in VoidRequest : ~Running(p, r),
         Take(q, status), Waits(status)
  PROVE  VoidInv'
<1> DEFINE w == call[q]
           next == [w EXCEPT !.stage = "running", !.status = status]
<1>1. /\ k = w.key /\ r = w.result /\ w.now \in Nat
      /\ row \in [Result -> [key : Key \cup {NoKey}, status : [Consumer -> Status]]]
      /\ spent \in [Key -> [on : Result, at : Nat] \cup {Unspent}]
      /\ call \in [VoidRequest -> Calls \cup {NoCall}]
      /\ acts \in [Key -> Nat]
      /\ clock \in Nat
  BY DEF VoidInv, VoidTypeOK, Calls
<1>2. /\ next \in Calls /\ next.stage = "running" /\ next.key = k /\ next.result = r
      /\ next.now = w.now /\ next.status = status
  BY DEF Calls
<1>3. /\ call' = [call EXCEPT ![q] = next]
      /\ call'[q] = next
      /\ \A p \in VoidRequest : p # q => call'[p] = call[p]
  BY <1>1 DEF Take, GoOn
<1>4. /\ row'[r].key = k /\ row'[r].status = status
      /\ \A s \in Result : s # r => row'[s] = row[s]
      /\ row' \in [Result -> [key : Key \cup {NoKey}, status : [Consumer -> Status]]]
  BY <1>1 DEF Take
<1>5. /\ spent'[k] = [on |-> r, at |-> w.now]
      /\ spent'[k].on = r
      /\ \A j \in Key : j # k => spent'[j] = spent[j]
      /\ spent' \in [Key -> [on : Result, at : Nat] \cup {Unspent}]
  BY <1>1 DEF Take
<1>6. /\ acts'[k] = acts[k] + 1
      /\ \A j \in Key : j # k => acts'[j] = acts[j]
      /\ acts' \in [Key -> Nat]
      /\ clock' = clock /\ reply' = NoReply
  BY <1>1 DEF Take, GoOn
<1>7. IsSpent(k)' /\ \A j \in Key : IsSpent(j) => IsSpent(j)' /\ j # k
  <2>1. spent'[k] # Unspent
    BY <1>1, <1>5, NamesAssumption DEF Unspent
  <2>2. QED
    BY <1>5, <2>1 DEF IsSpent
<1>8. \A s \in Result : Voided(s) => Voided(s)' /\ row[s].key \in Key /\ IsSpent(row[s].key)
  BY <1>1, <1>4, NamesAssumption DEF VoidInv, KeysSpent, Voided, IsSpent, Unspent
<1>9. Voided(r)' /\ row[r].key # k
  BY <1>1, <1>4, <1>8, NamesAssumption DEF Voided
<1>10. VoidTypeOK'
  BY <1>1, <1>2, <1>3, <1>4, <1>5, <1>6 DEF VoidTypeOK
<1>11. KeysSpent'
  <2>1. \A j \in Key : IsSpent(j)' => Voided(spent[j].on)'
    <3>1. SUFFICES ASSUME NEW j \in Key, IsSpent(j)' PROVE row'[spent'[j].on].key # NoKey
      BY DEF Voided
    <3>2. CASE j = k
      BY <1>5, <1>9, <3>2 DEF Voided
    <3>3. CASE j # k
      <4>1. spent'[j] = spent[j] /\ IsSpent(j)
        BY <1>5, <3>1, <3>3 DEF IsSpent
      <4>2. Voided(spent[j].on) /\ spent[j].on \in Result
        BY <1>1, <4>1 DEF VoidInv, KeysSpent, IsSpent
      <4>3. QED
        BY <1>8, <4>1, <4>2 DEF Voided
    <3>4. QED
      BY <3>2, <3>3
  <2>2. \A s \in Result : Voided(s)' => spent'[row'[s].key].on = s
    BY <1>4, <1>5, <1>7, <1>8 DEF VoidInv, KeysSpent, Voided
  <2>3. \A s \in Result : ~Voided(s)' => \A c \in Consumer : row'[s].status[c] = "unset"
    BY <1>4, <1>9 DEF VoidInv, KeysSpent, Voided
  <2>4. \A j \in Key : acts'[j] = IF IsSpent(j)' THEN 1 ELSE 0
    <3>1. acts[k] = 0
      BY <1>1 DEF VoidInv, KeysSpent
    <3>2. \A j \in Key : j # k => (IsSpent(j)' <=> IsSpent(j))
      BY <1>5 DEF IsSpent
    <3>3. QED
      BY <1>6, <1>7, <3>1, <3>2 DEF VoidInv, KeysSpent
  <2>5. QED
    BY <2>1, <2>2, <2>3, <2>4 DEF KeysSpent
<1>12. HonestReply'
  BY <1>6 DEF HonestReply, NoReply
<1>13. InTime'
  BY <1>2, <1>3, <1>6 DEF VoidInv, InTime, Active, Calls, NoCall
<1>14. RunIsRecorded' /\ RunWaits'
  <2>1. ASSUME NEW p \in VoidRequest, call'[p].stage = "running", p # q
        PROVE  /\ row'[call'[p].result].key = call'[p].key
               /\ spent'[call'[p].key] = [on |-> call'[p].result, at |-> call'[p].now]
               /\ row'[call'[p].result].status = call'[p].status
               /\ Waits(call'[p].status)
    <3>1. call'[p] = call[p] /\ call[p].stage = "running" /\ call[p].result # r
      BY <1>3, <2>1 DEF Running
    <3>2. call[p].result \in Result /\ call[p].key \in Key
      BY <1>1, <3>1 DEF Calls, NoCall
    <3>3. row'[call[p].result] = row[call[p].result]
      BY <1>4, <3>1, <3>2
    <3>4. row[call[p].result].key = call[p].key /\ call[p].key # k
      <4>1. row[call[p].result].key = call[p].key /\ spent[call[p].key] = [on |-> call[p].result, at |-> call[p].now]
        BY <3>1 DEF VoidInv, RunIsRecorded
      <4>2. spent[call[p].key] # Unspent
        BY <3>2, <4>1, NamesAssumption DEF Unspent
      <4>3. QED
        BY <4>1, <4>2 DEF IsSpent
    <3>5. QED
      BY <1>5, <3>1, <3>2, <3>3, <3>4 DEF VoidInv, RunIsRecorded, RunWaits
  <2>2. /\ row'[call'[q].result].key = call'[q].key
        /\ spent'[call'[q].key] = [on |-> call'[q].result, at |-> call'[q].now]
        /\ row'[call'[q].result].status = call'[q].status
        /\ Waits(call'[q].status)
    <3>1. call'[q].result = r /\ call'[q].key = k /\ call'[q].now = w.now /\ call'[q].status = status
      BY <1>1, <1>2, <1>3
    <3>2. QED
      BY <1>4, <1>5, <3>1
  <2>3. RunIsRecorded'
    BY <2>1, <2>2 DEF RunIsRecorded
  <2>4. \A p \in VoidRequest : call'[p].stage = "running" => Waits(call'[p].status)
    BY <2>1, <2>2
  <2>5. QED
    BY <2>3, <2>4 DEF RunWaits, Waits
<1>15. ReadWasVoid'
  BY <1>1, <1>2, <1>3, <1>7, <1>8 DEF VoidInv, ReadWasVoid, Calls, NoCall, Finished
<1>16. ASSUME NEW p \in VoidRequest, Pending(p)'
       PROVE  p # q /\ call'[p] = call[p] /\ Pending(p) /\ call[p].result # r /\ call[p].result \in Result
  <2>1. p # q /\ call'[p] = call[p]
    BY <1>2, <1>3, <1>16 DEF Pending
  <2>2. call[p].from \in Key /\ IsSpent(call[p].from) /\ call[p].result \in Result
    BY <1>1, <1>16, <2>1 DEF VoidInv, ReadWasVoid, Pending, Calls, NoCall
  <2>3. call[p].from # k
    BY <2>2
  <2>4. QED
    BY <1>4, <1>16, <2>1, <2>2, <2>3 DEF Pending
<1>17. FreeIsFree'
  BY <1>2, <1>3, <1>16 DEF VoidInv, FreeIsFree, Running
<1>18. ReadStands'
  <2>1. SUFFICES ASSUME NEW p \in VoidRequest, Pending(p)',
                        call'[p].stage = "free" \/ call'[p].now >= HeldUntil(call[p].from)'
                 PROVE  row'[call'[p].result].status = call'[p].status
    BY DEF ReadStands
  <2>2. p # q /\ call'[p] = call[p] /\ Pending(p) /\ call[p].result # r /\ call[p].result \in Result
    BY <1>16, <2>1
  <2>3. call[p].from \in Key /\ call[p].from # k
    BY <2>2 DEF VoidInv, ReadWasVoid, Pending
  <2>4. \A f \in Key : f # k => HeldUntil(f)' = HeldUntil(f)
    BY <1>5 DEF HeldUntil
  <2>5. row[call[p].result].status = call[p].status
    BY <2>1, <2>2, <2>3, <2>4 DEF VoidInv, ReadStands, HeldUntil
  <2>6. QED
    BY <1>4, <2>2, <2>5
<1>19. NeverTwiceAtOnce'
  BY <1>2, <1>3 DEF VoidInv, NeverTwiceAtOnce, Running
<1>20. QED
  BY <1>10, <1>11, <1>12, <1>13, <1>14, <1>15, <1>17, <1>18, <1>19 DEF VoidInv

\* A batch that spends nothing answers as replayed only what is void.
LEMMA SpendKeepsInv ==
  ASSUME VoidInv, NEW q \in VoidRequest, NEW status \in [Consumer -> Status], NEW condition \in BOOLEAN,
         call[q] \in Calls,
         Spend(q, condition, status),
         Waits(status),
         condition => \A p \in VoidRequest : ~Running(p, call[q].result),
         ~condition => Voided(call[q].result)
  PROVE  VoidInv'
<1>1. call[q].key \in Key /\ call[q].result \in Result
  BY DEF Calls
<1>2. CASE condition /\ ~IsSpent(call[q].key) /\ Take(q, status)
  BY <1>1, <1>2, TakeKeepsInv
<1>3. CASE /\ IsSpent(call[q].key) /\ End(q, Matching(call[q].key, call[q].result))
           /\ UNCHANGED <<row, spent, clock, acts>>
  <2>1. Matching(call[q].key, call[q].result) = "replay" => Voided(call[q].result)
    BY <1>1, <1>3 DEF Matching, VoidInv, KeysSpent
  <2>2. HonestReply'
    BY <1>3, <2>1 DEF End, HonestReply, Voided
  <2>3. QED
    BY <1>3, <2>2, QuietStep DEF End
<1>4. CASE ~condition /\ End(q, "replay") /\ UNCHANGED <<row, spent, clock, acts>>
  <2>1. HonestReply'
    BY <1>4 DEF End, HonestReply, Voided
  <2>2. QED
    BY <1>4, <2>1, QuietStep DEF End
<1>5. QED
  BY <1>2, <1>3, <1>4 DEF Spend

LEMMA MarkVoidedKeepsInv ==
  ASSUME VoidInv, NEW q \in VoidRequest, MarkVoided(q)
  PROVE  VoidInv'
<1> DEFINE pending == [c \in Consumer |-> "pending"]
<1>1. call[q].stage = "counts" /\ Spend(q, ~Voided(call[q].result), pending)
  BY DEF MarkVoided
<1>2. call[q] \in Calls
  BY <1>1 DEF VoidInv, VoidTypeOK, NoCall
<1>3. pending \in [Consumer -> Status] /\ Waits(pending)
  <2>1. 1 \in DOMAIN Consumers
    BY ConsumersAssumption
  <2>2. Consumers[1] \in Consumer
    BY <2>1 DEF Consumer, ToSet
  <2>3. QED
    BY <2>2 DEF Waits, Status
<1>4. ~Voided(call[q].result) => \A p \in VoidRequest : ~Running(p, call[q].result)
  <2>1. SUFFICES ASSUME NEW p \in VoidRequest, Running(p, call[q].result) PROVE Voided(call[q].result)
    OBVIOUS
  <2>2. row[call[q].result].key = call[p].key
    BY <2>1 DEF VoidInv, RunIsRecorded, Running
  <2>3. call[p].key \in Key
    BY <2>1 DEF VoidInv, VoidTypeOK, Running, Calls, NoCall
  <2>4. QED
    BY <2>2, <2>3, NamesAssumption DEF Voided
<1>5. QED
  BY <1>1, <1>2, <1>3, <1>4, SpendKeepsInv

\* A claim takes what is not done, and something is not done.
LEMMA ClaimRetryKeepsInv ==
  ASSUME VoidInv, NEW q \in VoidRequest, ClaimRetry(q)
  PROVE  VoidInv'
<1> DEFINE w == call[q]
           claimed == [c \in Consumer |-> IF w.status[c] = "done" THEN "done" ELSE "pending"]
<1>1. w.stage = "free" /\ Spend(q, Claimable(w), claimed)
  BY DEF ClaimRetry
<1>2. w \in Calls /\ Voided(w.result)
  BY <1>1 DEF VoidInv, VoidTypeOK, NoCall, ReadWasVoid
<1>3. claimed \in [Consumer -> Status]
  BY DEF Status
<1>4. Waits(claimed)
  BY <1>1 DEF Waits, VoidInv, ReadWasVoid, Finished
<1>5. Claimable(w) => \A p \in VoidRequest : ~Running(p, w.result)
  BY <1>1 DEF Claimable, VoidInv, FreeIsFree, Pending
<1>6. QED
  BY <1>1, <1>2, <1>3, <1>4, <1>5, SpendKeepsInv DEF Claimable

\* Recording is done under the key the row is void by, on a copy that is the row's.
LEMMA RecordConsumerKeepsInv ==
  ASSUME VoidInv, NEW q \in VoidRequest, NEW outcome \in {"done", "failed"}, RecordConsumer(q, outcome)
  PROVE  VoidInv'
<1> DEFINE w == call[q]
<1>1. PICK i \in DOMAIN Consumers :
        /\ w.status[Consumers[i]] = "pending"
        /\ row' = [row EXCEPT ![w.result].status = Recorded(w.status, Consumers[i], outcome)]
        /\ IF Waits(Recorded(w.status, Consumers[i], outcome))
             THEN GoOn(q, [w EXCEPT !.status = Recorded(w.status, Consumers[i], outcome)])
             ELSE End(q, "acted")
  BY DEF RecordConsumer
<1>2. PICK status : status = Recorded(w.status, Consumers[i], outcome)
  OBVIOUS
<1>3. w.stage = "running" /\ UNCHANGED <<spent, clock, acts>>
  BY DEF RecordConsumer
<1>4. PICK r \in Result, k \in Key : r = w.result /\ k = w.key /\ w \in Calls
  BY <1>3 DEF VoidInv, VoidTypeOK, NoCall, Calls
<1>5. status \in [Consumer -> Status]
  BY <1>2, <1>4 DEF Recorded, Calls, Status
<1>6. /\ row'[r].key = row[r].key /\ row'[r].status = status
      /\ \A s \in Result : s # r => row'[s] = row[s]
      /\ \A s \in Result : row'[s].key = row[s].key
      /\ row' \in [Result -> [key : Key \cup {NoKey}, status : [Consumer -> Status]]]
  BY <1>1, <1>2, <1>4, <1>5 DEF VoidInv, VoidTypeOK
<1>7. PICK v : /\ call' = [call EXCEPT ![q] = v]
               /\ \/ v = NoCall
                  \/ v = [w EXCEPT !.status = status] /\ Waits(status)
               /\ reply'.answer # "replay"
  BY <1>1, <1>2 DEF GoOn, End, NoReply
<1>8. /\ call'[q] = v
      /\ \A p \in VoidRequest : p # q => call'[p] = call[p]
      /\ call' \in [VoidRequest -> Calls \cup {NoCall}]
      /\ v.stage \in {"running", "idle"}
      /\ v.stage = "running" => /\ v.key = k /\ v.result = r /\ v.now = w.now /\ v.status = status
                                /\ Waits(status)
  <2>1. call \in [VoidRequest -> Calls \cup {NoCall}]
    BY DEF VoidInv, VoidTypeOK
  <2>2. CASE v = NoCall
    BY <1>7, <2>1, <2>2 DEF NoCall
  <2>3. CASE v = [w EXCEPT !.status = status] /\ Waits(status)
    <3>1. /\ v \in Calls /\ v.stage = "running" /\ v.key = k /\ v.result = r /\ v.now = w.now
          /\ v.status = status
      BY <1>3, <1>4, <1>5, <2>3 DEF Calls
    <3>2. QED
      BY <1>7, <2>1, <2>3, <3>1
  <2>4. QED
    BY <1>7, <2>2, <2>3
<1>9. /\ \A s \in Result : Voided(s)' = Voided(s)
      /\ \A j \in Key : IsSpent(j)' = IsSpent(j) /\ HeldUntil(j)' = HeldUntil(j)
  BY <1>3, <1>6 DEF Voided, IsSpent, HeldUntil
<1>10. row[r].key = k /\ spent[k] = [on |-> r, at |-> w.now] /\ Voided(r)
  BY <1>3, <1>4, NamesAssumption DEF VoidInv, RunIsRecorded, Voided
<1>11. \A p \in VoidRequest : p # q => ~Running(p, r)
  BY <1>3, <1>4 DEF VoidInv, NeverTwiceAtOnce, Running
<1>12. VoidTypeOK'
  BY <1>3, <1>6, <1>8 DEF VoidInv, VoidTypeOK
<1>13. KeysSpent'
  <2>1. \A j \in Key : IsSpent(j) => spent[j].on \in Result
    BY DEF VoidInv, VoidTypeOK, IsSpent
  <2>2. \A j \in Key : IsSpent(j) => row'[spent[j].on].key # NoKey
    BY <1>6, <2>1 DEF VoidInv, KeysSpent, Voided
  <2>3. \A s \in Result : ~Voided(s) => \A c \in Consumer : row'[s].status[c] = "unset"
    BY <1>6, <1>10 DEF VoidInv, KeysSpent
  <2>4. QED
    BY <1>3, <1>6, <1>9, <2>2, <2>3 DEF VoidInv, KeysSpent, Voided
<1>14. HonestReply'
  BY <1>7 DEF HonestReply
<1>15. InTime'
  BY <1>3, <1>4, <1>7, <1>8 DEF VoidInv, InTime, Active, Calls, NoCall
<1>16. RunIsRecorded'
  <2>1. ASSUME NEW p \in VoidRequest, call'[p].stage = "running", p # q
        PROVE  /\ row'[call'[p].result].key = call'[p].key
               /\ spent'[call'[p].key] = [on |-> call'[p].result, at |-> call'[p].now]
               /\ row'[call'[p].result].status = call'[p].status
    <3>1. call'[p] = call[p] /\ call[p].stage = "running" /\ call[p].result # r /\ call[p].result \in Result
      BY <1>8, <1>11, <2>1 DEF Running, VoidInv, VoidTypeOK, Calls, NoCall
    <3>2. row'[call[p].result] = row[call[p].result]
      BY <1>6, <3>1
    <3>3. QED
      BY <1>3, <3>1, <3>2 DEF VoidInv, RunIsRecorded
  <2>2. v.stage = "running" => /\ row'[v.result].key = v.key
                               /\ spent'[v.key] = [on |-> v.result, at |-> v.now]
                               /\ row'[v.result].status = v.status
    BY <1>3, <1>6, <1>8, <1>10
  <2>3. QED
    BY <1>8, <2>1, <2>2 DEF RunIsRecorded
<1>17. RunWaits'
  BY <1>8 DEF VoidInv, RunWaits, Waits
<1>18. ASSUME NEW p \in VoidRequest, call'[p].stage \in {"leased", "free"}
       PROVE  p # q /\ call'[p] = call[p] /\ call[p].result \in Result
  BY <1>8, <1>18 DEF VoidInv, VoidTypeOK, Calls, NoCall
<1>19. ReadWasVoid'
  BY <1>9, <1>18 DEF VoidInv, ReadWasVoid, Finished
<1>20. ASSUME NEW p \in VoidRequest, Pending(p)'
       PROVE  Pending(p) /\ p # q /\ call'[p] = call[p]
  BY <1>6, <1>18, <1>20 DEF Pending
<1>21. FreeIsFree'
  BY <1>3, <1>4, <1>8, <1>20 DEF VoidInv, FreeIsFree, Running
<1>22. ReadStands'
  <2>1. SUFFICES ASSUME NEW p \in VoidRequest, Pending(p)',
                        call'[p].stage = "free" \/ call'[p].now >= HeldUntil(call[p].from)'
                 PROVE  row'[call'[p].result].status = call'[p].status
    BY DEF ReadStands
  <2>2. Pending(p) /\ call'[p] = call[p] /\ call[p].result \in Result /\ call[p].from \in Key
    BY <1>18, <1>20, <2>1 DEF Pending, VoidInv, ReadWasVoid
  <2>3. call[p].stage = "free" \/ call[p].now >= HeldUntil(call[p].from)
    BY <1>3, <2>1, <2>2 DEF HeldUntil
  <2>4. row[call[p].result].status = call[p].status
    BY <2>2, <2>3 DEF VoidInv, ReadStands
  <2>5. call[p].result # r
    <3>1. SUFFICES ASSUME call[p].result = r PROVE FALSE
      OBVIOUS
    <3>2. call[p].from = k /\ call[p].stage # "free"
      BY <1>3, <1>4, <1>10, <2>2, <3>1 DEF Pending, VoidInv, FreeIsFree, Running
    <3>3. call[p].now >= w.now + Lease
      BY <1>10, <2>3, <3>2 DEF HeldUntil
    <3>4. call[p] \in Calls /\ call[p].now <= clock /\ clock < w.now + Lease
      BY <1>3, <2>2 DEF VoidInv, VoidTypeOK, InTime, Active, NoCall, Pending
    <3>5. QED
      BY <1>4, <3>3, <3>4, LeaseAssumption DEF VoidInv, VoidTypeOK, Calls
  <2>6. QED
    BY <1>6, <2>2, <2>4, <2>5
<1>23. NeverTwiceAtOnce'
  <2>1. \A p \in VoidRequest, s \in Result : Running(p, s)' => Running(p, s)
    BY <1>3, <1>4, <1>8 DEF Running
  <2>2. QED
    BY <2>1 DEF VoidInv, NeverTwiceAtOnce
<1>24. QED
  BY <1>12, <1>13, <1>14, <1>15, <1>16, <1>17, <1>19, <1>21, <1>22, <1>23 DEF VoidInv

LEMMA TickKeepsInv ==
  ASSUME VoidInv, Tick
  PROVE  VoidInv'
<1>1. UNCHANGED <<row, spent, call, acts>> /\ clock' = clock + 1 /\ reply' = NoReply
  BY DEF Tick
<1>2. VoidTypeOK' /\ HonestReply'
  BY <1>1 DEF VoidInv, VoidTypeOK, HonestReply, NoReply
<1>3. InTime'
  <2>1. SUFFICES ASSUME NEW q \in VoidRequest, Active(q)
                 PROVE  call[q].now <= clock + 1 /\ clock + 1 < call[q].now + Lease
    BY <1>1 DEF InTime, Active
  <2>2. call[q].now \in Nat /\ call[q].now <= clock /\ clock \in Nat
    BY <2>1 DEF VoidInv, InTime, VoidTypeOK, Active, Calls
  <2>3. clock + 1 < call[q].now + Lease
    BY <2>1 DEF Tick, Active
  <2>4. QED
    BY <2>2, <2>3
<1>4. KeysSpent' /\ RunIsRecorded' /\ RunWaits' /\ ReadWasVoid' /\ FreeIsFree' /\ ReadStands' /\ NeverTwiceAtOnce'
  BY <1>1 DEF VoidInv, KeysSpent, RunIsRecorded, RunWaits, ReadWasVoid, FreeIsFree, ReadStands, NeverTwiceAtOnce,
              Pending, Running, Voided, IsSpent, HeldUntil, Waits, Finished
<1>5. QED
  BY <1>2, <1>3, <1>4 DEF VoidInv

LEMMA VoidStepKeepsInv == VoidInv /\ [VoidNext]_voidVars => VoidInv'
<1>1. SUFFICES ASSUME VoidInv, [VoidNext]_voidVars PROVE VoidInv'
  OBVIOUS
<1>2. CASE UNCHANGED voidVars
  BY <1>1, <1>2 DEF voidVars, VoidInv, VoidTypeOK, KeysSpent, HonestReply, InTime, Active, RunIsRecorded, RunWaits,
                    ReadWasVoid, FreeIsFree, ReadStands, NeverTwiceAtOnce, Pending, Running, Voided, IsSpent,
                    HeldUntil, Waits, Finished
<1>3. CASE VoidNext
  BY <1>1, <1>3, BeginKeepsInv, ReadResultKeepsInv, CheckLeaseKeepsInv, MarkVoidedKeepsInv, ClaimRetryKeepsInv,
     CrashKeepsInv, RecordConsumerKeepsInv, TickKeepsInv DEF VoidNext
<1>4. QED
  BY <1>1, <1>2, <1>3

THEOREM VoidInvHolds == VoidSpec => []VoidInv
  BY VoidInitInv, VoidStepKeepsInv, PTL DEF VoidSpec

-----------------------------------------------------------------------------
(* Theorems *)

\* The key table, the void columns of the rows and the locals of every request keep their types.
THEOREM VoidTypes == VoidSpec => []VoidTypeOK
<1>1. VoidInv => VoidTypeOK
  BY DEF VoidInv
<1>2. QED
  BY <1>1, VoidInvHolds, PTL

(***************************************************************************)
(* No two requests ever run one consumer for one result at once, however   *)
(* many requests, keys and results there are, with crashes anywhere,       *)
(* provided no request outlives a lease (the guard of Tick).               *)
(***************************************************************************)
THEOREM NoDoubleRun == VoidSpec => []NeverTwiceAtOnce
<1>1. VoidInv => NeverTwiceAtOnce
  BY DEF VoidInv
<1>2. QED
  BY <1>1, VoidInvHolds, PTL

\* A key acts at most once, on the result it was spent on, and only a void result is answered
\* as replayed.
THEOREM KeyActsOnce == VoidSpec => []OneActPerKey
<1>1. VoidInv => OneActPerKey
  BY DEF VoidInv, KeysSpent, HonestReply, OneActPerKey
<1>2. QED
  BY <1>1, VoidInvHolds, PTL

\* What a consumer was recorded as having done stays recorded, whichever retry writes the list.
THEOREM DoneIsKept == VoidSpec => DoneStays
<1> DEFINE Kept == \A r \in Result, c \in Consumer : row[r].status[c] = "done" => row'[r].status[c] = "done"
<1>1. ASSUME VoidInv, [VoidNext]_voidVars
      PROVE  [Kept]_voidVars
  <2>1. ASSUME NEW q \in VoidRequest, NEW status, Take(q, status), call[q] \in Calls,
               \A c \in Consumer : row[call[q].result].status[c] = "done" => status[c] = "done"
        PROVE  Kept
    BY <1>1, <2>1 DEF Take, VoidInv, VoidTypeOK, Calls
  <2>2. ASSUME NEW q \in VoidRequest, MarkVoided(q)
        PROVE  Kept
    <3>1. call[q] \in Calls
      BY <1>1, <2>2 DEF MarkVoided, VoidInv, VoidTypeOK, NoCall
    <3>2. CASE UNCHANGED row
      BY <3>2
    <3>3. CASE ~Voided(call[q].result) /\ Take(q, [c \in Consumer |-> "pending"])
      <4>1. \A c \in Consumer : row[call[q].result].status[c] = "unset"
        BY <1>1, <3>1, <3>3 DEF VoidInv, KeysSpent, Calls
      <4>2. QED
        BY <2>1, <3>1, <3>3, <4>1
    <3>4. QED
      BY <2>2, <3>2, <3>3 DEF MarkVoided, Spend
  <2>3. ASSUME NEW q \in VoidRequest, ClaimRetry(q)
        PROVE  Kept
    <3> DEFINE claimed == [c \in Consumer |-> IF call[q].status[c] = "done" THEN "done" ELSE "pending"]
    <3>1. call[q] \in Calls /\ call[q].stage = "free"
      BY <1>1, <2>3 DEF ClaimRetry, VoidInv, VoidTypeOK, NoCall
    <3>2. CASE UNCHANGED row
      BY <3>2
    <3>3. CASE Claimable(call[q]) /\ Take(q, claimed)
      <4>1. row[call[q].result].status = call[q].status
        BY <1>1, <3>1, <3>3 DEF VoidInv, ReadStands, Pending, Claimable
      <4>2. QED
        BY <2>1, <3>1, <3>3, <4>1
    <3>4. QED
      BY <2>3, <3>2, <3>3 DEF ClaimRetry, Spend
  <2>4. ASSUME NEW q \in VoidRequest, NEW outcome \in {"done", "failed"}, RecordConsumer(q, outcome)
        PROVE  Kept
    <3>1. call[q] \in Calls /\ row[call[q].result].status = call[q].status
      <4>1. call[q].stage = "running"
        BY <2>4 DEF RecordConsumer
      <4>2. call[q] \in Calls
        BY <1>1, <4>1 DEF VoidInv, VoidTypeOK, NoCall
      <4>3. QED
        BY <1>1, <4>1, <4>2 DEF VoidInv, RunIsRecorded
    <3>2. PICK c \in Consumer :
            /\ call[q].status[c] = "pending"
            /\ row' = [row EXCEPT ![call[q].result].status = Recorded(call[q].status, c, outcome)]
      BY <2>4 DEF RecordConsumer, Consumer, ToSet
    <3>3. call[q].result \in Result /\ call[q].status \in [Consumer -> Status]
      BY <3>1 DEF Calls
    <3>4. \A d \in Consumer : call[q].status[d] = "done" => Recorded(call[q].status, c, outcome)[d] = "done"
      BY <3>2, <3>3 DEF Recorded
    <3>5. QED
      BY <1>1, <3>1, <3>2, <3>3, <3>4 DEF VoidInv, VoidTypeOK
  <2>5. UNCHANGED row => Kept
    OBVIOUS
  <2>6. QED
    BY <1>1, <2>2, <2>3, <2>4, <2>5
    DEF VoidNext, voidVars, Begin, ReadResult, CheckLease, Crash, Tick
<1>2. QED
  BY <1>1, VoidInvHolds, PTL DEF VoidSpec, DoneStays

=============================================================================
