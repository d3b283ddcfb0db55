------------------------- MODULE MembersProperties -------------------------
(***************************************************************************)
(* What requests that overlap may do to an organization's roster and to    *)
(* its ownership.                                                          *)
(***************************************************************************)
EXTENDS Members

Request ==
  [op : {"change", "operate", "end", "add", "redeem", "nominate", "withdraw", "accept",
         "transfer", "force", "choose"},
   who : Person, tenure : Nat, was : Role \union {Out}, to : Role \union {Out}, flag : BOOLEAN]

\* Every variable keeps its shape.
TypeOK ==
  /\ role \in [Person -> Role \union {Out}]
  /\ tenure \in [Person -> Nat]
  /\ offer \in [to : Person, tenure : Nat, live : BOOLEAN] \union {NoOffer}
  /\ invite \in [Person -> [serial : Nat, role : Assignable, pending : BOOLEAN]]
  /\ acting \subseteq Person
  /\ worker \in [Worker -> Request \union {NoRequest}]
  /\ overridden \in Nat /\ joined \in [Person -> Nat] /\ blind \in BOOLEAN
  /\ {requests, sent, faults} \subseteq Nat

\* stillAdministered: however demotions, removals, leavings and transfers overlap, and
\* whichever of them run twice, somebody can administer the account, unless a member's
\* role change has landed on a role it had not read.
Administered == Administrators # {} \/ blind

\* addMember and acceptInvitation: the account holds no more members than its limit but
\* by the adds an operator said may pass it.
SeatsHeld == Cardinality(Members) <= SeatLimit + overridden

\* invite.ts, "of N concurrent redemptions of one link, exactly one inserts a
\* membership": a link makes one membership, also for somebody removed since who still
\* has it in flight.
OneJoinEach == \A p \in Person : joined[p] <= invite[p].serial

\* staleRole: "a write that landed anyway would apply a member's rules to an owner": an
\* owner's membership ends only as somebody else owns the account.
OwnerNotEnded ==
  [][\A p \in Person : role[p] = Owner /\ role'[p] = Out =>
       \E q \in Person : role'[q] = Owner]_vars

-----------------------------------------------------------------------------
\* What the code's comments say and the code does not do

\* acceptNomination, "of N interleavings exactly one may win, and the one that loses must
\* change nothing": whoever comes to own the account was made an offer that stands, or
\* an operator put them there.
TransferIsOffered ==
  [][\A p \in Person : role[p] # Owner /\ role'[p] = Owner =>
       \/ OffersTo(p, tenure[p])
       \/ \E w \in Worker : Writing(w, "force") /\ worker[w].who = p]_vars

\* ownership.ts, no instant "with two owners or none": a held account stays held.
StaysOwned == [][Owners # {} => Owners' # {}]_vars

\* ownership.ts: never two owners.
OneOwner == Cardinality(Owners) <= 1

\* members.ts, stillAdministered: the floor is in every write.
AlwaysAdministered == Administrators # {}

\* deleteMembership, "a selection cleared for somebody who is still a member": a session
\* stops acting for the organization only as its person leaves it.
SelectionKept ==
  [][\A p \in acting \ acting' : role'[p] = Out]_vars
============================================================================
