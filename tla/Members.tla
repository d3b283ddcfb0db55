------------------------------- MODULE Members -------------------------------
(***************************************************************************)
(* Who is in one organization and who owns it: organization/src/members,   *)
(* ownership and invite.  A request reads, awaits, and then writes by the  *)
(* conditions its statement carries, so every handler is a read (Ask...)   *)
(* and a write (Land...), and the roster may change between the two.  A    *)
(* membership's id is its person and tenure: a person added again holds    *)
(* another membership.  The catalog is one role that only a transfer       *)
(* confers (Owner), and whoever administers holds organization:manage.     *)
(***************************************************************************)
EXTENDS Integers, FiniteSets

CONSTANTS
  Person, Worker,
  Role, Administering, Owner, Demoted, Out,
  SeatLimit,
  NoOffer, NoRequest,
  MaxRequests,    \* bound: requests that read
  MaxInvites,     \* bound: invitations sent
  MaxFaults       \* bound: batches whose answer is lost

Assignable == Role \ {Owner}
\* ownership.ts, requireTransferableRoles: the conferred role administers.
ASSUME MembersConstants ==
  /\ IsFiniteSet(Person)
  /\ Administering \subseteq Role /\ Owner \in Administering
  /\ Demoted \in Assignable /\ Out \notin Role
  /\ {SeatLimit, MaxRequests, MaxInvites, MaxFaults} \subseteq Nat

VARIABLES
  role,        \* what each person's membership holds, or Out
  tenure,      \* which membership of theirs it is
  offer,       \* the standing offer of ownership
  invite,      \* each person's latest invitation
  acting,      \* the people with a session acting for this organization
  worker,      \* the requests between their read and their write
  overridden,  \* adds past the seat limit an operator asked for
  joined,      \* memberships each person's invitations have made
  blind,       \* whether a role change has landed on a role it had not read
  requests, sent, faults

people == <<role, tenure>>
ghosts == <<overridden, joined, blind>>
vars == <<people, offer, invite, acting, worker, ghosts, requests, sent, faults>>

Members == {p \in Person : role[p] # Out}
Owners == {p \in Person : role[p] = Owner}
Administrators == {p \in Person : role[p] \in Administering}
Present(p, n) == role[p] # Out /\ tenure[p] = n

StillAdministered_ByAnybody(p) == Administrators # {}
StillAdministered(p) == Administrators \ {p} # {}

RoomFor == Cardinality(Members) < SeatLimit
OffersTo(p, n) == offer # NoOffer /\ offer.to = p /\ offer.tenure = n

\* provision.ts: an account is founded with an administrator and no owner; the requests
\* here come upon any account that transfers and invitations have made since.
Init ==
  /\ role \in [Person -> Role \union {Out}]
  /\ Administrators # {} /\ Cardinality(Owners) <= 1 /\ Cardinality(Members) <= SeatLimit
  /\ tenure = [p \in Person |-> 1]
  /\ offer = NoOffer
  /\ invite = [p \in Person |-> [serial |-> 0, role |-> Demoted, pending |-> FALSE]]
  /\ acting = {} /\ worker = [w \in Worker |-> NoRequest]
  /\ overridden = 0 /\ joined = [p \in Person |-> 0] /\ blind = FALSE
  /\ requests = 0 /\ sent = 0 /\ faults = 0

\* A request that has read goes on with what it read: the membership it names, the role
\* that membership held, and what it was asked for.
Read(w, op, p, to, flag) ==
  /\ worker[w] = NoRequest /\ requests < MaxRequests
  /\ requests' = requests + 1
  /\ worker' = [worker EXCEPT ![w] = [op |-> op, who |-> p, tenure |-> tenure[p],
                                      was |-> role[p], to |-> to, flag |-> flag]]
  /\ UNCHANGED <<people, offer, invite, acting, ghosts, sent, faults>>

Writing(w, op) == worker[w] # NoRequest /\ worker[w].op = op
Answered(w) ==
  /\ worker' = [worker EXCEPT ![w] = NoRequest]
  /\ UNCHANGED <<requests, sent, faults>>
\* withD1Retry: a batch whose answer is lost is run again, whether or not it committed.
AnsweredOrRetried(w) ==
  \/ Answered(w)
  \/ /\ faults < MaxFaults /\ faults' = faults + 1
     /\ UNCHANGED <<worker, requests, sent>>

-----------------------------------------------------------------------------
\* members.ts: the roster

AskRoleChange(w) ==
  \E actor \in Administrators, p \in Members, to \in Assignable :
    /\ role[p] \in Assignable
    /\ role[p] \in Administering /\ to \notin Administering =>
         p # actor /\ StillAdministered(p)
    /\ Read(w, "change", p, to, FALSE)

\* The one write here that is not conditioned on the role it was decided from.
RoleChangeLands(r) ==
  /\ Present(r.who, r.tenure)
  /\ r.was \in Administering /\ r.to \notin Administering => StillAdministered(r.who)

LandRoleChange(w) ==
  LET r == worker[w] IN
  /\ Writing(w, "change") /\ Answered(w)
  /\ IF RoleChangeLands(r)
     THEN /\ role' = [role EXCEPT ![r.who] = r.to]
          /\ blind' = (blind \/ role[r.who] # r.was)
     ELSE UNCHANGED <<role, blind>>
  /\ UNCHANGED <<tenure, offer, invite, acting, overridden, joined>>

\* An operator's change, to or from any role but the owner's.
AskOperatorChange(w) ==
  \E p \in Members, to \in Assignable :
    /\ role[p] \in Assignable
    /\ role[p] \in Administering /\ to \notin Administering => StillAdministered(p)
    /\ Read(w, "operate", p, to, FALSE)

LandOperatorChange(w) ==
  LET r == worker[w] IN
  /\ Writing(w, "operate") /\ AnsweredOrRetried(w)
  /\ role' = IF RoleChangeLands(r) /\ role[r.who] = r.was
             THEN [role EXCEPT ![r.who] = r.to] ELSE role
  /\ UNCHANGED <<tenure, offer, invite, acting, ghosts>>

\* A removal, a leaving and an operator's removal: none of them reaches an owner.
AskEnd(w) ==
  \E p \in Members :
    /\ role[p] \in Assignable
    /\ role[p] \in Administering => StillAdministered(p)
    /\ Read(w, "end", p, Out, FALSE)

Ends_WhateverItHolds(r) ==
  /\ Present(r.who, r.tenure)
  /\ r.was \in Administering => StillAdministered(r.who)
Ends(r) ==
  /\ Present(r.who, r.tenure) /\ role[r.who] = r.was
  /\ r.was \in Administering => StillAdministered(r.who)

\* The selection and the offer go once the membership named is no longer there, whoever
\* ended it.
LandEnd(w) ==
  LET r == worker[w]
      gone == Ends(r) \/ ~Present(r.who, r.tenure)
  IN
  /\ Writing(w, "end") /\ AnsweredOrRetried(w)
  /\ role' = IF Ends(r) THEN [role EXCEPT ![r.who] = Out] ELSE role
  /\ acting' = IF gone THEN acting \ {r.who} ELSE acting
  /\ offer' = IF gone /\ OffersTo(r.who, r.tenure) THEN NoOffer ELSE offer
  /\ UNCHANGED <<tenure, invite, ghosts>>

Join(p, to) ==
  /\ role' = [role EXCEPT ![p] = to]
  /\ tenure' = [tenure EXCEPT ![p] = @ + 1]

AskAdd(w) ==
  \E p \in Person \ Members, to \in Assignable, override \in BOOLEAN :
    /\ RoomFor \/ override
    /\ Read(w, "add", p, to, override)

\* The seat-conditional insert goes first; only an override it refuses writes past it.
\* Either insert collides with the unique index when the person is in already.
Seats_AsCounted(r) == TRUE
Seats(r) == RoomFor \/ r.flag

LandAdd(w) ==
  LET r == worker[w] IN
  /\ Writing(w, "add") /\ Answered(w)
  /\ IF Seats(r) /\ role[r.who] = Out
     THEN /\ Join(r.who, r.to)
          /\ overridden' = overridden + IF r.flag /\ ~RoomFor THEN 1 ELSE 0
     ELSE UNCHANGED <<people, overridden>>
  /\ UNCHANGED <<offer, invite, acting, joined, blind>>

-----------------------------------------------------------------------------
\* invite.ts: the link

\* Superseding the standing invitation and minting the next is one batch.
Invite(p) ==
  \E to \in Assignable :
    /\ Administrators # {} /\ sent < MaxInvites
    /\ sent' = sent + 1
    /\ invite' = [invite EXCEPT ![p] = [serial |-> @.serial + 1, role |-> to, pending |-> TRUE]]
    /\ UNCHANGED <<people, offer, acting, worker, ghosts, requests, faults>>

WithdrawInvitation(p) ==
  /\ Administrators # {} /\ invite[p].pending
  /\ invite' = [invite EXCEPT ![p].pending = FALSE]
  /\ UNCHANGED <<people, offer, acting, worker, ghosts, requests, sent, faults>>

\* The request remembers the invitation by its serial; one redeemed from inside is only
\* spent.
AskRedeem(w) ==
  \E p \in Person :
    /\ worker[w] = NoRequest /\ requests < MaxRequests
    /\ invite[p].pending /\ (p \in Members \/ RoomFor)
    /\ requests' = requests + 1
    /\ worker' = [worker EXCEPT ![w] = [op |-> "redeem", who |-> p, tenure |-> invite[p].serial,
                                        was |-> role[p], to |-> invite[p].role,
                                        flag |-> p \in Members]]
    /\ UNCHANGED <<people, offer, invite, acting, ghosts, sent, faults>>

Redeemable_Once(r) == invite[r.who].serial = r.tenure
Redeemable(r) == invite[r.who].serial = r.tenure /\ invite[r.who].pending

LandRedeem(w) ==
  LET r == worker[w]
      spends == Redeemable(r) /\ (r.flag \/ RoomFor)
      joins == spends /\ ~r.flag /\ role[r.who] = Out
  IN
  /\ Writing(w, "redeem") /\ AnsweredOrRetried(w)
  /\ invite' = IF spends THEN [invite EXCEPT ![r.who].pending = FALSE] ELSE invite
  /\ IF joins
     THEN Join(r.who, r.to) /\ joined' = [joined EXCEPT ![r.who] = @ + 1]
     ELSE UNCHANGED <<people, joined>>
  /\ UNCHANGED <<offer, acting, overridden, blind>>

-----------------------------------------------------------------------------
\* ownership.ts

\* While somebody holds the account only they hand it on; while nobody does, somebody
\* who administers it may volunteer.
MayOffer(by, p) ==
  IF Owners # {} THEN by \in Owners ELSE by = p /\ p \in Administrators

AskNominate(w) ==
  \E by \in Person, p \in Members :
    /\ MayOffer(by, p) /\ role[p] # Owner
    /\ Read(w, "nominate", p, Owner, FALSE)

LandNominate(w) ==
  LET r == worker[w] IN
  /\ Writing(w, "nominate") /\ Answered(w)
  /\ offer' = [to |-> r.who, tenure |-> r.tenure, live |-> TRUE]
  /\ UNCHANGED <<people, invite, acting, ghosts>>

\* The request reads who may take the offer back; the delete is of whatever then stands.
AskWithdraw(w) ==
  \E by \in Person :
    /\ IF Owners # {} THEN by \in Owners
       ELSE offer = NoOffer \/ Present(offer.to, offer.tenure) => offer # NoOffer /\ offer.to = by
    /\ Read(w, "withdraw", by, Owner, FALSE)

LandWithdraw(w) ==
  /\ Writing(w, "withdraw") /\ Answered(w)
  /\ offer' = NoOffer
  /\ UNCHANGED <<people, invite, acting, ghosts>>

Expire ==
  /\ offer # NoOffer /\ offer.live
  /\ offer' = [offer EXCEPT !.live = FALSE]
  /\ UNCHANGED <<people, invite, acting, worker, ghosts, requests, sent, faults>>

AskAccept(w) ==
  /\ offer # NoOffer /\ offer.live /\ Present(offer.to, offer.tenure)
  /\ Read(w, "accept", offer.to, Owner, FALSE)

\* Whether anybody holds the account is a read of its own, and decides whether the batch
\* demotes.
ReadHolders(w) ==
  LET r == worker[w] IN
  /\ Writing(w, "accept")
  /\ worker' = [worker EXCEPT ![w].op = "transfer", ![w].flag = (Owners \ {r.who} # {})]
  /\ UNCHANGED <<people, offer, invite, acting, ghosts, requests, sent, faults>>

\* A delete that matches no row is no error, so the batch commits with the offer gone.
LandAccept(w) ==
  LET r == worker[w]
      named(p) == p = r.who /\ Present(p, r.tenure)
  IN
  /\ Writing(w, "transfer") /\ AnsweredOrRetried(w)
  /\ role' = [p \in Person |-> IF named(p) THEN Owner
                               ELSE IF r.flag /\ role[p] = Owner THEN Demoted ELSE role[p]]
  /\ offer' = IF OffersTo(r.who, r.tenure) THEN NoOffer ELSE offer
  /\ UNCHANGED <<tenure, invite, acting, ghosts>>

\* The operator says whether the previous holders keep their memberships.
AskForce(w) ==
  \E p \in Members, keep \in BOOLEAN :
    role[p] # Owner /\ Read(w, "force", p, Owner, keep)

LandForce(w) ==
  LET r == worker[w] IN
  /\ Writing(w, "force") /\ AnsweredOrRetried(w)
  /\ IF Present(r.who, r.tenure)
     THEN /\ role' = [p \in Person |-> IF p = r.who THEN Owner
                                       ELSE IF role[p] # Owner THEN role[p]
                                       ELSE IF r.flag THEN Demoted ELSE Out]
          /\ acting' = IF r.flag THEN acting ELSE acting \ (Owners \ {r.who})
          /\ offer' = NoOffer
     ELSE UNCHANGED <<role, acting, offer>>
  /\ UNCHANGED <<tenure, invite, ghosts>>

-----------------------------------------------------------------------------
\* acting.ts: the membership is proved, then the selection written; one left behind by a
\* membership that ended in between grants nothing and stays

AskChoose(w) ==
  \E p \in Members : Read(w, "choose", p, Out, FALSE)

LandChoose(w) ==
  /\ Writing(w, "choose") /\ Answered(w)
  /\ acting' = acting \union {worker[w].who}
  /\ UNCHANGED <<people, offer, invite, ghosts>>

-----------------------------------------------------------------------------

Ask(w) ==
  \/ AskRoleChange(w) \/ AskOperatorChange(w) \/ AskEnd(w) \/ AskAdd(w) \/ AskRedeem(w)
  \/ AskNominate(w) \/ AskWithdraw(w) \/ AskAccept(w) \/ AskForce(w) \/ AskChoose(w)

Land(w) ==
  \/ LandRoleChange(w) \/ LandOperatorChange(w) \/ LandEnd(w) \/ LandAdd(w) \/ LandRedeem(w)
  \/ LandNominate(w) \/ LandWithdraw(w) \/ ReadHolders(w) \/ LandAccept(w) \/ LandForce(w)
  \/ LandChoose(w)

Next ==
  \/ \E w \in Worker : Ask(w) \/ Land(w)
  \/ \E p \in Person : Invite(p) \/ WithdrawInvitation(p)
  \/ Expire

Spec == Init /\ [][Next]_vars
=============================================================================
