--------------------------- MODULE FamiliesProofs ---------------------------
(***************************************************************************)
(* Proofs about Families for any number of requests, users, seats and      *)
(* invitations.                                                            *)
(*                                                                         *)
(* A request that accepts, leaves or founds a group acts on what it read   *)
(* in an earlier step.  RequestsKnow says what is still true of it then,   *)
(* which the locks ensure (LocksApart); OwnersStay and OwnAccess say why   *)
(* a group never loses its owner nor an owner his own subscription.        *)
(***************************************************************************)
EXTENDS Families, FiniteSetTheorems, TLAPS

Statuses == {"pending", "lapsed", "accepted", "declined", "revoked", "expired"}

Invitation == [group : groups, user : Users, how : {"id", "email"}, status : Statuses]

Row == [group : groups, user : Users, by : 0 .. Len(invitations)]

Open(i) == invitations[i].status \in {"pending", "lapsed"}

(* What each request holds and may rely on. *)
Creating(c) ==
    \E u \in subscribed :
        procs[c] = [phase |-> "creating", locks |-> {CreateKey(u)}, user |-> u]

Revoking(c) ==
    \E g \in groups :
        procs[c] = [phase |-> "revoking", locks |-> {GroupRow(g)}, group |-> g]

Accepting(c) ==
    \E i \in DOMAIN invitations :
        /\ procs[c] = [phase |-> "accepting", locks |-> AcceptLocks(i), invitation |-> i]
        /\ Open(i)

Leaving(c) ==
    \E m \in Row :
        /\ procs[c] = [phase |-> "leaving", locks |-> {MemberKey(m.user)}, member |-> m]
        /\ m.user # m.group

Known(c) == procs[c] = Idle \/ Creating(c) \/ Revoking(c) \/ Accepting(c) \/ Leaving(c)

RequestsKnow ==
    /\ procs = [c \in Clients |-> procs[c]]
    /\ \A c \in Clients : Known(c)

(* No two requests hold the same lock. *)
LocksApart ==
    \A c, d \in Clients : c # d => procs[c].locks \cap procs[d].locks = {}

(* The owner of a group is a member of it for ever; nobody is invited to   *)
(* a group of his own.                                                     *)
OwnersStay ==
    /\ \A g \in groups : \E m \in members : m.group = g /\ m.user = g
    /\ \A i \in DOMAIN invitations : invitations[i].user # invitations[i].group

(* Who has a subscription has his account on it. *)
OwnAccess == \A u \in subscribed : accounts[u].on = u

IInv ==
    /\ TypeOK /\ IsFiniteSet(members)
    /\ RequestsKnow /\ LocksApart /\ OwnersStay /\ OwnAccess
    /\ SeatsReserved /\ AccessByMembership

-----------------------------------------------------------------------------
(* Facts about the tables *)

(* An invitation that is settled differs from before in its status only.   *)
LEMMA Settled ==
    ASSUME TypeOK, NEW i \in DOMAIN invitations, NEW status \in Statuses, Settle(i, status)
    PROVE  /\ invitations' \in Seq(Invitation)
           /\ Len(invitations') = Len(invitations)
           /\ DOMAIN invitations' = DOMAIN invitations
           /\ invitations'[i].status = status
           /\ \A j \in DOMAIN invitations :
                /\ invitations'[j].group = invitations[j].group
                /\ invitations'[j].user = invitations[j].user
                /\ j # i => invitations'[j] = invitations[j]
  <1>1. invitations \in Seq(Invitation)
    BY DEF TypeOK, Invitation, Statuses
  <1>2. invitations[i] \in Invitation
    BY <1>1
  <1>3. [invitations[i] EXCEPT !.status = status] \in Invitation
    BY <1>2 DEF Invitation
  <1>4. invitations' = [invitations EXCEPT ![i] = [invitations[i] EXCEPT !.status = status]]
    BY DEF Settle
  <1> QED
    BY <1>1, <1>2, <1>3, <1>4 DEF Invitation

(* The invitations are a table of records.                                 *)
LEMMA Table == TypeOK => invitations \in Seq(Invitation)
  BY DEF TypeOK, Invitation, Statuses

(* The pending invitations of a group are finitely many.                   *)
LEMMA PendingIsFinite ==
    ASSUME NEW S, NEW table \in Seq(S), NEW g
    PROVE  /\ IsFiniteSet(PendingOf(table, g))
           /\ Cardinality(PendingOf(table, g)) \in Nat
  <1>1. IsFiniteSet(DOMAIN table)
    <2>1. DOMAIN table = 1 .. Len(table) /\ Len(table) \in Nat
      OBVIOUS
    <2> QED
      BY <2>1, FS_Interval
  <1> QED
    BY <1>1, FS_Subset, FS_CardinalityType DEF PendingOf

(* ... and so are its members.                                             *)
LEMMA MembersAreFinite ==
    ASSUME IsFiniteSet(members), NEW g
    PROVE  IsFiniteSet(MembersOf(g)) /\ Cardinality(MembersOf(g)) \in Nat
  BY FS_Subset, FS_CardinalityType DEF MembersOf

(* A group that is not there has neither. *)
LEMMA NoGroup ==
    ASSUME TypeOK, NEW g, g \notin groups
    PROVE  MembersOf(g) = {} /\ PendingOf(invitations, g) = {}
  <1>1. MembersOf(g) = {}
    BY DEF MembersOf, TypeOK
  <1>2. \A i \in DOMAIN invitations : invitations[i] \in Invitation
    BY Table
  <1>3. PendingOf(invitations, g) = {}
    BY <1>2 DEF PendingOf, Invitation
  <1> QED
    BY <1>1, <1>3

(* Settling an invitation for good gives back the seat it held.            *)
LEMMA SeatGivenBack ==
    ASSUME TypeOK, NEW i \in DOMAIN invitations, Open(i), NEW status \in Statuses \ {"pending", "lapsed"},
           Settle(i, status), NEW g \in groups
    PROVE  Cardinality(PendingOf(invitations', g)) =
             IF g = invitations[i].group THEN Cardinality(PendingOf(invitations, g)) - 1
                                         ELSE Cardinality(PendingOf(invitations, g))
  <1>1. PendingOf(invitations', g) = PendingOf(invitations, g) \ {i}
    BY Settled DEF PendingOf
  <1>2. i \in PendingOf(invitations, g) <=> g = invitations[i].group
    BY DEF PendingOf, Open
  <1> QED
    BY <1>1, <1>2, Table, PendingIsFinite, FS_RemoveElement

(* The clock does not.                                                     *)
LEMMA SeatKept ==
    ASSUME TypeOK, NEW i \in DOMAIN invitations, Open(i), Settle(i, "lapsed"), NEW g \in groups
    PROVE  PendingOf(invitations', g) = PendingOf(invitations, g)
  <1>1. "lapsed" \in Statuses
    BY DEF Statuses
  <1> QED
    BY <1>1, Settled DEF PendingOf, Open

-----------------------------------------------------------------------------
(* Requests and locks *)

(* A request that is not the one taking the step still knows what it knew, *)
(* as long as the invitation it has locked stays open.                     *)
LEMMA Carried ==
    ASSUME TypeOK, NEW d \in Clients, Known(d), procs'[d] = procs[d],
           subscribed \subseteq subscribed', groups \subseteq groups',
           invitations' \in Seq(Invitation'), Len(invitations) <= Len(invitations'),
           \A i \in DOMAIN invitations :
              InvitationRow(i) \in procs[d].locks =>
                 /\ invitations'[i].user = invitations[i].user
                 /\ Open(i) => Open(i)'
    PROVE  Known(d)'
  <1>1. Len(invitations) \in Nat /\ Len(invitations') \in Nat
    BY DEF TypeOK
  <1>2. DOMAIN invitations \subseteq DOMAIN invitations'
    BY <1>1 DEF TypeOK
  <1>3. CASE procs[d] = Idle
    BY <1>3 DEF Known, Idle
  <1>4. CASE Creating(d)
    BY <1>4 DEF Known, Creating, CreateKey
  <1>5. CASE Revoking(d)
    BY <1>5 DEF Known, Revoking, GroupRow
  <1>6. CASE Accepting(d)
    <2>1. PICK i \in DOMAIN invitations :
            /\ procs[d] = [phase |-> "accepting", locks |-> AcceptLocks(i), invitation |-> i]
            /\ Open(i)
      BY <1>6 DEF Accepting
    <2>2. InvitationRow(i) \in procs[d].locks
      BY <2>1 DEF AcceptLocks
    <2>3. AcceptLocks(i)' = AcceptLocks(i) /\ Open(i)'
      BY <2>1, <2>2 DEF AcceptLocks, AcceptKey, InvitationRow
    <2> QED
      BY <1>2, <2>1, <2>3 DEF Known, Accepting
  <1>7. CASE Leaving(d)
    <2>1. Row \subseteq Row'
      BY <1>1 DEF Row
    <2> QED
      BY <1>7, <2>1 DEF Known, Leaving, MemberKey
  <1> QED
    BY <1>3, <1>4, <1>5, <1>6, <1>7 DEF Known

(* A request that takes locks nobody holds shares none.                    *)
LEMMA StaysApart ==
    ASSUME RequestsKnow, LocksApart, NEW c \in Clients, NEW state,
           Become(c, state), Free(state.locks)
    PROVE  LocksApart'
  <1>1. \A d \in Clients : procs'[d] = IF d = c THEN state ELSE procs[d]
    BY DEF RequestsKnow, Become
  <1> QED
    BY <1>1 DEF LocksApart, Free

(* One that is done holds none.                                            *)
LEMMA IdleIsFree == Free(Idle.locks)
  BY DEF Free, Idle

(* Actions that only take or release locks.                                *)
LEMMA RequestStep ==
    ASSUME IInv, NEW c \in Clients, NEW state, Become(c, state), Free(state.locks),
           UNCHANGED <<subscribed, rows, accounts, blocked>>, Known(c)'
    PROVE  IInv'
  <1>1. /\ TypeOK' /\ IsFiniteSet(members)' /\ OwnersStay' /\ OwnAccess'
        /\ SeatsReserved' /\ AccessByMembership'
    BY DEF IInv, rows, TypeOK, OwnersStay, OwnAccess, SeatsReserved, AccessByMembership,
           MembersOf, PendingOf
  <1>2. LocksApart'
    BY StaysApart DEF IInv
  <1>3. RequestsKnow'
    <2>1. procs' = [d \in Clients |-> procs'[d]]
      BY DEF IInv, RequestsKnow, Become
    <2>2. ASSUME NEW d \in Clients, d # c PROVE Known(d)'
      <3>1. procs'[d] = procs[d] /\ Known(d)
        BY <2>2 DEF IInv, RequestsKnow, Become
      <3> QED
        BY <3>1 DEF rows, Known, Creating, Revoking, Accepting, Leaving, Row, Open, AcceptLocks
    <2> QED
      BY <2>1, <2>2 DEF RequestsKnow
  <1> QED
    BY <1>1, <1>2, <1>3 DEF IInv

(* What every request has locked is as it was. *)
Respected(d) ==
    \A i \in DOMAIN invitations :
        InvitationRow(i) \in procs[d].locks =>
            /\ invitations'[i].user = invitations[i].user
            /\ Open(i) => Open(i)'

(* A step that is no request's leaves them what they know ...              *)
LEMMA NobodysStep ==
    ASSUME TypeOK, RequestsKnow, LocksApart, UNCHANGED procs,
           subscribed \subseteq subscribed', groups \subseteq groups',
           invitations' \in Seq(Invitation'), Len(invitations) <= Len(invitations'),
           \A d \in Clients : Respected(d)
    PROVE  RequestsKnow' /\ LocksApart'
  <1>1. ASSUME NEW d \in Clients PROVE Known(d)'
    <2>1. Known(d) /\ procs'[d] = procs[d] /\ Respected(d)
      BY DEF RequestsKnow
    <2> QED
      BY <2>1, Carried DEF Respected
  <1>2. LocksApart'
    BY DEF LocksApart
  <1> QED
    BY <1>1, <1>2 DEF RequestsKnow

(* ... and so does one that ends a request.                                *)
LEMMA LastStep ==
    ASSUME TypeOK, RequestsKnow, LocksApart, NEW c \in Clients, Become(c, Idle),
           subscribed \subseteq subscribed', groups \subseteq groups',
           invitations' \in Seq(Invitation'), Len(invitations) <= Len(invitations'),
           \A d \in Clients \ {c} : Respected(d)
    PROVE  RequestsKnow' /\ LocksApart'
  <1>1. /\ procs' = [d \in Clients |-> procs'[d]]
        /\ \A d \in Clients : procs'[d] = IF d = c THEN Idle ELSE procs[d]
    BY DEF RequestsKnow, Become
  <1>2. ASSUME NEW d \in Clients PROVE Known(d)'
    <2>1. CASE d = c
      BY <1>1, <2>1 DEF Known, Idle
    <2>2. CASE d # c
      <3>1. Known(d) /\ procs'[d] = procs[d] /\ Respected(d)
        BY <1>1, <2>2 DEF RequestsKnow
      <3> QED
        BY <3>1, Carried DEF Respected
    <2> QED
      BY <2>1, <2>2
  <1>3. LocksApart'
    BY IdleIsFree, StaysApart
  <1> QED
    BY <1>1, <1>2, <1>3 DEF RequestsKnow

(* Nothing is settled by a step that leaves the invitations alone.         *)
LEMMA NothingSettled ==
    ASSUME TypeOK, UNCHANGED invitations, groups \subseteq groups'
    PROVE  /\ invitations' \in Seq(Invitation') /\ Len(invitations) <= Len(invitations')
           /\ \A d \in Clients : Respected(d)
  <1>1. invitations \in Seq(Invitation) /\ Invitation \subseteq Invitation'
    BY DEF TypeOK, Invitation, Statuses
  <1>2. Len(invitations) \in Nat
    BY <1>1
  <1> QED
    BY <1>1, <1>2 DEF Respected, Open

-----------------------------------------------------------------------------
(* The invariant *)

(* It holds before any family is founded.                                  *)
LEMMA InvInit == Init => IInv
  <1> SUFFICES ASSUME Init PROVE IInv
    OBVIOUS
  <1>1. TypeOK
    BY DEF Init, TypeOK
  <1>2. IsFiniteSet(members)
    BY FS_EmptySet DEF Init
  <1>3. RequestsKnow /\ LocksApart
    BY DEF Init, RequestsKnow, Known, LocksApart, Idle
  <1>4. OwnersStay /\ OwnAccess /\ SeatsReserved /\ AccessByMembership
    BY DEF Init, OwnersStay, OwnAccess, SeatsReserved, AccessByMembership
  <1> QED
    BY <1>1, <1>2, <1>3, <1>4 DEF IInv

(* An account that is put on the user's own subscription needs no family.  *)
LEMMA SubscribeStep ==
    ASSUME IInv, NEW u \in Users, Subscribe(u)
    PROVE  IInv'
  <1> USE DEF IInv
  <1>1. TypeOK'
    BY DEF Subscribe, TypeOK, rows
  <1>2. RequestsKnow' /\ LocksApart'
    BY NothingSettled, NobodysStep DEF Subscribe, rows
  <1>3. OwnersStay' /\ SeatsReserved' /\ IsFiniteSet(members)'
    BY DEF Subscribe, rows, OwnersStay, SeatsReserved, MembersOf, PendingOf
  <1>4. /\ \A v \in Users : v # u => accounts'[v] = accounts[v]
        /\ accounts'[u].on = u
    BY DEF Subscribe, TypeOK
  <1>5. OwnAccess'
    BY <1>4 DEF Subscribe, OwnAccess, TypeOK
  <1>6. AccessByMembership'
    BY <1>4 DEF Subscribe, rows, AccessByMembership
  <1> QED
    BY <1>1, <1>2, <1>3, <1>5, <1>6

(* Blocking disables accounts.                                             *)
LEMMA BlockStep ==
    ASSUME IInv, NEW u \in Users, BlockUser(u)
    PROVE  IInv'
  <1> USE DEF IInv
  <1>1. /\ \A v \in Users : v # u => accounts'[v] = accounts[v]
        /\ accounts'[u].on = accounts[u].on
        /\ accounts'[u].status # "active"
        /\ accounts' \in [Users -> [on : subscribed, status : {"active", "disabled"}]
                              \cup {[on |-> None, status |-> "none"]}]
    <2>1. accounts[u] \in [on : subscribed, status : {"active", "disabled"}]
                          \cup {[on |-> None, status |-> "none"]}
      BY DEF TypeOK
    <2>2. accounts[u].on = None => accounts[u].status = "none"
      BY <2>1, NoneAssumption DEF TypeOK
    <2> QED
      BY <2>1, <2>2 DEF BlockUser, TypeOK
  <1>2. TypeOK'
    BY <1>1 DEF BlockUser, TypeOK, rows
  <1>3. RequestsKnow' /\ LocksApart'
    BY NothingSettled, NobodysStep DEF BlockUser, rows
  <1>4. OwnersStay' /\ SeatsReserved' /\ IsFiniteSet(members)'
    BY DEF BlockUser, rows, OwnersStay, SeatsReserved, MembersOf, PendingOf
  <1>5. OwnAccess'
    BY <1>1 DEF BlockUser, OwnAccess, TypeOK
  <1>6. AccessByMembership'
    BY <1>1 DEF BlockUser, rows, AccessByMembership
  <1> QED
    BY <1>2, <1>3, <1>4, <1>5, <1>6

(* Unblocking only activates accounts on the user's own subscription.      *)
LEMMA UnblockStep ==
    ASSUME IInv, NEW u \in Users, UnblockUser(u)
    PROVE  IInv'
  <1> USE DEF IInv
  <1>1. /\ \A v \in Users : v # u => accounts'[v] = accounts[v]
        /\ accounts'[u].on = accounts[u].on
        /\ accounts'[u] = accounts[u] \/ accounts[u].on = u
        /\ accounts' \in [Users -> [on : subscribed, status : {"active", "disabled"}]
                              \cup {[on |-> None, status |-> "none"]}]
    BY DEF UnblockUser, TypeOK, OwnAccess
  <1>2. TypeOK'
    BY <1>1 DEF UnblockUser, TypeOK, rows
  <1>3. RequestsKnow' /\ LocksApart'
    BY NothingSettled, NobodysStep DEF UnblockUser, rows
  <1>4. OwnersStay' /\ SeatsReserved' /\ IsFiniteSet(members)'
    BY DEF UnblockUser, rows, OwnersStay, SeatsReserved, MembersOf, PendingOf
  <1>5. OwnAccess'
    BY <1>1 DEF UnblockUser, OwnAccess, TypeOK
  <1>6. AccessByMembership'
    BY <1>1 DEF UnblockUser, rows, AccessByMembership
  <1> QED
    BY <1>2, <1>3, <1>4, <1>5, <1>6

(* The member who goes had no other family, and is disabled if the account *)
(* was on this one's subscription.                                         *)
LEMMA DeactivateStep ==
    ASSUME IInv, NEW m \in Row, m.user # m.group, Deactivate(m),
           UNCHANGED <<subscribed, groups, invitations, blocked>>
    PROVE  /\ TypeOK' /\ IsFiniteSet(members)' /\ OwnersStay' /\ OwnAccess'
           /\ SeatsReserved' /\ AccessByMembership'
  <1> USE DEF IInv
  <1>1. /\ members' = members \ {m}
        /\ \A v \in Users : accounts'[v].on = accounts[v].on
        /\ \A v \in Users : v # m.user => accounts'[v] = accounts[v]
        /\ accounts'[m.user].on = m.group => accounts'[m.user].status # "active"
        /\ accounts'[m.user].on # m.group => accounts'[m.user] = accounts[m.user]
        /\ accounts' \in [Users -> [on : subscribed, status : {"active", "disabled"}]
                              \cup {[on |-> None, status |-> "none"]}]
    <2>1. m.user \in Users /\ m.group \in groups /\ m.group \in Users
      BY DEF Row, TypeOK
    <2>2. accounts[m.user] \in [on : subscribed, status : {"active", "disabled"}]
                          \cup {[on |-> None, status |-> "none"]}
      BY <2>1 DEF TypeOK
    <2>3. CASE accounts[m.user].on = m.group
      <3>1. accounts' = [accounts EXCEPT ![m.user].status = "disabled"]
        BY <2>3 DEF Deactivate, Disabled
      <3>2. accounts[m.user] \in [on : subscribed, status : {"active", "disabled"}]
        BY <2>1, <2>2, <2>3, NoneAssumption
      <3> DEFINE x == [accounts[m.user] EXCEPT !.status = "disabled"]
      <3>3. /\ x \in [on : subscribed, status : {"active", "disabled"}]
            /\ x.on = accounts[m.user].on /\ x.status = "disabled"
        BY <3>2
      <3>4. accounts' = [accounts EXCEPT ![m.user] = x]
        BY <3>1
      <3>5. members' = members \ {m}
        BY DEF Deactivate
      <3> HIDE DEF x
      <3> QED
        BY <2>1, <2>3, <3>3, <3>4, <3>5 DEF TypeOK
    <2>4. CASE accounts[m.user].on # m.group
      BY <2>1, <2>4 DEF Deactivate, Disabled, TypeOK
    <2> QED
      BY <2>3, <2>4
  <1>2. TypeOK'
    BY <1>1 DEF TypeOK
  <1>3. IsFiniteSet(members)'
    BY <1>1, FS_Subset
  <1>4. OwnersStay'
    BY <1>1 DEF OwnersStay
  <1>5. OwnAccess'
    BY <1>1 DEF OwnAccess, TypeOK
  <1>6. SeatsReserved'
    <2> SUFFICES ASSUME NEW g \in groups
                 PROVE  Cardinality(MembersOf(g)') + Cardinality(PendingOf(invitations', g)) <= MemberLimit
      BY DEF SeatsReserved
    <2>1. PendingOf(invitations', g) = PendingOf(invitations, g)
      BY DEF PendingOf
    <2>2. MembersOf(g)' \subseteq MembersOf(g)
      BY <1>1 DEF MembersOf
    <2>3. Cardinality(MembersOf(g)') <= Cardinality(MembersOf(g)) /\ Cardinality(MembersOf(g)') \in Nat
      BY <2>2, MembersAreFinite, FS_Subset, FS_CardinalityType
    <2>4. Cardinality(MembersOf(g)) + Cardinality(PendingOf(invitations, g)) <= MemberLimit
      BY DEF SeatsReserved
    <2> QED
      BY <2>1, <2>3, <2>4, MembersAreFinite, Table, PendingIsFinite, LimitAssumption
  <1>7. AccessByMembership'
    <2>1. \A n, k \in members' : n.user = k.user => n = k
      BY <1>1 DEF AccessByMembership
    <2>2. ASSUME NEW v \in Users, accounts'[v].status = "active", accounts'[v].on # v
          PROVE  \E n \in members' : n.user = v /\ n.group = accounts'[v].on
      <3>1. accounts'[v] = accounts[v] /\ (v = m.user => accounts[v].on # m.group)
        <4>1. CASE v = m.user
          BY <1>1, <2>2, <4>1
        <4>2. CASE v # m.user
          BY <1>1, <4>2
        <4> QED
          BY <4>1, <4>2
      <3>2. accounts[v].status = "active" /\ accounts[v].on # v
        BY <2>2, <3>1
      <3>3. AccessByMembership
        OBVIOUS
      <3>4. PICK n \in members : n.user = v /\ n.group = accounts[v].on
        BY <3>2, <3>3 DEF AccessByMembership
      <3>5. n # m
        BY <3>1, <3>4
      <3> QED
        BY <1>1, <3>1, <3>4, <3>5
    <2> QED
      BY <2>1, <2>2 DEF AccessByMembership
  <1> QED
    BY <1>2, <1>3, <1>4, <1>5, <1>6, <1>7

(* An open invitation that is settled, or lapses, lets nobody in.          *)
LEMMA SettleStep ==
    ASSUME IInv, NEW i \in DOMAIN invitations, Open(i),
           NEW status \in Statuses \ {"pending"}, Settle(i, status),
           UNCHANGED <<subscribed, groups, members, accounts, blocked>>
    PROVE  /\ TypeOK' /\ IsFiniteSet(members)' /\ OwnersStay' /\ OwnAccess'
           /\ SeatsReserved' /\ AccessByMembership'
  <1> USE DEF IInv
  <1>1. TypeOK'
    BY Settled DEF TypeOK, Invitation, Statuses
  <1>2. OwnersStay'
    BY Settled DEF OwnersStay
  <1>3. SeatsReserved'
    <2> SUFFICES ASSUME NEW g \in groups
                 PROVE  Cardinality(MembersOf(g)') + Cardinality(PendingOf(invitations', g)) <= MemberLimit
      BY DEF SeatsReserved
    <2>1. MembersOf(g)' = MembersOf(g)
      BY DEF MembersOf
    <2>2. Cardinality(PendingOf(invitations', g)) <= Cardinality(PendingOf(invitations, g))
      BY SeatGivenBack, SeatKept, Table, PendingIsFinite
    <2>3. Cardinality(MembersOf(g)) + Cardinality(PendingOf(invitations, g)) <= MemberLimit
      BY DEF SeatsReserved
    <2>4. Cardinality(PendingOf(invitations', g)) \in Nat
      BY Settled, PendingIsFinite
    <2> QED
      BY <2>1, <2>2, <2>3, <2>4, MembersAreFinite, Table, PendingIsFinite, LimitAssumption
  <1>4. OwnAccess' /\ AccessByMembership' /\ IsFiniteSet(members)'
    BY DEF OwnAccess, AccessByMembership
  <1> QED
    BY <1>1, <1>2, <1>3, <1>4

(* A new member of a group takes one seat.                                 *)
LEMMA SeatTaken ==
    ASSUME IsFiniteSet(members), NEW m, m \notin members, members' = members \cup {m}, NEW g
    PROVE  /\ IsFiniteSet(members')
           /\ Cardinality(MembersOf(g)') =
                IF g = m.group THEN Cardinality(MembersOf(g)) + 1 ELSE Cardinality(MembersOf(g))
  <1>1. MembersOf(g)' = IF g = m.group THEN MembersOf(g) \cup {m} ELSE MembersOf(g)
    BY DEF MembersOf
  <1>2. m \notin MembersOf(g)
    BY DEF MembersOf
  <1> QED
    BY <1>1, <1>2, MembersAreFinite, FS_AddElement

(* Whoever is in no family joins one without being in two.                 *)
LEMMA Joined ==
    ASSUME AccessByMembership, NEW m, MayJoin(m.user), members' = members \cup {m}
    PROVE  m \notin members /\ \A n, k \in members' : n.user = k.user => n = k
  BY DEF AccessByMembership, MayJoin, IsMember

(* A group starts with its owner and nobody invited.                       *)
LEMMA FoundStep ==
    ASSUME IInv, NEW c \in Clients, CommitGroup(c)
    PROVE  IInv'
  <1> USE DEF IInv
  <1> DEFINE u == procs[c].user
             m == [group |-> u, user |-> u, by |-> 0]
  <1>1. u \in subscribed /\ Become(c, Idle)
        /\ UNCHANGED <<subscribed, invitations, accounts, blocked>>
    BY DEF RequestsKnow, Known, Idle, Creating, Revoking, Accepting, Leaving, CommitGroup
  <1>2. groups \subseteq groups' /\ groups' \subseteq subscribed
    BY <1>1 DEF CommitGroup, TypeOK
  <1>3. RequestsKnow' /\ LocksApart'
    BY <1>1, <1>2, NothingSettled, LastStep
  <1>4. CASE ~MayJoin(u)
    <2>1. UNCHANGED <<groups, members>>
      BY <1>4 DEF CommitGroup
    <2> QED
      BY <1>1, <1>3, <2>1 DEF TypeOK, OwnersStay, OwnAccess, SeatsReserved, AccessByMembership,
                              MembersOf, PendingOf
  <1>5. CASE MayJoin(u)
    <2>1. groups' = groups \cup {u} /\ members' = members \cup {m}
      BY <1>5 DEF CommitGroup
    <2>2. m.user = u /\ m.group = u /\ m \in Row'
      BY <1>1, <2>1 DEF Row, TypeOK
    <2>3. m \notin members /\ \A n, k \in members' : n.user = k.user => n = k
      BY <1>5, <2>1, <2>2, Joined
    <2>4. TypeOK'
      <3>1. invitations' \in Seq(Invitation')
        BY <1>1, <1>2, NothingSettled
      <3>2. members' \subseteq Row'
        BY <1>1, <1>2, <2>1, <2>2 DEF TypeOK, Row
      <3> QED
        BY <1>1, <1>2, <3>1, <3>2 DEF TypeOK, Row, Invitation, Statuses
    <2>5. OwnersStay'
      BY <1>1, <2>1, <2>2 DEF OwnersStay
    <2>6. OwnAccess'
      BY <1>1 DEF OwnAccess
    <2>7. AccessByMembership'
      BY <1>1, <2>1, <2>3 DEF AccessByMembership
    <2>8. IsFiniteSet(members)'
      BY <2>1, FS_AddElement
    <2>9. u \notin groups
      BY <1>5 DEF OwnersStay, MayJoin, IsMember
    <2>10. ASSUME NEW g \in groups'
           PROVE  Cardinality(MembersOf(g)') + Cardinality(PendingOf(invitations', g)) <= MemberLimit
      <3>1. PendingOf(invitations', g) = PendingOf(invitations, g)
        BY <1>1 DEF PendingOf
      <3>2. CASE g \in groups
        <4>1. Cardinality(MembersOf(g)') = Cardinality(MembersOf(g))
          BY <2>1, <2>2, <2>3, <2>9, <3>2, SeatTaken
        <4> QED
          BY <3>1, <3>2, <4>1 DEF SeatsReserved
      <3>3. CASE g = u
        <4>1. MembersOf(g) = {} /\ PendingOf(invitations, g) = {}
          BY <2>9, <3>3, NoGroup
        <4>2. Cardinality(MembersOf(g)') = Cardinality(MembersOf(g)) + 1
          BY <2>1, <2>2, <2>3, <3>3, SeatTaken
        <4> QED
          BY <3>1, <4>1, <4>2, FS_EmptySet, LimitAssumption
      <3> QED
        BY <2>1, <3>2, <3>3
    <2>11. SeatsReserved'
      BY <2>10 DEF SeatsReserved
    <2> QED
      BY <1>3, <2>4, <2>5, <2>6, <2>7, <2>8, <2>11
  <1> QED
    BY <1>4, <1>5

(* Whoever accepts takes the seat the invitation held.                     *)
LEMMA JoinStep ==
    ASSUME IInv, NEW c \in Clients, CommitAccept(c)
    PROVE  IInv'
  <1> USE DEF IInv
  <1> DEFINE i == procs[c].invitation
             g == invitations[i].group
             u == invitations[i].user
             m == [group |-> g, user |-> u, by |-> i]
  <1>1. /\ i \in DOMAIN invitations /\ Open(i) /\ procs[c].locks = AcceptLocks(i)
        /\ Become(c, Idle) /\ UNCHANGED <<subscribed, groups, blocked>>
    BY DEF RequestsKnow, Known, Idle, Creating, Revoking, Accepting, Leaving, CommitAccept
  <1>2. CASE ~(MayJoin(u) /\ Cardinality(MembersOf(g)) < MemberLimit /\ Entitled(u, g))
    <2>1. UNCHANGED <<invitations, members, accounts>>
      BY <1>2 DEF CommitAccept
    <2>2. RequestsKnow' /\ LocksApart'
      BY <1>1, <2>1, NothingSettled, LastStep
    <2> QED
      BY <1>1, <2>1, <2>2 DEF TypeOK, OwnersStay, OwnAccess, SeatsReserved, AccessByMembership,
                              MembersOf, PendingOf
  <1>3. CASE MayJoin(u) /\ Cardinality(MembersOf(g)) < MemberLimit /\ Entitled(u, g)
    <2>1. /\ Settle(i, "accepted") /\ members' = members \cup {m}
          /\ accounts' = [accounts EXCEPT ![u] = [on |-> g, status |-> "active"]]
      BY <1>3 DEF CommitAccept, Projected
    <2>2. "accepted" \in Statuses \ {"pending", "lapsed"}
      BY DEF Statuses
    <2>3. invitations[i] \in Invitation
      BY <1>1, Table
    <2>4. g \in groups /\ u \in Users /\ m.user = u /\ m.group = g /\ m \in Row /\ g \in subscribed
      BY <1>1, <2>3 DEF Invitation, Row, TypeOK
    <2>5. m \notin members /\ \A n, k \in members' : n.user = k.user => n = k
      BY <1>3, <2>1, <2>4, Joined
    <2>6. /\ \A v \in Users : v # u => accounts'[v] = accounts[v]
          /\ accounts'[u] = [on |-> g, status |-> "active"]
          /\ accounts' \in [Users -> [on : subscribed, status : {"active", "disabled"}]
                              \cup {[on |-> None, status |-> "none"]}]
      BY <2>1, <2>4 DEF TypeOK
    <2>7. invitations' \in Seq(Invitation) /\ Len(invitations') = Len(invitations)
      BY <1>1, <2>1, <2>2, Settled
    <2>8. TypeOK'
      BY <1>1, <2>1, <2>4, <2>6, <2>7 DEF TypeOK, Row, Invitation, Statuses
    <2>9. OwnersStay'
      BY <1>1, <2>1, <2>2, Settled DEF OwnersStay
    <2>10. OwnAccess'
      <3>1. u \in subscribed => g = u
        BY <1>3, <2>4, NoneAssumption DEF OwnAccess, Entitled
      <3> QED
        BY <1>1, <2>4, <2>6, <3>1 DEF OwnAccess, TypeOK
    <2>11. AccessByMembership'
      <3>1. ASSUME NEW v \in Users, accounts'[v].status = "active", accounts'[v].on # v
            PROVE  \E n \in members' : n.user = v /\ n.group = accounts'[v].on
        <4>1. CASE v = u
          BY <2>1, <2>4, <2>6, <4>1
        <4>2. CASE v # u
          <5>1. accounts'[v] = accounts[v]
            BY <2>6, <4>2
          <5>2. accounts[v].status = "active" /\ accounts[v].on # v /\ AccessByMembership
            BY <3>1, <5>1
          <5> QED
            BY <2>1, <5>1, <5>2 DEF AccessByMembership
        <4> QED
          BY <4>1, <4>2
      <3> QED
        BY <2>5, <3>1 DEF AccessByMembership
    <2>12. ASSUME NEW h \in groups'
           PROVE  Cardinality(MembersOf(h)') + Cardinality(PendingOf(invitations', h)) <= MemberLimit
      <3>1. h \in groups /\ Cardinality(MembersOf(h)) + Cardinality(PendingOf(invitations, h)) <= MemberLimit
        BY <1>1 DEF SeatsReserved
      <3>2. Cardinality(MembersOf(h)') =
              IF h = g THEN Cardinality(MembersOf(h)) + 1 ELSE Cardinality(MembersOf(h))
        BY <2>1, <2>4, <2>5, SeatTaken
      <3>3. Cardinality(PendingOf(invitations', h)) =
              IF h = g THEN Cardinality(PendingOf(invitations, h)) - 1
                       ELSE Cardinality(PendingOf(invitations, h))
        BY <1>1, <2>1, <2>2, <3>1, SeatGivenBack
      <3>4. Cardinality(MembersOf(h)) \in Nat /\ Cardinality(PendingOf(invitations, h)) \in Nat
        BY Table, PendingIsFinite, MembersAreFinite
      <3> QED
        BY <3>1, <3>2, <3>3, <3>4
    <2>13. SeatsReserved' /\ IsFiniteSet(members)'
      BY <2>1, <2>12, FS_AddElement DEF SeatsReserved
    <2>14. ASSUME NEW d \in Clients \ {c} PROVE Respected(d)
      <3>1. InvitationRow(i) \notin procs[d].locks
        BY <1>1 DEF LocksApart, AcceptLocks
      <3>2. \A j \in DOMAIN invitations : j # i => invitations'[j] = invitations[j]
        BY <1>1, <2>1, <2>2, Settled
      <3> QED
        BY <3>1, <3>2 DEF Respected, Open
    <2>15. RequestsKnow' /\ LocksApart'
      <3>1. invitations' \in Seq(Invitation') /\ Len(invitations) <= Len(invitations')
        BY <1>1, <2>7 DEF Invitation, TypeOK
      <3> QED
        BY <1>1, <2>14, <3>1, LastStep
    <2> QED
      BY <2>8, <2>9, <2>10, <2>11, <2>13, <2>15
  <1> QED
    BY <1>2, <1>3

(* A new invitation takes a seat, after lapsed ones gave back theirs.      *)
LEMMA InviteStep ==
    ASSUME IInv, NEW g \in Users, NEW u \in Users, NEW how \in {"id", "email"}, Invite(g, u, how)
    PROVE  IInv'
  <1> USE DEF IInv
  <1> DEFINE settled == ExpirePending(g)
             new == [group |-> g, user |-> u, how |-> how, status |-> "pending"]
             n == Len(invitations)
  <1>1. /\ g \in groups /\ u # g /\ SeatsTaken(settled, g) < MemberLimit
        /\ invitations' = Append(settled, new)
        /\ UNCHANGED <<subscribed, groups, members, accounts, blocked, procs>>
        /\ \A i \in DOMAIN invitations :
             invitations[i].group = g /\ invitations[i].status = "lapsed" => Free({InvitationRow(i)})
    BY DEF Invite
  <1>2. /\ n \in Nat /\ DOMAIN invitations = 1 .. n
        /\ \A i \in DOMAIN invitations : invitations[i] \in Invitation
    BY Table
  <1>3. /\ settled \in Seq(Invitation) /\ Len(settled) = n /\ DOMAIN settled = 1 .. n
        /\ \A i \in 1 .. n :
             /\ settled[i].group = invitations[i].group /\ settled[i].user = invitations[i].user
             /\ settled[i] # invitations[i] =>
                  /\ invitations[i].group = g /\ invitations[i].status = "lapsed"
                  /\ settled[i].status = "expired"
    <2>1. \A i \in 1 .. n :
             /\ settled[i] \in Invitation
             /\ settled[i].group = invitations[i].group /\ settled[i].user = invitations[i].user
             /\ settled[i] # invitations[i] =>
                  /\ invitations[i].group = g /\ invitations[i].status = "lapsed"
                  /\ settled[i].status = "expired"
      BY <1>2 DEF ExpirePending, Invitation, Statuses
    <2>2. settled = [i \in 1 .. n |-> settled[i]]
      BY <1>2 DEF ExpirePending
    <2> HIDE DEF settled
    <2> QED
      BY <1>2, <2>1, <2>2
  <1>4. new \in Invitation /\ new.group = g /\ new.user = u /\ new.status = "pending"
    BY <1>1 DEF Invitation, Statuses
  <1> HIDE DEF settled, new
  <1>5. /\ invitations' \in Seq(Invitation) /\ Len(invitations') = n + 1
        /\ DOMAIN invitations' = 1 .. n + 1 /\ invitations'[n + 1] = new
        /\ \A i \in 1 .. n : invitations'[i] = settled[i]
    BY <1>1, <1>2, <1>3, <1>4
  <1>6. TypeOK'
    BY <1>1, <1>2, <1>5 DEF TypeOK, Invitation, Statuses
  <1>7. OwnersStay'
    <2>1. ASSUME NEW i \in DOMAIN invitations' PROVE invitations'[i].user # invitations'[i].group
      <3>1. CASE i = n + 1
        BY <1>1, <1>4, <1>5, <3>1
      <3>2. CASE i \in 1 .. n
        BY <1>2, <1>3, <1>5, <3>2 DEF OwnersStay
      <3> QED
        BY <1>2, <1>5, <3>1, <3>2
    <2> QED
      BY <1>1, <2>1 DEF OwnersStay
  <1>8. IsFiniteSet(members)' /\ OwnAccess' /\ AccessByMembership'
    BY <1>1 DEF OwnAccess, AccessByMembership
  <1>9. ASSUME NEW h \in groups'
        PROVE  Cardinality(MembersOf(h)') + Cardinality(PendingOf(invitations', h)) <= MemberLimit
    <2>1. MembersOf(h)' = MembersOf(h) /\ h \in groups
      BY <1>1 DEF MembersOf
    <2>2. Cardinality(MembersOf(h)) \in Nat /\ Cardinality(PendingOf(settled, h)) \in Nat
          /\ IsFiniteSet(PendingOf(settled, h))
      BY <1>3, MembersAreFinite, PendingIsFinite
    <2>3. CASE h = g
      <3>1. PendingOf(invitations', g) = PendingOf(settled, g) \cup {n + 1}
        BY <1>2, <1>3, <1>4, <1>5 DEF PendingOf
      <3>2. n + 1 \notin PendingOf(settled, g)
        BY <1>2, <1>3 DEF PendingOf
      <3>3. Cardinality(PendingOf(invitations', g)) = Cardinality(PendingOf(settled, g)) + 1
        BY <2>2, <2>3, <3>1, <3>2, FS_AddElement
      <3> QED
        BY <1>1, <2>1, <2>2, <2>3, <3>3, LimitAssumption DEF SeatsTaken
    <2>4. CASE h # g
      <3>1. PendingOf(invitations', h) = PendingOf(invitations, h)
        <4>1. \A i \in 1 .. n : invitations[i].group = h => settled[i] = invitations[i]
          BY <1>3, <2>4
        <4> QED
          BY <1>2, <1>3, <1>4, <1>5, <2>4, <4>1 DEF PendingOf
      <3> QED
        BY <2>1, <3>1 DEF SeatsReserved
    <2> QED
      BY <2>3, <2>4
  <1>10. SeatsReserved'
    BY <1>9 DEF SeatsReserved
  <1>11. ASSUME NEW d \in Clients, NEW i \in DOMAIN invitations, InvitationRow(i) \in procs[d].locks
         PROVE  invitations'[i].user = invitations[i].user /\ (Open(i) => Open(i)')
    <2>1. invitations[i].group = g => invitations[i].status # "lapsed"
      BY <1>1, <1>11 DEF Free
    <2>2. invitations'[i] = invitations[i]
      BY <1>2, <1>3, <1>5, <2>1
    <2> QED
      BY <2>2 DEF Open
  <1>12. RequestsKnow' /\ LocksApart'
    <2>1. invitations' \in Seq(Invitation') /\ Len(invitations) <= Len(invitations')
      BY <1>1, <1>2, <1>5 DEF Invitation
    <2>2. \A d \in Clients : Respected(d)
      BY <1>11 DEF Respected
    <2> QED
      BY <1>1, <2>1, <2>2, NobodysStep
  <1> QED
    BY <1>6, <1>7, <1>8, <1>10, <1>12

(* A request that has not locked an invitation does not mind its being     *)
(* settled, and none minds its lapsing.                                    *)
LEMMA SettlingRespects ==
    ASSUME TypeOK, NEW i \in DOMAIN invitations, NEW status \in Statuses, Settle(i, status),
           UNCHANGED groups, NEW C \in SUBSET Clients,
           status = "lapsed" \/ \A d \in C : InvitationRow(i) \notin procs[d].locks
    PROVE  /\ invitations' \in Seq(Invitation') /\ Len(invitations) <= Len(invitations')
           /\ \A d \in C : Respected(d)
  <1>1. Len(invitations) \in Nat
    BY Table
  <1>2. invitations' \in Seq(Invitation') /\ Len(invitations) <= Len(invitations')
    <2>1. Invitation' = Invitation
      BY DEF Invitation
    <2>2. invitations' \in Seq(Invitation) /\ Len(invitations') = Len(invitations)
      BY Settled
    <2> QED
      BY <1>1, <2>1, <2>2
  <1>3. ASSUME NEW d \in C PROVE Respected(d)
    <2>1. ASSUME NEW j \in DOMAIN invitations, InvitationRow(j) \in procs[d].locks
          PROVE  invitations'[j].user = invitations[j].user /\ (Open(j) => Open(j)')
      <3>1. CASE j # i
        BY <3>1, Settled DEF Open
      <3>2. CASE j = i
        <4>1. status = "lapsed"
          BY <2>1, <3>2
        <4> QED
          BY <3>2, <4>1, Settled DEF Open
      <3> QED
        BY <3>1, <3>2
    <2> QED
      BY <2>1 DEF Respected
  <1> QED
    BY <1>2, <1>3

(* Locks that are free are held by nobody.                                 *)
LEMMA FreeRow ==
    ASSUME NEW x, Free({x})
    PROVE  \A d \in Clients : x \notin procs[d].locks
  BY DEF Free

(* Every step of a request keeps the invariant.                            *)
LEMMA RequestKeeps ==
    ASSUME IInv, NEW c \in Clients, Request(c)
    PROVE  IInv'
  <1> USE DEF IInv
  <1>1. ASSUME NEW u \in Users, CreateGroup(c, u) PROVE IInv'
    <2> DEFINE state == [phase |-> "creating", locks |-> {CreateKey(u)}, user |-> u]
    <2>1. Become(c, state) /\ Free(state.locks) /\ UNCHANGED <<subscribed, rows, accounts, blocked>>
          /\ u \in subscribed
      BY <1>1 DEF CreateGroup
    <2>2. procs'[c] = state
      BY <2>1 DEF Become, RequestsKnow
    <2>3. Known(c)'
      BY <2>1, <2>2 DEF Known, Creating, CreateKey
    <2> QED
      BY <2>1, <2>3, RequestStep
  <1>2. ASSUME NEW g \in Users, RevokeInvitation(c, g) PROVE IInv'
    <2> DEFINE state == [phase |-> "revoking", locks |-> {GroupRow(g)}, group |-> g]
    <2>1. Become(c, state) /\ Free(state.locks) /\ UNCHANGED <<subscribed, rows, accounts, blocked>>
          /\ g \in groups
      BY <1>2 DEF RevokeInvitation
    <2>2. procs'[c] = state
      BY <2>1 DEF Become, RequestsKnow
    <2>3. Known(c)'
      BY <2>1, <2>2 DEF Known, Revoking, GroupRow, rows
    <2> QED
      BY <2>1, <2>3, RequestStep
  <1>3. ASSUME NEW i \in DOMAIN invitations, Accept(c, i) PROVE IInv'
    <2> DEFINE state == [phase |-> "accepting", locks |-> AcceptLocks(i), invitation |-> i]
    <2>1. Become(c, state) /\ Free(state.locks) /\ UNCHANGED <<subscribed, rows, accounts, blocked>>
          /\ Open(i)
      BY <1>3 DEF Accept, Open
    <2>2. procs'[c] = state
      BY <2>1 DEF Become, RequestsKnow
    <2>3. UNCHANGED invitations
      BY <2>1 DEF rows
    <2>4. Known(c)'
      BY <2>1, <2>2, <2>3 DEF Known, Accepting, AcceptLocks, AcceptKey, InvitationRow, Open
    <2> QED
      BY <2>1, <2>4, RequestStep
  <1>4. ASSUME NEW i \in DOMAIN invitations, CommitRevocation(c, i) PROVE IInv'
    <2>1. /\ Free({InvitationRow(i)}) /\ Open(i) /\ Settle(i, "revoked") /\ Become(c, Idle)
          /\ UNCHANGED <<subscribed, groups, members, accounts, blocked>>
      BY <1>4 DEF CommitRevocation, PendingOf, Open
    <2>2. "revoked" \in Statuses \ {"pending"}
      BY DEF Statuses
    <2>3. RequestsKnow' /\ LocksApart'
      BY <2>1, <2>2, FreeRow, SettlingRespects, LastStep
    <2> QED
      BY <2>1, <2>2, <2>3, SettleStep
  <1>5. ASSUME NEW m \in members, Leave(c, m) PROVE IInv'
    <2> DEFINE state == [phase |-> "leaving", locks |-> {MemberKey(m.user)}, member |-> m]
    <2>1. Become(c, state) /\ Free(state.locks) /\ UNCHANGED <<subscribed, rows, accounts, blocked>>
          /\ m.user # m.group
      BY <1>5 DEF Leave
    <2>2. procs'[c] = state
      BY <2>1 DEF Become, RequestsKnow
    <2>3. m \in Row'
      BY <2>1 DEF TypeOK, Row, rows
    <2>4. Known(c)'
      BY <2>1, <2>2, <2>3 DEF Known, Leaving, MemberKey
    <2> QED
      BY <2>1, <2>4, RequestStep
  <1>6. ASSUME CommitLeave(c) PROVE IInv'
    <2> DEFINE m == procs[c].member
    <2>1. /\ m \in Row /\ m.user # m.group /\ Deactivate(m) /\ Become(c, Idle)
          /\ UNCHANGED <<subscribed, groups, invitations, blocked>>
      BY <1>6 DEF CommitLeave, RequestsKnow, Known, Idle, Creating, Revoking, Accepting, Leaving
    <2>2. RequestsKnow' /\ LocksApart'
      BY <2>1, NothingSettled, LastStep
    <2> QED
      BY <2>1, <2>2, DeactivateStep
  <1>7. ASSUME Abort(c) PROVE IInv'
    <2>1. procs'[c] = Idle
      BY <1>7 DEF Abort, Become, RequestsKnow
    <2>2. Known(c)'
      BY <2>1 DEF Known, Idle
    <2> QED
      BY <1>7, <2>2, IdleIsFree, RequestStep DEF Abort
  <1> QED
    BY <1>1, <1>2, <1>3, <1>4, <1>5, <1>6, <1>7, FoundStep, JoinStep DEF Request

(* So does every other step.                                               *)
LEMMA InvNext == IInv /\ [Next]_vars => IInv'
  <1> SUFFICES ASSUME IInv, [Next]_vars PROVE IInv'
    OBVIOUS
  <1> USE DEF IInv
  <1>1. ASSUME NEW c \in Clients, Request(c) PROVE IInv'
    BY <1>1, RequestKeeps
  <1>2. ASSUME NEW u \in Users, Subscribe(u) \/ BlockUser(u) \/ UnblockUser(u) PROVE IInv'
    BY <1>2, SubscribeStep, BlockStep, UnblockStep
  <1>3. ASSUME NEW g \in Users, NEW u \in Users, NEW how \in {"id", "email"}, Invite(g, u, how)
        PROVE  IInv'
    BY <1>3, InviteStep
  <1>4. ASSUME NEW i \in DOMAIN invitations, Decline(i) PROVE IInv'
    <2>1. /\ Free({InvitationRow(i)}) /\ Open(i) /\ Settle(i, "declined")
          /\ UNCHANGED <<subscribed, groups, members, accounts, blocked, procs>>
      BY <1>4 DEF Decline, PendingOf, Open
    <2>2. "declined" \in Statuses \ {"pending"}
      BY DEF Statuses
    <2>3. RequestsKnow' /\ LocksApart'
      BY <2>1, <2>2, FreeRow, SettlingRespects, NobodysStep
    <2> QED
      BY <2>1, <2>2, <2>3, SettleStep
  <1>5. ASSUME NEW i \in DOMAIN invitations, Lapse(i) PROVE IInv'
    <2>1. /\ Open(i) /\ Settle(i, "lapsed")
          /\ UNCHANGED <<subscribed, groups, members, accounts, blocked, procs>>
      BY <1>5 DEF Lapse, Open
    <2>2. "lapsed" \in Statuses \ {"pending"}
      BY DEF Statuses
    <2>3. RequestsKnow' /\ LocksApart'
      BY <2>1, <2>2, SettlingRespects, NobodysStep
    <2> QED
      BY <2>1, <2>2, <2>3, SettleStep
  <1>6. ASSUME NEW m \in members, RemoveMember(m) \/ RemoveFamilyMember(m) PROVE IInv'
    <2>1. m \in Row
      BY DEF TypeOK, Row
    <2>2. /\ m.user # m.group /\ Deactivate(m)
          /\ UNCHANGED <<subscribed, groups, invitations, blocked, procs>>
      BY <1>6 DEF RemoveMember, RemoveFamilyMember, Deactivate
    <2>3. RequestsKnow' /\ LocksApart'
      BY <2>2, NothingSettled, NobodysStep
    <2> QED
      BY <2>1, <2>2, <2>3, DeactivateStep
  <1>7. CASE UNCHANGED vars
    <2>1. RequestsKnow' /\ LocksApart'
      BY <1>7, NothingSettled, NobodysStep DEF vars, rows
    <2> QED
      BY <1>7, <2>1 DEF vars, rows, TypeOK, OwnersStay, OwnAccess, SeatsReserved,
                        AccessByMembership, MembersOf, PendingOf
  <1> QED
    BY <1>1, <1>2, <1>3, <1>4, <1>5, <1>6, <1>7 DEF Next

-----------------------------------------------------------------------------
(* Theorems *)

(* The invariant holds of every behaviour of the family groups.            *)
THEOREM Invariant == Spec => []IInv
  BY InvInit, InvNext, PTL DEF Spec

(* The tables of the families and the accounts keep their types.           *)
THEOREM TypeCorrect == Spec => []TypeOK
  <1>1. IInv => TypeOK
    BY DEF IInv
  <1> QED
    BY <1>1, Invariant, PTL

(* invite counts the seats of members and of open invitations, accept      *)
(* turns one into the other: a group never promises more seats than the    *)
(* plan has, so an invitation once sent always finds its seat.             *)
THEOREM SeatsAlwaysReserved == Spec => []SeatsReserved
  <1>1. IInv => SeatsReserved
    BY DEF IInv
  <1> QED
    BY <1>1, Invariant, PTL

(* Through joining, leaving, removal, purchases, blocking and unblocking   *)
(* in any order: access to another's subscription goes with membership.    *)
THEOREM AccessAlwaysByMembership == Spec => []AccessByMembership
  <1>1. IInv => AccessByMembership
    BY DEF IInv
  <1> QED
    BY <1>1, Invariant, PTL

(* An invitation that was settled while a request was accepting it would   *)
(* have been changed under that request's lock.                            *)
LEMMA SettlesOnceStep ==
    ASSUME IInv, [Next]_vars
    PROVE  /\ \A i \in DOMAIN invitations :
                invitations[i].status \notin {"pending", "lapsed"} => invitations'[i] = invitations[i]
           /\ \A m \in members' \ members :
                m.by # 0 => invitations[m.by].status \in {"pending", "lapsed"}
  <1> USE DEF IInv
  <1> DEFINE Goal ==
        /\ \A i \in DOMAIN invitations :
             invitations[i].status \notin {"pending", "lapsed"} => invitations'[i] = invitations[i]
        /\ \A m \in members' \ members :
             m.by # 0 => invitations[m.by].status \in {"pending", "lapsed"}
  <1> SUFFICES Goal
    OBVIOUS
  <1>1. ASSUME UNCHANGED invitations, members' \subseteq members PROVE Goal
    BY <1>1
  <1>2. ASSUME NEW i \in DOMAIN invitations, Open(i), NEW status \in Statuses, Settle(i, status),
               \A m \in members' \ members : m.by = i
        PROVE  Goal
    BY <1>2, Settled DEF Open
  <1>3. {"revoked", "declined", "accepted", "lapsed"} \subseteq Statuses
    BY DEF Statuses
  <1>4. ASSUME NEW c \in Clients, CommitAccept(c) PROVE Goal
    <2> DEFINE i == procs[c].invitation
    <2>1. i \in DOMAIN invitations /\ Open(i)
      BY <1>4 DEF CommitAccept, RequestsKnow, Known, Idle, Creating, Revoking, Accepting, Leaving
    <2>2. \/ UNCHANGED <<invitations, members>>
          \/ Settle(i, "accepted") /\ \A m \in members' \ members : m.by = i
      BY <1>4 DEF CommitAccept
    <2> QED
      BY <1>1, <1>2, <1>3, <2>1, <2>2
  <1>5. ASSUME NEW c \in Clients, CommitGroup(c) PROVE Goal
    <2>1. UNCHANGED invitations /\ \A m \in members' \ members : m.by = 0
      BY <1>5 DEF CommitGroup
    <2> QED
      BY <2>1
  <1>6. ASSUME NEW c \in Clients, NEW i \in DOMAIN invitations, CommitRevocation(c, i) PROVE Goal
    BY <1>2, <1>3, <1>6 DEF CommitRevocation, PendingOf, Open
  <1>7. ASSUME NEW i \in DOMAIN invitations, Decline(i) \/ Lapse(i) PROVE Goal
    BY <1>2, <1>3, <1>7 DEF Decline, Lapse, PendingOf, Open
  <1>8. ASSUME NEW g \in Users, NEW u \in Users, NEW how \in {"id", "email"}, Invite(g, u, how)
        PROVE  Goal
    <2> DEFINE settled == ExpirePending(g)
               new == [group |-> g, user |-> u, how |-> how, status |-> "pending"]
    <2>1. invitations' = Append(settled, new) /\ UNCHANGED members
      BY <1>8 DEF Invite
    <2>2. /\ DOMAIN invitations = 1 .. Len(invitations) /\ Len(invitations) \in Nat
          /\ \A i \in DOMAIN invitations : invitations[i] \in Invitation
      BY Table
    <2>3. /\ settled \in Seq(Invitation) /\ Len(settled) = Len(invitations)
          /\ \A i \in DOMAIN invitations :
               invitations[i].status # "lapsed" => settled[i] = invitations[i]
      <3>1. \A i \in DOMAIN invitations :
              /\ settled[i] \in Invitation
              /\ invitations[i].status # "lapsed" => settled[i] = invitations[i]
        BY <2>2 DEF ExpirePending, Invitation, Statuses
      <3>2. settled = [i \in 1 .. Len(invitations) |-> settled[i]]
        BY <2>2 DEF ExpirePending
      <3> HIDE DEF settled
      <3> QED
        BY <2>2, <3>1, <3>2
    <2> HIDE DEF settled, new
    <2>4. \A i \in DOMAIN invitations : invitations'[i] = settled[i]
      BY <2>1, <2>2, <2>3
    <2> QED
      BY <2>1, <2>3, <2>4
  <1>9. CASE UNCHANGED <<invitations, members>>
    BY <1>1, <1>9
  <1>10. ASSUME NEW m, Deactivate(m), UNCHANGED invitations PROVE Goal
    BY <1>1, <1>10 DEF Deactivate
  <1>11. ASSUME NEW c \in Clients, Request(c) PROVE Goal
    BY <1>4, <1>5, <1>6, <1>9, <1>10, <1>11
       DEF Request, CreateGroup, RevokeInvitation, Accept, Leave, CommitLeave, Abort, rows
  <1> QED
    BY <1>7, <1>8, <1>9, <1>10, <1>11
       DEF Next, Subscribe, BlockUser, UnblockUser, RemoveMember, RemoveFamilyMember, Deactivate,
           vars, rows

(* An invitation is used, declined, revoked or expired once, and brings in *)
(* one member at most.                                                     *)
THEOREM AlwaysSettleOnce == Spec => InvitationsSettleOnce
  <1>1. IInv /\ [Next]_vars =>
          [/\ \A i \in DOMAIN invitations :
                invitations[i].status \notin {"pending", "lapsed"} => invitations'[i] = invitations[i]
           /\ \A m \in members' \ members :
                m.by # 0 => invitations[m.by].status \in {"pending", "lapsed"}]_vars
    BY SettlesOnceStep
  <1> QED
    BY <1>1, Invariant, PTL DEF Spec, InvitationsSettleOnce

=============================================================================
