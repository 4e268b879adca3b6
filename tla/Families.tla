------------------------------ MODULE Families ------------------------------
(***************************************************************************)
(* Family groups: invitations, seats and the access members have through   *)
(* the owner's subscription (backend/app/modules/families, and the family  *)
(* and blocking operations of modules/admin/service.py).                   *)
(*                                                                         *)
(* A group is named by its owner, and so is the subscription it shares: a  *)
(* user owns one of each.  A transaction that takes the lock of the group  *)
(* first is one step.  accept, leave, create_group and the revocation of   *)
(* an invitation read or lock something before they wait for what decides, *)
(* and are two.  Advisory locks are named by what they serialize.          *)
(***************************************************************************)
EXTENDS Integers, Sequences, FiniteSets

CONSTANTS Clients,         \* requests that may be at work at once
          Users,
          MemberLimit,     \* plan_versions.family_member_limit
          MaxInvitations,  \* bound on the invitations ever sent
          None

ASSUME LimitAssumption == MemberLimit \in Nat \ {0, 1} /\ MaxInvitations \in Nat
ASSUME NoneAssumption == None \notin Users

VARIABLES subscribed,   \* owners of a live family subscription
          groups,       \* owners of a family group
          members,      \* family_members rows that are not left
          invitations,  \* family_invitations; "lapsed" is pending past expires_at
          accounts,     \* vpn_accounts: the subscription and the desired status
          blocked,      \* blocked users
          procs         \* state of each request

rows == <<groups, members, invitations>>
vars == <<subscribed, groups, members, invitations, accounts, blocked, procs>>

Idle == [phase |-> "idle", locks |-> {}]

Init ==
    /\ subscribed = {} /\ groups = {} /\ members = {} /\ blocked = {}
    /\ invitations = <<>>
    /\ accounts = [u \in Users |-> [on |-> None, status |-> "none"]]
    /\ procs = [c \in Clients |-> Idle]

-----------------------------------------------------------------------------
(* Locks and queries *)

GroupRow(g) == <<"group", g>>
InvitationRow(i) == <<"invitation", i>>
MemberKey(u) == <<"family:member", u>>
CreateKey(u) == <<"family:create", u>>
AcceptKey(u) == <<"family:accept", u>>

Free(locks) == \A c \in Clients : procs[c].locks \cap locks = {}
Ready(c) == procs[c].phase = "idle"
Become(c, state) == procs' = [procs EXCEPT ![c] = state]

MembersOf(g) == {m \in members : m.group = g}
IsMember(u) == \E m \in members : m.user = u

(* pending_invitation_count *)
PendingOf(table, g) ==
    {i \in DOMAIN table : table[i].group = g /\ table[i].status \in {"pending", "lapsed"}}

(* expire_pending_invitations *)
ExpirePending(g) ==
    [i \in DOMAIN invitations |->
        IF invitations[i].group = g /\ invitations[i].status = "lapsed"
        THEN [invitations[i] EXCEPT !.status = "expired"] ELSE invitations[i]]

(* Mutant: invitations that are not accepted yet hold no seat. *)
SeatsOfMembers(table, g) == Cardinality(MembersOf(g))

SeatsTaken(table, g) == Cardinality(MembersOf(g)) + Cardinality(PendingOf(table, g))

Settle(i, status) == invitations' = [invitations EXCEPT ![i].status = status]

-----------------------------------------------------------------------------
(* The owner *)

(* A purchase, a trial or a grant puts the buyer's account on the buyer's  *)
(* own subscription.                                                       *)
Subscribe(u) ==
    /\ subscribed' = subscribed \cup {u}
    /\ accounts' = [accounts EXCEPT ![u] = [on |-> u, status |-> "active"]]
    /\ UNCHANGED <<rows, blocked, procs>>

(* create_group looks for memberships ... *)
CreateGroup(c, u) ==
    /\ Ready(c) /\ Free({CreateKey(u)})
    /\ u \in subscribed \ groups /\ ~IsMember(u)
    /\ Become(c, [phase |-> "creating", locks |-> {CreateKey(u)}, user |-> u])
    /\ UNCHANGED <<subscribed, rows, accounts, blocked>>

(* uq_family_members_one_active_group *)
MayJoin(u) == ~IsMember(u)

(* ... and is rolled back if its user has joined one meanwhile.            *)
CommitGroup(c) ==
    LET u == procs[c].user
    IN  /\ procs[c].phase = "creating"
        /\ IF MayJoin(u)
           THEN /\ groups' = groups \cup {u}
                /\ members' = members \cup {[group |-> u, user |-> u, by |-> 0]}
           ELSE UNCHANGED <<groups, members>>
        /\ Become(c, Idle)
        /\ UNCHANGED <<subscribed, invitations, accounts, blocked>>

(* invite, by user id or by e-mail: the duplicate it looks for is one of   *)
(* the same kind.  Lapsed invitations are settled first, once whoever is   *)
(* accepting one is done.                                                  *)
Invite(g, u, how) ==
    LET settled == ExpirePending(g)
    IN  /\ g \in groups /\ Len(invitations) < MaxInvitations
        /\ Free({GroupRow(g)})
        /\ \A i \in DOMAIN invitations :
             invitations[i].group = g /\ invitations[i].status = "lapsed" => Free({InvitationRow(i)})
        /\ u # g /\ ~IsMember(u)
        /\ how = "id" => u \notin blocked
        /\ SeatsTaken(settled, g) < MemberLimit
        /\ ~\E i \in PendingOf(settled, g) : settled[i].user = u /\ settled[i].how = how
        /\ invitations' = Append(settled, [group |-> g, user |-> u, how |-> how, status |-> "pending"])
        /\ UNCHANGED <<subscribed, groups, members, accounts, blocked, procs>>

(* revoke_invitation, of the owner or of an administrator: the group is    *)
(* locked, then the invitation is waited for.  accept takes the two in the *)
(* opposite order; the database ends the deadlock by aborting one.         *)
RevokeInvitation(c, g) ==
    /\ Ready(c) /\ g \in groups /\ Free({GroupRow(g)})
    /\ Become(c, [phase |-> "revoking", locks |-> {GroupRow(g)}, group |-> g])
    /\ UNCHANGED <<subscribed, rows, accounts, blocked>>

CommitRevocation(c, i) ==
    /\ procs[c].phase = "revoking"
    /\ Free({InvitationRow(i)})
    /\ i \in PendingOf(invitations, procs[c].group)
    /\ Settle(i, "revoked")
    /\ Become(c, Idle)
    /\ UNCHANGED <<subscribed, groups, members, accounts, blocked>>

-----------------------------------------------------------------------------
(* The invited *)

(* Mutant: invitation_by_token without FOR UPDATE. *)
AcceptLocksUnlocked(i) == {AcceptKey(invitations[i].user)}

AcceptLocks(i) == {AcceptKey(invitations[i].user), InvitationRow(i)}

Accept(c, i) ==
    /\ Ready(c) /\ Free(AcceptLocks(i))
    /\ invitations[i].status = "pending" /\ invitations[i].user \notin blocked
    /\ Become(c, [phase |-> "accepting", locks |-> AcceptLocks(i), invitation |-> i])
    /\ UNCHANGED <<subscribed, rows, accounts, blocked>>

(* A live account of another subscription stands in the way. *)
Entitled(u, g) == accounts[u].on \in {None, g}

(* _project_member_entitlement: the account, made if there is none, is to  *)
(* be active on the subscription of the group.                             *)
Projected(u, g) == [accounts EXCEPT ![u] = [on |-> g, status |-> "active"]]

CommitAccept(c) ==
    LET i == procs[c].invitation
        g == invitations[i].group
        u == invitations[i].user
    IN  /\ procs[c].phase = "accepting"
        /\ Free({GroupRow(g)})
        /\ IF MayJoin(u) /\ Cardinality(MembersOf(g)) < MemberLimit /\ Entitled(u, g)
           THEN /\ Settle(i, "accepted")
                /\ members' = members \cup {[group |-> g, user |-> u, by |-> i]}
                /\ accounts' = Projected(u, g)
           ELSE UNCHANGED <<invitations, members, accounts>>
        /\ Become(c, Idle)
        /\ UNCHANGED <<subscribed, groups, blocked>>

(* decline asks neither for the deadline nor for the group. *)
Decline(i) ==
    /\ Free({InvitationRow(i)})
    /\ i \in PendingOf(invitations, invitations[i].group)
    /\ Settle(i, "declined")
    /\ UNCHANGED <<subscribed, groups, members, accounts, blocked, procs>>

(* The clock passes expires_at. *)
Lapse(i) ==
    /\ invitations[i].status = "pending"
    /\ Settle(i, "lapsed")
    /\ UNCHANGED <<subscribed, groups, members, accounts, blocked, procs>>

-----------------------------------------------------------------------------
(* Going *)

Disabled(u, g) ==
    IF accounts[u].on = g THEN [accounts EXCEPT ![u].status = "disabled"] ELSE accounts

(* Mutant: the membership ends and the account is forgotten. *)
DeactivateRowOnly(m) ==
    /\ members' = members \ {m}
    /\ UNCHANGED accounts

(* _deactivate_member *)
Deactivate(m) ==
    /\ members' = members \ {m}
    /\ accounts' = Disabled(m.user, m.group)

(* leave reads the membership before it waits for the group: by then it    *)
(* may be one that an administrator has ended.                             *)
Leave(c, m) ==
    /\ Ready(c) /\ Free({MemberKey(m.user)})
    /\ m.user # m.group /\ m.user \notin blocked
    /\ Become(c, [phase |-> "leaving", locks |-> {MemberKey(m.user)}, member |-> m])
    /\ UNCHANGED <<subscribed, rows, accounts, blocked>>

CommitLeave(c) ==
    LET m == procs[c].member
    IN  /\ procs[c].phase = "leaving"
        /\ Free({GroupRow(m.group)})
        /\ Deactivate(m)
        /\ Become(c, Idle)
        /\ UNCHANGED <<subscribed, groups, invitations, blocked>>

(* remove_member of the owner waits for a leave of the member.             *)
RemoveMember(m) ==
    /\ m.user # m.group
    /\ Free({GroupRow(m.group), MemberKey(m.user)})
    /\ Deactivate(m)
    /\ UNCHANGED <<subscribed, groups, invitations, blocked, procs>>

-----------------------------------------------------------------------------
(* Administrators and the database *)

(* An administrator's remove_family_member locks the group and the rows it *)
(* ends: it does not wait for a leave that is only waiting for the group.  *)
RemoveFamilyMember(m) ==
    /\ m.user # m.group
    /\ Free({GroupRow(m.group)})
    /\ members' = members \ {m}
    /\ accounts' = Disabled(m.user, m.group)
    /\ UNCHANGED <<subscribed, groups, invitations, blocked, procs>>

(* Mutant: whether there is an account is not looked at. *)
BlockUserAnyAccount(u) ==
    /\ u \notin blocked
    /\ blocked' = blocked \cup {u}
    /\ accounts' = [accounts EXCEPT ![u].status = "disabled"]
    /\ UNCHANGED <<subscribed, rows, procs>>

(* block_user; the blocked user's requests end when its session is asked   *)
(* for, which those at work are past.                                      *)
BlockUser(u) ==
    /\ u \notin blocked
    /\ blocked' = blocked \cup {u}
    /\ accounts' = IF accounts[u].on = None THEN accounts
                   ELSE [accounts EXCEPT ![u].status = "disabled"]
    /\ UNCHANGED <<subscribed, rows, procs>>

(* unblock_user asks for a subscription of the user's own: a member stays  *)
(* disabled.                                                               *)
UnblockUser(u) ==
    /\ u \in blocked
    /\ blocked' = blocked \ {u}
    /\ accounts' = IF u \in subscribed /\ accounts[u].on # None
                   THEN [accounts EXCEPT ![u].status = "active"] ELSE accounts
    /\ UNCHANGED <<subscribed, rows, procs>>

(* A request dies or is the victim of a deadlock. *)
Abort(c) ==
    /\ ~Ready(c)
    /\ Become(c, Idle)
    /\ UNCHANGED <<subscribed, rows, accounts, blocked>>

-----------------------------------------------------------------------------
Request(c) ==
    \/ \E u \in Users : CreateGroup(c, u) \/ RevokeInvitation(c, u)
    \/ \E i \in DOMAIN invitations : Accept(c, i) \/ CommitRevocation(c, i)
    \/ \E m \in members : Leave(c, m)
    \/ CommitGroup(c) \/ CommitAccept(c) \/ CommitLeave(c) \/ Abort(c)

Next ==
    \/ \E c \in Clients : Request(c)
    \/ \E u \in Users : Subscribe(u) \/ BlockUser(u) \/ UnblockUser(u)
    \/ \E g, u \in Users, how \in {"id", "email"} : Invite(g, u, how)
    \/ \E i \in DOMAIN invitations : Decline(i) \/ Lapse(i)
    \/ \E m \in members : RemoveMember(m) \/ RemoveFamilyMember(m)

Spec == Init /\ [][Next]_vars

-----------------------------------------------------------------------------
(* Properties *)

TypeOK ==
    /\ subscribed \subseteq Users /\ groups \subseteq subscribed /\ blocked \subseteq Users
    /\ members \subseteq [group : groups, user : Users, by : 0 .. Len(invitations)]
    /\ invitations \in Seq([group : groups, user : Users, how : {"id", "email"},
                            status : {"pending", "lapsed", "accepted", "declined", "revoked",
                                      "expired"}])
    /\ accounts \in [Users -> [on : subscribed, status : {"active", "disabled"}]
                              \cup {[on |-> None, status |-> "none"]}]

(* Whoever invites, accepts, declines, revokes, leaves or is removed at    *)
(* the same time: the members of a group and the invitations that may      *)
(* still bring one in never exceed its seats, so that an invitation once   *)
(* sent always finds its seat.                                             *)
SeatsReserved ==
    \A g \in groups :
        Cardinality(MembersOf(g)) + Cardinality(PendingOf(invitations, g)) <= MemberLimit

(* A user is in one family at most, and has access through somebody else's *)
(* subscription only as a member of that family: neither leaving, removal, *)
(* a purchase of one's own, blocking and unblocking, nor two of them at    *)
(* once leave an account active behind.                                    *)
AccessByMembership ==
    /\ \A m, n \in members : m.user = n.user => m = n
    /\ \A u \in Users :
         accounts[u].status = "active" /\ accounts[u].on # u =>
            \E m \in members : m.user = u /\ m.group = accounts[u].on

(* An invitation that was declined, revoked, expired or used stays that    *)
(* way: a request that was accepting it meanwhile lets nobody in, and an   *)
(* invitation brings in one member once.                                   *)
InvitationsSettleOnce ==
    [][/\ \A i \in DOMAIN invitations :
            invitations[i].status \notin {"pending", "lapsed"} => invitations'[i] = invitations[i]
       /\ \A m \in members' \ members : m.by # 0 => invitations[m.by].status \in {"pending", "lapsed"}
      ]_vars

=============================================================================
