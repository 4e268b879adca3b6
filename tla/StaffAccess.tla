---------------------------- MODULE StaffAccess ----------------------------
(***************************************************************************)
(* Who may work as an operator: invitations by e-mail, their acceptance    *)
(* and the access they give (backend/app/modules/staff).                   *)
(*                                                                         *)
(* A person's e-mail address names the person.  Roles below super_admin    *)
(* are one role, "staff"; permissions come with the role.                  *)
(***************************************************************************)
EXTENDS Integers, Sequences, FiniteSets

CONSTANTS People, Owner, MaxStaffInvitations

ASSUME StaffAssumption == Owner \in People /\ MaxStaffInvitations \in Nat

VARIABLES access,      \* the role of each person
          invitations, \* staff_invitations
          inviting     \* invitations about to be inserted: to whom, replacing which

staffVars == <<access, invitations, inviting>>

StaffInit ==
    /\ access = [p \in People |-> IF p = Owner THEN "super_admin" ELSE "none"]
    /\ invitations = <<>>
    /\ inviting = {}

Open(i) == ~invitations[i].accepted /\ ~invitations[i].revoked

MayManageStaff == \E p \in People : access[p] = "super_admin"

(* invite revokes what it finds open: of two that overlap, neither finds   *)
(* the other.                                                              *)
Invite(p) ==
    /\ MayManageStaff
    /\ Len(invitations) + Cardinality(inviting) < MaxStaffInvitations
    /\ inviting' = inviting \cup {[to |-> p, after |-> Len(invitations),
                                   id |-> Len(invitations) + Cardinality(inviting)]}
    /\ UNCHANGED <<access, invitations>>

(* The e-mail is sent once the row is committed; "failed" is the answer of *)
(* the mail service, whether or not the message arrived.                   *)
CommitInvite(request, mail) ==
    LET replaced == [i \in DOMAIN invitations |->
            IF i <= request.after /\ invitations[i].to = request.to /\ Open(i)
            THEN [invitations[i] EXCEPT !.revoked = TRUE] ELSE invitations[i]]
    IN  /\ request \in inviting
        /\ inviting' = inviting \ {request}
        /\ invitations' = Append(replaced,
                [to |-> request.to, accepted |-> FALSE, revoked |-> FALSE, mail |-> mail])
        /\ UNCHANGED access

(* The second transaction of invite, after a failure; the CHECK on the two *)
(* dates refuses it for an invitation that was accepted.                   *)
WithdrawUnsent(i) ==
    /\ invitations[i].mail = "failed" /\ ~invitations[i].accepted
    /\ invitations' = [invitations EXCEPT ![i].mail = "sent", ![i].revoked = TRUE]
    /\ UNCHANGED <<access, inviting>>

(* accept: _replace_access deletes every staff role the person had.        *)
AcceptInvitation(i) ==
    /\ Open(i)
    /\ access' = [access EXCEPT ![invitations[i].to] = "staff"]
    /\ invitations' = [invitations EXCEPT ![i].accepted = TRUE]
    /\ UNCHANGED inviting

RevokeInvitation(i) ==
    /\ MayManageStaff /\ Open(i)
    /\ invitations' = [invitations EXCEPT ![i].revoked = TRUE]
    /\ UNCHANGED <<access, inviting>>

(* update, which needs at least one role: it takes access from nobody.     *)
UpdateAccess(p) ==
    /\ MayManageStaff /\ access[p] = "none"
    /\ access' = [access EXCEPT ![p] = "staff"]
    /\ UNCHANGED <<invitations, inviting>>

StaffNext ==
    \/ \E p \in People : Invite(p) \/ UpdateAccess(p)
    \/ \E request \in inviting, mail \in {"sent", "failed"} : CommitInvite(request, mail)
    \/ \E i \in DOMAIN invitations :
         WithdrawUnsent(i) \/ AcceptInvitation(i) \/ RevokeInvitation(i)

=============================================================================
