--------------------------- MODULE MCSupportDesk ---------------------------
(* SupportDesk with one ticket, an owner and another operator, and pages   *)
(* with room for all messages but the last.                                *)
EXTENDS SupportDesk, TLC

CONSTANTS p1, p2, k1, chat1, chat2

MCPeople == {p1, p2}
MCKeys == {k1}
MCChats == {chat1, chat2}

MCSymmetry == Permutations(MCChats)

(* The first ticket comes when both are operators, the second by an        *)
(* invitation he accepted or without any; no operator has a page open once *)
(* the notifier has work, which it has once the last message is written    *)
(* and no repeated request is answered from its record any more, and all   *)
(* replies are the second operator's.  The parts cut off do not depend on  *)
(* each other: the notifier reads neither tickets nor authors.             *)
MCApart ==
    /\ tickets # <<>> => /\ inviting = {} /\ Len(invitations) < 2
                         /\ \A i \in DOMAIN invitations : invitations[i].accepted
                         /\ access = [p \in People |-> IF p = p1 THEN "super_admin" ELSE "staff"]
    /\ expiring + queued > 0 => /\ Len(messages) = MaxMessages /\ records = {}
                               /\ \A p \in People : pages[p] = Null
                               /\ \A t \in DOMAIN tickets :
                                    tickets[t] = [status |-> "in_progress", version |-> MaxMessages, assignee |-> p2]
                               /\ \A i \in DOMAIN messages : messages[i].by # p1

=============================================================================
