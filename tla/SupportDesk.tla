---------------------------- MODULE SupportDesk ----------------------------
(***************************************************************************)
(* Support tickets of one customer (backend/app/modules/support), with the *)
(* operators of StaffAccess and the outbox of Notifications.               *)
(*                                                                         *)
(* Every request is one transaction that locks its idempotency key, then   *)
(* its ticket, and reads the ticket under that lock.  What an operator     *)
(* acts on is a page read before.  A message or a ticket is named by the   *)
(* request it comes from, and a repeated request has the same body.        *)
(***************************************************************************)
EXTENDS StaffAccess, Notifications

CONSTANTS Customer,
          Keys,        \* idempotency keys
          MessageLimit, \* settings.initial_message_limit
          MaxMessages, \* bound on the messages of all tickets
          MaxTickets,  \* bound on the tickets
          MaxVersion,  \* bound on a version an update adds no message to
          Null

ASSUME DeskAssumption ==
    /\ {MaxMessages, MaxTickets, MaxVersion} \subseteq Nat /\ Customer \notin People
    /\ MessageLimit \in Nat \ {0}

VARIABLES tickets,
          messages, \* ticket_messages
          records,  \* idempotency_records that are not expired
          expired,  \* messages whose idempotency record has expired
          pages     \* what each operator has on the screen

deskVars == <<tickets, messages, records, expired, pages>>
supportVars == <<staffVars, outboxVars, deskVars>>

Statuses == {"open", "in_progress", "waiting_user", "closed"}
Operators == {p \in People : access[p] # "none"}

DeskInit ==
    /\ StaffInit /\ OutboxInit
    /\ tickets = <<>> /\ messages = <<>>
    /\ records = {} /\ expired = {}
    /\ pages = [p \in People |-> Null]

-----------------------------------------------------------------------------
(* Messages *)

Scope(ticket, by, key) == <<ticket, by, key>>

(* Mutant: the record is looked up and ignored. *)
AnsweredNever(ticket, by, key) == FALSE

(* _idempotent_resource: the request is answered with what it made before. *)
Answered(ticket, by, key) == \E r \in records : r.scope = Scope(ticket, by, key)

Record(ticket, by, key) ==
    records' = records \cup {[scope |-> Scope(ticket, by, key), message |-> Len(messages) + 1]}

MessageOf(ticket, by, type, scope) ==
    [ticket |-> ticket, by |-> by, type |-> type, scope |-> scope]

(* _set_status *)
MayBecome(from, to) == from = to \/ from # "closed" \/ to = "open"

CreateTicket(key) ==
    /\ Len(tickets) < MaxTickets /\ Len(messages) < MaxMessages
    /\ ~Answered(0, Customer, key)
    /\ tickets' = Append(tickets, [status |-> "open", assignee |-> Null, version |-> 1])
    /\ messages' =
        Append(messages, MessageOf(Len(tickets) + 1, Customer, "message", Scope(0, Customer, key)))
    /\ Record(0, Customer, key)
    /\ Emit(<<Event("created", Len(messages) + 1)>>)
    /\ UNCHANGED <<expired, pages>>

(* Mutant: an internal note leaves the version alone. *)
NextVersionOfPublic(version, type) == IF type = "internal_note" THEN version ELSE version + 1

NextVersion(version, type) == version + 1

(* _send_message *)
Send(t, by, type, status, key) ==
    LET ticket == tickets[t]
    IN  /\ Len(messages) < MaxMessages
        /\ ~Answered(t, by, key)
        /\ ticket.status # "closed" \/ type = "internal_note"
        /\ MayBecome(ticket.status, status)
        /\ tickets' = [tickets EXCEPT ![t] =
                [status |-> status, version |-> NextVersion(ticket.version, type),
                 assignee |-> IF by # Customer /\ ticket.assignee = Null THEN by
                              ELSE ticket.assignee]]
        /\ messages' = Append(messages, MessageOf(t, by, type, Scope(t, by, key)))
        /\ Record(t, by, key)
        /\ Emit(IF type = "internal_note" THEN <<>>
                ELSE <<Event(IF by = Customer THEN "user_replied" ELSE "admin_replied",
                             Len(messages) + 1)>>)
        /\ UNCHANGED <<expired, pages>>

(* send_user_message *)
UserReplies(t, key) ==
    Send(t, Customer, "message",
         IF tickets[t].status = "waiting_user" THEN "open" ELSE tickets[t].status, key)

(* admin_reply *)
OperatorReplies(t, p, status, key) ==
    /\ status \in {"in_progress", "waiting_user", "closed"}
    /\ Send(t, p, "message", status, key)

OperatorNotes(t, p, key) == Send(t, p, "internal_note", tickets[t].status, key)

RecordExpires(r) ==
    /\ records' = records \ {r}
    /\ expired' = expired \cup {r.message}
    /\ UNCHANGED <<tickets, messages, pages, outboxVars>>

-----------------------------------------------------------------------------
(* The operator's page *)

CountOf(t) == Cardinality({i \in DOMAIN messages : messages[i].ticket = t})

(* A page has the oldest messages of its ticket, up to the limit. *)
Shown(t) == IF CountOf(t) < MessageLimit THEN CountOf(t) ELSE MessageLimit

(* admin_ticket reads the ticket, then its messages. *)
ReadTicket(p, t) ==
    /\ pages' = [pages EXCEPT ![p] = [of |-> t, ticket |-> tickets[t], count |-> -1]]
    /\ UNCHANGED <<tickets, messages, records, expired, outboxVars>>

ReadMessages(p) ==
    /\ pages[p] # Null
    /\ pages[p].count = -1
    /\ pages' = [pages EXCEPT ![p].count = Shown(pages[p].of)]
    /\ UNCHANGED <<tickets, messages, records, expired, outboxVars>>

(* update_ticket, of the version on the page; a change of the status is a  *)
(* message of its own.                                                     *)
UpdateTicket(p, status, assignee) ==
    LET t == pages[p].of
        ticket == tickets[t]
    IN  /\ pages[p] # Null /\ pages[p].count # -1
        /\ pages[p].ticket.version = ticket.version
        /\ Len(messages) < MaxMessages
        /\ status = ticket.status => ticket.version < MaxVersion
        /\ MayBecome(ticket.status, status)
        /\ assignee \in Operators \cup {Null, ticket.assignee}
        /\ <<status, assignee>> # <<ticket.status, ticket.assignee>>
        /\ tickets' = [tickets EXCEPT ![t] =
                [status |-> status, assignee |-> assignee, version |-> ticket.version + 1]]
        /\ messages' = IF status = ticket.status THEN messages
                       ELSE Append(messages, MessageOf(t, Null, "system", Null))
        /\ Emit(<<Event("updated", 0)>>)
        /\ pages' = [pages EXCEPT ![p] = Null]
        /\ UNCHANGED <<records, expired>>

-----------------------------------------------------------------------------
outboxRest == <<expiring, queued, polling, batch, reached>>

Requests ==
    \/ \E key \in Keys : CreateTicket(key)
    \/ \E t \in DOMAIN tickets, key \in Keys : UserReplies(t, key)
    \/ \E t \in DOMAIN tickets, key \in Keys, p \in Operators :
         OperatorNotes(t, p, key) \/ \E status \in Statuses : OperatorReplies(t, p, status, key)
    \/ \E p \in Operators, status \in Statuses, assignee \in People \cup {Null} :
         UpdateTicket(p, status, assignee)

DeskNext ==
    \/ Requests /\ UNCHANGED <<staffVars, outboxRest>>
    \/ /\ \/ \E r \in records : RecordExpires(r)
          \/ \E p \in Operators : ReadMessages(p) \/ \E t \in DOMAIN tickets : ReadTicket(p, t)
       /\ UNCHANGED staffVars
    \/ StaffNext /\ UNCHANGED <<outboxVars, deskVars>>
    \/ OutboxNext /\ UNCHANGED <<staffVars, deskVars>>

DeskSpec == DeskInit /\ [][DeskNext]_supportVars

-----------------------------------------------------------------------------
(* Properties *)

Public(i) == messages[i].type = "message"

(* A repeated request makes no second message while its record lives, each *)
(* message the customer may see has one event and no internal note has     *)
(* any, and an event is marked published once every operations chat has it *)
(* (support/service.py _send_message, create_ticket; notifications.py      *)
(* deliver).                                                               *)
ConversationAddsUp ==
    /\ \A i, j \in DOMAIN messages :
         i < j /\ messages[i].scope # Null /\ messages[i].scope = messages[j].scope => i \in expired
    /\ \A i \in DOMAIN messages :
         Cardinality({e \in DOMAIN events : events[e].about = i}) = IF Public(i) THEN 1 ELSE 0
    /\ \A e \in DOMAIN events : events[e].published => sent[e] = Chats

(* A page with the version of its ticket shows what it would show if it    *)
(* were read now: the ticket as it is, and as many of its messages.  No    *)
(* update overwrites the decision of another operator, nor is made in      *)
(* ignorance of a message or a note that the page has room for; what comes *)
(* after the first MessageLimit messages no page shows, whatever its       *)
(* version (support/service.py admin_ticket, update_ticket).               *)
VersionsTellChanges ==
    \A p \in People :
        pages[p] # Null =>
            LET page == pages[p]
            IN  page.ticket.version = tickets[page.of].version =>
                    /\ page.ticket = tickets[page.of]
                    /\ page.count \in {-1, Shown(page.of)}

=============================================================================
