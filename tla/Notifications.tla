--------------------------- MODULE Notifications ---------------------------
(***************************************************************************)
(* The outbox of support events and the worker that turns them into        *)
(* Telegram messages (backend/app/modules/bots/notifications.py,           *)
(* workers/telegram_notifications.py).                                     *)
(*                                                                         *)
(* A SQLAlchemy session begins a transaction with its first statement, and *)
(* begin() refuses a session that has one.  So a poll that finds no        *)
(* reminder to queue dies before it claims anything, and the worker dies   *)
(* once it has looked up the chat of a customer, whatever becomes of the   *)
(* message.  What dies changes nothing: PM2 starts the worker again.       *)
(***************************************************************************)
EXTENDS Integers, Sequences, FiniteSets

CONSTANTS Chats,            \* operations_chat_ids
          MaxSubscriptions, \* bound on the subscriptions that come to their end
          MaxLeases         \* bound on the times an event is claimed

ASSUME NotifierAssumption == MaxSubscriptions \in Nat /\ MaxLeases \in Nat

VARIABLES events,   \* outbox_events
          sent,     \* of each event, the operations chats that got it
          expiring, \* subscriptions in the reminder's window, not queued yet
          queued,   \* subscriptions a reminder was queued for
          polling,  \* the worker has queued reminders and claims next
          batch,    \* the events the worker still has to deliver
          reached   \* the oldest of them was sent, its row is not marked

outboxVars == <<events, sent, expiring, queued, polling, batch, reached>>

OutboxInit ==
    /\ events = <<>> /\ sent = <<>> /\ batch = {}
    /\ expiring = 0 /\ queued = 0 /\ polling = FALSE /\ reached = FALSE

Event(type, about) ==
    [type |-> type, about |-> about, published |-> FALSE, leased |-> FALSE, attempts |-> 0]

ToCustomer == {"admin_replied", "expiry_reminder"}
ToOperations == {"created", "user_replied"}

(* A transaction adds events to the outbox. *)
Emit(added) ==
    /\ events' = events \o added
    /\ sent' = sent \o [i \in DOMAIN added |-> {}]

(* A subscription comes to within a day of its end; it is reminded of once.*)
EntersWindow ==
    /\ expiring + queued < MaxSubscriptions
    /\ expiring' = expiring + 1
    /\ UNCHANGED <<events, sent, queued, polling, batch, reached>>

(* enqueue_expiry_reminders *)
QueueReminders ==
    /\ batch = {} /\ ~polling /\ expiring > 0
    /\ Emit([n \in 1..expiring |-> Event("expiry_reminder", 0)])
    /\ expiring' = 0 /\ queued' = queued + expiring
    /\ polling' = TRUE
    /\ UNCHANGED <<batch, reached>>

(* claim *)
Claims == {i \in DOMAIN events : /\ events[i].type \in ToCustomer \cup ToOperations
                                 /\ ~events[i].published /\ ~events[i].leased
                                 /\ events[i].attempts < MaxLeases}

Claim ==
    /\ polling
    /\ events' = [i \in DOMAIN events |->
            IF i \in Claims THEN [events[i] EXCEPT !.leased = TRUE, !.attempts = @ + 1]
            ELSE events[i]]
    /\ batch' = Claims
    /\ polling' = FALSE
    /\ UNCHANGED <<sent, expiring, queued, reached>>

(* Events are delivered in the order they occurred in. *)
Oldest == CHOOSE i \in batch : \A j \in batch : i <= j

(* deliver, of an event for the operators: the chats in turn, until one    *)
(* refuses, and then the event waits out its delay.  The operations bot is *)
(* configured: in production core/config.py (545-563) insists on its token *)
(* and on a chat; without it the event is marked and sent to nobody.       *)
SendToOperations(chats) ==
    LET i == Oldest
    IN  /\ batch # {} /\ ~reached
        /\ events[i].type \in ToOperations
        /\ sent' = [sent EXCEPT ![i] = @ \cup chats]
        /\ IF chats = Chats THEN reached' = TRUE /\ UNCHANGED batch
                            ELSE batch' = batch \ {i} /\ UNCHANGED reached
        /\ UNCHANGED <<events, expiring, queued, polling>>

MarkPublished ==
    /\ reached
    /\ events' = [events EXCEPT ![Oldest].published = TRUE]
    /\ batch' = batch \ {Oldest} /\ reached' = FALSE
    /\ UNCHANGED <<sent, expiring, queued, polling>>

(* deliver, of an event for a customer: the worker dies of begin().        *)
SendToCustomer(chat) ==
    /\ batch # {} /\ ~reached
    /\ events[Oldest].type \in ToCustomer
    /\ sent' = [sent EXCEPT ![Oldest] = @ \cup chat]
    /\ batch' = {}
    /\ UNCHANGED <<events, expiring, queued, polling, reached>>

Die ==
    /\ batch # {} \/ polling
    /\ batch' = {} /\ polling' = FALSE /\ reached' = FALSE
    /\ UNCHANGED <<events, sent, expiring, queued>>

(* available_at passes, while the worker may still be delivering. *)
LeaseExpires(i) ==
    /\ events[i].leased /\ ~events[i].published
    /\ events' = [events EXCEPT ![i].leased = FALSE]
    /\ UNCHANGED <<sent, expiring, queued, polling, batch, reached>>

OutboxNext ==
    \/ EntersWindow \/ QueueReminders \/ Claim \/ MarkPublished \/ Die
    \/ \E chats \in SUBSET Chats : SendToOperations(chats)
    \/ \E chat \in SUBSET {"customer"} : SendToCustomer(chat)
    \/ \E i \in DOMAIN events : LeaseExpires(i)

=============================================================================
