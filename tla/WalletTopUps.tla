---------------------------- MODULE WalletTopUps ----------------------------
(***************************************************************************)
(* Wallet top-ups through the Platega payment provider                     *)
(* (backend/app/modules/billing/service.py: create_top_up and              *)
(* process_platega_callback).                                              *)
(*                                                                         *)
(* A create_top_up request runs as two database transactions with an HTTP  *)
(* call to the provider between them, so it is a process with phases; the  *)
(* request may be cancelled or its server may die in any of them.  Each    *)
(* request creates at most one wallet_top_ups row and at most one provider *)
(* transaction: both are named by the request.  Callbacks are delivered    *)
(* from a set of messages that is never emptied, which is how the model    *)
(* says they may be repeated, delayed and reordered.  A callback handler   *)
(* runs in one database transaction under the row's lock and is one        *)
(* action; where it raises, the transaction rolls back, the state is       *)
(* unchanged and the provider keeps the message for another attempt.       *)
(***************************************************************************)
EXTENDS Ledger

CONSTANTS Users,       \* wallet owners
          Keys,        \* values of the Idempotency-Key header
          Requests,    \* create_top_up requests
          Amounts,     \* amount_minor, currency and method: what must match
          None         \* SQL NULL

ASSUME NoneAssumption == None \notin Requests
ASSUME AmountsAssumption == Amounts \subseteq Nat \ {0}

VARIABLES phase,      \* request -> where the request is
          topUps,     \* request -> the wallet_top_ups row it inserted
          checkouts,  \* request -> the provider's transaction (external)
          callbacks,  \* every webhook call the provider has ever sent
          ledger      \* posted transactions

vars == <<phase, topUps, checkouts, callbacks, ledger>>

-----------------------------------------------------------------------------
(* Types *)

Phases == {"idle", "creating", "issued", "failing", "answered", "refused", "lost"}

(* The CHECK on wallet_top_ups.status. *)
Statuses == {"creating", "pending", "confirmed", "cancelled", "failed",
             "expired", "chargebacked"}

TopUp == [user : Users, key : Keys, amount : Amounts, status : Statuses,
          provider : Requests \cup {None},
          confirmedAt : BOOLEAN, cancelledAt : BOOLEAN]

NoRow == [status |-> "absent"]

(* Mutant: casefold without the spelling correction. *)
ClosedAsSent == [CANCELED |-> "canceled", EXPIRED |-> "expired", FAILED |-> "failed"]

(* The unpaid outcomes of a Platega transaction and the status each one is *)
(* stored as.                                                              *)
ClosedAs == [CANCELED |-> "cancelled", EXPIRED |-> "expired", FAILED |-> "failed"]

CallbackMessage ==
    [id : Requests, amount : Amounts,
     status : DOMAIN ClosedAs \cup {"CONFIRMED", "CHARGEBACKED"}]

CreditKey(i) == <<"platega-top-up", i>>
ReversalKey(i) == <<"platega-chargeback", i>>

Transactions ==
    {Entry(CreditKey(i), u, "payment_credit", a, "cash_clearing", None) :
        i \in Requests, u \in Users, a \in Amounts}
    \cup
    {Entry(ReversalKey(i), u, "reversal", -a, "cash_clearing", CreditKey(i)) :
        i \in Requests, u \in Users, a \in Amounts}

TypeOK ==
    /\ phase \in [Requests -> Phases]
    /\ topUps \in [Requests -> TopUp \cup {NoRow}]
    /\ checkouts \in [Requests -> {"none", "open", "paid", "disputed"}]
    /\ callbacks \subseteq CallbackMessage
    /\ ledger \subseteq Transactions

Inserted == {i \in Requests : topUps[i] # NoRow}

(* Row constraints of migration 20260828_0005; a transaction that would    *)
(* leave a row breaking one of them is rolled back.                        *)
RowCheck(r) ==
    /\ (r.status = "confirmed") <=> r.confirmedAt
    /\ (r.status \in {"cancelled", "chargebacked"}) <=> r.cancelledAt

Init ==
    /\ phase = [i \in Requests |-> "idle"]
    /\ topUps = [i \in Requests |-> NoRow]
    /\ checkouts = [i \in Requests |-> "none"]
    /\ callbacks = {}
    /\ ledger = {}

-----------------------------------------------------------------------------
(* create_top_up *)

(* Mutant: a failed or stuck row lets the key be used again. *)
SameKeyOpen(u, k) ==
    {j \in Inserted : topUps[j].user = u /\ topUps[j].key = k
                        /\ topUps[j].status \notin {"creating", "failed"}}

SameKey(u, k) == {j \in Inserted : topUps[j].user = u /\ topUps[j].key = k}

(* First transaction, no earlier request with the key: the row is inserted *)
(* and committed before the provider is called.  The advisory lock on the  *)
(* scoped key makes the lookup and the insert atomic.                      *)
Insert(i, u, k, a) ==
    /\ phase[i] = "idle"
    /\ SameKey(u, k) = {}
    /\ topUps' = [topUps EXCEPT ![i] =
                    [user |-> u, key |-> k, amount |-> a, status |-> "creating",
                     provider |-> None, confirmedAt |-> FALSE, cancelledAt |-> FALSE]]
    /\ phase' = [phase EXCEPT ![i] = "creating"]
    /\ UNCHANGED <<checkouts, callbacks, ledger>>

(* First transaction, repeated key: the stored row is the answer whatever  *)
(* its status, or 409 when the terms differ.                               *)
Replay(i, u, k, a) ==
    /\ phase[i] = "idle"
    /\ \E j \in SameKey(u, k) :
        phase' = [phase EXCEPT ![i] =
                    IF topUps[j].amount = a THEN "answered" ELSE "refused"]
    /\ UNCHANGED <<topUps, checkouts, callbacks, ledger>>

(* The provider opened a transaction and its answer arrived.               *)
CheckoutIssued(i) ==
    /\ phase[i] = "creating"
    /\ checkouts' = [checkouts EXCEPT ![i] = "open"]
    /\ phase' = [phase EXCEPT ![i] = "issued"]
    /\ UNCHANGED <<topUps, callbacks, ledger>>

(* create_checkout raised: either the provider has nothing, or it opened a *)
(* transaction whose answer timed out or could not be read.                *)
CheckoutFailed(i) ==
    /\ phase[i] = "creating"
    /\ checkouts' \in {checkouts, [checkouts EXCEPT ![i] = "open"]}
    /\ phase' = [phase EXCEPT ![i] = "failing"]
    /\ UNCHANGED <<topUps, callbacks, ledger>>

(* The except branch: a second transaction marks the row.                  *)
SaveFailure(i) ==
    /\ phase[i] = "failing"
    /\ topUps' = IF topUps[i].status = "creating"
                 THEN [topUps EXCEPT ![i].status = "failed"] ELSE topUps
    /\ phase' = [phase EXCEPT ![i] = "refused"]
    /\ UNCHANGED <<checkouts, callbacks, ledger>>

(* The second transaction of the successful path: only now can a callback  *)
(* find the row, and only now does the customer see the checkout URL.      *)
SaveCheckout(i) ==
    /\ phase[i] = "issued"
    /\ topUps' = [topUps EXCEPT ![i].provider = i, ![i].status = "pending"]
    /\ phase' = [phase EXCEPT ![i] = "answered"]
    /\ UNCHANGED <<checkouts, callbacks, ledger>>

(* The server dies or the request is cancelled between two transactions:   *)
(* `except Exception` does not run, the row keeps the status "creating".   *)
Abandon(i) ==
    /\ phase[i] \in {"creating", "issued", "failing"}
    /\ phase' = [phase EXCEPT ![i] = "lost"]
    /\ UNCHANGED <<topUps, checkouts, callbacks, ledger>>

-----------------------------------------------------------------------------
(* The provider and the customer at its payment page (external)            *)

Send(i, a, s) == callbacks' = callbacks \cup {[id |-> i, amount |-> a, status |-> s]}

(* An unpaid outcome is not always the last word: a late payment may still *)
(* be confirmed afterwards.                                                *)
ReportUnpaid(i, s) ==
    /\ checkouts[i] = "open"
    /\ Send(i, topUps[i].amount, s)
    /\ UNCHANGED <<phase, topUps, checkouts, ledger>>

(* The customer pays, through the URL the second transaction stored; the   *)
(* amount confirmed may differ from the amount asked for.                  *)
Pay(i, a) ==
    /\ checkouts[i] = "open"
    /\ topUps[i].provider = i
    /\ checkouts' = [checkouts EXCEPT ![i] = "paid"]
    /\ Send(i, a, "CONFIRMED")
    /\ UNCHANGED <<phase, topUps, ledger>>

Dispute(i, a) ==
    /\ checkouts[i] = "paid"
    /\ [id |-> i, amount |-> a, status |-> "CONFIRMED"] \in callbacks
    /\ checkouts' = [checkouts EXCEPT ![i] = "disputed"]
    /\ Send(i, a, "CHARGEBACKED")
    /\ UNCHANGED <<phase, topUps, ledger>>

-----------------------------------------------------------------------------
(* process_platega_callback *)

(* Mutant: the confirmed amount is not compared. *)
AcceptsAnyAmount(m, i) == i \in Inserted /\ topUps[i].provider = m.id /\ i = m.id

(* The row is found by the provider's id, the payment details agree, and   *)
(* the payload names the row (create_checkout sends the top-up's own id).  *)
Accepts(m, i) ==
    /\ i \in Inserted
    /\ topUps[i].provider = m.id
    /\ topUps[i].amount = m.amount
    /\ i = m.id

(* The rows written by the handler, and the commit that checks them.       *)
Store(i, row) ==
    /\ RowCheck(row)
    /\ topUps' = [topUps EXCEPT ![i] = row]
    /\ UNCHANGED <<phase, checkouts, callbacks>>

(* Mutant: a charged-back row may be confirmed again. *)
ConfirmAgain(i) ==
    /\ \E m \in callbacks : m.status = "CONFIRMED" /\ Accepts(m, i)
    /\ topUps[i].status # "confirmed"
    /\ ledger' = Post(ledger, Entry(CreditKey(i), topUps[i].user, "payment_credit",
                                    topUps[i].amount, "cash_clearing", None))
    /\ Store(i, [topUps[i] EXCEPT !.status = "confirmed", !.confirmedAt = TRUE,
                                  !.cancelledAt = FALSE])

(* _confirm_top_up; a confirmed row is acknowledged without a change and a *)
(* charged-back one answers 409.                                           *)
Confirm(i) ==
    /\ \E m \in callbacks : m.status = "CONFIRMED" /\ Accepts(m, i)
    /\ topUps[i].status \notin {"confirmed", "chargebacked"}
    /\ ledger' = Post(ledger, Entry(CreditKey(i), topUps[i].user, "payment_credit",
                                    topUps[i].amount, "cash_clearing", None))
    /\ Store(i, [topUps[i] EXCEPT !.status = "confirmed", !.confirmedAt = TRUE,
                                  !.cancelledAt = FALSE])

(* Mutant: an unpaid outcome overrides any status. *)
CloseAlways(i) ==
    /\ \E m \in callbacks :
        /\ m.status \in DOMAIN ClosedAs
        /\ Accepts(m, i)
        /\ Store(i, [topUps[i] EXCEPT
                        !.status = ClosedAs[m.status], !.confirmedAt = FALSE,
                        !.cancelledAt = ClosedAs[m.status] = "cancelled"])
    /\ UNCHANGED ledger

(* CANCELED, EXPIRED and FAILED.  cancelled_at is set and never cleared    *)
(* here, so EXPIRED or FAILED after CANCELED fails the row's CHECK.        *)
Close(i) ==
    /\ \E m \in callbacks :
        /\ m.status \in DOMAIN ClosedAs
        /\ Accepts(m, i)
        /\ topUps[i].status \notin {"confirmed", "chargebacked"}
        /\ Store(i, [topUps[i] EXCEPT
                        !.status = ClosedAs[m.status],
                        !.cancelledAt = @ \/ ClosedAs[m.status] = "cancelled"])
    /\ UNCHANGED ledger

(* Mutant: the reversal repeats the credit's sign. *)
ChargeBackSameSign(i) ==
    /\ \E m \in callbacks : m.status = "CHARGEBACKED" /\ Accepts(m, i)
    /\ topUps[i].status # "chargebacked"
    /\ IsPosted(ledger, CreditKey(i))
    /\ ledger' = Post(ledger, [ByKey(ledger, CreditKey(i)) EXCEPT
                                 !.key = ReversalKey(i), !.type = "reversal"])
    /\ Store(i, [topUps[i] EXCEPT !.status = "chargebacked", !.confirmedAt = FALSE,
                                  !.cancelledAt = TRUE])

(* Mutant: a chargeback that overtakes its confirmation closes the row. *)
ChargeBackEarly(i) ==
    /\ \E m \in callbacks : m.status = "CHARGEBACKED" /\ Accepts(m, i)
    /\ topUps[i].status \notin {"confirmed", "chargebacked"}
    /\ UNCHANGED ledger
    /\ Store(i, [topUps[i] EXCEPT !.status = "chargebacked", !.cancelledAt = TRUE])

(* _chargeback_top_up: needs the posted credit, posts its negation.        *)
ChargeBack(i) ==
    /\ \E m \in callbacks : m.status = "CHARGEBACKED" /\ Accepts(m, i)
    /\ topUps[i].status # "chargebacked"
    /\ IsPosted(ledger, CreditKey(i))
    /\ LET credit == ByKey(ledger, CreditKey(i))
       IN ledger' = Post(ledger, Entry(ReversalKey(i), topUps[i].user, "reversal",
                                       -credit.amount, credit.contra, credit.key))
    /\ Store(i, [topUps[i] EXCEPT !.status = "chargebacked", !.confirmedAt = FALSE,
                                  !.cancelledAt = TRUE])

-----------------------------------------------------------------------------
Request(i) ==
    \/ \E u \in Users, k \in Keys, a \in Amounts : Insert(i, u, k, a) \/ Replay(i, u, k, a)
    \/ CheckoutIssued(i) \/ CheckoutFailed(i)
    \/ SaveFailure(i) \/ SaveCheckout(i)
    \/ Abandon(i)

Provider(i) ==
    \/ \E s \in DOMAIN ClosedAs : ReportUnpaid(i, s)
    \/ \E a \in Amounts : Pay(i, a) \/ Dispute(i, a)

Callback(i) == Confirm(i) \/ Close(i) \/ ChargeBack(i)

Next == \E i \in Requests : Request(i) \/ Provider(i) \/ Callback(i)

(* The provider repeats a callback until it is acknowledged with 200, so a *)
(* CONFIRMED or CHARGEBACKED callback the handler keeps accepting is       *)
(* eventually handled.  Nothing is assumed of customers, of requests or of *)
(* the order in which different callbacks arrive.                          *)
Redelivery == \A i \in Requests : WF_vars(Confirm(i)) /\ WF_vars(ChargeBack(i))

Spec == Init /\ [][Next]_vars /\ Redelivery

-----------------------------------------------------------------------------
(* Properties *)

Credited == {i \in Requests : IsPosted(ledger, CreditKey(i))}
Reversed == {i \in Requests : IsPosted(ledger, ReversalKey(i))}
Settled == {"confirmed", "chargebacked"}

(* The status a customer reads and the money in the ledger always agree,   *)
(* whatever order the provider's callbacks arrive in: a credit exists      *)
(* exactly for confirmed and charged-back rows, its reversal exactly for   *)
(* charged-back ones.                                                      *)
StatusMatchesLedger ==
    \A i \in Requests :
        /\ i \in Credited <=> topUps[i].status \in Settled
        /\ i \in Reversed <=> topUps[i].status = "chargebacked"

(* No wallet is credited on less than the provider's word: behind every    *)
(* credit is a confirmation of that very amount for a row that was bound   *)
(* to that provider transaction, and the credit belongs to the row's user. *)
CreditIsBacked ==
    \A i \in Requests : \A t \in ledger :
        t.key = CreditKey(i) =>
            /\ topUps[i].provider = i
            /\ t.user = topUps[i].user
            /\ t.amount = topUps[i].amount
            /\ [id |-> i, amount |-> t.amount, status |-> "CONFIRMED"] \in callbacks

(* A customer who repeats a request after a timeout or a crash never opens *)
(* a second payable checkout for the same idempotency key.                 *)
OneCheckoutPerKey ==
    \A i, j \in Requests :
        /\ checkouts[i] # "none"
        /\ checkouts[j] # "none"
        /\ topUps[i].user = topUps[j].user
        /\ topUps[i].key = topUps[j].key
        => i = j

(* A wallet holds exactly the top-ups that read "confirmed": wallet_balance *)
(* recomputed from entries equals the sum over the customer's list.        *)
BalanceIsConfirmedTopUps ==
    \A u \in Users :
        WalletBalance(ledger, u) =
            MapThenSumSet(LAMBDA i : topUps[i].amount,
                {i \in Inserted : topUps[i].user = u /\ topUps[i].status = "confirmed"})

(* Once money has moved, a late or repeated callback may only take the row *)
(* from confirmed to charged back, never back to unpaid or to confirmed.   *)
SettledOnlyChargesBack ==
    [][\A i \in Requests : topUps[i].status \in Settled =>
        \/ topUps'[i].status = topUps[i].status
        \/ topUps[i].status = "confirmed" /\ topUps'[i].status = "chargebacked"]_vars

(* The top-ups implement TopUpPromise, its liveness included: a payment of *)
(* the agreed amount is credited, a chargeback of it is applied, even if   *)
(* the chargeback's callback overtakes the confirmation's.                 *)
Reported(s) ==
    {i \in Inserted : [id |-> i, amount |-> topUps[i].amount, status |-> s] \in callbacks}

Promise ==
    INSTANCE TopUpPromise WITH
        TopUps <- Requests,
        paid <- Reported("CONFIRMED"),
        disputed <- Reported("CHARGEBACKED"),
        credited <- Credited,
        reversed <- Reversed

KeepsPromise == Promise!Spec

=============================================================================
