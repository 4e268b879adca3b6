-------------------------- MODULE WalletPurchases ---------------------------
(***************************************************************************)
(* Paying for a subscription from the wallet: purchases by the customer,   *)
(* automatic renewals by the billing workers, the auto-renew switch        *)
(* (backend/app/modules/billing/service.py: purchase, update_auto_renew,   *)
(* due_renewals, record_renewal_failure; workers/billing_renewals.py).     *)
(*                                                                         *)
(* One customer: the ledger lock, the live subscription and the billing    *)
(* setting are all per user.  A purchase captures the time, waits for the  *)
(* ledger's advisory lock, checks, and commits; between the checks and the *)
(* commit the lock and the subscription's row lock are held, which keeps   *)
(* other purchases and the auto-renew switch out, but not chargebacks,     *)
(* plan changes or the recording of a failed renewal.  A transaction that  *)
(* fails or is cut off leaves no trace.                                    *)
(*                                                                         *)
(* Money enters and leaves the wallet as TopUpPromise allows, which        *)
(* WalletTopUps implements: each top-up is credited at most once and       *)
(* reversed at most once, after its credit.                                *)
(***************************************************************************)
EXTENDS Ledger

CONSTANTS User,
          Requests,   \* purchase requests
          KeysOf,     \* request -> values its Idempotency-Key header may have
          Workers,    \* renewal workers
          Prices,     \* plan_prices rows
          Amount,     \* price -> amount_minor
          Days,       \* price -> duration_days
          Version,    \* price -> its plan version
          TopUps,     \* top-ups the customer may be credited with
          Value,      \* top-up -> amount_minor
          Retry,      \* renewal_retry_seconds, in the clock's unit
          MaxTime,    \* bound on the clock
          MaxCrashes, \* bound on the crashes
          None

ASSUME PricesAssumption ==
    /\ Amount \in [Prices -> Nat \ {0}]
    /\ Days \in [Prices -> Nat \ {0}]
ASSUME ValueAssumption == Value \in [TopUps -> Nat \ {0}]
ASSUME KeysAssumption == DOMAIN KeysOf = Requests
ASSUME ProcessesAssumption == Requests \cap Workers = {} /\ None \notin Requests \cup Workers
ASSUME BoundsAssumption == Retry \in Nat \ {0} /\ MaxTime \in Nat /\ MaxCrashes \in Nat

VARIABLES now,           \* the clock, in the unit of Days
          active,        \* prices active_price accepts
          ledger,
          lock,          \* holder of the ledger's advisory lock
          subscription,  \* the live subscription, or None
          periods,       \* subscription_periods
          setting,       \* subscription_billing_settings, or None
          desiredExpiresAt, \* of the VPN account, or None without one
          commands,      \* vpn_sync_commands billing has enqueued
          procs,         \* state of each request and each worker
          crashes        \* how many processes died (bounds the model only)

vars == <<now, active, ledger, lock, subscription, periods, setting, desiredExpiresAt,
          commands, procs, crashes>>

Processes == Requests \cup Workers
Keys == UNION {KeysOf[q] : q \in Requests}

PurchaseKey(k) == <<"wallet:purchase", k>>
RenewalKey(due) == <<"wallet:renewal", due>>
CreditKey(i) == <<"platega-top-up", i>>
ReversalKey(i) == <<"platega-chargeback", i>>

TransactionKeys == ({"wallet:purchase"} \X Keys) \cup ({"wallet:renewal"} \X Nat)

Subscriptions ==
    [version : {Version[p] : p \in Prices}, endsAt : Nat, cancelAtPeriodEnd : BOOLEAN]
Settings == [price : Prices, autoRenew : BOOLEAN, nextRenewalAt : Nat]

(* SQL NULL is no row and no number.                                       *)
ASSUME NoneAssumption == None \notin Nat \cup Subscriptions \cup Settings

Idle == [phase |-> "idle"]
Done == [phase |-> "done"]
Failing == [phase |-> "failing"]

TypeOK ==
    /\ now \in 0 .. MaxTime
    /\ active \subseteq Prices
    /\ \A t \in ledger :
         \/ \E i \in TopUps : t.key \in {CreditKey(i), ReversalKey(i)}
         \/ t.key \in TransactionKeys /\ t.amount \in {-Amount[p] : p \in Prices}
    /\ lock \in Processes \cup {None}
    /\ subscription \in Subscriptions \cup {None}
    /\ periods \subseteq [source : TransactionKeys, startsAt : Nat, endsAt : Nat]
    /\ setting \in Settings \cup {None}
    /\ desiredExpiresAt \in Nat \cup {None}
    /\ commands \subseteq [source : TransactionKeys, expiresAt : Nat]
    /\ procs \in [Processes -> {Idle, Done, Failing} \cup
         [phase : {"due"}, dueAt : Nat, price : Prices] \cup
         [phase : {"waiting", "debiting"}, key : TransactionKeys,
          price : Prices, autoRenew : BOOLEAN, now : Nat]]
    /\ crashes \in 0 .. MaxCrashes

Init ==
    /\ now = 0
    /\ active = Prices
    /\ ledger = {}
    /\ lock = None
    /\ subscription = None
    /\ periods = {}
    /\ setting = None
    /\ desiredExpiresAt = None
    /\ commands = {}
    /\ procs = [p \in Processes |-> Idle]
    /\ crashes = 0

Become(p, state) == procs' = [procs EXCEPT ![p] = state]
(* A request is made once, a worker polls for ever. *)
Finished(p) == IF p \in Workers THEN Idle ELSE Done

-----------------------------------------------------------------------------
(* The wallet's other movements, as TopUpPromise allows them *)

Wallet == <<subscription, periods, setting, desiredExpiresAt, commands>>

CreditTopUp(i) ==
    /\ ~IsPosted(ledger, CreditKey(i))
    /\ ledger' = Post(ledger, Entry(CreditKey(i), User, "payment_credit", Value[i],
                                    "cash_clearing", None))
    /\ UNCHANGED <<now, active, lock, Wallet, procs, crashes>>

ReverseTopUp(i) ==
    /\ IsPosted(ledger, CreditKey(i)) /\ ~IsPosted(ledger, ReversalKey(i))
    /\ ledger' = Post(ledger, Entry(ReversalKey(i), User, "reversal", -Value[i],
                                    "cash_clearing", CreditKey(i)))
    /\ UNCHANGED <<now, active, lock, Wallet, procs, crashes>>

(* An administrator publishes a new plan version: the prices of the old    *)
(* one stop being active.                                                  *)
ClosePrice(price) ==
    /\ price \in active
    /\ active' = active \ {price}
    /\ UNCHANGED <<now, ledger, lock, Wallet, procs, crashes>>

Tick ==
    /\ now < MaxTime
    /\ now' = now + 1
    /\ UNCHANGED <<active, ledger, lock, Wallet, procs, crashes>>

-----------------------------------------------------------------------------
(* purchase *)

(* The customer's request: `now` is read before the lock is awaited.       *)
Ask(q, k, price, auto) ==
    /\ procs[q] = Idle
    /\ Become(q, [phase |-> "waiting", key |-> PurchaseKey(k), price |-> price,
                  autoRenew |-> auto, now |-> now])
    /\ UNCHANGED <<now, active, ledger, lock, Wallet, crashes>>

Refusable(p) ==
    LET price == procs[p].price
    IN  \/ price \notin active
        \/ WalletBalance(ledger, User) < Amount[price]
        \/ subscription # None /\ subscription.version # Version[price]

(* The key was used: the stored purchase is the answer.                    *)
Repeat(p) ==
    /\ procs[p].phase = "waiting" /\ lock = None
    /\ IsPosted(ledger, procs[p].key)
    /\ Become(p, Finished(p))
    /\ UNCHANGED <<now, active, ledger, lock, Wallet, crashes>>

(* An ApplicationError: 404 or 409 to the customer, a failed renewal to    *)
(* the worker.                                                             *)
Refuse(p) ==
    /\ procs[p].phase = "waiting" /\ lock = None
    /\ ~IsPosted(ledger, procs[p].key)
    /\ Refusable(p)
    /\ Become(p, IF p \in Workers THEN Failing ELSE Finished(p))
    /\ UNCHANGED <<now, active, ledger, lock, Wallet, crashes>>

(* Mutant: the ledger's lock is not awaited. *)
AdmitUnlocked(p) ==
    /\ procs[p].phase = "waiting"
    /\ ~IsPosted(ledger, procs[p].key)
    /\ ~Refusable(p)
    /\ lock' = p
    /\ Become(p, [procs[p] EXCEPT !.phase = "debiting"])
    /\ UNCHANGED <<now, active, ledger, Wallet, crashes>>

(* Mutant: the key is left to post_transaction, which returns the debit it *)
(* finds, and the rest of the purchase goes on.                            *)
AdmitRepeated(p) ==
    /\ procs[p].phase = "waiting" /\ lock = None
    /\ ~Refusable(p)
    /\ lock' = p
    /\ Become(p, [procs[p] EXCEPT !.phase = "debiting"])
    /\ UNCHANGED <<now, active, ledger, Wallet, crashes>>

Admit(p) ==
    /\ procs[p].phase = "waiting" /\ lock = None
    /\ ~IsPosted(ledger, procs[p].key)
    /\ ~Refusable(p)
    /\ lock' = p
    /\ Become(p, [procs[p] EXCEPT !.phase = "debiting"])
    /\ UNCHANGED <<now, active, ledger, Wallet, crashes>>

(* Mutant: the new period always starts now. *)
PeriodStartNow(p) == procs[p].now

(* The new period starts where the paid time ends, or now.                 *)
PeriodStart(p) ==
    IF subscription = None THEN procs[p].now ELSE Max({subscription.endsAt, procs[p].now})

(* The rest of the transaction: debit, extension, period, setting and VPN  *)
(* command commit together and the lock is released.                       *)
Commit(p) ==
    LET it     == procs[p]
        starts == PeriodStart(p)
        ends   == starts + Days[it.price]
    IN  /\ it.phase = "debiting"
        /\ ledger' = Post(ledger, Entry(it.key, User, "subscription_debit",
                                        -Amount[it.price], "revenue", None))
        /\ subscription' = [version |-> Version[it.price], endsAt |-> ends,
                            cancelAtPeriodEnd |-> ~it.autoRenew]
        /\ periods' = periods \cup {[source |-> it.key, startsAt |-> starts, endsAt |-> ends]}
        /\ setting' = [price |-> it.price, autoRenew |-> it.autoRenew, nextRenewalAt |-> ends]
        /\ desiredExpiresAt' = ends
        /\ commands' = commands \cup {[source |-> it.key, expiresAt |-> ends]}
        /\ lock' = None
        /\ Become(p, Finished(p))
        /\ UNCHANGED <<now, active, crashes>>

-----------------------------------------------------------------------------
(* The auto-renew switch *)

(* Mutant: switching off clears the date. *)
SwitchClearsDate(enabled) ==
    /\ setting # None /\ subscription # None /\ lock = None
    /\ setting' = [setting EXCEPT !.autoRenew = enabled,
                                  !.nextRenewalAt = IF enabled THEN subscription.endsAt ELSE None]
    /\ subscription' = [subscription EXCEPT !.cancelAtPeriodEnd = ~enabled]
    /\ UNCHANGED <<now, active, ledger, lock, periods, desiredExpiresAt, commands, procs, crashes>>

(* Waits for the row lock a purchase holds on the subscription.            *)
UpdateAutoRenew(enabled) ==
    /\ setting # None /\ subscription # None /\ lock = None
    /\ setting' = [setting EXCEPT !.autoRenew = enabled,
                                  !.nextRenewalAt = subscription.endsAt]
    /\ subscription' = [subscription EXCEPT !.cancelAtPeriodEnd = ~enabled]
    /\ UNCHANGED <<now, active, ledger, lock, periods, desiredExpiresAt, commands, procs, crashes>>

-----------------------------------------------------------------------------
(* The renewal workers *)

(* due_renewals: the row lock of the SELECT ends with its transaction, so  *)
(* what the worker keeps is a copy of price and due time.                  *)
Poll(w) ==
    /\ procs[w] = Idle
    /\ setting # None /\ setting.autoRenew /\ setting.nextRenewalAt <= now
    /\ Become(w, [phase |-> "due", dueAt |-> setting.nextRenewalAt, price |-> setting.price])
    /\ UNCHANGED <<now, active, ledger, lock, Wallet, crashes>>

Renew(w) ==
    /\ procs[w].phase = "due"
    /\ Become(w, [phase |-> "waiting", key |-> RenewalKey(procs[w].dueAt),
                  price |-> procs[w].price, autoRenew |-> TRUE, now |-> now])
    /\ UNCHANGED <<now, active, ledger, lock, Wallet, crashes>>

(* Mutant: the next attempt keeps its date. *)
RecordFailureOnly(w) ==
    /\ procs[w] = Failing
    /\ Become(w, Idle)
    /\ UNCHANGED <<now, active, ledger, lock, Wallet, crashes>>

(* record_renewal_failure, a transaction of its own.                       *)
RecordFailure(w) ==
    /\ procs[w] = Failing
    /\ setting' = IF setting = None THEN None
                  ELSE [setting EXCEPT !.nextRenewalAt = now + Retry]
    /\ Become(w, Idle)
    /\ UNCHANGED <<now, active, ledger, lock, subscription, periods, desiredExpiresAt, commands, crashes>>

(* The process dies or its database transaction is aborted (a deadlock     *)
(* with the switch, which takes the two row locks in the other order).     *)
Crash(p) ==
    /\ procs[p] \notin {Idle, Done}
    /\ crashes < MaxCrashes
    /\ crashes' = crashes + 1
    /\ lock' = IF lock = p THEN None ELSE lock
    /\ Become(p, Finished(p))
    /\ UNCHANGED <<now, active, ledger, Wallet>>

-----------------------------------------------------------------------------
Purchase(p) == Repeat(p) \/ Refuse(p) \/ Admit(p) \/ Commit(p)

Work(w) == Poll(w) \/ Renew(w) \/ Purchase(w) \/ RecordFailure(w)

Environment ==
    \/ \E i \in TopUps : CreditTopUp(i) \/ ReverseTopUp(i)
    \/ \E price \in Prices : ClosePrice(price)
    \/ Tick

Customer ==
    \/ \E q \in Requests : \E k \in KeysOf[q], price \in Prices, auto \in BOOLEAN : Ask(q, k, price, auto)
    \/ \E enabled \in BOOLEAN : UpdateAutoRenew(enabled)

Next ==
    \/ Environment
    \/ Customer
    \/ \E q \in Requests : Purchase(q)
    \/ \E w \in Workers : Work(w)
    \/ \E p \in Processes : Crash(p)

(* Workers poll for ever (PM2 restarts them) and a database transaction    *)
(* that was admitted ends; customers and administrators need do nothing.   *)
(* Every one of these steps changes the state of its own process.          *)
Fairness ==
    /\ \A w \in Workers : WF_<<procs[w]>>(Work(w))
    /\ \A q \in Requests : WF_<<procs[q]>>(Commit(q))

Spec == Init /\ [][Next]_vars /\ Fairness

-----------------------------------------------------------------------------
(* Properties *)

Debits == {t \in ledger : t.type = "subscription_debit"}
Credits == {t \in ledger : t.type = "payment_credit"}

(* Two purchases, or a purchase and a renewal, never spend the same money: *)
(* what was debited never exceeds what was ever credited.  (A chargeback   *)
(* may still take the balance below zero.)                                 *)
SpentWithinCredits ==
    MapThenSumSet(LAMBDA t : -t.amount, Debits) <= MapThenSumSet(LAMBDA t : t.amount, Credits)

(* Retried requests and competing workers neither charge without giving    *)
(* time nor give time without charging: every debit has exactly one period *)
(* and one VPN command reaching to its end, and there are no others.       *)
EveryDebitBuysOnePeriod ==
    /\ {p.source : p \in periods} = {t.key : t \in Debits}
    /\ \A p, q \in periods : p.source = q.source => p = q
    /\ \A c \in commands : \E p \in periods : c.source = p.source /\ c.expiresAt = p.endsAt
    /\ Cardinality(commands) = Cardinality(periods)

(* Paid time is never sold twice or lost: periods do not overlap and the   *)
(* subscription, and the expiry wanted of the VPN account, reach exactly   *)
(* to the end of the last one.                                             *)
PaidTimeAddsUp ==
    /\ \A p, q \in periods : p # q => p.endsAt <= q.startsAt \/ q.endsAt <= p.startsAt
    /\ subscription # None =>
         /\ subscription.endsAt = Max({p.endsAt : p \in periods})
         /\ desiredExpiresAt = subscription.endsAt

(* A due renewal does not stay due: it is charged, or its failure is       *)
(* recorded and the next attempt moves into the future.                    *)
RenewalDue == setting # None /\ setting.autoRenew /\ setting.nextRenewalAt <= now
DueIsSettled == RenewalDue ~> ~RenewalDue

(* "You can disable it anytime" (customer-frontend/src/App.tsx:125): once  *)
(* the switch is off no renewal is charged until the customer turns it on  *)
(* again.                                                                  *)
NoRenewalWhileDisabled ==
    [][\A t \in Debits' \ Debits :
         t.key \notin {PurchaseKey(k) : k \in Keys} => setting.autoRenew]_vars

=============================================================================
