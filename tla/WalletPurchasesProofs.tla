----------------------- MODULE WalletPurchasesProofs ------------------------
(***************************************************************************)
(* Proofs about WalletPurchases for every set of requests, workers, prices *)
(* and top-ups, every price list and every clock.                          *)
(*                                                                         *)
(* That no more is spent than was credited is not inductive: between the   *)
(* check of the balance and the debit the money is only promised, and a    *)
(* chargeback may take the balance below the price meanwhile.  Afforded    *)
(* counts the admitted purchase as spent from the moment of the check, on  *)
(* the credits, which never shrink; that one purchase at a time is between *)
(* the two is LockHeld.  The check itself reads wallet_balance, a sum with *)
(* the reversals in it: AtMostUnspent bounds it by what is not yet spent.  *)
(***************************************************************************)
EXTENDS WalletPurchases, SumTheorems

(* The transactions a wallet may hold. *)
CreditOf(i) == Entry(CreditKey(i), User, "payment_credit", Value[i], "cash_clearing", None)
ReversalOf(i) == Entry(ReversalKey(i), User, "reversal", -Value[i], "cash_clearing", CreditKey(i))
DebitOf(k, price) == Entry(k, User, "subscription_debit", -Amount[price], "revenue", None)

(* There are no others in the ledger.                                      *)
Movements ==
    /\ IsFiniteSet(ledger)
    /\ \A t \in ledger :
         \/ \E i \in TopUps : t = CreditOf(i) \/ t = ReversalOf(i)
         \/ t.key \in TransactionKeys /\ \E price \in Prices : t = DebitOf(t.key, price)

(* Only the holder of the ledger's lock is between its check and its       *)
(* commit, and the key it checked is still unused.                         *)
LockHeld ==
    \A p \in Processes :
        /\ procs[p].phase = "debiting" <=> lock = p
        /\ lock = p => ~IsPosted(ledger, procs[p].key)

(* The price of the purchase that is; with it no more is spent than was    *)
(* credited.                                                               *)
Pending == IF lock = None THEN 0 ELSE Amount[procs[lock].price]
Afforded == TotalSpent(Debits) + Pending <= TotalAmount(Credits)

(* The periods and commands can be counted, and match the debits.          *)
Bought ==
    /\ IsFiniteSet(periods) /\ IsFiniteSet(commands)
    /\ EveryDebitBuysOnePeriod

(* The subscription ends with its last period; periods do not overlap.     *)
Paid ==
    /\ subscription = None => periods = {}
    /\ subscription # None =>
         /\ desiredExpiresAt = subscription.endsAt
         /\ \E p \in periods : p.endsAt = subscription.endsAt
         /\ \A p \in periods : p.endsAt <= subscription.endsAt
    /\ \A p \in periods : p.startsAt < p.endsAt
    /\ \A p, q \in periods : p # q => p.endsAt <= q.startsAt \/ q.endsAt <= p.startsAt

(* What the subscription says about its end and what the renewal workers   *)
(* will do agree, however purchases and the switch interleave.             *)
RenewalFlagsAgree ==
    /\ subscription = None <=> setting = None
    /\ subscription # None => subscription.cancelAtPeriodEnd = ~setting.autoRenew

IInv == TypeOK /\ Movements /\ LockHeld /\ Afforded /\ Bought /\ Paid /\ RenewalFlagsAgree

-----------------------------------------------------------------------------
(* Facts about the operators *)

(* What a process may be doing. *)
States ==
    {Idle, Done, Failing} \cup
    [phase : {"due"}, dueAt : Nat, price : Prices] \cup
    [phase : {"waiting", "debiting"}, key : TransactionKeys,
     price : Prices, autoRenew : BOOLEAN, now : Nat]

(* The larger of two numbers.                                              *)
LEMMA LargerOfTwo ==
    ASSUME NEW a \in Nat, NEW b \in Nat
    PROVE  Max({a, b}) \in Nat /\ a <= Max({a, b}) /\ b <= Max({a, b})
  <1>1. CASE a <= b
    BY <1>1 DEF Max
  <1>2. CASE b <= a
    BY <1>2 DEF Max
  <1> QED
    BY <1>1, <1>2

(* An upper bound of a set of numbers that belongs to it is its maximum.   *)
LEMMA MaxIs ==
    ASSUME NEW S \in SUBSET Nat, NEW m \in S, \A x \in S : x <= m
    PROVE  Max(S) = m
  <1>1. Max(S) \in S /\ \A x \in S : x <= Max(S)
    BY DEF Max
  <1>2. Max(S) \in Nat /\ m \in Nat /\ Max(S) <= m /\ m <= Max(S)
    BY <1>1
  <1> QED
    BY <1>2

(* No purchase or renewal has the key of a top-up.                         *)
LEMMA KeysApart ==
    ASSUME NEW i, NEW k \in TransactionKeys
    PROVE  CreditKey(i) # k /\ ReversalKey(i) # k
  BY DEF TransactionKeys, CreditKey, ReversalKey

(* What a process that waits or debits carries.                            *)
LEMMA Carried ==
    ASSUME TypeOK, NEW p \in Processes
    PROVE  /\ procs[p] \in States
           /\ procs[p].phase \in {"waiting", "debiting"} =>
                procs[p] \in [phase : {"waiting", "debiting"}, key : TransactionKeys,
                              price : Prices, autoRenew : BOOLEAN, now : Nat]
           /\ procs[p].phase = "due" =>
                procs[p] \in [phase : {"due"}, dueAt : Nat, price : Prices]
  <1>1. procs[p] \in States
    BY DEF TypeOK, States
  <1> QED
    BY <1>1 DEF States, Idle, Done, Failing

(* The kinds of movements and the signs of their amounts.                  *)
LEMMA Signs ==
    ASSUME Movements
    PROVE  /\ IsFiniteSet(Credits) /\ IsFiniteSet(Debits)
           /\ \A t \in ledger : t.user = User /\ t.amount \in Int
           /\ \A t \in Credits : t.amount \in Nat
           /\ \A t \in ledger \ Credits : -t.amount \in Nat
  <1>1. IsFiniteSet(Credits) /\ IsFiniteSet(Debits)
    BY FS_Subset DEF Movements, Credits, Debits
  <1>2. ASSUME NEW i \in TopUps PROVE Value[i] \in Nat
    BY ValueAssumption
  <1>3. ASSUME NEW price \in Prices PROVE Amount[price] \in Nat
    BY PricesAssumption
  <1>4. ASSUME NEW t \in ledger
        PROVE  /\ t.user = User /\ t.amount \in Int
               /\ IF t.type = "payment_credit" THEN t.amount \in Nat ELSE -t.amount \in Nat
    <2>1. CASE \E i \in TopUps : t = CreditOf(i)
      BY <1>2, <2>1 DEF CreditOf, Entry
    <2>2. CASE \E i \in TopUps : t = ReversalOf(i)
      BY <1>2, <2>2 DEF ReversalOf, Entry
    <2>3. CASE \E price \in Prices : t = DebitOf(t.key, price)
      BY <1>3, <2>3 DEF DebitOf, Entry
    <2> QED
      BY <2>1, <2>2, <2>3 DEF Movements
  <1> QED
    BY <1>1, <1>4 DEF Credits

(* wallet_balance is at most what was credited and not yet spent.          *)
LEMMA AtMostUnspent ==
    ASSUME Movements
    PROVE  /\ TotalAmount(Credits) \in Int /\ TotalSpent(Debits) \in Int
           /\ WalletBalance(ledger, User) \in Int
           /\ WalletBalance(ledger, User) <= TotalAmount(Credits) - TotalSpent(Debits)
  <1> DEFINE reversals == ledger \ (Credits \cup Debits)
             spent == Debits \cup reversals
  <1>1. /\ IsFiniteSet(Credits) /\ IsFiniteSet(Debits)
        /\ \A t \in ledger : t.user = User /\ t.amount \in Int
        /\ \A t \in Credits : t.amount \in Nat
        /\ \A t \in ledger \ Credits : -t.amount \in Nat
    BY Signs
  <1>2. IsFiniteSet(reversals)
    BY FS_Subset DEF Movements
  <1>3. /\ ledger = Credits \cup spent /\ Credits \cap spent = {}
        /\ Debits \cap reversals = {}
        /\ Debits \subseteq ledger /\ Credits \subseteq ledger
        /\ {t \in ledger : t.user = User} = ledger
    BY <1>1 DEF Credits, Debits
  <1>4. WalletBalance(ledger, User) = TotalAmount(ledger)
    BY <1>3 DEF WalletBalance, TotalAmount
  <1> HIDE DEF reversals
  <1>5. IsFiniteSet(spent)
    BY <1>1, <1>2, FS_Union
  <1>6. TotalAmount(spent) = TotalAmount(Debits) + TotalAmount(reversals)
    <2>1. \A t \in Debits \cup reversals : t.amount \in Int
      BY <1>1, <1>3
    <2> QED
      BY <1>1, <1>2, <1>3, <2>1, TotalUnion
  <1>7. TotalAmount(ledger) = TotalAmount(Credits) + TotalAmount(spent)
    <2>1. \A t \in Credits \cup spent : t.amount \in Int
      BY <1>1, <1>3
    <2> HIDE DEF spent
    <2> QED
      BY <1>1, <1>3, <1>5, <2>1, TotalUnion
  <1>8. /\ TotalAmount(Debits) \in Int /\ TotalSpent(Debits) \in Int
        /\ TotalSpent(Debits) = -TotalAmount(Debits)
    BY <1>1, <1>3, TotalNegated
  <1>9. /\ TotalAmount(reversals) \in Int /\ TotalSpent(reversals) \in Int
        /\ TotalSpent(reversals) = -TotalAmount(reversals)
    BY <1>1, <1>2, <1>3, TotalNegated
  <1>10. TotalSpent(reversals) \in Nat
    <2>1. \A t \in reversals : -t.amount \in Nat
      BY <1>1, <1>3 DEF Credits, reversals
    <2> QED
      BY <1>2, <2>1, TotalOut
  <1>11. TotalAmount(Credits) \in Int
    BY <1>1, <1>3, TotalNegated
  <1> HIDE DEF spent
  <1> QED
    BY <1>4, <1>6, <1>7, <1>8, <1>9, <1>10, <1>11
-----------------------------------------------------------------------------
(* The invariant *)

(* The invariant holds at first: no money, no subscription, nobody at work. *)
LEMMA InvInit == Init => IInv
  <1> SUFFICES ASSUME Init PROVE IInv
    OBVIOUS
  <1>1. TypeOK
    BY BoundsAssumption DEF Init, TypeOK, Idle
  <1>2. Movements
    BY FS_EmptySet DEF Init, Movements
  <1>3. LockHeld
    BY ProcessesAssumption DEF Init, LockHeld, Idle, Processes
  <1>4. Afforded
    <2>1. Debits = {} /\ Credits = {} /\ Pending = 0
      BY DEF Init, Debits, Credits, Pending
    <2> QED
      BY <2>1, TotalEmpty DEF Afforded
  <1>5. Bought
    BY FS_EmptySet DEF Init, Bought, EveryDebitBuysOnePeriod, Debits
  <1>6. Paid /\ RenewalFlagsAgree
    BY DEF Init, Paid, RenewalFlagsAgree
  <1> QED
    BY <1>1, <1>2, <1>3, <1>4, <1>5, <1>6 DEF IInv

(* What a step that leaves the ledger and the lock alone, and takes no     *)
(* process into or out of the transaction, keeps.                          *)
LEMMA MoneyKept ==
    ASSUME IInv, NEW p \in Processes, NEW state,
           procs[p].phase # "debiting", state.phase # "debiting",
           procs' = [procs EXCEPT ![p] = state], UNCHANGED <<ledger, lock>>
    PROVE  Movements' /\ LockHeld' /\ Afforded'
  <1>1. procs \in [Processes -> States]
    BY DEF IInv, TypeOK, States
  <1>2. lock # p
    BY DEF IInv, LockHeld
  <1>3. \A c \in Processes : procs'[c] = IF c = p THEN state ELSE procs[c]
    BY <1>1
  <1>4. Movements'
    BY DEF IInv, Movements
  <1>5. LockHeld'
    BY <1>2, <1>3 DEF IInv, LockHeld
  <1>6. Debits' = Debits /\ Credits' = Credits
    BY DEF Debits, Credits
  <1>7. Pending' = Pending
    <2>1. lock = None \/ (lock \in Processes /\ procs'[lock] = procs[lock])
      BY <1>2, <1>3 DEF IInv, TypeOK
    <2> QED
      BY <2>1 DEF Pending
  <1> QED
    BY <1>4, <1>5, <1>6, <1>7 DEF IInv, Afforded

(* A step of nobody keeps them too. *)
LEMMA MoneyUntouched ==
    ASSUME IInv, UNCHANGED <<ledger, lock, procs>>
    PROVE  Movements' /\ LockHeld' /\ Afforded'
  BY DEF IInv, Movements, LockHeld, Afforded, Pending, Debits, Credits

(* What was sold stays as it is when neither the ledger nor the rows of    *)
(* the subscription change.                                                *)
LEMMA SoldKept ==
    ASSUME IInv, UNCHANGED <<ledger, Wallet>>
    PROVE  Bought' /\ Paid' /\ RenewalFlagsAgree'
  <1>1. Debits' = Debits
    BY DEF Debits
  <1> QED
    BY <1>1 DEF IInv, Wallet, Bought, EveryDebitBuysOnePeriod, Paid, RenewalFlagsAgree

(* The state a process may take.                                           *)
LEMMA TypeKept ==
    ASSUME TypeOK, NEW p \in Processes, NEW state \in States,
           procs' = [procs EXCEPT ![p] = state],
           UNCHANGED <<now, active, ledger, Wallet, crashes>>, lock' \in Processes \cup {None}
    PROVE  TypeOK'
  <1>1. procs' \in [Processes -> States]
    BY DEF TypeOK, States
  <1> QED
    BY <1>1 DEF TypeOK, States, Wallet

(* A process that is done is outside the transaction.                      *)
LEMMA FinishedState ==
    ASSUME NEW p
    PROVE  Finished(p) \in States /\ Finished(p).phase # "debiting"
  BY DEF Finished, States, Idle, Done

(* The wallet's other movements touch no purchase.                         *)
LEMMA MovementInv ==
    ASSUME IInv, NEW i \in TopUps, CreditTopUp(i) \/ ReverseTopUp(i)
    PROVE  IInv'
  <1>1. PICK t : /\ t = CreditOf(i) \/ t = ReversalOf(i)
                 /\ ~IsPosted(ledger, t.key)
                 /\ ledger' = Post(ledger, t)
                 /\ UNCHANGED <<now, active, lock, Wallet, procs, crashes>>
    BY DEF CreditTopUp, ReverseTopUp, CreditOf, ReversalOf, Entry
  <1>2. ledger' = ledger \cup {t} /\ t \notin ledger
    BY <1>1 DEF Post, IsPosted
  <1>3. t.key \in {CreditKey(i), ReversalKey(i)} /\ t.type # "subscription_debit" /\ t.amount \in Int
    BY <1>1, ValueAssumption DEF CreditOf, ReversalOf, Entry
  <1>4. Debits' = Debits
    BY <1>2, <1>3 DEF Debits
  <1>5. TypeOK'
    BY <1>1, <1>2, <1>3 DEF IInv, TypeOK, Wallet
  <1>6. Movements'
    BY <1>1, <1>2, FS_AddElement DEF IInv, Movements
  <1>7. LockHeld'
    <2>1. ASSUME NEW p \in Processes, lock = p
          PROVE  procs[p].key # t.key
      <3>1. procs[p].key \in TransactionKeys
        BY <2>1, Carried DEF IInv, LockHeld
      <3> QED
        BY <1>3, <3>1, KeysApart
    <2> QED
      BY <1>1, <1>2, <2>1 DEF IInv, LockHeld, IsPosted
  <1>8. Afforded'
    <2>1. Pending' = Pending
      BY <1>1 DEF Pending
    <2>2. /\ TotalAmount(Credits) \in Int /\ TotalSpent(Debits) \in Int
          /\ TotalSpent(Debits) + Pending <= TotalAmount(Credits)
      BY AtMostUnspent DEF IInv, Afforded
    <2>3. Pending \in Int
      <3>1. lock = None \/ Amount[procs[lock].price] \in Int
        BY Carried, PricesAssumption DEF IInv, LockHeld, TypeOK
      <3> QED
        BY <3>1 DEF Pending
    <2>4. CASE t.type # "payment_credit"
      <3>1. Credits' = Credits
        BY <1>2, <2>4 DEF Credits
      <3> QED
        BY <1>4, <2>1, <2>2, <3>1 DEF Afforded
    <2>5. CASE t.type = "payment_credit"
      <3>1. Credits' = Credits \cup {t} /\ t \notin Credits
        BY <1>2, <2>5 DEF Credits
      <3>2. t.amount \in Nat
        BY <1>1, <2>5, ValueAssumption DEF CreditOf, ReversalOf, Entry
      <3>3. IsFiniteSet(Credits) /\ \A c \in Credits : c.amount \in Int
        BY Signs DEF IInv, Credits
      <3>4. TotalAmount(Credits \cup {t}) = TotalAmount(Credits) + t.amount
        BY <3>1, <3>2, <3>3, TotalAdd
      <3> QED
        BY <1>4, <2>1, <2>2, <2>3, <3>1, <3>2, <3>4 DEF Afforded
    <2> QED
      BY <2>4, <2>5
  <1>9. Bought'
    BY <1>1, <1>4 DEF IInv, Wallet, Bought, EveryDebitBuysOnePeriod
  <1>10. Paid' /\ RenewalFlagsAgree'
    BY <1>1 DEF IInv, Wallet, Paid, RenewalFlagsAgree
  <1> QED
    BY <1>5, <1>6, <1>7, <1>8, <1>9, <1>10 DEF IInv

(* The clock and the administrator.                                        *)
LEMMA EnvironmentInv ==
    ASSUME IInv, Environment
    PROVE  IInv'
  <1>1. ASSUME UNCHANGED <<ledger, lock, Wallet, procs, crashes>>,
               active' \subseteq Prices, now' \in 0 .. MaxTime
        PROVE  IInv'
    <2>1. TypeOK'
      BY <1>1 DEF IInv, TypeOK, Wallet
    <2> QED
      BY <1>1, <2>1, MoneyUntouched, SoldKept DEF IInv
  <1>2. CASE \E price \in Prices : ClosePrice(price)
    BY <1>1, <1>2 DEF ClosePrice, IInv, TypeOK
  <1>3. CASE Tick
    <2>1. now' \in 0 .. MaxTime
      BY <1>3, BoundsAssumption DEF Tick, IInv, TypeOK
    <2> QED
      BY <1>1, <1>3, <2>1 DEF Tick, IInv, TypeOK
  <1> QED
    BY <1>2, <1>3, MovementInv DEF Environment

(* A process that takes no money moves on.                                 *)
LEMMA MovesOn ==
    ASSUME IInv, NEW p \in Processes, NEW state \in States,
           procs[p].phase # "debiting", state.phase # "debiting", Become(p, state),
           UNCHANGED <<now, active, ledger, lock, Wallet, crashes>>
    PROVE  IInv'
  <1>1. procs' = [procs EXCEPT ![p] = state]
    BY DEF Become
  <1>2. TypeOK'
    BY <1>1, TypeKept DEF IInv, TypeOK
  <1>3. Movements' /\ LockHeld' /\ Afforded'
    BY <1>1, MoneyKept
  <1> QED
    BY <1>2, <1>3, SoldKept DEF IInv

(* A request arrives.                                                      *)
LEMMA AskInv ==
    ASSUME IInv, NEW q \in Requests, NEW k \in KeysOf[q], NEW price \in Prices,
           NEW auto \in BOOLEAN, Ask(q, k, price, auto)
    PROVE  IInv'
  <1> DEFINE state == [phase |-> "waiting", key |-> PurchaseKey(k), price |-> price,
                       autoRenew |-> auto, now |-> now]
  <1>1. now \in Nat
    BY BoundsAssumption DEF IInv, TypeOK
  <1>2. PurchaseKey(k) \in TransactionKeys
    BY DEF PurchaseKey, TransactionKeys, Keys
  <1>3. state \in States /\ state.phase # "debiting"
    BY <1>1, <1>2 DEF States
  <1>4. /\ q \in Processes /\ procs[q].phase # "debiting" /\ Become(q, state)
        /\ UNCHANGED <<now, active, ledger, lock, Wallet, crashes>>
    BY DEF Ask, Idle, Processes
  <1> HIDE DEF state
  <1> QED
    BY <1>3, <1>4, MovesOn

(* A purchase that is not made: the key was used, or it is refused.        *)
LEMMA AnswerInv ==
    ASSUME IInv, NEW p \in Processes, Repeat(p) \/ Refuse(p)
    PROVE  IInv'
  <1>1. PICK state : /\ state \in States /\ state.phase # "debiting" /\ Become(p, state)
                     /\ procs[p].phase # "debiting"
                     /\ UNCHANGED <<now, active, ledger, lock, Wallet, crashes>>
    <2>1. CASE Repeat(p)
      BY <2>1, FinishedState DEF Repeat
    <2>2. CASE Refuse(p)
      <3>1. Failing \in States /\ Failing.phase # "debiting"
        BY DEF Failing, States
      <3>2. CASE p \in Workers
        BY <2>2, <3>1, <3>2 DEF Refuse
      <3>3. CASE p \notin Workers
        BY <2>2, <3>3, FinishedState DEF Refuse
      <3> QED
        BY <3>2, <3>3
    <2> QED
      BY <2>1, <2>2
  <1> QED
    BY <1>1, MovesOn

(* A worker copies the setting, and later starts the purchase.             *)
LEMMA PollInv ==
    ASSUME IInv, NEW w \in Workers, Poll(w) \/ Renew(w)
    PROVE  IInv'
  <1>1. w \in Processes /\ now \in Nat
    BY BoundsAssumption DEF Processes, IInv, TypeOK
  <1>2. PICK state : /\ state \in States /\ state.phase # "debiting" /\ Become(w, state)
                     /\ procs[w].phase # "debiting"
                     /\ UNCHANGED <<now, active, ledger, lock, Wallet, crashes>>
    <2>1. CASE Poll(w)
      <3> DEFINE state == [phase |-> "due", dueAt |-> setting.nextRenewalAt,
                           price |-> setting.price]
      <3>1. setting \in Settings
        BY <2>1 DEF Poll, IInv, TypeOK
      <3>2. state \in States /\ state.phase # "debiting"
        BY <3>1 DEF States, Settings
      <3> QED
        BY <2>1, <3>2 DEF Poll, Idle
    <2>2. CASE Renew(w)
      <3> DEFINE state == [phase |-> "waiting", key |-> RenewalKey(procs[w].dueAt),
                           price |-> procs[w].price, autoRenew |-> TRUE, now |-> now]
      <3>1. procs[w].dueAt \in Nat /\ procs[w].price \in Prices
        BY <1>1, <2>2, Carried DEF Renew, IInv
      <3>2. RenewalKey(procs[w].dueAt) \in TransactionKeys
        BY <3>1 DEF RenewalKey, TransactionKeys
      <3>3. state \in States /\ state.phase # "debiting"
        BY <1>1, <3>1, <3>2 DEF States
      <3> QED
        BY <2>2, <3>3 DEF Renew
    <2> QED
      BY <2>1, <2>2
  <1> QED
    BY <1>1, <1>2, MovesOn

(* The purchase that is admitted can be paid from what is not yet spent.   *)
LEMMA AdmitInv ==
    ASSUME IInv, NEW p \in Processes, Admit(p)
    PROVE  IInv'
  <1> DEFINE state == [procs[p] EXCEPT !.phase = "debiting"]
  <1>1. /\ procs[p].phase = "waiting" /\ lock = None /\ ~IsPosted(ledger, procs[p].key)
        /\ ~(WalletBalance(ledger, User) < Amount[procs[p].price])
        /\ lock' = p /\ procs' = [procs EXCEPT ![p] = state]
        /\ UNCHANGED <<now, active, ledger, Wallet, crashes>>
    BY DEF Admit, Refusable, Become
  <1>2. procs[p] \in [phase : {"waiting", "debiting"}, key : TransactionKeys,
                      price : Prices, autoRenew : BOOLEAN, now : Nat]
    BY <1>1, Carried DEF IInv
  <1>3. /\ state \in States /\ state.phase = "debiting"
        /\ state.key = procs[p].key /\ state.price = procs[p].price
    BY <1>2 DEF States
  <1> HIDE DEF state
  <1>4. procs \in [Processes -> States] /\ None \notin Processes
    BY ProcessesAssumption DEF IInv, TypeOK, States, Processes
  <1>5. \A c \in Processes : procs'[c] = IF c = p THEN state ELSE procs[c]
    BY <1>1, <1>4
  <1>6. TypeOK'
    BY <1>1, <1>3, TypeKept DEF IInv
  <1>7. Movements'
    BY <1>1 DEF IInv, Movements
  <1>8. LockHeld'
    BY <1>1, <1>3, <1>4, <1>5 DEF IInv, LockHeld
  <1>9. Afforded'
    <2>1. Debits' = Debits /\ Credits' = Credits
      BY <1>1 DEF Debits, Credits
    <2>2. Pending' = Amount[procs[p].price]
      BY <1>1, <1>3, <1>4, <1>5 DEF Pending
    <2>3. Amount[procs[p].price] \in Nat
      BY <1>2, PricesAssumption
    <2>4. /\ TotalAmount(Credits) \in Int /\ TotalSpent(Debits) \in Int
          /\ WalletBalance(ledger, User) \in Int
          /\ WalletBalance(ledger, User) <= TotalAmount(Credits) - TotalSpent(Debits)
      BY AtMostUnspent DEF IInv
    <2>5. TotalSpent(Debits) + Amount[procs[p].price] <= TotalAmount(Credits)
      BY <1>1, <2>3, <2>4
    <2> QED
      BY <2>1, <2>2, <2>5 DEF Afforded
  <1> QED
    BY <1>1, <1>6, <1>7, <1>8, <1>9, SoldKept DEF IInv

(* What a crashed process had begun is undone.                             *)
LEMMA CrashInv ==
    ASSUME IInv, NEW p \in Processes, Crash(p)
    PROVE  IInv'
  <1> DEFINE state == Finished(p)
  <1>1. state \in States /\ state.phase # "debiting"
    BY FinishedState
  <1> HIDE DEF state
  <1>2. /\ procs' = [procs EXCEPT ![p] = state]
        /\ lock' = IF lock = p THEN None ELSE lock
        /\ UNCHANGED <<now, active, ledger, Wallet>>
        /\ crashes' \in 0 .. MaxCrashes
    BY BoundsAssumption DEF Crash, Become, IInv, TypeOK, state
  <1>3. procs \in [Processes -> States] /\ None \notin Processes
    BY ProcessesAssumption DEF IInv, TypeOK, States, Processes
  <1>4. \A c \in Processes : procs'[c] = IF c = p THEN state ELSE procs[c]
    BY <1>2, <1>3
  <1>5. TypeOK'
    <2>1. procs' \in [Processes -> States] /\ lock' \in Processes \cup {None}
      BY <1>1, <1>2, <1>3 DEF IInv, TypeOK
    <2> QED
      BY <1>2, <2>1 DEF IInv, TypeOK, States, Wallet
  <1>6. Movements'
    BY <1>2 DEF IInv, Movements
  <1>7. LockHeld'
    BY <1>1, <1>2, <1>3, <1>4 DEF IInv, LockHeld
  <1>8. Afforded'
    <2>1. Debits' = Debits /\ Credits' = Credits
      BY <1>2 DEF Debits, Credits
    <2>2. /\ TotalAmount(Credits) \in Int /\ TotalSpent(Debits) \in Int
          /\ TotalSpent(Debits) + Pending <= TotalAmount(Credits)
      BY AtMostUnspent DEF IInv, Afforded
    <2>3. CASE lock = p
      <3>1. Pending' = 0
        BY <1>2, <2>3 DEF Pending
      <3>2. Pending \in Nat
        BY <1>3, <2>3, Carried, PricesAssumption DEF IInv, LockHeld, Pending
      <3> QED
        BY <2>1, <2>2, <3>1, <3>2 DEF Afforded
    <2>4. CASE lock # p
      <3>1. lock = None \/ (lock \in Processes /\ procs'[lock] = procs[lock])
        BY <1>4, <2>4 DEF IInv, TypeOK
      <3>2. Pending' = Pending
        BY <1>2, <2>4, <3>1 DEF Pending
      <3> QED
        BY <2>1, <2>2, <3>2 DEF Afforded
    <2> QED
      BY <2>3, <2>4
  <1> QED
    BY <1>2, <1>5, <1>6, <1>7, <1>8, SoldKept DEF IInv

(* The switch changes the two flags together, never what was sold.         *)
LEMMA SwitchInv ==
    ASSUME IInv, NEW enabled \in BOOLEAN, UpdateAutoRenew(enabled)
    PROVE  IInv'
  <1> DEFINE row == [setting EXCEPT !.autoRenew = enabled, !.nextRenewalAt = subscription.endsAt]
             live == [subscription EXCEPT !.cancelAtPeriodEnd = ~enabled]
  <1>1. /\ setting \in Settings /\ subscription \in Subscriptions
        /\ setting' = row /\ subscription' = live
        /\ UNCHANGED <<now, active, ledger, lock, periods, desiredExpiresAt, commands, procs, crashes>>
    BY DEF UpdateAutoRenew, IInv, TypeOK
  <1>2. /\ row \in Settings /\ row.autoRenew = enabled
        /\ live \in Subscriptions /\ live.endsAt = subscription.endsAt
        /\ live.cancelAtPeriodEnd = ~enabled
    BY <1>1 DEF Settings, Subscriptions
  <1> HIDE DEF row, live
  <1>3. setting' # None /\ subscription' # None /\ subscription # None
    BY <1>1, <1>2, NoneAssumption
  <1>4. TypeOK'
    BY <1>1, <1>2 DEF IInv, TypeOK
  <1>5. Bought'
    <2>1. Debits' = Debits
      BY <1>1 DEF Debits
    <2> QED
      BY <1>1, <2>1 DEF IInv, Bought, EveryDebitBuysOnePeriod
  <1>6. Paid'
    BY <1>1, <1>2, <1>3 DEF IInv, Paid
  <1>7. RenewalFlagsAgree'
    BY <1>1, <1>2, <1>3 DEF RenewalFlagsAgree
  <1> QED
    BY <1>1, <1>4, <1>5, <1>6, <1>7, MoneyUntouched DEF IInv

(* A recorded failure changes the next attempt only.                       *)
LEMMA FailureInv ==
    ASSUME IInv, NEW w \in Workers, RecordFailure(w)
    PROVE  IInv'
  <1> DEFINE row == [setting EXCEPT !.nextRenewalAt = now + Retry]
  <1>1. /\ setting' = IF setting = None THEN None ELSE row
        /\ procs' = [procs EXCEPT ![w] = Idle] /\ procs[w].phase # "debiting"
        /\ UNCHANGED <<now, active, ledger, lock, subscription, periods, desiredExpiresAt,
                       commands, crashes>>
    BY DEF RecordFailure, Become, Failing
  <1>2. w \in Processes /\ Idle \in States /\ Idle.phase # "debiting"
    BY DEF Processes, States, Idle
  <1>3. ASSUME setting # None
        PROVE  row \in Settings /\ row.autoRenew = setting.autoRenew /\ row # None
    <2>1. setting \in Settings /\ now + Retry \in Nat
      BY <1>3, BoundsAssumption DEF IInv, TypeOK
    <2> QED
      BY <2>1, NoneAssumption DEF Settings
  <1> HIDE DEF row
  <1>4. TypeOK'
    <2>1. procs' \in [Processes -> States]
      BY <1>1, <1>2 DEF IInv, TypeOK, States
    <2>2. setting' \in Settings \cup {None}
      BY <1>1, <1>3
    <2> QED
      BY <1>1, <2>1, <2>2 DEF IInv, TypeOK, States
  <1>5. Movements' /\ LockHeld' /\ Afforded'
    BY <1>1, <1>2, MoneyKept
  <1>6. Bought'
    <2>1. Debits' = Debits
      BY <1>1 DEF Debits
    <2> QED
      BY <1>1, <2>1 DEF IInv, Bought, EveryDebitBuysOnePeriod
  <1>7. Paid'
    BY <1>1 DEF IInv, Paid
  <1>8. RenewalFlagsAgree'
    BY <1>1, <1>3 DEF IInv, RenewalFlagsAgree
  <1> QED
    BY <1>4, <1>5, <1>6, <1>7, <1>8 DEF IInv

(* The purchase commits: a debit, its period, its command and the new end. *)
LEMMA CommitInv ==
    ASSUME IInv, NEW p \in Processes, Commit(p)
    PROVE  IInv'
  <1> DEFINE it == procs[p]
             starts == PeriodStart(p)
             ends == starts + Days[it.price]
             debit == DebitOf(it.key, it.price)
             period == [source |-> it.key, startsAt |-> starts, endsAt |-> ends]
             command == [source |-> it.key, expiresAt |-> ends]
             live == [version |-> Version[it.price], endsAt |-> ends,
                      cancelAtPeriodEnd |-> ~it.autoRenew]
             row == [price |-> it.price, autoRenew |-> it.autoRenew, nextRenewalAt |-> ends]
             state == Finished(p)
  <1>1. /\ it.phase = "debiting"
        /\ ledger' = Post(ledger, debit)
        /\ subscription' = live
        /\ periods' = periods \cup {period}
        /\ setting' = row
        /\ desiredExpiresAt' = ends
        /\ commands' = commands \cup {command}
        /\ lock' = None
        /\ procs' = [procs EXCEPT ![p] = state]
        /\ UNCHANGED <<now, active, crashes>>
    BY DEF Commit, DebitOf, Become
  <1>2. it \in [phase : {"waiting", "debiting"}, key : TransactionKeys,
                price : Prices, autoRenew : BOOLEAN, now : Nat]
    BY <1>1, Carried DEF IInv
  <1>3. /\ it.key \in TransactionKeys /\ it.price \in Prices /\ it.autoRenew \in BOOLEAN
        /\ it.now \in Nat
        /\ Amount[it.price] \in Nat \ {0} /\ Days[it.price] \in Nat \ {0}
    BY <1>2, PricesAssumption
  <1>4. lock = p /\ ~IsPosted(ledger, it.key)
    BY <1>1 DEF IInv, LockHeld
  <1>5. /\ debit.key = it.key /\ debit.user = User /\ debit.type = "subscription_debit"
        /\ debit.amount = -Amount[it.price]
    BY DEF DebitOf, Entry
  <1>6. ledger' = ledger \cup {debit} /\ debit \notin ledger
    BY <1>1, <1>4, <1>5 DEF Post, IsPosted
  <1>7. /\ starts \in Nat /\ ends \in Nat /\ starts < ends
        /\ subscription # None => subscription.endsAt <= starts
    <2>1. CASE subscription = None
      <3>1. starts = it.now
        BY <2>1 DEF PeriodStart
      <3> QED
        BY <1>3, <2>1, <3>1
    <2>2. CASE subscription # None
      <3>1. subscription.endsAt \in Nat
        BY <2>2 DEF IInv, TypeOK, Subscriptions
      <3>2. starts = Max({subscription.endsAt, it.now})
        BY <2>2 DEF PeriodStart
      <3>3. starts \in Nat /\ subscription.endsAt <= starts
        BY <1>3, <3>1, <3>2, LargerOfTwo
      <3> QED
        BY <1>3, <3>3
    <2> QED
      BY <2>1, <2>2
  <1>8. period.source = it.key /\ period.startsAt = starts /\ period.endsAt = ends
    OBVIOUS
  <1>9. command.source = it.key /\ command.expiresAt = ends
    OBVIOUS
  <1>10. /\ live \in Subscriptions /\ live.endsAt = ends /\ live.cancelAtPeriodEnd = ~it.autoRenew
         /\ row \in Settings /\ row.autoRenew = it.autoRenew
         /\ period \in [source : TransactionKeys, startsAt : Nat, endsAt : Nat]
         /\ command \in [source : TransactionKeys, expiresAt : Nat]
    BY <1>3, <1>7 DEF Subscriptions, Settings
  <1>11. state \in States /\ state.phase # "debiting"
    BY FinishedState
  <1>12. live # None /\ row # None
    BY <1>10, NoneAssumption
  <1> HIDE DEF it, starts, ends, debit, period, command, live, row, state
  <1>13. procs \in [Processes -> States] /\ None \notin Processes
    BY ProcessesAssumption DEF IInv, TypeOK, States, Processes
  <1>14. Debits' = Debits \cup {debit} /\ debit \notin Debits /\ Credits' = Credits
    BY <1>5, <1>6 DEF Debits, Credits
  <1>15. TypeOK'
    <2>1. procs' \in [Processes -> States]
      BY <1>1, <1>11, <1>13
    <2>2. \A t \in ledger' :
            \/ \E i \in TopUps : t.key \in {CreditKey(i), ReversalKey(i)}
            \/ t.key \in TransactionKeys /\ t.amount \in {-Amount[c] : c \in Prices}
      BY <1>3, <1>5, <1>6 DEF IInv, TypeOK
    <2> QED
      BY <1>1, <1>7, <1>10, <2>1, <2>2 DEF IInv, TypeOK, States
  <1>16. Movements'
    <2>1. debit = DebitOf(debit.key, it.price)
      BY <1>5 DEF debit
    <2> QED
      BY <1>3, <1>5, <1>6, <2>1, FS_AddElement DEF IInv, Movements
  <1>17. LockHeld'
    BY <1>1, <1>4, <1>11, <1>13 DEF IInv, LockHeld
  <1>18. Afforded'
    <2>1. /\ TotalAmount(Credits) \in Int /\ TotalSpent(Debits) \in Int
          /\ TotalSpent(Debits) + Pending <= TotalAmount(Credits)
      BY AtMostUnspent DEF IInv, Afforded
    <2>2. Pending = Amount[it.price] /\ Pending' = 0
      BY <1>1, <1>4, <1>13 DEF Pending, it
    <2>3. TotalSpent(Debits \cup {debit}) = TotalSpent(Debits) + Amount[it.price]
      <3>1. IsFiniteSet(Debits) /\ \A t \in Debits : t.amount \in Int
        BY Signs DEF IInv, Debits
      <3>2. debit.amount \in Int /\ -debit.amount = Amount[it.price]
        BY <1>3, <1>5
      <3>3. TotalAmount(Debits \cup {debit}) = TotalAmount(Debits) + debit.amount
        BY <1>14, <3>1, <3>2, TotalAdd
      <3>4. TotalAmount(Debits) \in Int /\ TotalSpent(Debits) = -TotalAmount(Debits)
        BY <3>1, TotalNegated
      <3>5. TotalSpent(Debits \cup {debit}) = -TotalAmount(Debits \cup {debit})
        <4>1. IsFiniteSet(Debits \cup {debit})
          BY <3>1, FS_AddElement
        <4>2. \A t \in Debits \cup {debit} : t.amount \in Int
          BY <3>1, <3>2
        <4> QED
          BY <4>1, <4>2, TotalNegated
      <3> QED
        BY <1>3, <1>5, <3>3, <3>4, <3>5
    <2> QED
      BY <1>3, <1>14, <2>1, <2>2, <2>3 DEF Afforded
  <1>19. Bought'
    <2>1. /\ {b.source : b \in periods} = {t.key : t \in Debits}
          /\ \A b, c \in periods : b.source = c.source => b = c
          /\ \A c \in commands : \E b \in periods : c.source = b.source /\ c.expiresAt = b.endsAt
          /\ Cardinality(commands) = Cardinality(periods)
          /\ IsFiniteSet(periods) /\ IsFiniteSet(commands)
      BY DEF IInv, Bought, EveryDebitBuysOnePeriod
    <2>2. \A t \in Debits : t.key # it.key
      BY <1>4 DEF Debits, IsPosted
    <2>3. \A b \in periods : b.source # it.key
      BY <2>1, <2>2
    <2>4. \A c \in commands : c.source # it.key
      BY <2>1, <2>3
    <2>5. period \notin periods /\ command \notin commands
      BY <1>8, <1>9, <2>3, <2>4
    <2>6. {b.source : b \in periods'} = {t.key : t \in Debits'}
      BY <1>1, <1>5, <1>8, <1>14, <2>1
    <2>7. \A b, c \in periods' : b.source = c.source => b = c
      BY <1>1, <1>8, <2>1, <2>3
    <2>8. \A c \in commands' : \E b \in periods' : c.source = b.source /\ c.expiresAt = b.endsAt
      BY <1>1, <1>8, <1>9, <2>1
    <2>9. /\ IsFiniteSet(periods') /\ IsFiniteSet(commands')
          /\ Cardinality(periods') = Cardinality(periods) + 1
          /\ Cardinality(commands') = Cardinality(commands) + 1
      BY <1>1, <2>1, <2>5, FS_AddElement
    <2> QED
      BY <2>1, <2>6, <2>7, <2>8, <2>9 DEF Bought, EveryDebitBuysOnePeriod
  <1>20. Paid'
    <2>1. \A b \in periods : b.startsAt \in Nat /\ b.endsAt \in Nat
      BY DEF IInv, TypeOK
    <2>2. \A b \in periods : b.endsAt <= starts
      <3>1. CASE subscription = None
        BY <3>1 DEF IInv, Paid
      <3>2. CASE subscription # None
        <4>1. subscription.endsAt \in Nat
          BY <3>2 DEF IInv, TypeOK, Subscriptions
        <4> QED
          BY <1>7, <2>1, <3>2, <4>1 DEF IInv, Paid
      <3> QED
        BY <3>1, <3>2
    <2>3. subscription' # None /\ subscription'.endsAt = ends /\ desiredExpiresAt' = ends
      BY <1>1, <1>10, <1>12
    <2>4. \E b \in periods' : b.endsAt = ends
      BY <1>1, <1>8
    <2>5. \A b \in periods' : b.endsAt <= ends
      BY <1>1, <1>7, <1>8, <2>1, <2>2
    <2>6. \A b \in periods' : b.startsAt < b.endsAt
      BY <1>1, <1>7, <1>8 DEF IInv, Paid
    <2>7. \A b, c \in periods' : b # c => b.endsAt <= c.startsAt \/ c.endsAt <= b.startsAt
      BY <1>1, <1>8, <2>2 DEF IInv, Paid
    <2> QED
      BY <2>3, <2>4, <2>5, <2>6, <2>7 DEF Paid
  <1>21. RenewalFlagsAgree'
    BY <1>1, <1>10, <1>12 DEF RenewalFlagsAgree
  <1> QED
    BY <1>15, <1>16, <1>17, <1>18, <1>19, <1>20, <1>21 DEF IInv

(* Every step keeps the invariant. *)
LEMMA InvStep == IInv /\ [Next]_vars => IInv'
  <1> SUFFICES ASSUME IInv, [Next]_vars PROVE IInv'
    OBVIOUS
  <1>1. ASSUME NEW p \in Processes, Purchase(p) PROVE IInv'
    BY <1>1, AnswerInv, AdmitInv, CommitInv DEF Purchase
  <1>2. CASE Environment
    BY <1>2, EnvironmentInv
  <1>3. CASE Customer
    BY <1>3, AskInv, SwitchInv DEF Customer
  <1>4. CASE \E q \in Requests : Purchase(q)
    BY <1>1, <1>4 DEF Processes
  <1>5. CASE \E w \in Workers : Work(w)
    BY <1>1, <1>5, PollInv, FailureInv DEF Work, Processes
  <1>6. CASE \E p \in Processes : Crash(p)
    BY <1>6, CrashInv
  <1>7. CASE UNCHANGED vars
    <2>1. /\ UNCHANGED <<now, active, ledger, lock, procs, crashes>>
          /\ UNCHANGED <<ledger, Wallet>>
      BY <1>7 DEF vars, Wallet
    <2>2. TypeOK'
      BY <1>7 DEF IInv, TypeOK, vars
    <2> QED
      BY <2>1, <2>2, MoneyUntouched, SoldKept DEF IInv
  <1> QED
    BY <1>2, <1>3, <1>4, <1>5, <1>6, <1>7 DEF Next

(* The invariant holds in every reachable state. *)
THEOREM Invariant == Spec => []IInv
  BY InvInit, InvStep, PTL DEF Spec

-----------------------------------------------------------------------------
(* The properties the runs check *)

(* Every variable keeps its type. *)
THEOREM TypeCorrect == Spec => []TypeOK
  <1>1. IInv => TypeOK
    BY DEF IInv
  <1> QED
    BY <1>1, Invariant, PTL

(* purchase: two purchases, or a purchase and a renewal, never spend the   *)
(* same money, whatever is credited and charged back between the check and *)
(* the debit.                                                              *)
THEOREM NothingOverspent == Spec => []SpentWithinCredits
  <1>1. IInv => SpentWithinCredits
    <2> SUFFICES ASSUME IInv PROVE SpentWithinCredits
      OBVIOUS
    <2>1. Pending \in Nat
      <3>1. lock = None \/ Amount[procs[lock].price] \in Nat
        BY Carried, PricesAssumption DEF IInv, LockHeld, TypeOK
      <3> QED
        BY <3>1 DEF Pending
    <2>2. /\ TotalAmount(Credits) \in Int /\ TotalSpent(Debits) \in Int
          /\ TotalSpent(Debits) + Pending <= TotalAmount(Credits)
      BY AtMostUnspent DEF IInv, Afforded
    <2>3. TotalSpent(Debits) <= TotalAmount(Credits)
      BY <2>1, <2>2
    <2> QED
      BY <2>3 DEF SpentWithinCredits, TotalSpent, TotalAmount
  <1> QED
    BY <1>1, Invariant, PTL

(* purchase: every debit has exactly one period and one VPN command, and   *)
(* there are no others.                                                    *)
THEOREM DebitsAlwaysBuyOnePeriod == Spec => []EveryDebitBuysOnePeriod
  <1>1. IInv => EveryDebitBuysOnePeriod
    BY DEF IInv, Bought
  <1> QED
    BY <1>1, Invariant, PTL

(* purchase: paid time is never sold twice or lost.                        *)
THEOREM PaidTimeAlwaysAddsUp == Spec => []PaidTimeAddsUp
  <1>1. IInv => PaidTimeAddsUp
    <2> SUFFICES ASSUME IInv PROVE PaidTimeAddsUp
      OBVIOUS
    <2>1. ASSUME subscription # None
          PROVE  subscription.endsAt = Max({p.endsAt : p \in periods})
      <3> DEFINE S == {p.endsAt : p \in periods}
                 m == subscription.endsAt
      <3>1. S \in SUBSET Nat
        BY DEF IInv, TypeOK
      <3>2. m \in S /\ \A x \in S : x <= m
        BY <2>1 DEF IInv, Paid
      <3> HIDE DEF S, m
      <3>3. Max(S) = m
        BY <3>1, <3>2, MaxIs
      <3> QED
        BY <3>3 DEF S, m
    <2> QED
      BY <2>1 DEF IInv, Paid, PaidTimeAddsUp
  <1> QED
    BY <1>1, Invariant, PTL

(* purchase, update_auto_renew, record_renewal_failure: the subscription   *)
(* and the billing setting agree on whether it renews.                     *)
THEOREM RenewalFlagsAlwaysAgree == Spec => []RenewalFlagsAgree
  <1>1. IInv => RenewalFlagsAgree
    BY DEF IInv
  <1> QED
    BY <1>1, Invariant, PTL

-----------------------------------------------------------------------------
(* What a step may never do *)

(* What was posted and what was sold stays, and nothing moves the end of a *)
(* subscription back.                                                      *)
NothingTakenBack ==
    /\ ledger \subseteq ledger' /\ periods \subseteq periods'
    /\ subscription # None =>
         subscription' # None /\ subscription.endsAt <= subscription'.endsAt

(* The ledger and the periods only grow, and a paid subscription never     *)
(* ends earlier than it did: neither the switch nor a failed renewal, a    *)
(* chargeback or a crash shortens it.                                      *)
THEOREM PaidTimeNeverShrinks == Spec => [][NothingTakenBack]_vars
  <1>1. ASSUME IInv, Next PROVE NothingTakenBack
    <2>1. ASSUME UNCHANGED <<subscription, periods>>, ledger \subseteq ledger'
          PROVE  NothingTakenBack
      <3>1. subscription # None => subscription.endsAt \in Nat
        BY <1>1 DEF IInv, TypeOK, Subscriptions
      <3> QED
        BY <2>1, <3>1 DEF NothingTakenBack
    <2>2. ASSUME NEW p \in Processes, Purchase(p) PROVE NothingTakenBack
      <3>1. CASE Commit(p)
        <4> DEFINE ends == PeriodStart(p) + Days[procs[p].price]
        <4>1. ledger \subseteq ledger' /\ periods \subseteq periods'
          BY <3>1 DEF Commit, Post
        <4>2. IInv'
          BY <1>1, <3>1, CommitInv
        <4>3. subscription'.endsAt = ends /\ subscription' # None /\ desiredExpiresAt' = ends
          <5>1. subscription' \in Subscriptions \cup {None} /\ setting' \in Settings \cup {None}
            BY <4>2 DEF IInv, TypeOK
          <5> QED
            BY <3>1, <4>2 DEF Commit, IInv, Paid
        <4>4. ASSUME subscription # None PROVE subscription.endsAt <= subscription'.endsAt
          <5>1. PICK b \in periods : b.endsAt = subscription.endsAt
            BY <1>1, <4>4 DEF IInv, Paid
          <5> QED
            BY <4>1, <4>2, <4>3, <5>1 DEF IInv, Paid
        <4> QED
          BY <4>1, <4>3, <4>4 DEF NothingTakenBack
      <3> QED
        BY <2>1, <2>2, <3>1 DEF Purchase, Repeat, Refuse, Admit, Wallet
    <2>3. CASE Environment
      BY <2>1, <2>3 DEF Environment, CreditTopUp, ReverseTopUp, ClosePrice, Tick, Wallet, Post
    <2>4. CASE Customer
      <3>1. CASE \E enabled \in BOOLEAN : UpdateAutoRenew(enabled)
        <4>1. PICK enabled \in BOOLEAN : UpdateAutoRenew(enabled)
          BY <3>1
        <4>2. IInv'
          BY <1>1, <4>1, SwitchInv
        <4>3. /\ subscription \in Subscriptions /\ UNCHANGED <<ledger, periods>>
              /\ subscription' = [subscription EXCEPT !.cancelAtPeriodEnd = ~enabled]
          BY <1>1, <4>1 DEF UpdateAutoRenew, IInv, TypeOK
        <4>4. subscription' \in Subscriptions /\ subscription'.endsAt = subscription.endsAt
          BY <4>3 DEF Subscriptions
        <4>5. subscription' # None /\ subscription.endsAt \in Nat
          BY <4>3, <4>4, NoneAssumption DEF Subscriptions
        <4> QED
          BY <4>3, <4>4, <4>5 DEF NothingTakenBack
      <3> QED
        BY <2>1, <2>4, <3>1 DEF Customer, Ask, Wallet
    <2>5. CASE \E q \in Requests : Purchase(q)
      BY <2>2, <2>5 DEF Processes
    <2>6. CASE \E w \in Workers : Work(w)
      BY <2>1, <2>2, <2>6 DEF Work, Poll, Renew, RecordFailure, Wallet, Processes
    <2>7. CASE \E p \in Processes : Crash(p)
      BY <2>1, <2>7 DEF Crash, Wallet
    <2> QED
      BY <1>1, <2>3, <2>4, <2>5, <2>6, <2>7 DEF Next
  <1>2. IInv /\ [Next]_vars => [NothingTakenBack]_vars
    BY <1>1
  <1> QED
    BY <1>2, Invariant, PTL DEF Spec

=============================================================================
