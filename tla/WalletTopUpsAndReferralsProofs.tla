------------------- MODULE WalletTopUpsAndReferralsProofs -------------------
(***************************************************************************)
(* Proofs about WalletTopUps for every set of users, keys, requests and    *)
(* amounts, and about Referrals for any number of claims, workers,         *)
(* customers and crashes. The two specifications are not composed: each    *)
(* theorem is about one of them.                                           *)
(*                                                                         *)
(* Of a top-up, the invariants of interest are not inductive alone: that a *)
(* callback finds a typed row, and that binding a checkout never           *)
(* overwrites a row money has reached, rest on the order in which a        *)
(* request writes. RequestOrder records that order.                        *)
(*                                                                         *)
(* The balance is a sum over the ledger, the customer's list a sum over    *)
(* the rows. Every step moves both by the same amount (Balanced): a        *)
(* callback posts a credit with the row it confirms and a reversal with    *)
(* the confirmed row it charges back, and nothing else touches either.     *)
(*                                                                         *)
(* A claim of a referral code, and the worker that rewards one, act on     *)
(* what they read in an earlier step. ProcessesKnow says what is still     *)
(* true of it, as no two hold the same row (RowsApart); LimitsKept counts  *)
(* the referrals a limit is about, and DaysTiled says that the periods of  *)
(* a customer are the days paid for, which a reward extends at their end.  *)
(***************************************************************************)
EXTENDS WalletTopUps, Referrals, SumTheorems


(* A request still between its two transactions has an unbound row in      *)
(* status "creating"; only requests with a row talk to the provider; a row *)
(* is bound to its own checkout or to none.                                *)
RequestOrder ==
    \A i \in Requests :
        /\ phase[i] = "idle" => topUps[i] = NoRow /\ checkouts[i] = "none"
        /\ phase[i] \in {"creating", "issued", "failing"} =>
               /\ topUps[i] \in TopUp
               /\ topUps[i].status = "creating"
               /\ topUps[i].provider = None
        /\ checkouts[i] # "none" => topUps[i] \in TopUp
        /\ \A m \in callbacks : m.id = i => topUps[i] \in TopUp

IInv == TypeOK /\ RequestOrder /\ StatusMatchesLedger /\ CreditIsBacked

-----------------------------------------------------------------------------
(* Facts about the ledger operators and the row types *)

(* The two keys of a top-up are distinct from each other and from those of *)
(* every other top-up.                                                     *)
LEMMA KeysDiffer ==
    ASSUME NEW i \in Requests, NEW j \in Requests
    PROVE  /\ CreditKey(i) # ReversalKey(j)
           /\ CreditKey(i) = CreditKey(j) => i = j
           /\ ReversalKey(i) = ReversalKey(j) => i = j
  BY DEF CreditKey, ReversalKey

(* Posting adds exactly the transaction when its key is new, and then the  *)
(* posted keys grow by exactly that key.                                   *)
LEMMA PostNew ==
    ASSUME NEW L, NEW t, ~IsPosted(L, t.key)
    PROVE  /\ Post(L, t) = L \cup {t}
           /\ \A k : IsPosted(Post(L, t), k) <=> IsPosted(L, k) \/ k = t.key
  BY DEF Post, IsPosted

(* NoRow is no row.                                                        *)
LEMMA RowsDiffer == NoRow \notin TopUp
  BY DEF NoRow, TopUp, Statuses

(* A posted credit of a top-up is a well-formed credit. *)
LEMMA CreditShape ==
    ASSUME TypeOK, NEW i \in Requests, IsPosted(ledger, CreditKey(i))
    PROVE  LET c == ByKey(ledger, CreditKey(i))
           IN  /\ c \in ledger
               /\ c.key = CreditKey(i)
               /\ c.amount \in Amounts
               /\ c.contra = "cash_clearing"
  <1> DEFINE c == ByKey(ledger, CreditKey(i))
  <1>1. c \in ledger /\ c.key = CreditKey(i)
    BY DEF IsPosted, ByKey
  <1>2. c \in Transactions
    BY <1>1 DEF TypeOK
  <1>3. PICK j \in Requests, u \in Users, a \in Amounts :
          \/ c = Entry(CreditKey(j), u, "payment_credit", a, "cash_clearing", None)
          \/ c = Entry(ReversalKey(j), u, "reversal", -a, "cash_clearing", CreditKey(j))
    BY <1>2 DEF Transactions
  <1>4. c # Entry(ReversalKey(j), u, "reversal", -a, "cash_clearing", CreditKey(j))
    BY <1>1, KeysDiffer DEF Entry
  <1> QED
    BY <1>1, <1>3, <1>4 DEF Entry

-----------------------------------------------------------------------------
(* The invariant *)

(* The invariant holds at first: no row, no callback, an empty ledger.     *)
LEMMA InvInit == Init => IInv
  BY RowsDiffer DEF Init, IInv, TypeOK, RequestOrder, StatusMatchesLedger, CreditIsBacked,
     Phases, Credited, Reversed, IsPosted, Settled, NoRow

(* Steps of a request: they move no money and touch only rows that no      *)
(* callback can find yet.                                                  *)
LEMMA RequestInv ==
    ASSUME IInv, NEW i \in Requests, Request(i)
    PROVE  IInv'
  <1> USE NoneAssumption, RowsDiffer DEF IInv
  <1>1. ASSUME NEW u \in Users, NEW k \in Keys, NEW a \in Amounts, Insert(i, u, k, a)
        PROVE  IInv'
    <2> DEFINE row == [user |-> u, key |-> k, amount |-> a, status |-> "creating",
                       provider |-> None, confirmedAt |-> FALSE, cancelledAt |-> FALSE]
    <2>1. row \in TopUp
      BY DEF TopUp, Statuses
    <2>2. topUps' = [topUps EXCEPT ![i] = row] /\ topUps[i] = NoRow
      BY <1>1 DEF Insert, RequestOrder
    <2>3. TypeOK'
      BY <1>1, <2>1, <2>2 DEF Insert, TypeOK, Phases
    <2>4. RequestOrder'
      BY <1>1, <2>1, <2>2 DEF Insert, TypeOK, RequestOrder
    <2>5. StatusMatchesLedger'
      BY <1>1, <2>2 DEF Insert, TypeOK, StatusMatchesLedger, Credited, Reversed, Settled, NoRow
    <2>6. CreditIsBacked'
      <3>1. ~IsPosted(ledger, CreditKey(i))
        BY <2>2 DEF StatusMatchesLedger, Credited, Settled, NoRow
      <3> QED
        BY <1>1, <2>2, <3>1 DEF Insert, TypeOK, CreditIsBacked, IsPosted
    <2> QED
      BY <2>3, <2>4, <2>5, <2>6
  <1>2. ASSUME NEW u \in Users, NEW k \in Keys, NEW a \in Amounts, Replay(i, u, k, a)
        PROVE  IInv'
    <2>1. PICK p \in {"answered", "refused"} : phase' = [phase EXCEPT ![i] = p]
      BY <1>2 DEF Replay
    <2> QED
      BY <1>2, <2>1 DEF Replay, TypeOK, Phases, RequestOrder, StatusMatchesLedger,
         CreditIsBacked, Credited, Reversed
  <1>3. CASE CheckoutIssued(i)
    BY <1>3 DEF CheckoutIssued, TypeOK, Phases, RequestOrder, StatusMatchesLedger,
       CreditIsBacked, Credited, Reversed
  <1>4. CASE CheckoutFailed(i)
    BY <1>4 DEF CheckoutFailed, TypeOK, Phases, RequestOrder, StatusMatchesLedger,
       CreditIsBacked, Credited, Reversed
  <1>5. CASE SaveFailure(i)
    <2> DEFINE row == [topUps[i] EXCEPT !.status = "failed"]
    <2>1. /\ topUps[i] \in TopUp
          /\ topUps[i].status = "creating"
          /\ topUps' = [topUps EXCEPT ![i] = row]
      BY <1>5 DEF SaveFailure, RequestOrder
    <2>2. /\ row \in TopUp
          /\ row.status = "failed"
          /\ row.provider = topUps[i].provider
          /\ row.user = topUps[i].user
          /\ row.amount = topUps[i].amount
      BY <2>1 DEF TopUp, Statuses
    <2> HIDE DEF row
    <2>3. TypeOK' /\ RequestOrder'
      BY <1>5, <2>1, <2>2 DEF SaveFailure, TypeOK, Phases, RequestOrder
    <2>4. StatusMatchesLedger' /\ CreditIsBacked'
      BY <1>5, <2>1, <2>2 DEF SaveFailure, TypeOK, StatusMatchesLedger, CreditIsBacked,
         Credited, Reversed, Settled
    <2> QED
      BY <2>3, <2>4
  <1>6. CASE SaveCheckout(i)
    <2> DEFINE row == [topUps[i] EXCEPT !.provider = i, !.status = "pending"]
    <2>1. /\ topUps[i] \in TopUp
          /\ topUps[i].status = "creating"
          /\ topUps' = [topUps EXCEPT ![i] = row]
      BY <1>6 DEF SaveCheckout, RequestOrder, TypeOK
    <2>2. /\ phase' = [phase EXCEPT ![i] = "answered"]
          /\ UNCHANGED <<checkouts, callbacks, ledger>>
      BY <1>6 DEF SaveCheckout
    <2>3. row \in TopUp /\ row.status = "pending" /\ row.amount = topUps[i].amount
      BY <2>1 DEF TopUp, Statuses
    <2>4. ~IsPosted(ledger, CreditKey(i))
      BY <2>1 DEF StatusMatchesLedger, Credited, Settled
    <2> HIDE DEF row
    <2>5. TypeOK' /\ RequestOrder'
      BY <2>1, <2>2, <2>3 DEF TypeOK, Phases, RequestOrder
    <2>6. StatusMatchesLedger'
      BY <2>1, <2>2, <2>3 DEF TypeOK, StatusMatchesLedger, Credited, Reversed, Settled
    <2>7. CreditIsBacked'
      BY <2>1, <2>2, <2>4 DEF TypeOK, CreditIsBacked, IsPosted
    <2> QED
      BY <2>5, <2>6, <2>7
  <1>7. CASE Abandon(i)
    BY <1>7 DEF Abandon, TypeOK, Phases, RequestOrder, StatusMatchesLedger,
       CreditIsBacked, Credited, Reversed
  <1> QED
    BY <1>1, <1>2, <1>3, <1>4, <1>5, <1>6, <1>7 DEF Request

(* The provider only adds callbacks about rows that exist. *)
LEMMA ProviderInv ==
    ASSUME IInv, NEW i \in Requests, Provider(i)
    PROVE  IInv'
  <1> USE DEF IInv, Send, CallbackMessage
  <1>1. ASSUME NEW s \in DOMAIN ClosedAs, ReportUnpaid(i, s)
        PROVE  IInv'
    <2>1. topUps[i] \in TopUp /\ topUps[i].amount \in Amounts
      BY <1>1 DEF ReportUnpaid, RequestOrder, TopUp
    <2> QED
      BY <1>1, <2>1 DEF ReportUnpaid, TypeOK, RequestOrder, StatusMatchesLedger,
         CreditIsBacked, Credited, Reversed
  <1>2. ASSUME NEW a \in Amounts, Pay(i, a)
        PROVE  IInv'
    BY <1>2 DEF Pay, TypeOK, RequestOrder, StatusMatchesLedger, CreditIsBacked,
       Credited, Reversed
  <1>3. ASSUME NEW a \in Amounts, Dispute(i, a)
        PROVE  IInv'
    BY <1>3 DEF Dispute, TypeOK, RequestOrder, StatusMatchesLedger, CreditIsBacked,
       Credited, Reversed
  <1> QED
    BY <1>1, <1>2, <1>3 DEF Provider

(* What Accepts and Store say of the row they are about: the row is typed, *)
(* its details are the message's, and only it changes.                     *)
LEMMA AcceptedRow ==
    ASSUME IInv, NEW i \in Requests, NEW m \in callbacks, Accepts(m, i)
    PROVE  /\ topUps[i] \in TopUp
           /\ topUps[i].provider = i
           /\ m = [id |-> i, amount |-> topUps[i].amount, status |-> m.status]
           /\ phase[i] \notin {"idle", "creating", "issued", "failing"}
  <1>1. m \in CallbackMessage /\ m.id = i /\ m.amount = topUps[i].amount
    BY DEF IInv, TypeOK, Accepts
  <1>2. topUps[i] \in TopUp /\ topUps[i].provider = i
    BY <1>1, RowsDiffer DEF IInv, TypeOK, Accepts, Inserted
  <1>3. m = [id |-> i, amount |-> topUps[i].amount, status |-> m.status]
    BY <1>1 DEF CallbackMessage
  <1>4. phase[i] \notin {"idle", "creating", "issued", "failing"}
    BY <1>2, NoneAssumption, RowsDiffer DEF IInv, RequestOrder
  <1> QED
    BY <1>2, <1>3, <1>4

(* A handler that stores a typed row with the same owner, amount and       *)
(* binding preserves types and the request order; what is left to each     *)
(* handler is the agreement between status and ledger.                     *)
LEMMA StoreFrame ==
    ASSUME IInv, NEW i \in Requests, NEW row \in TopUp,
           topUps[i] \in TopUp, phase[i] \notin {"idle", "creating", "issued", "failing"},
           Store(i, row), ledger' \subseteq Transactions
    PROVE  /\ TypeOK'
           /\ RequestOrder'
           /\ topUps' = [topUps EXCEPT ![i] = row]
           /\ callbacks' = callbacks
  <1>1. /\ topUps' = [topUps EXCEPT ![i] = row]
        /\ UNCHANGED <<phase, checkouts, callbacks>>
    BY DEF Store
  <1>2. TypeOK'
    BY <1>1 DEF IInv, TypeOK
  <1>3. RequestOrder'
    BY <1>1 DEF IInv, TypeOK, RequestOrder
  <1> QED
    BY <1>1, <1>2, <1>3

(* A confirmation settles its row and credits it, once.                    *)
LEMMA ConfirmInv ==
    ASSUME IInv, NEW i \in Requests, Confirm(i)
    PROVE  IInv'
  <1> DEFINE row == [topUps[i] EXCEPT !.status = "confirmed", !.confirmedAt = TRUE,
                                      !.cancelledAt = FALSE]
             credit == Entry(CreditKey(i), topUps[i].user, "payment_credit",
                             topUps[i].amount, "cash_clearing", None)
  <1>1. PICK m \in callbacks : m.status = "CONFIRMED" /\ Accepts(m, i)
    BY DEF Confirm
  <1>2. /\ topUps[i] \in TopUp
        /\ topUps[i].provider = i
        /\ [id |-> i, amount |-> topUps[i].amount, status |-> "CONFIRMED"] \in callbacks
        /\ phase[i] \notin {"idle", "creating", "issued", "failing"}
    BY <1>1, AcceptedRow
  <1>3. /\ row \in TopUp
        /\ row.status = "confirmed"
        /\ row.user = topUps[i].user
        /\ row.amount = topUps[i].amount
        /\ row.provider = i
    BY <1>2 DEF TopUp, Statuses
  <1>4. credit \in Transactions /\ credit.key = CreditKey(i)
        /\ credit.user = topUps[i].user /\ credit.amount = topUps[i].amount
    BY <1>2 DEF Transactions, TopUp, Entry
  <1>5. ~IsPosted(ledger, CreditKey(i)) /\ ~IsPosted(ledger, ReversalKey(i))
    BY DEF Confirm, IInv, StatusMatchesLedger, Credited, Reversed, Settled
  <1>6. ledger' = Post(ledger, credit) /\ Store(i, row)
    BY DEF Confirm
  <1> HIDE DEF row, credit
  <1>7. /\ ledger' = ledger \cup {credit}
        /\ \A k : IsPosted(ledger', k) <=> IsPosted(ledger, k) \/ k = CreditKey(i)
    BY <1>4, <1>5, <1>6, PostNew
  <1>8. /\ TypeOK' /\ RequestOrder'
        /\ topUps' = [topUps EXCEPT ![i] = row] /\ callbacks' = callbacks
    BY <1>2, <1>3, <1>4, <1>6, <1>7, StoreFrame DEF IInv, TypeOK
  <1>9. StatusMatchesLedger'
    BY <1>3, <1>5, <1>7, <1>8, KeysDiffer
    DEF IInv, TypeOK, StatusMatchesLedger, Credited, Reversed, Settled
  <1>10. CreditIsBacked'
    BY <1>2, <1>3, <1>4, <1>7, <1>8, KeysDiffer DEF IInv, TypeOK, CreditIsBacked
  <1> QED
    BY <1>8, <1>9, <1>10 DEF IInv

(* A failure or an expiry closes a row that was not paid for.              *)
LEMMA CloseInv ==
    ASSUME IInv, NEW i \in Requests, Close(i)
    PROVE  IInv'
  <1>1. PICK m \in callbacks :
          /\ m.status \in DOMAIN ClosedAs
          /\ Accepts(m, i)
          /\ topUps[i].status \notin {"confirmed", "chargebacked"}
          /\ Store(i, [topUps[i] EXCEPT
                         !.status = ClosedAs[m.status],
                         !.cancelledAt = @ \/ ClosedAs[m.status] = "cancelled"])
    BY DEF Close
  <1> DEFINE row == [topUps[i] EXCEPT
                       !.status = ClosedAs[m.status],
                       !.cancelledAt = @ \/ ClosedAs[m.status] = "cancelled"]
  <1>2. /\ topUps[i] \in TopUp
        /\ phase[i] \notin {"idle", "creating", "issued", "failing"}
    BY <1>1, AcceptedRow
  <1>3. ClosedAs[m.status] \in {"cancelled", "expired", "failed"}
    BY <1>1 DEF ClosedAs
  <1>4. /\ row \in TopUp
        /\ row.status \in {"cancelled", "expired", "failed"}
        /\ row.user = topUps[i].user
        /\ row.amount = topUps[i].amount
        /\ row.provider = topUps[i].provider
    BY <1>2, <1>3 DEF TopUp, Statuses
  <1>5. ledger' = ledger /\ Store(i, row)
    BY <1>1 DEF Close
  <1> HIDE DEF row
  <1>6. /\ TypeOK' /\ RequestOrder'
        /\ topUps' = [topUps EXCEPT ![i] = row] /\ callbacks' = callbacks
    BY <1>2, <1>4, <1>5, StoreFrame DEF IInv, TypeOK
  <1>7. StatusMatchesLedger'
    BY <1>1, <1>4, <1>5, <1>6 DEF IInv, TypeOK, StatusMatchesLedger, Credited, Reversed, Settled
  <1>8. CreditIsBacked'
    BY <1>4, <1>5, <1>6 DEF IInv, TypeOK, CreditIsBacked
  <1> QED
    BY <1>6, <1>7, <1>8 DEF IInv

(* A chargeback takes back what was credited, once.                        *)
LEMMA ChargeBackInv ==
    ASSUME IInv, NEW i \in Requests, ChargeBack(i)
    PROVE  IInv'
  <1> DEFINE row == [topUps[i] EXCEPT !.status = "chargebacked", !.confirmedAt = FALSE,
                                      !.cancelledAt = TRUE]
             credit == ByKey(ledger, CreditKey(i))
             reversal == Entry(ReversalKey(i), topUps[i].user, "reversal",
                               -credit.amount, credit.contra, credit.key)
  <1>1. PICK m \in callbacks : m.status = "CHARGEBACKED" /\ Accepts(m, i)
    BY DEF ChargeBack
  <1>2. /\ topUps[i] \in TopUp
        /\ phase[i] \notin {"idle", "creating", "issued", "failing"}
    BY <1>1, AcceptedRow
  <1>3. /\ row \in TopUp
        /\ row.status = "chargebacked"
        /\ row.user = topUps[i].user
        /\ row.amount = topUps[i].amount
        /\ row.provider = topUps[i].provider
    BY <1>2 DEF TopUp, Statuses
  <1>4. IsPosted(ledger, CreditKey(i)) /\ topUps[i].status # "chargebacked"
    BY DEF ChargeBack
  <1>5. reversal \in Transactions /\ reversal.key = ReversalKey(i)
    <2>1. /\ credit.key = CreditKey(i)
          /\ credit.amount \in Amounts
          /\ credit.contra = "cash_clearing"
      BY <1>4, CreditShape DEF IInv
    <2>2. topUps[i].user \in Users
      BY <1>2 DEF TopUp
    <2> HIDE DEF credit
    <2> QED
      BY <2>1, <2>2 DEF Transactions, Entry
  <1>6. ~IsPosted(ledger, ReversalKey(i))
    BY <1>4 DEF IInv, StatusMatchesLedger, Reversed
  <1>7. ledger' = Post(ledger, reversal) /\ Store(i, row)
    BY DEF ChargeBack
  <1> HIDE DEF row, credit, reversal
  <1>8. /\ ledger' = ledger \cup {reversal}
        /\ \A k : IsPosted(ledger', k) <=> IsPosted(ledger, k) \/ k = ReversalKey(i)
    BY <1>5, <1>6, <1>7, PostNew
  <1>9. /\ TypeOK' /\ RequestOrder'
        /\ topUps' = [topUps EXCEPT ![i] = row] /\ callbacks' = callbacks
    BY <1>2, <1>3, <1>5, <1>7, <1>8, StoreFrame DEF IInv, TypeOK
  <1>10. StatusMatchesLedger'
    BY <1>3, <1>4, <1>8, <1>9, KeysDiffer
    DEF IInv, TypeOK, StatusMatchesLedger, Credited, Reversed, Settled
  <1>11. CreditIsBacked'
    BY <1>3, <1>5, <1>8, <1>9, KeysDiffer DEF IInv, TypeOK, CreditIsBacked
  <1> QED
    BY <1>9, <1>10, <1>11 DEF IInv

(* Every step preserves the invariant.                                     *)
LEMMA InvStep == IInv /\ [Next]_vars => IInv'
  <1> SUFFICES ASSUME IInv, [Next]_vars
               PROVE  IInv'
    OBVIOUS
  <1>1. CASE UNCHANGED vars
    BY <1>1 DEF vars, IInv, TypeOK, RequestOrder, StatusMatchesLedger, CreditIsBacked,
       Credited, Reversed
  <1>2. ASSUME NEW i \in Requests, Request(i) \/ Provider(i) \/ Callback(i)
        PROVE  IInv'
    BY <1>2, RequestInv, ProviderInv, ConfirmInv, CloseInv, ChargeBackInv DEF Callback
  <1> QED
    BY <1>1, <1>2 DEF Next

(* The invariant holds of every reachable state.                           *)
LEMMA Invariance == Spec => []IInv
  BY InvInit, InvStep, PTL DEF Spec

(* A callback handler keeps every row and its amount, so what the provider *)
(* has reported about the inserted top-ups does not change.                *)
LEMMA AmountKept ==
    ASSUME IInv, NEW i \in Requests, Callback(i)
    PROVE  UNCHANGED <<Reported("CONFIRMED"), Reported("CHARGEBACKED")>>
  <1>1. topUps[i] \in TopUp
    BY AcceptedRow DEF Callback, Confirm, Close, ChargeBack
  <1>2. /\ topUps'[i] \in TopUp /\ topUps'[i].amount = topUps[i].amount
        /\ callbacks' = callbacks
        /\ \A j \in Requests \ {i} : topUps'[j] = topUps[j]
    <2>1. CASE Confirm(i)
      BY <1>1, <2>1 DEF Confirm, Store, IInv, TypeOK, TopUp, Statuses
    <2>2. CASE Close(i)
      <3>1. PICK m \in callbacks :
              /\ m.status \in DOMAIN ClosedAs
              /\ Store(i, [topUps[i] EXCEPT
                             !.status = ClosedAs[m.status],
                             !.cancelledAt = @ \/ ClosedAs[m.status] = "cancelled"])
        BY <2>2 DEF Close
      <3>2. ClosedAs[m.status] \in {"cancelled", "expired", "failed"}
        BY <3>1 DEF ClosedAs
      <3> QED
        BY <1>1, <3>1, <3>2 DEF Store, IInv, TypeOK, TopUp, Statuses
    <2>3. CASE ChargeBack(i)
      BY <1>1, <2>3 DEF ChargeBack, Store, IInv, TypeOK, TopUp, Statuses
    <2> QED
      BY <2>1, <2>2, <2>3 DEF Callback
  <1> QED
    BY <1>1, <1>2, RowsDiffer DEF Reported, Inserted

-----------------------------------------------------------------------------
(* Keys and balances *)

(* A key of a user names one row.                                          *)
KeysOnce ==
    \A i, j \in Inserted :
        topUps[i].user = topUps[j].user /\ topUps[i].key = topUps[j].key => i = j

(* The transactions of a wallet, the top-ups it should hold and their sum. *)
WalletOf(u) == {t \in ledger : t.user = u}
ConfirmedOf(u) == {i \in Inserted : topUps[i].user = u /\ topUps[i].status = "confirmed"}
RowsTotal(rows, S) == MapThenSumSet(LAMBDA i : rows[i].amount, S)

Balanced == \A u \in Users : TotalAmount(WalletOf(u)) = RowsTotal(topUps, ConfirmedOf(u))

(* The ledger and the rows are finite, and they balance.                   *)
Books == IsFiniteSet(ledger) /\ IsFiniteSet(Inserted) /\ Balanced

Accounts == IInv /\ KeysOnce /\ Books

(* The customer's list is a sum of the values of a function.               *)
LEMMA RowsTotalIs ==
    ASSUME NEW rows, NEW S, IsFiniteSet(S)
    PROVE  RowsTotal(rows, S) = SumOf([i \in S |-> rows[i].amount], S)
  <1> DEFINE F == [i \in S |-> rows[i].amount]
             Rec(g) == g = [s \in SUBSET S |-> IF s = {} THEN 0
                            ELSE rows[Pick(s)].amount + g[s \ {Pick(s)}]]
  <1>1. PICK h : Sums(h, F, S)
    BY SumsExist
  <1>2. ASSUME NEW g PROVE Rec(g) <=> Sums(g, F, S)
    <2>1. \A s \in SUBSET S : s # {} => Pick(s) \in S
      BY DEF Pick
    <2>2. \A s \in SUBSET S : s # {} => F[Pick(s)] = rows[Pick(s)].amount
      BY <2>1
    <2> HIDE DEF F
    <2> QED
      BY <2>2 DEF Sums
  <1>3. \E g : Rec(g) /\ RowsTotal(rows, S) = g[S]
    <2>1. \E g : Rec(g)
      BY <1>1, <1>2
    <2> QED
      BY <2>1 DEF RowsTotal, MapThenSumSet, MapThenFoldSet, Pick
  <1>4. PICK g : Rec(g) /\ RowsTotal(rows, S) = g[S]
    BY <1>3
  <1>5. Sums(g, F, S)
    BY <1>2, <1>4
  <1> HIDE DEF Rec, F
  <1>6. RowsTotal(rows, S) = SumOf(F, S)
    BY <1>4, <1>5, SumIs
  <1> QED
    BY <1>6 DEF F

(* It depends on the amounts of its rows only.                             *)
LEMMA RowsTotalSame ==
    ASSUME NEW rows, NEW later, NEW S, IsFiniteSet(S),
           \A i \in S : rows[i].amount = later[i].amount
    PROVE  RowsTotal(later, S) = RowsTotal(rows, S)
  <1> DEFINE F == [i \in S |-> rows[i].amount]
             G == [i \in S |-> later[i].amount]
  <1>1. \A i \in S : F[i] = G[i]
    OBVIOUS
  <1>2. RowsTotal(rows, S) = SumOf(F, S) /\ RowsTotal(later, S) = SumOf(G, S)
    BY RowsTotalIs
  <1> HIDE DEF F, G
  <1> QED
    BY <1>1, <1>2, SumSame

(* It is an integer.                                                       *)
LEMMA RowsTotalInt ==
    ASSUME NEW rows, NEW S, IsFiniteSet(S), \A i \in S : rows[i].amount \in Int
    PROVE  RowsTotal(rows, S) \in Int
  <1> DEFINE F == [i \in S |-> rows[i].amount]
  <1>1. \A i \in S : F[i] \in Int
    OBVIOUS
  <1>2. RowsTotal(rows, S) = SumOf(F, S)
    BY RowsTotalIs
  <1> HIDE DEF F
  <1> QED
    BY <1>1, <1>2, SumInt

(* A row more adds its amount.                                             *)
LEMMA RowsTotalAdd ==
    ASSUME NEW rows, NEW S, IsFiniteSet(S), NEW e, e \notin S,
           \A i \in S \cup {e} : rows[i].amount \in Int
    PROVE  RowsTotal(rows, S \cup {e}) = RowsTotal(rows, S) + rows[e].amount
  <1> DEFINE F == [i \in S |-> rows[i].amount]
             G == [i \in S \cup {e} |-> rows[i].amount]
  <1>1. /\ \A i \in S : F[i] \in Int /\ F[i] = G[i]
        /\ \A i \in S \cup {e} : G[i] \in Int
        /\ G[e] = rows[e].amount
    OBVIOUS
  <1>2. RowsTotal(rows, S) = SumOf(F, S) /\ RowsTotal(rows, S \cup {e}) = SumOf(G, S \cup {e})
    BY RowsTotalIs, FS_AddElement
  <1> HIDE DEF F, G
  <1>3. SumOf(F, S) = SumOf(G, S) /\ SumOf(F, S) \in Int
    BY <1>1, SumSame, SumInt
  <1>4. SumOf(G, S \cup {e}) = G[e] + SumOf(G, S)
    BY <1>1, SumAdd
  <1> QED
    BY <1>1, <1>2, <1>3, <1>4

(* A row keeps its owner, its key and its amount.                          *)
SameTerms(row, later) ==
    /\ row \in TopUp /\ later \in TopUp
    /\ later.user = row.user /\ later.key = row.key /\ later.amount = row.amount

(* What a confirmation does to the money and its row.                      *)
LEMMA ConfirmMoves ==
    ASSUME IInv, NEW i \in Requests, Confirm(i)
    PROVE  /\ SameTerms(topUps[i], topUps'[i])
           /\ topUps[i].status # "confirmed" /\ topUps'[i].status = "confirmed"
           /\ \A j \in Requests : j # i => topUps'[j] = topUps[j]
           /\ \E t : /\ ledger' = ledger \cup {t} /\ t \notin ledger
                     /\ t.user = topUps[i].user /\ t.amount = topUps[i].amount
  <1> DEFINE row == [topUps[i] EXCEPT !.status = "confirmed", !.confirmedAt = TRUE,
                                      !.cancelledAt = FALSE]
             credit == Entry(CreditKey(i), topUps[i].user, "payment_credit",
                             topUps[i].amount, "cash_clearing", None)
  <1>1. topUps[i] \in TopUp
    BY AcceptedRow DEF Confirm
  <1>2. SameTerms(topUps[i], row) /\ row.status = "confirmed"
    BY <1>1 DEF TopUp, Statuses, SameTerms
  <1>3. /\ credit.key = CreditKey(i) /\ credit.user = topUps[i].user
        /\ credit.amount = topUps[i].amount
    BY DEF Entry
  <1>4. ~IsPosted(ledger, CreditKey(i)) /\ topUps[i].status # "confirmed"
    BY DEF Confirm, IInv, StatusMatchesLedger, Credited, Settled
  <1>5. ledger' = Post(ledger, credit) /\ topUps' = [topUps EXCEPT ![i] = row]
    BY DEF Confirm, Store
  <1> HIDE DEF row, credit
  <1>6. ledger' = ledger \cup {credit} /\ credit \notin ledger
    BY <1>3, <1>4, <1>5 DEF Post, IsPosted
  <1>7. topUps'[i] = row /\ \A j \in Requests : j # i => topUps'[j] = topUps[j]
    BY <1>5 DEF IInv, TypeOK
  <1> QED
    BY <1>2, <1>3, <1>4, <1>6, <1>7

(* What a chargeback does to them: only a confirmed row can have a credit  *)
(* that is not reversed yet.                                               *)
LEMMA ChargeBackMoves ==
    ASSUME IInv, NEW i \in Requests, ChargeBack(i)
    PROVE  /\ SameTerms(topUps[i], topUps'[i])
           /\ topUps[i].status = "confirmed" /\ topUps'[i].status = "chargebacked"
           /\ \A j \in Requests : j # i => topUps'[j] = topUps[j]
           /\ \E t : /\ ledger' = ledger \cup {t} /\ t \notin ledger
                     /\ t.user = topUps[i].user /\ t.amount = -topUps[i].amount
  <1> DEFINE row == [topUps[i] EXCEPT !.status = "chargebacked", !.confirmedAt = FALSE,
                                      !.cancelledAt = TRUE]
             credit == ByKey(ledger, CreditKey(i))
             reversal == Entry(ReversalKey(i), topUps[i].user, "reversal",
                               -credit.amount, credit.contra, credit.key)
  <1>1. topUps[i] \in TopUp
    BY AcceptedRow DEF ChargeBack
  <1>2. SameTerms(topUps[i], row) /\ row.status = "chargebacked"
    BY <1>1 DEF TopUp, Statuses, SameTerms
  <1>3. IsPosted(ledger, CreditKey(i)) /\ topUps[i].status # "chargebacked"
    BY DEF ChargeBack
  <1>4. topUps[i].status = "confirmed" /\ ~IsPosted(ledger, ReversalKey(i))
    BY <1>3 DEF IInv, StatusMatchesLedger, Credited, Reversed, Settled
  <1>5. credit \in ledger /\ credit.key = CreditKey(i)
    BY <1>3, CreditShape DEF IInv
  <1>6. credit.amount = topUps[i].amount
    BY <1>5 DEF IInv, CreditIsBacked
  <1>7. /\ reversal.key = ReversalKey(i) /\ reversal.user = topUps[i].user
        /\ reversal.amount = -credit.amount
    BY DEF Entry
  <1>8. ledger' = Post(ledger, reversal) /\ topUps' = [topUps EXCEPT ![i] = row]
    BY DEF ChargeBack, Store
  <1> HIDE DEF row, credit, reversal
  <1>9. ledger' = ledger \cup {reversal} /\ reversal \notin ledger
    BY <1>4, <1>7, <1>8 DEF Post, IsPosted
  <1>10. topUps'[i] = row /\ \A j \in Requests : j # i => topUps'[j] = topUps[j]
    BY <1>8 DEF IInv, TypeOK
  <1> QED
    BY <1>2, <1>4, <1>6, <1>7, <1>9, <1>10

(* Every other step moves no money and confirms no row; a new row has a    *)
(* key of its own.                                                         *)
LEMMA OtherMoves ==
    ASSUME IInv, NEW i \in Requests, Request(i) \/ Provider(i) \/ Close(i)
    PROVE  /\ ledger' = ledger
           /\ \A j \in Requests : j # i => topUps'[j] = topUps[j]
           /\ \/ topUps'[i] = topUps[i]
              \/ /\ SameTerms(topUps[i], topUps'[i])
                 /\ topUps[i].status # "confirmed" /\ topUps'[i].status # "confirmed"
              \/ /\ topUps[i] = NoRow /\ topUps'[i] \in TopUp
                 /\ topUps'[i].status = "creating"
                 /\ SameKey(topUps'[i].user, topUps'[i].key) = {}
  <1> DEFINE Outcome(row) ==
        \/ SameTerms(topUps[i], row) /\ topUps[i].status # "confirmed" /\ row.status # "confirmed"
        \/ /\ topUps[i] = NoRow /\ row \in TopUp /\ row.status = "creating"
           /\ SameKey(row.user, row.key) = {}
  <1>1. ASSUME NEW row, ledger' = ledger, topUps' = [topUps EXCEPT ![i] = row], Outcome(row)
        PROVE  /\ ledger' = ledger
               /\ \A j \in Requests : j # i => topUps'[j] = topUps[j]
               /\ Outcome(topUps'[i])
    <2>1. topUps'[i] = row /\ \A j \in Requests : j # i => topUps'[j] = topUps[j]
      BY <1>1 DEF IInv, TypeOK
    <2> HIDE DEF Outcome
    <2> QED
      BY <1>1, <2>1
  <1>2. ASSUME NEW u \in Users, NEW k \in Keys, NEW a \in Amounts, Insert(i, u, k, a)
        PROVE  \E row : ledger' = ledger /\ topUps' = [topUps EXCEPT ![i] = row] /\ Outcome(row)
    <2> DEFINE row == [user |-> u, key |-> k, amount |-> a, status |-> "creating",
                       provider |-> None, confirmedAt |-> FALSE, cancelledAt |-> FALSE]
    <2>1. row \in TopUp /\ row.status = "creating" /\ row.user = u /\ row.key = k
      BY DEF TopUp, Statuses
    <2>2. /\ topUps' = [topUps EXCEPT ![i] = row] /\ ledger' = ledger /\ topUps[i] = NoRow
          /\ SameKey(u, k) = {}
      BY <1>2 DEF Insert, IInv, RequestOrder
    <2> HIDE DEF row
    <2> QED
      BY <2>1, <2>2
  <1>3. ASSUME SaveFailure(i), topUps[i].status = "creating"
        PROVE  \E row : ledger' = ledger /\ topUps' = [topUps EXCEPT ![i] = row] /\ Outcome(row)
    <2> DEFINE row == [topUps[i] EXCEPT !.status = "failed"]
    <2>1. /\ topUps[i] \in TopUp /\ topUps' = [topUps EXCEPT ![i] = row] /\ ledger' = ledger
      BY <1>3 DEF SaveFailure, IInv, RequestOrder
    <2>2. SameTerms(topUps[i], row) /\ row.status = "failed"
      BY <2>1 DEF SameTerms, TopUp, Statuses
    <2> HIDE DEF row
    <2> QED
      BY <1>3, <2>1, <2>2
  <1>4. ASSUME SaveCheckout(i)
        PROVE  \E row : ledger' = ledger /\ topUps' = [topUps EXCEPT ![i] = row] /\ Outcome(row)
    <2> DEFINE row == [topUps[i] EXCEPT !.provider = i, !.status = "pending"]
    <2>1. /\ topUps[i] \in TopUp /\ topUps[i].status = "creating"
          /\ topUps' = [topUps EXCEPT ![i] = row] /\ ledger' = ledger
      BY <1>4 DEF SaveCheckout, IInv, RequestOrder
    <2>2. SameTerms(topUps[i], row) /\ row.status = "pending"
      BY <2>1 DEF SameTerms, TopUp, Statuses
    <2> HIDE DEF row
    <2> QED
      BY <2>1, <2>2
  <1>5. ASSUME Close(i)
        PROVE  \E row : ledger' = ledger /\ topUps' = [topUps EXCEPT ![i] = row] /\ Outcome(row)
    <2>1. PICK m \in callbacks :
            /\ m.status \in DOMAIN ClosedAs
            /\ Accepts(m, i)
            /\ topUps[i].status \notin {"confirmed", "chargebacked"}
            /\ Store(i, [topUps[i] EXCEPT
                           !.status = ClosedAs[m.status],
                           !.cancelledAt = @ \/ ClosedAs[m.status] = "cancelled"])
      BY <1>5 DEF Close
    <2> DEFINE row == [topUps[i] EXCEPT
                         !.status = ClosedAs[m.status],
                         !.cancelledAt = @ \/ ClosedAs[m.status] = "cancelled"]
    <2>2. topUps[i] \in TopUp
      BY <2>1, AcceptedRow
    <2>3. ClosedAs[m.status] \in {"cancelled", "expired", "failed"}
      BY <2>1 DEF ClosedAs
    <2>4. SameTerms(topUps[i], row) /\ row.status # "confirmed"
      BY <2>2, <2>3 DEF SameTerms, TopUp, Statuses
    <2>5. topUps' = [topUps EXCEPT ![i] = row] /\ ledger' = ledger
      BY <1>5, <2>1 DEF Store, Close
    <2> HIDE DEF row
    <2> QED
      BY <2>1, <2>4, <2>5
  <1> HIDE DEF Outcome
  <1>7. CASE \E row : ledger' = ledger /\ topUps' = [topUps EXCEPT ![i] = row] /\ Outcome(row)
    <2>1. PICK row : ledger' = ledger /\ topUps' = [topUps EXCEPT ![i] = row] /\ Outcome(row)
      BY <1>7
    <2>2. /\ \A j \in Requests : j # i => topUps'[j] = topUps[j]
          /\ Outcome(topUps'[i])
      BY <1>1, <2>1
    <2> QED
      BY <2>1, <2>2 DEF Outcome
  <1>8. CASE ledger' = ledger /\ topUps' = topUps
    BY <1>8
  <1>9. CASE Provider(i)
    BY <1>8, <1>9 DEF Provider, ReportUnpaid, Pay, Dispute
  <1>10. CASE Close(i)
    BY <1>5, <1>7, <1>10
  <1>11. CASE Request(i)
    <2>1. CASE \E u \in Users, k \in Keys, a \in Amounts : Insert(i, u, k, a)
      BY <1>2, <1>7, <2>1
    <2>2. CASE SaveFailure(i)
      <3>1. topUps[i].status = "creating"
        BY <2>2 DEF SaveFailure, IInv, RequestOrder
      <3> QED
        BY <1>3, <1>7, <2>2, <3>1
    <2>3. CASE SaveCheckout(i)
      BY <1>4, <1>7, <2>3
    <2> QED
      BY <1>8, <1>11, <2>1, <2>2, <2>3
      DEF Request, Replay, CheckoutIssued, CheckoutFailed, Abandon
  <1> QED
    BY <1>9, <1>10, <1>11

(* One row moves: it keeps its terms, or it is new with a new key.         *)
LEMMA RowsMove ==
    ASSUME IInv, NEW i \in Requests, Request(i) \/ Provider(i) \/ Callback(i)
    PROVE  /\ \A j \in Requests : j # i => topUps'[j] = topUps[j]
           /\ \/ topUps'[i] = topUps[i]
              \/ SameTerms(topUps[i], topUps'[i])
              \/ /\ topUps[i] = NoRow /\ topUps'[i] \in TopUp
                 /\ SameKey(topUps'[i].user, topUps'[i].key) = {}
  BY ConfirmMoves, ChargeBackMoves, OtherMoves DEF Callback

(* A step keeps the rows finite and their keys distinct.                   *)
LEMMA KeysStep ==
    ASSUME IInv, KeysOnce, IsFiniteSet(Inserted),
           NEW i \in Requests, Request(i) \/ Provider(i) \/ Callback(i)
    PROVE  KeysOnce' /\ IsFiniteSet(Inserted)'
  <1>1. \A j \in Requests : j # i => topUps'[j] = topUps[j]
    BY RowsMove
  <1>2. CASE topUps'[i] = topUps[i] \/ SameTerms(topUps[i], topUps'[i])
    <2>1. Inserted' = Inserted
      BY <1>1, <1>2, RowsDiffer DEF Inserted, SameTerms
    <2>2. \A j \in Inserted : topUps'[j].user = topUps[j].user /\ topUps'[j].key = topUps[j].key
      BY <1>1, <1>2 DEF Inserted, SameTerms
    <2> QED
      BY <2>1, <2>2 DEF KeysOnce
  <1>3. CASE /\ topUps[i] = NoRow /\ topUps'[i] \in TopUp
             /\ SameKey(topUps'[i].user, topUps'[i].key) = {}
    <2>1. Inserted' = Inserted \cup {i} /\ i \notin Inserted
      BY <1>1, <1>3, RowsDiffer DEF Inserted
    <2>2. \A j \in Inserted : topUps'[j] = topUps[j]
      BY <1>1, <2>1 DEF Inserted
    <2>3. \A j \in Inserted : ~(topUps[j].user = topUps'[i].user /\ topUps[j].key = topUps'[i].key)
      BY <1>3 DEF SameKey
    <2>4. IsFiniteSet(Inserted')
      BY <2>1, FS_AddElement
    <2>5. KeysOnce'
      BY <2>1, <2>2, <2>3 DEF KeysOnce
    <2> QED
      BY <2>4, <2>5
  <1> QED
    BY <1>2, <1>3, RowsMove

(* A row's amount is an integer, and so is its opposite.                   *)
LEMMA AmountsInt == \A r \in TopUp : r.amount \in Int /\ -r.amount \in Int
  <1>1. \A r \in TopUp : r.amount \in Amounts
    BY DEF TopUp
  <1>2. \A a \in Amounts : a \in Int /\ -a \in Int
    BY AmountsAssumption
  <1> QED
    BY <1>1, <1>2

(* The transactions and the rows that are summed are finitely many, and    *)
(* their amounts are integers.                                             *)
LEMMA Summable ==
    ASSUME TypeOK, IsFiniteSet(ledger), IsFiniteSet(Inserted), NEW u
    PROVE  /\ IsFiniteSet(WalletOf(u)) /\ \A t \in ledger : t.amount \in Int
           /\ IsFiniteSet(ConfirmedOf(u)) /\ \A i \in Inserted : topUps[i].amount \in Int
  <1>1. IsFiniteSet(WalletOf(u)) /\ IsFiniteSet(ConfirmedOf(u))
    BY FS_Subset DEF WalletOf, ConfirmedOf
  <1>2. ASSUME NEW t \in ledger PROVE t.amount \in Int
    <2>1. PICK i \in Requests, v \in Users, a \in Amounts :
            \/ t = Entry(CreditKey(i), v, "payment_credit", a, "cash_clearing", None)
            \/ t = Entry(ReversalKey(i), v, "reversal", -a, "cash_clearing", CreditKey(i))
      BY DEF TypeOK, Transactions
    <2>2. a \in Int /\ -a \in Int
      BY AmountsAssumption
    <2> QED
      BY <2>1, <2>2 DEF Entry
  <1>3. \A i \in Inserted : topUps[i].amount \in Int
    BY AmountsInt DEF TypeOK, Inserted
  <1> QED
    BY <1>1, <1>2, <1>3

(* A confirmation adds the same amount to a wallet and to its owner's list. *)
LEMMA ConfirmBalances ==
    ASSUME IInv, Books, NEW i \in Requests, Confirm(i)
    PROVE  IsFiniteSet(ledger)' /\ Balanced'
  <1>1. PICK t : /\ ledger' = ledger \cup {t} /\ t \notin ledger
                 /\ t.user = topUps[i].user /\ t.amount = topUps[i].amount
    BY ConfirmMoves
  <1>2. IsFiniteSet(ledger')
    BY <1>1, FS_AddElement DEF Books
  <1>3. /\ \A j \in Requests : j # i => topUps'[j] = topUps[j]
        /\ topUps[i] \in TopUp /\ topUps'[i] \in TopUp
        /\ topUps'[i].user = topUps[i].user /\ topUps'[i].amount = topUps[i].amount
        /\ topUps[i].status # "confirmed" /\ topUps'[i].status = "confirmed"
    BY ConfirmMoves DEF SameTerms
  <1>4. topUps[i].amount \in Int
    BY <1>3, AmountsInt
  <1>5. Inserted' = Inserted /\ i \in Inserted
    BY <1>3, RowsDiffer DEF Inserted
  <1>6. ASSUME NEW u \in Users
        PROVE  TotalAmount(WalletOf(u))' = RowsTotal(topUps, ConfirmedOf(u))'
    <2>1. PICK w : w = WalletOf(u)
      OBVIOUS
    <2>2. PICK c : c = ConfirmedOf(u)
      OBVIOUS
    <2>3. /\ IsFiniteSet(w) /\ IsFiniteSet(c) /\ c \subseteq Inserted
          /\ \A x \in w : x.amount \in Int
          /\ \A j \in Inserted : topUps[j].amount \in Int
      BY <2>1, <2>2, Summable DEF IInv, Books, WalletOf, ConfirmedOf
    <2>4. TotalAmount(w) = RowsTotal(topUps, c)
      BY <2>1, <2>2 DEF Books, Balanced
    <2>5. \A j \in c \cup {i} : topUps'[j].amount = topUps[j].amount
      BY <1>3, <2>3 DEF Inserted
    <2>6. CASE u = topUps[i].user
      <3>1. WalletOf(u)' = w \cup {t} /\ t \notin w
        BY <1>1, <2>1, <2>6 DEF WalletOf
      <3>2. ConfirmedOf(u)' = c \cup {i} /\ i \notin c
        BY <1>3, <1>5, <2>2, <2>6 DEF ConfirmedOf, Inserted
      <3>3. TotalAmount(w \cup {t}) = TotalAmount(w) + topUps[i].amount
        BY <1>1, <1>4, <2>3, <3>1, TotalAdd
      <3>4. RowsTotal(topUps, c \cup {i}) = RowsTotal(topUps, c) + topUps[i].amount
        BY <1>4, <2>3, <3>2, RowsTotalAdd
      <3>5. RowsTotal(topUps', c \cup {i}) = RowsTotal(topUps, c \cup {i})
        BY <2>3, <2>5, FS_AddElement, RowsTotalSame
      <3> QED
        BY <2>4, <3>1, <3>2, <3>3, <3>4, <3>5
    <2>7. CASE u # topUps[i].user
      <3>1. WalletOf(u)' = w
        BY <1>1, <2>1, <2>7 DEF WalletOf
      <3>2. ConfirmedOf(u)' = c
        BY <1>3, <1>5, <2>2, <2>7 DEF ConfirmedOf, Inserted
      <3>3. RowsTotal(topUps', c) = RowsTotal(topUps, c)
        BY <2>3, <2>5, RowsTotalSame
      <3> QED
        BY <2>4, <3>1, <3>2, <3>3
    <2> QED
      BY <2>6, <2>7
  <1> QED
    BY <1>2, <1>6 DEF Balanced

(* A chargeback takes the same amount from both.                           *)
LEMMA ChargeBackBalances ==
    ASSUME IInv, Books, NEW i \in Requests, ChargeBack(i)
    PROVE  IsFiniteSet(ledger)' /\ Balanced'
  <1>1. PICK t : /\ ledger' = ledger \cup {t} /\ t \notin ledger
                 /\ t.user = topUps[i].user /\ t.amount = -topUps[i].amount
    BY ChargeBackMoves
  <1>2. IsFiniteSet(ledger')
    BY <1>1, FS_AddElement DEF Books
  <1>3. /\ \A j \in Requests : j # i => topUps'[j] = topUps[j]
        /\ topUps[i] \in TopUp /\ topUps'[i] \in TopUp
        /\ topUps'[i].user = topUps[i].user /\ topUps'[i].amount = topUps[i].amount
        /\ topUps[i].status = "confirmed" /\ topUps'[i].status = "chargebacked"
    BY ChargeBackMoves DEF SameTerms
  <1>4. topUps[i].amount \in Int /\ -topUps[i].amount \in Int
    BY <1>3, AmountsInt
  <1>5. Inserted' = Inserted /\ i \in Inserted
    BY <1>3, RowsDiffer DEF Inserted
  <1>6. ASSUME NEW u \in Users
        PROVE  TotalAmount(WalletOf(u))' = RowsTotal(topUps, ConfirmedOf(u))'
    <2>1. PICK w : w = WalletOf(u)
      OBVIOUS
    <2>2. PICK c : c = ConfirmedOf(u)
      OBVIOUS
    <2>3. /\ IsFiniteSet(w) /\ IsFiniteSet(c) /\ c \subseteq Inserted
          /\ \A x \in w : x.amount \in Int
          /\ \A j \in Inserted : topUps[j].amount \in Int
      BY <2>1, <2>2, Summable DEF IInv, Books, WalletOf, ConfirmedOf
    <2>4. TotalAmount(w) = RowsTotal(topUps, c)
      BY <2>1, <2>2 DEF Books, Balanced
    <2>5. \A j \in c \cup {i} : topUps'[j].amount = topUps[j].amount
      BY <1>3, <2>3 DEF Inserted
    <2>6. CASE u = topUps[i].user
      <3> DEFINE d == c \ {i}
      <3>1. WalletOf(u)' = w \cup {t} /\ t \notin w
        BY <1>1, <2>1, <2>6 DEF WalletOf
      <3>2. ConfirmedOf(u)' = d
        BY <1>3, <1>5, <2>2, <2>6 DEF ConfirmedOf, Inserted
      <3>3. c = d \cup {i} /\ i \notin d /\ d \subseteq c
        BY <1>3, <1>5, <2>2, <2>6 DEF ConfirmedOf
      <3> HIDE DEF d
      <3>4. IsFiniteSet(d) /\ \A j \in d : topUps[j].amount \in Int
        BY <2>3, <3>3, FS_Subset
      <3>5. TotalAmount(w \cup {t}) = TotalAmount(w) + -topUps[i].amount
        BY <1>1, <1>4, <2>3, <3>1, TotalAdd
      <3>6. RowsTotal(topUps, d \cup {i}) = RowsTotal(topUps, d) + topUps[i].amount
        BY <1>4, <3>3, <3>4, RowsTotalAdd
      <3>7. RowsTotal(topUps', d) = RowsTotal(topUps, d)
        BY <2>5, <3>3, <3>4, RowsTotalSame
      <3>8. RowsTotal(topUps, d) \in Int
        BY <3>4, RowsTotalInt
      <3>9. TotalAmount(w) = RowsTotal(topUps, d) + topUps[i].amount
        BY <2>4, <3>3, <3>6
      <3>10. TotalAmount(w \cup {t}) = RowsTotal(topUps, d)
        BY <1>4, <3>5, <3>8, <3>9
      <3> QED
        BY <3>1, <3>2, <3>7, <3>10
    <2>7. CASE u # topUps[i].user
      <3>1. WalletOf(u)' = w
        BY <1>1, <2>1, <2>7 DEF WalletOf
      <3>2. ConfirmedOf(u)' = c
        BY <1>3, <1>5, <2>2, <2>7 DEF ConfirmedOf, Inserted
      <3>3. RowsTotal(topUps', c) = RowsTotal(topUps, c)
        BY <2>3, <2>5, RowsTotalSame
      <3> QED
        BY <2>4, <3>1, <3>2, <3>3
    <2> QED
      BY <2>6, <2>7
  <1> QED
    BY <1>2, <1>6 DEF Balanced

(* Every other step leaves both sums alone.                                *)
LEMMA OtherBalances ==
    ASSUME IInv, Books, NEW i \in Requests, Request(i) \/ Provider(i) \/ Close(i)
    PROVE  IsFiniteSet(ledger)' /\ Balanced'
  <1>1. /\ ledger' = ledger
        /\ \A j \in Requests : j # i => topUps'[j] = topUps[j]
    BY OtherMoves
  <1>2. \/ topUps'[i] = topUps[i]
        \/ /\ topUps[i] = NoRow \/ topUps[i].status # "confirmed"
           /\ topUps'[i].status # "confirmed"
    BY OtherMoves
  <1>3. ASSUME NEW u \in Users
        PROVE  TotalAmount(WalletOf(u))' = RowsTotal(topUps, ConfirmedOf(u))'
    <2>1. PICK c : c = ConfirmedOf(u)
      OBVIOUS
    <2>2. ConfirmedOf(u)' = c
      BY <1>1, <1>2, <2>1 DEF ConfirmedOf, Inserted
    <2>3. \A j \in c : topUps'[j].amount = topUps[j].amount
      BY <1>1, <1>2, <2>1 DEF ConfirmedOf, Inserted
    <2>4. IsFiniteSet(c)
      BY <2>1, Summable DEF IInv, Books
    <2>5. RowsTotal(topUps', c) = RowsTotal(topUps, c)
      BY <2>3, <2>4, RowsTotalSame
    <2>6. WalletOf(u)' = WalletOf(u)
      BY <1>1 DEF WalletOf
    <2>7. TotalAmount(WalletOf(u)) = RowsTotal(topUps, c)
      BY <2>1 DEF Books, Balanced
    <2> QED
      BY <2>2, <2>5, <2>6, <2>7
  <1> QED
    BY <1>1, <1>3 DEF Balanced, Books

(* The books are empty and balance at the start, and every step keeps them. *)
LEMMA AccountsAlways == Spec => []Accounts
  <1>1. Init => Accounts
    <2> SUFFICES ASSUME Init PROVE Accounts
      OBVIOUS
    <2>1. Inserted = {} /\ ledger = {}
      BY DEF Init, Inserted
    <2>2. \A u \in Users : WalletOf(u) = {} /\ ConfirmedOf(u) = {}
      BY <2>1 DEF WalletOf, ConfirmedOf
    <2>3. TotalAmount({}) = 0 /\ RowsTotal(topUps, {}) = 0
      BY TotalEmpty, RowsTotalIs, SumEmpty, FS_EmptySet
    <2>4. Balanced
      BY <2>2, <2>3 DEF Balanced
    <2> QED
      BY <2>1, <2>4, InvInit, FS_EmptySet DEF Accounts, KeysOnce, Books
  <1>2. Accounts /\ [Next]_vars => Accounts'
    <2> SUFFICES ASSUME Accounts, [Next]_vars PROVE Accounts'
      OBVIOUS
    <2>1. IInv'
      BY InvStep DEF Accounts
    <2>2. CASE UNCHANGED vars
      <3>1. topUps' = topUps /\ ledger' = ledger
        BY <2>2 DEF vars
      <3> QED
        BY <2>1, <3>1
        DEF Accounts, KeysOnce, Books, Balanced, Inserted, WalletOf, ConfirmedOf
    <2>3. ASSUME NEW i \in Requests, Request(i) \/ Provider(i) \/ Callback(i)
          PROVE  Accounts'
      <3>1. KeysOnce' /\ IsFiniteSet(Inserted)'
        BY <2>3, KeysStep DEF Accounts, Books
      <3>2. IsFiniteSet(ledger)' /\ Balanced'
        BY <2>3, ConfirmBalances, ChargeBackBalances, OtherBalances DEF Accounts, Callback
      <3> QED
        BY <2>1, <3>1, <3>2 DEF Accounts, Books
    <2> QED
      BY <2>2, <2>3 DEF Next
  <1> QED
    BY <1>1, <1>2, PTL DEF Spec

-----------------------------------------------------------------------------
(* The theorems *)

(* Every row, request, checkout, callback and transaction keeps its type.  *)
THEOREM TypeCorrect == Spec => []TypeOK
  BY Invariance, PTL DEF IInv

(* The status of a top-up and the ledger agree in every reachable state,   *)
(* for any number of requests and callbacks.                               *)
THEOREM StatusAlwaysMatchesLedger == Spec => []StatusMatchesLedger
  BY Invariance, PTL DEF IInv

(* Every credit has a confirmation of its amount behind it. *)
THEOREM CreditsAreBacked == Spec => []CreditIsBacked
  BY Invariance, PTL DEF IInv

(* However often a customer repeats a request, and wherever the earlier    *)
(* ones stopped, the provider never holds two transactions for one key:    *)
(* only a request with a row calls it, and a key names one row.            *)
THEOREM ChecksOutOncePerKey == Spec => []OneCheckoutPerKey
  <1>1. Accounts => OneCheckoutPerKey
    <2> SUFFICES ASSUME Accounts, NEW i \in Requests, NEW j \in Requests,
                        checkouts[i] # "none", checkouts[j] # "none",
                        topUps[i].user = topUps[j].user, topUps[i].key = topUps[j].key
                 PROVE  i = j
      BY DEF OneCheckoutPerKey
    <2>1. i \in Inserted /\ j \in Inserted
      BY RowsDiffer DEF Accounts, IInv, RequestOrder, Inserted
    <2> QED
      BY <2>1 DEF Accounts, KeysOnce
  <1> QED
    BY <1>1, AccountsAlways, PTL

(* For any number of top-ups, the entries of a wallet sum to the amounts   *)
(* its owner reads as confirmed.                                           *)
THEOREM BalanceAlwaysIsConfirmedTopUps == Spec => []BalanceIsConfirmedTopUps
  <1>1. Accounts => BalanceIsConfirmedTopUps
    <2> SUFFICES ASSUME Accounts, NEW u \in Users
                 PROVE  WalletBalance(ledger, u) =
                          MapThenSumSet(LAMBDA i : topUps[i].amount,
                            {i \in Inserted : topUps[i].user = u /\ topUps[i].status = "confirmed"})
      BY DEF BalanceIsConfirmedTopUps
    <2>1. TotalAmount(WalletOf(u)) = RowsTotal(topUps, ConfirmedOf(u))
      BY DEF Accounts, Books, Balanced
    <2> QED
      BY <2>1 DEF WalletBalance, TotalAmount, WalletOf, RowsTotal, ConfirmedOf
  <1> QED
    BY <1>1, AccountsAlways, PTL

(* After money moved, a row only ever goes from confirmed to charged back. *)
THEOREM SettledRowsOnlyChargeBack == Spec => SettledOnlyChargesBack
  <1> DEFINE Forward ==
        \A i \in Requests : topUps[i].status \in Settled =>
            \/ topUps'[i].status = topUps[i].status
            \/ topUps[i].status = "confirmed" /\ topUps'[i].status = "chargebacked"
  <1>1. IInv /\ [Next]_vars => [Forward]_vars
    <2> SUFFICES ASSUME IInv, NEW i \in Requests, Request(i) \/ Provider(i) \/ Callback(i)
                 PROVE  Forward
      BY DEF Next
    <2> SUFFICES ASSUME NEW j \in Requests, topUps[j].status \in Settled
                 PROVE  \/ topUps'[j].status = topUps[j].status
                        \/ topUps[j].status = "confirmed" /\ topUps'[j].status = "chargebacked"
      OBVIOUS
    <2>1. topUps[j] # NoRow /\ topUps[j].status \notin {"creating", "absent"}
      BY DEF Settled, NoRow
    <2>2. CASE \E u \in Users, k \in Keys, a \in Amounts : Insert(i, u, k, a)
      BY <2>1, <2>2 DEF Insert, IInv, TypeOK, RequestOrder
    <2>3. CASE SaveFailure(i)
      BY <2>1, <2>3 DEF SaveFailure, IInv, TypeOK, RequestOrder
    <2>4. CASE SaveCheckout(i)
      BY <2>1, <2>4 DEF SaveCheckout, IInv, TypeOK, RequestOrder
    <2>5. CASE Confirm(i)
      BY <2>5 DEF Confirm, Store, IInv, TypeOK, Settled
    <2>6. CASE Close(i)
      BY <2>6 DEF Close, Store, IInv, TypeOK, Settled
    <2>7. CASE ChargeBack(i)
      <3>1. topUps[i] \in TopUp
        BY <2>7, AcceptedRow DEF ChargeBack
      <3>2. topUps'[i].status = "chargebacked" /\ (j # i => topUps'[j] = topUps[j])
        BY <2>7, <3>1 DEF ChargeBack, Store, IInv, TypeOK, TopUp
      <3> QED
        BY <3>2, <2>7 DEF ChargeBack, Settled
    <2>8. CASE UNCHANGED topUps
      BY <2>8
    <2>9. \/ \E u \in Users, k \in Keys, a \in Amounts : Insert(i, u, k, a)
          \/ SaveFailure(i) \/ SaveCheckout(i)
          \/ Confirm(i) \/ Close(i) \/ ChargeBack(i)
          \/ UNCHANGED topUps
      BY DEF Request, Provider, Callback, Replay, CheckoutIssued, CheckoutFailed, Abandon,
         ReportUnpaid, Pay, Dispute
    <2> QED
      BY <2>2, <2>3, <2>4, <2>5, <2>6, <2>7, <2>8, <2>9
  <1> QED
    BY <1>1, Invariance, PTL DEF SettledOnlyChargesBack, Spec

(* The safety half of the promise: every step of the top-ups is a step of  *)
(* TopUpPromise or changes nothing it speaks of, so money reaches a wallet *)
(* at most once and only after payment, and leaves it at most once and     *)
(* only after a chargeback.                                                *)
THEOREM ImplementsPromise == Spec => Promise!Safety
  <1> USE DEF IInv
  <1>1. Init => Promise!Init
    BY DEF Init, Promise!Init, Reported, Credited, Reversed, IsPosted
  <1>2. IInv /\ [Next]_vars => [Promise!Next]_(Promise!vars)
    <2> SUFFICES ASSUME IInv, [Next]_vars
                 PROVE  Promise!Next \/ UNCHANGED Promise!vars
      OBVIOUS
    <2> USE DEF Promise!vars, Reported, Credited, Reversed
    <2>1. CASE UNCHANGED vars
      BY <2>1 DEF vars, Inserted
    <2>2. ASSUME NEW i \in Requests, NEW u \in Users, NEW k \in Keys, NEW a \in Amounts,
                 Insert(i, u, k, a)
          PROVE  UNCHANGED Promise!vars
      <3>1. /\ topUps[i] = NoRow /\ \A m \in callbacks : m.id # i
            /\ UNCHANGED <<callbacks, ledger>>
            /\ \A j \in Requests \ {i} : topUps'[j] = topUps[j]
        BY <2>2, RowsDiffer DEF Insert, TypeOK, RequestOrder
      <3>2. \A j \in Requests : \A b, s : [id |-> j, amount |-> b, status |-> s] \in callbacks => j # i
        BY <3>1
      <3> QED
        BY <3>1, <3>2 DEF Inserted
    <2>3. ASSUME NEW i \in Requests, SaveFailure(i) \/ SaveCheckout(i)
          PROVE  UNCHANGED Promise!vars
      <3>1. topUps[i] \in TopUp
        BY <2>3 DEF SaveFailure, SaveCheckout, RequestOrder
      <3>2. /\ topUps'[i] \in TopUp /\ topUps'[i].amount = topUps[i].amount
            /\ UNCHANGED <<callbacks, ledger>>
            /\ \A j \in Requests \ {i} : topUps'[j] = topUps[j]
        BY <2>3, <3>1 DEF SaveFailure, SaveCheckout, TypeOK, TopUp, Statuses
      <3> QED
        BY <3>1, <3>2, RowsDiffer DEF Inserted
    <2>4. ASSUME NEW i \in Requests, NEW s \in DOMAIN ClosedAs, ReportUnpaid(i, s)
          PROVE  UNCHANGED Promise!vars
      BY <2>4 DEF ReportUnpaid, Send, ClosedAs, Inserted
    <2>5. ASSUME NEW i \in Requests, NEW a \in Amounts, Pay(i, a)
          PROVE  Promise!Pay(i) \/ UNCHANGED Promise!vars
      <3>1. i \in Inserted
        BY <2>5, RowsDiffer DEF Pay, RequestOrder, Inserted
      <3>2. /\ Reported("CONFIRMED")' = IF a = topUps[i].amount
                                        THEN Reported("CONFIRMED") \cup {i}
                                        ELSE Reported("CONFIRMED")
            /\ Reported("CHARGEBACKED")' = Reported("CHARGEBACKED")
        BY <2>5, <3>1 DEF Pay, Send, Inserted
      <3>3. Credited' = Credited /\ Reversed' = Reversed
        BY <2>5 DEF Pay
      <3> QED
        BY <3>2, <3>3 DEF Promise!Pay
    <2>6. ASSUME NEW i \in Requests, NEW a \in Amounts, Dispute(i, a)
          PROVE  Promise!Dispute(i) \/ UNCHANGED Promise!vars
      <3>1. i \in Inserted
        BY <2>6, RowsDiffer DEF Dispute, RequestOrder, Inserted
      <3>2. /\ Reported("CHARGEBACKED")' = IF a = topUps[i].amount
                                           THEN Reported("CHARGEBACKED") \cup {i}
                                           ELSE Reported("CHARGEBACKED")
            /\ Reported("CONFIRMED")' = Reported("CONFIRMED")
            /\ a = topUps[i].amount => i \in Reported("CONFIRMED")
        BY <2>6, <3>1 DEF Dispute, Send, Inserted
      <3>3. Credited' = Credited /\ Reversed' = Reversed
        BY <2>6 DEF Dispute
      <3> QED
        BY <3>2, <3>3 DEF Promise!Dispute
    <2>7. ASSUME NEW i \in Requests, Confirm(i)
          PROVE  Promise!Credit(i)
      <3>1. i \in Reported("CONFIRMED") \ Credited
        <4>1. PICK m \in callbacks : m.status = "CONFIRMED" /\ Accepts(m, i)
          BY <2>7 DEF Confirm
        <4>2. [id |-> i, amount |-> topUps[i].amount, status |-> "CONFIRMED"] \in callbacks
          BY <4>1, AcceptedRow
        <4> QED
          BY <2>7, <4>1, <4>2 DEF Confirm, Accepts, StatusMatchesLedger, Settled
      <3>2. /\ \A k : IsPosted(ledger', k) <=> IsPosted(ledger, k) \/ k = CreditKey(i)
            /\ callbacks' = callbacks
        BY <2>7, <3>1, PostNew DEF Confirm, Entry, Store
      <3>3. UNCHANGED <<Reported("CONFIRMED"), Reported("CHARGEBACKED")>>
        BY <2>7, AmountKept, <3>2 DEF Confirm, Callback
      <3> QED
        BY <3>1, <3>2, <3>3, KeysDiffer DEF Promise!Credit
    <2>8. ASSUME NEW i \in Requests, Close(i)
          PROVE  UNCHANGED Promise!vars
      BY <2>8, AmountKept DEF Close, Store, Callback
    <2>9. ASSUME NEW i \in Requests, ChargeBack(i)
          PROVE  Promise!Reverse(i)
      <3>1. i \in (Reported("CHARGEBACKED") \cap Credited) \ Reversed
        <4>1. PICK m \in callbacks : m.status = "CHARGEBACKED" /\ Accepts(m, i)
          BY <2>9 DEF ChargeBack
        <4>2. [id |-> i, amount |-> topUps[i].amount, status |-> "CHARGEBACKED"] \in callbacks
          BY <4>1, AcceptedRow
        <4> QED
          BY <2>9, <4>1, <4>2 DEF ChargeBack, Accepts, StatusMatchesLedger
      <3>2. /\ \A k : IsPosted(ledger', k) <=> IsPosted(ledger, k) \/ k = ReversalKey(i)
            /\ callbacks' = callbacks
        BY <2>9, <3>1, PostNew DEF ChargeBack, Entry, Store
      <3>3. UNCHANGED <<Reported("CONFIRMED"), Reported("CHARGEBACKED")>>
        BY <2>9, AmountKept, <3>2 DEF Callback
      <3> QED
        BY <3>1, <3>2, <3>3, KeysDiffer DEF Promise!Reverse
    <2>10. ASSUME NEW i \in Requests,
                  \/ \E u \in Users, k \in Keys, a \in Amounts : Replay(i, u, k, a)
                  \/ CheckoutIssued(i) \/ CheckoutFailed(i) \/ Abandon(i)
           PROVE  UNCHANGED Promise!vars
      BY <2>10 DEF Replay, CheckoutIssued, CheckoutFailed, Abandon, Inserted
    <2> QED
      BY <2>1, <2>2, <2>3, <2>4, <2>5, <2>6, <2>7, <2>8, <2>9, <2>10
      DEF Next, Request, Provider, Callback, Promise!Next
  <1> QED
    BY <1>1, <1>2, Invariance, PTL DEF Spec, Promise!Safety

-----------------------------------------------------------------------------
(* Referrals *)

(* What the rows are made of.                                              *)
ReferralStatuses == {"none", "attributed", "qualified", "rewarded", "rejected"}

Subscription ==
    [status : {"none", "active", "suspended"}, days : Nat, vpn : {"none", "active", "disabled"}]

PeriodRow ==
    [user : Customers, source : Customers \X (Sides \cup {"purchase"}), from : Nat, to : Nat]

(* The type of the state.                                                  *)
ReferralTypeOK ==
    /\ codes \subseteq Customers /\ blocked \subseteq Customers /\ trials \subseteq Customers
    /\ referrals \in [Customers -> [by : Customers \cup {Nobody}, status : ReferralStatuses]]
    /\ rewards \subseteq [of : Customers, side : Sides, status : {"pending", "granted"}]
    /\ subscriptions \in [Customers -> Subscription]
    /\ periods \subseteq PeriodRow
    /\ planActive \in BOOLEAN /\ faults \in Nat

(* What each process holds and may rely on. *)
Claiming(p) ==
    \E u, owner \in Customers :
        procs[p] = [phase |-> "claiming", user |-> u, code |-> owner,
                    locks |-> {UserRow(u), CodeRow(owner)}] /\ owner # u

(* ... a worker with a referral ...                                        *)
Taken(p) ==
    \E u \in Customers :
        /\ procs[p] = [phase |-> "taken", user |-> u, locks |-> {ReferralRow(u)}]
        /\ referrals[u].status = "qualified"

(* ... and one with its referrer too.                                      *)
Settling(p) ==
    \E u \in Customers :
        /\ procs[p] = [phase |-> "settling", user |-> u,
                       locks |-> {ReferralRow(u), UserRow(referrals[u].by)}]
        /\ referrals[u].status = "qualified"

(* Each process is at one of these points.                                 *)
ProcessesKnow ==
    /\ procs = [p \in Procs |-> procs[p]]
    /\ \A p \in Procs : procs[p] = Idle \/ Claiming(p) \/ Taken(p) \/ Settling(p)

(* No two processes hold the same row. *)
RowsApart == \A p, q \in Procs : p # q => procs[p].locks \cap procs[q].locks = {}

(* Who is referred is so by another. *)
ByAnother ==
    \A u \in Customers :
        IF referrals[u].status = "none" THEN referrals[u].by = Nobody
        ELSE referrals[u].by \in Customers \ {u}

(* The referrals that count against the limit of a code. *)
BroughtBy(u) == {r \in Customers : referrals[r].by = u /\ referrals[r].status # "rejected"}

(* No code brings more of them than it may.                                *)
LimitsKept ==
    \A u \in Customers : IsFiniteSet(BroughtBy(u)) /\ Cardinality(BroughtBy(u)) <= UsageLimit

(* The period p has the day d. *)
Covers(p, d) == p.from <= d /\ d < p.to

(* Each of n days is in one of the periods P. *)
Tile(P, n) ==
    /\ \A p \in P : p.from < p.to /\ p.to <= n
    /\ \A d \in 0 .. n - 1 : \E p \in P : \A q \in P : Covers(q, d) <=> q = p

(* The periods of one user.                                                *)
PeriodsOf(u) == {p \in periods : p.user = u}

(* They are the days the user has, each once.                              *)
DaysTiled ==
    \A u \in Customers :
        /\ Tile(PeriodsOf(u), subscriptions[u].days)
        /\ subscriptions[u].status = "none" => subscriptions[u].days = 0

(* A suspended user has no VPN.                                            *)
StaySuspended ==
    \A u \in Customers : subscriptions[u].status = "suspended" => subscriptions[u].vpn = "disabled"

(* The inductive invariant.                                                *)
ReferralIInv ==
    /\ ReferralTypeOK /\ ProcessesKnow /\ RowsApart /\ ByAnother
    /\ LimitsKept /\ RewardsFollowReferrals /\ DaysTiled /\ StaySuspended

-----------------------------------------------------------------------------
(* Processes *)

(* A process turns to something new, or gives up its rows; the referrals   *)
(* that others took are as they were.                                      *)
LEMMA ProcessTurns ==
    ASSUME ProcessesKnow, RowsApart, NEW p \in Procs, NEW state, Become(p, state),
           \A u \in Customers : referrals[u].status = "qualified" =>
               referrals'[u] = referrals[u] \/ ReferralRow(u) \in procs[p].locks,
           state = Idle \/ Claiming(p)' \/ Taken(p)' \/ Settling(p)',
           \A q \in Procs \ {p} : state.locks \cap procs[q].locks = {}
    PROVE  ProcessesKnow' /\ RowsApart'
  <1>1. /\ procs' = [q \in Procs |-> procs'[q]] /\ procs'[p] = state
        /\ \A q \in Procs \ {p} : procs'[q] = procs[q]
    BY DEF Become, ProcessesKnow
  <1>2. ASSUME NEW q \in Procs \ {p}
        PROVE  (procs[q] = Idle \/ Claiming(q) \/ Taken(q) \/ Settling(q))'
    <2>1. procs'[q] = procs[q] /\ procs[p].locks \cap procs[q].locks = {}
      BY <1>1, <1>2 DEF RowsApart
    <2>2. CASE procs[q] = Idle
      BY <2>1, <2>2
    <2>3. CASE Claiming(q)
      BY <2>1, <2>3 DEF Claiming
    <2>4. CASE Taken(q)
      <3>1. PICK u \in Customers :
              /\ procs[q] = [phase |-> "taken", user |-> u, locks |-> {ReferralRow(u)}]
              /\ referrals[u].status = "qualified"
        BY <2>4 DEF Taken
      <3>2. referrals'[u] = referrals[u]
        BY <2>1, <3>1
      <3> QED
        BY <2>1, <3>1, <3>2 DEF Taken
    <2>5. CASE Settling(q)
      <3>1. PICK u \in Customers :
              /\ procs[q] = [phase |-> "settling", user |-> u,
                             locks |-> {ReferralRow(u), UserRow(referrals[u].by)}]
              /\ referrals[u].status = "qualified"
        BY <2>5 DEF Settling
      <3>2. referrals'[u] = referrals[u]
        BY <2>1, <3>1
      <3> QED
        BY <2>1, <3>1, <3>2 DEF Settling
    <2> QED
      BY <1>2, <2>2, <2>3, <2>4, <2>5 DEF ProcessesKnow
  <1>3. (procs[p] = Idle \/ Claiming(p) \/ Taken(p) \/ Settling(p))'
    BY <1>1
  <1>4. ProcessesKnow'
    BY <1>1, <1>2, <1>3 DEF ProcessesKnow
  <1>5. RowsApart'
    BY <1>1 DEF RowsApart
  <1> QED
    BY <1>4, <1>5

(* A process gives up its rows.                                            *)
LEMMA ProcessRests ==
    ASSUME ProcessesKnow, RowsApart, NEW p \in Procs, Become(p, Idle),
           \A u \in Customers : referrals[u].status = "qualified" =>
               referrals'[u] = referrals[u] \/ ReferralRow(u) \in procs[p].locks
    PROVE  ProcessesKnow' /\ RowsApart'
  <1>1. \A q \in Procs \ {p} : Idle.locks \cap procs[q].locks = {}
    BY DEF Idle
  <1> QED
    BY <1>1, ProcessTurns

(* No process does anything and no referral that may be taken changes.     *)
LEMMA ProcessesStay ==
    ASSUME ProcessesKnow, RowsApart, UNCHANGED procs,
           \A u \in Customers : referrals[u].status = "qualified" => referrals'[u] = referrals[u]
    PROVE  ProcessesKnow' /\ RowsApart'
  <1>1. RowsApart'
    BY DEF RowsApart
  <1>2. ASSUME NEW q \in Procs
        PROVE  (procs[q] = Idle \/ Claiming(q) \/ Taken(q) \/ Settling(q))'
    BY DEF ProcessesKnow, Claiming, Taken, Settling
  <1>3. (procs = [q \in Procs |-> procs[q]])'
    BY DEF ProcessesKnow
  <1> QED
    BY <1>1, <1>2, <1>3 DEF ProcessesKnow

(* What a process in each phase has.                                       *)
LEMMA ProcPhases ==
    ASSUME ProcessesKnow, NEW p \in Procs
    PROVE  /\ procs[p].phase = "idle" => procs[p] = Idle
           /\ procs[p].phase = "claiming" => Claiming(p)
           /\ procs[p].phase = "taken" => Taken(p)
           /\ procs[p].phase = "settling" => Settling(p)
  BY DEF ProcessesKnow, Idle, Claiming, Taken, Settling

-----------------------------------------------------------------------------
(* Periods *)

(* A period that begins where the others end.                              *)
LEMMA TileGrows ==
    ASSUME NEW P, NEW n \in Nat, NEW m \in Nat \ {0}, NEW r, Tile(P, n),
           \A p \in P : p.from \in Nat /\ p.to \in Nat, r.from = n, r.to = n + m
    PROVE  Tile(P \cup {r}, n + m)
  <1>1. \A p \in P \cup {r} : p.from < p.to /\ p.to <= n + m
    BY DEF Tile
  <1>2. ASSUME NEW d \in 0 .. n + m - 1
        PROVE  \E p \in P \cup {r} : \A q \in P \cup {r} : Covers(q, d) <=> q = p
    <2>1. CASE d < n
      <3>1. PICK p \in P : \A q \in P : Covers(q, d) <=> q = p
        BY <2>1 DEF Tile
      <3>2. ~Covers(r, d) /\ Covers(p, d)
        BY <2>1, <3>1 DEF Covers
      <3> QED
        BY <3>1, <3>2
    <2>2. CASE d >= n
      <3>1. Covers(r, d)
        BY <2>2 DEF Covers
      <3>2. \A q \in P : ~Covers(q, d)
        BY <2>2 DEF Covers, Tile
      <3> QED
        BY <3>1, <3>2
    <2> QED
      BY <2>1, <2>2
  <1> QED
    BY <1>1, <1>2 DEF Tile

(* A user without days has no period.                                      *)
LEMMA NothingTiled ==
    ASSUME NEW P, Tile(P, 0), \A p \in P : p.from \in Nat /\ p.to \in Nat
    PROVE  P = {}
  BY DEF Tile

(* A day in one period is one that Cardinality counts once.                *)
LEMMA TileCounts ==
    ASSUME NEW P, NEW n \in Nat, Tile(P, n), NEW d \in 0 .. n - 1
    PROVE  Cardinality({p \in P : p.from <= d /\ d < p.to}) = 1
  <1>1. PICK p \in P : \A q \in P : Covers(q, d) <=> q = p
    BY DEF Tile
  <1>2. {q \in P : q.from <= d /\ d < q.to} = {p}
    BY <1>1 DEF Covers
  <1> QED
    BY <1>2, FS_Singleton

(* The days of one user are extended by a period, those of the others stay.*)
LEMMA Extends ==
    ASSUME ReferralTypeOK, NEW u \in Customers, Tile(PeriodsOf(u), subscriptions[u].days),
           NEW m \in Nat \ {0}, NEW r,
           r.from = subscriptions[u].days, r.to = subscriptions[u].days + m,
           PeriodsOf(u)' = PeriodsOf(u) \cup {r},
           subscriptions'[u].days = subscriptions[u].days + m
    PROVE  Tile(PeriodsOf(u), subscriptions[u].days)'
  <1>1. subscriptions[u].days \in Nat
    BY DEF ReferralTypeOK, Subscription, PeriodRow
  <1>2. \A p \in PeriodsOf(u) : p.from \in Nat /\ p.to \in Nat
    BY DEF ReferralTypeOK, PeriodsOf, Subscription, PeriodRow
  <1>3. PICK n \in Nat : n = subscriptions[u].days
    BY <1>1
  <1>4. PICK P : P = PeriodsOf(u)
    OBVIOUS
  <1>5. Tile(P \cup {r}, n + m)
    BY <1>2, <1>3, <1>4, TileGrows
  <1>6. PeriodsOf(u)' = P \cup {r} /\ subscriptions'[u].days = n + m
    BY <1>3, <1>4
  <1> QED
    BY <1>5, <1>6 DEF Tile

-----------------------------------------------------------------------------
(* Rewards *)

(* A period came of the referral of u. *)
Paid(u) == \E p \in periods, s \in Sides : p.source = <<u, s>>

RewardsFollow(u) ==
    LET status == referrals[u].status
    IN  /\ RewardsOf(u) = IF status \in {"qualified", "rewarded"}
                          THEN {[of |-> u, side |-> s,
                                 status |-> IF status = "rewarded" THEN "granted" ELSE "pending"] :
                                    s \in Sides}
                          ELSE {}
        /\ u \in trials <=> status = "rewarded"
        /\ Paid(u) <=> status = "rewarded"

(* The property, of one referral at a time.                                *)
LEMMA RewardsOfEach == RewardsFollowReferrals <=> \A u \in Customers : RewardsFollow(u)
  <1>1. ASSUME NEW u \in Customers
        PROVE  {p \in periods : p.source \in {<<u, s>> : s \in Sides}} # {} <=> Paid(u)
    BY DEF Paid
  <1> QED
    BY <1>1 DEF RewardsFollowReferrals, RewardsFollow

(* ... and so it is after a step.                                          *)
LEMMA RewardsOfEachNext ==
    ASSUME \A u \in Customers : RewardsFollow(u)'
    PROVE  RewardsFollowReferrals'
  <1>1. (\A u \in Customers : RewardsFollow(u))'
    OBVIOUS
  <1> QED
    BY <1>1, RewardsOfEach, PTL

(* Who keeps a status keeps its rewards.                                   *)
LEMMA RewardsFollowOn ==
    ASSUME NEW u \in Customers, RewardsFollow(u), referrals'[u].status = referrals[u].status,
           RewardsOf(u)' = RewardsOf(u), u \in trials' <=> u \in trials, Paid(u)' <=> Paid(u)
    PROVE  RewardsFollow(u)'
  BY DEF RewardsFollow

-----------------------------------------------------------------------------
(* Steps *)

(* What depends on the referrals, what on the periods.                     *)
LEMMA SameReferrals ==
    ASSUME ReferralIInv, UNCHANGED referrals
    PROVE  ByAnother' /\ LimitsKept'
  <1>1. ByAnother'
    BY DEF ReferralIInv, ByAnother
  <1>2. \A u \in Customers : BroughtBy(u)' = BroughtBy(u)
    BY DEF BroughtBy
  <1>3. LimitsKept'
    BY <1>2 DEF ReferralIInv, LimitsKept
  <1> QED
    BY <1>1, <1>3

(* No day is added or taken.                                               *)
LEMMA SameDays ==
    ASSUME ReferralIInv, UNCHANGED <<subscriptions, periods>>
    PROVE  DaysTiled' /\ StaySuspended'
  <1>1. \A u \in Customers : PeriodsOf(u)' = PeriodsOf(u)
    BY DEF PeriodsOf
  <1> QED
    BY <1>1 DEF ReferralIInv, DaysTiled, StaySuspended, Tile

(* No reward, trial or referral changes, nor what was paid for.            *)
LEMMA SameRewards ==
    ASSUME ReferralIInv, UNCHANGED <<referrals, rewards, trials>>,
           \A u \in Customers : Paid(u)' <=> Paid(u)
    PROVE  RewardsFollowReferrals'
  <1>1. \A u \in Customers : RewardsOf(u)' = RewardsOf(u)
    BY DEF RewardsOf
  <1>2. \A u \in Customers : RewardsFollow(u)'
    BY <1>1, RewardsOfEach, RewardsFollowOn DEF ReferralIInv
  <1> QED
    BY <1>2, RewardsOfEachNext

(* Steps of the rest of the system, and of processes that change no row.   *)
LEMMA RowsStay ==
    ASSUME ReferralIInv, UNCHANGED <<referrals, granted>>,
           (codes \subseteq Customers /\ blocked \subseteq Customers /\ planActive \in BOOLEAN
               /\ faults \in Nat)',
           ProcessesKnow' /\ RowsApart'
    PROVE  ReferralIInv'
  <1>1. ReferralTypeOK'
    BY DEF ReferralIInv, ReferralTypeOK, granted
  <1>2. RewardsFollowReferrals'
    BY SameRewards DEF granted, Paid
  <1> QED
    BY <1>1, <1>2, SameReferrals, SameDays DEF ReferralIInv, granted

(* GetOrCreateCode makes a code and nothing else.                          *)
LEMMA CodeStep ==
    ASSUME ReferralIInv, NEW u \in Customers, GetOrCreateCode(u)
    PROVE  ReferralIInv'
  <1>1. ProcessesKnow' /\ RowsApart'
    BY ProcessesStay DEF GetOrCreateCode, ReferralIInv
  <1> QED
    BY <1>1, RowsStay DEF GetOrCreateCode, ReferralIInv, ReferralTypeOK

(* A block or an unblock touches no referral.                              *)
LEMMA BlockedStep ==
    ASSUME ReferralIInv, NEW u \in Customers, SetBlocked(u)
    PROVE  ReferralIInv'
  <1>1. ProcessesKnow' /\ RowsApart'
    BY ProcessesStay DEF SetBlocked, ReferralIInv
  <1> QED
    BY <1>1, RowsStay DEF SetBlocked, ReferralIInv, ReferralTypeOK

(* The plan is switched on or off.                                         *)
LEMMA PlanStep ==
    ASSUME ReferralIInv, NEW active \in BOOLEAN, SetPlanActive(active)
    PROVE  ReferralIInv'
  <1>1. ProcessesKnow' /\ RowsApart'
    BY ProcessesStay DEF SetPlanActive, ReferralIInv
  <1> QED
    BY <1>1, RowsStay DEF SetPlanActive, ReferralIInv, ReferralTypeOK

(* A claim that is refused, the victim of a deadlock and a dead worker     *)
(* give up what they hold.                                                 *)
LEMMA RestStep ==
    ASSUME ReferralIInv, NEW p \in Procs, Become(p, Idle), faults' \in Nat,
           UNCHANGED <<codes, blocked, referrals, granted, planActive>>
    PROVE  ReferralIInv'
  <1>1. ProcessesKnow' /\ RowsApart'
    BY ProcessRests DEF ReferralIInv
  <1> QED
    BY <1>1, RowsStay DEF ReferralIInv, ReferralTypeOK

(* No code is used more when referrals only change their status, of those  *)
(* that count to another that counts or to one that does not.              *)
LEMMA FewerBrought ==
    ASSUME ReferralAssumption, LimitsKept,
           \A v \in Customers :
              /\ referrals'[v].by = referrals[v].by
              /\ referrals'[v].status # "rejected" => referrals[v].status # "rejected"
    PROVE  LimitsKept'
  <1>1. ASSUME NEW o \in Customers
        PROVE  IsFiniteSet(BroughtBy(o)') /\ Cardinality(BroughtBy(o)') <= UsageLimit
    <2>1. BroughtBy(o)' \subseteq BroughtBy(o)
      BY DEF BroughtBy
    <2>2. PICK B : B = BroughtBy(o)'
      BY Zenon
    <2>3. PICK A : A = BroughtBy(o)
      BY Zenon
    <2>4. IsFiniteSet(A) /\ Cardinality(A) <= UsageLimit /\ B \subseteq A /\ UsageLimit \in Nat
      BY <2>1, <2>2, <2>3 DEF LimitsKept, ReferralAssumption
    <2>5. IsFiniteSet(B) /\ Cardinality(B) <= Cardinality(A) /\ Cardinality(A) \in Nat
          /\ Cardinality(B) \in Nat
      BY <2>4, FS_Subset, FS_CardinalityType
    <2> QED
      BY <2>2, <2>4, <2>5
  <1> QED
    BY <1>1 DEF LimitsKept

(* Claim locks the claimant and the code, which nobody else holds.         *)
LEMMA ClaimStep ==
    ASSUME ReferralIInv, NEW u \in Customers, NEW owner \in Customers, NEW c \in Clients,
           Claim(c, u, owner)
    PROVE  ReferralIInv'
  <1> DEFINE state == [phase |-> "claiming", user |-> u, code |-> owner,
                       locks |-> {UserRow(u), CodeRow(owner)}]
  <1>1. c \in Procs /\ Become(c, state) /\ owner # u
    BY DEF Claim, Procs
  <1>2. procs'[c] = state
    BY <1>1 DEF Become, ReferralIInv, ProcessesKnow
  <1>3. Claiming(c)'
    BY <1>1, <1>2 DEF Claiming
  <1>4. \A q \in Procs \ {c} : state.locks \cap procs[q].locks = {}
    BY DEF Claim, Free
  <1> HIDE DEF state
  <1>5. ProcessesKnow' /\ RowsApart'
    BY <1>1, <1>3, <1>4, ProcessTurns DEF Claim, ReferralIInv
  <1> QED
    BY <1>5, RowsStay DEF Claim, ReferralIInv, ReferralTypeOK

(* Take locks one qualified referral, which nobody else holds.             *)
LEMMA TakeStep ==
    ASSUME ReferralIInv, NEW w \in Workers, NEW u \in Customers, Take(w, u)
    PROVE  ReferralIInv'
  <1> DEFINE state == [phase |-> "taken", user |-> u, locks |-> {ReferralRow(u)}]
  <1>1. w \in Procs /\ Become(w, state) /\ referrals'[u].status = "qualified"
    BY DEF Take, Procs
  <1>2. procs'[w] = state
    BY <1>1 DEF Become, ReferralIInv, ProcessesKnow
  <1>3. Taken(w)'
    BY <1>1, <1>2 DEF Taken
  <1>4. \A q \in Procs \ {w} : state.locks \cap procs[q].locks = {}
    BY DEF Take, Free
  <1> HIDE DEF state
  <1>5. ProcessesKnow' /\ RowsApart'
    BY <1>1, <1>3, <1>4, ProcessTurns DEF Take, ReferralIInv
  <1> QED
    BY <1>5, RowsStay DEF Take, ReferralIInv, ReferralTypeOK

(* A worker that has a referral goes on to the referrer.                   *)
LEMMA TurnsSettling ==
    ASSUME NEW u, NEW held, NEW both, NEW r, r = [phase |-> "taken", user |-> u, locks |-> held],
           NEW new, new = [r EXCEPT !.phase = "settling", !.locks = both]
    PROVE  new = [phase |-> "settling", user |-> u, locks |-> both]
  <1> DEFINE state == [phase |-> "settling", user |-> u, locks |-> both]
  <1>1. /\ DOMAIN new = {"phase", "user", "locks"} /\ new = [x \in DOMAIN new |-> new[x]]
        /\ new["phase"] = "settling" /\ new["user"] = u /\ new["locks"] = both
    OBVIOUS
  <1>2. /\ DOMAIN state = {"phase", "user", "locks"} /\ state = [x \in DOMAIN state |-> state[x]]
        /\ state["phase"] = "settling" /\ state["user"] = u /\ state["locks"] = both
    OBVIOUS
  <1> HIDE DEF state
  <1>3. \A x \in DOMAIN new : new[x] = state[x]
    BY <1>1, <1>2
  <1>4. new = state
    BY <1>1, <1>2, <1>3
  <1> QED
    BY <1>4 DEF state

(* LockReferrer waits for the referrer's row, holding the referral's.      *)
LEMMA LockStep ==
    ASSUME ReferralIInv, NEW w \in Workers, LockReferrer(w)
    PROVE  ReferralIInv'
  <1>1. w \in Procs /\ procs[w].phase = "taken"
    BY DEF LockReferrer, Procs
  <1>2. PICK u \in Customers :
          /\ procs[w] = [phase |-> "taken", user |-> u, locks |-> {ReferralRow(u)}]
          /\ referrals[u].status = "qualified"
    BY <1>1, ProcPhases DEF Taken, ReferralIInv
  <1> DEFINE state == [phase |-> "settling", user |-> u,
                       locks |-> {ReferralRow(u), UserRow(referrals[u].by)}]
  <1>3. Wanted(w) = {UserRow(referrals[u].by)}
    BY <1>2 DEF Wanted
  <1>4. Become(w, state)
    <2>1. PICK both : both = procs[w].locks \cup Wanted(w)
      OBVIOUS
    <2>2. PICK new : new = [procs[w] EXCEPT !.phase = "settling", !.locks = both]
      OBVIOUS
    <2>3. both = {ReferralRow(u), UserRow(referrals[u].by)}
      BY <1>2, <1>3, <2>1
    <2>4. new = state
      <3>1. PICK held : held = {ReferralRow(u)}
        OBVIOUS
      <3>2. PICK r : r = procs[w]
        OBVIOUS
      <3>3. r = [phase |-> "taken", user |-> u, locks |-> held]
        BY <1>2, <3>1, <3>2
      <3>4. new = [r EXCEPT !.phase = "settling", !.locks = both]
        BY <2>2, <3>2
      <3>5. new = [phase |-> "settling", user |-> u, locks |-> both]
        BY <3>3, <3>4, TurnsSettling, Zenon
      <3> QED
        BY <2>3, <3>5
    <2> HIDE DEF state
    <2> QED
      BY <2>1, <2>2, <2>4 DEF LockReferrer
  <1>5. procs'[w] = state /\ UNCHANGED referrals
    BY <1>1, <1>4 DEF Become, ReferralIInv, ProcessesKnow, LockReferrer
  <1>6. Settling(w)'
    BY <1>2, <1>5 DEF Settling
  <1>7. \A q \in Procs \ {w} : state.locks \cap procs[q].locks = {}
    <2>1. \A q \in Procs \ {w} : {ReferralRow(u)} \cap procs[q].locks = {}
      BY <1>1, <1>2 DEF ReferralIInv, RowsApart
    <2>2. \A q \in Procs : procs[q].locks \cap {UserRow(referrals[u].by)} = {}
      BY <1>3 DEF LockReferrer, Free
    <2> QED
      BY <2>1, <2>2
  <1> HIDE DEF state
  <1>8. ProcessesKnow' /\ RowsApart'
    BY <1>1, <1>4, <1>5, <1>6, <1>7, ProcessTurns DEF ReferralIInv
  <1> QED
    BY <1>8, RowsStay DEF LockReferrer, ReferralIInv, ReferralTypeOK

(* A referral without a status counts for nobody and has no reward.        *)
LEMMA AdmitStep ==
    ASSUME ReferralAssumption, ReferralIInv, NEW c \in Clients, NEW found \in SUBSET Evidence,
           Admit(c, found)
    PROVE  ReferralIInv'
  <1>1. c \in Procs /\ procs[c].phase = "claiming"
    BY DEF Admit, Procs
  <1>2. PICK u \in Customers, owner \in Customers :
          /\ procs[c].user = u /\ procs[c].code = owner /\ owner # u
    <2>1. Claiming(c)
      BY <1>1, ProcPhases DEF ReferralIInv
    <2> QED
      BY <2>1 DEF Claiming
  <1>3. PICK status \in {"qualified", "rejected", "attributed"} :
          /\ referrals' = [referrals EXCEPT ![u] = [by |-> owner, status |-> status]]
          /\ rewards' = rewards \cup (IF status = "qualified" THEN PendingRewards(u) ELSE {})
    <2> DEFINE status == CASE Decision(found) = "allow" -> "qualified"
                           [] Decision(found) = "deny" -> "rejected"
                           [] OTHER -> "attributed"
    <2>1. status \in {"qualified", "rejected", "attributed"}
      OBVIOUS
    <2>2. status = "qualified" <=> Decision(found) = "allow"
      OBVIOUS
    <2>3. /\ referrals' = [referrals EXCEPT ![u] = [by |-> owner, status |-> status]]
          /\ rewards' = rewards \cup (IF Decision(found) = "allow" THEN PendingRewards(u) ELSE {})
      BY <1>2 DEF Admit
    <2> HIDE DEF status
    <2> QED
      BY <2>1, <2>2, <2>3
  <1>4. /\ referrals[u].status = "none" /\ Usage(owner) < UsageLimit
        /\ Become(c, Idle)
        /\ UNCHANGED <<codes, blocked, trials, subscriptions, periods, planActive, faults>>
    BY <1>2 DEF Admit, Newcomer
  <1>5. /\ referrals'[u] = [by |-> owner, status |-> status]
        /\ \A v \in Customers \ {u} : referrals'[v] = referrals[v]
        /\ referrals' \in [Customers -> [by : Customers \cup {Nobody}, status : ReferralStatuses]]
    BY <1>3 DEF ReferralIInv, ReferralTypeOK, ReferralStatuses
  <1>6. ProcessesKnow' /\ RowsApart'
    BY <1>1, <1>4, <1>5, ProcessRests DEF ReferralIInv
  <1>7. ReferralTypeOK'
    <2>1. PendingRewards(u) \subseteq [of : Customers, side : Sides, status : {"pending", "granted"}]
      BY DEF PendingRewards
    <2> QED
      BY <1>3, <1>4, <1>5, <2>1 DEF ReferralIInv, ReferralTypeOK
  <1>8. ByAnother'
    BY <1>2, <1>5 DEF ReferralIInv, ByAnother
  <1>9. LimitsKept'
    <2>1. \A o \in Customers : o # owner => BroughtBy(o)' = BroughtBy(o)
      BY <1>4, <1>5 DEF BroughtBy, ReferralIInv, ByAnother, ReferralAssumption
    <2>2. u \notin BroughtBy(owner)
      BY <1>4 DEF BroughtBy, ReferralIInv, ByAnother, ReferralAssumption
    <2>3. BroughtBy(owner)' = IF status = "rejected" THEN BroughtBy(owner)
                              ELSE BroughtBy(owner) \cup {u}
      BY <1>5, <2>2 DEF BroughtBy
    <2>4. IsFiniteSet(BroughtBy(owner)) /\ Cardinality(BroughtBy(owner)) < UsageLimit
      BY <1>4 DEF Usage, BroughtBy, ReferralIInv, LimitsKept
    <2>5. PICK B : B = BroughtBy(owner)
      OBVIOUS
    <2>6. /\ IsFiniteSet(B \cup {u}) /\ Cardinality(B \cup {u}) = Cardinality(B) + 1
          /\ Cardinality(B) \in Nat /\ UsageLimit \in Nat
      BY <2>2, <2>4, <2>5, FS_AddElement, FS_CardinalityType DEF ReferralAssumption
    <2>7. IsFiniteSet(BroughtBy(owner)') /\ Cardinality(BroughtBy(owner)') <= UsageLimit
      BY <2>3, <2>4, <2>5, <2>6
    <2> QED
      BY <2>1, <2>7 DEF ReferralIInv, LimitsKept
  <1>10. RewardsFollowReferrals'
    <2>1. \A v \in Customers : Paid(v)' <=> Paid(v)
      BY <1>4 DEF Paid
    <2>2. \A v \in Customers : RewardsFollow(v)
      BY RewardsOfEach DEF ReferralIInv
    <2>3. \A v \in Customers \ {u} : RewardsOf(v)' = RewardsOf(v)
      BY <1>3 DEF RewardsOf, PendingRewards
    <2>4. RewardsOf(u)' = IF status = "qualified" THEN PendingRewards(u) ELSE {}
      <3>1. RewardsOf(u) = {}
        BY <1>4, <2>2 DEF RewardsFollow
      <3>2. \A r \in PendingRewards(u) : r.of = u
        BY DEF PendingRewards
      <3> QED
        BY <1>3, <3>1, <3>2 DEF RewardsOf
    <2>5. \A v \in Customers \ {u} : RewardsFollow(v)'
      BY <1>4, <1>5, <2>1, <2>2, <2>3, RewardsFollowOn
    <2>6. u \notin trials' /\ ~Paid(u)' /\ referrals'[u].status = status
      BY <1>4, <1>5, <2>1, <2>2 DEF RewardsFollow
    <2>7. RewardsFollow(u)'
      BY <2>4, <2>6 DEF RewardsFollow, PendingRewards
    <2> QED
      BY <2>5, <2>7, RewardsOfEachNext
  <1> QED
    BY <1>4, <1>6, <1>7, <1>8, <1>9, <1>10, SameDays DEF ReferralIInv

(* Review decides an attributed referral: what it qualifies gets its       *)
(* rewards pending, what it rejects none, and no worker holds it yet.      *)
LEMMA ReviewStep ==
    ASSUME ReferralAssumption, ReferralIInv, NEW u \in Customers, NEW approved \in BOOLEAN,
           Review(u, approved)
    PROVE  ReferralIInv'
  <1>1. PICK status \in {"qualified", "rejected"} :
          /\ referrals' = [referrals EXCEPT ![u].status = status]
          /\ rewards' = rewards \cup (IF status = "qualified" THEN PendingRewards(u) ELSE {})
    BY DEF Review
  <1>2. /\ referrals[u].status = "attributed"
        /\ UNCHANGED <<codes, blocked, trials, subscriptions, periods, planActive, procs, faults>>
    BY DEF Review
  <1>3. /\ referrals'[u].by = referrals[u].by /\ referrals'[u].status = status
        /\ \A v \in Customers \ {u} : referrals'[v] = referrals[v]
        /\ referrals' \in [Customers -> [by : Customers \cup {Nobody}, status : ReferralStatuses]]
    BY <1>1 DEF ReferralIInv, ReferralTypeOK, ReferralStatuses
  <1>4. ProcessesKnow' /\ RowsApart'
    BY <1>2, <1>3, ProcessesStay DEF ReferralIInv
  <1>5. ReferralTypeOK'
    <2>1. PendingRewards(u) \subseteq [of : Customers, side : Sides, status : {"pending", "granted"}]
      BY DEF PendingRewards
    <2> QED
      BY <1>1, <1>2, <1>3, <2>1 DEF ReferralIInv, ReferralTypeOK
  <1>6. ByAnother'
    BY <1>2, <1>3 DEF ReferralIInv, ByAnother
  <1>7. LimitsKept'
    BY <1>2, <1>3, FewerBrought DEF ReferralIInv
  <1>8. RewardsFollowReferrals'
    <2>1. \A v \in Customers : Paid(v)' <=> Paid(v)
      BY <1>2 DEF Paid
    <2>2. \A v \in Customers : RewardsFollow(v)
      BY RewardsOfEach DEF ReferralIInv
    <2>3. \A v \in Customers \ {u} : RewardsOf(v)' = RewardsOf(v)
      BY <1>1 DEF RewardsOf, PendingRewards
    <2>4. RewardsOf(u)' = IF status = "qualified" THEN PendingRewards(u) ELSE {}
      <3>1. RewardsOf(u) = {}
        BY <1>2, <2>2 DEF RewardsFollow
      <3>2. \A r \in PendingRewards(u) : r.of = u
        BY DEF PendingRewards
      <3> QED
        BY <1>1, <3>1, <3>2 DEF RewardsOf
    <2>5. \A v \in Customers \ {u} : RewardsFollow(v)'
      BY <1>2, <1>3, <2>1, <2>2, <2>3, RewardsFollowOn
    <2>6. u \notin trials' /\ ~Paid(u)' /\ referrals'[u].status = status
      BY <1>2, <1>3, <2>1, <2>2 DEF RewardsFollow
    <2>7. RewardsFollow(u)'
      BY <2>4, <2>6 DEF RewardsFollow, PendingRewards
    <2> QED
      BY <2>5, <2>7, RewardsOfEachNext
  <1> QED
    BY <1>2, <1>4, <1>5, <1>6, <1>7, <1>8, SameDays DEF ReferralIInv

(* A subscription is bought by who never had one: he has no period.        *)
LEMMA BuyStep ==
    ASSUME ReferralAssumption, ReferralIInv, NEW u \in Buyers, Buy(u)
    PROVE  ReferralIInv'
  <1> DEFINE r == [user |-> u, source |-> <<u, "purchase">>, from |-> 0, to |-> 1]
             sold == [status |-> "active", days |-> 1, vpn |-> "active"]
  <1>1. u \in Customers
    BY DEF ReferralAssumption
  <1>2. /\ r.user = u /\ r.source = <<u, "purchase">> /\ r.from = 0 /\ r.to = 1
        /\ r \in PeriodRow
        /\ sold \in Subscription
        /\ sold.days = 1 /\ sold.status = "active"
    BY <1>1 DEF Subscription, PeriodRow
  <1>3. /\ periods' = periods \cup {r} /\ subscriptions' = [subscriptions EXCEPT ![u] = sold]
        /\ UNCHANGED <<codes, blocked, referrals, rewards, trials, planActive, procs, faults>>
        /\ subscriptions[u].status = "none"
    BY DEF Buy
  <1> HIDE DEF r, sold
  <1>4. /\ subscriptions'[u] = sold
        /\ \A v \in Customers \ {u} : subscriptions'[v] = subscriptions[v]
    BY <1>1, <1>3 DEF ReferralIInv, ReferralTypeOK
  <1>5. ReferralTypeOK'
    BY <1>1, <1>2, <1>3 DEF ReferralIInv, ReferralTypeOK
  <1>6. ProcessesKnow' /\ RowsApart'
    BY <1>3, ProcessesStay DEF ReferralIInv
  <1>7. RewardsFollowReferrals'
    <2>1. \A v \in Customers, s \in Sides : r.source # <<v, s>>
      <3>1. "purchase" \notin Sides
        BY DEF Sides
      <3>2. ASSUME NEW v \in Customers, NEW s \in Sides, <<u, "purchase">> = <<v, s>> PROVE FALSE
        <4>1. <<u, "purchase">>[2] = <<v, s>>[2]
          BY <3>2
        <4> QED
          BY <3>1, <4>1
      <3> QED
        BY <1>2, <3>2
    <2>2. \A v \in Customers : Paid(v)' <=> Paid(v)
      BY <1>3, <2>1 DEF Paid
    <2> QED
      BY <1>3, <2>2, SameRewards
  <1>8. DaysTiled'
    <2>1. \A v \in Customers \ {u} : PeriodsOf(v)' = PeriodsOf(v)
      BY <1>2, <1>3 DEF PeriodsOf
    <2>2. PeriodsOf(u)' = PeriodsOf(u) \cup {r}
      BY <1>2, <1>3 DEF PeriodsOf
    <2>3. subscriptions[u].days = 0 /\ Tile(PeriodsOf(u), subscriptions[u].days)
      BY <1>1, <1>3 DEF ReferralIInv, DaysTiled
    <2>4. Tile(PeriodsOf(u), subscriptions[u].days)'
      <3>1. /\ subscriptions'[u].days = subscriptions[u].days + 1
            /\ r.from = subscriptions[u].days /\ r.to = subscriptions[u].days + 1
        BY <1>2, <1>4, <2>3
      <3>2. 1 \in Nat \ {0} /\ ReferralTypeOK
        BY DEF ReferralIInv
      <3> QED
        BY <1>1, <2>2, <2>3, <3>1, <3>2, Extends
    <2>5. \A v \in Customers \ {u} : Tile(PeriodsOf(v), subscriptions[v].days)'
      BY <1>4, <2>1 DEF ReferralIInv, DaysTiled, Tile
    <2>6. \A v \in Customers : subscriptions'[v].status = "none" => subscriptions'[v].days = 0
      BY <1>2, <1>4 DEF ReferralIInv, DaysTiled
    <2> QED
      BY <2>4, <2>5, <2>6 DEF DaysTiled
  <1>9. StaySuspended'
    BY <1>2, <1>4 DEF ReferralIInv, StaySuspended
  <1> QED
    BY <1>3, <1>5, <1>6, <1>7, <1>8, <1>9, SameReferrals DEF ReferralIInv

(* Suspend stops the VPN of a subscription with it.                        *)
LEMMA SuspendStep ==
    ASSUME ReferralAssumption, ReferralIInv, NEW u \in Buyers, Suspend(u)
    PROVE  ReferralIInv'
  <1>1. u \in Customers
    BY DEF ReferralAssumption
  <1>2. /\ UNCHANGED <<codes, blocked, referrals, rewards, trials, periods, planActive, procs, faults>>
        /\ subscriptions[u].status = "active"
        /\ subscriptions' = [subscriptions EXCEPT ![u].status = "suspended", ![u].vpn = "disabled"]
    BY DEF Suspend
  <1>3. /\ subscriptions'[u].status = "suspended" /\ subscriptions'[u].vpn = "disabled"
        /\ \A v \in Customers : subscriptions'[v].days = subscriptions[v].days
        /\ \A v \in Customers \ {u} : subscriptions'[v] = subscriptions[v]
        /\ subscriptions' \in [Customers -> Subscription]
    BY <1>1, <1>2 DEF ReferralIInv, ReferralTypeOK, Subscription, PeriodRow
  <1>4. ReferralTypeOK'
    BY <1>2, <1>3 DEF ReferralIInv, ReferralTypeOK
  <1>5. ProcessesKnow' /\ RowsApart'
    BY <1>2, ProcessesStay DEF ReferralIInv
  <1>6. RewardsFollowReferrals'
    BY <1>2, SameRewards DEF Paid
  <1>7. DaysTiled'
    <2>1. \A v \in Customers : PeriodsOf(v)' = PeriodsOf(v)
      BY <1>2 DEF PeriodsOf
    <2>2. \A v \in Customers : subscriptions'[v].status = "none" => subscriptions[v].status = "none"
      BY <1>3
    <2> QED
      BY <1>3, <2>1, <2>2 DEF ReferralIInv, DaysTiled, Tile
  <1>8. StaySuspended'
    BY <1>3 DEF ReferralIInv, StaySuspended
  <1> QED
    BY <1>2, <1>4, <1>5, <1>6, <1>7, <1>8, SameReferrals DEF ReferralIInv

(* A referral that is rejected: the rewards go, nothing was granted.       *)
LEMMA RejectStep ==
    ASSUME ReferralAssumption, ReferralIInv, NEW u \in Customers, referrals[u].status = "qualified",
           Reject(u)
    PROVE  /\ (referrals \in [Customers -> [by : Customers \cup {Nobody}, status : ReferralStatuses]])'
           /\ rewards' \subseteq rewards
           /\ ByAnother' /\ LimitsKept' /\ RewardsFollowReferrals' /\ DaysTiled' /\ StaySuspended'
  <1>1. /\ referrals' = [referrals EXCEPT ![u].status = "rejected"]
        /\ rewards' = {r \in rewards : r.of # u}
        /\ UNCHANGED <<trials, subscriptions, periods>>
    BY DEF Reject
  <1>2. /\ referrals'[u].by = referrals[u].by /\ referrals'[u].status = "rejected"
        /\ \A v \in Customers \ {u} : referrals'[v] = referrals[v]
        /\ referrals' \in [Customers -> [by : Customers \cup {Nobody}, status : ReferralStatuses]]
    BY <1>1 DEF ReferralIInv, ReferralTypeOK, ReferralStatuses
  <1>3. ByAnother'
    BY <1>2 DEF ReferralIInv, ByAnother
  <1>4. LimitsKept'
    BY <1>2, FewerBrought DEF ReferralIInv
  <1>5. RewardsFollowReferrals'
    <2>1. \A v \in Customers : Paid(v)' <=> Paid(v)
      BY <1>1 DEF Paid
    <2>2. \A v \in Customers : RewardsFollow(v)
      BY RewardsOfEach DEF ReferralIInv
    <2>3. \A v \in Customers \ {u} : RewardsOf(v)' = RewardsOf(v)
      BY <1>1 DEF RewardsOf
    <2>4. RewardsOf(u)' = {}
      BY <1>1 DEF RewardsOf
    <2>5. \A v \in Customers \ {u} : RewardsFollow(v)'
      BY <1>1, <1>2, <2>1, <2>2, <2>3, RewardsFollowOn
    <2>6. u \notin trials' /\ ~Paid(u)'
      BY <1>1, <2>1, <2>2 DEF RewardsFollow
    <2>7. RewardsFollow(u)'
      BY <1>2, <2>4, <2>6 DEF RewardsFollow
    <2> QED
      BY <2>5, <2>7, RewardsOfEachNext
  <1> QED
    BY <1>1, <1>2, <1>3, <1>4, <1>5, SameDays

(* A referral that is granted: both users get a period after their days.   *)
LEMMA GrantedDays ==
    ASSUME ReferralAssumption, ReferralIInv, NEW u \in Customers, referrals[u].status = "qualified",
           Grant(u)
    PROVE  /\ (subscriptions \in [Customers -> Subscription])'
           /\ periods' \subseteq PeriodRow
           /\ DaysTiled' /\ StaySuspended'
  <1>1. PICK by \in Customers \ {u} : by = referrals[u].by
    BY DEF ReferralIInv, ByAnother
  <1>2. Beneficiary(u, "referred") = u /\ Beneficiary(u, "referrer") = by
    BY <1>1 DEF Beneficiary
  <1>3. PICK r : r = Period(u, "referred")
    OBVIOUS
  <1>4. PICK q : q = Period(u, "referrer")
    OBVIOUS
  <1>5. /\ Days["referred"] \in Nat \ {0} /\ Days["referrer"] \in Nat \ {0}
        /\ \A v \in Customers : subscriptions[v].days \in Nat
    BY DEF ReferralAssumption, Sides, ReferralIInv, ReferralTypeOK, Subscription, PeriodRow
  <1>6. /\ r.user = u /\ r.from = subscriptions[u].days
        /\ r.to = subscriptions[u].days + Days["referred"]
        /\ q.user = by /\ q.from = subscriptions[by].days
        /\ q.to = subscriptions[by].days + Days["referrer"]
    BY <1>2, <1>3, <1>4 DEF Period
  <1>7. {r, q} \subseteq PeriodRow
    <2>1. <<u, "referred">> \in Customers \X (Sides \cup {"purchase"})
          /\ <<u, "referrer">> \in Customers \X (Sides \cup {"purchase"})
      BY DEF Sides
    <2>2. /\ subscriptions[u].days + Days["referred"] \in Nat
          /\ subscriptions[by].days + Days["referrer"] \in Nat
      BY <1>5
    <2> QED
      BY <1>2, <1>3, <1>4, <1>5, <2>1, <2>2 DEF Period, Subscription, PeriodRow
  <1>8. periods' = periods \cup {r, q}
    BY <1>3, <1>4 DEF Grant, Sides
  <1>9. subscriptions' = [x \in Customers |->
              IF x = u THEN Extended(subscriptions[x], "referred")
              ELSE IF x = by THEN Extended(subscriptions[x], "referrer")
              ELSE subscriptions[x]]
    BY <1>1 DEF Grant
  <1>10. ASSUME NEW v \in Customers, NEW s \in Sides, NEW new, new = Extended(subscriptions[v], s)
         PROVE  /\ new \in Subscription
                /\ new.days = subscriptions[v].days + Days[s]
                /\ new.status # "none"
                /\ new.status = "suspended" => new.vpn = "disabled"
    <2>1. PICK old \in Subscription : old = subscriptions[v]
      BY DEF ReferralIInv, ReferralTypeOK
    <2>2. old.status = "suspended" => old.vpn = "disabled"
      BY <2>1 DEF ReferralIInv, StaySuspended
    <2>3. old.days + Days[s] \in Nat
      BY DEF ReferralAssumption, Subscription
    <2> QED
      BY <1>10, <2>1, <2>2, <2>3 DEF Extended, Subscription
  <1>11. /\ subscriptions'[u] = Extended(subscriptions[u], "referred")
         /\ subscriptions'[by] = Extended(subscriptions[by], "referrer")
         /\ \A v \in Customers \ {u, by} : subscriptions'[v] = subscriptions[v]
         /\ DOMAIN subscriptions' = Customers /\ subscriptions' = [x \in Customers |-> subscriptions'[x]]
    BY <1>9
  <1>12. "referred" \in Sides /\ "referrer" \in Sides
    BY DEF Sides
  <1>13. (subscriptions \in [Customers -> Subscription])'
    <2>1. ASSUME NEW v \in Customers PROVE subscriptions'[v] \in Subscription
      <3>1. CASE v \in {u, by}
        <4>1. \E side \in Sides : subscriptions'[v] = Extended(subscriptions[v], side)
          BY <1>11, <1>12, <3>1
        <4> QED
          BY <1>10, <4>1
      <3>2. CASE v \notin {u, by}
        BY <1>11, <3>2 DEF ReferralIInv, ReferralTypeOK
      <3> QED
        BY <3>1, <3>2
    <2> QED
      BY <1>11, <2>1
  <1>14. /\ subscriptions'[u].days = subscriptions[u].days + Days["referred"]
         /\ subscriptions'[by].days = subscriptions[by].days + Days["referrer"]
         /\ subscriptions'[u].status # "none" /\ subscriptions'[by].status # "none"
    BY <1>10, <1>11, <1>12
  <1>15. /\ PeriodsOf(u)' = PeriodsOf(u) \cup {r}
         /\ PeriodsOf(by)' = PeriodsOf(by) \cup {q}
         /\ \A v \in Customers \ {u, by} : PeriodsOf(v)' = PeriodsOf(v)
    BY <1>6, <1>8 DEF PeriodsOf
  <1>16. Tile(PeriodsOf(u), subscriptions[u].days)'
    BY <1>5, <1>6, <1>14, <1>15, Extends DEF ReferralIInv, DaysTiled
  <1>17. Tile(PeriodsOf(by), subscriptions[by].days)'
    BY <1>5, <1>6, <1>14, <1>15, Extends DEF ReferralIInv, DaysTiled
  <1>18. \A v \in Customers \ {u, by} : Tile(PeriodsOf(v), subscriptions[v].days)'
    BY <1>11, <1>15 DEF ReferralIInv, DaysTiled, Tile
  <1>19. DaysTiled'
    BY <1>11, <1>14, <1>16, <1>17, <1>18 DEF DaysTiled, ReferralIInv
  <1>20. StaySuspended'
    BY <1>10, <1>11, <1>12 DEF StaySuspended, ReferralIInv
  <1> QED
    BY <1>7, <1>8, <1>13, <1>19, <1>20 DEF ReferralIInv, ReferralTypeOK

(* ... and the referral both its rewards and the newcomer's trial.         *)
LEMMA GrantedRewards ==
    ASSUME ReferralAssumption, ReferralIInv, NEW u \in Customers, referrals[u].status = "qualified",
           Grant(u)
    PROVE  /\ (referrals \in [Customers -> [by : Customers \cup {Nobody}, status : ReferralStatuses]])'
           /\ rewards' \subseteq [of : Customers, side : Sides, status : {"pending", "granted"}]
           /\ trials' \subseteq Customers
           /\ ByAnother' /\ LimitsKept' /\ RewardsFollowReferrals'
  <1>1. /\ referrals' = [referrals EXCEPT ![u].status = "rewarded"]
        /\ rewards' = {IF r.of = u THEN [r EXCEPT !.status = "granted"] ELSE r : r \in rewards}
        /\ trials' = trials \cup {u}
        /\ periods' = periods \cup {Period(u, s) : s \in Sides}
    BY DEF Grant
  <1>2. /\ referrals'[u].by = referrals[u].by /\ referrals'[u].status = "rewarded"
        /\ \A v \in Customers \ {u} : referrals'[v] = referrals[v]
        /\ referrals' \in [Customers -> [by : Customers \cup {Nobody}, status : ReferralStatuses]]
    BY <1>1 DEF ReferralIInv, ReferralTypeOK, ReferralStatuses
  <1>3. ByAnother'
    BY <1>2 DEF ReferralIInv, ByAnother
  <1>4. LimitsKept'
    BY <1>2, FewerBrought DEF ReferralIInv
  <1>5. trials' \subseteq Customers
    BY <1>1 DEF ReferralIInv, ReferralTypeOK
  <1>6. \A r \in rewards : /\ r \in [of : Customers, side : Sides, status : {"pending", "granted"}]
                           /\ [r EXCEPT !.status = "granted"]
                                 = [of |-> r.of, side |-> r.side, status |-> "granted"]
    BY DEF ReferralIInv, ReferralTypeOK
  <1>7. ASSUME NEW q \in rewards'
         PROVE  \E r \in rewards : \/ r.of # u /\ q = r
                                   \/ r.of = u /\ q = [of |-> u, side |-> r.side, status |-> "granted"]
    <2>1. PICK r \in rewards : q = IF r.of = u THEN [r EXCEPT !.status = "granted"] ELSE r
      BY <1>1
    <2> QED
      BY <1>6, <2>1
  <1>8. \A r \in rewards : r.of # u => r \in rewards'
    BY <1>1
  <1>9. rewards' \subseteq [of : Customers, side : Sides, status : {"pending", "granted"}]
    <2>1. ASSUME NEW q \in rewards'
          PROVE  q \in [of : Customers, side : Sides, status : {"pending", "granted"}]
      <3>1. PICK r \in rewards : \/ q = r
                                \/ q = [of |-> u, side |-> r.side, status |-> "granted"]
        BY <1>7
      <3>2. r \in [of : Customers, side : Sides, status : {"pending", "granted"}] /\ r.side \in Sides
        BY <1>6
      <3>3. [of |-> u, side |-> r.side, status |-> "granted"]
                \in [of : Customers, side : Sides, status : {"pending", "granted"}]
        BY <3>2
      <3> QED
        BY <3>1, <3>2, <3>3
    <2> QED
      BY <2>1
  <1>10. \A v \in Customers : RewardsFollow(v)
    BY RewardsOfEach DEF ReferralIInv
  <1>11. \A s \in Sides : Period(u, s).source = <<u, s>>
    BY DEF Period
  <1>12. ASSUME NEW v \in Customers \ {u} PROVE RewardsFollow(v)'
    <2>1. RewardsOf(v)' = RewardsOf(v)
      <3>1. \A q \in rewards' : q.of = v => q \in rewards
        BY <1>7
      <3>2. \A q \in rewards : q.of = v => q \in rewards'
        BY <1>8
      <3> QED
        BY <3>1, <3>2 DEF RewardsOf
    <2>2. Paid(v)' <=> Paid(v)
      <3>1. \A s, t \in Sides : Period(u, s).source # <<v, t>>
        BY <1>11
      <3> QED
        BY <1>1, <3>1 DEF Paid
    <2>3. v \in trials' <=> v \in trials
      BY <1>1
    <2> QED
      BY <1>2, <1>10, <2>1, <2>2, <2>3, RewardsFollowOn
  <1>13. RewardsFollow(u)'
    <2>1. RewardsOf(u) = {[of |-> u, side |-> s, status |-> "pending"] : s \in Sides}
      BY <1>10 DEF RewardsFollow
    <2>2. RewardsOf(u)' = {[of |-> u, side |-> s, status |-> "granted"] : s \in Sides}
      <3>1. ASSUME NEW r \in RewardsOf(u)'
            PROVE  r \in {[of |-> u, side |-> s, status |-> "granted"] : s \in Sides}
        <4>1. r \in rewards' /\ r.of = u
          BY DEF RewardsOf
        <4>2. PICK q \in rewards : r = [of |-> u, side |-> q.side, status |-> "granted"]
          BY <1>7, <4>1
        <4>3. q.side \in Sides
          BY <1>6
        <4> QED
          BY <4>2, <4>3
      <3>2. ASSUME NEW s \in Sides
            PROVE  [of |-> u, side |-> s, status |-> "granted"] \in RewardsOf(u)'
        <4>1. PICK r \in rewards : r = [of |-> u, side |-> s, status |-> "pending"]
          BY <2>1 DEF RewardsOf
        <4>2. [r EXCEPT !.status = "granted"] = [of |-> u, side |-> s, status |-> "granted"]
          BY <1>6, <4>1
        <4>3. [of |-> u, side |-> s, status |-> "granted"] \in rewards'
          BY <1>1, <4>1, <4>2
        <4> QED
          BY <4>3 DEF RewardsOf
      <3> QED
        BY <3>1, <3>2
    <2>3. Paid(u)'
      <3>1. "referred" \in Sides
        BY DEF Sides
      <3>2. Period(u, "referred") \in periods'
        BY <1>1, <3>1
      <3> QED
        BY <1>11, <3>1, <3>2 DEF Paid
    <2>4. u \in trials'
      BY <1>1
    <2> QED
      BY <1>2, <2>2, <2>3, <2>4 DEF RewardsFollow
  <1> QED
    BY <1>2, <1>3, <1>4, <1>5, <1>9, <1>12, <1>13, RewardsOfEachNext

(* Settle rejects the referral, grants both its rewards or leaves it, by   *)
(* the rows the worker holds.                                              *)
LEMMA SettleStep ==
    ASSUME ReferralAssumption, ReferralIInv, NEW w \in Workers, Settle(w)
    PROVE  ReferralIInv'
  <1>1. w \in Procs /\ procs[w].phase = "settling"
    BY DEF Settle, Procs
  <1>2. PICK u \in Customers :
          /\ procs[w].user = u /\ ReferralRow(u) \in procs[w].locks
          /\ referrals[u].status = "qualified"
    <2>1. Settling(w)
      BY <1>1, ProcPhases DEF ReferralIInv
    <2> QED
      BY <2>1 DEF Settling
  <1>3. /\ Become(w, Idle) /\ UNCHANGED <<codes, blocked, planActive, faults>>
        /\ Reject(u) \/ Grant(u) \/ UNCHANGED <<referrals, granted>>
    BY <1>2 DEF Settle
  <1>4. ProcessesKnow' /\ RowsApart'
    <2>1. \A v \in Customers \ {u} : referrals'[v] = referrals[v]
      BY <1>3 DEF Reject, Grant, ReferralIInv, ReferralTypeOK
    <2> QED
      BY <1>1, <1>2, <1>3, <2>1, ProcessRests DEF ReferralIInv
  <1>5. CASE Reject(u)
    <2>1. UNCHANGED <<trials, subscriptions, periods>>
      BY <1>5 DEF Reject
    <2>2. ReferralTypeOK'
      BY <1>2, <1>3, <1>5, <2>1, RejectStep DEF ReferralIInv, ReferralTypeOK
    <2> QED
      BY <1>2, <1>4, <1>5, <2>2, RejectStep DEF ReferralIInv
  <1>6. CASE Grant(u)
    <2>1. ReferralTypeOK'
      BY <1>2, <1>3, <1>6, GrantedDays, GrantedRewards DEF ReferralIInv, ReferralTypeOK
    <2> QED
      BY <1>2, <1>4, <1>6, <2>1, GrantedDays, GrantedRewards DEF ReferralIInv
  <1>7. CASE UNCHANGED <<referrals, granted>>
    BY <1>3, <1>4, <1>7, RowsStay DEF ReferralIInv, ReferralTypeOK
  <1> QED
    BY <1>3, <1>5, <1>6, <1>7

(* At first there is nothing to add up.                                    *)
LEMMA ReferralInvInit == ReferralAssumption /\ ReferralInit => ReferralIInv
  <1> SUFFICES ASSUME ReferralAssumption, ReferralInit PROVE ReferralIInv
    OBVIOUS
  <1> USE DEF ReferralInit
  <1>1. ReferralTypeOK
    BY DEF ReferralTypeOK, ReferralStatuses, Subscription
  <1>2. ProcessesKnow /\ RowsApart
    BY DEF ProcessesKnow, RowsApart, Idle
  <1>3. ByAnother
    BY DEF ByAnother
  <1>4. LimitsKept
    <2>1. \A u \in Customers : BroughtBy(u) = {}
      BY DEF BroughtBy, ReferralAssumption
    <2> QED
      BY <2>1, FS_EmptySet DEF LimitsKept, ReferralAssumption
  <1>5. RewardsFollowReferrals
    BY DEF RewardsFollowReferrals, RewardsOf
  <1>6. DaysTiled
    BY DEF DaysTiled, Tile, PeriodsOf
  <1>7. StaySuspended
    BY DEF StaySuspended
  <1> QED
    BY <1>1, <1>2, <1>3, <1>4, <1>5, <1>6, <1>7 DEF ReferralIInv

(* No step of a claim, a review, a worker or a user breaks the invariant.  *)
LEMMA ReferralInvNext ==
    ReferralAssumption /\ ReferralIInv /\ [ReferralNext]_referralVars => ReferralIInv'
  <1> SUFFICES ASSUME ReferralAssumption, ReferralIInv, [ReferralNext]_referralVars
               PROVE  ReferralIInv'
    OBVIOUS
  <1>1. ASSUME NEW u \in Customers, GetOrCreateCode(u) PROVE ReferralIInv'
    BY <1>1, CodeStep
  <1>2. ASSUME NEW u \in Buyers, Buy(u) \/ Suspend(u) PROVE ReferralIInv'
    BY <1>2, BuyStep, SuspendStep
  <1>3. ASSUME NEW u \in Blockable, SetBlocked(u) PROVE ReferralIInv'
    BY <1>3, BlockedStep DEF ReferralAssumption
  <1>4. ASSUME NEW u \in Customers, NEW owner \in Customers, NEW c \in Clients, Claim(c, u, owner)
        PROVE  ReferralIInv'
    BY <1>4, ClaimStep
  <1>5. ASSUME NEW c \in Clients, NEW found \in SUBSET Evidence, Admit(c, found)
        PROVE  ReferralIInv'
    BY <1>5, AdmitStep
  <1>6. ASSUME NEW c \in Clients, AbortClaim(c) PROVE ReferralIInv'
    BY <1>6, RestStep DEF AbortClaim, Procs, ReferralIInv, ReferralTypeOK
  <1>7. ASSUME NEW u \in Customers, NEW approved \in BOOLEAN, Review(u, approved) PROVE ReferralIInv'
    BY <1>7, ReviewStep
  <1>8. ASSUME NEW w \in Workers, Work(w) PROVE ReferralIInv'
    BY <1>8, TakeStep, LockStep, SettleStep DEF Work
  <1>9. ASSUME NEW w \in Workers, AbortDeadlock(w) PROVE ReferralIInv'
    BY <1>9, RestStep DEF AbortDeadlock, Procs, ReferralIInv, ReferralTypeOK
  <1>10. ASSUME NEW w \in Workers, Crash(w) PROVE ReferralIInv'
    BY <1>10, RestStep DEF Crash, Procs, ReferralIInv, ReferralTypeOK
  <1>11. ASSUME NEW active \in BOOLEAN, SetPlanActive(active) PROVE ReferralIInv'
    BY <1>11, PlanStep
  <1>12. CASE UNCHANGED referralVars
    <2>1. ProcessesKnow' /\ RowsApart'
      BY <1>12, ProcessesStay DEF referralVars, ReferralIInv
    <2> QED
      BY <1>12, <2>1, RowsStay DEF referralVars, ReferralIInv, ReferralTypeOK
  <1> QED
    BY <1>1, <1>2, <1>3, <1>4, <1>5, <1>6, <1>7, <1>8, <1>9, <1>10, <1>11, <1>12 DEF ReferralNext

(* What the code promises follows from the invariant.                      *)
LEMMA ReferralInvImplies == ReferralIInv => ReferralsAddUp
  <1> SUFFICES ASSUME ReferralIInv PROVE ReferralsAddUp
    OBVIOUS
  <1>1. \A u \in Customers : Usage(u) <= UsageLimit
    BY DEF ReferralIInv, LimitsKept, BroughtBy, Usage
  <1>2. PeriodsFollowOn
    <2>1. ASSUME NEW u \in Customers
          PROVE  /\ \A p \in PeriodsOf(u) : p.to > p.from /\ p.to <= subscriptions[u].days
                 /\ \A d \in 0 .. subscriptions[u].days - 1 :
                      Cardinality({p \in PeriodsOf(u) : p.from <= d /\ d < p.to}) = 1
      <3>1. Tile(PeriodsOf(u), subscriptions[u].days) /\ subscriptions[u].days \in Nat
        BY DEF ReferralIInv, DaysTiled, ReferralTypeOK, Subscription
      <3>2. \A p \in PeriodsOf(u) : p.from \in Nat /\ p.to \in Nat
        BY DEF PeriodsOf, ReferralIInv, ReferralTypeOK, PeriodRow
      <3>3. \A p \in PeriodsOf(u) : p.to > p.from /\ p.to <= subscriptions[u].days
        BY <3>1, <3>2 DEF Tile
      <3> QED
        BY <3>1, <3>3, TileCounts
    <2> QED
      BY <2>1 DEF PeriodsFollowOn, PeriodsOf
  <1> QED
    BY <1>1, <1>2 DEF ReferralsAddUp, ReferralIInv, StaySuspended

(* However claims, reviews, purchases, suspensions and reward workers      *)
(* interleave, and whichever of them die or deadlock: no code brings more  *)
(* referrals than its limit, the rewards, the trial and the periods of a   *)
(* referral are those its status says, each paid day is in one period and  *)
(* a suspended user has no VPN (referrals/service.py claim, review;        *)
(* processor.py _grant_referral).                                          *)
THEOREM ReferralsAlwaysAddUp == ReferralSpec => []ReferralsAddUp
  <1>1. ReferralInit => ReferralIInv
    BY ReferralInvInit, ReferralAssumption
  <1>2. ReferralIInv /\ [ReferralNext]_referralVars => ReferralIInv'
    BY ReferralInvNext, ReferralAssumption
  <1> QED
    BY <1>1, <1>2, ReferralInvImplies, PTL DEF ReferralSpec

=============================================================================
