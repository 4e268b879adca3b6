----------------------- MODULE PaymentAnalysisProofs ------------------------
(***************************************************************************)
(* Proofs about PaymentAnalysis for every set of payments, operations,     *)
(* workers and reviewers and every number of attempts and faults.          *)
(*                                                                         *)
(* A late worker writes a payment as it was when it opened it.  That it    *)
(* never takes a decision back rests on the number of its attempt          *)
(* (ClaimsKnow): while nobody has recorded that attempt the payment has    *)
(* not left "analyzing", and afterwards UNIQUE (payment_id, attempt)       *)
(* refuses whatever the worker records.                                    *)
(***************************************************************************)
EXTENDS PaymentAnalysis, FiniteSetTheorems, TLAPS

Rows == [status : Statuses, version : Nat \ {0}, operation : Operations \cup {None},
         promoRevoked : BOOLEAN]

AnalysesOf(p) == {a \in analyses : a.payment = p}

(* The tables, and what they say of each other. *)
TablesOK ==
    /\ payments \in [Payments -> Rows]
    /\ analyses \subseteq [payment : Payments, attempt : 1 .. MaxAttempts,
                           status : {"succeeded", "failed"}]
    /\ reviews \subseteq [payment : Payments, decision : {"approved", "rejected"},
                          version : Nat \ {0}]
    /\ ledger \subseteq UNION {Credits(p) : p \in Payments}
    /\ IsFiniteSet(analyses)

(* What a payment was before its analysis and is after its rejection.      *)
RowsMakeSense ==
    \A p \in Payments :
        /\ payments[p].status = "awaiting_upload" => AnalysesOf(p) = {}
        /\ payments[p].promoRevoked => payments[p].status = "rejected"

DataInv ==
    /\ TablesOK /\ RowsMakeSense
    /\ ApprovedIsCredited /\ OperationApprovedOnce /\ AttemptsExplainStatus /\ ReviewDecides

WorkerStates ==
    {Idle} \cup [phase : {"claimed"}, payment : Payments, version : Nat \ {0}]
    \cup [phase : {"reading"}, payment : Payments, version : Nat \ {0}, attempt : 1 .. MaxAttempts]
    \cup [phase : {"deciding"}, payment : Payments, version : Nat \ {0}, attempt : 1 .. MaxAttempts,
          operation : Operations \cup {None}, approves : BOOLEAN]

ReviewerStates ==
    {Idle} \cup [phase : {"reviewing"}, payment : Payments, version : Nat \ {0},
                 decision : {"approved", "rejected"}]

ProcessesOK ==
    /\ expired \subseteq Payments
    /\ locks \in [Payments -> Processes \cup {None}]
    /\ faults \in 0 .. MaxFaults
    /\ procs \in [Processes -> WorkerStates \cup ReviewerStates]
    /\ \A w \in Workers : procs[w] \in WorkerStates
    /\ \A r \in Reviewers : procs[r] \in ReviewerStates

(* What a worker past Open may rely on, however late it is.                *)
ClaimsKnow ==
    \A w \in Workers, p \in Payments :
        procs[w].phase \in {"reading", "deciding"} /\ procs[w].payment = p =>
            /\ procs[w].attempt <= AttemptCount(p) + 1
            /\ procs[w].attempt = AttemptCount(p) + 1 => payments[p].status = "analyzing"

(* Who is about to commit holds the lock, and under it a reviewed payment  *)
(* stays as it was read.                                                   *)
LockersKnow ==
    /\ \A x \in Processes : procs[x].phase \in {"deciding", "reviewing"} => locks[procs[x].payment] = x
    /\ \A r \in Reviewers : procs[r].phase = "reviewing" =>
           /\ payments[procs[r].payment].status = "manual_review"
           /\ payments[procs[r].payment].version = procs[r].version

IInv == DataInv /\ ProcessesOK /\ ClaimsKnow /\ LockersKnow

-----------------------------------------------------------------------------
(* Facts about keys, credits and attempts *)

(* Credits of different payments, and the two of one, have different keys. *)
LEMMA KeysDiffer ==
    ASSUME NEW p, NEW q
    PROVE  /\ CreditKey(p) # PromoKey(q)
           /\ CreditKey(p) = CreditKey(q) => p = q
           /\ PromoKey(p) = PromoKey(q) => p = q
  BY DEF CreditKey, PromoKey

(* What approve_payment posts. *)
LEMMA CreditsPosted ==
    ASSUME NEW p \in Payments, NEW L
    PROVE  \A k : IsPosted(L \cup Credits(p), k) <=>
               \/ IsPosted(L, k)
               \/ k = CreditKey(p)
               \/ k = PromoKey(p) /\ Discount[p] > 0 /\ ~payments[p].promoRevoked
  <1> DEFINE cash == Entry(CreditKey(p), Owner[p], "payment_credit", Amount[p], "cash_clearing", None)
             promo == Entry(PromoKey(p), Owner[p], "promo_credit", Discount[p], "promo_expense", None)
  <1>1. cash.key = CreditKey(p) /\ promo.key = PromoKey(p)
    BY DEF Entry
  <1>2. \A t : t \in Credits(p) <=>
               t = cash \/ (t = promo /\ Discount[p] > 0 /\ ~payments[p].promoRevoked)
    BY DEF Credits
  <1> HIDE DEF cash, promo
  <1> QED
    BY <1>1, <1>2 DEF IsPosted

(* Every transaction has one of the keys of its payment. *)
LEMMA CreditsKeys ==
    ASSUME NEW p, NEW t \in Credits(p)
    PROVE  t.key = CreditKey(p) \/ t.key = PromoKey(p)
  BY DEF Credits, Entry

(* The recorded attempts of a payment, counted. *)
LEMMA Counted ==
    ASSUME DataInv, NEW p \in Payments
    PROVE  /\ IsFiniteSet(AnalysesOf(p))
           /\ AttemptCount(p) = Cardinality(AnalysesOf(p))
           /\ AttemptCount(p) \in Nat
           /\ {a.attempt : a \in AnalysesOf(p)} = 1 .. AttemptCount(p)
           /\ \A a \in AnalysesOf(p) : a.status = "succeeded" => a.attempt = AttemptCount(p)
           /\ payments[p].status \in {"uploaded", "analyzing"} =>
                 /\ AttemptCount(p) < MaxAttempts
                 /\ \A a \in AnalysesOf(p) : a.status = "failed"
           /\ \A n \in Nat \ {0} : AttemptFree(p, n) <=> n > AttemptCount(p)
  <1>1. AttemptCount(p) = Cardinality(AnalysesOf(p))
    BY DEF AttemptCount, AnalysesOf
  <1>2. IsFiniteSet(AnalysesOf(p))
    <2>1. IsFiniteSet(analyses) /\ AnalysesOf(p) \in SUBSET analyses
      BY DEF DataInv, TablesOK, AnalysesOf
    <2> QED
      BY <2>1, FS_Subset
  <1>3. AttemptCount(p) \in Nat
    BY <1>1, <1>2, FS_CardinalityType
  <1>4. /\ {a.attempt : a \in AnalysesOf(p)} = 1 .. AttemptCount(p)
        /\ \A a \in AnalysesOf(p) : a.status = "succeeded" => a.attempt = AttemptCount(p)
        /\ payments[p].status \in {"uploaded", "analyzing"} =>
              /\ AttemptCount(p) < MaxAttempts
              /\ \A a \in AnalysesOf(p) : a.status = "failed"
    BY <1>1 DEF DataInv, AttemptsExplainStatus, AnalysesOf
  <1>5. \A n \in Nat \ {0} : AttemptFree(p, n) <=> n > AttemptCount(p)
    <2> SUFFICES ASSUME NEW n \in Nat \ {0}
                 PROVE  AttemptFree(p, n) <=> n > AttemptCount(p)
      OBVIOUS
    <2>1. AttemptFree(p, n) <=> n \notin {a.attempt : a \in AnalysesOf(p)}
      BY DEF AttemptFree, AnalysesOf
    <2>2. AttemptFree(p, n) <=> n \notin 1 .. AttemptCount(p)
      BY <1>4, <2>1
    <2> QED
      BY <1>3, <2>2
  <1> QED
    BY <1>1, <1>2, <1>3, <1>4, <1>5

(* ... and what recording one more makes of them. *)
LEMMA OneMore ==
    ASSUME DataInv, NEW p \in Payments, NEW a, a.payment = p, a.attempt = AttemptCount(p) + 1,
           analyses' = analyses \cup {a}
    PROVE  /\ IsFiniteSet(analyses')
           /\ AnalysesOf(p)' = AnalysesOf(p) \cup {a}
           /\ AttemptCount(p)' = AttemptCount(p) + 1
           /\ Cardinality(AnalysesOf(p)') = AttemptCount(p) + 1
           /\ {b.attempt : b \in AnalysesOf(p)'} = 1 .. AttemptCount(p) + 1
           /\ \A q \in Payments \ {p} :
                 AnalysesOf(q)' = AnalysesOf(q) /\ AttemptCount(q)' = AttemptCount(q)
  <1>1. IsFiniteSet(analyses')
    BY FS_AddElement DEF DataInv, TablesOK
  <1>2. AnalysesOf(p)' = AnalysesOf(p) \cup {a}
    BY DEF AnalysesOf
  <1>3. a \notin AnalysesOf(p)
    <2>1. AttemptCount(p) \in Nat /\ {b.attempt : b \in AnalysesOf(p)} = 1 .. AttemptCount(p)
      BY Counted
    <2>2. AttemptCount(p) + 1 \notin 1 .. AttemptCount(p)
      BY <2>1
    <2> QED
      BY <2>1, <2>2
  <1>4. Cardinality(AnalysesOf(p)') = AttemptCount(p) + 1
    <2>1. IsFiniteSet(AnalysesOf(p)) /\ Cardinality(AnalysesOf(p)) = AttemptCount(p)
      BY Counted
    <2>2. Cardinality(AnalysesOf(p) \cup {a}) = Cardinality(AnalysesOf(p)) + 1
      BY <1>3, <2>1, FS_AddElement
    <2> QED
      BY <1>2, <2>1, <2>2
  <1>5. AttemptCount(p)' = AttemptCount(p) + 1
    BY <1>4 DEF AttemptCount, AnalysesOf
  <1>6. {b.attempt : b \in AnalysesOf(p)'} = 1 .. AttemptCount(p) + 1
    <2>1. {b.attempt : b \in AnalysesOf(p)'} = {b.attempt : b \in AnalysesOf(p)} \cup {a.attempt}
      BY <1>2
    <2>2. AttemptCount(p) \in Nat /\ {b.attempt : b \in AnalysesOf(p)} = 1 .. AttemptCount(p)
      BY Counted
    <2>3. (1 .. AttemptCount(p)) \cup {AttemptCount(p) + 1} = 1 .. AttemptCount(p) + 1
      BY <2>2
    <2> QED
      BY <2>1, <2>2, <2>3
  <1>7. \A q \in Payments \ {p} :
          AnalysesOf(q)' = AnalysesOf(q) /\ AttemptCount(q)' = AttemptCount(q)
    <2> SUFFICES ASSUME NEW q \in Payments \ {p}
                 PROVE  AnalysesOf(q)' = AnalysesOf(q) /\ AttemptCount(q)' = AttemptCount(q)
      OBVIOUS
    <2>1. AnalysesOf(q)' = AnalysesOf(q)
      BY DEF AnalysesOf
    <2>2. AttemptCount(q) = Cardinality(AnalysesOf(q))
      BY DEF AttemptCount, AnalysesOf
    <2>3. AttemptCount(q)' = Cardinality(AnalysesOf(q)')
      BY DEF AttemptCount, AnalysesOf
    <2> QED
      BY <2>1, <2>2, <2>3
  <1> QED
    BY <1>1, <1>2, <1>4, <1>5, <1>6, <1>7

-----------------------------------------------------------------------------
(* The invariant *)

(* The invariant holds at first: nothing uploaded, nothing posted, nobody  *)
(* at work.                                                                *)
LEMMA InvInit == Init => IInv
  <1> SUFFICES ASSUME Init PROVE IInv
    OBVIOUS
  <1>1. \A p \in Payments : payments[p] = [status |-> "awaiting_upload", version |-> 1,
                                         operation |-> None, promoRevoked |-> FALSE]
    BY DEF Init
  <1>2. analyses = {} /\ reviews = {} /\ ledger = {} /\ expired = {} /\ faults = 0
    BY DEF Init
  <1>3. payments \in [Payments -> Rows]
    BY DEF Init, Rows, Statuses
  <1>4. TablesOK
    BY <1>2, <1>3, FS_EmptySet DEF TablesOK
  <1>5. RowsMakeSense /\ ApprovedIsCredited /\ OperationApprovedOnce /\ ReviewDecides
    BY <1>1, <1>2 DEF RowsMakeSense, AnalysesOf, ApprovedIsCredited, IsPosted, OperationApprovedOnce,
                      ReviewDecides
  <1>6. AttemptsExplainStatus
    <2> SUFFICES ASSUME NEW p \in Payments
                 PROVE  LET of == {a \in analyses : a.payment = p}
                        IN  /\ {a.attempt : a \in of} = 1 .. Cardinality(of)
                            /\ \A a \in of : a.status = "succeeded" => a.attempt = Cardinality(of)
                            /\ payments[p].status \notin {"uploaded", "analyzing"}
      BY DEF AttemptsExplainStatus
    <2>1. {a \in analyses : a.payment = p} = {}
      BY <1>2
    <2>2. Cardinality({}) = 0
      BY FS_EmptySet
    <2> QED
      BY <1>1, <2>1, <2>2
  <1>7. ProcessesOK
    <2>1. \A x \in Processes : procs[x] = Idle
      BY DEF Init
    <2>2. procs \in [Processes -> WorkerStates \cup ReviewerStates]
      BY DEF Init, WorkerStates
    <2>3. locks \in [Payments -> Processes \cup {None}]
      BY DEF Init
    <2> QED
      BY <1>2, <2>1, <2>2, <2>3, BoundsAssumption DEF ProcessesOK, Processes, WorkerStates, ReviewerStates
  <1>8. ClaimsKnow /\ LockersKnow
    <2>1. \A x \in Processes : procs[x].phase = "idle"
      BY DEF Init, Idle
    <2> QED
      BY <2>1 DEF ClaimsKnow, LockersKnow, Processes
  <1> QED
    BY <1>4, <1>5, <1>6, <1>7, <1>8 DEF IInv, DataInv

-----------------------------------------------------------------------------
(* What the transactions do to the tables *)

(* Nothing. *)
LEMMA SameData ==
    ASSUME DataInv, UNCHANGED <<payments, analyses, reviews, ledger>>
    PROVE  DataInv' /\ \A p \in Payments : AttemptCount(p)' = AttemptCount(p)
  <1>1. \A p \in Payments : AnalysesOf(p)' = AnalysesOf(p) /\ AttemptCount(p)' = AttemptCount(p)
    BY DEF AnalysesOf, AttemptCount
  <1>2. \A p \in Payments : Credits(p)' = Credits(p)
    BY DEF Credits
  <1>3. TablesOK'
    BY <1>2 DEF DataInv, TablesOK
  <1>4. RowsMakeSense'
    BY <1>1 DEF DataInv, RowsMakeSense
  <1>5. ApprovedIsCredited' /\ OperationApprovedOnce' /\ ReviewDecides'
    BY DEF DataInv, ApprovedIsCredited, OperationApprovedOnce, ReviewDecides
  <1>6. AttemptsExplainStatus'
    BY DEF DataInv, AttemptsExplainStatus
  <1> QED
    BY <1>1, <1>3, <1>4, <1>5, <1>6 DEF DataInv

(* A payment that keeps its promo redemption keeps what it may credit.     *)
LEMMA SameCredits ==
    ASSUME payments \in [Payments -> Rows], NEW p \in Payments, NEW row,
           payments' = [payments EXCEPT ![p] = row], NEW q \in Payments,
           q # p \/ row.promoRevoked = payments[p].promoRevoked
    PROVE  Credits(q)' = Credits(q)
  <1>1. payments'[q].promoRevoked = payments[q].promoRevoked
    OBVIOUS
  <1> QED
    BY <1>1 DEF Credits

(* A payment is uploaded, or taken for analysis.                           *)
LEMMA Queued ==
    ASSUME DataInv, NEW p \in Payments, NEW row \in Rows,
           payments' = [payments EXCEPT ![p] = row],
           payments[p].status \in {"awaiting_upload", "uploaded", "analyzing"},
           row.status \in {"uploaded", "analyzing"},
           row.promoRevoked = payments[p].promoRevoked,
           UNCHANGED <<analyses, reviews, ledger>>
    PROVE  DataInv' /\ \A q \in Payments : AttemptCount(q)' = AttemptCount(q)
  <1>1. \A q \in Payments : AnalysesOf(q)' = AnalysesOf(q) /\ AttemptCount(q)' = AttemptCount(q)
    BY DEF AnalysesOf, AttemptCount
  <1>2. payments \in [Payments -> Rows] /\ payments' \in [Payments -> Rows]
        /\ payments'[p] = row /\ \A q \in Payments \ {p} : payments'[q] = payments[q]
    BY DEF DataInv, TablesOK
  <1>3. \A q \in Payments : Credits(q)' = Credits(q)
    BY <1>2, SameCredits
  <1>4. TablesOK'
    BY <1>2, <1>3 DEF DataInv, TablesOK
  <1>5. RowsMakeSense'
    BY <1>1, <1>2 DEF DataInv, RowsMakeSense
  <1>6. ApprovedIsCredited'
    BY <1>2 DEF DataInv, ApprovedIsCredited
  <1>7. OperationApprovedOnce'
    BY <1>2 DEF DataInv, OperationApprovedOnce
  <1>8. ReviewDecides'
    BY <1>2 DEF DataInv, TablesOK, ReviewDecides
  <1>9. AttemptsExplainStatus'
    <2> SUFFICES ASSUME NEW q \in Payments
                 PROVE  LET of == {a \in analyses' : a.payment = q}
                        IN  /\ {a.attempt : a \in of} = 1 .. Cardinality(of)
                            /\ \A a \in of : a.status = "succeeded" => a.attempt = Cardinality(of)
                            /\ payments'[q].status \in {"uploaded", "analyzing"} =>
                                 /\ Cardinality(of) < MaxAttempts
                                 /\ \A a \in of : a.status = "failed"
      BY DEF AttemptsExplainStatus
    <2>1. {a \in analyses' : a.payment = q} = AnalysesOf(q)
      BY DEF AnalysesOf
    <2>2. /\ {a.attempt : a \in AnalysesOf(q)} = 1 .. Cardinality(AnalysesOf(q))
          /\ \A a \in AnalysesOf(q) : a.status = "succeeded" => a.attempt = Cardinality(AnalysesOf(q))
          /\ payments[q].status \in {"uploaded", "analyzing"} =>
               /\ Cardinality(AnalysesOf(q)) < MaxAttempts
               /\ \A a \in AnalysesOf(q) : a.status = "failed"
      BY DEF DataInv, AttemptsExplainStatus, AnalysesOf
    <2>3. payments[q].status = "awaiting_upload" =>
            /\ Cardinality(AnalysesOf(q)) < MaxAttempts
            /\ AnalysesOf(q) = {}
      <3>1. payments[q].status = "awaiting_upload" => AnalysesOf(q) = {}
        BY DEF DataInv, RowsMakeSense
      <3>2. Cardinality({}) = 0
        BY FS_EmptySet
      <3> QED
        BY <3>1, <3>2, BoundsAssumption
    <2> QED
      BY <1>2, <2>1, <2>2, <2>3
  <1> QED
    BY <1>1, <1>4, <1>5, <1>6, <1>7, <1>8, <1>9 DEF DataInv

(* The attempt of a payment under analysis is recorded, with a decision.   *)
LEMMA Recorded ==
    ASSUME DataInv, NEW p \in Payments, NEW row \in Rows, NEW status \in {"succeeded", "failed"},
           payments[p].status = "analyzing",
           payments' = [payments EXCEPT ![p] = row],
           analyses' = analyses \cup
               {[payment |-> p, attempt |-> AttemptCount(p) + 1, status |-> status]},
           row.status \in {"uploaded", "manual_review", "approved"},
           row.status = "uploaded" => status = "failed" /\ AttemptCount(p) + 1 < MaxAttempts,
           row.promoRevoked = payments[p].promoRevoked,
           row.status = "approved" => OperationFree(p, row.operation) /\ ledger' = ledger \cup Credits(p),
           row.status # "approved" => UNCHANGED ledger,
           UNCHANGED reviews
    PROVE  /\ DataInv'
           /\ AttemptCount(p)' = AttemptCount(p) + 1
           /\ \A q \in Payments \ {p} : AttemptCount(q)' = AttemptCount(q)
  <1> DEFINE a == [payment |-> p, attempt |-> AttemptCount(p) + 1, status |-> status]
  <1>1. /\ IsFiniteSet(analyses')
        /\ AnalysesOf(p)' = AnalysesOf(p) \cup {a}
        /\ AttemptCount(p)' = AttemptCount(p) + 1
        /\ Cardinality(AnalysesOf(p)') = AttemptCount(p) + 1
        /\ {b.attempt : b \in AnalysesOf(p)'} = 1 .. AttemptCount(p) + 1
        /\ \A q \in Payments \ {p} :
              AnalysesOf(q)' = AnalysesOf(q) /\ AttemptCount(q)' = AttemptCount(q)
    BY OneMore
  <1>2. payments \in [Payments -> Rows] /\ payments' \in [Payments -> Rows]
        /\ payments'[p] = row /\ \A q \in Payments \ {p} : payments'[q] = payments[q]
    BY DEF DataInv, TablesOK
  <1>3. \A q \in Payments : Credits(q)' = Credits(q)
    BY <1>2, SameCredits
  <1>4. /\ AttemptCount(p) \in Nat /\ AttemptCount(p) < MaxAttempts
        /\ \A b \in AnalysesOf(p) : b.status = "failed"
    BY Counted
  <1>5. ~payments[p].promoRevoked
    BY DEF DataInv, RowsMakeSense
  <1>6. TablesOK'
    <2>1. a \in [payment : Payments, attempt : 1 .. MaxAttempts, status : {"succeeded", "failed"}]
      BY <1>4, BoundsAssumption
    <2>2. ledger' \subseteq UNION {Credits(q)' : q \in Payments}
      BY <1>3 DEF DataInv, TablesOK
    <2> QED
      BY <1>1, <1>2, <2>1, <2>2 DEF DataInv, TablesOK
  <1>7. RowsMakeSense'
    BY <1>1, <1>2, <1>5 DEF DataInv, RowsMakeSense
  <1>8. ApprovedIsCredited'
    <2> SUFFICES ASSUME NEW q \in Payments
                 PROVE  /\ payments'[q].status = "approved" <=> IsPosted(ledger', CreditKey(q))
                        /\ IsPosted(ledger', PromoKey(q)) <=> payments'[q].status = "approved" /\ Discount[q] > 0
      BY DEF ApprovedIsCredited
    <2>1. /\ payments[q].status = "approved" <=> IsPosted(ledger, CreditKey(q))
          /\ IsPosted(ledger, PromoKey(q)) <=> payments[q].status = "approved" /\ Discount[q] > 0
      BY DEF DataInv, ApprovedIsCredited
    <2>2. CASE row.status # "approved"
      BY <1>2, <2>1, <2>2
    <2>3. CASE row.status = "approved"
      <3>1. \A k : IsPosted(ledger', k) <=>
               \/ IsPosted(ledger, k)
               \/ k = CreditKey(p)
               \/ k = PromoKey(p) /\ Discount[p] > 0
        BY <1>5, <2>3, CreditsPosted
      <3>2. /\ CreditKey(q) # PromoKey(p) /\ PromoKey(q) # CreditKey(p)
            /\ CreditKey(q) = CreditKey(p) => q = p
            /\ PromoKey(q) = PromoKey(p) => q = p
        BY KeysDiffer
      <3> QED
        BY <1>2, <2>1, <2>3, <3>1, <3>2
    <2> QED
      BY <2>2, <2>3
  <1>9. OperationApprovedOnce'
    BY <1>2 DEF DataInv, OperationApprovedOnce, OperationFree, DuplicateOperationExists
  <1>10. ReviewDecides'
    BY <1>2 DEF DataInv, TablesOK, ReviewDecides
  <1>11. AttemptsExplainStatus'
    <2> SUFFICES ASSUME NEW q \in Payments
                 PROVE  LET of == {b \in analyses' : b.payment = q}
                        IN  /\ {b.attempt : b \in of} = 1 .. Cardinality(of)
                            /\ \A b \in of : b.status = "succeeded" => b.attempt = Cardinality(of)
                            /\ payments'[q].status \in {"uploaded", "analyzing"} =>
                                 /\ Cardinality(of) < MaxAttempts
                                 /\ \A b \in of : b.status = "failed"
      BY DEF AttemptsExplainStatus
    <2>1. {b \in analyses' : b.payment = q} = AnalysesOf(q)'
      BY DEF AnalysesOf
    <2>2. CASE q # p
      <3>1. AnalysesOf(q)' = AnalysesOf(q) /\ payments'[q] = payments[q]
        BY <1>1, <1>2, <2>2
      <3>2. /\ {b.attempt : b \in AnalysesOf(q)} = 1 .. Cardinality(AnalysesOf(q))
            /\ \A b \in AnalysesOf(q) : b.status = "succeeded" => b.attempt = Cardinality(AnalysesOf(q))
            /\ payments[q].status \in {"uploaded", "analyzing"} =>
                 /\ Cardinality(AnalysesOf(q)) < MaxAttempts
                 /\ \A b \in AnalysesOf(q) : b.status = "failed"
        BY DEF DataInv, AttemptsExplainStatus, AnalysesOf
      <3> QED
        BY <2>1, <3>1, <3>2
    <2>3. CASE q = p
      <3>1. \A b \in AnalysesOf(p)' : b.status = "succeeded" => b.attempt = AttemptCount(p) + 1
        BY <1>1, <1>4
      <3>2. row.status \in {"uploaded", "analyzing"} =>
              /\ AttemptCount(p) + 1 < MaxAttempts
              /\ \A b \in AnalysesOf(p)' : b.status = "failed"
        BY <1>1, <1>4
      <3> QED
        BY <1>1, <1>2, <2>1, <2>3, <3>1, <3>2
    <2> QED
      BY <2>2, <2>3
  <1> QED
    BY <1>1, <1>6, <1>7, <1>8, <1>9, <1>10, <1>11 DEF DataInv

(* A payment in review is decided.                                         *)
LEMMA Reviewed ==
    ASSUME DataInv, NEW p \in Payments, NEW row \in Rows, NEW version \in Nat \ {0},
           payments[p].status = "manual_review",
           payments' = [payments EXCEPT ![p] = row],
           reviews' = reviews \cup {[payment |-> p, decision |-> row.status, version |-> version]},
           row.status \in {"approved", "rejected"},
           row.promoRevoked => row.status = "rejected",
           row.status = "approved" =>
               OperationFree(p, row.operation) /\ ledger' = ledger \cup Credits(p),
           row.status = "rejected" => UNCHANGED ledger,
           UNCHANGED analyses
    PROVE  DataInv' /\ \A q \in Payments : AttemptCount(q)' = AttemptCount(q)
  <1> DEFINE r == [payment |-> p, decision |-> row.status, version |-> version]
  <1>1. \A q \in Payments : AnalysesOf(q)' = AnalysesOf(q) /\ AttemptCount(q)' = AttemptCount(q)
    BY DEF AnalysesOf, AttemptCount
  <1>2. payments \in [Payments -> Rows] /\ payments' \in [Payments -> Rows]
        /\ payments'[p] = row /\ \A q \in Payments \ {p} : payments'[q] = payments[q]
    BY DEF DataInv, TablesOK
  <1>3. ~payments[p].promoRevoked /\ ~IsPosted(ledger, CreditKey(p)) /\ ~IsPosted(ledger, PromoKey(p))
    BY DEF DataInv, RowsMakeSense, ApprovedIsCredited
  <1>4. TablesOK'
    <2>1. reviews' \subseteq [payment : Payments, decision : {"approved", "rejected"}, version : Nat \ {0}]
      BY DEF DataInv, TablesOK
    <2>2. ASSUME NEW t \in ledger'
          PROVE  \E q \in Payments : t \in Credits(q)'
      <3>1. CASE t \in ledger
        <4>1. PICK q \in Payments : t \in Credits(q)
          BY <3>1 DEF DataInv, TablesOK
        <4>2. q # p
          BY <1>3, <3>1, <4>1, CreditsKeys DEF IsPosted
        <4> QED
          BY <1>2, <4>1, <4>2, SameCredits
      <3>2. CASE t \notin ledger
        <4>1. row.status = "approved" /\ t \in Credits(p)
          BY <2>2, <3>2
        <4>2. row.promoRevoked = payments[p].promoRevoked
          BY <1>2, <1>3, <4>1 DEF Rows
        <4> QED
          BY <1>2, <4>1, <4>2, SameCredits
      <3> QED
        BY <3>1, <3>2
    <2> QED
      BY <1>2, <2>1, <2>2 DEF DataInv, TablesOK
  <1>5. RowsMakeSense'
    BY <1>1, <1>2 DEF DataInv, RowsMakeSense
  <1>6. ApprovedIsCredited'
    <2> SUFFICES ASSUME NEW q \in Payments
                 PROVE  /\ payments'[q].status = "approved" <=> IsPosted(ledger', CreditKey(q))
                        /\ IsPosted(ledger', PromoKey(q)) <=> payments'[q].status = "approved" /\ Discount[q] > 0
      BY DEF ApprovedIsCredited
    <2>1. /\ payments[q].status = "approved" <=> IsPosted(ledger, CreditKey(q))
          /\ IsPosted(ledger, PromoKey(q)) <=> payments[q].status = "approved" /\ Discount[q] > 0
      BY DEF DataInv, ApprovedIsCredited
    <2>2. CASE row.status = "rejected"
      BY <1>2, <2>1, <2>2
    <2>3. CASE row.status = "approved"
      <3>1. \A k : IsPosted(ledger', k) <=>
               \/ IsPosted(ledger, k)
               \/ k = CreditKey(p)
               \/ k = PromoKey(p) /\ Discount[p] > 0
        BY <1>3, <2>3, CreditsPosted
      <3>2. /\ CreditKey(q) # PromoKey(p) /\ PromoKey(q) # CreditKey(p)
            /\ CreditKey(q) = CreditKey(p) => q = p
            /\ PromoKey(q) = PromoKey(p) => q = p
        BY KeysDiffer
      <3> QED
        BY <1>2, <2>1, <2>3, <3>1, <3>2
    <2> QED
      BY <2>2, <2>3
  <1>7. OperationApprovedOnce'
    BY <1>2 DEF DataInv, OperationApprovedOnce, OperationFree, DuplicateOperationExists
  <1>8. ReviewDecides'
    <2>1. \A x \in reviews : x.payment \in Payments /\ x.payment # p
      BY DEF DataInv, TablesOK, ReviewDecides
    <2>2. \A x, y \in reviews' : x.payment = y.payment => x = y
      BY <2>1 DEF DataInv, ReviewDecides
    <2>3. \A x \in reviews' : payments'[x.payment].status = x.decision
      BY <1>2, <2>1 DEF DataInv, ReviewDecides
    <2>4. \A q \in Payments : payments'[q].status = "rejected" => \E x \in reviews' : x.payment = q
      <3> SUFFICES ASSUME NEW q \in Payments, payments'[q].status = "rejected"
                   PROVE  \E x \in reviews' : x.payment = q
        OBVIOUS
      <3>1. CASE q = p
        <4>1. r \in reviews' /\ r.payment = p
          OBVIOUS
        <4> QED
          BY <3>1, <4>1
      <3>2. CASE q # p
        <4>1. payments[q].status = "rejected"
          BY <1>2, <3>2
        <4>2. PICK x \in reviews : x.payment = q
          BY <4>1 DEF DataInv, ReviewDecides
        <4> QED
          BY <4>2
      <3> QED
        BY <3>1, <3>2
    <2> QED
      BY <2>2, <2>3, <2>4 DEF ReviewDecides
  <1>9. AttemptsExplainStatus'
    <2> SUFFICES ASSUME NEW q \in Payments
                 PROVE  LET of == {b \in analyses : b.payment = q}
                        IN  /\ {b.attempt : b \in of} = 1 .. Cardinality(of)
                            /\ \A b \in of : b.status = "succeeded" => b.attempt = Cardinality(of)
                            /\ payments'[q].status \in {"uploaded", "analyzing"} =>
                                 /\ Cardinality(of) < MaxAttempts
                                 /\ \A b \in of : b.status = "failed"
      BY DEF AttemptsExplainStatus
    <2>1. payments'[q].status \in {"uploaded", "analyzing"} =>
            payments[q].status \in {"uploaded", "analyzing"}
      BY <1>2
    <2> QED
      BY <2>1 DEF DataInv, AttemptsExplainStatus
  <1> QED
    BY <1>1, <1>4, <1>5, <1>6, <1>7, <1>8, <1>9 DEF DataInv

-----------------------------------------------------------------------------
(* What the transactions do to the workers and the reviewers *)

(* The states of workers and of reviewers, by phase. *)
LEMMA ByPhase ==
    ASSUME ProcessesOK
    PROVE  /\ \A w \in Workers :
                /\ procs[w].phase \in {"idle", "claimed", "reading", "deciding"}
                /\ procs[w].phase \in {"claimed", "reading", "deciding"} =>
                      procs[w].payment \in Payments /\ procs[w].version \in Nat \ {0}
                /\ procs[w].phase \in {"reading", "deciding"} => procs[w].attempt \in 1 .. MaxAttempts
                /\ procs[w].phase = "deciding" =>
                      procs[w].operation \in Operations \cup {None} /\ procs[w].approves \in BOOLEAN
           /\ \A r \in Reviewers :
                /\ procs[r].phase \in {"idle", "reviewing"}
                /\ procs[r].phase = "reviewing" =>
                      /\ procs[r].payment \in Payments /\ procs[r].version \in Nat \ {0}
                      /\ procs[r].decision \in {"approved", "rejected"}
  <1>1. \A w \in Workers : procs[w] \in WorkerStates
    BY DEF ProcessesOK
  <1>2. \A r \in Reviewers : procs[r] \in ReviewerStates
    BY DEF ProcessesOK
  <1>3. ASSUME NEW s \in WorkerStates
        PROVE  /\ s.phase \in {"idle", "claimed", "reading", "deciding"}
               /\ s.phase \in {"claimed", "reading", "deciding"} =>
                     s.payment \in Payments /\ s.version \in Nat \ {0}
               /\ s.phase \in {"reading", "deciding"} => s.attempt \in 1 .. MaxAttempts
               /\ s.phase = "deciding" => s.operation \in Operations \cup {None} /\ s.approves \in BOOLEAN
    BY DEF WorkerStates, Idle
  <1>4. ASSUME NEW s \in ReviewerStates
        PROVE  /\ s.phase \in {"idle", "reviewing"}
               /\ s.phase = "reviewing" =>
                     /\ s.payment \in Payments /\ s.version \in Nat \ {0}
                     /\ s.decision \in {"approved", "rejected"}
    BY DEF ReviewerStates, Idle
  <1> QED
    BY <1>1, <1>2, <1>3, <1>4

(* A step of one process x, or of none, keeps what the others rely on if   *)
(* it leaves a payment under analysis that way unless it records an        *)
(* attempt, changes no payment somebody else has locked and takes no lock  *)
(* from anybody else.                                                      *)
LEMMA OthersInv ==
    ASSUME DataInv, ProcessesOK, ClaimsKnow, LockersKnow,
           NEW x \in Processes, NEW s, procs' = [procs EXCEPT ![x] = s],
           x \in Workers => s \in WorkerStates, x \in Reviewers => s \in ReviewerStates,
           expired' \subseteq Payments, faults' \in 0 .. MaxFaults,
           locks' \in [Payments -> Processes \cup {None}],
           \A p \in Payments : AttemptCount(p)' \in {AttemptCount(p), AttemptCount(p) + 1},
           \A p \in Payments : AttemptCount(p)' = AttemptCount(p) /\ payments[p].status = "analyzing" =>
               payments'[p].status = "analyzing",
           \A p \in Payments : payments'[p] # payments[p] => locks[p] \in {None, x},
           \A p \in Payments : locks'[p] # locks[p] => locks[p] \in {None, x},
           \A p \in Payments : s.phase \in {"reading", "deciding"} /\ s.payment = p =>
               /\ s.attempt <= AttemptCount(p)' + 1
               /\ s.attempt = AttemptCount(p)' + 1 => payments'[p].status = "analyzing",
           s.phase \in {"deciding", "reviewing"} => locks'[s.payment] = x,
           s.phase = "reviewing" => /\ payments'[s.payment].status = "manual_review"
                                    /\ payments'[s.payment].version = s.version
    PROVE  ProcessesOK' /\ ClaimsKnow' /\ LockersKnow'
  <1>1. /\ procs'[x] = s
        /\ \A y \in Processes \ {x} : procs'[y] = procs[y]
    BY DEF ProcessesOK
  <1>2. s \in WorkerStates \cup ReviewerStates
    BY DEF Processes
  <1>3. ProcessesOK'
    <2>1. procs' \in [Processes -> WorkerStates \cup ReviewerStates]
      BY <1>2 DEF ProcessesOK
    <2>2. \A w \in Workers : procs'[w] \in WorkerStates
      BY <1>1 DEF ProcessesOK, Processes
    <2>3. \A r \in Reviewers : procs'[r] \in ReviewerStates
      BY <1>1 DEF ProcessesOK, Processes
    <2> QED
      BY <2>1, <2>2, <2>3 DEF ProcessesOK, WorkerStates, ReviewerStates, Idle
  <1>4. None \notin Processes
    BY ProcessesAssumption DEF Processes
  <1>5. ClaimsKnow'
    <2> SUFFICES ASSUME NEW w \in Workers, NEW p \in Payments,
                        procs'[w].phase \in {"reading", "deciding"}, procs'[w].payment = p
                 PROVE  /\ procs'[w].attempt <= AttemptCount(p)' + 1
                        /\ procs'[w].attempt = AttemptCount(p)' + 1 => payments'[p].status = "analyzing"
      BY DEF ClaimsKnow
    <2>1. CASE w = x
      BY <1>1, <2>1
    <2>2. CASE w # x
      <3>1. procs'[w] = procs[w]
        BY <1>1, <2>2 DEF Processes
      <3>2. procs[w].attempt \in Nat
        BY <3>1, ByPhase, BoundsAssumption
      <3>3. AttemptCount(p) \in Nat
        BY Counted
      <3>4. /\ procs[w].attempt <= AttemptCount(p) + 1
            /\ procs[w].attempt = AttemptCount(p) + 1 => payments[p].status = "analyzing"
        BY <3>1 DEF ClaimsKnow
      <3>5. AttemptCount(p)' \in {AttemptCount(p), AttemptCount(p) + 1}
        OBVIOUS
      <3>6. AttemptCount(p)' = AttemptCount(p) /\ payments[p].status = "analyzing" =>
              payments'[p].status = "analyzing"
        OBVIOUS
      <3> QED
        BY <3>1, <3>2, <3>3, <3>4, <3>5, <3>6
    <2> QED
      BY <2>1, <2>2
  <1>6. LockersKnow'
    <2>1. ASSUME NEW y \in Processes, procs'[y].phase \in {"deciding", "reviewing"}
          PROVE  locks'[procs'[y].payment] = y
      <3>1. CASE y = x
        BY <1>1, <2>1, <3>1
      <3>2. CASE y # x
        <4>1. procs'[y] = procs[y]
          BY <1>1, <3>2
        <4>2. locks[procs[y].payment] = y
          BY <2>1, <4>1 DEF LockersKnow
        <4>3. procs[y].payment \in Payments
          BY <2>1, <4>1, ByPhase DEF Processes
        <4> QED
          BY <1>4, <3>2, <4>1, <4>2, <4>3
      <3> QED
        BY <3>1, <3>2
    <2>2. ASSUME NEW r \in Reviewers, procs'[r].phase = "reviewing"
          PROVE  /\ payments'[procs'[r].payment].status = "manual_review"
                 /\ payments'[procs'[r].payment].version = procs'[r].version
      <3>1. CASE r = x
        BY <1>1, <2>2, <3>1
      <3>2. CASE r # x
        <4>1. r \in Processes /\ procs'[r] = procs[r]
          BY <1>1, <3>2 DEF Processes
        <4>2. /\ locks[procs[r].payment] = r
              /\ payments[procs[r].payment].status = "manual_review"
              /\ payments[procs[r].payment].version = procs[r].version
          BY <2>2, <4>1 DEF LockersKnow
        <4>3. procs[r].payment \in Payments
          BY <2>2, <4>1, ByPhase
        <4>4. payments'[procs[r].payment] = payments[procs[r].payment]
          BY <1>4, <3>2, <4>1, <4>2, <4>3
        <4> QED
          BY <4>1, <4>2, <4>4
      <3> QED
        BY <3>1, <3>2
    <2> QED
      BY <2>1, <2>2 DEF LockersKnow
  <1> QED
    BY <1>3, <1>5, <1>6

-----------------------------------------------------------------------------
(* The steps *)

(* A step that changes no table, and of the locks and the processes        *)
(* nothing but what its own process has.                                   *)
LEMMA OwnStep ==
    ASSUME IInv, UNCHANGED <<payments, analyses, reviews, ledger>>,
           NEW x \in Processes, NEW s, procs' = [procs EXCEPT ![x] = s],
           x \in Workers => s \in WorkerStates, x \in Reviewers => s \in ReviewerStates,
           expired' = expired, faults' \in 0 .. MaxFaults,
           locks' \in [Payments -> Processes \cup {None}],
           \A p \in Payments : locks'[p] # locks[p] => locks[p] \in {None, x},
           \A p \in Payments : s.phase \in {"reading", "deciding"} /\ s.payment = p =>
               /\ s.attempt <= AttemptCount(p) + 1
               /\ s.attempt = AttemptCount(p) + 1 => payments[p].status = "analyzing",
           s.phase \in {"deciding", "reviewing"} => locks'[s.payment] = x,
           s.phase = "reviewing" => /\ payments[s.payment].status = "manual_review"
                                    /\ payments[s.payment].version = s.version
    PROVE  IInv'
  <1>1. DataInv /\ ProcessesOK /\ ClaimsKnow /\ LockersKnow
    BY DEF IInv
  <1>2. DataInv' /\ \A p \in Payments : AttemptCount(p)' = AttemptCount(p)
    BY <1>1, SameData
  <1>3. expired' \subseteq Payments
    BY <1>1 DEF ProcessesOK
  <1>4. /\ \A p \in Payments : AttemptCount(p)' \in {AttemptCount(p), AttemptCount(p) + 1}
        /\ \A p \in Payments : s.phase \in {"reading", "deciding"} /\ s.payment = p =>
              /\ s.attempt <= AttemptCount(p)' + 1
              /\ s.attempt = AttemptCount(p)' + 1 => payments'[p].status = "analyzing"
    BY <1>2
  <1>5. /\ \A p \in Payments : payments[p].status = "analyzing" => payments'[p].status = "analyzing"
        /\ \A p \in Payments : payments'[p] # payments[p] => locks[p] \in {None, x}
        /\ s.phase = "reviewing" => /\ payments'[s.payment].status = "manual_review"
                                    /\ payments'[s.payment].version = s.version
    OBVIOUS
  <1>6. ProcessesOK' /\ ClaimsKnow' /\ LockersKnow'
    BY <1>1, <1>3, <1>4, <1>5, OthersInv
  <1> QED
    BY <1>2, <1>6 DEF IInv

(* A step of no process. *)
LEMMA NobodysInv ==
    ASSUME DataInv, ProcessesOK, ClaimsKnow, LockersKnow, UNCHANGED <<locks, procs, faults>>,
           expired' \subseteq Payments,
           \A p \in Payments : AttemptCount(p)' = AttemptCount(p),
           \A p \in Payments : payments'[p] # payments[p] =>
               locks[p] = None /\ payments[p].status # "analyzing"
    PROVE  ProcessesOK' /\ ClaimsKnow' /\ LockersKnow'
  <1>1. ProcessesOK'
    BY DEF ProcessesOK, WorkerStates, ReviewerStates, Idle
  <1>2. ClaimsKnow'
    <2> SUFFICES ASSUME NEW w \in Workers, NEW p \in Payments,
                        procs[w].phase \in {"reading", "deciding"}, procs[w].payment = p
                 PROVE  /\ procs[w].attempt <= AttemptCount(p)' + 1
                        /\ procs[w].attempt = AttemptCount(p)' + 1 => payments'[p].status = "analyzing"
      BY DEF ClaimsKnow
    <2>1. AttemptCount(p)' = AttemptCount(p)
      OBVIOUS
    <2>2. /\ procs[w].attempt <= AttemptCount(p) + 1
          /\ procs[w].attempt = AttemptCount(p) + 1 => payments[p].status = "analyzing"
      BY DEF ClaimsKnow
    <2> QED
      BY <2>1, <2>2
  <1>3. LockersKnow'
    <2>1. None \notin Processes
      BY ProcessesAssumption DEF Processes
    <2>2. ASSUME NEW r \in Reviewers, procs[r].phase = "reviewing"
          PROVE  payments'[procs[r].payment] = payments[procs[r].payment]
      <3>1. locks[procs[r].payment] = r /\ r \in Processes
        BY <2>2 DEF LockersKnow, Processes
      <3>2. procs[r].payment \in Payments
        BY <2>2, ByPhase
      <3> QED
        BY <2>1, <3>1, <3>2
    <2> QED
      BY <2>2 DEF LockersKnow
  <1> QED
    BY <1>1, <1>2, <1>3

(* UploadEvidence keeps the invariant.                                     *)
LEMMA UploadEvidenceInv ==
    ASSUME IInv, NEW p \in Payments, UploadEvidence(p)
    PROVE  IInv'
  <1> DEFINE row == [payments[p] EXCEPT !.status = "uploaded", !.version = @ + 1]
  <1> USE DEF UploadEvidence
  <1>1. DataInv /\ ProcessesOK /\ ClaimsKnow /\ LockersKnow /\ payments \in [Payments -> Rows]
    BY DEF IInv, DataInv, TablesOK
  <1>2. /\ row \in Rows /\ row.status = "uploaded"
        /\ row.promoRevoked = payments[p].promoRevoked
    BY <1>1 DEF Rows, Statuses
  <1>3. payments' = [payments EXCEPT ![p] = row]
    OBVIOUS
  <1> HIDE DEF row
  <1>4. DataInv' /\ \A q \in Payments : AttemptCount(q)' = AttemptCount(q)
    BY <1>1, <1>2, <1>3, Queued
  <1>5. \A q \in Payments : payments'[q] # payments[q] =>
          locks[q] = None /\ payments[q].status # "analyzing"
    BY <1>1, <1>3 DEF Free
  <1>6. ProcessesOK' /\ ClaimsKnow' /\ LockersKnow'
    <2>1. expired' \subseteq Payments /\ UNCHANGED <<locks, procs, faults>>
      BY <1>1 DEF ProcessesOK
    <2> QED
      BY <1>1, <1>4, <1>5, <2>1, NobodysInv
  <1> QED
    BY <1>4, <1>6 DEF IInv

(* Expire keeps the invariant.                                             *)
LEMMA ExpireInv ==
    ASSUME IInv, NEW p \in Payments, Expire(p)
    PROVE  IInv'
  <1> USE DEF Expire
  <1>1. DataInv /\ ProcessesOK /\ ClaimsKnow /\ LockersKnow
    BY DEF IInv
  <1>2. DataInv' /\ \A q \in Payments : AttemptCount(q)' = AttemptCount(q)
    BY <1>1, SameData
  <1>3. ProcessesOK' /\ ClaimsKnow' /\ LockersKnow'
    <2>1. expired' \subseteq Payments /\ UNCHANGED <<locks, procs, faults, payments>>
      BY <1>1 DEF ProcessesOK
    <2> QED
      BY <1>1, <1>2, <2>1, NobodysInv
  <1> QED
    BY <1>2, <1>3 DEF IInv

(* Claim keeps the invariant.                                              *)
LEMMA ClaimInv ==
    ASSUME IInv, NEW w \in Workers, NEW p \in Payments, Claim(w, p)
    PROVE  IInv'
  <1> DEFINE row == [payments[p] EXCEPT !.status = "analyzing", !.version = @ + 1]
             s == [phase |-> "claimed", payment |-> p, version |-> payments[p].version + 1]
  <1> USE DEF Claim
  <1>1. DataInv /\ ProcessesOK /\ ClaimsKnow /\ LockersKnow /\ payments \in [Payments -> Rows]
    BY DEF IInv, DataInv, TablesOK
  <1>2. /\ row \in Rows /\ row.status = "analyzing"
        /\ row.promoRevoked = payments[p].promoRevoked
        /\ payments[p].version + 1 \in Nat \ {0}
    BY <1>1 DEF Rows, Statuses
  <1>3. payments' = [payments EXCEPT ![p] = row]
    OBVIOUS
  <1>4. procs' = [procs EXCEPT ![w] = s] /\ s \in WorkerStates /\ s.phase = "claimed"
    BY <1>2 DEF Become, WorkerStates
  <1>5. payments[p].status \in {"uploaded", "analyzing"} /\ locks[p] = None
    BY DEF Claimable, Free
  <1>6. faults' \in 0 .. MaxFaults
    BY <1>1, BoundsAssumption DEF ProcessesOK, Claimable
  <1>7. /\ expired' \subseteq Payments /\ locks' \in [Payments -> Processes \cup {None}] /\ locks' = locks
        /\ UNCHANGED <<analyses, reviews, ledger>>
    BY <1>1 DEF ProcessesOK
  <1>8. w \in Processes /\ w \notin Reviewers
    BY ProcessesAssumption DEF Processes
  <1> HIDE DEF row, s, Claim
  <1>9. DataInv' /\ \A q \in Payments : AttemptCount(q)' = AttemptCount(q)
    BY <1>1, <1>2, <1>3, <1>5, <1>7, Queued
  <1>10. /\ \A q \in Payments : payments[q].status = "analyzing" => payments'[q].status = "analyzing"
         /\ \A q \in Payments : payments'[q] # payments[q] => locks[q] \in {None, w}
    BY <1>1, <1>2, <1>3, <1>5
  <1>11. ProcessesOK' /\ ClaimsKnow' /\ LockersKnow'
    BY <1>1, <1>4, <1>6, <1>7, <1>8, <1>9, <1>10, OthersInv
  <1> QED
    BY <1>9, <1>11 DEF IInv

(* Open keeps the invariant.                                               *)
LEMMA OpenInv ==
    ASSUME IInv, NEW w \in Workers, Open(w)
    PROVE  IInv'
  <1> DEFINE p == procs[w].payment
             s == IF payments[p].status = "analyzing" /\ payments[p].version = procs[w].version
                  THEN [phase |-> "reading", payment |-> p, version |-> procs[w].version,
                        attempt |-> AttemptCount(p) + 1]
                  ELSE Idle
  <1> USE DEF Open
  <1>1. DataInv /\ ProcessesOK
    BY DEF IInv
  <1>2. p \in Payments /\ procs[w].version \in Nat \ {0}
    BY <1>1, ByPhase
  <1>3. /\ AttemptCount(p) \in Nat
        /\ payments[p].status = "analyzing" => AttemptCount(p) + 1 \in 1 .. MaxAttempts
    BY <1>1, <1>2, Counted, BoundsAssumption
  <1>4. procs' = [procs EXCEPT ![w] = s]
    BY DEF Become
  <1>5. s \in WorkerStates
    BY <1>2, <1>3 DEF WorkerStates
  <1>6. /\ s.phase \in {"idle", "reading"}
        /\ s.phase = "reading" =>
              s.payment = p /\ s.attempt = AttemptCount(p) + 1 /\ payments[p].status = "analyzing"
    BY DEF Idle
  <1>7. /\ expired' = expired /\ faults' \in 0 .. MaxFaults
        /\ locks' \in [Payments -> Processes \cup {None}] /\ locks' = locks
        /\ UNCHANGED <<payments, analyses, reviews, ledger>>
    BY <1>1 DEF ProcessesOK
  <1>8. w \in Processes /\ w \notin Reviewers
    BY ProcessesAssumption DEF Processes
  <1>9. \A q \in Payments : s.phase \in {"reading", "deciding"} /\ s.payment = q =>
          /\ s.attempt <= AttemptCount(q) + 1
          /\ s.attempt = AttemptCount(q) + 1 => payments[q].status = "analyzing"
    BY <1>3, <1>6
  <1> HIDE DEF s, Open
  <1> QED
    BY <1>4, <1>5, <1>6, <1>7, <1>8, <1>9, OwnStep

(* Crash keeps the invariant.                                              *)
LEMMA CrashInv ==
    ASSUME IInv, NEW x \in Processes, Crash(x)
    PROVE  IInv'
  <1> USE DEF Crash
  <1>1. ProcessesOK
    BY DEF IInv
  <1>2. procs' = [procs EXCEPT ![x] = Idle] /\ Idle \in WorkerStates /\ Idle \in ReviewerStates
    BY DEF Become, WorkerStates, ReviewerStates
  <1>3. Idle.phase = "idle"
    BY DEF Idle
  <1>4. /\ expired' = expired /\ faults' \in 0 .. MaxFaults
        /\ UNCHANGED <<payments, analyses, reviews, ledger>>
    BY <1>1, BoundsAssumption DEF ProcessesOK
  <1>5. /\ locks' \in [Payments -> Processes \cup {None}]
        /\ \A p \in Payments : locks'[p] # locks[p] => locks[p] \in {None, x}
    BY <1>1 DEF ProcessesOK
  <1> QED
    BY <1>2, <1>3, <1>4, <1>5, OwnStep

(* What a worker that may still record knows of its payment: if its        *)
(* attempt is free it is the next one, and the payment is under analysis.  *)
LEMMA MayRecord ==
    ASSUME IInv, NEW w \in Workers, procs[w].phase \in {"reading", "deciding"},
           NEW p \in Payments, procs[w].payment = p
    PROVE  /\ procs[w].version \in Nat \ {0}
           /\ procs[w].attempt \in 1 .. MaxAttempts
           /\ procs[w].phase = "deciding" =>
                 procs[w].operation \in Operations \cup {None} /\ procs[w].approves \in BOOLEAN
           /\ procs[w].attempt <= AttemptCount(p) + 1
           /\ procs[w].attempt = AttemptCount(p) + 1 => payments[p].status = "analyzing"
           /\ AttemptFree(p, procs[w].attempt) =>
                 procs[w].attempt = AttemptCount(p) + 1 /\ payments[p].status = "analyzing"
  <1>1. DataInv /\ ProcessesOK /\ ClaimsKnow
    BY DEF IInv
  <1>2. /\ procs[w].version \in Nat \ {0}
        /\ procs[w].attempt \in 1 .. MaxAttempts
        /\ procs[w].phase = "deciding" =>
              procs[w].operation \in Operations \cup {None} /\ procs[w].approves \in BOOLEAN
    BY <1>1, ByPhase
  <1>3. /\ procs[w].attempt <= AttemptCount(p) + 1
        /\ procs[w].attempt = AttemptCount(p) + 1 => payments[p].status = "analyzing"
    BY <1>1, <1>2 DEF ClaimsKnow
  <1>4. AttemptFree(p, procs[w].attempt) => procs[w].attempt = AttemptCount(p) + 1
    <2> DEFINE n == procs[w].attempt
    <2>1. n \in Nat \ {0}
      BY <1>2, BoundsAssumption
    <2>2. AttemptCount(p) \in Nat /\ n <= AttemptCount(p) + 1
      BY <1>1, <1>3, Counted
    <2> HIDE DEF n
    <2>3. AttemptFree(p, n) <=> n > AttemptCount(p)
      BY <1>1, <2>1, Counted
    <2>4. AttemptFree(p, n) => n = AttemptCount(p) + 1
      BY <2>1, <2>2, <2>3
    <2> QED
      BY <2>4 DEF n
  <1> QED
    BY <1>2, <1>3, <1>4

(* The payment a process has in hand is one of them.                       *)
LEMMA InHand ==
    ASSUME IInv
    PROVE  /\ \A w \in Workers : procs[w].phase \in {"reading", "deciding"} =>
                 procs[w].payment \in Payments
           /\ \A r \in Reviewers : procs[r].phase = "reviewing" => procs[r].payment \in Payments
  BY ByPhase DEF IInv

(* A row with another status, version or operation is a row.               *)
LEMMA RowOf ==
    ASSUME NEW row \in Rows, NEW st \in Statuses, NEW v \in Nat, NEW o \in Operations \cup {None}
    PROVE  /\ [row EXCEPT !.status = st, !.version = v + 1] \in Rows
           /\ [row EXCEPT !.version = v + 1, !.operation = o] \in Rows
           /\ [row EXCEPT !.status = st] \in Rows
           /\ [row EXCEPT !.status = st, !.version = @ + 1] \in Rows
           /\ [row EXCEPT !.status = st, !.version = @ + 1, !.promoRevoked = TRUE] \in Rows
  <1>1. v + 1 \in Nat \ {0} /\ row.version + 1 \in Nat \ {0}
    BY DEF Rows
  <1>2. [row EXCEPT !.status = st, !.version = v + 1] \in Rows
    BY <1>1 DEF Rows
  <1>3. [row EXCEPT !.version = v + 1, !.operation = o] \in Rows
    BY <1>1 DEF Rows
  <1>4. [row EXCEPT !.status = st] \in Rows
    BY DEF Rows
  <1>5. [row EXCEPT !.status = st, !.version = @ + 1] \in Rows
    BY <1>1 DEF Rows
  <1>6. [row EXCEPT !.status = st, !.version = @ + 1, !.promoRevoked = TRUE] \in Rows
    BY <1>1 DEF Rows
  <1> QED
    BY <1>2, <1>3, <1>4, <1>5, <1>6

(* Decide keeps the invariant: it records nothing yet.                     *)
LEMMA DecideInv ==
    ASSUME IInv, NEW w \in Workers, NEW extraction \in Extractions, Decide(w, extraction)
    PROVE  IInv'
  <1>1. DataInv /\ ProcessesOK /\ LockersKnow
    BY DEF IInv
  <1> PICK p \in Payments : p = procs[w].payment
    BY InHand DEF Decide
  <1> DEFINE n == procs[w].attempt
             approves == AutoApproves(extraction, DuplicateOperationExists(p, extraction.operation))
             s == [phase |-> "deciding", payment |-> p, version |-> procs[w].version, attempt |-> n,
                   operation |-> extraction.operation, approves |-> approves]
  <1>2. /\ procs[w].version \in Nat \ {0} /\ n \in 1 .. MaxAttempts
        /\ n <= AttemptCount(p) + 1
        /\ n = AttemptCount(p) + 1 => payments[p].status = "analyzing"
    BY MayRecord DEF Decide
  <1>3. extraction.operation \in Operations \cup {None} /\ approves \in BOOLEAN
    BY DEF Extractions, AutoApproves, DuplicateOperationExists
  <1>4. procs' = [procs EXCEPT ![w] = s]
    BY DEF Decide, Become
  <1> HIDE DEF approves
  <1>5. s \in WorkerStates /\ s.phase = "deciding" /\ s.payment = p /\ s.attempt = n
    BY <1>2, <1>3 DEF WorkerStates
  <1>6. w \in Processes /\ w \notin Reviewers
    BY ProcessesAssumption DEF Processes
  <1>7. /\ expired' = expired /\ faults' \in 0 .. MaxFaults
        /\ locks' \in [Payments -> Processes \cup {None}]
        /\ locks'[p] = w /\ locks[p] = None
        /\ \A q \in Payments : locks'[q] # locks[q] => locks[q] \in {None, w}
        /\ UNCHANGED <<payments, analyses, reviews, ledger>>
    BY <1>1, <1>6 DEF Decide, ProcessesOK, Free
  <1>8. \A q \in Payments : s.phase \in {"reading", "deciding"} /\ s.payment = q =>
          /\ s.attempt <= AttemptCount(q) + 1
          /\ s.attempt = AttemptCount(q) + 1 => payments[q].status = "analyzing"
    BY <1>2, <1>5
  <1>9. /\ w \in Workers => s \in WorkerStates
        /\ w \in Reviewers => s \in ReviewerStates
        /\ s.phase \in {"deciding", "reviewing"} => locks'[s.payment] = w
        /\ s.phase # "reviewing"
    BY <1>5, <1>6, <1>7
  <1> HIDE DEF s, n
  <1> QED
    BY <1>4, <1>6, <1>7, <1>8, <1>9, OwnStep

(* Review keeps the invariant.                                             *)
LEMMA ReviewInv ==
    ASSUME IInv, NEW r \in Reviewers, NEW p \in Payments, NEW decision \in {"approved", "rejected"},
           NEW version \in 1 .. payments[p].version, Review(r, p, decision, version)
    PROVE  IInv'
  <1> DEFINE s == [phase |-> "reviewing", payment |-> p, version |-> version, decision |-> decision]
  <1> USE DEF Review
  <1>1. DataInv /\ ProcessesOK /\ payments \in [Payments -> Rows]
    BY DEF IInv, DataInv, TablesOK
  <1>2. payments[p].status = "manual_review" /\ payments[p].version = version /\ locks[p] = None
    BY DEF Reviewable, Free
  <1>3. version \in Nat \ {0}
    BY <1>1, <1>2 DEF Rows
  <1>4. procs' = [procs EXCEPT ![r] = s] /\ s \in ReviewerStates
    BY <1>3 DEF Become, ReviewerStates
  <1>5. r \in Processes /\ r \notin Workers
    BY ProcessesAssumption DEF Processes
  <1>6. s.phase = "reviewing" /\ s.payment = p /\ s.version = version
    OBVIOUS
  <1>7. /\ expired' = expired /\ faults' \in 0 .. MaxFaults
        /\ locks' \in [Payments -> Processes \cup {None}]
        /\ locks'[p] = r
        /\ \A q \in Payments : locks'[q] # locks[q] => locks[q] \in {None, r}
        /\ UNCHANGED <<payments, analyses, reviews, ledger>>
    BY <1>1, <1>2, <1>5 DEF ProcessesOK
  <1> HIDE DEF s, Review
  <1> QED
    BY <1>2, <1>4, <1>5, <1>6, <1>7, OwnStep

(* A process that commits or rolls back and is done.  What the commit does *)
(* to the tables, the lemmas above say.                                    *)
LEMMA DoneInv ==
    ASSUME IInv, DataInv', NEW x \in Processes, procs' = [procs EXCEPT ![x] = Idle],
           expired' = expired, faults' = faults, NEW p \in Payments, locks[p] \in {None, x},
           locks' \in {locks, [locks EXCEPT ![p] = None]},
           AttemptCount(p)' \in {AttemptCount(p), AttemptCount(p) + 1},
           AttemptCount(p)' = AttemptCount(p) /\ payments[p].status = "analyzing" =>
               payments'[p].status = "analyzing",
           \A q \in Payments \ {p} : AttemptCount(q)' = AttemptCount(q) /\ payments'[q] = payments[q]
    PROVE  IInv'
  <1>1. DataInv /\ ProcessesOK /\ ClaimsKnow /\ LockersKnow
    BY DEF IInv
  <1>2. Idle \in WorkerStates /\ Idle \in ReviewerStates /\ Idle.phase = "idle"
    BY DEF WorkerStates, ReviewerStates, Idle
  <1>3. /\ expired' \subseteq Payments /\ faults' \in 0 .. MaxFaults
        /\ locks' \in [Payments -> Processes \cup {None}]
        /\ \A q \in Payments : locks'[q] # locks[q] => locks[q] \in {None, x}
    BY <1>1 DEF ProcessesOK
  <1>4. /\ \A q \in Payments : AttemptCount(q)' \in {AttemptCount(q), AttemptCount(q) + 1}
        /\ \A q \in Payments : AttemptCount(q)' = AttemptCount(q) /\ payments[q].status = "analyzing" =>
              payments'[q].status = "analyzing"
        /\ \A q \in Payments : payments'[q] # payments[q] => locks[q] \in {None, x}
    OBVIOUS
  <1>5. ProcessesOK' /\ ClaimsKnow' /\ LockersKnow'
    BY <1>1, <1>2, <1>3, <1>4, OthersInv
  <1> QED
    BY <1>5 DEF IInv

(* RecordFailure keeps the invariant.                                      *)
LEMMA RecordFailureInv ==
    ASSUME IInv, NEW w \in Workers, NEW retryable \in BOOLEAN, RecordFailure(w, retryable)
    PROVE  IInv'
  <1>1. DataInv /\ payments \in [Payments -> Rows]
    BY DEF IInv, DataInv, TablesOK
  <1> PICK p \in Payments : p = procs[w].payment
    BY InHand DEF RecordFailure
  <1> DEFINE n == procs[w].attempt
             v == procs[w].version
             st == IF ShouldRetry(procs[w], retryable) THEN "uploaded" ELSE "manual_review"
             row == [payments[p] EXCEPT !.status = st, !.version = v + 1]
  <1>2. /\ v \in Nat \ {0} /\ n \in 1 .. MaxAttempts
        /\ AttemptFree(p, n) => n = AttemptCount(p) + 1 /\ payments[p].status = "analyzing"
    BY MayRecord DEF RecordFailure
  <1>3. /\ w \in Processes /\ procs' = [procs EXCEPT ![w] = Idle]
        /\ expired' = expired /\ faults' = faults /\ locks[p] \in {None, w} /\ locks' = locks
    BY DEF RecordFailure, Become, Free, Processes
  <1>4. CASE ~AttemptFree(p, n)
    <2>1. UNCHANGED <<payments, analyses, reviews, ledger>>
      BY <1>4 DEF RecordFailure
    <2>2. DataInv' /\ \A q \in Payments : AttemptCount(q)' = AttemptCount(q)
      BY <1>1, <2>1, SameData
    <2> QED
      BY <1>3, <2>1, <2>2, DoneInv
  <1>5. CASE AttemptFree(p, n)
    <2>1. /\ analyses' = analyses \cup {[payment |-> p, attempt |-> n, status |-> "failed"]}
          /\ payments' = [payments EXCEPT ![p] = row]
          /\ UNCHANGED <<reviews, ledger>>
      BY <1>5 DEF RecordFailure
    <2>2. n = AttemptCount(p) + 1 /\ payments[p].status = "analyzing"
      BY <1>2, <1>5
    <2>3. st \in {"uploaded", "manual_review"} /\ (st = "uploaded" => n < MaxAttempts)
      BY DEF ShouldRetry
    <2>4. v \in Nat /\ payments[p] \in Rows
      BY <1>1, <1>2
    <2> HIDE DEF st, v, n
    <2>5. row \in Rows
      BY <2>3, <2>4, NoneAssumption, RowOf DEF Statuses
    <2>6. row.status = st /\ row.promoRevoked = payments[p].promoRevoked
      BY <2>4 DEF Rows
    <2> HIDE DEF row
    <2>7. /\ DataInv'
          /\ AttemptCount(p)' = AttemptCount(p) + 1
          /\ \A q \in Payments \ {p} : AttemptCount(q)' = AttemptCount(q)
      BY <1>1, <1>2, <2>1, <2>2, <2>3, <2>5, <2>6, Recorded
    <2>8. AttemptCount(p)' # AttemptCount(p)
      BY <1>1, <2>7, Counted
    <2>9. \A q \in Payments \ {p} : payments'[q] = payments[q]
      BY <1>1, <2>1
    <2> QED
      BY <1>3, <2>7, <2>8, <2>9, DoneInv
  <1> QED
    BY <1>4, <1>5

(* approve_payment of a payment that is not approved yet. *)
LEMMA ApproveNew ==
    ASSUME DataInv, NEW p \in Payments, NEW row \in Rows, payments[p].status # "approved", Approve(p, row)
    PROVE  \E to \in Rows :
             /\ to.status = "approved"
             /\ to.operation = row.operation /\ to.promoRevoked = row.promoRevoked
             /\ payments' = [payments EXCEPT ![p] = to]
             /\ ledger' = ledger \cup Credits(p)
  <1> DEFINE to == [row EXCEPT !.status = "approved", !.version = @ + 1]
  <1>1. ~IsPosted(ledger, CreditKey(p))
    BY DEF DataInv, ApprovedIsCredited
  <1>2. payments' = [payments EXCEPT ![p] = to] /\ ledger' = ledger \cup Credits(p)
    BY <1>1 DEF Approve
  <1>3. /\ to \in Rows /\ to.status = "approved"
        /\ to.operation = row.operation /\ to.promoRevoked = row.promoRevoked
    <2>1. to \in Rows
      BY NoneAssumption, RowOf DEF Statuses
    <2>2. to.status = "approved" /\ to.operation = row.operation /\ to.promoRevoked = row.promoRevoked
      BY DEF Rows
    <2> QED
      BY <2>1, <2>2
  <1> QED
    BY <1>2, <1>3

(* CommitDecision keeps the invariant.                                     *)
LEMMA CommitDecisionInv ==
    ASSUME IInv, NEW w \in Workers, CommitDecision(w)
    PROVE  IInv'
  <1>1. DataInv /\ payments \in [Payments -> Rows]
    BY DEF IInv, DataInv, TablesOK
  <1> PICK p \in Payments : p = procs[w].payment
    BY InHand DEF CommitDecision
  <1> DEFINE n == procs[w].attempt
             v == procs[w].version
             operation == procs[w].operation
             row == [payments[p] EXCEPT !.version = v + 1, !.operation = operation]
  <1>2. /\ v \in Nat \ {0} /\ n \in 1 .. MaxAttempts
        /\ AttemptFree(p, n) => n = AttemptCount(p) + 1 /\ payments[p].status = "analyzing"
        /\ operation \in Operations \cup {None} /\ procs[w].approves \in BOOLEAN
    BY MayRecord DEF CommitDecision
  <1>3. /\ w \in Processes /\ procs' = [procs EXCEPT ![w] = Idle]
        /\ expired' = expired /\ faults' = faults
        /\ locks[p] \in {None, w} /\ locks' = [locks EXCEPT ![p] = None]
    BY DEF CommitDecision, Become, Release, Processes, IInv, LockersKnow
  <1>4. CASE ~(AttemptFree(p, n) /\ (procs[w].approves => OperationFree(p, operation)))
    <2>1. UNCHANGED <<payments, analyses, reviews, ledger>>
      BY <1>4 DEF CommitDecision
    <2>2. DataInv' /\ \A q \in Payments : AttemptCount(q)' = AttemptCount(q)
      BY <1>1, <2>1, SameData
    <2> QED
      BY <1>3, <2>1, <2>2, DoneInv
  <1>5. CASE AttemptFree(p, n) /\ (procs[w].approves => OperationFree(p, operation))
    <2>1. /\ analyses' = analyses \cup {[payment |-> p, attempt |-> n, status |-> "succeeded"]}
          /\ procs[w].approves => Approve(p, row)
          /\ ~procs[w].approves =>
                payments' = [payments EXCEPT ![p] = NotApproved(row)] /\ UNCHANGED ledger
          /\ UNCHANGED reviews
      BY <1>5 DEF CommitDecision
    <2>2. n = AttemptCount(p) + 1 /\ payments[p].status = "analyzing"
      BY <1>2, <1>5
    <2>3. v \in Nat /\ payments[p] \in Rows
      BY <1>1, <1>2
    <2>4. procs[w].approves => OperationFree(p, operation)
      BY <1>5
    <2> HIDE DEF v, n, operation
    <2>5. row \in Rows
      BY <1>2, <2>3, RowOf DEF Statuses
    <2>6. row.operation = operation /\ row.promoRevoked = payments[p].promoRevoked
      BY <2>3 DEF Rows
    <2> HIDE DEF row
    <2>7. PICK to \in Rows :
             /\ to.status \in {"approved", "manual_review"}
             /\ to.promoRevoked = payments[p].promoRevoked
             /\ payments' = [payments EXCEPT ![p] = to]
             /\ to.status = "approved" =>
                  OperationFree(p, to.operation) /\ ledger' = ledger \cup Credits(p)
             /\ to.status # "approved" => UNCHANGED ledger
      <3>1. CASE procs[w].approves
        <4>1. OperationFree(p, row.operation)
          BY <2>4, <2>6, <3>1
        <4>2. PICK to \in Rows :
                /\ to.status = "approved"
                /\ to.operation = row.operation /\ to.promoRevoked = row.promoRevoked
                /\ payments' = [payments EXCEPT ![p] = to]
                /\ ledger' = ledger \cup Credits(p)
          BY <1>1, <2>1, <2>2, <2>5, <3>1, ApproveNew
        <4> QED
          BY <2>6, <4>1, <4>2
      <3>2. CASE ~procs[w].approves
        <4>1. NotApproved(row) \in Rows
          BY <2>3, <2>5, NoneAssumption, RowOf DEF NotApproved, Statuses
        <4>2. /\ NotApproved(row).status = "manual_review"
              /\ NotApproved(row).promoRevoked = row.promoRevoked
          BY <2>5 DEF NotApproved, Rows
        <4> QED
          BY <2>1, <2>6, <3>2, <4>1, <4>2
      <3> QED
        BY <3>1, <3>2
    <2>8. /\ DataInv'
          /\ AttemptCount(p)' = AttemptCount(p) + 1
          /\ \A q \in Payments \ {p} : AttemptCount(q)' = AttemptCount(q)
      BY <1>1, <1>2, <2>1, <2>2, <2>7, Recorded
    <2>9. AttemptCount(p)' # AttemptCount(p)
      BY <1>1, <2>8, Counted
    <2>10. \A q \in Payments \ {p} : payments'[q] = payments[q]
      BY <1>1, <2>7
    <2> QED
      BY <1>3, <2>8, <2>9, <2>10, DoneInv
  <1> QED
    BY <1>4, <1>5

(* CommitReview keeps the invariant.                                       *)
LEMMA CommitReviewInv ==
    ASSUME IInv, NEW r \in Reviewers, CommitReview(r)
    PROVE  IInv'
  <1>1. DataInv /\ ProcessesOK /\ payments \in [Payments -> Rows]
    BY DEF IInv, DataInv, TablesOK
  <1> PICK p \in Payments : p = procs[r].payment
    BY InHand DEF CommitReview
  <1> DEFINE decision == procs[r].decision
             version == procs[r].version
             rejected == [payments[p] EXCEPT !.status = "rejected", !.version = @ + 1, !.promoRevoked = TRUE]
  <1>2. version \in Nat \ {0} /\ decision \in {"approved", "rejected"}
    BY <1>1, ByPhase DEF CommitReview
  <1>3. payments[p].status = "manual_review" /\ payments[p].version = version
    BY DEF CommitReview, IInv, LockersKnow
  <1>4. /\ r \in Processes /\ procs' = [procs EXCEPT ![r] = Idle]
        /\ expired' = expired /\ faults' = faults
        /\ locks[p] \in {None, r} /\ locks' = [locks EXCEPT ![p] = None]
    BY DEF CommitReview, Become, Release, Processes, IInv, LockersKnow
  <1>5. UNCHANGED analyses
    BY DEF CommitReview
  <1>6. CASE decision = "approved" /\ ~OperationFree(p, payments[p].operation)
    <2>1. UNCHANGED <<payments, analyses, reviews, ledger>>
      BY <1>5, <1>6 DEF CommitReview
    <2>2. DataInv' /\ \A q \in Payments : AttemptCount(q)' = AttemptCount(q)
      BY <1>1, <2>1, SameData
    <2> QED
      BY <1>4, <2>1, <2>2, DoneInv
  <1>7. CASE ~(decision = "approved" /\ ~OperationFree(p, payments[p].operation))
    <2>1. /\ reviews' = reviews \cup {[payment |-> p, decision |-> decision, version |-> version]}
          /\ decision = "approved" => Approve(p, payments[p])
          /\ decision = "rejected" =>
                payments' = [payments EXCEPT ![p] = rejected] /\ UNCHANGED ledger
      BY <1>7 DEF CommitReview
    <2>2. payments[p] \in Rows /\ ~payments[p].promoRevoked
      BY <1>1, <1>3 DEF DataInv, RowsMakeSense, Rows
    <2> HIDE DEF decision, version
    <2>3. PICK to \in Rows :
             /\ to.status = decision
             /\ to.promoRevoked => to.status = "rejected"
             /\ payments' = [payments EXCEPT ![p] = to]
             /\ to.status = "approved" =>
                  OperationFree(p, to.operation) /\ ledger' = ledger \cup Credits(p)
             /\ to.status = "rejected" => UNCHANGED ledger
      <3>1. CASE decision = "approved"
        <4>1. PICK to \in Rows :
                /\ to.status = "approved"
                /\ to.operation = payments[p].operation /\ to.promoRevoked = payments[p].promoRevoked
                /\ payments' = [payments EXCEPT ![p] = to]
                /\ ledger' = ledger \cup Credits(p)
          BY <1>1, <1>3, <2>1, <2>2, <3>1, ApproveNew
        <4> QED
          BY <1>7, <2>2, <3>1, <4>1
      <3>2. CASE decision = "rejected"
        <4>1. rejected \in Rows
          BY <2>2, NoneAssumption, RowOf DEF Statuses
        <4>2. rejected.status = "rejected"
          BY <2>2 DEF Rows
        <4>3. payments' = [payments EXCEPT ![p] = rejected] /\ UNCHANGED ledger
          BY <2>1, <3>2
        <4> HIDE DEF rejected
        <4> QED
          BY <3>2, <4>1, <4>2, <4>3
      <3> QED
        BY <1>2, <3>1, <3>2
    <2> HIDE DEF rejected
    <2>4. DataInv' /\ \A q \in Payments : AttemptCount(q)' = AttemptCount(q)
      BY <1>1, <1>2, <1>3, <1>5, <2>1, <2>3, Reviewed
    <2>5. \A q \in Payments \ {p} : payments'[q] = payments[q]
      BY <1>1, <2>3
    <2> QED
      BY <1>3, <1>4, <2>4, <2>5, DoneInv
  <1> QED
    BY <1>6, <1>7

-----------------------------------------------------------------------------
(* The theorems *)

(* A stuttering step changes none of it.                                   *)
LEMMA StutterInv ==
    ASSUME IInv, UNCHANGED vars
    PROVE  IInv'
  <1>1. DataInv /\ ProcessesOK /\ ClaimsKnow /\ LockersKnow
    BY DEF IInv
  <1>2. UNCHANGED <<payments, expired, analyses, reviews, ledger, locks, procs, faults>>
    BY DEF vars
  <1>3. DataInv' /\ \A p \in Payments : AttemptCount(p)' = AttemptCount(p)
    BY <1>1, <1>2, SameData
  <1>4. expired' \subseteq Payments
    BY <1>1, <1>2 DEF ProcessesOK
  <1>5. ProcessesOK' /\ ClaimsKnow' /\ LockersKnow'
    BY <1>1, <1>2, <1>3, <1>4, NobodysInv
  <1> QED
    BY <1>3, <1>5 DEF IInv

(* Every step keeps the invariant.                                         *)
LEMMA InvStep == IInv /\ [Next]_vars => IInv'
  <1> SUFFICES ASSUME IInv, [Next]_vars PROVE IInv'
    OBVIOUS
  <1>1. ASSUME NEW p \in Payments, UploadEvidence(p) PROVE IInv'
    BY <1>1, UploadEvidenceInv
  <1>2. ASSUME NEW p \in Payments, Expire(p) PROVE IInv'
    BY <1>2, ExpireInv
  <1>3. ASSUME NEW w \in Workers, NEW p \in Payments, Claim(w, p) PROVE IInv'
    BY <1>3, ClaimInv
  <1>4. ASSUME NEW w \in Workers, Open(w) PROVE IInv'
    BY <1>4, OpenInv
  <1>5. ASSUME NEW w \in Workers, NEW retryable \in BOOLEAN, RecordFailure(w, retryable) PROVE IInv'
    BY <1>5, RecordFailureInv
  <1>6. ASSUME NEW w \in Workers, NEW extraction \in Extractions, Decide(w, extraction) PROVE IInv'
    BY <1>6, DecideInv
  <1>7. ASSUME NEW w \in Workers, CommitDecision(w) PROVE IInv'
    BY <1>7, CommitDecisionInv
  <1>8. ASSUME NEW r \in Reviewers, NEW p \in Payments, NEW decision \in {"approved", "rejected"},
               NEW version \in 1 .. payments[p].version, Review(r, p, decision, version)
        PROVE  IInv'
    BY <1>8, ReviewInv
  <1>9. ASSUME NEW r \in Reviewers, CommitReview(r) PROVE IInv'
    BY <1>9, CommitReviewInv
  <1>10. ASSUME NEW x \in Processes, Crash(x) PROVE IInv'
    BY <1>10, CrashInv
  <1>11. CASE UNCHANGED vars
    BY <1>11, StutterInv
  <1> QED
    BY <1>1, <1>2, <1>3, <1>4, <1>5, <1>6, <1>7, <1>8, <1>9, <1>10, <1>11
    DEF Next, Work, Process, ReviewStep

(* What the workers and the reviewers rely on holds in every state of      *)
(* processor.py's and review_payment's transactions.                       *)
THEOREM Invariant == Spec => []IInv
  BY InvInit, InvStep, PTL DEF Spec

(* The rows of payments, payment_analyses and payment_reviews have the     *)
(* values their columns allow, attempts stay within analysis_max_attempts, *)
(* and nothing but the credits of approve_payment is in the ledger.        *)
THEOREM TypeCorrect == Spec => []TypeOK
  <1>1. IInv => TypeOK
    BY DEF IInv, DataInv, TablesOK, ProcessesOK, TypeOK, Rows
  <1> QED
    BY <1>1, Invariant, PTL

(* approve_payment credits a payment when it becomes approved, once, and   *)
(* no late worker or second reviewer takes the status away from the credit.*)
THEOREM ApprovedAlwaysCredited == Spec => []ApprovedIsCredited
  <1>1. IInv => ApprovedIsCredited
    BY DEF IInv, DataInv
  <1> QED
    BY <1>1, Invariant, PTL

(* Of the payments with one bank operation, the unique index lets one be   *)
(* approved, by a worker or a reviewer.                                    *)
THEOREM OperationsPayOnce == Spec => []OperationApprovedOnce
  <1>1. IInv => OperationApprovedOnce
    BY DEF IInv, DataInv
  <1> QED
    BY <1>1, Invariant, PTL

(* The attempts a payment has in payment_analyses are numbered without a   *)
(* gap, and the last one explains its status.                              *)
THEOREM AttemptsAlwaysExplain == Spec => []AttemptsExplainStatus
  <1>1. IInv => AttemptsExplainStatus
    BY DEF IInv, DataInv
  <1> QED
    BY <1>1, Invariant, PTL

(* A payment has one review at most, and the status it decided.            *)
THEOREM ReviewsDecide == Spec => []ReviewDecides
  <1>1. IInv => ReviewDecides
    BY DEF IInv, DataInv
  <1> QED
    BY <1>1, Invariant, PTL

(* What a step may do to one payment: DecisionIsFinal, for that payment.   *)
Final(p) ==
    /\ payments[p].status \in {"approved", "rejected"} => payments'[p] = payments[p]
    /\ payments[p].status = "manual_review" /\ payments'[p] # payments[p] =>
         \E a \in reviews' : a.payment = p /\ a.version = payments[p].version

(* A worker that records its attempt changes a payment under analysis.     *)
LEMMA RecordsAreFinal ==
    ASSUME IInv, NEW w \in Workers, NEW p \in Payments,
           (\E retryable \in BOOLEAN : RecordFailure(w, retryable)) \/ CommitDecision(w),
           payments'[p] # payments[p]
    PROVE  payments[p].status = "analyzing"
  <1>1. payments \in [Payments -> Rows]
    BY DEF IInv, DataInv, TablesOK
  <1> PICK q \in Payments : q = procs[w].payment
    BY InHand DEF RecordFailure, CommitDecision
  <1>2. procs[w].phase \in {"reading", "deciding"}
    BY DEF RecordFailure, CommitDecision
  <1>3. AttemptFree(q, procs[w].attempt) => payments[q].status = "analyzing"
    BY <1>2, MayRecord
  <1>4. payments' # payments => AttemptFree(q, procs[w].attempt)
    BY DEF RecordFailure, CommitDecision
  <1>5. payments' = payments \/ \E row : payments' = [payments EXCEPT ![q] = row]
    BY DEF RecordFailure, CommitDecision, Approve
  <1>6. p = q
    BY <1>1, <1>5
  <1> QED
    BY <1>3, <1>4, <1>6

(* A review decides a payment in the version it was read in.               *)
LEMMA ReviewsAreFinal ==
    ASSUME IInv, NEW r \in Reviewers, NEW p \in Payments, CommitReview(r)
    PROVE  Final(p)
  <1>1. payments \in [Payments -> Rows]
    BY DEF IInv, DataInv, TablesOK
  <1> PICK q \in Payments : q = procs[r].payment
    BY InHand DEF CommitReview
  <1>2. payments[q].status = "manual_review" /\ payments[q].version = procs[r].version
    BY DEF CommitReview, IInv, LockersKnow
  <1>3. \/ payments' = payments
        \/ /\ \E row : payments' = [payments EXCEPT ![q] = row]
           /\ reviews' = reviews \cup {[payment |-> q, decision |-> procs[r].decision,
                                         version |-> procs[r].version]}
    BY DEF CommitReview, Approve
  <1>4. CASE payments' = payments
    BY <1>4 DEF Final
  <1>5. CASE payments' # payments
    <2>1. \E a \in reviews' : a.payment = q /\ a.version = procs[r].version
      <3> DEFINE a == [payment |-> q, decision |-> procs[r].decision, version |-> procs[r].version]
      <3>1. a \in reviews' /\ a.payment = q /\ a.version = procs[r].version
        BY <1>3, <1>5
      <3> QED
        BY <3>1
    <2>2. \A o \in Payments \ {q} : payments'[o] = payments[o]
      BY <1>1, <1>3
    <2> QED
      BY <1>2, <2>1, <2>2 DEF Final
  <1> QED
    BY <1>4, <1>5

(* An approved or rejected payment never changes again, and only a review  *)
(* of its current version takes one out of the reviewers' queue, although  *)
(* a worker that lost its claim writes without looking at the version.     *)
THEOREM DecisionsStayFinal == Spec => DecisionIsFinal
  <1>1. IInv /\ [Next]_vars => [\A p \in Payments : Final(p)]_vars
    <2> SUFFICES ASSUME IInv, Next, NEW p \in Payments PROVE Final(p)
      BY DEF Final
    <2>1. payments \in [Payments -> Rows]
      BY DEF IInv, DataInv, TablesOK
    <2>2. CASE payments' = payments
      BY <2>2 DEF Final
    <2>3. ASSUME NEW q \in Payments, UploadEvidence(q) \/ Expire(q) PROVE Final(p)
      BY <2>1, <2>3 DEF UploadEvidence, Expire, Final
    <2>4. ASSUME NEW w \in Workers, NEW q \in Payments, Claim(w, q) PROVE Final(p)
      BY <2>1, <2>4 DEF Claim, Claimable, Final
    <2>5. ASSUME NEW w \in Workers,
                 (\E retryable \in BOOLEAN : RecordFailure(w, retryable)) \/ CommitDecision(w)
          PROVE  Final(p)
      <3>1. payments'[p] # payments[p] => payments[p].status = "analyzing"
        BY <2>5, RecordsAreFinal
      <3> QED
        BY <3>1 DEF Final
    <2>6. ASSUME NEW r \in Reviewers, CommitReview(r) PROVE Final(p)
      BY <2>6, ReviewsAreFinal
    <2>7. ASSUME NEW w \in Workers, Open(w) \/ \E extraction \in Extractions : Decide(w, extraction)
          PROVE  Final(p)
      BY <2>2, <2>7 DEF Open, Decide
    <2>8. ASSUME NEW r \in Reviewers, NEW q \in Payments, NEW decision \in {"approved", "rejected"},
                 NEW version \in 1 .. payments[q].version, Review(r, q, decision, version)
          PROVE  Final(p)
      BY <2>2, <2>8 DEF Review
    <2>9. ASSUME NEW x \in Processes, Crash(x) PROVE Final(p)
      BY <2>2, <2>9 DEF Crash
    <2> QED
      BY <2>3, <2>4, <2>5, <2>6, <2>7, <2>8, <2>9 DEF Next, Work, Process, ReviewStep
  <1>2. [\A p \in Payments : Final(p)]_vars <=>
        [\A p \in Payments :
           /\ payments[p].status \in {"approved", "rejected"} => payments'[p] = payments[p]
           /\ payments[p].status = "manual_review" /\ payments'[p] # payments[p] =>
                \E a \in reviews' : a.payment = p /\ a.version = payments[p].version]_vars
    BY DEF Final
  <1> QED
    BY <1>1, <1>2, Invariant, PTL DEF Spec, DecisionIsFinal

=============================================================================
