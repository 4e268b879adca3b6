-------------------------- MODULE PaymentAnalysis ---------------------------
(***************************************************************************)
(* Bank transfers paid by screenshot: the analysis workers, the manual     *)
(* review and the approval that credits the wallet                         *)
(* (backend/app/modules/payments: processor.py, approval.py, rules.py,     *)
(* repository.py and review_payment of service.py).                        *)
(*                                                                         *)
(* A worker claims a payment in one transaction, opens it in a second,     *)
(* reads the screenshot and asks Gemini outside any transaction, and       *)
(* records the result in a third.  A claim that takes longer than the lock *)
(* timeout is taken over by another worker while the first still runs.     *)
(* The third transaction selects the payment again, FOR UPDATE, but in the *)
(* session that already holds the object: its attributes are not           *)
(* refreshed, the claim looks current whatever happened meanwhile, and     *)
(* `payment.version += 1` writes the version of the own claim plus one.    *)
(* What does stop a late result is UNIQUE (payment_id, attempt).           *)
(*                                                                         *)
(* A transaction that would break a UNIQUE constraint is rolled back; the  *)
(* IntegrityError ends the worker's process, which is restarted, or is a   *)
(* 500 to the reviewer.                                                    *)
(***************************************************************************)
EXTENDS Ledger

CONSTANTS Payments,
          Owner,        \* payment -> user
          Amount,       \* payment -> expected_amount_minor
          Discount,     \* payment -> discount of its promo redemption, 0 without one
          Operations,   \* normalized operation number, recipient and currency
          Workers,
          Reviewers,
          MaxAttempts,  \* analysis_max_attempts
          MaxFaults,    \* bound on the crashes and the claims that outlive the timeout
          None

ASSUME AmountsAssumption ==
    /\ Amount \in [Payments -> Nat \ {0}]
    /\ Discount \in [Payments -> Nat]
ASSUME ProcessesAssumption == Workers \cap Reviewers = {} /\ None \notin Workers \cup Reviewers
ASSUME NoneAssumption == None \notin Operations
ASSUME BoundsAssumption == MaxAttempts \in Nat \ {0} /\ MaxFaults \in Nat

VARIABLES payments,  \* the payments rows
          expired,   \* payments whose expires_at has passed
          analyses,  \* payment_analyses
          reviews,   \* payment_reviews
          ledger,
          locks,     \* payment -> holder of the row's lock
          procs,     \* state of each worker and each reviewer
          faults     \* crashes and takeovers of claims still at work (for the bound)

vars == <<payments, expired, analyses, reviews, ledger, locks, procs, faults>>

Processes == Workers \cup Reviewers

Idle == [phase |-> "idle"]

CreditKey(p) == <<"payment-credit", p>>
PromoKey(p) == <<"promo-credit", p>>

(* auto_approved is only ever a status inside a transaction. *)
Statuses == {"awaiting_upload", "uploaded", "analyzing", "manual_review", "approved", "rejected"}

(* What Gemini reads: the identity of the bank operation, if legible, and  *)
(* whether the other checks of evaluate_payment_rules pass.                *)
Extractions == [matches : BOOLEAN, operation : Operations \cup {None}]

Init ==
    /\ payments = [p \in Payments |->
                     [status |-> "awaiting_upload", version |-> 1,
                      operation |-> None, promoRevoked |-> FALSE]]
    /\ expired = {}
    /\ analyses = {}
    /\ reviews = {}
    /\ ledger = {}
    /\ locks = [p \in Payments |-> None]
    /\ procs = [x \in Processes |-> Idle]
    /\ faults = 0

Become(x, state) == procs' = [procs EXCEPT ![x] = state]
Free(p) == locks[p] = None
Release(p) == locks' = [locks EXCEPT ![p] = None]

-----------------------------------------------------------------------------
(* Operators of rules.py, repository.py and approval.py *)

AttemptCount(p) == Cardinality({a \in analyses : a.payment = p})

DuplicateOperationExists(p, operation) ==
    /\ operation # None
    /\ \E q \in Payments \ {p} :
         payments[q].operation = operation /\ payments[q].status = "approved"

AutoApproves(extraction, duplicate) ==
    extraction.matches /\ extraction.operation # None /\ ~duplicate

(* Mutant: attempts are not unique. *)
AnyAttempt(p, attempt) == TRUE

(* UNIQUE (payment_id, attempt) *)
AttemptFree(p, attempt) == \A a \in analyses : ~(a.payment = p /\ a.attempt = attempt)

(* Mutant: no index. *)
AnyOperation(p, operation) == TRUE

(* uq_payments_operation_recipient, for p becoming approved. *)
OperationFree(p, operation) == ~DuplicateOperationExists(p, operation)

(* Mutant: the discount is credited although the redemption was revoked,   *)
(* or there is none.                                                       *)
CreditsAlways(p) ==
    {Entry(CreditKey(p), Owner[p], "payment_credit", Amount[p], "cash_clearing", None),
     Entry(PromoKey(p), Owner[p], "promo_credit", Discount[p], "promo_expense", None)}

(* The transactions approve_payment posts. *)
Credits(p) ==
    {Entry(CreditKey(p), Owner[p], "payment_credit", Amount[p], "cash_clearing", None)}
    \cup
    {t \in {Entry(PromoKey(p), Owner[p], "promo_credit", Discount[p], "promo_expense", None)} :
        Discount[p] > 0 /\ ~payments[p].promoRevoked}

(* approve_payment, for the row as the session holds it: a payment already *)
(* in the ledger only gets its status back.                                *)
Approve(p, row) ==
    IF IsPosted(ledger, CreditKey(p))
    THEN /\ payments' = [payments EXCEPT ![p] = [row EXCEPT !.status = "approved"]]
         /\ UNCHANGED ledger
    ELSE /\ payments' = [payments EXCEPT ![p] =
                           [row EXCEPT !.status = "approved", !.version = @ + 1]]
         /\ ledger' = ledger \cup Credits(p)

-----------------------------------------------------------------------------
(* The customer and the clock *)

(* The committing transaction of upload_evidence.                          *)
UploadEvidence(p) ==
    /\ Free(p) /\ p \notin expired
    /\ payments[p].status = "awaiting_upload"
    /\ payments' = [payments EXCEPT ![p].status = "uploaded", ![p].version = @ + 1]
    /\ UNCHANGED <<expired, analyses, reviews, ledger, locks, procs, faults>>

(* Nothing asks for the expiry of a payment that is past its analysis.     *)
Expire(p) ==
    /\ p \notin expired
    /\ payments[p].status \in {"awaiting_upload", "uploaded", "analyzing"}
    /\ expired' = expired \cup {p}
    /\ UNCHANGED <<payments, analyses, reviews, ledger, locks, procs, faults>>

-----------------------------------------------------------------------------
(* The analysis workers *)

AtWork(p) == \E w \in Workers : procs[w] # Idle /\ procs[w].payment = p

(* Mutant: abandoned claims are never taken over. *)
ClaimableOnce(p) ==
    /\ payments[p].status = "uploaded"
    /\ p \notin expired
    /\ AttemptCount(p) < MaxAttempts

(* claim_payments.  Whether a claim still at work has outlived the lock    *)
(* timeout is the clock's choice; an abandoned one always does, some time. *)
Claimable(p) ==
    /\ \/ payments[p].status = "uploaded"
       \/ payments[p].status = "analyzing" /\ (AtWork(p) => faults < MaxFaults)
    /\ p \notin expired
    /\ AttemptCount(p) < MaxAttempts

(* FOR UPDATE SKIP LOCKED.  A worker claims several payments and processes *)
(* them one after the other; the wait of the later ones is a slow claim.   *)
Claim(w, p) ==
    /\ procs[w] = Idle
    /\ Free(p) /\ Claimable(p)
    /\ payments' = [payments EXCEPT ![p].status = "analyzing", ![p].version = @ + 1]
    /\ faults' = IF payments[p].status = "analyzing" /\ AtWork(p) THEN faults + 1 ELSE faults
    /\ Become(w, [phase |-> "claimed", payment |-> p, version |-> payments[p].version + 1])
    /\ UNCHANGED <<expired, analyses, reviews, ledger, locks>>

(* First transaction of process, in a new session: here the comparison     *)
(* with the claim is real.  (A claimed payment always has its evidence.)   *)
Open(w) ==
    LET it == procs[w]
        p  == it.payment
    IN  /\ it.phase = "claimed"
        /\ Free(p)
        /\ IF payments[p].status = "analyzing" /\ payments[p].version = it.version
           THEN Become(w, [phase |-> "reading", payment |-> p, version |-> it.version,
                           attempt |-> AttemptCount(p) + 1])
           ELSE Become(w, Idle)
        /\ UNCHANGED <<payments, expired, analyses, reviews, ledger, locks, faults>>

(* Mutant: one attempt too many. *)
ShouldRetryOnce(it, retryable) ==
    retryable /\ it.attempt <= MaxAttempts /\ it.payment \notin expired

ShouldRetry(it, retryable) ==
    retryable /\ it.attempt < MaxAttempts /\ it.payment \notin expired

(* The screenshot or Gemini's answer could not be had: _record_failure.    *)
RecordFailure(w, retryable) ==
    LET it == procs[w]
        p  == it.payment
    IN  /\ it.phase = "reading"
        /\ Free(p)
        /\ IF AttemptFree(p, it.attempt)
           THEN /\ analyses' = analyses \cup
                     {[payment |-> p, attempt |-> it.attempt, status |-> "failed"]}
                /\ payments' = [payments EXCEPT
                     ![p].status = IF ShouldRetry(it, retryable) THEN "uploaded" ELSE "manual_review",
                     ![p].version = it.version + 1]
           ELSE UNCHANGED <<analyses, payments>>
        /\ Become(w, Idle)
        /\ UNCHANGED <<expired, reviews, ledger, locks, faults>>

(* Gemini answered; the last transaction takes the row's lock and looks    *)
(* for the operation among the other payments.                             *)
Decide(w, extraction) ==
    LET it == procs[w]
        p  == it.payment
    IN  /\ it.phase = "reading"
        /\ Free(p)
        /\ locks' = [locks EXCEPT ![p] = w]
        /\ Become(w, [phase |-> "deciding", payment |-> p, version |-> it.version,
                      attempt |-> it.attempt, operation |-> extraction.operation,
                      approves |-> AutoApproves(extraction,
                                     DuplicateOperationExists(p, extraction.operation))])
        /\ UNCHANGED <<payments, expired, analyses, reviews, ledger, faults>>

(* Mutant: a status of its own, which the CHECK on the column refuses.     *)
AfterFailed(row) == [row EXCEPT !.status = "analysis_failed"]

(* Where a payment that was not approved automatically goes. *)
NotApproved(row) == [row EXCEPT !.status = "manual_review"]

(* ... and commits, or is rolled back by one of the unique indexes.        *)
CommitDecision(w) ==
    LET it  == procs[w]
        p   == it.payment
        row == [payments[p] EXCEPT !.version = it.version + 1, !.operation = it.operation]
    IN  /\ it.phase = "deciding"
        /\ IF AttemptFree(p, it.attempt) /\ (it.approves => OperationFree(p, it.operation))
           THEN /\ analyses' = analyses \cup
                     {[payment |-> p, attempt |-> it.attempt, status |-> "succeeded"]}
                /\ IF it.approves THEN Approve(p, row)
                   ELSE payments' = [payments EXCEPT ![p] = NotApproved(row)] /\ UNCHANGED ledger
           ELSE UNCHANGED <<analyses, payments, ledger>>
        /\ Release(p)
        /\ Become(w, Idle)
        /\ UNCHANGED <<expired, reviews, faults>>

-----------------------------------------------------------------------------
(* The manual review *)

(* Mutant: neither status nor version is compared. *)
AnyReview(p, version) == TRUE

Reviewable(p, version) == payments[p].status = "manual_review" /\ payments[p].version = version

(* review_payment, for the version the reviewer's page showed, whichever   *)
(* that was.  What is refused (409) changes nothing.                       *)
Review(r, p, decision, version) ==
    /\ procs[r] = Idle
    /\ Free(p)
    /\ Reviewable(p, version)
    /\ decision = "approved" => ~DuplicateOperationExists(p, payments[p].operation)
    /\ locks' = [locks EXCEPT ![p] = r]
    /\ Become(r, [phase |-> "reviewing", payment |-> p, version |-> version,
                  decision |-> decision])
    /\ UNCHANGED <<payments, expired, analyses, reviews, ledger, faults>>

CommitReview(r) ==
    LET it  == procs[r]
        p   == it.payment
        row == payments[p]
    IN  /\ it.phase = "reviewing"
        /\ IF it.decision = "approved" /\ ~OperationFree(p, row.operation)
           THEN UNCHANGED <<reviews, payments, ledger>>
           ELSE /\ reviews' = reviews \cup
                     {[payment |-> p, decision |-> it.decision, version |-> it.version]}
                /\ IF it.decision = "approved" THEN Approve(p, row)
                   ELSE /\ payments' = [payments EXCEPT ![p] =
                             [row EXCEPT !.status = "rejected", !.version = @ + 1,
                                         !.promoRevoked = TRUE]]
                        /\ UNCHANGED ledger
        /\ Release(p)
        /\ Become(r, Idle)
        /\ UNCHANGED <<expired, analyses, faults>>

-----------------------------------------------------------------------------
(* A worker or a review request dies; an open transaction is undone.       *)
Crash(x) ==
    /\ procs[x] # Idle
    /\ faults < MaxFaults
    /\ faults' = faults + 1
    /\ locks' = [p \in Payments |-> IF locks[p] = x THEN None ELSE locks[p]]
    /\ Become(x, Idle)
    /\ UNCHANGED <<payments, expired, analyses, reviews, ledger>>

Process(w) ==
    \/ Open(w)
    \/ \E retryable \in BOOLEAN : RecordFailure(w, retryable)
    \/ \E extraction \in Extractions : Decide(w, extraction)
    \/ CommitDecision(w)

Work(w) == (\E p \in Payments : Claim(w, p)) \/ Process(w)

ReviewStep(r) ==
    \/ \E p \in Payments, decision \in {"approved", "rejected"} :
         \E version \in 1 .. payments[p].version : Review(r, p, decision, version)
    \/ CommitReview(r)

Next ==
    \/ \E p \in Payments : UploadEvidence(p) \/ Expire(p)
    \/ \E w \in Workers : Work(w)
    \/ \E r \in Reviewers : ReviewStep(r)
    \/ \E x \in Processes : Crash(x)

(* A worker that claimed goes on, an idle one keeps polling and takes the  *)
(* payments in the order of their upload, so none is passed over for ever. *)
(* A transaction that took its locks ends.                                 *)
Fairness ==
    /\ \A w \in Workers : WF_vars(Process(w))
    /\ \A p \in Payments : SF_vars(\E w \in Workers : Claim(w, p))
    /\ \A r \in Reviewers : WF_vars(CommitReview(r))

Spec == Init /\ [][Next]_vars /\ Fairness

-----------------------------------------------------------------------------
(* Properties *)

TypeOK ==
    /\ payments \in [Payments -> [status : Statuses, version : Nat \ {0},
                                  operation : Operations \cup {None}, promoRevoked : BOOLEAN]]
    /\ expired \subseteq Payments
    /\ analyses \subseteq [payment : Payments, attempt : 1 .. MaxAttempts,
                           status : {"succeeded", "failed"}]
    /\ reviews \subseteq [payment : Payments, decision : {"approved", "rejected"},
                          version : Nat \ {0}]
    /\ ledger \subseteq UNION {Credits(p) : p \in Payments}
    /\ locks \in [Payments -> Processes \cup {None}]
    /\ faults \in 0 .. MaxFaults

(* One transition to approved makes one payment_credit (step-06:108), and  *)
(* nothing else does: neither a worker whose claim was taken over nor a    *)
(* second reviewer credits a payment again, credits a rejected one, or     *)
(* takes the approval back while the credit stays.                         *)
ApprovedIsCredited ==
    \A p \in Payments :
      /\ payments[p].status = "approved" <=> IsPosted(ledger, CreditKey(p))
      /\ IsPosted(ledger, PromoKey(p)) <=> payments[p].status = "approved" /\ Discount[p] > 0

(* A bank operation pays for one payment only, although both the workers   *)
(* and the reviewers look for duplicates before the other has committed.   *)
OperationApprovedOnce ==
    \A p, q \in Payments :
      /\ p # q
      /\ payments[p].status = "approved" /\ payments[q].status = "approved"
      => payments[p].operation = None \/ payments[p].operation # payments[q].operation

(* The last recorded attempt explains where the payment is: a result is    *)
(* recorded for one attempt at most, a success is the last attempt, and    *)
(* what still waits for analysis has attempts left.                        *)
AttemptsExplainStatus ==
    \A p \in Payments :
      LET of == {a \in analyses : a.payment = p}
      IN  /\ {a.attempt : a \in of} = 1 .. Cardinality(of)
          /\ \A a \in of : a.status = "succeeded" => a.attempt = Cardinality(of)
          /\ payments[p].status \in {"uploaded", "analyzing"} =>
               /\ Cardinality(of) < MaxAttempts
               /\ \A a \in of : a.status = "failed"

(* The single manual decision and the payment agree; it was made on the    *)
(* version the reviewer had seen, and a payment a worker approved has none.*)
ReviewDecides ==
    /\ \A a, b \in reviews : a.payment = b.payment => a = b
    /\ \A a \in reviews : payments[a.payment].status = a.decision
    /\ \A p \in Payments :
         payments[p].status = "rejected" => \E a \in reviews : a.payment = p

(* What was decided stays decided: an approved or rejected payment never   *)
(* changes, and only a recorded review takes a payment out of the queue.   *)
DecisionIsFinal ==
    [][\A p \in Payments :
         /\ payments[p].status \in {"approved", "rejected"} => payments'[p] = payments[p]
         /\ payments[p].status = "manual_review" /\ payments'[p] # payments[p] =>
              \E a \in reviews' : a.payment = p /\ a.version = payments[p].version]_vars

(* An uploaded screenshot is analysed, whatever crashes, slow claims and   *)
(* conflicts happen on the way, unless the intent expires first.           *)
UploadIsAnalysed ==
    \A p \in Payments :
      payments[p].status \in {"uploaded", "analyzing"} ~>
        payments[p].status \notin {"uploaded", "analyzing"} \/ p \in expired

(* "A stale worker cannot record a late Gemini response after another      *)
(* worker has reclaimed" (docs/backend/step-06-payments-ai.md:73-75): who  *)
(* records a result holds the current version of the payment.              *)
StaleResultsFenced ==
    [][\A w \in Workers :
         LET it == procs[w]
         IN  /\ it.phase \in {"reading", "deciding"}
             /\ procs'[w] # it
             /\ \E a \in analyses' \ analyses : a.payment = it.payment
             => payments[it.payment].version = it.version]_vars

=============================================================================
