--------------------------- MODULE PaymentIntents ---------------------------
(***************************************************************************)
(* What surrounds the analysis of PaymentAnalysis: payment intents with a  *)
(* promo code, the code's limits, and the screenshots in the object store  *)
(* (backend/app/modules/payments/service.py and storage.py,                *)
(* modules/promotions).                                                    *)
(*                                                                         *)
(* One promo code is modelled, of either type.  A transaction that uses it *)
(* counts its redemptions and commits one, which are two steps under the   *)
(* lock of the code.  An upload is a transaction that looks, a write to    *)
(* the object store and a transaction that commits, with the deletion of   *)
(* the object after one that failed.  The clock may pass the expires_at of *)
(* an intent at any time; a payment remembers whether its approved_at came *)
(* after that.                                                             *)
(***************************************************************************)
EXTENDS Integers, FiniteSets, FiniteSetsExt

CONSTANTS Clients,       \* requests that may be at work at once
          Users,
          Intents,       \* payments, named by user and Idempotency-Key
          UserOf,        \* whose they are
          Contents,      \* normalized screenshots, told apart by their digest
          Uploads,       \* the uploads customers try: <<payment, content>>
          Limits,        \* usage limits an administrator may set
          PerUserLimit,
          None

ASSUME UserOfAssumption == UserOf \in [Intents -> Users]
ASSUME UploadsAssumption == Uploads \subseteq Intents \X Contents
ASSUME FiniteAssumption == IsFiniteSet(Users) /\ IsFiniteSet(Intents)
ASSUME NoneAssumption == None \notin Contents
ASSUME LimitsAssumption == Limits \subseteq Nat \ {0} /\ PerUserLimit \in Nat \ {0}

VARIABLES promo,     \* the promo code
          payments,  \* payments rows with their redemption and evidence
          redeemed,  \* of each user, the redemptions of free days
          objects,   \* the object store: <<payment, content>>
          dropped,   \* objects deleted after a transaction that failed
          procs      \* state of each request

store == <<objects, dropped>>
vars == <<promo, payments, redeemed, objects, dropped, procs>>

Idle == [phase |-> "idle", locks |-> {}]

(* create_code *)
Init ==
    /\ promo \in [type : {"discount", "free"}, active : {TRUE}, limit : Limits]
    /\ payments = [p \in Intents |-> [status |-> "none", discounted |-> FALSE,
                                      expired |-> FALSE, late |-> FALSE, evidence |-> None]]
    /\ redeemed = [u \in Users |-> 0]
    /\ objects = {} /\ dropped = {}
    /\ procs = [c \in Clients |-> Idle]

-----------------------------------------------------------------------------
Free(locks) == \A c \in Clients : procs[c].locks \cap locks = {}
Ready(c) == procs[c].phase = "idle"
Become(c, state) == procs' = [procs EXCEPT ![c] = state]

(* Mutant: a paid use is forgotten when its intent expires. *)
CountedUnexpired ==
    {p \in Intents :
        /\ payments[p].discounted
        /\ payments[p].status # "rejected" /\ ~payments[p].expired}

(* _redemption_count: the intents that still hold the code.                *)
Counted ==
    {p \in Intents :
        /\ payments[p].discounted
        /\ \/ payments[p].status = "approved"
           \/ payments[p].status # "rejected" /\ ~payments[p].expired}

CountedOf(u) == {p \in Counted : UserOf[p] = u}

Usage == Cardinality(Counted) + MapThenSumSet(LAMBDA u : redeemed[u], Users)

(* _require_available *)
Available(u) ==
    /\ promo.active
    /\ Usage < promo.limit
    /\ Cardinality(CountedOf(u)) + redeemed[u] < PerUserLimit

(* serialize_key and the row of the code *)
PromoLocks == {"promo"}

-----------------------------------------------------------------------------
(* Intents and redemptions *)

(* create_intent, with or without the code.  Under a key that exists it    *)
(* changes nothing.                                                        *)
CreateIntent(c, p, discounted) ==
    /\ Ready(c) /\ Free({p}) /\ payments[p].status = "none"
    /\ discounted => promo.type = "discount" /\ Free(PromoLocks) /\ Available(UserOf[p])
    /\ Become(c, [phase |-> "creating", payment |-> p, discounted |-> discounted,
                  locks |-> {p} \cup IF discounted THEN PromoLocks ELSE {}])
    /\ UNCHANGED <<promo, payments, redeemed, store>>

(* apply_discount_to_payment and the new row *)
CommitIntent(c) ==
    /\ procs[c].phase = "creating"
    /\ payments' = [payments EXCEPT ![procs[c].payment].status = "awaiting_upload",
                                    ![procs[c].payment].discounted = procs[c].discounted]
    /\ Become(c, Idle)
    /\ UNCHANGED <<promo, redeemed, store>>

RedeemFreeDays(c, u) ==
    /\ Ready(c) /\ promo.type = "free" /\ Free(PromoLocks \cup {u})
    /\ Available(u)
    /\ Become(c, [phase |-> "redeeming", locks |-> PromoLocks \cup {u}, user |-> u])
    /\ UNCHANGED <<promo, payments, redeemed, store>>

(* The redemption, the period it pays for and the VPN command are one      *)
(* transaction.                                                            *)
CommitRedemption(c) ==
    /\ procs[c].phase = "redeeming"
    /\ redeemed' = [redeemed EXCEPT ![procs[c].user] = @ + 1]
    /\ Become(c, Idle)
    /\ UNCHANGED <<promo, payments, store>>

UpdateCode(active, limit) ==
    /\ Free(PromoLocks)
    /\ limit # promo.limit => limit >= Usage
    /\ promo' = [promo EXCEPT !.active = active, !.limit = limit]
    /\ UNCHANGED <<payments, redeemed, store, procs>>

(* archive_code: what was redeemed before stays redeemed. *)
ArchiveCode ==
    /\ Free(PromoLocks)
    /\ promo' = [promo EXCEPT !.active = FALSE]
    /\ UNCHANGED <<payments, redeemed, store, procs>>

-----------------------------------------------------------------------------
(* Uploads *)

Uploadable(p) == ~payments[p].expired /\ payments[p].status \in {"awaiting_upload", "uploaded"}

Upload(c, p, content) ==
    /\ Ready(c)
    /\ payments[p].evidence = None /\ Uploadable(p)
    /\ Become(c, [phase |-> "putting", locks |-> {}, object |-> <<p, content>>])
    /\ UNCHANGED <<promo, payments, redeemed, store>>

Put(c) ==
    /\ procs[c].phase = "putting"
    /\ objects' = objects \cup {procs[c].object}
    /\ Become(c, [procs[c] EXCEPT !.phase = "stored"])
    /\ UNCHANGED <<promo, payments, redeemed, dropped>>

(* Mutant: a race is a refusal whatever the other upload was. *)
RacedRefused(it) == FALSE

(* The same content was uploaded meanwhile: the request is answered with   *)
(* the other's result.                                                     *)
RacedSame(it) == payments[it.object[1]].evidence = it.object[2]

CommitUpload(c) ==
    LET it == procs[c]
        p  == it.object[1]
    IN  /\ it.phase = "stored"
        /\ IF payments[p].evidence = None /\ Uploadable(p)
           THEN /\ payments' = [payments EXCEPT ![p].evidence = it.object[2], ![p].status = "uploaded"]
                /\ Become(c, Idle)
           ELSE /\ Become(c, IF RacedSame(it) THEN Idle ELSE [it EXCEPT !.phase = "deleting"])
                /\ UNCHANGED payments
        /\ UNCHANGED <<promo, redeemed, store>>

(* The database fails the second transaction. *)
FailUpload(c) ==
    /\ procs[c].phase = "stored"
    /\ dropped' = dropped \cup {procs[c].object}
    /\ Become(c, [procs[c] EXCEPT !.phase = "deleting"])
    /\ UNCHANGED <<promo, payments, redeemed, objects>>

Delete(c) ==
    /\ procs[c].phase = "deleting"
    /\ objects' = objects \ {procs[c].object}
    /\ Become(c, Idle)
    /\ UNCHANGED <<promo, payments, redeemed, dropped>>

(* A request dies; what it put stays. *)
Crash(c) ==
    /\ ~Ready(c)
    /\ Become(c, Idle)
    /\ UNCHANGED <<promo, payments, redeemed, store>>

-----------------------------------------------------------------------------
(* The clock, the analysis and the reviewer *)

Expire(p) ==
    /\ payments[p].status # "none" /\ ~payments[p].expired
    /\ payments' = [payments EXCEPT ![p].expired = TRUE]
    /\ UNCHANGED <<promo, redeemed, store, procs>>

(* claim_payments *)
Claim(p) ==
    /\ payments[p].status = "uploaded" /\ ~payments[p].expired
    /\ payments' = [payments EXCEPT ![p].status = "in_review"]
    /\ UNCHANGED <<promo, redeemed, store, procs>>

(* Mutant: a rejected payment keeps its discount. *)
DecideKeeping(p, status) ==
    /\ payments[p].status = "in_review"
    /\ payments' = [payments EXCEPT ![p].status = status,
                                    ![p].discounted = @ /\ status # "approved",
                                    ![p].late = status = "approved" /\ payments[p].expired]
    /\ UNCHANGED <<promo, redeemed, store, procs>>

(* An approval, which records its time, early or late, or a rejection,     *)
(* which revokes the discount.                                             *)
Decide(p, status) ==
    /\ payments[p].status = "in_review"
    /\ payments' = [payments EXCEPT ![p].status = status,
                                    ![p].discounted = @ /\ status # "rejected",
                                    ![p].late = status = "approved" /\ payments[p].expired]
    /\ UNCHANGED <<promo, redeemed, store, procs>>

-----------------------------------------------------------------------------
Request(c) ==
    \/ \E p \in Intents :
         \E discounted \in BOOLEAN : CreateIntent(c, p, discounted)
    \/ \E upload \in Uploads : Upload(c, upload[1], upload[2])
    \/ \E u \in Users : RedeemFreeDays(c, u)
    \/ CommitIntent(c) \/ CommitRedemption(c)
    \/ Put(c) \/ CommitUpload(c) \/ FailUpload(c) \/ Delete(c)
    \/ Crash(c)

Next ==
    \/ \E c \in Clients : Request(c)
    \/ \E active \in BOOLEAN, limit \in Limits : UpdateCode(active, limit)
    \/ ArchiveCode
    \/ \E p \in Intents :
         Expire(p) \/ Claim(p) \/ \E status \in {"approved", "rejected"} : Decide(p, status)

Spec == Init /\ [][Next]_vars

-----------------------------------------------------------------------------
(* Properties *)

TypeOK ==
    /\ promo \in [type : {"discount", "free"}, active : BOOLEAN, limit : Limits]
    /\ payments \in [Intents -> [status : {"none", "awaiting_upload", "uploaded", "in_review",
                                           "approved", "rejected"},
                                 discounted : BOOLEAN, expired : BOOLEAN, late : BOOLEAN,
                                 evidence : Contents \cup {None}]]
    /\ redeemed \in [Users -> Nat]
    /\ objects \subseteq Uploads /\ dropped \subseteq Uploads
    /\ \A p \in Intents :
         /\ payments[p].status = "rejected" => ~payments[p].discounted
         /\ payments[p].evidence = None <=> payments[p].status \in {"none", "awaiting_upload"}

(* The payments whose use of the code never lapsed, by the times in their  *)
(* rows and not by what the code counts: approved before they expired, or  *)
(* open and not expired yet.                                               *)
InTime ==
    {p \in Intents :
        /\ payments[p].discounted /\ payments[p].status # "rejected"
        /\ IF payments[p].status = "approved" THEN ~payments[p].late ELSE ~payments[p].expired}

InTimeOf(u) == {p \in InTime : UserOf[p] = u}

(* However many checkouts and redemptions run at once, and whatever an     *)
(* administrator changes meanwhile, the uses of a code stay within its     *)
(* limits, in all and by one user: all redemptions of free days and every  *)
(* payment that was approved before it expired or still can be.  An intent *)
(* that expires gives its use back, to somebody else perhaps, and takes it *)
(* again when it is approved afterwards: these late approvals alone are    *)
(* outside the limits, whatever happens to expires_at once a payment is    *)
(* approved.                                                               *)
PromoLimitsHold ==
    /\ Cardinality(InTime) + MapThenSumSet(LAMBDA u : redeemed[u], Users) <= promo.limit
    /\ \A u \in Users : Cardinality(InTimeOf(u)) + redeemed[u] <= PerUserLimit

(* The screenshot a payment names is in the object store: an upload that   *)
(* lost a race or came late deletes none that another has committed.  Only *)
(* one whose transaction the database failed may.                          *)
EvidenceKept ==
    \A p \in Intents :
        payments[p].evidence # None => <<p, payments[p].evidence>> \in objects \cup dropped

=============================================================================
