----------------------------- MODULE Referrals -----------------------------
(***************************************************************************)
(* Referral codes: claims, their review and the rewards the worker grants  *)
(* (backend/app/modules/referrals).                                        *)
(*                                                                         *)
(* A user owns one code, may be referred once and owns one subscription,   *)
(* so each is named by its user.  A subscription is the number of days it  *)
(* is paid for, counted from a fixed moment: nothing runs out.             *)
(***************************************************************************)
EXTENDS Integers, FiniteSets

CONSTANTS Clients,    \* claims that may be at work at once
          Workers,    \* reward workers
          Customers,
          UsageLimit, \* referral_codes.usage_limit
          Days,       \* referred_days and referrer_days
          MaxFaults,  \* bound on the crashes of workers
          Buyers,     \* users that may buy a subscription and be suspended
          Blockable,  \* users that may be blocked
          Nobody

Sides == {"referred", "referrer"}

ASSUME ReferralAssumption ==
    /\ UsageLimit \in Nat \ {0} /\ MaxFaults \in Nat
    /\ Days \in [Sides -> Nat \ {0}]
    /\ Buyers \subseteq Customers /\ Blockable \subseteq Customers /\ Nobody \notin Customers

VARIABLES codes,         \* owners of an active referral code
          blocked,       \* users that are not active
          referrals,     \* of each user, the referral that brought them
          rewards,       \* referral_rewards
          trials,        \* users with a trial_grants row
          subscriptions, \* of each user
          periods,       \* subscription_periods
          planActive,    \* the default plan can be granted
          procs,         \* state of each claim and of each worker
          faults

granted == <<rewards, trials, subscriptions, periods>>
referralVars == <<codes, blocked, referrals, granted, planActive, procs, faults>>

Idle == [phase |-> "idle", locks |-> {}]
Procs == Clients \cup Workers

ReferralInit ==
    /\ codes = {} /\ blocked = {} /\ trials = {} /\ rewards = {} /\ periods = {}
    /\ referrals = [u \in Customers |-> [by |-> Nobody, status |-> "none"]]
    /\ subscriptions = [u \in Customers |-> [status |-> "none", days |-> 0, vpn |-> "none"]]
    /\ planActive = TRUE
    /\ procs = [p \in Procs |-> Idle]
    /\ faults = 0

-----------------------------------------------------------------------------
(* Locks and queries *)

UserRow(u) == <<"user", u>>
CodeRow(u) == <<"code", u>>
ReferralRow(u) == <<"referral", u>>

Free(locks) == \A p \in Procs : procs[p].locks \cap locks = {}
Ready(p) == procs[p].phase = "idle"
Become(p, state) == procs' = [procs EXCEPT ![p] = state]

(* What a process waits for. *)
Wanted(p) ==
    CASE procs[p].phase = "claiming" -> {UserRow(procs[p].code)}
      [] procs[p].phase = "taken"    -> {UserRow(referrals[procs[p].user].by)}
      [] procs[p].phase = "settling" -> {UserRow(procs[p].user)}
      [] OTHER                       -> {}

(* Processes that all wait for one another. *)
Deadlocked(p) ==
    \E waiting \in SUBSET Procs :
        /\ p \in waiting
        /\ \A q \in waiting : \E r \in waiting \ {q} : Wanted(q) \cap procs[r].locks # {}

(* Mutant: a referral under review does not count. *)
UsageOfQualified(u) ==
    Cardinality({r \in Customers :
        referrals[r].by = u /\ referrals[r].status \in {"qualified", "rewarded"}})

(* non_rejected_usage_count *)
Usage(u) ==
    Cardinality({r \in Customers : referrals[r].by = u /\ referrals[r].status # "rejected"})

(* referred_history, of what this model keeps *)
Newcomer(u) == referrals[u].status = "none" /\ u \notin trials /\ subscriptions[u].status = "none"

(* assess_referral_risk *)
Evidence == {"referrer_device", "referrer_ip", "shared_ip", "no_fingerprint", "shared_device"}

Score(found) ==
    (IF "referrer_ip" \in found THEN 60 ELSE 0)
  + (IF "shared_ip" \in found THEN 35 ELSE 0)
  + (IF "no_fingerprint" \in found THEN 20
     ELSE IF "shared_device" \in found THEN 60 ELSE 0)

Decision(found) ==
    IF "referrer_device" \in found THEN "deny"
    ELSE IF Score(found) >= 50 THEN "review" ELSE "allow"

-----------------------------------------------------------------------------
(* Codes and claims *)

GetOrCreateCode(u) ==
    /\ Free({UserRow(u)})
    /\ codes' = codes \cup {u}
    /\ UNCHANGED <<blocked, referrals, granted, planActive, procs, faults>>

(* claim locks its user, then the code ...  A user who is referred already *)
(* is answered with that referral, or refused.                             *)
Claim(c, u, owner) ==
    /\ Ready(c) /\ Free({UserRow(u), CodeRow(owner)})
    /\ referrals[u].status = "none"
    /\ owner \in codes \ {u}
    /\ Become(c, [phase |-> "claiming", user |-> u, code |-> owner,
                  locks |-> {UserRow(u), CodeRow(owner)}])
    /\ UNCHANGED <<codes, blocked, referrals, granted, planActive, faults>>

(* _qualify *)
PendingRewards(u) == {[of |-> u, side |-> s, status |-> "pending"] : s \in Sides}

(* ... and then the referrer. *)
Admit(c, found) ==
    LET u == procs[c].user
        owner == procs[c].code
        decision == Decision(found)
    IN  /\ procs[c].phase = "claiming"
        /\ Free({UserRow(owner)})
        /\ owner \notin blocked /\ Newcomer(u) /\ Usage(owner) < UsageLimit
        /\ referrals' = [referrals EXCEPT ![u] =
                [by |-> owner,
                 status |-> CASE decision = "allow" -> "qualified"
                              [] decision = "deny" -> "rejected"
                              [] OTHER -> "attributed"]]
        /\ rewards' = rewards \cup (IF decision = "allow" THEN PendingRewards(u) ELSE {})
        /\ Become(c, Idle)
        /\ UNCHANGED <<codes, blocked, trials, subscriptions, periods, planActive, faults>>

(* A claim is refused, loses its client or is the victim of a deadlock.    *)
(* The age of the account and the expiry of the code are among the reasons.*)
AbortClaim(c) ==
    /\ procs[c].phase = "claiming"
    /\ Become(c, Idle)
    /\ UNCHANGED <<codes, blocked, referrals, granted, planActive, faults>>

Review(u, approved) ==
    /\ referrals[u].status = "attributed"
    /\ referrals' = [referrals EXCEPT ![u].status = IF approved THEN "qualified" ELSE "rejected"]
    /\ rewards' = rewards \cup (IF approved THEN PendingRewards(u) ELSE {})
    /\ UNCHANGED <<codes, blocked, trials, subscriptions, periods, planActive, procs, faults>>

-----------------------------------------------------------------------------
(* The reward worker *)

(* claim_qualified, FOR UPDATE SKIP LOCKED.  qualified_at is read before   *)
(* the locks are waited for, so it orders the queue arbitrarily.           *)
Take(w, u) ==
    /\ Ready(w) /\ Free({ReferralRow(u)})
    /\ referrals[u].status = "qualified"
    /\ Become(w, [phase |-> "taken", user |-> u, locks |-> {ReferralRow(u)}])
    /\ UNCHANGED <<codes, blocked, referrals, granted, planActive, faults>>

LockReferrer(w) ==
    /\ procs[w].phase = "taken" /\ Free(Wanted(w))
    /\ Become(w, [procs[w] EXCEPT !.phase = "settling", !.locks = @ \cup Wanted(w)])
    /\ UNCHANGED <<codes, blocked, referrals, granted, planActive, faults>>

Beneficiary(u, side) == IF side = "referred" THEN u ELSE referrals[u].by

(* _grant_days and _enqueue_vpn_sync, of one reward *)
Extended(subscription, side) ==
    [subscription EXCEPT
        !.days = @ + Days[side],
        !.status = IF @ = "suspended" THEN @ ELSE "active",
        !.vpn = IF subscription.status = "suspended" THEN @ ELSE "active"]

Period(u, side) ==
    LET user == Beneficiary(u, side)
    IN  [user |-> user, source |-> <<u, side>>, from |-> subscriptions[user].days,
         to |-> subscriptions[user].days + Days[side]]

(* _grant_referral once both users are locked *)
Grant(u) ==
    /\ referrals' = [referrals EXCEPT ![u].status = "rewarded"]
    /\ rewards' = {IF r.of = u THEN [r EXCEPT !.status = "granted"] ELSE r : r \in rewards}
    /\ trials' = trials \cup {u}
    /\ periods' = periods \cup {Period(u, s) : s \in Sides}
    /\ subscriptions' = [x \in Customers |->
            IF x = u THEN Extended(subscriptions[x], "referred")
            ELSE IF x = referrals[u].by THEN Extended(subscriptions[x], "referrer")
            ELSE subscriptions[x]]

(* Mutant: a referral that cannot be granted is left for later. *)
LeaveQualified(u) == UNCHANGED <<referrals, granted>>

(* _reject *)
Reject(u) ==
    /\ referrals' = [referrals EXCEPT ![u].status = "rejected"]
    /\ rewards' = {r \in rewards : r.of # u}
    /\ UNCHANGED <<trials, subscriptions, periods>>

Rejected(u) == {u, referrals[u].by} \cap blocked # {} \/ u \in trials

(* Without a default plan the worker dies, the referral stays qualified    *)
(* and the restarted worker takes it again.                                *)
Settle(w) ==
    LET u == procs[w].user
    IN  /\ procs[w].phase = "settling" /\ Free(Wanted(w))
        /\ IF Rejected(u) THEN Reject(u)
           ELSE IF planActive THEN Grant(u) ELSE UNCHANGED <<referrals, granted>>
        /\ Become(w, Idle)
        /\ UNCHANGED <<codes, blocked, planActive, faults>>

(* PostgreSQL aborts one of the transactions of a deadlock. *)
AbortDeadlock(w) ==
    /\ Deadlocked(w)
    /\ Become(w, Idle)
    /\ UNCHANGED <<codes, blocked, referrals, granted, planActive, faults>>

Crash(w) ==
    /\ faults < MaxFaults /\ ~Ready(w)
    /\ faults' = faults + 1
    /\ Become(w, Idle)
    /\ UNCHANGED <<codes, blocked, referrals, granted, planActive>>

-----------------------------------------------------------------------------
(* The rest of the system *)

(* A purchase of one day; it holds the row of no user. *)
Buy(u) ==
    /\ subscriptions[u].status = "none"
    /\ subscriptions' =
        [subscriptions EXCEPT ![u] = [status |-> "active", days |-> 1, vpn |-> "active"]]
    /\ periods' = periods \cup {[user |-> u, source |-> <<u, "purchase">>, from |-> 0, to |-> 1]}
    /\ UNCHANGED <<codes, blocked, referrals, rewards, trials, planActive, procs, faults>>

Suspend(u) ==
    /\ subscriptions[u].status = "active"
    /\ subscriptions' = [subscriptions EXCEPT ![u].status = "suspended", ![u].vpn = "disabled"]
    /\ UNCHANGED <<codes, blocked, referrals, rewards, trials, periods, planActive, procs, faults>>

(* set_user_blocked locks the user *)
SetBlocked(u) ==
    /\ Free({UserRow(u)})
    /\ blocked' = IF u \in blocked THEN blocked \ {u} ELSE blocked \cup {u}
    /\ UNCHANGED <<codes, referrals, granted, planActive, procs, faults>>

(* archive_plan, update_plan *)
SetPlanActive(active) ==
    /\ planActive' = active /\ planActive # active
    /\ UNCHANGED <<codes, blocked, referrals, granted, procs, faults>>

-----------------------------------------------------------------------------
Work(w) == (\E u \in Customers : Take(w, u)) \/ LockReferrer(w) \/ Settle(w)

ReferralNext ==
    \/ \E u \in Customers : GetOrCreateCode(u)
    \/ \E u \in Buyers : Buy(u) \/ Suspend(u)
    \/ \E u \in Blockable : SetBlocked(u)
    \/ \E u, owner \in Customers, c \in Clients : Claim(c, u, owner)
    \/ \E c \in Clients, found \in SUBSET Evidence : Admit(c, found)
    \/ \E c \in Clients : AbortClaim(c)
    \/ \E u \in Customers, approved \in BOOLEAN : Review(u, approved)
    \/ \E w \in Workers : Work(w) \/ AbortDeadlock(w) \/ Crash(w)
    \/ \E active \in BOOLEAN : SetPlanActive(active)

(* A restarted worker polls; a lock is granted in the order of requests,   *)
(* so the survivor of a deadlock has it before the victim is back; a       *)
(* request ends; the database finds deadlocks.                             *)
Fairness ==
    /\ \A w \in Workers : SF_referralVars(Work(w)) /\ SF_referralVars(Settle(w))
    /\ \A w \in Workers : WF_referralVars(AbortDeadlock(w))
    /\ \A c \in Clients : WF_referralVars(AbortClaim(c))

ReferralSpec == ReferralInit /\ [][ReferralNext]_referralVars /\ Fairness

-----------------------------------------------------------------------------
(* Properties *)

RewardsOf(u) == {r \in rewards : r.of = u}

(* A referral has two rewards from its qualification on, both granted or   *)
(* neither; it brings a trial and two periods once it is rewarded.         *)
RewardsFollowReferrals ==
    \A u \in Customers :
        LET status == referrals[u].status
            state == IF status = "rewarded" THEN "granted" ELSE "pending"
        IN  /\ RewardsOf(u) = IF status \in {"qualified", "rewarded"}
                              THEN {[of |-> u, side |-> s, status |-> state] : s \in Sides} ELSE {}
            /\ u \in trials <=> status = "rewarded"
            /\ {p \in periods : p.source \in {<<u, s>> : s \in Sides}} # {} <=> status = "rewarded"

(* The periods of a subscription follow one another and make up its days.  *)
PeriodsFollowOn ==
    \A u \in Customers :
        LET mine == {p \in periods : p.user = u}
        IN  /\ \A p \in mine : p.to > p.from
            /\ \A d \in 0..subscriptions[u].days - 1 :
                 Cardinality({p \in mine : p.from <= d /\ d < p.to}) = 1
            /\ \A p \in mine : p.to <= subscriptions[u].days

(* The usage limit of a code holds however claims interleave, rewards are  *)
(* granted once, whole and after the days already paid for, and none opens *)
(* the VPN of a suspended subscription (service.py claim and review,       *)
(* processor.py _grant_referral).                                          *)
ReferralsAddUp ==
    /\ \A u \in Customers : Usage(u) <= UsageLimit
    /\ RewardsFollowReferrals
    /\ PeriodsFollowOn
    /\ \A u \in Customers :
         subscriptions[u].status = "suspended" => subscriptions[u].vpn = "disabled"

(* Every qualified referral is rewarded or rejected in the end, however    *)
(* often the workers die, wait for each other and meet claims, unless the  *)
(* default plan stays archived or keeps being archived (processor.py       *)
(* process_batch).  A user is referred once: there is a last referral.     *)
QualifiedIsSettled ==
    <>[]planActive => <>[](\A u \in Customers : referrals[u].status # "qualified")

=============================================================================
