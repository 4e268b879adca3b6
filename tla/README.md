# HazBit: a verification project for the backend's money and entitlement paths

HazBit sells VPN access. A customer tops up a wallet through the Platega
provider or pays by bank transfer and uploads a screenshot; the wallet pays for
a subscription, which background workers renew; every change of entitlement is
carried to a Remnawave VPN panel by durable commands. The backend is a FastAPI
application and five kinds of worker processes that share one PostgreSQL
database (READ COMMITTED) and talk to four external services. Almost every rule
that matters is a rule about interleaved transactions, processes that die
between two of them, and calls whose answer never arrives. That is what this
project models.

Paths below are relative to the repository's `src/`; `app/` is
`backend/app/` and `modules/` is `backend/app/modules/`.

## 1. Inventory

| component | state it keeps | operations | hard behaviour | what makes it correct |
|---|---|---|---|---|
| Ledger (`modules/payments/ledger.py`, `database/schema.sql`) | transactions with two entries, unique idempotency keys | `post_transaction`, `wallet_balance` | repeated postings | a key is posted once; balance is derived, never stored |
| Wallet top-ups (`modules/billing/service.py:85-219, 423-510`) | `wallet_top_ups` | `create_top_up`, `process_platega_callback` | crash between insert, provider call and save; callbacks repeated, reordered, delayed | status and ledger agree; one payable checkout per key; money in and out once |
| Purchases and renewals (`modules/billing/service.py:221-421, 528-582`, `workers/billing_renewals.py`) | subscription, periods, billing setting, debit transactions | `purchase`, `update_auto_renew`, `due_renewals`, `record_renewal_failure` | competing requests and workers, copied due dates, lock order | no money spent twice; one period per debit; periods adjoin; due renewals get settled |
| Screenshot payments (`modules/payments/`) | `payments`, evidence, `payment_analyses`, `payment_reviews` | `create_intent`, `upload_evidence`, `claim`, `process`, `review_payment`, `approve_payment` | takeover of slow claims, stale ORM objects, duplicate screenshots, two reviewers | one credit per approval, one approval per bank operation, decisions are final |
| Evidence storage (`modules/payments/service.py:151-260`, `storage.py`) | objects and their rows | put, delete | object and row written apart | a committed row has its object |
| VPN commands (`modules/vpn/processor.py`, `repository.py`, `workers/vpn_sync.py`) | `vpn_accounts`, `vpn_sync_commands`; the panel's user | enqueue, claim, execute, apply outcome, fail | at-least-once execution without owner tokens, lost answers, out-of-order retries | nothing lost, nothing revived, everything settles, panel converges |
| VPN devices (`modules/vpn/service.py`) | `devices` | create, remove | removal before the answer to the creation, revoked rows under unique indexes, limit shared by a family | a removed device stays removed, the panel has no device without a row |
| Remnawave adapter (`services/remnawave-adapter`) | none | translate calls | which errors may be retried | retryable exactly when repeating is safe |
| Promotions (`modules/promotions`) | codes, redemptions | create, update, apply to a payment, redeem days | limit under concurrent and expiring intents | usage never exceeds its limits |
| Referrals (`modules/referrals`, `workers/referral_rewards.py`) | codes, referrals, rewards, trial grants | claim, review, grant, reject | claims racing for the last use, worker crashes, workers and claims that deadlock, blocked users, an archived plan | usage limit holds, each reward granted once and whole, every qualified referral settled |
| Families (`modules/families`) | groups, members, invitations | create, invite, accept, decline, revoke, leave, remove | seat races, invitations that lapse, administrators who take other locks, accept and revoke locking in opposite orders | seats reserved, access exactly with membership, an invitation settled once |
| Authentication (`modules/auth`) | users, identities, codes, challenges, sessions | register, log in (code, password, Google, Telegram), refresh, logout | codes presented twice, first logins over two ways at once, rotation racing logout, reuse and blocking | a code opens one session, identities stay with their user, one live token per family and none after its end |
| Support (`modules/support`) | tickets, messages, idempotency records | create, reply, note, update | repeated requests, expired records, operators on out-of-date pages | one message per request, the version tells of every change |
| Bots, notification worker (`modules/bots`, `workers/telegram_notifications.py`) | outbox, reminders, update gate | claim, deliver, mark, retry; webhook updates | death between sending and marking, one of several chats failing, a poll that dies | no event marked before it was delivered, none without its message |
| Staff (`modules/staff`) | roles, staff invitations | invite, accept, revoke, update | invitation and acceptance in separate transactions | who may act as an operator |
| Administration (`modules/admin`) | plans, prices, audit log | block, unblock, extend, change plan, publish versions | its commands race the customer's and the workers' | see the components it writes to |
| Portal, core, health, launch (`modules/portal`, `app/core`, `app/operations`) | none | reads, checks | none of its own | |
| Frontends, deployment | none | repeat requests under a key; restart workers | | |

How they interact. Billing, payment approval, promotions and referrals post to
one ledger under `pg_advisory_xact_lock("ledger:<user>:<currency>")`. Billing,
promotions, referrals, families and administration change a `vpn_accounts` row
and enqueue a `vpn_sync_commands` row in their own transaction; only the sync
worker calls the panel. Payments, support and administration write outbox
events; only the notification worker turns them into Telegram messages. Workers take rows with
`FOR UPDATE SKIP LOCKED`, mark them and commit, so that what protects a row
while it is being worked on is a status and a timeout, not a lock.

Two facts about the runtime shape all models. First, sessions are opened with
`expire_on_commit=False` and no query uses `populate_existing`
(`app/database/session.py:28-33`): a second `SELECT ... FOR UPDATE` in a session
takes the lock and evaluates its WHERE clause on current data, but leaves an
object the session still holds with the attributes it had. Secondly, an
`IntegrityError` rolls a transaction back whole and ends a worker, which PM2
restarts (`deploy/ecosystem.config.cjs`).

`PROJECT.json` lists the hazards line by line, with the property that covers
each or the reason why none does.

## 2. Modules

| module | models | state | actions |
|---|---|---|---|
| `Ledger` | the ledger's operators | none (a ledger is a set of posted transactions) | `Post`, `WalletBalance`, `ByKey` |
| `TopUpPromise` | what top-ups promise, abstractly | `paid`, `disputed`, `credited`, `reversed` | `Pay`, `Dispute`, `Credit`, `Reverse` |
| `WalletTopUps` | top-ups, request by request | `phase` (where a request is), `topUps` (rows), `checkouts` (the provider's, external), `callbacks` (messages), `ledger` | `Insert`/`Replay` = first transaction; `CheckoutIssued`/`CheckoutFailed` = the provider call; `SaveCheckout`/`SaveFailure` = second transaction; `Abandon` = crash; `ReportUnpaid`, `Pay`, `Dispute` = provider; `Confirm`, `Close`, `ChargeBack` = callback handler |
| `WalletTopUpsAndReferralsProofs` | theorems about it and about `Referrals` | | |
| `SumTheorems` | theorems about `MapThenSumSet`, the sum the ledger's balances are | | |
| `WalletPurchases` | one customer's purchases and renewals | `subscription`, `periods`, `setting`, `ledger`, `commands`, the advisory `lock`, `procs` | `Ask`, `Repeat`, `Refuse`, `Admit`, `Commit` = `purchase`; `UpdateAutoRenew`; `Poll`, `Renew`, `RecordFailure` = worker; `CreditTopUp`, `ReverseTopUp`, `ClosePrice`, `Tick`, `Crash` = environment |
| `WalletPurchasesProofs` | theorems about it | | |
| `PaymentAnalysis` | analysis workers, review, approval | `payments`, `expired`, `analyses`, `reviews`, `ledger`, row `locks`, `procs` | `UploadEvidence`, `Expire`; `Claim`, `Open`, `RecordFailure`, `Decide`, `CommitDecision` = worker; `Review`, `CommitReview`; `Crash` |
| `PaymentAnalysisProofs` | theorems about it | | |
| `PaymentIntents` | payment intents, one promo code, uploads | `promo`, `payments`, `redeemed`, `objects` (the object store, external), `dropped`, `procs` with the locks they hold | `CreateIntent`/`CommitIntent` and `RedeemFreeDays`/`CommitRedemption` under the code's lock; `Upload`, `Put`, `CommitUpload` or `FailUpload`, `Delete` = `upload_evidence`; `UpdateCode`, `ArchiveCode`; `Expire`, `Claim`, `Decide` = clock and `PaymentAnalysis`; `Crash` |
| `PaymentIntentsProofs` | theorems about it | | |
| `VpnSync` | one account, its devices and its commands | `account`, `commands`, `devices`, `panel` and `registered` (external), `procs` | `SyncEntitlement`, `Pay`, `Block`, `LeaveFamily`, `CreateDevice`, `RemoveDevice` = producers; `Claim`, `Open`, `LookUp`, `Create`, `CreateTaken`, `Update`, `Disable`, `RegisterDevice`, `UnregisterDevice`, `CallFails`, `ApplyOutcome`, `RecordFailure` = worker; `Crash` |
| `VpnSyncProofs` | theorems about it | | |
| `AuthSessions` | ways in, sessions, blocking | `users`, `owner` (of an identity), `passwords`, `otps`, `challenges`, `sessions`, `replays` (reuse on record in the audit log), `procs` with the rows they have locked | `StartEmailAuth`, `StartRegistration`/`CommitStart`, `RefuseCode`, `StartTelegramLogin`, `ApproveInBot`; `VerifyEmail`, `VerifyRegistration`, `CompleteRegistration`, `AuthenticatePassword`, `AuthenticateGoogle`, `AuthenticateTelegram`, `VerifyTelegramLogin`, each followed by `IssueLogin`; `Refresh`/`Rotate`, `RefreshExpired`, `DetectReuse`/`Revoke`, `Logout`, `BlockUser`/`Revoke`, `UnblockUser`; `Crash` |
| `TokenFamilies` | what rotation promises, abstractly | `issued` (tokens), `live` (of each family), `noticed` and `answered` (reuse) | `Open`, `Rotate`, `End`; `Notice`, `Answer`, `GiveUp` |
| `AuthSessionsAndSupportDeskProofs` | theorems about `AuthSessions`, its refinement of `TokenFamilies` among them, and about `SupportDesk` with its two modules | | |
| `Families` | the groups of all users | `subscribed`, `groups`, `members`, `invitations`, `accounts`, `blocked`, `procs` with their locks | `CreateGroup`/`CommitGroup`, `Accept`/`CommitAccept`, `RevokeInvitation`/`CommitRevocation`, `Leave`/`CommitLeave`, `Abort` (deadlock or death); `Invite`, `Decline`, `Lapse`, `RemoveMember` (the owner's), `RemoveFamilyMember` (an administrator's), `Subscribe`, `BlockUser`, `UnblockUser` in one step |
| `FamiliesProofs` | theorems about it | | |
| `Referrals` | claims, reviews, rewards | `codes`, `referrals`, `rewards`, `trials`, `subscriptions`, `periods`, `blocked`, `planActive`, `procs` with their locks | `GetOrCreateCode`, `Claim`/`Admit`, `Review`; `Take`, `LockReferrer`, `Settle` = worker; `AbortDeadlock`, `AbortClaim` = PostgreSQL; `Buy`, `Suspend`, `SetBlocked`, `SetPlanActive`, `Crash` |
| `StaffAccess` | operators | `access`, `invitations`, `inviting` | `Invite`, `CommitInvite`, `WithdrawUnsent` = `invite`; `AcceptInvitation`, `RevokeInvitation`, `UpdateAccess` |
| `Notifications` | outbox and notification worker | `events`, `sent` (to which chats, external), `expiring`, `queued`, `polling`, `batch`, `reached` | `EntersWindow`, `QueueReminders`, `Claim`, `SendToOperations`, `MarkPublished`, `SendToCustomer`, `Die`, `LeaseExpires` |
| `SupportDesk` | tickets, with the two modules above | `tickets`, `messages`, `records` (idempotency), `expired`, `pages` (what an operator has on the screen) | `CreateTicket`, `UserReplies`, `OperatorReplies`, `OperatorNotes`, `UpdateTicket`, `RecordExpires`, `ReadTicket`, `ReadMessages` |
| `MC*` | TLC instances | | |

How code becomes actions. A database transaction that holds the lock all its
competitors need is one action. It is two actions where something it does not
lock may change between its reads and its commit: a purchase (chargebacks,
closed prices), an analysis decision and a review (another payment being
approved with the same bank operation). An external call is an action of its
own, with every outcome its error handling distinguishes, and "carried out, but
the answer was lost" is one of them. A handler that raises rolls back; where
that leaves the process as it was, the model has no step. Unique indexes and
CHECKs that decide a race are guards at the commit (`RowCheck`, `AttemptFree`,
`OperationFree`). Second selections in one session use the copy the process
took at its first (`it.version`, `it.attempts` in `procs`).

Abstractions. Amount, currency and payment method of a top-up are one value
(the callback must match all). A bank operation is one model value standing
for number, recipient and currency. Rule outcomes are the Booleans
`evaluate_payment_rules` computes from the extraction. Timeouts and retry
delays are nondeterministic. Audit rows, rate limits, request validation and
response bodies are left out. The outbox is modelled for the events of support,
the only ones a customer waits for.
`WalletTopUps` appears inside `WalletPurchases` as the two actions
`CreditTopUp` and `ReverseTopUp`, which are the steps `TopUpPromise` grants;
`WalletTopUps` is shown to implement that promise. In the same way
`PaymentIntents` has the analysis as `Claim` and `Decide`, and `VpnSync`'s
producers are what `Families`, `Referrals` and `WalletPurchases` do to an
account. Names stand for what is unique anyway: a family group, its owner and
the subscription are one user; so are a referral code and its owner, and a
referral and the user referred.

Where a request reads or locks one thing before it waits for another, it is two
steps: `accept`, `leave` and `revoke_invitation` (`Families`), every login
(`AuthSessions`), a claim of a referral code (`Referrals`). Lock orders that may
deadlock are kept, and so is what PostgreSQL does about it. An UPDATE of several
rows acts on those it saw when it began, after waiting for their locks
(`BlockUser` and `DetectReuse` of `AuthSessions`). An INSERT that names a user
takes a key share lock on the user's row, which waits for the FOR UPDATE of
`block_user` (`KeyShare`).

## 3. Runs

| run | result | asks |
|---|---|---|
| `top_ups` (`MCWalletTopUps.cfg`) | passes, 208,641 states | do status and ledger agree whatever order callbacks come in; is there ever a second payable checkout for a key; does the balance equal the confirmed top-ups; is `TopUpPromise` implemented |
| `purchases` (`MCWalletPurchases.cfg`) | passes, 587,352 states | can money be spent twice, time be given without a debit or twice, do periods adjoin, can a due renewal stay due |
| `auto_renew_off` (`MCAutoRenewOff.cfg`) | violated | is nothing renewed while renewal is off |
| `analysis` (`MCPaymentAnalysis.cfg`) | passes, 373,736 states | are credits, approvals, attempts and reviews consistent under takeovers, crashes and duplicate screenshots; is an uploaded screenshot analysed |
| `late_analysis` (`MCLateAnalysis.cfg`) | violated | is a late result fenced by the version, as the document says |
| `payment_intents` (`MCPaymentIntents.cfg`) | passes, 429,941 states | do a code's limits hold for all that was approved in time or still can be, whatever checkouts and redemptions run at once; does a committed payment keep its screenshot |
| `vpn_sync` (`MCVpnSync.cfg`) | passes, 162,871 states | is a panel user ever lost, a removed device back, a settled command revived, a command given up early or never settled |
| `vpn_converges` (`MCVpnConverges.cfg`) | violated | does the panel have what the account wants once all commands succeeded |
| `auth_sessions` (`MCAuthSessions.cfg`) | passes, 611,098 states | does a code open one session; does a refresh keep a blocked user in; do identities stay with their user; is `TokenFamilies` implemented |
| `families` (`MCFamilies.cfg`) | passes, 501,144 states | are more seats promised than there are; does access go with membership; is an invitation settled once |
| `referrals` (`MCReferrals.cfg`) | passes, 138,136 states | do usage limits hold; are rewards granted once and whole; is every qualified referral settled although workers and claims deadlock |
| `support_desk` (`MCSupportDesk.cfg`) | passes, 940,210 states | does a request make one message and a message one event; is anything marked sent that was not; can an operator overwrite what his page had room for and did not show |

Deadlock checking is off in all runs but `referrals`: requests are finite in
number and customers may stop, so the systems really may come to rest. In
`referrals` users may always be blocked and unblocked, and the plan archived
and restored.

Some exceptions are part of what is checked, and say where the code stops.
`EveryCommandSettles` excepts a device that was removed before the answer to
its creation: the outcome would break a CHECK, the worker ends, and the command
with what was claimed beside it is claimed again (`Poisoned`). `PromoLimitsHold`
bounds the uses that never lapsed (`InTime`): redemptions, payments approved
before they expired, which count for good although their `expires_at` passes
later, and open payments that have not expired. A payment that was uploaded in
time, expired, and was approved afterwards (`late`, recorded at the decision)
is outside the limits, because its use may have been given to another
meanwhile. `VersionsTellChanges` speaks of the messages a page has room for
(`Shown`): `admin_ticket` reads the oldest `initial_message_limit`.
`BlockedStaysOut` lets a login through that overlaps the block. `EvidenceKept` leaves out an object
deleted because the database itself failed the transaction (`dropped`).

Bounds, and why they are enough:

- `MCWalletTopUps`: two users, one key, two requests, two amounts. Two
  requests are what a replay needs; with two users the key is also seen to be
  scoped; with two amounts a replay may conflict and a confirmation mismatch.
  Callbacks are unbounded: every message ever sent can always be delivered.
- `MCWalletPurchases`: one customer (all locks are per user), two requests
  under one key or under two, two workers, two prices of different versions, one top-up
  worth two periods of one price or one of the other, `MaxTime` 2 (two renewal
  dates), `Retry` 1, `MaxCrashes` 1. The top-up is too small for both prices,
  so every double spend shows.
- `MCPaymentAnalysis`: two payments, one with a discount, one bank operation
  both may show, two workers, one reviewer, `MaxAttempts` 2, `MaxFaults` 1
  (crashes and takeovers of claims still at work together). One takeover gives
  two workers with one claim, which is what the fence is for. The safety
  properties are proved without bounds (section 5).
- `MCPaymentIntents`: two customers, one of them with two intents, so that the
  limit per user and the limit in all differ; limits 1 and 2, one use per user;
  two requests at once. Two screenshots are uploaded for one payment, the same
  one possibly twice at once: objects of different payments have different
  names, so more payments add nothing to uploads.
- `MCVpnSync`: two workers, `MaxCommands` 2 (a later command overtakes a
  retried one), `MaxAttempts` 2, `MaxFaults` 1, `MaxExpiry` 1, one hardware id;
  the convergence run has `MaxExpiry` 2. Safety is proved without bounds.
- `MCAuthSessions`: one person with an e-mail address, a Telegram and a Google
  account that vouches for the address: all races are about one person's
  identities, codes or sessions. Two requests at once, one wrong guess
  permitted, at most 3 sessions, 2 codes and 1 challenge, and 5 of these rows
  in one behaviour (`MCRows`).
- `MCFamilies`: three people, `MemberLimit` 2, so that an owner has one seat
  to give and two people to promise it to, and each may own a group
  and be in another's; two invitations; two requests at once.
- `MCReferrals`: three users, one claim and two workers at a time, usage limit
  1, one crash. Two users referring each other make the workers and the claims
  lock in opposite orders; the third makes a second use of a code. One user buys,
  one may be blocked.
- `MCSupportDesk`: one ticket, two operators besides the customer, one key, two
  operations chats, three messages of which a page shows two (`MessageLimit`), so
  that tickets are met that fit a page and one that does not. Two reminders (`MaxSubscriptions`) are two
  polls that get past their first statement, so that an event may be claimed
  again after its lease (`MaxLeases` 2). `MaxVersion` bounds updates that add
  no message. `MCApart` keeps apart what touches no common state: operators
  are appointed before the first ticket, and the notifier works after the last
  message, on a ticket all of whose replies are the second operator's.

Symmetric sets (requests, people of a family, chats, contents) are declared in
the runs without liveness properties only.

Fairness. Workers poll in endless loops and PM2 restarts them, so each has
weak fairness of its next step; fairness of taking a row is strong, because a
row may be locked or a worker busy in between, and the claim queries order by
age, so that none is passed over for ever. A transaction that holds its locks
ends. PostgreSQL ends deadlocks and grants locks in the order of requests; the
survivor of a deadlock therefore goes on before the victim is back (`Referrals`,
strong fairness of `Settle`). Provider callbacks are repeated until
acknowledged. Customers, administrators, requests and the clock are not fair.
Crashes and takeovers are bounded (`MaxCrashes`, `MaxFaults`): a system that
crashes for ever makes no promise. `AuthSessions`, `Families`,
`PaymentIntents` and `SupportDesk` state no fairness: they are made of
requests, and what they promise is safety. The notification worker is not
assumed to get anywhere, for the reason in section 4.

Each property has a mutant: a variant of a mapped definition with a plausible
mistake (a guard dropped, a lock not awaited, a sign not negated, a date not
moved) under which TLC finds the property violated. They stand in the modules
beside the definitions they vary.

## 4. Where code and documents disagree

1. **Auto-renew off** (`auto_renew_off`). The purchase dialog promises "You can
   disable it anytime" (`customer-frontend/src/App.tsx:125`). A worker that has
   read a renewal as due calls `purchase` without reading the setting again: it
   charges the wallet after the customer has switched renewal off, and writes
   `auto_renew_enabled = TRUE` back.
2. **Version fence** (`late_analysis`). `docs/backend/step-06-payments-ai.md:73-75`
   says a stale worker cannot record a late response. The comparison in
   `processor.py:91-92` uses the attributes of the stale object and always
   succeeds. The rest holds all the same: `DecisionsStayFinal` proves that
   `UNIQUE (payment_id, attempt)` prevents double credits and overwritten
   decisions, and the mutant `AnyAttempt` that decisions are overwritten without it.
3. **Convergence** (`vpn_converges`). `docs/backend/step-10-admin-panel.md:71-72` and
   `step-05-remnawave-integration.md:77-78` say that blocking creates a durable command
   and that the desired state must be in the panel. A customer blocked while
   `ENSURE_ACCOUNT` is pending gets no `DISABLE` (`admin/service.py:174`) and is
   created active. The same property fails for an `EXTEND` retried after a newer
   one, and for a disabled account that is paid for again.

What the models also do because the code does, and no document contradicts (or
no run asks):

- **Notification worker** (`modules/bots/notifications.py:177-206, 224-241`).
  SQLAlchemy begins a transaction with a session's first statement, and
  `begin()` refuses a session that has one. A poll that finds no reminder to
  queue dies before it claims anything; a message to a customer is sent, its
  marking dies with the worker, and it is sent again after each lock window.
  `_settle_telegram_payment` and `review_payment` of the operations bot begin
  their transactions in the same way. A reminder is keyed by its subscription
  alone, so that each subscription gets one, once.
- **Device removed early** (`modules/vpn/processor.py:183`): see `Poisoned` above.
  A revoked row keeps its hardware id and its slot in the unique indexes while
  `create_device` (`modules/vpn/service.py:188`) looks at the active ones.
- **Device limit of a family** (`modules/vpn/service.py:173`). `docs/backend/step-11-family-subscription-domain.md:57-59`
  says that members use up one `device_limit` together. It is counted over the
  shared subscription, but only the member's own account is locked, so two
  members pass the last place together. Not modelled: `VpnSync` follows one account.
- **Staff**. `accept` replaces all roles of whoever has the invited address
  (`modules/staff/service.py:203, 302-304`), so an owner who accepts an
  invitation to a lesser role is no `super_admin` any longer, although such
  access "can only be transferred through an explicit owner operation" (`:96`).
  Two invitations of one address sent at once both stay open. A ticket's
  assignee may stop being an operator.
- **Reuse of a token** (`modules/auth/service.py:655-660`,
  `modules/auth/repository.py:339-353`). `docs/backend/step-04-authentication.md:110-111`
  says that presenting a replaced token "отзывает всю активную family". The
  UPDATE acts on the sessions that are committed when it begins: if the current
  token is being rotated at that moment, it waits for the row, finds it rotated
  and revokes nothing, and the successor lives on. What holds is checked as part of
  `KeepsFamilies`: once the reuse is on record, no token lives that was handed
  out before it was noticed. The document's own claim, no live token in the
  family at all, fails in the model (`TokenFamilies` says where).
- **Blocking** (`modules/auth/service.py:827-834`, `modules/admin/service.py:154-170`):
  a login that has read the user as active waits with its INSERT for the
  administrator's transaction and then commits a session the UPDATE of
  `block_user` did not see. It is refused while the user is blocked and works
  again after unblocking. A refresh cannot slip through: either its successor is
  committed first and revoked with the rest, or its INSERT and the UPDATE wait
  for each other and PostgreSQL aborts one of them. `BlockedStaysOut` checks that.
- **Two users for one person** (`modules/auth/service.py:737-746`): whoever first
  comes by Telegram and then by e-mail is two users; a registration that would
  join them ends in `identity_conflict` and asks for support to merge them.
- **Long tickets** (`modules/support/service.py:230-235`): an operator's page has
  the oldest `initial_message_limit` messages. On a longer ticket it has the
  current version and not the newest messages, `update_ticket` accepts it, and
  the page of the administration (`frontend/src/App.tsx:504`) reads no further
  ones. What `docs/backend/step-09-support-ticket-system.md:62-63` claims, that no
  operator silently overwrites another's decision, holds all the same.
- **Referrals**. An archived default plan kills the worker at the head of its
  queue until the plan is back; the approval of a review does not check again
  whether the two users may still take part.
- **Support**. A message is dated before its transaction has the ticket's lock
  (`modules/support/service.py:288, 360`) while the list continues after the date of
  the last message shown (`modules/support/repository.py:112-128`): one that
  waited for the lock may be listed before the cursor and missed. A change of
  status leaves no system message (`docs/backend/step-09-support-ticket-system.md:91`)
  unless it comes by `update_ticket`.
- **Renewals**. A new plan version closes the prices of running subscriptions
  (`modules/admin/service.py:439`); their renewals fail until the customer
  chooses a new one.
- **Webhook gate** (`modules/bots/idempotency.py:53`): an update whose handler
  fails is released for redelivery although some of its effects may be committed.

## 5. Proofs

Theorems hold for every value of the constants that satisfies the modules'
named assumptions. Most of these say what the program's types say: amounts,
prices, limits and bounds are natural numbers (positive where a CHECK of the
schema or a validator says so), `UserOf` and `KeysOf` are functions, and SQL NULL is no
value of a column (`NoneAssumption`; for the referrer, `ReferralAssumption`). Two say more: the processes of
`WalletPurchases` and `PaymentAnalysis` are of one kind each, and users and
payment intents are finitely many (`FiniteAssumption` of `PaymentIntents`),
because uses of a code are counted by a sum over the users. Wherever else a
count or a sum occurs, that the tables are finite is proved from the steps
that fill them.

What no module of this project assumes is a bound on concurrency: requests,
workers, customers and messages may be infinitely many.

An invariant that a run checks is proved in three steps: `Init => IInv`, `IInv /\
[Next]_vars => IInv'` and `IInv => Inv`. `IInv` was checked by TLC, as an invariant
of the run, before it was proved. Nearly always what has to be added is the same
kind of fact: what a process that read in one step may still rely on when
it commits in a later one, and that no two of them hold the same lock.

Two proof modules are about two components each: they extend both modules,
whose names differ. The specifications are not composed: a theorem is about
`Spec` alone or about the other component's, `ReferralSpec` or `DeskSpec`.

**`WalletTopUpsAndReferralsProofs`**, first part, for all sets of users, keys
and requests and all positive amounts (`NoneAssumption`, `AmountsAssumption`):

| theorem | says |
|---|---|
| `TypeCorrect` | `Spec => []TypeOK` |
| `StatusAlwaysMatchesLedger` | `Spec => []StatusMatchesLedger` |
| `CreditsAreBacked` | `Spec => []CreditIsBacked` |
| `ChecksOutOncePerKey` | `Spec => []OneCheckoutPerKey` |
| `BalanceAlwaysIsConfirmedTopUps` | `Spec => []BalanceIsConfirmedTopUps` |
| `SettledRowsOnlyChargeBack` | `Spec => SettledOnlyChargesBack` |
| `ImplementsPromise` | `Spec => Promise!Safety` |

The argument. `StatusMatchesLedger` is not inductive: nothing in it says that
`SaveCheckout` cannot overwrite a row a callback has confirmed, or that a
callback finds a row at all. `RequestOrder` says it: a request between its two
transactions has a row in status `creating` that is bound to no provider
transaction, and only requests with a row talk to the provider. A callback is
accepted for a bound row only, so handler steps and request steps never meet on
one row. The invariant is `IInv == TypeOK /\ RequestOrder /\
StatusMatchesLedger /\ CreditIsBacked`; there is one lemma per group of
actions (`RequestInv`, `ProviderInv`, `ConfirmInv`, `CloseInv`,
`ChargeBackInv`), and `InvStep` puts them together. The action property and the
refinement use `IInv` and `AmountKept` (no callback changes what a top-up is
for).

The other two rest on `Accounts`, which adds to `IInv` that a key names one row
(`KeysOnce`), that ledger and rows are finite, and that every wallet balances
(`Balanced`). A step either moves no money and no row in or out of "confirmed"
(`OtherMoves`), or adds one amount to a wallet and its row to the confirmed
ones (`ConfirmMoves`), or takes the same amount from both (`ChargeBackMoves`). In the
last case the row was confirmed before: a charged-back row has been reversed,
and a row in any other status has no credit to reverse.

**`WalletTopUpsAndReferralsProofs`**, second part, for all customers, claims,
reward workers, limits, grants and numbers of crashes (`ReferralAssumption`):

| theorem | says |
|---|---|
| `ReferralsAlwaysAddUp` | `ReferralSpec => []ReferralsAddUp` |

The argument. `ProcessesKnow` says what each claim and each worker has locked,
and that the referral a worker holds is still qualified when it settles it;
`RowsApart` that nobody else holds the row. So a reward is granted once.
`LimitsKept` counts what the limit is about, the referrals of a code that are
not rejected, as a finite set: the one step that adds to it (`AdmitStep`) holds
the row of the code and has just counted, every other step leaves it or makes
it smaller (`FewerBrought`). That nobody refers himself (`ByAnother`) is why the
two grants of a reward extend two different subscriptions. `DaysTiled` states
the periods without counting: each day paid for is in exactly one period and no
period reaches beyond them, which a purchase and a grant keep because they
begin where the days end (`TileGrows`, `Extends`); the property's `Cardinality`
follows (`TileCounts`). A grant leaves the VPN of a suspended subscription as it
finds it, and that is disabled (`StaySuspended`).

**`WalletPurchasesProofs`**, for all requests, workers, prices, price lists,
top-ups and clocks (`PricesAssumption`, `ValueAssumption`, `KeysAssumption`,
`ProcessesAssumption`, `BoundsAssumption`, `NoneAssumption`):

| theorem | says |
|---|---|
| `Invariant`, `TypeCorrect` | `Spec => []IInv`, `Spec => []TypeOK` |
| `NothingOverspent` | `Spec => []SpentWithinCredits` |
| `DebitsAlwaysBuyOnePeriod` | `Spec => []EveryDebitBuysOnePeriod` |
| `PaidTimeAlwaysAddsUp` | `Spec => []PaidTimeAddsUp` |
| `RenewalFlagsAlwaysAgree` | `Spec => []RenewalFlagsAgree` |
| `PaidTimeNeverShrinks` | `Spec => [][NothingTakenBack]_vars` |

The argument. Between the check of the balance and the debit a chargeback may
take the balance below the price, so no statement about the balance is
inductive. `Afforded` is about the credits, which never shrink: what is debited
and what the admitted purchase is about to debit are within them. One
purchase at a time is between check and debit, and its key stays unused
(`LockHeld`). At the check, the balance is at most what is credited and not yet
spent, since reversals are negative and each has its own credit
(`AtMostUnspent`). `Paid` says that the subscription reaches the end of the last period, so that a
new one, which begins there or later, overlaps none. `PaidTimeNeverShrinks` is stated here
alone: no posting or period disappears and no step, the switch and failed
renewals included, moves the end of a subscription back.

**`SumTheorems`** is what the proofs about wallets and `PaymentIntents` need to know of sums:
of nothing it is 0, one element more adds its value, whichever order the
definition takes the elements in, and a union of disjoint sets adds up
(`SumEmpty`, `SumAdd`, `SumRemove`, `SumChange`, `SumUnion` and their forms for amounts,
`Total...`). `MapThenSumSet` is a recursion over subsets; the induction theorems of
the library take a predicate as a parameter, which the provers cannot
instantiate. Each of these facts is proved without them: among the subsets
that violate it one would be smallest (`Smallest`, from `WFMin` for strict
inclusion of finite sets), and the recursion refutes that one.

**`PaymentIntentsProofs`**, for all finite sets of users and intents, all sets of
requests, screenshots and uploads, and all limits (`UserOfAssumption`,
`UploadsAssumption`, `FiniteAssumption`, `NoneAssumption`, `LimitsAssumption`):

| theorem | says |
|---|---|
| `Invariant`, `TypeCorrect` | `Spec => []IInv`, `Spec => []TypeOK` |
| `PromoLimitsAlwaysHold` | `Spec => []PromoLimitsHold` |
| `EvidenceAlwaysKept` | `Spec => []EvidenceKept` |

The argument. An intent that expires gives its use back and an approval takes
it again, so the number of uses goes up without anybody checking a limit.
The uses that never lapsed (`InTime`) do not: expiry and rejection take one
away, an approval keeps the one it approves, or marks it late. Nothing except a
commit under the code's lock adds one, and the request that holds that lock has
counted all the code counts, which is at least these (`WithinLimits`). `EvidenceKept` rests
on `Knows`: a request about to delete its object knows that the payment names another
one or can never name any (`Lost`), which no step undoes (`LostStays`); one about to
commit knows that its object is there.

**`FamiliesProofs`**, for all users, requests, seats and invitations
(`LimitAssumption`, `NoneAssumption`):

| theorem | says |
|---|---|
| `Invariant`, `TypeCorrect` | `Spec => []IInv`, `Spec => []TypeOK` |
| `SeatsAlwaysReserved` | `Spec => []SeatsReserved` |
| `AccessAlwaysByMembership` | `Spec => []AccessByMembership` |
| `AlwaysSettleOnce` | `Spec => InvitationsSettleOnce` |

The argument. `RequestsKnow` says what an acceptance, a departure, a
revocation or a foundation of a group still knows when it commits, and `LocksApart`
that nobody else holds the rows it knows it from; an administrator's removal,
which takes other locks, is shown to disturb none of it. That a seat is turned
from reserved into taken, and not counted twice, is a fact about cardinalities
(`SeatTaken`, `SeatGivenBack`). `OwnersStay` and `OwnAccess` tie a group to its
owner and an account to the subscription of one's own: the first is why a new
group has no seats taken yet, the second why unblocking, which reactivates the
account of any subscriber, gives nobody access to a family he is no member of.

**`AuthSessionsAndSupportDeskProofs`**, first part, for all identities, requests,
codes and sessions
(`EmailOfAssumption`, `BoundsAssumption`, `NoneAssumption`):

| theorem | says |
|---|---|
| `Invariant`, `TypeCorrect` | `Spec => []IInv`, `Spec => []TypeOK` |
| `CodesAlwaysWorkOnce` | `Spec => []CodesWorkOnce` |
| `AccountsAlwaysKept` | `Spec => AccountsKept` |
| `FamiliesAlwaysKept` | `Spec => KeepsFamilies` |
| `BlockedAlwaysStaysOut` | `Spec => []BlockedStaysOut` |

The argument. A login commits a session for a user, an identity and a code it
looked at one step before. `RequestsKnow` says that the code it has locked is still
unused and the user it found still there; `LocksApart` that no other request has the
same code in hand. `AccountsKept` is an action property: `Reachable` (every user has an
identity, one with a password an address) gives its state part, `OwnersKept` the
rest. The refinement maps a family to its live sessions and the reuse noticed or
answered to the tokens there were at the time: a login is `Open`
(`OpensFamily`), a refresh `Rotate` (`RotatesFamily`), logout, expiry and blocking
`End` (`EndsFamilies`), the start of a revocation `Notice` and its commit `Answer`
(`NoticesReuse`, `AnswersReuse`), the death of such a request `GiveUp`, every other step a stutter
(`SessionsAlone`). `OneLive` makes `Rotate` replace all that was live. `TokenFamilies`
has no fairness, so the theorem is the whole of `KeepsFamilies`.

A second invariant, `Seen`, proved after `IInv` (`Invariants`), is what requests saw before
they write: a Google account waits to be attached together with its
address, or joins the owner of it; a refresh in hand is of an active user,
since neither it nor a block can commit before the other has given up; the
targets of a revocation are the live tokens of its family that were handed out
before it began, or all live tokens of its user. From it follow `BlockedAlwaysStaysOut`, the
Google part of `AccountsKept` and the answer to reuse.

**`AuthSessionsAndSupportDeskProofs`**, second part, for all operators, tickets,
messages, keys, chats and reminders (`DeskAssumption` is not used):

| theorem | says |
|---|---|
| `ConversationAlwaysAddsUp` | `Spec => []ConversationAddsUp` |
| `VersionsAlwaysTellChanges` | `Spec => []VersionsTellChanges` |

The argument. `ConversationAddsUp` is not inductive. That a repeated request finds
the message it made needs `RecordsKept`: a message has its record or its
record has expired, so a request that finds none repeats only what has expired
(`Recorded`). That each public message has its one event is `EventsAbout`, which
also says that no event is about a message not yet written; rows of the outbox
change afterwards, but never in what they are about (`RowsChange`). That what is
marked published was sent is `WorkerKnows`: between the last message and the
mark, the oldest event of the worker's batch is one for the operators that
every chat has, whether or not its lease ran out meanwhile; a worker that dies
forgets the batch and changes no row. `PageKnows` is `VersionsTellChanges` with
what makes it inductive: a page is of an existing ticket, and its version is at
most the ticket's. It is why an operator may read the ticket and its messages in
two steps: a message that comes in between belongs to a later version, and an
update from that page is refused (`PagesTrue`).

**`PaymentAnalysisProofs`**, for all sets of payments, operations, workers and
reviewers and all limits on attempts and faults (`AmountsAssumption`,
`ProcessesAssumption`, `NoneAssumption`, `BoundsAssumption`):

| theorem | says |
|---|---|
| `Invariant`, `TypeCorrect` | `Spec => []IInv`, `Spec => []TypeOK` |
| `ApprovedAlwaysCredited` | `Spec => []ApprovedIsCredited` |
| `OperationsPayOnce` | `Spec => []OperationApprovedOnce` |
| `AttemptsAlwaysExplain` | `Spec => []AttemptsExplainStatus` |
| `ReviewsDecide` | `Spec => []ReviewDecides` |
| `DecisionsStayFinal` | `Spec => DecisionIsFinal` |

The argument. A late worker writes the payment as it was when it opened it, so
the tables alone say nothing about what it may do. `ClaimsKnow` does: the
attempt a worker has in hand is at most one more than the attempts recorded,
and while it is one more the payment is still being analysed. Either the
attempt is recorded already and the unique index undoes the transaction
(`MayRecord`), or nothing has happened to the payment since. `LockersKnow`
says the like of a reviewer, who holds the row's lock from reading it to the
commit. The five invariants are `DataInv`, and three lemmas say what any
transaction may do to them: `Queued`, `Recorded`, `Reviewed`. `OthersInv`
says under which conditions a step of one process keeps what the others rely
on. That attempts are numbered without gaps is a fact about cardinalities
(`Counted`, `OneMore`).

**`VpnSyncProofs`**, for all numbers of workers, commands, attempts, expiry
dates, devices and faults (`BoundsAssumption`, `NoneAssumption`):

| theorem | says |
|---|---|
| `Invariant`, `TypeCorrect` | `Spec => []IInv`, `Spec => []TypeOK` |
| `NeverOrphaned` | `Spec => []NoOrphanUser` |
| `SettledStaysSettled` | `Spec => SettledIsFinal` |
| `GivesUpLastAlways` | `Spec => GivesUpLast` |

The argument. `IInv == TypeOK /\ CommandsMakeSense /\ WorkersKnow /\
NoOrphanUser`. A claim has no owner, so `WorkersKnow` is what a worker may rely
on whoever else works on its command: the command exists and had at least as
many attempts as the worker counts; an answer that reports success was given
by a panel that has the user. Producers go through `EnqueueInv`, workers
through `WorkerInv`; the two action properties follow from `ProgressOnly`, which
says which statuses may follow which.

Only model-checked:

- liveness, since fairness and ENABLED are out of the prover's reach:
  `DueIsSettled`, `UploadIsAnalysed`, `EveryCommandSettles`, `QualifiedIsSettled` and
  the liveness part of `KeepsPromise` (its safety part is `ImplementsPromise`).

Every safety property a passing run checks, invariant or action property, is
stated by a theorem.

## 6. Not modelled, and what is left

Not modelled: the portal, health checks, launch scripts and frontends (no
protocol of their own); the Gemini prompt, HTTP, configuration, rate limits and
parsing; the bots' conversations and their update gate;
`_settle_telegram_payment` (`modules/bots/service.py:390-455`), which needs
an invoice that no code of the repository issues; `enable_user`,
`disable_user`, `request_sync` and `extend_subscription` of
`modules/vpn/service.py`, which nothing calls; slots and limits of devices, since
`VpnSync` follows one account and the limit is a family's (section 4); an operations
bot that is not configured (`modules/bots/notifications.py:96`), which
`app/core/config.py:545-563` refuses in production.

Worth doing next, in this order:

1. An abstract work queue (each command executed at least once, settled
   once) that `VpnSync` and `Notifications` implement; and a composition of
   `VpnSync` with `Families` instead of its producers.
2. The refinement of `WalletPurchases` by the wallet half of `TopUpPromise`, in
   place of the two actions that stand for it.
3. The accounts and devices of two members of a family in one model, for the
   device limit.
4. The webhook's update gate with the operations bot's callbacks.
