---------------------------- MODULE AuthSessions ----------------------------
(***************************************************************************)
(* How people get in, stay in and are thrown out                           *)
(* (backend/app/modules/auth: service.py and repository.py, the            *)
(* confirmation links of modules/bots/service.py, and block_user of        *)
(* modules/admin/service.py).                                              *)
(*                                                                         *)
(* A login is one transaction that locks the row of the code or challenge  *)
(* it uses, if any, reads the identities and the user without locks, and   *)
(* commits a session; it is two steps here, the second of which meets what *)
(* others committed meanwhile.  UNIQUE constraints on the identities roll  *)
(* it back.  An UPDATE of several rows acts on those it saw when it        *)
(* began, after waiting for their locks.  Deadlines are the clock's        *)
(* choice: any code, challenge or token may be found expired.  Of the      *)
(* audit log only the reuse of tokens is kept; why else a session was      *)
(* revoked, and by which one it was replaced, are left out.                *)
(***************************************************************************)
EXTENDS Integers, Sequences, FiniteSets

CONSTANTS Clients,       \* requests that may be at work at once
          Emails, Telegrams, Googles,
          EmailOf,       \* the address Google vouches for
          MaxAttempts,   \* otp.max_attempts
          MaxSessions,   \* bound on the sessions ever issued
          MaxOtps,       \* bound on the codes ever sent
          MaxChallenges, \* bound on the registrations and Telegram confirmations
          None

ASSUME EmailOfAssumption == EmailOf \in [Googles -> Emails]
ASSUME IdentitiesAssumption ==
    Emails \cap Telegrams = {} /\ Emails \cap Googles = {} /\ Telegrams \cap Googles = {}
ASSUME BoundsAssumption ==
    {MaxAttempts, MaxSessions, MaxOtps, MaxChallenges} \subseteq Nat \ {0}
ASSUME NoneAssumption ==
    None \notin Nat \cup Emails \cup Telegrams \cup Googles \cup ({"otp", "challenge"} \X Nat)

VARIABLES users,       \* statuses of the users rows
          owner,       \* user an e-mail, Telegram or Google account belongs to
          passwords,   \* users with password credentials
          otps,        \* otp_challenges in the order of created_at
          challenges,  \* registration_challenges and telegram_login_challenges
          sessions,    \* auth_sessions
          replays,     \* audit_logs of reused tokens: the family, and how many sessions
                       \* there were when it was noticed
          procs        \* state of each request

accounts == <<users, owner, passwords>>
codes == <<otps, challenges>>
tokens == <<sessions, replays>>
vars == <<users, owner, passwords, otps, challenges, sessions, replays, procs>>

Identities == Emails \cup Telegrams \cup Googles
Idle == [phase |-> "idle", rows |-> {}]

Init ==
    /\ users = <<>>
    /\ owner = [i \in Identities |-> None]
    /\ passwords = {}
    /\ otps = <<>>
    /\ challenges = <<>>
    /\ sessions = <<>>
    /\ replays = {}
    /\ procs = [c \in Clients |-> Idle]

-----------------------------------------------------------------------------
(* Rows and their locks *)

OtpRow(o) == <<"otp", o>>
ChallengeRow(x) == <<"challenge", x>>
SessionRow(s) == <<"session", s>>
UserRow(u) == <<"user", u>>
TelegramLock(t) == <<"telegram", t>>

Free(rows) == \A c \in Clients : procs[c].rows \cap rows = {}

(* An INSERT that names a user takes a key share lock on his row, which    *)
(* waits for FOR UPDATE.                                                   *)
KeyShare(u) == Free({UserRow(u)})

Become(c, state) == procs' = [procs EXCEPT ![c] = state]
Ready(c) == procs[c].phase = "idle"

(* _ensure_active, which a user yet to be created passes. *)
Active(u) == u \notin {v \in DOMAIN users : users[v] # "active"}

OpenOtps(e, purpose) ==
    {o \in DOMAIN otps : otps[o].email = e /\ otps[o].purpose = purpose /\ ~otps[o].consumed}

(* Mutant: the filter on consumed_at is gone. *)
LatestOtpEver(e, purpose, o) ==
    /\ o \in DOMAIN otps
    /\ \A p \in DOMAIN otps : otps[p].email = e /\ otps[p].purpose = purpose => p <= o
    /\ otps[o].email = e /\ otps[o].purpose = purpose

(* get_latest_otp_for_update *)
LatestOtp(e, purpose, o) ==
    o \in OpenOtps(e, purpose) /\ \A p \in OpenOtps(e, purpose) : p <= o

OpenRegistrations(e) ==
    {x \in DOMAIN challenges :
        challenges[x].kind = "registration" /\ challenges[x].email = e /\ ~challenges[x].consumed}

(* There is room for one more session within the bound. *)
Room == Len(sessions)
        + Cardinality({c \in Clients : procs[c].phase \in {"issuing", "rotating"}}) < MaxSessions

-----------------------------------------------------------------------------
(* Codes and challenges *)

(* start_email_auth: the codes this transaction sees are invalidated.      *)
StartEmailAuth(c, e) ==
    /\ Ready(c) /\ Len(otps) < MaxOtps
    /\ LET rows == {OtpRow(o) : o \in OpenOtps(e, "login")}
       IN  /\ Free(rows)
           /\ Become(c, [phase |-> "starting", rows |-> rows, purpose |-> "login",
                         email |-> e, telegram |-> None])
    /\ UNCHANGED <<accounts, codes, tokens>>

(* start_registration, with or without a Telegram account to confirm.      *)
StartRegistration(c, e, t) ==
    /\ Ready(c) /\ Len(otps) < MaxOtps /\ Len(challenges) < MaxChallenges
    /\ owner[e] \notin passwords
    /\ LET rows == {OtpRow(o) : o \in OpenOtps(e, "register")}
                   \cup {ChallengeRow(x) : x \in OpenRegistrations(e)}
       IN  /\ Free(rows)
           /\ Become(c, [phase |-> "starting", rows |-> rows, purpose |-> "register",
                         email |-> e, telegram |-> t])
    /\ UNCHANGED <<accounts, codes, tokens>>

Consume(table, Row(_), rows) ==
    [n \in DOMAIN table |->
        IF Row(n) \in rows THEN [table[n] EXCEPT !.consumed = TRUE] ELSE table[n]]

(* ... which are committed with the new row or rows.  Then the mail is     *)
(* sent, or fails to be, and a code nobody received is consumed.           *)
CommitStart(c, delivered) ==
    LET it == procs[c]
        registers == it.purpose = "register"
    IN  /\ it.phase = "starting"
        /\ Len(otps) < MaxOtps /\ (registers => Len(challenges) < MaxChallenges)
        /\ otps' = Append(Consume(otps, OtpRow, it.rows),
                          [email |-> it.email, purpose |-> it.purpose, attempts |-> 0,
                           consumed |-> ~delivered])
        /\ challenges' = IF registers
             THEN Append(Consume(challenges, ChallengeRow, it.rows),
                         [kind |-> "registration", email |-> it.email, telegram |-> it.telegram,
                          emailVerified |-> FALSE, confirmed |-> FALSE, consumed |-> ~delivered])
             ELSE challenges
        /\ Become(c, Idle)
        /\ UNCHANGED <<accounts, tokens>>

(* A code is found expired or wrong.  That of a registration is looked at  *)
(* only for a registration that is still open.                             *)
RefuseCode(e, purpose) ==
    /\ purpose = "register" => OpenRegistrations(e) # {}
    /\ \E o \in DOMAIN otps :
         /\ LatestOtp(e, purpose, o) /\ Free({OtpRow(o)})
         /\ \/ otps' = [otps EXCEPT ![o].consumed = TRUE]
            \/ otps' = [otps EXCEPT ![o].attempts = @ + 1,
                                    ![o].consumed = otps[o].attempts + 1 >= MaxAttempts]
    /\ UNCHANGED <<accounts, challenges, tokens, procs>>

(* start_telegram_id_login *)
StartTelegramLogin(t) ==
    /\ Len(challenges) < MaxChallenges
    /\ challenges' = Append(challenges,
         [kind |-> "telegram_login", email |-> None, telegram |-> t,
          emailVerified |-> FALSE, confirmed |-> FALSE, consumed |-> FALSE])
    /\ UNCHANGED <<accounts, otps, tokens, procs>>

(* _approve_auth_challenge: the bot's confirmation link.                   *)
ApproveInBot(x) ==
    /\ Free({ChallengeRow(x)})
    /\ ~challenges[x].consumed /\ challenges[x].telegram # None
    /\ challenges[x].kind = "telegram_login" => owner[challenges[x].telegram] # None
    /\ challenges' = [challenges EXCEPT ![x].confirmed = TRUE]
    /\ UNCHANGED <<accounts, otps, tokens, procs>>

-----------------------------------------------------------------------------
(* Logging in.  `via` is what a session is issued for, `rows` are consumed *)
(* with it, `attach` are identities to be bound to the user, who is        *)
(* created if there is None.                                               *)

Issue(c, via, rows, user, attach, password) ==
    /\ Ready(c) /\ Room
    /\ Free(rows)
    /\ Active(user)
    /\ Become(c, [phase |-> "issuing", rows |-> rows, via |-> via, user |-> user,
                  attach |-> {i \in attach : owner[i] = None}, password |-> password])
    /\ UNCHANGED <<accounts, codes, tokens>>

VerifyEmail(c, e) ==
    \E o \in DOMAIN otps :
      /\ LatestOtp(e, "login", o)
      /\ Issue(c, OtpRow(o), {OtpRow(o)}, owner[e], {e}, FALSE)

(* _finalize_registration *)
Finalize(c, x, rows) ==
    LET e  == challenges[x].email
        t  == challenges[x].telegram
        eu == owner[e]
        tu == IF t = None THEN None ELSE owner[t]
        user == IF eu # None THEN eu ELSE tu
    IN  /\ eu # None /\ tu # None => eu = tu
        /\ user \notin passwords
        /\ Issue(c, ChallengeRow(x), rows \cup {ChallengeRow(x)}, user, {e, t} \ {None}, TRUE)

Pending(x) == challenges[x].telegram # None /\ ~challenges[x].confirmed

(* verify_registration with the right code, which is good for whichever    *)
(* registration of the address is open.                                    *)
VerifyRegistration(c, x) ==
    /\ x \in OpenRegistrations(challenges[x].email)
    /\ \E o \in DOMAIN otps :
         /\ LatestOtp(challenges[x].email, "register", o)
         /\ IF Pending(x)
            THEN /\ Free({OtpRow(o), ChallengeRow(x)})
                 /\ otps' = [otps EXCEPT ![o].consumed = TRUE]
                 /\ challenges' = [challenges EXCEPT ![x].emailVerified = TRUE]
                 /\ UNCHANGED <<accounts, tokens, procs>>
            ELSE Finalize(c, x, {OtpRow(o)})

CompleteRegistration(c, x) ==
    /\ x \in OpenRegistrations(challenges[x].email)
    /\ challenges[x].emailVerified /\ ~Pending(x)
    /\ Finalize(c, x, {})

AuthenticatePassword(c, e) ==
    /\ owner[e] \in passwords
    /\ Issue(c, None, {}, owner[e], {}, FALSE)

(* A new Google account joins the user of its address. *)
AuthenticateGoogle(c, g) ==
    IF owner[g] # None THEN Issue(c, None, {}, owner[g], {}, FALSE)
    ELSE Issue(c, None, {}, owner[EmailOf[g]], {g, EmailOf[g]}, FALSE)

(* authenticate_telegram and the login widget, one at a time for each      *)
(* Telegram account.                                                       *)
AuthenticateTelegram(c, t) == Issue(c, None, {TelegramLock(t)}, owner[t], {t}, FALSE)

(* Mutant: the row is read without FOR UPDATE. *)
TelegramRowsUnlocked(x) == {}

(* get_telegram_login_for_update *)
TelegramRows(x) == {ChallengeRow(x)}

VerifyTelegramLogin(c, x) ==
    /\ challenges[x].kind = "telegram_login"
    /\ challenges[x].confirmed /\ ~challenges[x].consumed
    /\ owner[challenges[x].telegram] # None
    /\ Issue(c, ChallengeRow(x), TelegramRows(x), owner[challenges[x].telegram], {}, FALSE)

NewSession(u, family, via) ==
    [user |-> u, family |-> family, status |-> "live", via |-> via]

(* Mutant: an identity is handed to whoever comes last. *)
NeverTaken(it) == FALSE

(* The UNIQUE constraints of the identities and of the credentials: both   *)
(* e-mail and telegram_accounts.user_id, google_accounts.user_id.          *)
Taken(it) ==
    \/ \E i \in it.attach :
         \/ owner[i] # None
         \/ i \in Telegrams /\ \E j \in Telegrams : owner[j] # None /\ owner[j] = it.user
         \/ i \in Googles /\ \E j \in Googles : owner[j] # None /\ owner[j] = it.user
    \/ it.password /\ it.user \in passwords

(* The identity is the user's from now on; one that was theirs already     *)
(* only has its names refreshed.                                           *)
Attached(it, u) == [i \in Identities |-> IF i \in it.attach THEN u ELSE owner[i]]

(* _issue_login, or its roll-back.  The session is inserted for whoever    *)
(* was active when he was read, once nobody is blocking him.               *)
IssueLogin(c) ==
    LET it   == procs[c]
        used == it.rows \cup {it.via}
        u    == IF it.user = None THEN Len(users) + 1 ELSE it.user
    IN  /\ it.phase = "issuing"
        /\ it.user # None => KeyShare(it.user)
        /\ IF Taken(it) THEN UNCHANGED <<accounts, codes, tokens>>
           ELSE /\ users' = IF it.user = None THEN Append(users, "active") ELSE users
                /\ owner' = Attached(it, u)
                /\ passwords' = IF it.password THEN passwords \cup {u} ELSE passwords
                /\ otps' = Consume(otps, OtpRow, used)
                /\ challenges' = Consume(challenges, ChallengeRow, used)
                /\ sessions' = Append(sessions, NewSession(u, Len(sessions) + 1, it.via))
                /\ UNCHANGED replays
        /\ Become(c, Idle)

-----------------------------------------------------------------------------
(* Refreshing, logging out, blocking *)

Live(s) == sessions[s].status = "live"

(* get_session_by_digest_for_update *)
RefreshRows(s) == {SessionRow(s)}

(* refresh presents the token of session s. *)
Refresh(c, s) ==
    /\ Ready(c) /\ Free({SessionRow(s)}) /\ Live(s)
    /\ Active(sessions[s].user) /\ Room
    /\ Become(c, [phase |-> "rotating", rows |-> RefreshRows(s), session |-> s])
    /\ UNCHANGED <<accounts, codes, tokens>>

Rotate(c) ==
    LET s == procs[c].session
    IN  /\ procs[c].phase = "rotating"
        /\ KeyShare(sessions[s].user)
        /\ sessions' = Append([sessions EXCEPT ![s].status = "rotated"],
                              NewSession(sessions[s].user, sessions[s].family, None))
        /\ Become(c, Idle)
        /\ UNCHANGED <<accounts, codes, replays>>

(* The token is past its deadline. *)
RefreshExpired(s) ==
    /\ Free({SessionRow(s)}) /\ Live(s)
    /\ sessions' = [sessions EXCEPT ![s].status = "revoked"]
    /\ UNCHANGED <<accounts, codes, replays, procs>>

(* What an UPDATE of the sessions that match will revoke: those that are   *)
(* committed and live when it begins, one of them perhaps while its own    *)
(* successor is being inserted.                                            *)
Revoking(rows, user, replay, match) ==
    [phase |-> "revoking", rows |-> rows, user |-> user, replay |-> replay,
     targets |-> {r \in match : Live(r)}]

FamilyOf(s) == {r \in DOMAIN sessions : sessions[r].family = sessions[s].family}

(* Mutant: only the reused session itself is revoked, as it already is. *)
DetectReuseAlone(c, s) ==
    /\ Ready(c) /\ Free({SessionRow(s)})
    /\ sessions[s].status = "rotated"
    /\ Become(c, Revoking({SessionRow(s)}, None,
                          [family |-> sessions[s].family, at |-> Len(sessions)], {s}))
    /\ UNCHANGED <<accounts, codes, tokens>>

(* A replaced token is presented again: the UPDATE of its family begins.   *)
DetectReuse(c, s) ==
    /\ Ready(c) /\ Free({SessionRow(s)})
    /\ sessions[s].status = "rotated"
    /\ Become(c, Revoking({SessionRow(s)}, None,
                          [family |-> sessions[s].family, at |-> Len(sessions)], FamilyOf(s)))
    /\ UNCHANGED <<accounts, codes, tokens>>

Logout(s) ==
    /\ Free({SessionRow(s)}) /\ KeyShare(sessions[s].user) /\ Live(s)
    /\ sessions' = [sessions EXCEPT ![s].status = "revoked"]
    /\ UNCHANGED <<accounts, codes, replays, procs>>

SessionsOf(u) == {r \in DOMAIN sessions : sessions[r].user = u}

(* Mutant: block_user reads the user without FOR UPDATE, and his row is    *)
(* locked by an UPDATE that leaves the key alone.                          *)
BlockUserUnlocked(c, u) ==
    /\ Ready(c) /\ Free({UserRow(u)})
    /\ users[u] = "active"
    /\ Become(c, Revoking({}, u, None, SessionsOf(u)))
    /\ UNCHANGED <<accounts, codes, tokens>>

(* block_user of the administration *)
BlockUser(c, u) ==
    /\ Ready(c) /\ Free({UserRow(u)})
    /\ users[u] = "active"
    /\ Become(c, Revoking({UserRow(u)}, u, None, SessionsOf(u)))
    /\ UNCHANGED <<accounts, codes, tokens>>

(* The rows among those the UPDATE saw that are still to be revoked when   *)
(* their locks are free.                                                   *)
Targets(it) == {r \in it.targets : Live(r)}

(* revoke_token_family with its audit row, and the UPDATE of block_user *)
Revoke(c) ==
    LET it == procs[c]
    IN  /\ it.phase = "revoking"
        /\ Free({SessionRow(r) : r \in it.targets} \ it.rows)
        /\ sessions' = [r \in DOMAIN sessions |->
             IF r \in Targets(it) THEN [sessions[r] EXCEPT !.status = "revoked"] ELSE sessions[r]]
        /\ IF it.user = None
           THEN /\ KeyShare(sessions[it.replay.family].user)
                /\ replays' = replays \cup {it.replay} /\ UNCHANGED users
           ELSE users' = [users EXCEPT ![it.user] = "blocked"] /\ UNCHANGED replays
        /\ Become(c, Idle)
        /\ UNCHANGED <<owner, passwords, codes>>

UnblockUser(u) ==
    /\ Free({UserRow(u)}) /\ users[u] = "blocked"
    /\ users' = [users EXCEPT ![u] = "active"]
    /\ UNCHANGED <<owner, passwords, codes, tokens, procs>>

(* A request dies: its transaction is undone, a mail is never sent.        *)
Crash(c) ==
    /\ ~Ready(c)
    /\ Become(c, Idle)
    /\ UNCHANGED <<accounts, codes, tokens>>

-----------------------------------------------------------------------------
Codes ==
    \/ \E c \in Clients, e \in Emails :
         StartEmailAuth(c, e) \/ \E t \in Telegrams \cup {None} : StartRegistration(c, e, t)
    \/ \E c \in Clients, delivered \in BOOLEAN : CommitStart(c, delivered)
    \/ \E e \in Emails, purpose \in {"login", "register"} : RefuseCode(e, purpose)
    \/ \E t \in Telegrams : StartTelegramLogin(t)
    \/ \E x \in DOMAIN challenges : ApproveInBot(x)

Login(c) ==
    \/ \E e \in Emails : VerifyEmail(c, e) \/ AuthenticatePassword(c, e)
    \/ \E g \in Googles : AuthenticateGoogle(c, g)
    \/ \E t \in Telegrams : AuthenticateTelegram(c, t)
    \/ \E x \in DOMAIN challenges :
         VerifyRegistration(c, x) \/ CompleteRegistration(c, x) \/ VerifyTelegramLogin(c, x)
    \/ IssueLogin(c)

Session(c) ==
    \/ \E s \in DOMAIN sessions : Refresh(c, s) \/ DetectReuse(c, s)
    \/ \E u \in DOMAIN users : BlockUser(c, u)
    \/ Rotate(c) \/ Revoke(c)

Next ==
    \/ Codes
    \/ \E c \in Clients : Login(c) \/ Session(c) \/ Crash(c)
    \/ \E s \in DOMAIN sessions : RefreshExpired(s) \/ Logout(s)
    \/ \E u \in DOMAIN users : UnblockUser(u)

Spec == Init /\ [][Next]_vars

-----------------------------------------------------------------------------
(* Properties *)

TypeOK ==
    /\ users \in Seq({"active", "blocked"})
    /\ owner \in [Identities -> DOMAIN users \cup {None}]
    /\ passwords \subseteq DOMAIN users
    /\ otps \in Seq([email : Emails, purpose : {"login", "register"},
                     attempts : 0 .. MaxAttempts, consumed : BOOLEAN])
    /\ challenges \in Seq(
         [kind : {"registration", "telegram_login"}, email : Emails \cup {None},
          telegram : Telegrams \cup {None}, emailVerified : BOOLEAN, confirmed : BOOLEAN,
          consumed : BOOLEAN])
    /\ sessions \in Seq(
         [user : DOMAIN users, family : DOMAIN sessions,
          status : {"live", "rotated", "revoked"},
          via : {None} \cup {OtpRow(o) : o \in DOMAIN otps}
                       \cup {ChallengeRow(x) : x \in DOMAIN challenges}])
    /\ replays \subseteq [family : DOMAIN sessions, at : DOMAIN sessions]
    /\ Len(sessions) <= MaxSessions /\ Len(otps) <= MaxOtps /\ Len(challenges) <= MaxChallenges
    /\ \A c \in Clients : procs[c].phase \in {"idle", "starting", "issuing", "rotating",
                                            "revoking"}

(* A code, a registration and a confirmation let one person in once,       *)
(* however often and however simultaneously they are presented, and a code *)
(* is dead after MaxAttempts wrong guesses.                                *)
CodesWorkOnce ==
    /\ \A s, r \in DOMAIN sessions : sessions[s].via = sessions[r].via => s = r \/ sessions[s].via = None
    /\ \A s \in DOMAIN sessions :
         /\ \A o \in DOMAIN otps : sessions[s].via = OtpRow(o) => otps[o].consumed
         /\ \A x \in DOMAIN challenges :
              sessions[s].via = ChallengeRow(x) => challenges[x].consumed
    /\ \A o \in DOMAIN otps : otps[o].attempts >= MaxAttempts => otps[o].consumed

(* However many first logins commit at once, by whichever ways: an address *)
(* or account stays with its user, every user can be reached by one, a     *)
(* password only exists together with an address to enter it for, and a    *)
(* Google account belongs to the user of its address.  A person who came   *)
(* by Telegram and by e-mail may be two users, whom only support can merge *)
(* (service.py _finalize_registration, authenticate_google, models.py).    *)
AccountsKept ==
    [][/\ \A i \in Identities : owner[i] # None => owner'[i] = owner[i]
       /\ \A u \in DOMAIN users' : \E i \in Identities : owner'[i] = u
       /\ \A u \in passwords' : \E e \in Emails : owner'[e] = u
       /\ \A g \in Googles : owner'[g] # None => owner'[g] = owner'[EmailOf[g]]]_vars

(* Nobody who is blocked stays in by a refresh, though block_user and      *)
(* refresh read before they write: whatever session of his is live was     *)
(* opened by a login that had found him active and committed after the     *)
(* block, and it cannot be prolonged (admin/service.py block_user,         *)
(* service.py refresh, _issue_login).                                      *)
BlockedStaysOut ==
    \A s \in DOMAIN sessions :
        Live(s) /\ users[sessions[s].user] = "blocked" => sessions[s].family = s

Known(replay) == <<replay.family, 1 .. replay.at>>

(* The reuse that requests have noticed and not yet answered. *)
Noticed ==
    {procs[c].replay : c \in {d \in Clients : procs[d].phase = "revoking" /\ procs[d].user = None}}

Families == INSTANCE TokenFamilies WITH
    Tokens   <- 1 .. MaxSessions,
    issued   <- DOMAIN sessions,
    live     <- [f \in 1 .. MaxSessions |->
                   {s \in DOMAIN sessions : sessions[s].family = f /\ Live(s)}],
    noticed  <- {Known(replay) : replay \in replays \cup Noticed},
    answered <- {Known(replay) : replay \in replays}

(* The sessions implement TokenFamilies: at most one token of a family is  *)
(* live, however many tabs refresh with it at once; what logout, expiry or *)
(* blocking ended never comes back to life; and once a reuse is on record, *)
(* no token lives that was handed out before it was noticed.               *)
KeepsFamilies == Families!Spec

=============================================================================
