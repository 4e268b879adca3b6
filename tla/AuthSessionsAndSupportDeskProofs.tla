------------------ MODULE AuthSessionsAndSupportDeskProofs ------------------
(***************************************************************************)
(* Proofs about AuthSessions for any number of requests, identities, codes *)
(* and sessions, and about SupportDesk for every number of operators,      *)
(* tickets, messages, events and chats. The two specifications are not     *)
(* composed: each theorem is about one of them.                            *)
(*                                                                         *)
(* A login and a refresh commit what they read one step earlier. What they *)
(* may still rely on is in Knows: the rows they have locked are as they    *)
(* were (LocksApart), and an identity that has a user keeps him. On this   *)
(* rests Saw: a refresh still has an active user, and what a blocking or   *)
(* the answer to a reuse has found is still all there is to be ended.      *)
(*                                                                         *)
(* The worker of the desk's outbox marks an event some transactions after  *)
(* it sent the last message of it (WorkerKnows); an operator acts on a     *)
(* page, which is as old as its version (PageKnows); a repeated request    *)
(* finds its record, unless that expired (RecordsKept).                    *)
(***************************************************************************)
EXTENDS AuthSessions, SupportDesk, FiniteSetTheorems, WellFoundedInduction, TLAPS


(* What a request knows between its two steps. *)
Starts(it) ==
    /\ it.purpose \in {"login", "register"}
    /\ it.email \in Emails /\ it.telegram \in Telegrams \cup {None}

Via == {None} \cup {OtpRow(o) : o \in DOMAIN otps} \cup {ChallengeRow(x) : x \in DOMAIN challenges}

UnusedRows(rows) ==
    /\ rows \subseteq Via \cup {TelegramLock(t) : t \in Telegrams}
    /\ \A o \in DOMAIN otps : OtpRow(o) \in rows => ~otps[o].consumed
    /\ \A x \in DOMAIN challenges : ChallengeRow(x) \in rows => ~challenges[x].consumed

HasAddress(it) ==
    \E e \in Emails : e \in it.attach \/ (it.user # None /\ owner[e] = it.user)

Issues(it) ==
    /\ it.via \in Via /\ it.via \in it.rows \cup {None}
    /\ UnusedRows(it.rows)
    /\ it.user \in DOMAIN users \cup {None}
    /\ it.attach \subseteq Identities /\ (it.user = None => it.attach # {})
    /\ it.password \in BOOLEAN /\ (it.password => HasAddress(it))

Rotates(it) ==
    /\ it.session \in DOMAIN sessions /\ Live(it.session)
    /\ SessionRow(it.session) \in it.rows

Replay == [family : DOMAIN sessions, at : DOMAIN sessions]

Revokes(it) == it.user \in DOMAIN users \cup {None} /\ (it.user = None => it.replay \in Replay)

Knows(c) ==
    /\ procs[c].phase = "starting" => Starts(procs[c])
    /\ procs[c].phase = "issuing" => Issues(procs[c])
    /\ procs[c].phase = "rotating" => Rotates(procs[c])
    /\ procs[c].phase = "revoking" => Revokes(procs[c])

RequestsKnow == procs = [c \in Clients |-> procs[c]] /\ \A c \in Clients : Knows(c)

(* No two requests hold the same lock. *)
LocksApart ==
    \A c, d \in Clients : c # d => procs[c].rows \cap procs[d].rows = {}

(* A registration is of an address, a Telegram login of an account. *)
Filled ==
    \A x \in DOMAIN challenges :
        IF challenges[x].kind = "registration" THEN challenges[x].email \in Emails
                                               ELSE challenges[x].telegram \in Telegrams

(* Every user has an identity, one with a password an address. *)
Reachable ==
    /\ \A u \in DOMAIN users : \E i \in Identities : owner[i] = u
    /\ \A u \in passwords : \E e \in Emails : owner[e] = u

(* At most one session of a family is live. *)
OneLive ==
    \A s, r \in DOMAIN sessions :
        Live(s) /\ Live(r) /\ sessions[s].family = sessions[r].family => s = r

(* There is room for the sessions that are about to be issued. *)
Working == {c \in Clients : procs[c].phase \in {"issuing", "rotating"}}
RoomKept == IsFiniteSet(Working) /\ Len(sessions) + Cardinality(Working) <= MaxSessions

IInv ==
    /\ TypeOK /\ CodesWorkOnce /\ Filled /\ Reachable /\ OneLive
    /\ RequestsKnow /\ LocksApart /\ RoomKept

-----------------------------------------------------------------------------
(* Facts about the tables *)

Otp ==
    [email : Emails, purpose : {"login", "register"}, attempts : 0 .. MaxAttempts,
     consumed : BOOLEAN]

Challenge ==
    [kind : {"registration", "telegram_login"}, email : Emails \cup {None},
     telegram : Telegrams \cup {None}, emailVerified : BOOLEAN, confirmed : BOOLEAN,
     consumed : BOOLEAN]

AuthSession ==
    [user : DOMAIN users, family : DOMAIN sessions, status : {"live", "rotated", "revoked"},
     via : Via]

(* The tables are sequences of typed rows.                                 *)
LEMMA Tables ==
    ASSUME TypeOK
    PROVE  /\ users \in Seq({"active", "blocked"}) /\ DOMAIN users = 1 .. Len(users)
           /\ otps \in Seq(Otp) /\ DOMAIN otps = 1 .. Len(otps)
           /\ challenges \in Seq(Challenge) /\ DOMAIN challenges = 1 .. Len(challenges)
           /\ sessions \in Seq(AuthSession) /\ DOMAIN sessions = 1 .. Len(sessions)
           /\ {Len(users), Len(otps), Len(challenges), Len(sessions)} \subseteq Nat
           /\ \A o \in DOMAIN otps : otps[o] \in Otp
           /\ \A x \in DOMAIN challenges : challenges[x] \in Challenge
           /\ \A s \in DOMAIN sessions : sessions[s] \in AuthSession
           /\ None \notin DOMAIN users
  <1>1. /\ users \in Seq({"active", "blocked"}) /\ otps \in Seq(Otp)
        /\ challenges \in Seq(Challenge) /\ sessions \in Seq(AuthSession)
    BY DEF TypeOK, Otp, Challenge, AuthSession, Via
  <1>2. None \notin DOMAIN users
    BY <1>1, NoneAssumption
  <1> HIDE DEF Otp, Challenge, AuthSession
  <1> QED
    BY <1>1, <1>2

(* Codes that are consumed keep everything else ...                        *)
LEMMA OtpsConsumed ==
    ASSUME TypeOK, NEW rows
    PROVE  LET table == Consume(otps, OtpRow, rows)
           IN  /\ table \in Seq(Otp) /\ DOMAIN table = DOMAIN otps /\ Len(table) = Len(otps)
               /\ \A o \in DOMAIN otps :
                    /\ table[o].attempts = otps[o].attempts
                    /\ table[o].consumed <=> otps[o].consumed \/ OtpRow(o) \in rows
                    /\ OtpRow(o) \notin rows => table[o] = otps[o]
  <1> DEFINE table == Consume(otps, OtpRow, rows)
  <1>1. DOMAIN otps = 1 .. Len(otps) /\ Len(otps) \in Nat /\ \A o \in DOMAIN otps : otps[o] \in Otp
    BY Tables
  <1>2. ASSUME NEW o \in DOMAIN otps
        PROVE  /\ table[o] \in Otp
               /\ table[o].attempts = otps[o].attempts
               /\ table[o].consumed <=> otps[o].consumed \/ OtpRow(o) \in rows
               /\ OtpRow(o) \notin rows => table[o] = otps[o]
    <2>1. otps[o] \in Otp
      BY <1>1
    <2>2. CASE OtpRow(o) \in rows
      <3>1. table[o] = [otps[o] EXCEPT !.consumed = TRUE]
        BY <2>2 DEF Consume
      <3> QED
        BY <2>1, <2>2, <3>1 DEF Otp
    <2>3. CASE OtpRow(o) \notin rows
      <3>1. table[o] = otps[o]
        BY <2>3 DEF Consume
      <3> QED
        BY <2>1, <2>3, <3>1 DEF Otp
    <2> QED
      BY <2>2, <2>3
  <1>3. table = [o \in 1 .. Len(otps) |-> table[o]]
    BY <1>1 DEF Consume
  <1> HIDE DEF table
  <1>4. table \in Seq(Otp) /\ DOMAIN table = DOMAIN otps /\ Len(table) = Len(otps)
    BY <1>1, <1>2, <1>3
  <1> QED
    BY <1>2, <1>4 DEF table

(* ... and so do challenges.                                               *)
LEMMA ChallengesConsumed ==
    ASSUME TypeOK, NEW rows
    PROVE  LET table == Consume(challenges, ChallengeRow, rows)
           IN  /\ table \in Seq(Challenge) /\ DOMAIN table = DOMAIN challenges
               /\ Len(table) = Len(challenges)
               /\ \A x \in DOMAIN challenges :
                    /\ table[x].kind = challenges[x].kind /\ table[x].email = challenges[x].email
                    /\ table[x].telegram = challenges[x].telegram
                    /\ table[x].consumed <=> challenges[x].consumed \/ ChallengeRow(x) \in rows
                    /\ ChallengeRow(x) \notin rows => table[x] = challenges[x]
  <1> DEFINE table == Consume(challenges, ChallengeRow, rows)
             n == Len(challenges)
  <1>1. DOMAIN challenges = 1 .. n /\ n \in Nat /\ \A x \in DOMAIN challenges : challenges[x] \in Challenge
    BY Tables
  <1>2. ASSUME NEW x \in DOMAIN challenges
        PROVE  /\ table[x] \in Challenge
               /\ table[x].kind = challenges[x].kind /\ table[x].email = challenges[x].email
               /\ table[x].telegram = challenges[x].telegram
               /\ table[x].consumed <=> challenges[x].consumed \/ ChallengeRow(x) \in rows
               /\ ChallengeRow(x) \notin rows => table[x] = challenges[x]
    <2>1. challenges[x] \in Challenge
      BY <1>1
    <2>2. CASE ChallengeRow(x) \in rows
      <3>1. table[x] = [challenges[x] EXCEPT !.consumed = TRUE]
        BY <2>2 DEF Consume
      <3> QED
        BY <2>1, <2>2, <3>1 DEF Challenge
    <2>3. CASE ChallengeRow(x) \notin rows
      <3>1. table[x] = challenges[x]
        BY <2>3 DEF Consume
      <3> QED
        BY <2>1, <2>3, <3>1 DEF Challenge
    <2> QED
      BY <2>2, <2>3
  <1>3. table = [x \in 1 .. n |-> table[x]]
    BY <1>1 DEF Consume
  <1> HIDE DEF table
  <1>4. table \in Seq(Challenge) /\ DOMAIN table = DOMAIN challenges /\ Len(table) = n
    BY <1>1, <1>2, <1>3
  <1> QED
    BY <1>2, <1>4 DEF table

(* A session that is replaced keeps everything but its status.             *)
LEMMA SessionReplaced ==
    ASSUME TypeOK, NEW s \in DOMAIN sessions
    PROVE  LET table == [sessions EXCEPT ![s].status = "rotated"]
           IN  /\ table \in Seq(AuthSession) /\ DOMAIN table = DOMAIN sessions
               /\ Len(table) = Len(sessions)
               /\ \A r \in DOMAIN sessions :
                    /\ table[r].user = sessions[r].user /\ table[r].family = sessions[r].family
                    /\ table[r].via = sessions[r].via
                    /\ table[r].status = IF r = s THEN "rotated" ELSE sessions[r].status
  <1> DEFINE row == [sessions[s] EXCEPT !.status = "rotated"]
             table == [sessions EXCEPT ![s] = row]
  <1>1. sessions \in Seq(AuthSession) /\ sessions[s] \in AuthSession
    BY Tables
  <1>2. row \in AuthSession /\ row.user = sessions[s].user /\ row.family = sessions[s].family
        /\ row.via = sessions[s].via /\ row.status = "rotated"
    BY <1>1 DEF AuthSession
  <1> HIDE DEF row
  <1>3. table \in Seq(AuthSession) /\ DOMAIN table = DOMAIN sessions /\ Len(table) = Len(sessions)
        /\ \A r \in DOMAIN sessions : table[r] = IF r = s THEN row ELSE sessions[r]
    BY <1>1, <1>2
  <1> HIDE DEF table
  <1>4. table \in Seq(AuthSession) /\ DOMAIN table = DOMAIN sessions
        /\ Len(table) = Len(sessions)
        /\ \A r \in DOMAIN sessions :
             /\ table[r].user = sessions[r].user /\ table[r].family = sessions[r].family
             /\ table[r].via = sessions[r].via
             /\ table[r].status = IF r = s THEN "rotated" ELSE sessions[r].status
    BY <1>2, <1>3
  <1> QED
    BY <1>4 DEF table, row

-----------------------------------------------------------------------------
(* Requests and locks *)

(* Nothing is deleted, and an identity that has a user keeps him. *)
Grown ==
    /\ DOMAIN users \subseteq DOMAIN users' /\ DOMAIN otps \subseteq DOMAIN otps'
    /\ DOMAIN challenges \subseteq DOMAIN challenges' /\ DOMAIN sessions \subseteq DOMAIN sessions'
    /\ \A i \in Identities : owner[i] # None => owner'[i] = owner[i]

(* The step leaves these locked rows as they were. *)
Respects(rows) ==
    /\ \A o \in DOMAIN otps : OtpRow(o) \in rows => otps'[o].consumed = otps[o].consumed
    /\ \A x \in DOMAIN challenges :
         ChallengeRow(x) \in rows => challenges'[x].consumed = challenges[x].consumed
    /\ \A s \in DOMAIN sessions : SessionRow(s) \in rows /\ Live(s) => Live(s)'

(* A request knows after the step of another what it knew before.          *)
LEMMA Carried ==
    ASSUME TypeOK, TypeOK', NEW d \in Clients, Knows(d), procs'[d] = procs[d], Grown,
           Respects(procs[d].rows)
    PROVE  Knows(d)'
  <1> DEFINE it == procs[d]
  <1>1. DOMAIN otps' \subseteq Nat /\ DOMAIN challenges' \subseteq Nat
    BY DEF TypeOK
  <1>2. CASE it.phase = "starting"
    BY <1>2 DEF Knows, Starts
  <1>3. CASE it.phase = "issuing"
    <2>1. Issues(it)
      BY <1>3 DEF Knows
    <2>2. Via \subseteq Via'
      BY DEF Via, Grown, OtpRow, ChallengeRow
    <2>3. it.rows \subseteq Via \cup {TelegramLock(t) : t \in Telegrams} /\ UnusedRows(it.rows)
      BY <2>1 DEF Issues, UnusedRows
    <2>4. ASSUME NEW o \in DOMAIN otps', OtpRow(o) \in it.rows PROVE ~otps'[o].consumed
      <3>1. o \in DOMAIN otps
        BY <1>1, <2>3, <2>4, NoneAssumption DEF Via, OtpRow, ChallengeRow, TelegramLock
      <3> QED
        BY <2>3, <2>4, <3>1 DEF Respects, UnusedRows
    <2>5. ASSUME NEW x \in DOMAIN challenges', ChallengeRow(x) \in it.rows
          PROVE  ~challenges'[x].consumed
      <3>1. x \in DOMAIN challenges
        BY <1>1, <2>3, <2>5, NoneAssumption DEF Via, OtpRow, ChallengeRow, TelegramLock
      <3> QED
        BY <2>3, <2>5, <3>1 DEF Respects, UnusedRows
    <2>6. UnusedRows(it.rows)'
      BY <2>2, <2>3, <2>4, <2>5 DEF UnusedRows, OtpRow, ChallengeRow, TelegramLock
    <2>7. HasAddress(it) => HasAddress(it)'
      BY DEF HasAddress, Grown, Identities
    <2>8. Issues(it)'
      BY <2>1, <2>2, <2>6, <2>7 DEF Issues, Grown
    <2> QED
      BY <1>3, <2>8 DEF Knows
  <1>4. CASE it.phase = "rotating"
    BY <1>4 DEF Knows, Rotates, Respects, Grown, SessionRow
  <1>5. CASE it.phase = "revoking"
    BY <1>5 DEF Knows, Revokes, Replay, Grown
  <1> QED
    BY <1>2, <1>3, <1>4, <1>5 DEF Knows

(* Locks that are free are held by nobody.                                 *)
LEMMA FreeRow ==
    ASSUME NEW x, Free({x})
    PROVE  \A d \in Clients : x \notin procs[d].rows
  BY DEF Free

(* A request that takes locks nobody holds shares none.                    *)
LEMMA StaysApart ==
    ASSUME RequestsKnow, LocksApart, NEW c \in Clients, NEW state,
           Become(c, state), Free(state.rows)
    PROVE  LocksApart'
  <1>1. \A d \in Clients : procs'[d] = IF d = c THEN state ELSE procs[d]
    BY DEF RequestsKnow, Become
  <1> QED
    BY <1>1 DEF LocksApart, Free

(* The first of a request's two steps.                                     *)
LEMMA FirstStep ==
    ASSUME IInv, NEW c \in Clients, NEW state, Ready(c), Become(c, state), Free(state.rows),
           UNCHANGED <<accounts, codes, tokens>>, Knows(c)',
           state.phase \in {"idle", "starting", "issuing", "rotating", "revoking"},
           state.phase \in {"issuing", "rotating"} => Room
    PROVE  IInv'
  <1> USE DEF accounts, codes, tokens
  <1>1. \A d \in Clients : procs'[d] = IF d = c THEN state ELSE procs[d]
    BY DEF IInv, RequestsKnow, Become
  <1>2. TypeOK
    BY DEF IInv
  <1>3. TypeOK'
    <2> HIDE DEF Become
    <2>1. \A d \in Clients : procs'[d].phase \in {"idle", "starting", "issuing", "rotating", "revoking"}
      BY <1>1, <1>2 DEF TypeOK
    <2> QED
      BY <1>2, <2>1 DEF TypeOK
  <1>4. Filled' /\ Reachable' /\ OneLive' /\ CodesWorkOnce'
    BY DEF IInv, Filled, Reachable, OneLive, CodesWorkOnce, Live
  <1>5. RequestsKnow'
    <2>1. \A d \in Clients : Respects(procs[d].rows)
      BY DEF Respects, Live
    <2>2. Grown
      BY DEF Grown
    <2>3. \A d \in Clients \ {c} : Knows(d)'
      BY <1>1, <1>2, <1>3, <2>1, <2>2, Carried DEF IInv, RequestsKnow
    <2>4. procs' = [d \in Clients |-> procs'[d]]
      BY DEF IInv, RequestsKnow, Become
    <2> QED
      BY <2>3, <2>4 DEF RequestsKnow
  <1>6. LocksApart'
    BY StaysApart DEF IInv
  <1>7. RoomKept'
    <2>1. c \notin Working /\ IsFiniteSet(Working) /\ Cardinality(Working) \in Nat
      BY FS_CardinalityType DEF IInv, RoomKept, Working, Ready
    <2>2. Working' = IF state.phase \in {"issuing", "rotating"} THEN Working \cup {c} ELSE Working
      BY <1>1, <2>1 DEF Working
    <2>3. state.phase \in {"issuing", "rotating"} => Len(sessions) + Cardinality(Working) < MaxSessions
      BY DEF Room, Working
    <2>4. IsFiniteSet(Working') /\ Cardinality(Working') =
            IF state.phase \in {"issuing", "rotating"} THEN Cardinality(Working) + 1
                                                       ELSE Cardinality(Working)
      BY <2>1, <2>2, FS_AddElement
    <2>5. Len(sessions) + Cardinality(Working) <= MaxSessions
      BY DEF IInv, RoomKept
    <2>6. Len(sessions) \in Nat /\ MaxSessions \in Nat
      BY <1>2, Tables, BoundsAssumption
    <2>7. Len(sessions') + Cardinality(Working') <= MaxSessions
      BY <2>1, <2>3, <2>4, <2>5, <2>6
    <2> QED
      BY <2>4, <2>7 DEF RoomKept
  <1> QED
    BY <1>3, <1>4, <1>5, <1>6, <1>7 DEF IInv

(* Its second step, or its death.                                          *)
LEMMA LastStep ==
    ASSUME TypeOK, TypeOK', RequestsKnow, LocksApart, RoomKept, NEW c \in Clients, Become(c, Idle),
           Grown, \A d \in Clients \ {c} : Respects(procs[d].rows),
           \/ Len(sessions') = Len(sessions)
           \/ Len(sessions') = Len(sessions) + 1 /\ procs[c].phase \in {"issuing", "rotating"}
    PROVE  RequestsKnow' /\ LocksApart' /\ RoomKept'
  <1>1. \A d \in Clients : procs'[d] = IF d = c THEN Idle ELSE procs[d]
    BY DEF RequestsKnow, Become
  <1>2. Knows(c)'
    BY <1>1 DEF Knows, Idle
  <1>3. \A d \in Clients \ {c} : Knows(d)'
    BY <1>1, Carried DEF RequestsKnow
  <1>4. procs' = [d \in Clients |-> procs'[d]]
    BY DEF RequestsKnow, Become
  <1>5. LocksApart'
    BY <1>1 DEF LocksApart, Idle
  <1>6. RoomKept'
    <2>1. IsFiniteSet(Working) /\ Cardinality(Working) \in Nat
      BY FS_CardinalityType DEF RoomKept
    <2>2. Working' = Working \ {c}
      BY <1>1 DEF Working, Idle
    <2>3. procs[c].phase \in {"issuing", "rotating"} <=> c \in Working
      BY DEF Working
    <2>4. IsFiniteSet(Working') /\ Cardinality(Working') =
            IF c \in Working THEN Cardinality(Working) - 1 ELSE Cardinality(Working)
      BY <2>1, <2>2, FS_RemoveElement
    <2> QED
      BY <2>1, <2>3, <2>4, Tables, BoundsAssumption DEF RoomKept
  <1> QED
    BY <1>2, <1>3, <1>4, <1>5, <1>6 DEF RequestsKnow

(* A step that is no request's.                                            *)
LEMMA NobodysStep ==
    ASSUME TypeOK, TypeOK', RequestsKnow, LocksApart, RoomKept, UNCHANGED procs,
           Grown, \A d \in Clients : Respects(procs[d].rows), Len(sessions') = Len(sessions)
    PROVE  RequestsKnow' /\ LocksApart' /\ RoomKept'
  <1>1. \A d \in Clients : Knows(d)'
    BY Carried DEF RequestsKnow
  <1> QED
    BY <1>1 DEF RequestsKnow, LocksApart, RoomKept, Working

-----------------------------------------------------------------------------
(* Parts of the invariant that many steps keep for the same reason *)

(* A session typed by the smaller tables is typed by the greater ones.     *)
LEMMA SessionsGrow ==
    ASSUME Grown
    PROVE  Via \subseteq Via' /\ AuthSession \subseteq AuthSession'
  <1>1. Via \subseteq Via'
    BY DEF Via, Grown, OtpRow, ChallengeRow
  <1> QED
    BY <1>1 DEF AuthSession, Grown

(* The types, table by table.                                              *)
LEMMA TypeKept ==
    ASSUME TypeOK, RequestsKnow, Grown, replays' \subseteq replays \cup Replay,
           users' \in Seq({"active", "blocked"}),
           owner' \in [Identities -> DOMAIN users' \cup {None}], passwords' \subseteq DOMAIN users',
           otps' \in Seq(Otp), challenges' \in Seq(Challenge), sessions' \in Seq(AuthSession'),
           Len(sessions') <= MaxSessions, Len(otps') <= MaxOtps, Len(challenges') <= MaxChallenges,
           procs' = procs \/ \E c \in Clients : Become(c, Idle)
    PROVE  TypeOK'
  <1>1. \A c \in Clients :
          procs'[c].phase \in {"idle", "starting", "issuing", "rotating", "revoking"}
    <2>1. CASE procs' = procs
      BY <2>1 DEF TypeOK
    <2>2. ASSUME NEW c \in Clients, Become(c, Idle)
          PROVE  \A d \in Clients : procs'[d] = IF d = c THEN Idle ELSE procs[d]
      BY <2>2 DEF RequestsKnow, Become
    <2>3. CASE \E c \in Clients : Become(c, Idle)
      BY <2>2, <2>3 DEF TypeOK, Idle
    <2> QED
      BY <2>1, <2>3
  <1>2. replays' \subseteq Replay'
    <2>1. replays \subseteq Replay
      BY DEF TypeOK, Replay
    <2> QED
      BY <2>1 DEF Replay, Grown
  <1> QED
    BY <1>1, <1>2 DEF TypeOK, Otp, Challenge, AuthSession, Via, Replay

(* Codes and challenges are consumed for ever, and one that lets somebody  *)
(* in is consumed by it.                                                   *)
LEMMA UsedOnce ==
    ASSUME TypeOK, TypeOK', CodesWorkOnce, Grown,
           \A o \in DOMAIN otps : otps[o].consumed => otps'[o].consumed,
           \A x \in DOMAIN challenges : challenges[x].consumed => challenges'[x].consumed,
           \A o \in DOMAIN otps' : otps'[o].attempts >= MaxAttempts => otps'[o].consumed,
           \A s \in DOMAIN sessions : sessions'[s].via = sessions[s].via,
           NEW via,
           \A s, r \in DOMAIN sessions' \ DOMAIN sessions : s = r /\ sessions'[s].via = via,
           \/ via = None
           \/ \E o \in DOMAIN otps : via = OtpRow(o) /\ ~otps[o].consumed /\ otps'[o].consumed
           \/ \E x \in DOMAIN challenges :
                via = ChallengeRow(x) /\ ~challenges[x].consumed /\ challenges'[x].consumed
    PROVE  CodesWorkOnce'
  <1>1. /\ DOMAIN otps \subseteq Nat /\ DOMAIN challenges \subseteq Nat
        /\ DOMAIN otps' \subseteq Nat /\ DOMAIN challenges' \subseteq Nat
    <2>1. DOMAIN otps \subseteq Nat /\ DOMAIN challenges \subseteq Nat
      BY Tables
    <2>2. DOMAIN otps' \subseteq Nat /\ DOMAIN challenges' \subseteq Nat
      BY DEF TypeOK
    <2> QED
      BY <2>1, <2>2
  <1>2. \A o \in Nat : None # OtpRow(o) /\ None # ChallengeRow(o)
    BY NoneAssumption DEF OtpRow, ChallengeRow
  <1>3. ASSUME NEW s \in DOMAIN sessions
        PROVE  /\ sessions[s].via \in Via
               /\ \A o \in DOMAIN otps' :
                    sessions[s].via = OtpRow(o) => o \in DOMAIN otps /\ otps[o].consumed
               /\ \A x \in DOMAIN challenges' :
                    sessions[s].via = ChallengeRow(x) =>
                       x \in DOMAIN challenges /\ challenges[x].consumed
    <2>1. sessions[s].via \in Via
      BY Tables DEF AuthSession
    <2>2. ASSUME NEW o \in DOMAIN otps', sessions[s].via = OtpRow(o)
          PROVE  o \in DOMAIN otps /\ otps[o].consumed
      <3>1. o \in DOMAIN otps
        BY <1>1, <1>2, <2>1, <2>2 DEF Via, OtpRow, ChallengeRow
      <3> QED
        BY <2>2, <3>1 DEF CodesWorkOnce
    <2>3. ASSUME NEW x \in DOMAIN challenges', sessions[s].via = ChallengeRow(x)
          PROVE  x \in DOMAIN challenges /\ challenges[x].consumed
      <3>1. x \in DOMAIN challenges
        BY <1>1, <1>2, <2>1, <2>3 DEF Via, OtpRow, ChallengeRow
      <3> QED
        BY <2>3, <3>1 DEF CodesWorkOnce
    <2> QED
      BY <2>1, <2>2, <2>3
  <1>4. ASSUME NEW s \in DOMAIN sessions', NEW r \in DOMAIN sessions',
               sessions'[s].via = sessions'[r].via, s # r
        PROVE  sessions'[s].via = None
    <2>1. CASE s \in DOMAIN sessions /\ r \in DOMAIN sessions
      BY <1>4, <2>1 DEF CodesWorkOnce
    <2>2. CASE s \in DOMAIN sessions /\ r \notin DOMAIN sessions
      BY <1>1, <1>3, <1>4, <2>2 DEF Grown
    <2>3. CASE s \notin DOMAIN sessions /\ r \in DOMAIN sessions
      BY <1>1, <1>3, <1>4, <2>3 DEF Grown
    <2>4. CASE s \notin DOMAIN sessions /\ r \notin DOMAIN sessions
      BY <1>4, <2>4
    <2> QED
      BY <2>1, <2>2, <2>3, <2>4
  <1>5. ASSUME NEW s \in DOMAIN sessions', NEW o \in DOMAIN otps', sessions'[s].via = OtpRow(o)
        PROVE  otps'[o].consumed
    <2>1. CASE s \in DOMAIN sessions
      BY <1>3, <1>5, <2>1
    <2>2. CASE s \notin DOMAIN sessions
      <3>1. via = OtpRow(o) /\ via # None
        BY <1>1, <1>2, <1>5, <2>2
      <3> QED
        BY <3>1 DEF OtpRow, ChallengeRow
    <2> QED
      BY <2>1, <2>2
  <1>6. ASSUME NEW s \in DOMAIN sessions', NEW x \in DOMAIN challenges',
               sessions'[s].via = ChallengeRow(x)
        PROVE  challenges'[x].consumed
    <2>1. CASE s \in DOMAIN sessions
      BY <1>3, <1>6, <2>1
    <2>2. CASE s \notin DOMAIN sessions
      <3>1. via = ChallengeRow(x) /\ via # None
        BY <1>1, <1>2, <1>6, <2>2
      <3> QED
        BY <3>1 DEF OtpRow, ChallengeRow
    <2> QED
      BY <2>1, <2>2
  <1> QED
    BY <1>4, <1>5, <1>6 DEF CodesWorkOnce

-----------------------------------------------------------------------------
(* Logging in *)

(* A login that has found what it needs.                                   *)
LEMMA IssueStep ==
    ASSUME IInv, NEW c \in Clients, NEW via \in Via, NEW rows, via \in rows \cup {None},
           UnusedRows(rows), NEW user \in DOMAIN users \cup {None},
           NEW attach \in SUBSET Identities, NEW password \in BOOLEAN,
           user = None => \E i \in attach : owner[i] = None,
           password => \E e \in Emails : \/ e \in attach /\ owner[e] = None
                                         \/ user # None /\ owner[e] = user,
           Issue(c, via, rows, user, attach, password)
    PROVE  IInv'
  <1> DEFINE new == {i \in attach : owner[i] = None}
             state == [phase |-> "issuing", rows |-> rows, via |-> via, user |-> user,
                       attach |-> new, password |-> password]
  <1>1. /\ Ready(c) /\ Room /\ Free(rows) /\ Become(c, state)
        /\ UNCHANGED <<accounts, codes, tokens>>
    BY DEF Issue
  <1>2. procs'[c] = state
    BY <1>1 DEF Become, IInv, RequestsKnow
  <1>3. new \subseteq Identities /\ (user = None => new # {})
    OBVIOUS
  <1>4. password => \E e \in Emails : e \in new \/ (user # None /\ owner[e] = user)
    OBVIOUS
  <1> HIDE DEF new
  <1>5. /\ state.phase = "issuing" /\ state.rows = rows /\ state.via = via /\ state.user = user
        /\ state.attach = new /\ state.password = password
    OBVIOUS
  <1> HIDE DEF state
  <1>6. Issues(procs'[c])
    BY <1>2, <1>3, <1>4, <1>5 DEF Issues, HasAddress
  <1>7. Issues(procs[c])'
    <2>1. UNCHANGED <<users, owner, otps, challenges>>
      BY <1>1 DEF accounts, codes
    <2>2. Via' = Via /\ UnusedRows(rows)'
      BY <2>1 DEF UnusedRows, Via
    <2>3. HasAddress(procs'[c]) => HasAddress(procs[c])'
      BY <2>1 DEF HasAddress
    <2> QED
      BY <1>2, <1>5, <1>6, <2>1, <2>2, <2>3 DEF Issues
  <1>8. Knows(c)' /\ state.phase \in {"issuing"}
    BY <1>2, <1>5, <1>7 DEF Knows
  <1> QED
    BY <1>1, <1>5, <1>8, FirstStep

(* _finalize_registration, for the rows it has locked.                     *)
LEMMA FinalizeStep ==
    ASSUME IInv, NEW c \in Clients, NEW x \in DOMAIN challenges, NEW rows, UnusedRows(rows),
           x \in OpenRegistrations(challenges[x].email), Finalize(c, x, rows)
    PROVE  IInv'
  <1> DEFINE e == challenges[x].email
             t == challenges[x].telegram
             tu == IF t = None THEN None ELSE owner[t]
             user == IF owner[e] # None THEN owner[e] ELSE tu
  <1>1. Issue(c, ChallengeRow(x), rows \cup {ChallengeRow(x)}, user, {e, t} \ {None}, TRUE)
    BY DEF Finalize
  <1>2. e \in Emails /\ t \in Telegrams \cup {None} /\ ~challenges[x].consumed
    <2>1. challenges[x] \in Challenge
      BY Tables DEF IInv
    <2> QED
      BY <2>1 DEF Challenge, IInv, Filled, OpenRegistrations
  <1>3. e # None /\ e \in Identities /\ {e, t} \ {None} \in SUBSET Identities
    BY <1>2, NoneAssumption DEF Identities
  <1>4. user \in DOMAIN users \cup {None}
    BY <1>2 DEF IInv, TypeOK, Identities
  <1>5. user = None => owner[e] = None
    OBVIOUS
  <1>6. owner[e] # None => user = owner[e]
    OBVIOUS
  <1>7. ChallengeRow(x) \in Via /\ UnusedRows(rows \cup {ChallengeRow(x)})
    BY <1>2 DEF Via, UnusedRows, OtpRow, ChallengeRow
  <1> HIDE DEF e, t, user
  <1>8. \E i \in {e} : \/ i \in {e, t} \ {None} /\ owner[i] = None
                       \/ user # None /\ owner[i] = user
    <2>1. CASE owner[e] = None
      <3>1. e \in {e, t} \ {None}
        BY <1>3
      <3> QED
        BY <2>1, <3>1
    <2>2. CASE owner[e] # None
      BY <1>6, <2>2
    <2> QED
      BY <2>1, <2>2
  <1>9. \E i \in Emails : \/ i \in {e, t} \ {None} /\ owner[i] = None
                          \/ user # None /\ owner[i] = user
    BY <1>2, <1>8
  <1>10. user = None => \E i \in {e, t} \ {None} : owner[i] = None
    BY <1>3, <1>5
  <1>11. ChallengeRow(x) \in (rows \cup {ChallengeRow(x)}) \cup {None}
    OBVIOUS
  <1> QED
    BY <1>1, <1>3, <1>4, <1>7, <1>9, <1>10, <1>11, IssueStep

-----------------------------------------------------------------------------
(* Codes and challenges *)

(* A function on 1 .. n is a table of n rows.                              *)
LEMMA IsTable ==
    ASSUME NEW S, NEW n \in Nat, NEW f, f = [i \in 1 .. n |-> f[i]], \A i \in 1 .. n : f[i] \in S
    PROVE  f \in Seq(S) /\ Len(f) = n
  OBVIOUS

(* What Append does to a table.                                            *)
LEMMA Appended ==
    ASSUME NEW S, NEW t \in Seq(S), NEW x \in S, NEW u, u = Append(t, x)
    PROVE  /\ u \in Seq(S) /\ Len(t) \in Nat /\ Len(u) = Len(t) + 1
           /\ DOMAIN t = 1 .. Len(t) /\ DOMAIN u = 1 .. Len(t) + 1
           /\ u[Len(t) + 1] = x /\ \A i \in 1 .. Len(t) : u[i] = t[i]
  OBVIOUS

(* The codes and registrations somebody has locked are consumed, a code    *)
(* and perhaps a registration are new.                                     *)
LEMMA CommitStartStep ==
    ASSUME IInv, NEW c \in Clients, NEW delivered \in BOOLEAN, CommitStart(c, delivered)
    PROVE  IInv'
  <1> USE DEF IInv
  <1> DEFINE it == procs[c]
             n == Len(otps)
             k == Len(challenges)
             registers == it.purpose = "register"
             codesNow == Consume(otps, OtpRow, it.rows)
             registrationsNow == Consume(challenges, ChallengeRow, it.rows)
             code == [email |-> it.email, purpose |-> it.purpose, attempts |-> 0,
                      consumed |-> ~delivered]
             registration ==
                 [kind |-> "registration", email |-> it.email, telegram |-> it.telegram,
                  emailVerified |-> FALSE, confirmed |-> FALSE, consumed |-> ~delivered]
  <1>1. /\ it.phase = "starting" /\ n < MaxOtps /\ (registers => k < MaxChallenges)
        /\ otps' = Append(codesNow, code)
        /\ challenges' = IF registers THEN Append(registrationsNow, registration) ELSE challenges
        /\ Become(c, Idle)
        /\ UNCHANGED <<users, owner, passwords, sessions, replays>>
    BY DEF CommitStart, accounts, tokens
  <1>2. Starts(it)
    BY <1>1 DEF RequestsKnow, Knows
  <1>3. /\ MaxAttempts \in Nat /\ MaxAttempts > 0 /\ MaxOtps \in Nat /\ MaxChallenges \in Nat
    BY BoundsAssumption
  <1>4. code \in Otp /\ code.attempts = 0
    BY <1>2, <1>3 DEF Otp, Starts
  <1>5. registration \in Challenge /\ registration.kind = "registration"
        /\ registration.email \in Emails
    BY <1>2 DEF Challenge, Starts
  <1>6. /\ codesNow \in Seq(Otp) /\ Len(codesNow) = n
        /\ \A o \in DOMAIN otps :
             /\ codesNow[o].attempts = otps[o].attempts
             /\ codesNow[o].consumed <=> otps[o].consumed \/ OtpRow(o) \in it.rows
             /\ OtpRow(o) \notin it.rows => codesNow[o] = otps[o]
    BY OtpsConsumed
  <1>7. /\ registrationsNow \in Seq(Challenge) /\ Len(registrationsNow) = k
        /\ \A x \in DOMAIN challenges :
             /\ registrationsNow[x].kind = challenges[x].kind
             /\ registrationsNow[x].email = challenges[x].email
             /\ registrationsNow[x].telegram = challenges[x].telegram
             /\ registrationsNow[x].consumed <=>
                  challenges[x].consumed \/ ChallengeRow(x) \in it.rows
             /\ ChallengeRow(x) \notin it.rows => registrationsNow[x] = challenges[x]
    BY ChallengesConsumed
  <1>8. /\ n \in Nat /\ DOMAIN otps = 1 .. n /\ k \in Nat /\ DOMAIN challenges = 1 .. k
        /\ challenges \in Seq(Challenge) /\ k <= MaxChallenges
        /\ \A o \in 1 .. n : otps[o] \in Otp
        /\ \A x \in 1 .. k : challenges[x] \in Challenge
    BY Tables DEF TypeOK
  <1> HIDE DEF code, registration, codesNow, registrationsNow
  <1>9. /\ otps' \in Seq(Otp) /\ Len(otps') <= MaxOtps /\ DOMAIN otps' = 1 .. n + 1
        /\ otps'[n + 1] = code /\ \A o \in 1 .. n : otps'[o] = codesNow[o]
    BY <1>1, <1>3, <1>4, <1>6, <1>8, Appended
  <1>10. /\ challenges' \in Seq(Challenge) /\ Len(challenges') <= MaxChallenges
         /\ DOMAIN challenges \subseteq DOMAIN challenges'
         /\ \A x \in DOMAIN challenges' \ DOMAIN challenges : challenges'[x] = registration
         /\ \A x \in DOMAIN challenges : challenges'[x] \in {challenges[x], registrationsNow[x]}
    <2>1. CASE registers
      <3>1. challenges' = Append(registrationsNow, registration)
        BY <1>1, <2>1
      <3>2. /\ challenges' \in Seq(Challenge) /\ Len(challenges') = k + 1
            /\ DOMAIN challenges' = 1 .. k + 1
            /\ challenges'[k + 1] = registration
            /\ \A x \in 1 .. k : challenges'[x] = registrationsNow[x]
        BY <1>5, <1>7, <3>1, Appended
      <3> QED
        BY <1>1, <1>3, <1>8, <2>1, <3>2
    <2>2. CASE ~registers
      BY <1>1, <1>8, <2>2
    <2> QED
      BY <2>1, <2>2
  <1>11. Grown
    BY <1>1, <1>8, <1>9, <1>10 DEF Grown
  <1>12. TypeOK'
    <2>1. sessions' \in Seq(AuthSession')
      BY <1>1, <1>11, Tables, SessionsGrow
    <2>2. /\ users' \in Seq({"active", "blocked"})
          /\ owner' \in [Identities -> DOMAIN users' \cup {None}]
          /\ passwords' \subseteq DOMAIN users' /\ Len(sessions') <= MaxSessions
      BY <1>1 DEF TypeOK
    <2> QED
      BY <1>1, <1>9, <1>10, <1>11, <2>1, <2>2, TypeKept
  <1>13. Filled'
    <2>1. ASSUME NEW x \in DOMAIN challenges'
          PROVE  IF challenges'[x].kind = "registration" THEN challenges'[x].email \in Emails
                                                         ELSE challenges'[x].telegram \in Telegrams
      <3>1. CASE x \in DOMAIN challenges
        BY <1>7, <1>10, <3>1 DEF Filled
      <3>2. CASE x \notin DOMAIN challenges
        BY <1>5, <1>10, <3>2
      <3> QED
        BY <3>1, <3>2
    <2> QED
      BY <2>1 DEF Filled
  <1>14. Reachable' /\ OneLive'
    BY <1>1 DEF Reachable, OneLive, Live
  <1>15. CodesWorkOnce'
    <2>1. \A o \in DOMAIN otps : otps[o].consumed => otps'[o].consumed
      BY <1>6, <1>8, <1>9
    <2>2. \A x \in DOMAIN challenges : challenges[x].consumed => challenges'[x].consumed
      BY <1>7, <1>10
    <2>3. \A o \in DOMAIN otps' : otps'[o].attempts >= MaxAttempts => otps'[o].consumed
      <3>1. \A o \in 1 .. n : otps'[o].attempts >= MaxAttempts => otps'[o].consumed
        BY <1>6, <1>8, <1>9 DEF CodesWorkOnce
      <3>2. ~(otps'[n + 1].attempts >= MaxAttempts)
        BY <1>3, <1>4, <1>9
      <3> QED
        BY <1>8, <1>9, <3>1, <3>2
    <2> QED
      BY <1>1, <1>11, <1>12, <2>1, <2>2, <2>3, UsedOnce
  <1>16. ASSUME NEW d \in Clients \ {c} PROVE Respects(procs[d].rows)
    <2>1. procs[d].rows \cap it.rows = {}
      BY DEF LocksApart
    <2>2. ASSUME NEW o \in DOMAIN otps, OtpRow(o) \in procs[d].rows
          PROVE  otps'[o].consumed = otps[o].consumed
      <3>1. codesNow[o] = otps[o]
        BY <1>6, <2>1, <2>2
      <3> QED
        BY <1>8, <1>9, <3>1
    <2>3. ASSUME NEW x \in DOMAIN challenges, ChallengeRow(x) \in procs[d].rows
          PROVE  challenges'[x].consumed = challenges[x].consumed
      <3>1. registrationsNow[x] = challenges[x]
        BY <1>7, <2>1, <2>3
      <3> QED
        BY <1>10, <3>1
    <2> QED
      BY <1>1, <2>2, <2>3 DEF Respects, Live
  <1>17. RequestsKnow' /\ LocksApart' /\ RoomKept'
    BY <1>1, <1>11, <1>12, <1>16, LastStep
  <1> QED
    BY <1>12, <1>13, <1>14, <1>15, <1>17

(* A step that only changes codes and challenges, and of the codes none    *)
(* that a request has locked.                                              *)
LEMMA CodesStep ==
    ASSUME IInv, UNCHANGED <<accounts, tokens, procs>>,
           otps' \in Seq(Otp), Len(otps') = Len(otps),
           challenges' \in Seq(Challenge), Len(challenges) <= Len(challenges'),
           Len(challenges') <= MaxChallenges,
           \A o \in DOMAIN otps :
              /\ otps[o].consumed => otps'[o].consumed
              /\ otps'[o].attempts >= MaxAttempts => otps'[o].consumed
              /\ otps'[o] = otps[o] \/ \A d \in Clients : OtpRow(o) \notin procs[d].rows,
           \A x \in DOMAIN challenges : challenges'[x].consumed = challenges[x].consumed,
           Filled'
    PROVE  IInv'
  <1> USE DEF IInv
  <1>1. DOMAIN otps' = DOMAIN otps /\ DOMAIN challenges \subseteq DOMAIN challenges'
    <2>1. /\ DOMAIN otps = 1 .. Len(otps) /\ DOMAIN challenges = 1 .. Len(challenges)
          /\ Len(challenges) \in Nat
      BY Tables
    <2>2. /\ DOMAIN otps' = 1 .. Len(otps') /\ DOMAIN challenges' = 1 .. Len(challenges')
          /\ Len(challenges') \in Nat
      OBVIOUS
    <2> QED
      BY <2>1, <2>2
  <1>2. UNCHANGED <<users, owner, passwords, sessions, replays, procs>>
    BY DEF accounts, tokens
  <1>3. Grown
    BY <1>1, <1>2 DEF Grown
  <1>4. TypeOK'
    <2>1. sessions' \in Seq(AuthSession')
      BY <1>2, <1>3, Tables, SessionsGrow
    <2>2. /\ users' \in Seq({"active", "blocked"})
          /\ owner' \in [Identities -> DOMAIN users' \cup {None}]
          /\ passwords' \subseteq DOMAIN users'
          /\ Len(sessions') <= MaxSessions /\ Len(otps') <= MaxOtps
      BY <1>2 DEF TypeOK
    <2> QED
      BY <1>2, <1>3, <2>1, <2>2, TypeKept
  <1>5. Reachable' /\ OneLive'
    BY <1>2 DEF Reachable, OneLive, Live
  <1>6. CodesWorkOnce'
    BY <1>1, <1>2, <1>3, <1>4, UsedOnce
  <1>7. \A d \in Clients : Respects(procs[d].rows)
    BY <1>2 DEF Respects, Live
  <1>8. RequestsKnow' /\ LocksApart' /\ RoomKept'
    BY <1>2, <1>3, <1>4, <1>7, NobodysStep
  <1> QED
    BY <1>4, <1>5, <1>6, <1>8

(* An expired or wrong code.                                               *)
LEMMA RefuseCodeStep ==
    ASSUME IInv, NEW e \in Emails, NEW purpose \in {"login", "register"}, RefuseCode(e, purpose)
    PROVE  IInv'
  <1>1. PICK o \in DOMAIN otps :
          /\ LatestOtp(e, purpose, o) /\ Free({OtpRow(o)})
          /\ \/ otps' = [otps EXCEPT ![o].consumed = TRUE]
             \/ otps' = [otps EXCEPT ![o].attempts = @ + 1,
                                     ![o].consumed = otps[o].attempts + 1 >= MaxAttempts]
    BY DEF RefuseCode
  <1>2. UNCHANGED <<accounts, challenges, tokens, procs>>
    BY DEF RefuseCode
  <1>3. ~otps[o].consumed
    BY <1>1 DEF LatestOtp, OpenOtps
  <1>4. otps \in Seq(Otp) /\ otps[o] \in Otp /\ challenges \in Seq(Challenge)
        /\ Len(challenges) \in Nat
    BY Tables DEF IInv
  <1>5. otps[o].attempts \in Nat /\ otps[o].attempts < MaxAttempts /\ MaxAttempts \in Nat
    BY <1>3, <1>4, BoundsAssumption DEF Otp, IInv, CodesWorkOnce
  <1> DEFINE refused == otps'[o]
  <1>6. /\ refused \in Otp /\ (refused.attempts >= MaxAttempts => refused.consumed)
        /\ otps' = [otps EXCEPT ![o] = refused]
    <2>1. CASE otps' = [otps EXCEPT ![o].consumed = TRUE]
      <3> DEFINE row == [otps[o] EXCEPT !.consumed = TRUE]
      <3>1. otps' = [otps EXCEPT ![o] = row]
        BY <2>1
      <3>2. row \in Otp /\ row.consumed
        BY <1>4 DEF Otp
      <3> HIDE DEF row
      <3> QED
        BY <1>4, <3>1, <3>2
    <2>2. CASE otps' = [otps EXCEPT ![o].attempts = @ + 1,
                                    ![o].consumed = otps[o].attempts + 1 >= MaxAttempts]
      <3> DEFINE guesses == otps[o].attempts + 1
                 dead == guesses >= MaxAttempts
                 row == [otps[o] EXCEPT !.attempts = guesses, !.consumed = dead]
      <3>1. otps' = [otps EXCEPT ![o] = row]
        BY <2>2
      <3>2. guesses \in 0 .. MaxAttempts /\ dead \in BOOLEAN /\ (guesses >= MaxAttempts => dead)
        BY <1>5
      <3> HIDE DEF guesses, dead
      <3>3. row \in Otp /\ (row.attempts >= MaxAttempts => row.consumed)
        BY <1>4, <3>2 DEF Otp
      <3> HIDE DEF row
      <3>4. refused = row
        BY <1>4, <3>1
      <3> HIDE DEF refused
      <3> QED
        BY <3>1, <3>3, <3>4
    <2> QED
      BY <1>1, <2>1, <2>2
  <1> HIDE DEF refused
  <1>7. otps' \in Seq(Otp) /\ Len(otps') = Len(otps)
    BY <1>4, <1>6
  <1>8. \A p \in DOMAIN otps :
          /\ otps[p].consumed => otps'[p].consumed
          /\ otps'[p].attempts >= MaxAttempts => otps'[p].consumed
          /\ otps'[p] = otps[p] \/ \A d \in Clients : OtpRow(p) \notin procs[d].rows
    BY <1>1, <1>3, <1>4, <1>6, FreeRow DEF IInv, CodesWorkOnce
  <1>9. Filled' /\ Len(challenges') <= MaxChallenges
    BY <1>2 DEF IInv, Filled, TypeOK
  <1> QED
    BY <1>2, <1>4, <1>7, <1>8, <1>9, CodesStep

(* A Telegram login is asked for.                                          *)
LEMMA StartTelegramStep ==
    ASSUME IInv, NEW t \in Telegrams, StartTelegramLogin(t)
    PROVE  IInv'
  <1> DEFINE new == [kind |-> "telegram_login", email |-> None, telegram |-> t,
                     emailVerified |-> FALSE, confirmed |-> FALSE, consumed |-> FALSE]
  <1>1. /\ Len(challenges) < MaxChallenges /\ challenges' = Append(challenges, new)
        /\ UNCHANGED <<accounts, otps, tokens, procs>>
    BY DEF StartTelegramLogin
  <1>2. new \in Challenge /\ new.telegram \in Telegrams /\ new.kind # "registration"
    BY DEF Challenge
  <1>3. /\ otps \in Seq(Otp) /\ challenges \in Seq(Challenge) /\ MaxChallenges \in Nat
    BY Tables, BoundsAssumption DEF IInv
  <1> HIDE DEF new
  <1>4. /\ challenges' \in Seq(Challenge) /\ Len(challenges') = Len(challenges) + 1
        /\ Len(challenges) \in Nat
        /\ DOMAIN challenges = 1 .. Len(challenges) /\ DOMAIN challenges' = 1 .. Len(challenges) + 1
        /\ challenges'[Len(challenges) + 1] = new
        /\ \A x \in 1 .. Len(challenges) : challenges'[x] = challenges[x]
    BY <1>1, <1>2, <1>3, Appended
  <1>5. Filled'
    BY <1>2, <1>4 DEF IInv, Filled
  <1>6. Len(challenges') <= MaxChallenges /\ Len(challenges) <= Len(challenges')
    BY <1>1, <1>3, <1>4
  <1>7. \A x \in DOMAIN challenges : challenges'[x].consumed = challenges[x].consumed
    BY <1>4
  <1>8. \A o \in DOMAIN otps :
          /\ otps[o].consumed => otps'[o].consumed
          /\ otps'[o].attempts >= MaxAttempts => otps'[o].consumed
          /\ otps'[o] = otps[o]
    BY <1>1 DEF IInv, CodesWorkOnce
  <1> QED
    BY <1>1, <1>3, <1>4, <1>5, <1>6, <1>7, <1>8, CodesStep

(* A challenge is confirmed, by a link in the bot or a link in a mail.     *)
LEMMA ConfirmStep ==
    ASSUME IInv, NEW x \in DOMAIN challenges, NEW row \in Challenge,
           row.kind = challenges[x].kind, row.email = challenges[x].email,
           row.telegram = challenges[x].telegram, row.consumed = challenges[x].consumed,
           challenges' = [challenges EXCEPT ![x] = row], UNCHANGED <<accounts, tokens, procs>>,
           otps' \in Seq(Otp), Len(otps') = Len(otps),
           \A o \in DOMAIN otps :
              /\ otps[o].consumed => otps'[o].consumed
              /\ otps'[o].attempts >= MaxAttempts => otps'[o].consumed
              /\ otps'[o] = otps[o] \/ \A d \in Clients : OtpRow(o) \notin procs[d].rows
    PROVE  IInv'
  <1>1. challenges \in Seq(Challenge) /\ Len(challenges) \in Nat /\ Len(challenges) <= MaxChallenges
    BY Tables DEF IInv, TypeOK
  <1>2. /\ challenges' \in Seq(Challenge) /\ Len(challenges') = Len(challenges)
        /\ DOMAIN challenges' = DOMAIN challenges
        /\ \A y \in DOMAIN challenges : challenges'[y] = IF y = x THEN row ELSE challenges[y]
    BY <1>1
  <1>3. Filled'
    BY <1>2 DEF IInv, Filled
  <1>4. \A y \in DOMAIN challenges : challenges'[y].consumed = challenges[y].consumed
    BY <1>2
  <1> QED
    BY <1>1, <1>2, <1>3, <1>4, CodesStep

-----------------------------------------------------------------------------
(* Sessions *)

(* Whoever is about to issue a session has room for it.                    *)
LEMMA RoomLeft ==
    ASSUME TypeOK, RoomKept, NEW c \in Clients, procs[c].phase \in {"issuing", "rotating"}
    PROVE  Len(sessions) + 1 <= MaxSessions
  <1>1. c \in Working /\ IsFiniteSet(Working)
    BY DEF Working, RoomKept
  <1>2. Cardinality(Working) \in Nat /\ Cardinality(Working) # 0
    BY <1>1, FS_CardinalityType, FS_EmptySet
  <1>3. Len(sessions) \in Nat /\ MaxSessions \in Nat
    BY Tables, BoundsAssumption
  <1> QED
    BY <1>2, <1>3 DEF RoomKept

(* A login commits: the rows it has locked are used up, its user is made   *)
(* if need be, the identities nobody had become his.                       *)
LEMMA IssueLoginStep ==
    ASSUME IInv, NEW c \in Clients, IssueLogin(c)
    PROVE  IInv'
  <1> USE DEF IInv
  <1> DEFINE it == procs[c]
             n == Len(sessions)
             used == it.rows \cup {it.via}
             u == IF it.user = None THEN Len(users) + 1 ELSE it.user
             codesNow == Consume(otps, OtpRow, used)
             challengesNow == Consume(challenges, ChallengeRow, used)
             new == NewSession(u, n + 1, it.via)
  <1>1. it.phase = "issuing" /\ Become(c, Idle) /\ Issues(it)
    BY DEF IssueLogin, RequestsKnow, Knows
  <1>2. CASE Taken(it)
    <2>1. UNCHANGED <<users, owner, passwords, otps, challenges, sessions, replays>>
      BY <1>2 DEF IssueLogin, accounts, codes, tokens
    <2>2. Grown /\ \A d \in Clients : Respects(procs[d].rows)
      BY <2>1 DEF Grown, Respects, Live
    <2>3. TypeOK'
      <3>1. /\ users' \in Seq({"active", "blocked"})
            /\ owner' \in [Identities -> DOMAIN users' \cup {None}]
            /\ passwords' \subseteq DOMAIN users' /\ Len(sessions') <= MaxSessions
            /\ Len(otps') <= MaxOtps /\ Len(challenges') <= MaxChallenges
        BY <2>1 DEF TypeOK
      <3>2. otps' \in Seq(Otp) /\ challenges' \in Seq(Challenge) /\ sessions' \in Seq(AuthSession')
        BY <2>1, <2>2, Tables, SessionsGrow
      <3> QED
        BY <1>1, <2>1, <2>2, <3>1, <3>2, TypeKept
    <2>4. Filled' /\ Reachable' /\ OneLive' /\ CodesWorkOnce'
      BY <2>1 DEF Filled, Reachable, OneLive, CodesWorkOnce, Live
    <2>5. RequestsKnow' /\ LocksApart' /\ RoomKept'
      BY <1>1, <2>1, <2>2, <2>3, LastStep
    <2> QED
      BY <2>3, <2>4, <2>5
  <1>3. CASE ~Taken(it)
    <2>1. /\ users' = IF it.user = None THEN Append(users, "active") ELSE users
          /\ owner' = Attached(it, u)
          /\ passwords' = IF it.password THEN passwords \cup {u} ELSE passwords
          /\ otps' = codesNow /\ challenges' = challengesNow
          /\ sessions' = Append(sessions, new) /\ UNCHANGED replays
      BY <1>3 DEF IssueLogin
    <2>2. /\ it.user \in DOMAIN users \cup {None} /\ it.attach \subseteq Identities
          /\ (it.user = None => it.attach # {}) /\ (it.password => HasAddress(it))
          /\ it.via \in Via /\ it.via \in it.rows \cup {None} /\ UnusedRows(it.rows)
      BY <1>1 DEF Issues
    <2>3. /\ users \in Seq({"active", "blocked"}) /\ Len(users) \in Nat
          /\ DOMAIN users = 1 .. Len(users) /\ None \notin DOMAIN users
          /\ sessions \in Seq(AuthSession) /\ n \in Nat /\ DOMAIN sessions = 1 .. n
          /\ DOMAIN otps \subseteq Nat /\ DOMAIN challenges \subseteq Nat
          /\ \A s \in DOMAIN sessions : sessions[s] \in AuthSession
      BY Tables
    <2>4. /\ users' \in Seq({"active", "blocked"}) /\ DOMAIN users' = DOMAIN users \cup {u}
          /\ u \in Nat /\ (it.user # None => u \in DOMAIN users)
      <3>1. CASE it.user = None
        <4>1. users' = Append(users, "active") /\ u = Len(users) + 1
          BY <2>1, <3>1
        <4> HIDE DEF u
        <4>2. users' \in Seq({"active", "blocked"}) /\ DOMAIN users' = 1 .. Len(users) + 1
          BY <2>3, <4>1, Appended
        <4> QED
          BY <2>3, <3>1, <4>1, <4>2
      <3>2. CASE it.user # None
        BY <2>1, <2>2, <2>3, <3>2
      <3> QED
        BY <3>1, <3>2
    <2>5. u # None
      BY <2>4, NoneAssumption
    <2>6. \A i \in it.attach : owner[i] = None
      BY <1>3 DEF Taken
    <2>7. \A i \in Identities : owner'[i] = IF i \in it.attach THEN u ELSE owner[i]
      BY <2>1 DEF Attached
    <2>8. owner' \in [Identities -> DOMAIN users' \cup {None}]
      <3>1. \A i \in Identities : owner[i] \in DOMAIN users \cup {None}
        BY DEF TypeOK
      <3> HIDE DEF u
      <3> QED
        BY <2>1, <2>4, <3>1 DEF Attached
    <2>9. /\ codesNow \in Seq(Otp) /\ DOMAIN codesNow = DOMAIN otps /\ Len(codesNow) = Len(otps)
          /\ \A o \in DOMAIN otps :
               /\ codesNow[o].attempts = otps[o].attempts
               /\ codesNow[o].consumed <=> otps[o].consumed \/ OtpRow(o) \in used
               /\ OtpRow(o) \notin used => codesNow[o] = otps[o]
      BY OtpsConsumed
    <2>10. /\ challengesNow \in Seq(Challenge) /\ DOMAIN challengesNow = DOMAIN challenges
           /\ Len(challengesNow) = Len(challenges)
           /\ \A x \in DOMAIN challenges :
                /\ challengesNow[x].kind = challenges[x].kind
                /\ challengesNow[x].email = challenges[x].email
                /\ challengesNow[x].telegram = challenges[x].telegram
                /\ challengesNow[x].consumed <=>
                     challenges[x].consumed \/ ChallengeRow(x) \in used
                /\ ChallengeRow(x) \notin used => challengesNow[x] = challenges[x]
      BY ChallengesConsumed
    <2>11. \A k \in Nat : None # OtpRow(k) /\ None # ChallengeRow(k)
      BY NoneAssumption DEF OtpRow, ChallengeRow
    <2> HIDE DEF codesNow, challengesNow, u, new
    <2>12. \A i \in Identities : owner[i] # None => owner'[i] = owner[i]
      BY <2>6, <2>7
    <2>13. new = [user |-> u, family |-> n + 1, status |-> "live", via |-> it.via]
      BY DEF new, NewSession
    <2>14. /\ Len(sessions') = n + 1 /\ DOMAIN sessions' = 1 .. n + 1
           /\ sessions'[n + 1] = new /\ \A s \in 1 .. n : sessions'[s] = sessions[s]
      BY <2>1, <2>3
    <2>15. Grown
      BY <2>1, <2>3, <2>4, <2>9, <2>10, <2>12, <2>14 DEF Grown
    <2>16. sessions' \in Seq(AuthSession')
      <3>1. new \in AuthSession'
        BY <2>2, <2>3, <2>4, <2>13, <2>14, <2>15, SessionsGrow DEF AuthSession
      <3>2. sessions \in Seq(AuthSession')
        BY <2>3, <2>15, SessionsGrow
      <3> QED
        BY <2>1, <3>1, <3>2
    <2>17. TypeOK'
      <3>1. /\ passwords' \subseteq DOMAIN users' /\ Len(sessions') <= MaxSessions
            /\ Len(otps') <= MaxOtps /\ Len(challenges') <= MaxChallenges
        BY <1>1, <2>1, <2>4, <2>9, <2>10, <2>14, RoomLeft DEF TypeOK
      <3> QED
        BY <1>1, <2>1, <2>4, <2>8, <2>9, <2>10, <2>15, <2>16, <3>1, TypeKept
    <2>18. Filled'
      BY <2>1, <2>10 DEF Filled
    <2>19. Reachable'
      <3>1. ASSUME NEW v \in DOMAIN users' PROVE \E i \in Identities : owner'[i] = v
        <4>1. CASE v \in DOMAIN users
          <5>1. PICK i \in Identities : owner[i] = v
            BY <4>1 DEF Reachable
          <5> QED
            BY <2>3, <2>12, <4>1, <5>1
        <4>2. CASE v \notin DOMAIN users
          <5>1. v = u /\ it.user = None
            BY <2>4, <4>2
          <5>2. PICK i \in it.attach : TRUE
            BY <2>2, <5>1
          <5> QED
            BY <2>2, <2>7, <5>1, <5>2
        <4> QED
          BY <4>1, <4>2
      <3>2. ASSUME NEW v \in passwords' PROVE \E e \in Emails : owner'[e] = v
        <4>1. Emails \subseteq Identities /\ passwords \subseteq DOMAIN users
          BY DEF Identities, TypeOK
        <4>2. CASE v \in passwords
          <5>1. PICK e \in Emails : owner[e] = v
            BY <4>2 DEF Reachable
          <5> QED
            BY <2>3, <2>12, <4>1, <4>2, <5>1
        <4>3. CASE v \notin passwords
          <5>1. v = u /\ HasAddress(it)
            BY <2>1, <2>2, <4>3
          <5>2. PICK e \in Emails : e \in it.attach \/ (it.user # None /\ owner[e] = it.user)
            BY <5>1 DEF HasAddress
          <5>3. it.user # None => u = it.user
            BY DEF u
          <5> QED
            BY <2>7, <2>12, <4>1, <5>1, <5>2, <5>3
        <4> QED
          BY <4>2, <4>3
      <3> QED
        BY <3>1, <3>2 DEF Reachable
    <2>20. OneLive'
      <3>1. ASSUME NEW s \in 1 .. n PROVE sessions'[s].family # n + 1
        <4>1. sessions[s].family \in 1 .. n
          BY <2>3 DEF AuthSession
        <4> HIDE DEF n
        <4> QED
          BY <2>3, <2>14, <4>1
      <3>2. sessions'[n + 1].family = n + 1
        BY <2>13, <2>14
      <3> QED
        BY <2>3, <2>14, <3>1, <3>2 DEF OneLive, Live
    <2>21. CodesWorkOnce'
      <3>1. \A s, r \in DOMAIN sessions' \ DOMAIN sessions : s = r /\ sessions'[s].via = it.via
        BY <2>3, <2>13, <2>14
      <3>2. \/ it.via = None
            \/ \E o \in DOMAIN otps : it.via = OtpRow(o) /\ ~otps[o].consumed /\ otps'[o].consumed
            \/ \E x \in DOMAIN challenges :
                 it.via = ChallengeRow(x) /\ ~challenges[x].consumed /\ challenges'[x].consumed
        BY <2>1, <2>2, <2>9, <2>10 DEF Via, UnusedRows
      <3>3. \A s \in DOMAIN sessions : sessions'[s].via = sessions[s].via
        BY <2>3, <2>14
      <3>4. \A o \in DOMAIN otps : otps[o].consumed => otps'[o].consumed
        BY <2>1, <2>9
      <3>5. \A x \in DOMAIN challenges : challenges[x].consumed => challenges'[x].consumed
        BY <2>1, <2>10
      <3>6. \A o \in DOMAIN otps' : otps'[o].attempts >= MaxAttempts => otps'[o].consumed
        BY <2>1, <2>9 DEF CodesWorkOnce
      <3> QED
        BY <2>15, <2>17, <3>1, <3>2, <3>3, <3>4, <3>5, <3>6, UsedOnce
    <2>22. ASSUME NEW d \in Clients \ {c} PROVE Respects(procs[d].rows)
      <3>1. procs[d].rows \cap it.rows = {}
        BY DEF LocksApart
      <3>2. \A o \in DOMAIN otps : OtpRow(o) \in procs[d].rows => OtpRow(o) \notin used
        BY <2>2, <2>3, <2>11, <3>1
      <3>3. \A x \in DOMAIN challenges : ChallengeRow(x) \in procs[d].rows => ChallengeRow(x) \notin used
        BY <2>2, <2>3, <2>11, <3>1
      <3> QED
        BY <2>1, <2>3, <2>9, <2>10, <2>14, <3>2, <3>3 DEF Respects, Live
    <2>23. RequestsKnow' /\ LocksApart' /\ RoomKept'
      BY <1>1, <2>14, <2>15, <2>17, <2>22, LastStep
    <2> QED
      BY <2>17, <2>18, <2>19, <2>20, <2>21, <2>23
  <1> QED
    BY <1>2, <1>3

(* A refresh commits: its session is replaced by one of the same family.   *)
LEMMA RotateStep ==
    ASSUME IInv, NEW c \in Clients, Rotate(c)
    PROVE  IInv'
  <1> USE DEF IInv
  <1> DEFINE s == procs[c].session
             n == Len(sessions)
             ended == [sessions EXCEPT ![s].status = "rotated"]
             new == NewSession(sessions[s].user, sessions[s].family, None)
  <1>1. /\ procs[c].phase = "rotating" /\ sessions' = Append(ended, new) /\ Become(c, Idle)
        /\ UNCHANGED <<users, owner, passwords, otps, challenges, replays>>
    BY DEF Rotate, accounts, codes
  <1>2. s \in DOMAIN sessions /\ Live(s) /\ SessionRow(s) \in procs[c].rows
    BY <1>1 DEF RequestsKnow, Knows, Rotates
  <1>3. /\ sessions \in Seq(AuthSession) /\ n \in Nat /\ DOMAIN sessions = 1 .. n
        /\ \A r \in DOMAIN sessions : sessions[r] \in AuthSession
        /\ otps \in Seq(Otp) /\ challenges \in Seq(Challenge)
    BY Tables
  <1>4. new = [user |-> sessions[s].user, family |-> sessions[s].family, status |-> "live",
               via |-> None]
    BY DEF NewSession
  <1>5. new \in AuthSession
    BY <1>2, <1>3, <1>4 DEF AuthSession, Via
  <1>6. /\ ended \in Seq(AuthSession) /\ DOMAIN ended = DOMAIN sessions /\ Len(ended) = n
        /\ \A r \in DOMAIN sessions :
             /\ ended[r].user = sessions[r].user /\ ended[r].family = sessions[r].family
             /\ ended[r].via = sessions[r].via
             /\ ended[r].status = IF r = s THEN "rotated" ELSE sessions[r].status
    BY <1>2, SessionReplaced
  <1> HIDE DEF ended, new, s, n
  <1>7. /\ sessions' \in Seq(AuthSession) /\ Len(sessions') = n + 1
        /\ DOMAIN sessions' = 1 .. n + 1 /\ sessions'[n + 1] = new
        /\ \A r \in 1 .. n : sessions'[r] = ended[r]
    BY <1>1, <1>3, <1>5, <1>6, Appended
  <1>8. Grown
    BY <1>1, <1>3, <1>7 DEF Grown
  <1>9. TypeOK'
    <2>1. sessions' \in Seq(AuthSession')
      BY <1>7, <1>8, SessionsGrow
    <2>2. Len(sessions') <= MaxSessions
      BY <1>1, <1>7, RoomLeft DEF n
    <2>3. /\ users' \in Seq({"active", "blocked"})
          /\ owner' \in [Identities -> DOMAIN users' \cup {None}]
          /\ passwords' \subseteq DOMAIN users'
          /\ Len(otps') <= MaxOtps /\ Len(challenges') <= MaxChallenges
      BY <1>1 DEF TypeOK
    <2>4. otps' \in Seq(Otp) /\ challenges' \in Seq(Challenge)
      BY <1>1, <1>3
    <2> QED
      BY <1>1, <1>8, <2>1, <2>2, <2>3, <2>4, TypeKept
  <1>10. Filled' /\ Reachable'
    BY <1>1 DEF Filled, Reachable
  <1>11. OneLive'
    <2>1. \A r \in 1 .. n : Live(r)' => Live(r) /\ r # s
      BY <1>3, <1>6, <1>7 DEF Live
    <2>2. \A r \in 1 .. n : sessions'[r].family = sessions[r].family
      BY <1>3, <1>6, <1>7
    <2>3. ASSUME NEW r \in 1 .. n, Live(r)', sessions'[r].family = sessions'[n + 1].family
          PROVE  FALSE
      <3>1. Live(r) /\ r # s /\ sessions[r].family = sessions[s].family
        BY <1>4, <1>7, <2>1, <2>2, <2>3
      <3> QED
        BY <1>2, <1>3, <3>1 DEF OneLive
    <2> QED
      BY <1>3, <1>7, <2>1, <2>2, <2>3 DEF OneLive
  <1>12. CodesWorkOnce'
    <2>1. \A r \in DOMAIN sessions : sessions'[r].via = sessions[r].via
      BY <1>3, <1>6, <1>7
    <2>2. \A r, q \in DOMAIN sessions' \ DOMAIN sessions : r = q /\ sessions'[r].via = None
      BY <1>3, <1>4, <1>7
    <2>3. \A o \in DOMAIN otps' : otps'[o].attempts >= MaxAttempts => otps'[o].consumed
      BY <1>1 DEF CodesWorkOnce
    <2> QED
      BY <1>1, <1>8, <1>9, <2>1, <2>2, <2>3, UsedOnce
  <1>13. ASSUME NEW d \in Clients \ {c} PROVE Respects(procs[d].rows)
    <2>1. SessionRow(s) \notin procs[d].rows
      BY <1>2 DEF LocksApart
    <2>2. \A r \in DOMAIN sessions : SessionRow(r) \in procs[d].rows /\ Live(r) => Live(r)'
      BY <1>3, <1>6, <1>7, <2>1 DEF Live
    <2> QED
      BY <1>1, <2>2 DEF Respects
  <1>14. RequestsKnow' /\ LocksApart' /\ RoomKept'
    BY <1>1, <1>7, <1>8, <1>9, <1>13, LastStep DEF n
  <1> QED
    BY <1>9, <1>10, <1>11, <1>12, <1>14

(* Sessions end: R are those that were live, and no other request has      *)
(* locked one of them.                                                     *)
Ended(R) ==
    /\ DOMAIN sessions' = DOMAIN sessions
    /\ \A r \in DOMAIN sessions :
         sessions'[r] = IF r \in R THEN [sessions[r] EXCEPT !.status = "revoked"] ELSE sessions[r]

(* What is the same whoever ends them: the request of c or nobody's.       *)
LEMMA EndStep ==
    ASSUME IInv, NEW R, Ended(R), sessions' = [r \in DOMAIN sessions |-> sessions'[r]],
           UNCHANGED <<owner, passwords, otps, challenges>>,
           replays' \subseteq replays \cup Replay,
           users' \in Seq({"active", "blocked"}), DOMAIN users' = DOMAIN users,
           \/ UNCHANGED procs /\ \A d \in Clients : \A r \in R : SessionRow(r) \notin procs[d].rows
           \/ \E c \in Clients :
                /\ Become(c, Idle)
                /\ \A d \in Clients \ {c} : \A r \in R : SessionRow(r) \notin procs[d].rows
    PROVE  IInv'
  <1> USE DEF IInv
  <1>1. /\ sessions \in Seq(AuthSession) /\ Len(sessions) \in Nat
        /\ DOMAIN sessions = 1 .. Len(sessions)
        /\ \A r \in DOMAIN sessions : sessions[r] \in AuthSession
        /\ otps \in Seq(Otp) /\ challenges \in Seq(Challenge)
    BY Tables
  <1>2. ASSUME NEW r \in DOMAIN sessions
        PROVE  /\ sessions'[r] \in AuthSession
               /\ sessions'[r].family = sessions[r].family /\ sessions'[r].via = sessions[r].via
               /\ Live(r)' <=> Live(r) /\ r \notin R
    <2>1. sessions[r] \in AuthSession
      BY <1>1
    <2>2. CASE r \in R
      <3>1. sessions'[r] = [sessions[r] EXCEPT !.status = "revoked"]
        BY <2>2 DEF Ended
      <3> QED
        BY <2>1, <2>2, <3>1 DEF AuthSession, Live
    <2>3. CASE r \notin R
      <3>1. sessions'[r] = sessions[r]
        BY <2>3 DEF Ended
      <3> QED
        BY <2>1, <2>3, <3>1 DEF Live
    <2> QED
      BY <2>2, <2>3
  <1>3. sessions' \in Seq(AuthSession) /\ Len(sessions') = Len(sessions)
    <2>1. sessions' = [r \in 1 .. Len(sessions) |-> sessions'[r]]
      BY <1>1
    <2>2. \A r \in 1 .. Len(sessions) : sessions'[r] \in AuthSession
      BY <1>1, <1>2
    <2> QED
      BY <1>1, <2>1, <2>2, IsTable
  <1>4. Grown
    BY DEF Grown, Ended
  <1>5. TypeOK'
    <2>1. sessions' \in Seq(AuthSession')
      BY <1>3, <1>4, SessionsGrow
    <2>2. /\ owner' \in [Identities -> DOMAIN users' \cup {None}]
          /\ passwords' \subseteq DOMAIN users'
          /\ Len(sessions') <= MaxSessions /\ Len(otps') <= MaxOtps
          /\ Len(challenges') <= MaxChallenges
      BY <1>3 DEF TypeOK
    <2>3. otps' \in Seq(Otp) /\ challenges' \in Seq(Challenge)
      BY <1>1
    <2> QED
      BY <1>4, <2>1, <2>2, <2>3, TypeKept
  <1>6. Filled' /\ Reachable'
    BY DEF Filled, Reachable
  <1>7. OneLive'
    BY <1>2 DEF OneLive, Ended
  <1>8. CodesWorkOnce'
    BY <1>2 DEF CodesWorkOnce, Ended
  <1>9. ASSUME NEW d \in Clients, \A r \in R : SessionRow(r) \notin procs[d].rows
        PROVE  Respects(procs[d].rows)
    BY <1>2, <1>9 DEF Respects
  <1>10. RequestsKnow' /\ LocksApart' /\ RoomKept'
    <2>1. CASE UNCHANGED procs /\ \A d \in Clients : \A r \in R : SessionRow(r) \notin procs[d].rows
      BY <1>3, <1>4, <1>5, <1>9, <2>1, NobodysStep
    <2>2. ASSUME NEW c \in Clients, Become(c, Idle),
                 \A d \in Clients \ {c} : \A r \in R : SessionRow(r) \notin procs[d].rows
          PROVE  RequestsKnow' /\ LocksApart' /\ RoomKept'
      BY <1>3, <1>4, <1>5, <1>9, <2>2, LastStep
    <2> QED
      BY <2>1, <2>2
  <1> QED
    BY <1>5, <1>6, <1>7, <1>8, <1>10

(* A session is found expired, or logged out of.                           *)
LEMMA ExpiryStep ==
    ASSUME IInv, NEW s \in DOMAIN sessions, RefreshExpired(s) \/ Logout(s)
    PROVE  IInv' /\ Ended({s})
  <1>1. /\ Free({SessionRow(s)}) /\ sessions' = [sessions EXCEPT ![s].status = "revoked"]
        /\ UNCHANGED <<users, owner, passwords, otps, challenges, replays, procs>>
    BY DEF RefreshExpired, Logout, accounts, codes
  <1>2. sessions' = [sessions EXCEPT ![s] = [sessions[s] EXCEPT !.status = "revoked"]]
    BY <1>1
  <1>3. sessions' = [r \in DOMAIN sessions |-> sessions'[r]] /\ Ended({s})
    BY <1>2, Tables DEF Ended, IInv
  <1>4. users' \in Seq({"active", "blocked"}) /\ DOMAIN users' = DOMAIN users
    BY <1>1, Tables DEF IInv
  <1>5. \A d \in Clients : \A r \in {s} : SessionRow(r) \notin procs[d].rows
    BY <1>1, FreeRow
  <1> QED
    BY <1>1, <1>3, <1>4, <1>5, EndStep

(* Users whose status an administrator changes.                            *)
LEMMA StatusChanged ==
    ASSUME TypeOK, NEW u \in DOMAIN users, NEW status \in {"active", "blocked"}
    PROVE  LET table == [users EXCEPT ![u] = status]
           IN  table \in Seq({"active", "blocked"}) /\ DOMAIN table = DOMAIN users
  BY Tables

(* The UPDATE of a reuse or of a blocking finds the locks it waited for    *)
(* free.                                                                   *)
LEMMA RevokeStep ==
    ASSUME IInv, NEW c \in Clients, Revoke(c)
    PROVE  IInv' /\ Ended(Targets(procs[c]))
  <1> DEFINE it == procs[c]
             R == Targets(it)
  <1>1. /\ it.phase = "revoking"
        /\ Free({SessionRow(r) : r \in it.targets} \ it.rows)
        /\ sessions' = [r \in DOMAIN sessions |->
              IF r \in R THEN [sessions[r] EXCEPT !.status = "revoked"] ELSE sessions[r]]
        /\ users' = IF it.user = None THEN users ELSE [users EXCEPT ![it.user] = "blocked"]
        /\ replays' = IF it.user = None THEN replays \cup {it.replay} ELSE replays
        /\ Become(c, Idle)
        /\ UNCHANGED <<owner, passwords, otps, challenges>>
    BY DEF Revoke, codes
  <1>2. it.user \in DOMAIN users \cup {None} /\ (it.user = None => it.replay \in Replay)
    BY <1>1 DEF IInv, RequestsKnow, Knows, Revokes
  <1>3. ASSUME NEW d \in Clients \ {c}, NEW r \in R PROVE SessionRow(r) \notin procs[d].rows
    <2>1. r \in it.targets
      BY DEF Targets
    <2>2. CASE SessionRow(r) \in it.rows
      BY <2>2 DEF IInv, LocksApart
    <2>3. CASE SessionRow(r) \notin it.rows
      BY <1>1, <2>1, <2>3 DEF Free
    <2> QED
      BY <2>2, <2>3
  <1>4. users' \in Seq({"active", "blocked"}) /\ DOMAIN users' = DOMAIN users
    BY <1>1, <1>2, StatusChanged, Tables DEF IInv
  <1> HIDE DEF R
  <1>5. Ended(R) /\ sessions' = [r \in DOMAIN sessions |-> sessions'[r]]
    BY <1>1 DEF Ended
  <1>6. replays' \subseteq replays \cup Replay
    BY <1>1, <1>2
  <1>7. IInv'
    BY <1>1, <1>3, <1>4, <1>5, <1>6, EndStep
  <1> QED
    BY <1>5, <1>7 DEF R

(* A user is unblocked.                                                    *)
LEMMA UnblockStep ==
    ASSUME IInv, NEW u \in DOMAIN users, UnblockUser(u)
    PROVE  IInv'
  <1>1. /\ users' = [users EXCEPT ![u] = "active"]
        /\ UNCHANGED <<owner, passwords, otps, challenges, sessions, replays, procs>>
    BY DEF UnblockUser, codes, tokens
  <1>2. users' \in Seq({"active", "blocked"}) /\ DOMAIN users' = DOMAIN users
    BY <1>1, StatusChanged DEF IInv
  <1>3. Ended({}) /\ sessions' = [r \in DOMAIN sessions |-> sessions'[r]]
    BY <1>1, Tables DEF IInv, Ended
  <1> QED
    BY <1>1, <1>2, <1>3, EndStep

-----------------------------------------------------------------------------
(* The invariant *)

(* Nobody is there at first.                                               *)
LEMMA InvInit == Init => IInv
  <1> SUFFICES ASSUME Init PROVE IInv
    OBVIOUS
  <1> USE DEF Init
  <1>1. TypeOK
    BY BoundsAssumption DEF TypeOK, Idle
  <1>2. CodesWorkOnce /\ Filled /\ Reachable /\ OneLive
    BY DEF CodesWorkOnce, Filled, Reachable, OneLive
  <1>3. RequestsKnow /\ LocksApart
    BY DEF RequestsKnow, LocksApart, Knows, Idle
  <1>4. RoomKept
    <2>1. Working = {}
      BY DEF Working, Idle
    <2> QED
      BY <2>1, FS_EmptySet, BoundsAssumption DEF RoomKept
  <1> QED
    BY <1>1, <1>2, <1>3, <1>4 DEF IInv

(* What begins, and what only touches codes.                               *)
LEMMA CodesKeep ==
    ASSUME IInv, Codes
    PROVE  IInv'
  <1>1. ASSUME NEW c \in Clients, NEW e \in Emails, StartEmailAuth(c, e) PROVE IInv'
    <2> DEFINE rows == {OtpRow(o) : o \in OpenOtps(e, "login")}
               state == [phase |-> "starting", rows |-> rows, purpose |-> "login",
                         email |-> e, telegram |-> None]
    <2> HIDE DEF rows
    <2>1. /\ Ready(c) /\ Free(state.rows) /\ Become(c, state)
          /\ UNCHANGED <<accounts, codes, tokens>>
      BY <1>1 DEF StartEmailAuth, rows
    <2>2. procs'[c] = state
      BY <2>1 DEF Become, IInv, RequestsKnow
    <2>3. Knows(c)' /\ state.phase \in {"starting"}
      BY <2>2 DEF Knows, Starts
    <2> QED
      BY <2>1, <2>3, FirstStep
  <1>2. ASSUME NEW c \in Clients, NEW e \in Emails, NEW t \in Telegrams \cup {None},
               StartRegistration(c, e, t)
        PROVE  IInv'
    <2> DEFINE rows == {OtpRow(o) : o \in OpenOtps(e, "register")}
                       \cup {ChallengeRow(x) : x \in OpenRegistrations(e)}
               state == [phase |-> "starting", rows |-> rows, purpose |-> "register",
                         email |-> e, telegram |-> t]
    <2> HIDE DEF rows
    <2>1. /\ Ready(c) /\ Free(state.rows) /\ Become(c, state)
          /\ UNCHANGED <<accounts, codes, tokens>>
      BY <1>2 DEF StartRegistration, rows
    <2>2. procs'[c] = state
      BY <2>1 DEF Become, IInv, RequestsKnow
    <2>3. Knows(c)' /\ state.phase \in {"starting"}
      BY <2>2 DEF Knows, Starts
    <2> QED
      BY <2>1, <2>3, FirstStep
  <1>3. ASSUME NEW x \in DOMAIN challenges, ApproveInBot(x) PROVE IInv'
    <2> DEFINE row == [challenges[x] EXCEPT !.confirmed = TRUE]
    <2>1. challenges' = [challenges EXCEPT ![x] = row] /\ UNCHANGED <<accounts, otps, tokens, procs>>
      BY <1>3 DEF ApproveInBot
    <2>2. challenges[x] \in Challenge /\ otps \in Seq(Otp)
      BY Tables DEF IInv
    <2>3. /\ row \in Challenge /\ row.kind = challenges[x].kind /\ row.email = challenges[x].email
          /\ row.telegram = challenges[x].telegram /\ row.consumed = challenges[x].consumed
      BY <2>2 DEF Challenge
    <2> HIDE DEF row
    <2>4. \A o \in DOMAIN otps : otps[o].attempts >= MaxAttempts => otps[o].consumed
      BY DEF IInv, CodesWorkOnce
    <2> QED
      BY <2>1, <2>2, <2>3, <2>4, ConfirmStep
  <1> QED
    BY <1>1, <1>2, <1>3, CommitStartStep, RefuseCodeStep, StartTelegramStep DEF Codes

(* The ways to log in.                                                     *)
LEMMA LoginKeeps ==
    ASSUME IInv, NEW c \in Clients, Login(c)
    PROVE  IInv'
  <1>1. /\ None \in Via /\ UnusedRows({})
        /\ \A i \in Identities : owner[i] \in DOMAIN users \cup {None}
        /\ Emails \subseteq Identities /\ Telegrams \subseteq Identities
        /\ Googles \subseteq Identities
    BY DEF Via, UnusedRows, IInv, TypeOK, Identities
  <1>2. ASSUME NEW o \in DOMAIN otps, NEW e, NEW purpose, LatestOtp(e, purpose, o)
        PROVE  OtpRow(o) \in Via /\ UnusedRows({OtpRow(o)})
    BY <1>2 DEF LatestOtp, OpenOtps, Via, UnusedRows, OtpRow, ChallengeRow
  <1>3. ASSUME NEW e \in Emails, VerifyEmail(c, e) PROVE IInv'
    <2>1. PICK o \in DOMAIN otps :
            /\ LatestOtp(e, "login", o)
            /\ Issue(c, OtpRow(o), {OtpRow(o)}, owner[e], {e}, FALSE)
      BY <1>3 DEF VerifyEmail
    <2>2. OtpRow(o) \in Via /\ UnusedRows({OtpRow(o)})
      BY <1>2, <2>1
    <2>3. OtpRow(o) \in {OtpRow(o)} \cup {None} /\ {e} \in SUBSET Identities /\ FALSE \in BOOLEAN
          /\ owner[e] \in DOMAIN users \cup {None}
          /\ (owner[e] = None => \E i \in {e} : owner[i] = None)
      BY <1>1
    <2> QED
      BY <2>1, <2>2, <2>3, IssueStep
  <1>4. ASSUME NEW e \in Emails, AuthenticatePassword(c, e) PROVE IInv'
    <2>1. owner[e] \in passwords /\ Issue(c, None, {}, owner[e], {}, FALSE)
      BY <1>4 DEF AuthenticatePassword
    <2>2. owner[e] \in DOMAIN users /\ owner[e] # None
      BY <2>1, Tables DEF IInv, TypeOK
    <2>3. None \in {} \cup {None} /\ {} \in SUBSET Identities /\ FALSE \in BOOLEAN
          /\ owner[e] \in DOMAIN users \cup {None}
      BY <2>2
    <2> QED
      BY <1>1, <2>1, <2>2, <2>3, IssueStep
  <1>5. ASSUME NEW g \in Googles, AuthenticateGoogle(c, g) PROVE IInv'
    <2>1. EmailOf[g] \in Emails
      BY EmailOfAssumption
    <2>2. None \in {} \cup {None} /\ {} \in SUBSET Identities /\ FALSE \in BOOLEAN
          /\ {g, EmailOf[g]} \in SUBSET Identities
          /\ owner[g] \in DOMAIN users \cup {None}
          /\ owner[EmailOf[g]] \in DOMAIN users \cup {None}
          /\ (owner[EmailOf[g]] = None => \E i \in {g, EmailOf[g]} : owner[i] = None)
      BY <1>1, <2>1
    <2>3. CASE owner[g] # None
      <3>1. Issue(c, None, {}, owner[g], {}, FALSE)
        BY <1>5, <2>3 DEF AuthenticateGoogle
      <3> QED
        BY <1>1, <2>2, <2>3, <3>1, IssueStep
    <2>4. CASE owner[g] = None
      <3>1. Issue(c, None, {}, owner[EmailOf[g]], {g, EmailOf[g]}, FALSE)
        BY <1>5, <2>4 DEF AuthenticateGoogle
      <3> QED
        BY <1>1, <2>2, <3>1, IssueStep
    <2> QED
      BY <2>3, <2>4
  <1>6. ASSUME NEW t \in Telegrams, AuthenticateTelegram(c, t) PROVE IInv'
    <2>1. Issue(c, None, {TelegramLock(t)}, owner[t], {t}, FALSE)
      BY <1>6 DEF AuthenticateTelegram
    <2>2. UnusedRows({TelegramLock(t)})
      BY DEF UnusedRows, TelegramLock, OtpRow, ChallengeRow
    <2>3. None \in {TelegramLock(t)} \cup {None} /\ {t} \in SUBSET Identities /\ FALSE \in BOOLEAN
          /\ owner[t] \in DOMAIN users \cup {None}
          /\ (owner[t] = None => \E i \in {t} : owner[i] = None)
      BY <1>1
    <2> QED
      BY <1>1, <2>1, <2>2, <2>3, IssueStep
  <1>7. ASSUME NEW x \in DOMAIN challenges, VerifyRegistration(c, x) PROVE IInv'
    <2>1. x \in OpenRegistrations(challenges[x].email)
      BY <1>7 DEF VerifyRegistration
    <2>2. PICK o \in DOMAIN otps :
            /\ LatestOtp(challenges[x].email, "register", o)
            /\ IF Pending(x)
               THEN /\ Free({OtpRow(o), ChallengeRow(x)})
                    /\ otps' = [otps EXCEPT ![o].consumed = TRUE]
                    /\ challenges' = [challenges EXCEPT ![x].emailVerified = TRUE]
                    /\ UNCHANGED <<accounts, tokens, procs>>
               ELSE Finalize(c, x, {OtpRow(o)})
      BY <1>7 DEF VerifyRegistration
    <2>3. CASE Pending(x)
      <3> DEFINE row == [challenges[x] EXCEPT !.emailVerified = TRUE]
                 code == [otps[o] EXCEPT !.consumed = TRUE]
      <3>1. /\ challenges' = [challenges EXCEPT ![x] = row] /\ otps' = [otps EXCEPT ![o] = code]
            /\ UNCHANGED <<accounts, tokens, procs>> /\ Free({OtpRow(o)})
        BY <2>2, <2>3 DEF Free
      <3>2. challenges[x] \in Challenge /\ otps[o] \in Otp /\ otps \in Seq(Otp)
        BY Tables DEF IInv
      <3>3. /\ row \in Challenge /\ row.kind = challenges[x].kind /\ row.email = challenges[x].email
            /\ row.telegram = challenges[x].telegram /\ row.consumed = challenges[x].consumed
        BY <3>2 DEF Challenge
      <3>4. code \in Otp /\ code.consumed
        BY <3>2 DEF Otp
      <3> HIDE DEF row, code
      <3>5. otps' \in Seq(Otp) /\ Len(otps') = Len(otps)
            /\ \A p \in DOMAIN otps : otps'[p] = IF p = o THEN code ELSE otps[p]
        BY <3>1, <3>2, <3>4
      <3>6. \A d \in Clients : OtpRow(o) \notin procs[d].rows
        BY <3>1, FreeRow
      <3>7. \A p \in DOMAIN otps :
              /\ otps[p].consumed => otps'[p].consumed
              /\ otps'[p].attempts >= MaxAttempts => otps'[p].consumed
              /\ otps'[p] = otps[p] \/ \A d \in Clients : OtpRow(p) \notin procs[d].rows
        BY <3>4, <3>5, <3>6 DEF IInv, CodesWorkOnce
      <3> QED
        BY <3>1, <3>3, <3>5, <3>7, ConfirmStep
    <2>4. CASE ~Pending(x)
      <3>1. UnusedRows({OtpRow(o)})
        BY <1>2, <2>2
      <3> QED
        BY <2>1, <2>2, <2>4, <3>1, FinalizeStep
    <2> QED
      BY <2>3, <2>4
  <1>8. ASSUME NEW x \in DOMAIN challenges, CompleteRegistration(c, x) PROVE IInv'
    <2>1. x \in OpenRegistrations(challenges[x].email) /\ Finalize(c, x, {})
      BY <1>8 DEF CompleteRegistration
    <2> QED
      BY <1>1, <2>1, FinalizeStep
  <1>9. ASSUME NEW x \in DOMAIN challenges, VerifyTelegramLogin(c, x) PROVE IInv'
    <2> DEFINE t == challenges[x].telegram
    <2>1. /\ challenges[x].kind = "telegram_login" /\ ~challenges[x].consumed /\ owner[t] # None
          /\ Issue(c, ChallengeRow(x), {ChallengeRow(x)}, owner[t], {}, FALSE)
      BY <1>9 DEF VerifyTelegramLogin, TelegramRows
    <2>2. t \in Identities
      BY <1>1, <2>1 DEF IInv, Filled
    <2>3. ChallengeRow(x) \in Via /\ UnusedRows({ChallengeRow(x)})
      BY <2>1 DEF Via, UnusedRows, OtpRow, ChallengeRow
    <2>4. owner[t] \in DOMAIN users \cup {None}
      BY <1>1, <2>2
    <2>5. ChallengeRow(x) \in {ChallengeRow(x)} \cup {None} /\ {} \in SUBSET Identities
          /\ FALSE \in BOOLEAN
      OBVIOUS
    <2> QED
      BY <2>1, <2>3, <2>4, <2>5, IssueStep
  <1> QED
    BY <1>3, <1>4, <1>5, <1>6, <1>7, <1>8, <1>9, IssueLoginStep DEF Login

(* What a session may come to.                                             *)
LEMMA SessionKeeps ==
    ASSUME IInv, NEW c \in Clients, Session(c)
    PROVE  IInv'
  <1>1. ASSUME NEW s \in DOMAIN sessions, Refresh(c, s) PROVE IInv'
    <2> DEFINE state == [phase |-> "rotating", rows |-> {SessionRow(s)}, session |-> s]
    <2>1. /\ Ready(c) /\ Free(state.rows) /\ Become(c, state) /\ Live(s) /\ Room
          /\ UNCHANGED <<accounts, codes, tokens>>
      BY <1>1 DEF Refresh, RefreshRows
    <2>2. procs'[c] = state
      BY <2>1 DEF Become, IInv, RequestsKnow
    <2>3. Knows(c)' /\ state.phase \in {"rotating"}
      BY <2>1, <2>2 DEF Knows, Rotates, Live, tokens
    <2> QED
      BY <2>1, <2>3, FirstStep
  <1>2. ASSUME NEW rows, NEW user \in DOMAIN users \cup {None}, NEW replay, NEW match,
               user = None => replay \in Replay, Ready(c), Free(rows),
               Become(c, Revoking(rows, user, replay, match)),
               UNCHANGED <<accounts, codes, tokens>>
        PROVE  IInv'
    <2> DEFINE state == Revoking(rows, user, replay, match)
    <2>1. procs'[c] = state
      BY <1>2 DEF Become, IInv, RequestsKnow
    <2>2. state.phase = "revoking" /\ state.rows = rows /\ state.user = user /\ state.replay = replay
      BY DEF Revoking
    <2> HIDE DEF state
    <2>3. Knows(c)' /\ state.phase \in {"revoking"}
      BY <1>2, <2>1, <2>2 DEF Knows, Revokes, Replay, accounts, tokens
    <2> QED
      BY <1>2, <2>2, <2>3, FirstStep DEF state
  <1>3. ASSUME NEW s \in DOMAIN sessions, DetectReuse(c, s) PROVE IInv'
    <2> DEFINE replay == [family |-> sessions[s].family, at |-> Len(sessions)]
    <2>1. /\ sessions[s].family \in DOMAIN sessions /\ Len(sessions) \in Nat
          /\ DOMAIN sessions = 1 .. Len(sessions)
      BY Tables DEF IInv, AuthSession
    <2>2. replay \in Replay
      BY <2>1 DEF Replay
    <2> HIDE DEF replay
    <2>3. /\ Ready(c) /\ Free({SessionRow(s)})
          /\ Become(c, Revoking({SessionRow(s)}, None, replay, FamilyOf(s)))
          /\ UNCHANGED <<accounts, codes, tokens>>
      BY <1>3 DEF DetectReuse, replay
    <2> QED
      BY <1>2, <2>2, <2>3
  <1>4. ASSUME NEW u \in DOMAIN users, BlockUser(c, u) PROVE IInv'
    <2>1. u # None
      BY Tables DEF IInv
    <2> QED
      BY <1>2, <1>4, <2>1 DEF BlockUser
  <1> QED
    BY <1>1, <1>3, <1>4, RotateStep, RevokeStep DEF Session

(* Every step keeps the invariant.                                         *)
LEMMA InvNext == IInv /\ [Next]_vars => IInv'
  <1> SUFFICES ASSUME IInv, [Next]_vars PROVE IInv'
    OBVIOUS
  <1>1. ASSUME NEW c \in Clients, Crash(c) PROVE IInv'
    <2>1. /\ Become(c, Idle)
          /\ UNCHANGED <<users, owner, passwords, otps, challenges, sessions, replays>>
      BY <1>1 DEF Crash, accounts, codes, tokens
    <2>2. users' \in Seq({"active", "blocked"}) /\ DOMAIN users' = DOMAIN users
      BY <2>1, Tables DEF IInv
    <2>3. Ended({}) /\ sessions' = [r \in DOMAIN sessions |-> sessions'[r]]
      BY <2>1, Tables DEF IInv, Ended
    <2> QED
      BY <2>1, <2>2, <2>3, EndStep
  <1>2. CASE UNCHANGED vars
    <2>1. UNCHANGED <<users, owner, passwords, otps, challenges, sessions, replays, procs>>
      BY <1>2 DEF vars
    <2>2. users' \in Seq({"active", "blocked"}) /\ DOMAIN users' = DOMAIN users
      BY <2>1, Tables DEF IInv
    <2>3. Ended({}) /\ sessions' = [r \in DOMAIN sessions |-> sessions'[r]]
      BY <2>1, Tables DEF IInv, Ended
    <2> QED
      BY <2>1, <2>2, <2>3, EndStep
  <1> QED
    BY <1>1, <1>2, CodesKeep, LoginKeeps, SessionKeeps, ExpiryStep, UnblockStep DEF Next

-----------------------------------------------------------------------------
(* What a request saw in its first step and still holds in its second one,  *)
(* and what follows from it about accounts and blocked users                *)

(* A Google account belongs to the user of its address. *)
GoogleWithAddress ==
    \A g \in Googles : owner[g] # None => owner[EmailOf[g]] = owner[g]

(* A login that brings a Google account brings its address or joins the    *)
(* user of it.                                                             *)
BringsAddress(it) ==
    \A g \in Googles : g \in it.attach =>
        EmailOf[g] \in it.attach \/ (it.user # None /\ owner[EmailOf[g]] = it.user)

(* The answer to a reuse has found the live sessions that are not younger. *)
Answers(it) ==
    \A r \in DOMAIN sessions :
        Live(r) => (r \in it.targets <=> r <= it.replay.at /\ sessions[r].family = it.replay.family)

(* A blocking holds the user's row and has found his live sessions, of     *)
(* which there can be no new ones.                                         *)
Blocks(it) ==
    /\ UserRow(it.user) \in it.rows
    /\ \A r \in DOMAIN sessions : Live(r) => (r \in it.targets <=> sessions[r].user = it.user)

Saw(c) ==
    /\ procs[c].phase = "issuing" => BringsAddress(procs[c])
    /\ procs[c].phase = "rotating" => users[sessions[procs[c].session].user] = "active"
    /\ procs[c].phase = "revoking" =>
         /\ procs[c].targets \subseteq DOMAIN sessions
         /\ IF procs[c].user = None THEN Answers(procs[c]) ELSE Blocks(procs[c])

Seen == GoogleWithAddress /\ BlockedStaysOut /\ \A c \in Clients : Saw(c)

(* A step that changes no user, identity or session, and begins and ends   *)
(* no revocation.                                                          *)
Calm ==
    /\ UNCHANGED <<users, owner, sessions, replays>>
    /\ \A c \in Clients :
         \/ procs'[c] = procs[c]
         \/ procs[c].phase # "revoking" /\ procs'[c].phase # "revoking" /\ Saw(c)'

(* What was seen is as it was.                                             *)
LEMMA SeenAlike ==
    ASSUME Seen, UNCHANGED <<users, owner, sessions>>,
           \A d \in Clients : procs'[d] = procs[d] \/ Saw(d)'
    PROVE  Seen'
  <1>1. GoogleWithAddress' /\ BlockedStaysOut'
    BY DEF Seen, GoogleWithAddress, BlockedStaysOut, Live
  <1>2. ASSUME NEW d \in Clients, procs'[d] = procs[d] PROVE Saw(d)'
    <2>1. Saw(d)
      BY DEF Seen
    <2> QED
      BY <1>2, <2>1 DEF Saw, BringsAddress, Answers, Blocks, Live
  <1> QED
    BY <1>1, <1>2 DEF Seen

(* A request goes on without anybody being thrown out.                     *)
LEMMA BecomesCalm ==
    ASSUME IInv, NEW c \in Clients, NEW state, Become(c, state),
           UNCHANGED <<users, owner, sessions, replays>>,
           procs[c].phase # "revoking", state.phase # "revoking",
           state.phase = "issuing" => BringsAddress(state),
           state.phase = "rotating" => users[sessions[state.session].user] = "active"
    PROVE  Calm
  <1>1. \A d \in Clients : procs'[d] = IF d = c THEN state ELSE procs[d]
    BY DEF IInv, RequestsKnow, Become
  <1>2. Saw(c)'
    BY <1>1 DEF Saw, BringsAddress
  <1> QED
    BY <1>1, <1>2 DEF Calm

(* A login finds what it needs.                                            *)
LEMMA IssueCalm ==
    ASSUME IInv, NEW c \in Clients, NEW via, NEW rows, NEW user, NEW attach, NEW password,
           \A g \in Googles : g \in attach => EmailOf[g] \in attach /\ user = owner[EmailOf[g]],
           Issue(c, via, rows, user, attach, password)
    PROVE  Calm
  <1> DEFINE new == {i \in attach : owner[i] = None}
             state == [phase |-> "issuing", rows |-> rows, via |-> via, user |-> user,
                       attach |-> new, password |-> password]
  <1>1. Ready(c) /\ Become(c, state) /\ UNCHANGED <<users, owner, sessions, replays>>
    BY DEF Issue, accounts, tokens
  <1>2. \A g \in Googles : g \in new =>
          EmailOf[g] \in new \/ (user # None /\ owner[EmailOf[g]] = user)
    OBVIOUS
  <1> HIDE DEF new
  <1>3. state.phase = "issuing" /\ BringsAddress(state)
    BY <1>2 DEF BringsAddress
  <1> HIDE DEF state
  <1> QED
    BY <1>1, <1>3, BecomesCalm DEF Ready

(* Only Google brings a Google account.                                    *)
LEMMA LoginCalm ==
    ASSUME IInv, NEW c \in Clients, Login(c)
    PROVE  Calm \/ (IssueLogin(c) /\ ~Taken(procs[c]))
  <1> USE DEF accounts, codes, tokens
  <1>1. \A g \in Googles : g \notin Emails /\ g \notin Telegrams
    BY IdentitiesAssumption
  <1>2. ASSUME NEW e \in Emails, VerifyEmail(c, e) PROVE Calm
    <2>1. PICK o \in DOMAIN otps : Issue(c, OtpRow(o), {OtpRow(o)}, owner[e], {e}, FALSE)
      BY <1>2 DEF VerifyEmail
    <2>2. \A g \in Googles : g \notin {e}
      BY <1>1
    <2> QED
      BY <2>1, <2>2, IssueCalm
  <1>3. ASSUME NEW user, NEW via, NEW rows, Issue(c, via, rows, user, {}, FALSE) PROVE Calm
    <2>1. PICK attach : attach = {}
      OBVIOUS
    <2>2. Issue(c, via, rows, user, attach, FALSE) /\ \A g \in Googles : g \notin attach
      BY <1>3, <2>1
    <2> QED
      BY <2>2, IssueCalm
  <1>4. ASSUME NEW g \in Googles, AuthenticateGoogle(c, g) PROVE Calm
    <2>1. CASE owner[g] # None
      BY <1>3, <1>4, <2>1 DEF AuthenticateGoogle
    <2>2. CASE owner[g] = None
      <3>1. Issue(c, None, {}, owner[EmailOf[g]], {g, EmailOf[g]}, FALSE)
        BY <1>4, <2>2 DEF AuthenticateGoogle
      <3>2. EmailOf[g] \in Emails
        BY EmailOfAssumption
      <3>3. \A h \in Googles : h \in {g, EmailOf[g]} => h = g
        BY <1>1, <3>2
      <3> QED
        BY <3>1, <3>3, IssueCalm
    <2> QED
      BY <2>1, <2>2
  <1>5. ASSUME NEW t \in Telegrams, AuthenticateTelegram(c, t) PROVE Calm
    <2>1. Issue(c, None, {TelegramLock(t)}, owner[t], {t}, FALSE)
      BY <1>5 DEF AuthenticateTelegram
    <2>2. \A g \in Googles : g \notin {t}
      BY <1>1
    <2> QED
      BY <2>1, <2>2, IssueCalm
  <1>6. ASSUME NEW x \in DOMAIN challenges, NEW rows, Finalize(c, x, rows),
               x \in OpenRegistrations(challenges[x].email)
        PROVE  Calm
    <2> DEFINE brought == {challenges[x].email, challenges[x].telegram} \ {None}
    <2>1. \E user : Issue(c, ChallengeRow(x), rows \cup {ChallengeRow(x)}, user, brought, TRUE)
      BY <1>6 DEF Finalize
    <2>2. challenges[x] \in Challenge
      BY Tables DEF IInv
    <2>3. \A g \in Googles : g \notin brought
      BY <1>1, <2>2 DEF Challenge
    <2> HIDE DEF brought
    <2> QED
      BY <2>1, <2>3, IssueCalm
  <1>7. ASSUME NEW x \in DOMAIN challenges, VerifyRegistration(c, x) PROVE Calm
    <2>1. CASE Pending(x)
      BY <1>7, <2>1 DEF VerifyRegistration, Calm
    <2>2. CASE ~Pending(x)
      <3>1. PICK o \in DOMAIN otps : Finalize(c, x, {OtpRow(o)})
        BY <1>7, <2>2 DEF VerifyRegistration
      <3> QED
        BY <1>6, <1>7, <3>1 DEF VerifyRegistration
    <2> QED
      BY <2>1, <2>2
  <1>8. ASSUME NEW x \in DOMAIN challenges, CompleteRegistration(c, x) PROVE Calm
    BY <1>6, <1>8 DEF CompleteRegistration
  <1>9. ASSUME NEW x \in DOMAIN challenges, VerifyTelegramLogin(c, x) PROVE Calm
    BY <1>3, <1>9 DEF VerifyTelegramLogin
  <1>10. ASSUME IssueLogin(c), Taken(procs[c]) PROVE Calm
    <2>1. /\ procs[c].phase = "issuing" /\ Become(c, Idle)
          /\ UNCHANGED <<users, owner, sessions, replays>>
      BY <1>10 DEF IssueLogin
    <2>2. Idle.phase = "idle"
      BY DEF Idle
    <2> QED
      BY <2>1, <2>2, BecomesCalm
  <1> QED
    BY <1>2, <1>3, <1>4, <1>5, <1>7, <1>8, <1>9, <1>10 DEF Login, AuthenticatePassword

(* Codes and confirmations.                                                *)
LEMMA CodesCalm ==
    ASSUME IInv, Codes
    PROVE  Calm
  <1> USE DEF accounts, codes, tokens
  <1>1. ASSUME NEW c \in Clients, NEW e \in Emails, StartEmailAuth(c, e) PROVE Calm
    <2>1. PICK rows : Become(c, [phase |-> "starting", rows |-> rows, purpose |-> "login",
                                 email |-> e, telegram |-> None])
      BY <1>1 DEF StartEmailAuth
    <2> DEFINE state == [phase |-> "starting", rows |-> rows, purpose |-> "login",
                         email |-> e, telegram |-> None]
    <2>2. state.phase = "starting" /\ Become(c, state)
      BY <2>1
    <2> HIDE DEF state
    <2> QED
      BY <1>1, <2>2, BecomesCalm DEF StartEmailAuth, Ready
  <1>2. ASSUME NEW c \in Clients, NEW e \in Emails, NEW t \in Telegrams \cup {None},
               StartRegistration(c, e, t)
        PROVE  Calm
    <2>1. PICK rows : Become(c, [phase |-> "starting", rows |-> rows, purpose |-> "register",
                                 email |-> e, telegram |-> t])
      BY <1>2 DEF StartRegistration
    <2> DEFINE state == [phase |-> "starting", rows |-> rows, purpose |-> "register",
                         email |-> e, telegram |-> t]
    <2>2. state.phase = "starting" /\ Become(c, state)
      BY <2>1
    <2> HIDE DEF state
    <2> QED
      BY <1>2, <2>2, BecomesCalm DEF StartRegistration, Ready
  <1>3. ASSUME NEW c \in Clients, NEW delivered \in BOOLEAN, CommitStart(c, delivered) PROVE Calm
    <2>1. /\ procs[c].phase = "starting" /\ Become(c, Idle)
          /\ UNCHANGED <<users, owner, sessions, replays>>
      BY <1>3 DEF CommitStart
    <2>2. Idle.phase = "idle"
      BY DEF Idle
    <2> QED
      BY <2>1, <2>2, BecomesCalm
  <1>4. ASSUME UNCHANGED <<users, owner, sessions, replays, procs>> PROVE Calm
    BY <1>4 DEF Calm
  <1> QED
    BY <1>1, <1>2, <1>3, <1>4 DEF Codes, RefuseCode, StartTelegramLogin, ApproveInBot

(* The steps that are not calm.                                            *)
LEMMA StepsCalm ==
    ASSUME IInv, [Next]_vars
    PROVE  \/ Calm
           \/ \E c \in Clients :
                \/ (IssueLogin(c) /\ ~Taken(procs[c])) \/ Rotate(c) \/ Revoke(c) \/ Crash(c)
                \/ \E s \in DOMAIN sessions : DetectReuse(c, s)
                \/ \E u \in DOMAIN users : BlockUser(c, u)
           \/ \E s \in DOMAIN sessions : RefreshExpired(s) \/ Logout(s)
           \/ \E u \in DOMAIN users : UnblockUser(u)
  <1>1. ASSUME NEW c \in Clients, NEW s \in DOMAIN sessions, Refresh(c, s) PROVE Calm
    <2> DEFINE state == [phase |-> "rotating", rows |-> RefreshRows(s), session |-> s]
    <2>1. /\ Ready(c) /\ Become(c, state) /\ Active(sessions[s].user)
          /\ UNCHANGED <<users, owner, sessions, replays>>
      BY <1>1 DEF Refresh, accounts, tokens
    <2>2. sessions[s].user \in DOMAIN users
      BY Tables DEF IInv, AuthSession
    <2>3. state.phase = "rotating" /\ state.session = s
      OBVIOUS
    <2> HIDE DEF state
    <2> QED
      BY <2>1, <2>2, <2>3, BecomesCalm DEF Active, Ready
  <1>2. CASE UNCHANGED vars
    BY <1>2 DEF vars, Calm
  <1> QED
    BY <1>1, <1>2, LoginCalm, CodesCalm DEF Next, Session

(* What a request saw outlives a step of another: old sessions only end,   *)
(* and new ones are of users nobody is blocking.                           *)
LEMMA StillSeen ==
    ASSUME IInv, IInv', Grown, NEW d \in Clients, Saw(d), procs'[d] = procs[d],
           \A r \in DOMAIN sessions :
              /\ sessions'[r].user = sessions[r].user /\ sessions'[r].family = sessions[r].family
              /\ Live(r)' => Live(r),
           \A r \in DOMAIN sessions' \ DOMAIN sessions :
              sessions'[r].user \in DOMAIN users => KeyShare(sessions'[r].user),
           procs[d].phase = "rotating" => users'[sessions[procs[d].session].user] = "active"
    PROVE  Saw(d)'
  <1> DEFINE it == procs[d]
  <1>1. Knows(d)
    BY DEF IInv, RequestsKnow
  <1>2. CASE it.phase = "issuing"
    <2>1. it.attach \subseteq Identities
      BY <1>1, <1>2 DEF Knows, Issues
    <2>2. \A g \in Googles : EmailOf[g] \in Identities
      BY EmailOfAssumption DEF Identities
    <2>3. BringsAddress(it)
      BY <1>2 DEF Saw
    <2> QED
      BY <1>2, <2>2, <2>3 DEF Saw, BringsAddress, Grown
  <1>3. CASE it.phase = "rotating"
    <2>1. it.session \in DOMAIN sessions
      BY <1>1, <1>3 DEF Knows, Rotates
    <2> QED
      BY <1>3, <2>1 DEF Saw
  <1>4. CASE it.phase = "revoking"
    <2>1. it.targets \subseteq DOMAIN sessions /\ Revokes(it)
      BY <1>1, <1>4 DEF Saw, Knows
    <2>2. it.targets \subseteq DOMAIN sessions'
      BY <2>1 DEF Grown
    <2>3. CASE it.user = None
      <3>1. Answers(it) /\ it.replay.at \in DOMAIN sessions
        BY <1>4, <2>1, <2>3 DEF Saw, Revokes, Replay
      <3>2. /\ DOMAIN sessions = 1 .. Len(sessions) /\ Len(sessions) \in Nat
            /\ DOMAIN sessions' \subseteq Nat \ {0}
        <4>1. DOMAIN sessions' = 1 .. Len(sessions') /\ Len(sessions') \in Nat
          BY DEF IInv, TypeOK
        <4> QED
          BY <4>1, Tables DEF IInv
      <3>3. \A r \in DOMAIN sessions' \ DOMAIN sessions : ~(r <= it.replay.at)
        BY <3>1, <3>2
      <3>4. Answers(it)'
        BY <2>1, <3>1, <3>3 DEF Answers
      <3> QED
        BY <1>4, <2>2, <2>3, <3>4 DEF Saw, Answers
    <2>4. CASE it.user # None
      <3>1. Blocks(it) /\ it.user \in DOMAIN users
        BY <1>4, <2>1, <2>4 DEF Saw, Revokes
      <3>2. \A r \in DOMAIN sessions' \ DOMAIN sessions : sessions'[r].user # it.user
        BY <3>1 DEF Blocks, KeyShare, Free
      <3>3. Blocks(it)'
        BY <2>1, <3>1, <3>2 DEF Blocks
      <3> QED
        BY <1>4, <2>2, <2>4, <3>3 DEF Saw, Blocks
    <2> QED
      BY <2>3, <2>4
  <1> QED
    BY <1>2, <1>3, <1>4 DEF Saw

(* A login commits for a user nobody is blocking; if he was blocked since  *)
(* it read him, his session is the first of its family.                    *)
LEMMA LoginSeen ==
    ASSUME IInv, IInv', Seen, NEW c \in Clients, IssueLogin(c), ~Taken(procs[c])
    PROVE  Seen'
  <1> DEFINE it == procs[c]
             n == Len(sessions)
             u == IF it.user = None THEN Len(users) + 1 ELSE it.user
             new == NewSession(u, n + 1, it.via)
  <1>1. /\ it.phase = "issuing" /\ Become(c, Idle) /\ (it.user # None => KeyShare(it.user))
        /\ users' = IF it.user = None THEN Append(users, "active") ELSE users
        /\ owner' = Attached(it, u) /\ sessions' = Append(sessions, new)
    BY DEF IssueLogin
  <1>2. /\ users \in Seq({"active", "blocked"}) /\ Len(users) \in Nat
        /\ DOMAIN users = 1 .. Len(users) /\ None \notin DOMAIN users
        /\ n \in Nat /\ DOMAIN sessions = 1 .. n
        /\ sessions \in Seq(AuthSession) /\ \A s \in 1 .. n : sessions[s].user \in DOMAIN users
    <2>1. /\ sessions \in Seq(AuthSession) /\ n \in Nat /\ DOMAIN sessions = 1 .. n
          /\ \A s \in DOMAIN sessions : sessions[s] \in AuthSession
      BY Tables DEF IInv
    <2>2. \A s \in 1 .. n : sessions[s].user \in DOMAIN users
      BY <2>1 DEF AuthSession
    <2> QED
      BY <2>1, <2>2, Tables DEF IInv
  <1>3. it.user \in DOMAIN users \cup {None} /\ BringsAddress(it)
    BY <1>1 DEF IInv, RequestsKnow, Knows, Issues, Seen, Saw
  <1>4. new.user = u /\ new.family = n + 1
    BY DEF NewSession
  <1>5. u \notin DOMAIN users \/ (u = it.user /\ KeyShare(u))
    BY <1>1, <1>2
  <1>6. \A v \in DOMAIN users : v \in DOMAIN users' /\ users'[v] = users[v]
    BY <1>1, <1>2
  <1>7. /\ u # None /\ (it.user # None => u = it.user)
    BY <1>2, NoneAssumption
  <1> HIDE DEF new, u
  <1>8. /\ DOMAIN sessions' = 1 .. n + 1 /\ sessions'[n + 1] = new
        /\ \A s \in 1 .. n : sessions'[s] = sessions[s]
    BY <1>1, <1>2
  <1>9. \A d \in Clients : procs'[d] = IF d = c THEN Idle ELSE procs[d]
    BY <1>1 DEF IInv, RequestsKnow, Become
  <1>10. GoogleWithAddress'
    <2>1. \A i \in it.attach : owner[i] = None
      BY DEF Taken
    <2>2. \A i \in Identities : owner'[i] = IF i \in it.attach THEN u ELSE owner[i]
      BY <1>1 DEF Attached
    <2>3. ASSUME NEW g \in Googles, owner'[g] # None PROVE owner'[EmailOf[g]] = owner'[g]
      <3>1. g \in Identities /\ EmailOf[g] \in Identities
        BY EmailOfAssumption DEF Identities
      <3>2. CASE g \in it.attach
        BY <1>3, <1>7, <2>1, <2>2, <3>1, <3>2 DEF BringsAddress
      <3>3. CASE g \notin it.attach
        <4>1. owner[EmailOf[g]] = owner[g] /\ owner[g] # None
          BY <2>2, <2>3, <3>1, <3>3 DEF Seen, GoogleWithAddress
        <4> QED
          BY <2>1, <2>2, <3>1, <3>3, <4>1
      <3> QED
        BY <3>2, <3>3
    <2> QED
      BY <2>3 DEF GoogleWithAddress
  <1>11. BlockedStaysOut'
    <2>1. sessions'[n + 1].family = n + 1
      BY <1>4, <1>8
    <2>2. ASSUME NEW s \in 1 .. n, Live(s)', users'[sessions'[s].user] = "blocked"
          PROVE  sessions'[s].family = s
      <3>1. Live(s) /\ users[sessions[s].user] = "blocked"
        BY <1>2, <1>6, <1>8, <2>2 DEF Live
      <3> QED
        BY <1>2, <1>8, <3>1 DEF Seen, BlockedStaysOut
    <2> QED
      BY <1>2, <1>8, <2>1, <2>2 DEF BlockedStaysOut
  <1>12. ASSUME NEW d \in Clients PROVE Saw(d)'
    <2>1. CASE d = c
      BY <1>9, <2>1 DEF Saw, Idle
    <2>2. CASE d # c
      <3>1. procs'[d] = procs[d] /\ Saw(d)
        BY <1>9, <2>2 DEF Seen
      <3>2. \A r \in DOMAIN sessions :
              /\ sessions'[r].user = sessions[r].user /\ sessions'[r].family = sessions[r].family
              /\ Live(r)' => Live(r)
        BY <1>2, <1>8 DEF Live
      <3>3. \A r \in DOMAIN sessions' \ DOMAIN sessions :
              sessions'[r].user \in DOMAIN users => KeyShare(sessions'[r].user)
        BY <1>2, <1>4, <1>5, <1>8
      <3>4. ASSUME procs[d].phase = "rotating"
            PROVE  users'[sessions[procs[d].session].user] = "active"
        <4>1. procs[d].session \in 1 .. n
          BY <1>2, <3>4 DEF IInv, RequestsKnow, Knows, Rotates
        <4> QED
          BY <1>2, <1>6, <3>1, <3>4, <4>1 DEF Saw
      <3>5. Grown
        <4>1. \A i \in Identities : owner[i] # None => owner'[i] = owner[i]
          BY <1>1 DEF Attached, Taken
        <4>2. UNCHANGED <<DOMAIN otps, DOMAIN challenges>>
          BY DEF IssueLogin, Consume
        <4> QED
          BY <1>2, <1>6, <1>8, <4>1, <4>2 DEF Grown
      <3> QED
        BY <3>1, <3>2, <3>3, <3>4, <3>5, StillSeen
    <2> QED
      BY <2>1, <2>2
  <1> QED
    BY <1>10, <1>11, <1>12 DEF Seen

(* A refresh commits for a user who is active still.                       *)
LEMMA RotateSeen ==
    ASSUME IInv, IInv', Seen, NEW c \in Clients, Rotate(c)
    PROVE  Seen'
  <1> DEFINE s == procs[c].session
             n == Len(sessions)
             ended == [sessions EXCEPT ![s].status = "rotated"]
             new == NewSession(sessions[s].user, sessions[s].family, None)
  <1>1. /\ procs[c].phase = "rotating" /\ sessions' = Append(ended, new) /\ Become(c, Idle)
        /\ UNCHANGED <<users, owner, otps, challenges>> /\ KeyShare(sessions[s].user)
    BY DEF Rotate, accounts, codes
  <1>2. s \in DOMAIN sessions /\ users[sessions[s].user] = "active"
    BY <1>1 DEF IInv, RequestsKnow, Knows, Rotates, Seen, Saw
  <1>3. sessions \in Seq(AuthSession) /\ n \in Nat /\ DOMAIN sessions = 1 .. n
    BY Tables DEF IInv
  <1>4. /\ ended \in Seq(AuthSession) /\ Len(ended) = n
        /\ \A r \in DOMAIN sessions :
             /\ ended[r].user = sessions[r].user /\ ended[r].family = sessions[r].family
             /\ ended[r].status = IF r = s THEN "rotated" ELSE sessions[r].status
    BY <1>2, SessionReplaced DEF IInv
  <1>5. new.user = sessions[s].user
    BY DEF NewSession
  <1> HIDE DEF s, ended, new, n
  <1>6. /\ DOMAIN sessions' = 1 .. n + 1 /\ sessions'[n + 1] = new
        /\ \A r \in 1 .. n : sessions'[r] = ended[r]
    BY <1>1, <1>3, <1>4
  <1>7. \A r \in DOMAIN sessions :
          /\ sessions'[r].user = sessions[r].user /\ sessions'[r].family = sessions[r].family
          /\ Live(r)' => Live(r)
    BY <1>3, <1>4, <1>6 DEF Live
  <1>8. \A r \in DOMAIN sessions' \ DOMAIN sessions : sessions'[r] = new
    BY <1>3, <1>6
  <1>9. \A d \in Clients : procs'[d] = IF d = c THEN Idle ELSE procs[d]
    BY <1>1 DEF IInv, RequestsKnow, Become
  <1>10. GoogleWithAddress'
    BY <1>1 DEF Seen, GoogleWithAddress
  <1>11. BlockedStaysOut'
    <2>1. ASSUME NEW r \in DOMAIN sessions', Live(r)', users'[sessions'[r].user] = "blocked"
          PROVE  sessions'[r].family = r
      <3>1. r \in DOMAIN sessions
        BY <1>1, <1>2, <1>5, <1>8, <2>1
      <3> QED
        BY <1>1, <1>7, <2>1, <3>1 DEF Seen, BlockedStaysOut
    <2> QED
      BY <2>1 DEF BlockedStaysOut
  <1>12. ASSUME NEW d \in Clients PROVE Saw(d)'
    <2>1. CASE d = c
      BY <1>9, <2>1 DEF Saw, Idle
    <2>2. CASE d # c
      <3>1. procs'[d] = procs[d] /\ Saw(d)
        BY <1>9, <2>2 DEF Seen
      <3>2. Grown
        BY <1>1, <1>3, <1>6 DEF Grown
      <3>3. \A r \in DOMAIN sessions' \ DOMAIN sessions : KeyShare(sessions'[r].user)
        BY <1>1, <1>5, <1>8
      <3> QED
        BY <1>1, <1>7, <3>1, <3>2, <3>3, StillSeen DEF Saw
    <2> QED
      BY <2>1, <2>2
  <1> QED
    BY <1>10, <1>11, <1>12 DEF Seen

(* Sessions end, and whoever is blocked by that has none left.             *)
LEMMA EndSeen ==
    ASSUME IInv, IInv', Seen, NEW R, Ended(R), UNCHANGED <<owner, otps, challenges>>,
           DOMAIN users' = DOMAIN users, \A d \in Clients : procs'[d] \in {procs[d], Idle},
           \A u \in DOMAIN users :
              \/ users'[u] \in {users[u], "active"}
              \/ /\ \A s \in DOMAIN sessions : sessions[s].user = u /\ Live(s) => s \in R
                 /\ \A d \in Clients : procs'[d].phase = "rotating" =>
                      sessions[procs[d].session].user # u
    PROVE  Seen'
  <1>1. \A s \in DOMAIN sessions : sessions[s] \in AuthSession
    BY Tables DEF IInv
  <1>2. ASSUME NEW s \in DOMAIN sessions
        PROVE  /\ sessions'[s].user = sessions[s].user /\ sessions'[s].family = sessions[s].family
               /\ Live(s)' <=> Live(s) /\ s \notin R
               /\ sessions[s].user \in DOMAIN users
    <2>1. sessions[s] \in AuthSession
      BY <1>1
    <2>2. CASE s \in R
      <3>1. sessions'[s] = [sessions[s] EXCEPT !.status = "revoked"]
        BY <2>2 DEF Ended
      <3> QED
        BY <2>1, <2>2, <3>1 DEF AuthSession, Live
    <2>3. CASE s \notin R
      BY <2>1, <2>3 DEF Ended, Live, AuthSession
    <2> QED
      BY <2>2, <2>3
  <1>3. GoogleWithAddress'
    BY DEF Seen, GoogleWithAddress
  <1>4. BlockedStaysOut'
    <2>1. ASSUME NEW s \in DOMAIN sessions, Live(s)', users'[sessions'[s].user] = "blocked"
          PROVE  sessions'[s].family = s
      <3>1. Live(s) /\ s \notin R /\ users[sessions[s].user] = "blocked"
        BY <1>2, <2>1
      <3> QED
        BY <1>2, <3>1 DEF Seen, BlockedStaysOut
    <2> QED
      BY <2>1 DEF BlockedStaysOut, Ended
  <1>5. ASSUME NEW d \in Clients PROVE Saw(d)'
    <2>1. CASE procs'[d] = Idle
      BY <2>1 DEF Saw, Idle
    <2>2. CASE procs'[d] = procs[d]
      <3>1. Saw(d)
        BY DEF Seen
      <3>2. Grown
        BY DEF Grown, Ended
      <3>3. ASSUME procs[d].phase = "rotating"
            PROVE  users'[sessions[procs[d].session].user] = "active"
        <4>1. procs[d].session \in DOMAIN sessions
          BY <3>3 DEF IInv, RequestsKnow, Knows, Rotates
        <4>2. users[sessions[procs[d].session].user] = "active"
          BY <3>1, <3>3 DEF Saw
        <4> QED
          BY <1>2, <2>2, <3>3, <4>1, <4>2
      <3>4. \A r \in DOMAIN sessions' \ DOMAIN sessions : FALSE
        BY DEF Ended
      <3> QED
        BY <1>2, <2>2, <3>1, <3>2, <3>3, <3>4, StillSeen
    <2> QED
      BY <2>1, <2>2
  <1> QED
    BY <1>3, <1>4, <1>5 DEF Seen

(* A blocking waits for whoever is refreshing one of the user's sessions.  *)
LEMMA RevokeSeen ==
    ASSUME IInv, IInv', Seen, NEW c \in Clients, Revoke(c)
    PROVE  Seen'
  <1> DEFINE it == procs[c]
             R == Targets(it)
  <1>1. /\ it.phase = "revoking" /\ Become(c, Idle)
        /\ Free({SessionRow(r) : r \in it.targets} \ it.rows)
        /\ users' = IF it.user = None THEN users ELSE [users EXCEPT ![it.user] = "blocked"]
        /\ UNCHANGED <<owner, otps, challenges>>
    BY DEF Revoke, codes
  <1>2. Ended(R)
    BY RevokeStep
  <1>3. DOMAIN users' = DOMAIN users
    BY <1>1
  <1>4. \A d \in Clients : procs'[d] = IF d = c THEN Idle ELSE procs[d]
    BY <1>1 DEF IInv, RequestsKnow, Become
  <1>5. ASSUME NEW u \in DOMAIN users, users'[u] # users[u]
        PROVE  /\ \A s \in DOMAIN sessions : sessions[s].user = u /\ Live(s) => s \in R
               /\ \A d \in Clients : procs'[d].phase = "rotating" =>
                    sessions[procs[d].session].user # u
    <2>1. it.user = u /\ u # None
      BY <1>1, <1>5, Tables DEF IInv
    <2>2. Blocks(it)
      BY <1>1, <2>1 DEF Seen, Saw
    <2>3. ASSUME NEW s \in DOMAIN sessions, sessions[s].user = u, Live(s) PROVE s \in R
      BY <2>1, <2>2, <2>3 DEF Blocks, Targets
    <2>4. ASSUME NEW d \in Clients, procs'[d].phase = "rotating",
                 sessions[procs[d].session].user = u
          PROVE  FALSE
      <3> DEFINE s == procs[d].session
      <3>1. d # c /\ procs[d].phase = "rotating"
        BY <1>4, <2>4 DEF Idle
      <3>2. s \in DOMAIN sessions /\ Live(s) /\ SessionRow(s) \in procs[d].rows
        BY <3>1 DEF IInv, RequestsKnow, Knows, Rotates
      <3>3. s \in it.targets
        BY <2>3, <2>4, <3>2 DEF Targets
      <3>4. CASE SessionRow(s) \in it.rows
        BY <3>1, <3>2, <3>4 DEF IInv, LocksApart
      <3>5. CASE SessionRow(s) \notin it.rows
        BY <1>1, <3>2, <3>3, <3>5 DEF Free
      <3> QED
        BY <3>4, <3>5
    <2> QED
      BY <2>3, <2>4
  <1> HIDE DEF R
  <1> QED
    BY <1>1, <1>2, <1>3, <1>4, <1>5, EndSeen

(* A reuse is noticed or a blocking begins: it sees what there is.         *)
LEMMA RevokingSeen ==
    ASSUME IInv, Seen, NEW c \in Clients,
           \/ \E s \in DOMAIN sessions : DetectReuse(c, s)
           \/ \E u \in DOMAIN users : BlockUser(c, u)
    PROVE  Seen'
  <1> USE DEF accounts, tokens
  <1>1. ASSUME NEW rows, NEW user, NEW replay, NEW match, match \subseteq DOMAIN sessions,
               Become(c, Revoking(rows, user, replay, match)),
               UNCHANGED <<users, owner, sessions>>,
               IF user = None
               THEN \A r \in DOMAIN sessions :
                      r \in match <=> r <= replay.at /\ sessions[r].family = replay.family
               ELSE /\ UserRow(user) \in rows
                    /\ \A r \in DOMAIN sessions : r \in match <=> sessions[r].user = user
        PROVE  Seen'
    <2> DEFINE state == Revoking(rows, user, replay, match)
    <2>1. /\ state.phase = "revoking" /\ state.rows = rows /\ state.user = user
          /\ state.replay = replay /\ state.targets = {r \in match : Live(r)}
      BY DEF Revoking
    <2> HIDE DEF state
    <2>2. \A d \in Clients : procs'[d] = IF d = c THEN state ELSE procs[d]
      BY <1>1 DEF IInv, RequestsKnow, Become, state
    <2>3. IF user = None THEN Answers(state) ELSE Blocks(state)
      BY <1>1, <2>1 DEF Answers, Blocks
    <2>4. state.targets \subseteq DOMAIN sessions
      BY <1>1, <2>1
    <2>5. Saw(c)'
      BY <1>1, <2>1, <2>2, <2>3, <2>4 DEF Saw, Answers, Blocks, Live
    <2> QED
      BY <1>1, <2>2, <2>5, SeenAlike
  <1>2. ASSUME NEW s \in DOMAIN sessions, DetectReuse(c, s) PROVE Seen'
    <2> DEFINE replay == [family |-> sessions[s].family, at |-> Len(sessions)]
    <2>1. DOMAIN sessions = 1 .. Len(sessions) /\ Len(sessions) \in Nat
      BY Tables DEF IInv
    <2>2. \A r \in DOMAIN sessions :
            r \in FamilyOf(s) <=> r <= replay.at /\ sessions[r].family = replay.family
      BY <2>1 DEF FamilyOf
    <2>3. FamilyOf(s) \subseteq DOMAIN sessions
      BY DEF FamilyOf
    <2> HIDE DEF replay
    <2>4. Become(c, Revoking({SessionRow(s)}, None, replay, FamilyOf(s)))
          /\ UNCHANGED <<users, owner, sessions>>
      BY <1>2 DEF DetectReuse, replay
    <2> QED
      BY <1>1, <2>2, <2>3, <2>4
  <1>3. ASSUME NEW u \in DOMAIN users, BlockUser(c, u) PROVE Seen'
    <2>1. u # None
      BY Tables DEF IInv
    <2>2. Become(c, Revoking({UserRow(u)}, u, None, SessionsOf(u)))
          /\ UNCHANGED <<users, owner, sessions>>
      BY <1>3 DEF BlockUser
    <2>3. SessionsOf(u) \subseteq DOMAIN sessions
          /\ \A r \in DOMAIN sessions : r \in SessionsOf(u) <=> sessions[r].user = u
      BY DEF SessionsOf
    <2> QED
      BY <1>1, <2>1, <2>2, <2>3
  <1> QED
    BY <1>2, <1>3

(* At first there is nothing to see, and every step keeps what was seen.   *)
LEMMA SeenInit == Init => Seen
  BY DEF Init, Seen, GoogleWithAddress, BlockedStaysOut, Saw, Idle, Identities

LEMMA SeenNext ==
    ASSUME IInv, IInv', Seen, [Next]_vars
    PROVE  Seen'
  <1>1. CASE Calm
    <2>1. \A d \in Clients : procs'[d] = procs[d] \/ Saw(d)'
      BY <1>1 DEF Calm
    <2> QED
      BY <1>1, <2>1, SeenAlike DEF Calm
  <1>2. ASSUME NEW c \in Clients, Crash(c) PROVE Seen'
    <2>1. Become(c, Idle) /\ UNCHANGED <<users, owner, otps, challenges, sessions>>
      BY <1>2 DEF Crash, accounts, codes, tokens
    <2>2. \A d \in Clients : procs'[d] \in {procs[d], Idle}
      BY <2>1 DEF IInv, RequestsKnow, Become
    <2>3. Ended({})
      BY <2>1 DEF Ended
    <2> QED
      BY <2>1, <2>2, <2>3, EndSeen
  <1>3. ASSUME NEW s \in DOMAIN sessions, RefreshExpired(s) \/ Logout(s) PROVE Seen'
    <2>1. UNCHANGED <<users, owner, otps, challenges, procs>>
      BY <1>3 DEF RefreshExpired, Logout, accounts, codes
    <2> QED
      BY <1>3, <2>1, ExpiryStep, EndSeen
  <1>4. ASSUME NEW u \in DOMAIN users, UnblockUser(u) PROVE Seen'
    <2>1. /\ users' = [users EXCEPT ![u] = "active"]
          /\ UNCHANGED <<owner, otps, challenges, sessions, procs>>
      BY <1>4 DEF UnblockUser, codes, tokens
    <2>2. Ended({})
      BY <2>1 DEF Ended
    <2>3. \A v \in DOMAIN users : users'[v] \in {users[v], "active"}
      BY <2>1
    <2> QED
      BY <2>1, <2>2, <2>3, EndSeen
  <1> QED
    BY <1>1, <1>2, <1>3, <1>4, StepsCalm, LoginSeen, RotateSeen, RevokeSeen, RevokingSeen

-----------------------------------------------------------------------------
(* Theorems *)

(* The two invariants hold of every behaviour.                             *)
LEMMA Invariants == Spec => [](IInv /\ Seen)
  <1>1. Init => IInv /\ Seen
    BY InvInit, SeenInit
  <1>2. IInv /\ Seen /\ [Next]_vars => (IInv /\ Seen)'
    BY InvNext, SeenNext
  <1> QED
    BY <1>1, <1>2, PTL DEF Spec

(* The tables of users, codes, challenges and sessions keep their types    *)
(* and their bounds.                                                       *)
THEOREM TypeCorrect == Spec => []TypeOK
  <1>1. IInv => TypeOK
    BY DEF IInv
  <1> QED
    BY <1>1, Invariants, PTL

(* verify_email, verify_registration and verify_telegram_login lock what   *)
(* they use and consume it with the session they commit: a code, a         *)
(* registration or a confirmation lets one person in once, whoever         *)
(* presents it at the same time, and a guessed code dies.                  *)
THEOREM CodesAlwaysWorkOnce == Spec => []CodesWorkOnce
  <1>1. IInv => CodesWorkOnce
    BY DEF IInv
  <1> QED
    BY <1>1, Invariants, PTL

(* Only a login that commits binds an identity, and only one that had no   *)
(* user.                                                                   *)
LEMMA OwnersKept ==
    ASSUME [Next]_vars
    PROVE  \/ UNCHANGED owner
           \/ \E c \in Clients : IssueLogin(c) /\ ~Taken(procs[c])
  <1> USE DEF accounts, codes
  <1>1. ASSUME NEW c \in Clients, Login(c), UNCHANGED owner \/ IssueLogin(c)
        PROVE  UNCHANGED owner \/ (IssueLogin(c) /\ ~Taken(procs[c]))
    BY <1>1 DEF IssueLogin
  <1>2. ASSUME NEW c \in Clients, Login(c) PROVE UNCHANGED owner \/ IssueLogin(c)
    BY <1>2 DEF Login, VerifyEmail, AuthenticatePassword, AuthenticateGoogle, AuthenticateTelegram,
                VerifyRegistration, CompleteRegistration, VerifyTelegramLogin, Finalize, Issue
  <1>3. ASSUME NEW c \in Clients, Session(c) \/ Crash(c) PROVE UNCHANGED owner
    BY <1>3 DEF Session, Refresh, DetectReuse, BlockUser, Rotate, Revoke, Crash
  <1>4. ASSUME Codes PROVE UNCHANGED owner
    BY <1>4 DEF Codes, StartEmailAuth, StartRegistration, CommitStart, RefuseCode,
                StartTelegramLogin, ApproveInBot
  <1>5. CASE UNCHANGED vars
    BY <1>5 DEF vars
  <1> QED
    BY <1>1, <1>2, <1>3, <1>4, <1>5 DEF Next, RefreshExpired, Logout, UnblockUser

(* block_user locks the user's row and ends the sessions it finds, while a *)
(* refresh has read an active user and holds one of them: a user who is    *)
(* blocked has no live session but from a login that was under way, and    *)
(* none that a refresh prolonged.                                          *)
THEOREM BlockedAlwaysStaysOut == Spec => []BlockedStaysOut
  <1>1. Seen => BlockedStaysOut
    BY DEF Seen
  <1> QED
    BY <1>1, Invariants, PTL

(* Simultaneous first logins over several ways take no identity away from  *)
(* the user it belongs to, leave no user without one, no password without  *)
(* an address and no Google account with another user than its address.    *)
THEOREM AccountsAlwaysKept == Spec => AccountsKept
  <1>1. ASSUME IInv, IInv', Seen', [Next]_vars
        PROVE  [/\ \A i \in Identities : owner[i] # None => owner'[i] = owner[i]
                /\ \A u \in DOMAIN users' : \E i \in Identities : owner'[i] = u
                /\ \A u \in passwords' : \E e \in Emails : owner'[e] = u
                /\ \A g \in Googles : owner'[g] # None => owner'[g] = owner'[EmailOf[g]]]_vars
    <2>1. ASSUME NEW c \in Clients, IssueLogin(c), ~Taken(procs[c]), NEW i \in Identities,
                 owner[i] # None
          PROVE  owner'[i] = owner[i]
      BY <2>1 DEF IssueLogin, Attached, Taken
    <2>2. \A i \in Identities : owner[i] # None => owner'[i] = owner[i]
      BY <1>1, <2>1, OwnersKept
    <2>3. Reachable' /\ GoogleWithAddress'
      BY <1>1 DEF IInv, Seen
    <2> QED
      BY <2>2, <2>3 DEF Reachable, GoogleWithAddress
  <1> QED
    BY <1>1, Invariants, PTL DEF Spec, AccountsKept

-----------------------------------------------------------------------------
(* The refinement of TokenFamilies *)

(* The live tokens of each family, and reuse, as the refinement sees them. *)
LiveOf == [f \in 1 .. MaxSessions |-> {s \in DOMAIN sessions : sessions[s].family = f /\ Live(s)}]
NoticedReuse == {Known(replay) : replay \in replays \cup Noticed}
AnsweredReuse == {Known(replay) : replay \in replays}

(* Reuse is noticed and answered by nobody else.                           *)
LEMMA NoticedAlone ==
    ASSUME IInv, NEW c \in Clients, NEW state, Become(c, state),
           ~(procs[c].phase = "revoking" /\ procs[c].user = None),
           ~(state.phase = "revoking" /\ state.user = None)
    PROVE  Noticed' = Noticed
  <1>1. \A d \in Clients : procs'[d] = IF d = c THEN state ELSE procs[d]
    BY DEF IInv, RequestsKnow, Become
  <1>2. \A x : x \in Noticed' <=> x \in Noticed
    BY <1>1 DEF Noticed
  <1> QED
    BY <1>2

(* A login opens a family.                                                 *)
LEMMA OpensFamily ==
    ASSUME IInv, IInv', NEW c \in Clients, IssueLogin(c), ~Taken(procs[c])
    PROVE  Families!Next
  <1> DEFINE n == Len(sessions)
             t == n + 1
  <1>1. \E u, via : sessions' = Append(sessions, NewSession(u, n + 1, via))
    BY DEF IssueLogin
  <1>2. PICK u, via : sessions' = Append(sessions, NewSession(u, n + 1, via))
    BY <1>1
  <1>3. /\ sessions \in Seq(AuthSession) /\ n \in Nat /\ DOMAIN sessions = 1 .. n
        /\ \A s \in 1 .. n : sessions[s] \in AuthSession
    BY Tables DEF IInv
  <1>4. /\ DOMAIN sessions' = 1 .. n + 1 /\ Len(sessions') = n + 1
        /\ sessions'[n + 1].family = n + 1 /\ sessions'[n + 1].status = "live"
        /\ \A s \in 1 .. n : sessions'[s] = sessions[s]
    BY <1>2, <1>3 DEF NewSession
  <1>5. \A s \in 1 .. n : sessions[s].family \in 1 .. n
    BY <1>3 DEF AuthSession
  <1>6. n + 1 <= MaxSessions /\ MaxSessions \in Nat
    BY <1>4, BoundsAssumption DEF IInv, TypeOK
  <1>7. t \in 1 .. MaxSessions /\ t \notin DOMAIN sessions
        /\ DOMAIN sessions' = DOMAIN sessions \cup {t}
    BY <1>3, <1>4, <1>6
  <1>8. ASSUME NEW f \in 1 .. MaxSessions
        PROVE  LiveOf'[f] = IF f = t THEN {t} ELSE LiveOf[f]
    <2>1. LiveOf'[f] = {s \in 1 .. n + 1 : sessions'[s].family = f /\ sessions'[s].status = "live"}
      BY <1>4 DEF LiveOf, Live
    <2>2. LiveOf[f] = {s \in 1 .. n : sessions[s].family = f /\ sessions[s].status = "live"}
      BY <1>3 DEF LiveOf, Live
    <2>3. CASE f = t
      BY <1>3, <1>4, <1>5, <2>1, <2>3
    <2>4. CASE f # t
      BY <1>3, <1>4, <2>1, <2>2, <2>4
    <2> QED
      BY <2>3, <2>4
  <1>9. LiveOf' = [LiveOf EXCEPT ![t] = {t}]
    BY <1>7, <1>8 DEF LiveOf
  <1> HIDE DEF t
  <1>10. PICK token \in 1 .. MaxSessions : token = t
    BY <1>7
  <1>11. UNCHANGED replays /\ Noticed' = Noticed
    <2>1. /\ procs[c].phase = "issuing" /\ Become(c, Idle) /\ UNCHANGED replays
          /\ Idle.phase = "idle"
      BY DEF IssueLogin, Idle
    <2> QED
      BY <2>1, NoticedAlone
  <1>12. Families!Open(token)
    BY <1>7, <1>9, <1>10, <1>11 DEF Families!Open, Families!reuse, LiveOf
  <1> QED
    BY <1>12 DEF Families!Next

(* A refresh replaces the one live token of its family.                    *)
LEMMA RotatesFamily ==
    ASSUME IInv, IInv', NEW c \in Clients, Rotate(c)
    PROVE  Families!Next
  <1> DEFINE s == procs[c].session
             n == Len(sessions)
             t == n + 1
             ended == [sessions EXCEPT ![s].status = "rotated"]
             new == NewSession(sessions[s].user, sessions[s].family, None)
             f == sessions[s].family
  <1>1. sessions' = Append(ended, new) /\ s \in DOMAIN sessions /\ Live(s)
    BY DEF Rotate, IInv, RequestsKnow, Knows, Rotates
  <1>2. /\ sessions \in Seq(AuthSession) /\ n \in Nat /\ DOMAIN sessions = 1 .. n
        /\ \A r \in 1 .. n : sessions[r] \in AuthSession
    BY Tables DEF IInv
  <1>3. /\ ended \in Seq(AuthSession) /\ Len(ended) = n
        /\ \A r \in DOMAIN sessions :
             /\ ended[r].family = sessions[r].family
             /\ ended[r].status = IF r = s THEN "rotated" ELSE sessions[r].status
    BY <1>1, SessionReplaced DEF IInv
  <1>4. new.family = f /\ new.status = "live"
    BY DEF NewSession
  <1>5. f \in 1 .. n
    BY <1>1, <1>2 DEF AuthSession
  <1> HIDE DEF s, ended, new, f
  <1>6. /\ DOMAIN sessions' = 1 .. n + 1 /\ Len(sessions') = n + 1
        /\ sessions'[n + 1] = new /\ \A r \in 1 .. n : sessions'[r] = ended[r]
    BY <1>1, <1>2, <1>3
  <1>7. n + 1 <= MaxSessions /\ MaxSessions \in Nat
    BY <1>6, BoundsAssumption DEF IInv, TypeOK
  <1>8. /\ t \in 1 .. MaxSessions /\ f \in 1 .. MaxSessions /\ t \notin DOMAIN sessions
        /\ DOMAIN sessions' = DOMAIN sessions \cup {t}
    BY <1>2, <1>5, <1>6, <1>7
  <1>9. \A r \in 1 .. n : sessions'[r].family = sessions[r].family
                         /\ (sessions'[r].status = "live" <=> sessions[r].status = "live" /\ r # s)
    BY <1>2, <1>3, <1>6
  <1>10. \A r \in 1 .. n : sessions[r].family = f /\ sessions[r].status = "live" => r = s
    BY <1>1, <1>2 DEF IInv, OneLive, Live, f
  <1>11. ASSUME NEW g \in 1 .. MaxSessions
         PROVE  LiveOf'[g] = IF g = f THEN {t} ELSE LiveOf[g]
    <2>1. LiveOf'[g] = {r \in 1 .. n + 1 : sessions'[r].family = g /\ sessions'[r].status = "live"}
      BY <1>6 DEF LiveOf, Live
    <2>2. LiveOf[g] = {r \in 1 .. n : sessions[r].family = g /\ sessions[r].status = "live"}
      BY <1>2 DEF LiveOf, Live
    <2>3. CASE g = f
      BY <1>2, <1>4, <1>6, <1>9, <1>10, <2>1, <2>3
    <2>4. CASE g # f
      <3>1. sessions[s].family # g
        BY <2>4 DEF f
      <3> QED
        BY <1>2, <1>4, <1>6, <1>9, <2>1, <2>2, <2>4, <3>1
    <2> QED
      BY <2>3, <2>4
  <1>12. LiveOf' = [LiveOf EXCEPT ![f] = {t}]
    BY <1>8, <1>11 DEF LiveOf
  <1>13. LiveOf[f] # {}
    BY <1>1, <1>8 DEF LiveOf, f
  <1> HIDE DEF t
  <1>14. PICK token \in 1 .. MaxSessions, family \in 1 .. MaxSessions : token = t /\ family = f
    BY <1>8
  <1>15. UNCHANGED replays /\ Noticed' = Noticed
    <2>1. /\ procs[c].phase = "rotating" /\ Become(c, Idle) /\ UNCHANGED replays
          /\ Idle.phase = "idle"
      BY DEF Rotate, Idle
    <2> QED
      BY <2>1, NoticedAlone
  <1>16. Families!Rotate(family, token)
    BY <1>8, <1>12, <1>13, <1>14, <1>15 DEF Families!Rotate, Families!reuse, LiveOf
  <1> QED
    BY <1>16 DEF Families!Next

(* What becomes of the live tokens when sessions end.                      *)
LEMMA TokensEnd ==
    ASSUME IInv, NEW R, Ended(R), NEW f \in 1 .. MaxSessions
    PROVE  LiveOf'[f] = LiveOf[f] \ R
  <1>1. \A s \in DOMAIN sessions : sessions[s] \in AuthSession
    BY Tables DEF IInv
  <1>2. ASSUME NEW s \in DOMAIN sessions
        PROVE  sessions'[s].family = sessions[s].family /\ (Live(s)' <=> Live(s) /\ s \notin R)
    <2>1. CASE s \in R
      <3>1. sessions'[s] = [sessions[s] EXCEPT !.status = "revoked"]
        BY <2>1 DEF Ended
      <3> QED
        BY <1>1, <2>1, <3>1 DEF AuthSession, Live
    <2>2. CASE s \notin R
      BY <2>2 DEF Ended, Live
    <2> QED
      BY <2>1, <2>2
  <1> QED
    BY <1>2 DEF LiveOf, Ended

(* Logout, expiry and blocking end families.                               *)
LEMMA EndsFamilies ==
    ASSUME IInv, NEW R, Ended(R), UNCHANGED replays, Noticed' = Noticed
    PROVE  Families!Next
  <1>1. ASSUME NEW f \in 1 .. MaxSessions PROVE LiveOf'[f] \in {LiveOf[f], {}}
    <2>1. LiveOf'[f] = LiveOf[f] \ R
      BY TokensEnd
    <2>2. \A s, r \in LiveOf[f] : s = r
      BY DEF LiveOf, IInv, OneLive
    <2> QED
      BY <2>1, <2>2
  <1>2. LiveOf' = [f \in 1 .. MaxSessions |-> LiveOf'[f]]
    BY DEF LiveOf
  <1>3. Families!End
    BY <1>1, <1>2 DEF Families!End, Families!reuse, LiveOf, Ended
  <1> QED
    BY <1>3 DEF Families!Next

(* The answer to a reuse ends every token that had been handed out when it *)
(* was noticed.                                                            *)
LEMMA AnswersReuse ==
    ASSUME IInv, Seen, NEW c \in Clients, Revoke(c), procs[c].user = None
    PROVE  Families!Next
  <1> DEFINE it == procs[c]
             f == it.replay.family
             known == 1 .. it.replay.at
             R == Targets(it)
  <1>1. /\ it.phase = "revoking" /\ Become(c, Idle) /\ replays' = replays \cup {it.replay}
    BY DEF Revoke
  <1>2. it.replay \in Replay /\ Answers(it)
    BY <1>1 DEF IInv, RequestsKnow, Knows, Revokes, Seen, Saw
  <1>3. /\ DOMAIN sessions = 1 .. Len(sessions) /\ Len(sessions) \in Nat
        /\ Len(sessions) <= MaxSessions /\ MaxSessions \in Nat
    BY Tables, BoundsAssumption DEF IInv, TypeOK
  <1>4. f \in 1 .. MaxSessions /\ it.replay.at \in 1 .. MaxSessions
    BY <1>2, <1>3 DEF Replay
  <1>5. Ended(R)
    BY RevokeStep
  <1>6. \A d \in Clients : procs'[d] = IF d = c THEN Idle ELSE procs[d]
    BY <1>1 DEF IInv, RequestsKnow, Become
  <1>7. it.replay \in Noticed
    BY <1>1 DEF Noticed
  <1>8. replays' \cup Noticed' = replays \cup Noticed
    <2>1. \A x : x \in Noticed' => x \in Noticed
      BY <1>6 DEF Noticed, Idle
    <2>2. \A x : x \in Noticed => x \in Noticed' \/ x = it.replay
      BY <1>6 DEF Noticed
    <2> QED
      BY <1>1, <1>7, <2>1, <2>2
  <1>9. ASSUME NEW g \in 1 .. MaxSessions
        PROVE  LiveOf'[g] = IF g = f THEN LiveOf[g] \ known ELSE LiveOf[g]
    <2>1. LiveOf'[g] = LiveOf[g] \ R
      BY <1>5, TokensEnd
    <2>2. \A r \in LiveOf[g] : r \in R <=> r <= it.replay.at /\ g = f
      BY <1>2 DEF LiveOf, Answers, Targets
    <2>3. \A r \in LiveOf[g] : r \in known <=> r <= it.replay.at
      BY <1>3, <1>4 DEF LiveOf
    <2> HIDE DEF R, known, f
    <2> QED
      BY <2>1, <2>2, <2>3
  <1>10. LiveOf' = [LiveOf EXCEPT ![f] = LiveOf[f] \ known]
    BY <1>4, <1>9 DEF LiveOf
  <1>11. /\ <<f, known>> = Known(it.replay) /\ Known(it.replay) \in NoticedReuse
         /\ AnsweredReuse' = AnsweredReuse \cup {<<f, known>>}
         /\ NoticedReuse' = NoticedReuse
    <2>1. <<f, known>> = Known(it.replay)
      BY DEF Known
    <2>2. NoticedReuse' = NoticedReuse
      BY <1>8 DEF NoticedReuse, Known
    <2>3. AnsweredReuse' = AnsweredReuse \cup {Known(it.replay)}
      BY <1>1 DEF AnsweredReuse, Known
    <2> QED
      BY <1>7, <2>1, <2>2, <2>3 DEF NoticedReuse
  <1>12. known \in SUBSET (1 .. MaxSessions) /\ DOMAIN sessions' = DOMAIN sessions
    <2>1. known \subseteq 1 .. MaxSessions
      BY <1>3, <1>4
    <2> QED
      BY <1>5, <2>1 DEF Ended
  <1> HIDE DEF f, known
  <1>13. PICK family \in 1 .. MaxSessions, old \in SUBSET (1 .. MaxSessions) :
           family = f /\ old = known
    BY <1>4, <1>12 DEF f
  <1>14. Families!Answer(family, old)
    BY <1>10, <1>11, <1>12, <1>13 DEF Families!Answer, LiveOf, NoticedReuse, AnsweredReuse
  <1> QED
    BY <1>14 DEF Families!Next

(* A reuse is noticed.                                                     *)
LEMMA NoticesReuse ==
    ASSUME IInv, NEW c \in Clients, NEW s \in DOMAIN sessions, DetectReuse(c, s)
    PROVE  Families!Next
  <1> DEFINE f == sessions[s].family
             replay == [family |-> f, at |-> Len(sessions)]
             state == Revoking({SessionRow(s)}, None, replay, FamilyOf(s))
  <1>1. /\ Ready(c) /\ Become(c, state) /\ UNCHANGED <<sessions, replays>>
    BY DEF DetectReuse, tokens
  <1>2. state.phase = "revoking" /\ state.user = None /\ state.replay = replay
    BY DEF Revoking
  <1>3. replay.family = f /\ replay.at = Len(sessions)
    OBVIOUS
  <1>4. /\ f \in DOMAIN sessions /\ DOMAIN sessions = 1 .. Len(sessions)
        /\ Len(sessions) \in Nat /\ Len(sessions) <= MaxSessions /\ MaxSessions \in Nat
    BY Tables, BoundsAssumption DEF IInv, TypeOK, AuthSession
  <1> HIDE DEF replay, state
  <1>5. \A d \in Clients : procs'[d] = IF d = c THEN state ELSE procs[d]
    BY <1>1 DEF IInv, RequestsKnow, Become
  <1>6. Noticed' = Noticed \cup {replay}
    <2>1. \A x : x \in Noticed' => x \in Noticed \/ x = replay
      BY <1>2, <1>5 DEF Noticed
    <2>2. \A x : x \in Noticed => x \in Noticed'
      BY <1>1, <1>5 DEF Noticed, Ready
    <2>3. replay \in Noticed'
      BY <1>2, <1>5 DEF Noticed
    <2> QED
      BY <2>1, <2>2, <2>3
  <1>7. NoticedReuse' = NoticedReuse \cup {<<f, DOMAIN sessions>>}
    <2>1. Known(replay) = <<f, DOMAIN sessions>>
      BY <1>3, <1>4 DEF Known
    <2>2. NoticedReuse' = NoticedReuse \cup {Known(replay)}
      BY <1>1, <1>6 DEF NoticedReuse, Known
    <2> QED
      BY <2>1, <2>2
  <1>8. Families!Notice(f)
    BY <1>1, <1>4, <1>7 DEF Families!Notice, NoticedReuse, Live
  <1> QED
    BY <1>4, <1>8 DEF Families!Next

(* Whoever dies while answering gives up.                                  *)
LEMMA GivesUp ==
    ASSUME IInv, NEW c \in Clients, Crash(c)
    PROVE  Families!Next
  <1>1. Become(c, Idle) /\ UNCHANGED <<sessions, replays>>
    BY DEF Crash, tokens
  <1>2. \A d \in Clients : procs'[d] = IF d = c THEN Idle ELSE procs[d]
    BY <1>1 DEF IInv, RequestsKnow, Become
  <1>3. \A x : x \in Noticed' => x \in Noticed
    BY <1>2 DEF Noticed, Idle
  <1>4. NoticedReuse' \subseteq NoticedReuse
    BY <1>1, <1>3 DEF NoticedReuse, Known
  <1>5. AnsweredReuse' = AnsweredReuse /\ AnsweredReuse \subseteq NoticedReuse'
    BY <1>1 DEF AnsweredReuse, NoticedReuse, Known
  <1>6. Families!GiveUp
    BY <1>1, <1>4, <1>5 DEF Families!GiveUp, NoticedReuse, AnsweredReuse, Live
  <1> QED
    BY <1>6 DEF Families!Next

(* The steps that touch no token and begin and end no answer to a reuse.   *)
LEMMA Unnoticed ==
    ASSUME IInv, UNCHANGED <<sessions, replays>>, Noticed' = Noticed
    PROVE  UNCHANGED Families!vars
  BY DEF Families!vars, Live, Known

(* A calm step begins and ends no answer.                                  *)
LEMMA CalmUnnoticed ==
    ASSUME Calm
    PROVE  Noticed' = Noticed
  <1>1. \A x : x \in Noticed' <=> x \in Noticed
    BY DEF Calm, Noticed
  <1> QED
    BY <1>1

(* The sessions implement TokenFamilies: rotation under the lock of the    *)
(* session keeps at most one live token in a family; what logout, expiry   *)
(* or blocking ended never comes back to life; and a reuse that is on      *)
(* record has ended every token handed out before it was noticed.          *)
THEOREM FamiliesAlwaysKept == Spec => KeepsFamilies
  <1>1. Init => Families!Init
    BY DEF Init, Families!Init, Noticed, Idle
  <1>2. ASSUME IInv, IInv', Seen, [Next]_vars PROVE [Families!Next]_(Families!vars)
    <2>1. CASE Calm
      BY <1>2, <2>1, CalmUnnoticed, Unnoticed DEF Calm
    <2>2. ASSUME NEW s \in DOMAIN sessions, RefreshExpired(s) \/ Logout(s) PROVE Families!Next
      <3>1. UNCHANGED <<replays, procs>>
        BY <2>2 DEF RefreshExpired, Logout
      <3>2. Noticed' = Noticed
        BY <3>1 DEF Noticed
      <3> QED
        BY <1>2, <2>2, <3>1, <3>2, ExpiryStep, EndsFamilies
    <2>3. ASSUME NEW c \in Clients, Revoke(c), procs[c].user # None PROVE Families!Next
      <3>1. Become(c, Idle) /\ UNCHANGED replays /\ Idle.phase = "idle"
        BY <2>3 DEF Revoke, Idle
      <3>2. Noticed' = Noticed
        BY <1>2, <2>3, <3>1, NoticedAlone
      <3> QED
        BY <1>2, <2>3, <3>1, <3>2, RevokeStep, EndsFamilies
    <2>4. ASSUME NEW c \in Clients, NEW u \in DOMAIN users, BlockUser(c, u)
          PROVE  UNCHANGED Families!vars
      <3> DEFINE state == Revoking({UserRow(u)}, u, None, SessionsOf(u))
      <3>1. Ready(c) /\ Become(c, state) /\ UNCHANGED <<sessions, replays>>
        BY <2>4 DEF BlockUser, tokens
      <3>2. state.user = u /\ u # None
        BY <1>2, Tables DEF IInv, Revoking
      <3> HIDE DEF state
      <3>3. Noticed' = Noticed
        BY <1>2, <3>1, <3>2, NoticedAlone DEF Ready
      <3> QED
        BY <1>2, <3>1, <3>3, Unnoticed
    <2>5. ASSUME NEW u \in DOMAIN users, UnblockUser(u) PROVE UNCHANGED Families!vars
      <3>1. UNCHANGED <<sessions, replays, procs>>
        BY <2>5 DEF UnblockUser, tokens
      <3>2. Noticed' = Noticed
        BY <3>1 DEF Noticed
      <3> QED
        BY <1>2, <3>1, <3>2, Unnoticed
    <2> QED
      BY <1>2, <2>1, <2>2, <2>3, <2>4, <2>5, StepsCalm, OpensFamily, RotatesFamily, AnswersReuse,
         NoticesReuse, GivesUp
  <1> QED
    BY <1>1, <1>2, Invariants, PTL DEF Spec, KeepsFamilies, Families!Spec

-----------------------------------------------------------------------------
(* The support desk, its staff and the worker of its outbox *)

(* What the rows are made of.                                              *)
EventRow ==
    [type : ToCustomer \cup ToOperations \cup {"updated"}, about : Nat, published : BOOLEAN,
     leased : BOOLEAN, attempts : Nat]

TicketRow == [status : Statuses, assignee : People \cup {Null}, version : Nat]

(* What names a request: the ticket, who sent it and its key.              *)
Scopes == Nat \X (People \cup {Customer}) \X Keys

MessageRow ==
    [ticket : Nat, by : People \cup {Customer, Null},
     type : {"message", "internal_note", "system"}, scope : Scopes \cup {Null}]

(* What an operator has on the screen.                                     *)
Page == [of : Nat, ticket : TicketRow, count : Int]

(* The type of the state.                                                  *)
DeskTypeOK ==
    /\ tickets \in Seq(TicketRow) /\ messages \in Seq(MessageRow)
    /\ records \subseteq [scope : Scopes, message : Nat]
    /\ expired \subseteq Nat
    /\ pages \in [People -> Page \cup {Null}]
    /\ events \in Seq(EventRow)
    /\ sent \in Seq(SUBSET (Chats \cup {"customer"})) /\ Len(sent) = Len(events)
    /\ expiring \in Nat /\ queued \in Nat
    /\ polling \in BOOLEAN /\ reached \in BOOLEAN
    /\ batch \subseteq DOMAIN events

(* A message made for a request has the record of it, or the record is gone. *)
RecordsKept ==
    \A i \in DOMAIN messages :
        messages[i].scope # Null /\ i \notin expired =>
            [scope |-> messages[i].scope, message |-> i] \in records

(* Two messages of one request: the first has lost its record.             *)
AnsweredOnce ==
    \A i, j \in DOMAIN messages :
        i < j /\ messages[i].scope # Null /\ messages[i].scope = messages[j].scope => i \in expired

(* The events about the messages: one about each the customer may see.     *)
EventsAbout ==
    /\ \A e \in DOMAIN events : events[e].about <= Len(messages)
    /\ \A i \in DOMAIN messages :
         IF Public(i) THEN \E e \in DOMAIN events : \A f \in DOMAIN events : events[f].about = i <=> f = e
         ELSE \A f \in DOMAIN events : events[f].about # i

(* What the worker relies on between sending and marking.                  *)
WorkerKnows ==
    /\ polling => batch = {}
    /\ reached => /\ batch # {}
                  /\ events[Oldest].type \in ToOperations /\ sent[Oldest] = Chats

(* Events for the operators go to the operations chats.                    *)
ChatsOnly == \A e \in DOMAIN events : events[e].type \in ToOperations => sent[e] \subseteq Chats

(* What is marked published is for the operators, and they have it.        *)
PublishedIsSent ==
    \A e \in DOMAIN events :
        events[e].published => events[e].type \in ToOperations /\ sent[e] = Chats

(* What a page tells of the ticket as it is now. *)
PageKnows(p) ==
    pages[p] # Null =>
        \E t \in DOMAIN tickets :
            /\ pages[p].of = t
            /\ pages[p].ticket.version <= tickets[t].version
            /\ pages[p].ticket.version = tickets[t].version =>
                   pages[p].ticket = tickets[t] /\ pages[p].count \in {-1, Shown(t)}

(* The inductive invariant.                                                *)
DeskIInv ==
    /\ DeskTypeOK /\ RecordsKept /\ AnsweredOnce /\ EventsAbout
    /\ WorkerKnows /\ ChatsOnly /\ PublishedIsSent
    /\ \A p \in People : PageKnows(p)

-----------------------------------------------------------------------------
(* The outbox *)

(* A set of numbers has a least element; the worker has an oldest event.   *)
LEMMA Least ==
    ASSUME NEW S \in SUBSET Nat, S # {}
    PROVE  \E i \in S : \A j \in S : i <= j
  <1>1. PICK i \in S : \A j \in S : ~(<<j, i>> \in OpToRel(<, Nat))
    BY NatLessThanWellFounded, WFMin
  <1>2. \A j \in S : ~(j < i)
    BY <1>1 DEF OpToRel
  <1> QED
    BY <1>2

(* The event the worker delivers next is one of its batch.                 *)
LEMMA OldestIsDue ==
    ASSUME DeskTypeOK, batch # {}
    PROVE  Oldest \in batch /\ Oldest \in DOMAIN events
  <1>1. DOMAIN events \subseteq Nat
    BY DEF DeskTypeOK
  <1>2. \E i \in batch : \A j \in batch : i <= j
    BY <1>1, Least DEF DeskTypeOK
  <1> QED
    BY <1>2 DEF Oldest, DeskTypeOK

(* What a sequence is once it is longer.                                   *)
LEMMA Longer ==
    ASSUME NEW S, NEW s \in Seq(S), NEW t \in Seq(S)
    PROVE  /\ s \o t \in Seq(S) /\ Len(s \o t) = Len(s) + Len(t)
           /\ DOMAIN s = 1 .. Len(s) /\ DOMAIN t = 1 .. Len(t)
           /\ DOMAIN (s \o t) = 1 .. Len(s) + Len(t)
           /\ Len(s) \in Nat /\ Len(t) \in Nat
           /\ \A i \in 1 .. Len(s) : (s \o t)[i] = s[i]
           /\ \A i \in 1 .. Len(t) : (s \o t)[Len(s) + i] = t[i]
  OBVIOUS

(* ... and of one element more.                                            *)
LEMMA OneMore ==
    ASSUME NEW S, NEW s \in Seq(S), NEW x \in S
    PROVE  /\ Append(s, x) \in Seq(S) /\ Len(Append(s, x)) = Len(s) + 1 /\ Len(s) \in Nat
           /\ DOMAIN s = 1 .. Len(s) /\ DOMAIN Append(s, x) = 1 .. Len(s) + 1
           /\ \A i \in 1 .. Len(s) : Append(s, x)[i] = s[i]
           /\ Append(s, x)[Len(s) + 1] = x
  OBVIOUS

(* Events added to the outbox come after those that are there; nobody got  *)
(* them yet.                                                               *)
LEMMA Emitted ==
    ASSUME DeskTypeOK, NEW added \in Seq(EventRow), Emit(added)
    PROVE  /\ events' \in Seq(EventRow)
           /\ sent' \in Seq(SUBSET (Chats \cup {"customer"})) /\ Len(sent') = Len(events')
           /\ Len(events') = Len(events) + Len(added)
           /\ DOMAIN events = 1 .. Len(events) /\ DOMAIN events' = 1 .. Len(events')
           /\ Len(events) \in Nat /\ Len(added) \in Nat
           /\ \A e \in 1 .. Len(events) : events'[e] = events[e] /\ sent'[e] = sent[e]
           /\ \A i \in 1 .. Len(added) :
                events'[Len(events) + i] = added[i] /\ sent'[Len(events) + i] = {}
  <1> DEFINE T == SUBSET (Chats \cup {"customer"})
             none == [i \in DOMAIN added |-> {}]
  <1>1. /\ events \in Seq(EventRow) /\ sent \in Seq(T) /\ Len(sent) = Len(events)
        /\ events' = events \o added /\ sent' = sent \o none
    BY DEF DeskTypeOK, Emit
  <1>2. none \in Seq(T) /\ Len(none) = Len(added) /\ \A i \in 1 .. Len(added) : none[i] = {}
    <2>1. DOMAIN added = 1 .. Len(added) /\ Len(added) \in Nat
      OBVIOUS
    <2>2. none \in [1 .. Len(added) -> T]
      BY <2>1
    <2> QED
      BY <2>1, <2>2
  <1> HIDE DEF none, T
  <1>3. PICK s : s = sent
    OBVIOUS
  <1>4. PICK v : v = events
    OBVIOUS
  <1>5. /\ v \o added \in Seq(EventRow) /\ Len(v \o added) = Len(v) + Len(added)
        /\ DOMAIN v = 1 .. Len(v) /\ DOMAIN (v \o added) = 1 .. Len(v) + Len(added)
        /\ Len(v) \in Nat /\ Len(added) \in Nat
        /\ \A i \in 1 .. Len(v) : (v \o added)[i] = v[i]
        /\ \A i \in 1 .. Len(added) : (v \o added)[Len(v) + i] = added[i]
    BY <1>1, <1>4, Longer
  <1>6. /\ s \o none \in Seq(T) /\ Len(s \o none) = Len(s) + Len(none)
        /\ \A i \in 1 .. Len(s) : (s \o none)[i] = s[i]
        /\ \A i \in 1 .. Len(none) : (s \o none)[Len(s) + i] = none[i]
    <2>1. s \in Seq(T) /\ none \in Seq(T)
      BY <1>1, <1>2, <1>3
    <2> QED
      BY <2>1, Longer
  <1>7. Len(s) = Len(v) /\ events' = v \o added /\ sent' = s \o none
    BY <1>1, <1>3, <1>4
  <1>8. sent' \in Seq(SUBSET (Chats \cup {"customer"}))
    BY <1>6, <1>7 DEF T
  <1> QED
    BY <1>2, <1>3, <1>4, <1>5, <1>6, <1>7, <1>8

(* ... and leave what the worker relies on as it was.                      *)
LEMMA EmittedOutbox ==
    ASSUME DeskTypeOK, WorkerKnows, ChatsOnly, PublishedIsSent,
           NEW added \in Seq(EventRow), Emit(added), \A i \in 1 .. Len(added) : ~added[i].published
    PROVE  /\ ChatsOnly' /\ PublishedIsSent'
           /\ UNCHANGED <<polling, batch, reached>> => WorkerKnows'
  <1>1. ASSUME NEW e \in DOMAIN events'
        PROVE  \/ e \in DOMAIN events /\ events'[e] = events[e] /\ sent'[e] = sent[e]
               \/ ~events'[e].published /\ sent'[e] = {}
    <2>1. CASE e <= Len(events)
      BY <2>1, Emitted
    <2>2. CASE e > Len(events)
      <3>1. e - Len(events) \in 1 .. Len(added) /\ e = Len(events) + (e - Len(events))
        BY <2>2, Emitted
      <3> QED
        BY <3>1, Emitted
    <2> QED
      BY <2>1, <2>2, Emitted
  <1>2. ChatsOnly' /\ PublishedIsSent'
    BY <1>1 DEF ChatsOnly, PublishedIsSent
  <1>3. ASSUME UNCHANGED <<polling, batch, reached>> PROVE WorkerKnows'
    <2>1. Oldest' = Oldest
      BY <1>3 DEF Oldest
    <2>2. ASSUME reached
          PROVE  batch # {} /\ events'[Oldest].type \in ToOperations /\ sent'[Oldest] = Chats
      <3>1. Oldest \in DOMAIN events
        BY <2>2, OldestIsDue DEF WorkerKnows
      <3> QED
        BY <2>2, <3>1, Emitted DEF WorkerKnows
    <2> QED
      BY <1>3, <2>1, <2>2 DEF WorkerKnows
  <1> QED
    BY <1>2, <1>3

(* The rows of the outbox change, but not what they are about nor to whom  *)
(* they go.                                                                *)
LEMMA RowsChange ==
    ASSUME DeskIInv, NEW rows, events' = [e \in DOMAIN events |-> rows[e]],
           \A e \in DOMAIN events :
               /\ rows[e] \in EventRow /\ rows[e].type = events[e].type
               /\ rows[e].about = events[e].about
               /\ rows[e].published => events[e].published
                    \/ (events[e].type \in ToOperations /\ sent[e] = Chats),
           batch' \subseteq DOMAIN events, polling' \in BOOLEAN, reached' \in BOOLEAN,
           UNCHANGED <<sent, expiring, queued, deskVars>>
    PROVE  /\ DeskTypeOK' /\ EventsAbout' /\ ChatsOnly' /\ PublishedIsSent'
           /\ DOMAIN events' = DOMAIN events
           /\ \A e \in DOMAIN events : events'[e] = rows[e]
  <1>1. /\ DOMAIN events' = DOMAIN events /\ \A e \in DOMAIN events : events'[e] = rows[e]
        /\ DOMAIN events = 1 .. Len(events) /\ Len(events) \in Nat
    BY DEF DeskIInv, DeskTypeOK
  <1>2. events' \in Seq(EventRow) /\ Len(events') = Len(events)
    <2>1. events' \in [1 .. Len(events) -> EventRow]
      BY <1>1
    <2> QED
      BY <1>1, <2>1
  <1>3. DeskTypeOK'
    BY <1>1, <1>2 DEF DeskIInv, DeskTypeOK, deskVars
  <1>4. EventsAbout'
    <2>1. /\ UNCHANGED messages /\ EventsAbout
          /\ \A e \in DOMAIN events : events'[e].about = events[e].about
      BY <1>1 DEF DeskIInv, deskVars
    <2>2. ASSUME NEW i \in DOMAIN messages
          PROVE  IF Public(i)
                 THEN \E e \in DOMAIN events : \A f \in DOMAIN events : events'[f].about = i <=> f = e
                 ELSE \A f \in DOMAIN events : events'[f].about # i
      BY <2>1 DEF EventsAbout
    <2>3. \A e \in DOMAIN events : events'[e].about <= Len(messages)
      BY <2>1 DEF EventsAbout
    <2> QED
      BY <1>1, <2>1, <2>2, <2>3 DEF EventsAbout, Public
  <1>5. ChatsOnly'
    BY <1>1 DEF DeskIInv, ChatsOnly
  <1>6. PublishedIsSent'
    BY <1>1 DEF DeskIInv, PublishedIsSent
  <1> QED
    BY <1>1, <1>3, <1>4, <1>5, <1>6

(* A step of the outbox changes no conversation.                           *)
LEMMA DeskStays ==
    ASSUME DeskIInv, UNCHANGED deskVars
    PROVE  /\ RecordsKept' /\ AnsweredOnce'
           /\ \A p \in People : PageKnows(p)'
  <1>1. \A t : Shown(t)' = Shown(t)
    BY DEF Shown, CountOf, deskVars
  <1>2. \A p \in People : PageKnows(p)'
    BY <1>1 DEF DeskIInv, PageKnows, deskVars
  <1> QED
    BY <1>2 DEF DeskIInv, RecordsKept, AnsweredOnce, deskVars

(* Events about no message.                                                *)
LEMMA NothingSaid ==
    ASSUME DeskTypeOK, EventsAbout, NEW added \in Seq(EventRow), Emit(added), UNCHANGED messages,
           \A i \in 1 .. Len(added) : added[i].about = 0
    PROVE  EventsAbout'
  <1>1. ASSUME NEW e \in DOMAIN events'
        PROVE  (e \in DOMAIN events /\ events'[e] = events[e]) \/ events'[e].about = 0
    <2>1. CASE e <= Len(events)
      BY <2>1, Emitted
    <2>2. CASE e > Len(events)
      <3>1. PICK i \in 1 .. Len(added) : e = Len(events) + i
        <4>1. e - Len(events) \in 1 .. Len(added) /\ e = Len(events) + (e - Len(events))
          BY <2>2, Emitted
        <4> QED
          BY <4>1
      <3>2. events'[e] = added[i]
        BY <3>1, Emitted
      <3> QED
        BY <3>2
    <2> QED
      BY <2>1, <2>2, Emitted
  <1>2. /\ DOMAIN messages = 1 .. Len(messages) /\ Len(messages) \in Nat
        /\ \A e \in DOMAIN events : e \in DOMAIN events' /\ events'[e] = events[e]
    BY Emitted DEF DeskTypeOK
  <1>3. \A e \in DOMAIN events' : events'[e].about <= Len(messages')
    BY <1>1, <1>2 DEF EventsAbout
  <1>4. ASSUME NEW i \in DOMAIN messages
        PROVE  IF Public(i)
               THEN \E e \in DOMAIN events' : \A f \in DOMAIN events' : events'[f].about = i <=> f = e
               ELSE \A f \in DOMAIN events' : events'[f].about # i
    <2>1. i # 0
      BY <1>2
    <2>2. CASE Public(i)
      <3>1. PICK e \in DOMAIN events : \A f \in DOMAIN events : events[f].about = i <=> f = e
        BY <2>2 DEF EventsAbout
      <3> QED
        BY <1>1, <1>2, <2>1, <2>2, <3>1
    <2>3. CASE ~Public(i)
      BY <1>1, <1>2, <2>1, <2>3 DEF EventsAbout
    <2> QED
      BY <2>2, <2>3
  <1> QED
    BY <1>3, <1>4 DEF EventsAbout, Public

(* QueueReminders adds reminders, which are about no message.              *)
LEMMA QueueStep ==
    ASSUME DeskIInv, QueueReminders, UNCHANGED deskVars
    PROVE  DeskIInv'
  <1>1. PICK n \in Nat : n = expiring
    BY DEF DeskIInv, DeskTypeOK
  <1> DEFINE added == [i \in 1 .. n |-> Event("expiry_reminder", 0)]
  <1>2. /\ Event("expiry_reminder", 0) \in EventRow
        /\ Event("expiry_reminder", 0).about = 0 /\ ~Event("expiry_reminder", 0).published
    BY DEF Event, EventRow, ToCustomer
  <1>3. /\ added \in Seq(EventRow) /\ Len(added) = n
        /\ \A i \in 1 .. Len(added) : added[i].about = 0 /\ ~added[i].published
    BY <1>2
  <1>4. /\ Emit(added) /\ batch = {} /\ expiring' = 0 /\ queued' = queued + expiring
        /\ polling' = TRUE /\ UNCHANGED <<batch, reached>>
    BY <1>1 DEF QueueReminders
  <1> HIDE DEF added
  <1>5. DeskTypeOK'
    BY <1>1, <1>3, <1>4, Emitted DEF DeskIInv, DeskTypeOK, deskVars
  <1>6. EventsAbout'
    BY <1>3, <1>4, NothingSaid DEF DeskIInv, deskVars
  <1>7. WorkerKnows'
    BY <1>4 DEF DeskIInv, WorkerKnows
  <1> QED
    BY <1>3, <1>4, <1>5, <1>6, <1>7, EmittedOutbox, DeskStays DEF DeskIInv

(* A claim counts an attempt and leases the event, no more.                *)
LEMMA LeasedRow ==
    ASSUME NEW v \in EventRow, NEW w, w = [v EXCEPT !.leased = TRUE, !.attempts = @ + 1]
    PROVE  w \in EventRow /\ w.type = v.type /\ w.about = v.about /\ (w.published => v.published)
  <1>1. v.attempts + 1 \in Nat
    BY DEF EventRow
  <1>2. PICK n \in Nat : n = v.attempts + 1
    BY <1>1
  <1>3. w = [v EXCEPT !.leased = TRUE, !.attempts = n]
    BY <1>2
  <1> QED
    BY <1>3 DEF EventRow

(* Claim leases what is due and takes it as the worker's batch.            *)
LEMMA ClaimStep ==
    ASSUME DeskIInv, Claim, UNCHANGED deskVars
    PROVE  DeskIInv'
  <1>1. PICK rows : rows = [e \in DOMAIN events |->
              IF e \in Claims THEN [events[e] EXCEPT !.leased = TRUE, !.attempts = @ + 1]
              ELSE events[e]]
    OBVIOUS
  <1>2. \A e \in DOMAIN events :
          /\ rows[e] \in EventRow /\ rows[e].type = events[e].type
          /\ rows[e].about = events[e].about /\ (rows[e].published => events[e].published)
    <2>1. \A e \in DOMAIN events : events[e] \in EventRow
      BY DEF DeskIInv, DeskTypeOK
    <2> QED
      BY <1>1, <2>1, LeasedRow
  <1>3. /\ events' = [e \in DOMAIN events |-> rows[e]]
        /\ batch' \subseteq DOMAIN events /\ polling' = FALSE /\ reached' = FALSE
        /\ UNCHANGED <<sent, expiring, queued>>
    BY <1>1 DEF Claim, Claims, DeskIInv, DeskTypeOK, WorkerKnows
  <1>4. DeskTypeOK' /\ EventsAbout' /\ ChatsOnly' /\ PublishedIsSent'
    <2>1. \A e \in DOMAIN events :
            /\ rows[e] \in EventRow /\ rows[e].type = events[e].type
            /\ rows[e].about = events[e].about
            /\ rows[e].published => events[e].published
                 \/ (events[e].type \in ToOperations /\ sent[e] = Chats)
      BY <1>2
    <2>2. polling' \in BOOLEAN /\ reached' \in BOOLEAN
          /\ UNCHANGED <<sent, expiring, queued, deskVars>>
      BY <1>3
    <2> QED
      BY <1>3, <2>1, <2>2, RowsChange
  <1>5. WorkerKnows'
    BY <1>3 DEF WorkerKnows
  <1> QED
    BY <1>4, <1>5, DeskStays DEF DeskIInv

(* The oldest event is sent to some of the chats.                          *)
LEMMA SendStep ==
    ASSUME DeskIInv, NEW chats \in SUBSET (Chats \cup {"customer"}), batch # {}, ~reached,
           sent' = [sent EXCEPT ![Oldest] = @ \cup chats],
           \/ events[Oldest].type \in ToOperations /\ chats \subseteq Chats
           \/ events[Oldest].type \in ToCustomer,
           \/ reached' = TRUE /\ batch' = batch
                /\ events[Oldest].type \in ToOperations /\ chats = Chats
           \/ reached' = FALSE /\ batch' \subseteq batch,
           UNCHANGED <<events, expiring, queued, polling, deskVars>>
    PROVE  DeskIInv'
  <1>1. PICK i \in DOMAIN events : i = Oldest
    BY OldestIsDue DEF DeskIInv
  <1>2. /\ sent \in Seq(SUBSET (Chats \cup {"customer"})) /\ Len(sent) = Len(events)
        /\ DOMAIN events = 1 .. Len(events) /\ DOMAIN sent = 1 .. Len(sent)
    BY DEF DeskIInv, DeskTypeOK
  <1>3. PICK s : s = sent[i]
    OBVIOUS
  <1>4. s \cup chats \in SUBSET (Chats \cup {"customer"})
    BY <1>2, <1>3
  <1>5. /\ sent' \in Seq(SUBSET (Chats \cup {"customer"})) /\ Len(sent') = Len(events')
        /\ sent'[i] = s \cup chats
        /\ \A e \in DOMAIN events \ {i} : sent'[e] = sent[e]
    BY <1>1, <1>2, <1>3, <1>4
  <1>6. DeskTypeOK'
    BY <1>5 DEF DeskIInv, DeskTypeOK, deskVars
  <1>7. ToCustomer \cap ToOperations = {}
    BY DEF ToCustomer, ToOperations
  <1>8. ChatsOnly'
    <2>1. events[i].type \in ToOperations => s \cup chats \subseteq Chats
      BY <1>1, <1>3, <1>7 DEF DeskIInv, ChatsOnly
    <2> QED
      BY <1>5, <2>1 DEF DeskIInv, ChatsOnly
  <1>9. PublishedIsSent'
    <2>1. events[i].published => events[i].type \in ToOperations /\ s \cup chats = Chats
      BY <1>1, <1>3, <1>7 DEF DeskIInv, PublishedIsSent
    <2> QED
      BY <1>5, <2>1 DEF DeskIInv, PublishedIsSent
  <1>10. WorkerKnows'
    <2>1. polling' => batch' = {}
      BY DEF DeskIInv, WorkerKnows
    <2>2. CASE reached' = TRUE
      <3>1. batch' = batch /\ Oldest' = Oldest
        BY <2>2 DEF Oldest
      <3>2. events[i].type \in ToOperations /\ s \cup chats = Chats
        BY <1>1, <1>3, <2>2 DEF DeskIInv, ChatsOnly
      <3> QED
        BY <1>1, <1>5, <2>1, <3>1, <3>2 DEF WorkerKnows
    <2>3. CASE reached' = FALSE
      BY <2>1, <2>3 DEF WorkerKnows
    <2> QED
      BY <2>2, <2>3
  <1>11. EventsAbout'
    BY DEF DeskIInv, EventsAbout, Public, deskVars
  <1> QED
    BY <1>6, <1>8, <1>9, <1>10, <1>11, DeskStays DEF DeskIInv

(* MarkPublished marks the event that every chat has, and no other.        *)
LEMMA PublishStep ==
    ASSUME DeskIInv, MarkPublished, UNCHANGED deskVars
    PROVE  DeskIInv'
  <1>1. /\ reached /\ batch # {} /\ Oldest \in DOMAIN events
        /\ events[Oldest].type \in ToOperations /\ sent[Oldest] = Chats
    BY OldestIsDue DEF DeskIInv, WorkerKnows, MarkPublished
  <1>2. PICK i \in DOMAIN events : i = Oldest
    BY <1>1
  <1>3. PICK row : row = [events[i] EXCEPT !.published = TRUE]
    OBVIOUS
  <1>4. PICK rows : rows = [e \in DOMAIN events |-> IF e = i THEN row ELSE events[e]]
    OBVIOUS
  <1>5. /\ row \in EventRow /\ row.type = events[i].type /\ row.about = events[i].about
    <2>1. events[i] \in EventRow
      BY DEF DeskIInv, DeskTypeOK
    <2> QED
      BY <1>3, <2>1 DEF EventRow
  <1>6. \A e \in DOMAIN events :
          /\ rows[e] \in EventRow /\ rows[e].type = events[e].type
          /\ rows[e].about = events[e].about
          /\ rows[e].published => events[e].published
               \/ (events[e].type \in ToOperations /\ sent[e] = Chats)
    <2>1. \A e \in DOMAIN events : events[e] \in EventRow
      BY DEF DeskIInv, DeskTypeOK
    <2>2. \A e \in DOMAIN events : rows[e] = IF e = i THEN row ELSE events[e]
      BY <1>4
    <2> QED
      BY <1>1, <1>2, <1>5, <2>1, <2>2
  <1>7. /\ events' = [e \in DOMAIN events |-> rows[e]]
        /\ batch' \subseteq DOMAIN events /\ polling' \in BOOLEAN /\ reached' = FALSE
        /\ UNCHANGED <<sent, expiring, queued, deskVars>>
        /\ polling' => batch' = {}
    BY <1>2, <1>3, <1>4 DEF MarkPublished, DeskIInv, DeskTypeOK, WorkerKnows
  <1>8. DeskTypeOK' /\ EventsAbout' /\ ChatsOnly' /\ PublishedIsSent'
    BY <1>6, <1>7, RowsChange
  <1>9. WorkerKnows'
    BY <1>7 DEF WorkerKnows
  <1> QED
    BY <1>8, <1>9, DeskStays DEF DeskIInv

(* A lease runs out under the worker: it delivers what it has all the      *)
(* same.                                                                   *)
LEMMA LeaseStep ==
    ASSUME DeskIInv, NEW i \in DOMAIN events, LeaseExpires(i), UNCHANGED deskVars
    PROVE  DeskIInv'
  <1>1. PICK row : row = [events[i] EXCEPT !.leased = FALSE]
    OBVIOUS
  <1>2. PICK rows : rows = [e \in DOMAIN events |-> IF e = i THEN row ELSE events[e]]
    OBVIOUS
  <1>3. /\ row \in EventRow /\ row.type = events[i].type /\ row.about = events[i].about
        /\ row.published => events[i].published
    <2>1. events[i] \in EventRow
      BY DEF DeskIInv, DeskTypeOK
    <2> QED
      BY <1>1, <2>1 DEF EventRow
  <1>4. \A e \in DOMAIN events :
          /\ rows[e] \in EventRow /\ rows[e].type = events[e].type
          /\ rows[e].about = events[e].about
          /\ rows[e].published => events[e].published
    <2>1. \A e \in DOMAIN events : events[e] \in EventRow
      BY DEF DeskIInv, DeskTypeOK
    <2>2. \A e \in DOMAIN events : rows[e] = IF e = i THEN row ELSE events[e]
      BY <1>2
    <2> QED
      BY <1>3, <2>1, <2>2
  <1>5. \A e \in DOMAIN events :
          /\ rows[e] \in EventRow /\ rows[e].type = events[e].type
          /\ rows[e].about = events[e].about
          /\ rows[e].published => events[e].published
               \/ (events[e].type \in ToOperations /\ sent[e] = Chats)
    BY <1>4
  <1>6. /\ events' = [e \in DOMAIN events |-> rows[e]]
        /\ batch' \subseteq DOMAIN events /\ polling' \in BOOLEAN /\ reached' \in BOOLEAN
        /\ UNCHANGED <<sent, expiring, queued, polling, batch, reached, deskVars>>
    BY <1>1, <1>2 DEF LeaseExpires, DeskIInv, DeskTypeOK
  <1>7. /\ DeskTypeOK' /\ EventsAbout' /\ ChatsOnly' /\ PublishedIsSent'
        /\ \A e \in DOMAIN events : events'[e] = rows[e]
    BY <1>5, <1>6, RowsChange
  <1>8. WorkerKnows'
    <2>1. Oldest' = Oldest
      BY <1>6 DEF Oldest
    <2>2. reached => Oldest \in DOMAIN events /\ events'[Oldest].type = events[Oldest].type
      BY <1>4, <1>7, OldestIsDue DEF DeskIInv, WorkerKnows
    <2> QED
      BY <1>6, <2>1, <2>2 DEF DeskIInv, WorkerKnows
  <1> QED
    BY <1>7, <1>8, DeskStays DEF DeskIInv

(* A worker that dies forgets its batch, not the rows.                     *)
LEMMA DieStep ==
    ASSUME DeskIInv, Die, UNCHANGED deskVars
    PROVE  DeskIInv'
  <1>1. DeskTypeOK'
    BY DEF Die, DeskIInv, DeskTypeOK, deskVars
  <1>2. WorkerKnows'
    BY DEF Die, WorkerKnows
  <1>3. EventsAbout' /\ ChatsOnly' /\ PublishedIsSent'
    BY DEF Die, DeskIInv, EventsAbout, Public, ChatsOnly, PublishedIsSent, deskVars
  <1> QED
    BY <1>1, <1>2, <1>3, DeskStays DEF DeskIInv

(* A subscription enters the reminder's window.                            *)
LEMMA WindowStep ==
    ASSUME DeskIInv, UNCHANGED <<events, sent, polling, batch, reached, deskVars>>,
           expiring' \in Nat, queued' \in Nat
    PROVE  DeskIInv'
  <1>1. DeskTypeOK'
    BY DEF DeskIInv, DeskTypeOK, deskVars
  <1>2. WorkerKnows'
    <2>1. Oldest' = Oldest
      BY DEF Oldest
    <2> QED
      BY <2>1 DEF DeskIInv, WorkerKnows
  <1>3. EventsAbout' /\ ChatsOnly' /\ PublishedIsSent'
    BY DEF DeskIInv, EventsAbout, Public, ChatsOnly, PublishedIsSent, deskVars
  <1> QED
    BY <1>1, <1>2, <1>3, DeskStays DEF DeskIInv

(* No step of the outbox breaks what is known.                             *)
LEMMA OutboxStep ==
    ASSUME DeskIInv, OutboxNext, UNCHANGED deskVars
    PROVE  DeskIInv'
  <1>1. CASE EntersWindow
    BY <1>1, WindowStep DEF EntersWindow, DeskIInv, DeskTypeOK
  <1>2. ASSUME NEW chats \in SUBSET Chats, SendToOperations(chats) PROVE DeskIInv'
    <2>1. \/ reached' = TRUE /\ batch' = batch /\ chats = Chats
          \/ reached' = FALSE /\ batch' \subseteq batch
      BY <1>2 DEF SendToOperations
    <2> QED
      BY <1>2, <2>1, SendStep DEF SendToOperations
  <1>3. ASSUME NEW chat \in SUBSET {"customer"}, SendToCustomer(chat) PROVE DeskIInv'
    <2>1. reached' = FALSE /\ batch' \subseteq batch
      BY <1>3 DEF SendToCustomer
    <2> QED
      BY <1>3, <2>1, SendStep DEF SendToCustomer
  <1> QED
    BY <1>1, <1>2, <1>3, QueueStep, ClaimStep, PublishStep, DieStep, LeaseStep DEF OutboxNext

-----------------------------------------------------------------------------
(* The conversations *)

(* A message comes with the one event about it when the customer may see   *)
(* it, and with none when not.                                             *)
LEMMA Said ==
    ASSUME DeskTypeOK, EventsAbout, NEW m \in MessageRow, messages' = Append(messages, m),
           NEW added \in Seq(EventRow), Emit(added),
           IF m.type = "message" THEN Len(added) = 1 /\ added[1].about = Len(messages) + 1
           ELSE \A i \in 1 .. Len(added) : added[i].about = 0
    PROVE  EventsAbout'
  <1>1. PICK n \in Nat : n = Len(messages)
    BY DEF DeskTypeOK
  <1>2. /\ DOMAIN messages = 1 .. n /\ DOMAIN messages' = 1 .. n + 1 /\ Len(messages') = n + 1
        /\ \A i \in 1 .. n : messages'[i] = messages[i]
        /\ messages'[n + 1] = m
    BY <1>1, OneMore DEF DeskTypeOK
  <1>3. PICK k \in Nat : k = Len(events)
    BY Emitted
  <1>4. PICK l \in Nat : l = Len(added)
    BY Emitted
  <1>5. /\ DOMAIN events = 1 .. k /\ DOMAIN events' = 1 .. k + l
        /\ \A e \in 1 .. k : events'[e] = events[e]
        /\ \A i \in 1 .. l : events'[k + i] = added[i]
    BY <1>3, <1>4, Emitted
  <1>6. /\ m.type = "message" => l = 1 /\ added[1].about = n + 1
        /\ m.type # "message" => \A i \in 1 .. l : added[i].about = 0
    BY <1>1, <1>4
  <1>7. ASSUME NEW e \in DOMAIN events'
        PROVE  \/ (e \in DOMAIN events /\ events'[e] = events[e])
               \/ (m.type # "message" /\ events'[e].about = 0)
               \/ (m.type = "message" /\ e = k + 1 /\ events'[e].about = n + 1)
    <2>1. CASE e <= k
      BY <1>5, <2>1
    <2>2. CASE e > k
      <3>1. PICK i \in 1 .. l : e = k + i
        <4>1. e - k \in 1 .. l /\ e = k + (e - k)
          BY <1>5, <2>2
        <4> QED
          BY <4>1
      <3>2. events'[e] = added[i]
        BY <1>5, <3>1
      <3>3. m.type = "message" => i = 1
        BY <1>6
      <3> QED
        BY <1>6, <3>1, <3>2, <3>3
    <2> QED
      BY <1>5, <2>1, <2>2
  <1>8. \A e \in DOMAIN events : /\ e \in DOMAIN events' /\ events'[e] = events[e]
                                 /\ events[e].about <= n /\ events[e].about \in Nat
                                 /\ e # k + 1
    <2>1. \A e \in DOMAIN events : events[e] \in EventRow /\ events[e].about <= n
      BY <1>1 DEF DeskTypeOK, EventsAbout
    <2> QED
      BY <1>5, <2>1 DEF EventRow
  <1>9. \A e \in DOMAIN events' : events'[e].about <= n + 1
    BY <1>7, <1>8
  <1>10. ASSUME NEW i \in 1 .. n
        PROVE  IF messages[i].type = "message"
               THEN \E e \in DOMAIN events' : \A f \in DOMAIN events' : events'[f].about = i <=> f = e
               ELSE \A f \in DOMAIN events' : events'[f].about # i
    <2>1. CASE messages[i].type = "message"
      <3>1. PICK e \in DOMAIN events : \A f \in DOMAIN events : events[f].about = i <=> f = e
        BY <1>2, <2>1 DEF EventsAbout, Public
      <3> QED
        BY <1>7, <1>8, <2>1, <3>1
    <2>2. CASE messages[i].type # "message"
      <3>1. \A f \in DOMAIN events : events[f].about # i
        BY <1>2, <2>2 DEF EventsAbout, Public
      <3> QED
        BY <1>7, <1>8, <2>2, <3>1
    <2> QED
      BY <2>1, <2>2
  <1>11. IF m.type = "message"
        THEN \E e \in DOMAIN events' : \A f \in DOMAIN events' : events'[f].about = n + 1 <=> f = e
        ELSE \A f \in DOMAIN events' : events'[f].about # n + 1
    <2>1. CASE m.type = "message"
      <3>1. k + 1 \in DOMAIN events' /\ events'[k + 1].about = n + 1
        BY <1>5, <1>6, <2>1
      <3>2. \A f \in DOMAIN events' : events'[f].about = n + 1 => f = k + 1
        BY <1>7, <1>8, <2>1
      <3>3. \A f \in DOMAIN events' : events'[f].about = n + 1 <=> f = k + 1
        BY <3>1, <3>2
      <3> QED
        BY <2>1, <3>1, <3>3
    <2>2. CASE m.type # "message"
      BY <1>7, <1>8, <2>2
    <2> QED
      BY <2>1, <2>2
  <1>12. \A i \in DOMAIN messages' : i \in 1 .. n \/ i = n + 1
    BY <1>2
  <1>13. ASSUME NEW i \in DOMAIN messages'
        PROVE  IF messages'[i].type = "message"
               THEN \E e \in DOMAIN events' : \A f \in DOMAIN events' : events'[f].about = i <=> f = e
               ELSE \A f \in DOMAIN events' : events'[f].about # i
    <2>1. CASE i \in 1 .. n
      BY <1>2, <1>10, <2>1
    <2>2. CASE i = n + 1
      BY <1>2, <1>11, <2>2
    <2> QED
      BY <1>12, <2>1, <2>2
  <1> QED
    BY <1>2, <1>9, <1>13 DEF EventsAbout, Public

(* A message made for a request finds no record of it and leaves one, so   *)
(* an earlier message of the same request has lost its own.                *)
LEMMA Recorded ==
    ASSUME DeskTypeOK, RecordsKept, AnsweredOnce,
           NEW m \in MessageRow, messages' = Append(messages, m), UNCHANGED expired,
           \/ (m.scope = Null /\ records' = records)
           \/ (/\ \A r \in records : r.scope # m.scope
               /\ records' = records \cup {[scope |-> m.scope, message |-> Len(messages) + 1]})
    PROVE  RecordsKept' /\ AnsweredOnce'
  <1>1. PICK n \in Nat : n = Len(messages)
    BY DEF DeskTypeOK
  <1>2. /\ DOMAIN messages = 1 .. n /\ DOMAIN messages' = 1 .. n + 1
        /\ \A i \in 1 .. n : messages'[i] = messages[i]
        /\ messages'[n + 1] = m
    BY <1>1, OneMore DEF DeskTypeOK
  <1>3. \A i \in DOMAIN messages' : i \in 1 .. n \/ i = n + 1
    BY <1>2
  <1>4. RecordsKept'
    <2>1. ASSUME NEW i \in 1 .. n, messages'[i].scope # Null, i \notin expired'
          PROVE  [scope |-> messages'[i].scope, message |-> i] \in records'
      <3>1. [scope |-> messages[i].scope, message |-> i] \in records
        BY <1>2, <2>1 DEF RecordsKept
      <3> QED
        BY <1>2, <3>1
    <2>2. messages'[n + 1].scope # Null =>
            [scope |-> messages'[n + 1].scope, message |-> n + 1] \in records'
      BY <1>1, <1>2
    <2> QED
      BY <1>3, <2>1, <2>2 DEF RecordsKept
  <1>5. AnsweredOnce'
    <2>1. ASSUME NEW i \in DOMAIN messages', NEW j \in DOMAIN messages', i < j,
                 messages'[i].scope # Null, messages'[i].scope = messages'[j].scope
          PROVE  i \in expired'
      <3>1. i \in 1 .. n
        BY <1>2, <2>1
      <3>2. CASE j \in 1 .. n
        BY <1>2, <2>1, <3>1, <3>2 DEF AnsweredOnce
      <3>3. CASE j = n + 1
        <4>1. messages[i].scope = m.scope /\ m.scope # Null
          BY <1>2, <2>1, <3>1, <3>3
        <4>2. \A r \in records : r.scope # m.scope
          BY <4>1
        <4>3. [scope |-> messages[i].scope, message |-> i] \notin records
          BY <4>1, <4>2
        <4> QED
          BY <1>2, <3>1, <4>1, <4>3 DEF RecordsKept
      <3> QED
        BY <1>3, <3>2, <3>3
    <2> QED
      BY <2>1 DEF AnsweredOnce
  <1> QED
    BY <1>4, <1>5

(* What a page tells stays true: its ticket is as it was, or is of a later *)
(* version.                                                                *)
LEMMA PagesTrue ==
    ASSUME DeskTypeOK, tickets' \in Seq(TicketRow),
           \A t \in DOMAIN tickets :
               /\ t \in DOMAIN tickets'
               /\ \/ (tickets'[t] = tickets[t] /\ Shown(t)' = Shown(t))
                  \/ tickets'[t].version > tickets[t].version,
           NEW p \in People, PageKnows(p), pages'[p] \in {pages[p], Null}
    PROVE  PageKnows(p)'
  <1>1. SUFFICES ASSUME pages'[p] # Null
                 PROVE  \E t \in DOMAIN tickets' :
                            /\ pages'[p].of = t
                            /\ pages'[p].ticket.version <= tickets'[t].version
                            /\ pages'[p].ticket.version = tickets'[t].version =>
                                  pages'[p].ticket = tickets'[t] /\ pages'[p].count \in {-1, Shown(t)'}
    BY DEF PageKnows
  <1>2. PICK page : page = pages[p] /\ page = pages'[p]
    BY <1>1
  <1>3. PICK t \in DOMAIN tickets :
            /\ page.of = t /\ page.ticket.version <= tickets[t].version
            /\ page.ticket.version = tickets[t].version =>
                  page.ticket = tickets[t] /\ page.count \in {-1, Shown(t)}
    BY <1>1, <1>2 DEF PageKnows
  <1>4. t \in DOMAIN tickets'
    OBVIOUS
  <1>5. /\ page.ticket.version \in Nat
        /\ tickets[t].version \in Nat /\ tickets'[t].version \in Nat
    <2>1. page \in Page
      BY <1>1, <1>2 DEF DeskTypeOK
    <2>2. tickets[t] \in TicketRow /\ tickets'[t] \in TicketRow
      BY <1>4 DEF DeskTypeOK
    <2> QED
      BY <2>1, <2>2 DEF Page, TicketRow
  <1>6. /\ page.of = t /\ page.ticket.version <= tickets'[t].version
        /\ page.ticket.version = tickets'[t].version =>
              page.ticket = tickets'[t] /\ page.count \in {-1, Shown(t)'}
    <2>1. CASE tickets'[t] = tickets[t] /\ Shown(t)' = Shown(t)
      BY <1>3, <1>5, <2>1
    <2>2. CASE tickets'[t].version > tickets[t].version
      BY <1>3, <1>5, <2>2
    <2> QED
      BY <2>1, <2>2
  <1> QED
    BY <1>2, <1>4, <1>6

(* Every transaction that adds a message keeps all that is known, when it  *)
(* gives the message's ticket another version.                             *)
LEMMA MessageStep ==
    ASSUME DeskIInv, NEW m \in MessageRow, messages' = Append(messages, m),
           NEW added \in Seq(EventRow), Emit(added),
           IF m.type = "message" THEN Len(added) = 1 /\ added[1].about = Len(messages) + 1
           ELSE \A i \in 1 .. Len(added) : added[i].about = 0,
           \A i \in 1 .. Len(added) : ~added[i].published,
           \/ (m.scope = Null /\ records' = records)
           \/ (/\ m.scope \in Scopes
               /\ \A r \in records : r.scope # m.scope
               /\ records' = records \cup {[scope |-> m.scope, message |-> Len(messages) + 1]}),
           tickets' \in Seq(TicketRow),
           \A t \in DOMAIN tickets :
               /\ t \in DOMAIN tickets'
               /\ \/ (tickets'[t] = tickets[t] /\ m.ticket # t)
                  \/ tickets'[t].version > tickets[t].version,
           pages' \in [People -> Page \cup {Null}], \A p \in People : pages'[p] \in {pages[p], Null},
           UNCHANGED <<expired, outboxRest>>
    PROVE  DeskIInv'
  <1>1. PICK n \in Nat : n = Len(messages)
    BY DEF DeskIInv, DeskTypeOK
  <1>2. /\ messages' \in Seq(MessageRow)
        /\ DOMAIN messages = 1 .. n /\ DOMAIN messages' = 1 .. n + 1
        /\ \A i \in 1 .. n : messages'[i] = messages[i]
        /\ messages'[n + 1] = m
    BY <1>1, OneMore DEF DeskIInv, DeskTypeOK
  <1>3. DeskTypeOK'
    <2>1. DOMAIN events \subseteq DOMAIN events'
      BY Emitted DEF DeskIInv
    <2>2. records' \subseteq [scope : Scopes, message : Nat]
      BY <1>1 DEF DeskIInv, DeskTypeOK
    <2>3. /\ events' \in Seq(EventRow)
          /\ sent' \in Seq(SUBSET (Chats \cup {"customer"})) /\ Len(sent') = Len(events')
      BY Emitted DEF DeskIInv
    <2> QED
      BY <1>2, <2>1, <2>2, <2>3 DEF DeskIInv, DeskTypeOK, outboxRest
  <1>4. RecordsKept' /\ AnsweredOnce'
    BY Recorded DEF DeskIInv
  <1>5. EventsAbout'
    BY Said DEF DeskIInv
  <1>6. ChatsOnly' /\ PublishedIsSent' /\ WorkerKnows'
    BY EmittedOutbox DEF DeskIInv, outboxRest
  <1>7. \A t : m.ticket # t => Shown(t)' = Shown(t)
    <2>1. ASSUME NEW t, m.ticket # t
          PROVE  {i \in DOMAIN messages' : messages'[i].ticket = t} =
                 {i \in DOMAIN messages : messages[i].ticket = t}
      <3>1. \A i \in DOMAIN messages' : i \in DOMAIN messages \/ messages'[i] = m
        BY <1>2
      <3>2. \A i \in DOMAIN messages : i \in DOMAIN messages' /\ messages'[i] = messages[i]
        BY <1>2
      <3> QED
        BY <2>1, <3>1, <3>2
    <2> QED
      BY <2>1 DEF Shown, CountOf
  <1>8. \A p \in People : PageKnows(p)'
    <2>1. \A t \in DOMAIN tickets :
              /\ t \in DOMAIN tickets'
              /\ \/ (tickets'[t] = tickets[t] /\ Shown(t)' = Shown(t))
                 \/ tickets'[t].version > tickets[t].version
      BY <1>7
    <2> QED
      BY <2>1, PagesTrue DEF DeskIInv
  <1> QED
    BY <1>3, <1>4, <1>5, <1>6, <1>8 DEF DeskIInv

(* What names a request.                                                   *)
LEMMA ScopeIsScope ==
    ASSUME NEW t \in Nat, NEW by \in People \cup {Customer}, NEW key \in Keys
    PROVE  Scope(t, by, key) \in Scopes
  BY DEF Scope, Scopes

(* One event, about a message or about none.                               *)
LEMMA OneEvent ==
    ASSUME NEW type \in {"created", "user_replied", "admin_replied", "updated"}, NEW about \in Nat
    PROVE  /\ <<Event(type, about)>> \in Seq(EventRow) /\ Len(<<Event(type, about)>>) = 1
           /\ \A i \in 1 .. 1 : /\ <<Event(type, about)>>[i].about = about
                                /\ ~<<Event(type, about)>>[i].published
  BY DEF Event, EventRow, ToCustomer, ToOperations

(* CreateTicket: the first message of a new ticket, which no page shows    *)
(* yet.                                                                    *)
LEMMA CreateStep ==
    ASSUME DeskIInv, NEW key \in Keys, CreateTicket(key), UNCHANGED outboxRest
    PROVE  DeskIInv'
  <1>1. PICK n \in Nat : n = Len(messages)
    BY DEF DeskIInv, DeskTypeOK
  <1>2. PICK k \in Nat : k = Len(tickets)
    BY DEF DeskIInv, DeskTypeOK
  <1>3. PICK m : m = MessageOf(k + 1, Customer, "message", Scope(0, Customer, key))
    OBVIOUS
  <1>4. PICK row : row = [status |-> "open", assignee |-> Null, version |-> 1]
    OBVIOUS
  <1>5. /\ m \in MessageRow /\ m.type = "message" /\ m.scope \in Scopes
        /\ m.scope = Scope(0, Customer, key)
    BY <1>3, ScopeIsScope DEF MessageOf, MessageRow
  <1>6. row \in TicketRow
    BY <1>4 DEF TicketRow, Statuses
  <1>7. /\ tickets' = Append(tickets, row) /\ messages' = Append(messages, m)
        /\ \A r \in records : r.scope # m.scope
        /\ records' = records \cup {[scope |-> m.scope, message |-> Len(messages) + 1]}
        /\ Emit(<<Event("created", n + 1)>>)
        /\ UNCHANGED <<expired, pages>>
    BY <1>1, <1>2, <1>3, <1>4, <1>5 DEF CreateTicket, Answered, Record
  <1>8. /\ tickets' \in Seq(TicketRow)
        /\ \A t \in DOMAIN tickets : t \in DOMAIN tickets' /\ tickets'[t] = tickets[t] /\ m.ticket # t
    <2>1. /\ tickets' \in Seq(TicketRow)
          /\ DOMAIN tickets = 1 .. k /\ DOMAIN tickets' = 1 .. k + 1
          /\ \A t \in 1 .. k : tickets'[t] = tickets[t]
      BY <1>2, <1>6, <1>7, OneMore DEF DeskIInv, DeskTypeOK
    <2>2. m.ticket = k + 1
      BY <1>3 DEF MessageOf
    <2> QED
      BY <2>1, <2>2
  <1>9. PICK added : added = <<Event("created", n + 1)>>
    OBVIOUS
  <1>10. /\ added \in Seq(EventRow) /\ Len(added) = 1
         /\ \A i \in 1 .. 1 : added[i].about = n + 1 /\ ~added[i].published
    <2>1. n + 1 \in Nat
      BY <1>1
    <2> QED
      BY <1>9, <2>1, OneEvent
  <1>11. /\ Emit(added) /\ pages' \in [People -> Page \cup {Null}]
         /\ \A p \in People : pages'[p] \in {pages[p], Null}
    BY <1>7, <1>9 DEF DeskIInv, DeskTypeOK
  <1>12. /\ IF m.type = "message" THEN Len(added) = 1 /\ added[1].about = Len(messages) + 1
            ELSE \A i \in 1 .. Len(added) : added[i].about = 0
         /\ \A i \in 1 .. Len(added) : ~added[i].published
    BY <1>1, <1>5, <1>10
  <1>13. \A t \in DOMAIN tickets :
             /\ t \in DOMAIN tickets'
             /\ \/ (tickets'[t] = tickets[t] /\ m.ticket # t)
                \/ tickets'[t].version > tickets[t].version
    BY <1>8
  <1>14. \/ (m.scope = Null /\ records' = records)
         \/ (/\ m.scope \in Scopes
             /\ \A r \in records : r.scope # m.scope
             /\ records' = records \cup {[scope |-> m.scope, message |-> Len(messages) + 1]})
    BY <1>5, <1>7
  <1>15. UNCHANGED <<expired, outboxRest>>
    BY <1>7
  <1> QED
    BY <1>5, <1>7, <1>8, <1>10, <1>11, <1>12, <1>13, <1>14, <1>15, MessageStep

(* A ticket is replaced by one of the next version.                        *)
LEMMA NewVersion ==
    ASSUME DeskTypeOK, NEW t \in DOMAIN tickets, NEW row \in TicketRow,
           row.version = tickets[t].version + 1, tickets' = [tickets EXCEPT ![t] = row]
    PROVE  /\ tickets' \in Seq(TicketRow) /\ tickets[t].version \in Nat
           /\ \A u \in DOMAIN tickets :
                  /\ u \in DOMAIN tickets'
                  /\ \/ (tickets'[u] = tickets[u] /\ t # u)
                     \/ tickets'[u].version > tickets[u].version
  <1>1. /\ tickets \in Seq(TicketRow) /\ tickets' \in Seq(TicketRow)
        /\ DOMAIN tickets' = DOMAIN tickets
        /\ tickets'[t] = row /\ \A u \in DOMAIN tickets : u # t => tickets'[u] = tickets[u]
    BY DEF DeskTypeOK
  <1>2. tickets[t].version \in Nat
    <2>1. tickets[t] \in TicketRow
      BY <1>1
    <2> QED
      BY <2>1 DEF TicketRow
  <1> QED
    BY <1>1, <1>2

(* Send, by the customer or an operator: a message or a note on a ticket.  *)
LEMMA TalkStep ==
    ASSUME DeskIInv, NEW t \in DOMAIN tickets, NEW by \in People \cup {Customer},
           NEW type \in {"message", "internal_note"}, NEW status \in Statuses, NEW key \in Keys,
           Send(t, by, type, status, key), UNCHANGED outboxRest
    PROVE  DeskIInv'
  <1>1. PICK n \in Nat : n = Len(messages)
    BY DEF DeskIInv, DeskTypeOK
  <1>2. PICK old \in TicketRow : old = tickets[t]
    BY DEF DeskIInv, DeskTypeOK
  <1>3. PICK m : m = MessageOf(t, by, type, Scope(t, by, key))
    OBVIOUS
  <1>4. PICK row : row = [status |-> status, version |-> old.version + 1,
                          assignee |-> IF by # Customer /\ old.assignee = Null THEN by
                                       ELSE old.assignee]
    OBVIOUS
  <1>5. t \in Nat
    BY DEF DeskIInv, DeskTypeOK
  <1>6. /\ m \in MessageRow /\ m.type = type /\ m.scope \in Scopes /\ m.ticket = t
        /\ m.scope = Scope(t, by, key)
    BY <1>3, <1>5, ScopeIsScope DEF MessageOf, MessageRow
  <1>7. row \in TicketRow /\ row.version = old.version + 1
    <2>1. old.version + 1 \in Nat /\ old.assignee \in People \cup {Null}
      BY DEF TicketRow
    <2>2. (IF by # Customer /\ old.assignee = Null THEN by ELSE old.assignee) \in People \cup {Null}
      BY <2>1
    <2> QED
      BY <1>4, <2>1, <2>2 DEF TicketRow
  <1>8. PICK added :
           added = IF type = "internal_note" THEN <<>>
                   ELSE <<Event(IF by = Customer THEN "user_replied" ELSE "admin_replied", n + 1)>>
    OBVIOUS
  <1>9. /\ tickets' = [tickets EXCEPT ![t] = row] /\ messages' = Append(messages, m)
        /\ Emit(added) /\ UNCHANGED <<expired, pages>>
    BY <1>1, <1>2, <1>3, <1>4, <1>8 DEF Send, NextVersion
  <1>10. /\ m.scope \in Scopes
         /\ \A r \in records : r.scope # m.scope
         /\ records' = records \cup {[scope |-> m.scope, message |-> Len(messages) + 1]}
    BY <1>6 DEF Send, Answered, Record
  <1>11. /\ added \in Seq(EventRow)
         /\ IF m.type = "message" THEN Len(added) = 1 /\ added[1].about = Len(messages) + 1
            ELSE \A i \in 1 .. Len(added) : added[i].about = 0
         /\ \A i \in 1 .. Len(added) : ~added[i].published
    <2>1. CASE type = "internal_note"
      BY <1>6, <1>8, <2>1
    <2>2. CASE type = "message"
      <3>1. PICK e \in {"user_replied", "admin_replied"} : added = <<Event(e, n + 1)>>
        BY <1>8, <2>2
      <3>2. /\ added \in Seq(EventRow) /\ Len(added) = 1
            /\ \A i \in 1 .. 1 : added[i].about = n + 1 /\ ~added[i].published
        <4>1. n + 1 \in Nat
          BY <1>1
        <4> QED
          BY <3>1, <4>1, OneEvent
      <3> QED
        BY <1>1, <1>6, <2>2, <3>2
    <2> QED
      BY <2>1, <2>2
  <1>12. /\ tickets' \in Seq(TicketRow)
         /\ \A u \in DOMAIN tickets :
                /\ u \in DOMAIN tickets'
                /\ \/ (tickets'[u] = tickets[u] /\ m.ticket # u)
                   \/ tickets'[u].version > tickets[u].version
    <2>1. row.version = tickets[t].version + 1
      BY <1>2, <1>7
    <2>2. DeskTypeOK
      BY DEF DeskIInv
    <2> QED
      BY <1>6, <1>7, <1>9, <2>1, <2>2, NewVersion
  <1>13. /\ pages' \in [People -> Page \cup {Null}]
         /\ \A p \in People : pages'[p] \in {pages[p], Null}
    BY <1>9 DEF DeskIInv, DeskTypeOK
  <1>14. UNCHANGED <<expired, outboxRest>>
    BY <1>9
  <1>15. \/ (m.scope = Null /\ records' = records)
         \/ (/\ m.scope \in Scopes
             /\ \A r \in records : r.scope # m.scope
             /\ records' = records \cup {[scope |-> m.scope, message |-> Len(messages) + 1]})
    BY <1>10
  <1> QED
    BY <1>6, <1>9, <1>11, <1>12, <1>13, <1>14, <1>15, MessageStep

(* The ticket keeps a status that is one.                                  *)
LEMMA StatusKept ==
    ASSUME DeskIInv, NEW t \in DOMAIN tickets
    PROVE  tickets[t].status \in Statuses
  <1>1. tickets[t] \in TicketRow
    BY DEF DeskIInv, DeskTypeOK
  <1> QED
    BY <1>1 DEF TicketRow

(* UpdateTicket: another version, with a message when the status changes.  *)
LEMMA UpdateStep ==
    ASSUME DeskIInv, NEW p \in People, NEW status \in Statuses, NEW assignee \in People \cup {Null},
           UpdateTicket(p, status, assignee), UNCHANGED outboxRest
    PROVE  DeskIInv'
  <1>1. PICK t \in DOMAIN tickets : t = pages[p].of
    BY DEF UpdateTicket, DeskIInv, PageKnows
  <1>2. PICK old \in TicketRow : old = tickets[t]
    BY DEF DeskIInv, DeskTypeOK
  <1>3. PICK row : row = [status |-> status, assignee |-> assignee, version |-> old.version + 1]
    OBVIOUS
  <1>4. row \in TicketRow /\ row.version = tickets[t].version + 1
    <2>1. old.version + 1 \in Nat
      BY DEF TicketRow
    <2> QED
      BY <1>2, <1>3, <2>1 DEF TicketRow
  <1>5. PICK m : m = MessageOf(t, Null, "system", Null)
    OBVIOUS
  <1>6. t \in Nat /\ m \in MessageRow /\ m.type = "system" /\ m.scope = Null /\ m.ticket = t
    <2>1. t \in Nat
      BY DEF DeskIInv, DeskTypeOK
    <2> QED
      BY <1>5, <2>1 DEF MessageOf, MessageRow
  <1>7. PICK added : added = <<Event("updated", 0)>>
    OBVIOUS
  <1>8. /\ tickets' = [tickets EXCEPT ![t] = row] /\ Emit(added)
        /\ pages' = [pages EXCEPT ![p] = Null]
        /\ UNCHANGED <<records, expired>>
        /\ messages' = messages \/ messages' = Append(messages, m)
    BY <1>1, <1>2, <1>3, <1>5, <1>7 DEF UpdateTicket
  <1>9. /\ added \in Seq(EventRow) /\ Len(added) = 1
        /\ \A i \in 1 .. Len(added) : added[i].about = 0 /\ ~added[i].published
    BY <1>7, OneEvent
  <1>10. /\ tickets' \in Seq(TicketRow)
         /\ \A u \in DOMAIN tickets :
                /\ u \in DOMAIN tickets'
                /\ \/ (tickets'[u] = tickets[u] /\ t # u)
                   \/ tickets'[u].version > tickets[u].version
    <2>1. DeskTypeOK
      BY DEF DeskIInv
    <2> QED
      BY <1>4, <1>8, <2>1, NewVersion
  <1>11. /\ pages' \in [People -> Page \cup {Null}]
         /\ \A q \in People : pages'[q] \in {pages[q], Null}
    BY <1>8 DEF DeskIInv, DeskTypeOK
  <1>12. CASE messages' = Append(messages, m)
    <2>1. /\ IF m.type = "message" THEN Len(added) = 1 /\ added[1].about = Len(messages) + 1
             ELSE \A i \in 1 .. Len(added) : added[i].about = 0
          /\ \A i \in 1 .. Len(added) : ~added[i].published
      BY <1>6, <1>9
    <2>2. UNCHANGED <<expired, outboxRest>>
      BY <1>8
    <2>3. \A u \in DOMAIN tickets :
              /\ u \in DOMAIN tickets'
              /\ \/ (tickets'[u] = tickets[u] /\ m.ticket # u)
                 \/ tickets'[u].version > tickets[u].version
      BY <1>6, <1>10
    <2>4. \/ (m.scope = Null /\ records' = records)
          \/ (/\ m.scope \in Scopes
              /\ \A r \in records : r.scope # m.scope
              /\ records' = records \cup {[scope |-> m.scope, message |-> Len(messages) + 1]})
      BY <1>6, <1>8
    <2> QED
      BY <1>6, <1>8, <1>9, <1>10, <1>11, <1>12, <2>1, <2>2, <2>3, <2>4, MessageStep
  <1>13. CASE messages' = messages
    <2>1. \A u : Shown(u)' = Shown(u)
      BY <1>13 DEF Shown, CountOf
    <2>2. \A u \in DOMAIN tickets :
              /\ u \in DOMAIN tickets'
              /\ \/ (tickets'[u] = tickets[u] /\ Shown(u)' = Shown(u))
                 \/ tickets'[u].version > tickets[u].version
      BY <1>10, <2>1
    <2>3. \A q \in People : PageKnows(q)'
      BY <1>10, <1>11, <2>2, PagesTrue DEF DeskIInv
    <2>4. EventsAbout'
      BY <1>8, <1>9, <1>13, NothingSaid DEF DeskIInv
    <2>5. ChatsOnly' /\ PublishedIsSent' /\ WorkerKnows'
      BY <1>8, <1>9, EmittedOutbox DEF DeskIInv, outboxRest
    <2>6. RecordsKept' /\ AnsweredOnce'
      BY <1>8, <1>13 DEF DeskIInv, RecordsKept, AnsweredOnce
    <2>7. DeskTypeOK'
      <3>1. DOMAIN events \subseteq DOMAIN events'
        BY <1>8, <1>9, Emitted DEF DeskIInv
      <3>2. /\ events' \in Seq(EventRow)
            /\ sent' \in Seq(SUBSET (Chats \cup {"customer"})) /\ Len(sent') = Len(events')
        BY <1>8, <1>9, Emitted DEF DeskIInv
      <3> QED
        BY <1>8, <1>10, <1>11, <1>13, <3>1, <3>2 DEF DeskIInv, DeskTypeOK, outboxRest
    <2> QED
      BY <2>3, <2>4, <2>5, <2>6, <2>7 DEF DeskIInv
  <1> QED
    BY <1>8, <1>12, <1>13

(* The step changes neither the outbox nor the messages.                   *)
LEMMA OutboxStays ==
    ASSUME DeskIInv, UNCHANGED <<outboxVars, messages>>
    PROVE  EventsAbout' /\ WorkerKnows' /\ ChatsOnly' /\ PublishedIsSent'
  <1>1. Oldest' = Oldest
    BY DEF Oldest, outboxVars
  <1>2. WorkerKnows'
    BY <1>1 DEF DeskIInv, WorkerKnows, outboxVars
  <1> QED
    BY <1>2 DEF DeskIInv, EventsAbout, Public, ChatsOnly, PublishedIsSent, outboxVars

(* A record that expires leaves its message among the expired.             *)
LEMMA ExpireStep ==
    ASSUME DeskIInv, NEW r \in records, RecordExpires(r)
    PROVE  DeskIInv'
  <1>1. /\ records' = records \ {r} /\ expired' = expired \cup {r.message}
        /\ UNCHANGED <<tickets, messages, pages, outboxVars>>
    BY DEF RecordExpires
  <1>2. DeskTypeOK'
    <2>1. r.message \in Nat
      BY DEF DeskIInv, DeskTypeOK
    <2> QED
      BY <1>1, <2>1 DEF DeskIInv, DeskTypeOK, outboxVars
  <1>3. RecordsKept'
    <2>1. ASSUME NEW i \in DOMAIN messages, messages[i].scope # Null, i \notin expired'
          PROVE  [scope |-> messages[i].scope, message |-> i] \in records'
      <3>1. PICK kept : kept = [scope |-> messages[i].scope, message |-> i]
        OBVIOUS
      <3>2. kept \in records /\ kept.message = i
        BY <1>1, <2>1, <3>1 DEF DeskIInv, RecordsKept
      <3>3. kept # r
        BY <1>1, <2>1, <3>2
      <3> QED
        BY <1>1, <3>1, <3>2, <3>3
    <2> QED
      BY <1>1, <2>1 DEF RecordsKept
  <1>4. AnsweredOnce'
    BY <1>1 DEF DeskIInv, AnsweredOnce
  <1>5. \A p \in People : PageKnows(p)'
    <2>1. \A t : Shown(t)' = Shown(t)
      BY <1>1 DEF Shown, CountOf
    <2> QED
      BY <1>1, <2>1 DEF DeskIInv, PageKnows
  <1> QED
    BY <1>1, <1>2, <1>3, <1>4, <1>5, OutboxStays DEF DeskIInv

(* One operator turns to another page, which tells what is so.             *)
LEMMA PageStep ==
    ASSUME DeskIInv, NEW p \in People, NEW page \in Page, NEW t \in DOMAIN tickets,
           pages' = [pages EXCEPT ![p] = page],
           page.of = t, page.ticket.version <= tickets[t].version,
           page.ticket.version = tickets[t].version =>
               page.ticket = tickets[t] /\ page.count \in {-1, Shown(t)},
           UNCHANGED <<tickets, messages, records, expired, outboxVars>>
    PROVE  DeskIInv'
  <1>1. /\ pages' \in [People -> Page \cup {Null}]
        /\ pages'[p] = page /\ \A q \in People : q # p => pages'[q] = pages[q]
    BY DEF DeskIInv, DeskTypeOK
  <1>2. DeskTypeOK'
    BY <1>1 DEF DeskIInv, DeskTypeOK, outboxVars
  <1>3. \A u : Shown(u)' = Shown(u)
    BY DEF Shown, CountOf
  <1>4. PageKnows(p)'
    BY <1>1, <1>3 DEF PageKnows
  <1>5. \A q \in People : q # p => PageKnows(q)'
    BY <1>1, <1>3 DEF DeskIInv, PageKnows
  <1>6. RecordsKept' /\ AnsweredOnce'
    BY DEF DeskIInv, RecordsKept, AnsweredOnce
  <1> QED
    BY <1>2, <1>4, <1>5, <1>6, OutboxStays DEF DeskIInv

(* ReadTicket: the page is the ticket as it is; its messages are not read. *)
LEMMA ReadTicketStep ==
    ASSUME DeskIInv, NEW p \in People, NEW t \in DOMAIN tickets, ReadTicket(p, t)
    PROVE  DeskIInv'
  <1>1. PICK page : page = [of |-> t, ticket |-> tickets[t], count |-> -1]
    OBVIOUS
  <1>2. tickets[t] \in TicketRow /\ t \in Nat
    BY DEF DeskIInv, DeskTypeOK
  <1>3. page \in Page /\ page.of = t /\ page.ticket = tickets[t] /\ page.count = -1
    BY <1>1, <1>2 DEF Page
  <1>4. page.ticket.version <= tickets[t].version
    BY <1>2, <1>3 DEF TicketRow
  <1>5. /\ pages' = [pages EXCEPT ![p] = page]
        /\ UNCHANGED <<tickets, messages, records, expired, outboxVars>>
    BY <1>1 DEF ReadTicket
  <1> QED
    BY <1>3, <1>4, <1>5, PageStep

(* ReadMessages: the page gets what messages it has room for now, which    *)
(* only matters if the ticket's version is still the one on the page.      *)
LEMMA ReadMessagesStep ==
    ASSUME DeskIInv, NEW p \in People, ReadMessages(p)
    PROVE  DeskIInv'
  <1>1. PICK old \in Page : old = pages[p]
    BY DEF ReadMessages, DeskIInv, DeskTypeOK
  <1>2. PICK t \in DOMAIN tickets :
            /\ old.of = t /\ old.ticket.version <= tickets[t].version
            /\ old.ticket.version = tickets[t].version => old.ticket = tickets[t]
    BY <1>1 DEF ReadMessages, DeskIInv, PageKnows
  <1>3. PICK count : count = Shown(t)
    OBVIOUS
  <1>4. count \in Int
    <2>1. DOMAIN messages = 1 .. Len(messages) /\ Len(messages) \in Nat
      BY DEF DeskIInv, DeskTypeOK
    <2>2. IsFiniteSet({i \in DOMAIN messages : messages[i].ticket = t})
      <3>1. IsFiniteSet(1 .. Len(messages))
        BY <2>1, FS_Interval
      <3>2. {i \in DOMAIN messages : messages[i].ticket = t} \subseteq 1 .. Len(messages)
        BY <2>1
      <3> QED
        BY <3>1, <3>2, FS_Subset
    <2>3. CountOf(t) \in Nat
      BY <2>2, FS_CardinalityType DEF CountOf
    <2> QED
      BY <1>3, <2>3, DeskAssumption DEF Shown
  <1>5. PICK page : page = [old EXCEPT !.count = count]
    OBVIOUS
  <1>6. page \in Page /\ page.of = t /\ page.ticket = old.ticket /\ page.count = count
    BY <1>2, <1>4, <1>5 DEF Page
  <1>7. /\ pages' = [pages EXCEPT ![p] = page]
        /\ UNCHANGED <<tickets, messages, records, expired, outboxVars>>
    BY <1>1, <1>2, <1>3, <1>5 DEF ReadMessages
  <1>8. /\ page.of = t /\ page.ticket.version <= tickets[t].version
        /\ page.ticket.version = tickets[t].version =>
               page.ticket = tickets[t] /\ page.count \in {-1, Shown(t)}
    BY <1>2, <1>3, <1>6
  <1> QED
    BY <1>6, <1>7, <1>8, PageStep

-----------------------------------------------------------------------------
(* The invariant *)

(* At first nothing was said.                                              *)
LEMMA DeskInvInit == DeskInit => DeskIInv
  <1> SUFFICES ASSUME DeskInit PROVE DeskIInv
    OBVIOUS
  <1>1. /\ tickets = <<>> /\ messages = <<>> /\ records = {} /\ expired = {}
        /\ pages = [p \in People |-> Null]
        /\ events = <<>> /\ sent = <<>> /\ batch = {}
        /\ expiring = 0 /\ queued = 0 /\ polling = FALSE /\ reached = FALSE
    BY DEF DeskInit, OutboxInit
  <1>2. DeskTypeOK
    <2>1. pages \in [People -> Page \cup {Null}]
      BY <1>1
    <2>2. tickets \in Seq(TicketRow) /\ messages \in Seq(MessageRow) /\ events \in Seq(EventRow)
      BY <1>1
    <2>3. sent \in Seq(SUBSET (Chats \cup {"customer"})) /\ Len(sent) = Len(events)
      BY <1>1
    <2>4. batch \subseteq DOMAIN events /\ polling \in BOOLEAN /\ reached \in BOOLEAN
      BY <1>1
    <2>5. expiring \in Nat /\ queued \in Nat /\ expired \subseteq Nat
          /\ records \subseteq [scope : Scopes, message : Nat]
      BY <1>1
    <2> QED
      BY <2>1, <2>2, <2>3, <2>4, <2>5 DEF DeskTypeOK
  <1>3. RecordsKept /\ AnsweredOnce /\ EventsAbout /\ ChatsOnly /\ PublishedIsSent
    BY <1>1 DEF RecordsKept, AnsweredOnce, EventsAbout, ChatsOnly, PublishedIsSent
  <1>4. WorkerKnows /\ \A p \in People : PageKnows(p)
    BY <1>1 DEF WorkerKnows, PageKnows
  <1> QED
    BY <1>2, <1>3, <1>4 DEF DeskIInv

(* No request of the customer or of an operator breaks the invariant.      *)
LEMMA RequestsStep ==
    ASSUME DeskIInv, Requests, UNCHANGED outboxRest
    PROVE  DeskIInv'
  <1>1. ASSUME NEW t \in DOMAIN tickets, NEW key \in Keys, UserReplies(t, key) PROVE DeskIInv'
    <2>1. PICK status \in Statuses : Send(t, Customer, "message", status, key)
      BY <1>1, StatusKept DEF UserReplies, Statuses
    <2> QED
      BY <2>1, TalkStep
  <1>2. ASSUME NEW t \in DOMAIN tickets, NEW key \in Keys, NEW p \in Operators, OperatorNotes(t, p, key)
        PROVE  DeskIInv'
    <2>1. Send(t, p, "internal_note", tickets[t].status, key) /\ p \in People
      BY <1>2 DEF OperatorNotes, Operators
    <2> QED
      BY <2>1, StatusKept, TalkStep
  <1>3. ASSUME NEW t \in DOMAIN tickets, NEW key \in Keys, NEW p \in Operators,
               NEW status \in Statuses, OperatorReplies(t, p, status, key)
        PROVE  DeskIInv'
    <2>1. Send(t, p, "message", status, key) /\ p \in People
      BY <1>3 DEF OperatorReplies, Operators
    <2> QED
      BY <2>1, TalkStep
  <1>4. Operators \subseteq People
    BY DEF Operators
  <1> QED
    BY <1>1, <1>2, <1>3, <1>4, CreateStep, UpdateStep DEF Requests

(* Neither does any other step of the desk, the staff or the worker.       *)
LEMMA DeskInvNext == DeskIInv /\ [DeskNext]_supportVars => DeskIInv'
  <1> SUFFICES ASSUME DeskIInv, [DeskNext]_supportVars PROVE DeskIInv'
    OBVIOUS
  <1>1. CASE Requests /\ UNCHANGED outboxRest
    BY <1>1, RequestsStep
  <1>2. ASSUME NEW r \in records, RecordExpires(r) PROVE DeskIInv'
    BY <1>2, ExpireStep
  <1>3. ASSUME NEW p \in Operators, ReadMessages(p) \/ \E t \in DOMAIN tickets : ReadTicket(p, t)
        PROVE  DeskIInv'
    BY <1>3, ReadTicketStep, ReadMessagesStep DEF Operators
  <1>4. CASE UNCHANGED <<outboxVars, deskVars>>
    <2>1. DeskTypeOK'
      BY <1>4 DEF DeskIInv, DeskTypeOK, outboxVars, deskVars
    <2>2. UNCHANGED messages /\ UNCHANGED deskVars
      BY <1>4 DEF deskVars
    <2> QED
      BY <1>4, <2>1, <2>2, OutboxStays, DeskStays DEF DeskIInv
  <1>5. CASE OutboxNext /\ UNCHANGED deskVars
    BY <1>5, OutboxStep
  <1> QED
    BY <1>1, <1>2, <1>3, <1>4, <1>5 DEF DeskNext, supportVars

(* So it always holds.                                                     *)
LEMMA DeskInvariant == DeskSpec => []DeskIInv
  BY DeskInvInit, DeskInvNext, PTL DEF DeskSpec

(* What was promised of a conversation follows from it ...                 *)
LEMMA ConversationFromIInv == DeskIInv => ConversationAddsUp
  <1> SUFFICES ASSUME DeskIInv PROVE ConversationAddsUp
    OBVIOUS
  <1>1. ASSUME NEW i \in DOMAIN messages
        PROVE  Cardinality({e \in DOMAIN events : events[e].about = i}) = IF Public(i) THEN 1 ELSE 0
    <2>1. CASE Public(i)
      <3>1. PICK e \in DOMAIN events : \A f \in DOMAIN events : events[f].about = i <=> f = e
        BY <2>1 DEF DeskIInv, EventsAbout
      <3>2. {f \in DOMAIN events : events[f].about = i} = {e}
        BY <3>1
      <3> QED
        BY <2>1, <3>2, FS_Singleton
    <2>2. CASE ~Public(i)
      <3>1. {f \in DOMAIN events : events[f].about = i} = {}
        BY <2>2 DEF DeskIInv, EventsAbout
      <3> QED
        BY <2>2, <3>1, FS_EmptySet
    <2> QED
      BY <2>1, <2>2
  <1> QED
    BY <1>1 DEF DeskIInv, AnsweredOnce, PublishedIsSent, ConversationAddsUp

(* ... and what was promised of a page.                                    *)
LEMMA VersionsFromIInv == DeskIInv => VersionsTellChanges
  BY DEF DeskIInv, PageKnows, VersionsTellChanges

(* For any number of tickets, messages, keys, operators and chats: a       *)
(* repeated request says nothing twice while its record lives, every       *)
(* message for the customer has its one event and no internal note has     *)
(* any, and what is marked published was sent to every chat, wherever the  *)
(* worker dies (support/service.py _send_message; bots/notifications.py    *)
(* deliver).                                                               *)
THEOREM ConversationAlwaysAddsUp == DeskSpec => []ConversationAddsUp
  BY DeskInvariant, ConversationFromIInv, PTL

(* An operator whose page has the ticket's version sees the ticket as it   *)
(* is and as many of its messages as the page has room for, whoever wrote  *)
(* in between the two reads of the page (support/service.py update_ticket, *)
(* admin_ticket).                                                          *)
THEOREM VersionsAlwaysTellChanges == DeskSpec => []VersionsTellChanges
  BY DeskInvariant, VersionsFromIInv, PTL

=============================================================================
