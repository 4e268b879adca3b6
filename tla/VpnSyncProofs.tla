--------------------------- MODULE VpnSyncProofs ----------------------------
(***************************************************************************)
(* Proofs about VpnSync for every number of workers, commands, attempts,   *)
(* dates, devices and faults.                                              *)
(*                                                                         *)
(* A worker acts on what it read some transactions ago, so the properties  *)
(* rest on what stays true of a claim whoever else works on its command:   *)
(* WorkersKnow says what, CommandsMakeSense what a command may be read as. *)
(***************************************************************************)
EXTENDS VpnSync, TLAPS

Phases == {"calling", "creating", "updating", "answered", "failed", "rejected"}

(* Devices and commands are those of an account; the argument of a command *)
(* is of the kind its type takes; who works on it has counted an attempt.  *)
CommandsMakeSense ==
    /\ \A h \in Hwids : devices[h] # "none" => account # None
    /\ \A c \in DOMAIN commands :
        /\ account # None
        /\ commands[c].type \in {"ensure_account", "extend"} => commands[c].of \in Expiries
        /\ commands[c].type \in {"create_device", "remove_device"} =>
               commands[c].of \in Hwids /\ devices[commands[c].of] # "none"
        /\ commands[c].status = "processing" => commands[c].attempts >= 1

(* What a worker past Open may rely on. *)
WorkersKnow ==
    \A w \in Workers : procs[w].phase \in Phases =>
        LET it == procs[w]
            command == commands[it.command]
        IN  /\ it.attempts <= command.attempts
            /\ it.phase \in {"calling", "answered"} /\ command.type # "ensure_account" => Provisioned
            /\ it.phase \in {"creating", "updating"} => command.type = "ensure_account"
            /\ it.phase \in {"updating", "answered"} => panel # None

IInv == TypeOK /\ CommandsMakeSense /\ WorkersKnow /\ NoOrphanUser

-----------------------------------------------------------------------------
(* Facts about sequences, claims and accounts *)

(* Appending a command leaves the others alone. *)
LEMMA Appended ==
    ASSUME commands \in Seq(Commands), NEW x \in Commands, commands' = Append(commands, x)
    PROVE  /\ commands' \in Seq(Commands)
           /\ DOMAIN commands' = 1 .. Len(commands) + 1
           /\ DOMAIN commands = 1 .. Len(commands)
           /\ Len(commands) \in Nat
           /\ \A c \in DOMAIN commands : commands'[c] = commands[c]
           /\ commands'[Len(commands) + 1] = x
  OBVIOUS

(* So does changing one. *)
LEMMA Changed ==
    ASSUME commands \in Seq(Commands), NEW c \in DOMAIN commands, NEW x \in Commands,
           commands' = [commands EXCEPT ![c] = x]
    PROVE  /\ commands' \in Seq(Commands)
           /\ DOMAIN commands' = DOMAIN commands
           /\ commands'[c] = x
           /\ \A d \in DOMAIN commands : d # c => commands'[d] = commands[d]
  OBVIOUS

(* The fields of a command. *)
LEMMA CommandFields ==
    ASSUME NEW s \in Seq(Commands), NEW c \in DOMAIN s
    PROVE  /\ s[c] \in Commands
           /\ s[c].attempts \in 0 .. AttemptsBound /\ s[c].attempts \in Nat
           /\ s[c].type \in {"ensure_account", "extend", "disable", "create_device", "remove_device"}
  <1>1. s[c] \in Commands
    OBVIOUS
  <1> QED
    BY <1>1 DEF Commands

(* A worker past Open has a command and has counted an attempt. *)
LEMMA PastOpen ==
    ASSUME TypeOK, NEW w \in Workers, procs[w].phase \in Phases
    PROVE  /\ procs[w].command \in DOMAIN commands
           /\ procs[w].attempts \in 1 .. AttemptsBound
           /\ procs[w] = [phase |-> procs[w].phase, command |-> procs[w].command,
                          attempts |-> procs[w].attempts]
  <1>1. procs[w] # Idle
    BY DEF Idle, Phases
  <1>2. procs[w] \notin [phase : {"claimed"}, command : DOMAIN commands]
    BY DEF Phases
  <1>3. procs[w] \in [phase : {"calling", "creating", "updating", "answered", "failed", "rejected"},
                      command : DOMAIN commands, attempts : 1 .. AttemptsBound]
    BY <1>1, <1>2 DEF TypeOK
  <1> QED
    BY <1>3

(* The states a worker may be in. *)
ProcStates ==
    {Idle} \cup [phase : {"claimed"}, command : DOMAIN commands]
           \cup [phase : Phases, command : DOMAIN commands, attempts : 1 .. AttemptsBound]

(* The attempts of a command can be counted at least once. *)
LEMMA BoundIsPositive == AttemptsBound \in Nat \ {0}
  BY BoundsAssumption DEF AttemptsBound

(* None is neither an account nor a user of the panel. *)
LEMMA NoneIsNothing == None \notin Accounts /\ None \notin PanelUsers /\ None \notin Hwids
  BY NoneAssumption

-----------------------------------------------------------------------------
(* The invariant *)

(* The invariant holds at first: no command, no device, idle workers.      *)
LEMMA InvInit == Init => IInv
  <1> SUFFICES ASSUME Init PROVE IInv
    OBVIOUS
  <1>1. \/ account = None /\ panel = None
        \/ account \in Accounts /\ account.provisioned /\ panel \in PanelUsers
    <2>1. CASE account = None /\ panel = None
      BY <2>1
    <2>2. ASSUME NEW e \in Expiries,
                 account = [desiredStatus |-> "active", desiredExpiresAt |-> e, provisioned |-> TRUE],
                 panel = [status |-> "active", expiresAt |-> e]
          PROVE  account \in Accounts /\ account.provisioned /\ panel \in PanelUsers
      <3>1. account \in Accounts /\ account.provisioned
        BY <2>2 DEF Accounts
      <3>2. panel \in PanelUsers
        BY <2>2 DEF PanelUsers
      <3> QED
        BY <3>1, <3>2
    <2> QED
      BY <2>1, <2>2 DEF Init
  <1>2. commands = <<>> /\ commands \in Seq(Commands) /\ DOMAIN commands = {}
    BY DEF Init
  <1>3. TypeOK
    <2>1. account \in Accounts \cup {None} /\ panel \in PanelUsers \cup {None}
      BY <1>1
    <2>2. devices \in [Hwids -> {"none", "reserved", "observed", "revoked"}]
      BY DEF Init
    <2>3. \A h \in Hwids : devices[h] # "revoked"
      BY DEF Init
    <2>4. registered \subseteq {h \in Hwids : devices[h] # "none"}
      BY DEF Init
    <2>5. procs \in [Workers -> {Idle} \cup
             [phase : {"claimed"}, command : DOMAIN commands] \cup
             [phase : {"calling", "creating", "updating", "answered", "failed", "rejected"},
              command : DOMAIN commands, attempts : 1 .. AttemptsBound]]
      BY DEF Init
    <2>6. faults \in 0 .. MaxFaults
      BY BoundsAssumption DEF Init
    <2> QED
      BY <1>2, <2>1, <2>2, <2>3, <2>4, <2>5, <2>6 DEF TypeOK
  <1>4. CommandsMakeSense
    BY <1>2 DEF CommandsMakeSense, Init
  <1>5. WorkersKnow
    <2>1. \A w \in Workers : procs[w].phase = "idle"
      BY DEF Init, Idle
    <2> QED
      BY <2>1 DEF WorkersKnow, Phases
  <1>6. NoOrphanUser
    BY <1>1, <1>2, NoneIsNothing DEF NoOrphanUser, Provisioned
  <1> QED
    BY <1>3, <1>4, <1>5, <1>6 DEF IInv

(* A transaction that enqueues a command and keeps what is known of the    *)
(* account at the panel preserves the invariant.                           *)
LEMMA EnqueueInv ==
    ASSUME IInv, NEW type, NEW of,
           [type |-> type, of |-> of, status |-> "pending", attempts |-> 0] \in Commands,
           Enqueue(type, of),
           type \in {"ensure_account", "extend"} => of \in Expiries,
           type \in {"create_device", "remove_device"} => of \in Hwids /\ devices'[of] # "none",
           devices' \in [Hwids -> {"none", "reserved", "observed", "revoked"}],
           \A h \in Hwids : devices[h] # "none" => devices'[h] # "none",
           \A h \in Hwids : devices'[h] = "revoked" <=>
               devices[h] = "revoked" \/ (type = "remove_device" /\ of = h),
           account' \in Accounts, Provisioned' <=> Provisioned,
           UNCHANGED <<panel, registered, procs, faults>>
    PROVE  IInv'
  <1> DEFINE x == [type |-> type, of |-> of, status |-> "pending", attempts |-> 0]
  <1> USE DEF IInv
  <1>1. /\ commands' \in Seq(Commands)
        /\ DOMAIN commands' = 1 .. Len(commands) + 1
        /\ DOMAIN commands = 1 .. Len(commands)
        /\ Len(commands) \in Nat
        /\ \A c \in DOMAIN commands : commands'[c] = commands[c]
        /\ commands'[Len(commands) + 1] = x
    BY Appended DEF TypeOK, Enqueue
  <1>2. DOMAIN commands \subseteq DOMAIN commands'
    BY <1>1
  <1>3. account' # None
    BY NoneAssumption
  <1>4. TypeOK'
    <2>1. account' \in Accounts \cup {None} /\ panel' \in PanelUsers \cup {None} /\ faults' \in 0 .. MaxFaults
      BY DEF TypeOK
    <2>2. \A h \in Hwids : devices'[h] = "revoked" <=>
            \E c \in DOMAIN commands' : commands'[c].type = "remove_device" /\ commands'[c].of = h
      <3> SUFFICES ASSUME NEW h \in Hwids
                   PROVE  devices'[h] = "revoked" <=>
                            \E c \in DOMAIN commands' :
                              commands'[c].type = "remove_device" /\ commands'[c].of = h
        OBVIOUS
      <3>1. devices[h] = "revoked" <=>
              \E c \in DOMAIN commands : commands[c].type = "remove_device" /\ commands[c].of = h
        BY DEF TypeOK
      <3>2. DOMAIN commands' = DOMAIN commands \cup {Len(commands) + 1}
        BY <1>1
      <3>3. x.type = type /\ x.of = of
        OBVIOUS
      <3> QED
        BY <1>1, <3>1, <3>2, <3>3
    <2>3. registered' \subseteq {h \in Hwids : devices'[h] # "none"}
      BY DEF TypeOK
    <2>4. procs' \in [Workers -> {Idle} \cup
             [phase : {"claimed"}, command : DOMAIN commands'] \cup
             [phase : {"calling", "creating", "updating", "answered", "failed", "rejected"},
              command : DOMAIN commands', attempts : 1 .. AttemptsBound]]
      BY <1>2 DEF TypeOK
    <2> QED
      BY <1>1, <2>1, <2>2, <2>3, <2>4 DEF TypeOK
  <1>5. CommandsMakeSense'
    BY <1>1, <1>3 DEF CommandsMakeSense, TypeOK
  <1>6. WorkersKnow'
    <2> SUFFICES ASSUME NEW w \in Workers, procs[w].phase \in Phases
                 PROVE  LET it == procs[w]
                            command == commands'[it.command]
                        IN  /\ it.attempts <= command.attempts
                            /\ it.phase \in {"calling", "answered"} /\ command.type # "ensure_account" => Provisioned'
                            /\ it.phase \in {"creating", "updating"} => command.type = "ensure_account"
                            /\ it.phase \in {"updating", "answered"} => panel' # None
      BY DEF WorkersKnow
    <2>1. procs[w].command \in DOMAIN commands
      BY PastOpen
    <2> QED
      BY <1>1, <2>1 DEF WorkersKnow
  <1>7. NoOrphanUser'
    BY <1>1, <1>2 DEF NoOrphanUser
  <1> QED
    BY <1>4, <1>5, <1>6, <1>7

(* A step of a worker preserves the invariant if it forgets nothing: no    *)
(* attempt, no provisioned account, no user of the panel; if it keeps what *)
(* a command is and which devices were removed; and if what is new is well *)
(* founded: what its worker now relies on, a success, a provisioned        *)
(* account, a user of the panel.                                           *)
LEMMA WorkerInv ==
    ASSUME IInv, NEW w \in Workers, NEW r \in ProcStates, procs' = [procs EXCEPT ![w] = r],
           commands' \in Seq(Commands), DOMAIN commands' = DOMAIN commands,
           \A c \in DOMAIN commands :
               /\ commands'[c].type = commands[c].type /\ commands'[c].of = commands[c].of
               /\ commands'[c].attempts >= commands[c].attempts
               /\ commands'[c].status = "processing" => commands'[c].attempts >= 1
               /\ commands'[c].status = "succeeded" => Provisioned',
           account' \in Accounts \cup {None}, account # None => account' # None,
           Provisioned => Provisioned', Provisioned' => panel' # None,
           devices' \in [Hwids -> {"none", "reserved", "observed", "revoked"}],
           \A h \in Hwids : devices[h] # "none" <=> devices'[h] # "none",
           \A h \in Hwids : devices'[h] = "revoked" <=> devices[h] = "revoked",
           panel' \in PanelUsers \cup {None}, panel # None => panel' # None,
           panel' # None =>
               panel # None \/ \E c \in DOMAIN commands : commands[c].type = "ensure_account",
           registered' \subseteq {h \in Hwids : devices[h] # "none"},
           faults' \in 0 .. MaxFaults,
           r.phase \in Phases =>
               LET command == commands'[r.command]
               IN  /\ r.attempts <= command.attempts
                   /\ r.phase \in {"calling", "answered"} /\ command.type # "ensure_account" => Provisioned'
                   /\ r.phase \in {"creating", "updating"} => command.type = "ensure_account"
                   /\ r.phase \in {"updating", "answered"} => panel' # None
    PROVE  IInv'
  <1> USE DEF IInv
  <1>1. TypeOK'
    <2>1. \A h \in Hwids : devices'[h] = "revoked" <=>
            \E c \in DOMAIN commands' : commands'[c].type = "remove_device" /\ commands'[c].of = h
      BY DEF TypeOK
    <2>2. registered' \subseteq {h \in Hwids : devices'[h] # "none"}
      OBVIOUS
    <2>3. procs' \in [Workers -> ProcStates]
      BY DEF TypeOK, ProcStates, Phases
    <2>4. procs' \in [Workers -> {Idle} \cup
             [phase : {"claimed"}, command : DOMAIN commands'] \cup
             [phase : {"calling", "creating", "updating", "answered", "failed", "rejected"},
              command : DOMAIN commands', attempts : 1 .. AttemptsBound]]
      BY <2>3 DEF ProcStates, Phases
    <2> QED
      BY <2>1, <2>2, <2>4 DEF TypeOK
  <1>2. CommandsMakeSense'
    BY DEF CommandsMakeSense
  <1>3. WorkersKnow'
    <2> SUFFICES ASSUME NEW v \in Workers, procs'[v].phase \in Phases
                 PROVE  LET it == procs'[v]
                            command == commands'[it.command]
                        IN  /\ it.attempts <= command.attempts
                            /\ it.phase \in {"calling", "answered"} /\ command.type # "ensure_account" => Provisioned'
                            /\ it.phase \in {"creating", "updating"} => command.type = "ensure_account"
                            /\ it.phase \in {"updating", "answered"} => panel' # None
      BY DEF WorkersKnow
    <2>1. CASE v = w
      BY <2>1 DEF TypeOK
    <2>2. CASE v # w
      <3>1. procs'[v] = procs[v]
        BY <2>2 DEF TypeOK
      <3>2. /\ procs[v].command \in DOMAIN commands
            /\ procs[v].attempts \in 1 .. AttemptsBound
        BY <3>1, PastOpen
      <3>3. /\ commands[procs[v].command].attempts \in Nat
            /\ commands'[procs[v].command].attempts \in Nat
        BY <3>2, CommandFields DEF TypeOK
      <3> QED
        BY <3>1, <3>2, <3>3 DEF WorkersKnow
    <2> QED
      BY <2>1, <2>2
  <1>4. NoOrphanUser'
    BY DEF NoOrphanUser
  <1> QED
    BY <1>1, <1>2, <1>3, <1>4

-----------------------------------------------------------------------------
(* The transactions that want something of the account *)

(* What Entitle makes of the account. *)
LEMMA Entitled ==
    ASSUME IInv, NEW e \in Expiries, Entitle(e)
    PROVE  account' \in Accounts /\ (Provisioned' <=> Provisioned)
  <1>1. Provisioned \in BOOLEAN
    BY DEF Provisioned, IInv, TypeOK, Accounts
  <1>2. account' \in Accounts /\ account'.provisioned = Provisioned
    BY <1>1 DEF Entitle, Accounts
  <1> QED
    BY <1>2, NoneIsNothing DEF Provisioned

(* An entitlement carried over by an administrator or a family.            *)
LEMMA SyncEntitlementInv ==
    ASSUME IInv, NEW e \in Expiries, SyncEntitlement(e)
    PROVE  IInv'
  <1> USE DEF SyncEntitlement
  <1>1. account' \in Accounts /\ (Provisioned' <=> Provisioned)
    BY Entitled
  <1>2. [type |-> "ensure_account", of |-> e, status |-> "pending", attempts |-> 0] \in Commands
    BY BoundIsPositive DEF Commands
  <1>3. devices' \in [Hwids -> {"none", "reserved", "observed", "revoked"}]
    BY DEF IInv, TypeOK
  <1> QED
    BY <1>1, <1>2, <1>3, EnqueueInv

(* A period, days or a reward paid for: extended or ensured.               *)
LEMMA PayInv ==
    ASSUME IInv, NEW e \in Expiries, Pay(e)
    PROVE  IInv'
  <1> USE DEF Pay
  <1> DEFINE type == IF Provisioned THEN "extend" ELSE "ensure_account"
  <1>1. account' \in Accounts /\ (Provisioned' <=> Provisioned)
    BY Entitled
  <1>2. [type |-> type, of |-> e, status |-> "pending", attempts |-> 0] \in Commands
    BY BoundIsPositive DEF Commands
  <1>3. devices' \in [Hwids -> {"none", "reserved", "observed", "revoked"}]
    BY DEF IInv, TypeOK
  <1>4. type \notin {"create_device", "remove_device"}
    OBVIOUS
  <1>5. Enqueue(type, e)
    OBVIOUS
  <1> HIDE DEF type
  <1> QED
    BY <1>1, <1>2, <1>3, <1>4, <1>5, EnqueueInv

(* Both ways to disable an account keep whether the panel knows it. *)
LEMMA AccountDisabled ==
    ASSUME IInv, account # None, account' = [account EXCEPT !.desiredStatus = "disabled"]
    PROVE  account' \in Accounts /\ (Provisioned' <=> Provisioned)
  <1>1. account \in Accounts
    BY DEF IInv, TypeOK
  <1>2. account' \in Accounts /\ account'.provisioned = account.provisioned
    BY <1>1 DEF Accounts
  <1> QED
    BY <1>2, NoneIsNothing DEF Provisioned

(* A disabled account with its command.                                    *)
LEMMA DisableEnqueued ==
    ASSUME IInv, account # None, account' = [account EXCEPT !.desiredStatus = "disabled"],
           Enqueue("disable", None), UNCHANGED <<devices, panel, registered, procs, faults>>
    PROVE  IInv'
  <1>1. account' \in Accounts /\ (Provisioned' <=> Provisioned)
    BY AccountDisabled
  <1>2. [type |-> "disable", of |-> None, status |-> "pending", attempts |-> 0] \in Commands
    BY BoundIsPositive DEF Commands
  <1>3. devices' \in [Hwids -> {"none", "reserved", "observed", "revoked"}]
    BY DEF IInv, TypeOK
  <1> QED
    BY <1>1, <1>2, <1>3, EnqueueInv

(* Blocking, with or without a command.                                    *)
LEMMA BlockInv == ASSUME IInv, Block PROVE IInv'
  <1>1. CASE Provisioned
    BY <1>1, DisableEnqueued DEF Block
  <1>2. CASE ~Provisioned
    <2>1. account' \in Accounts /\ ~Provisioned'
      BY <1>2, AccountDisabled DEF Block
    <2>2. UNCHANGED <<commands, devices, panel, registered, procs, faults>>
      BY <1>2 DEF Block
    <2>3. account' # None
      BY <2>1, NoneIsNothing
    <2>4. TypeOK'
      BY <2>1, <2>2 DEF IInv, TypeOK
    <2>5. CommandsMakeSense'
      BY <2>2, <2>3 DEF IInv, CommandsMakeSense
    <2>6. WorkersKnow'
      BY <1>2, <2>1, <2>2 DEF IInv, WorkersKnow
    <2>7. NoOrphanUser'
      BY <1>2, <2>1, <2>2 DEF IInv, NoOrphanUser
    <2> QED
      BY <2>4, <2>5, <2>6, <2>7 DEF IInv
  <1> QED
    BY <1>1, <1>2

(* Leaving a family always enqueues.                                       *)
LEMMA LeaveFamilyInv == ASSUME IInv, LeaveFamily PROVE IInv'
  BY DisableEnqueued DEF LeaveFamily

(* A device is reserved under an id no row has.                            *)
LEMMA CreateDeviceInv ==
    ASSUME IInv, NEW h \in Hwids, CreateDevice(h)
    PROVE  IInv'
  <1> USE DEF CreateDevice
  <1>1. account' \in Accounts /\ (Provisioned' <=> Provisioned)
    BY DEF IInv, TypeOK, Provisioned
  <1>2. [type |-> "create_device", of |-> h, status |-> "pending", attempts |-> 0] \in Commands
    BY BoundIsPositive DEF Commands
  <1>3. /\ devices' \in [Hwids -> {"none", "reserved", "observed", "revoked"}]
        /\ \A g \in Hwids : devices[g] # "none" => devices'[g] # "none"
        /\ \A g \in Hwids : devices'[g] = "revoked" <=> devices[g] = "revoked"
        /\ devices'[h] # "none"
    BY DEF IInv, TypeOK
  <1> QED
    BY <1>1, <1>2, <1>3, EnqueueInv

(* A device is revoked.                                                    *)
LEMMA RemoveDeviceInv ==
    ASSUME IInv, NEW h \in Hwids, RemoveDevice(h)
    PROVE  IInv'
  <1> USE DEF RemoveDevice
  <1>1. account' \in Accounts /\ (Provisioned' <=> Provisioned)
    BY DEF IInv, TypeOK, CommandsMakeSense, Provisioned
  <1>2. [type |-> "remove_device", of |-> h, status |-> "pending", attempts |-> 0] \in Commands
    BY BoundIsPositive DEF Commands
  <1>3. /\ devices' \in [Hwids -> {"none", "reserved", "observed", "revoked"}]
        /\ \A g \in Hwids : devices[g] # "none" => devices'[g] # "none"
        /\ \A g \in Hwids : devices'[g] = "revoked" <=> devices[g] = "revoked" \/ g = h
    BY DEF IInv, TypeOK
  <1>4. devices'[h] # "none"
    BY <1>3
  <1> QED
    BY <1>1, <1>2, <1>3, <1>4, EnqueueInv

-----------------------------------------------------------------------------
(* The worker's steps *)

(* A claim counts an attempt; its worker relies on nothing yet.            *)
LEMMA ClaimInv ==
    ASSUME IInv, NEW w \in Workers, NEW c \in DOMAIN commands, Claim(w, c)
    PROVE  IInv'
  <1> DEFINE n == IF commands[c].attempts < AttemptsBound THEN commands[c].attempts + 1
                  ELSE commands[c].attempts
             x == [commands[c] EXCEPT !.status = "processing", !.attempts = n]
             r == [phase |-> "claimed", command |-> c]
  <1> USE DEF Claim
  <1>1. commands \in Seq(Commands)
    BY DEF IInv, TypeOK
  <1>2. /\ commands[c] \in Commands
        /\ commands[c].attempts \in 0 .. AttemptsBound
    BY <1>1, CommandFields
  <1>3. /\ n \in 0 .. AttemptsBound
        /\ n >= commands[c].attempts
        /\ n >= 1
    BY <1>2, BoundIsPositive
  <1>4. /\ x \in Commands
        /\ x.type = commands[c].type /\ x.of = commands[c].of
        /\ x.attempts = n /\ x.status = "processing"
    BY <1>2, <1>3 DEF Commands
  <1>5. commands' = [commands EXCEPT ![c] = x]
    OBVIOUS
  <1> HIDE DEF x, n
  <1>6. /\ commands' \in Seq(Commands)
        /\ DOMAIN commands' = DOMAIN commands
        /\ commands'[c] = x
        /\ \A d \in DOMAIN commands : d # c => commands'[d] = commands[d]
    BY <1>1, <1>4, <1>5, Changed
  <1>7. \A d \in DOMAIN commands :
          /\ commands'[d].type = commands[d].type /\ commands'[d].of = commands[d].of
          /\ commands'[d].attempts >= commands[d].attempts
          /\ commands'[d].status = "processing" => commands'[d].attempts >= 1
          /\ commands'[d].status = "succeeded" => Provisioned'
    <2> SUFFICES ASSUME NEW d \in DOMAIN commands
                 PROVE  /\ commands'[d].type = commands[d].type /\ commands'[d].of = commands[d].of
                        /\ commands'[d].attempts >= commands[d].attempts
                        /\ commands'[d].status = "processing" => commands'[d].attempts >= 1
                        /\ commands'[d].status = "succeeded" => Provisioned
      BY DEF Provisioned
    <2>1. CASE d = c
      BY <1>3, <1>4, <1>6, <2>1
    <2>2. CASE d # c
      <3>1. commands[d].attempts \in Nat
        BY <1>1, CommandFields
      <3> QED
        BY <1>6, <2>2, <3>1 DEF IInv, CommandsMakeSense, NoOrphanUser
    <2> QED
      BY <2>1, <2>2
  <1>8. r \in ProcStates /\ r.phase \notin Phases /\ procs' = [procs EXCEPT ![w] = r]
    BY DEF ProcStates, Phases
  <1>9. faults' \in 0 .. MaxFaults
    BY BoundsAssumption DEF IInv, TypeOK, Claimable
  <1>10. /\ account' \in Accounts \cup {None} /\ account' = account
         /\ devices' \in [Hwids -> {"none", "reserved", "observed", "revoked"}] /\ devices' = devices
         /\ panel' \in PanelUsers \cup {None} /\ panel' = panel
         /\ registered' \subseteq {h \in Hwids : devices[h] # "none"}
         /\ (Provisioned' <=> Provisioned)
         /\ Provisioned => panel # None
    BY DEF IInv, TypeOK, Provisioned, NoOrphanUser
  <1> HIDE DEF r, Claim
  <1> QED
    BY <1>6, <1>7, <1>8, <1>9, <1>10, WorkerInv

(* What holds of the commands after a step that leaves them alone. *)
LEMMA SameCommands ==
    ASSUME IInv, UNCHANGED commands, Provisioned => Provisioned'
    PROVE  /\ commands' \in Seq(Commands)
           /\ DOMAIN commands' = DOMAIN commands
           /\ \A c \in DOMAIN commands :
                /\ commands'[c].type = commands[c].type /\ commands'[c].of = commands[c].of
                /\ commands'[c].attempts >= commands[c].attempts
                /\ commands'[c].status = "processing" => commands'[c].attempts >= 1
                /\ commands'[c].status = "succeeded" => Provisioned'
  <1>1. commands \in Seq(Commands)
    BY DEF IInv, TypeOK
  <1>2. \A c \in DOMAIN commands : commands[c].attempts \in Nat
    BY <1>1, CommandFields
  <1> QED
    BY <1>1, <1>2 DEF IInv, CommandsMakeSense, NoOrphanUser

(* What holds after a step that leaves the rest alone as well. *)
LEMMA SameRest ==
    ASSUME IInv, UNCHANGED <<account, devices, panel, registered>>
    PROVE  /\ account' \in Accounts \cup {None} /\ account' = account
           /\ devices' \in [Hwids -> {"none", "reserved", "observed", "revoked"}] /\ devices' = devices
           /\ panel' \in PanelUsers \cup {None} /\ panel' = panel
           /\ registered' \subseteq {h \in Hwids : devices[h] # "none"}
           /\ (Provisioned' <=> Provisioned)
           /\ Provisioned' => panel' # None
  BY DEF IInv, TypeOK, Provisioned, NoOrphanUser

(* A crash forgets what the worker knew, and nothing else.                 *)
LEMMA CrashInv ==
    ASSUME IInv, NEW w \in Workers, Crash(w)
    PROVE  IInv'
  <1> USE DEF Crash
  <1>1. Idle \in ProcStates /\ Idle.phase \notin Phases /\ procs' = [procs EXCEPT ![w] = Idle]
    BY DEF ProcStates, Phases, Idle
  <1>2. faults' \in 0 .. MaxFaults
    BY BoundsAssumption DEF IInv, TypeOK
  <1>3. UNCHANGED commands /\ UNCHANGED <<account, devices, panel, registered>>
    OBVIOUS
  <1> QED
    BY <1>1, <1>2, <1>3, SameRest, SameCommands, WorkerInv

(* What a worker reads in its first transaction it may rely on.            *)
LEMMA OpenInv ==
    ASSUME IInv, NEW w \in Workers, Open(w)
    PROVE  IInv'
  <1> DEFINE c == procs[w].command
             phase == IF commands[c].type = "ensure_account" \/ account.provisioned
                      THEN "calling" ELSE "failed"
             r == IF commands[c].status # "processing" THEN Idle
                  ELSE [phase |-> phase, command |-> c, attempts |-> commands[c].attempts]
  <1> USE DEF Open
  <1>1. c \in DOMAIN commands
    <2>1. procs[w] # Idle
      BY DEF Idle
    <2>2. procs[w].phase \notin Phases
      BY DEF Phases
    <2> QED
      BY <2>1, <2>2 DEF IInv, TypeOK, Phases
  <1>2. procs' = [procs EXCEPT ![w] = r]
    OBVIOUS
  <1>3. commands[c].attempts \in 0 .. AttemptsBound
    BY <1>1, CommandFields DEF IInv, TypeOK
  <1>4. commands[c].status = "processing" => commands[c].attempts \in 1 .. AttemptsBound
    BY <1>1, <1>3, BoundIsPositive DEF IInv, CommandsMakeSense
  <1>5. r \in ProcStates
    BY <1>1, <1>4 DEF ProcStates, Phases
  <1>6. UNCHANGED commands /\ UNCHANGED <<account, devices, panel, registered>> /\ faults' \in 0 .. MaxFaults
    BY DEF IInv, TypeOK
  <1>7. r.phase \in Phases =>
          LET command == commands'[r.command]
          IN  /\ r.attempts <= command.attempts
              /\ r.phase \in {"calling", "answered"} /\ command.type # "ensure_account" => Provisioned'
              /\ r.phase \in {"creating", "updating"} => command.type = "ensure_account"
              /\ r.phase \in {"updating", "answered"} => panel' # None
    <2>1. CASE commands[c].status # "processing"
      BY <2>1 DEF Idle, Phases
    <2>2. CASE commands[c].status = "processing"
      <3>1. r.phase = phase /\ r.command = c /\ r.attempts = commands[c].attempts
        BY <2>2
      <3>2. account # None
        BY <1>1 DEF IInv, CommandsMakeSense
      <3>3. phase = "calling" /\ commands[c].type # "ensure_account" => Provisioned
        BY <3>2 DEF Provisioned
      <3>4. phase \in {"calling", "failed"}
        OBVIOUS
      <3> HIDE DEF r, phase
      <3> QED
        BY <1>3, <1>6, <3>1, <3>3, <3>4 DEF Provisioned
    <2> QED
      BY <2>1, <2>2
  <1> HIDE DEF r, Open
  <1> QED
    BY <1>2, <1>5, <1>6, <1>7, SameRest, SameCommands, WorkerInv

(* A call to the panel, after which the worker is in phase p: the panel    *)
(* loses no user and gets one only for an ensure_account command.          *)
LEMMA CallInv ==
    ASSUME IInv, NEW w \in Workers, procs[w].phase \in {"calling", "creating", "updating"},
           NEW p \in Phases, Go(w, p),
           UNCHANGED <<account, commands, devices, faults>>,
           panel' \in PanelUsers \cup {None}, panel # None => panel' # None,
           panel' # None => panel # None \/ commands[procs[w].command].type = "ensure_account",
           registered' \subseteq {h \in Hwids : devices[h] # "none"},
           p \in {"creating", "updating"} => commands[procs[w].command].type = "ensure_account",
           p \in {"updating", "answered"} => panel' # None,
           p # "calling"
    PROVE  IInv'
  <1> DEFINE r == [phase |-> p, command |-> procs[w].command, attempts |-> procs[w].attempts]
  <1>1. /\ procs[w].command \in DOMAIN commands
        /\ procs[w].attempts \in 1 .. AttemptsBound
        /\ procs[w] = [phase |-> procs[w].phase, command |-> procs[w].command,
                       attempts |-> procs[w].attempts]
    BY PastOpen DEF IInv, Phases
  <1>2. procs' = [procs EXCEPT ![w] = r]
    <2>1. [procs[w] EXCEPT !.phase = p] = r
      BY <1>1
    <2>2. procs' = [procs EXCEPT ![w] = [procs[w] EXCEPT !.phase = p]]
      BY DEF Go
    <2> QED
      BY <2>1, <2>2
  <1>3. r \in ProcStates
    BY <1>1 DEF ProcStates
  <1>4. /\ account' \in Accounts \cup {None} /\ account' = account
        /\ devices' \in [Hwids -> {"none", "reserved", "observed", "revoked"}] /\ devices' = devices
        /\ faults' \in 0 .. MaxFaults
        /\ (Provisioned' <=> Provisioned)
        /\ Provisioned' => panel' # None
    BY DEF IInv, TypeOK, Provisioned, NoOrphanUser
  <1>5. /\ procs[w].attempts <= commands[procs[w].command].attempts
        /\ procs[w].phase = "calling" /\ commands[procs[w].command].type # "ensure_account" => Provisioned
        /\ procs[w].phase \in {"creating", "updating"} => commands[procs[w].command].type = "ensure_account"
    BY DEF IInv, WorkersKnow, Phases
  <1>6. r.phase \in Phases =>
          LET command == commands'[r.command]
          IN  /\ r.attempts <= command.attempts
              /\ r.phase \in {"calling", "answered"} /\ command.type # "ensure_account" => Provisioned'
              /\ r.phase \in {"creating", "updating"} => command.type = "ensure_account"
              /\ r.phase \in {"updating", "answered"} => panel' # None
    BY <1>4, <1>5
  <1>7. panel' # None =>
          panel # None \/ \E c \in DOMAIN commands : commands[c].type = "ensure_account"
    BY <1>1
  <1> HIDE DEF r
  <1> QED
    BY <1>2, <1>3, <1>4, <1>6, <1>7, SameCommands, WorkerInv

(* What a worker at a call knows. *)
LEMMA AtCall ==
    ASSUME IInv, NEW w \in Workers, procs[w].phase \in {"calling", "creating", "updating"}
    PROVE  /\ procs[w].command \in DOMAIN commands
           /\ procs[w].phase = "calling" /\ commands[procs[w].command].type # "ensure_account" => panel # None
           /\ procs[w].phase \in {"creating", "updating"} => commands[procs[w].command].type = "ensure_account"
           /\ procs[w].phase = "updating" => panel # None
           /\ commands[procs[w].command].type \in {"ensure_account", "extend"} =>
                 commands[procs[w].command].of \in Expiries
           /\ commands[procs[w].command].type \in {"create_device", "remove_device"} =>
                 /\ commands[procs[w].command].of \in Hwids
                 /\ devices[commands[procs[w].command].of] # "none"
           /\ panel \in PanelUsers \cup {None}
           /\ registered \subseteq {h \in Hwids : devices[h] # "none"}
  <1>1. procs[w].command \in DOMAIN commands
    BY PastOpen DEF IInv, Phases
  <1>2. Provisioned => panel # None
    BY DEF IInv, NoOrphanUser
  <1>3. /\ procs[w].phase = "calling" /\ commands[procs[w].command].type # "ensure_account" => panel # None
        /\ procs[w].phase \in {"creating", "updating"} => commands[procs[w].command].type = "ensure_account"
        /\ procs[w].phase = "updating" => panel # None
    BY <1>2 DEF IInv, WorkersKnow, Phases
  <1> QED
    BY <1>1, <1>3 DEF IInv, CommandsMakeSense, TypeOK

(* Whether to create or to update is decided by the panel's answer.        *)
LEMMA LookUpInv ==
    ASSUME IInv, NEW w \in Workers, LookUp(w)
    PROVE  IInv'
  <1> USE DEF LookUp, Calling
  <1>1. CASE panel = None
    <2>1. panel' = panel /\ Go(w, "creating")
      BY <1>1
    <2> QED
      BY <1>1, <2>1, AtCall, CallInv DEF Phases
  <1>2. CASE panel # None
    <2>1. panel \in PanelUsers /\ panel' = [panel EXCEPT !.status = "active"] /\ Go(w, "updating")
      BY <1>2, AtCall
    <2>2. panel' \in PanelUsers
      BY <2>1 DEF PanelUsers
    <2> QED
      BY <1>2, <2>1, <2>2, NoneIsNothing, AtCall, CallInv DEF Phases
  <1> QED
    BY <1>1, <1>2

(* A call the panel carried out, whatever became of its answer. *)
LEMMA AnsweredInv ==
    ASSUME IInv, NEW w \in Workers, procs[w].phase \in {"calling", "creating", "updating"},
           Answer(w),
           UNCHANGED <<account, commands, devices, faults>>,
           panel' \in PanelUsers,
           panel # None \/ commands[procs[w].command].type = "ensure_account",
           registered' \subseteq {h \in Hwids : devices[h] # "none"}
    PROVE  IInv'
  <1>1. PICK p \in {"answered", "failed", "rejected"} : Go(w, p)
    BY DEF Answer
  <1>2. p \in Phases /\ p \notin {"creating", "updating", "calling"}
    BY DEF Phases
  <1>3. panel' # None
    BY NoneIsNothing
  <1> QED
    BY <1>1, <1>2, <1>3, CallInv

(* Only ensure_account creates a user.                                     *)
LEMMA CreateInv ==
    ASSUME IInv, NEW w \in Workers, Create(w)
    PROVE  IInv'
  <1> USE DEF Create
  <1>1. commands[procs[w].command].type = "ensure_account" /\ commands[procs[w].command].of \in Expiries
    BY AtCall
  <1>2. panel' \in PanelUsers
    BY <1>1 DEF PanelUsers
  <1> QED
    BY <1>1, <1>2, AtCall, AnsweredInv

(* An update finds the user it was promised.                               *)
LEMMA UpdateInv ==
    ASSUME IInv, NEW w \in Workers, Update(w)
    PROVE  IInv'
  <1> USE DEF Update, Calling
  <1>1. procs[w].phase \in {"calling", "creating", "updating"}
    OBVIOUS
  <1>2. panel \in PanelUsers /\ panel # None /\ commands[procs[w].command].of \in Expiries
    BY <1>1, AtCall
  <1>3. panel' \in PanelUsers
    BY <1>2 DEF PanelUsers
  <1> QED
    BY <1>1, <1>2, <1>3, AtCall, AnsweredInv

(* So does disabling.                                                      *)
LEMMA DisableInv ==
    ASSUME IInv, NEW w \in Workers, Disable(w)
    PROVE  IInv'
  <1> USE DEF Disable, Calling
  <1>1. panel \in PanelUsers /\ panel # None
    BY AtCall
  <1>2. panel' \in PanelUsers
    BY <1>1 DEF PanelUsers
  <1> QED
    BY <1>1, <1>2, AtCall, AnsweredInv

(* A device is registered only if it has a row.                            *)
LEMMA RegisterDeviceInv ==
    ASSUME IInv, NEW w \in Workers, RegisterDevice(w)
    PROVE  IInv'
  <1> USE DEF RegisterDevice, Calling
  <1>1. panel \in PanelUsers /\ panel # None /\ panel' = panel
    BY AtCall
  <1>2. registered' \subseteq {h \in Hwids : devices[h] # "none"}
    BY AtCall
  <1> QED
    BY <1>1, <1>2, AnsweredInv

(* Unregistering leaves fewer devices.                                     *)
LEMMA UnregisterDeviceInv ==
    ASSUME IInv, NEW w \in Workers, UnregisterDevice(w)
    PROVE  IInv'
  <1> USE DEF UnregisterDevice, Calling
  <1>1. panel \in PanelUsers /\ panel # None /\ panel' = panel
    BY AtCall
  <1>2. registered' \subseteq {h \in Hwids : devices[h] # "none"}
    BY AtCall
  <1> QED
    BY <1>1, <1>2, AnsweredInv

(* A call that changed nothing, refused or not made. *)
LEMMA RefusedInv ==
    ASSUME IInv, NEW w \in Workers, CreateTaken(w) \/ CallFails(w)
    PROVE  IInv'
  <1>1. /\ procs[w].phase \in {"calling", "creating", "updating"}
        /\ Go(w, "failed") \/ Go(w, "rejected")
        /\ UNCHANGED <<account, commands, devices, panel, registered, faults>>
    BY DEF CreateTaken, CallFails
  <1>2. PICK p \in {"failed", "rejected"} : Go(w, p)
    BY <1>1
  <1>3. p \in Phases /\ p \notin {"creating", "updating", "calling", "answered"}
    BY DEF Phases
  <1> QED
    BY <1>1, <1>2, <1>3, AtCall, CallInv

(* A command that gets another status, but does not become processing,     *)
(* remains what it is.                                                     *)
LEMMA StatusChanged ==
    ASSUME IInv, NEW c \in DOMAIN commands,
           NEW st \in {"succeeded", "dead_letter", "retry_scheduled"},
           commands' = [commands EXCEPT ![c].status = st],
           Provisioned => Provisioned', st = "succeeded" => Provisioned'
    PROVE  /\ commands' \in Seq(Commands)
           /\ DOMAIN commands' = DOMAIN commands
           /\ \A d \in DOMAIN commands :
                /\ commands'[d].type = commands[d].type /\ commands'[d].of = commands[d].of
                /\ commands'[d].attempts >= commands[d].attempts
                /\ commands'[d].status = "processing" => commands'[d].attempts >= 1
                /\ commands'[d].status = "succeeded" => Provisioned'
  <1> DEFINE x == [commands[c] EXCEPT !.status = st]
  <1>1. commands \in Seq(Commands)
    BY DEF IInv, TypeOK
  <1>2. commands[c] \in Commands /\ \A d \in DOMAIN commands : commands[d].attempts \in Nat
    BY <1>1, CommandFields
  <1>3. /\ x \in Commands
        /\ x.type = commands[c].type /\ x.of = commands[c].of
        /\ x.attempts = commands[c].attempts /\ x.status = st
    BY <1>2 DEF Commands, Settled
  <1>4. commands' = [commands EXCEPT ![c] = x]
    OBVIOUS
  <1> HIDE DEF x
  <1>5. /\ commands' \in Seq(Commands)
        /\ DOMAIN commands' = DOMAIN commands
        /\ commands'[c] = x
        /\ \A d \in DOMAIN commands : d # c => commands'[d] = commands[d]
    BY <1>1, <1>3, <1>4, Changed
  <1>6. \A d \in DOMAIN commands :
          /\ commands[d].status = "processing" => commands[d].attempts >= 1
          /\ commands[d].status = "succeeded" => Provisioned
    BY DEF IInv, CommandsMakeSense, NoOrphanUser
  <1> SUFFICES ASSUME NEW d \in DOMAIN commands
               PROVE  /\ commands'[d].type = commands[d].type /\ commands'[d].of = commands[d].of
                      /\ commands'[d].attempts >= commands[d].attempts
                      /\ commands'[d].status = "processing" => commands'[d].attempts >= 1
                      /\ commands'[d].status = "succeeded" => Provisioned'
    BY <1>5
  <1>7. CASE d = c
    BY <1>2, <1>3, <1>5, <1>7
  <1>8. CASE d # c
    BY <1>2, <1>5, <1>6, <1>8
  <1> QED
    BY <1>7, <1>8

(* A worker that lets go of its command. *)
LEMMA LetGo ==
    ASSUME NEW w \in Workers, procs' = [procs EXCEPT ![w] = Idle]
    PROVE  Idle \in ProcStates /\ Idle.phase \notin Phases
  BY DEF ProcStates, Phases, Idle

(* An outcome is recorded only for a command still processing, and never   *)
(* on a revoked device: what was removed stays removed.                    *)
LEMMA ApplyOutcomeInv ==
    ASSUME IInv, NEW w \in Workers, ApplyOutcome(w)
    PROVE  IInv'
  <1> DEFINE c == procs[w].command
  <1> USE DEF ApplyOutcome
  <1>1. c \in DOMAIN commands
    BY PastOpen DEF IInv, Phases
  <1>2. procs' = [procs EXCEPT ![w] = Idle] /\ Idle \in ProcStates /\ Idle.phase \notin Phases
    BY LetGo
  <1>3. /\ panel # None /\ panel' = panel /\ panel' \in PanelUsers \cup {None}
        /\ registered' \subseteq {h \in Hwids : devices[h] # "none"}
        /\ faults' \in 0 .. MaxFaults
    BY DEF IInv, TypeOK, WorkersKnow, Phases
  <1>4. CASE UNCHANGED <<commands, account, devices>>
    <2>1. UNCHANGED <<account, devices, panel, registered>>
      BY <1>4
    <2> QED
      BY <1>2, <1>3, <1>4, <2>1, SameRest, SameCommands, WorkerInv
  <1>5. CASE Succeed(c) /\ RowCheck(c) /\ commands[c].type = "create_device"
    <2>1. /\ commands' = [commands EXCEPT ![c].status = "succeeded"]
          /\ devices' = [devices EXCEPT ![commands[c].of] = "observed"]
          /\ account' = account
          /\ devices[commands[c].of] # "revoked"
      BY <1>5 DEF Succeed, RowCheck
    <2>2. commands[c].of \in Hwids /\ devices[commands[c].of] # "none"
      BY <1>1, <1>5 DEF IInv, CommandsMakeSense
    <2>3. /\ devices' \in [Hwids -> {"none", "reserved", "observed", "revoked"}]
          /\ \A h \in Hwids : devices[h] # "none" <=> devices'[h] # "none"
          /\ \A h \in Hwids : devices'[h] = "revoked" <=> devices[h] = "revoked"
      BY <2>1, <2>2 DEF IInv, TypeOK
    <2>4. Provisioned
      BY <1>5 DEF IInv, WorkersKnow, Phases
    <2>5. Provisioned'
      BY <2>1, <2>4 DEF Provisioned
    <2>6. account' \in Accounts \cup {None}
      BY <2>1 DEF IInv, TypeOK
    <2>7. account # None => account' # None
      BY <2>1
    <2>8. /\ commands' \in Seq(Commands)
          /\ DOMAIN commands' = DOMAIN commands
          /\ \A d \in DOMAIN commands :
               /\ commands'[d].type = commands[d].type /\ commands'[d].of = commands[d].of
               /\ commands'[d].attempts >= commands[d].attempts
               /\ commands'[d].status = "processing" => commands'[d].attempts >= 1
               /\ commands'[d].status = "succeeded" => Provisioned'
      BY <1>1, <2>1, <2>5, StatusChanged
    <2> HIDE DEF ApplyOutcome
    <2> QED
      BY <1>2, <1>3, <2>3, <2>5, <2>6, <2>7, <2>8, WorkerInv
  <1>6. CASE Succeed(c) /\ commands[c].type # "create_device"
    <2>1. /\ commands' = [commands EXCEPT ![c].status = "succeeded"]
          /\ account' = [account EXCEPT !.provisioned = TRUE]
          /\ devices' = devices
      BY <1>6 DEF Succeed
    <2>2. account \in Accounts
      BY <1>1 DEF IInv, TypeOK, CommandsMakeSense
    <2>3. account' \in Accounts /\ account'.provisioned
      BY <2>1, <2>2 DEF Accounts
    <2>4. account' # None
      BY <2>3, NoneIsNothing
    <2>5. Provisioned'
      BY <2>3, <2>4 DEF Provisioned
    <2>6. devices' \in [Hwids -> {"none", "reserved", "observed", "revoked"}]
      BY <2>1 DEF IInv, TypeOK
    <2> QED
      BY <1>1, <1>2, <1>3, <2>1, <2>3, <2>4, <2>5, <2>6, StatusChanged, WorkerInv
  <1> QED
    BY <1>4, <1>5, <1>6

(* A failure changes a command's status only.                              *)
LEMMA RecordFailureInv ==
    ASSUME IInv, NEW w \in Workers, RecordFailure(w)
    PROVE  IInv'
  <1> DEFINE c == procs[w].command
  <1> USE DEF RecordFailure
  <1>1. c \in DOMAIN commands
    BY PastOpen DEF IInv, Phases
  <1>2. procs' = [procs EXCEPT ![w] = Idle] /\ Idle \in ProcStates /\ Idle.phase \notin Phases
    BY LetGo
  <1>3. UNCHANGED <<account, devices, panel, registered>> /\ faults' \in 0 .. MaxFaults
    BY DEF IInv, TypeOK
  <1>4. CASE UNCHANGED commands
    BY <1>2, <1>3, <1>4, SameRest, SameCommands, WorkerInv
  <1>5. CASE \E st \in {"dead_letter", "retry_scheduled"} : commands' = [commands EXCEPT ![c].status = st]
    <2>1. PICK st \in {"dead_letter", "retry_scheduled"} : commands' = [commands EXCEPT ![c].status = st]
      BY <1>5
    <2>2. Provisioned' <=> Provisioned
      BY <1>3, SameRest
    <2>3. /\ commands' \in Seq(Commands)
          /\ DOMAIN commands' = DOMAIN commands
          /\ \A d \in DOMAIN commands :
               /\ commands'[d].type = commands[d].type /\ commands'[d].of = commands[d].of
               /\ commands'[d].attempts >= commands[d].attempts
               /\ commands'[d].status = "processing" => commands'[d].attempts >= 1
               /\ commands'[d].status = "succeeded" => Provisioned'
      BY <1>1, <2>1, <2>2, StatusChanged
    <2> HIDE DEF RecordFailure
    <2> QED
      BY <1>2, <1>3, <2>3, SameRest, WorkerInv
  <1> QED
    BY <1>4, <1>5

(* A step that changes nothing. *)
LEMMA StutterInv == ASSUME IInv, UNCHANGED vars PROVE IInv'
  BY DEF IInv, vars, TypeOK, CommandsMakeSense, WorkersKnow, NoOrphanUser, Provisioned

(* Every step preserves the invariant.                                     *)
LEMMA InvStep == IInv /\ [Next]_vars => IInv'
  <1> SUFFICES ASSUME IInv, [Next]_vars PROVE IInv'
    OBVIOUS
  <1>1. CASE Producers
    <2>1. ASSUME NEW e \in Expiries, SyncEntitlement(e) \/ Pay(e) PROVE IInv'
      BY <2>1, SyncEntitlementInv, PayInv
    <2>2. CASE Block \/ LeaveFamily
      BY <2>2, BlockInv, LeaveFamilyInv
    <2>3. ASSUME NEW h \in Hwids, CreateDevice(h) \/ RemoveDevice(h) PROVE IInv'
      BY <2>3, CreateDeviceInv, RemoveDeviceInv
    <2> QED
      BY <1>1, <2>1, <2>2, <2>3 DEF Producers
  <1>2. ASSUME NEW w \in Workers, Process(w) PROVE IInv'
    <2>1. CASE Open(w)
      BY <2>1, OpenInv
    <2>2. CASE Call(w)
      BY <2>2, LookUpInv, CreateInv, UpdateInv, DisableInv, RegisterDeviceInv, UnregisterDeviceInv,
         RefusedInv DEF Call
    <2>3. CASE ApplyOutcome(w) \/ RecordFailure(w)
      BY <2>3, ApplyOutcomeInv, RecordFailureInv
    <2> QED
      BY <1>2, <2>1, <2>2, <2>3 DEF Process
  <1>3. ASSUME NEW w \in Workers, Crash(w) \/ \E c \in DOMAIN commands : Claim(w, c) PROVE IInv'
    BY <1>3, CrashInv, ClaimInv
  <1>4. CASE UNCHANGED vars
    BY <1>4, StutterInv
  <1> QED
    BY <1>1, <1>2, <1>3, <1>4 DEF Next

(* The invariant holds of every reachable state. *)
THEOREM Invariant == Spec => []IInv
  <1> QED
    BY InvInit, InvStep, PTL DEF Spec

-----------------------------------------------------------------------------
(* The properties *)

(* The rows, the panel and the workers are what they may be: in            *)
(* particular no late or repeated answer brings a removed device back, and *)
(* the panel never has a device nobody has a row for (models.py, Device;   *)
(* processor.py, _apply_outcome).                                          *)
THEOREM TypeCorrect == Spec => []TypeOK
  <1>1. IInv => TypeOK
    BY DEF IInv
  <1> QED
    BY <1>1, Invariant, PTL

(* Whatever is refused, lost, repeated or crashed, a user created at the   *)
(* panel is known to the account or to a command that will find it         *)
(* (processor.py, process and _apply_outcome).                             *)
THEOREM NeverOrphaned == Spec => []NoOrphanUser
  <1>1. IInv => NoOrphanUser
    BY DEF IInv
  <1> QED
    BY <1>1, Invariant, PTL

(* Why a command may be given up. *)
GivenUp(c) ==
    \E w \in Workers :
        /\ procs[w].phase \in {"failed", "rejected"} /\ procs[w].command = c
        /\ procs[w].phase = "rejected" \/ procs[w].attempts >= MaxAttempts

(* What a step may make of a command that exists. *)
Progress(c) ==
    \/ commands'[c] = commands[c]
    \/ /\ commands[c].status \notin Settled
       /\ commands'[c].status = "dead_letter" => GivenUp(c)

(* A step changes a command only if it was not settled, and gives it up    *)
(* only for a reason.                                                      *)
LEMMA ProgressOnly ==
    ASSUME IInv, [Next]_vars
    PROVE  \A c \in DOMAIN commands : Progress(c)
  <1>1. commands \in Seq(Commands)
    BY DEF IInv, TypeOK
  <1> SUFFICES ASSUME NEW c \in DOMAIN commands, commands' # commands
               PROVE  Progress(c)
    BY DEF Progress
  <1>2. CASE Producers
    <2>1. PICK x : commands' = Append(commands, x)
      BY <1>2 DEF Producers, SyncEntitlement, Pay, Block, LeaveFamily, CreateDevice, RemoveDevice, Enqueue
    <2> QED
      BY <1>1, <2>1 DEF Progress
  <1>3. ASSUME NEW w \in Workers, NEW d \in DOMAIN commands, Claim(w, d)
        PROVE  Progress(c)
    <2>1. CASE c # d
      BY <1>3, <2>1 DEF Claim, Progress
    <2>2. CASE c = d
      <3>1. commands[c].status \notin Settled
        BY <1>3, <2>2 DEF Claim, Claimable, Settled
      <3>2. commands[c] \in Commands
        BY <1>1
      <3>3. commands'[c].status = "processing"
        BY <1>1, <1>3, <2>2, <3>2 DEF Claim, Commands
      <3> QED
        BY <3>1, <3>3 DEF Progress
    <2> QED
      BY <2>1, <2>2
  <1>4. ASSUME NEW w \in Workers, ApplyOutcome(w)
        PROVE  Progress(c)
    <2>1. /\ StillProcessing(procs[w].command)
          /\ commands' = [commands EXCEPT ![procs[w].command].status = "succeeded"]
      BY <1>4 DEF ApplyOutcome, Succeed
    <2>2. CASE c # procs[w].command
      BY <2>1, <2>2 DEF Progress
    <2>3. CASE c = procs[w].command
      <3>1. commands[c] \in Commands
        BY <1>1
      <3>2. commands'[c].status = "succeeded"
        BY <2>1, <2>3, <3>1 DEF Commands
      <3> QED
        BY <2>1, <2>3, <3>2 DEF Progress, StillProcessing, Settled
    <2> QED
      BY <2>2, <2>3
  <1>5. ASSUME NEW w \in Workers, RecordFailure(w)
        PROVE  Progress(c)
    <2> DEFINE st == IF Terminal(procs[w]) THEN "dead_letter" ELSE "retry_scheduled"
    <2>1. /\ procs[w].phase \in {"failed", "rejected"}
          /\ StillProcessing(procs[w].command)
          /\ commands' = [commands EXCEPT ![procs[w].command].status = st]
      BY <1>5 DEF RecordFailure
    <2>2. CASE c # procs[w].command
      BY <2>1, <2>2 DEF Progress
    <2>3. CASE c = procs[w].command
      <3>1. commands[c] \in Commands
        BY <1>1
      <3>2. st = "dead_letter" => GivenUp(c)
        BY <2>1, <2>3 DEF Terminal, GivenUp
      <3> HIDE DEF st
      <3>3. commands'[c].status = st
        BY <2>1, <2>3, <3>1 DEF Commands
      <3> QED
        BY <2>1, <2>3, <3>2, <3>3 DEF Progress, StillProcessing, Settled
    <2> QED
      BY <2>2, <2>3
  <1>6. ASSUME NEW w \in Workers, Open(w) \/ Call(w) \/ Crash(w)
        PROVE  FALSE
    BY <1>6 DEF Open, Call, Crash, LookUp, Create, CreateTaken, Update, Disable, RegisterDevice,
                UnregisterDevice, CallFails
  <1>7. CASE UNCHANGED vars
    BY <1>7 DEF vars
  <1> QED
    BY <1>2, <1>3, <1>4, <1>5, <1>6, <1>7 DEF Next, Process

(* No worker, however late, changes a command that succeeded or was given  *)
(* up (repository.py, get_processing_command_for_update).                  *)
THEOREM SettledStaysSettled == Spec => SettledIsFinal
  <1>1. IInv /\ [Next]_vars =>
          [\A c \in DOMAIN commands : commands[c].status \in Settled => commands'[c] = commands[c]]_vars
    <2> SUFFICES ASSUME IInv, [Next]_vars, NEW c \in DOMAIN commands, commands[c].status \in Settled
                 PROVE  commands'[c] = commands[c]
      OBVIOUS
    <2> QED
      BY ProgressOnly DEF Progress
  <1> QED
    BY <1>1, Invariant, PTL DEF Spec, SettledIsFinal

(* Nothing the panel might still accept is given up before the last        *)
(* attempt, whichever of the workers of a command counts it                *)
(* (processor.py, _record_failure).                                        *)
THEOREM GivesUpLastAlways == Spec => GivesUpLast
  <1> DEFINE Last == \A c \in DOMAIN commands :
               /\ commands[c].status # "dead_letter" /\ commands'[c].status = "dead_letter"
               /\ \A w \in Workers : procs[w].phase = "rejected" => procs[w].command # c
               => commands[c].attempts >= MaxAttempts
  <1>1. IInv /\ [Next]_vars => [Last]_vars
    <2> SUFFICES ASSUME IInv, [Next]_vars, NEW c \in DOMAIN commands,
                        commands[c].status # "dead_letter", commands'[c].status = "dead_letter",
                        \A w \in Workers : procs[w].phase = "rejected" => procs[w].command # c
                 PROVE  commands[c].attempts >= MaxAttempts
      OBVIOUS
    <2>1. GivenUp(c)
      BY ProgressOnly DEF Progress
    <2>2. PICK w \in Workers : /\ procs[w].phase = "failed" /\ procs[w].command = c
                              /\ procs[w].attempts >= MaxAttempts
      BY <2>1 DEF GivenUp
    <2>3. procs[w].attempts <= commands[c].attempts
      BY <2>2 DEF IInv, WorkersKnow, Phases
    <2>4. procs[w].attempts \in Nat /\ commands[c].attempts \in Nat
      BY <2>2, PastOpen, CommandFields DEF IInv, TypeOK, Phases
    <2> QED
      BY <2>2, <2>3, <2>4, BoundsAssumption
  <1> QED
    BY <1>1, Invariant, PTL DEF Spec, GivesUpLast

=============================================================================
