------------------------------ MODULE VpnSync -------------------------------
(***************************************************************************)
(* One customer's VPN account and the durable commands that carry its      *)
(* wanted state to the Remnawave panel (backend/app/modules/vpn:           *)
(* processor.py and repository.py, workers/vpn_sync.py, and the enqueueing *)
(* code of billing, promotions, referrals, families and administration).   *)
(*                                                                         *)
(* A worker claims a command in one transaction, opens it in a second,     *)
(* calls the panel outside any transaction and records the outcome in a    *)
(* third.  A claim carries no owner: what outlives the lock timeout is     *)
(* claimed again, and both workers may then record.  A worker that finds   *)
(* the command no longer processing ends with a LookupError and is         *)
(* restarted.  The panel is external, as the adapter's client sees it; a   *)
(* call may be refused, or carried out and its answer lost.                *)
(*                                                                         *)
(* Device commands go the same way.  The row of a removed device stays,    *)
(* and with it its hardware id, which no other row of the account may have.*)
(***************************************************************************)
EXTENDS Integers, Sequences

CONSTANTS Workers,
          MaxAttempts,  \* command_max_attempts
          MaxCommands,  \* bound on the commands ever enqueued
          MaxExpiry,    \* bound on the expiry dates
          MaxFaults,    \* bound on the crashes and the claims that outlive the timeout
          Hwids,        \* hardware ids of the customer's devices
          None

ASSUME BoundsAssumption ==
    /\ MaxAttempts \in Nat \ {0}
    /\ MaxCommands \in Nat /\ MaxExpiry \in Nat /\ MaxFaults \in Nat

Expiries == 1 .. MaxExpiry
Accounts == [desiredStatus : {"active", "disabled"}, desiredExpiresAt : Expiries,
             provisioned : BOOLEAN]
PanelUsers == [status : {"active", "disabled"}, expiresAt : Expiries]

ASSUME NoneAssumption == None \notin Accounts \cup PanelUsers \cup Nat \cup Hwids

VARIABLES account,   \* the vpn_accounts row, or None
          commands,  \* vpn_sync_commands in the order of created_at
          devices,   \* status of the devices row of each hardware id, or "none"
          panel,     \* the panel's user, or None (external)
          registered, \* the devices of that user at the panel (external)
          procs,     \* state of each worker
          faults     \* crashes and takeovers of claims still at work (for the bound)

vars == <<account, commands, devices, panel, registered, procs, faults>>

Idle == [phase |-> "idle"]
Settled == {"succeeded", "dead_letter"}

(* Attempts are counted no further: all that matters is whether they       *)
(* reached MaxAttempts.                                                    *)
AttemptsBound == MaxAttempts + MaxFaults

Commands ==
    [type : {"ensure_account", "extend", "disable", "create_device", "remove_device"},
     of : Expiries \cup Hwids \cup {None},
     status : {"pending", "processing", "retry_scheduled"} \cup Settled,
     attempts : 0 .. AttemptsBound]

(* What the variables hold; in particular a device is revoked exactly if   *)
(* its removal was asked for, and stays so whatever is recorded later, and *)
(* the panel knows no device without a row.                                *)
TypeOK ==
    /\ account \in Accounts \cup {None}
    /\ commands \in Seq(Commands)
    /\ devices \in [Hwids -> {"none", "reserved", "observed", "revoked"}]
    /\ panel \in PanelUsers \cup {None}
    /\ \A h \in Hwids :
         devices[h] = "revoked" <=>
           \E c \in DOMAIN commands : commands[c].type = "remove_device" /\ commands[c].of = h
    /\ registered \subseteq {h \in Hwids : devices[h] # "none"}
    /\ procs \in [Workers -> {Idle} \cup
         [phase : {"claimed"}, command : DOMAIN commands] \cup
         [phase : {"calling", "creating", "updating", "answered", "failed", "rejected"},
          command : DOMAIN commands, attempts : 1 .. AttemptsBound]]
    /\ faults \in 0 .. MaxFaults

(* A customer without an account, or one provisioned some time ago.        *)
Init ==
    /\ \/ account = None /\ panel = None
       \/ \E e \in Expiries :
            /\ account = [desiredStatus |-> "active", desiredExpiresAt |-> e, provisioned |-> TRUE]
            /\ panel = [status |-> "active", expiresAt |-> e]
    /\ commands = <<>>
    /\ devices = [h \in Hwids |-> "none"]
    /\ registered = {}
    /\ procs = [w \in Workers |-> Idle]
    /\ faults = 0

-----------------------------------------------------------------------------
(* The transactions that want something of the account *)

Enqueue(type, of) ==
    commands' = Append(commands, [type |-> type, of |-> of, status |-> "pending", attempts |-> 0])

Provisioned == account # None /\ account.provisioned

(* The account with an active entitlement until e, created if need be.     *)
Entitle(e) ==
    account' = [desiredStatus |-> "active", desiredExpiresAt |-> e, provisioned |-> Provisioned]

(* _enqueue_entitlement_sync after an administrator's extension, change of *)
(* plan or unblocking, and _project_member_entitlement of a family.        *)
SyncEntitlement(e) ==
    /\ Len(commands) < MaxCommands
    /\ Entitle(e)
    /\ Enqueue("ensure_account", e)
    /\ UNCHANGED <<devices, panel, registered, procs, faults>>

(* _enqueue_vpn of a purchase or renewal, of promotional days and of a     *)
(* referral reward: an account the panel knows is only extended.           *)
Pay(e) ==
    /\ Len(commands) < MaxCommands
    /\ Entitle(e)
    /\ Enqueue(IF Provisioned THEN "extend" ELSE "ensure_account", e)
    /\ UNCHANGED <<devices, panel, registered, procs, faults>>

(* block_user: no command for an account the panel does not know yet.      *)
Block ==
    /\ account # None
    /\ Provisioned => Len(commands) < MaxCommands
    /\ account' = [account EXCEPT !.desiredStatus = "disabled"]
    /\ IF Provisioned THEN Enqueue("disable", None) ELSE UNCHANGED commands
    /\ UNCHANGED <<devices, panel, registered, procs, faults>>

(* A member leaves or is removed from a family.                            *)
LeaveFamily ==
    /\ account # None /\ Len(commands) < MaxCommands
    /\ account' = [account EXCEPT !.desiredStatus = "disabled"]
    /\ Enqueue("disable", None)
    /\ UNCHANGED <<devices, panel, registered, procs, faults>>

(* create_device.  list_devices hides revoked rows, whose hardware id      *)
(* uq_devices_external_hwid then refuses.                                  *)
CreateDevice(h) ==
    /\ Provisioned /\ Len(commands) < MaxCommands
    /\ devices[h] = "none"
    /\ devices' = [devices EXCEPT ![h] = "reserved"]
    /\ Enqueue("create_device", h)
    /\ UNCHANGED <<account, panel, registered, procs, faults>>

RemoveDevice(h) ==
    /\ Len(commands) < MaxCommands
    /\ devices[h] \in {"reserved", "observed"}
    /\ devices' = [devices EXCEPT ![h] = "revoked"]
    /\ Enqueue("remove_device", h)
    /\ UNCHANGED <<account, panel, registered, procs, faults>>

-----------------------------------------------------------------------------
(* Claiming *)

AtWork(c) == \E w \in Workers : procs[w] # Idle /\ procs[w].command = c

(* Mutant: what is processing is somebody else's for good. *)
ClaimableOnce(c) ==
    \/ commands[c].status = "pending" /\ \A d \in 1 .. c - 1 : commands[d].status # "pending"
    \/ commands[c].status = "retry_scheduled"

(* claim_commands, oldest first.  When a retry is due, and whether a claim *)
(* at work has outlived the lock timeout, is the clock's choice.           *)
Claimable(c) ==
    \/ commands[c].status = "pending" /\ \A d \in 1 .. c - 1 : commands[d].status # "pending"
    \/ commands[c].status = "retry_scheduled"
    \/ commands[c].status = "processing" /\ (AtWork(c) => faults < MaxFaults)

(* FOR UPDATE SKIP LOCKED; a batch claims several commands, the later of   *)
(* which merely wait.                                                      *)
Claim(w, c) ==
    /\ procs[w] = Idle
    /\ c \in DOMAIN commands /\ Claimable(c)
    /\ commands' = [commands EXCEPT ![c].status = "processing",
                                    ![c].attempts = IF @ < AttemptsBound THEN @ + 1 ELSE @]
    /\ faults' = IF commands[c].status = "processing" /\ AtWork(c) THEN faults + 1 ELSE faults
    /\ procs' = [procs EXCEPT ![w] = [phase |-> "claimed", command |-> c]]
    /\ UNCHANGED <<account, devices, panel, registered>>

-----------------------------------------------------------------------------
(* process *)

Go(w, phase) == procs' = [procs EXCEPT ![w].phase = phase]

(* First transaction: what is read here, the attempt count included, is    *)
(* what the session still believes in the last one.                        *)
Open(w) ==
    LET c == procs[w].command
    IN  /\ procs[w].phase = "claimed"
        /\ procs' = [procs EXCEPT ![w] =
             IF commands[c].status # "processing" THEN Idle
             ELSE [phase |-> IF commands[c].type = "ensure_account" \/ account.provisioned
                             THEN "calling" ELSE "failed",
                   command |-> c, attempts |-> commands[c].attempts]]
        /\ UNCHANGED <<account, commands, devices, panel, registered, faults>>

Calling(w, type) == procs[w].phase = "calling" /\ commands[procs[w].command].type = type

(* A user that exists is enabled before it is updated. *)
LookUp(w) ==
    /\ Calling(w, "ensure_account")
    /\ IF panel = None THEN Go(w, "creating") /\ UNCHANGED panel
       ELSE Go(w, "updating") /\ panel' = [panel EXCEPT !.status = "active"]
    /\ UNCHANGED <<account, commands, devices, registered, faults>>

(* The panel carries a change out; its answer may be lost, or not be what  *)
(* the client expects, which is an error that is not retryable.            *)
Answer(w) == Go(w, "answered") \/ Go(w, "failed") \/ Go(w, "rejected")

Create(w) ==
    /\ procs[w].phase = "creating" /\ panel = None
    /\ panel' = [status |-> "active", expiresAt |-> commands[procs[w].command].of]
    /\ Answer(w)
    /\ UNCHANGED <<account, commands, devices, registered, faults>>

(* The username was taken meanwhile; the refusal is not retryable. *)
CreateTaken(w) ==
    /\ procs[w].phase = "creating" /\ panel # None
    /\ Go(w, "rejected")
    /\ UNCHANGED <<account, commands, devices, panel, registered, faults>>

Update(w) ==
    /\ procs[w].phase = "updating" \/ Calling(w, "extend")
    /\ panel' = [panel EXCEPT !.expiresAt = commands[procs[w].command].of]
    /\ Answer(w)
    /\ UNCHANGED <<account, commands, devices, registered, faults>>

Disable(w) ==
    /\ Calling(w, "disable")
    /\ panel' = [panel EXCEPT !.status = "disabled"]
    /\ Answer(w)
    /\ UNCHANGED <<account, commands, devices, registered, faults>>

(* A device that is there already is not created again. *)
RegisterDevice(w) ==
    /\ Calling(w, "create_device")
    /\ registered' = registered \cup {commands[procs[w].command].of}
    /\ Answer(w)
    /\ UNCHANGED <<account, commands, devices, panel, faults>>

UnregisterDevice(w) ==
    /\ Calling(w, "remove_device")
    /\ registered' = registered \ {commands[procs[w].command].of}
    /\ Answer(w)
    /\ UNCHANGED <<account, commands, devices, panel, faults>>

(* The adapter or the panel refuses or is out of reach. *)
CallFails(w) ==
    /\ procs[w].phase \in {"calling", "creating", "updating"}
    /\ Go(w, "failed") \/ Go(w, "rejected")
    /\ UNCHANGED <<account, commands, devices, panel, registered, faults>>

(* Mutant: whoever finishes last is believed. *)
AnyStatus(c) == TRUE

(* get_processing_command_for_update selects by status.  *)
StillProcessing(c) == commands[c].status = "processing"

(* Mutant: the panel's identity is not stored. *)
SucceedOnly(c) ==
    /\ commands' = [commands EXCEPT ![c].status = "succeeded"]
    /\ UNCHANGED <<account, devices>>

(* _apply_outcome.  (The observed_* columns, which only pages show, are    *)
(* left out.)                                                              *)
Succeed(c) ==
    /\ commands' = [commands EXCEPT ![c].status = "succeeded"]
    /\ IF commands[c].type = "create_device"
       THEN devices' = [devices EXCEPT ![commands[c].of] = "observed"] /\ UNCHANGED account
       ELSE account' = [account EXCEPT !.provisioned = TRUE] /\ UNCHANGED devices

(* Mutant: without the CHECK. *)
RowCheckNone(c) == TRUE

(* CHECK ((status = 'revoked') = (revoked_at IS NOT NULL)): a device that  *)
(* was removed meanwhile cannot be marked observed.                        *)
RowCheck(c) == commands[c].type = "create_device" => devices[commands[c].of] # "revoked"

(* A worker whose transaction the database refuses ends like one that      *)
(* finds its command settled, but leaves it processing.                    *)
ApplyOutcome(w) ==
    LET c == procs[w].command
    IN  /\ procs[w].phase = "answered"
        /\ IF StillProcessing(c) /\ RowCheck(c) THEN Succeed(c)
           ELSE UNCHANGED <<commands, account, devices>>
        /\ procs' = [procs EXCEPT ![w] = Idle]
        /\ UNCHANGED <<panel, registered, faults>>

(* Mutant: gives up one attempt early. *)
TerminalEarly(it) == it.phase = "rejected" \/ it.attempts + 1 >= MaxAttempts

Terminal(it) == it.phase = "rejected" \/ it.attempts >= MaxAttempts

RecordFailure(w) ==
    LET it == procs[w]
    IN  /\ it.phase \in {"failed", "rejected"}
        /\ IF StillProcessing(it.command)
           THEN commands' = [commands EXCEPT ![it.command].status =
                               IF Terminal(it) THEN "dead_letter" ELSE "retry_scheduled"]
           ELSE UNCHANGED commands
        /\ procs' = [procs EXCEPT ![w] = Idle]
        /\ UNCHANGED <<account, devices, panel, registered, faults>>

(* The process ends in the middle of its work. *)
Crash(w) ==
    /\ procs[w] # Idle
    /\ faults < MaxFaults
    /\ faults' = faults + 1
    /\ procs' = [procs EXCEPT ![w] = Idle]
    /\ UNCHANGED <<account, commands, devices, panel, registered>>

-----------------------------------------------------------------------------
Call(w) ==
    \/ LookUp(w) \/ Create(w) \/ CreateTaken(w) \/ Update(w) \/ Disable(w)
    \/ RegisterDevice(w) \/ UnregisterDevice(w)
    \/ CallFails(w)

Process(w) == Open(w) \/ Call(w) \/ ApplyOutcome(w) \/ RecordFailure(w)

Producers ==
    \/ \E e \in Expiries : SyncEntitlement(e) \/ Pay(e)
    \/ Block
    \/ LeaveFamily
    \/ \E h \in Hwids : CreateDevice(h) \/ RemoveDevice(h)

Next ==
    \/ Producers
    \/ \E w \in Workers : Process(w) \/ Crash(w) \/ \E c \in DOMAIN commands : Claim(w, c)

(* PM2 restarts the workers, which go on with what they claimed and, idle, *)
(* claim what is oldest among what is due.                                 *)
Fairness ==
    /\ \A w \in Workers : WF_vars(Process(w))
    /\ \A c \in 1 .. MaxCommands : SF_vars(\E w \in Workers : Claim(w, c))

Spec == Init /\ [][Next]_vars /\ Fairness

-----------------------------------------------------------------------------
(* Properties *)

(* A user the panel was told to create is never lost sight of: unless the  *)
(* account carries its identity, a command that will find it by its name   *)
(* is outstanding or was given up; and only then is there no panel user.   *)
NoOrphanUser ==
    /\ Provisioned => panel # None
    /\ panel # None /\ ~Provisioned =>
         \E c \in DOMAIN commands :
            commands[c].type = "ensure_account" /\ commands[c].status # "succeeded"
    /\ \A c \in DOMAIN commands : commands[c].status = "succeeded" => Provisioned

(* What was settled stays settled: a worker whose claim was taken over     *)
(* neither revives a command nor turns a success into a failure.           *)
SettledIsFinal ==
    [][\A c \in DOMAIN commands :
         commands[c].status \in Settled => commands'[c] = commands[c]]_vars

(* Nothing is given up before its time: a command becomes a dead letter    *)
(* because the panel refused it for good, or after the last attempt.       *)
GivesUpLast ==
    [][\A c \in DOMAIN commands :
         /\ commands[c].status # "dead_letter" /\ commands'[c].status = "dead_letter"
         /\ \A w \in Workers : procs[w].phase = "rejected" => procs[w].command # c
         => commands[c].attempts >= MaxAttempts]_vars

(* The creation of a device that was removed before the panel's answer was *)
(* recorded: its worker ends each time it tries to, with everything else   *)
(* of its batch undone.                                                    *)
Poisoned ==
    \E c \in DOMAIN commands : commands[c].status \notin Settled /\ ~RowCheck(c)

(* Every command is carried out or given up, whatever crashes, refusals,   *)
(* lost answers and takeovers happen on the way, unless a device was       *)
(* removed too early: such a command, and what is claimed together with    *)
(* it, may be claimed for ever.                                            *)
EveryCommandSettles ==
    \A c \in 1 .. MaxCommands :
      c \in DOMAIN commands ~>
        Poisoned \/ (c \in DOMAIN commands /\ commands[c].status \in Settled)

(* "desired_status, desired_expires_at: the state that must be in the      *)
(* panel" (docs/backend/step-05-remnawave-integration.md:77-78), which     *)
(* makes repeating commands safe (:69-71), and blocking a customer puts a  *)
(* durable command behind the account's new state                          *)
(* (docs/backend/step-10-admin-panel.md:71-72): once all commands          *)
(* succeeded the panel has what the account wants.                         *)
SettledMeansDesired ==
    account # None /\ (\A c \in DOMAIN commands : commands[c].status = "succeeded") =>
      /\ panel # None
      /\ panel.status = account.desiredStatus
      /\ panel.expiresAt = account.desiredExpiresAt

=============================================================================
