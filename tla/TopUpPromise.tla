---------------------------- MODULE TopUpPromise ----------------------------
(***************************************************************************)
(* What wallet top-ups promise, without any of the machinery: the money of *)
(* a top-up reaches the wallet once, only after the customer paid exactly  *)
(* the agreed amount, and leaves it once, only after the provider reversed *)
(* the payment.  Every payment is eventually credited and every reversal   *)
(* eventually applied.                                                     *)
(***************************************************************************)
CONSTANT TopUps

VARIABLES paid,      \* top-ups whose agreed amount the provider confirmed
          disputed,  \* top-ups whose payment the provider charged back
          credited,  \* top-ups whose amount was added to the wallet
          reversed   \* top-ups whose amount was taken back

vars == <<paid, disputed, credited, reversed>>

Init == paid = {} /\ disputed = {} /\ credited = {} /\ reversed = {}

Pay(i) ==
    /\ i \notin paid
    /\ paid' = paid \cup {i}
    /\ UNCHANGED <<disputed, credited, reversed>>

Dispute(i) ==
    /\ i \in paid \ disputed
    /\ disputed' = disputed \cup {i}
    /\ UNCHANGED <<paid, credited, reversed>>

Credit(i) ==
    /\ i \in paid \ credited
    /\ credited' = credited \cup {i}
    /\ UNCHANGED <<paid, disputed, reversed>>

Reverse(i) ==
    /\ i \in (disputed \cap credited) \ reversed
    /\ reversed' = reversed \cup {i}
    /\ UNCHANGED <<paid, disputed, credited>>

Next == \E i \in TopUps : Pay(i) \/ Dispute(i) \/ Credit(i) \/ Reverse(i)

Safety == Init /\ [][Next]_vars

Spec ==
    /\ Safety
    /\ \A i \in TopUps : WF_vars(Credit(i)) /\ WF_vars(Reverse(i))

=============================================================================
