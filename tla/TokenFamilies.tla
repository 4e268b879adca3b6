--------------------------- MODULE TokenFamilies ---------------------------
(***************************************************************************)
(* What refresh rotation keeps of docs/backend/step-04-authentication.md,  *)
(* section 5, without requests or locks: a login opens a family with one   *)
(* token, a refresh replaces the family's token by a new one, and a family *)
(* that was ended has no token ever again.                                 *)
(*                                                                         *)
(* Reuse of a replaced token is noticed first and answered later.  The     *)
(* answer ends every token handed out before it was noticed.  The document *)
(* has it end the whole family; a successor handed out between the notice  *)
(* and the answer, by a refresh that was under way, lives on.              *)
(***************************************************************************)
CONSTANT Tokens

VARIABLES issued,   \* tokens ever handed out
          live,     \* of each family, named by its first token, the live tokens
          noticed,  \* reuse: <<family, tokens handed out by then>>
          answered  \* the reuse that was answered

vars == <<issued, live, noticed, answered>>
reuse == <<noticed, answered>>

Init ==
    /\ issued = {} /\ live = [f \in Tokens |-> {}]
    /\ noticed = {} /\ answered = {}

Open(t) ==
    /\ t \notin issued
    /\ issued' = issued \cup {t}
    /\ live' = [live EXCEPT ![t] = {t}]
    /\ UNCHANGED reuse

Rotate(f, new) ==
    /\ live[f] # {} /\ new \notin issued
    /\ issued' = issued \cup {new}
    /\ live' = [live EXCEPT ![f] = {new}]
    /\ UNCHANGED reuse

(* Logout and expiry end one family, a blocked user all of his. *)
End ==
    /\ \A f \in Tokens : live'[f] \in {live[f], {}}
    /\ live' = [f \in Tokens |-> live'[f]]
    /\ UNCHANGED <<issued, reuse>>

(* Any token of a family may be reused but the one that is live. *)
Notice(f) ==
    /\ f \in issued
    /\ noticed' = noticed \cup {<<f, issued>>}
    /\ UNCHANGED <<issued, live, answered>>

Answer(f, known) ==
    /\ <<f, known>> \in noticed
    /\ answered' = answered \cup {<<f, known>>}
    /\ live' = [live EXCEPT ![f] = @ \ known]
    /\ UNCHANGED <<issued, noticed>>

(* A request that dies leaves the reuse unanswered. *)
GiveUp ==
    /\ answered \subseteq noticed' /\ noticed' \subseteq noticed
    /\ UNCHANGED <<issued, live, answered>>

Next ==
    \/ \E f \in Tokens :
         \/ Open(f) \/ Notice(f)
         \/ \E t \in Tokens : Rotate(f, t)
         \/ \E known \in SUBSET Tokens : Answer(f, known)
    \/ End \/ GiveUp

Spec == Init /\ [][Next]_vars

=============================================================================
