--------------------------- MODULE MCAuthSessions ---------------------------
(* One person with an address, a Telegram and a Google account; two        *)
(* requests at once.                                                       *)
EXTENDS AuthSessions, TLC

CONSTANTS c1, c2, email, telegram, google

MCClients == {c1, c2}
MCEmails == {email}
MCTelegrams == {telegram}
MCGoogles == {google}
MCSymmetry == Permutations(MCClients)
MCEmailOf == [g \in MCGoogles |-> email]

(* Bound on the rows of one behaviour: every table reaches its own bound,  *)
(* but not all of them in one behaviour.                                   *)
MCRows == Len(sessions) + Len(otps) + Len(challenges) <= 5

=============================================================================
