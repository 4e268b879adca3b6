----------------------------- MODULE MCFamilies -----------------------------
(* Families with three people and two requests at work at once.            *)
EXTENDS Families, TLC

CONSTANTS c1, c2, u1, u2, u3

MCClients == {c1, c2}
MCUsers == {u1, u2, u3}

(* Requests and people are interchangeable. *)
MCSymmetry == Permutations(MCClients) \cup Permutations(MCUsers)

=============================================================================
