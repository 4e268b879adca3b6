-------------------------- MODULE MCPaymentIntents --------------------------
(* Two customers, one of them with two payments under way, and two         *)
(* requests at once.  One payment is paid: two screenshots are uploaded    *)
(* for it, the same one possibly twice.  The other two are only created    *)
(* and expire, which is all the limits of the code see of them.            *)
EXTENDS PaymentIntents, TLC

CONSTANTS c1, c2, alice, bob, a1, a2, b1, x, y

MCClients == {c1, c2}
MCUsers == {alice, bob}
MCIntents == {a1, a2, b1}
MCContents == {x, y}
MCLimits == {1, 2}
MCUserOf == [p \in MCIntents |-> IF p = b1 THEN bob ELSE alice]
MCUploads == {<<a1, x>>, <<a1, y>>}
MCSymmetry == Permutations(MCClients) \cup Permutations(MCContents)

=============================================================================
