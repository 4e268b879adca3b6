---------------------------- MODULE MCReferrals ----------------------------
(* Referrals with three people, one claim and two workers at a time.       *)
EXTENDS Referrals

CONSTANTS c1, w1, w2, u1, u2, u3

MCClients == {c1}
MCWorkers == {w1, w2}
MCCustomers == {u1, u2, u3}
MCBuyers == {u1}
MCBlockable == {u2}

(* The sides are told apart by what they are worth. *)
MCDays == [s \in Sides |-> IF s = "referred" THEN 1 ELSE 2]

=============================================================================
