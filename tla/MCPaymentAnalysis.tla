------------------------- MODULE MCPaymentAnalysis --------------------------
(* Two payments of two customers, one with a discount, that may show the   *)
(* same bank operation; two workers, one reviewer.                         *)
EXTENDS PaymentAnalysis

CONSTANTS p1, p2, u1, u2, op, w1, w2, r1

MCPayments == {p1, p2}
MCOwner == [p \in MCPayments |-> IF p = p1 THEN u1 ELSE u2]
MCAmount == [p \in MCPayments |-> 2]
MCDiscount == [p \in MCPayments |-> IF p = p1 THEN 0 ELSE 1]
MCOperations == {op}
MCWorkers == {w1, w2}
MCReviewers == {r1}
=============================================================================
