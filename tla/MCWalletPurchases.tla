------------------------- MODULE MCWalletPurchases --------------------------
(* One customer with two purchase requests, under one key (a double click  *)
(* or a retry) or under two (what the first key is called is immaterial),  *)
(* two workers, two prices of different plan versions and a top-up that    *)
(* pays for two periods of one or one period of the other.                 *)
EXTENDS WalletPurchases

CONSTANTS u1, q1, q2, k1, k2, w1, w2, basic, pro, t1

MCRequests == {q1, q2}
MCKeysOf == [q \in MCRequests |-> IF q = q1 THEN {k1} ELSE {k1, k2}]
MCWorkers == {w1, w2}
MCPrices == {basic, pro}
MCAmount == [p \in MCPrices |-> IF p = basic THEN 1 ELSE 2]
MCDays == [p \in MCPrices |-> 1]
MCVersion == [p \in MCPrices |-> IF p = basic THEN 1 ELSE 2]
MCTopUps == {t1}
MCValue == [t \in MCTopUps |-> 2]
=============================================================================
