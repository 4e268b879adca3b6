--------------------------- MODULE MCWalletTopUps ---------------------------
(* Two requests with the same Idempotency-Key header, by the same customer *)
(* (a replay, which may agree or conflict) or by two customers; two        *)
(* amounts, so that a confirmation may mismatch.                           *)
EXTENDS WalletTopUps

CONSTANTS u1, u2, k1, r1, r2

MCUsers == {u1, u2}
MCKeys == {k1}
MCRequests == {r1, r2}
MCAmounts == {100, 200}
=============================================================================
