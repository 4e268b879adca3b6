------------------------------- MODULE Ledger -------------------------------
(***************************************************************************)
(* The double-entry ledger every other part of the backend posts to        *)
(* (backend/app/modules/payments/ledger.py and the ledger tables of        *)
(* database/schema.sql).                                                   *)
(*                                                                         *)
(* A ledger is the set of its posted transactions.  Each posting of the    *)
(* code has exactly two entries: one on the user's wallet and one of the   *)
(* opposite sign on a system account, so a transaction carries the signed  *)
(* wallet amount and the name of the contra account; the contra entry is   *)
(* its negation.  Draft rows never survive the database transaction that   *)
(* posts them and are not represented.                                     *)
(***************************************************************************)
EXTENDS Integers, FiniteSetsExt

(* One posted transaction: its idempotency key, the owner of the wallet    *)
(* entry, transaction_type, the wallet entry and the contra account, and   *)
(* reverses_transaction_id (the key of the reversed transaction, or a      *)
(* null).                                                                  *)
Entry(key, user, type, amount, contra, reverses) ==
    [key |-> key, user |-> user, type |-> type, amount |-> amount,
     contra |-> contra, reverses |-> reverses]

IsPosted(ledger, key) == \E t \in ledger : t.key = key

(* transaction_by_key: idempotency_key is UNIQUE. *)
ByKey(ledger, key) == CHOOSE t \in ledger : t.key = key

(* post_transaction: the existing transaction wins over a second posting   *)
(* with the same idempotency key.                                          *)
Post(ledger, t) == IF IsPosted(ledger, t.key) THEN ledger ELSE ledger \cup {t}

(* wallet_balance: the sum of the user's wallet entries, never a stored    *)
(* column.                                                                 *)
WalletBalance(ledger, user) ==
    MapThenSumSet(LAMBDA t : t.amount, {t \in ledger : t.user = user})

=============================================================================
