----------------------------- MODULE MCVpnSync ------------------------------
(* Two workers.  The bounds are in each .cfg: two commands are enough for  *)
(* one to be retried after a later one, two workers to hold the same one.  *)
EXTENDS VpnSync

CONSTANTS w1, w2, phone

MCWorkers == {w1, w2}
MCHwids == {phone}
=============================================================================
