------------------------------ MODULE MCTxnSplit ------------------------------
(* Instances of TxnSplit for TLC: every script of at most MaxLen statements.  *)
EXTENDS TxnSplit
==============================================================================
