------------------------------ MODULE MCFixCli ------------------------------
(* Instances of FixCli for TLC.                                              *)
EXTENDS FixCli
==============================================================================
