-------------------------- MODULE MCSqlToolsDriver --------------------------
(* Instances of SqlToolsDriver for TLC.                                      *)
EXTENDS SqlToolsDriver
==============================================================================
