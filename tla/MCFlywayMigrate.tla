--------------------------- MODULE MCFlywayMigrate ---------------------------
(* Instances of FlywayMigrate for TLC: version 1 is DDL, version 2 is DML.  *)
EXTENDS FlywayMigrate, TLC

CONSTANTS m1, m2

TwoMigrators == {m1, m2}
\* The processes are interchangeable (used without liveness only).
MigratorSymmetry == Permutations(TwoMigrators)
==============================================================================
