---------------------------- MODULE HistoryLedger ----------------------------
(***************************************************************************)
(* What the Aurora DSQL support for Flyway promises about the schema       *)
(* history, whatever its retries, reconciliations, repairs and crashes do: *)
(* the table is a ledger.  A (version, type) pair that was once recorded   *)
(* as a success stays recorded, failures only come from failing runs, and  *)
(* only a repair takes a failure away.  How many rows stand for an entry   *)
(* is nobody's business: FlywayMigrate writes duplicates and deletes them. *)
(***************************************************************************)
CONSTANT Keys,      \* the (version, type) pairs a success row can carry
         Versions   \* the versions a failed row can carry

VARIABLES recorded,  \* the keys recorded as successes
          blocked    \* the versions with a failed row

ledgerVars == <<recorded, blocked>>

Init == /\ recorded = {}
        /\ blocked = {}

\* A migration, or repair's marker, enters the ledger.
Record(k) == /\ recorded' = recorded \cup {k}
             /\ UNCHANGED blocked

\* A failed migration is noted; later runs refuse to go on.
Block(v) == /\ blocked' = blocked \cup {v}
            /\ UNCHANGED recorded

\* `flyway repair` clears the failures and nothing else.
Unblock == /\ blocked' = {}
           /\ UNCHANGED recorded

Next == \/ \E k \in Keys : Record(k)
        \/ \E v \in Versions : Block(v)
        \/ Unblock

Spec == Init /\ [][Next]_ledgerVars
==============================================================================
