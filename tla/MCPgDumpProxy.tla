---------------------------- MODULE MCPgDumpProxy ----------------------------
(* Instances of PgDumpProxy for TLC.                                        *)
EXTENDS PgDumpProxy

Stmt(v, a, b, o) == [verb |-> v, arg |-> a, body |-> b, oid |-> o, known |-> FALSE]
Begin == Stmt("begin", "none", NoBody, 0)
Select == Stmt("select", "none", "tables", 0)
Set(p) == Stmt("set", p, NoBody, 0)
Lock == Stmt("lock", "none", NoBody, 0)
SetConfig == Stmt("set_config", "other", NoBody, 0)
Prepare(n, b) == [Stmt("prepare", n, b, 0) EXCEPT !.known = TRUE]
Execute(n, o) == Stmt("execute", n, NoBody, o)

OneName == {"dumpfunc"}
SelectTexts == {"tables", "functions", "operators"}
TimeZone == {"timezone"}

\* pg_dump's kinds of query, and a batch whose second statement DSQL rejects.
DumpQueries ==
  {<<Begin>>, <<Set("other")>>, <<Lock>>, <<SetConfig>>,
   <<Prepare("dumpfunc", "functions")>>, <<Prepare("dumpfunc", "operators")>>,
   <<Execute("dumpfunc", 1)>>, <<Execute("dumpfunc", 2)>>,
   <<Set("timezone"), Set("other")>>}

\* pg_dump opens its transaction and sets the isolation level.
TransactionQueries == {<<Begin>>, <<Set("other")>>, <<Select>>}
==============================================================================
