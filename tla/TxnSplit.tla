------------------------------ MODULE TxnSplit ------------------------------
(***************************************************************************)
(* The transaction passes of dsql-lint (src/lint.rs).  DSQL takes one DDL  *)
(* statement per transaction and no DML beside it: check_ddl_transactions  *)
(* reports the blocks that break the rule, fix_ddl_transactions splits     *)
(* them.  The module runs the fix pass over every script, one action per   *)
(* branch of its outer loop, and then over its own output again.           *)
(*                                                                         *)
(* A part is a statement with its line; its text is abstracted to the kind *)
(* the passes tell apart ("bad" does not parse).                           *)
(***************************************************************************)
EXTENDS Integers, FiniteSets, SequencesExt

CONSTANT MaxLen      \* bound: statements of a script

ASSUME TxnSplitAssumption == MaxLen \in Nat

Kinds == {"begin", "commit", "rollback", "ddl", "dml", "other", "bad"}
Part == [line : 1..MaxLen, kind : Kinds]
Diagnostic == [rule : {"ParseError", "MultiDdlTransaction", "MixedDdlDmlTransaction"},
               line : 1..MaxLen]

VARIABLES input,        \* the parts before this pass
          parts,        \* the parts, as rewritten so far
          i,            \* the part the outer loop is at
          diagnostics,  \* what the pass reported
          pass          \* the first pass, or a rerun on its output

vars == <<input, parts, i, diagnostics, pass>>

is_txn_end(p) == p.kind \in {"commit", "rollback"}
Report(r, l) == [rule |-> r, line |-> l]

\* The rules a transaction with d DDL and m DML statements breaks.
BrokenBy(d, m) ==
  {r \in {"MultiDdlTransaction"} : d > 1}
    \cup {r \in {"MixedDdlDmlTransaction"} : d >= 1 /\ m >= 1}

------------------------------------------------------------------------------
(* Lint: check_ddl_transactions.                                           *)

Outside == [in_txn |-> FALSE, line |-> 1, ddl |-> 0, dml |-> 0]

\* Bug: a nested BEGIN starts the counts again.
CheckStatement_Nested(s, p) ==
  CASE p.kind = "begin" -> [s EXCEPT !.txn = [Outside EXCEPT !.in_txn = TRUE, !.line = p.line]]
    [] is_txn_end(p) ->
         [txn |-> Outside,
          reports |-> s.reports \cup
            {Report(r, s.txn.line) : r \in {x \in BrokenBy(s.txn.ddl, s.txn.dml) :
                                              s.txn.in_txn /\ p.kind = "commit"}}]
    [] s.txn.in_txn /\ p.kind = "ddl" -> [s EXCEPT !.txn.ddl = @ + 1]
    [] s.txn.in_txn /\ p.kind = "dml" -> [s EXCEPT !.txn.dml = @ + 1]
    [] OTHER -> s

\* One statement of the loop: s is its state, with the reports so far.
CheckStatement(s, p) ==
  CASE p.kind = "bad" ->
         [s EXCEPT !.reports = @ \cup {x \in {Report("ParseError", p.line)} : s.txn.in_txn}]
    [] p.kind = "begin" /\ ~s.txn.in_txn ->
         [s EXCEPT !.txn = [Outside EXCEPT !.in_txn = TRUE, !.line = p.line]]
    [] is_txn_end(p) ->
         [txn |-> Outside,
          reports |-> s.reports \cup
            {Report(r, s.txn.line) : r \in {x \in BrokenBy(s.txn.ddl, s.txn.dml) :
                                              s.txn.in_txn /\ p.kind = "commit"}}]
    [] s.txn.in_txn /\ p.kind = "ddl" -> [s EXCEPT !.txn.ddl = @ + 1]
    [] s.txn.in_txn /\ p.kind = "dml" -> [s EXCEPT !.txn.dml = @ + 1]
    [] OTHER -> s

check_ddl_transactions(ps) ==
  FoldLeft(CheckStatement, [txn |-> Outside, reports |-> {}], ps).reports

------------------------------------------------------------------------------
(* Fix: fix_ddl_transactions.                                              *)

\* The scan of the block that begins at b ends at j, for a transaction end or a
\* statement that does not parse.
Stops(b) == {j \in (b + 1)..Len(parts) : is_txn_end(parts[j]) \/ parts[j].kind = "bad"}
ScanEnds(b, kinds) == {j \in Stops(b) : parts[j].kind \in kinds /\ \A k \in Stops(b) : j <= k}

InBlock(b, c, k) == {j \in (b + 1)..(c - 1) : parts[j].kind = k}
Broken(b, c) == BrokenBy(Cardinality(InBlock(b, c, "ddl")), Cardinality(InBlock(b, c, "dml")))

\* The BEGIN/COMMIT around the statements of a block; both have the line of its BEGIN.
Commit(begin) == [begin EXCEPT !.kind = "commit"]
EndsInRun(out) == out # <<>> /\ out[Len(out) - 1].kind # "ddl"

\* Bug: a DDL statement joins the run before it.
AddToBlocks_Joins(begin, out, p) ==
  CASE p.kind = "begin" -> out
    [] p.kind # "begin" /\ EndsInRun(out) -> Front(out) \o <<p, Commit(begin)>>
    [] OTHER -> out \o <<begin, p, Commit(begin)>>

\* Bug: a DDL statement takes the place of the pending run.
AddToBlocks_Unflushed(begin, out, p) ==
  CASE p.kind = "begin" -> out
    [] p.kind \notin {"begin", "ddl"} /\ EndsInRun(out) -> Front(out) \o <<p, Commit(begin)>>
    [] p.kind = "ddl" /\ EndsInRun(out) ->
         SubSeq(out, 1, Len(out) - 2) \o <<p, Commit(begin)>>
    [] OTHER -> out \o <<begin, p, Commit(begin)>>

\* One statement of a block that is split: nested BEGINs go, a DDL statement has a block
\* of its own, the other statements between two of them share one.
AddToBlocks(begin, out, p) ==
  CASE p.kind = "begin" -> out
    [] p.kind \notin {"begin", "ddl"} /\ EndsInRun(out) -> Front(out) \o <<p, Commit(begin)>>
    [] OTHER -> out \o <<begin, p, Commit(begin)>>

Blocks(begin, body) ==
  FoldLeft(LAMBDA out, p : AddToBlocks(begin, out, p), <<>>, body)

\* Bug: the first statement is split off, and the loop goes on after the rest.
Replacement_FirstOnly(b, c) ==
  Blocks(parts[b], <<parts[b + 1]>>)
    \o <<parts[b]>> \o SubSeq(parts, b + 2, c - 1) \o <<Commit(parts[b])>>

Replacement(b, c) == Blocks(parts[b], SubSeq(parts, b + 1, c - 1))

\* The parts with those from b to c replaced.
Splice(b, c, replacement) ==
  SubSeq(parts, 1, b - 1) \o replacement \o SubSeq(parts, c + 1, Len(parts))

------------------------------------------------------------------------------
Numbered(kinds) == [n \in DOMAIN kinds |-> [line |-> n, kind |-> kinds[n]]]

Init == /\ \E kinds \in BoundedSeq(Kinds, MaxLen) : input = Numbered(kinds)
        /\ parts = input
        /\ i = 1
        /\ diagnostics = {}
        /\ pass = "first"

Begins == i <= Len(parts) /\ parts[i].kind = "begin"

\* Not a BEGIN, or not parsable.
SkipPart ==
  /\ i <= Len(parts)
  /\ parts[i].kind # "begin"
  /\ i' = i + 1
  /\ UNCHANGED <<input, parts, diagnostics, pass>>

\* A statement of the block does not parse: "skipping auto-fix for this transaction
\* block".
SkipUnparsable ==
  /\ Begins
  /\ \E j \in ScanEnds(i, {"bad"}) :
       diagnostics' = diagnostics \cup {Report("ParseError", parts[j].line)}
  /\ i' = i + 1
  /\ UNCHANGED <<input, parts, pass>>

\* Bug: the index is not advanced.
SkipUncommitted_Stays ==
  /\ Begins
  /\ ScanEnds(i, {"commit", "bad"}) = {}
  /\ UNCHANGED vars

\* The block is rolled back, or never ends.
SkipUncommitted ==
  /\ Begins
  /\ ScanEnds(i, {"commit", "bad"}) = {}
  /\ i' = i + 1
  /\ UNCHANGED <<input, parts, diagnostics, pass>>

\* The block breaks no rule: the loop goes on after it.
KeepBlock ==
  /\ Begins
  /\ \E c \in ScanEnds(i, {"commit"}) :
       /\ Broken(i, c) = {}
       /\ i' = c + 1
  /\ UNCHANGED <<input, parts, diagnostics, pass>>

\* Bug: the loop goes on one part too far.
SplitBlock_Overruns ==
  /\ Begins
  /\ \E c \in ScanEnds(i, {"commit"}) :
       /\ Broken(i, c) # {}
       /\ parts' = Splice(i, c, Replacement(i, c))
       /\ i' = i + Len(Replacement(i, c)) + 1
       /\ diagnostics' = diagnostics \cup {Report(r, parts[i].line) : r \in Broken(i, c)}
  /\ UNCHANGED <<input, pass>>

\* The block is split: the loop goes on after what replaces it.
SplitBlock ==
  /\ Begins
  /\ \E c \in ScanEnds(i, {"commit"}) :
       /\ Broken(i, c) # {}
       /\ parts' = Splice(i, c, Replacement(i, c))
       /\ i' = i + Len(Replacement(i, c))
       /\ diagnostics' = diagnostics \cup {Report(r, parts[i].line) : r \in Broken(i, c)}
  /\ UNCHANGED <<input, pass>>

Finished == i > Len(parts)

\* `--fix` is run on the output.
Rerun ==
  /\ Finished
  /\ pass = "first"
  /\ pass' = "rerun"
  /\ input' = parts
  /\ i' = 1
  /\ diagnostics' = {}
  /\ UNCHANGED parts

FixStep == SkipPart \/ SkipUnparsable \/ SkipUncommitted \/ KeepBlock \/ SplitBlock
Next == FixStep \/ Rerun

Spec == Init /\ [][Next]_vars

\* The program runs its loop.
FairSpec == Spec /\ WF_vars(Next)

------------------------------------------------------------------------------
(* Properties.                                                             *)

TypeOK ==
  /\ input \in Seq(Part)
  /\ parts \in Seq(Part)
  /\ i \in 1..(Len(parts) + 1)
  /\ diagnostics \in SUBSET Diagnostic
  /\ pass \in {"first", "rerun"}

\* What PostgreSQL makes of a script: the transactions <<b, c>> that a BEGIN opens,
\* at b, outside of any other, and the first COMMIT or ROLLBACK ends, at c.
Between(b, c) == (b + 1)..(c - 1)
Ends(ps) == {j \in DOMAIN ps : is_txn_end(ps[j])}
Opens(ps) == {b \in DOMAIN ps :
                /\ ps[b].kind = "begin"
                /\ \A a \in 1..(b - 1) : ps[a].kind = "begin" => Between(a, b) \cap Ends(ps) # {}}
Transactions(ps) == {t \in Opens(ps) \X Ends(ps) :
                       t[1] < t[2] /\ Between(t[1], t[2]) \cap Ends(ps) = {}}
Holds(ps, t, k) == {j \in Between(t[1], t[2]) : ps[j].kind = k}
Commits(ps, t) == ps[t[2]].kind = "commit" /\ Holds(ps, t, "bad") = {}

\* "DSQL supports only one DDL statement per transaction" and "does not allow DDL and
\* DML in the same transaction": DSQL accepts every transaction a fixed script commits.
FixedScriptAccepted ==
  Finished => \A t \in Transactions(parts) :
                Commits(parts, t) =>
                  /\ Cardinality(Holds(parts, t, "ddl")) <= 1
                  /\ Holds(parts, t, "ddl") = {} \/ Holds(parts, t, "dml") = {}

\* Splitting adds and drops BEGINs and COMMITs only: the other statements stay, each
\* once and in their order, and what ran in a transaction still does, and nothing else.
StatementsAt(ps) == {j \in DOMAIN ps : ps[j].kind \notin {"begin", "commit"}}
IsInTransaction(ps, k) ==
  \E b \in 1..(k - 1) : ps[b].kind = "begin" /\ Between(b, k) \cap Ends(ps) = {}
InTransaction(ps) ==
  {ps[k] : k \in {k \in StatementsAt(ps) : ps[k].kind # "rollback" /\ IsInTransaction(ps, k)}}
StatementsKept ==
  /\ {parts[k] : k \in StatementsAt(parts)} = {input[k] : k \in StatementsAt(input)}
  /\ \A j, k \in StatementsAt(parts) : j < k => parts[j].line < parts[k].line
  /\ InTransaction(parts) = InTransaction(input)

\* The two modes "can't drift": what `--fix` splits is what lint reports.
ModesAgree ==
  Finished /\ pass = "first" /\ (\A j \in DOMAIN input : input[j].kind # "bad")
    => diagnostics = check_ddl_transactions(input)

\* A fixed script needs no fix: a second `--fix` leaves it alone.
FixIsIdempotent == pass = "rerun" => parts = input

\* The loop, which rewrites the list it walks, ends.
FixEnds == <>(Finished /\ pass = "rerun")
==============================================================================
