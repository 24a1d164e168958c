------------------------------ MODULE Dialogue ------------------------------
(***************************************************************************)
(* What a pg_dump that talks to Aurora DSQL through the proxy relies on: it *)
(* asks one query at a time, every query is answered at most once, in the  *)
(* order asked and only with an answer the query allows; a lost connection *)
(* answers nothing more.                                                   *)
(***************************************************************************)
EXTENDS Sequences, Naturals

CONSTANTS Queries,        \* what the client may ask
          Allowed(_, _)   \* Allowed(asked, n): the answers the n-th query may get

VARIABLES asked,    \* the queries so far
          answers,  \* the answers so far
          open      \* has the client not given up the connection

dialogueVars == <<asked, answers, open>>

Init == asked = <<>> /\ answers = <<>> /\ open = TRUE

Ask(q) == /\ open
          /\ Len(answers) = Len(asked)
          /\ asked' = Append(asked, q)
          /\ UNCHANGED <<answers, open>>

Answer == /\ open
          /\ Len(answers) < Len(asked)
          /\ \E a \in Allowed(asked, Len(asked)) : answers' = Append(answers, a)
          /\ UNCHANGED <<asked, open>>

Lose == open' = FALSE /\ UNCHANGED <<asked, answers>>

Next == \/ \E q \in Queries : Ask(q)
        \/ Answer
        \/ Lose

Spec == Init /\ [][Next]_dialogueVars
==============================================================================
