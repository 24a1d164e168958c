----------------------------- MODULE PgDumpProxy -----------------------------
(***************************************************************************)
(* One connection of pgdump-proxy/dsql_pgdump_proxy.py: `handle` reads the *)
(* startup, connects upstream and runs two threads, client_to_server and   *)
(* server_to_client.  The first answers itself the setup statements DSQL   *)
(* rejects, so both threads write to the client; client_lock keeps their   *)
(* writes apart.  Each thread shuts the other's socket down when it ends.  *)
(*                                                                         *)
(* A query is a sequence of statements (more than one: a batch).  The four *)
(* streams hold whole client messages and pieces of server messages.  The  *)
(* client (libpq: one query at a time) and DSQL are external.              *)
(***************************************************************************)
EXTENDS Integers, Sequences, FiniteSetsExt

CONSTANTS
  Queries,        \* the queries the client may ask
  Names,          \* names of prepared statements, in lower case
  Bodies,         \* SELECT texts
  AllowedParams,  \* ALLOWED_SET_PARAMS, enable_*, disable_sync_create_index
  MaxOid,         \* MAX_POSTGRES_OID
  Capacity,       \* bound: messages or pieces a socket buffers
  MaxQueries      \* bound: queries of a connection

NoBody == "none"
NullBody == "NULL::text"

\* A statement: its verb, its parameter or name, its SELECT text, its OID, and
\* for a PREPARE whether it has the shape of one of pg_dump's.
Statement == [verb : {"begin", "commit", "select", "set", "lock", "set_config",
                      "prepare", "execute"},
              arg : AllowedParams \cup Names \cup {"none", "other"},
              body : Bodies \cup {NoBody, NullBody}, oid : Nat, known : BOOLEAN]

ASSUME ProxyAssumption ==
  /\ Queries \subseteq Seq(Statement) \ {<<>>}
  /\ \A q \in Queries : \A i \in DOMAIN q :
       q[i].verb \in {"prepare", "execute"} =>
         q[i].arg \in Names /\ (q[i].known => q[i].body \in Bodies)
  /\ MaxOid \in Nat
  /\ Capacity \in Nat \ {0}
  /\ MaxQueries \in Nat

VARIABLES
  client,      \* the client's state
  asked,       \* the queries it sent
  answers,     \* the answers it took
  partial,     \* the result it is reading
  status,      \* the transaction status it was told last
  handler,     \* where `handle` is
  c2s,         \* client_to_server: where it is, and what it is about to write
  s2c,         \* server_to_client: likewise
  lock,        \* client_lock's holder
  prepared,    \* prepared_queries
  clientShut,  \* the client's socket is shut down or closed
  serverShut,  \* the upstream socket is shut down
  fromClient, toServer, fromServer, toClient,  \* the streams
  serverOpen,  \* the upstream connection exists and DSQL keeps it
  txn,         \* DSQL's transaction status: idle, in a transaction, failed
  replying     \* what DSQL has yet to send

clientVars == <<client, asked, answers, partial, status>>
proxyVars  == <<handler, c2s, s2c, lock, prepared, clientShut, serverShut>>
streams    == <<fromClient, toServer, fromServer, toClient>>
serverVars == <<serverOpen, txn, replying>>
vars == <<clientVars, proxyVars, streams, serverVars>>

------------------------------------------------------------------------------
(* Messages.                                                               *)

\* What a statement returns: no rows, or the rows of a SELECT text for an OID.
Result(b, o) == [body |-> b, oid |-> o]
Done == <<Result(NoBody, 0)>>
Error == <<>>

Results(q) == [i \in DOMAIN q |-> Result(q[i].body, q[i].oid)]
AllResults == [body : Bodies \cup {NoBody, NullBody}, oid : Nat]

\* Client messages.  Startup requests precede the typed messages.
Message == [type : {"encrypt", "startup", "password"}] \cup [type : {"Q"}, query : Seq(Statement)]
Plain(t) == [type |-> t]
Query(q) == [type |-> "Q", query |-> q]

\* Pieces of what the client reads.
Piece == [kind : {"refused", "auth", "fatal", "junk"}]
           \cup [kind : {"result"}, result : Seq(AllResults)]
           \cup [kind : {"ready"}, status : {"I", "T", "E"}]
Token(k) == [kind |-> k]
ResultPiece(r) == [kind |-> "result", result |-> r]
ReadyForQuery(t) == [kind |-> "ready", status |-> t]

\* CommandComplete and ReadyForQuery, as send_command_complete writes them.
CommandComplete(t) == <<ResultPiece(Done), ReadyForQuery(t)>>

------------------------------------------------------------------------------
(* What is intercepted.                                                    *)

set_param_allowed(p) == p \in AllowedParams

\* A PREPARE of a known shape, alone in its query.
parse_pgdump_prepare(q) == Len(q) = 1 /\ q[1].verb = "prepare" /\ q[1].known

\* Mutant: the range of the OID is not checked.
rewrite_pgdump_execute_AnyOid(q, retained) ==
  Len(q) = 1 /\ q[1].verb = "execute" /\ retained[q[1].arg] # NoBody

\* An EXECUTE, alone in its query, of a retained SELECT with an OID in range.
rewrite_pgdump_execute(q, retained) ==
  /\ Len(q) = 1
  /\ q[1].verb = "execute"
  /\ retained[q[1].arg] # NoBody
  /\ q[1].oid <= MaxOid

\* The SELECT with the OID inlined.
Inlined(b, o) == <<[verb |-> "select", arg |-> "none", body |-> b, oid |-> o,
                    known |-> FALSE]>>

\* The three regular expressions look at the start of the query only.
SET_RE(q) == q[1].verb = "set"
LOCK_RE(q) == q[1].verb = "lock"
SET_CONFIG_RE(q) == q[1].verb = "set_config"

------------------------------------------------------------------------------
Init ==
  /\ client = "new" /\ asked = <<>> /\ answers = <<>> /\ partial = Error
  /\ status = "I"
  /\ handler = "startup"
  /\ c2s = [pc |-> "off", out |-> <<>>]
  /\ s2c = [pc |-> "off", out |-> <<>>]
  /\ lock = "free"
  /\ prepared = [n \in Names |-> NoBody]
  /\ clientShut = FALSE /\ serverShut = FALSE
  /\ fromClient = <<>> /\ toServer = <<>> /\ fromServer = <<>> /\ toClient = <<>>
  /\ serverOpen = FALSE /\ txn = "I" /\ replying = <<>>

------------------------------------------------------------------------------
(* The client.                                                             *)

ClientSends(m, c) == /\ fromClient' = Append(fromClient, m)
                     /\ client' = c

\* It asks for encryption first, or does not.
ClientHello ==
  /\ client = "new"
  /\ \/ ClientSends(Plain("encrypt"), "refusable")
     \/ ClientSends(Plain("startup"), "authenticating")
  /\ UNCHANGED <<asked, answers, partial, status, proxyVars, toServer, fromServer,
                 toClient, serverVars>>

ClientAsks(q) ==
  /\ client = "idle"
  /\ Len(asked) < MaxQueries
  /\ ClientSends(Query(q), "waiting")
  /\ asked' = Append(asked, q)
  /\ UNCHANGED <<answers, partial, status, proxyVars, toServer, fromServer,
                 toClient, serverVars>>

\* It reads a piece, while it waits for one.
ClientReads ==
  /\ client \in {"refusable", "authenticating", "waiting"}
  /\ toClient # <<>>
  /\ toClient' = Tail(toClient)
  /\ LET p == Head(toClient) IN
       \/ /\ p.kind = "refused"
          /\ ClientSends(Plain("startup"), "authenticating")
          /\ UNCHANGED <<answers, partial, status>>
       \/ /\ p.kind = "auth"
          /\ ClientSends(Plain("password"), client)
          /\ UNCHANGED <<answers, partial, status>>
       \/ /\ p.kind = "result"
          /\ partial' = p.result
          /\ UNCHANGED <<client, answers, status, fromClient>>
       \/ /\ p.kind = "ready"
          /\ client' = "idle"
          /\ status' = p.status
          /\ partial' = Error
          /\ answers' = IF client = "waiting" THEN Append(answers, partial) ELSE answers
          /\ UNCHANGED fromClient
       \/ /\ p.kind \in {"fatal", "junk"}
          /\ client' = "closed"
          /\ UNCHANGED <<answers, partial, status, fromClient>>
  /\ UNCHANGED <<asked, proxyVars, toServer, fromServer, serverVars>>

\* It reads the end of the stream: the connection is lost.
ClientReadsEof ==
  /\ client # "closed"
  /\ clientShut
  /\ toClient = <<>>
  /\ client' = "closed"
  /\ UNCHANGED <<asked, answers, partial, status, proxyVars, streams, serverVars>>

\* It ends, or is killed.
ClientCloses ==
  /\ client # "closed"
  /\ client' = "closed"
  /\ toClient' = <<>>
  /\ UNCHANGED <<asked, answers, partial, status, proxyVars, fromClient, toServer,
                 fromServer, serverVars>>

ClientGone == client = "closed" \/ clientShut

------------------------------------------------------------------------------
(* handle.                                                                 *)

\* read_startup refuses encryption and returns the StartupMessage.
ReadStartup ==
  /\ handler = "startup"
  /\ fromClient # <<>>
  /\ fromClient' = Tail(fromClient)
  /\ \/ /\ Head(fromClient).type = "encrypt"
        /\ toClient' = IF ClientGone THEN toClient ELSE Append(toClient, Token("refused"))
        /\ UNCHANGED handler
     \/ /\ Head(fromClient).type = "startup"
        /\ handler' = "connect"
        /\ UNCHANGED toClient
  /\ UNCHANGED <<clientVars, c2s, s2c, lock, prepared, clientShut, serverShut,
                 toServer, fromServer, serverVars>>

\* The client went away before its startup was complete, or the upstream cannot be
\* reached or refuses TLS: the client's socket is closed.
HandleFails ==
  /\ \/ handler = "startup" /\ fromClient = <<>> /\ client = "closed"
     \/ handler = "connect"
  /\ handler' = "closed"
  /\ clientShut' = TRUE
  /\ UNCHANGED <<clientVars, c2s, s2c, lock, prepared, serverShut, streams,
                 serverVars>>

\* Upstream is connected, the startup forwarded, both threads started.
ConnectUpstream ==
  /\ handler = "connect"
  /\ handler' = "pump"
  /\ serverOpen' = TRUE
  /\ toServer' = <<Plain("startup")>>
  /\ c2s' = [c2s EXCEPT !.pc = "recv"]
  /\ s2c' = [s2c EXCEPT !.pc = "recv"]
  /\ UNCHANGED <<clientVars, lock, prepared, clientShut, serverShut, fromClient,
                 fromServer, toClient, txn, replying>>

\* Both threads joined: the client's socket is closed.
JoinThreads ==
  /\ handler = "pump"
  /\ c2s.pc = "done" /\ s2c.pc = "done"
  /\ handler' = "closed"
  /\ clientShut' = TRUE
  /\ UNCHANGED <<clientVars, c2s, s2c, lock, prepared, serverShut, streams,
                 serverVars>>

------------------------------------------------------------------------------
(* client_to_server.                                                       *)

\* What the thread does with the query q.
Forwards(q) == /\ c2s' = [pc |-> "forward", out |-> <<Query(q)>>]
               /\ UNCHANGED prepared
Synthesizes(t) == c2s' = [pc |-> "lock", out |-> CommandComplete(t)]

Intercept(q) ==
  IF parse_pgdump_prepare(q)
    THEN /\ prepared' = [prepared EXCEPT ![q[1].arg] = q[1].body]
         /\ Synthesizes("T")
  ELSE IF rewrite_pgdump_execute(q, prepared)
    THEN Forwards(Inlined(prepared[q[1].arg], q[1].oid))
  ELSE IF SET_RE(q) /\ ~set_param_allowed(q[1].arg)
    THEN Synthesizes("I") /\ UNCHANGED prepared
  ELSE IF LOCK_RE(q)
    THEN Synthesizes("T") /\ UNCHANGED prepared
  ELSE IF SET_CONFIG_RE(q)
    THEN Forwards(Inlined(NullBody, 0))
  ELSE Forwards(q)

\* It reads a whole message; only simple queries are looked at.
C2sRecv ==
  /\ c2s.pc = "recv"
  /\ fromClient # <<>>
  /\ fromClient' = Tail(fromClient)
  /\ LET m == Head(fromClient) IN
       IF m.type = "Q" THEN Intercept(m.query)
       ELSE /\ c2s' = [pc |-> "forward", out |-> <<m>>]
            /\ UNCHANGED prepared
  /\ UNCHANGED <<clientVars, handler, s2c, lock, clientShut, serverShut, toServer,
                 fromServer, toClient, serverVars>>

\* Mutant: the thread ends without waking the other.
C2sEnds_Alone == c2s' = [pc |-> "done", out |-> <<>>] /\ UNCHANGED serverShut

\* The thread ends, and shuts the upstream socket down.
C2sEnds == c2s' = [pc |-> "done", out |-> <<>>] /\ serverShut' = TRUE

\* recv returns nothing: the peer closed, or server_to_client shut the socket down.
C2sEof ==
  /\ c2s.pc = "recv"
  /\ (fromClient = <<>> /\ client = "closed") \/ clientShut
  /\ C2sEnds
  /\ UNCHANGED <<clientVars, handler, s2c, lock, prepared, clientShut, streams,
                 serverVars>>

\* sendall to DSQL.  A connection DSQL has dropped may swallow the bytes.
C2sForward ==
  /\ c2s.pc = "forward"
  /\ IF serverOpen THEN /\ Len(toServer) < Capacity
                        /\ toServer' = toServer \o c2s.out
                   ELSE UNCHANGED toServer
  /\ c2s' = [pc |-> "recv", out |-> <<>>]
  /\ UNCHANGED <<clientVars, handler, s2c, lock, prepared, clientShut, serverShut,
                 fromClient, fromServer, toClient, serverVars>>

\* Or sendall raises.
C2sForwardFails ==
  /\ c2s.pc = "forward"
  /\ ~serverOpen
  /\ C2sEnds
  /\ UNCHANGED <<clientVars, handler, s2c, lock, prepared, clientShut, streams,
                 serverVars>>

\* Mutant: the reply is written without the lock.
C2sLocks_Unlocked ==
  /\ c2s.pc = "lock"
  /\ c2s' = [c2s EXCEPT !.pc = "send"]
  /\ UNCHANGED <<clientVars, handler, s2c, lock, prepared, clientShut, serverShut,
                 streams, serverVars>>

C2sLocks ==
  /\ c2s.pc = "lock"
  /\ lock = "free"
  /\ lock' = "c2s"
  /\ c2s' = [c2s EXCEPT !.pc = "send"]
  /\ UNCHANGED <<clientVars, handler, s2c, prepared, clientShut, serverShut, streams,
                 serverVars>>

\* One piece of a sendall to the client: it takes effect, or is lost with the client.
Deliver(p) == /\ client = "closed" \/ Len(toClient) < Capacity
              /\ toClient' = IF client = "closed" THEN toClient ELSE Append(toClient, p)

\* The thread t with state s writes its next piece; after the last it leaves the
\* `with` block.
NextPiece(s, t) ==
  /\ Deliver(Head(s.out))
  /\ IF Len(s.out) > 1 THEN t = [s EXCEPT !.out = Tail(@)] /\ UNCHANGED lock
                       ELSE t = [pc |-> "recv", out |-> <<>>] /\ lock' = "free"

C2sSends ==
  /\ c2s.pc = "send"
  /\ ~clientShut
  /\ NextPiece(c2s, c2s')
  /\ UNCHANGED <<clientVars, handler, s2c, prepared, clientShut, serverShut,
                 fromClient, toServer, fromServer, serverVars>>

C2sSendFails ==
  /\ c2s.pc = "send"
  /\ ClientGone
  /\ lock' = "free"
  /\ C2sEnds
  /\ UNCHANGED <<clientVars, handler, s2c, prepared, clientShut, streams, serverVars>>

------------------------------------------------------------------------------
(* server_to_client.                                                       *)

\* recv returns some of what has arrived, cut anywhere.  On a TLS socket that was
\* shut down meanwhile it returns the ciphertext.
S2cRecv ==
  /\ s2c.pc = "recv"
  /\ fromServer # <<>>
  /\ \E n \in 1..Len(fromServer) :
       /\ s2c' = [pc |-> "lock", out |-> IF serverShut THEN <<Token("junk")>>
                                         ELSE SubSeq(fromServer, 1, n)]
       /\ fromServer' = SubSeq(fromServer, n + 1, Len(fromServer))
  /\ UNCHANGED <<clientVars, handler, c2s, lock, prepared, clientShut, serverShut,
                 fromClient, toServer, toClient, serverVars>>

\* Mutant: the thread ends and leaves the client's socket open.
S2cEnds_Alone == s2c' = [pc |-> "done", out |-> <<>>] /\ UNCHANGED clientShut

\* The thread ends, and shuts the client's socket down.
S2cEnds == s2c' = [pc |-> "done", out |-> <<>>] /\ clientShut' = TRUE

S2cEof ==
  /\ s2c.pc = "recv"
  /\ (fromServer = <<>> /\ ~serverOpen) \/ serverShut
  /\ S2cEnds
  /\ UNCHANGED <<clientVars, handler, c2s, lock, prepared, serverShut, streams,
                 serverVars>>

S2cLocks ==
  /\ s2c.pc = "lock"
  /\ lock = "free"
  /\ lock' = "s2c"
  /\ s2c' = [s2c EXCEPT !.pc = "send"]
  /\ UNCHANGED <<clientVars, handler, c2s, prepared, clientShut, serverShut, streams,
                 serverVars>>

S2cSends ==
  /\ s2c.pc = "send"
  /\ NextPiece(s2c, s2c')
  /\ UNCHANGED <<clientVars, handler, c2s, prepared, clientShut, serverShut,
                 fromClient, toServer, fromServer, serverVars>>

S2cSendFails ==
  /\ s2c.pc = "send"
  /\ client = "closed"
  /\ lock' = "free"
  /\ S2cEnds
  /\ UNCHANGED <<clientVars, handler, c2s, prepared, serverShut, streams, serverVars>>

------------------------------------------------------------------------------
(* DSQL.                                                                   *)

Accepts(s) == \/ s.verb \in {"begin", "commit", "select"}
              \/ s.verb = "set" /\ set_param_allowed(s.arg)

\* The transaction status after the statements of q.
After(q) == LET marks == {i \in DOMAIN q : q[i].verb \in {"begin", "commit"}} IN
              IF marks = {} THEN txn
              ELSE IF q[Max(marks)].verb = "begin" THEN "T" ELSE "I"

\* A query is answered as a whole.  Any may fail; one that holds a statement DSQL
\* does not support, or in a failed transaction, must.
Runs(q) ==
  \/ /\ \A i \in DOMAIN q : Accepts(q[i])
     /\ txn = "E" => q[1].verb = "commit"
     /\ txn' = After(q)
     /\ replying' = <<ResultPiece(Results(q)), ReadyForQuery(txn')>>
  \/ /\ txn' = IF txn = "I" THEN "I" ELSE "E"
     /\ replying' = <<ResultPiece(Error), ReadyForQuery(txn')>>

ServerTakes ==
  /\ serverOpen
  /\ replying = <<>>
  /\ toServer # <<>>
  /\ toServer' = Tail(toServer)
  /\ LET m == Head(toServer) IN
       \/ m.type = "startup" /\ replying' = <<Token("auth")>> /\ UNCHANGED txn
       \/ m.type = "password" /\ replying' = <<ReadyForQuery("I")>> /\ UNCHANGED txn
       \/ m.type = "Q" /\ Runs(m.query)
  /\ UNCHANGED <<clientVars, proxyVars, fromClient, fromServer, toClient, serverOpen>>

ServerSends ==
  /\ serverOpen
  /\ replying # <<>>
  /\ Len(fromServer) < Capacity
  /\ fromServer' = Append(fromServer, Head(replying))
  /\ replying' = Tail(replying)
  /\ UNCHANGED <<clientVars, proxyVars, fromClient, toServer, toClient, serverOpen,
                 txn>>

\* DSQL drops the connection (its age is capped), with or without a last word; and
\* it does when the proxy has shut its end down.
ServerDrops ==
  /\ serverOpen
  /\ serverOpen' = FALSE
  /\ replying' = <<>>
  /\ toServer' = <<>>
  /\ \/ UNCHANGED fromServer
     \/ Len(fromServer) < Capacity /\ fromServer' = Append(fromServer, Token("fatal"))
  /\ UNCHANGED <<clientVars, proxyVars, fromClient, toClient, txn>>

------------------------------------------------------------------------------
Handle == ReadStartup \/ HandleFails \/ ConnectUpstream \/ JoinThreads
ClientToServer == \/ C2sRecv \/ C2sEof \/ C2sForward \/ C2sForwardFails
                  \/ C2sLocks \/ C2sSends \/ C2sSendFails
ServerToClient == \/ S2cRecv \/ S2cEof \/ S2cLocks \/ S2cSends \/ S2cSendFails
Server == ServerTakes \/ ServerSends

Next == \/ ClientHello \/ (\E q \in Queries : ClientAsks(q))
        \/ ClientReads \/ ClientReadsEof \/ ClientCloses
        \/ Handle \/ ClientToServer \/ ServerToClient
        \/ Server \/ ServerDrops

Spec == Init /\ [][Next]_vars

\* The threads run, DSQL answers and sees a shutdown, and a client that waits reads.
Fairness == /\ WF_vars(Handle)
            /\ WF_vars(ClientToServer)
            /\ WF_vars(ServerToClient)
            /\ WF_vars(Server)
            /\ WF_vars(serverShut /\ ServerDrops)
            /\ WF_vars(ClientReads)
            /\ WF_vars(ClientReadsEof)

FairSpec == Spec /\ Fairness

------------------------------------------------------------------------------
(* Properties.                                                             *)

Thread(o) == [pc : {"off", "recv", "forward", "lock", "send", "done"}, out : Seq(o)]

\* Every variable has its type, and client_lock is held by the one thread that sends.
TypeOK ==
  /\ client \in {"new", "refusable", "authenticating", "idle", "waiting", "closed"}
  /\ asked \in Seq(Queries)
  /\ answers \in Seq(Seq(AllResults))
  /\ partial \in Seq(AllResults)
  /\ status \in {"I", "T", "E"}
  /\ handler \in {"startup", "connect", "pump", "closed"}
  /\ c2s \in Thread(Message \cup Piece)
  /\ s2c \in Thread(Piece)
  /\ lock \in {"free", "c2s", "s2c"}
  /\ (lock = "c2s") <=> (c2s.pc = "send")
  /\ (lock = "s2c") <=> (s2c.pc = "send")
  /\ prepared \in [Names -> Bodies \cup {NoBody}]
  /\ clientShut \in BOOLEAN /\ serverShut \in BOOLEAN /\ serverOpen \in BOOLEAN
  /\ fromClient \in Seq(Message) /\ toServer \in Seq(Message)
  /\ fromServer \in Seq(Piece) /\ toClient \in Seq(Piece)
  /\ txn \in {"I", "T", "E"}
  /\ replying \in Seq(Piece)

\* The PREPARE an EXECUTE that is the n-th query refers to: the last before it.
Refers(h, n) == LET S == {i \in 1..(n - 1) : /\ parse_pgdump_prepare(h[i])
                                             /\ h[i][1].arg = h[n][1].arg}
                IN IF S = {} THEN NoBody ELSE h[Max(S)][1].body

\* The answers the n-th of the queries h may get.  Setup statements succeed without
\* a result; what bears on the dump gets its own rows from DSQL, or an error.
Synthetic(q) == \/ parse_pgdump_prepare(q)
                \/ LOCK_RE(q)
                \/ SET_RE(q) /\ ~set_param_allowed(q[1].arg)
Rows(h, n) ==
  LET q == h[n] IN
    CASE q[1].verb = "execute" ->
           {r \in {<<Result(Refers(h, n), q[1].oid)>>} :
              Len(q) = 1 /\ Refers(h, n) # NoBody /\ q[1].oid <= MaxOid}
      [] SET_CONFIG_RE(q) -> {<<Result(NullBody, 0)>>}
      [] OTHER -> {r \in {Results(q)} : \A i \in DOMAIN q : Accepts(q[i])}
Allowed(h, n) == IF Synthetic(h[n]) THEN {Done} ELSE Rows(h, n) \cup {Error}

\* "Their query results do affect dump content": through retained PREPAREs, inlined
\* EXECUTEs, synthesized replies, drops and shutdowns, every query is answered at
\* most once, in order, and with its own result.
Conversation == INSTANCE Dialogue WITH open <- client # "closed"
DialogueSpec == Conversation!Spec

\* A query is answered, or its connection is seen to be lost: no reply is swallowed
\* and no drop leaves pg_dump waiting.
QueriesEnd == client = "waiting" ~> client \in {"idle", "closed"}

\* "The paired thread doesn't hang": when either side goes, both threads end and the
\* connection is closed.
ConnectionsEnd == (client = "closed" \/ (handler = "pump" /\ ~serverOpen))
                    ~> handler = "closed"

\* "status: b'I' = idle (outside a txn), b'T' = in a transaction block": an idle
\* client has been told the transaction status of its connection.
StatusIsTrue == client = "idle" /\ serverOpen => status = txn
==============================================================================
