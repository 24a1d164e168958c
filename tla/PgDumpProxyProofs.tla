-------------------------- MODULE PgDumpProxyProofs --------------------------
(***************************************************************************)
(* For any queries, prepared statements and bounds: the types of           *)
(* PgDumpProxy with what its threads hold, and that a proxied connection   *)
(* implements Dialogue.                                                    *)
(***************************************************************************)
EXTENDS PgDumpProxy, SequenceTheorems, FiniteSetTheorems, TLAPS

------------------------------------------------------------------------------
(* The inductive invariant.                                                *)

Forwarding == c2s.pc = "forward"
Replies == c2s.pc \in {"lock", "send"}

\* The client asks no other queries.
QueryInv == \A i \in DOMAIN fromClient :
              fromClient[i].type = "Q" => fromClient[i].query \in Queries

\* A thread has something to write just while it is about to.
ThreadInv ==
  /\ c2s.pc \in {"off", "recv", "done"} => c2s.out = <<>>
  /\ Forwarding => c2s.out \in Seq(Message) /\ Len(c2s.out) = 1
  /\ Replies => c2s.out \in Seq(Piece) /\ c2s.out # <<>>
  /\ s2c.pc \in {"off", "recv", "done"} => s2c.out = <<>>
  /\ s2c.pc \in {"lock", "send"} => s2c.out # <<>>

\* Before the threads start nothing has come from DSQL or gone there.
HandlerInv ==
  handler \in {"startup", "connect"} =>
    /\ c2s.pc = "off" /\ s2c.pc = "off" /\ ~serverOpen
    /\ toServer = <<>> /\ fromServer = <<>> /\ replying = <<>>

TypeInv == TypeOK /\ QueryInv /\ ThreadInv /\ HandlerInv

------------------------------------------------------------------------------
(* Types of messages and pieces.                                           *)

LEMMA QueryTypes ==
  \A q \in Queries : /\ q \in Seq(Statement) /\ q # <<>> /\ Len(q) \in Nat \ {0}
                     /\ DOMAIN q = 1..Len(q) /\ q[1] \in Statement
                     /\ q[1].verb \in {"prepare", "execute"} =>
                          q[1].arg \in Names /\ (q[1].known => q[1].body \in Bodies)
<1> SUFFICES ASSUME NEW q \in Queries
    PROVE  /\ q \in Seq(Statement) /\ q # <<>> /\ Len(q) \in Nat \ {0}
           /\ DOMAIN q = 1..Len(q) /\ q[1] \in Statement
           /\ q[1].verb \in {"prepare", "execute"} =>
                q[1].arg \in Names /\ (q[1].known => q[1].body \in Bodies)
  OBVIOUS
<1>1. q \in Seq(Statement) /\ q # <<>>
  BY ProxyAssumption
<1>2. Len(q) \in Nat \ {0} /\ DOMAIN q = 1..Len(q) /\ q[1] \in Statement
  BY <1>1
<1>3. 1 \in DOMAIN q
  BY <1>2
<1> QED  BY <1>1, <1>2, <1>3, ProxyAssumption

LEMMA MessageTypes ==
  /\ \A t \in {"encrypt", "startup", "password"} : Plain(t) \in Message /\ Plain(t).type = t
  /\ \A q \in Seq(Statement) : /\ Query(q) \in Message
                               /\ Query(q).type = "Q" /\ Query(q).query = q
  /\ \A m \in Message : \/ m.type \in {"encrypt", "startup", "password"}
                        \/ m.type = "Q" /\ m.query \in Seq(Statement) /\ m = Query(m.query)
BY DEF Message, Plain, Query

LEMMA TokenTypes ==
  \A k \in {"refused", "auth", "fatal", "junk"} : Token(k) \in Piece /\ Token(k).kind = k
BY DEF Piece, Token

LEMMA ResultPieceTypes ==
  \A r \in Seq(AllResults) : /\ ResultPiece(r) \in Piece
                            /\ ResultPiece(r).kind = "result"
                            /\ ResultPiece(r).result = r
BY DEF Piece, ResultPiece

LEMMA ReadyTypes ==
  \A t \in {"I", "T", "E"} : /\ ReadyForQuery(t) \in Piece
                            /\ ReadyForQuery(t).kind = "ready"
                            /\ ReadyForQuery(t).status = t
BY DEF Piece, ReadyForQuery

LEMMA PieceTypes ==
  ASSUME NEW p \in Piece
  PROVE  /\ p.kind \in {"refused", "auth", "fatal", "junk", "result", "ready"}
         /\ p.kind = "result" => p.result \in Seq(AllResults)
         /\ p.kind = "ready" => p.status \in {"I", "T", "E"}
         /\ p.kind \in {"refused", "auth", "fatal", "junk"} => p = Token(p.kind)
         /\ p.kind = "result" => p = ResultPiece(p.result)
         /\ p.kind = "ready" => p = ReadyForQuery(p.status)
BY DEF Piece, Token, ResultPiece, ReadyForQuery

LEMMA InlinedTypes ==
  \A b \in Bodies \cup {NoBody, NullBody}, o \in Nat : Inlined(b, o) \in Seq(Statement)
BY DEF Inlined, Statement

LEMMA ResultTypes ==
  /\ \A q \in Seq(Statement) : Results(q) \in Seq(AllResults)
  /\ Error \in Seq(AllResults) /\ Done \in Seq(AllResults)
<1>1. ASSUME NEW q \in Seq(Statement) PROVE Results(q) \in Seq(AllResults)
  <2>1. q \in [1..Len(q) -> Statement] /\ Len(q) \in Nat
    OBVIOUS
  <2>2. \A j \in 1..Len(q) : Result(q[j].body, q[j].oid) \in AllResults
    BY <2>1 DEF Result, AllResults, Statement
  <2>3. Results(q) \in [1..Len(q) -> AllResults]
    BY <2>1, <2>2 DEF Results
  <2> QED  BY <2>1, <2>3
<1>2. Error \in Seq(AllResults)
  BY DEF Error
<1>3. Done \in Seq(AllResults)
  BY DEF Done, Result, AllResults
<1> QED  BY <1>1, <1>2, <1>3

LEMMA CompletionTypes ==
  \A t \in {"I", "T", "E"} :
    CommandComplete(t) \in Seq(Piece) /\ CommandComplete(t) # <<>>
BY ResultTypes, ResultPieceTypes, ReadyTypes DEF CommandComplete

LEMMA RunTypes ==
  ASSUME TypeOK, NEW q \in Seq(Statement), Runs(q)
  PROVE  /\ txn' \in {"I", "T", "E"} /\ replying' \in Seq(Piece)
         /\ \E r : /\ replying' = <<ResultPiece(r), ReadyForQuery(txn')>>
                   /\ r = Error \/ (r = Results(q) /\ \A j \in DOMAIN q : Accepts(q[j]))
<1>1. txn' \in {"I", "T", "E"}
  BY DEF Runs, After, TypeOK
<1>2. PICK r : /\ replying' = <<ResultPiece(r), ReadyForQuery(txn')>>
               /\ r = Error \/ (r = Results(q) /\ \A j \in DOMAIN q : Accepts(q[j]))
  BY DEF Runs
<1>3. r \in Seq(AllResults)
  BY <1>2, ResultTypes
<1> QED  BY <1>1, <1>2, <1>3, ResultPieceTypes, ReadyTypes

------------------------------------------------------------------------------
(* Types.                                                                  *)

LEMMA AppendElements ==
  ASSUME NEW S, NEW s \in Seq(S), NEW e \in S
  PROVE  \A j \in DOMAIN Append(s, e) :
           Append(s, e)[j] = e \/ (j \in DOMAIN s /\ Append(s, e)[j] = s[j])
<1> DEFINE t == Append(s, e)
<1>1. /\ Len(s) \in Nat /\ DOMAIN s = 1..Len(s)
      /\ t \in Seq(S) /\ Len(t) = Len(s) + 1 /\ DOMAIN t = 1..Len(t)
      /\ t[Len(s) + 1] = e
      /\ \A j \in 1..Len(s) : t[j] = s[j]
  BY AppendProperties, LenProperties
<1> HIDE DEF t
<1>2. \A j \in DOMAIN t : t[j] = e \/ (j \in DOMAIN s /\ t[j] = s[j])
  BY <1>1
<1> QED  BY <1>2 DEF t

LEMMA QueryAppend ==
  ASSUME TypeOK, QueryInv, NEW m \in Message, m.type = "Q" => m.query \in Queries,
         fromClient' = Append(fromClient, m)
  PROVE  fromClient' \in Seq(Message) /\ QueryInv'
<1>1. fromClient \in Seq(Message) /\ fromClient' \in Seq(Message)
  BY DEF TypeOK
<1>2. \A j \in DOMAIN fromClient' : fromClient'[j] = m
                                 \/ (j \in DOMAIN fromClient /\ fromClient'[j] = fromClient[j])
  BY <1>1, AppendElements
<1>3. \A j \in DOMAIN fromClient' :
        fromClient'[j].type = "Q" => fromClient'[j].query \in Queries
  <2> SUFFICES ASSUME NEW j \in DOMAIN fromClient', fromClient'[j].type = "Q"
      PROVE  fromClient'[j].query \in Queries
    OBVIOUS
  <2>1. CASE fromClient'[j] = m
    BY <2>1
  <2>2. CASE j \in DOMAIN fromClient /\ fromClient'[j] = fromClient[j]
    BY <2>2 DEF QueryInv
  <2> QED  BY <1>2, <2>1, <2>2
<1> QED  BY <1>1, <1>3 DEF QueryInv

LEMMA QueryTail ==
  ASSUME TypeOK, QueryInv, fromClient # <<>>, fromClient' = Tail(fromClient)
  PROVE  /\ fromClient' \in Seq(Message) /\ QueryInv'
         /\ Head(fromClient) \in Message /\ Head(fromClient) = fromClient[1]
         /\ Head(fromClient).type = "Q" => Head(fromClient).query \in Queries
<1>1. fromClient \in Seq(Message) /\ fromClient' \in Seq(Message)
  BY DEF TypeOK
<1>2. \A j \in DOMAIN fromClient' : j + 1 \in DOMAIN fromClient /\ fromClient'[j] = fromClient[j + 1]
  BY <1>1
<1>3. 1 \in DOMAIN fromClient /\ Head(fromClient) = fromClient[1]
  BY <1>1
<1> QED  BY <1>1, <1>2, <1>3 DEF QueryInv

LEMMA TypeClient ==
  ASSUME TypeInv,
         ClientHello \/ (\E q \in Queries : ClientAsks(q)) \/ ClientReads
           \/ ClientReadsEof \/ ClientCloses
  PROVE  TypeInv'
<1> USE DEF TypeInv
<1>1. CASE ClientHello
  <2>1. /\ \/ fromClient' = Append(fromClient, Plain("encrypt"))
           \/ fromClient' = Append(fromClient, Plain("startup"))
        /\ client' \in {"refusable", "authenticating"}
        /\ UNCHANGED <<asked, answers, partial, status, handler, c2s, s2c, lock, prepared,
              clientShut, serverShut, toServer, fromServer, toClient, serverOpen, txn, replying>>
    BY <1>1 DEF ClientHello, ClientSends, proxyVars, serverVars
  <2>2. fromClient' \in Seq(Message) /\ QueryInv'
    BY <2>1, QueryAppend, MessageTypes
  <2>3. TypeOK'
    BY <2>1, <2>2 DEF TypeOK
  <2> QED  BY <2>1, <2>2, <2>3 DEF ThreadInv, HandlerInv, Forwarding, Replies
<1>2. ASSUME NEW q \in Queries, ClientAsks(q) PROVE TypeInv'
  <2>1. q \in Seq(Statement)
    BY QueryTypes
  <2>2. Query(q) \in Message /\ Query(q).query = q
    BY <2>1, MessageTypes
  <2>3. /\ client = "idle" /\ client' = "waiting" /\ fromClient' = Append(fromClient, Query(q))
        /\ asked' = Append(asked, q)
        /\ UNCHANGED <<answers, partial, status, handler, c2s, s2c, lock, prepared, clientShut,
              serverShut, toServer, fromServer, toClient, serverOpen, txn, replying>>
    BY <1>2 DEF ClientAsks, ClientSends, proxyVars, serverVars
  <2>4. asked' \in Seq(Queries)
    BY <2>3 DEF TypeOK
  <2>5. fromClient' \in Seq(Message) /\ QueryInv'
    BY <2>2, <2>3, QueryAppend
  <2>6. TypeOK'
    BY <2>3, <2>4, <2>5 DEF TypeOK
  <2> QED  BY <2>3, <2>5, <2>6 DEF ThreadInv, HandlerInv, Forwarding, Replies
<1>3. CASE ClientReads
  <2>1. /\ toClient \in Seq(Piece) /\ toClient # <<>> /\ Head(toClient) \in Piece
        /\ toClient' \in Seq(Piece)
    BY <1>3 DEF ClientReads, TypeOK
  <2>2. UNCHANGED <<asked, handler, c2s, s2c, lock, prepared, clientShut,
              serverShut, toServer, fromServer, serverOpen, txn, replying>>
    BY <1>3 DEF ClientReads, proxyVars, serverVars
  <2>3. /\ \/ UNCHANGED fromClient
           \/ fromClient' = Append(fromClient, Plain("startup"))
           \/ fromClient' = Append(fromClient, Plain("password"))
        /\ client' \in {"authenticating", "idle", "closed", client}
    BY <1>3 DEF ClientReads, ClientSends
  <2>4. /\ partial' \in Seq(AllResults) /\ status' \in {"I", "T", "E"}
        /\ answers' \in Seq(Seq(AllResults))
    <3>1. /\ Head(toClient).kind = "result" => Head(toClient).result \in Seq(AllResults)
          /\ Head(toClient).kind = "ready" => Head(toClient).status \in {"I", "T", "E"}
      BY <2>1, PieceTypes
    <3>2. /\ partial' \in {partial, Error} \/ (Head(toClient).kind = "result"
                                              /\ partial' = Head(toClient).result)
          /\ status' = status \/ (Head(toClient).kind = "ready"
                                   /\ status' = Head(toClient).status)
          /\ answers' \in {answers, Append(answers, partial)}
      BY <1>3 DEF ClientReads
    <3>3. /\ partial \in Seq(AllResults) /\ Error \in Seq(AllResults)
          /\ answers \in Seq(Seq(AllResults)) /\ status \in {"I", "T", "E"}
      BY ResultTypes DEF TypeOK
    <3>4. partial' \in Seq(AllResults) /\ status' \in {"I", "T", "E"}
      BY <3>1, <3>2, <3>3
    <3>5. Append(answers, partial) \in Seq(Seq(AllResults))
      BY <3>3, AppendProperties
    <3> QED  BY <3>2, <3>3, <3>4, <3>5
  <2>5. fromClient' \in Seq(Message) /\ QueryInv'
    <3>1. CASE UNCHANGED fromClient
      BY <3>1 DEF TypeOK, QueryInv
    <3>2. CASE ~UNCHANGED fromClient
      BY <2>3, <3>2, QueryAppend, MessageTypes
    <3> QED  BY <3>1, <3>2
  <2>6. client' \in {"new", "refusable", "authenticating", "idle", "waiting", "closed"}
    BY <2>3 DEF TypeOK
  <2>7. TypeOK'
    BY <2>1, <2>2, <2>4, <2>5, <2>6 DEF TypeOK
  <2> QED  BY <2>2, <2>5, <2>7 DEF ThreadInv, HandlerInv, Forwarding, Replies
<1>4. CASE ClientReadsEof
  BY <1>4 DEF ClientReadsEof, TypeOK, QueryInv, ThreadInv, HandlerInv, Forwarding, Replies,
     proxyVars, serverVars, streams
<1>5. CASE ClientCloses
  BY <1>5 DEF ClientCloses, TypeOK, QueryInv, ThreadInv, HandlerInv, Forwarding, Replies,
     proxyVars, serverVars
<1> QED  BY <1>1, <1>2, <1>3, <1>4, <1>5

LEMMA TypeHandle ==
  ASSUME TypeInv, Handle
  PROVE  TypeInv'
<1> USE DEF TypeInv
<1>1. CASE ReadStartup
  <2>1. /\ fromClient # <<>> /\ fromClient' = Tail(fromClient)
        /\ handler = "startup" /\ handler' \in {"startup", "connect"}
        /\ UNCHANGED <<client, asked, answers, partial, status, c2s, s2c, lock, prepared,
              clientShut, serverShut, toServer, fromServer, serverOpen, txn, replying>>
    BY <1>1 DEF ReadStartup, clientVars, serverVars
  <2>2. toClient' \in Seq(Piece)
    <3>1. toClient' \in {toClient, Append(toClient, Token("refused"))}
      BY <1>1 DEF ReadStartup
    <3>2. Token("refused") \in Piece
      BY TokenTypes
    <3>3. toClient \in Seq(Piece)
      BY DEF TypeOK
    <3> QED  BY <3>1, <3>2, <3>3
  <2>3. fromClient' \in Seq(Message) /\ QueryInv'
    BY <2>1, QueryTail
  <2>4. TypeOK'
    BY <2>1, <2>2, <2>3 DEF TypeOK
  <2> QED  BY <2>1, <2>3, <2>4 DEF ThreadInv, HandlerInv, Forwarding, Replies
<1>2. CASE HandleFails
  BY <1>2 DEF HandleFails, TypeOK, QueryInv, ThreadInv, HandlerInv, Forwarding, Replies,
     clientVars, serverVars, streams
<1>3. CASE ConnectUpstream
  <2>1. /\ handler' = "pump" /\ toServer' = <<Plain("startup")>> /\ serverOpen' = TRUE
        /\ c2s' = [c2s EXCEPT !.pc = "recv"] /\ s2c' = [s2c EXCEPT !.pc = "recv"]
        /\ handler = "connect"
        /\ UNCHANGED <<client, asked, answers, partial, status, lock, prepared,
              clientShut, serverShut, fromClient, fromServer, toClient, txn, replying>>
    BY <1>3 DEF ConnectUpstream, clientVars
  <2>2. c2s.pc = "off" /\ s2c.pc = "off" /\ c2s.out = <<>> /\ s2c.out = <<>>
    BY <2>1 DEF HandlerInv, ThreadInv
  <2>3. toServer' \in Seq(Message)
    BY <2>1, MessageTypes
  <2>4. c2s' = [pc |-> "recv", out |-> <<>>] /\ s2c' = [pc |-> "recv", out |-> <<>>]
    BY <2>1, <2>2 DEF TypeOK, Thread
  <2> QED  BY <2>1, <2>2, <2>3, <2>4
           DEF TypeOK, Thread, QueryInv, ThreadInv, HandlerInv, Forwarding, Replies
<1>4. CASE JoinThreads
  BY <1>4 DEF JoinThreads, TypeOK, QueryInv, ThreadInv, HandlerInv, Forwarding, Replies,
     clientVars, serverVars, streams
<1> QED  BY <1>1, <1>2, <1>3, <1>4 DEF Handle

\* What client_to_server makes of a query, case by case.
LEMMA InterceptForms ==
  ASSUME TypeOK, NEW q \in Queries, Intercept(q)
  PROVE  \/ /\ parse_pgdump_prepare(q)
            /\ prepared' = [prepared EXCEPT ![q[1].arg] = q[1].body]
            /\ c2s' = [pc |-> "lock", out |-> CommandComplete("T")]
         \/ /\ rewrite_pgdump_execute(q, prepared)
            /\ c2s' = [pc |-> "forward",
                       out |-> <<Query(Inlined(prepared[q[1].arg], q[1].oid))>>]
            /\ UNCHANGED prepared
         \/ /\ Synthetic(q) /\ ~parse_pgdump_prepare(q)
            /\ \E t \in {"I", "T"} : c2s' = [pc |-> "lock", out |-> CommandComplete(t)]
            /\ UNCHANGED prepared
         \/ /\ SET_CONFIG_RE(q)
            /\ c2s' = [pc |-> "forward", out |-> <<Query(Inlined(NullBody, 0))>>]
            /\ UNCHANGED prepared
         \/ /\ ~Synthetic(q) /\ ~SET_CONFIG_RE(q)
            /\ c2s' = [pc |-> "forward", out |-> <<Query(q)>>]
            /\ UNCHANGED prepared
BY DEF Intercept, Forwards, Synthesizes, Synthetic

LEMMA InterceptTypes ==
  ASSUME TypeOK, NEW q \in Queries, Intercept(q)
  PROVE  /\ prepared' \in [Names -> Bodies \cup {NoBody}]
         /\ \/ \E g \in Seq(Statement) : c2s' = [pc |-> "forward", out |-> <<Query(g)>>]
            \/ \E t \in {"I", "T"} : c2s' = [pc |-> "lock", out |-> CommandComplete(t)]
<1>1. /\ q \in Seq(Statement) /\ q[1] \in Statement /\ q[1].oid \in Nat
      /\ q[1].verb \in {"prepare", "execute"} =>
           q[1].arg \in Names /\ (q[1].known => q[1].body \in Bodies)
  BY QueryTypes DEF Statement
<1>2. prepared \in [Names -> Bodies \cup {NoBody}]
  BY DEF TypeOK
<1>3. CASE /\ parse_pgdump_prepare(q)
           /\ prepared' = [prepared EXCEPT ![q[1].arg] = q[1].body]
           /\ c2s' = [pc |-> "lock", out |-> CommandComplete("T")]
  BY <1>1, <1>2, <1>3 DEF parse_pgdump_prepare
<1>4. CASE /\ rewrite_pgdump_execute(q, prepared)
           /\ c2s' = [pc |-> "forward",
                      out |-> <<Query(Inlined(prepared[q[1].arg], q[1].oid))>>]
           /\ UNCHANGED prepared
  <2>1. prepared[q[1].arg] \in Bodies \cup {NoBody}
    BY <1>1, <1>2, <1>4 DEF rewrite_pgdump_execute
  <2>2. Inlined(prepared[q[1].arg], q[1].oid) \in Seq(Statement)
    BY <1>1, <2>1, InlinedTypes
  <2> QED  BY <1>2, <1>4, <2>2
<1>5. CASE /\ Synthetic(q)
           /\ \E t \in {"I", "T"} : c2s' = [pc |-> "lock", out |-> CommandComplete(t)]
           /\ UNCHANGED prepared
  BY <1>2, <1>5
<1>6. CASE /\ c2s' = [pc |-> "forward", out |-> <<Query(Inlined(NullBody, 0))>>]
           /\ UNCHANGED prepared
  BY <1>2, <1>6, InlinedTypes
<1>7. CASE /\ c2s' = [pc |-> "forward", out |-> <<Query(q)>>]
           /\ UNCHANGED prepared
  BY <1>1, <1>2, <1>7
<1> QED  BY <1>3, <1>4, <1>5, <1>6, <1>7, InterceptForms

\* The next piece of a reply goes to the client; after the last the lock is free.
LEMMA PieceStep ==
  ASSUME TypeOK, NEW s, NEW t, s.out \in Seq(Piece), s.out # <<>>, s.pc = "send",
         s = [pc |-> s.pc, out |-> s.out], NextPiece(s, t)
  PROVE  /\ toClient' \in Seq(Piece)
         /\ \/ client = "closed" /\ toClient' = toClient
            \/ client # "closed" /\ toClient' = Append(toClient, Head(s.out))
         /\ Tail(s.out) \in Seq(Piece) /\ Head(s.out) \in Piece
         /\ \/ /\ Tail(s.out) # <<>> /\ t = [pc |-> "send", out |-> Tail(s.out)]
               /\ lock' = lock
            \/ /\ Tail(s.out) = <<>> /\ t = [pc |-> "recv", out |-> <<>>] /\ lock' = "free"
<1>1. /\ Head(s.out) \in Piece /\ Tail(s.out) \in Seq(Piece) /\ Len(s.out) \in Nat
      /\ Len(s.out) > 1 <=> Tail(s.out) # <<>>
  <2>1. /\ Head(s.out) \in Piece /\ Tail(s.out) \in Seq(Piece) /\ Len(s.out) \in Nat
        /\ Len(Tail(s.out)) = Len(s.out) - 1 /\ Len(s.out) # 0
    BY HeadTailProperties, LenProperties, EmptySeq
  <2>2. Tail(s.out) # <<>> <=> Len(Tail(s.out)) # 0
    BY <2>1, EmptySeq
  <2>3. \A n \in Nat : n # 0 => (n > 1 <=> n - 1 # 0)
    OBVIOUS
  <2>4. Len(s.out) > 1 <=> Len(Tail(s.out)) # 0
    BY <2>1, <2>3
  <2> QED  BY <2>1, <2>2, <2>4
<1>2. toClient \in Seq(Piece) /\ Append(toClient, Head(s.out)) \in Seq(Piece)
  BY <1>1, AppendProperties DEF TypeOK
<1>3. [s EXCEPT !.out = Tail(s.out)] = [pc |-> "send", out |-> Tail(s.out)]
  OBVIOUS
<1> QED  BY <1>1, <1>2, <1>3 DEF NextPiece, Deliver

LEMMA TypeClientToServer ==
  ASSUME TypeInv, ClientToServer
  PROVE  TypeInv'
<1> USE DEF TypeInv
<1>1. c2s = [pc |-> c2s.pc, out |-> c2s.out]
      /\ c2s.pc \in {"off", "recv", "forward", "lock", "send", "done"}
  BY DEF TypeOK, Thread
<1>2. CASE C2sRecv
  <2>1. /\ fromClient # <<>> /\ fromClient' = Tail(fromClient) /\ c2s.pc = "recv"
        /\ UNCHANGED <<client, asked, answers, partial, status, handler, s2c, lock, clientShut,
              serverShut, toServer, fromServer, toClient, serverOpen, txn, replying>>
    BY <1>2 DEF C2sRecv, clientVars, serverVars
  <2>2. /\ fromClient' \in Seq(Message) /\ QueryInv'
        /\ Head(fromClient) \in Message
        /\ Head(fromClient).type = "Q" => Head(fromClient).query \in Queries
    BY <2>1, QueryTail
  <2>3. prepared \in [Names -> Bodies \cup {NoBody}]
    BY DEF TypeOK
  <2>4. /\ prepared' \in [Names -> Bodies \cup {NoBody}]
        /\ \/ \E m \in Message : c2s' = [pc |-> "forward", out |-> <<m>>]
           \/ \E t \in {"I", "T"} : c2s' = [pc |-> "lock", out |-> CommandComplete(t)]
    <3>1. CASE Head(fromClient).type = "Q"
      <4>1. Intercept(Head(fromClient).query) /\ Head(fromClient).query \in Queries
        BY <1>2, <2>2, <3>1 DEF C2sRecv
      <4> QED  BY <4>1, InterceptTypes, MessageTypes
    <3>2. CASE Head(fromClient).type # "Q"
      BY <1>2, <2>2, <2>3, <3>2 DEF C2sRecv
    <3> QED  BY <3>1, <3>2
  <2>5. /\ c2s'.pc \in {"forward", "lock"} /\ c2s' \in Thread(Message \cup Piece)
        /\ c2s'.pc = "forward" => c2s'.out \in Seq(Message) /\ Len(c2s'.out) = 1
        /\ c2s'.pc = "lock" => c2s'.out \in Seq(Piece) /\ c2s'.out # <<>>
    <3>1. ASSUME NEW m \in Message PROVE <<m>> \in Seq(Message \cup Piece) /\ <<m>> \in Seq(Message)
      OBVIOUS
    <3>2. ASSUME NEW t \in {"I", "T"}
          PROVE  /\ CommandComplete(t) \in Seq(Message \cup Piece)
                 /\ CommandComplete(t) \in Seq(Piece) /\ CommandComplete(t) # <<>>
      <4>1. CommandComplete(t) \in Seq(Piece) /\ Piece \subseteq Message \cup Piece
        BY CompletionTypes
      <4> QED  BY <4>1, CompletionTypes, SeqMonotonic
    <3>3. CASE \E m \in Message : c2s' = [pc |-> "forward", out |-> <<m>>]
      BY <3>1, <3>3 DEF Thread
    <3>4. CASE \E t \in {"I", "T"} : c2s' = [pc |-> "lock", out |-> CommandComplete(t)]
      BY <3>2, <3>4 DEF Thread
    <3> QED  BY <2>4, <3>3, <3>4
  <2>6. TypeOK'
    BY <2>1, <2>2, <2>4, <2>5 DEF TypeOK
  <2>7. ThreadInv'
    BY <2>1, <2>5 DEF ThreadInv, Forwarding, Replies
  <2>8. HandlerInv'
    BY <2>1 DEF HandlerInv
  <2> QED  BY <2>2, <2>6, <2>7, <2>8
<1>3. CASE C2sEof \/ C2sForwardFails \/ C2sSendFails
  <2>1. /\ c2s' = [pc |-> "done", out |-> <<>>] /\ serverShut' = TRUE /\ c2s.pc # "off"
        /\ \/ c2s.pc # "send" /\ lock' = lock
           \/ c2s.pc = "send" /\ lock' = "free"
        /\ UNCHANGED <<client, asked, answers, partial, status, handler, s2c, prepared, clientShut,
              fromClient, toServer, fromServer, toClient, serverOpen, txn, replying>>
    BY <1>3 DEF C2sEof, C2sForwardFails, C2sSendFails, C2sEnds, clientVars, serverVars, streams
  <2>2. c2s' \in Thread(Message \cup Piece) /\ c2s'.pc = "done" /\ c2s'.out = <<>>
    BY <2>1 DEF Thread
  <2>3. TypeOK'
    BY <2>1, <2>2 DEF TypeOK
  <2> QED  BY <2>1, <2>2, <2>3 DEF QueryInv, ThreadInv, HandlerInv, Forwarding, Replies
<1>4. CASE C2sForward
  <2>1. /\ c2s' = [pc |-> "recv", out |-> <<>>] /\ c2s.pc = "forward"
        /\ toServer' = toServer \/ toServer' = toServer \o c2s.out
        /\ UNCHANGED <<client, asked, answers, partial, status, handler, s2c, lock, prepared,
              clientShut, serverShut, fromClient, fromServer, toClient, serverOpen, txn, replying>>
    BY <1>4 DEF C2sForward, clientVars, serverVars
  <2>2. c2s' \in Thread(Message \cup Piece) /\ c2s'.pc = "recv" /\ c2s'.out = <<>>
    BY <2>1 DEF Thread
  <2>3. toServer' \in Seq(Message)
    <3>1. toServer \in Seq(Message) /\ c2s.out \in Seq(Message)
      BY <2>1 DEF TypeOK, ThreadInv, Forwarding
    <3> QED  BY <2>1, <3>1, ConcatProperties
  <2>4. TypeOK'
    BY <2>1, <2>2, <2>3 DEF TypeOK
  <2> QED  BY <2>1, <2>2, <2>4 DEF QueryInv, ThreadInv, HandlerInv, Forwarding, Replies
<1>5. CASE C2sLocks
  <2>1. /\ c2s.pc = "lock" /\ lock = "free" /\ lock' = "c2s"
        /\ c2s' = [pc |-> "send", out |-> c2s.out]
        /\ UNCHANGED <<client, asked, answers, partial, status, handler, s2c, prepared,
              clientShut, serverShut, fromClient, toServer, fromServer, toClient, serverOpen, txn,
              replying>>
    BY <1>1, <1>5 DEF C2sLocks, clientVars, serverVars, streams
  <2>2. c2s' \in Thread(Message \cup Piece) /\ c2s'.pc = "send" /\ c2s'.out = c2s.out
    BY <2>1 DEF Thread, TypeOK
  <2>3. TypeOK'
    BY <2>1, <2>2 DEF TypeOK
  <2> QED  BY <2>1, <2>2, <2>3 DEF QueryInv, ThreadInv, HandlerInv, Forwarding, Replies
<1>6. CASE C2sSends
  <2>1. /\ c2s.pc = "send" /\ NextPiece(c2s, c2s')
        /\ UNCHANGED <<client, asked, answers, partial, status, handler, s2c, prepared,
              clientShut, serverShut, fromClient, toServer, fromServer, serverOpen, txn, replying>>
    BY <1>6 DEF C2sSends, clientVars, serverVars
  <2>2. c2s.out \in Seq(Piece) /\ c2s.out # <<>>
    BY <2>1 DEF ThreadInv, Replies
  <2>3. /\ toClient' \in Seq(Piece) /\ Tail(c2s.out) \in Seq(Piece)
        /\ \/ /\ Tail(c2s.out) # <<>> /\ c2s' = [pc |-> "send", out |-> Tail(c2s.out)]
              /\ lock' = lock
           \/ c2s' = [pc |-> "recv", out |-> <<>>] /\ lock' = "free"
    BY <1>1, <2>1, <2>2, PieceStep
  <2>5. Tail(c2s.out) \in Seq(Message \cup Piece)
    BY <2>3, SeqMonotonic
  <2>6. c2s' \in Thread(Message \cup Piece) /\ c2s'.pc \in {"send", "recv"}
    <3>1. CASE c2s' = [pc |-> "send", out |-> Tail(c2s.out)]
      BY <2>5, <3>1 DEF Thread
    <3>2. CASE c2s' = [pc |-> "recv", out |-> <<>>]
      BY <3>2 DEF Thread
    <3> QED  BY <2>3, <3>1, <3>2
  <2>7. TypeOK'
    <3>1. /\ lock' \in {"free", "c2s", "s2c"}
          /\ (lock' = "c2s") <=> (c2s'.pc = "send")
          /\ (lock' = "s2c") <=> (s2c.pc = "send")
      BY <2>1, <2>3 DEF TypeOK
    <3> QED  BY <2>1, <2>3, <2>6, <3>1 DEF TypeOK
  <2>8. ThreadInv'
    <3>1. s2c' = s2c
      BY <2>1
    <3>2. CASE Tail(c2s.out) # <<>> /\ c2s' = [pc |-> "send", out |-> Tail(c2s.out)]
      BY <2>3, <3>1, <3>2 DEF ThreadInv, Forwarding, Replies
    <3>3. CASE c2s' = [pc |-> "recv", out |-> <<>>]
      BY <3>1, <3>3 DEF ThreadInv, Forwarding, Replies
    <3> QED  BY <2>3, <3>2, <3>3
  <2> QED  BY <2>1, <2>6, <2>7, <2>8 DEF QueryInv, HandlerInv
<1> QED  BY <1>2, <1>3, <1>4, <1>5, <1>6 DEF ClientToServer

LEMMA TypeServerToClient ==
  ASSUME TypeInv, ServerToClient
  PROVE  TypeInv'
<1> USE DEF TypeInv
<1>1. s2c = [pc |-> s2c.pc, out |-> s2c.out] /\ s2c.out \in Seq(Piece)
      /\ s2c.pc \in {"off", "recv", "forward", "lock", "send", "done"}
  BY DEF TypeOK, Thread
<1>2. CASE S2cRecv
  <2>1. /\ s2c.pc = "recv" /\ fromServer # <<>> /\ fromServer \in Seq(Piece)
        /\ UNCHANGED <<client, asked, answers, partial, status, handler, c2s, lock, prepared,
              clientShut, serverShut, fromClient, toServer, toClient, serverOpen, txn, replying>>
    BY <1>2 DEF S2cRecv, clientVars, serverVars, TypeOK
  <2>2. PICK n \in 1..Len(fromServer) :
          /\ s2c' = [pc |-> "lock", out |-> IF serverShut THEN <<Token("junk")>>
                                           ELSE SubSeq(fromServer, 1, n)]
          /\ fromServer' = SubSeq(fromServer, n + 1, Len(fromServer))
    BY <1>2 DEF S2cRecv
  <2>3. /\ SubSeq(fromServer, 1, n) \in Seq(Piece) /\ Len(SubSeq(fromServer, 1, n)) = n
        /\ fromServer' \in Seq(Piece)
    <3>1. /\ Len(fromServer) \in Nat /\ n \in Int /\ n + 1 \in Int /\ Len(fromServer) \in Int
          /\ \A j \in 1..Len(fromServer) : fromServer[j] \in Piece
      BY <2>1, ElementOfSeq, LenProperties
    <3>2. /\ \A j \in 1..n : fromServer[j] \in Piece
          /\ \A j \in (n + 1)..Len(fromServer) : fromServer[j] \in Piece
      BY <3>1
    <3>3. SubSeq(fromServer, 1, n) \in Seq(Piece) /\ Len(SubSeq(fromServer, 1, n)) = n
      BY <3>1, <3>2, SubSeqProperties
    <3>4. SubSeq(fromServer, n + 1, Len(fromServer)) \in Seq(Piece)
      BY <3>1, <3>2, SubSeqProperties
    <3> QED  BY <2>2, <3>3, <3>4
  <2>4. s2c' \in Thread(Piece) /\ s2c'.pc = "lock" /\ s2c'.out # <<>>
    <3>1. <<Token("junk")>> \in Seq(Piece) /\ <<Token("junk")>> # <<>>
      BY TokenTypes
    <3>2. SubSeq(fromServer, 1, n) # <<>>
      BY <2>3
    <3> QED  BY <2>2, <2>3, <3>1, <3>2 DEF Thread
  <2>5. handler \notin {"startup", "connect"}
    BY <2>1 DEF HandlerInv
  <2>6. TypeOK'
    BY <2>1, <2>3, <2>4 DEF TypeOK
  <2> QED  BY <2>1, <2>4, <2>5, <2>6 DEF QueryInv, ThreadInv, HandlerInv, Forwarding, Replies
<1>3. CASE S2cEof \/ S2cSendFails
  <2>1. /\ s2c' = [pc |-> "done", out |-> <<>>] /\ clientShut' = TRUE /\ s2c.pc # "off"
        /\ \/ s2c.pc # "send" /\ lock' = lock
           \/ s2c.pc = "send" /\ lock' = "free"
        /\ UNCHANGED <<client, asked, answers, partial, status, handler, c2s, prepared, serverShut,
              fromClient, toServer, fromServer, toClient, serverOpen, txn, replying>>
    BY <1>3 DEF S2cEof, S2cSendFails, S2cEnds, clientVars, serverVars, streams
  <2>2. s2c' \in Thread(Piece) /\ s2c'.pc = "done" /\ s2c'.out = <<>>
    BY <2>1 DEF Thread
  <2>3. TypeOK'
    BY <2>1, <2>2 DEF TypeOK
  <2> QED  BY <2>1, <2>2, <2>3 DEF QueryInv, ThreadInv, HandlerInv, Forwarding, Replies
<1>4. CASE S2cLocks
  <2>1. /\ s2c.pc = "lock" /\ lock = "free" /\ lock' = "s2c"
        /\ s2c' = [pc |-> "send", out |-> s2c.out]
        /\ UNCHANGED <<client, asked, answers, partial, status, handler, c2s, prepared,
              clientShut, serverShut, fromClient, toServer, fromServer, toClient, serverOpen, txn,
              replying>>
    BY <1>1, <1>4 DEF S2cLocks, clientVars, serverVars, streams
  <2>2. s2c' \in Thread(Piece) /\ s2c'.pc = "send" /\ s2c'.out = s2c.out
    BY <1>1, <2>1 DEF Thread
  <2>3. TypeOK'
    BY <2>1, <2>2 DEF TypeOK
  <2> QED  BY <2>1, <2>2, <2>3 DEF QueryInv, ThreadInv, HandlerInv, Forwarding, Replies
<1>5. CASE S2cSends
  <2>1. /\ s2c.pc = "send" /\ NextPiece(s2c, s2c')
        /\ UNCHANGED <<client, asked, answers, partial, status, handler, c2s, prepared,
              clientShut, serverShut, fromClient, toServer, fromServer, serverOpen, txn, replying>>
    BY <1>5 DEF S2cSends, clientVars, serverVars
  <2>2. s2c.out # <<>>
    BY <2>1 DEF ThreadInv
  <2>3. /\ toClient' \in Seq(Piece) /\ Tail(s2c.out) \in Seq(Piece)
        /\ \/ /\ Tail(s2c.out) # <<>> /\ s2c' = [pc |-> "send", out |-> Tail(s2c.out)]
              /\ lock' = lock
           \/ s2c' = [pc |-> "recv", out |-> <<>>] /\ lock' = "free"
    BY <1>1, <2>1, <2>2, PieceStep
  <2>4. /\ s2c' \in Thread(Piece) /\ s2c'.pc \in {"send", "recv"}
        /\ s2c'.pc = "recv" => s2c'.out = <<>>
        /\ s2c'.pc = "send" => s2c'.out # <<>>
    <3>1. CASE Tail(s2c.out) # <<>> /\ s2c' = [pc |-> "send", out |-> Tail(s2c.out)]
      BY <2>3, <3>1 DEF Thread
    <3>2. CASE s2c' = [pc |-> "recv", out |-> <<>>]
      BY <3>2 DEF Thread
    <3> QED  BY <2>3, <3>1, <3>2
  <2>5. TypeOK'
    <3>1. /\ lock' \in {"free", "c2s", "s2c"}
          /\ (lock' = "c2s") <=> (c2s.pc = "send")
          /\ (lock' = "s2c") <=> (s2c'.pc = "send")
      BY <2>1, <2>3 DEF TypeOK
    <3> QED  BY <2>1, <2>3, <2>4, <3>1 DEF TypeOK
  <2> QED  BY <2>1, <2>4, <2>5 DEF QueryInv, ThreadInv, HandlerInv, Forwarding, Replies
<1> QED  BY <1>2, <1>3, <1>4, <1>5 DEF ServerToClient

LEMMA TypeServer ==
  ASSUME TypeInv, Server \/ ServerDrops
  PROVE  TypeInv'
<1> USE DEF TypeInv
<1>1. /\ UNCHANGED <<client, asked, answers, partial, status, handler, c2s, s2c, lock, prepared,
            clientShut, serverShut, fromClient, toClient>>
      /\ serverOpen
  BY DEF Server, ServerTakes, ServerSends, ServerDrops, clientVars, proxyVars
<1>2. handler \notin {"startup", "connect"}
  BY <1>1 DEF HandlerInv
<1>3. /\ toServer' \in Seq(Message) /\ fromServer' \in Seq(Piece) /\ replying' \in Seq(Piece)
      /\ serverOpen' \in BOOLEAN /\ txn' \in {"I", "T", "E"}
  <2>1. /\ toServer \in Seq(Message) /\ fromServer \in Seq(Piece) /\ replying \in Seq(Piece)
        /\ serverOpen \in BOOLEAN /\ txn \in {"I", "T", "E"}
    BY DEF TypeOK
  <2>2. CASE ServerTakes
    <3>1. Head(toServer) \in Message /\ toServer' \in Seq(Message)
      BY <2>1, <2>2, HeadTailProperties DEF ServerTakes
    <3>2. replying' \in Seq(Piece) /\ txn' \in {"I", "T", "E"}
      <4>1. CASE replying' = <<Token("auth")>> /\ UNCHANGED txn
        BY <2>1, <4>1, TokenTypes
      <4>2. CASE replying' = <<ReadyForQuery("I")>> /\ UNCHANGED txn
        BY <2>1, <4>2, ReadyTypes
      <4>3. CASE Head(toServer).type = "Q" /\ Runs(Head(toServer).query)
        BY <3>1, <4>3, MessageTypes, RunTypes
      <4> QED  BY <2>2, <4>1, <4>2, <4>3 DEF ServerTakes
    <3> QED  BY <2>1, <2>2, <3>1, <3>2 DEF ServerTakes
  <2>3. CASE ServerSends
    <3>1. Head(replying) \in Piece /\ replying' \in Seq(Piece)
      BY <2>1, <2>3, HeadTailProperties DEF ServerSends
    <3> QED  BY <2>1, <2>3, <3>1, AppendProperties DEF ServerSends
  <2>4. CASE ServerDrops
    <3>1. Append(fromServer, Token("fatal")) \in Seq(Piece)
      BY <2>1, TokenTypes, AppendProperties
    <3>2. /\ serverOpen' = FALSE /\ replying' = <<>> /\ toServer' = <<>> /\ txn' = txn
          /\ fromServer' \in {fromServer, Append(fromServer, Token("fatal"))}
      BY <2>4 DEF ServerDrops
    <3>3. <<>> \in Seq(Piece) /\ <<>> \in Seq(Message)
      OBVIOUS
    <3> QED  BY <2>1, <3>1, <3>2, <3>3
  <2> QED  BY <2>2, <2>3, <2>4 DEF Server
<1>4. TypeOK'
  BY <1>1, <1>3 DEF TypeOK
<1> QED  BY <1>1, <1>2, <1>4 DEF QueryInv, ThreadInv, HandlerInv, Forwarding, Replies

LEMMA TypeStep ==
  ASSUME TypeInv, [Next]_vars
  PROVE  TypeInv'
<1>1. CASE UNCHANGED vars
  <2>1. UNCHANGED <<client, asked, answers, partial, status, handler, c2s, s2c, lock, prepared,
          clientShut, serverShut, fromClient, toServer, fromServer, toClient, serverOpen, txn,
          replying>>
    BY <1>1 DEF vars, clientVars, proxyVars, streams, serverVars
  <2>2. TypeOK'
    BY <2>1 DEF TypeInv, TypeOK
  <2> QED
    BY <2>1, <2>2 DEF TypeInv, QueryInv, ThreadInv, HandlerInv, Forwarding, Replies
<1>2. CASE Next
  BY <1>2, TypeClient, TypeHandle, TypeClientToServer, TypeServerToClient, TypeServer DEF Next
<1> QED  BY <1>1, <1>2

LEMMA TypeInit ==
  ASSUME Init
  PROVE  TypeInv
<1>1. QueryInv /\ ThreadInv /\ HandlerInv
  BY DEF Init, QueryInv, ThreadInv, HandlerInv, Forwarding, Replies
<1>2. c2s \in Thread(Message \cup Piece) /\ s2c \in Thread(Piece)
  BY DEF Init, Thread
<1>3. partial \in Seq(AllResults)
  BY ResultTypes DEF Init
<1>4. prepared \in [Names -> Bodies \cup {NoBody}]
  BY DEF Init
<1>5. /\ asked \in Seq(Queries) /\ answers \in Seq(Seq(AllResults))
      /\ fromClient \in Seq(Message) /\ toServer \in Seq(Message)
      /\ fromServer \in Seq(Piece) /\ toClient \in Seq(Piece) /\ replying \in Seq(Piece)
  BY DEF Init
<1>6. /\ client = "new" /\ status = "I" /\ handler = "startup" /\ lock = "free"
      /\ c2s.pc = "off" /\ s2c.pc = "off" /\ txn = "I"
      /\ clientShut = FALSE /\ serverShut = FALSE /\ serverOpen = FALSE
  BY DEF Init
<1>7. TypeOK
  BY <1>2, <1>3, <1>4, <1>5, <1>6 DEF TypeOK
<1> QED  BY <1>1, <1>7 DEF TypeInv

\* Every variable keeps its type, and client_lock is held by the one thread that
\* sends, whatever is asked, dropped or closed.
THEOREM TypeCorrect == Spec => []TypeOK
<1>1. Init => TypeInv
  BY TypeInit
<1>2. TypeInv /\ [Next]_vars => TypeInv'
  BY TypeStep
<1>3. TypeInv => TypeOK
  BY DEF TypeInv
<1> QED  BY <1>1, <1>2, <1>3, PTL DEF Spec

------------------------------------------------------------------------------
(* The refinement of Dialogue.                                             *)
(*                                                                         *)
(* At most one message of the client's is under way.  What is under way to *)
(* the client, from the streams and the two threads, begins with what is   *)
(* left of its one answer, up to where the connection is lost.             *)

Coming == fromClient # <<>>
Sent == toServer # <<>>

\* A client that reads one of these reads no more.
Dead(p) == p.kind \in {"fatal", "junk"}
Broken(f) == \E i \in DOMAIN f : Dead(f[i])

\* What is read of f, up to where the connection is lost, is what e begins with.
Fits(f, e) == \A i \in DOMAIN f :
                (\A j \in 1..i : ~Dead(f[j])) => i \in DOMAIN e /\ f[i] = e[i]

\* What the client has yet to read: what has reached it, what the proxy is about to
\* write itself, and what comes from DSQL.
Pending == IF Replies THEN c2s.out ELSE <<>>
Rest == s2c.out \o (fromServer \o replying)
Flow == (toClient \o Pending) \o Rest

\* What it may be owed.
Statuses == {"I", "T", "E"}
Mine == Allowed(asked, Len(asked))
Owed(e) ==
  \/ e = <<>>
  \/ client = "refusable" /\ e = <<Token("refused")>>
  \/ client = "authenticating" /\ e \in {<<Token("auth")>>, <<ReadyForQuery("I")>>}
  \/ /\ client = "waiting"
     /\ \E t \in Statuses :
          \/ \E a \in Mine : e = <<ResultPiece(a), ReadyForQuery(t)>>
          \/ partial \in Mine /\ e = <<ReadyForQuery(t)>>

\* A query that DSQL may run for the client's: what it returns is allowed.
Serves(q) == /\ Error \in Mine
             /\ (\A i \in DOMAIN q : Accepts(q[i])) => Results(q) \in Mine
ForServer(m) == \/ client = "authenticating" /\ m.type # "Q"
                \/ client = "waiting" /\ m.type = "Q" /\ Serves(m.query)

\* One message is under way, and none before the client has read what it is owed.
MessageInv ==
  /\ Len(fromClient) <= 1 /\ Len(toServer) <= 1
  /\ Coming => ~Forwarding /\ ~Sent /\ ~Replies /\ handler # "connect"
  /\ Forwarding => ~Sent /\ ForServer(c2s.out[1])
  /\ Sent => ForServer(toServer[1])
  /\ Replies => ~Sent /\ client = "waiting"
  /\ client \in {"new", "idle"} => ~Coming /\ ~Forwarding /\ ~Sent
  /\ client = "refusable" /\ Coming => fromClient[1].type = "encrypt"
  /\ client = "authenticating" /\ Coming => fromClient[1].type \in {"startup", "password"}
  /\ client = "waiting" /\ Coming => fromClient[1] = Query(asked[Len(asked)])
  /\ handler \in {"startup", "connect"} => client \notin {"idle", "waiting"}
  /\ handler = "startup" /\ client = "authenticating" => Coming
  /\ handler = "connect" => client = "authenticating"
  /\ client \in {"new", "refusable"} => handler = "startup"

\* While the proxy answers itself, nothing from DSQL is read, and the client has not
\* read the end of the answer.
Synthesized ==
  \E t \in Statuses :
    \/ c2s.out = CommandComplete(t) /\ Fits(toClient, <<>>)
    \/ c2s.out = <<ReadyForQuery(t)>> /\ Fits(toClient, <<ResultPiece(Done)>>)
Alone == (Broken(toClient) \/ Fits(Rest, <<>>)) /\ Synthesized

UnderWay == Coming \/ Forwarding \/ Sent \/ handler = "connect"
FlowInv ==
  /\ \E e \in Seq(Piece) : Owed(e) /\ Fits(Flow, e) /\ (UnderWay => e = <<>>)
  /\ Replies => Alone

\* What prepared_queries retains: the last PREPARE of each name among the first k.
Prepares(q, m) == parse_pgdump_prepare(q) /\ q[1].arg = m
Retains(h, k, m, b) ==
  \/ b = NoBody /\ \A i \in 1..k : ~Prepares(h[i], m)
  \/ \E i \in 1..k : /\ Prepares(h[i], m) /\ h[i][1].body = b
                     /\ \A j \in 1..k : Prepares(h[j], m) => j <= i
Looked == IF client = "waiting" /\ Coming THEN Len(asked) - 1 ELSE Len(asked)
PreparedInv ==
  c2s.pc # "done" => \A m \in Names : Retains(asked, Looked, m, prepared[m])

CountInv == Len(asked) = Len(answers) + (IF client = "waiting" THEN 1 ELSE 0)

OpenInv == MessageInv /\ FlowInv /\ PreparedInv /\ CountInv
IInv == TypeInv /\ (client # "closed" => OpenInv)

------------------------------------------------------------------------------
(* Sequences of pieces.                                                    *)

LEMMA ConcatIndex ==
  ASSUME NEW S, NEW a \in Seq(S), NEW b \in Seq(S)
  PROVE  /\ a \o b \in Seq(S) /\ Len(a) \in Nat /\ Len(b) \in Nat
         /\ DOMAIN a = 1..Len(a) /\ DOMAIN b = 1..Len(b)
         /\ DOMAIN (a \o b) = 1..(Len(a) + Len(b))
         /\ \A i \in DOMAIN a : i \in DOMAIN (a \o b) /\ (a \o b)[i] = a[i]
         /\ \A i \in DOMAIN b : Len(a) + i \in DOMAIN (a \o b) /\ (a \o b)[Len(a) + i] = b[i]
         /\ \A i \in DOMAIN (a \o b) :
              i \in DOMAIN a \/ \E j \in DOMAIN b : i = Len(a) + j
<1>1. /\ a \o b \in Seq(S) /\ Len(a) \in Nat /\ Len(b) \in Nat
      /\ DOMAIN a = 1..Len(a) /\ DOMAIN b = 1..Len(b)
      /\ DOMAIN (a \o b) = 1..(Len(a) + Len(b))
      /\ \A i \in 1..Len(a) + Len(b) :
           (a \o b)[i] = IF i <= Len(a) THEN a[i] ELSE b[i - Len(a)]
  BY ConcatProperties, LenProperties
<1>2. ASSUME NEW i \in DOMAIN (a \o b), i \notin DOMAIN a
      PROVE  \E j \in DOMAIN b : i = Len(a) + j
  <2>1. i - Len(a) \in DOMAIN b /\ i = Len(a) + (i - Len(a))
    BY <1>1, <1>2
  <2> QED  BY <2>1
<1>3. ASSUME NEW i \in DOMAIN b
      PROVE  Len(a) + i \in DOMAIN (a \o b) /\ (a \o b)[Len(a) + i] = b[i]
  <2>1. i \in Int /\ i >= 1 /\ i <= Len(b)
    BY <1>1
  <2>2. Len(a) + i \in 1..(Len(a) + Len(b)) /\ ~(Len(a) + i <= Len(a)) /\ (Len(a) + i) - Len(a) = i
    BY <1>1, <2>1
  <2> QED  BY <1>1, <2>2
<1>4. ASSUME NEW i \in DOMAIN a
      PROVE  i \in DOMAIN (a \o b) /\ (a \o b)[i] = a[i]
  BY <1>1, <1>4
<1> QED  BY <1>1, <1>2, <1>3, <1>4

LEMMA ConcatPieces ==
  \A a, b, c \in Seq(Piece) : a \o (b \o c) = (a \o b) \o c
BY ConcatAssociative, SMTT(30)

LEMMA FitsPrefix ==
  ASSUME NEW a \in Seq(Piece), NEW b \in Seq(Piece), NEW e, Fits(a \o b, e)
  PROVE  Fits(a, e)
<1>1. \A i \in DOMAIN a : i \in DOMAIN (a \o b) /\ (a \o b)[i] = a[i]
  BY ConcatIndex
<1>2. DOMAIN a = 1..Len(a) /\ Len(a) \in Nat
  BY ConcatIndex
<1> SUFFICES ASSUME NEW i \in DOMAIN a, \A j \in 1..i : ~Dead(a[j])
    PROVE  i \in DOMAIN e /\ a[i] = e[i]
  BY DEF Fits
<1>3. \A j \in 1..i : ~Dead((a \o b)[j])
  BY <1>1, <1>2
<1> QED  BY <1>1, <1>3 DEF Fits

LEMMA EmptyFits ==
  ASSUME NEW f \in Seq(Piece)
  PROVE  Fits(f, <<>>) <=> f = <<>> \/ Dead(f[1])
<1>1. DOMAIN f = 1..Len(f) /\ Len(f) \in Nat /\ (f = <<>> <=> Len(f) = 0)
  BY LenProperties, EmptySeq
<1>2. ASSUME Fits(f, <<>>), f # <<>> PROVE Dead(f[1])
  <2>1. 1 \in DOMAIN f /\ 1..1 = {1} /\ 1 \notin DOMAIN <<>>
    BY <1>1, <1>2
  <2> QED  BY <1>2, <2>1 DEF Fits
<1>3. ASSUME Dead(f[1]) PROVE Fits(f, <<>>)
  <2>1. \A i \in DOMAIN f : 1 \in 1..i
    BY <1>1
  <2> QED  BY <1>3, <2>1 DEF Fits
<1>4. ASSUME f = <<>> PROVE Fits(f, <<>>)
  BY <1>1, <1>4 DEF Fits
<1> QED  BY <1>2, <1>3, <1>4

LEMMA EmptyBound ==
  ASSUME NEW f \in Seq(Piece), NEW e, Fits(f, <<>>)
  PROVE  Fits(f, e)
<1>1. DOMAIN <<>> = {}
  OBVIOUS
<1> QED  BY <1>1 DEF Fits

LEMMA BrokenFits ==
  ASSUME NEW a \in Seq(Piece), NEW b \in Seq(Piece), NEW e, Fits(a, e),
         Broken(a) \/ Fits(b, <<>>)
  PROVE  Fits(a \o b, e)
<1> DEFINE f == a \o b
<1>1. /\ DOMAIN a = 1..Len(a) /\ Len(a) \in Nat /\ DOMAIN b = 1..Len(b) /\ Len(b) \in Nat
      /\ DOMAIN f = 1..(Len(a) + Len(b))
      /\ \A i \in DOMAIN a : f[i] = a[i]
      /\ \A i \in DOMAIN b : f[Len(a) + i] = b[i]
  BY ConcatIndex
<1> SUFFICES ASSUME NEW i \in DOMAIN f, \A j \in 1..i : ~Dead(f[j])
    PROVE  i \in DOMAIN e /\ f[i] = e[i]
  BY DEF Fits
<1> HIDE DEF f
<1>2. CASE i \in DOMAIN a
  <2>1. \A j \in 1..i : ~Dead(a[j])
    BY <1>1, <1>2
  <2> QED  BY <1>1, <1>2, <2>1 DEF Fits
<1>3. CASE i \notin DOMAIN a
  <2>1. i > Len(a) /\ Len(b) # 0 /\ Len(a) + 1 \in 1..i /\ 1 \in DOMAIN b
    BY <1>1, <1>3
  <2>2. ~Broken(a)
    <3>1. \A j \in DOMAIN a : j \in 1..i
      BY <1>1, <2>1
    <3> QED  BY <1>1, <3>1 DEF Broken
  <2>3. ~Dead(b[1])
    BY <1>1, <2>1
  <2>4. b # <<>>
    BY <2>1, EmptySeq
  <2> QED  BY <2>2, <2>3, <2>4, EmptyFits
<1> QED  BY <1>2, <1>3

LEMMA EmptySplit ==
  ASSUME NEW a \in Seq(Piece), NEW b \in Seq(Piece), Fits(a \o b, <<>>)
  PROVE  Fits(a, <<>>) /\ (Broken(a) \/ Fits(b, <<>>))
<1>1. Fits(a, <<>>)
  BY FitsPrefix
<1>2. CASE a = <<>>
  <2>1. a \o b = b
    BY <1>2, ConcatEmptySeq
  <2> QED  BY <1>1, <2>1
<1>3. CASE a # <<>>
  <2>1. 1 \in DOMAIN a /\ Dead(a[1])
    BY <1>1, <1>3, EmptyFits
  <2> QED  BY <1>1, <2>1 DEF Broken
<1> QED  BY <1>1, <1>2, <1>3

LEMMA NewFits ==
  ASSUME NEW a \in Seq(Piece), NEW e \in Seq(Piece), Fits(a, <<>>)
  PROVE  Fits(a \o e, e)
<1>1. CASE a = <<>>
  <2>1. a \o e = e
    BY <1>1, ConcatEmptySeq
  <2> QED  BY <2>1 DEF Fits
<1>2. CASE a # <<>>
  <2>1. 1 \in DOMAIN a /\ Dead(a[1])
    BY <1>2, EmptyFits
  <2>2. (a \o e)[1] = a[1] /\ DOMAIN (a \o e) = 1..(Len(a) + Len(e))
    BY <2>1, ConcatIndex
  <2>3. \A i \in DOMAIN (a \o e) : 1 \in 1..i
    BY <2>2
  <2> QED  BY <2>1, <2>2, <2>3 DEF Fits
<1> QED  BY <1>1, <1>2

LEMMA ReadFits ==
  ASSUME NEW f \in Seq(Piece), NEW e \in Seq(Piece), f # <<>>, Fits(f, e), ~Dead(Head(f))
  PROVE  /\ e # <<>> /\ Head(f) = e[1] /\ Fits(Tail(f), Tail(e))
<1> DEFINE t == Tail(f)
<1>1. /\ DOMAIN f = 1..Len(f) /\ Len(f) \in Nat \ {0} /\ Head(f) = f[1]
      /\ DOMAIN t = 1..(Len(f) - 1)
      /\ \A i \in DOMAIN t : t[i] = f[i + 1]
  BY HeadTailProperties, EmptySeq, LenProperties
<1>2. 1 \in DOMAIN e /\ Head(f) = e[1]
  <2>1. 1 \in DOMAIN f /\ 1..1 = {1}
    BY <1>1
  <2> QED  BY <1>1, <2>1 DEF Fits
<1>3. e # <<>>
  BY <1>2
<1>4. /\ DOMAIN e = 1..Len(e) /\ Len(e) \in Nat /\ DOMAIN Tail(e) = 1..(Len(e) - 1)
      /\ \A i \in DOMAIN Tail(e) : Tail(e)[i] = e[i + 1]
  BY <1>3, HeadTailProperties, LenProperties
<1> HIDE DEF t
<1>5. ASSUME NEW i \in DOMAIN t, \A j \in 1..i : ~Dead(t[j])
      PROVE  i \in DOMAIN Tail(e) /\ t[i] = Tail(e)[i]
  <2>1. i \in Int /\ i >= 1 /\ i + 1 \in DOMAIN f
    BY <1>1
  <2>2. \A j \in 1..(i + 1) : j = 1 \/ (j - 1 \in 1..i /\ j - 1 \in DOMAIN t /\ (j - 1) + 1 = j)
    BY <1>1, <2>1
  <2>3. \A j \in 1..(i + 1) : ~Dead(f[j])
    BY <1>1, <1>5, <2>2
  <2>4. i + 1 \in DOMAIN e /\ f[i + 1] = e[i + 1]
    BY <2>1, <2>3 DEF Fits
  <2>5. i \in DOMAIN Tail(e)
    BY <1>4, <2>1, <2>4
  <2> QED  BY <1>1, <1>4, <2>4, <2>5
<1>6. Fits(t, Tail(e))
  BY <1>5 DEF Fits
<1> QED  BY <1>2, <1>3, <1>6 DEF t

LEMMA BrokenTail ==
  ASSUME NEW f \in Seq(Piece), f # <<>>, ~Dead(Head(f)), Broken(f)
  PROVE  Broken(Tail(f))
<1>1. PICK i \in DOMAIN f : Dead(f[i])
  BY DEF Broken
<1>2. /\ DOMAIN f = 1..Len(f) /\ Len(f) \in Nat /\ Head(f) = f[1]
      /\ DOMAIN Tail(f) = 1..(Len(f) - 1)
      /\ \A j \in DOMAIN Tail(f) : Tail(f)[j] = f[j + 1]
  BY HeadTailProperties, LenProperties
<1>3. i # 1
  BY <1>1, <1>2
<1>4. i - 1 \in DOMAIN Tail(f) /\ (i - 1) + 1 = i
  BY <1>2, <1>3
<1> QED  BY <1>1, <1>2, <1>4 DEF Broken

LEMMA BrokenConcat ==
  ASSUME NEW a \in Seq(Piece), NEW b \in Seq(Piece), Broken(a)
  PROVE  Broken(a \o b)
BY ConcatIndex DEF Broken

LEMMA PieceMoves ==
  ASSUME NEW a \in Seq(Piece), NEW b \in Seq(Piece), b # <<>>
  PROVE  /\ Head(b) \in Piece /\ Head(b) = b[1] /\ Tail(b) \in Seq(Piece)
         /\ Append(a, Head(b)) \in Seq(Piece) /\ Append(a, Head(b)) = a \o <<Head(b)>>
         /\ Append(a, Head(b)) \o Tail(b) = a \o b
<1>1. /\ Head(b) \in Piece /\ Tail(b) \in Seq(Piece) /\ <<Head(b)>> \in Seq(Piece)
      /\ Head(b) = b[1] /\ Append(a, Head(b)) \in Seq(Piece)
  BY HeadTailProperties, AppendProperties
<1>2. Append(a, Head(b)) = a \o <<Head(b)>>
  BY <1>1, AppendIsConcat
<1>3. (a \o <<Head(b)>>) \o Tail(b) = a \o (<<Head(b)>> \o Tail(b))
  BY <1>1, ConcatAssociative
<1>4. <<Head(b)>> \o Tail(b) = b
  <2>1. Len(b) \in Nat \ {0} /\ Len(Tail(b)) = Len(b) - 1
        /\ \A i \in 1..Len(Tail(b)) : Tail(b)[i] = b[i + 1]
    BY HeadTailProperties, EmptySeq
  <2>2. Len(<<Head(b)>> \o Tail(b)) = Len(b) /\ <<Head(b)>> \o Tail(b) \in Seq(Piece)
    BY <1>1, <2>1, ConcatProperties
  <2>3. ASSUME NEW i \in 1..Len(b) PROVE (<<Head(b)>> \o Tail(b))[i] = b[i]
    <3>1. (<<Head(b)>> \o Tail(b))[i] = IF i <= 1 THEN <<Head(b)>>[i] ELSE Tail(b)[i - 1]
      BY <1>1, <2>1, ConcatProperties
    <3>2. CASE i = 1
      BY <1>1, <3>1, <3>2
    <3>3. CASE i # 1
      <4>1. i - 1 \in 1..Len(Tail(b)) /\ (i - 1) + 1 = i /\ ~(i <= 1)
        BY <2>1, <3>3
      <4> QED  BY <2>1, <3>1, <4>1
    <3> QED  BY <3>2, <3>3
  <2> QED  BY <2>2, <2>3, SeqEqual
<1> QED  BY <1>1, <1>2, <1>3, <1>4

LEMMA TailConcat ==
  ASSUME NEW a \in Seq(Piece), NEW b \in Seq(Piece), a # <<>>
  PROVE  /\ a \o b \in Seq(Piece) /\ a \o b # <<>>
         /\ Head(a \o b) = Head(a) /\ Tail(a \o b) = Tail(a) \o b
<1>1. /\ a \o b \in Seq(Piece) /\ Len(a \o b) = Len(a) + Len(b)
      /\ Len(a) \in Nat \ {0} /\ Len(b) \in Nat
      /\ (a \o b)[1] = a[1]
  BY ConcatProperties, EmptySeq, LenProperties
<1>2. a \o b # <<>>
  BY <1>1, EmptySeq
<1>3. Head(a \o b) = Head(a)
  BY <1>1
<1>4. Head(a) = a[1] /\ Tail(a) \in Seq(Piece) /\ Head(a) \in Piece
  BY HeadTailProperties
<1>5. <<Head(a)>> \o Tail(a) = a /\ <<Head(a)>> \in Seq(Piece)
  <2>1. <<>> \in Seq(Piece) /\ Append(<<>>, Head(a)) = <<Head(a)>>
    BY <1>4
  <2>2. Append(<<>>, Head(a)) \o Tail(a) = <<>> \o a
    BY <2>1, PieceMoves
  <2> QED  BY <1>4, <2>1, <2>2, ConcatEmptySeq
<1>6. a \o b = <<Head(a)>> \o (Tail(a) \o b) /\ Tail(a) \o b \in Seq(Piece)
  BY <1>4, <1>5, ConcatAssociative, ConcatProperties
<1>7. <<Head(a)>> \o Tail(a \o b) = a \o b /\ Tail(a \o b) \in Seq(Piece)
  <2>1. <<>> \in Seq(Piece) /\ Append(<<>>, Head(a \o b)) = <<Head(a)>>
    BY <1>3, <1>4
  <2>2. Append(<<>>, Head(a \o b)) \o Tail(a \o b) = <<>> \o (a \o b) /\ Tail(a \o b) \in Seq(Piece)
    BY <1>1, <1>2, <2>1, PieceMoves
  <2> QED  BY <1>1, <2>1, <2>2, ConcatEmptySeq
<1>8. Tail(a \o b) = Tail(a) \o b
  <2>1. <<Head(a)>> \o Tail(a \o b) = <<Head(a)>> \o (Tail(a) \o b)
    BY <1>6, <1>7
  <2> QED  BY <1>5, <1>6, <1>7, <2>1, ConcatSimplifications
<1> QED  BY <1>1, <1>2, <1>3, <1>8

------------------------------------------------------------------------------
(* What a query is allowed.                                                *)

LEMMA RetainsAppend ==
  ASSUME NEW h \in Seq(Queries), NEW q \in Queries, NEW k \in 0..Len(h), NEW m, NEW b,
         Retains(h, k, m, b)
  PROVE  Retains(Append(h, q), k, m, b)
<1>1. \A i \in 1..k : Append(h, q)[i] = h[i]
  <2>1. \A i \in 1..Len(h) : Append(h, q)[i] = h[i]
    BY AppendProperties
  <2>2. Len(h) \in Nat
    BY LenProperties
  <2> QED  BY <2>1, <2>2
<1> QED  BY <1>1 DEF Retains

LEMMA RetainsNext ==
  ASSUME NEW h \in Seq(Queries), h # <<>>, NEW m, NEW b,
         Retains(h, Len(h) - 1, m, b)
  PROVE  Retains(h, Len(h), m, IF Prepares(h[Len(h)], m) THEN h[Len(h)][1].body ELSE b)
<1> DEFINE n == Len(h)
<1>1. n \in Nat \ {0}
  BY EmptySeq
<1> HIDE DEF n
<1>2. /\ n \in 1..n /\ \A i \in 1..n : i = n \/ i \in 1..(n - 1)
      /\ \A i \in 1..(n - 1) : i \in 1..n
      /\ \A i \in 1..n : i <= n
  BY <1>1
<1>3. CASE Prepares(h[n], m)
  BY <1>2, <1>3 DEF Retains, n
<1>4. CASE ~Prepares(h[n], m)
  <2>1. CASE b = NoBody /\ \A i \in 1..(n - 1) : ~Prepares(h[i], m)
    <3>1. \A i \in 1..n : ~Prepares(h[i], m)
      BY <1>2, <1>4, <2>1
    <3> QED  BY <1>4, <2>1, <3>1 DEF Retains, n
  <2>2. CASE \E i \in 1..(n - 1) : /\ Prepares(h[i], m) /\ h[i][1].body = b
                                   /\ \A j \in 1..(n - 1) : Prepares(h[j], m) => j <= i
    <3>1. PICK i \in 1..(n - 1) : /\ Prepares(h[i], m) /\ h[i][1].body = b
                                  /\ \A j \in 1..(n - 1) : Prepares(h[j], m) => j <= i
      BY <2>2
    <3>2. i \in 1..n /\ \A j \in 1..n : Prepares(h[j], m) => j <= i
      BY <1>2, <1>4, <3>1
    <3> QED  BY <1>4, <3>1, <3>2 DEF Retains, n
  <2> QED  BY <2>1, <2>2 DEF Retains, n
<1> QED  BY <1>3, <1>4

LEMMA RefersRetained ==
  ASSUME NEW h \in Seq(Queries), NEW n \in 1..Len(h), NEW b,
         Retains(h, n - 1, h[n][1].arg, b)
  PROVE  Refers(h, n) = b
<1> DEFINE S == {i \in 1..(n - 1) : parse_pgdump_prepare(h[i]) /\ h[i][1].arg = h[n][1].arg}
<1>1. Refers(h, n) = IF S = {} THEN NoBody ELSE h[Max(S)][1].body
  BY DEF Refers
<1>2. CASE b = NoBody /\ \A i \in 1..(n - 1) : ~Prepares(h[i], h[n][1].arg)
  BY <1>1, <1>2 DEF Prepares
<1>3. CASE \E i \in 1..(n - 1) :
             /\ Prepares(h[i], h[n][1].arg) /\ h[i][1].body = b
             /\ \A j \in 1..(n - 1) : Prepares(h[j], h[n][1].arg) => j <= i
  <2>1. PICK i \in 1..(n - 1) :
             /\ Prepares(h[i], h[n][1].arg) /\ h[i][1].body = b
             /\ \A j \in 1..(n - 1) : Prepares(h[j], h[n][1].arg) => j <= i
    BY <1>3
  <2>2. i \in S /\ \A j \in S : j \in Int /\ i >= j
    BY <2>1, LenProperties DEF Prepares
  <2>3. Max(S) = i
    <3> HIDE DEF S
    <3>1. \A x \in S : (\A y \in S : x >= y) => x = i
      BY <2>2
    <3> QED  BY <2>2, <3>1 DEF Max
  <2> QED  BY <1>1, <2>1, <2>2, <2>3
<1> QED  BY <1>2, <1>3 DEF Retains

\* A forwarded query is allowed what DSQL returns for it, or an error.
LEMMA ForwardAllowed ==
  ASSUME NEW h \in Seq(Queries), NEW n \in 1..Len(h), ~Synthetic(h[n]),
         h[n][1].verb # "set_config"
  PROVE  /\ Error \in Allowed(h, n)
         /\ (\A i \in DOMAIN h[n] : Accepts(h[n][i])) => Results(h[n]) \in Allowed(h, n)
<1> DEFINE q == h[n]
<1>1. q \in Queries /\ 1 \in DOMAIN q
  BY QueryTypes
<1>2. Allowed(h, n) = Rows(h, n) \cup {Error}
  BY DEF Allowed
<1>3. ASSUME \A i \in DOMAIN q : Accepts(q[i]) PROVE Results(q) \in Rows(h, n)
  <2>1. q[1].verb # "execute" /\ ~SET_CONFIG_RE(q)
    BY <1>1, <1>3 DEF Accepts, SET_CONFIG_RE
  <2>2. Rows(h, n) = {r \in {Results(q)} : \A i \in DOMAIN q : Accepts(q[i])}
    BY <2>1 DEF Rows
  <2> QED  BY <1>3, <2>2
<1> QED  BY <1>2, <1>3

LEMMA SyntheticAllowed ==
  ASSUME NEW h, NEW n, Synthetic(h[n])
  PROVE  Done \in Allowed(h, n)
BY DEF Allowed

LEMMA SetConfigAllowed ==
  ASSUME NEW h \in Seq(Queries), NEW n \in 1..Len(h), SET_CONFIG_RE(h[n]), ~Synthetic(h[n])
  PROVE  Error \in Allowed(h, n) /\ Results(Inlined(NullBody, 0)) \in Allowed(h, n)
<1>1. Results(Inlined(NullBody, 0)) = <<Result(NullBody, 0)>>
  BY DEF Results, Inlined
<1>2. h[n][1].verb # "execute"
  BY DEF SET_CONFIG_RE
<1>3. Rows(h, n) = {<<Result(NullBody, 0)>>}
  BY <1>2 DEF Rows
<1> QED  BY <1>1, <1>3 DEF Allowed

LEMMA ExecuteAllowed ==
  ASSUME NEW h \in Seq(Queries), NEW n \in 1..Len(h), NEW retained,
         rewrite_pgdump_execute(h[n], retained), Refers(h, n) = retained[h[n][1].arg]
  PROVE  /\ Error \in Allowed(h, n)
         /\ Results(Inlined(retained[h[n][1].arg], h[n][1].oid)) \in Allowed(h, n)
<1> DEFINE b == retained[h[n][1].arg]  o == h[n][1].oid
<1>1. Len(h[n]) = 1 /\ h[n][1].verb = "execute" /\ b # NoBody /\ o <= MaxOid
  BY DEF rewrite_pgdump_execute
<1>2. ~Synthetic(h[n])
  BY <1>1 DEF Synthetic, parse_pgdump_prepare, LOCK_RE, SET_RE
<1>3. Results(Inlined(b, o)) = <<Result(b, o)>>
  BY DEF Results, Inlined
<1>4. <<Result(b, o)>> \in Rows(h, n)
  <2>1. Rows(h, n) = {r \in {<<Result(Refers(h, n), h[n][1].oid)>>} :
                       Len(h[n]) = 1 /\ Refers(h, n) # NoBody /\ h[n][1].oid <= MaxOid}
    BY <1>1 DEF Rows, SET_CONFIG_RE
  <2> QED  BY <1>1, <2>1
<1> QED  BY <1>2, <1>3, <1>4 DEF Allowed

------------------------------------------------------------------------------
(* Steps.                                                                  *)

LEMMA StreamTypes ==
  ASSUME TypeInv
  PROVE  /\ toClient \in Seq(Piece) /\ Pending \in Seq(Piece) /\ s2c.out \in Seq(Piece)
         /\ fromServer \in Seq(Piece) /\ replying \in Seq(Piece)
         /\ Rest \in Seq(Piece) /\ toClient \o Pending \in Seq(Piece) /\ Flow \in Seq(Piece)
<1>1. /\ toClient \in Seq(Piece) /\ s2c.out \in Seq(Piece) /\ fromServer \in Seq(Piece)
      /\ replying \in Seq(Piece)
  BY DEF TypeInv, TypeOK, Thread
<1>2. Pending \in Seq(Piece)
  BY EmptySeq DEF TypeInv, ThreadInv, Pending
<1>3. fromServer \o replying \in Seq(Piece)
  BY <1>1, ConcatProperties
<1>4. Rest \in Seq(Piece)
  BY <1>1, <1>3, ConcatProperties DEF Rest
<1>5. toClient \o Pending \in Seq(Piece)
  BY <1>1, <1>2, ConcatProperties
<1>6. Flow \in Seq(Piece)
  BY <1>4, <1>5, ConcatProperties DEF Flow
<1> QED  BY <1>1, <1>2, <1>4, <1>5, <1>6

\* A step that brings the client nothing new, or loses what is under way.
LEMMA OpenKept ==
  ASSUME OpenInv,
         UNCHANGED <<client, asked, answers, partial, prepared, fromClient>>,
         handler' = handler \/ (handler # "startup" /\ handler' \in {"pump", "closed"}),
         c2s'.pc # "done" => c2s.pc # "done",
         Forwarding' => Forwarding /\ c2s'.out = c2s.out,
         Replies' => Replies,
         toServer' = toServer \/ toServer' = <<>>,
         \A e \in Seq(Piece) : Fits(Flow, e) => Fits(Flow', e),
         Replies' => Alone'
  PROVE  OpenInv'
<1>1. Mine' = Mine /\ (Coming' <=> Coming) /\ (Sent' => Sent /\ toServer' = toServer)
  BY DEF Mine, Coming, Sent
<1>2. \A m : ForServer(m) => ForServer(m)'
  BY <1>1 DEF ForServer, Serves
<1>3. MessageInv'
  <2>1. Len(toServer') <= 1
    BY EmptySeq DEF OpenInv, MessageInv
  <2> QED  BY <1>1, <1>2, <2>1 DEF OpenInv, MessageInv
<1>4. FlowInv'
  <2>1. ASSUME NEW e \in Seq(Piece), Owed(e), Fits(Flow, e), UnderWay => e = <<>>
        PROVE  Owed(e)' /\ Fits(Flow', e) /\ (UnderWay' => e = <<>>)
    BY <1>1, <2>1 DEF Owed, UnderWay
  <2> QED  BY <2>1 DEF OpenInv, FlowInv
<1>5. PreparedInv' /\ CountInv'
  BY <1>1 DEF OpenInv, PreparedInv, CountInv, Looked
<1> QED  BY <1>3, <1>4, <1>5 DEF OpenInv

LEMMA SynthesizedKept ==
  ASSUME Synthesized, c2s' = c2s,
         \A d \in Seq(Piece) : Fits(toClient, d) => Fits(toClient', d)
  PROVE  Synthesized'
<1>1. <<>> \in Seq(Piece) /\ <<ResultPiece(Done)>> \in Seq(Piece)
  BY ResultTypes, ResultPieceTypes
<1>2. PICK t \in Statuses :
        \/ c2s.out = CommandComplete(t) /\ Fits(toClient, <<>>)
        \/ c2s.out = <<ReadyForQuery(t)>> /\ Fits(toClient, <<ResultPiece(Done)>>)
  BY DEF Synthesized
<1>3. \/ c2s'.out = CommandComplete(t) /\ Fits(toClient', <<>>)
      \/ c2s'.out = <<ReadyForQuery(t)>> /\ Fits(toClient', <<ResultPiece(Done)>>)
  BY <1>1, <1>2
<1> QED  BY <1>3 DEF Synthesized

LEMMA KeptByHandle ==
  ASSUME OpenInv, HandleFails \/ JoinThreads, client # "closed"
  PROVE  OpenInv'
<1>1. /\ UNCHANGED <<client, asked, answers, partial, c2s, s2c, prepared, fromClient, toServer,
                     fromServer, toClient, replying>>
      /\ handler # "startup" /\ handler' = "closed"
  BY DEF HandleFails, JoinThreads, clientVars, serverVars, streams
<1>2. Flow' = Flow /\ Rest' = Rest /\ (Replies' <=> Replies) /\ (Forwarding' <=> Forwarding)
  BY <1>1 DEF Flow, Rest, Pending, Replies, Forwarding
<1>3. Replies => Alone'
  BY <1>1, <1>2 DEF OpenInv, FlowInv, Alone, Synthesized
<1> QED  BY <1>1, <1>2, <1>3, OpenKept

\* client_to_server ends, or takes the lock.
LEMMA KeptByClientToServer ==
  ASSUME TypeInv, OpenInv, client # "closed",
         C2sEof \/ C2sForwardFails \/ C2sLocks \/ C2sSends \/ C2sSendFails
  PROVE  OpenInv'
<1> DEFINE T == toClient  P == Pending  R == Rest
<1>1. /\ T \in Seq(Piece) /\ P \in Seq(Piece) /\ R \in Seq(Piece) /\ T \o P \in Seq(Piece)
      /\ Flow = (T \o P) \o R
      /\ Replies => Synthesized /\ (Broken(T) \/ Fits(R, <<>>))
  BY StreamTypes DEF Flow, OpenInv, FlowInv, Alone
<1>2. /\ UNCHANGED <<client, asked, answers, partial, handler, s2c, prepared, fromClient,
                     toServer, fromServer, replying>>
      /\ Rest' = R
  BY DEF C2sEof, C2sForwardFails, C2sLocks, C2sSends, C2sSendFails, C2sEnds, clientVars,
         serverVars, streams, Rest
<1>3. Flow' = (toClient' \o Pending') \o R
  BY <1>2 DEF Flow
<1> HIDE DEF T, P, R
<1>4. CASE C2sEof \/ C2sForwardFails \/ C2sSendFails
  <2>1. toClient' = T /\ c2s'.pc = "done" /\ ~Replies' /\ ~Forwarding' /\ Pending' = <<>>
    BY <1>4 DEF C2sEof, C2sForwardFails, C2sSendFails, C2sEnds, streams, T, Replies, Forwarding,
               Pending
  <2>2. T \o <<>> = T
    BY <1>1, ConcatEmptySeq
  <2>3. ASSUME NEW e \in Seq(Piece), Fits(Flow, e) PROVE Fits(Flow', e)
    <3>1. CASE Replies
      <4>1. Fits(T \o P, e)
        BY <1>1, <2>3, FitsPrefix
      <4>2. Fits(T, e)
        BY <1>1, <4>1, FitsPrefix
      <4>3. Fits(T \o R, e)
        BY <1>1, <3>1, <4>2, BrokenFits
      <4> QED  BY <1>3, <2>1, <2>2, <4>3
    <3>2. CASE ~Replies
      <4>1. P = <<>>
        BY <3>2 DEF Pending, P
      <4> QED  BY <1>1, <1>3, <2>1, <2>3, <4>1
    <3> QED  BY <3>1, <3>2
  <2> QED  BY <1>2, <2>1, <2>3, OpenKept
<1>5. CASE C2sLocks
  <2>1. /\ toClient' = T /\ c2s.pc = "lock" /\ c2s' = [c2s EXCEPT !.pc = "send"]
        /\ c2s \in Thread(Message \cup Piece)
    BY <1>5 DEF C2sLocks, streams, T, TypeInv, TypeOK
  <2>2. c2s'.pc = "send" /\ c2s'.out = c2s.out
    BY <2>1 DEF Thread
  <2>3. Replies /\ Replies' /\ ~Forwarding' /\ Pending' = P
    BY <2>1, <2>2 DEF Replies, Forwarding, Pending, P
  <2>4. Flow' = Flow
    BY <1>1, <1>3, <2>1, <2>3
  <2>5. Alone'
    BY <1>1, <1>2, <2>1, <2>2, <2>3 DEF Alone, Synthesized, T, R
  <2> QED  BY <1>2, <2>1, <2>3, <2>4, <2>5, OpenKept
<1>6. CASE C2sSends
  <2>1. /\ c2s.pc = "send" /\ NextPiece(c2s, c2s') /\ c2s.out \in Seq(Piece) /\ c2s.out # <<>>
        /\ c2s = [pc |-> c2s.pc, out |-> c2s.out] /\ Replies /\ P = c2s.out /\ TypeOK
    BY <1>6 DEF C2sSends, TypeInv, TypeOK, ThreadInv, Thread, Replies, Pending, P
  <2>2. /\ toClient' = Append(T, Head(P)) /\ Tail(P) \in Seq(Piece)
        /\ \/ Tail(P) # <<>> /\ c2s' = [pc |-> "send", out |-> Tail(P)]
           \/ Tail(P) = <<>> /\ c2s' = [pc |-> "recv", out |-> <<>>]
    BY <2>1, PieceStep DEF T
  <2>3. Pending' = Tail(P) /\ c2s'.pc \in {"send", "recv"} /\ ~Forwarding'
    BY <2>2 DEF Pending, Replies, Forwarding
  <2>4. toClient' \o Pending' = T \o P /\ toClient' = T \o <<Head(P)>> /\ <<Head(P)>> \in Seq(Piece)
    <3>1. T \in Seq(Piece) /\ P \in Seq(Piece) /\ P # <<>>
      BY <1>1, <2>1
    <3>2. /\ Append(T, Head(P)) \o Tail(P) = T \o P
          /\ Append(T, Head(P)) = T \o <<Head(P)>> /\ Head(P) \in Piece
      BY <3>1, PieceMoves
    <3> QED  BY <2>2, <2>3, <3>2
  <2>5. Flow' = Flow
    BY <1>1, <1>3, <2>4
  <2>6. Broken(toClient') \/ Fits(Rest', <<>>)
    BY <1>1, <1>2, <2>1, <2>4, BrokenConcat
  <2>7. Replies' => Synthesized'
    <3> SUFFICES ASSUME Replies' PROVE Synthesized'
      OBVIOUS
    <3>1. c2s'.out = Tail(P) /\ Tail(P) # <<>>
      BY <2>2 DEF Replies
    <3>2. PICK t \in Statuses : \/ P = CommandComplete(t) /\ Fits(T, <<>>)
                               \/ P = <<ReadyForQuery(t)>>
      BY <1>1, <2>1 DEF Synthesized, T
    <3>3. P = CommandComplete(t) /\ Fits(T, <<>>)
      <4>1. P # <<ReadyForQuery(t)>>
        BY <3>1
      <4> QED  BY <3>2, <4>1
    <3>4. Head(P) = ResultPiece(Done) /\ Tail(P) = <<ReadyForQuery(t)>>
      BY <3>3 DEF CommandComplete
    <3>5. Fits(toClient', <<ResultPiece(Done)>>)
      BY <1>1, <2>4, <3>3, <3>4, NewFits
    <3> QED  BY <3>1, <3>4, <3>5 DEF Synthesized
  <2> QED  BY <1>2, <2>1, <2>3, <2>5, <2>6, <2>7, OpenKept DEF Alone
<1> QED  BY <1>4, <1>5, <1>6

\* A piece from DSQL passes what the proxy is about to write only if nothing is read
\* after it.
LEMMA PieceArrives ==
  ASSUME NEW t \in Seq(Piece), NEW p \in Seq(Piece), NEW r \in Seq(Piece), r # <<>>,
         NEW e \in Seq(Piece), Fits((t \o p) \o r, e),
         p = <<>> \/ Broken(t) \/ Fits(r, <<>>)
  PROVE  /\ Fits((Append(t, Head(r)) \o p) \o Tail(r), e)
         /\ p # <<>> => /\ Broken(Append(t, Head(r)))
                        /\ \A d \in Seq(Piece) : Fits(t, d) => Fits(Append(t, Head(r)), d)
<1> DEFINE u == Append(t, Head(r))
<1>1. /\ Head(r) \in Piece /\ Head(r) = r[1] /\ Tail(r) \in Seq(Piece)
      /\ u \in Seq(Piece) /\ u = t \o <<Head(r)>> /\ u \o Tail(r) = t \o r
      /\ <<Head(r)>> \in Seq(Piece)
  BY PieceMoves, SMTT(30)
<1> HIDE DEF u
<1>2. CASE p = <<>>
  <2>1. t \o p = t /\ u \o p = u
    BY <1>1, <1>2, ConcatEmptySeq
  <2>2. Fits(u \o Tail(r), e)
    BY <1>1, <2>1
  <2> QED  BY <1>2, <2>1, <2>2 DEF u
<1>3. CASE p # <<>>
  <2>1. t \o p \in Seq(Piece) /\ u \o p \in Seq(Piece)
    BY <1>1, ConcatProperties
  <2>2. Fits(t \o p, e)
    BY <2>1, FitsPrefix
  <2>3. Fits(t, e)
    BY <2>2, FitsPrefix
  <2>4. Broken(t) \/ Fits(<<Head(r)>>, <<>>)
    BY <1>1, <1>3, EmptyFits
  <2>5. \A d \in Seq(Piece) : Fits(t, d) => Fits(u, d)
    BY <1>1, <2>4, BrokenFits
  <2>6. Broken(u)
    <3>1. CASE Broken(t)
      BY <1>1, <3>1, BrokenConcat
    <3>2. CASE Fits(r, <<>>)
      <4>1. Dead(Head(r))
        BY <1>1, <3>2, EmptyFits
      <4>2. Len(t) + 1 \in DOMAIN u /\ u[Len(t) + 1] = Head(r)
        BY <1>1, AppendProperties, LenProperties DEF u
      <4> QED  BY <4>1, <4>2 DEF Broken
    <3> QED  BY <1>3, <3>1, <3>2
  <2>7. Fits(u \o p, e)
    BY <1>1, <2>3, <2>5, <2>6, BrokenFits
  <2>8. Broken(u \o p)
    BY <1>1, <2>6, BrokenConcat
  <2>9. Fits((u \o p) \o Tail(r), e)
    BY <1>1, <2>1, <2>7, <2>8, BrokenFits
  <2> QED  BY <2>5, <2>6, <2>9 DEF u
<1> QED  BY <1>2, <1>3

LEMMA KeptByServerToClient ==
  ASSUME TypeInv, OpenInv, client # "closed", ServerToClient
  PROVE  OpenInv'
<1> DEFINE T == toClient  P == Pending  R == Rest  X == fromServer \o replying
<1>1. /\ T \in Seq(Piece) /\ P \in Seq(Piece) /\ R \in Seq(Piece) /\ T \o P \in Seq(Piece)
      /\ Flow = (T \o P) \o R
      /\ Replies => Synthesized /\ (Broken(T) \/ Fits(R, <<>>))
      /\ s2c.out \in Seq(Piece) /\ fromServer \in Seq(Piece) /\ replying \in Seq(Piece)
  BY StreamTypes DEF Flow, OpenInv, FlowInv, Alone
<1>2. /\ UNCHANGED <<client, asked, answers, partial, handler, c2s, prepared, fromClient,
                     toServer, replying>>
      /\ (Replies' <=> Replies) /\ (Forwarding' <=> Forwarding) /\ Pending' = P
  BY DEF ServerToClient, S2cRecv, S2cEof, S2cLocks, S2cSends, S2cSendFails, S2cEnds, clientVars,
         serverVars, streams, Replies, Forwarding, Pending
<1>3. Flow' = (toClient' \o P) \o Rest'
  BY <1>2 DEF Flow
<1>4. X \in Seq(Piece) /\ R = s2c.out \o X
  BY <1>1, ConcatProperties DEF Rest
<1> HIDE DEF T, P, R
<1>5. ASSUME toClient' = T, Fits(R, <<>>) => Fits(Rest', <<>>)
      PROVE  Replies' => Alone'
  BY <1>1, <1>2, <1>5, SynthesizedKept DEF Alone, T
<1>6. CASE S2cEof \/ S2cLocks
  <2>1. s2c'.out = s2c.out /\ UNCHANGED <<fromServer, toClient>>
    BY <1>6 DEF S2cEof, S2cLocks, S2cEnds, streams, TypeInv, TypeOK, ThreadInv, Thread
  <2>2. Rest' = R
    BY <1>2, <2>1 DEF Rest, R
  <2>3. Flow' = Flow /\ (Replies' => Alone')
    BY <1>1, <1>3, <1>5, <2>1, <2>2 DEF T
  <2> QED  BY <1>2, <2>3, OpenKept
<1>7. CASE S2cRecv
  <2>1. /\ s2c.out = <<>> /\ toClient' = T /\ fromServer # <<>>
    BY <1>7 DEF S2cRecv, TypeInv, ThreadInv, T
  <2>2. R = X
    BY <1>4, <2>1, ConcatEmptySeq
  <2>3. PICK n \in 1..Len(fromServer) :
          /\ s2c' = [pc |-> "lock", out |-> IF serverShut THEN <<Token("junk")>>
                                           ELSE SubSeq(fromServer, 1, n)]
          /\ fromServer' = SubSeq(fromServer, n + 1, Len(fromServer))
    BY <1>7 DEF S2cRecv
  <2>4. /\ SubSeq(fromServer, 1, n) \o fromServer' = fromServer
        /\ SubSeq(fromServer, 1, n) \in Seq(Piece) /\ fromServer' \in Seq(Piece)
    <3>1. Len(fromServer) \in Nat /\ \A j \in 1..Len(fromServer) : fromServer[j] \in Piece
      BY <1>1, LenProperties, ElementOfSeq
    <3>2. /\ n \in Int /\ n + 1 \in Int /\ Len(fromServer) \in Int /\ 1 \in 1..(Len(fromServer) + 1)
          /\ n \in 0..Len(fromServer) /\ n \in (1 - 1)..Len(fromServer)
          /\ Len(fromServer) \in n..Len(fromServer)
          /\ \A j \in 1..n : fromServer[j] \in Piece
          /\ \A j \in (n + 1)..Len(fromServer) : fromServer[j] \in Piece
      BY <3>1
    <3>3. SubSeq(fromServer, 1, n) \in Seq(Piece)
      BY <3>2, SubSeqProperties
    <3>4. SubSeq(fromServer, n + 1, Len(fromServer)) \in Seq(Piece)
      BY <3>2, SubSeqProperties
    <3>5. SubSeq(fromServer, 1, n) \o SubSeq(fromServer, n + 1, Len(fromServer))
            = SubSeq(fromServer, 1, Len(fromServer))
      BY <1>1, <3>2, ConcatAdjacentSubSeq
    <3>6. SubSeq(fromServer, 1, Len(fromServer)) = fromServer
      BY <1>1, SubSeqFull
    <3> QED  BY <2>3, <3>3, <3>4, <3>5, <3>6
  <2>5. CASE serverShut
    <3> DEFINE J == <<Token("junk")>>  Y == fromServer' \o replying
    <3>1. Rest' = J \o Y
      BY <1>2, <2>3, <2>5 DEF Rest
    <3>2. J \in Seq(Piece) /\ Y \in Seq(Piece) /\ J # <<>> /\ Dead(J[1])
      BY <1>1, <2>4, TokenTypes, ConcatProperties DEF Dead
    <3> HIDE DEF J, Y
    <3>3. Rest' \in Seq(Piece) /\ Fits(Rest', <<>>)
      <4>1. Fits(J, <<>>)
        BY <3>2, EmptyFits
      <4>2. 1 \in DOMAIN J
        BY <3>2, EmptySeq, LenProperties
      <4>3. Broken(J)
        BY <3>2, <4>2 DEF Broken
      <4> QED  BY <3>1, <3>2, <4>1, <4>3, BrokenFits, ConcatProperties
    <3>4. ASSUME NEW e \in Seq(Piece), Fits(Flow, e) PROVE Fits(Flow', e)
      <4>1. Fits(T \o P, e)
        BY <1>1, <3>4, FitsPrefix
      <4> QED  BY <1>1, <1>3, <2>1, <3>3, <4>1, BrokenFits
    <3> QED  BY <1>2, <1>5, <2>1, <3>3, <3>4, OpenKept
  <2>6. CASE ~serverShut
    <3>1. Rest' = SubSeq(fromServer, 1, n) \o (fromServer' \o replying)
      BY <1>2, <2>3, <2>6 DEF Rest
    <3> DEFINE N == SubSeq(fromServer, 1, n)
    <3>2. N \in Seq(Piece) /\ N \o fromServer' = fromServer /\ Rest' = N \o (fromServer' \o replying)
      BY <2>4, <3>1
    <3> HIDE DEF N
    <3>3. Rest' = R
      <4>1. N \o (fromServer' \o replying) = (N \o fromServer') \o replying
        <5>1. N \in Seq(Piece) /\ fromServer' \in Seq(Piece) /\ replying \in Seq(Piece)
          BY <1>1, <2>4, <3>2
        <5> QED  BY <5>1, ConcatPieces, Zenon
      <4>2. (N \o fromServer') \o replying = X
        BY <3>2, Zenon
      <4> HIDE DEF X
      <4> QED  BY <2>2, <3>2, <4>1, <4>2, Zenon
    <3>4. Flow' = Flow /\ (Replies' => Alone')
      BY <1>1, <1>3, <1>5, <2>1, <3>3
    <3> QED  BY <1>2, <3>4, OpenKept
  <2> QED  BY <2>5, <2>6
<1>8. CASE S2cSends
  <2>1. /\ s2c.pc = "send" /\ NextPiece(s2c, s2c') /\ s2c.out # <<>> /\ TypeOK
        /\ s2c = [pc |-> s2c.pc, out |-> s2c.out] /\ fromServer' = fromServer
    BY <1>8 DEF S2cSends, TypeInv, TypeOK, ThreadInv, Thread
  <2>2. toClient' = Append(T, Head(s2c.out)) /\ s2c'.out = Tail(s2c.out)
    <3>1. /\ toClient' = Append(toClient, Head(s2c.out))
          /\ \/ s2c' = [pc |-> "send", out |-> Tail(s2c.out)]
             \/ Tail(s2c.out) = <<>> /\ s2c' = [pc |-> "recv", out |-> <<>>]
      BY <1>1, <2>1, PieceStep
    <3>2. s2c'.out = Tail(s2c.out)
      <4>1. CASE s2c' = [pc |-> "send", out |-> Tail(s2c.out)]
        BY <4>1
      <4>2. CASE Tail(s2c.out) = <<>> /\ s2c' = [pc |-> "recv", out |-> <<>>]
        <5>1. s2c'.out = <<>>
          BY <4>2
        <5> QED  BY <4>2, <5>1
      <4> QED  BY <3>1, <4>1, <4>2
    <3> QED  BY <3>1, <3>2 DEF T
  <2>3. R # <<>> /\ Head(R) = Head(s2c.out) /\ Rest' = Tail(R)
    <3>1. /\ s2c.out \o X # <<>> /\ Head(s2c.out \o X) = Head(s2c.out)
          /\ Tail(s2c.out \o X) = Tail(s2c.out) \o X
      BY <1>1, <1>4, <2>1, TailConcat
    <3> QED  BY <1>2, <1>4, <2>1, <2>2, <3>1 DEF Rest
  <2>4. Replies \/ P = <<>>
    BY DEF Pending, P
  <2>5. ASSUME NEW e \in Seq(Piece), Fits(Flow, e) PROVE Fits(Flow', e)
    BY <1>1, <1>3, <2>2, <2>3, <2>4, <2>5, PieceArrives
  <2>6. Replies' => Alone'
    <3> SUFFICES ASSUME Replies PROVE Alone'
      BY <1>2
    <3>1. P # <<>>
      BY DEF TypeInv, ThreadInv, Pending, P
    <3>2. PICK e \in Seq(Piece) : Fits(Flow, e)
      BY DEF OpenInv, FlowInv
    <3>3. /\ Broken(toClient')
          /\ \A d \in Seq(Piece) : Fits(T, d) => Fits(toClient', d)
      BY <1>1, <2>2, <2>3, <3>1, <3>2, PieceArrives
    <3>4. Synthesized'
      BY <1>1, <1>2, <3>3, SynthesizedKept DEF T
    <3> QED  BY <3>3, <3>4 DEF Alone
  <2> QED  BY <1>2, <2>5, <2>6, OpenKept
<1>9. CASE S2cSendFails
  BY <1>9 DEF S2cSendFails
<1> QED  BY <1>6, <1>7, <1>8, <1>9 DEF ServerToClient

\* DSQL drops the connection, with a last word or without one.
LEMMA StreamCut ==
  \A b, r \in Seq(Piece) : \A e :
    Fits(b \o r, e) => Fits(b, e) /\ Fits(b \o <<Token("fatal")>>, e)
<1> SUFFICES ASSUME NEW b \in Seq(Piece), NEW r \in Seq(Piece), NEW e, Fits(b \o r, e)
    PROVE  Fits(b, e) /\ Fits(b \o <<Token("fatal")>>, e)
  OBVIOUS
<1>1. Token("fatal") \in Piece /\ Token("fatal").kind = "fatal"
  BY TokenTypes
<1>2. <<Token("fatal")>> \in Seq(Piece) /\ <<Token("fatal")>>[1] = Token("fatal")
  BY <1>1
<1>3. Fits(<<Token("fatal")>>, <<>>)
  BY <1>1, <1>2, EmptyFits DEF Dead
<1>4. Fits(b, e)
  BY FitsPrefix
<1> QED  BY <1>2, <1>3, <1>4, BrokenFits

LEMMA KeptByServer ==
  ASSUME TypeInv, OpenInv, client # "closed", ServerSends \/ ServerDrops
  PROVE  OpenInv'
<1> DEFINE A == toClient \o Pending
<1>1. /\ A \in Seq(Piece) /\ s2c.out \in Seq(Piece) /\ fromServer \in Seq(Piece)
      /\ replying \in Seq(Piece) /\ Rest \in Seq(Piece)
      /\ Flow = A \o (s2c.out \o (fromServer \o replying))
      /\ Replies => Synthesized /\ (Broken(toClient) \/ Fits(Rest, <<>>))
  BY StreamTypes DEF Flow, Rest, OpenInv, FlowInv, Alone
<1>2. /\ UNCHANGED <<client, asked, answers, partial, handler, c2s, s2c, prepared, fromClient,
                     toClient>>
      /\ toServer' \in {toServer, <<>>}
  BY DEF ServerSends, ServerDrops, clientVars, proxyVars
<1>3. /\ (Replies' <=> Replies) /\ (Forwarding' <=> Forwarding) /\ c2s' = c2s
      /\ Flow' = A \o Rest' /\ Rest' = s2c.out \o (fromServer' \o replying')
  BY <1>2 DEF Replies, Forwarding, Pending, Flow, Rest
<1> HIDE DEF A
<1>4. ASSUME Fits(Rest, <<>>) => Fits(Rest', <<>>)
      PROVE  Replies' => Alone'
  BY <1>1, <1>2, <1>3, <1>4, SynthesizedKept DEF Alone
<1>5. CASE ServerSends
  <2>1. /\ replying # <<>> /\ fromServer' = Append(fromServer, Head(replying))
        /\ replying' = Tail(replying)
    BY <1>5 DEF ServerSends
  <2>2. fromServer' \o replying' = fromServer \o replying
    BY <1>1, <2>1, PieceMoves
  <2>3. Rest' = Rest /\ Flow' = Flow
    BY <1>1, <1>3, <2>2 DEF Rest
  <2> QED  BY <1>1, <1>2, <1>3, <1>4, <2>3, OpenKept
<1>6. CASE ServerDrops
  <2> DEFINE O == s2c.out \o fromServer  W == <<Token("fatal")>>
  <2>1. /\ replying' = <<>>
        /\ fromServer' = fromServer \/ fromServer' = Append(fromServer, Token("fatal"))
    BY <1>6 DEF ServerDrops
  <2>2. W \in Seq(Piece) /\ Append(fromServer, Token("fatal")) = fromServer \o W
    <3>1. Token("fatal") \in Piece
      BY TokenTypes
    <3> QED  BY <1>1, <3>1, AppendIsConcat
  <2>3. \A e : \A b, r \in Seq(Piece) : Fits(b \o r, e) => Fits(b, e) /\ Fits(b \o W, e)
    BY StreamCut
  <2>4. O = s2c.out \o fromServer
    OBVIOUS
  <2> HIDE DEF O, W
  <2>5. O \in Seq(Piece) /\ A \o O \in Seq(Piece) /\ fromServer \o W \in Seq(Piece)
    BY <1>1, <2>2, <2>4, ConcatProperties
  <2>6. \A x \in Seq(Piece) : /\ s2c.out \o (fromServer \o x) = O \o x
                              /\ A \o (O \o x) = (A \o O) \o x
    <3>1. \A x \in Seq(Piece) : s2c.out \o (fromServer \o x) = (s2c.out \o fromServer) \o x
      BY <1>1, ConcatPieces, Zenon
    <3>2. \A x \in Seq(Piece) : A \o (O \o x) = (A \o O) \o x
      BY <1>1, <2>5, ConcatPieces, Zenon
    <3> QED  BY <2>4, <3>1, <3>2
  <2>7. Rest = O \o replying /\ Flow = (A \o O) \o replying
    <3>1. Rest = s2c.out \o (fromServer \o replying)
      BY DEF Rest
    <3> QED  BY <1>1, <2>6, <3>1, Zenon
  <2>8. \/ Rest' = O /\ Flow' = A \o O
        \/ Rest' = O \o W /\ Flow' = (A \o O) \o W
    <3>1. CASE fromServer' = fromServer
      <4>1. fromServer \o <<>> = fromServer
        BY <1>1, ConcatEmptySeq
      <4> QED  BY <1>3, <2>1, <2>4, <3>1, <4>1, Zenon
    <3>2. CASE fromServer' = fromServer \o W
      <4>1. (fromServer \o W) \o <<>> = fromServer \o W
        BY <2>5, ConcatEmptySeq
      <4>2. Rest' = O \o W
        BY <1>3, <2>1, <2>2, <2>6, <3>2, <4>1, Zenon
      <4> QED  BY <1>3, <2>2, <2>6, <4>2, Zenon
    <3> QED  BY <2>1, <2>2, <3>1, <3>2
  <2>9. ASSUME NEW e \in Seq(Piece), Fits(Flow, e) PROVE Fits(Flow', e)
    <3>1. Fits((A \o O) \o replying, e)
      BY <2>7, <2>9
    <3>2. Fits(A \o O, e) /\ Fits((A \o O) \o W, e)
      BY <1>1, <2>3, <2>5, <3>1
    <3> QED  BY <2>8, <3>2
  <2>10. ASSUME Fits(Rest, <<>>) PROVE Fits(Rest', <<>>)
    BY <1>1, <2>3, <2>5, <2>7, <2>8, <2>10, Zenon
  <2> QED  BY <1>1, <1>2, <1>3, <1>4, <2>9, <2>10, OpenKept
<1> QED  BY <1>5, <1>6

\* What the client sends is the one message under way.
LEMMA OneMessage ==
  ASSUME NEW m, ~Coming, fromClient' = Append(fromClient, m)
  PROVE  Coming' /\ Len(fromClient') = 1 /\ fromClient'[1] = m
BY DEF Coming

LEMMA OpenHello ==
  ASSUME TypeInv, OpenInv, ClientHello
  PROVE  OpenInv'
<1>1. /\ client = "new" /\ ~Coming /\ ~Forwarding /\ ~Sent /\ ~Replies /\ handler = "startup"
      /\ UNCHANGED <<asked, answers, partial, handler, c2s, s2c, prepared, toServer, fromServer,
                     toClient, replying>>
  BY DEF ClientHello, OpenInv, MessageInv, proxyVars, serverVars
<1>2. PICK m : /\ fromClient' = Append(fromClient, m)
               /\ \/ client' = "refusable" /\ m = Plain("encrypt")
                  \/ client' = "authenticating" /\ m = Plain("startup")
  BY DEF ClientHello, ClientSends
<1>3. Coming' /\ Len(fromClient') = 1 /\ fromClient'[1] = m /\ ~Forwarding' /\ ~Sent' /\ ~Replies'
  BY <1>1, <1>2, OneMessage DEF Forwarding, Sent, Replies
<1>4. Flow' = Flow
  BY <1>1 DEF Flow, Rest, Pending, Replies
<1>5. MessageInv'
  BY <1>1, <1>2, <1>3, MessageTypes DEF OpenInv, MessageInv
<1>6. FlowInv'
  <2>1. PICK e \in Seq(Piece) : Owed(e) /\ Fits(Flow, e)
    BY DEF OpenInv, FlowInv
  <2>2. e = <<>> /\ Owed(e)'
    BY <1>1, <2>1 DEF Owed
  <2> QED  BY <1>3, <1>4, <2>1, <2>2 DEF FlowInv
<1>7. PreparedInv' /\ CountInv'
  BY <1>1, <1>2 DEF OpenInv, PreparedInv, CountInv, Looked
<1> QED  BY <1>5, <1>6, <1>7 DEF OpenInv

LEMMA OpenAsks ==
  ASSUME TypeInv, OpenInv, NEW q \in Queries, ClientAsks(q)
  PROVE  OpenInv'
<1>1. /\ client = "idle" /\ client' = "waiting"
      /\ ~Coming /\ ~Forwarding /\ ~Sent /\ ~Replies /\ handler \notin {"startup", "connect"}
      /\ fromClient' = Append(fromClient, Query(q)) /\ asked' = Append(asked, q)
      /\ UNCHANGED <<answers, partial, handler, c2s, s2c, prepared, toServer, fromServer,
                     toClient, replying>>
  BY DEF ClientAsks, ClientSends, OpenInv, MessageInv, proxyVars, serverVars
<1>2. asked \in Seq(Queries) /\ Len(asked) \in Nat /\ Len(asked) \in 0..Len(asked)
  BY LenProperties DEF TypeInv, TypeOK
<1>3. Len(asked') = Len(asked) + 1 /\ asked'[Len(asked')] = q
  BY <1>1, <1>2, AppendProperties
<1>4. /\ Coming' /\ Len(fromClient') = 1 /\ fromClient'[1] = Query(q)
      /\ ~Forwarding' /\ ~Sent' /\ ~Replies'
  BY <1>1, OneMessage DEF Forwarding, Sent, Replies
<1>5. Flow' = Flow
  BY <1>1 DEF Flow, Rest, Pending, Replies
<1>6. MessageInv'
  BY <1>1, <1>3, <1>4 DEF OpenInv, MessageInv
<1>7. FlowInv'
  <2>1. PICK e \in Seq(Piece) : Owed(e) /\ Fits(Flow, e)
    BY DEF OpenInv, FlowInv
  <2>2. e = <<>> /\ Owed(e)'
    BY <1>1, <2>1 DEF Owed
  <2> QED  BY <1>4, <1>5, <2>1, <2>2 DEF FlowInv
<1>8. PreparedInv'
  <2>1. Looked = Len(asked) /\ Looked' = Len(asked)
    BY <1>1, <1>2, <1>3, <1>4 DEF Looked
  <2>2. ASSUME c2s.pc # "done", NEW n \in Names
        PROVE  Retains(asked', Len(asked), n, prepared[n])
    BY <1>1, <1>2, <2>1, <2>2, RetainsAppend DEF OpenInv, PreparedInv
  <2> QED  BY <1>1, <2>1, <2>2 DEF PreparedInv
<1>9. CountInv'
  BY <1>1, <1>2, <1>3 DEF OpenInv, CountInv
<1> QED  BY <1>6, <1>7, <1>8, <1>9 DEF OpenInv

\* The first piece that reaches the client is the first of what it is owed.
LEMMA FirstRead ==
  ASSUME TypeInv, OpenInv, toClient # <<>>, ~Dead(Head(toClient)),
         toClient' = Tail(toClient), UNCHANGED <<c2s, s2c, fromServer, replying>>
  PROVE  \E e \in Seq(Piece) :
           /\ Owed(e) /\ (UnderWay => e = <<>>) /\ e # <<>>
           /\ e[1] = Head(toClient) /\ Tail(e) \in Seq(Piece) /\ Fits(Flow', Tail(e))
           /\ Replies' => Alone' /\ Head(toClient) = ResultPiece(Done)
<1> DEFINE T == toClient  P == Pending  R == Rest  A == T \o P
<1>1. /\ T \in Seq(Piece) /\ P \in Seq(Piece) /\ R \in Seq(Piece) /\ T # <<>>
      /\ A \in Seq(Piece) /\ Flow \in Seq(Piece) /\ Flow = A \o R
  BY StreamTypes DEF Flow
<1>2. Pending' = P /\ Rest' = R /\ (Replies' <=> Replies) /\ toClient' = Tail(T)
  BY DEF Pending, Rest, Replies
<1>3. Flow' = (Tail(T) \o P) \o R
  BY <1>2 DEF Flow
<1>4. A # <<>> /\ Head(A) = Head(T) /\ Tail(A) = Tail(T) \o P
  BY <1>1, TailConcat
<1> HIDE DEF T, P, R, A
<1>5. Flow # <<>> /\ Head(Flow) = Head(T) /\ Tail(Flow) = Flow'
  <2>1. A \o R # <<>> /\ Head(A \o R) = Head(A) /\ Tail(A \o R) = Tail(A) \o R
    BY <1>1, <1>4, TailConcat
  <2> QED  BY <1>1, <1>3, <1>4, <2>1
<1>6. ~Dead(Head(T)) /\ Head(T) = Head(toClient)
  BY DEF T
<1>7. PICK e \in Seq(Piece) : Owed(e) /\ Fits(Flow, e) /\ (UnderWay => e = <<>>)
  BY DEF OpenInv, FlowInv
<1>8. e # <<>> /\ Head(Flow) = e[1] /\ Fits(Tail(Flow), Tail(e))
  BY <1>1, <1>5, <1>6, <1>7, ReadFits
<1>9. Tail(e) \in Seq(Piece)
  BY <1>8, HeadTailProperties
<1>10. Replies' => Alone' /\ Head(toClient) = ResultPiece(Done)
  <2> SUFFICES ASSUME Replies PROVE Alone' /\ Head(T) = ResultPiece(Done)
    BY <1>2, <1>6
  <2>1. Synthesized /\ (Broken(T) \/ Fits(R, <<>>))
    BY DEF OpenInv, FlowInv, Alone, T, R
  <2>2. Broken(toClient') \/ Fits(Rest', <<>>)
    BY <1>1, <1>2, <1>6, <2>1, BrokenTail
  <2>3. PICK t \in Statuses :
          \/ c2s.out = CommandComplete(t) /\ Fits(T, <<>>)
          \/ c2s.out = <<ReadyForQuery(t)>> /\ Fits(T, <<ResultPiece(Done)>>)
    BY <2>1 DEF Synthesized, T
  <2>4. ~Fits(T, <<>>)
    BY <1>1, <1>6, ReadFits, EmptySeq
  <2>5. <<ResultPiece(Done)>> \in Seq(Piece) /\ Tail(<<ResultPiece(Done)>>) = <<>>
    BY ResultTypes, ResultPieceTypes
  <2>6. Head(T) = ResultPiece(Done) /\ Fits(Tail(T), <<>>)
    BY <1>1, <1>6, <2>3, <2>4, <2>5, ReadFits
  <2>7. Fits(Tail(T), <<ResultPiece(Done)>>)
    <3>1. Tail(T) \in Seq(Piece)
      BY <1>1, HeadTailProperties
    <3> QED  BY <2>6, <3>1, EmptyBound
  <2>8. Synthesized'
    BY <1>2, <2>3, <2>4, <2>7 DEF Synthesized
  <2> QED  BY <2>2, <2>6, <2>8 DEF Alone
<1> QED  BY <1>5, <1>6, <1>7, <1>8, <1>9, <1>10

\* What the client reads is what it is owed, or the connection is lost.
LEMMA ReadForms ==
  ASSUME TypeInv, OpenInv, ClientReads, client' # "closed"
  PROVE  /\ UNCHANGED <<asked, handler, c2s, s2c, prepared, toServer, fromServer, replying>>
         /\ toClient # <<>> /\ ~Dead(Head(toClient)) /\ toClient' = Tail(toClient)
         /\ \/ /\ client = "refusable" /\ Head(toClient) = Token("refused")
               /\ fromClient' = Append(fromClient, Plain("startup"))
               /\ client' = "authenticating" /\ UNCHANGED <<answers, partial>>
            \/ /\ client = "authenticating" /\ Head(toClient) = Token("auth")
               /\ fromClient' = Append(fromClient, Plain("password"))
               /\ client' = client /\ UNCHANGED <<answers, partial>>
            \/ /\ client = "authenticating" /\ Head(toClient) = ReadyForQuery("I")
               /\ client' = "idle" /\ UNCHANGED <<answers, fromClient>>
            \/ /\ client = "waiting"
               /\ \E a \in Mine, t \in Statuses :
                    /\ Head(toClient) = ResultPiece(a) /\ partial' = a
                    /\ Fits(Flow', <<ReadyForQuery(t)>>)
               /\ UNCHANGED <<client, answers, fromClient>>
            \/ /\ client = "waiting" /\ partial \in Mine
               /\ \E t \in Statuses : Head(toClient) = ReadyForQuery(t)
               /\ client' = "idle" /\ answers' = Append(answers, partial)
               /\ UNCHANGED fromClient
         /\ ~UnderWay
         /\ Replies' => Alone' /\ Head(toClient) = ResultPiece(Done)
         /\ Head(toClient).kind # "result" => Fits(Flow', <<>>)
<1> DEFINE p == Head(toClient)
<1>1. /\ UNCHANGED <<asked, handler, c2s, s2c, prepared, toServer, fromServer, replying>>
      /\ toClient # <<>> /\ toClient' = Tail(toClient)
  BY DEF ClientReads, proxyVars, serverVars
<1>2. \/ /\ p.kind = "refused"
         /\ fromClient' = Append(fromClient, Plain("startup")) /\ client' = "authenticating"
         /\ UNCHANGED <<answers, partial>>
      \/ /\ p.kind = "auth"
         /\ fromClient' = Append(fromClient, Plain("password")) /\ client' = client
         /\ UNCHANGED <<answers, partial>>
      \/ /\ p.kind = "result"
         /\ partial' = p.result
         /\ UNCHANGED <<client, answers, fromClient>>
      \/ /\ p.kind = "ready"
         /\ client' = "idle"
         /\ answers' = IF client = "waiting" THEN Append(answers, partial) ELSE answers
         /\ UNCHANGED fromClient
  BY DEF ClientReads, ClientSends
<1>3. ~Dead(p)
  BY <1>2 DEF Dead
<1>4. PICK e \in Seq(Piece) :
        /\ Owed(e) /\ (UnderWay => e = <<>>) /\ e # <<>>
        /\ e[1] = p /\ Tail(e) \in Seq(Piece) /\ Fits(Flow', Tail(e))
        /\ Replies' => Alone' /\ p = ResultPiece(Done)
  BY <1>1, <1>3, FirstRead
<1> HIDE DEF p
<1>5. CASE client = "refusable"
  <2>1. e = <<Token("refused")>>
    BY <1>4, <1>5 DEF Owed
  <2>2. p = Token("refused") /\ p.kind = "refused" /\ Tail(e) = <<>>
    BY <1>4, <2>1, TokenTypes
  <2> QED  BY <1>1, <1>2, <1>3, <1>4, <1>5, <2>2 DEF p
<1>6. CASE client = "authenticating"
  <2>1. e = <<Token("auth")>> \/ e = <<ReadyForQuery("I")>>
    BY <1>4, <1>6 DEF Owed
  <2>2. CASE e = <<Token("auth")>>
    <3>1. p = Token("auth") /\ p.kind = "auth" /\ Tail(e) = <<>>
      BY <1>4, <2>2, TokenTypes
    <3> QED  BY <1>1, <1>2, <1>3, <1>4, <1>6, <3>1 DEF p
  <2>3. CASE e = <<ReadyForQuery("I")>>
    <3>1. p = ReadyForQuery("I") /\ p.kind = "ready" /\ Tail(e) = <<>>
      BY <1>4, <2>3, ReadyTypes
    <3> QED  BY <1>1, <1>2, <1>3, <1>4, <1>6, <3>1 DEF p
  <2> QED  BY <2>1, <2>2, <2>3
<1>7. CASE client = "waiting"
  <2>1. PICK t \in Statuses : \/ \E a \in Mine : e = <<ResultPiece(a), ReadyForQuery(t)>>
                              \/ partial \in Mine /\ e = <<ReadyForQuery(t)>>
    BY <1>4, <1>7 DEF Owed
  <2>2. CASE \E a \in Mine : e = <<ResultPiece(a), ReadyForQuery(t)>>
    <3>1. PICK a \in Mine : e = <<ResultPiece(a), ReadyForQuery(t)>>
      BY <2>2
    <3>2. p = ResultPiece(a) /\ Tail(e) = <<ReadyForQuery(t)>>
      BY <1>4, <3>1
    <3>3. p.kind = "result" /\ p.result = a
      BY <3>2 DEF ResultPiece
    <3> QED  BY <1>1, <1>2, <1>3, <1>4, <1>7, <3>2, <3>3 DEF p
  <2>3. CASE partial \in Mine /\ e = <<ReadyForQuery(t)>>
    <3>1. p = ReadyForQuery(t) /\ p.kind = "ready" /\ Tail(e) = <<>>
      BY <1>4, <2>3, ReadyTypes DEF Statuses
    <3> QED  BY <1>1, <1>2, <1>3, <1>4, <1>7, <2>3, <3>1 DEF p
  <2> QED  BY <2>1, <2>2, <2>3
<1> QED  BY <1>5, <1>6, <1>7 DEF ClientReads

LEMMA OpenReads ==
  ASSUME TypeInv, OpenInv, ClientReads, client' # "closed"
  PROVE  OpenInv'
<1>1. /\ UNCHANGED <<asked, handler, c2s, s2c, prepared, toServer, fromServer, replying>>
      /\ ~UnderWay
      /\ Replies' => Alone' /\ Head(toClient) = ResultPiece(Done)
      /\ Head(toClient).kind # "result" => Fits(Flow', <<>>)
  BY ReadForms
<1>2. /\ ~Coming /\ ~Forwarding /\ ~Sent /\ handler # "connect"
      /\ ~Forwarding' /\ ~Sent' /\ (Replies' <=> Replies) /\ handler' = handler /\ Mine' = Mine
  BY <1>1 DEF UnderWay, Forwarding, Sent, Replies, Mine
<1>3. Replies => client = "waiting"
  BY DEF OpenInv, MessageInv
<1>4. Owed(<<>>)' /\ <<>> \in Seq(Piece)
  BY DEF Owed
<1>5. CASE /\ client = "refusable" /\ Head(toClient) = Token("refused")
           /\ fromClient' = Append(fromClient, Plain("startup"))
           /\ client' = "authenticating" /\ UNCHANGED <<answers, partial>>
  <2>1. Coming' /\ Len(fromClient') = 1 /\ fromClient'[1] = Plain("startup")
    BY <1>2, <1>5, OneMessage
  <2>2. Fits(Flow', <<>>) /\ ~Replies'
    BY <1>1, <1>2, <1>3, <1>5, TokenTypes
  <2>3. MessageInv'
    BY <1>1, <1>2, <1>5, <2>1, <2>2, MessageTypes DEF OpenInv, MessageInv
  <2>4. FlowInv'
    BY <1>4, <2>2 DEF FlowInv
  <2>5. PreparedInv' /\ CountInv'
    BY <1>1, <1>5 DEF OpenInv, PreparedInv, CountInv, Looked
  <2> QED  BY <2>3, <2>4, <2>5 DEF OpenInv
<1>6. CASE /\ client = "authenticating" /\ Head(toClient) = Token("auth")
           /\ fromClient' = Append(fromClient, Plain("password"))
           /\ client' = client /\ UNCHANGED <<answers, partial>>
  <2>1. Coming' /\ Len(fromClient') = 1 /\ fromClient'[1] = Plain("password")
    BY <1>2, <1>6, OneMessage
  <2>2. Fits(Flow', <<>>) /\ ~Replies'
    BY <1>1, <1>2, <1>3, <1>6, TokenTypes
  <2>3. MessageInv'
    BY <1>1, <1>2, <1>6, <2>1, <2>2, MessageTypes DEF OpenInv, MessageInv
  <2>4. FlowInv'
    BY <1>4, <2>2 DEF FlowInv
  <2>5. PreparedInv' /\ CountInv'
    BY <1>1, <1>6 DEF OpenInv, PreparedInv, CountInv, Looked
  <2> QED  BY <2>3, <2>4, <2>5 DEF OpenInv
<1>7. CASE /\ client = "authenticating" /\ Head(toClient) = ReadyForQuery("I")
           /\ client' = "idle" /\ UNCHANGED <<answers, fromClient>>
  <2>1. Fits(Flow', <<>>) /\ ~Replies' /\ ~Coming'
    BY <1>1, <1>2, <1>3, <1>7, ReadyTypes DEF Coming
  <2>2. handler # "startup"
    BY <1>2, <1>7 DEF OpenInv, MessageInv
  <2>3. MessageInv'
    BY <1>1, <1>2, <1>7, <2>1, <2>2 DEF OpenInv, MessageInv
  <2>4. FlowInv'
    BY <1>4, <2>1 DEF FlowInv
  <2>5. PreparedInv' /\ CountInv'
    BY <1>1, <1>7 DEF OpenInv, PreparedInv, CountInv, Looked
  <2> QED  BY <2>3, <2>4, <2>5 DEF OpenInv
<1>8. CASE /\ client = "waiting"
           /\ \E a \in Mine, t \in Statuses :
                /\ Head(toClient) = ResultPiece(a) /\ partial' = a
                /\ Fits(Flow', <<ReadyForQuery(t)>>)
           /\ UNCHANGED <<client, answers, fromClient>>
  <2>1. PICK t \in Statuses : Fits(Flow', <<ReadyForQuery(t)>>)
    BY <1>8
  <2>2. partial' \in Mine /\ <<ReadyForQuery(t)>> \in Seq(Piece) /\ ~Coming'
    BY <1>2, <1>8, ReadyTypes DEF Coming, Statuses
  <2>3. Owed(<<ReadyForQuery(t)>>)'
    BY <1>2, <1>8, <2>2 DEF Owed
  <2>4. MessageInv'
    BY <1>1, <1>2, <1>8, <2>2 DEF OpenInv, MessageInv
  <2>5. FlowInv'
    BY <1>1, <1>2, <2>1, <2>2, <2>3 DEF FlowInv, UnderWay
  <2>6. PreparedInv' /\ CountInv'
    BY <1>1, <1>2, <1>8, <2>2 DEF OpenInv, PreparedInv, CountInv, Looked
  <2> QED  BY <2>4, <2>5, <2>6 DEF OpenInv
<1>9. CASE /\ client = "waiting" /\ partial \in Mine
           /\ \E t \in Statuses : Head(toClient) = ReadyForQuery(t)
           /\ client' = "idle" /\ answers' = Append(answers, partial)
           /\ UNCHANGED fromClient
  <2>1. Head(toClient).kind = "ready" /\ ResultPiece(Done).kind = "result"
    BY <1>9, ReadyTypes, ResultTypes, ResultPieceTypes DEF Statuses
  <2>2. Fits(Flow', <<>>) /\ ~Replies' /\ ~Coming'
    BY <1>1, <1>2, <1>9, <2>1 DEF Coming
  <2>3. MessageInv'
    BY <1>1, <1>2, <1>9, <2>2 DEF OpenInv, MessageInv
  <2>4. FlowInv'
    BY <1>4, <2>2 DEF FlowInv
  <2>5. CountInv'
    <3>1. Len(answers') = Len(answers) + 1 /\ Len(answers) \in Nat /\ Len(asked) \in Nat
      BY <1>9, AppendProperties, LenProperties DEF TypeInv, TypeOK
    <3> QED  BY <1>1, <1>9, <3>1 DEF OpenInv, CountInv
  <2>6. PreparedInv'
    BY <1>1, <1>2, <1>9, <2>2 DEF OpenInv, PreparedInv, Looked
  <2> QED  BY <2>3, <2>4, <2>5, <2>6 DEF OpenInv
<1> QED  BY <1>5, <1>6, <1>7, <1>8, <1>9, ReadForms

\* Nothing is read while a message is under way.
LEMMA NothingOwed ==
  ASSUME OpenInv, UnderWay
  PROVE  Fits(Flow, <<>>) /\ <<>> \in Seq(Piece)
<1>1. PICK e \in Seq(Piece) : Owed(e) /\ Fits(Flow, e) /\ (UnderWay => e = <<>>)
  BY DEF OpenInv, FlowInv
<1> QED  BY <1>1

LEMMA SingleTail ==
  ASSUME NEW S, NEW f \in Seq(S), f # <<>>, Len(f) <= 1
  PROVE  Len(f) = 1 /\ Tail(f) = <<>> /\ Head(f) = f[1] /\ Head(f) \in S
<1>1. Len(f) \in Nat \ {0}
  BY EmptySeq
<1>2. Len(f) = 1
  BY <1>1
<1>3. Len(Tail(f)) = 0 /\ Tail(f) \in Seq(S) /\ Head(f) \in S
  BY <1>2, HeadTailProperties
<1>4. Tail(f) = <<>>
  BY <1>3, EmptySeq
<1> QED  BY <1>2, <1>3, <1>4

LEMMA TakenMessage ==
  ASSUME TypeInv, OpenInv, Coming, fromClient' = Tail(fromClient)
  PROVE  ~Coming' /\ Head(fromClient) = fromClient[1] /\ Len(fromClient') <= 1
<1>1. fromClient \in Seq(Message) /\ fromClient # <<>> /\ Len(fromClient) <= 1
  BY DEF TypeInv, TypeOK, Coming, OpenInv, MessageInv
<1>2. fromClient' = <<>> /\ Head(fromClient) = fromClient[1]
  BY <1>1, SingleTail
<1> QED  BY <1>2 DEF Coming

LEMMA OpenStartup ==
  ASSUME TypeInv, OpenInv, client # "closed", ReadStartup
  PROVE  OpenInv'
<1>1. /\ handler = "startup" /\ Coming /\ fromClient' = Tail(fromClient)
      /\ UNCHANGED <<client, asked, answers, partial, c2s, s2c, prepared, toServer, fromServer,
                     replying>>
      /\ \/ /\ fromClient[1].type = "encrypt" /\ handler' = handler
            /\ toClient' \in {toClient, Append(toClient, Token("refused"))}
         \/ /\ fromClient[1].type = "startup" /\ handler' = "connect" /\ toClient' = toClient
  BY DEF ReadStartup, Coming, clientVars, serverVars
<1>2. ~Coming' /\ Len(fromClient') <= 1 /\ UnderWay
  BY <1>1, TakenMessage DEF UnderWay
<1>3. c2s.pc = "off" /\ s2c.out = <<>> /\ fromServer = <<>> /\ replying = <<>> /\ toServer = <<>>
  BY <1>1 DEF TypeInv, HandlerInv, ThreadInv
<1>4. /\ ~Forwarding /\ ~Replies /\ ~Sent /\ ~Forwarding' /\ ~Replies' /\ ~Sent'
      /\ Flow = (toClient \o <<>>) \o (<<>> \o (<<>> \o <<>>))
      /\ Flow' = (toClient' \o <<>>) \o (<<>> \o (<<>> \o <<>>))
  BY <1>1, <1>3 DEF Forwarding, Replies, Sent, Flow, Pending, Rest
<1>5. /\ toClient \in Seq(Piece) /\ Token("refused") \in Piece
      /\ <<Token("refused")>> \in Seq(Piece)
      /\ Append(toClient, Token("refused")) = toClient \o <<Token("refused")>>
      /\ Append(toClient, Token("refused")) \in Seq(Piece)
  BY TokenTypes, AppendIsConcat, AppendProperties DEF TypeInv, TypeOK
<1>6. \A f \in Seq(Piece) : (f \o <<>>) \o (<<>> \o (<<>> \o <<>>)) = f
  BY ConcatEmptySeq, EmptySeq
<1>7. Fits(toClient, <<>>) /\ <<>> \in Seq(Piece)
  BY <1>2, <1>4, <1>5, <1>6, NothingOwed
<1>8. Flow' = toClient'
  BY <1>1, <1>4, <1>5, <1>6
<1>9. client = "refusable" \/ client = "authenticating"
  BY <1>1 DEF OpenInv, MessageInv, TypeInv, TypeOK
<1>10. FlowInv'
  <2>1. CASE toClient' = toClient
    <3>1. Owed(<<>>)' /\ Fits(Flow', <<>>)
      BY <1>7, <1>8, <2>1 DEF Owed
    <3> QED  BY <1>4, <1>7, <3>1 DEF FlowInv
  <2>2. CASE toClient' # toClient
    <3>1. /\ fromClient[1].type = "encrypt" /\ handler' = "startup"
          /\ toClient' = toClient \o <<Token("refused")>>
      BY <1>1, <1>5, <2>2
    <3>2. client' = "refusable"
      BY <1>1, <1>9, <3>1 DEF OpenInv, MessageInv
    <3>3. Fits(Flow', <<Token("refused")>>)
      BY <1>5, <1>7, <1>8, <3>1, NewFits
    <3>4. Owed(<<Token("refused")>>)' /\ ~UnderWay'
      BY <1>2, <1>4, <3>1, <3>2 DEF Owed, UnderWay
    <3> QED  BY <1>4, <1>5, <3>3, <3>4 DEF FlowInv
  <2> QED  BY <2>1, <2>2
<1>11. MessageInv'
  <2>1. CASE fromClient[1].type = "encrypt" /\ handler' = handler
    <3>1. client = "refusable" /\ client' = "refusable"
      BY <1>1, <1>9, <2>1 DEF OpenInv, MessageInv
    <3> QED  BY <1>1, <1>2, <1>3, <1>4, <2>1, <3>1, EmptySeq DEF OpenInv, MessageInv
  <2>2. CASE fromClient[1].type = "startup" /\ handler' = "connect"
    <3>1. client = "authenticating" /\ client' = "authenticating"
      BY <1>1, <1>9, <2>2 DEF OpenInv, MessageInv
    <3> QED  BY <1>1, <1>2, <1>3, <1>4, <2>2, <3>1, EmptySeq DEF OpenInv, MessageInv
  <2> QED  BY <1>1, <2>1, <2>2
<1>12. PreparedInv' /\ CountInv'
  BY <1>1, <1>9 DEF OpenInv, PreparedInv, CountInv, Looked
<1> QED  BY <1>10, <1>11, <1>12 DEF OpenInv

LEMMA OpenConnect ==
  ASSUME TypeInv, OpenInv, client # "closed", ConnectUpstream
  PROVE  OpenInv'
<1>1. /\ handler = "connect" /\ handler' = "pump" /\ toServer' = <<Plain("startup")>>
      /\ UNCHANGED <<client, asked, answers, partial, prepared, fromClient, fromServer, toClient,
                     replying>>
      /\ c2s.pc = "off" /\ c2s' = [c2s EXCEPT !.pc = "recv"]
      /\ s2c' = [s2c EXCEPT !.pc = "recv"]
  BY DEF ConnectUpstream, clientVars, TypeInv, HandlerInv
<1>2. c2s'.pc = "recv" /\ s2c'.out = s2c.out
  BY <1>1 DEF TypeInv, TypeOK, Thread
<1>3. /\ UnderWay /\ ~Forwarding' /\ ~Replies' /\ ~Replies
      /\ Flow' = Flow
  BY <1>1, <1>2 DEF UnderWay, Forwarding, Replies, Flow, Pending, Rest
<1>4. client = "authenticating" /\ ~Coming /\ ~Coming'
  BY <1>1 DEF OpenInv, MessageInv, Coming
<1>5. ForServer(toServer[1])' /\ Len(toServer') = 1
  BY <1>1, <1>4, MessageTypes DEF ForServer
<1>6. MessageInv'
  BY <1>1, <1>3, <1>4, <1>5 DEF OpenInv, MessageInv
<1>7. FlowInv'
  <2>1. Owed(<<>>)'
    BY DEF Owed
  <2> QED  BY <1>3, <2>1, NothingOwed DEF FlowInv
<1>8. PreparedInv' /\ CountInv'
  BY <1>1, <1>2, <1>4 DEF OpenInv, PreparedInv, CountInv, Looked
<1> QED  BY <1>6, <1>7, <1>8 DEF OpenInv

LEMMA OpenForward ==
  ASSUME TypeInv, OpenInv, client # "closed", C2sForward
  PROVE  OpenInv'
<1>1. /\ Forwarding /\ c2s' = [pc |-> "recv", out |-> <<>>]
      /\ toServer' = toServer \o c2s.out \/ toServer' = toServer
      /\ UNCHANGED <<client, asked, answers, partial, handler, s2c, prepared, fromClient,
                     fromServer, toClient, replying>>
  BY DEF C2sForward, Forwarding, clientVars, serverVars
<1>2. /\ UnderWay /\ ~Forwarding' /\ ~Replies' /\ ~Replies /\ Flow' = Flow
  BY <1>1 DEF UnderWay, Forwarding, Replies, Flow, Pending, Rest
<1>3. /\ ~Sent /\ toServer = <<>> /\ ~Coming /\ ~Coming' /\ ForServer(c2s.out[1])
      /\ c2s.out \in Seq(Message) /\ Len(c2s.out) = 1
  BY <1>1 DEF OpenInv, MessageInv, Coming, Sent, TypeInv, ThreadInv
<1>4. toServer' = c2s.out \/ toServer' = <<>>
  <2>1. <<>> \o c2s.out = c2s.out
    BY <1>3, ConcatEmptySeq
  <2> QED  BY <1>1, <1>3, <2>1
<1>5. Mine' = Mine
  BY <1>1 DEF Mine
<1>6. Len(toServer') <= 1 /\ (Sent' => ForServer(toServer[1])')
  <2>2. CASE toServer' = c2s.out
    <3>1. toServer'[1] = c2s.out[1] /\ Len(toServer') = 1
      BY <1>3, <2>2
    <3>2. ForServer(toServer[1])'
      BY <1>1, <1>3, <1>5, <3>1 DEF ForServer, Serves
    <3> QED  BY <3>1, <3>2
  <2>3. CASE toServer' = <<>>
    BY <2>3 DEF Sent
  <2> QED  BY <1>4, <2>2, <2>3
<1>7. MessageInv'
  BY <1>1, <1>2, <1>3, <1>6 DEF OpenInv, MessageInv, TypeInv, HandlerInv, Forwarding
<1>8. FlowInv'
  <2>1. Owed(<<>>)'
    BY DEF Owed
  <2> QED  BY <1>2, <2>1, NothingOwed DEF FlowInv
<1>9. PreparedInv' /\ CountInv'
  BY <1>1, <1>3 DEF OpenInv, PreparedInv, CountInv, Looked, Forwarding
<1> QED  BY <1>7, <1>8, <1>9 DEF OpenInv

\* DSQL's answer is the first that is read, and it is allowed.
LEMMA OpenTaken ==
  ASSUME TypeInv, OpenInv, client # "closed", ServerTakes
  PROVE  OpenInv'
<1>1. /\ Sent /\ replying = <<>> /\ toServer' = Tail(toServer) /\ toServer \in Seq(Message)
      /\ UNCHANGED <<client, asked, answers, partial, handler, c2s, s2c, prepared, fromClient,
                     fromServer, toClient>>
  BY DEF ServerTakes, Sent, clientVars, proxyVars, TypeInv, TypeOK
<1>2. toServer' = <<>> /\ Head(toServer) = toServer[1] /\ Head(toServer) \in Message
  <2>1. toServer # <<>> /\ Len(toServer) <= 1
    BY <1>1 DEF Sent, OpenInv, MessageInv
  <2> QED  BY <1>1, <2>1, SingleTail
<1>3. /\ ~Coming /\ ~Forwarding /\ ~Replies /\ ~Sent' /\ UnderWay /\ handler # "connect"
      /\ ~Coming' /\ ~Forwarding' /\ ~Replies' /\ ForServer(Head(toServer))
      /\ Mine' = Mine
  BY <1>1, <1>2 DEF OpenInv, MessageInv, Coming, Forwarding, Replies, Sent, UnderWay, Mine, TypeInv,
                    HandlerInv
<1>4. PICK e \in Seq(Piece) : Owed(e)' /\ replying' = e
  <2>1. CASE Head(toServer).type # "Q"
    <3>1. client = "authenticating" /\ client' = "authenticating"
      BY <1>1, <1>3, <2>1 DEF ForServer
    <3>2. replying' = <<Token("auth")>> \/ replying' = <<ReadyForQuery("I")>>
      BY <2>1 DEF ServerTakes
    <3>3. <<Token("auth")>> \in Seq(Piece) /\ <<ReadyForQuery("I")>> \in Seq(Piece)
      BY TokenTypes, ReadyTypes
    <3> QED  BY <3>1, <3>2, <3>3 DEF Owed
  <2>2. CASE Head(toServer).type = "Q"
    <3> DEFINE q == Head(toServer).query
    <3>1. client = "waiting" /\ client' = "waiting" /\ Serves(q) /\ q \in Seq(Statement)
      BY <1>1, <1>2, <1>3, <2>2, MessageTypes DEF ForServer
    <3>2. Runs(q) /\ TypeOK
      BY <2>2 DEF ServerTakes, TypeInv
    <3> HIDE DEF q
    <3>3. PICK r : /\ replying' = <<ResultPiece(r), ReadyForQuery(txn')>>
                   /\ r = Error \/ (r = Results(q) /\ \A j \in DOMAIN q : Accepts(q[j]))
      BY <3>2 DEF Runs
    <3>4. r \in Mine' /\ txn' \in Statuses /\ replying' \in Seq(Piece)
      BY <1>3, <3>1, <3>2, <3>3, RunTypes DEF Serves, Statuses
    <3>5. Owed(replying)'
      BY <3>1, <3>3, <3>4 DEF Owed
    <3> QED  BY <3>4, <3>5
  <2> QED  BY <2>1, <2>2
<1>5. Fits(Flow', e)
  <2> DEFINE A == toClient \o Pending  O == s2c.out \o fromServer
  <2>1. /\ A \in Seq(Piece) /\ s2c.out \in Seq(Piece) /\ fromServer \in Seq(Piece)
        /\ Flow = A \o (s2c.out \o (fromServer \o <<>>)) /\ Flow \in Seq(Piece)
        /\ Flow' = A \o (s2c.out \o (fromServer \o e))
    BY <1>1, <1>3, <1>4, StreamTypes DEF Flow, Rest, Pending, Replies
  <2>2. O = s2c.out \o fromServer
    OBVIOUS
  <2> HIDE DEF A, O
  <2>3. \A x \in Seq(Piece) : A \o (s2c.out \o (fromServer \o x)) = (A \o O) \o x
    <3>1. O \in Seq(Piece)
      BY <2>1, <2>2, ConcatProperties
    <3>2. \A x \in Seq(Piece) : s2c.out \o (fromServer \o x) = (s2c.out \o fromServer) \o x
      BY <2>1, ConcatPieces, Zenon
    <3>3. \A x \in Seq(Piece) : A \o (O \o x) = (A \o O) \o x
      BY <2>1, <3>1, ConcatPieces, Zenon
    <3> QED  BY <2>2, <3>2, <3>3
  <2>4. A \o O \in Seq(Piece) /\ (A \o O) \o <<>> = A \o O
    BY <2>1, <2>2, ConcatProperties, ConcatEmptySeq
  <2>5. Fits(A \o O, <<>>)
    <3>1. Fits(Flow, <<>>) /\ <<>> \in Seq(Piece)
      BY <1>3, NothingOwed
    <3>2. Flow = A \o O
      BY <2>1, <2>3, <2>4, <3>1, Zenon
    <3> QED  BY <3>1, <3>2
  <2>6. Fits((A \o O) \o e, e)
    BY <1>4, <2>4, <2>5, NewFits
  <2> QED  BY <1>4, <2>1, <2>3, <2>6, Zenon
<1>6. MessageInv'
  BY <1>1, <1>2, <1>3, EmptySeq DEF OpenInv, MessageInv
<1>7. FlowInv'
  BY <1>1, <1>3, <1>4, <1>5 DEF FlowInv, UnderWay
<1>8. PreparedInv' /\ CountInv'
  BY <1>1, <1>3 DEF OpenInv, PreparedInv, CountInv, Looked
<1> QED  BY <1>6, <1>7, <1>8 DEF OpenInv

\* What client_to_server finds when it reads a message.
LEMMA ReceivedForms ==
  ASSUME TypeInv, OpenInv, client # "closed", C2sRecv
  PROVE  /\ Coming /\ ~Coming' /\ Len(fromClient') <= 1
         /\ ~Forwarding /\ ~Sent /\ ~Sent' /\ ~Replies /\ UnderWay
         /\ handler \notin {"startup", "connect"} /\ c2s.pc = "recv"
         /\ UNCHANGED <<client, asked, answers, partial, handler, s2c, toServer, fromServer,
                        toClient, replying>>
         /\ \/ /\ client = "authenticating" /\ fromClient[1].type # "Q"
               /\ c2s' = [pc |-> "forward", out |-> <<fromClient[1]>>] /\ UNCHANGED prepared
            \/ /\ client = "waiting" /\ asked # <<>> /\ Len(asked) \in 1..Len(asked)
               /\ asked[Len(asked)] \in Queries
               /\ Intercept(asked[Len(asked)])
<1>1. /\ c2s.pc = "recv" /\ Coming /\ fromClient' = Tail(fromClient)
      /\ UNCHANGED <<client, asked, answers, partial, handler, s2c, toServer, fromServer,
                     toClient, replying>>
      /\ IF Head(fromClient).type = "Q" THEN Intercept(Head(fromClient).query)
         ELSE c2s' = [pc |-> "forward", out |-> <<Head(fromClient)>>] /\ UNCHANGED prepared
  BY DEF C2sRecv, Coming, clientVars, serverVars
<1>2. ~Coming' /\ Head(fromClient) = fromClient[1] /\ Len(fromClient') <= 1
  BY <1>1, TakenMessage
<1>3. handler \notin {"startup", "connect"}
  BY <1>1 DEF TypeInv, HandlerInv
<1>4. client \in {"authenticating", "waiting"}
  BY <1>1, <1>3 DEF OpenInv, MessageInv, TypeInv, TypeOK
<1>5. ~Forwarding /\ ~Sent /\ ~Sent' /\ ~Replies /\ UnderWay
  BY <1>1 DEF OpenInv, MessageInv, Sent, UnderWay
<1>6. CASE client = "authenticating"
  <2>1. fromClient[1].type # "Q"
    BY <1>1, <1>6 DEF OpenInv, MessageInv
  <2> QED  BY <1>1, <1>2, <1>3, <1>5, <1>6, <2>1
<1>7. CASE client = "waiting"
  <2>1. fromClient[1] = Query(asked[Len(asked)])
    BY <1>1, <1>7 DEF OpenInv, MessageInv
  <2>2. asked \in Seq(Queries) /\ answers \in Seq(Seq(AllResults))
    BY DEF TypeInv, TypeOK
  <2>3. Len(asked) = Len(answers) + 1 /\ Len(answers) \in Nat /\ Len(asked) \in Nat
    BY <1>7, <2>2, LenProperties DEF OpenInv, CountInv
  <2>4. Len(asked) \in 1..Len(asked)
    BY <2>3
  <2>5. asked # <<>> /\ asked[Len(asked)] \in Queries
    BY <2>2, <2>3, <2>4, ElementOfSeq, EmptySeq
  <2>6. Head(fromClient).type = "Q" /\ Head(fromClient).query = asked[Len(asked)]
    BY <1>2, <2>1 DEF Query
  <2>7. Intercept(asked[Len(asked)])
    BY <1>1, <2>6
  <2> QED  BY <1>1, <1>2, <1>3, <1>5, <1>7, <2>4, <2>5, <2>7
<1> QED  BY <1>4, <1>6, <1>7

LEMMA ReceivedForwards ==
  ASSUME TypeInv, OpenInv, client # "closed", C2sRecv, NEW m,
         c2s' = [pc |-> "forward", out |-> <<m>>], ForServer(m)
  PROVE  MessageInv' /\ FlowInv'
<1>1. /\ ~Coming' /\ Len(fromClient') <= 1 /\ ~Replies /\ UnderWay
      /\ ~Sent' /\ handler \notin {"startup", "connect"}
      /\ UNCHANGED <<client, asked, answers, partial, handler, s2c, toServer, fromServer,
                     toClient, replying>>
  BY ReceivedForms
<1>2. Forwarding' /\ ~Replies' /\ c2s'.out[1] = m /\ Mine' = Mine
  BY <1>1 DEF Forwarding, Replies, Mine
<1>3. client' \in {"authenticating", "waiting"}
  BY <1>1 DEF ForServer
<1>4. ForServer(c2s.out[1])'
  BY <1>1, <1>2 DEF ForServer, Serves
<1>5. MessageInv'
  BY <1>1, <1>2, <1>3, <1>4 DEF OpenInv, MessageInv
<1>6. Flow' = Flow
  BY <1>1, <1>2 DEF Flow, Pending, Rest
<1>7. Owed(<<>>)'
  BY DEF Owed
<1>8. FlowInv'
  BY <1>1, <1>2, <1>6, <1>7, NothingOwed DEF FlowInv
<1> QED  BY <1>5, <1>8

LEMMA ReceivedReplies ==
  ASSUME TypeInv, OpenInv, client = "waiting", C2sRecv, NEW t \in Statuses,
         c2s' = [pc |-> "lock", out |-> CommandComplete(t)], Done \in Mine
  PROVE  MessageInv' /\ FlowInv'
<1>1. /\ ~Coming' /\ Len(fromClient') <= 1 /\ ~Replies /\ UnderWay
      /\ ~Sent' /\ handler \notin {"startup", "connect"}
      /\ UNCHANGED <<client, asked, answers, partial, handler, s2c, toServer, fromServer,
                     toClient, replying>>
  BY ReceivedForms
<1>2. ~Forwarding' /\ Replies' /\ c2s'.out = CommandComplete(t) /\ Mine' = Mine
      /\ ~UnderWay'
  BY <1>1 DEF Forwarding, Replies, Mine, UnderWay
<1>3. MessageInv'
  BY <1>1, <1>2 DEF OpenInv, MessageInv
<1> DEFINE C == CommandComplete(t)
<1>4. C \in Seq(Piece) /\ C = <<ResultPiece(Done), ReadyForQuery(t)>>
  BY CompletionTypes DEF CommandComplete, Statuses
<1>5. /\ toClient \in Seq(Piece) /\ Rest \in Seq(Piece)
      /\ Flow = (toClient \o <<>>) \o Rest /\ toClient \o <<>> = toClient
      /\ Flow' = (toClient \o C) \o Rest /\ Rest' = Rest
  BY <1>1, <1>2, StreamTypes, ConcatEmptySeq DEF Flow, Pending, Rest
<1> HIDE DEF C
<1>6. Fits(toClient, <<>>) /\ (Broken(toClient) \/ Fits(Rest, <<>>))
  <2>1. Fits(toClient \o Rest, <<>>)
    BY <1>1, <1>5, NothingOwed
  <2> QED  BY <1>5, <2>1, EmptySplit
<1>7. Fits(Flow', C)
  <2>1. Fits(toClient \o C, C) /\ toClient \o C \in Seq(Piece)
    BY <1>4, <1>5, <1>6, NewFits, ConcatProperties
  <2>2. Broken(toClient \o C) \/ Fits(Rest, <<>>)
    BY <1>4, <1>5, <1>6, BrokenConcat
  <2> QED  BY <1>4, <1>5, <2>1, <2>2, BrokenFits
<1>8. Owed(C)'
  BY <1>1, <1>2, <1>4 DEF Owed
<1>9. Alone'
  <2>1. Synthesized'
    BY <1>1, <1>2, <1>6 DEF Synthesized
  <2> QED  BY <1>1, <1>5, <1>6, <2>1 DEF Alone
<1>10. FlowInv'
  BY <1>2, <1>4, <1>7, <1>8, <1>9 DEF FlowInv
<1> QED  BY <1>3, <1>10

LEMMA ReceivedPrepares ==
  ASSUME TypeInv, OpenInv, client = "waiting", C2sRecv
  PROVE  PreparedInv'
<1> DEFINE n == Len(asked)  q == asked[n]
<1>1. /\ Coming /\ ~Coming' /\ c2s.pc = "recv" /\ UNCHANGED <<client, asked>>
      /\ asked # <<>> /\ q \in Queries /\ Intercept(q)
  BY ReceivedForms
<1>2. /\ asked \in Seq(Queries) /\ prepared \in [Names -> Bodies \cup {NoBody}] /\ TypeOK
      /\ Looked = n - 1 /\ Looked' = n
  BY <1>1 DEF TypeInv, TypeOK, Looked
<1> HIDE DEF n, q
<1>3. \A m \in Names : prepared'[m] = IF Prepares(q, m) THEN q[1].body ELSE prepared[m]
  <2>1. parse_pgdump_prepare(q) => q[1].arg \in Names
    BY <1>1, QueryTypes DEF parse_pgdump_prepare
  <2>2. \/ parse_pgdump_prepare(q) /\ prepared' = [prepared EXCEPT ![q[1].arg] = q[1].body]
        \/ ~parse_pgdump_prepare(q) /\ prepared' = prepared
    BY <1>1 DEF Intercept, Forwards, Synthesizes
  <2> QED  BY <1>2, <2>1, <2>2 DEF Prepares
<1>4. ASSUME NEW m \in Names PROVE Retains(asked, n, m, prepared'[m])
  <2>1. Retains(asked, n - 1, m, prepared[m])
    BY <1>1, <1>2 DEF OpenInv, PreparedInv
  <2> QED  BY <1>1, <1>2, <1>3, <2>1, RetainsNext DEF n, q
<1> QED  BY <1>1, <1>2, <1>4 DEF PreparedInv

\* What it forwards, or answers itself, is allowed.
LEMMA OpenReceived ==
  ASSUME TypeInv, OpenInv, client # "closed", C2sRecv
  PROVE  OpenInv'
<1>1. /\ UNCHANGED <<client, asked, answers>>
      /\ \/ /\ client = "authenticating" /\ fromClient[1].type # "Q"
            /\ c2s' = [pc |-> "forward", out |-> <<fromClient[1]>>] /\ UNCHANGED prepared
         \/ /\ client = "waiting" /\ Len(asked) \in 1..Len(asked)
            /\ asked[Len(asked)] \in Queries
            /\ Intercept(asked[Len(asked)])
      /\ Coming /\ c2s.pc = "recv"
  BY ReceivedForms
<1>2. CountInv'
  BY <1>1 DEF OpenInv, CountInv
<1>3. CASE /\ client = "authenticating" /\ fromClient[1].type # "Q"
           /\ c2s' = [pc |-> "forward", out |-> <<fromClient[1]>>] /\ UNCHANGED prepared
  <2>1. ForServer(fromClient[1])
    BY <1>3 DEF ForServer
  <2>2. MessageInv' /\ FlowInv'
    BY <1>3, <2>1, ReceivedForwards
  <2>3. PreparedInv'
    BY <1>1, <1>3 DEF OpenInv, PreparedInv, Looked
  <2> QED  BY <1>2, <2>2, <2>3 DEF OpenInv
<1>4. CASE /\ client = "waiting" /\ Len(asked) \in 1..Len(asked)
           /\ asked[Len(asked)] \in Queries
           /\ Intercept(asked[Len(asked)])
  <2> DEFINE n == Len(asked)  q == asked[n]
  <2>1. /\ asked \in Seq(Queries) /\ n \in 1..Len(asked) /\ q \in Queries /\ TypeOK
        /\ q \in Seq(Statement) /\ q[1].oid \in Nat
        /\ q[1].verb = "execute" => q[1].arg \in Names
    BY <1>4, QueryTypes DEF TypeInv, TypeOK, Statement
  <2>2. \A m \in Names : Retains(asked, n - 1, m, prepared[m])
    BY <1>1, <1>4 DEF OpenInv, PreparedInv, Looked
  <2>3. Mine = Allowed(asked, n)
    BY DEF Mine
  <2>4. CASE Synthetic(q)
    <3>1. Done \in Mine
      BY <2>3, <2>4, SyntheticAllowed
    <3>2. \E t \in Statuses : c2s' = [pc |-> "lock", out |-> CommandComplete(t)]
      <4>1. ~rewrite_pgdump_execute(q, prepared) /\ ~SET_CONFIG_RE(q)
        BY <2>4 DEF Synthetic, parse_pgdump_prepare, LOCK_RE, SET_RE, SET_CONFIG_RE,
                    rewrite_pgdump_execute
      <4> QED  BY <1>4, <2>1, <2>4, <4>1, InterceptForms DEF Statuses
    <3>3. MessageInv' /\ FlowInv'
      BY <1>4, <3>1, <3>2, ReceivedReplies
    <3> QED  BY <1>2, <1>4, <3>3, ReceivedPrepares DEF OpenInv
  <2>5. CASE ~Synthetic(q)
    <3>1. PICK g \in Seq(Statement) : Serves(g) /\ c2s' = [pc |-> "forward", out |-> <<Query(g)>>]
      <4>1. CASE /\ rewrite_pgdump_execute(q, prepared)
                 /\ c2s' = [pc |-> "forward",
                            out |-> <<Query(Inlined(prepared[q[1].arg], q[1].oid))>>]
        <5>1. q[1].arg \in Names /\ prepared[q[1].arg] \in Bodies \cup {NoBody}
          BY <2>1, <4>1 DEF rewrite_pgdump_execute, TypeOK
        <5>2. Refers(asked, n) = prepared[q[1].arg]
          BY <2>1, <2>2, <5>1, RefersRetained
        <5>3. Serves(Inlined(prepared[q[1].arg], q[1].oid))
          BY <2>1, <2>3, <4>1, <5>2, ExecuteAllowed DEF Serves
        <5>4. Inlined(prepared[q[1].arg], q[1].oid) \in Seq(Statement)
          BY <2>1, <5>1, InlinedTypes
        <5> QED  BY <4>1, <5>3, <5>4
      <4>2. CASE /\ SET_CONFIG_RE(q)
                 /\ c2s' = [pc |-> "forward", out |-> <<Query(Inlined(NullBody, 0))>>]
        <5>1. Serves(Inlined(NullBody, 0))
          BY <2>1, <2>3, <2>5, <4>2, SetConfigAllowed DEF Serves
        <5>2. Inlined(NullBody, 0) \in Seq(Statement)
          BY InlinedTypes
        <5> QED  BY <4>2, <5>1, <5>2
      <4>3. CASE ~SET_CONFIG_RE(q) /\ c2s' = [pc |-> "forward", out |-> <<Query(q)>>]
        <5>1. Serves(q)
          BY <2>1, <2>3, <2>5, <4>3, ForwardAllowed DEF Serves, SET_CONFIG_RE
        <5> QED  BY <2>1, <4>3, <5>1
      <4>4. ~parse_pgdump_prepare(q)
        BY <2>5 DEF Synthetic
      <4> QED  BY <1>4, <2>1, <2>5, <4>1, <4>2, <4>3, <4>4, InterceptForms
    <3>2. ForServer(Query(g))
      BY <1>4, <3>1, MessageTypes DEF ForServer
    <3>3. MessageInv' /\ FlowInv'
      BY <1>4, <3>1, <3>2, ReceivedForwards
    <3> QED  BY <1>2, <1>4, <3>3, ReceivedPrepares DEF OpenInv
  <2> QED  BY <2>4, <2>5
<1> QED  BY <1>1, <1>3, <1>4

------------------------------------------------------------------------------
(* The invariant, and the refinement.                                      *)

LEMMA OpenStep ==
  ASSUME TypeInv, OpenInv, [Next]_vars, client # "closed", client' # "closed"
  PROVE  OpenInv'
<1>1. CASE UNCHANGED vars
  <2>1. UNCHANGED <<client, asked, answers, partial, handler, c2s, s2c, prepared, fromClient,
                    toServer, fromServer, toClient, replying>>
    BY <1>1 DEF vars, clientVars, proxyVars, streams, serverVars
  <2>2. Flow' = Flow /\ Rest' = Rest /\ (Replies' <=> Replies) /\ (Forwarding' <=> Forwarding)
    BY <2>1 DEF Flow, Rest, Pending, Replies, Forwarding
  <2>3. Replies' => Alone'
    BY <2>1, <2>2 DEF OpenInv, FlowInv, Alone, Synthesized
  <2> QED  BY <2>1, <2>2, <2>3, OpenKept
<1>2. CASE ClientHello
  BY <1>2, OpenHello
<1>3. CASE \E q \in Queries : ClientAsks(q)
  BY <1>3, OpenAsks
<1>4. CASE ClientReads
  BY <1>4, OpenReads
<1>5. CASE ClientReadsEof \/ ClientCloses
  BY <1>5 DEF ClientReadsEof, ClientCloses
<1>6. CASE Handle
  BY <1>6, OpenStartup, OpenConnect, KeptByHandle DEF Handle
<1>7. CASE ClientToServer
  BY <1>7, OpenReceived, OpenForward, KeptByClientToServer DEF ClientToServer
<1>8. CASE ServerToClient
  BY <1>8, KeptByServerToClient
<1>9. CASE Server \/ ServerDrops
  BY <1>9, OpenTaken, KeptByServer DEF Server
<1> QED  BY <1>1, <1>2, <1>3, <1>4, <1>5, <1>6, <1>7, <1>8, <1>9 DEF Next

LEMMA OpenInit ==
  ASSUME Init
  PROVE  OpenInv
<1>1. /\ client = "new" /\ asked = <<>> /\ answers = <<>> /\ handler = "startup"
      /\ c2s.pc = "off" /\ s2c.out = <<>> /\ prepared = [n \in Names |-> NoBody]
      /\ fromClient = <<>> /\ toServer = <<>> /\ fromServer = <<>> /\ toClient = <<>>
      /\ replying = <<>>
  BY DEF Init
<1>2. ~Coming /\ ~Forwarding /\ ~Sent /\ ~Replies
  BY <1>1 DEF Coming, Forwarding, Sent, Replies
<1>3. MessageInv
  BY <1>1, <1>2, EmptySeq DEF MessageInv
<1>4. FlowInv
  <2>1. Flow = (<<>> \o <<>>) \o (<<>> \o (<<>> \o <<>>)) /\ <<>> \in Seq(Piece)
    BY <1>1, <1>2 DEF Flow, Pending, Rest
  <2>2. \A f \in Seq(Piece) : (f \o <<>>) \o (<<>> \o (<<>> \o <<>>)) = f
    BY ConcatEmptySeq, EmptySeq
  <2>3. Flow = <<>> /\ Owed(<<>>)
    BY <2>1, <2>2 DEF Owed
  <2>4. Fits(Flow, <<>>)
    BY <2>1, <2>3, EmptyFits
  <2> QED  BY <1>2, <2>1, <2>3, <2>4 DEF FlowInv
<1>5. PreparedInv
  <2>1. Looked = 0
    BY <1>1 DEF Looked
  <2> QED  BY <1>1, <2>1 DEF PreparedInv, Retains
<1>6. CountInv
  BY <1>1 DEF CountInv
<1> QED  BY <1>3, <1>4, <1>5, <1>6 DEF OpenInv

LEMMA Invariance == Spec => []IInv
<1>1. Init => IInv
  BY TypeInit, OpenInit DEF IInv
<1>2. IInv /\ [Next]_vars => IInv'
  <2> SUFFICES ASSUME TypeInv, client # "closed" => OpenInv, [Next]_vars
      PROVE  TypeInv' /\ (client' # "closed" => OpenInv')
    BY DEF IInv
  <2>1. client' # "closed" => client # "closed"
    BY DEF Next, vars, clientVars, ClientHello, ClientAsks, ClientReads, ClientReadsEof,
           ClientCloses, Handle, ReadStartup, HandleFails, ConnectUpstream, JoinThreads,
           ClientToServer, C2sRecv, C2sEof, C2sForward, C2sForwardFails, C2sLocks, C2sSends,
           C2sSendFails, ServerToClient, S2cRecv, S2cEof, S2cLocks, S2cSends, S2cSendFails,
           Server, ServerTakes, ServerSends, ServerDrops
  <2> QED  BY <2>1, TypeStep, OpenStep
<1> QED  BY <1>1, <1>2, PTL DEF Spec

\* What the client is told of its queries, by steps of the client only.
LEMMA DialogueStep ==
  ASSUME IInv, [Next]_vars
  PROVE  [Conversation!Next]_(Conversation!dialogueVars)
<1> USE DEF IInv
<1> DEFINE open == client # "closed"
<1> SUFFICES \/ UNCHANGED <<asked, answers, open>>
             \/ \E q \in Queries : Conversation!Ask(q)
             \/ Conversation!Answer
             \/ Conversation!Lose
  BY DEF Conversation!Next, Conversation!dialogueVars
<1>1. CASE \/ UNCHANGED vars \/ ClientHello \/ Handle \/ ClientToServer \/ ServerToClient
           \/ Server \/ ServerDrops
  <2>1. UNCHANGED <<asked, answers>> /\ (client' # "closed" <=> client # "closed")
    BY <1>1 DEF vars, clientVars, ClientHello, ClientSends,
           Handle, ReadStartup, HandleFails, ConnectUpstream, JoinThreads,
           ClientToServer, C2sRecv, C2sEof, C2sForward, C2sForwardFails, C2sLocks, C2sSends,
           C2sSendFails, ServerToClient, S2cRecv, S2cEof, S2cLocks, S2cSends, S2cSendFails,
           Server, ServerTakes, ServerSends, ServerDrops
  <2> QED  BY <2>1
<1>2. ASSUME NEW q \in Queries, ClientAsks(q)
      PROVE  Conversation!Ask(q)
  <2>1. /\ client = "idle" /\ client' = "waiting" /\ asked' = Append(asked, q)
        /\ UNCHANGED answers
    BY <1>2 DEF ClientAsks, ClientSends
  <2>2. Len(answers) = Len(asked)
    BY <2>1, LenProperties DEF OpenInv, CountInv, TypeInv, TypeOK
  <2> QED  BY <2>1, <2>2 DEF Conversation!Ask
<1>3. CASE ClientReadsEof \/ ClientCloses
  <2>1. client' = "closed" /\ UNCHANGED <<asked, answers>>
    BY <1>3 DEF ClientReadsEof, ClientCloses
  <2> QED  BY <2>1 DEF Conversation!Lose
<1>4. CASE ClientReads /\ client' = "closed"
  <2>1. client # "closed" /\ UNCHANGED <<asked, answers>>
    BY <1>4 DEF ClientReads, ClientSends
  <2> QED  BY <1>4, <2>1 DEF Conversation!Lose
<1>5. CASE ClientReads /\ client' # "closed"
  <2>1. client # "closed" /\ OpenInv /\ TypeInv /\ UNCHANGED asked
    BY <1>5 DEF ClientReads
  <2>2. CASE UNCHANGED answers
    BY <1>5, <2>1, <2>2
  <2>3. CASE answers' # answers
    <3>1. client = "waiting" /\ partial \in Mine /\ answers' = Append(answers, partial)
      BY <1>5, <2>1, <2>3, ReadForms
    <3>2. Len(answers) < Len(asked)
      <4>1. Len(asked) = Len(answers) + 1 /\ Len(answers) \in Nat
        BY <2>1, <3>1, LenProperties DEF OpenInv, CountInv, TypeInv, TypeOK
      <4> QED  BY <4>1
    <3>3. Conversation!Answer
      BY <1>5, <2>1, <3>1, <3>2 DEF Conversation!Answer, Mine
    <3> QED  BY <3>3
  <2> QED  BY <2>2, <2>3
<1> QED  BY <1>1, <1>2, <1>3, <1>4, <1>5 DEF Next

\* "Their query results do affect dump content": whatever is intercepted, retained,
\* inlined, dropped or shut down, every query is answered at most once, in order, and
\* with its own result.
THEOREM DialogueImplemented == Spec => DialogueSpec
<1>1. Init => Conversation!Init
  BY DEF Init, Conversation!Init
<1>2. IInv /\ [Next]_vars => [Conversation!Next]_(Conversation!dialogueVars)
  BY DialogueStep
<1>3. Spec => []IInv
  BY Invariance
<1> QED  BY <1>1, <1>2, <1>3, PTL DEF Spec, DialogueSpec, Conversation!Spec
==============================================================================
