----------------------------- MODULE Ipc_proofs -----------------------------
(***************************************************************************)
(* What the clients of the daemon are told, for any number of clients, any *)
(* other programs whatever they send, any versions and any content of the  *)
(* database.                                                               *)
(***************************************************************************)
EXTENDS Ipc, TLAPS

-----------------------------------------------------------------------------
(* Messages.                                                               *)

\* A sequence of one message.
LEMMA OneElement ==
  ASSUME NEW m
  PROVE  /\ Head(<<m>>) = m /\ Tail(<<m>>) = << >> /\ Append(<< >>, m) = <<m>>
         /\ <<m>> # << >> /\ Len(<<m>>) = 1 /\ Len(<< >>) = 0
OBVIOUS

\* What a queue of messages is after one is put or taken.
LEMMA QueueTypes ==
  ASSUME NEW S, NEW q \in Seq(S), NEW m \in S
  PROVE  /\ Append(q, m) \in Seq(S) /\ Len(Append(q, m)) = Len(q) + 1
         /\ q # << >> => /\ Head(q) \in S /\ Tail(q) \in Seq(S)
                         /\ Len(Tail(q)) = Len(q) - 1
                         /\ [q EXCEPT ![Len(q)] = m] \in Seq(S)
                         /\ Len([q EXCEPT ![Len(q)] = m]) = Len(q)
         /\ Len(q) \in Nat /\ (Len(q) = 0 => q = << >>)
OBVIOUS

\* Queues that are emptied.
LEMMA Emptied ==
  ASSUME NEW S, NEW f \in [Peers -> Seq(S)], NEW P,
         \A p \in Peers : Len(f[p]) <= Buffer,
         NEW g, g = [q \in Peers |-> IF q \in P THEN << >> ELSE f[q]]
  PROVE  g \in [Peers -> Seq(S)] /\ \A q \in Peers : Len(g[q]) <= Buffer
BY IpcAssumption

\* The daemon's responses, and what their kind tells.
LEMMA ResponseTypes ==
  ASSUME TypeOK, NEW request \in Requests
  PROVE  /\ Nothing \in Responses
         /\ Respond(request) \in Responses
         /\ request = "ping" => Respond(request) = [kind |-> "pong", value |-> speaks]
         /\ request \in Queries => /\ Respond(request).kind \in {request, "error"}
                                   /\ Respond(request).value = db
BY DEF TypeOK, Nothing, Responses, Respond, Requests, Queries, Database

-----------------------------------------------------------------------------
(* The state keeps its shape.                                              *)

IInv == TypeOK /\ OneMessage /\ SameVersion

\* A request fits in the buffer because the client has sent nothing else.
LEMMA TypeStep ==
  ASSUME IInv, [Next]_vars
  PROVE  TypeOK'
<1> USE IpcAssumption DEF IInv, TypeOK
<1>1. Nothing \in Responses /\ "ping" \in Requests /\ Queries \subseteq Requests
      /\ Requests \subseteq Frames
  BY ResponseTypes DEF Requests, Frames
<1>2. /\ <<"ping">> \in Seq(Frames) /\ Len(<<"ping">>) = 1
      /\ Buffer >= 1
  BY <1>1
<1>3. /\ << >> \in Seq(Frames) /\ << >> \in Seq(Responses)
      /\ Len(<< >>) = 0
  OBVIOUS
<1>4. CASE Spawn
  BY <1>4 DEF Spawn, threads, users
<1>5. CASE Stop
  <2>1. up' = [q \in Peers |-> IF q \in Peers THEN << >> ELSE up[q]]
    BY <1>5 DEF Stop
  <2>2. up' \in [Peers -> Seq(Frames)] /\ \A q \in Peers : Len(up'[q]) <= Buffer
    BY <2>1, Emptied
  <2> QED BY <1>1, <1>5, <2>2 DEF Stop, users
<1>6. CASE AcceptFails
  <2>1. up' \in [Peers -> Seq(Frames)] /\ \A q \in Peers : Len(up'[q]) <= Buffer
    BY <1>6, Emptied DEF AcceptFails
  <2> QED BY <1>6, <2>1 DEF AcceptFails, threads, users
<1>7. ASSUME NEW p \in Peers, Accept(p) PROVE TypeOK'
  BY <1>7 DEF Accept, users
<1>8. ASSUME NEW p \in Peers, ReadRequest(p) PROVE TypeOK'
  <2>1. /\ Head(up[p]) \in Requests /\ Tail(up[p]) \in Seq(Frames)
        /\ Len(Tail(up[p])) <= Buffer
    BY <1>8, QueueTypes DEF ReadRequest
  <2> QED BY <1>8, <2>1 DEF ReadRequest, server, users
<1>9. ASSUME NEW p \in Peers, ReadFails(p) \/ WriteFails(p) PROVE TypeOK'
  <2>1. up' = [q \in Peers |-> IF q \in {p} THEN << >> ELSE up[q]]
    BY <1>9 DEF ReadFails, WriteFails, EndThread
  <2>2. up' \in [Peers -> Seq(Frames)] /\ \A q \in Peers : Len(up'[q]) <= Buffer
    BY <2>1, Emptied
  <2>3. EndThread(p) /\ UNCHANGED <<db, server, down, users>>
    BY <1>9 DEF ReadFails, WriteFails
  <2>4. /\ thread' \in [Peers -> {"none", "reads", "handles", "writes"}]
        /\ handled' \in [Peers -> Requests]
        /\ answer' \in [Peers -> Responses]
    BY <1>1, <2>3 DEF EndThread
  <2> QED BY <2>2, <2>3, <2>4 DEF server, users
<1>10. ASSUME NEW p \in Peers, Handle(p) PROVE TypeOK'
  <2>1. Respond(handled[p]) \in Responses
    BY ResponseTypes
  <2> QED BY <1>1, <1>10, <2>1 DEF Handle, server, users
<1>11. ASSUME NEW p \in Peers, Write(p) PROVE TypeOK'
  <2>1. /\ Append(down[p], answer[p]) \in Seq(Responses)
        /\ Len(Append(down[p], answer[p])) <= Buffer
    BY <1>11, QueueTypes DEF Write
  <2> QED BY <1>1, <1>11, <2>1 DEF Write, server, users
<1>12. ASSUME NEW p \in Peers, Go(p) PROVE TypeOK'
  <2>1. down' = [q \in Peers |-> IF q \in {p} THEN << >> ELSE down[q]]
    BY <1>12 DEF Go
  <2>2. /\ down' \in [Peers -> Seq(Responses)]
        /\ \A q \in Peers : Len(down'[q]) <= Buffer
    BY <2>1, Emptied
  <2>3. /\ at' \in [Peers -> {"off", "shakes", "idle", "asks", "connected"}]
        /\ UNCHANGED <<db, server, threads, up>>
    BY <1>12 DEF Go, Leave
  <2>4. asked' \in [Clients -> Requests] /\ since' \in [Clients -> SUBSET Database]
    BY <1>1, <1>12 DEF Go, Leave
  <2> QED BY <2>2, <2>3, <2>4 DEF server, threads
<1>13. ASSUME NEW c \in Clients, Connect(c) PROVE TypeOK'
  BY <1>1, <1>2, <1>3, <1>13 DEF Connect, Waits, Peers, threads, Database
<1>14. ASSUME NEW c \in Clients, NEW query \in Queries, Ask(c, query)
       PROVE  TypeOK'
  <2>1. up[c] = << >>
    BY <1>14 DEF Ask, OneMessage, Exchange
  <2>2. /\ Append(up[c], query) \in Seq(Frames)
        /\ Len(Append(up[c], query)) <= Buffer
    BY <1>1, <1>2, <2>1, QueueTypes
  <2> QED BY <1>1, <1>14, <2>2 DEF Ask, Waits, Peers, server, threads, Database
<1>15. ASSUME NEW c \in Clients, Client(c) PROVE TypeOK'
  <2>1. CASE Receive(c) /\ Agrees(c, Head(down[c]))
    <3>1. /\ Tail(down[c]) \in Seq(Responses)
          /\ Len(Tail(down[c])) <= Buffer
      BY <2>1, QueueTypes DEF Receive, Peers
    <3> QED BY <1>1, <2>1, <3>1
            DEF Receive, Waits, Peers, server, threads, Database
  <2>2. CASE Receive(c) /\ ~Agrees(c, Head(down[c]))
    <3>1. down' = [q \in Peers |-> IF q \in {c} THEN << >> ELSE down[q]]
      BY <2>2 DEF Receive, Peers
    <3>2. /\ down' \in [Peers -> Seq(Responses)]
          /\ \A q \in Peers : Len(down'[q]) <= Buffer
      BY <3>1, Emptied
    <3> QED BY <1>1, <2>2, <3>2 DEF Receive, Leave, Peers, server, threads
  <2>3. CASE Disconnected(c)
    BY <1>1, <2>3 DEF Disconnected, Leave, Peers, server, threads
  <2> QED BY <1>15, <2>1, <2>2, <2>3 DEF Client
<1>16. ASSUME NEW s \in Strangers, ConnectStranger(s) PROVE TypeOK'
  BY <1>16 DEF ConnectStranger, Peers, threads
<1>17. ASSUME NEW s \in Strangers, NEW frame \in Frames, Send(s, frame)
       PROVE  TypeOK'
  <2>1. /\ Append(up[s], frame) \in Seq(Frames)
        /\ Partial(s) => [up[s] EXCEPT ![Len(up[s])] = frame] \in Seq(Frames)
    BY QueueTypes DEF Partial, Peers
  <2> QED BY <1>17, <2>1 DEF Send, Peers, server, threads, users
<1>18. ASSUME NEW s \in Strangers, ReadSome(s) PROVE TypeOK'
  <2>1. /\ Tail(down[s]) \in Seq(Responses) /\ Len(Tail(down[s])) <= Buffer
    BY <1>18, QueueTypes DEF ReadSome, Peers
  <2> QED BY <1>18, <2>1 DEF ReadSome, Peers, server, threads, users
<1>19. ASSUME NEW content \in Database, Change(content) PROVE TypeOK'
  BY <1>19 DEF Change, server, threads
<1>20. CASE UNCHANGED vars
  BY <1>20 DEF vars, server, threads, users
<1> QED BY <1>4, <1>5, <1>6, <1>7, <1>8, <1>9, <1>10, <1>11, <1>12, <1>13,
           <1>14, <1>15, <1>16, <1>17, <1>18, <1>19, <1>20
        DEF Next, Thread, Stranger

-----------------------------------------------------------------------------
(* One message for each client.                                            *)

\* What others do leaves a client's exchange alone.
LEMMA Untouched ==
  ASSUME NEW c \in Clients, Exchange(c),
         UNCHANGED <<running, speaks, db>>,
         c \in backlog' <=> c \in backlog,
         thread'[c] = thread[c], handled'[c] = handled[c],
         answer'[c] = answer[c], up'[c] = up[c], down'[c] = down[c],
         at'[c] = at[c], asked'[c] = asked[c], since'[c] = since[c]
  PROVE  Exchange(c)'
BY DEF Exchange, Pending, Due, Waiting, Attended, Serving

\* The daemon starts or ends, or accepts no more.
LEMMA DaemonExchange ==
  ASSUME IInv, NEW c \in Clients, Spawn \/ Stop \/ AcceptFails
  PROVE  Exchange(c)'
<1> USE DEF IInv, OneMessage
<1>1. c \in Peers
  BY DEF Peers
<1>2. CASE Spawn
  <2>1. ~Attended(c)
    BY <1>2 DEF Spawn, Exchange
  <2> QED BY <1>2, <2>1
          DEF Spawn, threads, users, Exchange, Pending, Due, Waiting, Attended,
              Serving
<1>3. CASE Stop
  <2>1. /\ ~Attended(c)' /\ thread'[c] = "none" /\ backlog' = {}
        /\ up'[c] = << >> /\ down'[c] = down[c] /\ at'[c] = at[c]
        /\ asked'[c] = asked[c] /\ since'[c] = since[c] /\ db' = db
    BY <1>1, <1>3 DEF Stop, users, Attended, Serving
  <2>2. \A r : Due(c, r) => Due(c, r)'
    BY <2>1 DEF Due
  <2> QED BY <2>1, <2>2 DEF Exchange, Pending, Waiting
<1>4. CASE AcceptFails
  <2>1. CASE c \notin backlog
    BY <1>1, <1>4, <2>1, Untouched DEF AcceptFails, threads, users
  <2>2. CASE c \in backlog
    <3>1. /\ ~Attended(c)' /\ thread'[c] = "none" /\ backlog' = {}
          /\ up'[c] = << >> /\ down'[c] = << >> /\ at'[c] = at[c]
          /\ at[c] \in {"off", "shakes"} /\ asked'[c] = asked[c] 
      BY <1>1, <1>4, <2>2
         DEF AcceptFails, threads, users, Attended, Serving, Exchange, Pending,
             Waiting
    <3> QED BY <3>1, <2>2 DEF Exchange, Pending, Waiting
  <2> QED BY <2>1, <2>2
<1> QED BY <1>2, <1>3, <1>4

\* The thread of a client takes the request on to its answer.
LEMMA ThreadExchange ==
  ASSUME IInv, NEW c \in Clients, Accept(c) \/ Thread(c)
  PROVE  Exchange(c)'
<1> USE DEF IInv, OneMessage
<1>1. c \in Peers
  BY DEF Peers
<1>2. /\ thread[c] \in {"none", "reads", "handles", "writes"}
      /\ at[c] \in {"off", "shakes", "idle", "asks", "connected"}
  BY <1>1 DEF TypeOK
<1>3. CASE Accept(c)
  <2>1. /\ thread[c] = "none" /\ at[c] \in {"off", "shakes"} /\ c \in backlog
        /\ backlog' = backlog \ {c} /\ thread'[c] = "reads"
        /\ UNCHANGED <<db, running, speaks, listening, handled, answer, up,
                       down, at, asked, since>>
    BY <1>1, <1>3 DEF Accept, Acceptable, Exchange, users, TypeOK
  <2> QED BY <2>1 DEF Exchange, Pending, Due, Waiting, Attended, Serving
<1>4. CASE ReadRequest(c)
  <2>1. /\ thread[c] = "reads" /\ c \notin backlog
        /\ up[c] # << >> /\ thread'[c] = "handles"
        /\ handled'[c] = Head(up[c]) /\ up'[c] = Tail(up[c])
        /\ UNCHANGED <<db, running, speaks, listening, backlog, answer, down,
                       at, asked, since>>
    BY <1>1, <1>4 DEF ReadRequest, Exchange, server, users, TypeOK
  <2>2. at[c] \in {"shakes", "asks"} =>
          up[c] = <<asked[c]>> /\ down[c] = << >>
    BY <2>1 DEF Exchange, Pending, Waiting, Attended, Serving
  <2>3. at[c] \in {"shakes", "asks"} =>
          up'[c] = << >> /\ handled'[c] = asked[c]
    BY <2>1, <2>2, OneElement
  <2> QED BY <1>2, <2>1, <2>2, <2>3
          DEF Exchange, Pending, Due, Waiting, Attended, Serving
<1>5. CASE ReadFails(c) \/ WriteFails(c)
  <2>1. /\ thread[c] \in {"reads", "writes"} /\ c \notin backlog
        /\ ~Attended(c)' /\ thread'[c] = "none" /\ up'[c] = << >>
        /\ UNCHANGED <<db, running, speaks, listening, backlog, down,
                       at, asked, since>>
    BY <1>1, <1>5 DEF ReadFails, WriteFails, EndThread, Attended, Serving,
                      Exchange, server, users, TypeOK
  <2>2. \A r : Due(c, r) => Due(c, r)'
    BY <2>1 DEF Due
  <2>3. CASE ~Waiting(c)
    BY <1>2, <2>1, <2>3 DEF Exchange, Waiting
  <2>4. CASE Waiting(c) /\ ~\E r \in Responses : down[c] = <<r>> /\ Due(c, r)
    <3>1. down[c] = << >>
      BY <2>4 DEF Exchange, Pending
    <3> QED BY <2>1, <2>4, <3>1 DEF Exchange, Pending, Waiting
  <2>5. CASE Waiting(c) /\ \E r \in Responses : down[c] = <<r>> /\ Due(c, r)
    BY <2>1, <2>2, <2>5 DEF Exchange, Pending, Waiting
  <2> QED BY <2>3, <2>4, <2>5
<1>6. CASE Handle(c)
  <2>1. /\ thread[c] = "handles" /\ c \notin backlog
        /\ thread'[c] = "writes" /\ answer'[c] = Respond(handled[c])
        /\ UNCHANGED <<db, running, speaks, listening, backlog, up, down,
                       at, asked, since>>
    BY <1>1, <1>6 DEF Handle, Exchange, server, users, TypeOK
  <2>2. ASSUME at[c] \in {"shakes", "asks"}
        PROVE  /\ up[c] = << >> /\ down[c] = << >>
               /\ handled[c] = asked[c]
    BY <2>1, <2>2 DEF Exchange, Pending, Waiting, Attended, Serving
  <2>3. at[c] \in {"shakes", "asks"} => Due(c, answer[c])'
    <3>1. CASE at[c] = "shakes"
      <4>1. answer'[c] = [kind |-> "pong", value |-> speaks]
        BY <2>1, <2>2, <3>1, ResponseTypes DEF Exchange, Requests
      <4> QED BY <2>1, <3>1, <4>1 DEF Due
    <3>2. CASE at[c] = "asks"
      <4>1. /\ answer'[c].kind \in {asked[c], "error"}
            /\ answer'[c].value = db /\ db \in since[c]
        <5>1. /\ handled[c] = asked[c] /\ asked[c] \in Queries
              /\ handled[c] \in Requests /\ db \in since[c]
          BY <2>2, <3>2 DEF Exchange, Requests
        <5>2. /\ Respond(handled[c]).kind \in {handled[c], "error"}
              /\ Respond(handled[c]).value = db
          BY <5>1, ResponseTypes
        <5> QED BY <2>1, <5>1, <5>2
      <4> QED BY <2>1, <3>2, <4>1 DEF Due
    <3> QED BY <3>1, <3>2
  <2> QED BY <1>2, <2>1, <2>2, <2>3
          DEF Exchange, Pending, Waiting, Attended, Serving
<1>7. CASE Write(c)
  <2>1. /\ thread[c] = "writes" /\ c \notin backlog /\ at[c] # "off"
        /\ thread'[c] = "reads" /\ down'[c] = Append(down[c], answer[c])
        /\ answer[c] \in Responses
        /\ UNCHANGED <<db, running, speaks, listening, backlog, up, at, asked,
                       since>>
    BY <1>1, <1>7 DEF Write, Open, Exchange, server, users, TypeOK
  <2>2. ASSUME at[c] \in {"shakes", "asks"}
        PROVE  /\ up[c] = << >> /\ down[c] = << >> /\ Due(c, answer[c])
    BY <2>1, <2>2 DEF Exchange, Pending, Waiting, Attended, Serving
  <2>3. at[c] \in {"shakes", "asks"} => down'[c] = <<answer[c]>>
    BY <2>1, <2>2, OneElement
  <2>4. \A r : Due(c, r) => Due(c, r)'
    BY <2>1 DEF Due, Attended, Serving
  <2> QED BY <1>2, <2>1, <2>2, <2>3, <2>4
          DEF Exchange, Pending, Waiting, Attended, Serving
<1> QED BY <1>3, <1>4, <1>5, <1>6, <1>7 DEF Thread

\* The client sends one request, and no other before its answer.
LEMMA ClientExchange ==
  ASSUME IInv, NEW c \in Clients,
         \/ Connect(c) \/ Client(c) \/ Go(c)
         \/ \E query \in Queries : Ask(c, query)
  PROVE  Exchange(c)'
<1> USE DEF IInv, OneMessage
<1>1. c \in Peers
  BY DEF Peers
<1>2. thread[c] \in {"none", "reads", "handles", "writes"}
  BY <1>1 DEF TypeOK
<1>3. CASE Connect(c)
  <2>1. /\ running' /\ thread'[c] = "none" /\ c \in backlog'
        /\ up'[c] = <<"ping">> /\ down'[c] = << >>
        /\ at'[c] = "shakes" /\ asked'[c] = "ping"
    BY <1>1, <1>2, <1>3
       DEF Connect, Waits, Attended, Serving, threads, TypeOK
  <2> QED BY <2>1 DEF Exchange, Pending, Waiting, Attended, Serving
<1>4. ASSUME NEW query \in Queries, Ask(c, query) PROVE Exchange(c)'
  <2>1. /\ at[c] = "idle" /\ thread[c] \in {"reads", "none"} /\ c \notin backlog
        /\ Attended(c) /\ up[c] = << >> /\ down[c] = << >> /\ running
    BY <1>4 DEF Ask, Exchange
  <2>2. /\ thread[c] = "reads" /\ thread'[c] = "reads" /\ backlog' = backlog
        /\ running' = running /\ down'[c] = << >> /\ db' = db
        /\ at'[c] = "asks" /\ asked'[c] = query /\ since'[c] = {db}
        /\ up'[c] = Append(up[c], query)
    BY <1>1, <1>4, <2>1
       DEF Ask, Waits, Attended, Serving, server, threads, TypeOK
  <2>3. up'[c] = <<query>>
    BY <2>1, <2>2, OneElement
  <2> QED BY <2>1, <2>2, <2>3
          DEF Exchange, Pending, Waiting, Attended, Serving
<1>5. ASSUME at'[c] = "off", down'[c] = << >>,
             UNCHANGED <<server, threads, up>>
      PROVE  Exchange(c)'
  BY <1>5 DEF Exchange, Waiting, Attended, Serving, server, threads
<1>6. CASE Receive(c)
  <2>1. CASE Agrees(c, Head(down[c]))
    <3>1. /\ at[c] \in {"shakes", "asks"} /\ down[c] # << >>
          /\ at'[c] = "idle" /\ down'[c] = Tail(down[c])
          /\ UNCHANGED <<db, server, threads, up>>
      BY <1>1, <1>6, <2>1 DEF Receive, Waits, TypeOK
    <3>2. PICK r \in Responses : /\ down[c] = <<r>> /\ up[c] = << >>
                                 /\ c \notin backlog
                                 /\ thread[c] \in {"reads", "none"}
      BY <3>1 DEF Exchange, Pending, Waiting
    <3>3. down'[c] = << >>
      BY <3>1, <3>2, OneElement
    <3> QED BY <3>1, <3>2, <3>3
            DEF Exchange, Waiting, Attended, Serving, server, threads
  <2>2. CASE ~Agrees(c, Head(down[c]))
    BY <1>1, <1>5, <1>6, <2>2 DEF Receive, Leave, TypeOK
  <2> QED BY <2>1, <2>2
<1>7. CASE Disconnected(c)
  BY <1>1, <1>5, <1>7 DEF Disconnected, Leave, TypeOK
<1>8. CASE Go(c)
  BY <1>1, <1>5, <1>8 DEF Go, Leave, TypeOK
<1> QED BY <1>3, <1>4, <1>6, <1>7, <1>8 DEF Client

\* Nothing else disturbs it: the contents of the database that a request may be
\* answered with only grow.
LEMMA ExchangeStep ==
  ASSUME IInv, [Next]_vars
  PROVE  OneMessage'
<1> USE DEF IInv
<1>1. listening' => running'
  BY DEF OneMessage, Next, vars, Spawn, Stop, AcceptFails, Accept, Thread,
         ReadRequest, ReadFails, Handle, Write, WriteFails, Go, Connect, Ask,
         Client, Receive, Disconnected, Stranger, ConnectStranger, Send,
         ReadSome, Change, server
<1> SUFFICES ASSUME NEW c \in Clients PROVE Exchange(c)'
  BY <1>1 DEF OneMessage
<1>2. Exchange(c) /\ c \in Peers
  BY DEF OneMessage, Peers
<1>3. CASE Spawn \/ Stop \/ AcceptFails
  BY <1>3, DaemonExchange
<1>4. ASSUME NEW p \in Peers, Accept(p) \/ Thread(p) \/ Go(p)
      PROVE  Exchange(c)'
  <2>1. CASE p = c
    BY <1>4, <2>1, ThreadExchange, ClientExchange
  <2>2. CASE p # c
    <3>1. CASE Accept(p)
      BY <1>2, <2>2, <3>1, Untouched DEF Accept, users, TypeOK
    <3>2. CASE Go(p)
      BY <1>2, <2>2, <3>2, Untouched DEF Go, Leave, server, threads, TypeOK
    <3>3. CASE Thread(p)
      BY <1>2, <2>2, <3>3, Untouched
         DEF Thread, ReadRequest, ReadFails, Handle, Write, WriteFails,
             EndThread, server, users, TypeOK
    <3> QED BY <1>4, <3>1, <3>2, <3>3
  <2> QED BY <2>1, <2>2
<1>5. ASSUME NEW d \in Clients,
             \/ Connect(d) \/ Client(d)
             \/ \E query \in Queries : Ask(d, query)
      PROVE  Exchange(c)'
  <2>1. CASE d = c
    BY <1>5, <2>1, ClientExchange
  <2>2. CASE d # c
    <3>1. CASE Connect(d)
      BY <1>2, <2>2, <3>1, Untouched DEF Connect, Waits, threads, TypeOK
    <3>2. CASE Client(d)
      BY <1>2, <2>2, <3>2, Untouched
         DEF Client, Receive, Disconnected, Waits, Leave, server, threads,
             TypeOK
    <3>3. ASSUME NEW query \in Queries, Ask(d, query) PROVE Exchange(c)'
      BY <1>2, <2>2, <3>3, Untouched DEF Ask, Waits, server, threads, TypeOK
    <3> QED BY <1>5, <3>1, <3>2, <3>3
  <2> QED BY <2>1, <2>2
<1>6. ASSUME NEW s \in Strangers, Stranger(s) PROVE Exchange(c)'
  <2>1. s # c
    BY IpcAssumption
  <2> QED BY <1>2, <1>6, <2>1, Untouched
          DEF Stranger, ConnectStranger, Send, ReadSome, server, threads, users,
              TypeOK
<1>7. ASSUME NEW content \in Database, Change(content) PROVE Exchange(c)'
  <2>1. /\ UNCHANGED <<server, threads, up, down, at, asked>>
        /\ at[c] = "asks" => since'[c] = since[c] \cup {content}
        /\ db' = content
    BY <1>7 DEF Change
  <2>2. \A r : Due(c, r) => Due(c, r)'
    BY <2>1 DEF Due, Attended, Serving, server, threads
  <2>3. Pending(c) => Pending(c)'
    BY <2>1, <2>2 DEF Pending, Attended, Serving, server, threads
  <2> QED BY <1>2, <2>1, <2>3
          DEF Exchange, Waiting, Attended, Serving, server, threads
<1>8. CASE UNCHANGED vars
  BY <1>2, <1>8, Untouched DEF vars, server, threads, users
<1> QED BY <1>3, <1>4, <1>5, <1>6, <1>7, <1>8 DEF Next

-----------------------------------------------------------------------------
(* The theorems.                                                           *)

\* The version of a daemon that serves a client past the handshake is the one the
\* handshake was about: a pong that is still on its way is of that daemon.
LEMMA VersionStep ==
  ASSUME IInv, [Next]_vars, NEW c \in Clients,
         Serving(c)', at'[c] \in {"idle", "asks"}
  PROVE  speaks' = Version
<1> USE DEF IInv, OneMessage
<1>1. c \in Peers
  BY DEF Peers
<1>2. CASE Receive(c) /\ at[c] = "shakes"
  <2>1. /\ down[c] # << >> /\ Agrees(c, Head(down[c]))
        /\ UNCHANGED <<server, threads>>
    BY <1>1, <1>2 DEF Receive, Leave, TypeOK
  <2>2. PICK r \in Responses : down[c] = <<r>> /\ Due(c, r)
    BY <1>2, <2>1 DEF Exchange, Pending, Waiting
  <2>3. Head(down[c]) = r
    BY <2>2, OneElement
  <2>4. Attended(c)
    BY <2>1 DEF Attended, Serving, threads
  <2>5. r.value = speaks /\ r.value = Version
    BY <1>2, <2>1, <2>2, <2>3, <2>4 DEF Due, Agrees
  <2> QED BY <2>1, <2>5 DEF server
<1>3. CASE ~(Receive(c) /\ at[c] = "shakes")
  <2>1. at[c] \in {"idle", "asks"}
    <3>1. CASE \E d \in Clients : \E query \in Queries : Ask(d, query)
      BY <1>1, <3>1 DEF Ask, Waits, TypeOK
    <3>2. CASE \E d \in Clients : Connect(d) \/ Client(d)
      BY <1>1, <1>3, <3>2
         DEF Client, Connect, Receive, Disconnected, Waits, Leave, TypeOK
    <3>3. CASE \E p \in Peers : Go(p)
      BY <1>1, <3>3 DEF Go, Leave, TypeOK
    <3>4. CASE \E s \in Strangers : Stranger(s)
      BY <1>1, <3>4, IpcAssumption
         DEF Stranger, ConnectStranger, Send, ReadSome, users, TypeOK
    <3>5. CASE at' = at
      BY <3>5
    <3> QED BY <3>1, <3>2, <3>3, <3>4, <3>5
            DEF Next, vars, Spawn, Stop, AcceptFails, Accept, Thread,
                ReadRequest, ReadFails, Handle, Write, WriteFails, Change, users
  <2>2. c \notin backlog
    BY <2>1 DEF Exchange
  <2>3. CASE Spawn
    <3>1. ~Serving(c)
      BY <2>3 DEF Spawn, Exchange, Attended
    <3> QED BY <2>3, <3>1 DEF Spawn, Serving, threads
  <2>4. CASE Stop
    BY <1>1, <2>4 DEF Stop, Serving
  <2>5. CASE ~Spawn /\ ~Stop
    <3>1. speaks' = speaks
      BY <2>5
         DEF Next, vars, AcceptFails, Accept, Thread, ReadRequest, ReadFails,
             Handle, Write, WriteFails, Go, Connect, Ask, Client, Receive,
             Disconnected, Stranger, ConnectStranger, Send, ReadSome, Change,
             server
    <3>2. Serving(c)
      <4>1. \A p \in Peers : Accept(p) => p # c
        BY <2>2 DEF Accept, Acceptable
      <4> QED BY <1>1, <2>5, <4>1
              DEF Next, vars, AcceptFails, Accept, Thread, ReadRequest,
                  ReadFails, Handle, Write, WriteFails, EndThread, Go, Connect,
                  Ask, Client, Receive, Disconnected, Stranger,
                  ConnectStranger, Send, ReadSome, Change, threads, Serving,
                  TypeOK
    <3> QED BY <2>1, <3>1, <3>2 DEF SameVersion
  <2> QED BY <2>3, <2>4, <2>5
<1> QED BY <1>2, <1>3

LEMMA Inductive == Spec => []IInv
<1>1. Init => IInv
  <2> SUFFICES ASSUME Init PROVE IInv
    OBVIOUS
  <2>1. TypeOK
    <3>1. /\ Nothing \in Responses /\ "ping" \in Requests
      BY DEF Nothing, Responses, Requests
    <3>2. << >> \in Seq(Frames) /\ << >> \in Seq(Responses) /\ Len(<< >>) <= Buffer
      BY IpcAssumption
    <3> QED BY <3>1, <3>2, IpcAssumption DEF Init, TypeOK
  <2>2. OneMessage
    BY DEF Init, OneMessage, Exchange, Waiting, Attended, Serving, Peers
  <2>3. SameVersion
    BY DEF Init, SameVersion, Serving, Peers
  <2> QED BY <2>1, <2>2, <2>3 DEF IInv
<1>2. IInv /\ [Next]_vars => IInv'
  <2> SUFFICES ASSUME IInv, [Next]_vars PROVE IInv'
    OBVIOUS
  <2>1. SameVersion'
    BY VersionStep DEF SameVersion
  <2> QED BY <2>1, TypeStep, ExchangeStep DEF IInv
<1> QED BY <1>1, <1>2, PTL DEF Spec

\* The state keeps its shape: in particular nothing exceeds the buffers.
THEOREM TypeCorrect == Spec => []TypeOK
BY Inductive, PTL DEF IInv

\* No client is served past its handshake by a daemon of another version.
THEOREM AlwaysSameVersion == Spec => []SameVersion
BY Inductive, PTL DEF IInv

\* What a client is told is the answer to what it asked.
THEOREM EveryAnswerIsDue == Spec => AnswersTheRequest
<1> DEFINE Answered ==
      \A c \in Clients :
        at[c] = "asks" /\ at'[c] = "idle" =>
          LET response == Head(down[c]) IN
          /\ response.kind \in {asked[c], "error"}
          /\ response.value \in since[c]
<1>1. IInv /\ [Next]_vars => [Answered]_vars
  <2> SUFFICES ASSUME IInv, [Next]_vars, NEW c \in Clients,
                      at[c] = "asks", at'[c] = "idle"
               PROVE  LET response == Head(down[c]) IN
                      /\ response.kind \in {asked[c], "error"}
                      /\ response.value \in since[c]
    OBVIOUS
  <2>1. Receive(c)
    <3>1. c \in Peers
      BY DEF Peers
    <3> QED BY <3>1, IpcAssumption
            DEF Next, vars, Spawn, Stop, AcceptFails, Accept, Thread,
                ReadRequest, ReadFails, Handle, Write, WriteFails, Go, Leave,
                Connect, Ask, Client, Receive, Disconnected, Waits, Stranger,
                ConnectStranger, Send, ReadSome, Change, users, IInv, TypeOK
  <2>2. PICK r \in Responses : down[c] = <<r>> /\ Due(c, r)
    BY <2>1 DEF Receive, IInv, OneMessage, Exchange, Pending, Waiting
  <2>3. Head(down[c]) = r
    BY <2>2, OneElement
  <2> QED BY <2>2, <2>3 DEF Due
<1> QED BY <1>1, Inductive, PTL DEF Spec, AnswersTheRequest

-----------------------------------------------------------------------------
(* What NobodyWaitsForEver and ThreadsEnd rest on: with these two theorems    *)
(* only fairness is left.                                                   *)

\* Somebody can take the next step of what the client waits for, and he needs no
\* stranger and no other client for it: the client itself, which has an answer or
\* finds its connection closed; serve; or its own thread, which does not wait for a
\* request, nor for room for the answer.
CanGoOn(c) ==
  \/ down[c] # << >>
  \/ ~Attended(c)
  \/ c \in backlog /\ listening
  \/ thread[c] = "reads" /\ up[c] # << >> /\ Head(up[c]) \in Requests
  \/ thread[c] = "handles"
  \/ thread[c] = "writes" /\ Open(c) /\ Len(down[c]) < Buffer

NobodyIsBlocked == \A c \in Clients : Waiting(c) => CanGoOn(c)

\* Who waits to be accepted waits at a socket that is served, and has no thread
\* yet: serve drops the listener, and with it the backlog, when it returns.
BacklogIsServed == \A p \in backlog : listening /\ ~Serving(p)

LEMMA BacklogInvariant == Spec => []BacklogIsServed
<1>1. Init => BacklogIsServed
  BY DEF Init, BacklogIsServed
<1>2. TypeOK /\ BacklogIsServed /\ [Next]_vars => BacklogIsServed'
  <2> SUFFICES ASSUME TypeOK, BacklogIsServed, [Next]_vars,
                      NEW p \in backlog'
               PROVE  listening' /\ thread'[p] = "none"
    BY DEF BacklogIsServed, Serving
  <2> USE DEF TypeOK, BacklogIsServed, Serving
  <2>1. CASE Spawn \/ Stop \/ AcceptFails
    BY <2>1 DEF Spawn, Stop, AcceptFails, threads
  <2>2. ASSUME NEW q \in Peers, Accept(q)
        PROVE  listening' /\ thread'[p] = "none"
    BY <2>2 DEF Accept
  <2>3. ASSUME NEW q \in Peers, Thread(q)
        PROVE  listening' /\ thread'[p] = "none"
    BY <2>3 DEF Thread, ReadRequest, ReadFails, Handle, Write, WriteFails,
                EndThread, server
  <2>4. ASSUME UNCHANGED thread, listening, UNCHANGED listening,
               NEW q, ~Attended(q), backlog' = backlog \cup {q}
        PROVE  listening' /\ thread'[p] = "none"
    BY <2>4 DEF Attended
  <2>5. CASE UNCHANGED <<backlog, thread, listening>>
    BY <2>5
  <2> QED BY <2>1, <2>2, <2>3, <2>4, <2>5
          DEF Next, vars, threads, server, Go, Connect, Ask, Client, Receive,
              Disconnected, Stranger, ConnectStranger, Send, ReadSome, Change
<1> QED BY <1>1, <1>2, Inductive, PTL DEF Spec, IInv

\* A client and its thread never wait for each other, and no client for a peer.
THEOREM NoClientIsBlocked == Spec => []NobodyIsBlocked
<1>1. IInv /\ BacklogIsServed => NobodyIsBlocked
  <2> SUFFICES ASSUME IInv, BacklogIsServed, NEW c \in Clients, Waiting(c)
               PROVE  CanGoOn(c)
    BY DEF NobodyIsBlocked
  <2>1. Pending(c) /\ Exchange(c)
    BY DEF IInv, OneMessage, Exchange
  <2>2. CASE thread[c] = "reads" /\ up[c] = <<asked[c]>>
    <3>1. asked[c] \in Requests
      BY DEF IInv, TypeOK
    <3> QED BY <2>2, <3>1, OneElement DEF CanGoOn
  <2>3. CASE c \in backlog
    BY <2>3 DEF BacklogIsServed, CanGoOn
  <2>4. CASE thread[c] = "writes" /\ down[c] = << >>
    BY <2>4, OneElement, IpcAssumption DEF CanGoOn, Open, Waiting
  <2>5. CASE \E response \in Responses : down[c] = <<response>>
    BY <2>5, OneElement DEF CanGoOn
  <2>6. CASE thread[c] = "handles" \/ ~Attended(c)
    BY <2>6 DEF CanGoOn
  <2> QED BY <2>1, <2>2, <2>3, <2>4, <2>5, <2>6 DEF Pending
<1> QED BY <1>1, Inductive, BacklogInvariant, PTL

\* The steps a thread takes at most once its peer has gone.
StepsLeft(p) ==
  CASE thread[p] = "reads" -> 3
    [] thread[p] = "handles" -> 2
    [] thread[p] = "writes" -> 1
    [] OTHER -> 0

LEMMA GoneStep ==
  ASSUME TypeOK, BacklogIsServed, [Next]_vars,
         NEW p \in Peers, Serving(p), ~Open(p)
  PROVE  /\ ~Open(p)'
         /\ thread'[p] # thread[p] => StepsLeft(p)' < StepsLeft(p)
<1> USE DEF TypeOK, Serving, Open
<1>1. ~Open(p)'
  <2>1. CASE \E c \in Clients : Connect(c) \/ Client(c)
                                \/ \E query \in Queries : Ask(c, query)
    BY <2>1 DEF Connect, Ask, Client, Receive, Disconnected, Waits, Leave,
                Attended
  <2>2. CASE \E s \in Strangers : Stranger(s)
    BY <2>2 DEF Stranger, ConnectStranger, Send, ReadSome, users, Attended
  <2>3. CASE \E q \in Peers : Go(q)
    BY <2>3 DEF Go, Leave
  <2>4. CASE at' = at
    BY <2>4
  <2> QED BY <2>1, <2>2, <2>3, <2>4
          DEF Next, vars, Spawn, Stop, AcceptFails, Accept, Thread,
              ReadRequest, ReadFails, Handle, Write, WriteFails, Change, users
<1>2. ASSUME thread'[p] # thread[p] PROVE StepsLeft(p)' < StepsLeft(p)
  <2>1. CASE Thread(p)
    BY <2>1 DEF Thread, ReadRequest, ReadFails, Handle, Write, WriteFails,
                EndThread, StepsLeft
  <2>2. ASSUME NEW q \in Peers, q # p, Thread(q) PROVE FALSE
    BY <1>2, <2>2 DEF Thread, ReadRequest, ReadFails, Handle, Write, WriteFails,
                      EndThread
  <2>3. CASE Stop
    BY <2>3 DEF Stop, StepsLeft
  <2>4. ASSUME NEW q \in Peers, Accept(q) PROVE FALSE
    BY <1>2, <2>4 DEF Accept, Acceptable, BacklogIsServed
  <2>5. thread' # thread
    BY <1>2
  <2> QED BY <2>1, <2>2, <2>3, <2>4, <2>5
          DEF Next, vars, threads, Spawn, AcceptFails, Go, Connect, Ask, Client,
              Receive, Disconnected, Stranger, ConnectStranger, Send, ReadSome,
              Change
<1> QED BY <1>1, <1>2

\* The peer does not come back before its thread has ended, and whatever the
\* thread does brings it closer to its end: what the peer had sent before it went,
\* whole frames or not, cannot keep it busy.
ThreadsRunDown ==
  \A p \in Peers :
    Serving(p) /\ ~Open(p) =>
      /\ ~Open(p)'
      /\ thread'[p] # thread[p] => StepsLeft(p)' < StepsLeft(p)

\* A thread whose peer has gone takes three steps at most.
THEOREM GoneThreadsRunDown == Spec => [][ThreadsRunDown]_vars
<1>1. IInv /\ BacklogIsServed /\ [Next]_vars => [ThreadsRunDown]_vars
  BY GoneStep DEF IInv, ThreadsRunDown
<1> QED BY <1>1, Inductive, BacklogInvariant, PTL DEF Spec
=============================================================================
