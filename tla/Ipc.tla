-------------------------------- MODULE Ipc --------------------------------
(***************************************************************************)
(* The socket of the daemon (netusage-ipc, ipc_server.rs): a thread that   *)
(* accepts connections, one thread for each of them, and the clients of    *)
(* client.rs, which send a request and wait for its answer.  Other         *)
(* programs that connect may send anything, in part or not at all, never   *)
(* read and go when they like.                                             *)
(*                                                                         *)
(* A message on a connection is a whole frame, or what decode_from makes   *)
(* of the bytes that are there: the part of a frame that has arrived, or   *)
(* one that is too long or cannot be decoded.                              *)
(***************************************************************************)
EXTENDS Naturals, Sequences

CONSTANTS
  Clients,     \* users of the Client of client.rs
  Strangers,   \* other programs that connect
  Version,     \* the PROTOCOL_VERSION of the clients
  Installed,   \* and those of the daemons that may start
  Readings,    \* what a query may find in the database
  Unreadable,  \* the database cannot be opened or queried
  Buffer       \* messages the kernel holds for a connection, each way

ASSUME IpcAssumption ==
  /\ Clients \cap Strangers = {}
  /\ Version \in Installed
  /\ Buffer \in Nat \ {0}

Peers == Clients \cup Strangers

\* Request: the queries of a total and of a list differ in what they answer.
Queries == {"totals", "per app"}
Requests == {"ping"} \cup Queries
Frames == Requests \cup {"part", "bad"}

VARIABLES
  db,         \* what a query finds
  running,    \* the daemon runs
  speaks,     \* its PROTOCOL_VERSION
  listening,  \* serve accepts connections
  backlog,    \* peers whose connection waits to be accepted
  thread,     \* handle_connection, by peer
  handled,    \* the request it answers, by peer
  answer,     \* and its response
  up, down,   \* messages on their way to the daemon and back, by peer
  at,         \* where each peer is
  asked,      \* the request each client waits for
  since       \* history: what the database held meanwhile

server == <<running, speaks, listening, backlog>>
threads == <<thread, handled, answer>>
users == <<at, asked, since>>
vars == <<db, server, threads, up, down, users>>

Database == Readings \cup {Unreadable}

Responses ==
  [kind : {"pong"}, value : Installed]
    \cup [kind : Queries, value : Readings]
    \cup [kind : {"error"}, value : {Unreadable}]

Nothing == [kind |-> "error", value |-> Unreadable]

TypeOK ==
  /\ db \in Database
  /\ running \in BOOLEAN /\ speaks \in Installed /\ listening \in BOOLEAN
  /\ backlog \subseteq Peers
  /\ thread \in [Peers -> {"none", "reads", "handles", "writes"}]
  /\ handled \in [Peers -> Requests]
  /\ answer \in [Peers -> Responses]
  /\ up \in [Peers -> Seq(Frames)] /\ down \in [Peers -> Seq(Responses)]
  /\ \A p \in Peers : Len(up[p]) <= Buffer /\ Len(down[p]) <= Buffer
  /\ at \in [Peers -> {"off", "shakes", "idle", "asks", "connected"}]
  /\ asked \in [Clients -> Requests]
  /\ since \in [Clients -> SUBSET Database]

Init ==
  /\ db \in Database
  /\ running = FALSE /\ speaks = Version /\ listening = FALSE
  /\ backlog = {}
  /\ thread = [p \in Peers |-> "none"]
  /\ handled = [p \in Peers |-> "ping"]
  /\ answer = [p \in Peers |-> Nothing]
  /\ up = [p \in Peers |-> << >>] /\ down = [p \in Peers |-> << >>]
  /\ at = [p \in Peers |-> "off"]
  /\ asked = [c \in Clients |-> "ping"]
  /\ since = [c \in Clients |-> {}]

\* The two ends of a connection.
Open(p) == at[p] # "off"
Serving(p) == thread[p] # "none"
Attended(p) == Serving(p) \/ p \in backlog

-----------------------------------------------------------------------------
(* The daemon.                                                             *)

\* ipc_server::spawn, in a daemon that starts, perhaps after an upgrade.
Spawn ==
  /\ ~running
  /\ running' = TRUE /\ listening' = TRUE
  /\ speaks' \in Installed
  /\ UNCHANGED <<db, backlog, threads, up, down, users>>

\* The daemon ends, with its threads; what they wrote can still be read.
Stop ==
  /\ running
  /\ running' = FALSE /\ speaks' = Version /\ listening' = FALSE
  /\ backlog' = {}
  /\ thread' = [p \in Peers |-> "none"]
  /\ handled' = [p \in Peers |-> "ping"]
  /\ answer' = [p \in Peers |-> Nothing]
  /\ up' = [p \in Peers |-> << >>]
  /\ UNCHANGED <<db, down, users>>

\* Fault: a connection is attended when the one before it has ended.
OneByOne(p) == p \in backlog /\ \A q \in Peers : ~Serving(q)

Acceptable(p) == p \in backlog

\* serve: a thread for each connection.
Accept(p) ==
  /\ listening
  /\ Acceptable(p)
  /\ backlog' = backlog \ {p}
  /\ thread' = [thread EXCEPT ![p] = "reads"]
  /\ UNCHANGED <<db, running, speaks, listening, handled, answer, up, down, users>>

\* A connection cannot be accepted: serve returns, and the daemon goes on.
AcceptFails ==
  /\ listening
  /\ listening' = FALSE
  /\ up' = [p \in Peers |-> IF p \in backlog THEN << >> ELSE up[p]]
  /\ backlog' = {}
  /\ UNCHANGED <<db, running, speaks, threads, down, users>>

-----------------------------------------------------------------------------
(* handle_connection                                                       *)

\* The thread ends and its end of the connection is closed.
EndThread(p) ==
  /\ thread' = [thread EXCEPT ![p] = "none"]
  /\ handled' = [handled EXCEPT ![p] = "ping"]
  /\ answer' = [answer EXCEPT ![p] = Nothing]
  /\ up' = [up EXCEPT ![p] = << >>]

\* decode_from returns a request.
ReadRequest(p) ==
  /\ thread[p] = "reads"
  /\ up[p] # << >> /\ Head(up[p]) \in Requests
  /\ thread' = [thread EXCEPT ![p] = "handles"]
  /\ handled' = [handled EXCEPT ![p] = Head(up[p])]
  /\ up' = [up EXCEPT ![p] = Tail(@)]
  /\ UNCHANGED <<db, server, answer, down, users>>

\* Fault: only an end between two frames is noticed.
EndsBetween(p) == ~Open(p) /\ up[p] = << >>

\* The stream ends between two frames, in one or, when the peer left without
\* reading, before what is left of it was read.
StreamEnds(p) == ~Open(p)

\* decode_from returns an error: the stream has ended, or a frame is bad.
ReadFails(p) ==
  /\ thread[p] = "reads"
  /\ StreamEnds(p) \/ (up[p] # << >> /\ Head(up[p]) = "bad")
  /\ EndThread(p)
  /\ UNCHANGED <<db, server, down, users>>

\* Fault: whatever cannot be answered is answered like a ping.
PongElse(request) ==
  IF request \in Queries /\ db # Unreadable
  THEN [kind |-> request, value |-> db]
  ELSE [kind |-> "pong", value |-> speaks]

\* Fault: the error loses its kind.
Bare(request) ==
  IF request = "ping" THEN [kind |-> "pong", value |-> speaks]
  ELSE [kind |-> request, value |-> db]

\* StoreHandler::handle: the database is opened for each query.
Respond(request) ==
  IF request = "ping" THEN [kind |-> "pong", value |-> speaks]
  ELSE IF db = Unreadable THEN [kind |-> "error", value |-> Unreadable]
  ELSE [kind |-> request, value |-> db]

Handle(p) ==
  /\ thread[p] = "handles"
  /\ thread' = [thread EXCEPT ![p] = "writes"]
  /\ answer' = [answer EXCEPT ![p] = Respond(handled[p])]
  /\ handled' = [handled EXCEPT ![p] = "ping"]
  /\ UNCHANGED <<db, server, up, down, users>>

\* write_all waits for a peer that does not read.
Write(p) ==
  /\ thread[p] = "writes"
  /\ Open(p) /\ Len(down[p]) < Buffer
  /\ down' = [down EXCEPT ![p] = Append(@, answer[p])]
  /\ thread' = [thread EXCEPT ![p] = "reads"]
  /\ answer' = [answer EXCEPT ![p] = Nothing]
  /\ UNCHANGED <<db, server, handled, up, users>>

WriteFails(p) ==
  /\ thread[p] = "writes"
  /\ ~Open(p)
  /\ EndThread(p)
  /\ UNCHANGED <<db, server, down, users>>

Thread(p) ==
  ReadRequest(p) \/ ReadFails(p) \/ Handle(p) \/ Write(p) \/ WriteFails(p)

-----------------------------------------------------------------------------
(* The clients.                                                            *)

\* What the client waits for: the request, and what the database holds.
Waits(c, place, request) ==
  /\ at' = [at EXCEPT ![c] = place]
  /\ asked' = [asked EXCEPT ![c] = request]
  /\ since' = [since EXCEPT ![c] = IF place = "asks" THEN {db} ELSE {}]

\* Client::connect, whose handshake sends a ping.  Bound: a peer has one
\* connection, and comes back when the daemon is done with the last one.
Connect(c) ==
  /\ at[c] = "off" /\ ~Attended(c)
  /\ listening
  /\ backlog' = backlog \cup {c}
  /\ up' = [up EXCEPT ![c] = <<"ping">>]
  /\ down' = [down EXCEPT ![c] = << >>]
  /\ Waits(c, "shakes", "ping")
  /\ UNCHANGED <<db, running, speaks, listening, threads>>

\* Client::request, up to the wait for the answer.
Ask(c, query) ==
  /\ at[c] = "idle"
  /\ Attended(c)
  /\ up' = [up EXCEPT ![c] = Append(@, query)]
  /\ Waits(c, "asks", query)
  /\ UNCHANGED <<db, server, threads, down>>

Leave(p) ==
  /\ at' = [at EXCEPT ![p] = "off"]
  /\ IF p \in Clients
     THEN /\ asked' = [asked EXCEPT ![p] = "ping"]
          /\ since' = [since EXCEPT ![p] = {}]
     ELSE UNCHANGED <<asked, since>>

\* Fault: any pong will do.
AnyPong(c, response) == at[c] = "shakes" => response.kind = "pong"

\* The handshake fails if the daemon speaks another version.
Agrees(c, response) ==
  at[c] = "shakes" => response = [kind |-> "pong", value |-> Version]

Receive(c) ==
  /\ at[c] \in {"shakes", "asks"}
  /\ down[c] # << >>
  /\ IF Agrees(c, Head(down[c]))
     THEN Waits(c, "idle", "ping") /\ down' = [down EXCEPT ![c] = Tail(@)]
     ELSE Leave(c) /\ down' = [down EXCEPT ![c] = << >>]
  /\ UNCHANGED <<db, server, threads, up>>

\* The daemon has closed the connection: the request returns an error, or the
\* next one will.
Disconnected(c) ==
  /\ at[c] \in {"shakes", "idle", "asks"}
  /\ ~Attended(c) /\ down[c] = << >>
  /\ Leave(c)
  /\ UNCHANGED <<db, server, threads, up, down>>

-----------------------------------------------------------------------------
(* Other programs.                                                         *)

ConnectStranger(s) ==
  /\ at[s] = "off" /\ ~Attended(s)
  /\ listening
  /\ backlog' = backlog \cup {s}
  /\ at' = [at EXCEPT ![s] = "connected"]
  /\ UNCHANGED <<db, running, speaks, listening, threads, up, down, asked, since>>

\* A stranger sends a frame, whole or in part, or the rest of one.
Partial(s) == up[s] # << >> /\ up[s][Len(up[s])] = "part"

Send(s, frame) ==
  /\ at[s] = "connected"
  /\ Attended(s)
  /\ up' = [up EXCEPT ![s] =
             IF Partial(s) THEN [@ EXCEPT ![Len(@)] = frame]
             ELSE Append(@, frame)]
  /\ Len(up'[s]) <= Buffer
  /\ UNCHANGED <<db, server, threads, down, users>>

ReadSome(s) ==
  /\ at[s] = "connected"
  /\ down[s] # << >>
  /\ down' = [down EXCEPT ![s] = Tail(@)]
  /\ UNCHANGED <<db, server, threads, up, users>>

\* Any peer goes at any moment; nobody reads what it was sent.
Go(p) ==
  /\ Open(p)
  /\ Leave(p)
  /\ down' = [down EXCEPT ![p] = << >>]
  /\ UNCHANGED <<db, server, threads, up>>

\* The daemon writes the database, or something locks it.
Change(content) ==
  /\ content # db
  /\ db' = content
  /\ since' = [c \in Clients |->
                 IF at[c] = "asks" THEN since[c] \cup {content} ELSE since[c]]
  /\ UNCHANGED <<server, threads, up, down, at, asked>>

Client(c) == Receive(c) \/ Disconnected(c)

\* Bound: a stranger sends one of the queries, which is as good as the other.
Stranger(s) ==
  \/ ConnectStranger(s)
  \/ \E frame \in Frames \ {"per app"} : Send(s, frame)
  \/ ReadSome(s)

Next ==
  \/ Spawn \/ Stop \/ AcceptFails
  \/ \E p \in Peers : Accept(p) \/ Thread(p) \/ Go(p)
  \/ \E c \in Clients :
       Connect(c) \/ (\E query \in Queries : Ask(c, query)) \/ Client(c)
  \/ \E s \in Strangers : Stranger(s)
  \/ \E content \in Database : Change(content)

Spec == Init /\ [][Next]_vars

\* A thread that can go on does; so does a client.  Strangers need not do
\* anything, nor has anything to fail, to stop or to start.
FairSpec ==
  /\ Spec
  /\ \A p \in Peers : WF_vars(Accept(p)) /\ WF_vars(Thread(p))
  /\ \A c \in Clients : WF_vars(Client(c))

-----------------------------------------------------------------------------
(* Properties.                                                             *)

\* A client that a daemon serves past the handshake speaks its version: one that
\* was upgraded meanwhile never gets a query in the old encoding.
SameVersion ==
  \A c \in Clients :
    Serving(c) /\ at[c] \in {"idle", "asks"} => speaks = Version

Waiting(c) == at[c] \in {"shakes", "asks"}

\* What a request returns is the answer to it, whatever was asked before, by
\* whom and of which daemon: an error, or what the database held at some moment
\* since the request was sent.
AnswersTheRequest ==
  [][\A c \in Clients :
       at[c] = "asks" /\ at'[c] = "idle" =>
         LET response == Head(down[c]) IN
         /\ response.kind \in {asked[c], "error"}
         /\ response.value \in since[c]]_vars

\* No request waits for ever: neither for peers that stall in the middle of a
\* frame, send garbage, or do not read, nor for a daemon that stopped, stopped
\* accepting or cannot read its database (server.rs:28: such a client must not
\* "tumbar el servidor ni el demonio").
NobodyWaitsForEver == \A c \in Clients : Waiting(c) ~> ~Waiting(c)

\* A peer that has gone leaves no thread behind, wherever it stopped.
ThreadsEnd == \A p \in Peers : Serving(p) /\ ~Open(p) ~> ~Serving(p)

-----------------------------------------------------------------------------
(* Why: one message for each client, request or answer.                    *)

\* What a client that waits may be told.  A pong is of the daemon that sent it.
Due(c, response) ==
  IF at[c] = "asks"
  THEN response.kind \in {asked[c], "error"} /\ response.value \in since[c]
  ELSE response.kind = "pong" /\ (Attended(c) => response.value = speaks)

\* The request waits to be read, it is handled, its answer is written, or waits to
\* be read; or the daemon has closed the connection.
Pending(c) ==
  \/ /\ c \in backlog \/ thread[c] = "reads"
     /\ up[c] = <<asked[c]>> /\ down[c] = << >>
  \/ /\ thread[c] = "handles" /\ handled[c] = asked[c]
     /\ up[c] = << >> /\ down[c] = << >>
  \/ /\ thread[c] = "writes" /\ Due(c, answer[c])
     /\ up[c] = << >> /\ down[c] = << >>
  \/ /\ thread[c] \in {"reads", "none"} /\ c \notin backlog
     /\ up[c] = << >>
     /\ \E response \in Responses :
          down[c] = <<response>> /\ Due(c, response)
  \/ ~Attended(c) /\ up[c] = << >> /\ down[c] = << >>

\* A client has sent nothing else: what is left of an earlier request went with
\* its connection.
Exchange(c) ==
  /\ Attended(c) => running
  /\ c \in backlog => thread[c] = "none" /\ at[c] \in {"off", "shakes"}
  /\ ~Attended(c) => up[c] = << >>
  /\ at[c] = "off" => down[c] = << >>
  /\ at[c] = "idle" => /\ thread[c] \in {"reads", "none"}
                       /\ up[c] = << >> /\ down[c] = << >>
  /\ at[c] = "shakes" => asked[c] = "ping"
  /\ at[c] = "asks" => asked[c] \in Queries /\ db \in since[c]
  /\ Waiting(c) => Pending(c)

OneMessage == (listening => running) /\ \A c \in Clients : Exchange(c)
=============================================================================
