------------------------------ MODULE Session ------------------------------
(***************************************************************************)
(* TCP sessions between client processes (client_src/client.cpp) and the   *)
(* server (server_src/server.cpp): accepting, the login handshake, the     *)
(* lifetime of a connection_t, and the address map through which UDP       *)
(* packets find the connection they belong to.                             *)
(*                                                                         *)
(* A connection_t is kept alive by nothing but the shared_ptrs in its      *)
(* handlers: the one of its TCP operation under way, and those of UDP      *)
(* handlers that looked it up.  The map holds weak_ptrs.  TCP delivers in  *)
(* order; a connection may break at any moment, with what is under way     *)
(* either lost or still read.  Header and body of a message are read by    *)
(* two operations of one chain; they are one step here.                    *)
(*                                                                         *)
(* A signal stops the server at any moment, with handlers under way.  What *)
(* main declared is then destroyed in the reverse order: the server_t with *)
(* its m_udp_pool first, the io_service with the handlers that never ran   *)
(* last.  The pool is taken not to be full, so a receive has its block.    *)
(***************************************************************************)
EXTENDS Naturals, Sequences

CONSTANTS
    Clients,      \* client processes, each with the one connection it makes
    AddressOf,    \* the IP address of every client
    GoodVersion,  \* the clients of the server's protocol version
    Workers,      \* server threads that may handle UDP packets
    NoConnection  \* an empty shared_ptr or weak_ptr

ASSUME ClientsAssumption ==
    GoodVersion \subseteq Clients /\ NoConnection \notin Clients

Addresses == {AddressOf[c] : c \in Clients}

VARIABLES
    client,       \* per client, what it does next
    conn,         \* per client, what the server does next on its connection
    to_client,    \* per client, messages from the server under way
    to_server,    \* per client, messages to the server under way
    broken,       \* the clients whose TCP connection is broken or closed
    m_address_map,  \* per address, the connection inserted last
    udp_handler,  \* per worker, the connection its UDP handler holds
    receiving,    \* the server's next receive: "posted" to the strand, "armed"
                  \* with a block of m_udp_pool, or "ended"
    server        \* the server process: "running", "stopping", "destroyed" (the
                  \* server_t is, the io_service is not) or "ended"

udpVars == <<udp_handler, receiving>>
connVars == <<conn, m_address_map, server>>
netVars == <<to_client, to_server, broken>>
vars == <<client, connVars, netVars, udpVars>>

ClientStates ==
    {"new", "read_server_info", "send_login", "read_game_state",
     "done", "reported", "thrown", "exited"}

ConnStates ==
    {"none", "backlog", "send_server_info", "read_login", "send_game_state",
     "closed"}

TypeOK ==
    /\ client \in [Clients -> ClientStates]
    /\ conn \in [Clients -> ConnStates]
    /\ to_client \in [Clients -> {<<>>, <<"server_info">>, <<"game_state">>}]
    /\ to_server \in [Clients -> {<<>>, <<"login">>}]
    /\ broken \in SUBSET Clients
    /\ m_address_map \in [Addresses -> Clients \cup {NoConnection}]
    /\ udp_handler \in [Workers -> Clients \cup {NoConnection}]
    /\ receiving \in {"posted", "armed", "ended"}
    /\ server \in {"running", "stopping", "destroyed", "ended"}

\* A TCP operation of the connection is under way, and holds it.
TcpHolds(c) == conn[c] \in {"send_server_info", "read_login", "send_game_state"}

\* The connection_t exists.
Alive(c) == TcpHolds(c) \/ \E w \in Workers : udp_handler[w] = c

\* Faulty variant: the weak_ptr is used without lock().
GetConnectionUnlocked(a) == m_address_map[a]

\* get_connection: find and lock, under the map's mutex.
get_connection(a) ==
    IF m_address_map[a] # NoConnection /\ Alive(m_address_map[a])
    THEN m_address_map[a]
    ELSE NoConnection

Init ==
    /\ client = [c \in Clients |-> "new"]
    /\ conn = [c \in Clients |-> "none"]
    /\ to_client = [c \in Clients |-> <<>>]
    /\ to_server = [c \in Clients |-> <<>>]
    /\ broken = {}
    /\ m_address_map = [a \in Addresses |-> NoConnection]
    /\ udp_handler = [w \in Workers |-> NoConnection]
    /\ receiving = "posted"
    /\ server = "running"

-----------------------------------------------------------------------------
(* The client.                                                             *)

ClientGoes(c, from, to) ==
    /\ client[c] = from
    /\ client' = [client EXCEPT ![c] = to]

\* The constructor connects and posts tcp_read_server_info.  The acceptor
\* listens until it is destroyed.
Connect(c) ==
    /\ server \in {"running", "stopping"}
    /\ ClientGoes(c, "new", "read_server_info")
    /\ conn' = [conn EXCEPT ![c] = "backlog"]
    /\ UNCHANGED <<netVars, m_address_map, udpVars, server>>

\* Any other message, or another version, is reported, and nothing more is
\* read or sent.
ReadServerInfo(c) ==
    /\ to_client[c] # <<>>
    /\ ClientGoes(c, "read_server_info",
                  IF Head(to_client[c]) = "server_info" /\ c \in GoodVersion
                  THEN "send_login"
                  ELSE "reported")
    /\ to_client' = [to_client EXCEPT ![c] = Tail(@)]
    /\ UNCHANGED <<connVars, to_server, broken, udpVars>>

SendLogin(c) ==
    /\ ClientGoes(c, "send_login", "read_game_state")
    /\ to_server' = [to_server EXCEPT ![c] = Append(@, "login")]
    /\ UNCHANGED <<connVars, to_client, broken, udpVars>>

ReadGameState(c) ==
    /\ to_client[c] # <<>>
    /\ ClientGoes(c, "read_game_state",
                  IF Head(to_client[c]) = "game_state" THEN "done"
                                                       ELSE "reported")
    /\ to_client' = [to_client EXCEPT ![c] = Tail(@)]
    /\ UNCHANGED <<connVars, to_server, broken, udpVars>>

\* An operation on a broken connection throws out of io_service.run.
ClientThrows(c) ==
    /\ c \in broken
    /\ client[c] \in {"read_server_info", "send_login", "read_game_state"}
    /\ client' = [client EXCEPT ![c] = "thrown"]
    /\ UNCHANGED <<connVars, netVars, udpVars>>

\* Without an operation under way io_service.run returns (or has thrown), the
\* process ends and its socket is closed.
Exit(c) ==
    /\ client[c] \in {"done", "reported", "thrown"}
    /\ client' = [client EXCEPT ![c] = "exited"]
    /\ broken' = broken \cup {c}
    /\ UNCHANGED <<connVars, to_client, to_server, udpVars>>

-----------------------------------------------------------------------------
(* The network.                                                            *)

Break(c) ==
    /\ conn[c] # "none"
    /\ c \notin broken
    /\ broken' = broken \cup {c}
    /\ UNCHANGED <<client, connVars, to_client, to_server, udpVars>>

-----------------------------------------------------------------------------
(* The server's TCP side.                                                  *)

ConnGoes(c, from, to) ==
    /\ server = "running"
    /\ conn[c] = from
    /\ conn' = [conn EXCEPT ![c] = to]

\* The accept handler: make_connection enters the connection into the map,
\* in the place of an earlier one from the same address; start begins to send
\* the server info.
Accept(c) ==
    /\ ConnGoes(c, "backlog", "send_server_info")
    /\ m_address_map' = [m_address_map EXCEPT ![AddressOf[c]] = c]
    /\ UNCHANGED <<client, netVars, udpVars, server>>

\* The error branch of the accept handler: it only accepts again.  A connection
\* aborted before it was accepted is gone; any other failure leaves it in the
\* backlog, and nothing changes.
AcceptFails(c) ==
    /\ c \in broken
    /\ ConnGoes(c, "backlog", "closed")
    /\ UNCHANGED <<client, netVars, m_address_map, udpVars, server>>

ProcessEnds ==
    /\ server' = "ended"
    /\ receiving' = "ended"
    /\ conn' = [c \in Clients |-> IF conn[c] = "none" THEN "none" ELSE "closed"]
    /\ broken' = {c \in Clients : conn[c] # "none"}

\* remote_endpoint throws if the peer is gone already.  Nobody catches: the
\* exception leaves the thread's io_service.run and ends the process, and
\* with it every connection.
AcceptThrows(c) ==
    /\ server = "running"
    /\ conn[c] = "backlog"
    /\ c \in broken
    /\ ProcessEnds
    /\ udp_handler' = [w \in Workers |-> NoConnection]
    /\ UNCHANGED <<client, to_client, to_server, m_address_map>>

\* Faulty variant: the shared_ptr is not handed on to tcp_read_login.
SendServerInfoOnly(c) ==
    /\ ConnGoes(c, "send_server_info", "closed")
    /\ to_client' = [to_client EXCEPT ![c] = Append(@, "server_info")]
    /\ UNCHANGED <<client, to_server, broken, m_address_map, udpVars, server>>

\* Faulty variant: the game state is sent before a login was read.
SendServerInfoSkipsLogin(c) ==
    /\ ConnGoes(c, "send_server_info", "send_game_state")
    /\ to_client' = [to_client EXCEPT ![c] = Append(@, "server_info")]
    /\ UNCHANGED <<client, to_server, broken, m_address_map, udpVars, server>>

SendServerInfo(c) ==
    /\ ConnGoes(c, "send_server_info", "read_login")
    /\ to_client' = [to_client EXCEPT ![c] = Append(@, "server_info")]
    /\ UNCHANGED <<client, to_server, broken, m_address_map, udpVars, server>>

\* Any other message is reported, and the TCP side's shared_ptr goes with its
\* handler.
ReadLogin(c) ==
    /\ to_server[c] # <<>>
    /\ LET login == Head(to_server[c]) = "login"
       IN  /\ ConnGoes(c, "read_login", IF login THEN "send_game_state" ELSE "closed")
           /\ broken' = IF login THEN broken ELSE broken \cup {c}
    /\ to_server' = [to_server EXCEPT ![c] = Tail(@)]
    /\ UNCHANGED <<client, to_client, m_address_map, udpVars, server>>

\* Faulty variant: having sent the game state the server sends another.
SendGameStateAgain(c) ==
    /\ ConnGoes(c, "send_game_state", "send_game_state")
    /\ Len(to_client[c]) < 2
    /\ to_client' = [to_client EXCEPT ![c] = Append(@, "game_state")]
    /\ UNCHANGED <<client, to_server, broken, m_address_map, udpVars, server>>

\* Then the server reads a login again.
SendGameState(c) ==
    /\ ConnGoes(c, "send_game_state", "read_login")
    /\ to_client' = [to_client EXCEPT ![c] = Append(@, "game_state")]
    /\ UNCHANGED <<client, to_server, broken, m_address_map, udpVars, server>>

\* Faulty variant: an error is only noticed while sending.
TcpFailsSendingOnly(c) ==
    /\ server = "running"
    /\ c \in broken
    /\ conn[c] \in {"send_server_info", "send_game_state"}
    /\ conn' = [conn EXCEPT ![c] = "closed"]
    /\ UNCHANGED <<client, netVars, m_address_map, udpVars, server>>

\* An operation on a broken connection fails; its handler only prints, and
\* with it goes the TCP side's shared_ptr.
TcpFails(c) ==
    /\ server = "running"
    /\ c \in broken
    /\ TcpHolds(c)
    /\ conn' = [conn EXCEPT ![c] = "closed"]
    /\ UNCHANGED <<client, netVars, m_address_map, udpVars, server>>

\* A signal: io_service.stop lets no thread begin another handler.
Stop ==
    /\ server = "running"
    /\ server' = "stopping"
    /\ UNCHANGED <<client, conn, m_address_map, netVars, udpVars>>

\* When the handlers under way are through, main has joined every thread and
\* destroys the server_t, which it declares after the io_service.
DestroyServer ==
    /\ server = "stopping"
    /\ \A w \in Workers : udp_handler[w] = NoConnection
    /\ server' = "destroyed"
    /\ UNCHANGED <<client, conn, m_address_map, netVars, udpVars>>

\* The io_service destroys the handlers that never ran: with them the
\* connections they hold, and the block of the armed receive.
End ==
    /\ server = "destroyed"
    /\ ProcessEnds
    /\ UNCHANGED <<client, to_client, to_server, m_address_map, udp_handler>>

-----------------------------------------------------------------------------
(* The server's UDP side.                                                  *)

\* udp_receive, on the strand: a block of the pool and a receive into it.
Arm ==
    /\ server = "running"
    /\ receiving = "posted"
    /\ receiving' = "armed"
    /\ UNCHANGED <<client, connVars, netVars, udp_handler>>

\* A packet of a running client arrives: the handler posts the next receive,
\* looks up the sender's address, and holds the connection it finds; otherwise
\* it discards the packet.
UdpReceive(w, c) ==
    /\ server = "running"
    /\ receiving = "armed"
    /\ client[c] \notin {"new", "exited"}
    /\ udp_handler[w] = NoConnection
    /\ receiving' = "posted"
    /\ udp_handler' = [udp_handler EXCEPT ![w] = get_connection(AddressOf[c])]
    /\ UNCHANGED <<client, connVars, netVars>>

\* An error instead of a packet: the handler only posts the next receive.
ReceiveFails ==
    /\ server = "running"
    /\ receiving = "armed"
    /\ receiving' = "posted"
    /\ UNCHANGED <<client, connVars, netVars, udp_handler>>

\* handle_udp_receive is through.
UdpHandled(w) ==
    /\ udp_handler[w] # NoConnection
    /\ udp_handler' = [udp_handler EXCEPT ![w] = NoConnection]
    /\ UNCHANGED <<client, connVars, netVars, receiving>>

-----------------------------------------------------------------------------
ClientStep(c) ==
    ReadServerInfo(c) \/ SendLogin(c) \/ ReadGameState(c) \/ ClientThrows(c)
        \/ Exit(c)

ServerStep(c) ==
    \/ Accept(c)
    \/ AcceptThrows(c)
    \/ AcceptFails(c)
    \/ SendServerInfo(c)
    \/ ReadLogin(c)
    \/ SendGameState(c)
    \/ TcpFails(c)

Next ==
    \/ \E c \in Clients :
          Connect(c) \/ ClientStep(c) \/ Break(c) \/ ServerStep(c)
    \/ Stop \/ DestroyServer \/ End
    \/ Arm \/ ReceiveFails
    \/ \E w \in Workers : UdpHandled(w) \/ \E c \in Clients : UdpReceive(w, c)

Spec == Init /\ [][Next]_vars

\* Both io_services run every handler whose operation has completed, and
\* operations that can complete do.
LiveSpec ==
    /\ Spec
    /\ \A c \in Clients : WF_vars(ClientStep(c)) /\ WF_vars(ServerStep(c))
    /\ \A w \in Workers : WF_vars(UdpHandled(w))
    /\ WF_vars(DestroyServer) /\ WF_vars(End)

-----------------------------------------------------------------------------
(* Properties.                                                             *)

Flag(P) == IF P THEN 1 ELSE 0

\* The handshake is a baton: as long as the connection is whole, exactly one
\* of acceptor, server, client and the two channels has the next move.  So
\* never are both sides reading with nothing under way, and never does one
\* side send to a peer that does not read.  It rests with a client that is
\* through with its part.
OneBaton ==
    \A c \in Clients :
        conn[c] # "none" /\ c \notin broken =>
            Flag(conn[c] = "backlog")
              + Flag(conn[c] \in {"send_server_info", "send_game_state"})
              + Len(to_client[c]) + Len(to_server[c])
              + Flag(client[c] \in {"send_login", "done", "reported"})
            = 1

\* No packet revives a connection_t: one that was destroyed never comes back
\* through the map, which still names it, not even for the packets of another
\* client behind the same address.
DestroyedStaysDestroyed ==
    [][\A c \in Clients : conn[c] = "closed" /\ ~Alive(c) => ~Alive(c)']_vars

\* A client of the right version that reaches the server is served, unless
\* its connection breaks or the server stops or is ended by an exception.
LoginsComplete ==
    \A c \in GoodVersion :
        conn[c] = "backlog" ~> (client[c] = "done" \/ c \in broken \/ server # "running")

\* "A smart pointer that behaves like shared_ptr": the block of a receive that
\* is under way is there until the pointer in its handler is destroyed.
PointersKeepBlocks == server = "destroyed" => receiving # "armed"

\* The connection_t of a client that is gone is destroyed, also when the server
\* is stopped with handlers under way.
BrokenConnectionsDie ==
    \A c \in Clients : c \in broken ~> ~Alive(c)
=============================================================================
