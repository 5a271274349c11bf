--------------------------- MODULE SessionProofs ---------------------------
(* Theorems about Session for any set of clients and worker threads.       *)
EXTENDS Session, TLAPS

-----------------------------------------------------------------------------
(* The stages of a session.                                                *)

\* The session of c is where its client and its connection next do what cl and
\* co say, with tc and ts under way.  Either side may have failed, after the
\* connection broke, and left the other one to go on by itself.
At(c, cl, co, tc, ts) ==
    /\ client[c] = cl \/ (client[c] \in {"thrown", "exited"} /\ c \in broken)
    /\ conn[c] = co \/ (conn[c] = "closed" /\ c \in broken)
    /\ to_client[c] = tc
    /\ to_server[c] = ts

\* The client has not connected yet.
New(c) ==
    /\ client[c] = "new" /\ conn[c] = "none" /\ c \notin broken
    /\ to_client[c] = <<>> /\ to_server[c] = <<>>

Staged(c) ==
    \/ New(c)
    \/ At(c, "read_server_info", "backlog", <<>>, <<>>)
    \/ At(c, "read_server_info", "send_server_info", <<>>, <<>>)
    \/ At(c, "read_server_info", "read_login", <<"server_info">>, <<>>)
    \/ At(c, "send_login", "read_login", <<>>, <<>>)
    \/ At(c, "reported", "read_login", <<>>, <<>>)
    \/ At(c, "read_game_state", "read_login", <<>>, <<"login">>)
    \/ At(c, "read_game_state", "send_game_state", <<>>, <<>>)
    \/ At(c, "read_game_state", "read_login", <<"game_state">>, <<>>)
    \/ At(c, "done", "read_login", <<>>, <<>>)

SessionInv == TypeOK /\ \A c \in Clients : Staged(c)

\* A step that leaves c alone, or breaks its connection, leaves its stage.
LEMMA StageKept ==
    ASSUME NEW c \in Clients, Staged(c),
           client'[c] = client[c], conn'[c] = conn[c],
           to_client'[c] = to_client[c], to_server'[c] = to_server[c],
           c \in broken => c \in broken',
           c \in broken' => c \in broken \/ conn[c] # "none"
    PROVE  Staged(c)'
BY DEF Staged, New, At

\* The channels of a stage hold one message at most.
LEMMA StagedChannels ==
    ASSUME NEW c \in Clients, Staged(c)
    PROVE  /\ to_client[c] \in {<<>>, <<"server_info">>, <<"game_state">>}
           /\ to_server[c] \in {<<>>, <<"login">>}
BY DEF Staged, New, At

\* What the operations on channels do to them.
LEMMA Channels ==
    ASSUME NEW m
    PROVE  /\ Append(<<>>, m) = <<m>>
           /\ Head(<<m>>) = m
           /\ Tail(<<m>>) = <<>>
           /\ <<m>> # <<>>
           /\ Len(<<m>>) = 1
           /\ Len(<<>>) = 0
OBVIOUS

-----------------------------------------------------------------------------
(* Every step keeps the stages.                                            *)

LEMMA ConnectInv ==
    ASSUME SessionInv, NEW c \in Clients, Connect(c)
    PROVE  SessionInv'
<1>1. Staged(c)'
  BY DEF SessionInv, TypeOK, Connect, ClientGoes, Staged, New, At, netVars, connVars
<1>2. \A d \in Clients \ {c} : Staged(d)'
  BY StageKept DEF SessionInv, TypeOK, Connect, ClientGoes, netVars, connVars
<1>3. TypeOK'
  BY DEF SessionInv, TypeOK, Connect, ClientGoes, netVars, connVars, udpVars,
     ClientStates, ConnStates
<1> QED BY <1>1, <1>2, <1>3 DEF SessionInv

LEMMA ReadServerInfoInv ==
    ASSUME SessionInv, NEW c \in Clients, ReadServerInfo(c)
    PROVE  SessionInv'
<1>1. Staged(c)'
  BY Channels DEF SessionInv, TypeOK, ReadServerInfo, ClientGoes, Staged, New, At, netVars, connVars
<1>2. \A d \in Clients \ {c} : Staged(d)'
  BY StageKept DEF SessionInv, TypeOK, ReadServerInfo, ClientGoes, netVars, connVars
<1>3. /\ to_client'[c] \in {<<>>, <<"server_info">>, <<"game_state">>}
      /\ to_server'[c] \in {<<>>, <<"login">>}
  BY <1>1 DEF Staged, New, At
<1>4. TypeOK'
  BY <1>3 DEF SessionInv, TypeOK, ReadServerInfo, ClientGoes, netVars, connVars, udpVars,
     ClientStates, ConnStates
<1> QED BY <1>1, <1>2, <1>4 DEF SessionInv

LEMMA SendLoginInv ==
    ASSUME SessionInv, NEW c \in Clients, SendLogin(c)
    PROVE  SessionInv'
<1>1. Staged(c)'
  BY Channels DEF SessionInv, TypeOK, SendLogin, ClientGoes, Staged, New, At, netVars, connVars
<1>2. \A d \in Clients \ {c} : Staged(d)'
  BY StageKept DEF SessionInv, TypeOK, SendLogin, ClientGoes, netVars, connVars
<1>3. /\ to_client'[c] \in {<<>>, <<"server_info">>, <<"game_state">>}
      /\ to_server'[c] \in {<<>>, <<"login">>}
  BY <1>1 DEF Staged, New, At
<1>4. TypeOK'
  BY <1>3 DEF SessionInv, TypeOK, SendLogin, ClientGoes, netVars, connVars, udpVars,
     ClientStates, ConnStates
<1> QED BY <1>1, <1>2, <1>4 DEF SessionInv

LEMMA ReadGameStateInv ==
    ASSUME SessionInv, NEW c \in Clients, ReadGameState(c)
    PROVE  SessionInv'
<1>1. Staged(c)'
  BY Channels DEF SessionInv, TypeOK, ReadGameState, ClientGoes, Staged, New, At, netVars, connVars
<1>2. \A d \in Clients \ {c} : Staged(d)'
  BY StageKept DEF SessionInv, TypeOK, ReadGameState, ClientGoes, netVars, connVars
<1>3. /\ to_client'[c] \in {<<>>, <<"server_info">>, <<"game_state">>}
      /\ to_server'[c] \in {<<>>, <<"login">>}
  BY <1>1 DEF Staged, New, At
<1>4. TypeOK'
  BY <1>3 DEF SessionInv, TypeOK, ReadGameState, ClientGoes, netVars, connVars, udpVars,
     ClientStates, ConnStates
<1> QED BY <1>1, <1>2, <1>4 DEF SessionInv

LEMMA ClientThrowsInv ==
    ASSUME SessionInv, NEW c \in Clients, ClientThrows(c)
    PROVE  SessionInv'
<1>1. Staged(c)'
  BY DEF SessionInv, TypeOK, ClientThrows, Staged, New, At, netVars, connVars
<1>2. \A d \in Clients \ {c} : Staged(d)'
  BY StageKept DEF SessionInv, TypeOK, ClientThrows, netVars, connVars
<1>3. TypeOK'
  BY DEF SessionInv, TypeOK, ClientThrows, netVars, connVars, udpVars,
     ClientStates, ConnStates
<1> QED BY <1>1, <1>2, <1>3 DEF SessionInv

LEMMA ExitInv ==
    ASSUME SessionInv, NEW c \in Clients, Exit(c)
    PROVE  SessionInv'
<1>1. Staged(c)'
  BY DEF SessionInv, TypeOK, Exit, Staged, New, At, netVars, connVars
<1>2. \A d \in Clients \ {c} : Staged(d)'
  BY StageKept DEF SessionInv, TypeOK, Exit, netVars, connVars
<1>3. TypeOK'
  BY DEF SessionInv, TypeOK, Exit, netVars, connVars, udpVars,
     ClientStates, ConnStates
<1> QED BY <1>1, <1>2, <1>3 DEF SessionInv

LEMMA BreakInv ==
    ASSUME SessionInv, NEW c \in Clients, Break(c)
    PROVE  SessionInv'
<1>1. Staged(c)'
  BY DEF SessionInv, TypeOK, Break, Staged, New, At, netVars, connVars
<1>2. \A d \in Clients \ {c} : Staged(d)'
  BY StageKept DEF SessionInv, TypeOK, Break, netVars, connVars
<1>3. TypeOK'
  BY DEF SessionInv, TypeOK, Break, netVars, connVars, udpVars,
     ClientStates, ConnStates
<1> QED BY <1>1, <1>2, <1>3 DEF SessionInv

LEMMA AcceptInv ==
    ASSUME SessionInv, NEW c \in Clients, Accept(c)
    PROVE  SessionInv'
<1>1. Staged(c)'
  BY DEF SessionInv, TypeOK, Accept, ConnGoes, Addresses, Staged, New, At, netVars, connVars
<1>2. \A d \in Clients \ {c} : Staged(d)'
  BY StageKept DEF SessionInv, TypeOK, Accept, ConnGoes, Addresses, netVars, connVars
<1>3. TypeOK'
  BY DEF SessionInv, TypeOK, Accept, ConnGoes, Addresses, netVars, connVars, udpVars,
     ClientStates, ConnStates
<1> QED BY <1>1, <1>2, <1>3 DEF SessionInv

LEMMA AcceptFailsInv ==
    ASSUME SessionInv, NEW c \in Clients, AcceptFails(c)
    PROVE  SessionInv'
<1>1. Staged(c)'
  BY DEF SessionInv, TypeOK, AcceptFails, ConnGoes, Staged, New, At, netVars, connVars
<1>2. \A d \in Clients \ {c} : Staged(d)'
  BY StageKept DEF SessionInv, TypeOK, AcceptFails, ConnGoes, netVars, connVars
<1>3. TypeOK'
  BY DEF SessionInv, TypeOK, AcceptFails, ConnGoes, netVars, connVars, udpVars,
     ClientStates, ConnStates
<1> QED BY <1>1, <1>2, <1>3 DEF SessionInv

LEMMA SendServerInfoInv ==
    ASSUME SessionInv, NEW c \in Clients, SendServerInfo(c)
    PROVE  SessionInv'
<1>1. Staged(c)'
  BY Channels DEF SessionInv, TypeOK, SendServerInfo, ConnGoes, Staged, New, At, netVars, connVars
<1>2. \A d \in Clients \ {c} : Staged(d)'
  BY StageKept DEF SessionInv, TypeOK, SendServerInfo, ConnGoes, netVars, connVars
<1>3. /\ to_client'[c] \in {<<>>, <<"server_info">>, <<"game_state">>}
      /\ to_server'[c] \in {<<>>, <<"login">>}
  BY <1>1 DEF Staged, New, At
<1>4. TypeOK'
  BY <1>3 DEF SessionInv, TypeOK, SendServerInfo, ConnGoes, netVars, connVars, udpVars,
     ClientStates, ConnStates
<1> QED BY <1>1, <1>2, <1>4 DEF SessionInv

LEMMA ReadLoginInv ==
    ASSUME SessionInv, NEW c \in Clients, ReadLogin(c)
    PROVE  SessionInv'
<1>1. Staged(c)'
  <2>1. conn[c] = "read_login" /\ to_server[c] # <<>>
    BY DEF ReadLogin, ConnGoes
  <2>2. At(c, "read_game_state", "read_login", <<>>, <<"login">>)
    BY <2>1 DEF SessionInv, Staged, New, At
  <2>3. Head(to_server[c]) = "login"
    BY <2>2, Channels DEF At
  <2> QED BY <2>2, <2>3, Channels DEF SessionInv, TypeOK, ReadLogin, ConnGoes, Staged, At
<1>2. \A d \in Clients \ {c} : Staged(d)'
  BY StageKept DEF SessionInv, TypeOK, ReadLogin, ConnGoes, netVars, connVars
<1>3. /\ to_client'[c] \in {<<>>, <<"server_info">>, <<"game_state">>}
      /\ to_server'[c] \in {<<>>, <<"login">>}
  BY <1>1 DEF Staged, New, At
<1>4. TypeOK'
  BY <1>3 DEF SessionInv, TypeOK, ReadLogin, ConnGoes, netVars, connVars, udpVars,
     ClientStates, ConnStates
<1> QED BY <1>1, <1>2, <1>4 DEF SessionInv

LEMMA SendGameStateInv ==
    ASSUME SessionInv, NEW c \in Clients, SendGameState(c)
    PROVE  SessionInv'
<1>1. Staged(c)'
  BY Channels DEF SessionInv, TypeOK, SendGameState, ConnGoes, Staged, New, At, netVars, connVars
<1>2. \A d \in Clients \ {c} : Staged(d)'
  BY StageKept DEF SessionInv, TypeOK, SendGameState, ConnGoes, netVars, connVars
<1>3. /\ to_client'[c] \in {<<>>, <<"server_info">>, <<"game_state">>}
      /\ to_server'[c] \in {<<>>, <<"login">>}
  BY <1>1 DEF Staged, New, At
<1>4. TypeOK'
  BY <1>3 DEF SessionInv, TypeOK, SendGameState, ConnGoes, netVars, connVars, udpVars,
     ClientStates, ConnStates
<1> QED BY <1>1, <1>2, <1>4 DEF SessionInv

LEMMA TcpFailsInv ==
    ASSUME SessionInv, NEW c \in Clients, TcpFails(c)
    PROVE  SessionInv'
<1>1. Staged(c)'
  BY DEF SessionInv, TypeOK, TcpFails, TcpHolds, Staged, New, At, netVars, connVars
<1>2. \A d \in Clients \ {c} : Staged(d)'
  BY StageKept DEF SessionInv, TypeOK, TcpFails, TcpHolds, netVars, connVars
<1>3. TypeOK'
  BY DEF SessionInv, TypeOK, TcpFails, TcpHolds, netVars, connVars, udpVars,
     ClientStates, ConnStates
<1> QED BY <1>1, <1>2, <1>3 DEF SessionInv

\* The end of the server's process closes what there is.
LEMMA ProcessEndsInv ==
    ASSUME SessionInv, ProcessEnds, UNCHANGED <<client, to_client, to_server, m_address_map>>,
           udp_handler' \in [Workers -> Clients \cup {NoConnection}]
    PROVE  SessionInv'
<1>1. ASSUME NEW c \in Clients PROVE Staged(c)'
  <2>1. CASE conn[c] = "none"
    <3>1. New(c) /\ c \notin broken'
      BY <2>1 DEF SessionInv, ProcessEnds, Staged, New, At
    <3>2. conn'[c] = "none"
      BY <2>1 DEF ProcessEnds
    <3>3. New(c)'
      BY <3>1, <3>2 DEF New
    <3> QED BY <3>3 DEF Staged
  <2>2. CASE conn[c] # "none"
    <3>1. conn'[c] = "closed" /\ c \in broken'
      BY <2>2 DEF ProcessEnds
    <3>2. ASSUME NEW cl, NEW co, NEW tc, NEW ts, At(c, cl, co, tc, ts)
          PROVE  At(c, cl, co, tc, ts)'
      BY <3>1, <3>2 DEF At
    <3>3. ~New(c)
      BY <2>2 DEF New
    <3> QED BY <3>2, <3>3 DEF SessionInv, Staged
  <2> QED BY <2>1, <2>2
<1>2. TypeOK'
  BY DEF SessionInv, TypeOK, ProcessEnds, ConnStates
<1> QED BY <1>1, <1>2 DEF SessionInv

\* Steps that leave the sessions alone.
LEMMA ServerInv ==
    ASSUME SessionInv, UNCHANGED <<client, conn, netVars>>,
           m_address_map' = m_address_map,
           udp_handler' \in [Workers -> Clients \cup {NoConnection}],
           receiving' \in {"posted", "armed", "ended"},
           server' \in {"running", "stopping", "destroyed", "ended"}
    PROVE  SessionInv'
<1>1. \A c \in Clients : Staged(c)'
  BY StageKept DEF SessionInv, netVars
<1>2. TypeOK'
  BY DEF SessionInv, TypeOK, netVars
<1> QED BY <1>1, <1>2 DEF SessionInv

\* Whatever a lookup finds is a connection or none.
LEMMA GetConnectionType ==
    ASSUME TypeOK, NEW c \in Clients
    PROVE  get_connection(AddressOf[c]) \in Clients \cup {NoConnection}
BY DEF TypeOK, get_connection, Addresses

LEMMA InitInv == Init => SessionInv
BY DEF Init, SessionInv, TypeOK, Staged, New, ClientStates, ConnStates

LEMMA NextInv == SessionInv /\ [Next]_vars => SessionInv'
<1> SUFFICES ASSUME SessionInv, [Next]_vars PROVE SessionInv'
  OBVIOUS
<1>1. ASSUME NEW c \in Clients, Connect(c) \/ ClientStep(c) \/ Break(c)
      PROVE  SessionInv'
  BY <1>1, ConnectInv, ReadServerInfoInv, SendLoginInv, ReadGameStateInv, ClientThrowsInv,
     ExitInv, BreakInv DEF ClientStep
<1>2. ASSUME NEW c \in Clients, AcceptThrows(c)
      PROVE  SessionInv'
  BY <1>2, ProcessEndsInv DEF AcceptThrows
<1>3. ASSUME NEW c \in Clients, ServerStep(c)
      PROVE  SessionInv'
  BY <1>2, <1>3, AcceptInv, AcceptFailsInv, SendServerInfoInv, ReadLoginInv, SendGameStateInv, TcpFailsInv
     DEF ServerStep
<1>4. CASE Stop \/ DestroyServer \/ Arm \/ ReceiveFails
  BY <1>4, ServerInv DEF SessionInv, TypeOK, Stop, DestroyServer, Arm, ReceiveFails, udpVars, connVars, netVars
<1>5. CASE End
  BY <1>5, ProcessEndsInv DEF SessionInv, TypeOK, End
<1>6. ASSUME NEW w \in Workers, NEW c \in Clients, UdpReceive(w, c)
      PROVE  SessionInv'
  BY <1>6, ServerInv, GetConnectionType DEF SessionInv, TypeOK, UdpReceive, connVars, netVars
<1>7. ASSUME NEW w \in Workers, UdpHandled(w)
      PROVE  SessionInv'
  BY <1>7, ServerInv DEF SessionInv, TypeOK, UdpHandled, connVars, netVars
<1>8. CASE UNCHANGED vars
  BY <1>8, ServerInv DEF SessionInv, TypeOK, vars, connVars, netVars, udpVars
<1> QED
  BY <1>1, <1>3, <1>4, <1>5, <1>6, <1>7, <1>8 DEF Next

\* Every session is in one of its stages, however it is disturbed.
THEOREM SessionsStaged == Spec => []SessionInv
BY InitInv, NextInv, PTL DEF Spec

\* The types of the state; in particular, a channel never holds two messages.
THEOREM TypeCorrect == Spec => []TypeOK
<1>1. SessionInv => TypeOK
  BY DEF SessionInv
<1> QED BY <1>1, SessionsStaged, PTL

\* On a whole connection exactly one of acceptor, server, client and channels
\* has the next move, with any number of clients, whatever becomes of others.
THEOREM BatonsNeverLost == Spec => []OneBaton
<1>1. SessionInv => OneBaton
  <2> SUFFICES ASSUME SessionInv, NEW c \in Clients, conn[c] # "none", c \notin broken
               PROVE  Flag(conn[c] = "backlog")
                        + Flag(conn[c] \in {"send_server_info", "send_game_state"})
                        + Len(to_client[c]) + Len(to_server[c])
                        + Flag(client[c] \in {"send_login", "done", "reported"})
                      = 1
    BY DEF OneBaton
  <2>2. CASE client[c] = "read_server_info" /\ to_server[c] = <<>>
    <3>1. \/ conn[c] \in {"backlog", "send_server_info"} /\ to_client[c] = <<>>
          \/ conn[c] = "read_login" /\ to_client[c] = <<"server_info">>
      BY <2>2 DEF SessionInv, Staged, New, At
    <3>2. CASE conn[c] \in {"backlog", "send_server_info"} /\ to_client[c] = <<>>
      BY <2>2, <3>2, Channels DEF Flag
    <3>3. CASE conn[c] = "read_login" /\ to_client[c] = <<"server_info">>
      BY <2>2, <3>3, Channels DEF Flag
    <3> QED BY <3>1, <3>2, <3>3
  <2>3. CASE client[c] = "read_game_state"
    <3>1. \/ conn[c] = "send_game_state" /\ to_client[c] = <<>> /\ to_server[c] = <<>>
          \/ conn[c] = "read_login" /\ to_client[c] = <<"game_state">> /\ to_server[c] = <<>>
          \/ conn[c] = "read_login" /\ to_client[c] = <<>> /\ to_server[c] = <<"login">>
      BY <2>3 DEF SessionInv, Staged, New, At
    <3>2. CASE conn[c] = "send_game_state" /\ to_client[c] = <<>> /\ to_server[c] = <<>>
      BY <2>3, <3>2, Channels DEF Flag
    <3>3. CASE conn[c] = "read_login" /\ to_client[c] = <<"game_state">> /\ to_server[c] = <<>>
      BY <2>3, <3>3, Channels DEF Flag
    <3>4. CASE conn[c] = "read_login" /\ to_client[c] = <<>> /\ to_server[c] = <<"login">>
      BY <2>3, <3>4, Channels DEF Flag
    <3> QED BY <3>1, <3>2, <3>3, <3>4
  <2>4. CASE /\ client[c] \in {"send_login", "done", "reported"} /\ conn[c] = "read_login"
             /\ to_client[c] = <<>> /\ to_server[c] = <<>>
    BY <2>4, Channels DEF Flag
  <2> QED BY <2>2, <2>3, <2>4 DEF SessionInv, Staged, New, At
<1> QED BY <1>1, SessionsStaged, PTL

-----------------------------------------------------------------------------
(* The lifetime of connections.                                            *)

\* A lookup finds nothing but connections that are alive.
LEMMA FoundIsAlive ==
    ASSUME NEW a, get_connection(a) # NoConnection
    PROVE  Alive(get_connection(a))
BY DEF get_connection

\* No TCP operation begins on a connection that is closed.
LEMMA ClosedStaysClosed ==
    ASSUME TypeOK, Next, NEW c \in Clients, conn[c] = "closed"
    PROVE  conn'[c] \in {"closed", "backlog"}
<1>1. ASSUME NEW d \in Clients,
             \/ Connect(d) \/ Accept(d) \/ AcceptFails(d) \/ SendServerInfo(d)
             \/ ReadLogin(d) \/ SendGameState(d)
      PROVE  conn'[c] \in {"closed", "backlog"}
  BY <1>1 DEF TypeOK, Connect, Accept, AcceptFails, SendServerInfo, ReadLogin, SendGameState, ConnGoes
<1>2. ASSUME NEW d \in Clients, TcpFails(d)
      PROVE  conn'[c] \in {"closed", "backlog"}
  BY <1>2 DEF TypeOK, TcpFails
<1>3. CASE ProcessEnds
  BY <1>3 DEF ProcessEnds
<1>4. CASE UNCHANGED conn
  BY <1>4
<1> QED
  BY <1>1, <1>2, <1>3, <1>4 DEF Next, ClientStep, ServerStep, AcceptThrows, End, Stop,
     DestroyServer, Arm, ReceiveFails, UdpHandled, UdpReceive, ReadServerInfo, SendLogin, ReadGameState,
     ClientThrows, Exit, Break, connVars

\* No worker begins to hold a connection that is gone.
LEMMA NotHeldAgain ==
    ASSUME TypeOK, Next, NEW c \in Clients, ~Alive(c), NEW w \in Workers
    PROVE  udp_handler'[w] # c
<1>1. udp_handler[w] # c /\ c # NoConnection
  BY ClientsAssumption DEF Alive
<1>2. ASSUME NEW v \in Workers, NEW d \in Clients, UdpReceive(v, d)
      PROVE  udp_handler'[w] # c
  <2>1. get_connection(AddressOf[d]) # c
    BY <1>1, FoundIsAlive
  <2> QED BY <1>1, <1>2, <2>1 DEF TypeOK, UdpReceive
<1>3. ASSUME NEW v \in Workers, UdpHandled(v)
      PROVE  udp_handler'[w] # c
  BY <1>1, <1>3 DEF TypeOK, UdpHandled
<1>4. CASE udp_handler' = [v \in Workers |-> NoConnection]
  BY <1>1, <1>4
<1>5. CASE UNCHANGED udp_handler
  BY <1>1, <1>5
<1> QED
  BY <1>2, <1>3, <1>4, <1>5 DEF Next, ClientStep, ServerStep, Connect, Accept, AcceptFails, SendServerInfo,
     ReadLogin, SendGameState, TcpFails, AcceptThrows, End, Stop, DestroyServer, Arm,
     ReceiveFails, ReadServerInfo, SendLogin, ReadGameState, ClientThrows, Exit, Break, udpVars

\* A connection_t that was destroyed never comes back, though the map still
\* names it and packets of its client still arrive.
THEOREM DestroyedForGood == Spec => DestroyedStaysDestroyed
<1>1. TypeOK /\ [Next]_vars
        => [\A c \in Clients : conn[c] = "closed" /\ ~Alive(c) => ~Alive(c)']_vars
  <2> SUFFICES ASSUME TypeOK, Next, NEW c \in Clients, conn[c] = "closed", ~Alive(c)
               PROVE  ~Alive(c)'
    OBVIOUS
  <2>1. ~TcpHolds(c)'
    BY ClosedStaysClosed DEF TcpHolds
  <2>2. \A w \in Workers : udp_handler'[w] # c
    BY NotHeldAgain
  <2> QED BY <2>1, <2>2 DEF Alive
<1> QED BY <1>1, TypeCorrect, PTL DEF Spec, DestroyedStaysDestroyed

=============================================================================
