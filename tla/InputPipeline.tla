--------------------------- MODULE InputPipeline ---------------------------
(***************************************************************************)
(* The way of a player's input: send_input of the clients' main threads,   *)
(* the clients' network threads, UDP, the server's receive chain and its   *)
(* worker threads, m_udp_received, and the tick (client_src/client.cpp,    *)
(* server_src/server.cpp).                                                 *)
(*                                                                         *)
(* UDP loses, repeats and reorders.  The tick is modelled as written,      *)
(* although nothing calls launch_tick or sets m_game_state yet (StartGame  *)
(* is external) and nothing uses what it selects: it may happen, and no    *)
(* fairness makes it happen.  A packet stands for the input it carries;    *)
(* all inputs reach the tick as those of player 0.                         *)
(***************************************************************************)
EXTENDS Naturals, FiniteSets, SequencesExt

CONSTANTS
    Clients,       \* client processes
    Workers,       \* server threads that run UDP handlers
    WireMax,       \* largest sequence number that can be written (2^16 - 1)
    CounterMod,    \* the client's counter wraps there (2^32)
    FirstNumbers,  \* bound: values the uninitialized counter may start with
    MaxInputs,     \* bound: inputs sent per client
    MaxReceived,   \* bound: messages received between two ticks
    None           \* no packet

ASSUME NumbersAssumption ==
    /\ WireMax \in Nat /\ CounterMod \in Nat /\ WireMax + 1 < CounterMod
    /\ FirstNumbers \subseteq 0 .. CounterMod - 1

VARIABLES
    m_sequence_number,  \* per client: the atomic counter
    posted,     \* per client: messages posted to the UDP strand
    sent,       \* per client: sequence numbers that went out
    login,      \* per client: its TCP handshake is under way
    run,        \* per client: io_service.run is "running", "returned" or, by an
                \* exception that ends the process, "terminated"
    network,    \* packets under way
    connected,  \* the clients whose address leads to a living connection
    receiving,  \* the server's chain of receives: "posted" or "armed"
    worker,     \* per worker: its packet, and how far its handler is: it has
                \* "received" the packet, "found" the sender connected, or
                \* "caught" an exception
    m_udp_received,  \* flush_queue of received messages
    m_game_state,  \* whether the server has a game
    batch,      \* what the last tick flushed
    most_recent \* what the last tick selected

clientVars == <<m_sequence_number, posted, sent, login, run>>
serverVars == <<connected, receiving, worker, m_udp_received>>
tickVars == <<m_game_state, batch, most_recent>>
vars == <<clientVars, network, serverVars, tickVars>>

Packets == [client : Clients, number : 0 .. WireMax]

ASSUME NoneAssumption == None \notin Packets

Idle == [at |-> "idle", packet |-> None]

\* m_udp_received and what was flushed from it.  That a flush may be taken as
\* one step is what FlushQueue shows.
Buffer ==
    INSTANCE MessageBuffer WITH
        buffer <- m_udp_received, taken <- batch, Messages <- Packets

TypeOK ==
    /\ m_sequence_number \in [Clients -> 0 .. CounterMod - 1]
    /\ posted \in [Clients -> Seq(0 .. CounterMod - 1)]
    /\ sent \in [Clients -> Seq(0 .. WireMax)]
    /\ login \in [Clients -> BOOLEAN]
    /\ run \in [Clients -> {"running", "returned", "terminated"}]
    /\ network \in SUBSET Packets
    /\ connected \in SUBSET Clients
    /\ receiving \in {"posted", "armed"}
    /\ worker \in [Workers -> {Idle} \cup [at : {"received", "found", "caught"},
                                          packet : Packets]]
    /\ m_udp_received \in Seq(Packets)
    /\ m_game_state \in BOOLEAN
    /\ batch \in Seq(Packets)
    /\ most_recent \in Packets \cup {None}

Init ==
    /\ m_sequence_number \in [Clients -> FirstNumbers]
    /\ posted = [c \in Clients |-> <<>>]
    /\ sent = [c \in Clients |-> <<>>]
    /\ login = [c \in Clients |-> TRUE]
    /\ run = [c \in Clients |-> "running"]
    /\ network = {}
    /\ connected = {}
    /\ receiving = "posted"
    /\ worker = [w \in Workers |-> Idle]
    /\ m_udp_received = <<>>
    /\ m_game_state = FALSE
    /\ batch = <<>>
    /\ most_recent = None

-----------------------------------------------------------------------------
(* Clients.                                                                *)

\* The main thread numbers a message and posts it, whether or not the network
\* thread still runs.
send_input(c) ==
    /\ run[c] # "terminated"
    /\ Len(posted[c]) + Len(sent[c]) < MaxInputs
    /\ posted' = [posted EXCEPT ![c] = Append(@, m_sequence_number[c])]
    /\ m_sequence_number' = [m_sequence_number EXCEPT ![c] = (@ + 1) % CounterMod]
    /\ UNCHANGED <<sent, login, run, network, serverVars, tickVars>>

\* Faulty variant: a number too large for the wire is cut off.
UdpSendTruncates(c) ==
    /\ run[c] = "running"
    /\ posted[c] # <<>>
    /\ LET number == Head(posted[c]) % (WireMax + 1)
       IN  /\ network' = network \cup {[client |-> c, number |-> number]}
           /\ sent' = [sent EXCEPT ![c] = Append(@, number)]
    /\ posted' = [posted EXCEPT ![c] = Tail(@)]
    /\ UNCHANGED <<m_sequence_number, login, run, serverVars, tickVars>>

\* Faulty variant: the number is written in the width of the counter.
UdpSendWide(c) ==
    /\ run[c] = "running"
    /\ posted[c] # <<>>
    /\ network' = network \cup {[client |-> c, number |-> Head(posted[c])]}
    /\ sent' = [sent EXCEPT ![c] = Append(@, Head(posted[c]))]
    /\ posted' = [posted EXCEPT ![c] = Tail(@)]
    /\ UNCHANGED <<m_sequence_number, login, run, serverVars, tickVars>>

\* The network thread serializes and sends it.
udp_send_message(c) ==
    /\ run[c] = "running"
    /\ posted[c] # <<>>
    /\ Head(posted[c]) <= WireMax
    /\ network' = network \cup {[client |-> c, number |-> Head(posted[c])]}
    /\ sent' = [sent EXCEPT ![c] = Append(@, Head(posted[c]))]
    /\ posted' = [posted EXCEPT ![c] = Tail(@)]
    /\ UNCHANGED <<m_sequence_number, login, run, serverVars, tickVars>>

\* A number that does not fit throws while the message is written; errors of
\* the sockets throw in their handlers.  The thread's function has no handler.
NetworkThreadThrows(c) ==
    /\ run[c] = "running"
    /\ login[c] \/ posted[c] # <<>>
    /\ run' = [run EXCEPT ![c] = "terminated"]
    /\ UNCHANGED <<m_sequence_number, posted, sent, login, network, serverVars,
                   tickVars>>

LoginEnds(c) ==
    /\ run[c] = "running"
    /\ login[c]
    /\ login' = [login EXCEPT ![c] = FALSE]
    /\ UNCHANGED <<m_sequence_number, posted, sent, run, network, serverVars,
                   tickVars>>

\* run returns when there is nothing to do.
RunReturns(c) ==
    /\ run[c] = "running"
    /\ ~login[c]
    /\ posted[c] = <<>>
    /\ run' = [run EXCEPT ![c] = "returned"]
    /\ UNCHANGED <<m_sequence_number, posted, sent, login, network, serverVars,
                   tickVars>>

-----------------------------------------------------------------------------
(* The server.                                                             *)

\* The server accepts a client in the course of its login; the connection
\* ends at any time.
Register(c) ==
    /\ login[c]
    /\ c \notin connected
    /\ connected' = connected \cup {c}
    /\ UNCHANGED <<clientVars, network, receiving, worker, m_udp_received, tickVars>>

Unregister(c) ==
    /\ c \in connected
    /\ connected' = connected \ {c}
    /\ UNCHANGED <<clientVars, network, receiving, worker, m_udp_received, tickVars>>

Lose(p) ==
    /\ network' = network \ {p}
    /\ UNCHANGED <<clientVars, serverVars, tickVars>>

\* udp_receive, on the strand.
udp_receive ==
    /\ receiving = "posted"
    /\ receiving' = "armed"
    /\ UNCHANGED <<clientVars, network, connected, worker, m_udp_received, tickVars>>

Busy == {w \in Workers : worker[w] # Idle}

\* A worker runs the handler of a receive that completed with p, and first
\* posts the next receive.  p may arrive once more.
Received(w, p) ==
    /\ receiving = "armed"
    /\ worker[w] = Idle
    /\ Len(m_udp_received) + Cardinality(Busy) < MaxReceived
    /\ worker' = [worker EXCEPT ![w] = [at |-> "received", packet |-> p]]
    /\ network' \in {network, network \ {p}}
    /\ receiving' = "posted"
    /\ UNCHANGED <<clientVars, connected, m_udp_received, tickVars>>

\* The receive completed with an error; only the next one is posted.
ReceiveFails ==
    /\ receiving = "armed"
    /\ receiving' = "posted"
    /\ UNCHANGED <<clientVars, network, connected, worker, m_udp_received, tickVars>>

\* get_connection; packets from elsewhere are discarded.
LookUp(w) ==
    /\ worker[w].at = "received"
    /\ worker' = [worker EXCEPT ![w] =
                     IF @.packet.client \in connected THEN [@ EXCEPT !.at = "found"]
                                                      ELSE Idle]
    /\ UNCHANGED <<clientVars, network, connected, receiving, m_udp_received, tickVars>>

\* Faulty variant: only the latest message is kept for the tick.
HandleKeepsLatest(w) ==
    /\ worker[w].at = "found"
    /\ m_udp_received' = <<worker[w].packet>>
    /\ worker' = [worker EXCEPT ![w] = Idle]
    /\ UNCHANGED <<clientVars, network, connected, receiving, tickVars>>

\* The message is queued, even if newer ones were: the test for that is
\* commented out.
handle_udp_receive(w) ==
    /\ worker[w].at = "found"
    /\ Buffer!Put(worker[w].packet)
    /\ worker' = [worker EXCEPT ![w] = Idle]
    /\ UNCHANGED <<clientVars, network, connected, receiving, m_game_state, most_recent>>

\* Reading or queueing the message throws: it is not queued.
HandleThrows(w) ==
    /\ worker[w].at = "found"
    /\ worker' = [worker EXCEPT ![w].at = "caught"]
    /\ UNCHANGED <<clientVars, network, connected, receiving, m_udp_received, tickVars>>

\* The exception goes no further than the handler, which only prints it.
HandleCaught(w) ==
    /\ worker[w].at = "caught"
    /\ worker' = [worker EXCEPT ![w] = Idle]
    /\ UNCHANGED <<clientVars, network, connected, receiving, m_udp_received, tickVars>>

-----------------------------------------------------------------------------
(* The tick.                                                               *)

\* Faulty variant: the last message wins.
LatestOf(recent, p) == IF p.number > 0 THEN p ELSE recent

\* One round of the loop of handle_tick.  Without an input, the number to be
\* exceeded is 0.
NewestOf(recent, p) ==
    IF (IF recent = None THEN 0 ELSE recent.number) < p.number THEN p ELSE recent

\* The loop over the flushed messages of a player.
Select(received) ==
    LET recent[n \in 0 .. Len(received)] ==
            IF n = 0 THEN None ELSE NewestOf(recent[n - 1], received[n])
    IN  recent[Len(received)]

\* The code does not do this yet.
StartGame ==
    /\ ~m_game_state
    /\ m_game_state' = TRUE
    /\ UNCHANGED <<clientVars, network, serverVars, batch, most_recent>>

\* Without a game it returns at once, and the messages stay in the queue.
handle_tick ==
    /\ m_game_state
    /\ Buffer!TakeAll
    /\ most_recent' = Select(batch')
    /\ UNCHANGED <<clientVars, network, connected, receiving, worker, m_game_state>>

-----------------------------------------------------------------------------
Handle(w) ==
    LookUp(w) \/ handle_udp_receive(w) \/ HandleThrows(w) \/ HandleCaught(w)

Next ==
    \/ \E c \in Clients :
          \/ send_input(c)
          \/ udp_send_message(c)
          \/ NetworkThreadThrows(c)
          \/ LoginEnds(c)
          \/ RunReturns(c)
          \/ Register(c)
          \/ Unregister(c)
    \/ \E p \in network : Lose(p) \/ \E w \in Workers : Received(w, p)
    \/ udp_receive
    \/ ReceiveFails
    \/ \E w \in Workers : Handle(w)
    \/ StartGame
    \/ handle_tick

Spec == Init /\ [][Next]_vars

\* A worker's handler goes on to its end.  Nothing is assumed of the tick.
LiveSpec == Spec /\ \A w \in Workers : WF_vars(Handle(w))

-----------------------------------------------------------------------------
(* Properties.                                                             *)

\* The numbers a client sends only ever increase, wherever its counter began:
\* the network thread throws before a number would repeat.  So the newest of
\* a client's messages is the one with the largest number.
NumbersIncrease ==
    \A c \in Clients :
        \A i, j \in DOMAIN sent[c] : i < j => sent[c][i] < sent[c][j]

\* A tick selects none older than another message of the tick, in whatever
\* order they came in; and what it selects was received since the last tick.
NewestIsSelected ==
    /\ most_recent # None => most_recent \in ToSet(batch)
    /\ \A i \in DOMAIN batch :
          batch[i].number > 0 => /\ most_recent # None
                                 /\ batch[i].number <= most_recent.number

\* If the queue is emptied again and again, by ticks of a server with a game,
\* then a message whose sender was found connected is seen by a tick, though
\* the sender may be gone by then and other workers queue theirs, unless the
\* handler caught an exception.
HandledReachesTick ==
    []<>(m_udp_received = <<>>) =>
        \A w \in Workers, p \in Packets :
            worker[w] = [at |-> "found", packet |-> p]
                ~> (p \in ToSet(batch) \/ worker[w] = [at |-> "caught", packet |-> p])
=============================================================================
