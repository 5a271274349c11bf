-------------------------- MODULE GameReplication --------------------------
(***************************************************************************)
(* A server's game and a client's copy of it (common_src/game.cpp,         *)
(* client_src/client_game.hpp).  A client starts from the serialized game; *)
(* from then on it receives the differences between the server's game and  *)
(* the copy the server kept of the game it last reported.  On the client,  *)
(* the network thread appends updates to m_update_queue under a mutex, and *)
(* the main thread swaps the queue out and applies what it holds one by    *)
(* one, without the mutex.                                                 *)
(*                                                                         *)
(* The code has no caller of these functions yet that fixes the order of   *)
(* calls, so any order is allowed.  With Careful the server keeps to the   *)
(* conditions that the functions need but do not test.                     *)
(***************************************************************************)
EXTENDS GameState

CONSTANTS
    PlayerIds,  \* ids of the players that come and go
    MaxObject,  \* bound: ids id_allocator gives to objects, 1 .. MaxObject
    MaxRow,     \* bound: the rows of objects are -MaxRow .. MaxRow
    MaxQueue,   \* bound: updates the client has not applied yet
    Careful     \* the server tests what the functions of the game do not

ASSUME IdsAssumption ==
    PlayerIds \subseteq Nat /\ MaxObject \in Nat /\ MaxRow \in Nat

Rows == -MaxRow .. MaxRow

VARIABLES
    game,     \* the server's game_state_t
    next_id,  \* of the server's id_allocator<object_id_t>
    base,     \* copy of the game that was reported last
    m_update_queue,  \* client: updates that arrived
    taken,    \* client: the local deque of dequeue_updates
    m_game_state,  \* client: its game
    joined,   \* whether a client has received the serialized game
    fault     \* what ended the program: "none", a null or dangling pointer
              \* used, a grid indexed out of bounds, an exception

clientVars == <<m_update_queue, taken, m_game_state, joined>>
vars == <<game, next_id, base, clientVars, fault>>

TypeOK ==
    /\ \A g \in {game, base, m_game_state} : IsGame(g)
    /\ next_id \in 1 .. MaxObject + 1
    /\ joined \in BOOLEAN
    /\ fault \in {"none", "copy", "pointer", "grid", "throw"}

Init ==
    /\ game = NewGame
    /\ next_id = 1
    /\ base = NewGame
    /\ m_update_queue = <<>>
    /\ taken = <<>>
    /\ m_game_state = NewGame
    /\ joined = FALSE
    /\ fault = "none"

\* The program goes on only while nothing has ended it.
Running == fault = "none"

Fault(kind) == fault' = kind /\ UNCHANGED <<game, next_id, base, clientVars>>

Server(g) == game' = g /\ UNCHANGED <<next_id, base, clientVars, fault>>

-----------------------------------------------------------------------------
(* Calls of the server.                                                    *)

\* Careful: the object that comes with the player has no other.
AddPlayer(p, o) ==
    /\ Running
    /\ ~ThrowsAddPlayer(game, p)
    /\ Careful => o # Dangling
    /\ Careful /\ o # Null => game.objects[o].player = Null
    /\ IF UndefinedAddPlayer(o) THEN Fault("pointer")
       ELSE Server(add_player(game, p, o))

\* Careful: the player gives up its object before it leaves.
RemovePlayer(p) ==
    /\ Running
    /\ ~ThrowsRemovePlayer(game, p)
    /\ Careful => game.players[p] = Null
    /\ Server(remove_player(game, p))

AddObject(row) ==
    /\ Running
    /\ next_id \in 1 .. MaxObject
    /\ Careful => in_bounds(row)
    /\ ~ThrowsAddObject(game, next_id)
    /\ IF UndefinedAddObject(game, row) THEN Fault("grid")
       ELSE /\ game' = add_object(game, next_id, row)
            /\ next_id' = next_id + 1
            /\ UNCHANGED <<base, clientVars, fault>>

RemoveObject(id) ==
    /\ Running
    /\ ~ThrowsRemoveObject(game, id)
    /\ IF UndefinedRemoveObject(game, id)
       THEN Fault(IF in_bounds(game.objects[id].position) THEN "pointer"
                                                         ELSE "grid")
       ELSE Server(remove_object(game, id))

\* Careful: objects stay inside the grid.
MoveObject(id, row) ==
    /\ Running
    /\ id \in DOMAIN game.objects
    /\ Careful => in_bounds(row)
    /\ Server(move_object(game, id, row))

\* Careful: the object has no other player.
SetPlayerObject(p, o) ==
    /\ Running
    /\ p \in DOMAIN game.players
    /\ o \in DOMAIN game.objects \cup {Null}
    /\ Careful /\ o # Null => game.objects[o].player \in {Null, p}
    /\ IF UndefinedSetPlayerObject(game, p) THEN Fault("pointer")
       ELSE Server(set_player_object(game, p, o))

\* Careful: the player has an object, not on the topmost row.
DoActionMoveUp(p) ==
    /\ Running
    /\ p \in DOMAIN game.players
    /\ Careful => /\ game.players[p] # Null
                  /\ game.objects[game.players[p]].position # 0
    /\ IF UndefinedMoveUp(game, p) THEN Fault("pointer")
       ELSE /\ game.objects[game.players[p]].position > -MaxRow
            /\ Server(do_move_up(game, p))

\* A client joins: it builds its game from the serialized one.
\* Careful: every player has an object when the game is copied.
Join ==
    /\ Running
    /\ ~joined
    /\ Careful => ~UndefinedCopy(game)
    /\ IF UndefinedRebuilt(game)
       THEN Fault(IF \E p \in DOMAIN game.players : game.players[p] = Dangling
                  THEN "pointer" ELSE "grid")
       ELSE IF UndefinedCopy(game) THEN Fault("copy")
       ELSE /\ base' = copy(game)
            /\ m_game_state' = rebuilt(game)
            /\ joined' = TRUE
            /\ UNCHANGED <<game, next_id, m_update_queue, taken, fault>>

\* Code under the mutex, so one step.
enqueue_updates(updates) == m_update_queue' = m_update_queue \o updates

\* The caller of diff and enqueue_updates, which the code does not have yet:
\* the difference to the game reported last goes to the client, whose network
\* thread enqueues it.
Report ==
    /\ Running
    /\ joined
    /\ Careful => ~UndefinedCopy(game)
    /\ LET updates == diff(game, base)
       IN  /\ Len(m_update_queue) + Len(updates) <= MaxQueue
           /\ IF UndefinedCopy(game) THEN Fault("copy")
              ELSE /\ enqueue_updates(updates)
                   /\ base' = copy(game)
                   /\ UNCHANGED <<game, next_id, taken, m_game_state, joined,
                                  fault>>

-----------------------------------------------------------------------------
(* dequeue_updates on the client's main thread.                            *)

\* Faulty variant: the updates are copied out of the queue, not swapped.
DequeueCopies ==
    /\ Running
    /\ taken = <<>>
    /\ m_update_queue # <<>>
    /\ taken' = m_update_queue
    /\ UNCHANGED <<game, next_id, base, m_update_queue, m_game_state, joined,
                   fault>>

Dequeue ==
    /\ Running
    /\ taken = <<>>
    /\ m_update_queue # <<>>
    /\ taken' = m_update_queue
    /\ m_update_queue' = <<>>
    /\ UNCHANGED <<game, next_id, base, m_game_state, joined, fault>>

\* One round of the loop over the local deque.
ApplyUpdate ==
    /\ Running
    /\ taken # <<>>
    /\ LET update == Head(taken)
       IN  CASE ThrowsUpdate(m_game_state, update) -> Fault("throw")
             [] ~ThrowsUpdate(m_game_state, update)
                    /\ UndefinedUpdate(m_game_state, update) -> Fault("grid")
             [] OTHER ->
                    /\ m_game_state' = apply_update(m_game_state, update)
                    /\ taken' = Tail(taken)
                    /\ UNCHANGED <<game, next_id, base, m_update_queue, joined,
                                   fault>>

Next ==
    \/ \E p \in PlayerIds :
          \/ \E o \in DOMAIN game.objects \cup {Null, Dangling} : AddPlayer(p, o)
          \/ RemovePlayer(p)
          \/ DoActionMoveUp(p)
          \/ \E o \in DOMAIN game.objects \cup {Null} : SetPlayerObject(p, o)
    \/ \E row \in Rows :
          \/ AddObject(row)
          \/ \E id \in DOMAIN game.objects : MoveObject(id, row)
    \/ \E id \in DOMAIN game.objects : RemoveObject(id)
    \/ Join
    \/ Report
    \/ Dequeue
    \/ ApplyUpdate

Spec == Init /\ [][Next]_vars

\* A thread inside dequeue_updates does not stop in the middle of it.  Nothing
\* makes one call it.
LiveSpec == Spec /\ WF_vars(ApplyUpdate)

-----------------------------------------------------------------------------
(* Properties.                                                             *)

\* Objects can be looked up where they are, on both sides, whatever was
\* called.  The client applies its updates one at a time in between.
GridsFindObjects ==
    \A g \in {game, base, m_game_state} : GridFindsObjects(g)

\* The game g after the updates, one by one.
Replayed(g, updates) ==
    LET after[n \in 0 .. Len(updates)] ==
            IF n = 0 THEN g ELSE apply_update(after[n - 1], updates[n])
    IN  after[Len(updates)]

\* What the client has plus what it is still to apply is what the server
\* reported last, object by object.
ClientFollows ==
    joined /\ fault = "none" =>
        Positions(Replayed(m_game_state, taken \o m_update_queue)) = Positions(base)

\* No update finds its object missing, or already there: apply_update, which
\* would leave the rest of the taken updates unapplied, never throws.
UpdatesNeverThrow == fault # "throw"

\* A server that tests what the functions do not never runs into a bad
\* pointer or out of the grid; nor does its client.
CarefulIsSafe == Careful => fault = "none"

\* With such a server, players and objects point at each other on the server,
\* in its copies and, as far as the players known there go, on the client.
LinksStayMutual ==
    Careful => \A g \in {game, base, m_game_state} : LinksAgree(g)

\* A client that takes its updates again and again is shown every object that
\* was reported and loses every object reported gone, however many reports
\* follow in the meantime.  Of one that stops taking them nothing is said.
ReportsArrive ==
    []<>(m_update_queue = <<>>) =>
        \A id \in 1 .. MaxObject :
            /\ (id \in DOMAIN base.objects)
                  ~> (id \in DOMAIN m_game_state.objects \/ fault # "none")
            /\ (joined /\ id \in 1 .. next_id - 1 /\ id \notin DOMAIN base.objects)
                  ~> (id \notin DOMAIN m_game_state.objects \/ fault # "none")

\* "Fix-up pointers": a copied game's players point to the copied objects.
\* The loop that does it must be able to run for every game.
CopyIsDefined == fault # "copy"
=============================================================================
