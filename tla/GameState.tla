----------------------------- MODULE GameState -----------------------------
(***************************************************************************)
(* game_state_t of common_src/game.hpp and game.cpp: players, objects and  *)
(* the grid that finds the objects at a coordinate.  A player and the      *)
(* object it controls point at each other.                                 *)
(*                                                                         *)
(* A game is a record; every member function is an operator from games to  *)
(* games.  Where the code throws or its behaviour is undefined for some    *)
(* games, an operator Throws... or Undefined... says so, and the function  *)
(* is applied only outside of these.  A coordinate is one row number: its  *)
(* column would never change.                                              *)
(***************************************************************************)
EXTENDS Integers, SequencesExt

CONSTANTS
    Height,   \* rows of the grid
    Null,     \* nullptr
    Dangling  \* a pointer to a player or an object that is gone

ASSUME HeightAssumption == Height \in Nat
ASSUME PointerAssumption ==
    Null \notin Int /\ Dangling \notin Int /\ Null # Dangling

Cells == 0 .. Height - 1

\* in_bounds of int2d, the library of the grid.
in_bounds(row) == row \in Cells

NewGame ==
    [players |-> [p \in {} |-> Null],
     objects |-> [i \in {} |-> Null],
     grid    |-> [c \in Cells |-> {}]]

\* f without x, and f with x mapped to y.
Without(f, x) == [z \in DOMAIN f \ {x} |-> f[z]]
With(f, x, y) == [z \in DOMAIN f \cup {x} |-> IF z = x THEN y ELSE f[z]]

-----------------------------------------------------------------------------
(* Players.                                                                *)

ThrowsAddPlayer(g, p) == p \in DOMAIN g.players

\* The pointer of the added player is written through.
UndefinedAddPlayer(o) == o = Dangling

\* o is what the added player_t points to: Null, or an object if the player_t
\* is a copy of one that was in the game.  Another player of o is not told.
add_player(g, p, o) ==
    [players |-> With(g.players, p, o),
     objects |-> [i \in DOMAIN g.objects |->
                     IF i = o THEN [g.objects[i] EXCEPT !.player = p]
                              ELSE g.objects[i]],
     grid    |-> g.grid]

ThrowsRemovePlayer(g, p) == p \notin DOMAIN g.players

\* The object of the player keeps its pointer to it.
remove_player(g, p) ==
    LET left(object) == IF object.player = p THEN [object EXCEPT !.player = Dangling]
                                             ELSE object
    IN  [players |-> Without(g.players, p),
         objects |-> [i \in DOMAIN g.objects |-> left(g.objects[i])],
         grid    |-> g.grid]

-----------------------------------------------------------------------------
(* Objects.                                                                *)

ThrowsAddObject(g, id) == id \in DOMAIN g.objects
UndefinedAddObject(g, row) == ~in_bounds(row)

add_object(g, id, row) ==
    [players |-> g.players,
     objects |-> With(g.objects, id, [position |-> row, player |-> Null]),
     grid    |-> [g.grid EXCEPT ![row] = @ \cup {id}]]

ThrowsRemoveObject(g, id) == id \notin DOMAIN g.objects

\* The grid is indexed without a test, and the player written through.
UndefinedRemoveObject(g, id) ==
    \/ ~in_bounds(g.objects[id].position)
    \/ g.objects[id].player = Dangling

\* Faulty variant: the player of the object is not told.
RemoveObjectSilently(g, id) ==
    [g EXCEPT !.objects = Without(@, id),
              !.grid[g.objects[id].position] = @ \ {id}]

\* A player that points to the object without being its m_player is left
\* with a pointer to nothing.
remove_object(g, id) ==
    [players |-> [p \in DOMAIN g.players |->
                     CASE p = g.objects[id].player -> Null
                       [] p # g.objects[id].player /\ g.players[p] = id -> Dangling
                       [] OTHER -> g.players[p]],
     objects |-> Without(g.objects, id),
     grid    |-> [g.grid EXCEPT ![g.objects[id].position] = @ \ {id}]]

\* Faulty variant: the object stays in the cell it leaves.
MoveObjectLeavesTrace(g, id, row) ==
    [g EXCEPT !.grid = [c \in Cells |->
                            IF c = row THEN @[c] \cup {id} ELSE @[c]],
              !.objects[id].position = row]

\* Outside the grid an object is in no cell.
move_object(g, id, row) ==
    LET old == g.objects[id].position
    IN  IF row = old THEN g
        ELSE [players |-> g.players,
              objects |-> [g.objects EXCEPT ![id].position = row],
              grid    |-> [c \in Cells |->
                              CASE c = row -> g.grid[c] \cup {id}
                                [] c = old -> g.grid[c] \ {id}
                                [] OTHER -> g.grid[c]]]

UndefinedSetPlayerObject(g, p) == g.players[p] = Dangling

\* Faulty variant: the object given up still points to the player.
SetPlayerObjectKeepsOld(g, p, o) ==
    [g EXCEPT !.players[p] = o,
              !.objects = [i \in DOMAIN @ |->
                  IF i = o THEN [@[i] EXCEPT !.player = p] ELSE @[i]]]

\* o is an object or Null.  Another player that points to o is not told.
set_player_object(g, p, o) ==
    LET linked(i) == CASE i = o -> p
                       [] i # o /\ i = g.players[p] -> Null
                       [] OTHER -> g.objects[i].player
    IN  [players |-> [g.players EXCEPT ![p] = o],
         objects |-> [i \in DOMAIN g.objects |->
                         [position |-> g.objects[i].position, player |-> linked(i)]],
         grid    |-> g.grid]

UndefinedMoveUp(g, p) == g.players[p] \notin DOMAIN g.objects

\* do_action for action_move_up_t.
do_move_up(g, p) ==
    move_object(g, g.players[p], g.objects[g.players[p]].position - 1)

-----------------------------------------------------------------------------
(* Copies: the copy constructor, and construction from serialized().       *)

\* Objects after set_player_object or the fix-up loop went over the players
\* in id order: the last player that points to an object is its player.  An
\* object no player points to has the pointer otherwise.
Linked(g, otherwise) ==
    [i \in DOMAIN g.objects |->
        [position |-> g.objects[i].position,
         player |->
            LET mine == {p \in DOMAIN g.players : g.players[p] = i}
            IN  IF mine = {} THEN otherwise[i]
                ELSE CHOOSE p \in mine : \A q \in mine : q <= p]]

\* The loop takes the id of every player's object.
UndefinedCopy(g) ==
    \E p \in DOMAIN g.players : g.players[p] \notin DOMAIN g.objects

\* A pointer the loop does not reach still leads into the game copied from.
copy(g) ==
    [g EXCEPT !.objects =
        Linked(g, [i \in DOMAIN g.objects |->
                      IF g.objects[i].player = Null THEN Null ELSE Dangling])]

\* Serializing asks every object pointer for an id, rebuilding puts every
\* object into the grid.
UndefinedRebuilt(g) ==
    \/ \E p \in DOMAIN g.players : g.players[p] = Dangling
    \/ \E i \in DOMAIN g.objects : ~in_bounds(g.objects[i].position)

\* game_state_t(g.serialized()).
rebuilt(g) ==
    [players |-> g.players,
     objects |-> Linked(g, [i \in DOMAIN g.objects |-> Null]),
     grid    |-> [c \in Cells |->
                     {i \in DOMAIN g.objects : g.objects[i].position = c}]]

-----------------------------------------------------------------------------
(* Updates.                                                                *)

Create(id, row) == [kind |-> "create", id |-> id, position |-> row]
Move(id, row) == [kind |-> "position", id |-> id, position |-> row]
Destroy(id) == [kind |-> "destroy", id |-> id]

\* The maps are sorted by id.
InOrder(ids) ==
    [n \in 1 .. Cardinality(ids) |->
        CHOOSE i \in ids : Cardinality({j \in ids : j < i}) = n - 1]
Mapped(ids, update(_)) == [n \in DOMAIN ids |-> update(ids[n])]

\* Faulty variant: objects that are gone are left out.
DiffWithoutDestroyed(g, prev) ==
    Mapped(InOrder({i \in DOMAIN g.objects :
                       \/ i \notin DOMAIN prev.objects
                       \/ prev.objects[i].position # g.objects[i].position}),
           LAMBDA i : IF i \in DOMAIN prev.objects
                      THEN Move(i, g.objects[i].position)
                      ELSE Create(i, g.objects[i].position))

\* Faulty variant: objects that moved are left out.
DiffIgnoresMoves(g, prev) ==
    Mapped(InOrder(DOMAIN g.objects \ DOMAIN prev.objects),
           LAMBDA i : Create(i, g.objects[i].position))
    \o Mapped(InOrder(DOMAIN prev.objects \ DOMAIN g.objects), Destroy)

\* Faulty variant: an object that moved is reported as a new one.
DiffCreatesMoved(g, prev) ==
    Mapped(InOrder({i \in DOMAIN g.objects :
                       \/ i \notin DOMAIN prev.objects
                       \/ prev.objects[i].position # g.objects[i].position}),
           LAMBDA i : Create(i, g.objects[i].position))
    \o Mapped(InOrder(DOMAIN prev.objects \ DOMAIN g.objects), Destroy)

\* The updates that lead from prev's objects to g's, in two passes over the
\* maps: new and moved objects, then those that are gone.  The visited flags
\* of prev, all false again at the end, are the set of ids found in both.
diff(g, prev) ==
    Mapped(InOrder({i \in DOMAIN g.objects :
                       \/ i \notin DOMAIN prev.objects
                       \/ prev.objects[i].position # g.objects[i].position}),
           LAMBDA i : IF i \in DOMAIN prev.objects
                      THEN Move(i, g.objects[i].position)
                      ELSE Create(i, g.objects[i].position))
    \o Mapped(InOrder(DOMAIN prev.objects \ DOMAIN g.objects), Destroy)

ThrowsUpdate(g, u) ==
    IF u.kind = "create" THEN ThrowsAddObject(g, u.id)
                         ELSE u.id \notin DOMAIN g.objects

UndefinedUpdate(g, u) ==
    \/ u.kind = "create" /\ UndefinedAddObject(g, u.position)
    \/ u.kind = "destroy" /\ UndefinedRemoveObject(g, u.id)

apply_update(g, u) ==
    CASE u.kind = "create" -> add_object(g, u.id, u.position)
      [] u.kind = "position" -> move_object(g, u.id, u.position)
      [] u.kind = "destroy" -> remove_object(g, u.id)

-----------------------------------------------------------------------------
(* What a game should satisfy.                                             *)

IsGame(g) ==
    /\ \A p \in DOMAIN g.players :
          g.players[p] \in DOMAIN g.objects \cup {Null, Dangling}
    /\ \A i \in DOMAIN g.objects :
          /\ g.objects[i].position \in Int
          /\ g.objects[i].player \in DOMAIN g.players \cup {Null, Dangling}
    /\ DOMAIN g.grid = Cells

\* The grid finds at every coordinate the objects whose position it is.
GridFindsObjects(g) ==
    \A c \in Cells :
        g.grid[c] = {i \in DOMAIN g.objects : g.objects[i].position = c}

\* A player and the object it controls point at each other, and at nothing
\* that is gone.
LinksAgree(g) ==
    /\ \A p \in DOMAIN g.players :
          \/ g.players[p] = Null
          \/ /\ g.players[p] \in DOMAIN g.objects
             /\ g.objects[g.players[p]].player = p
    /\ \A i \in DOMAIN g.objects :
          \/ g.objects[i].player = Null
          \/ /\ g.objects[i].player \in DOMAIN g.players
             /\ g.players[g.objects[i].player] = i

Positions(g) == [i \in DOMAIN g.objects |-> g.objects[i].position]
=============================================================================
