----------------------- MODULE GameReplicationProofs -----------------------
(* Theorems about GameReplication for any grid, any players, any number of *)
(* objects and rows, and any number of updates under way.                  *)
EXTENDS GameReplication, FiniteSetTheorems, WellFoundedInduction, TLAPS

-----------------------------------------------------------------------------
(* Numbers and ids in order.                                               *)

Below(S, i) == {j \in S : j < i}

\* A number has fewer smaller ones in a set than the set has numbers.
LEMMA BelowCounts ==
    ASSUME NEW S \in SUBSET Nat, IsFiniteSet(S), NEW i \in S
    PROVE  /\ IsFiniteSet(Below(S, i))
           /\ Cardinality(Below(S, i)) \in 0 .. Cardinality(S) - 1
<1>1. Cardinality(S) \in Nat
  BY FS_CardinalityType
<1>2. IsFiniteSet(S \ {i}) /\ Cardinality(S \ {i}) = Cardinality(S) - 1
  BY FS_RemoveElement
<1>3. Below(S, i) \in SUBSET (S \ {i})
  BY DEF Below
<1>4. IsFiniteSet(Below(S, i)) /\ Cardinality(Below(S, i)) <= Cardinality(S) - 1
  BY <1>2, <1>3, FS_Subset
<1>5. Cardinality(Below(S, i)) \in Nat
  BY <1>4, FS_CardinalityType
<1> QED BY <1>1, <1>4, <1>5

\* A larger number has more of them.
LEMMA BelowIncreases ==
    ASSUME NEW S \in SUBSET Nat, IsFiniteSet(S), NEW i \in S, NEW k \in S, i < k
    PROVE  Cardinality(Below(S, i)) < Cardinality(Below(S, k))
<1>1. \A j \in S : j < i => j < k /\ j # i
  <2>1. i \in Nat /\ k \in Nat /\ \A j \in S : j \in Nat
    OBVIOUS
  <2> QED BY <2>1
<1>2. Below(S, k) \in SUBSET Nat /\ IsFiniteSet(Below(S, k)) /\ i \in Below(S, k)
  BY BelowCounts DEF Below
<1>3. Below(S, i) = Below(Below(S, k), i)
  BY <1>1 DEF Below
<1>4. Cardinality(Below(S, i)) \in 0 .. Cardinality(Below(S, k)) - 1
  BY <1>2, <1>3, BelowCounts
<1>5. Cardinality(Below(S, k)) \in Nat
  BY <1>2, FS_CardinalityType
<1> QED BY <1>4, <1>5

\* In a set of n numbers there is one with n' smaller ones for every n' < n:
\* counting the smaller ones is an injection, and so a surjection.
LEMMA EachRank ==
    ASSUME NEW S \in SUBSET Nat, IsFiniteSet(S)
    PROVE  /\ Cardinality(S) \in Nat
           /\ \A n \in 0 .. Cardinality(S) - 1 : \E i \in S : Cardinality(Below(S, i)) = n
<1> DEFINE size == Cardinality(S)
           ranks == 0 .. size - 1
           rank == [i \in S |-> Cardinality(Below(S, i))]
<1>1. size \in Nat
  BY FS_CardinalityType
<1>2. ASSUME NEW i \in S
      PROVE  Cardinality(Below(S, i)) \in Nat /\ Cardinality(Below(S, i)) \in ranks
  BY <1>1, BelowCounts
<1>3. ASSUME NEW i \in S, NEW k \in S, i < k
      PROVE  Cardinality(Below(S, i)) < Cardinality(Below(S, k))
  BY <1>3, BelowIncreases
<1>4. rank \in Injection(S, ranks)
  <2>1. rank \in [S -> ranks]
    BY <1>2
  <2>2. ASSUME NEW i \in S, NEW k \in S, rank[i] = rank[k] PROVE i = k
    <3>1. ~(i < k) /\ ~(k < i)
      BY <1>2, <1>3, <2>2
    <3>2. i \in Nat /\ k \in Nat
      OBVIOUS
    <3> QED BY <3>1, <3>2
  <2> QED BY <2>1, <2>2 DEF Injection, IsInjective
<1>5. IsFiniteSet(ranks) /\ Cardinality(ranks) = size
  <2>1. size - 1 \in Int /\ 0 \in Int /\ (0 > size - 1 => size = 0)
    BY <1>1
  <2> HIDE DEF size
  <2>2. IsFiniteSet(0 .. size - 1)
        /\ Cardinality(0 .. size - 1) = IF 0 > size - 1 THEN 0 ELSE (size - 1) - 0 + 1
    BY <2>1, FS_Interval
  <2> QED BY <1>1, <2>1, <2>2
<1> HIDE DEF ranks, rank, size
<1>6. rank \in Surjection(S, ranks)
  BY <1>4, <1>5, FS_Injection DEF size
<1>7. \A n \in ranks : \E i \in S : rank[i] = n
  BY <1>6 DEF Surjection
<1>8. \A i \in S : rank[i] = Cardinality(Below(S, i))
  BY DEF rank
<1>10. ASSUME NEW n \in ranks PROVE \E i \in S : Cardinality(Below(S, i)) = n
  BY <1>7, <1>8
<1> QED BY <1>1, <1>10 DEF ranks, size

\* The ids of an update are those of the objects it is about.
LEMMA InOrderType ==
    ASSUME NEW S \in SUBSET Nat, IsFiniteSet(S)
    PROVE  InOrder(S) \in Seq(S)
<1>1. Cardinality(S) \in Nat
  BY EachRank
<1>2. ASSUME NEW n \in 1 .. Cardinality(S)
      PROVE  (CHOOSE i \in S : Cardinality({j \in S : j < i}) = n - 1) \in S
  <2>1. n - 1 \in 0 .. Cardinality(S) - 1
    BY <1>1
  <2>2. \E i \in S : Cardinality({j \in S : j < i}) = n - 1
    BY <2>1, EachRank DEF Below
  <2> QED BY <2>2
<1> DEFINE size == Cardinality(S)
           nth(n) == CHOOSE i \in S : Cardinality({j \in S : j < i}) = n - 1
<1>3. InOrder(S) = [n \in 1 .. size |-> nth(n)]
  BY DEF InOrder
<1>4. size \in Nat /\ \A n \in 1 .. size : nth(n) \in S
  BY <1>1, <1>2
<1> HIDE DEF size, nth
<1>5. [n \in 1 .. size |-> nth(n)] \in [1 .. size -> S]
  BY <1>4
<1> QED BY <1>3, <1>4, <1>5

\* There is a last player in id order.
LEMMA LargestExists ==
    ASSUME NEW S \in SUBSET Nat, IsFiniteSet(S), S # {}
    PROVE  \E i \in S : \A j \in S : j <= i
<1>1. Cardinality(S) \in Nat /\ Cardinality(S) # 0
  BY FS_CardinalityType, FS_EmptySet
<1>2. Cardinality(S) - 1 \in 0 .. Cardinality(S) - 1
  BY <1>1
<1>3. PICK i \in S : Cardinality(Below(S, i)) = Cardinality(S) - 1
  BY <1>2, EachRank
<1>4. IsFiniteSet(S \ {i}) /\ Cardinality(S \ {i}) = Cardinality(S) - 1
  BY FS_RemoveElement
<1>5. Below(S, i) \in SUBSET (S \ {i})
  BY DEF Below
<1>6. Below(S, i) = S \ {i}
  BY <1>3, <1>4, <1>5, FS_Subset
<1> QED BY <1>6 DEF Below

\* InOrder lists each id once.
LEMMA InOrderOnce ==
    ASSUME NEW S \in SUBSET Nat, IsFiniteSet(S)
    PROVE  /\ Len(InOrder(S)) \in Nat
           /\ DOMAIN InOrder(S) = 1 .. Len(InOrder(S))
           /\ \A n \in 1 .. Len(InOrder(S)) : InOrder(S)[n] \in S
           /\ \A n, k \in 1 .. Len(InOrder(S)) : InOrder(S)[n] = InOrder(S)[k] => n = k
           /\ \A i \in S : \E n \in 1 .. Len(InOrder(S)) : InOrder(S)[n] = i
<1> DEFINE size == Cardinality(S)
           rank(i) == Cardinality(Below(S, i))
           nth(n) == CHOOSE i \in S : Cardinality({j \in S : j < i}) = n - 1
<1>1. size \in Nat /\ \A n \in 0 .. size - 1 : \E i \in S : rank(i) = n
  BY EachRank
<1>2. ASSUME NEW n \in 1 .. size PROVE nth(n) \in S /\ rank(nth(n)) = n - 1
  <2>1. n - 1 \in 0 .. size - 1
    BY <1>1
  <2>2. \E i \in S : Cardinality({j \in S : j < i}) = n - 1
    BY <1>1, <2>1 DEF Below
  <2> QED BY <2>2 DEF Below
<1>3. InOrder(S) = [n \in 1 .. size |-> nth(n)]
  BY DEF InOrder
<1>4. ASSUME NEW i \in S
      PROVE  rank(i) \in 0 .. size - 1 /\ \A k \in S : rank(k) = rank(i) => k = i
  <2>1. \A k \in S : rank(k) \in 0 .. size - 1
    BY BelowCounts
  <2>2. \A j, k \in S : j < k => rank(j) < rank(k)
    BY BelowIncreases
  <2>4. ASSUME NEW k \in S, rank(k) = rank(i) PROVE k = i
    <3>1. k \in Nat /\ i \in Nat
      OBVIOUS
    <3> HIDE DEF rank
    <3>2. ~(k < i) /\ ~(i < k)
      BY <2>1, <2>2, <2>4
    <3> QED BY <3>1, <3>2
  <2> QED BY <2>1, <2>4
<1> HIDE DEF size, nth, rank
<1>5. /\ Len(InOrder(S)) = size /\ DOMAIN InOrder(S) = 1 .. size
      /\ \A n \in 1 .. size : InOrder(S)[n] = nth(n)
  BY <1>1, <1>3
<1>6. ASSUME NEW n \in 1 .. size, NEW k \in 1 .. size, nth(n) = nth(k) PROVE n = k
  <2>1. n - 1 = k - 1 /\ n \in Nat /\ k \in Nat
    BY <1>1, <1>2, <1>6
  <2> QED BY <2>1
<1>7. ASSUME NEW i \in S PROVE \E n \in 1 .. size : nth(n) = i
  <2>1. rank(i) + 1 \in 1 .. size /\ (rank(i) + 1) - 1 = rank(i)
    BY <1>1, <1>4
  <2>2. nth(rank(i) + 1) \in S /\ rank(nth(rank(i) + 1)) = rank(i)
    BY <1>2, <2>1
  <2>3. nth(rank(i) + 1) = i
    BY <1>4, <2>2
  <2> QED BY <2>1, <2>3
<1> QED BY <1>1, <1>2, <1>5, <1>6, <1>7

\* Induction up to m: else there is a least number outside of the set.
LEMMA UpTo ==
    ASSUME NEW m \in Nat, NEW S, 0 \in S, \A n \in 1 .. m : n - 1 \in S => n \in S
    PROVE  m \in S
<1> DEFINE others == {n \in 0 .. m : n \notin S}
<1>1. SUFFICES ASSUME others # {} PROVE FALSE
  OBVIOUS
<1>2. PICK n \in others : \A k \in others : ~(<<k, n>> \in OpToRel(<, Nat))
  <2>1. others \subseteq Nat
    OBVIOUS
  <2> HIDE DEF others
  <2> QED BY <1>1, <2>1, NatLessThanWellFounded, WFMin
<1>3. n \in 1 .. m /\ n - 1 \in 0 .. m /\ n - 1 \in Nat /\ n - 1 < n /\ n \notin S
  OBVIOUS
<1>4. n - 1 \in others
  BY <1>3
<1>5. <<n - 1, n>> \in OpToRel(<, Nat)
  BY <1>3 DEF OpToRel
<1> QED BY <1>2, <1>4, <1>5

-----------------------------------------------------------------------------
(* Games.                                                                  *)

Pointers == {Null, Dangling}

\* What IsGame leaves open: the shape of the records, and that ids are numbers
\* and finitely many.
Shape(g) ==
    /\ IsGame(g)
    /\ g = [players |-> g.players, objects |-> g.objects, grid |-> g.grid]
    /\ g.players = [p \in DOMAIN g.players |-> g.players[p]]
    /\ g.objects = [i \in DOMAIN g.objects |->
                       [position |-> g.objects[i].position, player |-> g.objects[i].player]]
    /\ g.grid = [c \in Cells |-> g.grid[c]]
    /\ DOMAIN g.players \in SUBSET Nat /\ IsFiniteSet(DOMAIN g.players)
    /\ DOMAIN g.objects \in SUBSET Nat /\ IsFiniteSet(DOMAIN g.objects)

Sound(g) == Shape(g) /\ GridFindsObjects(g)

LEMMA PointersAreNoIds == Null \notin Nat /\ Dangling \notin Nat /\ Null # Dangling
BY PointerAssumption

LEMMA NewGameSound == Sound(NewGame) /\ LinksAgree(NewGame)
BY FS_EmptySet DEF NewGame, Sound, Shape, IsGame, GridFindsObjects, LinksAgree

\* A player may bring an object that has no player yet.
LEMMA AddPlayerSound ==
    ASSUME NEW g, Sound(g), NEW p \in Nat, ~ThrowsAddPlayer(g, p),
           NEW o \in DOMAIN g.objects \cup {Null}
    PROVE  /\ Sound(add_player(g, p, o))
           /\ LinksAgree(g) /\ (o # Null => g.objects[o].player = Null)
                 => LinksAgree(add_player(g, p, o))
<1> DEFINE h == add_player(g, p, o)
           owner(i) == IF i = o THEN p ELSE g.objects[i].player
           objects == [i \in DOMAIN g.objects |->
                          IF i = o THEN [g.objects[i] EXCEPT !.player = p] ELSE g.objects[i]]
<1>1. h = [players |-> With(g.players, p, o), objects |-> objects, grid |-> g.grid]
  BY DEF add_player
<1>2. /\ DOMAIN h.players = DOMAIN g.players \cup {p} /\ p \notin DOMAIN g.players
      /\ h.players[p] = o
      /\ \A q \in DOMAIN g.players : h.players[q] = g.players[q]
      /\ h.players = [q \in DOMAIN h.players |-> h.players[q]]
  BY <1>1 DEF With, ThrowsAddPlayer
<1>3. ASSUME NEW i \in DOMAIN g.objects
      PROVE  h.objects[i] = [position |-> g.objects[i].position, player |-> owner(i)]
  BY <1>1 DEF Sound, Shape
<1>4. DOMAIN h.objects = DOMAIN g.objects
      /\ h.objects = [i \in DOMAIN h.objects |->
                         [position |-> h.objects[i].position, player |-> h.objects[i].player]]
  BY <1>1, <1>3
<1>5. \A i \in DOMAIN g.objects :
         h.objects[i].position = g.objects[i].position /\ h.objects[i].player = owner(i)
  <2> HIDE DEF h, owner
  <2> TAKE i \in DOMAIN g.objects
  <2>1. h.objects[i] = [position |-> g.objects[i].position, player |-> owner(i)]
    BY <1>3
  <2> QED BY <2>1
<1>6. IsFiniteSet(DOMAIN h.players)
  BY <1>2, FS_AddElement DEF Sound, Shape
<1>7. h.grid = g.grid
      /\ h = [players |-> h.players, objects |-> h.objects, grid |-> h.grid]
  BY <1>1
<1> HIDE DEF h
<1>8. IsGame(h)
  BY <1>2, <1>4, <1>5, <1>7 DEF Sound, Shape, IsGame
<1>9. Sound(h)
  BY <1>2, <1>4, <1>5, <1>6, <1>7, <1>8 DEF Sound, Shape, GridFindsObjects
<1>10. ASSUME LinksAgree(g), o # Null => g.objects[o].player = Null PROVE LinksAgree(h)
  <2>1. \A q \in DOMAIN g.players : g.players[q] # Null => g.players[q] # o
    BY <1>2, <1>10, PointersAreNoIds DEF LinksAgree, Sound, Shape
  <2>2. \A i \in DOMAIN g.objects : i # Null
    BY PointersAreNoIds DEF Sound, Shape
  <2>3. ASSUME NEW q \in DOMAIN h.players, h.players[q] # Null
        PROVE  h.players[q] \in DOMAIN h.objects /\ h.objects[h.players[q]].player = q
    BY <1>2, <1>4, <1>5, <1>10, <2>1, <2>3 DEF LinksAgree
  <2>4. ASSUME NEW i \in DOMAIN h.objects, h.objects[i].player # Null
        PROVE  /\ h.objects[i].player \in DOMAIN h.players
               /\ h.players[h.objects[i].player] = i
    BY <1>2, <1>4, <1>5, <1>10, <2>4 DEF LinksAgree
  <2> QED BY <2>3, <2>4 DEF LinksAgree
<1> QED BY <1>9, <1>10 DEF h

\* A player that has given up its object leaves no trace.
LEMMA RemovePlayerSound ==
    ASSUME NEW g, Sound(g), NEW p \in DOMAIN g.players
    PROVE  /\ Sound(remove_player(g, p))
           /\ LinksAgree(g) /\ g.players[p] = Null => LinksAgree(remove_player(g, p))
<1> DEFINE h == remove_player(g, p)
           left(i) == IF g.objects[i].player = p THEN Dangling ELSE g.objects[i].player
           objects == [i \in DOMAIN g.objects |->
                          IF g.objects[i].player = p
                          THEN [g.objects[i] EXCEPT !.player = Dangling] ELSE g.objects[i]]
<1>1. h = [players |-> Without(g.players, p), objects |-> objects, grid |-> g.grid]
  BY DEF remove_player
<1>2. /\ DOMAIN h.players = DOMAIN g.players \ {p}
      /\ \A q \in DOMAIN h.players : h.players[q] = g.players[q]
      /\ h.players = [q \in DOMAIN h.players |-> h.players[q]]
  BY <1>1 DEF Without
<1>3. ASSUME NEW i \in DOMAIN g.objects
      PROVE  h.objects[i] = [position |-> g.objects[i].position, player |-> left(i)]
  BY <1>1 DEF Sound, Shape
<1>4. DOMAIN h.objects = DOMAIN g.objects
      /\ h.objects = [i \in DOMAIN h.objects |->
                         [position |-> h.objects[i].position, player |-> h.objects[i].player]]
  BY <1>1, <1>3
<1>5. \A i \in DOMAIN g.objects :
         h.objects[i].position = g.objects[i].position /\ h.objects[i].player = left(i)
  <2> HIDE DEF h, left
  <2> TAKE i \in DOMAIN g.objects
  <2>1. h.objects[i] = [position |-> g.objects[i].position, player |-> left(i)]
    BY <1>3
  <2> QED BY <2>1
<1>6. IsFiniteSet(DOMAIN h.players)
  BY <1>2, FS_RemoveElement DEF Sound, Shape
<1>7. h.grid = g.grid
      /\ h = [players |-> h.players, objects |-> h.objects, grid |-> h.grid]
  BY <1>1
<1> HIDE DEF h
<1>8. IsGame(h)
  BY <1>2, <1>4, <1>5, <1>7 DEF Sound, Shape, IsGame
<1>9. Sound(h)
  BY <1>2, <1>4, <1>5, <1>6, <1>7, <1>8 DEF Sound, Shape, GridFindsObjects
<1>10. ASSUME LinksAgree(g), g.players[p] = Null PROVE LinksAgree(h)
  <2>1. \A i \in DOMAIN g.objects : g.objects[i].player # p
    BY <1>10, PointersAreNoIds DEF LinksAgree, Sound, Shape
  <2> QED BY <1>2, <1>4, <1>5, <1>10, <2>1 DEF LinksAgree
<1> QED BY <1>9, <1>10 DEF h

LEMMA AddObjectSound ==
    ASSUME NEW g, Sound(g), NEW id \in Nat, NEW row \in Int,
           ~ThrowsAddObject(g, id), ~UndefinedAddObject(g, row)
    PROVE  Sound(add_object(g, id, row)) /\ (LinksAgree(g) => LinksAgree(add_object(g, id, row)))
<1> DEFINE h == add_object(g, id, row)
           new == [position |-> row, player |-> Null]
<1>1. h = [players |-> g.players, objects |-> With(g.objects, id, new),
           grid |-> [g.grid EXCEPT ![row] = @ \cup {id}]]
  BY DEF add_object
<1>2. row \in Cells /\ id \notin DOMAIN g.objects
  BY DEF UndefinedAddObject, in_bounds, ThrowsAddObject
<1>3. /\ DOMAIN h.objects = DOMAIN g.objects \cup {id}
      /\ h.objects[id] = new
      /\ \A i \in DOMAIN g.objects : h.objects[i] = g.objects[i]
      /\ h.players = g.players
      /\ h = [players |-> h.players, objects |-> h.objects, grid |-> h.grid]
  BY <1>1, <1>2 DEF With
<1>4. h.objects = [i \in DOMAIN h.objects |->
                     [position |-> h.objects[i].position, player |-> h.objects[i].player]]
  <2>1. h.objects = [i \in DOMAIN h.objects |-> h.objects[i]]
    BY <1>1 DEF With
  <2>2. \A i \in DOMAIN h.objects :
           h.objects[i] = [position |-> h.objects[i].position, player |-> h.objects[i].player]
    BY <1>3 DEF Sound, Shape
  <2> QED BY <2>1, <2>2
<1>5. /\ DOMAIN h.grid = Cells /\ h.grid = [c \in Cells |-> h.grid[c]]
      /\ \A c \in Cells : h.grid[c] = IF c = row THEN g.grid[c] \cup {id} ELSE g.grid[c]
  <2>1. h.grid = [g.grid EXCEPT ![row] = g.grid[row] \cup {id}]
    BY <1>1
  <2>2. g.grid = [c \in Cells |-> g.grid[c]]
    BY DEF Sound, Shape
  <2> HIDE DEF h
  <2> QED BY <1>2, <2>1, <2>2
<1>6. IsFiniteSet(DOMAIN h.objects)
  BY <1>3, FS_AddElement DEF Sound, Shape
<1> HIDE DEF h
<1>7. IsGame(h)
  BY <1>3, <1>5 DEF Sound, Shape, IsGame
<1>8. GridFindsObjects(h)
  <2>1. ASSUME NEW c \in Cells
        PROVE  h.grid[c] = {i \in DOMAIN h.objects : h.objects[i].position = c}
    <3>1. g.grid[c] = {i \in DOMAIN g.objects : g.objects[i].position = c}
      BY DEF Sound, GridFindsObjects
    <3>2. ASSUME NEW i
          PROVE  i \in h.grid[c] <=> i \in DOMAIN h.objects /\ h.objects[i].position = c
      <4>1. CASE i = id
        <5>1. id \notin g.grid[c] /\ h.objects[id].position = row
          BY <1>2, <1>3, <3>1
        <5> QED BY <1>3, <1>5, <4>1, <5>1
      <4>2. CASE i # id
        <5>1. i \in h.grid[c] <=> i \in g.grid[c]
          BY <1>5, <4>2
        <5>2. i \in DOMAIN h.objects <=> i \in DOMAIN g.objects
          BY <1>3, <4>2
        <5>3. i \in DOMAIN g.objects => h.objects[i] = g.objects[i]
          BY <1>3
        <5> QED BY <3>1, <5>1, <5>2, <5>3
      <4> QED BY <4>1, <4>2
    <3> QED BY <3>2
  <2> QED BY <2>1 DEF GridFindsObjects
<1>9. Sound(h)
  BY <1>3, <1>4, <1>5, <1>6, <1>7, <1>8 DEF Sound, Shape
<1>10. ASSUME LinksAgree(g) PROVE LinksAgree(h)
  BY <1>2, <1>3, <1>10 DEF LinksAgree
<1> QED BY <1>9, <1>10 DEF h

LEMMA RemoveObjectSound ==
    ASSUME NEW g, Sound(g), NEW id \in DOMAIN g.objects, ~UndefinedRemoveObject(g, id)
    PROVE  Sound(remove_object(g, id)) /\ (LinksAgree(g) => LinksAgree(remove_object(g, id)))
<1> DEFINE h == remove_object(g, id)
           old == g.objects[id].position
           owner == g.objects[id].player
<1>1. h = [players |-> [p \in DOMAIN g.players |->
                           CASE p = owner -> Null
                             [] p # owner /\ g.players[p] = id -> Dangling
                             [] OTHER -> g.players[p]],
           objects |-> Without(g.objects, id),
           grid |-> [g.grid EXCEPT ![old] = @ \ {id}]]
  BY DEF remove_object
<1>2. old \in Cells /\ id \in Nat
  BY DEF UndefinedRemoveObject, in_bounds, Sound, Shape
<1>3. /\ DOMAIN h.objects = DOMAIN g.objects \ {id}
      /\ h.objects = [i \in DOMAIN h.objects |-> h.objects[i]]
      /\ \A i \in DOMAIN h.objects : h.objects[i] = g.objects[i]
      /\ h = [players |-> h.players, objects |-> h.objects, grid |-> h.grid]
  BY <1>1 DEF Without
<1>4. /\ DOMAIN h.players = DOMAIN g.players
      /\ h.players = [p \in DOMAIN h.players |-> h.players[p]]
      /\ \A p \in DOMAIN g.players :
            h.players[p] = CASE p = owner -> Null
                             [] p # owner /\ g.players[p] = id -> Dangling
                             [] OTHER -> g.players[p]
  BY <1>1
<1>5. /\ DOMAIN h.grid = Cells /\ h.grid = [c \in Cells |-> h.grid[c]]
      /\ \A c \in Cells : h.grid[c] = IF c = old THEN g.grid[c] \ {id} ELSE g.grid[c]
  <2>1. h.grid = [g.grid EXCEPT ![old] = g.grid[old] \ {id}]
    BY <1>1
  <2>2. g.grid = [c \in Cells |-> g.grid[c]]
    BY DEF Sound, Shape
  <2> HIDE DEF h, old
  <2> QED BY <1>2, <2>1, <2>2
<1>6. IsFiniteSet(DOMAIN h.objects)
  BY <1>3, FS_RemoveElement DEF Sound, Shape
<1> HIDE DEF h
<1>7. h.objects = [i \in DOMAIN h.objects |->
                     [position |-> h.objects[i].position, player |-> h.objects[i].player]]
  <2>1. \A i \in DOMAIN g.objects :
           g.objects[i] = [position |-> g.objects[i].position, player |-> g.objects[i].player]
    BY DEF Sound, Shape
  <2>2. \A i \in DOMAIN h.objects :
           h.objects[i] = [position |-> h.objects[i].position, player |-> h.objects[i].player]
    BY <1>3, <2>1
  <2> QED BY <1>3, <2>2
<1>8. IsGame(h)
  <2>1. ASSUME NEW p \in DOMAIN h.players
        PROVE  h.players[p] \in DOMAIN h.objects \cup {Null, Dangling}
    <3>1. g.players[p] \in DOMAIN g.objects \cup {Null, Dangling}
      BY <1>4 DEF Sound, Shape, IsGame
    <3> QED BY <1>3, <1>4, <3>1
  <2>2. ASSUME NEW i \in DOMAIN h.objects
        PROVE  /\ h.objects[i].position \in Int
               /\ h.objects[i].player \in DOMAIN h.players \cup {Null, Dangling}
    BY <1>3, <1>4 DEF Sound, Shape, IsGame
  <2> QED BY <1>5, <2>1, <2>2 DEF IsGame
<1>9. GridFindsObjects(h)
  <2>1. ASSUME NEW c \in Cells, NEW i
        PROVE  i \in h.grid[c] <=> i \in DOMAIN h.objects /\ h.objects[i].position = c
    <3>1. g.grid[c] = {k \in DOMAIN g.objects : g.objects[k].position = c}
      BY DEF Sound, GridFindsObjects
    <3>2. i \in h.grid[c] <=> i # id /\ i \in g.grid[c]
      <4>1. CASE c = old
        BY <1>5, <4>1
      <4>2. CASE c # old
        <5>1. id \notin g.grid[c]
          BY <3>1, <4>2
        <5>2. h.grid[c] = g.grid[c]
          BY <1>5, <4>2
        <5> QED BY <5>1, <5>2
      <4> QED BY <4>1, <4>2
    <3>3. i \in DOMAIN h.objects => h.objects[i] = g.objects[i]
      BY <1>3
    <3> QED BY <1>3, <3>1, <3>2, <3>3
  <2>2. ASSUME NEW c \in Cells
        PROVE  h.grid[c] = {i \in DOMAIN h.objects : h.objects[i].position = c}
    BY <2>1
  <2> QED BY <2>2 DEF GridFindsObjects
<1>10. Sound(h)
  BY <1>3, <1>4, <1>5, <1>6, <1>7, <1>8, <1>9 DEF Sound, Shape
<1>11. ASSUME LinksAgree(g) PROVE LinksAgree(h)
  <2>1. ASSUME NEW p \in DOMAIN h.players, h.players[p] # Null
        PROVE  h.players[p] \in DOMAIN h.objects /\ h.objects[h.players[p]].player = p
    <3>1. p # owner
      BY <1>4, <2>1
    <3>2. g.players[p] # id
      <4>1. SUFFICES ASSUME g.players[p] = id PROVE FALSE
        OBVIOUS
      <4>2. id # Null
        BY <1>2, PointersAreNoIds
      <4> QED BY <1>4, <1>11, <3>1, <4>1, <4>2 DEF LinksAgree
    <3>3. h.players[p] = g.players[p]
      BY <1>4, <3>1, <3>2
    <3> QED BY <1>3, <1>4, <1>11, <2>1, <3>2, <3>3 DEF LinksAgree
  <2>2. ASSUME NEW i \in DOMAIN h.objects, h.objects[i].player # Null
        PROVE  /\ h.objects[i].player \in DOMAIN h.players
               /\ h.players[h.objects[i].player] = i
    <3> DEFINE p == g.objects[i].player
    <3>1. i \in DOMAIN g.objects /\ i # id /\ h.objects[i].player = p
      BY <1>3
    <3>2. p \in DOMAIN g.players /\ g.players[p] = i
      BY <1>11, <2>2, <3>1 DEF LinksAgree
    <3>3. p # owner
      <4>1. SUFFICES ASSUME p = owner PROVE FALSE
        OBVIOUS
      <4>2. owner # Null
        BY <2>2, <3>1, <4>1
      <4> QED BY <1>11, <3>1, <3>2, <4>1, <4>2 DEF LinksAgree
    <3> HIDE DEF p
    <3> QED BY <1>4, <3>1, <3>2, <3>3
  <2> QED BY <2>1, <2>2 DEF LinksAgree
<1> QED BY <1>10, <1>11 DEF h

LEMMA MoveObjectSound ==
    ASSUME NEW g, Sound(g), NEW id \in DOMAIN g.objects, NEW row \in Int
    PROVE  Sound(move_object(g, id, row)) /\ (LinksAgree(g) => LinksAgree(move_object(g, id, row)))
<1> DEFINE h == move_object(g, id, row)
           old == g.objects[id].position
           cell(c) == CASE c = row -> g.grid[c] \cup {id}
                        [] c = old -> g.grid[c] \ {id}
                        [] OTHER -> g.grid[c]
<1>1. CASE row = old
  BY <1>1 DEF move_object
<1>2. CASE row # old
  <2>1. h = [players |-> g.players,
             objects |-> [g.objects EXCEPT ![id].position = row],
             grid |-> [c \in Cells |-> cell(c)]]
    BY <1>2 DEF move_object
  <2>2. \A i \in DOMAIN g.objects :
           g.objects[i] = [position |-> g.objects[i].position, player |-> g.objects[i].player]
    BY DEF Sound, Shape
  <2> DEFINE at(i) == IF i = id THEN row ELSE g.objects[i].position
  <2>3. h.objects = [i \in DOMAIN g.objects |->
                       [position |-> at(i), player |-> g.objects[i].player]]
    <3>1. h.objects = [g.objects EXCEPT ![id] = [g.objects[id] EXCEPT !.position = row]]
      BY <2>1
    <3>2. [g.objects[id] EXCEPT !.position = row]
             = [position |-> row, player |-> g.objects[id].player]
      <4> DEFINE object == g.objects[id]
      <4>1. object = [position |-> object.position, player |-> object.player]
        BY <2>2
      <4> HIDE DEF object
      <4>2. [object EXCEPT !.position = row] = [position |-> row, player |-> object.player]
        BY <4>1
      <4> QED BY <4>2 DEF object
    <3>3. g.objects = [i \in DOMAIN g.objects |-> g.objects[i]]
      BY DEF Sound, Shape
    <3> HIDE DEF h
    <3> QED BY <2>2, <3>1, <3>2, <3>3
  <2>4. /\ h.players = g.players
        /\ DOMAIN h.grid = Cells /\ h.grid = [c \in Cells |-> h.grid[c]]
        /\ \A c \in Cells : h.grid[c] = cell(c)
        /\ h = [players |-> h.players, objects |-> h.objects, grid |-> h.grid]
    <3> HIDE DEF cell
    <3> QED BY <2>1
  <2>10. \A c \in Cells :
            /\ c = row => cell(c) = g.grid[c] \cup {id}
            /\ c # row /\ c = old => cell(c) = g.grid[c] \ {id}
            /\ c # row /\ c # old => cell(c) = g.grid[c]
    BY <1>2
  <2> HIDE DEF h, cell
  <2>5. /\ DOMAIN h.objects = DOMAIN g.objects
        /\ \A i \in DOMAIN g.objects :
              h.objects[i].position = at(i) /\ h.objects[i].player = g.objects[i].player
        /\ h.objects = [i \in DOMAIN h.objects |->
                         [position |-> h.objects[i].position, player |-> h.objects[i].player]]
    <3> HIDE DEF at
    <3> QED BY <2>3
  <2>6. IsGame(h)
    BY <2>4, <2>5 DEF Sound, Shape, IsGame
  <2>7. GridFindsObjects(h)
    <3>1. ASSUME NEW c \in Cells, NEW i
          PROVE  i \in h.grid[c] <=> i \in DOMAIN h.objects /\ h.objects[i].position = c
      <4>1. i \in g.grid[c] <=> i \in DOMAIN g.objects /\ g.objects[i].position = c
        BY DEF Sound, GridFindsObjects
      <4>2. CASE i = id
        BY <1>2, <2>4, <2>5, <2>10, <4>1, <4>2
      <4>3. CASE i # id
        <5>1. i \in h.grid[c] <=> i \in g.grid[c]
          BY <2>4, <2>10, <4>3
        <5> QED BY <2>5, <4>1, <4>3, <5>1
      <4> QED BY <4>2, <4>3
    <3>2. ASSUME NEW c \in Cells
          PROVE  h.grid[c] = {i \in DOMAIN h.objects : h.objects[i].position = c}
      BY <3>1
    <3> QED BY <3>2 DEF GridFindsObjects
  <2>8. Sound(h)
    BY <2>4, <2>5, <2>6, <2>7 DEF Sound, Shape
  <2>9. ASSUME LinksAgree(g) PROVE LinksAgree(h)
    <3> HIDE DEF at
    <3> QED BY <2>4, <2>5, <2>9 DEF LinksAgree
  <2> QED BY <2>8, <2>9 DEF h
<1> QED BY <1>1, <1>2

\* Taking an object without an owner, or giving up one's own.
LEMMA SetPlayerObjectSound ==
    ASSUME NEW g, Sound(g), NEW p \in DOMAIN g.players, NEW o \in DOMAIN g.objects \cup {Null}
    PROVE  /\ Sound(set_player_object(g, p, o))
           /\ LinksAgree(g) /\ (o # Null => g.objects[o].player \in {Null, p})
                 => LinksAgree(set_player_object(g, p, o))
<1> DEFINE h == set_player_object(g, p, o)
           linked(i) == CASE i = o -> p
                          [] i # o /\ i = g.players[p] -> Null
                          [] OTHER -> g.objects[i].player
<1>1. h = [players |-> [g.players EXCEPT ![p] = o],
           objects |-> [i \in DOMAIN g.objects |->
                           [position |-> g.objects[i].position, player |-> linked(i)]],
           grid |-> g.grid]
  BY DEF set_player_object
<1>2. /\ h.players = [g.players EXCEPT ![p] = o]
      /\ h.objects = [i \in DOMAIN g.objects |->
                         [position |-> g.objects[i].position, player |-> linked(i)]]
      /\ h.grid = g.grid
      /\ h = [players |-> h.players, objects |-> h.objects, grid |-> h.grid]
  <2> HIDE DEF linked
  <2> QED BY <1>1
<1> HIDE DEF h
<1>3. /\ DOMAIN h.players = DOMAIN g.players
      /\ h.players = [q \in DOMAIN h.players |-> h.players[q]]
      /\ \A q \in DOMAIN g.players : h.players[q] = IF q = p THEN o ELSE g.players[q]
  <2>1. g.players = [q \in DOMAIN g.players |-> g.players[q]]
    BY DEF Sound, Shape
  <2> QED BY <1>2, <2>1
<1>4. /\ DOMAIN h.objects = DOMAIN g.objects
      /\ \A i \in DOMAIN g.objects :
            h.objects[i].position = g.objects[i].position /\ h.objects[i].player = linked(i)
      /\ h.objects = [i \in DOMAIN h.objects |->
                        [position |-> h.objects[i].position, player |-> h.objects[i].player]]
  <2> HIDE DEF linked
  <2> QED BY <1>2
<1>5. \A i \in DOMAIN g.objects :
         /\ i = o => linked(i) = p
         /\ i # o /\ i = g.players[p] => linked(i) = Null
         /\ i # o /\ i # g.players[p] => linked(i) = g.objects[i].player
  OBVIOUS
<1> HIDE DEF linked
<1>6. IsGame(h)
  <2>1. ASSUME NEW i \in DOMAIN h.objects
        PROVE  h.objects[i].player \in DOMAIN h.players \cup {Null, Dangling}
    BY <1>3, <1>4, <1>5 DEF Sound, Shape, IsGame
  <2> QED BY <1>2, <1>3, <1>4, <2>1 DEF Sound, Shape, IsGame
<1>7. Sound(h)
  BY <1>2, <1>3, <1>4, <1>6 DEF Sound, Shape, GridFindsObjects
<1>8. ASSUME LinksAgree(g), o # Null => g.objects[o].player \in {Null, p}
      PROVE  LinksAgree(h)
  <2>1. ASSUME NEW q \in DOMAIN h.players, h.players[q] # Null
        PROVE  h.players[q] \in DOMAIN h.objects /\ h.objects[h.players[q]].player = q
    <3>1. CASE q = p
      <4>1. h.players[q] = o
        BY <1>3, <3>1
      <4> QED BY <1>4, <1>5, <2>1, <3>1, <4>1
    <3>2. CASE q # p
      <4> DEFINE i == g.players[q]
      <4>1. h.players[q] = i /\ i \in DOMAIN g.objects /\ g.objects[i].player = q
        BY <1>3, <1>8, <2>1, <3>2 DEF LinksAgree
      <4>2. q # Null
        BY <1>3, PointersAreNoIds DEF Sound, Shape
      <4>3. i # o
        BY <1>8, <2>1, <3>2, <4>1, <4>2
      <4>4. i # g.players[p]
        BY <1>8, <2>1, <3>2, <4>1 DEF LinksAgree
      <4> HIDE DEF i
      <4> QED BY <1>4, <1>5, <4>1, <4>3, <4>4
    <3> QED BY <3>1, <3>2
  <2>2. ASSUME NEW i \in DOMAIN h.objects, h.objects[i].player # Null
        PROVE  /\ h.objects[i].player \in DOMAIN h.players
               /\ h.players[h.objects[i].player] = i
    <3>1. CASE i = o
      BY <1>3, <1>4, <1>5, <3>1
    <3>2. CASE i # o
      <4> DEFINE q == g.objects[i].player
      <4>1. i # g.players[p] /\ h.objects[i].player = q
        BY <1>4, <1>5, <2>2, <3>2
      <4>2. q \in DOMAIN g.players /\ g.players[q] = i
        BY <1>4, <1>8, <2>2, <4>1 DEF LinksAgree
      <4> HIDE DEF q
      <4> QED BY <1>3, <4>1, <4>2
    <3> QED BY <3>1, <3>2
  <2> QED BY <2>1, <2>2 DEF LinksAgree
<1> QED BY <1>7, <1>8 DEF h

\* The fix-up loop gives an object its last player, and so its only one.
LEMMA LinkedPlayers ==
    ASSUME NEW g, Sound(g), NEW otherwise \in [DOMAIN g.objects -> Pointers]
    PROVE  /\ DOMAIN Linked(g, otherwise) = DOMAIN g.objects
           /\ Linked(g, otherwise)
                 = [i \in DOMAIN g.objects |->
                      [position |-> g.objects[i].position,
                       player |-> Linked(g, otherwise)[i].player]]
           /\ \A i \in DOMAIN g.objects :
                 /\ Linked(g, otherwise)[i].player \in DOMAIN g.players \cup Pointers
                 /\ LinksAgree(g) =>
                       Linked(g, otherwise)[i].player
                          = IF g.objects[i].player = Null THEN otherwise[i]
                                                          ELSE g.objects[i].player
<1> DEFINE mine(i) == {p \in DOMAIN g.players : g.players[p] = i}
           last(i) == CHOOSE p \in mine(i) : \A q \in mine(i) : q <= p
           owner(i) == IF mine(i) = {} THEN otherwise[i] ELSE last(i)
           objects == Linked(g, otherwise)
<1>1. objects = [i \in DOMAIN g.objects |->
                   [position |-> g.objects[i].position, player |-> owner(i)]]
  BY DEF Linked
<1>2. ASSUME NEW i \in DOMAIN g.objects, mine(i) # {} PROVE last(i) \in mine(i)
  <2>1. mine(i) \in SUBSET Nat /\ IsFiniteSet(mine(i))
    BY FS_Subset DEF Sound, Shape
  <2> HIDE DEF mine
  <2>2. \E p \in mine(i) : \A q \in mine(i) : q <= p
    BY <1>2, <2>1, LargestExists
  <2> QED BY <2>2
<1>3. ASSUME NEW i \in DOMAIN g.objects
      PROVE  /\ owner(i) \in DOMAIN g.players \cup Pointers
             /\ LinksAgree(g) => owner(i) = IF g.objects[i].player = Null
                                            THEN otherwise[i] ELSE g.objects[i].player
  <2> HIDE DEF last
  <2>1. owner(i) \in DOMAIN g.players \cup Pointers
    BY <1>2
  <2>2. ASSUME LinksAgree(g), g.objects[i].player = Null PROVE mine(i) = {}
    <3>1. i # Null /\ \A p \in DOMAIN g.players : p # Null
      BY PointersAreNoIds DEF Sound, Shape
    <3> QED BY <2>2, <3>1 DEF LinksAgree
  <2>3. ASSUME LinksAgree(g), g.objects[i].player # Null
        PROVE  mine(i) # {} /\ \A p \in mine(i) : p = g.objects[i].player
    <3>1. i # Null
      BY PointersAreNoIds DEF Sound, Shape
    <3>2. g.objects[i].player \in mine(i)
      BY <2>3 DEF LinksAgree
    <3>3. ASSUME NEW p \in mine(i) PROVE p = g.objects[i].player
      BY <2>3, <3>1, <3>3 DEF LinksAgree
    <3> QED BY <3>2, <3>3
  <2> QED BY <1>2, <2>1, <2>2, <2>3
<1> HIDE DEF mine, last, owner, objects
<1>4. /\ DOMAIN objects = DOMAIN g.objects
      /\ \A i \in DOMAIN g.objects : objects[i].player = owner(i)
      /\ objects = [i \in DOMAIN g.objects |->
                      [position |-> g.objects[i].position, player |-> objects[i].player]]
  BY <1>1
<1> QED BY <1>3, <1>4 DEF objects

LEMMA CopySound ==
    ASSUME NEW g, Sound(g)
    PROVE  Sound(copy(g)) /\ (LinksAgree(g) => LinksAgree(copy(g)))
<1> DEFINE h == copy(g)
           otherwise == [i \in DOMAIN g.objects |->
                            IF g.objects[i].player = Null THEN Null ELSE Dangling]
           objects == Linked(g, otherwise)
<1>1. h = [players |-> g.players, objects |-> objects, grid |-> g.grid]
  <2>1. h = [g EXCEPT !.objects = objects]
    BY DEF copy
  <2>2. g = [players |-> g.players, objects |-> g.objects, grid |-> g.grid]
    BY DEF Sound, Shape
  <2> HIDE DEF h, objects
  <2> QED BY <2>1, <2>2
<1>2. /\ DOMAIN objects = DOMAIN g.objects
      /\ objects = [i \in DOMAIN g.objects |->
                      [position |-> g.objects[i].position, player |-> objects[i].player]]
      /\ \A i \in DOMAIN g.objects :
            /\ objects[i].player \in DOMAIN g.players \cup Pointers
            /\ LinksAgree(g) => objects[i].player = g.objects[i].player
  <2>1. otherwise \in [DOMAIN g.objects -> Pointers]
    BY DEF Pointers
  <2>2. \A i \in DOMAIN g.objects : g.objects[i].player = Null => otherwise[i] = Null
    OBVIOUS
  <2> HIDE DEF otherwise
  <2> QED BY <2>1, <2>2, LinkedPlayers
<1> HIDE DEF h, objects
<1>3. /\ h.players = g.players /\ h.objects = objects /\ h.grid = g.grid
      /\ h = [players |-> h.players, objects |-> h.objects, grid |-> h.grid]
  BY <1>1
<1>4. \A i \in DOMAIN g.objects : h.objects[i].position = g.objects[i].position
  BY <1>2, <1>3
<1>5. IsGame(h)
  BY <1>2, <1>3, <1>4 DEF Sound, Shape, IsGame, Pointers
<1>6. h.objects = [i \in DOMAIN h.objects |->
                     [position |-> h.objects[i].position, player |-> h.objects[i].player]]
  BY <1>2, <1>3
<1>7. Sound(h)
  BY <1>2, <1>3, <1>4, <1>5, <1>6 DEF Sound, Shape, GridFindsObjects
<1>8. ASSUME LinksAgree(g) PROVE LinksAgree(h)
  <2>1. /\ DOMAIN h.objects = DOMAIN g.objects
        /\ \A i \in DOMAIN g.objects : h.objects[i].player = g.objects[i].player
    BY <1>2, <1>3, <1>8
  <2> QED BY <1>3, <1>8, <2>1 DEF LinksAgree
<1> QED BY <1>7, <1>8 DEF h

LEMMA RebuiltSound ==
    ASSUME NEW g, Sound(g)
    PROVE  Sound(rebuilt(g)) /\ (LinksAgree(g) => LinksAgree(rebuilt(g)))
<1> DEFINE h == rebuilt(g)
           otherwise == [i \in DOMAIN g.objects |-> Null]
           objects == Linked(g, otherwise)
<1>1. h = [players |-> g.players, objects |-> objects,
           grid |-> [c \in Cells |-> {i \in DOMAIN g.objects : g.objects[i].position = c}]]
  BY DEF rebuilt
<1>2. /\ DOMAIN objects = DOMAIN g.objects
      /\ objects = [i \in DOMAIN g.objects |->
                      [position |-> g.objects[i].position, player |-> objects[i].player]]
      /\ \A i \in DOMAIN g.objects :
            /\ objects[i].player \in DOMAIN g.players \cup Pointers
            /\ LinksAgree(g) => objects[i].player = g.objects[i].player
  <2>1. otherwise \in [DOMAIN g.objects -> Pointers]
    BY DEF Pointers
  <2>2. \A i \in DOMAIN g.objects : otherwise[i] = Null
    OBVIOUS
  <2> HIDE DEF otherwise
  <2> QED BY <2>1, <2>2, LinkedPlayers
<1> HIDE DEF h, objects
<1>3. /\ h.players = g.players /\ h.objects = objects
      /\ h.grid = [c \in Cells |-> {i \in DOMAIN g.objects : g.objects[i].position = c}]
      /\ h = [players |-> h.players, objects |-> h.objects, grid |-> h.grid]
  BY <1>1
<1>4. \A i \in DOMAIN g.objects : h.objects[i].position = g.objects[i].position
  BY <1>2, <1>3
<1>5. IsGame(h)
  BY <1>2, <1>3, <1>4 DEF Sound, Shape, IsGame, Pointers
<1>6. h.objects = [i \in DOMAIN h.objects |->
                     [position |-> h.objects[i].position, player |-> h.objects[i].player]]
  BY <1>2, <1>3
<1>7. /\ DOMAIN h.grid = Cells /\ h.grid = [c \in Cells |-> h.grid[c]]
      /\ GridFindsObjects(h)
  <2>1. DOMAIN h.objects = DOMAIN g.objects
    BY <1>2, <1>3
  <2>2. DOMAIN h.grid = Cells /\ h.grid = [c \in Cells |-> h.grid[c]]
    BY <1>3
  <2>3. ASSUME NEW c \in Cells
        PROVE  h.grid[c] = {i \in DOMAIN h.objects : h.objects[i].position = c}
    <3>1. h.grid[c] = {i \in DOMAIN g.objects : g.objects[i].position = c}
      BY <1>3
    <3> QED BY <1>4, <2>1, <3>1
  <2> QED BY <2>2, <2>3 DEF GridFindsObjects
<1>8. Sound(h)
  BY <1>2, <1>3, <1>5, <1>6, <1>7 DEF Sound, Shape
<1>9. ASSUME LinksAgree(g) PROVE LinksAgree(h)
  <2>1. /\ DOMAIN h.objects = DOMAIN g.objects
        /\ \A i \in DOMAIN g.objects : h.objects[i].player = g.objects[i].player
    BY <1>2, <1>3, <1>9
  <2> QED BY <1>3, <1>9, <2>1 DEF LinksAgree
<1> QED BY <1>8, <1>9 DEF h

-----------------------------------------------------------------------------
(* Updates.                                                                *)

Updates ==
    [kind : {"create", "position"}, id : Nat, position : Int]
        \cup [kind : {"destroy"}, id : Nat]

\* Updates that put objects only into R.
UpdatesTo(R) ==
    [kind : {"create", "position"}, id : Nat, position : R]
        \cup [kind : {"destroy"}, id : Nat]

\* A report puts objects only where the game has some.
LEMMA DiffTo ==
    ASSUME NEW g, Sound(g), NEW prev, Sound(prev),
           NEW R, \A i \in DOMAIN g.objects : g.objects[i].position \in R
    PROVE  diff(g, prev) \in Seq(UpdatesTo(R))
<1> DEFINE new_or_moved == {i \in DOMAIN g.objects :
                               \/ i \notin DOMAIN prev.objects
                               \/ prev.objects[i].position # g.objects[i].position}
           gone == DOMAIN prev.objects \ DOMAIN g.objects
           first == InOrder(new_or_moved)
           second == InOrder(gone)
           told(i) == IF i \in DOMAIN prev.objects THEN Move(i, g.objects[i].position)
                                                   ELSE Create(i, g.objects[i].position)
<1>1. diff(g, prev) = [n \in DOMAIN first |-> told(first[n])]
                         \o [n \in DOMAIN second |-> Destroy(second[n])]
  BY DEF diff, Mapped
<1>2. /\ new_or_moved \in SUBSET Nat /\ IsFiniteSet(new_or_moved)
      /\ gone \in SUBSET Nat /\ IsFiniteSet(gone)
  BY FS_Subset DEF Sound, Shape
<1>3. first \in Seq(new_or_moved) /\ second \in Seq(gone)
  <2> HIDE DEF new_or_moved, gone
  <2> QED BY <1>2, InOrderType
<1>4. \A i \in new_or_moved : told(i) \in UpdatesTo(R)
  BY <1>2 DEF UpdatesTo, Move, Create
<1>5. \A i \in gone : Destroy(i) \in UpdatesTo(R)
  BY <1>2 DEF UpdatesTo, Destroy
<1> HIDE DEF new_or_moved, gone, first, second, told
<1>6. [n \in DOMAIN first |-> told(first[n])] \in Seq(UpdatesTo(R))
  <2>1. /\ Len(first) \in Nat /\ DOMAIN first = 1 .. Len(first)
        /\ \A n \in 1 .. Len(first) : first[n] \in new_or_moved
    BY <1>3
  <2>2. [n \in 1 .. Len(first) |-> told(first[n])] \in [1 .. Len(first) -> UpdatesTo(R)]
    BY <1>4, <2>1
  <2> QED BY <2>1, <2>2
<1>7. [n \in DOMAIN second |-> Destroy(second[n])] \in Seq(UpdatesTo(R))
  <2>1. /\ Len(second) \in Nat /\ DOMAIN second = 1 .. Len(second)
        /\ \A n \in 1 .. Len(second) : second[n] \in gone
    BY <1>3
  <2>2. [n \in 1 .. Len(second) |-> Destroy(second[n])] \in [1 .. Len(second) -> UpdatesTo(R)]
    BY <1>5, <2>1
  <2> QED BY <2>1, <2>2
<1> QED BY <1>1, <1>6, <1>7

LEMMA DiffType ==
    ASSUME NEW g, Sound(g), NEW prev, Sound(prev)
    PROVE  diff(g, prev) \in Seq(Updates)
<1>1. \A i \in DOMAIN g.objects : g.objects[i].position \in Int
  BY DEF Sound, Shape, IsGame
<1>2. diff(g, prev) \in Seq(UpdatesTo(Int))
  BY <1>1, DiffTo
<1> QED BY <1>2 DEF Updates, UpdatesTo

LEMMA ApplyUpdateSound ==
    ASSUME NEW g, Sound(g), NEW u \in Updates, ~ThrowsUpdate(g, u), ~UndefinedUpdate(g, u)
    PROVE  Sound(apply_update(g, u)) /\ (LinksAgree(g) => LinksAgree(apply_update(g, u)))
<1>1. CASE u.kind = "create"
  <2>1. u.id \in Nat /\ u.position \in Int
    BY <1>1 DEF Updates
  <2>2. ~ThrowsAddObject(g, u.id) /\ ~UndefinedAddObject(g, u.position)
    BY <1>1 DEF ThrowsUpdate, UndefinedUpdate
  <2>3. apply_update(g, u) = add_object(g, u.id, u.position)
    BY <1>1 DEF apply_update
  <2> QED BY <2>1, <2>2, <2>3, AddObjectSound
<1>2. CASE u.kind = "position"
  <2>1. u.id \in DOMAIN g.objects /\ u.position \in Int
    BY <1>2 DEF Updates, ThrowsUpdate
  <2>2. apply_update(g, u) = move_object(g, u.id, u.position)
    BY <1>2 DEF apply_update
  <2> QED BY <2>1, <2>2, MoveObjectSound
<1>3. CASE u.kind = "destroy"
  <2>1. u.id \in DOMAIN g.objects /\ ~UndefinedRemoveObject(g, u.id)
    BY <1>3 DEF ThrowsUpdate, UndefinedUpdate
  <2>2. apply_update(g, u) = remove_object(g, u.id)
    BY <1>3 DEF apply_update
  <2> QED BY <2>1, <2>2, RemoveObjectSound
<1>4. u.kind \in {"create", "position", "destroy"}
  BY DEF Updates
<1> QED BY <1>1, <1>2, <1>3, <1>4

-----------------------------------------------------------------------------
(* Server and client.                                                      *)

GamesInv ==
    /\ Sound(game) /\ Sound(base) /\ Sound(m_game_state)
    /\ Careful => LinksAgree(game) /\ LinksAgree(base) /\ LinksAgree(m_game_state)
    /\ m_update_queue \in Seq(Updates) /\ taken \in Seq(Updates)
    /\ next_id \in 1 .. MaxObject + 1
    /\ joined \in BOOLEAN
    /\ fault \in {"none", "copy", "pointer", "grid", "throw"}

LEMMA InitGames == Init => GamesInv
<1> SUFFICES ASSUME Init PROVE GamesInv
  OBVIOUS
<1>1. 1 \in 1 .. MaxObject + 1
  BY IdsAssumption
<1>2. <<>> \in Seq(Updates)
  OBVIOUS
<1> QED BY <1>1, <1>2, NewGameSound DEF Init, GamesInv

LEMMA FaultGames ==
    ASSUME GamesInv, NEW kind \in {"copy", "pointer", "grid", "throw"}, Fault(kind)
    PROVE  GamesInv'
BY DEF GamesInv, Fault, clientVars

LEMMA ServerGames ==
    ASSUME GamesInv, NEW g, Sound(g), Careful => LinksAgree(g), Server(g)
    PROVE  GamesInv'
BY DEF GamesInv, Server, clientVars

\* Player p joins the game, with or without an object.
Adds(p) == \E o \in DOMAIN game.objects \cup {Null, Dangling} : AddPlayer(p, o)

LEMMA PlayerGames ==
    ASSUME GamesInv, NEW p \in PlayerIds, Adds(p) \/ RemovePlayer(p)
    PROVE  GamesInv'
<1>1. ASSUME NEW o \in DOMAIN game.objects \cup {Null, Dangling}, AddPlayer(p, o)
      PROVE  GamesInv'
  <2>1. CASE UndefinedAddPlayer(o)
    BY <1>1, <2>1, FaultGames DEF AddPlayer
  <2>2. CASE ~UndefinedAddPlayer(o)
    <3>1. p \in Nat /\ o \in DOMAIN game.objects \cup {Null}
      BY <2>2, IdsAssumption DEF UndefinedAddPlayer
    <3>2. /\ Sound(add_player(game, p, o))
          /\ LinksAgree(game) /\ (o # Null => game.objects[o].player = Null)
                => LinksAgree(add_player(game, p, o))
      BY <1>1, <3>1, AddPlayerSound DEF AddPlayer, GamesInv
    <3> QED BY <1>1, <2>2, <3>2, ServerGames DEF AddPlayer, GamesInv
  <2> QED BY <2>1, <2>2
<1>2. CASE RemovePlayer(p)
  <2>1. p \in DOMAIN game.players
    BY <1>2 DEF RemovePlayer, ThrowsRemovePlayer
  <2>2. /\ Sound(remove_player(game, p))
        /\ LinksAgree(game) /\ game.players[p] = Null => LinksAgree(remove_player(game, p))
    BY <2>1, RemovePlayerSound DEF GamesInv
  <2> QED BY <1>2, <2>2, ServerGames DEF RemovePlayer, GamesInv
<1> QED BY <1>1, <1>2 DEF Adds

LEMMA RowsAreInt == Rows \subseteq Int
BY IdsAssumption DEF Rows

LEMMA AddObjectGames ==
    ASSUME GamesInv, NEW row \in Rows, AddObject(row)
    PROVE  GamesInv'
<1>1. CASE UndefinedAddObject(game, row)
  BY <1>1, FaultGames DEF AddObject
<1>2. CASE ~UndefinedAddObject(game, row)
  <2>1. next_id \in 1 .. MaxObject /\ MaxObject \in Nat /\ ~ThrowsAddObject(game, next_id)
    BY IdsAssumption DEF AddObject
  <2>2. next_id \in Nat /\ next_id + 1 \in 1 .. MaxObject + 1 /\ row \in Int
    BY <2>1, RowsAreInt
  <2>3. /\ Sound(add_object(game, next_id, row))
        /\ LinksAgree(game) => LinksAgree(add_object(game, next_id, row))
    BY <1>2, <2>1, <2>2, AddObjectSound DEF GamesInv
  <2> QED BY <1>2, <2>2, <2>3 DEF AddObject, GamesInv, clientVars
<1> QED BY <1>1, <1>2

LEMMA ObjectGames ==
    ASSUME GamesInv, NEW id \in DOMAIN game.objects,
           RemoveObject(id) \/ \E row \in Rows : MoveObject(id, row)
    PROVE  GamesInv'
<1>1. CASE RemoveObject(id)
  <2>1. CASE UndefinedRemoveObject(game, id)
    BY <1>1, <2>1, FaultGames DEF RemoveObject
  <2>2. CASE ~UndefinedRemoveObject(game, id)
    <3>1. /\ Sound(remove_object(game, id))
          /\ LinksAgree(game) => LinksAgree(remove_object(game, id))
      BY <2>2, RemoveObjectSound DEF GamesInv
    <3> QED BY <1>1, <2>2, <3>1, ServerGames DEF RemoveObject, GamesInv
  <2> QED BY <2>1, <2>2
<1>2. ASSUME NEW row \in Rows, MoveObject(id, row) PROVE GamesInv'
  <2>1. /\ Sound(move_object(game, id, row))
        /\ LinksAgree(game) => LinksAgree(move_object(game, id, row))
    BY RowsAreInt, MoveObjectSound DEF GamesInv
  <2> QED BY <1>2, <2>1, ServerGames DEF MoveObject, GamesInv
<1> QED BY <1>1, <1>2

LEMMA SetPlayerObjectGames ==
    ASSUME GamesInv, NEW p \in PlayerIds, NEW o \in DOMAIN game.objects \cup {Null},
           SetPlayerObject(p, o)
    PROVE  GamesInv'
<1>1. CASE UndefinedSetPlayerObject(game, p)
  BY <1>1, FaultGames DEF SetPlayerObject
<1>2. CASE ~UndefinedSetPlayerObject(game, p)
  <2>1. /\ Sound(set_player_object(game, p, o))
        /\ LinksAgree(game) /\ (o # Null => game.objects[o].player \in {Null, p})
              => LinksAgree(set_player_object(game, p, o))
    BY SetPlayerObjectSound DEF SetPlayerObject, GamesInv
  <2> QED BY <1>2, <2>1, ServerGames DEF SetPlayerObject, GamesInv
<1> QED BY <1>1, <1>2

LEMMA MoveUpGames ==
    ASSUME GamesInv, NEW p \in PlayerIds, DoActionMoveUp(p)
    PROVE  GamesInv'
<1>1. CASE UndefinedMoveUp(game, p)
  BY <1>1, FaultGames DEF DoActionMoveUp
<1>2. CASE ~UndefinedMoveUp(game, p)
  <2> DEFINE id == game.players[p]
             row == game.objects[id].position - 1
  <2>1. id \in DOMAIN game.objects /\ row \in Int
    BY <1>2 DEF UndefinedMoveUp, GamesInv, Sound, Shape, IsGame
  <2>2. /\ Sound(move_object(game, id, row))
        /\ LinksAgree(game) => LinksAgree(move_object(game, id, row))
    BY <2>1, MoveObjectSound DEF GamesInv
  <2>3. Server(move_object(game, id, row))
    BY <1>2 DEF DoActionMoveUp, do_move_up
  <2> HIDE DEF id, row
  <2> QED BY <2>2, <2>3, ServerGames DEF GamesInv
<1> QED BY <1>1, <1>2

LEMMA JoinGames ==
    ASSUME GamesInv, Join
    PROVE  GamesInv'
<1>1. CASE UndefinedRebuilt(game) \/ UndefinedCopy(game)
  BY <1>1, FaultGames DEF Join
<1>2. CASE ~UndefinedRebuilt(game) /\ ~UndefinedCopy(game)
  <2>1. /\ Sound(copy(game)) /\ Sound(rebuilt(game))
        /\ LinksAgree(game) => LinksAgree(copy(game)) /\ LinksAgree(rebuilt(game))
    BY CopySound, RebuiltSound DEF GamesInv
  <2> QED BY <1>2, <2>1 DEF Join, GamesInv
<1> QED BY <1>1, <1>2

LEMMA ReportGames ==
    ASSUME GamesInv, Report
    PROVE  GamesInv'
<1>1. CASE UndefinedCopy(game)
  BY <1>1, FaultGames DEF Report, enqueue_updates
<1>2. CASE ~UndefinedCopy(game)
  <2>1. Sound(copy(game)) /\ (LinksAgree(game) => LinksAgree(copy(game)))
    BY CopySound DEF GamesInv
  <2>2. m_update_queue \o diff(game, base) \in Seq(Updates)
    BY DiffType DEF GamesInv
  <2> QED BY <1>2, <2>1, <2>2 DEF Report, enqueue_updates, GamesInv
<1> QED BY <1>1, <1>2

LEMMA DequeueGames ==
    ASSUME GamesInv, Dequeue
    PROVE  GamesInv'
BY DEF Dequeue, GamesInv

LEMMA ApplyUpdateGames ==
    ASSUME GamesInv, ApplyUpdate
    PROVE  GamesInv'
<1> DEFINE u == Head(taken)
<1>1. u \in Updates /\ Tail(taken) \in Seq(Updates)
  BY DEF GamesInv, ApplyUpdate
<1>2. CASE ThrowsUpdate(m_game_state, u) \/ UndefinedUpdate(m_game_state, u)
  BY <1>2, FaultGames DEF ApplyUpdate
<1>3. CASE ~ThrowsUpdate(m_game_state, u) /\ ~UndefinedUpdate(m_game_state, u)
  <2>1. /\ Sound(apply_update(m_game_state, u))
        /\ LinksAgree(m_game_state) => LinksAgree(apply_update(m_game_state, u))
    BY <1>1, <1>3, ApplyUpdateSound DEF GamesInv
  <2>2. /\ m_game_state' = apply_update(m_game_state, u) /\ taken' = Tail(taken)
        /\ UNCHANGED <<game, next_id, base, m_update_queue, joined, fault>>
    BY <1>3 DEF ApplyUpdate
  <2> HIDE DEF u
  <2> QED BY <1>1, <2>1, <2>2 DEF GamesInv
<1> QED BY <1>2, <1>3

\* The invariant holds whatever is called, and with what the code leaves
\* undefined ending the program.
THEOREM GamesSound == Spec => []GamesInv
<1>1. GamesInv /\ [Next]_vars => GamesInv'
  <2> SUFFICES ASSUME GamesInv, [Next]_vars PROVE GamesInv'
    OBVIOUS
  <2>1. ASSUME NEW p \in PlayerIds,
               \/ Adds(p) \/ RemovePlayer(p) \/ DoActionMoveUp(p)
               \/ \E o \in DOMAIN game.objects \cup {Null} : SetPlayerObject(p, o)
        PROVE  GamesInv'
    BY <2>1, PlayerGames, MoveUpGames, SetPlayerObjectGames
  <2>2. ASSUME NEW row \in Rows, AddObject(row) PROVE GamesInv'
    BY <2>2, AddObjectGames
  <2>3. ASSUME NEW id \in DOMAIN game.objects,
               RemoveObject(id) \/ \E row \in Rows : MoveObject(id, row)
        PROVE  GamesInv'
    BY <2>3, ObjectGames
  <2>4. CASE Join \/ Report \/ Dequeue \/ ApplyUpdate
    BY <2>4, JoinGames, ReportGames, DequeueGames, ApplyUpdateGames
  <2>5. CASE UNCHANGED vars
    BY <2>5 DEF vars, clientVars, GamesInv
  <2> QED BY <2>1, <2>2, <2>3, <2>4, <2>5 DEF Next, Adds
<1> QED BY <1>1, InitGames, PTL DEF Spec

\* The types of the games, pointers to what is gone included.
THEOREM TypeCorrect == Spec => []TypeOK
<1>1. GamesInv => TypeOK
  BY DEF GamesInv, Sound, Shape, TypeOK
<1> QED BY <1>1, GamesSound, PTL

\* On both sides objects are found where they are, whatever was called, for
\* any number of objects, rows and updates.
THEOREM ObjectsAreFound == Spec => []GridsFindObjects
<1>1. GamesInv => GridsFindObjects
  BY DEF GamesInv, Sound, GridsFindObjects
<1> QED BY <1>1, GamesSound, PTL

\* With a careful server players and objects point at each other, in the game,
\* in its copies and in the client's game between any two updates.
THEOREM LinksNeverBreak == Spec => []LinksStayMutual
<1>1. GamesInv => LinksStayMutual
  BY DEF GamesInv, LinksStayMutual
<1> QED BY <1>1, GamesSound, PTL

-----------------------------------------------------------------------------
(* Where objects are, according to updates.                                *)

\* A place per id, Null for an object that does not exist.
Places == [Nat -> Int \cup {Null}]

PlacesOf(g) ==
    [id \in Nat |-> IF id \in DOMAIN g.objects THEN g.objects[id].position ELSE Null]

\* What an update says of its object.
Told(u) == IF u.kind = "destroy" THEN Null ELSE u.position

\* The update finds its object, or finds it missing if it creates it.
Fits(p, u) == p[u.id] = Null <=> u.kind = "create"

\* The path from p along the updates: each one fits, and the last place is t.
IsPath(path, p, updates, t) ==
    /\ path \in [0 .. Len(updates) -> Places]
    /\ path[0] = p
    /\ \A n \in 1 .. Len(updates) :
          /\ Fits(path[n - 1], updates[n])
          /\ path[n] = [path[n - 1] EXCEPT ![updates[n].id] = Told(updates[n])]
    /\ path[Len(updates)] = t

Leads(p, updates, t) == \E path : IsPath(path, p, updates, t)

LEMMA PlacesType == ASSUME NEW g, Shape(g) PROVE PlacesOf(g) \in Places
BY DEF Shape, IsGame, PlacesOf, Places

LEMMA UpdateType ==
    ASSUME NEW u \in Updates
    PROVE  u.id \in Nat /\ Told(u) \in Int \cup {Null} /\ (Told(u) = Null <=> u.kind = "destroy")
BY PointerAssumption DEF Updates, Told

LEMMA NoUpdates == ASSUME NEW p \in Places PROVE Leads(p, <<>>, p)
<1> DEFINE path == [n \in {0} |-> p]
<1>1. IsPath(path, p, <<>>, p)
  BY DEF IsPath
<1> QED BY <1>1 DEF Leads

\* Updates after updates.
LEMMA PathsJoin ==
    ASSUME NEW p, NEW q, NEW t,
           NEW first \in Seq(Updates), NEW second \in Seq(Updates),
           Leads(p, first, q), Leads(q, second, t)
    PROVE  Leads(p, first \o second, t)
<1>1. PICK one : IsPath(one, p, first, q)
  BY DEF Leads
<1>2. PICK two : IsPath(two, q, second, t)
  BY DEF Leads
<1> DEFINE m == Len(first)
           k == Len(second)
           both == first \o second
           path == [n \in 0 .. m + k |-> IF n <= m THEN one[n] ELSE two[n - m]]
<1>3. /\ m \in Nat /\ k \in Nat /\ Len(both) = m + k
      /\ \A n \in 1 .. m + k : both[n] = IF n <= m THEN first[n] ELSE second[n - m]
  OBVIOUS
<1>4. one \in [0 .. m -> Places] /\ two \in [0 .. k -> Places]
      /\ one[0] = p /\ one[m] = q /\ two[0] = q /\ two[k] = t
  BY <1>1, <1>2 DEF IsPath
<1>5. \A n \in 1 .. m : Fits(one[n - 1], first[n])
                          /\ one[n] = [one[n - 1] EXCEPT ![first[n].id] = Told(first[n])]
  BY <1>1 DEF IsPath
<1>6. \A n \in 1 .. k : Fits(two[n - 1], second[n])
                          /\ two[n] = [two[n - 1] EXCEPT ![second[n].id] = Told(second[n])]
  BY <1>2 DEF IsPath
<1> HIDE DEF m, k, both
<1>7. /\ \A n \in 0 .. m : path[n] = one[n]
      /\ \A n \in 0 .. k : path[m + n] = two[n]
  <2>1. ASSUME NEW n \in 0 .. k PROVE path[m + n] = two[n]
    <3>1. CASE n = 0
      BY <1>3, <1>4, <3>1
    <3>2. CASE n # 0
      BY <1>3, <3>2
    <3> QED BY <3>1, <3>2
  <2> QED BY <1>3, <2>1
<1>8. path \in [0 .. m + k -> Places]
  <2>1. ASSUME NEW n \in 0 .. m + k, ~(n <= m) PROVE n - m \in 0 .. k
    BY <1>3, <2>1
  <2>2. ASSUME NEW n \in 0 .. m + k, n <= m PROVE n \in 0 .. m
    BY <1>3, <2>2
  <2> QED BY <1>4, <2>1, <2>2
<1> HIDE DEF path
<1>9. ASSUME NEW n \in 1 .. m + k
      PROVE  /\ Fits(path[n - 1], both[n])
             /\ path[n] = [path[n - 1] EXCEPT ![both[n].id] = Told(both[n])]
  <2>1. CASE n <= m
    <3>1. n \in 1 .. m /\ n - 1 \in 0 .. m /\ n \in 0 .. m
      BY <1>3, <2>1
    <3> QED BY <1>3, <1>5, <1>7, <2>1, <3>1
  <2>2. CASE ~(n <= m)
    <3> DEFINE i == n - m
    <3>1. i \in 1 .. k /\ i - 1 \in 0 .. k /\ i \in 0 .. k /\ n = m + i /\ n - 1 = m + (i - 1)
      BY <1>3, <2>2
    <3>2. both[n] = second[i]
      BY <1>3, <2>2
    <3> HIDE DEF i
    <3>3. path[n] = two[i] /\ path[n - 1] = two[i - 1]
      BY <1>7, <3>1
    <3> QED BY <1>6, <3>1, <3>2, <3>3
  <2> QED BY <2>1, <2>2
<1>10. path[0] = p /\ path[m + k] = t
  BY <1>3, <1>4, <1>7
<1>11. IsPath(path, p, both, t)
  BY <1>3, <1>8, <1>9, <1>10 DEF IsPath
<1> QED BY <1>11 DEF Leads, both

\* The first update fits, and the others lead on from where it leads.
LEMMA PathGoesOn ==
    ASSUME NEW p, NEW t, NEW updates \in Seq(Updates), updates # <<>>, Leads(p, updates, t)
    PROVE  /\ Fits(p, Head(updates))
           /\ Leads([p EXCEPT ![Head(updates).id] = Told(Head(updates))], Tail(updates), t)
<1>1. PICK path : IsPath(path, p, updates, t)
  BY DEF Leads
<1> DEFINE m == Len(updates)
           rest == Tail(updates)
           tail == [n \in 0 .. m - 1 |-> path[n + 1]]
<1>2. /\ m \in Nat \ {0} /\ Head(updates) = updates[1] /\ Len(rest) = m - 1
      /\ \A n \in 1 .. m - 1 : rest[n] = updates[n + 1]
  OBVIOUS
<1>3. /\ path \in [0 .. m -> Places] /\ path[0] = p /\ path[m] = t
      /\ \A n \in 1 .. m :
            /\ Fits(path[n - 1], updates[n])
            /\ path[n] = [path[n - 1] EXCEPT ![updates[n].id] = Told(updates[n])]
  BY <1>1 DEF IsPath
<1> HIDE DEF m, rest
<1>4. /\ Fits(p, Head(updates))
      /\ path[1] = [p EXCEPT ![Head(updates).id] = Told(Head(updates))]
  <2>1. 1 \in 1 .. m /\ 1 - 1 = 0
    BY <1>2
  <2> QED BY <1>2, <1>3, <2>1
<1>5. \A n \in 0 .. m - 1 : tail[n] = path[n + 1] /\ n + 1 \in 0 .. m
  BY <1>2
<1>6. tail \in [0 .. m - 1 -> Places]
  BY <1>3, <1>5
<1>7. tail[0] = path[1] /\ tail[m - 1] = t
  BY <1>2, <1>3, <1>5
<1>8. ASSUME NEW n \in 1 .. m - 1
      PROVE  /\ Fits(tail[n - 1], rest[n])
             /\ tail[n] = [tail[n - 1] EXCEPT ![rest[n].id] = Told(rest[n])]
  <2>1. n + 1 \in 1 .. m /\ n - 1 \in 0 .. m - 1 /\ n \in 0 .. m - 1
        /\ (n - 1) + 1 = n /\ (n + 1) - 1 = n
    BY <1>2
  <2>2. tail[n - 1] = path[n] /\ tail[n] = path[n + 1] /\ rest[n] = updates[n + 1]
    BY <1>2, <1>5, <2>1
  <2> QED BY <1>3, <2>1, <2>2
<1> HIDE DEF tail
<1>9. IsPath(tail, path[1], rest, t)
  BY <1>2, <1>6, <1>7, <1>8 DEF IsPath
<1> QED BY <1>4, <1>9 DEF Leads, rest

\* Updates about different objects lead from p to t if each says what t does of
\* an object, and p and t agree about the others.
LEMMA DistinctLead ==
    ASSUME NEW p \in Places, NEW t \in Places, NEW updates \in Seq(Updates),
           \A n, k \in 1 .. Len(updates) : updates[n].id = updates[k].id => n = k,
           \A n \in 1 .. Len(updates) : /\ Fits(p, updates[n])
                                        /\ Told(updates[n]) = t[updates[n].id],
           \A id \in Nat : p[id] = t[id] \/ \E n \in 1 .. Len(updates) : updates[n].id = id
    PROVE  Leads(p, updates, t)
<1> DEFINE m == Len(updates)
           done(n) == {updates[k].id : k \in 1 .. n}
           path == [n \in 0 .. m |-> [id \in Nat |-> IF id \in done(n) THEN t[id] ELSE p[id]]]
<1>1. m \in Nat /\ \A n \in 1 .. m : updates[n] \in Updates /\ updates[n].id \in Nat
  BY UpdateType
<1>2. path \in [0 .. m -> Places]
  <2> HIDE DEF done
  <2> QED BY DEF Places
<1>3. \A n \in 0 .. m : path[n] = [id \in Nat |-> IF id \in done(n) THEN t[id] ELSE p[id]]
  OBVIOUS
<1>4. path[0] = p
  <2>1. done(0) = {} /\ 0 \in 0 .. m
    BY <1>1
  <2>2. p = [id \in Nat |-> p[id]]
    BY DEF Places
  <2> HIDE DEF path, done
  <2> QED BY <1>3, <2>1, <2>2
<1>5. path[m] = t
  <2>1. m \in 0 .. m
    BY <1>1
  <2>2. t = [id \in Nat |-> t[id]]
    BY DEF Places
  <2>3. \A id \in Nat : id \notin done(m) => p[id] = t[id]
    OBVIOUS
  <2>4. \A id \in Nat : (IF id \in done(m) THEN t[id] ELSE p[id]) = t[id]
    BY <2>3
  <2>5. path[m] = [id \in Nat |-> IF id \in done(m) THEN t[id] ELSE p[id]]
    BY <1>3, <2>1
  <2> HIDE DEF path, done
  <2>6. path[m] = [id \in Nat |-> t[id]]
    BY <2>4, <2>5
  <2> QED BY <2>2, <2>6
<1>6. ASSUME NEW n \in 1 .. m
      PROVE  /\ Fits(path[n - 1], updates[n])
             /\ path[n] = [path[n - 1] EXCEPT ![updates[n].id] = Told(updates[n])]
  <2> DEFINE i == updates[n].id
  <2>1. n - 1 \in 0 .. m /\ n \in 0 .. m /\ i \in Nat
    BY <1>1
  <2>2. i \notin done(n - 1)
    <3>1. ASSUME NEW k \in 1 .. n - 1 PROVE updates[k].id # i
      BY <1>1
    <3> QED BY <3>1
  <2>3. done(n) = done(n - 1) \cup {i}
    <3>1. 1 .. n = (1 .. n - 1) \cup {n}
      BY <1>1
    <3> QED BY <3>1
  <2> HIDE DEF path, done, m, i
  <2>4. path[n - 1][i] = p[i]
    <3>1. path[n - 1] = [id \in Nat |-> IF id \in done(n - 1) THEN t[id] ELSE p[id]]
      BY <1>3, <2>1
    <3> QED BY <2>1, <2>2, <3>1
  <2>5. Fits(path[n - 1], updates[n])
    BY <2>4 DEF Fits, m, i
  <2>6. Told(updates[n]) = t[i]
    BY DEF m, i
  <2>7. path[n] = [id \in Nat |-> IF id \in done(n) THEN t[id] ELSE p[id]]
        /\ path[n - 1] = [id \in Nat |-> IF id \in done(n - 1) THEN t[id] ELSE p[id]]
    BY <1>3, <2>1
  <2>8. path[n] = [path[n - 1] EXCEPT ![i] = t[i]]
    BY <2>1, <2>3, <2>7
  <2> QED BY <2>5, <2>6, <2>8 DEF i
<1> HIDE DEF path
<1>7. IsPath(path, p, updates, t)
  BY <1>2, <1>4, <1>5, <1>6 DEF IsPath
<1> QED BY <1>7 DEF Leads

\* One report leads from the game that was reported last to the present one.
LEMMA DiffLeads ==
    ASSUME NEW g, Sound(g), NEW prev, Sound(prev)
    PROVE  Leads(PlacesOf(prev), diff(g, prev), PlacesOf(g))
<1> DEFINE new_or_moved == {i \in DOMAIN g.objects :
                               \/ i \notin DOMAIN prev.objects
                               \/ prev.objects[i].position # g.objects[i].position}
           gone == DOMAIN prev.objects \ DOMAIN g.objects
           first == InOrder(new_or_moved)
           second == InOrder(gone)
           told(i) == IF i \in DOMAIN prev.objects THEN Move(i, g.objects[i].position)
                                                   ELSE Create(i, g.objects[i].position)
           one == [n \in DOMAIN first |-> told(first[n])]
           two == [n \in DOMAIN second |-> Destroy(second[n])]
           p == PlacesOf(prev)
           t == PlacesOf(g)
           q == [id \in Nat |-> IF id \in gone THEN p[id] ELSE t[id]]
<1>1. diff(g, prev) = one \o two
  BY DEF diff, Mapped
<1>2. /\ new_or_moved \in SUBSET Nat /\ IsFiniteSet(new_or_moved)
      /\ gone \in SUBSET Nat /\ IsFiniteSet(gone)
  BY FS_Subset DEF Sound, Shape
<1>3. p \in Places /\ t \in Places /\ q \in Places
  <2>1. p \in Places /\ t \in Places
    BY PlacesType DEF Sound
  <2> HIDE DEF p, t, gone
  <2> QED BY <2>1 DEF Places
<1>4. \A id \in Nat : /\ p[id] = IF id \in DOMAIN prev.objects
                                  THEN prev.objects[id].position ELSE Null
                      /\ t[id] = IF id \in DOMAIN g.objects
                                  THEN g.objects[id].position ELSE Null
                      /\ q[id] = IF id \in gone THEN p[id] ELSE t[id]
  BY DEF PlacesOf
<1>5. /\ \A i \in DOMAIN g.objects : i \in Nat /\ g.objects[i].position \in Int
      /\ \A i \in DOMAIN prev.objects : i \in Nat /\ prev.objects[i].position \in Int
  BY DEF Sound, Shape, IsGame
<1>6. ASSUME NEW i \in new_or_moved
      PROVE  /\ told(i) \in Updates /\ told(i).id = i
             /\ Fits(p, told(i)) /\ Told(told(i)) = q[i]
  <2>1. i \in Nat /\ i \in DOMAIN g.objects /\ q[i] = g.objects[i].position
    BY <1>2, <1>4
  <2>2. told(i) \in Updates /\ told(i).id = i /\ Told(told(i)) = q[i]
    <3> HIDE DEF q
    <3> QED BY <1>5, <2>1 DEF Updates, Move, Create, Told
  <2>3. told(i).kind = "create" <=> i \notin DOMAIN prev.objects
    BY DEF Move, Create
  <2>4. p[i] = Null <=> i \notin DOMAIN prev.objects
    BY <1>4, <1>5, <2>1, PointerAssumption
  <2> QED BY <2>2, <2>3, <2>4 DEF Fits
<1>7. ASSUME NEW i \in gone
      PROVE  /\ Destroy(i) \in Updates /\ Destroy(i).id = i
             /\ Fits(q, Destroy(i)) /\ Told(Destroy(i)) = t[i]
  <2>1. i \in Nat /\ t[i] = Null /\ q[i] = prev.objects[i].position
    BY <1>2, <1>4
  <2>2. q[i] # Null
    BY <1>5, <2>1, PointerAssumption
  <2> HIDE DEF q, t
  <2> QED BY <2>1, <2>2 DEF Destroy, Updates, Fits, Told
<1>8. \A id \in Nat : id \notin new_or_moved => p[id] = q[id]
  BY <1>4
<1>9. \A id \in Nat : id \notin gone => q[id] = t[id]
  BY <1>4
<1> HIDE DEF new_or_moved, gone, told, p, q, t
<1>10. Leads(p, one, q)
  <2> DEFINE m == Len(first)
  <2>1. /\ m \in Nat /\ DOMAIN first = 1 .. m
        /\ \A n \in 1 .. m : first[n] \in new_or_moved
        /\ \A n, k \in 1 .. m : first[n] = first[k] => n = k
        /\ \A i \in new_or_moved : \E n \in 1 .. m : first[n] = i
    BY <1>2, InOrderOnce
  <2> HIDE DEF first, m
  <2>2. \A n \in 1 .. m : one[n] = told(first[n])
    BY <2>1
  <2>3. one \in Seq(Updates) /\ Len(one) = m
    <3>1. one \in [1 .. m -> Updates]
      BY <1>6, <2>1
    <3> QED BY <2>1, <3>1
  <2>4. \A n \in 1 .. m : /\ one[n].id = first[n]
                          /\ Fits(p, one[n]) /\ Told(one[n]) = q[first[n]]
    BY <1>6, <2>1, <2>2
  <2> HIDE DEF one
  <2>5. \A n, k \in 1 .. Len(one) : one[n].id = one[k].id => n = k
    BY <2>1, <2>3, <2>4
  <2>6. \A n \in 1 .. Len(one) : Fits(p, one[n]) /\ Told(one[n]) = q[one[n].id]
    BY <2>3, <2>4
  <2>7. \A id \in Nat : p[id] = q[id] \/ \E n \in 1 .. Len(one) : one[n].id = id
    BY <1>8, <2>1, <2>3, <2>4
  <2> QED BY <1>3, <2>3, <2>5, <2>6, <2>7, DistinctLead
<1>11. Leads(q, two, t)
  <2> DEFINE m == Len(second)
  <2>1. /\ m \in Nat /\ DOMAIN second = 1 .. m
        /\ \A n \in 1 .. m : second[n] \in gone
        /\ \A n, k \in 1 .. m : second[n] = second[k] => n = k
        /\ \A i \in gone : \E n \in 1 .. m : second[n] = i
    BY <1>2, InOrderOnce
  <2> HIDE DEF second, m
  <2>2. \A n \in 1 .. m : two[n] = Destroy(second[n])
    BY <2>1
  <2>3. two \in Seq(Updates) /\ Len(two) = m
    <3>1. two \in [1 .. m -> Updates]
      BY <1>7, <2>1
    <3> QED BY <2>1, <3>1
  <2>4. \A n \in 1 .. m : /\ two[n].id = second[n]
                          /\ Fits(q, two[n]) /\ Told(two[n]) = t[second[n]]
    BY <1>7, <2>1, <2>2
  <2> HIDE DEF two
  <2>5. \A n, k \in 1 .. Len(two) : two[n].id = two[k].id => n = k
    BY <2>1, <2>3, <2>4
  <2>6. \A n \in 1 .. Len(two) : Fits(q, two[n]) /\ Told(two[n]) = t[two[n].id]
    BY <2>3, <2>4
  <2>7. \A id \in Nat : q[id] = t[id] \/ \E n \in 1 .. Len(two) : two[n].id = id
    BY <1>9, <2>1, <2>3, <2>4
  <2> QED BY <1>3, <2>3, <2>5, <2>6, <2>7, DistinctLead
<1>12. one \in Seq(Updates) /\ two \in Seq(Updates)
  <2>1. /\ first \in Seq(new_or_moved) /\ second \in Seq(gone)
    BY <1>2, InOrderType
  <2>2. /\ Len(first) \in Nat /\ DOMAIN first = 1 .. Len(first)
        /\ \A n \in 1 .. Len(first) : first[n] \in new_or_moved
        /\ Len(second) \in Nat /\ DOMAIN second = 1 .. Len(second)
        /\ \A n \in 1 .. Len(second) : second[n] \in gone
    BY <2>1
  <2> HIDE DEF first, second
  <2>3. one \in [1 .. Len(first) -> Updates] /\ two \in [1 .. Len(second) -> Updates]
    BY <1>6, <1>7, <2>2
  <2> QED BY <2>2, <2>3
<1> HIDE DEF one, two
<1> QED BY <1>1, <1>10, <1>11, <1>12, PathsJoin DEF p, t

\* What places are told by: objects with a position, under numbers.
Placed(g) ==
    /\ g.objects = [i \in DOMAIN g.objects |->
                       [position |-> g.objects[i].position, player |-> g.objects[i].player]]
    /\ \A i \in DOMAIN g.objects : i \in Nat /\ g.objects[i].position \in Int

LEMMA ShapePlaced == ASSUME NEW g, Shape(g) PROVE Placed(g)
BY DEF Shape, IsGame, Placed

\* An update that fits changes the place of its object as it says, even where
\* the code would go on to index the grid out of bounds.
LEMMA ApplyPlaces ==
    ASSUME NEW g, Placed(g), NEW u \in Updates, Fits(PlacesOf(g), u)
    PROVE  /\ Placed(apply_update(g, u))
           /\ PlacesOf(apply_update(g, u)) = [PlacesOf(g) EXCEPT ![u.id] = Told(u)]
<1> DEFINE h == apply_update(g, u)
           id == u.id
<1>1. id \in Nat /\ (u.kind = "create" <=> id \notin DOMAIN g.objects)
  <2>1. id \in Nat
    BY UpdateType
  <2>2. PlacesOf(g)[id] = Null <=> id \notin DOMAIN g.objects
    BY <2>1, PointerAssumption DEF PlacesOf, Placed
  <2> QED BY <2>1, <2>2 DEF Fits
<1> DEFINE goal == /\ Placed(h)
                   /\ PlacesOf(h) = [PlacesOf(g) EXCEPT ![id] = Told(u)]
<1>2. ASSUME \A i \in Nat \ {id} :
                /\ i \in DOMAIN h.objects <=> i \in DOMAIN g.objects
                /\ i \in DOMAIN g.objects => h.objects[i].position = g.objects[i].position,
             (IF id \in DOMAIN h.objects THEN h.objects[id].position ELSE Null) = Told(u)
      PROVE  PlacesOf(h) = [PlacesOf(g) EXCEPT ![id] = Told(u)]
  <2> HIDE DEF h, id
  <2> QED BY <1>1, <1>2 DEF PlacesOf
<1>3. CASE u.kind = "create"
  <2> DEFINE new == [position |-> u.position, player |-> Null]
  <2>1. h.objects = With(g.objects, id, new)
    BY <1>3 DEF apply_update, add_object
  <2>2. u.position \in Int /\ Told(u) = u.position
    BY <1>3 DEF Updates, Told
  <2> HIDE DEF h, id
  <2>3. /\ DOMAIN h.objects = DOMAIN g.objects \cup {id}
        /\ \A i \in DOMAIN h.objects : h.objects[i] = IF i = id THEN new ELSE g.objects[i]
        /\ h.objects = [i \in DOMAIN h.objects |-> h.objects[i]]
    BY <2>1 DEF With
  <2>4. \A i \in DOMAIN h.objects :
           h.objects[i] = [position |-> h.objects[i].position, player |-> h.objects[i].player]
    BY <2>3 DEF Placed
  <2>5. Placed(h)
    BY <1>1, <2>2, <2>3, <2>4 DEF Placed
  <2> QED BY <1>2, <2>2, <2>3, <2>5 DEF h, id
<1>4. CASE u.kind = "position"
  <2> DEFINE row == u.position
  <2>1. h = move_object(g, id, row) /\ id \in DOMAIN g.objects
    BY <1>1, <1>4 DEF apply_update
  <2>2. row \in Int /\ Told(u) = row
    BY <1>4 DEF Updates, Told
  <2> HIDE DEF h, id, row
  <2>3. CASE row = g.objects[id].position
    <3>1. h = g
      BY <2>1, <2>3 DEF move_object
    <3> QED BY <1>2, <2>1, <2>2, <2>3, <3>1 DEF h, id
  <2>4. CASE row # g.objects[id].position
    <3>1. h.objects = [g.objects EXCEPT ![id].position = row]
      BY <2>1, <2>4 DEF move_object
    <3>2. [g.objects[id] EXCEPT !.position = row]
             = [position |-> row, player |-> g.objects[id].player]
      <4> DEFINE object == g.objects[id]
      <4>1. object = [position |-> object.position, player |-> object.player]
        BY <2>1 DEF Placed
      <4> HIDE DEF object
      <4>2. [object EXCEPT !.position = row] = [position |-> row, player |-> object.player]
        BY <4>1
      <4> QED BY <4>2 DEF object
    <3>3. g.objects = [i \in DOMAIN g.objects |-> g.objects[i]]
      BY DEF Placed
    <3>4. h.objects = [i \in DOMAIN g.objects |->
                          IF i = id THEN [position |-> row, player |-> g.objects[id].player]
                                    ELSE g.objects[i]]
      BY <3>1, <3>2, <3>3
    <3>5. /\ DOMAIN h.objects = DOMAIN g.objects
          /\ \A i \in DOMAIN g.objects :
                h.objects[i] = IF i = id THEN [position |-> row, player |-> g.objects[id].player]
                                         ELSE g.objects[i]
          /\ h.objects = [i \in DOMAIN h.objects |-> h.objects[i]]
      BY <3>4
    <3>6. \A i \in DOMAIN h.objects :
             h.objects[i] = [position |-> h.objects[i].position, player |-> h.objects[i].player]
      BY <3>5 DEF Placed
    <3>7. Placed(h)
      BY <2>2, <3>5, <3>6 DEF Placed
    <3> QED BY <1>2, <2>1, <2>2, <3>5, <3>7 DEF h, id
  <2> QED BY <2>3, <2>4 DEF h, id
<1>5. CASE u.kind = "destroy"
  <2>1. h.objects = Without(g.objects, id)
    BY <1>5 DEF apply_update, remove_object
  <2>2. Told(u) = Null
    BY <1>5 DEF Told
  <2> HIDE DEF h, id
  <2>3. /\ DOMAIN h.objects = DOMAIN g.objects \ {id}
        /\ \A i \in DOMAIN h.objects : h.objects[i] = g.objects[i]
        /\ h.objects = [i \in DOMAIN h.objects |-> h.objects[i]]
    BY <2>1 DEF Without
  <2>4. \A i \in DOMAIN h.objects :
           h.objects[i] = [position |-> h.objects[i].position, player |-> h.objects[i].player]
    BY <2>3 DEF Placed
  <2>5. Placed(h)
    BY <2>3, <2>4 DEF Placed
  <2> QED BY <1>2, <2>2, <2>3, <2>5 DEF h, id
<1>6. u.kind \in {"create", "position", "destroy"}
  BY DEF Updates
<1> QED BY <1>3, <1>4, <1>5, <1>6

\* The games on the way through the updates: a recursive function, which exists
\* because it does up to every number of updates.
After(g, updates) ==
    CHOOSE after :
        after = [n \in 0 .. Len(updates) |->
                    IF n = 0 THEN g ELSE apply_update(after[n - 1], updates[n])]

LEMMA AfterEachUpdate ==
    ASSUME NEW g, NEW updates \in Seq(Updates)
    PROVE  /\ After(g, updates)[0] = g
           /\ \A n \in 1 .. Len(updates) :
                 After(g, updates)[n] = apply_update(After(g, updates)[n - 1], updates[n])
<1> DEFINE m == Len(updates)
           IsAfter(after, k) ==
               after = [n \in 0 .. k |->
                           IF n = 0 THEN g ELSE apply_update(after[n - 1], updates[n])]
           S == {k \in 0 .. m : \E after : IsAfter(after, k)}
<1>1. m \in Nat
  OBVIOUS
<1> HIDE DEF m
<1>2. 0 \in S
  <2> DEFINE after == [n \in {0} |-> g]
  <2>1. IsAfter(after, 0)
    OBVIOUS
  <2> HIDE DEF after
  <2>2. \E a : IsAfter(a, 0)
    BY <2>1
  <2> HIDE DEF IsAfter
  <2> QED BY <1>1, <2>2
<1>3. ASSUME NEW k \in 1 .. m, k - 1 \in S PROVE k \in S
  <2>1. PICK f : IsAfter(f, k - 1)
    BY <1>3
  <2> DEFINE after == [n \in 0 .. k |->
                          IF n = k THEN apply_update(f[k - 1], updates[k]) ELSE f[n]]
  <2>2. k \in 0 .. m /\ k \in Nat \ {0}
    BY <1>1
  <2>3. ASSUME NEW n \in 0 .. k
        PROVE  after[n] = IF n = 0 THEN g ELSE apply_update(after[n - 1], updates[n])
    <3>1. CASE n = k
      <4>1. after[n - 1] = f[k - 1]
        BY <2>2, <3>1
      <4> QED BY <2>2, <3>1, <4>1
    <3>2. CASE n # k
      <4>1. n \in 0 .. k - 1 /\ after[n] = f[n]
        BY <2>2, <3>2
      <4>2. n # 0 => n - 1 \in 0 .. k /\ n - 1 # k
        BY <2>2
      <4>3. n # 0 => after[n - 1] = f[n - 1]
        BY <4>2
      <4>4. f[n] = IF n = 0 THEN g ELSE apply_update(f[n - 1], updates[n])
        BY <2>1, <4>1
      <4> HIDE DEF after
      <4> QED BY <4>1, <4>3, <4>4
    <3> QED BY <3>1, <3>2
  <2>4. after = [n \in 0 .. k |-> after[n]]
    OBVIOUS
  <2> HIDE DEF after
  <2>5. IsAfter(after, k)
    BY <2>3, <2>4
  <2> QED BY <2>2, <2>5
<1>4. m \in S
  <2> HIDE DEF S
  <2>1. \A n \in 1 .. m : n - 1 \in S => n \in S
    BY <1>3
  <2> QED BY <1>1, <1>2, <2>1, UpTo
<1>5. \E after : IsAfter(after, m)
  BY <1>4
<1>6. IsAfter(After(g, updates), m)
  BY <1>5 DEF After, m
<1> DEFINE f == After(g, updates)
<1>7. f = [n \in 0 .. m |-> IF n = 0 THEN g ELSE apply_update(f[n - 1], updates[n])]
  BY <1>6
<1> HIDE DEF f
<1>8. f[0] = g /\ \A n \in 1 .. m : f[n] = apply_update(f[n - 1], updates[n])
  BY <1>1, <1>7
<1> QED BY <1>8 DEF f, m

\* Where updates lead, the game leads that applies them all.
LEMMA ReplayLeads ==
    ASSUME NEW g, Placed(g), NEW updates \in Seq(Updates), NEW t,
           Leads(PlacesOf(g), updates, t)
    PROVE  Placed(Replayed(g, updates)) /\ PlacesOf(Replayed(g, updates)) = t
<1> DEFINE m == Len(updates)
           f == After(g, updates)
<1>1. PICK path : IsPath(path, PlacesOf(g), updates, t)
  BY DEF Leads
<1> DEFINE S == {n \in 0 .. m : Placed(f[n]) /\ PlacesOf(f[n]) = path[n]}
<1>2. m \in Nat /\ \A n \in 1 .. m : updates[n] \in Updates
  OBVIOUS
<1>3. /\ path[0] = PlacesOf(g) /\ path[m] = t
      /\ \A n \in 1 .. m :
            /\ Fits(path[n - 1], updates[n])
            /\ path[n] = [path[n - 1] EXCEPT ![updates[n].id] = Told(updates[n])]
  BY <1>1 DEF IsPath
<1>4. f[0] = g /\ \A n \in 1 .. m : f[n] = apply_update(f[n - 1], updates[n])
  BY AfterEachUpdate
<1>5. Replayed(g, updates) = f[m]
  BY DEF Replayed, After
<1> HIDE DEF m, f
<1>6. 0 \in S
  BY <1>2, <1>3, <1>4
<1>7. ASSUME NEW n \in 1 .. m, n - 1 \in S PROVE n \in S
  <2>1. Placed(f[n - 1]) /\ PlacesOf(f[n - 1]) = path[n - 1]
    BY <1>7
  <2>2. Fits(PlacesOf(f[n - 1]), updates[n])
    BY <1>3, <2>1
  <2> DEFINE u == updates[n]
             before == f[n - 1]
  <2>3. u \in Updates /\ f[n] = apply_update(before, u)
        /\ path[n] = [PlacesOf(before) EXCEPT ![u.id] = Told(u)]
    BY <1>2, <1>3, <1>4, <2>1
  <2>4. Placed(before) /\ Fits(PlacesOf(before), u)
    BY <2>1, <2>2
  <2> HIDE DEF u, before
  <2>5. Placed(f[n]) /\ PlacesOf(f[n]) = path[n]
    BY <2>3, <2>4, ApplyPlaces
  <2>6. n \in 0 .. m
    BY <1>2
  <2> QED BY <2>5, <2>6
<1>8. m \in S
  <2> HIDE DEF S
  <2>1. \A n \in 1 .. m : n - 1 \in S => n \in S
    BY <1>7
  <2> QED BY <1>2, <1>6, <2>1, UpTo
<1> QED BY <1>3, <1>5, <1>8

LEMMA SamePositions ==
    ASSUME NEW g, Placed(g), NEW h, Placed(h), PlacesOf(g) = PlacesOf(h)
    PROVE  Positions(g) = Positions(h)
<1>1. ASSUME NEW i \in Nat
      PROVE  /\ i \in DOMAIN g.objects <=> i \in DOMAIN h.objects
             /\ i \in DOMAIN g.objects => g.objects[i].position = h.objects[i].position
  <2>1. PlacesOf(g)[i] = PlacesOf(h)[i]
    OBVIOUS
  <2> QED BY <2>1, PointerAssumption DEF PlacesOf, Placed
<1>2. DOMAIN g.objects = DOMAIN h.objects
  BY <1>1 DEF Placed
<1> QED BY <1>1, <1>2 DEF Positions, Placed

LEMMA SamePlaces ==
    ASSUME NEW g, NEW h, DOMAIN h.objects = DOMAIN g.objects,
           \A i \in DOMAIN g.objects : h.objects[i].position = g.objects[i].position
    PROVE  PlacesOf(h) = PlacesOf(g)
BY DEF PlacesOf

LEMMA CopyPlaces == ASSUME NEW g, Sound(g) PROVE PlacesOf(copy(g)) = PlacesOf(g)
<1> DEFINE h == copy(g)
           otherwise == [i \in DOMAIN g.objects |->
                            IF g.objects[i].player = Null THEN Null ELSE Dangling]
<1>1. h.objects = Linked(g, otherwise)
  BY DEF copy, Sound, Shape
<1>2. otherwise \in [DOMAIN g.objects -> Pointers]
  BY DEF Pointers
<1> HIDE DEF h, otherwise
<1>3. DOMAIN h.objects = DOMAIN g.objects
      /\ \A i \in DOMAIN g.objects : h.objects[i].position = g.objects[i].position
  BY <1>1 DEF Linked
<1> QED BY <1>3, SamePlaces DEF h

LEMMA RebuiltPlaces == ASSUME NEW g, Sound(g) PROVE PlacesOf(rebuilt(g)) = PlacesOf(g)
<1> DEFINE h == rebuilt(g)
<1>1. h.objects = Linked(g, [i \in DOMAIN g.objects |-> Null])
  BY DEF rebuilt
<1> HIDE DEF h
<1>2. DOMAIN h.objects = DOMAIN g.objects
      /\ \A i \in DOMAIN g.objects : h.objects[i].position = g.objects[i].position
  BY <1>1 DEF Linked
<1> QED BY <1>2, SamePlaces DEF h

\* Between any two games with whole grids, applying what diff(g, prev) reports
\* to prev, in its order, gives prev the objects and positions of g: diff
\* leaves out nothing and apply_update makes of it what diff meant.
THEOREM DiffIsComplete ==
    ASSUME NEW g, Sound(g), NEW prev, Sound(prev)
    PROVE  Positions(Replayed(prev, diff(g, prev))) = Positions(g)
<1> DEFINE updates == diff(g, prev)
           h == Replayed(prev, updates)
<1>1. Placed(g) /\ Placed(prev)
  BY ShapePlaced DEF Sound
<1>2. updates \in Seq(Updates) /\ Leads(PlacesOf(prev), updates, PlacesOf(g))
  BY DiffType, DiffLeads
<1> HIDE DEF updates
<1>3. Placed(h) /\ PlacesOf(h) = PlacesOf(g)
  BY <1>1, <1>2, ReplayLeads
<1> HIDE DEF h
<1>4. Positions(h) = Positions(g)
  BY <1>1, <1>3, SamePositions
<1> QED BY <1>4 DEF h, updates

\* Where players and objects point at each other, the copy constructor and
\* construction from serialized() give the very same game: rebuilding the
\* pointers from the players, and the grid from the positions, loses nothing.
THEOREM CopiesAreExact ==
    ASSUME NEW g, Sound(g), LinksAgree(g)
    PROVE  copy(g) = g /\ rebuilt(g) = g
<1>1. ASSUME NEW otherwise \in [DOMAIN g.objects -> Pointers],
             \A i \in DOMAIN g.objects : g.objects[i].player = Null => otherwise[i] = Null
      PROVE  Linked(g, otherwise) = g.objects
  <2> DEFINE objects == Linked(g, otherwise)
  <2>1. /\ objects = [i \in DOMAIN g.objects |->
                        [position |-> g.objects[i].position, player |-> objects[i].player]]
        /\ \A i \in DOMAIN g.objects : objects[i].player = g.objects[i].player
    BY <1>1, LinkedPlayers
  <2> HIDE DEF objects
  <2>2. g.objects = [i \in DOMAIN g.objects |->
                       [position |-> g.objects[i].position, player |-> g.objects[i].player]]
    BY DEF Sound, Shape
  <2>3. objects = [i \in DOMAIN g.objects |->
                     [position |-> g.objects[i].position, player |-> g.objects[i].player]]
    BY <2>1
  <2> QED BY <2>2, <2>3 DEF objects
<1>2. g = [players |-> g.players, objects |-> g.objects, grid |-> g.grid]
  BY DEF Sound, Shape
<1>3. copy(g) = g
  <2> DEFINE otherwise == [i \in DOMAIN g.objects |->
                              IF g.objects[i].player = Null THEN Null ELSE Dangling]
  <2>1. /\ otherwise \in [DOMAIN g.objects -> Pointers]
        /\ \A i \in DOMAIN g.objects : g.objects[i].player = Null => otherwise[i] = Null
    BY DEF Pointers
  <2>2. copy(g) = [g EXCEPT !.objects = Linked(g, otherwise)]
    BY DEF copy
  <2> HIDE DEF otherwise
  <2>3. copy(g) = [g EXCEPT !.objects = g.objects]
    BY <1>1, <2>1, <2>2
  <2> QED BY <1>2, <2>3
<1>4. rebuilt(g) = g
  <2> DEFINE otherwise == [i \in DOMAIN g.objects |-> Null]
             grid == [c \in Cells |-> {i \in DOMAIN g.objects : g.objects[i].position = c}]
  <2>1. /\ otherwise \in [DOMAIN g.objects -> Pointers]
        /\ \A i \in DOMAIN g.objects : g.objects[i].player = Null => otherwise[i] = Null
    BY DEF Pointers
  <2>2. rebuilt(g) = [players |-> g.players, objects |-> Linked(g, otherwise), grid |-> grid]
    BY DEF rebuilt
  <2>3. grid = g.grid
    <3>1. g.grid = [c \in Cells |-> g.grid[c]]
      BY DEF Sound, Shape
    <3>2. \A c \in Cells : g.grid[c] = {i \in DOMAIN g.objects : g.objects[i].position = c}
      BY DEF Sound, GridFindsObjects
    <3> QED BY <3>1, <3>2
  <2> HIDE DEF otherwise, grid
  <2>4. Linked(g, otherwise) = g.objects
    BY <1>1, <2>1
  <2> QED BY <1>2, <2>2, <2>3, <2>4
<1> QED BY <1>3, <1>4

-----------------------------------------------------------------------------
(* What the client follows.                                                *)

\* From the client's game the updates it has not applied lead to what the
\* server reported last, each finding its object or finding it missing as it
\* expects.  There are none before the client joins.
FollowInv ==
    /\ Leads(PlacesOf(m_game_state), taken \o m_update_queue, PlacesOf(base))
    /\ ~joined => taken = <<>> /\ m_update_queue = <<>>
    /\ fault # "throw"

LEMMA InitFollows == Init => FollowInv
<1> SUFFICES ASSUME Init PROVE FollowInv
  OBVIOUS
<1>1. PlacesOf(NewGame) \in Places
  BY NewGameSound, PlacesType DEF Sound
<1>2. taken \o m_update_queue = <<>>
  BY DEF Init
<1>3. Leads(PlacesOf(NewGame), <<>>, PlacesOf(NewGame))
  BY <1>1, NoUpdates
<1> QED BY <1>2, <1>3 DEF Init, FollowInv

LEMMA FaultFollows ==
    ASSUME FollowInv, NEW kind, kind # "throw", Fault(kind)
    PROVE  FollowInv'
BY DEF FollowInv, Fault, clientVars

LEMMA ServerFollows ==
    ASSUME FollowInv, UNCHANGED <<base, clientVars, fault>>
    PROVE  FollowInv'
BY DEF FollowInv, clientVars

LEMMA JoinFollows ==
    ASSUME GamesInv, FollowInv, Join
    PROVE  FollowInv'
<1>1. CASE UndefinedRebuilt(game) \/ UndefinedCopy(game)
  <2>1. Fault("pointer") \/ Fault("grid") \/ Fault("copy")
    BY <1>1 DEF Join
  <2> QED BY <2>1, FaultFollows
<1>2. CASE ~UndefinedRebuilt(game) /\ ~UndefinedCopy(game)
  <2>1. /\ base' = copy(game) /\ m_game_state' = rebuilt(game) /\ ~joined
        /\ taken' = taken /\ m_update_queue' = m_update_queue /\ fault' = fault /\ joined'
    BY <1>2 DEF Join
  <2>2. PlacesOf(base)' = PlacesOf(game) /\ PlacesOf(m_game_state)' = PlacesOf(game)
    BY <2>1, CopyPlaces, RebuiltPlaces DEF GamesInv
  <2>3. PlacesOf(game) \in Places
    BY PlacesType DEF GamesInv, Sound
  <2>4. Leads(PlacesOf(game), <<>>, PlacesOf(game))
    BY <2>3, NoUpdates
  <2>5. taken' \o m_update_queue' = <<>>
    BY <2>1 DEF FollowInv
  <2> QED BY <2>1, <2>2, <2>4, <2>5 DEF FollowInv
<1> QED BY <1>1, <1>2

LEMMA ReportFollows ==
    ASSUME GamesInv, FollowInv, Report
    PROVE  FollowInv'
<1>1. CASE UndefinedCopy(game)
  <2>1. Fault("copy")
    BY <1>1 DEF Report, enqueue_updates
  <2> QED BY <2>1, FaultFollows
<1>2. CASE ~UndefinedCopy(game)
  <2> DEFINE updates == diff(game, base)
             pending == taken \o m_update_queue
  <2>1. /\ base' = copy(game) /\ m_update_queue' = m_update_queue \o updates /\ joined
        /\ m_game_state' = m_game_state /\ taken' = taken /\ fault' = fault /\ joined' = joined
    BY <1>2 DEF Report, enqueue_updates
  <2>2. PlacesOf(base)' = PlacesOf(game)
    BY <2>1, CopyPlaces DEF GamesInv
  <2>3. updates \in Seq(Updates) /\ pending \in Seq(Updates)
    BY DiffType DEF GamesInv
  <2>4. Leads(PlacesOf(base), updates, PlacesOf(game))
    BY DiffLeads DEF GamesInv
  <2>5. taken \o (m_update_queue \o updates) = pending \o updates
    <3> HIDE DEF updates
    <3>1. taken \in Seq(Updates) /\ m_update_queue \in Seq(Updates) /\ updates \in Seq(Updates)
      BY <2>3 DEF GamesInv
    <3> QED BY <3>1
  <2> HIDE DEF updates, pending
  <2>6. Leads(PlacesOf(m_game_state), pending, PlacesOf(base))
    BY DEF FollowInv, pending
  <2>7. Leads(PlacesOf(m_game_state), pending \o updates, PlacesOf(game))
    BY <2>3, <2>4, <2>6, PathsJoin
  <2> QED BY <2>1, <2>2, <2>5, <2>7 DEF FollowInv
<1> QED BY <1>1, <1>2

LEMMA DequeueFollows ==
    ASSUME GamesInv, FollowInv, Dequeue
    PROVE  FollowInv'
<1>1. taken = <<>> /\ taken' = m_update_queue /\ m_update_queue' = <<>>
      /\ UNCHANGED <<base, m_game_state, joined, fault>>
  BY DEF Dequeue
<1>2. taken' \o m_update_queue' = taken \o m_update_queue
  BY <1>1 DEF GamesInv
<1>3. joined
  BY DEF FollowInv, Dequeue
<1> QED BY <1>1, <1>2, <1>3 DEF FollowInv

\* The next update never throws, and the others lead on from where it leads.
LEMMA NextUpdateFits ==
    ASSUME GamesInv, FollowInv, taken # <<>>
    PROVE  /\ Head(taken) \in Updates /\ Tail(taken) \in Seq(Updates)
           /\ Fits(PlacesOf(m_game_state), Head(taken))
           /\ ~ThrowsUpdate(m_game_state, Head(taken))
           /\ Leads([PlacesOf(m_game_state) EXCEPT ![Head(taken).id] = Told(Head(taken))],
                    Tail(taken) \o m_update_queue, PlacesOf(base))
<1> DEFINE u == Head(taken)
           pending == taken \o m_update_queue
           p == PlacesOf(m_game_state)
<1>1. u \in Updates /\ Tail(taken) \in Seq(Updates)
  BY DEF GamesInv
<1>2. /\ pending \in Seq(Updates) /\ pending # <<>> /\ Head(pending) = u
      /\ Tail(pending) = Tail(taken) \o m_update_queue
  BY DEF GamesInv
<1>3. Leads(p, pending, PlacesOf(base))
  BY DEF FollowInv
<1> HIDE DEF u, pending, p
<1>4. Fits(p, u) /\ Leads([p EXCEPT ![u.id] = Told(u)], Tail(pending), PlacesOf(base))
  BY <1>2, <1>3, PathGoesOn
<1>5. p[u.id] = Null <=> u.id \notin DOMAIN m_game_state.objects
  <2>1. u.id \in Nat
    BY <1>1, UpdateType
  <2> QED BY <2>1, PointerAssumption DEF PlacesOf, GamesInv, Sound, Shape, IsGame, p
<1>6. ~ThrowsUpdate(m_game_state, u)
  BY <1>4, <1>5 DEF Fits, ThrowsUpdate, ThrowsAddObject
<1> QED BY <1>1, <1>2, <1>4, <1>6 DEF u, p

LEMMA ApplyUpdateFollows ==
    ASSUME GamesInv, FollowInv, ApplyUpdate
    PROVE  FollowInv'
<1> DEFINE u == Head(taken)
<1>1. /\ u \in Updates /\ Fits(PlacesOf(m_game_state), u) /\ ~ThrowsUpdate(m_game_state, u)
      /\ Leads([PlacesOf(m_game_state) EXCEPT ![u.id] = Told(u)],
               Tail(taken) \o m_update_queue, PlacesOf(base))
  BY NextUpdateFits DEF ApplyUpdate
<1>2. CASE UndefinedUpdate(m_game_state, u)
  <2>1. Fault("grid")
    BY <1>1, <1>2 DEF ApplyUpdate
  <2> QED BY <2>1, FaultFollows
<1>3. CASE ~UndefinedUpdate(m_game_state, u)
  <2>1. /\ m_game_state' = apply_update(m_game_state, u) /\ taken' = Tail(taken)
        /\ UNCHANGED <<base, m_update_queue, joined, fault>>
    BY <1>1, <1>3 DEF ApplyUpdate
  <2>2. joined
    BY DEF FollowInv, ApplyUpdate
  <2>3. Placed(m_game_state)
    BY ShapePlaced DEF GamesInv, Sound
  <2> HIDE DEF u
  <2>4. PlacesOf(apply_update(m_game_state, u)) = [PlacesOf(m_game_state) EXCEPT ![u.id] = Told(u)]
    BY <1>1, <2>3, ApplyPlaces
  <2> QED BY <1>1, <2>1, <2>2, <2>4 DEF FollowInv
<1> QED BY <1>2, <1>3

LEMMA NextFollows == GamesInv /\ FollowInv /\ [Next]_vars => FollowInv'
<1> SUFFICES ASSUME GamesInv, FollowInv, [Next]_vars PROVE FollowInv'
  OBVIOUS
<1>1. CASE UNCHANGED <<base, clientVars, fault>>
  BY <1>1, ServerFollows
<1>2. ASSUME NEW kind \in {"pointer", "grid"}, Fault(kind) PROVE FollowInv'
  BY <1>2, FaultFollows
<1>3. CASE Join \/ Report \/ Dequeue \/ ApplyUpdate
  BY <1>3, JoinFollows, ReportFollows, DequeueFollows, ApplyUpdateFollows
<1>4. ASSUME NEW p \in PlayerIds,
             \/ Adds(p) \/ RemovePlayer(p) \/ DoActionMoveUp(p)
             \/ \E o \in DOMAIN game.objects \cup {Null} : SetPlayerObject(p, o)
      PROVE  UNCHANGED <<base, clientVars, fault>> \/ Fault("pointer")
  BY <1>4 DEF Adds, AddPlayer, RemovePlayer, DoActionMoveUp, SetPlayerObject, Server
<1>5. ASSUME NEW row \in Rows, AddObject(row)
      PROVE  UNCHANGED <<base, clientVars, fault>> \/ Fault("grid")
  BY <1>5 DEF AddObject
<1>6. ASSUME NEW id \in DOMAIN game.objects,
             RemoveObject(id) \/ \E row \in Rows : MoveObject(id, row)
      PROVE  UNCHANGED <<base, clientVars, fault>> \/ Fault("pointer") \/ Fault("grid")
  BY <1>6 DEF RemoveObject, MoveObject, Server
<1>7. CASE UNCHANGED vars
  BY <1>1, <1>7 DEF vars
<1> QED BY <1>1, <1>2, <1>3, <1>4, <1>5, <1>6, <1>7 DEF Next, Adds

\* The invariant holds for any number of reports and updates.
THEOREM Follows == Spec => []FollowInv
BY InitFollows, NextFollows, GamesSound, PTL DEF Spec

\* What the client has plus what it has not applied is what the server
\* reported last, for any games and any number of reports and updates.
THEOREM ClientConverges == Spec => []ClientFollows
<1>1. GamesInv /\ FollowInv => ClientFollows
  <2> SUFFICES ASSUME GamesInv, FollowInv
               PROVE  Positions(Replayed(m_game_state, taken \o m_update_queue)) = Positions(base)
    BY DEF ClientFollows
  <2> DEFINE pending == taken \o m_update_queue
  <2>1. Placed(m_game_state) /\ Placed(base)
    BY ShapePlaced DEF GamesInv, Sound
  <2>2. pending \in Seq(Updates) /\ Leads(PlacesOf(m_game_state), pending, PlacesOf(base))
    BY DEF GamesInv, FollowInv
  <2> HIDE DEF pending
  <2>3. /\ Placed(Replayed(m_game_state, pending))
        /\ PlacesOf(Replayed(m_game_state, pending)) = PlacesOf(base)
    BY <2>1, <2>2, ReplayLeads
  <2>4. Positions(Replayed(m_game_state, pending)) = Positions(base)
    BY <2>1, <2>3, SamePositions
  <2> QED BY <2>4 DEF pending
<1> QED BY <1>1, GamesSound, Follows, PTL

\* apply_update never finds an object missing, or already there: whatever was
\* reported, none of the updates a client has taken is left unapplied.
THEOREM NoUpdateThrows == Spec => []UpdatesNeverThrow
<1>1. FollowInv => UpdatesNeverThrow
  BY DEF FollowInv, UpdatesNeverThrow
<1> QED BY <1>1, Follows, PTL

-----------------------------------------------------------------------------
(* A server that tests what the functions do not.                          *)

\* Every object is inside the grid.
OnGrid(p) == \A id \in Nat : p[id] \in Cells \cup {Null}

LEMMA InBounds ==
    ASSUME NEW g, Sound(g), OnGrid(PlacesOf(g)), NEW i \in DOMAIN g.objects
    PROVE  i \in Nat /\ g.objects[i].position \in Cells
BY PointerAssumption DEF Sound, Shape, IsGame, OnGrid, PlacesOf

LEMMA NewPlace ==
    ASSUME NEW p \in Places, OnGrid(p), NEW id, NEW place \in Cells \cup {Null}
    PROVE  OnGrid([p EXCEPT ![id] = place])
BY DEF Places, OnGrid

\* An update to the grid that fits leaves the objects inside the grid.
LEMMA UpdateOnGrid ==
    ASSUME NEW g, Sound(g), OnGrid(PlacesOf(g)),
           NEW u \in UpdatesTo(Cells), Fits(PlacesOf(g), u)
    PROVE  OnGrid(PlacesOf(apply_update(g, u)))
<1>1. u \in Updates /\ Told(u) \in Cells \cup {Null}
  BY HeightAssumption DEF UpdatesTo, Updates, Told, Cells
<1>2. Placed(g) /\ PlacesOf(g) \in Places
  BY ShapePlaced, PlacesType DEF Sound
<1>3. \A v \in Updates : Fits(PlacesOf(g), v) =>
         PlacesOf(apply_update(g, v)) = [PlacesOf(g) EXCEPT ![v.id] = Told(v)]
  BY <1>2, ApplyPlaces
<1>4. PlacesOf(apply_update(g, u)) = [PlacesOf(g) EXCEPT ![u.id] = Told(u)]
  BY <1>1, <1>3
<1>5. \A place \in Cells \cup {Null} : OnGrid([PlacesOf(g) EXCEPT ![u.id] = place])
  BY <1>2, NewPlace
<1>6. OnGrid([PlacesOf(g) EXCEPT ![u.id] = Told(u)])
  BY <1>1, <1>5
<1> QED BY <1>4, <1>6

\* The calls that move or remove objects do what the updates do.
LEMMA CallsOnGrid ==
    ASSUME NEW g, Sound(g), OnGrid(PlacesOf(g)), NEW row \in Cells
    PROVE  /\ \A id \in Nat : id \notin DOMAIN g.objects
                                 => OnGrid(PlacesOf(add_object(g, id, row)))
           /\ \A id \in DOMAIN g.objects : OnGrid(PlacesOf(move_object(g, id, row)))
<1>1. ASSUME NEW id \in Nat, id \notin DOMAIN g.objects
      PROVE  OnGrid(PlacesOf(add_object(g, id, row)))
  <2>1. Create(id, row) \in UpdatesTo(Cells)
    BY DEF UpdatesTo, Create
  <2>2. Fits(PlacesOf(g), Create(id, row))
    BY <1>1 DEF Fits, PlacesOf, Create
  <2>3. apply_update(g, Create(id, row)) = add_object(g, id, row)
    BY DEF apply_update, Create
  <2> QED BY <2>1, <2>2, <2>3, UpdateOnGrid
<1>2. ASSUME NEW id \in DOMAIN g.objects
      PROVE  OnGrid(PlacesOf(move_object(g, id, row)))
  <2>1. id \in Nat /\ g.objects[id].position \in Int
    BY DEF Sound, Shape, IsGame
  <2>2. Move(id, row) \in UpdatesTo(Cells)
    BY <2>1 DEF UpdatesTo, Move
  <2>3. PlacesOf(g)[id] # Null
    BY <2>1, PointerAssumption DEF PlacesOf
  <2>4. Fits(PlacesOf(g), Move(id, row))
    BY <2>3 DEF Fits, Move
  <2>5. apply_update(g, Move(id, row)) = move_object(g, id, row)
    BY DEF apply_update, Move
  <2> QED BY <2>2, <2>4, <2>5, UpdateOnGrid
<1> QED BY <1>1, <1>2

LEMMA RemoveOnGrid ==
    ASSUME NEW g, Sound(g), OnGrid(PlacesOf(g)), NEW id \in DOMAIN g.objects
    PROVE  OnGrid(PlacesOf(remove_object(g, id)))
<1> DEFINE h == remove_object(g, id)
<1>1. h.objects = Without(g.objects, id)
  BY DEF remove_object
<1> HIDE DEF h
<1>2. DOMAIN h.objects \subseteq DOMAIN g.objects
      /\ \A i \in DOMAIN h.objects : h.objects[i] = g.objects[i]
  BY <1>1 DEF Without
<1>3. \A i \in DOMAIN g.objects : g.objects[i].position \in Cells
  BY InBounds
<1> QED BY <1>2, <1>3 DEF OnGrid, PlacesOf, h

\* The calls for players leave the objects where they are.
LEMMA PlayerPlaces ==
    ASSUME NEW g, Sound(g), NEW p
    PROVE  /\ \A o : PlacesOf(add_player(g, p, o)) = PlacesOf(g)
           /\ PlacesOf(remove_player(g, p)) = PlacesOf(g)
           /\ \A o : PlacesOf(set_player_object(g, p, o)) = PlacesOf(g)
<1>1. ASSUME NEW o
      PROVE  /\ DOMAIN add_player(g, p, o).objects = DOMAIN g.objects
             /\ \A i \in DOMAIN g.objects :
                   add_player(g, p, o).objects[i].position = g.objects[i].position
  <2>1. ASSUME NEW i \in DOMAIN g.objects
        PROVE  [g.objects[i] EXCEPT !.player = p].position = g.objects[i].position
    BY DEF Sound, Shape
  <2> QED BY <2>1 DEF add_player
<1>2. /\ DOMAIN remove_player(g, p).objects = DOMAIN g.objects
      /\ \A i \in DOMAIN g.objects :
            remove_player(g, p).objects[i].position = g.objects[i].position
  <2> DEFINE left(object) == IF object.player = p THEN [object EXCEPT !.player = Dangling]
                                                  ELSE object
  <2>1. remove_player(g, p).objects = [i \in DOMAIN g.objects |-> left(g.objects[i])]
    BY DEF remove_player
  <2>2. ASSUME NEW i \in DOMAIN g.objects PROVE left(g.objects[i]).position = g.objects[i].position
    <3>1. g.objects[i] = [position |-> g.objects[i].position, player |-> g.objects[i].player]
      BY DEF Sound, Shape
    <3> QED BY <3>1
  <2> HIDE DEF left
  <2> QED BY <2>1, <2>2
<1>3. ASSUME NEW o
      PROVE  /\ DOMAIN set_player_object(g, p, o).objects = DOMAIN g.objects
             /\ \A i \in DOMAIN g.objects :
                   set_player_object(g, p, o).objects[i].position = g.objects[i].position
  BY DEF set_player_object
<1> QED BY <1>1, <1>2, <1>3, SamePlaces

\* Objects are inside the grid, and no pending update puts one outside of it.
\* The rows of base do not matter.
SafeInv ==
    Careful =>
        /\ fault = "none"
        /\ OnGrid(PlacesOf(game)) /\ OnGrid(PlacesOf(m_game_state))
        /\ m_update_queue \in Seq(UpdatesTo(Cells))
        /\ taken \in Seq(UpdatesTo(Cells))

LEMMA ServerSafe ==
    ASSUME SafeInv, NEW g, Server(g), Careful => OnGrid(PlacesOf(g))
    PROVE  SafeInv'
BY DEF SafeInv, Server, clientVars

LEMMA PlayersSafe ==
    ASSUME GamesInv, SafeInv, Careful, NEW p \in PlayerIds,
           \/ Adds(p) \/ RemovePlayer(p) \/ DoActionMoveUp(p)
           \/ \E o \in DOMAIN game.objects \cup {Null} : SetPlayerObject(p, o)
    PROVE  SafeInv'
<1>1. Sound(game) /\ OnGrid(PlacesOf(game)) /\ LinksAgree(game)
  BY DEF GamesInv, SafeInv
<1>2. CASE Adds(p) \/ RemovePlayer(p)
  BY <1>1, <1>2, PlayerPlaces, ServerSafe DEF Adds, AddPlayer, RemovePlayer, UndefinedAddPlayer
<1>3. ASSUME NEW o \in DOMAIN game.objects \cup {Null}, SetPlayerObject(p, o)
      PROVE  SafeInv'
  <2>1. ~UndefinedSetPlayerObject(game, p)
    BY <1>1, <1>3, PointerAssumption
    DEF SetPlayerObject, LinksAgree, UndefinedSetPlayerObject, Sound, Shape
  <2> QED BY <1>1, <1>3, <2>1, PlayerPlaces, ServerSafe DEF SetPlayerObject
<1>4. CASE DoActionMoveUp(p)
  <2> DEFINE id == game.players[p]
             row == game.objects[id].position - 1
  <2>1. p \in DOMAIN game.players /\ id # Null /\ game.objects[id].position # 0
    BY <1>4 DEF DoActionMoveUp
  <2>2. id \in DOMAIN game.objects
    BY <1>1, <2>1 DEF LinksAgree
  <2>3. game.objects[id].position \in Cells
    BY <1>1, <2>2, InBounds
  <2>4. row \in Cells
    BY <2>1, <2>3, HeightAssumption DEF Cells
  <2>5. Server(move_object(game, id, row))
    BY <1>4, <2>2 DEF DoActionMoveUp, do_move_up, UndefinedMoveUp
  <2> HIDE DEF id, row
  <2>6. OnGrid(PlacesOf(move_object(game, id, row)))
    BY <1>1, <2>2, <2>4, CallsOnGrid
  <2> QED BY <2>5, <2>6, ServerSafe
<1> QED BY <1>2, <1>3, <1>4

LEMMA ObjectsSafe ==
    ASSUME GamesInv, SafeInv, Careful,
           \/ \E row \in Rows :
                 AddObject(row) \/ \E id \in DOMAIN game.objects : MoveObject(id, row)
           \/ \E id \in DOMAIN game.objects : RemoveObject(id)
    PROVE  SafeInv'
<1>1. Sound(game) /\ OnGrid(PlacesOf(game)) /\ LinksAgree(game)
  BY DEF GamesInv, SafeInv
<1>2. ASSUME NEW row \in Rows, AddObject(row) PROVE SafeInv'
  <2>1. row \in Cells /\ ~UndefinedAddObject(game, row)
    BY <1>2 DEF AddObject, in_bounds, UndefinedAddObject
  <2>2. next_id \in Nat /\ next_id \notin DOMAIN game.objects
    BY <1>2 DEF AddObject, ThrowsAddObject
  <2>3. OnGrid(PlacesOf(add_object(game, next_id, row)))
    BY <1>1, <2>1, <2>2, CallsOnGrid
  <2> QED BY <1>2, <2>1, <2>3 DEF AddObject, SafeInv, clientVars
<1>3. ASSUME NEW row \in Rows, NEW id \in DOMAIN game.objects, MoveObject(id, row)
      PROVE  SafeInv'
  BY <1>1, <1>3, CallsOnGrid, ServerSafe DEF MoveObject, in_bounds
<1>4. ASSUME NEW id \in DOMAIN game.objects, RemoveObject(id)
      PROVE  SafeInv'
  <2>1. game.objects[id].position \in Cells
    BY <1>1, InBounds
  <2>2. game.objects[id].player # Dangling
    BY <1>1, PointerAssumption DEF LinksAgree, Sound, Shape
  <2>3. Server(remove_object(game, id))
    BY <1>4, <2>1, <2>2 DEF RemoveObject, UndefinedRemoveObject, in_bounds
  <2> QED BY <1>1, <2>3, RemoveOnGrid, ServerSafe
<1> QED BY <1>2, <1>3, <1>4

LEMMA JoinSafe ==
    ASSUME GamesInv, SafeInv, Careful, Join
    PROVE  SafeInv'
<1>1. Sound(game) /\ OnGrid(PlacesOf(game)) /\ LinksAgree(game)
  BY DEF GamesInv, SafeInv
<1>2. ~UndefinedCopy(game)
  BY DEF Join
<1>3. \A p \in DOMAIN game.players : game.players[p] # Dangling
  BY <1>1, PointerAssumption DEF LinksAgree, Sound, Shape
<1>4. \A i \in DOMAIN game.objects : in_bounds(game.objects[i].position)
  BY <1>1, InBounds DEF in_bounds
<1>5. ~UndefinedRebuilt(game)
  BY <1>3, <1>4 DEF UndefinedRebuilt
<1>6. /\ m_game_state' = rebuilt(game)
      /\ UNCHANGED <<game, m_update_queue, taken, fault>>
  BY <1>2, <1>5 DEF Join
<1>7. OnGrid(PlacesOf(rebuilt(game)))
  BY <1>1, RebuiltPlaces
<1> QED BY <1>6, <1>7 DEF SafeInv

LEMMA ReportSafe ==
    ASSUME GamesInv, SafeInv, Careful, Report
    PROVE  SafeInv'
<1>1. /\ m_update_queue' = m_update_queue \o diff(game, base)
      /\ UNCHANGED <<game, m_game_state, taken, fault>>
  BY DEF Report, enqueue_updates
<1>2. \A i \in DOMAIN game.objects : game.objects[i].position \in Cells
  BY InBounds DEF GamesInv, SafeInv
<1>3. diff(game, base) \in Seq(UpdatesTo(Cells))
  BY <1>2, DiffTo DEF GamesInv
<1>4. m_update_queue \o diff(game, base) \in Seq(UpdatesTo(Cells))
  BY <1>3 DEF SafeInv
<1> QED BY <1>1, <1>4 DEF SafeInv

LEMMA ApplyUpdateSafe ==
    ASSUME GamesInv, FollowInv, SafeInv, Careful, ApplyUpdate
    PROVE  SafeInv'
<1> DEFINE u == Head(taken)
<1>1. taken # <<>> /\ u \in UpdatesTo(Cells) /\ Tail(taken) \in Seq(UpdatesTo(Cells))
  BY DEF SafeInv, ApplyUpdate
<1>2. Fits(PlacesOf(m_game_state), u) /\ ~ThrowsUpdate(m_game_state, u)
  BY <1>1, NextUpdateFits
<1>3. Sound(m_game_state) /\ OnGrid(PlacesOf(m_game_state)) /\ LinksAgree(m_game_state)
  BY DEF GamesInv, SafeInv
<1>4. ~UndefinedUpdate(m_game_state, u)
  <2> HIDE DEF u
  <2>1. CASE u.kind = "create"
    BY <1>1, <2>1 DEF UpdatesTo, UndefinedUpdate, UndefinedAddObject, in_bounds
  <2>2. CASE u.kind = "destroy"
    <3>1. u.id \in DOMAIN m_game_state.objects
      BY <1>2, <2>2 DEF ThrowsUpdate
    <3>2. m_game_state.objects[u.id].position \in Cells
      BY <1>3, <3>1, InBounds
    <3>3. m_game_state.objects[u.id].player # Dangling
      BY <1>3, <3>1, PointerAssumption DEF LinksAgree, Sound, Shape
    <3> QED BY <2>2, <3>2, <3>3 DEF UndefinedUpdate, UndefinedRemoveObject, in_bounds
  <2> QED BY <2>1, <2>2 DEF UndefinedUpdate
<1>5. /\ m_game_state' = apply_update(m_game_state, u) /\ taken' = Tail(taken)
      /\ UNCHANGED <<game, m_update_queue, fault>>
  BY <1>2, <1>4 DEF ApplyUpdate
<1> HIDE DEF u
<1>6. OnGrid(PlacesOf(apply_update(m_game_state, u)))
  BY <1>1, <1>2, <1>3, UpdateOnGrid
<1> QED BY <1>1, <1>5, <1>6 DEF SafeInv

LEMMA NextSafe == GamesInv /\ FollowInv /\ SafeInv /\ [Next]_vars => SafeInv'
<1> SUFFICES ASSUME GamesInv, FollowInv, SafeInv, [Next]_vars, Careful PROVE SafeInv'
  BY DEF SafeInv
<1>1. CASE Dequeue
  BY <1>1 DEF Dequeue, SafeInv
<1>2. CASE UNCHANGED vars
  BY <1>2 DEF vars, clientVars, SafeInv
<1> QED BY <1>1, <1>2, PlayersSafe, ObjectsSafe, JoinSafe, ReportSafe, ApplyUpdateSafe DEF Next, Adds

\* With a server that tests what the functions do not, neither it nor its
\* client ever runs into a bad pointer or out of the grid, whatever is called
\* and however many reports and updates follow one another.
THEOREM CarefulServersAreSafe == Spec => []CarefulIsSafe
<1>1. Init => SafeInv
  BY DEF Init, SafeInv, NewGame, OnGrid, PlacesOf
<1>2. SafeInv => CarefulIsSafe
  BY DEF SafeInv, CarefulIsSafe
<1> QED BY <1>1, <1>2, NextSafe, GamesSound, Follows, PTL DEF Spec
=============================================================================
