---------------------------- MODULE FreeListPool ----------------------------
(***************************************************************************)
(* free_list_pool<T, ChunkSize> of common_src/pool.hpp, as operators on    *)
(* pools.  A pool grows by chunks of objects that live as long as it does; *)
(* what is free stands in a vector of pointers, from the end of which      *)
(* blocks are handed out.  Blocks are numbered through the chunks.         *)
(***************************************************************************)
EXTENDS Naturals, SequencesExt

CONSTANTS ChunkSize  \* template argument

ASSUME ChunkSizeAssumption == ChunkSize \in Nat \ {0}

EmptyPool == [chunks |-> 0, free_list |-> <<>>, capacity |-> 0]

\* The blocks of the pool's chunks, free or not.
BlocksOf(pool) == 1 .. pool.chunks * ChunkSize

\* Faulty variant: the new pointers begin one block too early.
AddChunkEarly(pool) ==
    LET first == pool.chunks * ChunkSize
    IN  [chunks |-> pool.chunks + 1,
         free_list |-> pool.free_list
                         \o [i \in 1 .. ChunkSize |-> IF first = 0 THEN i ELSE first + i - 1],
         capacity |-> (pool.chunks + 1) * ChunkSize]

\* The vector has room for every block there will be, and then for the new
\* ones, without being moved.
add_chunk(pool) ==
    LET first == pool.chunks * ChunkSize
    IN  [chunks |-> pool.chunks + 1,
         free_list |-> pool.free_list \o [i \in 1 .. ChunkSize |-> first + i],
         capacity |-> (pool.chunks + 1) * ChunkSize]

\* The first half of alloc.
Refilled(pool) == IF pool.free_list = <<>> THEN add_chunk(pool) ELSE pool

\* The block that alloc returns, and the pool without it.
Allocated(pool) == Last(Refilled(pool).free_list)
alloc(pool) == [Refilled(pool) EXCEPT !.free_list = Front(@)]

\* assert(free_list.capacity() > free_list.size())
FreeAssertion(pool) == pool.capacity > Len(pool.free_list)

free(pool, b) == [pool EXCEPT !.free_list = Append(@, b)]
=============================================================================
