--------------------------- MODULE ServerObjects ---------------------------
(***************************************************************************)
(* The server's objects, as game scripts reach them through the functions  *)
(* of server_src/game.cpp: a bookkeeping block per object from a           *)
(* free_list_pool, and the frame of what changed since the last tick.      *)
(*                                                                         *)
(* Scripts are external.  They call the functions in any order, with any   *)
(* pointer they ever got, since "pointers to objects are valid even after  *)
(* they've been freed"; and nothing in the repository gives objects ids,   *)
(* although destroy_object tests them, so that is external too (AssignId). *)
(* A position is one number, and players and storage are left out.  An     *)
(* assertion that fails ends the program: the Makefile does not define     *)
(* NDEBUG.  The names of the specification begin with Objects, so that     *)
(* PoolProofs can extend this module beside SharedPool.                    *)
(***************************************************************************)
EXTENDS FreeListPool, FiniteSets, Functions

CONSTANTS
    Ids,        \* ids of objects; an object without one has 0
    Positions,  \* bound: positions; a new object is at 0
    MaxChunks,  \* bound: chunks of the pool
    MaxTwice    \* bound: times that a block is given back twice

ASSUME ObjectsAssumption ==
    /\ Ids \subseteq Nat \ {0}
    /\ Positions \subseteq Nat /\ 0 \in Positions
    /\ MaxChunks \in Nat
    /\ MaxTwice \in Nat

VARIABLES
    object_pool,  \* the free_list_pool
    object,       \* per block, its object
    updated,      \* the blocks whose flag is set
    frame,        \* objects as they were, by id, and the destroyed ids
    handles,      \* the pointers scripts ever got
    aborted,      \* an assertion failed
    owners,       \* history: per block, how often it was handed out and its
                  \* new owner did not destroy or free it yet
    given_twice   \* history: per block, how often one call gave it back twice

objectsVars ==
    <<object_pool, object, updated, frame, handles, aborted, owners, given_twice>>

Objects == [id : Ids \cup {0}, position : Positions]
NewObject == [id |-> 0, position |-> 0]
AllBlocks == 1 .. MaxChunks * ChunkSize

ObjectsTypeOK ==
    /\ object_pool \in [chunks : 0 .. MaxChunks, free_list : Seq(AllBlocks), capacity : Nat]
    /\ object \in [AllBlocks -> Objects]
    /\ updated \subseteq AllBlocks
    /\ DOMAIN frame.updated \subseteq Ids \cup {0} /\ frame.destroyed \subseteq Ids
    /\ \A i \in DOMAIN frame.updated : frame.updated[i] \in Objects
    /\ handles \subseteq AllBlocks
    /\ aborted \in BOOLEAN
    /\ owners \in [AllBlocks -> Nat] /\ given_twice \in [AllBlocks -> Nat]

ObjectsInit ==
    /\ object_pool = EmptyPool
    /\ object = [b \in AllBlocks |-> NewObject]
    /\ updated = {}
    /\ frame = [updated |-> [i \in {} |-> NewObject], destroyed |-> {}]
    /\ handles = {}
    /\ aborted = FALSE
    /\ owners = [b \in AllBlocks |-> 0]
    /\ given_twice = [b \in AllBlocks |-> 0]

\* frame.updated.emplace(bk->object.id, bk->object), which does not overwrite.
Recorded(b) ==
    LET id == object[b].id
    IN  [frame EXCEPT !.updated =
            [i \in DOMAIN @ \cup {id} |-> IF i \in DOMAIN @ THEN @[i] ELSE object[b]]]

-----------------------------------------------------------------------------
\* A recycled block comes with the object it had when it was freed.
create_object ==
    LET b == Allocated(object_pool)
    IN  /\ object_pool.free_list # <<>> \/ object_pool.chunks < MaxChunks
        /\ object_pool' = alloc(object_pool)
        /\ frame' = Recorded(b)
        /\ updated' = updated \cup {b}
        /\ handles' = handles \cup {b}
        /\ owners' = [owners EXCEPT ![b] = @ + 1]
        /\ UNCHANGED <<object, aborted, given_twice>>

AssignId(b, id) ==
    /\ owners[b] > 0
    /\ object[b].id = 0
    /\ object' = [object EXCEPT ![b].id = id]
    /\ UNCHANGED <<object_pool, updated, frame, handles, aborted, owners, given_twice>>

\* What destroy_object does to an object with an id; it ignores one without.
Destroy(b) ==
    /\ frame' = [frame EXCEPT !.destroyed = @ \cup {object[b].id}]
    /\ updated' = updated \cup {b}
    /\ object' = [object EXCEPT ![b] = NewObject]

\* One owner of b is done with it.
Disown(b) == owners[b] > 0 /\ owners' = [owners EXCEPT ![b] = @ - 1]

destroy_object(b) ==
    /\ Disown(b)
    /\ object[b].id # 0
    /\ Destroy(b)
    /\ object_pool' = free(object_pool, b)
    /\ aborted' = ~FreeAssertion(object_pool)
    /\ UNCHANGED <<handles, given_twice>>

\* pool.free at the end of free_object, of an object that destroy_object did
\* not give back, and of one that it did.
FreeOnce(b) ==
    /\ object[b].id = 0
    /\ object_pool' = free(object_pool, b)
    /\ aborted' = ~FreeAssertion(object_pool)
    /\ UNCHANGED <<object, updated, frame, given_twice>>

FreeTwice(b) ==
    LET once == free(object_pool, b)
    IN  /\ object[b].id # 0 /\ given_twice[b] < MaxTwice
        /\ Destroy(b)
        /\ object_pool' = free(once, b)
        /\ aborted' = ~(FreeAssertion(object_pool) /\ FreeAssertion(once))
        /\ given_twice' = [given_twice EXCEPT ![b] = @ + 1]

\* Faulty variant: an object without an id is given back twice as well.
FreeAlwaysTwice(b) ==
    /\ Disown(b)
    /\ object_pool' = free(free(object_pool, b), b)
    /\ UNCHANGED <<object, updated, frame, handles, aborted, given_twice>>

\* destroy_object and, whatever that did, pool.free.
free_object(b) ==
    /\ Disown(b)
    /\ FreeOnce(b) \/ FreeTwice(b)
    /\ UNCHANGED handles

\* begin_update, then the assignment; also through a pointer to a freed block.
set_xy(b, xy) ==
    /\ b \in handles
    /\ frame' = IF b \in updated THEN frame ELSE Recorded(b)
    /\ updated' = updated \cup {b}
    /\ object' = [object EXCEPT ![b].position = xy]
    /\ UNCHANGED <<object_pool, handles, aborted, owners, given_twice>>

ObjectsNext ==
    /\ ~aborted
    /\ \/ create_object
       \/ \E b \in AllBlocks :
             \/ \E id \in Ids : AssignId(b, id)
             \/ destroy_object(b)
             \/ free_object(b)
             \/ \E xy \in Positions : set_xy(b, xy)

ObjectsSpec == ObjectsInit /\ [][ObjectsNext]_objectsVars

-----------------------------------------------------------------------------
(* Properties.                                                             *)

\* How often b stands in the free list.
Entries(b) == Cardinality({i \in DOMAIN object_pool.free_list : object_pool.free_list[i] = b})

\* Whatever the calls, the books balance: of every block of the pool there is
\* one owner or one entry in the free list, and one more for each time that
\* free_object gave it back twice.  So nothing else loses a block, hands one
\* to two or spoils another's; and the assertion of free, that the vector does
\* not grow, fails only after free_object gave some block back twice.
BlocksAddUp ==
    /\ ObjectsTypeOK
    /\ \A b \in AllBlocks :
          owners[b] + Entries(b) =
              IF b \in BlocksOf(object_pool) THEN 1 + given_twice[b] ELSE 0
    /\ aborted => \E b \in AllBlocks : given_twice[b] > 0
=============================================================================
