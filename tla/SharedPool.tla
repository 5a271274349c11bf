----------------------------- MODULE SharedPool -----------------------------
(***************************************************************************)
(* sharable_pool and shared_pooled_ptr of common_src/pool.hpp: a fixed     *)
(* array of blocks, each with an allocated flag and a reference count, and *)
(* the smart pointers of several threads to these blocks.  A pool without  *)
(* a free block makes make_shared_from_pool fall back on new.              *)
(*                                                                         *)
(* One thread at a time works on a handle, as with std::shared_ptr; any    *)
(* number of them work on handles to the same block.  A step is one atomic *)
(* operation on a flag or a counter together with the thread-local work    *)
(* around it.                                                              *)
(***************************************************************************)
EXTENDS Naturals, FiniteSets

CONSTANTS
    NumBlocks,   \* number of blocks of the pool (template parameter)
    Handles,     \* the shared_pooled_ptr objects
    Heap,        \* the addresses new may return
    Null         \* nullptr

ASSUME NumBlocksAssumption == NumBlocks \in Nat

Pool == 1 .. NumBlocks
Blocks == Pool \cup Heap

ASSUME HandlesAssumption == IsFiniteSet(Handles)
ASSUME HeapAssumption == Heap \cap Pool = {}
ASSUME NullAssumption == Null \notin Blocks

VARIABLES
    allocated,  \* the atomic_flag of every block of the pool
    onHeap,     \* the blocks that came from new and are not deleted yet
    refcount,   \* the reference count of every block
    owner,      \* block.owner: "pool" or "none"
    ptr,        \* block_ptr of every handle
    stage,      \* where each handle's thread is: "idle" between operations,
                \* "scanning" the pool in alloc, "acquired" a raw block that no
                \* handle counts yet, "freeing" a block it was the last to hold
    position,   \* the block alloc looks at next, per handle
    sawFull     \* history: the pool was full at some moment of the scan

vars == <<allocated, onHeap, refcount, owner, ptr, stage, position, sawFull>>

TypeOK ==
    /\ allocated \in [Pool -> BOOLEAN]
    /\ onHeap \in SUBSET Heap
    /\ refcount \in [Blocks -> Nat]
    /\ owner \in [Blocks -> {"pool", "none"}]
    /\ ptr \in [Handles -> Blocks \cup {Null}]
    /\ stage \in [Handles -> {"idle", "scanning", "acquired", "freeing"}]
    /\ position \in [Handles -> 1 .. NumBlocks + 1]
    /\ sawFull \in [Handles -> BOOLEAN]

-----------------------------------------------------------------------------
\* The handles that are live references to block b.
Holders(b) == {h \in Handles : stage[h] = "idle" /\ ptr[h] = b}

Holds(h) == stage[h] = "idle" /\ ptr[h] # Null
Empty(h) == stage[h] = "idle" /\ ptr[h] = Null

InUse(b) == IF b \in Pool THEN allocated[b] ELSE b \in onHeap

Full(flags) == \A b \in Pool : flags[b]

Init ==
    /\ allocated = [b \in Pool |-> FALSE]
    /\ onHeap = {}
    /\ refcount = [b \in Blocks |-> 0]
    /\ owner = [b \in Blocks |-> "none"]
    /\ ptr = [h \in Handles |-> Null]
    /\ stage = [h \in Handles |-> "idle"]
    /\ position = [h \in Handles |-> 1]
    /\ sawFull = [h \in Handles |-> FALSE]

-----------------------------------------------------------------------------
(* make_shared_from_pool.                                                  *)

\* Faulty variant: several threads allocate from the pool at once.
StartAllocAnytime(h) ==
    /\ Empty(h)
    /\ stage' = [stage EXCEPT ![h] = "scanning"]
    /\ position' = [position EXCEPT ![h] = 1]
    /\ sawFull' = [sawFull EXCEPT ![h] = Full(allocated)]
    /\ UNCHANGED <<allocated, onHeap, refcount, owner, ptr>>

\* alloc begins.  Server and client allocate only from handlers of their UDP
\* strand, so no two scans overlap; frees may happen at any time.
StartAlloc(h) ==
    /\ Empty(h)
    /\ \A g \in Handles : stage[g] # "scanning"
    /\ stage' = [stage EXCEPT ![h] = "scanning"]
    /\ position' = [position EXCEPT ![h] = 1]
    /\ sawFull' = [sawFull EXCEPT ![h] = Full(allocated)]
    /\ UNCHANGED <<allocated, onHeap, refcount, owner, ptr>>

\* Faulty variant: the flag is read but not set.
TestWithoutSet(h) ==
    /\ stage[h] = "scanning"
    /\ position[h] \in Pool
    /\ IF allocated[position[h]]
       THEN /\ position' = [position EXCEPT ![h] = @ + 1]
            /\ UNCHANGED <<ptr, stage>>
       ELSE /\ ptr' = [ptr EXCEPT ![h] = position[h]]
            /\ stage' = [stage EXCEPT ![h] = "acquired"]
            /\ UNCHANGED position
    /\ UNCHANGED <<allocated, sawFull, onHeap, refcount, owner>>

\* One test_and_set of the scan.
TestAndSet(h) ==
    /\ stage[h] = "scanning"
    /\ position[h] \in Pool
    /\ IF allocated[position[h]]
       THEN /\ position' = [position EXCEPT ![h] = @ + 1]
            /\ UNCHANGED <<allocated, ptr, stage, sawFull>>
       ELSE /\ allocated' = [allocated EXCEPT ![position[h]] = TRUE]
            /\ ptr' = [ptr EXCEPT ![h] = position[h]]
            /\ stage' = [stage EXCEPT ![h] = "acquired"]
            /\ sawFull' = [g \in Handles |-> sawFull[g] \/ Full(allocated')]
            /\ UNCHANGED position
    /\ UNCHANGED <<onHeap, refcount, owner>>

\* alloc returned nullptr: the block comes from new.
FallBack(h) ==
    /\ stage[h] = "scanning"
    /\ position[h] = NumBlocks + 1
    /\ \E b \in Heap \ onHeap :
          /\ onHeap' = onHeap \cup {b}
          /\ ptr' = [ptr EXCEPT ![h] = b]
    /\ stage' = [stage EXCEPT ![h] = "acquired"]
    /\ UNCHANGED <<allocated, refcount, owner, position, sawFull>>

\* Faulty variant: a heap block keeps whatever owner it had.
ConstructKeepsOwner(h) ==
    /\ stage[h] = "acquired"
    /\ owner' = [owner EXCEPT ![ptr[h]] = "pool"]
    /\ refcount' = [refcount EXCEPT ![ptr[h]] = 1]
    /\ stage' = [stage EXCEPT ![h] = "idle"]
    /\ UNCHANGED <<allocated, onHeap, ptr, position, sawFull>>

\* The block learns its owner and the private constructor stores a count of 1.
\* The thread has the block for itself until then.
Construct(h) ==
    /\ stage[h] = "acquired"
    /\ owner' = [owner EXCEPT ![ptr[h]] =
                    IF ptr[h] \in Pool THEN "pool" ELSE "none"]
    /\ refcount' = [refcount EXCEPT ![ptr[h]] = 1]
    /\ stage' = [stage EXCEPT ![h] = "idle"]
    /\ UNCHANGED <<allocated, onHeap, ptr, position, sawFull>>

-----------------------------------------------------------------------------
(* Copies, exchanges and destruction of handles.                           *)

\* Faulty variant: the copy is not counted.
CopyUncounted(g, h) ==
    /\ Empty(g)
    /\ Holds(h)
    /\ ptr' = [ptr EXCEPT ![g] = ptr[h]]
    /\ UNCHANGED <<allocated, onHeap, refcount, owner, stage, position, sawFull>>

\* Copy constructor.  Copy assignment is Copy to a temporary, Swap with the
\* target and Drop of the temporary.
Copy(g, h) ==
    /\ Empty(g)
    /\ Holds(h)
    /\ ptr' = [ptr EXCEPT ![g] = ptr[h]]
    /\ refcount' = [refcount EXCEPT ![ptr[h]] = @ + 1]
    /\ UNCHANGED <<allocated, onHeap, owner, stage, position, sawFull>>

\* Faulty variant: the source of a move keeps its pointer.
SwapLeavesSource(g, h) ==
    /\ stage[g] = "idle"
    /\ Holds(h)
    /\ g # h
    /\ ptr' = [ptr EXCEPT ![g] = ptr[h]]
    /\ UNCHANGED <<allocated, onHeap, refcount, owner, stage, position, sawFull>>

\* swap; with an empty g also the move constructor, which takes h's pointer
\* and leaves nullptr.  Move assignment is a move, a Swap and a Drop.
Swap(g, h) ==
    /\ stage[g] = "idle"
    /\ Holds(h)
    /\ g # h
    /\ ptr' = [ptr EXCEPT ![g] = ptr[h], ![h] = ptr[g]]
    /\ UNCHANGED <<allocated, onHeap, refcount, owner, stage, position, sawFull>>

\* Faulty variant: the destructor tests the new count instead of the old one,
\* one decrement too early.
DropTooEarly(h) ==
    /\ Holds(h)
    /\ refcount' = [refcount EXCEPT ![ptr[h]] = @ - 1]
    /\ IF refcount'[ptr[h]] = 1
       THEN stage' = [stage EXCEPT ![h] = "freeing"] /\ UNCHANGED ptr
       ELSE ptr' = [ptr EXCEPT ![h] = Null] /\ UNCHANGED stage
    /\ UNCHANGED <<allocated, onHeap, owner, position, sawFull>>

\* Destructor and reset: fetch_sub, and the last holder goes on to free.
Drop(h) ==
    /\ Holds(h)
    /\ refcount' = [refcount EXCEPT ![ptr[h]] = @ - 1]
    /\ IF refcount[ptr[h]] = 1
       THEN stage' = [stage EXCEPT ![h] = "freeing"] /\ UNCHANGED ptr
       ELSE ptr' = [ptr EXCEPT ![h] = Null] /\ UNCHANGED stage
    /\ UNCHANGED <<allocated, onHeap, owner, position, sawFull>>

\* Faulty variant: blocks of the heap are never deleted.
ReleaseToPoolOnly(h) ==
    /\ stage[h] = "freeing"
    /\ allocated' = [b \in Pool |-> allocated[b] /\ b # ptr[h]]
    /\ stage' = [stage EXCEPT ![h] = "idle"]
    /\ ptr' = [ptr EXCEPT ![h] = Null]
    /\ UNCHANGED <<onHeap, refcount, owner, position, sawFull>>

\* The last holder gives the block back: owner->free clears the flag, a block
\* without an owner is deleted.
Release(h) ==
    /\ stage[h] = "freeing"
    /\ IF owner[ptr[h]] = "pool"
       THEN /\ allocated' = [b \in Pool |-> allocated[b] /\ b # ptr[h]]
            /\ UNCHANGED onHeap
       ELSE /\ onHeap' = onHeap \ {ptr[h]}
            /\ UNCHANGED allocated
    /\ stage' = [stage EXCEPT ![h] = "idle"]
    /\ ptr' = [ptr EXCEPT ![h] = Null]
    /\ UNCHANGED <<refcount, owner, position, sawFull>>

-----------------------------------------------------------------------------
Next ==
    \E h \in Handles :
        \/ StartAlloc(h)
        \/ TestAndSet(h)
        \/ FallBack(h)
        \/ Construct(h)
        \/ \E g \in Handles : Copy(g, h) \/ Swap(g, h)
        \/ Drop(h)
        \/ Release(h)

Spec == Init /\ [][Next]_vars

\* A destructor that has begun to free its block runs to its end.
LiveSpec == Spec /\ \A h \in Handles : WF_vars(Release(h))

-----------------------------------------------------------------------------
(* Properties.                                                             *)

\* Counter and handles agree.
RefcountExact == \A b \in Blocks : refcount[b] = Cardinality(Holders(b))

\* A raw block is in nobody else's hands.
ExclusiveWhenUncounted ==
    \A h \in Handles : stage[h] \in {"acquired", "freeing"} =>
        /\ ptr[h] \in Blocks
        /\ \A g \in Handles \ {h} : ptr[g] # ptr[h]

\* The counter of every block, pool or heap, is the number of handles that
\* refer to it, in whatever order threads copy and destroy them; and a block
\* that a thread has acquired but not yet counted, or is about to free, is in
\* nobody else's hands.
HandlesCounted == RefcountExact /\ ExclusiveWhenUncounted

\* Blocks and pointers agree.
BlocksAccountedFor ==
    \A b \in Blocks : InUse(b) <=> \E h \in Handles : ptr[h] = b

\* Owner and address agree.
OwnerTellsOrigin ==
    \A h \in Handles :
        Holds(h) \/ stage[h] = "freeing" =>
            (owner[ptr[h]] = "pool" <=> ptr[h] \in Pool)

\* Neither leak nor use after free: a block is out of the pool, or on the
\* heap, exactly while some handle points to it; and it goes back where it came
\* from: delete never sees a block of the pool and free never one of the heap.
BlocksGoHome == BlocksAccountedFor /\ OwnerTellsOrigin

\* "If the pool is full, allocate the value with 'new' instead": while only
\* one thread allocates at a time, new is used only if the pool was full.
FallbackOnlyWhenFull ==
    \A h \in Handles :
        stage[h] = "scanning" /\ position[h] = NumBlocks + 1 => sawFull[h]

\* shared_pooled_ptr implements shared ownership, an object being alive while
\* its block's counter is positive.
Ownership == INSTANCE SharedOwnership WITH
    Objects <- Blocks,
    ref <- [h \in Handles |-> IF stage[h] = "idle" THEN ptr[h] ELSE Null],
    live <- {b \in Blocks : refcount[b] > 0}

ImplementsSharedOwnership == Ownership!Spec

\* A block without a holder, and not just handed out, becomes free again.
DroppedBlocksReturn ==
    \A b \in Blocks :
        (/\ InUse(b)
         /\ \A h \in Handles : ptr[h] = b => stage[h] = "freeing") ~> ~InUse(b)
=============================================================================
