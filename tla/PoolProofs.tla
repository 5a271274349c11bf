----------------------------- MODULE PoolProofs -----------------------------
(* Theorems about the two pools of common_src/pool.hpp: about SharedPool,  *)
(* for every number of blocks, every finite set of handles and every heap, *)
(* and about ServerObjects, the user of free_list_pool.                    *)
EXTENDS SharedPool, ServerObjects, FiniteSetTheorems, TLAPS

-----------------------------------------------------------------------------
(* The sharable_pool.                                                      *)

\* A thread that scans the pool has no block yet.
ScannersEmptyHanded == \A h \in Handles : stage[h] = "scanning" => ptr[h] = Null

\* The invariant is inductive only as a whole: that a block was counted right
\* needs that a raw block is exclusive, which needs that a clear flag means
\* nobody points to the block.
OwnershipInv ==
    /\ TypeOK
    /\ RefcountExact
    /\ ExclusiveWhenUncounted
    /\ BlocksAccountedFor
    /\ OwnerTellsOrigin
    /\ ScannersEmptyHanded

\* Only finitely many handles hold a block.
LEMMA HoldersFinite == \A b : IsFiniteSet(Holders(b))
  BY HandlesAssumption, FS_Subset DEF Holders

LEMMA InitInv == Init => OwnershipInv
<1> SUFFICES ASSUME Init PROVE OwnershipInv
  OBVIOUS
<1>1. TypeOK
  BY NumBlocksAssumption DEF Init, TypeOK
<1>2. \A b \in Blocks : Holders(b) = {} /\ refcount[b] = 0
  BY NullAssumption DEF Init, Holders
<1>3. RefcountExact
  BY <1>2, FS_EmptySet DEF RefcountExact
<1>4. BlocksAccountedFor
  BY NullAssumption, HeapAssumption DEF Init, BlocksAccountedFor, InUse, Blocks
<1> QED
  BY <1>1, <1>3, <1>4
  DEF Init, OwnershipInv, ExclusiveWhenUncounted, OwnerTellsOrigin, Holds,
      ScannersEmptyHanded

-----------------------------------------------------------------------------
(* One lemma per action.                                                   *)

LEMMA StartAllocInv ==
    ASSUME OwnershipInv, NEW h \in Handles, StartAlloc(h)
    PROVE  OwnershipInv'
<1> USE DEF OwnershipInv, StartAlloc, Empty
<1>1. TypeOK'
  BY NumBlocksAssumption DEF TypeOK, Full
<1>2. \A b \in Blocks : Holders(b)' = Holders(b)
  BY NullAssumption DEF Holders, TypeOK
<1>3. RefcountExact'
  BY <1>2 DEF RefcountExact
<1>4. ExclusiveWhenUncounted'
  BY DEF ExclusiveWhenUncounted, TypeOK
<1>5. BlocksAccountedFor'
  BY DEF BlocksAccountedFor, InUse
<1>6. OwnerTellsOrigin' /\ ScannersEmptyHanded'
  BY DEF OwnerTellsOrigin, Holds, ScannersEmptyHanded, TypeOK
<1> QED BY <1>1, <1>3, <1>4, <1>5, <1>6

\* What acquiring a block that nobody points to does, be it by test_and_set
\* or by new.
LEMMA AcquireInv ==
    ASSUME OwnershipInv, TypeOK',
           NEW h \in Handles, NEW b \in Blocks,
           stage[h] = "scanning",
           ~InUse(b),
           \A d \in Blocks : InUse(d)' <=> (InUse(d) \/ d = b),
           ptr' = [ptr EXCEPT ![h] = b],
           stage' = [stage EXCEPT ![h] = "acquired"],
           refcount' = refcount, owner' = owner
    PROVE  OwnershipInv'
<1> USE DEF OwnershipInv
<1>1. \A g \in Handles : ptr[g] # b
  BY DEF BlocksAccountedFor
<1>2. \A d \in Blocks : Holders(d)' = Holders(d)
  BY DEF Holders, TypeOK
<1>3. RefcountExact'
  BY <1>2 DEF RefcountExact
<1>4. ExclusiveWhenUncounted'
  BY <1>1 DEF ExclusiveWhenUncounted, TypeOK
<1>5. BlocksAccountedFor'
  <2>1. \A d \in Blocks : (\E g \in Handles : ptr'[g] = d)
                             <=> (d = b \/ \E g \in Handles : ptr[g] = d)
    BY NullAssumption DEF ScannersEmptyHanded, TypeOK
  <2>2. \A d \in Blocks : InUse(d) <=> \E g \in Handles : ptr[g] = d
    BY DEF BlocksAccountedFor
  <2> QED BY <2>1, <2>2 DEF BlocksAccountedFor
<1>6. OwnerTellsOrigin' /\ ScannersEmptyHanded'
  BY DEF OwnerTellsOrigin, Holds, ScannersEmptyHanded, TypeOK
<1> QED BY <1>3, <1>4, <1>5, <1>6

LEMMA TestAndSetInv ==
    ASSUME OwnershipInv, NEW h \in Handles, TestAndSet(h)
    PROVE  OwnershipInv'
<1>1. position[h] \in Pool /\ position[h] \in Blocks /\ TypeOK
  BY DEF TestAndSet, Blocks, OwnershipInv
<1>2. TypeOK'
  <2>1. NumBlocks \in Nat /\ position[h] + 1 \in 1 .. NumBlocks + 1
    BY <1>1, NumBlocksAssumption DEF Pool
  <2> QED BY <1>1, <2>1 DEF TestAndSet, TypeOK, Full
<1>3. CASE allocated[position[h]]
  <2>1. UNCHANGED <<allocated, ptr, stage, onHeap, refcount, owner>>
    BY <1>3 DEF TestAndSet
  <2> QED
    BY <1>2, <2>1
    DEF OwnershipInv, RefcountExact, ExclusiveWhenUncounted, BlocksAccountedFor,
        OwnerTellsOrigin, ScannersEmptyHanded, Holders, Holds, InUse
<1>4. CASE ~allocated[position[h]]
  <2>1. allocated' = [allocated EXCEPT ![position[h]] = TRUE]
    BY <1>4 DEF TestAndSet
  <2>2. ~InUse(position[h])
    BY <1>1, <1>4 DEF InUse
  <2>3. \A d \in Blocks : InUse(d)' <=> (InUse(d) \/ d = position[h])
    BY <1>1, <2>1 DEF InUse, TypeOK, TestAndSet
  <2> QED BY <1>1, <1>2, <1>4, <2>2, <2>3, AcquireInv DEF TestAndSet
<1> QED BY <1>3, <1>4

LEMMA FallBackInv ==
    ASSUME OwnershipInv, NEW h \in Handles, FallBack(h)
    PROVE  OwnershipInv'
<1>1. PICK b \in Heap \ onHeap : /\ onHeap' = onHeap \cup {b}
                                 /\ ptr' = [ptr EXCEPT ![h] = b]
  BY DEF FallBack
<1>2. b \in Blocks /\ b \notin Pool
  BY HeapAssumption DEF Blocks
<1>3. TypeOK'
  BY <1>1, <1>2 DEF FallBack, TypeOK, OwnershipInv
<1>4. ~InUse(b) /\ \A d \in Blocks : InUse(d)' <=> (InUse(d) \/ d = b)
  BY <1>1, <1>2 DEF InUse, FallBack
<1> QED BY <1>1, <1>2, <1>3, <1>4, AcquireInv DEF FallBack

LEMMA ConstructInv ==
    ASSUME OwnershipInv, NEW h \in Handles, Construct(h)
    PROVE  OwnershipInv'
<1> DEFINE b == ptr[h]
<1> USE DEF OwnershipInv, Construct
<1>1. b \in Blocks /\ \A g \in Handles \ {h} : ptr[g] # b
  BY DEF ExclusiveWhenUncounted
<1>2. TypeOK'
  BY <1>1 DEF TypeOK
<1>3. Holders(b)' = {h}
  BY <1>1 DEF Holders, TypeOK
<1>4. \A d \in Blocks \ {b} : Holders(d)' = Holders(d)
  BY DEF Holders, TypeOK
<1>5. RefcountExact'
  BY <1>1, <1>3, <1>4, FS_Singleton DEF RefcountExact, TypeOK
<1>6. ExclusiveWhenUncounted'
  BY DEF ExclusiveWhenUncounted, TypeOK
<1>7. BlocksAccountedFor'
  BY DEF BlocksAccountedFor, InUse
<1>8. OwnerTellsOrigin'
  <2> SUFFICES ASSUME NEW g \in Handles, Holds(g)' \/ stage'[g] = "freeing"
               PROVE  owner'[ptr[g]] = "pool" <=> ptr[g] \in Pool
    BY DEF OwnerTellsOrigin
  <2>1. CASE g = h
    BY <1>1, <2>1 DEF TypeOK
  <2>2. CASE g # h
    <3>1. ptr[g] # b /\ (Holds(g) \/ stage[g] = "freeing")
      BY <1>1, <2>2 DEF Holds, TypeOK
    <3> QED BY <1>1, <3>1 DEF OwnerTellsOrigin, TypeOK
  <2> QED BY <2>1, <2>2
<1>9. ScannersEmptyHanded'
  BY DEF ScannersEmptyHanded, TypeOK
<1> QED BY <1>2, <1>5, <1>6, <1>7, <1>8, <1>9

LEMMA CopyInv ==
    ASSUME OwnershipInv, NEW g \in Handles, NEW h \in Handles, Copy(g, h)
    PROVE  OwnershipInv'
<1> USE DEF OwnershipInv, Copy, Empty, Holds
<1>0. PICK b \in Blocks : b = ptr[h]
  BY DEF TypeOK
<1>1. g \notin Holders(b) /\ IsFiniteSet(Holders(b))
  BY <1>0, NullAssumption, HoldersFinite DEF TypeOK, Holders
<1>2. TypeOK'
  BY <1>0, <1>1 DEF TypeOK
<1>3. Holders(b)' = Holders(b) \cup {g}
  BY <1>0 DEF Holders, TypeOK
<1>4. \A d \in Blocks \ {b} : Holders(d)' = Holders(d)
  BY <1>0, NullAssumption DEF Holders, TypeOK
<1>5. RefcountExact'
  <2>1. refcount'[b] = Cardinality(Holders(b)')
    <3>1. Cardinality(Holders(b)') = Cardinality(Holders(b)) + 1
      BY <1>1, <1>3, FS_AddElement
    <3>2. refcount'[b] = refcount[b] + 1 /\ refcount[b] = Cardinality(Holders(b))
      BY <1>0 DEF RefcountExact, TypeOK
    <3> QED BY <3>1, <3>2
  <2>2. \A d \in Blocks \ {b} : refcount'[d] = Cardinality(Holders(d)')
    BY <1>0, <1>4 DEF RefcountExact, TypeOK
  <2> QED BY <2>1, <2>2 DEF RefcountExact
<1>6. ExclusiveWhenUncounted'
  BY <1>0, <1>1 DEF ExclusiveWhenUncounted, TypeOK
<1>7. BlocksAccountedFor'
  <2>1. \A d \in Blocks : (\E f \in Handles : ptr'[f] = d)
                             <=> \E f \in Handles : ptr[f] = d
    BY <1>0, NullAssumption DEF TypeOK
  <2> QED BY <2>1 DEF BlocksAccountedFor, InUse
<1>8. OwnerTellsOrigin' /\ ScannersEmptyHanded'
  BY <1>0 DEF OwnerTellsOrigin, ScannersEmptyHanded, TypeOK
<1> QED BY <1>2, <1>5, <1>6, <1>7, <1>8

\* Replacing one element of a finite set by another keeps its cardinality.
LEMMA ReplaceElement ==
    ASSUME NEW S, IsFiniteSet(S), NEW x \in S, NEW y, y \notin S
    PROVE  Cardinality((S \ {x}) \cup {y}) = Cardinality(S)
<1>1. /\ IsFiniteSet(S \ {x})
      /\ Cardinality(S \ {x}) = Cardinality(S) - 1
  BY FS_RemoveElement
<1>2. Cardinality((S \ {x}) \cup {y}) = Cardinality(S \ {x}) + 1
  BY <1>1, FS_AddElement
<1>3. Cardinality(S) \in Nat
  BY FS_CardinalityType
<1> QED BY <1>1, <1>2, <1>3

LEMMA SwapInv ==
    ASSUME OwnershipInv, NEW g \in Handles, NEW h \in Handles, Swap(g, h)
    PROVE  OwnershipInv'
<1> USE DEF OwnershipInv, Swap, Holds
<1>1. TypeOK'
  BY DEF TypeOK
<1>2. ASSUME NEW d \in Blocks
      PROVE  Cardinality(Holders(d)') = Cardinality(Holders(d))
  <2>1. CASE ptr[g] = ptr[h] \/ (ptr[g] # d /\ ptr[h] # d)
    <3>1. Holders(d)' = Holders(d)
      BY <2>1 DEF Holders, TypeOK
    <3> QED BY <3>1
  <2>2. CASE ptr[h] = d /\ ptr[g] # d
    <3>1. Holders(d)' = (Holders(d) \ {h}) \cup {g}
      BY <2>2 DEF Holders, TypeOK
    <3>2. h \in Holders(d) /\ g \notin Holders(d)
      BY <2>2 DEF Holders
    <3> QED BY <3>1, <3>2, HoldersFinite, ReplaceElement
  <2>3. CASE ptr[g] = d /\ ptr[h] # d
    <3>1. Holders(d)' = (Holders(d) \ {g}) \cup {h}
      BY <2>3 DEF Holders, TypeOK
    <3>2. g \in Holders(d) /\ h \notin Holders(d)
      BY <2>3 DEF Holders
    <3> QED BY <3>1, <3>2, HoldersFinite, ReplaceElement
  <2> QED BY <2>1, <2>2, <2>3
<1>3. RefcountExact'
  BY <1>2 DEF RefcountExact
<1>4. ExclusiveWhenUncounted'
  BY DEF ExclusiveWhenUncounted, TypeOK
<1>5. BlocksAccountedFor'
  <2>1. \A d \in Blocks : (\E f \in Handles : ptr'[f] = d)
                             <=> \E f \in Handles : ptr[f] = d
    BY DEF TypeOK
  <2> QED BY <2>1 DEF BlocksAccountedFor, InUse
<1>6. OwnerTellsOrigin' /\ ScannersEmptyHanded'
  BY DEF OwnerTellsOrigin, ScannersEmptyHanded, TypeOK
<1> QED BY <1>1, <1>3, <1>4, <1>5, <1>6

\* The counter of a held block, read by its holder: at least 1, and 1 only
\* for the last holder.
LEMMA LastHolder ==
    ASSUME OwnershipInv, NEW h \in Handles, Holds(h)
    PROVE  /\ ptr[h] \in Blocks
           /\ refcount[ptr[h]] \in Nat \ {0}
           /\ Cardinality(Holders(ptr[h]) \ {h}) = refcount[ptr[h]] - 1
           /\ refcount[ptr[h]] = 1 <=> \A g \in Handles \ {h} : ptr[g] # ptr[h]
<1> DEFINE b == ptr[h]
<1>1. b \in Blocks /\ h \in Holders(b)
  BY DEF OwnershipInv, TypeOK, Holds, Holders
<1>2. /\ IsFiniteSet(Holders(b) \ {h})
      /\ Cardinality(Holders(b) \ {h}) = refcount[b] - 1
  BY <1>1, HoldersFinite, FS_RemoveElement DEF OwnershipInv, RefcountExact
<1>3. refcount[b] \in Nat /\ refcount[b] - 1 \in Nat
  BY <1>1, <1>2, FS_CardinalityType DEF OwnershipInv, TypeOK
<1>4. refcount[b] = 1 <=> Holders(b) \ {h} = {}
  <2> DEFINE S == Holders(b) \ {h}
  <2>1. IsFiniteSet(S) /\ Cardinality(S) = refcount[b] - 1
    BY <1>2
  <2> HIDE DEF S
  <2>2. Cardinality(S) = 0 <=> S = {}
    BY <2>1, FS_EmptySet
  <2>3. refcount[b] = 1 <=> Cardinality(S) = 0
    BY <1>3, <2>1
  <2>4. refcount[b] = 1 <=> S = {}
    BY <2>2, <2>3
  <2> QED BY <2>4 DEF S
<1>5. \A g \in Handles \ {h} : ptr[g] = b <=> g \in Holders(b)
  BY <1>1, NullAssumption
  DEF OwnershipInv, TypeOK, ExclusiveWhenUncounted, ScannersEmptyHanded, Holders
<1>6. Holders(b) \subseteq Handles
  BY DEF Holders
<1> HIDE DEF b
<1>7. refcount[b] = 1 <=> \A g \in Handles \ {h} : ptr[g] # b
  BY <1>4, <1>5, <1>6
<1> QED BY <1>1, <1>2, <1>3, <1>7 DEF b

LEMMA DropInv ==
    ASSUME OwnershipInv, NEW h \in Handles, Drop(h)
    PROVE  OwnershipInv'
<1> USE DEF OwnershipInv
<1>0. PICK b \in Blocks : b = ptr[h]
  BY LastHolder DEF Drop
<1>1. /\ refcount[b] \in Nat \ {0}
      /\ Cardinality(Holders(b) \ {h}) = refcount[b] - 1
      /\ refcount[b] = 1 <=> \A g \in Handles \ {h} : ptr[g] # b
  BY <1>0, LastHolder DEF Drop
<1>2. TypeOK'
  BY <1>0, <1>1 DEF TypeOK, Drop
<1>3. Holders(b)' = Holders(b) \ {h}
  BY <1>0, <1>1, NullAssumption DEF Holders, TypeOK, Drop, Holds
<1>4. \A d \in Blocks \ {b} : Holders(d)' = Holders(d)
  BY <1>0, NullAssumption DEF Holders, TypeOK, Drop, Holds
<1>5. RefcountExact'
  <2>1. refcount'[b] = Cardinality(Holders(b)')
    BY <1>0, <1>1, <1>3 DEF Drop, TypeOK
  <2>2. \A d \in Blocks \ {b} : refcount'[d] = Cardinality(Holders(d)')
    BY <1>0, <1>4 DEF RefcountExact, TypeOK, Drop
  <2> QED BY <2>1, <2>2 DEF RefcountExact
<1>6. ExclusiveWhenUncounted'
  BY <1>0, <1>1, NullAssumption DEF ExclusiveWhenUncounted, TypeOK, Drop, Holds
<1>7. BlocksAccountedFor'
  <2>1. \A d \in Blocks : (\E f \in Handles : ptr'[f] = d)
                             <=> \E f \in Handles : ptr[f] = d
    <3>1. CASE refcount[b] = 1
      BY <1>0, <3>1 DEF Drop
    <3>2. CASE refcount[b] # 1
      <4>1. PICK g \in Handles \ {h} : ptr[g] = b
        BY <1>0, <1>1, <3>2
      <4>2. ptr' = [ptr EXCEPT ![h] = Null]
        BY <1>0, <3>2 DEF Drop
      <4> QED BY <1>0, <1>1, <4>1, <4>2, NullAssumption DEF TypeOK
    <3> QED BY <1>0, <3>1, <3>2
  <2> QED BY <2>1 DEF BlocksAccountedFor, InUse, Drop
<1>8. OwnerTellsOrigin'
  BY <1>0 DEF OwnerTellsOrigin, TypeOK, Drop, Holds
<1>9. ScannersEmptyHanded'
  BY <1>0 DEF ScannersEmptyHanded, TypeOK, Drop, Holds
<1> QED BY <1>2, <1>5, <1>6, <1>7, <1>8, <1>9

LEMMA ReleaseInv ==
    ASSUME OwnershipInv, NEW h \in Handles, Release(h)
    PROVE  OwnershipInv'
<1> DEFINE b == ptr[h]
<1> USE DEF OwnershipInv, Release
<1>1. /\ b \in Blocks
      /\ \A g \in Handles \ {h} : ptr[g] # b
      /\ owner[b] = "pool" <=> b \in Pool
  BY DEF ExclusiveWhenUncounted, OwnerTellsOrigin
<1>2. TypeOK'
  <2>1. \A d \in Pool : (allocated[d] /\ d # b) \in BOOLEAN
    OBVIOUS
  <2>2. allocated' \in [Pool -> BOOLEAN]
    BY <2>1 DEF TypeOK
  <2>3. onHeap' \in SUBSET Heap
    BY DEF TypeOK
  <2> HIDE DEF b
  <2> QED BY <2>2, <2>3 DEF TypeOK
<1>3. \A d \in Blocks : Holders(d)' = Holders(d)
  BY NullAssumption DEF Holders, TypeOK
<1>4. RefcountExact'
  BY <1>3 DEF RefcountExact
<1>5. ExclusiveWhenUncounted'
  BY NullAssumption DEF ExclusiveWhenUncounted, TypeOK
<1>6. BlocksAccountedFor'
  <2>1. \A d \in Blocks : (\E f \in Handles : ptr'[f] = d)
                             <=> d # b /\ \E f \in Handles : ptr[f] = d
    BY <1>1, NullAssumption DEF TypeOK
  <2>2. \A d \in Blocks : InUse(d)' <=> d # b /\ InUse(d)
    BY <1>1 DEF InUse, TypeOK
  <2>3. \A d \in Blocks : InUse(d) <=> \E f \in Handles : ptr[f] = d
    BY DEF BlocksAccountedFor
  <2> QED BY <2>1, <2>2, <2>3 DEF BlocksAccountedFor
<1>7. OwnerTellsOrigin' /\ ScannersEmptyHanded'
  BY DEF OwnerTellsOrigin, ScannersEmptyHanded, Holds, TypeOK
<1> QED BY <1>2, <1>4, <1>5, <1>6, <1>7

-----------------------------------------------------------------------------
LEMMA NextInv == OwnershipInv /\ [Next]_vars => OwnershipInv'
<1> SUFFICES ASSUME OwnershipInv, [Next]_vars PROVE OwnershipInv'
  OBVIOUS
<1>1. CASE UNCHANGED vars
  BY <1>1
  DEF vars, OwnershipInv, TypeOK, RefcountExact, ExclusiveWhenUncounted,
      BlocksAccountedFor, OwnerTellsOrigin, ScannersEmptyHanded, Holders, Holds,
      InUse
<1> QED
  BY <1>1, StartAllocInv, TestAndSetInv, FallBackInv, ConstructInv, CopyInv,
     SwapInv, DropInv, ReleaseInv
  DEF Next

\* All of the ownership invariants hold in every reachable state.
THEOREM OwnershipCorrect == Spec => []OwnershipInv
  BY InitInv, NextInv, PTL DEF Spec

\* Every variable has its type; no counter becomes negative.
THEOREM TypeCorrect == Spec => []TypeOK
  BY OwnershipCorrect, PTL DEF OwnershipInv

\* Every counter is the number of the block's handles, and a block between
\* acquisition and count, or between its last count and its release, is
\* referred to by one handle.
THEOREM RefcountsExact == Spec => []HandlesCounted
  BY OwnershipCorrect, PTL DEF OwnershipInv, HandlesCounted

\* No block leaks and none is used after it was freed; delete is called on
\* blocks from new only, and free on pool blocks only.
THEOREM NoLeakNoDangling == Spec => []BlocksGoHome
  BY OwnershipCorrect, PTL DEF OwnershipInv, BlocksGoHome

-----------------------------------------------------------------------------
(* The fallback on new.                                                    *)

OneScanner ==
    \A g, h \in Handles :
        stage[g] = "scanning" /\ stage[h] = "scanning" => g = h

\* A scan that never met a full pool still has a free block ahead of it.
FreeBlockAhead ==
    \A h \in Handles : stage[h] = "scanning" =>
        \/ sawFull[h]
        \/ \E b \in position[h] .. NumBlocks : ~allocated[b]

LEMMA NextOneScanner ==
    TypeOK /\ OneScanner /\ [Next]_vars => OneScanner'
<1> SUFFICES ASSUME TypeOK, OneScanner, [Next]_vars,
                    NEW g \in Handles, NEW h \in Handles,
                    stage'[g] = "scanning", stage'[h] = "scanning"
             PROVE  g = h
  BY DEF OneScanner
<1>1. CASE \E f \in Handles : StartAlloc(f)
  BY <1>1 DEF StartAlloc, TypeOK
<1>2. CASE ~ \E f \in Handles : StartAlloc(f)
  <2>1. stage[g] = "scanning" /\ stage[h] = "scanning"
    BY <1>2
    DEF TypeOK, Next, vars, TestAndSet, FallBack, Construct, Copy, Swap, Drop,
        Release
  <2> QED BY <2>1 DEF OneScanner
<1> QED BY <1>1, <1>2

LEMMA NextFreeAhead ==
    TypeOK /\ OneScanner /\ FreeBlockAhead /\ [Next]_vars => FreeBlockAhead'
<1> SUFFICES ASSUME TypeOK, OneScanner, FreeBlockAhead, [Next]_vars,
                    NEW h \in Handles, stage'[h] = "scanning"
             PROVE  \/ sawFull'[h]
                    \/ \E b \in position'[h] .. NumBlocks : ~allocated'[b]
  BY DEF FreeBlockAhead
<1>1. CASE StartAlloc(h)
  BY <1>1, NumBlocksAssumption DEF StartAlloc, Full, Pool, TypeOK
<1>2. CASE TestAndSet(h)
  \* The scan goes on, so the block just tested is not the free one.
  <2>1. /\ stage[h] = "scanning"
        /\ allocated[position[h]]
        /\ position' = [position EXCEPT ![h] = @ + 1]
        /\ UNCHANGED <<allocated, sawFull>>
    BY <1>2 DEF TestAndSet, TypeOK
  <2>2. CASE sawFull[h]
    BY <2>1, <2>2
  <2>3. CASE ~sawFull[h]
    <3>1. PICK b \in position[h] .. NumBlocks : ~allocated[b]
      BY <2>1, <2>3 DEF FreeBlockAhead
    <3>2. position[h] \in Nat /\ position'[h] = position[h] + 1
      BY <2>1 DEF TypeOK
    <3>3. b \in position[h] + 1 .. NumBlocks
      BY <2>1, <3>1, <3>2, NumBlocksAssumption
    <3> QED BY <2>1, <3>1, <3>2, <3>3
  <2> QED BY <2>2, <2>3
<1>3. CASE \E g \in Handles : Release(g)
  \* Freeing a block clears flags and sets none.
  <2>1. /\ stage[h] = "scanning"
        /\ UNCHANGED <<position, sawFull>>
        /\ \A b \in Pool : allocated'[b] => allocated[b]
    BY <1>3 DEF Release, TypeOK
  <2>2. position[h] .. NumBlocks \subseteq Pool
    BY NumBlocksAssumption DEF TypeOK, Pool
  <2> QED BY <2>1, <2>2 DEF FreeBlockAhead
<1>4. CASE ~ \E g \in Handles : Release(g) \/ StartAlloc(g) \/ TestAndSet(g)
  BY <1>4
  DEF FreeBlockAhead, TypeOK, Next, vars, FallBack, Construct, Copy, Swap, Drop
<1>5. ASSUME NEW g \in Handles, g # h, StartAlloc(g) \/ TestAndSet(g)
      PROVE  FALSE
  BY <1>5 DEF StartAlloc, TestAndSet, OneScanner, TypeOK
<1> QED BY <1>1, <1>2, <1>3, <1>4, <1>5

\* As long as one thread at a time allocates, new is used only when the pool
\* has been full during the scan.
THEOREM FallbackNeedsFullPool == Spec => []FallbackOnlyWhenFull
<1>1. Init => OneScanner /\ FreeBlockAhead
  BY DEF Init, OneScanner, FreeBlockAhead
<1>2. TypeOK /\ FreeBlockAhead => FallbackOnlyWhenFull
  BY NumBlocksAssumption DEF TypeOK, FreeBlockAhead, FallbackOnlyWhenFull
<1>3. OwnershipInv => TypeOK
  BY DEF OwnershipInv
<1> QED
  BY <1>1, <1>2, <1>3, OwnershipCorrect, NextOneScanner, NextFreeAhead, PTL
  DEF Spec

-----------------------------------------------------------------------------
(* The pool implements shared ownership.                                   *)

\* What the refinement mapping makes of the pool's state.
ref == [h \in Handles |-> IF stage[h] = "idle" THEN ptr[h] ELSE Null]
live == {b \in Blocks : refcount[b] > 0}

LEMMA InitRefines == Init => Ownership!Init
  BY DEF Init, Ownership!Init

LEMMA NextRefines ==
    OwnershipInv /\ [Next]_vars => [Ownership!Next]_(Ownership!vars)
<1> SUFFICES ASSUME OwnershipInv, [Next]_vars
             PROVE  Ownership!Next \/ UNCHANGED <<ref, live>>
  BY DEF Ownership!vars, ref, live
<1> USE DEF OwnershipInv
<1>1. ASSUME NEW h \in Handles,
             StartAlloc(h) \/ TestAndSet(h) \/ FallBack(h) \/ Release(h)
      PROVE  UNCHANGED <<ref, live>>
  <2>1. refcount' = refcount
    BY <1>1 DEF StartAlloc, TestAndSet, FallBack, Release
  <2>2. \A g \in Handles : ref'[g] = ref[g]
    BY <1>1
    DEF StartAlloc, TestAndSet, FallBack, Release, Empty, ref, TypeOK
  <2>3. ref' = ref
    BY <2>2 DEF ref
  <2> QED BY <2>1, <2>3 DEF live
<1>2. ASSUME NEW h \in Handles, Construct(h)
      PROVE  Ownership!Next
  <2>1. PICK b \in Blocks : b = ptr[h] /\ \A g \in Handles \ {h} : ptr[g] # b
    BY <1>2 DEF Construct, ExclusiveWhenUncounted
  <2>2. Holders(b) = {}
    BY <1>2, <2>1 DEF Holders, Construct
  <2>3. refcount[b] = 0
    BY <2>2, FS_EmptySet DEF RefcountExact
  <2>4. Ownership!Create(h, b)
    <3>1. ref[h] = Null /\ b \notin live
      BY <1>2, <2>3 DEF Construct, ref, live
    <3>2. ref' = [ref EXCEPT ![h] = b]
      BY <1>2, <2>1 DEF Construct, ref, TypeOK
    <3>3. live' = live \cup {b}
      BY <1>2, <2>1 DEF Construct, live, TypeOK
    <3> QED BY <3>1, <3>2, <3>3 DEF Ownership!Create, ref, live
  <2> QED BY <2>4 DEF Ownership!Next
<1>3. ASSUME NEW g \in Handles, NEW h \in Handles, Copy(g, h)
      PROVE  Ownership!Next
  <2>1. ptr[h] \in Blocks /\ refcount[ptr[h]] \in Nat \ {0}
    BY <1>3, LastHolder DEF Copy
  <2>2. live' = live
    BY <1>3, <2>1 DEF Copy, live, TypeOK
  <2>3. Ownership!Share(g, h)
    BY <1>3, <2>1, <2>2
    DEF Copy, Empty, Holds, Ownership!Share, TypeOK, live
  <2> QED BY <2>3 DEF Ownership!Next
<1>4. ASSUME NEW g \in Handles, NEW h \in Handles, Swap(g, h)
      PROVE  Ownership!Next
  <2>1. Ownership!Exchange(g, h)
    BY <1>4 DEF Swap, Holds, Ownership!Exchange, TypeOK
  <2> QED BY <2>1 DEF Ownership!Next
<1>5. ASSUME NEW h \in Handles, Drop(h)
      PROVE  Ownership!Next
  <2>1. PICK b \in Blocks : b = ptr[h]
    BY <1>5, LastHolder DEF Drop
  <2>2. /\ stage[h] = "idle"
        /\ refcount[b] \in Nat \ {0}
        /\ refcount[b] = 1 <=> \A g \in Handles \ {h} : ptr[g] # b
    BY <1>5, <2>1, LastHolder DEF Drop, Holds
  <2>3. \A g \in Handles \ {h} : ref[g] = b <=> ptr[g] = b
    BY <1>5, <2>1, NullAssumption
    DEF Drop, Holds, ref, ExclusiveWhenUncounted, ScannersEmptyHanded, TypeOK
  <2>4. ref[h] = b /\ ref' = [ref EXCEPT ![h] = Null]
    BY <1>5, <2>1, <2>2 DEF Drop, ref, TypeOK
  <2>5. live' = IF refcount[b] = 1 THEN live \ {b} ELSE live
    BY <1>5, <2>1, <2>2 DEF Drop, live, TypeOK
  <2>6. Ownership!Drop(h)
    BY <2>1, <2>2, <2>3, <2>4, <2>5, NullAssumption
    DEF Ownership!Drop, ref, live
  <2> QED BY <2>6 DEF Ownership!Next
<1>6. CASE UNCHANGED vars
  BY <1>6 DEF vars, ref, live
<1> QED
  BY <1>1, <1>2, <1>3, <1>4, <1>5, <1>6 DEF Next

\* Whatever the interleaving, the pool's handles behave as shared ownership:
\* an object lives exactly while somebody refers to it, and a new object is
\* never one that is still referred to.
THEOREM Refines == Spec => ImplementsSharedOwnership
<1>1. ImplementsSharedOwnership
        <=> Ownership!Init /\ [][Ownership!Next]_(Ownership!vars)
  BY DEF ImplementsSharedOwnership, Ownership!Spec
<1> QED
  BY <1>1, InitRefines, NextRefines, OwnershipCorrect, PTL DEF Spec

-----------------------------------------------------------------------------
(* The free_list_pool and the objects of the server, for any size of a      *)
(* chunk, any number of chunks, any ids and positions, any number of blocks *)
(* given back twice, and any sequence of calls.                             *)

\* Where b stands in s.
Occ(s, b) == {i \in DOMAIN s : s[i] = b}

\* The books of a pool: of each of its blocks one owner or one entry, and one
\* more for each time it was given back twice; the capacity that add_chunk
\* reserves is that of all of them.
Whole(pool, own, twice) ==
    /\ pool \in [chunks : 0 .. MaxChunks, free_list : Seq(AllBlocks), capacity : Nat]
    /\ pool.capacity = pool.chunks * ChunkSize
    /\ own \in [AllBlocks -> Nat] /\ twice \in [AllBlocks -> Nat]
    /\ \A b \in AllBlocks :
          own[b] + Cardinality(Occ(pool.free_list, b)) =
              IF b \in BlocksOf(pool) THEN 1 + twice[b] ELSE 0
    /\ \A b \in AllBlocks : b \notin BlocksOf(pool) => twice[b] = 0

LEMMA OccFinite ==
    ASSUME NEW s \in Seq(AllBlocks), NEW b
    PROVE  IsFiniteSet(Occ(s, b)) /\ Cardinality(Occ(s, b)) \in Nat
<1>1. Len(s) \in Nat /\ DOMAIN s = 1 .. Len(s)
  OBVIOUS
<1>2. IsFiniteSet(1 .. Len(s))
  BY <1>1, FS_Interval
<1>3. Occ(s, b) \subseteq 1 .. Len(s)
  BY <1>1 DEF Occ
<1>4. IsFiniteSet(Occ(s, b))
  BY <1>2, <1>3, FS_Subset
<1> QED BY <1>4, FS_CardinalityType

\* An element at the end is one occurrence more of itself, and of no other.
LEMMA OccAppend ==
    ASSUME NEW s \in Seq(AllBlocks), NEW b \in AllBlocks, NEW c \in AllBlocks
    PROVE  Cardinality(Occ(Append(s, b), c)) =
               Cardinality(Occ(s, c)) + (IF c = b THEN 1 ELSE 0)
<1> DEFINE n == Len(s)
           longer == Append(s, b)
<1>1. /\ n \in Nat /\ DOMAIN s = 1 .. n /\ DOMAIN longer = 1 .. n + 1
      /\ longer[n + 1] = b /\ \A i \in 1 .. n : longer[i] = s[i]
  OBVIOUS
<1> HIDE DEF n, longer
<1>2. \A i : i \in 1 .. n + 1 <=> i \in 1 .. n \/ i = n + 1
  BY <1>1
<1>3. Occ(longer, c) = IF c = b THEN Occ(s, c) \cup {n + 1} ELSE Occ(s, c)
  BY <1>1, <1>2 DEF Occ
<1>4. n + 1 \notin Occ(s, c)
  <2>1. n + 1 \notin 1 .. n
    BY <1>1
  <2> QED BY <1>1, <2>1 DEF Occ
<1>5. Cardinality(Occ(s, c) \cup {n + 1}) = Cardinality(Occ(s, c)) + 1
  BY <1>4, OccFinite, FS_AddElement
<1>6. Cardinality(Occ(s, c)) \in Nat
  BY OccFinite
<1> QED BY <1>3, <1>5, <1>6 DEF longer

LEMMA FrontThenLast ==
    ASSUME NEW s \in Seq(AllBlocks), s # <<>>
    PROVE  /\ Front(s) \in Seq(AllBlocks) /\ Last(s) \in AllBlocks
           /\ s = Append(Front(s), Last(s))
<1> DEFINE n == Len(s) - 1
           shorter == Front(s)
           whole == Append(Front(s), Last(s))
<1>1. n \in Nat /\ Len(s) = n + 1 /\ DOMAIN s = 1 .. n + 1 /\ Last(s) = s[n + 1]
  BY DEF Last
<1>2. Front(s) = SubSeq(s, 1, n)
  BY DEF Front
<1> HIDE DEF n
<1>3. Last(s) \in AllBlocks
  BY <1>1
<1>4. /\ shorter \in Seq(AllBlocks) /\ Len(shorter) = n
      /\ \A i \in 1 .. n : shorter[i] = s[i]
  BY <1>1, <1>2
<1> HIDE DEF shorter
<1>5. /\ whole \in Seq(AllBlocks) /\ Len(whole) = n + 1
      /\ whole[n + 1] = s[n + 1] /\ \A i \in 1 .. n : whole[i] = s[i]
  BY <1>1, <1>3, <1>4 DEF shorter
<1> HIDE DEF whole
<1>6. \A i \in 1 .. n + 1 : i \in 1 .. n \/ i = n + 1
  BY <1>1
<1>7. \A i \in 1 .. n + 1 : whole[i] = s[i]
  BY <1>5, <1>6
<1>8. whole = s
  BY <1>1, <1>5, <1>7
<1> QED BY <1>3, <1>4, <1>8 DEF shorter, whole

LEMMA ProductsGrow ==
    ASSUME NEW a \in Nat, NEW b \in Nat, NEW k \in Nat, a <= b
    PROVE  a * k \in Nat /\ b * k \in Nat /\ a * k <= b * k
<1> DEFINE d == b - a
<1>1. d \in Nat /\ b = a + d
  OBVIOUS
<1> HIDE DEF d
<1>2. (a + d) * k = a * k + d * k /\ a * k \in Nat /\ d * k \in Nat
  BY <1>1
<1> QED BY <1>1, <1>2

\* The blocks of a new chunk are new, and as many as the pool may number.
LEMMA ChunkFits ==
    ASSUME NEW n \in Nat, n < MaxChunks
    PROVE  /\ n * ChunkSize \in Nat
           /\ (n + 1) * ChunkSize = n * ChunkSize + ChunkSize
           /\ (n + 1) * ChunkSize <= MaxChunks * ChunkSize
           /\ MaxChunks * ChunkSize \in Nat
<1>1. MaxChunks \in Nat /\ ChunkSize \in Nat \ {0} /\ n + 1 \in Nat /\ n + 1 <= MaxChunks
  BY ObjectsAssumption, ChunkSizeAssumption
<1>2. (n + 1) * ChunkSize = n * ChunkSize + ChunkSize /\ n * ChunkSize \in Nat
  BY <1>1
<1>3. /\ MaxChunks * ChunkSize \in Nat
      /\ (n + 1) * ChunkSize <= MaxChunks * ChunkSize
  BY <1>1, ProductsGrow
<1> QED BY <1>2, <1>3

LEMMA BlocksFit ==
    ASSUME NEW pool, NEW own, NEW twice, Whole(pool, own, twice)
    PROVE  BlocksOf(pool) \subseteq AllBlocks
<1>1. pool.chunks \in Nat /\ MaxChunks \in Nat /\ pool.chunks <= MaxChunks /\ ChunkSize \in Nat
  BY ObjectsAssumption, ChunkSizeAssumption DEF Whole
<1>2. /\ pool.chunks * ChunkSize \in Nat /\ MaxChunks * ChunkSize \in Nat
      /\ pool.chunks * ChunkSize <= MaxChunks * ChunkSize
  BY <1>1, ProductsGrow
<1> QED BY <1>2 DEF AllBlocks, BlocksOf

LEMMA AddChunkWhole ==
    ASSUME NEW pool, NEW own, NEW twice, Whole(pool, own, twice),
           pool.free_list = <<>>, pool.chunks < MaxChunks
    PROVE  Whole(add_chunk(pool), own, twice) /\ add_chunk(pool).free_list # <<>>
<1> DEFINE first == pool.chunks * ChunkSize
           new == [i \in 1 .. ChunkSize |-> first + i]
           grown == add_chunk(pool)
<1>1. /\ pool.chunks \in Nat /\ pool.chunks + 1 \in 0 .. MaxChunks
      /\ ChunkSize \in Nat \ {0}
  BY ObjectsAssumption, ChunkSizeAssumption DEF Whole
<1>2. /\ first \in Nat /\ (pool.chunks + 1) * ChunkSize = first + ChunkSize
      /\ first + ChunkSize <= MaxChunks * ChunkSize /\ MaxChunks * ChunkSize \in Nat
  BY <1>1, ChunkFits
<1>3. BlocksOf(pool) = 1 .. first
  BY DEF BlocksOf
<1> HIDE DEF first
<1>4. \A i \in 1 .. ChunkSize : first + i \in AllBlocks
  BY <1>1, <1>2 DEF AllBlocks
<1>5. /\ new \in Seq(AllBlocks) /\ DOMAIN new = 1 .. ChunkSize
      /\ new # <<>>
      /\ \A i \in 1 .. ChunkSize : new[i] = first + i
  BY <1>1, <1>4
<1>6. pool.free_list \o new = new
  BY <1>5
<1> HIDE DEF new
<1>7. grown = [chunks |-> pool.chunks + 1, free_list |-> new,
               capacity |-> first + ChunkSize]
  BY <1>2, <1>6 DEF add_chunk, new, first
<1> HIDE DEF grown
<1>8. /\ grown \in [chunks : 0 .. MaxChunks, free_list : Seq(AllBlocks), capacity : Nat]
      /\ grown.capacity = grown.chunks * ChunkSize
      /\ BlocksOf(grown) = 1 .. first + ChunkSize /\ grown.free_list = new
  BY <1>1, <1>2, <1>5, <1>7 DEF BlocksOf
<1>9. own \in [AllBlocks -> Nat] /\ twice \in [AllBlocks -> Nat]
  BY DEF Whole
<1>10. ASSUME NEW b \in AllBlocks
       PROVE  own[b] + Cardinality(Occ(new, b)) =
                  IF b \in 1 .. first + ChunkSize THEN 1 + twice[b] ELSE 0
  <2>1. own[b] = IF b \in 1 .. first THEN 1 + twice[b] ELSE 0
    <3>1. Occ(pool.free_list, b) = {}
      BY DEF Occ
    <3>2. Cardinality(Occ(pool.free_list, b)) = 0
      BY <3>1, FS_EmptySet
    <3>3. own[b] + 0 = IF b \in 1 .. first THEN 1 + twice[b] ELSE 0
      BY <1>3, <3>2 DEF Whole
    <3>4. own[b] \in Nat
      BY <1>9
    <3> QED BY <3>3, <3>4
  <2>2. b \in Nat /\ own[b] \in Nat /\ twice[b] \in Nat
    BY <1>2, <1>9 DEF AllBlocks
  <2>3. CASE b \in first + 1 .. first + ChunkSize
    <3>1. twice[b] = 0 /\ own[b] = 0
      <4>1. b \notin 1 .. first
        BY <1>2, <2>2, <2>3
      <4> QED BY <1>3, <2>1, <4>1 DEF Whole
    <3>2. b - first \in 1 .. ChunkSize
      BY <1>1, <1>2, <2>2, <2>3
    <3>3. \A i \in 1 .. ChunkSize : first + i = b <=> i = b - first
      BY <1>1, <1>2, <2>2
    <3>4. Occ(new, b) = {b - first}
      BY <1>5, <3>2, <3>3 DEF Occ
    <3>5. Cardinality(Occ(new, b)) = 1
      BY <3>4, FS_Singleton
    <3>6. b \in 1 .. first + ChunkSize
      BY <1>1, <1>2, <2>3
    <3> QED BY <3>1, <3>5, <3>6
  <2>4. CASE b \notin first + 1 .. first + ChunkSize
    <3>1. \A i \in 1 .. ChunkSize : first + i # b
      BY <1>1, <1>2, <2>2, <2>4
    <3>2. Occ(new, b) = {}
      BY <1>5, <3>1 DEF Occ
    <3>3. Cardinality(Occ(new, b)) = 0
      BY <3>2, FS_EmptySet
    <3>4. b \in 1 .. first <=> b \in 1 .. first + ChunkSize
      BY <1>1, <1>2, <2>2, <2>4
    <3>5. own[b] + Cardinality(Occ(new, b)) = own[b]
      BY <2>2, <3>3
    <3> QED BY <2>1, <3>4, <3>5
  <2> QED BY <2>3, <2>4
<1>11. ASSUME NEW b \in AllBlocks, b \notin 1 .. first + ChunkSize PROVE twice[b] = 0
  <2>1. b \notin 1 .. first
    BY <1>1, <1>2, <1>11
  <2> QED BY <1>3, <2>1 DEF Whole
<1>12. Whole(grown, own, twice)
  BY <1>8, <1>9, <1>10, <1>11 DEF Whole
<1> QED BY <1>5, <1>8, <1>12 DEF grown

\* The last of the free blocks goes to who asked for it.
LEMMA PopWhole ==
    ASSUME NEW pool, NEW own, NEW twice, Whole(pool, own, twice), pool.free_list # <<>>
    PROVE  LET b == Last(pool.free_list)
           IN  /\ b \in AllBlocks
               /\ Whole([pool EXCEPT !.free_list = Front(@)], [own EXCEPT ![b] = @ + 1], twice)
<1> DEFINE s == pool.free_list
           b == Last(s)
           popped == [pool EXCEPT !.free_list = Front(@)]
           owned == [own EXCEPT ![b] = @ + 1]
<1>1. /\ pool \in [chunks : 0 .. MaxChunks, free_list : Seq(AllBlocks), capacity : Nat]
      /\ s \in Seq(AllBlocks) /\ s # <<>> /\ own \in [AllBlocks -> Nat]
  BY DEF Whole
<1>2. Front(s) \in Seq(AllBlocks) /\ b \in AllBlocks /\ s = Append(Front(s), b)
  BY <1>1, FrontThenLast
<1>3. /\ popped \in [chunks : 0 .. MaxChunks, free_list : Seq(AllBlocks), capacity : Nat]
      /\ popped.chunks = pool.chunks /\ popped.free_list = Front(s)
      /\ popped.capacity = pool.capacity
  BY <1>1, <1>2
<1>4. /\ owned \in [AllBlocks -> Nat]
      /\ \A c \in AllBlocks : owned[c] = own[c] + (IF c = b THEN 1 ELSE 0)
  BY <1>1, <1>2
<1>5. ASSUME NEW c \in AllBlocks
      PROVE  /\ Cardinality(Occ(s, c)) =
                    Cardinality(Occ(Front(s), c)) + (IF c = b THEN 1 ELSE 0)
             /\ Cardinality(Occ(Front(s), c)) \in Nat
  <2> HIDE DEF s, b
  <2>1. Cardinality(Occ(Append(Front(s), b), c)) =
            Cardinality(Occ(Front(s), c)) + (IF c = b THEN 1 ELSE 0)
    BY <1>2, OccAppend
  <2>2. Cardinality(Occ(Front(s), c)) \in Nat
    BY <1>2, OccFinite
  <2>3. Occ(s, c) = Occ(Append(Front(s), b), c)
    BY <1>2
  <2> QED BY <2>1, <2>2, <2>3
<1> HIDE DEF s, b, popped, owned
<1>6. \A c \in AllBlocks :
          own[c] + Cardinality(Occ(s, c)) = owned[c] + Cardinality(Occ(Front(s), c))
  <2> TAKE c \in AllBlocks
  <2>1. own[c] \in Nat
    BY <1>1
  <2> QED BY <1>4, <1>5, <2>1
<1>7. BlocksOf(popped) = BlocksOf(pool)
  BY <1>3 DEF BlocksOf
<1>8. Whole(popped, owned, twice)
  BY <1>3, <1>4, <1>6, <1>7 DEF Whole, s
<1> QED BY <1>2, <1>8 DEF s, b, popped, owned

LEMMA AllocWhole ==
    ASSUME NEW pool, NEW own, NEW twice, Whole(pool, own, twice),
           pool.free_list # <<>> \/ pool.chunks < MaxChunks
    PROVE  LET b == Allocated(pool)
           IN  b \in AllBlocks /\ Whole(alloc(pool), [own EXCEPT ![b] = @ + 1], twice)
<1>1. Whole(Refilled(pool), own, twice) /\ Refilled(pool).free_list # <<>>
  BY AddChunkWhole DEF Refilled
<1> QED BY <1>1, PopWhole DEF Allocated, alloc

\* What free changes: one entry more of its block.
LEMMA FreeEntries ==
    ASSUME NEW pool, NEW own, NEW twice, Whole(pool, own, twice), NEW b \in AllBlocks
    PROVE  /\ free(pool, b) \in [chunks : 0 .. MaxChunks, free_list : Seq(AllBlocks),
                                 capacity : Nat]
           /\ free(pool, b).capacity = free(pool, b).chunks * ChunkSize
           /\ BlocksOf(free(pool, b)) = BlocksOf(pool)
           /\ \A c \in AllBlocks :
                 /\ Cardinality(Occ(pool.free_list, c)) \in Nat
                 /\ Cardinality(Occ(free(pool, b).free_list, c)) =
                        Cardinality(Occ(pool.free_list, c)) + (IF c = b THEN 1 ELSE 0)
<1> DEFINE s == pool.free_list
           freed == free(pool, b)
<1>1. /\ pool \in [chunks : 0 .. MaxChunks, free_list : Seq(AllBlocks), capacity : Nat]
      /\ s \in Seq(AllBlocks) /\ pool.capacity = pool.chunks * ChunkSize
  BY DEF Whole
<1>2. Append(s, b) \in Seq(AllBlocks)
  BY <1>1
<1>3. /\ freed \in [chunks : 0 .. MaxChunks, free_list : Seq(AllBlocks), capacity : Nat]
      /\ freed.chunks = pool.chunks /\ freed.capacity = pool.capacity
      /\ freed.free_list = Append(s, b)
  BY <1>1, <1>2 DEF free
<1>4. \A c \in AllBlocks :
          /\ Cardinality(Occ(s, c)) \in Nat
          /\ Cardinality(Occ(Append(s, b), c)) =
                 Cardinality(Occ(s, c)) + (IF c = b THEN 1 ELSE 0)
  BY <1>1, OccAppend, OccFinite
<1> HIDE DEF freed
<1> QED BY <1>1, <1>3, <1>4 DEF BlocksOf, freed

\* An owner gives its block back.
LEMMA FreeWhole ==
    ASSUME NEW pool, NEW own, NEW twice, Whole(pool, own, twice),
           NEW b \in AllBlocks, own[b] > 0
    PROVE  Whole(free(pool, b), [own EXCEPT ![b] = @ - 1], twice)
<1> DEFINE freed == free(pool, b)
           left == [own EXCEPT ![b] = @ - 1]
<1>1. own \in [AllBlocks -> Nat] /\ own[b] \in Nat /\ own[b] > 0
  BY DEF Whole
<1>2. left \in [AllBlocks -> Nat]
  BY <1>1
<1>3. \A c \in AllBlocks : own[c] = left[c] + (IF c = b THEN 1 ELSE 0)
  BY <1>1
<1>4. /\ freed \in [chunks : 0 .. MaxChunks, free_list : Seq(AllBlocks), capacity : Nat]
      /\ freed.capacity = freed.chunks * ChunkSize
      /\ BlocksOf(freed) = BlocksOf(pool)
      /\ \A c \in AllBlocks :
            /\ Cardinality(Occ(pool.free_list, c)) \in Nat
            /\ Cardinality(Occ(freed.free_list, c)) =
                   Cardinality(Occ(pool.free_list, c)) + (IF c = b THEN 1 ELSE 0)
  BY FreeEntries
<1> HIDE DEF left, freed
<1>5. \A c \in AllBlocks :
          left[c] + Cardinality(Occ(freed.free_list, c)) =
              own[c] + Cardinality(Occ(pool.free_list, c))
  <2> TAKE c \in AllBlocks
  <2>1. left[c] \in Nat
    BY <1>2
  <2> QED BY <1>3, <1>4, <2>1
<1>6. Whole(freed, left, twice)
  BY <1>2, <1>5, <1>4 DEF Whole
<1> QED BY <1>6 DEF left, freed

\* A block of the pool is given back by nobody who owned it.
LEMMA FreeAgainWhole ==
    ASSUME NEW pool, NEW own, NEW twice, Whole(pool, own, twice),
           NEW b \in BlocksOf(pool)
    PROVE  Whole(free(pool, b), own, [twice EXCEPT ![b] = @ + 1])
<1> DEFINE freed == free(pool, b)
           more == [twice EXCEPT ![b] = @ + 1]
<1>1. b \in AllBlocks
  BY BlocksFit
<1>2. own \in [AllBlocks -> Nat] /\ twice \in [AllBlocks -> Nat]
  BY DEF Whole
<1>3. /\ more \in [AllBlocks -> Nat]
      /\ \A c \in AllBlocks : more[c] = twice[c] + (IF c = b THEN 1 ELSE 0)
  BY <1>1, <1>2
<1>4. /\ freed \in [chunks : 0 .. MaxChunks, free_list : Seq(AllBlocks), capacity : Nat]
      /\ freed.capacity = freed.chunks * ChunkSize
      /\ BlocksOf(freed) = BlocksOf(pool)
      /\ \A c \in AllBlocks :
            /\ Cardinality(Occ(pool.free_list, c)) \in Nat
            /\ Cardinality(Occ(freed.free_list, c)) =
                   Cardinality(Occ(pool.free_list, c)) + (IF c = b THEN 1 ELSE 0)
  BY <1>1, FreeEntries
<1> HIDE DEF more, freed
<1>5. \A c \in AllBlocks :
          own[c] + Cardinality(Occ(freed.free_list, c)) =
              IF c \in BlocksOf(pool) THEN 1 + more[c] ELSE 0
  <2> TAKE c \in AllBlocks
  <2>1. own[c] \in Nat /\ twice[c] \in Nat
    BY <1>2
  <2>2. own[c] + Cardinality(Occ(pool.free_list, c)) =
            IF c \in BlocksOf(pool) THEN 1 + twice[c] ELSE 0
    BY DEF Whole
  <2>3. /\ Cardinality(Occ(pool.free_list, c)) \in Nat
        /\ Cardinality(Occ(freed.free_list, c)) =
               Cardinality(Occ(pool.free_list, c)) + (IF c = b THEN 1 ELSE 0)
    BY <1>4
  <2> QED BY <1>3, <2>1, <2>2, <2>3
<1>6. \A c \in AllBlocks : c \notin BlocksOf(pool) => more[c] = 0
  <2> TAKE c \in AllBlocks
  <2>1. twice[c] \in Nat
    BY <1>2
  <2>2. c \notin BlocksOf(pool) => twice[c] = 0
    BY DEF Whole
  <2> QED BY <1>3, <2>1, <2>2
<1>7. Whole(freed, own, more)
  BY <1>2, <1>3, <1>5, <1>6, <1>4 DEF Whole
<1> QED BY <1>7 DEF more, freed

\* While a block is owned and none was given back twice, the entries of the
\* list are fewer than the capacity: they differ, and are not that block.
LEMMA WholeFree ==
    ASSUME NEW pool, NEW own, NEW twice, Whole(pool, own, twice),
           NEW b \in AllBlocks, own[b] > 0,
           \A c \in AllBlocks : ~(twice[c] > 0)
    PROVE  FreeAssertion(pool)
<1> DEFINE s == pool.free_list
           n == Len(s)
           k == pool.capacity
           other == (1 .. k) \ {b}
<1>1. /\ s \in Seq(AllBlocks) /\ k \in Nat /\ BlocksOf(pool) = 1 .. k
      /\ n \in Nat /\ DOMAIN s = 1 .. n /\ \A i \in 1 .. n : s[i] \in AllBlocks
  <2>1. s \in Seq(AllBlocks) /\ k \in Nat /\ BlocksOf(pool) = 1 .. k
    BY DEF Whole, BlocksOf
  <2> QED BY <2>1
<1>2. ASSUME NEW c \in AllBlocks
      PROVE  /\ Cardinality(Occ(s, c)) \in Nat /\ IsFiniteSet(Occ(s, c))
             /\ own[c] \in Nat
             /\ own[c] + Cardinality(Occ(s, c)) = IF c \in 1 .. k THEN 1 ELSE 0
  <2>1. twice[c] \in Nat /\ own[c] \in Nat
    BY DEF Whole
  <2>2. twice[c] = 0
    BY <2>1
  <2>3. own[c] + Cardinality(Occ(s, c)) = IF c \in 1 .. k THEN 1 + twice[c] ELSE 0
    BY <1>1 DEF Whole
  <2>4. Cardinality(Occ(s, c)) \in Nat /\ IsFiniteSet(Occ(s, c))
    BY <1>1, OccFinite
  <2> QED BY <2>1, <2>2, <2>3, <2>4
<1> HIDE DEF s, n, k
<1>3. \A i \in 1 .. n : i \in Occ(s, s[i])
  BY <1>1 DEF Occ
<1>4. b \in 1 .. k
  BY <1>2
<1>5. ASSUME NEW i \in 1 .. n PROVE s[i] \in other
  <2>1. Cardinality(Occ(s, s[i])) # 0
    BY <1>1, <1>2, <1>3, FS_EmptySet
  <2>2. s[i] \in 1 .. k /\ own[s[i]] = 0
    BY <1>1, <1>2, <2>1
  <2> QED BY <2>2
<1>6. s \in [1 .. n -> other]
  <2>1. s = [i \in 1 .. n |-> s[i]]
    BY <1>1
  <2> HIDE DEF other
  <2> QED BY <1>5, <2>1
<1>7. ASSUME NEW x \in 1 .. n, NEW y \in 1 .. n, s[x] = s[y] PROVE x = y
  <2> SUFFICES ASSUME x # y PROVE FALSE
    OBVIOUS
  <2> DEFINE c == s[x]
  <2>1. c \in AllBlocks /\ {x, y} \subseteq Occ(s, c)
    BY <1>1, <1>3, <1>7
  <2> HIDE DEF c
  <2>2. Cardinality({x, y}) = 2
    <3>1. IsFiniteSet({x}) /\ Cardinality({x}) = 1
      BY FS_Singleton
    <3>2. {x, y} = {x} \cup {y} /\ y \notin {x}
      OBVIOUS
    <3> QED BY <3>1, <3>2, FS_AddElement
  <2>3. Cardinality({x, y}) <= Cardinality(Occ(s, c))
    BY <1>2, <2>1, FS_Subset
  <2>4. Cardinality(Occ(s, c)) <= 1
    BY <1>2, <2>1
  <2>5. Cardinality(Occ(s, c)) \in Nat
    BY <1>2, <2>1
  <2> QED BY <2>2, <2>3, <2>4, <2>5
<1>8. IsFiniteSet(other) /\ Cardinality(other) = k - 1
  <2>1. IsFiniteSet(1 .. k) /\ Cardinality(1 .. k) = k
    BY <1>1, FS_Interval
  <2> QED BY <1>4, <2>1, FS_RemoveElement
<1>9. IsFiniteSet(1 .. n) /\ Cardinality(1 .. n) = n
  BY <1>1, FS_Interval
<1> HIDE DEF other
<1>10. ~(k - 1 < n)
  <2> SUFFICES ASSUME k - 1 < n PROVE FALSE
    OBVIOUS
  <2>1. \E x, y \in 1 .. n : x # y /\ s[x] = s[y]
    BY <1>6, <1>8, <1>9, FS_PigeonHole
  <2> QED BY <1>7, <2>1
<1> QED BY <1>1, <1>10 DEF FreeAssertion, s, n, k

-----------------------------------------------------------------------------
(* The server.                                                             *)

FrameType(f) ==
    /\ f = [updated |-> f.updated, destroyed |-> f.destroyed]
    /\ DOMAIN f.updated \subseteq Ids \cup {0} /\ f.destroyed \subseteq Ids
    /\ \A i \in DOMAIN f.updated : f.updated[i] \in Objects

ObjectsInv ==
    /\ Whole(object_pool, owners, given_twice)
    /\ aborted \in BOOLEAN
    /\ aborted => \E b \in AllBlocks : given_twice[b] > 0
    /\ handles \subseteq AllBlocks
    /\ object \in [AllBlocks -> Objects]
    /\ updated \subseteq AllBlocks
    /\ FrameType(frame)

LEMMA RecordedType ==
    ASSUME FrameType(frame), object \in [AllBlocks -> Objects], NEW b \in AllBlocks
    PROVE  FrameType(Recorded(b))
<1> DEFINE id == object[b].id
           old == frame.updated
           new == [i \in DOMAIN old \cup {id} |-> IF i \in DOMAIN old THEN old[i] ELSE object[b]]
<1>1. id \in Ids \cup {0} /\ object[b] \in Objects
  BY DEF Objects
<1>2. Recorded(b) = [updated |-> new, destroyed |-> frame.destroyed]
  <2>1. frame = [updated |-> old, destroyed |-> frame.destroyed]
    BY DEF FrameType
  <2>2. Recorded(b) = [frame EXCEPT !.updated = new]
    BY DEF Recorded
  <2> HIDE DEF old, new
  <2> QED BY <2>1, <2>2
<1>3. /\ DOMAIN new \subseteq Ids \cup {0}
      /\ \A i \in DOMAIN new : new[i] \in Objects
  BY <1>1 DEF FrameType
<1> HIDE DEF new
<1> QED BY <1>2, <1>3 DEF FrameType

LEMMA NewObjectType == NewObject \in Objects
BY ObjectsAssumption DEF NewObject, Objects

LEMMA InitObjects == ObjectsInit => ObjectsInv
<1> SUFFICES ASSUME ObjectsInit PROVE ObjectsInv
  OBVIOUS
<1>1. Whole(object_pool, owners, given_twice)
  <2>1. MaxChunks \in Nat /\ ChunkSize \in Nat
    BY ObjectsAssumption, ChunkSizeAssumption
  <2>2. 0 * ChunkSize = 0 /\ 1 .. 0 = {}
    BY <2>1
  <2>3. <<>> \in Seq(AllBlocks)
    OBVIOUS
  <2>4. EmptyPool \in [chunks : 0 .. MaxChunks, free_list : Seq(AllBlocks), capacity : Nat]
    BY <2>1, <2>3 DEF EmptyPool
  <2>5. /\ EmptyPool.chunks = 0 /\ EmptyPool.free_list = <<>> /\ EmptyPool.capacity = 0
        /\ BlocksOf(EmptyPool) = {}
    BY <2>2 DEF EmptyPool, BlocksOf
  <2>6. \A b \in AllBlocks : Cardinality(Occ(<<>>, b)) = 0
    <3> TAKE b \in AllBlocks
    <3>1. Occ(<<>>, b) = {}
      BY DEF Occ
    <3> QED BY <3>1, FS_EmptySet
  <2>7. /\ owners \in [AllBlocks -> Nat] /\ given_twice \in [AllBlocks -> Nat]
        /\ \A b \in AllBlocks : owners[b] = 0 /\ given_twice[b] = 0
    BY DEF ObjectsInit
  <2>8. object_pool = EmptyPool
    BY DEF ObjectsInit
  <2> QED BY <2>2, <2>4, <2>5, <2>6, <2>7, <2>8 DEF Whole
<1>2. FrameType(frame)
  BY DEF ObjectsInit, FrameType
<1> QED BY <1>1, <1>2, NewObjectType DEF ObjectsInit, ObjectsInv

LEMMA CreateObjects ==
    ASSUME ObjectsInv, create_object
    PROVE  ObjectsInv'
<1> DEFINE b == Allocated(object_pool)
           owned == [owners EXCEPT ![b] = @ + 1]
<1>1. b \in AllBlocks /\ Whole(alloc(object_pool), owned, given_twice)
  BY AllocWhole DEF ObjectsInv, create_object
<1>2. FrameType(Recorded(b))
  BY <1>1, RecordedType DEF ObjectsInv
<1>3. /\ object_pool' = alloc(object_pool) /\ owners' = owned
      /\ frame' = Recorded(b) /\ updated' = updated \cup {b}
      /\ handles' = handles \cup {b}
      /\ UNCHANGED <<object, aborted, given_twice>>
  BY DEF create_object
<1> HIDE DEF b, owned
<1> QED BY <1>1, <1>2, <1>3 DEF ObjectsInv

LEMMA AssignObjects ==
    ASSUME ObjectsInv, NEW b \in AllBlocks, NEW id \in Ids, AssignId(b, id)
    PROVE  ObjectsInv'
<1>1. object' \in [AllBlocks -> Objects]
  <2>1. [object[b] EXCEPT !.id = id] \in Objects
    BY DEF ObjectsInv, Objects
  <2>2. object' = [object EXCEPT ![b] = [object[b] EXCEPT !.id = id]]
    BY DEF AssignId
  <2> QED BY <2>1, <2>2 DEF ObjectsInv
<1> QED BY <1>1 DEF ObjectsInv, AssignId

\* Destroying an object changes neither the pool nor the pointers.
LEMMA DestroyKeeps ==
    ASSUME ObjectsInv, NEW b \in AllBlocks, object[b].id # 0, Destroy(b)
    PROVE  /\ object' \in [AllBlocks -> Objects]
           /\ updated' \subseteq AllBlocks
           /\ FrameType(frame')
<1>1. object[b].id \in Ids
  BY DEF ObjectsInv, Objects
<1>2. FrameType(frame')
  <2>1. frame = [updated |-> frame.updated, destroyed |-> frame.destroyed]
    BY DEF ObjectsInv, FrameType
  <2>2. frame' = [updated |-> frame.updated,
                  destroyed |-> frame.destroyed \cup {object[b].id}]
    BY <2>1 DEF Destroy
  <2> QED BY <1>1, <2>2 DEF ObjectsInv, FrameType
<1> QED BY <1>2, NewObjectType DEF ObjectsInv, Destroy

\* One owner gives back its block: the books stay balanced, and the assertion
\* holds unless some block was given back twice before.
LEMMA DisownWhole ==
    ASSUME ObjectsInv, NEW b \in AllBlocks, Disown(b)
    PROVE  /\ Whole(free(object_pool, b), owners', given_twice)
           /\ ~FreeAssertion(object_pool) => \E c \in AllBlocks : given_twice[c] > 0
<1>1. /\ Whole(object_pool, owners, given_twice) /\ owners[b] > 0
      /\ owners' = [owners EXCEPT ![b] = @ - 1]
  BY DEF ObjectsInv, Disown
<1>2. Whole(free(object_pool, b), owners', given_twice)
  BY <1>1, FreeWhole
<1>3. ~FreeAssertion(object_pool) => \E c \in AllBlocks : given_twice[c] > 0
  BY <1>1, WholeFree
<1> QED BY <1>2, <1>3

LEMMA DestroyObjects ==
    ASSUME ObjectsInv, NEW b \in AllBlocks, destroy_object(b)
    PROVE  ObjectsInv'
<1>1. /\ Whole(free(object_pool, b), owners', given_twice)
      /\ ~FreeAssertion(object_pool) => \E c \in AllBlocks : given_twice[c] > 0
  BY DisownWhole DEF destroy_object
<1>2. /\ object' \in [AllBlocks -> Objects] /\ updated' \subseteq AllBlocks
      /\ FrameType(frame')
  BY DestroyKeeps DEF destroy_object
<1>3. /\ object_pool' = free(object_pool, b) /\ aborted' = ~FreeAssertion(object_pool)
      /\ UNCHANGED <<handles, given_twice>>
  BY DEF destroy_object
<1>4. aborted' \in BOOLEAN /\ (aborted' => \E c \in AllBlocks : given_twice'[c] > 0)
  BY <1>1, <1>3
<1> QED BY <1>1, <1>2, <1>3, <1>4 DEF ObjectsInv

LEMMA FreeOnceObjects ==
    ASSUME ObjectsInv, NEW b \in AllBlocks, Disown(b), FreeOnce(b), UNCHANGED handles
    PROVE  ObjectsInv'
<1>1. /\ Whole(free(object_pool, b), owners', given_twice)
      /\ ~FreeAssertion(object_pool) => \E c \in AllBlocks : given_twice[c] > 0
  BY DisownWhole
<1>2. /\ object_pool' = free(object_pool, b) /\ aborted' = ~FreeAssertion(object_pool)
      /\ UNCHANGED <<object, updated, frame, given_twice>>
  BY DEF FreeOnce
<1>3. aborted' \in BOOLEAN /\ (aborted' => \E c \in AllBlocks : given_twice'[c] > 0)
  BY <1>1, <1>2
<1> QED BY <1>1, <1>2, <1>3 DEF ObjectsInv

\* The owner gave the block back in destroy_object; the second time nobody did.
LEMMA FreeTwiceObjects ==
    ASSUME ObjectsInv, NEW b \in AllBlocks, Disown(b), FreeTwice(b), UNCHANGED handles
    PROVE  ObjectsInv'
<1> DEFINE once == free(object_pool, b)
           more == [given_twice EXCEPT ![b] = @ + 1]
<1>1. /\ object_pool' = free(once, b) /\ given_twice' = more
      /\ aborted' = ~(FreeAssertion(object_pool) /\ FreeAssertion(once))
  BY DEF FreeTwice
<1>2. Whole(once, owners', given_twice)
  BY DisownWhole
<1>3. b \in BlocksOf(once)
  <2>1. /\ owners[b] \in Nat /\ owners[b] > 0
        /\ Cardinality(Occ(object_pool.free_list, b)) \in Nat
    BY OccFinite DEF ObjectsInv, Whole, Disown
  <2>2. b \in BlocksOf(object_pool)
    BY <2>1 DEF ObjectsInv, Whole
  <2> QED BY <2>2, FreeEntries DEF ObjectsInv
<1> HIDE DEF once
<1>4. Whole(free(once, b), owners', more)
  BY <1>2, <1>3, FreeAgainWhole
<1>5. more[b] > 0
  <2>1. given_twice \in [AllBlocks -> Nat]
    BY DEF ObjectsInv, Whole
  <2> QED BY <2>1
<1> HIDE DEF more
<1>6. aborted' \in BOOLEAN /\ \E c \in AllBlocks : given_twice'[c] > 0
  BY <1>1, <1>5
<1>7. /\ object' \in [AllBlocks -> Objects] /\ updated' \subseteq AllBlocks
      /\ FrameType(frame')
  BY DestroyKeeps DEF FreeTwice
<1> QED BY <1>1, <1>4, <1>6, <1>7 DEF ObjectsInv

LEMMA SetXyObjects ==
    ASSUME ObjectsInv, NEW b \in AllBlocks, NEW xy \in Positions, set_xy(b, xy)
    PROVE  ObjectsInv'
<1>1. FrameType(frame')
  BY RecordedType DEF ObjectsInv, set_xy
<1>2. object' \in [AllBlocks -> Objects]
  <2>1. [object[b] EXCEPT !.position = xy] \in Objects
    BY DEF ObjectsInv, Objects
  <2>2. object' = [object EXCEPT ![b] = [object[b] EXCEPT !.position = xy]]
    BY DEF set_xy
  <2> QED BY <2>1, <2>2 DEF ObjectsInv
<1> QED BY <1>1, <1>2 DEF ObjectsInv, set_xy

\* However scripts create, change, destroy and free objects, and however often
\* free_object gives a block back twice: nothing but that adds an entry or an
\* owner to a block, no block is lost, and while it has not happened the
\* assertion of free never fails.
THEOREM BooksBalance == ObjectsSpec => []BlocksAddUp
<1>1. ObjectsInv /\ [ObjectsNext]_objectsVars => ObjectsInv'
  <2> SUFFICES ASSUME ObjectsInv, [ObjectsNext]_objectsVars PROVE ObjectsInv'
    OBVIOUS
  <2>1. CASE create_object
    BY <2>1, CreateObjects
  <2>2. ASSUME NEW b \in AllBlocks, NEW id \in Ids, AssignId(b, id)
        PROVE  ObjectsInv'
    BY <2>2, AssignObjects
  <2>3. ASSUME NEW b \in AllBlocks, destroy_object(b)
        PROVE  ObjectsInv'
    BY <2>3, DestroyObjects
  <2>4. ASSUME NEW b \in AllBlocks, free_object(b)
        PROVE  ObjectsInv'
    BY <2>4, FreeOnceObjects, FreeTwiceObjects DEF free_object
  <2>5. ASSUME NEW b \in AllBlocks, NEW xy \in Positions, set_xy(b, xy)
        PROVE  ObjectsInv'
    BY <2>5, SetXyObjects
  <2>6. CASE UNCHANGED objectsVars
    BY <2>6 DEF objectsVars, ObjectsInv
  <2> QED BY <2>1, <2>2, <2>3, <2>4, <2>5, <2>6 DEF ObjectsNext
<1>2. ObjectsInv => BlocksAddUp
  <2> SUFFICES ASSUME ObjectsInv PROVE BlocksAddUp
    OBVIOUS
  <2>1. ObjectsTypeOK
    BY DEF ObjectsInv, Whole, FrameType, ObjectsTypeOK
  <2>2. \A b \in AllBlocks :
            owners[b] + Entries(b) =
                IF b \in BlocksOf(object_pool) THEN 1 + given_twice[b] ELSE 0
    BY DEF ObjectsInv, Whole, Entries, Occ
  <2> QED BY <2>1, <2>2 DEF ObjectsInv, BlocksAddUp
<1> QED BY <1>1, <1>2, InitObjects, PTL DEF ObjectsSpec
=============================================================================
