--------------------------- MODULE SharedPoolMC ---------------------------
(* Instances of SharedPool for TLC: more handles than blocks, so that the  *)
(* pool overflows onto the heap, and every handle may need a heap block.   *)
EXTENDS SharedPool

CONSTANTS h1, h2, h3, b1, b2

ThreeHandles == {h1, h2, h3}
TwoHeapBlocks == {b1, b2}
=============================================================================
