------------------------- MODULE OutOfOrderQueueMC -------------------------
(* Instances of OutOfOrderQueue for TLC: two consumers that share a ring   *)
(* shorter than the run of indices, so that every slot is reused.          *)
EXTENDS OutOfOrderQueue

CONSTANTS v1, v2, c1, c2

MCValues == {v1, v2}
TwoConsumers == {c1, c2}
=============================================================================
