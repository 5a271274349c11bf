---------------------------- MODULE FlushQueueMC ----------------------------
(* An instance of FlushQueue for TLC: two flushers, and enough elements    *)
(* for the vector to outgrow the hint more than once.                      *)
EXTENDS FlushQueue

CONSTANTS f1, f2

TwoFlushers == {f1, f2}
=============================================================================
