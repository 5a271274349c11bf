------------------------- MODULE ThreadsafeQueueMC -------------------------
(* An instance of ThreadsafeQueue for TLC: two queues of different sizes,  *)
(* two consumers and two threads that swap the queues.                     *)
EXTENDS ThreadsafeQueue

CONSTANTS q1, q2, c1, c2, s1, s2

TwoQueues == {q1, q2}
TwoConsumers == {c1, c2}
TwoSwappers == {s1, s2}
OneAndTwo == [q \in TwoQueues |-> IF q = q1 THEN 1 ELSE 2]
=============================================================================
