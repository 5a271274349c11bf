-------------------------- MODULE InputPipelineMC --------------------------
(* Instances of InputPipeline for TLC: counters that start at 0, at 1 so   *)
(* that two numbers follow, at the largest number that can be sent, and    *)
(* beyond it.                                                              *)
EXTENDS InputPipeline

CONSTANTS c1, w1, w2

OneClient == {c1}
TwoWorkers == {w1, w2}
Edges == {0, 1, 3, 5}
=============================================================================
