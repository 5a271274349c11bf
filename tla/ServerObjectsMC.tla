-------------------------- MODULE ServerObjectsMC --------------------------
(* An instance of ServerObjects for TLC: two chunks of two blocks, so that *)
(* the second is added with blocks of the first owned, and one id.         *)
EXTENDS ServerObjects

TwoPositions == {0, 1}
OneId == {1}
=============================================================================
