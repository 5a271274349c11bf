------------------------- MODULE GameReplicationMC -------------------------
(* Instances of GameReplication for TLC: enough objects for one to be      *)
(* created, moved and destroyed while updates about others are under way.  *)
EXTENDS GameReplication

OnePlayer == {1}
NoPlayers == {}
TwoPlayers == {1, 2}
=============================================================================
