----------------------------- MODULE SessionMC -----------------------------
(* Instances of Session for TLC: two clients behind one address, one of    *)
(* them of another protocol version, and one or two workers.  Either's     *)
(* connection takes the place of the other's in the map.                   *)
EXTENDS Session

CONSTANTS c1, c2, w1, w2, a1

TwoClients == {c1, c2}
OnlyFirst == {c1}
OneWorker == {w1}
TwoWorkers == {w1, w2}

SharedAddress == [c \in TwoClients |-> a1]
=============================================================================
