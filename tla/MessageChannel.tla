--------------------------- MODULE MessageChannel ---------------------------
(***************************************************************************)
(* What one direction of a TCP connection of ss15 promises: messages come  *)
(* out as they went in, each once and in order.  Headers, sizes and bytes  *)
(* do not appear here.                                                     *)
(***************************************************************************)
EXTENDS Sequences

CONSTANT Messages

VARIABLES
    queue,     \* messages under way
    received   \* messages handed to the receiver's handler

vars == <<queue, received>>

Init == queue = <<>> /\ received = <<>>

Send(m) == queue' = Append(queue, m) /\ UNCHANGED received

Receive ==
    /\ queue # <<>>
    /\ received' = Append(received, Head(queue))
    /\ queue' = Tail(queue)

Next == Receive \/ \E m \in Messages : Send(m)

Spec == Init /\ [][Next]_vars
=============================================================================
