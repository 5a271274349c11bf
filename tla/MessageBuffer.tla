--------------------------- MODULE MessageBuffer ---------------------------
(***************************************************************************)
(* What flush_queue promises to its users: messages are put into a buffer, *)
(* and whoever asks is handed all of them, in the order in which they were *)
(* put, or the latest one.  Each call takes effect at one moment.  Memory, *)
(* its capacity and the hint of the implementation do not appear here.     *)
(***************************************************************************)
EXTENDS SequencesExt

CONSTANTS Messages  \* what is put into the buffer

VARIABLES
    buffer,  \* the messages nobody has taken yet
    taken    \* what was handed out last

vars == <<buffer, taken>>

Init == buffer = <<>> /\ taken = <<>>

Put(m) ==
    /\ buffer' = Append(buffer, m)
    /\ UNCHANGED taken

TakeAll ==
    /\ taken' = buffer
    /\ buffer' = <<>>

TakeLatest ==
    /\ buffer # <<>>
    /\ taken' = <<Last(buffer)>>
    /\ buffer' = Front(buffer)

Next ==
    \/ \E m \in Messages : Put(m)
    \/ TakeAll
    \/ TakeLatest

Spec == Init /\ [][Next]_vars
=============================================================================
