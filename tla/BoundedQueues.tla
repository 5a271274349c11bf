--------------------------- MODULE BoundedQueues ---------------------------
(***************************************************************************)
(* What threadsafe_queues promise to their users: first-in first-out       *)
(* queues, each with a limit of its own, whose contents and limits can be  *)
(* exchanged as one.  Mutexes, condition variables and the threads inside  *)
(* of a call do not appear here.                                           *)
(***************************************************************************)
EXTENDS Sequences, Naturals

CONSTANTS
    Queues,     \* the queues
    Consumers,  \* the threads that take values
    Values,     \* what is queued
    Limits      \* per queue, the limit it begins with

VARIABLES
    queue,  \* per queue, its values
    limit,  \* per queue, how many values it may hold
    dest    \* per consumer, its last call, and the values it was handed

vars == <<queue, limit, dest>>

Init ==
    /\ queue = [q \in Queues |-> <<>>]
    /\ limit = Limits
    /\ dest = [c \in Consumers |-> [call |-> "none", values |-> <<>>]]

\* A value is refused if the queue is at its limit.
Put(q, v) ==
    /\ Len(queue[q]) < limit[q]
    /\ queue' = [queue EXCEPT ![q] = Append(@, v)]
    /\ UNCHANGED <<limit, dest>>

\* A consumer is handed the oldest value.
Take(c, q) ==
    /\ queue[q] # <<>>
    /\ dest' = [dest EXCEPT ![c] = [call |-> "pop", values |-> <<Head(queue[q])>>]]
    /\ queue' = [queue EXCEPT ![q] = Tail(@)]
    /\ UNCHANGED limit

\* A consumer is handed all values, oldest first.
TakeAll(c, q) ==
    /\ dest' = [dest EXCEPT ![c] = [call |-> "flush", values |-> queue[q]]]
    /\ queue' = [queue EXCEPT ![q] = <<>>]
    /\ UNCHANGED limit

Exchange(q, o) ==
    /\ queue' = [queue EXCEPT ![q] = queue[o], ![o] = queue[q]]
    /\ limit' = [limit EXCEPT ![q] = limit[o], ![o] = limit[q]]
    /\ UNCHANGED dest

Next ==
    \/ \E q \in Queues :
          \/ \E v \in Values : Put(q, v)
          \/ \E c \in Consumers : Take(c, q) \/ TakeAll(c, q)
    \/ \E q, o \in Queues : Exchange(q, o)

Spec == Init /\ [][Next]_vars
=============================================================================
