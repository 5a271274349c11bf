-------------------------- MODULE OrderedDelivery --------------------------
(***************************************************************************)
(* What out_of_order_queue promises to its users: indexed values arrive in *)
(* any order inside a window, and are handed out one by one in the order   *)
(* of their indices.  The ring, the exists flags, the mutex and the        *)
(* condition variable of the implementation do not appear here.            *)
(***************************************************************************)
EXTENDS Naturals

CONSTANTS
    Size,           \* how far ahead of the next index a value may be put
    Consumers,      \* the threads that take values
    Values,         \* what is delivered
    StartingIndex,  \* the first index handed out
    Nothing         \* the answer of a consumer that has taken no value yet

VARIABLES
    next,     \* the index the next delivery has
    pending,  \* the values that have arrived: a function on a set of indices
    dest      \* per consumer, the last index and value it was handed

vars == <<next, pending, dest>>

\* pending without the entry of the next index.
WithoutNext == [i \in DOMAIN pending \ {next} |-> pending[i]]

Init ==
    /\ next = StartingIndex
    /\ pending = [i \in {} |-> Nothing]
    /\ dest = [c \in Consumers |-> Nothing]

\* A value arrives for an index of the window; the latest one for an index
\* replaces an earlier one.
Put(i, v) ==
    /\ i \in next .. next + Size - 1
    /\ pending' = [j \in DOMAIN pending \cup {i} |->
                      IF j = i THEN v ELSE pending[j]]
    /\ UNCHANGED <<next, dest>>

\* A consumer is handed the value of the next index, which must have arrived.
Deliver(c) ==
    /\ next \in DOMAIN pending
    /\ dest' = [dest EXCEPT ![c] = [index |-> next, value |-> pending[next]]]
    /\ pending' = WithoutNext
    /\ next' = next + 1

\* The next index is given up, whether or not its value has arrived.
Skip ==
    /\ pending' = WithoutNext
    /\ next' = next + 1
    /\ UNCHANGED dest

Next ==
    \/ \E i \in next .. next + Size - 1, v \in Values : Put(i, v)
    \/ \E c \in Consumers : Deliver(c)
    \/ Skip

Spec == Init /\ [][Next]_vars
=============================================================================
