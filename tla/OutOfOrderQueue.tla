-------------------------- MODULE OutOfOrderQueue --------------------------
(***************************************************************************)
(* out_of_order_queue<T, Size> of common_src/threadsafe_queue.hpp: a ring  *)
(* of Size slots behind one mutex and one condition variable.  Producers   *)
(* set values by index, in any order and more than once (the indices come  *)
(* off a UDP socket); consumers pop them in index order and block while    *)
(* the awaited one is missing.                                             *)
(*                                                                         *)
(* Every member function holds m_mutex from its first statement to its     *)
(* last, so each is one action; pop is cut where m_condition.wait releases *)
(* the mutex.                                                              *)
(***************************************************************************)
EXTENDS Naturals

CONSTANTS
    Size,           \* number of slots (template parameter Size)
    Consumers,      \* threads that call pop
    Values,         \* the T that are stored
    Default,        \* T{}, which the constructor puts in every slot
    StartingIndex,  \* constructor argument starting_index
    MaxIndex,       \* bound: the largest index used by a producer
    Nothing         \* dest of a consumer that has popped nothing yet

ASSUME SizeAssumption == Size \in Nat \ {0}
ASSUME ValuesAssumption == Default \in Values
ASSUME IndexAssumption == StartingIndex \in Nat /\ MaxIndex \in Nat
ASSUME NothingAssumption == Nothing \notin [index : Nat, value : Values]

VARIABLES
    value,       \* m_circular_queue[s].value
    exists,      \* m_circular_queue[s].exists
    m_awaiting,  \* the index the next pop returns
    consumer,    \* where each consumer is: outside pop ("idle"), asleep in
                 \* m_condition.wait ("waiting"), or woken and about to take
                 \* the mutex again ("ready")
    dest,        \* what the last pop of each consumer stored and returned
    origin       \* history: per slot, the index its value was set for

vars == <<value, exists, m_awaiting, consumer, dest, origin>>

Slots == 0 .. Size - 1
Slot(i) == i % Size

TypeOK ==
    /\ value \in [Slots -> Values]
    /\ exists \in [Slots -> BOOLEAN]
    /\ m_awaiting \in Nat
    /\ consumer \in [Consumers -> {"idle", "waiting", "ready"}]
    /\ dest \in [Consumers -> [index : Nat, value : Values] \cup {Nothing}]
    /\ origin \in [Slots -> Nat]

-----------------------------------------------------------------------------
(* The condition variable and the window of indices the ring can hold.     *)

\* notify_all: every sleeper leaves the wait set.
NotifyAll ==
    consumer' = [c \in Consumers |->
                    IF consumer[c] = "waiting" THEN "ready" ELSE consumer[c]]

\* Faulty variant: the overflow test of set uses > instead of >=.
InWindowOffByOne(i) == m_awaiting <= i /\ i <= m_awaiting + Size

\* Neither too far ahead of nor behind the awaited index.
InWindow(i) == m_awaiting <= i /\ i < m_awaiting + Size

\* Faulty variant: has without the test for indices behind the window.
HasForgetsPast(i) == i < m_awaiting + Size /\ exists[Slot(i)]

\* has(index): false beyond the window, true behind it.
Has(i) ==
    /\ i < m_awaiting + Size
    /\ i < m_awaiting \/ exists[Slot(i)]

AwaitedExists == exists[Slot(m_awaiting)]

-----------------------------------------------------------------------------
Init ==
    /\ value = [s \in Slots |-> Default]
    /\ exists = [s \in Slots |-> FALSE]
    /\ m_awaiting = StartingIndex
    /\ consumer = [c \in Consumers |-> "idle"]
    /\ dest = [c \in Consumers |-> Nothing]
    /\ origin = [s \in Slots |-> 0]

\* Faulty variant: the notification is tied to index 0.
SetNotifiesFirstSlot(i, v) ==
    /\ InWindow(i)
    /\ IF i = 0 THEN NotifyAll ELSE UNCHANGED consumer
    /\ value' = [value EXCEPT ![Slot(i)] = v]
    /\ exists' = [exists EXCEPT ![Slot(i)] = TRUE]
    /\ origin' = [origin EXCEPT ![Slot(i)] = i]
    /\ UNCHANGED <<m_awaiting, dest>>

\* set(v, index) with an index the ring can hold.
SetAccepted(i, v) ==
    /\ InWindow(i)
    /\ IF i = m_awaiting THEN NotifyAll ELSE UNCHANGED consumer
    /\ value' = [value EXCEPT ![Slot(i)] = v]
    /\ exists' = [exists EXCEPT ![Slot(i)] = TRUE]
    /\ origin' = [origin EXCEPT ![Slot(i)] = i]
    /\ UNCHANGED <<m_awaiting, dest>>

\* set(v, index) beyond the window (returns false) or behind it (returns
\* true): nothing is stored.
SetIgnored(i) == ~InWindow(i) /\ UNCHANGED vars

\* set(v): the awaited slot gets the value, its exists flag is left alone.
SetAwaiting(v) ==
    /\ NotifyAll
    /\ value' = [value EXCEPT ![Slot(m_awaiting)] = v]
    /\ origin' = [origin EXCEPT ![Slot(m_awaiting)] = m_awaiting]
    /\ UNCHANGED <<exists, m_awaiting, dest>>

\* Faulty variant: pop returns the index before the one it took.
TakeReturnsPrevious(c) ==
    /\ AwaitedExists
    /\ dest' = [dest EXCEPT ![c] = [index |-> m_awaiting - 1,
                                    value |-> value[Slot(m_awaiting)]]]
    /\ exists' = [exists EXCEPT ![Slot(m_awaiting)] = FALSE]
    /\ m_awaiting' = m_awaiting + 1
    /\ consumer' = [consumer EXCEPT ![c] = "idle"]
    /\ UNCHANGED <<value, origin>>

\* pop finds the awaited value, at its call or after a wait.
Take(c) ==
    /\ AwaitedExists
    /\ dest' = [dest EXCEPT ![c] = [index |-> m_awaiting,
                                    value |-> value[Slot(m_awaiting)]]]
    /\ exists' = [exists EXCEPT ![Slot(m_awaiting)] = FALSE]
    /\ m_awaiting' = m_awaiting + 1
    /\ consumer' = [consumer EXCEPT ![c] = "idle"]
    /\ UNCHANGED <<value, origin>>

\* pop finds it missing: m_condition.wait(lock).
Wait(c) ==
    /\ ~AwaitedExists
    /\ consumer' = [consumer EXCEPT ![c] = "waiting"]
    /\ UNCHANGED <<value, exists, m_awaiting, dest, origin>>

PopCall(c) == consumer[c] = "idle" /\ (Take(c) \/ Wait(c))
PopResume(c) == consumer[c] = "ready" /\ (Take(c) \/ Wait(c))

\* wait may return without a notification.
SpuriousWakeup(c) ==
    /\ consumer[c] = "waiting"
    /\ consumer' = [consumer EXCEPT ![c] = "ready"]
    /\ UNCHANGED <<value, exists, m_awaiting, dest, origin>>

\* Faulty variant: skip without its notification.
SkipSilently ==
    /\ m_awaiting <= MaxIndex
    /\ exists' = [exists EXCEPT ![Slot(m_awaiting)] = FALSE]
    /\ m_awaiting' = m_awaiting + 1
    /\ UNCHANGED <<value, dest, consumer, origin>>

\* Faulty variant: the slot passed over keeps its value.
SkipKeepsValue ==
    /\ m_awaiting <= MaxIndex
    /\ IF exists[Slot(m_awaiting + 1)] THEN NotifyAll ELSE UNCHANGED consumer
    /\ m_awaiting' = m_awaiting + 1
    /\ UNCHANGED <<value, exists, dest, origin>>

\* skip(): the awaited slot is emptied and passed over.
Skip ==
    /\ m_awaiting <= MaxIndex
    /\ exists' = [exists EXCEPT ![Slot(m_awaiting)] = FALSE]
    /\ IF exists'[Slot(m_awaiting + 1)] THEN NotifyAll ELSE UNCHANGED consumer
    /\ m_awaiting' = m_awaiting + 1
    /\ UNCHANGED <<value, dest, origin>>

Next ==
    \/ \E i \in 0 .. MaxIndex : SetIgnored(i)
    \/ \E i \in 0 .. MaxIndex, v \in Values : SetAccepted(i, v)
    \/ \E v \in Values : SetAwaiting(v)
    \/ \E c \in Consumers : PopCall(c) \/ PopResume(c) \/ SpuriousWakeup(c)
    \/ Skip

Spec == Init /\ [][Next]_vars

\* A thread that left the wait set gets the mutex sooner or later: no member
\* function blocks while it holds it.  Which of several woken threads gets it
\* is left open.
LiveSpec == Spec /\ WF_vars(\E c \in Consumers : PopResume(c))

-----------------------------------------------------------------------------
(* Properties.                                                             *)

\* No lost wakeup: nobody sleeps in pop while the awaited value is in the
\* ring.  set(v, index) notifies only for the awaited index and skip only if
\* the slot after it is full; pop itself never notifies.
NoLostWakeup ==
    AwaitedExists => \A c \in Consumers : consumer[c] # "waiting"

\* A packet that has(index) once called a duplicate stays one: the window
\* moves on, but never back, and no slot of the window is emptied.
HasIsStable ==
    [][\A i \in 0 .. MaxIndex : Has(i) => Has(i)']_vars

Window == m_awaiting .. m_awaiting + Size - 1

\* A slot is never taken for another round's: what is stored in the slot of an
\* index of the window was set for this index, though the indices of a run
\* share a few slots and come in any order.
SlotsHoldTheirIndex ==
    \A i \in Window : exists[Slot(i)] => origin[Slot(i)] = i

\* Every pop returns the value that was last set for the index it returns,
\* in increasing order of the indices: the ring implements OrderedDelivery,
\* its pending values being those stored for an index of the window.
Pending ==
    [i \in {j \in Window : exists[Slot(j)] /\ origin[Slot(j)] = j} |->
        value[Slot(i)]]

Abstract == INSTANCE OrderedDelivery WITH next <- m_awaiting, pending <- Pending

ImplementsOrderedDelivery == Abstract!Spec

\* A value that is awaited and a thread inside pop meet: the queue moves past
\* the awaited index.
PopMakesProgress ==
    \A n \in 0 .. MaxIndex :
        (/\ m_awaiting = n
         /\ AwaitedExists
         /\ \E c \in Consumers : consumer[c] # "idle")
            ~> (m_awaiting > n)
=============================================================================
