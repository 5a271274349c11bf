-------------------------- MODULE ThreadsafeQueue --------------------------
(***************************************************************************)
(* threadsafe_queue<T> of common_src/threadsafe_queue.hpp: a deque with a  *)
(* maximal size under a mutex, a condition variable for those who wait in  *)
(* pop, and swap, which works on two queues at once.                       *)
(*                                                                         *)
(* A call that holds the mutex from beginning to end is one step.  pop is  *)
(* cut where wait releases the mutex; swap where it releases the first of  *)
(* its two mutexes, before it has woken those who wait at the other queue. *)
(* Calls that change nothing (a push to a full queue, a try_pop of an      *)
(* empty one, swap with itself, empty, container) are not steps.           *)
(*                                                                         *)
(* The move constructor is a swap with a queue that nobody else knows.     *)
(***************************************************************************)
EXTENDS Naturals, FiniteSets, SequencesExt

CONSTANTS
    Queues,     \* the queues
    Consumers,  \* threads that take values
    Swappers,   \* threads that swap queues
    MaxSizes,   \* per queue, the constructor's argument max_size
    MaxPushed,  \* bound: values pushed
    Nobody      \* holder of a free mutex

ASSUME QueuesAssumption ==
    /\ MaxSizes \in [Queues -> Nat]
    /\ MaxPushed \in Nat
    /\ Nobody \notin Swappers
    /\ IsFiniteSet(Consumers)

VARIABLES
    m_queue,     \* per queue, the deque
    m_max_size,  \* per queue
    m_mutex,     \* per queue, the swapper that holds it between two steps
    waiting,     \* per queue, the consumers that sleep in wait
    ready,       \* per queue, those woken, without the mutex yet
    dest,        \* per consumer, its last call that returned, and with what
    pushed       \* number of values pushed

vars == <<m_queue, m_max_size, m_mutex, waiting, ready, dest, pushed>>

\* Values are numbered in the order in which they are pushed.
Values == 1 .. MaxPushed

\* No queue ever holds more than it may, through any swaps.
TypeOK ==
    /\ m_queue \in [Queues -> Seq(Values)]
    /\ m_max_size \in [Queues -> Nat]
    /\ m_mutex \in [Queues -> Swappers \cup {Nobody}]
    /\ waiting \in [Queues -> SUBSET Consumers]
    /\ ready \in [Queues -> SUBSET Consumers]
    /\ dest \in [Consumers -> [call : {"none", "pop", "flush"}, values : Seq(Values)]]
    /\ pushed \in 0 .. MaxPushed
    /\ \A q \in Queues : Len(m_queue[q]) <= m_max_size[q]

Free(q) == m_mutex[q] = Nobody

\* The consumer is outside of pop.
Idle(c) == \A q \in Queues : c \notin waiting[q] \cup ready[q]

\* The consumers in C, which wait at q, wake up.
Wake(C, q) ==
    /\ waiting' = [waiting EXCEPT ![q] = @ \ C]
    /\ ready' = [ready EXCEPT ![q] = @ \cup C]

\* m_condition.notify_one() of q, and notify_all().
NotifyOne(q) ==
    \/ waiting[q] = {} /\ Wake({}, q)
    \/ \E c \in waiting[q] : Wake({c}, q)

NotifyAll(q) == Wake(waiting[q], q)

Init ==
    /\ m_queue = [q \in Queues |-> <<>>]
    /\ m_max_size = MaxSizes
    /\ m_mutex = [q \in Queues |-> Nobody]
    /\ waiting = [q \in Queues |-> {}]
    /\ ready = [q \in Queues |-> {}]
    /\ dest = [c \in Consumers |-> [call |-> "none", values |-> <<>>]]
    /\ pushed = 0

-----------------------------------------------------------------------------
\* Faulty variant: only a push to an empty queue notifies.
PushNotifiesFirst(q) ==
    /\ Free(q)
    /\ pushed < MaxPushed
    /\ Len(m_queue[q]) < m_max_size[q]
    /\ pushed' = pushed + 1
    /\ m_queue' = [m_queue EXCEPT ![q] = Append(@, pushed')]
    /\ IF m_queue[q] = <<>> THEN NotifyOne(q) ELSE Wake({}, q)
    /\ UNCHANGED <<m_max_size, m_mutex, dest>>

push(q) ==
    /\ Free(q)
    /\ pushed < MaxPushed
    /\ Len(m_queue[q]) < m_max_size[q]
    /\ pushed' = pushed + 1
    /\ m_queue' = [m_queue EXCEPT ![q] = Append(@, pushed')]
    /\ NotifyOne(q)
    /\ UNCHANGED <<m_max_size, m_mutex, dest>>

Return(c, call, values) ==
    dest' = [dest EXCEPT ![c] = [call |-> call, values |-> values]]

\* The oldest value goes to c.
TakeFront(c, q) ==
    /\ m_queue[q] # <<>>
    /\ Return(c, "pop", <<Head(m_queue[q])>>)
    /\ m_queue' = [m_queue EXCEPT ![q] = Tail(@)]

\* The loop of pop, with the mutex: take a value, or go to sleep.
TakeOrWait(c, q) ==
    \/ TakeFront(c, q) /\ UNCHANGED waiting
    \/ /\ m_queue[q] = <<>>
       /\ waiting' = [waiting EXCEPT ![q] = @ \cup {c}]
       /\ UNCHANGED <<m_queue, dest>>

PopCall(c, q) ==
    /\ Free(q)
    /\ Idle(c)
    /\ TakeOrWait(c, q)
    /\ UNCHANGED <<m_max_size, m_mutex, ready, pushed>>

\* Faulty variant: a woken consumer does not look again if there is a value.
PopResumeUnchecked(c, q) ==
    /\ Free(q)
    /\ c \in ready[q]
    /\ ready' = [ready EXCEPT ![q] = @ \ {c}]
    /\ Return(c, "pop", IF m_queue[q] = <<>> THEN <<>> ELSE <<Head(m_queue[q])>>)
    /\ m_queue' = [m_queue EXCEPT ![q] = IF @ = <<>> THEN <<>> ELSE Tail(@)]
    /\ UNCHANGED <<m_max_size, m_mutex, waiting, pushed>>

\* wait returns with the mutex, and the loop looks at the queue again.
PopResume(c, q) ==
    /\ Free(q)
    /\ c \in ready[q]
    /\ ready' = [ready EXCEPT ![q] = @ \ {c}]
    /\ TakeOrWait(c, q)
    /\ UNCHANGED <<m_max_size, m_mutex, pushed>>

SpuriousWakeup(c, q) ==
    /\ c \in waiting[q]
    /\ Wake({c}, q)
    /\ UNCHANGED <<m_queue, m_max_size, m_mutex, dest, pushed>>

try_pop(c, q) ==
    /\ Free(q)
    /\ Idle(c)
    /\ TakeFront(c, q)
    /\ UNCHANGED <<m_max_size, m_mutex, waiting, ready, pushed>>

flush(c, q) ==
    /\ Free(q)
    /\ Idle(c)
    /\ Return(c, "flush", m_queue[q])
    /\ m_queue' = [m_queue EXCEPT ![q] = <<>>]
    /\ UNCHANGED <<m_max_size, m_mutex, waiting, ready, pushed>>

-----------------------------------------------------------------------------
(* swap.                                                                   *)

\* Faulty variant: the maximal sizes stay where they are.
SwapKeepsMaximum(s, q, o) ==
    /\ q # o /\ Free(q) /\ Free(o) /\ s \notin Range(m_mutex)
    /\ m_queue' = [m_queue EXCEPT ![q] = m_queue[o], ![o] = m_queue[q]]
    /\ IF m_queue[o] # <<>> THEN NotifyAll(q) ELSE Wake({}, q)
    /\ m_mutex' = [m_mutex EXCEPT ![o] = s]
    /\ UNCHANGED <<m_max_size, dest, pushed>>

\* std::lock takes both mutexes.  Queue and size are exchanged, those who wait
\* at the first queue are notified, and its mutex is released.
Swap(s, q, o) ==
    /\ q # o /\ Free(q) /\ Free(o) /\ s \notin Range(m_mutex)
    /\ m_queue' = [m_queue EXCEPT ![q] = m_queue[o], ![o] = m_queue[q]]
    /\ m_max_size' = [m_max_size EXCEPT ![q] = m_max_size[o], ![o] = m_max_size[q]]
    /\ IF m_queue[o] # <<>> THEN NotifyAll(q) ELSE Wake({}, q)
    /\ m_mutex' = [m_mutex EXCEPT ![o] = s]
    /\ UNCHANGED <<dest, pushed>>

\* Faulty variant: those who wait at the other queue are forgotten.
SwapEndsSilently(s, o) ==
    /\ m_mutex[o] = s
    /\ m_mutex' = [m_mutex EXCEPT ![o] = Nobody]
    /\ UNCHANGED <<m_queue, m_max_size, waiting, ready, dest, pushed>>

\* Those who wait at the other queue are notified, and its mutex is released.
SwapEnds(s, o) ==
    /\ m_mutex[o] = s
    /\ IF m_queue[o] # <<>> THEN NotifyAll(o) ELSE Wake({}, o)
    /\ m_mutex' = [m_mutex EXCEPT ![o] = Nobody]
    /\ UNCHANGED <<m_queue, m_max_size, dest, pushed>>

-----------------------------------------------------------------------------
Next ==
    \/ \E q \in Queues : push(q)
    \/ \E c \in Consumers, q \in Queues :
          \/ PopCall(c, q)
          \/ PopResume(c, q)
          \/ SpuriousWakeup(c, q)
          \/ try_pop(c, q)
          \/ flush(c, q)
    \/ \E s \in Swappers, q, o \in Queues : Swap(s, q, o)
    \/ \E s \in Swappers, o \in Queues : SwapEnds(s, o)

Spec == Init /\ [][Next]_vars

\* One of those woken at a queue gets its mutex, whichever it is; and a swap
\* under way goes on.
LiveSpec ==
    /\ Spec
    /\ \A q \in Queues :
          /\ WF_vars(\E c \in Consumers : PopResume(c, q))
          /\ WF_vars(\E s \in Swappers : SwapEnds(s, q))

-----------------------------------------------------------------------------
(* Properties.                                                             *)

\* No consumer sleeps beside a value that nobody is on his way to: as long as
\* somebody sleeps at a queue, each of its values has a woken consumer, though
\* push wakes a single one, others take values in between, and swap brings in
\* values without a push.  While a swap holds the mutex it has yet to notify.
NoValueSleeps ==
    \A q \in Queues :
        Free(q) /\ waiting[q] # {} => Cardinality(ready[q]) >= Len(m_queue[q])

\* To their users the queues are first-in first-out queues that never exceed
\* their limits: every call takes effect as one, a value is handed out once
\* and in its turn, and a consumer that was woken for a value which somebody
\* else took is handed nothing.
Promise ==
    INSTANCE BoundedQueues WITH queue <- m_queue, limit <- m_max_size, Limits <- MaxSizes

ImplementsBoundedQueues == Promise!Spec

\* With a consumer inside pop the oldest value of a queue does not stay there.
ValuesReachWaiters ==
    \A q \in Queues, v \in Values :
        /\ m_queue[q] # <<>> /\ Head(m_queue[q]) = v
        /\ waiting[q] \cup ready[q] # {}
        ~> v \notin ToSet(m_queue[q])
=============================================================================
