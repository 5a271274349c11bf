----------------------- MODULE ThreadsafeQueueProofs -----------------------
(* Theorems about ThreadsafeQueue for every set of queues, limits, every   *)
(* finite set of consumers and every number of swapping threads.           *)
EXTENDS ThreadsafeQueue, FiniteSetTheorems, TLAPS

-----------------------------------------------------------------------------
(* Types and limits.                                                       *)

\* What waking consumers leaves alone.
LEMMA WakeType ==
    ASSUME TypeOK, NEW q \in Queues, NEW C \in SUBSET Consumers, Wake(C, q)
    PROVE  /\ waiting' \in [Queues -> SUBSET Consumers]
           /\ ready' \in [Queues -> SUBSET Consumers]
BY DEF TypeOK, Wake

\* Notifying wakes a set of consumers that wait.
LEMMA NotifyWakes ==
    ASSUME TypeOK, NEW q \in Queues, NotifyOne(q) \/ NotifyAll(q)
    PROVE  \E C \in SUBSET waiting[q] : Wake(C, q)
<1>1. CASE NotifyOne(q)
  BY <1>1 DEF NotifyOne
<1>2. CASE NotifyAll(q)
  BY <1>2 DEF NotifyAll
<1> QED BY <1>1, <1>2

\* What taking the oldest value does to a queue.
LEMMA TailType ==
    ASSUME NEW s \in Seq(Values), s # <<>>
    PROVE  /\ Head(s) \in Values
           /\ Tail(s) \in Seq(Values)
           /\ Len(s) \in Nat \ {0}
           /\ Len(Tail(s)) = Len(s) - 1
OBVIOUS

LEMMA InitType == Init => TypeOK
BY QueuesAssumption DEF Init, TypeOK

LEMMA TakeFrontType ==
    ASSUME TypeOK, NEW c \in Consumers, NEW q \in Queues, TakeFront(c, q)
    PROVE  /\ m_queue' \in [Queues -> Seq(Values)]
           /\ \A p \in Queues : Len(m_queue'[p]) <= m_max_size[p]
           /\ dest' \in [Consumers -> [call : {"none", "pop", "flush"}, values : Seq(Values)]]
<1>1. m_queue[q] \in Seq(Values) /\ m_queue[q] # <<>>
  BY DEF TypeOK, TakeFront
<1>2. /\ Head(m_queue[q]) \in Values
      /\ Tail(m_queue[q]) \in Seq(Values)
      /\ Len(m_queue[q]) \in Nat
      /\ Len(Tail(m_queue[q])) = Len(m_queue[q]) - 1
  BY <1>1, TailType
<1>3. m_queue' \in [Queues -> Seq(Values)]
  BY <1>2 DEF TypeOK, TakeFront
<1>4. \A p \in Queues : Len(m_queue'[p]) <= m_max_size[p]
  BY <1>2 DEF TypeOK, TakeFront
<1>5. <<Head(m_queue[q])>> \in Seq(Values)
  BY <1>2
<1> QED
  BY <1>3, <1>4, <1>5 DEF TypeOK, TakeFront, Return

LEMMA TakeOrWaitType ==
    ASSUME TypeOK, NEW c \in Consumers, NEW q \in Queues, TakeOrWait(c, q)
    PROVE  /\ m_queue' \in [Queues -> Seq(Values)]
           /\ \A p \in Queues : Len(m_queue'[p]) <= m_max_size[p]
           /\ dest' \in [Consumers -> [call : {"none", "pop", "flush"}, values : Seq(Values)]]
           /\ waiting' \in [Queues -> SUBSET Consumers]
<1>1. CASE TakeFront(c, q) /\ UNCHANGED waiting
  BY <1>1, TakeFrontType DEF TypeOK
<1>2. CASE /\ m_queue[q] = <<>>
           /\ waiting' = [waiting EXCEPT ![q] = @ \cup {c}]
           /\ UNCHANGED <<m_queue, dest>>
  BY <1>2 DEF TypeOK
<1> QED BY <1>1, <1>2 DEF TakeOrWait

LEMMA PushType ==
    ASSUME TypeOK, NEW q \in Queues, push(q)
    PROVE  TypeOK'
<1>1. pushed' \in Values /\ pushed' \in 0 .. MaxPushed
  BY QueuesAssumption DEF TypeOK, push, Values
<1>2. /\ Append(m_queue[q], pushed') \in Seq(Values)
      /\ Len(Append(m_queue[q], pushed')) = Len(m_queue[q]) + 1
      /\ Len(m_queue[q]) \in Nat
      /\ m_max_size[q] \in Nat
  BY <1>1 DEF TypeOK
<1>3. \A p \in Queues : Len(m_queue'[p]) <= m_max_size'[p]
  BY <1>2 DEF TypeOK, push
<1>4. \E C \in SUBSET Consumers : Wake(C, q)
  BY NotifyWakes DEF push, TypeOK
<1> QED
  BY <1>1, <1>2, <1>3, <1>4, WakeType DEF TypeOK, push

LEMMA SwapType ==
    ASSUME TypeOK, NEW s \in Swappers, NEW q \in Queues, NEW o \in Queues, Swap(s, q, o)
    PROVE  TypeOK'
<1>1. \A p \in Queues : Len(m_queue'[p]) <= m_max_size'[p]
  BY DEF TypeOK, Swap
<1>2. \E C \in SUBSET Consumers : Wake(C, q)
  BY NotifyWakes DEF Swap, TypeOK
<1> QED
  BY <1>1, <1>2, WakeType DEF TypeOK, Swap

LEMMA NextType == TypeOK /\ [Next]_vars => TypeOK'
<1> SUFFICES ASSUME TypeOK, [Next]_vars PROVE TypeOK'
  OBVIOUS
<1>1. CASE \E q \in Queues : push(q)
  BY <1>1, PushType
<1>2. ASSUME NEW c \in Consumers, NEW q \in Queues, PopCall(c, q)
      PROVE  TypeOK'
  BY <1>2, TakeOrWaitType DEF TypeOK, PopCall
<1>3. ASSUME NEW c \in Consumers, NEW q \in Queues, PopResume(c, q)
      PROVE  TypeOK'
  BY <1>3, TakeOrWaitType DEF TypeOK, PopResume
<1>4. ASSUME NEW c \in Consumers, NEW q \in Queues, SpuriousWakeup(c, q)
      PROVE  TypeOK'
  BY <1>4, WakeType DEF TypeOK, SpuriousWakeup
<1>5. ASSUME NEW c \in Consumers, NEW q \in Queues, try_pop(c, q)
      PROVE  TypeOK'
  BY <1>5, TakeFrontType DEF TypeOK, try_pop
<1>6. ASSUME NEW c \in Consumers, NEW q \in Queues, flush(c, q)
      PROVE  TypeOK'
  <2>1. <<>> \in Seq(Values) /\ Len(<<>>) = 0
    OBVIOUS
  <2>2. \A p \in Queues : Len(m_queue'[p]) <= m_max_size'[p]
    BY <1>6, <2>1 DEF TypeOK, flush
  <2> QED BY <1>6, <2>1, <2>2 DEF TypeOK, flush, Return
<1>7. CASE \E s \in Swappers, q, o \in Queues : Swap(s, q, o)
  BY <1>7, SwapType
<1>8. ASSUME NEW s \in Swappers, NEW o \in Queues, SwapEnds(s, o)
      PROVE  TypeOK'
  <2>1. \E C \in SUBSET Consumers : Wake(C, o)
    BY <1>8, NotifyWakes DEF SwapEnds, TypeOK
  <2> QED BY <1>8, <2>1, WakeType DEF TypeOK, SwapEnds
<1>9. CASE UNCHANGED vars
  BY <1>9 DEF TypeOK, vars
<1> QED
  BY <1>1, <1>2, <1>3, <1>4, <1>5, <1>6, <1>7, <1>8, <1>9 DEF Next

\* The types of the state; and no queue is ever longer than its limit, through
\* pushes and swaps that exchange queues and limits.
THEOREM TypeCorrect == Spec => []TypeOK
BY InitType, NextType, PTL DEF Spec

-----------------------------------------------------------------------------
(* Nobody sleeps beside a value.                                           *)

\* The claim of NoValueSleeps for one queue, and that nobody both waits at it
\* and is woken: otherwise waking a consumer would not add one to those woken.
Attended(q) ==
    /\ waiting[q] \cap ready[q] = {}
    /\ Free(q) /\ waiting[q] # {} => Cardinality(ready[q]) >= Len(m_queue[q])

WakeupInv == \A q \in Queues : Attended(q)

\* Sizes of the sets of woken consumers are numbers.
LEMMA ReadyFinite ==
    ASSUME TypeOK, NEW q \in Queues
    PROVE  /\ IsFiniteSet(ready[q]) /\ Cardinality(ready[q]) \in Nat
           /\ Len(m_queue[q]) \in Nat
<1>1. ready[q] \subseteq Consumers /\ m_queue[q] \in Seq(Values)
  BY DEF TypeOK
<1>2. IsFiniteSet(ready[q])
  BY <1>1, QueuesAssumption, FS_Subset
<1> QED BY <1>1, <1>2, FS_CardinalityType

\* Consumers that wake up are no longer waiting, and add to those woken.
LEMMA WakeAttended ==
    ASSUME TypeOK, NEW q \in Queues, NEW C \in SUBSET waiting[q], Wake(C, q),
           waiting[q] \cap ready[q] = {}
    PROVE  /\ waiting'[q] = waiting[q] \ C
           /\ ready'[q] = ready[q] \cup C
           /\ waiting'[q] \cap ready'[q] = {}
           /\ \A c : C = {c} => Cardinality(ready'[q]) = Cardinality(ready[q]) + 1
           /\ Cardinality(ready'[q]) >= Cardinality(ready[q])
           /\ \A p \in Queues \ {q} : waiting'[p] = waiting[p] /\ ready'[p] = ready[p]
<1>1. /\ waiting'[q] = waiting[q] \ C
      /\ ready'[q] = ready[q] \cup C
      /\ \A p \in Queues \ {q} : waiting'[p] = waiting[p] /\ ready'[p] = ready[p]
  BY DEF TypeOK, Wake
<1>2. IsFiniteSet(ready'[q])
  <2>1. ready'[q] \subseteq Consumers
    BY <1>1 DEF TypeOK
  <2> QED BY <2>1, QueuesAssumption, FS_Subset
<1>3. Cardinality(ready'[q]) >= Cardinality(ready[q])
  <2>1. Cardinality(ready[q]) <= Cardinality(ready'[q])
    BY <1>1, <1>2, FS_Subset
  <2> QED BY <2>1, <1>2, ReadyFinite, FS_CardinalityType
<1>4. ASSUME NEW c, C = {c}
      PROVE  Cardinality(ready'[q]) = Cardinality(ready[q]) + 1
  <2>1. c \notin ready[q] /\ ready'[q] = ready[q] \cup {c}
    BY <1>1, <1>4
  <2> QED BY <2>1, ReadyFinite, FS_AddElement
<1> QED BY <1>1, <1>3, <1>4

LEMMA PushAttended ==
    ASSUME TypeOK, WakeupInv, NEW q \in Queues, push(q)
    PROVE  WakeupInv'
<1>1. Attended(q)'
  <2>1. Len(m_queue'[q]) = Len(m_queue[q]) + 1
    <3>1. m_queue[q] \in Seq(Values) /\ m_queue'[q] = Append(m_queue[q], pushed')
      BY DEF TypeOK, push
    <3> QED BY <3>1
  <2>2. waiting[q] \cap ready[q] = {} /\ Free(q)
    BY DEF WakeupInv, Attended, push
  <2>3. CASE waiting[q] = {} /\ Wake({}, q)
    BY <2>2, <2>3, WakeAttended DEF Attended
  <2>4. ASSUME NEW c \in waiting[q], Wake({c}, q)
        PROVE  Attended(q)'
    <3>1. /\ waiting'[q] \cap ready'[q] = {}
          /\ Cardinality(ready'[q]) = Cardinality(ready[q]) + 1
      <4>1. {c} \in SUBSET waiting[q]
        OBVIOUS
      <4> QED BY <2>2, <2>4, <4>1, WakeAttended
    <3>2. Cardinality(ready[q]) >= Len(m_queue[q])
      BY <2>2, <2>4 DEF WakeupInv, Attended
    <3> QED BY <2>1, <3>1, <3>2, ReadyFinite DEF Attended
  <2> QED BY <2>3, <2>4 DEF push, NotifyOne
<1>2. ASSUME NEW p \in Queues \ {q}
      PROVE  Attended(p)'
  <2>1. waiting'[p] = waiting[p] /\ ready'[p] = ready[p] /\ m_queue'[p] = m_queue[p]
    <3>1. \E C \in SUBSET waiting[q] : Wake(C, q)
      BY NotifyWakes DEF push
    <3> QED BY <3>1 DEF TypeOK, push, Wake
  <2>2. Free(p)' = Free(p)
    BY DEF push, Free
  <2> QED BY <2>1, <2>2 DEF WakeupInv, Attended
<1> QED BY <1>1, <1>2 DEF WakeupInv

\* A consumer that has the mutex takes a value, or the queue is empty.
LEMMA TakeOrWaitAttended ==
    ASSUME TypeOK, NEW c \in Consumers, NEW q \in Queues, TakeOrWait(c, q)
    PROVE  /\ \/ waiting' = waiting /\ Len(m_queue'[q]) = Len(m_queue[q]) - 1
              \/ waiting'[q] = waiting[q] \cup {c} /\ Len(m_queue'[q]) = 0
           /\ \A p \in Queues \ {q} : waiting'[p] = waiting[p] /\ m_queue'[p] = m_queue[p]
<1>1. m_queue[q] \in Seq(Values)
  BY DEF TypeOK
<1>2. CASE TakeFront(c, q) /\ UNCHANGED waiting
  <2>1. m_queue[q] # <<>> /\ m_queue'[q] = Tail(m_queue[q])
    BY <1>2 DEF TypeOK, TakeFront
  <2>2. Len(m_queue'[q]) = Len(m_queue[q]) - 1
    BY <1>1, <2>1, TailType
  <2> QED BY <1>2, <2>2 DEF TypeOK, TakeFront
<1>3. CASE /\ m_queue[q] = <<>>
           /\ waiting' = [waiting EXCEPT ![q] = @ \cup {c}]
           /\ UNCHANGED <<m_queue, dest>>
  <2>1. Len(m_queue'[q]) = 0
    BY <1>3
  <2> QED BY <1>3, <2>1 DEF TypeOK
<1> QED BY <1>2, <1>3 DEF TakeOrWait

LEMMA PopCallAttended ==
    ASSUME TypeOK, WakeupInv, NEW c \in Consumers, NEW q \in Queues, PopCall(c, q)
    PROVE  WakeupInv'
<1>1. UNCHANGED <<m_mutex, ready>> /\ c \notin waiting[q] \cup ready[q] /\ TakeOrWait(c, q)
  BY DEF PopCall, Idle
<1>2. ASSUME NEW p \in Queues PROVE Attended(p)'
  <2>1. CASE p = q
    BY <1>1, <2>1, TakeOrWaitAttended, ReadyFinite DEF WakeupInv, Attended, Free
  <2>2. CASE p # q
    BY <1>1, <2>2, TakeOrWaitAttended DEF WakeupInv, Attended, Free
  <2> QED BY <2>1, <2>2
<1> QED BY <1>2 DEF WakeupInv

\* A woken consumer goes, and with it a value; or it sleeps, of an empty queue.
LEMMA PopResumeAttended ==
    ASSUME TypeOK, WakeupInv, NEW c \in Consumers, NEW q \in Queues, PopResume(c, q)
    PROVE  WakeupInv'
<1>1. /\ c \in ready[q] /\ TakeOrWait(c, q) /\ Free(q)
      /\ m_mutex' = m_mutex
      /\ ready'[q] = ready[q] \ {c}
      /\ \A p \in Queues \ {q} : ready'[p] = ready[p]
  BY DEF PopResume, TypeOK
<1>2. /\ Cardinality(ready'[q]) = Cardinality(ready[q]) - 1
      /\ Cardinality(ready'[q]) \in Nat
  <2>1. IsFiniteSet(ready[q])
    BY ReadyFinite
  <2> QED BY <1>1, <2>1, FS_RemoveElement, FS_CardinalityType
<1>3. ASSUME NEW p \in Queues PROVE Attended(p)'
  <2>1. CASE p = q
    <3>1. CASE waiting' = waiting /\ Len(m_queue'[q]) = Len(m_queue[q]) - 1
      <4>1. /\ waiting[q] \cap ready[q] = {}
            /\ waiting[q] # {} => Cardinality(ready[q]) >= Len(m_queue[q])
        BY <1>1 DEF WakeupInv, Attended
      <4>2. waiting'[q] \cap ready'[q] = {}
        BY <1>1, <3>1, <4>1
      <4>3. waiting'[q] # {} => Cardinality(ready'[q]) >= Len(m_queue'[q])
        BY <1>2, <3>1, <4>1, ReadyFinite
      <4> QED BY <2>1, <4>2, <4>3 DEF Attended
    <3>2. CASE waiting'[q] = waiting[q] \cup {c} /\ Len(m_queue'[q]) = 0
      <4>1. waiting'[q] \cap ready'[q] = {}
        BY <1>1, <3>2 DEF WakeupInv, Attended
      <4>2. Cardinality(ready'[q]) >= Len(m_queue'[q])
        BY <1>2, <3>2
      <4> QED BY <2>1, <4>1, <4>2 DEF Attended
    <3> QED BY <1>1, <3>1, <3>2, TakeOrWaitAttended
  <2>2. CASE p # q
    BY <1>1, <2>2, TakeOrWaitAttended DEF WakeupInv, Attended, Free
  <2> QED BY <2>1, <2>2
<1> QED BY <1>3 DEF WakeupInv

\* Contents and limits of two queues are exchanged; the first one's consumers
\* are all woken if it is not empty now, and the second one's mutex is held.
LEMMA SwapAttended ==
    ASSUME TypeOK, WakeupInv, NEW s \in Swappers, NEW q \in Queues, NEW o \in Queues,
           Swap(s, q, o)
    PROVE  WakeupInv'
<1>1. /\ q # o
      /\ m_queue'[q] = m_queue[o]
      /\ \A p \in Queues \ {q, o} : m_queue'[p] = m_queue[p]
      /\ m_mutex'[o] = s
      /\ \A p \in Queues \ {o} : m_mutex'[p] = m_mutex[p]
  BY DEF Swap, TypeOK
<1>2. waiting[q] \cap ready[q] = {}
  BY DEF WakeupInv, Attended
<1>3. PICK C \in SUBSET waiting[q] : Wake(C, q) /\ (m_queue[o] # <<>> => C = waiting[q])
  BY DEF Swap, NotifyAll
<1>4. /\ waiting'[q] = waiting[q] \ C
      /\ waiting'[q] \cap ready'[q] = {}
      /\ \A p \in Queues \ {q} : waiting'[p] = waiting[p] /\ ready'[p] = ready[p]
  BY <1>2, <1>3, WakeAttended
<1>5. Attended(q)'
  <2>1. CASE m_queue[o] # <<>>
    BY <1>3, <1>4, <2>1 DEF Attended
  <2>2. CASE m_queue[o] = <<>>
    <3>1. Len(m_queue'[q]) = 0
      BY <1>1, <2>2
    <3>2. Cardinality(ready'[q]) \in Nat
      <4>1. ready'[q] \subseteq Consumers
        BY SwapType DEF TypeOK
      <4> QED BY <4>1, QueuesAssumption, FS_Subset, FS_CardinalityType
    <3> QED BY <1>4, <3>1, <3>2 DEF Attended
  <2> QED BY <2>1, <2>2
<1>6. Attended(o)'
  <2>1. ~Free(o)'
    BY <1>1, QueuesAssumption DEF Free
  <2> QED BY <1>1, <1>4, <2>1 DEF WakeupInv, Attended
<1>7. ASSUME NEW p \in Queues \ {q, o} PROVE Attended(p)'
  BY <1>1, <1>4 DEF WakeupInv, Attended, Free
<1> QED BY <1>5, <1>6, <1>7 DEF WakeupInv

LEMMA SwapEndsAttended ==
    ASSUME TypeOK, WakeupInv, NEW s \in Swappers, NEW o \in Queues, SwapEnds(s, o)
    PROVE  WakeupInv'
<1>1. /\ m_queue' = m_queue
      /\ \A p \in Queues \ {o} : m_mutex'[p] = m_mutex[p]
  BY DEF SwapEnds, TypeOK
<1>2. waiting[o] \cap ready[o] = {}
  BY DEF WakeupInv, Attended
<1>3. PICK C \in SUBSET waiting[o] : Wake(C, o) /\ (m_queue[o] # <<>> => C = waiting[o])
  BY DEF SwapEnds, NotifyAll
<1>4. /\ waiting'[o] = waiting[o] \ C
      /\ waiting'[o] \cap ready'[o] = {}
      /\ Cardinality(ready'[o]) >= Cardinality(ready[o])
      /\ \A p \in Queues \ {o} : waiting'[p] = waiting[p] /\ ready'[p] = ready[p]
  BY <1>2, <1>3, WakeAttended
<1>5. Attended(o)'
  <2>1. CASE m_queue[o] # <<>>
    BY <1>3, <1>4, <2>1 DEF Attended
  <2>2. CASE m_queue[o] = <<>>
    <3>1. Len(m_queue'[o]) = 0
      BY <1>1, <2>2
    <3>2. Cardinality(ready'[o]) \in Nat
      <4>1. ready'[o] \subseteq Consumers
        BY <1>3, WakeType DEF TypeOK
      <4> QED BY <4>1, QueuesAssumption, FS_Subset, FS_CardinalityType
    <3> QED BY <1>4, <3>1, <3>2 DEF Attended
  <2> QED BY <2>1, <2>2
<1>6. ASSUME NEW p \in Queues \ {o} PROVE Attended(p)'
  BY <1>1, <1>4 DEF WakeupInv, Attended, Free
<1> QED BY <1>5, <1>6 DEF WakeupInv

LEMMA NextAttended == TypeOK /\ WakeupInv /\ [Next]_vars => WakeupInv'
<1> SUFFICES ASSUME TypeOK, WakeupInv, [Next]_vars PROVE WakeupInv'
  OBVIOUS
<1>1. CASE \E q \in Queues : push(q)
  BY <1>1, PushAttended
<1>2. CASE \E c \in Consumers, q \in Queues : PopCall(c, q)
  BY <1>2, PopCallAttended
<1>3. CASE \E c \in Consumers, q \in Queues : PopResume(c, q)
  BY <1>3, PopResumeAttended
<1>4. ASSUME NEW c \in Consumers, NEW q \in Queues, SpuriousWakeup(c, q)
      PROVE  WakeupInv'
  <2>1. waiting[q] \cap ready[q] = {} /\ {c} \in SUBSET waiting[q] /\ Wake({c}, q)
    BY <1>4 DEF WakeupInv, Attended, SpuriousWakeup
  <2>2. /\ waiting'[q] = waiting[q] \ {c}
        /\ waiting'[q] \cap ready'[q] = {}
        /\ Cardinality(ready'[q]) = Cardinality(ready[q]) + 1
        /\ \A p \in Queues \ {q} : waiting'[p] = waiting[p] /\ ready'[p] = ready[p]
    BY <2>1, WakeAttended
  <2>3. UNCHANGED <<m_queue, m_mutex>>
    BY <1>4 DEF SpuriousWakeup
  <2>4. Attended(q)'
    BY <2>1, <2>2, <2>3, ReadyFinite DEF WakeupInv, Attended, Free
  <2>5. ASSUME NEW p \in Queues \ {q} PROVE Attended(p)'
    BY <2>2, <2>3 DEF WakeupInv, Attended, Free
  <2> QED BY <2>4, <2>5 DEF WakeupInv
<1>5. ASSUME NEW c \in Consumers, NEW q \in Queues, try_pop(c, q)
      PROVE  WakeupInv'
  <2>1. UNCHANGED <<m_mutex, waiting, ready>> /\ TakeFront(c, q)
    BY <1>5 DEF try_pop
  <2>2. /\ Len(m_queue'[q]) = Len(m_queue[q]) - 1
        /\ \A p \in Queues \ {q} : m_queue'[p] = m_queue[p]
    <3>1. m_queue[q] \in Seq(Values) /\ m_queue[q] # <<>> /\ m_queue'[q] = Tail(m_queue[q])
      BY <2>1 DEF TypeOK, TakeFront
    <3> QED BY <2>1, <3>1, TailType DEF TypeOK, TakeFront
  <2>3. ASSUME NEW p \in Queues PROVE Attended(p)'
    <3>1. CASE p = q
      BY <2>1, <2>2, <3>1, ReadyFinite DEF WakeupInv, Attended, Free
    <3>2. CASE p # q
      BY <2>1, <2>2, <3>2 DEF WakeupInv, Attended, Free
    <3> QED BY <3>1, <3>2
  <2> QED BY <2>3 DEF WakeupInv
<1>6. ASSUME NEW c \in Consumers, NEW q \in Queues, flush(c, q)
      PROVE  WakeupInv'
  <2>1. /\ UNCHANGED <<m_mutex, waiting, ready>>
        /\ Len(m_queue'[q]) = 0
        /\ \A p \in Queues \ {q} : m_queue'[p] = m_queue[p]
    BY <1>6 DEF TypeOK, flush
  <2>2. ASSUME NEW p \in Queues PROVE Attended(p)'
    <3>1. CASE p = q
      BY <2>1, <3>1, ReadyFinite DEF WakeupInv, Attended, Free
    <3>2. CASE p # q
      BY <2>1, <3>2 DEF WakeupInv, Attended, Free
    <3> QED BY <3>1, <3>2
  <2> QED BY <2>2 DEF WakeupInv
<1>7. CASE \E s \in Swappers, q, o \in Queues : Swap(s, q, o)
  BY <1>7, SwapAttended
<1>8. CASE \E s \in Swappers, o \in Queues : SwapEnds(s, o)
  BY <1>8, SwapEndsAttended
<1>9. CASE UNCHANGED vars
  BY <1>9 DEF WakeupInv, Attended, Free, vars
<1> QED
  BY <1>1, <1>2, <1>3, <1>4, <1>5, <1>6, <1>7, <1>8, <1>9 DEF Next

\* A consumer never sleeps at a queue beside a value that no woken consumer is
\* on his way to, for any number of queues, consumers and swaps.
THEOREM NeverLosesWakeup == Spec => []NoValueSleeps
<1>1. Init => WakeupInv
  BY DEF Init, WakeupInv, Attended
<1>2. WakeupInv => NoValueSleeps
  BY DEF WakeupInv, Attended, NoValueSleeps
<1> QED
  BY <1>1, <1>2, NextAttended, TypeCorrect, PTL DEF Spec

-----------------------------------------------------------------------------
(* The queues implement BoundedQueues.                                     *)

LEMMA InitRefines == Init => Promise!Init
BY DEF Init, Promise!Init

\* A consumer inside pop either takes the oldest value or changes nothing that
\* a user can see.
LEMMA TakeOrWaitRefines ==
    ASSUME NEW c \in Consumers, NEW q \in Queues, TakeOrWait(c, q), m_max_size' = m_max_size
    PROVE  Promise!Next \/ UNCHANGED Promise!vars
<1>1. CASE TakeFront(c, q) /\ UNCHANGED waiting
  <2>1. Promise!Take(c, q)
    BY <1>1 DEF TakeFront, Return, Promise!Take
  <2> QED BY <2>1 DEF Promise!Next
<1>2. CASE UNCHANGED <<m_queue, dest>>
  BY <1>2 DEF Promise!vars
<1> QED BY <1>1, <1>2 DEF TakeOrWait

LEMMA NextRefines == TypeOK /\ [Next]_vars => [Promise!Next]_(Promise!vars)
<1> SUFFICES ASSUME TypeOK, [Next]_vars
             PROVE  Promise!Next \/ UNCHANGED Promise!vars
  OBVIOUS
<1>1. ASSUME NEW q \in Queues, push(q)
      PROVE  Promise!Next
  <2>1. pushed' \in Values
    BY <1>1, QueuesAssumption DEF TypeOK, push, Values
  <2>2. Promise!Put(q, pushed')
    BY <1>1 DEF push, Promise!Put
  <2> QED BY <2>1, <2>2 DEF Promise!Next
<1>2. ASSUME NEW c \in Consumers, NEW q \in Queues, PopCall(c, q) \/ PopResume(c, q)
      PROVE  Promise!Next \/ UNCHANGED Promise!vars
  BY <1>2, TakeOrWaitRefines DEF PopCall, PopResume
<1>3. ASSUME NEW c \in Consumers, NEW q \in Queues, try_pop(c, q)
      PROVE  Promise!Next
  <2>1. Promise!Take(c, q)
    BY <1>3 DEF try_pop, TakeFront, Return, Promise!Take
  <2> QED BY <2>1 DEF Promise!Next
<1>4. ASSUME NEW c \in Consumers, NEW q \in Queues, flush(c, q)
      PROVE  Promise!Next
  <2>1. Promise!TakeAll(c, q)
    BY <1>4 DEF flush, Return, Promise!TakeAll
  <2> QED BY <2>1 DEF Promise!Next
<1>5. ASSUME NEW s \in Swappers, NEW q \in Queues, NEW o \in Queues, Swap(s, q, o)
      PROVE  Promise!Next
  <2>1. Promise!Exchange(q, o)
    BY <1>5 DEF Swap, Promise!Exchange
  <2> QED BY <2>1 DEF Promise!Next
<1>6. ASSUME NEW c \in Consumers, NEW q \in Queues, SpuriousWakeup(c, q)
      PROVE  UNCHANGED Promise!vars
  BY <1>6 DEF SpuriousWakeup, Promise!vars
<1>7. ASSUME NEW s \in Swappers, NEW o \in Queues, SwapEnds(s, o)
      PROVE  UNCHANGED Promise!vars
  BY <1>7 DEF SwapEnds, Promise!vars
<1>8. CASE UNCHANGED vars
  BY <1>8 DEF vars, Promise!vars
<1> QED
  BY <1>1, <1>2, <1>3, <1>4, <1>5, <1>6, <1>7, <1>8 DEF Next

\* To their users the queues are bounded first-in first-out queues whose
\* contents and limits are exchanged as one, whatever threads are inside of pop
\* and swap.
THEOREM Refines == Spec => ImplementsBoundedQueues
<1>1. ImplementsBoundedQueues <=> Promise!Init /\ [][Promise!Next]_(Promise!vars)
  BY DEF ImplementsBoundedQueues, Promise!Spec
<1> QED
  BY <1>1, InitRefines, NextRefines, TypeCorrect, PTL DEF Spec
=============================================================================
