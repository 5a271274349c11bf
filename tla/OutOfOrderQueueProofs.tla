----------------------- MODULE OutOfOrderQueueProofs -----------------------
(* Theorems about OutOfOrderQueue for every ring size, every set of        *)
(* threads and values and every bound on the indices.                      *)
EXTENDS OutOfOrderQueue, Integers, TLAPS

-----------------------------------------------------------------------------
(* Arithmetic of the ring.                                                 *)

\* Division with remainder, for the ring's size.
LEMMA DivMod ==
    ASSUME NEW n \in Nat \ {0}, NEW i \in Nat
    PROVE  /\ i = n * (i \div n) + (i % n)
           /\ i \div n \in Nat
           /\ i % n \in Nat
    OBVIOUS

\* Two different multiples of n are at least n apart.
LEMMA MultiplesApart ==
    ASSUME NEW n \in Nat \ {0}, NEW p \in Nat, NEW q \in Nat, p > q
    PROVE  n * p >= n * q + n
<1>1. PICK d \in Nat : p = q + 1 + d
  <2>1. p - q - 1 \in Nat /\ p = q + 1 + (p - q - 1)
    OBVIOUS
  <2> QED BY <2>1
<1>2. n * p = n * q + n + n * d
  BY <1>1
<1>3. n * d \in Nat /\ n * q \in Nat
  OBVIOUS
<1> QED BY <1>2, <1>3

\* A quotient and a remainder below n are determined by the number.
LEMMA RemainderUnique ==
    ASSUME NEW n \in Nat \ {0}, NEW p \in Nat, NEW q \in Nat,
           NEW r \in 0 .. n - 1, NEW s \in 0 .. n - 1, n * p + r = n * q + s
    PROVE  r = s
<1>1. n * p \in Nat /\ n * q \in Nat
  OBVIOUS
<1>2. ~(p > q) /\ ~(q > p)
  BY <1>1, MultiplesApart
<1>3. p = q
  BY <1>2
<1> QED BY <1>1, <1>3

\* Adding the ring's size leads back to the same slot.
LEMMA SlotOneRoundLater ==
    ASSUME NEW m \in Nat
    PROVE  Slot(m + Size) = Slot(m)
<1> DEFINE n == Size
<1>1. n \in Nat \ {0} /\ m + n \in Nat
  BY SizeAssumption
<1>2. m % n \in 0 .. n - 1 /\ (m + n) % n \in 0 .. n - 1
  BY <1>1
<1> HIDE DEF n
<1>3. PICK p \in Nat : m = n * p + (m % n)
  BY <1>1, DivMod
<1>4. PICK q \in Nat : m + n = n * q + ((m + n) % n)
  BY <1>1, DivMod
<1>5. m + n = n * (p + 1) + (m % n)
  <2>1. n * (p + 1) = n * p + n
    BY <1>1
  <2>2. n * p \in Nat
    BY <1>1
  <2> QED BY <1>1, <1>2, <1>3, <2>1, <2>2
<1>6. m % n = (m + n) % n
  <2> DEFINE r == m % n
             s == (m + n) % n
  <2>1. r \in 0 .. n - 1 /\ s \in 0 .. n - 1 /\ p + 1 \in Nat
    BY <1>2
  <2>2. n * (p + 1) + r = n * q + s
    BY <1>4, <1>5
  <2> HIDE DEF r, s
  <2>3. r = s
    BY <1>1, <2>1, <2>2, RemainderUnique
  <2> QED BY <2>3 DEF r, s
<1> QED BY <1>6 DEF Slot, n

\* Every index has a slot.
LEMMA SlotInRing ==
    ASSUME NEW i \in Nat
    PROVE  Slot(i) \in Slots
    BY SizeAssumption DEF Slot, Slots

\* No two indices of a window of Size indices share a slot.
LEMMA SlotsOfWindowDiffer ==
    ASSUME NEW m \in Nat,
           NEW i \in m .. m + Size - 1, NEW j \in m .. m + Size - 1,
           Slot(i) = Slot(j)
    PROVE  i = j
<1> DEFINE n == Size
<1>1. n \in Nat \ {0} /\ i % n = j % n
  BY SizeAssumption DEF Slot
<1>2. i \in Nat /\ j \in Nat /\ i < j + n /\ j < i + n
  BY <1>1
<1> HIDE DEF n
<1>3. PICK p \in Nat, r \in Nat : i = n * p + r /\ i % n = r
  BY <1>1, <1>2, DivMod
<1>4. PICK q \in Nat : j = n * q + r
  BY <1>1, <1>2, <1>3, DivMod
<1>5. n * p \in Nat /\ n * q \in Nat
  BY <1>1
<1>6. ~(p > q)
  BY MultiplesApart, <1>1, <1>2, <1>3, <1>4, <1>5
<1>7. ~(q > p)
  BY MultiplesApart, <1>1, <1>2, <1>3, <1>4, <1>5
<1> QED BY <1>3, <1>4, <1>6, <1>7

-----------------------------------------------------------------------------
(* Type correctness.                                                       *)

LEMMA InitType == Init => TypeOK
BY ValuesAssumption, IndexAssumption DEF Init, TypeOK

LEMMA NextType == TypeOK /\ [Next]_vars => TypeOK'
<1> SUFFICES ASSUME TypeOK, [Next]_vars PROVE TypeOK'
  OBVIOUS
<1> USE SlotInRing DEF TypeOK
<1>1. ASSUME NEW i \in 0 .. MaxIndex, SetIgnored(i) PROVE TypeOK'
  BY <1>1 DEF SetIgnored, vars
<1>2. ASSUME NEW i \in 0 .. MaxIndex, NEW v \in Values, SetAccepted(i, v)
      PROVE TypeOK'
  <2>1. i \in Nat
    BY IndexAssumption
  <2> QED BY <1>2, <2>1 DEF SetAccepted, NotifyAll
<1>3. ASSUME NEW v \in Values, SetAwaiting(v) PROVE TypeOK'
  BY <1>3 DEF SetAwaiting, NotifyAll
<1>4. ASSUME NEW c \in Consumers, Take(c) PROVE TypeOK'
  <2>1. value[Slot(m_awaiting)] \in Values
    OBVIOUS
  <2> QED BY <1>4, <2>1 DEF Take
<1>5. ASSUME NEW c \in Consumers, Wait(c) PROVE TypeOK'
  BY <1>5 DEF Wait
<1>6. ASSUME NEW c \in Consumers, SpuriousWakeup(c) PROVE TypeOK'
  BY <1>6 DEF SpuriousWakeup
<1>7. CASE Skip
  BY <1>7 DEF Skip, NotifyAll
<1>8. CASE UNCHANGED vars
  BY <1>8 DEF vars
<1> QED
  BY <1>1, <1>2, <1>3, <1>4, <1>5, <1>6, <1>7, <1>8
  DEF Next, PopCall, PopResume

\* The queue's state keeps its types whatever its threads do.
THEOREM TypeCorrect == Spec => []TypeOK
  BY InitType, NextType, PTL DEF Spec

-----------------------------------------------------------------------------
(* Wakeups.                                                                *)

LEMMA NextWakeup ==
    TypeOK /\ NoLostWakeup /\ [Next]_vars => NoLostWakeup'
<1> SUFFICES ASSUME TypeOK, NoLostWakeup, [Next]_vars PROVE NoLostWakeup'
  OBVIOUS
<1> USE SlotInRing DEF TypeOK, NoLostWakeup, AwaitedExists
<1>1. ASSUME NEW i \in 0 .. MaxIndex, SetIgnored(i) PROVE NoLostWakeup'
  BY <1>1 DEF SetIgnored, vars
<1>2. ASSUME NEW i \in 0 .. MaxIndex, NEW v \in Values, SetAccepted(i, v)
      PROVE NoLostWakeup'
  <2>1. CASE i = m_awaiting
    BY <1>2, <2>1 DEF SetAccepted, NotifyAll
  <2>2. CASE i # m_awaiting
    \* Another index of the window, so another slot than the awaited one.
    <3>1. i \in m_awaiting .. m_awaiting + Size - 1
      BY <1>2, SizeAssumption, IndexAssumption DEF SetAccepted, InWindow
    <3>2. Slot(i) # Slot(m_awaiting)
      BY <2>2, <3>1, SlotsOfWindowDiffer, SizeAssumption
    <3>3. exists'[Slot(m_awaiting)] = exists[Slot(m_awaiting)]
      BY <1>2, <3>2 DEF SetAccepted
    <3> QED BY <1>2, <2>2, <3>3 DEF SetAccepted
  <2> QED BY <2>1, <2>2
<1>3. ASSUME NEW v \in Values, SetAwaiting(v) PROVE NoLostWakeup'
  BY <1>3 DEF SetAwaiting, NotifyAll
<1>4. ASSUME NEW c \in Consumers, Take(c) PROVE NoLostWakeup'
  \* Nobody slept before, and the taker leaves awake.
  BY <1>4 DEF Take
<1>5. ASSUME NEW c \in Consumers, Wait(c) PROVE NoLostWakeup'
  BY <1>5 DEF Wait
<1>6. ASSUME NEW c \in Consumers, SpuriousWakeup(c) PROVE NoLostWakeup'
  BY <1>6 DEF SpuriousWakeup
<1>7. CASE Skip
  BY <1>7 DEF Skip, NotifyAll
<1>8. CASE UNCHANGED vars
  BY <1>8 DEF vars
<1> QED
  BY <1>1, <1>2, <1>3, <1>4, <1>5, <1>6, <1>7, <1>8
  DEF Next, PopCall, PopResume

\* No thread sleeps in pop while the value it waits for is in the ring,
\* for any number of slots, consumers and producers.
THEOREM NeverLosesWakeup == Spec => []NoLostWakeup
<1>1. Init => NoLostWakeup
  BY DEF Init, NoLostWakeup
<1> QED BY <1>1, InitType, NextType, NextWakeup, PTL DEF Spec

-----------------------------------------------------------------------------
(* Duplicate detection.                                                    *)

LEMMA NextHas ==
    ASSUME TypeOK, [Next]_vars, NEW i \in 0 .. MaxIndex, Has(i)
    PROVE  Has(i)'
<1> USE SizeAssumption, SlotInRing DEF TypeOK
<1>0. i \in Nat
  BY IndexAssumption
<1>1. ASSUME m_awaiting' = m_awaiting, exists[Slot(i)] => exists'[Slot(i)]
      PROVE  Has(i)'
  BY <1>0, <1>1 DEF Has
<1>2. ASSUME m_awaiting' = m_awaiting + 1,
             exists' = [exists EXCEPT ![Slot(m_awaiting)] = FALSE]
      PROVE  Has(i)'
  <2>1. CASE i <= m_awaiting
    BY <1>0, <1>2, <2>1 DEF Has
  <2>2. CASE m_awaiting < i
    \* i is later in the window, so its slot is not the one emptied.
    <3>1. i \in m_awaiting .. m_awaiting + Size - 1 /\ exists[Slot(i)]
      BY <1>0, <2>2 DEF Has
    <3>2. Slot(i) # Slot(m_awaiting)
      BY <2>2, <3>1, SlotsOfWindowDiffer
    <3>3. exists'[Slot(i)]
      BY <1>0, <1>2, <3>1, <3>2
    <3> QED BY <1>0, <1>2, <3>1, <3>3 DEF Has
  <2> QED BY <1>0, <2>1, <2>2
<1>3. ASSUME NEW j \in 0 .. MaxIndex, NEW v \in Values, SetAccepted(j, v)
      PROVE  Has(i)'
  <2>1. j \in Nat
    BY IndexAssumption
  <2> QED BY <1>0, <1>1, <1>3, <2>1 DEF SetAccepted
<1> QED
  BY <1>1, <1>2, <1>3
  DEF Next, vars, SetIgnored, SetAwaiting, PopCall, PopResume, Take, Wait,
      SpuriousWakeup, Skip

\* What has(index) reports present is never reported missing later.
THEOREM DuplicatesStayKnown == Spec => HasIsStable
<1>1. TypeOK /\ [Next]_vars =>
        [\A i \in 0 .. MaxIndex : Has(i) => Has(i)']_vars
  BY NextHas
<1> QED BY <1>1, TypeCorrect, PTL DEF Spec, HasIsStable

-----------------------------------------------------------------------------
(* Slots and rounds.                                                       *)

LEMMA NextHolds ==
    TypeOK /\ SlotsHoldTheirIndex /\ [Next]_vars => SlotsHoldTheirIndex'
<1> SUFFICES ASSUME TypeOK, SlotsHoldTheirIndex, [Next]_vars,
                    NEW i \in Window', exists'[Slot(i)]
             PROVE  origin'[Slot(i)] = i
  BY DEF SlotsHoldTheirIndex, Slot
<1> USE DEF TypeOK
<1>0. m_awaiting \in Nat /\ Size \in Nat \ {0} /\ Slot(m_awaiting) \in Slots
  BY SizeAssumption, SlotInRing
\* A value is stored for index j of the window.
<1>1. ASSUME NEW j \in Window, m_awaiting' = m_awaiting,
             origin' = [origin EXCEPT ![Slot(j)] = j],
             i # j => exists[Slot(i)]
      PROVE  origin'[Slot(i)] = i
  <2>1. i \in Window /\ i \in Nat /\ Slot(i) \in Slots
    BY <1>0, <1>1, SlotInRing DEF Window
  <2>2. i # j => Slot(i) # Slot(j)
    BY <1>0, <2>1, SlotsOfWindowDiffer DEF Window
  <2>3. i # j => origin[Slot(i)] = i
    BY <1>1, <2>1 DEF SlotsHoldTheirIndex
  <2> QED BY <1>1, <2>1, <2>2, <2>3
\* The window moves on; the slot it gains is the one just emptied.
<1>2. ASSUME m_awaiting' = m_awaiting + 1, origin' = origin,
             exists' = [exists EXCEPT ![Slot(m_awaiting)] = FALSE]
      PROVE  origin'[Slot(i)] = i
  <2>1. i \in m_awaiting + 1 .. m_awaiting + Size /\ i \in Nat
    BY <1>0, <1>2 DEF Window
  <2>2. Slot(i) # Slot(m_awaiting) /\ Slot(i) \in Slots
    BY <1>0, <1>2, <2>1, SlotInRing
  <2>3. i # m_awaiting + Size
    BY <1>0, <2>2, SlotOneRoundLater
  <2>4. i \in Window /\ exists[Slot(i)]
    BY <1>0, <1>2, <2>1, <2>2, <2>3 DEF Window
  <2> QED BY <1>2, <2>4 DEF SlotsHoldTheirIndex
<1>3. ASSUME UNCHANGED <<m_awaiting, exists, origin>>
      PROVE  origin'[Slot(i)] = i
  BY <1>3 DEF SlotsHoldTheirIndex, Window
<1>4. ASSUME NEW j \in 0 .. MaxIndex, NEW v \in Values, SetAccepted(j, v)
      PROVE  origin'[Slot(i)] = i
  <2>1. j \in Window
    BY <1>0, <1>4, IndexAssumption DEF SetAccepted, InWindow, Window
  <2>2. i \in Window /\ i \in Nat /\ j \in Nat
    BY <1>0, <1>4, <2>1 DEF SetAccepted, Window
  <2>3. i # j => exists[Slot(i)]
    BY <1>0, <1>4, <2>1, <2>2, SlotsOfWindowDiffer, SlotInRing
    DEF SetAccepted, Window
  <2> QED BY <1>1, <1>4, <2>1, <2>3 DEF SetAccepted
<1>5. ASSUME NEW v \in Values, SetAwaiting(v) PROVE origin'[Slot(i)] = i
  <2>1. m_awaiting \in Window
    BY <1>0 DEF Window
  <2> QED BY <1>1, <1>5, <2>1 DEF SetAwaiting
<1> QED
  BY <1>2, <1>3, <1>4, <1>5
  DEF Next, vars, SetIgnored, PopCall, PopResume, Take, Wait, SpuriousWakeup,
      Skip

\* What is found in the slot of an index of the window was set for this index,
\* in a ring of any size.
THEOREM RoundsKeptApart == Spec => []SlotsHoldTheirIndex
<1>1. Init => SlotsHoldTheirIndex
  <2> SUFFICES ASSUME Init, NEW i \in Window PROVE ~exists[Slot(i)]
    BY DEF SlotsHoldTheirIndex
  <2>1. i \in Nat
    BY SizeAssumption, IndexAssumption DEF Init, Window
  <2> QED BY <2>1, SlotInRing DEF Init
<1> QED BY <1>1, InitType, NextType, NextHolds, PTL DEF Spec

-----------------------------------------------------------------------------
(* The ring implements ordered delivery.                                   *)

\* The contents of the slots of the window, whatever they were set for.
Stored == [i \in {j \in Window : exists[Slot(j)]} |-> value[Slot(i)]]

\* With the invariant these are the pending values, before and after a step.
LEMMA PendingIsStored ==
    /\ SlotsHoldTheirIndex => Pending = Stored
    /\ SlotsHoldTheirIndex' => Pending' = Stored'
<1>1. ASSUME SlotsHoldTheirIndex PROVE Pending = Stored
  <2>1. {j \in Window : exists[Slot(j)] /\ origin[Slot(j)] = j}
          = {j \in Window : exists[Slot(j)]}
    BY <1>1 DEF SlotsHoldTheirIndex
  <2> QED BY <2>1 DEF Pending, Stored
<1>2. ASSUME SlotsHoldTheirIndex' PROVE Pending' = Stored'
  <2>1. {j \in Window' : exists'[Slot(j)] /\ origin'[Slot(j)] = j}
          = {j \in Window' : exists'[Slot(j)]}
    BY <1>2 DEF SlotsHoldTheirIndex, Slot
  <2> QED BY <2>1 DEF Pending, Stored, Slot
<1> QED BY <1>1, <1>2

\* What a step that leaves the queue's contents alone does to Stored.
LEMMA SameStored ==
    ASSUME m_awaiting' = m_awaiting, exists' = exists, value' = value
    PROVE  Stored' = Stored
    BY DEF Stored, Slot, Window

\* Storing v for index i of the window adds exactly this entry to Stored.
LEMMA SetStored ==
    ASSUME TypeOK, NEW i \in m_awaiting .. m_awaiting + Size - 1,
           NEW v \in Values,
           m_awaiting' = m_awaiting,
           value' = [value EXCEPT ![Slot(i)] = v],
           exists' = [exists EXCEPT ![Slot(i)] = TRUE]
    PROVE  Stored' = [j \in DOMAIN Stored \cup {i} |->
                          IF j = i THEN v ELSE Stored[j]]
<1> DEFINE W == m_awaiting .. m_awaiting + Size - 1
           P == {j \in W : exists[Slot(j)]}
           Q == {j \in W : exists'[Slot(j)]}
<1>1. \A j \in W : j \in Nat /\ Slot(j) \in Slots
  BY SizeAssumption, SlotInRing DEF TypeOK
<1>2. \A j \in W : j # i => Slot(j) # Slot(i)
  BY SlotsOfWindowDiffer DEF TypeOK
<1>3. \A j \in W : /\ exists'[Slot(j)] = IF j = i THEN TRUE ELSE exists[Slot(j)]
                   /\ value'[Slot(j)] = IF j = i THEN v ELSE value[Slot(j)]
  BY <1>1, <1>2 DEF TypeOK
<1>4. Q = P \cup {i}
  BY <1>3
<1>5. Stored = [j \in P |-> value[Slot(j)]]
  BY DEF Stored, Window
<1>6. Stored' = [j \in Q |-> value'[Slot(j)]]
  BY DEF Stored, Slot, Window
<1> HIDE DEF P, Q
<1>7. \A j \in P \cup {i} : j \in W
  BY DEF P
<1>8. \A j \in P \cup {i} :
         value'[Slot(j)] = IF j = i THEN v ELSE Stored[j]
  BY <1>3, <1>5, <1>7
<1> QED BY <1>4, <1>5, <1>6, <1>8

\* Emptying the awaited slot and moving on removes its entry from Stored:
\* the slot that enters the window is the emptied one.
LEMMA AdvanceStored ==
    ASSUME TypeOK,
           m_awaiting' = m_awaiting + 1, value' = value,
           exists' = [exists EXCEPT ![Slot(m_awaiting)] = FALSE]
    PROVE  Stored' = [j \in DOMAIN Stored \ {m_awaiting} |-> Stored[j]]
<1> DEFINE W == m_awaiting .. m_awaiting + Size - 1
           V == m_awaiting + 1 .. m_awaiting + Size
           P == {j \in W : exists[Slot(j)]}
           Q == {j \in V : exists'[Slot(j)]}
<1>1. m_awaiting \in Nat /\ Size \in Nat \ {0} /\ m_awaiting \in W
  BY SizeAssumption DEF TypeOK
<1>2. \A j \in W \cup V : j \in Nat /\ Slot(j) \in Slots
  BY <1>1, SlotInRing
<1>3. \A j \in W : j # m_awaiting => Slot(j) # Slot(m_awaiting)
  BY <1>1, SlotsOfWindowDiffer
<1>4. ~exists'[Slot(m_awaiting + Size)]
  <2>1. Slot(m_awaiting + Size) = Slot(m_awaiting)
    BY <1>1, SlotOneRoundLater
  <2> QED BY <1>1, <1>2, <2>1 DEF TypeOK
<1>5. Q = P \ {m_awaiting}
  <2>1. \A j \in W : j # m_awaiting => exists'[Slot(j)] = exists[Slot(j)]
    BY <1>2, <1>3 DEF TypeOK
  <2>2. V = (W \ {m_awaiting}) \cup {m_awaiting + Size}
    BY <1>1
  <2> QED BY <1>4, <2>1, <2>2
<1>6. Stored = [j \in P |-> value[Slot(j)]]
  BY DEF Stored, Window
<1>7. Stored' = [j \in Q |-> value[Slot(j)]]
  <2>1. m_awaiting + 1 .. m_awaiting + 1 + Size - 1 = V
    BY <1>1
  <2> QED BY <2>1 DEF Stored, Slot, Window
<1> HIDE DEF P, Q
<1> QED BY <1>5, <1>6, <1>7

\* The initial ring is an initial state of ordered delivery.
LEMMA InitRefines == Init => Abstract!Init
<1> SUFFICES ASSUME Init PROVE Pending = [i \in {} |-> Nothing]
  BY DEF Init, Abstract!Init
<1>1. \A j \in Window : ~exists[Slot(j)]
  BY SizeAssumption, IndexAssumption, SlotInRing DEF Init, Window
<1> QED BY <1>1 DEF Pending

\* Every step of the ring is a step of ordered delivery or leaves its
\* contents alone.
LEMMA NextRefines ==
    TypeOK /\ SlotsHoldTheirIndex /\ [Next]_vars
        => [Abstract!Next]_(Abstract!vars)
<1> SUFFICES ASSUME TypeOK, SlotsHoldTheirIndex, [Next]_vars
             PROVE  Abstract!Next \/ UNCHANGED <<m_awaiting, Pending, dest>>
  BY DEF Abstract!vars
<1>p. Pending = Stored /\ Pending' = Stored'
  BY NextHolds, PendingIsStored
<1> USE DEF Window
<1>0. m_awaiting \in Nat /\ m_awaiting \in Window
  BY SizeAssumption DEF TypeOK
<1>a. AwaitedExists <=> m_awaiting \in DOMAIN Pending
  BY <1>0, <1>p DEF AwaitedExists, Stored
<1>1. ASSUME NEW i \in 0 .. MaxIndex, SetIgnored(i)
      PROVE  UNCHANGED <<m_awaiting, Pending, dest>>
  BY <1>1, <1>p, SameStored DEF SetIgnored, vars
<1>2. ASSUME NEW i \in 0 .. MaxIndex, NEW v \in Values, SetAccepted(i, v)
      PROVE  Abstract!Next
  <2>1. i \in Window
    BY <1>2, IndexAssumption, SizeAssumption DEF SetAccepted, InWindow, TypeOK
  <2>2. Abstract!Put(i, v)
    BY <1>2, <1>p, <2>1, SetStored DEF SetAccepted, Abstract!Put
  <2> QED BY <2>1, <2>2 DEF Abstract!Next
<1>3. ASSUME NEW v \in Values, SetAwaiting(v)
      PROVE  Abstract!Next \/ UNCHANGED <<m_awaiting, Pending, dest>>
  <2>1. CASE AwaitedExists
    \* The flag was set already: the value is put again.
    <3>1. exists' = [exists EXCEPT ![Slot(m_awaiting)] = TRUE]
      BY <1>3, <2>1, SlotInRing DEF SetAwaiting, AwaitedExists, TypeOK
    <3>2. Abstract!Put(m_awaiting, v)
      BY <1>0, <1>3, <1>p, <3>1, SetStored DEF SetAwaiting, Abstract!Put
    <3> QED BY <1>0, <3>2 DEF Abstract!Next
  <2>2. CASE ~AwaitedExists
    \* The value goes to a slot that holds none.
    <3> DEFINE P == {j \in Window : exists[Slot(j)]}
    <3>1. \A j \in P : /\ j \in Nat /\ Slot(j) \in Slots
                       /\ Slot(j) # Slot(m_awaiting)
      BY <1>0, <2>2, SlotInRing DEF AwaitedExists
    <3>2. \A j \in P : value'[Slot(j)] = value[Slot(j)]
      BY <1>3, <3>1 DEF SetAwaiting, TypeOK
    <3>3. Pending = [j \in P |-> value[Slot(j)]]
      BY <1>p DEF Stored
    <3>4. Pending' = [j \in P |-> value'[Slot(j)]]
      BY <1>3, <1>p DEF SetAwaiting, Stored, Slot
    <3> HIDE DEF P
    <3> QED BY <1>3, <3>2, <3>3, <3>4 DEF SetAwaiting
  <2> QED BY <2>1, <2>2
<1>4. ASSUME NEW c \in Consumers, Take(c)
      PROVE  Abstract!Next
  <2>1. Pending[m_awaiting] = value[Slot(m_awaiting)]
    BY <1>0, <1>4, <1>p DEF Take, AwaitedExists, Stored
  <2>2. Abstract!Deliver(c)
    BY <1>4, <1>a, <1>p, <2>1, AdvanceStored
    DEF Take, Abstract!Deliver, Abstract!WithoutNext
  <2> QED BY <2>2 DEF Abstract!Next
<1>5. ASSUME NEW c \in Consumers, Wait(c) \/ SpuriousWakeup(c)
      PROVE  UNCHANGED <<m_awaiting, Pending, dest>>
  BY <1>5, <1>p, SameStored DEF Wait, SpuriousWakeup
<1>6. CASE Skip
  <2>1. Abstract!Skip
    BY <1>6, <1>p, AdvanceStored DEF Skip, Abstract!Skip, Abstract!WithoutNext
  <2> QED BY <2>1 DEF Abstract!Next
<1>7. CASE UNCHANGED vars
  BY <1>7, <1>p, SameStored DEF vars
<1> QED
  BY <1>1, <1>2, <1>3, <1>4, <1>5, <1>6, <1>7
  DEF Next, PopCall, PopResume

\* Whatever the order, repetition and interleaving of set, skip and pop, the
\* values come out in index order, each the last one set for its index.
THEOREM Refines == Spec => ImplementsOrderedDelivery
<1>1. ImplementsOrderedDelivery <=> Abstract!Init /\ [][Abstract!Next]_(Abstract!vars)
  BY DEF ImplementsOrderedDelivery, Abstract!Spec
<1> QED
  BY <1>1, InitRefines, NextRefines, TypeCorrect, RoundsKeptApart, PTL DEF Spec
=============================================================================
