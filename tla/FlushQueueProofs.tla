-------------------------- MODULE FlushQueueProofs --------------------------
(* Theorems about FlushQueue for any set of flushing threads, any reserve  *)
(* and any number of elements.                                             *)
EXTENDS FlushQueue, TLAPS

-----------------------------------------------------------------------------
(* Types.                                                                  *)

\* A sequence that is not empty ends with an element, behind a shorter one.
LEMMA LastAndFront ==
    ASSUME NEW s \in Seq(Elements), s # <<>>
    PROVE  /\ Last(s) \in Elements
           /\ Front(s) \in Seq(Elements)
           /\ Len(Front(s)) = Len(s) - 1
           /\ Len(s) \in Nat
<1>1. Len(s) \in Nat \ {0} /\ \A i \in 1 .. Len(s) : s[i] \in Elements
  OBVIOUS
<1>2. Last(s) \in Elements
  BY <1>1 DEF Last
<1>3. /\ SubSeq(s, 1, Len(s) - 1) \in Seq(Elements)
      /\ Len(SubSeq(s, 1, Len(s) - 1)) = Len(s) - 1
  <2> DEFINE n == Len(s) - 1
  <2>1. n \in Nat /\ \A i \in 1 .. n : s[i] \in Elements
    BY <1>1
  <2> HIDE DEF n
  <2>2. SubSeq(s, 1, n) \in Seq(Elements) /\ Len(SubSeq(s, 1, n)) = n
    BY <2>1
  <2> QED BY <2>2 DEF n
<1> QED BY <1>1, <1>2, <1>3 DEF Front

\* Memory that was full has room for one more element.
LEMMA GrownHasRoom ==
    ASSUME NEW n \in Nat
    PROVE  Grown(n) \in Nat /\ Grown(n) >= n + 1
BY DEF Grown

LEMMA InitType == Init => TypeOK
BY FlushQueueAssumption DEF Init, TypeOK

LEMMA EmplaceType ==
    ASSUME TypeOK, emplace_back
    PROVE  TypeOK'
<1>1. appended' \in Elements /\ appended' \in 0 .. MaxElements
  BY FlushQueueAssumption DEF TypeOK, emplace_back, Elements
<1>2. /\ vector \in Seq(Elements) /\ Len(vector) \in Nat
      /\ space \in Nat /\ Len(vector) <= space
  BY DEF TypeOK
<1>3. vector' \in Seq(Elements) /\ Len(vector') = Len(vector) + 1
  BY <1>1, <1>2 DEF emplace_back
<1>4. space' \in Nat /\ Len(vector') <= space'
  <2>1. CASE Len(vector) = space
    <3>1. space' = Grown(space)
      BY <2>1 DEF emplace_back
    <3>2. Grown(space) \in Nat /\ Grown(space) >= space + 1
      BY <1>2, GrownHasRoom
    <3> QED BY <1>2, <1>3, <2>1, <3>1, <3>2
  <2>2. CASE Len(vector) # space
    BY <1>2, <1>3, <2>2 DEF emplace_back
  <2> QED BY <2>1, <2>2
<1> QED BY <1>1, <1>3, <1>4 DEF TypeOK, emplace_back

LEMMA TryPopType ==
    ASSUME TypeOK, try_pop_back
    PROVE  TypeOK'
<1>1. vector \in Seq(Elements) /\ vector # <<>>
  BY DEF TypeOK, try_pop_back
<1>2. /\ vector' \in Seq(Elements) /\ Len(vector') = Len(vector) - 1
      /\ Len(vector) \in Nat
      /\ taken' \in Seq(Elements)
  BY <1>1, LastAndFront DEF try_pop_back
<1> QED BY <1>2 DEF TypeOK, try_pop_back

LEMMA FlushType ==
    ASSUME TypeOK, NEW f \in Flushers, FlushReserve(f) \/ FlushGoesOn(f)
    PROVE  TypeOK'
<1>1. CASE FlushReserve(f)
  BY <1>1 DEF TypeOK, FlushReserve
<1>2. CASE FlushSwap(f)
  <2>1. <<>> \in Seq(Elements) /\ Len(<<>>) = 0
    OBVIOUS
  <2>2. flusher[f].r \in Nat
    BY DEF TypeOK
  <2> QED BY <1>2, <2>1, <2>2 DEF TypeOK, FlushSwap
<1>3. CASE RaiseSucceeds(f)
  BY <1>3 DEF TypeOK, RaiseSucceeds
<1>4. CASE RaiseFails(f)
  BY <1>4 DEF TypeOK, RaiseFails
<1>5. CASE FlushReturn(f)
  BY <1>5 DEF TypeOK, FlushReturn
<1> QED BY <1>1, <1>2, <1>3, <1>4, <1>5 DEF FlushGoesOn

LEMMA NextType == TypeOK /\ [Next]_vars => TypeOK'
<1> SUFFICES ASSUME TypeOK, [Next]_vars PROVE TypeOK'
  OBVIOUS
<1>1. CASE UNCHANGED vars
  BY <1>1 DEF TypeOK, vars
<1> QED BY <1>1, EmplaceType, TryPopType, FlushType DEF Next

\* The types of the state; and the vector never holds more than its memory has
\* room for, whatever the hint was worth when a flush reserved it.
THEOREM TypeCorrect == Spec => []TypeOK
BY InitType, NextType, PTL DEF Spec

-----------------------------------------------------------------------------
(* The hint.                                                               *)

LEMMA NextHint == TypeOK /\ [Next]_vars => [capacity' >= capacity]_vars
<1> SUFFICES ASSUME TypeOK, Next PROVE capacity' >= capacity
  BY DEF vars
<1>1. ASSUME NEW f \in Flushers, RaiseSucceeds(f)
      PROVE  capacity' >= capacity
  <2>1. flusher[f].c \in Nat /\ flusher[f].r \in Nat
    BY DEF TypeOK
  <2> QED BY <1>1, <2>1 DEF RaiseSucceeds, MustRaise
<1>2. CASE UNCHANGED capacity
  BY <1>2 DEF TypeOK
<1> QED
  BY <1>1, <1>2 DEF Next, FlushGoesOn, emplace_back, try_pop_back, FlushReserve,
                    FlushSwap, RaiseFails, FlushReturn

\* The hint never shrinks, with any number of flushes that loaded it earlier.
THEOREM HintNeverShrinks == Spec => HintGrows
BY TypeCorrect, NextHint, PTL DEF Spec, HintGrows

-----------------------------------------------------------------------------
(* The queue implements MessageBuffer.                                     *)

LEMMA InitRefines == Init => Promise!Init
BY DEF Init, Promise!Init

LEMMA NextRefines == TypeOK /\ [Next]_vars => [Promise!Next]_(Promise!vars)
<1> SUFFICES ASSUME TypeOK, [Next]_vars
             PROVE  Promise!Next \/ UNCHANGED Promise!vars
  OBVIOUS
<1>1. CASE emplace_back
  <2>1. appended' \in Elements
    BY <1>1, FlushQueueAssumption DEF TypeOK, emplace_back, Elements
  <2>2. Promise!Put(appended')
    BY <1>1 DEF emplace_back, Promise!Put
  <2> QED BY <2>1, <2>2 DEF Promise!Next
<1>2. CASE try_pop_back
  <2>1. Promise!TakeLatest
    BY <1>2 DEF try_pop_back, Last, Front, Promise!TakeLatest, Promise!Last, Promise!Front
  <2> QED BY <2>1 DEF Promise!Next
<1>3. ASSUME NEW f \in Flushers, FlushSwap(f)
      PROVE  Promise!Next
  <2>1. Promise!TakeAll
    BY <1>3 DEF FlushSwap, Promise!TakeAll
  <2> QED BY <2>1 DEF Promise!Next
<1>4. CASE UNCHANGED <<vector, taken>>
  BY <1>4 DEF Promise!vars
<1> QED
  BY <1>1, <1>2, <1>3, <1>4 DEF Next, FlushGoesOn, FlushReserve, RaiseSucceeds,
                                RaiseFails, FlushReturn, vars

\* flush takes effect at one moment, and so does every other call: the queue
\* is a buffer that hands out every message once.
THEOREM Refines == Spec => ImplementsMessageBuffer
<1>1. ImplementsMessageBuffer <=> Promise!Init /\ [][Promise!Next]_(Promise!vars)
  BY DEF ImplementsMessageBuffer, Promise!Spec
<1> QED
  BY <1>1, InitRefines, NextRefines, TypeCorrect, PTL DEF Spec
=============================================================================
