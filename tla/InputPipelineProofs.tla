------------------------ MODULE InputPipelineProofs ------------------------
(* Theorems about InputPipeline for any widths of the counter and of the   *)
(* wire, any clients and workers, and any number of inputs.                *)
EXTENDS InputPipeline, WellFoundedInduction, TLAPS

-----------------------------------------------------------------------------
(* The numbers of a client's messages.                                     *)

\* A number below the modulus is its own remainder.
LEMMA SmallRemainder ==
    ASSUME NEW n \in Nat \ {0}, NEW i \in Nat, i < n
    PROVE  i % n = i
<1>1. i = n * (i \div n) + (i % n) /\ i \div n \in Nat /\ i % n \in Nat
  OBVIOUS
<1>2. i \div n = 0
  <2> SUFFICES ASSUME i \div n >= 1 PROVE FALSE
    BY <1>1
  <2>1. n * (i \div n) >= n
    BY <1>1
  <2> QED BY <1>1, <2>1
<1> QED BY <1>1, <1>2

\* What is left of a sequence without its head.
LEMMA TailOfSequence ==
    ASSUME NEW S, NEW s \in Seq(S), s # <<>>
    PROVE  /\ Len(s) \in Nat \ {0} /\ Head(s) = s[1] /\ s[1] \in S
           /\ Tail(s) \in Seq(S) /\ Len(Tail(s)) = Len(s) - 1
           /\ \A i \in 1 .. Len(s) - 1 : Tail(s)[i] = s[i + 1]
<1>1. Len(s) \in Nat \ {0} /\ Head(s) = s[1] /\ s[1] \in S
  OBVIOUS
<1>2. Tail(s) \in Seq(S) /\ Len(Tail(s)) = Len(s) - 1
  OBVIOUS
<1>3. \A i \in 1 .. Len(s) - 1 : Tail(s)[i] = s[i + 1]
  OBVIOUS
<1> QED BY <1>1, <1>2, <1>3

Number == 0 .. CounterMod - 1

Successor(k) == (k + 1) % CounterMod

\* What the network thread of c will send next, unless it ends before.
NextNumber(c) == IF posted[c] = <<>> THEN m_sequence_number[c] ELSE posted[c][1]

\* The posted numbers follow one another up to the counter, and continue those
\* that were sent.  Those increase: the wire ends before the counter does, so
\* the successor of a number that was sent is a larger one.
Consecutive(c) ==
    /\ \A i \in 1 .. Len(posted[c]) - 1 : posted[c][i + 1] = Successor(posted[c][i])
    /\ posted[c] # <<>> => m_sequence_number[c] = Successor(posted[c][Len(posted[c])])
    /\ \A i, j \in 1 .. Len(sent[c]) : i < j => sent[c][i] < sent[c][j]
    /\ \A i \in 1 .. Len(sent[c]) : sent[c][i] < NextNumber(c)

ClientType ==
    /\ m_sequence_number \in [Clients -> Number]
    /\ posted \in [Clients -> Seq(Number)]
    /\ sent \in [Clients -> Seq(0 .. WireMax)]

NumbersInv == ClientType /\ \A c \in Clients : Consecutive(c)

LEMMA SuccessorType ==
    ASSUME NEW k \in Number
    PROVE  /\ Successor(k) \in Number
           /\ k <= WireMax => Successor(k) = k + 1
<1>1. CounterMod \in Nat \ {0} /\ k + 1 \in Nat /\ WireMax \in Nat /\ WireMax + 1 < CounterMod
  BY NumbersAssumption DEF Number
<1>2. Successor(k) \in Number
  BY <1>1 DEF Successor, Number
<1>3. ASSUME k <= WireMax PROVE Successor(k) = k + 1
  <2>1. k + 1 < CounterMod
    BY <1>1, <1>3 DEF Number
  <2> QED BY <1>1, <2>1, SmallRemainder DEF Successor
<1> QED BY <1>2, <1>3

LEMMA SendInputInv ==
    ASSUME NumbersInv, NEW c \in Clients, send_input(c)
    PROVE  NumbersInv'
<1> DEFINE k == m_sequence_number[c]
<1>1. k \in Number /\ Successor(k) \in Number
  BY SuccessorType DEF NumbersInv, ClientType
<1>2. /\ posted' = [posted EXCEPT ![c] = Append(@, k)]
      /\ m_sequence_number' = [m_sequence_number EXCEPT ![c] = Successor(k)]
      /\ sent' = sent
  BY DEF send_input, Successor, NumbersInv, ClientType
<1>3. ClientType'
  BY <1>1, <1>2 DEF NumbersInv, ClientType
<1>4. Consecutive(c)'
  <2>1. /\ posted[c] \in Seq(Number) /\ Consecutive(c)
        /\ posted'[c] = Append(posted[c], k)
        /\ m_sequence_number'[c] = Successor(k)
        /\ sent'[c] = sent[c]
    BY <1>2 DEF NumbersInv, ClientType
  <2> DEFINE n == Len(posted[c])
  <2>2. /\ n \in Nat /\ Len(posted'[c]) = n + 1
        /\ posted'[c][n + 1] = k
        /\ \A i \in 1 .. n : posted'[c][i] = posted[c][i]
    BY <1>1, <2>1
  <2>3. ASSUME NEW i \in 1 .. n PROVE posted'[c][i + 1] = Successor(posted'[c][i])
    <3>1. CASE i = n
      BY <2>1, <2>2, <3>1 DEF Consecutive
    <3>2. CASE i # n
      BY <2>1, <2>2, <3>2 DEF Consecutive
    <3> QED BY <3>1, <3>2
  <2>4. NextNumber(c)' = NextNumber(c)
    BY <2>1, <2>2 DEF NextNumber
  <2> QED BY <2>1, <2>2, <2>3, <2>4 DEF Consecutive
<1>5. ASSUME NEW d \in Clients \ {c} PROVE Consecutive(d)'
  BY <1>2 DEF NumbersInv, ClientType, Consecutive, NextNumber
<1> QED BY <1>3, <1>4, <1>5 DEF NumbersInv

LEMMA UdpSendInv ==
    ASSUME NumbersInv, NEW c \in Clients, udp_send_message(c)
    PROVE  NumbersInv'
<1> DEFINE k == Head(posted[c])
           n == Len(posted[c])
           m == Len(sent[c])
<1>1. /\ posted[c] \in Seq(Number) /\ posted[c] # <<>> /\ Consecutive(c)
      /\ sent[c] \in Seq(0 .. WireMax)
      /\ k <= WireMax
      /\ posted' = [posted EXCEPT ![c] = Tail(@)]
      /\ sent' = [sent EXCEPT ![c] = Append(@, k)]
      /\ m_sequence_number' = m_sequence_number
  BY DEF udp_send_message, NumbersInv, ClientType
<1>2. /\ n \in Nat \ {0} /\ k = posted[c][1] /\ k \in Number /\ k \in 0 .. WireMax
      /\ Tail(posted[c]) \in Seq(Number) /\ Len(Tail(posted[c])) = n - 1
      /\ \A i \in 1 .. n - 1 : Tail(posted[c])[i] = posted[c][i + 1]
  <2>1. /\ n \in Nat \ {0} /\ k = posted[c][1] /\ k \in Number
        /\ Tail(posted[c]) \in Seq(Number) /\ Len(Tail(posted[c])) = n - 1
        /\ \A i \in 1 .. n - 1 : Tail(posted[c])[i] = posted[c][i + 1]
    BY <1>1, TailOfSequence
  <2>2. k \in 0 .. WireMax
    BY <1>1, <2>1, NumbersAssumption DEF Number
  <2> QED BY <2>1, <2>2
<1>3. /\ m \in Nat
      /\ Append(sent[c], k) \in Seq(0 .. WireMax) /\ Len(Append(sent[c], k)) = m + 1
      /\ Append(sent[c], k)[m + 1] = k
      /\ \A i \in 1 .. m : Append(sent[c], k)[i] = sent[c][i]
  BY <1>1, <1>2
<1>4. ClientType'
  BY <1>1, <1>2, <1>3 DEF NumbersInv, ClientType
<1>5. posted'[c] = Tail(posted[c]) /\ sent'[c] = Append(sent[c], k)
  BY <1>1 DEF NumbersInv, ClientType
<1>6. NextNumber(c)' = k + 1
  <2>1. Successor(k) = k + 1
    BY <1>1, <1>2, SuccessorType
  <2>2. CASE n = 1
    <3>1. posted'[c] = <<>>
      <4>1. posted'[c] \in Seq(Number) /\ Len(posted'[c]) = 0
        BY <1>2, <1>5, <2>2
      <4> QED BY <4>1
    <3>2. m_sequence_number[c] = Successor(k)
      BY <1>1, <1>2, <2>2 DEF Consecutive
    <3> QED BY <1>1, <2>1, <3>1, <3>2 DEF NextNumber
  <2>3. CASE n # 1
    <3>1. posted'[c] # <<>> /\ posted'[c][1] = posted[c][1 + 1] /\ 1 \in 1 .. n - 1
      <4>1. 1 \in 1 .. n - 1
        <5> HIDE DEF n
        <5> QED BY <1>2, <2>3
      <4>2. posted'[c] \in Seq(Number) /\ Len(posted'[c]) = n - 1 /\ n - 1 # 0
        BY <1>2, <1>5, <2>3
      <4>3. posted'[c] # <<>>
        BY <4>2
      <4> QED BY <1>2, <1>5, <4>1, <4>3
    <3>2. posted[c][1 + 1] = Successor(posted[c][1])
      BY <1>1, <3>1 DEF Consecutive
    <3> QED BY <1>2, <2>1, <3>1, <3>2 DEF NextNumber
  <2> QED BY <2>2, <2>3
<1>7. \A i \in 1 .. m : sent[c][i] < k
  BY <1>1, <1>2 DEF Consecutive, NextNumber
<1>8. Consecutive(c)'
  <2>1. ASSUME NEW i \in 1 .. (n - 1) - 1
        PROVE  posted'[c][i + 1] = Successor(posted'[c][i])
    <3>1. i \in 1 .. n - 1 /\ i + 1 \in 1 .. n - 1
      BY <1>2
    <3>2. posted[c][(i + 1) + 1] = Successor(posted[c][i + 1])
      BY <1>1, <3>1 DEF Consecutive
    <3> QED BY <1>2, <1>5, <3>1, <3>2
  <2>2. ASSUME posted'[c] # <<>>
        PROVE  m_sequence_number'[c] = Successor(posted'[c][n - 1])
    <3>1. n - 1 \in 1 .. n - 1 /\ (n - 1) + 1 = n
      BY <1>2, <1>5, <2>2
    <3>2. posted'[c][n - 1] = posted[c][n]
      BY <1>2, <1>5, <3>1
    <3> QED BY <1>1, <3>2 DEF Consecutive
  <2>3. ASSUME NEW i \in 1 .. m + 1, NEW j \in 1 .. m + 1, i < j
        PROVE  sent'[c][i] < sent'[c][j]
    <3>1. CASE j = m + 1
      BY <1>3, <1>5, <1>7, <2>3, <3>1
    <3>2. CASE j # m + 1
      BY <1>1, <1>3, <1>5, <2>3, <3>2 DEF Consecutive
    <3> QED BY <3>1, <3>2
  <2>4. \A i \in 1 .. m + 1 : sent'[c][i] < k + 1
    <3>1. ASSUME NEW i \in 1 .. m PROVE sent[c][i] \in Nat
      <4>1. sent[c][i] \in 0 .. WireMax /\ WireMax \in Nat
        BY <1>1, NumbersAssumption
      <4> QED BY <4>1
    <3>2. k \in Nat /\ k < k + 1
      BY <1>2
    <3>3. ASSUME NEW i \in 1 .. m + 1, i # m + 1 PROVE sent'[c][i] < k + 1
      <4>1. i \in 1 .. m
        BY <1>3, <3>3
      <4>2. sent'[c][i] = sent[c][i] /\ sent[c][i] < k /\ sent[c][i] \in Nat
        BY <1>3, <1>5, <1>7, <3>1, <4>1
      <4> HIDE DEF k
      <4> QED BY <3>2, <4>2
    <3> QED BY <1>3, <1>5, <3>2, <3>3
  <2> QED BY <1>2, <1>3, <1>5, <1>6, <2>1, <2>2, <2>3, <2>4 DEF Consecutive
<1>9. ASSUME NEW d \in Clients \ {c} PROVE Consecutive(d)'
  BY <1>1 DEF NumbersInv, ClientType, Consecutive, NextNumber
<1> QED BY <1>4, <1>8, <1>9 DEF NumbersInv

LEMMA NextNumbers == NumbersInv /\ [Next]_vars => NumbersInv'
<1> SUFFICES ASSUME NumbersInv, [Next]_vars PROVE NumbersInv'
  OBVIOUS
<1>1. ASSUME NEW c \in Clients, send_input(c) \/ udp_send_message(c)
      PROVE  NumbersInv'
  BY <1>1, SendInputInv, UdpSendInv
<1>2. CASE UNCHANGED <<m_sequence_number, posted, sent>>
  BY <1>2 DEF NumbersInv, ClientType, Consecutive, NextNumber
<1> QED
  BY <1>1, <1>2 DEF Next, NetworkThreadThrows, LoginEnds, RunReturns, Register, Unregister,
     Lose, Received, udp_receive, ReceiveFails, Handle, LookUp, handle_udp_receive,
     HandleThrows, HandleCaught, StartGame, handle_tick, clientVars, vars

LEMMA InitNumbers == Init => NumbersInv
<1> SUFFICES ASSUME Init PROVE NumbersInv
  OBVIOUS
<1>1. ClientType
  <2>1. m_sequence_number \in [Clients -> Number]
    BY NumbersAssumption DEF Init, Number
  <2>2. posted \in [Clients -> Seq(Number)] /\ sent \in [Clients -> Seq(0 .. WireMax)]
    <3>1. <<>> \in Seq(Number) /\ <<>> \in Seq(0 .. WireMax)
      OBVIOUS
    <3> QED BY <3>1 DEF Init
  <2> QED BY <2>1, <2>2 DEF ClientType
<1>2. ASSUME NEW c \in Clients PROVE Consecutive(c)
  <2>1. posted[c] = <<>> /\ sent[c] = <<>>
    BY DEF Init
  <2>2. Len(posted[c]) = 0 /\ Len(sent[c]) = 0
    BY <2>1
  <2> QED BY <2>1, <2>2 DEF Consecutive
<1> QED BY <1>1, <1>2 DEF NumbersInv

\* The numbers of a client's messages increase from wherever its uninitialized
\* counter began, for every width of the wire below that of the counter.
THEOREM NumbersNeverRepeat == Spec => []NumbersIncrease
<1>1. NumbersInv => NumbersIncrease
  BY DEF NumbersInv, ClientType, Consecutive, NumbersIncrease
<1> QED BY <1>1, InitNumbers, NextNumbers, PTL DEF Spec

-----------------------------------------------------------------------------
(* What a tick selects.                                                    *)

\* Induction up to m: else there is a least number outside of the set.
LEMMA UpTo ==
    ASSUME NEW m \in Nat, NEW S, 0 \in S, \A n \in 1 .. m : n - 1 \in S => n \in S
    PROVE  m \in S
<1> DEFINE others == {n \in 0 .. m : n \notin S}
<1>1. SUFFICES ASSUME others # {} PROVE FALSE
  OBVIOUS
<1>2. PICK n \in others : \A k \in others : ~(<<k, n>> \in OpToRel(<, Nat))
  <2>1. others \subseteq Nat
    OBVIOUS
  <2> HIDE DEF others
  <2> QED BY <1>1, <2>1, NatLessThanWellFounded, WFMin
<1>3. n \in 1 .. m /\ n - 1 \in 0 .. m /\ n - 1 \in Nat /\ n - 1 < n /\ n \notin S
  OBVIOUS
<1>4. n - 1 \in others
  BY <1>3
<1>5. <<n - 1, n>> \in OpToRel(<, Nat)
  BY <1>3 DEF OpToRel
<1> QED BY <1>2, <1>4, <1>5

\* What the loop has after each message: a recursive function, which exists
\* because it does up to every number of messages.
Rounds(received) ==
    CHOOSE recent :
        recent = [n \in 0 .. Len(received) |->
                     IF n = 0 THEN None ELSE NewestOf(recent[n - 1], received[n])]

LEMMA EachRound ==
    ASSUME NEW received \in Seq(Packets)
    PROVE  /\ Rounds(received)[0] = None
           /\ \A n \in 1 .. Len(received) :
                 Rounds(received)[n] = NewestOf(Rounds(received)[n - 1], received[n])
<1> DEFINE m == Len(received)
           IsRounds(recent, k) ==
               recent = [n \in 0 .. k |->
                            IF n = 0 THEN None ELSE NewestOf(recent[n - 1], received[n])]
           S == {k \in 0 .. m : \E recent : IsRounds(recent, k)}
<1>1. m \in Nat
  OBVIOUS
<1> HIDE DEF m
<1>2. 0 \in S
  <2> DEFINE recent == [n \in {0} |-> None]
  <2>1. IsRounds(recent, 0)
    OBVIOUS
  <2> HIDE DEF recent
  <2>2. \E r : IsRounds(r, 0)
    BY <2>1
  <2> HIDE DEF IsRounds
  <2> QED BY <1>1, <2>2
<1>3. ASSUME NEW k \in 1 .. m, k - 1 \in S PROVE k \in S
  <2>1. PICK f : IsRounds(f, k - 1)
    BY <1>3
  <2> DEFINE recent == [n \in 0 .. k |->
                           IF n = k THEN NewestOf(f[k - 1], received[k]) ELSE f[n]]
  <2>2. k \in 0 .. m /\ k \in Nat \ {0}
    BY <1>1
  <2>3. ASSUME NEW n \in 0 .. k
        PROVE  recent[n] = IF n = 0 THEN None ELSE NewestOf(recent[n - 1], received[n])
    <3>1. CASE n = k
      <4>1. recent[n - 1] = f[k - 1]
        BY <2>2, <3>1
      <4> QED BY <2>2, <3>1, <4>1
    <3>2. CASE n # k
      <4>1. n \in 0 .. k - 1 /\ recent[n] = f[n]
        BY <2>2, <3>2
      <4>2. n # 0 => n - 1 \in 0 .. k /\ n - 1 # k
        BY <2>2
      <4>3. n # 0 => recent[n - 1] = f[n - 1]
        BY <4>2
      <4>4. f[n] = IF n = 0 THEN None ELSE NewestOf(f[n - 1], received[n])
        BY <2>1, <4>1
      <4> HIDE DEF recent
      <4> QED BY <4>1, <4>3, <4>4
    <3> QED BY <3>1, <3>2
  <2>4. recent = [n \in 0 .. k |-> recent[n]]
    OBVIOUS
  <2> HIDE DEF recent
  <2>5. IsRounds(recent, k)
    BY <2>3, <2>4
  <2> QED BY <2>2, <2>5
<1>4. m \in S
  <2> HIDE DEF S
  <2>1. \A n \in 1 .. m : n - 1 \in S => n \in S
    BY <1>3
  <2> QED BY <1>1, <1>2, <2>1, UpTo
<1>5. \E recent : IsRounds(recent, m)
  BY <1>4
<1>6. IsRounds(Rounds(received), m)
  BY <1>5 DEF Rounds, m
<1> DEFINE f == Rounds(received)
<1>7. f = [n \in 0 .. m |-> IF n = 0 THEN None ELSE NewestOf(f[n - 1], received[n])]
  BY <1>6
<1> HIDE DEF f
<1>8. f[0] = None /\ \A n \in 1 .. m : f[n] = NewestOf(f[n - 1], received[n])
  BY <1>1, <1>7
<1> QED BY <1>8 DEF f, m

\* p is one of the first n messages, or none, and none of them is newer.
IsNewest(p, received, n) ==
    /\ p = None \/ \E i \in 1 .. n : p = received[i]
    /\ \A i \in 1 .. n :
          received[i].number > 0 => p # None /\ received[i].number <= p.number

LEMMA PacketNumber ==
    ASSUME NEW p \in Packets
    PROVE  p.number \in Nat /\ p.number <= WireMax /\ p # None
BY NumbersAssumption, NoneAssumption DEF Packets

\* The loop keeps the newest of the messages it has seen.
LEMMA RoundKeepsNewest ==
    ASSUME NEW received \in Seq(Packets), NEW n \in 1 .. Len(received),
           NEW p, IsNewest(p, received, n - 1)
    PROVE  IsNewest(NewestOf(p, received[n]), received, n)
<1> DEFINE q == received[n]
           r == NewestOf(p, q)
<1>1. n \in Nat \ {0} /\ \A i \in 1 .. n : received[i] \in Packets
  OBVIOUS
<1>2. \A i \in 1 .. n : received[i].number \in Nat /\ received[i] # None
  BY <1>1, PacketNumber
<1>3. p = None \/ (p # None /\ p.number \in Nat)
  <2>1. \A i \in 1 .. n - 1 : i \in 1 .. n
    BY <1>1
  <2> QED BY <1>2, <2>1 DEF IsNewest
<1>4. n \in 1 .. n /\ 1 .. n = (1 .. n - 1) \cup {n}
  BY <1>1
<1>5. q.number \in Nat /\ q # None
  BY <1>2, <1>4
<1> HIDE DEF q
<1>6. r = None \/ \E i \in 1 .. n : r = received[i]
  BY <1>4 DEF IsNewest, NewestOf, q
<1>7. ASSUME NEW i \in 1 .. n, received[i].number > 0
      PROVE  r # None /\ received[i].number <= r.number
  <2>1. CASE i = n
    <3>1. received[i] = q
      BY <2>1 DEF q
    <3> QED BY <1>3, <1>5, <1>7, <3>1 DEF NewestOf
  <2>2. CASE i # n
    <3>1. i \in 1 .. n - 1
      BY <1>4, <2>2
    <3>2. p # None /\ received[i].number <= p.number
      BY <1>7, <3>1 DEF IsNewest
    <3>3. received[i].number \in Nat
      BY <1>2
    <3> QED BY <1>3, <1>5, <3>2, <3>3 DEF NewestOf
  <2> QED BY <2>1, <2>2
<1> QED BY <1>6, <1>7 DEF IsNewest, q

LEMMA SelectNewest ==
    ASSUME NEW received \in Seq(Packets)
    PROVE  IsNewest(Select(received), received, Len(received))
<1> DEFINE m == Len(received)
           f == Rounds(received)
           S == {n \in 0 .. m : IsNewest(f[n], received, n)}
<1>1. m \in Nat
  OBVIOUS
<1>2. f[0] = None /\ \A n \in 1 .. m : f[n] = NewestOf(f[n - 1], received[n])
  BY EachRound
<1>3. Select(received) = f[m]
  BY DEF Select, Rounds
<1> HIDE DEF f
<1>4. 0 \in S
  <2>1. IsNewest(f[0], received, 0)
    BY <1>2 DEF IsNewest
  <2> QED BY <1>1, <2>1
<1>5. ASSUME NEW n \in 1 .. m, n - 1 \in S PROVE n \in S
  <2>1. IsNewest(NewestOf(f[n - 1], received[n]), received, n)
    BY <1>5, RoundKeepsNewest
  <2>2. n \in 0 .. m
    BY <1>1
  <2> QED BY <1>2, <2>1, <2>2
<1>6. m \in S
  <2> HIDE DEF S, m
  <2>1. \A n \in 1 .. m : n - 1 \in S => n \in S
    BY <1>5
  <2> QED BY <1>1, <1>4, <2>1, UpTo
<1> QED BY <1>3, <1>6

Handling == [at : {"received", "found", "caught"}, packet : Packets]

\* The types of what lies between the clients' counters and the tick, and that
\* the tick selected from its messages as the loop does.
ServerInv ==
    /\ login \in [Clients -> BOOLEAN]
    /\ run \in [Clients -> {"running", "returned", "terminated"}]
    /\ network \in SUBSET Packets
    /\ connected \in SUBSET Clients
    /\ receiving \in {"posted", "armed"}
    /\ worker \in [Workers -> {Idle} \cup Handling]
    /\ m_udp_received \in Seq(Packets)
    /\ m_game_state \in BOOLEAN
    /\ batch \in Seq(Packets)
    /\ IsNewest(most_recent, batch, Len(batch))

LEMMA NextServer == NumbersInv /\ ServerInv /\ [Next]_vars => ServerInv'
<1> SUFFICES ASSUME NumbersInv, ServerInv, [Next]_vars PROVE ServerInv'
  OBVIOUS
<1>1. ASSUME NEW c \in Clients, udp_send_message(c)
      PROVE  ServerInv'
  <2>1. posted[c] \in Seq(Number) /\ posted[c] # <<>> /\ Head(posted[c]) <= WireMax
    BY <1>1 DEF udp_send_message, NumbersInv, ClientType
  <2>2. Head(posted[c]) \in Number
    BY <2>1, TailOfSequence
  <2>3. [client |-> c, number |-> Head(posted[c])] \in Packets
    BY <2>1, <2>2, NumbersAssumption DEF Packets, Number
  <2> QED BY <1>1, <2>3 DEF udp_send_message, serverVars, tickVars, ServerInv
<1>2. ASSUME NEW c \in Clients,
             send_input(c) \/ NetworkThreadThrows(c) \/ LoginEnds(c) \/ RunReturns(c)
      PROVE  ServerInv'
  BY <1>2 DEF send_input, NetworkThreadThrows, LoginEnds, RunReturns, serverVars, tickVars,
     ServerInv
<1>3. ASSUME NEW c \in Clients, Register(c) \/ Unregister(c)
      PROVE  ServerInv'
  BY <1>3 DEF Register, Unregister, clientVars, tickVars, ServerInv
<1>4. ASSUME NEW p \in network, Lose(p) \/ \E w \in Workers : Received(w, p)
      PROVE  ServerInv'
  <2>1. CASE Lose(p)
    BY <2>1 DEF Lose, clientVars, serverVars, tickVars, ServerInv
  <2>2. ASSUME NEW w \in Workers, Received(w, p) PROVE ServerInv'
    <3>1. [at |-> "received", packet |-> p] \in Handling
      BY DEF ServerInv, Handling
    <3> QED BY <2>2, <3>1 DEF Received, clientVars, tickVars, ServerInv
  <2> QED BY <1>4, <2>1, <2>2
<1>5. CASE udp_receive \/ ReceiveFails
  BY <1>5 DEF udp_receive, ReceiveFails, clientVars, tickVars, ServerInv
<1>6. ASSUME NEW w \in Workers, LookUp(w)
      PROVE  ServerInv'
  <2>1. worker[w] \in Handling
    BY <1>6 DEF LookUp, ServerInv, Idle
  <2>2. [worker[w] EXCEPT !.at = "found"] \in Handling
    BY <2>1 DEF Handling
  <2>3. \/ worker' = [worker EXCEPT ![w] = [worker[w] EXCEPT !.at = "found"]]
        \/ worker' = [worker EXCEPT ![w] = Idle]
    BY <1>6 DEF LookUp, ServerInv
  <2>4. worker' \in [Workers -> {Idle} \cup Handling]
    BY <2>2, <2>3 DEF ServerInv
  <2> QED BY <1>6, <2>4 DEF LookUp, clientVars, tickVars, ServerInv
<1>7. ASSUME NEW w \in Workers, handle_udp_receive(w)
      PROVE  ServerInv'
  <2>1. worker[w].packet \in Packets
    BY <1>7 DEF handle_udp_receive, ServerInv, Idle, Handling
  <2>2. /\ m_udp_received' = Append(m_udp_received, worker[w].packet)
        /\ worker' = [worker EXCEPT ![w] = Idle]
        /\ UNCHANGED <<login, run, network, connected, receiving, m_game_state, batch,
                       most_recent>>
    BY <1>7 DEF handle_udp_receive, Buffer!Put, clientVars
  <2>3. Append(m_udp_received, worker[w].packet) \in Seq(Packets)
    BY <2>1 DEF ServerInv
  <2>4. worker' \in [Workers -> {Idle} \cup Handling]
    BY <2>2 DEF ServerInv
  <2> QED BY <2>2, <2>3, <2>4 DEF ServerInv
<1>8. CASE handle_tick
  <2>1. /\ batch' = m_udp_received /\ m_udp_received' = <<>> /\ most_recent' = Select(batch')
        /\ UNCHANGED <<login, run, network, connected, receiving, worker, m_game_state>>
    BY <1>8 DEF handle_tick, Buffer!TakeAll, clientVars
  <2>2. IsNewest(most_recent, batch, Len(batch))'
    BY <2>1, SelectNewest DEF ServerInv
  <2> QED BY <2>1, <2>2 DEF ServerInv
<1>9. ASSUME NEW w \in Workers, HandleThrows(w) \/ HandleCaught(w)
      PROVE  ServerInv'
  <2>1. worker[w] \in Handling
    BY <1>9 DEF HandleThrows, HandleCaught, ServerInv, Idle
  <2>2. [worker[w] EXCEPT !.at = "caught"] \in Handling
    BY <2>1 DEF Handling
  <2>3. \/ worker' = [worker EXCEPT ![w] = [worker[w] EXCEPT !.at = "caught"]]
        \/ worker' = [worker EXCEPT ![w] = Idle]
    BY <1>9 DEF HandleThrows, HandleCaught, ServerInv
  <2>4. worker' \in [Workers -> {Idle} \cup Handling]
    BY <2>2, <2>3 DEF ServerInv
  <2> QED BY <1>9, <2>4 DEF HandleThrows, HandleCaught, clientVars, tickVars, ServerInv
<1>10. CASE StartGame
  BY <1>10 DEF StartGame, clientVars, serverVars, ServerInv
<1>11. CASE UNCHANGED vars
  BY <1>11 DEF vars, clientVars, serverVars, tickVars, ServerInv
<1> QED
  BY <1>1, <1>2, <1>3, <1>4, <1>5, <1>6, <1>7, <1>8, <1>9, <1>10, <1>11 DEF Next, Handle

LEMMA InitServer == Init => ServerInv
<1> SUFFICES ASSUME Init PROVE ServerInv
  OBVIOUS
<1>1. batch = <<>> /\ Len(batch) = 0 /\ m_udp_received = <<>> /\ most_recent = None
  BY DEF Init
<1>2. IsNewest(most_recent, batch, Len(batch))
  BY <1>1 DEF IsNewest
<1>3. <<>> \in Seq(Packets)
  OBVIOUS
<1> QED BY <1>1, <1>2, <1>3 DEF Init, ServerInv

\* The invariant holds for any loss, repetition and order of the packets.
THEOREM ServerSound == Spec => [](NumbersInv /\ ServerInv)
BY InitNumbers, NextNumbers, InitServer, NextServer, PTL DEF Spec

\* Only numbers the wire holds are ever under way, and only packets of clients
\* reach a worker, the queue and the tick.
THEOREM TypeCorrect == Spec => []TypeOK
<1>1. ServerInv => most_recent \in Packets \cup {None}
  <2> SUFFICES ASSUME ServerInv, most_recent # None PROVE most_recent \in Packets
    OBVIOUS
  <2> QED BY DEF ServerInv, IsNewest
<1>2. NumbersInv /\ ServerInv => TypeOK
  BY <1>1 DEF NumbersInv, ClientType, ServerInv, TypeOK, Number, Handling
<1> QED BY <1>2, ServerSound, PTL

\* A tick selects the newest of its messages, in whatever order and however
\* often they came in.
THEOREM TickSelectsNewest == Spec => []NewestIsSelected
<1>1. ServerInv => NewestIsSelected
  <2> SUFFICES ASSUME ServerInv PROVE NewestIsSelected
    OBVIOUS
  <2>1. DOMAIN batch = 1 .. Len(batch)
    BY DEF ServerInv
  <2>2. most_recent # None => most_recent \in ToSet(batch)
    BY <2>1 DEF ServerInv, IsNewest, ToSet
  <2> QED BY <2>1, <2>2 DEF ServerInv, IsNewest, NewestIsSelected
<1> QED BY <1>1, ServerSound, PTL
=============================================================================
