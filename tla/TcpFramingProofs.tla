-------------------------- MODULE TcpFramingProofs --------------------------
(* Theorems about Serialize and TcpFraming for every number of values of a *)
(* byte, any variants of messages, and any pieces that TCP cuts the bytes  *)
(* into.                                                                   *)
EXTENDS TcpFraming, SequenceTheorems, WellFoundedInduction, TLAPS

-----------------------------------------------------------------------------
(* Loops.                                                                  *)

\* Induction up to m: else there is a least number outside of the set.
LEMMA UpTo ==
    ASSUME NEW m \in Nat, NEW S, 0 \in S, \A n \in 1 .. m : n - 1 \in S => n \in S
    PROVE  m \in S
<1> DEFINE others == {n \in 0 .. m : n \notin S}
<1>1. SUFFICES ASSUME others # {} PROVE FALSE
  OBVIOUS
<1>2. PICK n \in others : \A k \in others : ~(<<k, n>> \in OpToRel(<, Nat))
  <2>1. others \subseteq Nat
    OBVIOUS
  <2> HIDE DEF others
  <2> QED BY <1>1, <2>1, NatLessThanWellFounded, WFMin
<1>3. n \in 1 .. m /\ n - 1 \in 0 .. m /\ n - 1 \in Nat /\ n - 1 < n /\ n \notin S
  OBVIOUS
<1>4. n - 1 \in others
  BY <1>3
<1>5. <<n - 1, n>> \in OpToRel(<, Nat)
  BY <1>3 DEF OpToRel
<1> QED BY <1>2, <1>4, <1>5

\* The results f of the rounds of a loop whose round n takes x to step[n][x].
IsLoop(f, S, first, m, step) ==
    /\ f \in [0 .. m -> S] /\ f[0] = first
    /\ \A n \in 1 .. m : f[n] = step[n][f[n - 1]]

\* A loop can be run.
LEMMA LoopRuns ==
    ASSUME NEW S, NEW first \in S, NEW m \in Nat, NEW step \in [1 .. m -> [S -> S]]
    PROVE  \E f : IsLoop(f, S, first, m, step)
<1> DEFINE IsRun(f, k) ==
               f \in [0 .. k -> S] /\ f[0] = first /\ \A n \in 1 .. k : f[n] = step[n][f[n - 1]]
           can == {k \in 0 .. m : \E f : IsRun(f, k)}
<1>1. 0 \in can
  <2> DEFINE f == [n \in 0 .. 0 |-> first]
  <2>1. f \in [0 .. 0 -> S] /\ f[0] = first
    OBVIOUS
  <2>2. 0 \in 0 .. m /\ 1 .. 0 = {}
    OBVIOUS
  <2> HIDE DEF f
  <2>3. IsRun(f, 0)
    BY <2>1, <2>2
  <2> HIDE DEF IsRun
  <2> QED BY <2>2, <2>3
<1>2. ASSUME NEW k \in 1 .. m, k - 1 \in can PROVE k \in can
  <2>1. PICK f : IsRun(f, k - 1)
    BY <1>2
  <2> DEFINE g == [n \in 0 .. k |-> IF n = k THEN step[k][f[k - 1]] ELSE f[n]]
  <2>2. k \in 0 .. m /\ k \in Nat \ {0} /\ k - 1 \in 0 .. k - 1
    OBVIOUS
  <2>3. step[k][f[k - 1]] \in S
    BY <2>1, <2>2
  <2>4. g \in [0 .. k -> S] /\ g[0] = first
    BY <2>1, <2>2, <2>3
  <2>5. ASSUME NEW n \in 1 .. k PROVE g[n] = step[n][g[n - 1]]
    <3>1. g[n - 1] = f[n - 1]
      BY <2>2
    <3> QED BY <2>1, <2>2, <3>1
  <2> HIDE DEF g
  <2>6. IsRun(g, k)
    BY <2>4, <2>5
  <2> QED BY <2>2, <2>6
<1>3. m \in can
  <2> HIDE DEF can
  <2> QED BY <1>1, <1>2, UpTo
<1> QED BY <1>3 DEF IsLoop

\* The loop of Sum, when its intermediate results are known.
LEMMA SumIs ==
    ASSUME NEW numbers, Len(numbers) \in Nat, NEW g,
           g = [i \in 0 .. Len(numbers) |-> g[i]], g[0] = 0,
           \A i \in 1 .. Len(numbers) : g[i] = g[i - 1] + numbers[i]
    PROVE  Sum(numbers) = g[Len(numbers)]
<1> DEFINE m == Len(numbers)
           IsSum(f) == f = [i \in 0 .. m |-> IF i = 0 THEN 0 ELSE f[i - 1] + numbers[i]]
           sum == CHOOSE f : IsSum(f)
<1>1. Sum(numbers) = sum[m]
  BY DEF Sum
<1>2. IsSum(g)
  OBVIOUS
<1>3. IsSum(sum)
  <2> HIDE DEF IsSum
  <2> QED BY <1>2
<1> HIDE DEF sum
<1> DEFINE same == {i \in 0 .. m : sum[i] = g[i]}
<1>4. 0 \in same
  BY <1>3
<1>5. ASSUME NEW i \in 1 .. m, i - 1 \in same PROVE i \in same
  <2>1. i \in 0 .. m /\ i # 0 /\ sum[i - 1] = g[i - 1]
    BY <1>5
  <2>2. sum[i] = sum[i - 1] + numbers[i]
    BY <1>3, <2>1
  <2> QED BY <2>1, <2>2
<1>6. m \in same
  <2> HIDE DEF same
  <2> QED BY <1>4, <1>5, UpTo DEF m
<1> QED BY <1>1, <1>6

-----------------------------------------------------------------------------
(* Numbers of values.                                                      *)

LEMMA PowerRuns ==
    ASSUME NEW n \in Nat
    PROVE  \E f \in [0 .. n -> Nat \ {0}] :
              f[0] = 1 /\ f[n] = Power(n) /\ \A i \in 1 .. n : f[i] = Base * f[i - 1]
<1> DEFINE IsPower(f) == f = [i \in 0 .. n |-> IF i = 0 THEN 1 ELSE Base * f[i - 1]]
           power == CHOOSE f : IsPower(f)
           step == [i \in 1 .. n |-> [x \in Nat \ {0} |-> Base * x]]
<1>1. step \in [1 .. n -> [Nat \ {0} -> Nat \ {0}]]
  <2>1. \A x \in Nat \ {0} : Base * x \in Nat \ {0}
    BY BaseAssumption
  <2> QED BY <2>1
<1>2. PICK f : IsLoop(f, Nat \ {0}, 1, n, step)
  <2> HIDE DEF step
  <2> QED BY <1>1, LoopRuns, 1 \in Nat \ {0}
<1>3. ASSUME NEW i \in 1 .. n PROVE f[i] = Base * f[i - 1]
  <2>1. f[i - 1] \in Nat \ {0}
    BY <1>2, i - 1 \in 0 .. n DEF IsLoop
  <2> QED BY <1>2, <2>1 DEF IsLoop
<1>4. IsPower(f)
  BY <1>2, <1>3 DEF IsLoop
<1>5. IsPower(power)
  <2> HIDE DEF IsPower
  <2> QED BY <1>4
<1>6. Power(n) = power[n]
  BY DEF Power
<1> HIDE DEF power, step
<1> DEFINE same == {i \in 0 .. n : power[i] = f[i]}
<1>7. 0 \in same
  BY <1>2, <1>5 DEF IsLoop
<1>8. ASSUME NEW i \in 1 .. n, i - 1 \in same PROVE i \in same
  BY <1>3, <1>5, <1>8
<1>9. n \in same
  <2> HIDE DEF same
  <2> QED BY <1>7, <1>8, UpTo
<1> QED BY <1>2, <1>3, <1>6, <1>9 DEF IsLoop

LEMMA PowerType ==
    ASSUME NEW n \in Nat
    PROVE  Power(n) \in Nat \ {0}
<1>1. PICK f \in [0 .. n -> Nat \ {0}] : f[n] = Power(n)
  BY PowerRuns
<1> QED BY <1>1

LEMMA PowerZero == Power(0) = 1
<1>1. PICK f \in [0 .. 0 -> Nat \ {0}] : f[0] = 1 /\ f[0] = Power(0)
  BY PowerRuns
<1> QED BY <1>1

LEMMA PowerStep ==
    ASSUME NEW n \in Nat
    PROVE  Power(n + 1) = Base * Power(n)
<1>1. PICK f \in [0 .. n -> Nat \ {0}] :
         f[0] = 1 /\ f[n] = Power(n) /\ \A i \in 1 .. n : f[i] = Base * f[i - 1]
  BY PowerRuns
<1>2. PICK g \in [0 .. n + 1 -> Nat \ {0}] :
         g[0] = 1 /\ g[n + 1] = Power(n + 1) /\ \A i \in 1 .. n + 1 : g[i] = Base * g[i - 1]
  <2>1. n + 1 \in Nat
    OBVIOUS
  <2> QED BY <2>1, PowerRuns
<1> DEFINE same == {i \in 0 .. n : f[i] = g[i]}
<1>3. 0 \in same
  BY <1>1, <1>2
<1>4. ASSUME NEW i \in 1 .. n, i - 1 \in same PROVE i \in same
  BY <1>1, <1>2, <1>4
<1>5. n \in same
  <2> HIDE DEF same
  <2> QED BY <1>3, <1>4, UpTo
<1>6. g[n + 1] = Base * g[n]
  BY <1>2
<1> QED BY <1>1, <1>2, <1>5, <1>6


\* The numbers of values of the types of C++.
LEMMA PowersGrow ==
    /\ \A n \in {1, 2, 4, 8} : Power(n) \in Nat \ {0}
    /\ Power(1) >= 2 /\ Power(2) >= 2 * Power(1)
    /\ Power(4) >= 4 * Power(2) /\ Power(8) >= 4 * Power(4)
<1>1. ASSUME NEW n \in Nat PROVE Power(n + 1) >= 2 * Power(n) /\ Power(n) \in Nat \ {0}
  <2>1. PICK b \in Nat : Base = b + 2
    <3>1. Base - 2 \in Nat /\ Base = (Base - 2) + 2
      BY BaseAssumption
    <3> QED BY <3>1
  <2>2. Power(n) \in Nat \ {0} /\ b * Power(n) \in Nat
    BY PowerType
  <2>3. Power(n + 1) = b * Power(n) + 2 * Power(n)
    BY <2>1, <2>2, PowerStep
  <2> QED BY <2>2, <2>3
<1>2. Power(0 + 1) >= 2 * Power(0) /\ Power(1 + 1) >= 2 * Power(1)
  BY <1>1, 0 \in Nat, 1 \in Nat
<1>3. Power(2 + 1) >= 2 * Power(2) /\ Power(3 + 1) >= 2 * Power(3)
  BY <1>1, 2 \in Nat, 3 \in Nat
<1>4. Power(4 + 1) >= 2 * Power(4) /\ Power(5 + 1) >= 2 * Power(5)
  BY <1>1, 4 \in Nat, 5 \in Nat
<1>5. Power(6 + 1) >= 2 * Power(6) /\ Power(7 + 1) >= 2 * Power(7)
  BY <1>1, 6 \in Nat, 7 \in Nat
<1>6. \A n \in 0 .. 8 : Power(n) \in Nat \ {0}
  BY PowerType
<1>7. /\ 0 + 1 = 1 /\ 1 + 1 = 2 /\ 2 + 1 = 3 /\ 3 + 1 = 4
      /\ 4 + 1 = 5 /\ 5 + 1 = 6 /\ 6 + 1 = 7 /\ 7 + 1 = 8
  OBVIOUS
<1> QED BY <1>2, <1>3, <1>4, <1>5, <1>6, <1>7, PowerZero

-----------------------------------------------------------------------------
(* Division with remainder.                                                *)

LEMMA DivMod ==
    ASSUME NEW n \in Nat \ {0}, NEW i \in Int
    PROVE  i = n * (i \div n) + (i % n) /\ i \div n \in Int /\ i % n \in 0 .. n - 1
    OBVIOUS

LEMMA MultiplesApart ==
    ASSUME NEW n \in Nat \ {0}, NEW p \in Int, NEW q \in Int, p > q
    PROVE  n * p >= n * q + n
<1>1. PICK d \in Nat : p = q + 1 + d
  <2>1. p - q - 1 \in Nat /\ p = q + 1 + (p - q - 1)
    OBVIOUS
  <2> QED BY <2>1
<1>2. n * p = n * q + n + n * d
  BY <1>1
<1>3. n * d \in Nat /\ n * q \in Int
  OBVIOUS
<1> QED BY <1>2, <1>3

\* Quotient and remainder are determined by the number.
LEMMA RemainderIs ==
    ASSUME NEW n \in Nat \ {0}, NEW q \in Int, NEW r \in 0 .. n - 1
    PROVE  (n * q + r) % n = r
<1> DEFINE i == n * q + r
           p == i \div n
           s == i % n
<1>1. n * q \in Int /\ i \in Int
  OBVIOUS
<1>2. i = n * p + s /\ p \in Int /\ s \in 0 .. n - 1
  BY <1>1, DivMod
<1> HIDE DEF p, s
<1>3. n * p \in Int
  BY <1>2
<1>4. ~(p > q) /\ ~(q > p)
  BY <1>1, <1>2, <1>3, MultiplesApart
<1>5. p = q
  BY <1>2, <1>4
<1> QED BY <1>1, <1>2, <1>3, <1>5 DEF s

\* A number's digits up to one are those before it and itself.
LEMMA DigitStep ==
    ASSUME NEW b \in Nat \ {0}, NEW p \in Nat \ {0}, NEW y \in Nat
    PROVE  y % (b * p) = (y % p) + ((y \div p) % b) * p
<1> DEFINE q == y \div p
           r == y % p
           e == q \div b
           d == q % b
<1>1. y = p * q + r /\ q \in Int /\ r \in 0 .. p - 1
  BY DivMod
<1>2. q = b * e + d /\ e \in Int /\ d \in 0 .. b - 1
  <2> HIDE DEF q
  <2> QED BY <1>1, DivMod
<1> HIDE DEF q, r, e, d
<1>3. b * p \in Nat \ {0}
  OBVIOUS
<1>4. d * p + r \in 0 .. b * p - 1
  <2>1. PICK c \in Nat : b = d + 1 + c
    <3>1. b - d - 1 \in Nat /\ b = d + 1 + (b - d - 1)
      BY <1>2
    <3> QED BY <3>1
  <2>2. b * p = d * p + p + c * p /\ c * p \in Nat /\ d * p \in Nat
    BY <1>2, <2>1
  <2> QED BY <1>1, <2>2
<1>5. y = (b * p) * e + (d * p + r)
  BY <1>1, <1>2
<1>6. y % (b * p) = d * p + r
  BY <1>2, <1>3, <1>4, <1>5, RemainderIs
<1> QED BY <1>1, <1>2, <1>6 DEF q, r, d

-----------------------------------------------------------------------------
(* Integers and their bytes.                                               *)

LEMMA BytesType ==
    ASSUME NEW n \in Widths, NEW x \in Int
    PROVE  /\ to_little_endian(n, x) \in Seq(Byte)
           /\ Len(to_little_endian(n, x)) = n
<1>1. n \in Nat
  BY DEF Widths
<1>2. ASSUME NEW i \in 1 .. n
      PROVE  ((x % Power(n)) \div Power(i - 1)) % Base \in Byte
  <2>1. Power(n) \in Nat \ {0} /\ Power(i - 1) \in Nat \ {0}
    BY <1>1, PowerType, i - 1 \in Nat
  <2>2. x % Power(n) \in 0 .. Power(n) - 1 /\ x % Power(n) \in Int
    BY <2>1, DivMod
  <2>3. (x % Power(n)) \div Power(i - 1) \in Int
    BY <2>1, <2>2, DivMod
  <2> HIDE DEF Byte
  <2> QED BY <2>3, BaseAssumption, DivMod DEF Byte
<1>3. to_little_endian(n, x) \in [1 .. n -> Byte]
  BY <1>2 DEF to_little_endian
<1> HIDE DEF to_little_endian
<1> QED BY <1>1, <1>3

\* The bytes of a number, and whatever follows them, give its remainder.
LEMMA BytesSum ==
    ASSUME NEW n \in Widths, NEW x \in Int, NEW bytes,
           \A i \in 1 .. n : bytes[i] = to_little_endian(n, x)[i]
    PROVE  Sum([i \in 1 .. n |-> bytes[i] * Power(i - 1)]) = x % Power(n)
<1> DEFINE y == x % Power(n)
           numbers == [i \in 1 .. n |-> bytes[i] * Power(i - 1)]
           g == [i \in 0 .. n |-> y % Power(i)]
<1>1. n \in Nat /\ Power(n) \in Nat \ {0}
  BY PowerType DEF Widths
<1>2. y \in 0 .. Power(n) - 1
  BY <1>1, DivMod
<1>3. Len(numbers) = n
  BY <1>1
<1>4. ASSUME NEW i \in 1 .. n
      PROVE  bytes[i] = (y \div Power(i - 1)) % Base
  BY DEF to_little_endian
<1>5. ASSUME NEW i \in 1 .. n
      PROVE  g[i] = g[i - 1] + numbers[i]
  <2>1. i - 1 \in Nat /\ i = (i - 1) + 1 /\ y \in Nat
    BY <1>2
  <2>2. Power(i) = Base * Power(i - 1) /\ Power(i - 1) \in Nat \ {0}
    BY <2>1, PowerStep, PowerType
  <2>3. g[i] = y % Power(i) /\ g[i - 1] = y % Power(i - 1)
    <3>1. i \in 0 .. n /\ i - 1 \in 0 .. n
      BY <1>1
    <3> HIDE DEF y
    <3> QED BY <3>1
  <2>4. numbers[i] = ((y \div Power(i - 1)) % Base) * Power(i - 1)
    BY <1>4
  <2> HIDE DEF y, g, numbers
  <2>5. y % (Base * Power(i - 1)) = (y % Power(i - 1)) + ((y \div Power(i - 1)) % Base) * Power(i - 1)
    BY <2>1, <2>2, BaseAssumption, DigitStep
  <2> QED BY <2>2, <2>3, <2>4, <2>5
<1>6. g[0] = 0
  BY <1>1, <1>2, PowerZero
<1>7. g[n] = y
  <2>1. Power(n) * 0 + y = y
    BY <1>1, <1>2
  <2>2. y % Power(n) = y
    <3> HIDE DEF y
    <3>1. (Power(n) * 0 + y) % Power(n) = y
      BY <1>1, <1>2, RemainderIs, 0 \in Int
    <3> QED BY <2>1, <3>1
  <2> QED BY <1>1, <2>2
<1>8. g = [i \in 0 .. n |-> g[i]]
  OBVIOUS
<1> HIDE DEF g, numbers
<1>9. Sum(numbers) = g[Len(numbers)]
  BY <1>1, <1>3, <1>5, <1>6, <1>8, SumIs
<1> QED BY <1>3, <1>7, <1>9 DEF numbers

\* An integer type has the width of its bytes, and half its values are
\* negative or none.
LEMMA IntegerTypes ==
    ASSUME NEW t, IsIntegerType(t)
    PROVE  /\ t.bytes \in Widths /\ Power(t.bytes) \in Nat \ {0}
           /\ t = [bytes |-> t.bytes, lo |-> t.lo, hi |-> t.hi]
           /\ \/ t.lo = 0 /\ t.hi = Power(t.bytes) - 1
              \/ t.lo = -(Power(t.bytes) \div 2) /\ t.hi = Power(t.bytes) \div 2 - 1
           /\ t.lo \in Int /\ t.hi \in Int /\ t.lo <= 0 /\ t.hi >= 0
           /\ t.lo = 0 <=> IsUnsigned(t)
<1>1. \A n \in Widths : Power(n) \in Nat \ {0} /\ Power(n) >= 2
  BY PowersGrow DEF Widths
<1>2. CASE IsUnsigned(t)
  BY <1>1, <1>2 DEF IsUnsigned, Unsigned
<1>3. CASE ~IsUnsigned(t)
  <2>1. PICK n \in Widths : t = Signed(n)
    BY <1>3 DEF IsIntegerType
  <2>2. t.bytes = n /\ t.lo = -(Power(n) \div 2) /\ t.hi = Power(n) \div 2 - 1
    BY <2>1 DEF Signed
  <2>3. Power(n) \div 2 \in Nat \ {0}
    BY <1>1
  <2> QED BY <1>1, <1>3, <2>1, <2>2, <2>3 DEF Signed
<1> QED BY <1>2, <1>3

\* Conversion to a type keeps its values.
LEMMA AsItself ==
    ASSUME NEW t, IsIntegerType(t), NEW x \in t.lo .. t.hi
    PROVE  As(t, x) = x
<1> DEFINE p == Power(t.bytes)
<1>1. /\ p \in Nat \ {0} /\ t.lo \in Int /\ t.hi \in Int
      /\ \/ t.lo = 0 /\ t.hi = p - 1
         \/ t.lo = -(p \div 2) /\ t.hi = p \div 2 - 1
  BY IntegerTypes
<1>2. As(t, x) = IF x % p > t.hi THEN (x % p) - p ELSE x % p
  BY DEF As
<1> HIDE DEF p
<1>3. CASE x >= 0
  <2>1. (p * 0 + x) % p = x
    BY <1>1, <1>3, RemainderIs, 0 \in Int
  <2> QED BY <1>1, <1>2, <1>3, <2>1
<1>4. CASE x < 0
  <2>1. x + p \in 0 .. p - 1 /\ x + p > t.hi
    BY <1>1, <1>4
  <2>2. (p * (-1) + (x + p)) % p = x + p
    BY <1>1, <2>1, RemainderIs, -1 \in Int
  <2>3. p * (-1) + (x + p) = x
    BY <1>1
  <2> QED BY <1>1, <1>2, <2>1, <2>2, <2>3
<1> QED BY <1>1, <1>3, <1>4

LEMMA SameType ==
    ASSUME NEW t, NEW u, IsIntegerType(t), IsIntegerType(u), t.bytes = u.bytes, t.lo = u.lo
    PROVE  t = u
<1>1. \A n \in Widths : Power(n) \in Nat \ {0} /\ Power(n) >= 2
  BY PowersGrow DEF Widths
<1>2. t.hi = u.hi
  BY <1>1, IntegerTypes
<1> QED BY <1>2, IntegerTypes

\* The common type of a member's own type and of a narrower one on the wire
\* has the values of both.
LEMMA CommonTypeIsWider ==
    ASSUME NEW m, IsInteger(m),
           NEW c, c = CommonType(m.underlying, m.cast)
    PROVE  /\ IsIntegerType(c) /\ c.lo <= m.underlying.lo /\ m.underlying.hi <= c.hi
           /\ c.lo \in Int /\ c.hi \in Int
<1> DEFINE u == m.underlying
           w == m.cast
           a == Promoted(u)
           b == Promoted(w)
<1>1. IsIntegerType(u) /\ IsIntegerType(w) /\ u.lo <= w.lo /\ w.hi <= u.hi
  BY DEF IsInteger
<1> DEFINE Limits(t) ==
      /\ t.bytes \in Widths
      /\ \/ t.lo = 0 /\ t.hi = Power(t.bytes) - 1
         \/ t.lo = -(Power(t.bytes) \div 2) /\ t.hi = Power(t.bytes) \div 2 - 1
<1>2. Limits(u) /\ Limits(w)
  BY <1>1, IntegerTypes
<1>3. IsIntegerType(I32) /\ I32.bytes = 4 /\ Limits(I32) /\ I32.lo # 0
  <2>1. IsIntegerType(I32) /\ I32.bytes = 4
    BY DEF I32, Signed, IsIntegerType, Widths
  <2>2. I32.lo = -(Power(4) \div 2)
    BY DEF I32, Signed
  <2>3. Power(4) \div 2 \in Nat \ {0}
    BY PowersGrow
  <2> QED BY <2>1, <2>2, <2>3, IntegerTypes
<1>4. IsIntegerType(a) /\ IsIntegerType(b) /\ Limits(a) /\ Limits(b)
  BY <1>1, <1>2, <1>3 DEF Promoted
<1>5. c = IF a.bytes # b.bytes THEN IF a.bytes >= b.bytes THEN a ELSE b
          ELSE IF a.lo = 0 THEN a ELSE b
  <2>1. c = IF a.bytes > b.bytes \/ (a.bytes = b.bytes /\ a.lo = 0) THEN a ELSE b
    BY DEF CommonType
  <2> HIDE DEF a, b
  <2> QED BY <1>4, <2>1 DEF Widths
<1>6. a = (IF u.bytes < 4 THEN I32 ELSE u) /\ b = (IF w.bytes < 4 THEN I32 ELSE w)
  BY <1>3 DEF Promoted
<1>7. IsIntegerType(c)
  BY <1>4, <1>5
<1>8. /\ Power(1) \in Nat /\ Power(2) \in Nat /\ Power(4) \in Nat /\ Power(8) \in Nat
      /\ Power(1) >= 2 /\ Power(2) >= 2 * Power(1)
      /\ Power(4) >= 4 * Power(2) /\ Power(8) >= 4 * Power(4)
  BY PowersGrow
<1> HIDE DEF a, b, u, w
<1>9. c.lo <= u.lo /\ u.hi <= c.hi
  <2>1. a.lo <= u.lo /\ u.hi <= a.hi
    <3>1. CASE u.bytes < 4
      BY <1>2, <1>3, <1>6, <1>8, <3>1 DEF Widths
    <3>2. CASE ~(u.bytes < 4)
      BY <1>2, <1>6, <3>2, <1>8 DEF Widths
    <3> QED BY <3>1, <3>2
  <2>2. CASE c = a
    BY <2>1, <2>2
  <2>3. CASE c # a
    <3>1. a.bytes <= b.bytes /\ c = b /\ a.bytes \in {4, 8} /\ b.bytes \in {4, 8}
      BY <1>2, <1>3, <1>4, <1>5, <1>6, <2>3 DEF Widths
    <3>2. b = w
      <4>1. SUFFICES ASSUME w.bytes < 4 PROVE FALSE
        BY <1>2, <1>6 DEF Widths
      <4>2. b = I32 /\ a.bytes = b.bytes /\ a.lo # 0
        BY <1>3, <1>5, <1>6, <2>3, <3>1, <4>1 DEF Widths
      <4>3. a.lo = b.lo
        BY <1>3, <1>4, <1>8, <4>2
      <4> QED BY <1>4, <2>3, <3>1, <4>2, <4>3, SameType
    <3>3. FALSE
      <4>1. CASE u.bytes < 4
        BY <1>1, <1>2, <1>8, <3>1, <3>2, <4>1 DEF Widths
      <4>2. CASE ~(u.bytes < 4)
        <5>1. a = u /\ c = w /\ u.bytes <= w.bytes /\ u.bytes \in {4, 8} /\ w.bytes \in {4, 8}
          BY <1>2, <1>6, <3>1, <3>2, <4>2 DEF Widths
        <5>2. CASE u.bytes = w.bytes
          <6>1. u.lo # 0 /\ u.lo = -(Power(u.bytes) \div 2) /\ u.hi = Power(u.bytes) \div 2 - 1
            BY <1>2, <1>5, <1>6, <2>3, <3>1, <3>2, <4>2, <5>2 DEF Widths
          <6>2. w.lo = u.lo
            BY <1>1, <1>2, <1>8, <5>1, <5>2, <6>1
          <6> QED BY <1>1, <2>3, <5>1, <5>2, <6>2, SameType
        <5>3. CASE u.bytes = 4 /\ w.bytes = 8
          BY <1>1, <1>2, <1>8, <5>3
        <5> QED BY <5>1, <5>2, <5>3
      <4> QED BY <4>1, <4>2
    <3> QED BY <3>3
  <2> QED BY <2>2, <2>3
<1> QED BY <1>7, <1>9, IntegerTypes DEF u

\* The tests against overflow are right: converted to the common type, limits
\* and number compare as they are.
LEMMA OverflowsOutside ==
    ASSUME NEW m, IsInteger(m), NEW x, IsInt(m, x),
           NEW target \in {m.underlying, m.cast}
    PROVE  Overflows(m, x, target) <=> x \notin target.lo .. target.hi
<1> DEFINE c == CommonType(m.underlying, m.cast)
<1> HIDE DEF c
<1>1. IsIntegerType(m.underlying) /\ IsIntegerType(m.cast)
      /\ m.underlying.lo <= m.cast.lo /\ m.cast.hi <= m.underlying.hi
  BY DEF IsInteger
<1>2. IsIntegerType(c) /\ c.lo <= m.underlying.lo /\ m.underlying.hi <= c.hi
      /\ c.lo \in Int /\ c.hi \in Int
  BY CommonTypeIsWider DEF c
<1>3. /\ target.lo \in Int /\ target.hi \in Int /\ target.lo <= 0 /\ target.hi >= 0
      /\ m.underlying.lo \in Int /\ m.underlying.hi \in Int
  BY <1>1, IntegerTypes
<1>4. m.underlying.lo <= target.lo /\ target.hi <= m.underlying.hi
  BY <1>1, <1>3
<1>5. x \in c.lo .. c.hi /\ x \in Int
  BY <1>2, <1>3 DEF IsInt
<1>6. target.lo \in c.lo .. c.hi /\ target.hi \in c.lo .. c.hi
  BY <1>2, <1>3, <1>4
<1>7. As(c, x) = x /\ As(c, target.lo) = target.lo /\ As(c, target.hi) = target.hi
  BY <1>2, <1>5, <1>6, AsItself
<1> QED BY <1>3, <1>5, <1>7 DEF Overflows, c

\* Reading the bytes of a number that writing did not throw on.
LEMMA NumberReadBack ==
    ASSUME NEW m, IsInteger(m), NEW x, IsInt(m, x), ~Overflows(m, x, m.cast),
           NEW bytes,
           \A i \in 1 .. m.cast.bytes : bytes[i] = to_little_endian(m.cast.bytes, x)[i]
    PROVE  /\ from_little_endian(m.cast, bytes) = x
           /\ ~Overflows(m, x, m.underlying)
           /\ As(m.underlying, x) = x
<1> DEFINE w == m.cast
           y == x % Power(w.bytes)
<1>1. IsIntegerType(m.underlying) /\ IsIntegerType(w)
  BY DEF IsInteger
<1>2. w.bytes \in Widths /\ Power(w.bytes) \in Nat \ {0} /\ w.lo \in Int /\ w.hi \in Int
      /\ m.underlying.lo \in Int /\ m.underlying.hi \in Int
  BY <1>1, IntegerTypes
<1>3. x \in w.lo .. w.hi /\ x \in m.underlying.lo .. m.underlying.hi /\ x \in Int
  BY <1>2, OverflowsOutside DEF IsInt
<1>4. Sum([i \in 1 .. w.bytes |-> bytes[i] * Power(i - 1)]) = y
  BY <1>2, <1>3, BytesSum
<1>5. y % Power(w.bytes) = y
  <2>1. y \in 0 .. Power(w.bytes) - 1
    BY <1>2, <1>3, DivMod
  <2> HIDE DEF y
  <2>2. (Power(w.bytes) * 0 + y) % Power(w.bytes) = y
    BY <1>2, <2>1, RemainderIs, 0 \in Int
  <2> QED BY <1>2, <2>1, <2>2
<1>6. As(w, y) = As(w, x)
  BY <1>5 DEF As
<1>7. As(w, x) = x /\ As(m.underlying, x) = x
  BY <1>1, <1>3, AsItself
<1>8. from_little_endian(m.cast, bytes) = As(w, y)
  BY <1>4 DEF from_little_endian
<1> QED BY <1>3, <1>6, <1>7, <1>8, OverflowsOutside

-----------------------------------------------------------------------------
(* Bytes one after another.                                                *)

LEMMA Cut ==
    ASSUME NEW S, NEW s \in Seq(S), NEW t \in Seq(S)
    PROVE  /\ s \o t \in Seq(S) /\ Len(s \o t) = Len(s) + Len(t)
           /\ SubSeq(s \o t, 1, Len(s)) = s
           /\ SubSeq(s \o t, Len(s) + 1, Len(s \o t)) = t
<1>1. /\ s \o t \in Seq(S) /\ Len(s \o t) = Len(s) + Len(t)
      /\ \A i \in 1 .. Len(s) + Len(t) :
            (s \o t)[i] = IF i <= Len(s) THEN s[i] ELSE t[i - Len(s)]
  BY ConcatProperties
<1>2. Len(s) \in Nat /\ Len(t) \in Nat
  OBVIOUS
<1> DEFINE u == s \o t
<1>3. \A i \in 1 .. Len(u) : u[i] \in S
  BY <1>1, ElementOfSeq
<1> HIDE DEF u
<1>4. SubSeq(u, 1, Len(s)) = s
  <2>1. /\ SubSeq(u, 1, Len(s)) \in Seq(S)
        /\ Len(SubSeq(u, 1, Len(s))) = Len(s)
        /\ \A i \in 1 .. Len(s) : SubSeq(u, 1, Len(s))[i] = u[i]
    BY <1>1, <1>2, <1>3 DEF u
  <2> QED BY <1>1, <1>2, <2>1, SeqEqual DEF u
<1>5. SubSeq(u, Len(s) + 1, Len(u)) = t
  <2>1. /\ SubSeq(u, Len(s) + 1, Len(u)) \in Seq(S)
        /\ Len(SubSeq(u, Len(s) + 1, Len(u))) = Len(t)
        /\ \A i \in 1 .. Len(t) : SubSeq(u, Len(s) + 1, Len(u))[i] = u[Len(s) + i]
    BY <1>1, <1>2, <1>3 DEF u
  <2>2. \A i \in 1 .. Len(t) : u[Len(s) + i] = t[i]
    BY <1>1, <1>2 DEF u
  <2> QED BY <2>1, <2>2, SeqEqual
<1> QED BY <1>1, <1>2, <1>4, <1>5 DEF u

LEMMA FirstElements ==
    ASSUME NEW S, NEW s \in Seq(S), NEW t \in Seq(S), NEW i \in 1 .. Len(s)
    PROVE  (s \o t)[i] = s[i]
<1>1. Len(s) \in Nat /\ Len(t) \in Nat
  OBVIOUS
<1>2. i \in 1 .. Len(s) + Len(t)
  BY <1>1
<1> QED BY <1>1, <1>2, ConcatProperties

\* The results of the loop of FlattenSeq, and what follows each of them.
IsPrefixes(pre, S, m, seqs) ==
    /\ pre \in [0 .. m -> Seq(S)] /\ pre[0] = <<>> /\ pre[m] = FlattenSeq(seqs)
    /\ \A n \in 1 .. m : pre[n] = pre[n - 1] \o seqs[n]

IsSuffixes(suf, S, m, seqs) ==
    /\ suf \in [0 .. m -> Seq(S)] /\ suf[0] = FlattenSeq(seqs) /\ suf[m] = <<>>
    /\ \A n \in 1 .. m : suf[n - 1] = seqs[n] \o suf[n]

LEMMA FlattenRuns ==
    ASSUME NEW S, NEW m \in Nat, NEW seqs \in [1 .. m -> Seq(S)]
    PROVE  \E pre : IsPrefixes(pre, S, m, seqs)
<1> DEFINE step == [n \in 1 .. m |-> [x \in Seq(S) |-> x \o seqs[n]]]
<1>1. step \in [1 .. m -> [Seq(S) -> Seq(S)]]
  <2>1. \A n \in 1 .. m : \A x \in Seq(S) : x \o seqs[n] \in Seq(S)
    BY ConcatProperties
  <2> QED BY <2>1
<1>2. PICK pre : IsLoop(pre, Seq(S), <<>>, m, step)
  <2> HIDE DEF step
  <2> QED BY <1>1, LoopRuns, <<>> \in Seq(S)
<1>3. ASSUME NEW n \in 1 .. m PROVE pre[n] = pre[n - 1] \o seqs[n]
  <2>1. pre[n - 1] \in Seq(S)
    BY <1>2, n - 1 \in 0 .. m DEF IsLoop
  <2> QED BY <1>2, <2>1 DEF IsLoop
<1> HIDE DEF step
<1>4. pre[m] = FlattenSeq(seqs)
  <2>1. Len(seqs) = m
    OBVIOUS
  <2>2. CASE m = 0
    <3>1. seqs = <<>>
      BY <2>2
    <3> QED BY <1>2, <2>1, <2>2, <3>1 DEF FlattenSeq, IsLoop
  <2>3. CASE m # 0
    <3> DEFINE IsFlatten(f) ==
                  f = [i \in 1 .. m |-> IF i = 1 THEN seqs[i] ELSE f[i - 1] \o seqs[i]]
               flatten == CHOOSE f : IsFlatten(f)
               g == [i \in 1 .. m |-> pre[i]]
    <3>1. FlattenSeq(seqs) = flatten[m]
      BY <2>1, <2>3 DEF FlattenSeq
    <3>2. IsFlatten(g)
      <4>1. ASSUME NEW i \in 1 .. m
            PROVE  g[i] = IF i = 1 THEN seqs[i] ELSE g[i - 1] \o seqs[i]
        <5>1. pre[i] = pre[i - 1] \o seqs[i]
          BY <1>3
        <5>2. CASE i = 1
          <6>1. i - 1 = 0 /\ seqs[i] \in Seq(S) /\ pre[0] = <<>>
            BY <1>2, <5>2 DEF IsLoop
          <6>2. pre[i] = <<>> \o seqs[i]
            BY <5>1, <6>1
          <6> QED BY <5>2, <6>1, <6>2, ConcatEmptySeq
        <5>3. CASE i # 1
          <6>1. i - 1 \in 1 .. m
            BY <5>3
          <6> QED BY <5>1, <5>3, <6>1
        <5> QED BY <5>2, <5>3
      <4> QED BY <4>1
    <3>3. IsFlatten(flatten)
      <4> HIDE DEF IsFlatten, g
      <4> QED BY <3>2
    <3> HIDE DEF flatten
    <3> DEFINE same == {0} \cup {i \in 1 .. m : flatten[i] = pre[i]}
    <3>4. ASSUME NEW i \in 1 .. m, i - 1 \in same PROVE i \in same
      <4>1. flatten[i] = IF i = 1 THEN seqs[i] ELSE flatten[i - 1] \o seqs[i]
        BY <3>3
      <4>2. g[i] = IF i = 1 THEN seqs[i] ELSE g[i - 1] \o seqs[i]
        BY <3>2
      <4>3. CASE i = 1
        BY <4>1, <4>2, <4>3
      <4>4. CASE i # 1
        <5>1. i - 1 \in 1 .. m /\ flatten[i - 1] = pre[i - 1]
          BY <3>4, <4>4
        <5> QED BY <4>1, <1>3, <4>4, <5>1
      <4> QED BY <4>3, <4>4
    <3>5. m \in same
      <4>1. 0 \in same
        OBVIOUS
      <4> HIDE DEF same
      <4> QED BY <3>4, <4>1, UpTo
    <3> QED BY <2>3, <3>1, <3>5
  <2> QED BY <2>2, <2>3
<1> QED BY <1>2, <1>3, <1>4 DEF IsLoop, IsPrefixes

\* What is left of flattened sequences behind the first n of them.
LEMMA WhatFollows ==
    ASSUME NEW S, NEW m \in Nat, NEW seqs \in [1 .. m -> Seq(S)]
    PROVE  \E suf : IsSuffixes(suf, S, m, seqs)
<1> DEFINE step == [n \in 1 .. m |-> [x \in Seq(S) |-> seqs[m + 1 - n] \o x]]
<1>1. step \in [1 .. m -> [Seq(S) -> Seq(S)]]
  <2>1. ASSUME NEW n \in 1 .. m, NEW x \in Seq(S) PROVE seqs[m + 1 - n] \o x \in Seq(S)
    <3>1. seqs[m + 1 - n] \in Seq(S)
      BY m + 1 - n \in 1 .. m
    <3> QED BY <3>1, ConcatProperties
  <2> QED BY <2>1
<1>2. PICK back : IsLoop(back, Seq(S), <<>>, m, step)
  <2> HIDE DEF step
  <2> QED BY <1>1, LoopRuns, <<>> \in Seq(S)
<1> DEFINE left == [n \in 0 .. m |-> back[m - n]]
<1>3. left \in [0 .. m -> Seq(S)] /\ left[m] = <<>>
  <2>1. \A n \in 0 .. m : m - n \in 0 .. m
    OBVIOUS
  <2> QED BY <1>2, <2>1 DEF IsLoop
<1>4. ASSUME NEW n \in 1 .. m PROVE left[n - 1] = seqs[n] \o left[n]
  <2> DEFINE k == m + 1 - n
  <2>1. k \in 1 .. m /\ k - 1 \in 0 .. m /\ m + 1 - k = n
    OBVIOUS
  <2>2. left[n - 1] = back[k] /\ left[n] = back[k - 1]
    <3>1. n - 1 \in 0 .. m /\ n \in 0 .. m /\ m - (n - 1) = k /\ m - n = k - 1
      OBVIOUS
    <3> QED BY <3>1
  <2> HIDE DEF k, left
  <2>3. back[k] = seqs[m + 1 - k] \o back[k - 1]
    BY <1>2, <2>1 DEF IsLoop
  <2> QED BY <2>1, <2>2, <2>3
<1> HIDE DEF step, left
<1>5. PICK pre : IsPrefixes(pre, S, m, seqs)
  BY FlattenRuns
<1> DEFINE same == {i \in 0 .. m : pre[i] \o left[i] = left[0]}
<1>6. 0 \in same
  BY <1>3, <1>5, ConcatEmptySeq, 0 \in 0 .. m DEF IsPrefixes
<1>7. ASSUME NEW i \in 1 .. m, i - 1 \in same PROVE i \in same
  <2>1. i \in 0 .. m /\ i - 1 \in 0 .. m
    OBVIOUS
  <2>2. pre[i - 1] \in Seq(S) /\ seqs[i] \in Seq(S) /\ left[i] \in Seq(S)
    BY <1>3, <1>5, <2>1 DEF IsPrefixes
  <2>3. pre[i] = pre[i - 1] \o seqs[i] /\ left[i - 1] = seqs[i] \o left[i]
    BY <1>4, <1>5 DEF IsPrefixes
  <2>4. (pre[i - 1] \o seqs[i]) \o left[i] = pre[i - 1] \o (seqs[i] \o left[i])
    <3> DEFINE a == pre[i - 1]
               b == seqs[i]
               c == left[i]
    <3>1. a \in Seq(S) /\ b \in Seq(S) /\ c \in Seq(S)
      BY <2>2
    <3> HIDE DEF a, b, c
    <3>2. (a \o b) \o c = a \o (b \o c)
      BY <3>1, ConcatAssociative
    <3> QED BY <3>2 DEF a, b, c
  <2> QED BY <1>7, <2>1, <2>3, <2>4
<1>8. m \in same
  <2> HIDE DEF same
  <2> QED BY <1>6, <1>7, UpTo
<1>9. left[0] = FlattenSeq(seqs)
  <2>1. pre[m] \o <<>> = left[0] /\ pre[m] \in Seq(S)
    BY <1>3, <1>5, <1>8, m \in 0 .. m DEF IsPrefixes
  <2> QED BY <1>5, <2>1, ConcatEmptySeq DEF IsPrefixes
<1>10. IsSuffixes(left, S, m, seqs)
  BY <1>3, <1>4, <1>9 DEF IsSuffixes
<1> QED BY <1>10

LEMMA FlattenLength ==
    ASSUME NEW S, NEW m \in Nat, NEW seqs \in [1 .. m -> Seq(S)]
    PROVE  /\ FlattenSeq(seqs) \in Seq(S)
           /\ Len(FlattenSeq(seqs)) = Sum([i \in 1 .. m |-> Len(seqs[i])])
<1>1. PICK pre : IsPrefixes(pre, S, m, seqs)
  BY FlattenRuns
<1> DEFINE numbers == [i \in 1 .. m |-> Len(seqs[i])]
           g == [i \in 0 .. m |-> Len(pre[i])]
<1>2. Len(numbers) = m
  OBVIOUS
<1>3. g[0] = 0 /\ g = [i \in 0 .. m |-> g[i]] /\ g[m] = Len(FlattenSeq(seqs))
  BY <1>1, Len(<<>>) = 0 DEF IsPrefixes
<1>4. ASSUME NEW i \in 1 .. m PROVE g[i] = g[i - 1] + numbers[i]
  <2>1. i \in 0 .. m /\ i - 1 \in 0 .. m
    OBVIOUS
  <2>2. pre[i - 1] \in Seq(S) /\ seqs[i] \in Seq(S)
    BY <1>1, <2>1 DEF IsPrefixes
  <2>3. pre[i] = pre[i - 1] \o seqs[i]
    BY <1>1 DEF IsPrefixes
  <2>4. Len(pre[i - 1] \o seqs[i]) = Len(pre[i - 1]) + Len(seqs[i])
    BY <2>2, ConcatProperties
  <2> QED BY <2>1, <2>3, <2>4
<1> HIDE DEF g, numbers
<1>5. Sum(numbers) = g[Len(numbers)]
  BY <1>2, <1>3, <1>4, SumIs
<1> QED BY <1>1, <1>2, <1>3, <1>5 DEF numbers, IsPrefixes

\* As many numbers as members, all the same.
LEMMA SumOfSame ==
    ASSUME NEW m \in Nat, NEW c \in Nat
    PROVE  Sum([i \in 1 .. m |-> c]) = m * c
<1> DEFINE numbers == [i \in 1 .. m |-> c]
           g == [i \in 0 .. m |-> i * c]
<1>1. Len(numbers) = m
  OBVIOUS
<1>2. g[0] = 0 /\ g = [i \in 0 .. m |-> g[i]] /\ g[m] = m * c
  OBVIOUS
<1>3. ASSUME NEW i \in 1 .. m PROVE g[i] = g[i - 1] + numbers[i]
  <2>1. i \in 0 .. m /\ i - 1 \in 0 .. m
    OBVIOUS
  <2>2. i * c = (i - 1) * c + c
    OBVIOUS
  <2> QED BY <2>1, <2>2
<1> HIDE DEF g, numbers
<1>4. Sum(numbers) = g[Len(numbers)]
  BY <1>1, <1>2, <1>3, SumIs
<1> QED BY <1>1, <1>2, <1>4 DEF numbers

-----------------------------------------------------------------------------
(* Sizes.                                                                  *)

LEMMA DomainOfSeq ==
    ASSUME NEW s, IsSeq(s)
    PROVE  Len(s) \in Nat /\ DOMAIN s = 1 .. Len(s)
<1>1. Len(s) \in Nat /\ s = [i \in 1 .. Len(s) |-> s[i]]
  BY DEF IsSeq
<1>2. DOMAIN [i \in 1 .. Len(s) |-> s[i]] = 1 .. Len(s)
  OBVIOUS
<1> QED BY <1>1, <1>2

LEMMA IntBytes ==
    ASSUME NEW m, IsInteger(m), NEW x, IsInt(m, x)
    PROVE  /\ to_little_endian(m.cast.bytes, x) \in Seq(Byte)
           /\ Len(to_little_endian(m.cast.bytes, x)) = m.cast.bytes
           /\ m.cast.bytes \in Nat \ {0} /\ x \in Int
<1>1. m.cast.bytes \in Widths /\ x \in Int
  BY IntegerTypes DEF IsInteger, IsInt
<1>2. m.cast.bytes \in Nat \ {0}
  BY <1>1 DEF Widths
<1> QED BY <1>1, <1>2, BytesType

LEMMA SizeIsInteger ==
    ASSUME NEW cast, IsUnsigned(cast)
    PROVE  /\ IsInteger(SizeOf(cast)) /\ SizeOf(cast).cast = cast
           /\ SizeOf(cast).underlying = U64
           /\ \A n \in Nat : n <= U64.hi => IsInt(SizeOf(cast), n)
<1>1. SizeOf(cast).underlying = U64 /\ SizeOf(cast).cast = cast
  BY DEF SizeOf, Integer
<1>2. IsUnsigned(U64) /\ IsIntegerType(U64) /\ IsIntegerType(cast)
  BY DEF IsUnsigned, U64, Widths, IsIntegerType
<1>3. U64.lo = 0 /\ U64.hi = Power(8) - 1 /\ U64.hi \in Int
  BY <1>2, IntegerTypes, PowersGrow DEF U64, Unsigned
<1>4. cast.lo = 0 /\ cast.bytes \in Widths /\ cast.hi = Power(cast.bytes) - 1
  BY DEF IsUnsigned, Unsigned
<1>5. Power(cast.bytes) <= Power(8)
  BY <1>4, PowersGrow DEF Widths
<1>6. cast.hi <= U64.hi
  <2>1. Power(cast.bytes) \in Nat /\ Power(8) \in Nat
    BY <1>4, PowersGrow DEF Widths
  <2> QED BY <1>3, <1>4, <1>5, <2>1
<1>7. IsInteger(SizeOf(cast))
  BY <1>1, <1>2, <1>3, <1>4, <1>6 DEF IsInteger
<1> QED BY <1>1, <1>3, <1>7 DEF IsInt

\* The bytes of each integer of a struct of integers.
IntPieces(members, v) ==
    [i \in DOMAIN members |-> to_little_endian(members[i].cast.bytes, v[i])]

LEMMA IntPiecesType ==
    ASSUME NEW members, IsInts(members), NEW v, AreInts(members, v)
    PROVE  /\ Len(members) \in Nat /\ DOMAIN members = 1 .. Len(members)
           /\ IntPieces(members, v) \in [1 .. Len(members) -> Seq(Byte)]
           /\ WriteInts(members, v) = FlattenSeq(IntPieces(members, v))
           /\ \A i \in 1 .. Len(members) :
                 /\ IsInteger(members[i]) /\ IsInt(members[i], v[i])
                 /\ IntPieces(members, v)[i] = to_little_endian(members[i].cast.bytes, v[i])
<1>1. Len(members) \in Nat /\ DOMAIN members = 1 .. Len(members)
  BY DomainOfSeq DEF IsInts
<1>2. \A i \in 1 .. Len(members) : IsInteger(members[i]) /\ IsInt(members[i], v[i])
  BY <1>1 DEF IsInts, AreInts
<1>3. \A i \in 1 .. Len(members) : to_little_endian(members[i].cast.bytes, v[i]) \in Seq(Byte)
  BY <1>2, IntBytes
<1> QED BY <1>1, <1>2, <1>3 DEF IntPieces, WriteInts

LEMMA IntsSize ==
    ASSUME NEW members, IsInts(members), NEW v, AreInts(members, v)
    PROVE  /\ WriteInts(members, v) \in Seq(Byte)
           /\ Len(WriteInts(members, v)) = ConstSize(members)
           /\ ConstSize(members) \in Nat
<1> DEFINE n == Len(members)
           pieces == IntPieces(members, v)
<1>1. /\ n \in Nat /\ DOMAIN members = 1 .. n /\ pieces \in [1 .. n -> Seq(Byte)]
      /\ WriteInts(members, v) = FlattenSeq(pieces)
      /\ \A i \in 1 .. n : /\ IsInteger(members[i]) /\ IsInt(members[i], v[i])
                           /\ pieces[i] = to_little_endian(members[i].cast.bytes, v[i])
  BY IntPiecesType
<1>2. \A i \in 1 .. n : Len(pieces[i]) = members[i].cast.bytes
  BY <1>1, IntBytes
<1> HIDE DEF n, pieces
<1>3. /\ FlattenSeq(pieces) \in Seq(Byte)
      /\ Len(FlattenSeq(pieces)) = Sum([i \in 1 .. n |-> Len(pieces[i])])
  BY <1>1, FlattenLength
<1>4. [i \in 1 .. n |-> Len(pieces[i])] = [i \in DOMAIN members |-> members[i].cast.bytes]
  BY <1>1, <1>2
<1>5. Len(FlattenSeq(pieces)) = ConstSize(members)
  BY <1>3, <1>4 DEF ConstSize
<1> QED BY <1>1, <1>3, <1>5

LEMMA ConstSizeType ==
    ASSUME NEW members, IsInts(members)
    PROVE  ConstSize(members) \in Nat
<1> DEFINE zeros == [i \in 1 .. Len(members) |-> 0]
<1>1. Len(members) \in Nat /\ DOMAIN members = 1 .. Len(members)
  BY DomainOfSeq DEF IsInts
<1>2. IsSeq(zeros) /\ Len(zeros) = Len(members)
  BY <1>1 DEF IsSeq
<1>3. \A i \in 1 .. Len(members) : IsInt(members[i], 0)
  <2> SUFFICES ASSUME NEW i \in 1 .. Len(members) PROVE IsInt(members[i], 0)
    OBVIOUS
  <2>1. IsIntegerType(members[i].underlying)
    BY <1>1 DEF IsInts, IsInteger
  <2> QED BY <2>1, IntegerTypes DEF IsInt
<1>4. AreInts(members, zeros)
  BY <1>1, <1>2, <1>3 DEF AreInts
<1> QED BY <1>4, IntsSize

\* The bytes of each element of a list.
ElementPieces(members, x) == [i \in DOMAIN x |-> WriteInts(members, x[i])]

LEMMA ElementPiecesType ==
    ASSUME NEW members, IsInts(members), NEW x, IsSeq(x),
           \A j \in DOMAIN x : AreInts(members, x[j])
    PROVE  /\ Len(x) \in Nat /\ DOMAIN x = 1 .. Len(x)
           /\ ElementPieces(members, x) \in [1 .. Len(x) -> Seq(Byte)]
           /\ \A i \in 1 .. Len(x) : /\ ElementPieces(members, x)[i] = WriteInts(members, x[i])
                                     /\ AreInts(members, x[i])
           /\ FlattenSeq(ElementPieces(members, x)) \in Seq(Byte)
           /\ Len(FlattenSeq(ElementPieces(members, x))) = Len(x) * ConstSize(members)
<1> DEFINE n == Len(x)
           pieces == ElementPieces(members, x)
           c == ConstSize(members)
<1>1. n \in Nat /\ DOMAIN x = 1 .. n
  BY DomainOfSeq
<1>2. \A i \in 1 .. n : AreInts(members, x[i])
  BY <1>1
<1>3. \A i \in 1 .. n : WriteInts(members, x[i]) \in Seq(Byte) /\ Len(WriteInts(members, x[i])) = c
  BY <1>2, IntsSize
<1>4. pieces \in [1 .. n -> Seq(Byte)] /\ \A i \in 1 .. n : pieces[i] = WriteInts(members, x[i])
  BY <1>1, <1>3 DEF ElementPieces
<1>5. c \in Nat
  BY ConstSizeType
<1> HIDE DEF n, pieces, c
<1>6. /\ FlattenSeq(pieces) \in Seq(Byte)
      /\ Len(FlattenSeq(pieces)) = Sum([i \in 1 .. n |-> Len(pieces[i])])
  BY <1>1, <1>4, FlattenLength
<1>7. [i \in 1 .. n |-> Len(pieces[i])] = [i \in 1 .. n |-> c]
  BY <1>3, <1>4
<1>8. Sum([i \in 1 .. n |-> c]) = n * c
  BY <1>1, <1>5, SumOfSame
<1> QED BY <1>1, <1>2, <1>4, <1>6, <1>7, <1>8 DEF n, pieces, c

\* What size() counts for a member.
MemberSize(m, x) ==
    CASE m.kind = "int" -> m.cast.bytes
      [] m.kind = "string" -> Len(x) + 1
      [] m.kind = "list" -> m.cast.bytes + Len(x) * ConstSize(m.elements)

LEMMA MemberSizeExact ==
    ASSUME NEW m, IsMember(m), NEW x, IsMemberValue(m, x)
    PROVE  WriteMember(m, x) \in Seq(Byte) /\ Len(WriteMember(m, x)) = MemberSize(m, x)
<1>1. m.kind \in {"int", "string", "list"}
  BY DEF IsMember
<1>2. CASE m.kind = "int"
  <2>1. IsInteger(m) /\ IsInt(m, x)
    BY <1>2 DEF IsMember, IsMemberValue
  <2>2. WriteMember(m, x) = to_little_endian(m.cast.bytes, x) /\ MemberSize(m, x) = m.cast.bytes
    BY <1>2 DEF WriteMember, MemberSize
  <2> QED BY <2>1, <2>2, IntBytes
<1>3. CASE m.kind = "string"
  <2>1. x \in Seq(1 .. Base - 1)
    BY <1>3 DEF IsMemberValue
  <2>2. x \in Seq(Byte) /\ 0 \in Byte
    <3>1. 1 .. Base - 1 \subseteq Byte /\ 0 \in Byte
      BY BaseAssumption DEF Byte
    <3> QED BY <2>1, <3>1, SeqMonotonic
  <2>3. WriteMember(m, x) = Append(x, 0) /\ MemberSize(m, x) = Len(x) + 1
    BY <1>3 DEF WriteMember, MemberSize
  <2> QED BY <2>2, <2>3, AppendProperties
<1>4. CASE m.kind = "list"
  <2> DEFINE size == to_little_endian(m.cast.bytes, Len(x))
             elements == FlattenSeq(ElementPieces(m.elements, x))
  <2>1. /\ IsUnsigned(m.cast) /\ IsInts(m.elements)
        /\ IsSeq(x) /\ Len(x) <= U64.hi /\ \A j \in DOMAIN x : AreInts(m.elements, x[j])
    BY <1>4 DEF IsMember, IsMemberValue
  <2>2. /\ Len(x) \in Nat /\ elements \in Seq(Byte)
        /\ Len(elements) = Len(x) * ConstSize(m.elements)
    BY <2>1, ElementPiecesType
  <2>3. size \in Seq(Byte) /\ Len(size) = m.cast.bytes
    <3>1. IsInteger(SizeOf(m.cast)) /\ IsInt(SizeOf(m.cast), Len(x)) /\ SizeOf(m.cast).cast = m.cast
      BY <2>1, <2>2, SizeIsInteger
    <3> QED BY <3>1, IntBytes
  <2>4. /\ WriteMember(m, x) = size \o elements
        /\ MemberSize(m, x) = m.cast.bytes + Len(x) * ConstSize(m.elements)
    BY <1>4 DEF WriteMember, MemberSize, ElementPieces
  <2> HIDE DEF size, elements
  <2>5. size \o elements \in Seq(Byte) /\ Len(size \o elements) = Len(size) + Len(elements)
    BY <2>2, <2>3, ConcatProperties
  <2> QED BY <2>2, <2>3, <2>4, <2>5
<1> QED BY <1>1, <1>2, <1>3, <1>4

\* The bytes of each member of a struct.
Pieces(type, v) == [i \in DOMAIN type |-> WriteMember(type[i], v[i])]

LEMMA PiecesType ==
    ASSUME NEW type, IsStruct(type), NEW v, IsValue(type, v)
    PROVE  /\ Len(type) \in Nat /\ DOMAIN type = 1 .. Len(type)
           /\ Pieces(type, v) \in [1 .. Len(type) -> Seq(Byte)]
           /\ Write(type, v) = FlattenSeq(Pieces(type, v))
           /\ \A i \in 1 .. Len(type) :
                 /\ IsMember(type[i]) /\ IsMemberValue(type[i], v[i])
                 /\ Pieces(type, v)[i] = WriteMember(type[i], v[i])
<1>1. Len(type) \in Nat /\ DOMAIN type = 1 .. Len(type)
  BY DomainOfSeq DEF IsStruct
<1>2. \A i \in 1 .. Len(type) : IsMember(type[i]) /\ IsMemberValue(type[i], v[i])
  BY <1>1 DEF IsStruct, IsValue
<1>3. \A i \in 1 .. Len(type) : WriteMember(type[i], v[i]) \in Seq(Byte)
  BY <1>2, MemberSizeExact
<1> QED BY <1>1, <1>2, <1>3 DEF Pieces, Write

\* size() is how many bytes are written: the buffer of a message is neither too
\* short nor longer than its contents.
THEOREM SizeIsExact ==
    \A type, v :
        IsStruct(type) /\ IsValue(type, v) =>
            Write(type, v) \in Seq(Byte) /\ Len(Write(type, v)) = Size(type, v)
<1> SUFFICES ASSUME NEW type, NEW v, IsStruct(type), IsValue(type, v)
             PROVE  Write(type, v) \in Seq(Byte) /\ Len(Write(type, v)) = Size(type, v)
  OBVIOUS
<1> DEFINE n == Len(type)
           pieces == Pieces(type, v)
<1>1. /\ n \in Nat /\ DOMAIN type = 1 .. n /\ pieces \in [1 .. n -> Seq(Byte)]
      /\ Write(type, v) = FlattenSeq(pieces)
      /\ \A i \in 1 .. n : /\ IsMember(type[i]) /\ IsMemberValue(type[i], v[i])
                           /\ pieces[i] = WriteMember(type[i], v[i])
  BY PiecesType
<1>2. \A i \in 1 .. n : Len(pieces[i]) = MemberSize(type[i], v[i])
  BY <1>1, MemberSizeExact
<1> HIDE DEF n, pieces
<1>3. /\ FlattenSeq(pieces) \in Seq(Byte)
      /\ Len(FlattenSeq(pieces)) = Sum([i \in 1 .. n |-> Len(pieces[i])])
  BY <1>1, FlattenLength
<1>4. [i \in 1 .. n |-> Len(pieces[i])] = [i \in DOMAIN type |-> MemberSize(type[i], v[i])]
  BY <1>1, <1>2
<1>5. Size(type, v) = Sum([i \in DOMAIN type |-> MemberSize(type[i], v[i])])
  BY DEF Size, MemberSize
<1> QED BY <1>1, <1>3, <1>4, <1>5

-----------------------------------------------------------------------------
(* Reading back.                                                           *)

Reading(value, rest) == [value |-> value, rest |-> rest, error |-> "none"]

LEMMA ReadingFields ==
    ASSUME NEW value, NEW rest, NEW other
    PROVE  /\ Reading(value, rest).value = value /\ Reading(value, rest).rest = rest
           /\ Reading(value, rest).error = "none"
           /\ [Reading(value, rest) EXCEPT !.value = other] = Reading(other, rest)
  BY DEF Reading

\* The first elements of a sequence, one more each time.
LEMMA PrefixStep ==
    ASSUME NEW v, IsSeq(v)
    PROVE  /\ SubSeq(v, 1, 0) = <<>> /\ SubSeq(v, 1, Len(v)) = v
           /\ \A i \in 1 .. Len(v) : SubSeq(v, 1, i) = Append(SubSeq(v, 1, i - 1), v[i])
<1> DEFINE S == {v[i] : i \in 1 .. Len(v)}
<1>1. v \in Seq(S) /\ Len(v) \in Nat
  BY DEF IsSeq
<1> HIDE DEF S
<1>2. SubSeq(v, 1, 0) = <<>>
  BY SubSeqEmpty
<1>3. SubSeq(v, 1, Len(v)) = v
  BY <1>1, SubSeqFull
<1>4. ASSUME NEW i \in 1 .. Len(v)
      PROVE  SubSeq(v, 1, i) = Append(SubSeq(v, 1, i - 1), v[i])
  <2>1. SubSeq(v, 1, i) = SubSeq(v, 1, i - 1) \o <<v[i]>>
    BY <1>1, SubSeqRecursiveSecond, 1 \in 1 .. Len(v), i \in 1 .. Len(v)
  <2>2. \A j \in 1 .. i - 1 : v[j] \in S
    BY <1>1, ElementOfSeq
  <2>3. SubSeq(v, 1, i - 1) \in Seq(S)
    BY <2>2, SubSeqProperties, 1 \in Int, i - 1 \in Int
  <2>4. v[i] \in S
    BY <1>1, ElementOfSeq
  <2> DEFINE a == SubSeq(v, 1, i - 1)
             b == v[i]
  <2> HIDE DEF a, b
  <2>5. Append(a, b) = a \o <<b>>
    BY <2>3, <2>4, AppendIsConcat DEF a, b
  <2> QED BY <2>1, <2>5 DEF a, b
<1> QED BY <1>2, <1>3, <1>4

LEMMA NextPiece ==
    ASSUME NEW S, NEW m \in Nat, NEW seqs \in [1 .. m -> Seq(S)], NEW suf,
           IsSuffixes(suf, S, m, seqs), NEW n \in 1 .. m, NEW tail \in Seq(S)
    PROVE  /\ suf[n - 1] \o tail = seqs[n] \o (suf[n] \o tail)
           /\ suf[n] \o tail \in Seq(S)
<1> DEFINE a == seqs[n]
           b == suf[n]
<1>1. a \in Seq(S) /\ b \in Seq(S)
  BY n \in 0 .. m DEF IsSuffixes
<1>2. suf[n - 1] = a \o b
  BY DEF IsSuffixes
<1> HIDE DEF a, b
<1>3. (a \o b) \o tail = a \o (b \o tail) /\ b \o tail \in Seq(S)
  BY <1>1, ConcatAssociative, ConcatProperties
<1> QED BY <1>2, <1>3 DEF a, b

LEMMA ReadIntBack ==
    ASSUME NEW m, IsInteger(m), NEW x, IsInt(m, x), ~Overflows(m, x, m.cast),
           NEW value, NEW tail \in Seq(Byte)
    PROVE  ReadInt(Reading(value, to_little_endian(m.cast.bytes, x) \o tail), m)
               = Reading(Append(value, x), tail)
<1> DEFINE s == to_little_endian(m.cast.bytes, x)
           n == m.cast.bytes
           rest == s \o tail
           c == from_little_endian(m.cast, rest)
<1>1. s \in Seq(Byte) /\ Len(s) = n /\ n \in Nat \ {0}
  BY IntBytes
<1> HIDE DEF s, n
<1>2. /\ Len(rest) = n + Len(tail) /\ Len(tail) \in Nat
      /\ SubSeq(rest, n + 1, Len(rest)) = tail
      /\ \A i \in 1 .. n : rest[i] = s[i]
  <2> HIDE DEF rest, c
  <2>1. Len(s \o tail) = Len(s) + Len(tail)
    BY <1>1, ConcatProperties
  <2>2. SubSeq(s \o tail, Len(s) + 1, Len(s \o tail)) = tail
    BY <1>1, Cut
  <2>3. \A i \in 1 .. Len(s) : (s \o tail)[i] = s[i]
    BY <1>1, FirstElements
  <2> QED BY <1>1, <2>1, <2>3, <2>2 DEF rest
<1>3. c = x /\ ~Overflows(m, x, m.underlying) /\ As(m.underlying, x) = x
  <2> HIDE DEF rest
  <2> QED BY <1>2, NumberReadBack DEF s, n
<1> HIDE DEF rest, c
<1>4. ~(Len(rest) < n)
  BY <1>1, <1>2
<1> DEFINE r == Reading(value, rest)
<1>5. r.error = "none" /\ r.rest = rest /\ r.value = value
  BY DEF Reading
<1>6. ReadInt(r, m) = [r EXCEPT !.value = Append(@, As(m.underlying, c)),
                                !.rest = SubSeq(@, n + 1, Len(@))]
  BY <1>3, <1>4, <1>5 DEF ReadInt, c, n
<1>7. ReadInt(r, m) = Reading(Append(value, x), SubSeq(rest, n + 1, Len(rest)))
  BY <1>3, <1>6 DEF Reading
<1> QED BY <1>2, <1>7 DEF rest, s, n

LEMMA ReadIntsBack ==
    ASSUME NEW members, IsInts(members), NEW v, AreInts(members, v),
           ~IntsOverflow(members, v), NEW tail \in Seq(Byte)
    PROVE  ReadInts(Reading(<<>>, WriteInts(members, v) \o tail), members) = Reading(v, tail)
<1> DEFINE m == Len(members)
           seqs == IntPieces(members, v)
           r == Reading(<<>>, WriteInts(members, v) \o tail)
<1>1. /\ m \in Nat /\ DOMAIN members = 1 .. m /\ seqs \in [1 .. m -> Seq(Byte)]
      /\ WriteInts(members, v) = FlattenSeq(seqs)
      /\ \A i \in 1 .. m : /\ IsInteger(members[i]) /\ IsInt(members[i], v[i])
                           /\ seqs[i] = to_little_endian(members[i].cast.bytes, v[i])
  BY IntPiecesType
<1>2. IsSeq(v) /\ Len(v) = m
  BY DEF AreInts
<1>3. \A i \in 1 .. m : ~Overflows(members[i], v[i], members[i].cast)
  BY <1>1 DEF IntsOverflow
<1> HIDE DEF seqs
<1>4. PICK suf : IsSuffixes(suf, Byte, m, seqs)
  BY <1>1, WhatFollows
<1> DEFINE R == [i \in 0 .. m |-> Reading(SubSeq(v, 1, i), suf[i] \o tail)]
           IsAfter(f) == f = [n \in 0 .. m |-> IF n = 0 THEN r ELSE ReadInt(f[n - 1], members[n])]
           after == CHOOSE f : IsAfter(f)
<1>5. ReadInts(r, members) = after[m]
  BY DEF ReadInts
<1>6. R[0] = r
  <2>1. SubSeq(v, 1, 0) = <<>> /\ suf[0] = WriteInts(members, v) /\ 0 \in 0 .. m
    BY <1>1, <1>2, <1>4, PrefixStep DEF IsSuffixes
  <2> QED BY <2>1
<1>7. R[m] = Reading(v, tail)
  <2>1. SubSeq(v, 1, m) = v /\ suf[m] = <<>> /\ m \in 0 .. m
    BY <1>1, <1>2, <1>4, PrefixStep DEF IsSuffixes
  <2>2. <<>> \o tail = tail
    BY ConcatEmptySeq
  <2> QED BY <2>1, <2>2
<1>8. ASSUME NEW n \in 1 .. m PROVE R[n] = ReadInt(R[n - 1], members[n])
  <2>1. n - 1 \in 0 .. m /\ n \in 0 .. m
    OBVIOUS
  <2>2. /\ suf[n - 1] \o tail = seqs[n] \o (suf[n] \o tail)
        /\ suf[n] \o tail \in Seq(Byte)
    BY <1>1, <1>4, NextPiece
  <2>3. SubSeq(v, 1, n) = Append(SubSeq(v, 1, n - 1), v[n])
    BY <1>2, PrefixStep
  <2>4. /\ R[n - 1] = Reading(SubSeq(v, 1, n - 1), suf[n - 1] \o tail)
        /\ R[n] = Reading(SubSeq(v, 1, n), suf[n] \o tail)
    BY <2>1
  <2> HIDE DEF R
  <2> DEFINE follow == suf[n] \o tail
             before == SubSeq(v, 1, n - 1)
             member == members[n]
             x == v[n]
  <2>5. follow \in Seq(Byte) /\ IsInteger(member) /\ IsInt(member, x)
        /\ ~Overflows(member, x, member.cast)
    BY <1>1, <1>3, <2>2
  <2> HIDE DEF follow, before, member, x
  <2>6. ReadInt(Reading(before, to_little_endian(member.cast.bytes, x) \o follow), member)
          = Reading(Append(before, x), follow)
    BY <2>5, ReadIntBack
  <2> QED BY <1>1, <2>2, <2>3, <2>4, <2>6 DEF follow, before, member, x
<1>9. IsAfter(R)
  <2>1. \A n \in 0 .. m : R[n] = IF n = 0 THEN r ELSE ReadInt(R[n - 1], members[n])
    <3> HIDE DEF R, r
    <3> QED BY <1>6, <1>8
  <2> DEFINE B == [i \in 0 .. m |-> R[i]]
  <2>2. R = B
    OBVIOUS
  <2> HIDE DEF R, r
  <2> QED BY <2>1, <2>2
<1>10. IsAfter(after)
  <2> HIDE DEF IsAfter
  <2> QED BY <1>9
<1> HIDE DEF R, r, after
<1> DEFINE same == {i \in 0 .. m : after[i] = R[i]}
<1>11. 0 \in same
  BY <1>1, <1>6, <1>10
<1>12. ASSUME NEW i \in 1 .. m, i - 1 \in same PROVE i \in same
  <2>1. after[i] = ReadInt(after[i - 1], members[i]) /\ after[i - 1] = R[i - 1]
    BY <1>10, <1>12
  <2> QED BY <1>8, <2>1
<1>13. m \in same
  <2> HIDE DEF same
  <2> QED BY <1>1, <1>11, <1>12, UpTo
<1> QED BY <1>5, <1>7, <1>13 DEF r

LEMMA ReadStringBack ==
    ASSUME NEW x \in Seq(1 .. Base - 1), NEW value, NEW tail \in Seq(Byte)
    PROVE  ReadString(Reading(value, Append(x, 0) \o tail)) = Reading(Append(value, x), tail)
<1> DEFINE s == Append(x, 0)
           rest == s \o tail
           k == Len(x) + 1
           ends == {i \in DOMAIN rest : rest[i] = 0}
           end == CHOOSE i \in ends : \A j \in ends : i <= j
<1>1. 1 .. Base - 1 \subseteq Byte /\ 0 \in Byte
  BY BaseAssumption DEF Byte
<1>2. x \in Seq(Byte) /\ Len(x) \in Nat /\ Len(tail) \in Nat
  BY <1>1, SeqMonotonic, LenProperties
<1>3. /\ s \in Seq(Byte) /\ Len(s) = k /\ s[k] = 0
      /\ \A i \in 1 .. Len(x) : s[i] = x[i]
  BY <1>1, <1>2, AppendProperties
<1>4. \A i \in 1 .. Len(x) : x[i] # 0
  <2> SUFFICES ASSUME NEW i \in 1 .. Len(x) PROVE x[i] # 0
    OBVIOUS
  <2>1. x[i] \in 1 .. Base - 1
    BY ElementOfSeq
  <2> QED BY <2>1, BaseAssumption
<1> HIDE DEF s, ends, end
<1>5. rest \in Seq(Byte) /\ Len(rest) = k + Len(tail)
  <2> HIDE DEF rest, k
  <2>1. s \o tail \in Seq(Byte) /\ Len(s \o tail) = Len(s) + Len(tail)
    BY <1>3, ConcatProperties
  <2> QED BY <1>3, <2>1 DEF rest
<1>6. SubSeq(rest, k + 1, Len(rest)) = tail
  <2>1. SubSeq(s \o tail, Len(s) + 1, Len(s \o tail)) = tail
    BY <1>3, Cut
  <2> QED BY <1>3, <2>1
<1>7. \A i \in 1 .. k : rest[i] = s[i]
  BY <1>3, FirstElements
<1> HIDE DEF rest
<1>8. DOMAIN rest = 1 .. Len(rest)
  BY <1>5, LenProperties
<1>9. k \in ends /\ \A j \in ends : k <= j
  <2>1. k \in ends
    BY <1>2, <1>3, <1>5, <1>7, <1>8 DEF ends
  <2>2. ASSUME NEW j \in ends, ~(k <= j) PROVE FALSE
    <3>1. j \in 1 .. Len(x) /\ rest[j] = 0
      BY <1>2, <1>5, <1>8, <2>2 DEF ends
    <3>2. rest[j] = x[j]
      BY <1>2, <1>3, <1>7, <3>1
    <3> QED BY <1>4, <3>1, <3>2
  <2> QED BY <2>1, <2>2
<1>10. ends \subseteq Int
  BY <1>2, <1>5, <1>8 DEF ends
<1>11. end = k
  <2>1. end \in ends /\ \A j \in ends : end <= j
    <3>1. \E i \in ends : \A j \in ends : i <= j
      BY <1>9
    <3> QED BY <3>1 DEF end
  <2> HIDE DEF k
  <2> QED BY <1>9, <1>10, <2>1
<1>12. SubSeq(rest, 1, Len(x)) = x
  <2>1. \A i \in 1 .. Len(x) : rest[i] = x[i] /\ rest[i] \in Byte
    <3> SUFFICES ASSUME NEW i \in 1 .. Len(x) PROVE rest[i] = x[i] /\ rest[i] \in Byte
      OBVIOUS
    <3>1. rest[i] = x[i]
      BY <1>2, <1>3, <1>7
    <3> QED BY <1>2, <3>1, ElementOfSeq
  <2>2. /\ SubSeq(rest, 1, Len(x)) \in Seq(Byte) /\ Len(SubSeq(rest, 1, Len(x))) = Len(x)
        /\ \A i \in 1 .. Len(x) : SubSeq(rest, 1, Len(x))[i] = rest[i]
    BY <1>2, <2>1
  <2> QED BY <1>2, <2>1, <2>2, SeqEqual
<1> DEFINE r == Reading(value, rest)
<1>13. r.error = "none" /\ r.rest = rest /\ r.value = value
  BY DEF Reading
<1>14. ReadString(r) = [r EXCEPT !.value = Append(@, SubSeq(rest, 1, end - 1)),
                                 !.rest = SubSeq(@, end + 1, Len(@))]
  BY <1>9, <1>13 DEF ReadString, ends, end
<1>15. ReadString(r) = Reading(Append(value, SubSeq(rest, 1, end - 1)), SubSeq(rest, end + 1, Len(rest)))
  BY <1>14 DEF Reading
<1>16. end - 1 = Len(x)
  BY <1>2, <1>11
<1> QED BY <1>6, <1>11, <1>12, <1>15, <1>16 DEF rest, s

LEMMA ReadElementBack ==
    ASSUME NEW members, IsInts(members), NEW v, AreInts(members, v),
           ~IntsOverflow(members, v), NEW value, NEW tail \in Seq(Byte)
    PROVE  ReadElement(Reading(value, WriteInts(members, v) \o tail), members)
               = Reading(Append(value, v), tail)
<1> DEFINE rest == WriteInts(members, v) \o tail
           r == Reading(value, rest)
<1>1. [r EXCEPT !.value = <<>>] = Reading(<<>>, rest) /\ r.value = value
  <2> HIDE DEF rest
  <2> QED BY ReadingFields
<1>2. ReadInts(Reading(<<>>, rest), members) = Reading(v, tail)
  BY ReadIntsBack
<1> HIDE DEF rest, r
<1>3. ReadElement(r, members) = [Reading(v, tail) EXCEPT !.value = Append(value, Reading(v, tail).value)]
  BY <1>1, <1>2 DEF ReadElement
<1> QED BY <1>3 DEF Reading, r, rest

LEMMA ReadListBack ==
    ASSUME NEW m, IsUnsigned(m.cast), IsInts(m.elements),
           NEW x, IsSeq(x), Len(x) <= U64.hi, \A j \in DOMAIN x : AreInts(m.elements, x[j]),
           ~Overflows(SizeOf(m.cast), Len(x), m.cast),
           \A j \in DOMAIN x : ~IntsOverflow(m.elements, x[j]),
           NEW value, NEW tail \in Seq(Byte)
    PROVE  ReadList(Reading(value, (to_little_endian(m.cast.bytes, Len(x))
                                        \o FlattenSeq(ElementPieces(m.elements, x))) \o tail), m)
               = Reading(Append(value, x), tail)
<1> DEFINE k == Len(x)
           seqs == ElementPieces(m.elements, x)
           first == to_little_endian(m.cast.bytes, k)
           elements == FlattenSeq(seqs)
           r == Reading(value, (first \o elements) \o tail)
           start == Reading(<<>>, elements \o tail)
<1>1. k \in Nat /\ DOMAIN x = 1 .. k /\ seqs \in [1 .. k -> Seq(Byte)] /\ elements \in Seq(Byte)
  BY ElementPiecesType
<1>2. \A i \in 1 .. k : /\ AreInts(m.elements, x[i]) /\ ~IntsOverflow(m.elements, x[i])
                        /\ seqs[i] = WriteInts(m.elements, x[i])
  BY <1>1, ElementPiecesType
<1> HIDE DEF seqs
<1>3. PICK suf : IsSuffixes(suf, Byte, k, seqs)
  BY <1>1, WhatFollows
<1>4. /\ IsInteger(SizeOf(m.cast)) /\ IsInt(SizeOf(m.cast), k) /\ SizeOf(m.cast).cast = m.cast
  BY <1>1, SizeIsInteger
<1>5. first \in Seq(Byte)
  BY <1>4, IntBytes
<1> HIDE DEF elements, first
<1>6. (first \o elements) \o tail = first \o (elements \o tail) /\ elements \o tail \in Seq(Byte)
  BY <1>1, <1>5, ConcatAssociative, ConcatProperties
<1> DEFINE size == ReadInt([r EXCEPT !.value = <<>>], SizeOf(m.cast))
           count == Head(size.value)
<1>7. size = Reading(<<k>>, elements \o tail)
  <2>1. [r EXCEPT !.value = <<>>] = Reading(<<>>, first \o (elements \o tail))
    BY <1>6, ReadingFields
  <2> DEFINE follow == elements \o tail
             sizeOf == SizeOf(m.cast)
  <2>2. follow \in Seq(Byte) /\ first = to_little_endian(sizeOf.cast.bytes, k)
        /\ IsInteger(sizeOf) /\ IsInt(sizeOf, k) /\ ~Overflows(sizeOf, k, sizeOf.cast)
    BY <1>4, <1>6 DEF first
  <2> HIDE DEF follow, sizeOf, k
  <2>3. ReadInt(Reading(<<>>, first \o follow), sizeOf) = Reading(Append(<<>>, k), follow)
    BY <2>2, ReadIntBack
  <2>4. Append(<<>>, k) = <<k>>
    OBVIOUS
  <2> HIDE DEF r
  <2> QED BY <2>1, <2>3, <2>4 DEF follow, sizeOf
<1> HIDE DEF size
<1>8. size.error = "none" /\ count = k /\ [size EXCEPT !.value = <<>>] = start
  <2> DEFINE follow == elements \o tail
             list == <<k>>
  <2>1. Head(list) = k
    OBVIOUS
  <2> HIDE DEF follow, list, k
  <2>2. size = Reading(list, follow)
    BY <1>7 DEF list, follow
  <2>3. size.error = "none" /\ size.value = list /\ [size EXCEPT !.value = <<>>] = Reading(<<>>, follow)
    BY <2>2, ReadingFields
  <2> QED BY <2>1, <2>3 DEF follow
<1> DEFINE R == [i \in 0 .. k |-> Reading(SubSeq(x, 1, i), suf[i] \o tail)]
           IsAfter(f) ==
             f = [n \in 0 .. count |-> IF n = 0 THEN [size EXCEPT !.value = <<>>]
                                       ELSE ReadElement(f[n - 1], m.elements)]
           after == CHOOSE f : IsAfter(f)
<1>9. r.value = value
  BY DEF Reading
<1>10. ReadList(r, m) = [after[count] EXCEPT !.value = Append(r.value, after[count].value)]
  <2>1. size.error = "none"
    BY <1>8
  <2> HIDE DEF r
  <2> QED BY <2>1 DEF ReadList, size
<1> HIDE DEF count
<1>11. R[0] = start
  <2>1. SubSeq(x, 1, 0) = <<>> /\ suf[0] = elements /\ 0 \in 0 .. k
    BY <1>1, <1>3, PrefixStep DEF IsSuffixes, elements
  <2> QED BY <2>1
<1>12. R[k] = Reading(x, tail)
  <2>1. SubSeq(x, 1, k) = x /\ suf[k] = <<>> /\ k \in 0 .. k
    BY <1>1, <1>3, PrefixStep DEF IsSuffixes
  <2>2. <<>> \o tail = tail
    BY ConcatEmptySeq
  <2> QED BY <2>1, <2>2
<1>13. ASSUME NEW n \in 1 .. k PROVE R[n] = ReadElement(R[n - 1], m.elements)
  <2>1. n - 1 \in 0 .. k /\ n \in 0 .. k
    OBVIOUS
  <2>2. /\ suf[n - 1] \o tail = seqs[n] \o (suf[n] \o tail)
        /\ suf[n] \o tail \in Seq(Byte)
    BY <1>1, <1>3, NextPiece
  <2>3. SubSeq(x, 1, n) = Append(SubSeq(x, 1, n - 1), x[n])
    BY PrefixStep
  <2>4. /\ R[n - 1] = Reading(SubSeq(x, 1, n - 1), suf[n - 1] \o tail)
        /\ R[n] = Reading(SubSeq(x, 1, n), suf[n] \o tail)
    BY <2>1
  <2> HIDE DEF R
  <2> DEFINE follow == suf[n] \o tail
             before == SubSeq(x, 1, n - 1)
             members == m.elements
             v == x[n]
  <2>5. follow \in Seq(Byte) /\ IsInts(members) /\ AreInts(members, v) /\ ~IntsOverflow(members, v)
    BY <1>2, <2>2
  <2> HIDE DEF follow, before, members, v
  <2>6. ReadElement(Reading(before, WriteInts(members, v) \o follow), members)
          = Reading(Append(before, v), follow)
    BY <2>5, ReadElementBack
  <2> QED BY <1>2, <2>2, <2>3, <2>4, <2>6 DEF follow, before, members, v
<1>14. IsAfter(R)
  <2>1. \A n \in 0 .. k : R[n] = IF n = 0 THEN start ELSE ReadElement(R[n - 1], m.elements)
    <3> HIDE DEF R, start
    <3> QED BY <1>11, <1>13
  <2>2. R = [i \in 0 .. k |-> R[i]]
    OBVIOUS
  <2> HIDE DEF R, start
  <2> QED BY <1>8, <2>1, <2>2
<1>15. IsAfter(after)
  <2> HIDE DEF IsAfter
  <2> QED BY <1>14
<1> HIDE DEF R, start, after, r
<1> DEFINE same == {i \in 0 .. k : after[i] = R[i]}
<1>16. 0 \in same
  BY <1>1, <1>8, <1>11, <1>15
<1>17. ASSUME NEW i \in 1 .. k, i - 1 \in same PROVE i \in same
  <2>1. after[i] = ReadElement(after[i - 1], m.elements) /\ after[i - 1] = R[i - 1]
    BY <1>8, <1>15, <1>17
  <2> QED BY <1>13, <2>1
<1>18. k \in same
  <2> HIDE DEF same
  <2> QED BY <1>1, <1>16, <1>17, UpTo
<1>19. ReadList(r, m) = [Reading(x, tail) EXCEPT !.value = Append(value, Reading(x, tail).value)]
  BY <1>8, <1>9, <1>10, <1>12, <1>18
<1>20. ReadList(r, m) = Reading(Append(value, x), tail)
  BY <1>19 DEF Reading
<1> QED BY <1>20 DEF r, first, elements, seqs

\* A member makes write throw.
MemberThrows(m, x) ==
    CASE m.kind = "int" -> Overflows(m, x, m.cast)
      [] m.kind = "string" -> FALSE
      [] m.kind = "list" ->
            \/ Overflows(SizeOf(m.cast), Len(x), m.cast)
            \/ \E j \in DOMAIN x : IntsOverflow(m.elements, x[j])

LEMMA ReadMemberBack ==
    ASSUME NEW m, IsMember(m), NEW x, IsMemberValue(m, x), ~MemberThrows(m, x),
           NEW value, NEW tail \in Seq(Byte)
    PROVE  ReadMember(Reading(value, WriteMember(m, x) \o tail), m) = Reading(Append(value, x), tail)
<1>1. m.kind \in {"int", "string", "list"}
  BY DEF IsMember
<1>2. CASE m.kind = "int"
  <2>1. IsInteger(m) /\ IsInt(m, x) /\ ~Overflows(m, x, m.cast)
    BY <1>2 DEF IsMember, IsMemberValue, MemberThrows
  <2>2. WriteMember(m, x) = to_little_endian(m.cast.bytes, x)
    BY <1>2 DEF WriteMember
  <2>3. \A r : ReadMember(r, m) = ReadInt(r, m)
    BY <1>2 DEF ReadMember
  <2> QED BY <2>1, <2>2, <2>3, ReadIntBack
<1>3. CASE m.kind = "string"
  <2>1. x \in Seq(1 .. Base - 1)
    BY <1>3 DEF IsMemberValue
  <2>2. WriteMember(m, x) = Append(x, 0)
    BY <1>3 DEF WriteMember
  <2>3. \A r : ReadMember(r, m) = ReadString(r)
    BY <1>3 DEF ReadMember
  <2> QED BY <2>1, <2>2, <2>3, ReadStringBack
<1>4. CASE m.kind = "list"
  <2>1. /\ IsUnsigned(m.cast) /\ IsInts(m.elements)
        /\ IsSeq(x) /\ Len(x) <= U64.hi /\ \A j \in DOMAIN x : AreInts(m.elements, x[j])
    BY <1>4 DEF IsMember, IsMemberValue
  <2>2. /\ ~Overflows(SizeOf(m.cast), Len(x), m.cast)
        /\ \A j \in DOMAIN x : ~IntsOverflow(m.elements, x[j])
    BY <1>4 DEF MemberThrows
  <2>3. WriteMember(m, x) = to_little_endian(m.cast.bytes, Len(x)) \o FlattenSeq(ElementPieces(m.elements, x))
    BY <1>4 DEF WriteMember, ElementPieces
  <2>4. \A r : ReadMember(r, m) = ReadList(r, m)
    BY <1>4 DEF ReadMember
  <2>5. ReadList(Reading(value, (to_little_endian(m.cast.bytes, Len(x))
                                     \o FlattenSeq(ElementPieces(m.elements, x))) \o tail), m)
            = Reading(Append(value, x), tail)
    BY <2>1, <2>2, ReadListBack
  <2> QED BY <2>3, <2>4, <2>5
<1> QED BY <1>1, <1>2, <1>3, <1>4

\* The serializers of serialize_impl.hpp: reading what write made, with any
\* bytes behind it, gives back the struct and leaves those bytes.
THEOREM RoundTrip ==
    ASSUME NEW type, IsStruct(type), NEW v, IsValue(type, v), ~WriteThrows(type, v),
           NEW tail \in Seq(Byte)
    PROVE  Read(type, Write(type, v) \o tail) = [value |-> v, rest |-> tail, error |-> "none"]
<1> DEFINE m == Len(type)
           seqs == Pieces(type, v)
           bytes == Write(type, v) \o tail
           r == Reading(<<>>, bytes)
<1>1. /\ m \in Nat /\ DOMAIN type = 1 .. m /\ seqs \in [1 .. m -> Seq(Byte)]
      /\ Write(type, v) = FlattenSeq(seqs)
      /\ \A i \in 1 .. m : /\ IsMember(type[i]) /\ IsMemberValue(type[i], v[i])
                           /\ seqs[i] = WriteMember(type[i], v[i])
  BY PiecesType
<1>2. IsSeq(v) /\ Len(v) = m
  BY DEF IsValue
<1>3. \A i \in 1 .. m : ~MemberThrows(type[i], v[i])
  BY <1>1 DEF WriteThrows, MemberThrows
<1> HIDE DEF seqs
<1>4. PICK suf : IsSuffixes(suf, Byte, m, seqs)
  BY <1>1, WhatFollows
<1> DEFINE R == [i \in 0 .. m |-> Reading(SubSeq(v, 1, i), suf[i] \o tail)]
           IsAfter(f) ==
             f = [n \in 0 .. m |-> IF n = 0 THEN ReadingOf(bytes) ELSE ReadMember(f[n - 1], type[n])]
           after == CHOOSE f : IsAfter(f)
<1>5. Read(type, bytes) = after[m] /\ ReadingOf(bytes) = r
  BY DEF Read, ReadingOf, Reading
<1>6. R[0] = r
  <2>1. SubSeq(v, 1, 0) = <<>> /\ suf[0] = Write(type, v) /\ 0 \in 0 .. m
    BY <1>1, <1>2, <1>4, PrefixStep DEF IsSuffixes
  <2> QED BY <2>1
<1>7. R[m] = Reading(v, tail)
  <2>1. SubSeq(v, 1, m) = v /\ suf[m] = <<>> /\ m \in 0 .. m
    BY <1>1, <1>2, <1>4, PrefixStep DEF IsSuffixes
  <2>2. <<>> \o tail = tail
    BY ConcatEmptySeq
  <2> QED BY <2>1, <2>2
<1>8. ASSUME NEW n \in 1 .. m PROVE R[n] = ReadMember(R[n - 1], type[n])
  <2>1. n - 1 \in 0 .. m /\ n \in 0 .. m
    OBVIOUS
  <2>2. /\ suf[n - 1] \o tail = seqs[n] \o (suf[n] \o tail)
        /\ suf[n] \o tail \in Seq(Byte)
    BY <1>1, <1>4, NextPiece
  <2>3. SubSeq(v, 1, n) = Append(SubSeq(v, 1, n - 1), v[n])
    BY <1>2, PrefixStep
  <2>4. /\ R[n - 1] = Reading(SubSeq(v, 1, n - 1), suf[n - 1] \o tail)
        /\ R[n] = Reading(SubSeq(v, 1, n), suf[n] \o tail)
    BY <2>1
  <2> HIDE DEF R
  <2> DEFINE follow == suf[n] \o tail
             before == SubSeq(v, 1, n - 1)
             member == type[n]
             x == v[n]
  <2>5. follow \in Seq(Byte) /\ IsMember(member) /\ IsMemberValue(member, x) /\ ~MemberThrows(member, x)
    BY <1>1, <1>3, <2>2
  <2> HIDE DEF follow, before, member, x
  <2>6. ReadMember(Reading(before, WriteMember(member, x) \o follow), member)
          = Reading(Append(before, x), follow)
    BY <2>5, ReadMemberBack
  <2> QED BY <1>1, <2>2, <2>3, <2>4, <2>6 DEF follow, before, member, x
<1>9. IsAfter(R)
  <2>1. \A n \in 0 .. m : R[n] = IF n = 0 THEN r ELSE ReadMember(R[n - 1], type[n])
    <3> HIDE DEF R, r
    <3> QED BY <1>6, <1>8
  <2>2. R = [i \in 0 .. m |-> R[i]]
    OBVIOUS
  <2> HIDE DEF R, r, bytes
  <2> QED BY <1>5, <2>1, <2>2
<1>10. IsAfter(after)
  <2> HIDE DEF IsAfter
  <2> QED BY <1>9
<1> HIDE DEF R, r, after, bytes
<1> DEFINE same == {i \in 0 .. m : after[i] = R[i]}
<1>11. 0 \in same
  BY <1>1, <1>5, <1>6, <1>10
<1>12. ASSUME NEW i \in 1 .. m, i - 1 \in same PROVE i \in same
  <2>1. after[i] = ReadMember(after[i - 1], type[i]) /\ after[i - 1] = R[i - 1]
    BY <1>10, <1>12
  <2> QED BY <1>8, <2>1
<1>13. m \in same
  <2> HIDE DEF same
  <2> QED BY <1>1, <1>11, <1>12, UpTo
<1> QED BY <1>5, <1>7, <1>13 DEF bytes, Reading

-----------------------------------------------------------------------------
(* Frames.                                                                 *)

TypeOf(d, m) == Variant[d][m.which + 1]
HeaderOf(d, m) == <<m.which, Size(TypeOf(d, m), m.value)>>
HeaderBytes(d, m) == Write(Header, HeaderOf(d, m))
PayloadBytes(d, m) == Write(TypeOf(d, m), m.value)
FrameOf(d, m) == HeaderBytes(d, m) \o PayloadBytes(d, m)

\* The messages that tcp_send_message does not throw on.
Writable(d) ==
    {m \in Messages[d] :
        ~WriteThrows(Header, HeaderOf(d, m)) /\ ~WriteThrows(TypeOf(d, m), m.value)}

LEMMA HeaderType ==
    /\ IsStruct(Header) /\ Len(Header) = 2 /\ DOMAIN Header = 1 .. 2
    /\ \A h : Size(Header, h) = ConstSize(Header)
    /\ ConstSize(Header) \in Nat \ {0}
    /\ \A w, n \in Nat : w <= U64.hi /\ n <= U64.hi => IsValue(Header, <<w, n>>)
<1>1. /\ Len(Header) = 2 /\ DOMAIN Header = 1 .. 2 /\ Header = [i \in 1 .. 2 |-> Header[i]]
      /\ Header[1] = SizeOf(U8) /\ Header[2] = SizeOf(U32)
  BY DEF Header
<1>2. IsUnsigned(U8) /\ IsUnsigned(U32) /\ U8.bytes = 1 /\ U32.bytes = 4
  BY DEF IsUnsigned, U8, U32, Unsigned, Widths
<1>3. SizeOf(U8).kind = "int" /\ SizeOf(U32).kind = "int"
  BY DEF SizeOf, Integer
<1>4. /\ IsInteger(SizeOf(U8)) /\ IsInteger(SizeOf(U32))
      /\ SizeOf(U8).cast = U8 /\ SizeOf(U32).cast = U32
      /\ \A n \in Nat : n <= U64.hi => IsInt(SizeOf(U8), n) /\ IsInt(SizeOf(U32), n)
  BY <1>2, SizeIsInteger
<1>5. \A i \in 1 .. 2 : /\ IsInteger(Header[i]) /\ Header[i].kind = "int"
                        /\ \A n \in Nat : n <= U64.hi => IsInt(Header[i], n)
  BY <1>1, <1>3, <1>4
<1>6. IsSeq(Header)
  BY <1>1 DEF IsSeq
<1>7. IsStruct(Header)
  BY <1>1, <1>5, <1>6 DEF IsStruct, IsMember
<1>8. ASSUME NEW h PROVE Size(Header, h) = ConstSize(Header)
  <2>1. [i \in DOMAIN Header |-> MemberSize(Header[i], h[i])]
          = [i \in DOMAIN Header |-> Header[i].cast.bytes]
    BY <1>1, <1>5 DEF MemberSize
  <2> QED BY <2>1 DEF Size, MemberSize, ConstSize
<1>9. ConstSize(Header) = 5
  <2> DEFINE numbers == [i \in DOMAIN Header |-> Header[i].cast.bytes]
             g == [i \in 0 .. 2 |-> IF i = 0 THEN 0 ELSE IF i = 1 THEN 1 ELSE 5]
  <2>1. Len(numbers) = 2 /\ numbers[1] = 1 /\ numbers[2] = 4
    BY <1>1, <1>2, <1>4
  <2>2. g[0] = 0 /\ g[1] = 1 /\ g[2] = 5 /\ g = [i \in 0 .. 2 |-> g[i]]
    OBVIOUS
  <2> HIDE DEF g, numbers
  <2>3. ASSUME NEW i \in 1 .. 2 PROVE g[i] = g[i - 1] + numbers[i]
    BY <2>1, <2>2
  <2>4. Sum(numbers) = g[Len(numbers)]
    BY <2>1, <2>2, <2>3, SumIs
  <2> QED BY <2>1, <2>2, <2>4 DEF numbers, ConstSize
<1>10. ASSUME NEW w \in Nat, NEW n \in Nat, w <= U64.hi, n <= U64.hi
       PROVE  IsValue(Header, <<w, n>>)
  <2> DEFINE v == <<w, n>>
  <2>1. Len(v) = 2 /\ v = [i \in 1 .. 2 |-> v[i]] /\ v[1] = w /\ v[2] = n
    OBVIOUS
  <2> HIDE DEF v
  <2>2. IsSeq(v)
    BY <2>1 DEF IsSeq
  <2>3. ASSUME NEW i \in 1 .. 2 PROVE IsMemberValue(Header[i], v[i])
    <3>1. v[i] \in Nat /\ v[i] <= U64.hi
      BY <1>10, <2>1
    <3>2. IsInt(Header[i], v[i]) /\ Header[i].kind = "int"
      BY <1>5, <3>1
    <3> QED BY <3>2 DEF IsMemberValue
  <2> QED BY <1>1, <2>1, <2>2, <2>3 DEF IsValue, v
<1> QED BY <1>1, <1>7, <1>8, <1>9, <1>10

LEMMA MessageType ==
    ASSUME NEW d \in Directions, NEW m \in Messages[d]
    PROVE  /\ m = [which |-> m.which, value |-> m.value]
           /\ m.which \in Nat /\ m.which < Len(Variant[d])
           /\ IsStruct(TypeOf(d, m)) /\ IsValue(TypeOf(d, m), m.value)
           /\ IsValue(Header, HeaderOf(d, m))
           /\ PayloadBytes(d, m) \in Seq(Byte)
           /\ Len(PayloadBytes(d, m)) = Size(TypeOf(d, m), m.value)
           /\ HeaderBytes(d, m) \in Seq(Byte) /\ Len(HeaderBytes(d, m)) = ConstSize(Header)
           /\ FrameOf(d, m) \in Seq(Byte)
           /\ Len(FrameOf(d, m)) = ConstSize(Header) + Size(TypeOf(d, m), m.value)
<1>1. /\ IsSeq(Variant[d]) /\ \A i \in DOMAIN Variant[d] : IsStruct(Variant[d][i])
      /\ m = [which |-> m.which, value |-> m.value]
      /\ m.which \in 0 .. Len(Variant[d]) - 1 /\ m.which <= U64.hi
      /\ IsValue(TypeOf(d, m), m.value)
      /\ Size(TypeOf(d, m), m.value) <= U64.hi
  BY MessagesAssumption DEF TypeOf
<1>2. Len(Variant[d]) \in Nat /\ DOMAIN Variant[d] = 1 .. Len(Variant[d])
  BY <1>1, DomainOfSeq
<1>3. /\ m.which \in Nat /\ m.which < Len(Variant[d])
      /\ m.which + 1 \in DOMAIN Variant[d]
  BY <1>1, <1>2
<1>4. IsStruct(TypeOf(d, m))
  BY <1>1, <1>3 DEF TypeOf
<1>5. /\ PayloadBytes(d, m) \in Seq(Byte)
      /\ Len(PayloadBytes(d, m)) = Size(TypeOf(d, m), m.value)
  BY <1>1, <1>4, SizeIsExact DEF PayloadBytes
<1>6. Size(TypeOf(d, m), m.value) \in Nat
  BY <1>5, LenProperties
<1>7. IsValue(Header, HeaderOf(d, m))
  BY <1>1, <1>3, <1>6, HeaderType DEF HeaderOf
<1>8. HeaderBytes(d, m) \in Seq(Byte) /\ Len(HeaderBytes(d, m)) = ConstSize(Header)
  BY <1>7, HeaderType, SizeIsExact DEF HeaderBytes
<1>9. /\ FrameOf(d, m) \in Seq(Byte)
      /\ Len(FrameOf(d, m)) = Len(HeaderBytes(d, m)) + Len(PayloadBytes(d, m))
  BY <1>5, <1>8, ConcatProperties DEF FrameOf
<1> QED BY <1>1, <1>3, <1>4, <1>5, <1>7, <1>8, <1>9

\* The buffer of tcp_send_message is filled to its end.
LEMMA BufferFull ==
    ASSUME NEW bytes \in Seq(Byte)
    PROVE  Buffer(Len(bytes), bytes) = bytes
<1>1. bytes = [i \in 1 .. Len(bytes) |-> bytes[i]] /\ DOMAIN bytes = 1 .. Len(bytes)
  OBVIOUS
<1> QED BY <1>1 DEF Buffer

\* Of the elements a that arrived, with w behind them, h is taken and t left.
Takes(S, a, w, h, t) ==
    /\ SubSeq(a, 1, Len(h)) = h
    /\ SubSeq(a, Len(h) + 1, Len(a)) \in Seq(S)
    /\ SubSeq(a, Len(h) + 1, Len(a)) \o w = t

\* What is at the front of the stream is what is taken, once it has arrived.
LEMMA TakeFront ==
    ASSUME NEW S, NEW a \in Seq(S), NEW w \in Seq(S), NEW h \in Seq(S), NEW t \in Seq(S),
           a \o w = h \o t, Len(a) >= Len(h)
    PROVE  Takes(S, a, w, h, t)
<1> DEFINE p == SubSeq(a, 1, Len(h))
           q == SubSeq(a, Len(h) + 1, Len(a))
<1>1. Len(a) \in Nat /\ Len(h) \in Nat /\ \A i \in 1 .. Len(a) : a[i] \in S
  BY ElementOfSeq
<1>2. /\ p \in Seq(S) /\ Len(p) = Len(h) /\ \A i \in 1 .. Len(h) : p[i] = a[i]
  BY <1>1
<1>3. q \in Seq(S)
  BY <1>1
<1>4. p \o q = a
  <2>1. SubSeq(a, 1, Len(h)) \o SubSeq(a, Len(h) + 1, Len(a)) = SubSeq(a, 1, Len(a))
    BY <1>1, ConcatAdjacentSubSeq, 1 \in 1 .. Len(a) + 1,
       Len(h) \in 1 - 1 .. Len(a), Len(a) \in Len(h) .. Len(a)
  <2> QED BY <2>1, SubSeqFull
<1> HIDE DEF p, q
<1>5. p = h
  <2>1. \A i \in 1 .. Len(h) : (a \o w)[i] = a[i]
    <3> SUFFICES ASSUME NEW i \in 1 .. Len(h) PROVE (a \o w)[i] = a[i]
      OBVIOUS
    <3>1. i \in 1 .. Len(a)
      BY <1>1
    <3> QED BY <3>1, FirstElements
  <2>2. \A i \in 1 .. Len(h) : (h \o t)[i] = h[i]
    BY FirstElements
  <2>3. \A i \in 1 .. Len(h) : p[i] = h[i]
    BY <1>2, <2>1, <2>2
  <2> QED BY <1>2, <2>3, SeqEqual
<1>6. q \o w = t
  <2>1. p \o (q \o w) = h \o t
    <3>1. p \in Seq(S) /\ q \in Seq(S) /\ w \in Seq(S)
      BY <1>2, <1>3
    <3>2. (p \o q) \o w = p \o (q \o w)
      BY <3>1, ConcatAssociative
    <3> QED BY <1>4, <3>2
  <2>2. q \o w \in Seq(S)
    BY <1>3, ConcatProperties
  <2> DEFINE u == q \o w
  <2>3. u \in Seq(S)
    BY <2>2
  <2> HIDE DEF u
  <2>4. SubSeq(h \o u, Len(h) + 1, Len(h \o u)) = u
    BY <2>3, Cut
  <2>5. SubSeq(h \o t, Len(h) + 1, Len(h \o t)) = t
    BY Cut
  <2> QED BY <1>5, <2>1, <2>4, <2>5 DEF u
<1> QED BY <1>3, <1>5, <1>6 DEF p, q, Takes

-----------------------------------------------------------------------------
(* The stream of bytes.                                                    *)

\* left[i] are the bytes of the messages behind the first i of s.
IsLeft(left, d, s) ==
    /\ left \in [0 .. Len(s) -> Seq(Byte)] /\ left[Len(s)] = <<>>
    /\ \A i \in 1 .. Len(s) : left[i - 1] = FrameOf(d, s[i]) \o left[i]

\* What the receiver waits for when it has read the header of m.
BodyOf(d, m) ==
    [at |-> "body", opcode |-> m.which, payload_size |-> Size(TypeOf(d, m), m.value)]

Unread(left, d, s, n, bytes, r) ==
    \/ r = ReadingHeader /\ bytes = left[n]
    \/ /\ n < Len(s)
       /\ r = BodyOf(d, s[n + 1])
       /\ bytes = PayloadBytes(d, s[n + 1]) \o left[n + 1]

\* bytes are what a receiver in state r, that has n of the messages s, needs to
\* get the others.
Streams(d, s, n, bytes, r) ==
    \E left : IsLeft(left, d, s) /\ Unread(left, d, s, n, bytes, r)

LEMMA WritableType ==
    ASSUME NEW d \in Directions, NEW s \in Seq(Writable(d)), NEW i \in 1 .. Len(s)
    PROVE  s[i] \in Messages[d] /\ s[i] \in Writable(d)
  BY ElementOfSeq DEF Writable

LEMMA StreamsStart ==
    ASSUME NEW d
    PROVE  Streams(d, <<>>, 0, <<>>, ReadingHeader)
<1> DEFINE left == [i \in 0 .. 0 |-> <<>>]
<1>1. left[0] = <<>> /\ left \in [0 .. 0 -> Seq(Byte)] /\ Len(<<>>) = 0 /\ 1 .. 0 = {}
  OBVIOUS
<1> HIDE DEF left
<1>2. IsLeft(left, d, <<>>)
  BY <1>1 DEF IsLeft
<1>3. Unread(left, d, <<>>, 0, <<>>, ReadingHeader)
  BY <1>1 DEF Unread
<1> QED BY <1>2, <1>3 DEF Streams

\* Sending a message appends its frame.
LEMMA StreamsSend ==
    ASSUME NEW d \in Directions, NEW s \in Seq(Writable(d)), NEW m \in Writable(d),
           NEW n \in 0 .. Len(s), NEW bytes, NEW r, Streams(d, s, n, bytes, r)
    PROVE  Streams(d, Append(s, m), n, bytes \o FrameOf(d, m), r)
<1> DEFINE k == Len(s)
           s2 == Append(s, m)
           f == FrameOf(d, m)
<1>1. PICK left : IsLeft(left, d, s) /\ Unread(left, d, s, n, bytes, r)
  BY DEF Streams
<1>2. /\ k \in Nat /\ Len(s2) = k + 1 /\ s2[k + 1] = m
      /\ \A i \in 1 .. k : s2[i] = s[i]
  BY AppendProperties
<1>3. f \in Seq(Byte)
  BY MessageType DEF Writable
<1>4. left \in [0 .. k -> Seq(Byte)] /\ left[k] = <<>>
  BY <1>1 DEF IsLeft
<1> HIDE DEF s2, f, k
<1> DEFINE left2 == [i \in 0 .. k + 1 |-> IF i = k + 1 THEN <<>> ELSE left[i] \o f]
<1>5. left2 \in [0 .. k + 1 -> Seq(Byte)]
  <2>1. ASSUME NEW i \in 0 .. k PROVE left[i] \o f \in Seq(Byte)
    <3>1. left[i] \in Seq(Byte)
      BY <1>4
    <3> QED BY <1>3, <3>1, ConcatProperties
  <2> QED BY <1>2, <2>1
<1>6. left2[k + 1] = <<>> /\ \A i \in 0 .. k : left2[i] = left[i] \o f
  BY <1>2
<1> HIDE DEF left2
<1>7. ASSUME NEW i \in 1 .. k + 1
      PROVE  left2[i - 1] = FrameOf(d, s2[i]) \o left2[i]
  <2>1. CASE i = k + 1
    <3>1. k \in 0 .. k /\ i - 1 = k
      BY <1>2, <2>1
    <3>2. left2[k] = <<>> \o f
      BY <1>4, <1>6, <3>1
    <3>3. <<>> \o f = f /\ f \o <<>> = f
      BY <1>3, ConcatEmptySeq
    <3> QED BY <1>2, <1>6, <2>1, <3>1, <3>2, <3>3 DEF f
  <2>2. CASE i # k + 1
    <3>1. i \in 1 .. k /\ i \in 0 .. k /\ i - 1 \in 0 .. k
      BY <1>2, <2>2
    <3> DEFINE g == FrameOf(d, s[i])
               b == left[i]
    <3>2. b \in Seq(Byte) /\ left[i - 1] = g \o b
      BY <1>1, <1>4, <3>1 DEF IsLeft, k
    <3>3. g \in Seq(Byte)
      BY <3>1, WritableType, MessageType DEF k
    <3>4. left2[i - 1] = left[i - 1] \o f /\ left2[i] = b \o f /\ s2[i] = s[i]
      BY <1>2, <1>6, <3>1
    <3> HIDE DEF g, b
    <3>5. (g \o b) \o f = g \o (b \o f)
      BY <1>3, <3>2, <3>3, ConcatAssociative
    <3> QED BY <3>2, <3>4, <3>5 DEF g
  <2> QED BY <2>1, <2>2
<1>8. IsLeft(left2, d, s2)
  BY <1>2, <1>5, <1>6, <1>7 DEF IsLeft
<1>9. Unread(left2, d, s2, n, bytes \o f, r)
  <2>1. CASE r = ReadingHeader /\ bytes = left[n]
    BY <1>6, <2>1 DEF Unread, k
  <2>2. CASE /\ n < Len(s) /\ r = BodyOf(d, s[n + 1])
             /\ bytes = PayloadBytes(d, s[n + 1]) \o left[n + 1]
    <3> DEFINE p == PayloadBytes(d, s[n + 1])
               b == left[n + 1]
    <3>1. n + 1 \in 1 .. k /\ n + 1 \in 0 .. k /\ n < k + 1
      BY <1>2, <2>2 DEF k
    <3>2. b \in Seq(Byte)
      BY <1>4, <3>1
    <3>3. p \in Seq(Byte)
      BY <3>1, WritableType, MessageType DEF k
    <3>4. bytes = p \o b /\ left2[n + 1] = b \o f /\ s2[n + 1] = s[n + 1]
      BY <1>2, <1>6, <2>2, <3>1
    <3> HIDE DEF p, b
    <3>5. (p \o b) \o f = p \o (b \o f)
      BY <1>3, <3>2, <3>3, ConcatAssociative
    <3>6. bytes \o f = p \o left2[n + 1]
      BY <3>4, <3>5
    <3> QED BY <1>2, <2>2, <3>1, <3>4, <3>6 DEF Unread, p
  <2> QED BY <1>1, <2>1, <2>2 DEF Unread
<1> QED BY <1>8, <1>9 DEF Streams, s2, f

\* A receiver that reads a header has one before it, or has all messages.
LEMMA StreamsHeader ==
    ASSUME NEW d \in Directions, NEW s \in Seq(Writable(d)), NEW n \in 0 .. Len(s),
           NEW bytes, Streams(d, s, n, bytes, ReadingHeader)
    PROVE  /\ n = Len(s) => bytes = <<>>
           /\ n < Len(s) => \E t \in Seq(Byte) :
                 /\ bytes = HeaderBytes(d, s[n + 1]) \o t
                 /\ Streams(d, s, n, t, BodyOf(d, s[n + 1]))
<1>1. PICK left : IsLeft(left, d, s) /\ Unread(left, d, s, n, bytes, ReadingHeader)
  BY DEF Streams
<1>2. bytes = left[n]
  BY <1>1 DEF Unread, ReadingHeader, BodyOf
<1>3. n = Len(s) => bytes = <<>>
  BY <1>1, <1>2 DEF IsLeft
<1>4. ASSUME n < Len(s)
      PROVE  \E t \in Seq(Byte) : /\ bytes = HeaderBytes(d, s[n + 1]) \o t
                                  /\ Streams(d, s, n, t, BodyOf(d, s[n + 1]))
  <2> DEFINE m == s[n + 1]
             h == HeaderBytes(d, m)
             p == PayloadBytes(d, m)
             b == left[n + 1]
             t == p \o b
  <2>1. Len(s) \in Nat /\ n + 1 \in 1 .. Len(s) /\ n + 1 \in 0 .. Len(s) /\ (n + 1) - 1 = n
    BY <1>4, LenProperties
  <2>2. m \in Messages[d]
    BY <2>1, WritableType
  <2>3. h \in Seq(Byte) /\ p \in Seq(Byte)
    <3> HIDE DEF m
    <3> QED BY <2>2, MessageType
  <2>4. b \in Seq(Byte)
    BY <1>1, <2>1 DEF IsLeft
  <2>5. bytes = FrameOf(d, m) \o b
    <3>1. left[(n + 1) - 1] = FrameOf(d, s[n + 1]) \o left[n + 1]
      BY <1>1, <2>1 DEF IsLeft
    <3> QED BY <1>2, <2>1, <3>1
  <2>6. Unread(left, d, s, n, t, BodyOf(d, m))
    BY <1>4 DEF Unread
  <2>7. FrameOf(d, m) = h \o p
    BY DEF FrameOf
  <2> HIDE DEF h, p, b, m
  <2>8. (h \o p) \o b = h \o (p \o b) /\ t \in Seq(Byte)
    BY <2>3, <2>4, ConcatAssociative, ConcatProperties
  <2> HIDE DEF t
  <2>9. bytes = h \o t /\ Streams(d, s, n, t, BodyOf(d, m))
    BY <1>1, <2>5, <2>6, <2>7, <2>8 DEF Streams, t
  <2> QED BY <2>8, <2>9 DEF h, m
<1> QED BY <1>3, <1>4

\* A receiver that reads a body has the next message's before it.
LEMMA StreamsBody ==
    ASSUME NEW d \in Directions, NEW s \in Seq(Writable(d)), NEW n \in 0 .. Len(s),
           NEW bytes, NEW r, r.at # "header", Streams(d, s, n, bytes, r)
    PROVE  /\ n < Len(s) /\ r = BodyOf(d, s[n + 1])
           /\ \E t \in Seq(Byte) :
                 /\ bytes = PayloadBytes(d, s[n + 1]) \o t
                 /\ Streams(d, s, n + 1, t, ReadingHeader)
<1>1. PICK left : IsLeft(left, d, s) /\ Unread(left, d, s, n, bytes, r)
  BY DEF Streams
<1>2. /\ n < Len(s) /\ r = BodyOf(d, s[n + 1])
      /\ bytes = PayloadBytes(d, s[n + 1]) \o left[n + 1]
  <2>1. ReadingHeader.at = "header"
    BY DEF ReadingHeader
  <2> QED BY <1>1, <2>1 DEF Unread
<1>3. Unread(left, d, s, n + 1, left[n + 1], ReadingHeader)
  BY DEF Unread
<1>4. left[n + 1] \in Seq(Byte)
  <2>1. n + 1 \in 0 .. Len(s)
    BY <1>2, LenProperties
  <2> QED BY <1>1, <2>1 DEF IsLeft
<1>5. Streams(d, s, n + 1, left[n + 1], ReadingHeader)
  BY <1>1, <1>3 DEF Streams
<1> QED BY <1>2, <1>4, <1>5

-----------------------------------------------------------------------------
(* Theorems about the specification.                                       *)

FramingInv ==
    /\ direction \in Directions
    /\ sent \in Seq(Writable(direction))
    /\ wire \in Seq(Byte) /\ arrived \in Seq(Byte)
    /\ Len(received) \in 0 .. Len(sent)
    /\ received = SubSeq(sent, 1, Len(received))
    /\ Streams(direction, sent, Len(received), arrived \o wire, reading)

LEMMA SequenceIsSeq ==
    ASSUME NEW S, NEW s \in Seq(S)
    PROVE  IsSeq(s)
  BY DEF IsSeq

LEMMA InitFraming == Init => FramingInv
<1> SUFFICES ASSUME Init PROVE FramingInv
  OBVIOUS
<1>1. /\ direction \in Directions /\ sent = <<>> /\ received = <<>>
      /\ wire = <<>> /\ arrived = <<>> /\ reading = ReadingHeader
  BY DEF Init
<1>2. Len(received) = 0 /\ Len(sent) = 0 /\ SubSeq(<<>>, 1, 0) = <<>>
  BY <1>1, SubSeqEmpty
<1>3. arrived \o wire = <<>>
  <2>1. <<>> \in Seq(Byte)
    OBVIOUS
  <2> QED BY <1>1, <2>1, ConcatEmptySeq
<1>4. Streams(direction, sent, Len(received), arrived \o wire, reading)
  BY <1>1, <1>2, <1>3, StreamsStart
<1> QED BY <1>1, <1>2, <1>4 DEF FramingInv

LEMMA SendFraming ==
    ASSUME FramingInv, NEW m \in Messages[direction], tcp_send_message(m)
    PROVE  FramingInv' /\ (UNCHANGED sent \/ sent' = Append(sent, m)) /\ UNCHANGED received
<1> DEFINE type == Variant[direction][m.which + 1]
           header == <<m.which, Size(type, m.value)>>
<1>1. /\ direction \in Directions /\ sent \in Seq(Writable(direction))
      /\ wire \in Seq(Byte) /\ arrived \in Seq(Byte)
      /\ Len(received) \in 0 .. Len(sent) /\ received = SubSeq(sent, 1, Len(received))
      /\ Streams(direction, sent, Len(received), arrived \o wire, reading)
  BY DEF FramingInv
<1>2. type = TypeOf(direction, m) /\ header = HeaderOf(direction, m)
  BY DEF TypeOf, HeaderOf
<1>3. UNCHANGED <<direction, arrived, reading, received>>
  BY DEF tcp_send_message
<1>4. CASE WriteThrows(Header, header) \/ WriteThrows(type, m.value)
  <2>1. UNCHANGED <<sent, wire>>
    BY <1>4 DEF tcp_send_message
  <2> QED BY <1>1, <1>3, <2>1 DEF FramingInv
<1>5. CASE ~(WriteThrows(Header, header) \/ WriteThrows(type, m.value))
  <2> DEFINE f == FrameOf(direction, m)
  <2>1. /\ wire' = wire \o Buffer(ConstSize(Header) + Size(type, m.value),
                                  Write(Header, header) \o Write(type, m.value))
        /\ sent' = Append(sent, m)
    BY <1>5 DEF tcp_send_message
  <2>2. m \in Writable(direction)
    BY <1>2, <1>5 DEF Writable
  <2>3. f \in Seq(Byte) /\ Len(f) = ConstSize(Header) + Size(type, m.value)
    BY <1>1, <1>2, MessageType
  <2>4. Write(Header, header) \o Write(type, m.value) = f
    BY <1>2 DEF FrameOf, HeaderBytes, PayloadBytes
  <2> HIDE DEF f, header, type
  <2>5. wire' = wire \o f
    BY <2>1, <2>3, <2>4, BufferFull
  <2>6. wire' \in Seq(Byte) /\ arrived \o (wire \o f) = (arrived \o wire) \o f
    <3>1. wire \o f \in Seq(Byte)
      BY <1>1, <2>3, ConcatProperties
    <3>2. (arrived \o wire) \o f = arrived \o (wire \o f)
      BY <1>1, <2>3, ConcatAssociative
    <3> QED BY <2>5, <3>1, <3>2
  <2>7. Streams(direction, Append(sent, m), Len(received), (arrived \o wire) \o f, reading)
    BY <1>1, <2>2, StreamsSend DEF f
  <2>8. /\ Append(sent, m) \in Seq(Writable(direction))
        /\ Len(Append(sent, m)) = Len(sent) + 1
    BY <1>1, <2>2, AppendProperties
  <2>9. SubSeq(Append(sent, m), 1, Len(received)) = SubSeq(sent, 1, Len(received))
    <3> DEFINE n == Len(received)
               s == sent
    <3>1. n \in 0 .. Len(s) /\ s \in Seq(Writable(direction)) /\ Len(s) \in Nat
      BY <1>1, LenProperties
    <3>2. \A i \in 1 .. Len(s) : Append(s, m)[i] = s[i] /\ s[i] \in Writable(direction)
      BY <2>2, <3>1, AppendProperties, ElementOfSeq
    <3> HIDE DEF n, s
    <3>3. /\ SubSeq(s, 1, n) \in Seq(Writable(direction)) /\ Len(SubSeq(s, 1, n)) = n
          /\ \A i \in 1 .. n : SubSeq(s, 1, n)[i] = s[i]
      BY <3>1, <3>2
    <3>4. /\ SubSeq(Append(s, m), 1, n) \in Seq(Writable(direction))
          /\ Len(SubSeq(Append(s, m), 1, n)) = n
          /\ \A i \in 1 .. n : SubSeq(Append(s, m), 1, n)[i] = Append(s, m)[i]
      BY <3>1, <3>2
    <3>5. \A i \in 1 .. n : SubSeq(Append(s, m), 1, n)[i] = SubSeq(s, 1, n)[i]
      BY <3>1, <3>2, <3>3, <3>4
    <3> QED BY <3>3, <3>4, <3>5, SeqEqual DEF n, s
  <2>10. Len(received) \in 0 .. Len(sent) + 1
    BY <1>1, LenProperties
  <2>11. Streams(direction, sent, Len(received), arrived \o wire, reading)'
    BY <1>3, <2>1, <2>5, <2>6, <2>7
  <2> QED BY <1>1, <1>3, <2>1, <2>6, <2>8, <2>9, <2>10, <2>11 DEF FramingInv
<1> QED BY <1>3, <1>4, <1>5 DEF tcp_send_message

LEMMA ArriveFraming ==
    ASSUME FramingInv, NEW n \in 1 .. Len(wire), Arrive(n)
    PROVE  FramingInv'
<1>1. wire \in Seq(Byte) /\ arrived \in Seq(Byte) /\ Len(wire) \in Nat
  BY LenProperties DEF FramingInv
<1> DEFINE p == SubSeq(wire, 1, n)
           q == SubSeq(wire, n + 1, Len(wire))
<1>2. \A i \in 1 .. Len(wire) : wire[i] \in Byte
  BY <1>1, ElementOfSeq
<1>3. p \in Seq(Byte) /\ q \in Seq(Byte)
  BY <1>1, <1>2
<1>4. p \o q = wire
  <2>1. SubSeq(wire, 1, n) \o SubSeq(wire, n + 1, Len(wire)) = SubSeq(wire, 1, Len(wire))
    BY <1>1, ConcatAdjacentSubSeq, 1 \in 1 .. Len(wire) + 1,
       n \in 1 - 1 .. Len(wire), Len(wire) \in n .. Len(wire)
  <2> QED BY <1>1, <2>1, SubSeqFull
<1> HIDE DEF p, q
<1>5. /\ arrived' = arrived \o p /\ wire' = q
      /\ UNCHANGED <<direction, sent, sender, reading, received>>
  BY DEF Arrive, p, q
<1>6. arrived \o p \in Seq(Byte) /\ (arrived \o p) \o q = arrived \o (p \o q)
  <2>1. arrived \o p \in Seq(Byte)
    BY <1>1, <1>3, ConcatProperties
  <2>2. (arrived \o p) \o q = arrived \o (p \o q)
    <3>1. arrived \in Seq(Byte)
      BY <1>1
    <3> QED BY <1>3, <3>1, ConcatAssociative
  <2> QED BY <2>1, <2>2
<1>7. arrived' \o wire' = arrived \o wire
  BY <1>4, <1>5, <1>6
<1>8. Streams(direction, sent, Len(received), arrived \o wire, reading)'
  BY <1>5, <1>7 DEF FramingInv
<1> QED BY <1>3, <1>5, <1>6, <1>8 DEF FramingInv

\* Reading a struct back that nothing follows.
LEMMA ReadBack ==
    ASSUME NEW type, IsStruct(type), NEW v, IsValue(type, v), ~WriteThrows(type, v)
    PROVE  Read(type, Write(type, v)).value = v /\ Read(type, Write(type, v)).error = "none"
<1> DEFINE empty == <<>>
<1>1. Write(type, v) \in Seq(Byte) /\ empty \in Seq(Byte)
  BY SizeIsExact
<1>2. Write(type, v) \o empty = Write(type, v)
  BY <1>1, ConcatEmptySeq
<1> HIDE DEF empty
<1>3. Read(type, Write(type, v) \o empty) = [value |-> v, rest |-> empty, error |-> "none"]
  BY <1>1, RoundTrip
<1> QED BY <1>2, <1>3

LEMMA HeaderFraming ==
    ASSUME FramingInv, tcp_read_message
    PROVE  FramingInv'
<1> DEFINE n == Len(received)
           m == sent[n + 1]
           h == HeaderBytes(direction, m)
           stream == arrived \o wire
           front == SubSeq(arrived, 1, ConstSize(Header))
<1>1. /\ direction \in Directions /\ sent \in Seq(Writable(direction))
      /\ wire \in Seq(Byte) /\ arrived \in Seq(Byte)
      /\ n \in 0 .. Len(sent) /\ received = SubSeq(sent, 1, n)
      /\ Streams(direction, sent, n, stream, reading)
  BY DEF FramingInv
<1>2. /\ reading.at = "header" /\ Len(arrived) >= ConstSize(Header)
      /\ arrived' = SubSeq(arrived, ConstSize(Header) + 1, Len(arrived))
      /\ reading' = [at |-> "body", opcode |-> Read(Header, front).value[1],
                     payload_size |-> Read(Header, front).value[2]]
      /\ UNCHANGED <<direction, sent, sender, wire, received>>
  BY DEF tcp_read_message, HasRead
<1>3. reading = ReadingHeader
  <2>1. PICK left : Unread(left, direction, sent, n, stream, reading)
    BY <1>1 DEF Streams
  <2>2. reading # BodyOf(direction, sent[n + 1])
    BY <1>2 DEF BodyOf
  <2> HIDE DEF n, stream
  <2> QED BY <2>1, <2>2 DEF Unread
<1>4. Len(stream) = Len(arrived) + Len(wire) /\ Len(arrived) \in Nat /\ Len(wire) \in Nat
  BY <1>1, ConcatProperties, LenProperties
<1>5. n < Len(sent) /\ n + 1 \in 1 .. Len(sent) /\ Len(sent) \in Nat
  <2>1. Len(stream) > 0
    BY <1>2, <1>4, HeaderType
  <2>2. Len(<<>>) = 0
    OBVIOUS
  <2>3. n = Len(sent) => stream = <<>>
    <3> HIDE DEF n, stream
    <3> QED BY <1>1, <1>3, StreamsHeader
  <2> QED BY <1>1, <2>1, <2>2, <2>3, LenProperties
<1>6. m \in Messages[direction] /\ m \in Writable(direction)
  BY <1>1, <1>5, WritableType
<1> HIDE DEF n, stream
<1>7. PICK t \in Seq(Byte) : /\ stream = h \o t
                             /\ Streams(direction, sent, n, t, BodyOf(direction, m))
  BY <1>1, <1>3, <1>5, StreamsHeader
<1> HIDE DEF m
<1>8. /\ h \in Seq(Byte) /\ Len(h) = ConstSize(Header)
      /\ IsValue(Header, HeaderOf(direction, m))
  BY <1>1, <1>6, MessageType
<1>9. ~WriteThrows(Header, HeaderOf(direction, m))
  BY <1>6 DEF Writable
<1>10. Read(Header, h).value = HeaderOf(direction, m)
  BY <1>8, <1>9, HeaderType, ReadBack DEF HeaderBytes
<1> HIDE DEF h
<1>11. front = h /\ arrived' \in Seq(Byte) /\ arrived' \o wire = t
  <2>1. arrived \o wire = h \o t
    BY <1>7 DEF stream
  <2>2. Takes(Byte, arrived, wire, h, t)
    <3>1. /\ arrived \in Seq(Byte) /\ wire \in Seq(Byte) /\ h \in Seq(Byte)
          /\ t \in Seq(Byte) /\ Len(arrived) >= Len(h)
      BY <1>1, <1>2, <1>7, <1>8
    <3> QED BY <2>1, <3>1, TakeFront
  <2> QED BY <1>2, <1>8, <2>2 DEF Takes
<1> HIDE DEF front
<1>12. reading' = BodyOf(direction, m)
  <2>1. /\ HeaderOf(direction, m)[1] = m.which
        /\ HeaderOf(direction, m)[2] = Size(TypeOf(direction, m), m.value)
    BY DEF HeaderOf
  <2> QED BY <1>2, <1>10, <1>11, <2>1 DEF BodyOf
<1>13. Streams(direction, sent, Len(received), arrived \o wire, reading)'
  BY <1>2, <1>7, <1>11, <1>12 DEF n
<1> QED BY <1>1, <1>2, <1>11, <1>13 DEF FramingInv, n

LEMMA BodyFraming ==
    ASSUME FramingInv, tcp_read_message_body
    PROVE  /\ FramingInv' /\ Len(received) < Len(sent) /\ UNCHANGED sent
           /\ received' = Append(received, sent[Len(received) + 1])
<1> DEFINE n == Len(received)
           m == sent[n + 1]
           type == TypeOf(direction, m)
           p == PayloadBytes(direction, m)
           stream == arrived \o wire
           front == SubSeq(arrived, 1, reading.payload_size)
           body == Read(Variant[direction][reading.opcode + 1], front)
<1>1. /\ direction \in Directions /\ sent \in Seq(Writable(direction))
      /\ wire \in Seq(Byte) /\ arrived \in Seq(Byte)
      /\ n \in 0 .. Len(sent) /\ received = SubSeq(sent, 1, n)
      /\ Streams(direction, sent, n, stream, reading)
  BY DEF FramingInv
<1>2. /\ reading.at = "body" /\ Len(arrived) >= reading.payload_size
      /\ arrived' = SubSeq(arrived, reading.payload_size + 1, Len(arrived))
      /\ UNCHANGED <<direction, sent, sender, wire>>
  BY DEF tcp_read_message_body, HasRead
<1>3. IsType(reading.opcode) /\ body.error = "none" =>
          /\ received' = Append(received, [which |-> reading.opcode, value |-> body.value])
          /\ reading' = ReadingHeader
  BY DEF tcp_read_message_body
<1> HIDE DEF n, stream, body, front, m
<1>4. /\ n < Len(sent) /\ reading = BodyOf(direction, m)
      /\ \E t \in Seq(Byte) : /\ stream = PayloadBytes(direction, m) \o t
                              /\ Streams(direction, sent, n + 1, t, ReadingHeader)
  <2>1. reading.at # "header"
    BY <1>2
  <2> QED BY <1>1, <2>1, StreamsBody DEF m
<1>5. PICK t \in Seq(Byte) : /\ stream = p \o t
                             /\ Streams(direction, sent, n + 1, t, ReadingHeader)
  BY <1>4
<1>6. n + 1 \in 1 .. Len(sent) /\ Len(sent) \in Nat
  BY <1>1, <1>4, LenProperties
<1>7. m \in Messages[direction] /\ m \in Writable(direction)
  BY <1>1, <1>6, WritableType DEF m
<1>8. /\ m = [which |-> m.which, value |-> m.value] /\ m.which < Len(Variant[direction])
      /\ IsStruct(type) /\ IsValue(type, m.value)
      /\ p \in Seq(Byte) /\ Len(p) = Size(type, m.value)
  BY <1>1, <1>7, MessageType
<1>9. ~WriteThrows(type, m.value)
  BY <1>7 DEF Writable
<1>10. Read(type, p).value = m.value /\ Read(type, p).error = "none"
  BY <1>8, <1>9, ReadBack DEF PayloadBytes
<1>11. /\ reading.opcode = m.which /\ reading.payload_size = Size(type, m.value)
       /\ Variant[direction][reading.opcode + 1] = type
  BY <1>4 DEF BodyOf, TypeOf
<1> HIDE DEF p, type
<1>12. front = p /\ arrived' \in Seq(Byte) /\ arrived' \o wire = t
  <2>1. arrived \o wire = p \o t
    BY <1>5 DEF stream
  <2>2. Takes(Byte, arrived, wire, p, t)
    <3>1. /\ arrived \in Seq(Byte) /\ wire \in Seq(Byte) /\ p \in Seq(Byte)
          /\ t \in Seq(Byte) /\ Len(arrived) >= Len(p)
      BY <1>1, <1>2, <1>5, <1>8, <1>11
    <3> QED BY <2>1, <3>1, TakeFront
  <2> QED BY <1>2, <1>8, <1>11, <2>2 DEF front, Takes
<1>13. body.value = m.value /\ body.error = "none"
  BY <1>10, <1>11, <1>12 DEF body
<1>14. IsType(reading.opcode)
  BY <1>8, <1>11 DEF IsType
<1>15. received' = Append(received, m) /\ reading' = ReadingHeader
  BY <1>3, <1>8, <1>11, <1>13, <1>14
<1>16. IsSeq(sent)
  BY <1>1, SequenceIsSeq
<1>17. received' = SubSeq(sent, 1, n + 1)
  <2>1. SubSeq(sent, 1, n + 1) = Append(SubSeq(sent, 1, (n + 1) - 1), sent[n + 1])
    BY <1>6, <1>16, PrefixStep
  <2>2. (n + 1) - 1 = n
    BY <1>1
  <2> QED BY <1>1, <1>15, <2>1, <2>2 DEF m
<1>18. Len(received') = n + 1
  <2>1. \A i \in 1 .. n + 1 : sent[i] \in Writable(direction)
    BY <1>1, <1>6, ElementOfSeq
  <2> QED BY <1>1, <1>6, <1>17, <2>1
<1>19. Streams(direction, sent, Len(received), arrived \o wire, reading)'
  BY <1>2, <1>5, <1>12, <1>15, <1>18
<1>20. FramingInv'
  BY <1>1, <1>2, <1>6, <1>12, <1>17, <1>18, <1>19 DEF FramingInv
<1> QED BY <1>2, <1>4, <1>15, <1>20 DEF n, m

LEMMA StepFraming == FramingInv /\ [Next]_vars => FramingInv'
<1> SUFFICES ASSUME FramingInv, [Next]_vars PROVE FramingInv'
  OBVIOUS
<1>1. CASE \E m \in Messages[direction] : tcp_send_message(m)
  BY <1>1, SendFraming
<1>2. CASE \E n \in 1 .. Len(wire) : Arrive(n)
  BY <1>2, ArriveFraming
<1>3. CASE tcp_read_message
  BY <1>3, HeaderFraming
<1>4. CASE tcp_read_message_body
  BY <1>4, BodyFraming
<1>5. CASE UNCHANGED vars
  <2>1. UNCHANGED <<direction, sent, sender, wire, arrived, reading, received>>
    BY <1>5 DEF vars
  <2> QED BY <2>1 DEF FramingInv
<1> QED BY <1>1, <1>2, <1>3, <1>4, <1>5 DEF Next

\* The bytes that have arrived or are under way are always exactly what the
\* receiver needs to get the messages that it has not: no message is torn,
\* moved or run into the next one, whatever the pieces that async_read gets.
THEOREM FramingSound == Spec => []FramingInv
  BY InitFraming, StepFraming, PTL DEF Spec

LEMMA NotStuck == FramingInv => NoneIsStuck
<1> DEFINE n == Len(received)
           stream == arrived \o wire
<1> SUFFICES ASSUME FramingInv, wire = <<>>, Waits, n # Len(sent) PROVE FALSE
  BY DEF NoneIsStuck
<1>1. /\ direction \in Directions /\ sent \in Seq(Writable(direction)) /\ arrived \in Seq(Byte)
      /\ n \in 0 .. Len(sent) /\ Streams(direction, sent, n, stream, reading)
  BY DEF FramingInv
<1>2. n < Len(sent) /\ n + 1 \in 1 .. Len(sent) /\ Len(sent) \in Nat
  BY <1>1, LenProperties
<1>3. stream = arrived /\ Len(arrived) \in Nat
  BY <1>1, ConcatEmptySeq, LenProperties
<1> DEFINE m == sent[n + 1]
<1> HIDE DEF n, stream, m
<1>4. m \in Messages[direction]
  BY <1>1, <1>2, WritableType DEF m
<1>5. CASE reading.at = "header"
  <2>1. reading = ReadingHeader
    <3>1. PICK left : Unread(left, direction, sent, n, stream, reading)
      BY <1>1 DEF Streams
    <3>2. reading # BodyOf(direction, sent[n + 1])
      BY <1>5 DEF BodyOf
    <3> QED BY <3>1, <3>2 DEF Unread
  <2>2. PICK t \in Seq(Byte) : stream = HeaderBytes(direction, m) \o t
    BY <1>1, <1>2, <2>1, StreamsHeader DEF m
  <2>3. /\ HeaderBytes(direction, m) \in Seq(Byte)
        /\ Len(HeaderBytes(direction, m)) = ConstSize(Header)
    BY <1>1, <1>4, MessageType
  <2>4. Len(stream) = Len(HeaderBytes(direction, m)) + Len(t) /\ Len(t) \in Nat
    BY <2>2, <2>3, ConcatProperties, LenProperties
  <2> QED BY <1>3, <1>5, <2>3, <2>4, HeaderType DEF Waits
<1>6. CASE reading.at # "header"
  <2>1. /\ reading = BodyOf(direction, m)
        /\ \E t \in Seq(Byte) : /\ stream = PayloadBytes(direction, m) \o t
                                /\ Streams(direction, sent, n + 1, t, ReadingHeader)
    <3>1. /\ n < Len(sent) /\ reading = BodyOf(direction, sent[n + 1])
          /\ \E t \in Seq(Byte) : /\ stream = PayloadBytes(direction, sent[n + 1]) \o t
                                  /\ Streams(direction, sent, n + 1, t, ReadingHeader)
      BY <1>1, <1>6, StreamsBody
    <3> QED BY <3>1 DEF m
  <2>2. PICK t \in Seq(Byte) : stream = PayloadBytes(direction, m) \o t
    BY <2>1
  <2>3. /\ PayloadBytes(direction, m) \in Seq(Byte)
        /\ Len(PayloadBytes(direction, m)) = Size(TypeOf(direction, m), m.value)
    BY <1>1, <1>4, MessageType
  <2>4. Len(stream) = Len(PayloadBytes(direction, m)) + Len(t) /\ Len(t) \in Nat
        /\ Len(PayloadBytes(direction, m)) \in Nat
    BY <2>2, <2>3, ConcatProperties, LenProperties
  <2>5. reading.at = "body" /\ reading.payload_size = Size(TypeOf(direction, m), m.value)
    BY <2>1 DEF BodyOf
  <2> QED BY <1>3, <2>3, <2>4, <2>5 DEF Waits
<1> QED BY <1>5, <1>6

\* Of tcp_read_message: once all bytes of what was sent are there, no reader
\* waits for more of them, and none has thrown on what a writer accepted.
THEOREM NoReaderIsStuck == Spec => []NoneIsStuck
<1>1. FramingInv => NoneIsStuck
  BY NotStuck
<1> QED BY <1>1, FramingSound, PTL

\* What is left of a sequence behind its first n elements, when one is appended.
LEMMA RestAppended ==
    ASSUME NEW S, NEW s \in Seq(S), NEW e \in S, NEW n \in 0 .. Len(s)
    PROVE  SubSeq(Append(s, e), n + 1, Len(Append(s, e))) = Append(SubSeq(s, n + 1, Len(s)), e)
<1> DEFINE k == Len(s)
           s2 == Append(s, e)
           a == SubSeq(s, n + 1, k)
           b == SubSeq(s2, n + 1, k + 1)
<1>1. /\ k \in Nat /\ s2 \in Seq(S) /\ Len(s2) = k + 1 /\ s2[k + 1] = e
      /\ \A i \in 1 .. k : s2[i] = s[i]
  BY AppendProperties
<1>2. (\A i \in 1 .. k : s[i] \in S) /\ \A i \in 1 .. k + 1 : s2[i] \in S
  BY <1>1, ElementOfSeq
<1> HIDE DEF s2, k
<1>3. /\ a \in Seq(S) /\ Len(a) = k - n /\ \A i \in 1 .. k - n : a[i] = s[n + i]
  BY <1>1, <1>2 DEF k
<1>4. /\ b \in Seq(S) /\ Len(b) = k + 1 - n /\ \A i \in 1 .. k + 1 - n : b[i] = s2[n + i]
  BY <1>1, <1>2 DEF k
<1> HIDE DEF a, b
<1>5. /\ Append(a, e) \in Seq(S) /\ Len(Append(a, e)) = k + 1 - n
      /\ \A i \in 1 .. k - n : Append(a, e)[i] = a[i]
      /\ Append(a, e)[k - n + 1] = e
  BY <1>1, <1>3, AppendProperties DEF k
<1>6. ASSUME NEW i \in 1 .. k + 1 - n PROVE b[i] = Append(a, e)[i]
  <2>1. CASE i = k + 1 - n
    BY <1>1, <1>4, <1>5, <2>1 DEF k
  <2>2. CASE i # k + 1 - n
    <3>1. i \in 1 .. k - n /\ n + i \in 1 .. k
      BY <1>1, <2>2 DEF k
    <3> QED BY <1>1, <1>3, <1>4, <1>5, <3>1
  <2> QED BY <2>1, <2>2
<1>7. b = Append(a, e)
  BY <1>1, <1>4, <1>5, <1>6, SeqEqual
<1> QED BY <1>1, <1>7 DEF a, b, k, s2

LEMMA RestTaken ==
    ASSUME NEW S, NEW s \in Seq(S), NEW n \in 0 .. Len(s), n < Len(s)
    PROVE  /\ SubSeq(s, n + 1, Len(s)) # <<>>
           /\ Head(SubSeq(s, n + 1, Len(s))) = s[n + 1]
           /\ Tail(SubSeq(s, n + 1, Len(s))) = SubSeq(s, (n + 1) + 1, Len(s))
<1>1. Len(s) \in Nat /\ n + 1 \in 1 .. Len(s) /\ Len(s) \in n + 1 .. Len(s)
  BY LenProperties
<1>2. /\ Head(SubSeq(s, n + 1, Len(s))) = s[n + 1]
      /\ Tail(SubSeq(s, n + 1, Len(s))) = SubSeq(s, (n + 1) + 1, Len(s))
  BY <1>1, HeadTailOfSubSeq
<1>3. \A i \in n + 1 .. Len(s) : s[i] \in S
  BY <1>1, ElementOfSeq
<1>4. Len(SubSeq(s, n + 1, Len(s))) = Len(s) - n
  BY <1>1, <1>3
<1>5. ASSUME SubSeq(s, n + 1, Len(s)) = <<>> PROVE FALSE
  <2>1. Len(<<>>) = 0
    OBVIOUS
  <2>2. Len(s) - n = 0
    BY <1>4, <1>5, <2>1
  <2> QED BY <1>1, <2>2
<1> QED BY <1>2, <1>5

LEMMA ChannelStep ==
    FramingInv /\ [Next]_vars => [Channel!Next]_(Channel!vars)
<1> SUFFICES ASSUME FramingInv, [Next]_vars PROVE [Channel!Next]_(Channel!vars)
  OBVIOUS
<1> DEFINE n == Len(received)
           queue == SubSeq(sent, n + 1, Len(sent))
<1>1. /\ direction \in Directions /\ sent \in Seq(Writable(direction)) /\ n \in 0 .. Len(sent)
  BY DEF FramingInv
<1>2. ASSUME UNCHANGED <<sent, received>> PROVE [Channel!Next]_(Channel!vars)
  BY <1>2 DEF Channel!vars
<1>3. CASE \E m \in Messages[direction] : tcp_send_message(m)
  <2>1. PICK m \in Messages[direction] : tcp_send_message(m)
    BY <1>3
  <2>2. FramingInv' /\ (UNCHANGED sent \/ sent' = Append(sent, m)) /\ UNCHANGED received
    BY <2>1, SendFraming
  <2>3. CASE UNCHANGED sent
    BY <1>2, <2>2, <2>3
  <2>4. CASE ~UNCHANGED sent
    <3>1. sent' = Append(sent, m) /\ received' = received /\ UNCHANGED direction
      BY <2>1, <2>2, <2>4 DEF tcp_send_message
    <3>2. m \in Writable(direction)
      <4>1. ~(WriteThrows(Header, HeaderOf(direction, m)) \/ WriteThrows(TypeOf(direction, m), m.value))
        BY <2>1, <2>4 DEF tcp_send_message, HeaderOf, TypeOf
      <4> QED BY <4>1 DEF Writable
    <3>3. SubSeq(Append(sent, m), n + 1, Len(Append(sent, m))) = Append(queue, m)
      BY <1>1, <3>2, RestAppended
    <3>4. SubSeq(sent, Len(received) + 1, Len(sent))' = Append(queue, m)
      BY <3>1, <3>3
    <3>5. m \in UNION {Messages[d] : d \in Directions}
      BY <1>1
    <3>6. Channel!Send(m)
      BY <3>1, <3>4 DEF Channel!Send
    <3> QED BY <3>5, <3>6 DEF Channel!Next
  <2> QED BY <2>3, <2>4
<1>4. CASE \E k \in 1 .. Len(wire) : Arrive(k)
  BY <1>2, <1>4 DEF Arrive
<1>5. CASE tcp_read_message
  BY <1>2, <1>5 DEF tcp_read_message
<1>6. CASE tcp_read_message_body
  <2>1. /\ FramingInv' /\ n < Len(sent) /\ sent' = sent
        /\ received' = Append(received, sent[n + 1])
    BY <1>6, BodyFraming
  <2>2. /\ queue # <<>> /\ Head(queue) = sent[n + 1]
        /\ Tail(queue) = SubSeq(sent, (n + 1) + 1, Len(sent))
    BY <1>1, <2>1, RestTaken
  <2>3. received \in Seq(Writable(direction))
    <3>1. received = SubSeq(sent, 1, n)
      BY DEF FramingInv
    <3>2. \A i \in 1 .. n : sent[i] \in Writable(direction)
      BY <1>1, ElementOfSeq, LenProperties
    <3> QED BY <1>1, <3>1, <3>2
  <2>4. sent[n + 1] \in Writable(direction)
    <3>1. n + 1 \in 1 .. Len(sent)
      BY <1>1, <2>1, LenProperties
    <3> QED BY <1>1, <3>1, ElementOfSeq
  <2>5. Len(received') = n + 1
    BY <2>1, <2>3, <2>4, AppendProperties
  <2>6. SubSeq(sent, Len(received) + 1, Len(sent))' = Tail(queue)
    BY <2>1, <2>2, <2>5
  <2>7. Channel!Receive
    BY <2>1, <2>2, <2>6 DEF Channel!Receive
  <2> QED BY <2>7 DEF Channel!Next
<1>7. CASE UNCHANGED vars
  BY <1>2, <1>7 DEF vars
<1> QED BY <1>3, <1>4, <1>5, <1>6, <1>7 DEF Next

LEMMA ChannelInit == Init => Channel!Init
<1> SUFFICES ASSUME Init PROVE Channel!Init
  OBVIOUS
<1>1. sent = <<>> /\ received = <<>>
  BY DEF Init
<1>2. Len(<<>>) = 0 /\ SubSeq(<<>>, 1, 0) = <<>>
  BY SubSeqEmpty
<1> QED BY <1>1, <1>2 DEF Channel!Init

\* A TCP connection with headers, sizes and bytes is a channel of messages: the
\* handler gets the messages sent, value for value, each once and in order.
THEOREM Refines == Spec => ImplementsMessageChannel
<1>1. Init => Channel!Init
  BY ChannelInit
<1>2. FramingInv /\ [Next]_vars => [Channel!Next]_(Channel!vars)
  BY ChannelStep
<1> QED BY <1>1, <1>2, FramingSound, PTL DEF Spec, ImplementsMessageChannel, Channel!Spec

=============================================================================
