----------------------------- MODULE Serialize -----------------------------
(***************************************************************************)
(* The serializers of common_src/serialize.hpp, serialize_impl.hpp and     *)
(* endian.hpp for what messages are made of: integers that are cast to     *)
(* another width on the wire, zero-terminated strings, and lists.          *)
(*                                                                         *)
(* A struct is the sequence of its members; a struct or an array inside it *)
(* is read and written member by member in its place, and is not marked in *)
(* the bytes.  A byte has Base values, 256 in the program; TLC takes fewer, *)
(* so that a width of several bytes stays small.  Loops are recursive      *)
(* functions on the numbers of their rounds.                               *)
(***************************************************************************)
EXTENDS Integers, SequencesExt

CONSTANT Base   \* number of values of a byte

ASSUME BaseAssumption == Base \in Nat \ {0, 1}

-----------------------------------------------------------------------------
(* Integer types of C++.                                                   *)

\* The number of values of n bytes.
Power(n) ==
    LET power[i \in 0 .. n] == IF i = 0 THEN 1 ELSE Base * power[i - 1]
    IN  power[n]

Byte == 0 .. Base - 1

Unsigned(n) == [bytes |-> n, lo |-> 0, hi |-> Power(n) - 1]
Signed(n) == [bytes |-> n, lo |-> -(Power(n) \div 2), hi |-> Power(n) \div 2 - 1]

U8 == Unsigned(1)
U16 == Unsigned(2)
U32 == Unsigned(4)
U64 == Unsigned(8)
I32 == Signed(4)

\* Conversion to type t.
As(t, x) ==
    LET r == x % Power(t.bytes)
    IN  IF r > t.hi THEN r - Power(t.bytes) ELSE r

\* Integral promotion: what is narrower than an int becomes one.
Promoted(t) == IF t.bytes < 4 THEN I32 ELSE t

\* std::common_type of two integer types: of a signed and an unsigned one the
\* signed one only if it is wider.
CommonType(t, u) ==
    LET a == Promoted(t)
        b == Promoted(u)
    IN  IF a.bytes > b.bytes \/ (a.bytes = b.bytes /\ a.lo = 0) THEN a ELSE b

-----------------------------------------------------------------------------
(* Members of a struct.                                                    *)

\* An integer of type underlying that is written as one of type cast.
Integer(underlying, cast) == [kind |-> "int", underlying |-> underlying, cast |-> cast]
String == [kind |-> "string"]
\* A list of structs of integers, with its size written as one of type cast.
List(cast, elements) == [kind |-> "list", cast |-> cast, elements |-> elements]

SizeOf(cast) == Integer(U64, cast)

\* Faulty variant: only the lower limit is tested.
OverflowsBelow(m, x, target) ==
    LET common == CommonType(m.underlying, m.cast)
    IN  As(common, x) < As(common, target.lo)

\* The tests against overflow of int_serialize: x against the limits of type
\* target, all three converted to the common type.
Overflows(m, x, target) ==
    LET common == CommonType(m.underlying, m.cast)
    IN  \/ As(common, x) < As(common, target.lo)
        \/ As(common, x) > As(common, target.hi)

-----------------------------------------------------------------------------
(* Writing.                                                                *)

\* The n lowest bytes of x, the lowest one first.
to_little_endian(n, x) ==
    [i \in 1 .. n |-> ((x % Power(n)) \div Power(i - 1)) % Base]

WriteInts(members, v) ==
    FlattenSeq([i \in DOMAIN members |-> to_little_endian(members[i].cast.bytes, v[i])])

WriteMember(m, x) ==
    CASE m.kind = "int" -> to_little_endian(m.cast.bytes, x)
      [] m.kind = "string" -> Append(x, 0)
      [] m.kind = "list" ->
            to_little_endian(m.cast.bytes, Len(x))
                \o FlattenSeq([i \in DOMAIN x |-> WriteInts(m.elements, x[i])])

\* The bytes of a struct.
Write(type, v) == FlattenSeq([i \in DOMAIN type |-> WriteMember(type[i], v[i])])

IntsOverflow(members, v) ==
    \E i \in DOMAIN members : Overflows(members[i], v[i], members[i].cast)

\* A member of v does not fit its type on the wire: write throws.
WriteThrows(type, v) ==
    \E i \in DOMAIN type :
        CASE type[i].kind = "int" -> Overflows(type[i], v[i], type[i].cast)
          [] type[i].kind = "string" -> FALSE
          [] type[i].kind = "list" ->
                \/ Overflows(SizeOf(type[i].cast), Len(v[i]), type[i].cast)
                \/ \E j \in DOMAIN v[i] : IntsOverflow(type[i].elements, v[i][j])

Sum(numbers) ==
    LET sum[i \in 0 .. Len(numbers)] == IF i = 0 THEN 0 ELSE sum[i - 1] + numbers[i]
    IN  sum[Len(numbers)]

ConstSize(members) == Sum([i \in DOMAIN members |-> members[i].cast.bytes])

\* Faulty variant: the byte that ends a string is not counted.
SizeWithoutEnd(type, v) ==
    Sum([i \in DOMAIN type |->
            CASE type[i].kind = "int" -> type[i].cast.bytes
              [] type[i].kind = "string" -> Len(v[i])
              [] type[i].kind = "list" ->
                    type[i].cast.bytes + Len(v[i]) * ConstSize(type[i].elements)])

\* size(): how long the buffer for v is made.
Size(type, v) ==
    Sum([i \in DOMAIN type |->
            CASE type[i].kind = "int" -> type[i].cast.bytes
              [] type[i].kind = "string" -> Len(v[i]) + 1
              [] type[i].kind = "list" ->
                    type[i].cast.bytes + Len(v[i]) * ConstSize(type[i].elements)])

-----------------------------------------------------------------------------
(* Reading.  A reading has what was read so far, the bytes that follow, and *)
(* the exception that ended it, or "none".                                  *)

ReadingOf(bytes) == [value |-> <<>>, rest |-> bytes, error |-> "none"]

from_little_endian(t, bytes) ==
    As(t, Sum([i \in 1 .. t.bytes |-> bytes[i] * Power(i - 1)]))

ReadInt(r, m) ==
    IF r.error # "none" THEN r
    ELSE IF Len(r.rest) < m.cast.bytes THEN [r EXCEPT !.error = "range"]
    ELSE LET c == from_little_endian(m.cast, r.rest)
         IN  IF Overflows(m, c, m.underlying)
             THEN [r EXCEPT !.error = "overflow"]
             ELSE [r EXCEPT !.value = Append(@, As(m.underlying, c)),
                            !.rest = SubSeq(@, m.cast.bytes + 1, Len(@))]

ReadInts(r, members) ==
    LET after[n \in 0 .. Len(members)] ==
            IF n = 0 THEN r ELSE ReadInt(after[n - 1], members[n])
    IN  after[Len(members)]

\* Without a zero the loop looks behind the end before it tests for it, and
\* what it does then is undefined.
ReadString(r) ==
    LET ends == {i \in DOMAIN r.rest : r.rest[i] = 0}
        end == CHOOSE i \in ends : \A j \in ends : i <= j
    IN  IF r.error # "none" THEN r
        ELSE IF ends = {} THEN [r EXCEPT !.error = "undefined"]
        ELSE [r EXCEPT !.value = Append(@, SubSeq(r.rest, 1, end - 1)),
                       !.rest = SubSeq(@, end + 1, Len(@))]

\* One element of a list, a struct of its own.
ReadElement(r, members) ==
    LET e == ReadInts([r EXCEPT !.value = <<>>], members)
    IN  [e EXCEPT !.value = Append(r.value, e.value)]

ReadList(r, m) ==
    LET size == ReadInt([r EXCEPT !.value = <<>>], SizeOf(m.cast))
        count == Head(size.value)
        after[n \in 0 .. count] ==
            IF n = 0 THEN [size EXCEPT !.value = <<>>]
                     ELSE ReadElement(after[n - 1], m.elements)
    IN  IF size.error # "none" THEN [r EXCEPT !.error = size.error]
        ELSE [after[count] EXCEPT !.value = Append(r.value, after[count].value)]

ReadMember(r, m) ==
    CASE m.kind = "int" -> ReadInt(r, m)
      [] m.kind = "string" -> ReadString(r)
      [] m.kind = "list" -> ReadList(r, m)

\* The struct at the beginning of bytes.
Read(type, bytes) ==
    LET after[n \in 0 .. Len(type)] ==
            IF n = 0 THEN ReadingOf(bytes) ELSE ReadMember(after[n - 1], type[n])
    IN  after[Len(type)]

-----------------------------------------------------------------------------
(* What the compiler makes sure of: the members that structs may have, and  *)
(* the values that they may have in the program.                           *)

IsSeq(s) == Len(s) \in Nat /\ s = [i \in 1 .. Len(s) |-> s[i]]

Widths == {1, 2, 4, 8}
IsUnsigned(t) == \E n \in Widths : t = Unsigned(n)
IsIntegerType(t) == IsUnsigned(t) \/ \E n \in Widths : t = Signed(n)

\* Every cast in a message is to a type whose values the own type has too.
\* Else a value may be written that reading it throws on.
IsInteger(m) ==
    /\ IsIntegerType(m.underlying) /\ IsIntegerType(m.cast)
    /\ m.underlying.lo <= m.cast.lo /\ m.cast.hi <= m.underlying.hi

IsInts(members) ==
    IsSeq(members) /\ \A i \in DOMAIN members : IsInteger(members[i])

IsMember(m) ==
    CASE m.kind = "int" -> IsInteger(m)
      [] m.kind = "string" -> TRUE
      [] m.kind = "list" -> IsUnsigned(m.cast) /\ IsInts(m.elements)
      [] OTHER -> FALSE

IsStruct(type) == IsSeq(type) /\ \A i \in DOMAIN type : IsMember(type[i])

IsInt(m, x) == x \in m.underlying.lo .. m.underlying.hi

AreInts(members, v) ==
    /\ IsSeq(v) /\ Len(v) = Len(members)
    /\ \A i \in DOMAIN members : IsInt(members[i], v[i])

\* No string has a zero, and no list more elements than a size_t counts.
IsMemberValue(m, x) ==
    CASE m.kind = "int" -> IsInt(m, x)
      [] m.kind = "string" -> x \in Seq(1 .. Base - 1)
      [] m.kind = "list" ->
            IsSeq(x) /\ Len(x) <= U64.hi /\ \A j \in DOMAIN x : AreInts(m.elements, x[j])

IsValue(type, v) ==
    /\ IsSeq(v) /\ Len(v) = Len(type)
    /\ \A i \in DOMAIN type : IsMemberValue(type[i], v[i])
=============================================================================
