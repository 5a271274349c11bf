----------------------------- MODULE TcpFraming -----------------------------
(***************************************************************************)
(* One direction of a TCP connection, between the tcp_send_message of one  *)
(* side and the tcp_read_message of the other (client_src/client.hpp,      *)
(* server_src/server.hpp).  A message is a header, with the message's kind *)
(* and the size of the payload, and the payload.  TCP carries bytes, in    *)
(* pieces of any length; async_read waits until it has those asked for.    *)
(***************************************************************************)
EXTENDS Serialize

CONSTANTS
    Directions,  \* the connections that are looked at
    Variant,     \* per direction: the types of the message variant, in order
    Messages,    \* per direction: the messages that may be sent
    MaxSent      \* bound: messages sent

\* Messages have the types of their variant, and fit into memory.
ASSUME MessagesAssumption ==
    \A d \in Directions :
        /\ IsSeq(Variant[d]) /\ \A i \in DOMAIN Variant[d] : IsStruct(Variant[d][i])
        /\ \A m \in Messages[d] :
              /\ m = [which |-> m.which, value |-> m.value]
              /\ m.which \in 0 .. Len(Variant[d]) - 1 /\ m.which <= U64.hi
              /\ IsValue(Variant[d][m.which + 1], m.value)
              /\ Size(Variant[d][m.which + 1], m.value) <= U64.hi

VARIABLES
    direction,   \* the direction of this behaviour; it never changes
    sent,        \* messages written to the socket
    sender,      \* "running", or "thrown" if a message could not be written
    wire,        \* bytes under way
    arrived,     \* bytes that wait in the receiver's socket
    reading,     \* what the receiver reads: a "header", a "body" of a header's
                 \* opcode and payload_size, or nothing after it has "thrown"
    received     \* messages passed to the handler

vars == <<direction, sent, sender, wire, arrived, reading, received>>

\* cts_tcp_header_t, stc_tcp_header_t: opcode and payload_size.
Header == <<SizeOf(U8), SizeOf(U32)>>

ReadingHeader == [at |-> "header", opcode |-> 0, payload_size |-> 0]

Init ==
    /\ direction \in Directions
    /\ sent = <<>>
    /\ sender = "running"
    /\ wire = <<>>
    /\ arrived = <<>>
    /\ reading = ReadingHeader
    /\ received = <<>>

-----------------------------------------------------------------------------
\* A buffer of n bytes into which bytes were written.
Buffer(n, bytes) == [i \in 1 .. n |-> IF i \in DOMAIN bytes THEN bytes[i] ELSE 0]

\* Header and payload are written into one buffer, which is sent as a whole.
\* A member that does not fit throws, before anything is sent.
tcp_send_message(m) ==
    LET type == Variant[direction][m.which + 1]
        header == <<m.which, Size(type, m.value)>>
    IN  /\ sender = "running"
        /\ Len(sent) < MaxSent
        /\ IF WriteThrows(Header, header) \/ WriteThrows(type, m.value)
           THEN /\ sender' = "thrown"
                /\ UNCHANGED <<sent, wire>>
           ELSE /\ wire' = wire \o Buffer(ConstSize(Header) + Size(type, m.value),
                                          Write(Header, header) \o Write(type, m.value))
                /\ sent' = Append(sent, m)
                /\ UNCHANGED sender
        /\ UNCHANGED <<direction, arrived, reading, received>>

\* The next n bytes arrive.
Arrive(n) ==
    /\ arrived' = arrived \o SubSeq(wire, 1, n)
    /\ wire' = SubSeq(wire, n + 1, Len(wire))
    /\ UNCHANGED <<direction, sent, sender, reading, received>>

\* async_read has its n bytes.
HasRead(n) == Len(arrived) >= n /\ arrived' = SubSeq(arrived, n + 1, Len(arrived))

\* The header of a message is complete.
tcp_read_message ==
    /\ reading.at = "header"
    /\ HasRead(ConstSize(Header))
    /\ LET header == Read(Header, SubSeq(arrived, 1, ConstSize(Header))).value
       IN  reading' = [at |-> "body", opcode |-> header[1], payload_size |-> header[2]]
    /\ UNCHANGED <<direction, sent, sender, wire, received>>

\* runtime_type_indexer finds a type for the opcode; if not, it throws.
IsType(opcode) == opcode < Len(Variant[direction])

\* The body is complete, and the reader of the opcode's type is called.  Bytes
\* that it leaves are dropped.
tcp_read_message_body ==
    /\ reading.at = "body"
    /\ HasRead(reading.payload_size)
    /\ LET body == Read(Variant[direction][reading.opcode + 1],
                        SubSeq(arrived, 1, reading.payload_size))
       IN  IF IsType(reading.opcode) /\ body.error = "none"
           THEN /\ received' = Append(received, [which |-> reading.opcode,
                                                 value |-> body.value])
                /\ reading' = ReadingHeader
           ELSE /\ reading' = [reading EXCEPT !.at = "thrown"]
                /\ UNCHANGED received
    /\ UNCHANGED <<direction, sent, sender, wire>>

Next ==
    \/ \E m \in Messages[direction] : tcp_send_message(m)
    \/ \E n \in 1 .. Len(wire) : Arrive(n)
    \/ tcp_read_message
    \/ tcp_read_message_body

Spec == Init /\ [][Next]_vars

-----------------------------------------------------------------------------
(* Properties.                                                             *)

\* However TCP cuts the bytes, the handler gets the messages that were sent,
\* value for value and in order: the connection implements a channel of
\* messages, as the login handshake takes it for.
Channel == INSTANCE MessageChannel WITH
    Messages <- UNION {Messages[d] : d \in Directions},
    queue <- SubSeq(sent, Len(received) + 1, Len(sent))

ImplementsMessageChannel == Channel!Spec

\* The receiver has too few bytes for what it reads, or reads no more.
Waits ==
    \/ reading.at = "thrown"
    \/ reading.at = "header" /\ Len(arrived) < ConstSize(Header)
    \/ reading.at = "body" /\ Len(arrived) < reading.payload_size

\* Every message that could be written arrives: no reader throws on what a
\* writer accepted, and once all bytes are there none waits for more.
NoneIsStuck == wire = <<>> /\ Waits => Len(received) = Len(sent)
=============================================================================
