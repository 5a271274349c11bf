---------------------------- MODULE TcpFramingMC ----------------------------
(* Instances of TcpFraming for TLC: the two directions of a login, and one *)
(* with the serialized game that stc_tcp_game_state_t is to carry (its     *)
(* member is still commented out), whose members are of all kinds.  The    *)
(* values lie at the limits of their types, and beyond those on the wire.  *)
EXTENDS TcpFraming

MCDirections == {"cts", "stc", "game"}

MagicNumber == 27
ProtocolVersion == 1

\* game_state_t::serialized_t: dimen, objects and players.
serialized_t ==
    << Integer(I32, U8), Integer(I32, U8),
       List(U16, <<Integer(U32, U32), Integer(I32, I32), Integer(I32, I32)>>),
       List(U16, <<Integer(U16, U16), Integer(U32, U32)>>) >>

MCVariant ==
    [cts  |-> << <<String>> >>,
     stc  |-> << <<Integer(U32, U32), Integer(U32, U32)>>, <<>> >>,
     game |-> << serialized_t >>]

MCMessages ==
    [cts  |-> {[which |-> 0, value |-> <<name>>] : name \in {<<>>, <<1>>, <<3, 1>>}},
     stc  |-> {[which |-> 0, value |-> <<n, ProtocolVersion>>] :
                  n \in {MagicNumber, U32.hi}}
                 \cup {[which |-> 1, value |-> <<>>]},
     game |-> {[which |-> 0, value |-> <<w, w, objects, players>>] :
                  w \in {U8.hi, U8.hi + 1},
                  objects \in {<<>>, << <<1, I32.lo, 3>>, <<U32.hi, -1, I32.hi>> >>},
                  players \in {<<>>, << <<U16.hi, 1>> >>}}]
=============================================================================
