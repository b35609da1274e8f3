--------------------------- MODULE MCProtobufCodec ---------------------------
(* Bytes below 8, integers of two bytes.  A message without data gives the    *)
(* smallest frame; each wrong frame fails one of the codec's tests, and one   *)
(* is a byte too short for OnMessage to look at before more has arrived.      *)
EXTENDS ProtobufCodec

T == <<5>>
U == <<3>>
MCTypeName == {T, U}
MCData == {<<>>, <<6, 1>>}
MCMessage == {[name |-> T, data |-> <<>>], [name |-> T, data |-> <<6, 1>>],
               [name |-> U, data |-> <<>>]}

\* The frame of a name's length, a name and data, with its right check sum, or off by delta.
Framed(nameLen, rest, delta) ==
    LET body == AsBytes(nameLen) \o rest
        whole == body \o AsBytes(adler32(body) + delta)
    IN  AsBytes(Len(whole)) \o whole

Padding == [i \in 1..MinMessageLength |-> 1]
TooShort == MinMessageLength - 1

MCBadFrame ==
    { [error |-> "InvalidLength", bytes |-> AsBytes(TooShort) \o SubSeq(Padding, 1, TooShort)],
      [error |-> "InvalidLength", bytes |-> AsBytes(0) \o Padding],
      [error |-> "InvalidLength", bytes |-> AsBytes(MaxMessageLength + 1) \o Padding],
      [error |-> "CheckSumError", bytes |-> Framed(2, Append(T, 0), 1)],
      [error |-> "InvalidNameLen", bytes |-> Framed(3, Append(T, 0), 0)],
      [error |-> "UnknownMessageType", bytes |-> Framed(2, <<4, 0>>, 0)],
      [error |-> "ParseError", bytes |-> Framed(2, T \o <<0, 7>>, 0)] }
=============================================================================
