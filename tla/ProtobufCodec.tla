---------------------------- MODULE ProtobufCodec ----------------------------
(***************************************************************************)
(* protobuf/ProtobufCodec at both ends of a connection, over Buffer: frames   *)
(* are filled into a buffer, travel as bytes, arrive in pieces of any size,   *)
(* are cut out of the input buffer again, and their messages are given to the *)
(* callback that protobuf/ProtobufDispatcher has for their type.  The peer    *)
(* may also send frames that are wrong in each way the codec looks for.       *)
(*                                                                         *)
(* A byte is a number below Base and an int32_t has HeaderLength bytes, so    *)
(* that instances can be small.  A frame is its length, then the length of    *)
(* the type's name, the name with its final 0, the data, and the check sum.   *)
(***************************************************************************)
EXTENDS Buffer, Integers, SequencesExt

CONSTANTS
    Base, HeaderLength,     \* 256 and 4 in C
    MaxMessageLength,       \* MAX_MESSAGE_LENGTH
    TypeName,               \* the names of the types the program knows
    Data,                   \* what ParseFromArray accepts
    Message,                \* the messages the peer sends
    BadFrame,               \* and the wrong frames, with the error each should give
    MaxFrames               \* bound: frames sent

MinMessageLength == 2 * HeaderLength + 2

Byte == 0..(Base - 1)

ASSUME CodecAssumption ==
    /\ Base \in Nat \ {0, 1} /\ HeaderLength \in 1..CheapPrepend
    /\ TypeName \subseteq Seq(Byte) \ {<<>>} /\ Data \subseteq Seq(Byte)
    /\ Message \subseteq [name : TypeName, data : Data]

VARIABLES
    sent,           \* the frames the peer sent: messages and wrong frames
    wire,           \* bytes on their way
    m_InputBuffer,
    at,             \* "poll", or "message" (in OnMessage's loop)
    connected,      \* ShutDown was not called
    error,          \* the last error given to m_ErrorCallBack
    m_mpCallBack,   \* the types with a callback of their own
    received        \* the messages given to m_MessageCallBack, and whose callback each reached

vars == <<sent, wire, m_InputBuffer, at, connected, error, m_mpCallBack, received>>

-----------------------------------------------------------------------------
(* Integers on the wire                                                     *)

\* Base ^ i.
Power[i \in 0..HeaderLength] == IF i = 0 THEN 1 ELSE Power[i - 1] * Base

Word == Power[HeaderLength]

\* HostToNetwork32: the most significant byte first, two's complement.
AsBytes(n) == [i \in 1..HeaderLength |-> ((n % Word) \div Power[HeaderLength - i]) % Base]

\* The signed integer with the bits of n.
Signed(n) == IF 2 * n < Word THEN n ELSE n - Word

\* AsInt32 and PeekInt32: the integer at the head of bytes.
AsInt32(bytes) ==
    LET value[i \in 0..HeaderLength] == IF i = 0 THEN 0 ELSE value[i - 1] * Base + bytes[i]
    IN  Signed(value[HeaderLength])

\* adler32 of zlib: one function of the bytes, the same at both ends; no property needs which.
adler32(bytes) ==
    LET sum[i \in 0..Len(bytes)] == IF i = 0 THEN 1 ELSE (3 * sum[i - 1] + bytes[i]) % Word
    IN  Signed(sum[Len(bytes)])

-----------------------------------------------------------------------------
(* Sending                                                                  *)

\* FillEmptyBuffer: the length comes last, into the room before the readable bytes.
FillEmptyBuffer(m) ==
    LET nameLen == Len(m.name) + 1
        named == AppendBytes(AppendBytes(NewBuffer, AsBytes(nameLen)), Append(m.name, 0))
        filled == WriteBytes(EnsureWritableBytes(named, Len(m.data)), m.data)
        summed == AppendBytes(filled, AsBytes(adler32(Readable(filled))))
    IN  Prepend(summed, AsBytes(ReadableBytes(summed)))

\* Send: the bytes that go to the connection.
Send == [m \in Message |-> Readable(FillEmptyBuffer(m))]

\* The bytes of a frame.
Bytes(frame) == IF frame \in Message THEN Send[frame] ELSE frame.bytes

-----------------------------------------------------------------------------
(* Receiving                                                                *)

\* Parse: the message in the bytes of a frame behind its length, or the error.
Parse(bytes) ==
    LET length == Len(bytes)
        nameLen == AsInt32(bytes)
        name == SubSeq(bytes, HeaderLength + 1, HeaderLength + nameLen - 1)
        data == SubSeq(bytes, HeaderLength + nameLen + 1, length - HeaderLength)
        sum == AsInt32(SubSeq(bytes, length - HeaderLength + 1, length))
    IN  IF sum # adler32(SubSeq(bytes, 1, length - HeaderLength)) THEN [error |-> "CheckSumError"]
        ELSE IF nameLen < 2 \/ nameLen > length - 2 * HeaderLength
          THEN [error |-> "InvalidNameLen"]
        ELSE IF name \notin TypeName THEN [error |-> "UnknownMessageType"]
        ELSE IF data \notin Data THEN [error |-> "ParseError"]
        ELSE [error |-> "NoError", message |-> [name |-> name, data |-> data]]

\* FillEmptyBuffer does not look at the length: the peer's messages are no longer than OnMessage
\* takes them.
ASSUME LengthAssumption ==
    /\ MaxMessageLength \in Nat /\ 2 * MaxMessageLength < Word
    /\ \A m \in Message : 2 * HeaderLength + Len(m.name) + 1 + Len(m.data) <= MaxMessageLength

\* A wrong frame has a length out of range, whatever follows it, or its own length and a content
\* that Parse rejects.
ASSUME BadFrameAssumption ==
    /\ Message \intersect BadFrame = {}
    /\ \A frame \in BadFrame :
        LET nLen == AsInt32(frame.bytes)
            rest == SubSeq(frame.bytes, HeaderLength + 1, HeaderLength + nLen)
        IN  /\ frame.bytes \in Seq(Byte) /\ Len(frame.bytes) >= HeaderLength
            /\ IF nLen > MaxMessageLength \/ nLen < MinMessageLength THEN frame.error = "InvalidLength"
               ELSE /\ Len(frame.bytes) = HeaderLength + nLen
                    /\ frame.error = Parse(rest).error /\ frame.error # "NoError"

Init ==
    /\ sent = <<>> /\ wire = <<>>
    /\ m_InputBuffer = NewBuffer
    /\ at = "poll" /\ connected = TRUE
    /\ error = "NoError"
    /\ m_mpCallBack = {} /\ received = <<>>

\* Another frame by the peer.
PeerSends(frame) ==
    /\ Len(sent) < MaxFrames
    /\ sent' = Append(sent, frame)
    /\ wire' = wire \o Bytes(frame)
    /\ UNCHANGED <<m_InputBuffer, at, connected, error, m_mpCallBack, received>>

\* handleRead of the connection: some of the bytes that have arrived, and OnMessage.
handleRead(n) ==
    /\ at = "poll"
    /\ n <= Len(wire) /\ n <= WriteableBytes(m_InputBuffer) + ExtraSize
    /\ wire' = SubSeq(wire, n + 1, Len(wire))
    /\ m_InputBuffer' = ReadFd(m_InputBuffer, SubSeq(wire, 1, n))
    /\ at' = "message"
    /\ UNCHANGED <<sent, connected, error, m_mpCallBack, received>>

\* Mutant: the buffer is emptied.
ErrorCallBackRetrieves(e) ==
    /\ error' = e
    /\ connected' = FALSE
    /\ at' = "poll"
    /\ m_InputBuffer' = RetrieveAll(m_InputBuffer)
    /\ UNCHANGED received

\* defaultErrorCallBack, which shuts the connection down, and break.
ErrorCallBack(e) ==
    /\ error' = e
    /\ connected' = FALSE
    /\ at' = "poll"
    /\ UNCHANGED <<m_InputBuffer, received>>

\* Mutant: a byte more than the smallest frame has.
HasMinimumMore == ReadableBytes(m_InputBuffer) > MinMessageLength + HeaderLength

HasMinimum == ReadableBytes(m_InputBuffer) >= MinMessageLength + HeaderLength

\* The loop goes on after a message.
AfterMessage == "message"

\* On the connection's loop, between two messages.
RegisterMessageCallBack(name) ==
    /\ m_mpCallBack' = m_mpCallBack \union {name}
    /\ UNCHANGED <<sent, wire, m_InputBuffer, at, connected, error, received>>

DefaultCallBack == <<>>      \* no type's name

OnProtobufMessage(message) ==
    [message |-> message,
     callBack |-> IF message.name \in m_mpCallBack THEN message.name ELSE DefaultCallBack]

\* One turn of OnMessage's loop.
OnMessage ==
    LET bytes == Readable(m_InputBuffer)
        nLen == AsInt32(bytes)
        parsed == Parse(SubSeq(bytes, HeaderLength + 1, HeaderLength + nLen))
    IN  /\ at = "message"
        /\ IF ~HasMinimum THEN at' = "poll" /\ UNCHANGED <<m_InputBuffer, connected, error, received>>
           ELSE IF nLen > MaxMessageLength \/ nLen < MinMessageLength THEN ErrorCallBack("InvalidLength")
           ELSE IF Len(bytes) < nLen + HeaderLength
             THEN at' = "poll" /\ UNCHANGED <<m_InputBuffer, connected, error, received>>
           ELSE IF parsed.error # "NoError" THEN ErrorCallBack(parsed.error)
           ELSE /\ received' = Append(received, OnProtobufMessage(parsed.message))
                /\ m_InputBuffer' = Retrieve(m_InputBuffer, HeaderLength + nLen)
                /\ at' = AfterMessage
                /\ UNCHANGED <<connected, error>>
        /\ UNCHANGED <<sent, wire, m_mpCallBack>>

Next ==
    \/ OnMessage
    \/ \E n \in 1..Len(wire) : handleRead(n)
    \/ \E frame \in Message \union BadFrame : PeerSends(frame)
    \/ \E name \in TypeName : RegisterMessageCallBack(name)

Spec == Init /\ [][Next]_vars

-----------------------------------------------------------------------------

Frames(i) == FlattenSeq([j \in 1..(Len(sent) - i) |-> Bytes(sent[i + j])])

\* The input buffer is a queue of bytes, whatever it moves and however the bytes arrive: its
\* indices are in order, and what is readable and what is on its way are the frames that were
\* not received yet.
StreamKept ==
    /\ IndicesInOrder(m_InputBuffer)
    /\ Readable(m_InputBuffer) \o wire = Frames(Len(received))

\* Messages are received as they were sent, in order, once, and none after a wrong frame:
\* OnMessage leaves a wrong frame in the buffer.  None reaches another type's callback, and once
\* a type's own callback got a message, the default one gets no more of that type.
MessagesInOrder ==
    /\ Len(received) <= Len(sent)
    /\ \A i \in 1..Len(received) :
        /\ received[i].message = sent[i]
        /\ received[i].callBack # DefaultCallBack => received[i].callBack = sent[i].name
        /\ received[i].callBack = DefaultCallBack =>
            \A j \in 1..(i - 1) : received[j].callBack # DefaultCallBack => sent[j].name # sent[i].name

\* OnMessage leaves no complete message behind, and a wrong frame that has arrived whole was
\* reported with its error, with one exception: OnMessage looks at no length before the bytes of
\* the smallest frame are there, so that a wrong frame shorter than that stays unreported until
\* others arrive behind it.
CompleteFramesHandled ==
    LET i == Len(received) + 1
        arrived == ReadableBytes(m_InputBuffer)
    IN  at = "poll" /\ i <= Len(sent) /\ arrived >= Len(Bytes(sent[i])) =>
            /\ sent[i] \in BadFrame
            /\ arrived >= HeaderLength + MinMessageLength => error = sent[i].error /\ ~connected
=============================================================================
