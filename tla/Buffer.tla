------------------------------- MODULE Buffer --------------------------------
(***************************************************************************)
(* reactor/Buffer as operators on its record: a vector of bytes and two       *)
(* indices, counted from 0.  The bytes between them are readable; those       *)
(* before are free for Prepend, those behind for writing.                     *)
(***************************************************************************)
EXTENDS Naturals, Sequences

CONSTANTS
    CheapPrepend, InitialSize,  \* CHEAP_PREPEND, INITIAL_SIZE
    ExtraSize                   \* sizeof(extraBuf) in ReadFd

ASSUME SizeAssumption ==
    CheapPrepend \in Nat \ {0} /\ InitialSize \in Nat /\ ExtraSize \in Nat

Zeros(n) == [i \in 1..n |-> 0]

\* m_vBuffer.resize(size) to a larger size: new bytes are zero.
Resized(v, size) == v \o Zeros(size - Len(v))

\* std::copy of bytes to begin() + index.
Copied(v, index, bytes) ==
    SubSeq(v, 1, index) \o bytes \o SubSeq(v, index + Len(bytes) + 1, Len(v))

NewBuffer == [m_vBuffer |-> Zeros(CheapPrepend + InitialSize),
              m_unReaderIndex |-> CheapPrepend, m_unWriterIndex |-> CheapPrepend]

\* 0 <= readidx <= writeidx <= size, the picture at the head of the class.
IndicesInOrder(b) ==
    /\ b.m_unReaderIndex \in 0..b.m_unWriterIndex
    /\ b.m_unWriterIndex \in 0..Len(b.m_vBuffer)

PrependableBytes(b) == b.m_unReaderIndex
ReadableBytes(b) == b.m_unWriterIndex - b.m_unReaderIndex
WriteableBytes(b) == Len(b.m_vBuffer) - b.m_unWriterIndex

\* The readable bytes, from Peek() to BeginWrite().
Readable(b) == SubSeq(b.m_vBuffer, b.m_unReaderIndex + 1, b.m_unWriterIndex)

Retrieve(b, length) == [b EXCEPT !.m_unReaderIndex = @ + length]

RetrieveAll(b) ==
    [b EXCEPT !.m_unReaderIndex = CheapPrepend, !.m_unWriterIndex = CheapPrepend]

\* Mutant: the indices are moved, the bytes are not.
makeSpaceInPlace(b, length) ==
    IF WriteableBytes(b) + PrependableBytes(b) < length + CheapPrepend
      THEN [b EXCEPT !.m_vBuffer = Resized(@, b.m_unWriterIndex + length)]
      ELSE [b EXCEPT !.m_unReaderIndex = CheapPrepend,
                     !.m_unWriterIndex = CheapPrepend + ReadableBytes(b)]

\* makeSpace: the vector grows, or the readable bytes move to its front.
makeSpace(b, length) ==
    IF WriteableBytes(b) + PrependableBytes(b) < length + CheapPrepend
      THEN [b EXCEPT !.m_vBuffer = Resized(@, b.m_unWriterIndex + length)]
      ELSE [b EXCEPT !.m_vBuffer = Copied(@, CheapPrepend, Readable(b)),
                     !.m_unReaderIndex = CheapPrepend,
                     !.m_unWriterIndex = CheapPrepend + ReadableBytes(b)]

EnsureWritableBytes(b, length) == IF WriteableBytes(b) < length THEN makeSpace(b, length) ELSE b

HasWritted(b, length) == [b EXCEPT !.m_unWriterIndex = @ + length]

\* Bytes written at BeginWrite(), where there is room.
WriteBytes(b, bytes) ==
    HasWritted([b EXCEPT !.m_vBuffer = Copied(@, b.m_unWriterIndex, bytes)], Len(bytes))

\* Append.
AppendBytes(b, bytes) == WriteBytes(EnsureWritableBytes(b, Len(bytes)), bytes)

Prepend(b, bytes) ==
    LET index == b.m_unReaderIndex - Len(bytes)
    IN  [b EXCEPT !.m_unReaderIndex = index, !.m_vBuffer = Copied(@, index, bytes)]

\* ReadFd: readv has filled the writable bytes first, then extraBuf.
ReadFd(b, bytes) ==
    LET unWritable == WriteableBytes(b)
    IN  IF Len(bytes) <= unWritable THEN WriteBytes(b, bytes)
        ELSE AppendBytes(WriteBytes(b, SubSeq(bytes, 1, unWritable)),
                         SubSeq(bytes, unWritable + 1, Len(bytes)))
=============================================================================
