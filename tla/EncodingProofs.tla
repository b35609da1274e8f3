--------------------------- MODULE EncodingProofs ---------------------------
(***************************************************************************)
(* Proofs about what is made of bytes and of text.  Buffer and ProtobufCodec: *)
(* for any size of the buffers, any width of the integers, any types, messages *)
(* and wrong frames, and any way the bytes arrive.  Logging: for any threads,  *)
(* statements, sinks and clock, and any size of a line's buffer.             *)
(***************************************************************************)
EXTENDS ProtobufCodec, Logging, SequenceTheorems, WellFoundedInduction, TLAPS

-----------------------------------------------------------------------------
(* reactor/Buffer                                                           *)

\* A buffer in use: the vector keeps the room for Prepend.
BufferOK(b) ==
    /\ b \in [m_vBuffer : Seq(Nat), m_unReaderIndex : Nat, m_unWriterIndex : Nat]
    /\ IndicesInOrder(b) /\ CheapPrepend <= Len(b.m_vBuffer)

\* std::copy overwrites the bytes from index on, and no others.
LEMMA CopiedBytes ==
    ASSUME NEW v \in Seq(Nat), NEW index \in Nat, NEW bytes \in Seq(Nat),
           index + Len(bytes) <= Len(v)
    PROVE  LET c == Copied(v, index, bytes)
           IN  /\ c \in Seq(Nat) /\ Len(c) = Len(v)
               /\ \A i \in 1..Len(v) : c[i] = IF i > index /\ i <= index + Len(bytes)
                                                THEN bytes[i - index] ELSE v[i]
<1> DEFINE h == SubSeq(v, 1, index)
           t == SubSeq(v, index + Len(bytes) + 1, Len(v))
           k == index + Len(bytes)
           hb == h \o bytes
           c == hb \o t
<1>1. Len(v) \in Nat /\ Len(bytes) \in Nat /\ k \in Nat /\ index <= k /\ k <= Len(v)
  OBVIOUS
<1>2. h \in Seq(Nat) /\ Len(h) = index /\ \A i \in 1..index : h[i] = v[i]
  <2>1. \A i \in 1..index : v[i] \in Nat
    BY <1>1
  <2>2. /\ h \in Seq(Nat) /\ Len(h) = IF 1 <= index THEN index - 1 + 1 ELSE 0
        /\ \A i \in 1..(index - 1 + 1) : h[i] = v[1 + i - 1]
    BY <2>1, SubSeqProperties
  <2> HIDE DEF h
  <2> QED
    BY <2>2
<1>3. t \in Seq(Nat) /\ Len(t) = Len(v) - k /\ \A i \in 1..(Len(v) - k) : t[i] = v[k + i]
  <2>1. \A i \in (k + 1)..Len(v) : v[i] \in Nat
    BY <1>1
  <2>2. /\ t \in Seq(Nat) /\ Len(t) = IF k + 1 <= Len(v) THEN Len(v) - (k + 1) + 1 ELSE 0
        /\ \A i \in 1..(Len(v) - (k + 1) + 1) : t[i] = v[(k + 1) + i - 1]
    BY <1>1, <2>1, SubSeqProperties
  <2> HIDE DEF t, k
  <2> QED
    BY <1>1, <2>2
<1> HIDE DEF h, t
<1>4. /\ hb \in Seq(Nat) /\ Len(hb) = k
      /\ \A i \in 1..k : hb[i] = IF i <= index THEN h[i] ELSE bytes[i - index]
  BY <1>2, ConcatProperties
<1> HIDE DEF hb
<1>5. /\ c \in Seq(Nat) /\ Len(c) = Len(hb) + Len(t)
      /\ \A i \in 1..(Len(hb) + Len(t)) : c[i] = IF i <= Len(hb) THEN hb[i] ELSE t[i - Len(hb)]
  <2>1. hb \in Seq(Nat) /\ t \in Seq(Nat)
    BY <1>3, <1>4
  <2> QED
    BY <2>1, ConcatProperties
<1>6. Copied(v, index, bytes) = c
  BY DEF Copied, h, t, hb
<1> HIDE DEF c, k
<1>7. ASSUME NEW i \in 1..Len(v)
      PROVE  c[i] = IF i > index /\ i <= k THEN bytes[i - index] ELSE v[i]
  <2>1. c[i] = IF i <= k THEN hb[i] ELSE t[i - k]
    <3>1. Len(hb) + Len(t) = Len(v)
      BY <1>1, <1>3, <1>4
    <3> QED
      BY <1>4, <1>5, <3>1
  <2>2. CASE i <= index
    BY <1>1, <1>2, <1>4, <2>1, <2>2
  <2>3. CASE i > index /\ i <= k
    BY <1>1, <1>4, <2>1, <2>3
  <2>4. CASE i > k
    <3>1. i - k \in 1..(Len(v) - k) /\ k + (i - k) = i /\ i > index
      BY <1>1, <2>4
    <3> QED
      BY <1>1, <1>3, <2>1, <2>4, <3>1
  <2> QED
    BY <1>1, <2>2, <2>3, <2>4
<1>8. c \in Seq(Nat) /\ Len(c) = Len(v)
  BY <1>1, <1>3, <1>4, <1>5
<1> QED
  BY <1>6, <1>7, <1>8 DEF k

\* What is between the indices.
LEMMA ReadableType ==
    ASSUME NEW b, BufferOK(b)
    PROVE  /\ Readable(b) \in Seq(Nat) /\ ReadableBytes(b) \in Nat
           /\ Len(Readable(b)) = ReadableBytes(b)
           /\ \A i \in 1..ReadableBytes(b) : Readable(b)[i] = b.m_vBuffer[b.m_unReaderIndex + i]
<1> DEFINE v == b.m_vBuffer
           r == b.m_unReaderIndex
           w == b.m_unWriterIndex
<1>1. v \in Seq(Nat) /\ r \in Nat /\ w \in Nat /\ r <= w /\ w <= Len(v) /\ Len(v) \in Nat
  BY DEF BufferOK, IndicesInOrder
<1>2. Readable(b) = SubSeq(v, r + 1, w) /\ ReadableBytes(b) = w - r
  BY DEF Readable, ReadableBytes
<1> HIDE DEF v, r, w
<1>3. \A i \in (r + 1)..w : v[i] \in Nat
  BY <1>1
<1>4. /\ Readable(b) \in Seq(Nat)
      /\ Len(Readable(b)) = IF r + 1 <= w THEN w - (r + 1) + 1 ELSE 0
      /\ \A i \in 1..(w - (r + 1) + 1) : Readable(b)[i] = v[(r + 1) + i - 1]
  BY <1>1, <1>2, <1>3, SubSeqProperties
<1>5. Len(Readable(b)) = w - r /\ w - r \in Nat
  BY <1>1, <1>4
<1>6. ASSUME NEW i \in 1..(w - r) PROVE Readable(b)[i] = v[r + i]
  <2>1. i \in 1..(w - (r + 1) + 1) /\ (r + 1) + i - 1 = r + i
    BY <1>1
  <2> QED
    BY <1>4, <2>1
<1> QED
  BY <1>2, <1>4, <1>5, <1>6 DEF v, r, w

\* The bytes between the indices are all that is readable.
LEMMA SameReadable ==
    ASSUME NEW b, BufferOK(b), NEW s \in Seq(Nat), Len(s) = ReadableBytes(b),
           \A i \in 1..Len(s) : s[i] = b.m_vBuffer[b.m_unReaderIndex + i]
    PROVE  Readable(b) = s
<1>1. /\ Readable(b) \in Seq(Nat) /\ Len(Readable(b)) = Len(s)
      /\ \A i \in 1..Len(s) : Readable(b)[i] = s[i]
  BY ReadableType
<1> QED
  BY <1>1, SeqEqual

\* A buffer and its parts.
LEMMA FieldsOfBuffer ==
    ASSUME NEW b, BufferOK(b)
    PROVE  /\ b.m_vBuffer \in Seq(Nat) /\ Len(b.m_vBuffer) \in Nat
           /\ b.m_unReaderIndex \in Nat /\ b.m_unWriterIndex \in Nat
           /\ b.m_unReaderIndex <= b.m_unWriterIndex
           /\ b.m_unWriterIndex <= Len(b.m_vBuffer) /\ CheapPrepend <= Len(b.m_vBuffer)
           /\ CheapPrepend \in Nat \ {0}
  BY SizeAssumption DEF BufferOK, IndicesInOrder

LEMMA BufferOfFields ==
    ASSUME NEW b, b \in [m_vBuffer : Seq(Nat), m_unReaderIndex : Nat, m_unWriterIndex : Nat],
           b.m_unReaderIndex <= b.m_unWriterIndex, b.m_unWriterIndex <= Len(b.m_vBuffer),
           CheapPrepend <= Len(b.m_vBuffer)
    PROVE  BufferOK(b)
  BY DEF BufferOK, IndicesInOrder

\* EnsureWritableBytes makes room, whether the vector grows or the bytes move to its front, and
\* keeps what is readable.
LEMMA SpaceMade ==
    ASSUME NEW b, BufferOK(b), NEW length \in Nat
    PROVE  LET e == EnsureWritableBytes(b, length)
           IN  BufferOK(e) /\ Readable(e) = Readable(b) /\ WriteableBytes(e) >= length
<1> DEFINE v == b.m_vBuffer
           r == b.m_unReaderIndex
           w == b.m_unWriterIndex
           e == EnsureWritableBytes(b, length)
           BufferType == [m_vBuffer : Seq(Nat), m_unReaderIndex : Nat, m_unWriterIndex : Nat]
<1>1. /\ v \in Seq(Nat) /\ r \in Nat /\ w \in Nat /\ r <= w /\ w <= Len(v) /\ Len(v) \in Nat
      /\ CheapPrepend \in Nat /\ CheapPrepend <= Len(v) /\ b \in BufferType
  BY FieldsOfBuffer DEF BufferOK
<1>2. /\ WriteableBytes(b) = Len(v) - w /\ PrependableBytes(b) = r /\ ReadableBytes(b) = w - r
  BY DEF WriteableBytes, PrependableBytes, ReadableBytes
<1>3. /\ Readable(b) \in Seq(Nat) /\ Len(Readable(b)) = w - r
      /\ \A i \in 1..(w - r) : Readable(b)[i] = v[r + i]
  BY <1>2, ReadableType
<1> SUFFICES BufferOK(e) /\ Readable(e) = Readable(b) /\ WriteableBytes(e) >= length
  OBVIOUS
<1>4. CASE ~(WriteableBytes(b) < length)
  <2>1. e = b
    BY <1>4 DEF EnsureWritableBytes
  <2> HIDE DEF e
  <2> QED
    BY <1>1, <1>2, <1>4, <2>1
<1>5. CASE WriteableBytes(b) < length /\ WriteableBytes(b) + PrependableBytes(b) < length + CheapPrepend
  <2> DEFINE z == Zeros((w + length) - Len(v))
             u == v \o z
  <2>1. (w + length) - Len(v) \in Nat
    BY <1>1, <1>2, <1>5
  <2>2. z \in Seq(Nat) /\ Len(z) = (w + length) - Len(v)
    BY <2>1 DEF Zeros
  <2>3. e = [b EXCEPT !.m_vBuffer = u]
    BY <1>5 DEF EnsureWritableBytes, makeSpace, Resized
  <2> HIDE DEF z
  <2>4. /\ u \in Seq(Nat) /\ Len(u) = Len(v) + Len(z)
        /\ \A i \in 1..(Len(v) + Len(z)) : u[i] = IF i <= Len(v) THEN v[i] ELSE z[i - Len(v)]
    BY <1>1, <2>2, ConcatProperties
  <2> HIDE DEF u, e
  <2>5. e \in BufferType /\ e.m_vBuffer = u /\ e.m_unReaderIndex = r /\ e.m_unWriterIndex = w
    BY <1>1, <2>3, <2>4
  <2>6. Len(u) = w + length
    BY <1>1, <2>1, <2>2, <2>4
  <2>7. BufferOK(e)
    <3>1. w <= Len(u) /\ CheapPrepend <= Len(u)
      BY <1>1, <2>1, <2>2, <2>4
    <3> QED
      BY <1>1, <2>5, <3>1, BufferOfFields
  <2>8. Readable(e) = Readable(b)
    <3>1. ReadableBytes(e) = w - r
      BY <2>5 DEF ReadableBytes
    <3>2. ASSUME NEW i \in 1..(w - r) PROVE u[r + i] = v[r + i]
      <4>1. Len(z) \in Nat
        BY <2>2
      <4> HIDE DEF v, r, w
      <4>2. r + i \in 1..(Len(v) + Len(z)) /\ r + i <= Len(v)
        BY <1>1, <4>1
      <4> QED
        BY <2>4, <4>2
    <3> QED
      BY <1>3, <2>5, <2>7, <3>1, <3>2, SameReadable
  <2>9. WriteableBytes(e) = Len(u) - w
    BY <2>5 DEF WriteableBytes
  <2> QED
    BY <1>1, <2>6, <2>7, <2>8, <2>9
<1>6. CASE WriteableBytes(b) < length /\ ~(WriteableBytes(b) + PrependableBytes(b) < length + CheapPrepend)
  <2> DEFINE u == Copied(v, CheapPrepend, Readable(b))
  <2>1. CheapPrepend < r /\ CheapPrepend + (w - r) <= Len(v)
    BY <1>1, <1>2, <1>6
  <2>2. /\ u \in Seq(Nat) /\ Len(u) = Len(v)
        /\ \A i \in 1..Len(v) : u[i] = IF i > CheapPrepend /\ i <= CheapPrepend + Len(Readable(b))
                                           THEN Readable(b)[i - CheapPrepend] ELSE v[i]
    BY <1>1, <1>3, <2>1, CopiedBytes
  <2>3. e = [b EXCEPT !.m_vBuffer = u, !.m_unReaderIndex = CheapPrepend,
                      !.m_unWriterIndex = CheapPrepend + (w - r)]
    BY <1>2, <1>6 DEF EnsureWritableBytes, makeSpace
  <2> HIDE DEF u, e
  <2>4. w - r \in Nat /\ CheapPrepend + (w - r) \in Nat
    BY <1>1
  <2>5. /\ e \in BufferType /\ e.m_vBuffer = u /\ e.m_unReaderIndex = CheapPrepend
        /\ e.m_unWriterIndex = CheapPrepend + (w - r)
    BY <1>1, <2>2, <2>3, <2>4
  <2>6. BufferOK(e)
    <3>1. CheapPrepend <= CheapPrepend + (w - r) /\ CheapPrepend + (w - r) <= Len(u)
      BY <1>1, <2>1, <2>2
    <3> QED
      BY <1>1, <2>2, <2>5, <3>1, BufferOfFields
  <2>7. Readable(e) = Readable(b)
    <3>1. ReadableBytes(e) = w - r
      <4>1. ReadableBytes(e) = (CheapPrepend + (w - r)) - CheapPrepend
        BY <2>5 DEF ReadableBytes
      <4> QED
        BY <1>1, <4>1
    <3>2. ASSUME NEW i \in 1..(w - r) PROVE u[CheapPrepend + i] = Readable(b)[i]
      <4>1. /\ CheapPrepend + i \in 1..Len(v) /\ CheapPrepend + i > CheapPrepend
            /\ CheapPrepend + i <= CheapPrepend + Len(Readable(b))
            /\ (CheapPrepend + i) - CheapPrepend = i
        <5>1. w - r \in Nat /\ Len(v) \in Nat /\ CheapPrepend \in Nat
          BY <1>1
        <5> HIDE DEF v, r, w
        <5> QED
          BY <1>3, <2>1, <5>1
      <4> QED
        BY <2>2, <4>1
    <3> QED
      BY <1>3, <2>5, <2>6, <3>1, <3>2, SameReadable
  <2>8. WriteableBytes(e) = Len(u) - (CheapPrepend + (w - r))
    BY <2>5 DEF WriteableBytes
  <2> QED
    BY <1>1, <1>2, <1>6, <2>2, <2>6, <2>7, <2>8
<1> QED
  BY <1>4, <1>5, <1>6

\* Bytes written where there is room come behind what is readable.
LEMMA BytesWritten ==
    ASSUME NEW b, BufferOK(b), NEW bytes \in Seq(Nat), Len(bytes) <= WriteableBytes(b)
    PROVE  LET a == WriteBytes(b, bytes)
           IN  BufferOK(a) /\ Readable(a) = Readable(b) \o bytes
<1> DEFINE v == b.m_vBuffer
           r == b.m_unReaderIndex
           w == b.m_unWriterIndex
           u == Copied(v, w, bytes)
           a == WriteBytes(b, bytes)
           s == Readable(b) \o bytes
           BufferType == [m_vBuffer : Seq(Nat), m_unReaderIndex : Nat, m_unWriterIndex : Nat]
<1>1. /\ v \in Seq(Nat) /\ r \in Nat /\ w \in Nat /\ r <= w /\ w <= Len(v) /\ Len(v) \in Nat
      /\ CheapPrepend \in Nat /\ CheapPrepend <= Len(v) /\ b \in BufferType
  BY FieldsOfBuffer DEF BufferOK
<1>2. w + Len(bytes) <= Len(v) /\ Len(bytes) \in Nat /\ w + Len(bytes) \in Nat
  BY <1>1 DEF WriteableBytes
<1>3. /\ u \in Seq(Nat) /\ Len(u) = Len(v)
      /\ \A i \in 1..Len(v) : u[i] = IF i > w /\ i <= w + Len(bytes) THEN bytes[i - w] ELSE v[i]
  BY <1>1, <1>2, CopiedBytes
<1>4. a = [b EXCEPT !.m_vBuffer = u, !.m_unWriterIndex = w + Len(bytes)]
  BY <1>1 DEF WriteBytes, HasWritted
<1>5. /\ Readable(b) \in Seq(Nat) /\ Len(Readable(b)) = w - r
      /\ \A i \in 1..(w - r) : Readable(b)[i] = v[r + i]
  BY ReadableType DEF ReadableBytes
<1>6. /\ s \in Seq(Nat) /\ Len(s) = Len(Readable(b)) + Len(bytes)
      /\ \A i \in 1..(Len(Readable(b)) + Len(bytes)) :
           s[i] = IF i <= Len(Readable(b)) THEN Readable(b)[i] ELSE bytes[i - Len(Readable(b))]
  BY <1>5, ConcatProperties
<1> SUFFICES BufferOK(a) /\ Readable(a) = s
  OBVIOUS
<1> HIDE DEF u, a, s
<1>7. /\ a \in BufferType /\ a.m_vBuffer = u /\ a.m_unReaderIndex = r
      /\ a.m_unWriterIndex = w + Len(bytes)
  BY <1>1, <1>2, <1>3, <1>4
<1>8. BufferOK(a)
  <2>1. r <= w + Len(bytes) /\ w + Len(bytes) <= Len(u) /\ CheapPrepend <= Len(u)
    BY <1>1, <1>2, <1>3
  <2> QED
    BY <1>7, <2>1, BufferOfFields
<1>9. Len(s) = (w - r) + Len(bytes)
  BY <1>5, <1>6
<1>10. ReadableBytes(a) = Len(s)
  <2>1. ReadableBytes(a) = (w + Len(bytes)) - r
    BY <1>7 DEF ReadableBytes
  <2> QED
    BY <1>1, <1>2, <1>9, <2>1
<1>11. ASSUME NEW i \in 1..Len(s) PROVE s[i] = u[r + i]
  <2>1. r + i \in 1..Len(v) /\ i \in 1..(Len(Readable(b)) + Len(bytes)) /\ r + i <= w + Len(bytes)
    BY <1>1, <1>2, <1>5, <1>9
  <2>2. CASE i <= w - r
    <3>1. i \in 1..(w - r) /\ ~(r + i > w) /\ i <= Len(Readable(b))
      <4> HIDE DEF v, r, w
      <4> QED
        BY <1>1, <1>5, <2>1, <2>2
    <3>2. s[i] = v[r + i]
      BY <1>5, <1>6, <2>1, <3>1
    <3> QED
      BY <1>3, <2>1, <3>1, <3>2
  <2>3. CASE ~(i <= w - r)
    <3>1. ~(i <= Len(Readable(b))) /\ r + i > w /\ (r + i) - w = i - Len(Readable(b))
      <4> HIDE DEF v, r, w
      <4> QED
        BY <1>1, <1>5, <2>1, <2>3
    <3>2. s[i] = bytes[(r + i) - w]
      BY <1>6, <2>1, <3>1
    <3> QED
      BY <1>3, <2>1, <3>1, <3>2
  <2> QED
    BY <2>2, <2>3
<1>12. Readable(a) = s
  BY <1>6, <1>7, <1>8, <1>10, <1>11, SameReadable
<1> QED
  BY <1>8, <1>12

\* Bytes prepended come before what is readable.
LEMMA BytesPrepended ==
    ASSUME NEW b, BufferOK(b), NEW bytes \in Seq(Nat), Len(bytes) <= PrependableBytes(b)
    PROVE  BufferOK(Prepend(b, bytes)) /\ Readable(Prepend(b, bytes)) = bytes \o Readable(b)
<1> DEFINE v == b.m_vBuffer
           r == b.m_unReaderIndex
           w == b.m_unWriterIndex
           x == r - Len(bytes)
           u == Copied(v, x, bytes)
           a == Prepend(b, bytes)
           s == bytes \o Readable(b)
           BufferType == [m_vBuffer : Seq(Nat), m_unReaderIndex : Nat, m_unWriterIndex : Nat]
<1>1. /\ v \in Seq(Nat) /\ r \in Nat /\ w \in Nat /\ r <= w /\ w <= Len(v) /\ Len(v) \in Nat
      /\ CheapPrepend \in Nat /\ CheapPrepend <= Len(v) /\ b \in BufferType
  BY FieldsOfBuffer DEF BufferOK
<1>2. Len(bytes) \in Nat /\ x \in Nat /\ x + Len(bytes) = r /\ x <= w
      /\ x + Len(bytes) <= Len(v)
  BY <1>1 DEF PrependableBytes
<1> HIDE DEF x
<1>3. /\ u \in Seq(Nat) /\ Len(u) = Len(v)
      /\ \A i \in 1..Len(v) : u[i] = IF i > x /\ i <= x + Len(bytes) THEN bytes[i - x] ELSE v[i]
  BY <1>1, <1>2, CopiedBytes
<1>4. a = [b EXCEPT !.m_unReaderIndex = x, !.m_vBuffer = u]
  BY DEF Prepend, x
<1>5. /\ Readable(b) \in Seq(Nat) /\ Len(Readable(b)) = w - r
      /\ \A i \in 1..(w - r) : Readable(b)[i] = v[r + i]
  BY ReadableType DEF ReadableBytes
<1>6. /\ s \in Seq(Nat) /\ Len(s) = Len(bytes) + Len(Readable(b))
      /\ \A i \in 1..(Len(bytes) + Len(Readable(b))) :
           s[i] = IF i <= Len(bytes) THEN bytes[i] ELSE Readable(b)[i - Len(bytes)]
  BY <1>5, ConcatProperties
<1> HIDE DEF u, a, s
<1>7. a \in BufferType /\ a.m_vBuffer = u /\ a.m_unReaderIndex = x /\ a.m_unWriterIndex = w
  BY <1>1, <1>2, <1>3, <1>4
<1>8. BufferOK(a)
  BY <1>1, <1>2, <1>3, <1>7, BufferOfFields
<1>9. ReadableBytes(a) = w - x
  BY <1>7 DEF ReadableBytes
<1> HIDE DEF v, r, w, BufferType
<1>10. r \in Nat /\ w \in Nat /\ x \in Nat /\ Len(bytes) \in Nat /\ x + Len(bytes) = r
  BY <1>1, <1>2
<1>11. ReadableBytes(a) = Len(s) /\ Len(s) = w - x
  <2>1. Len(s) = Len(bytes) + (w - r)
    BY <1>5, <1>6
  <2>2. Len(bytes) + (w - r) = w - x
    BY <1>10
  <2> QED
    BY <1>9, <2>1, <2>2
<1>12. ASSUME NEW i \in 1..Len(s) PROVE s[i] = u[x + i]
  <2>1. x + i \in 1..Len(v) /\ i \in 1..(Len(bytes) + Len(Readable(b))) /\ x + i > x
    <3>1. i \in 1..(w - x) /\ i \in 1..(Len(bytes) + Len(Readable(b)))
      BY <1>6, <1>11
    <3> QED
      BY <1>1, <1>2, <3>1
  <2>2. CASE i <= Len(bytes)
    <3>1. x + i <= x + Len(bytes) /\ (x + i) - x = i
      BY <1>2, <2>1, <2>2
    <3> QED
      BY <1>3, <1>6, <2>1, <2>2, <3>1
  <2>3. CASE ~(i <= Len(bytes))
    <3>1. ~(x + i <= x + Len(bytes)) /\ i - Len(bytes) \in 1..(w - r) /\ r + (i - Len(bytes)) = x + i
      <4>1. i \in 1..(w - x)
        BY <1>11
      <4> QED
        BY <1>10, <2>3, <4>1
    <3> QED
      BY <1>3, <1>5, <1>6, <2>1, <2>3, <3>1
  <2> QED
    BY <2>2, <2>3
<1>13. Readable(a) = s
  BY <1>6, <1>7, <1>8, <1>11, <1>12, SameReadable
<1> QED
  BY <1>8, <1>13 DEF a, s

\* Bytes retrieved are the first ones.
LEMMA BytesRetrieved ==
    ASSUME NEW b, BufferOK(b), NEW length \in 0..ReadableBytes(b)
    PROVE  LET a == Retrieve(b, length)
           IN  BufferOK(a) /\ Readable(b) = SubSeq(Readable(b), 1, length) \o Readable(a)
<1> DEFINE v == b.m_vBuffer
           r == b.m_unReaderIndex
           w == b.m_unWriterIndex
           a == Retrieve(b, length)
           s == SubSeq(Readable(b), length + 1, Len(Readable(b)))
           BufferType == [m_vBuffer : Seq(Nat), m_unReaderIndex : Nat, m_unWriterIndex : Nat]
<1>1. /\ v \in Seq(Nat) /\ r \in Nat /\ w \in Nat /\ r <= w /\ w <= Len(v) /\ Len(v) \in Nat
      /\ CheapPrepend \in Nat /\ CheapPrepend <= Len(v) /\ b \in BufferType
  BY FieldsOfBuffer DEF BufferOK
<1>2. /\ Readable(b) \in Seq(Nat) /\ Len(Readable(b)) = w - r /\ length \in 0..(w - r)
      /\ \A i \in 1..(w - r) : Readable(b)[i] = v[r + i]
  BY ReadableType DEF ReadableBytes
<1>3. r + length \in Nat /\ r + length <= w
  BY <1>1, <1>2
<1>4. a = [b EXCEPT !.m_unReaderIndex = r + length]
  BY DEF Retrieve
<1>5. /\ a \in BufferType /\ a.m_vBuffer = v /\ a.m_unReaderIndex = r + length
      /\ a.m_unWriterIndex = w
  BY <1>1, <1>3, <1>4
<1>6. BufferOK(a)
  BY <1>1, <1>3, <1>5, BufferOfFields
<1>7. ReadableBytes(a) = w - (r + length)
  BY <1>5 DEF ReadableBytes
<1> HIDE DEF v, r, w, a
<1>8. /\ s \in Seq(Nat) /\ Len(s) = (w - r) - length
      /\ \A i \in 1..((w - r) - length) : s[i] = Readable(b)[length + i]
  <2> DEFINE R == Readable(b)
             m == w - r
  <2>1. R \in Seq(Nat) /\ Len(R) = m /\ m \in Nat /\ length \in 0..m
    BY <1>1, <1>2
  <2> HIDE DEF R, m
  <2>2. \A i \in (length + 1)..m : R[i] \in Nat
    BY <2>1
  <2>3. /\ SubSeq(R, length + 1, m) \in Seq(Nat)
        /\ Len(SubSeq(R, length + 1, m)) = IF length + 1 <= m THEN m - (length + 1) + 1 ELSE 0
        /\ \A i \in 1..(m - (length + 1) + 1) : SubSeq(R, length + 1, m)[i] = R[(length + 1) + i - 1]
    BY <2>1, <2>2, SubSeqProperties
  <2>4. /\ SubSeq(R, length + 1, m) \in Seq(Nat) /\ Len(SubSeq(R, length + 1, m)) = m - length
        /\ \A i \in 1..(m - length) : SubSeq(R, length + 1, m)[i] = R[length + i]
    BY <2>1, <2>3
  <2> QED
    BY <2>1, <2>4 DEF R, m
<1>9. ASSUME NEW i \in 1..Len(s) PROVE s[i] = v[(r + length) + i]
  <2>1. length + i \in 1..(w - r) /\ r + (length + i) = (r + length) + i /\ i \in 1..((w - r) - length)
    BY <1>1, <1>2, <1>8
  <2> HIDE DEF s
  <2> QED
    BY <1>2, <1>8, <2>1
<1>10. Len(s) = ReadableBytes(a)
  BY <1>1, <1>2, <1>7, <1>8
<1>11. Readable(a) = s
  <2> HIDE DEF s
  <2> QED
    BY <1>5, <1>6, <1>8, <1>9, <1>10, SameReadable
<1>12. SubSeq(Readable(b), 1, length) \o s = Readable(b)
  <2>1. SubSeq(Readable(b), 1, Len(Readable(b))) = Readable(b)
    BY <1>2, SubSeqFull
  <2>2. 1 \in 1..(Len(Readable(b)) + 1) /\ length \in (1 - 1)..Len(Readable(b))
        /\ Len(Readable(b)) \in length..Len(Readable(b))
    BY <1>1, <1>2
  <2>3. SubSeq(Readable(b), 1, length) \o s = SubSeq(Readable(b), 1, Len(Readable(b)))
    BY <1>2, <2>2, ConcatAdjacentSubSeq
  <2> QED
    BY <2>1, <2>3
<1> QED
  BY <1>6, <1>11, <1>12 DEF a

\* A new buffer, and one whose bytes are all retrieved.
LEMMA EmptyBuffer ==
    /\ BufferOK(NewBuffer) /\ Readable(NewBuffer) = <<>>
    /\ \A b : BufferOK(b) => BufferOK(RetrieveAll(b)) /\ Readable(RetrieveAll(b)) = <<>>
<1>1. ASSUME NEW b, BufferOK(b), ReadableBytes(b) = 0 PROVE Readable(b) = <<>>
  BY <1>1, ReadableType
<1>2. BufferOK(NewBuffer) /\ ReadableBytes(NewBuffer) = 0
  <2>1. /\ Zeros(CheapPrepend + InitialSize) \in Seq(Nat)
        /\ Len(Zeros(CheapPrepend + InitialSize)) = CheapPrepend + InitialSize
    BY SizeAssumption DEF Zeros
  <2>2. CheapPrepend \in Nat /\ CheapPrepend <= CheapPrepend + InitialSize
    BY SizeAssumption
  <2>3. /\ NewBuffer \in [m_vBuffer : Seq(Nat), m_unReaderIndex : Nat, m_unWriterIndex : Nat]
        /\ NewBuffer.m_vBuffer = Zeros(CheapPrepend + InitialSize)
        /\ NewBuffer.m_unReaderIndex = CheapPrepend /\ NewBuffer.m_unWriterIndex = CheapPrepend
    BY <2>1, <2>2 DEF NewBuffer
  <2> QED
    BY <2>1, <2>2, <2>3, BufferOfFields DEF ReadableBytes
<1>3. ASSUME NEW b, BufferOK(b)
      PROVE  BufferOK(RetrieveAll(b)) /\ ReadableBytes(RetrieveAll(b)) = 0
  <2> DEFINE a == RetrieveAll(b)
  <2>1. /\ a \in [m_vBuffer : Seq(Nat), m_unReaderIndex : Nat, m_unWriterIndex : Nat]
        /\ a.m_vBuffer = b.m_vBuffer /\ a.m_unReaderIndex = CheapPrepend
        /\ a.m_unWriterIndex = CheapPrepend /\ CheapPrepend \in Nat
        /\ CheapPrepend <= Len(b.m_vBuffer)
    BY <1>3, SizeAssumption DEF RetrieveAll, BufferOK
  <2> HIDE DEF a
  <2>2. BufferOK(a) /\ ReadableBytes(a) = 0
    BY <2>1, BufferOfFields DEF ReadableBytes
  <2> QED
    BY <2>2 DEF a
<1> QED
  BY <1>1, <1>2, <1>3

\* reactor/Buffer is a queue of bytes, as TcpConnection and ProtobufCodec take it to be: whatever the
\* vector's size and wherever its indices are, Append and ReadFd put bytes behind the readable
\* ones, Retrieve takes them from the front, Prepend puts them before, and the indices stay in
\* order, although makeSpace moves the bytes or the vector grows.
THEOREM BufferIsQueue ==
    ASSUME NEW b, BufferOK(b), NEW bytes \in Seq(Nat)
    PROVE  /\ BufferOK(AppendBytes(b, bytes)) /\ Readable(AppendBytes(b, bytes)) = Readable(b) \o bytes
           /\ BufferOK(ReadFd(b, bytes)) /\ Readable(ReadFd(b, bytes)) = Readable(b) \o bytes
           /\ Len(bytes) <= PrependableBytes(b) =>
                BufferOK(Prepend(b, bytes)) /\ Readable(Prepend(b, bytes)) = bytes \o Readable(b)
           /\ \A length \in 0..ReadableBytes(b) :
                /\ BufferOK(Retrieve(b, length))
                /\ Readable(b) = SubSeq(Readable(b), 1, length) \o Readable(Retrieve(b, length))
           /\ BufferOK(RetrieveAll(b)) /\ Readable(RetrieveAll(b)) = <<>>
<1>1. ASSUME NEW c, BufferOK(c), NEW s \in Seq(Nat)
      PROVE  BufferOK(AppendBytes(c, s)) /\ Readable(AppendBytes(c, s)) = Readable(c) \o s
  <2> DEFINE e == EnsureWritableBytes(c, Len(s))
  <2>1. Len(s) \in Nat
    OBVIOUS
  <2>2. BufferOK(e) /\ Readable(e) = Readable(c) /\ WriteableBytes(e) >= Len(s)
    BY <1>1, <2>1, SpaceMade
  <2> HIDE DEF e
  <2>3. WriteableBytes(e) \in Nat
    BY <2>2, FieldsOfBuffer DEF WriteableBytes
  <2>4. Len(s) <= WriteableBytes(e)
    BY <2>1, <2>2, <2>3
  <2>5. BufferOK(WriteBytes(e, s)) /\ Readable(WriteBytes(e, s)) = Readable(e) \o s
    BY <2>2, <2>4, BytesWritten
  <2> QED
    BY <2>2, <2>5 DEF AppendBytes, e
<1>2. BufferOK(ReadFd(b, bytes)) /\ Readable(ReadFd(b, bytes)) = Readable(b) \o bytes
  <2> DEFINE k == WriteableBytes(b)
             h == SubSeq(bytes, 1, k)
             t == SubSeq(bytes, k + 1, Len(bytes))
             a == WriteBytes(b, h)
  <2>1. k \in Nat /\ Len(bytes) \in Nat
    BY FieldsOfBuffer DEF WriteableBytes
  <2> HIDE DEF k
  <2>2. CASE Len(bytes) <= k
    BY <2>2, BytesWritten DEF ReadFd, k
  <2>3. CASE ~(Len(bytes) <= k)
    <3>1. h \in Seq(Nat) /\ Len(h) = k /\ t \in Seq(Nat)
      BY <2>1, <2>3
    <3>2. 1 \in 1..(Len(bytes) + 1) /\ k \in (1 - 1)..Len(bytes) /\ Len(bytes) \in k..Len(bytes)
      BY <2>1, <2>3
    <3>3. h \o t = bytes
      <4>1. h \o t = SubSeq(bytes, 1, Len(bytes))
        BY <3>2, ConcatAdjacentSubSeq
      <4> QED
        BY <4>1, SubSeqFull
    <3>4. ReadFd(b, bytes) = AppendBytes(a, t)
      BY <2>3 DEF ReadFd, k
    <3> HIDE DEF h, t
    <3>5. BufferOK(a) /\ Readable(a) = Readable(b) \o h
      <4>1. Len(h) <= WriteableBytes(b)
        BY <2>1, <3>1 DEF k
      <4> QED
        BY <3>1, <4>1, BytesWritten
    <3> HIDE DEF a
    <3>6. /\ BufferOK(AppendBytes(a, t))
          /\ Readable(AppendBytes(a, t)) = (Readable(b) \o h) \o t
      BY <1>1, <3>1, <3>5
    <3>7. (Readable(b) \o h) \o t = Readable(b) \o (h \o t)
      BY <3>1, ReadableType, ConcatAssociative
    <3> QED
      BY <3>3, <3>4, <3>6, <3>7
  <2> QED
    BY <2>2, <2>3
<1> QED
  BY <1>1, <1>2, BytesPrepended, BytesRetrieved, EmptyBuffer
-----------------------------------------------------------------------------
(* Induction and recursion                                                  *)

\* Induction over the naturals, for a set.
LEMMA Induction ==
    ASSUME NEW S, 0 \in S, \A n \in Nat : n \in S => n + 1 \in S
    PROVE  \A n \in Nat : n \in S
<1> SUFFICES ASSUME Nat \ S # {} PROVE FALSE
  OBVIOUS
<1>1. PICK n \in Nat \ S : \A u \in Nat \ S : ~(<<u, n>> \in OpToRel(<, Nat))
  <2>1. Nat \ S \subseteq Nat
    OBVIOUS
  <2> QED
    BY <2>1, NatLessThanWellFounded, WFMin
<1>2. n # 0 /\ n - 1 \in Nat \ S
  OBVIOUS
<1>3. <<n - 1, n>> \in OpToRel(<, Nat)
  BY <1>2 DEF OpToRel
<1> QED
  BY <1>1, <1>2, <1>3

\* f starts with a and steps with h, up to n.
Iterates(f, X, a, h, n) ==
    f \in [0..n -> X] /\ f[0] = a /\ \A i \in 1..n : f[i] = h[<<f[i - 1], i>>]

LEMMA Recursion ==
    ASSUME NEW X, NEW a \in X, NEW h \in [X \X Nat -> X], NEW n \in Nat
    PROVE  \E f : Iterates(f, X, a, h, n)
<1> DEFINE Steps(f, k) == f[0] = a /\ \A i \in 1..k : f[i] = h[<<f[i - 1], i>>]
           S == {k \in Nat : \E f \in [0..k -> X] : Steps(f, k)}
<1>1. 0 \in S
  <2>1. [i \in 0..0 |-> a] \in [0..0 -> X] /\ Steps([i \in 0..0 |-> a], 0)
    OBVIOUS
  <2> QED
    BY <2>1
<1>2. ASSUME NEW k \in Nat, k \in S PROVE k + 1 \in S
  <2>1. PICK f \in [0..k -> X] : Steps(f, k)
    BY <1>2
  <2> DEFINE g == [i \in 0..(k + 1) |-> IF i <= k THEN f[i] ELSE h[<<f[k], k + 1>>]]
  <2>2. g \in [0..(k + 1) -> X]
    OBVIOUS
  <2>3. g[0] = a
    BY <2>1
  <2>4. ASSUME NEW i \in 1..(k + 1) PROVE g[i] = h[<<g[i - 1], i>>]
    <3>1. CASE i <= k
      <4>1. g[i] = f[i] /\ g[i - 1] = f[i - 1] /\ i \in 1..k
        BY <3>1
      <4> QED
        BY <2>1, <4>1
    <3>2. CASE i = k + 1
      <4>1. g[i] = h[<<f[k], k + 1>>] /\ g[i - 1] = f[k]
        BY <3>2
      <4> QED
        BY <3>2, <4>1
    <3> QED
      BY <3>1, <3>2
  <2> HIDE DEF g
  <2> QED
    BY <2>2, <2>3, <2>4
<1> HIDE DEF S
<1>3. n \in S
  BY <1>1, <1>2, Induction
<1> QED
  BY <1>3 DEF S, Iterates

-----------------------------------------------------------------------------
(* Integers                                                                 *)

LEMMA DivMod ==
    ASSUME NEW a \in Int, NEW b \in Nat \ {0}
    PROVE  a \div b \in Int /\ a % b \in 0..(b - 1) /\ a = b * (a \div b) + (a % b)
  OBVIOUS

LEMMA DivModUnique ==
    ASSUME NEW a \in Int, NEW b \in Nat \ {0}, NEW q \in Int, NEW r \in 0..(b - 1), a = b * q + r
    PROVE  a \div b = q /\ a % b = r
  OBVIOUS

LEMMA DivNat ==
    ASSUME NEW a \in Nat, NEW b \in Nat \ {0}
    PROVE  a \div b \in Nat
  OBVIOUS

\* Dividing by p and then by b.
LEMMA DivDiv ==
    ASSUME NEW a \in Nat, NEW p \in Nat \ {0}, NEW b \in Nat \ {0}
    PROVE  (a \div (p * b)) * b + ((a \div p) % b) = a \div p
<1> DEFINE q == a \div p
           r == a % p
           c == q \div b
           d == q % b
<1>1. q \in Nat /\ r \in 0..(p - 1) /\ a = p * q + r
  BY DivMod, DivNat
<1> HIDE DEF q, r
<1>2. c \in Nat /\ d \in 0..(b - 1) /\ q = b * c + d
  <2>1. q \in Int
    BY <1>1
  <2>2. q \div b \in Nat
    BY <1>1, DivNat
  <2> QED
    BY <2>1, <2>2, DivMod
<1> HIDE DEF c, d
<1>3. p * b \in Nat \ {0}
  OBVIOUS
<1>4. p * q = (p * b) * c + p * d
  <2>1. p * (b * c + d) = p * (b * c) + p * d
    BY <1>2
  <2>2. p * (b * c) = (p * b) * c
    BY <1>2
  <2> QED
    BY <1>2, <2>1, <2>2
<1>5. p * d + r \in 0..((p * b) - 1)
  <2>1. p * d \in Nat /\ p * d <= p * (b - 1)
    BY <1>2
  <2>2. p * (b - 1) = p * b - p
    OBVIOUS
  <2>3. p * b \in Nat /\ r \in Nat /\ r <= p - 1
    BY <1>1
  <2> QED
    BY <2>1, <2>2, <2>3
<1>6. a = (p * b) * c + (p * d + r)
  <2>1. (p * b) * c \in Nat /\ p * d \in Nat
    BY <1>2
  <2> QED
    BY <1>1, <1>4, <2>1
<1>7. a \div (p * b) = c
  BY <1>2, <1>3, <1>5, <1>6, DivModUnique
<1>8. q = c * b + d
  BY <1>2
<1> QED
  BY <1>7, <1>8 DEF q, d

\* The powers of Base.
LEMMA Powers ==
    /\ Power[0] = 1
    /\ \A i \in 0..HeaderLength : Power[i] \in Nat \ {0}
    /\ \A i \in 1..HeaderLength : Power[i] = Power[i - 1] * Base
<1> DEFINE h == [e \in Nat \X Nat |-> e[1] * Base]
           P(f) == f = [i \in 0..HeaderLength |-> IF i = 0 THEN 1 ELSE f[i - 1] * Base]
<1>1. Base \in Nat \ {0} /\ HeaderLength \in Nat
  BY CodecAssumption, SizeAssumption
<1>2. \E f : P(f)
  <2>1. h \in [Nat \X Nat -> Nat] /\ \A x \in Nat, i \in Nat : h[<<x, i>>] = x * Base
    BY <1>1
  <2> HIDE DEF h
  <2>2. 1 \in Nat
    OBVIOUS
  <2>3. PICK f : Iterates(f, Nat, 1, h, HeaderLength)
    BY <1>1, <2>1, <2>2, Recursion
  <2>4. ASSUME NEW i \in 1..HeaderLength PROVE f[i] = f[i - 1] * Base
    <3>1. f[i - 1] \in Nat /\ i \in Nat /\ f[i] = h[<<f[i - 1], i>>]
      BY <1>1, <2>3 DEF Iterates
    <3> QED
      BY <2>1, <3>1
  <2>5. f = [i \in 0..HeaderLength |-> IF i = 0 THEN 1 ELSE f[i - 1] * Base]
    BY <1>1, <2>3, <2>4 DEF Iterates
  <2> QED
    BY <2>5
<1>3. P(Power)
  <2>1. Power = CHOOSE f : P(f)
    BY DEF Power
  <2> HIDE DEF P
  <2> QED
    BY <1>2, <2>1
<1>4. /\ Power[0] = 1
      /\ \A i \in 1..HeaderLength : Power[i] = Power[i - 1] * Base
  BY <1>1, <1>3
<1>5. \A i \in 0..HeaderLength : Power[i] \in Nat \ {0}
  <2> DEFINE S == {i \in Nat : i <= HeaderLength => Power[i] \in Nat \ {0}}
  <2>1. 0 \in S
    BY <1>4
  <2>2. ASSUME NEW i \in Nat, i \in S PROVE i + 1 \in S
    <3> SUFFICES ASSUME i + 1 <= HeaderLength PROVE Power[i + 1] \in Nat \ {0}
      OBVIOUS
    <3>1. Power[i] \in Nat \ {0}
      BY <1>1, <2>2
    <3>2. Power[i + 1] = Power[i] * Base
      BY <1>1, <1>4
    <3> QED
      BY <1>1, <3>1, <3>2
  <2> HIDE DEF S
  <2>3. \A i \in Nat : i \in S
    BY <2>1, <2>2, Induction
  <2> QED
    BY <1>1, <2>3 DEF S
<1> QED
  BY <1>4, <1>5

\* Word is a power of Base, greater than 1.
LEMMA WordType == Word \in Nat /\ Word > 1 /\ Base \in Nat /\ Base > 1 /\ HeaderLength \in Nat \ {0}
<1>1. Base \in Nat /\ Base > 1 /\ HeaderLength \in Nat \ {0}
  BY CodecAssumption, SizeAssumption
<1>2. Power[HeaderLength - 1] \in Nat \ {0} /\ Power[HeaderLength] = Power[HeaderLength - 1] * Base
  BY <1>1, Powers
<1>3. \A p \in Nat \ {0} : p * Base \in Nat /\ p * Base > 1
  BY <1>1
<1> QED
  BY <1>1, <1>2, <1>3 DEF Word

\* AsInt32 is the integer of any function that runs through the bytes.
LEMMA ValueOfBytes ==
    ASSUME NEW bytes, NEW F, F[0] = 0,
           \A i \in 0..HeaderLength : F[i] \in Nat,
           \A i \in 1..HeaderLength : bytes[i] \in Nat /\ F[i] = F[i - 1] * Base + bytes[i]
    PROVE  AsInt32(bytes) = Signed(F[HeaderLength])
<1> DEFINE P(f) == f = [i \in 0..HeaderLength |-> IF i = 0 THEN 0 ELSE f[i - 1] * Base + bytes[i]]
           value == CHOOSE f : P(f)
<1>1. HeaderLength \in Nat /\ Base \in Nat
  BY WordType
<1>2. P([i \in 0..HeaderLength |-> F[i]])
  <2> DEFINE f == [i \in 0..HeaderLength |-> F[i]]
  <2>1. \A i \in 0..HeaderLength : f[i] = IF i = 0 THEN 0 ELSE f[i - 1] * Base + bytes[i]
    BY <1>1
  <2> QED
    BY <2>1
<1>3. P(value)
  <2> HIDE DEF P
  <2> QED
    BY <1>2
<1>4. AsInt32(bytes) = Signed(value[HeaderLength])
  BY DEF AsInt32
<1> HIDE DEF value
<1>5. value[HeaderLength] = F[HeaderLength]
  <2> DEFINE S == {i \in Nat : i <= HeaderLength => value[i] = F[i]}
  <2>1. 0 \in S
    BY <1>1, <1>3
  <2>2. ASSUME NEW i \in Nat, i \in S PROVE i + 1 \in S
    <3> SUFFICES ASSUME i + 1 <= HeaderLength PROVE value[i + 1] = F[i + 1]
      OBVIOUS
    <3>1. i + 1 \in 1..HeaderLength /\ i + 1 \in 0..HeaderLength /\ i + 1 # 0 /\ (i + 1) - 1 = i
      BY <1>1
    <3>2. value[i + 1] = value[i] * Base + bytes[i + 1]
      BY <1>3, <3>1
    <3>3. value[i] = F[i]
      BY <1>1, <2>2
    <3>4. F[i + 1] = F[i] * Base + bytes[i + 1]
      BY <3>1
    <3> QED
      BY <3>2, <3>3, <3>4
  <2> HIDE DEF S
  <2>3. HeaderLength \in S
    BY <1>1, <2>1, <2>2, Induction
  <2> QED
    BY <1>1, <2>3 DEF S
<1> QED
  BY <1>4, <1>5

\* Integers of HeaderLength bytes.
Fits(n) == n \in Int /\ -Word <= 2 * n /\ 2 * n < Word

LEMMA SignedBits ==
    /\ \A n : Fits(n) => Signed(n % Word) = n
    /\ \A n \in 0..(Word - 1) : Fits(Signed(n))
<1>1. Word \in Nat \ {0}
  BY WordType
<1>2. ASSUME NEW n, Fits(n) PROVE Signed(n % Word) = n
  <2>1. CASE n >= 0
    <3>1. n \in 0..(Word - 1) /\ n = Word * 0 + n
      BY <1>1, <1>2, <2>1 DEF Fits
    <3>2. n % Word = n
      BY <1>1, <3>1, DivModUnique
    <3> QED
      BY <1>2, <3>2 DEF Signed, Fits
  <2>2. CASE n < 0
    <3>1. n + Word \in 0..(Word - 1) /\ n = Word * (-1) + (n + Word)
      BY <1>1, <1>2, <2>2 DEF Fits
    <3>2. n % Word = n + Word
      <4>1. n \in Int /\ -1 \in Int
        BY <1>2 DEF Fits
      <4> QED
        BY <1>1, <3>1, <4>1, DivModUnique
    <3> QED
      BY <1>1, <1>2, <2>2, <3>2 DEF Signed, Fits
  <2> QED
    BY <1>2, <2>1, <2>2 DEF Fits
<1>3. ASSUME NEW n \in 0..(Word - 1) PROVE Fits(Signed(n))
  BY <1>1 DEF Fits, Signed
<1> QED
  BY <1>2, <1>3

LEMMA AsBytesType ==
    ASSUME NEW n \in Int
    PROVE  /\ AsBytes(n) \in Seq(Nat) /\ Len(AsBytes(n)) = HeaderLength
           /\ \A i \in 1..HeaderLength : AsBytes(n)[i] = ((n % Word) \div Power[HeaderLength - i]) % Base
<1>1. HeaderLength \in Nat /\ Base \in Nat \ {0} /\ Word \in Nat \ {0}
  BY WordType
<1>2. n % Word \in Nat
  BY <1>1, DivMod
<1>3. ASSUME NEW i \in 1..HeaderLength
      PROVE  ((n % Word) \div Power[HeaderLength - i]) % Base \in Nat
  <2>1. Power[HeaderLength - i] \in Nat \ {0}
    BY <1>1, Powers
  <2>2. (n % Word) \div Power[HeaderLength - i] \in Int
    BY <1>2, <2>1, DivNat
  <2> QED
    BY <1>1, <2>2, DivMod
<1> QED
  BY <1>1, <1>3 DEF AsBytes

\* An integer is read back, whatever comes behind it.
LEMMA RoundTrip ==
    ASSUME NEW n, Fits(n), NEW bytes,
           \A i \in 1..HeaderLength : bytes[i] = AsBytes(n)[i]
    PROVE  AsInt32(bytes) = n
<1> DEFINE N == n % Word
           F == [i \in 0..HeaderLength |-> N \div Power[HeaderLength - i]]
<1>1. HeaderLength \in Nat /\ Base \in Nat \ {0} /\ Word \in Nat \ {0} /\ n \in Int
  BY WordType DEF Fits
<1>2. N \in 0..(Word - 1)
  BY <1>1, DivMod
<1> HIDE DEF N
<1>3. \A i \in 0..HeaderLength : Power[HeaderLength - i] \in Nat \ {0}
  BY <1>1, Powers
<1>4. \A i \in 0..HeaderLength : F[i] \in Nat
  BY <1>2, <1>3, DivNat
<1>5. F[0] = 0
  <2>1. F[0] = N \div Word
    BY <1>1 DEF Word
  <2>2. N = Word * 0 + N
    BY <1>1, <1>2
  <2> QED
    BY <1>1, <1>2, <2>1, <2>2, DivModUnique
<1>6. F[HeaderLength] = N
  <2>1. F[HeaderLength] = N \div 1
    BY <1>1, Powers
  <2> QED
    BY <1>2, <2>1
<1>7. ASSUME NEW i \in 1..HeaderLength
      PROVE  bytes[i] \in Nat /\ F[i] = F[i - 1] * Base + bytes[i]
  <2> DEFINE p == Power[HeaderLength - i]
  <2>1. p \in Nat \ {0}
    BY <1>1, <1>3
  <2>2. Power[HeaderLength - (i - 1)] = p * Base
    <3>1. HeaderLength - (i - 1) \in 1..HeaderLength
          /\ (HeaderLength - (i - 1)) - 1 = HeaderLength - i
      BY <1>1
    <3> QED
      BY <3>1, Powers
  <2>3. F[i] = N \div p /\ F[i - 1] = N \div (p * Base)
    BY <1>1, <2>2
  <2>4. bytes[i] = (N \div p) % Base
    BY <1>1, AsBytesType DEF N
  <2> HIDE DEF p, F
  <2>5. (N \div (p * Base)) * Base + ((N \div p) % Base) = N \div p
    <3>1. N \in Nat /\ Base \in Nat \ {0}
      BY <1>1, <1>2
    <3> QED
      BY <2>1, <3>1, DivDiv
  <2>6. bytes[i] \in Nat
    <3> DEFINE q == N \div p
    <3>1. q \in Int
      BY <1>2, <2>1, DivNat
    <3> HIDE DEF q
    <3>2. q % Base \in Nat
      BY <1>1, <3>1, DivMod
    <3> QED
      BY <2>4, <3>2 DEF q
  <2> QED
    BY <2>3, <2>4, <2>5, <2>6
<1> HIDE DEF F
<1>8. AsInt32(bytes) = Signed(N)
  BY <1>4, <1>5, <1>6, <1>7, ValueOfBytes
<1> QED
  BY <1>8, SignedBits DEF N

\* Only the first bytes count.
LEMMA SameInt ==
    ASSUME NEW a, NEW b, \A i \in 1..HeaderLength : a[i] \in Nat /\ a[i] = b[i]
    PROVE  AsInt32(a) = AsInt32(b)
<1> DEFINE h == [e \in Nat \X Nat |-> e[1] * Base + (IF e[2] \in 1..HeaderLength THEN a[e[2]] ELSE 0)]
<1>1. HeaderLength \in Nat /\ Base \in Nat
  BY WordType
<1>2. /\ h \in [Nat \X Nat -> Nat]
      /\ \A x \in Nat, i \in 1..HeaderLength : h[<<x, i>>] = x * Base + a[i]
  BY <1>1
<1> HIDE DEF h
<1>3. 0 \in Nat
  OBVIOUS
<1>4. PICK F : Iterates(F, Nat, 0, h, HeaderLength)
  BY <1>1, <1>2, <1>3, Recursion
<1>5. F[0] = 0 /\ \A i \in 0..HeaderLength : F[i] \in Nat
  BY <1>4 DEF Iterates
<1>6. ASSUME NEW i \in 1..HeaderLength PROVE F[i] = F[i - 1] * Base + a[i]
  <2>1. F[i - 1] \in Nat /\ F[i] = h[<<F[i - 1], i>>]
    BY <1>1, <1>4 DEF Iterates
  <2> QED
    BY <1>2, <2>1
<1>7. AsInt32(a) = Signed(F[HeaderLength])
  BY <1>5, <1>6, ValueOfBytes
<1>8. AsInt32(b) = Signed(F[HeaderLength])
  <2>1. \A i \in 1..HeaderLength : b[i] \in Nat /\ F[i] = F[i - 1] * Base + b[i]
    BY <1>6
  <2> QED
    BY <1>5, <2>1, ValueOfBytes
<1> QED
  BY <1>7, <1>8

\* A check sum fits an integer.
LEMMA CheckSumFits ==
    ASSUME NEW bytes \in Seq(Nat)
    PROVE  Fits(adler32(bytes))
<1> DEFINE X == 0..(Word - 1)
           h == [e \in X \X Nat |-> (3 * e[1] + (IF e[2] \in 1..Len(bytes) THEN bytes[e[2]] ELSE 0)) % Word]
           P(f) == f = [i \in 0..Len(bytes) |-> IF i = 0 THEN 1 ELSE (3 * f[i - 1] + bytes[i]) % Word]
           sum == CHOOSE f : P(f)
<1>1. Word \in Nat \ {0} /\ 1 \in X /\ Len(bytes) \in Nat /\ X \subseteq Nat
  BY WordType
<1>2. ASSUME NEW x \in X, NEW b \in Nat PROVE (3 * x + b) % Word \in X
  <2>1. 3 * x + b \in Int
    BY <1>1
  <2> QED
    BY <1>1, <2>1, DivMod
<1> HIDE DEF X
<1>3. h \in [X \X Nat -> X]
  <2>1. ASSUME NEW e \in X \X Nat PROVE (3 * e[1] + (IF e[2] \in 1..Len(bytes) THEN bytes[e[2]] ELSE 0)) % Word \in X
    <3>1. e[1] \in X /\ (IF e[2] \in 1..Len(bytes) THEN bytes[e[2]] ELSE 0) \in Nat
      BY <1>1
    <3> QED
      BY <1>2, <3>1
  <2> QED
    BY <2>1
<1>4. \A x \in X, i \in 1..Len(bytes) : h[<<x, i>>] = (3 * x + bytes[i]) % Word
  BY <1>1
<1> HIDE DEF h
<1>5. PICK F : Iterates(F, X, 1, h, Len(bytes))
  BY <1>1, <1>3, Recursion
<1>6. ASSUME NEW i \in 1..Len(bytes) PROVE F[i] = (3 * F[i - 1] + bytes[i]) % Word
  <2>1. i - 1 \in 0..Len(bytes)
    BY <1>1
  <2>2. F[i - 1] \in X /\ F[i] = h[<<F[i - 1], i>>]
    BY <1>5, <2>1 DEF Iterates
  <2> QED
    BY <1>4, <2>2
<1>7. P(F)
  BY <1>1, <1>5, <1>6 DEF Iterates
<1>8. P(sum)
  <2> HIDE DEF P
  <2> QED
    BY <1>7
<1>9. adler32(bytes) = Signed(sum[Len(bytes)])
  BY DEF adler32
<1> HIDE DEF sum
<1>10. sum[Len(bytes)] \in X
  <2> DEFINE S == {i \in Nat : i <= Len(bytes) => sum[i] \in X}
  <2>1. 0 \in S
    BY <1>1, <1>8
  <2>2. ASSUME NEW i \in Nat, i \in S PROVE i + 1 \in S
    <3> SUFFICES ASSUME i + 1 <= Len(bytes) PROVE sum[i + 1] \in X
      OBVIOUS
    <3>1. i + 1 \in 0..Len(bytes) /\ i + 1 # 0 /\ (i + 1) - 1 = i
      BY <1>1
    <3>2. sum[i + 1] = (3 * sum[i] + bytes[i + 1]) % Word
      BY <1>8, <3>1
    <3>3. sum[i] \in X /\ bytes[i + 1] \in Nat
      BY <1>1, <2>2
    <3> QED
      BY <1>2, <3>2, <3>3
  <2> HIDE DEF S
  <2>3. Len(bytes) \in S
    BY <1>1, <2>1, <2>2, Induction
  <2> QED
    BY <1>1, <2>3 DEF S
<1> QED
  BY <1>9, <1>10, SignedBits DEF X

-----------------------------------------------------------------------------
(* Sequences of sequences                                                   *)

Strings == Seq(Nat)

\* F[i] is the first i of them in one.
Joins(F, seqs) ==
    /\ F[0] = <<>> /\ \A i \in 0..Len(seqs) : F[i] \in Strings
    /\ \A i \in 1..Len(seqs) : F[i] = F[i - 1] \o seqs[i]

LEMMA EmptyJoined ==
    /\ <<>> \in Strings
    /\ \A s \in Strings : <<>> \o s = s /\ s \o <<>> = s
  BY ConcatEmptySeq DEF Strings

LEMMA JoinAssociative ==
    \A s, t, u \in Strings : (s \o t) \o u = s \o (t \o u)
  BY ConcatAssociative DEF Strings

LEMMA JoinedTypes ==
    /\ \A s, t \in Strings : s \o t \in Strings /\ Len(s \o t) = Len(s) + Len(t)
    /\ \A s, t, u \in Strings : (s \o t) \o u = s \o (t \o u)
<1>1. ASSUME NEW s \in Strings, NEW t \in Strings
      PROVE  s \o t \in Strings /\ Len(s \o t) = Len(s) + Len(t)
  BY DEF Strings
<1>2. ASSUME NEW s \in Strings, NEW t \in Strings, NEW u \in Strings
      PROVE  (s \o t) \o u = s \o (t \o u)
  BY JoinAssociative
<1> QED
  BY <1>1, <1>2

LEMMA FlattenOfJoins ==
    ASSUME NEW seqs \in Seq(Strings), NEW F, Joins(F, seqs)
    PROVE  FlattenSeq(seqs) = F[Len(seqs)]
<1> DEFINE n == Len(seqs)
           P(f) == f = [i \in 1..n |-> IF i = 1 THEN seqs[i] ELSE f[i - 1] \o seqs[i]]
           flatten == CHOOSE f : P(f)
<1>1. n \in Nat /\ \A i \in 1..n : seqs[i] \in Strings
  OBVIOUS
<1>2. CASE n = 0
  <2>1. seqs = <<>>
    BY <1>2
  <2>2. FlattenSeq(seqs) = seqs
    BY <1>2 DEF FlattenSeq
  <2> QED
    BY <1>2, <2>1, <2>2 DEF Joins
<1>3. CASE n # 0
  <2>1. P([i \in 1..n |-> F[i]])
    <3> DEFINE f == [i \in 1..n |-> F[i]]
    <3>1. ASSUME NEW i \in 1..n PROVE f[i] = IF i = 1 THEN seqs[i] ELSE f[i - 1] \o seqs[i]
      <4>1. F[i] = F[i - 1] \o seqs[i]
        BY DEF Joins
      <4>2. CASE i = 1
        <5>1. F[i - 1] = <<>>
          BY <4>2 DEF Joins
        <5> QED
          BY <1>1, <4>1, <4>2, <5>1, EmptyJoined
      <4>3. CASE i # 1
        <5>1. i - 1 \in 1..n
          BY <1>1, <4>3
        <5> QED
          BY <4>1, <4>3, <5>1
      <4> QED
        BY <4>2, <4>3
    <3> QED
      BY <3>1
  <2>2. P(flatten)
    <3> HIDE DEF P
    <3> QED
      BY <2>1
  <2>3. FlattenSeq(seqs) = flatten[n]
    BY <1>3 DEF FlattenSeq
  <2> HIDE DEF flatten
  <2> DEFINE S == {i \in Nat : i + 1 <= n => flatten[i + 1] = F[i + 1]}
  <2>4. 0 \in S
    <3>1. flatten[1] = seqs[1]
      BY <1>1, <1>3, <2>2
    <3>2. 1 \in 1..n
      BY <1>1, <1>3
    <3>3. ASSUME NEW i \in 1..n, i = 1 PROVE F[i] = seqs[i]
      <4>1. F[i] = F[i - 1] \o seqs[i]
        BY DEF Joins
      <4>2. F[i - 1] = <<>>
        BY <3>3 DEF Joins
      <4> QED
        BY <1>1, <4>1, <4>2, EmptyJoined
    <3> QED
      BY <3>1, <3>2, <3>3
  <2>5. ASSUME NEW i \in Nat, i \in S PROVE i + 1 \in S
    <3> SUFFICES ASSUME i + 2 <= n PROVE flatten[i + 2] = F[i + 2]
      OBVIOUS
    <3>1. i + 2 \in 1..n /\ i + 2 # 1 /\ (i + 2) - 1 = i + 1
      BY <1>1
    <3>2. flatten[i + 2] = flatten[i + 1] \o seqs[i + 2]
      BY <2>2, <3>1
    <3>3. flatten[i + 1] = F[i + 1]
      BY <1>1, <2>5
    <3>4. F[i + 2] = F[i + 1] \o seqs[i + 2]
      BY <3>1 DEF Joins
    <3> QED
      BY <3>2, <3>3, <3>4
  <2> HIDE DEF S
  <2>6. n - 1 \in S
    <3>1. n - 1 \in Nat
      BY <1>1, <1>3
    <3> QED
      BY <2>4, <2>5, <3>1, Induction
  <2>7. flatten[n] = F[n]
    BY <1>1, <1>3, <2>6 DEF S
  <2> QED
    BY <2>3, <2>7
<1> QED
  BY <1>2, <1>3

LEMMA JoinsExist ==
    ASSUME NEW seqs \in Seq(Strings)
    PROVE  \E F : Joins(F, seqs)
<1> DEFINE n == Len(seqs)
           h == [e \in Strings \X Nat |-> e[1] \o (IF e[2] \in 1..n THEN seqs[e[2]] ELSE <<>>)]
<1>1. n \in Nat /\ \A i \in 1..n : seqs[i] \in Strings
  OBVIOUS
<1>2. h \in [Strings \X Nat -> Strings]
  <2>1. ASSUME NEW e \in Strings \X Nat
        PROVE  e[1] \o (IF e[2] \in 1..n THEN seqs[e[2]] ELSE <<>>) \in Strings
    <3>1. e[1] \in Strings /\ (IF e[2] \in 1..n THEN seqs[e[2]] ELSE <<>>) \in Strings
      BY <1>1, EmptyJoined
    <3> QED
      BY <3>1, JoinedTypes
  <2> QED
    BY <2>1
<1>3. ASSUME NEW x \in Strings, NEW i \in 1..n PROVE h[<<x, i>>] = x \o seqs[i]
  <2>1. <<x, i>> \in Strings \X Nat
    BY <1>1
  <2> QED
    BY <2>1
<1> HIDE DEF h
<1>4. PICK F : Iterates(F, Strings, <<>>, h, n)
  BY <1>1, <1>2, EmptyJoined, Recursion
<1>5. ASSUME NEW i \in 1..n PROVE F[i] = F[i - 1] \o seqs[i]
  <2>1. i - 1 \in 0..n
    BY <1>1
  <2>2. F[i - 1] \in Strings /\ F[i] = h[<<F[i - 1], i>>]
    BY <1>4, <2>1 DEF Iterates
  <2> QED
    BY <1>3, <2>2
<1> QED
  BY <1>4, <1>5 DEF Iterates, Joins

LEMMA FlattenType ==
    ASSUME NEW seqs \in Seq(Strings)
    PROVE  FlattenSeq(seqs) \in Strings /\ (Len(seqs) = 0 => FlattenSeq(seqs) = <<>>)
<1>1. PICK F : Joins(F, seqs)
  BY JoinsExist
<1>2. Len(seqs) \in Nat /\ FlattenSeq(seqs) = F[Len(seqs)]
  BY <1>1, FlattenOfJoins
<1> QED
  BY <1>1, <1>2 DEF Joins

\* One more sequence at the end.
LEMMA FlattenLonger ==
    ASSUME NEW seqs \in Seq(Strings), NEW longer \in Seq(Strings), Len(longer) = Len(seqs) + 1,
           \A i \in 1..Len(seqs) : longer[i] = seqs[i]
    PROVE  FlattenSeq(longer) = FlattenSeq(seqs) \o longer[Len(longer)]
<1>1. PICK F : Joins(F, longer)
  BY JoinsExist
<1>2. Len(seqs) \in Nat
  OBVIOUS
<1>3. Joins(F, seqs)
  <2>1. \A i \in 0..Len(seqs) : i \in 0..Len(longer)
    BY <1>2
  <2>2. \A i \in 1..Len(seqs) : i \in 1..Len(longer)
    BY <1>2
  <2> QED
    BY <1>1, <2>1, <2>2 DEF Joins
<1>4. F[Len(longer)] = F[Len(seqs)] \o longer[Len(longer)]
  <2>1. Len(longer) \in 1..Len(longer) /\ Len(longer) - 1 = Len(seqs)
    BY <1>2
  <2> QED
    BY <1>1, <2>1 DEF Joins
<1> QED
  BY <1>1, <1>3, <1>4, FlattenOfJoins

\* One more sequence at the head.
LEMMA FlattenHead ==
    ASSUME NEW seqs \in Seq(Strings), NEW tail \in Seq(Strings), Len(seqs) = Len(tail) + 1,
           \A i \in 1..Len(tail) : seqs[i + 1] = tail[i]
    PROVE  FlattenSeq(seqs) = seqs[1] \o FlattenSeq(tail)
<1>1. PICK G : Joins(G, tail)
  BY JoinsExist
<1> DEFINE n == Len(tail)
           s == seqs[1]
           F == [i \in 0..(n + 1) |-> IF i = 0 THEN <<>> ELSE s \o G[i - 1]]
<1>2. n \in Nat /\ s \in Strings /\ Len(seqs) = n + 1
  OBVIOUS
<1>3. \A i \in 0..n : G[i] \in Strings
  BY <1>1 DEF Joins
<1> HIDE DEF n, s
<1>4. ASSUME NEW i \in 0..(n + 1) PROVE F[i] \in Strings
  <2>1. CASE i = 0
    BY <2>1, EmptyJoined
  <2>2. CASE i # 0
    <3>1. G[i - 1] \in Strings
      BY <1>2, <1>3, <2>2
    <3>2. F[i] = s \o G[i - 1]
      BY <2>2
    <3> QED
      BY <1>2, <3>1, <3>2, JoinedTypes
  <2> QED
    BY <2>1, <2>2
<1>5. ASSUME NEW i \in 1..(n + 1) PROVE F[i] = F[i - 1] \o seqs[i]
  <2>1. CASE i = 1
    <3>1. i \in 0..(n + 1) /\ i - 1 \in 0..(n + 1) /\ i # 0 /\ i - 1 = 0
      BY <1>2, <2>1
    <3>2. F[i] = s \o G[i - 1] /\ F[i - 1] = <<>>
      BY <3>1
    <3>3. G[i - 1] = <<>>
      BY <1>1, <3>1 DEF Joins
    <3>4. s \o G[i - 1] = s /\ <<>> \o seqs[i] = s
      BY <1>2, <2>1, <3>3, EmptyJoined DEF s
    <3> QED
      BY <3>2, <3>4
  <2>2. CASE i # 1
    <3>1. i - 1 \in 1..n /\ i - 2 \in 0..n /\ (i - 1) - 1 = i - 2 /\ i - 1 \in 0..n
      BY <1>2, <2>2
    <3>2. F[i] = s \o G[i - 1] /\ F[i - 1] = s \o G[i - 2]
      <4>1. i \in 0..(n + 1) /\ i - 1 \in 0..(n + 1) /\ i # 0 /\ i - 1 # 0
        BY <1>2, <2>2
      <4> QED
        BY <3>1, <4>1
    <3>3. G[i - 1] = G[i - 2] \o tail[i - 1]
      BY <1>1, <3>1 DEF Joins, n
    <3>4. tail[i - 1] = seqs[i] /\ tail[i - 1] \in Strings
      BY <3>1 DEF n
    <3>5. G[i - 2] \in Strings
      BY <1>3, <3>1
    <3>6. s \o (G[i - 2] \o tail[i - 1]) = (s \o G[i - 2]) \o tail[i - 1]
      BY <1>2, <3>4, <3>5, JoinedTypes
    <3> QED
      BY <3>2, <3>3, <3>4, <3>6
  <2> QED
    BY <2>1, <2>2
<1>6. Joins(F, seqs)
  <2>1. F[0] = <<>>
    BY <1>2
  <2> HIDE DEF F
  <2> QED
    BY <1>2, <1>4, <1>5, <2>1 DEF Joins
<1>7. FlattenSeq(seqs) = F[n + 1] /\ FlattenSeq(tail) = G[n]
  BY <1>1, <1>2, <1>6, FlattenOfJoins DEF n
<1>8. F[n + 1] = s \o G[n]
  BY <1>2
<1> QED
  BY <1>7, <1>8 DEF s

-----------------------------------------------------------------------------
(* Frames                                                                   *)

\* The room for Prepend is kept while bytes are appended.
LEMMA RoomKept ==
    ASSUME NEW b, BufferOK(b), b.m_unReaderIndex >= CheapPrepend, NEW length \in Nat,
           NEW bytes \in Seq(Nat)
    PROVE  /\ EnsureWritableBytes(b, length).m_unReaderIndex >= CheapPrepend
           /\ WriteBytes(b, bytes).m_unReaderIndex >= CheapPrepend
<1>1. /\ b.m_unReaderIndex \in Nat /\ CheapPrepend \in Nat
      /\ b \in [m_vBuffer : Seq(Nat), m_unReaderIndex : Nat, m_unWriterIndex : Nat]
  BY FieldsOfBuffer, SizeAssumption DEF BufferOK
<1>2. \/ EnsureWritableBytes(b, length).m_unReaderIndex = b.m_unReaderIndex
      \/ EnsureWritableBytes(b, length).m_unReaderIndex = CheapPrepend
  BY <1>1 DEF EnsureWritableBytes, makeSpace
<1>3. WriteBytes(b, bytes).m_unReaderIndex = b.m_unReaderIndex
  BY <1>1 DEF WriteBytes, HasWritted
<1> QED
  BY <1>1, <1>2, <1>3

\* A frame's content: the name's length, the name and its final 0, the data; then their check sum.
Body(m) == (AsBytes(Len(m.name) + 1) \o Append(m.name, 0)) \o m.data
Content(m) == Body(m) \o AsBytes(adler32(Body(m)))

LEMMA MessageType ==
    ASSUME NEW m \in Message
    PROVE  /\ m.name \in Strings /\ m.data \in Strings /\ m.name \in TypeName /\ m.data \in Data
           /\ m = [name |-> m.name, data |-> m.data]
           /\ Len(m.name) \in Nat \ {0} /\ Len(m.data) \in Nat
           /\ 2 * HeaderLength + Len(m.name) + 1 + Len(m.data) <= MaxMessageLength
<1>1. m \in [name : TypeName, data : Data]
  BY CodecAssumption
<1>2. \A s \in Seq(Byte) : s \in Strings
  <2>1. Byte \subseteq Nat
    BY WordType DEF Byte
  <2>2. ASSUME NEW s \in Seq(Byte) PROVE s \in Seq(Nat)
    BY <2>1, <2>2, SeqMonotonic
  <2> QED
    BY <2>2 DEF Strings
<1>3. m.name \in Seq(Byte) /\ m.name # <<>> /\ m.data \in Seq(Byte)
  BY <1>1, CodecAssumption
<1>4. m.name \in Strings /\ m.data \in Strings
  BY <1>2, <1>3
<1>5. Len(m.name) \in Nat \ {0} /\ Len(m.data) \in Nat
  BY <1>3
<1> QED
  BY <1>1, <1>4, <1>5, LengthAssumption

LEMMA ContentType ==
    ASSUME NEW m \in Message
    PROVE  /\ Body(m) \in Strings /\ Content(m) \in Strings
           /\ Len(Body(m)) = HeaderLength + Len(m.name) + 1 + Len(m.data)
           /\ Len(Content(m)) = 2 * HeaderLength + Len(m.name) + 1 + Len(m.data)
           /\ Len(Content(m)) \in MinMessageLength..MaxMessageLength
           /\ Fits(Len(Content(m))) /\ Fits(Len(m.name) + 1)
<1>1. /\ m.name \in Strings /\ m.data \in Strings
      /\ Len(m.name) \in Nat \ {0} /\ Len(m.data) \in Nat
      /\ 2 * HeaderLength + Len(m.name) + 1 + Len(m.data) <= MaxMessageLength
  BY MessageType
<1>2. /\ HeaderLength \in Nat \ {0} /\ Word \in Nat
      /\ MaxMessageLength \in Nat /\ 2 * MaxMessageLength < Word
  BY WordType, LengthAssumption
<1> DEFINE a == AsBytes(Len(m.name) + 1)
           n == Append(m.name, 0)
           c == AsBytes(adler32(Body(m)))
<1>3. a \in Strings /\ Len(a) = HeaderLength
  BY <1>1, AsBytesType DEF Strings
<1>4. n \in Strings /\ Len(n) = Len(m.name) + 1
  BY <1>1 DEF Strings
<1>5. Body(m) = (a \o n) \o m.data
  BY DEF Body
<1> HIDE DEF a, n
<1>6. a \o n \in Strings /\ Len(a \o n) = Len(a) + Len(n)
  BY <1>3, <1>4, JoinedTypes
<1>7. Body(m) \in Strings /\ Len(Body(m)) = HeaderLength + Len(m.name) + 1 + Len(m.data)
  <2> DEFINE an == a \o n
             data == m.data
             x == Len(m.name)
             y == Len(m.data)
  <2>1. an \in Strings /\ Len(an) = HeaderLength + (x + 1)
    BY <1>3, <1>4, <1>6
  <2>2. data \in Strings /\ Len(data) = y /\ x \in Nat /\ y \in Nat
    BY <1>1
  <2>3. Body(m) = an \o data
    BY <1>5
  <2> HIDE DEF an, data, x, y
  <2>4. Body(m) \in Strings /\ Len(Body(m)) = Len(an) + Len(data)
    BY <2>1, <2>2, <2>3, JoinedTypes
  <2>5. Len(Body(m)) = HeaderLength + x + 1 + y
    BY <1>2, <2>1, <2>2, <2>4
  <2> QED
    BY <2>4, <2>5 DEF x, y
<1>8. c \in Strings /\ Len(c) = HeaderLength
  <2>1. adler32(Body(m)) \in Int
    BY <1>7, CheckSumFits DEF Fits, Strings
  <2> QED
    BY <2>1, AsBytesType DEF Strings
<1>9. Content(m) = Body(m) \o c
  BY DEF Content
<1> HIDE DEF c
<1>10. Content(m) \in Strings /\ Len(Content(m)) = Len(Body(m)) + HeaderLength
  BY <1>7, <1>8, <1>9, JoinedTypes
<1> DEFINE x == Len(m.name)
           y == Len(m.data)
           k == Len(Content(m))
<1>11. k = 2 * HeaderLength + x + 1 + y
  <2>1. x \in Nat /\ y \in Nat /\ k = (HeaderLength + x + 1 + y) + HeaderLength
    BY <1>1, <1>7, <1>10
  <2> HIDE DEF x, y, k
  <2> QED
    BY <1>2, <2>1
<1>12. k \in MinMessageLength..MaxMessageLength /\ Fits(k) /\ Fits(x + 1)
  <2>1. x \in Nat \ {0} /\ y \in Nat /\ 2 * HeaderLength + x + 1 + y <= MaxMessageLength
    BY <1>1
  <2> HIDE DEF x, y, k
  <2> QED
    BY <1>2, <1>11, <2>1 DEF MinMessageLength, Fits
<1> QED
  BY <1>7, <1>10, <1>11, <1>12

\* FillEmptyBuffer puts a frame together, whatever room its buffer has.
LEMMA MessageBytes ==
    ASSUME NEW m \in Message
    PROVE  Bytes(m) = AsBytes(Len(Content(m))) \o Content(m)
<1> DEFINE a == AsBytes(Len(m.name) + 1)
           n == Append(m.name, 0)
           b1 == AppendBytes(NewBuffer, a)
           named == AppendBytes(b1, n)
           room == EnsureWritableBytes(named, Len(m.data))
           filled == WriteBytes(room, m.data)
           c == AsBytes(adler32(Readable(filled)))
           summed == AppendBytes(filled, c)
           l == AsBytes(ReadableBytes(summed))
           Ready(b, s) == BufferOK(b) /\ Readable(b) = s /\ b.m_unReaderIndex >= CheapPrepend
<1>1. Bytes(m) = Readable(Prepend(summed, l))
  BY DEF Bytes, Send, FillEmptyBuffer
<1>2. /\ m.name \in Seq(Nat) /\ m.data \in Seq(Nat)
      /\ Len(m.name) \in Nat \ {0} /\ Len(m.data) \in Nat
  BY MessageType DEF Strings
<1>3. a \in Seq(Nat) /\ Len(a) = HeaderLength /\ n \in Seq(Nat)
  BY <1>2, AsBytesType
<1>4. ASSUME NEW b, NEW s, Ready(b, s), NEW t \in Seq(Nat)
      PROVE  Ready(AppendBytes(b, t), s \o t)
  <2> DEFINE e == EnsureWritableBytes(b, Len(t))
  <2>1. BufferOK(AppendBytes(b, t)) /\ Readable(AppendBytes(b, t)) = s \o t
    BY <1>4, BufferIsQueue
  <2>2. Len(t) \in Nat
    BY <1>4
  <2>3. BufferOK(e) /\ e.m_unReaderIndex >= CheapPrepend
    BY <1>4, <2>2, SpaceMade, RoomKept
  <2> HIDE DEF e
  <2>4. WriteBytes(e, t).m_unReaderIndex >= CheapPrepend
    BY <1>4, <2>2, <2>3, RoomKept
  <2> QED
    BY <2>1, <2>4 DEF AppendBytes, e
<1>5. Ready(NewBuffer, <<>>)
  <2>1. NewBuffer.m_unReaderIndex = CheapPrepend /\ CheapPrepend \in Nat
    BY SizeAssumption DEF NewBuffer
  <2> QED
    BY <2>1, EmptyBuffer
<1> HIDE DEF Ready
<1>6. Ready(b1, a)
  <2>1. Ready(b1, <<>> \o a)
    BY <1>3, <1>4, <1>5
  <2> QED
    BY <1>3, <2>1, EmptyJoined DEF Strings
<1> HIDE DEF b1
<1>7. Ready(named, a \o n)
  BY <1>3, <1>4, <1>6
<1> HIDE DEF named
<1>8. Ready(filled, (a \o n) \o m.data)
  <2>1. BufferOK(named) /\ Readable(named) = a \o n /\ named.m_unReaderIndex >= CheapPrepend
    BY <1>7 DEF Ready
  <2>2. BufferOK(room) /\ Readable(room) = a \o n /\ WriteableBytes(room) >= Len(m.data)
    BY <1>2, <2>1, SpaceMade
  <2>3. room.m_unReaderIndex >= CheapPrepend
    BY <1>2, <2>1, RoomKept
  <2> HIDE DEF room
  <2>4. WriteableBytes(room) \in Nat
    BY <2>2, FieldsOfBuffer DEF WriteableBytes
  <2>5. Len(m.data) <= WriteableBytes(room)
    BY <1>2, <2>2, <2>4
  <2>6. BufferOK(filled) /\ Readable(filled) = (a \o n) \o m.data
    BY <1>2, <2>2, <2>5, BytesWritten
  <2>7. filled.m_unReaderIndex >= CheapPrepend
    BY <1>2, <2>2, <2>3, RoomKept
  <2> QED
    BY <2>6, <2>7 DEF Ready
<1> HIDE DEF filled
<1>9. Ready(filled, Body(m))
  BY <1>8 DEF Body
<1>10. c = AsBytes(adler32(Body(m)))
  BY <1>9 DEF Ready
<1>11. c \in Seq(Nat)
  <2>1. adler32(Body(m)) \in Int
    BY ContentType, CheckSumFits DEF Fits, Strings
  <2> QED
    BY <1>10, <2>1, AsBytesType
<1> HIDE DEF c
<1>12. Ready(summed, Content(m))
  <2>1. Ready(summed, Body(m) \o c)
    BY <1>4, <1>9, <1>11
  <2> QED
    BY <1>10, <2>1 DEF Content
<1> HIDE DEF summed
<1>13. ReadableBytes(summed) = Len(Content(m))
  BY <1>12, ReadableType DEF Ready
<1>14. l = AsBytes(Len(Content(m))) /\ l \in Seq(Nat) /\ Len(l) = HeaderLength
  <2>1. Len(Content(m)) \in Int
    BY ContentType DEF Fits
  <2> QED
    BY <1>13, <2>1, AsBytesType
<1> HIDE DEF l
<1>15. Len(l) <= PrependableBytes(summed)
  <2>1. summed.m_unReaderIndex \in Nat /\ summed.m_unReaderIndex >= CheapPrepend
    BY <1>12, FieldsOfBuffer DEF Ready
  <2> QED
    BY <1>14, <2>1, CodecAssumption, SizeAssumption DEF PrependableBytes
<1>16. Readable(Prepend(summed, l)) = l \o Content(m)
  BY <1>12, <1>14, <1>15, BytesPrepended DEF Ready
<1> QED
  BY <1>1, <1>14, <1>16

LEMMA Elements ==
    ASSUME NEW s \in Strings, NEW t \in Strings
    PROVE  /\ \A i \in 1..Len(s) : (s \o t)[i] = s[i]
           /\ \A i \in 1..Len(t) : (s \o t)[Len(s) + i] = t[i]
<1>1. Len(s) \in Nat /\ Len(t) \in Nat
  BY DEF Strings
<1>2. \A i \in 1..(Len(s) + Len(t)) : (s \o t)[i] = IF i <= Len(s) THEN s[i] ELSE t[i - Len(s)]
  BY ConcatProperties DEF Strings
<1>3. ASSUME NEW i \in 1..Len(s) PROVE (s \o t)[i] = s[i]
  <2>1. i \in 1..(Len(s) + Len(t)) /\ i <= Len(s)
    BY <1>1
  <2> QED
    BY <1>2, <2>1
<1>4. ASSUME NEW i \in 1..Len(t) PROVE (s \o t)[Len(s) + i] = t[i]
  <2>1. Len(s) + i \in 1..(Len(s) + Len(t)) /\ ~(Len(s) + i <= Len(s)) /\ (Len(s) + i) - Len(s) = i
    BY <1>1
  <2> QED
    BY <1>2, <2>1
<1> QED
  BY <1>3, <1>4

\* The elements of s are in t, behind k others.
HasAt(t, k, s) == k \in Nat /\ k + Len(s) <= Len(t) /\ \A i \in 1..Len(s) : t[k + i] = s[i]

LEMMA PartOf ==
    ASSUME NEW t \in Strings, NEW s \in Strings, NEW k, HasAt(t, k, s)
    PROVE  SubSeq(t, k + 1, k + Len(s)) = s
<1> DEFINE n == k + Len(s)
           u == SubSeq(t, k + 1, n)
<1>1. /\ Len(t) \in Nat /\ Len(s) \in Nat /\ n \in Nat /\ k \in Nat /\ n <= Len(t)
      /\ n = k + Len(s) /\ \A i \in 1..Len(s) : t[k + i] = s[i]
  BY DEF Strings, HasAt
<1> HIDE DEF n
<1>2. \A i \in (k + 1)..n : t[i] \in Nat
  BY <1>1 DEF Strings
<1>3. /\ u \in Seq(Nat) /\ Len(u) = IF k + 1 <= n THEN n - (k + 1) + 1 ELSE 0
      /\ \A i \in 1..(n - (k + 1) + 1) : u[i] = t[(k + 1) + i - 1]
  BY <1>1, <1>2, SubSeqProperties
<1> HIDE DEF u
<1>4. Len(u) = Len(s)
  BY <1>1, <1>3
<1>5. ASSUME NEW i \in 1..Len(s) PROVE u[i] = s[i]
  <2>1. i \in 1..(n - (k + 1) + 1) /\ (k + 1) + i - 1 = k + i
    BY <1>1
  <2>2. u[i] = t[k + i]
    BY <1>3, <2>1
  <2> QED
    BY <1>1, <2>2
<1>6. u = s
  BY <1>3, <1>4, <1>5, SeqEqual DEF Strings
<1> QED
  BY <1>6 DEF u, n

\* Parse undoes FillEmptyBuffer.
LEMMA ContentParsed ==
    ASSUME NEW m \in Message
    PROVE  Parse(Content(m)) = [error |-> "NoError", message |-> m]
<1> DEFINE H == HeaderLength
           x == Len(m.name)
           y == Len(m.data)
           a == AsBytes(x + 1)
           n == Append(m.name, 0)
           an == a \o n
           name == m.name
           data == m.data
           body == Body(m)
           c == AsBytes(adler32(body))
           t == Content(m)
<1>1. H \in Nat \ {0}
  BY WordType
<1>2. x \in Nat \ {0} /\ y \in Nat /\ name \in Strings /\ data \in Strings
      /\ name \in TypeName /\ data \in Data /\ m = [name |-> name, data |-> data]
  BY MessageType
<1>3. a \in Strings /\ Len(a) = H
  <2>1. x + 1 \in Int
    BY <1>2
  <2> HIDE DEF x
  <2> QED
    BY <2>1, AsBytesType DEF Strings
<1>4. n \in Strings /\ Len(n) = x + 1 /\ \A i \in 1..x : n[i] = name[i]
  BY <1>2 DEF Strings
<1>5. Fits(adler32(body))
  BY ContentType, CheckSumFits DEF Strings
<1>6. c \in Strings /\ Len(c) = H
  BY <1>5, AsBytesType DEF Strings, Fits
<1>7. body = an \o data /\ t = body \o c
  BY DEF Body, Content
<1>8. /\ body \in Strings /\ t \in Strings
      /\ Len(body) = H + x + 1 + y /\ Len(t) = 2 * H + x + 1 + y /\ Fits(x + 1)
  BY ContentType
<1>9. an \in Strings /\ Len(an) = H + (x + 1)
  <2>1. an \in Strings /\ Len(an) = Len(a) + Len(n)
    <3> HIDE DEF a, n
    <3> QED
      BY <1>3, <1>4, JoinedTypes
  <2> QED
    BY <1>3, <1>4, <2>1
<1>10. Len(name) = x /\ Len(data) = y
  OBVIOUS
<1>11. /\ \A i \in 1..Len(a) : an[i] = a[i]
       /\ \A i \in 1..Len(n) : an[Len(a) + i] = n[i]
  <2> HIDE DEF a, n
  <2> QED
    BY <1>3, <1>4, Elements
<1> HIDE DEF an
<1>12. /\ \A i \in 1..Len(an) : body[i] = an[i]
       /\ \A i \in 1..Len(data) : body[Len(an) + i] = data[i]
       /\ \A i \in 1..Len(body) : t[i] = body[i]
       /\ \A i \in 1..Len(c) : t[Len(body) + i] = c[i]
  <2> HIDE DEF body, data, c, t
  <2>1. /\ \A i \in 1..Len(an) : body[i] = an[i]
        /\ \A i \in 1..Len(data) : body[Len(an) + i] = data[i]
    BY <1>2, <1>7, <1>9, Elements
  <2>2. /\ \A i \in 1..Len(body) : t[i] = body[i]
        /\ \A i \in 1..Len(c) : t[Len(body) + i] = c[i]
    BY <1>6, <1>7, <1>8, Elements
  <2> QED
    BY <2>1, <2>2
<1> HIDE DEF H, x, y, a, n, name, data, body, c, t
<1>13. AsInt32(t) = x + 1
  <2>1. ASSUME NEW i \in 1..H PROVE t[i] = a[i]
    <3>1. i \in 1..Len(a) /\ i \in 1..Len(an) /\ i \in 1..Len(body)
      BY <1>1, <1>2, <1>3, <1>8, <1>9
    <3> QED
      BY <1>11, <1>12, <3>1
  <2> QED
    BY <1>8, <2>1, RoundTrip DEF a, H
<1>14. SubSeq(t, H + 1, H + (x + 1) - 1) = name
  <2>1. ASSUME NEW i \in 1..x PROVE t[H + i] = name[i]
    <3>1. i \in 1..Len(n) /\ H + i \in 1..Len(an) /\ H + i \in 1..Len(body)
      BY <1>1, <1>2, <1>4, <1>8, <1>9
    <3>2. t[H + i] = an[H + i]
      BY <1>12, <3>1
    <3>3. an[H + i] = n[i]
      BY <1>3, <1>11, <3>1
    <3> QED
      BY <1>4, <3>2, <3>3
  <2>2. H + (x + 1) - 1 = H + x /\ H \in Nat /\ H + x <= Len(t)
    BY <1>1, <1>2, <1>8
  <2>3. HasAt(t, H, name)
    BY <1>10, <2>1, <2>2 DEF HasAt
  <2>4. SubSeq(t, H + 1, H + Len(name)) = name
    BY <1>2, <1>8, <2>3, PartOf
  <2> QED
    BY <1>10, <2>2, <2>4
<1>15. SubSeq(t, H + (x + 1) + 1, Len(t) - H) = data
  <2>1. ASSUME NEW i \in 1..y PROVE t[(H + (x + 1)) + i] = data[i]
    <3>1. Len(an) + i \in 1..Len(body)
      BY <1>1, <1>2, <1>8, <1>9
    <3>2. t[Len(an) + i] = data[i]
      BY <1>10, <1>12, <3>1
    <3> QED
      BY <1>9, <3>2
  <2>2. H + (x + 1) \in Nat /\ Len(t) - H = (H + (x + 1)) + y /\ (H + (x + 1)) + y <= Len(t)
    BY <1>1, <1>2, <1>8
  <2>3. HasAt(t, H + (x + 1), data)
    BY <1>10, <2>1, <2>2 DEF HasAt
  <2>4. SubSeq(t, H + (x + 1) + 1, H + (x + 1) + Len(data)) = data
    BY <1>2, <1>8, <2>3, PartOf
  <2> QED
    BY <1>10, <2>2, <2>4
<1>16. SubSeq(t, 1, Len(t) - H) = body
  <2>1. ASSUME NEW i \in 1..Len(body) PROVE t[0 + i] = body[i]
    BY <1>12
  <2>2. 0 \in Nat /\ 0 + 1 = 1 /\ Len(t) - H = 0 + Len(body) /\ 0 + Len(body) <= Len(t)
    BY <1>1, <1>2, <1>8
  <2>3. HasAt(t, 0, body)
    BY <2>1, <2>2 DEF HasAt
  <2>4. SubSeq(t, 0 + 1, 0 + Len(body)) = body
    BY <1>8, <2>3, PartOf
  <2> QED
    BY <2>2, <2>4
<1>17. AsInt32(SubSeq(t, Len(t) - H + 1, Len(t))) = adler32(body)
  <2>1. \A i \in 1..H : t[Len(body) + i] = c[i]
    BY <1>6, <1>12
  <2>2. /\ Len(body) \in Nat /\ Len(t) - H = Len(body) /\ Len(t) = Len(body) + H
    BY <1>1, <1>2, <1>8
  <2>3. Len(body) + H <= Len(t)
    BY <1>1, <2>2
  <2>4. SubSeq(t, Len(body) + 1, Len(t)) = c
    <3>1. HasAt(t, Len(body), c)
      BY <1>6, <2>1, <2>2, <2>3 DEF HasAt
    <3>2. SubSeq(t, Len(body) + 1, Len(body) + Len(c)) = c
      BY <1>6, <1>8, <3>1, PartOf
    <3> QED
      BY <1>6, <2>2, <3>2
  <2>5. AsInt32(c) = adler32(body)
    BY <1>5, RoundTrip DEF c
  <2> QED
    BY <2>2, <2>4, <2>5
<1>18. ~(x + 1 < 2) /\ ~(x + 1 > Len(t) - 2 * H)
  BY <1>1, <1>2, <1>8
<1>19. Parse(t) = [error |-> "NoError", message |-> [name |-> name, data |-> data]]
  BY <1>2, <1>13, <1>14, <1>15, <1>16, <1>17, <1>18 DEF Parse, H
<1> QED
  BY <1>2, <1>19 DEF t

LEMMA IntType ==
    ASSUME NEW a, \A i \in 1..HeaderLength : a[i] \in Nat
    PROVE  AsInt32(a) \in Int
<1> DEFINE h == [e \in Nat \X Nat |-> e[1] * Base + (IF e[2] \in 1..HeaderLength THEN a[e[2]] ELSE 0)]
<1>1. HeaderLength \in Nat /\ Base \in Nat /\ Word \in Nat
  BY WordType
<1>2. /\ h \in [Nat \X Nat -> Nat]
      /\ \A x \in Nat, i \in 1..HeaderLength : h[<<x, i>>] = x * Base + a[i]
  BY <1>1
<1> HIDE DEF h
<1>3. 0 \in Nat
  OBVIOUS
<1>4. PICK F : Iterates(F, Nat, 0, h, HeaderLength)
  BY <1>1, <1>2, <1>3, Recursion
<1>5. F[0] = 0 /\ \A i \in 0..HeaderLength : F[i] \in Nat
  BY <1>4 DEF Iterates
<1>6. ASSUME NEW i \in 1..HeaderLength PROVE F[i] = F[i - 1] * Base + a[i]
  <2>1. F[i - 1] \in Nat /\ F[i] = h[<<F[i - 1], i>>]
    BY <1>1, <1>4 DEF Iterates
  <2> QED
    BY <1>2, <2>1
<1>7. AsInt32(a) = Signed(F[HeaderLength]) /\ F[HeaderLength] \in Nat
  BY <1>1, <1>5, <1>6, ValueOfBytes
<1> QED
  BY <1>1, <1>7 DEF Signed

Frame == Message \union BadFrame
InRange(nLen) == ~(nLen > MaxMessageLength \/ nLen < MinMessageLength)
Rest(bytes) == SubSeq(bytes, HeaderLength + 1, HeaderLength + AsInt32(bytes))

\* What the codec finds in a frame.
LEMMA FrameRead ==
    ASSUME NEW frame \in Frame
    PROVE  LET F == Bytes(frame)
               nLen == AsInt32(F)
           IN  /\ F \in Strings /\ nLen \in Int /\ Len(F) >= HeaderLength
               /\ frame \in Message => Len(F) >= HeaderLength + MinMessageLength
               /\ ~InRange(nLen) => frame \in BadFrame /\ frame.error = "InvalidLength"
               /\ InRange(nLen) =>
                    /\ Len(F) = HeaderLength + nLen
                    /\ \/ frame \in Message /\ Parse(Rest(F)) = [error |-> "NoError", message |-> frame]
                       \/ /\ frame \in BadFrame /\ frame.error = Parse(Rest(F)).error
                          /\ frame.error # "NoError"
<1>1. HeaderLength \in Nat \ {0} /\ MinMessageLength \in Nat /\ MaxMessageLength \in Nat
  BY WordType, LengthAssumption DEF MinMessageLength
<1>2. CASE frame \in Message
  <2> DEFINE c == Content(frame)
             k == Len(c)
             a == AsBytes(k)
             F == Bytes(frame)
  <2>1. c \in Strings /\ k \in MinMessageLength..MaxMessageLength /\ Fits(k) /\ k \in Int
    BY <1>2, ContentType DEF Fits
  <2>2. F = a \o c
    BY <1>2, MessageBytes
  <2> HIDE DEF F, k
  <2>3. a \in Strings /\ Len(a) = HeaderLength
    BY <2>1, AsBytesType DEF Strings
  <2> HIDE DEF c
  <2>4. /\ \A i \in 1..HeaderLength : F[i] = a[i]
        /\ \A i \in 1..Len(c) : F[HeaderLength + i] = c[i]
    <3> HIDE DEF a
    <3> QED
      BY <2>1, <2>2, <2>3, Elements
  <2>5. F \in Strings /\ Len(F) = HeaderLength + k
    <3>1. F \in Strings /\ Len(F) = Len(a) + Len(c)
      <4> HIDE DEF a
      <4> QED
        BY <2>1, <2>2, <2>3, JoinedTypes
    <3> QED
      BY <2>3, <3>1 DEF k
  <2>6. AsInt32(F) = k
    BY <2>1, <2>4, RoundTrip
  <2> HIDE DEF a
  <2>7. InRange(k)
    BY <1>1, <2>1 DEF InRange
  <2>8. Rest(F) = c
    <3>1. HasAt(F, HeaderLength, c)
      BY <1>1, <2>1, <2>4, <2>5 DEF HasAt, k
    <3>2. SubSeq(F, HeaderLength + 1, HeaderLength + Len(c)) = c
      BY <2>1, <2>5, <3>1, PartOf
    <3> QED
      BY <2>6, <3>2 DEF Rest, k
  <2>9. Parse(Rest(F)) = [error |-> "NoError", message |-> frame]
    BY <1>2, <2>8, ContentParsed DEF c
  <2>10. Len(F) >= HeaderLength + MinMessageLength /\ Len(F) >= HeaderLength
    BY <1>1, <2>1, <2>5
  <2> QED
    BY <1>2, <2>1, <2>5, <2>6, <2>7, <2>9, <2>10 DEF F
<1>3. CASE frame \in BadFrame
  <2> DEFINE F == frame.bytes
             nLen == AsInt32(F)
  <2>1. Bytes(frame) = F
    BY <1>3, BadFrameAssumption DEF Bytes
  <2>2. /\ F \in Seq(Byte) /\ Len(F) >= HeaderLength /\ frame \notin Message
        /\ ~InRange(nLen) => frame.error = "InvalidLength"
        /\ InRange(nLen) => Len(F) = HeaderLength + nLen /\ frame.error = Parse(Rest(F)).error
                              /\ frame.error # "NoError"
    BY <1>3, BadFrameAssumption DEF InRange, Rest
  <2>3. F \in Strings
    <3>1. Byte \subseteq Nat
      BY WordType DEF Byte
    <3> HIDE DEF F
    <3> QED
      BY <2>2, <3>1, SeqMonotonic DEF Strings
  <2> HIDE DEF F
  <2>4. nLen \in Int
    <3>1. \A i \in 1..HeaderLength : F[i] \in Nat
      BY <1>1, <2>2, <2>3 DEF Strings
    <3> QED
      BY <3>1, IntType
  <2> QED
    BY <1>3, <2>1, <2>2, <2>3, <2>4
<1> QED
  BY <1>2, <1>3 DEF Frame

\* What has arrived and what is on its way, against the next frame and the ones behind it.
LEMMA Cut ==
    ASSUME NEW b \in Strings, NEW w \in Strings, NEW F \in Strings, NEW R \in Strings, b \o w = F \o R
    PROVE  /\ \A i \in 1..Len(b) : i <= Len(F) => b[i] = F[i]
           /\ Len(b) >= Len(F) => SubSeq(b, 1, Len(F)) = F
<1>1. Len(b) \in Nat /\ Len(F) \in Nat
  BY DEF Strings
<1>2. ASSUME NEW i \in 1..Len(b), i <= Len(F) PROVE b[i] = F[i]
  <2>1. i \in 1..Len(F)
    BY <1>1, <1>2
  <2>2. (b \o w)[i] = b[i]
    BY Elements
  <2>3. (F \o R)[i] = F[i]
    BY <2>1, Elements
  <2> QED
    BY <2>2, <2>3
<1>3. ASSUME Len(b) >= Len(F) PROVE SubSeq(b, 1, Len(F)) = F
  <2>1. \A i \in 1..Len(F) : b[i] = F[i]
    BY <1>1, <1>2, <1>3
  <2>2. HasAt(b, 0, F)
    BY <1>1, <1>3, <2>1 DEF HasAt
  <2>3. SubSeq(b, 0 + 1, 0 + Len(F)) = F
    BY <2>2, PartOf
  <2> QED
    BY <1>1, <2>3
<1> QED
  BY <1>2, <1>3

IsJoin(s, t, u) == s = t \o u

LEMMA CutRest ==
    ASSUME NEW whole \in Strings, NEW b \in Strings, NEW w \in Strings, NEW F \in Strings,
           NEW R \in Strings, NEW r \in Strings,
           IsJoin(whole, b, w), IsJoin(whole, F, R), IsJoin(b, F, r)
    PROVE  IsJoin(R, r, w)
<1>1. F \in Strings /\ r \in Strings /\ w \in Strings
  OBVIOUS
<1>2. r \o w \in Strings
  BY <1>1, JoinedTypes
<1>3. (F \o r) \o w = F \o (r \o w)
  BY <1>1, JoinAssociative
<1>4. F \o (r \o w) = F \o R
  BY <1>3 DEF IsJoin
<1> DEFINE rw == r \o w
<1>5. rw \in Strings /\ F \o rw = F \o R
  BY <1>2, <1>4
<1> HIDE DEF rw
<1>6. rw = R
  BY <1>5, ConcatSimplifications DEF Strings
<1> QED
  BY <1>6 DEF rw, IsJoin

\* The frames of s from the one behind i on.
FramesOf(s, i) == FlattenSeq([j \in 1..(Len(s) - i) |-> Bytes(s[i + j])])

LEMMA FramesOfType ==
    ASSUME NEW s \in Seq(Frame), NEW i \in 0..Len(s)
    PROVE  LET part == [j \in 1..(Len(s) - i) |-> Bytes(s[i + j])]
           IN  part \in Seq(Strings) /\ Len(part) = Len(s) - i /\ FramesOf(s, i) \in Strings
<1> DEFINE part == [j \in 1..(Len(s) - i) |-> Bytes(s[i + j])]
<1>1. Len(s) - i \in Nat /\ \A j \in 1..(Len(s) - i) : s[i + j] \in Frame
  BY DEF Frame
<1>2. \A j \in 1..(Len(s) - i) : Bytes(s[i + j]) \in Strings
  BY <1>1, FrameRead
<1>3. part \in Seq(Strings) /\ Len(part) = Len(s) - i
  BY <1>1, <1>2
<1> HIDE DEF part
<1>4. FlattenSeq(part) \in Strings
  BY <1>3, FlattenType
<1> QED
  BY <1>3, <1>4 DEF part, FramesOf

LEMMA FramesHead ==
    ASSUME NEW s \in Seq(Frame), NEW i \in 0..Len(s)
    PROVE  /\ i = Len(s) => FramesOf(s, i) = <<>>
           /\ i < Len(s) => FramesOf(s, i) = Bytes(s[i + 1]) \o FramesOf(s, i + 1)
<1> DEFINE part == [j \in 1..(Len(s) - i) |-> Bytes(s[i + j])]
           tail == [j \in 1..(Len(s) - (i + 1)) |-> Bytes(s[(i + 1) + j])]
<1>1. Len(s) \in Nat
  OBVIOUS
<1>2. part \in Seq(Strings) /\ Len(part) = Len(s) - i
  BY FramesOfType
<1>3. ASSUME i = Len(s) PROVE FramesOf(s, i) = <<>>
  <2>1. Len(part) = 0
    BY <1>1, <1>2, <1>3
  <2> HIDE DEF part
  <2>2. FlattenSeq(part) = <<>>
    BY <1>2, <2>1, FlattenType
  <2> QED
    BY <2>2 DEF part, FramesOf
<1>4. ASSUME i < Len(s) PROVE FramesOf(s, i) = Bytes(s[i + 1]) \o FramesOf(s, i + 1)
  <2>1. i + 1 \in 0..Len(s)
    BY <1>1, <1>4
  <2>2. tail \in Seq(Strings) /\ Len(tail) = Len(s) - (i + 1)
    BY <2>1, FramesOfType
  <2>3. Len(part) = Len(tail) + 1
    <3> HIDE DEF part, tail
    <3> QED
      BY <1>1, <1>2, <2>2
  <2>4. ASSUME NEW j \in 1..Len(tail) PROVE part[j + 1] = tail[j]
    <3>1. j \in 1..(Len(s) - (i + 1)) /\ j + 1 \in 1..(Len(s) - i) /\ i + (j + 1) = (i + 1) + j
      <4> HIDE DEF part, tail
      <4> QED
        BY <1>1, <2>2
    <3> QED
      BY <3>1
  <2>5. part[1] = Bytes(s[i + 1])
    BY <1>1, <1>4
  <2> HIDE DEF part, tail
  <2>6. FlattenSeq(part) = part[1] \o FlattenSeq(tail)
    BY <1>2, <2>2, <2>3, <2>4, FlattenHead
  <2> QED
    BY <2>5, <2>6 DEF part, tail, FramesOf
<1> QED
  BY <1>3, <1>4

LEMMA FramesLonger ==
    ASSUME NEW s \in Seq(Frame), NEW i \in 0..Len(s), NEW frame \in Frame
    PROVE  FramesOf(Append(s, frame), i) = FramesOf(s, i) \o Bytes(frame)
<1> DEFINE t == Append(s, frame)
           part == [j \in 1..(Len(s) - i) |-> Bytes(s[i + j])]
           longer == [j \in 1..(Len(t) - i) |-> Bytes(t[i + j])]
<1>1. /\ Len(s) \in Nat /\ t \in Seq(Frame) /\ Len(t) = Len(s) + 1
      /\ \A j \in 1..Len(s) : t[j] = s[j] /\ t[Len(s) + 1] = frame
  OBVIOUS
<1> HIDE DEF t
<1>2. i \in 0..Len(t)
  BY <1>1
<1>3. part \in Seq(Strings) /\ Len(part) = Len(s) - i
  BY FramesOfType
<1>4. longer \in Seq(Strings) /\ Len(longer) = Len(t) - i
  BY <1>1, <1>2, FramesOfType
<1>5. Len(longer) = Len(part) + 1
  BY <1>1, <1>3, <1>4
<1>6. ASSUME NEW j \in 1..Len(part) PROVE longer[j] = part[j]
  <2>1. j \in 1..(Len(s) - i) /\ j \in 1..(Len(t) - i) /\ i + j \in 1..Len(s)
    BY <1>1, <1>3
  <2> QED
    BY <1>1, <2>1
<1>7. longer[Len(longer)] = Bytes(frame)
  <2>1. Len(longer) \in 1..(Len(t) - i) /\ i + Len(longer) = Len(s) + 1
    BY <1>1, <1>4
  <2>2. longer[Len(longer)] = Bytes(t[i + Len(longer)])
    BY <2>1
  <2>3. t[Len(s) + 1] = frame
    BY DEF t
  <2> QED
    BY <2>1, <2>2, <2>3
<1> HIDE DEF part, longer
<1>8. FlattenSeq(longer) = FlattenSeq(part) \o longer[Len(longer)]
  BY <1>3, <1>4, <1>5, <1>6, FlattenLonger
<1> QED
  BY <1>7, <1>8 DEF part, longer, t, FramesOf

-----------------------------------------------------------------------------
(* The connection                                                           *)

CodecTypes ==
    /\ sent \in Seq(Frame) /\ wire \in Strings /\ BufferOK(m_InputBuffer)
    /\ at \in {"poll", "message"}
    /\ m_mpCallBack \subseteq TypeName
    /\ received \in Seq([message : Message, callBack : TypeName \union {DefaultCallBack}])

\* The stream, as StreamKept has it.
StreamInv ==
    /\ Len(received) \in 0..Len(sent)
    /\ Readable(m_InputBuffer) \o wire = FramesOf(sent, Len(received))

\* What MessagesInOrder needs: a callback that was used is still registered.
OrderInv ==
    \A i \in 1..Len(received) :
        /\ received[i].message = sent[i]
        /\ received[i].callBack # DefaultCallBack =>
               received[i].callBack = sent[i].name /\ sent[i].name \in m_mpCallBack
        /\ received[i].callBack = DefaultCallBack =>
            \A j \in 1..(i - 1) : received[j].callBack # DefaultCallBack => sent[j].name # sent[i].name

CodecInv == CodecTypes /\ StreamInv /\ OrderInv /\ CompleteFramesHandled

LEMMA ReadableString ==
    ASSUME NEW b, BufferOK(b)
    PROVE  Readable(b) \in Strings /\ Len(Readable(b)) = ReadableBytes(b) /\ ReadableBytes(b) \in Nat
<1>1. Readable(b) \in Seq(Nat) /\ Len(Readable(b)) = ReadableBytes(b)
  BY ReadableType
<1> QED
  BY <1>1 DEF Strings

\* The next frame, as far as it has arrived.
LEMMA NextFrame ==
    ASSUME CodecTypes, StreamInv, Len(received) < Len(sent),
           NEW F, F = Bytes(sent[Len(received) + 1]),
           NEW b, b = Readable(m_InputBuffer), Len(b) >= MinMessageLength + HeaderLength
    PROVE  /\ F \in Strings /\ AsInt32(b) = AsInt32(F)
           /\ InRange(AsInt32(F)) /\ Len(b) >= AsInt32(F) + HeaderLength =>
                /\ Rest(b) = Rest(F)
                /\ LET after == Retrieve(m_InputBuffer, HeaderLength + AsInt32(b))
                   IN  BufferOK(after) /\ Readable(after) \o wire = FramesOf(sent, Len(received) + 1)
<1> DEFINE k == Len(received) + 1
           R == FramesOf(sent, k)
           nLen == AsInt32(F)
           H == HeaderLength
<1>1. H \in Nat \ {0} /\ MinMessageLength \in Nat /\ MaxMessageLength \in Nat
  BY WordType, LengthAssumption DEF MinMessageLength
<1>2. /\ k \in 1..Len(sent) /\ k \in 0..Len(sent) /\ sent[k] \in Frame
      /\ Len(received) \in 0..Len(sent) /\ sent \in Seq(Frame)
  BY DEF CodecTypes, StreamInv
<1>3. F \in Strings /\ nLen \in Int /\ Len(F) >= H
      /\ (InRange(nLen) => Len(F) = H + nLen)
  BY <1>2, FrameRead
<1>4. R \in Strings
  BY <1>2, FramesOfType
<1>5. b \in Strings /\ wire \in Strings /\ Len(b) = ReadableBytes(m_InputBuffer) /\ BufferOK(m_InputBuffer)
  BY ReadableString DEF CodecTypes
<1>6. b \o wire = F \o R
  BY <1>2, FramesHead DEF StreamInv
<1>7. Len(b) \in Nat /\ Len(F) \in Nat
  BY <1>3, <1>5 DEF Strings
<1> HIDE DEF R
<1>8. \A i \in 1..Len(b) : i <= Len(F) => b[i] = F[i]
  BY <1>3, <1>4, <1>5, <1>6, Cut
<1>9. AsInt32(b) = nLen
  <2>1. \A i \in 1..H : b[i] \in Nat /\ b[i] = F[i]
    <3>1. \A i \in 1..H : i \in 1..Len(b) /\ i <= Len(F)
      BY <1>1, <1>3, <1>7
    <3>2. \A i \in 1..Len(b) : b[i] \in Nat
      BY <1>5 DEF Strings
    <3> QED
      BY <1>8, <3>1, <3>2
  <2> QED
    BY <2>1, SameInt
<1> HIDE DEF nLen
<1>10. ASSUME InRange(nLen), Len(b) >= nLen + H
       PROVE  /\ Rest(b) = Rest(F)
              /\ BufferOK(Retrieve(m_InputBuffer, H + nLen))
              /\ Readable(Retrieve(m_InputBuffer, H + nLen)) \o wire = R
  <2>1. nLen \in Nat /\ Len(F) = H + nLen /\ Len(b) >= Len(F)
    BY <1>1, <1>3, <1>7, <1>10 DEF InRange
  <2>2. Rest(b) = Rest(F)
    <3> DEFINE s == Rest(F)
    <3>1. s = SubSeq(F, H + 1, H + nLen)
      BY DEF Rest, nLen
    <3>2. \A i \in (H + 1)..(H + nLen) : F[i] \in Nat
      BY <1>1, <1>3, <2>1 DEF Strings
    <3>3. /\ s \in Seq(Nat) /\ Len(s) = IF H + 1 <= H + nLen THEN (H + nLen) - (H + 1) + 1 ELSE 0
          /\ \A i \in 1..((H + nLen) - (H + 1) + 1) : s[i] = F[(H + 1) + i - 1]
      <4>1. H + 1 \in Int /\ H + nLen \in Int
        BY <1>1, <2>1
      <4> HIDE DEF s
      <4> QED
        BY <3>1, <3>2, <4>1, SubSeqProperties
    <3> HIDE DEF s
    <3>4. s \in Strings /\ Len(s) = nLen
      <4>1. Len(s) = IF H + 1 <= H + nLen THEN (H + nLen) - (H + 1) + 1 ELSE 0
        BY <3>3
      <4>2. H \in Nat /\ nLen \in Nat
        BY <1>1, <2>1
      <4>3. Len(s) = nLen
        BY <4>1, <4>2
      <4> QED
        BY <3>3, <4>3 DEF Strings
    <3>5. ASSUME NEW i \in 1..Len(s) PROVE b[H + i] = s[i]
      <4>1. /\ i \in 1..((H + nLen) - (H + 1) + 1) /\ (H + 1) + i - 1 = H + i
            /\ H + i \in 1..Len(b) /\ H + i <= Len(F)
        BY <1>1, <1>7, <2>1, <3>4
      <4> QED
        BY <1>8, <3>3, <4>1
    <3>6. HasAt(b, H, s)
      BY <1>1, <1>7, <2>1, <3>4, <3>5 DEF HasAt
    <3>7. SubSeq(b, H + 1, H + Len(s)) = s
      BY <1>5, <3>4, <3>6, PartOf
    <3>8. Rest(b) = SubSeq(b, H + 1, H + nLen)
      BY <1>9 DEF Rest
    <3> QED
      BY <3>4, <3>7, <3>8 DEF s
  <2> DEFINE after == Retrieve(m_InputBuffer, H + nLen)
  <2>3. H + nLen \in 0..ReadableBytes(m_InputBuffer)
    BY <1>1, <1>5, <1>7, <2>1
  <2>4. BufferOK(after) /\ b = SubSeq(b, 1, H + nLen) \o Readable(after)
    BY <1>5, <2>3, BytesRetrieved
  <2> HIDE DEF after
  <2>5. Readable(after) \in Strings
    BY <2>4, ReadableString
  <2>6. b = SubSeq(b, 1, Len(F)) \o Readable(after)
    BY <2>1, <2>4
  <2> DEFINE r == Readable(after)
  <2>7. r \in Strings /\ b = SubSeq(b, 1, Len(F)) \o r
    BY <2>5, <2>6
  <2> HIDE DEF r
  <2>8. SubSeq(b, 1, Len(F)) = F
    BY <1>3, <1>4, <1>5, <1>6, <2>1, Cut
  <2>9. b = F \o r
    BY <2>7, <2>8
  <2> DEFINE whole == F \o R
  <2>10. whole \in Strings
    BY <1>3, <1>4, JoinedTypes
  <2>11. IsJoin(whole, b, wire) /\ IsJoin(whole, F, R) /\ IsJoin(b, F, r)
    BY <1>6, <2>9 DEF IsJoin
  <2> HIDE DEF whole
  <2>12. IsJoin(R, r, wire)
    BY <1>3, <1>4, <1>5, <2>7, <2>10, <2>11, CutRest
  <2> QED
    BY <2>2, <2>4, <2>12 DEF r, after, IsJoin
<1> QED
  BY <1>3, <1>9, <1>10 DEF nLen, R

\* OnMessage takes no notice of the frame yet.
NotDue(frame, arrived) ==
    \/ arrived < Len(Bytes(frame))
    \/ frame \in BadFrame /\ arrived < HeaderLength + MinMessageLength

\* One turn of OnMessage's loop: the next frame is not there yet, or too short to look at, or it
\* is a wrong one and is reported, or its message is given to the callback and its bytes are retrieved.
LEMMA Turn ==
    ASSUME CodecTypes, StreamInv, OnMessage
    PROVE  /\ UNCHANGED <<sent, wire, m_mpCallBack>>
           /\ \/ /\ at' = "poll" /\ UNCHANGED <<m_InputBuffer, connected, error, received>>
                 /\ Len(received) < Len(sent) =>
                        NotDue(sent[Len(received) + 1], ReadableBytes(m_InputBuffer))
              \/ /\ Len(received) < Len(sent) /\ sent[Len(received) + 1] \in BadFrame
                 /\ error' = sent[Len(received) + 1].error /\ connected' = FALSE
                 /\ at' = "poll" /\ UNCHANGED <<m_InputBuffer, received>>
              \/ /\ Len(received) < Len(sent) /\ sent[Len(received) + 1] \in Message
                 /\ received' = Append(received, OnProtobufMessage(sent[Len(received) + 1]))
                 /\ BufferOK(m_InputBuffer')
                 /\ Readable(m_InputBuffer') \o wire = FramesOf(sent, Len(received) + 1)
                 /\ at' = "message"
<1> DEFINE b == Readable(m_InputBuffer)
           k == Len(received) + 1
           F == Bytes(sent[k])
           nLen == AsInt32(b)
<1>1. HeaderLength \in Nat \ {0} /\ MinMessageLength \in Nat /\ MaxMessageLength \in Nat
  BY WordType, LengthAssumption DEF MinMessageLength
<1>2. b \in Strings /\ Len(b) = ReadableBytes(m_InputBuffer) /\ Len(b) \in Nat /\ wire \in Strings
  BY ReadableString DEF CodecTypes
<1>3. UNCHANGED <<sent, wire, m_mpCallBack>>
  BY DEF OnMessage
<1>4. ASSUME Len(received) < Len(sent)
      PROVE  /\ sent[k] \in Frame /\ F \in Strings /\ Len(F) \in Nat
             /\ sent[k] \in Message => Len(F) >= HeaderLength + MinMessageLength
             /\ AsInt32(F) \in Int
             /\ ~InRange(AsInt32(F)) => sent[k] \in BadFrame /\ sent[k].error = "InvalidLength"
             /\ InRange(AsInt32(F)) =>
                  /\ Len(F) = HeaderLength + AsInt32(F)
                  /\ \/ sent[k] \in Message /\ Parse(Rest(F)) = [error |-> "NoError", message |-> sent[k]]
                     \/ /\ sent[k] \in BadFrame /\ sent[k].error = Parse(Rest(F)).error
                        /\ sent[k].error # "NoError"
  <2>1. sent[k] \in Frame
    BY <1>4 DEF CodecTypes, StreamInv
  <2>2. Len(F) \in Nat
    BY <2>1, FrameRead DEF Strings
  <2> QED
    BY <2>1, <2>2, FrameRead
<1>5. CASE ~HasMinimum
  <2>1. at' = "poll" /\ UNCHANGED <<m_InputBuffer, connected, error, received>>
    BY <1>5 DEF OnMessage
  <2>2. ASSUME Len(received) < Len(sent) PROVE NotDue(sent[k], ReadableBytes(m_InputBuffer))
    <3>1. ReadableBytes(m_InputBuffer) < HeaderLength + MinMessageLength
      BY <1>1, <1>2, <1>5 DEF HasMinimum
    <3>2. sent[k] \in Message => ReadableBytes(m_InputBuffer) < Len(F)
      BY <1>1, <1>2, <1>4, <2>2, <3>1
    <3> QED
      BY <1>4, <2>2, <3>1, <3>2 DEF NotDue, Frame
  <2> QED
    BY <1>3, <2>1, <2>2
<1>6. CASE HasMinimum
  <2>1. Len(b) >= MinMessageLength + HeaderLength
    BY <1>2, <1>6 DEF HasMinimum
  <2>2. Len(received) < Len(sent)
    <3> SUFFICES ASSUME Len(received) = Len(sent) PROVE FALSE
      BY DEF StreamInv, CodecTypes
    <3>1. b \o wire = <<>>
      BY FramesHead DEF StreamInv, CodecTypes
    <3>2. b = <<>>
      BY <1>2, <3>1, ConcatSimplifications DEF Strings
    <3>3. Len(b) = 0
      BY <3>2
    <3> QED
      BY <1>1, <2>1, <3>3
  <2>3. /\ nLen = AsInt32(F)
        /\ InRange(AsInt32(F)) /\ Len(b) >= AsInt32(F) + HeaderLength =>
                /\ Rest(b) = Rest(F)
                /\ LET after == Retrieve(m_InputBuffer, HeaderLength + AsInt32(b))
                   IN  BufferOK(after) /\ Readable(after) \o wire = FramesOf(sent, k)
    BY <2>1, <2>2, NextFrame
  <2>4. CASE ~InRange(nLen)
    <3>1. ErrorCallBack("InvalidLength")
      BY <1>6, <2>4 DEF OnMessage, InRange
    <3>2. sent[k] \in BadFrame /\ sent[k].error = "InvalidLength"
      BY <1>4, <2>2, <2>3, <2>4
    <3> QED
      BY <1>3, <2>2, <3>1, <3>2 DEF ErrorCallBack
  <2>5. CASE InRange(nLen) /\ Len(b) < nLen + HeaderLength
    <3>1. at' = "poll" /\ UNCHANGED <<m_InputBuffer, connected, error, received>>
      BY <1>6, <2>5 DEF OnMessage, InRange
    <3>2. Len(F) = HeaderLength + nLen /\ nLen \in Int
      BY <1>4, <2>2, <2>3, <2>5
    <3>3. ReadableBytes(m_InputBuffer) < Len(F)
      BY <1>1, <1>2, <2>5, <3>2
    <3> QED
      BY <1>3, <3>1, <3>3 DEF NotDue
  <2>6. CASE InRange(nLen) /\ ~(Len(b) < nLen + HeaderLength)
    <3> DEFINE parsed == Parse(Rest(b))
    <3>1. nLen \in Int /\ Len(b) >= nLen + HeaderLength
      BY <1>1, <1>2, <1>4, <2>2, <2>3, <2>6
    <3>2. Rest(b) = Rest(F)
      BY <2>3, <2>6, <3>1
    <3>3. /\ parsed.error # "NoError" => ErrorCallBack(parsed.error)
          /\ parsed.error = "NoError" =>
                /\ received' = Append(received, OnProtobufMessage(parsed.message))
                /\ m_InputBuffer' = Retrieve(m_InputBuffer, HeaderLength + nLen)
                /\ at' = AfterMessage
      BY <1>6, <2>6 DEF OnMessage, InRange, Rest
    <3> HIDE DEF parsed
    <3>4. CASE sent[k] \in Message /\ parsed = [error |-> "NoError", message |-> sent[k]]
      <4>1. parsed.error = "NoError" /\ parsed.message = sent[k]
        BY <3>4
      <4>2. /\ received' = Append(received, OnProtobufMessage(sent[k]))
            /\ m_InputBuffer' = Retrieve(m_InputBuffer, HeaderLength + nLen)
            /\ at' = "message"
        BY <3>3, <4>1 DEF AfterMessage
      <4>3. BufferOK(m_InputBuffer') /\ Readable(m_InputBuffer') \o wire = FramesOf(sent, k)
        BY <2>3, <2>6, <3>1, <4>2
      <4> QED
        BY <1>3, <2>2, <3>4, <4>2, <4>3
    <3>5. CASE sent[k] \in BadFrame /\ sent[k].error = parsed.error /\ sent[k].error # "NoError"
      <4>1. ErrorCallBack(parsed.error)
        BY <3>3, <3>5
      <4> QED
        BY <1>3, <2>2, <3>5, <4>1 DEF ErrorCallBack
    <3>6. \/ sent[k] \in Message /\ parsed = [error |-> "NoError", message |-> sent[k]]
          \/ sent[k] \in BadFrame /\ sent[k].error = parsed.error /\ sent[k].error # "NoError"
      BY <1>4, <2>2, <2>3, <2>6, <3>2 DEF parsed
    <3> QED
      BY <3>4, <3>5, <3>6
  <2> QED
    BY <2>4, <2>5, <2>6
<1> QED
  BY <1>5, <1>6

-----------------------------------------------------------------------------
(* The invariant                                                            *)

LEMMA NoNameIsDefault == DefaultCallBack \notin TypeName /\ Message \subseteq Frame /\ BadFrame \subseteq Frame
  BY CodecAssumption DEF DefaultCallBack, Frame

LEMMA CodecInit == Init => CodecInv
<1> SUFFICES ASSUME Init PROVE CodecInv
  OBVIOUS
<1>1. BufferOK(NewBuffer) /\ Readable(NewBuffer) = <<>>
  BY EmptyBuffer
<1>2. <<>> \in Strings /\ <<>> \o <<>> = <<>>
  BY EmptyJoined
<1>3. CodecTypes
  BY <1>1, <1>2 DEF Init, CodecTypes
<1>4. Len(received) = 0 /\ Len(sent) = 0
  BY DEF Init
<1>5. StreamInv
  <2>1. /\ sent \in Seq(Frame) /\ Len(received) \in 0..Len(sent) /\ Len(received) = Len(sent)
    BY <1>3, <1>4 DEF CodecTypes
  <2>2. FramesOf(sent, Len(received)) = <<>>
    BY <2>1, FramesHead
  <2> QED
    BY <1>1, <1>2, <1>4, <2>2 DEF Init, StreamInv
<1>6. OrderInv
  BY <1>4 DEF OrderInv
<1>7. CompleteFramesHandled
  BY <1>4 DEF CompleteFramesHandled
<1> QED
  BY <1>3, <1>5, <1>6, <1>7 DEF CodecInv

\* A received message goes on with those before it.
LEMMA OneMore ==
    ASSUME CodecTypes, StreamInv, OrderInv, Len(received) < Len(sent),
           sent[Len(received) + 1] \in Message,
           UNCHANGED <<sent, m_mpCallBack>>,
           received' = Append(received, OnProtobufMessage(sent[Len(received) + 1]))
    PROVE  /\ received' \in Seq([message : Message, callBack : TypeName \union {DefaultCallBack}])
           /\ Len(received') = Len(received) + 1
           /\ OrderInv'
<1> DEFINE n == Len(received)
           m == sent[n + 1]
           e == OnProtobufMessage(m)
           E == [message : Message, callBack : TypeName \union {DefaultCallBack}]
<1>1. received \in Seq(E) /\ n \in Nat /\ Len(sent) \in Nat /\ m_mpCallBack \subseteq TypeName
  BY DEF CodecTypes
<1>2. m \in Message /\ m.name \in TypeName /\ m.name # DefaultCallBack
  BY CodecAssumption, NoNameIsDefault
<1>3. /\ e \in E /\ e.message = m
      /\ e.callBack # DefaultCallBack => e.callBack = m.name /\ m.name \in m_mpCallBack
      /\ e.callBack = DefaultCallBack => m.name \notin m_mpCallBack
  BY <1>2 DEF OnProtobufMessage
<1> HIDE DEF e
<1>4. /\ received' \in Seq(E) /\ Len(received') = n + 1 /\ received'[n + 1] = e
      /\ \A i \in 1..n : received'[i] = received[i]
  <2>1. received' = Append(received, e)
    BY DEF e
  <2> HIDE DEF E
  <2> QED
    BY <1>1, <1>3, <2>1
<1>5. OrderInv'
  <2> SUFFICES ASSUME NEW i \in 1..(n + 1)
               PROVE  /\ received'[i].message = sent[i]
                      /\ received'[i].callBack # DefaultCallBack =>
                             received'[i].callBack = sent[i].name /\ sent[i].name \in m_mpCallBack
                      /\ received'[i].callBack = DefaultCallBack =>
                            \A j \in 1..(i - 1) :
                                received'[j].callBack # DefaultCallBack => sent[j].name # sent[i].name
    BY <1>4 DEF OrderInv
  <2>1. \A j \in 1..(i - 1) : j \in 1..n /\ received'[j] = received[j]
    BY <1>1, <1>4
  <2>2. CASE i \in 1..n
    BY <1>4, <2>1, <2>2 DEF OrderInv
  <2>3. CASE i = n + 1
    <3>1. received'[i] = e /\ sent[i] = m
      BY <1>4, <2>3
    <3>2. ASSUME e.callBack = DefaultCallBack, NEW j \in 1..(i - 1), received'[j].callBack # DefaultCallBack
          PROVE  sent[j].name # m.name
      BY <1>3, <2>1, <3>2 DEF OrderInv
    <3> QED
      BY <1>3, <3>1, <3>2
  <2> QED
    BY <1>1, <2>2, <2>3
<1> QED
  BY <1>4, <1>5

LEMMA OnMessageStep == CodecInv /\ OnMessage => CodecInv'
<1> SUFFICES ASSUME CodecInv, OnMessage PROVE CodecInv'
  OBVIOUS
<1>1. CodecTypes /\ StreamInv /\ OrderInv /\ CompleteFramesHandled
  BY DEF CodecInv
<1>2. UNCHANGED <<sent, wire, m_mpCallBack>>
  BY DEF OnMessage
<1>3. /\ sent \in Seq(Frame) /\ Len(sent) \in Nat /\ Len(received) \in 0..Len(sent)
      /\ BufferOK(m_InputBuffer) /\ ReadableBytes(m_InputBuffer) \in Nat
  BY <1>1, ReadableString DEF CodecTypes, StreamInv
<1> DEFINE k == Len(received) + 1
<1>4. CASE /\ at' = "poll" /\ UNCHANGED <<m_InputBuffer, connected, error, received>>
           /\ Len(received) < Len(sent) => NotDue(sent[k], ReadableBytes(m_InputBuffer))
  <2>1. CodecTypes' /\ StreamInv' /\ OrderInv'
    BY <1>1, <1>2, <1>4 DEF CodecTypes, StreamInv, OrderInv
  <2>2. ASSUME k <= Len(sent), ReadableBytes(m_InputBuffer) >= Len(Bytes(sent[k]))
        PROVE  sent[k] \in BadFrame /\ ~(ReadableBytes(m_InputBuffer) >= HeaderLength + MinMessageLength)
    <3>1. Len(Bytes(sent[k])) \in Nat
      BY <1>3, <2>2, FrameRead DEF Strings
    <3>2. NotDue(sent[k], ReadableBytes(m_InputBuffer))
      BY <1>3, <1>4, <2>2
    <3>3. HeaderLength \in Nat /\ MinMessageLength \in Nat
      BY WordType DEF MinMessageLength
    <3> QED
      BY <1>3, <2>2, <3>1, <3>2, <3>3 DEF NotDue
  <2>3. CompleteFramesHandled'
    BY <1>2, <1>4, <2>2 DEF CompleteFramesHandled
  <2> QED
    BY <2>1, <2>3 DEF CodecInv
<1>5. CASE /\ Len(received) < Len(sent) /\ sent[k] \in BadFrame
           /\ error' = sent[k].error /\ connected' = FALSE
           /\ at' = "poll" /\ UNCHANGED <<m_InputBuffer, received>>
  <2>1. CodecTypes' /\ StreamInv' /\ OrderInv'
    BY <1>1, <1>2, <1>5 DEF CodecTypes, StreamInv, OrderInv
  <2>2. CompleteFramesHandled'
    BY <1>2, <1>5 DEF CompleteFramesHandled
  <2> QED
    BY <2>1, <2>2 DEF CodecInv
<1>6. CASE /\ Len(received) < Len(sent) /\ sent[k] \in Message
           /\ received' = Append(received, OnProtobufMessage(sent[k]))
           /\ BufferOK(m_InputBuffer')
           /\ Readable(m_InputBuffer') \o wire = FramesOf(sent, k)
           /\ at' = "message"
  <2>1. /\ received' \in Seq([message : Message, callBack : TypeName \union {DefaultCallBack}])
        /\ Len(received') = k
        /\ OrderInv'
    BY <1>1, <1>2, <1>6, OneMore
  <2>2. CodecTypes'
    BY <1>1, <1>2, <1>6, <2>1 DEF CodecTypes
  <2>3. StreamInv'
    BY <1>2, <1>3, <1>6, <2>1 DEF StreamInv
  <2>4. CompleteFramesHandled'
    BY <1>6 DEF CompleteFramesHandled
  <2> QED
    BY <2>1, <2>2, <2>3, <2>4 DEF CodecInv
<1> QED
  BY <1>1, <1>4, <1>5, <1>6, Turn

\* A sequence in two parts.
LEMMA CutAt ==
    ASSUME NEW w \in Strings, NEW n \in 1..Len(w)
    PROVE  LET h == SubSeq(w, 1, n)
               t == SubSeq(w, n + 1, Len(w))
           IN  h \in Strings /\ t \in Strings /\ w = h \o t
<1> DEFINE h == SubSeq(w, 1, n)
           t == SubSeq(w, n + 1, Len(w))
<1>1. w \in Seq(Nat) /\ Len(w) \in Nat /\ n \in 0..Len(w)
  BY DEF Strings
<1>2. h \in Seq(Nat) /\ t \in Seq(Nat)
  <2>1. \A i \in 1..n : w[i] \in Nat
    BY <1>1
  <2>2. \A i \in (n + 1)..Len(w) : w[i] \in Nat
    BY <1>1
  <2>3. h \in Seq(Nat)
    BY <1>1, <2>1, SubSeqProperties
  <2>4. t \in Seq(Nat)
    BY <1>1, <2>2, SubSeqProperties
  <2> QED
    BY <2>3, <2>4
<1>3. h \o t = SubSeq(w, 1, Len(w))
  BY <1>1, ConcatAdjacentSubSeq
<1>4. h \o t = w
  BY <1>1, <1>3, SubSeqFull
<1> QED
  BY <1>2, <1>4 DEF Strings

\* What is read goes from the wire to the end of the buffer.
LEMMA ReadStep == ASSUME NEW n \in 1..Len(wire), CodecInv, handleRead(n) PROVE CodecInv'
<1>1. CodecTypes /\ StreamInv /\ OrderInv
  BY DEF CodecInv
<1>2. wire \in Strings /\ Len(wire) \in Nat /\ BufferOK(m_InputBuffer)
  BY <1>1 DEF CodecTypes, Strings
<1> DEFINE h == SubSeq(wire, 1, n)
           t == SubSeq(wire, n + 1, Len(wire))
           b == Readable(m_InputBuffer)
           after == ReadFd(m_InputBuffer, h)
<1>3. /\ wire' = t /\ m_InputBuffer' = after /\ at' = "message"
      /\ UNCHANGED <<sent, connected, error, m_mpCallBack, received>>
  BY DEF handleRead
<1>4. h \in Strings /\ t \in Strings /\ wire = h \o t
  BY <1>2, CutAt
<1>5. BufferOK(after) /\ Readable(after) = b \o h
  <2> HIDE DEF h
  <2> QED
    BY <1>2, <1>4, BufferIsQueue DEF Strings
<1>6. b \in Strings
  BY <1>2, ReadableString
<1>7. Readable(after) \o t = b \o wire
  <2> HIDE DEF h, t, b, after
  <2>1. (b \o h) \o t = b \o (h \o t)
    BY <1>4, <1>6, JoinAssociative
  <2> QED
    BY <1>4, <1>5, <2>1
<1> HIDE DEF h, t, after
<1>8. CodecTypes'
  BY <1>1, <1>3, <1>4, <1>5 DEF CodecTypes
<1>9. StreamInv'
  BY <1>1, <1>3, <1>7 DEF StreamInv
<1>10. OrderInv' /\ CompleteFramesHandled'
  BY <1>1, <1>3 DEF OrderInv, CompleteFramesHandled
<1> QED
  BY <1>8, <1>9, <1>10 DEF CodecInv

\* A frame that is sent is behind all the others.
LEMMA SendStep ==
    ASSUME NEW frame \in Message \union BadFrame, CodecInv, PeerSends(frame)
    PROVE  CodecInv'
<1>1. CodecTypes /\ StreamInv /\ OrderInv /\ CompleteFramesHandled
  BY DEF CodecInv
<1> DEFINE n == Len(sent)
           F == Bytes(frame)
           b == Readable(m_InputBuffer)
           R == FramesOf(sent, Len(received))
<1>2. /\ sent' = Append(sent, frame) /\ wire' = wire \o F
      /\ UNCHANGED <<m_InputBuffer, at, connected, error, m_mpCallBack, received>>
  BY DEF PeerSends
<1>3. /\ sent \in Seq(Frame) /\ frame \in Frame /\ n \in Nat /\ Len(received) \in 0..n
      /\ wire \in Strings /\ BufferOK(m_InputBuffer)
  BY <1>1 DEF CodecTypes, StreamInv, Frame
<1>4. /\ sent' \in Seq(Frame) /\ Len(sent') = n + 1 /\ sent'[n + 1] = frame
      /\ \A i \in 1..n : sent'[i] = sent[i]
  BY <1>2, <1>3
<1>5. F \in Strings /\ Len(F) \in Nat /\ Len(F) > 0
  <2>1. F \in Strings /\ Len(F) >= HeaderLength
    BY <1>3, FrameRead
  <2>2. HeaderLength \in Nat \ {0}
    BY WordType
  <2> QED
    BY <2>1, <2>2 DEF Strings
<1>6. b \in Strings /\ Len(b) = ReadableBytes(m_InputBuffer) /\ R \in Strings
  BY <1>3, ReadableString, FramesOfType
<1>7. CodecTypes'
  <2>1. wire' \in Strings
    BY <1>2, <1>3, <1>5, JoinedTypes
  <2> QED
    BY <1>1, <1>2, <1>4, <2>1 DEF CodecTypes
<1>8. StreamInv'
  <2>1. FramesOf(sent', Len(received')) = R \o F
    BY <1>2, <1>3, FramesLonger
  <2>2. b \o wire = R
    BY <1>1 DEF StreamInv
  <2> HIDE DEF b, F, R
  <2>3. (b \o wire) \o F = b \o (wire \o F)
    BY <1>3, <1>5, <1>6, JoinAssociative
  <2>4. b \o wire' = FramesOf(sent', Len(received'))
    BY <1>2, <2>1, <2>2, <2>3
  <2> QED
    BY <1>2, <1>3, <1>4, <2>4 DEF StreamInv, b
<1>9. OrderInv'
  <2>1. \A i \in 1..Len(received) : i \in 1..n /\ \A j \in 1..(i - 1) : j \in 1..n
    BY <1>3
  <2> QED
    BY <1>1, <1>2, <1>4, <2>1 DEF OrderInv
<1>10. CompleteFramesHandled'
  <2>1. CASE Len(received) < n
    <3>1. Len(received) + 1 \in 1..n
      BY <1>3, <2>1
    <3> QED
      BY <1>1, <1>2, <1>3, <1>4, <3>1 DEF CompleteFramesHandled
  <2>2. CASE Len(received) = n
    <3>1. R = <<>>
      BY <1>3, <2>2, FramesHead
    <3>2. b \o wire = <<>>
      BY <1>1, <3>1 DEF StreamInv
    <3>3. b = <<>>
      BY <1>3, <1>6, <3>2, ConcatSimplifications DEF Strings
    <3>4. ReadableBytes(m_InputBuffer) = 0
      BY <1>6, <3>3
    <3>5. sent'[Len(received') + 1] = frame
      BY <1>2, <1>4, <2>2
    <3> QED
      BY <1>2, <1>5, <3>4, <3>5 DEF CompleteFramesHandled
  <2> QED
    BY <1>3, <2>1, <2>2
<1> QED
  BY <1>7, <1>8, <1>9, <1>10 DEF CodecInv

LEMMA CodecStep == CodecInv /\ [Next]_vars => CodecInv'
<1> SUFFICES ASSUME CodecInv, [Next]_vars PROVE CodecInv'
  OBVIOUS
<1>1. CASE OnMessage
  BY <1>1, OnMessageStep
<1>2. ASSUME NEW n \in 1..Len(wire), handleRead(n) PROVE CodecInv'
  BY <1>2, ReadStep
<1>3. ASSUME NEW frame \in Message \union BadFrame, PeerSends(frame) PROVE CodecInv'
  BY <1>3, SendStep
<1>4. ASSUME NEW name \in TypeName, RegisterMessageCallBack(name) PROVE CodecInv'
  <2>1. /\ m_mpCallBack' = m_mpCallBack \union {name}
        /\ UNCHANGED <<sent, wire, m_InputBuffer, at, connected, error, received>>
    BY <1>4 DEF RegisterMessageCallBack
  <2>2. CodecTypes' /\ StreamInv' /\ CompleteFramesHandled'
    BY <2>1 DEF CodecInv, CodecTypes, StreamInv, CompleteFramesHandled
  <2>3. OrderInv'
    BY <2>1 DEF CodecInv, OrderInv
  <2> QED
    BY <2>2, <2>3 DEF CodecInv
<1>5. CASE UNCHANGED vars
  BY <1>5 DEF vars, CodecInv, CodecTypes, StreamInv, OrderInv, CompleteFramesHandled
<1> QED
  BY <1>1, <1>2, <1>3, <1>4, <1>5 DEF Next

\* Whatever is sent and however the bytes arrive, the buffer and the wire hold the frames that
\* were not received, the messages received are the ones sent, and no complete message is left.
THEOREM CodecInvariant == Spec => []CodecInv
<1>1. Init => CodecInv
  BY CodecInit
<1>2. CodecInv /\ [Next]_vars => CodecInv'
  BY CodecStep
<1> QED
  BY <1>1, <1>2, PTL DEF Spec

\* No byte of the stream is lost, repeated or moved between the peer's Send and OnMessage, however
\* ReadFd cuts it, wherever makeSpace moves it and whatever OnMessage retrieves.
THEOREM StreamIsKept == Spec => []StreamKept
<1>1. CodecInv => StreamKept
  BY DEF CodecInv, CodecTypes, BufferOK, StreamInv, StreamKept, Frames, FramesOf
<1> QED
  BY <1>1, CodecInvariant, PTL

\* OnMessage gives the messages to the callbacks in the order they were sent, once each, and the
\* dispatcher gives none to the callback of another type.
THEOREM MessagesStayInOrder == Spec => []MessagesInOrder
<1>1. CodecInv => MessagesInOrder
  BY DEF CodecInv, StreamInv, OrderInv, MessagesInOrder
<1> QED
  BY <1>1, CodecInvariant, PTL

\* When OnMessage has returned, the next frame is not complete, or it is wrong and its error was
\* reported, unless it is wrong and fewer bytes than the smallest frame has are there.
THEOREM CompleteFramesAreHandled == Spec => []CompleteFramesHandled
<1>1. CodecInv => CompleteFramesHandled
  BY DEF CodecInv
<1> QED
  BY <1>1, CodecInvariant, PTL

\* Parse undoes FillEmptyBuffer: the frame that Send makes of a message has its own length at its
\* head, which OnMessage accepts, and the bytes behind it parse to the message.
THEOREM ParseUndoesSend ==
    ASSUME NEW m \in Message
    PROVE  /\ InRange(AsInt32(Send[m])) /\ Len(Send[m]) = HeaderLength + AsInt32(Send[m])
           /\ Parse(Rest(Send[m])) = [error |-> "NoError", message |-> m]
<1>1. m \in Frame /\ m \notin BadFrame /\ Bytes(m) = Send[m]
  BY BadFrameAssumption DEF Frame, Bytes
<1> QED
  BY <1>1, FrameRead

-----------------------------------------------------------------------------
(* Numbers as text                                                          *)

\* C's division, towards zero: the remainder has the sign of i.
LEMMA TowardsZero ==
    ASSUME NEW i \in Int, NEW base \in Nat \ {0}
    PROVE  /\ Quotient(i, base) \in Int /\ Remainder(i, base) \in Int
           /\ i = Quotient(i, base) * base + Remainder(i, base)
           /\ i >= 0 => Quotient(i, base) >= 0 /\ Remainder(i, base) >= 0
           /\ i <= 0 => Quotient(i, base) <= 0 /\ Remainder(i, base) <= 0
<1> DEFINE q == Quotient(i, base)
           r == Remainder(i, base)
           m == IF i < 0 THEN i + base - 1 ELSE i
<1>1. m \in Int
  OBVIOUS
<1> HIDE DEF m
<1>2. q = m \div base
  BY DEF Quotient, m
<1>3. q \in Int /\ m % base \in 0..(base - 1) /\ m = base * q + (m % base)
  BY <1>1, <1>2, DivMod
<1>4. r = i - base * q
  BY DEF Remainder
<1> HIDE DEF q, r
<1>5. base * q \in Int /\ q * base = base * q
  BY <1>3
<1>6. i = q * base + r /\ r \in Int
  BY <1>4, <1>5
<1>7. ASSUME i >= 0 PROVE q >= 0 /\ r >= 0
  <2>1. m = i
    BY <1>7 DEF m
  <2>2. q \in Nat
    BY <1>2, <1>7, <2>1, DivNat
  <2>3. r = m % base
    BY <1>3, <1>4, <1>5, <2>1
  <2> QED
    BY <1>3, <2>2, <2>3
<1>8. ASSUME i < 0 PROVE q <= 0 /\ r <= 0
  <2>1. m = i + base - 1
    BY <1>8 DEF m
  <2>2. r <= 0
    BY <1>3, <1>4, <1>5, <2>1
  <2>3. q <= 0
    <3> SUFFICES ASSUME q >= 1 PROVE FALSE
      BY <1>3
    <3>1. base * q >= base
      BY <1>3
    <3> QED
      BY <1>3, <1>5, <1>8, <2>1, <3>1
  <2> QED
    BY <2>2, <2>3
<1>9. ASSUME i = 0 PROVE q <= 0 /\ r <= 0
  <2>1. m = 0
    BY <1>9 DEF m
  <2>2. q = 0
    <3> DEFINE x == m % base
    <3>1. base * q <= 0
      <4>1. x \in 0..(base - 1) /\ m = base * q + x
        BY <1>3
      <4> HIDE DEF x
      <4> QED
        BY <1>5, <2>1, <4>1
    <3>2. q >= 0
      BY <1>7, <1>9
    <3> QED
      BY <1>3, <3>1, <3>2
  <2> QED
    BY <1>4, <1>9, <2>2
<1> QED
  BY <1>3, <1>6, <1>7, <1>8, <1>9 DEF q, r

\* The loop's i, turn by turn.
LEMMA LoopTurns ==
    ASSUME NEW value \in Int, NEW base \in Nat \ {0}
    PROVE  LET i == Quotients(value, base)
           IN  /\ i[0] = value /\ \A k \in 0..MAX_NUMERIC_SIZE : i[k] \in Int
               /\ \A k \in 1..MAX_NUMERIC_SIZE : i[k] = Quotient(i[k - 1], base)
<1> DEFINE M == MAX_NUMERIC_SIZE
           h == [e \in Int \X Nat |-> Quotient(e[1], base)]
           P(f) == f = [k \in 0..M |-> IF k = 0 THEN value ELSE Quotient(f[k - 1], base)]
           i == CHOOSE f : P(f)
<1>1. M \in Nat
  BY SinkAssumption
<1>2. \A x \in Int : Quotient(x, base) \in Int
  BY TowardsZero
<1>3. h \in [Int \X Nat -> Int] /\ \A x \in Int, k \in Nat : h[<<x, k>>] = Quotient(x, base)
  BY <1>2
<1> HIDE DEF h
<1>4. PICK F : Iterates(F, Int, value, h, M)
  BY <1>1, <1>3, Recursion
<1>5. ASSUME NEW k \in 1..M PROVE F[k] = Quotient(F[k - 1], base)
  <2>1. F[k - 1] \in Int /\ k \in Nat /\ F[k] = h[<<F[k - 1], k>>]
    BY <1>1, <1>4 DEF Iterates
  <2> QED
    BY <1>3, <2>1
<1>6. P(F)
  BY <1>1, <1>4, <1>5 DEF Iterates
<1>7. P(i)
  <2> HIDE DEF P
  <2> QED
    BY <1>6
<1>8. Quotients(value, base) = i
  BY DEF Quotients
<1> HIDE DEF i
<1>9. i[0] = value /\ \A k \in 1..M : i[k] = Quotient(i[k - 1], base)
  BY <1>1, <1>7
<1>10. \A k \in 0..M : i[k] \in Int
  <2> DEFINE S == {k \in Nat : k <= M => i[k] \in Int}
  <2>1. 0 \in S
    BY <1>9
  <2>2. ASSUME NEW k \in Nat, k \in S PROVE k + 1 \in S
    <3> SUFFICES ASSUME k + 1 <= M PROVE i[k + 1] \in Int
      OBVIOUS
    <3>1. k + 1 \in 1..M /\ (k + 1) - 1 = k /\ i[k] \in Int
      BY <1>1, <2>2
    <3>2. i[k + 1] = Quotient(i[k], base)
      BY <1>9, <3>1
    <3> QED
      BY <1>2, <3>1, <3>2
  <2> HIDE DEF S
  <2>3. \A k \in Nat : k \in S
    BY <2>1, <2>2, Induction
  <2> QED
    BY <1>1, <2>3 DEF S
<1> QED
  BY <1>8, <1>9, <1>10

\* i keeps its sign until it is 0.
LEMMA LoopSign ==
    ASSUME NEW value \in Int, NEW base \in Nat \ {0}, NEW k \in 0..MAX_NUMERIC_SIZE
    PROVE  /\ value >= 0 => Quotients(value, base)[k] >= 0
           /\ value <= 0 => Quotients(value, base)[k] <= 0
<1> DEFINE M == MAX_NUMERIC_SIZE
           i == Quotients(value, base)
           S == {j \in Nat : j <= M => (value >= 0 => i[j] >= 0) /\ (value <= 0 => i[j] <= 0)}
<1>1. M \in Nat
  BY SinkAssumption
<1>2. /\ i[0] = value /\ \A j \in 0..M : i[j] \in Int
      /\ \A j \in 1..M : i[j] = Quotient(i[j - 1], base)
  BY LoopTurns
<1> HIDE DEF i
<1>3. 0 \in S
  BY <1>2
<1>4. ASSUME NEW j \in Nat, j \in S PROVE j + 1 \in S
  <2> SUFFICES ASSUME j + 1 <= M
               PROVE  (value >= 0 => i[j + 1] >= 0) /\ (value <= 0 => i[j + 1] <= 0)
    OBVIOUS
  <2>1. j + 1 \in 1..M /\ (j + 1) - 1 = j /\ j \in 0..M
    BY <1>1
  <2>2. i[j + 1] = Quotient(i[j], base) /\ i[j] \in Int
    BY <1>2, <2>1
  <2>3. (value >= 0 => i[j] >= 0) /\ (value <= 0 => i[j] <= 0)
    BY <1>1, <1>4, <2>1
  <2> QED
    BY <2>2, <2>3, TowardsZero
<1> HIDE DEF S
<1>5. k \in S
  BY <1>1, <1>3, <1>4, Induction
<1> QED
  BY <1>1, <1>5 DEF S, i

\* A number that fits ends in time.
Fitting(value, base) == Quotients(value, base)[MAX_NUMERIC_SIZE - 3] = 0

LEMMA LoopEnds ==
    ASSUME NEW value \in Int, NEW base \in Nat \ {0}, Fitting(value, base)
    PROVE  Turns(value, base) \in 1..(MAX_NUMERIC_SIZE - 3) /\ Quotients(value, base)[Turns(value, base)] = 0
<1> DEFINE M == MAX_NUMERIC_SIZE
           i == Quotients(value, base)
           P(k) == i[k] = 0 /\ \A j \in 1..(k - 1) : i[j] # 0
           Z == {k \in 1..(M - 3) : i[k] = 0}
<1>1. M \in Nat /\ M - 3 \in 1..M
  BY SinkAssumption
<1>2. i[M - 3] = 0
  BY DEF Fitting
<1> HIDE DEF i
<1>3. \E k \in 1..M : P(k)
  <2>1. Z \subseteq Nat /\ Z # {}
    BY <1>1, <1>2
  <2>2. PICK k \in Z : \A u \in Z : ~(<<u, k>> \in OpToRel(<, Nat))
    <3> HIDE DEF Z
    <3> QED
      BY <2>1, NatLessThanWellFounded, WFMin
  <2>3. ASSUME NEW j \in 1..(k - 1) PROVE i[j] # 0
    <3> SUFFICES ASSUME i[j] = 0 PROVE FALSE
      OBVIOUS
    <3>1. j \in Z /\ k \in Nat /\ j \in Nat /\ j < k
      BY <1>1, <2>1
    <3>2. <<j, k>> \in OpToRel(<, Nat)
      BY <3>1 DEF OpToRel
    <3> QED
      BY <2>2, <3>1, <3>2
  <2>4. k \in 1..M /\ i[k] = 0
    <3>1. k \in 1..(M - 3) /\ i[k] = 0
      OBVIOUS
    <3> QED
      BY <1>1, <3>1
  <2> QED
    BY <2>3, <2>4
<1> DEFINE t == CHOOSE k \in 1..M : P(k)
<1>4. t = Turns(value, base)
  BY DEF Turns, i
<1>5. t \in 1..M /\ P(t)
  <2> HIDE DEF P
  <2> QED
    BY <1>3
<1> HIDE DEF t
<1>6. t <= M - 3
  <2> SUFFICES ASSUME t > M - 3 PROVE FALSE
    BY <1>1, <1>5
  <2>1. M - 3 \in 1..(t - 1)
    BY <1>1, <1>5
  <2> QED
    BY <1>2, <1>5, <2>1
<1> QED
  BY <1>1, <1>4, <1>5, <1>6 DEF i

\* The digits read back as the number.
LEMMA DigitsRead ==
    ASSUME NEW value \in Int, NEW base \in Nat \ {0}, Fitting(value, base), NEW text,
           text.digits = Digits(value, base),
           (text.minus = TRUE /\ value <= 0) \/ (text.minus = FALSE /\ value >= 0)
    PROVE  /\ Len(text.digits) \in 1..(MAX_NUMERIC_SIZE - 3)
           /\ ReadBack(text, base) = value
<1> DEFINE M == MAX_NUMERIC_SIZE
           i == Quotients(value, base)
           t == Turns(value, base)
           d == text.digits
           sign == IF text.minus THEN -1 ELSE 1
           F == [j \in 0..t |-> i[t - j]]
<1>1. M \in Nat /\ t \in 1..(M - 3) /\ t \in Nat /\ t \in 1..M
  BY SinkAssumption, LoopEnds
<1>2. i[t] = 0
  BY LoopEnds
<1>3. /\ i[0] = value /\ \A k \in 0..M : i[k] \in Int
      /\ \A k \in 1..M : i[k] = Quotient(i[k - 1], base)
  BY LoopTurns
<1>4. \A k \in 0..M : (value >= 0 => i[k] >= 0) /\ (value <= 0 => i[k] <= 0)
  BY LoopSign
<1>5. d = [j \in 1..t |-> Zero(Remainder(i[t - j], base))]
  BY DEF Digits
<1> HIDE DEF i, t
<1>6. Len(d) = t
  BY <1>1, <1>5
<1>7. F[0] = 0 /\ F[t] = value
  <2>1. t - 0 = t /\ t - t = 0 /\ 0 \in 0..t /\ t \in 0..t
    BY <1>1
  <2> QED
    BY <1>2, <1>3, <2>1
<1>8. ASSUME NEW j \in 1..t PROVE F[j] = F[j - 1] * base + sign * d[j]
  <2> DEFINE x == i[t - j]
             r == Remainder(x, base)
             q == Quotient(x, base)
  <2>1. t - j \in 0..M /\ (t - j) + 1 \in 1..M /\ ((t - j) + 1) - 1 = t - j /\ t - (j - 1) = (t - j) + 1
        /\ j - 1 \in 0..t /\ j \in 0..t
    BY <1>1
  <2>2. F[j] = x /\ F[j - 1] = q
    <3>1. F[j - 1] = i[(t - j) + 1]
      BY <2>1
    <3>2. i[(t - j) + 1] = Quotient(i[t - j], base)
      BY <1>3, <2>1
    <3> QED
      BY <2>1, <3>1, <3>2
  <2>3. x \in Int /\ (value >= 0 => x >= 0) /\ (value <= 0 => x <= 0)
    BY <1>3, <1>4, <2>1
  <2>4. d[j] = Zero(r)
    BY <1>5
  <2> HIDE DEF x
  <2>5. /\ q \in Int /\ r \in Int /\ x = q * base + r
        /\ (x >= 0 => r >= 0) /\ (x <= 0 => r <= 0)
    BY <2>3, TowardsZero
  <2> HIDE DEF q, r
  <2>6. sign * Zero(r) = r
    <3>1. CASE text.minus = TRUE /\ value <= 0
      <4>1. r <= 0 /\ sign = -1
        BY <2>3, <2>5, <3>1
      <4>2. Zero(r) = -r
        BY <2>5, <4>1 DEF Zero
      <4> QED
        BY <2>5, <4>1, <4>2
    <3>2. CASE text.minus = FALSE /\ value >= 0
      <4>1. r >= 0 /\ sign = 1
        BY <2>3, <2>5, <3>2
      <4>2. Zero(r) = r
        BY <2>5, <4>1 DEF Zero
      <4> QED
        BY <2>5, <4>1, <4>2
    <3> QED
      BY <3>1, <3>2
  <2> HIDE DEF F, sign
  <2> QED
    BY <2>2, <2>4, <2>5, <2>6
<1>9. ReadBack(text, base) = F[t]
  <2> DEFINE P(f) == f = [j \in 0..Len(d) |-> IF j = 0 THEN 0 ELSE f[j - 1] * base + sign * d[j]]
             read == CHOOSE f : P(f)
  <2>1. P(F)
    <3>1. F = [j \in 0..t |-> F[j]]
      OBVIOUS
    <3> HIDE DEF d, sign, F
    <3>2. ASSUME NEW j \in 0..t PROVE F[j] = IF j = 0 THEN 0 ELSE F[j - 1] * base + sign * d[j]
      <4>1. CASE j = 0
        BY <1>7, <4>1
      <4>2. CASE j \in 1..t
        BY <1>8, <4>2
      <4> QED
        BY <1>1, <4>1, <4>2
    <3>3. F = [j \in 0..t |-> IF j = 0 THEN 0 ELSE F[j - 1] * base + sign * d[j]]
      BY <3>1, <3>2
    <3> QED
      BY <1>6, <3>3
  <2>2. P(read)
    <3> HIDE DEF P
    <3> QED
      BY <2>1
  <2>3. ReadBack(text, base) = read[Len(d)]
    BY DEF ReadBack
  <2> HIDE DEF read, F, d, sign
  <2>4. read[t] = F[t]
    <3> DEFINE S == {j \in Nat : j <= t => read[j] = F[j]}
    <3>1. 0 \in S
      BY <1>1, <1>6, <1>7, <2>2
    <3>2. ASSUME NEW j \in Nat, j \in S PROVE j + 1 \in S
      <4> SUFFICES ASSUME j + 1 <= t PROVE read[j + 1] = F[j + 1]
        OBVIOUS
      <4>1. j + 1 \in 1..t /\ j + 1 \in 0..Len(d) /\ j + 1 # 0 /\ (j + 1) - 1 = j
        BY <1>1, <1>6
      <4>2. read[j + 1] = read[j] * base + sign * d[j + 1]
        BY <2>2, <4>1
      <4>3. F[j + 1] = F[j] * base + sign * d[j + 1]
        BY <1>8, <4>1
      <4>4. read[j] = F[j]
        BY <1>1, <3>2
      <4> QED
        BY <4>2, <4>3, <4>4
    <3> HIDE DEF S
    <3>3. t \in S
      BY <1>1, <3>1, <3>2, Induction
    <3> QED
      BY <1>1, <3>3 DEF S
  <2> QED
    BY <1>6, <2>3, <2>4
<1> QED
  BY <1>1, <1>6, <1>7, <1>9

-----------------------------------------------------------------------------
(* Lines                                                                    *)

Entry == {Written(item) : item \in Item}
LogStream == [length : 0..(SIZE - 1), items : Seq(Entry)]

\* The numbers of an entry read back.
Reads(entry) ==
    /\ entry.kind = "integer" => ReadBack(entry.text, 10) = entry.value
    /\ entry.kind = "pointer" => ReadBack(entry.text, 16) = entry.value

\* What an item becomes, and that the test for room is right.
LEMMA ItemWritten ==
    ASSUME NEW item \in Item
    PROVE  LET entry == Written(item)
           IN  /\ Length(entry) \in Nat /\ Reads(entry)
               /\ \A stream : stream.length \in 0..(SIZE - 1) =>
                    /\ HasRoom(stream, item) => stream.length + Length(entry) < SIZE
                    /\ stream.length + Length(entry) + MAX_NUMERIC_SIZE < SIZE => HasRoom(stream, item)
<1> DEFINE entry == Written(item)
           L == Length(entry)
           M == MAX_NUMERIC_SIZE
<1>1. M \in Nat /\ SIZE \in Nat
  BY SinkAssumption
<1>2. CASE item \in [kind : {"text", "newline"}, length : Nat]
           \/ item \in [kind : {"time", "us"}, length : Nat, text : Nat]
  <2>1. item.kind \in {"text", "newline", "time", "us"} /\ item.length \in Nat
    BY <1>2
  <2>2. entry = item
    BY <2>1 DEF Written
  <2>3. L = item.length /\ Reads(entry)
    BY <2>1, <2>2 DEF Length, Reads
  <2>4. \A stream : HasRoom(stream, item) <=> SIZE - stream.length > item.length
    BY <2>1 DEF HasRoom, GetAvail
  <2> HIDE DEF L, entry
  <2> QED
    BY <1>1, <2>1, <2>3, <2>4 DEF L, entry
<1>3. CASE item \in [kind : {"double"}, length : 0..(M - 1)]
  <2>1. item.kind = "double" /\ item.length \in 0..(M - 1)
    BY <1>3
  <2>2. entry = item
    BY <2>1 DEF Written
  <2>3. L = item.length /\ Reads(entry)
    BY <2>1, <2>2 DEF Length, Reads
  <2>4. \A stream : HasRoom(stream, item) <=> SIZE - stream.length >= M
    BY <2>1 DEF HasRoom, GetAvail
  <2> HIDE DEF L, entry
  <2> QED
    BY <1>1, <2>1, <2>3, <2>4 DEF L, entry
<1>4. CASE item \in [kind : {"integer"}, value : {i \in Int : Quotients(i, 10)[M - 3] = 0}]
  <2>1. item.kind = "integer" /\ item.value \in Int /\ Fitting(item.value, 10)
    BY <1>4 DEF Fitting
  <2> DEFINE text == convert(item.value)
  <2>2. text.digits = Digits(item.value, 10)
    BY DEF convert
  <2>3. (text.minus = TRUE /\ item.value <= 0) \/ (text.minus = FALSE /\ item.value >= 0)
    <3>1. CASE item.value < 0
      <4>1. (item.value < 0) = TRUE
        BY <3>1
      <4>2. text.minus = TRUE
        BY <4>1, Zenon DEF convert
      <4> QED
        BY <2>1, <3>1, <4>2
    <3>2. CASE ~(item.value < 0)
      <4>1. (item.value < 0) = FALSE
        BY <3>2
      <4>2. text.minus = FALSE
        BY <4>1, Zenon DEF convert
      <4> QED
        BY <2>1, <3>2, <4>2
    <3> QED
      BY <3>1, <3>2
  <2>4. entry.kind = "integer" /\ entry.value = item.value /\ entry.text = text
    BY <2>1 DEF Written
  <2> HIDE DEF text
  <2>5. Len(text.digits) \in 1..(M - 3) /\ ReadBack(text, 10) = item.value
    <3>1. 10 \in Nat \ {0}
      OBVIOUS
    <3> QED
      BY <2>1, <2>2, <2>3, <3>1, DigitsRead
  <2> HIDE DEF entry
  <2>6. Reads(entry)
    BY <2>4, <2>5 DEF Reads
  <2>7. L = Len(text.digits) + (IF text.minus THEN 1 ELSE 0)
    BY <2>4 DEF Length
  <2>8. L \in Nat /\ L <= M
    <3> HIDE DEF L
    <3>1. L = Len(text.digits) + 1 \/ L = Len(text.digits) + 0
      <4>1. CASE text.minus = TRUE
        BY <2>7, <4>1
      <4>2. CASE text.minus = FALSE
        BY <2>7, <4>2
      <4> QED
        BY <2>3, <4>1, <4>2
    <3> QED
      BY <1>1, <2>5, <3>1
  <2>9. \A stream : HasRoom(stream, item) <=> SIZE - stream.length > M
    BY <2>1 DEF HasRoom, GetAvail
  <2> HIDE DEF L
  <2> QED
    BY <1>1, <2>6, <2>8, <2>9 DEF L, entry
<1>5. CASE item \in [kind : {"pointer"}, value : {i \in Nat : Quotients(i, 16)[M - 3] = 0}]
  <2>1. item.kind = "pointer" /\ item.value \in Nat /\ item.value \in Int /\ Fitting(item.value, 16)
    BY <1>5 DEF Fitting
  <2> DEFINE text == convertHex(item.value)
  <2>2. text.digits = Digits(item.value, 16)
    BY DEF convertHex
  <2>3. text.minus = FALSE /\ item.value >= 0
    BY <2>1 DEF convertHex
  <2>4. entry.kind = "pointer" /\ entry.value = item.value /\ entry.text = text
    BY <2>1 DEF Written
  <2> HIDE DEF text
  <2>5. Len(text.digits) \in 1..(M - 3) /\ ReadBack(text, 16) = item.value
    <3>1. 16 \in Nat \ {0}
      OBVIOUS
    <3> QED
      BY <2>1, <2>2, <2>3, <3>1, DigitsRead
  <2> HIDE DEF entry
  <2>6. Reads(entry)
    BY <2>4, <2>5 DEF Reads
  <2>7. L = 2 + Len(text.digits)
    BY <2>4 DEF Length
  <2>8. L \in Nat /\ L < M
    BY <1>1, <2>5, <2>7
  <2>9. \A stream : HasRoom(stream, item) <=> SIZE - stream.length >= M
    BY <2>1 DEF HasRoom, GetAvail
  <2> HIDE DEF L
  <2> QED
    BY <1>1, <2>6, <2>8, <2>9 DEF L, entry
<1>6. \/ item \in [kind : {"text", "newline"}, length : Nat]
      \/ item \in [kind : {"time", "us"}, length : Nat, text : Nat]
      \/ item \in [kind : {"double"}, length : 0..(M - 1)]
      \/ item \in [kind : {"integer"}, value : {i \in Int : Quotients(i, 10)[M - 3] = 0}]
      \/ item \in [kind : {"pointer"}, value : {i \in Nat : Quotients(i, 16)[M - 3] = 0}]
  BY Zenon DEF Item
<1> QED
  BY <1>2, <1>3, <1>4, <1>5, <1>6, Zenon

\* operator<< keeps the length below SIZE, and writes all of an item or nothing.
LEMMA PutKeeps ==
    ASSUME NEW stream \in LogStream, NEW item \in Item
    PROVE  /\ Put(stream, item) \in LogStream
           /\ HasRoom(stream, item) =>
                Put(stream, item) = [length |-> stream.length + Length(Written(item)),
                                     items |-> Append(stream.items, Written(item))]
           /\ ~HasRoom(stream, item) => Put(stream, item) = stream
<1> DEFINE entry == Written(item)
           L == Length(entry)
<1>1. stream.length \in 0..(SIZE - 1) /\ stream.items \in Seq(Entry) /\ SIZE \in Nat
  BY SinkAssumption DEF LogStream
<1>2. entry \in Entry
  BY DEF Entry
<1>3. L \in Nat /\ (HasRoom(stream, item) => stream.length + L < SIZE)
  BY <1>1, ItemWritten
<1>4. ASSUME HasRoom(stream, item)
      PROVE  Put(stream, item) = [length |-> stream.length + L, items |-> Append(stream.items, entry)]
  BY <1>4 DEF Put
<1>5. ASSUME ~HasRoom(stream, item) PROVE Put(stream, item) = stream
  BY <1>5 DEF Put
<1> HIDE DEF L, entry
<1>6. ASSUME HasRoom(stream, item) PROVE Put(stream, item) \in LogStream
  <2>1. stream.length + L \in 0..(SIZE - 1)
    BY <1>1, <1>3, <1>6
  <2>2. Append(stream.items, entry) \in Seq(Entry)
    BY <1>1, <1>2
  <2> QED
    BY <1>4, <1>6, <2>1, <2>2 DEF LogStream
<1>7. Put(stream, item) \in LogStream
  BY <1>5, <1>6
<1> QED
  BY <1>4, <1>5, <1>7 DEF L, entry

\* f is the stream after each of the items.
Runs(f, stream, items) ==
    /\ f[0] = stream /\ \A i \in 0..Len(items) : f[i] \in LogStream
    /\ \A i \in 1..Len(items) : f[i] = Put(f[i - 1], items[i])

LEMMA PutAllRuns ==
    ASSUME NEW stream \in LogStream, NEW items \in Seq(Item)
    PROVE  \E f : Runs(f, stream, items) /\ PutAll(stream, items) = f[Len(items)]
<1> DEFINE L == Len(items)
           h == [e \in LogStream \X Nat |-> IF e[2] \in 1..L THEN Put(e[1], items[e[2]]) ELSE e[1]]
           P(f) == f = [i \in 0..L |-> IF i = 0 THEN stream ELSE Put(f[i - 1], items[i])]
           after == CHOOSE f : P(f)
<1>1. L \in Nat /\ \A i \in 1..L : items[i] \in Item
  OBVIOUS
<1>2. ASSUME NEW x \in LogStream, NEW i \in 1..L PROVE Put(x, items[i]) \in LogStream
  BY <1>1, PutKeeps
<1>3. h \in [LogStream \X Nat -> LogStream]
  BY <1>2
<1>4. \A x \in LogStream, i \in 1..L : h[<<x, i>>] = Put(x, items[i])
  BY <1>1
<1> HIDE DEF h
<1>5. PICK F : Iterates(F, LogStream, stream, h, L)
  BY <1>1, <1>3, Recursion
<1>6. ASSUME NEW i \in 1..L PROVE F[i] = Put(F[i - 1], items[i])
  <2>1. F[i - 1] \in LogStream /\ F[i] = h[<<F[i - 1], i>>]
    BY <1>1, <1>5 DEF Iterates
  <2> QED
    BY <1>4, <2>1
<1>7. P(F)
  BY <1>1, <1>5, <1>6 DEF Iterates
<1>8. P(after)
  <2> HIDE DEF P
  <2> QED
    BY <1>7
<1>9. PutAll(stream, items) = after[L]
  BY DEF PutAll
<1> HIDE DEF after
<1>10. after[0] = stream /\ \A i \in 1..L : after[i] = Put(after[i - 1], items[i])
  BY <1>1, <1>8
<1>11. \A i \in 0..L : after[i] \in LogStream
  <2> DEFINE S == {i \in Nat : i <= L => after[i] \in LogStream}
  <2>1. 0 \in S
    BY <1>10
  <2>2. ASSUME NEW i \in Nat, i \in S PROVE i + 1 \in S
    <3> SUFFICES ASSUME i + 1 <= L PROVE after[i + 1] \in LogStream
      OBVIOUS
    <3>1. i + 1 \in 1..L /\ (i + 1) - 1 = i /\ after[i] \in LogStream
      BY <1>1, <2>2
    <3>2. after[i + 1] = Put(after[i], items[i + 1])
      BY <1>10, <3>1
    <3> QED
      BY <1>2, <3>1, <3>2
  <2> HIDE DEF S
  <2>3. \A i \in Nat : i \in S
    BY <2>1, <2>2, Induction
  <2> QED
    BY <1>1, <2>3 DEF S
<1>12. Runs(after, stream, items)
  BY <1>10, <1>11 DEF Runs
<1> QED
  BY <1>9, <1>12

\* T is the number of bytes of the first items.
Totals(T, items) ==
    /\ T[0] = 0 /\ \A i \in 0..Len(items) : T[i] \in Nat
    /\ \A i \in 1..Len(items) : T[i] = T[i - 1] + Length(Written(items[i]))

LEMMA TotalOf ==
    ASSUME NEW items \in Seq(Item)
    PROVE  \E T : Totals(T, items) /\ Total(items) = T[Len(items)]
<1> DEFINE L == Len(items)
           W(i) == Length(Written(items[i]))
           h == [e \in Nat \X Nat |-> IF e[2] \in 1..L THEN e[1] + W(e[2]) ELSE e[1]]
           P(f) == f = [i \in 0..L |-> IF i = 0 THEN 0 ELSE f[i - 1] + Length(Written(items[i]))]
           total == CHOOSE f : P(f)
<1>1. L \in Nat /\ \A i \in 1..L : items[i] \in Item
  OBVIOUS
<1>2. \A i \in 1..L : W(i) \in Nat
  BY <1>1, ItemWritten
<1>3. h \in [Nat \X Nat -> Nat]
  <2> HIDE DEF W
  <2> QED
    BY <1>2
<1>4. \A x \in Nat, i \in 1..L : h[<<x, i>>] = x + W(i)
  <2> HIDE DEF W
  <2> QED
    BY <1>1
<1> HIDE DEF h
<1>5. PICK F : Iterates(F, Nat, 0, h, L)
  BY <1>1, <1>3, Recursion
<1>6. ASSUME NEW i \in 1..L PROVE F[i] = F[i - 1] + W(i)
  <2> HIDE DEF W
  <2>1. i - 1 \in 0..L
    BY <1>1
  <2>2. F[i - 1] \in Nat
    BY <1>5, <2>1 DEF Iterates
  <2>3. F[i] = h[<<F[i - 1], i>>]
    BY <1>5 DEF Iterates
  <2> QED
    BY <1>4, <2>2, <2>3
<1>7. P(F)
  BY <1>1, <1>5, <1>6 DEF Iterates
<1>8. P(total)
  <2> HIDE DEF P
  <2> QED
    BY <1>7
<1>9. Total(items) = total[L]
  BY DEF Total
<1> HIDE DEF total
<1>10. total[0] = 0 /\ \A i \in 1..L : total[i] = total[i - 1] + W(i)
  BY <1>1, <1>8
<1>11. \A i \in 0..L : total[i] \in Nat
  <2> HIDE DEF W
  <2> DEFINE S == {i \in Nat : i <= L => total[i] \in Nat}
  <2>1. 0 \in S
    BY <1>10
  <2>2. ASSUME NEW i \in Nat, i \in S PROVE i + 1 \in S
    <3> SUFFICES ASSUME i + 1 <= L PROVE total[i + 1] \in Nat
      OBVIOUS
    <3>1. i + 1 \in 1..L /\ (i + 1) - 1 = i /\ total[i] \in Nat
      BY <1>1, <2>2
    <3>2. total[i + 1] = total[i] + W(i + 1)
      BY <1>10, <3>1
    <3> QED
      BY <1>2, <3>1, <3>2
  <2> HIDE DEF S
  <2>3. \A i \in Nat : i \in S
    BY <2>1, <2>2, Induction
  <2> QED
    BY <1>1, <2>3 DEF S
<1>12. Totals(total, items)
  BY <1>10, <1>11 DEF Totals
<1> QED
  BY <1>9, <1>12

LEMMA TotalsGrow ==
    ASSUME NEW items \in Seq(Item), NEW T, Totals(T, items), NEW i \in 0..Len(items)
    PROVE  T[i] <= T[Len(items)]
<1> DEFINE L == Len(items)
           S == {d \in Nat : d <= L => T[L - d] <= T[L]}
<1>1. L \in Nat /\ \A k \in 1..L : items[k] \in Item
  OBVIOUS
<1>2. \A k \in 0..L : T[k] \in Nat
  BY DEF Totals
<1>3. 0 \in S
  <2>1. L - 0 = L /\ L \in 0..L
    BY <1>1
  <2>2. T[L - 0] <= T[L]
    BY <1>2, <2>1
  <2> QED
    BY <2>2
<1>4. ASSUME NEW d \in Nat, d \in S PROVE d + 1 \in S
  <2> SUFFICES ASSUME d + 1 <= L PROVE T[L - (d + 1)] <= T[L]
    OBVIOUS
  <2> DEFINE k == L - d
  <2>1. k \in 1..L /\ k - 1 = L - (d + 1) /\ k - 1 \in 0..L /\ k \in 0..L /\ L \in 0..L
    BY <1>1
  <2>2. T[k] <= T[L]
    BY <1>1, <1>4
  <2> HIDE DEF k
  <2>3. T[k] = T[k - 1] + Length(Written(items[k])) /\ Length(Written(items[k])) \in Nat
    BY <1>1, <2>1, ItemWritten DEF Totals
  <2>4. T[k - 1] \in Nat /\ T[k] \in Nat /\ T[L] \in Nat
    BY <1>2, <2>1
  <2>5. T[k - 1] <= T[L]
    BY <2>2, <2>3, <2>4
  <2> QED
    BY <2>1, <2>5
<1> HIDE DEF S
<1>5. L - i \in S
  <2>1. L - i \in Nat
    BY <1>1
  <2> QED
    BY <1>3, <1>4, <2>1, Induction
<1>6. L - (L - i) = i /\ L - i <= L
  BY <1>1
<1>7. T[L - (L - i)] <= T[L]
  BY <1>5, <1>6 DEF S
<1> QED
  BY <1>6, <1>7

\* The time stays at the head of the line.
LEMMA HeadStays ==
    ASSUME NEW stream, NEW items \in Seq(Item), NEW f, Runs(f, stream, items),
           NEW a \in 0..Len(items), Len(f[a].items) >= 2, NEW i \in a..Len(items)
    PROVE  /\ Len(f[i].items) >= 2
           /\ f[i].items[1] = f[a].items[1] /\ f[i].items[2] = f[a].items[2]
<1> DEFINE L == Len(items)
           Same(k) == /\ Len(f[k].items) >= 2
                      /\ f[k].items[1] = f[a].items[1] /\ f[k].items[2] = f[a].items[2]
           S == {d \in Nat : a + d <= L => Same(a + d)}
<1>1. L \in Nat /\ \A k \in 1..L : items[k] \in Item
  OBVIOUS
<1>2. 0 \in S
  <2>1. a + 0 = a
    BY <1>1
  <2> QED
    BY <2>1
<1>3. ASSUME NEW d \in Nat, d \in S PROVE d + 1 \in S
  <2> SUFFICES ASSUME a + (d + 1) <= L PROVE Same(a + (d + 1))
    OBVIOUS
  <2> DEFINE k == a + d
             s == f[k]
             entry == Written(items[k + 1])
  <2>1. k + 1 = a + (d + 1) /\ k + 1 \in 1..L /\ (k + 1) - 1 = k /\ k \in 0..L /\ k <= L
    BY <1>1
  <2>2. Same(k)
    BY <1>3, <2>1
  <2>3. s \in LogStream /\ f[k + 1] = Put(s, items[k + 1])
    BY <2>1 DEF Runs
  <2>4. f[k + 1] = s \/ f[k + 1].items = Append(s.items, entry)
    <3> DEFINE item == items[k + 1]
    <3>1. item \in Item
      BY <1>1, <2>1
    <3> HIDE DEF item, s
    <3>2. Put(s, item) = s \/ Put(s, item) = [length |-> s.length + Length(Written(item)),
                                            items |-> Append(s.items, Written(item))]
      BY <2>3, <3>1, PutKeeps DEF item
    <3>3. Put(s, item) = s \/ Put(s, item).items = Append(s.items, Written(item))
      BY <3>2
    <3> QED
      BY <2>3, <3>3 DEF item
  <2>5. s.items \in Seq(Entry) /\ entry \in Entry /\ Len(s.items) \in Nat
    BY <1>1, <2>1, <2>3 DEF LogStream, Entry
  <2>6. CASE f[k + 1].items = Append(s.items, entry)
    <3> HIDE DEF entry, s
    <3>1. 1 \in 1..Len(s.items) /\ 2 \in 1..Len(s.items)
      BY <2>2, <2>5 DEF s
    <3>2. /\ Len(f[k + 1].items) = Len(s.items) + 1
          /\ f[k + 1].items[1] = s.items[1] /\ f[k + 1].items[2] = s.items[2]
      BY <2>5, <2>6, <3>1
    <3>3. Len(f[k + 1].items) >= 2
      BY <2>5, <3>1, <3>2
    <3> HIDE DEF k
    <3> QED
      BY <2>1, <2>2, <3>2, <3>3 DEF s
  <2>7. CASE f[k + 1] = s
    <3> HIDE DEF k
    <3> QED
      BY <2>1, <2>2, <2>7
  <2> QED
    BY <2>4, <2>6, <2>7
<1> HIDE DEF S
<1>4. i - a \in S
  <2>1. i - a \in Nat
    BY <1>1
  <2> QED
    BY <1>2, <1>3, <2>1, Induction
<1>5. a + (i - a) = i /\ i <= L
  BY <1>1
<1>6. Same(a + (i - a))
  <2> HIDE DEF Same
  <2> QED
    BY <1>4, <1>5 DEF S
<1> QED
  BY <1>5, <1>6

\* A statement that leaves room for one more number is put whole.
LEMMA AllPut ==
    ASSUME NEW stream \in LogStream, NEW items \in Seq(Item),
           stream.length + Total(items) + MAX_NUMERIC_SIZE < SIZE
    PROVE  /\ PutAll(stream, items).length = stream.length + Total(items)
           /\ Len(PutAll(stream, items).items) = Len(stream.items) + Len(items)
<1> DEFINE L == Len(items)
<1>1. PICK f : Runs(f, stream, items) /\ PutAll(stream, items) = f[L]
  BY PutAllRuns
<1>2. PICK T : Totals(T, items) /\ Total(items) = T[L]
  BY TotalOf
<1> DEFINE All(k) == f[k].length = stream.length + T[k] /\ Len(f[k].items) = Len(stream.items) + k
           S == {k \in Nat : k <= L => All(k)}
<1>3. L \in Nat /\ \A k \in 1..L : items[k] \in Item
  OBVIOUS
<1>4. stream.length \in Nat /\ Len(stream.items) \in Nat /\ SIZE \in Nat /\ MAX_NUMERIC_SIZE \in Nat
  BY SinkAssumption DEF LogStream
<1>5. 0 \in S
  BY <1>1, <1>2, <1>4 DEF Runs, Totals
<1>6. ASSUME NEW k \in Nat, k \in S PROVE k + 1 \in S
  <2> HIDE DEF All
  <2> SUFFICES ASSUME k + 1 <= L PROVE All(k + 1)
    OBVIOUS
  <2> DEFINE s == f[k]
             item == items[k + 1]
             w == Length(Written(item))
  <2>1. k + 1 \in 1..L /\ (k + 1) - 1 = k /\ k \in 0..L /\ k + 1 \in 0..L /\ k <= L
    BY <1>3
  <2>2. All(k)
    BY <1>6, <2>1
  <2>3. s \in LogStream /\ f[k + 1] = Put(s, item)
    BY <1>1, <2>1 DEF Runs
  <2>4. T[k + 1] = T[k] + w /\ T[k] \in Nat /\ T[k + 1] \in Nat
    BY <1>2, <2>1 DEF Totals
  <2>5. T[k + 1] <= T[L] /\ T[L] \in Nat
    BY <1>2, <1>3, <2>1, TotalsGrow DEF Totals
  <2>6. item \in Item
    BY <1>3, <2>1
  <2> HIDE DEF item
  <2>7. w \in Nat /\ Written(item) \in Entry
    BY <2>6, ItemWritten DEF Entry
  <2>8. s.length \in 0..(SIZE - 1) /\ s.items \in Seq(Entry) /\ Len(s.items) \in Nat
    BY <2>3 DEF LogStream
  <2>9. s.length + w + MAX_NUMERIC_SIZE < SIZE
    <3> HIDE DEF w
    <3>1. s.length = stream.length + T[k]
      BY <2>2 DEF All
    <3>2. stream.length + T[L] + MAX_NUMERIC_SIZE < SIZE
      BY <1>2
    <3> QED
      BY <1>4, <2>4, <2>5, <2>7, <3>1, <3>2
  <2>10. HasRoom(s, item)
    BY <2>6, <2>8, <2>9, ItemWritten
  <2>11. f[k + 1] = [length |-> s.length + w, items |-> Append(s.items, Written(item))]
    BY <2>3, <2>6, <2>10, PutKeeps
  <2>12. f[k + 1].length = s.length + w /\ Len(f[k + 1].items) = Len(s.items) + 1
    <3> DEFINE entry == Written(item)
    <3>1. entry \in Entry /\ f[k + 1].items = Append(s.items, entry)
      BY <2>7, <2>11
    <3> HIDE DEF entry
    <3>2. Len(f[k + 1].items) = Len(s.items) + 1
      BY <2>8, <3>1
    <3> QED
      BY <2>11, <3>2
  <2> HIDE DEF w, s
  <2>13. s.length = stream.length + T[k] /\ Len(s.items) = Len(stream.items) + k
    BY <2>2 DEF All, s
  <2>14. f[k + 1].length = stream.length + T[k + 1]
    BY <1>4, <2>4, <2>7, <2>12, <2>13
  <2>15. Len(f[k + 1].items) = Len(stream.items) + (k + 1)
    <3> DEFINE a == Len(stream.items)
               b == Len(f[k + 1].items)
    <3>1. a \in Nat /\ b = (a + k) + 1
      BY <1>4, <2>12, <2>13
    <3> HIDE DEF a, b
    <3>2. b = a + (k + 1)
      BY <3>1
    <3> QED
      BY <3>2 DEF a, b
  <2> QED
    BY <2>14, <2>15 DEF All
<1> HIDE DEF S
<1>7. L \in S
  BY <1>3, <1>5, <1>6, Induction
<1>8. All(L)
  <2> HIDE DEF All
  <2> QED
    BY <1>3, <1>7 DEF S
<1> QED
  BY <1>1, <1>2, <1>8

LEMMA EmptyIsStream == EmptyStream \in LogStream /\ EmptyStream.length = 0 /\ EmptyStream.items = <<>>
  BY SinkAssumption DEF EmptyStream, LogStream

\* A new line begins with its time.
LEMMA TimeFirst ==
    ASSUME NEW items \in Seq(Item), Len(items) >= 2, NEW x \in Nat, NEW y \in Nat,
           items[1] = Time(x), items[2] = MicroSeconds(y)
    PROVE  LET line == PutAll(EmptyStream, items)
           IN  /\ line \in LogStream /\ Len(line.items) >= 2
               /\ line.items[1].text = x /\ line.items[2].text = y
<1> DEFINE L == Len(items)
<1>1. PICK f : Runs(f, EmptyStream, items) /\ PutAll(EmptyStream, items) = f[L]
  BY EmptyIsStream, PutAllRuns
<1>2. L \in Nat /\ L >= 2
  OBVIOUS
<1>3. SIZE \in Nat /\ SIZE > 26
  BY SinkAssumption
<1>4. /\ Time(x).kind = "time" /\ Time(x).length = 17 /\ Time(x).text = x
      /\ MicroSeconds(y).kind = "us" /\ MicroSeconds(y).length = 9 /\ MicroSeconds(y).text = y
  BY DEF Time, MicroSeconds
<1>5. Written(Time(x)) = Time(x) /\ Written(MicroSeconds(y)) = MicroSeconds(y)
  BY <1>4 DEF Written
<1>6. Length(Time(x)) = 17 /\ Length(MicroSeconds(y)) = 9
  BY <1>4 DEF Length
<1>7. f[1] = [length |-> 17, items |-> <<Time(x)>>]
  <2>1. 1 \in 1..L /\ 1 - 1 = 0
    BY <1>2
  <2>2. f[1] = Put(EmptyStream, Time(x))
    BY <1>1, <2>1 DEF Runs
  <2>3. HasRoom(EmptyStream, Time(x))
    BY <1>3, <1>4, EmptyIsStream DEF HasRoom, GetAvail
  <2>4. f[1] = [length |-> 0 + 17, items |-> Append(<<>>, Time(x))]
    BY <1>5, <1>6, <2>2, <2>3, EmptyIsStream DEF Put
  <2> QED
    BY <2>4
<1>8. f[2] = [length |-> 26, items |-> <<Time(x), MicroSeconds(y)>>]
  <2>1. 2 \in 1..L /\ 2 - 1 = 1
    BY <1>2
  <2>2. f[2] = Put(f[1], MicroSeconds(y))
    BY <1>1, <2>1 DEF Runs
  <2>3. f[1].length = 17 /\ f[1].items = <<Time(x)>>
    BY <1>7
  <2>4. HasRoom(f[1], MicroSeconds(y))
    BY <1>3, <1>4, <2>3 DEF HasRoom, GetAvail
  <2>5. f[2] = [length |-> 17 + 9, items |-> Append(<<Time(x)>>, MicroSeconds(y))]
    BY <1>5, <1>6, <2>2, <2>3, <2>4 DEF Put
  <2> QED
    BY <2>5
<1>9. Len(f[2].items) = 2 /\ f[2].items[1] = Time(x) /\ f[2].items[2] = MicroSeconds(y)
  BY <1>8
<1>10. 2 \in 0..L /\ L \in 2..L /\ Len(f[2].items) >= 2
  BY <1>2, <1>9
<1>11. Len(f[L].items) >= 2 /\ f[L].items[1] = f[2].items[1] /\ f[L].items[2] = f[2].items[2]
  BY <1>1, <1>10, HeadStays
<1>12. f[L] \in LogStream
  BY <1>1, <1>2 DEF Runs
<1> QED
  BY <1>1, <1>4, <1>9, <1>11, <1>12

\* A line as LinesRight wants it.
Right(line) ==
    LET items == line.stream.items
    IN  /\ line.stream.length < SIZE
        /\ items[1].text * SECOND + items[2].text = line.timeStamp
        /\ \A i \in DOMAIN items : Reads(items[i])
        /\ Total(line.streamed) + Total(Trailer) + MAX_NUMERIC_SIZE < SIZE =>
               Len(items) = Len(line.streamed) + Len(Trailer)
        /\ Last(items).kind = "newline" \/ line.stream.length = SIZE - 1

\* And before Finish.
Unfinished(line) ==
    LET items == line.stream.items
    IN  /\ line.streamed \in Seq(Item) /\ line.stream \in LogStream
        /\ line.stream = PutAll(EmptyStream, line.streamed)
        /\ Len(items) >= 2 /\ items[1].text * SECOND + items[2].text = line.timeStamp

LEMMA Texts == NewLine \in Item /\ \A length \in Nat : Text(length) \in Item
<1>1. NewLine \in [kind : {"text", "newline"}, length : Nat]
  BY DEF NewLine
<1>2. \A length \in Nat : Text(length) \in [kind : {"text", "newline"}, length : Nat]
  BY DEF Text
<1> QED
  BY <1>1, <1>2, Zenon DEF Item

LEMMA TrailerItems == Trailer \in Seq(Item) /\ Len(Trailer) = 5 /\ Trailer[5] = NewLine
<1>1. Text(1) \in Item /\ Text(FileName) \in Item /\ NewLine \in Item /\ Number(LineNumber) \in Item
  BY Texts, SinkAssumption, ItemAssumption
<1> QED
  BY <1>1 DEF Trailer

LEMMA FrontStays ==
    ASSUME NEW a \in Seq(Item), NEW b \in Seq(Item), Len(a) >= 5
    PROVE  a \o b \in Seq(Item) /\ Len(a \o b) >= 5 /\ (a \o b)[1] = a[1] /\ (a \o b)[2] = a[2]
<1>1. a \o b \in Seq(Item) /\ Len(a \o b) = Len(a) + Len(b) /\ Len(a) \in Nat /\ Len(b) \in Nat
  BY ConcatProperties
<1>2. 1 \in 1..Len(a) /\ 2 \in 1..Len(a)
  BY <1>1
<1>3. (a \o b)[1] = a[1] /\ (a \o b)[2] = a[2]
  BY <1>1, <1>2
<1> QED
  BY <1>1, <1>3

\* What the constructors stream begins with the time.
LEMMA HeaderItems ==
    ASSUME NEW macro \in Macro, NEW message \in LogMessage, NEW x \in Nat, NEW y \in Nat
    PROVE  LET items == Header(macro, x, y) \o message
           IN  items \in Seq(Item) /\ Len(items) >= 2 /\ items[1] = Time(x) /\ items[2] = MicroSeconds(y)
<1> DEFINE head == <<Time(x), MicroSeconds(y), Text(1), Text(NameLength[macro.level]), Text(2)>>
           err == IF macro.errno /\ Errno # 0 THEN <<Text(StrError), Text(8), Number(Errno), Text(2)>> ELSE <<>>
           fun == IF macro.function THEN <<Text(FunctionName), Text(1)>> ELSE <<>>
           he == head \o err
           hef == he \o fun
           items == hef \o message
<1>1. items = Header(macro, x, y) \o message
  BY DEF Header
<1>2. head \in Seq(Item) /\ Len(head) = 5 /\ head[1] = Time(x) /\ head[2] = MicroSeconds(y)
  <2>1. macro.level \in DOMAIN NameLength
    BY ItemAssumption
  <2>2. NameLength[macro.level] \in Nat
    BY <2>1 DEF NameLength
  <2>3. Time(x) \in Item /\ MicroSeconds(y) \in Item
    <3>1. Time(x) \in [kind : {"time", "us"}, length : Nat, text : Nat]
      BY DEF Time
    <3>2. MicroSeconds(y) \in [kind : {"time", "us"}, length : Nat, text : Nat]
      BY DEF MicroSeconds
    <3> QED
      BY <3>1, <3>2, Zenon DEF Item
  <2>4. Text(1) \in Item /\ Text(2) \in Item /\ Text(NameLength[macro.level]) \in Item
    BY <2>2, Texts
  <2> QED
    BY <2>3, <2>4
<1>3. err \in Seq(Item)
  <2>1. Text(StrError) \in Item /\ Text(8) \in Item /\ Text(2) \in Item /\ Number(Errno) \in Item
    BY Texts, SinkAssumption, ItemAssumption
  <2> QED
    BY <2>1
<1>4. fun \in Seq(Item)
  <2>1. Text(FunctionName) \in Item /\ Text(1) \in Item
    BY Texts, SinkAssumption
  <2> QED
    BY <2>1
<1>5. message \in Seq(Item)
  BY ItemAssumption
<1> HIDE DEF head, err, fun
<1>6. he \in Seq(Item) /\ Len(he) >= 5 /\ he[1] = head[1] /\ he[2] = head[2]
  <2>1. head \in Seq(Item) /\ Len(head) >= 5
    BY <1>2
  <2> QED
    BY <1>3, <2>1, FrontStays
<1> HIDE DEF he
<1>7. hef \in Seq(Item) /\ Len(hef) >= 5 /\ hef[1] = he[1] /\ hef[2] = he[2]
  BY <1>4, <1>6, FrontStays
<1> HIDE DEF hef
<1>8. items \in Seq(Item) /\ Len(items) >= 5 /\ items[1] = hef[1] /\ items[2] = hef[2]
  BY <1>5, <1>7, FrontStays
<1> HIDE DEF items
<1>9. items[1] = Time(x) /\ items[2] = MicroSeconds(y) /\ Len(items) >= 2
  BY <1>2, <1>6, <1>7, <1>8
<1> QED
  BY <1>1, <1>8, <1>9

\* Finish makes the line right.
LEMMA FinishRight ==
    ASSUME NEW line, Unfinished(line), NEW done,
           done.stream = Finish(line.stream), done.streamed = line.streamed, done.timeStamp = line.timeStamp
    PROVE  Right(done) /\ done.stream \in LogStream
<1> DEFINE s == line.stream
           r == done.stream
<1>1. PICK f : Runs(f, s, Trailer) /\ PutAll(s, Trailer) = f[5]
  BY TrailerItems, PutAllRuns DEF Unfinished
<1>2. r = f[5] /\ s = f[0] /\ r \in LogStream /\ s \in LogStream
  BY <1>1, TrailerItems DEF Finish, Runs, Unfinished
<1>3. SIZE \in Nat /\ r.length \in 0..(SIZE - 1) /\ r.items \in Seq(Entry) /\ Len(r.items) \in Nat
  BY <1>2, SinkAssumption DEF LogStream
<1>4. r.length < SIZE
  BY <1>3
<1>5. Len(r.items) >= 2 /\ r.items[1].text * SECOND + r.items[2].text = done.timeStamp
  <2>1. Len(s.items) >= 2 /\ s.items[1].text * SECOND + s.items[2].text = line.timeStamp
    BY DEF Unfinished
  <2> DEFINE a == 0
             b == 5
  <2>2. a \in 0..Len(Trailer) /\ b \in a..Len(Trailer) /\ Len(f[a].items) >= 2
    BY <1>2, <2>1, TrailerItems
  <2>3. Len(f[b].items) >= 2 /\ f[b].items[1] = f[a].items[1] /\ f[b].items[2] = f[a].items[2]
    <3> HIDE DEF a, b
    <3>1. Trailer \in Seq(Item) /\ Runs(f, s, Trailer)
      BY <1>1, TrailerItems
    <3> HIDE DEF s
    <3> QED
      BY <2>2, <3>1, HeadStays
  <2> HIDE DEF s, r
  <2> QED
    BY <1>2, <2>1, <2>3
<1>6. \A i \in DOMAIN r.items : Reads(r.items[i])
  <2> SUFFICES ASSUME NEW i \in DOMAIN r.items PROVE Reads(r.items[i])
    OBVIOUS
  <2>1. r.items[i] \in Entry
    BY <1>3
  <2>2. PICK item \in Item : r.items[i] = Written(item)
    BY <2>1 DEF Entry
  <2> QED
    BY <2>2, ItemWritten
<1>7. ASSUME Total(done.streamed) + Total(Trailer) + MAX_NUMERIC_SIZE < SIZE
      PROVE  Len(r.items) = Len(done.streamed) + Len(Trailer)
  <2> DEFINE items == line.streamed
  <2>1. items \in Seq(Item) /\ s = PutAll(EmptyStream, items)
    BY DEF Unfinished
  <2>2. Total(items) \in Nat /\ Total(Trailer) \in Nat /\ MAX_NUMERIC_SIZE \in Nat
    <3>1. ASSUME NEW list \in Seq(Item) PROVE Total(list) \in Nat
      <4>1. PICK T : Totals(T, list) /\ Total(list) = T[Len(list)]
        BY <3>1, TotalOf
      <4> QED
        BY <4>1 DEF Totals
    <3> QED
      BY <2>1, <3>1, TrailerItems, SinkAssumption
  <2>3. EmptyStream.length + Total(items) + MAX_NUMERIC_SIZE < SIZE
    BY <1>3, <1>7, <2>2, EmptyIsStream
  <2>4. s.length = 0 + Total(items) /\ Len(s.items) = 0 + Len(items)
    <3>1. /\ PutAll(EmptyStream, items).length = EmptyStream.length + Total(items)
          /\ Len(PutAll(EmptyStream, items).items) = Len(EmptyStream.items) + Len(items)
      BY <2>1, <2>3, EmptyIsStream, AllPut
    <3>2. Len(EmptyStream.items) = 0
      BY EmptyIsStream
    <3> QED
      BY <2>1, <3>1, <3>2, EmptyIsStream
  <2>5. s.length + Total(Trailer) + MAX_NUMERIC_SIZE < SIZE
    BY <1>3, <1>7, <2>2, <2>4
  <2>6. Len(PutAll(s, Trailer).items) = Len(s.items) + Len(Trailer)
    BY <1>2, <2>5, TrailerItems, AllPut
  <2>7. Len(items) \in Nat
    BY <2>1
  <2> QED
    BY <1>1, <1>2, <2>4, <2>6, <2>7
<1>8. Last(r.items).kind = "newline" \/ r.length = SIZE - 1
  <2> DEFINE p == f[4]
  <2>1. p \in LogStream /\ r = Put(p, NewLine)
    <3>1. 5 \in 1..Len(Trailer) /\ 5 - 1 = 4 /\ 4 \in 0..Len(Trailer)
      BY TrailerItems
    <3> QED
      BY <1>1, <1>2, <3>1, TrailerItems DEF Runs
  <2>2. NewLine.kind = "newline" /\ NewLine.length = 1
    BY DEF NewLine
  <2>3. Written(NewLine) = NewLine
    BY <2>2 DEF Written
  <2>4. p.length \in 0..(SIZE - 1) /\ p.items \in Seq(Entry)
    BY <2>1 DEF LogStream
  <2>5. HasRoom(p, NewLine) <=> SIZE - p.length > 1
    BY <2>2 DEF HasRoom, GetAvail
  <2>6. CASE HasRoom(p, NewLine)
    <3>1. r.items = Append(p.items, NewLine)
      BY <2>1, <2>3, <2>6 DEF Put
    <3>2. NewLine \in Entry
      BY <2>3, Texts DEF Entry
    <3>3. Last(r.items) = NewLine
      <4> DEFINE q == p.items
                 e == NewLine
      <4>1. q \in Seq(Entry) /\ e \in Entry /\ r.items = Append(q, e)
        BY <2>4, <3>1, <3>2
      <4> HIDE DEF q, e
      <4>2. Len(r.items) = Len(q) + 1 /\ r.items[Len(q) + 1] = e
        BY <4>1
      <4> QED
        BY <4>2 DEF Last, e
    <3> QED
      BY <2>2, <3>3
  <2>7. CASE ~HasRoom(p, NewLine)
    <3>1. r = p
      BY <2>1, <2>7 DEF Put
    <3> QED
      BY <1>3, <2>4, <2>5, <2>7, <3>1
  <2> QED
    BY <2>6, <2>7
<1> QED
  BY <1>2, <1>4, <1>5, <1>6, <1>7, <1>8 DEF Right

-----------------------------------------------------------------------------
(* Logging's invariant                                                      *)

Line == [at : {"destructor", "flush", "abort"}, by : Thread, timeStamp : Nat,
         level : DOMAIN NameLength, stream : LogStream, streamed : Seq(Item)]

LogTypeOK ==
    /\ t_lastSecond \in [Thread -> Nat] /\ t_time = t_lastSecond
    /\ g_OutputFunc \in Sink /\ g_FlushFunc \in Sink
    /\ logger \in [Thread -> {None} \union Line]
    /\ output \in [Sink -> Seq(Line)] /\ kept \in [Sink -> Nat]

\* A Logger knows its thread and is unfinished until its line is written; lines are right.
LinesInv ==
    /\ \A t \in Thread : In(t, "destructor") => logger[t].by = t /\ Unfinished(logger[t])
    /\ \A s \in Sink : \A i \in 1..Len(output[s]) : Right(output[s][i])

\* The thread of a fatal line goes no further than abort, and has flushed it by then.
Flushed(s, i) ==
    LET t == output[s][i].by
    IN  \/ In(t, "flush")
        \/ In(t, "abort") /\ (g_FlushFunc = g_OutputFunc /\ s = g_OutputFunc => i <= kept[s])
FatalInv ==
    /\ \A s \in Sink : \A i \in 1..Len(output[s]) : output[s][i].level = "FATAL" => Flushed(s, i)
    /\ aborted # "no" => aborted \in Thread /\ In(aborted, "abort")

LogInv == LogTypeOK /\ LinesInv /\ FatalInv

LEMMA HasLine ==
    ASSUME LogTypeOK, NEW t \in Thread, logger[t].at # "none"
    PROVE  logger[t] \in Line
<1>1. logger[t] \in {None} \union Line
  BY DEF LogTypeOK
<1>2. None.at = "none"
  BY DEF None
<1> QED
  BY <1>1, <1>2, Zenon

LEMMA InitLogInv == LogInit => LogInv
<1> SUFFICES ASSUME LogInit PROVE LogInv
  OBVIOUS
<1>1. LogTypeOK
  BY SinkAssumption DEF LogInit, LogTypeOK
<1>2. (\A t \in Thread : logger[t].at = "none") /\ (\A s \in Sink : Len(output[s]) = 0) /\ aborted = "no"
  BY DEF LogInit, None
<1>3. LinesInv
  BY <1>2 DEF LinesInv, In
<1>4. FatalInv
  BY <1>2 DEF FatalInv
<1> QED
  BY <1>1, <1>3, <1>4 DEF LogInv

\* The text is that of the second, whatever the cache held.
LEMMA TextOfTheSecond ==
    ASSUME LogTypeOK, NEW t \in Thread, NEW second \in Nat, FormatTime(t, second)
    PROVE  /\ t_lastSecond' \in [Thread -> Nat] /\ t_time' = t_lastSecond'
           /\ t_time'[t] = second
<1>1. t_lastSecond \in [Thread -> Nat] /\ t_time = t_lastSecond
  BY DEF LogTypeOK
<1> QED
  BY <1>1 DEF FormatTime, cacheVars

LEMMA ConstructKeeps ==
    ASSUME LogInv, NEW t \in Thread, NEW macro \in Macro, NEW message \in LogMessage, NEW now \in Clock,
           Construct(t, macro, message, now)
    PROVE  LogInv'
<1> DEFINE x == now \div SECOND
           y == now % SECOND
           items == Header(macro, x, y) \o message
           stream == PutAll(EmptyStream, items)
           line == [at |-> "destructor", by |-> t, timeStamp |-> now, level |-> macro.level,
                    stream |-> stream, streamed |-> items]
<1>1. now \in Nat /\ SECOND \in Nat \ {0}
  BY ClockAssumption
<1>2. x \in Nat /\ y \in Nat /\ x * SECOND + y = now
  <2>1. x \in Int /\ y \in 0..(SECOND - 1) /\ now = SECOND * x + y
    BY <1>1, DivMod
  <2>2. x \in Nat
    BY <1>1, DivNat
  <2> HIDE DEF x, y
  <2>3. y \in Nat /\ SECOND * x = x * SECOND
    BY <1>1, <2>1, <2>2
  <2> QED
    BY <2>1, <2>2, <2>3
<1> HIDE DEF x, y
<1>3. /\ t_lastSecond' \in [Thread -> Nat] /\ t_time' = t_lastSecond' /\ t_time'[t] = x
  BY <1>2, TextOfTheSecond DEF Construct, LogInv, x
<1>4. /\ logger' = [logger EXCEPT ![t] = line] /\ logger[t] = None
      /\ UNCHANGED <<globalVars, output, kept, aborted>>
  BY <1>3 DEF Construct, y
<1>5. items \in Seq(Item) /\ Len(items) >= 2 /\ items[1] = Time(x) /\ items[2] = MicroSeconds(y)
  BY <1>2, HeaderItems
<1> HIDE DEF items
<1>6. /\ stream \in LogStream /\ Len(stream.items) >= 2
      /\ stream.items[1].text = x /\ stream.items[2].text = y
  BY <1>2, <1>5, TimeFirst
<1>7. Unfinished(line)
  <2>1. stream.items[1].text * SECOND + stream.items[2].text = now
    BY <1>2, <1>6
  <2>2. line.stream = stream /\ line.streamed = items /\ line.timeStamp = now
    OBVIOUS
  <2> HIDE DEF line
  <2> QED
    BY <1>5, <1>6, <2>1, <2>2 DEF Unfinished
<1> HIDE DEF stream
<1>8. line \in Line /\ line.by = t /\ line.at = "destructor"
  <2>1. macro.level \in DOMAIN NameLength
    BY ItemAssumption
  <2> QED
    BY <1>1, <1>5, <1>6, <2>1 DEF Line
<1> HIDE DEF line
<1>9. logger'[t] = line /\ \A u \in Thread \ {t} : logger'[u] = logger[u]
  BY <1>4 DEF LogInv, LogTypeOK
<1>10. None.at = "none"
  BY DEF None
<1>11. LogTypeOK'
  BY <1>3, <1>4, <1>8 DEF LogInv, LogTypeOK, globalVars
<1>12. LinesInv'
  BY <1>4, <1>7, <1>8, <1>9 DEF LogInv, LinesInv, In
<1>13. FatalInv'
  BY <1>4, <1>9, <1>10 DEF LogInv, FatalInv, Flushed, In, globalVars
<1> QED
  BY <1>11, <1>12, <1>13 DEF LogInv

LEMMA OutputKeeps ==
    ASSUME LogInv, NEW t \in Thread, Output(t)
    PROVE  LogInv'
<1> DEFINE line == logger[t]
           done == [logger[t] EXCEPT !.stream = Finish(@)]
           o == g_OutputFunc
           rest == IF done.level = "FATAL" THEN [done EXCEPT !.at = "flush"] ELSE None
<1>1. line.at = "destructor" /\ line \in Line
  BY HasLine DEF Output, In, LogInv
<1>2. line.by = t /\ Unfinished(line)
  BY <1>1 DEF LogInv, LinesInv, In
<1>3. /\ output' = [output EXCEPT ![o] = Append(@, done)] /\ logger' = [logger EXCEPT ![t] = rest]
      /\ UNCHANGED <<cacheVars, globalVars, kept, aborted>>
  BY DEF Output
<1>4. /\ done.stream = Finish(line.stream) /\ done.streamed = line.streamed
      /\ done.timeStamp = line.timeStamp /\ done.level = line.level /\ done.by = t
  BY <1>1, <1>2 DEF Line
<1>5. Right(done) /\ done.stream \in LogStream
  <2> HIDE DEF line, done
  <2> QED
    BY <1>2, <1>4, FinishRight
<1>6. done \in Line
  BY <1>1, <1>5 DEF Line
<1>7. /\ rest \in {None} \union Line /\ rest.at # "destructor" /\ rest.at # "abort"
      /\ done.level = "FATAL" => rest.at = "flush"
  <2> HIDE DEF done, line
  <2>1. None.at = "none"
    BY DEF None
  <2>2. CASE done.level = "FATAL"
    <3>1. rest = [done EXCEPT !.at = "flush"]
      BY <2>2
    <3> HIDE DEF rest
    <3>2. rest \in Line /\ rest.at = "flush"
      BY <1>6, <3>1 DEF Line
    <3> QED
      BY <3>2
  <2>3. CASE done.level # "FATAL"
    BY <2>1, <2>3
  <2> QED
    BY <2>2, <2>3
<1> HIDE DEF rest, done
<1>8. logger'[t] = rest /\ \A u \in Thread \ {t} : logger'[u] = logger[u]
  BY <1>3 DEF LogInv, LogTypeOK
<1>9. /\ o \in Sink /\ output \in [Sink -> Seq(Line)] /\ logger \in [Thread -> {None} \union Line]
  BY DEF LogInv, LogTypeOK
<1>10. /\ output' \in [Sink -> Seq(Line)] /\ output'[o] = Append(output[o], done)
       /\ \A s \in Sink \ {o} : output'[s] = output[s]
  BY <1>3, <1>6, <1>9
\* The lines there were, and the new one.
<1>11. ASSUME NEW s \in Sink, NEW i \in 1..Len(output'[s])
       PROVE  \/ i \in 1..Len(output[s]) /\ output'[s][i] = output[s][i]
              \/ output'[s][i] = done
  <2>1. CASE s = o
    <3> DEFINE q == output[o]
    <3>1. q \in Seq(Line) /\ output'[s] = Append(q, done)
      BY <1>9, <1>10, <2>1
    <3> HIDE DEF q
    <3>2. Len(output'[s]) = Len(q) + 1 /\ Len(q) \in Nat
      BY <1>6, <3>1
    <3>3. i \in 1..Len(q) \/ i = Len(q) + 1
      BY <3>2
    <3>4. (i \in 1..Len(q) => output'[s][i] = q[i]) /\ (i = Len(q) + 1 => output'[s][i] = done)
      BY <1>6, <3>1
    <3> QED
      BY <2>1, <3>3, <3>4 DEF q
  <2>2. CASE s # o
    BY <1>10, <2>2
  <2> QED
    BY <2>1, <2>2
<1>12. LogTypeOK'
  <2>1. logger' \in [Thread -> {None} \union Line]
    BY <1>3, <1>7, <1>9
  <2> QED
    BY <1>3, <1>10, <2>1 DEF LogInv, LogTypeOK, cacheVars, globalVars
<1>13. LinesInv'
  <2>1. ASSUME NEW u \in Thread, logger'[u].at = "destructor"
        PROVE  logger'[u].by = u /\ Unfinished(logger'[u])
    <3>1. u # t
      BY <1>7, <1>8, <2>1
    <3>2. logger'[u] = logger[u]
      BY <1>8, <3>1
    <3> QED
      BY <2>1, <3>2 DEF LogInv, LinesInv, In
  <2>2. ASSUME NEW s \in Sink, NEW i \in 1..Len(output'[s]) PROVE Right(output'[s][i])
    BY <1>5, <1>11 DEF LogInv, LinesInv
  <2> QED
    BY <2>1, <2>2 DEF LinesInv, In
<1>14. FatalInv'
  <2>1. ASSUME NEW s \in Sink, NEW i \in 1..Len(output'[s]), output'[s][i].level = "FATAL"
        PROVE  Flushed(s, i)'
    <3>1. CASE output'[s][i] = done
      <4>1. output'[s][i].by = t /\ logger'[t].at = "flush"
        BY <1>4, <1>7, <1>8, <2>1, <3>1
      <4> QED
        BY <4>1 DEF Flushed, In
    <3>2. CASE i \in 1..Len(output[s]) /\ output'[s][i] = output[s][i]
      <4>1. Flushed(s, i)
        BY <2>1, <3>2 DEF LogInv, FatalInv
      <4> DEFINE u == output[s][i].by
      <4>2. u \in Thread
        <5>1. output[s] \in Seq(Line)
          BY <1>9
        <5>2. output[s][i] \in Line
          BY <3>2, <5>1
        <5> QED
          BY <5>2 DEF Line
      <4>3. u # t
        BY <1>1, <4>1 DEF Flushed, In
      <4>4. logger'[u] = logger[u]
        BY <1>8, <4>2, <4>3
      <4> QED
        BY <1>3, <3>2, <4>1, <4>4 DEF Flushed, In, globalVars
    <3> QED
      BY <1>11, <3>1, <3>2
  <2>2. aborted' # "no" => aborted' \in Thread /\ logger'[aborted'].at = "abort"
    <3> SUFFICES ASSUME aborted # "no"
                 PROVE  aborted \in Thread /\ logger'[aborted].at = "abort"
      BY <1>3
    <3>1. aborted \in Thread /\ logger[aborted].at = "abort"
      BY DEF LogInv, FatalInv, In
    <3> QED
      BY <1>1, <1>8, <3>1
  <2> QED
    BY <2>1, <2>2 DEF FatalInv, In
<1> QED
  BY <1>12, <1>13, <1>14 DEF LogInv

LEMMA FlushKeeps ==
    ASSUME LogInv, NEW t \in Thread, Flush(t)
    PROVE  LogInv'
<1> DEFINE line == logger[t]
           new == [logger[t] EXCEPT !.at = "abort"]
           g == g_FlushFunc
<1>1. line.at = "flush" /\ line \in Line
  BY HasLine DEF Flush, In, LogInv
<1>2. /\ kept' = [kept EXCEPT ![g] = Len(output[g])] /\ logger' = [logger EXCEPT ![t] = new]
      /\ UNCHANGED <<cacheVars, globalVars, output, aborted>>
  BY DEF Flush
<1>3. new \in Line /\ new.at = "abort" /\ new.by = line.by
  BY <1>1 DEF Line
<1> HIDE DEF new
<1>4. /\ g \in Sink /\ output \in [Sink -> Seq(Line)] /\ logger \in [Thread -> {None} \union Line]
      /\ kept \in [Sink -> Nat]
  BY DEF LogInv, LogTypeOK
<1>5. logger'[t] = new /\ \A u \in Thread \ {t} : logger'[u] = logger[u]
  BY <1>2, <1>4
<1>6. Len(output[g]) \in Nat /\ kept' \in [Sink -> Nat] /\ kept'[g] = Len(output[g])
      /\ \A s \in Sink \ {g} : kept'[s] = kept[s]
  BY <1>2, <1>4
<1>7. LogTypeOK'
  <2>1. logger' \in [Thread -> {None} \union Line]
    BY <1>2, <1>3, <1>4
  <2> QED
    BY <1>2, <1>6, <2>1 DEF LogInv, LogTypeOK, cacheVars, globalVars
<1>8. LinesInv'
  <2>1. ASSUME NEW u \in Thread, logger'[u].at = "destructor"
        PROVE  logger'[u].by = u /\ Unfinished(logger'[u])
    <3>1. u # t
      BY <1>3, <1>5, <2>1
    <3>2. logger'[u] = logger[u]
      BY <1>5, <3>1
    <3> QED
      BY <2>1, <3>2 DEF LogInv, LinesInv, In
  <2> QED
    BY <1>2, <2>1 DEF LogInv, LinesInv, In
<1>9. FatalInv'
  <2>1. ASSUME NEW s \in Sink, NEW i \in 1..Len(output[s]), output[s][i].level = "FATAL"
        PROVE  Flushed(s, i)'
    <3> DEFINE u == output[s][i].by
    <3>1. Flushed(s, i)
      BY <2>1 DEF LogInv, FatalInv
    <3>2. u \in Thread
      <4>1. output[s] \in Seq(Line)
        BY <1>4
      <4>2. output[s][i] \in Line
        BY <4>1
      <4> QED
        BY <4>2 DEF Line
    <3>3. g_FlushFunc = g_OutputFunc /\ s = g_OutputFunc => i <= kept'[s]
      <4> SUFFICES ASSUME s = g PROVE i <= kept'[s]
        OBVIOUS
      <4> QED
        BY <1>6
    <3>4. logger'[u].at \in {"flush", "abort"}
      BY <1>3, <1>5, <3>1, <3>2 DEF Flushed, In
    <3> QED
      BY <1>2, <3>3, <3>4 DEF Flushed, In, globalVars
  <2>2. aborted' # "no" => aborted' \in Thread /\ logger'[aborted'].at = "abort"
    BY <1>1, <1>2, <1>3, <1>5 DEF LogInv, FatalInv, In
  <2> QED
    BY <1>2, <2>1, <2>2 DEF FatalInv, In
<1> QED
  BY <1>7, <1>8, <1>9 DEF LogInv

\* The settings change before the first line; SinkWrites keeps one more line.
LEMMA OthersKeep ==
    ASSUME LogInv,
           \/ \E t \in Thread : Abort(t)
           \/ \E level \in Level : SetLogLevel(level)
           \/ \E s \in Sink : SetOutputFunc(s) \/ SetFlushFunc(s) \/ SinkWrites(s)
           \/ UNCHANGED logVars
    PROVE  LogInv'
<1> USE DEF LogInv
<1>1. ASSUME NEW t \in Thread, Abort(t) PROVE LogInv'
  <2>1. LogTypeOK'
    BY <1>1 DEF Abort, LogTypeOK, cacheVars, globalVars
  <2>2. LinesInv'
    BY <1>1 DEF Abort, LinesInv, In
  <2>3. FatalInv'
    BY <1>1 DEF Abort, FatalInv, Flushed, In, globalVars
  <2> QED
    BY <2>1, <2>2, <2>3
<1>2. ASSUME NEW level \in Level, SetLogLevel(level) PROVE LogInv'
  <2>1. LogTypeOK'
    BY <1>2 DEF SetLogLevel, LogTypeOK, cacheVars
  <2>2. LinesInv'
    BY <1>2 DEF SetLogLevel, LinesInv, In
  <2>3. FatalInv'
    BY <1>2 DEF SetLogLevel, FatalInv, Flushed, In
  <2> QED
    BY <2>1, <2>2, <2>3
<1>3. ASSUME NEW s \in Sink, SetOutputFunc(s) \/ SetFlushFunc(s) PROVE LogInv'
  <2>1. \A u \in Sink : Len(output[u]) = 0 /\ output'[u] = output[u]
    BY <1>3 DEF SetOutputFunc, SetFlushFunc, Quiet
  <2>2. logger' = logger /\ aborted' = aborted
    BY <1>3 DEF SetOutputFunc, SetFlushFunc
  <2>3. LogTypeOK'
    BY <1>3 DEF SetOutputFunc, SetFlushFunc, LogTypeOK, cacheVars
  <2>4. LinesInv'
    BY <2>1, <2>2 DEF LinesInv, In
  <2>5. FatalInv'
    BY <2>1, <2>2 DEF FatalInv, In
  <2> QED
    BY <2>3, <2>4, <2>5
<1>4. ASSUME NEW s \in Sink, SinkWrites(s) PROVE LogInv'
  <2>1. /\ kept' = [kept EXCEPT ![s] = kept[s] + 1] /\ kept \in [Sink -> Nat]
        /\ UNCHANGED <<cacheVars, globalVars, logger, output, aborted>>
    BY <1>4 DEF SinkWrites, LogTypeOK
  <2>2. kept' \in [Sink -> Nat] /\ \A u \in Sink : kept[u] \in Nat /\ kept'[u] >= kept[u]
    BY <2>1
  <2>3. LogTypeOK'
    BY <2>1, <2>2 DEF LogTypeOK, cacheVars, globalVars
  <2>4. LinesInv'
    BY <2>1 DEF LinesInv, In
  <2>5. ASSUME NEW u \in Sink, NEW i \in 1..Len(output[u]), output[u][i].level = "FATAL"
        PROVE  Flushed(u, i)'
    <3>1. Flushed(u, i)
      BY <2>5 DEF FatalInv
    <3>2. i <= kept[u] => i <= kept'[u]
      BY <2>2
    <3> QED
      BY <2>1, <3>1, <3>2 DEF Flushed, In, globalVars
  <2>6. FatalInv'
    BY <2>1, <2>5 DEF FatalInv, In
  <2> QED
    BY <2>3, <2>4, <2>6
<1>5. ASSUME UNCHANGED logVars PROVE LogInv'
  <2>1. LogTypeOK'
    BY <1>5 DEF logVars, LogTypeOK, cacheVars, globalVars
  <2>2. LinesInv'
    BY <1>5 DEF logVars, LinesInv, In
  <2>3. FatalInv'
    BY <1>5 DEF logVars, FatalInv, Flushed, In, globalVars
  <2> QED
    BY <2>1, <2>2, <2>3
<1> HIDE DEF LogInv
<1> QED
  BY <1>1, <1>2, <1>3, <1>4, <1>5

\* Logging's invariant: every line written is right, and the thread of a fatal one has got no
\* further than its abort, which follows the flush.
THEOREM LoggingInvariant == LogSpec => []LogInv
<1>1. LogInv /\ [LogNext]_logVars => LogInv'
  BY ConstructKeeps, OutputKeeps, FlushKeeps, OthersKeep DEF LogNext
<1> QED
  BY <1>1, InitLogInv, PTL DEF LogSpec

\* Logger and LogStream: whatever was streamed into a line, it fits the buffer, shows the time
\* at which its Logger was made and numbers that read back, is whole if it leaves room for a
\* number, and ends with a newline unless the buffer is full.
THEOREM LinesAreRight == LogSpec => []LinesRight
<1>1. LogInv => LinesRight
  <2> SUFFICES ASSUME LogInv, NEW line \in Lines PROVE Right(line)
    BY DEF LinesRight, Right, Reads
  <2>1. PICK s \in Sink : line \in ToSet(output[s])
    BY DEF Lines
  <2>2. \E i \in DOMAIN output[s] : line = output[s][i]
    BY <2>1 DEF ToSet
  <2>3. DOMAIN output[s] = 1..Len(output[s])
    BY DEF LogInv, LogTypeOK
  <2> QED
    BY <2>2, <2>3 DEF LogInv, LinesInv
<1> QED
  BY <1>1, LoggingInvariant, PTL

\* ~Logger: when a fatal statement aborts the process its line is no longer only in memory, if
\* the flush function belongs to the output function.
THEOREM FatalLineIsKept == LogSpec => []FatalLineKept
<1>1. LogInv => FatalLineKept
  <2> SUFFICES ASSUME LogInv, aborted # "no", g_FlushFunc = g_OutputFunc,
                      NEW i \in 1..Len(output[g_OutputFunc]),
                      output[g_OutputFunc][i].by = aborted, output[g_OutputFunc][i].level = "FATAL"
               PROVE  i <= kept[g_OutputFunc]
    BY DEF FatalLineKept
  <2>1. g_OutputFunc \in Sink
    BY DEF LogInv, LogTypeOK
  <2>2. Flushed(g_OutputFunc, i) /\ In(aborted, "abort")
    BY <2>1 DEF LogInv, FatalInv
  <2> QED
    BY <2>2 DEF Flushed, In
<1> QED
  BY <1>1, LoggingInvariant, PTL
=============================================================================
