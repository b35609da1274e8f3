------------------------ MODULE TcpConnectionProofs -------------------------
(***************************************************************************)
(* Proofs about TcpConnection for any threads, any messages of any length,    *)
(* any send buffer of the kernel and any amount of input.                     *)
(***************************************************************************)
EXTENDS TcpConnection, SequenceTheorems, TLAPS

-----------------------------------------------------------------------------
(* Operators                                                                *)

\* A message's bytes are as many as its length.
LEMMA BytesType ==
    ASSUME NEW m \in Message
    PROVE  Bytes(m) \in Seq(Byte) /\ Len(Bytes(m)) = MessageLength
<1>1. MessageLength \in Nat
  BY LengthAssumption
<1>2. \A i \in 1..MessageLength : <<m, i>> \in Byte
  BY DEF Byte
<1> QED
  BY <1>1, <1>2, IsASeq DEF Bytes

\* A short write splits bytes into what the kernel took and the rest.
LEMMA Split ==
    ASSUME NEW s \in Seq(Byte), NEW n \in 0..Len(s)
    PROVE  /\ Prefix(s, n) \in Seq(Byte) /\ Len(Prefix(s, n)) = n
           /\ Suffix(s, n) \in Seq(Byte) /\ Len(Suffix(s, n)) = Len(s) - n
           /\ Prefix(s, n) \o Suffix(s, n) = s
           /\ n = 0 => Prefix(s, n) = <<>> /\ Suffix(s, n) = s
           /\ n = Len(s) => Prefix(s, n) = s /\ Suffix(s, n) = <<>>
<1>1. /\ Prefix(s, n) \in Seq(Byte) /\ Len(Prefix(s, n)) = n
      /\ Suffix(s, n) \in Seq(Byte) /\ Len(Suffix(s, n)) = Len(s) - n
  BY DEF Prefix, Suffix
<1>2. /\ \A i \in 1..n : Prefix(s, n)[i] = s[i]
      /\ \A i \in 1..(Len(s) - n) : Suffix(s, n)[i] = s[n + i]
  BY DEF Prefix, Suffix
<1>3. Prefix(s, n) \o Suffix(s, n) = s
  <2>0. PICK p, q : p = Prefix(s, n) /\ q = Suffix(s, n)
    OBVIOUS
  <2>5. Len(s) \in Nat /\ n \in Nat /\ n <= Len(s)
    BY LenProperties
  <2>1. p \in Seq(Byte) /\ q \in Seq(Byte) /\ Len(p) = n /\ Len(q) = Len(s) - n
    BY <1>1, <2>0
  <2>2. p \o q \in Seq(Byte) /\ Len(p \o q) = Len(s)
    BY <2>1
  <2>3. /\ \A i \in 1..n : p[i] = s[i]
        /\ \A i \in 1..(Len(s) - n) : q[i] = s[n + i]
    BY <1>2, <2>0
  <2>4. \A i \in 1..Len(s) : (p \o q)[i] = s[i]
    <3> SUFFICES ASSUME NEW i \in 1..Len(s) PROVE (p \o q)[i] = s[i]
      OBVIOUS
    <3>1. CASE i <= n
      <4>1. i \in 1..n
        BY <3>1
      <4> QED
        BY <2>1, <2>3, <4>1
    <3>2. CASE i > n
      <4>1. i - n \in 1..(Len(s) - n) /\ n + (i - n) = i
        BY <3>2
      <4>2. (p \o q)[i] = q[i - n]
        BY <2>1, <2>5, <3>2, ConcatProperties
      <4> QED
        BY <2>3, <4>1, <4>2
    <3>3. i <= n \/ i > n
      BY <2>5
    <3> QED
      BY <3>1, <3>2, <3>3, Zenon
  <2> QED
    BY <2>0, <2>2, <2>4, SeqEqual
<1>4. ASSUME n = 0 PROVE Prefix(s, n) = <<>> /\ Suffix(s, n) = s
  BY <1>1, <1>3, <1>4, EmptySeq, ConcatEmptySeq
<1>5. ASSUME n = Len(s) PROVE Prefix(s, n) = s /\ Suffix(s, n) = <<>>
  BY <1>1, <1>3, <1>5, EmptySeq, ConcatEmptySeq
<1> QED
  BY <1>1, <1>3, <1>4, <1>5

\* A write takes no more than there is, nor more than the kernel has room for.
LEMMA TakesType ==
    ASSUME TypeOK, NEW s \in Seq(Byte), NEW n \in Takes(s)
    PROVE  n \in 0..Len(s) /\ unacked + n \in 0..SendBuffer
  BY LengthAssumption DEF Takes, Room, TypeOK

\* A channel keeps its type; updating it never makes it NEW.
LEMMA ChannelKept ==
    ASSUME NEW ch \in ChannelType
    PROVE  /\ EnableReading(ch) \in ChannelType /\ EnableWriting(ch) \in ChannelType
           /\ DisableWriting(ch) \in ChannelType /\ DisableAll(ch) \in ChannelType
           /\ RemoveChannel(ch) \in ChannelType
           /\ IsWriting(EnableWriting(ch)) /\ ~IsWriting(DisableWriting(ch))
           /\ IsWriting(EnableReading(ch)) <=> IsWriting(ch)
           /\ CanRemove(DisableAll(ch))
           /\ RemoveChannel(DisableAll(ch)) = NewChannel
<1> USE DEF ChannelType
<1>1. ASSUME NEW c \in ChannelType
      PROVE  /\ UpdateChannel(c) \in ChannelType /\ UpdateChannel(c).m_nIndex # "NEW"
             /\ UpdateChannel(c).m_nEvents = c.m_nEvents
  BY <1>1 DEF UpdateChannel
<1>2. ASSUME NEW E \in SUBSET {"read", "write"}
      PROVE  /\ [ch EXCEPT !.m_nEvents = E] \in ChannelType
             /\ [ch EXCEPT !.m_nEvents = E].m_nEvents = E
  BY <1>2
<1>3. ASSUME NEW c \in ChannelType
      PROVE  /\ RemoveChannel(c) \in ChannelType
             /\ RemoveChannel(c) = [m_nEvents |-> c.m_nEvents, m_nIndex |-> "NEW"]
  BY <1>3 DEF RemoveChannel
<1>4. EnableReading(ch) \in ChannelType /\ (IsWriting(EnableReading(ch)) <=> IsWriting(ch))
  BY <1>1, <1>2 DEF EnableReading, IsWriting
<1>5. EnableWriting(ch) \in ChannelType /\ IsWriting(EnableWriting(ch))
  BY <1>1, <1>2 DEF EnableWriting, IsWriting
<1>6. DisableWriting(ch) \in ChannelType /\ ~IsWriting(DisableWriting(ch))
  BY <1>1, <1>2 DEF DisableWriting, IsWriting
<1>7. /\ DisableAll(ch) \in ChannelType /\ DisableAll(ch).m_nEvents = {}
      /\ CanRemove(DisableAll(ch))
  BY <1>1, <1>2 DEF DisableAll, CanRemove, IsNoneEvent
<1>8. RemoveChannel(DisableAll(ch)) = NewChannel
  BY <1>3, <1>7 DEF NewChannel
<1> QED
  BY <1>3, <1>4, <1>5, <1>6, <1>7, <1>8

-----------------------------------------------------------------------------
(* Types                                                                    *)

\* The queue of functors: what is appended to it, and what a run one leaves.
LEMMA QueueType ==
    ASSUME TypeOK
    PROVE  /\ \A f \in Functors : Append(functors, f) \in Seq(Functors) /\ Len(Append(functors, f)) = Len(functors) + 1
           /\ \A c \in {"shutdown", "destroyed", "complete"} : [call |-> c] \in Functors
           /\ \A m \in Message : [call |-> "send", msg |-> m] \in Functors
           /\ batch > 0 => /\ functors # <<>> /\ Head(functors) \in Functors
                           /\ Tail(functors) \in Seq(Functors)
                           /\ Len(Tail(functors)) = Len(functors) - 1
           /\ Len(functors) \in Nat /\ batch \in Nat /\ batch <= Len(functors)
<1>1. Len(functors) \in Nat /\ batch \in Nat /\ batch <= Len(functors) /\ functors \in Seq(Functors)
  BY DEF TypeOK
<1>2. \A f \in Functors : Append(functors, f) \in Seq(Functors) /\ Len(Append(functors, f)) = Len(functors) + 1
  BY <1>1
<1>3. batch > 0 => /\ functors # <<>> /\ Head(functors) \in Functors
                   /\ Tail(functors) \in Seq(Functors)
                   /\ Len(Tail(functors)) = Len(functors) - 1
  BY <1>1
<1>4. \A c \in {"shutdown", "destroyed", "complete"} : [call |-> c] \in Functors
  BY DEF Functors
<1>5. \A m \in Message : [call |-> "send", msg |-> m] \in Functors
  BY DEF Functors
<1> QED
  BY <1>1, <1>2, <1>3, <1>4, <1>5

\* sendInLoop's result, with the queue that is left before it.
LEMMA SendType ==
    ASSUME TypeOK, NEW m \in Message, NEW rest \in Seq(Functors), sendInLoop(m, rest)
    PROVE  /\ m_pChannel' \in ChannelType
           /\ m_OutputBuffer' \in Seq(Byte) /\ sent' \in Seq(Byte) /\ wire' \in Seq(Byte)
           /\ functors' \in Seq(Functors) /\ Len(functors') >= Len(rest)
           /\ unacked' \in 0..SendBuffer /\ soError' \in BOOLEAN
           /\ UNCHANGED <<m_eConnectState, inMap, wrShut>>
<1>0. \A c \in {"shutdown", "destroyed", "complete"} : [call |-> c] \in Functors
  BY QueueType
<1>1. CASE m_eConnectState = "Disconnected"
  BY <1>1 DEF sendInLoop, connVars, TypeOK
<1>2. CASE m_eConnectState # "Disconnected"
  <2>1. PICK n \in IF CanWriteNow THEN Takes(Bytes(m)) ELSE {0} :
          /\ SendBytes(Bytes(m), n)
          /\ functors' = IF n = MessageLength THEN Append(rest, [call |-> "complete"]) ELSE rest
          /\ soError' = IF CanWriteNow /\ Broken THEN FALSE ELSE soError
          /\ UNCHANGED <<m_eConnectState, inMap, wrShut>>
    BY <1>2 DEF sendInLoop
  <2>2. n \in 0..Len(Bytes(m)) /\ unacked + n \in 0..SendBuffer
    <3>1. unacked \in 0..SendBuffer /\ Len(Bytes(m)) \in Nat
      BY BytesType, LengthAssumption DEF TypeOK
    <3> QED
      BY <2>1, <3>1, BytesType, TakesType
  <2>3. Prefix(Bytes(m), n) \in Seq(Byte) /\ Suffix(Bytes(m), n) \in Seq(Byte)
    BY <2>2, BytesType, Split
  <2>4. m_OutputBuffer' \in Seq(Byte) /\ sent' \in Seq(Byte) /\ wire' \in Seq(Byte)
    BY <2>1, <2>3, BytesType, ConcatProperties DEF SendBytes, TypeOK
  <2>5. m_pChannel' \in ChannelType
    BY <2>1, ChannelKept DEF SendBytes, TypeOK
  <2>6. functors' \in Seq(Functors) /\ Len(functors') >= Len(rest)
    BY <1>0, <2>1
  <2>7. soError' \in BOOLEAN
    BY <2>1 DEF TypeOK
  <2> QED
    BY <2>1, <2>2, <2>4, <2>5, <2>6, <2>7 DEF SendBytes
<1> QED
  BY <1>1, <1>2

\* handleClose's result, called in HandleHup and handleRead.
LEMMA CloseType ==
    ASSUME TypeOK, failed = "no", handleClose \/ UNCHANGED <<m_pChannel, inMap, functors, failed>>
    PROVE  /\ m_pChannel' \in ChannelType /\ inMap' \in BOOLEAN
           /\ functors' \in Seq(Functors) /\ batch \in 0..Len(functors')
           /\ failed' \in {"no", "close"}
<1>1. CASE UNCHANGED <<m_pChannel, inMap, functors, failed>>
  BY <1>1 DEF TypeOK
<1>2. CASE failed' = "close" /\ UNCHANGED <<m_pChannel, inMap, functors>>
  BY <1>2 DEF TypeOK
<1>3. CASE /\ m_pChannel' = DisableAll(m_pChannel) /\ inMap' = FALSE /\ Queue("destroyed")
           /\ UNCHANGED failed
  <2>1. functors' \in Seq(Functors) /\ Len(functors') = Len(functors) + 1
    BY <1>3, QueueType DEF Queue
  <2>2. m_pChannel' \in ChannelType
    BY <1>3, ChannelKept DEF TypeOK
  <2>3. batch \in 0..Len(functors')
    BY <2>1, QueueType
  <2> QED
    BY <1>3, <2>1, <2>2, <2>3
<1> QED
  BY <1>1, <1>2, <1>3 DEF handleClose

\* Every step keeps the types.
LEMMA TypeStep == TypeOK /\ [Next]_vars => TypeOK'
<1> SUFFICES ASSUME TypeOK, [Next]_vars PROVE TypeOK'
  OBVIOUS
<1> USE DEF connVars, loopVars, peerVars, callVars
<1>1. CASE UNCHANGED vars
  BY <1>1 DEF TypeOK, vars
<1>2. CASE Next /\ (BeginFunctors \/ EndFunctors \/ ConnectedEstablished \/ LoopShutDown)
  <2>1. CASE BeginFunctors
    BY <2>1, QueueType DEF BeginFunctors, TypeOK
  <2>2. CASE EndFunctors
    BY <2>2 DEF EndFunctors, TypeOK
  <2>3. CASE ConnectedEstablished
    BY <2>3, ChannelKept DEF ConnectedEstablished, TypeOK, States
  <2>4. CASE LoopShutDown
    BY <2>4 DEF LoopShutDown, shutDownInLoop, TypeOK, States
  <2> QED
    BY <1>2, <2>1, <2>2, <2>3, <2>4
<1>3. ASSUME NEW active \in BOOLEAN, Poll(active) PROVE TypeOK'
  <2>1. Reported \subseteq {"hup", "err", "in", "out"}
    BY DEF Reported
  <2> QED
    BY <1>3, <2>1 DEF Poll, TypeOK
<1>4. CASE Next /\ HandleHup
  <2>1. handleClose \/ UNCHANGED <<m_pChannel, inMap, functors, failed>>
    BY <1>4 DEF HandleHup
  <2>2. failed = "no"
    BY <1>4 DEF Next
  <2> QED
    BY <1>4, <2>1, <2>2, CloseType DEF HandleHup, TypeOK
<1>5. CASE Next /\ handleRead
  <2>1. handleClose \/ UNCHANGED <<m_pChannel, inMap, functors, failed>>
    BY <1>5 DEF handleRead
  <2>2. failed = "no"
    BY <1>5 DEF Next
  <2>3. /\ unread' = 0 /\ soError' \in BOOLEAN
        /\ revents' \subseteq {"hup", "err", "in", "out"}
    BY <1>5 DEF handleRead, TypeOK
  <2>4. 0 \in 0..input
    BY LengthAssumption DEF TypeOK
  <2> QED
    BY <1>5, <2>1, <2>2, <2>3, <2>4, CloseType DEF handleRead, TypeOK
<1>6. CASE handleError
  BY <1>6 DEF handleError, TypeOK
<1>7. CASE handleWrite
  <2>1. CASE ~IsWriting(m_pChannel)
    BY <1>7, <2>1 DEF handleWrite, TypeOK
  <2>2. CASE IsWriting(m_pChannel)
    <3>1. PICK n \in Takes(m_OutputBuffer) :
           /\ wire' = wire \o Prefix(m_OutputBuffer, n)
           /\ m_OutputBuffer' = Suffix(m_OutputBuffer, n)
           /\ unacked' = unacked + n
           /\ failed' = IF n = 0 THEN "write" ELSE failed
           /\ handleWriteDone \/ UNCHANGED <<m_pChannel, wrShut, functors>>
      BY <1>7, <2>2 DEF handleWrite
    <3>2. m_OutputBuffer \in Seq(Byte) /\ wire \in Seq(Byte)
      BY DEF TypeOK
    <3>3. n \in 0..Len(m_OutputBuffer) /\ unacked' \in 0..SendBuffer
      BY <3>1, <3>2, TakesType
    <3>4. wire' \in Seq(Byte) /\ m_OutputBuffer' \in Seq(Byte)
      BY <3>1, <3>2, <3>3, Split, ConcatProperties
    <3>5. /\ m_pChannel' \in ChannelType /\ wrShut' \in BOOLEAN
          /\ functors' \in Seq(Functors) /\ Len(functors') >= Len(functors)
      <4>1. CASE handleWriteDone
        <5>1. functors' \in Seq(Functors) /\ Len(functors') = Len(functors) + 1
          BY <4>1, QueueType DEF handleWriteDone, Queue
        <5>2. m_pChannel' \in ChannelType /\ wrShut' \in BOOLEAN
          BY <4>1, ChannelKept DEF handleWriteDone, shutDownInLoop, TypeOK
        <5> QED
          BY <5>1, <5>2, QueueType
      <4>2. CASE UNCHANGED <<m_pChannel, wrShut, functors>>
        BY <4>2, QueueType DEF TypeOK
      <4> QED
        BY <3>1, <4>1, <4>2
    <3>6. batch \in 0..Len(functors')
      BY <3>5, QueueType
    <3>7. failed' \in {"no", "close", "write", "destroyed", "dangling"}
      BY <3>1 DEF TypeOK
    <3> QED
      BY <1>7, <3>3, <3>4, <3>5, <3>6, <3>7 DEF handleWrite, TypeOK
  <2> QED
    BY <2>1, <2>2
<1>8. CASE RunFunctor
  <2>1. /\ functors # <<>> /\ Head(functors) \in Functors /\ Tail(functors) \in Seq(Functors)
        /\ Len(Tail(functors)) = Len(functors) - 1 /\ batch' = batch - 1
        /\ batch \in Nat /\ batch > 0 /\ batch <= Len(functors) /\ Len(functors) \in Nat
    BY <1>8, QueueType DEF RunFunctor
  <2>2. pinned' \in BOOLEAN /\ UNCHANGED <<at, revents, peerVars, callVars>>
    BY <1>8 DEF RunFunctor, TypeOK
  <2>3. CASE failed' = "dangling" /\ UNCHANGED <<connVars, functors, soError, unacked>>
    BY <2>1, <2>2, <2>3 DEF TypeOK
  <2>4. CASE Head(functors).call = "send" /\ sendInLoop(Head(functors).msg, Tail(functors)) /\ UNCHANGED failed
    <3>1. Head(functors).msg \in Message
      BY <2>1, <2>4 DEF Functors
    <3>2. /\ m_pChannel' \in ChannelType
          /\ m_OutputBuffer' \in Seq(Byte) /\ sent' \in Seq(Byte) /\ wire' \in Seq(Byte)
          /\ functors' \in Seq(Functors) /\ Len(functors') >= Len(Tail(functors))
          /\ unacked' \in 0..SendBuffer /\ soError' \in BOOLEAN
          /\ UNCHANGED <<m_eConnectState, inMap, wrShut>>
      BY <2>1, <2>4, <3>1, SendType
    <3>3. batch' \in 0..Len(functors')
      BY <2>1, <3>2
    <3> QED
      BY <2>2, <2>4, <3>2, <3>3 DEF TypeOK
  <2>5. CASE /\ wrShut' = shutDownInLoop(IsWriting(m_pChannel))
             /\ functors' = Tail(functors)
             /\ UNCHANGED <<m_eConnectState, m_pChannel, m_OutputBuffer, inMap, sent, wire,
                            soError, unacked, failed>>
    BY <2>1, <2>2, <2>5 DEF TypeOK, shutDownInLoop
  <2>6. CASE ConnectedDestroyed
    <3>1. m_pChannel' \in ChannelType
      BY <2>6, ChannelKept DEF ConnectedDestroyed, TypeOK
    <3>2. m_eConnectState' \in States /\ failed' \in {failed, "destroyed"} /\ functors' = Tail(functors)
          /\ UNCHANGED <<m_OutputBuffer, inMap, wrShut, sent, wire, soError, unacked>>
      BY <2>6 DEF ConnectedDestroyed, States
    <3> QED
      BY <2>1, <2>2, <3>1, <3>2 DEF TypeOK
  <2>7. CASE functors' = Tail(functors) /\ UNCHANGED <<connVars, soError, unacked, failed>>
    BY <2>1, <2>2, <2>7 DEF TypeOK
  <2> QED
    BY <1>8, <2>3, <2>4, <2>5, <2>6, <2>7 DEF RunFunctor
<1>9. ASSUME NEW m \in Message, LoopSend(m) PROVE TypeOK'
  <2>1. sendInLoop(m, functors) /\ UNCHANGED <<batch, pinned, at, revents, peerVars, callVars, failed>>
    BY <1>9 DEF LoopSend
  <2>2. functors \in Seq(Functors)
    BY DEF TypeOK
  <2>3. /\ m_pChannel' \in ChannelType
        /\ m_OutputBuffer' \in Seq(Byte) /\ sent' \in Seq(Byte) /\ wire' \in Seq(Byte)
        /\ functors' \in Seq(Functors) /\ Len(functors') >= Len(functors)
        /\ unacked' \in 0..SendBuffer /\ soError' \in BOOLEAN
        /\ UNCHANGED <<m_eConnectState, inMap, wrShut>>
    BY <2>1, <2>2, SendType
  <2>4. batch' \in 0..Len(functors')
    BY <2>1, <2>3, QueueType
  <2> QED
    BY <2>1, <2>3, <2>4 DEF TypeOK
<1>10. ASSUME NEW t \in Thread, ThreadCall(t) \/ ThreadStep(t) PROVE TypeOK'
  <2>0. [call |-> "disconnecting"] \in Calls /\ [call |-> "shutdown"] \in Calls
    BY DEF Calls
  <2>1. CASE ShutDownTest(t) \/ Release(t)
    <3>1. CASE ShutDownTest(t)
      BY <2>0, <3>1 DEF ShutDownTest, TypeOK
    <3>2. CASE Release(t)
      BY <3>2 DEF Release, TypeOK
    <3> QED
      BY <2>1, <3>1, <3>2
  <2>2. CASE ShutDownSet(t)
    BY <2>0, <2>2 DEF ShutDownSet, TypeOK, States
  <2>3. ASSUME NEW m \in Message, SendTest(t, m) PROVE TypeOK'
    BY <2>3 DEF SendTest, TypeOK, Calls
  <2>4. CASE QueueCall(t)
    <3>1. calls[t] \in Functors
      BY <2>4 DEF QueueCall, TypeOK, Calls, Functors
    <3>2. functors' \in Seq(Functors) /\ Len(functors') = Len(functors) + 1
      BY <2>4, <3>1, QueueType DEF QueueCall
    <3>3. batch' \in 0..Len(functors')
      BY <2>4, <3>2, QueueType DEF QueueCall
    <3>4. calls' \in [Thread -> Calls]
      BY <2>4 DEF QueueCall, TypeOK, Calls, Idle
    <3> QED
      BY <2>4, <3>2, <3>3, <3>4 DEF QueueCall, TypeOK
  <2> QED
    BY <1>10, <2>1, <2>2, <2>3, <2>4 DEF ThreadCall, ThreadStep
<1>11. CASE PeerSends \/ PeerReads \/ PeerCloses \/ PeerResets
  <2>1. CASE PeerSends
    BY <2>1, LengthAssumption DEF PeerSends, TypeOK
  <2>2. CASE PeerReads
    BY <2>2, LengthAssumption DEF PeerReads, TypeOK
  <2>3. CASE PeerCloses \/ PeerResets
    BY <2>3 DEF PeerCloses, PeerResets, TypeOK
  <2> QED
    BY <1>11, <2>1, <2>2, <2>3
<1> QED
  BY <1>1, <1>2, <1>3, <1>4, <1>5, <1>6, <1>7, <1>8, <1>9, <1>10, <1>11 DEF Next, LoopStep

\* Every variable keeps its type, the send buffer its limit and a round its functors, for any
\* threads and messages.
THEOREM ConnectionTypeCorrect == Spec => []TypeOK
<1>1. Init => TypeOK
  <2> SUFFICES ASSUME Init PROVE TypeOK
    OBVIOUS
  <2>1. <<>> \in Seq(Byte) /\ <<>> \in Seq(Functors) /\ Len(<<>>) = 0
    OBVIOUS
  <2>2. m_pChannel \in ChannelType
    BY DEF Init, NewChannel, ChannelType
  <2>3. calls \in [Thread -> Calls]
    BY DEF Init, Idle, Calls
  <2>4. 0 \in 0..MaxInput /\ 0 \in 0..SendBuffer /\ 0 \in 0..0
    BY LengthAssumption
  <2> QED
    BY <2>1, <2>2, <2>3, <2>4 DEF Init, TypeOK, States
<1> QED
  BY <1>1, TypeStep, PTL DEF Spec

-----------------------------------------------------------------------------
(* The stream of bytes                                                      *)

\* A sequence given in two parts, behind another one.
LEMMA TwoParts ==
    ASSUME NEW w \in Seq(Byte), NEW p \in Seq(Byte), NEW q \in Seq(Byte)
    PROVE  (w \o p) \o q = w \o (p \o q)
BY ConcatAssociative

\* What the kernel takes of d, and the rest of d, behind the stream w.
LEMMA Regroup ==
    ASSUME NEW w \in Seq(Byte), NEW d \in Seq(Byte), NEW n \in 0..Len(d)
    PROVE  (w \o Prefix(d, n)) \o Suffix(d, n) = w \o d
<1>1. Prefix(d, n) \in Seq(Byte) /\ Suffix(d, n) \in Seq(Byte) /\ Prefix(d, n) \o Suffix(d, n) = d
  BY Split
<1>2. (w \o Prefix(d, n)) \o Suffix(d, n) = w \o (Prefix(d, n) \o Suffix(d, n))
  BY <1>1, TwoParts, Zenon
<1> QED
  BY <1>1, <1>2, Zenon

\* Bytes that go to the kernel, and what is left of them, behind the stream so far.
LEMMA StreamGrows ==
    ASSUME NEW w \in Seq(Byte), NEW b \in Seq(Byte), NEW d \in Seq(Byte), NEW n \in 0..Len(d),
           n = 0 \/ b = <<>>
    PROVE  (w \o Prefix(d, n)) \o (b \o Suffix(d, n)) = (w \o b) \o d
<1>1. Prefix(d, n) \in Seq(Byte) /\ Suffix(d, n) \in Seq(Byte) /\ Prefix(d, n) \o Suffix(d, n) = d
  BY Split
<1>2. CASE n = 0
  <2>1. Prefix(d, n) = <<>> /\ Suffix(d, n) = d
    BY <1>2, Split
  <2> QED
    BY <2>1, ConcatAssociative, ConcatEmptySeq
<1>3. CASE b = <<>>
  <2>1. b \o Suffix(d, n) = Suffix(d, n) /\ w \o b = w
    BY <1>1, <1>3, ConcatEmptySeq
  <2>2. (w \o Prefix(d, n)) \o Suffix(d, n) = w \o d
    BY Regroup, Zenon
  <2> QED
    BY <2>1, <2>2, Zenon
<1> QED
  BY <1>2, <1>3

\* sendInLoop keeps the order of the stream, and watches the output it buffers.
LEMMA SendInOrder ==
    ASSUME TypeOK, StreamInOrder, NEW m \in Message, NEW rest, sendInLoop(m, rest)
    PROVE  StreamInOrder'
<1>1. CASE m_eConnectState = "Disconnected"
  BY <1>1 DEF sendInLoop, connVars, StreamInOrder
<1>2. CASE m_eConnectState # "Disconnected"
  <2>1. PICK n \in IF CanWriteNow THEN Takes(Bytes(m)) ELSE {0} : SendBytes(Bytes(m), n)
    BY <1>2 DEF sendInLoop
  <2>2. n \in 0..Len(Bytes(m)) /\ (n = 0 \/ m_OutputBuffer = <<>>)
    <3>1. Len(Bytes(m)) \in Nat
      BY BytesType, LengthAssumption
    <3> QED
      BY <2>1, <3>1, BytesType, TakesType DEF CanWriteNow
  <2>3. wire \in Seq(Byte) /\ m_OutputBuffer \in Seq(Byte)
    BY DEF TypeOK
  <2> QED
    BY <2>1, <2>2, <2>3, BytesType, StreamGrows DEF SendBytes, StreamInOrder
<1> QED
  BY <1>1, <1>2

\* A step either runs sendInLoop or handleWrite, or leaves the stream alone.
LEMMA StreamSteps ==
    ASSUME TypeOK, Next
    PROVE  \/ UNCHANGED <<m_OutputBuffer, sent, wire>>
           \/ handleWrite
           \/ \E m \in Message : \E rest : sendInLoop(m, rest)
<1> USE DEF connVars
<1>1. CASE RunFunctor
  <2>1. Head(functors) \in Functors
    BY <1>1, QueueType DEF RunFunctor
  <2>2. Head(functors).call = "send" => Head(functors).msg \in Message
    BY <2>1 DEF Functors
  <2> QED
    BY <1>1, <2>2 DEF RunFunctor, ConnectedDestroyed
<1>2. ASSUME NEW m \in Message, LoopSend(m) PROVE sendInLoop(m, functors)
  BY <1>2 DEF LoopSend
<1>3. ASSUME NEW active \in BOOLEAN, Poll(active) PROVE UNCHANGED <<m_OutputBuffer, sent, wire>>
  BY <1>3 DEF Poll
<1>4. ASSUME NEW t \in Thread, ThreadCall(t) \/ ThreadStep(t)
      PROVE  UNCHANGED <<m_OutputBuffer, sent, wire>>
  BY <1>4 DEF ThreadCall, ThreadStep, ShutDownTest, Release, SendTest, ShutDownSet, QueueCall
<1>5. CASE PeerSends \/ PeerReads \/ PeerCloses \/ PeerResets
  BY <1>5 DEF PeerSends, PeerReads, PeerCloses, PeerResets
<1>6. CASE HandleHup \/ handleError \/ handleRead
  BY <1>6 DEF HandleHup, handleError, handleRead
<1>7. CASE BeginFunctors \/ EndFunctors \/ ConnectedEstablished \/ LoopShutDown
  BY <1>7 DEF BeginFunctors, EndFunctors, ConnectedEstablished, LoopShutDown
<1> QED
  BY <1>1, <1>2, <1>3, <1>4, <1>5, <1>6, <1>7 DEF Next, LoopStep

\* The bytes the kernel took, and those that wait, are those that sendInLoop accepted, in
\* order: short writes and buffering lose, repeat or overtake none.
THEOREM StreamStaysInOrder == Spec => []StreamInOrder
<1>1. Init => StreamInOrder
  BY DEF Init, StreamInOrder
<1>2. TypeOK /\ StreamInOrder /\ [Next]_vars => StreamInOrder'
  <2> SUFFICES ASSUME TypeOK, StreamInOrder, [Next]_vars PROVE StreamInOrder'
    OBVIOUS
  <2>1. CASE UNCHANGED <<m_OutputBuffer, sent, wire>>
    BY <2>1 DEF StreamInOrder
  <2>2. CASE handleWrite
    <3>1. CASE ~IsWriting(m_pChannel)
      BY <2>1, <2>2, <3>1 DEF handleWrite
    <3>2. CASE IsWriting(m_pChannel)
      <4>1. PICK n \in Takes(m_OutputBuffer) :
             /\ wire' = wire \o Prefix(m_OutputBuffer, n)
             /\ m_OutputBuffer' = Suffix(m_OutputBuffer, n)
             /\ sent' = sent
        BY <2>2, <3>2 DEF handleWrite
      <4>2. m_OutputBuffer \in Seq(Byte) /\ wire \in Seq(Byte)
        BY DEF TypeOK
      <4>3. n \in 0..Len(m_OutputBuffer)
        BY <4>1, <4>2, TakesType
      <4>4. (wire \o Prefix(m_OutputBuffer, n)) \o Suffix(m_OutputBuffer, n)
              = wire \o m_OutputBuffer
        BY <4>2, <4>3, Regroup, Zenon
      <4> QED
        BY <4>1, <4>4, Zenon DEF StreamInOrder
    <3> QED
      BY <3>1, <3>2
  <2>3. CASE \E m \in Message : \E rest : sendInLoop(m, rest)
    BY <2>3, SendInOrder
  <2> QED
    BY <2>1, <2>2, <2>3, StreamSteps DEF vars, connVars
<1> QED
  BY <1>1, <1>2, ConnectionTypeCorrect, PTL DEF Spec

-----------------------------------------------------------------------------
(* The life of a connection                                                 *)

\* What the queue's ConnectedDestroyed becomes when a functor is appended, or run.
LEMMA DestroyMoves ==
    ASSUME NEW q \in Seq(Functors)
    PROVE  /\ \A f \in Functors : f.call # "destroyed" =>
                /\ NoDestroy(q) => NoDestroy(Append(q, f))
                /\ \A i \in 1..Len(q) : DestroyAt(q, i) => DestroyAt(Append(q, f), i)
           /\ \A f \in Functors : f.call = "destroyed" /\ NoDestroy(q) =>
                DestroyAt(Append(q, f), Len(q) + 1)
           /\ q # <<>> =>
                /\ NoDestroy(q) => NoDestroy(Tail(q))
                /\ DestroyAt(q, 1) => NoDestroy(Tail(q))
                /\ \A i \in 2..Len(q) : DestroyAt(q, i) => DestroyAt(Tail(q), i - 1)
                /\ Head(q) = q[1] /\ 1 \in 1..Len(q)
<1>0. Len(q) \in Nat
  OBVIOUS
<1>1. ASSUME NEW f \in Functors
      PROVE  /\ Append(q, f) \in Seq(Functors) /\ Len(Append(q, f)) = Len(q) + 1
             /\ \A i \in 1..Len(q) : Append(q, f)[i] = q[i]
             /\ Append(q, f)[Len(q) + 1] = f
  BY AppendProperties
<1>2. ASSUME NEW f \in Functors, f.call # "destroyed"
      PROVE  /\ NoDestroy(q) => NoDestroy(Append(q, f))
             /\ \A i \in 1..Len(q) : DestroyAt(q, i) => DestroyAt(Append(q, f), i)
  <2>1. \A j \in 1..(Len(q) + 1) : j \in 1..Len(q) \/ j = Len(q) + 1
    BY <1>0
  <2>2. 1..Len(q) \subseteq 1..(Len(q) + 1)
    BY <1>0
  <2> QED
    BY <1>1, <1>2, <2>1, <2>2 DEF NoDestroy, DestroyAt
<1>3. ASSUME NEW f \in Functors, f.call = "destroyed", NoDestroy(q)
      PROVE  DestroyAt(Append(q, f), Len(q) + 1)
  <2>1. \A j \in 1..(Len(q) + 1) : j \in 1..Len(q) \/ j = Len(q) + 1
    BY <1>0
  <2>2. Len(q) + 1 \in 1..(Len(q) + 1)
    BY <1>0
  <2> QED
    BY <1>1, <1>3, <2>1, <2>2 DEF NoDestroy, DestroyAt
<1>4. ASSUME q # <<>>
      PROVE  /\ NoDestroy(q) => NoDestroy(Tail(q))
             /\ DestroyAt(q, 1) => NoDestroy(Tail(q))
             /\ \A i \in 2..Len(q) : DestroyAt(q, i) => DestroyAt(Tail(q), i - 1)
             /\ Head(q) = q[1] /\ 1 \in 1..Len(q)
  <2>1. /\ Tail(q) \in Seq(Functors) /\ Len(Tail(q)) = Len(q) - 1
        /\ \A j \in 1..(Len(q) - 1) : Tail(q)[j] = q[j + 1]
    BY <1>4
  <2>2. \A j \in 1..(Len(q) - 1) : j + 1 \in 1..Len(q) /\ j + 1 # 1
    BY <1>0
  <2>3. NoDestroy(q) => NoDestroy(Tail(q))
    BY <2>1, <2>2 DEF NoDestroy
  <2>4. DestroyAt(q, 1) => NoDestroy(Tail(q))
    BY <2>1, <2>2 DEF NoDestroy, DestroyAt
  <2>5. ASSUME NEW i \in 2..Len(q), DestroyAt(q, i) PROVE DestroyAt(Tail(q), i - 1)
    <3>1. i - 1 \in 1..(Len(q) - 1) /\ (i - 1) + 1 = i
      BY <1>0
    <3>2. \A j \in 1..(Len(q) - 1) : Tail(q)[j].call = "destroyed" => j + 1 = i
      BY <2>1, <2>2, <2>5 DEF DestroyAt
    <3>3. \A j \in 1..(Len(q) - 1) : j + 1 = i => j = i - 1
      BY <1>0
    <3> QED
      BY <2>1, <2>5, <3>1, <3>2, <3>3 DEF DestroyAt
  <2>6. Head(q) = q[1] /\ 1 \in 1..Len(q)
    BY <1>0, <1>4
  <2> QED
    BY <2>3, <2>4, <2>5, <2>6
<1> QED
  BY <1>2, <1>3, <1>4

\* The queue is left alone, or something else than ConnectedDestroyed is appended.
QueueKept ==
    \/ UNCHANGED functors
    \/ \E f \in Functors : f.call # "destroyed" /\ functors' = Append(functors, f)

\* A step that leaves the map, the round and the channel of a destroyed connection alone
\* leaves the connection where it is in its life.
LEMMA LifeKept ==
    ASSUME TypeOK, LifeInv, QueueKept, UNCHANGED <<inMap, at, batch, revived>>,
           \/ UNCHANGED m_eConnectState
           \/ /\ m_eConnectState # "Disconnected"
              /\ m_eConnectState' \in {"Connected", "Disconnecting"},
           UNCHANGED m_pChannel \/ m_eConnectState # "Disconnected" \/ m_pChannel # NewChannel,
           revents' \subseteq revents, failed' \in {failed, "write", "dangling"}
    PROVE  LifeInv'
<1>1. functors \in Seq(Functors)
  BY DEF TypeOK
<1>2. NoDestroy(functors) => NoDestroy(functors')
  BY <1>1, DestroyMoves DEF QueueKept
<1>3. \A i \in 1..Len(functors) : DestroyAt(functors, i) => DestroyAt(functors', i)
  BY <1>1, DestroyMoves DEF QueueKept
<1>4. \A i : DestroyAt(functors', i) => i \in 1..Len(functors')
  BY DEF DestroyAt
<1>5. LifeStage => LifeStage'
  <2>1. CASE inMap /\ m_eConnectState # "Disconnected"
    BY <2>1 DEF LifeStage
  <2>2. CASE /\ ~inMap /\ m_eConnectState \in {"Connected", "Disconnecting"} /\ at # "poll"
             /\ \E i \in 1..Len(functors) : DestroyAt(functors, i) /\ (at = "functors" => i <= batch)
    <3>1. PICK i \in 1..Len(functors) : DestroyAt(functors, i) /\ (at = "functors" => i <= batch)
      BY <2>2
    <3>2. i \in 1..Len(functors') /\ DestroyAt(functors', i)
      BY <1>3, <1>4, <3>1
    <3>3. \E k \in 1..Len(functors') : DestroyAt(functors', k) /\ (at' = "functors" => k <= batch')
      BY <3>1, <3>2
    <3>4. ~inMap' /\ m_eConnectState' \in {"Connected", "Disconnecting"} /\ at' # "poll"
      BY <2>2
    <3> QED
      BY <3>3, <3>4 DEF LifeStage
  <2>3. CASE /\ ~inMap /\ m_eConnectState = "Disconnected" /\ m_pChannel = NewChannel
             /\ NoDestroy(functors)
    BY <1>2, <2>3 DEF LifeStage
  <2> QED
    BY <2>1, <2>2, <2>3 DEF LifeStage
<1>6. /\ inMap' => NoDestroy(functors')
      /\ revents' # {} => at' = "handle"
      /\ at' # "functors" => m_eConnectState' # "Connecting"
  BY <1>2 DEF LifeInv
<1>7. ~revived' => /\ LifeStage'
                   /\ revents' \intersect {"hup", "in"} # {} => inMap'
                   /\ failed' \notin {"close", "destroyed"}
  BY <1>5 DEF LifeInv
<1> QED
  BY <1>6, <1>7 DEF LifeInv

\* sendInLoop appends at most a write-complete functor to the queue it is given.
LEMMA SendQueue ==
    ASSUME TypeOK, NEW m \in Message, NEW rest, sendInLoop(m, rest)
    PROVE  /\ functors' \in {rest, Append(rest, [call |-> "complete"])}
           /\ UNCHANGED m_pChannel \/ m_eConnectState # "Disconnected"
           /\ UNCHANGED <<m_eConnectState, inMap, wrShut>>
  BY DEF sendInLoop, connVars

\* HandleHup and handleRead: when handleClose is called the connection is in the map.
LEMMA CloseLife ==
    ASSUME TypeOK, LifeInv, failed = "no", at = "handle",
           revents \intersect {"hup", "in"} # {}, revents' \subseteq revents,
           \/ handleClose /\ revents' \intersect {"hup", "in"} = {}
           \/ UNCHANGED <<m_pChannel, inMap, functors, failed>>,
           UNCHANGED <<m_eConnectState, at, batch, revived>>
    PROVE  LifeInv'
<1>1. CASE UNCHANGED <<m_pChannel, inMap, functors, failed>>
  BY <1>1, LifeKept DEF QueueKept
<1>2. CASE handleClose /\ revents' \intersect {"hup", "in"} = {}
  <2>1. CASE m_eConnectState \notin {"Connected", "Disconnecting"} \/ ~inMap
    <3>1. failed' = "close" /\ UNCHANGED <<m_pChannel, inMap, functors>>
      BY <1>2, <2>1 DEF handleClose
    <3>2. revived
      BY <2>1 DEF LifeInv, LifeStage, TypeOK, States
    <3> QED
      BY <3>1, <3>2 DEF LifeInv
  <2>2. CASE m_eConnectState \in {"Connected", "Disconnecting"} /\ inMap
    <3>1. /\ inMap' = FALSE /\ functors' = Append(functors, [call |-> "destroyed"])
          /\ UNCHANGED failed
      BY <1>2, <2>2 DEF handleClose, Queue
    <3>2. functors \in Seq(Functors) /\ [call |-> "destroyed"] \in Functors /\ NoDestroy(functors)
      BY <2>2, QueueType DEF TypeOK, LifeInv
    <3>3. DestroyAt(functors', Len(functors) + 1)
      BY <3>1, <3>2, DestroyMoves
    <3>4. Len(functors) + 1 \in 1..Len(functors')
      BY <3>3 DEF DestroyAt
    <3>5. LifeStage'
      BY <2>2, <3>1, <3>3, <3>4 DEF LifeStage
    <3> QED
      BY <1>2, <2>2, <3>1, <3>5 DEF LifeInv
  <2> QED
    BY <2>1, <2>2
<1> QED
  BY <1>1, <1>2

\* A functor that is run, ConnectedDestroyed or another.
LEMMA FunctorLife ==
    ASSUME TypeOK, LifeInv, failed = "no", RunFunctor
    PROVE  LifeInv'
<1> USE DEF connVars
<1>1. /\ functors \in Seq(Functors) /\ functors # <<>> /\ Head(functors) \in Functors
      /\ Tail(functors) \in Seq(Functors) /\ Len(Tail(functors)) = Len(functors) - 1
      /\ batch \in Nat /\ batch > 0 /\ batch' = batch - 1 /\ at = "functors" /\ batch <= Len(functors)
      /\ Len(functors) \in Nat
  BY QueueType DEF RunFunctor, TypeOK
<1>2. UNCHANGED <<at, revents, revived>>
  BY DEF RunFunctor, callVars
<1>3. revents = {}
  BY <1>1 DEF LifeInv
<1>4. /\ NoDestroy(functors) => NoDestroy(Tail(functors))
      /\ DestroyAt(functors, 1) => NoDestroy(Tail(functors))
      /\ \A i \in 2..Len(functors) : DestroyAt(functors, i) => DestroyAt(Tail(functors), i - 1)
      /\ Head(functors) = functors[1] /\ 1 \in 1..Len(functors)
  BY <1>1, DestroyMoves
<1>5. CASE failed' = "dangling" /\ UNCHANGED <<connVars, functors, soError, unacked>>
           /\ ~Alive
  <2>1. ~inMap /\ \A i \in 1..Len(functors) : functors[i].call # "destroyed"
    BY <1>5 DEF Alive
  <2>2. \A i \in 1..Len(functors) : ~DestroyAt(functors, i)
    BY <2>1 DEF DestroyAt
  <2> QED
    BY <1>2, <1>3, <1>5, <2>1, <2>2 DEF LifeInv, LifeStage
<1>6. ASSUME Head(functors).call # "destroyed",
             functors' \in {Tail(functors), Append(Tail(functors), [call |-> "complete"])},
             UNCHANGED m_pChannel \/ m_eConnectState # "Disconnected",
             UNCHANGED <<m_eConnectState, inMap, failed>>
      PROVE  LifeInv'
  <2>1. [call |-> "complete"] \in Functors /\ [call |-> "complete"].call # "destroyed"
    BY QueueType
  <2>2. NoDestroy(functors) => NoDestroy(functors')
    BY <1>1, <1>4, <1>6, <2>1, DestroyMoves
  <2>3. ASSUME NEW i \in 1..Len(functors), DestroyAt(functors, i)
        PROVE  i - 1 \in 1..Len(functors') /\ DestroyAt(functors', i - 1)
    <3>1. i # 1
      BY <1>4, <1>6, <2>3 DEF DestroyAt
    <3>2. i \in 2..Len(functors) /\ i - 1 \in 1..Len(Tail(functors))
      BY <1>1, <3>1
    <3>3. DestroyAt(Tail(functors), i - 1)
      BY <1>4, <2>3, <3>2
    <3>4. DestroyAt(functors', i - 1)
      BY <1>1, <1>6, <2>1, <3>2, <3>3, DestroyMoves
    <3> QED
      BY <3>4 DEF DestroyAt
  <2>4. LifeStage => LifeStage'
    <3>1. CASE inMap /\ m_eConnectState # "Disconnected"
      BY <1>6, <3>1 DEF LifeStage
    <3>2. CASE /\ ~inMap /\ m_eConnectState \in {"Connected", "Disconnecting"} /\ at # "poll"
               /\ \E i \in 1..Len(functors) : DestroyAt(functors, i) /\ (at = "functors" => i <= batch)
      <4>1. PICK i \in 1..Len(functors) : DestroyAt(functors, i) /\ (at = "functors" => i <= batch)
        BY <3>2
      <4>2. i - 1 \in 1..Len(functors') /\ DestroyAt(functors', i - 1)
        BY <2>3, <4>1
      <4>3. i - 1 <= batch'
        BY <1>1, <4>1
      <4>4. \E k \in 1..Len(functors') : DestroyAt(functors', k) /\ (at' = "functors" => k <= batch')
        BY <4>2, <4>3
      <4>5. ~inMap' /\ m_eConnectState' \in {"Connected", "Disconnecting"} /\ at' # "poll"
        BY <1>2, <1>6, <3>2
      <4> QED
        BY <4>4, <4>5 DEF LifeStage
    <3>3. CASE /\ ~inMap /\ m_eConnectState = "Disconnected" /\ m_pChannel = NewChannel
               /\ NoDestroy(functors)
      BY <1>6, <2>2, <3>3 DEF LifeStage
    <3> QED
      BY <3>1, <3>2, <3>3 DEF LifeStage
  <2>5. /\ inMap' => NoDestroy(functors')
        /\ revents' # {} => at' = "handle"
        /\ at' # "functors" => m_eConnectState' # "Connecting"
    BY <1>2, <1>6, <2>2 DEF LifeInv
  <2>6. ~revived' => /\ LifeStage'
                     /\ revents' \intersect {"hup", "in"} # {} => inMap'
                     /\ failed' \notin {"close", "destroyed"}
    BY <1>2, <1>6, <2>4 DEF LifeInv
  <2> QED
    BY <2>5, <2>6 DEF LifeInv
<1>7. CASE Head(functors).call = "destroyed" /\ ConnectedDestroyed
  <2>1. ~NoDestroy(functors)
    BY <1>4, <1>7 DEF NoDestroy
  <2>2. ~inMap
    BY <2>1 DEF LifeInv
  <2>3. /\ m_eConnectState' = "Disconnected" /\ m_pChannel' = NewChannel
        /\ functors' = Tail(functors) /\ UNCHANGED inMap
        /\ failed' = IF m_eConnectState \in {"Connected", "Disconnecting"} THEN failed ELSE "destroyed"
    BY <1>7, ChannelKept DEF ConnectedDestroyed, TypeOK
  <2>4. CASE revived
    BY <1>1, <1>2, <1>3, <2>2, <2>3, <2>4 DEF LifeInv
  <2>5. CASE ~revived
    <3>1. m_eConnectState \in {"Connected", "Disconnecting"} /\ \E i \in 1..Len(functors) : DestroyAt(functors, i)
      BY <2>1, <2>2, <2>5 DEF LifeInv, LifeStage
    <3>2. DestroyAt(functors, 1)
      BY <1>4, <1>7, <3>1 DEF DestroyAt
    <3>3. NoDestroy(functors') /\ UNCHANGED failed
      BY <1>4, <2>3, <3>1, <3>2
    <3> QED
      BY <1>1, <1>2, <1>3, <2>2, <2>3, <3>3 DEF LifeInv, LifeStage
  <2> QED
    BY <2>4, <2>5
<1>8. CASE Head(functors).call = "send" /\ sendInLoop(Head(functors).msg, Tail(functors)) /\ UNCHANGED failed
  <2>1. Head(functors).msg \in Message
    BY <1>1, <1>8 DEF Functors
  <2> QED
    BY <1>6, <1>8, <2>1, SendQueue
<1>9. CASE Head(functors).call \in {"shutdown", "complete"} /\ functors' = Tail(functors)
           /\ UNCHANGED <<m_eConnectState, m_pChannel, inMap, failed>>
  BY <1>6, <1>9
<1> QED
  BY <1>5, <1>7, <1>8, <1>9 DEF RunFunctor

\* Every step keeps LifeInv.
LEMMA LifeStep == TypeOK /\ LifeInv /\ [Next]_vars => LifeInv'
<1> SUFFICES ASSUME TypeOK, LifeInv, [Next]_vars PROVE LifeInv'
  OBVIOUS
<1> USE DEF connVars, loopVars, peerVars, callVars
<1>1. CASE UNCHANGED vars
  BY <1>1, LifeKept DEF vars, QueueKept
<1>2. CASE Next /\ RunFunctor
  BY <1>2, FunctorLife DEF Next
<1>3. CASE Next /\ HandleHup
  <2>1. failed = "no" /\ at = "handle" /\ revents' = revents \ {"hup"} /\ "hup" \in revents
    BY <1>3 DEF Next, HandleHup
  <2>2. \/ handleClose /\ "in" \notin revents
        \/ UNCHANGED <<m_pChannel, inMap, functors, failed>>
    BY <1>3 DEF HandleHup
  <2>3. UNCHANGED <<m_eConnectState, at, batch, revived>>
    BY <1>3 DEF HandleHup
  <2>4. /\ revents \intersect {"hup", "in"} # {} /\ revents' \subseteq revents
        /\ "in" \notin revents => revents' \intersect {"hup", "in"} = {}
    BY <2>1
  <2> QED
    BY <2>1, <2>2, <2>3, <2>4, CloseLife
<1>4. CASE Next /\ handleRead
  <2>1. failed = "no" /\ at = "handle" /\ revents' = revents \ {"in"} /\ "in" \in revents
        /\ "hup" \notin revents
    BY <1>4 DEF Next, handleRead
  <2>2. handleClose \/ UNCHANGED <<m_pChannel, inMap, functors, failed>>
    BY <1>4 DEF handleRead
  <2>3. UNCHANGED <<m_eConnectState, at, batch, revived>>
    BY <1>4 DEF handleRead
  <2>4. /\ revents \intersect {"hup", "in"} # {} /\ revents' \subseteq revents
        /\ revents' \intersect {"hup", "in"} = {}
    BY <2>1
  <2> QED
    BY <2>1, <2>2, <2>3, <2>4, CloseLife
<1>5. CASE handleError
  BY <1>5, LifeKept DEF handleError, QueueKept
<1>6. CASE Next /\ handleWrite
  <2>1. [call |-> "complete"] \in Functors
    BY QueueType
  <2>2. QueueKept
    BY <1>6, <2>1 DEF handleWrite, handleWriteDone, Queue, QueueKept
  <2>3. UNCHANGED m_pChannel \/ m_pChannel # NewChannel
    BY <1>6 DEF handleWrite, IsWriting, NewChannel
  <2>4. UNCHANGED <<inMap, at, batch, revived, m_eConnectState>> /\ revents' \subseteq revents
        /\ failed' \in {failed, "write", "dangling"}
    BY <1>6 DEF handleWrite
  <2> QED
    BY <2>2, <2>3, <2>4, LifeKept
<1>7. ASSUME NEW active \in BOOLEAN, Poll(active) PROVE LifeInv'
  <2>1. UNCHANGED <<m_eConnectState, m_pChannel, inMap, functors, batch, revived>>
        /\ at = "poll" /\ at' = "handle" /\ failed' \in {failed, "dangling"}
        /\ (revents' # {} => Watched(m_pChannel))
    BY <1>7 DEF Poll
  <2>2. ~Watched(NewChannel)
    BY DEF Watched, NewChannel
  <2>3. ~revived => LifeStage' /\ (Watched(m_pChannel) => inMap)
    BY <2>1, <2>2 DEF LifeInv, LifeStage
  <2> QED
    BY <2>1, <2>3 DEF LifeInv
<1>8. CASE BeginFunctors
  <2>1. /\ UNCHANGED <<m_eConnectState, m_pChannel, inMap, functors, revents, revived, failed>>
        /\ at = "handle" /\ at' = "functors" /\ revents = {} /\ batch' = Len(functors)
    BY <1>8 DEF BeginFunctors
  <2>2. \A i \in 1..Len(functors) : i <= batch'
    BY <2>1, QueueType
  <2>3. LifeStage => LifeStage'
    BY <2>1, <2>2 DEF LifeStage
  <2> QED
    BY <2>1, <2>3 DEF LifeInv
<1>9. CASE EndFunctors
  <2>1. /\ UNCHANGED <<m_eConnectState, m_pChannel, inMap, functors, revents, revived, failed>>
        /\ at = "functors" /\ at' = "poll" /\ batch = 0 /\ m_eConnectState # "Connecting"
    BY <1>9 DEF EndFunctors
  <2>2. \A i \in 1..Len(functors) : ~(i <= batch)
    BY <2>1, QueueType
  <2>3. LifeStage => LifeStage'
    BY <2>1, <2>2 DEF LifeStage
  <2>4. revents = {}
    BY <2>1 DEF LifeInv
  <2> QED
    BY <2>1, <2>3, <2>4 DEF LifeInv
<1>10. CASE ConnectedEstablished
  BY <1>10, LifeKept DEF ConnectedEstablished, QueueKept
<1>11. CASE LoopShutDown
  BY <1>11, LifeKept DEF LoopShutDown, QueueKept
<1>12. ASSUME NEW m \in Message, LoopSend(m) PROVE LifeInv'
  <2>1. [call |-> "complete"] \in Functors
    BY QueueType
  <2>2. QueueKept /\ (UNCHANGED m_pChannel \/ m_eConnectState # "Disconnected")
        /\ UNCHANGED <<m_eConnectState, inMap>>
    BY <1>12, <2>1, SendQueue DEF LoopSend, QueueKept
  <2> QED
    BY <1>12, <2>2, LifeKept DEF LoopSend
<1>13. ASSUME NEW t \in Thread, ThreadCall(t) \/ ThreadStep(t) PROVE LifeInv'
  <2>1. CASE ShutDownTest(t) \/ Release(t)
    BY <2>1, LifeKept DEF ShutDownTest, Release, QueueKept
  <2>2. ASSUME NEW m \in Message, SendTest(t, m) PROVE LifeInv'
    BY <2>2, LifeKept DEF SendTest, QueueKept
  <2>3. CASE ShutDownSet(t)
    <3>1. CASE m_eConnectState = "Disconnected"
      BY <2>3, <3>1 DEF ShutDownSet, LifeInv
    <3>2. CASE m_eConnectState # "Disconnected"
      <4>1. revived' = revived
        BY <2>3, <3>2 DEF ShutDownSet, TypeOK
      <4> QED
        BY <2>3, <3>2, <4>1, LifeKept DEF ShutDownSet, QueueKept
    <3> QED
      BY <3>1, <3>2
  <2>4. CASE QueueCall(t)
    <3>1. calls[t] \in Functors /\ calls[t].call # "destroyed"
      BY <2>4 DEF QueueCall, TypeOK, Calls, Functors
    <3>2. QueueKept
      BY <2>4, <3>1 DEF QueueCall, QueueKept
    <3> QED
      BY <2>4, <3>2, LifeKept DEF QueueCall
  <2> QED
    BY <1>13, <2>1, <2>2, <2>3, <2>4 DEF ThreadCall, ThreadStep
<1>14. CASE PeerSends \/ PeerReads \/ PeerCloses \/ PeerResets
  BY <1>14, LifeKept DEF PeerSends, PeerReads, PeerCloses, PeerResets, QueueKept
<1> QED
  BY <1>1, <1>2, <1>3, <1>4, <1>5, <1>6, <1>7, <1>8, <1>9, <1>10, <1>11, <1>12, <1>13, <1>14
  DEF Next, LoopStep

\* The connection lives its life in order, for any threads that call Send and ShutDown at any
\* time, any callbacks and any peer.
THEOREM ConnectionLife == Spec => []LifeInv
<1>1. Init => LifeInv
  BY DEF Init, LifeInv, LifeStage, NoDestroy
<1> QED
  BY <1>1, LifeStep, ConnectionTypeCorrect, PTL DEF Spec

\* No assertion of handleClose, removeConnection or ConnectedDestroyed fails before a thread's
\* ShutDown overwrites the state of a destroyed connection.
THEOREM AssertionsHold == Spec => []NoAssertionFails
<1>1. LifeInv => NoAssertionFails
  BY DEF LifeInv, NoAssertionFails
<1> QED
  BY <1>1, ConnectionLife, PTL

\* A connection that the poller may report is owned: the map has it, or the functor that will
\* destroy it before the next poll.
THEOREM WatchedConnectionsLive == Spec => []WatchedIsAlive
<1>1. LifeInv => WatchedIsAlive
  BY DEF LifeInv, LifeStage, WatchedIsAlive, Alive, Watched, NewChannel, DestroyAt
<1> QED
  BY <1>1, ConnectionLife, PTL

-----------------------------------------------------------------------------
(* Buffered output and shutdown                                             *)

\* sendInLoop watches the output it buffers, and only that.
LEMMA SendWatches ==
    ASSUME TypeOK, IsWriting(m_pChannel) <=> m_OutputBuffer # <<>>,
           NEW m \in Message, NEW rest, sendInLoop(m, rest)
    PROVE  IsWriting(m_pChannel') <=> m_OutputBuffer' # <<>>
<1>1. CASE m_eConnectState = "Disconnected"
  BY <1>1 DEF sendInLoop, connVars
<1>2. CASE m_eConnectState # "Disconnected"
  <2>1. PICK n \in IF CanWriteNow THEN Takes(Bytes(m)) ELSE {0} : SendBytes(Bytes(m), n)
    BY <1>2 DEF sendInLoop
  <2>2. PICK d : d = Bytes(m)
    OBVIOUS
  <2>3. d \in Seq(Byte) /\ Len(d) = MessageLength /\ MessageLength \in Nat /\ MessageLength > 0
    BY <2>2, BytesType, LengthAssumption
  <2>4. n \in 0..Len(d) /\ (n = 0 \/ m_OutputBuffer = <<>>)
    BY <2>1, <2>2, <2>3, TakesType DEF CanWriteNow
  <2>5. PICK r : r = Suffix(d, n)
    OBVIOUS
  <2>6. r \in Seq(Byte) /\ Len(r) = Len(d) - n
    BY <2>3, <2>4, <2>5, Split
  <2>7. m_OutputBuffer \in Seq(Byte) /\ m_OutputBuffer' = m_OutputBuffer \o r
    BY <2>1, <2>2, <2>5 DEF SendBytes, TypeOK
  <2>8. m_pChannel \in ChannelType
    BY DEF TypeOK
  <2>9. CASE n < Len(d)
    <3>1. IsWriting(m_pChannel')
      BY <2>1, <2>2, <2>8, <2>9, ChannelKept DEF SendBytes
    <3>2. Len(r) > 0
      BY <2>3, <2>4, <2>6, <2>9
    <3>3. m_OutputBuffer' # <<>>
      BY <2>6, <2>7, <3>2
    <3> QED
      BY <3>1, <3>3
  <2>10. CASE n = Len(d)
    <3>1. m_OutputBuffer = <<>> /\ r = <<>>
      BY <2>3, <2>4, <2>6, <2>10, EmptySeq
    <3>2. m_pChannel' = m_pChannel
      BY <2>1, <2>2, <2>3, <2>10 DEF SendBytes
    <3>3. m_OutputBuffer' = <<>>
      BY <2>7, <3>1
    <3> QED
      BY <3>1, <3>2, <3>3
  <2>11. n < Len(d) \/ n = Len(d)
    BY <2>3, <2>4
  <2> QED
    BY <2>9, <2>10, <2>11, Zenon
<1> QED
  BY <1>1, <1>2

\* Of an open connection sendInLoop and handleWrite change the channel's interest in room,
\* and nothing else does.
LEMMA InterestSteps ==
    ASSUME TypeOK, LifeInv, Next, inMap'
    PROVE  \/ IsWriting(m_pChannel') = IsWriting(m_pChannel) /\ UNCHANGED m_OutputBuffer
           \/ handleWrite
           \/ \E m \in Message : \E rest : sendInLoop(m, rest)
<1> USE DEF connVars
<1>0. m_pChannel \in ChannelType
  BY DEF TypeOK
<1>1. CASE RunFunctor
  <2>1. Head(functors) \in Functors /\ functors # <<>> /\ functors \in Seq(Functors)
    BY <1>1, QueueType DEF RunFunctor, TypeOK
  <2>2. Head(functors).call = "send" => Head(functors).msg \in Message
    BY <2>1 DEF Functors
  <2>3. ConnectedDestroyed => UNCHANGED inMap
    BY DEF ConnectedDestroyed
  <2>4. Head(functors).call = "destroyed" => ~NoDestroy(functors)
    BY <2>1, DestroyMoves DEF NoDestroy
  <2>5. ~(Head(functors).call = "destroyed" /\ ConnectedDestroyed)
    BY <2>3, <2>4 DEF LifeInv
  <2> QED
    BY <1>1, <2>2, <2>5 DEF RunFunctor
<1>2. ASSUME NEW m \in Message, LoopSend(m) PROVE sendInLoop(m, functors)
  BY <1>2 DEF LoopSend
<1>3. ASSUME NEW active \in BOOLEAN, Poll(active) PROVE UNCHANGED <<m_pChannel, m_OutputBuffer>>
  BY <1>3 DEF Poll
<1>4. ASSUME NEW t \in Thread, ThreadCall(t) \/ ThreadStep(t)
      PROVE  UNCHANGED <<m_pChannel, m_OutputBuffer>>
  BY <1>4 DEF ThreadCall, ThreadStep, ShutDownTest, Release, SendTest, ShutDownSet, QueueCall
<1>5. CASE PeerSends \/ PeerReads \/ PeerCloses \/ PeerResets
  BY <1>5 DEF PeerSends, PeerReads, PeerCloses, PeerResets
<1>6. CASE HandleHup \/ handleError \/ handleRead
  BY <1>6 DEF HandleHup, handleError, handleRead, handleClose
<1>7. CASE BeginFunctors \/ EndFunctors \/ LoopShutDown
  BY <1>7 DEF BeginFunctors, EndFunctors, LoopShutDown
<1>8. CASE ConnectedEstablished
  BY <1>0, <1>8, ChannelKept DEF ConnectedEstablished, IsWriting
<1> QED
  BY <1>1, <1>2, <1>3, <1>4, <1>5, <1>6, <1>7, <1>8 DEF Next, LoopStep

\* No step takes a connection back into the map.
LEMMA MapShrinks == Next /\ inMap' => inMap
<1> SUFFICES ASSUME Next, inMap' PROVE inMap
  OBVIOUS
<1> USE DEF connVars
<1>1. \A m \in Message : \A rest : sendInLoop(m, rest) => UNCHANGED inMap
  BY DEF sendInLoop
<1>2. CASE RunFunctor
  BY <1>2 DEF RunFunctor, ConnectedDestroyed, sendInLoop
<1>3. ASSUME NEW m \in Message, LoopSend(m) PROVE inMap
  BY <1>1, <1>3 DEF LoopSend
<1>4. ASSUME NEW active \in BOOLEAN, Poll(active) PROVE inMap
  BY <1>4 DEF Poll
<1>5. ASSUME NEW t \in Thread, ThreadCall(t) \/ ThreadStep(t) PROVE inMap
  BY <1>5 DEF ThreadCall, ThreadStep, ShutDownTest, Release, SendTest, ShutDownSet, QueueCall
<1>6. CASE PeerSends \/ PeerReads \/ PeerCloses \/ PeerResets
  BY <1>6 DEF PeerSends, PeerReads, PeerCloses, PeerResets
<1>7. CASE HandleHup \/ handleError \/ handleRead
  BY <1>7 DEF HandleHup, handleError, handleRead, handleClose
<1>8. CASE BeginFunctors \/ EndFunctors \/ LoopShutDown \/ ConnectedEstablished \/ handleWrite
  BY <1>8 DEF BeginFunctors, EndFunctors, LoopShutDown, ConnectedEstablished, handleWrite
<1> QED
  BY <1>2, <1>3, <1>4, <1>5, <1>6, <1>7, <1>8 DEF Next, LoopStep

\* Until it is closed, a connection waits for room exactly while bytes are buffered, however
\* the writes of sendInLoop and handleWrite fall out.
THEOREM BufferedOutputIsWatched == Spec => []OutputIsWatched
<1>1. Init => OutputIsWatched
  BY DEF Init, OutputIsWatched, NewChannel, IsWriting
<1>2. TypeOK /\ LifeInv /\ OutputIsWatched /\ [Next]_vars => OutputIsWatched'
  <2> SUFFICES ASSUME TypeOK, LifeInv, OutputIsWatched, [Next]_vars, inMap'
               PROVE  IsWriting(m_pChannel') <=> m_OutputBuffer' # <<>>
    BY DEF OutputIsWatched
  <2>0. inMap
    BY MapShrinks DEF vars, connVars
  <2>1. IsWriting(m_pChannel) <=> m_OutputBuffer # <<>>
    BY <2>0 DEF OutputIsWatched
  <2>2. CASE IsWriting(m_pChannel') = IsWriting(m_pChannel) /\ UNCHANGED m_OutputBuffer
    BY <2>1, <2>2
  <2>3. CASE handleWrite
    <3>1. CASE ~IsWriting(m_pChannel)
      BY <2>1, <2>3, <3>1 DEF handleWrite
    <3>2. CASE IsWriting(m_pChannel)
      <4>1. PICK n \in Takes(m_OutputBuffer) :
             /\ m_OutputBuffer' = Suffix(m_OutputBuffer, n)
             /\ IF n > 0 /\ m_OutputBuffer' = <<>>
                  THEN handleWriteDone
                  ELSE UNCHANGED <<m_pChannel, wrShut, functors>>
        BY <2>3, <3>2 DEF handleWrite
      <4>2. m_OutputBuffer \in Seq(Byte) /\ m_pChannel \in ChannelType
        BY DEF TypeOK
      <4>3. n \in 0..Len(m_OutputBuffer)
        BY <4>2, TakesType
      <4>4. n = 0 => m_OutputBuffer' = m_OutputBuffer
        BY <4>1, <4>2, <4>3, Split
      <4>5. n = 0 \/ n > 0
        BY <4>2, <4>3
      <4>6. handleWriteDone => ~IsWriting(m_pChannel')
        BY <4>2, ChannelKept DEF handleWriteDone
      <4>7. m_OutputBuffer # <<>>
        BY <2>1, <3>2
      <4>8. CASE n > 0 /\ m_OutputBuffer' = <<>>
        BY <4>1, <4>6, <4>8
      <4>9. CASE ~(n > 0 /\ m_OutputBuffer' = <<>>)
        <5>1. m_OutputBuffer' # <<>>
          BY <4>4, <4>5, <4>7, <4>9
        <5> QED
          BY <3>2, <4>1, <4>9, <5>1
      <4> QED
        BY <4>8, <4>9, Zenon
    <3> QED
      BY <3>1, <3>2
  <2>4. CASE \E m \in Message : \E rest : sendInLoop(m, rest)
    BY <2>1, <2>4, SendWatches
  <2>5. CASE UNCHANGED vars
    BY <2>1, <2>5 DEF vars, connVars
  <2>6. CASE Next
    BY <2>2, <2>3, <2>4, <2>6, InterestSteps
  <2> QED
    BY <2>5, <2>6
<1> QED
  BY <1>1, <1>2, ConnectionTypeCorrect, ConnectionLife, PTL DEF Spec

\* An open connection is shut down for writing with no output left, whoever calls ShutDown and
\* whichever step shuts it down.
THEOREM OutputGoesBeforeShutDown == Spec => OutputBeforeShutDown
<1>1. ASSUME TypeOK, OutputIsWatched, [Next]_vars
      PROVE  [inMap /\ wrShut' # wrShut => m_OutputBuffer' = <<>>]_vars
  <2> SUFFICES ASSUME Next, inMap, wrShut' # wrShut PROVE m_OutputBuffer' = <<>>
    BY <1>1
  <2> USE DEF connVars
  <2>1. IsWriting(m_pChannel) <=> m_OutputBuffer # <<>>
    BY <1>1 DEF OutputIsWatched
  <2>2. wrShut' = shutDownInLoop(IsWriting(m_pChannel)) => m_OutputBuffer = <<>>
    BY <1>1, <2>1 DEF shutDownInLoop, TypeOK
  <2>3. \A m \in Message : \A rest : sendInLoop(m, rest) => UNCHANGED wrShut
    BY DEF sendInLoop
  <2>4. CASE RunFunctor
    <3>1. Head(functors) \in Functors
      BY <1>1, <2>4, QueueType DEF RunFunctor
    <3>2. Head(functors).call = "send" => Head(functors).msg \in Message
      BY <3>1 DEF Functors
    <3>3. ~ConnectedDestroyed
      BY DEF ConnectedDestroyed
    <3>4. /\ wrShut' = shutDownInLoop(IsWriting(m_pChannel))
          /\ UNCHANGED m_OutputBuffer
      BY <2>3, <2>4, <3>2, <3>3 DEF RunFunctor
    <3> QED
      BY <2>2, <3>4
  <2>5. CASE LoopShutDown
    BY <2>2, <2>5 DEF LoopShutDown
  <2>6. CASE handleWrite
    BY <2>6 DEF handleWrite
  <2>7. ASSUME NEW m \in Message PROVE ~LoopSend(m)
    BY <2>3 DEF LoopSend
  <2>8. ASSUME NEW active \in BOOLEAN PROVE ~Poll(active)
    BY DEF Poll
  <2>9. ASSUME NEW t \in Thread PROVE ~(ThreadCall(t) \/ ThreadStep(t))
    BY DEF ThreadCall, ThreadStep, ShutDownTest, Release, SendTest, ShutDownSet, QueueCall
  <2>10. ~(PeerSends \/ PeerReads \/ PeerCloses \/ PeerResets)
    BY DEF PeerSends, PeerReads, PeerCloses, PeerResets
  <2>11. ~(HandleHup \/ handleError \/ handleRead)
    BY DEF HandleHup, handleError, handleRead
  <2>12. ~(BeginFunctors \/ EndFunctors \/ ConnectedEstablished)
    BY DEF BeginFunctors, EndFunctors, ConnectedEstablished
  <2> QED
    BY <2>4, <2>5, <2>6, <2>7, <2>8, <2>9, <2>10, <2>11, <2>12 DEF Next, LoopStep
<1> QED
  BY <1>1, ConnectionTypeCorrect, BufferedOutputIsWatched, PTL DEF Spec, OutputBeforeShutDown
=============================================================================
