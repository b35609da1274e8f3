--------------------------- MODULE TcpServerProofs ---------------------------
(***************************************************************************)
(* Proofs about TcpServer for any connections and any number of I/O loops.   *)
(***************************************************************************)
EXTENDS TcpServer, FiniteSetTheorems, TLAPS

\* Whatever a channel's owner does to it leaves a channel.
LEMMA ChannelTypes ==
    ASSUME NEW ch \in ChannelType
    PROVE  /\ {EnableReading(ch), EnableWriting(ch), DisableWriting(ch), DisableAll(ch)}
                \subseteq ChannelType
           /\ RemoveChannel(ch) \in ChannelType
<1>1. ASSUME NEW events \in SUBSET {"read", "write"}
      PROVE  UpdateChannel([ch EXCEPT !.m_nEvents = events]) \in ChannelType
  BY DEF ChannelType, UpdateChannel
<1>2. ch.m_nEvents \in SUBSET {"read", "write"}
  BY DEF ChannelType
<1>3. EnableReading(ch) \in ChannelType /\ EnableWriting(ch) \in ChannelType
  BY <1>1, <1>2 DEF EnableReading, EnableWriting
<1>4. DisableWriting(ch) \in ChannelType /\ DisableAll(ch) \in ChannelType
  BY <1>1, <1>2 DEF DisableWriting, DisableAll
<1>5. RemoveChannel(ch) \in ChannelType
  BY DEF ChannelType, RemoveChannel
<1> QED
  BY <1>3, <1>4, <1>5

LEMMA NewConnTypes == NoConn \in ConnType /\ NewChannel \in ChannelType
  BY MaxThreadsAssumption DEF NoConn, NewChannel, ConnType, ChannelType, Loops, Base

\* GetNextLoop returns a loop and leaves the index in its range.
LEMMA NextLoopTypes ==
    ASSUME TypeOK
    PROVE  /\ NextLoop \in Loops /\ NextLoop <= m_nNumThreads
           /\ Advance \in 0..m_nNumThreads /\ (m_nNumThreads > 0 => Advance < m_nNumThreads)
  BY MaxThreadsAssumption DEF TypeOK, NextLoop, Advance, Loops, Base

\* The new connection, before and after ConnectedEstablished.
LEMMA AcceptedTypes ==
    ASSUME TypeOK
    PROVE  /\ Accepted \in ConnType /\ Accepted # NoConn /\ Accepted.m_pEventLoop = NextLoop
           /\ Established(Accepted) \in ConnType /\ Established(Accepted) # NoConn
           /\ Established(Accepted).m_pEventLoop = NextLoop
<1>1. Accepted \in ConnType /\ Accepted.m_eConnectState = "Connecting"
      /\ Accepted.m_pEventLoop = NextLoop /\ Accepted.m_pChannel \in ChannelType
  BY NextLoopTypes, NewConnTypes DEF Accepted, ConnType
<1>2. NoConn.m_eConnectState = "None"
  BY DEF NoConn
<1>3. /\ Established(Accepted) \in ConnType /\ Established(Accepted).m_eConnectState = "Connected"
      /\ Established(Accepted).m_pEventLoop = NextLoop
  BY <1>1, ChannelTypes DEF Established, ConnType
<1> QED
  BY <1>1, <1>2, <1>3

\* A step that changes connections, but leaves them on their loops, keeps what they are active on.
LEMMA OnKept ==
    ASSUME TypeOK, \A c \in Conn : conn[c] # NoConn =>
             conn'[c] # NoConn /\ conn'[c].m_pEventLoop = conn[c].m_pEventLoop
    PROVE  \A l \in Loops : On(l) \subseteq On(l)'
  BY DEF On
\* One more functor on loop k.
LEMMA AppendTypes ==
    ASSUME NEW q \in [Loops -> Seq(Functor)], NEW k \in Loops, NEW f \in Functor
    PROVE  /\ [q EXCEPT ![k] = Append(@, f)] \in [Loops -> Seq(Functor)]
           /\ \A l \in Loops : Len(q[l]) <= Len([q EXCEPT ![k] = Append(@, f)][l])
<1>1. \A l \in Loops : /\ Append(q[l], f) \in Seq(Functor) /\ Len(q[l]) \in Nat
                        /\ Len(Append(q[l], f)) = Len(q[l]) + 1
  OBVIOUS
<1> QED
  BY <1>1

LEMMA LoopsTypes == Base \in Loops /\ Loops \subseteq Nat
  BY MaxThreadsAssumption DEF Loops, Base

\* newConnection changes the new connection only, and queues at most one functor.
LEMMA NewConnectionTypes ==
    ASSUME TypeOK, NEW c \in Conn, conn[c] = NoConn, newConnection(c)
    PROVE  /\ conn' \in [Conn -> ConnType] /\ functors' \in [Loops -> Seq(Functor)]
           /\ \A l \in Loops : Len(functors[l]) <= Len(functors'[l])
           /\ \A l \in Loops : On(l) \subseteq On(l)'
           /\ m_nNext' = Advance /\ m_mpConnection' = m_mpConnection \union {c}
<1> USE DEF TypeOK
<1>1. conn' \in [Conn -> ConnType] /\ \A d \in Conn : d # c => conn'[d] = conn[d]
  BY AcceptedTypes DEF newConnection
<1>2. \A l \in Loops : On(l) \subseteq On(l)'
  BY <1>1, OnKept
<1>3. [call |-> "established", conn |-> c] \in Functor
  BY DEF Functor
<1>4. functors' \in [Loops -> Seq(Functor)] /\ \A l \in Loops : Len(functors[l]) <= Len(functors'[l])
  <2>2. CASE NextLoop = Base
    BY <2>2 DEF newConnection
  <2>3. CASE NextLoop # Base
    <3>1. functors' = [functors EXCEPT ![NextLoop] =
                         Append(functors[NextLoop], [call |-> "established", conn |-> c])]
      BY <2>3 DEF newConnection
    <3> QED
      BY <1>3, <3>1, NextLoopTypes, AppendTypes
  <2> QED
    BY <2>2, <2>3
<1> QED
  BY <1>1, <1>2, <1>4 DEF newConnection

\* removeConnectionInLoop on queues q.
LEMMA RemoveTypes ==
    ASSUME TypeOK, NEW c \in Conn, NEW q \in [Loops -> Seq(Functor)], removeConnectionInLoop(c, q)
    PROVE  /\ functors' \in [Loops -> Seq(Functor)]
           /\ \A l \in Loops : Len(q[l]) <= Len(functors'[l])
           /\ m_nNext' = Advance /\ m_mpConnection' \subseteq Conn
           /\ failed' \in {failed, "erase"}
<1>1. [call |-> "destroyed", conn |-> c] \in Functor
  BY DEF Functor
<1> QED
  BY <1>1, NextLoopTypes, AppendTypes DEF removeConnectionInLoop, TypeOK

\* The head of a loop's queue in doPendingFunctors, and what is left.
LEMMA HeadTypes ==
    ASSUME TypeOK, NEW l \in Loops, batch[l] > 0
    PROVE  /\ functors[l] # <<>> /\ Head(functors[l]) \in Functor
           /\ Head(functors[l]).conn \in Conn
           /\ [functors EXCEPT ![l] = Tail(@)] \in [Loops -> Seq(Functor)]
           /\ Len(Tail(functors[l])) = Len(functors[l]) - 1
<1>1. functors[l] \in Seq(Functor) /\ Len(functors[l]) \in Nat \ {0}
  BY DEF TypeOK
<1>2. /\ functors[l] # <<>> /\ Head(functors[l]) \in Functor
      /\ Tail(functors[l]) \in Seq(Functor) /\ Len(Tail(functors[l])) = Len(functors[l]) - 1
  BY <1>1
<1>3. Head(functors[l]).conn \in Conn
  BY <1>2 DEF Functor
<1>4. [functors EXCEPT ![l] = Tail(@)] \in [Loops -> Seq(Functor)]
  BY <1>2 DEF TypeOK
<1> QED
  BY <1>2, <1>3, <1>4

\* A connection whose state or channel changes stays a connection on its loop.
LEMMA ChangedConn ==
    ASSUME TypeOK, NEW c \in Conn, NEW k \in ConnType,
           k.m_pEventLoop = conn[c].m_pEventLoop, k # NoConn,
           conn' = [conn EXCEPT ![c] = k]
    PROVE  /\ conn' \in [Conn -> ConnType]
           /\ \A l \in Loops : On(l) \subseteq On(l)'
  BY OnKept DEF TypeOK

\* The same for a channel that was updated, which is no longer NEW.
LEMMA ChangedChannel ==
    ASSUME TypeOK, NEW c \in Conn, NEW ch \in ChannelType, ch.m_nIndex # "NEW",
           conn' = [conn EXCEPT ![c].m_pChannel = ch]
    PROVE  /\ conn' \in [Conn -> ConnType]
           /\ \A l \in Loops : On(l) \subseteq On(l)'
<1> DEFINE k == [conn[c] EXCEPT !.m_pChannel = ch]
<1>1. k \in ConnType /\ k.m_pEventLoop = conn[c].m_pEventLoop /\ k.m_pChannel = ch
  BY DEF TypeOK, ConnType
<1>2. k # NoConn
  BY <1>1 DEF NoConn, NewChannel
<1>3. conn' = [conn EXCEPT ![c] = k]
  OBVIOUS
<1> HIDE DEF k
<1> QED
  BY <1>1, <1>2, <1>3, ChangedConn

\* Updated channels are not NEW.
LEMMA UpdatedChannels ==
    ASSUME NEW ch \in ChannelType
    PROVE  /\ EnableReading(ch).m_nIndex # "NEW" /\ EnableWriting(ch).m_nIndex # "NEW"
           /\ DisableWriting(ch).m_nIndex # "NEW" /\ DisableAll(ch).m_nIndex # "NEW"
<1>1. ASSUME NEW events \in SUBSET {"read", "write"}
      PROVE  UpdateChannel([ch EXCEPT !.m_nEvents = events]).m_nIndex # "NEW"
  BY DEF ChannelType, UpdateChannel
<1>2. ch.m_nEvents \in SUBSET {"read", "write"}
  BY DEF ChannelType
<1>3. EnableReading(ch).m_nIndex # "NEW" /\ EnableWriting(ch).m_nIndex # "NEW"
  BY <1>1, <1>2 DEF EnableReading, EnableWriting
<1>4. DisableWriting(ch).m_nIndex # "NEW" /\ DisableAll(ch).m_nIndex # "NEW"
  BY <1>1, <1>2 DEF DisableWriting, DisableAll
<1> QED
  BY <1>3, <1>4

\* handleClose of a connection on its loop.
LEMMA HandleCloseTypes ==
    ASSUME TypeOK, NEW l \in Loops, NEW c \in Conn, handleClose(l, c)
    PROVE  /\ conn' \in [Conn -> ConnType] /\ \A k \in Loops : On(k) \subseteq On(k)'
           /\ functors' \in [Loops -> Seq(Functor)]
           /\ \A k \in Loops : Len(functors[k]) <= Len(functors'[k])
           /\ m_nNext' \in {m_nNext, Advance} /\ m_mpConnection' \subseteq Conn
           /\ failed' \in {failed, "erase"}
<1>1. conn[c].m_pChannel \in ChannelType
  BY DEF TypeOK, ConnType
<1>2. conn' \in [Conn -> ConnType] /\ \A k \in Loops : On(k) \subseteq On(k)'
  BY <1>1, ChannelTypes, UpdatedChannels, ChangedChannel DEF handleClose
<1>3. CASE l = Base
  <2>1. removeConnectionInLoop(c, functors) /\ functors \in [Loops -> Seq(Functor)]
    BY <1>3 DEF handleClose, TypeOK
  <2> QED
    BY <1>2, <2>1, RemoveTypes
<1>4. CASE l # Base
  <2>1. [call |-> "remove", conn |-> c] \in Functor
    BY DEF Functor
  <2>3. /\ functors' = [functors EXCEPT ![Base] = Append(functors[Base], [call |-> "remove", conn |-> c])]
        /\ UNCHANGED <<m_mpConnection, m_nNext, failed>>
    BY <1>4 DEF handleClose
  <2>4. functors' \in [Loops -> Seq(Functor)] /\ \A k \in Loops : Len(functors[k]) <= Len(functors'[k])
    BY <2>1, <2>3, LoopsTypes, AppendTypes DEF TypeOK
  <2> QED
    BY <1>2, <2>3, <2>4 DEF TypeOK
<1> QED
  BY <1>3, <1>4
-----------------------------------------------------------------------------

\* What one step of functors, active and batch has to keep for TypeOK.
LoopsOK ==
    /\ functors \in [Loops -> Seq(Functor)] /\ batch \in [Loops -> Nat]
    /\ at \in [Loops -> {"poll", "handle", "functors"}]
    /\ active \in [Loops -> SUBSET (Conn \X BOOLEAN)]
    /\ \A l \in Loops : batch[l] <= Len(functors[l]) /\ active[l] \subseteq On(l) \X BOOLEAN

\* Longer queues and fewer active channels, on connections that stay on their loops.
LEMMA LoopsKept ==
    ASSUME TypeOK, functors' \in [Loops -> Seq(Functor)],
           \A l \in Loops : Len(functors[l]) <= Len(functors'[l]) /\ On(l) \subseteq On(l)',
           active' \in [Loops -> SUBSET (Conn \X BOOLEAN)],
           \A l \in Loops : active'[l] \subseteq active[l],
           UNCHANGED <<batch, at>>
    PROVE  LoopsOK'
<1>1. \A l \in Loops : Len(functors'[l]) \in Nat /\ Len(functors[l]) \in Nat /\ batch[l] \in Nat
  BY DEF TypeOK
<1>2. \A l \in Loops : batch'[l] <= Len(functors'[l])
  BY <1>1 DEF TypeOK
<1>3. \A l \in Loops : active'[l] \subseteq On(l)' \X BOOLEAN
  BY DEF TypeOK
<1> QED
  BY <1>2, <1>3 DEF TypeOK, LoopsOK

\* The handling of a connection's event.
LEMMA HandleKeeps ==
    ASSUME TypeOK, NEW l \in Loops, NEW c \in Conn, HandleClosed(l, c) \/ HandleOpen(l, c)
    PROVE  TypeOK'
<1> USE DEF TypeOK
<1>1. conn[c].m_pChannel \in ChannelType
  BY DEF ConnType
<1>2. CASE HandleClosed(l, c)
  <2>1. /\ active' \in [Loops -> SUBSET (Conn \X BOOLEAN)]
        /\ \A k \in Loops : active'[k] \subseteq active[k]
    BY <1>2 DEF HandleClosed
  <2>2. UNCHANGED <<serverVars, closed, batch, at, accepting>>
    BY <1>2 DEF HandleClosed
  <2>3. CASE handleClose(l, c)
    <3>1. LoopsOK'
      BY <2>1, <2>2, <2>3, HandleCloseTypes, LoopsKept
    <3> QED
      BY <2>2, <2>3, <3>1, HandleCloseTypes, NextLoopTypes DEF LoopsOK, serverVars
  <2>4. CASE failed' = "close" /\ UNCHANGED <<m_mpConnection, m_nNext, conn, functors>>
    <3>1. LoopsOK'
      BY <2>1, <2>2, <2>4, LoopsKept DEF On
    <3> QED
      BY <2>2, <2>4, <3>1 DEF LoopsOK, serverVars
  <2> QED
    BY <1>2, <2>3, <2>4 DEF HandleClosed
<1>3. CASE HandleOpen(l, c)
  <2>1. /\ active' \in [Loops -> SUBSET (Conn \X BOOLEAN)]
        /\ \A k \in Loops : active'[k] \subseteq active[k]
        /\ UNCHANGED <<serverVars, m_nNext, m_mpConnection, closed, functors, batch, at,
                       accepting, failed>>
    BY <1>3 DEF HandleOpen
  <2>2. conn' \in [Conn -> ConnType] /\ \A k \in Loops : On(k) \subseteq On(k)'
    <3>1. CASE UNCHANGED conn
      BY <3>1 DEF On
    <3>2. CASE conn' = [conn EXCEPT ![c].m_pChannel = DisableWriting(@)]
      BY <1>1, <3>2, ChannelTypes, UpdatedChannels, ChangedChannel
    <3> QED
      BY <1>3, <3>1, <3>2 DEF HandleOpen
  <2>3. \A k \in Loops : Len(functors[k]) <= Len(functors'[k])
    BY <2>1
  <2>4. LoopsOK'
    BY <2>1, <2>2, <2>3, LoopsKept
  <2> QED
    BY <2>1, <2>2, <2>4 DEF LoopsOK, serverVars
<1> QED
  BY <1>2, <1>3

\* Send and ShutDown in a callback.
LEMMA CallBackKeeps ==
    ASSUME TypeOK, NEW c \in Conn, SendBlocks(c) \/ ShutDown(c)
    PROVE  TypeOK'
<1> USE DEF TypeOK
<1>1. UNCHANGED <<serverVars, m_nNext, m_mpConnection, closed, functors, batch, at,
                 active, accepting, failed>>
  BY DEF SendBlocks, ShutDown
<1>2. conn' \in [Conn -> ConnType] /\ \A k \in Loops : On(k) \subseteq On(k)'
  <2>1. CASE SendBlocks(c)
    <3>1. conn[c].m_pChannel \in ChannelType
      BY DEF ConnType
    <3> QED
      BY <2>1, <3>1, ChannelTypes, UpdatedChannels, ChangedChannel DEF SendBlocks
  <2>2. CASE ShutDown(c)
    <3> DEFINE k == [conn[c] EXCEPT !.m_eConnectState = "Disconnecting"]
    <3>1. k \in ConnType /\ k.m_pEventLoop = conn[c].m_pEventLoop /\ k # NoConn
      BY DEF ConnType, NoConn
    <3>2. conn' = [conn EXCEPT ![c] = k]
      BY <2>2 DEF ShutDown
    <3> HIDE DEF k
    <3> QED
      BY <3>1, <3>2, ChangedConn
  <2> QED
    BY <2>1, <2>2
<1>3. LoopsOK'
  BY <1>1, <1>2, LoopsKept
<1> QED
  BY <1>1, <1>2, <1>3 DEF LoopsOK, serverVars

\* A functor that runs.
LEMMA FunctorKeeps ==
    ASSUME TypeOK, NEW l \in Loops, RunFunctor(l)
    PROVE  TypeOK'
<1> USE DEF TypeOK
<1> DEFINE f == Head(functors[l])
           rest == [functors EXCEPT ![l] = Tail(@)]
<1>1. /\ at[l] = "functors" /\ batch[l] > 0 /\ batch' = [batch EXCEPT ![l] = @ - 1]
      /\ UNCHANGED <<serverVars, closed, at, active, accepting>>
  BY DEF RunFunctor
<1>2. f \in Functor /\ f.conn \in Conn /\ rest \in [Loops -> Seq(Functor)]
      /\ Len(Tail(functors[l])) = Len(functors[l]) - 1
  BY <1>1, HeadTypes
<1>3. \/ RunEstablished(l, f.conn, rest)
      \/ RunDestroyed(l, f.conn, rest)
      \/ removeConnectionInLoop(f.conn, rest) /\ UNCHANGED conn
  BY DEF RunFunctor
<1>4. \A k \in Loops : batch'[k] <= Len(rest[k]) /\ batch'[k] \in Nat /\ Len(rest[k]) \in Nat
  BY <1>1, <1>2
<1>5. conn[f.conn] \in ConnType /\ conn[f.conn].m_pChannel \in ChannelType
  BY <1>2 DEF ConnType
<1> HIDE DEF f, rest
<1>6. /\ functors' \in [Loops -> Seq(Functor)]
      /\ \A k \in Loops : Len(rest[k]) <= Len(functors'[k]) /\ Len(functors'[k]) \in Nat
      /\ m_nNext' \in {m_nNext, Advance} /\ m_mpConnection' \subseteq Conn
      /\ failed' \in {"no", "established", "close", "erase", "thread", "destroyed", "accept"}
  <2>1. CASE RunEstablished(l, f.conn, rest)
    BY <1>2, <1>4, <2>1 DEF RunEstablished
  <2>2. CASE RunDestroyed(l, f.conn, rest)
    BY <1>2, <1>4, <2>2 DEF RunDestroyed
  <2>3. CASE removeConnectionInLoop(f.conn, rest)
    BY <1>2, <2>3, RemoveTypes
  <2> QED
    BY <1>3, <2>1, <2>2, <2>3
<1>7. conn' \in [Conn -> ConnType] /\ \A k \in Loops : On(k) \subseteq On(k)'
  <2>1. CASE RunEstablished(l, f.conn, rest)
    <3> DEFINE k == Established(conn[f.conn])
    <3>1. k \in ConnType /\ k.m_pEventLoop = conn[f.conn].m_pEventLoop
          /\ k.m_eConnectState = "Connected"
      BY <1>5, ChannelTypes DEF Established, ConnType
    <3>2. conn' = [conn EXCEPT ![f.conn] = k] /\ k # NoConn
      BY <2>1, <3>1 DEF RunEstablished, NoConn
    <3> HIDE DEF k
    <3> QED
      BY <1>2, <3>1, <3>2, ChangedConn
  <2>2. CASE RunDestroyed(l, f.conn, rest)
    <3> DEFINE k == [conn[f.conn] EXCEPT !.m_eConnectState = "Disconnected",
                         !.m_pChannel = RemoveChannel(DisableAll(conn[f.conn].m_pChannel))]
    <3>1. RemoveChannel(DisableAll(conn[f.conn].m_pChannel)) \in ChannelType
      BY <1>5, ChannelTypes
    <3>2. k \in ConnType /\ k.m_pEventLoop = conn[f.conn].m_pEventLoop
          /\ k.m_eConnectState = "Disconnected"
      BY <1>5, <3>1 DEF ConnType
    <3>3. conn' = [conn EXCEPT ![f.conn] = k] /\ k # NoConn
      BY <2>2, <3>2 DEF RunDestroyed, NoConn
    <3> HIDE DEF k
    <3> QED
      BY <1>2, <3>2, <3>3, ChangedConn
  <2>3. CASE UNCHANGED conn
    BY <2>3 DEF On
  <2> QED
    BY <1>3, <2>1, <2>2, <2>3
<1>8. ASSUME NEW k \in Loops PROVE batch'[k] <= Len(functors'[k])
  <2>1. batch'[k] <= Len(rest[k]) /\ batch'[k] \in Nat /\ Len(rest[k]) \in Nat
    BY <1>4
  <2>2. Len(rest[k]) <= Len(functors'[k]) /\ Len(functors'[k]) \in Nat
    BY <1>6
  <2> QED
    BY <2>1, <2>2
<1>9. \A k \in Loops : active'[k] \subseteq On(k)' \X BOOLEAN
  BY <1>1, <1>7
<1> QED
  BY <1>1, <1>4, <1>6, <1>7, <1>8, <1>9, NextLoopTypes DEF serverVars
\* The rest of Next.
LEMMA OtherStepsKeep ==
    ASSUME TypeOK, StartedInv, Start \/ AcceptorHandleRead \/ AcceptFails
             \/ (\E n \in 0..MaxThreads : SetThreadNum(n))
             \/ (\E l \in Loops : Poll(l) \/ BeginFunctors(l) \/ EndFunctors(l))
             \/ (\E c \in Conn : PeerCloses(c))
    PROVE  TypeOK'
<1> USE DEF TypeOK
<1>1. CASE Start
  BY <1>1 DEF Start, On
<1>2. CASE AcceptorHandleRead
  <2>1. /\ accepting' = FALSE
        /\ UNCHANGED <<serverVars, closed, batch, at, active, failed>>
    BY <1>2 DEF AcceptorHandleRead
  <2>2. ASSUME NEW c \in Conn, conn[c] = NoConn, newConnection(c) PROVE TypeOK'
    <3>1. LoopsOK'
      BY <2>1, <2>2, NewConnectionTypes, LoopsKept
    <3> QED
      BY <2>1, <2>2, <3>1, NewConnectionTypes, NextLoopTypes DEF LoopsOK, serverVars
  <2>3. CASE UNCHANGED <<m_nNext, m_mpConnection, conn, functors>>
    BY <2>1, <2>3 DEF serverVars, On
  <2> QED
    BY <1>2, <2>2, <2>3 DEF AcceptorHandleRead
<1>3. ASSUME NEW n \in 0..MaxThreads, SetThreadNum(n) PROVE TypeOK'
  <2>1. m_nNext' = 0 /\ m_nNumThreads' = n
    BY <1>3 DEF SetThreadNum, StartedInv
  <2> QED
    BY <1>3, <2>1, MaxThreadsAssumption DEF SetThreadNum, On
<1>4. ASSUME NEW l \in Loops, Poll(l) PROVE TypeOK'
  <2>1. UNCHANGED <<serverVars, m_nNext, m_mpConnection, conn, closed, functors, batch, failed>>
        /\ at' = [at EXCEPT ![l] = "handle"] /\ accepting' \in BOOLEAN
    BY <1>4 DEF Poll
  <2>2. PICK ready \in SUBSET Ready(l) : \E ended \in SUBSET (ready \cap closed) :
          active' = [active EXCEPT ![l] = (ended \X {TRUE}) \union ((ready \ ended) \X {FALSE})]
    BY <1>4 DEF Poll
  <2>3. ready \subseteq On(l) /\ ready \subseteq Conn
    BY DEF Ready, On
  <2>4. PICK ended \in SUBSET (ready \cap closed) :
          active' = [active EXCEPT ![l] = (ended \X {TRUE}) \union ((ready \ ended) \X {FALSE})]
    BY <2>2
  <2>5. /\ (ended \X {TRUE}) \union ((ready \ ended) \X {FALSE}) \subseteq On(l) \X BOOLEAN
        /\ (ended \X {TRUE}) \union ((ready \ ended) \X {FALSE}) \subseteq Conn \X BOOLEAN
    BY <2>3
  <2>6. /\ active' \in [Loops -> SUBSET (Conn \X BOOLEAN)]
        /\ \A k \in Loops : active'[k] \subseteq On(k) \X BOOLEAN
    BY <2>5, <2>4
  <2> QED
    BY <2>1, <2>6 DEF serverVars, On
<1>5. ASSUME NEW l \in Loops, BeginFunctors(l) PROVE TypeOK'
  <2>1. Len(functors[l]) \in Nat
    OBVIOUS
  <2> QED
    BY <1>5, <2>1 DEF BeginFunctors, serverVars, On
<1>6. ASSUME NEW l \in Loops, EndFunctors(l) PROVE TypeOK'
  BY <1>6 DEF EndFunctors, serverVars, On
<1>7. ASSUME NEW c \in Conn, PeerCloses(c) PROVE TypeOK'
  BY <1>7 DEF PeerCloses, serverVars, On
<1>8. CASE AcceptFails
  BY <1>8 DEF AcceptFails, serverVars, On
<1> QED
  BY <1>1, <1>2, <1>3, <1>4, <1>5, <1>6, <1>7, <1>8

\* Before Start nothing but SetThreadNum changes what StartedInv is about.
LEMMA StartedKept ==
    ASSUME TypeOK, StartedInv, [Next]_vars
    PROVE  StartedInv'
<1> SUFFICES ASSUME ~m_bStared'
             PROVE  /\ m_nNext' = 0 /\ ~accepting' /\ ~listening'
                    /\ \A l \in Loops : functors'[l] = <<>> /\ active'[l] = {}
  BY DEF StartedInv
<1>1. ~m_bStared
  BY DEF TypeOK, Next, vars, Start, AcceptorHandleRead, AcceptFails, SetThreadNum, LoopStep, Poll, BeginFunctors,
         EndFunctors, RunFunctor, HandleClosed, HandleOpen, PeerCloses, SendBlocks, ShutDown,
         serverVars
<1>2. /\ m_nNext = 0 /\ ~accepting /\ ~listening
      /\ \A l \in Loops : functors[l] = <<>> /\ active[l] = {} /\ batch[l] = 0
  BY <1>1 DEF StartedInv, TypeOK
<1>3. UNCHANGED <<m_nNext, accepting, listening, functors, active>>
  <2>1. ASSUME NEW l \in Loops PROVE ~Poll(l) /\ ~RunFunctor(l)
    <3>1. ~Poll(l)
      BY <1>1 DEF Poll
    <3>2. batch[l] = 0
      BY <1>2
    <3>3. ~RunFunctor(l)
      BY <3>2 DEF RunFunctor
    <3> QED
      BY <3>1, <3>3
  <2>2. ASSUME NEW l \in Loops, NEW c \in Conn PROVE ~HandleClosed(l, c) /\ ~HandleOpen(l, c)
    BY <1>2 DEF HandleClosed, HandleOpen
  <2>3. ~Start /\ ~AcceptorHandleRead /\ ~AcceptFails
    BY <1>2 DEF Start, AcceptorHandleRead, AcceptFails
  <2>4. CASE Next
    BY <2>1, <2>2, <2>3, <2>4 DEF Next, LoopStep, SetThreadNum, BeginFunctors, EndFunctors,
       PeerCloses, SendBlocks, ShutDown, serverVars
  <2> QED
    BY <2>4 DEF vars, serverVars
<1> QED
  BY <1>2, <1>3

LEMMA ServerInitTypes == Init => TypeOK /\ StartedInv
<1> SUFFICES ASSUME Init PROVE TypeOK /\ StartedInv
  OBVIOUS
<1>1. functors \in [Loops -> Seq(Functor)] /\ \A l \in Loops : functors[l] = <<>>
  BY DEF Init
<1>2. conn \in [Conn -> ConnType]
  BY NewConnTypes DEF Init
<1>3. StartedInv
  BY DEF Init, StartedInv
<1>4. /\ m_nNumThreads \in 0..MaxThreads /\ m_nNext \in 0..m_nNumThreads
      /\ (m_nNumThreads > 0 => m_nNext < m_nNumThreads)
  BY MaxThreadsAssumption DEF Init
<1>5. /\ batch \in [Loops -> Nat] /\ at \in [Loops -> {"poll", "handle", "functors"}]
      /\ active \in [Loops -> SUBSET (Conn \X BOOLEAN)]
      /\ \A l \in Loops : batch[l] = 0 /\ active[l] = {}
  BY DEF Init
<1>6. \A l \in Loops : batch[l] <= Len(functors[l]) /\ active[l] \subseteq On(l) \X BOOLEAN
  BY <1>1, <1>5
<1> QED
  BY <1>1, <1>2, <1>3, <1>4, <1>5, <1>6 DEF Init, TypeOK

\* The server keeps its types, for any number of loops: GetNextLoop's index stays in its range,
\* and every loop handles its own connections.
THEOREM ServerTypeCorrect == Spec => [](TypeOK /\ StartedInv)
<1>1. TypeOK /\ StartedInv /\ [Next]_vars => (TypeOK /\ StartedInv)'
  <2> SUFFICES ASSUME TypeOK, StartedInv, [Next]_vars PROVE TypeOK'
    BY StartedKept
  <2>1. CASE UNCHANGED vars
    BY <2>1 DEF vars, serverVars, TypeOK, On
  <2>2. CASE Next
    BY <2>2, HandleKeeps, CallBackKeeps, FunctorKeeps, OtherStepsKeep DEF Next, LoopStep
  <2> QED
    BY <2>1, <2>2
<1> QED
  BY <1>1, ServerInitTypes, PTL DEF Spec
-----------------------------------------------------------------------------
(* The functors of a connection.  The operators below are FunctorInv,        *)
(* ConnectingInv and the last part of LiveInv for any queues q, connections  *)
(* k and map m.                                                             *)

In(s, c) == {i \in 1..Len(s) : s[i].conn = c}
Late(r) == r.m_eConnectState \notin {"None", "Connecting"}
InState(r, state) == r.m_eConnectState = state

FunctorsOK(q, k) ==
    \A l \in Loops : \A i \in 1..Len(q[l]) :
        IF q[l][i].call = "established"
          THEN InState(k[q[l][i].conn], "Connecting") /\ k[q[l][i].conn].m_pEventLoop = l
          ELSE Late(k[q[l][i].conn])
ConnectingOK(q, k, m) ==
    \A c \in Conn : InState(k[c], "Connecting") =>
        /\ c \in m /\ k[c].m_pChannel = NewChannel
        /\ \E i \in Nat : In(q[k[c].m_pEventLoop], c) = {i}
QueueType == [Loops -> Seq(Functor)]
TableType == [Conn -> ConnType]

LEMMA InvsAsOperators ==
    /\ FunctorInv <=> FunctorsOK(functors, conn)
    /\ FunctorInv' <=> FunctorsOK(functors', conn')
    /\ ConnectingInv <=> ConnectingOK(functors, conn, m_mpConnection)
    /\ ConnectingInv' <=> ConnectingOK(functors', conn', m_mpConnection')
<1> USE DEF Late, InState, In
<1>1. FunctorInv <=> FunctorsOK(functors, conn)
  BY DEF FunctorInv, FunctorOK, FunctorsOK
<1>2. FunctorInv' <=> FunctorsOK(functors', conn')
  BY DEF FunctorInv, FunctorOK, FunctorsOK
<1>3. ConnectingInv <=> ConnectingOK(functors, conn, m_mpConnection)
  BY DEF ConnectingInv, ConnectingOK, Bound
<1>4. ConnectingInv' <=> ConnectingOK(functors', conn', m_mpConnection')
  BY DEF ConnectingInv, ConnectingOK, Bound
<1> QED
  BY <1>1, <1>2, <1>3, <1>4

\* An appended functor is the last.
LEMMA InAppend ==
    ASSUME NEW s \in Seq(Functor), NEW f \in Functor, NEW c
    PROVE  /\ f.conn = c => In(Append(s, f), c) = In(s, c) \union {Len(s) + 1}
           /\ f.conn # c => In(Append(s, f), c) = In(s, c)
           /\ In(s, c) \subseteq In(Append(s, f), c)
<1>1. /\ Len(s) \in Nat /\ Len(Append(s, f)) = Len(s) + 1
      /\ \A i \in 1..Len(s) : Append(s, f)[i] = s[i]
      /\ Append(s, f)[Len(s) + 1] = f
  OBVIOUS
<1> QED
  BY <1>1 DEF In

\* When the head runs, the others move up.
LEMMA TailElements ==
    ASSUME NEW s \in Seq(Functor), s # <<>>
    PROVE  /\ Len(s) \in Nat \ {0} /\ Len(Tail(s)) = Len(s) - 1 /\ Head(s) = s[1]
           /\ \A i \in 1..Len(Tail(s)) : i + 1 \in 1..Len(s) /\ Tail(s)[i] = s[i + 1]
  OBVIOUS

LEMMA InTail ==
    ASSUME NEW s \in Seq(Functor), s # <<>>, NEW c, Head(s).conn # c
    PROVE  /\ In(s, c) # {} => In(Tail(s), c) # {}
           /\ (\E i \in Nat : In(s, c) = {i}) => \E i \in Nat : In(Tail(s), c) = {i}
<1>1. \A i \in In(s, c) : i \in Nat /\ i > 1 /\ i - 1 \in In(Tail(s), c)
  <2> SUFFICES ASSUME NEW i \in In(s, c) PROVE i \in Nat /\ i > 1 /\ i - 1 \in In(Tail(s), c)
    OBVIOUS
  <2>1. i \in 1..Len(s) /\ s[i].conn = c /\ i # 1
    BY TailElements DEF In
  <2>2. i - 1 \in 1..Len(Tail(s)) /\ (i - 1) + 1 = i
    BY <2>1, TailElements
  <2>3. Tail(s)[i - 1] = s[i]
    BY <2>2, TailElements
  <2> QED
    BY <2>1, <2>2, <2>3 DEF In
<1>2. \A i \in In(Tail(s), c) : i \in Nat /\ i + 1 \in In(s, c)
  BY TailElements DEF In
<1>3. ASSUME NEW i \in Nat, In(s, c) = {i} PROVE i - 1 \in Nat /\ In(Tail(s), c) = {i - 1}
  BY <1>1, <1>2, <1>3
<1> QED
  BY <1>1, <1>3
\* A change of a connection after ConnectedEstablished concerns no other functor.
LEMMA LateChange ==
    ASSUME NEW q \in QueueType, NEW k \in TableType, NEW m, NEW c \in Conn, NEW r \in ConnType,
           FunctorsOK(q, k), ConnectingOK(q, k, m), Late(k[c]), Late(r)
    PROVE  /\ FunctorsOK(q, [k EXCEPT ![c] = r])
           /\ ConnectingOK(q, [k EXCEPT ![c] = r], m \ {c})
           /\ ConnectingOK(q, [k EXCEPT ![c] = r], m)
<1> DEFINE k2 == [k EXCEPT ![c] = r]
<1>1. /\ k2[c] = r /\ \A d \in Conn : d # c => k2[d] = k[d]
      /\ ~InState(k[c], "Connecting") /\ ~InState(r, "Connecting")
  BY DEF TableType, Late, InState
<1>2. \A l \in Loops : \A i \in 1..Len(q[l]) : q[l][i].conn \in Conn
  <2> SUFFICES ASSUME NEW l \in Loops, NEW i \in 1..Len(q[l]) PROVE q[l][i].conn \in Conn
    OBVIOUS
  <2>1. q[l] \in Seq(Functor)
    BY DEF QueueType
  <2>2. q[l][i] \in Functor
    BY <2>1
  <2> QED
    BY <2>2 DEF Functor
<1> HIDE DEF k2
<1>3. FunctorsOK(q, k2)
  BY <1>1, <1>2 DEF FunctorsOK
<1>4. ConnectingOK(q, k2, m \ {c}) /\ ConnectingOK(q, k2, m)
  BY <1>1 DEF ConnectingOK
<1> QED
  BY <1>3, <1>4 DEF k2

\* One more functor for a connection after ConnectedEstablished.
LEMMA LateAppend ==
    ASSUME NEW q \in QueueType, NEW k \in TableType, NEW m, NEW l0 \in Loops, NEW f \in Functor,
           FunctorsOK(q, k), ConnectingOK(q, k, m), f.call # "established", Late(k[f.conn])
    PROVE  /\ FunctorsOK([q EXCEPT ![l0] = Append(@, f)], k)
           /\ ConnectingOK([q EXCEPT ![l0] = Append(@, f)], k, m)
           /\ \A l \in Loops : \A c : In(q[l], c) \subseteq In([q EXCEPT ![l0] = Append(@, f)][l], c)
           /\ In([q EXCEPT ![l0] = Append(@, f)][l0], f.conn) # {}
<1> DEFINE q2 == [q EXCEPT ![l0] = Append(@, f)]
<1>1. q2[l0] = Append(q[l0], f) /\ \A l \in Loops : l # l0 => q2[l] = q[l]
  BY DEF QueueType
<1>2. q[l0] \in Seq(Functor)
  BY DEF QueueType
<1> HIDE DEF q2
<1>3. /\ Len(q[l0]) \in Nat /\ Len(q2[l0]) = Len(q[l0]) + 1
      /\ \A i \in 1..Len(q[l0]) : q2[l0][i] = q[l0][i]
      /\ q2[l0][Len(q[l0]) + 1] = f
  BY <1>1, <1>2
<1>4. FunctorsOK(q2, k)
  <2> SUFFICES ASSUME NEW l \in Loops, NEW i \in 1..Len(q2[l])
               PROVE  IF q2[l][i].call = "established"
                        THEN InState(k[q2[l][i].conn], "Connecting")
                             /\ k[q2[l][i].conn].m_pEventLoop = l
                        ELSE Late(k[q2[l][i].conn])
    BY DEF FunctorsOK
  <2>1. CASE l # l0
    BY <1>1, <2>1 DEF FunctorsOK
  <2>2. CASE l = l0 /\ i \in 1..Len(q[l0])
    BY <1>3, <2>2 DEF FunctorsOK
  <2>3. CASE l = l0 /\ i = Len(q[l0]) + 1
    BY <1>3, <2>3
  <2> QED
    BY <1>3, <2>1, <2>2, <2>3
<1>5. ConnectingOK(q2, k, m)
  <2> SUFFICES ASSUME NEW c \in Conn, InState(k[c], "Connecting")
               PROVE  /\ c \in m /\ k[c].m_pChannel = NewChannel
                      /\ \E i \in Nat : In(q2[k[c].m_pEventLoop], c) = {i}
    BY DEF ConnectingOK
  <2>1. f.conn # c
    BY DEF Late, InState
  <2>2. k[c].m_pEventLoop \in Loops
    BY DEF TableType, ConnType
  <2>3. In(q2[l0], c) = In(q[l0], c)
    BY <1>1, <1>2, <2>1, InAppend
  <2>4. In(q2[k[c].m_pEventLoop], c) = In(q[k[c].m_pEventLoop], c)
    BY <1>1, <2>2, <2>3
  <2> QED
    BY <2>4 DEF ConnectingOK
<1>6. ASSUME NEW l \in Loops, NEW c PROVE In(q[l], c) \subseteq In(q2[l], c)
  <2>1. In(q[l0], c) \subseteq In(q2[l0], c)
    BY <1>1, <1>2, InAppend
  <2> QED
    BY <1>1, <2>1
<1>7. In(q2[l0], f.conn) # {}
  <2>1. Len(q[l0]) + 1 \in In(q2[l0], f.conn)
    BY <1>3 DEF In
  <2> QED
    BY <2>1
<1> QED
  BY <1>4, <1>5, <1>6, <1>7 DEF q2

\* A functor that runs and is not ConnectedEstablished leaves those of other connections.
LEMMA LateTail ==
    ASSUME NEW q \in QueueType, NEW k \in TableType, NEW m, NEW l0 \in Loops, q[l0] # <<>>,
           FunctorsOK(q, k), ConnectingOK(q, k, m), Head(q[l0]).call # "established"
    PROVE  /\ Late(k[Head(q[l0]).conn])
           /\ FunctorsOK([q EXCEPT ![l0] = Tail(@)], k)
           /\ ConnectingOK([q EXCEPT ![l0] = Tail(@)], k, m)
           /\ \A l \in Loops : \A c : c # Head(q[l0]).conn /\ In(q[l], c) # {}
                => In([q EXCEPT ![l0] = Tail(@)][l], c) # {}
<1> DEFINE q2 == [q EXCEPT ![l0] = Tail(@)]
           f == Head(q[l0])
<1>1. q2[l0] = Tail(q[l0]) /\ \A l \in Loops : l # l0 => q2[l] = q[l]
  BY DEF QueueType
<1>2. q[l0] \in Seq(Functor) /\ f = q[l0][1] /\ 1 \in 1..Len(q[l0])
  BY TailElements DEF QueueType
<1>3. Late(k[f.conn])
  BY <1>2 DEF FunctorsOK
<1> HIDE DEF q2
<1>4. FunctorsOK(q2, k)
  <2> SUFFICES ASSUME NEW l \in Loops, NEW i \in 1..Len(q2[l])
               PROVE  IF q2[l][i].call = "established"
                        THEN InState(k[q2[l][i].conn], "Connecting")
                             /\ k[q2[l][i].conn].m_pEventLoop = l
                        ELSE Late(k[q2[l][i].conn])
    BY DEF FunctorsOK
  <2>1. CASE l # l0
    BY <1>1, <2>1 DEF FunctorsOK
  <2>2. CASE l = l0
    <3>1. i \in 1..Len(Tail(q[l0]))
      BY <1>1, <2>2
    <3>2. i + 1 \in 1..Len(q[l0]) /\ Tail(q[l0])[i] = q[l0][i + 1]
      BY <1>2, <3>1, TailElements
    <3>3. q2[l][i] = q[l0][i + 1]
      BY <1>1, <2>2, <3>2
    <3> QED
      BY <2>2, <3>2, <3>3 DEF FunctorsOK
  <2> QED
    BY <2>1, <2>2
<1>5. ConnectingOK(q2, k, m)
  <2> SUFFICES ASSUME NEW c \in Conn, InState(k[c], "Connecting")
               PROVE  /\ c \in m /\ k[c].m_pChannel = NewChannel
                      /\ \E i \in Nat : In(q2[k[c].m_pEventLoop], c) = {i}
    BY DEF ConnectingOK
  <2>1. f.conn # c
    BY <1>3 DEF Late, InState
  <2>2. /\ k[c].m_pEventLoop \in Loops /\ c \in m /\ k[c].m_pChannel = NewChannel
        /\ \E i \in Nat : In(q[k[c].m_pEventLoop], c) = {i}
    BY DEF TableType, ConnType, ConnectingOK
  <2>3. \E i \in Nat : In(q2[k[c].m_pEventLoop], c) = {i}
    <3>1. CASE k[c].m_pEventLoop # l0
      BY <1>1, <2>2, <3>1
    <3>2. CASE k[c].m_pEventLoop = l0
      <4>1. \E i \in Nat : In(q[l0], c) = {i}
        BY <2>2, <3>2
      <4>2. \E i \in Nat : In(Tail(q[l0]), c) = {i}
        BY <1>2, <2>1, <4>1, InTail
      <4> QED
        BY <1>1, <3>2, <4>2
    <3> QED
      BY <3>1, <3>2
  <2> QED
    BY <2>2, <2>3
<1>6. \A l \in Loops : \A c : c # f.conn /\ In(q[l], c) # {} => In(q2[l], c) # {}
  BY <1>1, <1>2, InTail
<1> QED
  BY <1>3, <1>4, <1>5, <1>6 DEF q2
\* ConnectedEstablished at the head of a queue waits there for its connection.
LEMMA EstablishedHead ==
    ASSUME NEW q \in QueueType, NEW k \in TableType, NEW m, NEW l0 \in Loops, q[l0] # <<>>,
           FunctorsOK(q, k), ConnectingOK(q, k, m), Head(q[l0]).call = "established"
    PROVE  /\ InState(k[Head(q[l0]).conn], "Connecting")
           /\ k[Head(q[l0]).conn].m_pEventLoop = l0 /\ Head(q[l0]).conn \in m
<1>1. /\ q[l0] \in Seq(Functor) /\ Head(q[l0]) = q[l0][1] /\ 1 \in 1..Len(q[l0])
      /\ q[l0][1] \in Functor
  BY TailElements DEF QueueType
<1>2. Head(q[l0]).conn \in Conn
  BY <1>1 DEF Functor
<1>3. InState(k[Head(q[l0]).conn], "Connecting") /\ k[Head(q[l0]).conn].m_pEventLoop = l0
  BY <1>1 DEF FunctorsOK
<1> QED
  BY <1>2, <1>3 DEF ConnectingOK

\* Whatever functor runs, other connections keep theirs.
LEMMA TailOthers ==
    ASSUME NEW q \in QueueType, NEW l0 \in Loops, q[l0] # <<>>, NEW l \in Loops, NEW d,
           d # Head(q[l0]).conn, In(q[l], d) # {}
    PROVE  In([q EXCEPT ![l0] = Tail(@)][l], d) # {}
<1>1. [q EXCEPT ![l0] = Tail(@)][l] = IF l = l0 THEN Tail(q[l0]) ELSE q[l]
  BY DEF QueueType
<1>2. q[l0] \in Seq(Functor)
  BY DEF QueueType
<1>3. l = l0 => In(Tail(q[l0]), d) # {}
  BY <1>2, InTail
<1> QED
  BY <1>1, <1>3

QueuesOK(q, k, m) == FunctorsOK(q, k) /\ ConnectingOK(q, k, m)

\* ConnectedEstablished runs: it was the only functor of its connection, on any loop.
LEMMA EstablishedTail ==
    ASSUME NEW q \in QueueType, NEW k \in TableType, NEW m, NEW l0 \in Loops, q[l0] # <<>>,
           FunctorsOK(q, k), ConnectingOK(q, k, m), Head(q[l0]).call = "established",
           NEW r \in ConnType, Late(r), NEW c, c = Head(q[l0]).conn
    PROVE  QueuesOK([q EXCEPT ![l0] = Tail(@)], [k EXCEPT ![c] = r], m)
<1> DEFINE q2 == [q EXCEPT ![l0] = Tail(@)]
           k2 == [k EXCEPT ![c] = r]
<1>1. q2[l0] = Tail(q[l0]) /\ \A l \in Loops : l # l0 => q2[l] = q[l]
  BY DEF QueueType
<1>2. /\ q[l0] \in Seq(Functor) /\ Head(q[l0]) = q[l0][1] /\ 1 \in 1..Len(q[l0])
      /\ q[l0][1] \in Functor
  BY TailElements DEF QueueType
<1>3. c \in Conn /\ c = q[l0][1].conn
  BY <1>2 DEF Functor
<1>4. k2[c] = r /\ \A d \in Conn : d # c => k2[d] = k[d]
  BY <1>3 DEF TableType
<1> HIDE DEF q2, k2
<1>5. InState(k[c], "Connecting") /\ k[c].m_pEventLoop = l0
  BY <1>2, <1>3 DEF FunctorsOK
<1>6. PICK i0 \in Nat : c \in m /\ In(q[l0], c) = {i0}
  BY <1>3, <1>5 DEF ConnectingOK
<1>7. \A i \in 1..Len(q[l0]) : q[l0][i].conn = c => i = 1
  <2>1. 1 \in In(q[l0], c)
    BY <1>2, <1>3 DEF In
  <2> QED
    BY <1>6, <2>1 DEF In
<1>8. ASSUME NEW l \in Loops, NEW i \in 1..Len(q2[l])
      PROVE  \E j \in 1..Len(q[l]) : /\ q2[l][i] = q[l][j] /\ q[l][j].conn \in Conn
                                    /\ q[l][j].conn # c
  <2>1. CASE l # l0
    <3>1. q2[l] = q[l] /\ q[l] \in Seq(Functor)
      BY <1>1, <2>1 DEF QueueType
    <3>2. i \in 1..Len(q[l]) /\ q[l][i] \in Functor
      BY <3>1
    <3>3. q[l][i].conn \in Conn
      BY <3>2 DEF Functor
    <3>4. q[l][i].conn # c
      BY <1>5, <2>1, <3>2 DEF FunctorsOK, Late, InState
    <3> QED
      BY <3>1, <3>2, <3>3, <3>4
  <2>2. CASE l = l0
    <3>1. i \in 1..Len(Tail(q[l0]))
      BY <1>1, <2>2
    <3>2. i + 1 \in 1..Len(q[l0]) /\ Tail(q[l0])[i] = q[l0][i + 1] /\ i + 1 # 1
      BY <1>2, <3>1, TailElements
    <3>3. q2[l][i] = q[l][i + 1]
      BY <1>1, <2>2, <3>2
    <3>4. q[l0][i + 1].conn # c
      BY <1>7, <3>2
    <3>5. q[l0][i + 1] \in Functor
      BY <1>2, <3>2
    <3> QED
      BY <2>2, <3>2, <3>3, <3>4, <3>5 DEF Functor
  <2> QED
    BY <2>1, <2>2
<1>9. FunctorsOK(q2, k2)
  <2> SUFFICES ASSUME NEW l \in Loops, NEW i \in 1..Len(q2[l])
               PROVE  IF q2[l][i].call = "established"
                        THEN InState(k2[q2[l][i].conn], "Connecting")
                             /\ k2[q2[l][i].conn].m_pEventLoop = l
                        ELSE Late(k2[q2[l][i].conn])
    BY DEF FunctorsOK
  <2>1. PICK j \in 1..Len(q[l]) : /\ q2[l][i] = q[l][j] /\ q[l][j].conn \in Conn
                                  /\ q[l][j].conn # c
    BY <1>8
  <2>2. k2[q[l][j].conn] = k[q[l][j].conn]
    BY <1>4, <2>1
  <2> QED
    BY <2>1, <2>2 DEF FunctorsOK
<1>10. ASSUME NEW d, d # c PROVE Head(q[l0]).conn # d
  BY <1>10
<1>11. ConnectingOK(q2, k2, m)
  <2> SUFFICES ASSUME NEW d \in Conn, InState(k2[d], "Connecting")
               PROVE  /\ d \in m /\ k2[d].m_pChannel = NewChannel
                      /\ \E i \in Nat : In(q2[k2[d].m_pEventLoop], d) = {i}
    BY DEF ConnectingOK
  <2>1. d # c /\ k2[d] = k[d]
    BY <1>4 DEF Late, InState
  <2>2. /\ k[d].m_pEventLoop \in Loops /\ d \in m /\ k[d].m_pChannel = NewChannel
        /\ \E i \in Nat : In(q[k[d].m_pEventLoop], d) = {i}
    BY <2>1 DEF TableType, ConnType, ConnectingOK
  <2>3. \E i \in Nat : In(q2[k[d].m_pEventLoop], d) = {i}
    <3>1. CASE k[d].m_pEventLoop # l0
      BY <1>1, <2>2, <3>1
    <3>2. CASE k[d].m_pEventLoop = l0
      <4>1. Head(q[l0]).conn # d /\ \E i \in Nat : In(q[l0], d) = {i}
        BY <1>10, <2>1, <2>2, <3>2
      <4>2. \E i \in Nat : In(Tail(q[l0]), d) = {i}
        BY <1>2, <4>1, InTail
      <4> QED
        BY <1>1, <3>2, <4>2
    <3> QED
      BY <3>1, <3>2
  <2> QED
    BY <2>1, <2>2, <2>3
<1> QED
  BY <1>9, <1>11 DEF q2, k2, QueuesOK

\* A connection that is not accepted yet has no functor; its record may be filled in.
LEMMA FreshConn ==
    ASSUME NEW q \in QueueType, NEW k \in TableType, NEW m, NEW c \in Conn, NEW r \in ConnType,
           FunctorsOK(q, k), ConnectingOK(q, k, m), InState(k[c], "None")
    PROVE  /\ \A l \in Loops : In(q[l], c) = {}
           /\ FunctorsOK(q, [k EXCEPT ![c] = r])
           /\ Late(r) => ConnectingOK(q, [k EXCEPT ![c] = r], m \union {c})
<1> DEFINE k2 == [k EXCEPT ![c] = r]
<1>1. k2[c] = r /\ \A d \in Conn : d # c => k2[d] = k[d]
  BY DEF TableType
<1> HIDE DEF k2
<1>2. ASSUME NEW l \in Loops, NEW i \in 1..Len(q[l])
      PROVE  q[l][i].conn \in Conn /\ q[l][i].conn # c
  <2>1. q[l] \in Seq(Functor)
    BY DEF QueueType
  <2>2. q[l][i] \in Functor
    BY <2>1
  <2>3. q[l][i].conn # c
    BY DEF FunctorsOK, Late, InState
  <2> QED
    BY <2>2, <2>3 DEF Functor
<1>3. \A l \in Loops : In(q[l], c) = {}
  BY <1>2 DEF In
<1>4. FunctorsOK(q, k2)
  BY <1>1, <1>2 DEF FunctorsOK
<1>5. Late(r) => ConnectingOK(q, k2, m \union {c})
  <2> SUFFICES ASSUME Late(r), NEW d \in Conn, InState(k2[d], "Connecting")
               PROVE  /\ d \in m \union {c} /\ k2[d].m_pChannel = NewChannel
                      /\ \E i \in Nat : In(q[k2[d].m_pEventLoop], d) = {i}
    BY DEF ConnectingOK
  <2>1. d # c /\ k2[d] = k[d]
    BY <1>1 DEF Late, InState
  <2> QED
    BY <2>1 DEF ConnectingOK
<1> QED
  BY <1>3, <1>4, <1>5 DEF k2

\* newConnection queues ConnectedEstablished for the connection's loop.
LEMMA FreshAppend ==
    ASSUME NEW q \in QueueType, NEW k \in TableType, NEW m, NEW c \in Conn, NEW r \in ConnType,
           FunctorsOK(q, k), ConnectingOK(q, k, m), InState(k[c], "None"),
           InState(r, "Connecting"), r.m_pChannel = NewChannel,
           NEW f \in Functor, f.call = "established", f.conn = c
    PROVE  LET q2 == [q EXCEPT ![r.m_pEventLoop] = Append(@, f)]
               k2 == [k EXCEPT ![c] = r]
           IN  /\ FunctorsOK(q2, k2) /\ ConnectingOK(q2, k2, m \union {c})
               /\ \A l \in Loops : \A d : In(q[l], d) \subseteq In(q2[l], d)
<1> DEFINE l0 == r.m_pEventLoop
           q2 == [q EXCEPT ![l0] = Append(@, f)]
           k2 == [k EXCEPT ![c] = r]
<1>0. l0 \in Loops
  BY DEF ConnType
<1> HIDE DEF l0
<1>1. q2[l0] = Append(q[l0], f) /\ \A l \in Loops : l # l0 => q2[l] = q[l]
  BY <1>0 DEF QueueType
<1>2. q[l0] \in Seq(Functor)
  BY <1>0 DEF QueueType
<1>3. k2[c] = r /\ \A d \in Conn : d # c => k2[d] = k[d]
  BY DEF TableType
<1>4. FunctorsOK(q, k2) /\ \A l \in Loops : In(q[l], c) = {}
  BY FreshConn
<1> HIDE DEF q2, k2
<1>5. /\ Len(q[l0]) \in Nat /\ Len(q2[l0]) = Len(q[l0]) + 1
      /\ \A i \in 1..Len(q[l0]) : q2[l0][i] = q[l0][i]
      /\ q2[l0][Len(q[l0]) + 1] = f
  BY <1>1, <1>2
<1>6. FunctorsOK(q2, k2)
  <2> SUFFICES ASSUME NEW l \in Loops, NEW i \in 1..Len(q2[l])
               PROVE  IF q2[l][i].call = "established"
                        THEN InState(k2[q2[l][i].conn], "Connecting")
                             /\ k2[q2[l][i].conn].m_pEventLoop = l
                        ELSE Late(k2[q2[l][i].conn])
    BY DEF FunctorsOK
  <2>1. CASE l # l0
    BY <1>1, <1>4, <2>1 DEF FunctorsOK
  <2>2. CASE l = l0 /\ i \in 1..Len(q[l0])
    <3>1. q2[l][i] = q[l][i] /\ i \in 1..Len(q[l])
      BY <1>5, <2>2
    <3> QED
      BY <1>4, <3>1 DEF FunctorsOK
  <2>3. CASE l = l0 /\ i = Len(q[l0]) + 1
    BY <1>3, <1>5, <2>3 DEF l0
  <2> QED
    BY <1>5, <2>1, <2>2, <2>3
<1>7. ConnectingOK(q2, k2, m \union {c})
  <2> SUFFICES ASSUME NEW d \in Conn, InState(k2[d], "Connecting")
               PROVE  /\ d \in m \union {c} /\ k2[d].m_pChannel = NewChannel
                      /\ \E i \in Nat : In(q2[k2[d].m_pEventLoop], d) = {i}
    BY DEF ConnectingOK
  <2>1. CASE d = c
    <3>1. In(q2[l0], c) = {Len(q[l0]) + 1}
      <4>1. In(q[l0], c) = {}
        BY <1>0, <1>4
      <4>2. In(Append(q[l0], f), c) = In(q[l0], c) \union {Len(q[l0]) + 1}
        BY <1>2, InAppend
      <4> QED
        BY <1>1, <4>1, <4>2
    <3>2. k2[d].m_pEventLoop = l0 /\ k2[d].m_pChannel = NewChannel
      BY <1>3, <2>1 DEF l0
    <3>3. Len(q[l0]) + 1 \in Nat
      BY <1>5
    <3> QED
      BY <2>1, <3>1, <3>2, <3>3
  <2>2. CASE d # c
    <3>1. k2[d] = k[d] /\ k[d].m_pEventLoop \in Loops
      BY <1>3, <2>2 DEF TableType, ConnType
    <3>2. In(q2[l0], d) = In(q[l0], d)
      BY <1>1, <1>2, <2>2, InAppend
    <3>3. In(q2[k[d].m_pEventLoop], d) = In(q[k[d].m_pEventLoop], d)
      BY <1>1, <3>1, <3>2
    <3> QED
      BY <3>1, <3>3 DEF ConnectingOK
  <2> QED
    BY <2>1, <2>2
<1>8. ASSUME NEW l \in Loops, NEW d PROVE In(q[l], d) \subseteq In(q2[l], d)
  <2>1. In(q[l0], d) \subseteq In(q2[l0], d)
    BY <1>1, <1>2, InAppend
  <2> QED
    BY <1>1, <2>1
<1> QED
  BY <1>6, <1>7, <1>8 DEF l0, q2, k2

-----------------------------------------------------------------------------
(* The inductive invariant                                                  *)

ServerInv ==
    /\ TypeOK /\ StartedInv /\ NoneInv /\ PlaceInv /\ FunctorInv /\ ConnectingInv /\ LiveInv
    /\ failed # "established"

\* The parts of ServerInv a step of the connections' life may disturb.
LifeInv == NoneInv /\ FunctorInv /\ ConnectingInv /\ LiveInv /\ failed # "established"

LiveState(r) == r.m_eConnectState \in {"Connected", "Disconnecting"}

LEMMA OwnedAsIn ==
    ASSUME NEW c
    PROVE  /\ Owned(c) <=> c \in m_mpConnection \/ \E l \in Loops : In(functors[l], c) # {}
           /\ Owned(c)' <=> c \in m_mpConnection' \/ \E l \in Loops : In(functors'[l], c) # {}
<1>1. Owned(c) <=> c \in m_mpConnection \/ \E l \in Loops : In(functors[l], c) # {}
  BY DEF Owned, Bound, In
<1>2. Owned(c)' <=> c \in m_mpConnection' \/ \E l \in Loops : In(functors'[l], c) # {}
  BY DEF Owned, Bound, In
<1> QED
  BY <1>1, <1>2

\* A step that changes one connection keeps LiveInv if the connection and the owners are as they
\* should be.
LEMMA LiveKept ==
    ASSUME TypeOK, LiveInv, failed = "no", NEW c \in Conn, NEW r \in ConnType,
           conn' = [conn EXCEPT ![c] = r],
           failed' = "no" => /\ Watched(r.m_pChannel) => LiveState(r)
                             /\ \A l \in Loops : \A e \in active[l] : e[1] = c => LiveState(r)
                             /\ LiveState(r) => Owned(c)',
           \A l \in Loops : active'[l] \subseteq active[l],
           \A d \in Conn : d # c /\ Owned(d) => Owned(d)'
    PROVE  LiveInv'
<1> SUFFICES ASSUME failed' = "no"
             PROVE  /\ \A d \in Conn : Watched(conn'[d].m_pChannel) => LiveState(conn'[d])
                    /\ \A l \in Loops : \A e \in active'[l] : LiveState(conn'[e[1]])
                    /\ \A d \in Conn : LiveState(conn'[d]) => Owned(d)'
  BY DEF LiveInv, Live, LiveState
<1>1. conn'[c] = r /\ \A d \in Conn : d # c => conn'[d] = conn[d]
  BY DEF TypeOK
<1>2. /\ \A d \in Conn : Watched(conn[d].m_pChannel) => LiveState(conn[d])
      /\ \A l \in Loops : \A e \in active[l] : LiveState(conn[e[1]])
      /\ \A d \in Conn : LiveState(conn[d]) => Owned(d)
  BY DEF LiveInv, Live, LiveState
<1>3. \A d \in Conn : Watched(conn'[d].m_pChannel) => LiveState(conn'[d])
  BY <1>1, <1>2
<1>4. ASSUME NEW l \in Loops, NEW e \in active'[l] PROVE LiveState(conn'[e[1]])
  <2>1. e \in active[l] /\ e \in Conn \X BOOLEAN
    BY DEF TypeOK
  <2>2. e[1] \in Conn
    BY <2>1
  <2> QED
    BY <1>1, <1>2, <2>1, <2>2
<1>5. \A d \in Conn : LiveState(conn'[d]) => Owned(d)'
  BY <1>1, <1>2
<1> QED
  BY <1>3, <1>4, <1>5

\* A step that leaves the connections, their functors and the map keeps the rest if what becomes
\* active is established.
LEMMA LifeUntouched ==
    ASSUME TypeOK, LifeInv, UNCHANGED <<conn, functors, m_mpConnection>>,
           failed' \in {failed, "accept"},
           failed = "no" => \A l \in Loops : \A e \in active'[l] : Live(e[1])
    PROVE  LifeInv'
<1>1. NoneInv' /\ failed' # "established"
  BY DEF LifeInv, NoneInv
<1>2. FunctorInv' /\ ConnectingInv'
  BY InvsAsOperators DEF LifeInv
<1>3. \A c \in Conn : Owned(c) <=> Owned(c)'
  BY OwnedAsIn
<1>4. LiveInv'
  BY <1>3 DEF LifeInv, LiveInv, Live
<1> QED
  BY <1>1, <1>2, <1>4 DEF LifeInv

\* A step that changes the record of an established connection, the queues growing by functors that
\* come after ConnectedEstablished.
LEMMA LifeOfLive ==
    ASSUME TypeOK, LifeInv, failed = "no", NEW c \in Conn, NEW r \in ConnType,
           Live(c), LiveState(r), conn' = [conn EXCEPT ![c] = r],
           \A l \in Loops : active'[l] \subseteq active[l],
           \/ UNCHANGED <<functors, m_mpConnection>>
           \/ \E k \in Loops, f \in Functor :
                /\ f.conn = c /\ f.call # "established"
                /\ functors' = [functors EXCEPT ![k] = Append(@, f)]
                /\ m_mpConnection' \in {m_mpConnection, m_mpConnection \ {c}},
           failed' # "established"
    PROVE  LifeInv'
<1>1. /\ functors \in QueueType /\ conn \in TableType
      /\ FunctorsOK(functors, conn) /\ ConnectingOK(functors, conn, m_mpConnection)
  BY InvsAsOperators DEF TypeOK, LifeInv, QueueType, TableType
<1>2. Late(conn[c]) /\ Late(r)
  BY DEF Late, Live, LiveState
<1>3. conn' \in TableType /\ conn'[c] = r /\ \A d \in Conn : d # c => conn'[d] = conn[d]
  BY DEF TypeOK, TableType
<1>4. NoneInv'
  BY <1>2, <1>3 DEF LifeInv, NoneInv, Late
<1>5. /\ FunctorsOK(functors, conn') /\ ConnectingOK(functors, conn', m_mpConnection)
      /\ ConnectingOK(functors, conn', m_mpConnection \ {c})
  BY <1>1, <1>2, LateChange
<1>6. Owned(c)
  BY DEF LifeInv, LiveInv
<1>7. CASE UNCHANGED <<functors, m_mpConnection>>
  <2>1. FunctorInv' /\ ConnectingInv'
    BY <1>5, <1>7, InvsAsOperators
  <2>2. \A d \in Conn : Owned(d) => Owned(d)'
    BY <1>7, OwnedAsIn
  <2>3. LiveInv'
    BY <1>6, <2>2, LiveKept DEF LifeInv
  <2> QED
    BY <1>4, <2>1, <2>3 DEF LifeInv
<1>8. ASSUME NEW k \in Loops, NEW f \in Functor, f.conn = c, f.call # "established",
             functors' = [functors EXCEPT ![k] = Append(@, f)],
             m_mpConnection' \in {m_mpConnection, m_mpConnection \ {c}}
      PROVE  LifeInv'
  <2>1. ConnectingOK(functors, conn', m_mpConnection')
    BY <1>5, <1>8
  <2>2. Late(conn'[f.conn])
    BY <1>2, <1>3, <1>8
  <2>3. /\ FunctorsOK(functors', conn') /\ ConnectingOK(functors', conn', m_mpConnection')
        /\ \A l \in Loops : \A d : In(functors[l], d) \subseteq In(functors'[l], d)
        /\ In(functors'[k], c) # {}
    <3>1. FunctorsOK(functors, conn') /\ functors \in QueueType /\ conn' \in TableType
      BY <1>1, <1>3, <1>5
    <3> QED
      BY <1>8, <2>1, <2>2, <3>1, LateAppend
  <2>4. FunctorInv' /\ ConnectingInv'
    BY <2>3, InvsAsOperators
  <2>5. \A d \in Conn : d # c /\ Owned(d) => Owned(d)'
    BY <1>8, <2>3, OwnedAsIn
  <2>6. Owned(c)'
    BY <2>3, OwnedAsIn
  <2>7. LiveInv'
    BY <2>5, <2>6, LiveKept DEF LifeInv
  <2> QED
    BY <1>4, <2>4, <2>7 DEF LifeInv
<1> QED
  BY <1>7, <1>8

-----------------------------------------------------------------------------
(* The steps                                                                *)

\* newConnection.
LEMMA NewConnectionLife ==
    ASSUME TypeOK, LifeInv, failed = "no", NEW c \in Conn, conn[c] = NoConn, newConnection(c),
           UNCHANGED <<active, failed>>
    PROVE  LifeInv'
<1>1. /\ functors \in QueueType /\ conn \in TableType
      /\ FunctorsOK(functors, conn) /\ ConnectingOK(functors, conn, m_mpConnection)
  BY InvsAsOperators DEF TypeOK, LifeInv, QueueType, TableType
<1>2. InState(conn[c], "None") /\ ~LiveState(conn[c])
  BY DEF InState, LiveState, NoConn
<1>3. m_mpConnection' = m_mpConnection \union {c}
  BY DEF newConnection
<1>4. Owned(c)'
  BY <1>3, OwnedAsIn
<1>5. \A l \in Loops : \A e \in active[l] : e[1] # c
  BY <1>2 DEF LifeInv, LiveInv, Live, LiveState
<1>6. CASE NextLoop = Base
  <2> DEFINE r == Established(Accepted)
  <2>1. conn' = [conn EXCEPT ![c] = r] /\ functors' = functors
    BY <1>6 DEF newConnection
  <2>2. r \in ConnType /\ r.m_eConnectState = "Connected"
    BY AcceptedTypes DEF Established, Accepted
  <2> HIDE DEF r
  <2>3. Late(r) /\ LiveState(r)
    BY <2>2 DEF Late, LiveState
  <2>4. FunctorInv' /\ ConnectingInv'
    BY <1>1, <1>2, <1>3, <2>1, <2>2, <2>3, FreshConn, InvsAsOperators
  <2>5. \A d \in Conn : d # c /\ Owned(d) => Owned(d)'
    BY <1>3, <2>1, OwnedAsIn
  <2>6. LiveInv'
    BY <1>4, <2>1, <2>2, <2>3, <2>5, LiveKept DEF LifeInv
  <2>7. NoneInv'
    BY <2>1, <2>2 DEF TypeOK, LifeInv, NoneInv
  <2> QED
    BY <2>4, <2>6, <2>7 DEF LifeInv
<1>7. CASE NextLoop # Base
  <2> DEFINE f == [call |-> "established", conn |-> c]
  <2>1. /\ conn' = [conn EXCEPT ![c] = Accepted]
        /\ functors' = [functors EXCEPT ![NextLoop] = Append(@, f)]
    BY <1>7 DEF newConnection
  <2>2. /\ Accepted \in ConnType /\ Accepted.m_eConnectState = "Connecting"
        /\ Accepted.m_pEventLoop = NextLoop /\ Accepted.m_pChannel = NewChannel
    BY AcceptedTypes DEF Accepted
  <2>3. f \in Functor /\ f.call = "established" /\ f.conn = c
    BY DEF Functor
  <2> HIDE DEF f
  <2>4. InState(Accepted, "Connecting") /\ ~LiveState(Accepted) /\ ~Watched(Accepted.m_pChannel)
    BY <2>2 DEF InState, LiveState, Watched, NewChannel
  <2>5. /\ FunctorsOK(functors', conn') /\ ConnectingOK(functors', conn', m_mpConnection')
        /\ \A l \in Loops : \A d : In(functors[l], d) \subseteq In(functors'[l], d)
    BY <1>1, <1>2, <1>3, <2>1, <2>2, <2>3, <2>4, FreshAppend
  <2>6. FunctorInv' /\ ConnectingInv'
    BY <2>5, InvsAsOperators
  <2>7. \A d \in Conn : d # c /\ Owned(d) => Owned(d)'
    BY <1>3, <2>5, OwnedAsIn
  <2>8. LiveInv'
    BY <1>5, <2>1, <2>2, <2>4, <2>7, LiveKept DEF LifeInv
  <2>9. NoneInv'
    BY <2>1, <2>2 DEF TypeOK, LifeInv, NoneInv
  <2> QED
    BY <2>6, <2>8, <2>9 DEF LifeInv
<1> QED
  BY <1>6, <1>7

\* The handling of events and the calls in callbacks: the connection is established.
LEMMA HandleLife ==
    ASSUME TypeOK, LifeInv, failed = "no", NEW l \in Loops, NEW c \in Conn,
           HandleClosed(l, c) \/ HandleOpen(l, c)
    PROVE  LifeInv'
<1>1. Live(c) /\ LiveState(conn[c])
  BY DEF HandleClosed, HandleOpen, LifeInv, LiveInv, Live, LiveState
<1>2. \A k \in Loops : active'[k] \subseteq active[k]
  BY DEF HandleClosed, HandleOpen, TypeOK
<1>3. conn[c] \in ConnType /\ conn[c].m_pChannel \in ChannelType
  BY DEF TypeOK, ConnType
<1>4. ASSUME NEW ch \in ChannelType
      PROVE  /\ [conn[c] EXCEPT !.m_pChannel = ch] \in ConnType
             /\ LiveState([conn[c] EXCEPT !.m_pChannel = ch])
  BY <1>1, <1>3 DEF ConnType, LiveState
<1>5. CASE HandleOpen(l, c)
  <2>1. UNCHANGED <<functors, m_mpConnection, failed>>
    BY <1>5 DEF HandleOpen
  <2>2. CASE UNCHANGED conn
    BY <1>2, <2>1, <2>2, LifeUntouched DEF LifeInv, LiveInv
  <2>3. CASE conn' = [conn EXCEPT ![c].m_pChannel = DisableWriting(@)]
    <3> DEFINE r == [conn[c] EXCEPT !.m_pChannel = DisableWriting(conn[c].m_pChannel)]
    <3>1. conn' = [conn EXCEPT ![c] = r]
      BY <2>3
    <3>2. r \in ConnType /\ LiveState(r)
      BY <1>3, <1>4, ChannelTypes
    <3> HIDE DEF r
    <3> QED
      BY <1>1, <1>2, <2>1, <3>1, <3>2, LifeOfLive
  <2> QED
    BY <1>5, <2>2, <2>3 DEF HandleOpen
<1>6. CASE HandleClosed(l, c)
  <2>1. handleClose(l, c)
    BY <1>1, <1>6 DEF HandleClosed, LiveState
  <2> DEFINE r == [conn[c] EXCEPT !.m_pChannel = DisableAll(conn[c].m_pChannel)]
  <2>2. conn' = [conn EXCEPT ![c] = r]
    BY <2>1 DEF handleClose
  <2>3. r \in ConnType /\ LiveState(r)
    BY <1>3, <1>4, ChannelTypes
  <2> HIDE DEF r
  <2>4. failed' # "established"
    BY <2>1 DEF handleClose, removeConnectionInLoop
  <2>5. \E k \in Loops, f \in Functor :
          /\ f.conn = c /\ f.call # "established"
          /\ functors' = [functors EXCEPT ![k] = Append(@, f)]
          /\ m_mpConnection' \in {m_mpConnection, m_mpConnection \ {c}}
    <3>1. CASE l = Base
      <4> DEFINE f == [call |-> "destroyed", conn |-> c]
      <4>1. f \in Functor /\ f.conn = c /\ f.call # "established"
        BY DEF Functor
      <4>2. /\ functors' = [functors EXCEPT ![NextLoop] = Append(@, f)]
            /\ m_mpConnection' = m_mpConnection \ {c}
        BY <2>1, <3>1 DEF handleClose, removeConnectionInLoop
      <4> QED
        BY <4>1, <4>2, NextLoopTypes
    <3>2. CASE l # Base
      <4> DEFINE f == [call |-> "remove", conn |-> c]
      <4>1. f \in Functor /\ f.conn = c /\ f.call # "established"
        BY DEF Functor
      <4>2. /\ functors' = [functors EXCEPT ![Base] = Append(@, f)]
            /\ m_mpConnection' = m_mpConnection
        BY <2>1, <3>2 DEF handleClose
      <4> QED
        BY <4>1, <4>2, LoopsTypes
    <3> QED
      BY <3>1, <3>2
  <2> QED
    BY <1>1, <1>2, <2>2, <2>3, <2>4, <2>5, LifeOfLive
<1> QED
  BY <1>5, <1>6

LEMMA CallBackLife ==
    ASSUME TypeOK, LifeInv, failed = "no", NEW c \in Conn, SendBlocks(c) \/ ShutDown(c)
    PROVE  LifeInv'
<1>1. Live(c) /\ UNCHANGED <<functors, m_mpConnection, active, failed>>
  BY DEF SendBlocks, ShutDown, Live
<1>2. conn[c] \in ConnType /\ conn[c].m_pChannel \in ChannelType
  BY DEF TypeOK, ConnType
<1>3. \E r \in ConnType : LiveState(r) /\ conn' = [conn EXCEPT ![c] = r]
  <2>1. CASE SendBlocks(c)
    <3> DEFINE r == [conn[c] EXCEPT !.m_pChannel = EnableWriting(conn[c].m_pChannel)]
    <3>1. EnableWriting(conn[c].m_pChannel) \in ChannelType
      BY <1>2, ChannelTypes
    <3>2. r \in ConnType /\ LiveState(r)
      BY <1>1, <1>2, <3>1 DEF ConnType, LiveState, Live
    <3>3. conn' = [conn EXCEPT ![c] = r]
      BY <2>1 DEF SendBlocks
    <3> QED
      BY <3>2, <3>3
  <2>2. CASE ShutDown(c)
    <3> DEFINE r == [conn[c] EXCEPT !.m_eConnectState = "Disconnecting"]
    <3>1. r \in ConnType /\ LiveState(r)
      BY <1>2 DEF ConnType, LiveState
    <3>2. conn' = [conn EXCEPT ![c] = r]
      BY <2>2 DEF ShutDown
    <3> QED
      BY <3>1, <3>2
  <2> QED
    BY <2>1, <2>2
<1> QED
  BY <1>1, <1>3, LifeOfLive DEF LifeInv

\* A functor that runs.  ConnectedDestroyed on its connection's loop finds nothing of it active: the
\* loop is not handling channels.
LEMMA FunctorLife ==
    ASSUME TypeOK, PlaceInv, LifeInv, failed = "no", NEW l \in Loops, RunFunctor(l)
    PROVE  LifeInv'
<1> DEFINE f == Head(functors[l])
           rest == [functors EXCEPT ![l] = Tail(@)]
<1>0. PICK c : c = f.conn
  OBVIOUS
<1>1. at[l] = "functors" /\ batch[l] > 0 /\ active' = active
  BY DEF RunFunctor
<1>2. /\ functors[l] # <<>> /\ f \in Functor /\ c \in Conn /\ rest \in QueueType
      /\ conn[c] \in ConnType
  BY <1>0, <1>1, HeadTypes DEF QueueType, TypeOK
<1>3. /\ functors \in QueueType /\ conn \in TableType
      /\ FunctorsOK(functors, conn) /\ ConnectingOK(functors, conn, m_mpConnection)
  BY InvsAsOperators DEF TypeOK, LifeInv, QueueType, TableType
<1>4. conn[c].m_pChannel \in ChannelType
  BY <1>2 DEF ConnType
<1>5. CASE f.call = "established" /\ RunEstablished(l, c, rest)
  <2> DEFINE r == Established(conn[c])
  <2>1. EnableReading(conn[c].m_pChannel) \in ChannelType
    BY <1>4, ChannelTypes
  <2>2. r \in ConnType /\ r.m_eConnectState = "Connected"
    BY <1>2, <2>1 DEF Established, ConnType
  <2>3. conn' = [conn EXCEPT ![c] = r] /\ functors' = rest /\ m_mpConnection' = m_mpConnection
    BY <1>5 DEF RunEstablished
  <2> HIDE DEF r
  <2>4. Late(r) /\ LiveState(r)
    BY <2>2 DEF Late, LiveState
  <2>5. /\ InState(conn[c], "Connecting") /\ conn[c].m_pEventLoop = l /\ c \in m_mpConnection
        /\ FunctorsOK(functors', conn') /\ ConnectingOK(functors', conn', m_mpConnection')
        /\ \A k \in Loops : \A d : d # c /\ In(functors[k], d) # {} => In(functors'[k], d) # {}
    <3>1. /\ functors[l] # <<>> /\ Head(functors[l]).call = "established"
          /\ c = Head(functors[l]).conn
      BY <1>0, <1>2, <1>5
    <3>2. functors' = [functors EXCEPT ![l] = Tail(@)] /\ conn' = [conn EXCEPT ![c] = r]
      BY <2>3
    <3>3. r \in ConnType /\ Late(r) /\ m_mpConnection' = m_mpConnection
      BY <2>2, <2>3, <2>4
    <3> HIDE DEF f, rest
    <3>4. QueuesOK([functors EXCEPT ![l] = Tail(@)], [conn EXCEPT ![c] = r], m_mpConnection)
      BY <1>3, <3>1, <3>3, EstablishedTail
    <3>5. InState(conn[c], "Connecting") /\ conn[c].m_pEventLoop = l /\ c \in m_mpConnection
      BY <1>3, <3>1, EstablishedHead
    <3>6. \A k \in Loops : \A d : d # c /\ In(functors[k], d) # {} => In(functors'[k], d) # {}
      BY <1>3, <3>1, <3>2, TailOthers
    <3> QED
      BY <3>2, <3>3, <3>4, <3>5, <3>6 DEF QueuesOK
  <2>6. FunctorInv' /\ ConnectingInv'
    BY <2>5, InvsAsOperators
  <2>7. failed' = "no"
    BY <1>5, <2>5 DEF RunEstablished, InState
  <2>8. Owned(c)' /\ \A d \in Conn : d # c /\ Owned(d) => Owned(d)'
    BY <2>3, <2>5, OwnedAsIn
  <2>9. LiveInv'
    BY <1>1, <1>2, <2>2, <2>3, <2>4, <2>8, LiveKept DEF LifeInv
  <2>10. NoneInv'
    BY <1>2, <2>2, <2>3 DEF TypeOK, LifeInv, NoneInv
  <2> QED
    BY <2>6, <2>7, <2>9, <2>10 DEF LifeInv
<1>6. ASSUME f.call # "established"
      PROVE  /\ Late(conn[c]) /\ FunctorsOK(rest, conn) /\ ConnectingOK(rest, conn, m_mpConnection)
             /\ \A k \in Loops : \A d : d # c /\ In(functors[k], d) # {} => In(rest[k], d) # {}
  BY <1>0, <1>2, <1>3, <1>6, LateTail
<1> HIDE DEF rest
<1>7. CASE f.call = "destroyed" /\ RunDestroyed(l, c, rest)
  <2> DEFINE ch == RemoveChannel(DisableAll(conn[c].m_pChannel))
             r == [conn[c] EXCEPT !.m_eConnectState = "Disconnected", !.m_pChannel = ch]
  <2>1. ch \in ChannelType /\ ch.m_nIndex = "NEW"
    <3>1. DisableAll(conn[c].m_pChannel) \in ChannelType
      BY <1>4, ChannelTypes
    <3>2. ch \in ChannelType
      BY <3>1, ChannelTypes
    <3>3. ch.m_nIndex = "NEW"
      BY <3>1 DEF RemoveChannel, ChannelType
    <3> QED
      BY <3>2, <3>3
  <2>2. conn' = [conn EXCEPT ![c] = r] /\ functors' = rest /\ m_mpConnection' = m_mpConnection
    <3>1. conn' = [conn EXCEPT ![c].m_eConnectState = "Disconnected", ![c].m_pChannel = ch]
          /\ functors' = rest /\ m_mpConnection' = m_mpConnection
      BY <1>7 DEF RunDestroyed
    <3> HIDE DEF ch
    <3> QED
      BY <1>2, <3>1 DEF TypeOK
  <2> HIDE DEF ch
  <2>3. r \in ConnType /\ r.m_eConnectState = "Disconnected" /\ r.m_pChannel = ch
    BY <1>2, <2>1 DEF ConnType
  <2>4. /\ failed' # "established"
        /\ failed' = "no" => conn[c].m_pEventLoop = l
    BY <1>7 DEF RunDestroyed
  <2> HIDE DEF r
  <2>5. Late(r) /\ ~LiveState(r) /\ ~Watched(r.m_pChannel)
    BY <2>1, <2>3 DEF Late, LiveState, Watched
  <2>6. FunctorInv' /\ ConnectingInv'
    BY <1>2, <1>3, <1>6, <1>7, <2>2, <2>3, <2>5, LateChange, InvsAsOperators
  <2>7. \A d \in Conn : d # c /\ Owned(d) => Owned(d)'
    BY <1>6, <1>7, <2>2, OwnedAsIn
  <2>8. ASSUME failed' = "no", NEW k \in Loops, NEW e \in active[k] PROVE e[1] # c
    <3>1. e \in On(k) \X BOOLEAN
      BY DEF TypeOK
    <3>2. conn[e[1]].m_pEventLoop = k
      BY <3>1 DEF On
    <3>3. active[l] = {}
      BY <1>1 DEF PlaceInv
    <3> QED
      BY <2>4, <2>8, <3>2, <3>3
  <2>9. LiveInv'
    BY <1>1, <1>2, <2>2, <2>3, <2>5, <2>7, <2>8, LiveKept DEF LifeInv
  <2>10. NoneInv'
    BY <1>2, <2>2, <2>3 DEF TypeOK, LifeInv, NoneInv
  <2> QED
    BY <2>4, <2>6, <2>9, <2>10 DEF LifeInv
<1>8. CASE f.call = "remove" /\ removeConnectionInLoop(c, rest) /\ UNCHANGED conn
  <2> DEFINE g == [call |-> "destroyed", conn |-> c]
  <2>1. /\ functors' = [rest EXCEPT ![NextLoop] = Append(@, g)]
        /\ m_mpConnection' = m_mpConnection \ {c} /\ failed' # "established"
    BY <1>8 DEF removeConnectionInLoop
  <2>2. g \in Functor /\ g.call # "established" /\ g.conn = c
    BY <1>2 DEF Functor
  <2> HIDE DEF g
  <2>3. conn' = [conn EXCEPT ![c] = conn[c]] /\ Late(conn[c])
    BY <1>2, <1>6, <1>8 DEF TypeOK
  <2>4. FunctorsOK(rest, conn') /\ ConnectingOK(rest, conn', m_mpConnection') /\ conn' \in TableType
    <3>1. FunctorsOK(rest, conn) /\ ConnectingOK(rest, conn, m_mpConnection)
      BY <1>6, <1>8
    <3>2. /\ FunctorsOK(rest, [conn EXCEPT ![c] = conn[c]])
          /\ ConnectingOK(rest, [conn EXCEPT ![c] = conn[c]], m_mpConnection \ {c})
      BY <1>2, <1>3, <2>3, <3>1, LateChange
    <3> QED
      BY <1>3, <1>8, <2>1, <2>3, <3>2
  <2>5. /\ FunctorsOK(functors', conn') /\ ConnectingOK(functors', conn', m_mpConnection')
        /\ \A k \in Loops : \A d : In(rest[k], d) \subseteq In(functors'[k], d)
        /\ In(functors'[NextLoop], c) # {}
    BY <1>2, <1>8, <2>1, <2>2, <2>3, <2>4, NextLoopTypes, LateAppend
  <2>6. FunctorInv' /\ ConnectingInv'
    BY <2>5, InvsAsOperators
  <2>7. Owned(c)'
    BY <2>5, NextLoopTypes, OwnedAsIn
  <2>8. \A d \in Conn : d # c /\ Owned(d) => Owned(d)'
    BY <1>6, <1>8, <2>1, <2>5, OwnedAsIn
  <2>9. /\ Watched(conn[c].m_pChannel) => LiveState(conn[c])
        /\ \A k \in Loops : \A e \in active[k] : e[1] = c => LiveState(conn[c])
    BY <1>2 DEF LifeInv, LiveInv, Live, LiveState
  <2>10. LiveInv'
    BY <1>1, <1>2, <2>3, <2>7, <2>8, <2>9, LiveKept DEF LifeInv
  <2>11. NoneInv'
    BY <1>8 DEF LifeInv, NoneInv
  <2> QED
    BY <2>1, <2>6, <2>10, <2>11 DEF LifeInv
<1> QED
  BY <1>0, <1>5, <1>7, <1>8 DEF RunFunctor, rest

\* The other steps make no connection and run no functor; poll reports registered channels only.
LEMMA OtherLife ==
    ASSUME TypeOK, LifeInv, failed = "no",
           \/ Start \/ AcceptFails \/ (\E n \in 0..MaxThreads : SetThreadNum(n))
           \/ (\E l \in Loops : Poll(l) \/ BeginFunctors(l) \/ EndFunctors(l))
           \/ (\E c \in Conn : PeerCloses(c))
    PROVE  LifeInv'
<1>1. UNCHANGED <<conn, functors, m_mpConnection>> /\ failed' \in {failed, "accept"}
  BY DEF Start, AcceptFails, SetThreadNum, Poll, BeginFunctors, EndFunctors, PeerCloses
<1>2. \A l \in Loops : \A e \in active[l] : Live(e[1])
  BY DEF LifeInv, LiveInv
<1>3. CASE \E l \in Loops : Poll(l)
  <2>1. PICK l \in Loops : Poll(l)
    BY <1>3
  <2>2. PICK ready \in SUBSET Ready(l) : \E ended \in SUBSET (ready \cap closed) :
          active' = [active EXCEPT ![l] = (ended \X {TRUE}) \union ((ready \ ended) \X {FALSE})]
    BY <2>1 DEF Poll
  <2>3. PICK ended \in SUBSET (ready \cap closed) :
          active' = [active EXCEPT ![l] = (ended \X {TRUE}) \union ((ready \ ended) \X {FALSE})]
    BY <2>2
  <2>4. \A c \in ready : Live(c)
    BY DEF Ready, On, LifeInv, LiveInv
  <2>5. \A e \in active'[l] : Live(e[1])
    BY <2>3, <2>4 DEF TypeOK
  <2>6. \A k \in Loops : k # l => active'[k] = active[k]
    BY <2>3 DEF TypeOK
  <2> QED
    BY <1>1, <1>2, <2>5, <2>6, LifeUntouched
<1>4. CASE active' = active
  BY <1>1, <1>2, <1>4, LifeUntouched
<1> QED
  BY <1>3, <1>4 DEF Start, AcceptFails, SetThreadNum, BeginFunctors, EndFunctors, PeerCloses

\* A loop that goes on to its functors has handled every active channel.
LEMMA PlaceKept ==
    ASSUME TypeOK, PlaceInv, Next
    PROVE  PlaceInv'
<1> USE DEF TypeOK, PlaceInv
<1>1. CASE UNCHANGED <<at, active>>
  BY <1>1
<1>2. ASSUME NEW l \in Loops, Poll(l) PROVE PlaceInv'
  BY <1>2 DEF Poll
<1>3. ASSUME NEW l \in Loops, BeginFunctors(l) \/ EndFunctors(l) PROVE PlaceInv'
  BY <1>3 DEF BeginFunctors, EndFunctors
<1>4. ASSUME NEW l \in Loops, NEW c \in Conn, HandleClosed(l, c) \/ HandleOpen(l, c) PROVE PlaceInv'
  <2>1. at' = at /\ \A k \in Loops : active'[k] \subseteq active[k]
    BY <1>4 DEF HandleClosed, HandleOpen
  <2> QED
    BY <2>1
<1> QED
  BY <1>1, <1>2, <1>3, <1>4 DEF Next, LoopStep, Start, AcceptorHandleRead, AcceptFails, SetThreadNum, RunFunctor,
     PeerCloses, SendBlocks, ShutDown

LEMMA ServerInduction == Spec => []ServerInv
<1>1. Init => ServerInv
  <2> SUFFICES ASSUME Init PROVE NoneInv /\ PlaceInv /\ LifeInv
    BY ServerInitTypes DEF ServerInv, LifeInv
  <2>1. /\ \A c \in Conn : conn[c] = NoConn /\ conn[c].m_eConnectState = "None"
                          /\ conn[c].m_pChannel = NewChannel
        /\ \A l \in Loops : functors[l] = <<>> /\ active[l] = {}
    BY DEF Init, NoConn
  <2>2. NoneInv /\ PlaceInv /\ ConnectingInv /\ failed = "no"
    BY <2>1 DEF NoneInv, PlaceInv, ConnectingInv, Init
  <2>3. FunctorInv
    BY <2>1 DEF FunctorInv
  <2>4. LiveInv
    BY <2>1 DEF LiveInv, Live, Watched, NewChannel
  <2> QED
    BY <2>2, <2>3, <2>4 DEF LifeInv
<1>2. TypeOK /\ StartedInv /\ ServerInv /\ [Next]_vars /\ TypeOK' /\ StartedInv' => ServerInv'
  <2> SUFFICES ASSUME ServerInv, [Next]_vars PROVE PlaceInv' /\ LifeInv'
    BY DEF ServerInv, LifeInv
  <2>1. TypeOK /\ PlaceInv /\ LifeInv
    BY DEF ServerInv, LifeInv
  <2>2. CASE UNCHANGED vars
    <3>1. UNCHANGED <<conn, functors, m_mpConnection, failed, active, at>>
      BY <2>2 DEF vars
    <3>2. PlaceInv'
      BY <2>1, <3>1 DEF PlaceInv
    <3>3. failed = "no" => \A l \in Loops : \A e \in active'[l] : Live(e[1])
      BY <2>1, <3>1 DEF LifeInv, LiveInv
    <3> QED
      BY <2>1, <3>1, <3>2, <3>3, LifeUntouched
  <2>3. CASE Next
    <3>1. failed = "no" /\ PlaceInv'
      BY <2>1, <2>3, PlaceKept DEF Next
    <3>2. CASE AcceptorHandleRead
      <4>1. UNCHANGED <<active, failed>>
        BY <3>2 DEF AcceptorHandleRead
      <4>2. ASSUME NEW c \in Conn, conn[c] = NoConn, newConnection(c) PROVE LifeInv'
        BY <2>1, <3>1, <4>1, <4>2, NewConnectionLife
      <4>3. CASE UNCHANGED <<m_nNext, m_mpConnection, conn, functors>>
        <5>1. failed = "no" => \A l \in Loops : \A e \in active'[l] : Live(e[1])
          BY <2>1, <4>1 DEF LifeInv, LiveInv
        <5>2. UNCHANGED <<conn, functors, m_mpConnection, failed>>
          BY <4>1, <4>3
        <5> QED
          BY <2>1, <3>1, <5>1, <5>2, LifeUntouched
      <4>4. \/ \E c \in Conn : conn[c] = NoConn /\ newConnection(c)
            \/ UNCHANGED <<m_nNext, m_mpConnection, conn, functors>>
        BY <3>2 DEF AcceptorHandleRead
      <4> QED
        BY <3>1, <4>2, <4>3, <4>4
    <3> QED
      BY <2>1, <2>3, <3>1, <3>2, HandleLife, CallBackLife, FunctorLife, OtherLife
         DEF Next, LoopStep
  <2> QED
    BY <2>2, <2>3
<1> QED
  BY <1>1, <1>2, ServerTypeCorrect, PTL DEF Spec

\* ConnectedEstablished runs once, on the connection's loop, and before any event or removal of it,
\* however newConnection and the loops interleave and however many loops there are.
THEOREM EstablishedComesFirst == Spec => []EstablishedFirst
<1>1. ServerInv => EstablishedFirst
  <2> SUFFICES ASSUME ServerInv, NEW c \in Conn, conn[c].m_eConnectState = "Connecting"
               PROVE  /\ c \in m_mpConnection /\ conn[c].m_pChannel = NewChannel
                      /\ Cardinality(Bound(conn[c].m_pEventLoop, c)) = 1
    BY DEF ServerInv, EstablishedFirst
  <2>1. /\ c \in m_mpConnection /\ conn[c].m_pChannel = NewChannel
        /\ \E i \in Nat : Bound(conn[c].m_pEventLoop, c) = {i}
    BY DEF ServerInv, ConnectingInv
  <2> QED
    BY <2>1, FS_Singleton
<1> QED
  BY <1>1, ServerInduction, PTL

\* A channel that a poller may report, or has reported, belongs to a connection that the map or a
\* queued functor owns: no loop handles an event of a connection that is gone.
THEOREM WatchedAreOwned == Spec => []WatchedIsOwned
<1>1. ServerInv => WatchedIsOwned
  <2> SUFFICES ASSUME ServerInv, failed = "no", NEW l \in Loops, NEW c \in On(l),
                      \/ Watched(conn[c].m_pChannel)
                      \/ <<c, TRUE>> \in active[l] \/ <<c, FALSE>> \in active[l]
               PROVE  c \in m_mpConnection \/ \E k \in Loops : Bound(k, c) # {}
    BY DEF WatchedIsOwned
  <2>1. c \in Conn
    BY DEF On
  <2>2. Live(c)
    BY <2>1 DEF ServerInv, LiveInv
  <2> QED
    BY <2>1, <2>2 DEF ServerInv, LiveInv, Owned
<1> QED
  BY <1>1, ServerInduction, PTL
-----------------------------------------------------------------------------
(* One loop: a connection leaves the map once, and ConnectedDestroyed runs   *)
(* before the poller can report it again.                                   *)

\* A step that leaves the map and the queues keeps RemovalInv if no connection dies.
LEMMA RemovalKept ==
    ASSUME TypeOK, RemovalInv, UNCHANGED <<functors, m_mpConnection>>,
           \A c \in Conn : Live(c) => Live(c)'
    PROVE  RemovalInv'
<1> DEFINE q == functors[Base]
<1>1. q \in Seq(Functor) /\ m_mpConnection \subseteq Conn
  BY LoopsTypes DEF TypeOK
<1>2. \A i \in 1..Len(q) : q[i] \in Functor
  BY <1>1
<1>3. \A i \in 1..Len(q) : q[i].conn \in Conn
  BY <1>2 DEF Functor
<1>4. \A c \in m_mpConnection' : Live(c)'
  BY <1>1 DEF RemovalInv
<1>5. \A i \in 1..Len(q) : q[i].call = "destroyed" /\ q[i].conn \notin m_mpConnection'
                          /\ Live(q[i].conn)'
  BY <1>3 DEF RemovalInv
<1> QED
  BY <1>4, <1>5 DEF RemovalInv

\* A step within a round keeps RoundInv if it moves no connection and no loop.
LEMMA RoundKept ==
    ASSUME RoundInv, UNCHANGED <<functors, m_mpConnection, batch, at>>,
           active'[Base] \subseteq active[Base],
           \A c \in Conn : conn'[c].m_pEventLoop = conn[c].m_pEventLoop
    PROVE  RoundInv'
  BY DEF RoundInv

\* Nobody is told later that there is one loop only.
LEMMA OneLoopStays ==
    ASSUME Next
    PROVE  OneLoop' => OneLoop
  BY DEF Next, OneLoop, serverVars, Start, AcceptorHandleRead, AcceptFails, SetThreadNum, LoopStep, Poll,
     BeginFunctors, EndFunctors, RunFunctor, HandleClosed, HandleOpen, PeerCloses, SendBlocks,
     ShutDown

\* What one loop means for the step of a loop: it is Base's.
LEMMA OnlyBase ==
    ASSUME ServerInv, OneLoop, failed = "no", OneLoopInv, NEW l \in Loops
    PROVE  /\ functors[l] # <<>> => l = Base /\ m_bStared
           /\ active[l] # {} => l = Base /\ m_bStared /\ at[l] = "handle"
           /\ m_bStared => m_nNumThreads = 0 /\ NextLoop = Base /\ (l <= m_nNumThreads => l = Base)
<1>1. RemovalInv /\ RoundInv
  BY DEF OneLoopInv
<1>2. functors[l] # <<>> => l = Base /\ m_bStared
  BY <1>1 DEF RemovalInv, ServerInv, StartedInv
<1>3. ASSUME active[l] # {} PROVE l = Base /\ m_bStared /\ at[l] = "handle"
  <2>1. PICK e : e \in active[l]
    BY <1>3
  <2>2. e \in On(l) \X BOOLEAN
    BY <2>1 DEF ServerInv, TypeOK
  <2>3. e[1] \in Conn /\ conn[e[1]].m_pEventLoop = l
    BY <2>2 DEF On
  <2> QED
    BY <1>1, <1>3, <2>3 DEF RoundInv, ServerInv, StartedInv, PlaceInv
<1>4. m_bStared => m_nNumThreads = 0 /\ NextLoop = Base /\ (l <= m_nNumThreads => l = Base)
  BY LoopsTypes DEF OneLoop, NextLoop, Base
<1> QED
  BY <1>2, <1>3, <1>4

\* Start, Acceptor and the peers.
LEMMA OneLoopAccept ==
    ASSUME ServerInv, OneLoop, failed = "no", OneLoopInv,
           \/ Start \/ AcceptorHandleRead \/ \E n \in 0..MaxThreads : SetThreadNum(n)
           \/ \E c \in Conn : PeerCloses(c)
    PROVE  failed' = "no" /\ RemovalInv' /\ RoundInv'
<1>1. TypeOK /\ RemovalInv /\ RoundInv /\ StartedInv
  BY DEF OneLoopInv, ServerInv
<1>2. CASE UNCHANGED <<functors, m_mpConnection, batch, at, active, conn, failed>>
  <2>1. /\ \A c \in Conn : Live(c) => Live(c)'
        /\ \A c \in Conn : conn'[c].m_pEventLoop = conn[c].m_pEventLoop
        /\ active'[Base] \subseteq active[Base]
    BY <1>2 DEF Live
  <2> QED
    BY <1>1, <1>2, <2>1, RemovalKept, RoundKept
<1>3. ASSUME accepting, NEW c \in Conn, conn[c] = NoConn, newConnection(c),
             UNCHANGED <<batch, at, active, failed>>
      PROVE  failed' = "no" /\ RemovalInv' /\ RoundInv'
  <2>1. NextLoop = Base
    BY <1>1, <1>3, OnlyBase, LoopsTypes DEF StartedInv
  <2>2. /\ functors' = functors /\ m_mpConnection' = m_mpConnection \union {c}
        /\ conn' = [conn EXCEPT ![c] = Established(Accepted)]
    BY <1>3, <2>1 DEF newConnection
  <2>3. /\ Established(Accepted).m_eConnectState = "Connected"
        /\ Established(Accepted).m_pEventLoop = Base
    BY <1>1, <2>1, AcceptedTypes DEF Established, Accepted
  <2>4. conn'[c] = Established(Accepted) /\ \A d \in Conn : d # c => conn'[d] = conn[d]
    BY <1>1, <2>2 DEF TypeOK
  <2>5. ~Live(c) /\ Live(c)' /\ \A d \in Conn : Live(d) => Live(d)'
    BY <1>3, <2>3, <2>4 DEF Live, NoConn
  <2>6. RoundInv'
    BY <1>1, <1>3, <2>2, <2>3, <2>4 DEF RoundInv
  <2>7. /\ functors[Base] \in Seq(Functor) /\ m_mpConnection \subseteq Conn
        /\ \A i \in 1..Len(functors[Base]) : functors[Base][i] \in Functor
    BY <1>1, LoopsTypes DEF TypeOK
  <2>8. \A i \in 1..Len(functors[Base]) : functors[Base][i].conn \in Conn
    BY <2>7 DEF Functor
  <2>9. \A d \in m_mpConnection' : Live(d)'
    BY <1>1, <2>2, <2>5, <2>7 DEF RemovalInv
  <2>10. \A i \in 1..Len(functors[Base]) :
           /\ functors[Base][i].call = "destroyed" /\ functors[Base][i].conn \notin m_mpConnection'
           /\ Live(functors[Base][i].conn)'
    BY <1>1, <2>2, <2>5, <2>8 DEF RemovalInv
  <2>11. RemovalInv'
    BY <1>1, <2>2, <2>9, <2>10 DEF RemovalInv
  <2> QED
    BY <1>3, <2>6, <2>11
<1> QED
  BY <1>2, <1>3 DEF Start, AcceptorHandleRead, SetThreadNum, PeerCloses

\* A callback of a connection, and an event that does not end it.
LEMMA OneLoopCallBack ==
    ASSUME ServerInv, OneLoop, failed = "no", OneLoopInv, NEW l \in Loops, NEW c \in Conn,
           HandleOpen(l, c) \/ SendBlocks(c) \/ ShutDown(c)
    PROVE  failed' = "no" /\ RemovalInv' /\ RoundInv'
<1>1. TypeOK /\ RemovalInv /\ RoundInv
  BY DEF OneLoopInv, ServerInv
<1>2. failed' = failed /\ UNCHANGED <<functors, m_mpConnection, batch, at>>
  BY DEF HandleOpen, SendBlocks, ShutDown
<1>3. active'[Base] \subseteq active[Base]
  <2>1. CASE HandleOpen(l, c)
    <3>1. active' = [active EXCEPT ![l] = @ \ {<<c, FALSE>>}]
      BY <2>1 DEF HandleOpen
    <3> QED
      BY <1>1, <3>1, LoopsTypes DEF TypeOK
  <2> QED
    BY <2>1 DEF SendBlocks, ShutDown
<1>4. \A d \in Conn : conn[d] \in ConnType
  BY <1>1 DEF TypeOK
<1>5. \A d \in Conn : /\ conn'[d].m_pEventLoop = conn[d].m_pEventLoop
                      /\ \/ conn'[d].m_eConnectState = conn[d].m_eConnectState
                         \/ conn'[d].m_eConnectState = "Disconnecting"
  <2>1. CASE HandleOpen(l, c)
    <3>1. conn' = conn \/ conn' = [conn EXCEPT ![c].m_pChannel = DisableWriting(@)]
      BY <2>1 DEF HandleOpen
    <3>2. CASE conn' = conn
      BY <3>2
    <3>3. CASE conn' = [conn EXCEPT ![c].m_pChannel = DisableWriting(@)]
      BY <1>1, <1>4, <3>3 DEF ConnType, TypeOK
    <3> QED
      BY <3>1, <3>2, <3>3
  <2>2. CASE SendBlocks(c)
    BY <1>1, <1>4, <2>2 DEF SendBlocks, ConnType, TypeOK
  <2>3. CASE ShutDown(c)
    BY <1>1, <1>4, <2>3 DEF ShutDown, ConnType, TypeOK
  <2> QED
    BY <2>1, <2>2, <2>3
<1>6. \A d \in Conn : Live(d) => Live(d)'
  BY <1>5 DEF Live
<1> QED
  BY <1>1, <1>2, <1>3, <1>5, <1>6, RemovalKept, RoundKept

\* Poll reports only connections in the map: none has its ConnectedDestroyed queued.
LEMMA OneLoopRound ==
    ASSUME ServerInv, OneLoop, failed = "no", OneLoopInv, NEW l \in Loops,
           Poll(l) \/ BeginFunctors(l) \/ EndFunctors(l)
    PROVE  failed' = "no" /\ RemovalInv' /\ RoundInv'
<1>1. TypeOK /\ RemovalInv /\ RoundInv
  BY DEF OneLoopInv, ServerInv
<1>2. failed' = failed /\ UNCHANGED <<functors, m_mpConnection, conn>>
  BY DEF Poll, BeginFunctors, EndFunctors
<1>3. RemovalInv'
  <2>1. \A d \in Conn : Live(d) => Live(d)'
    BY <1>2 DEF Live
  <2> QED
    BY <1>1, <1>2, <2>1, RemovalKept
<1>4. CASE Poll(l)
  <2>1. l = Base /\ at[Base] = "poll"
    BY <1>4, OnlyBase DEF Poll
  <2>2. PICK ready \in SUBSET Ready(Base) : \E ended \in SUBSET (ready \cap closed) :
          active' = [active EXCEPT ![Base] = (ended \X {TRUE}) \union ((ready \ ended) \X {FALSE})]
    BY <1>4, <2>1 DEF Poll
  <2>3. PICK ended \in SUBSET (ready \cap closed) :
          active' = [active EXCEPT ![Base] = (ended \X {TRUE}) \union ((ready \ ended) \X {FALSE})]
    BY <2>2
  <2>4. active'[Base] = (ended \X {TRUE}) \union ((ready \ ended) \X {FALSE})
    BY <1>1, <2>3, LoopsTypes DEF TypeOK
  <2>5. \A k \in Loops : functors[k] = <<>>
    BY <1>1, <2>1 DEF RemovalInv, RoundInv
  <2>6. ASSUME NEW c \in Ready(Base) PROVE c \in m_mpConnection
    <3>1. c \in Conn /\ Live(c)
      BY DEF Ready, On, ServerInv, LiveInv
    <3>2. Owned(c)
      BY <3>1 DEF ServerInv, LiveInv
    <3>3. \A k \in Loops : In(functors[k], c) = {}
      BY <2>5 DEF In
    <3> QED
      BY <3>2, <3>3, OwnedAsIn
  <2>7. \A e \in active'[Base] : e[1] \in m_mpConnection
    BY <2>4, <2>6
  <2>8. \A c \in Conn : <<c, TRUE>> \notin active'[Base] \/ <<c, FALSE>> \notin active'[Base]
    BY <2>4
  <2>9. at'[Base] = "handle"
    BY <1>1, <1>4, <2>1, LoopsTypes DEF Poll, TypeOK
  <2> QED
    BY <1>1, <1>2, <1>3, <2>7, <2>8, <2>9 DEF RoundInv
<1>5. CASE BeginFunctors(l)
  <2>1. active' = active
    BY <1>5 DEF BeginFunctors
  <2>2. CASE l = Base
    <3>1. at'[Base] = "functors" /\ batch'[Base] = Len(functors'[Base])
      BY <1>1, <1>2, <1>5, <2>2, LoopsTypes DEF BeginFunctors, TypeOK
    <3> QED
      BY <1>1, <1>2, <1>3, <2>1, <3>1 DEF RoundInv
  <2>3. CASE l # Base
    <3>1. at'[Base] = at[Base] /\ batch'[Base] = batch[Base]
      BY <1>1, <1>5, <2>3, LoopsTypes DEF BeginFunctors, TypeOK
    <3> QED
      BY <1>1, <1>2, <1>3, <2>1, <3>1 DEF RoundInv
  <2> QED
    BY <2>2, <2>3
<1>6. CASE EndFunctors(l)
  <2>1. active' = active /\ batch' = batch
    BY <1>6 DEF EndFunctors
  <2>2. CASE l = Base
    <3>1. at'[Base] = "poll" /\ Len(functors[Base]) = 0
      BY <1>1, <1>6, <2>2, LoopsTypes DEF EndFunctors, TypeOK, RoundInv
    <3>2. functors[Base] \in Seq(Functor)
      BY <1>1, LoopsTypes DEF TypeOK
    <3>3. functors[Base] = <<>>
      BY <3>1, <3>2
    <3> QED
      BY <1>1, <1>2, <1>3, <2>1, <3>1, <3>3 DEF RoundInv
  <2>3. CASE l # Base
    <3>1. at'[Base] = at[Base]
      BY <1>1, <1>6, <2>3, LoopsTypes DEF EndFunctors, TypeOK
    <3> QED
      BY <1>1, <1>2, <1>3, <2>1, <3>1 DEF RoundInv
  <2> QED
    BY <2>2, <2>3
<1> QED
  BY <1>4, <1>5, <1>6

\* handleClose takes a connection that is active out of the map, and queues its ConnectedDestroyed.
LEMMA OneLoopClosed ==
    ASSUME ServerInv, OneLoop, failed = "no", OneLoopInv, NEW l \in Loops, NEW c \in Conn,
           HandleClosed(l, c)
    PROVE  failed' = "no" /\ RemovalInv' /\ RoundInv'
<1> DEFINE f == [call |-> "destroyed", conn |-> c]
           q == functors[Base]
<1>1. TypeOK /\ RemovalInv /\ RoundInv
  BY DEF OneLoopInv, ServerInv
<1>2. <<c, TRUE>> \in active[l]
  BY DEF HandleClosed
<1>3. l = Base /\ at[Base] = "handle" /\ NextLoop = Base
  BY <1>2, OnlyBase
<1>4. c \in m_mpConnection /\ Live(c) /\ <<c, FALSE>> \notin active[Base]
  BY <1>1, <1>2, <1>3 DEF RoundInv, RemovalInv
<1>5. /\ conn' = [conn EXCEPT ![c].m_pChannel = DisableAll(@)]
      /\ m_mpConnection' = m_mpConnection \ {c}
      /\ functors' = [functors EXCEPT ![Base] = Append(@, f)]
      /\ failed' = failed
  BY <1>3, <1>4 DEF HandleClosed, Live, handleClose, removeConnectionInLoop
<1>6. active' = [active EXCEPT ![l] = @ \ {<<c, TRUE>>}] /\ at' = at
  BY DEF HandleClosed
<1>7. \A d \in Conn : conn[d] \in ConnType
  BY <1>1 DEF TypeOK
<1>8. \A d \in Conn : /\ conn'[d].m_pEventLoop = conn[d].m_pEventLoop
                      /\ conn'[d].m_eConnectState = conn[d].m_eConnectState
  BY <1>1, <1>5, <1>7 DEF ConnType, TypeOK
<1>9. \A d \in Conn : Live(d) => LiveState(conn'[d])
  BY <1>8 DEF Live, LiveState
<1>10. RoundInv'
  <2>1. active'[Base] = active[Base] \ {<<c, TRUE>>} /\ active[Base] \subseteq Conn \X BOOLEAN
    BY <1>1, <1>3, <1>6, LoopsTypes DEF TypeOK
  <2>2. ASSUME NEW e \in active'[Base] PROVE e[1] \in m_mpConnection'
    <3>1. e \in active[Base] /\ e # <<c, TRUE>> /\ e # <<c, FALSE>> /\ e \in Conn \X BOOLEAN
      BY <1>4, <2>1
    <3>2. PICK d \in Conn, b \in BOOLEAN : e = <<d, b>>
      BY <3>1
    <3>3. e[1] = d /\ d # c
      BY <3>1, <3>2
    <3> QED
      BY <1>1, <1>5, <3>1, <3>3 DEF RoundInv
  <2> QED
    BY <1>1, <1>3, <1>6, <1>8, <2>1, <2>2 DEF RoundInv
<1>11. /\ q \in Seq(Functor) /\ f \in Functor /\ m_mpConnection \subseteq Conn
       /\ \A i \in 1..Len(q) : q[i] \in Functor
  <2>1. q \in Seq(Functor) /\ m_mpConnection \subseteq Conn
    BY <1>1, LoopsTypes DEF TypeOK
  <2>2. f \in Functor
    BY DEF Functor
  <2> QED
    BY <2>1, <2>2
<1>12. /\ functors'[Base] = Append(q, f)
       /\ \A k \in Loops \ {Base} : functors'[k] = functors[k]
  BY <1>1, <1>5, LoopsTypes DEF TypeOK
<1>13. /\ Len(Append(q, f)) = Len(q) + 1 /\ Len(q) \in Nat /\ Append(q, f)[Len(q) + 1] = f
       /\ \A i \in 1..Len(q) : Append(q, f)[i] = q[i]
  BY <1>11
<1>14. \A i \in 1..Len(q) : /\ q[i].call = "destroyed" /\ q[i].conn # c
                            /\ q[i].conn \in Conn \ m_mpConnection /\ Live(q[i].conn)
  BY <1>1, <1>4, <1>11 DEF RemovalInv, Functor
<1>15. f.conn = c /\ f.call = "destroyed"
  OBVIOUS
<1> HIDE DEF f, q
<1>16. ASSUME NEW i \in 1..Len(functors'[Base])
       PROVE  /\ functors'[Base][i].call = "destroyed"
              /\ functors'[Base][i].conn \notin m_mpConnection'
              /\ LiveState(conn'[functors'[Base][i].conn])
  <2>1. CASE i \in 1..Len(q)
    BY <1>5, <1>9, <1>12, <1>13, <1>14, <2>1
  <2>2. CASE i = Len(q) + 1
    BY <1>4, <1>5, <1>9, <1>12, <1>13, <1>15, <2>2
  <2> QED
    BY <1>12, <1>13, <2>1, <2>2
<1>17. ASSUME NEW i \in 1..Len(functors'[Base]), NEW j \in 1..Len(functors'[Base]),
              functors'[Base][i].conn = functors'[Base][j].conn
       PROVE  i = j
  <2>1. i \in 1..Len(q) \/ i = Len(q) + 1
    BY <1>12, <1>13
  <2>2. j \in 1..Len(q) \/ j = Len(q) + 1
    BY <1>12, <1>13
  <2>3. i \in 1..Len(q) /\ j \in 1..Len(q) => q[i].conn = q[j].conn
    BY <1>12, <1>13, <1>17
  <2>4. \A k, n \in 1..Len(q) : q[k].conn = q[n].conn => k = n
    BY <1>1 DEF RemovalInv, q
  <2> QED
    BY <1>12, <1>13, <1>14, <1>15, <1>17, <2>1, <2>2, <2>3, <2>4
<1>18. \A d \in m_mpConnection' : LiveState(conn'[d])
  BY <1>1, <1>5, <1>9, <1>11 DEF RemovalInv
<1>19. \A k \in Loops \ {Base} : functors'[k] = <<>>
  BY <1>1, <1>12 DEF RemovalInv
<1>20. RemovalInv'
  BY <1>16, <1>17, <1>18, <1>19 DEF RemovalInv, Live, LiveState
<1> QED
  BY <1>5, <1>10, <1>20

\* The functor is ConnectedDestroyed, on the connection's loop, and the last of that connection.
LEMMA OneLoopFunctor ==
    ASSUME ServerInv, OneLoop, failed = "no", OneLoopInv, NEW l \in Loops, RunFunctor(l)
    PROVE  failed' = "no" /\ RemovalInv' /\ RoundInv'
<1> DEFINE q == functors[Base]
           c == Head(q).conn
<1>1. TypeOK /\ RemovalInv /\ RoundInv /\ PlaceInv
  BY DEF OneLoopInv, ServerInv
<1>2. functors[l] # <<>>
  BY <1>1 DEF RunFunctor, TypeOK
<1>3. l = Base /\ at[Base] = "functors" /\ active[Base] = {} /\ q \in Seq(Functor) /\ q # <<>>
  BY <1>1, <1>2, OnlyBase, LoopsTypes DEF RunFunctor, PlaceInv, TypeOK
<1>4. /\ Len(q) \in Nat \ {0} /\ Len(Tail(q)) = Len(q) - 1 /\ Head(q) = q[1]
      /\ \A i \in 1..Len(Tail(q)) : i + 1 \in 1..Len(q) /\ Tail(q)[i] = q[i + 1]
  BY <1>3, TailElements
<1>5. \A i \in 1..Len(q) : q[i].conn \in Conn
  <2>1. \A i \in 1..Len(q) : q[i] \in Functor
    BY <1>3
  <2> QED
    BY <2>1 DEF Functor
<1>6. /\ Head(q).call = "destroyed" /\ c \in Conn /\ c \notin m_mpConnection /\ Live(c)
  BY <1>1, <1>4, <1>5 DEF RemovalInv
<1>7. RunDestroyed(Base, c, [functors EXCEPT ![Base] = Tail(@)])
  BY <1>3, <1>6 DEF RunFunctor
<1>8. /\ conn' = [conn EXCEPT ![c].m_eConnectState = "Disconnected",
                              ![c].m_pChannel = RemoveChannel(DisableAll(conn[c].m_pChannel))]
      /\ functors' = [functors EXCEPT ![Base] = Tail(@)]
      /\ m_mpConnection' = m_mpConnection
  BY <1>7 DEF RunDestroyed
<1>9. /\ batch' = [batch EXCEPT ![Base] = @ - 1] /\ at' = at /\ active' = active
  BY <1>3 DEF RunFunctor
<1>10. failed' = "no"
  <2>1. conn[c].m_pEventLoop = Base /\ conn[c].m_pChannel \in ChannelType
    BY <1>1, <1>6 DEF RoundInv, TypeOK, ConnType
  <2>2. CanRemove(DisableAll(conn[c].m_pChannel))
    BY <2>1 DEF CanRemove, DisableAll, UpdateChannel, IsNoneEvent, ChannelType
  <2> QED
    BY <1>6, <1>7, <2>1, <2>2 DEF RunDestroyed, Live
<1>11. \A d \in Conn : conn[d] \in ConnType
  BY <1>1 DEF TypeOK
<1>12. \A d \in Conn : d # c => conn'[d] = conn[d]
  BY <1>1, <1>8 DEF TypeOK
<1>13. \A d \in Conn : conn'[d].m_pEventLoop = Base
  <2>1. \A d \in Conn : conn'[d].m_pEventLoop = conn[d].m_pEventLoop
    BY <1>1, <1>6, <1>8, <1>11 DEF TypeOK, ConnType
  <2> QED
    BY <1>1, <2>1 DEF RoundInv
<1>14. functors'[Base] = Tail(q) /\ \A k \in Loops \ {Base} : functors'[k] = functors[k]
  BY <1>1, <1>8, LoopsTypes DEF TypeOK
<1>15. batch'[Base] = batch[Base] - 1
  BY <1>1, <1>9, LoopsTypes DEF TypeOK
<1>16. RoundInv'
  BY <1>1, <1>3, <1>4, <1>9, <1>13, <1>14, <1>15 DEF RoundInv
<1>17. \A i, j \in 1..Len(q) : q[i].conn = q[j].conn => i = j
  BY <1>1 DEF RemovalInv
<1>18. \A d \in m_mpConnection' : LiveState(conn'[d])
  BY <1>1, <1>6, <1>8, <1>12 DEF RemovalInv, Live, LiveState, TypeOK
<1>19. ASSUME NEW i \in 1..Len(Tail(q))
       PROVE  /\ Tail(q)[i].call = "destroyed" /\ Tail(q)[i].conn \notin m_mpConnection'
              /\ LiveState(conn'[Tail(q)[i].conn])
  <2>1. i + 1 \in 1..Len(q) /\ Tail(q)[i] = q[i + 1] /\ i + 1 # 1 /\ 1 \in 1..Len(q)
    BY <1>4
  <2>2. q[i + 1].conn # c /\ q[i + 1].conn \in Conn
    BY <1>4, <1>5, <1>17, <2>1
  <2>3. q[i + 1].call = "destroyed" /\ q[i + 1].conn \notin m_mpConnection /\ Live(q[i + 1].conn)
    BY <1>1, <2>1 DEF RemovalInv
  <2> QED
    BY <1>8, <1>12, <2>1, <2>2, <2>3 DEF Live, LiveState
<1>20. ASSUME NEW i \in 1..Len(Tail(q)), NEW j \in 1..Len(Tail(q)),
              Tail(q)[i].conn = Tail(q)[j].conn
       PROVE  i = j
  <2>1. i + 1 = j + 1
    BY <1>4, <1>17, <1>20
  <2> QED
    BY <1>4, <2>1
<1>21. \A k \in Loops \ {Base} : functors'[k] = <<>>
  BY <1>1, <1>14 DEF RemovalInv
<1> HIDE DEF q, c
<1>22. RemovalInv'
  BY <1>14, <1>18, <1>19, <1>20, <1>21 DEF RemovalInv, Live, LiveState
<1> QED
  BY <1>10, <1>16, <1>22

\* With one loop no assertion about the life of a connection fails: neither about its state when it
\* is closed or destroyed, nor about its place in the map, nor about its channel.
THEOREM OneLoopAssertionsHold == Spec => []NoAssertionFails
<1>1. Init => OneLoopInv
  <2> SUFFICES ASSUME Init PROVE failed = "no" /\ RemovalInv /\ RoundInv
    BY DEF OneLoopInv
  <2>1. /\ \A l \in Loops : functors[l] = <<>> /\ active[l] = {} /\ batch[l] = 0 /\ at[l] = "functors"
        /\ \A c \in Conn : conn[c].m_pEventLoop = Base
        /\ m_mpConnection = {} /\ failed = "no" /\ Len(functors[Base]) = 0
    BY LoopsTypes DEF Init, NoConn
  <2>2. RemovalInv
    BY <2>1, LoopsTypes DEF RemovalInv
  <2>3. RoundInv
    BY <2>1, LoopsTypes DEF RoundInv
  <2> QED
    BY <2>1, <2>2, <2>3
<1>2. ServerInv /\ OneLoopInv /\ [Next]_vars => OneLoopInv'
  <2> SUFFICES ASSUME ServerInv, OneLoopInv, [Next]_vars PROVE OneLoopInv'
    OBVIOUS
  <2>1. CASE UNCHANGED vars
    BY <2>1 DEF vars, serverVars, OneLoopInv, OneLoop, RemovalInv, RoundInv, Live
  <2>2. CASE Next
    <3> SUFFICES ASSUME OneLoop'
                 PROVE  failed' \in {"no", "accept"} /\ (failed' = "no" => RemovalInv' /\ RoundInv')
      BY DEF OneLoopInv
    <3>1. OneLoop /\ failed = "no"
      BY <2>2, OneLoopStays DEF Next
    <3>2. CASE AcceptFails
      BY <3>2 DEF AcceptFails
    <3>3. ASSUME NEW c \in Conn, SendBlocks(c) \/ ShutDown(c)
          PROVE  failed' = "no" /\ RemovalInv' /\ RoundInv'
      BY <3>1, <3>3, OneLoopCallBack, LoopsTypes
    <3>4. ASSUME NEW l \in Loops, LoopStep(l)
          PROVE  failed' = "no" /\ RemovalInv' /\ RoundInv'
      BY <3>1, <3>4, OneLoopRound, OneLoopFunctor, OneLoopClosed, OneLoopCallBack DEF LoopStep
    <3> QED
      BY <2>2, <3>1, <3>2, <3>3, <3>4, OneLoopAccept DEF Next
  <2> QED
    BY <2>1, <2>2
<1>3. OneLoopInv => NoAssertionFails
  BY DEF OneLoopInv, OneLoop, NoAssertionFails
<1> QED
  BY <1>1, <1>2, <1>3, ServerInduction, PTL DEF Spec
=============================================================================
