--------------------------- MODULE TcpClientProofs --------------------------
(***************************************************************************)
(* Proofs about TcpClient, for any number of connections and of calls of     *)
(* Connect: its type invariant, that there is one attempt at a time, that     *)
(* callbacks find the client, and that every descriptor has an owner.        *)
(***************************************************************************)
EXTENDS TcpClient, FiniteSetTheorems, TLAPS

\* The assertions that never fail.
NoneFails == failed \notin {"channel", "reset", "error", "write", "remove", "destroyed"}

\* The inductive invariant.  A failed assertion ends the process, so what the next step needs
\* holds while none has failed.
Kept == ConnectorInv /\ EventInv /\ ResetInv /\ ConnectionInv /\ GoneInv /\ DescriptorsOwned
Good == TypeOK /\ NoneFails /\ CallBacksFindClient /\ (failed = "no" => Kept)

ConnectorType ==
    [m_bConnect : BOOLEAN, m_eConnectState : {"Disconnected", "Connecting", "Connected"},
     m_pChannel : ChannelType \union {NoChannel}, m_nRetryDelayMs : InitRetryDelay..MaxRetryDelay,
     timers : Nat, attempt : {"none", "pending", "done", "error"}, retried : BOOLEAN,
     open : Nat, lost : Nat, failed : {"no"}]

-----------------------------------------------------------------------------
(* The operators                                                            *)

\* The channel of an attempt: registered, then removed, then deleted.
LEMMA ChannelFacts ==
    /\ EnableWriting(NewChannel) \in ChannelType /\ Watched(EnableWriting(NewChannel))
    /\ EnableWriting(NewChannel) # NoChannel /\ EnableWriting(NewChannel) # Removed
    /\ RemoveChannel(DisableAll(EnableWriting(NewChannel))) = Removed
    /\ Removed \in ChannelType /\ ~Watched(Removed) /\ Removed # NoChannel
    /\ ~Watched(NoChannel)
<1> USE DEF ChannelType
<1>1. NewChannel \in ChannelType /\ NewChannel.m_nIndex = "NEW" /\ NewChannel.m_nEvents = {}
  BY DEF NewChannel
<1>2. PICK c : c = [NewChannel EXCEPT !.m_nEvents = @ \union {"write"}]
  OBVIOUS
<1>3. c \in ChannelType /\ c.m_nIndex = "NEW" /\ c.m_nEvents # {}
  BY <1>1, <1>2
<1>4. PICK d : d = EnableWriting(NewChannel)
  OBVIOUS
<1>5. d \in ChannelType /\ d.m_nIndex = "ADDED"
  BY <1>2, <1>3, <1>4 DEF EnableWriting, UpdateChannel
<1>6. PICK e : e = [d EXCEPT !.m_nEvents = {}]
  OBVIOUS
<1>7. e \in ChannelType /\ e.m_nEvents = {}
  BY <1>5, <1>6
<1>8. DisableAll(d) \in ChannelType /\ DisableAll(d).m_nEvents = {}
  BY <1>6, <1>7 DEF DisableAll, UpdateChannel
<1>9. RemoveChannel(DisableAll(d)) = Removed
  BY <1>8 DEF RemoveChannel, Removed, NewChannel
<1>10. NoChannel.m_nIndex = "NULL"
  BY DEF NoChannel
<1> QED
  BY <1>1, <1>4, <1>5, <1>9, <1>10 DEF Removed, Watched

\* The retry delay stays between its limits.
LEMMA DelayBounded ==
    ASSUME NEW d \in InitRetryDelay..MaxRetryDelay
    PROVE  Doubled(d) \in InitRetryDelay..MaxRetryDelay
  BY DelayAssumption DEF Doubled

LEMMA ConnectorTyped ==
    ASSUME TypeOK, failed = "no" PROVE Connector \in ConnectorType
<1>1. timers \in Nat /\ open \in Nat /\ lost \in Nat
  BY DEF TypeOK
<1>2. m_bConnect \in BOOLEAN /\ retried \in BOOLEAN
  BY DEF TypeOK
<1>3. /\ m_eConnectState \in {"Disconnected", "Connecting", "Connected"}
      /\ m_pChannel \in ChannelType \union {NoChannel}
      /\ m_nRetryDelayMs \in InitRetryDelay..MaxRetryDelay
      /\ attempt \in {"none", "pending", "done", "error"}
  BY DEF TypeOK
<1> QED
  BY <1>1, <1>2, <1>3 DEF Connector, ConnectorType

\* What retry changes.
LEMMA RetryEffect ==
    ASSUME NEW k \in ConnectorType, Becomes(retry(k))
    PROVE  /\ m_eConnectState' = "Connected" /\ open' = k.open - 1
           /\ timers' = IF k.m_bConnect THEN k.timers + 1 ELSE k.timers
           /\ m_bConnect' = k.m_bConnect /\ m_pChannel' = k.m_pChannel /\ attempt' = k.attempt
           /\ lost' = k.lost /\ failed' = k.failed /\ UNCHANGED connector
           /\ retried' \in BOOLEAN /\ m_nRetryDelayMs' \in InitRetryDelay..MaxRetryDelay
           /\ retried' \/ (~k.retried /\ timers' = k.timers)
<1>1. /\ m_eConnectState' = "Connected" /\ open' = k.open - 1
      /\ timers' = IF k.m_bConnect THEN k.timers + 1 ELSE k.timers
      /\ m_bConnect' = k.m_bConnect /\ m_pChannel' = k.m_pChannel /\ attempt' = k.attempt
      /\ lost' = k.lost /\ failed' = k.failed /\ UNCHANGED connector
  BY DEF Becomes, retry, ConnectorType
<1>2. retried' = (k.retried \/ k.m_bConnect)
  BY DEF Becomes, retry, ConnectorType
<1>3. m_nRetryDelayMs' = IF k.m_bConnect THEN Doubled(k.m_nRetryDelayMs) ELSE k.m_nRetryDelayMs
  BY DEF Becomes, retry, ConnectorType
<1>4. /\ k.m_nRetryDelayMs \in InitRetryDelay..MaxRetryDelay
      /\ k.retried \in BOOLEAN /\ k.m_bConnect \in BOOLEAN
  BY DEF ConnectorType
<1> QED
  BY <1>1, <1>2, <1>3, <1>4, DelayBounded

\* What a call of startInLoop changes: it fails, does nothing, begins an attempt or sets the timer.
LEMMA StartEffect ==
    ASSUME NEW k \in ConnectorType, NEW r \in startInLoop(k), Becomes(r)
    PROVE  /\ m_bConnect' = k.m_bConnect /\ lost' = k.lost /\ UNCHANGED connector
           /\ retried' \in BOOLEAN /\ m_nRetryDelayMs' \in InitRetryDelay..MaxRetryDelay
           /\ retried' \/ (~k.retried /\ timers' = k.timers)
           /\ \/ /\ \/ k.m_eConnectState # "Disconnected" /\ failed' = "start"
                    \/ k.m_eConnectState = "Disconnected" /\ failed' = k.failed
                 /\ m_eConnectState' = k.m_eConnectState /\ m_pChannel' = k.m_pChannel
                 /\ timers' = k.timers /\ attempt' = k.attempt /\ open' = k.open
              \/ /\ k.m_eConnectState = "Disconnected" /\ m_eConnectState' = "Connecting"
                 /\ m_pChannel' = EnableWriting(NewChannel) /\ attempt' = "pending"
                 /\ failed' = IF k.m_pChannel = NoChannel THEN k.failed ELSE "channel"
                 /\ timers' = k.timers /\ open' = k.open + 1
              \/ /\ k.m_eConnectState = "Disconnected" /\ m_eConnectState' = "Connected"
                 /\ timers' = IF k.m_bConnect THEN k.timers + 1 ELSE k.timers
                 /\ m_pChannel' = k.m_pChannel /\ attempt' = k.attempt /\ open' = k.open
                 /\ failed' = k.failed
<1>1. PICK o : o = [k EXCEPT !.open = @ + 1]
  OBVIOUS
<1>2. o \in ConnectorType /\ o.open = k.open + 1 /\ o.open - 1 = k.open
  BY <1>1 DEF ConnectorType
<1>3. /\ o.m_bConnect = k.m_bConnect /\ o.lost = k.lost /\ o.m_pChannel = k.m_pChannel
      /\ o.timers = k.timers /\ o.attempt = k.attempt /\ o.failed = k.failed
      /\ o.retried = k.retried /\ o.m_nRetryDelayMs = k.m_nRetryDelayMs
  BY <1>1 DEF ConnectorType
<1>4. \/ k.m_eConnectState # "Disconnected" /\ r = [k EXCEPT !.failed = "start"]
      \/ k.m_eConnectState = "Disconnected" /\ r \in {k, connecting(o), retry(o)}
  BY <1>1 DEF startInLoop, connect
<1>5. CASE k.m_eConnectState # "Disconnected" /\ r = [k EXCEPT !.failed = "start"]
  <2>1. retried' = k.retried /\ k.retried \in BOOLEAN
    BY <1>5 DEF Becomes, ConnectorType
  <2> QED
    BY <1>5, <2>1 DEF Becomes, ConnectorType
<1>6. CASE k.m_eConnectState = "Disconnected" /\ r = k
  <2>1. retried' = k.retried /\ k.retried \in BOOLEAN
    BY <1>6 DEF Becomes, ConnectorType
  <2> QED
    BY <1>6, <2>1 DEF Becomes, ConnectorType
<1>7. CASE k.m_eConnectState = "Disconnected" /\ r = connecting(o)
  <2>1. /\ m_eConnectState' = "Connecting" /\ attempt' = "pending"
        /\ m_pChannel' = EnableWriting(NewChannel) /\ m_bConnect' = o.m_bConnect
        /\ failed' = IF o.m_pChannel = NoChannel THEN o.failed ELSE "channel"
        /\ timers' = o.timers /\ open' = o.open /\ lost' = o.lost /\ retried' = o.retried
        /\ m_nRetryDelayMs' = o.m_nRetryDelayMs /\ UNCHANGED connector
    BY <1>2, <1>7 DEF Becomes, connecting, ConnectorType
  <2>2. o.retried \in BOOLEAN /\ o.m_nRetryDelayMs \in InitRetryDelay..MaxRetryDelay
    BY <1>2 DEF ConnectorType
  <2> QED
    BY <1>2, <1>3, <1>7, <2>1, <2>2
<1>8. CASE k.m_eConnectState = "Disconnected" /\ r = retry(o)
  BY <1>2, <1>3, <1>8, RetryEffect
<1> QED
  BY <1>4, <1>5, <1>6, <1>7, <1>8

-----------------------------------------------------------------------------
(* Calls, and steps of the kernel and the peers                             *)

Structure == ConnectorInv /\ EventInv /\ ResetInv /\ ConnectionInv /\ DescriptorsOwned

\* A step that touches neither the attempt, the queue, the round nor which connections live.
LEMMA Frame ==
    ASSUME Good, failed = "no",
           UNCHANGED <<m_pTcpConnection, m_nNextConnId, m_eConnectState, m_pChannel, timers, lost,
                       open, functors, batch, at, revents, active>>,
           attempt' = "done" => attempt = "done" \/ m_nNextConnId <= MaxConn,
           \A c \in Conn : /\ conn'[c].watched = conn[c].watched
                           /\ Alive(c)' <=> Alive(c)
                           /\ conn'[c].m_eConnectState = "None" => conn[c].m_eConnectState = "None"
                           /\ conn[c] = NoConn => conn'[c] = NoConn,
           \A c \in closed' : c \in Conn /\ conn[c].m_eConnectState # "None"
    PROVE  Structure'
<1> USE DEF Good, Kept
<1>1. ConnectorInv' /\ EventInv' /\ ResetInv'
  BY DEF ConnectorInv, EventInv, ResetInv
<1>2. ConnectionInv'
  <2>1. active \subseteq Conn /\ m_pTcpConnection \in Conn \union {NULL}
    BY DEF TypeOK
  <2>2. \A c \in closed' \union ({m_pTcpConnection} \ {NULL}) : conn'[c].m_eConnectState # "None"
    BY <2>1 DEF ConnectionInv
  <2>3. \A i \in 1..Len(functors) : functors[i].call = "destroyed" =>
          LET c == functors[i].conn IN c \in Conn /\ Alive(c)' /\ ~conn'[c].watched
    BY DEF ConnectionInv
  <2> QED
    BY <2>1, <2>2, <2>3 DEF ConnectionInv
<1>3. DescriptorsOwned'
  <2>1. {c \in Conn : Alive(c)}' = {c \in Conn : Alive(c)}
    OBVIOUS
  <2> QED
    BY <2>1 DEF DescriptorsOwned
<1> QED
  BY <1>1, <1>2, <1>3 DEF Structure

\* ShutDown changes the state of a live connection only.
LEMMA ShutDownFrame ==
    ASSUME TypeOK, ShutDown
    PROVE  /\ conn' \in [Conn -> ConnType]
           /\ \A c \in Conn : /\ conn'[c].watched = conn[c].watched
                              /\ Alive(c)' <=> Alive(c)
                              /\ conn'[c].m_eConnectState = "None" => conn[c].m_eConnectState = "None"
                              /\ conn[c] = NoConn => conn'[c] = NoConn
                              /\ conn'[c].m_CloseCallBack = conn[c].m_CloseCallBack
<1>1. conn \in [Conn -> ConnType]
  BY DEF TypeOK
<1>2. ASSUME NEW c \in Conn
      PROVE  /\ conn'[c] \in ConnType /\ conn'[c].watched = conn[c].watched
             /\ conn'[c].m_CloseCallBack = conn[c].m_CloseCallBack
             /\ conn'[c].m_eConnectState = "None" => conn[c].m_eConnectState = "None"
             /\ Alive(c)' <=> Alive(c)
             /\ conn[c] = NoConn => conn'[c] = NoConn
  <2>1. conn[c] \in ConnType /\ NoConn.m_eConnectState = "None"
    BY <1>1 DEF NoConn
  <2>2. CASE c = m_pTcpConnection /\ conn[c].m_eConnectState = "Connected"
    <3>1. conn'[c] = [conn[c] EXCEPT !.m_eConnectState = "Disconnecting"]
      BY <2>2 DEF ShutDown
    <3> QED
      BY <2>1, <2>2, <3>1 DEF ConnType, Alive
  <2>3. CASE ~(c = m_pTcpConnection /\ conn[c].m_eConnectState = "Connected")
    <3>1. conn'[c] = conn[c]
      BY <2>3 DEF ShutDown
    <3> QED
      BY <2>1, <3>1 DEF Alive
  <2> QED
    BY <2>2, <2>3
<1>3. conn' = [c \in Conn |-> conn'[c]]
  BY DEF ShutDown
<1>4. conn' \in [Conn -> ConnType]
  BY <1>2, <1>3
<1> QED
  BY <1>2, <1>4

\* The calls of callbacks and of the user that only set flags, or shut the connection down.
LEMMA FlagCalls ==
    ASSUME Good, failed = "no", LoopStop \/ LoopDisConnect \/ EnableRetry \/ UserShutDown
    PROVE  Good'
<1> USE DEF Good, Kept, loopVars, connectorVars
<1>1. /\ UNCHANGED <<m_pTcpConnection, m_nNextConnId, m_eConnectState, m_pChannel, timers, lost,
                     open, functors, batch, at, revents, active, closed, attempt, client, connector>>
      /\ UNCHANGED <<m_nRetryDelayMs, retried, starts, failed>>
  BY ConnectorTyped DEF LoopStop, LoopDisConnect, EnableRetry, UserShutDown, Becomes, Connector
<1>2. /\ conn' \in [Conn -> ConnType]
      /\ \A c \in Conn : /\ conn'[c].watched = conn[c].watched
                         /\ Alive(c)' <=> Alive(c)
                         /\ conn'[c].m_eConnectState = "None" => conn[c].m_eConnectState = "None"
                         /\ conn[c] = NoConn => conn'[c] = NoConn
                         /\ conn'[c].m_CloseCallBack = conn[c].m_CloseCallBack
  <2>1. CASE ShutDown
    BY <2>1, ShutDownFrame
  <2>2. CASE UNCHANGED conn
    BY <2>2 DEF TypeOK, Alive
  <2> QED
    BY <2>1, <2>2 DEF LoopStop, LoopDisConnect, EnableRetry, UserShutDown
<1>3. /\ m_bConnect' \in BOOLEAN /\ (m_bConnect' => m_bConnect)
      /\ clientConnect' \in BOOLEAN /\ m_bRetry' \in BOOLEAN
      /\ userAt' \in {"idle", userAt}
  <2>1. m_bConnect' \in {m_bConnect, FALSE}
    BY DEF LoopStop, LoopDisConnect, EnableRetry, UserShutDown, Becomes, Connector
  <2>2. clientConnect' \in {clientConnect, FALSE} /\ m_bRetry' \in {m_bRetry, TRUE}
    BY DEF LoopStop, LoopDisConnect, EnableRetry, UserShutDown
  <2>3. userAt' \in {"idle", userAt}
    BY DEF LoopStop, LoopDisConnect, EnableRetry, UserShutDown
  <2>4. m_bConnect \in BOOLEAN /\ clientConnect \in BOOLEAN /\ m_bRetry \in BOOLEAN
    BY DEF TypeOK
  <2>5. m_bConnect' \in BOOLEAN /\ clientConnect' \in BOOLEAN /\ m_bRetry' \in BOOLEAN
    BY <2>1, <2>2, <2>4
  <2>6. m_bConnect' => m_bConnect
    BY <2>1, <2>4
  <2> QED
    BY <2>3, <2>5, <2>6
<1>4. TypeOK'
  BY <1>1, <1>2, <1>3 DEF TypeOK
<1>5. GoneInv'
  BY <1>1, <1>2, <1>3 DEF GoneInv, TypeOK
<1>6. \A c \in closed' : c \in Conn /\ conn[c].m_eConnectState # "None"
  BY <1>1 DEF ConnectionInv, TypeOK
<1>7. Structure'
  BY <1>1, <1>2, <1>6, Frame
<1> QED
  BY <1>1, <1>4, <1>5, <1>7 DEF Structure, NoneFails, CallBacksFindClient

\* The user's calls, whose client is not destroyed meanwhile.
LEMMA UserCalls ==
    ASSUME Good, failed = "no", UserConnect \/ UserStop \/ UserDisConnect \/ UserStore
    PROVE  Good'
<1> USE DEF Good, Kept, loopVars, connectorVars, clientVars
<1>1. /\ UNCHANGED <<m_pTcpConnection, m_nNextConnId, m_eConnectState, m_pChannel, timers, lost,
                     open, functors, batch, at, revents, active, closed, attempt, client, connector>>
      /\ UNCHANGED <<m_nRetryDelayMs, retried, failed, conn, m_bRetry>>
  BY DEF UserConnect, UserStop, UserDisConnect, UserCall, UserStore, Becomes, Connector
<1>2. /\ clientConnect' \in BOOLEAN /\ starts' \in 0..MaxStarts
      /\ userAt' \in {"idle", "start", "queue", "stop", "shutdown"}
  <2>1. starts' \in 0..MaxStarts
    <3>1. starts \in 0..MaxStarts /\ MaxStarts \in Nat
      BY BoundAssumption DEF TypeOK
    <3>2. starts' = starts \/ (starts < MaxStarts /\ starts' = starts + 1)
      BY DEF UserConnect, UserStop, UserDisConnect, UserStore
    <3> QED
      BY <3>1, <3>2
  <2>2. userAt' \in {"idle", "start", "queue", "stop", "shutdown"}
    BY DEF UserConnect, UserStop, UserDisConnect, UserCall, UserStore
  <2>3. clientConnect' \in {clientConnect, FALSE, TRUE} /\ clientConnect \in BOOLEAN
    BY DEF TypeOK, UserConnect, UserStop, UserDisConnect, UserCall, UserStore
  <2> QED
    BY <2>1, <2>2, <2>3
<1>3. m_bConnect' \in BOOLEAN
  BY DEF TypeOK, UserConnect, UserStop, UserDisConnect, UserCall, UserStore, Becomes, Connector
<1>4. client = "alive"
  BY DEF UserConnect, UserStop, UserDisConnect, UserCall, UserStore, GoneInv, TypeOK
<1>5. TypeOK'
  BY <1>1, <1>2, <1>3 DEF TypeOK
<1>6. GoneInv'
  BY <1>1, <1>4 DEF GoneInv
<1>7. \A c \in Conn : /\ conn'[c].watched = conn[c].watched
                      /\ Alive(c)' <=> Alive(c)
                      /\ conn'[c].m_eConnectState = "None" => conn[c].m_eConnectState = "None"
                      /\ conn[c] = NoConn => conn'[c] = NoConn
  BY <1>1 DEF Alive
<1>8. \A c \in closed' : c \in Conn /\ conn[c].m_eConnectState # "None"
  BY <1>1 DEF ConnectionInv, TypeOK
<1>9. Structure'
  BY <1>1, <1>7, <1>8, Frame
<1> QED
  BY <1>1, <1>5, <1>6, <1>9 DEF Structure, NoneFails, CallBacksFindClient

\* What the kernel makes of an attempt, and a peer that closes.
LEMMA Outside ==
    ASSUME Good, failed = "no",
           \/ \E result \in {"done", "error"} : AttemptEnds(result)
           \/ \E c \in Conn : PeerCloses(c)
    PROVE  Good'
<1> USE DEF Good, Kept, loopVars, connectorVars, clientVars
<1>1. /\ UNCHANGED <<m_pTcpConnection, m_nNextConnId, m_eConnectState, m_pChannel, timers, lost,
                     open, functors, batch, at, revents, active, client, connector>>
      /\ UNCHANGED <<m_nRetryDelayMs, retried, failed, conn, m_bRetry, clientConnect, m_bConnect,
                     userAt, starts>>
  BY DEF AttemptEnds, PeerCloses
<1>2. /\ attempt' \in {"none", "pending", "done", "error"}
      /\ attempt' = "done" => attempt = "done" \/ m_nNextConnId <= MaxConn
  BY DEF TypeOK, AttemptEnds, PeerCloses
<1>3. closed' \subseteq Conn /\ \A c \in closed' : c \in Conn /\ conn[c].m_eConnectState # "None"
  BY DEF TypeOK, ConnectionInv, AttemptEnds, PeerCloses
<1>4. TypeOK'
  BY <1>1, <1>2, <1>3 DEF TypeOK
<1>5. GoneInv'
  BY <1>1 DEF GoneInv
<1>6. \A c \in Conn : /\ conn'[c].watched = conn[c].watched
                      /\ Alive(c)' <=> Alive(c)
                      /\ conn'[c].m_eConnectState = "None" => conn[c].m_eConnectState = "None"
                      /\ conn[c] = NoConn => conn'[c] = NoConn
  BY <1>1 DEF Alive
<1>7. Structure'
  BY <1>1, <1>2, <1>3, <1>6, Frame
<1> QED
  BY <1>1, <1>4, <1>5, <1>7 DEF Structure, NoneFails, CallBacksFindClient

\* The destruction of the client, and of the Connector it left to a timer.
LEMMA Destruction ==
    ASSUME Good, failed = "no", Destroy \/ (at = "handle" /\ KeepTimer)
    PROVE  Good'
<1> USE DEF Good, Kept, loopVars, clientVars
<1>1. /\ UNCHANGED <<m_pTcpConnection, m_nNextConnId, m_eConnectState, m_pChannel, timers, lost,
                     open, functors, batch, at, revents, active, closed, attempt>>
      /\ UNCHANGED <<m_nRetryDelayMs, retried, starts, userAt, clientConnect, m_bRetry>>
  BY DEF Destroy, KeepTimer
<1>2. failed' \in {"no", "connector", "connection"}
  BY DEF Destroy, KeepTimer
<1>3. m_pTcpConnection \in Conn \union {NULL} /\ conn \in [Conn -> ConnType]
  BY DEF TypeOK
<1>4. /\ conn' \in [Conn -> ConnType]
      /\ \A c \in Conn : /\ conn'[c].watched = conn[c].watched
                         /\ Alive(c)' <=> Alive(c)
                         /\ conn'[c].m_eConnectState = "None" => conn[c].m_eConnectState = "None"
                         /\ conn[c] = NoConn => conn'[c] = NoConn
  <2>1. CASE Destroy /\ m_pTcpConnection # NULL
    <3>1. /\ m_pTcpConnection \in Conn /\ conn[m_pTcpConnection] \in ConnType
          /\ conn' = [conn EXCEPT ![m_pTcpConnection].m_CloseCallBack = "detail"]
      BY <1>3, <2>1 DEF Destroy
    <3>2. /\ conn'[m_pTcpConnection] \in ConnType
          /\ conn'[m_pTcpConnection].watched = conn[m_pTcpConnection].watched
          /\ conn'[m_pTcpConnection].m_eConnectState = conn[m_pTcpConnection].m_eConnectState
      BY <1>3, <3>1 DEF ConnType
    <3>3. \A c \in Conn : c # m_pTcpConnection => conn'[c] = conn[c]
      BY <1>3, <3>1
    <3>4. conn[m_pTcpConnection] # NoConn
      BY <2>1 DEF ConnectionInv, NoConn
    <3>5. conn' \in [Conn -> ConnType]
      BY <1>3, <3>1, <3>2
    <3> QED
      BY <3>2, <3>3, <3>4, <3>5 DEF Alive
  <2>2. CASE UNCHANGED conn
    BY <1>3, <2>2 DEF Alive
  <2> QED
    BY <2>1, <2>2 DEF Destroy, KeepTimer
<1>5. /\ m_bConnect' \in BOOLEAN
      /\ client' \in {"alive", "gone"} /\ connector' \in {"alive", "kept", "gone"}
  BY DEF TypeOK, Destroy, KeepTimer
<1>6. TypeOK'
  BY <1>1, <1>4, <1>5 DEF TypeOK
<1>7. GoneInv'
  <2>1. CASE Destroy /\ m_pTcpConnection = NULL
    BY <2>1, <1>1 DEF Destroy, GoneInv
  <2>2. CASE Destroy /\ m_pTcpConnection # NULL
    <3>1. conn' = [conn EXCEPT ![m_pTcpConnection].m_CloseCallBack = "detail"] /\ userAt = "idle"
      BY <2>2 DEF Destroy
    <3>2. conn'[m_pTcpConnection].m_CloseCallBack = "detail"
      BY <1>3, <2>2, <3>1 DEF ConnType
    <3> QED
      BY <1>1, <2>2, <3>1, <3>2 DEF GoneInv
  <2>3. CASE KeepTimer
    BY <2>3 DEF KeepTimer, GoneInv
  <2> QED
    BY <2>1, <2>2, <2>3
<1>8. \A c \in closed' : c \in Conn /\ conn[c].m_eConnectState # "None"
  BY <1>1 DEF ConnectionInv, TypeOK
<1>9. Structure'
  BY <1>1, <1>4, <1>8, Frame
<1> QED
  BY <1>2, <1>6, <1>7, <1>9 DEF Structure, NoneFails, CallBacksFindClient

-----------------------------------------------------------------------------
(* The queue and the round                                                  *)

Functor == [call : {"start", "reset", "destroyed"}, conn : Conn \union {NULL}]

\* What a functor appended to the queue leaves as it was.
LEMMA Appended ==
    ASSUME TypeOK, NEW f \in Functor, functors' = Append(functors, f)
    PROVE  /\ functors' \in Seq(Functor) /\ Len(functors) \in Nat /\ Len(functors') = Len(functors) + 1
           /\ \A i \in 1..Len(functors) : functors'[i] = functors[i]
           /\ functors'[Len(functors) + 1] = f /\ batch \in 0..Len(functors')
           /\ \A i \in 1..Len(functors') : i \in 1..Len(functors) \/ i = Len(functors) + 1
           /\ \A i \in 1..Len(functors) : i \in 1..Len(functors') /\ i # Len(functors) + 1
<1>1. functors \in Seq(Functor) /\ Len(functors) \in Nat /\ batch \in 0..Len(functors)
  BY DEF TypeOK, Functor
<1>2. /\ functors' \in Seq(Functor) /\ Len(functors') = Len(functors) + 1
      /\ \A i \in 1..Len(functors) : functors'[i] = functors[i]
      /\ functors'[Len(functors) + 1] = f
  BY <1>1
<1> QED
  BY <1>1, <1>2

\* The user's startInLoop is queued.
LEMMA UserQueues ==
    ASSUME Good, failed = "no", UserQueue
    PROVE  Good'
<1> USE DEF Good, Kept, connectorVars, clientVars
<1>1. /\ UNCHANGED <<m_pTcpConnection, m_nNextConnId, m_eConnectState, m_pChannel, timers, lost,
                     open, batch, at, revents, active, closed, attempt, conn, client, connector>>
      /\ UNCHANGED <<m_nRetryDelayMs, retried, starts, clientConnect, m_bRetry, m_bConnect, failed>>
      /\ userAt' = "idle" /\ functors' = Append(functors, Call("start"))
  BY DEF UserQueue
<1>2. Call("start") \in Functor /\ Call("start").call = "start"
  BY DEF Call, Functor
<1>3. /\ functors' \in Seq(Functor) /\ Len(functors) \in Nat /\ Len(functors') = Len(functors) + 1
      /\ \A i \in 1..Len(functors) : functors'[i] = functors[i]
      /\ functors'[Len(functors) + 1] = Call("start") /\ batch \in 0..Len(functors')
      /\ \A i \in 1..Len(functors') : i \in 1..Len(functors) \/ i = Len(functors) + 1
      /\ \A i \in 1..Len(functors) : i \in 1..Len(functors') /\ i # Len(functors) + 1
  BY <1>1, <1>2, Appended
<1>4. TypeOK'
  BY <1>1, <1>3 DEF TypeOK, Functor
<1>5. ConnectorInv' /\ EventInv' /\ GoneInv'
  BY <1>1 DEF ConnectorInv, EventInv, GoneInv
<1>6. ResetInv'
  BY <1>1, <1>2, <1>3 DEF ResetInv
<1>7. ConnectionInv'
  <2>1. ASSUME NEW i \in 1..Len(functors'), functors'[i].call = "destroyed"
        PROVE  i \in 1..Len(functors) /\ functors'[i] = functors[i]
    BY <1>2, <1>3, <2>1
  <2>2. \A c \in Conn : Alive(c)' <=> Alive(c)
    BY <1>1 DEF Alive
  <2>3. \A i \in 1..Len(functors') : functors'[i].call = "destroyed" =>
          /\ functors'[i].conn \in Conn /\ Alive(functors'[i].conn) /\ ~conn[functors'[i].conn].watched
    BY <2>1 DEF ConnectionInv
  <2>4. \A i, j \in 1..Len(functors') :
          functors'[i].call = "destroyed" /\ functors'[i] = functors'[j] => i = j
    BY <2>1 DEF ConnectionInv
  <2> QED
    BY <1>1, <2>2, <2>3, <2>4 DEF ConnectionInv
<1>8. DescriptorsOwned'
  BY <1>1 DEF DescriptorsOwned, Alive
<1> QED
  BY <1>1, <1>4, <1>5, <1>6, <1>7, <1>8 DEF NoneFails, CallBacksFindClient

\* The steps of a round of the loop: poll, then the events, then the functors.
LEMMA Round ==
    ASSUME Good, failed = "no", Poll \/ BeginFunctors \/ EndFunctors
    PROVE  Good'
<1> USE DEF Good, Kept, connectorVars, clientVars
<1>1. /\ UNCHANGED <<m_pTcpConnection, m_nNextConnId, m_eConnectState, m_pChannel, timers, lost,
                     open, functors, closed, attempt, conn, client, connector, userAt>>
      /\ UNCHANGED <<m_nRetryDelayMs, retried, starts, clientConnect, m_bRetry, m_bConnect, failed>>
  BY DEF Poll, BeginFunctors, EndFunctors
<1>2. /\ revents' \subseteq {"err", "out"} /\ active' \subseteq Conn
      /\ at' \in {"poll", "handle", "functors"}
      /\ \A c \in active' : conn[c].watched
  BY DEF TypeOK, ConnectionInv, Poll, Reported, BeginFunctors, EndFunctors
<1>3. Len(functors) \in Nat /\ batch' \in 0..Len(functors)
  BY DEF TypeOK, Poll, BeginFunctors, EndFunctors
<1>4. TypeOK'
  BY <1>1, <1>2, <1>3 DEF TypeOK
<1>5. ConnectorInv' /\ GoneInv'
  BY <1>1 DEF ConnectorInv, GoneInv
<1>6. EventInv'
  <2>1. CASE Poll
    <3>1. at' = "handle" /\ revents' \in {{}, Reported}
      BY <2>1 DEF Poll
    <3>2. ASSUME revents' # {}
          PROVE  Watched(m_pChannel) /\ revents' \in {{"out"}, {"err", "out"}}
      BY <3>1, <3>2 DEF Reported
    <3>3. Watched(m_pChannel) => m_eConnectState = "Connecting" /\ lost = 0
      BY ChannelFacts DEF ConnectorInv, TypeOK
    <3>4. m_eConnectState = "Connecting" => m_pTcpConnection = NULL
      BY DEF ConnectorInv
    <3> QED
      BY <1>1, <3>1, <3>2, <3>3, <3>4 DEF EventInv
  <2>2. CASE BeginFunctors \/ EndFunctors
    BY <2>2 DEF BeginFunctors, EndFunctors, EventInv
  <2> QED
    BY <2>1, <2>2
<1>7. ResetInv'
  <2>1. CASE Poll
    <3>1. at = "poll" /\ at' = "handle" /\ batch = 0 /\ batch' = 0
      BY <2>1 DEF Poll, ResetInv
    <3>2. \A i \in 1..Len(functors) : functors[i].call # "reset"
      BY <3>1 DEF ResetInv
    <3> QED
      BY <1>1, <3>1, <3>2 DEF ResetInv
  <2>2. CASE BeginFunctors
    <3>1. at' = "functors" /\ batch' = Len(functors) /\ active = {} /\ active' = {}
      BY <2>2 DEF BeginFunctors
    <3> QED
      BY <1>1, <1>3, <3>1 DEF ResetInv
  <2>3. CASE EndFunctors
    <3>1. at = "functors" /\ at' = "poll" /\ batch = 0 /\ batch' = 0 /\ UNCHANGED active
      BY <2>3 DEF EndFunctors
    <3>2. \A i \in 1..Len(functors) : functors[i].call # "reset"
      BY <1>3, <3>1 DEF ResetInv
    <3> QED
      BY <1>1, <3>1, <3>2 DEF ResetInv
  <2> QED
    BY <2>1, <2>2, <2>3
<1>8. ConnectionInv'
  <2>1. \A c \in Conn : Alive(c)' <=> Alive(c)
    BY <1>1 DEF Alive
  <2> QED
    BY <1>1, <1>2, <2>1 DEF ConnectionInv
<1>9. DescriptorsOwned'
  BY <1>1 DEF DescriptorsOwned, Alive
<1> QED
  BY <1>1, <1>4, <1>5, <1>6, <1>7, <1>8, <1>9 DEF NoneFails, CallBacksFindClient

-----------------------------------------------------------------------------
(* startInLoop                                                              *)

Sockets == {c \in Conn : Alive(c)}

LEMMA SocketsFinite == IsFiniteSet(Sockets) /\ Cardinality(Sockets) \in Nat
<1>1. IsFiniteSet(Conn)
  BY BoundAssumption, FS_Interval DEF Conn
<1> QED
  BY <1>1, FS_Subset, FS_CardinalityType DEF Sockets

\* A Connector without a channel, an event or a timer is what startInLoop finds when the state
\* is Disconnected, and what Restart makes of the one whose connection closed.
Clean == m_pChannel = NoChannel /\ lost = 0 /\ timers = 0 /\ revents = {}

LEMMA DisconnectedIsClean ==
    ASSUME Good, failed = "no", m_eConnectState = "Disconnected"
    PROVE  Clean /\ m_pTcpConnection = NULL
  BY DEF Good, Kept, Clean, ConnectorInv, EventInv, TypeOK

\* A call of startInLoop keeps what is said of the Connector, and finds no channel.
LEMMA Starts ==
    ASSUME Good, failed = "no", NEW k \in ConnectorType, NEW r \in startInLoop(k), Becomes(r),
           k.m_pChannel = m_pChannel, k.open = open, k.lost = lost, k.attempt = attempt,
           k.timers \in 0..1,
           k.m_eConnectState = "Disconnected" =>
               Clean /\ m_pTcpConnection' = NULL /\ m_eConnectState # "Connecting" /\ k.timers = 0,
           UNCHANGED <<m_nNextConnId, revents, at>>
    PROVE  /\ failed' \in {"no", "start"}
           /\ m_bConnect' \in BOOLEAN /\ m_eConnectState' \in {"Disconnected", "Connecting", "Connected"}
           /\ m_pChannel' \in ChannelType \union {NoChannel}
           /\ m_nRetryDelayMs' \in InitRetryDelay..MaxRetryDelay
           /\ attempt' \in {"none", "pending", "done", "error"} /\ timers' \in 0..1
           /\ retried' \in BOOLEAN /\ open' \in Nat /\ lost' = lost /\ m_bConnect' = k.m_bConnect
           /\ UNCHANGED connector
           /\ failed' = "no" =>
                /\ k.m_eConnectState = "Disconnected" /\ ConnectorInv' /\ EventInv'
                /\ m_pChannel' # Removed
                /\ Sockets' = Sockets => DescriptorsOwned'
<1> USE DEF Good, Kept
<1>1. k.failed = "no" /\ k.m_bConnect \in BOOLEAN /\ k.open \in Nat
  BY DEF ConnectorType
<1>2. /\ k.m_eConnectState \in {"Disconnected", "Connecting", "Connected"}
      /\ k.m_pChannel \in ChannelType \union {NoChannel}
      /\ k.attempt \in {"none", "pending", "done", "error"}
  BY DEF ConnectorType
<1>3. /\ m_bConnect' = k.m_bConnect /\ lost' = k.lost /\ UNCHANGED connector
      /\ retried' \in BOOLEAN /\ m_nRetryDelayMs' \in InitRetryDelay..MaxRetryDelay
      /\ \/ /\ \/ k.m_eConnectState # "Disconnected" /\ failed' = "start"
               \/ k.m_eConnectState = "Disconnected" /\ failed' = k.failed
            /\ m_eConnectState' = k.m_eConnectState /\ m_pChannel' = k.m_pChannel
            /\ timers' = k.timers /\ attempt' = k.attempt /\ open' = k.open
         \/ /\ k.m_eConnectState = "Disconnected" /\ m_eConnectState' = "Connecting"
            /\ m_pChannel' = EnableWriting(NewChannel) /\ attempt' = "pending"
            /\ failed' = IF k.m_pChannel = NoChannel THEN k.failed ELSE "channel"
            /\ timers' = k.timers /\ open' = k.open + 1
         \/ /\ k.m_eConnectState = "Disconnected" /\ m_eConnectState' = "Connected"
            /\ timers' = IF k.m_bConnect THEN k.timers + 1 ELSE k.timers
            /\ m_pChannel' = k.m_pChannel /\ attempt' = k.attempt /\ open' = k.open
            /\ failed' = k.failed
  BY StartEffect
<1>4. failed' \in {"no", "start"}
  BY <1>1, <1>3 DEF Clean
<1>5. /\ m_bConnect' \in BOOLEAN /\ m_eConnectState' \in {"Disconnected", "Connecting", "Connected"}
      /\ m_pChannel' \in ChannelType \union {NoChannel}
      /\ attempt' \in {"none", "pending", "done", "error"}
  BY <1>1, <1>2, <1>3, ChannelFacts
<1>6. timers' \in 0..1 /\ open' \in Nat
  BY <1>1, <1>3
<1>7. ASSUME failed' = "no"
      PROVE  /\ k.m_eConnectState = "Disconnected" /\ ConnectorInv' /\ EventInv'
             /\ m_pChannel' # Removed
             /\ Sockets' = Sockets => DescriptorsOwned'
  <2>1. k.m_eConnectState = "Disconnected"
    BY <1>3, <1>7
  <2>2. Clean /\ m_pTcpConnection' = NULL /\ m_eConnectState # "Connecting" /\ k.timers = 0
    BY <2>1
  <2>3. lost' = 0 /\ revents' = {} /\ NoChannel # Removed /\ NoChannel # EnableWriting(NewChannel)
    BY <1>3, <2>2, ChannelFacts DEF Clean
  <2>4. m_pChannel' # Removed /\ EventInv'
    BY <1>3, <2>1, <2>2, <2>3, ChannelFacts DEF Clean, EventInv
  <2>5. ConnectorInv'
    BY <1>1, <1>3, <2>1, <2>2, <2>3 DEF Clean, ConnectorInv
  <2>6. open = Cardinality(Sockets)
    <3>1. open = 0 + 0 + Cardinality(Sockets)
      BY <2>2 DEF DescriptorsOwned, Clean, Sockets
    <3> QED
      BY <3>1, SocketsFinite
  <2>7. open' = open + (IF m_eConnectState' = "Connecting" THEN 1 ELSE 0)
    BY <1>1, <1>3, <2>1
  <2>8. ASSUME Sockets' = Sockets PROVE DescriptorsOwned'
    <3>1. open' = 0 + (IF m_eConnectState' = "Connecting" /\ lost' = 0 THEN 1 ELSE 0)
                  + Cardinality(Sockets')
      BY <2>3, <2>6, <2>7, <2>8, SocketsFinite
    <3> QED
      BY <2>3, <3>1 DEF DescriptorsOwned, Sockets
  <2> QED
    BY <2>1, <2>4, <2>5, <2>8
<1> QED
  BY <1>3, <1>4, <1>5, <1>6, <1>7

LEMMA NoResets ==
    ASSUME Good, failed = "no", m_eConnectState = "Disconnected"
    PROVE  \A i \in 1..Len(functors) : functors[i].call # "reset"
  BY DisconnectedIsClean DEF Good, Kept, Clean, ResetInv

\* Connect, called on the loop, and the timer of a retry.
LEMMA LoopStarts ==
    ASSUME Good, failed = "no", LoopConnect \/ RetryTimer
    PROVE  Good'
<1> USE DEF Good, Kept, loopVars, clientVars
<1>1. /\ UNCHANGED <<m_pTcpConnection, m_nNextConnId, functors, batch, at, revents, active, closed,
                     conn, client, userAt, m_bRetry>>
      /\ clientConnect' \in BOOLEAN
  BY DEF LoopConnect, RetryTimer, TypeOK
<1>2. starts' \in 0..MaxStarts
  <2>1. starts \in 0..MaxStarts /\ MaxStarts \in Nat
    BY BoundAssumption DEF TypeOK
  <2>2. starts' = starts \/ (starts < MaxStarts /\ starts' = starts + 1)
    BY DEF LoopConnect, RetryTimer
  <2> QED
    BY <2>1, <2>2
<1>3. CASE RetryTimer /\ connector = "gone"
  <2>1. Becomes([[Connector EXCEPT !.timers = @ - 1] EXCEPT !.failed = "dangling"]) /\ timers > 0
    BY <1>3 DEF RetryTimer
  <2>2. /\ failed' = "dangling" /\ timers' = timers - 1
        /\ UNCHANGED <<m_bConnect, m_eConnectState, m_pChannel, m_nRetryDelayMs, attempt, retried,
                       open, lost, connector>>
    BY <2>1 DEF Becomes, Connector
  <2>3. timers' \in 0..1
    BY <2>1, <2>2 DEF TypeOK
  <2>4. TypeOK'
    BY <1>1, <1>2, <2>2, <2>3 DEF TypeOK
  <2> QED
    BY <2>2, <2>4 DEF NoneFails, CallBacksFindClient
<1>4. ASSUME ~(RetryTimer /\ connector = "gone")
      PROVE  \E k \in ConnectorType :
               /\ \E r \in startInLoop(k) : Becomes(r)
               /\ k.m_pChannel = m_pChannel /\ k.open = open /\ k.lost = lost
               /\ k.attempt = attempt /\ k.timers \in 0..1
               /\ k.m_eConnectState = m_eConnectState
               /\ m_eConnectState = "Disconnected" => k.timers = timers
               /\ client = "alive" \/ k.m_bConnect = m_bConnect
  <2>1. timers \in 0..1 /\ Connector \in ConnectorType
    BY ConnectorTyped DEF TypeOK
  <2>2. CASE LoopConnect
    <3>1. PICK k : k = [Connector EXCEPT !.m_bConnect = TRUE]
      OBVIOUS
    <3>2. k \in ConnectorType
      BY <2>1, <3>1 DEF ConnectorType
    <3>3. /\ k.m_pChannel = m_pChannel /\ k.open = open /\ k.lost = lost
          /\ k.attempt = attempt /\ k.timers = timers /\ k.m_eConnectState = m_eConnectState
      BY <3>1 DEF Connector
    <3>4. (\E r \in startInLoop(k) : Becomes(r)) /\ client = "alive"
      BY <2>2, <3>1 DEF LoopConnect, InCallBack
    <3> QED
      BY <2>1, <3>2, <3>3, <3>4
  <2>3. CASE RetryTimer
    <3>1. PICK k : k = [Connector EXCEPT !.timers = @ - 1]
      OBVIOUS
    <3>2. timers = 1
      BY <2>1, <2>3 DEF RetryTimer
    <3>3. /\ k.m_pChannel = m_pChannel /\ k.open = open /\ k.lost = lost /\ k.m_bConnect = m_bConnect
          /\ k.attempt = attempt /\ k.timers = timers - 1 /\ k.m_eConnectState = m_eConnectState
      BY <3>1 DEF Connector
    <3>4. k \in ConnectorType
      <4>1. timers - 1 \in Nat
        BY <3>2
      <4>2. Connector.timers = timers
        BY DEF Connector
      <4> QED
        BY <2>1, <3>1, <4>1, <4>2 DEF ConnectorType
    <3>5. \E r \in startInLoop(k) : Becomes(r)
      BY <1>4, <2>3, <3>1 DEF RetryTimer
    <3>6. m_eConnectState # "Disconnected"
      BY <3>2, DisconnectedIsClean DEF Clean
    <3> QED
      BY <3>2, <3>3, <3>4, <3>5, <3>6
  <2> QED
    BY <2>2, <2>3
<1>5. CASE ~(RetryTimer /\ connector = "gone")
  <2>1. PICK k \in ConnectorType :
               /\ \E r \in startInLoop(k) : Becomes(r)
               /\ k.m_pChannel = m_pChannel /\ k.open = open /\ k.lost = lost
               /\ k.attempt = attempt /\ k.timers \in 0..1
               /\ k.m_eConnectState = m_eConnectState
               /\ m_eConnectState = "Disconnected" => k.timers = timers
               /\ client = "alive" \/ k.m_bConnect = m_bConnect
    BY <1>4, <1>5
  <2>2. PICK r \in startInLoop(k) : Becomes(r)
    BY <2>1
  <2>3. k.m_eConnectState = "Disconnected" =>
          Clean /\ m_pTcpConnection' = NULL /\ m_eConnectState # "Connecting" /\ k.timers = 0
    BY <1>1, <2>1, DisconnectedIsClean DEF Clean
  <2>4. /\ failed' \in {"no", "start"}
        /\ m_bConnect' \in BOOLEAN /\ m_eConnectState' \in {"Disconnected", "Connecting", "Connected"}
        /\ m_pChannel' \in ChannelType \union {NoChannel}
        /\ m_nRetryDelayMs' \in InitRetryDelay..MaxRetryDelay
        /\ attempt' \in {"none", "pending", "done", "error"} /\ timers' \in 0..1
        /\ retried' \in BOOLEAN /\ open' \in Nat /\ lost' = lost /\ m_bConnect' = k.m_bConnect
        /\ UNCHANGED connector
        /\ failed' = "no" =>
             /\ k.m_eConnectState = "Disconnected" /\ ConnectorInv' /\ EventInv'
             /\ m_pChannel' # Removed
             /\ Sockets' = Sockets => DescriptorsOwned'
    BY <1>1, <2>1, <2>2, <2>3, Starts
  <2>5. TypeOK'
    BY <1>1, <1>2, <2>4 DEF TypeOK
  <2>6. ASSUME failed' = "no" PROVE Kept'
    <3>1. ConnectorInv' /\ EventInv' /\ m_pChannel' # Removed /\ m_eConnectState = "Disconnected"
      BY <2>1, <2>4, <2>6
    <3>2. DescriptorsOwned'
      <4>1. Sockets' = Sockets
        BY <1>1 DEF Sockets, Alive
      <4> QED
        BY <2>4, <2>6, <4>1
    <3>3. ResetInv'
      BY <1>1, <3>1, NoResets DEF ResetInv
    <3>4. ConnectionInv'
      <4>1. \A c \in Conn : Alive(c)' <=> Alive(c)
        BY <1>1 DEF Alive
      <4> QED
        BY <1>1, <4>1 DEF ConnectionInv
    <3>5. GoneInv'
      BY <1>1, <2>1, <2>4 DEF GoneInv
    <3> QED
      BY <3>1, <3>2, <3>3, <3>4, <3>5
  <2> QED
    BY <2>4, <2>5, <2>6 DEF NoneFails, CallBacksFindClient
<1> QED
  BY <1>3, <1>5

-----------------------------------------------------------------------------
(* Functors                                                                 *)

\* What is left of the queue when its first functor runs.
LEMMA QueueMoves ==
    ASSUME TypeOK, batch > 0, functors' = Tail(functors), batch' = batch - 1
    PROVE  /\ functors # <<>> /\ Head(functors) = functors[1] /\ functors[1] \in Functor
           /\ functors' \in Seq(Functor) /\ Len(functors) \in Nat /\ 1 \in 1..Len(functors)
           /\ Len(functors') = Len(functors) - 1 /\ batch' \in 0..Len(functors')
           /\ \A i \in 1..Len(functors') :
                /\ functors'[i] = functors[i + 1] /\ i + 1 \in 1..Len(functors)
                /\ i + 1 <= batch => i <= batch'
           /\ \A i \in 1..Len(functors) : i = 1 \/ \E j \in 1..Len(functors') : i = j + 1
<1>1. functors \in Seq(Functor) /\ Len(functors) \in Nat /\ batch \in 0..Len(functors)
  BY DEF TypeOK, Functor
<1>2. functors # <<>> /\ Len(functors) >= 1
  BY <1>1
<1>3. /\ Head(functors) = functors[1] /\ functors[1] \in Functor /\ functors' \in Seq(Functor)
      /\ Len(functors') = Len(functors) - 1
      /\ \A i \in 1..Len(functors') : functors'[i] = functors[i + 1]
  BY <1>1, <1>2
<1>4. \A i \in 1..(Len(functors) - 1) : i + 1 \in 1..Len(functors) /\ (i + 1 <= batch => i <= batch')
  BY <1>1
<1>5. ASSUME NEW i \in 1..Len(functors), i # 1
      PROVE  \E j \in 1..(Len(functors) - 1) : i = j + 1
  <2>1. i - 1 \in 1..(Len(functors) - 1) /\ i = (i - 1) + 1
    BY <1>1, <1>5
  <2> QED
    BY <2>1
<1>6. 1 \in 1..Len(functors) /\ batch' \in 0..(Len(functors) - 1)
  BY <1>1, <1>2
<1> QED
  BY <1>1, <1>2, <1>3, <1>4, <1>5, <1>6

\* A functor that is not resetChannel leaves those that are; ResetInv stays with the rest.
LEMMA ResetsMove ==
    ASSUME Good, failed = "no", RunFunctor,
           m_pChannel' = Removed => m_pChannel = Removed /\ functors[1].call # "reset",
           \/ UNCHANGED <<m_eConnectState, lost>>
           \/ \A i \in 1..Len(functors) : functors[i].call # "reset"
    PROVE  ResetInv'
<1> USE DEF Good, Kept
<1>1. /\ at = "functors" /\ at' = "functors" /\ batch > 0 /\ batch' = batch - 1
      /\ functors' = Tail(functors) /\ UNCHANGED <<active, m_pTcpConnection>>
  BY DEF RunFunctor
<1>2. /\ \A i \in 1..Len(functors') :
           /\ functors'[i] = functors[i + 1] /\ i + 1 \in 1..Len(functors)
           /\ i + 1 <= batch => i <= batch'
      /\ \A i \in 1..Len(functors) : i = 1 \/ \E j \in 1..Len(functors') : i = j + 1
  BY <1>1, QueueMoves
<1>3. \A i \in 1..Len(functors') : functors'[i].call = "reset" =>
         /\ i <= batch'
         /\ m_eConnectState' = "Connected" \/ lost' # 0
         /\ m_pTcpConnection \notin active
  BY <1>1, <1>2 DEF ResetInv
<1>4. m_pChannel' = Removed => \E i \in 1..Len(functors') : functors'[i].call = "reset"
  <2> SUFFICES ASSUME m_pChannel' = Removed
               PROVE  \E i \in 1..Len(functors') : functors'[i].call = "reset"
    OBVIOUS
  <2>1. PICK i \in 1..Len(functors) : functors[i].call = "reset" /\ i # 1
    BY DEF ResetInv
  <2>2. PICK j \in 1..Len(functors') : i = j + 1
    BY <1>2, <2>1
  <2> QED
    BY <1>2, <2>1, <2>2
<1> QED
  BY <1>1, <1>3, <1>4 DEF ResetInv

\* ConnectionInv's part about the queue.
Destroyers ==
    /\ \A i \in 1..Len(functors) : functors[i].call = "destroyed" =>
         LET c == functors[i].conn IN c \in Conn /\ Alive(c) /\ ~conn[c].watched
    /\ \A i, j \in 1..Len(functors) :
         functors[i].call = "destroyed" /\ functors[i] = functors[j] => i = j

LEMMA FunctorFields == \A f, g \in Functor : f.call = g.call /\ f.conn = g.conn => f = g
  BY DEF Functor

\* The functors that are left still destroy one connection each, which still lives.
LEMMA DestroyersMove ==
    ASSUME Good, failed = "no", RunFunctor,
           \A c \in Conn : ~(functors[1].call = "destroyed" /\ functors[1].conn = c) => conn'[c] = conn[c]
    PROVE  Destroyers'
<1> USE DEF Good, Kept
<1>1. batch > 0 /\ batch' = batch - 1 /\ functors' = Tail(functors)
  BY DEF RunFunctor
<1>2. /\ Len(functors) \in Nat /\ 1 \in 1..Len(functors) /\ functors[1] \in Functor
      /\ \A i \in 1..Len(functors') : functors'[i] = functors[i + 1] /\ i + 1 \in 1..Len(functors)
      /\ functors' \in Seq(Functor)
  BY <1>1, QueueMoves
<1>3. ASSUME NEW i \in 1..Len(functors'), functors'[i].call = "destroyed"
      PROVE  /\ functors'[i].conn \in Conn /\ ~conn'[functors'[i].conn].watched
             /\ conn'[functors'[i].conn].m_eConnectState \in {"Connected", "Disconnecting"}
  <2>1. PICK c : c = functors'[i].conn
    OBVIOUS
  <2>2. /\ functors[i + 1].call = "destroyed" /\ functors[i + 1].conn = c /\ i + 1 # 1
        /\ functors[i + 1] \in Functor
    BY <1>2, <1>3, <2>1
  <2>3. c \in Conn /\ Alive(c) /\ ~conn[c].watched
    BY <1>2, <2>2 DEF ConnectionInv
  <2>4. ~(functors[1].call = "destroyed" /\ functors[1].conn = c)
    <3> SUFFICES ASSUME functors[1].call = "destroyed", functors[1].conn = c PROVE FALSE
      OBVIOUS
    <3>1. functors[1] = functors[i + 1]
      BY <1>2, <2>2, FunctorFields
    <3> QED
      BY <1>2, <2>2, <3>1 DEF ConnectionInv
  <2>5. conn'[c] = conn[c]
    BY <2>3, <2>4
  <2> QED
    BY <2>1, <2>3, <2>5 DEF Alive
<1>4. ASSUME NEW i \in 1..Len(functors'), NEW j \in 1..Len(functors'),
             functors'[i].call = "destroyed", functors'[i] = functors'[j]
      PROVE  i = j
  <2>1. i + 1 = j + 1
    BY <1>2, <1>4 DEF ConnectionInv
  <2> QED
    BY <1>2, <2>1
<1> QED
  BY <1>3, <1>4 DEF Destroyers, Alive

\* startInLoop and resetChannel, run from the queue.
LEMMA ConnectorFunctors ==
    ASSUME Good, failed = "no", RunFunctor, functors[1].call # "destroyed"
    PROVE  Good'
<1> USE DEF Good, Kept
<1>1. /\ at = "functors" /\ batch > 0 /\ batch' = batch - 1 /\ functors' = Tail(functors)
      /\ UNCHANGED <<clientConnect, m_bRetry, m_pTcpConnection, m_nNextConnId, client, at, revents,
                     active, userAt, closed, starts>>
  BY DEF RunFunctor
<1>2. /\ Head(functors) = functors[1] /\ functors[1] \in Functor /\ functors' \in Seq(Functor)
      /\ batch' \in 0..Len(functors')
  BY <1>1, QueueMoves
<1>3. RunConnector(functors[1].call) /\ UNCHANGED conn /\ functors[1].call \in {"start", "reset"}
  BY <1>2 DEF RunFunctor, RunConnector, Functor
<1>4. Connector \in ConnectorType /\ revents = {}
  BY <1>1, ConnectorTyped DEF EventInv
<1>5. ConnectionInv'
  <2>1. Destroyers'
    BY <1>3, DestroyersMove
  <2>2. \A c \in Conn : Alive(c)' <=> Alive(c)
    BY <1>3 DEF Alive
  <2> QED
    BY <1>1, <1>3, <2>1, <2>2 DEF ConnectionInv, Destroyers
<1>6. Sockets' = Sockets
  BY <1>3 DEF Sockets, Alive
<1>7. CASE connector = "gone"
  <2>1. Becomes([Connector EXCEPT !.failed = "dangling"])
    BY <1>3, <1>7 DEF RunConnector
  <2>2. /\ failed' = "dangling"
        /\ UNCHANGED <<m_bConnect, m_eConnectState, m_pChannel, m_nRetryDelayMs, attempt, retried,
                       timers, open, lost, connector>>
    BY <2>1 DEF Becomes, Connector
  <2>3. TypeOK'
    BY <1>1, <1>2, <1>3, <2>2 DEF TypeOK, Functor
  <2> QED
    BY <2>2, <2>3 DEF NoneFails, CallBacksFindClient
<1>8. CASE connector # "gone" /\ functors[1].call = "start"
  <2>1. PICK r \in startInLoop(Connector) : Becomes(r)
    BY <1>3, <1>8 DEF RunConnector
  <2>2. /\ Connector.m_pChannel = m_pChannel /\ Connector.open = open /\ Connector.lost = lost
        /\ Connector.attempt = attempt /\ Connector.timers = timers
        /\ Connector.m_eConnectState = m_eConnectState /\ Connector.m_bConnect = m_bConnect
    BY DEF Connector
  <2>3. Connector.timers \in 0..1
    BY <2>2 DEF TypeOK
  <2>4. Connector.m_eConnectState = "Disconnected" =>
          /\ Clean /\ m_pTcpConnection' = NULL /\ m_eConnectState # "Connecting"
          /\ Connector.timers = 0
    BY <1>1, <2>2, DisconnectedIsClean DEF Clean
  <2>5. /\ failed' \in {"no", "start"}
        /\ m_bConnect' \in BOOLEAN /\ m_eConnectState' \in {"Disconnected", "Connecting", "Connected"}
        /\ m_pChannel' \in ChannelType \union {NoChannel}
        /\ m_nRetryDelayMs' \in InitRetryDelay..MaxRetryDelay
        /\ attempt' \in {"none", "pending", "done", "error"} /\ timers' \in 0..1
        /\ retried' \in BOOLEAN /\ open' \in Nat /\ lost' = lost /\ m_bConnect' = m_bConnect
        /\ UNCHANGED connector
        /\ failed' = "no" =>
             /\ m_eConnectState = "Disconnected" /\ ConnectorInv' /\ EventInv'
             /\ m_pChannel' # Removed
             /\ Sockets' = Sockets => DescriptorsOwned'
    BY <1>1, <1>4, <2>1, <2>2, <2>3, <2>4, Starts
  <2>6. TypeOK'
    BY <1>1, <1>2, <1>3, <2>5 DEF TypeOK, Functor
  <2>7. ASSUME failed' = "no" PROVE Kept'
    <3>1. \A i \in 1..Len(functors) : functors[i].call # "reset"
      BY <2>5, <2>7, NoResets
    <3>2. ResetInv'
      BY <2>5, <2>7, <3>1, ResetsMove
    <3>3. GoneInv'
      BY <1>1, <1>3, <2>5 DEF GoneInv
    <3> QED
      BY <1>5, <1>6, <2>5, <2>7, <3>2, <3>3
  <2> QED
    BY <2>5, <2>6, <2>7 DEF NoneFails, CallBacksFindClient
<1>9. CASE connector # "gone" /\ functors[1].call = "reset"
  <2>1. Becomes(resetChannel(Connector))
    BY <1>3, <1>9 DEF RunConnector
  <2>2. /\ m_pChannel' = NoChannel /\ failed' = IF Watched(m_pChannel) THEN "reset" ELSE "no"
        /\ UNCHANGED <<m_bConnect, m_eConnectState, m_nRetryDelayMs, attempt, retried, timers,
                       open, lost, connector>>
    BY <2>1 DEF Becomes, Connector, resetChannel
  <2>3. 1 \in 1..Len(functors)
    BY <1>1, QueueMoves
  <2>4. m_eConnectState = "Connected" \/ lost # 0
    BY <1>9, <2>3 DEF ResetInv
  <2>5. ~Watched(m_pChannel) /\ failed' = "no"
    BY <2>2, <2>4, ChannelFacts DEF ConnectorInv
  <2>6. TypeOK'
    BY <1>1, <1>2, <1>3, <2>2 DEF TypeOK, Functor
  <2>7. ConnectorInv'
    BY <1>1, <2>2, <2>4 DEF ConnectorInv
  <2>8. EventInv' /\ GoneInv'
    BY <1>1, <1>3, <1>4, <2>2 DEF EventInv, GoneInv
  <2>9. ResetInv'
    BY <2>2, ResetsMove, ChannelFacts
  <2>10. DescriptorsOwned'
    BY <1>6, <2>2 DEF DescriptorsOwned, Sockets
  <2> QED
    BY <1>5, <2>5, <2>6, <2>7, <2>8, <2>9, <2>10 DEF NoneFails, CallBacksFindClient
<1> QED
  BY <1>3, <1>7, <1>8, <1>9

\* ConnectedDestroyed, run from the queue, closes the connection's socket.
LEMMA DestroyFunctor ==
    ASSUME Good, failed = "no", RunFunctor, functors[1].call = "destroyed"
    PROVE  Good'
<1> USE DEF Good, Kept
<1>1. /\ at = "functors" /\ batch > 0 /\ batch' = batch - 1 /\ functors' = Tail(functors)
      /\ UNCHANGED <<clientConnect, m_bRetry, m_pTcpConnection, m_nNextConnId, client, at, revents,
                     active, userAt, closed, starts>>
  BY DEF RunFunctor
<1>2. /\ Head(functors) = functors[1] /\ functors[1] \in Functor /\ functors' \in Seq(Functor)
      /\ batch' \in 0..Len(functors') /\ 1 \in 1..Len(functors)
  BY <1>1, QueueMoves
<1>3. PICK c : c = functors[1].conn
  OBVIOUS
<1>4. c \in Conn /\ Alive(c) /\ ~conn[c].watched
  BY <1>2, <1>3 DEF ConnectionInv
<1>5. ConnectedDestroyed(c)
  BY <1>2, <1>3 DEF RunFunctor
<1>6. /\ open' = open - 1 /\ failed' = "no"
      /\ UNCHANGED <<m_bConnect, m_eConnectState, m_pChannel, m_nRetryDelayMs, attempt, retried,
                     timers, lost, connector>>
  BY <1>4, <1>5 DEF ConnectedDestroyed, Becomes, Connector, Alive
<1>7. conn \in [Conn -> ConnType] /\ conn[c] \in ConnType
  BY <1>4 DEF TypeOK
<1>8. /\ conn' = [conn EXCEPT ![c].m_eConnectState = "Disconnected"]
      /\ conn'[c] = [conn[c] EXCEPT !.m_eConnectState = "Disconnected"]
      /\ \A d \in Conn : d # c => conn'[d] = conn[d]
  BY <1>4, <1>5, <1>7 DEF ConnectedDestroyed
<1>9. /\ conn'[c] \in ConnType /\ conn'[c].m_eConnectState = "Disconnected"
      /\ conn'[c].watched = conn[c].watched /\ conn'[c].m_CloseCallBack = conn[c].m_CloseCallBack
  BY <1>7, <1>8 DEF ConnType
<1>10. conn' \in [Conn -> ConnType]
  BY <1>4, <1>7, <1>8, <1>9
<1>11. open = Cardinality(Sockets') + 1 + lost + (IF m_eConnectState = "Connecting" /\ lost = 0 THEN 1 ELSE 0)
  <2>1. c \in Sockets /\ Sockets' = Sockets \ {c}
    BY <1>4, <1>8, <1>9 DEF Sockets, Alive
  <2>2. Cardinality(Sockets') = Cardinality(Sockets) - 1
    BY <2>1, SocketsFinite, FS_RemoveElement
  <2>3. lost \in Nat
    BY DEF TypeOK
  <2>4. open = lost + (IF m_eConnectState = "Connecting" /\ lost = 0 THEN 1 ELSE 0) + Cardinality(Sockets)
    BY DEF DescriptorsOwned, Sockets
  <2> QED
    BY <2>2, <2>3, <2>4, SocketsFinite
<1>12. Cardinality(Sockets') \in Nat /\ lost \in Nat
  <2>1. IsFiniteSet(Conn) /\ Sockets' \subseteq Conn
    BY BoundAssumption, FS_Interval DEF Conn, Sockets
  <2> QED
    BY <2>1, FS_Subset, FS_CardinalityType DEF TypeOK
<1>13. open' \in Nat /\ DescriptorsOwned'
  <2>1. /\ open' \in Nat
        /\ open' = lost + (IF m_eConnectState = "Connecting" /\ lost = 0 THEN 1 ELSE 0) + Cardinality(Sockets')
    BY <1>6, <1>11, <1>12
  <2> QED
    BY <1>6, <2>1 DEF DescriptorsOwned, Sockets
<1>14. TypeOK'
  BY <1>1, <1>2, <1>6, <1>10, <1>13 DEF TypeOK, Functor
<1>15. ConnectorInv' /\ EventInv'
  BY <1>1, <1>6 DEF ConnectorInv, EventInv
<1>16. GoneInv'
  <2>1. m_pTcpConnection \in Conn \union {NULL}
    BY DEF TypeOK
  <2> QED
    BY <1>1, <1>6, <1>8, <1>9, <2>1 DEF GoneInv
<1>17. ResetInv'
  BY <1>6, ResetsMove
<1>18. ConnectionInv'
  <2>1. Destroyers'
    BY <1>3, <1>8, DestroyersMove
  <2>2. m_pTcpConnection \in Conn \union {NULL} /\ closed \subseteq Conn /\ active \subseteq Conn
    BY DEF TypeOK
  <2>3. \A d \in closed \union ({m_pTcpConnection} \ {NULL}) : conn'[d].m_eConnectState # "None"
    BY <1>8, <1>9, <2>2 DEF ConnectionInv
  <2>4. \A d \in Conn : d >= m_nNextConnId => conn'[d] = NoConn
    <3>1. conn[c] # NoConn
      BY <1>4 DEF Alive, NoConn
    <3> QED
      BY <1>8, <3>1 DEF ConnectionInv
  <2>5. \A d \in Conn : conn'[d].watched => m_pTcpConnection = d /\ Alive(d)'
    BY <1>4, <1>8, <1>9 DEF ConnectionInv, Alive
  <2>6. \A d \in active : conn'[d].watched
    BY <1>8, <1>9, <2>2 DEF ConnectionInv
  <2> QED
    BY <1>1, <2>1, <2>3, <2>4, <2>5, <2>6 DEF ConnectionInv, Destroyers
<1> QED
  BY <1>6, <1>14, <1>13, <1>15, <1>16, <1>17, <1>18 DEF NoneFails, CallBacksFindClient

-----------------------------------------------------------------------------
(* The end of an attempt                                                    *)

\* removeAndResetChannel takes the attempt's channel from the poller.
LEMMA RemovedChannel ==
    ASSUME TypeOK, failed = "no", m_pChannel = EnableWriting(NewChannel),
           NEW k, k = removeAndResetChannel(Connector)
    PROVE  /\ k \in ConnectorType /\ k.m_pChannel = Removed /\ k.open = open /\ k.lost = lost
           /\ k.attempt = attempt /\ k.timers = timers /\ k.m_bConnect = m_bConnect
           /\ k.m_eConnectState = m_eConnectState /\ k.failed = "no" /\ k.retried = retried
           /\ k.m_nRetryDelayMs = m_nRetryDelayMs
<1>1. Connector \in ConnectorType /\ Connector.m_pChannel = m_pChannel
  BY ConnectorTyped DEF Connector
<1>2. k = [Connector EXCEPT !.m_pChannel = Removed]
  BY <1>1, ChannelFacts DEF removeAndResetChannel
<1>3. k \in ConnectorType /\ k.m_pChannel = Removed
  BY <1>1, <1>2, ChannelFacts DEF ConnectorType
<1>4. /\ k.open = open /\ k.lost = lost
      /\ k.attempt = attempt /\ k.timers = timers /\ k.m_bConnect = m_bConnect
      /\ k.m_eConnectState = m_eConnectState /\ k.failed = "no" /\ k.retried = retried
      /\ k.m_nRetryDelayMs = m_nRetryDelayMs
  BY <1>2 DEF Connector
<1> QED
  BY <1>3, <1>4

\* The queue when resetChannel has been appended.
LEMMA ResetQueued ==
    ASSUME Good, failed = "no", at = "handle", functors' = Append(functors, Call("reset")),
           UNCHANGED <<at, batch, active>>, m_pTcpConnection' \notin active,
           m_eConnectState' = "Connected" \/ lost' # 0,
           \A c \in Conn : Alive(c) => conn'[c] = conn[c]
    PROVE  /\ functors' \in Seq(Functor) /\ batch \in 0..Len(functors')
           /\ ResetInv' /\ Destroyers'
<1> USE DEF Good, Kept
<1>1. Call("reset") \in Functor /\ Call("reset").call = "reset"
  BY DEF Call, Functor
<1>2. /\ functors' \in Seq(Functor) /\ Len(functors) \in Nat /\ Len(functors') = Len(functors) + 1
      /\ \A i \in 1..Len(functors) : functors'[i] = functors[i]
      /\ functors'[Len(functors) + 1] = Call("reset") /\ batch \in 0..Len(functors')
      /\ \A i \in 1..Len(functors') : i \in 1..Len(functors) \/ i = Len(functors) + 1
  BY <1>1, Appended
<1>3. ResetInv'
  <2>1. Len(functors) + 1 \in 1..Len(functors')
    BY <1>2
  <2> QED
    BY <1>1, <1>2, <2>1 DEF ResetInv
<1>4. Destroyers'
  <2>1. ASSUME NEW i \in 1..Len(functors'), functors'[i].call = "destroyed"
        PROVE  i \in 1..Len(functors) /\ functors'[i] = functors[i]
    BY <1>1, <1>2, <2>1
  <2>2. \A i \in 1..Len(functors) : functors[i].call = "destroyed" =>
          LET c == functors[i].conn IN c \in Conn /\ Alive(c) /\ ~conn[c].watched /\ conn'[c] = conn[c]
    BY DEF ConnectionInv
  <2>3. \A i \in 1..Len(functors') : functors'[i].call = "destroyed" =>
          /\ functors'[i].conn \in Conn /\ ~conn'[functors'[i].conn].watched
          /\ conn'[functors'[i].conn].m_eConnectState \in {"Connected", "Disconnecting"}
    BY <2>1, <2>2 DEF Alive
  <2>4. \A i, j \in 1..Len(functors') :
          functors'[i].call = "destroyed" /\ functors'[i] = functors'[j] => i = j
    BY <2>1 DEF ConnectionInv
  <2> QED
    BY <2>3, <2>4 DEF Destroyers, Alive
<1> QED
  BY <1>2, <1>3, <1>4

\* An attempt is under way: one descriptor is its own.
LEMMA AttemptOwns ==
    ASSUME Good, failed = "no", m_eConnectState = "Connecting", lost = 0
    PROVE  /\ m_pChannel = EnableWriting(NewChannel) /\ m_pTcpConnection = NULL /\ timers = 0
           /\ open = Cardinality(Sockets) + 1 /\ Cardinality(Sockets) \in Nat
<1>1. m_pChannel = EnableWriting(NewChannel) /\ m_pTcpConnection = NULL /\ timers = 0
  BY DEF Good, Kept, ConnectorInv, TypeOK
<1>2. open = 0 + 1 + Cardinality(Sockets)
  BY DEF Good, Kept, DescriptorsOwned, Sockets
<1> QED
  BY <1>1, <1>2, SocketsFinite

\* An attempt that ends without a connection: a retry, a socket nobody wants, a lost one.
LEMMA AttemptFails ==
    ASSUME Good, failed = "no", at = "handle", m_eConnectState = "Connecting", lost = 0,
           functors' = Append(functors, Call("reset")), m_pChannel' = Removed,
           UNCHANGED <<clientVars, batch, at, active, userAt, closed, starts, connector, attempt,
                       m_bConnect, failed>>,
           timers' \in 0..1, retried' \in BOOLEAN,
           m_nRetryDelayMs' \in InitRetryDelay..MaxRetryDelay,
           \/ /\ m_eConnectState' = "Connected" /\ open' = open - 1 /\ lost' = 0
              /\ revents' \in {{}, {"out"}}
           \/ /\ m_eConnectState' = "Connecting" /\ open' = open /\ lost' = 1
              /\ revents' = {} /\ timers' = 0
    PROVE  Good'
<1> USE DEF Good, Kept, clientVars
<1>1. /\ m_pTcpConnection = NULL /\ timers = 0
      /\ open = Cardinality(Sockets) + 1 /\ Cardinality(Sockets) \in Nat
  BY AttemptOwns
<1>2. NULL \notin active /\ \A c \in Conn : Alive(c)' <=> Alive(c)
  BY DEF TypeOK, Alive, NULL, Conn
<1>3. /\ functors' \in Seq(Functor) /\ batch \in 0..Len(functors')
      /\ ResetInv' /\ Destroyers'
  BY <1>1, <1>2, ResetQueued
<1>4. open' \in Nat /\ open' = Cardinality(Sockets) + (IF lost' = 1 THEN 1 ELSE 0) /\ lost' \in 0..1
  BY <1>1
<1>5. /\ m_eConnectState' \in {"Disconnected", "Connecting", "Connected"} /\ revents' \subseteq {"err", "out"}
      /\ m_pChannel' \in ChannelType \union {NoChannel}
  BY ChannelFacts
<1>6. TypeOK'
  BY <1>3, <1>4, <1>5 DEF TypeOK, Functor
<1>7. ConnectorInv' /\ EventInv' /\ GoneInv'
  BY <1>1, ChannelFacts DEF ConnectorInv, EventInv, GoneInv
<1>8. ConnectionInv'
  BY <1>2, <1>3 DEF ConnectionInv, Destroyers
<1>9. DescriptorsOwned'
  <2>1. Sockets' = Sockets
    BY <1>2 DEF Sockets
  <2>2. open' = lost' + (IF m_eConnectState' = "Connecting" /\ lost' = 0 THEN 1 ELSE 0) + Cardinality(Sockets')
    BY <1>1, <1>4, <2>1
  <2> QED
    BY <2>2 DEF DescriptorsOwned, Sockets
<1> QED
  BY <1>3, <1>6, <1>7, <1>8, <1>9 DEF NoneFails, CallBacksFindClient

\* handleError finds an attempt under way, and retries.
LEMMA ErrorHandled ==
    ASSUME Good, failed = "no", handleError
    PROVE  Good'
<1> USE DEF Good, Kept
<1>1. /\ at = "handle" /\ "err" \in revents /\ revents' = revents \ {"err"}
      /\ functors' = Append(functors, Call("reset"))
      /\ UNCHANGED <<clientVars, batch, at, active, userAt, closed, starts>>
  BY DEF handleError
<1>2. revents = {"err", "out"} /\ m_eConnectState = "Connecting" /\ lost = 0
  BY <1>1 DEF EventInv
<1>3. revents' = {"out"}
  BY <1>1, <1>2
<1>4. PICK k : k = removeAndResetChannel(Connector)
  OBVIOUS
<1>5. Becomes(retry(k))
  BY <1>2, <1>4 DEF handleError
<1>6. /\ k \in ConnectorType /\ k.m_pChannel = Removed /\ k.open = open /\ k.lost = lost
      /\ k.attempt = attempt /\ k.timers = timers /\ k.m_bConnect = m_bConnect /\ k.failed = "no"
  BY <1>2, <1>4, AttemptOwns, RemovedChannel
<1>7. /\ m_eConnectState' = "Connected" /\ open' = open - 1
      /\ timers' = (IF m_bConnect THEN timers + 1 ELSE timers)
      /\ m_bConnect' = m_bConnect /\ m_pChannel' = Removed /\ attempt' = attempt
      /\ lost' = 0 /\ failed' = "no" /\ UNCHANGED connector
      /\ retried' \in BOOLEAN /\ m_nRetryDelayMs' \in InitRetryDelay..MaxRetryDelay
  BY <1>2, <1>5, <1>6, RetryEffect
<1>8. timers' \in 0..1
  BY <1>2, <1>7, AttemptOwns
<1> QED
  BY <1>1, <1>2, <1>3, <1>7, <1>8, AttemptFails

\* handleWrite hands a new connection to the client.
LEMMA ConnectionMade ==
    ASSUME Good, failed = "no", at = "handle", revents' = {},
           m_eConnectState = "Connecting", lost = 0, attempt = "done", client = "alive",
           functors' = Append(functors, Call("reset")), m_pChannel' = Removed,
           m_eConnectState' = "Connected", newConnection,
           UNCHANGED <<batch, at, active, userAt, closed, starts, connector, attempt, m_bConnect,
                       failed, timers, retried, m_nRetryDelayMs, open, lost>>
    PROVE  Good'
<1> USE DEF Good, Kept
<1>1. PICK n : n = m_nNextConnId
  OBVIOUS
<1>2. n \in Conn /\ n # NULL /\ n + 1 \in 1..(MaxConn + 1)
  <2>1. n <= MaxConn /\ n \in 1..(MaxConn + 1) /\ MaxConn \in Nat
    BY <1>1, BoundAssumption DEF ConnectorInv, TypeOK
  <2> QED
    BY <2>1 DEF Conn, NULL
<1>3. PICK new : new = [m_eConnectState |-> "Connected", watched |-> TRUE, m_CloseCallBack |-> "client"]
  OBVIOUS
<1>4. new \in ConnType /\ new.m_eConnectState = "Connected" /\ new.watched
  BY <1>3 DEF ConnType
<1>5. /\ conn' = [conn EXCEPT ![n] = new] /\ m_pTcpConnection' = n /\ m_nNextConnId' = n + 1
      /\ UNCHANGED <<clientConnect, m_bRetry, client>>
  BY <1>1, <1>3 DEF newConnection
<1>6. conn[n] = NoConn
  BY <1>1, <1>2 DEF ConnectionInv, Conn
<1>7. ~Alive(n) /\ ~conn[n].watched /\ n \notin active
  <2>1. ~Alive(n) /\ ~conn[n].watched
    BY <1>6 DEF NoConn, Alive
  <2> QED
    BY <2>1 DEF ConnectionInv
<1>8. /\ conn \in [Conn -> ConnType] /\ conn' \in [Conn -> ConnType] /\ conn'[n] = new
      /\ \A c \in Conn : c # n => conn'[c] = conn[c]
  BY <1>2, <1>4, <1>5 DEF TypeOK
<1>9. /\ m_pTcpConnection = NULL /\ timers = 0
      /\ open = Cardinality(Sockets) + 1 /\ Cardinality(Sockets) \in Nat
  BY AttemptOwns
<1>10. /\ functors' \in Seq(Functor) /\ batch \in 0..Len(functors')
       /\ ResetInv' /\ Destroyers'
  BY <1>5, <1>7, <1>8, ResetQueued
<1>11. m_pChannel' \in ChannelType \union {NoChannel}
  BY ChannelFacts
<1>12. TypeOK'
  BY <1>2, <1>5, <1>8, <1>10, <1>11 DEF TypeOK, Functor
<1>13. ConnectorInv' /\ EventInv' /\ GoneInv'
  BY <1>5, <1>9 DEF ConnectorInv, EventInv, GoneInv
<1>14. ConnectionInv'
  <2>1. \A c \in Conn : c >= m_nNextConnId' => conn'[c] = NoConn
    <3>1. \A c \in Conn : c >= n + 1 => c # n /\ c >= m_nNextConnId
      BY <1>1, <1>2 DEF Conn
    <3> QED
      BY <1>5, <1>8, <3>1 DEF ConnectionInv
  <2>2. \A c \in Conn : conn'[c].watched => m_pTcpConnection' = c /\ Alive(c)'
    <3>1. \A c \in Conn : ~conn[c].watched
      BY <1>2, <1>9 DEF ConnectionInv, Conn, NULL
    <3> QED
      BY <1>4, <1>5, <1>8, <3>1 DEF Alive
  <2>3. \A c \in closed' \union ({m_pTcpConnection'} \ {NULL}) : conn'[c].m_eConnectState # "None"
    <3>1. closed \subseteq Conn
      BY DEF TypeOK
    <3> QED
      BY <1>4, <1>5, <1>8, <3>1 DEF ConnectionInv
  <2>4. \A c \in active' : conn'[c].watched
    <3>1. active \subseteq Conn
      BY DEF TypeOK
    <3> QED
      BY <1>7, <1>8, <3>1 DEF ConnectionInv
  <2> QED
    BY <1>10, <2>1, <2>2, <2>3, <2>4 DEF ConnectionInv, Destroyers
<1>15. DescriptorsOwned'
  <2>1. Sockets' = Sockets \union {n} /\ n \notin Sockets
    BY <1>2, <1>4, <1>7, <1>8 DEF Sockets, Alive
  <2>2. Cardinality(Sockets') = Cardinality(Sockets) + 1
    BY <2>1, SocketsFinite, FS_AddElement
  <2>3. open' = 0 + 0 + Cardinality(Sockets')
    BY <1>9, <2>2
  <2> QED
    BY <2>3 DEF DescriptorsOwned, Sockets
<1> QED
  BY <1>10, <1>12, <1>13, <1>14, <1>15 DEF NoneFails, CallBacksFindClient

\* handleWrite finds an attempt under way, or one that handleError ended in the same round.
LEMMA WriteHandled ==
    ASSUME Good, failed = "no", handleWrite
    PROVE  Good'
<1> USE DEF Good, Kept
<1>1. /\ at = "handle" /\ revents = {"out"} /\ revents' = {}
      /\ UNCHANGED <<batch, at, active, userAt, closed, starts>>
  BY DEF handleWrite
<1>2. \/ m_eConnectState = "Connecting" /\ lost = 0
      \/ m_eConnectState = "Connected"
  BY <1>1 DEF EventInv
<1>3. CASE m_eConnectState = "Connected"
  <2>1. Becomes([Connector EXCEPT !.failed = failed]) /\ UNCHANGED <<clientVars, functors>>
    <3>1. Connector.failed = failed
      BY DEF Connector
    <3> QED
      BY <1>3, <3>1 DEF handleWrite
  <2>2. UNCHANGED <<m_bConnect, m_eConnectState, m_pChannel, m_nRetryDelayMs, attempt, retried,
                    timers, open, lost, connector, failed>>
    BY <2>1 DEF Becomes, Connector
  <2>3. TypeOK'
    BY <1>1, <2>1, <2>2 DEF TypeOK, clientVars
  <2>4. ConnectorInv' /\ EventInv' /\ ResetInv' /\ GoneInv'
    BY <1>1, <2>1, <2>2 DEF ConnectorInv, EventInv, ResetInv, GoneInv, clientVars
  <2>5. ConnectionInv' /\ DescriptorsOwned'
    BY <1>1, <2>1, <2>2 DEF ConnectionInv, DescriptorsOwned, Alive, clientVars
  <2> QED
    BY <2>2, <2>3, <2>4, <2>5 DEF NoneFails, CallBacksFindClient
<1>4. CASE m_eConnectState = "Connecting" /\ lost = 0
  <2>1. PICK k : k = removeAndResetChannel(Connector)
    OBVIOUS
  <2>2. PICK d : d = [k EXCEPT !.m_eConnectState = "Connected"]
    OBVIOUS
  <2>3. /\ k \in ConnectorType /\ k.m_pChannel = Removed /\ k.open = open /\ k.lost = lost
        /\ k.attempt = attempt /\ k.timers = timers /\ k.m_bConnect = m_bConnect
        /\ k.m_eConnectState = m_eConnectState /\ k.failed = "no" /\ k.retried = retried
        /\ k.m_nRetryDelayMs = m_nRetryDelayMs
    BY <1>4, <2>1, AttemptOwns, RemovedChannel
  <2>4. /\ d \in ConnectorType /\ d.m_pChannel = Removed /\ d.open = open /\ d.lost = lost
        /\ d.attempt = attempt /\ d.timers = timers /\ d.m_bConnect = m_bConnect
        /\ d.m_eConnectState = "Connected" /\ d.failed = "no" /\ d.retried = retried
        /\ d.m_nRetryDelayMs = m_nRetryDelayMs
    BY <2>2, <2>3 DEF ConnectorType
  <2>5. timers = 0 /\ m_pTcpConnection = NULL /\ open \in Nat
    BY <1>4, AttemptOwns DEF TypeOK
  <2>6. /\ functors' = Append(functors, Call("reset"))
        /\ \/ attempt = "error" /\ Becomes([k EXCEPT !.lost = @ + 1]) /\ UNCHANGED clientVars
           \/ attempt = "done" /\ Becomes(retry(k)) /\ UNCHANGED clientVars
           \/ attempt = "done" /\ ~m_bConnect /\ Becomes(NotWanted(d)) /\ UNCHANGED clientVars
           \/ /\ attempt = "done" /\ m_bConnect /\ newConnection
              /\ Becomes([d EXCEPT !.failed = IF client = "alive" THEN @ ELSE "client"])
    BY <1>4, <2>1, <2>2 DEF handleWrite
  <2>7. m_bConnect \in BOOLEAN /\ timers \in 0..1 /\ retried \in BOOLEAN
        /\ m_nRetryDelayMs \in InitRetryDelay..MaxRetryDelay
    BY DEF TypeOK
  <2>8. CASE Becomes([k EXCEPT !.lost = @ + 1]) /\ UNCHANGED clientVars
    <3>1. /\ lost' = lost + 1 /\ m_pChannel' = Removed /\ m_eConnectState' = "Connecting"
          /\ UNCHANGED <<connector, attempt, m_bConnect, failed, timers, retried, m_nRetryDelayMs, open>>
      BY <1>4, <2>3, <2>8 DEF Becomes, ConnectorType
    <3>2. lost' = 1 /\ timers' = 0
      BY <1>4, <2>5, <3>1
    <3> QED
      BY <1>1, <1>4, <2>5, <2>6, <2>7, <2>8, <3>1, <3>2, AttemptFails
  <2>9. CASE Becomes(retry(k)) /\ UNCHANGED clientVars
    <3>1. /\ m_eConnectState' = "Connected" /\ open' = open - 1
          /\ timers' = (IF m_bConnect THEN timers + 1 ELSE timers)
          /\ m_bConnect' = m_bConnect /\ m_pChannel' = Removed /\ attempt' = attempt
          /\ lost' = 0 /\ failed' = "no" /\ UNCHANGED connector
          /\ retried' \in BOOLEAN /\ m_nRetryDelayMs' \in InitRetryDelay..MaxRetryDelay
      BY <1>4, <2>3, <2>9, RetryEffect
    <3>2. timers' \in 0..1
      BY <2>5, <3>1
    <3> QED
      BY <1>1, <1>4, <2>6, <2>9, <3>1, <3>2, AttemptFails
  <2>10. CASE Becomes(NotWanted(d)) /\ UNCHANGED clientVars
    <3>1. /\ open' = open - 1 /\ m_pChannel' = Removed /\ m_eConnectState' = "Connected" /\ lost' = lost
          /\ UNCHANGED <<connector, attempt, m_bConnect, failed, timers, retried, m_nRetryDelayMs>>
      BY <2>4, <2>10 DEF Becomes, NotWanted, ConnectorType
    <3> QED
      BY <1>1, <1>4, <2>5, <2>6, <2>7, <2>10, <3>1, AttemptFails
  <2>11. CASE /\ attempt = "done" /\ m_bConnect /\ newConnection
              /\ Becomes([d EXCEPT !.failed = IF client = "alive" THEN @ ELSE "client"])
    <3>1. client = "alive"
      BY <2>5, <2>11 DEF GoneInv, TypeOK
    <3>2. /\ m_pChannel' = Removed /\ m_eConnectState' = "Connected"
          /\ UNCHANGED <<connector, attempt, m_bConnect, failed, timers, retried, m_nRetryDelayMs,
                         open, lost>>
      BY <2>4, <2>11, <3>1 DEF Becomes, ConnectorType
    <3> QED
      BY <1>1, <1>4, <2>6, <2>11, <3>1, <3>2, ConnectionMade
  <2> QED
    BY <2>6, <2>8, <2>9, <2>10, <2>11
<1> QED
  BY <1>2, <1>3, <1>4

-----------------------------------------------------------------------------
(* The end of a connection                                                  *)

\* The connection whose close is handled is the client's; no attempt has left anything behind.
LEMMA ClosedIsClean ==
    ASSUME Good, failed = "no", NEW c \in Conn, c \in active
    PROVE  /\ m_pTcpConnection = c /\ c # NULL /\ Alive(c) /\ conn[c].watched /\ active = {c}
           /\ Clean /\ m_eConnectState = "Connected"
           /\ \A i \in 1..Len(functors) : functors[i].call # "reset"
<1> USE DEF Good, Kept
<1>1. m_pTcpConnection = c /\ Alive(c) /\ conn[c].watched
  BY DEF ConnectionInv
<1>2. active = {c}
  BY <1>1 DEF ConnectionInv, TypeOK
<1>3. c # NULL
  BY DEF Conn, NULL
<1>4. \A i \in 1..Len(functors) : functors[i].call # "reset"
  BY <1>1 DEF ResetInv
<1>5. m_eConnectState = "Connected" /\ m_pChannel # Removed
  BY <1>1, <1>3, <1>4 DEF ConnectorInv, ResetInv
<1>6. Clean
  BY <1>1, <1>3, <1>5 DEF Clean, ConnectorInv, EventInv
<1> QED
  BY <1>1, <1>2, <1>3, <1>4, <1>5, <1>6

\* The queue and the connections when one has been closed.
LEMMA DestroyerQueued ==
    ASSUME Good, failed = "no", NEW c \in Conn, HandleClose(c)
    PROVE  /\ functors' \in Seq(Functor) /\ batch \in 0..Len(functors')
           /\ \A i \in 1..Len(functors') : functors'[i].call # "reset"
           /\ conn' \in [Conn -> ConnType] /\ Sockets' = Sockets /\ active' = {}
           /\ conn'[c].m_CloseCallBack = conn[c].m_CloseCallBack
           /\ ConnectionInv'
<1> USE DEF Good, Kept
<1>1. /\ c \in active /\ active' = active \ {c} /\ conn' = [conn EXCEPT ![c].watched = FALSE]
      /\ functors' = Append(functors, Destroyed(c))
      /\ UNCHANGED <<clientConnect, m_bRetry, m_nNextConnId, client, batch, at, revents, userAt,
                     closed, starts>>
      /\ m_pTcpConnection' \in {m_pTcpConnection, NULL}
  BY DEF HandleClose, removeConnection
<1>2. /\ m_pTcpConnection = c /\ c # NULL /\ Alive(c) /\ conn[c].watched /\ active = {c}
      /\ \A i \in 1..Len(functors) : functors[i].call # "reset"
  BY <1>1, ClosedIsClean
<1>3. /\ Destroyed(c) \in Functor /\ Destroyed(c).call = "destroyed" /\ Destroyed(c).conn = c
  BY DEF Destroyed, Functor
<1>4. /\ functors' \in Seq(Functor) /\ Len(functors) \in Nat /\ Len(functors') = Len(functors) + 1
      /\ \A i \in 1..Len(functors) : functors'[i] = functors[i]
      /\ functors'[Len(functors) + 1] = Destroyed(c) /\ batch \in 0..Len(functors')
      /\ \A i \in 1..Len(functors') : i \in 1..Len(functors) \/ i = Len(functors) + 1
  BY <1>1, <1>3, Appended
<1>5. \A i \in 1..Len(functors') : functors'[i].call # "reset"
  BY <1>2, <1>3, <1>4
<1>6. /\ conn \in [Conn -> ConnType] /\ conn[c] \in ConnType
      /\ conn'[c] = [conn[c] EXCEPT !.watched = FALSE]
      /\ \A d \in Conn : d # c => conn'[d] = conn[d]
  BY <1>1 DEF TypeOK
<1>7. /\ conn'[c] \in ConnType /\ ~conn'[c].watched
      /\ conn'[c].m_eConnectState = conn[c].m_eConnectState
      /\ conn'[c].m_CloseCallBack = conn[c].m_CloseCallBack
  BY <1>6 DEF ConnType
<1>8. conn' \in [Conn -> ConnType]
  BY <1>1, <1>6, <1>7
<1>9. (\A d \in Conn : Alive(d)' <=> Alive(d)) /\ Sockets' = Sockets
  BY <1>6, <1>7 DEF Sockets, Alive
<1>10. Destroyers'
  <2>1. \A i \in 1..Len(functors) : functors[i].call = "destroyed" =>
          LET d == functors[i].conn IN
            d \in Conn /\ Alive(d) /\ ~conn[d].watched /\ d # c /\ conn'[d] = conn[d]
    BY <1>2, <1>6 DEF ConnectionInv
  <2>2. \A i \in 1..Len(functors') : functors'[i].call = "destroyed" =>
          /\ functors'[i].conn \in Conn /\ ~conn'[functors'[i].conn].watched
          /\ conn'[functors'[i].conn].m_eConnectState \in {"Connected", "Disconnecting"}
    BY <1>2, <1>3, <1>4, <1>7, <2>1 DEF Alive
  <2>3. ASSUME NEW i \in 1..Len(functors'), NEW j \in 1..Len(functors'),
               functors'[i].call = "destroyed", functors'[i] = functors'[j]
        PROVE  i = j
    <3>1. CASE i \in 1..Len(functors) /\ j \in 1..Len(functors)
      BY <1>4, <2>3, <3>1 DEF ConnectionInv
    <3>2. CASE i \in 1..Len(functors) /\ j = Len(functors) + 1
      BY <1>3, <1>4, <2>1, <2>3, <3>2
    <3>3. CASE i = Len(functors) + 1 /\ j \in 1..Len(functors)
      BY <1>3, <1>4, <2>1, <2>3, <3>3
    <3> QED
      BY <1>4, <3>1, <3>2, <3>3
  <2> QED
    BY <2>2, <2>3 DEF Destroyers, Alive
<1>11. ConnectionInv'
  <2>1. \A d \in Conn : ~conn'[d].watched
    BY <1>2, <1>6, <1>7 DEF ConnectionInv
  <2>2. \A d \in Conn : d >= m_nNextConnId => conn'[d] = NoConn
    <3>1. conn[c] # NoConn
      BY <1>2 DEF Alive, NoConn
    <3> QED
      BY <1>6, <3>1 DEF ConnectionInv
  <2>3. \A d \in closed \union ({m_pTcpConnection'} \ {NULL}) : conn'[d].m_eConnectState # "None"
    <3>1. closed \subseteq Conn
      BY DEF TypeOK
    <3> QED
      BY <1>1, <1>2, <1>6, <1>7, <3>1 DEF ConnectionInv
  <2> QED
    BY <1>1, <1>2, <1>10, <2>1, <2>2, <2>3 DEF ConnectionInv, Destroyers
<1> QED
  BY <1>1, <1>2, <1>4, <1>5, <1>7, <1>8, <1>9, <1>11

\* The close of a connection, with the client's removeConnection and the Connector's Restart.
LEMMA CloseHandled ==
    ASSUME Good, failed = "no", NEW c \in Conn, HandleClose(c)
    PROVE  Good'
<1> USE DEF Good, Kept
<1>1. /\ c \in active /\ at = "handle"
      /\ UNCHANGED <<clientConnect, m_bRetry, m_nNextConnId, client, batch, at, revents, userAt,
                     closed, starts>>
      /\ m_pTcpConnection' \in {m_pTcpConnection, NULL}
  BY DEF HandleClose, removeConnection
<1>2. /\ m_pTcpConnection = c /\ c # NULL /\ Clean /\ m_eConnectState = "Connected"
  BY <1>1, ClosedIsClean
<1>3. /\ functors' \in Seq(Functor) /\ batch \in 0..Len(functors')
      /\ \A i \in 1..Len(functors') : functors'[i].call # "reset"
      /\ conn' \in [Conn -> ConnType] /\ Sockets' = Sockets /\ active' = {}
      /\ conn'[c].m_CloseCallBack = conn[c].m_CloseCallBack
      /\ ConnectionInv'
  BY DestroyerQueued
<1>4. batch = 0 /\ NoChannel # Removed
  BY <1>1, ChannelFacts DEF ResetInv
<1>5. CASE UNCHANGED <<connectorVars, failed>> /\ (m_pTcpConnection' = NULL => client = "alive")
  <2>1. UNCHANGED <<m_bConnect, m_eConnectState, m_pChannel, m_nRetryDelayMs, attempt, retried,
                    timers, open, lost, connector, failed>>
    BY <1>5 DEF connectorVars
  <2>2. TypeOK'
    BY <1>1, <1>3, <2>1 DEF TypeOK, Functor
  <2>3. ConnectorInv' /\ EventInv'
    BY <1>1, <1>2, <2>1 DEF Clean, ConnectorInv, EventInv
  <2>4. ResetInv'
    BY <1>1, <1>2, <1>3, <1>4, <2>1 DEF ResetInv, Clean
  <2>5. GoneInv'
    BY <1>1, <1>2, <1>3, <1>5, <2>1 DEF GoneInv
  <2>6. DescriptorsOwned'
    BY <1>3, <2>1 DEF DescriptorsOwned, Sockets
  <2> QED
    BY <1>3, <2>1, <2>2, <2>3, <2>4, <2>5, <2>6 DEF NoneFails, CallBacksFindClient
<1>6. CASE m_pTcpConnection' = NULL /\ client = "alive" /\ \E k \in Restart(Connector) : Becomes(k)
  <2>1. PICK k : k = [Connector EXCEPT !.m_eConnectState = "Disconnected",
                                       !.m_nRetryDelayMs = InitRetryDelay, !.m_bConnect = TRUE]
    OBVIOUS
  <2>2. Connector \in ConnectorType /\ InitRetryDelay \in InitRetryDelay..MaxRetryDelay
    BY ConnectorTyped, DelayAssumption
  <2>3. k \in ConnectorType
    BY <2>1, <2>2 DEF ConnectorType
  <2>4. /\ k.m_pChannel = m_pChannel /\ k.open = open /\ k.lost = lost /\ k.attempt = attempt
        /\ k.timers = timers /\ k.m_eConnectState = "Disconnected"
    BY <2>1 DEF Connector
  <2>5. PICK r \in startInLoop(k) : Becomes(r)
    BY <1>6, <2>1 DEF Restart
  <2>6. k.timers = 0 /\ k.timers \in 0..1
    BY <1>2, <2>4 DEF Clean
  <2>7. /\ failed' \in {"no", "start"}
        /\ m_bConnect' \in BOOLEAN /\ m_eConnectState' \in {"Disconnected", "Connecting", "Connected"}
        /\ m_pChannel' \in ChannelType \union {NoChannel}
        /\ m_nRetryDelayMs' \in InitRetryDelay..MaxRetryDelay
        /\ attempt' \in {"none", "pending", "done", "error"} /\ timers' \in 0..1
        /\ retried' \in BOOLEAN /\ open' \in Nat /\ lost' = lost
        /\ UNCHANGED connector
        /\ failed' = "no" =>
             /\ ConnectorInv' /\ EventInv' /\ m_pChannel' # Removed
             /\ Sockets' = Sockets => DescriptorsOwned'
    BY <1>1, <1>2, <1>6, <2>3, <2>4, <2>5, <2>6, Starts
  <2>8. TypeOK'
    BY <1>1, <1>3, <2>7 DEF TypeOK, Functor
  <2>9. ASSUME failed' = "no" PROVE Kept'
    <3>1. ResetInv'
      BY <1>1, <1>3, <1>4, <2>7, <2>9 DEF ResetInv
    <3>2. GoneInv'
      BY <1>1, <1>6 DEF GoneInv
    <3> QED
      BY <1>3, <2>7, <2>9, <3>1, <3>2
  <2> QED
    BY <2>7, <2>8, <2>9 DEF NoneFails, CallBacksFindClient
<1>7. conn[c].m_CloseCallBack = "client" => client = "alive"
  BY <1>2 DEF GoneInv, TypeOK
<1> QED
  BY <1>2, <1>5, <1>6, <1>7 DEF HandleClose, removeConnection

-----------------------------------------------------------------------------
(* startInLoop's assertion                                                  *)

StartSafe ==
    /\ failed = "no" => StartInv
    /\ failed = "start" => retried \/ starts > 1

\* The queue has a startInLoop of Connect.
IsStart(i) == functors[i].call = "start"

\* After a retry, and after a second call of Connect, there is little to say.
LEMMA RetryIsEnough ==
    ASSUME retried' PROVE StartSafe'
  BY DEF StartSafe, StartInv

\* A step that neither makes a call of Connect nor leaves eCS_Disconnected.
LEMMA StartFrame ==
    ASSUME TypeOK, TypeOK', StartInv, failed' # "start", starts' = starts,
           retried' \/ (~retried /\ timers' = timers),
           userAt' \in {"start", "queue"} => userAt \in {"start", "queue"},
           m_eConnectState = "Disconnected" => m_eConnectState' = "Disconnected",
           \A i \in 1..Len(functors') : IsStart(i)' =>
               i \in 1..Len(functors) /\ functors'[i] = functors[i]
    PROVE  StartSafe'
<1>1. CASE retried'
  BY <1>1, RetryIsEnough
<1>2. CASE ~retried'
  <2>1. ~retried /\ timers' = timers
    BY <1>2
  <2>2. timers' # 0 => retried'
    BY <2>1 DEF StartInv
  <2>3. ASSUME starts' < 2
        PROVE  /\ starts' = 0 => m_eConnectState' = "Disconnected"
               /\ userAt' \in {"start", "queue"} => starts' = 1 /\ m_eConnectState' = "Disconnected"
    BY <2>1, <2>3 DEF StartInv
  <2>4. ASSUME starts' < 2, NEW i \in 1..Len(functors'), IsStart(i)'
        PROVE  /\ starts' = 1 /\ m_eConnectState' = "Disconnected"
               /\ userAt' \notin {"start", "queue"}
               /\ \A j \in 1..Len(functors') : IsStart(j)' => i = j
    <3>1. i \in 1..Len(functors) /\ IsStart(i)
      BY <2>4 DEF IsStart
    <3>2. /\ starts = 1 /\ m_eConnectState = "Disconnected" /\ userAt \notin {"start", "queue"}
          /\ \A j \in 1..Len(functors) : IsStart(j) => i = j
      BY <2>1, <2>4, <3>1 DEF StartInv, IsStart
    <3>3. \A j \in 1..Len(functors') : IsStart(j)' => j \in 1..Len(functors) /\ IsStart(j)
      BY DEF IsStart
    <3> QED
      BY <3>2, <3>3
  <2> QED
    BY <2>2, <2>3, <2>4 DEF StartSafe, StartInv, IsStart
<1> QED
  BY <1>1, <1>2

\* A step that leaves the calls of Connect alone and makes no retry.
LEMMA QuietStep ==
    ASSUME TypeOK, TypeOK', StartInv, failed' # "start",
           UNCHANGED <<starts, retried, timers, m_eConnectState, functors>>,
           userAt' \in {"start", "queue"} => userAt \in {"start", "queue"}
    PROVE  StartSafe'
<1>1. retried \in BOOLEAN /\ (timers # 0 => retried)
  BY DEF TypeOK, StartInv
<1>2. CASE retried
  BY <1>2, RetryIsEnough
<1>3. CASE ~retried
  BY <1>3, StartFrame DEF IsStart
<1> QED
  BY <1>1, <1>2, <1>3

\* Another functor at the end of the queue.
LEMMA OtherQueued ==
    ASSUME TypeOK, NEW f \in Functor, f.call # "start", functors' = Append(functors, f)
    PROVE  \A i \in 1..Len(functors') : IsStart(i)' =>
               i \in 1..Len(functors) /\ functors'[i] = functors[i]
<1>1. /\ functors'[Len(functors) + 1] = f
      /\ \A i \in 1..Len(functors) : functors'[i] = functors[i]
      /\ \A i \in 1..Len(functors') : i \in 1..Len(functors) \/ i = Len(functors) + 1
  BY Appended
<1> QED
  BY <1>1 DEF IsStart

\* Calls that do not start anything, the kernel, the peers, the destructor and the loop's round.
LEMMA QuietCalls ==
    ASSUME Good, TypeOK', failed = "no", StartInv,
           \/ LoopStop \/ LoopDisConnect \/ EnableRetry \/ UserShutDown
           \/ UserStop \/ UserDisConnect \/ UserStore
           \/ \E result \in {"done", "error"} : AttemptEnds(result)
           \/ \E c \in Conn : PeerCloses(c)
           \/ Destroy \/ KeepTimer \/ Poll \/ BeginFunctors \/ EndFunctors
    PROVE  StartSafe'
<1> USE DEF Good
<1>1. CASE LoopStop \/ LoopDisConnect \/ EnableRetry \/ UserShutDown
  <2>1. UNCHANGED <<starts, retried, timers, m_eConnectState, functors, failed>>
    BY <1>1, ConnectorTyped
       DEF LoopStop, LoopDisConnect, EnableRetry, UserShutDown, Becomes, Connector, loopVars,
           connectorVars
  <2>2. userAt' \in {userAt, "idle"}
    BY <1>1 DEF LoopStop, LoopDisConnect, EnableRetry, UserShutDown
  <2> QED
    BY <2>1, <2>2, QuietStep
<1>2. CASE UserStop \/ UserDisConnect \/ UserStore
  <2>1. UNCHANGED <<starts, retried, timers, m_eConnectState, functors, failed>>
    BY <1>2 DEF UserStop, UserDisConnect, UserCall, UserStore, Becomes, Connector, loopVars,
                connectorVars
  <2>2. userAt' \in {"start", "queue"} => userAt \in {"start", "queue"}
    BY <1>2 DEF UserStop, UserDisConnect, UserCall, UserStore
  <2> QED
    BY <2>1, <2>2, QuietStep
<1>3. CASE \/ \E result \in {"done", "error"} : AttemptEnds(result)
           \/ \E c \in Conn : PeerCloses(c)
  BY <1>3, QuietStep DEF AttemptEnds, PeerCloses, loopVars, connectorVars
<1>4. CASE Destroy \/ KeepTimer
  <2>1. UNCHANGED <<starts, retried, timers, m_eConnectState, functors, userAt>>
    BY <1>4 DEF Destroy, KeepTimer, loopVars
  <2>2. failed' # "start"
    BY <1>4 DEF Destroy, KeepTimer
  <2> QED
    BY <2>1, <2>2, QuietStep
<1>5. CASE Poll \/ BeginFunctors \/ EndFunctors
  BY <1>5, QuietStep DEF Poll, BeginFunctors, EndFunctors, connectorVars
<1> QED
  BY <1>1, <1>2, <1>3, <1>4, <1>5

\* Connect: without a retry, the first call finds eCS_Disconnected and no call before it.
LEMMA ConnectCalled ==
    ASSUME Good, TypeOK', failed = "no", StartInv, LoopConnect \/ UserConnect
    PROVE  StartSafe'
<1> USE DEF Good
<1>1. starts' = starts + 1 /\ starts \in Nat /\ functors' = functors
  BY DEF LoopConnect, UserConnect, UserCall, loopVars, TypeOK
<1>2. CASE retried'
  BY <1>2, RetryIsEnough
<1>3. CASE LoopConnect /\ ~retried'
  <2>1. PICK k : k = [Connector EXCEPT !.m_bConnect = TRUE]
    OBVIOUS
  <2>2. k \in ConnectorType /\ k.retried = retried /\ k.timers = timers
        /\ k.m_eConnectState = m_eConnectState /\ k.failed = "no" /\ k.m_pChannel = m_pChannel
    <3>1. k \in ConnectorType
      BY <2>1, ConnectorTyped DEF ConnectorType
    <3> QED
      BY <2>1, <3>1 DEF Connector
  <2>3. PICK s \in startInLoop(k) : Becomes(s)
    BY <1>3, <2>1 DEF LoopConnect
  <2>4. /\ ~retried /\ timers' = timers
        /\ failed' = "start" => m_eConnectState # "Disconnected"
    BY <1>3, <2>2, <2>3, StartEffect
  <2>5. starts = 0 => m_eConnectState = "Disconnected"
                      /\ \A i \in 1..Len(functors) : ~IsStart(i)
    BY <2>4 DEF StartInv, IsStart
  <2>6. userAt' = userAt /\ (starts = 0 => userAt \notin {"start", "queue"})
    BY <1>3, <2>4 DEF LoopConnect, StartInv
  <2>7. timers' # 0 => retried'
    BY <2>4 DEF StartInv
  <2>8. CASE starts = 0
    BY <1>1, <2>4, <2>5, <2>6, <2>7, <2>8 DEF StartSafe, StartInv, IsStart
  <2>9. CASE starts # 0
    BY <1>1, <2>7, <2>9 DEF StartSafe, StartInv
  <2> QED
    BY <2>8, <2>9
<1>4. CASE UserConnect /\ ~retried'
  <2>1. UNCHANGED <<timers, retried, failed, m_eConnectState>>
    BY <1>4 DEF UserConnect, UserCall, connectorVars
  <2>2. starts = 0 => m_eConnectState = "Disconnected"
                      /\ \A i \in 1..Len(functors) : ~IsStart(i)
    BY <1>4, <2>1 DEF StartInv, IsStart
  <2>3. (timers' # 0 => retried') /\ failed' # "start"
    BY <2>1 DEF StartInv
  <2>4. CASE starts = 0
    BY <1>1, <2>1, <2>2, <2>3, <2>4 DEF StartSafe, StartInv, IsStart
  <2>5. CASE starts # 0
    BY <1>1, <2>3, <2>5 DEF StartSafe, StartInv
  <2> QED
    BY <2>4, <2>5
<1> QED
  BY <1>2, <1>3, <1>4

\* The functor of the user's Connect takes the place of its call.
LEMMA CallQueued ==
    ASSUME Good, TypeOK', failed = "no", StartInv, UserQueue
    PROVE  StartSafe'
<1> USE DEF Good
<1>1. /\ UNCHANGED <<timers, retried, failed, m_eConnectState, starts>>
      /\ userAt = "queue" /\ userAt' = "idle" /\ functors' = Append(functors, Call("start"))
  BY DEF UserQueue, connectorVars
<1>2. CASE retried'
  BY <1>2, RetryIsEnough
<1>3. CASE ~retried' /\ starts < 2
  <2>1. starts = 1 /\ m_eConnectState = "Disconnected" /\ \A i \in 1..Len(functors) : ~IsStart(i)
    BY <1>1, <1>3 DEF StartInv, IsStart
  <2>2. Call("start") \in Functor
    BY DEF Call, Functor
  <2>3. /\ \A i \in 1..Len(functors) : functors'[i] = functors[i]
        /\ \A i \in 1..Len(functors') : i \in 1..Len(functors) \/ i = Len(functors) + 1
    BY <1>1, <2>2, Appended
  <2>4. \A i \in 1..Len(functors') : IsStart(i)' => i = Len(functors) + 1
    BY <2>1, <2>3 DEF IsStart
  <2>5. timers' # 0 => retried'
    BY <1>1 DEF StartInv
  <2> QED
    BY <1>1, <2>1, <2>4, <2>5 DEF StartSafe, StartInv, IsStart
<1>4. CASE ~retried' /\ ~(starts < 2)
  BY <1>1, <1>4 DEF StartSafe, StartInv
<1> QED
  BY <1>2, <1>3, <1>4

\* The only queued startInLoop before a retry finds eCS_Disconnected.
LEMMA FunctorStarts ==
    ASSUME Good, TypeOK', failed = "no", StartInv, RunFunctor
    PROVE  StartSafe'
<1> USE DEF Good
<1>1. /\ batch > 0 /\ batch' = batch - 1 /\ functors' = Tail(functors)
      /\ UNCHANGED <<starts, userAt>>
  BY DEF RunFunctor
<1>2. /\ Head(functors) = functors[1] /\ functors[1] \in Functor /\ 1 \in 1..Len(functors)
      /\ \A i \in 1..Len(functors') : functors'[i] = functors[i + 1] /\ i + 1 \in 1..Len(functors)
      /\ Len(functors') \in Nat
  BY <1>1, QueueMoves
<1>3. CASE retried'
  BY <1>3, RetryIsEnough
<1>4. ASSUME ~retried', timers' = timers, ~retried, UNCHANGED m_eConnectState, failed' # "start"
      PROVE  StartSafe'
  <2>1. timers' # 0 => retried'
    BY <1>4 DEF StartInv
  <2>2. ASSUME NEW i \in 1..Len(functors'), starts < 2, IsStart(i)'
        PROVE  /\ starts = 1 /\ m_eConnectState = "Disconnected"
               /\ userAt \notin {"start", "queue"}
               /\ \A j \in 1..Len(functors') : IsStart(j)' => i = j
    <3>1. i + 1 \in 1..Len(functors) /\ IsStart(i + 1)
      BY <1>2, <2>2 DEF IsStart
    <3>2. /\ starts = 1 /\ m_eConnectState = "Disconnected" /\ userAt \notin {"start", "queue"}
          /\ \A j \in 1..Len(functors) : IsStart(j) => i + 1 = j
      BY <1>4, <2>2, <3>1 DEF StartInv, IsStart
    <3>3. ASSUME NEW j \in 1..Len(functors'), IsStart(j)'
          PROVE  i = j
      <4>1. j + 1 \in 1..Len(functors) /\ IsStart(j + 1)
        BY <1>2, <3>3 DEF IsStart
      <4>2. i + 1 = j + 1
        BY <3>2, <4>1
      <4> QED
        BY <4>2
    <3> QED
      BY <3>2, <3>3
  <2> QED
    BY <1>1, <1>4, <2>1, <2>2 DEF StartSafe, StartInv, IsStart
<1>5. CASE functors[1].call = "destroyed" /\ ~retried'
  <2>1. ConnectedDestroyed(functors[1].conn)
    BY <1>2, <1>5 DEF RunFunctor
  <2>2. UNCHANGED <<timers, retried, m_eConnectState>> /\ failed' # "start"
    BY <2>1 DEF ConnectedDestroyed, Becomes, Connector
  <2> QED
    BY <1>4, <1>5, <2>2
<1>6. CASE functors[1].call # "destroyed" /\ ~retried'
  <2>1. RunConnector(functors[1].call) /\ functors[1].call \in {"start", "reset"}
    BY <1>2, <1>6 DEF RunFunctor, Functor
  <2>2. CASE connector = "gone"
    <3>1. Becomes([Connector EXCEPT !.failed = "dangling"])
      BY <2>1, <2>2 DEF RunConnector
    <3>2. UNCHANGED <<timers, retried, m_eConnectState>> /\ failed' = "dangling"
      BY <3>1 DEF Becomes, Connector
    <3> QED
      BY <1>4, <1>6, <3>2
  <2>3. CASE connector # "gone" /\ functors[1].call = "reset"
    <3>1. Becomes(resetChannel(Connector))
      BY <2>1, <2>3 DEF RunConnector
    <3>2. UNCHANGED <<timers, retried, m_eConnectState>> /\ failed' # "start"
      BY <3>1 DEF Becomes, Connector, resetChannel
    <3> QED
      BY <1>4, <1>6, <3>2
  <2>4. CASE connector # "gone" /\ functors[1].call = "start"
    <3>1. PICK s \in startInLoop(Connector) : Becomes(s)
      BY <2>1, <2>4 DEF RunConnector
    <3>2. /\ Connector.retried = retried /\ Connector.timers = timers
          /\ Connector.m_eConnectState = m_eConnectState /\ Connector.failed = "no"
          /\ Connector.m_pChannel = m_pChannel
      BY DEF Connector
    <3>3. /\ ~retried /\ timers' = timers
          /\ failed' = "start" => m_eConnectState # "Disconnected"
      BY <1>6, <3>1, <3>2, ConnectorTyped, StartEffect
    <3>4. IsStart(1)
      BY <2>4 DEF IsStart
    <3>5. starts < 2 =>
            /\ starts = 1 /\ m_eConnectState = "Disconnected" /\ userAt \notin {"start", "queue"}
            /\ \A j \in 1..Len(functors) : IsStart(j) => 1 = j
      BY <1>2, <3>3, <3>4 DEF StartInv, IsStart
    <3>6. ASSUME starts < 2, NEW i \in 1..Len(functors')
          PROVE  ~IsStart(i)'
      <4>1. i + 1 # 1 /\ i + 1 \in 1..Len(functors) /\ functors'[i] = functors[i + 1]
        BY <1>2
      <4> QED
        BY <3>5, <3>6, <4>1 DEF IsStart
    <3>7. timers' # 0 => retried'
      BY <3>3 DEF StartInv
    <3>8. starts \in Nat
      BY DEF TypeOK
    <3>9. failed' = "start" => starts > 1
      BY <3>3, <3>5, <3>8
    <3> QED
      BY <1>1, <3>5, <3>6, <3>7, <3>9 DEF StartSafe, StartInv, IsStart
  <2> QED
    BY <2>1, <2>2, <2>3, <2>4
<1> QED
  BY <1>3, <1>5, <1>6

\* A retry's timer.
LEMMA TimerStarts ==
    ASSUME Good, TypeOK', failed = "no", StartInv, RetryTimer
    PROVE  StartSafe'
<1> USE DEF Good
<1>1. timers > 0 /\ retried /\ timers \in 0..1
  BY DEF RetryTimer, StartInv, TypeOK
<1>2. PICK k : k = [Connector EXCEPT !.timers = @ - 1]
  OBVIOUS
<1>3. k \in ConnectorType /\ k.retried = retried
  <2>1. timers - 1 \in Nat /\ Connector.timers = timers /\ Connector.retried = retried
    BY <1>1 DEF Connector
  <2> QED
    BY <1>2, <2>1, ConnectorTyped DEF ConnectorType
<1>4. CASE connector = "gone"
  <2>1. Becomes([k EXCEPT !.failed = "dangling"])
    BY <1>2, <1>4 DEF RetryTimer
  <2>2. retried' = retried
    BY <1>3, <2>1 DEF Becomes, ConnectorType
  <2> QED
    BY <1>1, <2>2, RetryIsEnough
<1>5. CASE connector # "gone"
  <2>1. PICK s \in startInLoop(k) : Becomes(s)
    BY <1>2, <1>5 DEF RetryTimer
  <2>2. retried'
    BY <1>1, <1>3, <2>1, StartEffect
  <2> QED
    BY <2>2, RetryIsEnough
<1> QED
  BY <1>4, <1>5

\* The events of an attempt do not find eCS_Disconnected.
LEMMA AttemptHandled ==
    ASSUME Good, TypeOK', failed = "no", StartInv, handleError \/ handleWrite
    PROVE  StartSafe'
<1> USE DEF Good, Kept
<1>1. /\ revents # {} /\ starts' = starts /\ userAt' = userAt
  BY DEF handleError, handleWrite
<1>2. \/ m_eConnectState = "Connecting" /\ lost = 0
      \/ m_eConnectState = "Connected" /\ revents = {"out"}
  BY <1>1 DEF EventInv
<1>3. Call("reset") \in Functor /\ Call("reset").call # "start"
  BY DEF Call, Functor
<1>4. ASSUME functors' = Append(functors, Call("reset")), failed' # "start",
             retried' \/ (~retried /\ timers' = timers), m_eConnectState = "Connecting"
      PROVE  StartSafe'
  BY <1>1, <1>3, <1>4, OtherQueued, StartFrame
<1>5. CASE m_eConnectState = "Connected"
  <2>1. handleWrite
    BY <1>2, <1>5 DEF handleError
  <2>2. Becomes([Connector EXCEPT !.failed = failed]) /\ UNCHANGED functors
    <3>1. Connector.failed = failed
      BY DEF Connector
    <3> QED
      BY <1>5, <2>1, <3>1 DEF handleWrite
  <2>3. UNCHANGED <<timers, retried, m_eConnectState, failed>>
    BY <2>2 DEF Becomes, Connector
  <2> QED
    BY <1>1, <2>2, <2>3, QuietStep
<1>6. CASE m_eConnectState = "Connecting" /\ lost = 0
  <2>1. PICK k : k = removeAndResetChannel(Connector)
    OBVIOUS
  <2>2. k \in ConnectorType /\ k.timers = timers /\ k.retried = retried /\ k.failed = "no"
    BY <1>6, <2>1, AttemptOwns, RemovedChannel
  <2>3. functors' = Append(functors, Call("reset"))
    BY <1>6 DEF handleError, handleWrite
  <2>4. retried \in BOOLEAN /\ (timers # 0 => retried)
    BY DEF TypeOK, StartInv
  <2>5. CASE Becomes(retry(k))
    <3>1. failed' = "no" /\ (retried' \/ (~retried /\ timers' = timers))
      BY <2>2, <2>5, RetryEffect
    <3> QED
      BY <1>4, <1>6, <2>3, <3>1
  <2>6. ASSUME timers' = timers, retried' = retried, failed' # "start" PROVE StartSafe'
    BY <1>4, <1>6, <2>3, <2>4, <2>6
  <2>7. CASE Becomes([k EXCEPT !.lost = @ + 1])
    <3>1. timers' = timers /\ retried' = retried /\ failed' = "no"
      BY <2>2, <2>7 DEF Becomes, ConnectorType
    <3> QED
      BY <2>6, <3>1
  <2>8. PICK connected : connected = [k EXCEPT !.m_eConnectState = "Connected"]
    OBVIOUS
  <2>9. /\ connected \in ConnectorType /\ connected.timers = timers
        /\ connected.retried = retried /\ connected.failed = "no"
    BY <2>2, <2>8 DEF ConnectorType
  <2>10. CASE Becomes(NotWanted(connected))
    <3>1. timers' = timers /\ retried' = retried /\ failed' = "no"
      BY <2>9, <2>10 DEF Becomes, NotWanted, ConnectorType
    <3> QED
      BY <2>6, <3>1
  <2>11. CASE Becomes([connected EXCEPT !.failed = IF client = "alive" THEN @ ELSE "client"])
    <3>1. timers' = timers /\ retried' = retried /\ failed' # "start"
      BY <2>9, <2>11 DEF Becomes, ConnectorType
    <3> QED
      BY <2>6, <3>1
  <2> QED
    BY <1>6, <2>1, <2>5, <2>7, <2>8, <2>10, <2>11 DEF handleError, handleWrite
<1> QED
  BY <1>2, <1>5, <1>6

\* A connection that closes was made by an attempt: no call of Connect is still to run, and
\* Restart finds the state it sets.
LEMMA CloseStarts ==
    ASSUME Good, TypeOK', failed = "no", StartInv, NEW c \in Conn, HandleClose(c)
    PROVE  StartSafe'
<1> USE DEF Good
<1>1. /\ c \in active /\ at = "handle" /\ functors' = Append(functors, Destroyed(c))
      /\ UNCHANGED <<starts, userAt>>
  BY DEF HandleClose
<1>2. m_eConnectState = "Connected"
  BY <1>1, ClosedIsClean
<1>3. Destroyed(c) \in Functor /\ Destroyed(c).call # "start"
  BY DEF Destroyed, Functor
<1>4. ASSUME failed' # "start", retried' \/ (~retried /\ timers' = timers)
      PROVE  StartSafe'
  BY <1>1, <1>2, <1>3, <1>4, OtherQueued, StartFrame
<1>5. retried \in BOOLEAN /\ (timers # 0 => retried)
  BY DEF TypeOK, StartInv
<1>6. CASE UNCHANGED <<connectorVars, failed>>
  BY <1>4, <1>5, <1>6 DEF connectorVars
<1>7. CASE Becomes([Connector EXCEPT !.failed = IF client = "alive" THEN "remove" ELSE "client"])
  <2>1. UNCHANGED <<timers, retried>> /\ failed' # "start"
    BY <1>7 DEF Becomes, Connector
  <2> QED
    BY <1>4, <1>5, <2>1
<1>8. CASE \E k \in Restart(Connector) : Becomes(k)
  <2>1. PICK k : k = [Connector EXCEPT !.m_eConnectState = "Disconnected",
                                       !.m_nRetryDelayMs = InitRetryDelay, !.m_bConnect = TRUE]
    OBVIOUS
  <2>2. InitRetryDelay \in InitRetryDelay..MaxRetryDelay
    BY DelayAssumption
  <2>3. k \in ConnectorType
    BY <2>1, <2>2, ConnectorTyped DEF ConnectorType
  <2>4. /\ k.retried = retried /\ k.timers = timers /\ k.m_eConnectState = "Disconnected"
        /\ k.failed = "no" /\ k.m_pChannel = m_pChannel
    BY <2>1 DEF Connector
  <2>5. PICK s \in startInLoop(k) : Becomes(s)
    BY <1>8, <2>1 DEF Restart
  <2>6. failed' # "start" /\ (retried' \/ (~retried /\ timers' = timers))
    BY <2>3, <2>4, <2>5, StartEffect
  <2> QED
    BY <1>4, <2>6
<1> QED
  BY <1>6, <1>7, <1>8 DEF HandleClose, removeConnection

-----------------------------------------------------------------------------
(* The theorems                                                             *)

LEMMA Initially == Init => Good
<1> SUFFICES ASSUME Init PROVE Good
  OBVIOUS
<1>1. NoConn \in ConnType /\ NoConn.m_eConnectState = "None" /\ ~NoConn.watched
  BY DEF NoConn, ConnType
<1>2. functors = <<>> /\ Len(functors) = 0
  BY DEF Init
<1>3. TypeOK
  <2>1. 1 \in 1..(MaxConn + 1) /\ InitRetryDelay \in InitRetryDelay..MaxRetryDelay /\ 0 \in 0..MaxStarts
    BY BoundAssumption, DelayAssumption
  <2>2. functors \in Seq([call : {"start", "reset", "destroyed"}, conn : Conn \union {NULL}])
    BY <1>2
  <2>3. conn \in [Conn -> ConnType]
    BY <1>1 DEF Init
  <2>4. /\ m_nNextConnId \in 1..(MaxConn + 1) /\ starts \in 0..MaxStarts /\ timers \in 0..1
        /\ lost \in 0..1 /\ open \in Nat /\ batch \in 0..Len(functors)
        /\ m_nRetryDelayMs \in InitRetryDelay..MaxRetryDelay
    BY <1>2, <2>1 DEF Init
  <2>5. revents \subseteq {"err", "out"} /\ active \subseteq Conn /\ closed \subseteq Conn
    BY DEF Init
  <2> QED
    BY <2>2, <2>3, <2>4, <2>5 DEF Init, TypeOK
<1>4. ConnectorInv /\ EventInv /\ GoneInv
  BY DEF Init, ConnectorInv, EventInv, GoneInv
<1>5. ResetInv
  BY <1>2, ChannelFacts DEF Init, ResetInv
<1>6. ConnectionInv
  BY <1>1, <1>2 DEF Init, ConnectionInv
<1>7. DescriptorsOwned
  <2>1. {c \in Conn : Alive(c)} = {}
    BY <1>1 DEF Init, Alive
  <2> QED
    BY <2>1, FS_EmptySet DEF Init, DescriptorsOwned
<1> QED
  BY <1>3, <1>4, <1>5, <1>6, <1>7 DEF Good, Kept, Init, NoneFails, CallBacksFindClient

LEMMA Steps == Good /\ [Next]_vars => Good'
<1> SUFFICES ASSUME Good, [Next]_vars PROVE Good'
  OBVIOUS
<1>1. CASE UNCHANGED vars
  <2>1. UNCHANGED <<clientVars, connectorVars, loopVars, userAt, closed, failed, starts>>
    BY <1>1 DEF vars
  <2>2. TypeOK'
    BY <2>1 DEF Good, TypeOK, clientVars, connectorVars, loopVars
  <2>3. NoneFails' /\ CallBacksFindClient'
    BY <2>1 DEF Good, NoneFails, CallBacksFindClient
  <2>4. ConnectorInv' = ConnectorInv /\ EventInv' = EventInv /\ ResetInv' = ResetInv /\ GoneInv' = GoneInv
    BY <2>1 DEF ConnectorInv, EventInv, ResetInv, GoneInv, clientVars, connectorVars, loopVars
  <2>5. ConnectionInv' = ConnectionInv /\ DescriptorsOwned' = DescriptorsOwned
    BY <2>1 DEF ConnectionInv, DescriptorsOwned, Alive, clientVars, connectorVars, loopVars
  <2> QED
    BY <2>1, <2>2, <2>3, <2>4, <2>5 DEF Good, Kept
<1>2. CASE Next
  <2>1. failed = "no"
    BY <1>2 DEF Next
  <2>2. CASE RunFunctor
    BY <2>1, <2>2, ConnectorFunctors, DestroyFunctor
  <2>3. CASE LoopStep
    BY <2>1, <2>2, <2>3, Round, ErrorHandled, WriteHandled, CloseHandled DEF LoopStep
  <2>4. CASE LoopCall \/ RetryTimer \/ KeepTimer
    BY <2>1, <2>4, LoopStarts, FlagCalls, Destruction DEF LoopCall, KeepTimer
  <2>5. CASE UserConnect \/ UserStop \/ UserDisConnect \/ UserStep
    BY <2>1, <2>5, UserCalls, UserQueues, FlagCalls DEF UserStep
  <2>6. CASE \/ \E result \in {"done", "error"} : AttemptEnds(result)
             \/ \E c \in Conn : PeerCloses(c)
    BY <2>1, <2>6, Outside
  <2> QED
    BY <1>2, <2>3, <2>4, <2>5, <2>6 DEF Next
<1> QED
  BY <1>1, <1>2

LEMMA ClientInvariant == Spec => []Good
  BY Initially, Steps, PTL DEF Spec

LEMMA StartSteps == Good /\ StartSafe /\ [Next]_vars => StartSafe'
<1> SUFFICES ASSUME Good, StartSafe, [Next]_vars PROVE StartSafe'
  OBVIOUS
<1>1. CASE UNCHANGED vars
  BY <1>1 DEF vars, connectorVars, loopVars, StartSafe, StartInv
<1>2. CASE Next
  <2>1. failed = "no" /\ StartInv /\ TypeOK'
    BY <1>2, Steps DEF Next, StartSafe, Good
  <2>2. CASE LoopStep
    BY <2>1, <2>2, QuietCalls, AttemptHandled, CloseStarts, FunctorStarts DEF LoopStep
  <2>3. CASE LoopCall \/ RetryTimer \/ KeepTimer
    BY <2>1, <2>3, QuietCalls, ConnectCalled, TimerStarts DEF LoopCall
  <2>4. CASE UserConnect \/ UserStop \/ UserDisConnect \/ UserStep
    BY <2>1, <2>4, QuietCalls, ConnectCalled, CallQueued DEF UserStep
  <2>5. CASE \/ \E result \in {"done", "error"} : AttemptEnds(result)
             \/ \E c \in Conn : PeerCloses(c)
    BY <2>1, <2>5, QuietCalls
  <2> QED
    BY <1>2, <2>2, <2>3, <2>4, <2>5 DEF Next
<1> QED
  BY <1>1, <1>2

LEMMA StartInvariant == Spec => []StartSafe
<1>1. Init => StartSafe
  <2> SUFFICES ASSUME Init PROVE StartSafe
    OBVIOUS
  <2>1. Len(functors) = 0
    BY DEF Init
  <2> QED
    BY <2>1 DEF Init, StartSafe, StartInv
<1> QED
  BY <1>1, StartSteps, ClientInvariant, PTL DEF Spec

\* The types of client and Connector, for any number of connections and of calls: the retry
\* delay stays between its limits and one retry timer at most is set.
THEOREM ClientTypeCorrect == Spec => []TypeOK
<1>1. Good => TypeOK
  BY DEF Good
<1> QED
  BY <1>1, ClientInvariant, PTL

\* There is one attempt at a time, whatever the user, the callbacks and the kernel do: the
\* assertions of connecting, handleWrite, handleError, removeConnection and ConnectedDestroyed
\* hold, resetChannel deletes no registered channel, a retry's timer is set only without an
\* attempt and a connection, and startInLoop's assertion fails only after a retry or a second
\* call of Connect.
THEOREM OneAttemptAtATime == Spec => []OneAttempt
<1>1. Good /\ StartSafe => OneAttempt
  <2> SUFFICES ASSUME Good, StartSafe PROVE OneAttempt
    OBVIOUS
  <2>1. failed = "no" /\ timers # 0 => m_eConnectState # "Connecting" /\ m_pTcpConnection = NULL
    BY DEF Good, Kept, ConnectorInv
  <2> QED
    BY <2>1 DEF Good, NoneFails, StartSafe, OneAttempt
<1> QED
  BY <1>1, ClientInvariant, StartInvariant, PTL

\* No callback of the Connector or of a connection reaches a client that is gone.
THEOREM CallBacksReachClient == Spec => []CallBacksFindClient
<1>1. Good => CallBacksFindClient
  BY DEF Good
<1> QED
  BY <1>1, ClientInvariant, PTL

\* Every descriptor that connect() opened is the attempt's, a connection's, or the one that
\* handleWrite lost.
THEOREM DescriptorsHaveOwners == Spec => []DescriptorsOwned
<1>1. Good => DescriptorsOwned
  BY DEF Good, Kept, DescriptorsOwned
<1> QED
  BY <1>1, ClientInvariant, PTL
=============================================================================
