----------------------------- MODULE TcpClient ------------------------------
(***************************************************************************)
(* reactor/TcpClient with its Connector: attempts to connect, retries, the   *)
(* one connection, reconnection, and the destruction of the client.  The     *)
(* loop thread does everything but the calls of one other thread, the user,  *)
(* who may call Connect, DisConnect and Stop; callbacks on the loop thread    *)
(* may call them too, and may destroy the client.                            *)
(*                                                                         *)
(* Of a connection only its state, its channel and its close callback are    *)
(* kept.  EventLoop::Cancel has no effect on the retry timer, because its     *)
(* TimerId never matches (TimerQueue).                                       *)
(***************************************************************************)
EXTENDS Naturals, Sequences, FiniteSets, Channel

CONSTANTS
    MaxConn,        \* bound: connections made
    MaxStarts,      \* bound: calls of Connect
    InitRetryDelay, MaxRetryDelay

ASSUME DelayAssumption ==
    InitRetryDelay \in Nat \ {0} /\ MaxRetryDelay \in Nat /\ InitRetryDelay <= MaxRetryDelay
ASSUME BoundAssumption == MaxConn \in Nat /\ MaxStarts \in Nat

VARIABLES
    clientConnect, m_bRetry,    \* TcpClient::m_bConnect and m_bRetry
    m_pTcpConnection, m_nNextConnId,
    conn,                       \* each connection
    m_bConnect, m_eConnectState, m_pChannel, m_nRetryDelayMs,   \* the Connector's
    attempt,                    \* what the kernel made of the last connect
    timers,                     \* retry timers that have not fired
    client, connector,          \* "alive", "gone", or "kept" by the destructor's timer
    functors, batch, at,        \* the loop: queue, what is left of this round, place
    revents, active,            \* the events to handle: the connector's, connections'
    userAt,                     \* where the user is in its call
    closed,                     \* connections whose peer closed
    failed,                     \* the assertion, or dangling call, that ended the process
    starts, retried, open, lost \* calls of Connect; a retry was made; descriptors open,
                                \* and those handleWrite forgot (history)

clientVars == <<clientConnect, m_bRetry, m_pTcpConnection, m_nNextConnId, conn, client>>
connectorVars == <<m_bConnect, m_eConnectState, m_pChannel, m_nRetryDelayMs, timers, connector,
                   attempt, retried, open, lost>>
loopVars == <<functors, batch, at, revents, active>>
vars == <<clientVars, connectorVars, loopVars, userAt, closed, failed, starts>>

Conn == 1..MaxConn
NULL == 0
NoChannel == [m_nIndex |-> "NULL", m_nEvents |-> {}]
NoConn == [m_eConnectState |-> "None", watched |-> FALSE, m_CloseCallBack |-> "client"]

Init ==
    /\ clientConnect = FALSE /\ m_bRetry = FALSE
    /\ m_pTcpConnection = NULL /\ m_nNextConnId = 1
    /\ conn = [c \in Conn |-> NoConn]
    /\ m_bConnect = FALSE /\ m_eConnectState = "Disconnected" /\ m_pChannel = NoChannel
    /\ m_nRetryDelayMs = InitRetryDelay
    /\ attempt = "none" /\ timers = 0
    /\ client = "alive" /\ connector = "alive"
    /\ functors = <<>> /\ batch = 0 /\ at = "functors" /\ revents = {} /\ active = {}
    /\ userAt = "idle" /\ closed = {} /\ failed = "no"
    /\ starts = 0 /\ retried = FALSE /\ open = 0 /\ lost = 0

Call(call) == [call |-> call, conn |-> NULL]
Destroyed(c) == [call |-> "destroyed", conn |-> c]

-----------------------------------------------------------------------------
(* The Connector's attempts.  startInLoop's result is a record of what it    *)
(* changes; from is the Connector before it.                                 *)

Connector == [m_bConnect |-> m_bConnect, m_eConnectState |-> m_eConnectState,
              m_pChannel |-> m_pChannel, m_nRetryDelayMs |-> m_nRetryDelayMs,
              timers |-> timers, attempt |-> attempt, retried |-> retried, open |-> open,
              lost |-> lost, failed |-> failed]

Becomes(k) ==
    /\ m_bConnect' = k.m_bConnect /\ m_eConnectState' = k.m_eConnectState
    /\ m_pChannel' = k.m_pChannel /\ m_nRetryDelayMs' = k.m_nRetryDelayMs
    /\ timers' = k.timers /\ attempt' = k.attempt /\ retried' = k.retried
    /\ open' = k.open /\ lost' = k.lost /\ failed' = k.failed
    /\ UNCHANGED connector

\* The next retry's delay.
Doubled(delay) == IF 2 * delay < MaxRetryDelay THEN 2 * delay ELSE MaxRetryDelay

\* Mutant: the next attempt is not left to a timer.
retryAtOnce(k) ==
    [k EXCEPT !.open = @ - 1, !.m_eConnectState = "Connecting", !.retried = TRUE,
              !.attempt = "pending", !.m_pChannel = EnableWriting(NewChannel),
              !.failed = IF k.m_pChannel = NoChannel THEN @ ELSE "channel"]

\* retry: the socket is closed, the state becomes eCS_Connected, a timer is set.
retry(k) ==
    [k EXCEPT !.open = @ - 1, !.m_eConnectState = "Connected",
              !.timers = IF k.m_bConnect THEN @ + 1 ELSE @,
              !.retried = @ \/ k.m_bConnect,
              !.m_nRetryDelayMs = IF k.m_bConnect THEN Doubled(@) ELSE @]

connecting(k) ==
    [k EXCEPT !.m_eConnectState = "Connecting", !.attempt = "pending",
              !.m_pChannel = EnableWriting(NewChannel),
              !.failed = IF k.m_pChannel = NoChannel THEN @ ELSE "channel"]

\* connect(2) is under way, is refused with an error to retry after, or with another.
connect(k) ==
    LET opened == [k EXCEPT !.open = @ + 1]
    IN  {connecting(opened), retry(opened), k}

startInLoop(k) ==
    IF k.m_eConnectState # "Disconnected" THEN {[k EXCEPT !.failed = "start"]}
    ELSE IF k.m_bConnect THEN connect(k) ELSE {k}

Restart(k) ==
    startInLoop([k EXCEPT !.m_eConnectState = "Disconnected",
                          !.m_nRetryDelayMs = InitRetryDelay, !.m_bConnect = TRUE])

\* removeAndResetChannel: the channel leaves the poller; resetChannel is queued.
removeAndResetChannel(k) == [k EXCEPT !.m_pChannel = RemoveChannel(DisableAll(@))]

\* What the kernel makes of an attempt; one that succeeded may be reset.
AttemptEnds(result) ==
    /\ \/ attempt = "pending" /\ (result = "done" => m_nNextConnId <= MaxConn)
       \/ attempt = "done" /\ result = "error" /\ Watched(m_pChannel)
    /\ attempt' = result
    /\ UNCHANGED <<clientVars, m_bConnect, m_eConnectState, m_pChannel, m_nRetryDelayMs, timers,
                   connector, retried, open, lost, loopVars, userAt, closed, failed, starts>>

-----------------------------------------------------------------------------
(* Calls of the loop thread, from any callback                              *)

InCallBack == at # "poll" /\ client = "alive"

\* Connect() asserts that m_bConnect is not set: a duty of callers, kept here and in UserConnect.
LoopConnect ==
    /\ InCallBack
    /\ ~clientConnect /\ starts < MaxStarts
    /\ clientConnect' = TRUE
    /\ starts' = starts + 1
    /\ \E k \in startInLoop([Connector EXCEPT !.m_bConnect = TRUE]) : Becomes(k)
    /\ UNCHANGED <<m_bRetry, m_pTcpConnection, m_nNextConnId, conn, client, loopVars, userAt,
                   closed>>

LoopStop ==
    /\ InCallBack
    /\ clientConnect' = FALSE
    /\ Becomes([Connector EXCEPT !.m_bConnect = FALSE])
    /\ UNCHANGED <<m_bRetry, m_pTcpConnection, m_nNextConnId, conn, client, loopVars, userAt,
                   closed, starts>>

\* m_pTcpConnection->ShutDown(), under m_Mutex.
ShutDown ==
    conn' = [c \in Conn |->
               IF c = m_pTcpConnection /\ conn[c].m_eConnectState = "Connected"
                 THEN [conn[c] EXCEPT !.m_eConnectState = "Disconnecting"] ELSE conn[c]]

LoopDisConnect ==
    /\ InCallBack
    /\ clientConnect' = FALSE
    /\ ShutDown
    /\ UNCHANGED <<m_bRetry, m_pTcpConnection, m_nNextConnId, client, connectorVars, loopVars,
                   userAt, closed, failed, starts>>

EnableRetry ==
    /\ InCallBack
    /\ m_bRetry' = TRUE
    /\ UNCHANGED <<clientConnect, m_pTcpConnection, m_nNextConnId, conn, client, connectorVars,
                   loopVars, userAt, closed, failed, starts>>

\* Mutant: the destructor leaves the close callback as it is.
DestroyKeepsCallBack ==
    /\ InCallBack /\ userAt = "idle"
    /\ client' = "gone"
    /\ IF m_pTcpConnection # NULL
         THEN /\ connector' = "gone"
              /\ failed' = IF m_pChannel = NoChannel THEN failed ELSE "connector"
              /\ UNCHANGED m_bConnect
         ELSE m_bConnect' = FALSE /\ connector' = "kept" /\ UNCHANGED failed
    /\ UNCHANGED <<clientConnect, m_bRetry, m_pTcpConnection, m_nNextConnId, conn, timers,
                   m_eConnectState, m_pChannel, m_nRetryDelayMs, attempt, retried, open, lost,
                   loopVars, userAt, closed, starts>>

\* ~TcpClient.  With a connection, its close callback is replaced and the Connector goes,
\* and the connection too unless somebody else holds it.  Without one, the Connector is
\* stopped, and kept by a timer of one second.
Destroy ==
    /\ InCallBack /\ userAt = "idle"
    /\ client' = "gone"
    /\ IF m_pTcpConnection # NULL
         THEN /\ connector' = "gone"
              /\ conn' = [conn EXCEPT ![m_pTcpConnection].m_CloseCallBack = "detail"]
              /\ failed' \in {IF m_pChannel = NoChannel THEN failed ELSE "connector", "connection"}
              /\ UNCHANGED m_bConnect
         ELSE m_bConnect' = FALSE /\ connector' = "kept" /\ UNCHANGED <<conn, failed>>
    /\ UNCHANGED <<clientConnect, m_bRetry, m_pTcpConnection, m_nNextConnId, timers,
                   m_eConnectState, m_pChannel, m_nRetryDelayMs, attempt, retried, open, lost,
                   loopVars, userAt, closed, starts>>

-----------------------------------------------------------------------------
(* Calls of the user, step by step: TcpClient's flag, then the Connector's.   *)

UserCall(place, flag) ==
    /\ userAt = "idle" /\ client = "alive"
    /\ clientConnect' = flag
    /\ userAt' = place
    /\ UNCHANGED <<m_bRetry, m_pTcpConnection, m_nNextConnId, conn, client, connectorVars,
                   loopVars, closed, failed>>

UserConnect ==
    /\ ~clientConnect /\ starts < MaxStarts
    /\ starts' = starts + 1
    /\ UserCall("start", TRUE)

UserStop == UserCall("stop", FALSE) /\ UNCHANGED starts
UserDisConnect == UserCall("shutdown", FALSE) /\ UNCHANGED starts

\* Connector::Start's and Stop's store.
UserStore ==
    /\ userAt \in {"start", "stop"}
    /\ userAt' = IF userAt = "start" THEN "queue" ELSE "idle"
    /\ Becomes([Connector EXCEPT !.m_bConnect = (userAt = "start")])
    /\ UNCHANGED <<clientVars, loopVars, closed, starts>>

UserQueue ==
    /\ userAt = "queue"
    /\ functors' = Append(functors, Call("start"))
    /\ userAt' = "idle"
    /\ UNCHANGED <<clientVars, connectorVars, batch, at, revents, active, closed, failed, starts>>

UserShutDown ==
    /\ userAt = "shutdown"
    /\ ShutDown
    /\ userAt' = "idle"
    /\ UNCHANGED <<clientConnect, m_bRetry, m_pTcpConnection, m_nNextConnId, client,
                   connectorVars, loopVars, closed, failed, starts>>

-----------------------------------------------------------------------------
(* Events                                                                   *)

PeerCloses(c) ==
    /\ conn[c].m_eConnectState \in {"Connected", "Disconnecting"} /\ c \notin closed
    /\ closed' = closed \union {c}
    /\ UNCHANGED <<clientVars, connectorVars, loopVars, userAt, failed, starts>>

\* What epoll reports of the connector's channel, which asks for writability.
Reported ==
    IF ~Watched(m_pChannel) \/ attempt = "pending" THEN {}
    ELSE IF attempt = "done" THEN {"out"} ELSE {"err", "out"}

Poll ==
    /\ at = "poll"
    /\ at' = "handle"
    /\ revents' \in {{}, Reported}
    /\ active' \in SUBSET {c \in closed : conn[c].watched}
    /\ UNCHANGED <<clientVars, connectorVars, functors, batch, userAt, closed, failed, starts>>

\* The connector's channel: handleError, then handleWrite.
handleError ==
    /\ at = "handle" /\ "err" \in revents
    /\ revents' = revents \ {"err"}
    /\ functors' = Append(functors, Call("reset"))
    /\ Becomes(IF m_eConnectState = "Connecting" THEN retry(removeAndResetChannel(Connector))
                                                 ELSE [Connector EXCEPT !.failed = "error"])
    /\ UNCHANGED <<clientVars, batch, at, active, userAt, closed, starts>>

\* TcpClient::newConnection.
newConnection ==
    /\ conn' = [conn EXCEPT ![m_nNextConnId] =
                  [m_eConnectState |-> "Connected", watched |-> TRUE, m_CloseCallBack |-> "client"]]
    /\ m_pTcpConnection' = m_nNextConnId
    /\ m_nNextConnId' = m_nNextConnId + 1
    /\ UNCHANGED <<clientConnect, m_bRetry, client>>

\* Mutant: a socket nobody wants any more is not closed.
NotWantedKept(k) == k

\* The connection came too late: Stop was called.
NotWanted(k) == [k EXCEPT !.open = @ - 1]

handleWrite ==
    LET removed == removeAndResetChannel(Connector)
        connected == [removed EXCEPT !.m_eConnectState = "Connected"]
    IN  /\ at = "handle" /\ revents = {"out"}
        /\ revents' = {}
        /\ IF m_eConnectState = "Connecting"
             THEN /\ functors' = Append(functors, Call("reset"))
                  /\ \/ /\ attempt = "error"      \* SO_ERROR
                        /\ Becomes([removed EXCEPT !.lost = @ + 1]) /\ UNCHANGED clientVars
                     \/ /\ attempt = "done"       \* connected to itself
                        /\ Becomes(retry(removed)) /\ UNCHANGED clientVars
                     \/ /\ attempt = "done" /\ ~m_bConnect
                        /\ Becomes(NotWanted(connected)) /\ UNCHANGED clientVars
                     \/ /\ attempt = "done" /\ m_bConnect
                        /\ Becomes([connected EXCEPT !.failed = IF client = "alive" THEN @ ELSE "client"])
                        /\ newConnection
             ELSE /\ Becomes([Connector EXCEPT !.failed =
                                IF m_eConnectState = "Connected" THEN @ ELSE "write"])
                  /\ UNCHANGED <<clientVars, functors>>
        /\ UNCHANGED <<batch, at, active, userAt, closed, starts>>

\* Mutant: the Connector is not restarted.
removeConnectionOnly(c) ==
    IF client # "alive" \/ m_pTcpConnection # c
      THEN /\ Becomes([Connector EXCEPT !.failed = IF client = "alive" THEN "remove" ELSE "client"])
           /\ UNCHANGED m_pTcpConnection
      ELSE /\ m_pTcpConnection' = NULL
           /\ UNCHANGED <<connectorVars, failed>>

\* TcpClient::removeConnection, with the Connector's Restart.
removeConnection(c) ==
    IF client # "alive" \/ m_pTcpConnection # c
      THEN /\ Becomes([Connector EXCEPT !.failed = IF client = "alive" THEN "remove" ELSE "client"])
           /\ UNCHANGED m_pTcpConnection
      ELSE /\ m_pTcpConnection' = NULL
           /\ IF m_bRetry /\ clientConnect THEN \E k \in Restart(Connector) : Becomes(k)
                                           ELSE UNCHANGED <<connectorVars, failed>>

\* handleClose of a connection, and its close callback.
HandleClose(c) ==
    /\ at = "handle" /\ c \in active
    /\ active' = active \ {c}
    /\ conn' = [conn EXCEPT ![c].watched = FALSE]
    /\ functors' = Append(functors, Destroyed(c))
    /\ IF conn[c].m_CloseCallBack = "client"
         THEN removeConnection(c)
         ELSE UNCHANGED <<m_pTcpConnection, connectorVars, failed>>
    /\ UNCHANGED <<clientConnect, m_bRetry, m_nNextConnId, client, batch, at, revents, userAt,
                   closed, starts>>

\* A retry timer calls startInLoop.
RetryTimer ==
    /\ at = "handle" /\ timers > 0
    /\ LET fired == [Connector EXCEPT !.timers = @ - 1]
       IN  \E k \in IF connector = "gone" THEN {[fired EXCEPT !.failed = "dangling"]}
                                          ELSE startInLoop(fired) : Becomes(k)
    /\ UNCHANGED <<clientVars, loopVars, userAt, closed, starts>>

\* The destructor's timer lets the Connector go: ~Connector asserts that it has no channel.
KeepTimer ==
    /\ at = "handle" /\ connector = "kept"
    /\ connector' = "gone"
    /\ failed' = IF m_pChannel = NoChannel THEN failed ELSE "connector"
    /\ UNCHANGED <<clientVars, m_bConnect, m_eConnectState, m_pChannel, m_nRetryDelayMs, timers,
                   attempt, retried, open, lost, loopVars, userAt, closed, starts>>

-----------------------------------------------------------------------------
(* doPendingFunctors                                                        *)

BeginFunctors ==
    /\ at = "handle" /\ revents = {} /\ active = {}
    /\ at' = "functors"
    /\ batch' = Len(functors)
    /\ UNCHANGED <<clientVars, connectorVars, functors, revents, active, userAt, closed, failed,
                   starts>>

EndFunctors ==
    /\ at = "functors" /\ batch = 0
    /\ at' = "poll"
    /\ UNCHANGED <<clientVars, connectorVars, functors, batch, revents, active, userAt, closed,
                   failed, starts>>

\* resetChannel deletes the channel; deleting one that is registered is an error.
resetChannel(k) ==
    [k EXCEPT !.m_pChannel = NoChannel, !.failed = IF Watched(k.m_pChannel) THEN "reset" ELSE @]

\* startInLoop and resetChannel are bound to a plain pointer.
RunConnector(call) ==
    /\ \E k \in IF connector = "gone" THEN {[Connector EXCEPT !.failed = "dangling"]}
                ELSE IF call = "start" THEN startInLoop(Connector) ELSE {resetChannel(Connector)} :
         Becomes(k)
    /\ UNCHANGED conn

\* ConnectedDestroyed; the connection, and its socket, go with the functor.
ConnectedDestroyed(c) ==
    /\ conn' = [conn EXCEPT ![c].m_eConnectState = "Disconnected"]
    /\ Becomes([Connector EXCEPT !.open = @ - 1,
                  !.failed = IF conn[c].m_eConnectState \in {"Connected", "Disconnecting"}
                               THEN @ ELSE "destroyed"])

RunFunctor ==
    /\ at = "functors" /\ batch > 0
    /\ batch' = batch - 1
    /\ functors' = Tail(functors)
    /\ LET f == Head(functors)
       IN  IF f.call = "destroyed" THEN ConnectedDestroyed(f.conn) ELSE RunConnector(f.call)
    /\ UNCHANGED <<clientConnect, m_bRetry, m_pTcpConnection, m_nNextConnId, client, at, revents,
                   active, userAt, closed, starts>>

-----------------------------------------------------------------------------

LoopStep ==
    \/ Poll \/ handleError \/ handleWrite \/ BeginFunctors \/ EndFunctors \/ RunFunctor
    \/ \E c \in Conn : HandleClose(c)

LoopCall == LoopConnect \/ LoopStop \/ LoopDisConnect \/ EnableRetry \/ Destroy
UserStep == UserStore \/ UserQueue \/ UserShutDown

Next ==
    /\ failed = "no"
    /\ \/ LoopStep \/ RetryTimer \/ KeepTimer \/ LoopCall
       \/ UserConnect \/ UserStop \/ UserDisConnect \/ UserStep
       \/ \E result \in {"done", "error"} : AttemptEnds(result)
       \/ \E c \in Conn : PeerCloses(c)

Spec == Init /\ [][Next]_vars

\* The loop goes on, the kernel decides every attempt, and epoll, which is level-triggered,
\* reports what stays ready.
FairSpec ==
    /\ Spec
    /\ WF_vars(failed = "no" /\ LoopStep)
    /\ WF_vars(failed = "no" /\ attempt = "pending" /\ AttemptEnds("error"))
    /\ SF_vars(failed = "no" /\ Poll /\ revents' # {})
    /\ \A c \in Conn : SF_vars(failed = "no" /\ Poll /\ c \in active')

-----------------------------------------------------------------------------

ConnType == [m_eConnectState : {"None", "Connected", "Disconnecting", "Disconnected"},
             watched : BOOLEAN, m_CloseCallBack : {"client", "detail"}]

Alive(c) == conn[c].m_eConnectState \in {"Connected", "Disconnecting"}

\* The type invariant: the retry delay stays between its limits, one retry timer at most is
\* set, and a connection's number is used once.
TypeOK ==
    /\ clientConnect \in BOOLEAN /\ m_bRetry \in BOOLEAN /\ m_bConnect \in BOOLEAN
    /\ m_pTcpConnection \in Conn \union {NULL} /\ m_nNextConnId \in 1..(MaxConn + 1)
    /\ conn \in [Conn -> ConnType]
    /\ m_eConnectState \in {"Disconnected", "Connecting", "Connected"}
    /\ m_pChannel \in ChannelType \union {NoChannel}
    /\ m_nRetryDelayMs \in InitRetryDelay..MaxRetryDelay
    /\ attempt \in {"none", "pending", "done", "error"} /\ timers \in 0..1
    /\ client \in {"alive", "gone"} /\ connector \in {"alive", "kept", "gone"}
    /\ functors \in Seq([call : {"start", "reset", "destroyed"}, conn : Conn \union {NULL}])
    /\ batch \in 0..Len(functors) /\ at \in {"poll", "handle", "functors"}
    /\ revents \subseteq {"err", "out"} /\ active \subseteq Conn /\ closed \subseteq Conn
    /\ userAt \in {"idle", "start", "queue", "stop", "shutdown"}
    /\ starts \in 0..MaxStarts /\ retried \in BOOLEAN /\ open \in Nat /\ lost \in 0..1

\* One attempt at a time, whoever calls Connect and Stop meanwhile: connecting() never finds a
\* channel, resetChannel never deletes a registered one, handleError and handleWrite find the
\* state they assert, the client never has a second connection or loses one, and while a retry's
\* timer is set there is neither an attempt nor a connection.  startInLoop's own assertion
\* (m_eConnectState is eCS_Disconnected) fails only after a retry or a second call of Connect:
\* a first attempt and the one that replaces a connection always start.  ~Connector's is not
\* claimed: it fails when the client goes while its attempt has a channel.
OneAttempt ==
    /\ failed \notin {"channel", "reset", "error", "write", "remove", "destroyed"}
    /\ failed = "no" /\ timers # 0 => m_eConnectState # "Connecting" /\ m_pTcpConnection = NULL
    /\ failed = "start" => retried \/ starts > 1

\* newConnection and removeConnection are never called on a client that was destroyed on its
\* loop: the destructor's Stop and its new close callback reach all that may still come.
CallBacksFindClient == failed # "client"

\* Every descriptor that connect() opened has an owner: the attempt's channel or a connection.
\* handleWrite loses one when SO_ERROR is set.
DescriptorsOwned ==
    failed = "no" =>
        open = lost + (IF m_eConnectState = "Connecting" /\ lost = 0 THEN 1 ELSE 0)
               + Cardinality({c \in Conn : Alive(c)})

\* What makes them inductive.  While an attempt is under way there is no connection, and its
\* channel is registered, unless handleWrite lost its descriptor; a retry timer is set only
\* while the state says Connected without a connection, and nothing leaves that state.
Removed == NewChannel
ConnectorInv ==
    /\ m_eConnectState = "Disconnected" => m_pChannel = NoChannel
    /\ m_eConnectState = "Connected" => m_pChannel \in {Removed, NoChannel}
    /\ m_eConnectState = "Connecting" =>
         IF lost = 0 THEN m_pChannel = EnableWriting(NewChannel)
                     ELSE m_pChannel \in {Removed, NoChannel}
    /\ m_eConnectState = "Connecting" /\ attempt = "done" => m_nNextConnId <= MaxConn
    /\ lost # 0 => m_eConnectState = "Connecting"
    /\ m_pTcpConnection # NULL => m_eConnectState = "Connected"
    /\ timers # 0 => m_eConnectState = "Connected" /\ m_pTcpConnection = NULL

\* The events of this round are the attempt's; the second finds what the first made of it.
EventInv ==
    revents # {} =>
        /\ at = "handle" /\ m_pTcpConnection = NULL /\ revents \in {{"out"}, {"err", "out"}}
        /\ \/ m_eConnectState = "Connecting" /\ lost = 0
           \/ m_eConnectState = "Connected" /\ revents = {"out"}

\* resetChannel runs in the round that queued it: before the loop polls again, and so before
\* the close of a connection can start the next attempt.
ResetInv ==
    /\ at # "functors" => batch = 0
    /\ \A i \in 1..Len(functors) : functors[i].call = "reset" =>
         /\ at = "handle" \/ i <= batch
         /\ m_eConnectState = "Connected" \/ lost # 0
         /\ m_pTcpConnection \notin active
    /\ m_pChannel = Removed => \E i \in 1..Len(functors) : functors[i].call = "reset"

\* Only the client's connection is watched.  A closed one has one functor that destroys it.
ConnectionInv ==
    /\ \A c \in Conn : c >= m_nNextConnId => conn[c] = NoConn
    /\ \A c \in Conn : conn[c].watched => m_pTcpConnection = c /\ Alive(c)
    /\ \A c \in closed \union ({m_pTcpConnection} \ {NULL}) : conn[c].m_eConnectState # "None"
    /\ \A c \in active : conn[c].watched
    /\ \A i \in 1..Len(functors) : functors[i].call = "destroyed" =>
         LET c == functors[i].conn IN c \in Conn /\ Alive(c) /\ ~conn[c].watched
    /\ \A i, j \in 1..Len(functors) :
         functors[i].call = "destroyed" /\ functors[i] = functors[j] => i = j

\* What startInLoop's assertion rests on before there was a retry or a second call of Connect:
\* the call's functor is queued at most once, and nothing leaves eCS_Disconnected before it.
StartInv ==
    /\ timers # 0 => retried
    /\ ~retried /\ starts < 2 =>
         /\ starts = 0 => m_eConnectState = "Disconnected"
         /\ userAt \in {"start", "queue"} => starts = 1 /\ m_eConnectState = "Disconnected"
         /\ \A i \in 1..Len(functors) : functors[i].call = "start" =>
              /\ starts = 1 /\ m_eConnectState = "Disconnected"
              /\ userAt \notin {"start", "queue"}
              /\ \A j \in 1..Len(functors) : functors[j].call = "start" => i = j

\* A client that is gone has detached its connection, or stopped its Connector for good.
GoneInv ==
    client = "gone" =>
        /\ userAt = "idle"
        /\ IF m_pTcpConnection = NULL THEN ~m_bConnect
                                      ELSE conn[m_pTcpConnection].m_CloseCallBack = "detail"

\* A client that retries replaces a connection its peer closed: it makes a new attempt, or has
\* made one that failed and was to be retried, unless it is told to stop or is destroyed.
ClosedIsReplaced ==
    \A c \in Conn :
        c \in closed /\ m_pTcpConnection = c /\ m_bRetry /\ clientConnect
            ~> \/ failed # "no" \/ ~clientConnect \/ client = "gone"
               \/ m_pTcpConnection # c /\ (m_eConnectState # "Connected" \/ retried)
=============================================================================
