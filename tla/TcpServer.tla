----------------------------- MODULE TcpServer ------------------------------
(***************************************************************************)
(* reactor/TcpServer with its Acceptor and EventLoopThreadPool: the life of  *)
(* the connections across loops.  Loop Base accepts and keeps                *)
(* m_mpConnection; the loops of the pool do the input and output.  Of a        *)
(* connection's data only what reaches its Channel is kept (TcpConnection    *)
(* has the rest).                                                           *)
(*                                                                         *)
(* A callback on a connection's loop may call Send and ShutDown for it.      *)
(***************************************************************************)
EXTENDS Naturals, Sequences, FiniteSets, Channel

CONSTANTS Conn,         \* the connections peers may make
          MaxThreads,   \* bound: I/O loops
          MaxPending    \* bound: no connection ends while Base has more functors queued

ASSUME MaxThreadsAssumption == MaxThreads \in Nat

VARIABLES
    m_bStared, m_nNumThreads,
    m_bListenning,      \* Acceptor's flag, which its constructor leaves unset
    listening,          \* the accept channel is registered
    m_nNext,            \* EventLoopThreadPool's next loop
    m_mpConnection,     \* the connections in the map
    conn,               \* each connection that was accepted
    closed,             \* the connections with nothing left to read but their end
    functors, batch,    \* each loop's queue, and how much of it this round will run
    at, active,         \* where each loop is, and the channels it has still to handle,
                        \* each with whether poll saw the end of its connection
    accepting,          \* the accept channel is among Base's
    failed              \* the assertion that ended the process

serverVars == <<m_bStared, m_nNumThreads, m_bListenning, listening>>
vars == <<serverVars, m_nNext, m_mpConnection, conn, closed, functors, batch, at, active,
          accepting, failed>>

Base == 0
Loops == 0..MaxThreads

NoConn == [m_pEventLoop |-> Base, m_eConnectState |-> "None", m_pChannel |-> NewChannel]

Init ==
    /\ m_bStared = FALSE /\ m_nNumThreads = 0 /\ m_bListenning \in BOOLEAN /\ listening = FALSE
    /\ m_nNext = 0
    /\ m_mpConnection = {} /\ closed = {}
    /\ conn = [c \in Conn |-> NoConn]
    /\ functors = [l \in Loops |-> <<>>] /\ batch = [l \in Loops |-> 0]
    /\ at = [l \in Loops |-> "functors"] /\ active = [l \in Loops |-> {}]
    /\ accepting = FALSE /\ failed = "no"

-----------------------------------------------------------------------------
(* EventLoopThreadPool                                                      *)

\* GetNextLoop: the loop it returns, and the index it leaves.
NextLoop == IF m_nNumThreads = 0 THEN Base ELSE m_nNext + 1

Advance == IF m_nNext + 1 >= m_nNumThreads THEN 0 ELSE m_nNext + 1

-----------------------------------------------------------------------------
(* Start and newConnection, on Base                                         *)

\* Before Start; afterwards it has no effect on m_vLoops.
SetThreadNum(n) ==
    /\ ~m_bStared
    /\ m_nNumThreads' = n
    /\ UNCHANGED <<m_bStared, m_bListenning, listening, m_nNext, m_mpConnection, conn, closed,
                   functors, batch, at, active, accepting, failed>>

\* The pool's loops run from here on; Listen is skipped if m_bListenning says so.
Start ==
    /\ ~m_bStared
    /\ m_bStared' = TRUE
    /\ m_bListenning' = TRUE
    /\ listening' = ~m_bListenning
    /\ UNCHANGED <<m_nNumThreads, m_nNext, m_mpConnection, conn, closed, functors, batch, at, active,
                   accepting, failed>>

Accepted == [m_pEventLoop |-> NextLoop, m_eConnectState |-> "Connecting",
             m_pChannel |-> NewChannel]

\* ConnectedEstablished: connection k afterwards.
Established(k) == [k EXCEPT !.m_eConnectState = "Connected", !.m_pChannel = EnableReading(@)]

\* Mutant: ConnectedEstablished is queued, but on Base.
newConnectionOnBase(c) ==
    /\ m_mpConnection' = m_mpConnection \union {c}
    /\ m_nNext' = Advance
    /\ conn' = [conn EXCEPT ![c] = Accepted]
    /\ functors' = [functors EXCEPT ![Base] = Append(@, [call |-> "established", conn |-> c])]

\* newConnection assigns c to a loop; on Base ConnectedEstablished is called at once.
newConnection(c) ==
    /\ m_mpConnection' = m_mpConnection \union {c}
    /\ m_nNext' = Advance
    /\ IF NextLoop = Base
         THEN conn' = [conn EXCEPT ![c] = Established(Accepted)] /\ UNCHANGED functors
         ELSE /\ conn' = [conn EXCEPT ![c] = Accepted]
              /\ functors' = [functors EXCEPT ![NextLoop] =
                                Append(@, [call |-> "established", conn |-> c])]

\* Acceptor::handleRead: accept4 returns a connection, or an expected error, which is logged.
AcceptorHandleRead ==
    /\ accepting
    /\ accepting' = FALSE
    /\ \/ \E c \in Conn : conn[c] = NoConn /\ newConnection(c)
       \/ UNCHANGED <<m_nNext, m_mpConnection, conn, functors>>
    /\ UNCHANGED <<serverVars, closed, batch, at, active, failed>>

\* An error Sockets::Accept does not expect, such as ENFILE or ENOMEM: LOG_FATAL.
AcceptFails ==
    /\ accepting
    /\ accepting' = FALSE
    /\ failed' = "accept"
    /\ UNCHANGED <<serverVars, m_nNext, m_mpConnection, conn, closed, functors, batch, at, active>>

PeerCloses(c) ==
    /\ conn[c] # NoConn /\ c \notin closed
    /\ closed' = closed \union {c}
    /\ UNCHANGED <<serverVars, m_nNext, m_mpConnection, conn, functors, batch, at, active,
                   accepting, failed>>

-----------------------------------------------------------------------------
(* removeConnection                                                         *)

\* removeConnectionInLoop of c, the functor queues being q.
removeConnectionInLoop(c, q) ==
    /\ m_mpConnection' = m_mpConnection \ {c}
    /\ m_nNext' = Advance
    /\ functors' = [q EXCEPT ![NextLoop] = Append(@, [call |-> "destroyed", conn |-> c])]
    /\ failed' = IF c \in m_mpConnection THEN failed ELSE "erase"

\* Mutant: handleClose does not call m_CloseCallBack.
handleCloseOnly(l, c) ==
    /\ conn' = [conn EXCEPT ![c].m_pChannel = DisableAll(@)]
    /\ UNCHANGED <<functors, m_mpConnection, m_nNext, failed>>

\* handleClose with m_CloseCallBack: on Base removeConnectionInLoop is called at once.
handleClose(l, c) ==
    /\ conn' = [conn EXCEPT ![c].m_pChannel = DisableAll(@)]
    /\ IF l = Base
         THEN removeConnectionInLoop(c, functors)
         ELSE /\ functors' = [functors EXCEPT ![Base] =
                                Append(@, [call |-> "remove", conn |-> c])]
              /\ UNCHANGED <<m_mpConnection, m_nNext, failed>>

-----------------------------------------------------------------------------
(* One loop                                                                 *)

On(l) == {c \in Conn : conn[c] # NoConn /\ conn[c].m_pEventLoop = l}

\* The loop's channels epoll may report, and those of them it reports as ended: a
\* channel that does not read sees only a reset.
Ready(l) == {c \in On(l) : Watched(conn[c].m_pChannel)}
MustEnd(c) == c \in closed /\ "read" \in conn[c].m_pChannel.m_nEvents

Poll(l) ==
    /\ m_bStared /\ l <= m_nNumThreads
    /\ at[l] = "poll"
    /\ \E ready \in SUBSET Ready(l) : \E ended \in SUBSET (ready \cap closed) :
         /\ {c \in ready : MustEnd(c)} \subseteq ended
         /\ active' = [active EXCEPT ![l] = (ended \X {TRUE}) \union ((ready \ ended) \X {FALSE})]
    /\ accepting' \in IF l = Base THEN {FALSE, listening} ELSE {accepting}
    /\ at' = [at EXCEPT ![l] = "handle"]
    /\ UNCHANGED <<serverVars, m_nNext, m_mpConnection, conn, closed, functors, batch, failed>>

\* HandleEvent of a connection that has ended.
HandleClosed(l, c) ==
    /\ <<c, TRUE>> \in active[l]
    /\ Len(functors[Base]) < MaxPending
    /\ active' = [active EXCEPT ![l] = @ \ {<<c, TRUE>>}]
    /\ IF conn[c].m_eConnectState \in {"Connected", "Disconnecting"}
         THEN handleClose(l, c)
         ELSE failed' = "close" /\ UNCHANGED <<m_mpConnection, m_nNext, conn, functors>>
    /\ UNCHANGED <<serverVars, closed, batch, at, accepting>>

\* Of another: input, or output that drains m_OutputBuffer or does not.
HandleOpen(l, c) ==
    /\ <<c, FALSE>> \in active[l]
    /\ active' = [active EXCEPT ![l] = @ \ {<<c, FALSE>>}]
    /\ \/ UNCHANGED conn
       \/ /\ IsWriting(conn[c].m_pChannel)
          /\ conn' = [conn EXCEPT ![c].m_pChannel = DisableWriting(@)]
    /\ UNCHANGED <<serverVars, m_nNext, m_mpConnection, closed, functors, batch, at,
                   accepting, failed>>

\* A callback's Send that the kernel does not take at once: sendInLoop waits for room.
SendBlocks(c) ==
    LET l == conn[c].m_pEventLoop
    IN  /\ conn[c].m_eConnectState = "Connected"
        /\ at[l] # "poll"
        /\ ~IsWriting(conn[c].m_pChannel)
        /\ conn' = [conn EXCEPT ![c].m_pChannel = EnableWriting(@)]
        /\ UNCHANGED <<serverVars, m_nNext, m_mpConnection, closed, functors, batch, at,
                       active, accepting, failed>>

\* A callback's ShutDown.
ShutDown(c) ==
    LET l == conn[c].m_pEventLoop
    IN  /\ conn[c].m_eConnectState = "Connected"
        /\ at[l] # "poll"
        /\ conn' = [conn EXCEPT ![c].m_eConnectState = "Disconnecting"]
        /\ UNCHANGED <<serverVars, m_nNext, m_mpConnection, closed, functors, batch, at,
                       active, accepting, failed>>

BeginFunctors(l) ==
    /\ at[l] = "handle" /\ active[l] = {} /\ ~(l = Base /\ accepting)
    /\ at' = [at EXCEPT ![l] = "functors"]
    /\ batch' = [batch EXCEPT ![l] = Len(functors[l])]
    /\ UNCHANGED <<serverVars, m_nNext, m_mpConnection, conn, closed, functors, active,
                   accepting, failed>>

EndFunctors(l) ==
    /\ at[l] = "functors" /\ batch[l] = 0
    /\ at' = [at EXCEPT ![l] = "poll"]
    /\ UNCHANGED <<serverVars, m_nNext, m_mpConnection, conn, closed, functors, batch, active,
                   accepting, failed>>

-----------------------------------------------------------------------------
(* Functors                                                                 *)

RunEstablished(l, c, rest) ==
    /\ conn' = [conn EXCEPT ![c] = Established(@)]
    /\ functors' = rest
    /\ failed' = IF conn[c].m_pEventLoop = l /\ conn[c].m_eConnectState = "Connecting"
                   THEN failed ELSE "established"
    /\ UNCHANGED <<m_mpConnection, m_nNext>>

\* Mutants: ConnectedDestroyed without its DisableAll, or without its RemoveChannel.
RunDestroyedNoDisable(l, c, rest) ==
    /\ conn' = [conn EXCEPT ![c].m_eConnectState = "Disconnected",
                            ![c].m_pChannel = RemoveChannel(@)]
    /\ functors' = rest
    /\ failed' = IF CanRemove(conn[c].m_pChannel) THEN failed ELSE "destroyed"
    /\ UNCHANGED <<m_mpConnection, m_nNext>>

RunDestroyedNoRemove(l, c, rest) ==
    /\ conn' = [conn EXCEPT ![c].m_eConnectState = "Disconnected",
                            ![c].m_pChannel = DisableAll(@)]
    /\ functors' = rest
    /\ failed' = IF conn[c].m_pEventLoop # l THEN "thread" ELSE failed
    /\ UNCHANGED <<m_mpConnection, m_nNext>>

\* ConnectedDestroyed: AssertInLoopThread, the state, and RemoveChannel's assertions.
RunDestroyed(l, c, rest) ==
    LET quiet == DisableAll(conn[c].m_pChannel)
    IN  /\ conn' = [conn EXCEPT ![c].m_eConnectState = "Disconnected",
                                ![c].m_pChannel = RemoveChannel(quiet)]
        /\ functors' = rest
        /\ failed' = IF conn[c].m_pEventLoop # l THEN "thread"
                     ELSE IF /\ conn[c].m_eConnectState \in {"Connected", "Disconnecting"}
                             /\ CanRemove(quiet)
                       THEN failed ELSE "destroyed"
        /\ UNCHANGED <<m_mpConnection, m_nNext>>

RunFunctor(l) ==
    /\ at[l] = "functors" /\ batch[l] > 0
    /\ batch' = [batch EXCEPT ![l] = @ - 1]
    /\ LET f == Head(functors[l])
           rest == [functors EXCEPT ![l] = Tail(@)]
       IN  \/ f.call = "established" /\ RunEstablished(l, f.conn, rest)
           \/ f.call = "destroyed" /\ RunDestroyed(l, f.conn, rest)
           \/ f.call = "remove" /\ removeConnectionInLoop(f.conn, rest) /\ UNCHANGED conn
    /\ UNCHANGED <<serverVars, closed, at, active, accepting>>

-----------------------------------------------------------------------------

LoopStep(l) ==
    \/ Poll(l) \/ BeginFunctors(l) \/ EndFunctors(l) \/ RunFunctor(l)
    \/ \E c \in Conn : HandleClosed(l, c) \/ HandleOpen(l, c)

Next ==
    /\ failed = "no"
    /\ \/ Start \/ AcceptorHandleRead \/ AcceptFails
       \/ \E n \in 0..MaxThreads : SetThreadNum(n)
       \/ \E l \in Loops : LoopStep(l)
       \/ \E c \in Conn : PeerCloses(c) \/ SendBlocks(c) \/ ShutDown(c)

Spec == Init /\ [][Next]_vars

\* epoll is level-triggered: a channel that stays ready is reported.
FairSpec ==
    /\ Spec
    /\ WF_vars(failed = "no" /\ AcceptorHandleRead)
    /\ \A l \in Loops : WF_vars(failed = "no" /\ LoopStep(l))
    /\ \A l \in Loops, c \in Conn :
         SF_vars(failed = "no" /\ Poll(l) /\ <<c, TRUE>> \in active'[l])

-----------------------------------------------------------------------------

ConnType == [m_pEventLoop : Loops, m_pChannel : ChannelType,
             m_eConnectState : {"None", "Connecting", "Connected", "Disconnecting", "Disconnected"}]

Functor == [call : {"established", "destroyed", "remove"}, conn : Conn]

\* The type invariant: GetNextLoop's index stays below the number of loops, a round runs no more
\* functors than there are, and a loop's active channels are its own.
TypeOK ==
    /\ m_bStared \in BOOLEAN /\ m_bListenning \in BOOLEAN /\ listening \in BOOLEAN
    /\ m_nNumThreads \in 0..MaxThreads
    /\ m_nNext \in 0..m_nNumThreads /\ (m_nNumThreads > 0 => m_nNext < m_nNumThreads)
    /\ m_mpConnection \subseteq Conn /\ closed \subseteq Conn
    /\ conn \in [Conn -> ConnType]
    /\ functors \in [Loops -> Seq(Functor)] /\ batch \in [Loops -> Nat]
    /\ at \in [Loops -> {"poll", "handle", "functors"}]
    /\ active \in [Loops -> SUBSET (Conn \X BOOLEAN)]
    /\ \A l \in Loops : batch[l] <= Len(functors[l]) /\ active[l] \subseteq On(l) \X BOOLEAN
    /\ accepting \in BOOLEAN
    /\ failed \in {"no", "established", "close", "erase", "thread", "destroyed", "accept"}

\* Nothing goes on before Start: what keeps the index below a number of loops that is set late.
StartedInv ==
    ~m_bStared => /\ m_nNext = 0 /\ ~accepting /\ ~listening
                  /\ \A l \in Loops : functors[l] = <<>> /\ active[l] = {}

\* Every functor on loop l that is bound to connection c.
Bound(l, c) == {i \in 1..Len(functors[l]) : functors[l][i].conn = c}

\* A connection that a poller may report, or has reported, exists: the map or a
\* functor that is still queued owns it.
WatchedIsOwned ==
    failed = "no" =>
      \A l \in Loops : \A c \in On(l) :
        (Watched(conn[c].m_pChannel) \/ <<c, TRUE>> \in active[l] \/ <<c, FALSE>> \in active[l])
            => (c \in m_mpConnection \/ \E k \in Loops : Bound(k, c) # {})

\* A connection is watched only on its own loop's initiative: ConnectedEstablished
\* runs once, on that loop, and before any event or any removal.
EstablishedFirst ==
    /\ failed # "established"
    /\ \A c \in Conn : conn[c].m_eConnectState = "Connecting" =>
         /\ c \in m_mpConnection /\ conn[c].m_pChannel = NewChannel
         /\ Cardinality(Bound(conn[c].m_pEventLoop, c)) = 1

\* What makes the two inductive.  A connection has its types' initial record until it is accepted.
NoneInv == \A c \in Conn : conn[c].m_eConnectState = "None" => conn[c] = NoConn

\* A loop has active channels only while it handles them.
PlaceInv == \A l \in Loops : at[l] # "handle" => active[l] = {}

\* Functor f on loop l: "established" waits there for its connection, the others come after it.
FunctorOK(f, l) ==
    IF f.call = "established"
      THEN conn[f.conn].m_eConnectState = "Connecting" /\ conn[f.conn].m_pEventLoop = l
      ELSE conn[f.conn].m_eConnectState \notin {"None", "Connecting"}
FunctorInv == \A l \in Loops : \A i \in 1..Len(functors[l]) : FunctorOK(functors[l][i], l)

\* A connection that waits to be established has one functor, on its loop.
ConnectingInv ==
    \A c \in Conn : conn[c].m_eConnectState = "Connecting" =>
        /\ c \in m_mpConnection /\ conn[c].m_pChannel = NewChannel
        /\ \E i \in Nat : Bound(conn[c].m_pEventLoop, c) = {i}

\* A channel is registered or active while its connection is established and not destroyed,
\* and as long somebody owns the connection.
Live(c) == conn[c].m_eConnectState \in {"Connected", "Disconnecting"}
Owned(c) == c \in m_mpConnection \/ \E k \in Loops : Bound(k, c) # {}
LiveInv ==
    failed = "no" =>
        /\ \A c \in Conn : Watched(conn[c].m_pChannel) => Live(c)
        /\ \A l \in Loops : \A e \in active[l] : Live(e[1])
        /\ \A c \in Conn : Live(c) => Owned(c)

\* The server has no other loop, or may still be told so.
OneLoop == m_nNumThreads = 0 \/ ~m_bStared

\* With one loop a connection is in the map or in one queued ConnectedDestroyed.
RemovalInv ==
    LET q == functors[Base]
    IN  /\ \A c \in m_mpConnection : Live(c)
        /\ \A i \in 1..Len(q) :
             q[i].call = "destroyed" /\ q[i].conn \notin m_mpConnection /\ Live(q[i].conn)
        /\ \A i, j \in 1..Len(q) : q[i].conn = q[j].conn => i = j
        /\ \A l \in Loops \ {Base} : functors[l] = <<>>

\* What was queued is run before the next poll, which so reports only connections in the map,
\* each once.
RoundInv ==
    /\ \A c \in Conn : conn[c].m_pEventLoop = Base
    /\ \A e \in active[Base] : e[1] \in m_mpConnection
    /\ \A c \in Conn : <<c, TRUE>> \notin active[Base] \/ <<c, FALSE>> \notin active[Base]
    /\ at[Base] = "functors" => batch[Base] = Len(functors[Base])
    /\ at[Base] = "poll" => functors[Base] = <<>>

OneLoopInv ==
    OneLoop => failed \in {"no", "accept"} /\ (failed = "no" => RemovalInv /\ RoundInv)

\* On one loop no assertion of the connections' life fails: the state when it is
\* established, closed and destroyed, its place in the map, its channel.
NoAssertionFails == m_nNumThreads = 0 => failed \in {"no", "accept"}

\* A connection whose peer closed leaves the map and the poller.
ClosedIsRemoved ==
    \A c \in Conn :
        c \in closed ~> \/ failed # "no"
                        \/ c \notin m_mpConnection /\ conn[c].m_eConnectState = "Disconnected"

\* ConnectedDestroyed runs on the connection's own loop, as its AssertInLoopThread says.
DestroyedInOwnLoop == failed # "thread"
=============================================================================
