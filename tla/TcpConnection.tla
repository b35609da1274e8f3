--------------------------- MODULE TcpConnection ----------------------------
(***************************************************************************)
(* reactor/TcpConnection on its loop, with its Channel, the kernel's socket, *)
(* the peer, and the threads that call Send and ShutDown.  The owner is a    *)
(* TcpServer without I/O threads (or a TcpClient): its close callback takes  *)
(* the connection out of its map and queues ConnectedDestroyed on this loop. *)
(*                                                                         *)
(* The loop thread may call Send and ShutDown from any callback.  A byte is  *)
(* the pair of a message and a position in it.                               *)
(***************************************************************************)
EXTENDS Naturals, Sequences, Channel

CONSTANTS
    Thread,         \* the threads other than the loop's that hold a TcpConnectionPtr
    Message,        \* one call of Send each
    MessageLength,
    SendBuffer,     \* bytes the kernel's send buffer takes
    MaxInput        \* bound: pieces of data the peer sends

ASSUME LengthAssumption ==
    MessageLength \in Nat \ {0} /\ SendBuffer \in Nat \ {0} /\ MaxInput \in Nat

VARIABLES
    m_eConnectState, m_pChannel, m_OutputBuffer,
    inMap,              \* the owner's m_mpConnection has the connection
    functors, batch,    \* the loop's queue, and how much of it this round will run
    pinned,             \* a functor of this round that was run holds a TcpConnectionPtr
    at,                 \* "poll", "handle" (the active channels) or "functors"
    revents,            \* what is left of m_nREvents in HandleEvent
    peer,               \* "open", "fin" (it closed its side) or "reset"
    input, unread,      \* pieces of data the peer sent in all, and those not read
    soError,            \* SO_ERROR is pending
    unacked,            \* bytes in the kernel's send buffer
    wrShut,             \* ShutDownWrite was called
    calls, holds,       \* what each thread is doing, and whether it has a pointer
    failed,             \* the assertion or LOG_FATAL that ended the process
    revived,            \* a ShutDown has overwritten eTCS_Disconnected (history)
    sent, wire          \* the bytes sendInLoop accepted / the kernel took (history)

connVars == <<m_eConnectState, m_pChannel, m_OutputBuffer, inMap, wrShut, sent, wire>>
loopVars == <<functors, batch, pinned, at, revents>>
peerVars == <<peer, input, unread>>
callVars == <<calls, holds, revived>>
vars == <<connVars, loopVars, peerVars, soError, unacked, callVars, failed>>

Bytes(m) == [i \in 1..MessageLength |-> <<m, i>>]
Byte == Message \X (1..MessageLength)
Prefix(s, n) == SubSeq(s, 1, n)
Suffix(s, n) == SubSeq(s, n + 1, Len(s))

Idle == [call |-> "idle"]
Sent(m) == \E i \in 1..Len(sent) : sent[i][1] = m
Queued(m) == \E i \in 1..Len(functors) : functors[i] = [call |-> "send", msg |-> m]

\* m is a call of Send that was not made yet.
Fresh(m) == ~Sent(m) /\ ~Queued(m) /\ \A t \in Thread : calls[t] # [call |-> "send", msg |-> m]

Init ==
    /\ m_eConnectState = "Connecting" /\ m_pChannel = NewChannel /\ m_OutputBuffer = <<>>
    /\ inMap = TRUE
    /\ functors = <<>> /\ batch = 0 /\ pinned = FALSE /\ at = "functors" /\ revents = {}
    /\ peer = "open" /\ input = 0 /\ unread = 0
    /\ soError = FALSE /\ unacked = 0 /\ wrShut = FALSE
    /\ calls = [t \in Thread |-> Idle] /\ holds = Thread
    /\ failed = "no" /\ revived = FALSE
    /\ sent = <<>> /\ wire = <<>>

\* Somebody owns the connection: the map, a user, or a functor bound to a
\* TcpConnectionPtr.  sendInLoop and shutDownInLoop are bound to a plain pointer.
Alive ==
    \/ inMap \/ holds # {} \/ pinned
    \/ \E i \in 1..Len(functors) : functors[i].call \in {"destroyed", "complete"}

Queue(call) == functors' = Append(functors, [call |-> call])

-----------------------------------------------------------------------------
(* The kernel's socket                                                      *)

\* write(2) fails for good, would block (no room), or takes at least one byte.
Broken == wrShut \/ peer = "reset"
Room == SendBuffer - unacked

\* What write(2) of s may return.
Takes(s) == IF Broken THEN {0} ELSE {n \in 0..Len(s) : n <= Room /\ (n = 0 <=> Room = 0)}

-----------------------------------------------------------------------------
(* sendInLoop, shutDownInLoop                                               *)

\* The first n bytes of data go to the kernel, the rest to m_OutputBuffer.
SendBytes(data, n) ==
    /\ sent' = sent \o data
    /\ wire' = wire \o Prefix(data, n)
    /\ unacked' = unacked + n
    /\ m_OutputBuffer' = m_OutputBuffer \o Suffix(data, n)
    /\ m_pChannel' = IF n < Len(data) /\ ~IsWriting(m_pChannel)
                       THEN EnableWriting(m_pChannel) ELSE m_pChannel

\* Mutant: the kernel is tried first even if bytes wait in m_OutputBuffer.
CanWriteAlways == TRUE

\* The kernel is tried only if no byte waits.
CanWriteNow == ~IsWriting(m_pChannel) /\ m_OutputBuffer = <<>>

\* sendInLoop of a message; rest is the queue after the functor that runs it.
sendInLoop(m, rest) ==
    IF m_eConnectState = "Disconnected"
      THEN functors' = rest /\ UNCHANGED <<connVars, soError, unacked>>
      ELSE \E n \in IF CanWriteNow THEN Takes(Bytes(m)) ELSE {0} :
             /\ SendBytes(Bytes(m), n)
             /\ functors' = IF n = MessageLength
                              THEN Append(rest, [call |-> "complete"]) ELSE rest
             /\ soError' = IF CanWriteNow /\ Broken THEN FALSE ELSE soError
             /\ UNCHANGED <<m_eConnectState, inMap, wrShut>>

\* Mutant: the socket is shut down although bytes wait.
ShutDownNow(writing) == TRUE

\* shutDownInLoop: whether the socket is shut down.
shutDownInLoop(writing) == wrShut \/ ~writing

-----------------------------------------------------------------------------
(* Calls of other threads: m_eConnectState is read, and written, unlocked.   *)

SendTest(t, m) ==
    /\ t \in holds /\ calls[t] = Idle
    /\ Fresh(m)
    /\ m_eConnectState = "Connected"
    /\ calls' = [calls EXCEPT ![t] = [call |-> "send", msg |-> m]]
    /\ UNCHANGED <<connVars, loopVars, peerVars, soError, unacked, holds, revived, failed>>

ShutDownTest(t) ==
    /\ t \in holds /\ calls[t] = Idle
    /\ m_eConnectState = "Connected"
    /\ calls' = [calls EXCEPT ![t] = [call |-> "disconnecting"]]
    /\ UNCHANGED <<connVars, loopVars, peerVars, soError, unacked, holds, revived, failed>>

ShutDownSet(t) ==
    /\ calls[t].call = "disconnecting"
    /\ m_eConnectState' = "Disconnecting"
    /\ revived' = (revived \/ m_eConnectState = "Disconnected")
    /\ calls' = [calls EXCEPT ![t] = [call |-> "shutdown"]]
    /\ UNCHANGED <<m_pChannel, m_OutputBuffer, inMap, wrShut, sent, wire, loopVars,
                   peerVars, soError, unacked, holds, failed>>

\* RunInLoop(bind(&sendInLoop, this, ...)) or RunInLoop(bind(&shutDownInLoop, this)).
QueueCall(t) ==
    /\ calls[t].call \in {"send", "shutdown"}
    /\ functors' = Append(functors, calls[t])
    /\ calls' = [calls EXCEPT ![t] = Idle]
    /\ UNCHANGED <<connVars, batch, pinned, at, revents, peerVars, soError, unacked, holds,
                   revived, failed>>

\* The thread lets its TcpConnectionPtr go.
Release(t) ==
    /\ t \in holds /\ calls[t] = Idle
    /\ holds' = holds \ {t}
    /\ UNCHANGED <<connVars, loopVars, peerVars, soError, unacked, calls, revived, failed>>

-----------------------------------------------------------------------------
(* Calls of the loop thread, from a callback of this or another channel or   *)
(* from a functor.                                                           *)

LoopSend(m) ==
    /\ at # "poll"
    /\ Fresh(m)
    /\ Alive
    /\ m_eConnectState = "Connected"
    /\ sendInLoop(m, functors)
    /\ UNCHANGED <<batch, pinned, at, revents, peerVars, callVars, failed>>

LoopShutDown ==
    /\ at # "poll"
    /\ Alive
    /\ m_eConnectState = "Connected"
    /\ m_eConnectState' = "Disconnecting"
    /\ wrShut' = shutDownInLoop(IsWriting(m_pChannel))
    /\ UNCHANGED <<m_pChannel, m_OutputBuffer, inMap, sent, wire, loopVars, peerVars,
                   soError, unacked, callVars, failed>>

-----------------------------------------------------------------------------
(* HandleEvent: close, error, read, write, in this order                    *)

\* What epoll reports of the socket (tcp_poll).
Reported ==
    {e \in {"in", "out"} :
        \/ e = "in" /\ "read" \in m_pChannel.m_nEvents /\ (unread > 0 \/ peer # "open")
        \/ e = "out" /\ "write" \in m_pChannel.m_nEvents /\ (Room > 0 \/ Broken)}
    \union (IF peer = "reset" \/ (peer = "fin" /\ wrShut) THEN {"hup"} ELSE {})
    \union (IF soError THEN {"err"} ELSE {})

\* Poll returns, for this channel or for others.
Poll(active) ==
    /\ at = "poll"
    /\ revents' = IF active /\ Watched(m_pChannel) THEN Reported ELSE {}
    /\ active => revents' # {}
    /\ at' = "handle"
    /\ failed' = IF active /\ ~Alive THEN "dangling" ELSE failed
    /\ UNCHANGED <<connVars, functors, batch, pinned, peerVars, soError, unacked, callVars>>

\* Mutant: the owner does not queue ConnectedDestroyed.
handleCloseOnly ==
    IF m_eConnectState \notin {"Connected", "Disconnecting"} \/ ~inMap
      THEN failed' = "close" /\ UNCHANGED <<m_pChannel, inMap, functors>>
      ELSE /\ m_pChannel' = DisableAll(m_pChannel)
           /\ inMap' = FALSE
           /\ UNCHANGED <<functors, failed>>

\* handleClose, with the owner's removeConnection on the same loop.
handleClose ==
    IF m_eConnectState \notin {"Connected", "Disconnecting"} \/ ~inMap
      THEN failed' = "close" /\ UNCHANGED <<m_pChannel, inMap, functors>>
      ELSE /\ m_pChannel' = DisableAll(m_pChannel)
           /\ inMap' = FALSE
           /\ Queue("destroyed")
           /\ UNCHANGED failed

HandleHup ==
    /\ at = "handle" /\ "hup" \in revents
    /\ revents' = revents \ {"hup"}
    /\ IF "in" \in revents THEN UNCHANGED <<m_pChannel, inMap, functors, failed>>
                           ELSE handleClose
    /\ UNCHANGED <<m_eConnectState, m_OutputBuffer, wrShut, sent, wire, batch, pinned, at,
                   peerVars, soError, unacked, callVars>>

\* handleError: getsockopt(SO_ERROR) clears the error.
handleError ==
    /\ at = "handle" /\ "err" \in revents /\ "hup" \notin revents
    /\ revents' = revents \ {"err"}
    /\ soError' = FALSE
    /\ UNCHANGED <<connVars, functors, batch, pinned, at, peerVars, unacked, callVars, failed>>

\* ReadFd: data, an error, or the end of the stream.
handleRead ==
    /\ at = "handle" /\ "in" \in revents /\ revents \intersect {"hup", "err"} = {}
    /\ revents' = revents \ {"in"}
    /\ unread' = 0
    /\ soError' = IF unread = 0 THEN FALSE ELSE soError
    /\ IF unread > 0 \/ soError THEN UNCHANGED <<m_pChannel, inMap, functors, failed>>
                                ELSE handleClose
    /\ UNCHANGED <<m_eConnectState, m_OutputBuffer, wrShut, sent, wire, batch, pinned, at,
                   peer, input, unacked, callVars>>

\* Mutant: writing stays enabled, and a shutdown is forgotten.
handleWriteDoneEarly ==
    /\ Queue("complete")
    /\ UNCHANGED <<m_pChannel, wrShut>>

\* Mutant: the shutdown that waited is forgotten.
handleWriteForgets ==
    /\ m_pChannel' = DisableWriting(m_pChannel)
    /\ Queue("complete")
    /\ UNCHANGED wrShut

\* The output is drained: DisableWriting, the write-complete functor, and the
\* shutdown that waited for it.
handleWriteDone ==
    /\ m_pChannel' = DisableWriting(m_pChannel)
    /\ Queue("complete")
    /\ wrShut' = IF m_eConnectState = "Disconnecting" THEN shutDownInLoop(FALSE) ELSE wrShut

handleWrite ==
    /\ at = "handle" /\ revents = {"out"}
    /\ revents' = {}
    /\ IF ~IsWriting(m_pChannel)
         THEN UNCHANGED <<m_pChannel, m_OutputBuffer, wrShut, wire, unacked, functors, failed>>
         ELSE \E n \in Takes(m_OutputBuffer) :
           /\ wire' = wire \o Prefix(m_OutputBuffer, n)
           /\ m_OutputBuffer' = Suffix(m_OutputBuffer, n)
           /\ unacked' = unacked + n
           /\ failed' = IF n = 0 THEN "write" ELSE failed
           /\ IF n > 0 /\ m_OutputBuffer' = <<>>
                THEN handleWriteDone
                ELSE UNCHANGED <<m_pChannel, wrShut, functors>>
    /\ UNCHANGED <<m_eConnectState, inMap, sent, batch, pinned, at, peerVars, soError, callVars>>

-----------------------------------------------------------------------------
(* doPendingFunctors                                                        *)

BeginFunctors ==
    /\ at = "handle" /\ revents = {}
    /\ at' = "functors"
    /\ batch' = Len(functors)
    /\ UNCHANGED <<connVars, functors, pinned, revents, peerVars, soError, unacked, callVars,
                   failed>>

EndFunctors ==
    /\ at = "functors" /\ batch = 0
    /\ m_eConnectState # "Connecting"
    /\ at' = "poll"
    /\ pinned' = FALSE
    /\ UNCHANGED <<connVars, functors, batch, revents, peerVars, soError, unacked,
                   callVars, failed>>

\* The owner's newConnection calls it on the spot.
ConnectedEstablished ==
    /\ m_eConnectState = "Connecting"
    /\ m_eConnectState' = "Connected"
    /\ m_pChannel' = EnableReading(m_pChannel)
    /\ UNCHANGED <<m_OutputBuffer, inMap, wrShut, sent, wire, loopVars, peerVars, soError,
                   unacked, callVars, failed>>

\* Mutant: handleClose has disabled the channel already.
ConnectedDestroyedNoDisable ==
    /\ m_eConnectState' = "Disconnected"
    /\ m_pChannel' = RemoveChannel(m_pChannel)
    /\ failed' = IF m_eConnectState \in {"Connected", "Disconnecting"} /\ CanRemove(m_pChannel)
                   THEN failed ELSE "destroyed"
    /\ functors' = Tail(functors)
    /\ UNCHANGED <<m_OutputBuffer, inMap, wrShut, sent, wire, soError, unacked>>

\* Mutant: the channel is disabled and not removed.
ConnectedDestroyedNoRemove ==
    /\ m_eConnectState' = "Disconnected"
    /\ m_pChannel' = DisableAll(m_pChannel)
    /\ failed' = IF m_eConnectState \in {"Connected", "Disconnecting"}
                   THEN failed ELSE "destroyed"
    /\ functors' = Tail(functors)
    /\ UNCHANGED <<m_OutputBuffer, inMap, wrShut, sent, wire, soError, unacked>>

ConnectedDestroyed ==
    LET quiet == DisableAll(m_pChannel)
    IN  /\ m_eConnectState' = "Disconnected"
        /\ m_pChannel' = RemoveChannel(quiet)
        /\ failed' = IF m_eConnectState \in {"Connected", "Disconnecting"} /\ CanRemove(quiet)
                       THEN failed ELSE "destroyed"
        /\ functors' = Tail(functors)
        /\ UNCHANGED <<m_OutputBuffer, inMap, wrShut, sent, wire, soError, unacked>>

\* One functor.  A call through a plain pointer to a connection that is gone is
\* undefined.
RunFunctor ==
    /\ at = "functors" /\ batch > 0
    /\ batch' = batch - 1
    /\ pinned' = (pinned \/ Head(functors).call \in {"destroyed", "complete"})
    /\ LET f == Head(functors) IN
         \/ /\ f.call \in {"send", "shutdown"} /\ ~Alive
            /\ failed' = "dangling"
            /\ UNCHANGED <<connVars, functors, soError, unacked>>
         \/ /\ f.call = "send" /\ Alive
            /\ sendInLoop(f.msg, Tail(functors))
            /\ UNCHANGED failed
         \/ /\ f.call = "shutdown" /\ Alive
            /\ wrShut' = shutDownInLoop(IsWriting(m_pChannel))
            /\ functors' = Tail(functors)
            /\ UNCHANGED <<m_eConnectState, m_pChannel, m_OutputBuffer, inMap, sent, wire,
                           soError, unacked, failed>>
         \/ /\ f.call = "destroyed"
            /\ ConnectedDestroyed
         \/ /\ f.call = "complete"
            /\ functors' = Tail(functors)
            /\ UNCHANGED <<connVars, soError, unacked, failed>>
    /\ UNCHANGED <<at, revents, peerVars, callVars>>

-----------------------------------------------------------------------------
(* The peer                                                                 *)

PeerSends ==
    /\ peer = "open" /\ input < MaxInput
    /\ input' = input + 1 /\ unread' = unread + 1
    /\ UNCHANGED <<connVars, loopVars, peer, soError, unacked, callVars, failed>>

PeerReads ==
    /\ unacked > 0
    /\ unacked' = unacked - 1
    /\ UNCHANGED <<connVars, loopVars, peerVars, soError, callVars, failed>>

PeerCloses ==
    /\ peer = "open"
    /\ peer' = "fin"
    /\ UNCHANGED <<connVars, loopVars, input, unread, soError, unacked, callVars, failed>>

PeerResets ==
    /\ peer # "reset"
    /\ peer' = "reset"
    /\ soError' = TRUE
    /\ UNCHANGED <<connVars, loopVars, input, unread, unacked, callVars, failed>>

-----------------------------------------------------------------------------

LoopStep ==
    \/ Poll(TRUE) \/ HandleHup \/ handleError \/ handleRead \/ handleWrite
    \/ BeginFunctors \/ RunFunctor \/ EndFunctors \/ ConnectedEstablished

ThreadCall(t) == ShutDownTest(t) \/ Release(t) \/ \E m \in Message : SendTest(t, m)
ThreadStep(t) == ShutDownSet(t) \/ QueueCall(t)

Next ==
    /\ failed = "no"
    /\ \/ LoopStep \/ Poll(FALSE) \/ LoopShutDown
       \/ \E m \in Message : LoopSend(m)
       \/ \E t \in Thread : ThreadCall(t) \/ ThreadStep(t)
       \/ PeerSends \/ PeerReads \/ PeerCloses \/ PeerResets

Spec == Init /\ [][Next]_vars

\* The loop goes on; a call that was queued wakes it (EventLoop), so that Poll
\* returns; epoll is level-triggered and reports ready descriptors in turn, so that
\* one that stays ready is reported; threads get on with their calls, and the peer
\* with reading.
FairSpec ==
    /\ Spec
    /\ WF_vars(failed = "no" /\ LoopStep)
    /\ SF_vars(failed = "no" /\ Poll(TRUE))
    /\ WF_vars(failed = "no" /\ functors # <<>> /\ Poll(FALSE))
    /\ \A t \in Thread : WF_vars(failed = "no" /\ ThreadStep(t))
    /\ WF_vars(failed = "no" /\ PeerReads)

-----------------------------------------------------------------------------

States == {"Connecting", "Connected", "Disconnecting", "Disconnected"}
Functors == [call : {"shutdown", "destroyed", "complete"}] \union [call : {"send"}, msg : Message]
Calls == [call : {"idle", "disconnecting", "shutdown"}] \union [call : {"send"}, msg : Message]

\* The type invariant: the kernel never takes more than its send buffer holds, and a round runs
\* no more functors than are queued.
TypeOK ==
    /\ m_eConnectState \in States /\ m_pChannel \in ChannelType
    /\ m_OutputBuffer \in Seq(Byte) /\ sent \in Seq(Byte) /\ wire \in Seq(Byte)
    /\ inMap \in BOOLEAN /\ wrShut \in BOOLEAN /\ soError \in BOOLEAN
    /\ functors \in Seq(Functors) /\ batch \in 0..Len(functors) /\ pinned \in BOOLEAN
    /\ at \in {"poll", "handle", "functors"} /\ revents \subseteq {"hup", "err", "in", "out"}
    /\ peer \in {"open", "fin", "reset"} /\ input \in 0..MaxInput /\ unread \in 0..input
    /\ unacked \in 0..SendBuffer
    /\ calls \in [Thread -> Calls] /\ holds \subseteq Thread
    /\ failed \in {"no", "close", "write", "destroyed", "dangling"} /\ revived \in BOOLEAN

\* The queue holds no ConnectedDestroyed, or exactly one, at i.
NoDestroy(queue) == \A j \in 1..Len(queue) : queue[j].call # "destroyed"
DestroyAt(queue, i) ==
    /\ i \in 1..Len(queue) /\ queue[i].call = "destroyed"
    /\ \A j \in 1..Len(queue) : queue[j].call = "destroyed" => j = i

\* The life of a connection: it is in the map; or ConnectedDestroyed is queued, once, and will
\* run before the next poll; or it is destroyed and its channel out of the poller.
LifeStage ==
    \/ /\ inMap /\ m_eConnectState # "Disconnected"
    \/ /\ ~inMap /\ m_eConnectState \in {"Connected", "Disconnecting"} /\ at # "poll"
       /\ \E i \in 1..Len(functors) : DestroyAt(functors, i) /\ (at = "functors" => i <= batch)
    \/ /\ ~inMap /\ m_eConnectState = "Disconnected" /\ m_pChannel = NewChannel
       /\ NoDestroy(functors)

\* What the assertions of handleClose and ConnectedDestroyed rest on.
LifeInv ==
    /\ inMap => NoDestroy(functors)
    /\ revents # {} => at = "handle"
    /\ at # "functors" => m_eConnectState # "Connecting"
    /\ ~revived => /\ LifeStage
                   /\ revents \intersect {"hup", "in"} # {} => inMap
                   /\ failed \notin {"close", "destroyed"}

\* The stream: what the kernel took, followed by m_OutputBuffer, is what sendInLoop
\* accepted: no byte is lost, repeated or overtaken, whether it was written directly
\* or buffered, and however short the writes are.
StreamInOrder == wire \o m_OutputBuffer = sent

\* Until the connection is closed, the channel waits for room exactly while bytes
\* are buffered: else they would stay for ever, or handleWrite would write nothing
\* and end the process.
OutputIsWatched ==
    inMap => (IsWriting(m_pChannel) <=> m_OutputBuffer # <<>>)

\* No assertion on the connection's state, on its place in the map or on its channel
\* fails, whatever the threads, the callbacks and the peer do, until a thread's ShutDown
\* overwrites the state of a destroyed connection.
NoAssertionFails == ~revived => failed \notin {"close", "destroyed"}

\* A connection that epoll may still report exists, with the same exception.
WatchedIsAlive == ~revived /\ Watched(m_pChannel) => Alive

\* ShutDown lets what was sent before it go out first: an open connection is shut down
\* only with no output left, by shutDownInLoop or when handleWrite has drained it.
OutputBeforeShutDown == [][inMap /\ wrShut' # wrShut => m_OutputBuffer' = <<>>]_vars

\* A ShutDown takes effect, at once or when the output has drained.
ShutDownHappens == m_eConnectState = "Disconnecting" ~> wrShut \/ peer # "open"

\* A connection whose peer closed is destroyed, and taken out of the poller.
ClosedIsDestroyed ==
    peer # "open" /\ m_eConnectState # "Connecting"
        ~> failed # "no" \/ revived \/ (m_eConnectState = "Disconnected" /\ m_pChannel.m_nIndex = "NEW")
=============================================================================
