-------------------------- MODULE AsyncLoggingQueue --------------------------
(***************************************************************************)
(* logging/AsyncLoggingQueue (AsyncLoggingT) over the BoundedBlockingQueue:  *)
(* threads append lines, threadFunc takes them and writes them to its        *)
(* LogFile, which keeps them in order; the owner starts and stops, and       *)
(* appends lines too.  Stop puts an empty line to end threadFunc.  With a     *)
(* capacity that is never reached this is the logger over BlockingQueue.      *)
(***************************************************************************)
EXTENDS BoundedBlockingQueue

CONSTANTS
    Owner, Logger,  \* the producer that starts and stops, and the consumer
    EmptyLine,      \* MSG()
    MaxLines        \* bound: calls of Append

ASSUME LoggerAssumption ==
    /\ Owner \in Producer /\ Consumer = {Logger}
    /\ EmptyLine \in Item

VARIABLES
    m_bRunning, m_nLatch,
    line,           \* what each thread's Put carries
    msg,            \* threadFunc's local
    output,         \* the lines given to LogFile::Append
    threadAt, ownerAt,
    failed,         \* an assertion failed
    lines, accepted \* calls of Append; what Put took (history)

localVars == <<m_bRunning, m_nLatch, msg, output, threadAt, ownerAt, failed, lines>>
allVars == <<vars, localVars, line, accepted>>

\* Logger::~Logger never appends an empty line.
Line == Item \ {EmptyLine}

LoggerInit ==
    /\ Init
    /\ m_bRunning = FALSE /\ m_nLatch = 1
    /\ line = [p \in Producer |-> EmptyLine] /\ msg = EmptyLine /\ output = <<>>
    /\ threadAt = "none" /\ ownerAt = "constructed"
    /\ failed = FALSE
    /\ lines = 0 /\ accepted = <<>>

-----------------------------------------------------------------------------
(* Append: a call of Put                                                    *)

AppendLine(p, l) ==
    /\ ownerAt # "gone" /\ lines < MaxLines
    /\ p = Owner => ownerAt = "running"
    /\ Call(p)
    /\ line' = [line EXCEPT ![p] = l]
    /\ lines' = lines + 1
    /\ UNCHANGED <<m_bRunning, m_nLatch, msg, output, threadAt, ownerAt, failed, accepted>>

PutLine(p) ==
    /\ \/ Put(p, line[p]) /\ accepted' = Append(accepted, line[p])
       \/ PutWaits(p) /\ UNCHANGED accepted
    /\ UNCHANGED <<localVars, line>>

WakesUp(t) == SpuriousWakeUp(t) /\ UNCHANGED <<localVars, line, accepted>>

-----------------------------------------------------------------------------
(* Start, Stop and the destructor                                           *)

Start ==
    /\ ownerAt = "constructed"
    /\ m_bRunning' = TRUE
    /\ threadAt' = "started"
    /\ ownerAt' = "latch"
    /\ UNCHANGED <<vars, m_nLatch, line, msg, output, failed, lines, accepted>>

LatchWait ==
    /\ ownerAt = "latch" /\ m_nLatch = 0
    /\ ownerAt' = "running"
    /\ UNCHANGED <<vars, m_bRunning, m_nLatch, line, msg, output, threadAt, failed, lines, accepted>>

\* Stop, and the destructor of a logger that runs.
Stop ==
    /\ ownerAt = "running" /\ at[Owner] = "idle"
    /\ m_bRunning' = FALSE
    /\ ownerAt' = "stop"
    /\ UNCHANGED <<vars, m_nLatch, line, msg, output, threadAt, failed, lines, accepted>>

StopPut ==
    /\ ownerAt = "stop"
    /\ Call(Owner)
    /\ line' = [line EXCEPT ![Owner] = EmptyLine]
    /\ ownerAt' = "put"
    /\ UNCHANGED <<m_bRunning, m_nLatch, msg, output, threadAt, failed, lines, accepted>>

StopJoin ==
    /\ ownerAt = "put" /\ at[Owner] = "idle"
    /\ threadAt = "ended"
    /\ ownerAt' = "stopped"
    /\ UNCHANGED <<vars, m_bRunning, m_nLatch, line, msg, output, threadAt, failed, lines, accepted>>

\* No thread may be inside Append when the logger goes.
Destroy ==
    /\ ownerAt \in {"constructed", "stopped"}
    /\ \A p \in Producer : at[p] = "idle"
    /\ ownerAt' = "gone"
    /\ UNCHANGED <<vars, m_bRunning, m_nLatch, line, msg, output, threadAt, failed, lines, accepted>>

-----------------------------------------------------------------------------
(* threadFunc                                                               *)

CountDown ==
    /\ threadAt = "started"
    /\ failed' = ~m_bRunning
    /\ m_nLatch' = m_nLatch - 1
    /\ threadAt' = "loop"
    /\ UNCHANGED <<vars, m_bRunning, line, msg, output, ownerAt, lines, accepted>>

TakeCall ==
    /\ threadAt = "loop"
    /\ Call(Logger)
    /\ threadAt' = "take"
    /\ UNCHANGED <<m_bRunning, m_nLatch, line, msg, output, ownerAt, failed, lines, accepted>>

TakeMsg ==
    /\ threadAt = "take"
    /\ \/ Take(Logger) /\ msg' = Head(m_Queue) /\ threadAt' = "msg"
       \/ TakeWaits(Logger) /\ UNCHANGED <<msg, threadAt>>
    /\ UNCHANGED <<m_bRunning, m_nLatch, line, output, ownerAt, failed, lines, accepted>>

\* Mutant: the thread ends when it sees that the logger does not run.
HandleMsgWhileRunning ==
    /\ threadAt = "msg"
    /\ IF ~m_bRunning
         THEN threadAt' = "ended" /\ UNCHANGED output
         ELSE output' = Append(output, msg) /\ threadAt' = "loop"
    /\ UNCHANGED <<vars, m_bRunning, m_nLatch, line, msg, ownerAt, failed, lines, accepted>>

\* The empty line ends the loop, any other is written.
HandleMsg ==
    /\ threadAt = "msg"
    /\ IF msg = EmptyLine
         THEN failed' = m_bRunning /\ threadAt' = "ended" /\ UNCHANGED output
         ELSE output' = Append(output, msg) /\ threadAt' = "loop" /\ UNCHANGED failed
    /\ UNCHANGED <<vars, m_bRunning, m_nLatch, line, msg, ownerAt, lines, accepted>>

-----------------------------------------------------------------------------

ThreadStep == CountDown \/ TakeCall \/ TakeMsg \/ HandleMsg
OwnerStep == LatchWait \/ StopPut \/ StopJoin

LoggerNext ==
    /\ ~failed
    /\ \/ ThreadStep \/ OwnerStep
       \/ Start \/ Stop \/ Destroy
       \/ \E p \in Producer : PutLine(p) \/ \E l \in Line : AppendLine(p, l)
       \/ \E t \in Thread : WakesUp(t)

LoggerSpec == LoggerInit /\ [][LoggerNext]_allVars

\* Threads inside a call go on, and so does threadFunc; nothing forces a call.
FairLoggerSpec ==
    /\ LoggerSpec
    /\ WF_allVars(~failed /\ ThreadStep)
    /\ WF_allVars(~failed /\ OwnerStep)
    /\ \A p \in Producer : WF_allVars(~failed /\ PutLine(p))

-----------------------------------------------------------------------------

\* The lines that came before Stop's empty line are all written, in order, when threadFunc has
\* ended, also those that waited for room in the queue.
EarlierLinesWritten ==
    threadAt = "ended" =>
        LET written == Len(output)
        IN  accepted[written + 1] = EmptyLine /\ output = SubSeq(accepted, 1, written)

\* What makes it inductive: everything Put took is, in order, written, in threadFunc's hand
\* (msg) or in the queue, and threadFunc ends with the empty line in its hand.
Held == IF threadAt \in {"msg", "ended"} THEN 1 ELSE 0
LinesKept ==
    /\ Len(accepted) = Len(output) + Held + Len(m_Queue)
    /\ \A i \in 1..Len(output) : accepted[i] = output[i]
    /\ Held = 1 => accepted[Len(output) + 1] = msg
    /\ \A i \in 1..Len(m_Queue) : accepted[Len(output) + Held + i] = m_Queue[i]
    /\ threadAt = "ended" => msg = EmptyLine

LineTypeOK ==
    /\ line \in [Producer -> Item] /\ msg \in Item
    /\ output \in Seq(Item) /\ accepted \in Seq(Item)
    /\ threadAt \in {"none", "started", "loop", "take", "msg", "ended"}

\* Stop returns, also when it has to wait for room to put its empty line, and threadFunc's
\* assertion does not fail: it finds the empty line after Stop has reset m_bRunning.
StopReturns == ownerAt = "stop" ~> ownerAt = "stopped"
=============================================================================
