--------------------- MODULE AsyncLoggingDoubleBuffering ---------------------
(***************************************************************************)
(* logging/AsyncLoggingDoubleBuffering writing to a LogFile.  Any thread     *)
(* appends lines under m_Mutex (which thread makes no difference); threadFunc *)
(* exchanges the filled buffers for empty ones and writes them; the owner     *)
(* starts and stops.  A buffer is the sequence of its lines, NULL if moved.   *)
(***************************************************************************)
EXTENDS LogFile, FiniteSets

CONSTANTS
    NULL,
    LineLength,     \* the lengths of lines
    BufferSize,     \* detail::LARGE_BUFFER
    MaxBuffers,     \* 25: with more, all but the last two are dropped
    MaxLines,       \* bound: calls of Append
    MaxTime         \* bound: the clock

ASSUME BufferAssumption ==
    /\ LineLength \subseteq Nat \ {0}
    /\ BufferSize \in Nat \ {0}
    /\ MaxBuffers \in Nat /\ MaxBuffers >= 2
    /\ MaxLines \in Nat /\ MaxTime \in Nat \ {0}
    /\ NULL # <<>>

VARIABLES
    m_bRunning, m_nLatch,       \* m_Latch's count
    m_pCurBuffer, m_pNextBuffer, m_Buffers,
    newBuffer1, newBuffer2, buffersToWrite, n,  \* locals of threadFunc
    output,                     \* threadFunc's LogFile
    threadAt, ownerAt,
    now, setBack,               \* time(NULL); the clock was set back
    failed,                     \* the line of the assertion that failed
    lines, appended, lost       \* calls of Append; what the buffers took; what
                                \* threadFunc dropped (history)

bufferVars == <<m_pCurBuffer, m_pNextBuffer, m_Buffers>>
localVars == <<newBuffer1, newBuffer2, buffersToWrite, n>>
clockVars == <<now, setBack>>
historyVars == <<lines, appended>>
vars == <<m_bRunning, m_nLatch, bufferVars, localVars, output, threadAt, ownerAt, clockVars,
          failed, historyVars, lost>>

NewBuffer == <<>>
DropMsg == <<0, 1>>

Init ==
    /\ m_bRunning = FALSE /\ m_nLatch = 1
    /\ m_pCurBuffer = NewBuffer /\ m_pNextBuffer = NewBuffer /\ m_Buffers = <<>>
    /\ newBuffer1 = NULL /\ newBuffer2 = NULL /\ buffersToWrite = <<>> /\ n = 0
    /\ output = Closed
    /\ threadAt = "none" /\ ownerAt = "constructed"
    /\ now = 1 /\ setBack = FALSE
    /\ failed = "no"
    /\ lines = 0 /\ appended = <<>> /\ lost = {}

-----------------------------------------------------------------------------
(* Append                                                                   *)

GetAvail(buffer) == BufferSize - Size(buffer)

\* FixedBuffer::Append leaves out a line that does not fit.
BufferAppend(buffer, line) == IF GetAvail(buffer) > line[2] THEN Append(buffer, line) ELSE buffer

\* m_Cond.Notify().
Notified == IF threadAt = "wait" THEN "waited" ELSE threadAt

\* Append.
AppendLine(length) ==
    LET line == <<lines + 1, length>>
        fresh == IF m_pNextBuffer # NULL THEN m_pNextBuffer ELSE NewBuffer
    IN  /\ ownerAt # "gone" /\ lines < MaxLines
        /\ lines' = lines + 1
        /\ IF GetAvail(m_pCurBuffer) > length
             THEN /\ m_pCurBuffer' = BufferAppend(m_pCurBuffer, line)
                  /\ appended' = Append(appended, line)
                  /\ UNCHANGED <<m_pNextBuffer, m_Buffers, threadAt>>
             ELSE /\ m_Buffers' = Append(m_Buffers, m_pCurBuffer)
                  /\ m_pCurBuffer' = BufferAppend(fresh, line)
                  /\ m_pNextBuffer' = NULL
                  /\ appended' = IF GetAvail(fresh) > length THEN Append(appended, line) ELSE appended
                  /\ threadAt' = Notified
        /\ UNCHANGED <<m_bRunning, m_nLatch, localVars, output, ownerAt, clockVars, failed, lost>>

-----------------------------------------------------------------------------
(* Start, Stop and the destructor                                           *)

Start ==
    /\ ownerAt = "constructed"
    /\ m_bRunning' = TRUE
    /\ threadAt' = "started"
    /\ ownerAt' = "latch"
    /\ UNCHANGED <<m_nLatch, bufferVars, localVars, output, clockVars, failed, historyVars, lost>>

LatchWait ==
    /\ ownerAt = "latch" /\ m_nLatch = 0
    /\ ownerAt' = "running"
    /\ UNCHANGED <<m_bRunning, m_nLatch, bufferVars, localVars, output, threadAt, clockVars, failed,
                   historyVars, lost>>

\* Stop, and the destructor of a logger that runs: the store is not under m_Mutex.
Stop ==
    /\ ownerAt = "running"
    /\ m_bRunning' = FALSE
    /\ ownerAt' = "notify"
    /\ UNCHANGED <<m_nLatch, bufferVars, localVars, output, threadAt, clockVars, failed, historyVars,
                   lost>>

StopNotify ==
    /\ ownerAt = "notify"
    /\ threadAt' = Notified
    /\ ownerAt' = "join"
    /\ UNCHANGED <<m_bRunning, m_nLatch, bufferVars, localVars, output, clockVars, failed,
                   historyVars, lost>>

StopJoin ==
    /\ ownerAt = "join" /\ threadAt = "ended"
    /\ ownerAt' = "stopped"
    /\ UNCHANGED <<m_bRunning, m_nLatch, bufferVars, localVars, output, threadAt, clockVars, failed,
                   historyVars, lost>>

Destroy ==
    /\ ownerAt \in {"constructed", "stopped"}
    /\ ownerAt' = "gone"
    /\ UNCHANGED <<m_bRunning, m_nLatch, bufferVars, localVars, output, threadAt, clockVars, failed,
                   historyVars, lost>>

-----------------------------------------------------------------------------
(* threadFunc                                                               *)

\* The first test that fails, of the assertions given with their lines.
FirstFailed(asserts) ==
    IF \E i \in 1..Len(asserts) : ~asserts[i][1]
      THEN asserts[CHOOSE i \in 1..Len(asserts) :
                     ~asserts[i][1] /\ \A j \in 1..(i - 1) : asserts[j][1]][2]
      ELSE failed

CountDown ==
    /\ threadAt = "started"
    /\ failed' = FirstFailed(<< <<m_bRunning, "61">> >>)
    /\ m_nLatch' = m_nLatch - 1
    /\ threadAt' = "open"
    /\ UNCHANGED <<m_bRunning, bufferVars, localVars, output, ownerAt, clockVars, historyVars, lost>>

OpenOutput ==
    /\ threadAt = "open"
    /\ output' = NewLogFile(now)
    /\ newBuffer1' = NewBuffer /\ newBuffer2' = NewBuffer
    /\ threadAt' = "test"
    /\ UNCHANGED <<m_bRunning, m_nLatch, bufferVars, buffersToWrite, n, ownerAt, clockVars, failed,
                   historyVars, lost>>

\* while (m_bRunning), and the assertions at the head of the loop.
TestRunning ==
    /\ threadAt = "test"
    /\ IF m_bRunning
         THEN /\ failed' = FirstFailed(<< <<newBuffer1 = NewBuffer, "73">>,
                                         <<newBuffer2 = NewBuffer, "74">>,
                                         <<buffersToWrite = <<>>, "75">> >>)
              /\ threadAt' = "lock" /\ UNCHANGED output
         ELSE /\ output' = Flush(output)
              /\ threadAt' = "ended" /\ UNCHANGED failed
    /\ UNCHANGED <<m_bRunning, m_nLatch, bufferVars, localVars, ownerAt, clockVars, historyVars,
                   lost>>

\* With buffers there, the thread waits, which releases m_Mutex.
WaitForSeconds ==
    /\ threadAt = "lock" /\ m_Buffers # <<>>
    /\ threadAt' = "wait"
    /\ UNCHANGED <<m_bRunning, m_nLatch, bufferVars, localVars, output, ownerAt, clockVars, failed,
                   historyVars, lost>>

\* Mutant: the wait has no end of its own.
WaitNeverTimesOut == FALSE /\ UNCHANGED vars

\* The time waited for is m_nFlushInterval seconds after 1970: the wait ends at once.
WaitTimesOut ==
    /\ threadAt = "wait"
    /\ threadAt' = "waited"
    /\ UNCHANGED <<m_bRunning, m_nLatch, bufferVars, localVars, output, ownerAt, clockVars, failed,
                   historyVars, lost>>

\* Mutant: the buffers are copied.
SwapBuffersCopied ==
    /\ \/ threadAt = "lock" /\ m_Buffers = <<>>
       \/ threadAt = "waited"
    /\ buffersToWrite' = Append(m_Buffers, m_pCurBuffer)
    /\ m_pCurBuffer' = newBuffer1 /\ newBuffer1' = NULL
    /\ IF m_pNextBuffer = NULL
         THEN m_pNextBuffer' = newBuffer2 /\ newBuffer2' = NULL
         ELSE UNCHANGED <<m_pNextBuffer, newBuffer2>>
    /\ threadAt' = "drop"
    /\ UNCHANGED <<m_Buffers, m_bRunning, m_nLatch, n, output, ownerAt, clockVars, failed, historyVars, lost>>

\* The rest of the critical section.
SwapBuffers ==
    /\ \/ threadAt = "lock" /\ m_Buffers = <<>>
       \/ threadAt = "waited"
    /\ buffersToWrite' = Append(m_Buffers, m_pCurBuffer)
    /\ m_Buffers' = <<>>
    /\ m_pCurBuffer' = newBuffer1 /\ newBuffer1' = NULL
    /\ IF m_pNextBuffer = NULL
         THEN m_pNextBuffer' = newBuffer2 /\ newBuffer2' = NULL
         ELSE UNCHANGED <<m_pNextBuffer, newBuffer2>>
    /\ threadAt' = "drop"
    /\ UNCHANGED <<m_bRunning, m_nLatch, n, output, ownerAt, clockVars, failed, historyVars, lost>>

\* More than MaxBuffers: a message, and all but the last two are dropped.
DropBuffers ==
    LET size == Len(buffersToWrite)
    IN  /\ threadAt = "drop"
        /\ failed' = FirstFailed(<< <<buffersToWrite # <<>>, "92">> >>)
        /\ IF size > MaxBuffers
             THEN /\ output' = appendUnlocked(output, <<DropMsg>>, now)
                  /\ buffersToWrite' = SubSeq(buffersToWrite, size - 1, size)
                  /\ lost' = lost \union UNION {ToSet(buffersToWrite[i]) : i \in 1..(size - 2)}
             ELSE UNCHANGED <<output, buffersToWrite, lost>>
        /\ n' = 0
        /\ threadAt' = "write"
        /\ UNCHANGED <<m_bRunning, m_nLatch, bufferVars, newBuffer1, newBuffer2, ownerAt, clockVars,
                       historyVars>>

WriteBuffer ==
    /\ threadAt = "write" /\ n < Len(buffersToWrite)
    /\ output' = appendUnlocked(output, buffersToWrite[n + 1], now)
    /\ n' = n + 1
    /\ UNCHANGED <<m_bRunning, m_nLatch, bufferVars, newBuffer1, newBuffer2, buffersToWrite,
                   threadAt, ownerAt, clockVars, failed, historyVars, lost>>

\* buffersToWrite.resize(2).
Kept(buffers) == IF Len(buffers) > 2 THEN SubSeq(buffers, 1, 2) ELSE buffers

Reset(buffer) == NewBuffer

\* The written buffers become the new empty ones; the rest are deleted.
Refill ==
    LET kept == Kept(buffersToWrite)
        rest == IF newBuffer1 = NULL /\ kept # <<>> THEN Front(kept) ELSE kept
    IN  /\ threadAt = "write" /\ n = Len(buffersToWrite)
        /\ newBuffer1' = IF newBuffer1 = NULL /\ kept # <<>> THEN Reset(Last(kept)) ELSE newBuffer1
        /\ newBuffer2' = IF newBuffer2 = NULL /\ rest # <<>> THEN Reset(Last(rest)) ELSE newBuffer2
        /\ failed' = FirstFailed(<< <<newBuffer1 = NULL => kept # <<>>, "110">>,
                                    <<newBuffer2 = NULL => rest # <<>>, "116">> >>)
        /\ buffersToWrite' = <<>> /\ n' = 0
        /\ output' = Flush(output)
        /\ threadAt' = "test"
        /\ UNCHANGED <<m_bRunning, m_nLatch, bufferVars, ownerAt, clockVars, historyVars, lost>>

-----------------------------------------------------------------------------
(* The clock; only the steps that read it can tell when it moved.           *)

ClockIsRead == threadAt \in {"open", "drop", "write"}

Tick ==
    /\ ClockIsRead /\ now < MaxTime
    /\ now' = now + 1
    /\ UNCHANGED <<m_bRunning, m_nLatch, bufferVars, localVars, output, threadAt, ownerAt, setBack,
                   failed, historyVars, lost>>

SetBack ==
    /\ ClockIsRead /\ ~setBack /\ now > 1
    /\ setBack' = TRUE
    /\ now' = now - 1
    /\ UNCHANGED <<m_bRunning, m_nLatch, bufferVars, localVars, output, threadAt, ownerAt, failed,
                   historyVars, lost>>

-----------------------------------------------------------------------------

ThreadStep ==
    \/ CountDown \/ OpenOutput \/ TestRunning \/ WaitForSeconds \/ WaitTimesOut \/ SwapBuffers
    \/ DropBuffers \/ WriteBuffer \/ Refill

OwnerStep == LatchWait \/ StopNotify \/ StopJoin

Next ==
    /\ failed = "no"
    /\ \/ ThreadStep \/ OwnerStep
       \/ Start \/ Stop \/ Destroy
       \/ \E length \in LineLength : AppendLine(length)
       \/ Tick \/ SetBack

Spec == Init /\ [][Next]_vars

\* Both threads run; nothing forces a call.
FairSpec ==
    /\ Spec
    /\ WF_vars(failed = "no" /\ ThreadStep)
    /\ WF_vars(failed = "no" /\ OwnerStep)

-----------------------------------------------------------------------------

Line == (1..MaxLines) \X LineLength
Buffer == Seq(Line)

LogFileOK(f) ==
    /\ DOMAIN f = DOMAIN Closed
    /\ f.m_nCnt \in 0..(CheckTimeRoll + 1)
    /\ f.m_tLastRoll \in Nat /\ f.m_tLaseFlush \in Nat
    /\ f.unflushed \in BOOLEAN
    /\ f.lines \in Seq(Line \union {DropMsg})

\* The type invariant: threadFunc and Append exchange buffers, and the buffer under m_pCurBuffer is
\* always there.
TypeOK ==
    /\ m_bRunning \in BOOLEAN /\ m_nLatch \in 0..1
    /\ m_pCurBuffer \in Buffer /\ m_pNextBuffer \in {NULL, NewBuffer}
    /\ {newBuffer1, newBuffer2} \subseteq {NULL, NewBuffer}
    /\ m_Buffers \in Seq(Buffer) /\ buffersToWrite \in Seq(Buffer)
    /\ n \in 0..Len(buffersToWrite)
    /\ LogFileOK(output)
    /\ threadAt \in {"none", "started", "open", "test", "lock", "wait", "waited", "drop", "write",
                     "ended"}
    /\ ownerAt \in {"constructed", "latch", "running", "notify", "join", "stopped", "gone"}
    /\ now \in 1..MaxTime /\ setBack \in BOOLEAN
    /\ lines \in 0..MaxLines /\ appended \in Seq(Line) /\ lost \subseteq Line

\* The buffers that are not written yet, the oldest first.
Queued == SubSeq(buffersToWrite, n + 1, Len(buffersToWrite)) \o m_Buffers \o <<m_pCurBuffer>>

\* Where the files hold a line, and not a message of threadFunc's own.
Written == {i \in 1..Len(output.lines) : output.lines[i] # DropMsg}

\* Lines are numbered as Append was called.
Increasing(s) == \A i, j \in 1..Len(s) : i < j => s[i][1] < s[j][1]
Before(s, t) == \A i \in 1..Len(s), j \in 1..Len(t) : s[i][1] < t[j][1]

\* No line is overtaken or held twice.
HeldInOrder ==
    /\ \A i, j \in Written : i < j => output.lines[i][1] < output.lines[j][1]
    /\ \A b \in 1..Len(Queued) :
         /\ Increasing(Queued[b]) /\ \A i \in Written : Before(<<output.lines[i]>>, Queued[b])
         /\ \A c \in (b + 1)..Len(Queued) : Before(Queued[b], Queued[c])

\* No line is lost, written twice or overtaken, whatever buffers threadFunc and Append exchange
\* meanwhile: what the files hold, what is still to be written, m_Buffers and m_pCurBuffer are
\* together, one after the other, the lines that were appended, without those threadFunc dropped.
LinesInOrder ==
    /\ Increasing(appended) /\ HeldInOrder
    /\ {output.lines[i] : i \in Written} \union UNION {ToSet(Queued[b]) : b \in 1..Len(Queued)}
         = ToSet(appended) \ lost

\* What makes it inductive: Append numbers upwards;
NumberInv ==
    /\ \A i \in 1..Len(appended) : appended[i][1] <= lines
    /\ \A l \in lost : l[1] <= lines

\* where threadFunc is says which buffers it has, and Append took m_pNextBuffer only for a buffer
\* that threadFunc will find;
BufferInv ==
    /\ threadAt \in {"test", "lock", "wait", "waited"} => newBuffer1 = NewBuffer /\ newBuffer2 = NewBuffer
    /\ IF threadAt \in {"drop", "write"}
         THEN /\ newBuffer1 = NULL /\ buffersToWrite # <<>>
              /\ newBuffer2 = NULL => Len(buffersToWrite) >= 2
         ELSE buffersToWrite = <<>>
    /\ threadAt = "drop" => n = 0
    /\ threadAt \in {"none", "started", "open"} => output = Closed
    /\ m_pNextBuffer = NULL => m_Buffers # <<>>

\* and the owner waits for the latch before it can stop.
LatchInv ==
    /\ ownerAt = "constructed" => threadAt = "none"
    /\ threadAt \in {"none", "started"} => m_nLatch = 1 /\ ownerAt \in {"constructed", "latch", "gone"}
    /\ threadAt = "started" => m_bRunning

\* Files are replaced in time, although one append looks at the size or at the day: a file grows
\* beyond the roll size only with the append that reaches it, and with appends at a time the clock
\* had not passed the second of its name; a new day has its file after CHECK_TIME_ROLL + 2 appends.
RollsInTime == ~output.overdue /\ output.stale <= CheckTimeRoll + 1

\* What makes it inductive: an append to the file of an earlier day is counted.
RollInv == ~output.overdue /\ output.stale \in 0..output.m_nCnt

\* Stop returns, although it stores m_bRunning and notifies without m_Mutex, because
\* WaitForSeconds ends by itself; and no assertion of threadFunc ends it, which always has two
\* empty buffers at the head of its loop.
StopReturns == ownerAt = "notify" ~> ownerAt = "stopped"

\* A line that was appended while the logger runs reaches the file and is flushed, unless it is
\* dropped or the logger is stopped, with no other line needed to push it.
LinesReachDisk ==
    \A i \in 1..MaxLines :
        ownerAt = "running" /\ Len(appended) >= i
            ~> \/ ownerAt # "running"
               \/ Len(appended) >= i /\ appended[i] \in lost
               \/ Len(appended) >= i /\ appended[i] \in ToSet(output.lines) /\ ~output.unflushed
=============================================================================
