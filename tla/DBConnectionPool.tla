-------------------------- MODULE DBConnectionPool --------------------------
(***************************************************************************)
(* db/DBConnectionPool on its ThreadPool, with its DBConnections and the      *)
(* CountDownLatch of Stop.  The owner calls Init and Stop; any thread may     *)
(* call ExecuteSql at any time.                                              *)
(*                                                                         *)
(* A Request is one call of ExecuteSql and names its statement too; its Task *)
(* is runInThread, which executes the oldest statement and not its own.      *)
(***************************************************************************)
EXTENDS ThreadPool

CONSTANT Latch      \* the task that counts Stop's latch down
ASSUME LatchAssumption == Latch \in Task /\ Worker \intersect Task = {}

VARIABLES
    m_SqlQueue, m_vDBConn,
    dbRunning,      \* DBConnectionPool's m_bRunning
    m_nCnt,         \* the latch's counter
    stopAt,         \* where the owner is in Stop
    callerAt,       \* where each caller is in ExecuteSql
    job,            \* what each thread in runInThread holds
    failed,         \* the assertion that ended the process
    pushed, executed,   \* the statements pushed, in order, and those executed (history)
    before          \* the calls that had returned when Stop was called (history)

jobVars == <<m_SqlQueue, m_vDBConn, job, executed>>
stopVars == <<dbRunning, m_nCnt, stopAt, before>>
callVars == <<callerAt, pushed>>
dbVars == <<jobVars, stopVars, callVars, failed>>
allVars == <<vars, dbVars>>

Request == Task \ {Latch}
Runner == Worker \union Request     \* a caller is one if the ThreadPool has no thread yet
Connection == 1..Cardinality(Worker)

Idle == [at |-> "task"]

DBInit ==
    /\ Init
    /\ m_SqlQueue = <<>> /\ m_vDBConn = <<>> /\ dbRunning = FALSE
    /\ m_nCnt = 0 /\ stopAt = "no"
    /\ callerAt = [r \in Request |-> "out"]
    /\ job = [x \in Runner |-> Idle]
    /\ failed = "no"
    /\ pushed = <<>> /\ executed = {} /\ before = {}

-----------------------------------------------------------------------------
(* Init: one connection for each thread, then the threads                   *)

\* DBConnection::Connect of each: it asserts that the server accepts.
Connect(connections) ==
    \/ m_vDBConn' = connections /\ UNCHANGED failed
    \/ failed' = "connect" /\ UNCHANGED m_vDBConn

\* Mutant: one connection less.
InitOneLess ==
    /\ ownerAt = "constructed" /\ ~dbRunning
    /\ Connect([i \in 1..(Cardinality(Worker) - 1) |-> i])
    /\ dbRunning' = TRUE
    /\ UNCHANGED <<vars, m_SqlQueue, job, executed, m_nCnt, stopAt, before, callVars>>

InitConnections ==
    /\ ownerAt = "constructed" /\ ~dbRunning
    /\ Connect([i \in Connection |-> i])
    /\ dbRunning' = TRUE
    /\ UNCHANGED <<vars, m_SqlQueue, job, executed, m_nCnt, stopAt, before, callVars>>

InitThreads ==
    /\ dbRunning
    /\ Start \/ \E w \in Worker : StartThread(w)
    /\ UNCHANGED dbVars

-----------------------------------------------------------------------------
(* ExecuteSql: two critical sections                                        *)

ExecuteSql(r) ==
    /\ callerAt[r] = "out"
    /\ m_SqlQueue' = Append(m_SqlQueue, r)
    /\ pushed' = Append(pushed, r)
    /\ callerAt' = [callerAt EXCEPT ![r] = "run"]
    /\ UNCHANGED <<vars, m_vDBConn, job, executed, stopVars, failed>>

ExecuteSqlRun(r) ==
    /\ callerAt[r] = "run"
    /\ \/ Run(r) /\ callerAt' = [callerAt EXCEPT ![r] = "returned"]
       \/ RunDirectly(r) /\ callerAt' = [callerAt EXCEPT ![r] = "inline"]
    /\ UNCHANGED <<jobVars, stopVars, pushed, failed>>

-----------------------------------------------------------------------------
(* runInThread, on a worker or on a caller                                   *)

InJob(x) ==
    \/ x \in Worker /\ workerAt[x] = "run" /\ task[x] # Latch
    \/ x \in Request /\ callerAt[x] = "inline"

Fails(why) == failed' = why /\ UNCHANGED jobVars

\* task() and the assertion that there is a statement.
PopSql(x) ==
    /\ InJob(x) /\ job[x].at = "task"
    /\ \/ m_SqlQueue = <<>> /\ Fails("sql")
       \/ /\ m_SqlQueue # <<>>
          /\ job' = [job EXCEPT ![x] = [at |-> "connection", sql |-> Head(m_SqlQueue)]]
          /\ m_SqlQueue' = Tail(m_SqlQueue)
          /\ UNCHANGED <<m_vDBConn, executed, failed>>
    /\ UNCHANGED <<vars, stopVars, callVars>>

TakeConnection(x) ==
    /\ job[x].at = "connection"
    /\ \/ m_vDBConn = <<>> /\ Fails("connection")
       \/ /\ m_vDBConn # <<>>
          /\ job' = [job EXCEPT ![x] = [at |-> "query", sql |-> job[x].sql,
                                        conn |-> Head(m_vDBConn)]]
          /\ m_vDBConn' = Tail(m_vDBConn)
          /\ UNCHANGED <<m_SqlQueue, executed, failed>>
    /\ UNCHANGED <<vars, stopVars, callVars>>

\* DBConnection::ExecuteSql: what the server refuses ends the process.
Query(x) ==
    /\ job[x].at = "query"
    /\ \/ Fails("query")
       \/ /\ executed' = executed \union {job[x].sql}
          /\ job' = [job EXCEPT ![x].at = "back"]
          /\ UNCHANGED <<m_SqlQueue, m_vDBConn, failed>>
    /\ UNCHANGED <<vars, stopVars, callVars>>

\* The connection goes back and runInThread returns, to the worker's loop or to the caller.
GiveBack(x) ==
    /\ job[x].at = "back"
    /\ m_vDBConn' = Append(m_vDBConn, job[x].conn)
    /\ job' = [job EXCEPT ![x] = Idle]
    /\ \/ x \in Worker /\ TaskReturns(x) /\ UNCHANGED callerAt
       \/ x \in Request /\ callerAt' = [callerAt EXCEPT ![x] = "returned"] /\ UNCHANGED vars
    /\ UNCHANGED <<m_SqlQueue, executed, stopVars, pushed, failed>>

RunJob(x) == PopSql(x) \/ TakeConnection(x) \/ Query(x) \/ GiveBack(x)

-----------------------------------------------------------------------------
(* Stop, on the owner, and the latch                                         *)

DBStop ==
    /\ ownerAt = "started" /\ stopAt = "no" /\ dbRunning
    /\ dbRunning' = FALSE
    /\ m_nCnt' = 1
    /\ stopAt' = "run"
    /\ before' = {r \in Request : callerAt[r] = "returned"}
    /\ UNCHANGED <<vars, jobVars, callVars, failed>>

DBStopRunLatch ==
    /\ stopAt = "run"
    /\ Run(Latch)
    /\ stopAt' = "wait"
    /\ UNCHANGED <<jobVars, dbRunning, m_nCnt, before, callVars, failed>>

\* CountDownLatch::Wait: a test, and pthread_cond_wait while it fails.
LatchWait ==
    /\ stopAt = "wait"
    /\ stopAt' = IF m_nCnt > 0 THEN "asleep" ELSE "pool"
    /\ UNCHANGED <<vars, jobVars, dbRunning, m_nCnt, before, callVars, failed>>

LatchSpuriousWakeUp ==
    /\ stopAt = "asleep"
    /\ stopAt' = "wait"
    /\ UNCHANGED <<vars, jobVars, dbRunning, m_nCnt, before, callVars, failed>>

\* Mutant: CountDown notifies nobody.
CountDownSilently(w) ==
    /\ workerAt[w] = "run" /\ task[w] = Latch
    /\ m_nCnt' = m_nCnt - 1
    /\ TaskReturns(w)
    /\ UNCHANGED <<jobVars, stopAt, dbRunning, before, callVars, failed>>

CountDown(w) ==
    /\ workerAt[w] = "run" /\ task[w] = Latch
    /\ m_nCnt' = m_nCnt - 1
    /\ stopAt' = IF m_nCnt' = 0 /\ stopAt = "asleep" THEN "wait" ELSE stopAt
    /\ TaskReturns(w)
    /\ UNCHANGED <<jobVars, dbRunning, before, callVars, failed>>

\* Mutant: the latch is not waited for.
DBStopPoolAtOnce ==
    /\ stopAt \in {"wait", "asleep", "pool"}
    /\ Stop \/ StopNotify \/ StopJoin
    /\ UNCHANGED dbVars

\* m_ThreadPool.Stop()
DBStopPool ==
    /\ stopAt = "pool"
    /\ Stop \/ StopNotify \/ StopJoin
    /\ UNCHANGED dbVars

-----------------------------------------------------------------------------

TakeStep(w) ==
    /\ TestRunning(w) \/ TakeTask(w) \/ TakeNothing(w) \/ Wait(w)
    /\ UNCHANGED dbVars

ThreadStep(w) == TakeStep(w) \/ RunJob(w) \/ CountDown(w)
CallerStep(r) == ExecuteSqlRun(r) \/ RunJob(r)
DBOwnerStep == InitThreads \/ DBStopRunLatch \/ LatchWait \/ DBStopPool

DBNext ==
    /\ failed = "no"
    /\ \/ InitConnections \/ DBStop \/ LatchSpuriousWakeUp \/ DBOwnerStep
       \/ \E r \in Request : ExecuteSql(r) \/ CallerStep(r)
       \/ \E w \in Worker : ThreadStep(w) \/ (SpuriousWakeUp(w) /\ UNCHANGED dbVars)

DBSpec == DBInit /\ [][DBNext]_allVars

\* Every thread gets the processor, and m_Mutex if it is free again and again; nothing forces a
\* call or a spurious wake-up.
DBFairSpec ==
    /\ DBSpec
    /\ SF_allVars(failed = "no" /\ DBOwnerStep)
    /\ \A r \in Request : SF_allVars(failed = "no" /\ CallerStep(r))
    /\ \A w \in Worker : WF_allVars(failed = "no" /\ ThreadStep(w))

-----------------------------------------------------------------------------

Holders == {x \in Runner : job[x].at \in {"query", "back"}}

\* A call of ExecuteSql found no thread, and ran runInThread itself.
RanDirectly == done \ Members(queued) # {}

Job ==
    {Idle} \union [at : {"connection"}, sql : Request]
           \union [at : {"query", "back"}, sql : Request, conn : Connection]

\* The type invariant of what DBConnectionPool adds to its ThreadPool.
DBTypeOK ==
    /\ m_SqlQueue \in Seq(Request) /\ pushed \in Seq(Request) /\ m_vDBConn \in Seq(Connection)
    /\ job \in [Runner -> Job]
    /\ callerAt \in [Request -> {"out", "run", "inline", "returned"}]
    /\ executed \subseteq Request /\ before \subseteq Request
    /\ dbRunning \in BOOLEAN /\ m_nCnt \in 0..1
    /\ stopAt \in {"no", "run", "wait", "asleep", "pool"}
    /\ failed \in {"no", "connect", "sql", "connection", "query"}

\* What the queue of statements rests on: a call pushes its statement once, and then its task;
\* who holds a statement or a connection is inside runInThread.
CallInv ==
    /\ \A r \in Request : callerAt[r] = "out" <=> r \notin Members(pushed)
    /\ \A i, j \in 1..Len(pushed) : pushed[i] = pushed[j] => i = j
    /\ \A t \in Members(queued) : t = Latch \/ callerAt[t] = "returned"
    /\ \A r \in Request : callerAt[r] = "returned" => r \in Members(queued) \union done
    /\ \A r \in Request : callerAt[r] = "inline" => r \in done /\ r \notin Members(queued)
    /\ \A x \in Runner : job[x].at # "task" => InJob(x)

\* Init has filled m_vDBConn, and from then on every connection is in it, once, or with one
\* thread.
Initialised == dbRunning \/ ownerAt # "constructed"
ConnInv ==
    /\ \A w \in Worker : workerAt[w] # "none" => ownerAt # "constructed"
    /\ ~Initialised => m_vDBConn = <<>> /\ Holders = {}
    /\ Initialised /\ failed # "connect" =>
         \A c \in Connection : c \in Members(m_vDBConn) \/ \E x \in Holders : job[x].conn = c
    /\ \A i, j \in 1..Len(m_vDBConn) : m_vDBConn[i] = m_vDBConn[j] => i = j
    /\ \A x \in Holders : job[x].conn \notin Members(m_vDBConn)
    /\ \A x, y \in Holders : job[x].conn = job[y].conn => x = y

\* The statements that are left are those pushed last; those before them were popped, by as
\* many tasks, and are executed or in a thread's hands.
SqlTaken == Len(pushed) - Len(m_SqlQueue)
Popped ==
    {t \in Request :
        \/ t \in done
        \/ \E w \in Worker : workerAt[w] = "run" /\ task[w] = t /\ job[w].at # "task"}
SqlInv ==
    /\ Len(m_SqlQueue) <= Len(pushed)
    /\ \A i \in 1..Len(m_SqlQueue) : m_SqlQueue[i] = pushed[SqlTaken + i]
    /\ ~RanDirectly => Cardinality(Popped) = SqlTaken
    /\ \A i \in 1..SqlTaken :
         \/ pushed[i] \in executed
         \/ \E x \in Runner : job[x].at \in {"connection", "query"} /\ job[x].sql = pushed[i]

\* Stop's latch is queued behind the tasks of the calls that had returned, and ThreadPool::Stop
\* comes when it is counted down.
LatchInv ==
    /\ stopAt \in {"no", "run"} => Latch \notin Members(queued) \union done
    /\ stopAt = "no" => before = {}
    /\ stopAt # "no" => m_nCnt = IF Latch \in done THEN 0 ELSE 1
    /\ stopAt = "pool" => Latch \in done
    /\ ownerAt \in {"stopping", "joining", "stopped"} => stopAt = "pool"
    /\ \A r \in before : callerAt[r] = "returned"
    /\ \A r \in before : \A i, j \in 1..Len(queued) : queued[i] = r /\ queued[j] = Latch => i < j

\* If no call of ExecuteSql overtakes Init, no assertion of runInThread fails: every task finds
\* a statement (though not its own) and a connection, and a connection is with one thread or in
\* m_vDBConn, never with two threads.
ConnectionsSuffice ==
    /\ ~RanDirectly => failed \in {"no", "connect", "query"}
    /\ \A x \in Holders : job[x].conn \notin Members(m_vDBConn)
    /\ \A x, y \in Holders : job[x].conn = job[y].conn => x = y

\* Once Stop has returned, the statement of a call that had returned before Stop is executed,
\* unless an older statement belongs to a call that had not: between the two critical sections
\* of that call its statement is executed by the other's task.
StopExecutes ==
    ownerAt = "stopped" /\ ~RanDirectly =>
        \A i \in 1..Len(pushed) :
            pushed[i] \in before =>
                \/ pushed[i] \in executed
                \/ \E k \in 1..(i - 1) : pushed[k] \notin before

\* Stop returns, unless a worker went to sleep on m_Cond after ThreadPool::Stop's broadcast,
\* which holds no mutex.
StopReturns ==
    stopAt = "run" ~> \/ ownerAt = "stopped" \/ failed # "no"
                      \/ ownerAt = "joining" /\ At("wait") # {}

\* A statement that is pushed is executed, unless Stop is called.
RequestsExecuted ==
    \A r \in Request :
        r \in Members(pushed) ~> r \in executed \/ failed # "no" \/ stopAt # "no"
=============================================================================
