----------------------------- MODULE ThreadPool -----------------------------
(***************************************************************************)
(* thread/ThreadPool over Mutex, Condition and Thread: workers that take     *)
(* tasks from a queue, callers of Run, and the owner, who calls Start and    *)
(* Stop.  Run and take hold m_Mutex; Stop changes m_bRunning and notifies    *)
(* without it.                                                              *)
(*                                                                         *)
(* A Task is one call of Run.  Run may be called by any thread at any time,  *)
(* a task included.                                                         *)
(***************************************************************************)
EXTENDS Naturals, Sequences, FiniteSets

CONSTANTS Worker, Task
ASSUME WorkerAssumption == IsFiniteSet(Worker) /\ Worker # {}

VARIABLES
    m_Queue, m_bRunning,
    workerAt,       \* where each worker is
    task,           \* the task a worker is running
    ownerAt,        \* where the owner is
    queued, done    \* the tasks pushed, in order, and those finished (history)

vars == <<m_Queue, m_bRunning, workerAt, task, ownerAt, queued, done>>

\* "none": not created;  "loop": at while (m_bRunning);  "take": about to lock
\* m_Mutex and test the queue;  "hold": has decided to wait and still holds
\* m_Mutex;  "wait": in m_Cond.Wait;  "run": running its task;  "ended".
WorkerPlace == {"none", "loop", "take", "hold", "wait", "run", "ended"}
OwnerPlace == {"constructed", "starting", "started", "stopping", "joining", "stopped"}

NoTask == "none"
Members(s) == {s[i] : i \in 1..Len(s)}
At(place) == {w \in Worker : workerAt[w] = place}
Fresh(t) == t \notin Members(queued) \union done

\* m_Mutex: the critical sections of Run and of take that return are one step each.
MutexFree == At("hold") = {}

Init ==
    /\ m_Queue = <<>>
    /\ m_bRunning = FALSE
    /\ workerAt = [w \in Worker |-> "none"]
    /\ task = [w \in Worker |-> NoTask]
    /\ ownerAt = "constructed"
    /\ queued = <<>>
    /\ done = {}

-----------------------------------------------------------------------------
(* The owner                                                                *)

Start ==
    /\ ownerAt = "constructed"
    /\ m_bRunning' = TRUE
    /\ ownerAt' = "starting"
    /\ UNCHANGED <<m_Queue, workerAt, task, queued, done>>

\* One turn of Start's loop.
StartThread(w) ==
    /\ ownerAt = "starting"
    /\ workerAt[w] = "none"
    /\ workerAt' = [workerAt EXCEPT ![w] = "loop"]
    /\ ownerAt' = IF At("none") = {w} THEN "started" ELSE "starting"
    /\ UNCHANGED <<m_Queue, m_bRunning, task, queued, done>>

Stop ==
    /\ ownerAt = "started"
    /\ m_bRunning' = FALSE
    /\ ownerAt' = "stopping"
    /\ UNCHANGED <<m_Queue, workerAt, task, queued, done>>

NotifyAll == [w \in Worker |-> IF workerAt[w] = "wait" THEN "take" ELSE workerAt[w]]

StopNotify ==
    /\ ownerAt = "stopping"
    /\ workerAt' = NotifyAll
    /\ ownerAt' = "joining"
    /\ UNCHANGED <<m_Queue, m_bRunning, task, queued, done>>

\* for_each Join: it passes when the last thread has ended.
StopJoin ==
    /\ ownerAt = "joining"
    /\ At("ended") = Worker
    /\ ownerAt' = "stopped"
    /\ UNCHANGED <<m_Queue, m_bRunning, workerAt, task, queued, done>>

-----------------------------------------------------------------------------
(* Run                                                                      *)

\* m_vThreads.empty(): the caller runs the task itself.
RunDirectly(t) ==
    /\ At("none") = Worker
    /\ Fresh(t)
    /\ done' = done \union {t}
    /\ UNCHANGED <<m_Queue, m_bRunning, workerAt, task, ownerAt, queued>>

\* Mutant: nobody is notified.
NotifyNobody == {workerAt}

\* m_Cond.Notify(): one waiting worker, if there is one.
Notify ==
    IF At("wait") = {} THEN {workerAt}
                       ELSE {[workerAt EXCEPT ![w] = "take"] : w \in At("wait")}

\* Mutant: only the first task of an empty queue is notified for.
RunNotifyFirst(t) ==
    /\ At("none") # Worker
    /\ MutexFree
    /\ Fresh(t)
    /\ m_Queue' = Append(m_Queue, t)
    /\ queued' = Append(queued, t)
    /\ workerAt' \in IF m_Queue = <<>> THEN Notify ELSE {workerAt}
    /\ UNCHANGED <<m_bRunning, task, ownerAt, done>>

Run(t) ==
    /\ At("none") # Worker
    /\ MutexFree
    /\ Fresh(t)
    /\ m_Queue' = Append(m_Queue, t)
    /\ queued' = Append(queued, t)
    /\ workerAt' \in Notify
    /\ UNCHANGED <<m_bRunning, task, ownerAt, done>>

-----------------------------------------------------------------------------
(* runInThread and take, on a worker                                        *)

TestRunning(w) ==
    /\ workerAt[w] = "loop"
    /\ workerAt' = [workerAt EXCEPT ![w] = IF m_bRunning THEN "take" ELSE "ended"]
    /\ UNCHANGED <<m_Queue, m_bRunning, task, ownerAt, queued, done>>

\* Mutant: the newest task is taken.
TakeNewest(w) ==
    /\ workerAt[w] = "take"
    /\ MutexFree
    /\ m_Queue # <<>>
    /\ task' = [task EXCEPT ![w] = m_Queue[Len(m_Queue)]]
    /\ m_Queue' = SubSeq(m_Queue, 1, Len(m_Queue) - 1)
    /\ workerAt' = [workerAt EXCEPT ![w] = "run"]
    /\ UNCHANGED <<m_bRunning, ownerAt, queued, done>>

\* take finds a task, whether or not the pool is still running.
TakeTask(w) ==
    /\ workerAt[w] = "take"
    /\ MutexFree
    /\ m_Queue # <<>>
    /\ task' = [task EXCEPT ![w] = Head(m_Queue)]
    /\ m_Queue' = Tail(m_Queue)
    /\ workerAt' = [workerAt EXCEPT ![w] = "run"]
    /\ UNCHANGED <<m_bRunning, ownerAt, queued, done>>

\* take finds none and returns an empty Task, or is about to wait for one.
TakeNothing(w) ==
    /\ workerAt[w] = "take"
    /\ MutexFree
    /\ m_Queue = <<>>
    /\ workerAt' = [workerAt EXCEPT ![w] = IF m_bRunning THEN "hold" ELSE "loop"]
    /\ UNCHANGED <<m_Queue, m_bRunning, task, ownerAt, queued, done>>

\* pthread_cond_wait releases m_Mutex and waits.
Wait(w) ==
    /\ workerAt[w] = "hold"
    /\ workerAt' = [workerAt EXCEPT ![w] = "wait"]
    /\ UNCHANGED <<m_Queue, m_bRunning, task, ownerAt, queued, done>>

\* POSIX allows it to return without a notification.
SpuriousWakeUp(w) ==
    /\ workerAt[w] = "wait"
    /\ workerAt' = [workerAt EXCEPT ![w] = "take"]
    /\ UNCHANGED <<m_Queue, m_bRunning, task, ownerAt, queued, done>>

TaskReturns(w) ==
    /\ workerAt[w] = "run"
    /\ done' = done \union {task[w]}
    /\ task' = [task EXCEPT ![w] = NoTask]
    /\ workerAt' = [workerAt EXCEPT ![w] = "loop"]
    /\ UNCHANGED <<m_Queue, m_bRunning, ownerAt, queued>>

-----------------------------------------------------------------------------

WorkerStep(w) ==
    TestRunning(w) \/ TakeTask(w) \/ TakeNothing(w) \/ Wait(w) \/ TaskReturns(w)

OwnerStep == StopNotify \/ StopJoin \/ \E w \in Worker : StartThread(w)

Next ==
    \/ Start \/ Stop \/ OwnerStep
    \/ \E t \in Task : Run(t) \/ RunDirectly(t)
    \/ \E w \in Worker : WorkerStep(w) \/ SpuriousWakeUp(w)

Spec == Init /\ [][Next]_vars

\* Every thread gets the processor; nothing forces a call, a Stop or a spurious
\* wake-up.
FairSpec ==
    /\ Spec
    /\ WF_vars(OwnerStep)
    /\ \A w \in Worker : WF_vars(WorkerStep(w))

-----------------------------------------------------------------------------

\* The type invariant: what is in the queue is a task, also what a worker took (runInThread
\* calls no empty Task as if it were one).
TypeOK ==
    /\ m_Queue \in Seq(Task)
    /\ m_bRunning \in BOOLEAN
    /\ workerAt \in [Worker -> WorkerPlace]
    /\ task \in [Worker -> Task \union {NoTask}]
    /\ \A w \in Worker : workerAt[w] = "run" => task[w] \in Task
    /\ ownerAt \in OwnerPlace
    /\ queued \in Seq(Task)
    /\ done \in SUBSET Task

\* No worker sleeps on queued work: while one waits on m_Cond, every queued task
\* has a worker of its own on the way to take it (Run notifies for each task, not
\* only for the first, and take re-tests the queue before it waits).
NobodySleepsOnWork == At("wait") # {} => Len(m_Queue) <= Cardinality(At("take"))

\* What makes it inductive: a worker that is about to wait saw an empty queue, and nobody
\* can push while it holds m_Mutex.
HoldInv == ~MutexFree => m_Queue = <<>>

\* A task is finished only once all tasks queued before it are taken, and once
\* Stop has returned they are finished: what makes "queue a latch's CountDown, wait
\* for it, Stop" run every task, as ThreadPool_UnitTest and DBConnectionPool::Stop do.
EarlierTasksRun ==
    \A i, j \in 1..Len(queued) :
        i < j /\ queued[j] \in done =>
            /\ queued[i] \notin Members(m_Queue)
            /\ ownerAt = "stopped" => queued[i] \in done

\* What makes it inductive: the queue is what was pushed last, without repetition; a task
\* before it was taken, and is running or done; a task in it is not done; one that runs, runs on
\* one worker and is not done; Join waited for all.
Taken == Len(queued) - Len(m_Queue)
SuffixInv ==
    /\ Len(m_Queue) <= Len(queued)
    /\ \A i \in 1..Len(m_Queue) : m_Queue[i] = queued[Taken + i]
    /\ \A i, j \in 1..Len(queued) : queued[i] = queued[j] => i = j
TakenInv ==
    /\ \A i \in 1..Taken :
         queued[i] \in done \/ \E w \in Worker : workerAt[w] = "run" /\ task[w] = queued[i]
    /\ \A w \in Worker : workerAt[w] = "run" => \E i \in 1..Taken : task[w] = queued[i]
    /\ \A i \in (Taken + 1)..Len(queued) : queued[i] \notin done
RunningInv ==
    /\ \A w \in Worker : workerAt[w] = "run" => task[w] \notin done
    /\ \A v, w \in Worker : workerAt[v] = "run" /\ workerAt[w] = "run" /\ task[v] = task[w] => v = w
StoppedInv == ownerAt = "stopped" => \A w \in Worker : workerAt[w] = "ended"
=============================================================================
