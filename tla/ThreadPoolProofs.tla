-------------------------- MODULE ThreadPoolProofs --------------------------
(***************************************************************************)
(* Proofs about ThreadPool for any finite set of workers and any tasks, and  *)
(* that they hold of the pool inside DBConnectionPool.                       *)
(***************************************************************************)
EXTENDS DBConnectionPool, FiniteSetTheorems, TLAPS

\* Queue, workers and owner keep their types, and a worker that runs has a task.
THEOREM PoolTypeCorrect == Spec => []TypeOK
<1> USE DEF TypeOK, WorkerPlace, OwnerPlace
<1>1. Init => TypeOK
  <2>1. Init => m_Queue \in Seq(Task) /\ queued \in Seq(Task)
    BY DEF Init
  <2>2. Init => /\ m_bRunning \in BOOLEAN /\ ownerAt \in OwnerPlace /\ done \in SUBSET Task
                /\ workerAt \in [Worker -> WorkerPlace]
                /\ task \in [Worker -> Task \union {NoTask}]
                /\ \A w \in Worker : workerAt[w] = "none"
    BY DEF Init
  <2> QED
    BY <2>1, <2>2
<1>2. TypeOK /\ [Next]_vars => TypeOK'
  <2> SUFFICES ASSUME TypeOK, [Next]_vars PROVE TypeOK'
    OBVIOUS
  <2>1. CASE UNCHANGED vars
    BY <2>1 DEF vars
  <2>2. CASE Start
    BY <2>2 DEF Start
  <2>3. CASE Stop
    BY <2>3 DEF Stop
  <2>4. CASE StopNotify
    BY <2>4 DEF StopNotify, NotifyAll
  <2>5. CASE StopJoin
    BY <2>5 DEF StopJoin
  <2>6. ASSUME NEW w \in Worker, StartThread(w) PROVE TypeOK'
    BY <2>6 DEF StartThread
  <2>7. ASSUME NEW t \in Task, Run(t) PROVE TypeOK'
    <3>1. workerAt' \in [Worker -> WorkerPlace]
          /\ \A w \in Worker : workerAt'[w] = "run" => workerAt[w] = "run"
      BY <2>7 DEF Run, Notify, At
    <3> QED
      BY <2>7, <3>1 DEF Run
  <2>8. ASSUME NEW t \in Task, RunDirectly(t) PROVE TypeOK'
    BY <2>8 DEF RunDirectly
  <2>9. ASSUME NEW w \in Worker, TestRunning(w) PROVE TypeOK'
    BY <2>9 DEF TestRunning
  <2>10. ASSUME NEW w \in Worker, TakeTask(w) PROVE TypeOK'
    <3>1. Head(m_Queue) \in Task /\ Tail(m_Queue) \in Seq(Task)
      BY <2>10 DEF TakeTask
    <3> QED
      BY <2>10, <3>1 DEF TakeTask
  <2>11. ASSUME NEW w \in Worker, TakeNothing(w) PROVE TypeOK'
    BY <2>11 DEF TakeNothing
  <2>12. ASSUME NEW w \in Worker, Wait(w) PROVE TypeOK'
    BY <2>12 DEF Wait
  <2>13. ASSUME NEW w \in Worker, SpuriousWakeUp(w) PROVE TypeOK'
    BY <2>13 DEF SpuriousWakeUp
  <2>14. ASSUME NEW w \in Worker, TaskReturns(w) PROVE TypeOK'
    BY <2>14 DEF TaskReturns
  <2> QED
    BY <2>1, <2>2, <2>3, <2>4, <2>5, <2>6, <2>7, <2>8, <2>9, <2>10, <2>11, <2>12, <2>13, <2>14
    DEF Next, OwnerStep, WorkerStep
<1> QED
  BY <1>1, <1>2, PTL DEF Spec

-----------------------------------------------------------------------------
(* The workers on the way to take a task.                                   *)

\* Their number is a natural number.
LEMMA TakersFinite ==
    /\ IsFiniteSet(At("take")) /\ Cardinality(At("take")) \in Nat
    /\ IsFiniteSet(At("take")') /\ Cardinality(At("take")') \in Nat
<1>1. IsFiniteSet(At("take")) /\ IsFiniteSet(At("take")')
  BY WorkerAssumption, FS_Subset DEF At
<1> QED
  BY <1>1, FS_CardinalityType

\* What no step but Run, TakeTask and the two steps of a wait does: nobody leaves for m_Cond
\* or for the queue, and the queue stays.
LEMMA OthersKeep ==
    ASSUME TypeOK, HoldInv, NobodySleepsOnWork,
           m_Queue' = m_Queue, At("take") \subseteq At("take")',
           At("wait")' \subseteq At("wait"), At("hold")' \subseteq At("hold")
    PROVE  (HoldInv /\ NobodySleepsOnWork)'
<1>1. Cardinality(At("take")) <= Cardinality(At("take")')
  BY TakersFinite, FS_Subset
<1>2. Len(m_Queue) \in Nat
  BY DEF TypeOK
<1>3. HoldInv'
  BY DEF HoldInv, MutexFree
<1>4. NobodySleepsOnWork'
  BY <1>1, <1>2, TakersFinite DEF NobodySleepsOnWork
<1> QED
  BY <1>3, <1>4

\* No worker sleeps on queued work, for any number of workers: Run's Notify and take's test
\* under m_Mutex leave no task without a worker of its own while another worker waits.
THEOREM WorkersNeverSleepOnWork == Spec => []NobodySleepsOnWork
<1>1. Init => HoldInv /\ NobodySleepsOnWork
  BY DEF Init, HoldInv, MutexFree, NobodySleepsOnWork, At
<1>2. TypeOK /\ HoldInv /\ NobodySleepsOnWork /\ [Next]_vars => (HoldInv /\ NobodySleepsOnWork)'
  <2> SUFFICES ASSUME TypeOK, HoldInv, NobodySleepsOnWork, [Next]_vars
               PROVE  (HoldInv /\ NobodySleepsOnWork)'
    OBVIOUS
  <2> USE DEF TypeOK
  <2>1. CASE UNCHANGED vars \/ Start \/ Stop \/ StopJoin \/ \E t \in Task : RunDirectly(t)
    <3>1. m_Queue' = m_Queue /\ workerAt' = workerAt
      BY <2>1 DEF vars, Start, Stop, StopJoin, RunDirectly
    <3> QED
      BY <3>1, OthersKeep DEF At
  <2>2. CASE StopNotify
    <3>1. m_Queue' = m_Queue /\ At("take") \subseteq At("take")'
          /\ At("wait")' \subseteq At("wait") /\ At("hold")' \subseteq At("hold")
      BY <2>2 DEF StopNotify, NotifyAll, At
    <3> QED
      BY <3>1, OthersKeep
  <2>3. ASSUME NEW w \in Worker,
               StartThread(w) \/ TestRunning(w) \/ SpuriousWakeUp(w) \/ TaskReturns(w)
        PROVE  (HoldInv /\ NobodySleepsOnWork)'
    <3>1. m_Queue' = m_Queue /\ At("take") \subseteq At("take")'
          /\ At("wait")' \subseteq At("wait") /\ At("hold")' \subseteq At("hold")
      BY <2>3 DEF StartThread, TestRunning, SpuriousWakeUp, TaskReturns, At
    <3> QED
      BY <3>1, OthersKeep
  <2>4. ASSUME NEW t \in Task, Run(t) PROVE (HoldInv /\ NobodySleepsOnWork)'
    <3>1. Len(m_Queue') = Len(m_Queue) + 1 /\ Len(m_Queue) \in Nat
      BY <2>4 DEF Run
    <3>2. At("hold")' = {}
      BY <2>4 DEF Run, Notify, MutexFree, At
    <3>3. CASE At("wait") = {}
      BY <2>4, <3>2, <3>3 DEF Run, Notify, HoldInv, MutexFree, NobodySleepsOnWork, At
    <3>4. CASE At("wait") # {}
      <4>1. PICK w \in At("wait") : workerAt' = [workerAt EXCEPT ![w] = "take"]
        BY <2>4, <3>4 DEF Run, Notify
      <4>2. w \notin At("take") /\ At("take")' = At("take") \union {w}
        BY <4>1 DEF At
      <4>3. Cardinality(At("take")') = Cardinality(At("take")) + 1
        BY <4>2, TakersFinite, FS_AddElement
      <4> QED
        BY <3>1, <3>2, <3>4, <4>3, TakersFinite DEF HoldInv, MutexFree, NobodySleepsOnWork
    <3> QED
      BY <3>3, <3>4
  <2>5. ASSUME NEW w \in Worker, TakeTask(w) PROVE (HoldInv /\ NobodySleepsOnWork)'
    <3>1. Len(m_Queue') = Len(m_Queue) - 1 /\ Len(m_Queue) \in Nat
      BY <2>5 DEF TakeTask
    <3>2. At("hold")' = {} /\ At("wait")' = At("wait")
      BY <2>5 DEF TakeTask, MutexFree, At
    <3>3. w \in At("take") /\ At("take")' = At("take") \ {w}
      BY <2>5 DEF TakeTask, At
    <3>4. Cardinality(At("take")') = Cardinality(At("take")) - 1
      BY <3>3, TakersFinite, FS_RemoveElement
    <3> QED
      BY <3>1, <3>2, <3>4, TakersFinite DEF HoldInv, MutexFree, NobodySleepsOnWork
  <2>6. ASSUME NEW w \in Worker, TakeNothing(w) \/ Wait(w)
        PROVE  (HoldInv /\ NobodySleepsOnWork)'
    <3>1. m_Queue = <<>> /\ m_Queue' = <<>>
      BY <2>6 DEF TakeNothing, Wait, HoldInv, MutexFree, At
    <3> QED
      BY <3>1, TakersFinite DEF HoldInv, NobodySleepsOnWork
  <2> QED
    BY <2>1, <2>2, <2>3, <2>4, <2>5, <2>6 DEF Next, OwnerStep, WorkerStep
<1> QED
  BY <1>1, <1>2, PoolTypeCorrect, PTL DEF Spec
-----------------------------------------------------------------------------
(* The order of tasks.                                                       *)

PoolInv == TypeOK /\ SuffixInv /\ TakenInv /\ StoppedInv

\* A step that neither pushes, takes nor finishes a task keeps SuffixInv and TakenInv.
LEMMA QueueKept ==
    ASSUME PoolInv, UNCHANGED <<m_Queue, queued, done, task>>,
           \A w \in Worker : workerAt'[w] = "run" <=> workerAt[w] = "run"
    PROVE  SuffixInv' /\ TakenInv'
<1>1. SuffixInv'
  BY DEF PoolInv, SuffixInv, Taken
<1>2. TakenInv'
  BY DEF PoolInv, TakenInv, Taken
<1> QED
  BY <1>1, <1>2

\* Run pushes a task that was never queued or done.
LEMMA RunKeeps ==
    ASSUME PoolInv, NEW t \in Task, Run(t)
    PROVE  SuffixInv' /\ TakenInv' /\ StoppedInv'
<1> USE DEF PoolInv, TypeOK
<1>1. /\ queued' = Append(queued, t) /\ m_Queue' = Append(m_Queue, t)
      /\ UNCHANGED <<task, ownerAt, done>>
  BY DEF Run
<1>2. /\ Len(queued') = Len(queued) + 1 /\ Len(m_Queue') = Len(m_Queue) + 1
      /\ Len(queued) \in Nat /\ Len(m_Queue) \in Nat /\ Len(m_Queue) <= Len(queued)
      /\ Taken' = Taken /\ Taken \in Nat
  BY <1>1 DEF SuffixInv, Taken
<1>3. t \notin done /\ \A i \in 1..Len(queued) : queued[i] # t
  BY DEF Run, Fresh, Members
<1>4. /\ \A i \in 1..Len(queued) : queued'[i] = queued[i]
      /\ queued'[Len(queued) + 1] = t
      /\ \A i \in 1..Len(m_Queue) : m_Queue'[i] = m_Queue[i]
      /\ m_Queue'[Len(m_Queue) + 1] = t
  BY <1>1
<1>5. \A w \in Worker : workerAt'[w] = "run" <=> workerAt[w] = "run"
  BY DEF Run, Notify, At, WorkerPlace
<1>6. \A w \in Worker : workerAt[w] = "ended" => workerAt'[w] = "ended"
  BY DEF Run, Notify, At, WorkerPlace
<1>7. SuffixInv'
  <2>1. \A i \in 1..Len(m_Queue') : m_Queue'[i] = queued'[Taken' + i]
    <3> SUFFICES ASSUME NEW i \in 1..Len(m_Queue') PROVE m_Queue'[i] = queued'[Taken' + i]
      OBVIOUS
    <3>1. CASE i \in 1..Len(m_Queue)
      <4>1. Taken + i \in 1..Len(queued)
        BY <1>2, <3>1 DEF Taken
      <4> QED
        BY <1>2, <1>4, <3>1, <4>1 DEF SuffixInv
    <3>2. CASE i = Len(m_Queue) + 1
      BY <1>2, <1>4, <3>2 DEF Taken
    <3> QED
      BY <1>2, <3>1, <3>2
  <2>2. \A i, j \in 1..Len(queued') : queued'[i] = queued'[j] => i = j
    <3> SUFFICES ASSUME NEW i \in 1..Len(queued'), NEW j \in 1..Len(queued'),
                        queued'[i] = queued'[j]
                 PROVE  i = j
      OBVIOUS
    <3>1. (i \in 1..Len(queued) \/ i = Len(queued) + 1)
          /\ (j \in 1..Len(queued) \/ j = Len(queued) + 1)
      BY <1>2
    <3> QED
      BY <1>3, <1>4, <3>1 DEF SuffixInv
  <2> QED
    BY <1>2, <2>1, <2>2 DEF SuffixInv
<1>8. TakenInv'
  <2>1. \A i \in 1..Taken : i \in 1..Len(queued)
    BY <1>2 DEF Taken
  <2>2. \A i \in (Taken' + 1)..Len(queued') : queued'[i] \notin done'
    <3> SUFFICES ASSUME NEW i \in (Taken' + 1)..Len(queued') PROVE queued'[i] \notin done'
      OBVIOUS
    <3>1. CASE i = Len(queued) + 1
      BY <1>1, <1>3, <1>4, <3>1
    <3>2. CASE i \in (Taken + 1)..Len(queued)
      <4>1. i \in 1..Len(queued)
        BY <1>2, <3>2
      <4> QED
        BY <1>1, <1>4, <3>2, <4>1 DEF TakenInv
    <3> QED
      BY <1>2, <3>1, <3>2
  <2>3. \A i \in 1..Taken' :
          queued'[i] \in done' \/ \E w \in Worker : workerAt'[w] = "run" /\ task'[w] = queued'[i]
    BY <1>1, <1>2, <1>4, <1>5, <2>1 DEF TakenInv
  <2>4. \A w \in Worker : workerAt'[w] = "run" => \E i \in 1..Taken' : task'[w] = queued'[i]
    BY <1>1, <1>2, <1>4, <1>5, <2>1 DEF TakenInv
  <2> QED
    BY <2>2, <2>3, <2>4 DEF TakenInv
<1>9. StoppedInv'
  BY <1>1, <1>6 DEF StoppedInv
<1> QED
  BY <1>7, <1>8, <1>9

\* TakeTask takes the oldest task that was not taken.
LEMMA TakeKeeps ==
    ASSUME PoolInv, NEW w \in Worker, TakeTask(w)
    PROVE  SuffixInv' /\ TakenInv' /\ StoppedInv'
<1> USE DEF PoolInv, TypeOK
<1>1. /\ m_Queue # <<>> /\ workerAt[w] = "take"
      /\ task' = [task EXCEPT ![w] = Head(m_Queue)] /\ m_Queue' = Tail(m_Queue)
      /\ workerAt' = [workerAt EXCEPT ![w] = "run"]
      /\ UNCHANGED <<ownerAt, queued, done>>
  BY DEF TakeTask
<1>2. /\ Len(m_Queue) \in Nat \ {0} /\ Len(queued) \in Nat /\ Len(m_Queue) <= Len(queued)
      /\ Len(m_Queue') = Len(m_Queue) - 1
      /\ \A i \in 1..(Len(m_Queue) - 1) : m_Queue'[i] = m_Queue[i + 1]
      /\ Head(m_Queue) = m_Queue[1]
  BY <1>1 DEF SuffixInv
<1>3. /\ Taken \in Nat /\ Taken + 1 \in 1..Len(queued) /\ Taken' = Taken + 1
  BY <1>1, <1>2 DEF Taken
<1>4. Head(m_Queue) = queued[Taken + 1]
  BY <1>2 DEF SuffixInv
<1>5. SuffixInv'
  <2>1. \A i \in 1..Len(m_Queue') : m_Queue'[i] = queued'[Taken' + i]
    <3> SUFFICES ASSUME NEW i \in 1..Len(m_Queue') PROVE m_Queue'[i] = queued'[Taken' + i]
      OBVIOUS
    <3>1. i + 1 \in 1..Len(m_Queue) /\ i \in 1..(Len(m_Queue) - 1)
      BY <1>2
    <3>2. m_Queue'[i] = queued[Taken + (i + 1)]
      BY <1>2, <3>1 DEF SuffixInv
    <3>3. Taken + (i + 1) = Taken' + i
      BY <1>3
    <3> QED
      BY <1>1, <3>2, <3>3
  <2>2. Len(m_Queue') <= Len(queued')
    BY <1>1, <1>2
  <2>3. \A i, j \in 1..Len(queued') : queued'[i] = queued'[j] => i = j
    BY <1>1 DEF SuffixInv
  <2> QED
    BY <2>1, <2>2, <2>3 DEF SuffixInv
<1>6. TakenInv'
  <2>1. \A v \in Worker : v # w => workerAt'[v] = workerAt[v] /\ task'[v] = task[v]
    BY <1>1
  <2>2. workerAt'[w] = "run" /\ task'[w] = queued[Taken + 1]
    BY <1>1, <1>4
  <2>3. \A i \in 1..Taken' :
          queued'[i] \in done' \/ \E v \in Worker : workerAt'[v] = "run" /\ task'[v] = queued'[i]
    <3> SUFFICES ASSUME NEW i \in 1..Taken', queued'[i] \notin done'
                 PROVE  \E v \in Worker : workerAt'[v] = "run" /\ task'[v] = queued'[i]
      OBVIOUS
    <3>1. CASE i = Taken + 1
      BY <1>1, <2>2, <3>1
    <3>2. CASE i \in 1..Taken
      <4>1. PICK v \in Worker : workerAt[v] = "run" /\ task[v] = queued[i]
        BY <1>1, <3>2 DEF TakenInv
      <4>2. v # w
        BY <1>1, <4>1
      <4> QED
        BY <1>1, <2>1, <4>1, <4>2
    <3> QED
      BY <1>3, <3>1, <3>2
  <2>4. \A v \in Worker : workerAt'[v] = "run" => \E i \in 1..Taken' : task'[v] = queued'[i]
    <3> SUFFICES ASSUME NEW v \in Worker, workerAt'[v] = "run"
                 PROVE  \E i \in 1..Taken' : task'[v] = queued'[i]
      OBVIOUS
    <3>1. CASE v = w
      <4>1. Taken + 1 \in 1..Taken'
        BY <1>3
      <4> QED
        BY <1>1, <2>2, <3>1, <4>1
    <3>2. CASE v # w
      <4>1. PICK i \in 1..Taken : task[v] = queued[i]
        BY <2>1, <3>2 DEF TakenInv
      <4>2. i \in 1..Taken'
        BY <1>3
      <4> QED
        BY <1>1, <2>1, <3>2, <4>1, <4>2
    <3> QED
      BY <3>1, <3>2
  <2>5. \A i \in (Taken' + 1)..Len(queued') : queued'[i] \notin done'
    BY <1>1, <1>3 DEF TakenInv
  <2> QED
    BY <2>3, <2>4, <2>5 DEF TakenInv
<1>7. StoppedInv'
  BY <1>1 DEF StoppedInv
<1> QED
  BY <1>5, <1>6, <1>7

\* TaskReturns finishes a task that was taken.
LEMMA ReturnKeeps ==
    ASSUME PoolInv, NEW w \in Worker, TaskReturns(w)
    PROVE  SuffixInv' /\ TakenInv' /\ StoppedInv'
<1> USE DEF PoolInv, TypeOK
<1>1. /\ workerAt[w] = "run" /\ done' = done \union {task[w]}
      /\ task' = [task EXCEPT ![w] = NoTask] /\ workerAt' = [workerAt EXCEPT ![w] = "loop"]
      /\ UNCHANGED <<m_Queue, ownerAt, queued>>
  BY DEF TaskReturns
<1>2. Taken' = Taken /\ Taken \in Nat /\ Taken <= Len(queued) /\ Len(queued) \in Nat
  BY <1>1 DEF Taken, SuffixInv
<1>3. SuffixInv'
  BY <1>1 DEF SuffixInv, Taken
<1>4. \A v \in Worker : v # w => workerAt'[v] = workerAt[v] /\ task'[v] = task[v]
  BY <1>1
<1>5. TakenInv'
  <2>1. \A i \in 1..Taken' :
          queued'[i] \in done' \/ \E v \in Worker : workerAt'[v] = "run" /\ task'[v] = queued'[i]
    <3> SUFFICES ASSUME NEW i \in 1..Taken, queued[i] \notin done'
                 PROVE  \E v \in Worker : workerAt'[v] = "run" /\ task'[v] = queued[i]
      BY <1>1, <1>2
    <3>1. PICK v \in Worker : workerAt[v] = "run" /\ task[v] = queued[i]
      BY <1>1 DEF TakenInv
    <3>2. v # w
      BY <1>1, <3>1
    <3> QED
      BY <1>4, <3>1, <3>2
  <2>2. \A v \in Worker : workerAt'[v] = "run" => \E i \in 1..Taken' : task'[v] = queued'[i]
    BY <1>1, <1>2, <1>4 DEF TakenInv
  <2>3. \A i \in (Taken' + 1)..Len(queued') : queued'[i] \notin done'
    <3>1. PICK k \in 1..Taken : task[w] = queued[k]
      BY <1>1 DEF TakenInv
    <3> SUFFICES ASSUME NEW i \in (Taken + 1)..Len(queued) PROVE queued[i] \notin done'
      BY <1>1, <1>2
    <3>2. i \in 1..Len(queued) /\ k \in 1..Len(queued) /\ i # k
      BY <1>2
    <3>3. queued[i] # task[w]
      BY <3>1, <3>2 DEF SuffixInv
    <3> QED
      BY <1>1, <3>3 DEF TakenInv
  <2> QED
    BY <2>1, <2>2, <2>3 DEF TakenInv
<1>6. StoppedInv'
  BY <1>1 DEF StoppedInv
<1> QED
  BY <1>3, <1>5, <1>6

\* The queue is the end of what was queued; what was taken is running or done.
LEMMA PoolInvariant == Spec => []PoolInv
<1>1. Init => SuffixInv /\ TakenInv /\ StoppedInv
  BY DEF Init, SuffixInv, TakenInv, StoppedInv, Taken
<1>2. TypeOK /\ SuffixInv /\ TakenInv /\ StoppedInv /\ [Next]_vars
        => SuffixInv' /\ TakenInv' /\ StoppedInv'
  <2> SUFFICES ASSUME PoolInv, [Next]_vars PROVE SuffixInv' /\ TakenInv' /\ StoppedInv'
    BY DEF PoolInv
  <2> USE DEF PoolInv, TypeOK
  <2>1. CASE UNCHANGED vars \/ Start \/ Stop \/ StopJoin
    <3>1. UNCHANGED <<m_Queue, queued, done, task, workerAt>>
      BY <2>1 DEF vars, Start, Stop, StopJoin
    <3>2. StoppedInv'
      BY <2>1, <3>1 DEF StoppedInv, vars, Start, Stop, StopJoin, At
    <3> QED
      BY <3>1, <3>2, QueueKept
  <2>2. CASE StopNotify
    <3>1. /\ UNCHANGED <<m_Queue, queued, done, task>> /\ ownerAt' # "stopped"
          /\ \A w \in Worker : workerAt'[w] = "run" <=> workerAt[w] = "run"
      BY <2>2 DEF StopNotify, NotifyAll
    <3> QED
      BY <3>1, QueueKept DEF StoppedInv
  <2>3. ASSUME NEW w \in Worker,
               \/ StartThread(w) \/ TestRunning(w) \/ SpuriousWakeUp(w)
               \/ TakeNothing(w) \/ Wait(w)
        PROVE  SuffixInv' /\ TakenInv' /\ StoppedInv'
    <3>1. /\ UNCHANGED <<m_Queue, queued, done, task>>
          /\ \A v \in Worker : workerAt'[v] = "run" <=> workerAt[v] = "run"
      BY <2>3 DEF StartThread, TestRunning, SpuriousWakeUp, TakeNothing, Wait
    <3>2. StoppedInv'
      BY <2>3 DEF StoppedInv, StartThread, TestRunning, SpuriousWakeUp, TakeNothing, Wait
    <3> QED
      BY <3>1, <3>2, QueueKept
  <2>4. ASSUME NEW t \in Task, RunDirectly(t) PROVE SuffixInv' /\ TakenInv' /\ StoppedInv'
    <3>1. /\ done' = done \union {t}
          /\ UNCHANGED <<m_Queue, queued, task, workerAt, ownerAt>>
      BY <2>4 DEF RunDirectly
    <3>2. \A i \in 1..Len(queued) : queued[i] # t
      BY <2>4 DEF RunDirectly, Fresh, Members
    <3>3. Taken' = Taken /\ Taken \in Nat
      BY <3>1 DEF Taken, SuffixInv
    <3>4. SuffixInv' /\ StoppedInv'
      BY <3>1 DEF SuffixInv, StoppedInv, Taken
    <3>5. \A i \in (Taken + 1)..Len(queued) : queued[i] \notin done'
      <4> SUFFICES ASSUME NEW i \in (Taken + 1)..Len(queued) PROVE queued[i] \notin done'
        OBVIOUS
      <4>1. i \in 1..Len(queued)
        BY <3>3
      <4> QED
        BY <3>1, <3>2, <4>1 DEF TakenInv
    <3>6. TakenInv'
      BY <3>1, <3>3, <3>5 DEF TakenInv
    <3> QED
      BY <3>4, <3>6
  <2> QED
    BY <2>1, <2>2, <2>3, <2>4, RunKeeps, TakeKeeps, ReturnKeeps DEF Next, OwnerStep, WorkerStep
<1> QED
  BY <1>1, <1>2, PoolTypeCorrect, PTL DEF Spec, PoolInv

\* The tasks queued before a finished one are taken, and done when Stop has returned, for any
\* number of workers: what DBConnectionPool::Stop relies on.
THEOREM EarlierTasksAreRun == Spec => []EarlierTasksRun
<1>3. PoolInv => EarlierTasksRun
  <2> SUFFICES ASSUME TypeOK, SuffixInv, TakenInv, StoppedInv,
                      NEW i \in 1..Len(queued), NEW j \in 1..Len(queued), i < j,
                      queued[j] \in done
               PROVE  /\ queued[i] \notin Members(m_Queue)
                      /\ ownerAt = "stopped" => queued[i] \in done
    BY DEF EarlierTasksRun, PoolInv
  <2> USE DEF TypeOK
  <2>1. Taken \in Nat /\ Len(queued) \in Nat /\ Len(m_Queue) \in Nat
    BY DEF Taken, SuffixInv
  <2>2. j <= Taken
    BY <2>1 DEF TakenInv
  <2>3. i \in 1..Taken
    BY <2>1, <2>2
  <2>4. ASSUME NEW k \in 1..Len(m_Queue) PROVE m_Queue[k] # queued[i]
    <3>1. Taken + k \in 1..Len(queued) /\ i # Taken + k
      BY <2>1, <2>3 DEF Taken, SuffixInv
    <3> QED
      BY <3>1 DEF SuffixInv
  <2>5. ownerAt = "stopped" => queued[i] \in done
    BY <2>3 DEF TakenInv, StoppedInv
  <2> QED
    BY <2>4, <2>5 DEF Members
<1> QED
  BY <1>3, PoolInvariant, PTL

\* A task runs on one worker, once.
LEMMA RunningInvariant == Spec => []RunningInv
<1>1. Init => RunningInv
  BY DEF Init, RunningInv
<1>2. PoolInv /\ RunningInv /\ [Next]_vars => RunningInv'
  <2> SUFFICES ASSUME PoolInv, RunningInv, [Next]_vars PROVE RunningInv'
    OBVIOUS
  <2> USE DEF PoolInv, TypeOK
  <2>1. ASSUME UNCHANGED <<task, done>>,
               \A w \in Worker : workerAt'[w] = "run" => workerAt[w] = "run"
        PROVE  RunningInv'
    BY <2>1 DEF RunningInv
  <2>2. CASE UNCHANGED vars \/ Start \/ Stop \/ StopJoin \/ StopNotify
    BY <2>1, <2>2 DEF vars, Start, Stop, StopJoin, StopNotify, NotifyAll
  <2>3. ASSUME NEW w \in Worker,
               \/ StartThread(w) \/ TestRunning(w) \/ SpuriousWakeUp(w)
               \/ TakeNothing(w) \/ Wait(w)
        PROVE  RunningInv'
    BY <2>1, <2>3 DEF StartThread, TestRunning, SpuriousWakeUp, TakeNothing, Wait
  <2>4. ASSUME NEW t \in Task, Run(t) PROVE RunningInv'
    <3>1. \A w \in Worker : workerAt'[w] = "run" => workerAt[w] = "run"
      BY <2>4 DEF Run, Notify, At, WorkerPlace
    <3> QED
      BY <2>1, <2>4, <3>1 DEF Run
  <2>5. ASSUME NEW t \in Task, RunDirectly(t) PROVE RunningInv'
    BY <2>5 DEF RunDirectly, RunningInv, At
  <2>6. ASSUME NEW w \in Worker, TakeTask(w) PROVE RunningInv'
    <3>1. /\ m_Queue # <<>> /\ task' = [task EXCEPT ![w] = Head(m_Queue)]
          /\ workerAt' = [workerAt EXCEPT ![w] = "run"] /\ UNCHANGED <<queued, done>>
      BY <2>6 DEF TakeTask
    <3>2. /\ Len(m_Queue) \in Nat \ {0} /\ Len(queued) \in Nat /\ Len(m_Queue) <= Len(queued)
          /\ Head(m_Queue) = m_Queue[1] /\ 1 \in 1..Len(m_Queue)
      BY <3>1 DEF SuffixInv
    <3>3. Taken \in Nat /\ Taken + 1 \in (Taken + 1)..Len(queued) /\ Taken + 1 \in 1..Len(queued)
          /\ \A i \in 1..Taken : i \in 1..Len(queued) /\ i # Taken + 1
      BY <3>2 DEF Taken
    <3>4. Head(m_Queue) = queued[Taken + 1]
      BY <3>2 DEF SuffixInv
    <3>5. Head(m_Queue) \notin done
      BY <3>3, <3>4 DEF TakenInv
    <3>6. \A v \in Worker : workerAt[v] = "run" => task[v] # Head(m_Queue)
      BY <3>3, <3>4 DEF TakenInv, SuffixInv
    <3> QED
      BY <3>1, <3>5, <3>6 DEF RunningInv
  <2>7. ASSUME NEW w \in Worker, TaskReturns(w) PROVE RunningInv'
    BY <2>7 DEF TaskReturns, RunningInv
  <2> QED
    BY <2>2, <2>3, <2>4, <2>5, <2>6, <2>7 DEF Next, OwnerStep, WorkerStep
<1> QED
  BY <1>1, <1>2, PoolInvariant, PTL DEF Spec

-----------------------------------------------------------------------------

\* DBConnectionPool uses its ThreadPool only through its operations.
LEMMA DBStepsArePoolSteps == [DBNext]_allVars => [Next]_vars
<1> SUFFICES ASSUME [DBNext]_allVars PROVE [Next]_vars
  OBVIOUS
<1>1. ASSUME NEW w \in Worker, WorkerStep(w) \/ SpuriousWakeUp(w) PROVE Next
  BY <1>1 DEF Next
<1>2. ASSUME NEW t \in Task, Run(t) \/ RunDirectly(t) PROVE Next
  BY <1>2 DEF Next
<1>3. ASSUME NEW x, RunJob(x) PROVE [Next]_vars
  <2>1. PopSql(x) \/ TakeConnection(x) \/ Query(x) => UNCHANGED vars
    BY DEF PopSql, TakeConnection, Query
  <2>2. GiveBack(x) => UNCHANGED vars \/ (x \in Worker /\ TaskReturns(x))
    BY DEF GiveBack
  <2> QED
    BY <1>1, <1>3, <2>1, <2>2 DEF RunJob, WorkerStep
<1>4. CASE UNCHANGED allVars
  BY <1>4 DEF allVars
<1>5. CASE InitConnections \/ DBStop \/ LatchSpuriousWakeUp
  BY <1>5 DEF InitConnections, DBStop, LatchSpuriousWakeUp
<1>6. CASE DBOwnerStep
  <2>1. InitThreads => Next
    BY DEF InitThreads, Next, OwnerStep
  <2>2. DBStopPool => Next
    BY DEF DBStopPool, Next, OwnerStep
  <2>3. DBStopRunLatch => Next
    BY <1>2, LatchAssumption DEF DBStopRunLatch
  <2>4. LatchWait => UNCHANGED vars
    BY DEF LatchWait
  <2> QED
    BY <1>6, <2>1, <2>2, <2>3, <2>4 DEF DBOwnerStep
<1>7. ASSUME NEW r \in Request, ExecuteSql(r) \/ CallerStep(r) PROVE [Next]_vars
  <2>1. ExecuteSql(r) => UNCHANGED vars
    BY DEF ExecuteSql
  <2>2. ExecuteSqlRun(r) => Next
    BY <1>2 DEF ExecuteSqlRun, Request
  <2> QED
    BY <1>3, <1>7, <2>1, <2>2 DEF CallerStep
<1>8. ASSUME NEW w \in Worker, ThreadStep(w) \/ SpuriousWakeUp(w) PROVE [Next]_vars
  <2>1. TakeStep(w) \/ CountDown(w) => WorkerStep(w)
    BY DEF TakeStep, CountDown, WorkerStep
  <2> QED
    BY <1>1, <1>3, <1>8, <2>1 DEF ThreadStep
<1> QED
  BY <1>4, <1>5, <1>6, <1>7, <1>8 DEF DBNext

\* In the pool of connections, whatever the callers of ExecuteSql, runInThread and Stop do, no
\* worker sleeps on work, and the statements' tasks queued before Stop's latch are done when
\* Stop has returned.
THEOREM DBPoolIsThreadPool == DBSpec => []NobodySleepsOnWork /\ []EarlierTasksRun
<1>1. DBInit => Init
  BY DEF DBInit
<1>2. DBSpec => Spec
  BY <1>1, DBStepsArePoolSteps, PTL DEF DBSpec, Spec
<1> QED
  BY <1>2, WorkersNeverSleepOnWork, EarlierTasksAreRun, PTL

-----------------------------------------------------------------------------
(* The pool of connections: statements, connections and the latch            *)

\* What a queue's members become.
LEMMA MembersMove ==
    ASSUME NEW S, NEW q \in Seq(S)
    PROVE  /\ \A e \in S : Members(Append(q, e)) = Members(q) \union {e}
           /\ q # <<>> => Members(q) = Members(Tail(q)) \union {Head(q)} /\ Head(q) = q[1]
           /\ Members(q) \subseteq S
<1>0. Len(q) \in Nat
  OBVIOUS
<1>1. ASSUME NEW e \in S PROVE Members(Append(q, e)) = Members(q) \union {e}
  <2>1. /\ Len(Append(q, e)) = Len(q) + 1 /\ Append(q, e)[Len(q) + 1] = e
        /\ \A i \in 1..Len(q) : Append(q, e)[i] = q[i]
    OBVIOUS
  <2>2. 1..(Len(q) + 1) = (1..Len(q)) \union {Len(q) + 1}
    BY <1>0
  <2> QED
    BY <2>1, <2>2 DEF Members
<1>2. ASSUME q # <<>> PROVE Members(q) = Members(Tail(q)) \union {Head(q)} /\ Head(q) = q[1]
  <2>1. /\ Len(Tail(q)) = Len(q) - 1 /\ Head(q) = q[1] /\ Len(q) > 0
        /\ \A i \in 1..(Len(q) - 1) : Tail(q)[i] = q[i + 1]
    BY <1>2
  <2>2. ASSUME NEW x \in Members(q) PROVE x \in Members(Tail(q)) \union {Head(q)}
    <3>1. PICK i \in 1..Len(q) : x = q[i]
      BY DEF Members
    <3>2. i = 1 \/ (i - 1 \in 1..(Len(q) - 1) /\ (i - 1) + 1 = i)
      BY <1>0
    <3> QED
      BY <2>1, <3>1, <3>2 DEF Members
  <2>3. ASSUME NEW x \in Members(Tail(q)) PROVE x \in Members(q)
    <3>1. PICK i \in 1..(Len(q) - 1) : x = Tail(q)[i]
      BY <2>1 DEF Members
    <3>2. i + 1 \in 1..Len(q) /\ x = q[i + 1]
      BY <1>0, <2>1, <3>1
    <3> QED
      BY <3>2 DEF Members
  <2>4. Head(q) \in Members(q)
    <3>1. 1 \in 1..Len(q)
      BY <1>0, <2>1
    <3> QED
      BY <2>1, <3>1 DEF Members
  <2> QED
    BY <2>1, <2>2, <2>3, <2>4
<1>3. Members(q) \subseteq S
  BY DEF Members
<1> QED
  BY <1>1, <1>2, <1>3

\* The members of a queue are finitely many, and no more than its length.
LEMMA MembersFinite ==
    ASSUME NEW S, NEW q \in Seq(S)
    PROVE  /\ IsFiniteSet(Members(q)) /\ Cardinality(Members(q)) <= Len(q)
           /\ Cardinality(Members(q)) \in Nat
<1>0. Len(q) \in Nat
  OBVIOUS
<1>1. IsFiniteSet(1..Len(q)) /\ Cardinality(1..Len(q)) = Len(q)
  BY <1>0, FS_Interval
<1>2. PICK f : f = [i \in 1..Len(q) |-> q[i]]
  OBVIOUS
<1>3. f \in Surjection(1..Len(q), Members(q))
  BY <1>2 DEF Surjection, Members
<1>4. IsFiniteSet(Members(q)) /\ Cardinality(Members(q)) <= Len(q)
  BY <1>1, <1>3, FS_Surjection
<1> QED
  BY <1>4, FS_CardinalityType

\* The first n of a queue are n, if none is repeated.
LEMMA FirstMembers ==
    ASSUME NEW q, NEW n \in Nat, NEW T, T = {q[i] : i \in 1..n},
           \A i, j \in 1..n : q[i] = q[j] => i = j
    PROVE  IsFiniteSet(T) /\ Cardinality(T) = n
<1>1. PICK g : g = [i \in 1..n |-> q[i]]
  OBVIOUS
<1>2. g \in Surjection(1..n, T) /\ g \in Injection(1..n, T)
  <2>1. g \in [1..n -> T] /\ \A i \in 1..n : g[i] = q[i]
    BY <1>1
  <2>2. \A t \in T : \E i \in 1..n : g[i] = t
    BY <2>1
  <2>3. \A i, j \in 1..n : g[i] = g[j] => i = j
    BY <2>1
  <2> QED
    BY <2>1, <2>2, <2>3 DEF Surjection, Injection, IsInjective
<1>3. IsFiniteSet(1..n) /\ Cardinality(1..n) = n
  BY FS_Interval
<1> QED
  BY <1>2, <1>3, FS_Surjection

\* Workers and calls are different things.
LEMMA InJobOf ==
    /\ \A w \in Worker : w \notin Request /\ (InJob(w) <=> workerAt[w] = "run" /\ task[w] # Latch)
    /\ \A r \in Request : r \notin Worker /\ (InJob(r) <=> callerAt[r] = "inline")
  BY LatchAssumption DEF InJob, Request

DBInv == PoolInv /\ RunningInv /\ DBTypeOK /\ CallInv /\ ConnInv /\ SqlInv /\ LatchInv

\* A step of the pool's threads or owner that finishes, queues and runs no statement's task.
LEMMA DBQuiet ==
    ASSUME DBInv, UNCHANGED <<dbVars, queued, done>>,
           \A w \in Worker : workerAt[w] = "run" => workerAt'[w] = "run" /\ task'[w] = task[w],
           \A w \in Worker : workerAt'[w] = "run" => workerAt[w] = "run" \/ job[w].at = "task",
           \A w \in Worker : workerAt'[w] # "none" => ownerAt' # "constructed",
           Initialised' = Initialised,
           ownerAt' \in {"stopping", "joining", "stopped"} => stopAt = "pool"
    PROVE  (DBTypeOK /\ CallInv /\ ConnInv /\ SqlInv /\ LatchInv)'
<1> USE DEF dbVars, jobVars, stopVars, callVars
<1>1. DBTypeOK'
  BY DEF DBInv, DBTypeOK
<1>2. CallInv'
  <2>1. \A x \in Runner : job'[x].at # "task" => InJob(x)'
    BY DEF DBInv, CallInv, InJob
  <2> QED
    BY <2>1 DEF DBInv, CallInv
<1>3. ConnInv'
  <2>1. Holders' = Holders
    BY DEF Holders
  <2> QED
    BY <2>1 DEF DBInv, ConnInv
<1>4. SqlInv'
  <2>1. Popped' = Popped
    <3>1. ASSUME NEW w \in Worker, job[w].at # "task"
          PROVE  workerAt'[w] = workerAt[w] /\ task'[w] = task[w]
      BY <3>1, InJobOf DEF DBInv, CallInv, Runner
    <3> QED
      BY <3>1 DEF Popped
  <2>2. RanDirectly' = RanDirectly /\ SqlTaken' = SqlTaken
    BY DEF RanDirectly, SqlTaken
  <2> QED
    BY <2>1, <2>2 DEF DBInv, SqlInv
<1>5. LatchInv'
  BY DEF DBInv, LatchInv
<1> QED
  BY <1>1, <1>2, <1>3, <1>4, <1>5

\* Run pushes a task that is new, and changes no worker that runs or was not created.
LEMMA RunFrame ==
    ASSUME PoolInv, NEW t \in Task, Run(t)
    PROVE  /\ Members(queued') = Members(queued) \union {t} /\ t \notin Members(queued) \union done
           /\ Len(queued) \in Nat /\ Len(queued') = Len(queued) + 1
           /\ \A i \in 1..Len(queued) : queued'[i] = queued[i]
           /\ queued'[Len(queued) + 1] = t
           /\ UNCHANGED <<task, ownerAt, done>>
           /\ \A w \in Worker : /\ workerAt'[w] = "run" <=> workerAt[w] = "run"
                                /\ workerAt'[w] = "none" <=> workerAt[w] = "none"
<1> USE DEF PoolInv, TypeOK
<1>1. queued' = Append(queued, t) /\ UNCHANGED <<task, ownerAt, done>> /\ Fresh(t)
  BY DEF Run
<1>2. Members(queued') = Members(queued) \union {t}
  BY <1>1, MembersMove
<1>3. \A w \in Worker : /\ workerAt'[w] = "run" <=> workerAt[w] = "run"
                        /\ workerAt'[w] = "none" <=> workerAt[w] = "none"
  BY DEF Run, Notify, At, WorkerPlace
<1> QED
  BY <1>1, <1>2, <1>3 DEF Fresh

\* The invariants of the statements and connections after Run, which touches none of them.
LEMMA RunKeepsJobs ==
    ASSUME DBInv, NEW t \in Task, Run(t), UNCHANGED <<jobVars, pushed, dbRunning, failed>>
    PROVE  ConnInv' /\ SqlInv'
<1> USE DEF jobVars, DBInv
<1>1. /\ Members(queued') = Members(queued) \union {t} /\ t \notin Members(queued) \union done
      /\ UNCHANGED <<task, ownerAt, done>>
      /\ \A w \in Worker : /\ workerAt'[w] = "run" <=> workerAt[w] = "run"
                           /\ workerAt'[w] = "none" <=> workerAt[w] = "none"
  BY RunFrame
<1>2. ConnInv'
  <2>1. Holders' = Holders /\ Initialised' = Initialised
    BY <1>1 DEF Holders, Initialised
  <2> QED
    BY <1>1, <2>1 DEF ConnInv
<1>3. SqlInv'
  <2>1. Popped' = Popped /\ SqlTaken' = SqlTaken
    BY <1>1 DEF Popped, SqlTaken
  <2>2. RanDirectly' = RanDirectly
    BY <1>1 DEF RanDirectly
  <2> QED
    BY <2>1, <2>2 DEF SqlInv
<1> QED
  BY <1>2, <1>3

\* Stop's latch goes behind the tasks of the calls that had returned.
LEMMA LatchRun ==
    ASSUME DBInv, DBStopRunLatch
    PROVE  (DBTypeOK /\ CallInv /\ ConnInv /\ SqlInv /\ LatchInv)'
<1> USE DEF DBInv, jobVars, callVars
<1>1. /\ stopAt = "run" /\ Run(Latch) /\ stopAt' = "wait"
      /\ UNCHANGED <<jobVars, dbRunning, m_nCnt, before, callVars, failed>>
  BY DEF DBStopRunLatch
<1>2. /\ Members(queued') = Members(queued) \union {Latch} /\ Latch \notin Members(queued) \union done
      /\ Len(queued) \in Nat /\ Len(queued') = Len(queued) + 1
      /\ \A i \in 1..Len(queued) : queued'[i] = queued[i]
      /\ queued'[Len(queued) + 1] = Latch
      /\ UNCHANGED <<task, ownerAt, done>>
      /\ \A w \in Worker : /\ workerAt'[w] = "run" <=> workerAt[w] = "run"
                           /\ workerAt'[w] = "none" <=> workerAt[w] = "none"
  BY <1>1, LatchAssumption, RunFrame
<1>3. DBTypeOK'
  BY <1>1 DEF DBTypeOK
<1>4. CallInv'
  <2>1. \A x \in Runner : job'[x].at # "task" => InJob(x)'
    BY <1>1, <1>2 DEF CallInv, InJob
  <2>2. Latch \notin Request
    BY DEF Request
  <2> QED
    BY <1>1, <1>2, <2>1, <2>2 DEF CallInv
<1>5. LatchInv'
  <2>1. ASSUME NEW r \in before, NEW i \in 1..Len(queued'), NEW j \in 1..Len(queued'),
               queued'[i] = r, queued'[j] = Latch
        PROVE  i < j
    <3>1. r # Latch
      BY DEF DBTypeOK, Request
    <3>2. i \in 1..Len(queued)
      BY <1>2, <2>1, <3>1
    <3>3. \A k \in 1..Len(queued) : queued[k] # Latch
      BY <1>2 DEF Members
    <3>4. j = Len(queued) + 1
      BY <1>2, <2>1, <3>3
    <3> QED
      BY <1>2, <3>2, <3>4
  <2> QED
    BY <1>1, <1>2, <2>1 DEF LatchInv
<1> QED
  BY <1>1, <1>3, <1>4, <1>5, LatchAssumption, RunKeepsJobs

\* A call pushes its statement.
LEMMA StatementPushed ==
    ASSUME DBInv, NEW r \in Request, ExecuteSql(r)
    PROVE  (DBTypeOK /\ CallInv /\ ConnInv /\ SqlInv /\ LatchInv)'
<1> USE DEF DBInv, stopVars
<1>1. /\ callerAt[r] = "out" /\ m_SqlQueue' = Append(m_SqlQueue, r) /\ pushed' = Append(pushed, r)
      /\ callerAt' = [callerAt EXCEPT ![r] = "run"]
      /\ UNCHANGED <<vars, m_vDBConn, job, executed, stopVars, failed>>
  BY DEF ExecuteSql
<1>2. UNCHANGED <<m_Queue, workerAt, task, ownerAt, queued, done>>
  BY <1>1 DEF vars
<1>3. /\ pushed \in Seq(Request) /\ m_SqlQueue \in Seq(Request)
      /\ callerAt \in [Request -> {"out", "run", "inline", "returned"}]
  BY DEF DBTypeOK
<1>4. /\ Members(pushed') = Members(pushed) \union {r} /\ r \notin Members(pushed)
      /\ pushed' \in Seq(Request) /\ m_SqlQueue' \in Seq(Request)
      /\ Len(pushed) \in Nat /\ Len(pushed') = Len(pushed) + 1
      /\ Len(m_SqlQueue) \in Nat /\ Len(m_SqlQueue') = Len(m_SqlQueue) + 1
  BY <1>1, <1>3, MembersMove DEF CallInv
<1>5. /\ \A i \in 1..Len(pushed) : pushed'[i] = pushed[i]
      /\ pushed'[Len(pushed) + 1] = r
      /\ \A i \in 1..Len(m_SqlQueue) : m_SqlQueue'[i] = m_SqlQueue[i]
      /\ m_SqlQueue'[Len(m_SqlQueue) + 1] = r
  BY <1>1, <1>3
<1>6. DBTypeOK'
  BY <1>1, <1>4 DEF DBTypeOK
<1>7. CallInv'
  <2>1. \A s \in Request : callerAt'[s] = "out" <=> s \notin Members(pushed')
    BY <1>1, <1>3, <1>4 DEF CallInv
  <2>2. \A i, j \in 1..Len(pushed') : pushed'[i] = pushed'[j] => i = j
    <3>1. \A i \in 1..Len(pushed') : i \in 1..Len(pushed) \/ i = Len(pushed) + 1
      BY <1>4
    <3>2. \A i \in 1..Len(pushed) : pushed[i] # r
      BY <1>4 DEF Members
    <3> QED
      BY <1>5, <3>1, <3>2 DEF CallInv
  <2>3. \A s \in Request : s # r => callerAt'[s] = callerAt[s]
    BY <1>1, <1>3
  <2>4. callerAt'[r] = "run"
    BY <1>1, <1>3
  <2>5. \A t \in Members(queued') : t = Latch \/ callerAt'[t] = "returned"
    <3>1. Members(queued) \subseteq Task
      BY MembersMove DEF PoolInv, TypeOK
    <3>2. \A t \in Members(queued) : t # r
      BY <1>1 DEF CallInv, Request
    <3> QED
      BY <1>2, <2>3, <3>1, <3>2 DEF CallInv, Request
  <2>6. \A s \in Request : callerAt'[s] = "returned" => s \in Members(queued') \union done'
    BY <1>2, <2>3, <2>4 DEF CallInv
  <2>7. \A s \in Request : callerAt'[s] = "inline" => s \in done' /\ s \notin Members(queued')
    BY <1>2, <2>3, <2>4 DEF CallInv
  <2>8. \A x \in Runner : job'[x].at # "task" => InJob(x)'
    <3> SUFFICES ASSUME NEW x \in Runner, job[x].at # "task" PROVE InJob(x)'
      BY <1>1
    <3>1. InJob(x)
      BY DEF CallInv
    <3> QED
      BY <1>1, <1>2, <2>3, <3>1 DEF InJob
  <2> QED
    BY <2>1, <2>2, <2>5, <2>6, <2>7, <2>8 DEF CallInv
<1>8. ConnInv'
  <2>1. Holders' = Holders /\ Initialised' = Initialised
    BY <1>1, <1>2 DEF Holders, Initialised
  <2> QED
    BY <1>1, <1>2, <2>1 DEF ConnInv
<1>9. SqlInv'
  <2>1. Popped' = Popped /\ RanDirectly' = RanDirectly
    BY <1>1, <1>2 DEF Popped, RanDirectly
  <2>2. SqlTaken' = SqlTaken /\ SqlTaken \in Nat /\ Len(m_SqlQueue) <= Len(pushed)
    BY <1>4 DEF SqlTaken, SqlInv
  <2>3. \A i \in 1..Len(m_SqlQueue') : m_SqlQueue'[i] = pushed'[SqlTaken' + i]
    <3> SUFFICES ASSUME NEW i \in 1..Len(m_SqlQueue')
                 PROVE  m_SqlQueue'[i] = pushed'[SqlTaken' + i]
      OBVIOUS
    <3>1. CASE i \in 1..Len(m_SqlQueue)
      <4>1. SqlTaken + i \in 1..Len(pushed)
        BY <1>4, <2>2, <3>1 DEF SqlTaken
      <4> QED
        BY <1>5, <2>2, <3>1, <4>1 DEF SqlInv
    <3>2. CASE i = Len(m_SqlQueue) + 1
      BY <1>4, <1>5, <2>2, <3>2 DEF SqlTaken
    <3> QED
      BY <1>4, <3>1, <3>2
  <2>4. \A i \in 1..SqlTaken : i \in 1..Len(pushed)
    BY <1>4, <2>2 DEF SqlTaken
  <2>5. \A i \in 1..SqlTaken' :
         \/ pushed'[i] \in executed'
         \/ \E x \in Runner : job'[x].at \in {"connection", "query"} /\ job'[x].sql = pushed'[i]
    BY <1>1, <1>5, <2>2, <2>4 DEF SqlInv
  <2> QED
    BY <1>4, <2>1, <2>2, <2>3, <2>5 DEF SqlInv
<1>10. LatchInv'
  <2>1. r \notin before
    BY <1>1 DEF LatchInv
  <2>2. \A s \in before : callerAt'[s] = "returned"
    BY <1>1, <1>3, <2>1 DEF LatchInv, DBTypeOK
  <2> QED
    BY <1>1, <1>2, <2>2 DEF LatchInv
<1> QED
  BY <1>6, <1>7, <1>8, <1>9, <1>10

\* A call pushes its task, and returns.
LEMMA TaskPushed ==
    ASSUME DBInv, NEW r \in Request, ExecuteSqlRun(r), Run(r),
           callerAt' = [callerAt EXCEPT ![r] = "returned"]
    PROVE  (DBTypeOK /\ CallInv /\ ConnInv /\ SqlInv /\ LatchInv)'
<1> USE DEF DBInv, jobVars, stopVars
<1>1. callerAt[r] = "run" /\ UNCHANGED <<jobVars, stopVars, pushed, failed>>
  BY DEF ExecuteSqlRun
<1>2. r \in Task /\ r # Latch
  BY DEF Request
<1>3. /\ Members(queued') = Members(queued) \union {r} /\ r \notin Members(queued) \union done
      /\ Len(queued) \in Nat /\ Len(queued') = Len(queued) + 1
      /\ \A i \in 1..Len(queued) : queued'[i] = queued[i]
      /\ queued'[Len(queued) + 1] = r
      /\ UNCHANGED <<task, ownerAt, done>>
      /\ \A w \in Worker : /\ workerAt'[w] = "run" <=> workerAt[w] = "run"
                           /\ workerAt'[w] = "none" <=> workerAt[w] = "none"
  BY <1>2, RunFrame
<1>4. /\ callerAt \in [Request -> {"out", "run", "inline", "returned"}]
      /\ callerAt'[r] = "returned" /\ \A s \in Request : s # r => callerAt'[s] = callerAt[s]
  BY DEF DBTypeOK
<1>5. DBTypeOK'
  BY <1>1 DEF DBTypeOK
<1>6. CallInv'
  <2>1. \A s \in Request : callerAt'[s] = "out" <=> s \notin Members(pushed')
    BY <1>1, <1>4 DEF CallInv
  <2>2. \A t \in Members(queued') : t = Latch \/ callerAt'[t] = "returned"
    <3>1. Members(queued) \subseteq Task
      BY MembersMove DEF PoolInv, TypeOK
    <3> QED
      BY <1>3, <1>4, <3>1 DEF CallInv, Request
  <2>3. \A s \in Request : callerAt'[s] = "returned" => s \in Members(queued') \union done'
    BY <1>3, <1>4 DEF CallInv
  <2>4. \A s \in Request : callerAt'[s] = "inline" => s \in done' /\ s \notin Members(queued')
    BY <1>3, <1>4 DEF CallInv
  <2>5. \A x \in Runner : job'[x].at # "task" => InJob(x)'
    <3> SUFFICES ASSUME NEW x \in Runner, job[x].at # "task" PROVE InJob(x)'
      BY <1>1
    <3>1. InJob(x)
      BY DEF CallInv
    <3> QED
      BY <1>1, <1>3, <1>4, <3>1 DEF InJob
  <2> QED
    BY <1>1, <2>1, <2>2, <2>3, <2>4, <2>5 DEF CallInv
<1>7. LatchInv'
  <2>1. \A s \in before : s \in Request /\ s # r
    BY <1>1 DEF LatchInv, DBTypeOK
  <2>2. \A s \in before : callerAt'[s] = "returned"
    BY <1>4, <2>1 DEF LatchInv
  <2>3. ASSUME NEW s \in before, NEW i \in 1..Len(queued'), NEW j \in 1..Len(queued'),
               queued'[i] = s, queued'[j] = Latch
        PROVE  i < j
    <3>1. i \in 1..Len(queued) /\ j \in 1..Len(queued)
      BY <1>2, <1>3, <2>1, <2>3
    <3> QED
      BY <1>3, <2>3, <3>1 DEF LatchInv
  <2> QED
    BY <1>1, <1>2, <1>3, <2>2, <2>3 DEF LatchInv
<1> QED
  BY <1>1, <1>2, <1>5, <1>6, <1>7, RunKeepsJobs

\* A call before Init has started the threads runs its task itself.
LEMMA TaskRunDirectly ==
    ASSUME DBInv, NEW r \in Request, ExecuteSqlRun(r), RunDirectly(r),
           callerAt' = [callerAt EXCEPT ![r] = "inline"]
    PROVE  (DBTypeOK /\ CallInv /\ ConnInv /\ SqlInv /\ LatchInv)'
<1> USE DEF DBInv, jobVars, stopVars
<1>1. callerAt[r] = "run" /\ UNCHANGED <<jobVars, stopVars, pushed, failed>>
  BY DEF ExecuteSqlRun
<1>2. r \in Task /\ r # Latch
  BY DEF Request
<1>3. /\ done' = done \union {r} /\ r \notin Members(queued) \union done
      /\ UNCHANGED <<workerAt, task, ownerAt, queued>>
  BY DEF RunDirectly, Fresh
<1>4. /\ callerAt \in [Request -> {"out", "run", "inline", "returned"}]
      /\ callerAt'[r] = "inline" /\ \A s \in Request : s # r => callerAt'[s] = callerAt[s]
  BY DEF DBTypeOK
<1>5. DBTypeOK'
  BY <1>1 DEF DBTypeOK
<1>6. CallInv'
  <2>1. \A s \in Request : callerAt'[s] = "out" <=> s \notin Members(pushed')
    BY <1>1, <1>4 DEF CallInv
  <2>2. \A t \in Members(queued') : t = Latch \/ callerAt'[t] = "returned"
    <3>1. Members(queued) \subseteq Task
      BY MembersMove DEF PoolInv, TypeOK
    <3> QED
      BY <1>3, <1>4, <3>1 DEF CallInv, Request
  <2>3. \A s \in Request : callerAt'[s] = "returned" => s \in Members(queued') \union done'
    BY <1>3, <1>4 DEF CallInv
  <2>4. \A s \in Request : callerAt'[s] = "inline" => s \in done' /\ s \notin Members(queued')
    BY <1>3, <1>4 DEF CallInv
  <2>5. \A x \in Runner : job'[x].at # "task" => InJob(x)'
    <3> SUFFICES ASSUME NEW x \in Runner, job[x].at # "task" PROVE InJob(x)'
      BY <1>1
    <3>1. InJob(x)
      BY DEF CallInv
    <3> QED
      BY <1>1, <1>3, <1>4, <3>1 DEF InJob
  <2> QED
    BY <1>1, <2>1, <2>2, <2>3, <2>4, <2>5 DEF CallInv
<1>7. ConnInv'
  <2>1. Holders' = Holders /\ Initialised' = Initialised
    BY <1>1, <1>3 DEF Holders, Initialised
  <2> QED
    BY <1>1, <1>3, <2>1 DEF ConnInv
<1>8. SqlInv'
  <2>1. RanDirectly' /\ SqlTaken' = SqlTaken
    BY <1>1, <1>3 DEF RanDirectly, SqlTaken
  <2> QED
    BY <1>1, <2>1 DEF SqlInv
<1>9. LatchInv'
  <2>1. \A s \in before : s \in Request /\ s # r
    BY <1>1 DEF LatchInv, DBTypeOK
  <2> QED
    BY <1>1, <1>2, <1>3, <1>4, <2>1 DEF LatchInv
<1> QED
  BY <1>5, <1>6, <1>7, <1>8, <1>9

\* An assertion that fails ends the process and changes nothing else.
LEMMA JobFails ==
    ASSUME DBInv, failed = "no", failed' \in {"sql", "connection", "query"},
           UNCHANGED <<vars, jobVars, stopVars, callVars>>
    PROVE  (DBTypeOK /\ CallInv /\ ConnInv /\ SqlInv /\ LatchInv)'
<1> USE DEF DBInv, vars, jobVars, stopVars, callVars
<1>1. DBTypeOK'
  BY DEF DBTypeOK
<1>2. CallInv' /\ LatchInv'
  BY DEF CallInv, InJob, LatchInv
<1>3. Holders' = Holders /\ Initialised' = Initialised
  BY DEF Holders, Initialised
<1>4. ConnInv'
  BY <1>3 DEF ConnInv
<1>5. Popped' = Popped /\ RanDirectly' = RanDirectly /\ SqlTaken' = SqlTaken
  BY DEF Popped, RanDirectly, SqlTaken
<1>6. SqlInv'
  BY <1>5 DEF SqlInv
<1> QED
  BY <1>1, <1>2, <1>4, <1>6

\* If no call ran its task itself, the tasks that popped a statement are queued tasks of calls.
LEMMA PoppedWereQueued ==
    ASSUME DBInv, ~RanDirectly
    PROVE  /\ Popped \subseteq Members(queued) /\ Popped \subseteq Members(pushed)
           /\ IsFiniteSet(Popped) /\ Cardinality(Popped) \in Nat
           /\ \A x \in Runner : InJob(x) => x \in Worker /\ task[x] \in Members(pushed)
<1> USE DEF DBInv
<1>1. ASSUME NEW w \in Worker, workerAt[w] = "run" PROVE task[w] \in Members(queued)
  <2>1. PICK i \in 1..Taken : task[w] = queued[i]
    BY <1>1 DEF PoolInv, TakenInv
  <2>2. i \in 1..Len(queued)
    BY DEF Taken, PoolInv, SuffixInv, TypeOK
  <2> QED
    BY <2>1, <2>2 DEF Members
<1>2. done \subseteq Members(queued)
  BY DEF RanDirectly
<1>3. Popped \subseteq Members(queued)
  BY <1>1, <1>2 DEF Popped
<1>4. \A t \in Members(queued) : t # Latch => t \in Members(pushed)
  <2>1. Members(queued) \subseteq Task
    BY MembersMove DEF PoolInv, TypeOK
  <2> QED
    BY <2>1 DEF CallInv, Request
<1>5. Popped \subseteq Members(pushed)
  BY <1>3, <1>4 DEF Popped, Request
<1>6. IsFiniteSet(Members(pushed))
  BY MembersFinite DEF DBTypeOK
<1>7. IsFiniteSet(Popped) /\ Cardinality(Popped) \in Nat
  BY <1>5, <1>6, FS_Subset, FS_CardinalityType
<1>8. ASSUME NEW x \in Runner, InJob(x) PROVE x \in Worker /\ task[x] \in Members(pushed)
  <2>1. x \in Worker
    BY <1>2, <1>8, InJobOf DEF Runner, CallInv
  <2> QED
    BY <1>1, <1>4, <1>8, <2>1, InJobOf
<1> QED
  BY <1>3, <1>5, <1>7, <1>8

\* A worker in runInThread with no statement yet is not among those that popped one.
LEMMA NotPopped ==
    ASSUME DBInv, NEW w \in Worker, InJob(w), job[w].at = "task"
    PROVE  task[w] \in Request /\ task[w] \notin Popped
<1> USE DEF DBInv
<1>1. workerAt[w] = "run" /\ task[w] # Latch
  BY InJobOf
<1>2. task[w] \in Request
  BY <1>1 DEF PoolInv, TypeOK, Request
<1>3. task[w] \notin done
  BY <1>1 DEF RunningInv
<1>4. \A v \in Worker : workerAt[v] = "run" /\ task[v] = task[w] => v = w
  BY <1>1 DEF RunningInv
<1> QED
  BY <1>2, <1>3, <1>4 DEF Popped

\* Every worker's task finds a statement: there are as many statements popped as tasks that
\* popped one, and this task is not one of them.
LEMMA StatementsSuffice ==
    ASSUME DBInv, ~RanDirectly, NEW x \in Runner, InJob(x), job[x].at = "task"
    PROVE  m_SqlQueue # <<>>
<1> USE DEF DBInv
<1>1. x \in Worker /\ task[x] \in Members(pushed)
  BY PoppedWereQueued
<1>2. task[x] \notin Popped
  BY <1>1, NotPopped
<1>3. Popped \subseteq Members(pushed) /\ IsFiniteSet(Popped) /\ Cardinality(Popped) \in Nat
  BY PoppedWereQueued
<1>4. /\ IsFiniteSet(Members(pushed)) /\ Cardinality(Members(pushed)) <= Len(pushed)
      /\ Cardinality(Members(pushed)) \in Nat /\ Len(pushed) \in Nat
  BY MembersFinite DEF DBTypeOK
<1>5. Cardinality(Popped) <= Cardinality(Members(pushed)) /\ Cardinality(Popped) # Cardinality(Members(pushed))
  BY <1>1, <1>2, <1>3, <1>4, FS_Subset
<1>6. Cardinality(Popped) = Len(pushed) - Len(m_SqlQueue)
  BY DEF SqlInv, SqlTaken
<1>7. Len(m_SqlQueue) # 0
  BY <1>3, <1>4, <1>5, <1>6
<1> QED
  BY <1>7

\* runInThread takes the oldest statement.
LEMMA StatementPopped ==
    ASSUME DBInv, NEW x \in Runner, PopSql(x), m_SqlQueue # <<>>
    PROVE  (DBTypeOK /\ CallInv /\ ConnInv /\ SqlInv /\ LatchInv)'
<1> USE DEF DBInv, stopVars, callVars, vars
<1>1. /\ InJob(x) /\ job[x].at = "task"
      /\ job' = [job EXCEPT ![x] = [at |-> "connection", sql |-> Head(m_SqlQueue)]]
      /\ m_SqlQueue' = Tail(m_SqlQueue)
      /\ UNCHANGED <<m_vDBConn, executed, failed>>
      /\ UNCHANGED <<vars, stopVars, callVars>>
  BY DEF PopSql
<1>2. /\ m_SqlQueue \in Seq(Request) /\ pushed \in Seq(Request) /\ job \in [Runner -> Job]
  BY DEF DBTypeOK
<1>3. /\ Head(m_SqlQueue) \in Request /\ Tail(m_SqlQueue) \in Seq(Request)
      /\ Len(m_SqlQueue) \in Nat \ {0} /\ Len(Tail(m_SqlQueue)) = Len(m_SqlQueue) - 1
      /\ Head(m_SqlQueue) = m_SqlQueue[1]
      /\ \A i \in 1..(Len(m_SqlQueue) - 1) : Tail(m_SqlQueue)[i] = m_SqlQueue[i + 1]
      /\ Len(pushed) \in Nat /\ Len(m_SqlQueue) <= Len(pushed)
  BY <1>2 DEF SqlInv
<1>4. /\ job'[x] = [at |-> "connection", sql |-> Head(m_SqlQueue)]
      /\ \A y \in Runner : y # x => job'[y] = job[y]
      /\ job' \in [Runner -> Job]
  BY <1>1, <1>2, <1>3 DEF Job
<1>5. DBTypeOK'
  BY <1>1, <1>3, <1>4 DEF DBTypeOK
<1>6. CallInv'
  <2>1. \A y \in Runner : job'[y].at # "task" => InJob(y)'
    BY <1>1, <1>4 DEF CallInv, InJob
  <2> QED
    BY <1>1, <2>1 DEF CallInv
<1>7. ConnInv'
  <2>1. Holders' = Holders /\ x \notin Holders
    BY <1>1, <1>4 DEF Holders
  <2>2. \A y \in Holders : job'[y] = job[y]
    BY <1>4, <2>1 DEF Holders
  <2>3. Initialised' = Initialised
    BY <1>1 DEF Initialised
  <2> QED
    BY <1>1, <2>1, <2>2, <2>3 DEF ConnInv
<1>8. SqlInv'
  <2>1. SqlTaken \in Nat /\ SqlTaken' = SqlTaken + 1 /\ SqlTaken + 1 <= Len(pushed)
    BY <1>1, <1>3 DEF SqlTaken
  <2>2. Head(m_SqlQueue) = pushed[SqlTaken + 1]
    BY <1>3 DEF SqlInv
  <2>3. \A i \in 1..Len(m_SqlQueue') : m_SqlQueue'[i] = pushed'[SqlTaken' + i]
    <3> SUFFICES ASSUME NEW i \in 1..Len(m_SqlQueue')
                 PROVE  m_SqlQueue'[i] = pushed'[SqlTaken' + i]
      OBVIOUS
    <3>1. i + 1 \in 1..Len(m_SqlQueue) /\ i \in 1..(Len(m_SqlQueue) - 1)
      BY <1>1, <1>3
    <3>2. m_SqlQueue'[i] = pushed[SqlTaken + (i + 1)]
      BY <1>1, <1>3, <3>1 DEF SqlInv
    <3>3. SqlTaken + (i + 1) = SqlTaken' + i
      BY <2>1
    <3> QED
      BY <1>1, <3>2, <3>3
  <2>4. ~RanDirectly' => Cardinality(Popped') = SqlTaken'
    <3> SUFFICES ASSUME ~RanDirectly PROVE Cardinality(Popped') = SqlTaken'
      BY <1>1 DEF RanDirectly
    <3>1. x \in Worker
      BY <1>1, PoppedWereQueued
    <3>2. task[x] \in Request /\ task[x] \notin Popped /\ workerAt[x] = "run"
      BY <1>1, <3>1, NotPopped, InJobOf
    <3>3. Popped' = Popped \union {task[x]}
      <4>1. \A w \in Worker : w \in Runner
        BY DEF Runner
      <4> QED
        BY <1>1, <1>4, <3>1, <3>2, <4>1 DEF Popped
    <3>4. IsFiniteSet(Popped) /\ Cardinality(Popped) = SqlTaken
      BY PoppedWereQueued DEF SqlInv
    <3> QED
      BY <2>1, <3>2, <3>3, <3>4, FS_AddElement
  <2>5. \A i \in 1..SqlTaken' :
         \/ pushed'[i] \in executed'
         \/ \E y \in Runner : job'[y].at \in {"connection", "query"} /\ job'[y].sql = pushed'[i]
    <3> SUFFICES ASSUME NEW i \in 1..SqlTaken', pushed[i] \notin executed
                 PROVE  \E y \in Runner : job'[y].at \in {"connection", "query"} /\ job'[y].sql = pushed[i]
      BY <1>1
    <3>1. CASE i = SqlTaken + 1
      BY <1>4, <2>2, <3>1
    <3>2. CASE i \in 1..SqlTaken
      <4>1. PICK y \in Runner : job[y].at \in {"connection", "query"} /\ job[y].sql = pushed[i]
        BY <3>2 DEF SqlInv
      <4>2. y # x
        BY <1>1, <4>1
      <4> QED
        BY <1>4, <4>1, <4>2
    <3> QED
      BY <2>1, <3>1, <3>2
  <2> QED
    BY <1>1, <1>3, <2>3, <2>4, <2>5 DEF SqlInv
<1>9. LatchInv'
  BY <1>1 DEF LatchInv
<1> QED
  BY <1>5, <1>6, <1>7, <1>8, <1>9

\* Every worker's statement finds a connection: fewer workers than connections hold one.
LEMMA ConnectionsLeft ==
    ASSUME DBInv, failed = "no", ~RanDirectly, NEW x \in Runner, job[x].at = "connection"
    PROVE  m_vDBConn # <<>>
<1> USE DEF DBInv
<1> SUFFICES ASSUME m_vDBConn = <<>> PROVE FALSE
  OBVIOUS
<1>1. \A y \in Runner : job[y].at # "task" => y \in Worker
  BY PoppedWereQueued DEF CallInv
<1>2. x \in Worker /\ workerAt[x] = "run"
  BY <1>1, InJobOf DEF CallInv
<1>3. Initialised
  BY <1>2 DEF ConnInv, Initialised
<1>4. Members(m_vDBConn) = {}
  BY DEF Members
<1>5. \A c \in Connection : \E y \in Holders : job[y].conn = c
  BY <1>3, <1>4 DEF ConnInv
<1>6. Holders \subseteq Worker \ {x}
  BY <1>1 DEF Holders
<1>7. PICK f : f = [c \in Connection |-> CHOOSE y \in Holders : job[y].conn = c]
  OBVIOUS
<1>8. \A c \in Connection : f[c] \in Holders /\ job[f[c]].conn = c
  BY <1>5, <1>7
<1>9. f \in [Connection -> Worker \ {x}]
  BY <1>6, <1>7, <1>8
<1>10. /\ IsFiniteSet(Worker \ {x}) /\ Cardinality(Worker \ {x}) = Cardinality(Worker) - 1
       /\ Cardinality(Worker) \in Nat
  BY <1>2, WorkerAssumption, FS_RemoveElement, FS_CardinalityType
<1>11. IsFiniteSet(Connection) /\ Cardinality(Connection) = Cardinality(Worker)
  BY <1>10, FS_Interval DEF Connection
<1>12. Cardinality(Worker \ {x}) < Cardinality(Connection)
  BY <1>10, <1>11
<1>13. \E c, d \in Connection : c # d /\ f[c] = f[d]
  BY <1>9, <1>10, <1>11, <1>12, FS_PigeonHole
<1> QED
  BY <1>8, <1>13

\* runInThread takes a connection.
LEMMA ConnectionTaken ==
    ASSUME DBInv, NEW x \in Runner, TakeConnection(x), m_vDBConn # <<>>
    PROVE  (DBTypeOK /\ CallInv /\ ConnInv /\ SqlInv /\ LatchInv)'
<1> USE DEF DBInv, stopVars, callVars, vars
<1>1. /\ job[x].at = "connection"
      /\ job' = [job EXCEPT ![x] = [at |-> "query", sql |-> job[x].sql, conn |-> Head(m_vDBConn)]]
      /\ m_vDBConn' = Tail(m_vDBConn)
      /\ UNCHANGED <<m_SqlQueue, executed, failed>>
      /\ UNCHANGED <<vars, stopVars, callVars>>
  BY DEF TakeConnection
<1>2. m_vDBConn \in Seq(Connection) /\ job \in [Runner -> Job]
  BY DEF DBTypeOK
<1>3. /\ Head(m_vDBConn) \in Connection /\ Tail(m_vDBConn) \in Seq(Connection)
      /\ Len(m_vDBConn) \in Nat \ {0} /\ Len(Tail(m_vDBConn)) = Len(m_vDBConn) - 1
      /\ Head(m_vDBConn) = m_vDBConn[1]
      /\ \A i \in 1..(Len(m_vDBConn) - 1) : Tail(m_vDBConn)[i] = m_vDBConn[i + 1]
      /\ Members(m_vDBConn) = Members(Tail(m_vDBConn)) \union {Head(m_vDBConn)}
  BY <1>2, MembersMove
<1>4. job[x] \in [at : {"connection"}, sql : Request]
  BY <1>1, <1>2 DEF Job, Idle
<1>5. /\ job'[x] = [at |-> "query", sql |-> job[x].sql, conn |-> Head(m_vDBConn)]
      /\ \A y \in Runner : y # x => job'[y] = job[y]
      /\ job' \in [Runner -> Job]
  BY <1>1, <1>2, <1>3, <1>4 DEF Job
<1>6. DBTypeOK'
  BY <1>1, <1>3, <1>5 DEF DBTypeOK
<1>7. CallInv'
  <2>1. \A y \in Runner : job'[y].at # "task" => InJob(y)'
    BY <1>1, <1>5 DEF CallInv, InJob
  <2> QED
    BY <1>1, <2>1 DEF CallInv
<1>8. ConnInv'
  <2>1. x \notin Holders /\ Holders' = Holders \union {x}
    BY <1>1, <1>5 DEF Holders
  <2>2. \A y \in Holders : y # x /\ job'[y] = job[y]
    BY <1>5, <2>1 DEF Holders
  <2>3. Initialised' = Initialised
    BY <1>1 DEF Initialised
  <2>4. \A i, j \in 1..Len(m_vDBConn') : m_vDBConn'[i] = m_vDBConn'[j] => i = j
    <3> SUFFICES ASSUME NEW i \in 1..(Len(m_vDBConn) - 1), NEW j \in 1..(Len(m_vDBConn) - 1),
                        m_vDBConn[i + 1] = m_vDBConn[j + 1]
                 PROVE  i = j
      BY <1>1, <1>3
    <3>1. i + 1 \in 1..Len(m_vDBConn) /\ j + 1 \in 1..Len(m_vDBConn)
      BY <1>3
    <3>2. i + 1 = j + 1
      BY <3>1 DEF ConnInv
    <3> QED
      BY <3>2
  <2>5. Head(m_vDBConn) \notin Members(m_vDBConn')
    <3> SUFFICES ASSUME NEW i \in 1..(Len(m_vDBConn) - 1) PROVE m_vDBConn[i + 1] # m_vDBConn[1]
      BY <1>1, <1>3 DEF Members
    <3>1. i + 1 \in 1..Len(m_vDBConn) /\ 1 \in 1..Len(m_vDBConn) /\ i + 1 # 1
      BY <1>3
    <3> QED
      BY <3>1 DEF ConnInv
  <2>6. \A y \in Holders' : job'[y].conn \notin Members(m_vDBConn')
    BY <1>1, <1>3, <1>5, <2>1, <2>2, <2>5 DEF ConnInv
  <2>7. \A y, z \in Holders' : job'[y].conn = job'[z].conn => y = z
    <3>1. \A y \in Holders : job'[y].conn # Head(m_vDBConn)
      BY <1>3, <2>2 DEF ConnInv
    <3>2. job'[x].conn = Head(m_vDBConn)
      BY <1>5
    <3> QED
      BY <2>1, <2>2, <3>1, <3>2 DEF ConnInv
  <2>8. Initialised' /\ failed' # "connect" =>
          \A c \in Connection : c \in Members(m_vDBConn') \/ \E y \in Holders' : job'[y].conn = c
    BY <1>1, <1>3, <1>5, <2>1, <2>2, <2>3 DEF ConnInv
  <2>9. Initialised
    <3>1. Initialised \/ m_vDBConn = <<>>
      BY DEF ConnInv
    <3> QED
      BY <3>1
  <2> QED
    BY <1>1, <2>3, <2>4, <2>6, <2>7, <2>8, <2>9 DEF ConnInv
<1>9. SqlInv'
  <2>1. \A y \in Runner : /\ job'[y].at # "task" <=> job[y].at # "task"
                          /\ job[y].at \in {"connection", "query"} =>
                               job'[y].at \in {"connection", "query"} /\ job'[y].sql = job[y].sql
    BY <1>1, <1>5
  <2>2. Popped' = Popped
    <3>1. \A w \in Worker : w \in Runner
      BY DEF Runner
    <3> QED
      BY <1>1, <2>1, <3>1 DEF Popped
  <2>3. RanDirectly' = RanDirectly /\ SqlTaken' = SqlTaken
    BY <1>1 DEF RanDirectly, SqlTaken
  <2> QED
    BY <1>1, <2>1, <2>2, <2>3 DEF SqlInv
<1>10. LatchInv'
  BY <1>1 DEF LatchInv
<1> QED
  BY <1>6, <1>7, <1>8, <1>9, <1>10

\* runInThread executes its statement.
LEMMA StatementExecuted ==
    ASSUME DBInv, NEW x \in Runner, Query(x), UNCHANGED failed, failed = "no"
    PROVE  (DBTypeOK /\ CallInv /\ ConnInv /\ SqlInv /\ LatchInv)'
<1> USE DEF DBInv, stopVars, callVars, vars
<1>1. /\ job[x].at = "query" /\ executed' = executed \union {job[x].sql}
      /\ job' = [job EXCEPT ![x].at = "back"]
      /\ UNCHANGED <<m_SqlQueue, m_vDBConn, failed>>
      /\ UNCHANGED <<vars, stopVars, callVars>>
  BY DEF Query, Fails
<1>2. job \in [Runner -> Job] /\ executed \subseteq Request
  BY DEF DBTypeOK
<1>3. job[x] \in [at : {"query", "back"}, sql : Request, conn : Connection]
  BY <1>1, <1>2 DEF Job, Idle
<1>4. /\ job'[x] = [job[x] EXCEPT !.at = "back"]
      /\ \A y \in Runner : y # x => job'[y] = job[y]
  BY <1>1, <1>2
<1>5. /\ job'[x] \in [at : {"query", "back"}, sql : Request, conn : Connection]
      /\ job'[x].at = "back" /\ job'[x].sql = job[x].sql /\ job'[x].conn = job[x].conn
  BY <1>3, <1>4
<1>6. job' \in [Runner -> Job]
  <2>1. job'[x] \in Job
    BY <1>5 DEF Job
  <2> QED
    BY <1>1, <1>2, <1>4, <2>1
<1>7. DBTypeOK'
  <2>1. job[x].sql \in Request
    BY <1>3
  <2> QED
    BY <1>1, <1>2, <1>6, <2>1 DEF DBTypeOK
<1>8. CallInv'
  <2>1. \A y \in Runner : job'[y].at # "task" => InJob(y)'
    BY <1>1, <1>4 DEF CallInv, InJob
  <2> QED
    BY <1>1, <2>1 DEF CallInv
<1>9. ConnInv'
  <2>1. Holders' = Holders
    BY <1>1, <1>4, <1>5 DEF Holders
  <2>2. \A y \in Holders : job'[y].conn = job[y].conn
    BY <1>4, <1>5 DEF Holders
  <2>3. Initialised' = Initialised
    BY <1>1 DEF Initialised
  <2> QED
    BY <1>1, <2>1, <2>2, <2>3 DEF ConnInv
<1>10. SqlInv'
  <2>1. Popped' = Popped
    <3>1. \A w \in Worker : w \in Runner
      BY DEF Runner
    <3> QED
      BY <1>1, <1>4, <1>5, <3>1 DEF Popped
  <2>2. RanDirectly' = RanDirectly /\ SqlTaken' = SqlTaken
    BY <1>1 DEF RanDirectly, SqlTaken
  <2>3. \A i \in 1..SqlTaken' :
         \/ pushed'[i] \in executed'
         \/ \E y \in Runner : job'[y].at \in {"connection", "query"} /\ job'[y].sql = pushed'[i]
    <3> SUFFICES ASSUME NEW i \in 1..SqlTaken, pushed[i] \notin executed'
                 PROVE  \E y \in Runner : job'[y].at \in {"connection", "query"} /\ job'[y].sql = pushed[i]
      BY <1>1, <2>2
    <3>1. PICK y \in Runner : job[y].at \in {"connection", "query"} /\ job[y].sql = pushed[i]
      BY <1>1 DEF SqlInv
    <3>2. y # x
      BY <1>1, <3>1
    <3> QED
      BY <1>4, <3>1, <3>2
  <2> QED
    BY <1>1, <2>1, <2>2, <2>3 DEF SqlInv
<1>11. LatchInv'
  BY <1>1 DEF LatchInv
<1> QED
  BY <1>7, <1>8, <1>9, <1>10, <1>11

\* TaskReturns, of a worker that was queued its task.
LEMMA ReturnFrame ==
    ASSUME DBInv, NEW w \in Worker, TaskReturns(w)
    PROVE  /\ workerAt[w] = "run" /\ done' = done \union {task[w]} /\ workerAt'[w] = "loop"
           /\ \A v \in Worker : v # w => workerAt'[v] = workerAt[v] /\ task'[v] = task[v]
           /\ UNCHANGED <<ownerAt, queued>>
           /\ task[w] \in Members(queued) /\ RanDirectly' = RanDirectly /\ task[w] \in Task
<1> USE DEF DBInv, PoolInv, TypeOK
<1>1. /\ workerAt[w] = "run" /\ done' = done \union {task[w]} /\ workerAt'[w] = "loop"
      /\ \A v \in Worker : v # w => workerAt'[v] = workerAt[v] /\ task'[v] = task[v]
      /\ UNCHANGED <<ownerAt, queued>>
  BY DEF TaskReturns
<1>2. task[w] \in Members(queued)
  <2>1. PICK i \in 1..Taken : task[w] = queued[i]
    BY <1>1 DEF TakenInv
  <2>2. i \in 1..Len(queued)
    BY DEF Taken, SuffixInv
  <2> QED
    BY <2>1, <2>2 DEF Members
<1>3. RanDirectly' = RanDirectly
  BY <1>1, <1>2 DEF RanDirectly
<1> QED
  BY <1>1, <1>2, <1>3

\* What goes back into m_vDBConn.
LEMMA ConnectionBack ==
    ASSUME DBInv, NEW x \in Runner, job[x].at = "back",
           m_vDBConn' = Append(m_vDBConn, job[x].conn), job' = [job EXCEPT ![x] = Idle],
           UNCHANGED <<dbRunning, ownerAt, failed>>,
           \A w \in Worker : workerAt'[w] # "none" => workerAt[w] # "none"
    PROVE  /\ ConnInv'
           /\ m_vDBConn' \in Seq(Connection) /\ job' \in [Runner -> Job]
           /\ job'[x].at = "task" /\ \A y \in Runner : y # x => job'[y] = job[y]
<1> USE DEF DBInv
<1>1. m_vDBConn \in Seq(Connection) /\ job \in [Runner -> Job]
  BY DEF DBTypeOK
<1>2. job[x] \in [at : {"query", "back"}, sql : Request, conn : Connection]
  BY <1>1 DEF Job, Idle
<1>3. PICK c \in Connection : c = job[x].conn
  BY <1>2
<1>4. /\ m_vDBConn' \in Seq(Connection) /\ Members(m_vDBConn') = Members(m_vDBConn) \union {c}
      /\ Len(m_vDBConn) \in Nat /\ Len(m_vDBConn') = Len(m_vDBConn) + 1
      /\ \A i \in 1..Len(m_vDBConn) : m_vDBConn'[i] = m_vDBConn[i]
      /\ m_vDBConn'[Len(m_vDBConn) + 1] = c
  BY <1>1, <1>3, MembersMove
<1>5. /\ job'[x] = Idle /\ job'[x].at = "task" /\ \A y \in Runner : y # x => job'[y] = job[y]
      /\ job' \in [Runner -> Job]
  BY <1>1 DEF Job, Idle
<1>6. x \in Holders /\ Holders' = Holders \ {x}
  BY <1>5 DEF Holders
<1>7. \A y \in Holders' : y \in Holders /\ y # x /\ job'[y] = job[y]
  BY <1>5, <1>6 DEF Holders
<1>8. Initialised' = Initialised
  BY DEF Initialised
<1>9. c \notin Members(m_vDBConn)
  BY <1>3, <1>6 DEF ConnInv
<1>10. \A i, j \in 1..Len(m_vDBConn') : m_vDBConn'[i] = m_vDBConn'[j] => i = j
  <2>1. \A i \in 1..Len(m_vDBConn') : i \in 1..Len(m_vDBConn) \/ i = Len(m_vDBConn) + 1
    BY <1>4
  <2>2. \A i \in 1..Len(m_vDBConn) : m_vDBConn[i] # c
    BY <1>9 DEF Members
  <2> QED
    BY <1>4, <2>1, <2>2 DEF ConnInv
<1>11. \A y \in Holders' : job'[y].conn \notin Members(m_vDBConn')
  BY <1>3, <1>4, <1>6, <1>7 DEF ConnInv
<1>12. \A y, z \in Holders' : job'[y].conn = job'[z].conn => y = z
  BY <1>7 DEF ConnInv
<1>13. Initialised' /\ failed' # "connect" =>
          \A d \in Connection : d \in Members(m_vDBConn') \/ \E y \in Holders' : job'[y].conn = d
  <2> SUFFICES ASSUME Initialised, failed # "connect", NEW d \in Connection,
                      d \notin Members(m_vDBConn')
               PROVE  \E y \in Holders' : job'[y].conn = d
    BY <1>8
  <2>1. PICK y \in Holders : job[y].conn = d
    BY <1>4 DEF ConnInv
  <2>2. y # x
    BY <1>3, <1>4, <2>1
  <2>3. y \in Holders' /\ job'[y] = job[y]
    BY <1>6, <1>7, <2>1, <2>2
  <2> QED
    BY <2>1, <2>3
<1>14. Initialised
  BY <1>6 DEF ConnInv
<1>15. \A w \in Worker : workerAt'[w] # "none" => ownerAt' # "constructed"
  BY DEF ConnInv
<1>16. ConnInv'
  BY <1>8, <1>10, <1>11, <1>12, <1>13, <1>14, <1>15 DEF ConnInv
<1> QED
  BY <1>4, <1>5, <1>16

\* A worker gives its connection back, and its task is done.
LEMMA WorkerGivesBack ==
    ASSUME DBInv, NEW x \in Worker, GiveBack(x)
    PROVE  (DBTypeOK /\ CallInv /\ ConnInv /\ SqlInv /\ LatchInv)'
<1> USE DEF DBInv, stopVars
<1>1. /\ job[x].at = "back" /\ m_vDBConn' = Append(m_vDBConn, job[x].conn)
      /\ job' = [job EXCEPT ![x] = Idle] /\ TaskReturns(x) /\ UNCHANGED callerAt
      /\ UNCHANGED <<m_SqlQueue, executed, stopVars, pushed, failed>>
  BY InJobOf DEF GiveBack
<1>2. /\ workerAt[x] = "run" /\ done' = done \union {task[x]} /\ workerAt'[x] = "loop"
      /\ \A v \in Worker : v # x => workerAt'[v] = workerAt[v] /\ task'[v] = task[v]
      /\ UNCHANGED <<ownerAt, queued>>
      /\ task[x] \in Members(queued) /\ RanDirectly' = RanDirectly /\ task[x] \in Task
  BY <1>1, ReturnFrame
<1>3. x \in Runner
  BY DEF Runner
<1>4. /\ ConnInv'
      /\ m_vDBConn' \in Seq(Connection) /\ job' \in [Runner -> Job]
      /\ job'[x].at = "task" /\ \A y \in Runner : y # x => job'[y] = job[y]
  BY <1>1, <1>2, <1>3, ConnectionBack
<1>5. DBTypeOK'
  BY <1>1, <1>4 DEF DBTypeOK
<1>6. task[x] # Latch
  BY <1>1, <1>3, InJobOf DEF CallInv
<1>7. CallInv'
  <2>1. \A y \in Runner : job'[y].at # "task" => InJob(y)'
    <3> SUFFICES ASSUME NEW y \in Runner, job'[y].at # "task" PROVE InJob(y)'
      OBVIOUS
    <3>1. y # x /\ InJob(y)
      BY <1>4 DEF CallInv
    <3> QED
      BY <1>1, <1>2, <3>1 DEF InJob
  <2> QED
    BY <1>1, <1>2, <2>1 DEF CallInv
<1>8. SqlInv'
  <2>1. task[x] \in Popped
    BY <1>1, <1>2, <1>6 DEF Popped, Request
  <2>2. Popped' = Popped
    <3>1. \A w \in Worker : w \in Runner
      BY DEF Runner
    <3>2. \A t \in Request :
            (\E w \in Worker : workerAt'[w] = "run" /\ task'[w] = t /\ job'[w].at # "task")
              <=> \E w \in Worker : w # x /\ workerAt[w] = "run" /\ task[w] = t /\ job[w].at # "task"
      BY <1>2, <1>4, <3>1
    <3> QED
      BY <1>2, <2>1, <3>2 DEF Popped
  <2>3. SqlTaken' = SqlTaken
    BY <1>1 DEF SqlTaken
  <2>4. \A i \in 1..SqlTaken' :
         \/ pushed'[i] \in executed'
         \/ \E y \in Runner : job'[y].at \in {"connection", "query"} /\ job'[y].sql = pushed'[i]
    BY <1>1, <1>4, <2>3 DEF SqlInv
  <2> QED
    BY <1>1, <1>2, <2>2, <2>3, <2>4 DEF SqlInv
<1>9. LatchInv'
  BY <1>1, <1>2, <1>6 DEF LatchInv
<1> QED
  BY <1>4, <1>5, <1>7, <1>8, <1>9

\* A caller that ran its task itself gives its connection back, and returns.
LEMMA CallerGivesBack ==
    ASSUME DBInv, NEW x \in Request, GiveBack(x)
    PROVE  (DBTypeOK /\ CallInv /\ ConnInv /\ SqlInv /\ LatchInv)'
<1> USE DEF DBInv, stopVars, vars
<1>1. /\ job[x].at = "back" /\ m_vDBConn' = Append(m_vDBConn, job[x].conn)
      /\ job' = [job EXCEPT ![x] = Idle] /\ callerAt' = [callerAt EXCEPT ![x] = "returned"]
      /\ UNCHANGED vars
      /\ UNCHANGED <<m_SqlQueue, executed, stopVars, pushed, failed>>
  BY InJobOf DEF GiveBack
<1>2. x \in Runner
  BY DEF Runner
<1>3. /\ ConnInv'
      /\ m_vDBConn' \in Seq(Connection) /\ job' \in [Runner -> Job]
      /\ job'[x].at = "task" /\ \A y \in Runner : y # x => job'[y] = job[y]
  BY <1>1, <1>2, ConnectionBack
<1>4. /\ callerAt \in [Request -> {"out", "run", "inline", "returned"}]
      /\ callerAt'[x] = "returned" /\ \A s \in Request : s # x => callerAt'[s] = callerAt[s]
  BY <1>1 DEF DBTypeOK
<1>5. callerAt[x] = "inline"
  BY <1>1, <1>2, InJobOf DEF CallInv
<1>6. x \in done /\ x \notin Members(queued) /\ RanDirectly
  BY <1>5 DEF CallInv, RanDirectly
<1>7. DBTypeOK'
  BY <1>1, <1>3 DEF DBTypeOK
<1>8. CallInv'
  <2>1. \A y \in Runner : job'[y].at # "task" => InJob(y)'
    <3> SUFFICES ASSUME NEW y \in Runner, job'[y].at # "task" PROVE InJob(y)'
      OBVIOUS
    <3>1. y # x /\ InJob(y)
      BY <1>3 DEF CallInv
    <3> QED
      BY <1>1, <1>4, <3>1 DEF InJob
  <2>2. \A s \in Request : callerAt'[s] = "out" <=> s \notin Members(pushed')
    BY <1>1, <1>4, <1>5 DEF CallInv
  <2>3. \A t \in Members(queued') : t = Latch \/ callerAt'[t] = "returned"
    <3>1. Members(queued) \subseteq Task
      BY MembersMove DEF PoolInv, TypeOK
    <3> QED
      BY <1>1, <1>4, <3>1 DEF CallInv, Request
  <2>4. /\ \A s \in Request : callerAt'[s] = "returned" => s \in Members(queued') \union done'
        /\ \A s \in Request : callerAt'[s] = "inline" => s \in done' /\ s \notin Members(queued')
    BY <1>1, <1>4, <1>6 DEF CallInv
  <2> QED
    BY <1>1, <2>1, <2>2, <2>3, <2>4 DEF CallInv
<1>9. SqlInv'
  <2>1. SqlTaken' = SqlTaken /\ RanDirectly'
    BY <1>1, <1>6 DEF SqlTaken, RanDirectly
  <2>2. \A i \in 1..SqlTaken' :
         \/ pushed'[i] \in executed'
         \/ \E y \in Runner : job'[y].at \in {"connection", "query"} /\ job'[y].sql = pushed'[i]
    BY <1>1, <1>3, <2>1 DEF SqlInv
  <2> QED
    BY <1>1, <2>1, <2>2 DEF SqlInv
<1>10. LatchInv'
  <2>1. \A s \in before : callerAt'[s] = "returned"
    BY <1>4 DEF LatchInv, DBTypeOK
  <2> QED
    BY <1>1, <2>1 DEF LatchInv
<1> QED
  BY <1>3, <1>7, <1>8, <1>9, <1>10

\* The latch's task.
LEMMA LatchCounted ==
    ASSUME DBInv, NEW w \in Worker, CountDown(w)
    PROVE  (DBTypeOK /\ CallInv /\ ConnInv /\ SqlInv /\ LatchInv)'
<1> USE DEF DBInv, jobVars, callVars
<1>1. /\ task[w] = Latch /\ m_nCnt' = m_nCnt - 1 /\ TaskReturns(w)
      /\ stopAt' = IF m_nCnt' = 0 /\ stopAt = "asleep" THEN "wait" ELSE stopAt
      /\ UNCHANGED <<jobVars, dbRunning, before, callVars, failed>>
  BY DEF CountDown
<1>2. /\ workerAt[w] = "run" /\ done' = done \union {Latch} /\ workerAt'[w] = "loop"
      /\ \A v \in Worker : v # w => workerAt'[v] = workerAt[v] /\ task'[v] = task[v]
      /\ UNCHANGED <<ownerAt, queued>>
      /\ Latch \in Members(queued) /\ RanDirectly' = RanDirectly
  BY <1>1, ReturnFrame
<1>3. Latch \notin done
  BY <1>1, <1>2 DEF RunningInv
<1>4. stopAt \in {"wait", "asleep", "pool"} /\ m_nCnt = 1 /\ m_nCnt' = 0
  <2>1. stopAt \notin {"no", "run"} /\ stopAt \in {"no", "run", "wait", "asleep", "pool"}
    BY <1>2 DEF LatchInv, DBTypeOK
  <2>2. m_nCnt = 1
    BY <1>3, <2>1 DEF LatchInv
  <2> QED
    BY <1>1, <2>1, <2>2
<1>5. w \in Runner /\ job[w].at = "task" /\ Latch \notin Request
  BY <1>1, InJobOf DEF CallInv, Runner, Request
<1>6. DBTypeOK'
  BY <1>1, <1>4 DEF DBTypeOK
<1>7. CallInv'
  <2>1. \A y \in Runner : job'[y].at # "task" => InJob(y)'
    <3> SUFFICES ASSUME NEW y \in Runner, job[y].at # "task" PROVE InJob(y)'
      BY <1>1
    <3>1. y # w /\ InJob(y)
      BY <1>5 DEF CallInv
    <3> QED
      BY <1>1, <1>2, <3>1 DEF InJob
  <2> QED
    BY <1>1, <1>2, <1>5, <2>1 DEF CallInv
<1>8. ConnInv'
  <2>1. Holders' = Holders /\ Initialised' = Initialised
    BY <1>1, <1>2 DEF Holders, Initialised
  <2>2. \A v \in Worker : workerAt'[v] # "none" => ownerAt' # "constructed"
    BY <1>2 DEF ConnInv
  <2> QED
    BY <1>1, <2>1, <2>2 DEF ConnInv
<1>9. SqlInv'
  <2>1. Popped' = Popped
    <3>1. \A t \in Request :
            (\E v \in Worker : workerAt'[v] = "run" /\ task'[v] = t /\ job'[v].at # "task")
              <=> \E v \in Worker : workerAt[v] = "run" /\ task[v] = t /\ job[v].at # "task"
      BY <1>1, <1>2, <1>5
    <3> QED
      BY <1>2, <1>5, <3>1 DEF Popped
  <2>2. SqlTaken' = SqlTaken
    BY <1>1 DEF SqlTaken
  <2> QED
    BY <1>1, <1>2, <2>1, <2>2 DEF SqlInv
<1>10. LatchInv'
  BY <1>1, <1>2, <1>4 DEF LatchInv
<1> QED
  BY <1>6, <1>7, <1>8, <1>9, <1>10

\* Init makes one connection for each worker, before there is a worker.
LEMMA ConnectionsMade ==
    ASSUME DBInv, failed = "no", InitConnections
    PROVE  (DBTypeOK /\ CallInv /\ ConnInv /\ SqlInv /\ LatchInv)'
<1> USE DEF DBInv, vars, callVars
<1>1. /\ ownerAt = "constructed" /\ ~dbRunning /\ dbRunning' = TRUE
      /\ \/ m_vDBConn' = [i \in Connection |-> i] /\ UNCHANGED failed
         \/ failed' = "connect" /\ UNCHANGED m_vDBConn
      /\ UNCHANGED <<vars, m_SqlQueue, job, executed, m_nCnt, stopAt, before, callVars>>
  BY DEF InitConnections, Connect
<1>2. Cardinality(Worker) \in Nat
  BY WorkerAssumption, FS_CardinalityType
<1>3. PICK c : c = [i \in Connection |-> i]
  OBVIOUS
<1>4. /\ c \in Seq(Connection) /\ Len(c) = Cardinality(Worker)
      /\ \A i \in 1..Len(c) : c[i] = i
  BY <1>2, <1>3 DEF Connection
<1>5. Members(c) = Connection
  BY <1>4 DEF Members, Connection
<1>6. m_vDBConn = <<>> /\ Holders = {} /\ Holders' = {} /\ Initialised'
  <2>1. Holders' = Holders
    BY <1>1 DEF Holders
  <2> QED
    BY <1>1, <2>1 DEF ConnInv, Initialised
<1>7. DBTypeOK'
  BY <1>1, <1>3, <1>4 DEF DBTypeOK
<1>8. CallInv' /\ LatchInv'
  BY <1>1 DEF CallInv, InJob, LatchInv
<1>9. ConnInv'
  <2>1. CASE m_vDBConn' = c /\ UNCHANGED failed
    <3>1. Members(m_vDBConn') = Connection
      BY <1>5, <2>1
    <3>2. \A i, j \in 1..Len(m_vDBConn') : m_vDBConn'[i] = m_vDBConn'[j] => i = j
      BY <1>4, <2>1
    <3> QED
      BY <1>1, <1>6, <3>1, <3>2 DEF ConnInv
  <2>2. CASE failed' = "connect" /\ UNCHANGED m_vDBConn
    BY <1>1, <1>6, <2>2 DEF ConnInv
  <2> QED
    BY <1>1, <1>3, <2>1, <2>2
<1>10. SqlInv'
  <2>1. Popped' = Popped /\ RanDirectly' = RanDirectly /\ SqlTaken' = SqlTaken
    BY <1>1 DEF Popped, RanDirectly, SqlTaken
  <2> QED
    BY <1>1, <2>1 DEF SqlInv
<1> QED
  BY <1>7, <1>8, <1>9, <1>10

\* Stop's own steps, and its wait for the latch.
LEMMA StopSteps ==
    ASSUME DBInv, DBStop \/ LatchWait \/ LatchSpuriousWakeUp
    PROVE  (DBTypeOK /\ CallInv /\ ConnInv /\ SqlInv /\ LatchInv)'
<1> USE DEF DBInv, vars, jobVars, callVars
<1>1. UNCHANGED <<vars, jobVars, callVars, failed>>
  BY DEF DBStop, LatchWait, LatchSpuriousWakeUp
<1>2. Initialised' = Initialised
  BY <1>1 DEF DBStop, LatchWait, LatchSpuriousWakeUp, Initialised
<1>3. CallInv'
  BY <1>1 DEF CallInv, InJob
<1>4. ConnInv'
  <2>1. Holders' = Holders
    BY <1>1 DEF Holders
  <2> QED
    BY <1>1, <1>2, <2>1 DEF ConnInv
<1>5. SqlInv'
  <2>1. Popped' = Popped /\ RanDirectly' = RanDirectly /\ SqlTaken' = SqlTaken
    BY <1>1 DEF Popped, RanDirectly, SqlTaken
  <2> QED
    BY <1>1, <2>1 DEF SqlInv
<1>6. DBTypeOK'
  <2>1. CASE DBStop
    <3>1. /\ dbRunning' = FALSE /\ m_nCnt' = 1 /\ stopAt' = "run"
          /\ before' = {r \in Request : callerAt[r] = "returned"}
      BY <2>1 DEF DBStop
    <3>2. m_nCnt' \in 0..1 /\ before' \subseteq Request
      BY <3>1
    <3> QED
      BY <1>1, <3>1, <3>2 DEF DBTypeOK
  <2>2. CASE LatchWait \/ LatchSpuriousWakeUp
    BY <1>1, <2>2 DEF LatchWait, LatchSpuriousWakeUp, DBTypeOK
  <2> QED
    BY <2>1, <2>2
<1>7. LatchInv'
  <2>1. CASE DBStop
    <3>1. /\ ownerAt = "started" /\ stopAt = "no" /\ m_nCnt' = 1 /\ stopAt' = "run"
          /\ before' = {r \in Request : callerAt[r] = "returned"}
      BY <2>1 DEF DBStop
    <3>2. Latch \notin Members(queued) \union done
      BY <3>1 DEF LatchInv
    <3>3. \A j \in 1..Len(queued) : queued[j] # Latch
      BY <3>2 DEF Members
    <3> QED
      BY <1>1, <3>1, <3>2, <3>3 DEF LatchInv
  <2>2. CASE LatchWait
    <3>1. /\ stopAt = "wait" /\ stopAt' = (IF m_nCnt > 0 THEN "asleep" ELSE "pool")
          /\ UNCHANGED <<m_nCnt, before>>
      BY <2>2 DEF LatchWait
    <3>2. stopAt' = "pool" => Latch \in done
      BY <3>1 DEF LatchInv
    <3>3. ownerAt \notin {"stopping", "joining", "stopped"} /\ stopAt' \in {"asleep", "pool"}
      BY <3>1 DEF LatchInv
    <3> QED
      BY <1>1, <3>1, <3>2, <3>3 DEF LatchInv
  <2>3. CASE LatchSpuriousWakeUp
    BY <1>1, <2>3 DEF LatchSpuriousWakeUp, LatchInv
  <2> QED
    BY <2>1, <2>2, <2>3
<1> QED
  BY <1>3, <1>4, <1>5, <1>6, <1>7

\* Every step keeps the invariants.
LEMMA DBStep ==
    ASSUME DBInv, [DBNext]_allVars
    PROVE  (DBTypeOK /\ CallInv /\ ConnInv /\ SqlInv /\ LatchInv)'
<1> USE DEF DBInv
<1>0. \A w \in Worker : w \in Runner
  BY DEF Runner
<1>1. CASE UNCHANGED allVars
  BY <1>1, DBQuiet DEF allVars, vars, dbVars, stopVars, Initialised, ConnInv, LatchInv
<1>2. CASE DBNext /\ InitThreads
  <2>1. dbRunning /\ UNCHANGED <<dbVars, queued, done, task>> /\ ownerAt \in {"constructed", "starting"}
        /\ ownerAt' \in {"starting", "started"}
    BY <1>2 DEF InitThreads, Start, StartThread
  <2>2. \A w \in Worker : workerAt[w] = "run" <=> workerAt'[w] = "run"
    BY <1>2 DEF InitThreads, Start, StartThread, PoolInv, TypeOK
  <2>3. Initialised' = Initialised
    BY <2>1 DEF Initialised, dbVars, stopVars
  <2> QED
    BY <2>1, <2>2, <2>3, DBQuiet
<1>3. CASE DBNext /\ DBStopPool
  <2>1. /\ stopAt = "pool" /\ UNCHANGED <<dbVars, queued, done, task>>
        /\ ownerAt # "constructed" /\ ownerAt' # "constructed"
    BY <1>3 DEF DBStopPool, Stop, StopNotify, StopJoin
  <2>2. \A w \in Worker : workerAt[w] = "run" <=> workerAt'[w] = "run"
    BY <1>3 DEF DBStopPool, Stop, StopNotify, StopJoin, NotifyAll
  <2>3. Initialised' = Initialised
    BY <2>1 DEF Initialised
  <2> QED
    BY <2>1, <2>2, <2>3, DBQuiet
<1>4. ASSUME NEW w \in Worker, TakeStep(w) \/ (SpuriousWakeUp(w) /\ UNCHANGED dbVars)
      PROVE  (DBTypeOK /\ CallInv /\ ConnInv /\ SqlInv /\ LatchInv)'
  <2>1. UNCHANGED <<dbVars, queued, done, ownerAt>> /\ workerAt[w] \notin {"none", "run"}
    BY <1>4 DEF TakeStep, TestRunning, TakeTask, TakeNothing, Wait, SpuriousWakeUp
  <2>2. \A v \in Worker : v # w => workerAt'[v] = workerAt[v] /\ task'[v] = task[v]
    BY <1>4 DEF TakeStep, TestRunning, TakeTask, TakeNothing, Wait, SpuriousWakeUp, PoolInv, TypeOK
  <2>3. job[w].at = "task"
    BY <1>0, <2>1, InJobOf DEF CallInv
  <2>4. ownerAt # "constructed"
    BY <2>1 DEF ConnInv
  <2>5. Initialised' = Initialised
    BY <2>1, <2>4 DEF Initialised
  <2>6. ownerAt' \in {"stopping", "joining", "stopped"} => stopAt = "pool"
    BY <2>1 DEF LatchInv
  <2> QED
    BY <2>1, <2>2, <2>3, <2>4, <2>5, <2>6, DBQuiet
<1>5. ASSUME NEW x \in Runner, RunJob(x), failed = "no"
      PROVE  (DBTypeOK /\ CallInv /\ ConnInv /\ SqlInv /\ LatchInv)'
  <2>1. ASSUME NEW why \in {"sql", "connection", "query"}, Fails(why),
               UNCHANGED <<vars, stopVars, callVars>>
        PROVE  (DBTypeOK /\ CallInv /\ ConnInv /\ SqlInv /\ LatchInv)'
    BY <1>5, <2>1, JobFails DEF Fails
  <2>2. CASE PopSql(x)
    BY <2>1, <2>2, StatementPopped DEF PopSql
  <2>3. CASE TakeConnection(x)
    BY <2>1, <2>3, ConnectionTaken DEF TakeConnection
  <2>4. CASE Query(x)
    <3>1. CASE Fails("query")
      BY <2>1, <2>4, <3>1 DEF Query
    <3>2. CASE UNCHANGED failed
      BY <1>5, <2>4, <3>2, StatementExecuted
    <3> QED
      BY <2>4, <3>1, <3>2 DEF Query
  <2>5. CASE GiveBack(x)
    BY <2>5, WorkerGivesBack, CallerGivesBack DEF Runner
  <2> QED
    BY <1>5, <2>2, <2>3, <2>4, <2>5 DEF RunJob
<1>6. ASSUME NEW r \in Request, ExecuteSqlRun(r)
      PROVE  (DBTypeOK /\ CallInv /\ ConnInv /\ SqlInv /\ LatchInv)'
  BY <1>6, TaskPushed, TaskRunDirectly DEF ExecuteSqlRun
<1>7. CASE DBNext /\ InitConnections
  BY <1>7, ConnectionsMade DEF DBNext
<1>8. \A r \in Request : r \in Runner
  BY DEF Runner
<1> QED
  BY <1>0, <1>1, <1>2, <1>3, <1>4, <1>5, <1>6, <1>7, <1>8, StopSteps, LatchRun, StatementPushed,
     LatchCounted
  DEF DBNext, DBOwnerStep, CallerStep, ThreadStep

\* The initial state satisfies them.
LEMMA DBInitially == DBInit => DBTypeOK /\ CallInv /\ ConnInv /\ SqlInv /\ LatchInv
<1> SUFFICES ASSUME DBInit PROVE DBTypeOK /\ CallInv /\ ConnInv /\ SqlInv /\ LatchInv
  OBVIOUS
<1>1. \A x \in Runner : job[x] = Idle /\ job[x].at = "task"
  BY DEF DBInit, Idle
<1>2. /\ queued = <<>> /\ pushed = <<>> /\ m_SqlQueue = <<>> /\ m_vDBConn = <<>>
      /\ Members(<<>>) = {} /\ Len(<<>>) = 0
  BY DEF DBInit, Init, Members
<1>3. DBTypeOK
  <2>1. <<>> \in Seq(Request) /\ <<>> \in Seq(Connection)
    OBVIOUS
  <2>2. job \in [Runner -> Job]
    BY DEF DBInit, Job
  <2>3. m_SqlQueue \in Seq(Request) /\ pushed \in Seq(Request) /\ m_vDBConn \in Seq(Connection)
    BY <1>2, <2>1
  <2>4. m_nCnt \in 0..1
    BY DEF DBInit
  <2> QED
    BY <2>2, <2>3, <2>4 DEF DBInit, DBTypeOK
<1>4. CallInv
  BY <1>1, <1>2 DEF DBInit, CallInv
<1>5. ConnInv
  <2>1. Holders = {}
    BY <1>1 DEF Holders
  <2> QED
    BY <1>2, <2>1 DEF DBInit, Init, ConnInv, Initialised
<1>6. SqlInv
  <2>1. Popped = {}
    BY DEF Popped, DBInit, Init
  <2>2. SqlTaken = 0
    BY <1>2 DEF SqlTaken
  <2> QED
    BY <1>2, <2>1, <2>2, FS_EmptySet DEF SqlInv
<1>7. LatchInv
  BY <1>2 DEF DBInit, Init, LatchInv
<1> QED
  BY <1>3, <1>4, <1>5, <1>6, <1>7

\* Statements, connections and latch stay in step with the pool's tasks, for any workers and
\* any calls.
THEOREM DBInvariant == DBSpec => []DBInv
<1>1. DBInit => Init
  BY DEF DBInit
<1>2. DBSpec => Spec
  BY <1>1, DBStepsArePoolSteps, PTL DEF DBSpec, Spec
<1>3. DBSpec => [](PoolInv /\ RunningInv)
  BY <1>2, PoolInvariant, RunningInvariant, PTL
<1>4. PoolInv /\ RunningInv /\ DBTypeOK /\ CallInv /\ ConnInv /\ SqlInv /\ LatchInv /\ [DBNext]_allVars
        => (DBTypeOK /\ CallInv /\ ConnInv /\ SqlInv /\ LatchInv)'
  BY DBStep DEF DBInv
<1> QED
  BY <1>3, <1>4, DBInitially, PTL DEF DBSpec, DBInv

\* Which steps end the process.
LEMMA WhatFails ==
    ASSUME failed = "no", DBNext, failed' # "no"
    PROVE  \/ failed' \in {"connect", "query"}
           \/ \E x \in Runner : /\ InJob(x) /\ job[x].at = "task" /\ m_SqlQueue = <<>>
                                /\ UNCHANGED vars
           \/ \E x \in Runner : /\ job[x].at = "connection" /\ m_vDBConn = <<>>
                                /\ UNCHANGED vars
<1> USE DEF dbVars, stopVars
<1>1. ASSUME NEW x \in Runner, RunJob(x)
      PROVE  \/ failed' = "query"
             \/ InJob(x) /\ job[x].at = "task" /\ m_SqlQueue = <<>> /\ UNCHANGED vars
             \/ job[x].at = "connection" /\ m_vDBConn = <<>> /\ UNCHANGED vars
  BY <1>1 DEF RunJob, PopSql, TakeConnection, Query, GiveBack, Fails
<1>2. InitConnections => failed' = "connect"
  BY DEF InitConnections, Connect
<1>3. ~(DBStop \/ LatchSpuriousWakeUp \/ DBOwnerStep)
  BY DEF DBStop, LatchSpuriousWakeUp, DBOwnerStep, InitThreads, DBStopRunLatch, LatchWait, DBStopPool
<1>4. \A r \in Request : ~ExecuteSql(r) /\ ~ExecuteSqlRun(r)
  BY DEF ExecuteSql, ExecuteSqlRun
<1>5. \A w \in Worker : ~TakeStep(w) /\ ~CountDown(w) /\ ~(SpuriousWakeUp(w) /\ UNCHANGED dbVars)
  BY DEF TakeStep, CountDown
<1>6. Worker \subseteq Runner /\ Request \subseteq Runner
  BY DEF Runner
<1> QED
  BY <1>1, <1>2, <1>3, <1>4, <1>5, <1>6 DEF DBNext, CallerStep, ThreadStep

\* With any number of workers, and calls from any threads, no assertion of runInThread fails
\* unless a call overtook Init, and no connection is with two threads.
THEOREM ConnectionsAlwaysSuffice == DBSpec => []ConnectionsSuffice
<1> DEFINE Suffice == ~RanDirectly => failed \in {"no", "connect", "query"}
<1>1. DBInit => Suffice
  BY DEF DBInit
<1>2. DBInv /\ Suffice /\ [DBNext]_allVars => Suffice'
  <2> SUFFICES ASSUME DBInv, Suffice, [DBNext]_allVars, ~RanDirectly'
               PROVE  failed' \in {"no", "connect", "query"}
    OBVIOUS
  <2>1. CASE UNCHANGED allVars
    BY <2>1 DEF allVars, vars, dbVars, RanDirectly
  <2>2. CASE DBNext
    <3>1. failed = "no"
      BY <2>2 DEF DBNext
    <3>2. UNCHANGED vars => ~RanDirectly
      BY DEF vars, RanDirectly
    <3> QED
      BY <2>2, <3>1, <3>2, WhatFails, StatementsSuffice, ConnectionsLeft
  <2> QED
    BY <2>1, <2>2
<1>3. DBInv /\ Suffice => ConnectionsSuffice
  BY DEF DBInv, ConnInv, ConnectionsSuffice
<1> QED
  BY <1>1, <1>2, <1>3, DBInvariant, PTL DEF DBSpec

\* When Stop has returned, the tasks of the calls that had returned before it are done: they
\* were queued before the latch, and the latch was counted down.
LEMMA TasksBeforeStopDone ==
    ASSUME DBInv, EarlierTasksRun, ownerAt = "stopped", ~RanDirectly
    PROVE  before \subseteq Popped
<1> USE DEF DBInv
<1>1. Latch \in done
  BY DEF LatchInv
<1>2. done \subseteq Members(queued)
  BY DEF RanDirectly
<1>3. PICK j \in 1..Len(queued) : queued[j] = Latch
  BY <1>1, <1>2 DEF Members
<1>4. ASSUME NEW r \in before PROVE r \in Popped
  <2>1. r \in Request /\ callerAt[r] = "returned"
    BY DEF LatchInv, DBTypeOK
  <2>2. r \in Members(queued)
    BY <1>2, <2>1 DEF CallInv
  <2>3. PICK i \in 1..Len(queued) : queued[i] = r
    BY <2>2 DEF Members
  <2>4. i < j
    BY <1>3, <2>3 DEF LatchInv
  <2>5. r \in done
    BY <1>1, <1>3, <2>3, <2>4 DEF EarlierTasksRun
  <2> QED
    BY <2>1, <2>5 DEF Popped
<1> QED
  BY <1>4

\* When Stop has returned nobody holds a statement.
LEMMA NobodyHoldsStatement ==
    ASSUME DBInv, ownerAt = "stopped", ~RanDirectly, NEW x \in Runner
    PROVE  job[x].at = "task"
<1> SUFFICES ASSUME job[x].at # "task" PROVE FALSE
  OBVIOUS
<1>1. InJob(x)
  BY DEF DBInv, CallInv
<1>2. x \in Worker
  BY <1>1, PoppedWereQueued
<1>3. workerAt[x] = "run"
  BY <1>1, <1>2, InJobOf
<1> QED
  BY <1>2, <1>3 DEF DBInv, PoolInv, StoppedInv

\* Stop executes the statements of the calls that had returned before it, up to the first
\* statement of a call that had not.
THEOREM StopHasExecuted == DBSpec => []StopExecutes
<1>1. DBInv /\ EarlierTasksRun => StopExecutes
  <2> SUFFICES ASSUME DBInv, EarlierTasksRun, ownerAt = "stopped", ~RanDirectly,
                      NEW i \in 1..Len(pushed), pushed[i] \in before,
                      \A k \in 1..(i - 1) : pushed[k] \in before
               PROVE  pushed[i] \in executed
    BY DEF StopExecutes
  <2> USE DEF DBInv
  <2>1. pushed \in Seq(Request) /\ Len(pushed) \in Nat
    BY DEF DBTypeOK
  <2>2. PICK T : T = {pushed[k] : k \in 1..i}
    OBVIOUS
  <2>3. T \subseteq Popped
    <3>1. \A k \in 1..i : pushed[k] \in before
      <4>1. \A k \in 1..i : k = i \/ k \in 1..(i - 1)
        BY <2>1
      <4> QED
        BY <4>1
    <3> QED
      BY <2>2, <3>1, TasksBeforeStopDone
  <2>4. Cardinality(T) = i
    <3>1. \A a, b \in 1..i : pushed[a] = pushed[b] => a = b
      BY <2>1 DEF CallInv
    <3>2. i \in Nat
      BY <2>1
    <3> QED
      BY <2>2, <3>1, <3>2, FirstMembers
  <2>5. IsFiniteSet(Popped) /\ Cardinality(Popped) = SqlTaken
    BY PoppedWereQueued DEF SqlInv
  <2>6. i <= SqlTaken
    BY <2>3, <2>4, <2>5, FS_Subset
  <2>7. SqlTaken \in Nat
    BY PoppedWereQueued, <2>5
  <2>8. i \in 1..SqlTaken
    BY <2>6, <2>7
  <2> QED
    BY <2>8, NobodyHoldsStatement DEF SqlInv
<1> QED
  BY <1>1, DBInvariant, DBPoolIsThreadPool, PTL
=============================================================================
