--------------------- MODULE BoundedBlockingQueueProofs ---------------------
(***************************************************************************)
(* Proofs about BoundedBlockingQueue for any capacity of at least one and    *)
(* any number of producers and consumers, and about the AsyncLoggingQueue    *)
(* that uses it.                                                            *)
(***************************************************************************)
EXTENDS AsyncLoggingQueue, FiniteSetTheorems, TLAPS

USE DEF Thread

\* Every step keeps the queue within its capacity.
LEMMA QueueTypeStep == TypeOK /\ [Next]_vars => TypeOK'
<1> USE CapacityAssumption DEF TypeOK, Full, Empty
<1> SUFFICES ASSUME TypeOK, [Next]_vars PROVE TypeOK'
  OBVIOUS
<1>1. CASE UNCHANGED vars
  BY <1>1 DEF vars
<1>2. ASSUME NEW t \in Thread, Call(t) \/ SpuriousWakeUp(t) PROVE TypeOK'
  BY <1>2 DEF Call, SpuriousWakeUp
<1>3. ASSUME NEW p \in Producer, PutWaits(p) PROVE TypeOK'
  BY <1>3 DEF PutWaits
<1>4. ASSUME NEW p \in Producer, NEW item \in Item, Put(p, item) PROVE TypeOK'
  BY <1>4 DEF Put, NotifyAndReturn, Waiting
<1>5. ASSUME NEW c \in Consumer, TakeWaits(c) PROVE TypeOK'
  BY <1>5 DEF TakeWaits
<1>6. ASSUME NEW c \in Consumer, Take(c) PROVE TypeOK'
  BY <1>6 DEF Take, NotifyAndReturn, Waiting
<1> QED
  BY <1>1, <1>2, <1>3, <1>4, <1>5, <1>6 DEF Next, ProducerStep, ConsumerStep

\* The queue never holds more than its capacity, and threads are idle, awake or waiting.
THEOREM QueueTypeCorrect == Spec => []TypeOK
<1>1. Init => TypeOK
  BY CapacityAssumption DEF Init, TypeOK
<1> QED
  BY <1>1, QueueTypeStep, PTL DEF Spec

-----------------------------------------------------------------------------
(* How one step changes the number of awake threads on one side.            *)

\* The number is a natural number.
LEMMA AwakeFinite ==
    ASSUME NEW S, IsFiniteSet(S)
    PROVE  IsFiniteSet(Awake(S)) /\ Cardinality(Awake(S)) \in Nat
           /\ IsFiniteSet(Awake(S)') /\ Cardinality(Awake(S)') \in Nat
<1>1. IsFiniteSet(Awake(S)) /\ IsFiniteSet(Awake(S)')
  BY FS_Subset DEF Awake
<1> QED
  BY <1>1, FS_CardinalityType

\* A thread that wakes up or calls makes it one more, or more.
LEMMA OneMoreAwake ==
    ASSUME NEW S, IsFiniteSet(S), NEW t, t \notin Awake(S), Awake(S)' = Awake(S) \union {t}
    PROVE  Cardinality(Awake(S)') = Cardinality(Awake(S)) + 1
  BY AwakeFinite, FS_AddElement

\* A thread that returns makes it one less.
LEMMA OneLessAwake ==
    ASSUME NEW S, IsFiniteSet(S), NEW t, t \in Awake(S), Awake(S)' = Awake(S) \ {t}
    PROVE  Cardinality(Awake(S)') = Cardinality(Awake(S)) - 1
  BY AwakeFinite, FS_RemoveElement

\* Call and SpuriousWakeUp on one side S: no fewer are awake, no more wait.
LEMMA WakingKeeps ==
    ASSUME TypeOK, NEW S, S \subseteq Thread, IsFiniteSet(S), NEW t \in Thread,
           Call(t) \/ SpuriousWakeUp(t)
    PROVE  /\ Waiting(S)' \subseteq Waiting(S)
           /\ Cardinality(Awake(S)') >= Cardinality(Awake(S))
           /\ m_Queue' = m_Queue
<1>1. Waiting(S)' \subseteq Waiting(S) /\ Awake(S) \subseteq Awake(S)'
  BY DEF Call, SpuriousWakeUp, Waiting, Awake, TypeOK
<1> QED
  BY <1>1, AwakeFinite, FS_Subset DEF Call, SpuriousWakeUp

\* A return on the other side that finds nobody of S waiting leaves S alone; one
\* that finds somebody makes one more of S awake.
LEMMA NotifyWakesOne ==
    ASSUME TypeOK, NEW S, S \subseteq Thread, IsFiniteSet(S), NEW t \in Thread \ S,
           NotifyAndReturn(t, S)
    PROVE  \/ Waiting(S)' = {}
           \/ Cardinality(Awake(S)') = Cardinality(Awake(S)) + 1
<1>1. CASE Waiting(S) = {}
  BY <1>1 DEF NotifyAndReturn, Waiting, TypeOK
<1>2. CASE Waiting(S) # {}
  <2>1. PICK u \in Waiting(S) : at' = [at EXCEPT ![t] = "idle", ![u] = "call"]
    BY <1>2 DEF NotifyAndReturn
  <2>2. u \notin Awake(S) /\ Awake(S)' = Awake(S) \union {u}
    BY <2>1 DEF Waiting, Awake, TypeOK
  <2> QED
    BY <2>2, OneMoreAwake
<1> QED
  BY <1>1, <1>2

\* A return of a thread of S itself makes one less of S awake.
LEMMA ReturnLeavesOneLess ==
    ASSUME TypeOK, NEW S, NEW U, S \subseteq Thread, U \subseteq Thread, S \intersect U = {},
           IsFiniteSet(S), NEW t \in S, at[t] = "call", NotifyAndReturn(t, U)
    PROVE  /\ Waiting(S)' = Waiting(S)
           /\ Cardinality(Awake(S)') = Cardinality(Awake(S)) - 1
<1>1. \A s \in S : at'[s] = IF s = t THEN "idle" ELSE at[s]
  BY DEF NotifyAndReturn, Waiting, TypeOK
<1>2. Waiting(S)' = Waiting(S) /\ t \in Awake(S) /\ Awake(S)' = Awake(S) \ {t}
  BY <1>1 DEF Waiting, Awake
<1> QED
  BY <1>2, OneLessAwake

-----------------------------------------------------------------------------

\* No consumer sleeps on an item, for any number of threads and any capacity: a
\* single Notify per Put is enough.
THEOREM ConsumersNeverSleepOnItems == Spec => []NoConsumerSleepsOnItem
<1>1. Init => NoConsumerSleepsOnItem
  BY DEF Init, NoConsumerSleepsOnItem, Waiting
<1>2. TypeOK /\ NoConsumerSleepsOnItem /\ [Next]_vars => NoConsumerSleepsOnItem'
  <2> SUFFICES ASSUME TypeOK, NoConsumerSleepsOnItem, [Next]_vars
               PROVE  NoConsumerSleepsOnItem'
    OBVIOUS
  <2>0. /\ Cardinality(Awake(Consumer)) \in Nat /\ Cardinality(Awake(Consumer)') \in Nat
        /\ Len(m_Queue) \in Nat
    BY AwakeFinite, ThreadsAssumption DEF TypeOK
  <2>1. CASE UNCHANGED vars
    BY <2>1 DEF vars, NoConsumerSleepsOnItem, Waiting, Awake
  <2>2. ASSUME NEW t \in Thread, Call(t) \/ SpuriousWakeUp(t)
        PROVE  NoConsumerSleepsOnItem'
    <3>1. /\ Waiting(Consumer)' \subseteq Waiting(Consumer)
          /\ Cardinality(Awake(Consumer)') >= Cardinality(Awake(Consumer))
          /\ m_Queue' = m_Queue
      BY <2>2, WakingKeeps, ThreadsAssumption
    <3> QED
      BY <2>0, <3>1 DEF NoConsumerSleepsOnItem
  <2>3. ASSUME NEW p \in Producer, PutWaits(p) PROVE NoConsumerSleepsOnItem'
    <3>1. Waiting(Consumer)' = Waiting(Consumer) /\ Awake(Consumer)' = Awake(Consumer)
      BY <2>3, ThreadsAssumption DEF PutWaits, Waiting, Awake, TypeOK
    <3> QED
      BY <2>3, <3>1 DEF PutWaits, NoConsumerSleepsOnItem
  <2>4. ASSUME NEW p \in Producer, NEW item \in Item, Put(p, item)
        PROVE  NoConsumerSleepsOnItem'
    <3>1. \/ Waiting(Consumer)' = {}
          \/ Cardinality(Awake(Consumer)') = Cardinality(Awake(Consumer)) + 1
      BY <2>4, NotifyWakesOne, ThreadsAssumption DEF Put
    <3>2. Len(m_Queue') = Len(m_Queue) + 1
      BY <2>4 DEF Put, TypeOK
    <3>3. Waiting(Consumer)' # {} => Waiting(Consumer) # {}
      BY <2>4, ThreadsAssumption DEF Put, NotifyAndReturn, Waiting, TypeOK
    <3> QED
      BY <2>0, <3>1, <3>2, <3>3 DEF NoConsumerSleepsOnItem
  <2>5. ASSUME NEW c \in Consumer, TakeWaits(c) PROVE NoConsumerSleepsOnItem'
    <3>1. Len(m_Queue') = 0
      BY <2>5 DEF TakeWaits, Empty
    <3> QED
      BY <2>0, <3>1 DEF NoConsumerSleepsOnItem
  <2>6. ASSUME NEW c \in Consumer, Take(c) PROVE NoConsumerSleepsOnItem'
    <3>1. /\ Waiting(Consumer)' = Waiting(Consumer)
          /\ Cardinality(Awake(Consumer)') = Cardinality(Awake(Consumer)) - 1
      BY <2>6, ReturnLeavesOneLess, ThreadsAssumption DEF Take
    <3>2. Len(m_Queue') = Len(m_Queue) - 1
      BY <2>6 DEF Take, Empty, TypeOK
    <3> QED
      BY <2>0, <3>1, <3>2 DEF NoConsumerSleepsOnItem
  <2> QED
    BY <2>1, <2>2, <2>3, <2>4, <2>5, <2>6 DEF Next, ProducerStep, ConsumerStep
<1> QED
  BY <1>1, <1>2, QueueTypeCorrect, PTL DEF Spec

\* No producer sleeps on room, for any number of threads and any capacity: a
\* single Notify per Take is enough.
THEOREM ProducersNeverSleepOnRoom == Spec => []NoProducerSleepsOnRoom
<1>1. Init => NoProducerSleepsOnRoom
  BY DEF Init, NoProducerSleepsOnRoom, Waiting
<1>2. TypeOK /\ NoProducerSleepsOnRoom /\ [Next]_vars => NoProducerSleepsOnRoom'
  <2> SUFFICES ASSUME TypeOK, NoProducerSleepsOnRoom, [Next]_vars
               PROVE  NoProducerSleepsOnRoom'
    OBVIOUS
  <2>0. /\ Cardinality(Awake(Producer)) \in Nat /\ Cardinality(Awake(Producer)') \in Nat
        /\ Len(m_Queue) \in Nat /\ Capacity \in Nat
    BY AwakeFinite, ThreadsAssumption, CapacityAssumption DEF TypeOK
  <2>1. CASE UNCHANGED vars
    BY <2>1 DEF vars, NoProducerSleepsOnRoom, Waiting, Awake
  <2>2. ASSUME NEW t \in Thread, Call(t) \/ SpuriousWakeUp(t)
        PROVE  NoProducerSleepsOnRoom'
    <3>1. /\ Waiting(Producer)' \subseteq Waiting(Producer)
          /\ Cardinality(Awake(Producer)') >= Cardinality(Awake(Producer))
          /\ m_Queue' = m_Queue
      BY <2>2, WakingKeeps, ThreadsAssumption
    <3> QED
      BY <2>0, <3>1 DEF NoProducerSleepsOnRoom
  <2>3. ASSUME NEW c \in Consumer, TakeWaits(c) PROVE NoProducerSleepsOnRoom'
    <3>1. Waiting(Producer)' = Waiting(Producer) /\ Awake(Producer)' = Awake(Producer)
      BY <2>3, ThreadsAssumption DEF TakeWaits, Waiting, Awake, TypeOK
    <3> QED
      BY <2>3, <3>1 DEF TakeWaits, NoProducerSleepsOnRoom
  <2>4. ASSUME NEW c \in Consumer, Take(c)
        PROVE  NoProducerSleepsOnRoom'
    <3>1. \/ Waiting(Producer)' = {}
          \/ Cardinality(Awake(Producer)') = Cardinality(Awake(Producer)) + 1
      BY <2>4, NotifyWakesOne, ThreadsAssumption DEF Take
    <3>2. Len(m_Queue') = Len(m_Queue) - 1
      BY <2>4 DEF Take, Empty, TypeOK
    <3>3. Waiting(Producer)' # {} => Waiting(Producer) # {}
      BY <2>4, ThreadsAssumption DEF Take, NotifyAndReturn, Waiting, TypeOK
    <3> QED
      BY <2>0, <3>1, <3>2, <3>3 DEF NoProducerSleepsOnRoom
  <2>5. ASSUME NEW p \in Producer, PutWaits(p) PROVE NoProducerSleepsOnRoom'
    <3>1. Len(m_Queue') = Capacity
      BY <2>5 DEF PutWaits, Full
    <3> QED
      BY <2>0, <3>1 DEF NoProducerSleepsOnRoom
  <2>6. ASSUME NEW p \in Producer, NEW item \in Item, Put(p, item)
        PROVE  NoProducerSleepsOnRoom'
    <3>1. /\ Waiting(Producer)' = Waiting(Producer)
          /\ Cardinality(Awake(Producer)') = Cardinality(Awake(Producer)) - 1
      BY <2>6, ReturnLeavesOneLess, ThreadsAssumption DEF Put
    <3>2. Len(m_Queue') = Len(m_Queue) + 1
      BY <2>6 DEF Put, TypeOK
    <3> QED
      BY <2>0, <3>1, <3>2 DEF NoProducerSleepsOnRoom
  <2> QED
    BY <2>1, <2>2, <2>3, <2>4, <2>5, <2>6 DEF Next, ProducerStep, ConsumerStep
<1> QED
  BY <1>1, <1>2, QueueTypeCorrect, PTL DEF Spec

\* Both sides, for any number of producers and consumers and any capacity.
THEOREM NobodyEverSleepsInVain == Spec => []NobodySleepsInVain
<1>1. NoConsumerSleepsOnItem /\ NoProducerSleepsOnRoom => NobodySleepsInVain
  BY DEF NobodySleepsInVain
<1> QED
  BY <1>1, ConsumersNeverSleepOnItems, ProducersNeverSleepOnRoom, PTL

-----------------------------------------------------------------------------
(* The logger                                                               *)

\* The logger's steps are the queue's: it changes the queue by Put and Take only.
LEMMA LoggerStepsAreQueueSteps == LineTypeOK /\ [LoggerNext]_allVars => [Next]_vars
<1> SUFFICES ASSUME LineTypeOK, [LoggerNext]_allVars PROVE [Next]_vars
  OBVIOUS
<1> USE LoggerAssumption
<1>1. ASSUME NEW t \in Thread, Call(t) \/ SpuriousWakeUp(t) PROVE Next
  BY <1>1 DEF Next
<1>2. CASE UNCHANGED allVars \/ Start \/ Stop \/ Destroy \/ LatchWait \/ StopJoin \/ CountDown \/ HandleMsg
  BY <1>2 DEF allVars, Start, Stop, Destroy, LatchWait, StopJoin, CountDown, HandleMsg
<1>3. CASE StopPut \/ TakeCall
  BY <1>1, <1>3 DEF StopPut, TakeCall
<1>4. CASE TakeMsg
  BY <1>4 DEF TakeMsg, Next, ConsumerStep
<1>5. ASSUME NEW p \in Producer, PutLine(p) PROVE Next
  BY <1>5 DEF PutLine, Next, ProducerStep, LineTypeOK
<1>6. ASSUME NEW p \in Producer, NEW l \in Line, AppendLine(p, l) PROVE Next
  BY <1>1, <1>6 DEF AppendLine
<1>7. ASSUME NEW t \in Thread, WakesUp(t) PROVE Next
  BY <1>1, <1>7 DEF WakesUp
<1> QED
  BY <1>2, <1>3, <1>4, <1>5, <1>6, <1>7 DEF LoggerNext, ThreadStep, OwnerStep

\* What threads append, what Stop puts and what threadFunc takes are lines.
LEMMA LineTypeStep == TypeOK /\ LineTypeOK /\ [LoggerNext]_allVars => LineTypeOK'
<1> SUFFICES ASSUME TypeOK, LineTypeOK, [LoggerNext]_allVars PROVE LineTypeOK'
  OBVIOUS
<1> USE LoggerAssumption DEF LineTypeOK
<1>1. CASE UNCHANGED allVars \/ Start \/ Stop \/ Destroy \/ LatchWait \/ StopJoin \/ CountDown
  BY <1>1 DEF allVars, localVars, Start, Stop, Destroy, LatchWait, StopJoin, CountDown
<1>2. CASE StopPut \/ TakeCall
  BY <1>2 DEF StopPut, TakeCall
<1>3. CASE TakeMsg
  BY <1>3 DEF TakeMsg, Take, TakeWaits, TypeOK, Empty
<1>4. CASE HandleMsg
  BY <1>4 DEF HandleMsg
<1>5. ASSUME NEW p \in Producer, PutLine(p) PROVE LineTypeOK'
  BY <1>5 DEF PutLine, localVars
<1>6. ASSUME NEW p \in Producer, NEW l \in Line, AppendLine(p, l) PROVE LineTypeOK'
  BY <1>6 DEF AppendLine, Line
<1>7. ASSUME NEW t \in Thread, WakesUp(t) PROVE LineTypeOK'
  BY <1>7 DEF WakesUp, localVars
<1> QED
  BY <1>1, <1>2, <1>3, <1>4, <1>5, <1>6, <1>7 DEF LoggerNext, ThreadStep, OwnerStep

\* No step loses, doubles or overtakes a line.
LEMMA LinesKeptStep == TypeOK /\ LineTypeOK /\ LinesKept /\ [LoggerNext]_allVars => LinesKept'
<1> SUFFICES ASSUME TypeOK, LineTypeOK, LinesKept, [LoggerNext]_allVars PROVE LinesKept'
  OBVIOUS
<1> USE LoggerAssumption DEF LineTypeOK, TypeOK, LinesKept, Held
<1>1. ASSUME UNCHANGED <<m_Queue, msg, output, accepted>>,
             threadAt' = threadAt \/ {threadAt, threadAt'} \intersect {"msg", "ended"} = {}
      PROVE  LinesKept'
  BY <1>1
<1>2. CASE UNCHANGED allVars \/ Start \/ Stop \/ Destroy \/ LatchWait \/ StopJoin \/ CountDown
  BY <1>1, <1>2 DEF allVars, vars, localVars, Start, Stop, Destroy, LatchWait, StopJoin, CountDown
<1>3. CASE StopPut \/ TakeCall
  BY <1>1, <1>3 DEF StopPut, TakeCall, Call
<1>4. CASE TakeMsg
  <2>1. CASE UNCHANGED <<msg, threadAt>>
    BY <1>1, <1>4, <2>1 DEF TakeMsg, Take, TakeWaits
  <2>2. CASE Take(Logger) /\ msg' = Head(m_Queue) /\ threadAt' = "msg"
    <3>1. /\ Len(m_Queue) >= 1 /\ msg' = m_Queue[1] /\ Len(m_Queue') = Len(m_Queue) - 1
          /\ \A i \in 1..Len(m_Queue') : m_Queue'[i] = m_Queue[i + 1]
      BY <2>2 DEF Take, Empty
    <3>2. threadAt = "take" /\ UNCHANGED <<output, accepted>>
      BY <1>4 DEF TakeMsg
    <3>3. Held = 0 /\ Held' = 1
      BY <2>2, <3>2
    <3>4. \A i \in 1..Len(m_Queue') : accepted[Len(output) + 1 + i] = m_Queue'[i]
      <4> SUFFICES ASSUME NEW i \in 1..Len(m_Queue')
                   PROVE  accepted[Len(output) + 1 + i] = m_Queue'[i]
        OBVIOUS
      <4>1. i + 1 \in 1..Len(m_Queue) /\ Len(output) + 0 + (i + 1) = Len(output) + 1 + i
        BY <3>1
      <4> QED
        BY <3>1, <3>3, <4>1
    <3> HIDE DEF Held
    <3>5. Len(accepted) = Len(output) + 1 + Len(m_Queue')
      <4>1. Len(accepted) = Len(output) + Len(m_Queue)
        BY <3>3
      <4> HIDE DEF LinesKept
      <4> QED
        BY <3>1, <4>1
    <3>6. accepted[Len(output) + 1] = msg'
      BY <3>1, <3>3
    <3> QED
      BY <2>2, <3>2, <3>3, <3>4, <3>5, <3>6
  <2> QED
    BY <1>4, <2>1, <2>2 DEF TakeMsg
<1>5. CASE HandleMsg
  <2>1. threadAt = "msg" /\ UNCHANGED <<m_Queue, msg, accepted>>
    BY <1>5 DEF HandleMsg, vars
  <2>2. CASE msg = EmptyLine
    BY <1>5, <2>1, <2>2 DEF HandleMsg
  <2>3. CASE msg # EmptyLine
    <3>1. output' = Append(output, msg) /\ threadAt' = "loop"
      BY <1>5, <2>3 DEF HandleMsg
    <3>2. Held = 1 /\ Held' = 0 /\ Len(output') = Len(output) + 1
      BY <2>1, <3>1
    <3>3. \A i \in 1..Len(output') : accepted'[i] = output'[i]
      BY <2>1, <3>1, <3>2
    <3> HIDE DEF Held
    <3> QED
      BY <2>1, <3>1, <3>2, <3>3
  <2> QED
    BY <2>2, <2>3
<1>6. ASSUME NEW p \in Producer, PutLine(p) PROVE LinesKept'
  <2>1. CASE UNCHANGED accepted /\ PutWaits(p)
    BY <1>1, <1>6, <2>1 DEF PutLine, PutWaits, localVars
  <2>2. CASE Put(p, line[p]) /\ accepted' = Append(accepted, line[p])
    <3>1. m_Queue' = Append(m_Queue, line[p]) /\ UNCHANGED <<threadAt, msg, output>>
      BY <1>6, <2>2 DEF PutLine, Put, localVars
    <3>2. /\ Len(m_Queue') = Len(m_Queue) + 1 /\ Len(accepted') = Len(accepted) + 1
          /\ \A i \in 1..Len(m_Queue) : m_Queue'[i] = m_Queue[i]
          /\ \A i \in 1..Len(accepted) : accepted'[i] = accepted[i]
          /\ m_Queue'[Len(m_Queue) + 1] = accepted'[Len(accepted) + 1]
      BY <2>2, <3>1
    <3>3. Held' = Held /\ Held \in {0, 1}
      BY <3>1
    <3> HIDE DEF Held
    <3>4. \A i \in 1..Len(m_Queue') : accepted'[Len(output) + Held + i] = m_Queue'[i]
      <4> SUFFICES ASSUME NEW i \in 1..Len(m_Queue')
                   PROVE  accepted'[Len(output) + Held + i] = m_Queue'[i]
        OBVIOUS
      <4>1. CASE i \in 1..Len(m_Queue)
        <5>1. Len(output) + Held + i \in 1..Len(accepted)
          BY <3>3, <4>1
        <5> QED
          BY <3>2, <4>1, <5>1
      <4>2. CASE i = Len(m_Queue) + 1
        <5>1. Len(output) + Held + i = Len(accepted) + 1
          BY <3>3, <4>2
        <5> QED
          BY <3>2, <4>2, <5>1
      <4> QED
        BY <3>2, <4>1, <4>2
    <3>5. \A i \in 1..Len(output) : accepted'[i] = output[i]
      BY <3>2, <3>3
    <3>6. Held = 1 => accepted'[Len(output) + 1] = msg
      BY <3>2, <3>3
    <3> QED
      BY <3>1, <3>2, <3>3, <3>4, <3>5, <3>6
  <2> QED
    BY <1>6, <2>1, <2>2 DEF PutLine
<1>7. ASSUME NEW p \in Producer, NEW l \in Line, AppendLine(p, l) PROVE LinesKept'
  BY <1>1, <1>7 DEF AppendLine, Call
<1>8. ASSUME NEW t \in Thread, WakesUp(t) PROVE LinesKept'
  BY <1>1, <1>8 DEF WakesUp, SpuriousWakeUp, localVars
<1> QED
  BY <1>2, <1>3, <1>4, <1>5, <1>6, <1>7, <1>8 DEF LoggerNext, ThreadStep, OwnerStep

\* When threadFunc of the queue logger has ended, what it has written is all that was appended
\* before Stop's empty line, in order, for any number of threads and any capacity; and no
\* thread sleeps on the queue in vain.
THEOREM LoggerWritesEarlierLines == LoggerSpec => []EarlierLinesWritten /\ []NobodySleepsInVain
<1>1. LoggerInit => Init /\ TypeOK /\ LineTypeOK /\ LinesKept
  BY LoggerAssumption, CapacityAssumption
     DEF LoggerInit, Init, TypeOK, LineTypeOK, LinesKept, Held
<1>2. TypeOK /\ LineTypeOK /\ LinesKept => EarlierLinesWritten
  BY DEF TypeOK, LineTypeOK, LinesKept, Held, EarlierLinesWritten
<1>3. LoggerSpec => [](TypeOK /\ LineTypeOK /\ LinesKept)
  BY <1>1, QueueTypeStep, LoggerStepsAreQueueSteps, LineTypeStep, LinesKeptStep, PTL
     DEF LoggerSpec
<1>4. LoggerSpec => Spec
  BY <1>1, <1>3, LoggerStepsAreQueueSteps, PTL DEF LoggerSpec, Spec
<1> QED
  BY <1>2, <1>3, <1>4, NobodyEverSleepsInVain, PTL
=============================================================================
