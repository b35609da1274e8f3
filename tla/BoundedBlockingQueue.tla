------------------------ MODULE BoundedBlockingQueue ------------------------
(***************************************************************************)
(* thread/BoundedBlockingQueue over Mutex and Condition.  Put and Take hold  *)
(* m_Mutex from the test of the queue to the change of it, or to the wait,   *)
(* which releases it: each turn of their loops is one step.                  *)
(***************************************************************************)
EXTENDS Naturals, Sequences, FiniteSets

CONSTANTS Producer, Consumer, Item,
          Capacity      \* nMaxSize

ASSUME ThreadsAssumption ==
    /\ IsFiniteSet(Producer) /\ IsFiniteSet(Consumer)
    /\ Producer \intersect Consumer = {}
ASSUME CapacityAssumption == Capacity \in Nat \ {0}

VARIABLES
    m_Queue,
    at              \* "idle", "call" (inside Put or Take, awake) or "wait"

vars == <<m_Queue, at>>

Thread == Producer \union Consumer

\* Waiting producers wait on m_NoeFullCond, waiting consumers on m_NotEmptyCond.
Waiting(S) == {t \in S : at[t] = "wait"}
Awake(S) == {t \in S : at[t] = "call"}

Full == Len(m_Queue) = Capacity
Empty == m_Queue = <<>>

Init ==
    /\ m_Queue = <<>>
    /\ at = [t \in Thread |-> "idle"]

\* A thread calls Put or Take.
Call(t) ==
    /\ at[t] = "idle"
    /\ at' = [at EXCEPT ![t] = "call"]
    /\ UNCHANGED m_Queue

\* Notify() of the condition the threads S wait on, and the return of thread t.
NotifyAndReturn(t, S) ==
    IF Waiting(S) = {} THEN at' = [at EXCEPT ![t] = "idle"]
    ELSE \E s \in Waiting(S) : at' = [at EXCEPT ![t] = "idle", ![s] = "call"]

\* Mutant: nobody is notified.
PutSilently(p, item) ==
    /\ at[p] = "call"
    /\ ~Full
    /\ m_Queue' = Append(m_Queue, item)
    /\ at' = [at EXCEPT ![p] = "idle"]

Put(p, item) ==
    /\ at[p] = "call"
    /\ ~Full
    /\ m_Queue' = Append(m_Queue, item)
    /\ NotifyAndReturn(p, Consumer)

PutWaits(p) ==
    /\ at[p] = "call"
    /\ Full
    /\ at' = [at EXCEPT ![p] = "wait"]
    /\ UNCHANGED m_Queue

\* Mutant: Take notifies m_NotEmptyCond.
TakeNotifyConsumer(c) ==
    /\ at[c] = "call"
    /\ ~Empty
    /\ m_Queue' = Tail(m_Queue)
    /\ NotifyAndReturn(c, Consumer)

Take(c) ==
    /\ at[c] = "call"
    /\ ~Empty
    /\ m_Queue' = Tail(m_Queue)
    /\ NotifyAndReturn(c, Producer)

TakeWaits(c) ==
    /\ at[c] = "call"
    /\ Empty
    /\ at' = [at EXCEPT ![c] = "wait"]
    /\ UNCHANGED m_Queue

\* POSIX allows a wait to return without a notification.
SpuriousWakeUp(t) ==
    /\ at[t] = "wait"
    /\ at' = [at EXCEPT ![t] = "call"]
    /\ UNCHANGED m_Queue

ProducerStep(p) == PutWaits(p) \/ \E item \in Item : Put(p, item)
ConsumerStep(c) == TakeWaits(c) \/ Take(c)

Next ==
    \/ \E t \in Thread : Call(t) \/ SpuriousWakeUp(t)
    \/ \E p \in Producer : ProducerStep(p)
    \/ \E c \in Consumer : ConsumerStep(c)

Spec == Init /\ [][Next]_vars

-----------------------------------------------------------------------------

\* The capacity is part of the type: Put's assertion that the queue is not full.
TypeOK ==
    /\ m_Queue \in Seq(Item) /\ Len(m_Queue) <= Capacity
    /\ at \in [Thread -> {"idle", "call", "wait"}]

\* No consumer sleeps on an item: while one waits on m_NotEmptyCond, each item has
\* a consumer of its own that is awake to take it (Put notifies for every item).
NoConsumerSleepsOnItem ==
    Waiting(Consumer) # {} => Len(m_Queue) <= Cardinality(Awake(Consumer))

\* No producer sleeps on room: while one waits on m_NoeFullCond, each free place has
\* a producer of its own that is awake to fill it (Take notifies for every place).
NoProducerSleepsOnRoom ==
    Waiting(Producer) # {} => Capacity - Len(m_Queue) <= Cardinality(Awake(Producer))

\* One Notify for each Put and Take is enough: no thread sleeps on either condition on what
\* another thread has already provided.
NobodySleepsInVain == NoConsumerSleepsOnItem /\ NoProducerSleepsOnRoom
=============================================================================
