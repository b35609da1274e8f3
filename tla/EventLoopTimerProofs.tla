------------------------ MODULE EventLoopTimerProofs ------------------------
(***************************************************************************)
(* Proofs about EventLoop for any set of threads and functors and any limit *)
(* of the eventfd counter: type correctness, no lost wake-up, and the        *)
(* refinement of SerialExecutor; that all of it holds of the loop of an      *)
(* EventLoopThread; and about the TimerQueue of a loop for any set of        *)
(* addresses, delays and intervals and any bounds.                          *)
(***************************************************************************)
EXTENDS EventLoopThread, TimerQueue, WellFoundedInduction, TLAPS

-----------------------------------------------------------------------------
(* The loop                                                                 *)

USE DEF AnyThread, LoopPlace

\* A read leaves an eventfd counter that is in range.
LEMMA EventFdZero == 0 \in 0..EventFdMax
  BY EventFdMaxAssumption

\* A swapped vector is a vector of functors.
LEMMA EmptyVector == <<>> \in Seq(Functor)
  OBVIOUS

\* The type invariant is inductive: no operation of the loop thread or of a
\* caller takes a flag, a vector or the eventfd counter out of its range.
THEOREM LoopTypeCorrect == LoopSpec => []LoopTypeOK
<1>1. LoopInit => LoopTypeOK
  <2> SUFFICES ASSUME LoopInit PROVE LoopTypeOK
    OBVIOUS
  <2> USE DEF LoopInit
  <2>1. wakeUpFd \in 0..EventFdMax
    BY EventFdZero
  <2>2. caller \in [AnyThread -> {"idle", "wake"}]
    OBVIOUS
  <2> QED
    BY <2>1, <2>2, EmptyVector DEF LoopTypeOK
<1>2. LoopTypeOK /\ [LoopNext]_loopVars => LoopTypeOK'
  <2> SUFFICES ASSUME LoopTypeOK, [LoopNext]_loopVars
               PROVE  LoopTypeOK'
    OBVIOUS
  <2> USE DEF LoopTypeOK
  <2>1. CASE UNCHANGED loopVars
    BY <2>1 DEF loopVars
  <2>2. CASE LoopEnter \/ LoopLeave \/ LoopAgain
    BY <2>2 DEF LoopEnter, LoopLeave, LoopAgain
  <2>3. CASE PollWake \/ PollOther
    <3>1. PICK wake \in BOOLEAN : PollReturns(wake)
      BY <2>3 DEF PollWake, PollOther
    <3> QED
      BY <3>1 DEF PollReturns
  <2>4. CASE handleRead
    <3>1. wakeUpFd' \in 0..EventFdMax
      BY <2>4, EventFdZero DEF handleRead
    <3> QED
      BY <2>4, <3>1 DEF handleRead
  <2>5. CASE BeginFunctors \/ SwapFunctors \/ FunctorReturns \/ EndFunctors
    BY <2>5, EmptyVector DEF BeginFunctors, SwapFunctors, FunctorReturns, EndFunctors
  <2>6. CASE CallFunctor
    BY <2>6 DEF CallFunctor
  <2>7. ASSUME NEW f \in Functor, RunInLoopDirectly(f)
        PROVE  LoopTypeOK'
    BY <2>7 DEF RunInLoopDirectly
  <2>8. ASSUME NEW t \in AnyThread, NEW f \in Functor, QueueInLoop(t, f)
        PROVE  LoopTypeOK'
    BY <2>8 DEF QueueInLoop
  <2>9. ASSUME NEW t \in AnyThread, Quit(t)
        PROVE  LoopTypeOK'
    BY <2>9 DEF Quit
  <2>10. ASSUME NEW t \in AnyThread, WakeUp(t)
         PROVE  LoopTypeOK'
    BY <2>10, EventFdMaxAssumption DEF WakeUp, EventFdWrite
  <2> QED
    BY <2>1, <2>2, <2>3, <2>4, <2>5, <2>6, <2>7, <2>8, <2>9, <2>10
       DEF LoopNext, LoopStep, Call
<1> QED
  BY <1>1, <1>2, PTL DEF LoopSpec

-----------------------------------------------------------------------------

\* The loop thread's place and its flags, batch and calls stay in step.
LEMMA PlaceInvStep ==
    LoopTypeOK /\ PlaceInv /\ [LoopNext]_loopVars => PlaceInv'
<1> SUFFICES ASSUME LoopTypeOK, PlaceInv, [LoopNext]_loopVars
             PROVE  PlaceInv'
  OBVIOUS
<1> USE DEF LoopTypeOK, PlaceInv
<1>1. CASE UNCHANGED loopVars
  BY <1>1 DEF loopVars
<1>2. CASE LoopEnter \/ LoopLeave \/ LoopAgain
  BY <1>2 DEF LoopEnter, LoopLeave, LoopAgain
<1>3. CASE PollWake \/ PollOther
  BY <1>3 DEF PollWake, PollOther, PollReturns
<1>4. CASE handleRead
  BY <1>4 DEF handleRead
<1>5. CASE BeginFunctors \/ SwapFunctors
  BY <1>5 DEF BeginFunctors, SwapFunctors
<1>6. CASE FunctorReturns \/ EndFunctors \/ CallFunctor
  BY <1>6 DEF FunctorReturns, EndFunctors, CallFunctor
<1>7. ASSUME NEW f \in Functor, RunInLoopDirectly(f)
      PROVE  PlaceInv'
  BY <1>7 DEF RunInLoopDirectly
<1>8. ASSUME NEW t \in AnyThread, NEW f \in Functor, QueueInLoop(t, f)
      PROVE  PlaceInv'
  BY <1>8 DEF QueueInLoop, NeedsWakeUp, CanCall
<1>9. ASSUME NEW t \in AnyThread, Quit(t)
      PROVE  PlaceInv'
  BY <1>9 DEF Quit, CanCall
<1>10. ASSUME NEW t \in AnyThread, WakeUp(t)
       PROVE  PlaceInv'
  BY <1>10 DEF WakeUp
<1> QED
  BY <1>1, <1>2, <1>3, <1>4, <1>5, <1>6, <1>7, <1>8, <1>9, <1>10
     DEF LoopNext, LoopStep, Call

\* push_back adds one member.
LEMMA MembersAppend ==
    ASSUME NEW S, NEW s \in Seq(S), NEW e \in S
    PROVE  Members(Append(s, e)) = Members(s) \union {e}
  BY DEF Members

\* A pending functor keeps its wake-up, whichever operation comes next.
LEMMA PendingWakeUpStep ==
    LoopTypeOK /\ PlaceInv /\ PendingWakeUpInv /\ [LoopNext]_loopVars => PendingWakeUpInv'
<1> SUFFICES ASSUME LoopTypeOK, PlaceInv, PendingWakeUpInv, [LoopNext]_loopVars
             PROVE  PendingWakeUpInv'
  OBVIOUS
<1> USE DEF PendingWakeUpInv
<1>1. CASE UNCHANGED loopVars
  BY <1>1 DEF loopVars, WakeUpComing, Members
<1>2. CASE LoopEnter \/ LoopLeave \/ LoopAgain
  BY <1>2 DEF LoopEnter, LoopLeave, LoopAgain, WakeUpComing, Members
<1>3. CASE PollWake \/ PollOther \/ handleRead \/ BeginFunctors
  BY <1>3 DEF PollWake, PollOther, PollReturns, handleRead, BeginFunctors
<1>4. CASE SwapFunctors
  <2>1. Members(m_vPendingFunctors') = {}
    BY <1>4 DEF SwapFunctors, Members
  <2> QED
    BY <2>1
<1>5. CASE FunctorReturns \/ EndFunctors \/ CallFunctor
  BY <1>5 DEF FunctorReturns, EndFunctors, CallFunctor, WakeUpComing, Members
<1>6. ASSUME NEW f \in Functor, RunInLoopDirectly(f)
      PROVE  PendingWakeUpInv'
  BY <1>6 DEF RunInLoopDirectly, WakeUpComing, Members
<1>7. ASSUME NEW t \in AnyThread, NEW f \in Functor, QueueInLoop(t, f)
      PROVE  PendingWakeUpInv'
  <2>1. CASE NeedsWakeUp(t)
    <3>1. caller'[t] = "wake"
      BY <1>7, <2>1 DEF QueueInLoop, LoopTypeOK
    <3> QED
      BY <3>1 DEF WakeUpComing
  <2>2. CASE ~NeedsWakeUp(t)
    <3>1. t = LoopThread /\ loopAt \in {"out", "handle"}
      BY <1>7, <2>2 DEF QueueInLoop, NeedsWakeUp, CanCall, PlaceInv
    <3>2. WakeUpComing' = WakeUpComing /\ loopAt' = loopAt
      BY <1>7, <2>2 DEF QueueInLoop, WakeUpComing
    <3>3. Members(m_vPendingFunctors') = Members(m_vPendingFunctors) \union {f}
      BY <1>7, MembersAppend DEF QueueInLoop, LoopTypeOK
    <3>4. loopAt = "out" => silent' = silent \union {f}
      BY <1>7, <3>1 DEF QueueInLoop
    <3> QED
      BY <3>1, <3>2, <3>3, <3>4
  <2> QED
    BY <2>1, <2>2
<1>8. ASSUME NEW t \in AnyThread, Quit(t)
      PROVE  PendingWakeUpInv'
  BY <1>8 DEF Quit, LoopTypeOK, WakeUpComing, Members
<1>9. ASSUME NEW t \in AnyThread, WakeUp(t)
      PROVE  PendingWakeUpInv'
  <2>1. wakeUpFd' > 0
    BY <1>9, EventFdMaxAssumption DEF WakeUp, EventFdWrite, LoopTypeOK
  <2> QED
    BY <2>1 DEF WakeUpComing
<1> QED
  BY <1>1, <1>2, <1>3, <1>4, <1>5, <1>6, <1>7, <1>8, <1>9
     DEF LoopNext, LoopStep, Call

\* A Quit keeps its wake-up until the poll has returned.
LEMMA QuitWakeUpStep ==
    LoopTypeOK /\ PlaceInv /\ QuitWakeUpInv /\ [LoopNext]_loopVars => QuitWakeUpInv'
<1> SUFFICES ASSUME LoopTypeOK, PlaceInv, QuitWakeUpInv, [LoopNext]_loopVars
             PROVE  QuitWakeUpInv'
  OBVIOUS
<1> USE DEF QuitWakeUpInv
<1>1. CASE UNCHANGED loopVars
  BY <1>1 DEF loopVars, WakeUpComing
<1>2. CASE LoopEnter \/ LoopLeave \/ LoopAgain
  BY <1>2 DEF LoopEnter, LoopLeave, LoopAgain
<1>3. CASE PollWake \/ PollOther \/ handleRead
  BY <1>3 DEF PollWake, PollOther, PollReturns, handleRead
<1>4. CASE BeginFunctors \/ SwapFunctors \/ FunctorReturns \/ EndFunctors \/ CallFunctor
  BY <1>4 DEF BeginFunctors, SwapFunctors, FunctorReturns, EndFunctors, CallFunctor
<1>5. ASSUME NEW f \in Functor, RunInLoopDirectly(f)
      PROVE  QuitWakeUpInv'
  BY <1>5 DEF RunInLoopDirectly, CanCall
<1>6. ASSUME NEW t \in AnyThread, NEW f \in Functor, QueueInLoop(t, f)
      PROVE  QuitWakeUpInv'
  BY <1>6 DEF QueueInLoop, LoopTypeOK, WakeUpComing
<1>7. ASSUME NEW t \in AnyThread, Quit(t)
      PROVE  QuitWakeUpInv'
  BY <1>7 DEF Quit, CanCall, LoopTypeOK, WakeUpComing
<1>8. ASSUME NEW t \in AnyThread, WakeUp(t)
      PROVE  QuitWakeUpInv'
  <2>1. wakeUpFd' > 0
    BY <1>8, EventFdMaxAssumption DEF WakeUp, EventFdWrite, LoopTypeOK
  <2> QED
    BY <2>1 DEF WakeUpComing
<1> QED
  BY <1>1, <1>2, <1>3, <1>4, <1>5, <1>6, <1>7, <1>8 DEF LoopNext, LoopStep, Call

\* The inductive invariant holds throughout.
THEOREM LoopInvariant == LoopSpec => []LoopInv
<1>1. LoopInit => LoopInv
  BY DEF LoopInit, LoopInv, PlaceInv, PendingWakeUpInv, QuitWakeUpInv, Members
<1>2. LoopTypeOK /\ LoopInv /\ [LoopNext]_loopVars => LoopInv'
  BY PlaceInvStep, PendingWakeUpStep, QuitWakeUpStep DEF LoopInv
<1> QED
  BY <1>1, <1>2, LoopTypeCorrect, PTL DEF LoopSpec

\* No wake-up is lost, for any number of threads and functors: EventLoop never
\* blocks in Poll on work or on a Quit it will not be woken for.
THEOREM WakeUpsAreNeverLost == LoopSpec => []NoLostWakeUp
<1>1. LoopInv => NoLostWakeUp
  BY DEF LoopInv, PendingWakeUpInv, QuitWakeUpInv, NoLostWakeUp
<1> QED
  BY <1>1, LoopInvariant, PTL

-----------------------------------------------------------------------------

\* Swapping or appending a vector keeps the members of the concatenation.
LEMMA MembersConcat ==
    ASSUME NEW S, NEW s \in Seq(S), NEW u \in Seq(S)
    PROVE  Members(s \o u) = Members(s) \union Members(u)
<1>1. \A i \in 1..Len(s) : i \in 1..Len(s \o u) /\ (s \o u)[i] = s[i]
  OBVIOUS
<1>2. \A i \in 1..Len(u) : Len(s) + i \in 1..Len(s \o u) /\ (s \o u)[Len(s) + i] = u[i]
  OBVIOUS
<1>3. \A i \in 1..Len(s \o u) :
        \/ i \in 1..Len(s) /\ (s \o u)[i] = s[i]
        \/ i - Len(s) \in 1..Len(u) /\ (s \o u)[i] = u[i - Len(s)]
  OBVIOUS
<1>4. Members(s \o u) \subseteq Members(s) \union Members(u)
  BY <1>3 DEF Members
<1>5. Members(s) \subseteq Members(s \o u)
  BY <1>1 DEF Members
<1>6. Members(u) \subseteq Members(s \o u)
  BY <1>2 DEF Members
<1> QED
  BY <1>4, <1>5, <1>6

\* A functor that EventLoop has not seen is one the serial executor has not seen.
LEMMA FreshIsFresh ==
    ASSUME LoopTypeOK, NEW f, Fresh(f)
    PROVE  Executor!Fresh(f)
<1>1. Members(m_vPendingFunctors \o vFunctors \o executed)
        = Members(m_vPendingFunctors) \union Members(vFunctors) \union Members(executed)
  <2> DEFINE waiting == m_vPendingFunctors \o vFunctors
  <2>1. waiting \in Seq(Functor)
    BY DEF LoopTypeOK
  <2>2. Members(waiting) = Members(m_vPendingFunctors) \union Members(vFunctors)
    BY MembersConcat DEF LoopTypeOK
  <2>3. Members(waiting \o executed) = Members(waiting) \union Members(executed)
    <3> HIDE DEF waiting
    <3> QED
      BY <2>1, MembersConcat DEF LoopTypeOK
  <2> QED
    BY <2>2, <2>3
<1>2. Members(vFunctors \o m_vPendingFunctors)
        = Members(vFunctors) \union Members(m_vPendingFunctors)
  BY MembersConcat DEF LoopTypeOK
<1>3. \A s : Executor!Members(s) = Members(s)
  BY DEF Executor!Members, Members
<1> QED
  BY <1>1, <1>2, <1>3 DEF Fresh, Executor!Fresh

\* Every step of EventLoop is a step of the serial executor, or leaves its queue
\* and its history alone.
LEMMA ExecutorStep ==
    LoopTypeOK /\ PlaceInv /\ [LoopNext]_loopVars => [Executor!Next]_Executor!vars
<1> SUFFICES ASSUME LoopTypeOK, PlaceInv, [LoopNext]_loopVars
             PROVE  [Executor!Next]_Executor!vars
  OBVIOUS
<1> USE DEF LoopTypeOK
<1>1. CASE UNCHANGED <<m_vPendingFunctors, vFunctors, executed>>
  BY <1>1 DEF Executor!vars
<1>2. CASE LoopEnter \/ LoopLeave \/ LoopAgain
  BY <1>1, <1>2 DEF LoopEnter, LoopLeave, LoopAgain
<1>3. CASE PollWake \/ PollOther \/ handleRead
  BY <1>1, <1>3 DEF PollWake, PollOther, PollReturns, handleRead
<1>4. CASE BeginFunctors \/ FunctorReturns \/ EndFunctors
  BY <1>1, <1>4 DEF BeginFunctors, FunctorReturns, EndFunctors
<1>5. CASE SwapFunctors
  <2>1. vFunctors = <<>>
    BY <1>5 DEF SwapFunctors, PlaceInv
  <2>2. m_vPendingFunctors \o <<>> = <<>> \o m_vPendingFunctors
    OBVIOUS
  <2> QED
    BY <1>5, <2>1, <2>2 DEF SwapFunctors, Executor!vars
<1>6. CASE CallFunctor
  <2>1. Head(vFunctors \o m_vPendingFunctors) = Head(vFunctors)
    BY <1>6 DEF CallFunctor
  <2>2. Tail(vFunctors \o m_vPendingFunctors) = Tail(vFunctors) \o m_vPendingFunctors
    BY <1>6 DEF CallFunctor
  <2>3. vFunctors \o m_vPendingFunctors # <<>>
    BY <1>6 DEF CallFunctor
  <2>4. Executor!RunOldest
    BY <1>6, <2>1, <2>2, <2>3 DEF CallFunctor, Executor!RunOldest
  <2> QED
    BY <2>4 DEF Executor!Next
<1>7. ASSUME NEW f \in Functor, RunInLoopDirectly(f)
      PROVE  [Executor!Next]_Executor!vars
  <2>1. Executor!RunDirectly(f)
    BY <1>7, FreshIsFresh DEF RunInLoopDirectly, Executor!RunDirectly
  <2> QED
    BY <2>1 DEF Executor!Next
<1>8. ASSUME NEW t \in AnyThread, NEW f \in Functor, QueueInLoop(t, f)
      PROVE  [Executor!Next]_Executor!vars
  <2>1. vFunctors \o Append(m_vPendingFunctors, f)
          = Append(vFunctors \o m_vPendingFunctors, f)
    OBVIOUS
  <2>2. Executor!Submit(f)
    BY <1>8, <2>1, FreshIsFresh DEF QueueInLoop, Executor!Submit
  <2> QED
    BY <2>2 DEF Executor!Next
<1>9. ASSUME NEW t \in AnyThread, Quit(t) \/ WakeUp(t)
      PROVE  [Executor!Next]_Executor!vars
  BY <1>1, <1>9 DEF Quit, WakeUp
<1>10. CASE UNCHANGED loopVars
  BY <1>1, <1>10 DEF loopVars
<1> QED
  BY <1>2, <1>3, <1>4, <1>5, <1>6, <1>7, <1>8, <1>9, <1>10 DEF LoopNext, LoopStep, Call

\* EventLoop implements the serial executor: whatever threads call it meanwhile,
\* the swap in doPendingFunctors loses, repeats and reorders no functor.
THEOREM LoopIsSerialExecutor == LoopSpec => ImplementsSerialExecutor
<1>1. LoopInit => Executor!Init
  BY DEF LoopInit, Executor!Init
<1>2. LoopInv => PlaceInv
  BY DEF LoopInv
<1> QED
  BY <1>1, <1>2, ExecutorStep, LoopTypeCorrect, LoopInvariant, PTL
     DEF LoopSpec, ImplementsSerialExecutor, Executor!Spec

-----------------------------------------------------------------------------

\* Every step of the owner, of threadFunc and of the other threads is a step of the loop, or
\* leaves it alone: EventLoopThread uses the loop only through its operations.
LEMMA ThreadStepsAreLoopSteps == [ThreadNext]_allVars => [LoopNext]_loopVars
<1> SUFFICES ASSUME [ThreadNext]_allVars PROVE [LoopNext]_loopVars
  OBVIOUS
<1> USE OwnerAssumption
<1>1. ASSUME NEW t \in AnyThread, Call(t) \/ WakeUp(t) PROVE LoopNext
  BY <1>1 DEF LoopNext
<1>2. CASE UNCHANGED allVars
  BY <1>2 DEF allVars
<1>3. CASE MainLoop
  BY <1>3 DEF MainLoop
<1>4. CASE ThreadStep
  BY <1>4 DEF ThreadStep, ThreadPublish, ThreadLoop, ThreadEnd, LoopNext
<1>5. CASE ThreadInLoop
  BY <1>1, <1>5 DEF ThreadInLoop, LoopNext
<1>6. CASE OwnerStep
  <2>1. DestructorQuit => UNCHANGED loopVars \/ Call(Owner)
    BY DEF DestructorQuit, Call
  <2>2. OwnerWakeUp => UNCHANGED loopVars \/ WakeUp(Owner)
    BY DEF OwnerWakeUp
  <2> QED
    BY <1>1, <1>6, <2>1, <2>2 DEF OwnerStep, StartLoopWait, Join
<1>7. CASE StartLoop \/ Destroy
  BY <1>7 DEF StartLoop, Destroy
<1>8. CASE OwnerCall
  BY <1>1, <1>8 DEF OwnerCall
<1>9. CASE \E t \in Thread \ {Owner} : OtherCall(t) \/ OtherWakeUp(t)
  <2>1. PICK t \in Thread : OtherCall(t) \/ OtherWakeUp(t)
    BY <1>9
  <2> QED
    BY <1>1, <2>1 DEF OtherCall, OtherWakeUp
<1> QED
  BY <1>2, <1>3, <1>4, <1>5, <1>6, <1>7, <1>8, <1>9 DEF ThreadNext

\* The loop of an EventLoopThread, from StartLoop to the destructor, or of the main thread,
\* loses no wake-up and runs its functors like a serial executor.
THEOREM ThreadLoopIsRight == ThreadSpec => []NoLostWakeUp /\ ImplementsSerialExecutor
<1>1. ThreadInit => LoopInit
  BY DEF ThreadInit
<1>2. ThreadSpec => LoopSpec
  BY <1>1, ThreadStepsAreLoopSteps, PTL DEF ThreadSpec, LoopSpec
<1> QED
  BY <1>2, WakeUpsAreNeverLost, LoopIsSerialExecutor, PTL

-----------------------------------------------------------------------------
(* The timers                                                               *)

\* The first entry of a list that is not empty exists and is the earliest.
LEMMA EarliestOfList ==
    ASSUME NEW list \in SUBSET (Nat \X Addr), list # {}
    PROVE  Earliest(list) \in Nat /\ \A e \in list : Earliest(list) <= e[1]
<1> DEFINE T == {e[1] : e \in list}
<1>1. T \subseteq Nat /\ T # {}
  OBVIOUS
<1>2. PICK t \in T : \A u \in T : ~(<<u, t>> \in OpToRel(<, Nat))
  <2> HIDE DEF T
  <2> QED
    BY <1>1, NatLessThanWellFounded, WFMin
<1>3. \A u \in T : t <= u
  <2> HIDE DEF T
  <2> SUFFICES ASSUME NEW u \in T, u < t PROVE FALSE
    BY <1>1
  <2>1. <<u, t>> \in Nat \X Nat
    BY <1>1
  <2>2. <<u, t>> \in OpToRel(<, Nat)
    BY <2>1 DEF OpToRel
  <2> QED
    BY <1>2, <2>2
<1>4. \A e \in list : t <= e[1]
  BY <1>3
<1> QED
  BY <1>1, <1>2, <1>4 DEF Earliest

-----------------------------------------------------------------------------

USE DEF TimerIds, Sequence, Disarmed, Timer

\* resetTimerFd arms the timerfd, whatever the expiration.
LEMMA ResetArms ==
    ASSUME NEW t \in Int, now \in Nat
    PROVE  ResetTimerFd(t) \in Nat \ {0}
  BY DEF ResetTimerFd

\* A new Timer has a sequence of its own and expires at a time.
LEMMA NewTimerType ==
    ASSUME CallsTypeOK, HandleTypeOK, s_NumCreated < MaxTimers,
           NEW d \in Delay, NEW i \in Interval
    PROVE  /\ TimerAt(d, i) \in Timer
           /\ TimerAt(d, i).seq # 0
           /\ TimerAt(d, i).expiration \in Nat
           /\ TimerAt(d, i).seq \in 0..MaxTimers
           /\ s_NumCreated + 1 \in 0..MaxTimers
           /\ \A a \in Addr : TimerId(a, s_NumCreated + 1) \in TimerIds
  BY DelayAssumption, IntervalAssumption, BoundAssumption
     DEF CallsTypeOK, HandleTypeOK, TimerAt, TimerId

\* addTimerInLoop keeps the types of the sets it changes.
LEMMA AddInLoopType ==
    ASSUME SetsTypeOK, now \in Nat, NEW a \in Addr, NEW t \in Timer, addTimerInLoop(a, t)
    PROVE  /\ timerFd' \in Nat \union {Disarmed}
           /\ m_TimerList' \subseteq Nat \X Addr
           /\ m_ActiveTimers' \subseteq Addr \X (0..MaxTimers)
<1>1. t.expiration \in Nat /\ t.seq \in 0..MaxTimers
  OBVIOUS
<1>2. ResetTimerFd(t.expiration) \in Nat
  BY <1>1, ResetArms
<1> QED
  BY <1>1, <1>2 DEF addTimerInLoop, SetsTypeOK

\* A deleted Timer's memory.
LEMMA FreedType == Freed \in Timer
  BY BoundAssumption DEF Freed

\* cancelInLoop keeps the types of the sets it changes.
LEMMA CancelInLoopType ==
    ASSUME SetsTypeOK, NEW id \in TimerIds, cancelInLoop(id)
    PROVE  /\ heap' \in [Addr -> Timer]
           /\ m_TimerList' \subseteq Nat \X Addr
           /\ m_ActiveTimers' \subseteq Addr \X (0..MaxTimers)
           /\ m_CancelTimers' \subseteq Addr \X (0..MaxTimers)
           /\ cancelled' \subseteq Sequence
<1> DEFINE timer == <<id.m_pTimer, id.m_Seq>>
<1>1. timer \in Addr \X (0..MaxTimers) /\ id.timer \in Sequence /\ id.m_pTimer \in Addr
  OBVIOUS
<1>2. heap' \in [Addr -> Timer]
  <2>1. CASE timer \in m_ActiveTimers
    BY <1>1, <2>1, FreedType DEF cancelInLoop, SetsTypeOK
  <2>2. CASE timer \notin m_ActiveTimers
    BY <2>2 DEF cancelInLoop, SetsTypeOK
  <2> QED
    BY <2>1, <2>2
<1>3. m_TimerList' \subseteq m_TimerList /\ m_ActiveTimers' \subseteq m_ActiveTimers
  BY DEF cancelInLoop
<1>4. m_CancelTimers' \subseteq m_CancelTimers \union {timer}
  BY DEF cancelInLoop
<1>5. cancelled' \subseteq Sequence
  BY <1>1 DEF cancelInLoop, SetsTypeOK
<1> QED
  BY <1>1, <1>2, <1>3, <1>4, <1>5 DEF SetsTypeOK

\* The oldest queued call, and the others.
LEMMA HeadOfPending ==
    ASSUME pending \in Seq(QueuedCall), pending # <<>>
    PROVE  /\ Head(pending) \in QueuedCall /\ Tail(pending) \in Seq(QueuedCall)
           /\ Head(pending).id \in TimerIds /\ Head(pending).id.m_pTimer \in Addr
<1>1. Head(pending) \in QueuedCall /\ Tail(pending) \in Seq(QueuedCall)
  OBVIOUS
<1> QED
  BY <1>1 DEF QueuedCall

\* A queued call names an address.
LEMMA PendingType ==
    ASSUME pending \in Seq(QueuedCall)
    PROVE  \A k \in 1..Len(pending) : pending[k].id.m_pTimer \in Addr
<1>1. \A k \in 1..Len(pending) : pending[k] \in QueuedCall
  OBVIOUS
<1> QED
  BY <1>1 DEF QueuedCall

\* The type invariant of the timer queue.
THEOREM TimerTypeCorrect == Spec => []TypeOK
<1>1. Init => TypeOK
  <2> SUFFICES ASSUME Init PROVE TypeOK
    OBVIOUS
  <2>1. SetsTypeOK
    BY FreedType DEF Init, SetsTypeOK
  <2>2. CallsTypeOK /\ HandleTypeOK
    BY BoundAssumption DEF Init, CallsTypeOK, HandleTypeOK
  <2> QED
    BY <2>1, <2>2 DEF Init, TypeOK
<1>2. TypeOK /\ [Next]_vars => TypeOK'
  <2> SUFFICES ASSUME TypeOK, [Next]_vars PROVE TypeOK'
    OBVIOUS
  <2>0. SetsTypeOK /\ CallsTypeOK /\ HandleTypeOK
    BY DEF TypeOK
  <2>1. CASE UNCHANGED vars
    BY <2>1 DEF vars, clockVars, setVars, handleVars, TypeOK, SetsTypeOK, CallsTypeOK, HandleTypeOK
  <2>2. ASSUME NEW a \in Addr, NEW d \in Delay, NEW i \in Interval, AddTimer(a, d, i)
        PROVE  TypeOK'
    <3>1. TimerAt(d, i) \in Timer
      BY <2>0, <2>2, NewTimerType DEF AddTimer, NewTimer
    <3>2. SetsTypeOK'
      BY <2>0, <2>2, <3>1, AddInLoopType DEF AddTimer, HandleTypeOK, SetsTypeOK
    <3>3. CallsTypeOK' /\ HandleTypeOK'
      BY <2>0, <2>2, NewTimerType
         DEF AddTimer, NewTimer, CallsTypeOK, HandleTypeOK, clockVars, handleVars
    <3> QED
      BY <2>2, <3>2, <3>3 DEF AddTimer, handleVars, TypeOK
  <2>3. ASSUME NEW a \in Addr, NEW d \in Delay, NEW i \in Interval, AddTimerFromThread(a, d, i)
        PROVE  TypeOK'
    <3>1. TimerAt(d, i) \in Timer
      BY <2>0, <2>3, NewTimerType DEF AddTimerFromThread, NewTimer
    <3>2. SetsTypeOK'
      BY <2>0, <2>3, <3>1 DEF AddTimerFromThread, SetsTypeOK
    <3>3. [call |-> "add", id |-> TimerId(a, s_NumCreated + 1)] \in QueuedCall
      BY <2>0, <2>3, NewTimerType DEF AddTimerFromThread, NewTimer, QueuedCall
    <3>4. CallsTypeOK'
      BY <2>0, <2>3, <3>3, NewTimerType DEF AddTimerFromThread, NewTimer, CallsTypeOK
    <3>5. HandleTypeOK'
      BY <2>0, <2>3 DEF AddTimerFromThread, HandleTypeOK, clockVars, handleVars
    <3> QED
      BY <2>3, <3>2, <3>4, <3>5 DEF AddTimerFromThread, handleVars, TypeOK
  <2>4. ASSUME NEW id \in ids, Cancel(id)
        PROVE  TypeOK'
    <3>1. SetsTypeOK'
      BY <2>0, <2>4, CancelInLoopType DEF Cancel, CallsTypeOK, SetsTypeOK
    <3>2. CallsTypeOK' /\ HandleTypeOK'
      BY <2>0, <2>4 DEF Cancel, CallsTypeOK, HandleTypeOK, clockVars, handleVars
    <3> QED
      BY <2>4, <3>1, <3>2 DEF Cancel, handleVars, TypeOK
  <2>5. ASSUME NEW id \in ids, CancelFromThread(id)
        PROVE  TypeOK'
    <3>1. SetsTypeOK'
      BY <2>0, <2>5 DEF CancelFromThread, SetsTypeOK, setVars
    <3>2. CallsTypeOK' /\ HandleTypeOK'
      BY <2>0, <2>5 DEF CancelFromThread, CallsTypeOK, QueuedCall, HandleTypeOK, clockVars, handleVars
    <3> QED
      BY <2>5, <3>1, <3>2 DEF CancelFromThread, handleVars, TypeOK
  <2>6. CASE RunPendingAdd
    <3>1. Head(pending).id.m_pTimer \in Addr
      BY <2>0, <2>6, HeadOfPending DEF RunPendingAdd, CallsTypeOK
    <3>2. SetsTypeOK'
      BY <2>0, <2>6, <3>1, AddInLoopType DEF RunPendingAdd, HandleTypeOK, SetsTypeOK
    <3>3. CallsTypeOK' /\ HandleTypeOK'
      BY <2>0, <2>6 DEF RunPendingAdd, CallsTypeOK, HandleTypeOK, clockVars, handleVars
    <3> QED
      BY <2>6, <3>2, <3>3 DEF RunPendingAdd, handleVars, TypeOK
  <2>7. CASE RunPendingCancel
    <3>1. Head(pending).id \in TimerIds
      BY <2>0, <2>7, HeadOfPending DEF RunPendingCancel, CallsTypeOK
    <3>2. SetsTypeOK'
      BY <2>0, <2>7, <3>1, CancelInLoopType DEF RunPendingCancel, SetsTypeOK
    <3>3. CallsTypeOK' /\ HandleTypeOK'
      BY <2>0, <2>7 DEF RunPendingCancel, CallsTypeOK, HandleTypeOK, clockVars, handleVars
    <3> QED
      BY <2>7, <3>2, <3>3 DEF RunPendingCancel, handleVars, TypeOK
  <2>8. CASE HandleReadBegin
    <3>1. SetsTypeOK'
      BY <2>0, <2>8 DEF HandleReadBegin, SetsTypeOK
    <3>2. CallsTypeOK' /\ HandleTypeOK'
      BY <2>0, <2>8 DEF HandleReadBegin, CallsTypeOK, HandleTypeOK, SetsTypeOK, clockVars
    <3> QED
      BY <2>8, <3>1, <3>2 DEF HandleReadBegin, TypeOK
  <2>9. ASSUME NEW e \in toRun, RunTimer(e)
        PROVE  TypeOK'
    <3>1. SetsTypeOK' /\ CallsTypeOK'
      BY <2>0, <2>9 DEF RunTimer, SetsTypeOK, CallsTypeOK, setVars
    <3>2. HandleTypeOK'
      BY <2>0, <2>9 DEF RunTimer, HandleTypeOK, SetsTypeOK, clockVars
    <3> QED
      BY <2>9, <3>1, <3>2 DEF RunTimer, TypeOK
  <2>10. CASE CallBackReturns
    <3>1. SetsTypeOK' /\ CallsTypeOK' /\ HandleTypeOK'
      BY <2>0, <2>10
         DEF CallBackReturns, SetsTypeOK, CallsTypeOK, HandleTypeOK, setVars, clockVars
    <3> QED
      BY <2>10, <3>1 DEF CallBackReturns, TypeOK
  <2>11. CASE HandleReadEnd
    <3>1. \A a \in Addr : heap[a].interval \in Nat /\ readAt + heap[a].interval \in Nat
      <4>1. \A a \in Addr : heap[a] \in Timer
        BY <2>0 DEF SetsTypeOK
      <4>2. \A a \in Addr : heap[a].interval \in Nat
        BY <4>1, IntervalAssumption
      <4> QED
        BY <2>0, <4>2 DEF HandleTypeOK
    <3>2. heap' \in [Addr -> Timer]
      <4>1. \A a \in Addr : [heap[a] EXCEPT !.expiration = readAt + heap[a].interval] \in Timer
        BY <2>0, <3>1 DEF SetsTypeOK
      <4> QED
        BY <2>0, <2>11, <4>1, FreedType DEF HandleReadEnd, Restarted, SetsTypeOK
    <3>3. m_TimerList' \subseteq Nat \X Addr
      BY <2>0, <2>11, <3>1 DEF HandleReadEnd, SetsTypeOK, Again
    <3>4. m_ActiveTimers' \subseteq Addr \X (0..MaxTimers)
      BY <2>0, <2>11 DEF HandleReadEnd, SetsTypeOK, Again
    <3>5. timerFd' \in Nat \union {Disarmed}
      <4>1. m_TimerList' # {} => Earliest(m_TimerList') \in Int
        BY <3>3, EarliestOfList
      <4> QED
        BY <2>0, <2>11, <4>1, ResetArms DEF HandleReadEnd, SetsTypeOK, HandleTypeOK
    <3>6. SetsTypeOK'
      BY <2>0, <2>11, <3>2, <3>3, <3>4, <3>5 DEF HandleReadEnd, SetsTypeOK
    <3>7. CallsTypeOK' /\ HandleTypeOK'
      BY <2>0, <2>11 DEF HandleReadEnd, CallsTypeOK, HandleTypeOK, clockVars
    <3> QED
      BY <2>11, <3>6, <3>7 DEF HandleReadEnd, TypeOK
  <2>12. CASE Tick
    <3>1. SetsTypeOK' /\ CallsTypeOK' /\ HandleTypeOK'
      BY <2>0, <2>12, SMTT(30) DEF Tick, SetsTypeOK, CallsTypeOK, HandleTypeOK, setVars, handleVars
    <3> QED
      BY <2>12, <3>1 DEF Tick, handleVars, TypeOK
  <2>13. ASSUME NEW t \in 1..MaxTime, SetClock(t)
         PROVE  TypeOK'
    <3>1. SetsTypeOK' /\ CallsTypeOK' /\ HandleTypeOK'
      BY <2>0, <2>13, BoundAssumption, SMTT(30)
         DEF SetClock, SetsTypeOK, CallsTypeOK, HandleTypeOK, setVars, handleVars
    <3> QED
      BY <2>13, <3>1 DEF SetClock, handleVars, TypeOK
  <2>14. CASE PollTimerFd
    <3>1. SetsTypeOK' /\ CallsTypeOK' /\ HandleTypeOK'
      BY <2>0, <2>14
         DEF PollTimerFd, SetsTypeOK, CallsTypeOK, HandleTypeOK, setVars, clockVars
    <3> QED
      BY <2>14, <3>1 DEF PollTimerFd, TypeOK
  <2> QED
    BY <2>1, <2>2, <2>3, <2>4, <2>5, <2>6, <2>7, <2>8, <2>9, <2>10, <2>11, <2>12, <2>13,
       <2>14
       DEF Next, TimerStep, UserStep
<1> QED
  BY <1>1, <1>2, PTL DEF Spec

-----------------------------------------------------------------------------
(* The invariant.  Each lemma is one operation.                             *)

\* The entries a list with one more entry has.
LEMMA ListedUnion ==
    ASSUME NEW a, NEW t, m_TimerList' = m_TimerList \union {<<t, a>>}
    PROVE  Listed' = Listed \union {a}
<1>1. \A b : b \in Listed <=> \E e \in m_TimerList : b = e[2]
  BY DEF Listed
<1>2. \A b : b \in Listed' <=> \E e \in m_TimerList' : b = e[2]
  BY DEF Listed
<1>3. <<t, a>>[2] = a
  OBVIOUS
<1> QED
  BY <1>1, <1>2, <1>3

\* addTimerInLoop of a timer that is nowhere else keeps the sets in agreement and
\* arms the timerfd.
LEMMA AddInLoopKeeps ==
    ASSUME SetsTypeOK, SetsTypeOK', now \in Nat, SetsAgree, NEW a \in Addr,
           a \notin Listed, heap'[a].seq # 0,
           \A b \in Addr : b # a => heap'[b] = heap[b],
           addTimerInLoop(a, heap'[a])
    PROVE  SetsAgree' /\ Listed' = Listed \union {a}
           /\ (TimerFdArmed => timerFd' # Disarmed \/ at # "idle")
<1>1. Listed' = Listed \union {a}
  BY ListedUnion DEF addTimerInLoop
<1>2. Listed \subseteq Addr
  BY DEF SetsTypeOK, Listed
<1>3. \A e \in m_TimerList : e[2] \in Addr /\ e[2] \in Listed
  BY DEF SetsTypeOK, Listed
<1>4. \A e \in m_TimerList' : heap'[e[2]].seq # 0 /\ e[1] = heap'[e[2]].expiration
  BY <1>3 DEF addTimerInLoop, SetsAgree, Allocated
<1>5. m_ActiveTimers' = {<<b, heap'[b].seq>> : b \in Listed'}
  <2>1. \A b \in Listed : heap'[b] = heap[b]
    BY <1>2
  <2>2. m_ActiveTimers = {<<b, heap'[b].seq>> : b \in Listed}
    BY <2>1 DEF SetsAgree
  <2>3. m_ActiveTimers' = m_ActiveTimers \union {<<a, heap'[a].seq>>}
    BY DEF addTimerInLoop
  <2> QED
    BY <1>1, <2>2, <2>3
<1>6. TimerFdArmed => timerFd' # Disarmed \/ at # "idle"
  <2>1. heap'[a].expiration \in Nat
    BY DEF SetsTypeOK
  <2>2. CASE EarliestChanged(heap'[a].expiration)
    BY <2>1, <2>2, ResetArms DEF addTimerInLoop
  <2>3. CASE ~EarliestChanged(heap'[a].expiration)
    <3>1. m_TimerList # {}
      BY <2>3 DEF EarliestChanged
    <3> QED
      BY <2>3, <3>1 DEF addTimerInLoop, TimerFdArmed
  <2> QED
    BY <2>2, <2>3
<1> QED
  BY <1>1, <1>4, <1>5, <1>6 DEF SetsAgree, Allocated

\* cancelInLoop takes a timer out of both sets or leaves them alone; a timer it
\* deletes is a listed one.
LEMMA CancelInLoopKeeps ==
    ASSUME SetsTypeOK, SetsAgree, NEW id \in TimerIds, cancelInLoop(id)
    PROVE  /\ SetsAgree'
           /\ m_TimerList' \subseteq m_TimerList
           /\ \A b \in Addr : b \notin Listed => heap'[b] = heap[b]
<1> DEFINE a == id.m_pTimer
           timer == <<a, id.m_Seq>>
<1>1. CASE timer \notin m_ActiveTimers
  BY <1>1 DEF cancelInLoop, SetsAgree, Listed, Allocated
<1>2. CASE timer \in m_ActiveTimers
  <2>1. a \in Listed /\ id.m_Seq = heap[a].seq
    BY <1>2 DEF SetsAgree
  <2>2. m_TimerList' = m_TimerList \ {<<heap[a].expiration, a>>}
    BY <1>2 DEF cancelInLoop
  <2>3. m_ActiveTimers' = m_ActiveTimers \ {timer}
    BY DEF cancelInLoop
  <2>4. \A b \in Addr : b # a => heap'[b] = heap[b]
    BY <1>2 DEF cancelInLoop, SetsTypeOK
  <2>5. \A e \in m_TimerList : e[2] = a <=> e = <<heap[a].expiration, a>>
    BY DEF SetsAgree, SetsTypeOK
  <2>6. Listed' = Listed \ {a}
    BY <2>1, <2>2, <2>5 DEF Listed
  <2>7. \A e \in m_TimerList' : e \in m_TimerList /\ e[2] # a /\ e[2] \in Addr
    BY <2>2, <2>5 DEF SetsTypeOK
  <2>8. \A e \in m_TimerList' : heap'[e[2]].seq # 0 /\ e[1] = heap'[e[2]].expiration
    BY <2>4, <2>7 DEF SetsAgree, Allocated
  <2>9. Listed \subseteq Addr
    BY DEF SetsTypeOK, Listed
  <2>10. m_ActiveTimers' = {<<b, heap'[b].seq>> : b \in Listed'}
    BY <2>1, <2>3, <2>4, <2>6, <2>9 DEF SetsAgree
  <2> QED
    BY <2>1, <2>2, <2>4, <2>8, <2>10 DEF SetsAgree, Allocated
<1> QED
  BY <1>1, <1>2

\* AddTimer on the loop thread.
LEMMA AddTimerStep ==
    ASSUME TypeOK, TypeOK', TimerInv, NEW a \in Addr, NEW d \in Delay, NEW i \in Interval,
           AddTimer(a, d, i)
    PROVE  TimerInv'
<1> USE DEF TypeOK
<1>1. a \notin Listed /\ \A e \in vExpired : e[2] # a
  BY DEF AddTimer, NewTimer, TimerInv, SetsAgree, ExpiredTimersLive, Listed
<1>2. heap'[a] = TimerAt(d, i) /\ \A b \in Addr : b # a => heap'[b] = heap[b]
  BY DEF AddTimer, SetsTypeOK
<1>3. heap'[a].seq # 0
  BY <1>2, NewTimerType DEF AddTimer, NewTimer
<1>4. SetsAgree' /\ Listed' = Listed \union {a}
      /\ (TimerFdArmed => timerFd' # Disarmed \/ at # "idle")
  BY <1>1, <1>2, <1>3, AddInLoopKeeps DEF AddTimer, TimerInv, HandleTypeOK
<1>5. UNCHANGED <<vExpired, pending, at>>
  BY DEF AddTimer, handleVars
<1>6. ExpiredTimersLive'
  BY <1>1, <1>2, <1>4, <1>5
     DEF TimerInv, ExpiredTimersLive, Allocated, HandleTypeOK
<1>7. \A k \in 1..Len(pending) : pending[k].id.m_pTimer \in Addr
  BY PendingType DEF CallsTypeOK
<1>8. PendingTimersWait'
  <2>1. \A k \in 1..Len(pending) : PendingAdd(k) => pending[k].id.m_pTimer # a
    BY DEF AddTimer, NewTimer, TimerInv, PendingTimersWait, Allocated
  <2> QED
    BY <1>2, <1>4, <1>5, <1>7, <2>1 DEF TimerInv, PendingTimersWait, PendingAdd, Allocated
<1> QED
  BY <1>4, <1>5, <1>6, <1>8 DEF TimerInv, IdleInv, TimerFdArmed

\* AddTimer on another thread.
LEMMA AddTimerFromThreadStep ==
    ASSUME TypeOK, TypeOK', TimerInv, NEW a \in Addr, NEW d \in Delay, NEW i \in Interval,
           AddTimerFromThread(a, d, i)
    PROVE  TimerInv'
<1> USE DEF TypeOK
<1> DEFINE new == [call |-> "add", id |-> TimerId(a, s_NumCreated + 1)]
<1>1. a \notin Listed /\ \A e \in vExpired : e[2] # a
  BY DEF AddTimerFromThread, NewTimer, TimerInv, SetsAgree, ExpiredTimersLive, Listed
<1>2. heap'[a] = TimerAt(d, i) /\ \A b \in Addr : b # a => heap'[b] = heap[b]
  BY DEF AddTimerFromThread, SetsTypeOK
<1>3. heap'[a].seq # 0
  BY <1>2, NewTimerType DEF AddTimerFromThread, NewTimer
<1>4. UNCHANGED <<vExpired, at, m_TimerList, m_ActiveTimers, timerFd>> /\ Listed' = Listed
  BY DEF AddTimerFromThread, handleVars, Listed
<1>5. SetsAgree'
  <2>1. \A b \in Listed : b \in Addr /\ heap'[b] = heap[b]
    BY <1>1, <1>2 DEF Listed, SetsTypeOK
  <2>2. \A e \in m_TimerList : heap'[e[2]] = heap[e[2]]
    BY <2>1 DEF Listed
  <2> QED
    BY <1>4, <2>1, <2>2 DEF TimerInv, SetsAgree, Allocated
<1>6. ExpiredTimersLive'
  BY <1>1, <1>2, <1>4 DEF TimerInv, ExpiredTimersLive, Allocated, HandleTypeOK
<1>7. \A k \in 1..Len(pending) : pending[k].id.m_pTimer \in Addr
  BY PendingType DEF CallsTypeOK
<1>8. PendingTimersWait'
  <2>1. \A k \in 1..Len(pending) : PendingAdd(k) => pending[k].id.m_pTimer # a
    BY DEF AddTimerFromThread, NewTimer, TimerInv, PendingTimersWait, Allocated
  <2>2. /\ Len(pending') = Len(pending) + 1
        /\ pending'[Len(pending) + 1] = new
        /\ \A k \in 1..Len(pending) : pending'[k] = pending[k]
        /\ Len(pending) \in Nat
    BY DEF AddTimerFromThread, CallsTypeOK
  <2>3. new.id.m_pTimer = a
    BY DEF TimerId
  <2>4. \A k \in 1..Len(pending') :
          \/ k \in 1..Len(pending) /\ pending'[k] = pending[k]
          \/ k = Len(pending) + 1 /\ pending'[k].id.m_pTimer = a
    BY <2>2, <2>3
  <2> HIDE DEF new
  <2>5. \A k \in 1..Len(pending') : PendingAdd(k)' =>
          /\ heap'[pending'[k].id.m_pTimer].seq # 0
          /\ pending'[k].id.m_pTimer \notin Listed'
          /\ \A e \in vExpired' : e[2] # pending'[k].id.m_pTimer
    BY <1>1, <1>2, <1>3, <1>4, <1>7, <2>1, <2>4
       DEF TimerInv, PendingTimersWait, PendingAdd, Allocated
  <2>6. \A k, m \in 1..Len(pending') : PendingAdd(k)' /\ PendingAdd(m)' /\ k # m
                                        => pending'[k].id.m_pTimer # pending'[m].id.m_pTimer
    BY <2>1, <2>4 DEF TimerInv, PendingTimersWait, PendingAdd
  <2> QED
    BY <2>5, <2>6 DEF PendingTimersWait, PendingAdd, Allocated
<1> QED
  BY <1>4, <1>5, <1>6, <1>8 DEF TimerInv, IdleInv, TimerFdArmed

\* addTimerInLoop when the loop reaches the queued call.
LEMMA RunPendingAddStep ==
    ASSUME TypeOK, TypeOK', TimerInv, RunPendingAdd
    PROVE  TimerInv'
<1> USE DEF TypeOK
<1> DEFINE a == Head(pending).id.m_pTimer
<1>1. a \in Addr /\ pending # <<>> /\ a = pending[1].id.m_pTimer /\ Len(pending) \in Nat \ {0}
  BY HeadOfPending DEF RunPendingAdd, CallsTypeOK
<1>2. PendingAdd(1)
  BY <1>1 DEF RunPendingAdd, CallsTypeOK, PendingAdd
<1>3. Allocated(a) /\ a \notin Listed /\ \A e \in vExpired : e[2] # a
  BY <1>1, <1>2 DEF TimerInv, PendingTimersWait
<1>4. UNCHANGED <<heap, vExpired, at>>
  BY DEF RunPendingAdd, handleVars
<1>5. SetsAgree' /\ Listed' = Listed \union {a}
      /\ (TimerFdArmed => timerFd' # Disarmed \/ at # "idle")
  BY <1>1, <1>3, <1>4, AddInLoopKeeps DEF RunPendingAdd, TimerInv, HandleTypeOK, Allocated
<1>6. ExpiredTimersLive'
  BY <1>3, <1>4, <1>5 DEF TimerInv, ExpiredTimersLive, Allocated
<1>7. PendingTimersWait'
  <2>1. /\ Len(pending') = Len(pending) - 1
        /\ \A k \in 1..Len(pending') : pending'[k] = pending[k + 1] /\ k + 1 \in 1..Len(pending)
        /\ \A k \in 1..Len(pending') : k + 1 # 1
    BY <1>1 DEF RunPendingAdd, CallsTypeOK
  <2>2. \A k \in 1..Len(pending') : PendingAdd(k)' => pending'[k].id.m_pTimer # a
    BY <1>1, <1>2, <2>1 DEF TimerInv, PendingTimersWait, PendingAdd
  <2>3. \A k \in 1..Len(pending') : PendingAdd(k)' =>
          /\ heap'[pending'[k].id.m_pTimer].seq # 0
          /\ pending'[k].id.m_pTimer \notin Listed'
          /\ \A e \in vExpired' : e[2] # pending'[k].id.m_pTimer
    BY <1>4, <1>5, <2>1, <2>2, SMTT(30) DEF TimerInv, PendingTimersWait, PendingAdd, Allocated
  <2>4. \A k, m \in 1..Len(pending') : PendingAdd(k)' /\ PendingAdd(m)' /\ k # m
                                        => pending'[k].id.m_pTimer # pending'[m].id.m_pTimer
    BY <2>1, SMTT(30) DEF TimerInv, PendingTimersWait, PendingAdd
  <2> QED
    BY <2>3, <2>4 DEF PendingTimersWait, PendingAdd, Allocated
<1> QED
  BY <1>4, <1>5, <1>6, <1>7 DEF TimerInv, IdleInv, TimerFdArmed

\* Cancel, on the loop thread or when the loop reaches the queued call.  The
\* timers it may delete are neither expired nor queued.
LEMMA CancelStep ==
    ASSUME TypeOK, TypeOK', TimerInv, NEW id \in TimerIds, cancelInLoop(id),
           UNCHANGED <<vExpired, at, timerFd>>,
           \/ pending' = pending
           \/ pending # <<>> /\ pending' = Tail(pending)
    PROVE  TimerInv'
<1> USE DEF TypeOK
<1>1. /\ SetsAgree'
      /\ m_TimerList' \subseteq m_TimerList
      /\ \A b \in Addr : b \notin Listed => heap'[b] = heap[b]
  BY CancelInLoopKeeps DEF TimerInv
<1>2. Listed' \subseteq Listed
  BY <1>1 DEF Listed
<1>3. ExpiredTimersLive'
  BY <1>1, <1>2 DEF TimerInv, ExpiredTimersLive, Allocated, HandleTypeOK
<1>4. \A k \in 1..Len(pending) : PendingAdd(k) => heap'[pending[k].id.m_pTimer].seq # 0
  BY <1>1, PendingType DEF TimerInv, PendingTimersWait, Allocated, CallsTypeOK
<1>5. PendingTimersWait'
  <2>1. CASE pending' = pending
    BY <1>2, <1>4, <2>1, SMTT(30) DEF TimerInv, PendingTimersWait, PendingAdd, Allocated
  <2>2. CASE pending # <<>> /\ pending' = Tail(pending)
    <3>1. \A k \in 1..Len(pending') : pending'[k] = pending[k + 1] /\ k + 1 \in 1..Len(pending)
      BY <2>2 DEF CallsTypeOK
    <3>2. \A k \in 1..Len(pending') : PendingAdd(k)' =>
            /\ heap'[pending'[k].id.m_pTimer].seq # 0
            /\ pending'[k].id.m_pTimer \notin Listed'
            /\ \A e \in vExpired' : e[2] # pending'[k].id.m_pTimer
      BY <1>2, <1>4, <3>1, SMTT(30) DEF TimerInv, PendingTimersWait, PendingAdd
    <3>3. \A k, m \in 1..Len(pending') : PendingAdd(k)' /\ PendingAdd(m)' /\ k # m
                                          => pending'[k].id.m_pTimer # pending'[m].id.m_pTimer
      <4> SUFFICES ASSUME NEW k \in 1..Len(pending'), NEW m \in 1..Len(pending'), k # m,
                          PendingAdd(k)', PendingAdd(m)'
                   PROVE  pending'[k].id.m_pTimer # pending'[m].id.m_pTimer
        OBVIOUS
      <4>1. k + 1 # m + 1
        OBVIOUS
      <4>2. PendingAdd(k + 1) /\ PendingAdd(m + 1)
        BY <3>1 DEF PendingAdd
      <4>3. /\ k + 1 \in 1..Len(pending) /\ m + 1 \in 1..Len(pending)
            /\ pending'[k] = pending[k + 1] /\ pending'[m] = pending[m + 1]
        BY <3>1
      <4>4. pending[k + 1].id.m_pTimer # pending[m + 1].id.m_pTimer
        BY <4>1, <4>2, <4>3 DEF TimerInv, PendingTimersWait
      <4> QED
        BY <4>3, <4>4
    <3> QED
      BY <3>2, <3>3 DEF PendingTimersWait, PendingAdd, Allocated
  <2> QED
    BY <2>1, <2>2
<1>6. TimerFdArmed'
  BY <1>1 DEF TimerInv, TimerFdArmed
<1> QED
  BY <1>1, <1>3, <1>5, <1>6 DEF TimerInv, IdleInv

\* Cancel on another thread.
LEMMA CancelFromThreadStep ==
    ASSUME TypeOK, TypeOK', TimerInv, NEW id \in ids, CancelFromThread(id)
    PROVE  TimerInv'
<1> USE DEF TypeOK
<1>1. UNCHANGED <<setVars, vExpired, at, timerFd>> /\ Listed' = Listed
  BY DEF CancelFromThread, setVars, handleVars, Listed
<1>2. \A k \in 1..Len(pending') : PendingAdd(k)' => k \in 1..Len(pending) /\ pending'[k] = pending[k]
  BY DEF CancelFromThread, CallsTypeOK, PendingAdd
<1>3. PendingTimersWait'
  BY <1>1, <1>2 DEF TimerInv, PendingTimersWait, PendingAdd, Allocated, setVars
<1>4. SetsAgree' /\ ExpiredTimersLive' /\ IdleInv' /\ TimerFdArmed'
  BY <1>1 DEF TimerInv, SetsAgree, ExpiredTimersLive, IdleInv, TimerFdArmed, Allocated, setVars
<1> QED
  BY <1>3, <1>4 DEF TimerInv

\* handleRead takes the expired entries out of both sets.
LEMMA HandleReadBeginStep ==
    ASSUME TypeOK, TypeOK', TimerInv, HandleReadBegin
    PROVE  TimerInv'
<1> USE DEF TypeOK
<1>1. /\ vExpired' \subseteq m_TimerList
      /\ m_TimerList' = m_TimerList \ vExpired'
      /\ heap' = heap /\ pending' = pending /\ at' = "handle"
  BY DEF HandleReadBegin
<1>2. \A e \in m_TimerList, f \in m_TimerList : e[2] = f[2] => e = f
  BY DEF TimerInv, SetsAgree, SetsTypeOK
<1>3. Listed' = Listed \ {e[2] : e \in vExpired'}
  BY <1>1, <1>2 DEF Listed
<1>4. SetsAgree'
  <2>1. m_ActiveTimers' = m_ActiveTimers \ {<<e[2], heap[e[2]].seq>> : e \in vExpired'}
    BY DEF HandleReadBegin
  <2>2. m_ActiveTimers = {<<b, heap[b].seq>> : b \in Listed}
    BY DEF TimerInv, SetsAgree
  <2>3. m_ActiveTimers' = {<<b, heap[b].seq>> : b \in Listed'}
    BY <1>3, <2>1, <2>2
  <2> QED
    BY <1>1, <2>3 DEF TimerInv, SetsAgree, Allocated
<1>5. ExpiredTimersLive'
  BY <1>1, <1>3 DEF TimerInv, SetsAgree, ExpiredTimersLive, Allocated
<1>6. PendingTimersWait'
  <2>1. \A e \in vExpired' : e[2] \in Listed
    BY <1>1 DEF Listed
  <2> QED
    BY <1>1, <1>3, <2>1 DEF TimerInv, PendingTimersWait, PendingAdd, Allocated
<1> QED
  BY <1>1, <1>4, <1>5, <1>6 DEF TimerInv, IdleInv, TimerFdArmed

\* reset puts the repeating timers back, deletes the others and arms the timerfd.
LEMMA HandleReadEndStep ==
    ASSUME TypeOK, TypeOK', TimerInv, HandleReadEnd
    PROVE  TimerInv'
<1> USE DEF TypeOK
<1>1. /\ m_TimerList' = m_TimerList \union {<<readAt + heap[a].interval, a>> : a \in Again}
      /\ m_ActiveTimers' = m_ActiveTimers \union {<<a, heap[a].seq>> : a \in Again}
      /\ pending' = pending /\ vExpired' = {}
  BY DEF HandleReadEnd
<1>2. Listed' = Listed \union Again
  <2>1. \A b : b \in Listed <=> \E e \in m_TimerList : b = e[2]
    BY DEF Listed
  <2>2. \A b : b \in Listed' <=> \E e \in m_TimerList' : b = e[2]
    BY DEF Listed
  <2>3. \A e : e \in m_TimerList' <=>
          e \in m_TimerList \/ \E a \in Again : e = <<readAt + heap[a].interval, a>>
    BY <1>1
  <2>4. \A a : <<readAt + heap[a].interval, a>>[2] = a
    OBVIOUS
  <2>5. \A a \in Again : a \in Listed'
    BY <2>2, <2>3, <2>4
  <2>6. \A b \in Listed : b \in Listed'
    BY <2>1, <2>2, <2>3
  <2>7. \A b \in Listed' : b \in Listed \/ b \in Again
    BY <2>1, <2>2, <2>3, <2>4
  <2> QED
    BY <2>5, <2>6, <2>7
<1>3. \A a \in Addr : (\A e \in vExpired : e[2] # a) => heap'[a] = heap[a]
  BY DEF HandleReadEnd, Again, Deleted
<1>4. \A a \in Again : /\ a \in Addr
                        /\ heap'[a].seq = heap[a].seq
                        /\ heap'[a].expiration = readAt + heap[a].interval
                        /\ heap[a].seq # 0
  BY DEF HandleReadEnd, Restarted, Again, Deleted, TimerInv, ExpiredTimersLive, Allocated, SetsTypeOK
<1>5. \A a \in Listed : a \in Addr /\ heap'[a] = heap[a]
  BY <1>3 DEF Listed, SetsTypeOK, TimerInv, ExpiredTimersLive
<1>6. SetsAgree'
  <2>1. \A e \in m_TimerList : heap'[e[2]] = heap[e[2]]
    BY <1>5 DEF Listed
  <2>2. \A e \in m_TimerList' : heap'[e[2]].seq # 0 /\ e[1] = heap'[e[2]].expiration
    BY <1>1, <1>4, <2>1 DEF TimerInv, SetsAgree, Allocated
  <2>3. m_ActiveTimers = {<<a, heap'[a].seq>> : a \in Listed}
    BY <1>5 DEF TimerInv, SetsAgree
  <2>4. m_ActiveTimers' = {<<a, heap'[a].seq>> : a \in Listed'}
    BY <1>1, <1>2, <1>4, <2>3
  <2> QED
    BY <2>2, <2>4 DEF SetsAgree, Allocated
<1>7. PendingTimersWait'
  <2>1. \A k \in 1..Len(pending) : PendingAdd(k) =>
          /\ heap'[pending[k].id.m_pTimer] = heap[pending[k].id.m_pTimer]
          /\ pending[k].id.m_pTimer \notin Again
    BY <1>3, PendingType DEF TimerInv, PendingTimersWait, Again, CallsTypeOK
  <2> QED
    BY <1>1, <1>2, <2>1 DEF TimerInv, PendingTimersWait, PendingAdd, Allocated
<1>8. TimerFdArmed'
  <2> SUFFICES ASSUME m_TimerList' # {} PROVE timerFd' # Disarmed
    BY DEF TimerFdArmed
  <2>1. Earliest(m_TimerList') \in Int
    BY EarliestOfList DEF SetsTypeOK
  <2> QED
    BY <2>1, ResetArms DEF HandleReadEnd, HandleTypeOK
<1> QED
  BY <1>1, <1>6, <1>7, <1>8 DEF TimerInv, ExpiredTimersLive, IdleInv

\* The invariant of the timer queue.
THEOREM TimerInvariant == Spec => []TimerInv
<1>1. Init => TimerInv
  BY DEF Init, TimerInv, SetsAgree, ExpiredTimersLive, PendingTimersWait, IdleInv,
         TimerFdArmed, Listed
<1>2. TypeOK /\ TypeOK' /\ TimerInv /\ [Next]_vars => TimerInv'
  <2> SUFFICES ASSUME TypeOK, TypeOK', TimerInv, [Next]_vars PROVE TimerInv'
    OBVIOUS
  <2>1. ASSUME UNCHANGED <<setVars, vExpired, pending>>, at' = "idle" => at = "idle",
               at' = "reported" => at \in {"idle", "reported"},
               timerFd # Disarmed => timerFd' # Disarmed
        PROVE  TimerInv'
    BY <2>1 DEF TimerInv, SetsAgree, ExpiredTimersLive, PendingTimersWait, PendingAdd,
                IdleInv, TimerFdArmed, Allocated, Listed, setVars
  <2>2. CASE UNCHANGED vars
    BY <2>1, <2>2 DEF vars, handleVars
  <2>3. CASE Tick \/ PollTimerFd \/ CallBackReturns \/ \E e \in toRun : RunTimer(e)
    <3>1. timerFd # Disarmed => timerFd' # Disarmed
      BY <2>3 DEF Tick, PollTimerFd, CallBackReturns, RunTimer, TypeOK, SetsTypeOK
    <3> QED
      BY <2>1, <2>3, <3>1 DEF Tick, PollTimerFd, CallBackReturns, RunTimer, handleVars
  <2>4. ASSUME NEW t \in 1..MaxTime, SetClock(t)
        PROVE  TimerInv'
    BY <2>1, <2>4 DEF SetClock, handleVars
  <2>5. ASSUME NEW id \in ids, Cancel(id)
        PROVE  TimerInv'
    BY <2>5, CancelStep DEF Cancel, handleVars, TypeOK, CallsTypeOK
  <2>6. CASE RunPendingCancel
    BY <2>6, CancelStep, HeadOfPending DEF RunPendingCancel, handleVars, TypeOK, CallsTypeOK
  <2> QED
    BY <2>2, <2>3, <2>4, <2>5, <2>6, AddTimerStep, AddTimerFromThreadStep,
       CancelFromThreadStep, RunPendingAddStep, HandleReadBeginStep, HandleReadEndStep
       DEF Next, TimerStep, UserStep
<1> QED
  BY <1>1, <1>2, TimerTypeCorrect, PTL DEF Spec

\* The two sets of a TimerQueue always agree, so that its assertions never fail,
\* however adds and cancels of several threads and of callbacks interleave.
THEOREM TimerSetsAgree == Spec => []SetsAgree
<1>1. TimerInv => SetsAgree
  BY DEF TimerInv
<1> QED
  BY <1>1, TimerInvariant, PTL

\* handleRead never runs, restarts or deletes a Timer that is already deleted.
THEOREM NoTimerUsedAfterDelete == Spec => []ExpiredTimersLive
<1>1. TimerInv => ExpiredTimersLive
  BY DEF TimerInv
<1> QED
  BY <1>1, TimerInvariant, PTL

\* Outside handleRead the timerfd is armed whenever a timer is listed, whatever
\* happens to the wall clock.
THEOREM TimerFdAlwaysArmed == Spec => []TimerFdArmed
<1>1. TimerInv => TimerFdArmed
  BY DEF TimerInv
<1> QED
  BY <1>1, TimerInvariant, PTL

-----------------------------------------------------------------------------
(* When the timerfd is readable                                             *)

\* No entry of the list expires before the timerfd is readable or one unit from t.
InTime(list, fd, t) == \A e \in list : fd <= 1 \/ t + fd <= e[1]

\* The half of TimerFdInTime that speaks of the clock.
InTimeInv ==
    at = "idle" /\ clockSteps = 0 /\ now < MaxTime => InTime(m_TimerList, timerFd, now)

\* insert arms the timerfd again exactly if the new timer is the earliest.
LEMMA AddInLoopInTime ==
    ASSUME SetsTypeOK, now \in Nat, InTime(m_TimerList, timerFd, now),
           NEW a \in Addr, NEW t \in Timer, addTimerInLoop(a, t)
    PROVE  InTime(m_TimerList', timerFd', now)
<1>1. /\ t.expiration \in Nat /\ timerFd \in Int
      /\ \A e \in m_TimerList : e[1] \in Nat
  BY DEF SetsTypeOK
<1>2. m_TimerList' = m_TimerList \union {<<t.expiration, a>>}
  BY DEF addTimerInLoop
<1>3. CASE EarliestChanged(t.expiration)
  <2>1. timerFd' = ResetTimerFd(t.expiration) /\ \A e \in m_TimerList : t.expiration < e[1]
    BY <1>3 DEF addTimerInLoop, EarliestChanged
  <2>2. timerFd' \in Nat /\ (timerFd' <= 1 \/ now + timerFd' = t.expiration)
    BY <1>1, <2>1 DEF ResetTimerFd
  <2>3. \A e \in m_TimerList' : e[1] \in Nat /\ t.expiration <= e[1]
    BY <1>1, <1>2, <2>1
  <2> QED
    BY <1>1, <2>2, <2>3 DEF InTime
<1>4. CASE ~EarliestChanged(t.expiration)
  <2>1. timerFd' = timerFd
    BY <1>4 DEF addTimerInLoop
  <2>2. PICK e \in m_TimerList : ~(t.expiration < e[1])
    BY <1>4 DEF EarliestChanged
  <2>3. timerFd <= 1 \/ now + timerFd <= t.expiration
    BY <1>1, <2>2 DEF InTime
  <2> QED
    BY <1>2, <2>1, <2>3 DEF InTime
<1> QED
  BY <1>3, <1>4

\* While nobody sets the clock, addTimerInLoop, reset and the passing of time keep the
\* timerfd in time.
LEMMA InTimeInvariant == Spec => []InTimeInv
<1>1. Init => InTimeInv
  BY DEF Init, InTimeInv, InTime
<1>2. TypeOK /\ TypeOK' /\ InTimeInv /\ [Next]_vars => InTimeInv'
  <2> SUFFICES ASSUME TypeOK, TypeOK', InTimeInv, [Next]_vars,
                      at' = "idle", clockSteps' = 0, now' < MaxTime
               PROVE  InTime(m_TimerList', timerFd', now')
    BY DEF InTimeInv, InTime
  <2> USE DEF TypeOK
  <2>1. /\ SetsTypeOK /\ now \in Nat /\ timerFd \in Int
        /\ \A e \in m_TimerList : e[1] \in Nat
    BY DEF SetsTypeOK, HandleTypeOK
  <2>2. at = "idle" /\ clockSteps = 0 /\ now < MaxTime => InTime(m_TimerList, timerFd, now)
    BY DEF InTimeInv, InTime
  <2>3. ASSUME UNCHANGED <<at, clockVars, timerFd>>, m_TimerList' \subseteq m_TimerList
        PROVE  InTime(m_TimerList', timerFd', now')
    BY <2>2, <2>3 DEF InTime, clockVars
  <2>4. CASE UNCHANGED vars
    BY <2>3, <2>4 DEF vars, handleVars, setVars
  <2>5. ASSUME NEW a \in Addr, NEW d \in Delay, NEW i \in Interval, AddTimer(a, d, i)
        PROVE  InTime(m_TimerList', timerFd', now')
    <3>1. /\ addTimerInLoop(a, TimerAt(d, i)) /\ TimerAt(d, i) \in Timer
          /\ UNCHANGED <<at, clockVars>>
      BY <2>5, NewTimerType DEF AddTimer, NewTimer, handleVars
    <3> QED
      BY <2>1, <2>2, <3>1, AddInLoopInTime DEF clockVars
  <2>6. CASE RunPendingAdd
    <3> DEFINE a == Head(pending).id.m_pTimer
    <3>1. a \in Addr
      BY <2>6, HeadOfPending DEF RunPendingAdd, CallsTypeOK
    <3>2. addTimerInLoop(a, heap[a]) /\ heap[a] \in Timer /\ UNCHANGED <<at, clockVars>>
      BY <2>6, <3>1 DEF RunPendingAdd, handleVars, SetsTypeOK
    <3> QED
      BY <2>1, <2>2, <3>1, <3>2, AddInLoopInTime DEF clockVars
  <2>7. CASE HandleReadEnd
    <3>1. CASE m_TimerList' = {}
      BY <3>1 DEF InTime
    <3>2. CASE m_TimerList' # {}
      <4>1. /\ Earliest(m_TimerList') \in Nat
            /\ \A e \in m_TimerList' : e[1] \in Nat /\ Earliest(m_TimerList') <= e[1]
        BY <3>2, EarliestOfList DEF SetsTypeOK
      <4>2. timerFd' = ResetTimerFd(Earliest(m_TimerList')) /\ now' = now
        BY <2>7, <3>2 DEF HandleReadEnd, clockVars
      <4>3. timerFd' \in Nat /\ (timerFd' <= 1 \/ now + timerFd' = Earliest(m_TimerList'))
        BY <2>1, <4>1, <4>2 DEF ResetTimerFd
      <4> QED
        BY <2>1, <4>1, <4>2, <4>3 DEF InTime
    <3> QED
      BY <3>1, <3>2
  <2>8. CASE Tick
    <3>1. /\ UNCHANGED <<at, clockSteps, m_TimerList>>
          /\ now' = (IF now < MaxTime THEN now + 1 ELSE now)
          /\ timerFd' = (IF timerFd > 0 THEN timerFd - 1 ELSE timerFd)
      BY <2>8 DEF Tick, handleVars, setVars
    <3>2. now < MaxTime /\ now' = now + 1
      BY <2>1, <3>1, BoundAssumption
    <3>3. InTime(m_TimerList, timerFd, now)
      BY <2>2, <3>1, <3>2
    <3> QED
      BY <2>1, <3>1, <3>2, <3>3 DEF InTime
  <2>9. ASSUME NEW t \in 1..MaxTime, SetClock(t) PROVE FALSE
    BY <2>9 DEF SetClock, HandleTypeOK
  <2>10. ASSUME NEW id \in ids, Cancel(id) \/ CancelFromThread(id)
         PROVE  InTime(m_TimerList', timerFd', now')
    BY <2>3, <2>10 DEF Cancel, CancelFromThread, cancelInLoop, handleVars, setVars
  <2>11. CASE RunPendingCancel
    BY <2>3, <2>11 DEF RunPendingCancel, cancelInLoop, handleVars
  <2>12. ASSUME NEW a \in Addr, NEW d \in Delay, NEW i \in Interval, AddTimerFromThread(a, d, i)
         PROVE  InTime(m_TimerList', timerFd', now')
    BY <2>3, <2>12 DEF AddTimerFromThread, handleVars
  <2>13. ~PollTimerFd /\ ~HandleReadBegin /\ ~CallBackReturns /\ \A e \in toRun : ~RunTimer(e)
    BY DEF PollTimerFd, HandleReadBegin, CallBackReturns, RunTimer
  <2> QED
    BY <2>4, <2>5, <2>6, <2>7, <2>8, <2>9, <2>10, <2>11, <2>12, <2>13 DEF Next, TimerStep, UserStep
<1> QED
  BY <1>1, <1>2, TimerTypeCorrect, PTL DEF Spec

\* Whenever the loop polls while a timer is listed, the timerfd is armed or readable,
\* whatever was done to the clock; while nobody sets the clock a listed timer is due no
\* more than one unit before the timerfd is readable, for any delays and intervals.
THEOREM TimerFdAlwaysInTime == Spec => []TimerFdInTime
<1>1. TimerInv /\ InTimeInv => TimerFdInTime
  BY DEF TimerInv, TimerFdArmed, InTimeInv, InTime, TimerFdInTime
<1> QED
  BY <1>1, TimerInvariant, InTimeInvariant, PTL
=============================================================================
