----------------------------- MODULE EventLoop ------------------------------
(***************************************************************************)
(* reactor/EventLoop: one loop thread, and other threads that hand it work  *)
(* through RunInLoop / QueueInLoop or stop it through Quit.  The shared      *)
(* state is the vector of pending functors (under m_Mutex), the eventfd that *)
(* wakes the poller, and the unlocked flags m_bQuit and m_bCallingFunctors.  *)
(*                                                                         *)
(* A Functor is one call of RunInLoop or QueueInLoop.  What a functor or a   *)
(* channel callback does is arbitrary: while one runs, the loop thread may   *)
(* itself call RunInLoop, QueueInLoop and Quit.                              *)
(***************************************************************************)
EXTENDS Naturals, Sequences

CONSTANTS Thread,       \* the threads other than the loop thread
          LoopThread,   \* m_threadId
          Functor,
          EventFdMax    \* the eventfd counter's largest value (2^64 - 2)

ASSUME LoopThreadAssumption == LoopThread \notin Thread
ASSUME EventFdMaxAssumption == EventFdMax \in Nat \ {0}

VARIABLES
    m_bLooping, m_bQuit, m_bCallingFunctors,
    m_vPendingFunctors,
    vFunctors,      \* doPendingFunctors' local vector, what is left of it
    wakeUpFd,       \* the eventfd's counter
    wakeUpActive,   \* the wake-up channel is in m_ActiveChannels, unhandled
    loopAt,         \* where the loop thread is
    caller,         \* "wake": a thread inside QueueInLoop or Quit, about to WakeUp
    executed,       \* the functors run so far, in order (history)
    silent          \* functors the loop thread queued outside Loop() (history)

loopVars == <<m_bLooping, m_bQuit, m_bCallingFunctors, m_vPendingFunctors,
              vFunctors, wakeUpFd, wakeUpActive, loopAt, caller, executed, silent>>

AnyThread == Thread \union {LoopThread}

\* "out": not inside Loop();  "test": at while (!m_bQuit);  "poll": in Poll;
\* "handle": calling the active channels;  "swap": in doPendingFunctors before
\* the swap;  "run": at its for loop;  "functor": inside a functor.
LoopPlace == {"out", "test", "poll", "handle", "swap", "run", "functor"}

Members(s) == {s[i] : i \in 1..Len(s)}

Fresh(f) == f \notin Members(m_vPendingFunctors \o vFunctors \o executed)

LoopInit ==
    /\ m_bLooping = FALSE
    /\ m_bQuit = FALSE
    /\ m_bCallingFunctors = FALSE
    /\ m_vPendingFunctors = <<>>
    /\ vFunctors = <<>>
    /\ wakeUpFd = 0
    /\ wakeUpActive = FALSE
    /\ loopAt = "out"
    /\ caller = [t \in AnyThread |-> "idle"]
    /\ executed = <<>>
    /\ silent = {}

-----------------------------------------------------------------------------
(* Operations any thread may call.                                          *)

\* The loop thread makes calls before and after Loop() and from callbacks.
CanCall(t) ==
    /\ caller[t] = "idle"
    /\ t = LoopThread => loopAt \in {"out", "handle", "functor"}

\* RunInLoop by the loop thread: the functor is called on the spot.
RunInLoopDirectly(f) ==
    /\ CanCall(LoopThread)
    /\ Fresh(f)
    /\ executed' = Append(executed, f)
    /\ UNCHANGED <<m_bLooping, m_bQuit, m_bCallingFunctors, m_vPendingFunctors,
                   vFunctors, wakeUpFd, wakeUpActive, loopAt, caller, silent>>

\* Mutant: only the calls of other threads wake the loop.
NeedsWakeUpOtherThreads(t) == t # LoopThread

\* The caller goes on to WakeUp unless it is the loop thread outside doPendingFunctors.
NeedsWakeUp(t) == t # LoopThread \/ m_bCallingFunctors

\* QueueInLoop, and RunInLoop by another thread, up to the unlock of m_Mutex.
QueueInLoop(t, f) ==
    /\ CanCall(t)
    /\ Fresh(f)
    /\ m_vPendingFunctors' = Append(m_vPendingFunctors, f)
    /\ caller' = IF NeedsWakeUp(t) THEN [caller EXCEPT ![t] = "wake"] ELSE caller
    /\ silent' = IF t = LoopThread /\ loopAt = "out" THEN silent \union {f} ELSE silent
    /\ UNCHANGED <<m_bLooping, m_bQuit, m_bCallingFunctors, vFunctors,
                   wakeUpFd, wakeUpActive, loopAt, executed>>

\* Mutant: Quit does not wake the loop.
QuitWithoutWakeUp(t) ==
    /\ CanCall(t)
    /\ m_bQuit' = TRUE
    /\ UNCHANGED <<m_bLooping, m_bCallingFunctors, m_vPendingFunctors, vFunctors,
                   wakeUpFd, wakeUpActive, loopAt, caller, executed, silent>>

Quit(t) ==
    /\ CanCall(t)
    /\ m_bQuit' = TRUE
    /\ caller' = IF t # LoopThread THEN [caller EXCEPT ![t] = "wake"] ELSE caller
    /\ UNCHANGED <<m_bLooping, m_bCallingFunctors, m_vPendingFunctors, vFunctors,
                   wakeUpFd, wakeUpActive, loopAt, executed, silent>>

\* The write of 1: at the limit a non-blocking eventfd refuses it (EAGAIN) and
\* the code only logs the error.
EventFdWrite(n) == IF n < EventFdMax THEN n + 1 ELSE n

WakeUp(t) ==
    /\ caller[t] = "wake"
    /\ wakeUpFd' = EventFdWrite(wakeUpFd)
    /\ caller' = [caller EXCEPT ![t] = "idle"]
    /\ UNCHANGED <<m_bLooping, m_bQuit, m_bCallingFunctors, m_vPendingFunctors,
                   vFunctors, wakeUpActive, loopAt, executed, silent>>

-----------------------------------------------------------------------------
(* Loop() and what it calls, on the loop thread.                            *)

\* One step for the stores of m_bLooping and m_bQuit: only this thread's assertions read
\* m_bLooping, so that a Quit between the two is a Quit before both, and as lost as that one.
LoopEnter ==
    /\ loopAt = "out"
    /\ caller[LoopThread] = "idle"
    /\ m_bLooping' = TRUE
    /\ m_bQuit' = FALSE
    /\ loopAt' = "test"
    /\ UNCHANGED <<m_bCallingFunctors, m_vPendingFunctors, vFunctors, wakeUpFd,
                   wakeUpActive, caller, executed, silent>>

LoopLeave ==
    /\ loopAt = "test"
    /\ m_bQuit
    /\ m_bLooping' = FALSE
    /\ loopAt' = "out"
    /\ UNCHANGED <<m_bQuit, m_bCallingFunctors, m_vPendingFunctors, vFunctors,
                   wakeUpFd, wakeUpActive, caller, executed, silent>>

LoopAgain ==
    /\ loopAt = "test"
    /\ ~m_bQuit
    /\ loopAt' = "poll"
    /\ UNCHANGED <<m_bLooping, m_bQuit, m_bCallingFunctors, m_vPendingFunctors,
                   vFunctors, wakeUpFd, wakeUpActive, caller, executed, silent>>

PollReturns(wake) ==
    /\ loopAt = "poll"
    /\ wakeUpActive' = wake
    /\ loopAt' = "handle"
    /\ UNCHANGED <<m_bLooping, m_bQuit, m_bCallingFunctors, m_vPendingFunctors,
                   vFunctors, wakeUpFd, caller, executed, silent>>

\* The poller reports the wake-up channel, among others perhaps.
PollWake == wakeUpFd > 0 /\ PollReturns(TRUE)

\* It returns without it: POLL_TIME_MS is over, or its event array is full of
\* other channels.
PollOther == PollReturns(FALSE)

\* The wake-up channel's callback; reading an eventfd resets its counter.
handleRead ==
    /\ loopAt = "handle"
    /\ wakeUpActive
    /\ caller[LoopThread] = "idle"
    /\ wakeUpActive' = FALSE
    /\ wakeUpFd' = 0
    /\ UNCHANGED <<m_bLooping, m_bQuit, m_bCallingFunctors, m_vPendingFunctors,
                   vFunctors, loopAt, caller, executed, silent>>

\* All active channels are handled: doPendingFunctors begins.
BeginFunctors ==
    /\ loopAt = "handle"
    /\ ~wakeUpActive
    /\ caller[LoopThread] = "idle"
    /\ m_bCallingFunctors' = TRUE
    /\ loopAt' = "swap"
    /\ UNCHANGED <<m_bLooping, m_bQuit, m_vPendingFunctors, vFunctors, wakeUpFd,
                   wakeUpActive, caller, executed, silent>>

\* Mutant: the pending functors are copied, not swapped out.
CopyFunctors ==
    /\ loopAt = "swap"
    /\ vFunctors' = m_vPendingFunctors
    /\ loopAt' = "run"
    /\ UNCHANGED <<m_bLooping, m_bQuit, m_bCallingFunctors, m_vPendingFunctors,
                   wakeUpFd, wakeUpActive, caller, executed, silent>>

SwapFunctors ==
    /\ loopAt = "swap"
    /\ vFunctors' = m_vPendingFunctors
    /\ m_vPendingFunctors' = <<>>
    /\ loopAt' = "run"
    /\ UNCHANGED <<m_bLooping, m_bQuit, m_bCallingFunctors, wakeUpFd,
                   wakeUpActive, caller, executed, silent>>

CallFunctor ==
    /\ loopAt = "run"
    /\ vFunctors # <<>>
    /\ executed' = Append(executed, Head(vFunctors))
    /\ vFunctors' = Tail(vFunctors)
    /\ loopAt' = "functor"
    /\ UNCHANGED <<m_bLooping, m_bQuit, m_bCallingFunctors, m_vPendingFunctors,
                   wakeUpFd, wakeUpActive, caller, silent>>

FunctorReturns ==
    /\ loopAt = "functor"
    /\ caller[LoopThread] = "idle"
    /\ loopAt' = "run"
    /\ UNCHANGED <<m_bLooping, m_bQuit, m_bCallingFunctors, m_vPendingFunctors,
                   vFunctors, wakeUpFd, wakeUpActive, caller, executed, silent>>

EndFunctors ==
    /\ loopAt = "run"
    /\ vFunctors = <<>>
    /\ m_bCallingFunctors' = FALSE
    /\ loopAt' = "test"
    /\ UNCHANGED <<m_bLooping, m_bQuit, m_vPendingFunctors, vFunctors, wakeUpFd,
                   wakeUpActive, caller, executed, silent>>

-----------------------------------------------------------------------------

\* The loop thread's own progress, entering Loop() and PollOther left out.
LoopStep ==
    \/ LoopLeave \/ LoopAgain \/ PollWake \/ handleRead
    \/ BeginFunctors \/ SwapFunctors \/ CallFunctor \/ FunctorReturns \/ EndFunctors

Call(t) == Quit(t) \/ \E f \in Functor : QueueInLoop(t, f)

LoopNext ==
    \/ LoopEnter \/ PollOther \/ LoopStep
    \/ \E f \in Functor : RunInLoopDirectly(f)
    \/ \E t \in AnyThread : Call(t) \/ WakeUp(t)

LoopSpec == LoopInit /\ [][LoopNext]_loopVars

\* Threads inside a call and callbacks get on with it; nothing forces a thread
\* to call, a loop to be entered, or the poll to time out.
LoopFairness ==
    /\ WF_loopVars(LoopStep)
    /\ \A t \in AnyThread : WF_loopVars(WakeUp(t))

FairLoopSpec == LoopSpec /\ LoopFairness

-----------------------------------------------------------------------------

\* The type invariant: the eventfd counter stays within its limit, and vectors hold functors.
LoopTypeOK ==
    /\ m_bLooping \in BOOLEAN
    /\ m_bQuit \in BOOLEAN
    /\ m_bCallingFunctors \in BOOLEAN
    /\ m_vPendingFunctors \in Seq(Functor)
    /\ vFunctors \in Seq(Functor)
    /\ wakeUpFd \in 0..EventFdMax
    /\ wakeUpActive \in BOOLEAN
    /\ loopAt \in LoopPlace
    /\ caller \in [AnyThread -> {"idle", "wake"}]
    /\ executed \in Seq(Functor)
    /\ silent \in SUBSET Functor

\* A wake-up is on its way: the eventfd is readable, or a thread inside
\* QueueInLoop or Quit has still to write it.
WakeUpComing == wakeUpFd > 0 \/ \E t \in AnyThread : caller[t] = "wake"

\* No wake-up is lost: the loop never sits in Poll with a functor that another
\* thread (or a functor) queued, or with a Quit, that nothing will wake it for
\* (QueueInLoop and Quit call WakeUp after, not before, they change the state).
\* Functors the loop thread queued before Loop() are the exception: QueueInLoop
\* does not call WakeUp for them and they wait for the poll's timeout.
NoLostWakeUp ==
    loopAt = "poll" /\ (m_bQuit \/ Members(m_vPendingFunctors) \ silent # {})
        => WakeUpComing

\* Why it holds.  First, what the loop thread's place says of the other state.
PlaceInv ==
    /\ m_bCallingFunctors <=> loopAt \in {"swap", "run", "functor"}
    /\ m_bLooping <=> loopAt # "out"
    /\ vFunctors # <<>> => loopAt \in {"run", "functor"}
    /\ caller[LoopThread] = "wake" => loopAt = "functor"

\* Second, from the swap to the next poll's return a functor that is pending has
\* had its wake-up, or will have it.
PendingWakeUpInv ==
    loopAt \notin {"handle", "swap"} /\ Members(m_vPendingFunctors) \ silent # {}
        => WakeUpComing

\* Third, a Quit stored since the loop tested m_bQuit wakes it.
QuitWakeUpInv == loopAt = "poll" /\ m_bQuit => WakeUpComing

LoopInv == PlaceInv /\ PendingWakeUpInv /\ QuitWakeUpInv

\* The loop thread is a serial executor: the batch doPendingFunctors has taken,
\* followed by the pending functors, is the queue (no functor is lost, run twice
\* or run out of order by the swap, whoever queues meanwhile).
Executor == INSTANCE SerialExecutor WITH queue <- vFunctors \o m_vPendingFunctors

\* Every step of the loop and of its callers is a step of that executor, or none: the
\* abstract specification of QueueInLoop and doPendingFunctors.
ImplementsSerialExecutor == Executor!Spec

\* A functor that was queued with a wake-up is run, or the loop is left, without
\* the help of the poll's timeout.
QueuedFunctorsRun ==
    \A f \in Functor :
        f \in Members(vFunctors \o m_vPendingFunctors) \ silent
            ~> f \in Members(executed) \/ loopAt = "out"
=============================================================================
