-------------------------- MODULE EventLoopThread ---------------------------
(***************************************************************************)
(* reactor/EventLoopThread composed with the EventLoop that lives on its     *)
(* thread's stack.  The owner calls StartLoop, uses the loop and destroys    *)
(* the object; threadFunc constructs the loop, publishes its address, runs   *)
(* Loop() once and destroys the loop when it returns.  Or the loop has no    *)
(* EventLoopThread: a thread of the program constructs it and calls Loop()   *)
(* when it likes, as the main thread does with a server's base loop.         *)
(***************************************************************************)
EXTENDS EventLoop

CONSTANT Owner
ASSUME OwnerAssumption == Owner \in Thread

VARIABLES
    m_pEventLoop,   \* NULL or the address of the loop
    ownerAt,        \* where the owner is
    threadAt        \* where threadFunc is: the loop is alive in "published" and "looping";
                    \* or "main": the loop has no EventLoopThread

threadVars == <<m_pEventLoop, ownerAt, threadAt>>
allVars == <<loopVars, threadVars>>

OwnerPlace == {"constructed", "check", "wait", "using", "dtor", "quit", "join",
               "gone", "undefined"}
ThreadPlace == {"none", "started", "published", "looping", "ended", "main"}

\* The EventLoop object exists.
LoopAlive == threadAt \in {"published", "looping", "main"}

\* Loop() is called, or may be.
Looping == threadAt \in {"looping", "main"}

ThreadInit ==
    /\ LoopInit
    /\ m_pEventLoop = "NULL"
    /\ ownerAt = "constructed"
    /\ threadAt \in {"none", "main"}

\* A loop without an EventLoopThread.
MainLoop == threadAt = "main" /\ LoopNext /\ UNCHANGED threadVars

-----------------------------------------------------------------------------
(* threadFunc                                                               *)

\* Mutant: the loop is published without a notification.
ThreadPublishSilently ==
    /\ threadAt = "started"
    /\ m_pEventLoop' = "loop"
    /\ threadAt' = "published"
    /\ UNCHANGED <<loopVars, ownerAt>>

\* EventLoop eventLoop; then, under m_Mutex, publish and Notify.
ThreadPublish ==
    /\ threadAt = "started"
    /\ m_pEventLoop' = "loop"
    /\ ownerAt' = IF ownerAt = "wait" THEN "check" ELSE ownerAt
    /\ threadAt' = "published"
    /\ UNCHANGED loopVars

ThreadLoop ==
    /\ threadAt = "published"
    /\ LoopEnter
    /\ threadAt' = "looping"
    /\ UNCHANGED <<m_pEventLoop, ownerAt>>

\* Loop() has returned: the EventLoop is destroyed and the thread ends.
ThreadEnd ==
    /\ threadAt = "looping"
    /\ loopAt = "out"
    /\ threadAt' = "ended"
    /\ UNCHANGED <<loopVars, m_pEventLoop, ownerAt>>

\* Between the two: the loop thread runs, and its callbacks make calls.
ThreadInLoop ==
    /\ threadAt = "looping"
    /\ loopAt # "out"
    /\ \/ LoopStep
       \/ PollOther
       \/ Call(LoopThread)
       \/ WakeUp(LoopThread)
       \/ \E f \in Functor : RunInLoopDirectly(f)
    /\ UNCHANGED threadVars

-----------------------------------------------------------------------------
(* StartLoop, uses of the returned pointer, and the destructor              *)

StartLoop ==
    /\ ownerAt = "constructed" /\ threadAt = "none"
    /\ threadAt' = "started"
    /\ ownerAt' = "check"
    /\ UNCHANGED <<loopVars, m_pEventLoop>>

\* while (NULL == m_pEventLoop) m_Cond.Wait(), with m_Mutex held.
StartLoopWait ==
    /\ ownerAt = "check"
    /\ ownerAt' = IF m_pEventLoop = "NULL" THEN "wait" ELSE "using"
    /\ UNCHANGED <<loopVars, m_pEventLoop, threadAt>>

\* RunInLoop, QueueInLoop or Quit through the pointer, while the loop is alive.
OwnerCall ==
    /\ ownerAt = "using"
    /\ LoopAlive
    /\ Call(Owner)
    /\ UNCHANGED threadVars

\* The owner may have handed the pointer to other threads.
OtherCall(t) ==
    /\ ownerAt \in {"using", "dtor", "quit", "join"}
    /\ LoopAlive
    /\ Call(t)
    /\ UNCHANGED threadVars

\* ~EventLoopThread: m_bExiting = true (nothing reads it).
Destroy ==
    /\ ownerAt = "using"
    /\ caller[Owner] = "idle"
    /\ ownerAt' = "dtor"
    /\ UNCHANGED <<loopVars, m_pEventLoop, threadAt>>

\* m_pEventLoop->Quit(), on an object that may be gone.
DestructorQuit ==
    /\ ownerAt = "dtor"
    /\ IF LoopAlive
         THEN Quit(Owner) /\ ownerAt' = "quit"
         ELSE UNCHANGED loopVars /\ ownerAt' = "undefined"
    /\ UNCHANGED <<m_pEventLoop, threadAt>>

\* The WakeUp at the end of the owner's QueueInLoop or Quit reads m_nWakeUpFd.
OwnerWakeUp ==
    /\ ownerAt \in {"using", "quit"}
    /\ caller[Owner] = "wake"
    /\ IF LoopAlive
         THEN WakeUp(Owner) /\ ownerAt' = IF ownerAt = "quit" THEN "join" ELSE ownerAt
         ELSE UNCHANGED loopVars /\ ownerAt' = "undefined"
    /\ UNCHANGED <<m_pEventLoop, threadAt>>

OtherWakeUp(t) ==
    /\ caller[t] = "wake"
    /\ IF LoopAlive
         THEN WakeUp(t) /\ UNCHANGED ownerAt
         ELSE UNCHANGED loopVars /\ ownerAt' = "undefined"
    /\ UNCHANGED <<m_pEventLoop, threadAt>>

\* m_Thread.Join() returns once the thread has ended.
Join ==
    /\ ownerAt = "join"
    /\ threadAt = "ended"
    /\ ownerAt' = "gone"
    /\ UNCHANGED <<loopVars, m_pEventLoop, threadAt>>

-----------------------------------------------------------------------------

ThreadStep == ThreadPublish \/ ThreadLoop \/ ThreadEnd
OwnerStep  == StartLoopWait \/ DestructorQuit \/ OwnerWakeUp \/ Join

ThreadNext ==
    /\ ownerAt # "undefined"
    /\ \/ MainLoop
       \/ ThreadStep \/ ThreadInLoop
       \/ OwnerStep \/ StartLoop \/ OwnerCall \/ Destroy
       \/ \E t \in Thread \ {Owner} : OtherCall(t) \/ OtherWakeUp(t)

\* The operating system runs all threads; nothing forces a thread to call anything, nor the
\* poll to time out.
ThreadSpec ==
    /\ ThreadInit /\ [][ThreadNext]_allVars
    /\ WF_allVars(ThreadStep)
    /\ WF_allVars(OwnerStep)
    /\ WF_allVars(Looping /\ LoopStep /\ UNCHANGED threadVars)
    /\ WF_allVars(Looping /\ WakeUp(LoopThread) /\ UNCHANGED threadVars)
    /\ WF_allVars(threadAt = "main" /\ WakeUp(Owner) /\ UNCHANGED threadVars)
    /\ \A t \in Thread \ {Owner} : WF_allVars(OtherWakeUp(t))

-----------------------------------------------------------------------------

StartLoopReturns == ownerAt = "check" ~> ownerAt = "using"
DestructorEndsLoop == ownerAt = "dtor" /\ m_bLooping ~> threadAt = "ended"

\* The owner is never left waiting: StartLoop's notification is not lost, whether threadFunc
\* publishes the loop before or after the owner waits; and the Quit of a destructor that finds
\* the loop inside Loop() is noticed, so that Join can return.
OwnerNotLeftWaiting == StartLoopReturns /\ DestructorEndsLoop
=============================================================================
