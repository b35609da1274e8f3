----------------------------- MODULE TimerQueue -----------------------------
(***************************************************************************)
(* reactor/TimerQueue with Timer and TimerId.  The loop thread owns the two  *)
(* sets m_TimerList (by expiration) and m_ActiveTimers (by identity) and the *)
(* timerfd; other threads reach them only through the loop's functor queue,  *)
(* which is first-in-first-out (SerialExecutor).  Time is counted in units   *)
(* of 100 microseconds, the shortest delay resetTimerFd sets.                *)
(*                                                                         *)
(* A timer's callback is arbitrary: it may add timers and cancel any timer,  *)
(* its own included.                                                        *)
(***************************************************************************)
EXTENDS Integers, Sequences

CONSTANTS
    Addr,           \* the addresses a Timer can be allocated at
    Delay,          \* when - now of an added timer
    Interval,       \* dInterval; 0 is a timer that does not repeat
    Start,          \* the wall clock at the start (no TimeStamp is invalid)
    MaxTime,        \* bound: the wall clock stands still there
    MaxTimers,      \* bound: timers created
    MaxPending,     \* bound: calls of other threads waiting in the loop
    MaxClockSteps   \* bound: times somebody sets the wall clock

ASSUME DelayAssumption == Delay \subseteq Nat
ASSUME IntervalAssumption == Interval \subseteq Nat
ASSUME BoundAssumption ==
    /\ MaxTime \in Nat /\ MaxTimers \in Nat /\ MaxPending \in Nat
    /\ MaxClockSteps \in Nat /\ Start \in 1..MaxTime

VARIABLES
    now,                    \* the wall clock, TimeStamp::Now()
    timerFd,                \* ticks until it is readable, or Disarmed
    heap,                   \* the Timer at each address, or Freed
    s_NumCreated,
    m_TimerList,            \* set of <<expiration, address>>
    m_ActiveTimers,         \* set of <<address, sequence>>
    m_CancelTimers,
    m_bCallingExpiredTimer,
    vExpired, toRun,        \* handleRead's vector, and what is left of its loop
    readAt,                 \* handleRead's now
    at,                     \* where the loop thread is: "reported", its handleRead is ahead
    pending,                \* other threads' addTimerInLoop and cancelInLoop calls
    ids,                    \* the TimerIds handed out
    clockSteps,
    cancelled, fired        \* sequences held when cancelInLoop was called / run (history)

clockVars == <<now, clockSteps>>
setVars == <<heap, m_TimerList, m_ActiveTimers>>
handleVars == <<m_bCallingExpiredTimer, vExpired, toRun, readAt, at, fired>>
vars == <<clockVars, timerFd, setVars, s_NumCreated, m_CancelTimers, handleVars,
          pending, ids, cancelled>>

Disarmed == -1
Freed == [seq |-> 0, expiration |-> 0, interval |-> 0]
Allocated(a) == heap[a].seq # 0

\* What AddTimer returns, and (for the properties) the timer it stands for.
\* TimerId(pTimer) leaves m_Seq at its default.
TimerId(a, seq) == [m_pTimer |-> a, m_Seq |-> 0, timer |-> seq]

Init ==
    /\ now = Start
    /\ timerFd = Disarmed
    /\ heap = [a \in Addr |-> Freed]
    /\ s_NumCreated = 0
    /\ m_TimerList = {} /\ m_ActiveTimers = {} /\ m_CancelTimers = {}
    /\ m_bCallingExpiredTimer = FALSE
    /\ vExpired = {} /\ toRun = {} /\ readAt = Start
    /\ at = "idle"
    /\ pending = <<>>
    /\ ids = {}
    /\ clockSteps = 0
    /\ cancelled = {} /\ fired = {}

-----------------------------------------------------------------------------
(* The two sets and the timerfd                                             *)

\* howMuchTimeFromNow: at least one unit from now.
ResetTimerFd(expiration) == IF expiration - now < 1 THEN 1 ELSE expiration - now

\* Mutant: the first timer does not count as a change.
EarliestChangedOfSome(when) ==
    m_TimerList # {} /\ \A e \in m_TimerList : when < e[1]

\* insert, on the loop thread: whether the earliest expiration changed.
EarliestChanged(when) == \A e \in m_TimerList : when < e[1]

\* Mutant: the last entry.
Latest(list) == CHOOSE t \in {e[1] : e \in list} : \A e \in list : e[1] <= t

\* Timer::GetExpiration of the first entry of a list that is not empty.
Earliest(list) == CHOOSE t \in {e[1] : e \in list} : \A e \in list : t <= e[1]

\* new Timer: the allocator picks an address that is free.
NewTimer(a) ==
    /\ s_NumCreated < MaxTimers
    /\ ~Allocated(a)
    /\ s_NumCreated' = s_NumCreated + 1
    /\ ids' = ids \union {TimerId(a, s_NumCreated + 1)}

TimerAt(delay, interval) ==
    [seq |-> s_NumCreated + 1, expiration |-> now + delay, interval |-> interval]

\* addTimerInLoop of a Timer t at address a.
addTimerInLoop(a, t) ==
    /\ m_TimerList' = m_TimerList \union {<<t.expiration, a>>}
    /\ m_ActiveTimers' = m_ActiveTimers \union {<<a, t.seq>>}
    /\ timerFd' = IF EarliestChanged(t.expiration) THEN ResetTimerFd(t.expiration)
                                                   ELSE timerFd

\* The timers in m_TimerList.
Listed == {e[2] : e \in m_TimerList}

\* The queue has the timer that a TimerId was handed out for: it is in the sets, or
\* handleRead has it in its vector.  A timer whose addTimerInLoop is still queued,
\* or that was deleted, is not held.
Held(id) ==
    LET a == id.m_pTimer
    IN  heap[a].seq = id.timer /\ (a \in Listed \/ \E e \in vExpired : e[2] = a)

\* Mutant: a timer that is being run is deleted at once.
cancelAndDelete(id) ==
    LET a == id.m_pTimer
        timer == <<a, id.m_Seq>>
        found == timer \in m_ActiveTimers
    IN  /\ m_TimerList' = IF found THEN m_TimerList \ {<<heap[a].expiration, a>>}
                                   ELSE m_TimerList
        /\ m_ActiveTimers' = m_ActiveTimers \ {timer}
        /\ heap' = IF found \/ m_bCallingExpiredTimer THEN [heap EXCEPT ![a] = Freed]
                                                      ELSE heap
        /\ cancelled' = IF Held(id) THEN cancelled \union {id.timer} ELSE cancelled
        /\ UNCHANGED m_CancelTimers

cancelInLoop(id) ==
    LET a == id.m_pTimer
        timer == <<a, id.m_Seq>>
        found == timer \in m_ActiveTimers
    IN  /\ m_TimerList' = IF found THEN m_TimerList \ {<<heap[a].expiration, a>>}
                                   ELSE m_TimerList
        /\ m_ActiveTimers' = m_ActiveTimers \ {timer}
        /\ heap' = IF found THEN [heap EXCEPT ![a] = Freed] ELSE heap
        /\ m_CancelTimers' = IF ~found /\ m_bCallingExpiredTimer
                               THEN m_CancelTimers \union {timer} ELSE m_CancelTimers
        /\ cancelled' = IF Held(id) THEN cancelled \union {id.timer} ELSE cancelled

-----------------------------------------------------------------------------
(* AddTimer and Cancel                                                      *)

\* The loop thread calls from a timer's callback, or from any other callback.
InCallBack == at \in {"idle", "reported", "callback"}

AddTimer(a, delay, interval) ==
    /\ InCallBack
    /\ NewTimer(a)
    /\ heap' = [heap EXCEPT ![a] = TimerAt(delay, interval)]
    /\ addTimerInLoop(a, TimerAt(delay, interval))
    /\ UNCHANGED <<clockVars, m_CancelTimers, handleVars, pending, cancelled>>

Cancel(id) ==
    /\ InCallBack
    /\ cancelInLoop(id)
    /\ UNCHANGED <<clockVars, timerFd, s_NumCreated, handleVars, pending, ids>>

\* The same calls from another thread queue a functor.
AddTimerFromThread(a, delay, interval) ==
    /\ Len(pending) < MaxPending
    /\ NewTimer(a)
    /\ heap' = [heap EXCEPT ![a] = TimerAt(delay, interval)]
    /\ pending' = Append(pending, [call |-> "add", id |-> TimerId(a, s_NumCreated + 1)])
    /\ UNCHANGED <<clockVars, timerFd, m_TimerList, m_ActiveTimers, m_CancelTimers,
                   handleVars, cancelled>>

CancelFromThread(id) ==
    /\ Len(pending) < MaxPending
    /\ pending' = Append(pending, [call |-> "cancel", id |-> id])
    /\ UNCHANGED <<clockVars, timerFd, setVars, s_NumCreated, m_CancelTimers,
                   handleVars, ids, cancelled>>

\* doPendingFunctors reaches a queued call.
RunPendingAdd ==
    /\ at = "idle"
    /\ pending # <<>> /\ Head(pending).call = "add"
    /\ LET a == Head(pending).id.m_pTimer IN addTimerInLoop(a, heap[a])
    /\ pending' = Tail(pending)
    /\ UNCHANGED <<clockVars, heap, s_NumCreated, m_CancelTimers, handleVars, ids,
                   cancelled>>

RunPendingCancel ==
    /\ at = "idle"
    /\ pending # <<>> /\ Head(pending).call = "cancel"
    /\ cancelInLoop(Head(pending).id)
    /\ pending' = Tail(pending)
    /\ UNCHANGED <<clockVars, timerFd, s_NumCreated, handleVars, ids>>

-----------------------------------------------------------------------------
(* handleRead                                                               *)

\* The poller reports that the timerfd is readable.
PollTimerFd ==
    /\ at = "idle"
    /\ timerFd = 0
    /\ at' = "reported"
    /\ UNCHANGED <<clockVars, timerFd, setVars, s_NumCreated, m_CancelTimers,
                   m_bCallingExpiredTimer, vExpired, toRun, readAt, fired, pending, ids,
                   cancelled>>

\* readTimerFd, which fails when a callback before this one has armed the timerfd
\* again; and getExpired: the entries up to now leave both sets.
HandleReadBegin ==
    /\ at = "reported"
    /\ timerFd' = IF timerFd = 0 THEN Disarmed ELSE timerFd
    /\ readAt' = now
    /\ vExpired' = {e \in m_TimerList : e[1] <= now}
    /\ toRun' = vExpired'
    /\ m_TimerList' = m_TimerList \ vExpired'
    /\ m_ActiveTimers' = m_ActiveTimers \ {<<e[2], heap[e[2]].seq>> : e \in vExpired'}
    /\ m_bCallingExpiredTimer' = TRUE
    /\ m_CancelTimers' = {}
    /\ at' = "handle"
    /\ UNCHANGED <<clockVars, heap, s_NumCreated, pending, ids, cancelled, fired>>

\* Timer::Run of the next entry, the earliest first.
RunTimer(e) ==
    /\ at = "handle"
    /\ \A d \in toRun : e[1] <= d[1]
    /\ toRun' = toRun \ {e}
    /\ fired' = fired \union {heap[e[2]].seq}
    /\ at' = "callback"
    /\ UNCHANGED <<clockVars, timerFd, setVars, s_NumCreated, m_CancelTimers,
                   m_bCallingExpiredTimer, vExpired, readAt, pending, ids, cancelled>>

CallBackReturns ==
    /\ at = "callback"
    /\ at' = "handle"
    /\ UNCHANGED <<clockVars, timerFd, setVars, s_NumCreated, m_CancelTimers,
                   m_bCallingExpiredTimer, vExpired, toRun, readAt, fired, pending, ids,
                   cancelled>>

\* reset: the addresses whose timer goes on, those that are deleted.
Repeats(a) == heap[a].interval > 0 /\ <<a, heap[a].seq>> \notin m_CancelTimers
Again   == {a \in Addr : (\E e \in vExpired : e[2] = a) /\ Repeats(a)}
Deleted == {a \in Addr : (\E e \in vExpired : e[2] = a) /\ ~Repeats(a)}

\* Mutant: the Timer keeps its old expiration.
NotRestarted(a) == heap[a]

\* Timer::Restart.
Restarted(a) == [heap[a] EXCEPT !.expiration = readAt + heap[a].interval]

HandleReadEnd ==
    /\ at = "handle"
    /\ toRun = {}
    /\ m_bCallingExpiredTimer' = FALSE
    /\ heap' = [a \in Addr |->
                  IF a \in Deleted THEN Freed
                  ELSE IF a \in Again THEN Restarted(a) ELSE heap[a]]
    /\ m_TimerList' = m_TimerList \union {<<readAt + heap[a].interval, a>> : a \in Again}
    /\ m_ActiveTimers' = m_ActiveTimers \union {<<a, heap[a].seq>> : a \in Again}
    /\ timerFd' = IF m_TimerList' = {} THEN timerFd
                                       ELSE ResetTimerFd(Earliest(m_TimerList'))
    /\ vExpired' = {}
    /\ at' = "idle"
    /\ UNCHANGED <<clockVars, s_NumCreated, m_CancelTimers, toRun, readAt, pending, ids,
                   cancelled, fired>>

-----------------------------------------------------------------------------
(* Clocks: the timerfd counts CLOCK_MONOTONIC, TimeStamp::Now is the wall    *)
(* clock, which may also be set.                                            *)

Tick ==
    /\ now' = IF now < MaxTime THEN now + 1 ELSE now
    /\ timerFd' = IF timerFd > 0 THEN timerFd - 1 ELSE timerFd
    /\ UNCHANGED <<setVars, s_NumCreated, m_CancelTimers, handleVars, pending, ids,
                   clockSteps, cancelled>>

SetClock(t) ==
    /\ clockSteps < MaxClockSteps
    /\ clockSteps' = clockSteps + 1
    /\ now' = t
    /\ UNCHANGED <<timerFd, setVars, s_NumCreated, m_CancelTimers, handleVars, pending,
                   ids, cancelled>>

-----------------------------------------------------------------------------

TimerStep ==
    \/ RunPendingAdd \/ RunPendingCancel
    \/ PollTimerFd \/ HandleReadBegin \/ CallBackReturns \/ HandleReadEnd
    \/ \E e \in toRun : RunTimer(e)

UserStep ==
    \/ \E a \in Addr, d \in Delay, i \in Interval :
          AddTimer(a, d, i) \/ AddTimerFromThread(a, d, i)
    \/ \E id \in ids : Cancel(id) \/ CancelFromThread(id)

Next == TimerStep \/ UserStep \/ Tick \/ \E t \in 1..MaxTime : SetClock(t)

Spec == Init /\ [][Next]_vars

\* The loop goes on and callbacks return; one batch of functors does not keep the
\* loop from polling the timerfd again; time passes.
FairSpec == Spec /\ WF_vars(TimerStep) /\ WF_vars(PollTimerFd) /\ WF_vars(Tick)

-----------------------------------------------------------------------------

Sequence == 1..MaxTimers
TimerIds == [m_pTimer : Addr, m_Seq : 0..MaxTimers, timer : Sequence]

Timer == [seq : 0..MaxTimers, expiration : Nat, interval : Interval \union {0}]

QueuedCall == [call : {"add", "cancel"}, id : TimerIds]

SetsTypeOK ==
    /\ timerFd \in Nat \union {Disarmed}
    /\ heap \in [Addr -> Timer]
    /\ m_TimerList \subseteq Nat \X Addr
    /\ m_ActiveTimers \subseteq Addr \X (0..MaxTimers)
    /\ m_CancelTimers \subseteq Addr \X (0..MaxTimers)
    /\ cancelled \subseteq Sequence

CallsTypeOK ==
    /\ s_NumCreated \in 0..MaxTimers
    /\ ids \subseteq TimerIds
    /\ pending \in Seq(QueuedCall)

HandleTypeOK ==
    /\ now \in Nat /\ clockSteps \in Nat /\ readAt \in Nat
    /\ vExpired \subseteq Nat \X Addr /\ toRun \subseteq vExpired
    /\ at \in {"idle", "reported", "handle", "callback"}
    /\ fired \subseteq 0..MaxTimers

\* The type invariant: sequences stay below the number of timers created, the timerfd counts
\* down to zero, and what is left to run was taken out of the list.
TypeOK ==
    /\ SetsTypeOK /\ CallsTypeOK /\ HandleTypeOK
    /\ m_bCallingExpiredTimer \in BOOLEAN

\* The two sets describe the same timers, each allocated, with the expiration and
\* sequence it has now: what the size assertions in insert, cancelInLoop and
\* getExpired, and the 1 == n assertions on erase, rest on.
SetsAgree ==
    /\ \A e \in m_TimerList : Allocated(e[2]) /\ e[1] = heap[e[2]].expiration
    /\ m_ActiveTimers = {<<a, heap[a].seq>> : a \in Listed}

\* A Timer that handleRead still has to run, restart or delete is allocated and in
\* neither set, whatever the callbacks before it did: no use after delete.
ExpiredTimersLive ==
    \A e \in vExpired : Allocated(e[2]) /\ e[2] \notin Listed

\* No timer is forgotten: outside handleRead the timerfd is armed (or readable)
\* while a timer is listed, even after the wall clock was set back or forward.
TimerFdArmed == at = "idle" /\ m_TimerList # {} => timerFd # Disarmed

\* What makes these inductive: a timer whose addTimerInLoop is still queued is
\* allocated, is nowhere else, and is queued once.
PendingAdd(i) == pending[i].call = "add"
PendingTimersWait ==
    /\ \A i \in 1..Len(pending) : PendingAdd(i) =>
         /\ Allocated(pending[i].id.m_pTimer)
         /\ pending[i].id.m_pTimer \notin Listed
         /\ \A e \in vExpired : e[2] # pending[i].id.m_pTimer
    /\ \A i, j \in 1..Len(pending) : PendingAdd(i) /\ PendingAdd(j) /\ i # j
                             => pending[i].id.m_pTimer # pending[j].id.m_pTimer

IdleInv == at \in {"idle", "reported"} => vExpired = {}

TimerInv == SetsAgree /\ ExpiredTimersLive /\ PendingTimersWait /\ IdleInv /\ TimerFdArmed

\* No timer is forgotten and none is late by more than the shortest delay: while one
\* is listed and the loop polls, the timerfd is armed or readable, whatever was done
\* to the wall clock, and unless somebody set the clock it becomes readable at the
\* earliest expiration or one unit from now.
TimerFdInTime ==
    at = "idle" /\ m_TimerList # {} =>
        /\ timerFd # Disarmed
        /\ clockSteps = 0 /\ now < MaxTime =>
             \A e \in m_TimerList : timerFd <= 1 \/ now + timerFd <= e[1]

\* Every entry of the list that is due before the clock's bound, of a timer nobody
\* cancels, is taken out and run: each round of a repeating timer, too, and after
\* the wall clock was set.
ListedTimersRun ==
    \A e \in (1..MaxTime) \X Addr :
        e \in m_TimerList /\ heap[e[2]].seq \notin cancelled
            ~> e \in vExpired \/ heap[e[2]].seq \in cancelled

\* Cancel works: once cancelInLoop was called for a timer that the queue had, the
\* next poll finds it gone from the list, so that it is not run again.
CancelledTimersGone ==
    at = "idle" => \A a \in Listed : heap[a].seq \notin cancelled
=============================================================================
