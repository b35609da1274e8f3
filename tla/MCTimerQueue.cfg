CONSTANTS
    Addr = {a1, a2}
    Delay = {1, 2}
    Interval = {0, 1}
    Start = 1
    MaxTime = 3
    MaxTimers = 2
    MaxPending = 1
    MaxClockSteps = 1
SPECIFICATION FairSpec
INVARIANTS SetsAgree ExpiredTimersLive TimerFdInTime
PROPERTY ListedTimersRun
