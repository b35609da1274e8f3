CONSTANTS
    Addr = {a1}
    Delay = {1}
    Interval = {1}
    Start = 1
    MaxTime = 3
    MaxTimers = 1
    MaxPending = 1
    MaxClockSteps = 0
SPECIFICATION Spec
INVARIANT CancelledTimersGone
