CONSTANTS
    Thread = {t1}
    Message = {m1, m2}
    MessageLength = 2
    SendBuffer = 2
    MaxInput = 1
SPECIFICATION FairSpec
INVARIANTS StreamInOrder OutputIsWatched NoAssertionFails WatchedIsAlive
PROPERTIES OutputBeforeShutDown ShutDownHappens ClosedIsDestroyed
\* LOG_FATAL, or an undefined call, ends the process.
CHECK_DEADLOCK FALSE
