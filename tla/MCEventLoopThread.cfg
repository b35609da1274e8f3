CONSTANTS
    LoopThread = loop
    Owner = owner
    Thread = {owner, other}
    Functor = {f1, f2, f3}
    EventFdMax = 1
SPECIFICATION ThreadSpec
INVARIANT NoLostWakeUp
PROPERTIES ImplementsSerialExecutor QueuedFunctorsRun OwnerNotLeftWaiting
\* The object's life ends.
CHECK_DEADLOCK FALSE
