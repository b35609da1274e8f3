CONSTANTS
    Conn = {c1}
    MaxThreads = 2
    MaxPending = 2
SPECIFICATION Spec
INVARIANT DestroyedInOwnLoop
\* A failed assertion ends the process.
CHECK_DEADLOCK FALSE
