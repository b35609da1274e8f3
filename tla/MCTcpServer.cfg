CONSTANTS
    Conn = {c1, c2}
    MaxThreads = 1
    MaxPending = 2
SPECIFICATION FairSpec
INVARIANTS WatchedIsOwned EstablishedFirst NoAssertionFails
PROPERTY ClosedIsRemoved
\* A failed assertion ends the process.
CHECK_DEADLOCK FALSE
