CONSTANTS
    NULL = NULL
    LineLength = {1, 3}
    BufferSize = 3
    MaxBuffers = 2
    MaxLines = 3
    MaxTime = 3
    RollSize = 2
    CheckTimeRoll = 1
    Day = 3
    FlushInterval = 0
SPECIFICATION FairSpec
INVARIANTS LinesInOrder RollsInTime
PROPERTIES StopReturns LinesReachDisk
\* The object's life ends.
CHECK_DEADLOCK FALSE
