CONSTANTS
    MaxConn = 2
    MaxStarts = 2
    InitRetryDelay = 2
    MaxRetryDelay = 3
SPECIFICATION FairSpec
INVARIANTS OneAttempt CallBacksFindClient DescriptorsOwned
PROPERTY ClosedIsReplaced
\* A failed assertion ends the process.
CHECK_DEADLOCK FALSE
