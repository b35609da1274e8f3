CONSTANTS
    Owner = owner
    Logger = logger
    EmptyLine = empty
    Producer = {owner, p1, p2}
    Consumer = {logger}
    Item = {empty, x, y}
    Capacity = 2
    MaxLines = 4
SPECIFICATION FairLoggerSpec
INVARIANTS NobodySleepsInVain EarlierLinesWritten
PROPERTY StopReturns
\* After Stop threads may wait for ever for room in the queue.
CHECK_DEADLOCK FALSE
