CONSTANTS
    Thread = {t1, t2}
    SIZE = 4000
    MAX_NUMERIC_SIZE = 32
    Macro <- MCMacro
    LogMessage <- MCLogMessage
    FunctionName = 8
    FileName = 11
    StrError = 14
    LineNumber = 140
    Errno = 104
    Sink = {"stdout", "file"}
    Clock = {2, 5}
    Level = {"TRACE", "FATAL"}
    SECOND = 2
    MaxLines = 2
SPECIFICATION LogSpec
SYMMETRY MCSymmetry
INVARIANTS LinesRight FatalLineKept
\* The process ends.
CHECK_DEADLOCK FALSE
