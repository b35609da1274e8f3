CONSTANTS
    CheapPrepend = 3
    InitialSize = 9
    ExtraSize = 4
    Base = 8
    HeaderLength = 2
    MaxMessageLength = 8
    MaxFrames = 3
    TypeName <- MCTypeName
    Data <- MCData
    Message <- MCMessage
    BadFrame <- MCBadFrame
SPECIFICATION Spec
INVARIANTS StreamKept MessagesInOrder CompleteFramesHandled
\* The peer stops sending.
CHECK_DEADLOCK FALSE
