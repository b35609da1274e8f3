------------------------------ MODULE MCLogging ------------------------------
(* The real sizes.  Messages of every kind of item, and texts that leave so   *)
(* little of the buffer that a number, the file's name or the newline no      *)
(* longer fits.                                                             *)
EXTENDS Logging

\* What a macro's statement streams before and how it is tested.
Uses(level, tested, errno, function) ==
    [level |-> level, tested |-> tested, errno |-> errno, function |-> function]

MCMacro ==
    { Uses("TRACE", TRUE, FALSE, TRUE),     \* LOG_TRACE; LOG_DEBUG and LOG_INFO have another level
      Uses("ERROR", FALSE, TRUE, FALSE),    \* LOG_SYSERR
      Uses("FATAL", FALSE, FALSE, FALSE) }  \* LOG_FATAL

\* A text that leaves so many bytes behind the header of LOG_FATAL.
Leaving(n) == Text(SIZE - 34 - n)

INT_MIN == -2147483647 - 1

MCLogMessage ==
    { <<Text(5), Number(INT_MIN), [kind |-> "double", length |-> 19], [kind |-> "pointer", value |-> 255]>>,
      <<Leaving(1)>>, <<Leaving(4)>>,
      <<Leaving(32), Number(7), [kind |-> "pointer", value |-> 0]>>,
      <<Leaving(33), Number(127)>>,
      <<Text(SIZE)>> }

MCSymmetry == Permutations(Thread)
=============================================================================
