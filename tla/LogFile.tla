------------------------------ MODULE LogFile -------------------------------
(***************************************************************************)
(* logging/LogFile as operators on its record: which file is open, what was  *)
(* written to it, and when a new one is opened.  A file is named after the    *)
(* second it is opened in.  A line is a pair of a number and a length; the    *)
(* disk takes every line.                                                    *)
(***************************************************************************)
EXTENDS Naturals, Sequences, SequencesExt

CONSTANTS
    RollSize,       \* m_unRollSize
    CheckTimeRoll,  \* CHECK_TIME_ROLL
    Day,            \* ROLL_PER_SECONDS
    FlushInterval

ASSUME LogFileAssumption ==
    RollSize \in Nat /\ CheckTimeRoll \in Nat /\ Day \in Nat \ {0} /\ FlushInterval \in Nat

\* The bytes of a sequence of lines.
Size(lines) == FoldSeq(LAMBDA line, sum : line[2] + sum, 0, lines)

Period(t) == (t \div Day) * Day

\* lines: all that was appended, in all files; stale: appends in a row to the file of an earlier
\* day; overdue: the file exceeds the roll size and the clock has passed its name (history).
Closed == [m_nCnt |-> 0, m_tStartOfPeriod |-> 0, m_tLastRoll |-> 0, m_tLaseFlush |-> 0,
           m_unWrittenBytes |-> 0, unflushed |-> FALSE,
           lines |-> <<>>, stale |-> 0, overdue |-> FALSE]

\* rollFile: a new file, unless the clock has not passed the last roll.
rollFile(f, now) ==
    IF now > f.m_tLastRoll
      THEN [f EXCEPT !.m_tLastRoll = now, !.m_tLaseFlush = now, !.m_tStartOfPeriod = Period(now),
                     !.m_unWrittenBytes = 0, !.unflushed = FALSE,
                     !.stale = 0, !.overdue = FALSE]
      ELSE f

\* The constructor opens the first file.
NewLogFile(now) == rollFile(Closed, now)

\* Mutant: nothing is flushed.
FlushNothing(f) == f

Flush(f) == [f EXCEPT !.unflushed = FALSE]

\* File::Append.
FileAppend(f, lines, now) ==
    [f EXCEPT !.m_unWrittenBytes = @ + Size(lines), !.unflushed = TRUE, !.lines = @ \o lines,
              !.overdue = now > f.m_tLastRoll /\ f.m_unWrittenBytes + Size(lines) > RollSize,
              !.stale = IF Period(now) # f.m_tStartOfPeriod /\ now > f.m_tLastRoll
                          THEN @ + 1 ELSE 0]

\* Mutant: one append more between two looks at the clock.
TimeToCheckLate(f) == f.m_nCnt > CheckTimeRoll + 1

TimeToCheck(f) == f.m_nCnt > CheckTimeRoll

TooLarge(f) == f.m_unWrittenBytes > RollSize

\* appendUnlocked: the append, then a look at the size and, now and then, at the clock.
appendUnlocked(file, lines, now) ==
    LET f == FileAppend(file, lines, now)
        checked == [f EXCEPT !.m_nCnt = 0]
    IN  IF TooLarge(f) THEN rollFile(f, now)
        ELSE IF ~TimeToCheck(f) THEN [f EXCEPT !.m_nCnt = @ + 1]
        ELSE IF Period(now) # f.m_tStartOfPeriod THEN rollFile(checked, now)
        ELSE IF now > f.m_tLaseFlush + FlushInterval
          THEN Flush([checked EXCEPT !.m_tLaseFlush = now])
        ELSE checked
=============================================================================
