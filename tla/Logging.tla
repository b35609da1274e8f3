------------------------------- MODULE Logging -------------------------------
(***************************************************************************)
(* logging/Logging and logging/LogStream: a Logger is constructed with its   *)
(* time and level, takes what is streamed into it, and its destructor hands  *)
(* the line to g_OutputFunc; a fatal one then calls g_FlushFunc and aborts.   *)
(*                                                                         *)
(* A line is the sequence of the items its buffer took, of which only the    *)
(* length counts, and of numbers and times also the text.                    *)
(***************************************************************************)
EXTENDS Integers, FiniteSetsExt, SequencesExt

CONSTANTS
    Thread,
    SIZE, MAX_NUMERIC_SIZE, \* 4000 and 32
    Macro,                  \* the LOG_ macros that are used
    LogMessage,             \* what a statement streams: sequences of items
    FunctionName, FileName, StrError,   \* the lengths of these names
    LineNumber, Errno,
    Sink,                   \* where output functions write to, and flush functions flush
    Clock, SECOND,          \* what gettimeofday may give, in ticks, and the ticks of a second
    Level,                  \* the levels that are set
    MaxLines                \* bound: statements executed

\* In its first second the clock would agree with a cache that holds no text.
ASSUME ClockAssumption == SECOND \in Nat \ {0} /\ \A now \in Clock : now \in Nat /\ now >= SECOND

\* The buffer has room for the time, whose text has 26 characters.
ASSUME SinkAssumption ==
    /\ SIZE \in Nat /\ SIZE > 26 /\ MAX_NUMERIC_SIZE \in Nat /\ MAX_NUMERIC_SIZE > 3
    /\ FunctionName \in Nat /\ FileName \in Nat /\ StrError \in Nat
    /\ "stdout" \in Sink

VARIABLES
    t_lastSecond, t_time,       \* of each thread; 0 and no text at first
    g_LogLevel, g_OutputFunc, g_FlushFunc,
    logger,         \* the Logger of each thread, if it has one
    output,         \* what each sink was given
    kept,           \* how many lines of it are no longer in the process' memory
    aborted         \* the thread that called abort()

cacheVars == <<t_lastSecond, t_time>>
globalVars == <<g_LogLevel, g_OutputFunc, g_FlushFunc>>
logVars == <<cacheVars, globalVars, logger, output, kept, aborted>>

None == [at |-> "none"]
Levels == <<"TRACE", "DEBUG", "INFO", "WARNING", "ERROR", "FATAL">>
NameLength == [TRACE |-> 5, DEBUG |-> 5, INFO |-> 4, WARNING |-> 7, ERROR |-> 5, FATAL |-> 5]
Rank(level) == CHOOSE i \in DOMAIN Levels : Levels[i] = level

Text(length) == [kind |-> "text", length |-> length]
Number(value) == [kind |-> "integer", value |-> value]

LogInit ==
    /\ t_lastSecond = [t \in Thread |-> 0] /\ t_time = [t \in Thread |-> 0]
    /\ g_LogLevel \in {"TRACE", "DEBUG"}        \* whether LOG_TRACE is in the environment
    /\ g_OutputFunc = "stdout" /\ g_FlushFunc = "stdout"
    /\ logger = [t \in Thread |-> None]
    /\ output = [s \in Sink |-> <<>>] /\ kept = [s \in Sink |-> 0]
    /\ aborted = "no"

-----------------------------------------------------------------------------
(* Numbers as text: the quotient and the remainder are C's, towards zero    *)

Quotient(i, base) == (IF i < 0 THEN i + base - 1 ELSE i) \div base
Remainder(i, base) == i - base * Quotient(i, base)

\* zero[nIndex], of the digits "9876543210123456789" around zero.
Zero(nIndex) == IF nIndex < 0 THEN -nIndex ELSE nIndex

\* The loop: i after k turns, and the first turn that leaves 0.
Quotients(value, base) ==
    LET i[k \in 0..MAX_NUMERIC_SIZE] == IF k = 0 THEN value ELSE Quotient(i[k - 1], base)
    IN  i
Turns(value, base) ==
    CHOOSE n \in 1..MAX_NUMERIC_SIZE :
        Quotients(value, base)[n] = 0 /\ \A k \in 1..(n - 1) : Quotients(value, base)[k] # 0

\* A digit in every turn, and std::reverse.
Digits(value, base) ==
    LET i == Quotients(value, base)
        n == Turns(value, base)
    IN  [j \in 1..n |-> Zero(Remainder(i[n - j], base))]

convert(value) == [minus |-> value < 0, digits |-> Digits(value, 10)]
convertHex(value) == [minus |-> FALSE, digits |-> Digits(value, 16)]

\* What is streamed.  A number has fewer characters than MAX_NUMERIC_SIZE, with "-" or "0x", as
\* staticCheck asserts of the types.
Item ==
    [kind : {"text", "newline"}, length : Nat]
      \union [kind : {"time", "us"}, length : Nat, text : Nat]
      \union [kind : {"double"}, length : 0..(MAX_NUMERIC_SIZE - 1)]
      \union [kind : {"integer"}, value : {i \in Int : Quotients(i, 10)[MAX_NUMERIC_SIZE - 3] = 0}]
      \union [kind : {"pointer"}, value : {i \in Nat : Quotients(i, 16)[MAX_NUMERIC_SIZE - 3] = 0}]
ASSUME ItemAssumption ==
    /\ LogMessage \subseteq Seq(Item) /\ {Number(Errno), Number(LineNumber)} \subseteq Item
    /\ Macro \subseteq [level : DOMAIN NameLength, tested : BOOLEAN, errno : BOOLEAN, function : BOOLEAN]

-----------------------------------------------------------------------------
(* LogStream and its FixedBuffer                                            *)

EmptyStream == [length |-> 0, items |-> <<>>]

GetAvail(stream) == SIZE - stream.length

\* What operator<< writes for an item.
Written(item) ==
    CASE item.kind = "integer" ->
            [kind |-> "integer", value |-> item.value, text |-> convert(item.value)]
      [] item.kind = "pointer" ->
            [kind |-> "pointer", value |-> item.value, text |-> convertHex(item.value)]
      [] OTHER -> item

\* A number has its digits and sign, a pointer "0x" and its digits.
Length(written) ==
    CASE written.kind = "integer" ->
            Len(written.text.digits) + (IF written.text.minus THEN 1 ELSE 0)
      [] written.kind = "pointer" -> 2 + Len(written.text.digits)
      [] OTHER -> written.length

\* FixedBuffer::Append's test, and those of formatInteger, of doubles and of pointers.
HasRoom(stream, item) ==
    CASE item.kind = "integer" -> GetAvail(stream) > MAX_NUMERIC_SIZE
      [] item.kind \in {"double", "pointer"} -> GetAvail(stream) >= MAX_NUMERIC_SIZE
      [] OTHER -> GetAvail(stream) > item.length

\* operator<<
Put(stream, item) ==
    IF HasRoom(stream, item)
      THEN [length |-> stream.length + Length(Written(item)),
            items |-> Append(stream.items, Written(item))]
      ELSE stream

PutAll(stream, items) ==
    LET after[i \in 0..Len(items)] == IF i = 0 THEN stream ELSE Put(after[i - 1], items[i])
    IN  after[Len(items)]

-----------------------------------------------------------------------------
(* A statement: LOG_XXX << message;                                          *)

\* The text of the time is as long whatever the time is.
Time(text) == [kind |-> "time", length |-> 17, text |-> text]
MicroSeconds(us) == [kind |-> "us", length |-> 9, text |-> us]
NewLine == [kind |-> "newline", length |-> 1]

\* What the constructors stream: Impl's, and that with the function's name.
Header(macro, text, us) ==
    <<Time(text), MicroSeconds(us), Text(1), Text(NameLength[macro.level]), Text(2)>>
        \o (IF macro.errno /\ Errno # 0 THEN <<Text(StrError), Text(8), Number(Errno), Text(2)>> ELSE <<>>)
        \o (IF macro.function THEN <<Text(FunctionName), Text(1)>> ELSE <<>>)

\* Mutant: the text is renewed for a later second only.
FormatTimeLater(t, second) ==
    IF second > t_lastSecond[t]
      THEN /\ t_lastSecond' = [t_lastSecond EXCEPT ![t] = second]
           /\ t_time' = [t_time EXCEPT ![t] = second]
      ELSE UNCHANGED cacheVars

FormatTime(t, second) ==
    IF second # t_lastSecond[t]
      THEN /\ t_lastSecond' = [t_lastSecond EXCEPT ![t] = second]
           /\ t_time' = [t_time EXCEPT ![t] = second]
      ELSE UNCHANGED cacheVars

\* The macro's test.
IsLogged(macro) == macro.tested => Rank(g_LogLevel) <= Rank(macro.level)

In(t, at) == logger[t].at = at

Statements == Cardinality({t \in Thread : In(t, "destructor")})
                + FoldSet(LAMBDA s, n : Len(output[s]) + n, 0, Sink)

\* The clock may have been set, forwards or backwards, since the last statement.
Construct(t, macro, message, now) ==
    /\ logger[t] = None /\ Statements < MaxLines
    /\ IsLogged(macro)
    /\ FormatTime(t, now \div SECOND)
    /\ LET items == Header(macro, t_time'[t], now % SECOND) \o message
       IN  logger' = [logger EXCEPT ![t] =
               [at |-> "destructor", by |-> t, timeStamp |-> now, level |-> macro.level,
                stream |-> PutAll(EmptyStream, items), streamed |-> items]]
    /\ UNCHANGED <<globalVars, output, kept, aborted>>

Trailer == <<Text(1), Text(FileName), Text(1), Number(LineNumber), NewLine>>
Finish(stream) == PutAll(stream, Trailer)

\* ~Logger: Finish and g_OutputFunc; a line that is not fatal is then done.
Output(t) ==
    /\ In(t, "destructor")
    /\ LET line == [logger[t] EXCEPT !.stream = Finish(@)]
       IN  /\ output' = [output EXCEPT ![g_OutputFunc] = Append(@, line)]
           /\ logger' = [logger EXCEPT ![t] =
                  IF line.level = "FATAL" THEN [line EXCEPT !.at = "flush"] ELSE None]
    /\ UNCHANGED <<cacheVars, globalVars, kept, aborted>>

\* Mutant: the flush function of stdout, whatever was set.
FlushStdout(t) ==
    /\ In(t, "flush")
    /\ kept' = [kept EXCEPT !["stdout"] = Len(output["stdout"])]
    /\ logger' = [logger EXCEPT ![t].at = "abort"]
    /\ UNCHANGED <<cacheVars, globalVars, output, aborted>>

Flush(t) ==
    /\ In(t, "flush")
    /\ kept' = [kept EXCEPT ![g_FlushFunc] = Len(output[g_FlushFunc])]
    /\ logger' = [logger EXCEPT ![t].at = "abort"]
    /\ UNCHANGED <<cacheVars, globalVars, output, aborted>>

Abort(t) ==
    /\ In(t, "abort")
    /\ aborted' = t
    /\ UNCHANGED <<cacheVars, globalVars, logger, output, kept>>

-----------------------------------------------------------------------------
(* The program's settings, the sinks and the clock                          *)

\* The program sets these before its first statement: they are not protected.
Quiet == (\A t \in Thread : logger[t] = None) /\ (\A s \in Sink : output[s] = <<>>)

SetLogLevel(level) ==
    /\ Quiet
    /\ g_LogLevel' = level
    /\ UNCHANGED <<cacheVars, g_OutputFunc, g_FlushFunc, logger, output, kept, aborted>>

SetOutputFunc(s) ==
    /\ Quiet
    /\ g_OutputFunc' = s
    /\ UNCHANGED <<cacheVars, g_LogLevel, g_FlushFunc, logger, output, kept, aborted>>

SetFlushFunc(s) ==
    /\ Quiet
    /\ g_FlushFunc' = s
    /\ UNCHANGED <<cacheVars, g_LogLevel, g_OutputFunc, logger, output, kept, aborted>>

\* A sink writes a line by itself: stdio's buffer is full, or the logging thread gets to it.
SinkWrites(s) ==
    /\ kept[s] < Len(output[s])
    /\ kept' = [kept EXCEPT ![s] = @ + 1]
    /\ UNCHANGED <<cacheVars, globalVars, logger, output, aborted>>

LogNext ==
    /\ aborted = "no"
    /\ \/ \E t \in Thread : \/ \E macro \in Macro, message \in LogMessage, now \in Clock :
                                   Construct(t, macro, message, now)
                            \/ Output(t) \/ Flush(t) \/ Abort(t)
       \/ \E level \in Level : SetLogLevel(level)
       \/ \E s \in Sink : SetOutputFunc(s) \/ SetFlushFunc(s) \/ SinkWrites(s)

LogSpec == LogInit /\ [][LogNext]_logVars

-----------------------------------------------------------------------------

Lines == UNION {ToSet(output[s]) : s \in Sink}

ReadBack(text, base) ==
    LET sign == IF text.minus THEN -1 ELSE 1
        read[i \in 0..Len(text.digits)] ==
            IF i = 0 THEN 0 ELSE read[i - 1] * base + sign * text.digits[i]
    IN  read[Len(text.digits)]

\* The bytes of the items.
Total(items) ==
    LET total[i \in 0..Len(items)] ==
            IF i = 0 THEN 0 ELSE total[i - 1] + Length(Written(items[i]))
    IN  total[Len(items)]

\* A line fits its buffer and shows its own time, whatever lines its thread made before and
\* however the clock was set; its numbers read back, the smallest int too; a statement
\* that leaves room for one more number is in it whole; and it ends with a newline, or its
\* buffer is full.
LinesRight ==
    \A line \in Lines :
        LET items == line.stream.items
        IN  /\ line.stream.length < SIZE
            /\ items[1].text * SECOND + items[2].text = line.timeStamp
            /\ \A i \in DOMAIN items :
                   /\ items[i].kind = "integer" => ReadBack(items[i].text, 10) = items[i].value
                   /\ items[i].kind = "pointer" => ReadBack(items[i].text, 16) = items[i].value
            /\ Total(line.streamed) + Total(Trailer) + MAX_NUMERIC_SIZE < SIZE =>
                   Len(items) = Len(line.streamed) + Len(Trailer)
            /\ Last(items).kind = "newline" \/ line.stream.length = SIZE - 1

\* When a fatal statement aborts the process, its line and all lines before it have left the
\* process' memory, if the flush function belongs to the output function; the lines of other
\* threads after the flush are lost.
FatalLineKept ==
    aborted # "no" /\ g_FlushFunc = g_OutputFunc =>
        \A i \in 1..Len(output[g_OutputFunc]) :
            output[g_OutputFunc][i].by = aborted /\ output[g_OutputFunc][i].level = "FATAL"
                => i <= kept[g_OutputFunc]
=============================================================================
