------------------ MODULE AsyncLoggingDoubleBufferingProofs ------------------
(***************************************************************************)
(* Proofs about AsyncLoggingDoubleBuffering and the LogFile it writes, for   *)
(* any lines, buffer sizes, roll sizes and clocks.                           *)
(***************************************************************************)
EXTENDS AsyncLoggingDoubleBuffering, SequenceTheorems, TLAPS

-----------------------------------------------------------------------------
(* LinesInOrder for what the files hold (out), the buffers that are not      *)
(* written (q), what was appended (app) and what was dropped (gone).         *)

WrittenIn(out) == {i \in 1..Len(out) : out[i] # DropMsg}
WrittenOK(out) == \A i, j \in WrittenIn(out) : i < j => out[i][1] < out[j][1]
QueueOK(q) ==
    \A b \in 1..Len(q) : Increasing(q[b]) /\ \A c \in (b + 1)..Len(q) : Before(q[b], q[c])
WrittenFirst(out, q) ==
    \A b \in 1..Len(q) : \A i \in WrittenIn(out) : Before(<<out[i]>>, q[b])
LinesOf(out, q) == {out[i] : i \in WrittenIn(out)} \union UNION {ToSet(q[b]) : b \in 1..Len(q)}
InOrder(out, q, app, gone) ==
    /\ Increasing(app) /\ WrittenOK(out) /\ QueueOK(q) /\ WrittenFirst(out, q)
    /\ LinesOf(out, q) = ToSet(app) \ gone

LEMMA LinesInOrderAsOperator ==
    /\ LinesInOrder <=> InOrder(output.lines, Queued, appended, lost)
    /\ LinesInOrder' <=> InOrder(output'.lines, Queued', appended', lost')
<1> USE DEF LinesInOrder, HeldInOrder, Written, InOrder, WrittenOK, QueueOK, WrittenFirst,
            WrittenIn, LinesOf
<1>1. LinesInOrder <=> InOrder(output.lines, Queued, appended, lost)
  OBVIOUS
<1>2. LinesInOrder' <=> InOrder(output'.lines, Queued', appended', lost')
  OBVIOUS
<1> QED
  BY <1>1, <1>2

File == Seq(Line \union {DropMsg})

\* A line is a pair with a number of its own.
LEMMA LineTypes ==
    /\ DropMsg \notin Line /\ <<>> \in Buffer
    /\ \A l \in Line : l[1] \in Nat
  BY DEF Line, DropMsg, Buffer

LEMMA ElementTypes ==
    /\ \A s \in Buffer : Len(s) \in Nat /\ \A i \in 1..Len(s) : s[i] \in Line /\ s[i][1] \in Nat
    /\ \A q \in Seq(Buffer) : Len(q) \in Nat /\ \A b \in 1..Len(q) : q[b] \in Buffer
    /\ \A out \in File : \A i \in WrittenIn(out) : out[i] \in Line /\ out[i][1] \in Nat
<1>1. \A s \in Buffer : Len(s) \in Nat /\ \A i \in 1..Len(s) : s[i] \in Line /\ s[i][1] \in Nat
  BY LineTypes DEF Buffer
<1>2. \A q \in Seq(Buffer) : Len(q) \in Nat /\ \A b \in 1..Len(q) : q[b] \in Buffer
  OBVIOUS
<1>3. ASSUME NEW out \in File, NEW i \in WrittenIn(out) PROVE out[i] \in Line /\ out[i][1] \in Nat
  <2>1. out[i] \in Line \union {DropMsg} /\ out[i] # DropMsg
    BY DEF File, WrittenIn
  <2> QED
    BY <2>1, LineTypes
<1> QED
  BY <1>1, <1>2, <1>3

LEMMA BeforeOne ==
    ASSUME NEW x, NEW s
    PROVE  Before(<<x>>, s) <=> \A j \in 1..Len(s) : x[1] < s[j][1]
<1>1. Len(<<x>>) = 1 /\ <<x>>[1] = x /\ 1..1 = {1}
  OBVIOUS
<1> QED
  BY <1>1 DEF Before

\* What a sequence holds.
LEMMA Members ==
    ASSUME NEW s \in Buffer
    PROVE  ToSet(s) = {s[i] : i \in 1..Len(s)}
  BY ElementTypes DEF ToSet, Buffer

LEMMA LinesOfMembers ==
    ASSUME NEW out \in File, NEW q \in Seq(Buffer), NEW l
    PROVE  l \in LinesOf(out, q) <=> \/ \E i \in WrittenIn(out) : l = out[i]
                                     \/ \E b \in 1..Len(q) : \E i \in 1..Len(q[b]) : l = q[b][i]
<1>1. \A b \in 1..Len(q) : ToSet(q[b]) = {q[b][i] : i \in 1..Len(q[b])}
  BY ElementTypes, Members
<1> QED
  BY <1>1 DEF LinesOf

\* An empty buffer behind the others changes nothing.
LEMMA EmptyBufferAdded ==
    ASSUME NEW out \in File, NEW q \in Seq(Buffer), NEW app, NEW gone, InOrder(out, q, app, gone)
    PROVE  InOrder(out, Append(q, <<>>), app, gone) /\ Append(q, <<>>) \in Seq(Buffer)
<1> DEFINE p == Append(q, <<>>)
<1>1. /\ p \in Seq(Buffer) /\ Len(p) = Len(q) + 1 /\ Len(q) \in Nat /\ p[Len(q) + 1] = <<>>
      /\ \A b \in 1..Len(q) : p[b] = q[b]
  BY LineTypes
<1>2. \A b \in 1..Len(p) : b \in 1..Len(q) \/ p[b] = <<>>
  BY <1>1
<1> HIDE DEF p
<1>3. \A s : Before(s, <<>>) /\ Before(<<>>, s) /\ Increasing(<<>>)
  BY DEF Before, Increasing
<1>4. QueueOK(p)
  <2> SUFFICES ASSUME NEW b \in 1..Len(p)
               PROVE  Increasing(p[b]) /\ \A c \in (b + 1)..Len(p) : Before(p[b], p[c])
    BY DEF QueueOK
  <2>1. Increasing(p[b])
    BY <1>1, <1>2, <1>3 DEF InOrder, QueueOK
  <2>2. ASSUME NEW c \in (b + 1)..Len(p) PROVE Before(p[b], p[c])
    <3>1. c \in 1..Len(p) /\ (c \in 1..Len(q) => b \in 1..Len(q) /\ c \in (b + 1)..Len(q))
      BY <1>1
    <3>2. c \in 1..Len(q) => Before(q[b], q[c])
      BY <3>1 DEF InOrder, QueueOK
    <3> QED
      BY <1>1, <1>2, <1>3, <3>1, <3>2
  <2> QED
    BY <2>1, <2>2
<1>5. WrittenFirst(out, p)
  BY <1>1, <1>2, <1>3 DEF InOrder, WrittenFirst
<1>6. \A l : l \in LinesOf(out, p) <=> l \in LinesOf(out, q)
  <2> TAKE l
  <2>1. (\E b \in 1..Len(p) : \E i \in 1..Len(p[b]) : l = p[b][i])
          <=> \E b \in 1..Len(q) : \E i \in 1..Len(q[b]) : l = q[b][i]
    BY <1>1, <1>2
  <2> QED
    BY <1>1, <2>1, LinesOfMembers
<1>7. LinesOf(out, p) = LinesOf(out, q)
  BY <1>6
<1> QED
  BY <1>1, <1>4, <1>5, <1>7 DEF InOrder, p

\* A sequence and one more element.
LEMMA OneMore ==
    ASSUME NEW S, NEW s \in Seq(S), NEW x \in S
    PROVE  /\ s \o <<x>> \in Seq(S) /\ s \o <<x>> = Append(s, x)
           /\ Len(s) \in Nat /\ Len(s \o <<x>>) = Len(s) + 1
           /\ (s \o <<x>>)[Len(s) + 1] = x /\ \A i \in 1..Len(s) : (s \o <<x>>)[i] = s[i]
<1>1. s \o <<x>> = Append(s, x)
  BY AppendIsConcat
<1> QED
  BY <1>1

\* FixedBuffer::Append of a line with a higher number than any other to the last buffer.
LEMMA LineAdded ==
    ASSUME NEW out \in File, NEW first \in Seq(Buffer), NEW s \in Buffer,
           NEW app \in Seq(Line), NEW gone, InOrder(out, first \o <<s>>, app, gone),
           NEW line \in Line, line \notin gone, \A i \in 1..Len(app) : app[i][1] < line[1]
    PROVE  InOrder(out, first \o <<Append(s, line)>>, Append(app, line), gone)
<1> DEFINE k == Len(first) + 1
           q == first \o <<s>>
           t == Append(s, line)
           p == first \o <<t>>
           app2 == Append(app, line)
<1>1. /\ k \in Nat \ {0} /\ k \in 1..k /\ t \in Buffer
      /\ q \in Seq(Buffer) /\ Len(q) = k /\ q[k] = s
  BY OneMore DEF Buffer
<1>2. /\ p \in Seq(Buffer) /\ Len(p) = k /\ p[k] = t
      /\ \A b \in 1..k : b # k => p[b] = q[b]
  <2>1. /\ p \in Seq(Buffer) /\ Len(p) = k /\ p[k] = t
        /\ \A b \in 1..Len(first) : p[b] = first[b]
    BY <1>1, OneMore
  <2>2. \A b \in 1..Len(first) : q[b] = first[b]
    BY OneMore
  <2>3. \A b \in 1..k : b # k => b \in 1..Len(first)
    BY <1>1
  <2> QED
    BY <2>1, <2>2, <2>3
<1>3. /\ Len(s) \in Nat /\ Len(t) = Len(s) + 1 /\ t[Len(s) + 1] = line
      /\ \A i \in 1..Len(s) : t[i] = s[i]
  BY <1>1 DEF Buffer
<1>4. /\ Len(app) \in Nat /\ Len(app2) = Len(app) + 1 /\ app2[Len(app) + 1] = line
      /\ \A i \in 1..Len(app) : app2[i] = app[i] /\ app[i] \in Line
  OBVIOUS
<1>5. line[1] \in Nat
  BY LineTypes
<1>6. InOrder(out, q, app, gone) /\ \A l \in LinesOf(out, q) : l[1] < line[1]
  BY <1>4 DEF InOrder, ToSet
<1> HIDE DEF q
<1>7. /\ \A i \in WrittenIn(out) : out[i][1] < line[1]
      /\ \A b \in 1..k : \A i \in 1..Len(q[b]) : q[b][i][1] < line[1]
  BY <1>1, <1>6, LinesOfMembers
<1> HIDE DEF t, p, app2
<1>8. Increasing(app2)
  <2>1. Increasing(app)
    BY <1>6 DEF InOrder
  <2>2. \A i \in 1..Len(app2) : (i \in 1..Len(app) /\ app2[i] = app[i])
                                \/ (i = Len(app) + 1 /\ app2[i] = line)
    <3>1. \A i \in 1..Len(app2) : i \in 1..Len(app) \/ i = Len(app) + 1
      BY <1>4
    <3> QED
      BY <1>4, <3>1
  <2> QED
    BY <1>4, <1>5, <2>1, <2>2 DEF Increasing
<1>9. \A i \in 1..Len(t) : (i \in 1..Len(s) /\ t[i] = s[i]) \/ (i = Len(s) + 1 /\ t[i] = line)
  <2> SUFFICES ASSUME NEW i \in 1..Len(t)
               PROVE  (i \in 1..Len(s) /\ t[i] = s[i]) \/ (i = Len(s) + 1 /\ t[i] = line)
    OBVIOUS
  <2>1. i \in 1..Len(s) \/ i = Len(s) + 1
    BY <1>3
  <2> QED
    BY <1>3, <2>1
<1>10. Increasing(t)
  <2>1. Increasing(s)
    BY <1>1, <1>6 DEF InOrder, QueueOK
  <2>2. \A i \in 1..Len(s) : s[i][1] < line[1]
    BY <1>1, <1>7
  <2> QED
    BY <1>3, <1>5, <1>9, <2>1, <2>2 DEF Increasing
<1>11. ASSUME NEW b \in 1..k, b # k PROVE Before(q[b], t)
  <2>1. Before(q[b], s)
    BY <1>1, <1>6, <1>11 DEF InOrder, QueueOK
  <2> QED
    BY <1>7, <1>9, <2>1 DEF Before
<1>12. QueueOK(p)
  <2> SUFFICES ASSUME NEW b \in 1..k
               PROVE  Increasing(p[b]) /\ \A c \in (b + 1)..k : Before(p[b], p[c])
    BY <1>2 DEF QueueOK
  <2>1. Increasing(p[b])
    BY <1>1, <1>2, <1>6, <1>10 DEF InOrder, QueueOK
  <2>2. ASSUME NEW c \in (b + 1)..k PROVE Before(p[b], p[c])
    <3>1. b # k /\ c \in 1..k
      BY <1>1
    <3>2. Before(q[b], q[c])
      BY <1>1, <1>6 DEF InOrder, QueueOK
    <3> QED
      BY <1>2, <1>11, <3>1, <3>2
  <2> QED
    BY <2>1, <2>2
<1>13. WrittenFirst(out, p)
  <2>1. ASSUME NEW i \in WrittenIn(out) PROVE Before(<<out[i]>>, t)
    <3>1. Before(<<out[i]>>, s)
      BY <1>1, <1>6 DEF InOrder, WrittenFirst
    <3>2. \A j \in 1..Len(<<out[i]>>) : <<out[i]>>[j][1] < line[1]
      BY <1>7
    <3> QED
      BY <1>9, <3>1, <3>2 DEF Before
  <2> QED
    BY <1>1, <1>2, <1>6, <2>1 DEF InOrder, WrittenFirst
<1>14. \A l : l \in LinesOf(out, p) <=> l \in LinesOf(out, q) \/ l = line
  <2> TAKE l
  <2>1. (\E b \in 1..k : \E i \in 1..Len(p[b]) : l = p[b][i])
          <=> (\E b \in 1..k : \E i \in 1..Len(q[b]) : l = q[b][i]) \/ l = line
    <3>1. (\E i \in 1..Len(t) : l = t[i]) <=> (\E i \in 1..Len(s) : l = s[i]) \/ l = line
      <4>1. Len(s) + 1 \in 1..Len(t) /\ 1..Len(s) \subseteq 1..Len(t)
        BY <1>3
      <4> QED
        BY <1>3, <1>9, <4>1
    <3> QED
      BY <1>1, <1>2, <3>1
  <2> QED
    BY <1>1, <1>2, <2>1, LinesOfMembers
<1>15. ToSet(app2) = ToSet(app) \union {line}
  BY <1>4 DEF ToSet
<1>16. LinesOf(out, p) = ToSet(app2) \ gone
  BY <1>6, <1>14, <1>15 DEF InOrder
<1>17. InOrder(out, p, app2, gone)
  BY <1>6, <1>8, <1>12, <1>13, <1>16 DEF InOrder
<1> QED
  BY <1>17 DEF p, t, app2

\* The first buffer is written behind what the files hold.
LEMMA FirstWritten ==
    ASSUME NEW out \in File, NEW q \in Seq(Buffer), q # <<>>, NEW app, NEW gone,
           InOrder(out, q, app, gone)
    PROVE  out \o q[1] \in File /\ InOrder(out \o q[1], Tail(q), app, gone)
<1> DEFINE s == q[1]
           o == out \o s
           p == Tail(q)
<1>1. /\ Len(q) \in Nat \ {0} /\ 1 \in 1..Len(q) /\ p \in Seq(Buffer) /\ Len(p) = Len(q) - 1
      /\ \A b \in 1..Len(p) : b + 1 \in 1..Len(q) /\ p[b] = q[b + 1]
  OBVIOUS
<1>2. s \in Buffer /\ s \in File /\ Len(s) \in Nat /\ Len(out) \in Nat
  BY <1>1, ElementTypes DEF Buffer, File
<1>3. o \in File
  BY <1>2 DEF File
<1>4. /\ Len(o) = Len(out) + Len(s)
      /\ \A i \in 1..Len(o) : o[i] = IF i <= Len(out) THEN out[i] ELSE s[i - Len(out)]
  BY <1>2 DEF File
<1>5. \A i \in 1..Len(s) : s[i] \in Line /\ s[i] # DropMsg /\ s[i][1] \in Nat
  BY <1>2, ElementTypes, LineTypes
<1> HIDE DEF o, p
<1>6. \A i \in WrittenIn(o) : \/ i \in WrittenIn(out) /\ o[i] = out[i]
                              \/ i > Len(out) /\ i - Len(out) \in 1..Len(s) /\ o[i] = s[i - Len(out)]
  BY <1>2, <1>4 DEF WrittenIn
<1>7. \A i \in WrittenIn(out), j \in 1..Len(s) : out[i][1] < s[j][1]
  <2>1. \A i \in WrittenIn(out) : Before(<<out[i]>>, s)
    BY <1>1 DEF InOrder, WrittenFirst
  <2> QED
    BY <2>1, BeforeOne
<1>8. WrittenOK(o)
  <2> SUFFICES ASSUME NEW i \in WrittenIn(o), NEW j \in WrittenIn(o), i < j
               PROVE  o[i][1] < o[j][1]
    BY DEF WrittenOK
  <2>1. i \in Nat /\ j \in Nat
    BY <1>2, <1>4 DEF WrittenIn
  <2>2. CASE i \in WrittenIn(out) /\ o[i] = out[i] /\ j \in WrittenIn(out) /\ o[j] = out[j]
    BY <2>2 DEF InOrder, WrittenOK
  <2>3. CASE i \in WrittenIn(out) /\ o[i] = out[i]
             /\ j - Len(out) \in 1..Len(s) /\ o[j] = s[j - Len(out)]
    BY <1>7, <2>3
  <2>4. CASE i - Len(out) \in 1..Len(s) /\ o[i] = s[i - Len(out)]
             /\ j - Len(out) \in 1..Len(s) /\ o[j] = s[j - Len(out)]
    <3>1. Increasing(s)
      BY <1>1 DEF InOrder, QueueOK
    <3>2. i - Len(out) < j - Len(out)
      BY <1>2, <2>1
    <3> QED
      BY <2>4, <3>1, <3>2 DEF Increasing
  <2>5. j \in WrittenIn(out) => j <= Len(out)
    BY DEF WrittenIn
  <2>6. ~(i > Len(out) /\ j \in WrittenIn(out))
    BY <1>2, <2>1, <2>5
  <2> QED
    BY <1>6, <2>2, <2>3, <2>4, <2>6
<1>9. QueueOK(p)
  <2> SUFFICES ASSUME NEW b \in 1..Len(p)
               PROVE  Increasing(p[b]) /\ \A c \in (b + 1)..Len(p) : Before(p[b], p[c])
    BY DEF QueueOK
  <2>1. Increasing(p[b])
    BY <1>1 DEF InOrder, QueueOK
  <2>2. ASSUME NEW c \in (b + 1)..Len(p) PROVE Before(p[b], p[c])
    <3>1. c \in 1..Len(p) /\ c + 1 \in ((b + 1) + 1)..Len(q) /\ b + 1 \in 1..Len(q)
      BY <1>1
    <3>2. Before(q[b + 1], q[c + 1])
      BY <3>1 DEF InOrder, QueueOK
    <3> QED
      BY <1>1, <3>1, <3>2
  <2> QED
    BY <2>1, <2>2
<1>10. WrittenFirst(o, p)
  <2> SUFFICES ASSUME NEW b \in 1..Len(p), NEW i \in WrittenIn(o), NEW j \in 1..Len(p[b])
               PROVE  o[i][1] < p[b][j][1]
    BY DEF WrittenFirst, Before
  <2>1. b + 1 \in 1..Len(q) /\ p[b] = q[b + 1] /\ b + 1 \in (1 + 1)..Len(q)
    BY <1>1
  <2>2. CASE i \in WrittenIn(out) /\ o[i] = out[i]
    <3>1. Before(<<out[i]>>, q[b + 1])
      BY <2>1, <2>2 DEF InOrder, WrittenFirst
    <3> QED
      BY <2>1, <2>2, <3>1 DEF Before
  <2>3. CASE i - Len(out) \in 1..Len(s) /\ o[i] = s[i - Len(out)]
    <3>1. Before(s, q[b + 1])
      BY <1>1, <2>1 DEF InOrder, QueueOK
    <3> QED
      BY <2>1, <2>3, <3>1 DEF Before
  <2> QED
    BY <1>6, <2>2, <2>3
<1>11. ASSUME NEW l PROVE l \in LinesOf(o, p) <=> l \in LinesOf(out, q)
  <2>1. (\E i \in WrittenIn(o) : l = o[i])
          <=> (\E i \in WrittenIn(out) : l = out[i]) \/ \E i \in 1..Len(s) : l = s[i]
    <3>1. \A i \in WrittenIn(out) : i \in WrittenIn(o) /\ o[i] = out[i]
      BY <1>2, <1>4 DEF WrittenIn
    <3>2. \A i \in 1..Len(s) : i + Len(out) \in WrittenIn(o) /\ o[i + Len(out)] = s[i]
      BY <1>2, <1>4, <1>5 DEF WrittenIn
    <3> QED
      BY <1>6, <3>1, <3>2
  <2>2. (\E b \in 1..Len(q) : \E i \in 1..Len(q[b]) : l = q[b][i])
          <=> (\E i \in 1..Len(s) : l = s[i]) \/ \E b \in 1..Len(p) : \E i \in 1..Len(p[b]) : l = p[b][i]
    <3>1. ASSUME NEW b \in 1..Len(q), b # 1 PROVE b - 1 \in 1..Len(p) /\ p[b - 1] = q[b]
      <4>1. b - 1 \in 1..Len(p) /\ (b - 1) + 1 = b
        BY <1>1, <3>1
      <4> QED
        BY <1>1, <4>1
    <3>2. ASSUME NEW b \in 1..Len(q), NEW i \in 1..Len(q[b]), l = q[b][i]
          PROVE  (\E j \in 1..Len(s) : l = s[j]) \/ \E c \in 1..Len(p) : \E j \in 1..Len(p[c]) : l = p[c][j]
      BY <3>1, <3>2
    <3>3. ASSUME NEW i \in 1..Len(s), l = s[i]
          PROVE  \E b \in 1..Len(q) : \E j \in 1..Len(q[b]) : l = q[b][j]
      BY <1>1, <3>3
    <3>4. ASSUME NEW b \in 1..Len(p), NEW i \in 1..Len(p[b]), l = p[b][i]
          PROVE  \E c \in 1..Len(q) : \E j \in 1..Len(q[c]) : l = q[c][j]
      BY <1>1, <3>4
    <3> QED
      BY <3>2, <3>3, <3>4
  <2>3. l \in LinesOf(o, p) <=> \/ \E i \in WrittenIn(o) : l = o[i]
                               \/ \E b \in 1..Len(p) : \E i \in 1..Len(p[b]) : l = p[b][i]
    BY <1>1, <1>3, LinesOfMembers
  <2>4. l \in LinesOf(out, q) <=> \/ \E i \in WrittenIn(out) : l = out[i]
                                 \/ \E b \in 1..Len(q) : \E i \in 1..Len(q[b]) : l = q[b][i]
    BY LinesOfMembers
  <2> QED
    BY <2>1, <2>2, <2>3, <2>4
<1>12. LinesOf(o, p) = LinesOf(out, q)
  BY <1>11
<1> QED
  BY <1>3, <1>8, <1>9, <1>10, <1>12 DEF InOrder, o, p

\* The first k buffers are dropped, and a message is written.
LEMMA FirstDropped ==
    ASSUME NEW out \in File, NEW q \in Seq(Buffer), NEW app, NEW gone, InOrder(out, q, app, gone),
           NEW k \in 0..Len(q)
    PROVE  LET dropped == UNION {ToSet(q[b]) : b \in 1..k}
           IN  InOrder(out \o <<DropMsg>>, SubSeq(q, k + 1, Len(q)), app, gone \union dropped)
<1> DEFINE o == out \o <<DropMsg>>
           p == SubSeq(q, k + 1, Len(q))
           dropped == UNION {ToSet(q[b]) : b \in 1..k}
<1>1. /\ Len(q) \in Nat /\ k \in Nat /\ Len(out) \in Nat
      /\ p \in Seq(Buffer) /\ Len(p) = Len(q) - k
      /\ \A b \in 1..Len(p) : b + k \in 1..Len(q) /\ p[b] = q[b + k]
  BY DEF File
<1>2. o \in File /\ Len(o) = Len(out) + 1 /\ o[Len(out) + 1] = DropMsg
      /\ \A i \in 1..Len(out) : o[i] = out[i]
  BY DEF File
<1> HIDE DEF o, p
<1>3. WrittenIn(o) = WrittenIn(out) /\ \A i \in WrittenIn(o) : o[i] = out[i]
  <2>1. \A i \in 1..Len(o) : i \in 1..Len(out) \/ i = Len(out) + 1
    BY <1>1, <1>2
  <2>2. 1..Len(out) \subseteq 1..Len(o)
    BY <1>1, <1>2
  <2>3. \A i : i \in WrittenIn(o) <=> i \in WrittenIn(out)
    BY <1>2, <2>1, <2>2 DEF WrittenIn
  <2> QED
    BY <1>2, <2>3 DEF WrittenIn
<1>4. WrittenOK(o)
  BY <1>3 DEF InOrder, WrittenOK
<1>5. QueueOK(p)
  <2> SUFFICES ASSUME NEW b \in 1..Len(p)
               PROVE  Increasing(p[b]) /\ \A c \in (b + 1)..Len(p) : Before(p[b], p[c])
    BY DEF QueueOK
  <2>1. Increasing(p[b])
    BY <1>1 DEF InOrder, QueueOK
  <2>2. ASSUME NEW c \in (b + 1)..Len(p) PROVE Before(p[b], p[c])
    <3>1. c \in 1..Len(p) /\ c + k \in ((b + k) + 1)..Len(q) /\ b + k \in 1..Len(q)
      BY <1>1
    <3>2. Before(q[b + k], q[c + k])
      BY <3>1 DEF InOrder, QueueOK
    <3> QED
      BY <1>1, <3>1, <3>2
  <2> QED
    BY <2>1, <2>2
<1>6. WrittenFirst(o, p)
  BY <1>1, <1>3 DEF InOrder, WrittenFirst
<1>7. \A b \in 1..Len(q) : Len(q[b]) \in Nat /\ \A i \in 1..Len(q[b]) : q[b][i][1] \in Nat
  BY ElementTypes
<1>8. \A l : l \in dropped <=> \E b \in 1..k : \E i \in 1..Len(q[b]) : l = q[b][i]
  <2>1. \A b \in 1..k : q[b] \in Buffer
    BY <1>1, ElementTypes
  <2>2. \A b \in 1..k : ToSet(q[b]) = {q[b][i] : i \in 1..Len(q[b])}
    BY <2>1, Members
  <2> TAKE l
  <2>3. l \in dropped <=> \E b \in 1..k : l \in ToSet(q[b])
    OBVIOUS
  <2> QED
    BY <2>2, <2>3
<1> HIDE DEF dropped
<1>9. ASSUME NEW l PROVE l \in LinesOf(o, p) <=> l \in LinesOf(out, q) /\ l \notin dropped
  <2>1. (\E i \in WrittenIn(o) : l = o[i]) <=> \E i \in WrittenIn(out) : l = out[i]
    BY <1>3
  <2>2. ASSUME NEW i \in WrittenIn(out), l = out[i] PROVE l \notin dropped
    <3> SUFFICES ASSUME NEW b \in 1..k, NEW j \in 1..Len(q[b]), l = q[b][j] PROVE FALSE
      BY <1>8
    <3>1. b \in 1..Len(q)
      BY <1>1
    <3>2. Before(<<out[i]>>, q[b])
      BY <3>1 DEF InOrder, WrittenFirst
    <3>3. <<out[i]>>[1][1] < q[b][j][1] /\ q[b][j][1] \in Nat
      BY <1>7, <3>1, <3>2 DEF Before
    <3> QED
      BY <2>2, <3>3
  <2>3. ASSUME NEW b \in 1..Len(p), NEW i \in 1..Len(p[b]), l = p[b][i] PROVE l \notin dropped
    <3> SUFFICES ASSUME NEW c \in 1..k, NEW j \in 1..Len(q[c]), l = q[c][j] PROVE FALSE
      BY <1>8
    <3>1. c \in 1..Len(q) /\ b + k \in (c + 1)..Len(q) /\ p[b] = q[b + k]
      BY <1>1
    <3>2. Before(q[c], q[b + k])
      BY <3>1 DEF InOrder, QueueOK
    <3>3. q[c][j][1] < q[b + k][i][1] /\ q[c][j][1] \in Nat
      BY <1>7, <3>1, <3>2 DEF Before
    <3> QED
      BY <2>3, <3>1, <3>3
  <2>4. (\E b \in 1..Len(q) : \E i \in 1..Len(q[b]) : l = q[b][i])
          <=> l \in dropped \/ \E b \in 1..Len(p) : \E i \in 1..Len(p[b]) : l = p[b][i]
    <3>1. ASSUME NEW b \in 1..Len(q), b \notin 1..k PROVE b - k \in 1..Len(p) /\ p[b - k] = q[b]
      <4>1. b - k \in 1..Len(p) /\ (b - k) + k = b
        BY <1>1, <3>1
      <4> QED
        BY <1>1, <4>1
    <3>2. 1..k \subseteq 1..Len(q)
      BY <1>1
    <3>3. ASSUME NEW b \in 1..Len(q), NEW i \in 1..Len(q[b]), l = q[b][i]
          PROVE  l \in dropped \/ \E c \in 1..Len(p) : \E j \in 1..Len(p[c]) : l = p[c][j]
      BY <1>8, <3>1, <3>3
    <3>4. ASSUME l \in dropped PROVE \E b \in 1..Len(q) : \E j \in 1..Len(q[b]) : l = q[b][j]
      BY <1>8, <3>2, <3>4
    <3>5. ASSUME NEW b \in 1..Len(p), NEW i \in 1..Len(p[b]), l = p[b][i]
          PROVE  \E c \in 1..Len(q) : \E j \in 1..Len(q[c]) : l = q[c][j]
      BY <1>1, <3>5
    <3> QED
      BY <3>3, <3>4, <3>5
  <2>5. l \in LinesOf(o, p) <=> \/ \E i \in WrittenIn(o) : l = o[i]
                               \/ \E b \in 1..Len(p) : \E i \in 1..Len(p[b]) : l = p[b][i]
    BY <1>1, <1>2, LinesOfMembers
  <2>6. l \in LinesOf(out, q) <=> \/ \E i \in WrittenIn(out) : l = out[i]
                                 \/ \E b \in 1..Len(q) : \E i \in 1..Len(q[b]) : l = q[b][i]
    BY LinesOfMembers
  <2> QED
    BY <2>1, <2>2, <2>3, <2>4, <2>5, <2>6
<1>10. LinesOf(o, p) = ToSet(app) \ (gone \union dropped)
  BY <1>9 DEF InOrder
<1> QED
  BY <1>4, <1>5, <1>6, <1>10 DEF InOrder, o, p, dropped

-----------------------------------------------------------------------------
(* LogFile                                                                  *)

Fields == {"m_nCnt", "m_tStartOfPeriod", "m_tLastRoll", "m_tLaseFlush", "m_unWrittenBytes",
           "unflushed", "lines", "stale", "overdue"}

LEMMA ClosedFields == DOMAIN Closed = Fields
  BY DEF Closed, Fields

\* A new file changes neither what was written nor the count of appends, and is not stale.
LEMMA RolledFile ==
    ASSUME NEW f, LogFileOK(f), NEW t \in Nat
    PROVE  /\ LogFileOK(rollFile(f, t))
           /\ rollFile(f, t).lines = f.lines /\ rollFile(f, t).m_nCnt = f.m_nCnt
           /\ IF t > f.m_tLastRoll
                THEN rollFile(f, t).stale = 0 /\ rollFile(f, t).overdue = FALSE
                ELSE rollFile(f, t) = f
  BY ClosedFields DEF rollFile, LogFileOK, Fields

\* File::Append counts an append to the file of an earlier day.
LEMMA AppendedToFile ==
    ASSUME NEW f, LogFileOK(f), f.stale \in 0..f.m_nCnt, NEW s \in File, NEW t \in Nat
    PROVE  LET g == FileAppend(f, s, t)
           IN  /\ LogFileOK(g) /\ g.lines = f.lines \o s /\ g.m_nCnt = f.m_nCnt
               /\ g.m_tLastRoll = f.m_tLastRoll /\ g.m_tStartOfPeriod = f.m_tStartOfPeriod
               /\ g.overdue = (t > f.m_tLastRoll /\ TooLarge(g))
               /\ g.stale \in {0, f.stale + 1}
               /\ g.stale # 0 => Period(t) # f.m_tStartOfPeriod /\ t > f.m_tLastRoll
<1> DEFINE g == FileAppend(f, s, t)
<1>1. DOMAIN g = Fields
  BY ClosedFields DEF FileAppend, LogFileOK, Fields
<1>2. /\ g.lines = f.lines \o s /\ g.m_nCnt = f.m_nCnt /\ g.unflushed = TRUE
      /\ g.m_tLastRoll = f.m_tLastRoll /\ g.m_tStartOfPeriod = f.m_tStartOfPeriod
      /\ g.m_tLaseFlush = f.m_tLaseFlush
      /\ g.m_unWrittenBytes = f.m_unWrittenBytes + Size(s)
      /\ g.overdue = (t > f.m_tLastRoll /\ f.m_unWrittenBytes + Size(s) > RollSize)
      /\ g.stale = IF Period(t) # f.m_tStartOfPeriod /\ t > f.m_tLastRoll THEN f.stale + 1 ELSE 0
  BY ClosedFields DEF FileAppend, LogFileOK, Fields
<1>3. g.lines \in File
  BY <1>2 DEF LogFileOK, File
<1>4. LogFileOK(g)
  BY <1>1, <1>2, <1>3, ClosedFields DEF LogFileOK, File
<1> QED
  BY <1>2, <1>4 DEF TooLarge

\* appendUnlocked writes the lines, and looks at the size and the day in time.
LEMMA FileAppended ==
    ASSUME NEW f, LogFileOK(f), f.stale \in 0..f.m_nCnt, NEW s \in File, NEW t \in Nat
    PROVE  LET r == appendUnlocked(f, s, t)
           IN  LogFileOK(r) /\ r.lines = f.lines \o s /\ ~r.overdue /\ r.stale \in 0..r.m_nCnt
<1> DEFINE g == FileAppend(f, s, t)
           checked == [g EXCEPT !.m_nCnt = 0]
           r == appendUnlocked(f, s, t)
<1> SUFFICES LogFileOK(r) /\ r.lines = f.lines \o s /\ ~r.overdue /\ r.stale \in 0..r.m_nCnt
  OBVIOUS
<1>1. /\ LogFileOK(g) /\ g.lines = f.lines \o s /\ g.m_nCnt = f.m_nCnt
      /\ g.m_tLastRoll = f.m_tLastRoll /\ g.m_tStartOfPeriod = f.m_tStartOfPeriod
      /\ g.overdue = (t > f.m_tLastRoll /\ TooLarge(g))
      /\ g.stale \in {0, f.stale + 1}
      /\ g.stale # 0 => Period(t) # f.m_tStartOfPeriod /\ t > f.m_tLastRoll
  BY AppendedToFile
<1>2. g.m_nCnt \in 0..(CheckTimeRoll + 1) /\ DOMAIN g = Fields /\ CheckTimeRoll \in Nat
  BY <1>1, ClosedFields, LogFileAssumption DEF LogFileOK
<1>3. r = IF TooLarge(g) THEN rollFile(g, t)
          ELSE IF ~TimeToCheck(g) THEN [g EXCEPT !.m_nCnt = @ + 1]
          ELSE IF Period(t) # g.m_tStartOfPeriod THEN rollFile(checked, t)
          ELSE IF t > g.m_tLaseFlush + FlushInterval
            THEN Flush([checked EXCEPT !.m_tLaseFlush = t])
          ELSE checked
  BY DEF appendUnlocked
<1> HIDE DEF g, r
<1>4. /\ LogFileOK(checked) /\ checked.lines = g.lines /\ checked.m_nCnt = 0
      /\ checked.stale = g.stale /\ checked.overdue = g.overdue
      /\ checked.m_tLastRoll = g.m_tLastRoll
  <2>1. /\ DOMAIN checked = Fields /\ checked.lines = g.lines /\ checked.m_nCnt = 0
        /\ checked.stale = g.stale /\ checked.overdue = g.overdue
        /\ checked.m_tLastRoll = g.m_tLastRoll /\ checked.m_tLaseFlush = g.m_tLaseFlush
        /\ checked.unflushed = g.unflushed
    BY <1>2 DEF Fields
  <2> HIDE DEF checked
  <2>2. LogFileOK(checked)
    BY <1>1, <1>2, <2>1, ClosedFields DEF LogFileOK
  <2> QED
    BY <2>1, <2>2
<1> HIDE DEF checked
<1>5. CASE TooLarge(g)
  <2>1. r = rollFile(g, t)
    BY <1>3, <1>5
  <2>2. LogFileOK(r) /\ r.lines = g.lines /\ r.m_nCnt = g.m_nCnt
    BY <1>1, <2>1, RolledFile
  <2>3. CASE t > g.m_tLastRoll
    <3>1. r.stale = 0 /\ r.overdue = FALSE
      BY <1>1, <2>1, <2>3, RolledFile
    <3> QED
      BY <1>1, <1>2, <2>2, <3>1
  <2>4. CASE ~(t > g.m_tLastRoll)
    <3>1. r = g
      BY <1>1, <2>1, <2>4, RolledFile
    <3>2. ~g.overdue /\ g.stale = 0
      BY <1>1, <2>4
    <3> QED
      BY <1>1, <1>2, <2>2, <3>1, <3>2
  <2> QED
    BY <2>3, <2>4
<1>6. CASE ~TooLarge(g) /\ ~TimeToCheck(g)
  <2>1. r = [g EXCEPT !.m_nCnt = @ + 1]
    BY <1>3, <1>6
  <2>2. g.m_nCnt + 1 \in 0..(CheckTimeRoll + 1) /\ g.stale \in 0..(g.m_nCnt + 1)
    BY <1>1, <1>2, <1>6 DEF TimeToCheck
  <2>3. /\ DOMAIN r = Fields /\ r.m_nCnt = g.m_nCnt + 1 /\ r.lines = g.lines /\ r.stale = g.stale
        /\ r.overdue = g.overdue /\ r.m_tLastRoll = g.m_tLastRoll
        /\ r.m_tLaseFlush = g.m_tLaseFlush /\ r.unflushed = g.unflushed
    BY <1>2, <2>1 DEF Fields
  <2>4. LogFileOK(r)
    BY <1>1, <2>2, <2>3, ClosedFields DEF LogFileOK
  <2> QED
    BY <1>1, <1>6, <2>2, <2>3, <2>4
<1>7. CASE ~TooLarge(g) /\ TimeToCheck(g) /\ Period(t) # g.m_tStartOfPeriod
  <2>1. r = rollFile(checked, t)
    BY <1>3, <1>7
  <2>2. LogFileOK(r) /\ r.lines = g.lines /\ r.m_nCnt = 0
    BY <1>4, <2>1, RolledFile
  <2>3. CASE t > g.m_tLastRoll
    <3>1. r.stale = 0 /\ r.overdue = FALSE
      BY <1>4, <2>1, <2>3, RolledFile
    <3> QED
      BY <1>1, <2>2, <3>1
  <2>4. CASE ~(t > g.m_tLastRoll)
    <3>1. r = checked
      BY <1>4, <2>1, <2>4, RolledFile
    <3>2. ~g.overdue /\ g.stale = 0
      BY <1>1, <2>4
    <3> QED
      BY <1>1, <1>4, <2>2, <3>1, <3>2
  <2> QED
    BY <2>3, <2>4
<1>8. CASE ~TooLarge(g) /\ TimeToCheck(g) /\ Period(t) = g.m_tStartOfPeriod
  <2>1. r = Flush([checked EXCEPT !.m_tLaseFlush = t]) \/ r = checked
    BY <1>3, <1>8
  <2>2. checked.stale = 0 /\ ~checked.overdue
    BY <1>1, <1>4, <1>8
  <2>3. CASE r = Flush([checked EXCEPT !.m_tLaseFlush = t])
    <3>1. DOMAIN checked = Fields
      BY <1>4, ClosedFields DEF LogFileOK
    <3>2. /\ DOMAIN r = Fields /\ r.m_nCnt = checked.m_nCnt /\ r.lines = checked.lines
          /\ r.stale = checked.stale /\ r.overdue = checked.overdue
          /\ r.m_tLastRoll = checked.m_tLastRoll /\ r.m_tLaseFlush = t /\ r.unflushed = FALSE
      BY <2>3, <3>1 DEF Flush, Fields
    <3>3. LogFileOK(r)
      BY <1>4, <3>2, ClosedFields DEF LogFileOK
    <3> QED
      BY <1>1, <1>4, <2>2, <3>2, <3>3
  <2> QED
    BY <1>1, <1>4, <2>1, <2>2, <2>3
<1> QED
  BY <1>5, <1>6, <1>7, <1>8

LEMMA FlushedFile ==
    ASSUME NEW f, LogFileOK(f)
    PROVE  /\ LogFileOK(Flush(f)) /\ Flush(f).lines = f.lines
           /\ Flush(f).overdue = f.overdue /\ Flush(f).stale = f.stale /\ Flush(f).m_nCnt = f.m_nCnt
  BY ClosedFields DEF Flush, LogFileOK, Fields

\* The first file.
LEMMA NewFile ==
    ASSUME NEW t \in Nat
    PROVE  /\ LogFileOK(Closed) /\ Closed.lines = <<>> /\ ~Closed.overdue /\ Closed.stale = 0
           /\ Closed.m_nCnt = 0 /\ LogFileOK(NewLogFile(t)) /\ NewLogFile(t).lines = <<>>
           /\ ~NewLogFile(t).overdue /\ NewLogFile(t).stale = 0 /\ NewLogFile(t).m_nCnt = 0
<1>1. /\ LogFileOK(Closed) /\ Closed.lines = <<>> /\ ~Closed.overdue /\ Closed.stale = 0
      /\ Closed.m_nCnt = 0
  BY LogFileAssumption DEF Closed, LogFileOK
<1> QED
  BY <1>1, RolledFile DEF NewLogFile

-----------------------------------------------------------------------------
(* The steps                                                                *)

LoggerInv ==
    TypeOK /\ NumberInv /\ BufferInv /\ LatchInv /\ RollInv /\ LinesInOrder /\ failed = "no"

\* No assertion fails if all hold.
LEMMA NoneFailed ==
    ASSUME NEW asserts, \A i \in 1..Len(asserts) : asserts[i][1]
    PROVE  FirstFailed(asserts) = failed
  BY DEF FirstFailed

LEMMA NoneOfOne ==
    ASSUME NEW a, NEW line, a
    PROVE  FirstFailed(<< <<a, line>> >>) = failed
<1> DEFINE asserts == << <<a, line>> >>
<1>1. Len(asserts) = 1 /\ asserts[1][1] = a /\ \A i \in 1..1 : i = 1
  OBVIOUS
<1> HIDE DEF asserts
<1>2. \A i \in 1..Len(asserts) : asserts[i][1]
  BY <1>1
<1> QED
  BY <1>2, NoneFailed DEF asserts

LEMMA QueuedTypes ==
    ASSUME TypeOK
    PROVE  /\ Queued \in Seq(Buffer) /\ Queued # <<>> /\ output.lines \in File
           /\ SubSeq(buffersToWrite, n + 1, Len(buffersToWrite)) \in Seq(Buffer)
           /\ Len(buffersToWrite) \in Nat /\ Len(m_Buffers) \in Nat
           /\ Len(SubSeq(buffersToWrite, n + 1, Len(buffersToWrite))) = Len(buffersToWrite) - n
           /\ Len(Queued) = (Len(buffersToWrite) - n) + Len(m_Buffers) + 1
           /\ Queued[Len(Queued)] = m_pCurBuffer
<1> DEFINE rest == SubSeq(buffersToWrite, n + 1, Len(buffersToWrite))
<1>1. /\ buffersToWrite \in Seq(Buffer) /\ m_Buffers \in Seq(Buffer) /\ m_pCurBuffer \in Buffer
      /\ n \in 0..Len(buffersToWrite) /\ output.lines \in File
  BY DEF TypeOK, LogFileOK, File
<1>2. rest \in Seq(Buffer) /\ Len(rest) = Len(buffersToWrite) - n
  BY <1>1
<1> HIDE DEF rest
<1>3. rest \o m_Buffers \in Seq(Buffer) /\ Len(rest \o m_Buffers) = Len(rest) + Len(m_Buffers)
  BY <1>1, <1>2
<1>4. Queued = (rest \o m_Buffers) \o <<m_pCurBuffer>>
  BY DEF Queued, rest
<1>5. /\ Queued \in Seq(Buffer) /\ Len(Queued) = Len(rest) + Len(m_Buffers) + 1
      /\ Queued[Len(Queued)] = m_pCurBuffer
  <2> DEFINE m == rest \o m_Buffers
             q == m \o <<m_pCurBuffer>>
  <2>1. m \in Seq(Buffer) /\ Len(m) = Len(rest) + Len(m_Buffers)
    BY <1>3
  <2> HIDE DEF m
  <2>2. q \in Seq(Buffer) /\ Len(q) = Len(m) + 1 /\ q[Len(m) + 1] = m_pCurBuffer
    BY <1>1, <2>1, OneMore
  <2>3. Queued = q
    BY <1>4 DEF m
  <2> HIDE DEF q
  <2> QED
    BY <2>1, <2>2, <2>3
<1> QED
  BY <1>1, <1>2, <1>5 DEF rest

\* A step that leaves the buffers and the file alone, apart from whose turn it is.
LEMMA LinesUntouched ==
    ASSUME LinesInOrder, UNCHANGED <<m_pCurBuffer, m_Buffers, buffersToWrite, n, appended, lost>>,
           output'.lines = output.lines
    PROVE  LinesInOrder'
<1>1. Queued' = Queued
  BY DEF Queued
<1> QED
  BY <1>1, LinesInOrderAsOperator

\* The owner, the clock, and threadFunc between its buffers.
LEMMA OtherSteps ==
    ASSUME LoggerInv,
           \/ LatchWait \/ StopNotify \/ StopJoin \/ Start \/ Stop \/ Destroy \/ Tick \/ SetBack
           \/ CountDown \/ WaitForSeconds \/ WaitTimesOut
    PROVE  LoggerInv'
<1> USE DEF LoggerInv
<1>1. UNCHANGED <<bufferVars, localVars, output, historyVars, lost>>
  BY DEF LatchWait, StopNotify, StopJoin, Start, Stop, Destroy, Tick, SetBack, CountDown,
         WaitForSeconds, WaitTimesOut
<1>2. LinesInOrder' /\ NumberInv' /\ RollInv'
  BY <1>1, LinesUntouched DEF bufferVars, localVars, historyVars, NumberInv, RollInv
<1>3. failed' = "no"
  <2>1. CASE CountDown
    <3>1. m_bRunning
      BY <2>1 DEF CountDown, LatchInv
    <3>2. FirstFailed(<< <<m_bRunning, "61">> >>) = failed
      BY <3>1, NoneOfOne
    <3> QED
      BY <2>1, <3>2 DEF CountDown
  <2> QED
    BY <2>1 DEF LatchWait, StopNotify, StopJoin, Start, Stop, Destroy, Tick, SetBack,
                WaitForSeconds, WaitTimesOut
<1>4. now' \in 1..MaxTime /\ setBack' \in BOOLEAN /\ m_nLatch' \in 0..1 /\ m_bRunning' \in BOOLEAN
  <2> USE DEF LatchWait, StopNotify, StopJoin, Start, Stop, Destroy, Tick, SetBack, CountDown,
              WaitForSeconds, WaitTimesOut, clockVars
  <2>1. now' \in 1..MaxTime
    BY BufferAssumption DEF TypeOK
  <2>2. m_nLatch' \in 0..1
    BY DEF TypeOK, LatchInv
  <2>3. setBack' \in BOOLEAN /\ m_bRunning' \in BOOLEAN
    BY DEF TypeOK
  <2> QED
    BY <2>1, <2>2, <2>3
<1>5. /\ threadAt' \in {"none", "started", "open", "test", "lock", "wait", "waited", "drop", "write",
                        "ended"}
      /\ ownerAt' \in {"constructed", "latch", "running", "notify", "join", "stopped", "gone"}
  BY DEF LatchWait, StopNotify, StopJoin, Start, Stop, Destroy, Tick, SetBack, CountDown,
         WaitForSeconds, WaitTimesOut, TypeOK, Notified
<1>6. TypeOK'
  BY <1>1, <1>4, <1>5 DEF TypeOK, bufferVars, localVars, historyVars
<1>7. LatchInv'
  BY DEF LatchWait, StopNotify, StopJoin, Start, Stop, Destroy, Tick, SetBack, CountDown,
         WaitForSeconds, WaitTimesOut, TypeOK, LatchInv, Notified
<1>8. \/ threadAt' = threadAt
      \/ threadAt \in {"none", "started"} /\ threadAt' \in {"started", "open"}
      \/ threadAt \in {"lock", "wait"} /\ threadAt' \in {"wait", "waited"}
  BY DEF LatchWait, StopNotify, StopJoin, Start, Stop, Destroy, Tick, SetBack, CountDown,
         WaitForSeconds, WaitTimesOut, LatchInv, Notified
<1>9. BufferInv'
  BY <1>1, <1>8 DEF BufferInv, bufferVars, localVars
<1> QED
  BY <1>2, <1>3, <1>6, <1>7, <1>9

-----------------------------------------------------------------------------
(* Append                                                                   *)

\* The current buffer is moved behind the filled ones, and another takes its place.
LEMMA BufferMoved ==
    ASSUME NEW S, NEW r \in Seq(S), NEW m \in Seq(S), NEW x \in S, NEW y \in S
    PROVE  (r \o Append(m, x)) \o <<y>> = Append((r \o m) \o <<x>>, y)
<1>1. Append(m, x) = m \o <<x>> /\ <<x>> \in Seq(S)
  BY AppendIsConcat
<1>2. r \o Append(m, x) = (r \o m) \o <<x>>
  BY <1>1, ConcatAssociative
<1>3. r \o m \in Seq(S)
  OBVIOUS
<1>4. (r \o m) \o <<x>> \in Seq(S)
  BY <1>3, OneMore
<1> QED
  BY <1>2, <1>4, AppendIsConcat

\* A line is appended to an empty buffer that comes last.
LEMMA LineAddedToEmpty ==
    ASSUME NEW out \in File, NEW q \in Seq(Buffer), q # <<>>, NEW app \in Seq(Line), NEW gone,
           InOrder(out, q, app, gone), NEW line \in Line, line \notin gone,
           \A i \in 1..Len(app) : app[i][1] < line[1]
    PROVE  InOrder(out, Append(q, <<line>>), Append(app, line), gone)
<1> DEFINE p == Append(q, <<>>)
<1>1. p \in Seq(Buffer) /\ InOrder(out, p, app, gone)
  BY EmptyBufferAdded
<1>2. p = q \o <<<<>>>> /\ <<>> \in Buffer
  BY LineTypes, AppendIsConcat
<1>3. InOrder(out, q \o <<Append(<<>>, line)>>, Append(app, line), gone)
  BY <1>1, <1>2, LineAdded
<1>4. Append(<<>>, line) = <<line>> /\ <<line>> \in Buffer
  BY DEF Buffer
<1>5. q \o <<<<line>>>> = Append(q, <<line>>)
  BY <1>4, AppendIsConcat
<1> QED
  BY <1>3, <1>4, <1>5

\* Append keeps every line in order, wherever the line goes.
LEMMA AppendKeepsOrder ==
    ASSUME LoggerInv, NEW length \in LineLength, AppendLine(length)
    PROVE  /\ LinesInOrder' /\ NumberInv' /\ lines' \in 0..MaxLines /\ appended' \in Seq(Line)
           /\ m_pCurBuffer' \in Buffer /\ m_Buffers' \in Seq(Buffer)
           /\ m_pNextBuffer' \in {NULL, NewBuffer} /\ (m_pNextBuffer' = NULL => m_Buffers' # <<>>)
<1> USE DEF LoggerInv
<1> DEFINE line == <<lines + 1, length>>
           fresh == IF m_pNextBuffer # NULL THEN m_pNextBuffer ELSE NewBuffer
           rest == SubSeq(buffersToWrite, n + 1, Len(buffersToWrite))
           m == rest \o m_Buffers
<1>1. /\ lines < MaxLines /\ lines' = lines + 1 /\ lines \in Nat /\ fresh = <<>>
      /\ UNCHANGED <<buffersToWrite, n, output, lost>>
  BY BufferAssumption DEF AppendLine, localVars, TypeOK, NewBuffer
<1>2. line \in Line /\ line[1] = lines + 1 /\ line[2] = length /\ lines' \in 0..MaxLines
  BY <1>1, BufferAssumption DEF Line
<1>3. /\ appended \in Seq(Line) /\ m_Buffers \in Seq(Buffer) /\ m_pCurBuffer \in Buffer
      /\ \A i \in 1..Len(appended) : appended[i] \in Line /\ appended[i][1] \in Nat
      /\ \A l \in lost : l \in Line /\ l[1] \in Nat
  BY LineTypes DEF TypeOK
<1>4. (\A i \in 1..Len(appended) : appended[i][1] < line[1]) /\ line \notin lost
  BY <1>1, <1>2, <1>3 DEF NumberInv
<1>5. InOrder(output.lines, Queued, appended, lost)
  BY LinesInOrderAsOperator
<1>6. /\ Queued \in Seq(Buffer) /\ Queued # <<>> /\ output.lines \in File /\ rest \in Seq(Buffer)
      /\ Queued[Len(Queued)] = m_pCurBuffer
  BY QueuedTypes
<1>7. m \in Seq(Buffer) /\ Queued = m \o <<m_pCurBuffer>>
  BY <1>3, <1>6 DEF Queued
<1>8. Queued' = (rest \o m_Buffers') \o <<m_pCurBuffer'>>
  BY <1>1 DEF Queued
<1> HIDE DEF line, fresh, rest
<1>9. Append(appended, line) \in Seq(Line)
  BY <1>2, <1>3
<1>10. \A i \in 1..Len(Append(appended, line)) : Append(appended, line)[i][1] <= lines'
  <2>1. /\ Len(appended) \in Nat /\ Len(Append(appended, line)) = Len(appended) + 1
        /\ Append(appended, line)[Len(appended) + 1] = line
        /\ \A i \in 1..Len(appended) : Append(appended, line)[i] = appended[i]
    BY <1>2, <1>3
  <2>2. \A i \in 1..Len(Append(appended, line)) : i \in 1..Len(appended) \/ i = Len(appended) + 1
    BY <2>1
  <2>3. \A i \in 1..Len(appended) : appended[i][1] <= lines + 1
    BY <1>1, <1>3 DEF NumberInv
  <2> QED
    BY <1>1, <1>2, <2>1, <2>2, <2>3
<1>11. (\A l \in lost' : l[1] <= lines') /\ \A i \in 1..Len(appended) : appended[i][1] <= lines'
  BY <1>1, <1>3 DEF NumberInv
<1>12. CASE GetAvail(m_pCurBuffer) > length
  <2>1. /\ m_pCurBuffer' = Append(m_pCurBuffer, line) /\ appended' = Append(appended, line)
        /\ UNCHANGED <<m_pNextBuffer, m_Buffers>>
    BY <1>2, <1>12 DEF AppendLine, BufferAppend, line
  <2>2. m_pCurBuffer' \in Buffer
    BY <1>2, <1>3, <2>1 DEF Buffer
  <2>3. Queued' = m \o <<Append(m_pCurBuffer, line)>>
    BY <1>8, <2>1
  <2> HIDE DEF m
  <2>4. InOrder(output.lines, Queued', Append(appended, line), lost)
    BY <1>2, <1>3, <1>4, <1>5, <1>6, <1>7, <2>3, LineAdded
  <2>5. LinesInOrder'
    BY <1>1, <2>1, <2>4, LinesInOrderAsOperator
  <2>6. NumberInv'
    BY <1>10, <1>11, <2>1 DEF NumberInv
  <2> QED
    BY <1>2, <1>3, <1>9, <2>1, <2>2, <2>5, <2>6 DEF TypeOK, BufferInv
<1>13. CASE ~(GetAvail(m_pCurBuffer) > length)
  <2>1. /\ m_Buffers' = Append(m_Buffers, m_pCurBuffer)
        /\ m_pCurBuffer' = BufferAppend(fresh, line)
        /\ m_pNextBuffer' = NULL
        /\ appended' = IF GetAvail(fresh) > length THEN Append(appended, line) ELSE appended
    BY <1>13 DEF AppendLine, line, fresh
  <2>2. m_Buffers' \in Seq(Buffer) /\ m_Buffers' # <<>>
    BY <1>3, <2>1
  <2>3. ASSUME m_pCurBuffer' \in Buffer PROVE Queued' = Append(Queued, m_pCurBuffer')
    BY <1>3, <1>6, <1>7, <1>8, <2>1, <2>3, BufferMoved
  <2>4. CASE GetAvail(fresh) > length
    <3>1. m_pCurBuffer' = <<line>> /\ appended' = Append(appended, line)
      BY <1>1, <1>2, <2>1, <2>4 DEF BufferAppend
    <3>2. <<line>> \in Buffer
      BY <1>2 DEF Buffer
    <3>3. InOrder(output.lines, Queued', appended', lost)
      BY <1>2, <1>3, <1>4, <1>5, <1>6, <2>3, <3>1, <3>2, LineAddedToEmpty
    <3>4. LinesInOrder' /\ NumberInv'
      BY <1>1, <1>10, <1>11, <3>1, <3>3, LinesInOrderAsOperator DEF NumberInv
    <3> QED
      BY <1>2, <1>9, <2>1, <2>2, <3>1, <3>2, <3>4
  <2>5. CASE ~(GetAvail(fresh) > length)
    <3>1. m_pCurBuffer' = <<>> /\ appended' = appended
      BY <1>1, <1>2, <2>1, <2>5 DEF BufferAppend
    <3>2. InOrder(output.lines, Queued', appended', lost)
      BY <1>5, <1>6, <2>3, <3>1, LineTypes, EmptyBufferAdded
    <3>3. LinesInOrder' /\ NumberInv'
      BY <1>1, <1>11, <3>1, <3>2, LinesInOrderAsOperator DEF NumberInv
    <3> QED
      BY <1>2, <1>3, <2>1, <2>2, <3>1, <3>3, LineTypes
  <2> QED
    BY <2>4, <2>5
<1> QED
  BY <1>12, <1>13

LEMMA AppendStep ==
    ASSUME LoggerInv, NEW length \in LineLength, AppendLine(length)
    PROVE  LoggerInv'
<1> USE DEF LoggerInv
<1>1. /\ LinesInOrder' /\ NumberInv' /\ lines' \in 0..MaxLines /\ appended' \in Seq(Line)
      /\ m_pCurBuffer' \in Buffer /\ m_Buffers' \in Seq(Buffer)
      /\ m_pNextBuffer' \in {NULL, NewBuffer} /\ (m_pNextBuffer' = NULL => m_Buffers' # <<>>)
  BY AppendKeepsOrder
<1>2. /\ UNCHANGED <<m_bRunning, m_nLatch, newBuffer1, newBuffer2, buffersToWrite, n, output,
                    ownerAt, now, setBack, failed, lost>>
      /\ threadAt' = threadAt \/ (threadAt = "wait" /\ threadAt' = "waited")
  BY DEF AppendLine, Notified, localVars, clockVars
<1>3. TypeOK'
  BY <1>1, <1>2 DEF TypeOK
<1>4. BufferInv' /\ LatchInv' /\ RollInv'
  BY <1>1, <1>2 DEF BufferInv, LatchInv, RollInv
<1> QED
  BY <1>1, <1>2, <1>3, <1>4

-----------------------------------------------------------------------------
(* threadFunc                                                               *)

LEMMA OpenOutputStep ==
    ASSUME LoggerInv, OpenOutput
    PROVE  LoggerInv'
<1> USE DEF LoggerInv
<1>1. /\ threadAt = "open" /\ threadAt' = "test" /\ output = Closed /\ output' = NewLogFile(now)
      /\ newBuffer1' = NewBuffer /\ newBuffer2' = NewBuffer /\ buffersToWrite = <<>>
      /\ UNCHANGED <<m_bRunning, m_nLatch, m_pCurBuffer, m_pNextBuffer, m_Buffers, buffersToWrite,
                     n, ownerAt, now, setBack, failed, lines, appended, lost>>
  BY DEF OpenOutput, BufferInv, bufferVars, clockVars, historyVars
<1>2. now \in Nat
  BY DEF TypeOK
<1>3. LogFileOK(output') /\ output'.lines = output.lines /\ RollInv'
  BY <1>1, <1>2, NewFile DEF RollInv
<1>4. LinesInOrder'
  BY <1>1, <1>3, LinesUntouched
<1>5. TypeOK' /\ NumberInv'
  BY <1>1, <1>3 DEF TypeOK, NumberInv
<1>6. BufferInv' /\ LatchInv'
  BY <1>1 DEF BufferInv, LatchInv
<1> QED
  BY <1>1, <1>3, <1>4, <1>5, <1>6

\* Two and three assertions.
LEMMA NoneOfTwo ==
    ASSUME NEW a, NEW l, NEW b, NEW m, a, b
    PROVE  FirstFailed(<< <<a, l>>, <<b, m>> >>) = failed
<1> DEFINE asserts == << <<a, l>>, <<b, m>> >>
<1>1. Len(asserts) = 2 /\ asserts[1][1] = a /\ asserts[2][1] = b /\ \A i \in 1..2 : i = 1 \/ i = 2
  OBVIOUS
<1> HIDE DEF asserts
<1>2. \A i \in 1..Len(asserts) : asserts[i][1]
  BY <1>1
<1> QED
  BY <1>2, NoneFailed DEF asserts

LEMMA NoneOfThree ==
    ASSUME NEW a, NEW l, NEW b, NEW m, NEW c, NEW k, a, b, c
    PROVE  FirstFailed(<< <<a, l>>, <<b, m>>, <<c, k>> >>) = failed
<1> DEFINE asserts == << <<a, l>>, <<b, m>>, <<c, k>> >>
<1>1. /\ Len(asserts) = 3 /\ asserts[1][1] = a /\ asserts[2][1] = b /\ asserts[3][1] = c
      /\ \A i \in 1..3 : i = 1 \/ i = 2 \/ i = 3
  OBVIOUS
<1> HIDE DEF asserts
<1>2. \A i \in 1..Len(asserts) : asserts[i][1]
  BY <1>1
<1> QED
  BY <1>2, NoneFailed DEF asserts

LEMMA TestRunningStep ==
    ASSUME LoggerInv, TestRunning
    PROVE  LoggerInv'
<1> USE DEF LoggerInv
<1>1. /\ threadAt = "test" /\ threadAt' \in {"lock", "ended"}
      /\ UNCHANGED <<m_bRunning, m_nLatch, m_pCurBuffer, m_pNextBuffer, m_Buffers, newBuffer1,
                     newBuffer2, buffersToWrite, n, ownerAt, now, setBack, lines, appended, lost>>
      /\ output' = output \/ output' = Flush(output)
  BY DEF TestRunning, bufferVars, localVars, clockVars, historyVars
<1>2. newBuffer1 = NewBuffer /\ newBuffer2 = NewBuffer /\ buffersToWrite = <<>>
  BY <1>1 DEF BufferInv
<1>3. FirstFailed(<< <<newBuffer1 = NewBuffer, "73">>, <<newBuffer2 = NewBuffer, "74">>,
                     <<buffersToWrite = <<>>, "75">> >>) = failed
  <2> DEFINE a == newBuffer1 = NewBuffer
             b == newBuffer2 = NewBuffer
             c == buffersToWrite = <<>>
  <2>1. a /\ b /\ c
    BY <1>2
  <2> HIDE DEF a, b, c
  <2>2. FirstFailed(<< <<a, "73">>, <<b, "74">>, <<c, "75">> >>) = failed
    BY <2>1, NoneOfThree
  <2> QED
    BY <2>2 DEF a, b, c
<1>4. failed' = "no"
  BY <1>3 DEF TestRunning
<1>5. /\ LogFileOK(output') /\ output'.lines = output.lines /\ output'.overdue = output.overdue
      /\ output'.stale = output.stale /\ output'.m_nCnt = output.m_nCnt
  BY <1>1, FlushedFile DEF TypeOK
<1>6. LinesInOrder'
  BY <1>1, <1>5, LinesUntouched
<1>7. TypeOK' /\ NumberInv' /\ RollInv'
  BY <1>1, <1>5 DEF TypeOK, NumberInv, RollInv
<1>8. BufferInv' /\ LatchInv'
  BY <1>1, <1>2 DEF BufferInv, LatchInv
<1> QED
  BY <1>4, <1>6, <1>7, <1>8

\* The critical section: all that is not written is in buffersToWrite, behind it an empty buffer.
LEMMA SwapBuffersStep ==
    ASSUME LoggerInv, SwapBuffers
    PROVE  LoggerInv'
<1> USE DEF LoggerInv
<1>1. /\ threadAt \in {"lock", "waited"} /\ threadAt' = "drop" /\ m_Buffers' = <<>>
      /\ buffersToWrite' = Append(m_Buffers, m_pCurBuffer) /\ m_pCurBuffer' = newBuffer1
      /\ newBuffer1' = NULL
      /\ UNCHANGED <<m_bRunning, m_nLatch, n, output, ownerAt, now, setBack, failed, lines, appended,
                     lost>>
      /\ IF m_pNextBuffer = NULL
           THEN m_pNextBuffer' = newBuffer2 /\ newBuffer2' = NULL
           ELSE UNCHANGED <<m_pNextBuffer, newBuffer2>>
  BY DEF SwapBuffers, clockVars, historyVars
<1>2. newBuffer1 = <<>> /\ newBuffer2 = <<>> /\ buffersToWrite = <<>> /\ n = 0
  BY <1>1 DEF BufferInv, NewBuffer, TypeOK
<1>3. /\ m_Buffers \in Seq(Buffer) /\ m_pCurBuffer \in Buffer /\ <<>> \in Buffer
      /\ m_pNextBuffer \in {NULL, <<>>} /\ NULL # <<>>
  BY LineTypes, BufferAssumption DEF TypeOK, NewBuffer
<1>4. /\ buffersToWrite' \in Seq(Buffer) /\ Len(buffersToWrite') = Len(m_Buffers) + 1
      /\ Len(m_Buffers) \in Nat /\ buffersToWrite' = m_Buffers \o <<m_pCurBuffer>>
  BY <1>1, <1>3, OneMore
<1>5. m_Buffers # <<>> => Len(m_Buffers) > 0
  BY <1>3, <1>4
<1>6. Queued = buffersToWrite'
  <2>1. SubSeq(buffersToWrite, n + 1, Len(buffersToWrite)) = <<>>
    BY <1>2
  <2>2. <<>> \o m_Buffers = m_Buffers
    BY <1>3, ConcatEmptySeq
  <2> QED
    BY <1>4, <2>1, <2>2 DEF Queued
<1>7. Queued' = Append(buffersToWrite', <<>>)
  <2> DEFINE b == buffersToWrite'
  <2>1. b \in Seq(Buffer) /\ Queued' = SubSeq(b, n + 1, Len(b)) \o <<>> \o <<<<>>>>
    BY <1>1, <1>2, <1>4 DEF Queued
  <2> HIDE DEF b
  <2>2. SubSeq(b, n + 1, Len(b)) = b
    BY <1>2, <2>1
  <2>3. b \o <<>> = b /\ b \o <<<<>>>> = Append(b, <<>>)
    BY <1>3, <2>1, ConcatEmptySeq, AppendIsConcat
  <2>4. Queued' = Append(b, <<>>)
    BY <2>1, <2>2, <2>3
  <2> QED
    BY <2>4 DEF b
<1>8. LinesInOrder'
  <2>1. InOrder(output.lines, Queued, appended, lost) /\ Queued \in Seq(Buffer)
        /\ output.lines \in File
    BY LinesInOrderAsOperator, QueuedTypes
  <2>2. InOrder(output.lines, Queued', appended, lost)
    BY <1>6, <1>7, <2>1, EmptyBufferAdded
  <2> QED
    BY <1>1, <2>2, LinesInOrderAsOperator
<1>9. TypeOK'
  BY <1>1, <1>2, <1>3, <1>4 DEF TypeOK, NewBuffer
<1>10. NumberInv' /\ RollInv' /\ LatchInv'
  BY <1>1 DEF NumberInv, RollInv, LatchInv
<1>11. BufferInv'
  <2>1. buffersToWrite' # <<>> /\ (m_pNextBuffer = NULL => Len(buffersToWrite') >= 2)
    BY <1>1, <1>3, <1>4, <1>5 DEF BufferInv
  <2>2. m_pNextBuffer' # NULL /\ (newBuffer2' = NULL => m_pNextBuffer = NULL)
    BY <1>1, <1>2, <1>3
  <2> QED
    BY <1>1, <1>2, <2>1, <2>2 DEF BufferInv
<1> QED
  BY <1>1, <1>8, <1>9, <1>10, <1>11

\* What is left when the first buffers that are to be written are gone.
LEMMA RestOfQueue ==
    ASSUME NEW S, NEW b \in Seq(S), NEW m \in Seq(S), NEW k \in 0..Len(b)
    PROVE  /\ SubSeq(b, k + 1, Len(b)) \o m = SubSeq(b \o m, k + 1, Len(b \o m))
           /\ SubSeq(b, k + 1, Len(b)) \in Seq(S)
<1> DEFINE r == SubSeq(b, k + 1, Len(b))
           c == b \o m
           t == SubSeq(c, k + 1, Len(c))
<1>1. /\ Len(b) \in Nat /\ Len(m) \in Nat /\ c \in Seq(S) /\ Len(c) = Len(b) + Len(m)
      /\ \A i \in 1..Len(c) : c[i] = IF i <= Len(b) THEN b[i] ELSE m[i - Len(b)]
  OBVIOUS
<1>2. r \in Seq(S) /\ Len(r) = Len(b) - k /\ \A i \in 1..Len(r) : r[i] = b[k + i]
  BY <1>1
<1> HIDE DEF c
<1>3. t \in Seq(S) /\ Len(t) = Len(c) - k /\ \A i \in 1..Len(t) : t[i] = c[k + i]
  BY <1>1
<1> HIDE DEF r, t
<1>4. /\ r \o m \in Seq(S) /\ Len(r \o m) = Len(r) + Len(m)
      /\ \A i \in 1..(Len(r) + Len(m)) : (r \o m)[i] = IF i <= Len(r) THEN r[i] ELSE m[i - Len(r)]
  BY <1>2, ConcatProperties
<1> DEFINE v == r \o m
<1> HIDE DEF v
<1>5. ASSUME NEW i \in 1..Len(t) PROVE v[i] = t[i]
  <2>1. i \in 1..(Len(r) + Len(m)) /\ k + i \in 1..Len(c) /\ i \in Nat
    BY <1>1, <1>2, <1>3
  <2>2. CASE i <= Len(r)
    <3>1. v[i] = b[k + i] /\ k + i <= Len(b)
      BY <1>1, <1>2, <1>4, <2>1, <2>2 DEF v
    <3> QED
      BY <1>1, <1>3, <2>1, <3>1
  <2>3. CASE ~(i <= Len(r))
    <3>1. v[i] = m[i - Len(r)] /\ ~(k + i <= Len(b)) /\ (k + i) - Len(b) = i - Len(r)
      BY <1>1, <1>2, <1>4, <2>1, <2>3 DEF v
    <3> QED
      BY <1>1, <1>3, <2>1, <3>1
  <2> QED
    BY <2>2, <2>3
<1>6. v = t
  <2>1. Len(v) = Len(t) /\ v \in Seq(S)
    BY <1>1, <1>2, <1>3, <1>4 DEF v
  <2> QED
    BY <1>3, <1>5, <2>1, SeqEqual
<1> QED
  BY <1>2, <1>6 DEF v, t, r, c

\* Queued is what is left of all buffers.
LEMMA QueueIsRest ==
    ASSUME NEW b \in Seq(Buffer), NEW m \in Seq(Buffer), NEW x \in Buffer, NEW k \in 0..Len(b)
    PROVE  LET all == b \o (m \o <<x>>)
           IN  /\ SubSeq(b, k + 1, Len(b)) \o m \o <<x>> = SubSeq(all, k + 1, Len(all))
               /\ all \in Seq(Buffer) /\ Len(all) = Len(b) + Len(m) + 1
               /\ Len(b) \in Nat /\ Len(m) \in Nat /\ \A i \in 1..Len(b) : all[i] = b[i]
<1> DEFINE t == m \o <<x>>
           r == SubSeq(b, k + 1, Len(b))
<1>1. t \in Seq(Buffer) /\ Len(t) = Len(m) + 1 /\ <<x>> \in Seq(Buffer) /\ Len(m) \in Nat
  BY OneMore
<1>2. r \in Seq(Buffer) /\ (r \o m) \o <<x>> = r \o t
  <2>1. r \in Seq(Buffer)
    BY RestOfQueue
  <2> HIDE DEF r
  <2> QED
    BY <1>1, <2>1, ConcatAssociative
<1> HIDE DEF t
<1>3. r \o t = SubSeq(b \o t, k + 1, Len(b \o t))
  BY <1>1, RestOfQueue
<1>4. /\ b \o t \in Seq(Buffer) /\ Len(b \o t) = Len(b) + Len(t) /\ Len(b) \in Nat
      /\ \A i \in 1..Len(b) : (b \o t)[i] = b[i]
  BY <1>1
<1>5. SubSeq(b, k + 1, Len(b)) \o m \o <<x>> = SubSeq(b \o t, k + 1, Len(b \o t))
  BY <1>2, <1>3, Zenon
<1>6. Len(b \o t) = Len(b) + Len(m) + 1
  BY <1>1, <1>4
<1> QED
  BY <1>1, <1>4, <1>5, <1>6 DEF t

LEMMA WriteBufferStep ==
    ASSUME LoggerInv, WriteBuffer
    PROVE  LoggerInv'
<1> USE DEF LoggerInv
<1> DEFINE all == buffersToWrite \o (m_Buffers \o <<m_pCurBuffer>>)
<1>1. /\ threadAt = "write" /\ n < Len(buffersToWrite) /\ n' = n + 1
      /\ output' = appendUnlocked(output, buffersToWrite[n + 1], now)
      /\ UNCHANGED <<m_bRunning, m_nLatch, m_pCurBuffer, m_pNextBuffer, m_Buffers, newBuffer1,
                     newBuffer2, buffersToWrite, threadAt, ownerAt, now, setBack, failed, lines,
                     appended, lost>>
  BY DEF WriteBuffer, bufferVars, clockVars, historyVars
<1>2. /\ buffersToWrite \in Seq(Buffer) /\ m_Buffers \in Seq(Buffer) /\ m_pCurBuffer \in Buffer
      /\ n \in 0..Len(buffersToWrite) /\ now \in Nat /\ LogFileOK(output)
      /\ output.stale \in 0..output.m_nCnt
  BY DEF TypeOK, RollInv
<1>3. n + 1 \in 0..Len(buffersToWrite) /\ n + 1 \in 1..Len(buffersToWrite) /\ n \in Nat
  BY <1>1, <1>2
<1>4. /\ all \in Seq(Buffer) /\ Len(all) \in Nat /\ Len(all) >= n + 2
      /\ all[n + 1] = buffersToWrite[n + 1]
      /\ Queued = SubSeq(all, n + 1, Len(all))
  BY <1>2, <1>3, QueueIsRest DEF Queued
<1>5. Queued' = SubSeq(all, (n + 1) + 1, Len(all))
  BY <1>1, <1>2, <1>3, QueueIsRest DEF Queued
<1> HIDE DEF all
<1>6. /\ Queued \in Seq(Buffer) /\ Queued # <<>> /\ Queued[1] = buffersToWrite[n + 1]
      /\ Queued' = Tail(Queued)
  <2>1. n + 1 \in 1..Len(all) /\ Len(all) \in (n + 1)..Len(all)
    BY <1>3, <1>4
  <2>2. Tail(Queued) = SubSeq(all, (n + 1) + 1, Len(all))
    BY <1>4, <2>1, HeadTailOfSubSeq
  <2>3. \A i \in (n + 1)..Len(all) : all[i] \in Buffer
    BY <1>3, <1>4
  <2>4. /\ Queued \in Seq(Buffer) /\ Len(Queued) = (Len(all) - (n + 1)) + 1
        /\ Queued[1] = all[((n + 1) + 1) - 1]
    BY <1>3, <1>4, <2>3, SubSeqProperties
  <2>5. ((n + 1) + 1) - 1 = n + 1 /\ Len(Queued) # 0
    BY <1>3, <1>4, <2>4
  <2>6. Queued # <<>>
    BY <2>5
  <2> QED
    BY <1>4, <1>5, <2>2, <2>4, <2>5, <2>6, Zenon
<1>7. /\ InOrder(output.lines, Queued, appended, lost) /\ output.lines \in File
      /\ buffersToWrite[n + 1] \in Buffer
  BY <1>2, <1>3, LinesInOrderAsOperator, QueuedTypes, ElementTypes
<1>8. buffersToWrite[n + 1] \in File
  BY <1>7 DEF Buffer, File
<1>9. /\ LogFileOK(output') /\ output'.lines = output.lines \o buffersToWrite[n + 1]
      /\ ~output'.overdue /\ output'.stale \in 0..output'.m_nCnt
  BY <1>1, <1>2, <1>8, FileAppended
<1>10. InOrder(output'.lines, Queued', appended, lost)
  BY <1>6, <1>7, <1>9, FirstWritten
<1>11. LinesInOrder'
  BY <1>1, <1>10, LinesInOrderAsOperator
<1>12. TypeOK' /\ NumberInv' /\ RollInv'
  BY <1>1, <1>3, <1>9 DEF TypeOK, NumberInv, RollInv
<1>13. BufferInv' /\ LatchInv'
  BY <1>1 DEF BufferInv, LatchInv
<1> QED
  BY <1>1, <1>11, <1>12, <1>13

\* The written buffers suffice to replace the ones that Append has.
LEMMA RefillStep ==
    ASSUME LoggerInv, Refill
    PROVE  LoggerInv'
<1> USE DEF LoggerInv
<1> DEFINE kept == Kept(buffersToWrite)
           rest == IF newBuffer1 = NULL /\ kept # <<>> THEN Front(kept) ELSE kept
<1>1. /\ threadAt = "write" /\ n = Len(buffersToWrite) /\ threadAt' = "test"
      /\ newBuffer1' = IF newBuffer1 = NULL /\ kept # <<>> THEN NewBuffer ELSE newBuffer1
      /\ newBuffer2' = IF newBuffer2 = NULL /\ rest # <<>> THEN NewBuffer ELSE newBuffer2
      /\ failed' = FirstFailed(<< <<newBuffer1 = NULL => kept # <<>>, "110">>,
                                  <<newBuffer2 = NULL => rest # <<>>, "116">> >>)
      /\ buffersToWrite' = <<>> /\ n' = 0 /\ output' = Flush(output)
      /\ UNCHANGED <<m_bRunning, m_nLatch, m_pCurBuffer, m_pNextBuffer, m_Buffers, ownerAt, now,
                     setBack, lines, appended, lost>>
  BY DEF Refill, Reset, bufferVars, clockVars, historyVars
<1>2. /\ newBuffer1 = NULL /\ buffersToWrite # <<>> /\ newBuffer2 \in {NULL, NewBuffer}
      /\ newBuffer2 = NULL => Len(buffersToWrite) >= 2
      /\ buffersToWrite \in Seq(Buffer)
  BY <1>1 DEF BufferInv, TypeOK
<1>3. kept \in Seq(Buffer) /\ kept # <<>> /\ (Len(buffersToWrite) >= 2 => Len(kept) = 2)
  <2>1. Len(buffersToWrite) \in Nat \ {0}
    BY <1>2, EmptySeq
  <2>2. CASE Len(buffersToWrite) > 2
    <3>1. kept = SubSeq(buffersToWrite, 1, 2)
      BY <2>2 DEF Kept
    <3>2. \A i \in 1..2 : buffersToWrite[i] \in Buffer
      BY <1>2, <2>1, <2>2
    <3>3. kept \in Seq(Buffer) /\ Len(kept) = 2
      BY <3>1, <3>2, SubSeqProperties
    <3> HIDE DEF kept
    <3> QED
      BY <3>3
  <2>3. CASE ~(Len(buffersToWrite) > 2)
    <3>1. kept = buffersToWrite
      BY <2>3 DEF Kept
    <3> HIDE DEF kept
    <3> QED
      BY <1>2, <2>1, <2>3, <3>1
  <2> QED
    BY <2>2, <2>3
<1> HIDE DEF kept
<1>4. newBuffer2 = NULL => rest # <<>>
  <2> SUFFICES ASSUME newBuffer2 = NULL PROVE rest # <<>>
    OBVIOUS
  <2>1. Len(kept) = 2 /\ kept \in Seq(Buffer) /\ rest = SubSeq(kept, 1, Len(kept) - 1)
    BY <1>2, <1>3 DEF Front
  <2> HIDE DEF rest
  <2>2. rest = SubSeq(kept, 1, 1)
    BY <2>1
  <2>3. Len(rest) = 1
    BY <2>1, <2>2
  <2> QED
    BY <2>3
<1>5. failed' = "no"
  <2> DEFINE a == newBuffer1 = NULL => kept # <<>>
             b == newBuffer2 = NULL => rest # <<>>
  <2>1. a /\ b
    BY <1>3, <1>4
  <2>2. failed' = FirstFailed(<< <<a, "110">>, <<b, "116">> >>)
    BY <1>1
  <2> HIDE DEF a, b
  <2>3. FirstFailed(<< <<a, "110">>, <<b, "116">> >>) = failed
    BY <2>1, NoneOfTwo
  <2> QED
    BY <2>2, <2>3
<1>6. newBuffer1' = NewBuffer /\ newBuffer2' = NewBuffer
  BY <1>1, <1>2, <1>3, <1>4
<1>7. /\ LogFileOK(output') /\ output'.lines = output.lines /\ output'.overdue = output.overdue
      /\ output'.stale = output.stale /\ output'.m_nCnt = output.m_nCnt
  BY <1>1, FlushedFile DEF TypeOK
<1>8. Queued' = Queued
  <2>1. SubSeq(buffersToWrite, n + 1, Len(buffersToWrite)) = <<>>
    BY <1>1, <1>2
  <2>2. SubSeq(buffersToWrite', n' + 1, Len(buffersToWrite')) = <<>>
    BY <1>1
  <2> QED
    BY <1>1, <2>1, <2>2 DEF Queued
<1>9. LinesInOrder'
  BY <1>1, <1>7, <1>8, LinesInOrderAsOperator
<1>10. TypeOK' /\ NumberInv' /\ RollInv'
  <2>1. buffersToWrite' \in Seq(Buffer) /\ n' \in 0..Len(buffersToWrite')
    BY <1>1
  <2> QED
    BY <1>1, <1>6, <1>7, <2>1 DEF TypeOK, NumberInv, RollInv
<1>11. BufferInv' /\ LatchInv'
  BY <1>1, <1>6 DEF BufferInv, LatchInv
<1> QED
  BY <1>5, <1>9, <1>10, <1>11

\* With too many buffers, the oldest are dropped and recorded as lost.
LEMMA DropBuffersStep ==
    ASSUME LoggerInv, DropBuffers
    PROVE  LoggerInv'
<1> USE DEF LoggerInv
<1> DEFINE size == Len(buffersToWrite)
           all == buffersToWrite \o (m_Buffers \o <<m_pCurBuffer>>)
           dropped == UNION {ToSet(buffersToWrite[i]) : i \in 1..(size - 2)}
<1>1. /\ threadAt = "drop" /\ threadAt' = "write" /\ n' = 0
      /\ failed' = FirstFailed(<< <<buffersToWrite # <<>>, "92">> >>)
      /\ UNCHANGED <<m_bRunning, m_nLatch, m_pCurBuffer, m_pNextBuffer, m_Buffers, newBuffer1,
                     newBuffer2, ownerAt, now, setBack, lines, appended>>
  BY DEF DropBuffers, bufferVars, clockVars, historyVars
<1>2. /\ newBuffer1 = NULL /\ buffersToWrite # <<>> /\ n = 0 /\ buffersToWrite \in Seq(Buffer)
      /\ m_Buffers \in Seq(Buffer) /\ m_pCurBuffer \in Buffer /\ now \in Nat /\ LogFileOK(output)
      /\ output.stale \in 0..output.m_nCnt
  BY <1>1 DEF BufferInv, TypeOK, RollInv
<1>3. failed' = "no"
  <2> DEFINE a == buffersToWrite # <<>>
  <2>1. a /\ failed' = FirstFailed(<< <<a, "92">> >>)
    BY <1>1, <1>2
  <2> HIDE DEF a
  <2> QED
    BY <2>1, NoneOfOne
<1>4. CASE ~(size > MaxBuffers)
  <2>1. UNCHANGED <<output, buffersToWrite, lost, n>>
    BY <1>1, <1>2, <1>4 DEF DropBuffers
  <2>2. LinesInOrder'
    BY <1>1, <2>1, LinesUntouched
  <2>3. TypeOK' /\ NumberInv' /\ RollInv'
    BY <1>1, <2>1 DEF TypeOK, NumberInv, RollInv
  <2>4. BufferInv' /\ LatchInv'
    BY <1>1, <2>1 DEF BufferInv, LatchInv
  <2> QED
    BY <1>3, <2>2, <2>3, <2>4
<1>5. CASE size > MaxBuffers
  <2>1. /\ output' = appendUnlocked(output, <<DropMsg>>, now)
        /\ buffersToWrite' = SubSeq(buffersToWrite, size - 1, size)
        /\ lost' = lost \union dropped
    BY <1>5 DEF DropBuffers
  <2>2. size \in Nat /\ size > 2 /\ size - 2 \in 0..size /\ (size - 2) + 1 = size - 1
    BY <1>2, <1>5, BufferAssumption
  <2>3. buffersToWrite' \in Seq(Buffer) /\ Len(buffersToWrite') = 2
    <3>1. \A i \in (size - 1)..size : buffersToWrite[i] \in Buffer
      BY <1>2, <2>2
    <3> QED
      BY <2>1, <2>2, <3>1, SubSeqProperties
  <2>4. /\ all \in Seq(Buffer) /\ Len(all) = size + Len(m_Buffers) + 1 /\ Len(m_Buffers) \in Nat
        /\ \A i \in 1..size : all[i] = buffersToWrite[i]
        /\ SubSeq(buffersToWrite, (size - 2) + 1, size) \o m_Buffers \o <<m_pCurBuffer>>
             = SubSeq(all, (size - 2) + 1, Len(all))
    BY <1>2, <2>2, QueueIsRest
  <2>5. Queued = all
    <3>1. 0 \in 0..Len(buffersToWrite) /\ 0 + 1 = 1
      BY <2>2
    <3>2. SubSeq(buffersToWrite, 0 + 1, Len(buffersToWrite)) \o m_Buffers \o <<m_pCurBuffer>>
            = SubSeq(all, 0 + 1, Len(all))
      BY <1>2, <3>1, QueueIsRest
    <3>3. SubSeq(all, 1, Len(all)) = all
      BY <2>4, SubSeqFull
    <3> QED
      BY <1>2, <3>1, <3>2, <3>3 DEF Queued
  <2>6. Queued' = SubSeq(all, (size - 2) + 1, Len(all))
    <3> DEFINE b == buffersToWrite'
    <3>1. SubSeq(b, 1, Len(b)) = b
      BY <2>3, SubSeqFull
    <3>2. Queued' = SubSeq(b, 0 + 1, Len(b)) \o m_Buffers \o <<m_pCurBuffer>>
      BY <1>1 DEF Queued
    <3>3. 0 + 1 = 1
      OBVIOUS
    <3> QED
      BY <2>1, <2>2, <2>4, <3>1, <3>2, <3>3
  <2>7. dropped = UNION {ToSet(all[i]) : i \in 1..(size - 2)}
    <3>1. \A i \in 1..(size - 2) : ToSet(all[i]) = ToSet(buffersToWrite[i])
      BY <2>2, <2>4
    <3> QED
      BY <3>1
  <2>8. InOrder(output.lines, all, appended, lost) /\ output.lines \in File
    BY <2>5, LinesInOrderAsOperator, QueuedTypes
  <2>9. <<DropMsg>> \in File
    BY DEF File
  <2>10. /\ LogFileOK(output') /\ output'.lines = output.lines \o <<DropMsg>>
         /\ ~output'.overdue /\ output'.stale \in 0..output'.m_nCnt
    BY <1>2, <2>1, <2>9, FileAppended
  <2>11. size - 2 \in 0..Len(all) /\ 1..(size - 2) \subseteq 1..Len(all)
    BY <2>2, <2>4
  <2> HIDE DEF all, dropped
  <2>12. InOrder(output'.lines, Queued', appended, lost')
    <3>1. InOrder(output.lines \o <<DropMsg>>, SubSeq(all, (size - 2) + 1, Len(all)), appended,
                  lost \union UNION {ToSet(all[b]) : b \in 1..(size - 2)})
      BY <2>4, <2>8, <2>11, FirstDropped
    <3> QED
      BY <2>1, <2>6, <2>7, <2>10, <3>1
  <2>13. LinesInOrder'
    BY <1>1, <2>12, LinesInOrderAsOperator
  <2>14. dropped \subseteq ToSet(appended)
    <3>1. dropped \subseteq LinesOf(output.lines, all)
      BY <2>7, <2>11 DEF LinesOf
    <3> QED
      BY <2>8, <3>1 DEF InOrder
  <2>15. \A l \in dropped : l \in Line /\ l[1] <= lines
    <3>1. appended \in Seq(Line)
      BY DEF TypeOK
    <3>2. \A l \in ToSet(appended) : l \in Line /\ l[1] <= lines
      BY <3>1 DEF NumberInv, ToSet
    <3> QED
      BY <2>14, <3>2
  <2>16. NumberInv' /\ lost' \subseteq Line
    BY <1>1, <2>1, <2>15 DEF NumberInv, TypeOK
  <2>17. TypeOK' /\ RollInv'
    <3>1. n' \in 0..Len(buffersToWrite')
      BY <1>1, <2>3
    <3> QED
      BY <1>1, <2>3, <2>10, <2>16, <3>1 DEF TypeOK, RollInv
  <2>18. BufferInv' /\ LatchInv'
    <3>1. buffersToWrite' # <<>> /\ Len(buffersToWrite') >= 2
      BY <2>3
    <3> QED
      BY <1>1, <3>1 DEF BufferInv, LatchInv
  <2> QED
    BY <1>3, <2>13, <2>16, <2>17, <2>18
<1> QED
  BY <1>4, <1>5

-----------------------------------------------------------------------------
(* The theorems                                                             *)

LEMMA LoggerInit ==
    ASSUME Init
    PROVE  LoggerInv
<1> USE DEF Init, NewBuffer
<1>1. NewBuffer \in Buffer /\ LogFileOK(output) /\ output.lines = <<>>
  BY LineTypes, NewFile
<1>2. TypeOK
  <2>1. Len(buffersToWrite) = 0 /\ buffersToWrite \in Seq(Buffer) /\ m_Buffers \in Seq(Buffer)
    OBVIOUS
  <2>2. now \in 1..MaxTime /\ lines \in 0..MaxLines /\ appended \in Seq(Line)
    BY BufferAssumption
  <2>3. n \in 0..Len(buffersToWrite) /\ m_nLatch \in 0..1
    BY <2>1
  <2>4. {newBuffer1, newBuffer2} \subseteq {NULL, NewBuffer} /\ lost \subseteq Line
    OBVIOUS
  <2> QED
    BY <1>1, <2>1, <2>2, <2>3, <2>4 DEF TypeOK
<1>3. NumberInv /\ BufferInv /\ LatchInv
  BY BufferAssumption DEF NumberInv, BufferInv, LatchInv
<1>4. RollInv
  BY NewFile DEF RollInv
<1>5. LinesInOrder
  <2>1. Queued = <<<<>>>>
    <3>1. SubSeq(<<>>, 0 + 1, Len(<<>>)) = <<>> /\ <<>> \o <<>> = <<>> /\ <<>> \o <<<<>>>> = <<<<>>>>
      OBVIOUS
    <3> QED
      BY <3>1 DEF Queued
  <2> DEFINE q == <<<<>>>>
  <2>2. Len(q) = 1 /\ q[1] = <<>> /\ \A i \in 1..1 : i = 1
    OBVIOUS
  <2> HIDE DEF q
  <2>3. WrittenIn(<<>>) = {} /\ ToSet(<<>>) = {} /\ Increasing(<<>>)
    BY DEF WrittenIn, ToSet, Increasing
  <2>4. QueueOK(q) /\ WrittenFirst(<<>>, q) /\ WrittenOK(<<>>)
    BY <2>2, <2>3 DEF QueueOK, WrittenFirst, WrittenOK
  <2>5. LinesOf(<<>>, q) = {}
    BY <2>2, <2>3 DEF LinesOf
  <2>6. InOrder(<<>>, q, <<>>, {})
    BY <2>3, <2>4, <2>5 DEF InOrder
  <2> QED
    BY <1>1, <2>1, <2>6, LinesInOrderAsOperator DEF q
<1> QED
  BY <1>2, <1>3, <1>4, <1>5 DEF LoggerInv

LEMMA LoggerNext ==
    ASSUME LoggerInv, [Next]_vars
    PROVE  LoggerInv'
<1>1. CASE Next
  BY <1>1, OtherSteps, AppendStep, OpenOutputStep, TestRunningStep, SwapBuffersStep,
     DropBuffersStep, WriteBufferStep, RefillStep
     DEF Next, ThreadStep, OwnerStep
<1>2. CASE UNCHANGED vars
  <2>1. UNCHANGED <<bufferVars, localVars, output, historyVars, lost>> /\ UNCHANGED <<m_bRunning, m_nLatch>>
        /\ UNCHANGED <<threadAt, ownerAt, clockVars, failed>>
    BY <1>2 DEF vars
  <2>2. LinesInOrder'
    BY <2>1, LinesUntouched DEF LoggerInv, bufferVars, localVars, historyVars
  <2>3. TypeOK' /\ NumberInv' /\ RollInv'
    BY <2>1 DEF LoggerInv, TypeOK, NumberInv, RollInv, bufferVars, localVars, clockVars, historyVars
  <2>4. BufferInv' /\ LatchInv'
    BY <2>1 DEF LoggerInv, BufferInv, LatchInv, bufferVars, localVars
  <2> QED
    BY <2>1, <2>2, <2>3, <2>4 DEF LoggerInv
<1> QED
  BY <1>1, <1>2

\* The inductive invariant: where threadFunc is in its loop fixes which buffers it holds, and all
\* lines are, in order, in the files and in the queue of buffers.
THEOREM LoggerInvariant == Spec => []LoggerInv
  BY LoggerInit, LoggerNext, PTL DEF Spec

\* Type correctness: Append always finds a buffer under m_pCurBuffer, for any number of lines.
THEOREM LoggerTypeCorrect == Spec => []TypeOK
<1>1. LoggerInv => TypeOK
  BY DEF LoggerInv
<1> QED
  BY <1>1, LoggerInvariant, PTL

\* No line is lost, written twice or overtaken while Append and threadFunc exchange buffers, but for
\* those threadFunc drops and records: for any lines, buffer sizes, roll sizes and clocks.
THEOREM LinesStayInOrder == Spec => []LinesInOrder
<1>1. LoggerInv => LinesInOrder
  BY DEF LoggerInv
<1> QED
  BY <1>1, LoggerInvariant, PTL

\* LogFile::appendUnlocked replaces a file that is too large or of an earlier day in time, whatever
\* the clock does.
THEOREM FilesRollInTime == Spec => []RollsInTime
<1>1. LoggerInv => RollsInTime
  <2> SUFFICES ASSUME LoggerInv PROVE RollsInTime
    OBVIOUS
  <2>1. output.m_nCnt \in 0..(CheckTimeRoll + 1) /\ ~output.overdue /\ output.stale \in 0..output.m_nCnt
    BY DEF LoggerInv, TypeOK, LogFileOK, RollInv
  <2> QED
    BY <2>1, LogFileAssumption DEF RollsInTime
<1> QED
  BY <1>1, LoggerInvariant, PTL

\* No assertion of threadFunc fails: at the head of its loop it has two empty buffers and nothing to
\* write, and what it wrote suffices to replace the ones that Append took.
THEOREM LoggerAssertionsHold == Spec => [](failed = "no")
<1>1. LoggerInv => failed = "no"
  BY DEF LoggerInv
<1> QED
  BY <1>1, LoggerInvariant, PTL
=============================================================================
