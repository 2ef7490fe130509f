--------------------------- MODULE YtdlpRun_proofs ---------------------------
(***************************************************************************)
(* Proofs about one run of yt-dlp, for every pipe, tail and amount of      *)
(* output.                                                                 *)
(***************************************************************************)
EXTENDS YtdlpRun, SequenceTheorems, TLAPS

USE MaxLinesAssumption, PipeCapAssumption, TailMaxAssumption, HelpersAssumption

\* What is inductive: nobody reads a line that was not written, the tail is the end of what
\* was read of stderr, a reader that stopped at the end of its stream has read all of it and
\* the child can write no more, and each control point implies how far the child is.
ReadersDone ==
  /\ "out" \in closed /\ "out" \notin spoiled /\ pc \notin {"timedOut"} =>
       child \in Gone /\ read["out"] = written["out"]
  /\ "err" \in closed /\ "err" \notin spoiled =>
       child \in Gone /\ read["err"] = written["err"]
ControlInv ==
  /\ pc \in {"start", "notStarted"} <=> child = "none"
  /\ child = "none" => written["err"] = 0
  /\ pc \in Result \cup {"draining"} => child # "running"
  /\ pc \in {"waiting", "draining", "waitFailed", "success", "exitCode"} => "out" \in closed
  /\ pc \in {"success", "exitCode"} => "err" \in closed
RunInv ==
  /\ TypeOK
  /\ \A s \in Stream : read[s] <= written[s]
  /\ tail = Last(read["err"])
  /\ ReadersDone
  /\ ControlInv
  /\ log # <<>>

\* Appending line n + 1 to the end of the first n lines, and cutting the front when the tail
\* is full, gives the end of the first n + 1.
LEMMA LastNext ==
  ASSUME NEW n \in Nat
  PROVE  /\ Last(n) \in Seq(1..n)
         /\ Last(n + 1) = IF Len(Last(n)) < TailMax THEN Append(Last(n), n + 1)
                          ELSE Append(Tail(Last(n)), n + 1)
<1>1. CASE n < TailMax
  <2>1. Last(n) = [i \in 1..n |-> i] /\ Last(n + 1) = [i \in 1..(n + 1) |-> i]
    BY <1>1 DEF Last
  <2>2. Last(n) \in Seq(1..n) /\ Len(Last(n)) = n
    BY <2>1
  <2> QED BY <1>1, <2>1, <2>2
<1>2. CASE n >= TailMax
  <2> DEFINE f == [i \in 1..TailMax |-> n - TailMax + i]
  <2>1. Last(n + 1) = [i \in 1..TailMax |-> n + 1 - TailMax + i]
    BY <1>2 DEF Last
  <2>2. Last(n) = f
    BY <1>2 DEF Last
  <2>3. f \in Seq(1..n) /\ Len(f) = TailMax
    BY <1>2
  <2>4. Tail(f) \in Seq(1..n) /\ Len(Tail(f)) = TailMax - 1
        /\ \A i \in 1..(TailMax - 1) : Tail(f)[i] = f[i + 1]
    BY <2>3
  <2>5. Append(Tail(f), n + 1) = [i \in 1..TailMax |-> n + 1 - TailMax + i]
    <3> DEFINE a == Append(Tail(f), n + 1)
               g == [i \in 1..TailMax |-> n + 1 - TailMax + i]
    <3>1. a \in Seq(Nat) /\ Len(a) = TailMax
      BY <1>2, <2>4
    <3>2. g \in Seq(Nat) /\ Len(g) = TailMax
      BY <1>2
    <3>3. ASSUME NEW i \in 1..TailMax PROVE a[i] = g[i]
      <4>1. CASE i = TailMax
        BY <1>2, <2>4, <4>1
      <4>2. CASE i < TailMax
        <5>1. a[i] = Tail(f)[i]
          BY <2>4, <4>2
        <5> QED BY <1>2, <2>4, <4>2, <5>1
      <4> QED BY <4>1, <4>2
    <3>4. a = g
      <4> HIDE DEF a, g
      <4> QED BY <3>1, <3>2, <3>3, SeqEqual
    <3> QED BY <3>4
  <2>6. Last(n) \in Seq(1..n) /\ ~(Len(Last(n)) < TailMax)
    BY <2>2, <2>3
  <2>7. Last(n + 1) = Append(Tail(Last(n)), n + 1)
    BY <2>1, <2>2, <2>5
  <2> QED BY <2>6, <2>7
<1> QED BY <1>1, <1>2

\* A short list has become longer, or a full one has moved on.
HasMoved(S, kept, after, line, max) ==
  LET len == Len(kept)
  IN /\ len \in Nat \ {0} /\ DOMAIN kept = 1..len
     /\ after \in Seq(S) /\ after # <<>>
     /\ len < max => /\ Len(after) = len + 1 /\ after[len + 1] = line
                     /\ \A i \in 1..len : after[i] = kept[i]
     /\ ~(len < max) => /\ Len(after) = len /\ after[len] = line
                        /\ \A i \in 1..(len - 1) : after[i] = kept[i + 1]

\* Pushing does that.
LEMMA PushedList ==
  ASSUME NEW S, NEW kept \in Seq(S), kept # <<>>, NEW line \in S, NEW max \in Nat,
         NEW after, after = Pushed(kept, line, max)
  PROVE  HasMoved(S, kept, after, line, max)
<1>1. PICK len : len = Len(kept)
  OBVIOUS
<1>2. len \in Nat \ {0} /\ DOMAIN kept = 1..len
  BY <1>1
<1>3. CASE len < max
  <2>1. after = Append(kept, line)
    BY <1>1, <1>3 DEF Pushed
  <2>2. /\ after \in Seq(S) /\ Len(after) = len + 1 /\ after[len + 1] = line
        /\ \A i \in 1..len : after[i] = kept[i]
    BY <1>1, <1>2, <2>1
  <2>3. after # <<>>
    BY <1>2, <2>2
  <2> QED BY <1>1, <1>2, <1>3, <2>2, <2>3 DEF HasMoved
<1>4. CASE ~(len < max)
  <2>1. PICK rest : rest = Tail(kept)
    OBVIOUS
  <2>2. after = Append(rest, line)
    BY <1>1, <1>4, <2>1 DEF Pushed
  <2>3. rest \in Seq(S) /\ Len(rest) = len - 1 /\ \A i \in 1..(len - 1) : rest[i] = kept[i + 1]
    BY <1>1, <1>2, <2>1
  <2>4. after \in Seq(S) /\ Len(after) = len /\ after[len] = line
    BY <1>2, <2>2, <2>3
  <2>5. \A i \in 1..(len - 1) : after[i] = rest[i]
    BY <1>2, <2>2, <2>3
  <2>6. after # <<>>
    BY <1>2, <2>4
  <2> QED BY <1>1, <1>2, <1>4, <2>3, <2>4, <2>5, <2>6 DEF HasMoved
<1> QED BY <1>3, <1>4

\* The type alone.
LEMMA PushedType ==
  ASSUME NEW S, NEW kept \in Seq(S), kept # <<>>, NEW line \in S, NEW max \in Nat
  PROVE  Pushed(kept, line, max) \in Seq(S) /\ Pushed(kept, line, max) # <<>>
<1>1. PICK after : after = Pushed(kept, line, max)
  OBVIOUS
<1>2. HasMoved(S, kept, after, line, max)
  BY <1>1, PushedList
<1> QED BY <1>1, <1>2 DEF HasMoved

\* Initially nothing is written or read.
LEMMA RunInit == Init => RunInv
  BY DEF Init, RunInv, TypeOK, ReadersDone, ControlInv, Stream, Child, Control, Result, Gone, Last

\* Every step preserves RunInv.
LEMMA RunNext ==
  ASSUME RunInv, [Next]_vars
  PROVE  RunInv'
<1> USE DEF RunInv, TypeOK, Stream, Child, Control, Result, Gone
<1>1. CASE Start
  BY <1>1 DEF Start, ReadersDone, ControlInv
<1>2. CASE ReadLine
  <2>1. log' \in Seq(0..MaxLines) /\ log' # <<>>
    <3>1. read["out"] + 1 \in 0..MaxLines /\ read'["out"] = read["out"] + 1
      BY <1>2 DEF ReadLine
    <3>2. CASE log # <<>>
      <4> DEFINE S == 0..MaxLines
      <4>1. log \in Seq(S) /\ read["out"] + 1 \in S
        BY <3>1
      <4>2. Pushed(log, read["out"] + 1, LogMax) \in Seq(S)
            /\ Pushed(log, read["out"] + 1, LogMax) # <<>>
        <5> HIDE DEF S
        <5> QED BY <3>2, <4>1, PushedType, LogMaxAssumption
      <4>3. log' = log \/ log' = Pushed(log, read["out"] + 1, LogMax)
        BY <1>2, <3>1 DEF ReadLine
      <4> QED BY <3>2, <4>1, <4>2, <4>3
    <3> QED BY <3>2
  <2>2. tail' = Last(read["err"])'
    BY <1>2 DEF ReadLine, Last
  <2>3. ReadersDone' /\ ControlInv'
    BY <1>2 DEF ReadLine, ReadersDone, ControlInv
  <2> QED BY <1>2, <2>1, <2>2, <2>3 DEF ReadLine
<1>3. CASE StopReading
  BY <1>3 DEF StopReading, AtEnd, ReadersDone, ControlInv
<1>4. CASE Reap \/ WaitFails
  BY <1>4 DEF Reap, WaitFails, ReadersDone, ControlInv
<1>5. CASE TimeOut
  BY <1>5 DEF TimeOut, ReadersDone, ControlInv
<1>6. CASE Report
  BY <1>6 DEF Report, ReadersDone, ControlInv
<1>7. CASE Drain
  <2> DEFINE n == read["err"]
  <2>1. n \in Nat /\ n + 1 \in 1..MaxLines /\ tail = Last(n)
        /\ read' = [read EXCEPT !["err"] = n + 1]
    BY <1>7 DEF Drain, Drains
  <2>2. tail' = Last(n + 1)
    BY <1>7, <2>1, LastNext DEF Drain, Drains, Pushed
  <2>3. Last(n + 1) \in Seq(1..(n + 1))
    BY <2>1, LastNext
  <2>4. tail' \in Seq(1..MaxLines)
    BY <2>1, <2>2, <2>3
  <2>5. tail' = Last(read["err"])'
    BY <2>1, <2>2 DEF Last
  <2>6. /\ read' \in [Stream -> 0..MaxLines] /\ read'["err"] = n + 1
        /\ read'["out"] = read["out"] /\ n + 1 <= written["err"]
    BY <1>7, <2>1 DEF Drain, Drains
  <2>7. ReadersDone' /\ ControlInv'
    BY <1>7, <2>6 DEF Drain, Drains, ReadersDone, ControlInv
  <2> QED BY <1>7, <2>4, <2>5, <2>6, <2>7 DEF Drain, Drains
<1>8. CASE StopDraining
  BY <1>8 DEF StopDraining, Drains, AtEnd, ReadersDone, ControlInv
<1>9. ASSUME NEW s \in Stream, Write(s) PROVE RunInv'
  BY <1>9 DEF Write, ReadersDone, ControlInv
<1>10. CASE Exit \/ StartHelper \/ HelperExits
  BY <1>10 DEF Exit, StartHelper, HelperExits, ReadersDone, ControlInv
<1>11. CASE UNCHANGED vars
  BY <1>11 DEF vars, ReadersDone, ControlInv, Last
<1> QED BY <1>1, <1>2, <1>3, <1>4, <1>5, <1>6, <1>7, <1>8, <1>9, <1>10, <1>11 DEF Next

\* The inductive invariant of a run.
THEOREM RunInvariant == Spec => []RunInv
  BY RunInit, RunNext, PTL DEF Spec

\* The pipes, the process and the results keep their types: no line is read beyond what was written.
THEOREM RunTypeCorrect == Spec => []TypeOK
<1>1. RunInv => TypeOK
  BY DEF RunInv
<1> QED BY <1>1, RunInvariant, PTL

\* Every variable has its type, and yt-dlp is not running once run has returned.
THEOREM NoChildLeft == Spec => [](TypeOK /\ ChildGoneOnReturn)
<1>1. RunInv => TypeOK /\ ChildGoneOnReturn
  BY DEF RunInv, ControlInv, ChildGoneOnReturn
<1> QED BY <1>1, RunInvariant, PTL

\* What LogShowsTail says of any list that should end the first n lines, blank ones left out.
ShowsTail(kept, n) ==
  LET said == (0..n) \ Blank
  IN /\ Len(kept) <= LogMax
     /\ \A i, j \in DOMAIN kept : i < j => kept[i] < kept[j]
     /\ \A i \in DOMAIN kept : kept[i] \in said
     /\ \A m \in said :
          (\E i \in DOMAIN kept : kept[i] = m) \/ (Len(kept) = LogMax /\ m < kept[1])

\* A blank line leaves the log as it is.
LEMMA BlankShowsTail ==
  ASSUME NEW n \in Nat, NEW kept, ShowsTail(kept, n), n + 1 \in Blank
  PROVE  ShowsTail(kept, n + 1)
<1>1. (0..(n + 1)) \ Blank = (0..n) \ Blank
  OBVIOUS
<1> QED BY <1>1 DEF ShowsTail

\* Any other is pushed, and the log shows the end of what was read as before.
LEMMA PushedShowsTail ==
  ASSUME NEW n \in Nat, NEW kept \in Seq(0..n), kept # <<>>, ShowsTail(kept, n),
         n + 1 \notin Blank, NEW after, after = Pushed(kept, n + 1, LogMax)
  PROVE  after \in Seq(0..(n + 1)) /\ after # <<>> /\ ShowsTail(after, n + 1)
<1>1. PICK said : said = (0..n) \ Blank
  OBVIOUS
<1>2. said \subseteq 0..n /\ (0..(n + 1)) \ Blank = said \cup {n + 1}
  BY <1>1
<1>3. PICK len : len = Len(kept)
  OBVIOUS
<1>4. /\ len \in Nat \ {0} /\ DOMAIN kept = 1..len
      /\ after \in Seq(0..(n + 1)) /\ after # <<>>
      /\ len < LogMax => /\ Len(after) = len + 1 /\ after[len + 1] = n + 1
                         /\ \A i \in 1..len : after[i] = kept[i]
      /\ ~(len < LogMax) => /\ Len(after) = len /\ after[len] = n + 1
                            /\ \A i \in 1..(len - 1) : after[i] = kept[i + 1]
  <2>1. kept \in Seq(0..(n + 1)) /\ n + 1 \in 0..(n + 1) /\ LogMax \in Nat
    BY LogMaxAssumption
  <2>2. HasMoved(0..(n + 1), kept, after, n + 1, LogMax)
    BY <2>1, PushedList
  <2> QED BY <1>3, <2>2 DEF HasMoved
<1>5. /\ LogMax \in Nat \ {0} /\ len <= LogMax
      /\ \A i, j \in 1..len : i < j => kept[i] < kept[j]
      /\ \A i \in 1..len : kept[i] \in said
      /\ \A m \in said : (\E i \in 1..len : kept[i] = m) \/ (len = LogMax /\ m < kept[1])
  BY <1>1, <1>3, <1>4, LogMaxAssumption DEF ShowsTail
<1>6. \A i \in 1..len : kept[i] \in 0..n
  BY <1>2, <1>5
<1>7. CASE len < LogMax
  <2>1. Len(after) = len + 1 /\ DOMAIN after = 1..(len + 1)
    BY <1>4, <1>7
  <2>2. \A i, j \in 1..(len + 1) : i < j => after[i] < after[j]
    <3> SUFFICES ASSUME NEW i \in 1..(len + 1), NEW j \in 1..(len + 1), i < j
                 PROVE  after[i] < after[j]
      OBVIOUS
    <3>1. i \in 1..len /\ after[i] = kept[i]
      BY <1>4, <1>7
    <3>2. CASE j = len + 1
      <4>1. after[j] = n + 1 /\ after[i] \in 0..n
        BY <1>4, <1>6, <1>7, <3>1, <3>2
      <4> QED BY <4>1
    <3>3. CASE j # len + 1
      <4>1. j \in 1..len
        BY <1>4, <3>3
      <4>2. after[j] = kept[j]
        BY <1>4, <1>7, <4>1
      <4>3. kept[i] < kept[j]
        BY <1>5, <3>1, <4>1
      <4> QED BY <3>1, <4>2, <4>3
    <3> QED BY <3>2, <3>3
  <2>3. \A i \in 1..(len + 1) : after[i] \in said \cup {n + 1}
    BY <1>4, <1>5, <1>7
  <2>4. \A m \in said \cup {n + 1} : \E i \in 1..(len + 1) : after[i] = m
    <3>1. after[len + 1] = n + 1 /\ len + 1 \in 1..(len + 1)
      BY <1>4, <1>7
    <3>2. ASSUME NEW m \in said PROVE \E i \in 1..(len + 1) : after[i] = m
      <4>1. PICK i \in 1..len : kept[i] = m
        BY <1>5, <1>7
      <4>2. i \in 1..(len + 1) /\ after[i] = m
        BY <1>4, <1>7, <4>1
      <4> QED BY <4>2
    <3> QED BY <3>1, <3>2
  <2>5. len + 1 <= LogMax
    BY <1>4, <1>5, <1>7
  <2> QED BY <1>2, <1>4, <2>1, <2>2, <2>3, <2>4, <2>5 DEF ShowsTail
<1>8. CASE ~(len < LogMax)
  <2>0. len = LogMax
    BY <1>4, <1>5, <1>8
  <2>1. /\ Len(after) = len /\ DOMAIN after = 1..len /\ after[len] = n + 1
        /\ \A i \in 1..(len - 1) : i + 1 \in 1..len /\ after[i] = kept[i + 1]
    BY <1>4, <1>8
  <2>2. \A i, j \in 1..len : i < j => after[i] < after[j]
    <3> SUFFICES ASSUME NEW i \in 1..len, NEW j \in 1..len, i < j
                 PROVE  after[i] < after[j]
      OBVIOUS
    <3>1. i \in 1..(len - 1) /\ i + 1 \in 1..len /\ after[i] = kept[i + 1]
      BY <1>4, <2>1
    <3>2. CASE j = len
      BY <1>6, <2>1, <3>1, <3>2
    <3>3. CASE j # len
      <4>1. j \in 1..(len - 1) /\ j + 1 \in 1..len /\ after[j] = kept[j + 1] /\ i + 1 < j + 1
        BY <1>4, <2>1, <3>3
      <4> QED BY <1>5, <3>1, <4>1
    <3> QED BY <3>2, <3>3
  <2>3. \A i \in 1..len : after[i] \in said \cup {n + 1}
    <3> SUFFICES ASSUME NEW i \in 1..len PROVE after[i] \in said \cup {n + 1}
      OBVIOUS
    <3>1. CASE i = len
      BY <2>1, <3>1
    <3>2. CASE i # len
      <4>1. i \in 1..(len - 1)
        BY <1>4, <3>2
      <4> QED BY <1>5, <2>1, <4>1
    <3> QED BY <3>1, <3>2
  <2>4. 1 \in 1..len /\ kept[1] < after[1]
    <3>1. CASE len = 1
      BY <1>6, <2>1, <3>1
    <3>2. CASE len # 1
      <4>1. 1 \in 1..(len - 1) /\ 1 \in 1..len /\ 2 \in 1..len /\ after[1] = kept[2]
        BY <1>4, <2>1, <3>2
      <4> QED BY <1>5, <4>1
    <3> QED BY <3>1, <3>2
  <2>5. \A m \in said \cup {n + 1} : (\E i \in 1..len : after[i] = m) \/ m < after[1]
    <3>1. \E i \in 1..len : after[i] = n + 1
      BY <1>4, <2>1
    <3>2. ASSUME NEW m \in said PROVE (\E i \in 1..len : after[i] = m) \/ m < after[1]
      <4>0. m \in Nat /\ kept[1] \in Nat /\ after[1] \in Nat
        BY <1>2, <1>6, <2>3, <2>4
      <4>1. CASE m < kept[1]
        BY <2>4, <4>0, <4>1
      <4>2. ASSUME NEW i \in 1..len, kept[i] = m
            PROVE  (\E k \in 1..len : after[k] = m) \/ m < after[1]
        <5>1. CASE i = 1
          BY <2>4, <4>2, <5>1
        <5>2. CASE i # 1
          <6>1. i - 1 \in 1..(len - 1) /\ i - 1 \in 1..len /\ (i - 1) + 1 = i
            BY <1>4, <5>2
          <6>2. after[i - 1] = m
            BY <2>1, <4>2, <6>1
          <6> QED BY <6>1, <6>2
        <5> QED BY <5>1, <5>2
      <4> QED BY <1>5, <4>1, <4>2
    <3> QED BY <3>1, <3>2
  <2> QED BY <1>2, <1>4, <1>5, <2>0, <2>1, <2>2, <2>3, <2>5 DEF ShowsTail
<1> QED BY <1>4, <1>7, <1>8

\* A log that shows the end of what was read, and has a line.
LogInv == log \in Seq(0..read["out"]) /\ log # <<>> /\ ShowsTail(log, read["out"])

\* Initially it has the line that a job starts with.
LEMMA LogInit == Init => LogInv
<1> SUFFICES ASSUME Init PROVE LogInv
  OBVIOUS
<1>1. read["out"] = 0 /\ log = <<0>>
  BY DEF Init, Stream
<1>2. (0..0) \ Blank = {0}
  BY BlankAssumption
<1> QED BY <1>1, <1>2, LogMaxAssumption DEF LogInv, ShowsTail

\* Only reading a line changes the log, and with it what was read of stdout.
LEMMA LogNext ==
  ASSUME RunInv, LogInv, [Next]_vars
  PROVE  LogInv'
<1> USE DEF RunInv, TypeOK, Stream
<1> DEFINE n == read["out"]
<1>1. CASE ReadLine
  <2>1. n \in Nat /\ read'["out"] = n + 1
    BY <1>1 DEF ReadLine
  <2>2. log' \in Seq(0..(n + 1)) /\ log' # <<>> /\ ShowsTail(log', n + 1)
    <3>1. CASE n + 1 \in Blank
      <4>1. log' = log
        BY <1>1, <2>1, <3>1 DEF ReadLine
      <4>2. log \in Seq(0..(n + 1))
        BY <2>1 DEF LogInv
      <4> QED BY <2>1, <3>1, <4>1, <4>2, BlankShowsTail DEF LogInv
    <3>2. CASE n + 1 \notin Blank
      <4>1. log' = Pushed(log, n + 1, LogMax)
        BY <1>1, <2>1, <3>2 DEF ReadLine
      <4> QED BY <2>1, <3>2, <4>1, PushedShowsTail DEF LogInv
    <3> QED BY <3>1, <3>2
  <2> QED BY <2>1, <2>2 DEF LogInv
<1>2. CASE ~ReadLine
  <2>1. log' = log /\ read'["out"] = n
    BY <1>2 DEF Next, vars, Start, StopReading, Reap, WaitFails, TimeOut, Report, Drain, Drains,
                StopDraining, Write, Exit, StartHelper, HelperExits
  <2> QED BY <2>1 DEF LogInv
<1> QED BY <1>1, <1>2

\* The log shows the last lines of stdout, all but the blank ones.
THEOREM LogsShowTail == Spec => []LogShowsTail
<1>1. LogInv => LogShowsTail
  BY DEF LogInv, ShowsTail, LogShowsTail
<1> QED BY <1>1, LogInit, LogNext, RunInvariant, PTL DEF Spec

\* A status is reported after the last line of stdout.
THEOREM AllLinesSeen == Spec => []LinesAllSeen
<1>1. RunInv => LinesAllSeen
  BY DEF RunInv, ReadersDone, ControlInv, LinesAllSeen
<1> QED BY <1>1, RunInvariant, PTL

\* The error of a failed run ends with the last lines of stderr.
THEOREM ErrorsShowTail == Spec => []ErrorShowsTail
<1>1. RunInv => ErrorShowsTail
  BY DEF RunInv, ReadersDone, ControlInv, ErrorShowsTail
<1> QED BY <1>1, RunInvariant, PTL
(***************************************************************************)
(* Progress.  The fairness of a step is spelled out with its guard, which  *)
(* is what ENABLED of the step comes to: infinitely often the guard is     *)
(* false, or infinitely often the step is taken.                           *)
(***************************************************************************)

\* The drain task can read a line, or end.
DrainReady == Drains /\ (AtEnd("err") \/ read["err"] < written["err"])
DrainFairness == []<>(~DrainReady) \/ []<><<Drain \/ StopDraining>>_vars

\* Behind a full pipe there is a line to read.
LEMMA FullIsReady ==
  ASSUME RunInv, Full("err"), "err" \notin closed
  PROVE  DrainReady
<1>1. written["err"] - read["err"] = PipeCap /\ written["err"] \in Nat /\ read["err"] \in Nat
  BY DEF RunInv, TypeOK, Full, Stream
<1>2. child # "none"
  BY <1>1 DEF RunInv, ControlInv
<1> QED BY <1>1, <1>2 DEF DrainReady, Drains

\* A step of the drain task takes a line out of the pipe, or lets go of it.
LEMMA DrainingHelps ==
  ASSUME RunInv, Full("err"), <<Drain \/ StopDraining>>_vars
  PROVE  ~Full("err")' \/ "err" \in closed'
<1>1. CASE Drain
  BY <1>1 DEF Drain, RunInv, TypeOK, Full, Stream
<1>2. CASE StopDraining
  BY <1>2 DEF StopDraining
<1> QED BY <1>1, <1>2

\* A full stderr is read again, or let go of, however the rest of the run goes on: the drain
\* task depends on nobody.
THEOREM StderrDrained == Spec /\ DrainFairness => StderrKeepsMoving
<1> DEFINE P == Full("err") /\ "err" \notin closed
           Q == ~Full("err") \/ "err" \in closed
<1>1. RunInv /\ P => DrainReady
  BY FullIsReady
<1>2. RunInv /\ P /\ <<Drain \/ StopDraining>>_vars => Q'
  BY DrainingHelps
<1>3. Full("err") => P \/ Q
  OBVIOUS
<1>4. P \/ Q
  OBVIOUS
<1>5. (Full("err") ~> Q) => StderrKeepsMoving
  BY DEF StderrKeepsMoving
<1> HIDE DEF P, Q
<1> QED BY <1>1, <1>2, <1>3, <1>4, <1>5, RunInvariant, PTL DEF DrainFairness, Spec

\* The stages of a run; its timer and its end have something to do in one each.
AtStart == pc = "start"
Timed == pc \in {"reading", "waiting"}
Draining == pc = "draining"
Over == pc \in Result
Drained == "err" \in closed
TimedFairness ==
  /\ []<>(~AtStart) \/ []<><<Start>>_vars
  /\ []<>(~Timed) \/ []<><<TimeOut>>_vars
  /\ []<>(~(Draining /\ Drained)) \/ []<><<Report>>_vars

\* A run goes from its start to its timed part, to the drain, to its result, and may only
\* leave out what lies between.
LEMMA RunStages ==
  ASSUME RunInv, [Next]_vars
  PROVE  /\ AtStart => (AtStart \/ Timed \/ Over)'
         /\ Timed => (Timed \/ Draining \/ Over)'
         /\ Draining => (Draining \/ Over)'
         /\ Drained => Drained'
<1> USE DEF AtStart, Timed, Draining, Over, Drained, Result
<1>1. CASE Start
  BY <1>1 DEF Start
<1>2. CASE ReadLine \/ StopReading \/ Reap \/ WaitFails \/ TimeOut \/ Report
  BY <1>2 DEF ReadLine, StopReading, Reap, WaitFails, TimeOut, Report
<1>3. CASE Drain \/ StopDraining \/ Exit \/ StartHelper \/ HelperExits
  BY <1>3 DEF Drain, StopDraining, Exit, StartHelper, HelperExits
<1>4. ASSUME NEW s \in Stream, Write(s) PROVE pc' = pc /\ closed' = closed
  BY <1>4 DEF Write
<1>5. CASE UNCHANGED vars
  BY <1>5 DEF vars
<1> QED BY <1>1, <1>2, <1>3, <1>4, <1>5 DEF Next

\* Nothing but its stderr holds a run: whatever the child and its helpers do, a run whose
\* drain task has ended returns, for the timeout ends everything else.
THEOREM OnlyStderrHolds == Spec /\ TimedFairness => (<>Drained => RunEnds)
<1>1. RunInv => AtStart \/ Timed \/ Draining \/ Over
  BY DEF RunInv, TypeOK, Control, AtStart, Timed, Draining, Over
<1>2. RunInv /\ [Next]_vars /\ AtStart => AtStart' \/ Timed' \/ Over'
  BY RunStages
<1>3. RunInv /\ [Next]_vars /\ Timed => Timed' \/ Draining' \/ Over'
  BY RunStages
<1>4. RunInv /\ [Next]_vars /\ Draining => Draining' \/ Over'
  BY RunStages
<1>5. RunInv /\ [Next]_vars /\ Drained => Drained'
  BY RunStages
<1>6. <<Start>>_vars => ~AtStart'
  BY DEF Start, AtStart
<1>7. <<TimeOut>>_vars => Over'
  BY DEF TimeOut, Over, Result
<1>8. <<Report>>_vars => Over'
  BY DEF Report, Over, Result
<1>9. <>Over => RunEnds
  BY DEF Over, RunEnds
<1>10. Spec => [](AtStart \/ Timed \/ Draining \/ Over)
  BY <1>1, RunInvariant, PTL
<1>11. Spec => [](Draining => []Draining \/ <>Over)
  BY <1>4, RunInvariant, PTL DEF Spec
<1>12. Spec => [](Drained => []Drained)
  BY <1>5, RunInvariant, PTL DEF Spec
<1>13. Spec => [](Timed => []Timed \/ <>Draining \/ <>Over)
  BY <1>3, RunInvariant, PTL DEF Spec
<1>14. Spec => [](AtStart => []AtStart \/ <>Timed \/ <>Over)
  BY <1>2, RunInvariant, PTL DEF Spec
<1>15. Spec /\ ([]<>(~AtStart) \/ []<><<Start>>_vars) => [](AtStart => <>Timed \/ <>Over)
  BY <1>6, <1>14, PTL
<1>16. Spec /\ ([]<>(~Timed) \/ []<><<TimeOut>>_vars) => [](Timed => <>Draining \/ <>Over)
  BY <1>7, <1>13, PTL
<1>17. Spec /\ ([]<>(~(Draining /\ Drained)) \/ []<><<Report>>_vars)
         => [](Draining => <>Over \/ ~<>Drained)
  BY <1>8, <1>11, <1>12, PTL
<1>18. Spec /\ TimedFairness => [](AtStart => <>Timed \/ <>Over)
  BY <1>15 DEF TimedFairness
<1>19. Spec /\ TimedFairness => [](Timed => <>Draining \/ <>Over)
  BY <1>16 DEF TimedFairness
<1>20. Spec /\ TimedFairness => [](Draining => <>Over \/ ~<>Drained)
  BY <1>17 DEF TimedFairness
<1>21. Spec /\ TimedFairness => (<>Drained => <>Over)
  BY <1>10, <1>12, <1>18, <1>19, <1>20, PTL
<1> QED BY <1>9, <1>21, PTL
=============================================================================
