------------------------- MODULE SerialBenchProofs -------------------------
(***************************************************************************)
(* For every set of characters, buffer size, timeout and word width: the   *)
(* reading functions of the serial library neither lose nor repeat a       *)
(* character, store no more characters than the caller's limit, return     *)
(* results that mean what their comments say, and give up only after the   *)
(* whole timeout.                                                          *)
(***************************************************************************)
EXTENDS SerialBench, SequenceTheorems, TLAPS

ReadRecord ==
    [fn : ReadFns, pc : ReadPcs, buf : Seq(Char), zero : {0, 1}, finalChar : Char,
     maxNbBytes : Nat, timeOut_ms : Nat, timer : Int, charTimer : Int,
     charTimeOut : Nat]

-----------------------------------------------------------------------------
(* Sequences and numbers                                                   *)

\* Moving the first character from one sequence to the end of another leaves
\* their concatenation as it is.
LEMMA MoveHead ==
    ASSUME NEW b \in Seq(Char), NEW s \in Seq(Char), s # <<>>
    PROVE  /\ Append(b, Head(s)) \in Seq(Char)
           /\ Len(Append(b, Head(s))) = Len(b) + 1
           /\ Tail(s) \in Seq(Char)
           /\ Append(b, Head(s)) \o Tail(s) = b \o s
  <1>1. Head(s) \in Char /\ Tail(s) \in Seq(Char)
    BY HeadTailProperties
  <1>2. Append(b, Head(s)) = b \o <<Head(s)>> /\ Len(Append(b, Head(s))) = Len(b) + 1
    BY <1>1, AppendIsConcat, AppendProperties
  <1>3. <<Head(s)>> \in Seq(Char)
    BY <1>1
  <1>4. s = <<Head(s)>> \o Tail(s)
    <2>1. Len(s) \in Nat \ {0} /\ Head(s) = s[1] /\ Tail(s) = SubSeq(s, 2, Len(s))
      BY EmptySeq, TailIsSubSeq
    <2>2. SubSeq(s, 1, Len(s)) = <<s[1]>> \o SubSeq(s, 1 + 1, Len(s))
      BY <2>1, SubSeqRecursiveFirst
    <2> QED  BY <2>1, <2>2, SubSeqFull
  <1>5. (b \o <<Head(s)>>) \o Tail(s) = b \o (<<Head(s)>> \o Tail(s))
    BY <1>1, <1>3, ConcatAssociative
  <1>6. Append(b, Head(s)) \in Seq(Char)
    BY <1>1, AppendProperties
  <1> QED  BY <1>1, <1>2, <1>4, <1>5, <1>6

\* The same for the first n characters.
LEMMA MovePrefix ==
    ASSUME NEW b \in Seq(Char), NEW s \in Seq(Char), NEW n \in 0 .. Len(s)
    PROVE  /\ b \o SubSeq(s, 1, n) \in Seq(Char)
           /\ Len(b \o SubSeq(s, 1, n)) = Len(b) + n
           /\ SubSeq(s, n + 1, Len(s)) \in Seq(Char)
           /\ (b \o SubSeq(s, 1, n)) \o SubSeq(s, n + 1, Len(s)) = b \o s
  <1>1. Len(s) \in Nat /\ \A i \in 1 .. Len(s) : s[i] \in Char
    BY LenProperties, ElementOfSeq
  <1>2. SubSeq(s, 1, n) \in Seq(Char) /\ Len(SubSeq(s, 1, n)) = n
    BY <1>1, SubSeqProperties
  <1>3. SubSeq(s, n + 1, Len(s)) \in Seq(Char)
    BY <1>1, SubSeqProperties
  <1>4. SubSeq(s, 1, n) \o SubSeq(s, n + 1, Len(s)) = s
    <2>1. 1 \in 1 .. Len(s) + 1 /\ n \in 1 - 1 .. Len(s) /\ Len(s) \in n .. Len(s)
      BY <1>1
    <2>2. SubSeq(s, 1, n) \o SubSeq(s, n + 1, Len(s)) = SubSeq(s, 1, Len(s))
      BY <2>1, ConcatAdjacentSubSeq, Zenon
    <2> QED  BY <2>2, SubSeqFull
  <1>5. (b \o SubSeq(s, 1, n)) \o SubSeq(s, n + 1, Len(s))
          = b \o (SubSeq(s, 1, n) \o SubSeq(s, n + 1, Len(s)))
    <2>1. \A p, q \in Seq(Char) : (b \o p) \o q = b \o (p \o q)
      BY ConcatAssociative
    <2> QED  BY <1>2, <1>3, <2>1, Zenon
  <1>6. b \o SubSeq(s, 1, n) \in Seq(Char) /\ Len(b \o SubSeq(s, 1, n)) = Len(b) + n
    BY <1>2, ConcatProperties
  <1> QED  BY <1>3, <1>4, <1>5, <1>6

\* A character that arrives at the end of the second sequence arrives at the
\* end of both.
LEMMA ArriveAtEnd ==
    ASSUME NEW b \in Seq(Char), NEW s \in Seq(Char), NEW c \in Char
    PROVE  b \o Append(s, c) = Append(b \o s, c)
  <1>1. b \o s \in Seq(Char) /\ <<c>> \in Seq(Char)
    BY ConcatProperties
  <1>2. Append(s, c) = s \o <<c>> /\ Append(b \o s, c) = (b \o s) \o <<c>>
    BY <1>1, AppendIsConcat
  <1> QED  BY <1>1, <1>2, ConcatAssociative

\* The time left to a call is an integer, whatever the clock does.
LEMMA TimeOutParamType ==
    ASSUME TypeOK
    PROVE  timeOutParam \in Int
  <1>1. clock \in Int /\ rd.timer \in Int /\ rd.timeOut_ms \in Nat
    BY DEF TypeOK
  <1>2. UsPerSec \in Nat \ {0}
    BY TimeAssumption DEF UsPerSec
  <1>3. \A t \in Int : tv_sec(t) \in Int /\ tv_usec(t) \in Int
    BY <1>2 DEF tv_sec, tv_usec
  <1>4. \A i \in Int : i % ULongMod \in Int /\ i \div UsPerMs \in Int /\ i * MsPerSec \in Int
    BY TimeAssumption
  <1>5. elapsedTime_ms(rd.timer) \in Int
    <2> DEFINE sec == tv_sec(clock) - tv_sec(rd.timer)
               usec == tv_usec(clock) - tv_usec(rd.timer)
    <2>1. sec \in Int /\ usec \in Int
      BY <1>1, <1>3
    <2>2. sec - 1 \in Int /\ usec + UsPerSec \in Int
      BY <2>1, <1>2
    <2>3. elapsedTime_ms(rd.timer) =
            (IF usec < 0
             THEN (sec - 1) * MsPerSec + (usec + UsPerSec) \div UsPerMs
             ELSE sec * MsPerSec + usec \div UsPerMs) % ULongMod
      BY DEF elapsedTime_ms
    <2> HIDE DEF sec, usec
    <2>4. /\ (sec - 1) * MsPerSec + (usec + UsPerSec) \div UsPerMs \in Int
          /\ sec * MsPerSec + usec \div UsPerMs \in Int
      BY <2>1, <2>2, <1>4
    <2> QED  BY <2>3, <2>4, <1>4
  <1>6. (rd.timeOut_ms - elapsedTime_ms(rd.timer)) % ULongMod \in Int
    BY <1>1, <1>4, <1>5
  <1> QED  BY <1>6, TimeAssumption DEF timeOutParam

-----------------------------------------------------------------------------
(* Types                                                                   *)

\* The record of a program that is in no call is of the right type.
LEMMA NoReadType == NoRead \in ReadRecord
  <1>1. (CHOOSE c \in Char : TRUE) \in Char
    BY BenchAssumption
  <1> QED  BY <1>1 DEF NoRead, ReadRecord, ReadFns, ReadPcs

\* Every call starts with a record of the right type.
LEMMA CallType ==
    ASSUME TypeOK,
           NEW fn \in ReadFns, NEW pc \in ReadPcs, NEW f \in Char, NEW m \in Nat, NEW t \in Nat,
           Call(fn, pc, f, m, t, Dates)
    PROVE  /\ rd' \in ReadRecord
           /\ clock' \in Int /\ ret' \in Int
           /\ fd' = fd /\ rx' = rx
           /\ rd'.buf = <<>>
           /\ rd'.pc = pc /\ rd'.maxNbBytes = m
  <1>1. clock' \in Int
    BY TimeAssumption DEF Call, Dates, UsPerSec
  <1> QED  BY <1>1 DEF Call, ReadRecord

\* Starting timers keeps the type of the record of a call.
LEMMA TimersType ==
    ASSUME NEW r \in ReadRecord, NEW t \in Int, NEW u \in Int, NEW n \in Nat
    PROVE  [r EXCEPT !.timer = t, !.charTimer = u, !.charTimeOut = n] \in ReadRecord
  <1>1. [r EXCEPT !.timer = t] \in ReadRecord
    BY DEF ReadRecord
  <1> DEFINE r1 == [r EXCEPT !.timer = t]
  <1> HIDE DEF r1
  <1>2. r1 \in ReadRecord
    BY <1>1 DEF r1
  <1>3. [r1 EXCEPT !.charTimer = u, !.charTimeOut = n] \in ReadRecord
    BY <1>2 DEF ReadRecord
  <1> QED  BY <1>3 DEF r1

\* So does returning with a result.
LEMMA ReturnedType ==
    ASSUME rd \in ReadRecord, NEW b \in Seq(Char), NEW z \in {0, 1}
    PROVE  /\ Returned(b, z) \in ReadRecord
           /\ Returned(b, z).buf = b
           /\ Returned(b, z).zero = z
           /\ Returned(b, z).pc = "idle"
           /\ Returned(b, z).maxNbBytes = rd.maxNbBytes
  <1>1. "idle" \in ReadPcs
    BY DEF ReadPcs
  <1> DEFINE r == [rd EXCEPT !.buf = b, !.zero = z, !.pc = "idle"]
  <1>2. /\ r \in ReadRecord
        /\ r.buf = b /\ r.zero = z /\ r.pc = "idle" /\ r.maxNbBytes = rd.maxNbBytes
    BY <1>1 DEF ReadRecord
  <1>3. Returned(b, z) = [r EXCEPT !.timer = 0, !.charTimer = 0, !.charTimeOut = 0]
    BY DEF Returned
  <1> HIDE DEF r
  <1>4. [r EXCEPT !.timer = 0, !.charTimer = 0, !.charTimeOut = 0] \in ReadRecord
    <2>1. 0 \in Int /\ 0 \in Nat
      OBVIOUS
    <2> QED  BY <1>2, <2>1, TimersType, Zenon
  <1>5. Returned(b, z).buf = b /\ Returned(b, z).zero = z /\ Returned(b, z).pc = "idle"
    BY <1>2, <1>3 DEF ReadRecord
  <1>6. Returned(b, z).maxNbBytes = rd.maxNbBytes
    BY <1>2, <1>3 DEF ReadRecord
  <1> QED  BY <1>3, <1>4, <1>5, <1>6

\* A step of a call keeps the types and touches neither port nor clock.
LEMMA StepType ==
    ASSUME TypeOK, Len(rd.buf) <= rd.maxNbBytes, ReadStep \/ ReadError
    PROVE  /\ rd' \in ReadRecord
           /\ rx' \in Seq(Char)
           /\ ret' \in Int
           /\ fd' = fd /\ clock' = clock
  <1>p. {"loop", "char", "read", "late", "bytes", "readBytes"} \subseteq ReadPcs
    BY DEF ReadPcs
  <1>t. rd \in ReadRecord /\ rx \in Seq(Char) /\ ret \in Int
    BY DEF TypeOK, ReadRecord
  <1>b. rd.buf \in Seq(Char) /\ rd.maxNbBytes \in Nat
    BY <1>t DEF ReadRecord
  <1>l. Len(rd.buf) \in Nat /\ Len(rx) \in Nat
    BY <1>t, <1>b, LenProperties
  <1>r. \A z \in {0, 1} : Returned(rd.buf, z) \in ReadRecord
    BY <1>t, <1>b, ReturnedType
  <1>g. \A pc \in ReadPcs : [rd EXCEPT !.pc = pc] \in ReadRecord
    BY <1>t DEF ReadRecord
  <1>1. CASE BufferFull
    BY <1>1, <1>t, <1>r DEF BufferFull, Return
  <1>2. CASE NextChar
    <2>1. timeOutParam \in Int /\ initTimer \in Int
      BY TimeOutParamType DEF TypeOK, initTimer
    <2>2. \A n \in Nat : [rd EXCEPT !.pc = "char", !.charTimer = initTimer, !.charTimeOut = n]
                            \in ReadRecord
      BY <1>t, <1>p, <2>1 DEF ReadRecord
    <2>3. timeOutParam > 0 => timeOutParam \in Nat
      BY <2>1
    <2> QED  BY <1>2, <1>t, <1>p, <1>g, <2>2, <2>3 DEF NextChar
  <1>3. CASE WaitChar
    BY <1>3, <1>t, <1>p, <1>g, <1>r DEF WaitChar, Goto, Return
  <1>4. CASE GotChar
    <2> DEFINE b == Append(rd.buf, Head(rx))
    <2>1. b \in Seq(Char) /\ Len(b) \in Nat /\ Tail(rx) \in Seq(Char)
      BY <1>4, <1>t, <1>b, <1>l, MoveHead DEF GotChar
    <2>2. \A z \in {0, 1} : Returned(b, z) \in ReadRecord
      BY <1>t, <2>1, ReturnedType
    <2>3. \A pc \in ReadPcs : [rd EXCEPT !.buf = b, !.pc = pc] \in ReadRecord
      <3> HIDE DEF b
      <3> QED  BY <1>t, <2>1 DEF ReadRecord
    <2>4. CASE rd.fn = "readChar" \/ Head(rx) = rd.finalChar
      <3>1. rd' = Returned(b, IF rd.fn = "readChar" THEN 0 ELSE 1) /\ ret' = Len(b) /\ rx' = Tail(rx) /\ fd' = fd /\ clock' = clock
        BY <1>4, <2>4 DEF GotChar
      <3> QED  BY <3>1, <2>1, <2>2
    <2>5. CASE ~(rd.fn = "readChar" \/ Head(rx) = rd.finalChar)
      <3> DEFINE pc == IF rd.fn = "readString" THEN "late" ELSE "loop"
      <3>1. /\ rd' = [rd EXCEPT !.buf = b, !.pc = pc]
            /\ ret' = ret /\ rx' = Tail(rx) /\ fd' = fd /\ clock' = clock
        BY <1>4, <2>5 DEF GotChar
      <3>2. pc \in ReadPcs
        BY <1>p
      <3> HIDE DEF b, pc
      <3> QED  BY <3>1, <3>2, <1>t, <2>1, <2>3
    <2> QED  BY <2>4, <2>5
  <1>5. CASE NoChar
    BY <1>5, <1>t, <1>p, <1>g DEF NoChar, Goto
  <1>6. CASE ReadError
    BY <1>6, <1>t, <1>r DEF ReadError, Return
  <1>7. CASE Late
    BY <1>7, <1>t, <1>p, <1>g, <1>r DEF Late, Goto, Return
  <1>8. CASE WaitBytes
    BY <1>8, <1>t, <1>p, <1>l, <1>g, <1>r DEF WaitBytes, Goto, Return
  <1>9. CASE GotBytes
    <2> DEFINE wanted == rd.maxNbBytes - Len(rd.buf)
               n == IF Len(rx) < wanted THEN Len(rx) ELSE wanted
               b == rd.buf \o SubSeq(rx, 1, n)
    <2>1. n \in 0 .. Len(rx)
      BY <1>9, <1>b, <1>l
    <2>2. b \in Seq(Char) /\ Len(b) \in Nat /\ SubSeq(rx, n + 1, Len(rx)) \in Seq(Char)
      <3> HIDE DEF n
      <3>1. b \in Seq(Char) /\ Len(b) = Len(rd.buf) + n
        BY <1>t, <1>b, <2>1, MovePrefix, Zenon
      <3>2. SubSeq(rx, n + 1, Len(rx)) \in Seq(Char)
        BY <1>t, <1>b, <2>1, MovePrefix, Zenon
      <3>3. n \in Nat
        BY <2>1, <1>l
      <3> HIDE DEF b
      <3> QED  BY <3>1, <3>2, <3>3, <1>l
    <2>3. Returned(b, 0) \in ReadRecord
      BY <1>t, <2>2, ReturnedType
    <2>4. [rd EXCEPT !.buf = b, !.pc = "bytes"] \in ReadRecord
      <3> HIDE DEF b
      <3> QED  BY <1>t, <1>p, <2>2 DEF ReadRecord
    <2> QED  BY <1>9, <1>t, <2>2, <2>3, <2>4 DEF GotBytes
  <1> QED  BY <1>1, <1>2, <1>3, <1>4, <1>5, <1>6, <1>7, <1>8, <1>9 DEF ReadStep

-----------------------------------------------------------------------------
(* The stream.  StreamIntact is not inductive: that the next character     *)
(* still fits depends on the loop condition tested before readChar was     *)
(* called, several polls ago.                                              *)

Room == rd.pc \in {"char", "read"} => Len(rd.buf) < rd.maxNbBytes

StreamInv == TypeOK /\ StreamIntact /\ Room

\* A step of a call moves characters from the driver to the buffer, in order,
\* and no more than fit.
LEMMA StepStream ==
    ASSUME StreamInv, ReadStep \/ ReadError
    PROVE  /\ rd'.buf \o rx' = rd.buf \o rx
           /\ Len(rd'.buf) <= rd'.maxNbBytes
           /\ Room'
  <1>t. rd \in ReadRecord /\ rx \in Seq(Char)
    BY DEF StreamInv, TypeOK, ReadRecord
  <1>b. rd.buf \in Seq(Char) /\ rd.maxNbBytes \in Nat
    BY <1>t DEF ReadRecord
  <1>l. Len(rd.buf) \in Nat /\ Len(rx) \in Nat /\ Len(rd.buf) <= rd.maxNbBytes
    BY <1>t, <1>b, LenProperties DEF StreamInv, StreamIntact
  <1>r. \A b \in Seq(Char), z \in {0, 1} : /\ Returned(b, z).buf = b
                                            /\ Returned(b, z).pc = "idle"
                                            /\ Returned(b, z).maxNbBytes = rd.maxNbBytes
    BY <1>t, ReturnedType
  <1>1. CASE GotChar
    <2> DEFINE b == Append(rd.buf, Head(rx))
    <2>1. rd.pc = "read" /\ rx # <<>> /\ rx' = Tail(rx)
      BY <1>1 DEF GotChar
    <2>2. Len(rd.buf) < rd.maxNbBytes
      BY <2>1 DEF StreamInv, Room
    <2>3. b \in Seq(Char) /\ Len(b) = Len(rd.buf) + 1 /\ b \o Tail(rx) = rd.buf \o rx
      BY <2>1, <1>t, <1>b, MoveHead, Zenon
    <2>4. /\ rd'.buf = b /\ rd'.maxNbBytes = rd.maxNbBytes
          /\ rd'.pc \in {"idle", "late", "loop"}
      <3>1. CASE rd.fn = "readChar" \/ Head(rx) = rd.finalChar
        <4>1. rd' = Returned(b, IF rd.fn = "readChar" THEN 0 ELSE 1)
          BY <1>1, <3>1 DEF GotChar
        <4> HIDE DEF b
        <4> QED  BY <4>1, <2>3, <1>r
      <3>2. CASE ~(rd.fn = "readChar" \/ Head(rx) = rd.finalChar)
        <4> DEFINE pc == IF rd.fn = "readString" THEN "late" ELSE "loop"
        <4>1. rd' = [rd EXCEPT !.buf = b, !.pc = pc]
          BY <1>1, <3>2 DEF GotChar
        <4>2. pc \in {"late", "loop"}
          OBVIOUS
        <4> HIDE DEF b, pc
        <4> QED  BY <4>1, <4>2, <1>t DEF ReadRecord
      <3> QED  BY <3>1, <3>2
    <2> HIDE DEF b
    <2>5. rd'.buf \o rx' = rd.buf \o rx
      BY <2>1, <2>3, <2>4
    <2>6. Len(rd'.buf) <= rd'.maxNbBytes
      BY <2>2, <2>3, <2>4, <1>b, <1>l
    <2>7. Room'
      BY <2>4 DEF Room
    <2> QED  BY <2>5, <2>6, <2>7
  <1>2. CASE GotBytes
    <2> DEFINE wanted == rd.maxNbBytes - Len(rd.buf)
               n == IF Len(rx) < wanted THEN Len(rx) ELSE wanted
               b == rd.buf \o SubSeq(rx, 1, n)
               full == n > 0 /\ n = wanted
    <2>1. n \in 0 .. Len(rx) /\ Len(rd.buf) + n <= rd.maxNbBytes
      BY <1>b, <1>l
    <2>2. rx' = SubSeq(rx, n + 1, Len(rx))
      BY <1>2 DEF GotBytes
    <2>3. full => rd' = Returned(b, 0)
      BY <1>2 DEF GotBytes
    <2>4. ~full => rd' = [rd EXCEPT !.buf = b, !.pc = "bytes"]
      BY <1>2 DEF GotBytes
    <2> HIDE DEF n, full
    <2>5. /\ b \in Seq(Char) /\ Len(b) = Len(rd.buf) + n
          /\ b \o SubSeq(rx, n + 1, Len(rx)) = rd.buf \o rx
      BY <2>1, <1>t, <1>b, MovePrefix, Zenon
    <2> HIDE DEF b
    <2>6. rd'.buf = b /\ rd'.maxNbBytes = rd.maxNbBytes /\ rd'.pc \in {"idle", "bytes"}
      <3>1. CASE full
        BY <3>1, <2>3, <2>5, <1>r
      <3>2. CASE ~full
        BY <3>2, <2>4, <1>t DEF ReadRecord
      <3> QED  BY <3>1, <3>2
    <2>7. rd'.buf \o rx' = rd.buf \o rx
      BY <2>2, <2>5, <2>6
    <2>8. Len(rd'.buf) <= rd'.maxNbBytes
      BY <2>1, <2>5, <2>6
    <2>9. Room'
      BY <2>6 DEF Room
    <2> QED  BY <2>7, <2>8, <2>9
  <1>3. CASE ~GotChar /\ ~GotBytes
    <2>g. \A pc : LET r == [rd EXCEPT !.pc = pc]
                 IN  r.buf = rd.buf /\ r.maxNbBytes = rd.maxNbBytes /\ r.pc = pc
      BY <1>t DEF ReadRecord
    <2>r. \A z \in {0, 1} : LET r == Returned(rd.buf, z)
                             IN  r.buf = rd.buf /\ r.pc = "idle" /\ r.maxNbBytes = rd.maxNbBytes
      BY <1>b, <1>r
    <2>k. /\ rd'.buf = rd.buf /\ rd'.maxNbBytes = rd.maxNbBytes /\ rx' = rx
          /\ rd'.pc \in {"char", "read"} => Len(rd.buf) < rd.maxNbBytes
      <3>1. CASE BufferFull
        BY <3>1, <2>r DEF BufferFull, Return
      <3>2. CASE NextChar
        <4>1. rd' = [rd EXCEPT !.pc = rd'.pc, !.charTimer = rd'.charTimer,
                               !.charTimeOut = rd'.charTimeOut]
          BY <3>2, <1>t DEF NextChar, ReadRecord
        <4> QED  BY <3>2, <4>1, <1>t DEF NextChar, ReadRecord
      <3>3. CASE WaitChar
        <4>1. Len(rd.buf) < rd.maxNbBytes
          BY <3>3 DEF WaitChar, StreamInv, Room
        <4>2. /\ rx' = rx
              /\ rd' \in {Returned(rd.buf, 0), [rd EXCEPT !.pc = "read"], [rd EXCEPT !.pc = "late"]}
          BY <3>3 DEF WaitChar, Goto, Return
        <4>3. CASE rd' = Returned(rd.buf, 0)
          BY <4>1, <4>2, <4>3, <2>r
        <4>4. CASE rd' = [rd EXCEPT !.pc = "read"]
          BY <4>1, <4>2, <4>4, <2>g
        <4>5. CASE rd' = [rd EXCEPT !.pc = "late"]
          BY <4>1, <4>2, <4>5, <2>g
        <4> QED  BY <4>2, <4>3, <4>4, <4>5
      <3>4. CASE NoChar
        BY <3>4, <2>g DEF NoChar, Goto, StreamInv, Room
      <3>5. CASE ReadError
        BY <3>5, <2>r DEF ReadError, Return
      <3>6. CASE Late
        <4>1. rx' = rx /\ rd' \in {Returned(rd.buf, 1), [rd EXCEPT !.pc = "loop"]}
          BY <3>6 DEF Late, Goto
        <4>2. CASE rd' = Returned(rd.buf, 1)
          BY <4>1, <4>2, <2>r
        <4>3. CASE rd' = [rd EXCEPT !.pc = "loop"]
          BY <4>1, <4>3, <2>g
        <4> QED  BY <4>1, <4>2, <4>3
      <3>7. CASE WaitBytes
        <4>1. rx' = rx /\ rd' \in {Returned(rd.buf, 0), [rd EXCEPT !.pc = "readBytes"]}
          BY <3>7 DEF WaitBytes, Goto, Return
        <4>2. CASE rd' = Returned(rd.buf, 0)
          BY <4>1, <4>2, <2>r
        <4>3. CASE rd' = [rd EXCEPT !.pc = "readBytes"]
          BY <4>1, <4>3, <2>g
        <4> QED  BY <4>1, <4>2, <4>3
      <3> QED  BY <1>3, <3>1, <3>2, <3>3, <3>4, <3>5, <3>6, <3>7 DEF ReadStep
    <2> QED  BY <2>k, <1>l DEF Room
  <1> QED  BY <1>1, <1>2, <1>3

\* The invariant holds before the port is opened.
LEMMA StreamInvInit == Init => StreamInv
  <1> SUFFICES ASSUME Init PROVE StreamInv
    OBVIOUS
  <1>1. /\ fd = Closed /\ rx = <<>> /\ clock = 0 /\ rd = NoRead /\ ret = 0
        /\ owed = <<>> /\ setBack = FALSE
    BY DEF Init, serialib
  <1>2. TypeOK
    <2>1. rd \in ReadRecord
      BY <1>1, NoReadType
    <2>2. rx \in Seq(Char) /\ owed \in Seq(Char) /\ clock \in Int /\ ret \in Int
      BY <1>1, EmptySeq
    <2> QED  BY <1>1, <2>1, <2>2 DEF TypeOK, ReadRecord
  <1>3. rd.buf = <<>> /\ rd.maxNbBytes = 0 /\ rd.pc = "idle"
    BY <1>1 DEF NoRead
  <1>4. StreamIntact
    BY <1>1, <1>3, ConcatEmptySeq, EmptySeq DEF StreamIntact
  <1>5. Room
    BY <1>3 DEF Room
  <1> QED  BY <1>2, <1>4, <1>5 DEF StreamInv

\* Every step of the client, the line, the clock and the call keeps it.
LEMMA StreamInvStep == StreamInv /\ [Next]_vars => StreamInv'
  <1> SUFFICES ASSUME StreamInv, [Next]_vars PROVE StreamInv'
    OBVIOUS
  <1>t. /\ fd \in {Closed, Opened} /\ rd \in ReadRecord /\ rx \in Seq(Char)
        /\ clock \in Int /\ ret \in Int /\ owed \in Seq(Char) /\ setBack \in BOOLEAN
    BY DEF StreamInv, TypeOK, ReadRecord
  <1>b. rd.buf \in Seq(Char) /\ rd.maxNbBytes \in Nat
    BY <1>t DEF ReadRecord
  <1>i. owed = rd.buf \o rx /\ Len(rd.buf) <= rd.maxNbBytes
    BY DEF StreamInv, StreamIntact
  <1>e. \A b \in Seq(Char) : b \o <<>> = b /\ <<>> \o b = b
    BY ConcatEmptySeq
  \* What is enough when the call in progress is not touched.
  <1>k. ASSUME rd' = rd, owed' = rd.buf \o rx', rx' \in Seq(Char), fd' \in {Closed, Opened},
               clock' \in Int, ret' \in Int, setBack' \in BOOLEAN
        PROVE  StreamInv'
    <2>1. owed' \in Seq(Char)
      BY <1>k, <1>b, ConcatProperties
    <2>2. TypeOK'
      BY <1>k, <1>t, <2>1 DEF TypeOK, ReadRecord
    <2>3. StreamIntact' /\ Room'
      BY <1>k, <1>i DEF StreamInv, StreamIntact, Room
    <2> QED  BY <2>2, <2>3 DEF StreamInv
  <1>1. CASE CallRead
    <2>1. PICK fn \in ReadFns, pc \in ReadPcs, f \in Char, m \in Nat, t \in Nat :
             Call(fn, pc, f, m, t, Dates) /\ (pc = "char" => m = 1) /\ pc # "read"
      <3>1. NoRead.finalChar \in Char /\ FinalChar \in Char
        BY NoReadType, BenchAssumption DEF ReadRecord
      <3>2. 0 .. MaxBytes \subseteq Nat /\ 0 .. MaxTimeOut \subseteq Nat
        BY BenchAssumption
      <3>3. /\ ReadFns = {"readChar", "readString", "readStringNoTimeOut", "readBytes"}
            /\ {"char", "loop", "bytes"} \subseteq ReadPcs
        BY DEF ReadFns, ReadPcs
      <3>4. PICK m \in 0 .. MaxBytes, t \in 0 .. MaxTimeOut :
               \/ readChar(t, Dates)
               \/ readString(FinalChar, m, t, Dates)
               \/ readBytes(m, t, Dates)
        BY <1>1 DEF CallRead
      <3>5. m \in Nat /\ t \in Nat
        BY <3>2
      <3>6. CASE readChar(t, Dates)
        BY <3>6, <3>1, <3>3, <3>5 DEF readChar
      <3>7. CASE readString(FinalChar, m, t, Dates)
        BY <3>7, <3>1, <3>3, <3>5 DEF readString, readStringNoTimeOut
      <3>8. CASE readBytes(m, t, Dates)
        BY <3>8, <3>1, <3>3, <3>5 DEF readBytes
      <3> QED  BY <3>4, <3>6, <3>7, <3>8
    <2>2. TypeOK
      BY DEF StreamInv
    <2>3. /\ rd' \in ReadRecord /\ clock' \in Int /\ ret' \in Int
          /\ fd' = fd /\ rx' = rx
          /\ rd'.buf = <<>> /\ rd'.pc = pc /\ rd'.maxNbBytes = m
      BY <2>1, <2>2, CallType
    <2>4. owed' = rx /\ setBack' = FALSE
      BY <1>1 DEF CallRead
    <2>5. TypeOK'
      BY <2>3, <2>4, <1>t DEF TypeOK, ReadRecord
    <2>6. StreamIntact'
      BY <2>3, <2>4, <1>t, <1>e, EmptySeq DEF StreamIntact
    <2>7. Room'
      BY <2>1, <2>3, EmptySeq DEF Room
    <2> QED  BY <2>5, <2>6, <2>7 DEF StreamInv
  <1>2. CASE OpenPort
    <2>1. /\ rd' = rd /\ rx' = <<>> /\ clock' = clock /\ owed' = rd.buf /\ setBack' = setBack
          /\ fd' \in {Closed, Opened}
      BY <1>2 DEF OpenPort, openDevice
    <2>2. ret' \in Int
      BY <1>2 DEF OpenPort, openDevice, openParameters
    <2> QED  BY <1>k, <2>1, <2>2, <1>t, <1>b, <1>e
  <1>3. CASE ClosePort
    BY <1>3, <1>k, <1>t, <1>b, <1>e DEF ClosePort, closeDevice
  <1>4. CASE Flush
    BY <1>4, <1>k, <1>t, <1>b, <1>e DEF Flush, flushReceiver
  <1>5. CASE WriteOrAsk
    <2>1. /\ rd' = rd /\ rx' = rx /\ clock' = clock /\ fd' = fd
          /\ owed' = owed /\ setBack' = setBack
      BY <1>5 DEF WriteOrAsk, available, writeChar, writeString, writeBytes, Write
    <2>2. ret' \in Int
      BY <1>5, <1>t, LenProperties DEF WriteOrAsk, available, writeChar, writeString, writeBytes, Write
    <2> QED  BY <1>k, <2>1, <2>2, <1>t, <1>i
  <1>6. CASE Step \/ DeviceError
    <2>1. (ReadStep \/ ReadError) /\ owed' = owed /\ setBack' = setBack
      BY <1>6 DEF Step, DeviceError
    <2>2. /\ rd' \in ReadRecord /\ rx' \in Seq(Char) /\ ret' \in Int
          /\ fd' = fd /\ clock' = clock
      BY <2>1, <1>i, StepType DEF StreamInv
    <2>3. TypeOK'
      BY <2>1, <2>2, <1>t DEF TypeOK, ReadRecord
    <2>4. /\ rd'.buf \o rx' = rd.buf \o rx
          /\ Len(rd'.buf) <= rd'.maxNbBytes
          /\ Room'
      BY <2>1, StepStream
    <2>5. StreamIntact'
      BY <2>1, <2>4, <1>i DEF StreamIntact
    <2> QED  BY <2>3, <2>4, <2>5 DEF StreamInv
  <1>7. CASE Receive
    <2>1. PICK c \in Char : Arrive(c) /\ owed' = Append(owed, c)
      BY <1>7 DEF Receive
    <2>2. /\ rd' = rd /\ rx' = Append(rx, c) /\ clock' = clock /\ fd' = fd /\ ret' = ret
          /\ setBack' = setBack
      BY <1>7, <2>1 DEF Arrive, Receive
    <2>3. owed' = rd.buf \o rx' /\ rx' \in Seq(Char)
      BY <2>1, <2>2, <1>i, <1>t, <1>b, ArriveAtEnd, AppendProperties
    <2> QED  BY <1>k, <2>2, <2>3, <1>t
  <1>8. CASE TimePasses \/ ClockSetBack
    <2>1. /\ rd' = rd /\ rx' = rx /\ fd' = fd /\ ret' = ret /\ owed' = owed
          /\ setBack' \in BOOLEAN
      BY <1>8, <1>t DEF TimePasses, ClockSetBack, Tick, SetClockBack
    <2>2. clock' \in Int
      BY <1>8, <1>t, BenchAssumption DEF TimePasses, ClockSetBack, Tick, SetClockBack
    <2> QED  BY <1>k, <2>1, <2>2, <1>t, <1>i
  <1>9. CASE UNCHANGED vars
    BY <1>9, <1>k, <1>t, <1>i DEF vars, serialVars
  <1> QED  BY <1>1, <1>2, <1>3, <1>4, <1>5, <1>6, <1>7, <1>8, <1>9 DEF Next

\* The inductive invariant of the reading functions holds in every behaviour:
\* types, the characters in order, and room for the character waited for.
THEOREM StreamInvHolds == Spec => []StreamInv
  BY StreamInvInit, StreamInvStep, PTL DEF Spec

\* Type correctness of the serial library under any client: a remaining time
\* that is handed to readChar is never negative.
THEOREM TypeCorrect == Spec => []TypeOK
  <1>1. StreamInv => TypeOK
    BY DEF StreamInv
  <1> QED  BY <1>1, StreamInvHolds, PTL

\* No reading function loses, repeats or reorders a character or writes past
\* the caller's limit, for every character set, limit and timeout.
THEOREM StreamIntactHolds == Spec => []StreamIntact
  <1>1. StreamInv => StreamIntact
    BY DEF StreamInv
  <1> QED  BY <1>1, StreamInvHolds, PTL

-----------------------------------------------------------------------------
(* Results and timeouts.  What a result means depends on how the call got  *)
(* to its last step: which function loops where, that no character taken   *)
(* so far was the final one, and that the clock has run forward since the  *)
(* call began.                                                             *)

StringFns == {"readString", "readStringNoTimeOut"}

Where ==
    /\ rd.pc = "loop" => rd.fn \in StringFns
    /\ rd.pc = "late" => rd.fn = "readString"
    /\ rd.pc \in {"char", "read"} => rd.fn # "readBytes"
    /\ rd.pc \in {"bytes", "readBytes"} => rd.fn = "readBytes"

NoFinalYet == rd.pc # "idle" /\ rd.fn \in StringFns => ~HasFinal(rd.buf)

Timers ==
    /\ rd.pc # "idle" /\ rd.fn = "readChar" =>
         /\ rd.buf = <<>> /\ rd.maxNbBytes = 1
         /\ rd.charTimer = rd.timer /\ rd.charTimeOut = rd.timeOut_ms
    /\ rd.pc \in {"char", "read"} /\ rd.fn = "readStringNoTimeOut" => rd.charTimeOut = 0
    /\ rd.pc # "idle" /\ ~setBack => rd.timer <= clock

CallInv == Where /\ NoFinalYet /\ Timers

\* The fields a step of a call leaves alone.
LEMMA Fields ==
    ASSUME rd \in ReadRecord
    PROVE  /\ \A p : LET r == [rd EXCEPT !.pc = p]
                     IN  /\ r.pc = p /\ r.fn = rd.fn /\ r.buf = rd.buf /\ r.finalChar = rd.finalChar
                         /\ r.maxNbBytes = rd.maxNbBytes /\ r.timeOut_ms = rd.timeOut_ms
                         /\ r.timer = rd.timer /\ r.charTimer = rd.charTimer
                         /\ r.charTimeOut = rd.charTimeOut
           /\ \A p, b : LET r == [rd EXCEPT !.buf = b, !.pc = p]
                        IN  /\ r.pc = p /\ r.fn = rd.fn /\ r.buf = b /\ r.finalChar = rd.finalChar
                            /\ r.timer = rd.timer
           /\ \A p, t, n : LET r == [rd EXCEPT !.pc = p, !.charTimer = t, !.charTimeOut = n]
                           IN  /\ r.pc = p /\ r.fn = rd.fn /\ r.buf = rd.buf
                               /\ r.finalChar = rd.finalChar /\ r.timer = rd.timer
                               /\ r.charTimeOut = n
  BY DEF ReadRecord

\* A call that has returned owes nothing.
LEMMA IdleInv == rd.pc = "idle" => CallInv
  BY DEF CallInv, Where, NoFinalYet, Timers

\* A step that only moves on within the call.
LEMMA GotoInv ==
    ASSUME TypeOK, CallInv, NEW p, rd' = [rd EXCEPT !.pc = p], rd.pc # "idle",
           clock' = clock, setBack' = setBack,
           p = "loop" => rd.fn \in StringFns,
           p = "late" => rd.fn = "readString",
           p \in {"char", "read"} => rd.pc \in {"char", "read"},
           p \in {"bytes", "readBytes"} => rd.fn = "readBytes"
    PROVE  CallInv'
  <1>1. /\ rd'.pc = p /\ rd'.fn = rd.fn /\ rd'.buf = rd.buf /\ rd'.finalChar = rd.finalChar
        /\ rd'.maxNbBytes = rd.maxNbBytes /\ rd'.timeOut_ms = rd.timeOut_ms
        /\ rd'.timer = rd.timer /\ rd'.charTimer = rd.charTimer
        /\ rd'.charTimeOut = rd.charTimeOut
    <2>1. rd \in ReadRecord
      BY DEF TypeOK, ReadRecord
    <2> QED  BY <2>1, Fields
  <1>2. Where'
    BY <1>1 DEF CallInv, Where
  <1>3. NoFinalYet'
    BY <1>1 DEF CallInv, NoFinalYet, HasFinal
  <1>4. Timers'
    BY <1>1 DEF CallInv, Timers
  <1> QED  BY <1>2, <1>3, <1>4 DEF CallInv

\* Every step of a call keeps the invariant.
LEMMA StepCall ==
    ASSUME StreamInv, CallInv, ReadStep \/ ReadError, setBack' = setBack
    PROVE  CallInv'
  <1>t. TypeOK /\ rd \in ReadRecord /\ rx \in Seq(Char)
    BY DEF StreamInv, TypeOK, ReadRecord
  <1>b. rd.buf \in Seq(Char) /\ rd.fn \in ReadFns
    BY <1>t DEF ReadRecord
  <1>c. clock' = clock
    BY <1>t, StepType DEF StreamInv, StreamIntact
  <1>i. rd'.pc = "idle" => CallInv'
    BY DEF CallInv, Where, NoFinalYet, Timers
  <1>r. \A b \in Seq(Char), z \in {0, 1} : Returned(b, z).pc = "idle"
    BY <1>t, ReturnedType
  <1>w. Where /\ NoFinalYet /\ Timers
    BY DEF CallInv
  <1>1. CASE BufferFull \/ ReadError
    BY <1>1, <1>i, <1>r, <1>b DEF BufferFull, ReadError, Return
  <1>2. CASE NextChar
    <2>1. rd.fn \in StringFns /\ rd.pc = "loop"
      BY <1>2, <1>w DEF NextChar, Where
    <2>2. CASE rd' = [rd EXCEPT !.pc = "late"] /\ rd.fn = "readString"
      BY <2>1, <2>2, <1>t, <1>c, GotoInv
    <2>3. ASSUME NEW n, rd' = [rd EXCEPT !.pc = "char", !.charTimer = initTimer, !.charTimeOut = n],
                 rd.fn = "readStringNoTimeOut" => n = 0
          PROVE  CallInv'
      <3>1. /\ rd'.pc = "char" /\ rd'.fn = rd.fn /\ rd'.buf = rd.buf /\ rd'.finalChar = rd.finalChar
            /\ rd'.timer = rd.timer /\ rd'.charTimeOut = n
        BY <2>3, <1>t, Fields
      <3>2. Where'
        BY <3>1, <2>1 DEF Where, StringFns
      <3>3. NoFinalYet'
        BY <3>1, <2>1, <1>w DEF NoFinalYet, HasFinal
      <3>4. Timers'
        BY <3>1, <2>1, <2>3, <1>w, <1>c DEF Timers, StringFns
      <3> QED  BY <3>2, <3>3, <3>4 DEF CallInv
    <2> QED  BY <1>2, <2>2, <2>3 DEF NextChar
  <1>3. CASE WaitChar
    <2>1. rd.pc = "char" /\ rd.fn # "readBytes"
      BY <1>3, <1>w DEF WaitChar, Where
    <2>2. CASE rd.charTimeOut = 0 \/ elapsedTime_ms(rd.charTimer) < rd.charTimeOut
      <3>1. rd' = [rd EXCEPT !.pc = "read"]
        BY <1>3, <2>2 DEF WaitChar, Goto
      <3> QED  BY <3>1, <2>1, <1>t, <1>c, GotoInv
    <2>3. CASE ~(rd.charTimeOut = 0 \/ elapsedTime_ms(rd.charTimer) < rd.charTimeOut)
      <3>1. CASE rd.fn = "readChar"
        BY <1>3, <2>3, <3>1, <1>i, <1>r, <1>b DEF WaitChar, Return
      <3>2. CASE rd.fn # "readChar"
        <4>1. rd' = [rd EXCEPT !.pc = "late"]
          BY <1>3, <2>3, <3>2 DEF WaitChar, Goto
        <4>2. rd.fn = "readString"
          BY <2>1, <2>3, <3>2, <1>b, <1>w DEF Timers, ReadFns
        <4> QED  BY <4>1, <4>2, <2>1, <1>t, <1>c, GotoInv
      <3> QED  BY <3>1, <3>2
    <2> QED  BY <2>2, <2>3
  <1>4. CASE GotChar
    <2> DEFINE b == Append(rd.buf, Head(rx))
               p == IF rd.fn = "readString" THEN "late" ELSE "loop"
    <2>1. rd.pc = "read" /\ rx # <<>> /\ rd.fn # "readBytes"
      BY <1>4, <1>w DEF GotChar, Where
    <2>2. b \in Seq(Char) /\ Head(rx) \in Char
      BY <2>1, <1>t, <1>b, MoveHead, HeadTailProperties
    <2>3. CASE rd.fn = "readChar" \/ Head(rx) = rd.finalChar
      <3>1. rd' = Returned(b, IF rd.fn = "readChar" THEN 0 ELSE 1)
        BY <1>4, <2>3 DEF GotChar
      <3> QED  BY <3>1, <2>2, <1>i, <1>r
    <2>4. CASE ~(rd.fn = "readChar" \/ Head(rx) = rd.finalChar)
      <3>1. rd' = [rd EXCEPT !.buf = b, !.pc = p]
        BY <1>4, <2>4 DEF GotChar
      <3>2. ~HasFinal(rd.buf) /\ rd.fn \in StringFns
        BY <2>1, <2>4, <1>b, <1>w DEF NoFinalYet, StringFns, ReadFns
      <3>3. \A i \in DOMAIN b : b[i] # rd.finalChar
        <4>1. /\ DOMAIN b = 1 .. Len(rd.buf) + 1 /\ DOMAIN rd.buf = 1 .. Len(rd.buf)
              /\ Len(rd.buf) \in Nat
              /\ \A i \in 1 .. Len(rd.buf) : b[i] = rd.buf[i]
              /\ b[Len(rd.buf) + 1] = Head(rx)
          BY <1>b, <2>2, AppendProperties
        <4> HIDE DEF b
        <4> QED  BY <4>1, <3>2, <2>4 DEF HasFinal
      <3> HIDE DEF b
      <3>4. /\ rd'.pc = p /\ rd'.fn = rd.fn /\ rd'.buf = b /\ rd'.finalChar = rd.finalChar
            /\ rd'.timer = rd.timer
        BY <3>1, <1>t, Fields
      <3>5. Where'
        BY <3>4, <3>2 DEF Where
      <3>6. NoFinalYet'
        BY <3>4, <3>3 DEF NoFinalYet, HasFinal
      <3>7. Timers'
        BY <3>4, <3>2, <2>1, <1>w, <1>c DEF Timers, StringFns
      <3> QED  BY <3>5, <3>6, <3>7 DEF CallInv
    <2> QED  BY <2>3, <2>4
  <1>5. CASE NoChar
    <2>1. rd' = [rd EXCEPT !.pc = "char"] /\ rd.pc = "read"
      BY <1>5 DEF NoChar, Goto
    <2> QED  BY <2>1, <1>t, <1>c, GotoInv
  <1>6. CASE Late
    <2>1. rd.pc = "late" /\ rd.fn = "readString"
      BY <1>6, <1>w DEF Late, Where
    <2>2. CASE elapsedTime_ms(rd.timer) > rd.timeOut_ms
      BY <1>6, <2>2, <1>i, <1>r, <1>b DEF Late, Return
    <2>3. CASE ~(elapsedTime_ms(rd.timer) > rd.timeOut_ms)
      <3>1. rd' = [rd EXCEPT !.pc = "loop"] /\ rd.fn \in StringFns
        BY <1>6, <2>1, <2>3 DEF Late, Goto, StringFns
      <3> QED  BY <3>1, <2>1, <1>t, <1>c, GotoInv
    <2> QED  BY <2>2, <2>3
  <1>7. CASE WaitBytes
    <2>1. rd.pc = "bytes" /\ rd.fn = "readBytes"
      BY <1>7, <1>w DEF WaitBytes, Where
    <2>2. rd' = [rd EXCEPT !.pc = "readBytes"] \/ rd' = Returned(rd.buf, 0)
      BY <1>7 DEF WaitBytes, Goto, Return
    <2>3. CASE rd' = [rd EXCEPT !.pc = "readBytes"]
      BY <2>1, <2>3, <1>t, <1>c, GotoInv
    <2> QED  BY <2>2, <2>3, <1>i, <1>r, <1>b
  <1>8. CASE GotBytes
    <2>1. rd.pc = "readBytes" /\ rd.fn = "readBytes"
      BY <1>8, <1>w DEF GotBytes, Where
    <2> DEFINE wanted == rd.maxNbBytes - Len(rd.buf)
               n == IF Len(rx) < wanted THEN Len(rx) ELSE wanted
               b == rd.buf \o SubSeq(rx, 1, n)
    <2>2. rd' = Returned(b, 0) \/ rd' = [rd EXCEPT !.buf = b, !.pc = "bytes"]
      BY <1>8 DEF GotBytes
    <2> HIDE DEF b
    <2>3. Returned(b, 0).pc = "idle"
      BY <1>t DEF Returned, ReadRecord
    <2>4. CASE rd' = [rd EXCEPT !.buf = b, !.pc = "bytes"]
      <3>1. rd'.pc = "bytes" /\ rd'.fn = rd.fn /\ rd'.timer = rd.timer
        BY <2>4, <1>t, Fields
      <3> QED  BY <3>1, <2>1, <1>w, <1>c DEF CallInv, Where, NoFinalYet, Timers, StringFns
    <2> QED  BY <2>2, <2>3, <2>4, <1>i
  <1> QED  BY <1>1, <1>2, <1>3, <1>4, <1>5, <1>6, <1>7, <1>8 DEF ReadStep

\* So does every step of the client, the line and the clock.
LEMMA CallInvStep == StreamInv /\ CallInv /\ [Next]_vars => CallInv'
  <1> SUFFICES ASSUME StreamInv, CallInv, [Next]_vars PROVE CallInv'
    OBVIOUS
  <1>w. Where /\ NoFinalYet /\ Timers
    BY DEF CallInv
  <1>t. clock \in Int /\ rd.timer \in Int /\ setBack \in BOOLEAN
    BY DEF StreamInv, TypeOK
  \* What is enough when the call in progress is not touched.
  <1>k. ASSUME rd' = rd, rd.pc # "idle" /\ ~setBack' => ~setBack /\ clock <= clock', clock' \in Int
        PROVE  CallInv'
    <2>1. Where' /\ NoFinalYet'
      BY <1>k, <1>w DEF Where, NoFinalYet, HasFinal
    <2>2. rd.pc # "idle" /\ ~setBack' => rd.timer <= clock'
      BY <1>k, <1>w, <1>t DEF Timers
    <2>3. Timers'
      BY <1>k, <2>2, <1>w DEF Timers
    <2> QED  BY <2>1, <2>3 DEF CallInv
  <1>1. CASE CallRead
    <2>1. PICK m \in 0 .. MaxBytes, t \in 0 .. MaxTimeOut :
             \/ readChar(t, Dates)
             \/ readString(FinalChar, m, t, Dates)
             \/ readBytes(m, t, Dates)
      BY <1>1 DEF CallRead
    <2>2. ASSUME NEW fn, NEW pc, NEW f, NEW l, NEW u, Call(fn, pc, f, l, u, Dates),
                 <<fn, pc>> \in {<<"readChar", "char">>, <<"readString", "loop">>,
                                 <<"readStringNoTimeOut", "loop">>, <<"readBytes", "bytes">>},
                 fn = "readChar" => l = 1
          PROVE  CallInv'
      <3>1. /\ rd'.fn = fn /\ rd'.pc = pc /\ rd'.buf = <<>> /\ rd'.maxNbBytes = l
            /\ rd'.timeOut_ms = u /\ rd'.timer = clock' /\ rd'.charTimer = clock'
            /\ rd'.charTimeOut = u /\ clock' \in Dates
        BY <2>2 DEF Call
      <3>2. Where'
        BY <2>2, <3>1 DEF Where, StringFns
      <3>3. NoFinalYet'
        BY <3>1 DEF NoFinalYet, HasFinal
      <3>4. clock' <= clock'
        BY <3>1, TimeAssumption DEF Dates, UsPerSec
      <3>5. Timers'
        BY <2>2, <3>1, <3>4 DEF Timers
      <3> QED  BY <3>2, <3>3, <3>5 DEF CallInv
    <2>3. CASE readChar(t, Dates)
      BY <2>2, <2>3 DEF readChar
    <2>4. CASE readString(FinalChar, m, t, Dates)
      BY <2>2, <2>4 DEF readString, readStringNoTimeOut
    <2>5. CASE readBytes(m, t, Dates)
      BY <2>2, <2>5 DEF readBytes
    <2> QED  BY <2>1, <2>3, <2>4, <2>5
  <1>2. CASE OpenPort \/ ClosePort \/ Flush \/ WriteOrAsk \/ Receive
    <2>1. rd' = rd /\ clock' = clock /\ setBack' = setBack
      BY <1>2 DEF OpenPort, openDevice, ClosePort, closeDevice, Flush, flushReceiver, WriteOrAsk,
                  available, writeChar, writeString, writeBytes, Write, Receive, Arrive
    <2>2. clock <= clock'
      BY <2>1, <1>t
    <2> QED  BY <2>1, <2>2, <1>k, <1>t
  <1>3. CASE Step \/ DeviceError
    BY <1>3, StepCall DEF Step, DeviceError
  <1>4. CASE TimePasses
    <2>1. rd' = rd /\ clock' = clock + 1 /\ setBack' = setBack
      BY <1>4 DEF TimePasses, Tick
    <2>2. clock <= clock' /\ clock' \in Int
      BY <2>1, <1>t
    <2> QED  BY <2>1, <2>2, <1>k
  <1>5. CASE ClockSetBack
    <2>1. rd' = rd /\ setBack' = TRUE
      BY <1>5 DEF ClockSetBack, SetClockBack
    <2>2. clock' \in Int
      BY <1>5, <1>t, BenchAssumption DEF ClockSetBack, SetClockBack
    <2> QED  BY <2>1, <2>2, <1>k
  <1>6. CASE UNCHANGED vars
    <2>1. rd' = rd /\ clock' = clock /\ setBack' = setBack
      BY <1>6 DEF vars, serialVars
    <2>2. clock <= clock'
      BY <2>1, <1>t
    <2> QED  BY <2>1, <2>2, <1>k, <1>t
  <1> QED  BY <1>1, <1>2, <1>3, <1>4, <1>5, <1>6 DEF Next

\* The history of the call in progress, in every behaviour.
LEMMA CallInvHolds == Spec => []CallInv
  <1>1. Init => CallInv
    <2>1. Init => rd.pc = "idle"
      BY DEF Init, serialib, NoRead
    <2> QED  BY <2>1, IdleInv
  <1> QED  BY <1>1, CallInvStep, StreamInvHolds, PTL DEF Spec

\* The milliseconds of a whole number of seconds and a rest, in unsigned long,
\* never exceed the time that passed.
LEMMA Milliseconds ==
    ASSUME NEW k \in Int, NEW u \in 0 .. UsPerSec - 1, UsPerSec * k + u >= 0
    PROVE  /\ (k * MsPerSec + u \div UsPerMs) % ULongMod \in Nat
           /\ ((k * MsPerSec + u \div UsPerMs) % ULongMod) * UsPerMs <= UsPerSec * k + u
  <1>m. /\ UsPerMs \in Nat \ {0} /\ MsPerSec \in Nat \ {0} /\ ULongMod \in Nat \ {0}
        /\ UsPerSec = UsPerMs * MsPerSec /\ UsPerSec \in Nat \ {0}
    BY TimeAssumption DEF UsPerSec
  <1> DEFINE q == u \div UsPerMs
             x == k * MsPerSec + q
             y == x % ULongMod
  <1>1. q \in Nat /\ q * UsPerMs <= u
    <2>1. \A n \in Nat, d \in Nat \ {0} : n \div d \in Nat /\ (n \div d) * d <= n
      OBVIOUS
    <2>2. u \in Nat
      BY <1>m
    <2> QED  BY <2>1, <2>2, <1>m, Zenon
  <1> HIDE DEF q
  <1>2. k \in Nat
    <2>1. CASE k <= -1
      <3>1. UsPerSec * k <= -UsPerSec /\ UsPerSec * k \in Int
        BY <2>1, <1>m
      <3> QED  BY <3>1, <1>m
    <2> QED  BY <2>1
  <1>3. x \in Nat
    <2>1. k * MsPerSec \in Nat
      BY <1>2, <1>m
    <2> QED  BY <2>1, <1>1
  <1>4. x * UsPerMs <= UsPerSec * k + u
    <2>1. (k * MsPerSec) * UsPerMs = UsPerSec * k /\ k * MsPerSec \in Int
      BY <1>2, <1>m
    <2>2. x * UsPerMs = (k * MsPerSec) * UsPerMs + q * UsPerMs
      BY <2>1, <1>1, <1>m
    <2>3. UsPerSec * k \in Int /\ q * UsPerMs \in Int
      BY <1>1, <1>2, <1>m
    <2> HIDE DEF x
    <2> QED  BY <2>1, <2>2, <2>3, <1>1, <1>m
  <1> HIDE DEF x
  <1>5. y \in Nat /\ y <= x
    BY <1>3, <1>m
  <1> HIDE DEF y
  <1>6. y * UsPerMs <= x * UsPerMs /\ y * UsPerMs \in Int /\ x * UsPerMs \in Int
    <2>1. x - y \in Nat
      BY <1>3, <1>5
    <2>2. (x - y) * UsPerMs \in Nat
      BY <2>1, <1>m
    <2>3. (x - y) * UsPerMs = x * UsPerMs - y * UsPerMs /\ y * UsPerMs \in Int /\ x * UsPerMs \in Int
      BY <1>3, <1>5, <1>m
    <2> QED  BY <2>2, <2>3
  <1>7. UsPerSec * k + u \in Int
    BY <1>2, <1>m
  <1>8. y * UsPerMs <= UsPerSec * k + u
    BY <1>4, <1>6, <1>7
  <1> QED  BY <1>5, <1>8 DEF x, y, q

\* timeOut::elapsedTime_ms never runs ahead of a clock that was not set back:
\* the borrow from the seconds and the wrap of unsigned long included.
LEMMA Elapsed ==
    ASSUME NEW t \in Int, clock \in Int, t <= clock
    PROVE  elapsedTime_ms(t) \in Nat /\ elapsedTime_ms(t) * UsPerMs <= clock - t
  <1>m. UsPerSec \in Nat \ {0}
    BY TimeAssumption DEF UsPerSec
  <1>1. \A n \in Int : /\ tv_sec(n) \in Int /\ tv_usec(n) \in 0 .. UsPerSec - 1
                       /\ n = UsPerSec * tv_sec(n) + tv_usec(n)
    BY <1>m DEF tv_sec, tv_usec
  <1> DEFINE sec == tv_sec(clock) - tv_sec(t)
             usec == tv_usec(clock) - tv_usec(t)
  <1>c. /\ tv_sec(clock) \in Int /\ tv_usec(clock) \in 0 .. UsPerSec - 1
        /\ clock = UsPerSec * tv_sec(clock) + tv_usec(clock)
        /\ tv_sec(t) \in Int /\ tv_usec(t) \in 0 .. UsPerSec - 1
        /\ t = UsPerSec * tv_sec(t) + tv_usec(t)
    BY <1>1, Zenon
  <1>2. sec \in Int /\ usec \in Int /\ usec < UsPerSec /\ usec > -UsPerSec
    BY <1>c, <1>m
  <1>3. clock - t = UsPerSec * sec + usec
    <2>1. UsPerSec * sec = UsPerSec * tv_sec(clock) - UsPerSec * tv_sec(t)
      BY <1>c, <1>m
    <2>2. UsPerSec * tv_sec(clock) \in Int /\ UsPerSec * tv_sec(t) \in Int
      BY <1>c, <1>m
    <2>3. tv_usec(clock) \in Int /\ tv_usec(t) \in Int
      BY <1>c, <1>m
    <2> DEFINE i == UsPerSec * tv_sec(clock)
               j == UsPerSec * tv_sec(t)
               x == tv_usec(clock)
               y == tv_usec(t)
    <2>4. clock = i + x /\ t = j + y /\ i \in Int /\ j \in Int /\ x \in Int /\ y \in Int
      BY <1>c, <2>2, <2>3, Zenon
    <2> HIDE DEF i, j, x, y
    <2>5. clock - t = (i - j) + (x - y)
      BY <2>4
    <2>6. clock - t = (UsPerSec * tv_sec(clock) - UsPerSec * tv_sec(t)) + (tv_usec(clock) - tv_usec(t))
      BY <2>5, Zenon DEF i, j, x, y
    <2> QED  BY <2>1, <2>6, Zenon
  <1>4. elapsedTime_ms(t) =
          (IF usec < 0
           THEN (sec - 1) * MsPerSec + (usec + UsPerSec) \div UsPerMs
           ELSE sec * MsPerSec + usec \div UsPerMs) % ULongMod
    BY DEF elapsedTime_ms
  <1> HIDE DEF sec, usec
  <1>5. clock - t >= 0
    OBVIOUS
  <1>6. CASE usec < 0
    <2> DEFINE k == sec - 1
               u == usec + UsPerSec
    <2>1. k \in Int /\ u \in 0 .. UsPerSec - 1
      BY <1>2, <1>6, <1>m
    <2>2. UsPerSec * k + u = clock - t
      <3>1. UsPerSec * (sec - 1) = UsPerSec * sec - UsPerSec /\ UsPerSec * sec \in Int
        BY <1>2, <1>m
      <3> QED  BY <3>1, <1>2, <1>3, <1>m
    <2>3. elapsedTime_ms(t) = (k * MsPerSec + u \div UsPerMs) % ULongMod
      BY <1>4, <1>6
    <2> HIDE DEF k, u
    <2> QED  BY <2>1, <2>2, <2>3, <1>5, Milliseconds
  <1>7. CASE ~(usec < 0)
    <2>1. usec \in 0 .. UsPerSec - 1
      BY <1>2, <1>7, <1>m
    <2>2. elapsedTime_ms(t) = (sec * MsPerSec + usec \div UsPerMs) % ULongMod
      BY <1>4, <1>7
    <2> QED  BY <2>1, <2>2, <1>2, <1>3, <1>5, Milliseconds
  <1> QED  BY <1>6, <1>7

\* The steps a call can return with.
LEMMA ReturnSteps ==
    ASSUME StreamInv, CallInv, [Next]_vars, Returning
    PROVE  \/ /\ ret' = -2 /\ rd'.zero = 0 /\ (Faulty \/ ~isDeviceOpen) /\ rd'.buf = rd.buf
              /\ rd.fn \in StringFns => Len(rd.buf) < rd.maxNbBytes /\ ~HasFinal(rd.buf)
           \/ /\ rd.fn \in StringFns /\ ret' = -3 /\ rd'.zero = 0
              /\ rd'.buf = rd.buf /\ Len(rd.buf) = rd.maxNbBytes /\ ~HasFinal(rd.buf)
           \/ /\ rd.fn = "readChar" /\ ret' = 0 /\ rd'.zero = 0 /\ rd'.buf = rd.buf /\ rd.buf = <<>>
              /\ rd.charTimeOut # 0 /\ ~(elapsedTime_ms(rd.charTimer) < rd.charTimeOut)
           \/ /\ rd.fn = "readChar" /\ ret' = 1 /\ rd'.zero = 0 /\ Len(rd'.buf) = 1
           \/ /\ rd.fn \in StringFns /\ rd'.zero = 1 /\ ret' = Len(rd.buf) + 1 /\ ~HasFinal(rd.buf)
              /\ \E c \in Char : c = rd.finalChar /\ rd'.buf = Append(rd.buf, c)
           \/ /\ rd.fn = "readString" /\ ret' = 0 /\ rd'.zero = 1 /\ rd'.buf = rd.buf /\ ~HasFinal(rd.buf)
              /\ elapsedTime_ms(rd.timer) > rd.timeOut_ms
           \/ /\ rd.fn = "readBytes" /\ rd'.zero = 0 /\ ret' = Len(rd'.buf) /\ rd'.buf = rd.buf
              /\ rd.timeOut_ms # 0 /\ ~(elapsedTime_ms(rd.timer) < rd.timeOut_ms)
           \/ rd.fn = "readBytes" /\ rd'.zero = 0 /\ ret' = Len(rd'.buf) /\ ret' = rd.maxNbBytes
  <1>t. TypeOK /\ rd \in ReadRecord /\ rx \in Seq(Char)
    BY DEF StreamInv, TypeOK, ReadRecord
  <1>b. rd.buf \in Seq(Char) /\ rd.fn \in ReadFns /\ rd.maxNbBytes \in Nat
    BY <1>t DEF ReadRecord
  <1>l. Len(rd.buf) \in Nat /\ Len(rx) \in Nat /\ Len(rd.buf) <= rd.maxNbBytes
    BY <1>t, <1>b, LenProperties DEF StreamInv, StreamIntact
  <1>w. Where /\ NoFinalYet /\ Timers
    BY DEF CallInv
  <1>p. rd.pc # "idle" /\ rd'.pc = "idle" /\ rd' # rd
    BY DEF Returning
  <1>r. \A b \in Seq(Char), z \in {0, 1} : Returned(b, z).buf = b /\ Returned(b, z).zero = z
    BY <1>t, ReturnedType
  <1>g. \A p : [rd EXCEPT !.pc = p].pc = p
    BY <1>t, Fields
  <1>s. Step \/ DeviceError
    <2>1. CASE CallRead
      BY <2>1, <1>p DEF CallRead, readChar, readString, readStringNoTimeOut, readBytes, Call
    <2>2. CASE OpenPort \/ ClosePort \/ Flush \/ WriteOrAsk \/ Receive \/ TimePasses \/ ClockSetBack
      BY <2>2, <1>p DEF OpenPort, openDevice, ClosePort, closeDevice, Flush, flushReceiver,
                  WriteOrAsk, available, writeChar, writeString, writeBytes, Write, Receive, Arrive,
                  TimePasses, Tick, ClockSetBack, SetClockBack
    <2>3. CASE UNCHANGED vars
      BY <2>3, <1>p DEF vars, serialVars
    <2> QED  BY <2>1, <2>2, <2>3 DEF Next
  <1>1. CASE DeviceError \/ (~isDeviceOpen /\ ReadError)
    <2>1. /\ rd.pc \in {"read", "readBytes"} /\ ret' = -2 /\ rd' = Returned(rd.buf, 0)
          /\ Faulty \/ ~isDeviceOpen
      BY <1>1 DEF DeviceError, ReadError, Return
    <2>2. rd'.buf = rd.buf /\ rd'.zero = 0
      BY <2>1, <1>r, <1>b
    <2>3. rd.fn \in StringFns => rd.pc = "read"
      BY <2>1, <1>w DEF Where, StringFns
    <2>4. rd.fn \in StringFns => Len(rd.buf) < rd.maxNbBytes /\ ~HasFinal(rd.buf)
      BY <2>3, <1>w, <1>p DEF NoFinalYet, StreamInv, Room
    <2> QED  BY <2>1, <2>2, <2>4
  <1>2. CASE BufferFull
    <2>1. rd.pc = "loop" /\ rd.fn \in StringFns
      BY <1>2, <1>w DEF BufferFull, Where
    <2>2. ret' = -3 /\ rd'.zero = 0 /\ rd'.buf = rd.buf /\ Len(rd.buf) >= rd.maxNbBytes
      BY <1>2, <1>r, <1>b DEF BufferFull, Return
    <2>3. Len(rd.buf) = rd.maxNbBytes
      BY <2>2, <1>l, <1>b
    <2> QED  BY <2>1, <2>2, <2>3, <1>w, <1>p DEF NoFinalYet
  <1>3. CASE NextChar
    <2>1. rd'.pc \in {"char", "late"}
      <3>1. CASE rd' = [rd EXCEPT !.pc = "late"]
        BY <3>1, <1>g
      <3>2. ASSUME NEW n, rd' = [rd EXCEPT !.pc = "char", !.charTimer = initTimer, !.charTimeOut = n]
            PROVE  rd'.pc = "char"
        BY <3>2, <1>t, Fields
      <3> QED  BY <1>3, <3>1, <3>2 DEF NextChar
    <2> QED  BY <2>1, <1>p
  <1>4. CASE WaitChar
    <2>1. /\ rd.fn = "readChar" /\ ret' = 0 /\ rd' = Returned(rd.buf, 0)
          /\ rd.charTimeOut # 0 /\ ~(elapsedTime_ms(rd.charTimer) < rd.charTimeOut)
      BY <1>4, <1>g, <1>p DEF WaitChar, Goto, Return
    <2>2. rd.buf = <<>>
      BY <2>1, <1>w, <1>p DEF Timers
    <2>3. rd'.buf = rd.buf /\ rd'.zero = 0
      BY <2>1, <1>r, <1>b
    <2> QED  BY <2>1, <2>2, <2>3
  <1>5. CASE GotChar
    <2> DEFINE b == Append(rd.buf, Head(rx))
    <2>1. rd.pc = "read" /\ rx # <<>> /\ rd.fn # "readBytes"
      BY <1>5, <1>w DEF GotChar, Where
    <2>2. b \in Seq(Char) /\ Head(rx) \in Char /\ Len(b) = Len(rd.buf) + 1
      BY <2>1, <1>t, <1>b, MoveHead, HeadTailProperties
    <2>3. CASE ~(rd.fn = "readChar" \/ Head(rx) = rd.finalChar)
      <3> DEFINE p == IF rd.fn = "readString" THEN "late" ELSE "loop"
      <3>1. rd' = [rd EXCEPT !.buf = b, !.pc = p] /\ p # "idle"
        BY <1>5, <2>3 DEF GotChar
      <3> HIDE DEF b, p
      <3>2. rd'.pc = p
        BY <3>1, <1>t, Fields
      <3> QED  BY <3>1, <3>2, <1>p
    <2>4. CASE rd.fn = "readChar" \/ Head(rx) = rd.finalChar
      <3>1. rd' = Returned(b, IF rd.fn = "readChar" THEN 0 ELSE 1) /\ ret' = Len(b)
        BY <1>5, <2>4 DEF GotChar
      <3>2. rd'.buf = b /\ rd'.zero = IF rd.fn = "readChar" THEN 0 ELSE 1
        BY <3>1, <2>2, <1>r
      <3>3. CASE rd.fn = "readChar"
        <4>1. rd.buf = <<>>
          BY <3>3, <1>w, <1>p DEF Timers
        <4>2. Len(rd.buf) = 0
          BY <4>1, EmptySeq
        <4> HIDE DEF b
        <4> QED  BY <3>1, <3>2, <3>3, <4>2, <2>2
      <3>4. CASE rd.fn # "readChar"
        <4>1. rd.fn \in StringFns /\ Head(rx) = rd.finalChar
          BY <2>1, <2>4, <3>4, <1>b DEF StringFns, ReadFns
        <4>2. ~HasFinal(rd.buf)
          BY <4>1, <1>w, <1>p DEF NoFinalYet
        <4>3. rd'.buf = Append(rd.buf, rd.finalChar) /\ rd'.zero = 1
          BY <3>2, <3>4, <4>1
        <4>4. ret' = Len(rd'.buf) /\ ret' = Len(rd.buf) + 1
          BY <3>1, <3>2, <2>2
        <4>5. \E c \in Char : c = rd.finalChar /\ rd'.buf = Append(rd.buf, c)
          BY <4>1, <4>3, <2>2
        <4> QED  BY <4>1, <4>2, <4>3, <4>4, <4>5
      <3> QED  BY <3>3, <3>4
    <2> QED  BY <2>3, <2>4
  <1>6. CASE NoChar
    BY <1>6, <1>g, <1>p DEF NoChar, Goto
  <1>7. CASE Late
    <2>1. rd.fn = "readString"
      BY <1>7, <1>w DEF Late, Where
    <2>2. ret' = 0 /\ rd' = Returned(rd.buf, 1) /\ elapsedTime_ms(rd.timer) > rd.timeOut_ms
      BY <1>7, <1>g, <1>p DEF Late, Goto, Return
    <2>3. ~HasFinal(rd.buf)
      BY <2>1, <1>w, <1>p DEF NoFinalYet, StringFns
    <2> QED  BY <2>1, <2>2, <2>3, <1>r, <1>b
  <1>8. CASE WaitBytes
    <2>1. rd.fn = "readBytes"
      BY <1>8, <1>w DEF WaitBytes, Where
    <2>2. /\ ret' = Len(rd.buf) /\ rd' = Returned(rd.buf, 0)
          /\ rd.timeOut_ms # 0 /\ ~(elapsedTime_ms(rd.timer) < rd.timeOut_ms)
      BY <1>8, <1>g, <1>p DEF WaitBytes, Goto, Return
    <2> QED  BY <2>1, <2>2, <1>r, <1>b
  <1>9. CASE GotBytes
    <2>1. rd.fn = "readBytes"
      BY <1>9, <1>w DEF GotBytes, Where
    <2> DEFINE wanted == rd.maxNbBytes - Len(rd.buf)
               n == IF Len(rx) < wanted THEN Len(rx) ELSE wanted
               b == rd.buf \o SubSeq(rx, 1, n)
               full == n > 0 /\ n = wanted
    <2>2. full => rd' = Returned(b, 0) /\ ret' = Len(b)
      BY <1>9 DEF GotBytes
    <2>3. ~full => rd' = [rd EXCEPT !.buf = b, !.pc = "bytes"]
      BY <1>9 DEF GotBytes
    <2>4. n \in 0 .. Len(rx)
      BY <1>b, <1>l
    <2>5. full => n = rd.maxNbBytes - Len(rd.buf)
      OBVIOUS
    <2> HIDE DEF n, full
    <2>6. b \in Seq(Char) /\ Len(b) = Len(rd.buf) + n
      BY <2>4, <1>t, <1>b, MovePrefix, Zenon
    <2> HIDE DEF b
    <2>7. full
      <3>1. ~full => rd'.pc = "bytes"
        BY <2>3, <1>t DEF ReadRecord
      <3> QED  BY <3>1, <1>p
    <2>8. rd'.buf = b /\ rd'.zero = 0 /\ ret' = Len(b)
      BY <2>2, <2>6, <2>7, <1>r
    <2>9. Len(b) = rd.maxNbBytes
      BY <2>5, <2>6, <2>7, <1>b, <1>l
    <2> QED  BY <2>1, <2>8, <2>9
  <1> QED  BY <1>s, <1>1, <1>2, <1>3, <1>4, <1>5, <1>6, <1>7, <1>8, <1>9 DEF Step, ReadStep

\* The final character of a string that ends with the first one it met.
LEMMA FinalAtEnd ==
    ASSUME NEW b \in Seq(Char), NEW c \in Char, c = rd.finalChar, ~HasFinal(b)
    PROVE  LET s == Append(b, c)
               n == Len(b) + 1
           IN  /\ Len(s) = n /\ s[n] = rd.finalChar /\ HasFinal(s)
               /\ ~HasFinal(SubSeq(s, 1, n - 1))
  <1> DEFINE s == Append(b, c)
             n == Len(b) + 1
  <1>1. /\ Len(b) \in Nat /\ DOMAIN b = 1 .. Len(b) /\ s \in Seq(Char) /\ Len(s) = n /\ DOMAIN s = 1 .. n
        /\ \A i \in 1 .. Len(b) : s[i] = b[i]
        /\ s[n] = c
    BY AppendProperties, LenProperties
  <1> HIDE DEF s
  <1>2. n \in DOMAIN s /\ n - 1 = Len(b)
    BY <1>1
  <1>3. /\ DOMAIN SubSeq(s, 1, Len(b)) = 1 .. Len(b)
        /\ \A i \in 1 .. Len(b) : SubSeq(s, 1, Len(b))[i] = s[i]
    BY <1>1
  <1>4. ~HasFinal(SubSeq(s, 1, Len(b)))
    BY <1>1, <1>3 DEF HasFinal
  <1>5. HasFinal(s)
    BY <1>1, <1>2 DEF HasFinal
  <1> QED  BY <1>1, <1>2, <1>4, <1>5 DEF s

\* The result codes of readChar, readString, readStringNoTimeOut and readBytes
\* mean what their comments say, for every character set, limit, timeout and
\* order of arrivals, errors and clock jumps.
THEOREM ResultMeaningHolds == Spec => ResultMeaning
  <1> DEFINE Codes ==
        LET buf == rd'.buf
            ofString == rd.fn \in {"readString", "readStringNoTimeOut"}
        IN  /\ rd'.zero = IF ofString /\ ret' >= 0 THEN 1 ELSE 0
            /\ IF ret' = -2
               THEN /\ Faulty \/ ~isDeviceOpen
                    /\ ofString => Len(buf) < rd.maxNbBytes /\ ~HasFinal(buf)
               ELSE IF ~ofString THEN ret' = Len(buf)
               ELSE CASE ret' = -3 -> Len(buf) = rd.maxNbBytes /\ ~HasFinal(buf)
                      [] ret' = 0 -> rd.fn = "readString" /\ ~HasFinal(buf)
                      [] OTHER -> /\ ret' = Len(buf)
                                  /\ buf[ret'] = rd.finalChar
                                  /\ ~HasFinal(SubSeq(buf, 1, ret' - 1))
  <1>1. StreamInv /\ CallInv /\ [Next]_vars => [Returning => Codes]_vars
    <2> SUFFICES ASSUME StreamInv, CallInv, [Next]_vars, Returning PROVE Codes
      OBVIOUS
    <2>b. rd.buf \in Seq(Char) /\ Len(rd.buf) \in Nat /\ Len(<<>>) = 0
      BY LenProperties, EmptySeq DEF StreamInv, TypeOK
    <2>f. StringFns = {"readString", "readStringNoTimeOut"}
      BY DEF StringFns
    <2>1. CASE /\ ret' = -2 /\ rd'.zero = 0 /\ (Faulty \/ ~isDeviceOpen) /\ rd'.buf = rd.buf
               /\ rd.fn \in StringFns => Len(rd.buf) < rd.maxNbBytes /\ ~HasFinal(rd.buf)
      BY <2>1, <2>f
    <2>2. CASE /\ rd.fn \in StringFns /\ ret' = -3 /\ rd'.zero = 0
               /\ rd'.buf = rd.buf /\ Len(rd.buf) = rd.maxNbBytes /\ ~HasFinal(rd.buf)
      BY <2>2, <2>f
    <2>3. CASE rd.fn = "readChar" /\ ret' = 0 /\ rd'.zero = 0 /\ rd'.buf = <<>>
      BY <2>3, <2>b
    <2>4. CASE rd.fn = "readChar" /\ ret' = 1 /\ rd'.zero = 0 /\ Len(rd'.buf) = 1
      BY <2>4
    <2>5. CASE /\ rd.fn \in StringFns /\ rd'.zero = 1 /\ ret' = Len(rd.buf) + 1 /\ ~HasFinal(rd.buf)
               /\ \E c \in Char : c = rd.finalChar /\ rd'.buf = Append(rd.buf, c)
      <3> DEFINE n == Len(rd.buf) + 1
      <3>1. /\ Len(rd'.buf) = n /\ rd'.buf[n] = rd.finalChar
            /\ ~HasFinal(SubSeq(rd'.buf, 1, n - 1))
        BY <2>5, <2>b, FinalAtEnd
      <3>2. ret' = n /\ n >= 0 /\ n # -2 /\ n # -3 /\ n # 0
        BY <2>5, <2>b
      <3> HIDE DEF n
      <3> QED  BY <3>1, <3>2, <2>5, <2>f
    <2>6. CASE rd.fn = "readString" /\ ret' = 0 /\ rd'.zero = 1 /\ rd'.buf = rd.buf /\ ~HasFinal(rd.buf)
      BY <2>6
    <2>7. CASE rd.fn = "readBytes" /\ rd'.zero = 0 /\ ret' = Len(rd'.buf)
      BY <2>7
    <2> HIDE DEF Codes
    <2> QED  BY <2>1, <2>2, <2>3, <2>4, <2>5, <2>6, <2>7, ReturnSteps
  <1> DEFINE Meaning ==
        LET buf == rd'.buf
            ofString == rd.fn \in {"readString", "readStringNoTimeOut"}
        IN  /\ rd'.zero = IF ofString /\ ret' >= 0 THEN 1 ELSE 0
            /\ Overrun' <=> ofString /\ ret' >= 0 /\ Len(buf) = rd'.maxNbBytes
            /\ IF ret' = -2
               THEN /\ Faulty \/ ~isDeviceOpen
                    /\ ofString => Len(buf) < rd.maxNbBytes /\ ~HasFinal(buf)
               ELSE IF ~ofString THEN ret' = Len(buf)
               ELSE CASE ret' = -3 -> Len(buf) = rd.maxNbBytes /\ ~HasFinal(buf)
                      [] ret' = 0 -> rd.fn = "readString" /\ ~HasFinal(buf)
                      [] OTHER -> /\ ret' = Len(buf)
                                  /\ buf[ret'] = rd.finalChar
                                  /\ ~HasFinal(SubSeq(buf, 1, ret' - 1))
  <1>2. StreamInv /\ StreamInv' /\ CallInv /\ [Next]_vars => [Returning => Meaning]_vars
    <2> SUFFICES ASSUME StreamInv, StreamInv', CallInv, [Next]_vars, Returning PROVE Meaning
      OBVIOUS
    <2>1. Codes
      BY <1>1 DEF Returning, vars, serialVars
    <2>2. rd'.maxNbBytes \in Nat /\ Len(rd'.buf) \in Nat /\ Len(rd'.buf) <= rd'.maxNbBytes
      BY LenProperties DEF StreamInv, TypeOK, StreamIntact
    <2> DEFINE ended == rd.fn \in {"readString", "readStringNoTimeOut"} /\ ret' >= 0
    <2>3. CASE ended
      <3>1. rd'.zero = 1
        BY <2>1, <2>3
      <3>2. Overrun' <=> Len(rd'.buf) = rd'.maxNbBytes
        BY <2>2, <3>1 DEF Overrun
      <3> QED  BY <2>1, <2>3, <3>2
    <2>4. CASE ~ended
      <3>1. rd'.zero = 0
        BY <2>1, <2>4
      <3>2. ~Overrun'
        BY <2>2, <3>1 DEF Overrun
      <3> QED  BY <2>1, <2>4, <3>2
    <2> QED  BY <2>3, <2>4
  <1> QED  BY <1>2, StreamInvHolds, CallInvHolds, PTL DEF Spec, ResultMeaning

\* A number of milliseconds that have passed, in the unit of the clock.
LEMMA Waited ==
    ASSUME NEW d \in Int, NEW e \in Nat, NEW n \in Nat, e * UsPerMs <= d, n <= e
    PROVE  d >= n * UsPerMs
  <1>1. UsPerMs \in Nat
    BY TimeAssumption
  <1>2. (e - n) * UsPerMs \in Nat
    <2>1. e - n \in Nat
      OBVIOUS
    <2> QED  BY <1>1, <2>1
  <1>3. (e - n) * UsPerMs = e * UsPerMs - n * UsPerMs /\ e * UsPerMs \in Int /\ n * UsPerMs \in Int
    BY <1>1
  <1> QED  BY <1>2, <1>3

\* A call that gives up has really waited: for every resolution of the clock,
\* width of unsigned long and timeout, and whenever the call was made within
\* the second, unless the clock was set back.
THEOREM TimeoutHonestHolds == Spec => TimeoutHonest
  <1> DEFINE Honest ==
        CASE rd.fn = "readString" /\ ~HasFinal(rd'.buf) ->
               clock - rd.timer >= (rd.timeOut_ms + 1) * UsPerMs
          [] rd.fn \in {"readChar", "readBytes"} /\ ret' < rd.maxNbBytes ->
               rd.timeOut_ms > 0 /\ clock - rd.timer >= rd.timeOut_ms * UsPerMs
          [] OTHER -> TRUE
  <1>1. StreamInv /\ CallInv /\ [Next]_vars
          => [Returning /\ ~setBack /\ ret' >= 0 => Honest]_vars
    <2> SUFFICES ASSUME StreamInv, CallInv, [Next]_vars,
                        Returning, ~setBack, ret' >= 0
                 PROVE  Honest
      OBVIOUS
    <2>t. /\ clock \in Int /\ rd.timer \in Int /\ rd.timeOut_ms \in Nat /\ rd.buf \in Seq(Char)
          /\ rd.maxNbBytes \in Nat
      BY DEF StreamInv, TypeOK
    <2>p. rd.timer <= clock
      BY DEF CallInv, Timers, Returning
    <2> DEFINE e == elapsedTime_ms(rd.timer)
    <2>e. e \in Nat /\ e * UsPerMs <= clock - rd.timer /\ clock - rd.timer \in Int
      BY <2>t, <2>p, Elapsed
    <2> HIDE DEF e
    <2>c. rd.fn = "readChar" => /\ rd.maxNbBytes = 1 /\ rd.charTimer = rd.timer
                                /\ rd.charTimeOut = rd.timeOut_ms
      BY DEF CallInv, Timers, Returning
    <2>w. rd.timeOut_ms # 0 /\ ~(e < rd.timeOut_ms)
            => rd.timeOut_ms > 0 /\ clock - rd.timer >= rd.timeOut_ms * UsPerMs
      <3>1. ~(e < rd.timeOut_ms) => rd.timeOut_ms <= e
        BY <2>t, <2>e
      <3> QED  BY <3>1, <2>t, <2>e, Waited
    <2>1. CASE ret' \in {-2, -3}
      BY <2>1
    <2>2. CASE /\ rd.fn = "readChar"
               /\ rd.charTimeOut # 0 /\ ~(elapsedTime_ms(rd.charTimer) < rd.charTimeOut)
      BY <2>2, <2>c, <2>w DEF e
    <2>3. CASE rd.fn = "readChar" /\ ret' = 1
      BY <2>3, <2>c
    <2>4. CASE /\ rd.fn \in StringFns /\ ~HasFinal(rd.buf)
               /\ \E c \in Char : c = rd.finalChar /\ rd'.buf = Append(rd.buf, c)
      <3>1. HasFinal(rd'.buf)
        BY <2>4, <2>t, FinalAtEnd
      <3>2. rd.fn \notin {"readChar", "readBytes"}
        BY <2>4 DEF StringFns
      <3> QED  BY <3>1, <3>2
    <2>5. CASE rd.fn = "readString" /\ elapsedTime_ms(rd.timer) > rd.timeOut_ms
      <3>1. rd.timeOut_ms + 1 <= e /\ rd.timeOut_ms + 1 \in Nat
        BY <2>5, <2>t, <2>e DEF e
      <3>2. clock - rd.timer >= (rd.timeOut_ms + 1) * UsPerMs
        BY <3>1, <2>e, Waited, Zenon
      <3> QED  BY <2>5, <3>2
    <2>6. CASE /\ rd.fn = "readBytes"
               /\ rd.timeOut_ms # 0 /\ ~(elapsedTime_ms(rd.timer) < rd.timeOut_ms)
      BY <2>6, <2>w DEF e
    <2>7. CASE rd.fn = "readBytes" /\ ret' = rd.maxNbBytes
      <3>1. ~(ret' < rd.maxNbBytes)
        BY <2>7, <2>t
      <3> QED  BY <2>7, <3>1
    <2> HIDE DEF Honest
    <2> QED  BY <2>1, <2>2, <2>3, <2>4, <2>5, <2>6, <2>7, ReturnSteps
  <1> QED  BY <1>1, StreamInvHolds, CallInvHolds, PTL DEF Spec, TimeoutHonest
=============================================================================
