------------------------------ MODULE Serialib ------------------------------
(***************************************************************************)
(* The serial port library of vbuddy.cpp (class serialib and class         *)
(* timeOut, the Linux branches): one port, the operating system's receive  *)
(* buffer behind it, and the one thread that calls the library.  The       *)
(* reading functions are loops around a non-blocking read(), so each is a  *)
(* small state machine in the record rd, one action per step between two   *)
(* looks at the clock or at the port.  Characters arrive and time passes   *)
(* between any two of them.                                                *)
(***************************************************************************)
EXTENDS Integers, Sequences

CONSTANTS
    Char,        \* the characters on the line
    UsPerMs,     \* resolution of gettimeofday: 1000 in the program
    MsPerSec,    \* 1000 in the program
    ULongMod     \* 2 ^ width of unsigned long

ASSUME TimeAssumption ==
    /\ UsPerMs \in Nat \ {0}
    /\ MsPerSec \in Nat \ {0}
    /\ ULongMod \in Nat \ {0}

VARIABLES
    fd,      \* the descriptor, Closed when there is none
    rx,      \* characters received by the driver and not yet read
    clock,   \* gettimeofday, in units of 1 / UsPerMs of a millisecond
    rd,      \* the read call in progress
    ret      \* what the last library call returned

serialVars == <<fd, rx, clock, rd, ret>>

Closed == -1
Opened == 0
UsPerSec == UsPerMs * MsPerSec

ReadFns == {"readChar", "readString", "readStringNoTimeOut", "readBytes"}

\* Where a call is: no call; head of a string loop; head of readChar's loop
\* and its read(); the string loop's look at the timeout; head of readBytes'
\* loop and its read().
ReadPcs == {"idle", "loop", "char", "read", "late", "bytes", "readBytes"}

NoRead == [fn |-> "readChar", pc |-> "idle", buf |-> <<>>, zero |-> 0,
           finalChar |-> CHOOSE c \in Char : TRUE, maxNbBytes |-> 0, timeOut_ms |-> 0,
           timer |-> 0, charTimer |-> 0, charTimeOut |-> 0]

\* serialib::serialib
serialib ==
    /\ fd = Closed
    /\ rx = <<>>
    /\ clock = 0
    /\ rd = NoRead
    /\ ret = 0

-----------------------------------------------------------------------------
(* class timeOut                                                           *)

\* struct timeval
tv_sec(t) == t \div UsPerSec
tv_usec(t) == t % UsPerSec

\* initTimer stores the time of day; a timer is that number.
initTimer == clock

\* Mutant: the borrow from the seconds is forgotten.
elapsedTime_ms_NoBorrow(previousTime) ==
    LET sec == tv_sec(clock) - tv_sec(previousTime)
        usec == tv_usec(clock) - tv_usec(previousTime)
    IN  (sec * MsPerSec + (IF usec < 0 THEN usec + UsPerSec ELSE usec) \div UsPerMs) % ULongMod

\* The difference of two timevals, borrowing a second when the microseconds
\* go negative; int converted to unsigned long, so a clock that was set back
\* gives a huge number.
elapsedTime_ms(previousTime) ==
    LET sec == tv_sec(clock) - tv_sec(previousTime)
        usec == tv_usec(clock) - tv_usec(previousTime)
    IN  (IF usec < 0
         THEN (sec - 1) * MsPerSec + (usec + UsPerSec) \div UsPerMs
         ELSE sec * MsPerSec + usec \div UsPerMs) % ULongMod

-----------------------------------------------------------------------------
(* Opening, closing, writing                                               *)

SerialDataBits == {5, 6, 7, 8, 16}
SerialStopBits == {"1", "1.5", "2"}
SerialParity == {"none", "even", "odd", "mark", "space"}

\* The switches of openDevice after open() has succeeded, in their order.
openParameters(Bauds, Databits, Parity, Stopbits) ==
    IF Bauds \notin {9600, 19200, 38400, 57600, 115200} THEN -4
    ELSE IF Databits \notin {5, 6, 7, 8} THEN -7
    ELSE IF Stopbits \notin {"1", "2"} THEN -8
    ELSE IF Parity \notin {"none", "even", "odd"} THEN -9
    ELSE 1

\* The descriptor is kept when a parameter is refused.
openDevice(found, Bauds, Databits, Parity, Stopbits) ==
    /\ rd.pc = "idle"
    /\ fd' = IF found THEN Opened ELSE Closed
    /\ ret' = IF found THEN openParameters(Bauds, Databits, Parity, Stopbits) ELSE -2
    /\ rx' = <<>>
    /\ UNCHANGED <<clock, rd>>

isDeviceOpen == fd >= 0

\* close(fd): the driver forgets what it has received.
closeDevice ==
    /\ rd.pc = "idle"
    /\ fd' = Closed
    /\ rx' = <<>>
    /\ UNCHANGED <<clock, rd, ret>>

\* writeChar, writeString and writeBytes differ in how they measure their
\* argument: all of it is accepted by the driver, or the result is -1.
Write(sent) ==
    /\ rd.pc = "idle"
    /\ sent => isDeviceOpen
    /\ ret' = IF sent THEN 1 ELSE -1
    /\ UNCHANGED <<fd, rx, clock, rd>>

writeChar(sent) == Write(sent)
writeString(sent) == Write(sent)
writeBytes(sent) == Write(sent)

flushReceiver ==
    /\ rd.pc = "idle"
    /\ rx' = <<>>
    /\ ret' = 1
    /\ UNCHANGED <<fd, clock, rd>>

available ==
    /\ rd.pc = "idle"
    /\ ret' = Len(rx)
    /\ UNCHANGED <<fd, rx, clock, rd>>

-----------------------------------------------------------------------------
(* Reading                                                                 *)

\* A call of one of the reading functions.  Its timers start now; the date
\* they start at is one of dates.
Call(fn, pc, finalChar, maxNbBytes, timeOut_ms, dates) ==
    /\ rd.pc = "idle"
    /\ clock' \in dates
    /\ rd' = [fn |-> fn, pc |-> pc, buf |-> <<>>, zero |-> 0, finalChar |-> finalChar,
              maxNbBytes |-> maxNbBytes, timeOut_ms |-> timeOut_ms,
              timer |-> clock', charTimer |-> clock', charTimeOut |-> timeOut_ms]
    /\ ret' = 0
    /\ UNCHANGED <<fd, rx>>

readChar(timeOut_ms, dates) ==
    Call("readChar", "char", NoRead.finalChar, 1, timeOut_ms, dates)

readStringNoTimeOut(finalChar, maxNbBytes, dates) ==
    Call("readStringNoTimeOut", "loop", finalChar, maxNbBytes, 0, dates)

readString(finalChar, maxNbBytes, timeOut_ms, dates) ==
    IF timeOut_ms = 0
    THEN readStringNoTimeOut(finalChar, maxNbBytes, dates)
    ELSE Call("readString", "loop", finalChar, maxNbBytes, timeOut_ms, dates)

readBytes(maxNbBytes, timeOut_ms, dates) ==
    Call("readBytes", "bytes", NoRead.finalChar, maxNbBytes, timeOut_ms, dates)

\* The caller has the result; the buffer it passed keeps its contents, the
\* timers are locals and gone.  zero is the number of
\* terminating zeros stored behind the characters, in receivedString[maxNbBytes]
\* if they fill the buffer.
Returned(buf, zero) ==
    [rd EXCEPT !.buf = buf, !.zero = zero, !.pc = "idle",
               !.timer = 0, !.charTimer = 0, !.charTimeOut = 0]

Return(n) ==
    /\ rd' = Returned(rd.buf, 0)
    /\ ret' = n

Goto(pc) ==
    /\ rd' = [rd EXCEPT !.pc = pc]
    /\ UNCHANGED ret

\* while (nbBytes < maxNbBytes), false
BufferFull ==
    /\ rd.pc = "loop"
    /\ Len(rd.buf) >= rd.maxNbBytes
    /\ Return(-3)
    /\ UNCHANGED <<fd, rx, clock>>

\* timeOut_ms - elapsedTime_ms() in unsigned long, stored in a long.
timeOutParam ==
    LET left == (rd.timeOut_ms - elapsedTime_ms(rd.timer)) % ULongMod
    IN  IF left >= ULongMod \div 2 THEN left - ULongMod ELSE left

\* Mutants: the sign of the remaining time is not tested; a remaining time of
\* zero, which readChar takes for no timeout, is passed on.
NextChar_FromParam(least) ==
    /\ rd.pc = "loop"
    /\ Len(rd.buf) < rd.maxNbBytes
    /\ rd' = IF rd.fn = "readString" /\ timeOutParam < least
             THEN [rd EXCEPT !.pc = "late"]
             ELSE [rd EXCEPT !.pc = "char", !.charTimer = initTimer,
                             !.charTimeOut = IF rd.fn = "readString" THEN timeOutParam ELSE 0]
    /\ UNCHANGED <<fd, rx, clock, ret>>

NextChar_Unsigned == NextChar_FromParam(-ULongMod)

NextChar_ZeroLeft == NextChar_FromParam(0)

\* readChar is called for the next character, with the time that is left.
NextChar ==
    /\ rd.pc = "loop"
    /\ Len(rd.buf) < rd.maxNbBytes
    /\ \/ /\ rd.fn = "readStringNoTimeOut"
          /\ rd' = [rd EXCEPT !.pc = "char", !.charTimer = initTimer, !.charTimeOut = 0]
       \/ /\ rd.fn = "readString"
          /\ timeOutParam > 0
          /\ rd' = [rd EXCEPT !.pc = "char", !.charTimer = initTimer,
                              !.charTimeOut = timeOutParam]
       \/ /\ rd.fn = "readString"
          /\ timeOutParam <= 0
          /\ rd' = [rd EXCEPT !.pc = "late"]
    /\ UNCHANGED <<fd, rx, clock, ret>>

\* The loop condition of readChar; when it fails, readChar returns 0.
WaitChar ==
    /\ rd.pc = "char"
    /\ IF rd.charTimeOut = 0 \/ elapsedTime_ms(rd.charTimer) < rd.charTimeOut THEN Goto("read")
       ELSE IF rd.fn = "readChar" THEN Return(0) ELSE Goto("late")
    /\ UNCHANGED <<fd, rx, clock>>

\* Mutant: the final character is compared before it is stored, and not kept.
GotChar_FinalDropped ==
    /\ rd.pc = "read" /\ rx # <<>>
    /\ rx' = Tail(rx)
    /\ LET buf == Append(rd.buf, Head(rx))
       IN  IF rd.fn = "readChar" THEN rd' = Returned(buf, 0) /\ ret' = 1
           ELSE IF Head(rx) = rd.finalChar
           THEN rd' = Returned(rd.buf, 1) /\ ret' = Len(rd.buf)
           ELSE /\ rd' = [rd EXCEPT !.buf = buf,
                                    !.pc = IF rd.fn = "readString" THEN "late" ELSE "loop"]
                /\ UNCHANGED ret
    /\ UNCHANGED <<fd, clock>>

\* read() gives one character.  A string ends with its final character and a
\* 0 behind it, receivedString[++nbBytes].
GotChar ==
    /\ rd.pc = "read" /\ rx # <<>>
    /\ rx' = Tail(rx)
    /\ LET buf == Append(rd.buf, Head(rx))
           ends == rd.fn = "readChar" \/ Head(rx) = rd.finalChar
       IN  IF ends
           THEN rd' = Returned(buf, IF rd.fn = "readChar" THEN 0 ELSE 1) /\ ret' = Len(buf)
           ELSE /\ rd' = [rd EXCEPT !.buf = buf,
                                    !.pc = IF rd.fn = "readString" THEN "late" ELSE "loop"]
                /\ UNCHANGED ret
    /\ UNCHANGED <<fd, clock>>

\* read() finds nothing and returns 0 (VMIN = VTIME = 0): poll again.
NoChar ==
    /\ rd.pc = "read" /\ rx = <<>> /\ isDeviceOpen
    /\ Goto("char")
    /\ UNCHANGED <<fd, rx, clock>>

\* read() returns -1.
ReadError ==
    /\ rd.pc \in {"read", "readBytes"}
    /\ Return(-2)
    /\ UNCHANGED <<fd, rx, clock>>

\* readString's own look at the clock, after every character and every
\* timeout of readChar; what was read by then gets its 0, also when it has
\* just filled the buffer.
Late ==
    /\ rd.pc = "late"
    /\ IF elapsedTime_ms(rd.timer) > rd.timeOut_ms
       THEN rd' = Returned(rd.buf, 1) /\ ret' = 0
       ELSE Goto("loop")
    /\ UNCHANGED <<fd, rx, clock>>

\* The loop condition of readBytes.
WaitBytes ==
    /\ rd.pc = "bytes"
    /\ IF rd.timeOut_ms = 0 \/ elapsedTime_ms(rd.timer) < rd.timeOut_ms
       THEN Goto("readBytes")
       ELSE Return(Len(rd.buf))
    /\ UNCHANGED <<fd, rx, clock>>

\* read() gives what there is, up to what is still wanted; possibly nothing.
GotBytes ==
    /\ rd.pc = "readBytes" /\ isDeviceOpen
    /\ LET wanted == rd.maxNbBytes - Len(rd.buf)
           n == IF Len(rx) < wanted THEN Len(rx) ELSE wanted
           full == n > 0 /\ n = wanted
           buf == rd.buf \o SubSeq(rx, 1, n)
       IN  /\ rx' = SubSeq(rx, n + 1, Len(rx))
           /\ IF full
              THEN rd' = Returned(buf, 0) /\ ret' = Len(buf)
              ELSE rd' = [rd EXCEPT !.buf = buf, !.pc = "bytes"] /\ UNCHANGED ret
    /\ UNCHANGED <<fd, clock>>

\* One step of the read call in progress, errors of the device aside; on a
\* closed port read() always fails.
ReadStep ==
    \/ BufferFull \/ NextChar \/ WaitChar \/ GotChar \/ NoChar \/ Late
    \/ WaitBytes \/ GotBytes
    \/ ~isDeviceOpen /\ ReadError

-----------------------------------------------------------------------------
(* The driver and the clock                                                *)

\* A character reaches the driver of an open port.
Arrive(c) ==
    /\ isDeviceOpen
    /\ rx' = Append(rx, c)
    /\ UNCHANGED <<fd, clock, rd, ret>>

Tick ==
    /\ clock' = clock + 1
    /\ UNCHANGED <<fd, rx, rd, ret>>

\* The time of day is set back, as time synchronisation does.
SetClockBack(d) ==
    /\ clock' = clock - d
    /\ UNCHANGED <<fd, rx, rd, ret>>
=============================================================================
