---------------------------- MODULE SerialBench ----------------------------
(***************************************************************************)
(* The serial library driven by a client that makes any call in any order, *)
(* on a line where characters arrive at any time, with a clock that runs   *)
(* and may be set back.                                                    *)
(***************************************************************************)
EXTENDS Serialib

CONSTANTS
    FinalChar,    \* the final character of the client's strings
    MaxBytes,     \* largest maxNbBytes the client passes
    MaxTimeOut,   \* largest timeOut_ms the client passes
    MaxRx,        \* bound on the receive buffer
    MaxClock,     \* bound on the clock while a call runs
    MaxSetBack,   \* how far the clock is set back, at most once in a call
    Faulty        \* whether read() may fail on an open port

ASSUME BenchAssumption ==
    /\ FinalChar \in Char
    /\ {MaxBytes, MaxTimeOut, MaxRx, MaxClock, MaxSetBack} \subseteq Nat
    /\ Faulty \in BOOLEAN

VARIABLES
    owed,      \* history: received, neither handed to a caller nor flushed
    setBack    \* history: the clock was set back during this call

vars == <<serialVars, owed, setBack>>

Init ==
    /\ serialib
    /\ owed = <<>>
    /\ setBack = FALSE

\* Timers start afresh in every call, so only the position of the date
\* within a second matters.
Dates == 0 .. UsPerSec - 1

\* A new call takes the buffer of the last one with it.
CallRead ==
    /\ \E m \in 0 .. MaxBytes, t \in 0 .. MaxTimeOut :
          \/ readChar(t, Dates)
          \/ readString(FinalChar, m, t, Dates)
          \/ readBytes(m, t, Dates)
    /\ owed' = rx
    /\ setBack' = FALSE

OpenPort ==
    /\ \E found \in BOOLEAN, b \in {115200, 14400}, d \in {8, 16},
          p \in {"none", "mark"}, s \in {"1", "1.5"} : openDevice(found, b, d, p, s)
    /\ owed' = rd.buf
    /\ UNCHANGED setBack

ClosePort ==
    /\ closeDevice
    /\ owed' = rd.buf
    /\ UNCHANGED setBack

Flush ==
    /\ flushReceiver
    /\ owed' = rd.buf
    /\ UNCHANGED setBack

WriteOrAsk ==
    /\ \/ available
       \/ \E sent \in BOOLEAN : writeChar(sent) \/ writeString(sent) \/ writeBytes(sent)
    /\ UNCHANGED <<owed, setBack>>

Step == ReadStep /\ UNCHANGED <<owed, setBack>>

DeviceError ==
    /\ Faulty
    /\ ReadError
    /\ UNCHANGED <<owed, setBack>>

Receive ==
    /\ Len(rx) < MaxRx
    /\ \E c \in Char : Arrive(c) /\ owed' = Append(owed, c)
    /\ UNCHANGED setBack

\* Time matters only to a call that has a timeout.
TimePasses ==
    /\ rd.pc # "idle" /\ rd.timeOut_ms > 0
    /\ clock < MaxClock
    /\ Tick
    /\ UNCHANGED <<owed, setBack>>

ClockSetBack ==
    /\ rd.pc # "idle" /\ rd.timeOut_ms > 0
    /\ ~setBack
    /\ \E d \in 1 .. MaxSetBack : SetClockBack(d)
    /\ setBack' = TRUE
    /\ UNCHANGED owed

Next ==
    \/ CallRead \/ OpenPort \/ ClosePort \/ Flush \/ WriteOrAsk
    \/ Step \/ DeviceError
    \/ Receive \/ TimePasses \/ ClockSetBack

\* The calling thread runs and time passes.
Fairness == WF_vars(Step) /\ WF_vars(TimePasses)

Spec == Init /\ [][Next]_vars /\ Fairness

-----------------------------------------------------------------------------
TypeOK ==
    /\ fd \in {Closed, Opened}
    /\ rx \in Seq(Char)
    /\ clock \in Int
    /\ ret \in Int
    /\ rd \in [fn : ReadFns, pc : ReadPcs, buf : Seq(Char), zero : {0, 1},
               finalChar : Char, maxNbBytes : Nat, timeOut_ms : Nat, timer : Int,
               charTimer : Int, charTimeOut : Nat]
    /\ owed \in Seq(Char)
    /\ setBack \in BOOLEAN

\* No reading function loses, repeats or reorders a character: whatever
\* timeouts and errors the calls ran into, what arrived and was neither
\* handed out by an earlier call nor flushed is the current buffer followed by
\* what the driver holds, and at most maxNbBytes characters are stored.  (The 0
\* behind them may be one byte more: ResultMeaning says when.)
StreamIntact ==
    /\ owed = rd.buf \o rx
    /\ Len(rd.buf) <= rd.maxNbBytes

Returning == rd.pc # "idle" /\ rd'.pc = "idle"

HasFinal(s) == \E i \in DOMAIN s : s[i] = rd.finalChar

\* Characters and terminating 0 need more than the maxNbBytes bytes the caller
\* passed: the 0 is written to receivedString[maxNbBytes].
Overrun == Len(rd.buf) + rd.zero > rd.maxNbBytes

\* The result codes mean what the comments above the functions say: a
\* positive result counts the characters of a string whose last one, and no
\* other, is the final character; 0 and -3 are returned for strings that have
\* none, -3 with a full buffer and -2 before it was full; a 0 ends the string
\* exactly if the result is not negative, and so is written past the buffer
\* exactly if the string fills it then; readBytes counts what it read.
ResultMeaning ==
    [][Returning =>
        LET buf == rd'.buf
            ofString == rd.fn \in {"readString", "readStringNoTimeOut"}
        IN  /\ rd'.zero = IF ofString /\ ret' >= 0 THEN 1 ELSE 0
            /\ Overrun' <=> ofString /\ ret' >= 0 /\ Len(buf) = rd'.maxNbBytes
            /\ IF ret' = -2
               THEN /\ Faulty \/ ~isDeviceOpen
                    /\ ofString => Len(buf) < rd.maxNbBytes /\ ~HasFinal(buf)
               ELSE IF ~ofString THEN ret' = Len(buf)
               ELSE CASE ret' = -3 -> Len(buf) = rd.maxNbBytes /\ ~HasFinal(buf)
                      [] ret' = 0 -> rd.fn = "readString" /\ ~HasFinal(buf)
                      [] OTHER -> /\ ret' = Len(buf)
                                  /\ buf[ret'] = rd.finalChar
                                  /\ ~HasFinal(SubSeq(buf, 1, ret' - 1))]_vars

\* A call that gives up has really waited for its timeout, readString for a
\* whole millisecond more, unless the clock was set back meanwhile.
TimeoutHonest ==
    [][Returning /\ ~setBack /\ ret' >= 0 =>
        CASE rd.fn = "readString" /\ ~HasFinal(rd'.buf) ->
               clock - rd.timer >= (rd.timeOut_ms + 1) * UsPerMs
          [] rd.fn \in {"readChar", "readBytes"} /\ ret' < rd.maxNbBytes ->
               rd.timeOut_ms > 0 /\ clock - rd.timer >= rd.timeOut_ms * UsPerMs
          [] OTHER -> TRUE]_vars

\* Every call with a timeout returns, even if characters keep trickling in
\* and even if the clock is set back while it waits.
TimedReadsReturn == rd.pc # "idle" /\ rd.timeOut_ms > 0 ~> rd.pc = "idle"
=============================================================================
