------------------------------- MODULE Vbuddy -------------------------------
(***************************************************************************)
(* The VBuddy functions of vbuddy.cpp: the testbench process (host), the   *)
(* serial line with the bytes in flight, and the board, which is external  *)
(* and known only from what the driver expects of it.  A function writes   *)
(* one command and then reads: ack() lines until one starts with '$', the  *)
(* queries a string that ends in '*'.  A command is the letter that        *)
(* follows the '$'; its arguments change nothing in the protocol.          *)
(***************************************************************************)
EXTENDS Serialib, FiniteSets

CONSTANTS
    Values,      \* what the board may answer to a query, as digits
    AckSize,     \* size of the buffer of ack(): 80
    QuerySize,   \* maxNbBytes of the queries: 10
    SlowBoard,   \* the board answers no query before the host has flushed
    MaxFaults    \* how many faults happen at most

Digit == {"0", "1"}

ASSUME VbuddyAssumption ==
    /\ Digit \cup {"$", "*", "nl"} \subseteq Char
    /\ Values \subseteq Seq(Digit) \ {<<>>}
    /\ {AckSize, QuerySize, MaxFaults} \subseteq Nat
    /\ SlowBoard \in BOOLEAN

\* The 80 bytes of ack() hold any reply: '$$', the digits of an int, '*'.
ASSUME AckAssumption ==
    /\ AckSize >= 4
    /\ \A v \in Values : Len(v) + 3 <= AckSize

VARIABLES
    host,     \* control state of the driver, its command and the first byte
              \* of the ack() buffer
    tx,       \* commands the board has not executed
    line,     \* bytes on their way to the host
    answer,   \* history: the digits the board answered to the last query
    faults    \* faults so far

vars == <<serialVars, host, tx, line, answer, faults>>

Stop == "STOP"
Acked == {"C", "H", "p", "T", "t", "y", "S", "s", "O", "o", "M", "B", "W", Stop}
Flushing == {"V", "m", "w"}
Queries == Flushing \cup {"Y"}
Letter == Acked \cup Queries

\* The control states: between calls; vbdOpen before its flush and before its
\* vbdClear; a query before its flush; before and in a read; vbdClose before
\* closeDevice; ended by an exception.
HostPcs == {"idle", "opened", "clear", "flush", "await", "reading", "closing", "aborted"}

Uninit == "uninitialised"
Junk == "junk"

Idle == [pc |-> "idle", cmd |-> "C", first |-> Uninit]

Init ==
    /\ serialib
    /\ host = Idle
    /\ tx = <<>>
    /\ line = <<>>
    /\ answer = <<>>
    /\ faults = 0

InCall == host.pc \in {"flush", "await", "reading"}

MayFail == faults < MaxFaults /\ faults' = faults + 1

-----------------------------------------------------------------------------
(* The functions                                                           *)

\* sprintf and writeString, whose result is ignored: a command that the
\* driver does not take is lost.
Send(c, pc) ==
    /\ host' = [pc |-> pc, cmd |-> c, first |-> Uninit]
    /\ answer' = <<>>
    /\ \/ writeString(TRUE) /\ tx' = Append(tx, c) /\ UNCHANGED faults
       \/ writeString(FALSE) /\ MayFail /\ UNCHANGED tx
    /\ UNCHANGED line

\* Mutant: the acknowledgement is not waited for.
AckCall_NoAck(c) ==
    /\ host.pc = "idle" /\ isDeviceOpen
    /\ Send(c, "idle")

\* A function that writes c and waits for the acknowledgement.
AckCall(c) ==
    /\ host.pc = "idle" /\ isDeviceOpen
    /\ Send(c, "await")

vbdClear == AckCall("C")

\* Mutant: no case of the switch prepares the message.
vbdHex_NoCase == AckCall(Uninit)

\* For the digits the switch has a case for, 0 .. 5; any other digit would
\* send a message nobody prepared.
vbdHex == AckCall("H")
vbdPlot == AckCall("p")
vbdHeader == AckCall("T")
vbdCycle == AckCall("t")
vbdSetMode == AckCall("y")
vbdInitAnalogOut == AckCall("S")
vbdOutputSample == AckCall("s")
vbdAoutON == AckCall("O")
vbdAoutOFF == AckCall("o")
vbdInitMicIn == AckCall("M")
vbdBar == AckCall("B")
vbdInitWatch == AckCall("W")

\* vbdFlag reads at once, the other queries flush the receiver first.
vbdFlag ==
    /\ host.pc = "idle" /\ isDeviceOpen
    /\ Send("Y", "await")

FlushingQuery(c) ==
    /\ host.pc = "idle" /\ isDeviceOpen
    /\ Send(c, "flush")

vbdValue == FlushingQuery("V")
vbdMicValue == FlushingQuery("m")
vbdElapsed == FlushingQuery("w")

FlushReply ==
    /\ host.pc = "flush"
    /\ flushReceiver
    /\ host' = [host EXCEPT !.pc = "await"]
    /\ UNCHANGED <<tx, line, answer, faults>>

\* vbdOpen: the port, a flush, and vbdClear.  Without the file vbuddy.cfg the
\* program ends in fclose(nullptr).
vbdOpen ==
    /\ host.pc \in {"idle", "aborted"} /\ ~isDeviceOpen
    /\ \/ /\ \E found \in BOOLEAN : openDevice(found, 115200, 8, "none", "1")
          /\ host' = [Idle EXCEPT !.pc = IF ret' = 1 THEN "opened" ELSE "idle"]
       \/ /\ host' = [Idle EXCEPT !.pc = "aborted"]
          /\ UNCHANGED serialVars
    /\ UNCHANGED <<tx, line, answer, faults>>

FlushStale ==
    /\ host.pc = "opened"
    /\ flushReceiver
    /\ host' = [host EXCEPT !.pc = "clear"]
    /\ UNCHANGED <<tx, line, answer, faults>>

ClearScreen == host.pc = "clear" /\ Send("C", "await")

\* vbdClose: the STOP message, its acknowledgement, closeDevice.
vbdClose == AckCall(Stop)

ClosePort ==
    /\ host.pc = "closing"
    /\ closeDevice
    /\ host' = Idle
    /\ UNCHANGED <<tx, line, answer, faults>>

-----------------------------------------------------------------------------
(* Waiting for the board                                                   *)

\* Mutant: an acknowledgement is expected to end like an answer.
NextRead_Star ==
    /\ host.pc = "await"
    /\ readString("*", AckSize, 0, {0})
    /\ host' = [host EXCEPT !.pc = "reading"]
    /\ UNCHANGED <<tx, line, answer, faults>>

\* The next round of the loop in ack() or in a query.
NextRead ==
    /\ host.pc = "await"
    /\ \/ host.cmd \in Acked /\ readString("nl", AckSize, 0, {0})
       \/ host.cmd \in Queries /\ readStringNoTimeOut("*", QuerySize, {0})
    /\ host' = [host EXCEPT !.pc = "reading"]
    /\ UNCHANGED <<tx, line, answer, faults>>

Reading ==
    /\ host.pc = "reading"
    /\ ReadStep
    /\ UNCHANGED <<host, tx, line, answer, faults>>

\* read() fails once.
FailingRead ==
    /\ host.pc = "reading" /\ MayFail
    /\ ReadError
    /\ UNCHANGED <<host, tx, line, answer>>

\* receivedString[0] after a round: what was read into it, if anything was.
FirstChar == IF rd.buf = <<>> THEN host.first ELSE rd.buf[1]

\* The end of a round of ack(): what readString returned is not looked at, and
\* a buffer it did not write holds whatever was on the stack.
ack ==
    /\ host.pc = "reading" /\ host.cmd \in Acked /\ rd.pc = "idle"
    /\ \/ /\ FirstChar \in {"$", Uninit}
          /\ host' = IF host.cmd = Stop THEN [host EXCEPT !.pc = "closing"] ELSE Idle
       \/ /\ FirstChar # "$"
          /\ host' = [host EXCEPT !.pc = "await",
                                  !.first = IF FirstChar = Uninit THEN Junk ELSE FirstChar]
    /\ UNCHANGED <<serialVars, tx, line, answer, faults>>

\* string::find, 0 for npos, and string::erase of one character.
find(s, c) ==
    LET at == {i \in DOMAIN s : s[i] = c}
    IN  IF at = {} THEN 0 ELSE CHOOSE i \in at : \A j \in at : i <= j

erase(s, i) == SubSeq(s, 1, i - 1) \o SubSeq(s, i + 1, Len(s))

\* The digits stoi reads after leading white space; none if it throws.
stoi(s) ==
    LET from == CHOOSE i \in 1 .. Len(s) + 1 :
                    /\ i = Len(s) + 1 \/ s[i] # "nl"
                    /\ \A j \in 1 .. i - 1 : s[j] = "nl"
        to == CHOOSE i \in from .. Len(s) + 1 :
                    /\ i = Len(s) + 1 \/ s[i] \notin Digit
                    /\ \A j \in from .. i - 1 : s[j] \in Digit
    IN  SubSeq(s, from, to - 1)

\* Mutant: the second '$' is not looked for.
Parse_FirstOnly(msg) ==
    IF find(msg, "$") = 0 THEN <<>> ELSE stoi(erase(msg, find(msg, "$")))

\* What vbdValue, vbdMicValue and vbdElapsed make of their message: the second
\* '$' is the one that counts if no digit follows the first character (the
\* terminating 0 is not one either).  <<>> stands for an exception, which
\* erase(npos) and stoi raise.  The '*' is not erased: its index was taken
\* before the '$' in front of it was removed.
Parse(msg) ==
    LET second == Len(msg) < 2 \/ msg[2] \notin Digit
        str == IF second THEN erase(msg, find(msg, "$")) ELSE msg
    IN  IF find(msg, "$") = 0 \/ find(str, "$") = 0 THEN <<>>
        ELSE stoi(erase(str, find(str, "$")))

FlagOf(msg) == Len(msg) >= 2 /\ msg[2] = "1"

\* The end of a round of a query: again unless characters were read.
QueryRound ==
    /\ host.pc = "reading" /\ host.cmd \in Queries /\ rd.pc = "idle"
    /\ \/ /\ ret <= 0
          /\ host' = [host EXCEPT !.pc = "await"]
          /\ UNCHANGED serialVars
       \/ /\ ret > 0
          /\ host.cmd = "Y" \/ Parse(rd.buf) # <<>>
          /\ host' = Idle
          /\ UNCHANGED serialVars
       \/ /\ ret > 0
          /\ host.cmd # "Y" /\ Parse(rd.buf) = <<>>
          /\ host' = [host EXCEPT !.pc = "aborted"]
          /\ closeDevice
    /\ UNCHANGED <<tx, line, answer, faults>>

\* The process is killed; the operating system closes the port.
Kill ==
    /\ isDeviceOpen /\ MayFail
    /\ host' = Idle
    /\ fd' = Closed /\ rx' = <<>> /\ rd' = NoRead /\ ret' = 0
    /\ UNCHANGED <<clock, tx, line, answer>>

-----------------------------------------------------------------------------
(* The board and the line, external                                        *)

\* An acknowledgement is a line that starts with '$'; an answer is '$',
\* digits, '*', sometimes with a spurious second '$'.
Replies(c, v) ==
    CASE c \in Acked -> {<<"$", "nl">>}
      [] c = "Y" -> {<<"$">> \o v \o <<"*">>}
      [] OTHER -> {<<"$">> \o v \o <<"*">>, <<"$", "$">> \o v \o <<"*">>}

\* The current query is at the end of tx until the board gets to it.
TooEarly == SlowBoard /\ host.pc = "flush" /\ Len(tx) = 1

BoardExecutes ==
    /\ tx # <<>> /\ ~TooEarly
    /\ tx' = Tail(tx)
    /\ \E v \in IF Head(tx) = "Y" THEN {<<d>> : d \in Digit}
                ELSE IF Head(tx) \in Queries THEN Values ELSE {<<>>} :
          /\ answer' = IF Head(tx) \in Queries THEN v ELSE answer
          /\ \/ \E r \in Replies(Head(tx), v) : line' = line \o r /\ UNCHANGED faults
             \/ MayFail /\ UNCHANGED line
    /\ UNCHANGED <<serialVars, host>>

\* A byte arrives; at a closed port it is gone.
Deliver ==
    /\ line # <<>>
    /\ line' = Tail(line)
    /\ IF isDeviceOpen THEN Arrive(Head(line)) ELSE UNCHANGED serialVars
    /\ UNCHANGED <<host, tx, answer, faults>>

-----------------------------------------------------------------------------
CallAck ==
    \/ vbdClear \/ vbdHex \/ vbdPlot \/ vbdHeader \/ vbdCycle \/ vbdSetMode
    \/ vbdInitAnalogOut \/ vbdOutputSample \/ vbdAoutON \/ vbdAoutOFF
    \/ vbdInitMicIn \/ vbdBar \/ vbdInitWatch \/ vbdClose

CallQuery == vbdFlag \/ vbdValue \/ vbdMicValue \/ vbdElapsed

\* What the process does without being asked to.
HostStep ==
    \/ FlushStale \/ ClearScreen \/ FlushReply \/ ClosePort
    \/ NextRead \/ Reading \/ ack \/ QueryRound

Next ==
    \/ vbdOpen \/ CallAck \/ CallQuery
    \/ HostStep \/ FailingRead \/ Kill
    \/ BoardExecutes \/ Deliver

\* The process runs, the board answers and the line delivers.
Fairness == WF_vars(HostStep) /\ WF_vars(BoardExecutes) /\ WF_vars(Deliver)

Spec == Init /\ [][Next]_vars /\ Fairness

-----------------------------------------------------------------------------
TypeOK ==
    /\ fd \in {Closed, Opened}
    /\ rx \in Seq(Char)
    /\ rd.pc \in ReadPcs /\ rd.buf \in Seq(Char)
    /\ host \in [pc : HostPcs, cmd : Letter, first : Char \cup {Uninit, Junk}]
    /\ tx \in Seq(Letter)
    /\ line \in Seq(Char)
    /\ answer \in Seq(Digit)
    /\ faults \in 0 .. MaxFaults

\* The driver keeps the calling program in step with the board (Commands):
\* every command is executed once, in order, and has been executed when its
\* function returns, except that each fault (a killed process whose last
\* answer is still on its way, a failing read, a lost byte string) lets the
\* program get at most one command ahead, for the rest of the session.
InStep == INSTANCE Commands WITH Command <- Letter, queue <- tx, busy <- InCall, slack <- faults
ImplementsCommands == InStep!Spec

\* A query returns the board's answer to this very query.  The three queries
\* that flush never return anything else, even after one fault; vbdFlag, which
\* does not, is right as long as there was none.  Without a fault only an
\* answer that overflows the query's buffer when it comes with '*' and both
\* '$' ends the program.
QueryExact ==
    [][host.pc = "reading" /\ host.cmd \in Queries /\ host'.pc \in {"idle", "aborted"} /\ faults' = faults =>
        IF host'.pc = "aborted" THEN faults > 0 \/ Len(answer) + 3 > QuerySize
        ELSE IF host.cmd = "Y" THEN faults = 0 => (FlagOf(rd.buf) <=> answer = <<"1">>)
        ELSE faults <= 1 => Parse(rd.buf) = answer]_vars

\* Every call returns or ends the program, as long as there was no fault:
\* ack() and the queries wait without a timeout, so they depend on every
\* answer being there to be read.
CallsReturn == host.pc # "idle" ~> (host.pc \in {"idle", "aborted"} \/ faults > 0)
=============================================================================
