----------------------------- MODULE Testbench -----------------------------
(***************************************************************************)
(* main() of risc_v_full_program_tb.h: the simulation loop and what it     *)
(* shows on the board.  The VBuddy driver is used through what it promises *)
(* (Commands, which Vbuddy implements), so a call is issued, executed by   *)
(* the board and returns.  The processor is the register value sampled     *)
(* after each cycle, named after the cycle, and whether its pc was 0x60.   *)
(***************************************************************************)
EXTENDS Integers, Sequences

CONSTANTS
    MAX_SIM_CYC,   \* 1'000'000 in the program
    MaxFaults,     \* bound on the failing reads
    MaxKeys        \* bound on the keys waiting on standard input

ASSUME BoundAssumption == {MAX_SIM_CYC, MaxFaults, MaxKeys} \subseteq Nat

VARIABLES
    queue, busy, slack,   \* the driver
    main,                 \* the locals of main()
    screen,               \* what the board shows: the last argument of each command
    last,                 \* history: the last command the board has executed
    keys,                 \* keys typed and not yet read
    quitBy                \* history: the cycle by which a q that was typed is due

driverVars == <<queue, busy, slack>>
boardVars == <<screen, last>>
keyVars == <<keys, quitBy>>
vars == <<driverVars, main, boardVars, keyVars>>

Programs == {"f1_starting_light", "pdf", "sinegen", "counter"}
Shown == {"vbdClear", "vbdHeader", "vbdBar", "vbdPlot", "vbdCycle", "vbdClose"}
Nothing == -1
LedsOff == -2

Cmd(name, arg) == [name |-> name, arg |-> arg]
Command == [name : Shown, arg : LedsOff .. MAX_SIM_CYC]

Driver == INSTANCE Commands

\* PROGRAM_NAME and VBUDDY are fixed when the testbench is compiled.
Init ==
    /\ Driver!Init
    /\ main \in [pc : {"start"}, program : Programs, VBUDDY : BOOLEAN,
                 simcyc : {0}, started : {FALSE}, reg_output : {Nothing}]
    /\ screen = [n \in Shown |-> Nothing]
    /\ last = Cmd("vbdClear", Nothing)
    /\ keys = <<>>
    /\ quitBy = MAX_SIM_CYC

Goto(pc) == main' = [main EXCEPT !.pc = pc]

\* A VBuddy function is called when the last one has returned.
CallVbd(name, arg) == Driver!Issue(Cmd(name, arg)) /\ UNCHANGED <<boardVars, keyVars>>

NoCall == ~busy /\ UNCHANGED <<driverVars, boardVars>>

\* vbdOpen(): the port may not open, or vbuddy.cfg is missing and the program
\* crashes; else its vbdClear.
Open ==
    /\ main.pc = "start"
    /\ \/ ~main.VBUDDY /\ Goto("cycle") /\ UNCHANGED keyVars /\ NoCall
       \/ main.VBUDDY /\ Goto("failed") /\ UNCHANGED keyVars /\ NoCall
       \/ main.VBUDDY /\ Goto("header") /\ CallVbd("vbdClear", Nothing)

Header ==
    /\ main.pc = "header"
    /\ CallVbd("vbdHeader", Nothing)
    /\ Goto("cycle")

\* Mutant: the samples of the pdf are shown as soon as the cycle count is a
\* multiple of four or the program starts.
Shows_AtStart(at60) ==
    main.VBUDDY /\ (main.program # "pdf" \/ at60 \/ (main.started /\ main.simcyc % 4 = 0))

\* Whether this cycle's register value goes to the board.
Shows(at60) ==
    /\ main.VBUDDY
    /\ main.program = "pdf" => main.started /\ main.simcyc % 4 = 0

\* The cycle in which pc_viewer is 0x60 for the first time starts the pdf.
Starts(at60) == main.VBUDDY /\ main.program = "pdf" /\ at60

\* vbdGetkey(): the next key, 0 if none is waiting.
vbdGetkey == IF keys = <<>> THEN "0" ELSE Head(keys)

\* Mutant: keys are only looked at in the cycles that are shown.
ReadKey_WhenShown(at60) ==
    keys' = IF keys = <<>> \/ ~Shows(at60) THEN keys ELSE Tail(keys)

ReadKey(at60) == keys' = IF keys = <<>> THEN keys ELSE Tail(keys)

\* Mutant: simcyc <= MAX_SIM_CYC.
Cycle_OneMore(at60) ==
    /\ main.pc = "cycle" /\ main.simcyc <= MAX_SIM_CYC
    /\ ReadKey(at60)
    /\ main' = IF vbdGetkey = "q" THEN [main EXCEPT !.pc = "end"]
               ELSE IF Shows(at60) THEN [main EXCEPT !.pc = "value", !.reg_output = main.simcyc]
               ELSE [main EXCEPT !.simcyc = @ + 1, !.started = @ \/ Starts(at60)]
    /\ UNCHANGED quitBy
    /\ NoCall

\* One clock cycle and what follows it: the key q leaves the loop, the value
\* is shown, or the next cycle begins.  (No module of the processor calls
\* $finish, so gotFinish() never holds.)
Cycle(at60) ==
    /\ main.pc = "cycle" /\ main.simcyc < MAX_SIM_CYC
    /\ ReadKey(at60)
    /\ main' = IF vbdGetkey = "q" THEN [main EXCEPT !.pc = "end"]
               ELSE IF Shows(at60) THEN [main EXCEPT !.pc = "value", !.reg_output = main.simcyc]
               ELSE [main EXCEPT !.simcyc = @ + 1, !.started = @ \/ Starts(at60)]
    /\ UNCHANGED quitBy
    /\ NoCall

LoopDone ==
    /\ main.pc = "cycle" /\ main.simcyc = MAX_SIM_CYC
    /\ Goto("end")
    /\ UNCHANGED keyVars
    /\ NoCall

ShowValue ==
    /\ main.pc = "value"
    /\ CallVbd(IF main.program = "f1_starting_light" THEN "vbdBar" ELSE "vbdPlot", main.reg_output)
    /\ Goto("count")

\* Mutant: the loop continues without its increment.
ShowCount_NoIncrement ==
    /\ main.pc = "count"
    /\ CallVbd("vbdCycle", main.simcyc)
    /\ Goto("cycle")

ShowCount ==
    /\ main.pc = "count"
    /\ CallVbd("vbdCycle", main.simcyc)
    /\ main' = [main EXCEPT !.pc = "cycle", !.simcyc = @ + 1]

TurnOff ==
    /\ main.pc = "end"
    /\ \/ main.VBUDDY /\ CallVbd("vbdBar", LedsOff) /\ Goto("close")
       \/ ~main.VBUDDY /\ Goto("exit") /\ UNCHANGED keyVars /\ NoCall

\* Mutant: the program ends without closing the board.
Close_NoStop ==
    /\ main.pc = "close"
    /\ Goto("closed")
    /\ UNCHANGED keyVars
    /\ NoCall

Close ==
    /\ main.pc = "close"
    /\ CallVbd("vbdClose", Nothing)
    /\ Goto("closed")

\* vbdClose has returned: tfp->close(), exit(0).
Exit ==
    /\ main.pc = "closed"
    /\ Goto("exit")
    /\ UNCHANGED keyVars
    /\ NoCall

MainStep ==
    \/ Open \/ Header \/ (\E at60 \in BOOLEAN : Cycle(at60)) \/ LoopDone
    \/ ShowValue \/ ShowCount \/ TurnOff \/ Close \/ Exit

BoardExecutes ==
    /\ Driver!Execute
    /\ screen' = [screen EXCEPT ![Head(queue).name] = Head(queue).arg]
    /\ last' = Head(queue)
    /\ UNCHANGED <<main, keyVars>>

CallReturns == Driver!Return /\ UNCHANGED <<main, boardVars, keyVars>>

\* Of the driver's faults, the one the program does not wait for ever after
\* (see CallsReturn of Vbuddy): a failing read passes for an answer.
ReadFault ==
    /\ slack < MaxFaults
    /\ Driver!AnswerFault
    /\ UNCHANGED <<main, boardVars, keyVars>>

\* The user types; the first q is due when the keys before it have been read,
\* one a cycle.
TypeKey(k) ==
    /\ Len(keys) < MaxKeys
    /\ keys' = Append(keys, k)
    /\ quitBy' = IF k = "q" /\ quitBy = MAX_SIM_CYC /\ main.simcyc + Len(keys) + 1 < MAX_SIM_CYC
                 THEN main.simcyc + Len(keys) + 1
                 ELSE quitBy
    /\ UNCHANGED <<driverVars, main, boardVars>>

Next ==
    \/ MainStep \/ BoardExecutes \/ CallReturns \/ ReadFault
    \/ \E k \in {"q", "x"} : TypeKey(k)

\* The process runs and the board answers.
Fairness == WF_vars(MainStep) /\ WF_vars(BoardExecutes) /\ WF_vars(CallReturns)

Spec == Init /\ [][Next]_vars /\ Fairness

-----------------------------------------------------------------------------
Ended == main.pc \in {"exit", "failed"}

TypeOK ==
    /\ queue \in Seq(Command)
    /\ busy \in BOOLEAN
    /\ slack \in 0 .. MaxFaults
    /\ main \in [pc : {"start", "header", "cycle", "value", "count", "end", "close", "closed",
                       "exit", "failed"},
                 program : Programs, VBUDDY : BOOLEAN, simcyc : 0 .. MAX_SIM_CYC,
                 started : BOOLEAN, reg_output : Nothing .. MAX_SIM_CYC]
    /\ screen \in [Shown -> LedsOff .. MAX_SIM_CYC] /\ last \in Command
    /\ keys \in Seq({"q", "x"}) /\ quitBy \in 0 .. MAX_SIM_CYC

ValueCommand == IF main.program = "f1_starting_light" THEN "vbdBar" ELSE "vbdPlot"

\* The cycle count on the screen belongs to the value next to it, also when
\* the board lags behind the simulation, and no cycle that is to be shown is
\* missed or shown twice: the first is cycle 0, for the pdf a multiple of four,
\* and from one count to the next it is one cycle, for the pdf four, whatever
\* the cycle in which it started.
ShownTogether ==
    [][screen'["vbdCycle"] # screen["vbdCycle"] =>
        /\ screen'["vbdCycle"] = screen[ValueCommand]
        /\ IF screen["vbdCycle"] = Nothing
           THEN IF main.program = "pdf" THEN screen'["vbdCycle"] % 4 = 0 ELSE screen'["vbdCycle"] = 0
           ELSE screen'["vbdCycle"] - screen["vbdCycle"] = IF main.program = "pdf" THEN 4 ELSE 1]_vars

\* However the loop ended, a program that had opened the board exits only
\* after vbdClose has returned, its STOP is the last command the board executes
\* and turning the LEDs off the last but one; at most one command per fault is
\* still on its way.
CleanEnd ==
    main.pc = "exit" =>
        /\ Len(queue) <= slack
        /\ main.VBUDDY =>
             LET log == <<last>> \o queue
                 n == Len(log)
             IN  /\ ~busy
                 /\ log[n] = Cmd("vbdClose", Nothing)
                 /\ IF n = 1 THEN screen["vbdBar"] = LedsOff
                    ELSE log[n - 1] = Cmd("vbdBar", LedsOff)

\* A q is not lost among other keys or while a call waits for the board: the
\* loop runs one cycle per key that was typed before it, and no more.
QuitHeard == main.simcyc <= quitBy

\* The program ends, unless a fault costs it an answer.
Terminates == <>(Ended \/ slack > 0)
=============================================================================
