--------------------------- MODULE TestbenchProofs ---------------------------
(***************************************************************************)
(* For every number of cycles, of keys and of faults: how the simulation   *)
(* loop ends, that a q is heard, and that the board shows values and cycle *)
(* counts that belong together.                                            *)
(***************************************************************************)
EXTENDS Testbench, SequenceTheorems, TLAPS

Count(i) == queue[i].name = "vbdCycle"

\* The program is at most one command per fault ahead of the board when it is
\* not in a call.
DriverInv == ~busy => Len(queue) <= slack

\* A cycle that is being shown is one of the loop's, and one to be shown.
ShowingInv ==
    main.pc \in {"value", "count"} =>
        /\ main.VBUDDY
        /\ main.simcyc < MAX_SIM_CYC
        /\ main.reg_output = main.simcyc
        /\ main.program = "pdf" => main.started /\ main.simcyc % 4 = 0

\* The q that is due is among the keys, behind no more keys than there are
\* cycles until it is due.  While a value is shown this cycle's key has been
\* read already.
QuitDue ==
    quitBy < MAX_SIM_CYC =>
        /\ main.pc \in {"start", "header", "cycle"} =>
              \E i \in 1 .. Len(keys) : keys[i] = "q" /\ main.simcyc + i - 1 <= quitBy
        /\ main.pc \in {"value", "count"} =>
              \E i \in 1 .. Len(keys) : keys[i] = "q" /\ main.simcyc + i <= quitBy
        /\ main.simcyc <= quitBy

\* The command before the last one turns the LEDs off, when n commands of the
\* queue are still to be executed up to it: it is one of them, or the last one
\* executed, or the one before that.
LedsOut(n) ==
    IF n >= 1 THEN queue[n] = Cmd("vbdBar", LedsOff)
    ELSE screen["vbdBar"] = LedsOff /\ (n = 0 => last = Cmd("vbdBar", LedsOff))

StopLast == (IF Len(queue) >= 1 THEN queue[Len(queue)] ELSE last) = Cmd("vbdClose", Nothing)

EndInv ==
    /\ main.pc = "close" => LedsOut(Len(queue))
    /\ main.pc = "closed" \/ (main.pc = "exit" /\ main.VBUDDY) =>
          StopLast /\ LedsOut(Len(queue) - 1)

\* The command in front of a cycle count is the value of that cycle.
PairInv ==
    \A i \in 1 .. Len(queue) :
        Count(i) => IF i = 1 THEN screen[ValueCommand] = queue[i].arg
                    ELSE queue[i - 1] = Cmd(ValueCommand, queue[i].arg)

Distance == IF main.program = "pdf" THEN 4 ELSE 1

\* The count two commands before a count, or the one on the screen, is the
\* one of the last cycle that was to be shown.
DistanceInv ==
    \A i \in 1 .. Len(queue) :
        Count(i) => IF \E j \in 1 .. i - 1 : Count(j)
                    THEN i >= 3 /\ queue[i - 2] = Cmd("vbdCycle", queue[i].arg - Distance)
                    ELSE screen["vbdCycle"] \in {Nothing, queue[i].arg - Distance}

NoneYet == screen["vbdCycle"] = Nothing /\ \A i \in 1 .. Len(queue) : ~Count(i)

\* The count l was issued last, as command n or before the queue.
IssuedLast(l, n) == IF n >= 1 THEN queue[n] = Cmd("vbdCycle", l) ELSE screen["vbdCycle"] = l

\* No cycle that is to be shown lies between l and the current one.
LastShown(l) ==
    /\ main.VBUDDY
    /\ IF main.program = "pdf"
       THEN main.started /\ l % 4 = 0 /\ l < main.simcyc /\ main.simcyc <= l + 4
       ELSE l = main.simcyc - 1

\* What the loop has issued so far ends with the last count, and while the
\* next one is due with the value that belongs to it.
IssuedInv ==
    /\ main.pc \in {"start", "header"} => NoneYet
    /\ main.pc \in {"cycle", "value"} =>
          NoneYet \/ \E l \in 0 .. MAX_SIM_CYC : IssuedLast(l, Len(queue)) /\ LastShown(l)
    /\ main.pc = "count" =>
          /\ IF queue = <<>> THEN screen[ValueCommand] = main.simcyc
             ELSE queue[Len(queue)] = Cmd(ValueCommand, main.simcyc)
          /\ NoneYet \/ \E l \in 0 .. MAX_SIM_CYC : IssuedLast(l, Len(queue) - 1) /\ LastShown(l)

ShowInv == PairInv /\ DistanceInv /\ IssuedInv

FirstShown(c) == IF main.program = "pdf" THEN c % 4 = 0 ELSE c = 0

\* Counts are cycles; the first one is that of the first cycle to be shown,
\* and until it is issued the loop is at that cycle.
FirstInv ==
    /\ \A i \in 1 .. Len(queue) : Count(i) => queue[i].arg >= 0
    /\ \A i \in 1 .. Len(queue) :
          Count(i) /\ (\A j \in 1 .. i - 1 : ~Count(j)) /\ screen["vbdCycle"] = Nothing =>
             FirstShown(queue[i].arg)
    /\ /\ main.pc \in {"start", "header", "cycle", "value", "count"}
       /\ NoneYet /\ main.VBUDDY /\ main.program # "pdf"
       => main.simcyc = 0

Inv == TypeOK /\ DriverInv /\ ShowingInv /\ QuitDue /\ EndInv /\ ShowInv /\ FirstInv

-----------------------------------------------------------------------------
(* Issuing and executing                                                   *)

Arg == LedsOff .. MAX_SIM_CYC

Pcs == {"start", "header", "cycle", "value", "count", "end", "close", "closed", "exit", "failed"}

Main == [pc : Pcs, program : Programs, VBUDDY : BOOLEAN, simcyc : 0 .. MAX_SIM_CYC,
         started : BOOLEAN, reg_output : Nothing .. MAX_SIM_CYC]

\* The types again, without the sets of records that only the record of main
\* needs.
LEMMA Types ==
    ASSUME TypeOK
    PROVE  /\ queue \in Seq(Command) /\ Len(queue) \in Nat
           /\ busy \in BOOLEAN
           /\ slack \in Nat /\ slack <= MaxFaults
           /\ main \in Main
           /\ screen \in [Shown -> Arg] /\ last \in Command
           /\ keys \in Seq({"q", "x"}) /\ Len(keys) \in Nat
           /\ quitBy \in Nat /\ quitBy <= MAX_SIM_CYC
           /\ MAX_SIM_CYC \in Nat /\ MaxFaults \in Nat
  <1>1. MAX_SIM_CYC \in Nat /\ MaxFaults \in Nat
    BY BoundAssumption
  <1>2. Len(queue) \in Nat /\ Len(keys) \in Nat
    BY LenProperties DEF TypeOK
  <1> QED  BY <1>1, <1>2 DEF TypeOK, Main, Pcs, Arg

\* A call appends its command to what the board has to execute.
LEMMA Issued ==
    ASSUME TypeOK, NEW name \in Shown, NEW arg \in Arg, CallVbd(name, arg)
    PROVE  /\ ~busy /\ busy' = TRUE
           /\ queue' \in Seq(Command)
           /\ Len(queue') = Len(queue) + 1
           /\ \A i \in 1 .. Len(queue) : queue'[i] = queue[i]
           /\ queue'[Len(queue) + 1] = Cmd(name, arg)
           /\ slack' = slack /\ screen' = screen /\ last' = last
           /\ keys' = keys /\ quitBy' = quitBy
  <1>1. Cmd(name, arg) \in Command
    BY DEF Cmd, Command, Arg
  <1>2. queue' = Append(queue, Cmd(name, arg))
    BY DEF CallVbd, Driver!Issue
  <1>3. queue \in Seq(Command)
    BY Types
  <1>4. /\ ~busy /\ busy' = TRUE /\ slack' = slack
        /\ screen' = screen /\ last' = last /\ keys' = keys /\ quitBy' = quitBy
    BY DEF CallVbd, Driver!Issue, boardVars, keyVars
  <1> QED  BY <1>1, <1>2, <1>3, <1>4, AppendProperties

\* The board takes the first command and shows its argument.
LEMMA Executed ==
    ASSUME TypeOK, BoardExecutes
    PROVE  /\ Len(queue) \in Nat \ {0}
           /\ queue[1] \in Command
           /\ queue' \in Seq(Command)
           /\ Len(queue') = Len(queue) - 1
           /\ \A i \in 1 .. Len(queue') : queue'[i] = queue[i + 1]
           /\ screen' = [screen EXCEPT ![queue[1].name] = queue[1].arg] /\ last' = queue[1]
           /\ busy' = busy /\ slack' = slack /\ main' = main /\ keys' = keys /\ quitBy' = quitBy
  <1>1. queue \in Seq(Command) /\ queue # <<>> /\ queue' = Tail(queue)
    BY Types DEF BoardExecutes, Driver!Execute
  <1>2. Len(queue) \in Nat \ {0}
    BY <1>1, EmptySeq
  <1>3. Head(queue) = queue[1]
    BY <1>1
  <1>4. queue[1] \in Command
    BY <1>1, <1>2, ElementOfSeq
  <1>5. /\ screen' = [screen EXCEPT ![queue[1].name] = queue[1].arg] /\ last' = queue[1]
        /\ busy' = busy /\ slack' = slack /\ main' = main /\ keys' = keys /\ quitBy' = quitBy
    BY <1>3 DEF BoardExecutes, Driver!Execute, boardVars, keyVars
  <1> QED  BY <1>1, <1>2, <1>4, <1>5, HeadTailProperties

\* A step of main() makes one call or none.
LEMMA CallOrNot ==
    ASSUME TypeOK, MainStep
    PROVE  NoCall \/ \E name \in Shown, arg \in Arg : CallVbd(name, arg)
  <1>1. MAX_SIM_CYC \in Nat /\ main \in Main
    BY Types
  <1>2. Nothing \in Arg /\ LedsOff \in Arg /\ main.reg_output \in Arg /\ main.simcyc \in Arg
    BY <1>1 DEF Nothing, LedsOff, Arg, Main
  <1>3. {"vbdClear", "vbdHeader", "vbdBar", "vbdPlot", "vbdCycle", "vbdClose"} \subseteq Shown
    BY DEF Shown
  <1>4. CASE Open \/ LoopDone \/ TurnOff \/ Exit \/ \E at60 \in BOOLEAN : Cycle(at60)
    BY <1>4, <1>2, <1>3 DEF Open, LoopDone, TurnOff, Exit, Cycle
  <1>5. CASE Header \/ ShowValue \/ ShowCount \/ Close
    BY <1>5, <1>2, <1>3 DEF Header, ShowValue, ShowCount, Close
  <1> QED  BY <1>4, <1>5 DEF MainStep

-----------------------------------------------------------------------------
(* The parts of the invariant                                              *)

\* Every step keeps the types; the loop test keeps simcyc within its range.
LEMMA TypeStep ==
    ASSUME TypeOK, ShowingInv, [Next]_vars
    PROVE  TypeOK'
  <1> DEFINE TypeRest == /\ queue' \in Seq(Command)
                         /\ busy' \in BOOLEAN
                         /\ slack' \in 0 .. MaxFaults
                         /\ screen' \in [Shown -> Arg] /\ last' \in Command
                         /\ keys' \in Seq({"q", "x"}) /\ quitBy' \in 0 .. MAX_SIM_CYC
  <1>0. SUFFICES main' \in Main /\ TypeRest
    BY DEF TypeOK, Main, Pcs, Arg
  <1>t. /\ queue \in Seq(Command) /\ busy \in BOOLEAN /\ slack \in 0 .. MaxFaults
        /\ main \in Main /\ screen \in [Shown -> Arg] /\ last \in Command
        /\ keys \in Seq({"q", "x"}) /\ quitBy \in 0 .. MAX_SIM_CYC
        /\ MAX_SIM_CYC \in Nat /\ MaxFaults \in Nat
    BY Types
  <1>a. Nothing \in Arg /\ LedsOff \in Arg /\ main.reg_output \in Arg /\ main.simcyc \in Arg
    BY <1>t DEF Nothing, LedsOff, Arg, Main
  <1>g. ASSUME NEW pc \in Pcs, Goto(pc)
        PROVE  main' \in Main
    BY <1>g, <1>t DEF Goto, Main
  <1>c. ASSUME NEW name \in Shown, NEW arg \in Arg, CallVbd(name, arg)
        PROVE  TypeRest
    BY <1>c, <1>t, Issued
  <1>n. ASSUME NoCall, UNCHANGED keyVars
        PROVE  TypeRest
    BY <1>n, <1>t DEF NoCall, boardVars, driverVars, keyVars
  <1>1. CASE Open
    <2>1. "cycle" \in Pcs /\ "failed" \in Pcs /\ "header" \in Pcs /\ "vbdClear" \in Shown
      BY DEF Pcs, Shown
    <2> QED  BY <1>1, <2>1, <1>g, <1>c, <1>n, <1>a DEF Open
  <1>2. CASE Header
    <2>1. "cycle" \in Pcs /\ "vbdHeader" \in Shown
      BY DEF Pcs, Shown
    <2> QED  BY <1>2, <2>1, <1>g, <1>c, <1>a DEF Header
  <1>3. ASSUME NEW at60 \in BOOLEAN, Cycle(at60)
        PROVE  main' \in Main /\ TypeRest
    <2>1. keys' \in Seq({"q", "x"})
      BY <1>3, <1>t, HeadTailProperties DEF Cycle, ReadKey
    <2>2. TypeRest
      BY <1>3, <1>t, <2>1 DEF Cycle, NoCall, boardVars, driverVars
    <2>3. main.simcyc \in 0 .. MAX_SIM_CYC /\ main.simcyc < MAX_SIM_CYC
      BY <1>3, <1>t DEF Main, Cycle
    <2>4. main.simcyc + 1 \in 0 .. MAX_SIM_CYC /\ main.simcyc \in Nothing .. MAX_SIM_CYC
      BY <2>3, <1>t DEF Nothing
    <2>5. [main EXCEPT !.pc = "end"] \in Main
      BY <1>t DEF Main, Pcs
    <2>6. [main EXCEPT !.pc = "value", !.reg_output = main.simcyc] \in Main
      BY <1>t, <2>4 DEF Main, Pcs
    <2>7. Starts(at60) \in BOOLEAN /\ main.started \in BOOLEAN
      BY <1>t DEF Starts, Main
    <2>8. [main EXCEPT !.simcyc = @ + 1, !.started = @ \/ Starts(at60)] \in Main
      BY <1>t, <2>4, <2>7 DEF Main
    <2> QED  BY <1>3, <2>2, <2>5, <2>6, <2>8 DEF Cycle
  <1>4. CASE LoopDone
    <2>1. "end" \in Pcs
      BY DEF Pcs
    <2> QED  BY <1>4, <2>1, <1>g, <1>n DEF LoopDone
  <1>5. CASE ShowValue
    <2>1. "count" \in Pcs /\ "vbdBar" \in Shown /\ "vbdPlot" \in Shown
      BY DEF Pcs, Shown
    <2> QED  BY <1>5, <2>1, <1>g, <1>c, <1>a DEF ShowValue
  <1>6. CASE ShowCount
    <2>1. "vbdCycle" \in Shown
      BY DEF Shown
    <2>2. main.simcyc \in 0 .. MAX_SIM_CYC /\ main.simcyc < MAX_SIM_CYC
      BY <1>6, <1>t DEF Main, ShowCount, ShowingInv
    <2>3. main.simcyc + 1 \in 0 .. MAX_SIM_CYC
      BY <2>2, <1>t
    <2>4. [main EXCEPT !.pc = "cycle", !.simcyc = @ + 1] \in Main
      BY <1>t, <2>3 DEF Main, Pcs
    <2> QED  BY <1>6, <2>1, <2>4, <1>c, <1>a DEF ShowCount
  <1>7. CASE TurnOff
    <2>1. "close" \in Pcs /\ "exit" \in Pcs /\ "vbdBar" \in Shown
      BY DEF Pcs, Shown
    <2> QED  BY <1>7, <2>1, <1>g, <1>c, <1>n, <1>a DEF TurnOff
  <1>8. CASE Close
    <2>1. "closed" \in Pcs /\ "vbdClose" \in Shown
      BY DEF Pcs, Shown
    <2> QED  BY <1>8, <2>1, <1>g, <1>c, <1>a DEF Close
  <1>9. CASE Exit
    <2>1. "exit" \in Pcs
      BY DEF Pcs
    <2> QED  BY <1>9, <2>1, <1>g, <1>n DEF Exit
  <1>10. CASE BoardExecutes
    <2>1. queue[1].name \in Shown /\ queue[1].arg \in Arg
      BY <1>10, Executed DEF Command, Arg
    <2> QED  BY <1>10, <1>t, <2>1, Executed
  <1>11. CASE CallReturns
    BY <1>11, <1>t DEF CallReturns, Driver!Return, boardVars, keyVars
  <1>12. CASE ReadFault
    BY <1>12, <1>t DEF ReadFault, Driver!AnswerFault, boardVars, keyVars
  <1>13. ASSUME NEW k \in {"q", "x"}, TypeKey(k)
         PROVE  main' \in Main /\ TypeRest
    <2>1. keys' \in Seq({"q", "x"})
      BY <1>13, <1>t, AppendProperties DEF TypeKey
    <2>2. quitBy' \in 0 .. MAX_SIM_CYC
      <3>1. Len(keys) \in Nat /\ main.simcyc \in Nat
        BY <1>t, Types DEF Main
      <3> QED  BY <1>13, <1>t, <3>1 DEF TypeKey
    <2> QED  BY <1>13, <1>t, <2>1, <2>2 DEF TypeKey, boardVars, driverVars
  <1>14. CASE UNCHANGED vars
    BY <1>14, <1>t DEF vars, boardVars, driverVars, keyVars
  <1> QED
    BY <1>1, <1>2, <1>3, <1>4, <1>5, <1>6, <1>7, <1>8, <1>9, <1>10, <1>11, <1>12, <1>13, <1>14
       DEF Next, MainStep
\* A call returns when the board is within the slack, and only faults and the
\* board itself change the distance between calls.
LEMMA DriverStep ==
    ASSUME TypeOK, DriverInv, [Next]_vars
    PROVE  DriverInv'
  <1>t. Len(queue) \in Nat /\ slack \in Nat /\ busy \in BOOLEAN
    BY Types
  <1>1. CASE MainStep
    <2>1. CASE NoCall
      BY <2>1 DEF NoCall, boardVars, driverVars, DriverInv
    <2>2. ASSUME NEW name \in Shown, NEW arg \in Arg, CallVbd(name, arg)
          PROVE  DriverInv'
      BY <2>2, Issued DEF DriverInv
    <2> QED  BY <1>1, <2>1, <2>2, CallOrNot
  <1>2. CASE BoardExecutes
    BY <1>2, <1>t, Executed DEF DriverInv
  <1>3. CASE CallReturns
    BY <1>3, <1>t DEF CallReturns, Driver!Return, DriverInv
  <1>4. CASE ReadFault
    BY <1>4, <1>t DEF ReadFault, Driver!AnswerFault, DriverInv
  <1>5. CASE (\E k \in {"q", "x"} : TypeKey(k)) \/ UNCHANGED vars
    BY <1>5 DEF TypeKey, vars, boardVars, driverVars, DriverInv
  <1> QED  BY <1>1, <1>2, <1>3, <1>4, <1>5 DEF Next

\* Steps outside main() leave its locals alone.
LEMMA MainAlone ==
    ASSUME [Next]_vars
    PROVE  MainStep \/ main' = main
  BY DEF Next, vars, BoardExecutes, CallReturns, ReadFault, TypeKey

\* The loop enters the showing of a cycle with the guards of Cycle.
LEMMA ShowingStep ==
    ASSUME TypeOK, ShowingInv, [Next]_vars
    PROVE  ShowingInv'
  <1>t. main \in Main /\ MAX_SIM_CYC \in Nat
    BY Types
  <1>1. CASE main' = main
    BY <1>1 DEF ShowingInv
  <1>2. ASSUME NEW pc \in Pcs \ {"value", "count"}, Goto(pc)
        PROVE  ShowingInv'
    BY <1>2, <1>t DEF Goto, ShowingInv, Main
  <1>3. CASE Open \/ Header \/ LoopDone \/ TurnOff \/ Close \/ Exit
    <2>1. {"cycle", "failed", "header", "end", "close", "closed", "exit"} \subseteq Pcs \ {"value", "count"}
      BY DEF Pcs
    <2> QED  BY <1>2, <1>3, <2>1 DEF Open, Header, LoopDone, TurnOff, Close, Exit
  <1>4. ASSUME NEW at60 \in BOOLEAN, Cycle(at60)
        PROVE  ShowingInv'
    <2>1. main.pc = "cycle" /\ main.simcyc < MAX_SIM_CYC
      BY <1>4 DEF Cycle
    <2>2. CASE main' = [main EXCEPT !.pc = "end"]
      BY <2>2, <1>t DEF Main, ShowingInv
    <2>3. CASE Shows(at60) /\ main' = [main EXCEPT !.pc = "value", !.reg_output = main.simcyc]
      BY <2>1, <2>3, <1>t DEF Main, ShowingInv, Shows
    <2>4. CASE main' = [main EXCEPT !.simcyc = @ + 1, !.started = @ \/ Starts(at60)]
      <3>1. main'.pc = "cycle"
        BY <2>1, <2>4, <1>t DEF Main
      <3> QED  BY <3>1 DEF ShowingInv
    <2> QED  BY <1>4, <2>2, <2>3, <2>4 DEF Cycle
  <1>5. CASE ShowValue
    BY <1>5, <1>t DEF ShowValue, Goto, ShowingInv, Main
  <1>6. CASE ShowCount
    <2>1. main'.pc = "cycle"
      BY <1>6, <1>t DEF ShowCount, Main
    <2> QED  BY <2>1 DEF ShowingInv
  <1> QED  BY <1>1, <1>3, <1>4, <1>5, <1>6, MainAlone DEF MainStep

\* A q moves one place forward with every cycle.
LEMMA QuitStep ==
    ASSUME TypeOK, QuitDue, [Next]_vars
    PROVE  QuitDue'
  <1>t. /\ main \in Main /\ MAX_SIM_CYC \in Nat /\ keys \in Seq({"q", "x"}) /\ Len(keys) \in Nat
        /\ quitBy \in Nat /\ quitBy <= MAX_SIM_CYC
    BY Types
  <1>m. main.simcyc \in Nat /\ main.simcyc <= MAX_SIM_CYC
    BY <1>t DEF Main
  <1>1. CASE UNCHANGED <<main, keys, quitBy>>
    BY <1>1 DEF QuitDue
  <1>2. ASSUME main.pc \in {"start", "header"}, UNCHANGED <<keys, quitBy>>,
               NEW pc \in Pcs \ {"value", "count"}, Goto(pc)
        PROVE  QuitDue'
    <2>1. main'.pc = pc /\ main'.simcyc = main.simcyc
      BY <1>2, <1>t DEF Goto, Main
    <2> QED  BY <1>2, <2>1, <1>m, <1>t DEF QuitDue
  <1>3. ASSUME UNCHANGED <<keys, quitBy>>,
               NEW pc \in {"end", "close", "closed", "exit"}, Goto(pc)
        PROVE  QuitDue'
    <2>1. main'.pc = pc /\ main'.simcyc = main.simcyc
      BY <1>3, <1>t DEF Goto, Main
    <2> QED  BY <1>3, <2>1 DEF QuitDue
  <1>4. CASE Open \/ Header
    <2>1. {"cycle", "failed", "header"} \subseteq Pcs \ {"value", "count"}
      BY DEF Pcs
    <2> QED  BY <1>2, <1>4, <2>1 DEF Open, Header, CallVbd, boardVars, keyVars
  <1>5. CASE LoopDone \/ TurnOff \/ Close \/ Exit
    BY <1>3, <1>5 DEF LoopDone, TurnOff, Close, Exit, CallVbd, boardVars, keyVars
  <1>6. ASSUME NEW at60 \in BOOLEAN, Cycle(at60)
        PROVE  QuitDue'
    <2>1. main.pc = "cycle" /\ main.simcyc < MAX_SIM_CYC /\ quitBy' = quitBy
      BY <1>6 DEF Cycle
    <2>2. CASE vbdGetkey = "q"
      <3>1. main'.pc = "end" /\ main'.simcyc = main.simcyc
        BY <1>6, <2>2, <1>t DEF Cycle, Main
      <3> QED  BY <2>1, <3>1 DEF QuitDue
    <2>3. CASE vbdGetkey # "q"
      <3> SUFFICES ASSUME quitBy < MAX_SIM_CYC
                   PROVE  QuitDue'
        BY <2>1 DEF QuitDue
      <3>1. PICK i \in 1 .. Len(keys) : keys[i] = "q" /\ main.simcyc + i - 1 <= quitBy
        BY <2>1 DEF QuitDue
      <3>2. keys # <<>> /\ keys' = Tail(keys)
        BY <3>1, <1>6, <1>t, EmptySeq DEF Cycle, ReadKey
      <3>3. keys[1] # "q"
        BY <2>3, <3>2, <1>t DEF vbdGetkey
      <3>4. Len(keys') = Len(keys) - 1 /\ \A j \in 1 .. Len(keys') : keys'[j] = keys[j + 1]
        BY <3>2, <1>t, HeadTailProperties
      <3>5. i - 1 \in 1 .. Len(keys') /\ keys'[i - 1] = "q"
        BY <3>1, <3>3, <3>4, <1>t
      <3>6. CASE main' = [main EXCEPT !.pc = "value", !.reg_output = main.simcyc]
        <4>1. main'.pc = "value" /\ main'.simcyc = main.simcyc
          BY <3>6, <1>t DEF Main
        <4> QED  BY <4>1, <3>1, <3>5, <2>1, <1>m, <1>t DEF QuitDue
      <3>7. CASE main' = [main EXCEPT !.simcyc = @ + 1, !.started = @ \/ Starts(at60)]
        <4>1. main'.pc = "cycle" /\ main'.simcyc = main.simcyc + 1
          BY <3>7, <2>1, <1>t DEF Main
        <4>2. main'.simcyc + (i - 1) - 1 <= quitBy
          BY <4>1, <3>1, <1>m, <1>t
        <4>3. main'.simcyc <= quitBy
          BY <4>2, <3>5, <4>1, <1>m, <1>t
        <4> QED  BY <4>1, <4>2, <4>3, <3>5, <2>1 DEF QuitDue
      <3> QED  BY <2>3, <3>6, <3>7, <1>6 DEF Cycle
    <2> QED  BY <2>2, <2>3
  <1>7. CASE ShowValue
    <2>1. main.pc = "value" /\ main'.pc = "count" /\ main'.simcyc = main.simcyc
      BY <1>7, <1>t DEF ShowValue, Goto, Main
    <2> QED  BY <1>7, <2>1 DEF ShowValue, CallVbd, boardVars, keyVars, QuitDue
  <1>8. CASE ShowCount
    <2>1. main.pc = "count" /\ main'.pc = "cycle" /\ main'.simcyc = main.simcyc + 1
      BY <1>8, <1>t DEF ShowCount, Main
    <2>2. keys' = keys /\ quitBy' = quitBy
      BY <1>8 DEF ShowCount, CallVbd, boardVars, keyVars
    <2> SUFFICES ASSUME quitBy < MAX_SIM_CYC
                 PROVE  QuitDue'
      BY <2>2 DEF QuitDue
    <2>3. PICK i \in 1 .. Len(keys) : keys[i] = "q" /\ main.simcyc + i <= quitBy
      BY <2>1 DEF QuitDue
    <2>4. main'.simcyc + i - 1 <= quitBy /\ main'.simcyc <= quitBy
      BY <2>1, <2>3, <1>m, <1>t
    <2> QED  BY <2>1, <2>2, <2>3, <2>4 DEF QuitDue
  <1>9. ASSUME NEW k \in {"q", "x"}, TypeKey(k)
        PROVE  QuitDue'
    <2>1. /\ main' = main /\ keys' = Append(keys, k)
          /\ Len(keys') = Len(keys) + 1
          /\ \A i \in 1 .. Len(keys) : keys'[i] = keys[i]
          /\ keys'[Len(keys) + 1] = k
      BY <1>9, <1>t, AppendProperties DEF TypeKey
    <2>2. CASE quitBy' = quitBy
      <3>1. ASSUME NEW n \in Nat,
                   \E i \in 1 .. Len(keys) : keys[i] = "q" /\ n + i - 1 <= quitBy
            PROVE  \E i \in 1 .. Len(keys') : keys'[i] = "q" /\ n + i - 1 <= quitBy
        BY <3>1, <2>1, <1>t
      <3>2. ASSUME NEW n \in Nat,
                   \E i \in 1 .. Len(keys) : keys[i] = "q" /\ n + i <= quitBy
            PROVE  \E i \in 1 .. Len(keys') : keys'[i] = "q" /\ n + i <= quitBy
        BY <3>2, <2>1, <1>t
      <3> QED  BY <2>1, <2>2, <3>1, <3>2, <1>m DEF QuitDue
    <2>3. CASE k = "q" /\ quitBy' = main.simcyc + Len(keys) + 1
      <3>1. Len(keys) + 1 \in 1 .. Len(keys') /\ keys'[Len(keys) + 1] = "q"
        BY <2>1, <2>3, <1>t
      <3>2. /\ main.simcyc + (Len(keys) + 1) - 1 <= quitBy'
            /\ main.simcyc + (Len(keys) + 1) <= quitBy'
            /\ main.simcyc <= quitBy'
        BY <2>3, <1>t, <1>m
      <3> QED  BY <3>1, <3>2, <2>1 DEF QuitDue
    <2> QED  BY <1>9, <2>2, <2>3 DEF TypeKey
  <1>10. CASE BoardExecutes \/ CallReturns \/ ReadFault \/ UNCHANGED vars
    BY <1>10, <1>1 DEF BoardExecutes, CallReturns, ReadFault, vars, boardVars, keyVars
  <1> QED  BY <1>4, <1>5, <1>6, <1>7, <1>8, <1>9, <1>10 DEF Next, MainStep
\* TurnOff and Close issue the last two commands; executing a command keeps
\* that, whatever was queued in front of them.
LEMMA EndStep ==
    ASSUME TypeOK, EndInv, [Next]_vars
    PROVE  EndInv'
  <1>t. /\ main \in Main /\ queue \in Seq(Command) /\ Len(queue) \in Nat
        /\ screen \in [Shown -> Arg] /\ MAX_SIM_CYC \in Nat
    BY Types
  <1>s. {"vbdBar", "vbdClose"} \subseteq Shown /\ Nothing \in Arg /\ LedsOff \in Arg
    BY <1>t DEF Shown, Nothing, LedsOff, Arg
  <1>1. CASE UNCHANGED <<main, queue, screen, last>>
    BY <1>1 DEF EndInv, LedsOut, StopLast
  <1>2. ASSUME main'.pc \notin {"close", "closed", "exit"} \/ (main'.pc = "exit" /\ ~main'.VBUDDY)
        PROVE  EndInv'
    BY <1>2 DEF EndInv
  <1>3. CASE Open \/ Header \/ LoopDone \/ ShowValue
    <2>1. main'.pc \in {"cycle", "failed", "header", "end", "count"}
      BY <1>3, <1>t DEF Open, Header, LoopDone, ShowValue, Goto, Main
    <2> QED  BY <2>1, <1>2
  <1>4. ASSUME NEW at60 \in BOOLEAN, Cycle(at60)
        PROVE  EndInv'
    <2>1. CASE main' = [main EXCEPT !.pc = "end"]
      BY <2>1, <1>2, <1>t DEF Main
    <2>2. CASE main' = [main EXCEPT !.pc = "value", !.reg_output = main.simcyc]
      BY <2>2, <1>2, <1>t DEF Main
    <2>3. CASE main' = [main EXCEPT !.simcyc = @ + 1, !.started = @ \/ Starts(at60)]
      <3>1. main'.pc = "cycle"
        BY <2>3, <1>4, <1>t DEF Main, Cycle
      <3> QED  BY <3>1, <1>2
    <2> QED  BY <1>4, <2>1, <2>2, <2>3 DEF Cycle
  <1>5. CASE ShowCount
    <2>1. main'.pc = "cycle"
      BY <1>5, <1>t DEF ShowCount, Main
    <2> QED  BY <2>1, <1>2
  <1>6. CASE TurnOff
    <2>1. CASE main.VBUDDY
      <3>1. CallVbd("vbdBar", LedsOff)
        BY <1>6, <2>1 DEF TurnOff
      <3>2. /\ Len(queue') = Len(queue) + 1
            /\ queue'[Len(queue) + 1] = Cmd("vbdBar", LedsOff)
        BY <3>1, <1>s, Issued
      <3>3. LedsOut(Len(queue))'
        BY <3>2, <1>t DEF LedsOut, Cmd
      <3>4. main'.pc = "close"
        BY <1>6, <2>1, <1>t DEF TurnOff, Goto, Main
      <3> QED  BY <3>3, <3>4 DEF EndInv
    <2>2. CASE ~main.VBUDDY
      <3>1. main'.pc = "exit" /\ main'.VBUDDY = main.VBUDDY
        BY <1>6, <2>2, <1>t DEF TurnOff, Goto, Main
      <3> QED  BY <3>1, <2>2, <1>2
    <2> QED  BY <2>1, <2>2
  <1>7. CASE Close
    <2>1. LedsOut(Len(queue)) /\ main'.pc = "closed"
      BY <1>7, <1>t DEF Close, EndInv, Goto, Main
    <2>2. CallVbd("vbdClose", Nothing)
      BY <1>7 DEF Close
    <2>3. /\ Len(queue') = Len(queue) + 1
          /\ \A i \in 1 .. Len(queue) : queue'[i] = queue[i]
          /\ queue'[Len(queue) + 1] = Cmd("vbdClose", Nothing)
          /\ screen' = screen /\ last' = last
      BY <2>2, <1>s, Issued
    <2>4. StopLast'
      BY <2>3, <1>t DEF StopLast, Cmd
    <2>5. Len(queue') - 1 = Len(queue) /\ (Len(queue) >= 1 => Len(queue) \in 1 .. Len(queue))
      BY <2>3, <1>t
    <2>6. LedsOut(Len(queue) - 1)'
      BY <2>1, <2>3, <2>5 DEF LedsOut, Cmd
    <2> QED  BY <2>1, <2>4, <2>6 DEF EndInv
  <1>8. CASE Exit
    <2>1. main.pc = "closed" /\ queue' = queue /\ screen' = screen /\ last' = last /\ main'.pc = "exit"
      BY <1>8, <1>t DEF Exit, NoCall, boardVars, driverVars, Goto, Main
    <2> QED  BY <2>1 DEF EndInv, LedsOut, StopLast
  <1>9. CASE BoardExecutes
    <2>1. /\ Len(queue) \in Nat \ {0}
          /\ queue[1] \in Command
          /\ Len(queue') = Len(queue) - 1
          /\ \A i \in 1 .. Len(queue') : queue'[i] = queue[i + 1]
          /\ screen' = [screen EXCEPT ![queue[1].name] = queue[1].arg] /\ last' = queue[1]
          /\ main' = main
      BY <1>9, Executed
    <2>2. /\ queue[1].name # "vbdBar" => screen'["vbdBar"] = screen["vbdBar"]
          /\ queue[1].name = "vbdBar" => screen'["vbdBar"] = queue[1].arg
      BY <2>1, <1>t, <1>s
    <2> DEFINE Out(n) == IF n >= 1 THEN queue'[n] = Cmd("vbdBar", LedsOff)
                         ELSE screen'["vbdBar"] = LedsOff /\ (n = 0 => last' = Cmd("vbdBar", LedsOff))
    <2>3. ASSUME NEW n \in 1 .. Len(queue), LedsOut(n)
          PROVE  Out(n - 1)
      <3>1. CASE n = 1
        <4>1. queue[1] = Cmd("vbdBar", LedsOff)
          BY <2>3, <3>1 DEF LedsOut
        <4>2. screen'["vbdBar"] = LedsOff
          BY <4>1, <2>2 DEF Cmd
        <4> QED  BY <3>1, <4>1, <4>2, <2>1
      <3>2. CASE n # 1
        <4>1. n - 1 \in 1 .. Len(queue') /\ (n - 1) + 1 = n
          BY <3>2, <2>1
        <4>2. queue'[n - 1] = Cmd("vbdBar", LedsOff)
          BY <4>1, <2>1, <2>3 DEF LedsOut
        <4> QED  BY <4>1, <4>2
      <3> QED  BY <3>1, <3>2
    <2>4. CASE main.pc = "close"
      <3>1. Len(queue) \in 1 .. Len(queue) /\ LedsOut(Len(queue)) /\ Len(queue') = Len(queue) - 1
        BY <2>1, <2>4 DEF EndInv
      <3>2. Out(Len(queue) - 1)
        BY <3>1, <2>3
      <3>3. LedsOut(Len(queue))'
        BY <3>1, <3>2 DEF LedsOut, Cmd, LedsOff
      <3> QED  BY <2>1, <2>4, <3>3 DEF EndInv
    <2>5. CASE main.pc = "closed" \/ (main.pc = "exit" /\ main.VBUDDY)
      <3>1. queue[Len(queue)] = Cmd("vbdClose", Nothing) /\ LedsOut(Len(queue) - 1)
        BY <2>1, <2>5 DEF EndInv, StopLast
      <3>2. StopLast'
        <4>1. CASE Len(queue) = 1
          BY <4>1, <2>1, <3>1 DEF StopLast, Cmd, Nothing
        <4>2. CASE Len(queue) # 1
          <5>1. Len(queue') \in 1 .. Len(queue') /\ Len(queue') + 1 = Len(queue)
            BY <4>2, <2>1
          <5> QED  BY <5>1, <2>1, <3>1 DEF StopLast, Cmd, Nothing
        <4> QED  BY <4>1, <4>2
      <3>3. LedsOut(Len(queue) - 1)'
        <4>1. CASE Len(queue) = 1
          <5>1. queue[1].name = "vbdClose" /\ screen["vbdBar"] = LedsOff
            BY <4>1, <3>1 DEF LedsOut, Cmd
          <5>2. Len(queue') - 1 = -1 /\ screen'["vbdBar"] = LedsOff
            BY <4>1, <5>1, <2>1, <2>2
          <5> QED  BY <5>2 DEF LedsOut, LedsOff
        <4>2. CASE Len(queue) # 1
          <5>1. Len(queue) - 1 \in 1 .. Len(queue) /\ Len(queue') = Len(queue) - 1
            BY <4>2, <2>1
          <5>2. Out((Len(queue) - 1) - 1)
            BY <5>1, <3>1, <2>3
          <5> QED  BY <5>1, <5>2 DEF LedsOut, Cmd, LedsOff
        <4> QED  BY <4>1, <4>2
      <3> QED  BY <2>1, <2>5, <3>2, <3>3 DEF EndInv
    <2> QED  BY <2>1, <2>4, <2>5 DEF EndInv
  <1>10. CASE CallReturns \/ ReadFault \/ (\E k \in {"q", "x"} : TypeKey(k)) \/ UNCHANGED vars
    BY <1>10, <1>1 DEF CallReturns, ReadFault, TypeKey, vars, boardVars, driverVars, Driver!Return,
                       Driver!AnswerFault
  <1> QED  BY <1>3, <1>4, <1>5, <1>6, <1>7, <1>8, <1>9, <1>10 DEF Next, MainStep
-----------------------------------------------------------------------------
(* What the board shows                                                    *)

\* The program is chosen when the testbench is compiled.
LEMMA ProgramFixed ==
    ASSUME TypeOK, [Next]_vars
    PROVE  /\ main'.program = main.program /\ main'.VBUDDY = main.VBUDDY
           /\ ValueCommand' = ValueCommand /\ Distance' = Distance
           /\ ValueCommand \in Shown /\ ValueCommand # "vbdCycle" /\ Distance \in {1, 4}
  <1>t. main \in Main
    BY Types
  <1>1. main'.program = main.program /\ main'.VBUDDY = main.VBUDDY
    <2>1. CASE main' = main
      BY <2>1
    <2>2. CASE Open \/ Header \/ LoopDone \/ ShowValue \/ TurnOff \/ Close \/ Exit
      BY <2>2, <1>t DEF Open, Header, LoopDone, ShowValue, TurnOff, Close, Exit, Goto, Main
    <2>3. CASE ShowCount
      BY <2>3, <1>t DEF ShowCount, Main
    <2>4. ASSUME NEW at60 \in BOOLEAN, Cycle(at60)
          PROVE  main'.program = main.program /\ main'.VBUDDY = main.VBUDDY
      BY <2>4, <1>t DEF Cycle, Main
    <2> QED  BY <2>1, <2>2, <2>3, <2>4, MainAlone DEF MainStep
  <1> QED  BY <1>1 DEF ValueCommand, Distance, Shown

\* The board executes a command: what was said of the queue still holds of the
\* rest of it and of the screen.
LEMMA ShowExecuted ==
    ASSUME TypeOK, PairInv, DistanceInv, IssuedInv, BoardExecutes
    PROVE  ShowInv'
  <1>t. /\ main \in Main /\ screen \in [Shown -> Arg] /\ MAX_SIM_CYC \in Nat
        /\ queue \in Seq(Command)
    BY Types
  <1>1. /\ Len(queue) \in Nat \ {0}
        /\ queue[1] \in Command
        /\ queue' \in Seq(Command)
        /\ Len(queue') = Len(queue) - 1
        /\ \A i \in 1 .. Len(queue') : queue'[i] = queue[i + 1]
        /\ screen' = [screen EXCEPT ![queue[1].name] = queue[1].arg]
        /\ main' = main
    BY Executed
  <1>v. /\ ValueCommand' = ValueCommand /\ Distance' = Distance
        /\ ValueCommand \in Shown /\ ValueCommand # "vbdCycle" /\ Distance \in {1, 4}
    BY ProgramFixed DEF Next
  <1>2. /\ "vbdCycle" \in Shown
        /\ \A n \in Shown : screen'[n] = IF queue[1].name = n THEN queue[1].arg ELSE screen[n]
    BY <1>1, <1>t DEF Shown
  <1>3. PairInv'
    <2> SUFFICES ASSUME NEW i \in 1 .. Len(queue'), Count(i)'
                 PROVE  IF i = 1 THEN screen'[ValueCommand] = queue'[i].arg
                        ELSE queue'[i - 1] = Cmd(ValueCommand, queue'[i].arg)
      BY <1>v DEF PairInv, Cmd
    <2>1. i + 1 \in 1 .. Len(queue) /\ queue'[i] = queue[i + 1] /\ i + 1 # 1 /\ i = (i + 1) - 1
      BY <1>1
    <2>2. Count(i + 1)
      BY <2>1 DEF Count
    <2>3. queue[i] = Cmd(ValueCommand, queue'[i].arg)
      BY <2>1, <2>2 DEF PairInv
    <2>4. CASE i = 1
      BY <2>3, <2>4, <1>2, <1>v DEF Cmd
    <2>5. CASE i # 1
      <3>1. i - 1 \in 1 .. Len(queue') /\ (i - 1) + 1 = i
        BY <2>5, <1>1
      <3>2. queue'[i - 1] = queue[i]
        BY <3>1, <1>1
      <3> QED  BY <2>3, <2>5, <3>2
    <2> QED  BY <2>4, <2>5
  <1>4. DistanceInv'
    <2> SUFFICES ASSUME NEW i \in 1 .. Len(queue'), Count(i)'
                 PROVE  IF \E j \in 1 .. i - 1 : Count(j)'
                        THEN i >= 3 /\ queue'[i - 2] = Cmd("vbdCycle", queue'[i].arg - Distance)
                        ELSE screen'["vbdCycle"] \in {Nothing, queue'[i].arg - Distance}
      BY <1>v DEF DistanceInv, Cmd, Nothing
    <2>1. i + 1 \in 1 .. Len(queue) /\ queue'[i] = queue[i + 1]
      BY <1>1
    <2>2. Count(i + 1)
      BY <2>1 DEF Count
    <2>3. queue[i] = Cmd(ValueCommand, queue'[i].arg)
      <3>1. i + 1 # 1 /\ (i + 1) - 1 = i
        BY <1>1
      <3> QED  BY <2>1, <2>2, <3>1 DEF PairInv
    <2>4. ~Count(i)
      BY <2>3, <1>v DEF Count, Cmd
    <2>5. ASSUME NEW j \in 1 .. i, Count(j)
          PROVE  i >= 2 /\ queue[i - 1] = Cmd("vbdCycle", queue'[i].arg - Distance)
      <3>1. \E k \in 1 .. (i + 1) - 1 : Count(k)
        BY <2>5, <1>1
      <3>2. i + 1 >= 3 /\ queue[(i + 1) - 2] = Cmd("vbdCycle", queue[i + 1].arg - Distance)
        BY <2>1, <2>2, <3>1 DEF DistanceInv
      <3>3. i \in Nat /\ (i + 1) - 2 = i - 1
        BY <1>1
      <3> QED  BY <2>1, <3>2, <3>3
    <2>6. ASSUME NEW j \in 1 .. i - 1, Count(j)'
          PROVE  i >= 3 /\ queue'[i - 2] = Cmd("vbdCycle", queue'[i].arg - Distance)
      <3>1. j + 1 \in 1 .. i /\ queue'[j] = queue[j + 1]
        BY <1>1
      <3>2. Count(j + 1)
        BY <2>6, <3>1 DEF Count
      <3>3. i >= 2 /\ queue[i - 1] = Cmd("vbdCycle", queue'[i].arg - Distance)
        BY <2>5, <3>1, <3>2
      <3>4. i # 2
        <4> SUFFICES ASSUME i = 2 PROVE FALSE
          OBVIOUS
        <4>1. j + 1 = 2
          BY <1>1
        <4> QED  BY <4>1, <3>2, <2>4
      <3>5. i >= 3 /\ i - 2 \in 1 .. Len(queue') /\ (i - 2) + 1 = i - 1
        BY <3>3, <3>4, <1>1
      <3>6. queue'[i - 2] = queue[i - 1]
        BY <3>5, <1>1
      <3> QED  BY <3>3, <3>5, <3>6
    <2>7. ASSUME ~\E j \in 1 .. i - 1 : Count(j)'
          PROVE  screen'["vbdCycle"] \in {Nothing, queue'[i].arg - Distance}
      <3>1. CASE Count(1)
        <4>1. 1 \in 1 .. i
          BY <1>1
        <4>2. i >= 2 /\ queue[i - 1] = Cmd("vbdCycle", queue'[i].arg - Distance)
          BY <2>5, <3>1, <4>1
        <4>3. i = 2
          <5> SUFFICES ASSUME i # 2 PROVE FALSE
            OBVIOUS
          <5>1. i - 2 \in 1 .. Len(queue') /\ i - 2 \in 1 .. i - 1 /\ (i - 2) + 1 = i - 1
            BY <4>2, <1>1
          <5>2. queue'[i - 2] = queue[i - 1]
            BY <5>1, <1>1
          <5>3. Count(i - 2)'
            BY <5>2, <4>2 DEF Count, Cmd
          <5> QED  BY <5>1, <5>3, <2>7
        <4>4. queue[1] = Cmd("vbdCycle", queue'[i].arg - Distance)
          BY <4>2, <4>3
        <4> QED  BY <4>4, <1>2 DEF Cmd
      <3>2. CASE ~Count(1)
        <4>1. screen'["vbdCycle"] = screen["vbdCycle"]
          BY <3>2, <1>2 DEF Count
        <4>2. ASSUME NEW j \in 1 .. (i + 1) - 1, Count(j)
              PROVE  FALSE
          <5>1. j # 1 /\ j # i
            BY <3>2, <4>2, <2>4
          <5>2. j - 1 \in 1 .. i - 1 /\ j - 1 \in 1 .. Len(queue') /\ (j - 1) + 1 = j
            BY <5>1, <1>1
          <5>3. queue'[j - 1] = queue[j]
            BY <5>2, <1>1
          <5>4. Count(j - 1)'
            BY <5>3, <4>2 DEF Count
          <5> QED  BY <5>2, <5>4, <2>7
        <4>3. screen["vbdCycle"] \in {Nothing, queue[i + 1].arg - Distance}
          BY <2>1, <2>2, <4>2 DEF DistanceInv
        <4> QED  BY <4>1, <4>3, <2>1
      <3> QED  BY <3>1, <3>2
    <2> QED  BY <2>6, <2>7
  <1>5. NoneYet => NoneYet'
    <2> SUFFICES ASSUME NoneYet PROVE NoneYet'
      OBVIOUS
    <2>1. ~Count(1)
      BY <1>1 DEF NoneYet
    <2>2. screen'["vbdCycle"] = Nothing
      BY <2>1, <1>2 DEF NoneYet, Count
    <2>3. \A i \in 1 .. Len(queue') : ~Count(i)'
      BY <1>1 DEF NoneYet, Count
    <2> QED  BY <2>2, <2>3 DEF NoneYet, Nothing
  <1> DEFINE Then(l, n) == IF n >= 1 THEN queue'[n] = Cmd("vbdCycle", l) ELSE screen'["vbdCycle"] = l
  <1>6. ASSUME NEW l, NEW n \in 0 .. Len(queue), IssuedLast(l, n)
        PROVE  n >= 1 => Then(l, n - 1)
    <2>1. CASE n >= 2
      <3>1. n - 1 \in 1 .. Len(queue') /\ (n - 1) + 1 = n
        BY <2>1, <1>1
      <3> QED  BY <2>1, <3>1, <1>6, <1>1 DEF IssuedLast, Cmd
    <2>2. CASE n = 1
      <3>1. screen'["vbdCycle"] = l
        BY <2>2, <1>6, <1>2 DEF IssuedLast, Cmd
      <3> QED  BY <2>2, <3>1
    <2> QED  BY <2>1, <2>2, <1>1
  <1>7. IssuedInv'
    <2>1. ASSUME main.pc \in {"cycle", "value"}
          PROVE  (NoneYet \/ \E l \in 0 .. MAX_SIM_CYC : IssuedLast(l, Len(queue)) /\ LastShown(l))'
      <3>1. CASE NoneYet
        BY <3>1, <1>5
      <3>2. ASSUME NEW l \in 0 .. MAX_SIM_CYC, IssuedLast(l, Len(queue)), LastShown(l)
            PROVE  IssuedLast(l, Len(queue))' /\ LastShown(l)'
        <4>1. Len(queue) \in 0 .. Len(queue) /\ Len(queue) >= 1 /\ Len(queue) - 1 = Len(queue')
          BY <1>1
        <4>2. Then(l, Len(queue) - 1)
          BY <3>2, <4>1, <1>6
        <4> QED  BY <4>1, <4>2, <3>2, <1>1 DEF LastShown, IssuedLast
      <3> QED  BY <2>1, <3>1, <3>2 DEF IssuedInv
    <2>2. ASSUME main.pc = "count"
          PROVE  IF queue' = <<>> THEN screen'[ValueCommand] = main.simcyc
                 ELSE queue'[Len(queue')] = Cmd(ValueCommand, main.simcyc)
      <3>1. queue[Len(queue)] = Cmd(ValueCommand, main.simcyc)
        BY <2>2, <1>1 DEF IssuedInv
      <3>2. CASE Len(queue) = 1
        <4>1. queue' = <<>>
          BY <3>2, <1>1, EmptySeq
        <4> QED  BY <3>1, <3>2, <4>1, <1>2, <1>v DEF Cmd
      <3>3. CASE Len(queue) # 1
        <4>1. Len(queue') \in 1 .. Len(queue') /\ Len(queue') + 1 = Len(queue)
          BY <3>3, <1>1
        <4>2. queue' # <<>> /\ queue'[Len(queue')] = queue[Len(queue)]
          BY <4>1, <1>1, EmptySeq
        <4> QED  BY <3>1, <4>2
      <3> QED  BY <3>2, <3>3
    <2>3. ASSUME main.pc = "count"
          PROVE  (NoneYet \/ \E l \in 0 .. MAX_SIM_CYC : IssuedLast(l, Len(queue) - 1) /\ LastShown(l))'
      <3>1. CASE NoneYet
        BY <3>1, <1>5
      <3>2. ASSUME NEW l \in 0 .. MAX_SIM_CYC, IssuedLast(l, Len(queue) - 1), LastShown(l)
            PROVE  IssuedLast(l, Len(queue) - 1)' /\ LastShown(l)'
        <4>1. Len(queue) - 1 \in 0 .. Len(queue) /\ Len(queue) - 1 = Len(queue')
          BY <1>1
        <4>2. CASE Len(queue) - 1 >= 1
          <5>1. Then(l, (Len(queue) - 1) - 1)
            BY <3>2, <4>1, <4>2, <1>6
          <5> QED  BY <5>1, <4>1, <3>2, <1>1 DEF LastShown, IssuedLast
        <4>3. CASE ~(Len(queue) - 1 >= 1)
          <5>1. Len(queue) = 1
            BY <4>3, <1>1
          <5>2. queue[1].name # "vbdCycle"
            BY <2>3, <5>1, <1>1, <1>v DEF IssuedInv, Cmd
          <5>3. screen'["vbdCycle"] = l
            BY <5>1, <5>2, <3>2, <1>2 DEF IssuedLast
          <5>4. ~(Len(queue') - 1 >= 1)
            BY <4>1, <5>1
          <5> QED  BY <5>3, <5>4, <3>2, <1>1 DEF LastShown, IssuedLast
        <4> QED  BY <4>2, <4>3
      <3> QED  BY <2>3, <3>1, <3>2 DEF IssuedInv
    <2>4. main.pc \in {"start", "header"} => NoneYet'
      BY <1>5 DEF IssuedInv
    <2> QED  BY <2>1, <2>2, <2>3, <2>4, <1>1, <1>v DEF IssuedInv, Cmd
  <1> QED  BY <1>3, <1>4, <1>7 DEF ShowInv
\* A command other than a count is issued, or none: the pairs and distances
\* in the queue are the same, and so is whether a count was issued.
LEMMA ShowUncounted ==
    ASSUME TypeOK, PairInv, DistanceInv, MainStep,
           NoCall \/ \E name \in Shown \ {"vbdCycle"}, arg \in Arg : CallVbd(name, arg)
    PROVE  PairInv' /\ DistanceInv' /\ (NoneYet => NoneYet')
  <1>v. ValueCommand' = ValueCommand /\ Distance' = Distance
    BY ProgramFixed DEF Next
  <1>t. Len(queue) \in Nat
    BY Types
  <1>1. CASE NoCall
    BY <1>1, <1>v DEF NoCall, boardVars, driverVars, PairInv, DistanceInv, NoneYet, Count
  <1>2. ASSUME NEW name \in Shown \ {"vbdCycle"}, NEW arg \in Arg, CallVbd(name, arg)
        PROVE  PairInv' /\ DistanceInv' /\ (NoneYet => NoneYet')
    <2>1. /\ Len(queue') = Len(queue) + 1
          /\ \A i \in 1 .. Len(queue) : queue'[i] = queue[i]
          /\ queue'[Len(queue) + 1] = Cmd(name, arg)
          /\ screen' = screen
      BY <1>2, Issued
    <2>2. \A i \in 1 .. Len(queue') : Count(i)' => i \in 1 .. Len(queue) /\ Count(i)
      BY <2>1, <1>t DEF Count, Cmd
    <2>3. \A i \in 1 .. Len(queue) : \A j \in 1 .. i - 1 : Count(j) <=> Count(j)'
      BY <2>1, <1>t DEF Count
    <2>4. PairInv'
      <3> SUFFICES ASSUME NEW i \in 1 .. Len(queue'), Count(i)'
                   PROVE  IF i = 1 THEN screen'[ValueCommand] = queue'[i].arg
                          ELSE queue'[i - 1] = Cmd(ValueCommand, queue'[i].arg)
        BY <1>v DEF PairInv, Cmd
      <3>1. i \in 1 .. Len(queue) /\ Count(i) /\ (i # 1 => i - 1 \in 1 .. Len(queue))
        BY <2>2, <1>t
      <3> QED  BY <3>1, <2>1 DEF PairInv
    <2>5. DistanceInv'
      <3> SUFFICES ASSUME NEW i \in 1 .. Len(queue'), Count(i)'
                   PROVE  IF \E j \in 1 .. i - 1 : Count(j)'
                          THEN i >= 3 /\ queue'[i - 2] = Cmd("vbdCycle", queue'[i].arg - Distance)
                          ELSE screen'["vbdCycle"] \in {Nothing, queue'[i].arg - Distance}
        BY <1>v DEF DistanceInv, Cmd, Nothing
      <3>1. i \in 1 .. Len(queue) /\ Count(i) /\ (i >= 3 => i - 2 \in 1 .. Len(queue))
        BY <2>2, <1>t
      <3>2. (\E j \in 1 .. i - 1 : Count(j)') <=> (\E j \in 1 .. i - 1 : Count(j))
        BY <3>1, <2>3
      <3> QED  BY <3>1, <3>2, <2>1 DEF DistanceInv
    <2>6. NoneYet => NoneYet'
      BY <2>1, <2>2 DEF NoneYet, Nothing
    <2> QED  BY <2>4, <2>5, <2>6
  <1> QED  BY <1>1, <1>2

\* The count of a cycle follows its value, and the last count before it is the
\* one of the last cycle that was to be shown.
LEMMA ShowCounted ==
    ASSUME TypeOK, ShowingInv, PairInv, DistanceInv, IssuedInv, ShowCount
    PROVE  ShowInv'
  <1>t. main \in Main /\ Len(queue) \in Nat /\ MAX_SIM_CYC \in Nat /\ queue \in Seq(Command)
    BY Types
  <1>m. /\ main.simcyc \in 0 .. MAX_SIM_CYC /\ main.simcyc \in Arg
        /\ "vbdCycle" \in Shown
    BY <1>t DEF Main, Arg, LedsOff, Shown
  <1>v. /\ ValueCommand' = ValueCommand /\ Distance' = Distance
        /\ ValueCommand # "vbdCycle" /\ Distance \in {1, 4}
    BY ProgramFixed DEF Next, MainStep
  <1>1. /\ Len(queue') = Len(queue) + 1
        /\ \A i \in 1 .. Len(queue) : queue'[i] = queue[i]
        /\ queue'[Len(queue) + 1] = Cmd("vbdCycle", main.simcyc)
        /\ screen' = screen
    BY <1>m, Issued DEF ShowCount
  <1>2. /\ main.pc = "count" /\ main'.pc = "cycle" /\ main'.simcyc = main.simcyc + 1
        /\ main'.program = main.program /\ main'.started = main.started /\ main'.VBUDDY = main.VBUDDY
    BY <1>t DEF ShowCount, Main
  <1>3. IF Len(queue) = 0 THEN screen[ValueCommand] = main.simcyc
        ELSE queue[Len(queue)] = Cmd(ValueCommand, main.simcyc)
    <2>1. queue = <<>> <=> Len(queue) = 0
      BY <1>t, EmptySeq
    <2> QED  BY <2>1, <1>2 DEF IssuedInv
  <1>4. ASSUME NEW i \in 1 .. Len(queue') PROVE i \in 1 .. Len(queue) \/ i = Len(queue) + 1
    BY <1>1, <1>t
  <1>5. PairInv'
    <2> SUFFICES ASSUME NEW i \in 1 .. Len(queue'), Count(i)'
                 PROVE  IF i = 1 THEN screen'[ValueCommand] = queue'[i].arg
                        ELSE queue'[i - 1] = Cmd(ValueCommand, queue'[i].arg)
      BY <1>v DEF PairInv, Cmd
    <2>1. CASE i \in 1 .. Len(queue)
      <3>1. Count(i) /\ (i # 1 => i - 1 \in 1 .. Len(queue))
        BY <2>1, <1>1, <1>t DEF Count
      <3> QED  BY <2>1, <3>1, <1>1 DEF PairInv
    <2>2. CASE i = Len(queue) + 1
      <3>1. queue'[i].arg = main.simcyc
        BY <2>2, <1>1 DEF Cmd
      <3>2. CASE Len(queue) = 0
        BY <2>2, <3>1, <3>2, <1>3, <1>1
      <3>3. CASE Len(queue) # 0
        <4>1. i # 1 /\ i - 1 = Len(queue) /\ i - 1 \in 1 .. Len(queue)
          BY <2>2, <3>3, <1>t
        <4> QED  BY <4>1, <3>1, <3>3, <1>3, <1>1
      <3> QED  BY <3>2, <3>3
    <2> QED  BY <2>1, <2>2, <1>4
  <1>6. NoneYet \/ \E l \in 0 .. MAX_SIM_CYC : IssuedLast(l, Len(queue) - 1) /\ l = main.simcyc - Distance
    <2>1. ASSUME NEW l \in 0 .. MAX_SIM_CYC, LastShown(l)
          PROVE  l = main.simcyc - Distance
      <3>1. CASE main.program = "pdf"
        <4>1. main.simcyc % 4 = 0 /\ l % 4 = 0 /\ l < main.simcyc /\ main.simcyc <= l + 4
          BY <2>1, <3>1, <1>2 DEF LastShown, ShowingInv
        <4>2. l = main.simcyc - 4
          BY <4>1, <1>m, <1>t
        <4> QED  BY <4>2, <3>1 DEF Distance
      <3>2. CASE main.program # "pdf"
        BY <2>1, <3>2 DEF LastShown, Distance
      <3> QED  BY <3>1, <3>2
    <2> QED  BY <2>1, <1>2 DEF IssuedInv
  <1>7. DistanceInv'
    <2> SUFFICES ASSUME NEW i \in 1 .. Len(queue'), Count(i)'
                 PROVE  IF \E j \in 1 .. i - 1 : Count(j)'
                        THEN i >= 3 /\ queue'[i - 2] = Cmd("vbdCycle", queue'[i].arg - Distance)
                        ELSE screen'["vbdCycle"] \in {Nothing, queue'[i].arg - Distance}
      BY <1>v DEF DistanceInv, Cmd, Nothing
    <2>0. (\E j \in 1 .. i - 1 : Count(j)') <=> (\E j \in 1 .. i - 1 : Count(j))
      <3>1. \A j \in 1 .. i - 1 : j \in 1 .. Len(queue) /\ queue'[j] = queue[j]
        BY <1>1, <1>4, <1>t
      <3> QED  BY <3>1 DEF Count
    <2>1. CASE i \in 1 .. Len(queue)
      <3>1. Count(i) /\ (i >= 3 => i - 2 \in 1 .. Len(queue))
        BY <2>1, <1>1, <1>t DEF Count
      <3> QED  BY <2>0, <2>1, <3>1, <1>1 DEF DistanceInv
    <2>2. CASE i = Len(queue) + 1
      <3>1. queue'[i].arg = main.simcyc
        BY <2>2, <1>1 DEF Cmd
      <3>2. CASE NoneYet
        <4>1. ~\E j \in 1 .. i - 1 : Count(j)
          BY <2>2, <3>2, <1>t DEF NoneYet
        <4> QED  BY <4>1, <2>0, <3>2, <1>1 DEF NoneYet
      <3>3. CASE \E l \in 0 .. MAX_SIM_CYC : IssuedLast(l, Len(queue) - 1) /\ l = main.simcyc - Distance
        <4>1. CASE Len(queue) - 1 >= 1
          <5>1. queue[Len(queue) - 1] = Cmd("vbdCycle", main.simcyc - Distance)
            BY <3>3, <4>1 DEF IssuedLast
          <5>2. /\ Len(queue) - 1 \in 1 .. Len(queue) /\ Len(queue) - 1 \in 1 .. i - 1
                /\ i >= 3 /\ i - 2 = Len(queue) - 1
            BY <4>1, <2>2, <1>t
          <5>3. Count(Len(queue) - 1)
            BY <5>1 DEF Count, Cmd
          <5> QED  BY <5>1, <5>2, <5>3, <2>0, <3>1, <1>1
        <4>2. CASE ~(Len(queue) - 1 >= 1)
          <5>1. screen["vbdCycle"] = main.simcyc - Distance
            BY <3>3, <4>2 DEF IssuedLast
          <5>2. ASSUME NEW j \in 1 .. i - 1 PROVE ~Count(j)
            <6>1. j = Len(queue) /\ Len(queue) # 0
              BY <4>2, <2>2, <1>t
            <6> QED  BY <6>1, <1>3, <1>v DEF Count, Cmd
          <5> QED  BY <5>1, <5>2, <2>0, <3>1, <1>1
        <4> QED  BY <4>1, <4>2
      <3> QED  BY <3>2, <3>3, <1>6
    <2> QED  BY <2>1, <2>2, <1>4
  <1>8. IssuedInv'
    <2>2. Len(queue') >= 1 /\ queue'[Len(queue')] = Cmd("vbdCycle", main.simcyc)
      BY <1>1, <1>t
    <2>3. /\ main'.VBUDDY
          /\ IF main'.program = "pdf"
             THEN /\ main'.started /\ main.simcyc % 4 = 0
                  /\ main.simcyc < main'.simcyc /\ main'.simcyc <= main.simcyc + 4
             ELSE main.simcyc = main'.simcyc - 1
      BY <1>2, <1>m, <1>t DEF ShowingInv
    <2>4. \E l \in 0 .. MAX_SIM_CYC : IssuedLast(l, Len(queue))' /\ LastShown(l)'
      BY <2>2, <2>3, <1>m DEF IssuedLast, LastShown, Cmd
    <2> QED  BY <2>4, <1>2 DEF IssuedInv
  <1> QED  BY <1>5, <1>7, <1>8 DEF ShowInv

\* The steps of the loop keep what was said of the commands issued so far.
LEMMA ShowStep ==
    ASSUME TypeOK, ShowingInv, ShowInv, [Next]_vars
    PROVE  ShowInv'
  <1>i. PairInv /\ DistanceInv /\ IssuedInv
    BY DEF ShowInv
  <1>t. main \in Main /\ Len(queue) \in Nat /\ MAX_SIM_CYC \in Nat /\ queue \in Seq(Command)
    BY Types
  <1>a. Nothing \in Arg /\ LedsOff \in Arg /\ main.reg_output \in Arg
    BY <1>t DEF Nothing, LedsOff, Arg, Main
  <1>b. {"vbdClear", "vbdHeader", "vbdBar", "vbdPlot", "vbdClose"} \subseteq Shown \ {"vbdCycle"}
    BY DEF Shown
  <1>v. ValueCommand' = ValueCommand /\ Distance' = Distance
    BY ProgramFixed
  <1>1. CASE UNCHANGED <<main, queue, screen>>
    BY <1>1, <1>i, <1>v DEF ShowInv, PairInv, DistanceInv, IssuedInv, NoneYet, IssuedLast, LastShown, Count
  <1>2. CASE Open
    <2>1. PairInv' /\ DistanceInv' /\ NoneYet'
      BY <1>2, <1>a, <1>b, <1>i, ShowUncounted DEF Open, MainStep, IssuedInv
    <2>2. main'.pc \in {"cycle", "failed", "header"}
      BY <1>2, <1>t DEF Open, Goto, Main
    <2> QED  BY <2>1, <2>2 DEF ShowInv, IssuedInv
  <1>3. CASE Header
    <2>1. PairInv' /\ DistanceInv' /\ NoneYet'
      BY <1>3, <1>a, <1>b, <1>i, ShowUncounted DEF Header, MainStep, IssuedInv
    <2>2. main'.pc = "cycle"
      BY <1>3, <1>t DEF Header, Goto, Main
    <2> QED  BY <2>1, <2>2 DEF ShowInv, IssuedInv
  <1>4. CASE LoopDone \/ TurnOff \/ Close \/ Exit
    <2>1. PairInv' /\ DistanceInv'
      BY <1>4, <1>a, <1>b, <1>i, ShowUncounted DEF LoopDone, TurnOff, Close, Exit, MainStep
    <2>2. main'.pc \in {"end", "close", "closed", "exit"}
      BY <1>4, <1>t DEF LoopDone, TurnOff, Close, Exit, Goto, Main
    <2> QED  BY <2>1, <2>2 DEF ShowInv, IssuedInv
  <1>5. CASE ShowValue
    <2>1. PairInv' /\ DistanceInv' /\ (NoneYet => NoneYet')
      BY <1>5, <1>a, <1>b, <1>i, ShowUncounted DEF ShowValue, MainStep
    <2>2. main.pc = "value" /\ main' = [main EXCEPT !.pc = "count"] /\ main.reg_output = main.simcyc
      BY <1>5 DEF ShowValue, Goto, ShowingInv
    <2>3. /\ Len(queue') = Len(queue) + 1
          /\ \A i \in 1 .. Len(queue) : queue'[i] = queue[i]
          /\ queue'[Len(queue) + 1] = Cmd(ValueCommand, main.simcyc)
          /\ screen' = screen /\ queue' \in Seq(Command)
      BY <1>5, <2>2, <1>a, <1>b, Issued DEF ShowValue, ValueCommand
    <2>4. queue' # <<>> /\ queue'[Len(queue')] = Cmd(ValueCommand, main.simcyc)
      BY <2>3, <1>t, EmptySeq
    <2>5. /\ main'.pc = "count" /\ main'.simcyc = main.simcyc /\ main'.program = main.program
          /\ main'.started = main.started /\ main'.VBUDDY = main.VBUDDY
      BY <2>2, <1>t DEF Main
    <2>6. ASSUME NEW l \in 0 .. MAX_SIM_CYC, IssuedLast(l, Len(queue)), LastShown(l)
          PROVE  IssuedLast(l, Len(queue) - 1)' /\ LastShown(l)'
      <3>1. LastShown(l)'
        BY <2>5, <2>6 DEF LastShown
      <3>2. Len(queue') - 1 = Len(queue) /\ (Len(queue) >= 1 => Len(queue) \in 1 .. Len(queue))
        BY <2>3, <1>t
      <3> QED  BY <3>1, <3>2, <2>3, <2>6 DEF IssuedLast, Cmd
    <2>7. (NoneYet \/ \E l \in 0 .. MAX_SIM_CYC : IssuedLast(l, Len(queue) - 1) /\ LastShown(l))'
      BY <2>1, <2>2, <2>6, <1>i DEF IssuedInv
    <2> QED  BY <2>1, <2>4, <2>5, <2>7, <1>v DEF ShowInv, IssuedInv, Cmd
  <1>6. CASE ShowCount
    BY <1>6, <1>i, ShowCounted
  <1>7. ASSUME NEW at60 \in BOOLEAN, Cycle(at60)
        PROVE  ShowInv'
    <2>1. PairInv' /\ DistanceInv' /\ (NoneYet => NoneYet')
      BY <1>7, <1>i, ShowUncounted DEF Cycle, MainStep
    <2>2. main.pc = "cycle" /\ queue' = queue /\ screen' = screen
      BY <1>7 DEF Cycle, NoCall, boardVars, driverVars
    <2>3. CASE main' = [main EXCEPT !.pc = "end"]
      BY <2>1, <2>3, <1>t DEF ShowInv, IssuedInv, Main
    <2>4. CASE main' = [main EXCEPT !.pc = "value", !.reg_output = main.simcyc]
      <3>1. /\ main'.pc = "value" /\ main'.simcyc = main.simcyc /\ main'.program = main.program
            /\ main'.started = main.started /\ main'.VBUDDY = main.VBUDDY
        BY <2>4, <1>t DEF Main
      <3>2. (NoneYet \/ \E l \in 0 .. MAX_SIM_CYC : IssuedLast(l, Len(queue)) /\ LastShown(l))'
        BY <2>1, <2>2, <3>1, <1>i DEF IssuedInv, IssuedLast, LastShown
      <3> QED  BY <2>1, <3>1, <3>2 DEF ShowInv, IssuedInv
    <2>5. CASE ~Shows(at60) /\ main' = [main EXCEPT !.simcyc = @ + 1, !.started = @ \/ Starts(at60)]
      <3>1. /\ main'.pc = "cycle" /\ main'.simcyc = main.simcyc + 1 /\ main'.program = main.program
            /\ main'.started = (main.started \/ Starts(at60)) /\ main'.VBUDDY = main.VBUDDY
        BY <2>2, <2>5, <1>t DEF Main
      <3>2. ASSUME NEW l \in 0 .. MAX_SIM_CYC, LastShown(l)
            PROVE  LastShown(l)'
        <4>1. main.program = "pdf" /\ main.started /\ main.simcyc % 4 # 0
          BY <2>5, <3>2 DEF Shows, LastShown
        <4>2. l % 4 = 0 /\ l < main.simcyc /\ main.simcyc <= l + 4 /\ main.simcyc \in 0 .. MAX_SIM_CYC
          BY <3>2, <4>1, <1>t DEF LastShown, Main
        <4>3. l < main.simcyc + 1 /\ main.simcyc + 1 <= l + 4
          BY <4>1, <4>2, <1>t
        <4> QED  BY <3>1, <3>2, <4>1, <4>2, <4>3 DEF LastShown
      <3>3. (NoneYet \/ \E l \in 0 .. MAX_SIM_CYC : IssuedLast(l, Len(queue)) /\ LastShown(l))'
        BY <2>1, <2>2, <3>2, <1>i DEF IssuedInv, IssuedLast
      <3> QED  BY <2>1, <3>1, <3>3 DEF ShowInv, IssuedInv
    <2> QED  BY <1>7, <2>3, <2>4, <2>5 DEF Cycle
  <1>8. CASE BoardExecutes
    BY <1>8, <1>i, ShowExecuted
  <1>9. CASE CallReturns \/ ReadFault \/ (\E k \in {"q", "x"} : TypeKey(k)) \/ UNCHANGED vars
    BY <1>9, <1>1 DEF CallReturns, ReadFault, TypeKey, vars, boardVars, driverVars, Driver!Return,
                      Driver!AnswerFault
  <1> QED  BY <1>2, <1>3, <1>4, <1>5, <1>6, <1>7, <1>8, <1>9 DEF Next, MainStep

\* The first count to be issued is that of the first cycle to be shown.
LEMMA FirstStep ==
    ASSUME TypeOK, ShowingInv, FirstInv, [Next]_vars
    PROVE  FirstInv'
  <1>t. /\ main \in Main /\ Len(queue) \in Nat /\ MAX_SIM_CYC \in Nat
        /\ screen \in [Shown -> Arg]
    BY Types
  <1>v. main'.program = main.program /\ main'.VBUDDY = main.VBUDDY
    BY ProgramFixed
  <1>1. CASE UNCHANGED <<main, queue, screen>>
    BY <1>1 DEF FirstInv, FirstShown, NoneYet, Count
  <1>2. ASSUME NoCall \/ \E name \in Shown \ {"vbdCycle"}, arg \in Arg : CallVbd(name, arg),
               \/ main'.pc \notin {"start", "header", "cycle", "value", "count"}
               \/ /\ main.pc \in {"start", "header", "cycle", "value"}
                  /\ main'.simcyc = main.simcyc \/ ~main.VBUDDY \/ main.program = "pdf"
        PROVE  FirstInv'
    <2>1. /\ screen' = screen
          /\ Len(queue) <= Len(queue')
          /\ \A i \in 1 .. Len(queue) : queue'[i] = queue[i]
          /\ \A i \in 1 .. Len(queue') : Count(i)' => i \in 1 .. Len(queue)
      <3>1. CASE NoCall
        BY <3>1, <1>t DEF NoCall, driverVars, boardVars
      <3>2. ASSUME NEW name \in Shown \ {"vbdCycle"}, NEW arg \in Arg, CallVbd(name, arg)
            PROVE  /\ screen' = screen
                   /\ Len(queue) <= Len(queue')
                   /\ \A i \in 1 .. Len(queue) : queue'[i] = queue[i]
                   /\ \A i \in 1 .. Len(queue') : Count(i)' => i \in 1 .. Len(queue)
        <4>1. /\ Len(queue') = Len(queue) + 1
              /\ \A i \in 1 .. Len(queue) : queue'[i] = queue[i]
              /\ queue'[Len(queue) + 1] = Cmd(name, arg)
              /\ screen' = screen
          BY <3>2, Issued
        <4>2. \A i \in 1 .. Len(queue') : Count(i)' => i \in 1 .. Len(queue)
          BY <4>1, <1>t DEF Count, Cmd
        <4> QED  BY <4>1, <4>2, <1>t
      <3> QED  BY <1>2, <3>1, <3>2
    <2>2. \A i \in 1 .. Len(queue) : Count(i)' <=> Count(i)
      BY <2>1 DEF Count
    <2>3. NoneYet' => NoneYet
      BY <2>1, <2>2, <1>t DEF NoneYet, Nothing
    <2>4. ASSUME NEW i \in 1 .. Len(queue'), Count(i)'
          PROVE  /\ queue'[i].arg >= 0
                 /\ (\A j \in 1 .. i - 1 : ~Count(j)') /\ screen'["vbdCycle"] = Nothing =>
                      FirstShown(queue[i].arg)'
      <3>1. i \in 1 .. Len(queue) /\ Count(i) /\ queue'[i] = queue[i]
        BY <2>1, <2>2, <2>4
      <3>2. \A j \in 1 .. i - 1 : Count(j)' <=> Count(j)
        BY <2>2, <3>1, <1>t
      <3> QED  BY <2>1, <3>1, <3>2, <1>v DEF FirstInv, FirstShown
    <2> QED  BY <1>2, <2>3, <2>4, <1>v DEF FirstInv, Nothing
  <1>a. Nothing \in Arg /\ LedsOff \in Arg /\ main.reg_output \in Arg
    BY <1>t DEF Nothing, LedsOff, Arg, Main
  <1>b. {"vbdClear", "vbdHeader", "vbdBar", "vbdPlot", "vbdClose"} \subseteq Shown \ {"vbdCycle"}
    BY DEF Shown
  <1>3. CASE Open \/ Header \/ LoopDone \/ ShowValue \/ TurnOff \/ Close \/ Exit
    <2>1. NoCall \/ \E name \in Shown \ {"vbdCycle"}, arg \in Arg : CallVbd(name, arg)
      BY <1>3, <1>a, <1>b DEF Open, Header, LoopDone, ShowValue, TurnOff, Close, Exit
    <2>2. \/ main'.pc \notin {"start", "header", "cycle", "value", "count"}
          \/ main.pc \in {"start", "header", "value"} /\ main'.simcyc = main.simcyc
      BY <1>3, <1>t DEF Open, Header, LoopDone, ShowValue, TurnOff, Close, Exit, Goto, Main
    <2> QED  BY <2>1, <2>2, <1>2
  <1>4. ASSUME NEW at60 \in BOOLEAN, Cycle(at60)
        PROVE  FirstInv'
    <2>1. NoCall /\ main.pc = "cycle"
      BY <1>4 DEF Cycle
    <2>2. CASE main' = [main EXCEPT !.pc = "end"]
      BY <2>1, <2>2, <1>2, <1>t DEF Main
    <2>3. CASE main' = [main EXCEPT !.pc = "value", !.reg_output = main.simcyc]
      BY <2>1, <2>3, <1>2, <1>t DEF Main
    <2>4. CASE ~Shows(at60)
      BY <2>1, <2>4, <1>2 DEF Shows
    <2> QED  BY <1>4, <2>2, <2>3, <2>4 DEF Cycle
  <1>5. CASE ShowCount
    <2>1. /\ Len(queue') = Len(queue) + 1
          /\ \A i \in 1 .. Len(queue) : queue'[i] = queue[i]
          /\ queue'[Len(queue) + 1] = Cmd("vbdCycle", main.simcyc)
          /\ screen' = screen
      <3>1. main.simcyc \in Arg /\ "vbdCycle" \in Shown
        BY <1>t DEF Main, Arg, LedsOff, Shown
      <3> QED  BY <1>5, <3>1, Issued DEF ShowCount
    <2>2. \E i \in 1 .. Len(queue') : Count(i)'
      <3>1. Len(queue) + 1 \in 1 .. Len(queue') /\ queue'[Len(queue) + 1].name = "vbdCycle"
        BY <2>1, <1>t DEF Cmd
      <3> QED  BY <3>1 DEF Count
    <2>3. ~NoneYet'
      BY <2>2 DEF NoneYet
    <2>4. \A i \in 1 .. Len(queue) : Count(i)' <=> Count(i)
      BY <2>1 DEF Count
    <2>5. ASSUME NEW i \in 1 .. Len(queue'), Count(i)'
          PROVE  /\ queue'[i].arg >= 0
                 /\ (\A j \in 1 .. i - 1 : ~Count(j)') /\ screen'["vbdCycle"] = Nothing =>
                      FirstShown(queue[i].arg)'
      <3>1. CASE i \in 1 .. Len(queue)
        <4>1. Count(i) /\ queue'[i] = queue[i] /\ \A j \in 1 .. i - 1 : Count(j)' <=> Count(j)
          BY <2>1, <2>4, <2>5, <3>1, <1>t
        <4> QED  BY <2>1, <3>1, <4>1, <1>v DEF FirstInv, FirstShown
      <3>2. CASE i = Len(queue) + 1
        <4>1. queue'[i].arg = main.simcyc /\ main.simcyc \in Nat
          BY <2>1, <3>2, <1>t DEF Cmd, Main
        <4>2. ASSUME \A j \in 1 .. i - 1 : ~Count(j)', screen'["vbdCycle"] = Nothing
              PROVE  NoneYet
          <5>1. \A j \in 1 .. Len(queue) : ~Count(j)
            BY <4>2, <3>2, <2>4, <1>t
          <5> QED  BY <5>1, <4>2, <2>1 DEF NoneYet
        <4>3. main.pc = "count" /\ main.VBUDDY /\ (main.program = "pdf" => main.simcyc % 4 = 0)
          BY <1>5 DEF ShowCount, ShowingInv
        <4>4. NoneYet => FirstShown(main.simcyc)
          BY <4>3 DEF FirstInv, FirstShown
        <4> QED  BY <4>1, <4>2, <4>4, <1>v DEF FirstShown
      <3> QED  BY <3>1, <3>2, <2>1, <1>t
    <2> QED  BY <2>3, <2>5 DEF FirstInv, Nothing
  <1>6. CASE BoardExecutes
    <2>1. /\ Len(queue) \in Nat \ {0}
          /\ queue[1] \in Command
          /\ Len(queue') = Len(queue) - 1
          /\ \A i \in 1 .. Len(queue') : queue'[i] = queue[i + 1]
          /\ screen' = [screen EXCEPT ![queue[1].name] = queue[1].arg]
          /\ main' = main
      BY <1>6, Executed
    <2>2. \A i \in 1 .. Len(queue') : i + 1 \in 1 .. Len(queue) /\ (Count(i)' <=> Count(i + 1))
      BY <2>1 DEF Count
    <2>3. ASSUME screen'["vbdCycle"] = Nothing
          PROVE  ~Count(1) /\ screen["vbdCycle"] = Nothing
      <3>1. "vbdCycle" \in Shown /\ 1 \in 1 .. Len(queue)
        BY <2>1 DEF Shown
      <3>2. ~Count(1)
        <4> SUFFICES ASSUME Count(1) PROVE FALSE
          OBVIOUS
        <4>1. screen'["vbdCycle"] = queue[1].arg
          BY <3>1, <2>1, <1>t DEF Count
        <4>2. queue[1].arg >= 0
          BY <3>1 DEF FirstInv
        <4>3. Nothing = -1
          BY DEF Nothing
        <4> QED  BY <4>1, <4>2, <4>3, <2>3
      <3> QED  BY <3>1, <3>2, <2>1, <2>3, <1>t DEF Count
    <2>5. NoneYet' => NoneYet
      <3> SUFFICES ASSUME NoneYet' PROVE NoneYet
        OBVIOUS
      <3>1. screen'["vbdCycle"] = Nothing /\ \A i \in 1 .. Len(queue') : ~Count(i)'
        BY DEF NoneYet, Nothing
      <3>2. ASSUME NEW j \in 1 .. Len(queue), Count(j) PROVE FALSE
        <4>1. j # 1
          BY <3>1, <3>2, <2>3
        <4>2. j - 1 \in 1 .. Len(queue') /\ (j - 1) + 1 = j
          BY <4>1, <2>1
        <4> QED  BY <4>2, <3>1, <3>2, <2>2
      <3> QED  BY <3>1, <3>2, <2>3 DEF NoneYet
    <2>6. ASSUME NEW i \in 1 .. Len(queue'), Count(i)'
          PROVE  /\ queue'[i].arg >= 0
                 /\ (\A j \in 1 .. i - 1 : ~Count(j)') /\ screen'["vbdCycle"] = Nothing =>
                      FirstShown(queue[i].arg)'
      <3>1. i + 1 \in 1 .. Len(queue) /\ Count(i + 1) /\ queue'[i] = queue[i + 1]
        BY <2>1, <2>2, <2>6
      <3>2. ASSUME \A j \in 1 .. i - 1 : ~Count(j)', screen'["vbdCycle"] = Nothing
            PROVE  FirstShown(queue[i + 1].arg)
        <4>1. ASSUME NEW j \in 1 .. (i + 1) - 1, Count(j) PROVE FALSE
          <5>1. j # 1
            BY <3>2, <4>1, <2>3
          <5>2. j - 1 \in 1 .. i - 1 /\ j - 1 \in 1 .. Len(queue') /\ (j - 1) + 1 = j
            BY <5>1, <2>1
          <5> QED  BY <5>2, <3>2, <4>1, <2>2
        <4> QED  BY <3>1, <3>2, <4>1, <2>3 DEF FirstInv
      <3> QED  BY <3>1, <3>2, <2>1 DEF FirstInv, FirstShown
    <2> QED  BY <2>1, <2>5, <2>6 DEF FirstInv, Nothing
  <1>7. CASE CallReturns \/ ReadFault \/ (\E k \in {"q", "x"} : TypeKey(k)) \/ UNCHANGED vars
    BY <1>7, <1>1 DEF CallReturns, ReadFault, TypeKey, vars, driverVars, boardVars, Driver!Return,
                      Driver!AnswerFault
  <1> QED  BY <1>3, <1>4, <1>5, <1>6, <1>7 DEF Next, MainStep

-----------------------------------------------------------------------------
(* The theorems                                                            *)

\* Before the first step nothing was issued and nothing is due.
LEMMA InvInit == Init => Inv
  <1> SUFFICES ASSUME Init PROVE Inv
    OBVIOUS
  <1>1. MAX_SIM_CYC \in Nat /\ MaxFaults \in Nat
    BY BoundAssumption
  <1>2. queue = <<>> /\ busy = FALSE /\ slack = 0 /\ keys = <<>> /\ quitBy = MAX_SIM_CYC
    BY DEF Init, Driver!Init
  <1>3. Len(queue) = 0 /\ queue \in Seq(Command) /\ keys \in Seq({"q", "x"})
    BY <1>2, EmptySeq
  <1>4. main.pc = "start" /\ main \in Main
    <2>1. /\ main = [pc |-> main.pc, program |-> main.program, VBUDDY |-> main.VBUDDY,
                       simcyc |-> main.simcyc, started |-> main.started,
                       reg_output |-> main.reg_output]
          /\ main.pc = "start" /\ main.program \in Programs /\ main.VBUDDY \in BOOLEAN
          /\ main.simcyc = 0 /\ main.started = FALSE /\ main.reg_output = Nothing
      BY DEF Init
    <2>2. 0 \in 0 .. MAX_SIM_CYC /\ Nothing \in Nothing .. MAX_SIM_CYC /\ "start" \in Pcs
      BY <1>1 DEF Nothing, Pcs
    <2>3. main.started \in BOOLEAN
      BY <2>1
    <2> QED  BY <2>1, <2>2, <2>3 DEF Main
  <1>5. screen \in [Shown -> Arg] /\ screen["vbdCycle"] = Nothing /\ last \in Command
    BY <1>1 DEF Init, Arg, LedsOff, Nothing, Shown, Cmd, Command
  <1>6. TypeOK
    <2>1. busy \in BOOLEAN
      BY <1>2, Zenon
    <2>2. slack \in 0 .. MaxFaults /\ quitBy \in 0 .. MAX_SIM_CYC
      BY <1>1, <1>2
    <2> QED  BY <1>3, <1>4, <1>5, <2>1, <2>2 DEF TypeOK, Main, Pcs, Arg
  <1>7. DriverInv /\ ShowingInv /\ QuitDue /\ EndInv
    BY <1>1, <1>2, <1>3, <1>4 DEF DriverInv, ShowingInv, QuitDue, EndInv
  <1>8. PairInv /\ DistanceInv /\ NoneYet
    BY <1>3, <1>5 DEF PairInv, DistanceInv, NoneYet
  <1>9. ShowInv
    BY <1>4, <1>8 DEF ShowInv, IssuedInv
  <1>10. FirstInv
    <2>1. main.simcyc = 0
      BY DEF Init
    <2> QED  BY <1>3, <2>1 DEF FirstInv
  <1> QED  BY <1>6, <1>7, <1>9, <1>10 DEF Inv

\* The inductive invariant of the testbench holds in every behaviour.
THEOREM InvHolds == Spec => []Inv
  <1>1. Inv /\ [Next]_vars => Inv'
    BY TypeStep, DriverStep, ShowingStep, QuitStep, EndStep, ShowStep, FirstStep DEF Inv
  <1> QED  BY <1>1, InvInit, PTL DEF Spec

\* The locals of main() and the board's registers keep their types, for every
\* length of the simulation.
THEOREM TypeCorrect == Spec => []TypeOK
  <1>1. Inv => TypeOK
    BY DEF Inv
  <1> QED  BY <1>1, InvHolds, PTL

\* A q that is typed ends the loop after one cycle per key in front of it,
\* whatever the loop is doing when it is typed.
THEOREM QuitHeardHolds == Spec => []QuitHeard
  <1>1. Inv => QuitHeard
    <2> SUFFICES ASSUME Inv PROVE QuitHeard
      OBVIOUS
    <2>1. main \in Main /\ quitBy \in Nat /\ quitBy <= MAX_SIM_CYC /\ MAX_SIM_CYC \in Nat
      BY Types DEF Inv
    <2>2. main.simcyc \in 0 .. MAX_SIM_CYC
      BY <2>1 DEF Main
    <2> QED  BY <2>1, <2>2 DEF Inv, QuitDue, QuitHeard
  <1> QED  BY <1>1, InvHolds, PTL

\* However the loop ends, the program exits after vbdClose has returned; STOP
\* is the last command, turning the LEDs off the one before it, and at most one
\* command per fault is outstanding.
THEOREM CleanEndHolds == Spec => []CleanEnd
  <1>1. TypeOK /\ DriverInv /\ EndInv /\ (main.pc = "exit" => ~busy) => CleanEnd
    <2> SUFFICES ASSUME TypeOK, DriverInv, EndInv, main.pc = "exit", ~busy PROVE CleanEnd
      BY DEF CleanEnd
    <2>t. queue \in Seq(Command) /\ Len(queue) \in Nat /\ last \in Command
      BY Types
    <2>1. Len(queue) <= slack
      BY DEF DriverInv
    <2> DEFINE log == <<last>> \o queue
               n == Len(log)
    <2>2. /\ <<last>> \in Seq(Command) /\ Len(<<last>>) = 1 /\ <<last>>[1] = last
      BY <2>t
    <2>3. /\ n = 1 + Len(queue)
          /\ \A i \in 1 .. 1 + Len(queue) : log[i] = IF i <= 1 THEN <<last>>[i] ELSE queue[i - 1]
      BY <2>2, <2>t, ConcatProperties
    <2> HIDE DEF log, n
    <2>4. log[1] = last /\ \A i \in 1 .. Len(queue) : log[i + 1] = queue[i]
      BY <2>2, <2>3, <2>t
    <2>5. ASSUME main.VBUDDY
          PROVE  /\ log[n] = Cmd("vbdClose", Nothing)
                 /\ IF n = 1 THEN screen["vbdBar"] = LedsOff
                    ELSE log[n - 1] = Cmd("vbdBar", LedsOff)
      <3>1. StopLast /\ LedsOut(Len(queue) - 1)
        BY <2>5 DEF EndInv
      <3>2. CASE Len(queue) = 0
        BY <3>1, <3>2, <2>3, <2>4 DEF StopLast, LedsOut
      <3>3. CASE Len(queue) = 1
        <4>1. n = 2 /\ n - 1 = 1 /\ log[2] = queue[1] /\ Len(queue) - 1 = 0
          BY <3>3, <2>3, <2>4
        <4> QED  BY <3>1, <3>3, <4>1, <2>4 DEF StopLast, LedsOut
      <3>4. CASE Len(queue) > 1
        <4>1. /\ n = Len(queue) + 1 /\ n # 1 /\ n - 1 = (Len(queue) - 1) + 1
              /\ Len(queue) \in 1 .. Len(queue) /\ Len(queue) - 1 \in 1 .. Len(queue)
          BY <3>4, <2>3, <2>t
        <4>2. log[n] = queue[Len(queue)] /\ log[n - 1] = queue[Len(queue) - 1]
          BY <4>1, <2>4
        <4>3. Len(queue) >= 1 /\ Len(queue) - 1 >= 1
          BY <3>4, <2>t
        <4>4. queue[Len(queue)] = Cmd("vbdClose", Nothing)
          BY <3>1, <4>3 DEF StopLast
        <4>5. queue[Len(queue) - 1] = Cmd("vbdBar", LedsOff)
          BY <3>1, <4>3 DEF LedsOut
        <4> QED  BY <4>1, <4>2, <4>4, <4>5
      <3>5. \A k \in Nat : k = 0 \/ k = 1 \/ k > 1
        OBVIOUS
      <3> QED  BY <3>2, <3>3, <3>4, <3>5, <2>t, Zenon
    <2> QED  BY <2>1, <2>5 DEF CleanEnd, log, n
  <1>2. Init => (main.pc = "exit" => ~busy)
    BY DEF Init, Driver!Init
  <1>3. TypeOK /\ [Next]_vars /\ (main.pc = "exit" => ~busy) => (main.pc = "exit" => ~busy)'
    <2> SUFFICES ASSUME TypeOK, [Next]_vars, main.pc = "exit" => ~busy, main'.pc = "exit"
                 PROVE  ~busy'
      OBVIOUS
    <2>t. main \in Main
      BY Types
    <2>1. CASE main' = main
      <3>1. ~busy
        BY <2>1
      <3>2. ~MainStep
        BY <2>1 DEF MainStep, Open, Header, Cycle, LoopDone, ShowValue, ShowCount, TurnOff, Close, Exit
      <3> QED  BY <3>1, <3>2 DEF Next, vars, boardVars, driverVars, BoardExecutes, CallReturns, ReadFault,
                      TypeKey, Driver!Execute, Driver!Return, Driver!AnswerFault
    <2>2. CASE MainStep
      <3>1. CASE TurnOff \/ Exit
        BY <3>1, <2>t DEF TurnOff, Exit, NoCall, boardVars, driverVars, Goto, Main
      <3>2. CASE Open \/ Header \/ LoopDone \/ ShowValue \/ Close
        BY <3>2, <2>t DEF Open, Header, LoopDone, ShowValue, Close, Goto, Main
      <3>3. CASE ShowCount
        BY <3>3, <2>t DEF ShowCount, Main
      <3>4. ASSUME NEW at60 \in BOOLEAN, Cycle(at60)
            PROVE  ~busy'
        BY <3>4 DEF Cycle, NoCall, boardVars, driverVars
      <3> QED  BY <2>2, <3>1, <3>2, <3>3, <3>4 DEF MainStep
    <2> QED  BY <2>1, <2>2, MainAlone
  <1>4. Inv => TypeOK /\ DriverInv /\ EndInv
    BY DEF Inv
  <1> QED  BY <1>1, <1>2, <1>3, <1>4, InvHolds, PTL DEF Spec

\* The count on the screen changes only to the cycle of the value next to it,
\* first to the first shown cycle and then by exactly one shown cycle.
THEOREM ShownTogetherHolds == Spec => ShownTogether
  <1> DEFINE Shows1 == screen'["vbdCycle"] # screen["vbdCycle"] =>
                         /\ screen'["vbdCycle"] = screen[ValueCommand]
                         /\ IF screen["vbdCycle"] = Nothing
                            THEN IF main.program = "pdf" THEN screen'["vbdCycle"] % 4 = 0
                                 ELSE screen'["vbdCycle"] = 0
                            ELSE screen'["vbdCycle"] - screen["vbdCycle"] =
                                   IF main.program = "pdf" THEN 4 ELSE 1
  <1>1. Inv /\ [Next]_vars => [Shows1]_vars
    <2> SUFFICES ASSUME Inv, [Next]_vars PROVE Shows1
      OBVIOUS
    <2>0. TypeOK /\ PairInv /\ DistanceInv /\ FirstInv
      BY DEF Inv, ShowInv
    <2>1. CASE screen' = screen
      BY <2>1
    <2>2. CASE BoardExecutes
      <3>1. /\ Len(queue) \in Nat \ {0} /\ queue[1] \in Command
            /\ screen' = [screen EXCEPT ![queue[1].name] = queue[1].arg]
        BY <2>0, <2>2, Executed
      <3>2. "vbdCycle" \in Shown /\ screen \in [Shown -> Arg] /\ MAX_SIM_CYC \in Nat
        BY <2>0, Types DEF Shown
      <3>3. CASE Count(1)
        <4>1. screen'["vbdCycle"] = queue[1].arg
          BY <3>1, <3>2, <3>3 DEF Count
        <4>2. screen[ValueCommand] = queue[1].arg
          BY <2>0, <3>1, <3>3 DEF PairInv
        <4>3. screen["vbdCycle"] \in {Nothing, queue[1].arg - Distance}
          BY <2>0, <3>1, <3>3 DEF DistanceInv
        <4>4. queue[1].arg \in Int /\ Distance \in Int
          BY <3>1, <3>2 DEF Command, LedsOff, Distance
        <4>5. screen["vbdCycle"] = Nothing => FirstShown(queue[1].arg)
          <5>1. 1 \in 1 .. Len(queue) /\ \A j \in 1 .. 1 - 1 : ~Count(j)
            BY <3>1
          <5> QED  BY <5>1, <2>0, <3>3 DEF FirstInv
        <4> QED  BY <4>1, <4>2, <4>3, <4>4, <4>5 DEF Distance, FirstShown
      <3>4. CASE ~Count(1)
        BY <3>1, <3>2, <3>4 DEF Count
      <3> QED  BY <3>3, <3>4
    <2>3. CASE MainStep
      <3>1. screen' = screen
        BY <2>0, <2>3, CallOrNot DEF NoCall, CallVbd, boardVars
      <3> QED  BY <3>1
    <2> QED  BY <2>1, <2>2, <2>3 DEF Next, vars, boardVars, CallReturns, ReadFault, TypeKey
  <1> QED  BY <1>1, InvHolds, PTL DEF Spec, ShownTogether
=============================================================================
