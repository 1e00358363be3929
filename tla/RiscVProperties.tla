-------------------------- MODULE RiscVProperties --------------------------
(***************************************************************************)
(* What the pipeline of RiscV must keep right, and the mapping under which *)
(* it implements the machine of Sequential.                                *)
(***************************************************************************)
EXTENDS RiscV

\* Types of the pipeline registers and memories (declared widths).
EType ==
    [RegWrite : Bit, ResultSrc : 0 .. 2, MemWrite : Bit, MemRead : Bit,
     Jump : Bit, Branch : Bit, ALUControl : 0 .. 15, ALUSrc : Bit,
     RD1 : Word, RD2 : Word, PC : Word, Rs1 : Reg, Rs2 : Reg, Rd : Reg,
     ImmExt : Word, PCPlus4 : Word, funct3 : 0 .. 7, op : Opcode]
MType ==
    [RegWrite : Bit, ResultSrc : 0 .. 2, MemWrite : Bit, MemRead : Bit,
     ALUResult : Word, WriteData : Word, Rd : Reg, PCPlus4 : Word,
     funct3 : 0 .. 7]
WType ==
    [RegWrite : Bit, ResultSrc : 0 .. 2, ALUResult : Word, ReadData : Word,
     Rd : Reg, PCPlus4 : Word, funct3 : 0 .. 7]

\* Every register of the design holds a value of its declared width.
TypeOK ==
    /\ rom \in [RomAddr -> Instr]
    /\ CLK \in Bit /\ RST \in Bit /\ simcyc \in Nat
    /\ PCF \in Word
    /\ D \in [Instr : Instr, PC : Word, PCPlus4 : Word]
    /\ E \in EType /\ M \in MType /\ W \in WType
    /\ registers \in [Reg -> Word]
    /\ MemTypeOK

-----------------------------------------------------------------------------
(* Operands.                                                               *)

Writes(stage, r) == stage.RegWrite = 1 /\ stage.Rd = r /\ r # 0

\* The value that register r has once every instruction older than the one in
\* E has written back.  A load still in M has no value to give yet.
ArchReg(r) ==
    CASE Writes(M, r) -> IF M.ResultSrc >= 2 THEN M.PCPlus4 ELSE M.ALUResult
      [] ~Writes(M, r) /\ Writes(W, r) -> ResultW
      [] OTHER -> registers[r]

\* forward.sv forwards ALUResultM without looking at what M is.  It is never
\* the address of a load still in M: lwstall has kept every reader of the
\* load's destination out of E, whatever mix of cache stalls and flushes
\* happened in between.
NoAddressForwarded ==
    M.ResultSrc = 1 => ForwardAE # FromMemory /\ ForwardBE # FromMemory

\* The program has no auipc.
NoAuipc == \A a \in RomAddr : rom[a].op # AUIPC

\* Every operand the ALU and a store take in E is the value the register has
\* in program order: forwarding from M and W, the falling-edge write of
\* reg_file and the read in D leave no gap, including while a cache stall holds E
\* for several cycles.  auipc is left out: it writes PCPlus4, but ALUResultM
\* is what the instruction behind it is given.
OperandsCurrent ==
    NoAuipc =>
        /\ SrcA = ArchReg(E.Rs1)
        /\ WriteDataE = ArchReg(E.Rs2)

\* hazard_unit/readme.md: needed data "is forwarded from the memory or
\* writeback stage": the base of a jalr in E is current too.
JumpBaseCurrent == E.op = JALR => JumpMux = ArchReg(E.Rs1)

-----------------------------------------------------------------------------
(* Control.                                                                *)

\* A pipeline register holds a bubble when its PCPlus4 was cleared.
IsBubble(stage) == stage.PCPlus4 = 0

\* A jump that has left E (it writes PCPlus4) has no younger instruction behind
\* it: what was fetched past it has been flushed, whatever else that clock edge
\* stalled.
JumpShadowEmpty ==
    NoAuipc /\ M.ResultSrc = 2 => E = BubbleE /\ D = BubbleD

\* hazard_unit.sv:66-73: a clock edge at which M is held loses no instruction:
\* the one in E stays in E, and a redirect of the fetch has been applied or is
\* still asked for.
StallLosesNothing ==
    [][CLK = 0 /\ CacheMiss =>
           /\ E.PCPlus4' = E.PCPlus4
           /\ PCSrcE = 1 /\ RST = 0 => PCSrcE' = 1 \/ PCF' = PCTargetE]_vars

-----------------------------------------------------------------------------
(* The pipeline implements Sequential.  The machine's state is that of the *)
(* oldest instruction that has not left M: its address is the machine's    *)
(* pc, and an instruction in W has already happened.                       *)

OldestPC ==
    CASE ~IsBubble(M) -> Trunc(M.PCPlus4 - 4)
      [] IsBubble(M) /\ ~IsBubble(E) -> E.PC
      [] IsBubble(M) /\ IsBubble(E) /\ ~IsBubble(D) -> D.PC
      [] OTHER -> PCF

CommittedRegs ==
    [r \in Reg |-> IF Writes(W, r) THEN ResultW ELSE registers[r]]

Machine == INSTANCE Sequential
    WITH pc <- OldestPC, regs <- CommittedRegs, mem <- ram_array,
         RamSize <- MemSize

\* Each rising edge retires exactly the next instruction of the program, in
\* order and with its sequential effect, or retires nothing.
ImplementsSequential == Machine!SeqSpec

\* The same, except that a load may return any bytes.
ImplementsAnyLoad == Machine!AnyLoadSpec
=============================================================================
