------------------------------- MODULE RiscV -------------------------------
(***************************************************************************)
(* The pipelined processor of risc_v.sv, driven by the clock and reset of  *)
(* its testbenches.  The variables are the registers of the design: the    *)
(* fetch PC, the pipeline registers D, E, M and W (one record each, one    *)
(* field per output of reg_file_d/e/m/w.sv), the register file and the     *)
(* memories; every wire is a state function of them.  PosEdge is one       *)
(* rising clock edge of the whole design, NegEdge the falling edge on      *)
(* which only the register file is clocked.                                *)
(*                                                                         *)
(* An instruction is the record of the fields risc_v.sv:165-170 extracts;  *)
(* imm holds, for each of the five ImmSrc formats of sign_extend.sv, the   *)
(* word that format reads out of the instruction's bits.                   *)
(***************************************************************************)
EXTENDS Alu, ControlUnit, HazardUnit, MemorySystem

CONSTANTS
    REG_ADDRESS_WIDTH,   \* bits of a register number (5)
    ROM_ADDRESS_WIDTH,   \* bits of a byte address of instr_mem (12)
    Roms,                \* the programs instr_mem may be loaded with
    RESET_CYCLES,        \* clock cycles for which the testbench holds RST (1)
    MAX_SIM_CYC          \* clock cycles the testbench simulates

VARIABLES
    rom,                 \* instr_mem.sv: the instruction at each byte address
    CLK, RST, simcyc,    \* the testbench
    PCF, D, E, M, W,     \* the pipeline registers
    registers            \* reg_file.sv

vars == <<rom, CLK, RST, simcyc, PCF, D, E, M, W, registers,
          ram_array, cache_array, hit, A_tag, A_set>>

RomSize == 2 ^ ROM_ADDRESS_WIDTH
RomAddr == 0 .. RomSize - 1
Reg == 0 .. 2 ^ REG_ADDRESS_WIDTH - 1

Instr == [op : Opcode, funct3 : 0 .. 7, funct7_5 : Bit,
          rs1 : Reg, rs2 : Reg, rd : Reg, imm : [0 .. 4 -> Word]]

\* The all-zero word: what a flush leaves in D, and unprogrammed memory.
ZeroInstr == [op |-> 0, funct3 |-> 0, funct7_5 |-> 0, rs1 |-> 0, rs2 |-> 0,
              rd |-> 0, imm |-> [f \in 0 .. 4 |-> 0]]

ASSUME RiscVAssumption ==
    /\ 2 ^ REG_ADDRESS_WIDTH \in Nat \ {0}
    /\ 2 ^ ROM_ADDRESS_WIDTH \in Nat \ {0}
    /\ RamByte = Byte /\ ZeroByte = 0
    /\ \A r \in Roms : r \in [RomAddr -> Instr]
    /\ RESET_CYCLES \in Nat \ {0}
    /\ MAX_SIM_CYC \in Nat

-----------------------------------------------------------------------------
\* Power-on and flushed contents of the pipeline registers: all zeros.
BubbleD == [Instr |-> ZeroInstr, PC |-> 0, PCPlus4 |-> 0]
BubbleE == [RegWrite |-> 0, ResultSrc |-> 0, MemWrite |-> 0, MemRead |-> 0,
            Jump |-> 0, Branch |-> 0, ALUControl |-> 0, ALUSrc |-> 0,
            RD1 |-> 0, RD2 |-> 0, PC |-> 0, Rs1 |-> 0, Rs2 |-> 0, Rd |-> 0,
            ImmExt |-> 0, PCPlus4 |-> 0, funct3 |-> 0, op |-> 0]
ZeroM == [RegWrite |-> 0, ResultSrc |-> 0, MemWrite |-> 0, MemRead |-> 0,
          ALUResult |-> 0, WriteData |-> 0, Rd |-> 0, PCPlus4 |-> 0, funct3 |-> 0]
ZeroW == [RegWrite |-> 0, ResultSrc |-> 0, ALUResult |-> 0, ReadData |-> 0,
          Rd |-> 0, PCPlus4 |-> 0, funct3 |-> 0]

Init ==
    /\ rom \in Roms
    /\ CLK = 1 /\ RST = 1 /\ simcyc = 0
    /\ PCF = 0 /\ D = BubbleD /\ E = BubbleE /\ M = ZeroM /\ W = ZeroW
    /\ registers = [r \in Reg |-> 0]
    /\ MemInit

-----------------------------------------------------------------------------
(* The wires of risc_v.sv.                                                 *)

\* Write-back: the value W writes to the register file.
ResultW == IF W.ResultSrc >= 2 THEN W.PCPlus4
           ELSE IF W.ResultSrc = 1 THEN W.ReadData ELSE W.ALUResult

\* Execute: operands after forwarding, ALU, branch decision and target.
ForwardAE == Forward(E.Rs1, M.Rd, M.RegWrite, W.Rd, W.RegWrite)
ForwardBE == Forward(E.Rs2, M.Rd, M.RegWrite, W.Rd, W.RegWrite)

Operand(forward, rd) ==
    CASE forward = FromMemory    -> M.ALUResult
      [] forward = FromWriteback -> ResultW
      [] OTHER                   -> rd

SrcA == Operand(ForwardAE, E.RD1)
WriteDataE == Operand(ForwardBE, E.RD2)
SrcB == IF E.ALUSrc = 1 THEN E.ImmExt ELSE WriteDataE

\* The base of a jalr is the register value read in decode.
JumpMux == IF E.Jump = 1 THEN E.RD1 ELSE E.PC
PCTargetE == Trunc(JumpMux + E.ImmExt)

PCSrcE == PCSrc(E.op, E.funct3, E.Branch, SrcA, SrcB, E.ALUControl)

\* Fetch.
PCPlus4F == Trunc(PCF + 4)
PCNextF == IF PCSrcE = 1 THEN PCTargetE ELSE PCPlus4F
InstrF == rom[PCF % RomSize]

\* Memory: what the instruction in M drives onto the memories.
WEM == WriteEnable(M.MemWrite, M.funct3)
AddrM == M.ALUResult % MemSize
ReadDataM == LdDecoder(FoundData(AddrM), M.funct3)

\* Hazards.
LoadUse == lwstall(E.Rd, D.Instr.rs1, D.Instr.rs2, E.ResultSrc)
CacheMiss == CacheStall(M.MemRead, hit)

-----------------------------------------------------------------------------
(* The always_ff blocks.                                                   *)

PcLoad == PCF' = IF StallFD(LoadUse, CacheMiss) THEN PCF ELSE PCNextF

PcPosEdge == IF RST = 1 THEN PCF' = 0 ELSE PcLoad

DPosEdge ==
    D' = IF FlushD(PCSrcE) THEN BubbleD
         ELSE IF StallFD(LoadUse, CacheMiss) THEN D
         ELSE [Instr |-> InstrF, PC |-> PCF, PCPlus4 |-> PCPlus4F]

\* The instruction in D as it enters E: decoded, with its operands read.
DecodedE ==
    LET i == D.Instr
        ctl == MainDecoder(i.op)
    IN  [RegWrite |-> ctl.RegWrite, ResultSrc |-> ctl.ResultSrc,
         MemWrite |-> ctl.MemWrite, MemRead |-> ctl.MemRead,
         Jump |-> ctl.Jump, Branch |-> ctl.Branch,
         ALUControl |-> ALUControl(i.op, i.funct3, i.funct7_5),
         ALUSrc |-> ctl.ALUSrc,
         RD1 |-> registers[i.rs1], RD2 |-> registers[i.rs2],
         PC |-> D.PC, Rs1 |-> i.rs1, Rs2 |-> i.rs2, Rd |-> i.rd,
         ImmExt |-> i.imm[ctl.ImmSrc], PCPlus4 |-> D.PCPlus4,
         funct3 |-> i.funct3, op |-> i.op]

EPosEdge ==
    E' = IF FlushE(PCSrcE, LoadUse) THEN BubbleE
         ELSE IF StallEMW(CacheMiss) THEN E
         ELSE DecodedE

MPosEdge ==
    M' = IF StallEMW(CacheMiss) THEN M
         ELSE [RegWrite |-> E.RegWrite, ResultSrc |-> E.ResultSrc,
               MemWrite |-> E.MemWrite, MemRead |-> E.MemRead,
               ALUResult |-> ALUResult(SrcA, SrcB, E.ALUControl),
               WriteData |-> WriteDataE, Rd |-> E.Rd,
               PCPlus4 |-> E.PCPlus4, funct3 |-> E.funct3]

WPosEdge ==
    W' = IF StallEMW(CacheMiss) THEN W
         ELSE [RegWrite |-> M.RegWrite, ResultSrc |-> M.ResultSrc,
               ALUResult |-> M.ALUResult, ReadData |-> ReadDataM,
               Rd |-> M.Rd, PCPlus4 |-> M.PCPlus4, funct3 |-> M.funct3]

RegFileNegEdge ==
    registers' = IF W.RegWrite = 1 /\ W.Rd # 0
                 THEN [registers EXCEPT ![W.Rd] = ResultW]
                 ELSE registers

-----------------------------------------------------------------------------
(* The testbench loop: each of MAX_SIM_CYC cycles is a falling and then a  *)
(* rising edge; RST is lowered together with the falling edge of cycle     *)
(* RESET_CYCLES.                                                           *)

PosEdge ==
    /\ CLK = 0
    /\ CLK' = 1
    /\ simcyc' = simcyc + 1
    /\ PcPosEdge /\ DPosEdge /\ EPosEdge /\ MPosEdge /\ WPosEdge
    /\ MemPosEdge(M.MemRead, WEM, AddrM, LanesOf(M.WriteData))
    /\ UNCHANGED <<rom, RST, registers>>

NegEdge ==
    /\ CLK = 1
    /\ simcyc < MAX_SIM_CYC
    /\ RST = 1 => simcyc < RESET_CYCLES
    /\ CLK' = 0
    /\ RegFileNegEdge
    /\ UNCHANGED <<rom, RST, simcyc, PCF, D, E, M, W>>
    /\ UNCHANGED <<ram_array, cache_array, hit, A_tag, A_set>>

\* pc.sv is sensitive to negedge RST: lowering the reset also loads the PC.
ReleaseReset ==
    /\ CLK = 1
    /\ simcyc < MAX_SIM_CYC
    /\ RST = 1 /\ simcyc >= RESET_CYCLES
    /\ CLK' = 0
    /\ RST' = 0
    /\ PcLoad
    /\ RegFileNegEdge
    /\ UNCHANGED <<rom, simcyc, D, E, M, W>>
    /\ UNCHANGED <<ram_array, cache_array, hit, A_tag, A_set>>

Next == PosEdge \/ NegEdge \/ ReleaseReset

\* The testbench's for loop evaluates the next edge until MAX_SIM_CYC.
Spec == Init /\ [][Next]_vars /\ WF_vars(Next)
=============================================================================
