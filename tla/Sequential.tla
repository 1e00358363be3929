----------------------------- MODULE Sequential -----------------------------
(***************************************************************************)
(* What the pipeline promises: a machine that executes one instruction of  *)
(* rom at a time, to completion, with the same decoders, ALU and branch    *)
(* decision, on a register file and a byte memory.  There is no pipeline,  *)
(* no forwarding, no cache and no clock.                                   *)
(***************************************************************************)
EXTENDS Alu, ControlUnit

CONSTANTS RomSize, RamSize

VARIABLES rom, pc, regs, mem

seqVars == <<rom, pc, regs, mem>>

Fetched == rom[pc % RomSize]

\* The effects of the instruction at pc, a load returning the four bytes data.
ExecuteWith(data) ==
    LET i == Fetched
        ctl == MainDecoder(i.op)
        imm == i.imm[ctl.ImmSrc]
        alu == ALUControl(i.op, i.funct3, i.funct7_5)
        a == regs[i.rs1]
        b == IF ctl.ALUSrc = 1 THEN imm ELSE regs[i.rs2]
        result == ALUResult(a, b, alu)
        next == Trunc(pc + 4)
        value == CASE ctl.ResultSrc = 0 -> result
                   [] ctl.ResultSrc = 1 -> LdDecoder(data, i.funct3)
                   [] OTHER             -> next
        WE == WriteEnable(ctl.MemWrite, i.funct3)
        lane == LanesOf(regs[i.rs2])
    IN  /\ pc' = IF PCSrc(i.op, i.funct3, ctl.Branch, a, b, alu) = 1
                 THEN Trunc((IF ctl.Jump = 1 THEN a ELSE pc) + imm)
                 ELSE next
        /\ regs' = IF ctl.RegWrite = 1 /\ i.rd # 0
                   THEN [regs EXCEPT ![i.rd] = value]
                   ELSE regs
        /\ mem' = [x \in DOMAIN mem |->
                     LET k == (x + RamSize - (result % RamSize)) % RamSize
                     IN  IF k \in WE THEN lane[k] ELSE mem[x]]
        /\ UNCHANGED rom

\* The bytes at the address the instruction at pc computes.
LoadedBytes ==
    LET i == Fetched
        A == ALUResult(regs[i.rs1], i.imm[MainDecoder(i.op).ImmSrc], 0)
    IN  [k \in 0 .. 3 |-> mem[(A + k) % RamSize]]

SeqInit == pc = 0 /\ \A r \in DOMAIN regs : regs[r] = 0

\* The machine, and the machine whose loads return any bytes at all: what is
\* left of the promise when the memory stage answers a load wrongly.
Execute == ExecuteWith(LoadedBytes)
ExecuteAnyLoad == \E data \in Lanes : ExecuteWith(data)

SeqSpec == SeqInit /\ [][Execute]_seqVars
AnyLoadSpec == SeqInit /\ [][ExecuteAnyLoad]_seqVars
=============================================================================
