---------------------------- MODULE RiscVProofs ----------------------------
(***************************************************************************)
(* For every word width, register count, memory geometry, program and      *)
(* number of clock cycles: the registers of the processor keep their       *)
(* types, no load address is forwarded as data, and every operand in the   *)
(* execute stage is the value program order gives it.                      *)
(***************************************************************************)
EXTENDS RiscVProperties, DatapathProofs, MemorySystemProofs

\* Zero is a value of every field: a flush and the power-on state are typed.
LEMMA ZeroTypes ==
    /\ 0 \in Word /\ 0 \in Reg /\ 0 \in Bit /\ 0 \in Opcode /\ 4 \in Int
    /\ ZeroInstr \in Instr
    /\ BubbleD \in [Instr : Instr, PC : Word, PCPlus4 : Word]
    /\ BubbleE \in EType /\ ZeroM \in MType /\ ZeroW \in WType
  <1>1. 0 \in Word /\ 0 \in Reg /\ 0 \in Bit /\ 0 \in Opcode /\ 4 \in Int
    BY Moduli, RiscVAssumption DEF Word, Reg, Bit, Opcode
  <1>2. ZeroInstr \in Instr
    BY <1>1 DEF ZeroInstr, Instr
  <1>3. BubbleD \in [Instr : Instr, PC : Word, PCPlus4 : Word]
    BY <1>1, <1>2 DEF BubbleD
  <1>4. BubbleE \in EType
    BY <1>1 DEF BubbleE, EType
  <1>5. ZeroM \in MType /\ ZeroW \in WType
    BY <1>1 DEF ZeroM, MType, ZeroW, WType
  <1> QED  BY <1>1, <1>2, <1>3, <1>4, <1>5

LEMMA InitType == Init => TypeOK
  <1> SUFFICES ASSUME Init PROVE TypeOK
    OBVIOUS
  <1>1. MemTypeOK
    BY ZeroInRange, MemoryAssumption DEF Init, MemInit, MemTypeOK, Block, RamWord
  <1> QED  BY <1>1, ZeroTypes, RiscVAssumption DEF Init, TypeOK, Bit

-----------------------------------------------------------------------------
(* The wires are words.                                                    *)

LEMMA ResultWType == TypeOK => ResultW \in Word
  BY DEF TypeOK, WType, ResultW

LEMMA OperandType ==
    ASSUME TypeOK, NEW f, NEW rd \in Word
    PROVE  Operand(f, rd) \in Word
  BY ResultWType DEF TypeOK, MType, Operand

LEMMA ExecuteTypes ==
    ASSUME TypeOK
    PROVE  SrcA \in Word /\ WriteDataE \in Word /\ SrcB \in Word /\ PCTargetE \in Word
  <1>1. E.RD1 \in Word /\ E.RD2 \in Word /\ E.ImmExt \in Word /\ E.PC \in Word
    BY DEF TypeOK, EType
  <1>2. SrcA \in Word /\ WriteDataE \in Word
    BY <1>1, OperandType DEF SrcA, WriteDataE
  <1>3. SrcB \in Word
    BY <1>1, <1>2 DEF SrcB
  <1>4. JumpMux + E.ImmExt \in Int
    BY <1>1, Moduli DEF JumpMux, Word
  <1> QED  BY <1>2, <1>3, <1>4, TruncType DEF PCTargetE

LEMMA FetchTypes ==
    ASSUME TypeOK
    PROVE  PCPlus4F \in Word /\ PCNextF \in Word /\ InstrF \in Instr
  <1>1. PCF \in Int /\ PCF + 4 \in Int
    BY Moduli DEF TypeOK, Word
  <1>2. PCPlus4F \in Word
    BY <1>1, TruncType DEF PCPlus4F
  <1>3. PCF % RomSize \in RomAddr
    BY <1>1, RiscVAssumption DEF RomSize, RomAddr
  <1> QED  BY <1>2, <1>3, ExecuteTypes DEF PCNextF, InstrF, TypeOK

LEMMA MemoryTypes ==
    ASSUME TypeOK
    PROVE  AddrM \in MemAddr /\ ReadDataM \in Word
  <1>1. M.ALUResult \in Int
    BY Moduli DEF TypeOK, MType, Word
  <1>2. AddrM \in MemAddr
    BY <1>1, MemoryAssumption DEF AddrM, MemAddr, MemSize
  <1>3. FoundData(AddrM) \in RamWord
    BY <1>2, ReadType DEF FoundData, TypeOK, MemTypeOK, Block
  <1> QED  BY <1>2, <1>3, LdDecoderType, RiscVAssumption DEF ReadDataM, RamWord, Lanes

LEMMA DecodedType == TypeOK => DecodedE \in EType
  <1> SUFFICES ASSUME TypeOK PROVE DecodedE \in EType
    OBVIOUS
  <1> DEFINE i == D.Instr
             ctl == MainDecoder(i.op)
  <1>1. i \in Instr /\ D.PC \in Word /\ D.PCPlus4 \in Word
    BY DEF TypeOK
  <1>2. /\ i.op \in Opcode /\ i.funct3 \in 0 .. 7 /\ i.rs1 \in Reg /\ i.rs2 \in Reg
        /\ i.rd \in Reg /\ i.imm \in [0 .. 4 -> Word]
    BY <1>1 DEF Instr
  <1>3. /\ ctl.RegWrite \in Bit /\ ctl.ImmSrc \in 0 .. 4 /\ ctl.ALUSrc \in Bit
        /\ ctl.MemWrite \in Bit /\ ctl.MemRead \in Bit /\ ctl.ResultSrc \in 0 .. 2
        /\ ctl.Branch \in Bit /\ ctl.Jump \in Bit
    BY <1>2, DecoderType
  <1>4. ALUControl(i.op, i.funct3, i.funct7_5) \in 0 .. 15
    BY ALUControlType
  <1>5. registers[i.rs1] \in Word /\ registers[i.rs2] \in Word /\ i.imm[ctl.ImmSrc] \in Word
    BY <1>2, <1>3 DEF TypeOK
  <1> HIDE DEF i, ctl
  <1>6. DecodedE = [RegWrite |-> ctl.RegWrite, ResultSrc |-> ctl.ResultSrc,
         MemWrite |-> ctl.MemWrite, MemRead |-> ctl.MemRead,
         Jump |-> ctl.Jump, Branch |-> ctl.Branch,
         ALUControl |-> ALUControl(i.op, i.funct3, i.funct7_5),
         ALUSrc |-> ctl.ALUSrc,
         RD1 |-> registers[i.rs1], RD2 |-> registers[i.rs2],
         PC |-> D.PC, Rs1 |-> i.rs1, Rs2 |-> i.rs2, Rd |-> i.rd,
         ImmExt |-> i.imm[ctl.ImmSrc], PCPlus4 |-> D.PCPlus4,
         funct3 |-> i.funct3, op |-> i.op]
    BY DEF DecodedE, i, ctl
  <1> QED  BY <1>1, <1>2, <1>3, <1>4, <1>5, <1>6 DEF EType

-----------------------------------------------------------------------------
LEMMA PosEdgeType == TypeOK /\ PosEdge => TypeOK'
  <1> SUFFICES ASSUME TypeOK, PosEdge PROVE TypeOK'
    OBVIOUS
  <1>1. CLK' \in Bit /\ RST' \in Bit /\ simcyc' \in Nat /\ rom' \in [RomAddr -> Instr]
        /\ registers' \in [Reg -> Word]
    BY DEF PosEdge, TypeOK, Bit
  <1>2. PCF' \in Word
    BY ZeroTypes, FetchTypes DEF PosEdge, PcPosEdge, PcLoad, TypeOK
  <1>3. D' \in [Instr : Instr, PC : Word, PCPlus4 : Word]
    BY ZeroTypes, FetchTypes DEF PosEdge, DPosEdge, TypeOK
  <1>4. E' \in EType
    BY ZeroTypes, DecodedType DEF PosEdge, EPosEdge, TypeOK
  <1>5. M' \in MType
    <2>1. ALUResult(SrcA, SrcB, E.ALUControl) \in Word /\ WriteDataE \in Word
      BY ExecuteTypes, ALUResultType
    <2> QED  BY <2>1 DEF PosEdge, MPosEdge, TypeOK, EType, MType
  <1>6. W' \in WType
    BY MemoryTypes DEF PosEdge, WPosEdge, TypeOK, MType, WType
  <1>7. MemTypeOK'
    <2>1. LanesOf(M.WriteData) \in RamWord
      BY LanesType, RiscVAssumption DEF TypeOK, MType, Lanes, RamWord
    <2>2. WEM \in SUBSET (0 .. 3)
      BY WriteEnableType DEF WEM
    <2> QED  BY <2>1, <2>2, MemoryTypes, ClockTypes DEF PosEdge, TypeOK
  <1> QED  BY <1>1, <1>2, <1>3, <1>4, <1>5, <1>6, <1>7 DEF TypeOK

\* The falling edge changes the register file only.
LEMMA RegFileType == TypeOK /\ RegFileNegEdge => registers' \in [Reg -> Word]
  BY ResultWType DEF TypeOK, RegFileNegEdge, WType

LEMMA NegEdgeType == TypeOK /\ NegEdge => TypeOK'
  BY RegFileType DEF NegEdge, TypeOK, MemTypeOK, Bit, Block, RamWord, RDMem

LEMMA ReleaseResetType == TypeOK /\ ReleaseReset => TypeOK'
  <1> SUFFICES ASSUME TypeOK, ReleaseReset PROVE TypeOK'
    OBVIOUS
  <1>1. PCF' \in Word
    BY FetchTypes DEF ReleaseReset, PcLoad, TypeOK
  <1> QED  BY <1>1, RegFileType DEF ReleaseReset, TypeOK, MemTypeOK, Bit

\* Every register of the design keeps the width it is declared with.
THEOREM TypeCorrect == Spec => []TypeOK
  <1>1. TypeOK /\ UNCHANGED vars => TypeOK'
    BY DEF vars, TypeOK, MemTypeOK
  <1>2. TypeOK /\ [Next]_vars => TypeOK'
    BY <1>1, PosEdgeType, NegEdgeType, ReleaseResetType DEF Next
  <1> QED  BY InitType, <1>2, PTL DEF Spec

-----------------------------------------------------------------------------
(* No reader of a load's destination is in E while the load is in M.  The  *)
(* fact is kept by one step: the load and its reader were neighbours in E  *)
(* and D, and lwstall then cleared E at the edge that moved the load on; a *)
(* cache stall moves neither.                                              *)

LoadUseApart ==
    M.ResultSrc = 1 => /\ E.Rs1 = 0 \/ E.Rs1 # M.Rd
                       /\ E.Rs2 = 0 \/ E.Rs2 # M.Rd

LEMMA LoadUseApartStep == TypeOK /\ LoadUseApart /\ [Next]_vars => LoadUseApart'
  <1> SUFFICES ASSUME TypeOK, LoadUseApart, [Next]_vars PROVE LoadUseApart'
    OBVIOUS
  <1>1. CASE PosEdge
    <2>1. CASE CacheMiss
      <3>1. M' = M /\ (E' = E \/ E' = BubbleE)
        BY <1>1, <2>1 DEF PosEdge, MPosEdge, EPosEdge, StallEMW
      <3> QED  BY <3>1 DEF LoadUseApart, BubbleE
    <2>2. CASE ~CacheMiss
      <3>1. M'.ResultSrc = E.ResultSrc /\ M'.Rd = E.Rd
        BY <1>1, <2>2 DEF PosEdge, MPosEdge, StallEMW
      <3>2. CASE E' = BubbleE
        BY <3>2 DEF LoadUseApart, BubbleE
      <3>3. CASE E' # BubbleE
        <4>1. E' = DecodedE /\ ~LoadUse
          BY <1>1, <2>2, <3>3 DEF PosEdge, EPosEdge, FlushE, StallEMW
        <4>2. E'.Rs1 = D.Instr.rs1 /\ E'.Rs2 = D.Instr.rs2
          BY <4>1 DEF DecodedE
        <4>3. E.ResultSrc = 1 => E.Rd # D.Instr.rs1 /\ E.Rd # D.Instr.rs2
          BY <4>1 DEF LoadUse, lwstall
        <4> QED  BY <3>1, <4>2, <4>3 DEF LoadUseApart
      <3> QED  BY <3>2, <3>3
    <2> QED  BY <2>1, <2>2
  <1>2. CASE NegEdge \/ ReleaseReset \/ UNCHANGED vars
    BY <1>2 DEF NegEdge, ReleaseReset, vars, LoadUseApart
  <1> QED  BY <1>1, <1>2 DEF Next

\* The address of a load is never forwarded in place of its data.
THEOREM NoAddressForwardedHolds == Spec => []NoAddressForwarded
  <1>1. Init => LoadUseApart
    BY DEF Init, ZeroM, LoadUseApart
  <1>2. LoadUseApart => NoAddressForwarded
    BY DEF LoadUseApart, NoAddressForwarded, ForwardAE, ForwardBE, Forward,
           FromMemory, FromWriteback, NoForward
  <1> QED  BY <1>1, <1>2, LoadUseApartStep, TypeCorrect, PTL DEF Spec

-----------------------------------------------------------------------------
(* Operands are current.  Three facts carry the argument: x0 is never      *)
(* written; the value E read in decode is the register's unless the        *)
(* instruction in W overwrites it; and an instruction in M whose result is *)
(* PC+4, which forward.sv would forward wrongly, has bubbles behind it.    *)

ZeroRegister == registers[0] = 0

ReadsFresh ==
    /\ ~Writes(W, E.Rs1) => E.RD1 = registers[E.Rs1]
    /\ ~Writes(W, E.Rs2) => E.RD2 = registers[E.Rs2]

JumpShadow ==
    NoAuipc => /\ D.Instr.op # AUIPC
               /\ E.ResultSrc = 2 => E.op \in {JAL, JALR}
               /\ M.ResultSrc = 2 => E = BubbleE /\ D = BubbleD

LEMMA ZeroRegisterStep == TypeOK /\ ZeroRegister /\ [Next]_vars => ZeroRegister'
  BY ZeroTypes DEF Next, PosEdge, NegEdge, ReleaseReset, RegFileNegEdge, vars, ZeroRegister, TypeOK

LEMMA ReadsFreshStep ==
    TypeOK /\ ZeroRegister /\ ReadsFresh /\ [Next]_vars => ReadsFresh'
  <1> SUFFICES ASSUME TypeOK, ZeroRegister, ReadsFresh, [Next]_vars PROVE ReadsFresh'
    OBVIOUS
  <1>1. CASE PosEdge
    <2>1. registers' = registers
      BY <1>1 DEF PosEdge
    <2>2. CASE E' = BubbleE
      BY <2>1, <2>2 DEF ReadsFresh, BubbleE, ZeroRegister
    <2>3. CASE CacheMiss /\ E' # BubbleE
      <3>1. E' = E /\ W' = W
        BY <1>1, <2>3 DEF PosEdge, EPosEdge, WPosEdge, StallEMW
      <3> QED  BY <2>1, <3>1 DEF ReadsFresh, Writes
    <2>4. CASE ~CacheMiss /\ E' # BubbleE
      <3>1. E' = DecodedE
        BY <1>1, <2>4 DEF PosEdge, EPosEdge, StallEMW
      <3> QED  BY <2>1, <3>1 DEF ReadsFresh, DecodedE
    <2> QED  BY <2>2, <2>3, <2>4
  <1>2. CASE NegEdge \/ ReleaseReset
    <2>1. E' = E /\ W' = W /\ RegFileNegEdge
      BY <1>2 DEF NegEdge, ReleaseReset
    <2>2. ASSUME NEW r \in Reg, ~Writes(W, r) PROVE registers'[r] = registers[r]
      BY <2>1, <2>2 DEF RegFileNegEdge, Writes, TypeOK
    <2>3. E.Rs1 \in Reg /\ E.Rs2 \in Reg
      BY DEF TypeOK, EType
    <2> QED  BY <2>1, <2>2, <2>3 DEF ReadsFresh, Writes
  <1>3. CASE UNCHANGED vars
    BY <1>3 DEF vars, ReadsFresh, Writes
  <1> QED  BY <1>1, <1>2, <1>3 DEF Next

\* PC+4 is the result of auipc, jal and jalr only; the last two redirect the
\* fetch from E.
LEMMA LinkOps ==
    ASSUME NEW op \in Opcode
    PROVE  MainDecoder(op).ResultSrc = 2 => op \in {AUIPC, JAL, JALR}
  BY DEF MainDecoder, Row

LEMMA JumpRedirects == E.op \in {JAL, JALR} => PCSrcE = 1
  BY DEF PCSrcE, PCSrc, IsJumpOp, JAL, JALR, B

LEMMA JumpShadowStep == TypeOK /\ JumpShadow /\ [Next]_vars => JumpShadow'
  <1> SUFFICES ASSUME TypeOK, JumpShadow, [Next]_vars, NoAuipc'
               PROVE  /\ D'.Instr.op # AUIPC
                      /\ E'.ResultSrc = 2 => E'.op \in {JAL, JALR}
                      /\ M'.ResultSrc = 2 => E' = BubbleE /\ D' = BubbleD
    BY DEF JumpShadow
  <1>1. rom' = rom
    BY DEF Next, PosEdge, NegEdge, ReleaseReset, vars
  <1>2. NoAuipc
    BY <1>1 DEF NoAuipc
  <1>3. CASE PosEdge
    <2>1. InstrF.op # AUIPC
      <3>1. PCF % RomSize \in RomAddr
        BY Moduli, RiscVAssumption DEF TypeOK, Word, RomSize, RomAddr
      <3> QED  BY <1>2, <3>1 DEF NoAuipc, InstrF
    <2>2. D'.Instr.op # AUIPC
      BY <1>2, <1>3, <2>1 DEF PosEdge, DPosEdge, BubbleD, ZeroInstr, AUIPC, JumpShadow
    <2>3. E'.ResultSrc = 2 => E'.op \in {JAL, JALR}
      <3>1. D.Instr.op \in Opcode
        BY DEF TypeOK, Instr
      <3>2. DecodedE.ResultSrc = 2 => DecodedE.op \in {JAL, JALR}
        BY <1>2, <3>1, LinkOps DEF DecodedE, JumpShadow
      <3> QED  BY <1>2, <1>3, <3>2 DEF PosEdge, EPosEdge, BubbleE, JumpShadow
    <2>4. M'.ResultSrc = 2 => E' = BubbleE /\ D' = BubbleD
      <3>1. CASE CacheMiss
        BY <1>2, <1>3, <3>1
        DEF PosEdge, MPosEdge, EPosEdge, DPosEdge, StallEMW, StallFD, JumpShadow
      <3>2. CASE ~CacheMiss
        <4>1. M'.ResultSrc = E.ResultSrc
          BY <1>3, <3>2 DEF PosEdge, MPosEdge, StallEMW
        <4> QED
          BY <1>2, <1>3, <4>1, JumpRedirects
          DEF PosEdge, EPosEdge, DPosEdge, FlushE, FlushD, JumpShadow
      <3> QED  BY <3>1, <3>2
    <2> QED  BY <2>2, <2>3, <2>4
  <1>4. CASE NegEdge \/ ReleaseReset \/ UNCHANGED vars
    BY <1>2, <1>4 DEF NegEdge, ReleaseReset, vars, JumpShadow
  <1> QED  BY <1>3, <1>4 DEF Next

\* The inductive invariant behind OperandsCurrent.
OperandsInv == TypeOK /\ ZeroRegister /\ ReadsFresh /\ JumpShadow

LEMMA OperandsInvariant == Spec => []OperandsInv
  <1>1. Init => OperandsInv
    <2> SUFFICES ASSUME Init PROVE OperandsInv
      OBVIOUS
    <2>1. ZeroRegister /\ ReadsFresh
      BY ZeroTypes DEF Init, ZeroRegister, ReadsFresh, BubbleE
    <2>2. JumpShadow
      BY DEF Init, JumpShadow, BubbleD, BubbleE, ZeroM, ZeroInstr, AUIPC
    <2> QED  BY <2>1, <2>2, InitType DEF OperandsInv
  <1>2. OperandsInv /\ [Next]_vars => OperandsInv'
    <2>1. TypeOK /\ UNCHANGED vars => TypeOK'
      BY DEF vars, TypeOK, MemTypeOK
    <2>2. TypeOK /\ [Next]_vars => TypeOK'
      BY <2>1, PosEdgeType, NegEdgeType, ReleaseResetType DEF Next
    <2> QED
      BY <2>2, ZeroRegisterStep, ReadsFreshStep, JumpShadowStep DEF OperandsInv
  <1> QED  BY <1>1, <1>2, PTL DEF Spec

\* An operand after forwarding is the architectural value of its register.
LEMMA ForwardedCurrent ==
    ASSUME OperandsInv, NoAuipc, NEW r \in Reg, NEW rd,
           ~Writes(W, r) => rd = registers[r],
           M.ResultSrc = 2 => r = 0
    PROVE  Operand(Forward(r, M.Rd, M.RegWrite, W.Rd, W.RegWrite), rd) = ArchReg(r)
  <1>1. M.ResultSrc \in 0 .. 2
    BY DEF OperandsInv, TypeOK, MType
  <1>2. CASE Writes(M, r)
    <2>1. M.ResultSrc < 2
      BY <1>1, <1>2 DEF Writes
    <2> QED  BY <1>1, <1>2, <2>1 DEF Writes, Forward, Operand, ArchReg, FromMemory, FromWriteback
  <1>3. CASE ~Writes(M, r) /\ Writes(W, r)
    BY <1>3 DEF Writes, Forward, Operand, ArchReg, FromMemory, FromWriteback
  <1>4. CASE ~Writes(M, r) /\ ~Writes(W, r)
    BY <1>4 DEF Writes, Forward, Operand, ArchReg, FromMemory, FromWriteback, NoForward
  <1> QED  BY <1>2, <1>3, <1>4

\* In a program without auipc, every operand used in E is the value that the
\* older instructions in flight and the register file determine.
THEOREM OperandsCurrentHolds == Spec => []OperandsCurrent
  <1>1. OperandsInv => OperandsCurrent
    <2> SUFFICES ASSUME OperandsInv, NoAuipc
                 PROVE  SrcA = ArchReg(E.Rs1) /\ WriteDataE = ArchReg(E.Rs2)
      BY DEF OperandsCurrent
    <2>1. E.Rs1 \in Reg /\ E.Rs2 \in Reg
      BY DEF OperandsInv, TypeOK, EType
    <2>2. M.ResultSrc = 2 => E.Rs1 = 0 /\ E.Rs2 = 0
      BY DEF OperandsInv, JumpShadow, BubbleE
    <2>3. SrcA = ArchReg(E.Rs1)
      BY <2>1, <2>2, ForwardedCurrent DEF OperandsInv, ReadsFresh, SrcA, ForwardAE
    <2>4. WriteDataE = ArchReg(E.Rs2)
      BY <2>1, <2>2, ForwardedCurrent DEF OperandsInv, ReadsFresh, WriteDataE, ForwardBE
    <2> QED  BY <2>3, <2>4
  <1> QED  BY <1>1, OperandsInvariant, PTL

\* Nothing fetched past a jump survives behind it.
THEOREM JumpShadowEmptyHolds == Spec => []JumpShadowEmpty
  <1>1. OperandsInv => JumpShadowEmpty
    BY DEF OperandsInv, JumpShadow, JumpShadowEmpty
  <1> QED  BY <1>1, OperandsInvariant, PTL
=============================================================================
