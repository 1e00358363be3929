---------------------------- MODULE ControlUnit ----------------------------
(***************************************************************************)
(* The decoders: control_unit.sv with its main and ALU decoders in the     *)
(* decode stage, we_decoder.sv and ld_decoder.sv around the memories.      *)
(***************************************************************************)
EXTENDS Words

\* Major opcodes, the 7-bit patterns of main_decoder.sv.
LOAD   == 3
OPIMM  == 19
AUIPC  == 23
STORE  == 35
OP     == 51
LUI    == 55
BRANCH == 99
JALR   == 103
JAL    == 111

Opcode == 0 .. 127

\* A row of the main decoder's table.
Row(regWrite, immSrc, aluSrc, memWrite, memRead, resultSrc, branch, aluOp, jump) ==
    [RegWrite |-> regWrite, ImmSrc |-> immSrc, ALUSrc |-> aluSrc,
     MemWrite |-> memWrite, MemRead |-> memRead, ResultSrc |-> resultSrc,
     Branch |-> branch, ALUOp |-> aluOp, Jump |-> jump]

\*                         RegWrite
\*                         |  ImmSrc
\*                         |  |  ALUSrc
\*                         |  |  |  MemWrite
\*                         |  |  |  |  MemRead
\*                         |  |  |  |  |  ResultSrc
\*                         |  |  |  |  |  |  Branch
\*                         |  |  |  |  |  |  |  ALUOp
\*                         |  |  |  |  |  |  |  |  Jump
MainDecoder(op) ==
    CASE op = LOAD   -> Row(1, 0, 1, 0, 1, 1, 0, 0, 0)
      [] op = STORE  -> Row(0, 1, 1, 1, 0, 0, 0, 0, 0)
      [] op = OP     -> Row(1, 0, 0, 0, 0, 0, 0, 2, 0)
      [] op = OPIMM  -> Row(1, 0, 1, 0, 0, 0, 0, 2, 0)
      [] op = BRANCH -> Row(0, 2, 0, 0, 0, 0, 1, 1, 0)
      [] op = AUIPC  -> Row(1, 3, 1, 0, 0, 2, 0, 4, 0)
      [] op = LUI    -> Row(1, 3, 1, 0, 0, 0, 0, 4, 0)
      [] op = JALR   -> Row(1, 0, 1, 0, 0, 2, 1, 3, 1)
      [] op = JAL    -> Row(1, 4, 0, 0, 0, 2, 1, 4, 0)
      [] OTHER       -> Row(0, 0, 0, 0, 0, 0, 0, 0, 1)

\* Mutant: bit 30 alone selects subtraction, as if addi had no immediate there.
ArithControl_SubByBit30(op, funct3, funct7_5) ==
    CASE funct3 = 0 -> funct7_5
      [] funct3 = 5 -> 6 + funct7_5
      [] OTHER      -> IF funct3 < 5 THEN funct3 + 1 ELSE funct3 + 2

\* ALUOp 010: the operation funct3 names, subtraction only for the register
\* form (op[5]), the arithmetic shift for both forms.
ArithControl(op, funct3, funct7_5) ==
    CASE funct3 = 0 -> IF BitOf(op, 5) = 1 /\ funct7_5 = 1 THEN 1 ELSE 0
      [] funct3 = 1 -> 2
      [] funct3 = 2 -> 3
      [] funct3 = 3 -> 4
      [] funct3 = 4 -> 5
      [] funct3 = 5 -> IF funct7_5 = 1 THEN 7 ELSE 6
      [] funct3 = 6 -> 8
      [] OTHER      -> 9

\* Mutant: branches leave the ALU adding.
AluDecoder_BranchAdds(op, funct3, funct7_5, ALUOp) ==
    CASE ALUOp = 2 -> ArithControl(op, funct3, funct7_5)
      [] ALUOp = 4 -> 11
      [] OTHER     -> 0

AluDecoder(op, funct3, funct7_5, ALUOp) ==
    CASE ALUOp = 1 -> 1
      [] ALUOp = 2 -> ArithControl(op, funct3, funct7_5)
      [] ALUOp = 4 -> 11
      [] OTHER     -> 0

\* The two decoders as control_unit.sv wires them.
ALUControl(op, funct3, funct7_5) ==
    AluDecoder(op, funct3, funct7_5, MainDecoder(op).ALUOp)

-----------------------------------------------------------------------------
\* The byte lanes WE0..WE3 a store enables.
WriteEnable(memWrite, funct3) ==
    CASE memWrite = 1 /\ funct3 = 0 -> {0}
      [] memWrite = 1 /\ funct3 = 1 -> {0, 1}
      [] memWrite = 1 /\ funct3 = 2 -> 0 .. 3
      [] OTHER -> {}

\* Mutant: the most negative quantity is taken for a positive one.
Extend_OffByOne(x, mod) == IF x > mod \div 2 THEN x + (WordMod - mod) ELSE x

\* An n-byte quantity extended to a word by its sign.
Extend(x, mod) == IF x >= mod \div 2 THEN x + (WordMod - mod) ELSE x

\* The word a load of kind funct3 takes from the four lanes RD.
LdDecoder(RD, funct3) ==
    LET half == RD[0] + ByteMod * RD[1]
    IN  CASE funct3 = 0 -> Extend(RD[0], ByteMod)
          [] funct3 = 1 -> Extend(half, HalfMod)
          [] funct3 = 2 -> WordOf(RD)
          [] funct3 = 4 -> RD[0]
          [] funct3 = 5 -> half
          [] OTHER -> 0
=============================================================================
