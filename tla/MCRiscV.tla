------------------------------ MODULE MCRiscV ------------------------------
(***************************************************************************)
(* RiscV with 8-bit words of four 2-bit bytes, four registers, a ROM of    *)
(* eight or 16 instructions, 16 bytes of data memory and two cache sets,   *)
(* running every program of a family: a prologue and then all sequences of *)
(* Length instructions over an alphabet; the rest of the ROM is zero, as   *)
(* $readmemh leaves it.                                                    *)
(***************************************************************************)
EXTENDS RiscVProperties, Sequences

CONSTANTS Alphabet, Length

\* The fields of an instruction overlap: rs1, rs2 and rd of a format that has
\* no such field are bits of its immediate, and an immediate read in another
\* format is some other word.
Encode(op, funct3, funct7_5, rs1, rs2, rd, format, imm) ==
    [op |-> op, funct3 |-> funct3, funct7_5 |-> funct7_5,
     rs1 |-> rs1, rs2 |-> rs2, rd |-> rd,
     imm |-> [f \in 0 .. 4 |-> Trunc(IF f = format THEN imm ELSE imm + 1)]]

Field(imm) == Trunc(imm) % 2 ^ REG_ADDRESS_WIDTH

RType(f3, f7, rd, rs1, rs2) == Encode(OP, f3, f7, rs1, rs2, rd, 3, 0)
IType(op, f3, rd, rs1, imm) == Encode(op, f3, 0, rs1, Field(imm), rd, 0, imm)
SType(f3, rs2, rs1, imm) == Encode(STORE, f3, 0, rs1, rs2, Field(imm), 1, imm)
BType(f3, rs1, rs2, imm) == Encode(BRANCH, f3, 0, rs1, rs2, Field(imm), 2, imm)
UType(op, rd, imm) == Encode(op, 0, 0, 0, 0, rd, 3, imm)
JType(rd, imm) == Encode(JAL, 0, 0, 0, Field(imm), rd, 4, imm)

Addi(rd, rs1, imm) == IType(OPIMM, 0, rd, rs1, imm)
Add(rd, rs1, rs2) == RType(0, 0, rd, rs1, rs2)
Sub(rd, rs1, rs2) == RType(0, 1, rd, rs1, rs2)
Lw(rd, rs1, imm) == IType(LOAD, 2, rd, rs1, imm)
Lbu(rd, rs1, imm) == IType(LOAD, 4, rd, rs1, imm)
Sw(rs2, rs1, imm) == SType(2, rs2, rs1, imm)
Sb(rs2, rs1, imm) == SType(0, rs2, rs1, imm)
Beq(rs1, rs2, imm) == BType(0, rs1, rs2, imm)
Bne(rs1, rs2, imm) == BType(1, rs1, rs2, imm)
Jalr(rd, rs1, imm) == IType(JALR, 0, rd, rs1, imm)

-----------------------------------------------------------------------------
\* A ROM image: the bytes of four consecutive addresses make an instruction
\* only at aligned addresses; nothing here is fetched at any other.
Load(program) ==
    [a \in RomAddr |-> IF a % 4 = 0 /\ a \div 4 < Len(program)
                       THEN program[a \div 4 + 1] ELSE ZeroInstr]

\* x3 is set well before any jalr reads it and never again.
Prologue == <<Addi(3, 0, 16), Addi(1, 0, 3), Addi(2, 1, 1)>>

Programs == {Load(Prologue \o body) : body \in [1 .. Length -> Alphabet]}

\* Arithmetic, stores, branches and jumps.
NoLoadAlphabet ==
    {Addi(1, 1, 1), Add(2, 1, 2), Sub(1, 2, 1), UType(LUI, 2, 12), Sw(2, 1, 0),
     Beq(1, 2, 8), Bne(1, 2, -4), JType(1, 8), Jalr(1, 3, 0)}

OneLoadAlphabet == NoLoadAlphabet \cup {Lw(2, 1, 4)}

\* Loads of two kinds next to what can be in flight around them.
LoadAlphabet ==
    {Lw(1, 2, 4), Lbu(2, 1, 0), Add(1, 1, 2), Sub(2, 1, 2), Sb(1, 2, 1),
     Bne(1, 2, 8), JType(2, 8), Lw(0, 1, 0)}

\* An instruction that transfers control, or that may itself be a load whose
\* user stalls behind it.
ControlOrLoad == {LOAD, BRANCH, JAL, JALR}

\* The coding rule under which hazard_unit.sv loses nothing: a load is not
\* followed at once by a jump, a branch or a load, unless that instruction
\* waits for the load's own result.
Spaced(r) ==
    \A x \in RomAddr :
        LET i == r[x]
            j == r[(x + 4) % RomSize]
        IN  i.op = LOAD /\ j.op \in ControlOrLoad => i.rd \in {j.rs1, j.rs2}

SpacedPrograms == {r \in Programs : Spaced(r)}

\* A load is executed at most once: it is alone and nothing jumps back.
Back == {Bne(1, 2, -4), Jalr(1, 3, 0)}
LoadsOnce(r) ==
    LET loads == {x \in RomAddr : r[x].op = LOAD}
    IN  loads # {} => /\ Cardinality(loads) = 1
                      /\ \A x \in RomAddr : r[x] \notin Back

\* Spaced programs without loads, or with one load that meets a cold cache.
SequentialPrograms == {r \in SpacedPrograms : LoadsOnce(r)}

\* Programs for a documented behaviour that the code does not have.
JalrAlphabet == {Addi(1, 0, 8), Jalr(2, 1, 0)}

\* Memory starts with a program's data image.
MCInit ==
    /\ ram_array = [a \in MemAddr |-> a % ByteMod]
    /\ Init
MCSpec == MCInit /\ [][Next]_vars /\ WF_vars(Next)
=============================================================================
