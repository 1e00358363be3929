-------------------------------- MODULE Alu --------------------------------
(***************************************************************************)
(* The combinational units of the execute stage: alu.sv computes a result  *)
(* and four flags, flags.sv turns the flags of a subtraction and the       *)
(* opcode into the decision to redirect the fetch.                         *)
(***************************************************************************)
EXTENDS Words

\* SrcB[SHIFT_WIDTH-1:0]: the distance of a shift.
Shamt(b) == b % 2 ^ SHIFT_WIDTH

\* The two sign bits select how set-less-than compares: two words of one sign
\* by their magnitude bits, otherwise by the sign alone.
SetLessThan(a, b) ==
    CASE Sign(a) = 0 /\ Sign(b) = 0 -> B(a < b)
      [] Sign(a) = 0 /\ Sign(b) = 1 -> 0
      [] Sign(a) = 1 /\ Sign(b) = 0 -> 1
      [] OTHER -> B(a % SignBit < b % SignBit)

\* The vacated bits of a negative operand are filled by complementing the
\* shifted all-ones word.
ShiftRightArith(a, b) ==
    LET logical == a \div 2 ^ Shamt(b)
        fill == (WordMod - 1) - (WordMod - 1) \div 2 ^ Shamt(b)
    IN  IF Sign(a) = 1 THEN BitOr(fill, logical) ELSE logical

\* Mutant: sums and differences keep their carry.
ALUResult_Unwrapped(a, b, ctl) ==
    CASE ctl = 0 -> a + b
      [] ctl = 1 -> a - b
      [] OTHER   -> b

ALUResult(a, b, ctl) ==
    CASE ctl = 0  -> Trunc(a + b)
      [] ctl = 1  -> Trunc(a - b)
      [] ctl = 2  -> Trunc(a * 2 ^ Shamt(b))
      [] ctl = 3  -> SetLessThan(a, b)
      [] ctl = 4  -> B(a < b)
      [] ctl = 5  -> BitXor(a, b)
      [] ctl = 6  -> a \div 2 ^ Shamt(b)
      [] ctl = 7  -> ShiftRightArith(a, b)
      [] ctl = 8  -> BitOr(a, b)
      [] ctl = 9  -> BitAnd(a, b)
      [] ctl = 11 -> b
      [] OTHER    -> 0

\* Mutant: the carry of a + ~b + 1, the inverse of a borrow.
C_AdderCarry(a, b, ctl) ==
    CASE ctl = 0 -> B(a + b >= WordMod)
      [] ctl = 1 -> B(a - b >= 0)
      [] OTHER   -> 0

\* Bit DATA_WIDTH of the widened sum or difference: the carry of an addition,
\* the borrow of a subtraction, 0 for every other operation.
C(a, b, ctl) ==
    CASE ctl = 0 -> B(a + b >= WordMod)
      [] ctl = 1 -> B(a - b < 0)
      [] OTHER   -> 0

Zero(a, b, ctl) == B(ALUResult(a, b, ctl) = 0)
N(a, b, ctl) == Sign(ALUResult(a, b, ctl))

\* The signed-overflow flag: operands of one sign, a result of the other,
\* whatever the operation.
V(a, b, ctl) == B(Sign(a) = Sign(b) /\ Sign(a) # N(a, b, ctl))

-----------------------------------------------------------------------------
\* Mutant: equality is left to N and V.
SignedGreaterThan_NoZero(zero, n, v) == n = v

\* flags.sv:20.
SignedGreaterThan(zero, n, v) ==
    \/ n = 0 /\ v = 0
    \/ zero = 1
    \/ n = 1 /\ v = 1

\* {op[6:5], op[2:0]} = 11111: jal and jalr.
IsJumpOp(op) == op \div 32 = 3 /\ op % 8 = 7

\* {op[6:5], op[1:0]} = 1111, when it is not a jump: a b-type instruction.
IsBranchOp(op) == op \div 32 = 3 /\ op % 4 = 3 /\ ~IsJumpOp(op)

BranchCondition(funct3, zero, n, c, v) ==
    \/ funct3 = 0 /\ zero = 1                        \* beq
    \/ funct3 = 1 /\ zero = 0                        \* bne
    \/ funct3 = 4 /\ ~SignedGreaterThan(zero, n, v)  \* blt
    \/ funct3 = 5 /\ SignedGreaterThan(zero, n, v)   \* bge
    \/ funct3 = 6 /\ c = 1                           \* bltu
    \/ funct3 = 7 /\ c = 0                           \* bgeu

\* The module flags: redirect the fetch to the target of the instruction in E.
PCSrc(op, funct3, branch, a, b, ctl) ==
    B(\/ IsJumpOp(op)
      \/ /\ IsBranchOp(op)
         /\ branch = 1
         /\ BranchCondition(funct3, Zero(a, b, ctl), N(a, b, ctl),
                            C(a, b, ctl), V(a, b, ctl)))
=============================================================================
