----------------------------- MODULE SignExtend -----------------------------
(***************************************************************************)
(* sign_extend.sv at the level of wires, and the encoding it has to undo.  *)
(* A 32-bit word is the set of the positions of its 1 bits, so the unit is *)
(* the table that names, for each bit of ImmOp, the instruction bit that   *)
(* drives it.                                                              *)
(***************************************************************************)
EXTENDS ControlUnit

BitPos == 0 .. 31
Tied0 == -1   \* a bit of ImmOp that is wired to 0

\* Mutant: bits 11 and 12 of a jump's offset are taken in address order.
DriverJ_InOrder(k) ==
    CASE k >= 20 -> 31
      [] k \in 11 .. 19 -> k + 1
      [] k \in 1 .. 10 -> k + 20
      [] OTHER -> Tied0

\* {{12{Instr[31]}}, Instr[19:12], Instr[20], Instr[30:21], 1'b0}
DriverJ(k) ==
    CASE k >= 20 -> 31
      [] k \in 12 .. 19 -> k
      [] k = 11 -> 20
      [] k \in 1 .. 10 -> k + 20
      [] OTHER -> Tied0

\* {{20{Instr[31]}}, Instr[7], Instr[30:25], Instr[11:8], 1'b0}
DriverB(k) ==
    CASE k >= 12 -> 31
      [] k = 11 -> 7
      [] k \in 5 .. 10 -> k + 20
      [] k \in 1 .. 4 -> k + 7
      [] OTHER -> Tied0

\* The concatenations of sign_extend.sv, read from the most significant bit.
Driver(ImmSrc, k) ==
    CASE ImmSrc = 1 -> IF k >= 11 THEN 31 ELSE IF k >= 5 THEN k + 20 ELSE k + 7
      [] ImmSrc = 2 -> DriverB(k)
      [] ImmSrc = 3 -> IF k >= 12 THEN k ELSE Tied0
      [] ImmSrc = 4 -> DriverJ(k)
      [] OTHER -> IF k >= 11 THEN 31 ELSE k + 20

ImmOp(instr, ImmSrc) == {k \in BitPos : Driver(ImmSrc, k) \in instr}

-----------------------------------------------------------------------------
(* The instruction formats of the RV32I manual: for an instruction bit,    *)
(* the immediate bit an assembler puts there, or Other.                    *)

Other == -2

ImmOps == {LOAD, STORE, OPIMM, BRANCH, AUIPC, LUI, JALR, JAL}

Encoded(op, i) ==
    CASE op \in {LOAD, OPIMM, JALR} /\ i >= 20 -> i - 20
      [] op = STORE /\ i >= 25 -> i - 20
      [] op = STORE /\ i \in 7 .. 11 -> i - 7
      [] op = BRANCH /\ i = 31 -> 12
      [] op = BRANCH /\ i \in 25 .. 30 -> i - 20
      [] op = BRANCH /\ i \in 8 .. 11 -> i - 7
      [] op = BRANCH /\ i = 7 -> 11
      [] op \in {AUIPC, LUI} /\ i >= 12 -> i
      [] op = JAL /\ i = 31 -> 20
      [] op = JAL /\ i \in 21 .. 30 -> i - 20
      [] op = JAL /\ i = 20 -> 11
      [] op = JAL /\ i \in 12 .. 19 -> i
      [] OTHER -> Other

\* The immediate bits an instruction of this opcode carries; the highest one
\* is the sign.
ImmBits(op) == {Encoded(op, i) : i \in BitPos} \ {Other}
SignPos(op) ==
    CASE op \in {LOAD, OPIMM, JALR, STORE} -> 11
      [] op = BRANCH -> 12
      [] op = JAL -> 20
      [] OTHER -> 31

\* The instruction word: the immediate in its places, every other bit alike.
Assemble(op, imm, filler) ==
    {i \in BitPos : IF Encoded(op, i) = Other THEN filler = 1
                    ELSE Encoded(op, i) \in imm}

\* The 32-bit value of the immediate.
Extended(op, imm) ==
    {k \in BitPos : IF k > SignPos(op) THEN SignPos(op) \in imm ELSE k \in imm}
=============================================================================
