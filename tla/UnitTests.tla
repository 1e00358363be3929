----------------------------- MODULE UnitTests -----------------------------
(***************************************************************************)
(* What the repository's unit tests of the decoders and of the sign        *)
(* extension expect: control_unit_tb.cpp as a table of rows, and the       *)
(* reference model that sign_extend_tb.cpp compares sign_extend.sv with.   *)
(* control_unit_tb.cpp still drives the flags and reads the PCSrc that     *)
(* control_unit.sv had before they became flags.sv: its rows are applied   *)
(* to the decoders and flags.sv together.                                  *)
(***************************************************************************)
EXTENDS Alu, SignExtend

Any == -1   \* a signal the test does not look at

\* assertControlSignals; flags are <<Zero, C, V, N>>.  (ALUSrc is a parameter
\* the function does not assert.)
Test(o, f3, f7, flags, regWrite, immSrc, memWrite, resultSrc, pcSrc, ctl, jump) ==
    [op |-> o, funct3 |-> f3, funct7_5 |-> f7, flags |-> flags,
     expected |-> <<regWrite, immSrc, memWrite, resultSrc, pcSrc, ctl, jump>>]

NoFlags == <<0, 0, 0, 0>>

\* funct3, funct7_5 and the ALUControl the register tests expect.
RTypeTests ==
    {Test(OP, x[1], x[2], NoFlags, 1, Any, 0, 0, 0, x[3], 0) :
        x \in {<<0, 0, 0>>, <<0, 1, 1>>, <<1, 0, 2>>, <<2, 0, 3>>, <<3, 0, 4>>,
               <<4, 0, 5>>, <<5, 0, 6>>, <<5, 1, 7>>, <<6, 0, 8>>, <<7, 0, 9>>}}

LoadTests == {Test(LOAD, f3, 0, NoFlags, 1, 0, 0, 1, 0, 0, 0) : f3 \in {0, 1, 2, 4, 5}}

ITypeTests ==
    {Test(OPIMM, x[1], x[2], NoFlags, 1, 0, 0, 0, 0, x[3], 0) :
        x \in {<<0, 0, 0>>, <<1, 0, 2>>, <<2, 0, 3>>, <<3, 0, 4>>, <<4, 0, 5>>,
               <<5, 0, 6>>, <<5, 1, 7>>, <<6, 0, 8>>, <<7, 0, 9>>}}

STypeTests == {Test(STORE, f3, 0, NoFlags, 0, 1, 1, Any, 0, 0, 0) : f3 \in 0 .. 2}

\* funct3, the flags the test drives, and whether it expects a branch.
BTypeTests ==
    {Test(BRANCH, x[1], 0, x[2], 0, 2, 0, Any, x[3], 1, 0) :
        x \in {<<0, <<0, 0, 0, 0>>, 0>>, <<0, <<1, 0, 0, 0>>, 1>>,
               <<1, <<0, 0, 0, 0>>, 1>>, <<1, <<1, 0, 0, 0>>, 0>>,
               <<4, <<0, 0, 1, 1>>, 0>>, <<4, <<0, 0, 0, 1>>, 1>>,
               <<5, <<0, 0, 0, 1>>, 0>>, <<5, <<0, 0, 1, 1>>, 1>>,
               <<6, <<0, 0, 0, 0>>, 0>>, <<6, <<0, 1, 0, 0>>, 1>>,
               <<7, <<0, 1, 0, 0>>, 0>>, <<7, <<0, 0, 0, 0>>, 1>>}}

UJTypeTests ==
    {Test(AUIPC, 0, 0, NoFlags, 1, 3, 0, 2, 0, Any, Any),
     Test(LUI, 0, 0, NoFlags, 1, 3, 0, 0, 0, 11, Any),
     Test(JALR, 0, 0, NoFlags, 1, 0, 0, 2, 1, Any, 1),
     Test(JAL, 0, 0, NoFlags, 1, 4, 0, 3, 1, Any, 0)}

ControlUnitTests ==
    RTypeTests \cup LoadTests \cup ITypeTests \cup STypeTests \cup BTypeTests \cup UJTypeTests

\* The signals of the decoders, and the redirection flags.sv decides from the
\* flags the test drives.
Signals(t) ==
    LET row == MainDecoder(t.op)
        taken == BranchCondition(t.funct3, t.flags[1], t.flags[4], t.flags[2], t.flags[3])
    IN  <<row.RegWrite, row.ImmSrc, row.MemWrite, row.ResultSrc,
          B(IsJumpOp(t.op) \/ (IsBranchOp(t.op) /\ row.Branch = 1 /\ taken)),
          ALUControl(t.op, t.funct3, t.funct7_5), row.Jump>>

\* The assertions of a row that fail, by their place in expected.
Failing(t) == {i \in DOMAIN t.expected : t.expected[i] \notin {Any, Signals(t)[i]}}

ResultSrcAt == 4

-----------------------------------------------------------------------------
\* bitExtracted(number, k, p) << to
Field(number, k, p, to) == {i + to : i \in {i \in 0 .. k - 1 : i + p \in number}}

\* (immediate & mask) | -(immediate & sign)
SignFill(immediate, sign) == immediate \cup (IF sign \in immediate THEN sign .. 31 ELSE {})

expected_value(Instr, ImmSrc) ==
    CASE ImmSrc = 1 -> SignFill(Field(Instr, 7, 25, 5) \cup Field(Instr, 5, 7, 0), 11)
      [] ImmSrc = 2 -> SignFill(Field(Instr, 1, 31, 12) \cup Field(Instr, 1, 7, 11)
                                  \cup Field(Instr, 6, 25, 5) \cup Field(Instr, 4, 8, 1), 12)
      [] ImmSrc = 3 -> Field(Instr, 20, 12, 12)
      [] ImmSrc = 4 -> Field(Instr, 1, 31, 20) \cup Field(Instr, 8, 12, 12)
                         \cup Field(Instr, 1, 20, 11) \cup Field(Instr, 10, 21, 1)
      [] OTHER -> SignFill(Field(Instr, 12, 20, 0), 11)
=============================================================================
