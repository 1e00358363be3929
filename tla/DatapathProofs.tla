--------------------------- MODULE DatapathProofs ---------------------------
(***************************************************************************)
(* Facts about the combinational units for every word width: their results *)
(* are words, their controls have the declared widths.                     *)
(***************************************************************************)
EXTENDS Alu, ControlUnit, TLAPS

\* The moduli are naturals, each at least twice the sign position.
LEMMA Moduli ==
    /\ ByteMod \in Nat /\ ByteMod >= 2
    /\ HalfMod \in Nat /\ HalfMod >= ByteMod
    /\ WordMod \in Nat /\ WordMod >= HalfMod
    /\ SignBit \in Nat /\ SignBit >= 1 /\ SignBit < WordMod
  <1>1. ByteMod \in Nat /\ ByteMod >= 2
    BY PowerAssumption
  <1>2. ASSUME NEW x \in Nat, x >= 2 PROVE x * x \in Nat /\ x * x >= x
    BY <1>2
  <1>3. HalfMod \in Nat /\ HalfMod >= ByteMod
    BY <1>1, <1>2 DEF HalfMod
  <1>4. WordMod \in Nat /\ WordMod >= HalfMod
    BY <1>1, <1>2, <1>3 DEF WordMod
  <1>5. SignBit \in Nat /\ SignBit >= 1 /\ SignBit < WordMod
    BY <1>1, <1>3, <1>4 DEF SignBit
  <1> QED  BY <1>1, <1>3, <1>4, <1>5

LEMMA TruncType == ASSUME NEW x \in Int PROVE Trunc(x) \in Word
  BY Moduli DEF Trunc, Word

LEMMA BitType == ASSUME NEW P PROVE B(P) \in Bit
  BY DEF B, Bit

LEMMA BitWord == Bit \subseteq Word
  BY Moduli DEF Bit, Word

\* A quotient by a positive number is no larger than the dividend.
LEMMA Quotient ==
    ASSUME NEW x \in Nat, NEW n \in Nat \ {0}
    PROVE  x \div n \in 0 .. x
  OBVIOUS

LEMMA DataWidth == DATA_WIDTH \in Nat /\ DATA_WIDTH >= 4
  BY WidthAssumption DEF DATA_WIDTH

LEMMA ShiftFactor == ASSUME NEW b \in Word PROVE 2 ^ Shamt(b) \in Nat \ {0}
  <1>1. 2 ^ SHIFT_WIDTH \in Nat \ {0}
    BY PowerAssumption
  <1>2. Shamt(b) \in 0 .. 2 ^ SHIFT_WIDTH
    BY <1>1 DEF Shamt, Word
  <1> QED  BY <1>2, PowerAssumption

LEMMA ShiftRightType ==
    ASSUME NEW a \in Word, NEW b \in Word
    PROVE  a \div 2 ^ Shamt(b) \in Word
  <1>1. a \in Nat /\ a < WordMod
    BY Moduli DEF Word
  <1>2. a \div 2 ^ Shamt(b) \in 0 .. a
    BY <1>1, ShiftFactor, Quotient
  <1> QED  BY <1>1, <1>2, Moduli DEF Word

\* The bits of a bitwise result.
LEMMA BitwiseBits ==
    ASSUME NEW a \in Word, NEW b \in Word
    PROVE  /\ BitAnd(a, b) \in Word /\ BitOr(a, b) \in Word /\ BitXor(a, b) \in Word
           /\ \A k \in BitRange :
                 /\ BitOf(BitAnd(a, b), k) = BitOf(a, k) * BitOf(b, k)
                 /\ BitOf(BitOr(a, b), k) = B(BitOf(a, k) + BitOf(b, k) > 0)
                 /\ BitOf(BitXor(a, b), k) = (BitOf(a, k) + BitOf(b, k)) % 2
  <1>1. ASSUME NEW x \in Word, NEW k \in BitRange PROVE BitOf(x, k) \in Bit
    <2>1. x \in Nat /\ 2 ^ k \in Nat \ {0}
      BY Moduli, ExponentAssumption, DataWidth DEF Word, BitRange
    <2>2. x \div 2 ^ k \in Nat
      BY <2>1, Quotient
    <2> QED  BY <2>2 DEF BitOf, Bit
  <1>2. ASSUME NEW x \in Bit, NEW y \in Bit
        PROVE  x * y \in Bit /\ B(x + y > 0) \in Bit /\ (x + y) % 2 \in Bit
    BY DEF Bit, B
  <1>3. /\ [k \in BitRange |-> BitOf(a, k) * BitOf(b, k)] \in [BitRange -> Bit]
        /\ [k \in BitRange |-> B(BitOf(a, k) + BitOf(b, k) > 0)] \in [BitRange -> Bit]
        /\ [k \in BitRange |-> (BitOf(a, k) + BitOf(b, k)) % 2] \in [BitRange -> Bit]
    BY <1>1, <1>2
  <1> QED  BY <1>3, BinaryAssumption DEF BitAnd, BitOr, BitXor

LEMMA ShiftRightArithType ==
    ASSUME NEW a \in Word, NEW b \in Word
    PROVE  ShiftRightArith(a, b) \in Word
  <1>1. WordMod - 1 \in Word
    BY Moduli DEF Word
  <1>2. (WordMod - 1) - ((WordMod - 1) \div 2 ^ Shamt(b)) \in Word
    <2> DEFINE q == (WordMod - 1) \div 2 ^ Shamt(b)
    <2>1. q \in Word
      BY <1>1, ShiftRightType
    <2> HIDE DEF q
    <2>2. (WordMod - 1) - q \in Word
      BY <2>1, Moduli DEF Word
    <2> QED  BY <2>2 DEF q
  <1> QED  BY <1>2, ShiftRightType, BitwiseBits DEF ShiftRightArith

\* alu.sv: ALUResult is a word whatever the control.
LEMMA ALUResultType ==
    ASSUME NEW a \in Word, NEW b \in Word, NEW ctl
    PROVE  ALUResult(a, b, ctl) \in Word
  <1>1. a \in Int /\ b \in Int /\ 0 \in Word /\ 1 \in Word
    BY Moduli DEF Word
  <1>2. Trunc(a + b) \in Word /\ Trunc(a - b) \in Word
    BY <1>1, TruncType
  <1>3. Trunc(a * 2 ^ Shamt(b)) \in Word
    <2>1. a * 2 ^ Shamt(b) \in Int
      BY <1>1, ShiftFactor
    <2> QED  BY <2>1, TruncType
  <1>4. SetLessThan(a, b) \in Word /\ B(a < b) \in Word
    BY <1>1 DEF SetLessThan, B
  <1> QED
    BY <1>1, <1>2, <1>3, <1>4, ShiftRightType, ShiftRightArithType, BitwiseBits
    DEF ALUResult

\* control_unit.sv: the widths of the control signals.
LEMMA DecoderType ==
    ASSUME NEW op \in Opcode
    PROVE  MainDecoder(op) \in
             [RegWrite : Bit, ImmSrc : 0 .. 4, ALUSrc : Bit, MemWrite : Bit,
              MemRead : Bit, ResultSrc : 0 .. 2, Branch : Bit, ALUOp : 0 .. 4,
              Jump : Bit]
  BY DEF MainDecoder, Row, Bit

LEMMA ALUControlType ==
    ASSUME NEW op, NEW funct3, NEW funct7_5
    PROVE  ALUControl(op, funct3, funct7_5) \in 0 .. 15
  <1>1. ArithControl(op, funct3, funct7_5) \in 0 .. 15
    BY DEF ArithControl
  <1> QED  BY <1>1 DEF ALUControl, AluDecoder

\* we_decoder.sv enables lanes of the word.
LEMMA WriteEnableType == ASSUME NEW w, NEW f PROVE WriteEnable(w, f) \in SUBSET (0 .. 3)
  BY DEF WriteEnable

LEMMA LanesType == ASSUME NEW w \in Word PROVE LanesOf(w) \in Lanes
  <1>1. ASSUME NEW k \in 0 .. 3 PROVE (w \div ByteMod ^ k) % ByteMod \in Byte
    <2>1. w \in Nat /\ ByteMod ^ k \in Nat \ {0}
      BY PowerAssumption, Moduli DEF Word
    <2>2. w \div ByteMod ^ k \in Nat
      BY <2>1, Quotient
    <2> QED  BY <2>2, Moduli DEF Byte
  <1> QED  BY <1>1 DEF LanesOf, Lanes

\* A lower digit and a higher part make a number below the product.
LEMMA Digits ==
    ASSUME NEW m \in Nat, NEW n \in Nat, NEW x \in 0 .. m - 1, NEW y \in 0 .. n - 1
    PROVE  x + m * y \in 0 .. m * n - 1
  <1>1. m * y \in Nat /\ m * n \in Nat
    OBVIOUS
  <1>2. y <= n - 1
    OBVIOUS
  <1>3. m * y <= m * (n - 1)
    BY <1>2
  <1>4. m * (n - 1) = m * n - m
    OBVIOUS
  <1> QED  BY <1>1, <1>3, <1>4

LEMMA ExtendType ==
    ASSUME NEW m \in Nat, m >= 2, m <= WordMod, NEW x \in 0 .. m - 1
    PROVE  Extend(x, m) \in Word
  BY Moduli DEF Extend, Word

\* ld_decoder.sv: every kind of load yields a word.
LEMMA LdDecoderType ==
    ASSUME NEW RD \in Lanes, NEW f
    PROVE  LdDecoder(RD, f) \in Word
  <1>1. RD[0] \in Byte /\ RD[1] \in Byte /\ RD[2] \in Byte /\ RD[3] \in Byte
    BY DEF Lanes
  <1>2. RD[0] + ByteMod * RD[1] \in 0 .. HalfMod - 1
    BY <1>1, Moduli, Digits DEF Byte, HalfMod
  <1>3. WordOf(RD) \in Word
    <2>1. RD[2] + ByteMod * RD[3] \in 0 .. HalfMod - 1
      BY <1>1, Moduli, Digits DEF Byte, HalfMod
    <2>2. RD[1] + ByteMod * (RD[2] + ByteMod * RD[3]) \in 0 .. ByteMod * HalfMod - 1
      BY <1>1, <2>1, Moduli, Digits DEF Byte
    <2>3. ByteMod * HalfMod \in Nat
      BY Moduli
    <2>4. WordOf(RD) \in 0 .. ByteMod * (ByteMod * HalfMod) - 1
      BY <1>1, <2>2, <2>3, Moduli, Digits DEF Byte, WordOf
    <2>5. ByteMod * (ByteMod * HalfMod) = WordMod
      BY Moduli DEF HalfMod, WordMod
    <2> QED  BY <2>4, <2>5 DEF Word
  <1>4. RD[0] \in Word /\ RD[0] + ByteMod * RD[1] \in Word /\ 0 \in Word
    BY <1>1, <1>2, Moduli DEF Byte, Word
  <1>5. Extend(RD[0], ByteMod) \in Word
    BY <1>1, Moduli, ExtendType DEF Byte
  <1>6. Extend(RD[0] + ByteMod * RD[1], HalfMod) \in Word
    BY <1>2, Moduli, ExtendType
  <1> QED  BY <1>3, <1>4, <1>5, <1>6 DEF LdDecoder
=============================================================================
