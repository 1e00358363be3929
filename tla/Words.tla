------------------------------- MODULE Words -------------------------------
(***************************************************************************)
(* Machine words of the datapath (parameter DATA_WIDTH of src/rtl).  A     *)
(* word is the natural number its bits denote, so "<=" between vectors of  *)
(* the same width is equality, + and - wrap modulo WordMod, and a          *)
(* comparison without $signed is the comparison of naturals.  The width is *)
(* a parameter: the hardware has BYTE_WIDTH = 8 and SHIFT_WIDTH = 5, the   *)
(* model-checked instances are narrower.                                   *)
(***************************************************************************)
EXTENDS Integers, FiniteSetsExt

CONSTANTS
    BYTE_WIDTH,   \* bits of a byte lane (data_mem.sv:4)
    SHIFT_WIDTH   \* bits of SrcB that a shift uses (alu.sv:4)

DATA_WIDTH == 4 * BYTE_WIDTH
ByteMod == 2 ^ BYTE_WIDTH
HalfMod == ByteMod * ByteMod
WordMod == HalfMod * HalfMod
SignBit == WordMod \div 2

Bit == {0, 1}
Byte == 0 .. ByteMod - 1
Word == 0 .. WordMod - 1
Lanes == [0 .. 3 -> Byte]

\* The low DATA_WIDTH bits of a sum or a difference.
Trunc(x) == x % WordMod

\* A bit from a truth value: what a comparison drives onto a wire.
B(cond) == IF cond THEN 1 ELSE 0

BitOf(x, k) == (x \div 2 ^ k) % 2
Sign(x) == B(x >= SignBit)

\* The integer a word denotes in two's complement.
Signed(x) == IF x >= SignBit THEN x - WordMod ELSE x

\* The word with bit d[k] in position k, and the bitwise operators.
BitRange == 0 .. DATA_WIDTH - 1
WordOfBits(d) == MapThenSumSet(LAMBDA k : d[k] * 2 ^ k, BitRange)
BitAnd(a, b) == WordOfBits([k \in BitRange |-> BitOf(a, k) * BitOf(b, k)])
BitOr(a, b)  == WordOfBits([k \in BitRange |-> B(BitOf(a, k) + BitOf(b, k) > 0)])
BitXor(a, b) == WordOfBits([k \in BitRange |-> (BitOf(a, k) + BitOf(b, k)) % 2])

\* The byte lanes WD[7:0], WD[15:8], WD[23:16], WD[31:24] of a word, and the
\* word four lanes concatenate to.
LanesOf(w) == [k \in 0 .. 3 |-> (w \div ByteMod ^ k) % ByteMod]
WordOf(l) == l[0] + ByteMod * (l[1] + ByteMod * (l[2] + ByteMod * l[3]))

-----------------------------------------------------------------------------
ASSUME WidthAssumption ==
    /\ BYTE_WIDTH \in Nat \ {0}
    /\ SHIFT_WIDTH \in Nat \ {0} /\ 2 ^ SHIFT_WIDTH <= DATA_WIDTH

(* Arithmetic facts about exponents and about binary representation that   *)
(* hold for every width but need induction over it, which the provers      *)
(* lack: TLC evaluates them on every instance.                             *)
ASSUME PowerAssumption ==
    /\ 2 ^ SHIFT_WIDTH \in Nat \ {0}
    /\ \A k \in 0 .. 2 ^ SHIFT_WIDTH : 2 ^ k \in Nat \ {0}
    /\ \A k \in 0 .. 3 : ByteMod ^ k \in Nat \ {0}
    /\ ByteMod \in Nat \ {0, 1}
    /\ ByteMod % 2 = 0
    /\ ByteMod ^ 0 = 1 /\ ByteMod ^ 1 = ByteMod
    /\ ByteMod ^ 2 = HalfMod /\ ByteMod ^ 3 = ByteMod * HalfMod

ASSUME ExponentAssumption ==
    /\ 2 ^ 0 = 1 /\ 2 ^ 1 = 2 /\ 2 ^ DATA_WIDTH = WordMod
    /\ \A k, n \in 0 .. DATA_WIDTH : /\ 2 ^ k \in Nat \ {0}
                                     /\ k <= n => 2 ^ n = 2 ^ k * 2 ^ (n - k)

\* Words and sequences of DATA_WIDTH bits correspond one to one.
ASSUME BinaryAssumption ==
    /\ \A d \in [BitRange -> Bit] :
          WordOfBits(d) \in Word /\ \A k \in BitRange : BitOf(WordOfBits(d), k) = d[k]
    /\ \A w \in Word : WordOfBits([k \in BitRange |-> BitOf(w, k)]) = w
=============================================================================
