------------------------ MODULE DatapathBenchProofs ------------------------
(***************************************************************************)
(* For every word width and every immediate: the decoders, the flags, the  *)
(* lanes of the memory and the sign extension do what the instruction set  *)
(* and the unit tests expect of them.                                      *)
(***************************************************************************)
EXTENDS DatapathBench, DatapathProofs

\* The instructions and operands the bench drives.
BenchInv ==
    /\ op \in ImmOps \cup {OP}
    /\ funct3 \in 0 .. 7 /\ funct7_5 \in Bit
    /\ a \in Word /\ b \in Word /\ pc \in Word
    /\ imm \subseteq ImmBits(op)
    /\ filler \in Bit

\* An initial instruction, an operand that goes up and a bit that is set.
LEMMA BenchInvHolds == Spec => []BenchInv
  <1>1. Init => BenchInv
    <2> SUFFICES ASSUME Init PROVE BenchInv
      OBVIOUS
    <2>1. 0 \in Word /\ SignBit \in Word
      BY Moduli DEF Word
    <2>2. filler \in Bit
      BY DEF Init, Bit
    <2> QED  BY <2>1, <2>2 DEF Init, BenchInv
  <1>2. BenchInv /\ [Next]_vars => BenchInv'
    <2> SUFFICES ASSUME BenchInv, [Next]_vars PROVE BenchInv'
      OBVIOUS
    <2>1. CASE NextOperand
      <3>1. b' \in Word
        BY <2>1, Moduli DEF NextOperand, BenchInv, Word
      <3> QED  BY <2>1, <3>1 DEF NextOperand, BenchInv
    <2>2. ASSUME NEW k \in BitPos, SetBit(k) PROVE BenchInv'
      BY <2>2 DEF SetBit, BenchInv
    <2>3. CASE UNCHANGED vars
      BY <2>3 DEF vars, BenchInv
    <2> QED  BY <2>1, <2>2, <2>3 DEF Next
  <1> QED  BY <1>1, <1>2, PTL DEF Spec

-----------------------------------------------------------------------------
(* Branches                                                                *)

\* The subtraction of a branch: its value, its zero and its borrow.
LEMMA Difference ==
    ASSUME NEW x \in Word, NEW y \in Word
    PROVE  /\ Trunc(x - y) = IF x >= y THEN x - y ELSE x - y + WordMod
           /\ Trunc(x - y) = 0 <=> x = y
  BY Moduli DEF Trunc, Word

\* What the decoders make of the opcode: a branch subtracts.
LEMMA BranchControl ==
    /\ MainDecoder(BRANCH).Branch = 1
    /\ ALUControl(BRANCH, funct3, funct7_5) = 1
    /\ IsBranchOp(BRANCH) /\ ~IsJumpOp(BRANCH)
  BY DEF MainDecoder, ALUControl, AluDecoder, Row, IsBranchOp, IsJumpOp,
         LOAD, STORE, OP, OPIMM, BRANCH, AUIPC, LUI, JALR, JAL

\* Among the opcodes of the bench only jal and jalr jump, and only b-type
\* instructions branch.
LEMMA JumpOps ==
    ASSUME op \in ImmOps \cup {OP}, op # BRANCH
    PROVE  (IsJumpOp(op) <=> op \in {JAL, JALR}) /\ ~IsBranchOp(op)
  BY DEF ImmOps, IsBranchOp, IsJumpOp, LOAD, STORE, OP, OPIMM, BRANCH, AUIPC, LUI, JALR, JAL

\* flags.sv on a branch.
LEMMA TakenBranch ==
    ASSUME op = BRANCH
    PROVE  Taken <=> BranchCondition(funct3, Zero(a, b, 1), N(a, b, 1), C(a, b, 1), V(a, b, 1))
  BY BranchControl DEF Taken, Ctl, PCSrc, B

\* The zero flag and the carry of a subtraction.
LEMMA SubtractionFlags ==
    ASSUME a \in Word, b \in Word
    PROVE  /\ Zero(a, b, 1) = B(a = b)
           /\ C(a, b, 1) = B(a < b)
           /\ N(a, b, 1) = Sign(Trunc(a - b))
  <1>1. ALUResult(a, b, 1) = Trunc(a - b)
    BY DEF ALUResult
  <1>2. a - b < 0 <=> a < b
    BY Moduli DEF Word
  <1>3. C(a, b, 1) = B(a - b < 0)
    BY DEF C
  <1> QED  BY <1>1, <1>2, <1>3, Difference DEF Zero, N, B

\* beq, bne, bltu and bgeu decide by equality and by the order of the words,
\* jumps always redirect, nothing else does.
LEMMA BranchCorrectStep ==
    ASSUME BenchInv
    PROVE  BranchCorrect
  <1>t. a \in Word /\ b \in Word /\ op \in ImmOps \cup {OP} /\ funct3 \in 0 .. 7
    BY DEF BenchInv
  <1>1. CASE op = BRANCH
    <2>1. Taken <=> BranchCondition(funct3, Zero(a, b, 1), N(a, b, 1), C(a, b, 1), V(a, b, 1))
      BY <1>1, TakenBranch
    <2>2. Zero(a, b, 1) = B(a = b) /\ C(a, b, 1) = B(a < b)
      BY <1>t, SubtractionFlags
    <2>3. a < b <=> ~(a >= b)
      BY <1>t, Moduli DEF Word
    <2>4. /\ funct3 = 0 => (Taken <=> a = b)
          /\ funct3 = 1 => (Taken <=> a # b)
          /\ funct3 = 6 => (Taken <=> a < b)
          /\ funct3 = 7 => (Taken <=> a >= b)
          /\ funct3 \in {2, 3} => ~Taken
      BY <2>1, <2>2, <2>3 DEF BranchCondition, B
    <2>5. funct3 \in {0, 1, 2, 3, 4, 5, 6, 7}
      BY <1>t
    <2>6. CASE funct3 \in {0, 1}
      BY <1>1, <2>4, <2>6 DEF BranchCorrect
    <2>7. CASE funct3 \in {2, 3}
      BY <1>1, <2>4, <2>7 DEF BranchCorrect
    <2>8. CASE funct3 \in {4, 5}
      BY <1>1, <2>8 DEF BranchCorrect
    <2>9. CASE funct3 \in {6, 7}
      BY <1>1, <2>4, <2>9 DEF BranchCorrect
    <2> QED  BY <2>5, <2>6, <2>7, <2>8, <2>9
  <1>2. CASE op # BRANCH
    <2>1. Taken <=> op \in {JAL, JALR}
      BY <1>2, <1>t, JumpOps DEF Taken, PCSrc, B
    <2> QED  BY <1>2, <2>1 DEF BranchCorrect
  <1> QED  BY <1>1, <1>2

-----------------------------------------------------------------------------
(* Numbers                                                                 *)

\* Division with remainder.
LEMMA DivMod ==
    ASSUME NEW x \in Nat, NEW n \in Nat \ {0}
    PROVE  x \div n \in Nat /\ x % n \in 0 .. n - 1 /\ x = n * (x \div n) + (x % n)
  OBVIOUS

\* It is unique.
LEMMA DivModUnique ==
    ASSUME NEW x \in Int, NEW n \in Nat \ {0}, NEW q \in Int, NEW r \in 0 .. n - 1, x = n * q + r
    PROVE  x \div n = q /\ x % n = r
  <1> DEFINE p == x \div n
             s == x % n
  <1>1. p \in Int /\ s \in 0 .. n - 1 /\ x = n * p + s
    OBVIOUS
  <1> HIDE DEF p, s
  <1>2. n * (p - q) = r - s
    <2>1. n * (p - q) = n * p - n * q
      BY <1>1
    <2> QED  BY <1>1, <2>1
  <1>3. p - q = 0
    <2>1. CASE p - q >= 1
      <3>1. n * (p - q) >= n
        BY <2>1, <1>1
      <3> QED  BY <3>1, <1>1, <1>2
    <2>2. CASE p - q <= -1
      <3>1. n * (p - q) <= -n
        BY <2>2, <1>1
      <3> QED  BY <3>1, <1>1, <1>2
    <2> QED  BY <2>1, <2>2, <1>1
  <1>4. p = q /\ s = r
    BY <1>1, <1>2, <1>3
  <1> QED  BY <1>4 DEF p, s

\* The moduli are even.
LEMMA Halves ==
    /\ ByteMod = 2 * (ByteMod \div 2) /\ HalfMod = 2 * (HalfMod \div 2)
    /\ WordMod = 2 * SignBit
  <1>1. ByteMod \in Nat /\ HalfMod \in Nat /\ WordMod \in Nat /\ ByteMod % 2 = 0
    BY Moduli, PowerAssumption
  <1>2. PICK h \in Nat : ByteMod = 2 * h
    BY <1>1
  <1>3. HalfMod = 2 * (h * ByteMod) /\ h * ByteMod \in Nat
    BY <1>1, <1>2 DEF HalfMod
  <1>4. PICK g \in Nat : HalfMod = 2 * g
    BY <1>3
  <1>5. WordMod = 2 * (g * HalfMod) /\ g * HalfMod \in Nat
    BY <1>1, <1>4 DEF WordMod
  <1>6. PICK f \in Nat : WordMod = 2 * f
    BY <1>5
  <1>7. ASSUME NEW x \in Nat, NEW y \in Nat, x = 2 * y PROVE x = 2 * (x \div 2)
    BY <1>7
  <1> QED  BY <1>1, <1>2, <1>4, <1>6, <1>7 DEF SignBit

\* blt and bge when the operands have different signs and their difference
\* does not overflow, or when they are equal.
LEMMA SignedBranchStep ==
    ASSUME BenchInv
    PROVE  SignedBranchPartial
  <1>t. a \in Word /\ b \in Word /\ a \in Int /\ b \in Int
    BY Moduli DEF BenchInv, Word
  <1> DEFINE diff == Signed(a) - Signed(b)
  <1> SUFFICES ASSUME op = BRANCH,
                      a = b \/ (Sign(a) # Sign(b) /\ diff \in -SignBit .. SignBit - 1)
               PROVE  /\ funct3 = 4 => (Taken <=> diff < 0)
                      /\ funct3 = 5 => (Taken <=> diff >= 0)
    BY DEF SignedBranchPartial
  <1>m. WordMod = 2 * SignBit /\ SignBit \in Nat /\ SignBit >= 1
    BY Halves, Moduli
  <1>d. Signed(a) \in Int /\ Signed(b) \in Int /\ diff \in Int
    BY <1>t, <1>m DEF Signed
  <1>1. Taken <=> BranchCondition(funct3, Zero(a, b, 1), N(a, b, 1), C(a, b, 1), V(a, b, 1))
    BY TakenBranch
  <1>2. /\ Zero(a, b, 1) = B(a = b)
        /\ N(a, b, 1) = Sign(Trunc(a - b))
        /\ V(a, b, 1) = B(Sign(a) = Sign(b) /\ Sign(a) # N(a, b, 1))
    BY <1>t, SubtractionFlags DEF V
  <1>3. SignedGreaterThan(Zero(a, b, 1), N(a, b, 1), V(a, b, 1)) <=> diff >= 0
    <2>1. CASE a = b
      <3>1. diff = 0
        BY <2>1, <1>d
      <3>2. Zero(a, b, 1) = 1
        BY <2>1, <1>2 DEF B
      <3> QED  BY <3>1, <3>2 DEF SignedGreaterThan
    <2>2. CASE a # b /\ Sign(a) # Sign(b) /\ diff \in -SignBit .. SignBit - 1
      <3>1. V(a, b, 1) = 0 /\ Zero(a, b, 1) = 0
        BY <2>2, <1>2 DEF B
      <3>2. Trunc(a - b) = IF a >= b THEN a - b ELSE a - b + WordMod
        BY <1>t, Difference
      <3>3. N(a, b, 1) = 0 <=> diff >= 0
        <4>1. CASE a >= SignBit /\ b < SignBit
          <5>1. diff = a - WordMod - b
            BY <4>1, <1>t, <1>m DEF Signed
          <5>2. Trunc(a - b) = a - b /\ a - b >= SignBit /\ diff < 0
            BY <4>1, <5>1, <3>2, <2>2, <1>t, <1>m DEF Word
          <5> QED  BY <5>2, <1>2, <1>d DEF Sign, B
        <4>2. CASE a < SignBit /\ b >= SignBit
          <5>1. diff = a - (b - WordMod)
            BY <4>2, <1>t, <1>m DEF Signed
          <5>2. Trunc(a - b) = a - b + WordMod /\ a - b + WordMod < SignBit /\ diff >= 0
            BY <4>2, <5>1, <3>2, <2>2, <1>t, <1>m DEF Word
          <5>3. ~(Trunc(a - b) >= SignBit)
            BY <5>2, <1>t, <1>m
          <5> QED  BY <5>2, <5>3, <1>2 DEF Sign, B
        <4>3. (a >= SignBit /\ b < SignBit) \/ (a < SignBit /\ b >= SignBit)
          BY <2>2, <1>t, <1>m DEF Sign, B
        <4> QED  BY <4>1, <4>2, <4>3
      <3> QED  BY <3>1, <3>3 DEF SignedGreaterThan
    <2> QED  BY <2>1, <2>2
  <1>4. diff < 0 <=> ~(diff >= 0)
    BY <1>d
  <1> HIDE DEF diff
  <1> QED  BY <1>1, <1>3, <1>4 DEF BranchCondition

-----------------------------------------------------------------------------
(* Stores and loads                                                        *)

\* Dividing twice is dividing by the product, and the two remainders are the
\* digits of the remainder.
Digits2(x, m, n) ==
    /\ m * n \in Nat \ {0}
    /\ x \div (m * n) = (x \div m) \div n
    /\ x % (m * n) = (x % m) + m * ((x \div m) % n)

\* It is so for every number and every two divisors.
LEMMA TwoDigits ==
    ASSUME NEW x \in Nat, NEW m \in Nat \ {0}, NEW n \in Nat \ {0}
    PROVE  Digits2(x, m, n)
  <1> DEFINE q == x \div m
             r == x % m
             p == q \div n
             s == q % n
  <1>1. q \in Nat /\ r \in 0 .. m - 1 /\ x = m * q + r
    BY DivMod
  <1>2. p \in Nat /\ s \in 0 .. n - 1 /\ q = n * p + s
    BY <1>1, DivMod
  <1> HIDE DEF q, r, p, s
  <1>3. m * n \in Nat \ {0}
    OBVIOUS
  <1>4. r + m * s \in 0 .. m * n - 1
    BY <1>1, <1>2, Digits
  <1>5. x = (m * n) * p + (r + m * s)
    <2>1. m * (n * p + s) = (m * n) * p + m * s
      BY <1>1, <1>2
    <2> QED  BY <2>1, <1>1, <1>2, <1>3
  <1>6. x \div (m * n) = p /\ x % (m * n) = r + m * s
    BY <1>2, <1>3, <1>4, <1>5, DivModUnique
  <1> QED  BY <1>3, <1>6 DEF q, r, p, s, Digits2

\* The lanes of a word are its digits: one is the low byte, two the low half,
\* four the word.
LEMMA LanesDigits ==
    ASSUME NEW w \in Word
    PROVE  /\ LanesOf(w)[0] = w % ByteMod
           /\ LanesOf(w)[0] + ByteMod * LanesOf(w)[1] = w % HalfMod
           /\ WordOf(LanesOf(w)) = w
  <1>m. /\ ByteMod \in Nat \ {0} /\ HalfMod \in Nat \ {0} /\ ByteMod * HalfMod \in Nat \ {0}
        /\ WordMod \in Nat /\ w \in Nat /\ w < WordMod
        /\ HalfMod = ByteMod * ByteMod /\ WordMod = HalfMod * HalfMod
    BY Moduli DEF Word, HalfMod, WordMod
  <1>n. ByteMod \in Nat \ {0} /\ HalfMod \in Nat \ {0} /\ w \in Nat
    BY <1>m
  <1>l. /\ LanesOf(w)[0] = (w \div 1) % ByteMod /\ LanesOf(w)[1] = (w \div ByteMod) % ByteMod
        /\ LanesOf(w)[2] = (w \div HalfMod) % ByteMod
        /\ LanesOf(w)[3] = (w \div (ByteMod * HalfMod)) % ByteMod
    BY PowerAssumption DEF LanesOf
  <1>1. LanesOf(w)[0] = w % ByteMod
    <2>1. w \div 1 = w
      BY <1>m
    <2> QED  BY <2>1, <1>l
  <1> DEFINE h == w \div HalfMod
  <1>2. LanesOf(w)[0] + ByteMod * LanesOf(w)[1] = w % HalfMod
    <2>1. w % (ByteMod * ByteMod) = (w % ByteMod) + ByteMod * ((w \div ByteMod) % ByteMod)
      <3>1. Digits2(w, ByteMod, ByteMod)
        BY <1>n, TwoDigits, Zenon
      <3> QED  BY <3>1 DEF Digits2
    <2> QED  BY <2>1, <1>1, <1>l DEF HalfMod
  <1>3. h \in Nat /\ w = HalfMod * h + (w % HalfMod) /\ w % HalfMod \in Nat
    <2>1. h \in Nat /\ w % HalfMod \in 0 .. HalfMod - 1 /\ w = HalfMod * h + (w % HalfMod)
      BY <1>n, DivMod, Zenon
    <2>2. 0 .. HalfMod - 1 \subseteq Nat
      BY <1>n
    <2> QED  BY <2>1, <2>2, Zenon
  <1>4. h < HalfMod
    <2> SUFFICES ASSUME h >= HalfMod PROVE FALSE
      BY <1>3, <1>m
    <2> HIDE DEF h
    <2>1. HalfMod * h >= HalfMod * HalfMod
      BY <1>3, <1>m
    <2>2. HalfMod * h \in Nat /\ HalfMod * HalfMod \in Nat
      BY <1>3, <1>m
    <2> QED  BY <2>1, <2>2, <1>3, <1>m
  <1>5. h % HalfMod = h
    BY <1>3, <1>4, <1>m
  <1>6. LanesOf(w)[2] = h % ByteMod /\ LanesOf(w)[3] = (h \div ByteMod) % ByteMod
    <2>1. w \div (HalfMod * ByteMod) = (w \div HalfMod) \div ByteMod
      <3>1. Digits2(w, HalfMod, ByteMod)
        BY <1>n, TwoDigits, Zenon
      <3> QED  BY <3>1 DEF Digits2
    <2>2. HalfMod * ByteMod = ByteMod * HalfMod
      BY <1>m
    <2> QED  BY <2>1, <2>2, <1>l
  <1> HIDE DEF h
  <1>7. LanesOf(w)[2] + ByteMod * LanesOf(w)[3] = h
    <2>1. h % (ByteMod * ByteMod) = (h % ByteMod) + ByteMod * ((h \div ByteMod) % ByteMod)
      <3>1. Digits2(h, ByteMod, ByteMod)
        BY <1>3, <1>n, TwoDigits, Zenon
      <3> QED  BY <3>1 DEF Digits2
    <2> QED  BY <2>1, <1>5, <1>6 DEF HalfMod
  <1>8. WordOf(LanesOf(w)) = w
    <2> DEFINE l0 == LanesOf(w)[0]
               l1 == LanesOf(w)[1]
               u == LanesOf(w)[2] + ByteMod * LanesOf(w)[3]
    <2>1. l0 \in Nat /\ l1 \in Nat /\ u \in Nat
      <3>1. l0 \in Byte /\ l1 \in Byte
        BY LanesType DEF Lanes
      <3> QED  BY <3>1, <1>3, <1>7, <1>m DEF Byte
    <2>2. WordOf(LanesOf(w)) = l0 + ByteMod * (l1 + ByteMod * u)
      BY DEF WordOf
    <2> HIDE DEF l0, l1, u
    <2>3. l0 + ByteMod * (l1 + ByteMod * u) = (l0 + ByteMod * l1) + (ByteMod * ByteMod) * u
      BY <2>1, <1>m
    <2>4. l0 + ByteMod * l1 = w % HalfMod /\ u = h
      BY <1>2, <1>7 DEF l0, l1, u
    <2> QED  BY <2>2, <2>3, <2>4, <1>3, <1>m
  <1> QED  BY <1>1, <1>2, <1>8

\* The sign extension of a byte or of a half word denotes the same integer.
LEMMA ExtendSigned ==
    ASSUME NEW m \in Nat, m >= 2, m <= WordMod, m = 2 * (m \div 2), NEW x \in 0 .. m - 1
    PROVE  /\ Signed(Extend(x, m)) = IF x >= m \div 2 THEN x - m ELSE x
           /\ Signed(Extend(x, m)) \in -(m \div 2) .. (m \div 2) - 1
  <1> DEFINE h == m \div 2
  <1>1. h \in Nat /\ m = 2 * h
    OBVIOUS
  <1>2. WordMod = 2 * SignBit /\ SignBit \in Nat
    BY Halves, Moduli
  <1> HIDE DEF h
  <1>3. CASE x >= h
    <2>1. Extend(x, m) = x + (WordMod - m)
      BY <1>3 DEF Extend, h
    <2>2. Extend(x, m) >= SignBit
      BY <1>1, <1>2, <1>3, <2>1
    <2>3. Signed(Extend(x, m)) = x - m
      BY <1>1, <1>2, <2>1, <2>2 DEF Signed
    <2> QED  BY <1>1, <1>3, <2>3 DEF h
  <1>4. CASE ~(x >= h)
    <2>1. Extend(x, m) = x
      BY <1>4 DEF Extend, h
    <2>2. ~(x >= SignBit)
      BY <1>1, <1>2, <1>4
    <2>3. Signed(Extend(x, m)) = x
      BY <2>1, <2>2 DEF Signed
    <2> QED  BY <1>1, <1>4, <2>3 DEF h
  <1> QED  BY <1>3, <1>4

\* It differs from any number with that low byte or half by a multiple.
LEMMA ExtendCongruent ==
    ASSUME NEW m \in Nat, m >= 2, NEW w \in Nat, NEW z \in Int, z \in {w % m, (w % m) - m}
    PROVE  (z - w) % m = 0
  <1> DEFINE q == w \div m
             r == w % m
  <1>0. m \in Nat \ {0}
    OBVIOUS
  <1>1. q \in Nat /\ r \in 0 .. m - 1 /\ w = m * q + r
    BY <1>0, DivMod, Zenon
  <1> HIDE DEF q, r
  <1>2. PICK k \in Int : z - w = m * k + 0
    <2>1. CASE z = r
      <3>1. z - w = m * (-q) + 0
        BY <2>1, <1>1
      <3> QED  BY <3>1, <1>1
    <2>2. CASE z = r - m
      <3>1. m * (-q - 1) = -(m * q) - m
        BY <1>1
      <3>2. z - w = m * (-q - 1) + 0
        BY <2>2, <3>1, <1>1
      <3> QED  BY <3>2, <1>1
    <2> QED  BY <2>1, <2>2 DEF r
  <1>3. z - w \in Int /\ m \in Nat \ {0} /\ 0 \in 0 .. m - 1
    OBVIOUS
  <1> QED  BY <1>2, <1>3, DivModUnique

\* we_decoder.sv and ld_decoder.sv undo each other.
LEMMA StoreLoadStep ==
    ASSUME BenchInv
    PROVE  StoreLoadRoundTrip
  <1>t. a \in Word /\ b \in Word /\ a \in Nat
    BY Moduli DEF BenchInv, Word
  <1> DEFINE Stored(f3) == [k \in 0 .. 3 |->
                              IF k \in WriteEnable(1, f3) THEN LanesOf(a)[k] ELSE LanesOf(b)[k]]
             Loaded(f3) == LdDecoder(Stored(f3 % 4), f3)
             lo == a % ByteMod
             half == a % HalfMod
  <1>1. /\ LanesOf(a)[0] = lo
        /\ LanesOf(a)[0] + ByteMod * LanesOf(a)[1] = half
        /\ WordOf(LanesOf(a)) = a
    BY <1>t, LanesDigits
  <1>2. /\ Stored(0)[0] = lo /\ Stored(1)[0] + ByteMod * Stored(1)[1] = half
        /\ WordOf(Stored(2)) = a
    <2>1. WriteEnable(1, 0) = {0} /\ WriteEnable(1, 1) = {0, 1} /\ WriteEnable(1, 2) = 0 .. 3
      BY DEF WriteEnable
    <2> QED  BY <2>1, <1>1 DEF WordOf
  <1>3. 0 % 4 = 0 /\ 1 % 4 = 1 /\ 2 % 4 = 2 /\ 4 % 4 = 0 /\ 5 % 4 = 1
    OBVIOUS
  <1> HIDE DEF lo, half
  <1>4. /\ Loaded(2) = a /\ Loaded(4) = lo /\ Loaded(5) = half
        /\ Loaded(0) = Extend(lo, ByteMod) /\ Loaded(1) = Extend(half, HalfMod)
    <2> HIDE DEF Stored
    <2> QED  BY <1>2, <1>3 DEF LdDecoder
  <1>m. /\ ByteMod \in Nat /\ ByteMod >= 2 /\ ByteMod <= WordMod /\ ByteMod = 2 * (ByteMod \div 2)
        /\ HalfMod \in Nat /\ HalfMod >= 2 /\ HalfMod <= WordMod /\ HalfMod = 2 * (HalfMod \div 2)
    BY Moduli, Halves
  <1>5. lo \in 0 .. ByteMod - 1 /\ half \in 0 .. HalfMod - 1
    BY <1>t, <1>m DEF lo, half
  <1>6. /\ Signed(Loaded(0)) \in {lo, lo - ByteMod}
        /\ Signed(Loaded(0)) \in -(ByteMod \div 2) .. (ByteMod \div 2) - 1
    BY <1>4, <1>5, <1>m, ExtendSigned
  <1>7. /\ Signed(Loaded(1)) \in {half, half - HalfMod}
        /\ Signed(Loaded(1)) \in -(HalfMod \div 2) .. (HalfMod \div 2) - 1
    BY <1>4, <1>5, <1>m, ExtendSigned
  <1>8. (Signed(Loaded(0)) - a) % ByteMod = 0
    <2>1. Signed(Loaded(0)) \in Int
      BY <1>6, <1>m
    <2> QED  BY <1>6, <1>t, <1>m, <2>1, ExtendCongruent DEF lo
  <1>9. (Signed(Loaded(1)) - a) % HalfMod = 0
    <2>1. Signed(Loaded(1)) \in Int
      BY <1>7, <1>m
    <2> QED  BY <1>7, <1>t, <1>m, <2>1, ExtendCongruent DEF half
  <1> QED  BY <1>4, <1>6, <1>7, <1>8, <1>9 DEF StoreLoadRoundTrip, lo, half

-----------------------------------------------------------------------------
(* Immediates                                                              *)

\* The immediate bit a bit of ImmOp is to show.
Source(o, k) == IF k > SignPos(o) THEN SignPos(o) ELSE k

\* main_decoder.sv and sign_extend.sv: every bit of ImmOp is driven by the
\* instruction bit in which the assembler put its immediate bit, and tied to 0
\* where the format has none.
LEMMA DriverInverts ==
    ASSUME NEW o \in ImmOps, NEW k \in BitPos
    PROVE  LET d == Driver(MainDecoder(o).ImmSrc, k)
           IN  \/ d \in BitPos /\ Encoded(o, d) = Source(o, k) /\ Source(o, k) # Other
               \/ d = Tied0 /\ Source(o, k) \notin ImmBits(o)
  <1> USE DEF LOAD, STORE, OPIMM, BRANCH, AUIPC, LUI, JALR, JAL, OP
  <1> DEFINE s == MainDecoder(o).ImmSrc
             d == Driver(s, k)
  <1>k. k \in Int /\ k >= 0 /\ k <= 31
    BY DEF BitPos
  <1>1. CASE o \in {LOAD, OPIMM, JALR}
    <2>1. s = 0 /\ SignPos(o) = 11
      BY <1>1 DEF MainDecoder, Row, SignPos
    <2>2. d = IF k >= 11 THEN 31 ELSE k + 20
      BY <2>1 DEF Driver
    <2>3. d \in BitPos /\ d >= 20 /\ d - 20 = Source(o, k)
      BY <2>1, <2>2, <1>k DEF BitPos, Source
    <2>4. Encoded(o, d) = d - 20
      BY <1>1, <2>3 DEF Encoded
    <2> QED  BY <2>3, <2>4, <1>k DEF BitPos, Other
  <1>2. CASE o = STORE
    <2>1. s = 1 /\ SignPos(o) = 11
      BY <1>2 DEF MainDecoder, Row, SignPos
    <2>2. d = IF k >= 11 THEN 31 ELSE IF k >= 5 THEN k + 20 ELSE k + 7
      BY <2>1 DEF Driver
    <2>3. CASE k >= 5
      <3>1. d \in BitPos /\ d >= 25 /\ d - 20 = Source(o, k)
        BY <2>1, <2>2, <2>3, <1>k DEF BitPos, Source
      <3>2. Encoded(o, d) = d - 20
        BY <1>2, <3>1 DEF Encoded
      <3> QED  BY <3>1, <3>2, <1>k DEF BitPos, Other
    <2>4. CASE ~(k >= 5)
      <3>1. d \in BitPos /\ d \in 7 .. 11 /\ ~(d >= 25) /\ d - 7 = Source(o, k)
        BY <2>1, <2>2, <2>4, <1>k DEF BitPos, Source
      <3>2. Encoded(o, d) = d - 7
        BY <1>2, <3>1 DEF Encoded
      <3> QED  BY <3>1, <3>2, <1>k DEF BitPos, Other
    <2> QED  BY <2>3, <2>4
  <1>3. CASE o = BRANCH
    <2>1. s = 2 /\ SignPos(o) = 12
      BY <1>3 DEF MainDecoder, Row, SignPos
    <2>2. d = DriverB(k)
      BY <2>1 DEF Driver
    <2>3. CASE k >= 12
      <3>1. d = 31 /\ Source(o, k) = 12
        BY <2>1, <2>2, <2>3, <1>k DEF DriverB, Source
      <3> QED  BY <1>3, <3>1 DEF Encoded, BitPos, Other
    <2>4. CASE k = 11
      <3>1. d = 7 /\ Source(o, k) = 11
        BY <2>1, <2>2, <2>4 DEF DriverB, Source
      <3> QED  BY <1>3, <3>1 DEF Encoded, BitPos, Other
    <2>5. CASE k \in 5 .. 10
      <3>1. d = k + 20 /\ Source(o, k) = k
        BY <2>1, <2>2, <2>5 DEF DriverB, Source
      <3> QED  BY <1>3, <2>5, <3>1 DEF Encoded, BitPos, Other
    <2>6. CASE k \in 1 .. 4
      <3>1. d = k + 7 /\ Source(o, k) = k
        BY <2>1, <2>2, <2>6 DEF DriverB, Source
      <3> QED  BY <1>3, <2>6, <3>1 DEF Encoded, BitPos, Other
    <2>7. CASE k = 0
      <3>1. d = Tied0 /\ Source(o, k) = 0
        BY <2>1, <2>2, <2>7 DEF DriverB, Source
      <3>2. \A i \in BitPos : Encoded(o, i) # 0
        BY <1>3 DEF Encoded, BitPos, Other
      <3> QED  BY <3>1, <3>2 DEF ImmBits
    <2> QED  BY <2>3, <2>4, <2>5, <2>6, <2>7, <1>k
  <1>4. CASE o \in {AUIPC, LUI}
    <2>1. s = 3 /\ SignPos(o) = 31
      BY <1>4 DEF MainDecoder, Row, SignPos
    <2>2. d = (IF k >= 12 THEN k ELSE Tied0) /\ Source(o, k) = k
      BY <2>1, <1>k DEF Driver, Source
    <2>3. CASE k >= 12
      BY <1>4, <2>2, <2>3, <1>k DEF Encoded, BitPos, Other
    <2>4. CASE ~(k >= 12)
      <3>1. \A i \in BitPos : Encoded(o, i) # k
        BY <1>4, <2>4, <1>k DEF Encoded, BitPos, Other
      <3> QED  BY <2>2, <2>4, <3>1 DEF ImmBits
    <2> QED  BY <2>3, <2>4
  <1>5. CASE o = JAL
    <2>1. s = 4 /\ SignPos(o) = 20
      BY <1>5 DEF MainDecoder, Row, SignPos
    <2>2. d = DriverJ(k)
      BY <2>1 DEF Driver
    <2>3. CASE k >= 20
      <3>1. d = 31 /\ Source(o, k) = 20
        BY <2>1, <2>2, <2>3, <1>k DEF DriverJ, Source
      <3> QED  BY <1>5, <3>1 DEF Encoded, BitPos, Other
    <2>4. CASE k \in 12 .. 19
      <3>1. d = k /\ Source(o, k) = k
        BY <2>1, <2>2, <2>4 DEF DriverJ, Source
      <3> QED  BY <1>5, <2>4, <3>1 DEF Encoded, BitPos, Other
    <2>5. CASE k = 11
      <3>1. d = 20 /\ Source(o, k) = 11
        BY <2>1, <2>2, <2>5 DEF DriverJ, Source
      <3> QED  BY <1>5, <3>1 DEF Encoded, BitPos, Other
    <2>6. CASE k \in 1 .. 10
      <3>1. d = k + 20 /\ Source(o, k) = k
        BY <2>1, <2>2, <2>6 DEF DriverJ, Source
      <3> QED  BY <1>5, <2>6, <3>1 DEF Encoded, BitPos, Other
    <2>7. CASE k = 0
      <3>1. d = Tied0 /\ Source(o, k) = 0
        BY <2>1, <2>2, <2>7 DEF DriverJ, Source
      <3>2. \A i \in BitPos : Encoded(o, i) # 0
        BY <1>5 DEF Encoded, BitPos, Other
      <3> QED  BY <3>1, <3>2 DEF ImmBits
    <2> QED  BY <2>3, <2>4, <2>5, <2>6, <2>7, <1>k
  <1> QED  BY <1>1, <1>2, <1>3, <1>4, <1>5 DEF ImmOps

\* So the sign extension recovers what was assembled.
LEMMA ImmediateStep ==
    ASSUME BenchInv
    PROVE  ImmediateDecoded
  <1> SUFFICES ASSUME op \in ImmOps
               PROVE  ImmOp(Assemble(op, imm, filler), MainDecoder(op).ImmSrc) = Extended(op, imm)
    BY DEF ImmediateDecoded
  <1> DEFINE word == Assemble(op, imm, filler)
  <1>1. ASSUME NEW k \in BitPos
        PROVE  Driver(MainDecoder(op).ImmSrc, k) \in word <=> Source(op, k) \in imm
    <2> DEFINE d == Driver(MainDecoder(op).ImmSrc, k)
    <2>1. CASE d \in BitPos /\ Encoded(op, d) = Source(op, k) /\ Source(op, k) # Other
      BY <2>1 DEF Assemble
    <2>2. CASE d = Tied0 /\ Source(op, k) \notin ImmBits(op)
      <3>1. d \notin BitPos
        BY <2>2 DEF Tied0, BitPos
      <3>2. Source(op, k) \notin imm
        BY <2>2 DEF BenchInv
      <3> QED  BY <3>1, <3>2 DEF Assemble
    <2> QED  BY <2>1, <2>2, DriverInverts
  <1>2. ASSUME NEW k \in BitPos
        PROVE  (Source(op, k) \in imm) = (IF k > SignPos(op) THEN SignPos(op) \in imm ELSE k \in imm)
    BY DEF Source
  <1> HIDE DEF word
  <1> QED  BY <1>1, <1>2 DEF ImmOp, Extended, word

-----------------------------------------------------------------------------
(* The unit tests                                                          *)

\* The signals of the test of one row, one by one.
LEMMA FailingRow ==
    ASSUME NEW o, NEW f3, NEW f7, NEW flags,
           NEW rw, NEW is, NEW mw, NEW rs, NEW ps, NEW ctl, NEW j,
           rw \in {Any, MainDecoder(o).RegWrite}, is \in {Any, MainDecoder(o).ImmSrc},
           mw \in {Any, MainDecoder(o).MemWrite},
           ps \in {0, 1},
           ps = 1 <=> \/ IsJumpOp(o)
                      \/ /\ IsBranchOp(o) /\ MainDecoder(o).Branch = 1
                         /\ BranchCondition(f3, flags[1], flags[4], flags[2], flags[3]),
           ctl \in {Any, ALUControl(o, f3, f7)}, j \in {Any, MainDecoder(o).Jump}
    PROVE  /\ Test(o, f3, f7, flags, rw, is, mw, rs, ps, ctl, j).op = o
           /\ Failing(Test(o, f3, f7, flags, rw, is, mw, rs, ps, ctl, j)) =
                IF rs \in {Any, MainDecoder(o).ResultSrc} THEN {} ELSE {ResultSrcAt}
  <1> DEFINE t == Test(o, f3, f7, flags, rw, is, mw, rs, ps, ctl, j)
  <1>1. /\ t.op = o /\ t.funct3 = f3 /\ t.funct7_5 = f7 /\ t.flags = flags
        /\ t.expected = <<rw, is, mw, rs, ps, ctl, j>>
    BY DEF Test
  <1> HIDE DEF t
  <1>2. Signals(t) = <<MainDecoder(o).RegWrite, MainDecoder(o).ImmSrc, MainDecoder(o).MemWrite,
                       MainDecoder(o).ResultSrc, ps, ALUControl(o, f3, f7), MainDecoder(o).Jump>>
    BY <1>1 DEF Signals, B
  <1>3. DOMAIN t.expected = {1, 2, 3, 4, 5, 6, 7}
    BY <1>1
  <1>4. ASSUME NEW i \in {1, 2, 3, 5, 6, 7} PROVE t.expected[i] \in {Any, Signals(t)[i]}
    <2>1. CASE i \in {1, 2, 3}
      BY <2>1, <1>1, <1>2
    <2>2. CASE i \in {5, 6, 7}
      BY <2>2, <1>1, <1>2
    <2> QED  BY <2>1, <2>2
  <1>5. t.expected[4] = rs /\ Signals(t)[4] = MainDecoder(o).ResultSrc
    BY <1>1, <1>2
  <1>6. \A i \in DOMAIN t.expected :
            t.expected[i] \notin {Any, Signals(t)[i]} <=> i = 4 /\ rs \notin {Any, MainDecoder(o).ResultSrc}
    BY <1>3, <1>4, <1>5
  <1>7. Failing(t) = IF rs \in {Any, MainDecoder(o).ResultSrc} THEN {} ELSE {4}
    BY <1>3, <1>6 DEF Failing
  <1> QED  BY <1>1, <1>7 DEF t, ResultSrcAt

\* Every assertion of control_unit_tb.cpp holds but the one on ResultSrc of jal.
LEMMA TestsFail == \A t \in ControlUnitTests : Failing(t) = IF t.op = JAL THEN {ResultSrcAt} ELSE {}
  <1> DEFINE Fails(t) == Failing(t) = IF t.op = JAL THEN {ResultSrcAt} ELSE {}
  <1> USE DEF LOAD, STORE, OPIMM, BRANCH, AUIPC, LUI, JALR, JAL, OP
  <1>b. BitOf(OP, 5) = 1 /\ BitOf(OPIMM, 5) = 0
    BY DEF BitOf
  <1>n. ASSUME NEW o \in {OP, LOAD, OPIMM, STORE, AUIPC, LUI} PROVE ~IsJumpOp(o) /\ ~IsBranchOp(o)
    BY DEF IsJumpOp, IsBranchOp
  <1>1. ASSUME NEW t \in RTypeTests PROVE Fails(t)
    <2>1. PICK x \in {<<0, 0, 0>>, <<0, 1, 1>>, <<1, 0, 2>>, <<2, 0, 3>>, <<3, 0, 4>>,
                      <<4, 0, 5>>, <<5, 0, 6>>, <<5, 1, 7>>, <<6, 0, 8>>, <<7, 0, 9>>} :
              t = Test(OP, x[1], x[2], NoFlags, 1, Any, 0, 0, 0, x[3], 0)
      BY DEF RTypeTests
    <2>2. MainDecoder(OP) = Row(1, 0, 0, 0, 0, 0, 0, 2, 0)
      BY DEF MainDecoder
    <2>3. x[3] = ALUControl(OP, x[1], x[2])
      <3>1. ALUControl(OP, x[1], x[2]) = ArithControl(OP, x[1], x[2])
        BY <2>2 DEF ALUControl, AluDecoder, Row
      <3> QED  BY <3>1, <1>b DEF ArithControl
    <2> QED  BY <2>1, <2>2, <2>3, <1>n, FailingRow DEF Row
  <1>2. ASSUME NEW t \in LoadTests PROVE Fails(t)
    <2>1. PICK f3 \in {0, 1, 2, 4, 5} : t = Test(LOAD, f3, 0, NoFlags, 1, 0, 0, 1, 0, 0, 0)
      BY DEF LoadTests
    <2>2. MainDecoder(LOAD) = Row(1, 0, 1, 0, 1, 1, 0, 0, 0)
      BY DEF MainDecoder
    <2>3. ALUControl(LOAD, f3, 0) = 0
      BY <2>2 DEF ALUControl, AluDecoder, Row
    <2> QED  BY <2>1, <2>2, <2>3, <1>n, FailingRow DEF Row
  <1>3. ASSUME NEW t \in ITypeTests PROVE Fails(t)
    <2>1. PICK x \in {<<0, 0, 0>>, <<1, 0, 2>>, <<2, 0, 3>>, <<3, 0, 4>>, <<4, 0, 5>>,
                      <<5, 0, 6>>, <<5, 1, 7>>, <<6, 0, 8>>, <<7, 0, 9>>} :
              t = Test(OPIMM, x[1], x[2], NoFlags, 1, 0, 0, 0, 0, x[3], 0)
      BY DEF ITypeTests
    <2>2. MainDecoder(OPIMM) = Row(1, 0, 1, 0, 0, 0, 0, 2, 0)
      BY DEF MainDecoder
    <2>3. x[3] = ALUControl(OPIMM, x[1], x[2])
      <3>1. ALUControl(OPIMM, x[1], x[2]) = ArithControl(OPIMM, x[1], x[2])
        BY <2>2 DEF ALUControl, AluDecoder, Row
      <3> QED  BY <3>1, <1>b DEF ArithControl
    <2> QED  BY <2>1, <2>2, <2>3, <1>n, FailingRow DEF Row
  <1>4. ASSUME NEW t \in STypeTests PROVE Fails(t)
    <2>1. PICK f3 \in 0 .. 2 : t = Test(STORE, f3, 0, NoFlags, 0, 1, 1, Any, 0, 0, 0)
      BY DEF STypeTests
    <2>2. MainDecoder(STORE) = Row(0, 1, 1, 1, 0, 0, 0, 0, 0)
      BY DEF MainDecoder
    <2>3. ALUControl(STORE, f3, 0) = 0
      BY <2>2 DEF ALUControl, AluDecoder, Row
    <2> QED  BY <2>1, <2>2, <2>3, <1>n, FailingRow DEF Row
  <1>5. ASSUME NEW t \in BTypeTests PROVE Fails(t)
    <2>1. PICK x \in {<<0, <<0, 0, 0, 0>>, 0>>, <<0, <<1, 0, 0, 0>>, 1>>,
                      <<1, <<0, 0, 0, 0>>, 1>>, <<1, <<1, 0, 0, 0>>, 0>>,
                      <<4, <<0, 0, 1, 1>>, 0>>, <<4, <<0, 0, 0, 1>>, 1>>,
                      <<5, <<0, 0, 0, 1>>, 0>>, <<5, <<0, 0, 1, 1>>, 1>>,
                      <<6, <<0, 0, 0, 0>>, 0>>, <<6, <<0, 1, 0, 0>>, 1>>,
                      <<7, <<0, 1, 0, 0>>, 0>>, <<7, <<0, 0, 0, 0>>, 1>>} :
              t = Test(BRANCH, x[1], 0, x[2], 0, 2, 0, Any, x[3], 1, 0)
      BY DEF BTypeTests
    <2>2. MainDecoder(BRANCH) = Row(0, 2, 0, 0, 0, 0, 1, 1, 0)
      BY DEF MainDecoder
    <2>3. ALUControl(BRANCH, x[1], 0) = 1
      BY <2>2 DEF ALUControl, AluDecoder, Row
    <2>4. /\ x[3] \in {0, 1}
          /\ x[3] = 1 <=> BranchCondition(x[1], x[2][1], x[2][4], x[2][2], x[2][3])
      BY DEF BranchCondition, SignedGreaterThan
    <2>5. IsBranchOp(BRANCH) /\ ~IsJumpOp(BRANCH)
      BY DEF IsBranchOp, IsJumpOp
    <2> QED  BY <2>1, <2>2, <2>3, <2>4, <2>5, FailingRow DEF Row
  <1>6. ASSUME NEW t \in UJTypeTests PROVE Fails(t)
    <2>1. /\ MainDecoder(AUIPC) = Row(1, 3, 1, 0, 0, 2, 0, 4, 0)
          /\ MainDecoder(LUI) = Row(1, 3, 1, 0, 0, 0, 0, 4, 0)
          /\ MainDecoder(JALR) = Row(1, 0, 1, 0, 0, 2, 1, 3, 1)
          /\ MainDecoder(JAL) = Row(1, 4, 0, 0, 0, 2, 1, 4, 0)
      BY DEF MainDecoder
    <2>2. IsJumpOp(JAL) /\ IsJumpOp(JALR)
      BY DEF IsJumpOp
    <2>3. CASE t = Test(AUIPC, 0, 0, NoFlags, 1, 3, 0, 2, 0, Any, Any)
      BY <2>1, <2>3, <1>n, FailingRow DEF Row
    <2>4. CASE t = Test(LUI, 0, 0, NoFlags, 1, 3, 0, 0, 0, 11, Any)
      <3>1. ALUControl(LUI, 0, 0) = 11
        BY <2>1 DEF ALUControl, AluDecoder, Row
      <3> QED  BY <2>1, <2>4, <3>1, <1>n, FailingRow DEF Row
    <2>5. CASE t = Test(JALR, 0, 0, NoFlags, 1, 0, 0, 2, 1, Any, 1)
      BY <2>1, <2>2, <2>5, FailingRow DEF Row
    <2>6. CASE t = Test(JAL, 0, 0, NoFlags, 1, 4, 0, 3, 1, Any, 0)
      <3>1. 3 \notin {Any, MainDecoder(JAL).ResultSrc}
        BY <2>1 DEF Row, Any
      <3> QED  BY <2>1, <2>2, <2>6, <3>1, FailingRow DEF Row
    <2> QED  BY <2>3, <2>4, <2>5, <2>6 DEF UJTypeTests
  <1> QED  BY <1>1, <1>2, <1>3, <1>4, <1>5, <1>6 DEF ControlUnitTests

\* bitExtracted and the shift put bit j of the number in place j - p + to.
LEMMA FieldBits ==
    ASSUME NEW n \in SUBSET BitPos, NEW w \in Nat, NEW p \in Nat, NEW to \in Nat
    PROVE  /\ Field(n, w, p, to) \subseteq Int
           /\ \A k \in Int : k \in Field(n, w, p, to) <=> (k - to \in 0 .. w - 1 /\ (k - to) + p \in n)
  <1>1. Field(n, w, p, to) \subseteq Int
    BY DEF Field
  <1>2. ASSUME NEW k \in Int, k \in Field(n, w, p, to)
        PROVE  k - to \in 0 .. w - 1 /\ (k - to) + p \in n
    <2>1. PICK i \in 0 .. w - 1 : i + p \in n /\ k = i + to
      BY <1>2 DEF Field
    <2>2. k - to = i
      BY <2>1
    <2> QED  BY <2>1, <2>2
  <1>3. ASSUME NEW k \in Int, k - to \in 0 .. w - 1, (k - to) + p \in n
        PROVE  k \in Field(n, w, p, to)
    <2>1. k = (k - to) + to
      OBVIOUS
    <2> QED  BY <1>3, <2>1 DEF Field
  <1> QED  BY <1>1, <1>2, <1>3

\* For a jump with a negative offset expected_value does not set the sign.
LEMMA SignForgotten ==
    ASSUME NEW n \in SUBSET BitPos, 31 \in n
    PROVE  ImmOp(n, 4) # expected_value(n, 4)
  <1>1. 31 \in ImmOp(n, 4)
    BY DEF ImmOp, Driver, DriverJ, Tied0, BitPos
  <1>2. ASSUME NEW w \in Nat, NEW p \in Nat, NEW to \in Nat, w + to <= 21
        PROVE  31 \notin Field(n, w, p, to)
    <2>1. ~(31 - to \in 0 .. w - 1)
      BY <1>2
    <2> QED  BY <2>1, FieldBits
  <1>3. /\ 31 \notin Field(n, 1, 31, 20) /\ 31 \notin Field(n, 8, 12, 12)
        /\ 31 \notin Field(n, 1, 20, 11) /\ 31 \notin Field(n, 10, 21, 1)
    BY <1>2
  <1>4. 31 \notin expected_value(n, 4)
    BY <1>3 DEF expected_value
  <1> QED  BY <1>1, <1>4

\* expected_value of sign_extend_tb.cpp computes what sign_extend.sv drives,
\* for every instruction word, a jump with a negative offset aside.
LEMMA ExpectedValue ==
    ASSUME NEW n \in SUBSET BitPos, NEW s \in 0 .. 7, s = 4 => 31 \notin n
    PROVE  ImmOp(n, s) = expected_value(n, s)
  <1> DEFINE F(w, p, to) == Field(n, w, p, to)
  <1>f. \A w, p, to \in Nat :
            /\ F(w, p, to) \subseteq Int
            /\ \A k \in Int : k \in F(w, p, to) <=> (k - to \in 0 .. w - 1 /\ (k - to) + p \in n)
    BY FieldBits
  <1>n. n \subseteq 0 .. 31
    BY DEF BitPos
  <1> HIDE DEF F
  <1>1. CASE s = 1
    <2>1. expected_value(n, s) = SignFill(F(7, 25, 5) \cup F(5, 7, 0), 11)
      BY <1>1 DEF expected_value, F
    <2>2. /\ F(7, 25, 5) \subseteq Int /\ F(5, 7, 0) \subseteq Int
          /\ \A k \in Int : k \in F(7, 25, 5) <=> (k \in 5 .. 11 /\ k + 20 \in n)
          /\ \A k \in Int : k \in F(5, 7, 0) <=> (k \in 0 .. 4 /\ k + 7 \in n)
      <3>1. F(7, 25, 5) \subseteq Int /\ F(5, 7, 0) \subseteq Int
        BY <1>f
      <3>2. ASSUME NEW k \in Int PROVE k \in F(7, 25, 5) <=> (k \in 5 .. 11 /\ k + 20 \in n)
        <4>1. k \in F(7, 25, 5) <=> (k - 5 \in 0 .. 7 - 1 /\ (k - 5) + 25 \in n)
          BY <1>f
        <4>2. (k - 5 \in 0 .. 7 - 1 <=> k \in 5 .. 11) /\ (k - 5) + 25 = k + 20
          OBVIOUS
        <4> QED  BY <4>1, <4>2
      <3>3. ASSUME NEW k \in Int PROVE k \in F(5, 7, 0) <=> (k \in 0 .. 4 /\ k + 7 \in n)
        <4>1. k \in F(5, 7, 0) <=> (k - 0 \in 0 .. 5 - 1 /\ (k - 0) + 7 \in n)
          BY <1>f
        <4>2. (k - 0 \in 0 .. 5 - 1 <=> k \in 0 .. 4) /\ (k - 0) + 7 = k + 7
          OBVIOUS
        <4> QED  BY <4>1, <4>2
      <3> QED  BY <3>1, <3>2, <3>3
    <2>3. ASSUME NEW k \in Int
          PROVE  k \in SignFill(F(7, 25, 5) \cup F(5, 7, 0), 11) <=> k \in ImmOp(n, s)
      BY <1>1, <1>n, <2>2 DEF SignFill, ImmOp, Driver, BitPos
    <2>4. /\ SignFill(F(7, 25, 5) \cup F(5, 7, 0), 11) \subseteq Int
          /\ ImmOp(n, s) \subseteq Int
      BY <2>2 DEF SignFill, ImmOp, BitPos
    <2> QED  BY <2>1, <2>3, <2>4
  <1>2. CASE s = 2
    <2> DEFINE I == F(1, 31, 12) \cup F(1, 7, 11) \cup F(6, 25, 5) \cup F(4, 8, 1)
    <2>1. expected_value(n, s) = SignFill(I, 12)
      BY <1>2 DEF expected_value, F
    <2>2. /\ I \subseteq Int
          /\ \A k \in Int : k \in I <=> \/ k = 12 /\ 31 \in n
                                        \/ k = 11 /\ 7 \in n
                                        \/ k \in 5 .. 10 /\ k + 20 \in n
                                        \/ k \in 1 .. 4 /\ k + 7 \in n
      <3>1. /\ F(1, 31, 12) \subseteq Int /\ F(1, 7, 11) \subseteq Int
            /\ F(6, 25, 5) \subseteq Int /\ F(4, 8, 1) \subseteq Int
        BY <1>f
      <3>2. ASSUME NEW k \in Int PROVE k \in F(1, 31, 12) <=> (k = 12 /\ 31 \in n)
        <4>1. k \in F(1, 31, 12) <=> (k - 12 \in 0 .. 1 - 1 /\ (k - 12) + 31 \in n)
          BY <1>f
        <4>2. (k - 12 \in 0 .. 1 - 1 <=> k = 12) /\ (k - 12) + 31 = k + 19
          OBVIOUS
        <4> QED  BY <4>1, <4>2
      <3>3. ASSUME NEW k \in Int PROVE k \in F(1, 7, 11) <=> (k = 11 /\ 7 \in n)
        <4>1. k \in F(1, 7, 11) <=> (k - 11 \in 0 .. 1 - 1 /\ (k - 11) + 7 \in n)
          BY <1>f
        <4>2. (k - 11 \in 0 .. 1 - 1 <=> k = 11) /\ (k - 11) + 7 = k - 4
          OBVIOUS
        <4> QED  BY <4>1, <4>2
      <3>4. ASSUME NEW k \in Int PROVE k \in F(6, 25, 5) <=> (k \in 5 .. 10 /\ k + 20 \in n)
        <4>1. k \in F(6, 25, 5) <=> (k - 5 \in 0 .. 6 - 1 /\ (k - 5) + 25 \in n)
          BY <1>f
        <4>2. (k - 5 \in 0 .. 6 - 1 <=> k \in 5 .. 10) /\ (k - 5) + 25 = k + 20
          OBVIOUS
        <4> QED  BY <4>1, <4>2
      <3>5. ASSUME NEW k \in Int PROVE k \in F(4, 8, 1) <=> (k \in 1 .. 4 /\ k + 7 \in n)
        <4>1. k \in F(4, 8, 1) <=> (k - 1 \in 0 .. 4 - 1 /\ (k - 1) + 8 \in n)
          BY <1>f
        <4>2. (k - 1 \in 0 .. 4 - 1 <=> k \in 1 .. 4) /\ (k - 1) + 8 = k + 7
          OBVIOUS
        <4> QED  BY <4>1, <4>2
      <3> QED  BY <3>1, <3>2, <3>3, <3>4, <3>5
    <2> HIDE DEF I
    <2>3. ASSUME NEW k \in Int PROVE k \in SignFill(I, 12) <=> k \in ImmOp(n, s)
      BY <1>2, <1>n, <2>2 DEF SignFill, ImmOp, Driver, DriverB, Tied0, BitPos
    <2>4. SignFill(I, 12) \subseteq Int /\ ImmOp(n, s) \subseteq Int
      BY <2>2 DEF SignFill, ImmOp, BitPos
    <2> QED  BY <2>1, <2>3, <2>4
  <1>3. CASE s = 3
    <2>1. expected_value(n, s) = F(20, 12, 12)
      BY <1>3 DEF expected_value, F
    <2>2. /\ F(20, 12, 12) \subseteq Int
          /\ \A k \in Int : k \in F(20, 12, 12) <=> (k \in 12 .. 31 /\ k \in n)
      <3>1. F(20, 12, 12) \subseteq Int
        BY <1>f
      <3>2. ASSUME NEW k \in Int PROVE k \in F(20, 12, 12) <=> (k \in 12 .. 31 /\ k \in n)
        <4>1. k \in F(20, 12, 12) <=> (k - 12 \in 0 .. 20 - 1 /\ (k - 12) + 12 \in n)
          BY <1>f
        <4>2. (k - 12 \in 0 .. 20 - 1 <=> k \in 12 .. 31) /\ (k - 12) + 12 = k
          OBVIOUS
        <4> QED  BY <4>1, <4>2
      <3> QED  BY <3>1, <3>2
    <2>3. ASSUME NEW k \in Int PROVE k \in F(20, 12, 12) <=> k \in ImmOp(n, s)
      BY <1>3, <1>n, <2>2 DEF ImmOp, Driver, Tied0, BitPos
    <2>4. ImmOp(n, s) \subseteq Int
      BY DEF ImmOp, BitPos
    <2> QED  BY <2>1, <2>2, <2>3, <2>4
  <1>4. CASE s = 4
    <2> DEFINE I == F(1, 31, 20) \cup F(8, 12, 12) \cup F(1, 20, 11) \cup F(10, 21, 1)
    <2>1. expected_value(n, s) = I
      BY <1>4 DEF expected_value, F
    <2>2. /\ I \subseteq Int
          /\ \A k \in Int : k \in I <=> \/ k \in 12 .. 19 /\ k \in n
                                        \/ k = 11 /\ 20 \in n
                                        \/ k \in 1 .. 10 /\ k + 20 \in n
      <3>1. /\ F(1, 31, 20) \subseteq Int /\ F(8, 12, 12) \subseteq Int
            /\ F(1, 20, 11) \subseteq Int /\ F(10, 21, 1) \subseteq Int
        BY <1>f
      <3>2. ASSUME NEW k \in Int PROVE k \in F(1, 31, 20) <=> (k = 20 /\ 31 \in n)
        <4>1. k \in F(1, 31, 20) <=> (k - 20 \in 0 .. 1 - 1 /\ (k - 20) + 31 \in n)
          BY <1>f
        <4>2. (k - 20 \in 0 .. 1 - 1 <=> k = 20) /\ (k - 20) + 31 = k + 11
          OBVIOUS
        <4> QED  BY <4>1, <4>2
      <3>3. ASSUME NEW k \in Int PROVE k \in F(8, 12, 12) <=> (k \in 12 .. 19 /\ k \in n)
        <4>1. k \in F(8, 12, 12) <=> (k - 12 \in 0 .. 8 - 1 /\ (k - 12) + 12 \in n)
          BY <1>f
        <4>2. (k - 12 \in 0 .. 8 - 1 <=> k \in 12 .. 19) /\ (k - 12) + 12 = k
          OBVIOUS
        <4> QED  BY <4>1, <4>2
      <3>4. ASSUME NEW k \in Int PROVE k \in F(1, 20, 11) <=> (k = 11 /\ 20 \in n)
        <4>1. k \in F(1, 20, 11) <=> (k - 11 \in 0 .. 1 - 1 /\ (k - 11) + 20 \in n)
          BY <1>f
        <4>2. (k - 11 \in 0 .. 1 - 1 <=> k = 11) /\ (k - 11) + 20 = k + 9
          OBVIOUS
        <4> QED  BY <4>1, <4>2
      <3>5. ASSUME NEW k \in Int PROVE k \in F(10, 21, 1) <=> (k \in 1 .. 10 /\ k + 20 \in n)
        <4>1. k \in F(10, 21, 1) <=> (k - 1 \in 0 .. 10 - 1 /\ (k - 1) + 21 \in n)
          BY <1>f
        <4>2. (k - 1 \in 0 .. 10 - 1 <=> k \in 1 .. 10) /\ (k - 1) + 21 = k + 20
          OBVIOUS
        <4> QED  BY <4>1, <4>2
      <3> QED  BY <3>1, <3>2, <3>3, <3>4, <3>5, <1>4
    <2> HIDE DEF I
    <2>3. ASSUME NEW k \in Int PROVE k \in I <=> k \in ImmOp(n, s)
      BY <1>4, <1>n, <2>2 DEF ImmOp, Driver, DriverJ, Tied0, BitPos
    <2>4. ImmOp(n, s) \subseteq Int
      BY DEF ImmOp, BitPos
    <2> QED  BY <2>1, <2>2, <2>3, <2>4
  <1>5. CASE s \in {0, 5, 6, 7}
    <2>1. expected_value(n, s) = SignFill(F(12, 20, 0), 11)
      BY <1>5 DEF expected_value, F
    <2>2. /\ F(12, 20, 0) \subseteq Int
          /\ \A k \in Int : k \in F(12, 20, 0) <=> (k \in 0 .. 11 /\ k + 20 \in n)
      <3>1. F(12, 20, 0) \subseteq Int
        BY <1>f
      <3>2. ASSUME NEW k \in Int PROVE k \in F(12, 20, 0) <=> (k \in 0 .. 11 /\ k + 20 \in n)
        <4>1. k \in F(12, 20, 0) <=> (k - 0 \in 0 .. 12 - 1 /\ (k - 0) + 20 \in n)
          BY <1>f
        <4>2. (k - 0 \in 0 .. 12 - 1 <=> k \in 0 .. 11) /\ (k - 0) + 20 = k + 20
          OBVIOUS
        <4> QED  BY <4>1, <4>2
      <3> QED  BY <3>1, <3>2
    <2>3. ASSUME NEW k \in Int PROVE k \in SignFill(F(12, 20, 0), 11) <=> k \in ImmOp(n, s)
      BY <1>5, <1>n, <2>2 DEF SignFill, ImmOp, Driver, BitPos
    <2>4. SignFill(F(12, 20, 0), 11) \subseteq Int /\ ImmOp(n, s) \subseteq Int
      BY <2>2 DEF SignFill, ImmOp, BitPos
    <2> QED  BY <2>1, <2>3, <2>4
  <1> QED  BY <1>1, <1>2, <1>3, <1>4, <1>5

\* Both unit tests together.
LEMMA UnitTestsStep == UnitTestsAgree
  <1>1. Assemble(op, imm, filler) \in SUBSET BitPos
    BY DEF Assemble
  <1>2. \A s \in 0 .. 7 : ImmOp(Assemble(op, imm, filler), s) = expected_value(Assemble(op, imm, filler), s)
                              <=> (s = 4 => 31 \notin Assemble(op, imm, filler))
    BY <1>1, ExpectedValue, SignForgotten
  <1>3. ASSUME NEW t \in ControlUnitTests, <<t.op, t.funct3, t.funct7_5>> = <<op, funct3, funct7_5>>
        PROVE  Failing(t) = IF op = JAL THEN {ResultSrcAt} ELSE {}
    <2>1. t.op = op
      BY <1>3
    <2> QED  BY <2>1, TestsFail
  <1> QED  BY <1>2, <1>3 DEF UnitTestsAgree

-----------------------------------------------------------------------------
(* Results                                                                 *)

\* What the decoders make of a computation, of lui and of a jump.
LEMMA ResultControl ==
    ASSUME funct3 \in 0 .. 7, funct7_5 \in Bit
    PROVE  /\ op \in {OP, OPIMM} =>
                 /\ Written = ALUResult(a, b, ArithControl(op, funct3, funct7_5))
                 /\ BitOf(op, 5) = B(op = OP)
           /\ op = LUI => Written = ALUResult(a, b, 11)
           /\ op \in {JAL, JALR} => Written = Trunc(pc + 4)
  <1> USE DEF LOAD, STORE, OPIMM, BRANCH, AUIPC, LUI, JALR, JAL, OP
  <1>1. BitOf(OP, 5) = 1 /\ BitOf(OPIMM, 5) = 0
    BY DEF BitOf
  <1>2. /\ MainDecoder(OP).ResultSrc = 0 /\ MainDecoder(OP).ALUOp = 2
        /\ MainDecoder(OPIMM).ResultSrc = 0 /\ MainDecoder(OPIMM).ALUOp = 2
        /\ MainDecoder(LUI).ResultSrc = 0 /\ MainDecoder(LUI).ALUOp = 4
        /\ MainDecoder(JAL).ResultSrc = 2 /\ MainDecoder(JALR).ResultSrc = 2
    BY DEF MainDecoder, Row
  <1>3. /\ op \in {OP, OPIMM} => Ctl = ArithControl(op, funct3, funct7_5)
        /\ op = LUI => Ctl = 11
    BY <1>2 DEF Ctl, ALUControl, AluDecoder
  <1> QED  BY <1>1, <1>2, <1>3 DEF Written, B

\* Addition and subtraction modulo the word.
LEMMA AddSub ==
    ASSUME NEW x \in Word, NEW y \in Word
    PROVE  /\ Signed(Trunc(x + y)) - (Signed(x) + Signed(y)) \in {-WordMod, 0, WordMod}
           /\ Trunc(Trunc(x - y) + y) = x
  <1>m. WordMod = 2 * SignBit /\ SignBit \in Nat /\ SignBit >= 1 /\ WordMod \in Nat
    BY Halves, Moduli
  <1>t. x \in Nat /\ y \in Nat /\ x < WordMod /\ y < WordMod
    BY <1>m DEF Word
  <1>1. Trunc(x + y) = IF x + y < WordMod THEN x + y ELSE x + y - WordMod
    BY <1>m, <1>t DEF Trunc
  <1>2. Signed(Trunc(x + y)) - (Signed(x) + Signed(y)) \in {-WordMod, 0, WordMod}
    <2>1. CASE x + y < WordMod
      BY <2>1, <1>1, <1>m, <1>t DEF Signed
    <2>2. CASE ~(x + y < WordMod)
      BY <2>2, <1>1, <1>m, <1>t DEF Signed
    <2> QED  BY <2>1, <2>2
  <1>3. Trunc(x - y) = IF x >= y THEN x - y ELSE x - y + WordMod
    BY Difference
  <1>4. Trunc(Trunc(x - y) + y) = x
    <2>1. CASE x >= y
      <3>1. Trunc(x - y) + y = x
        BY <2>1, <1>3, <1>t
      <3> QED  BY <3>1, <1>t, <1>m DEF Trunc
    <2>2. CASE ~(x >= y)
      <3>1. Trunc(x - y) + y = x + WordMod
        BY <2>2, <1>3, <1>t, <1>m
      <3>2. (x + WordMod) % WordMod = x
        BY <1>t, <1>m
      <3> QED  BY <3>1, <3>2 DEF Trunc
    <2> QED  BY <2>1, <2>2
  <1> QED  BY <1>2, <1>4

\* slt compares the integers the words denote.
LEMMA SignedLess ==
    ASSUME NEW x \in Word, NEW y \in Word
    PROVE  SetLessThan(x, y) = B(Signed(x) < Signed(y))
  <1>m. WordMod = 2 * SignBit /\ SignBit \in Nat /\ SignBit >= 1
    BY Halves, Moduli
  <1>t. x \in Nat /\ y \in Nat /\ x < WordMod /\ y < WordMod
    BY <1>m DEF Word
  <1>1. ASSUME NEW z \in Nat, z >= SignBit, z < WordMod PROVE z % SignBit = z - SignBit
    BY <1>1, <1>m
  <1>2. CASE x >= SignBit /\ y >= SignBit
    <2>1. x % SignBit = x - SignBit /\ y % SignBit = y - SignBit
      BY <1>1, <1>2, <1>t
    <2>2. SetLessThan(x, y) = B(x % SignBit < y % SignBit)
      BY <1>2 DEF SetLessThan, Sign, B
    <2>3. x - SignBit < y - SignBit <=> Signed(x) < Signed(y)
      BY <1>2, <1>t, <1>m DEF Signed
    <2> QED  BY <2>1, <2>2, <2>3 DEF B
  <1>3. CASE ~(x >= SignBit) /\ ~(y >= SignBit)
    BY <1>3 DEF SetLessThan, Sign, Signed, B
  <1>4. CASE x >= SignBit /\ ~(y >= SignBit)
    <2>1. Signed(x) < Signed(y)
      BY <1>4, <1>t, <1>m DEF Signed
    <2> QED  BY <1>4, <2>1 DEF SetLessThan, Sign, B
  <1>5. CASE ~(x >= SignBit) /\ y >= SignBit
    <2>1. ~(Signed(x) < Signed(y))
      BY <1>5, <1>t, <1>m DEF Signed
    <2> QED  BY <1>5, <2>1 DEF SetLessThan, Sign, B
  <1> QED  BY <1>2, <1>3, <1>4, <1>5

\* A bit below the place of a multiple of a power of two is the bit of the
\* part added to it.
LEMMA LowBits ==
    ASSUME NEW p \in Nat \ {0}, NEW e \in Nat, NEW x \in Nat, NEW y \in Nat
    PROVE  /\ ((x * (p * (2 * e))) \div p) % 2 = 0
           /\ ((x * (p * (2 * e)) + y) \div p) % 2 = (y \div p) % 2
  <1> DEFINE q == y \div p
             r == y % p
             n == x * e
  <1>1. q \in Nat /\ r \in 0 .. p - 1 /\ y = p * q + r
    BY DivMod, Zenon
  <1>2. n \in Nat
    OBVIOUS
  <1>3. x * (p * (2 * e)) = p * (2 * n)
    OBVIOUS
  <1> HIDE DEF q, r, n
  <1>4. p * (2 * n) = p * (2 * n) + 0 /\ p * (2 * n) \in Int /\ 2 * n \in Int /\ 0 \in 0 .. p - 1
    BY <1>2
  <1>5. (p * (2 * n)) \div p = 2 * n
    BY <1>4, DivModUnique, Zenon
  <1>6. p * (2 * n) + y = p * (2 * n + q) + r /\ p * (2 * n) + y \in Int /\ 2 * n + q \in Int
    <2>1. p * (2 * n + q) = p * (2 * n) + p * q
      BY <1>1, <1>2
    <2> QED  BY <2>1, <1>1, <1>2, <1>4
  <1>7. (p * (2 * n) + y) \div p = 2 * n + q
    BY <1>1, <1>6, DivModUnique, Zenon
  <1>8. (2 * n) % 2 = 0 /\ (2 * n + q) % 2 = q % 2
    BY <1>1, <1>2
  <1> QED  BY <1>3, <1>5, <1>7, <1>8 DEF q

\* A bit above it is the multiple's own.
LEMMA HighBits ==
    ASSUME NEW g \in Nat \ {0}, NEW f \in Nat \ {0}, NEW x \in Nat, NEW y \in 0 .. g - 1
    PROVE  /\ y \div (g * f) = 0
           /\ (x * g + y) \div (g * f) = (x * g) \div (g * f)
  <1> DEFINE p == g * f
             q == x \div f
             r == x % f
  <1>1. q \in Nat /\ r \in 0 .. f - 1 /\ x = f * q + r
    BY DivMod, Zenon
  <1>2. p \in Nat \ {0} /\ p >= g
    <2>1. g * f >= g * 1
      OBVIOUS
    <2> QED  BY <2>1
  <1>3. x * g = p * q + r * g
    BY <1>1
  <1>4. r * g \in Nat /\ r * g <= p - g
    <2>1. r * g <= (f - 1) * g
      BY <1>1
    <2>2. (f - 1) * g = p - g
      OBVIOUS
    <2> QED  BY <1>1, <2>1, <2>2
  <1> HIDE DEF p, q, r
  <1>5. p * q \in Int
    BY <1>1, <1>2
  <1>6. /\ x * g \in Int /\ x * g + y \in Int /\ y \in Int /\ q \in Int /\ 0 \in Int
        /\ r * g \in 0 .. p - 1 /\ (r * g) + y \in 0 .. p - 1 /\ y \in 0 .. p - 1
        /\ x * g + y = p * q + ((r * g) + y)
        /\ y = p * 0 + y
    BY <1>1, <1>2, <1>3, <1>4, <1>5
  <1>7. (x * g) \div p = q
    <2>1. x * g \in Int /\ p \in Nat \ {0} /\ q \in Int /\ r * g \in 0 .. p - 1 /\ x * g = p * q + r * g
      BY <1>2, <1>3, <1>6
    <2> QED  BY <2>1, DivModUnique, Zenon
  <1>8. (x * g + y) \div p = q
    BY <1>2, <1>6, DivModUnique, Zenon
  <1>9. y \div p = 0
    BY <1>2, <1>6
  <1> QED  BY <1>7, <1>8, <1>9 DEF p

\* Or-ing a number below a power of two into a multiple of it adds it.
LEMMA OrAdds ==
    ASSUME NEW j \in 0 .. DATA_WIDTH, NEW x \in Nat, NEW y \in Nat, y < 2 ^ j,
           x * 2 ^ j + y \in Word
    PROVE  BitOr(x * 2 ^ j, y) = x * 2 ^ j + y
  <1> DEFINE g == 2 ^ j
             w == x * g + y
  <1>g. g \in Nat \ {0}
    BY ExponentAssumption
  <1>1. ASSUME NEW k \in BitRange
        PROVE  BitOf(w, k) = B(BitOf(x * g, k) + BitOf(y, k) > 0)
    <2>k. k \in 0 .. DATA_WIDTH /\ k \in Int /\ j \in Int
      BY DataWidth DEF BitRange
    <2>p. 2 ^ k \in Nat \ {0}
      BY <2>k, ExponentAssumption
    <2>1. CASE k < j
      <3>1. /\ 1 \in 0 .. DATA_WIDTH /\ j - k \in 0 .. DATA_WIDTH /\ k <= j /\ 1 <= j - k
            /\ (j - k) - 1 \in 0 .. DATA_WIDTH
        BY <2>1, <2>k, DataWidth
      <3>2. g = 2 ^ k * 2 ^ (j - k)
        BY <3>1, <2>k, ExponentAssumption
      <3>3. 2 ^ (j - k) = 2 ^ 1 * 2 ^ ((j - k) - 1) /\ 2 ^ ((j - k) - 1) \in Nat
        BY <3>1, ExponentAssumption
      <3>4. 2 ^ 1 = 2
        BY ExponentAssumption
      <3> DEFINE p == 2 ^ k
                 e == 2 ^ ((j - k) - 1)
      <3>5. g = p * (2 * e) /\ p \in Nat \ {0} /\ e \in Nat
        BY <3>2, <3>3, <3>4, <2>p
      <3> HIDE DEF p, e, g
      <3>6. /\ ((x * (p * (2 * e))) \div p) % 2 = 0
            /\ ((x * (p * (2 * e)) + y) \div p) % 2 = (y \div p) % 2
        BY <3>5, LowBits, Zenon
      <3>7. BitOf(x * g, k) = 0 /\ BitOf(w, k) = BitOf(y, k)
        BY <3>5, <3>6 DEF BitOf, p
      <3>8. BitOf(y, k) \in {0, 1}
        BY <2>p DEF BitOf
      <3> HIDE DEF w
      <3> QED  BY <3>7, <3>8 DEF B
    <2>2. CASE ~(k < j)
      <3>1. j <= k /\ k - j \in 0 .. DATA_WIDTH
        BY <2>2, <2>k, DataWidth
      <3> DEFINE f == 2 ^ (k - j)
      <3>2. 2 ^ k = g * f /\ f \in Nat \ {0}
        BY <3>1, <2>k, ExponentAssumption
      <3>3. y \in 0 .. g - 1
        BY <1>g
      <3> HIDE DEF f, g
      <3>4. y \div (g * f) = 0 /\ (x * g + y) \div (g * f) = (x * g) \div (g * f)
        BY <1>g, <3>2, <3>3, HighBits, Zenon
      <3>5. BitOf(y, k) = 0 /\ BitOf(w, k) = BitOf(x * g, k)
        BY <3>2, <3>4 DEF BitOf
      <3>6. BitOf(x * g, k) \in {0, 1}
        BY <2>p, <1>g DEF BitOf
      <3> HIDE DEF w
      <3> QED  BY <3>5, <3>6 DEF B
    <2> QED  BY <2>1, <2>2
  <1>2. WordOfBits([k \in BitRange |-> BitOf(w, k)]) = w
    BY BinaryAssumption
  <1> HIDE DEF w, g
  <1>3. [k \in BitRange |-> BitOf(w, k)] = [k \in BitRange |-> B(BitOf(x * g, k) + BitOf(y, k) > 0)]
    BY <1>1
  <1> QED  BY <1>2, <1>3 DEF BitOr, w, g

\* sra and srai divide the integer the word denotes, rounding down.
LEMMA ArithmeticShift ==
    ASSUME NEW x \in Word, NEW y \in Word
    PROVE  Signed(ShiftRightArith(x, y)) = Signed(x) \div 2 ^ Shamt(y)
  <1> DEFINE s == Shamt(y)
             p == 2 ^ s
             j == DATA_WIDTH - s
             t == 2 ^ j
             q == x \div p
             r == x % p
  <1>m. WordMod = 2 * SignBit /\ SignBit \in Nat /\ SignBit >= 1 /\ WordMod \in Nat
    BY Halves, Moduli
  <1>x. x \in Nat /\ x < WordMod /\ y \in Nat
    BY <1>m DEF Word
  <1>s. s \in 0 .. DATA_WIDTH
    <2>1. 2 ^ SHIFT_WIDTH \in Nat \ {0} /\ 2 ^ SHIFT_WIDTH <= DATA_WIDTH
      BY PowerAssumption, WidthAssumption
    <2> QED  BY <2>1, <1>x, DataWidth DEF Shamt
  <1>1. j \in 0 .. DATA_WIDTH /\ DATA_WIDTH \in 0 .. DATA_WIDTH /\ s <= DATA_WIDTH
    BY <1>s, DataWidth
  <1>2. p \in Nat \ {0} /\ t \in Nat \ {0} /\ WordMod = p * t
    BY <1>s, <1>1, ExponentAssumption
  <1> HIDE DEF p, t, j, s
  <1>3. q \in Nat /\ r \in 0 .. p - 1 /\ x = p * q + r
    BY <1>2, <1>x, DivMod, Zenon
  <1>4. q < t
    <2>1. ASSUME q >= t PROVE FALSE
      <3>1. p * q >= p * t
        <4>1. q - t \in Nat /\ p \in Nat
          BY <2>1, <1>2, <1>3
        <4>2. p * (q - t) \in Nat
          BY <4>1
        <4>3. p * (q - t) = p * q - p * t
          BY <1>2, <1>3
        <4> QED  BY <4>2, <4>3, <1>2, <1>3
      <3>2. p * q \in Int
        BY <1>2, <1>3
      <3> QED  BY <3>1, <3>2, <1>2, <1>3, <1>x
    <2> QED  BY <2>1, <1>2, <1>3
  <1> HIDE DEF q, r
  <1>5. CASE ~(x >= SignBit)
    <2>1. ShiftRightArith(x, y) = q
      BY <1>5 DEF ShiftRightArith, Sign, B, q, p, s
    <2>2. q <= x
      <3>1. p * q >= q /\ p * q \in Int
        BY <1>2, <1>3
      <3> QED  BY <3>1, <1>3
    <2>3. Signed(q) = q /\ Signed(x) = x
      BY <1>5, <2>2, <1>3, <1>x, <1>m DEF Signed
    <2> QED  BY <2>1, <2>3 DEF q, p, s
  <1>6. CASE x >= SignBit
    <2> DEFINE fill == (WordMod - 1) - (WordMod - 1) \div p
    <2>1. (WordMod - 1) \div p = t - 1
      <3>1. WordMod - 1 = p * (t - 1) + (p - 1)
        BY <1>2
      <3>2. WordMod - 1 \in Int /\ t - 1 \in Int /\ p - 1 \in 0 .. p - 1
        BY <1>2, <1>m
      <3> QED  BY <3>1, <3>2, <1>2, DivModUnique, Zenon
    <2>2. fill = (p - 1) * t /\ (p - 1) * t = WordMod - t /\ p - 1 \in Nat
      BY <2>1, <1>2
    <2>3. ShiftRightArith(x, y) = BitOr(fill, q)
      BY <1>6 DEF ShiftRightArith, Sign, B, q, p, s
    <2> HIDE DEF fill
    <2>4. (p - 1) * t + q = WordMod - t + q /\ (p - 1) * t + q \in Word
      BY <2>2, <1>2, <1>3, <1>4, <1>m DEF Word
    <2>5. BitOr((p - 1) * t, q) = (p - 1) * t + q
      <3> DEFINE u == p - 1
      <3>1. u \in Nat /\ q \in Nat /\ q < 2 ^ j /\ u * 2 ^ j + q \in Word
        BY <2>2, <2>4, <1>3, <1>4 DEF t
      <3> HIDE DEF u
      <3>2. BitOr(u * 2 ^ j, q) = u * 2 ^ j + q
        BY <3>1, <1>1, OrAdds, Zenon
      <3> QED  BY <3>2 DEF u, t
    <2>6. WordMod - t + q >= SignBit
      <3>1. CASE p = 1
        <4>1. q = x /\ t = WordMod
          BY <3>1, <1>2, <1>3
        <4> QED  BY <4>1, <1>6, <1>m, <1>x
      <3>2. CASE p >= 2
        <4>1. p * t >= 2 * t
          BY <3>2, <1>2
        <4> QED  BY <4>1, <1>2, <1>3, <1>m
      <3> QED  BY <3>1, <3>2, <1>2
    <2>7. Signed(ShiftRightArith(x, y)) = q - t
      <3>1. ShiftRightArith(x, y) = WordMod - t + q
        BY <2>2, <2>3, <2>4, <2>5
      <3> QED  BY <3>1, <2>6, <1>2, <1>3, <1>m DEF Signed
    <2>8. Signed(x) = x - WordMod
      BY <1>6 DEF Signed
    <2>9. (x - WordMod) \div p = q - t
      <3>1. p * (q - t) = p * q - p * t
        BY <1>2, <1>3
      <3>2. x - WordMod = p * (q - t) + r /\ x - WordMod \in Int /\ q - t \in Int
        BY <3>1, <1>2, <1>3, <1>x, <1>m
      <3> QED  BY <3>2, <1>2, <1>3, DivModUnique, Zenon
    <2> QED  BY <2>7, <2>8, <2>9 DEF p, s
  <1> QED  BY <1>5, <1>6

\* What each control makes of the operands, and what the instruction set asks.
LEMMA ResultCorrectStep ==
    ASSUME BenchInv
    PROVE  ResultCorrect
  <1>t. /\ a \in Word /\ b \in Word /\ op \in ImmOps \cup {OP}
        /\ funct3 \in 0 .. 7 /\ funct7_5 \in Bit
    BY DEF BenchInv
  <1>d. OP = 51 /\ OPIMM = 19 /\ LUI = 55 /\ JAL = 111 /\ JALR = 103
    BY DEF OP, OPIMM, LUI, JAL, JALR
  <1> SUFFICES ASSUME Legal
               PROVE  CASE op \in {OP, OPIMM} -> IsArithmetic(Written)
                        [] op = LUI -> Written = b
                        [] op \in {JAL, JALR} -> Written = Trunc(pc + 4)
                        [] OTHER -> TRUE
    BY DEF ResultCorrect
  <1>1. ASSUME op \in {OP, OPIMM} PROVE IsArithmetic(Written)
    <2> DEFINE ctl == ArithControl(op, funct3, funct7_5)
    <2>1. Written = ALUResult(a, b, ctl) /\ BitOf(op, 5) = B(op = OP)
      BY <1>1, <1>t, ResultControl
    <2>2. CASE funct3 = 0
      <3>1. CASE op = OP /\ funct7_5 = 1
        <4>1. ctl = 1
          BY <2>1, <2>2, <3>1 DEF ArithControl, B
        <4>2. Written = Trunc(a - b)
          BY <2>1, <4>1 DEF ALUResult
        <4> QED  BY <2>2, <3>1, <4>2, <1>t, AddSub DEF IsArithmetic, BitByBit
      <3>2. CASE ~(op = OP /\ funct7_5 = 1)
        <4>1. ctl = 0
          BY <2>1, <2>2, <3>2 DEF ArithControl, B
        <4>2. Written = Trunc(a + b)
          BY <2>1, <4>1 DEF ALUResult
        <4> QED  BY <2>2, <3>2, <4>2, <1>t, AddSub DEF IsArithmetic, BitByBit
      <3> QED  BY <3>1, <3>2
    <2>3. CASE funct3 = 1
      <3>1. Written = Trunc(a * 2 ^ Shamt(b))
        BY <2>1, <2>3 DEF ArithControl, ALUResult
      <3> QED  BY <2>3, <3>1 DEF IsArithmetic, BitByBit
    <2>4. CASE funct3 = 2
      <3>1. Written = SetLessThan(a, b)
        BY <2>1, <2>4 DEF ArithControl, ALUResult
      <3> QED  BY <2>4, <3>1, <1>t, SignedLess DEF IsArithmetic, BitByBit
    <2>5. CASE funct3 = 3
      <3>1. Written = B(a < b)
        BY <2>1, <2>5 DEF ArithControl, ALUResult
      <3> QED  BY <2>5, <3>1 DEF IsArithmetic, BitByBit
    <2>b. ASSUME NEW k \in BitRange PROVE BitOf(a, k) \in {0, 1} /\ BitOf(b, k) \in {0, 1}
      <3>1. 2 ^ k \in Nat \ {0}
        BY ExponentAssumption, DataWidth DEF BitRange
      <3>2. a \in Nat /\ b \in Nat
        BY <1>t, Moduli DEF Word
      <3> QED  BY <3>1, <3>2 DEF BitOf
    <2>6. CASE funct3 = 4
      <3>1. Written = BitXor(a, b)
        BY <2>1, <2>6 DEF ArithControl, ALUResult
      <3>2. ASSUME NEW k \in BitRange
            PROVE  BitOf(Written, k) = IF BitOf(a, k) = BitOf(b, k) THEN 0 ELSE 1
        BY <3>1, <2>b, <1>t, BitwiseBits
      <3> QED  BY <2>6, <3>2 DEF IsArithmetic, BitByBit, BitRange
    <2>7. CASE funct3 = 5
      <3>1. CASE funct7_5 = 1
        <4>1. Written = ShiftRightArith(a, b)
          BY <2>1, <2>7, <3>1 DEF ArithControl, ALUResult
        <4> QED  BY <2>7, <3>1, <4>1, <1>t, ArithmeticShift DEF IsArithmetic, BitByBit
      <3>2. CASE funct7_5 # 1
        <4>1. Written = a \div 2 ^ Shamt(b)
          BY <2>1, <2>7, <3>2 DEF ArithControl, ALUResult
        <4> QED  BY <2>7, <3>2, <4>1 DEF IsArithmetic, BitByBit
      <3> QED  BY <3>1, <3>2
    <2>8. CASE funct3 = 6
      <3>1. Written = BitOr(a, b)
        BY <2>1, <2>8 DEF ArithControl, ALUResult
      <3>2. ASSUME NEW k \in BitRange
            PROVE  BitOf(Written, k) = IF BitOf(a, k) = 1 THEN 1 ELSE BitOf(b, k)
        BY <3>1, <2>b, <1>t, BitwiseBits DEF B
      <3> QED  BY <2>8, <3>2 DEF IsArithmetic, BitByBit, BitRange
    <2>9. CASE funct3 = 7
      <3>1. Written = BitAnd(a, b)
        BY <2>1, <2>9 DEF ArithControl, ALUResult
      <3>2. ASSUME NEW k \in BitRange
            PROVE  BitOf(Written, k) = IF BitOf(a, k) = 1 THEN BitOf(b, k) ELSE 0
        BY <3>1, <2>b, <1>t, BitwiseBits
      <3> QED  BY <2>9, <3>2 DEF IsArithmetic, BitByBit, BitRange
    <2>10. funct3 \in {0, 1, 2, 3, 4, 5, 6, 7}
      BY <1>t
    <2> QED  BY <2>2, <2>3, <2>4, <2>5, <2>6, <2>7, <2>8, <2>9, <2>10
  <1>2. ASSUME op = LUI PROVE Written = b
    BY <1>2, <1>t, ResultControl DEF ALUResult
  <1>3. ASSUME op \in {JAL, JALR} PROVE Written = Trunc(pc + 4)
    BY <1>3, <1>t, ResultControl
  <1> QED  BY <1>1, <1>2, <1>3, <1>d

-----------------------------------------------------------------------------
(* Theorems                                                                *)

\* For every width, every pair of operands and every legal instruction, the
\* value reg_file_w hands to the register file is the instruction set's:
\* decoder, ALU (its carry chain, its two-way set-less-than, its filled
\* arithmetic shift) and result selection together.
THEOREM ResultCorrectHolds == Spec => []ResultCorrect
  <1>1. BenchInv => ResultCorrect
    BY ResultCorrectStep
  <1> QED  BY <1>1, BenchInvHolds, PTL

\* beq, bne, bltu and bgeu are taken exactly when their condition holds, jumps
\* always, nothing else ever, at every width: alu.sv's carry is a borrow and
\* flags.sv reads it as one.
THEOREM BranchCorrectHolds == Spec => []BranchCorrect
  <1>1. BenchInv => BranchCorrect
    BY BranchCorrectStep
  <1> QED  BY <1>1, BenchInvHolds, PTL

\* blt and bge decide correctly at every width when the operands are equal, or
\* of different signs with a difference that does not overflow.
THEOREM SignedBranchHolds == Spec => []SignedBranchPartial
  <1>1. BenchInv => SignedBranchPartial
    BY SignedBranchStep
  <1> QED  BY <1>1, BenchInvHolds, PTL

\* we_decoder.sv, the byte lanes and ld_decoder.sv together return what was
\* stored, extended as the load asks, whatever the lanes held before.
THEOREM RoundTripHolds == Spec => []StoreLoadRoundTrip
  <1>1. BenchInv => StoreLoadRoundTrip
    BY StoreLoadStep
  <1> QED  BY <1>1, BenchInvHolds, PTL

\* main_decoder.sv's ImmSrc and sign_extend.sv together recover every
\* immediate, for any number of set bits and any content of the other fields.
THEOREM ImmediatesHold == Spec => []ImmediateDecoded
  <1>1. BenchInv => ImmediateDecoded
    BY ImmediateStep
  <1> QED  BY <1>1, BenchInvHolds, PTL

\* Every assertion of control_unit_tb.cpp but the one on ResultSrc of jal agrees
\* with the decoders, and expected_value of sign_extend_tb.cpp with
\* sign_extend.sv on every instruction word but the jumps with a negative
\* offset.
THEOREM UnitTestsHold == Spec => []UnitTestsAgree
  <1> QED  BY UnitTestsStep, PTL
=============================================================================
