------------------------------ MODULE AluLaws ------------------------------
(***************************************************************************)
(* Laws of the arithmetic and logic of Fake8080: what a program that       *)
(* combines several instructions relies on.  The state is one register     *)
(* file; the laws are stated for it as invariants and apply the            *)
(* instructions to it.                                                     *)
(***************************************************************************)
EXTENDS Alu

CONSTANT Operands   \* the register files considered

\* Bit 1 of F is always set: no setter clears it (Registers.cpp:16-23).
ASSUME OperandsAssumption ==
  \A file \in Operands : file \in RegisterFile /\ getBit(file["F"], 1)

VARIABLE r

LawsInit == r \in Operands

LawsNext == UNCHANGED r

LawsSpec == LawsInit /\ [][LawsNext]_r
-----------------------------------------------------------------------------
\* The instructions between registers that the laws compose.
Mov(file, destination, source) ==
  setRegister(file, destination, getRegister(file, source))

Add(file, reg) == AccumulatorArithmetic(file, reg, "ADD", FALSE, TRUE)
Adc(file, reg) == AccumulatorArithmetic(file, reg, "ADD", TRUE, TRUE)
Sub(file, reg) == AccumulatorArithmetic(file, reg, "SUB", FALSE, TRUE)
Sbb(file, reg) == AccumulatorArithmetic(file, reg, "SUB", TRUE, TRUE)
Cmp(file, reg) == AccumulatorArithmetic(file, reg, "SUB", FALSE, FALSE)

Cma(file) == setRegister(file, "A", BitNot(getRegister(file, "A")))

\* A flag as the number 0 or 1.
FlagBit(file, flag) == IF getFlag(file, flag) THEN 1 ELSE 0

\* CY and the accumulator together hold the exact sum or difference, carry in
\* included, and AC is the carry into (the borrow from) bit 4, although both
\* flags are written while the incoming CY is still needed
\* (Fake8080.cpp:107-155).
ArithmeticIsExact ==
  LET a == getRegister(r, "A")
      b == getRegister(r, "B")
  IN  \A useCarry \in BOOLEAN :
        LET c          == carryValue(r, useCarry)
            sum        == AccumulatorArithmetic(r, "B", "ADD", useCarry, TRUE)
            difference == AccumulatorArithmetic(r, "B", "SUB", useCarry, TRUE)
            HalfCarry(s) ==
              FlagBit(s, "AC") = (Bit(a, 4) + Bit(b, 4) + Bit(s["A"], 4)) % 2
        IN  /\ 256 * FlagBit(sum, "CY") + sum["A"] = a + b + c
            /\ difference["A"] - 256 * FlagBit(difference, "CY") = a - b - c
            /\ HalfCarry(sum)
            /\ HalfCarry(difference)

\* CMP tells the unsigned order of A and its operand by CY and Z, raises the
\* flags SUB would, and changes no register but F (Fake8080.hpp:570-583).
CompareOrders ==
  LET compared == Cmp(r, "B")
  IN  /\ getFlag(compared, "CY") <=> r["A"] < r["B"]
      /\ getFlag(compared, "Z") <=> r["A"] = r["B"]
      /\ compared = [Sub(r, "B") EXCEPT !["A"] = r["A"]]

\* HL + DE by bytes, ADD on the low ones and ADC on the high ones.
AddWords(file) ==
  LET low == Mov(Add(Mov(file, "A", "L"), "E"), "L", "A")
  IN  Mov(Adc(Mov(low, "A", "H"), "D"), "H", "A")

\* HL - DE by bytes, SUB on the low ones and SBB on the high ones.
SubWords(file) ==
  LET low == Mov(Sub(Mov(file, "A", "L"), "E"), "L", "A")
  IN  Mov(Sbb(Mov(low, "A", "H"), "D"), "H", "A")

\* The carry goes from byte to byte: ADD then ADC adds 16-bit numbers exactly
\* as DAD does, CY included, and SUB then SBB takes the addend away again with
\* a borrow exactly when the sum had carried (Fake8080.cpp:107-155,
\* Fake8080.hpp:544-561, 570-583).
WordsAddByBytes ==
  LET a == getRegister(r, "A")
      b == getRegister(r, "B")
      words == [r EXCEPT !["H"] = a, !["L"] = b, !["D"] = b, !["E"] = a]
      sum   == AddWords(words)
      back  == SubWords(sum)
      dad   == DoubleAdd(words, "DE")
  IN  /\ getCombinedRegister(sum, "HL") = getCombinedRegister(dad, "HL")
      /\ getFlag(sum, "CY") = getFlag(dad, "CY")
      /\ getCombinedRegister(back, "HL") = getCombinedRegister(words, "HL")
      /\ getFlag(back, "CY") = getFlag(sum, "CY")

\* The same rotation of A, n times.
Rotated(file, direction, rotateThrough, n) ==
  LET turn[i \in 0 .. n] ==
        IF i = 0 THEN file ELSE Rotate(turn[i - 1], "A", direction, rotateThrough)
  IN  turn[n]

\* No bit is lost in a rotation: RAR undoes RAL and RAL undoes RAR, carry
\* included; nine turns through the carry, or eight around it, bring every bit
\* home; no other flag moves (Fake8080.hpp:650-677).
RotationsLoseNothing ==
  /\ Rotate(Rotate(r, "A", "LEFT", TRUE), "A", "RIGHT", TRUE) = r
  /\ Rotate(Rotate(r, "A", "RIGHT", TRUE), "A", "LEFT", TRUE) = r
  /\ Rotated(r, "LEFT", TRUE, 9) = r
  /\ \A direction \in ShiftDirection :
       LET turned == Rotated(r, direction, FALSE, 8)
       IN  /\ turned["A"] = r["A"]
           /\ getFlag(turned, "CY")
                = getBit(r["A"], IF direction = "LEFT" THEN 0 ELSE 7)

\* A loop counter may share a loop with multi-byte arithmetic: INR and DCR
\* keep CY, undo each other, and agree with ADD and SUB of 1 on every other
\* flag (Fake8080.hpp:593-600).
CountingKeepsCarry ==
  LET one  == setRegister(r, "B", 1)
      up   == Increment(one, "A", "ADD")
      down == Increment(one, "A", "SUB")
  IN  /\ getFlag(up, "CY") = getFlag(r, "CY")
      /\ getFlag(down, "CY") = getFlag(r, "CY")
      /\ Increment(up, "A", "SUB")["A"] = r["A"]
      /\ setFlag(up, "CY", FALSE) = setFlag(Add(one, "B"), "CY", FALSE)
      /\ setFlag(down, "CY", FALSE) = setFlag(Sub(one, "B"), "CY", FALSE)

\* ANA, ORA, XRA and CMA form the Boolean algebra of bytes: De Morgan's law
\* holds, XRA is (A or B) and not (A and B), XRA twice is the identity, and A
\* XRA A is the usual way to zero A with Z set and CY clear
\* (Fake8080.cpp:177-181, Fake8080.hpp:611-640).
LogicIsBoolean ==
  LET a   == getRegister(r, "A")
      both   == AccumulatorLogic(r, "B", "AND")
      either == AccumulatorLogic(r, "B", "OR")
      differ == AccumulatorLogic(r, "B", "XOR")
      complemented == setRegister(Cma(r), "B", BitNot(getRegister(r, "B")))
      zero == AccumulatorLogic(r, "A", "XOR")
  IN  /\ Cma(both)["A"] = AccumulatorLogic(complemented, "B", "OR")["A"]
      /\ AccumulatorLogic(setRegister(either, "C", Cma(both)["A"]), "C", "AND")["A"]
           = differ["A"]
      /\ AccumulatorLogic(differ, "B", "XOR")["A"] = a
      /\ zero["A"] = 0 /\ getFlag(zero, "Z") /\ ~getFlag(zero, "CY")
-----------------------------------------------------------------------------
\* The number a byte of two decimal digits stands for.
IsDecimal(byte) == byte \div 16 <= 9 /\ byte % 16 <= 9

Decimal(byte) == 10 * (byte \div 16) + (byte % 16)

\* ADC B; DAA
DecimalSum == DecimalAdjust(Adc(r, "B"))

IsExactDecimalSum ==
  /\ IsDecimal(DecimalSum["A"])
  /\ 100 * FlagBit(DecimalSum, "CY") + Decimal(DecimalSum["A"])
       = Decimal(r["A"]) + Decimal(r["B"]) + FlagBit(r, "CY")

\* ADC then DAA adds two-digit decimal numbers, with the hundred in CY: what
\* DAA is for, "58 + 67 = 125 en BCD (debe dar 0x25 con CY=1)"
\* (STC_CMA_CMC_DAA_Test.cpp:286).
DecimalSumIsExact ==
  IsDecimal(r["A"]) /\ IsDecimal(r["B"]) => IsExactDecimalSum

\* The same while the first correction does not wrap the accumulator: the
\* binary sum is below 0xFA or has carried (Fake8080.cpp:196-205).
DecimalSumIsExactBelowWrap ==
  /\ IsDecimal(r["A"])
  /\ IsDecimal(r["B"])
  /\ ~ (r["A"] + r["B"] + FlagBit(r, "CY") \in 250 .. 255)
  => IsExactDecimalSum
=============================================================================
