-------------------------------- MODULE Alu --------------------------------
(***************************************************************************)
(* The arithmetic and logic of Fake8080: the operations that compute a     *)
(* result and the condition flags.  All of them are operators on the       *)
(* register file; none touches memory, the program counter or the          *)
(* interrupt state.                                                        *)
(***************************************************************************)
EXTENDS Registers

AritmeticOperation == {"ADD", "SUB"}

LogicOperation == {"AND", "OR", "XOR"}

ShiftDirection == {"RIGHT", "LEFT"}

manageZeroFlag(r, value) == setFlag(r, "Z", value = 0)

manageParityFlag(r, value) == setFlag(r, "P", BitCount(value) % 2 = 0)

manageSignedFlag(r, value) == setFlag(r, "S", value \div 128 # 0)

\* The three flags that depend on the result alone.
manageResultFlags(r, value) ==
  manageSignedFlag(manageParityFlag(manageZeroFlag(r, value), value), value)

\* useCarry && CY, as the number added to the second operand.
carryValue(r, useCarry) == IF useCarry /\ getFlag(r, "CY") THEN 1 ELSE 0

\* Seeded fault: the carry out forgets the carry in.
manageCarryFlag_NoCarryIn(r, first, second, op, useCarry) ==
  setFlag(r, "CY", IF op = "ADD" THEN first + second > 255 ELSE first < second)

manageCarryFlag(r, first, second, op, useCarry) ==
  LET c == carryValue(r, useCarry)
  IN  setFlag(r, "CY", IF op = "ADD" THEN first + second + c > 255
                                     ELSE first < second + c)

manageAuxilaryCarryFlag(r, first, second, op, useCarry) ==
  LET c == carryValue(r, useCarry)
  IN  setFlag(r, "AC",
              IF op = "ADD" THEN (first % 16) + (second % 16) + c > 15
                            ELSE first % 16 < (second % 16) + c)

\* The 8-bit result; it reads CY before any flag is updated.
aritmeticResult(r, first, second, op, useCarry) ==
  LET c == carryValue(r, useCarry)
  IN  ToByte(IF op = "ADD" THEN first + (second + c) ELSE first - (second + c))

\* Seeded fault: CY is updated before AC, which then reads the new CY.
aritmeticFlags_CarryFirst(r, first, second, op, useCarry, modifyCarry) ==
  LET carried == IF modifyCarry
                   THEN manageCarryFlag(r, first, second, op, useCarry)
                   ELSE r
  IN  manageResultFlags(
        manageAuxilaryCarryFlag(carried, first, second, op, useCarry),
        aritmeticResult(r, first, second, op, useCarry))

\* The register file after aritmeticOperation_8bits: AC first, then CY
\* unless the caller preserves it, then Z, P and S.
aritmeticFlags(r, first, second, op, useCarry, modifyCarry) ==
  LET half    == manageAuxilaryCarryFlag(r, first, second, op, useCarry)
      carried == IF modifyCarry
                   THEN manageCarryFlag(half, first, second, op, useCarry)
                   ELSE half
  IN  manageResultFlags(carried, aritmeticResult(r, first, second, op, useCarry))

\* Seeded fault: CMP stores its result as SUB does.
AccumulatorArithmetic_AlwaysStore(r, reg, op, useCarry, storeResult) ==
  LET a == getRegister(r, "A")
      b == getRegister(r, reg)
  IN  setRegister(aritmeticFlags(r, a, b, op, useCarry, TRUE), "A",
                  aritmeticResult(r, a, b, op, useCarry))

\* ADD, ADC, SUB, SBB and CMP on the accumulator, once the second operand
\* is in register reg; CMP leaves the accumulator alone.
AccumulatorArithmetic(r, reg, op, useCarry, storeResult) ==
  LET a     == getRegister(r, "A")
      b     == getRegister(r, reg)
      flags == aritmeticFlags(r, a, b, op, useCarry, TRUE)
  IN  IF storeResult
        THEN setRegister(flags, "A", aritmeticResult(r, a, b, op, useCarry))
        ELSE flags

\* Seeded fault: CY is updated as ADD and SUB update it.
Increment_ModifyCarry(r, reg, op) ==
  LET v == getRegister(r, reg)
  IN  setRegister(aritmeticFlags(r, v, 1, op, FALSE, TRUE), reg,
                  aritmeticResult(r, v, 1, op, FALSE))

\* INR and DCR: one more or one less, CY preserved.
Increment(r, reg, op) ==
  LET v == getRegister(r, reg)
  IN  setRegister(aritmeticFlags(r, v, 1, op, FALSE, FALSE), reg,
                  aritmeticResult(r, v, 1, op, FALSE))

\* Seeded fault: XRA computes an inclusive or.
logicResult_Inclusive(a, b, op) ==
  IF op = "AND" THEN BitAnd(a, b) ELSE BitOr(a, b)

logicResult(a, b, op) ==
  CASE op = "AND" -> BitAnd(a, b)
    [] op = "OR"  -> BitOr(a, b)
    [] op = "XOR" -> BitXor(a, b)

\* ANA, ORA and XRA with register reg: CY is cleared, AC tells AND apart.
AccumulatorLogic(r, reg, op) ==
  LET result  == logicResult(getRegister(r, "A"), getRegister(r, reg), op)
      cleared == setFlag(manageResultFlags(r, result), "CY", FALSE)
  IN  setRegister(setFlag(cleared, "AC", op = "AND"), "A", result)

exitBitPosition(direction) == IF direction = "RIGHT" THEN 0 ELSE 7

entryBitPosition(direction) == IF direction = "RIGHT" THEN 7 ELSE 0

\* Seeded fault: CY takes the leaving bit before the entering bit is read.
Rotate_CarryFirst(r, reg, direction, rotateThrough) ==
  LET value   == getRegister(r, reg)
      exitBit == getBit(value, exitBitPosition(direction))
      shifted == IF direction = "RIGHT" THEN value \div 2 ELSE ToByte(2 * value)
  IN  setRegister(setFlag(r, "CY", exitBit), reg,
                  setBit(shifted, entryBitPosition(direction), exitBit))

\* RLC, RRC (rotateThrough FALSE: the leaving bit comes back in) and RAL,
\* RAR (rotateThrough TRUE: the old CY comes in).  The leaving bit goes to CY.
Rotate(r, reg, direction, rotateThrough) ==
  LET value    == getRegister(r, reg)
      exitBit  == getBit(value, exitBitPosition(direction))
      shifted  == IF direction = "RIGHT" THEN value \div 2 ELSE ToByte(2 * value)
      entryBit == IF rotateThrough THEN getFlag(r, "CY") ELSE exitBit
  IN  setRegister(setFlag(r, "CY", exitBit), reg,
                  setBit(shifted, entryBitPosition(direction), entryBit))

\* DAA's first correction; the sum is stored in a uint8_t and wraps.
DaaLow(r) ==
  LET a == getRegister(r, "A")
  IN  IF getFlag(r, "AC") \/ a % 16 > 9 THEN ToByte(a + 6) ELSE a

\* Seeded fault: the carry of the addition before DAA is forgotten.
DaaCarry_HighDigitOnly(r) == DaaLow(r) \div 16 > 9

\* DAA's second correction is due: CY, or the high digit of the accumulator
\* as the first correction left it.
DaaCarry(r) == getFlag(r, "CY") \/ DaaLow(r) \div 16 > 9

DecimalAdjust(r) ==
  LET carry  == DaaCarry(r)
      result == IF carry THEN ToByte(DaaLow(r) + 96) ELSE DaaLow(r)
  IN  manageResultFlags(
        setFlag(setRegister(r, "A", result), "CY", carry), result)

\* DAD: 16-bit sum of HL and RR, carry out detected by the wrap.
DoubleAdd(r, rr) ==
  LET HL_value == getCombinedRegister(r, "HL")
      result   == ToWord(HL_value + getCombinedRegister(r, rr))
  IN  setCombinedRegister(setFlag(r, "CY", result < HL_value), "HL", result)
=============================================================================
