----------------------------- MODULE AluProofs -----------------------------
(***************************************************************************)
(* What the bit operations, the register file and the ALU keep, for every  *)
(* value: a register always holds a byte, a pair a 16-bit word, bit 1 of F *)
(* is always 1, and an operation touches no register but those it names.   *)
(***************************************************************************)
EXTENDS Alu, TLAPS

\* The register files a CPU can have.
File == {r \in RegisterFile : getBit(r["F"], 1)}

\* Membership in the two integer types, as inequalities.
LEMMA ByteRange == \A n : n \in Byte <=> n \in Int /\ 0 <= n /\ n <= 255
<1>1. MaxByte \in Int
  BY DEF MaxByte
<1>2. \A n : n \in Byte <=> n \in Int /\ 0 <= n /\ n <= MaxByte
  BY <1>1 DEF Byte
<1>3. MaxByte = 255
  BY DEF MaxByte
<1>4. QED
  BY <1>2, <1>3

LEMMA WordRange == \A n : n \in Word <=> n \in Int /\ 0 <= n /\ n <= 65535
<1>1. MaxWord \in Int
  BY DEF MaxWord
<1>2. \A n : n \in Word <=> n \in Int /\ 0 <= n /\ n <= MaxWord
  BY <1>1 DEF Word
<1>3. MaxWord = 65535
  BY DEF MaxWord
<1>4. QED
  BY <1>2, <1>3

\* A power of two is one of eight numbers (BitsUtilities.hpp:28-42).
LEMMA WeightValues ==
  ASSUME NEW position \in BitPosition
  PROVE  /\ position \in {0, 1, 2, 3, 4, 5, 6, 7}
         /\ position = 0 => Weight(position) = 1
         /\ position = 1 => Weight(position) = 2
         /\ position = 2 => Weight(position) = 4
         /\ position = 3 => Weight(position) = 8
         /\ position = 4 => Weight(position) = 16
         /\ position = 5 => Weight(position) = 32
         /\ position = 6 => Weight(position) = 64
         /\ position = 7 => Weight(position) = 128
BY DEF BitPosition, Weight

\* A bit is 0 or 1 (BitsUtilities.hpp:28-32).
LEMMA BitType ==
  ASSUME NEW value \in Byte, NEW position \in BitPosition
  PROVE  /\ Bit(value, position) \in {0, 1}
         /\ getBit(value, position) \in BOOLEAN
BY WeightValues, ByteRange DEF Bit, getBit

\* setBit leaves a byte (BitsUtilities.hpp:38-42).
LEMMA SetBitType ==
  ASSUME NEW value \in Byte, NEW position \in BitPosition, NEW state \in BOOLEAN
  PROVE  setBit(value, position, state) \in Byte
<1>1. \A w \in {1, 2, 4, 8, 16, 32, 64, 128} :
        /\ value - w * ((value \div w) % 2) \in Byte
        /\ value - w * ((value \div w) % 2) + w \in Byte
  BY ByteRange
<1> DEFINE w == Weight(position)
<1>2. w \in {1, 2, 4, 8, 16, 32, 64, 128}
  BY WeightValues
<1>3. setBit(value, position, state) =
        value - w * ((value \div w) % 2) + (IF state THEN w ELSE 0)
  BY DEF setBit, Bit
<1> HIDE DEF w
<1>4. /\ value - w * ((value \div w) % 2) \in Byte
      /\ value - w * ((value \div w) % 2) + w \in Byte
  BY <1>1, <1>2
<1>5. CASE state
  BY <1>3, <1>4, <1>5
<1>6. CASE ~state
  <2>1. value - w * ((value \div w) % 2) \in Int
    BY <1>4, ByteRange
  <2>2. setBit(value, position, state) = value - w * ((value \div w) % 2) + 0
    BY <1>3, <1>6
  <2>3. QED
    BY <1>4, <2>1, <2>2
<1>7. QED
  BY <1>5, <1>6

\* What setRegister does to a value for F: a byte whose bit 1 is 1
\* (Registers.cpp:16-23).
LEMMA SetReserved ==
  ASSUME NEW value \in Byte
  PROVE  /\ setBit(value, 1, TRUE) \in Byte
         /\ getBit(setBit(value, 1, TRUE), 1)
<1>1. Weight(1) = 2
  BY DEF Weight
<1>2. setBit(value, 1, TRUE) = value - 2 * ((value \div 2) % 2) + 2
  BY <1>1 DEF setBit, Bit
<1> DEFINE v == value - 2 * ((value \div 2) % 2) + 2
<1>3. v \in Byte /\ (v \div 2) % 2 = 1
  BY ByteRange
<1> HIDE DEF v
<1>4. QED
  BY <1>1, <1>2, <1>3 DEF getBit, Bit, v

\* A number of eight binary digits is a byte.
LEMMA FromBitsType ==
  ASSUME NEW f \in [BitPosition -> {0, 1}]
  PROVE  FromBits(f) \in Byte
<1>1. \A i \in 0 .. 7 : f[i] \in Int /\ 0 <= f[i] /\ f[i] <= 1
  BY DEF BitPosition
<1>2. /\ f[0] \in Int /\ 0 <= f[0] /\ f[0] <= 1
      /\ f[1] \in Int /\ 0 <= f[1] /\ f[1] <= 1
      /\ f[2] \in Int /\ 0 <= f[2] /\ f[2] <= 1
      /\ f[3] \in Int /\ 0 <= f[3] /\ f[3] <= 1
      /\ f[4] \in Int /\ 0 <= f[4] /\ f[4] <= 1
      /\ f[5] \in Int /\ 0 <= f[5] /\ f[5] <= 1
      /\ f[6] \in Int /\ 0 <= f[6] /\ f[6] <= 1
      /\ f[7] \in Int /\ 0 <= f[7] /\ f[7] <= 1
  BY <1>1
<1>3. FromBits(f) \in Int
  BY <1>2 DEF FromBits
<1>4. 0 <= FromBits(f)
  BY <1>2 DEF FromBits
<1>5. FromBits(f) <= 255
  BY <1>2 DEF FromBits
<1>6. QED
  BY <1>3, <1>4, <1>5, ByteRange

\* The logic operators of the CPU give bytes.
LEMMA LogicType ==
  ASSUME NEW a \in Byte, NEW b \in Byte
  PROVE  /\ BitAnd(a, b) \in Byte
         /\ BitOr(a, b) \in Byte
         /\ BitXor(a, b) \in Byte
         /\ BitNot(a) \in Byte
<1>1. \A i \in BitPosition : Bit(a, i) \in {0, 1} /\ Bit(b, i) \in {0, 1}
  BY BitType
<1>2. [i \in BitPosition |-> Bit(a, i) * Bit(b, i)] \in [BitPosition -> {0, 1}]
  BY <1>1
<1>3. [i \in BitPosition |-> Bit(a, i) + Bit(b, i) - Bit(a, i) * Bit(b, i)]
        \in [BitPosition -> {0, 1}]
  BY <1>1
<1>4. [i \in BitPosition |-> (Bit(a, i) + Bit(b, i)) % 2] \in [BitPosition -> {0, 1}]
  BY <1>1
<1>5. BitNot(a) \in Byte
  BY ByteRange DEF BitNot
<1>6. QED
  BY <1>2, <1>3, <1>4, <1>5, FromBitsType DEF BitAnd, BitOr, BitXor

\* A word is two bytes (BitsUtilities.hpp:11-23).
LEMMA HalvesType ==
  ASSUME NEW word \in Word
  PROVE  getHighByte(word) \in Byte /\ getLowByte(word) \in Byte
BY ByteRange, WordRange DEF getHighByte, getLowByte

LEMMA CombineType ==
  ASSUME NEW high \in Byte, NEW low \in Byte
  PROVE  Combine(high, low) \in Word
BY ByteRange, WordRange DEF Combine

\* A conversion to uint8_t or uint16_t gives a value of that type.
LEMMA Converted ==
  ASSUME NEW n \in Int
  PROVE  ToByte(n) \in Byte /\ ToWord(n) \in Word
BY ByteRange, WordRange DEF ToByte, ToWord

\* The halves of a pair are registers, and a flag has a bit of F other than
\* bit 1 (Registers.hpp:57-71).
LEMMA PairsAndShifts ==
  /\ \A rr \in CombinedRegister :
       RegisterPairs[rr][1] \in Register /\ RegisterPairs[rr][2] \in Register
  /\ \A flag \in Flags : FlagsShifts[flag] \in BitPosition \ {1}
<1>1. \A rr \in CombinedRegister :
       RegisterPairs[rr][1] \in Register /\ RegisterPairs[rr][2] \in Register
  BY DEF CombinedRegister, RegisterPairs, Register
<1>2. \A flag \in Flags : FlagsShifts[flag] \in BitPosition \ {1}
  BY DEF Flags, FlagsShifts, BitPosition
<1>3. QED
  BY <1>1, <1>2

\* The readers of the register file (Registers.cpp:7-14, 31-33).
LEMMA ReadersType ==
  ASSUME NEW r \in File
  PROVE  /\ \A reg \in Register : getRegister(r, reg) \in Byte /\ r[reg] \in Byte
         /\ \A rr \in CombinedRegister : getCombinedRegister(r, rr) \in Word
         /\ \A flag \in Flags : getFlag(r, flag) \in BOOLEAN
<1>1. \A reg \in Register : getRegister(r, reg) \in Byte /\ r[reg] \in Byte
  BY DEF File, RegisterFile, getRegister
<1>2. \A rr \in CombinedRegister : getCombinedRegister(r, rr) \in Word
  BY <1>1, PairsAndShifts, CombineType DEF getCombinedRegister
<1>3. \A flag \in Flags : getFlag(r, flag) \in BOOLEAN
  BY DEF getFlag, getBit
<1>4. QED
  BY <1>1, <1>2, <1>3

\* Setting a register keeps the file a file: whatever byte goes into F, its
\* bit 1 stays 1 (Registers.cpp:16-23).
LEMMA SetRegisterType ==
  ASSUME NEW r \in File, NEW reg \in Register, NEW value \in Byte
  PROVE  setRegister(r, reg, value) \in File
<1>1. CASE reg = "F"
  <2>1. setBit(value, 1, TRUE) \in Byte
    BY SetReserved
  <2>2. setRegister(r, reg, value) = [r EXCEPT !["F"] = setBit(value, 1, TRUE)]
    BY <1>1 DEF setRegister
  <2>3. QED
    BY <2>1, <2>2, SetReserved DEF File, RegisterFile, Register
<1>2. CASE reg # "F"
  <2>1. setRegister(r, reg, value) = [r EXCEPT ![reg] = value]
    BY <1>2 DEF setRegister
  <2>2. [r EXCEPT ![reg] = value] \in RegisterFile
    BY DEF File, RegisterFile
  <2>3. [r EXCEPT ![reg] = value]["F"] = r["F"]
    BY <1>2 DEF File, RegisterFile, Register
  <2>4. QED
    BY <2>1, <2>2, <2>3 DEF File
<1>3. QED
  BY <1>1, <1>2

\* So does setting a pair or a flag (Registers.cpp:25-38).
LEMMA SetCombinedType ==
  ASSUME NEW r \in File, NEW rr \in CombinedRegister, NEW value \in Word
  PROVE  setCombinedRegister(r, rr, value) \in File
BY PairsAndShifts, HalvesType, SetRegisterType DEF setCombinedRegister

LEMMA SetFlagType ==
  ASSUME NEW r \in File, NEW flag \in Flags, NEW value \in BOOLEAN
  PROVE  setFlag(r, flag, value) \in File
<1> DEFINE f == setBit(r["F"], FlagsShifts[flag], value)
<1>1. f \in Byte
  BY PairsAndShifts, SetBitType, ReadersType DEF Register
<1>2. setFlag(r, flag, value) = setRegister(r, "F", f)
  BY DEF setFlag, setRegister
<1> HIDE DEF f
<1>3. QED
  BY <1>1, <1>2, SetRegisterType DEF Register

\* A word put together from its halves is the word (BitsUtilities.hpp:11-23).
LEMMA WordHalves ==
  ASSUME NEW value \in Word
  PROVE  Combine(getHighByte(value), getLowByte(value)) = value
BY WordRange DEF Combine, getHighByte, getLowByte

\* A pair other than PSW, whose F changes what it stores, reads back the word
\* written to it (Registers.cpp:10-14, 25-29).
LEMMA PairHoldsWord ==
  ASSUME NEW r \in File, NEW rr \in CombinedRegister \ {"PSW"}, NEW value \in Word
  PROVE  getCombinedRegister(setCombinedRegister(r, rr, value), rr) = value
<1> DEFINE high == RegisterPairs[rr][1]
           low  == RegisterPairs[rr][2]
           file == setCombinedRegister(r, rr, value)
<1>1. high \in Register \ {"F"} /\ low \in Register \ {"F"} /\ high # low
  BY DEF RegisterPairs, Register, CombinedRegister
<1>2. file = setRegister(setRegister(r, high, getHighByte(value)), low, getLowByte(value))
  BY DEF setCombinedRegister
<1>3. getCombinedRegister(file, rr) = Combine(file[high], file[low])
  BY DEF getCombinedRegister, getRegister
<1> HIDE DEF high, low, file
<1>4. file = [[r EXCEPT ![high] = getHighByte(value)] EXCEPT ![low] = getLowByte(value)]
  BY <1>1, <1>2 DEF setRegister
<1>5. file[high] = getHighByte(value) /\ file[low] = getLowByte(value)
  BY <1>1, <1>4 DEF File, RegisterFile
<1>6. QED
  BY <1>3, <1>5, WordHalves DEF file

\* The constructor builds a file (Registers.cpp:3-5).
LEMMA InitialFile == RegistersInit \in File
<1>0. 0 \in Byte /\ 2 \in Byte
  BY ByteRange
<1>1. setBit(2, 1, TRUE) \in Byte
  BY <1>0, SetReserved
<1>2. RegistersInit = [[reg \in Register |-> 0] EXCEPT !["F"] = setBit(2, 1, TRUE)]
  BY DEF RegistersInit, setRegister, Initial_Flags_Register_Value
<1>3. QED
  BY <1>1, <1>2, <1>0, SetReserved DEF File, RegisterFile, Register
-----------------------------------------------------------------------------
\* The operations of the ALU leave a file, whatever the operands, the flags and
\* the template arguments are.

\* The flags that describe a result (Fake8080.cpp:90-105).
LEMMA ResultFlagsType ==
  ASSUME NEW r \in File, NEW value \in Byte
  PROVE  manageResultFlags(r, value) \in File
<1>1. "Z" \in Flags /\ "P" \in Flags /\ "S" \in Flags
  BY DEF Flags
<1>2. ASSUME NEW s \in File
      PROVE  /\ manageZeroFlag(s, value) \in File
             /\ manageParityFlag(s, value) \in File
             /\ manageSignedFlag(s, value) \in File
  <2>1. (value = 0) \in BOOLEAN /\ (BitCount(value) % 2 = 0) \in BOOLEAN
        /\ (value \div 128 # 0) \in BOOLEAN
    OBVIOUS
  <2>2. QED
    BY <1>1, <2>1, SetFlagType, Zenon
       DEF manageZeroFlag, manageParityFlag, manageSignedFlag
<1>3. QED
  BY <1>2 DEF manageResultFlags

\* The carry that goes in is 0 or 1 (Fake8080.cpp:109, 126, 142).
LEMMA CarryValueType ==
  ASSUME NEW r, NEW useCarry
  PROVE  carryValue(r, useCarry) \in {0, 1}
BY DEF carryValue

\* The two carries (Fake8080.cpp:107-139).
LEMMA CarryFlagsType ==
  ASSUME NEW r \in File, NEW first, NEW second, NEW op, NEW useCarry
  PROVE  /\ manageCarryFlag(r, first, second, op, useCarry) \in File
         /\ manageAuxilaryCarryFlag(r, first, second, op, useCarry) \in File
<1> DEFINE c == carryValue(r, useCarry)
           carry == IF op = "ADD" THEN first + second + c > 255 ELSE first < second + c
           half  == IF op = "ADD" THEN (first % 16) + (second % 16) + c > 15
                                  ELSE first % 16 < (second % 16) + c
<1>1. "CY" \in Flags /\ "AC" \in Flags
  BY DEF Flags
<1>2. carry \in BOOLEAN /\ half \in BOOLEAN
  <2>1. /\ (first + second + c > 255) \in BOOLEAN
        /\ (first < second + c) \in BOOLEAN
        /\ ((first % 16) + (second % 16) + c > 15) \in BOOLEAN
        /\ (first % 16 < (second % 16) + c) \in BOOLEAN
    OBVIOUS
  <2>2. QED
    BY <2>1, Zenon
<1>3. /\ manageCarryFlag(r, first, second, op, useCarry) = setFlag(r, "CY", carry)
      /\ manageAuxilaryCarryFlag(r, first, second, op, useCarry) = setFlag(r, "AC", half)
  BY Zenon DEF manageCarryFlag, manageAuxilaryCarryFlag
<1> HIDE DEF carry, half
<1>4. QED
  BY <1>1, <1>2, <1>3, SetFlagType

\* An 8-bit operation: its result and its flags (Fake8080.cpp:141-155).
LEMMA ArithmeticType ==
  ASSUME NEW r \in File, NEW first \in Byte, NEW second \in Byte,
         NEW op, NEW useCarry, NEW modifyCarry \in BOOLEAN
  PROVE  /\ aritmeticResult(r, first, second, op, useCarry) \in Byte
         /\ aritmeticFlags(r, first, second, op, useCarry, modifyCarry) \in File
<1> DEFINE c == carryValue(r, useCarry)
           half == manageAuxilaryCarryFlag(r, first, second, op, useCarry)
           carried == IF modifyCarry
                        THEN manageCarryFlag(half, first, second, op, useCarry)
                        ELSE half
<1>1. first + (second + c) \in Int /\ first - (second + c) \in Int
  BY CarryValueType, ByteRange
<1>2. aritmeticResult(r, first, second, op, useCarry) \in Byte
  BY <1>1, Converted, Zenon DEF aritmeticResult
<1>3. half \in File
  BY CarryFlagsType
<1> HIDE DEF half
<1>4. carried \in File
  BY <1>3, CarryFlagsType
<1>5. aritmeticFlags(r, first, second, op, useCarry, modifyCarry)
        = manageResultFlags(carried, aritmeticResult(r, first, second, op, useCarry))
  BY DEF aritmeticFlags, half
<1> HIDE DEF carried
<1>6. QED
  BY <1>2, <1>4, <1>5, ResultFlagsType

\* ADD, ADC, SUB, SBB and CMP (Fake8080.hpp:570-583).
LEMMA AccumulatorArithmeticType ==
  ASSUME NEW r \in File, NEW reg \in Register,
         NEW op, NEW useCarry, NEW storeResult
  PROVE  AccumulatorArithmetic(r, reg, op, useCarry, storeResult) \in File
<1>1. "A" \in Register
  BY DEF Register
<1>2. getRegister(r, "A") \in Byte /\ getRegister(r, reg) \in Byte
  BY <1>1, ReadersType
<1>3. QED
  BY <1>1, <1>2, ArithmeticType, SetRegisterType, Zenon DEF AccumulatorArithmetic

\* INR and DCR (Fake8080.hpp:593-600).
LEMMA IncrementType ==
  ASSUME NEW r \in File, NEW reg \in Register, NEW op
  PROVE  Increment(r, reg, op) \in File
<1>1. getRegister(r, reg) \in Byte /\ 1 \in Byte
  BY ReadersType, ByteRange
<1>2. QED
  BY <1>1, ArithmeticType, SetRegisterType, Zenon DEF Increment

\* ANA, ORA and XRA (Fake8080.hpp:611-640).
LEMMA AccumulatorLogicType ==
  ASSUME NEW r \in File, NEW reg \in Register, NEW op \in LogicOperation
  PROVE  AccumulatorLogic(r, reg, op) \in File
<1> DEFINE result  == logicResult(getRegister(r, "A"), getRegister(r, reg), op)
           cleared == setFlag(manageResultFlags(r, result), "CY", FALSE)
           marked  == setFlag(cleared, "AC", op = "AND")
<1>1. "A" \in Register /\ "CY" \in Flags /\ "AC" \in Flags
  BY DEF Register, Flags
<1>2. getRegister(r, "A") \in Byte /\ getRegister(r, reg) \in Byte
  BY <1>1, ReadersType
<1>3. op = "AND" \/ op = "OR" \/ op = "XOR"
  BY DEF LogicOperation
<1>4. ASSUME NEW a \in Byte, NEW b \in Byte
      PROVE  logicResult(a, b, op) \in Byte
  <2>1. CASE op = "AND"
    BY <2>1, LogicType DEF logicResult
  <2>2. CASE op = "OR"
    BY <2>2, LogicType DEF logicResult
  <2>3. CASE op = "XOR"
    BY <2>3, LogicType DEF logicResult
  <2>4. QED
    BY <1>3, <2>1, <2>2, <2>3
<1>5. result \in Byte
  BY <1>2, <1>4
<1> HIDE DEF result
<1>6. cleared \in File
  BY <1>1, <1>5, ResultFlagsType, SetFlagType, FALSE \in BOOLEAN, Zenon
<1> HIDE DEF cleared
<1>7. marked \in File
  BY <1>1, <1>6, SetFlagType, (op = "AND") \in BOOLEAN, Zenon
<1>8. AccumulatorLogic(r, reg, op) = setRegister(marked, "A", result)
  BY DEF AccumulatorLogic, result, cleared
<1> HIDE DEF marked
<1>9. QED
  BY <1>1, <1>5, <1>7, <1>8, SetRegisterType

\* RLC, RRC, RAL and RAR (Fake8080.hpp:650-677).
LEMMA RotateType ==
  ASSUME NEW r \in File, NEW reg \in Register, NEW direction, NEW rotateThrough
  PROVE  Rotate(r, reg, direction, rotateThrough) \in File
<1> DEFINE value    == getRegister(r, reg)
           exitBit  == getBit(value, exitBitPosition(direction))
           shifted  == IF direction = "RIGHT" THEN value \div 2 ELSE ToByte(2 * value)
           entryBit == IF rotateThrough THEN getFlag(r, "CY") ELSE exitBit
           position == entryBitPosition(direction)
<1>1. "CY" \in Flags
  BY DEF Flags
<1>2. value \in Byte
  BY ReadersType
<1>3. position \in BitPosition
  BY DEF entryBitPosition, BitPosition
<1>4. exitBit \in BOOLEAN
  BY DEF getBit
<1>5. entryBit \in BOOLEAN
  BY <1>4, <1>1, ReadersType, Zenon
<1>6. shifted \in Byte
  <2>1. value \div 2 \in Byte /\ 2 * value \in Int
    BY <1>2, ByteRange
  <2>2. QED
    BY <2>1, Converted
<1>7. Rotate(r, reg, direction, rotateThrough)
        = setRegister(setFlag(r, "CY", exitBit), reg, setBit(shifted, position, entryBit))
  BY DEF Rotate
<1> HIDE DEF position, exitBit, entryBit, shifted
<1>8. QED
  BY <1>1, <1>3, <1>4, <1>5, <1>6, <1>7, SetBitType, SetFlagType, SetRegisterType

\* DAA (Fake8080.cpp:189-216).
LEMMA DecimalAdjustType ==
  ASSUME NEW r \in File
  PROVE  DecimalAdjust(r) \in File
<1> DEFINE carry  == DaaCarry(r)
           result == IF carry THEN ToByte(DaaLow(r) + 96) ELSE DaaLow(r)
<1>1. "A" \in Register /\ "CY" \in Flags
  BY DEF Register, Flags
<1>2. getRegister(r, "A") \in Byte
  BY <1>1, ReadersType
<1>3. DaaLow(r) \in Byte
  <2>1. getRegister(r, "A") + 6 \in Int
    BY <1>2, ByteRange
  <2>2. QED
    BY <1>2, <2>1, Converted, Zenon DEF DaaLow
<1>4. carry \in BOOLEAN
  BY Zenon DEF DaaCarry
<1>5. result \in Byte
  <2>1. DaaLow(r) + 96 \in Int
    BY <1>3, ByteRange
  <2>2. QED
    BY <1>3, <2>1, Converted, Zenon
<1>6. DecimalAdjust(r)
        = manageResultFlags(setFlag(setRegister(r, "A", result), "CY", carry), result)
  BY Zenon DEF DecimalAdjust
<1> HIDE DEF carry, result
<1>7. QED
  BY <1>1, <1>4, <1>5, <1>6, SetRegisterType, SetFlagType, ResultFlagsType

\* DAD (Fake8080.hpp:544-561).
LEMMA DoubleAddType ==
  ASSUME NEW r \in File, NEW rr \in CombinedRegister
  PROVE  DoubleAdd(r, rr) \in File
<1> DEFINE sum    == getCombinedRegister(r, "HL") + getCombinedRegister(r, rr)
           result == ToWord(sum)
           carry  == result < getCombinedRegister(r, "HL")
<1>1. "HL" \in CombinedRegister /\ "CY" \in Flags
  BY DEF CombinedRegister, Flags
<1>2. sum \in Int
  BY <1>1, ReadersType, WordRange
<1> HIDE DEF sum
<1>3. result \in Word
  BY <1>2, Converted
<1>4. carry \in BOOLEAN
  OBVIOUS
<1>5. DoubleAdd(r, rr) = setCombinedRegister(setFlag(r, "CY", carry), "HL", result)
  BY Zenon DEF DoubleAdd, sum
<1> HIDE DEF carry, result
<1>6. QED
  BY <1>1, <1>3, <1>4, <1>5, SetFlagType, SetCombinedType

-----------------------------------------------------------------------------
\* The file s is r except in the registers changed.
Keeps(r, s, changed) ==
  /\ DOMAIN r = Register
  /\ DOMAIN s = Register
  /\ \A reg \in Register \ changed : s[reg] = r[reg]

\* What two changes one after the other leave alone.
LEMMA KeepsThrough ==
  ASSUME NEW r, NEW s, NEW t, NEW one, NEW two, Keeps(r, s, one), Keeps(s, t, two)
  PROVE  Keeps(r, t, one \cup two)
BY DEF Keeps

\* The setters change the registers they name (Registers.cpp:16-38).
LEMMA SetKeeps ==
  ASSUME NEW r, DOMAIN r = Register, NEW value
  PROVE  /\ Keeps(r, r, {})
         /\ \A reg : Keeps(r, setRegister(r, reg, value), {reg})
         /\ \A flag : Keeps(r, setFlag(r, flag, value), {"F"})
         /\ \A rr \in CombinedRegister :
              Keeps(r, setCombinedRegister(r, rr, value),
                    {RegisterPairs[rr][1], RegisterPairs[rr][2]})
<1>1. ASSUME NEW s, DOMAIN s = Register, NEW v, NEW reg
      PROVE  Keeps(s, setRegister(s, reg, v), {reg})
  BY <1>1 DEF Keeps, setRegister
<1>2. ASSUME NEW flag PROVE Keeps(r, setFlag(r, flag, value), {"F"})
  BY DEF Keeps, setFlag
<1>3. ASSUME NEW rr \in CombinedRegister
      PROVE  Keeps(r, setCombinedRegister(r, rr, value),
                   {RegisterPairs[rr][1], RegisterPairs[rr][2]})
  <2> DEFINE high == RegisterPairs[rr][1]
             low  == RegisterPairs[rr][2]
             s == setRegister(r, high, getHighByte(value))
  <2>1. Keeps(r, s, {high})
    BY <1>1
  <2>2. Keeps(s, setRegister(s, low, getLowByte(value)), {low})
    <3>1. DOMAIN s = Register
      BY <2>1 DEF Keeps
    <3> HIDE DEF s, low
    <3>2. QED
      BY <1>1, <3>1
  <2>3. setCombinedRegister(r, rr, value) = setRegister(s, low, getLowByte(value))
    BY DEF setCombinedRegister
  <2> DEFINE t == setRegister(s, low, getLowByte(value))
  <2> HIDE DEF s, t, high, low
  <2>4. Keeps(r, t, {high, low})
    BY <2>1, <2>2 DEF Keeps, t
  <2>5. QED
    BY <2>3, <2>4 DEF t, high, low
<1>4. Keeps(r, r, {})
  BY DEF Keeps
<1>5. QED
  BY <1>1, <1>2, <1>3, <1>4

\* The operations on flags change F alone.
LEMMA FlagsKeep ==
  ASSUME NEW r, DOMAIN r = Register
  PROVE  /\ \A value : Keeps(r, manageResultFlags(r, value), {"F"})
         /\ \A first, second, op, useCarry, modifyCarry :
              Keeps(r, aritmeticFlags(r, first, second, op, useCarry, modifyCarry), {"F"})
<1>1. ASSUME NEW s, NEW t, NEW u, Keeps(s, t, {"F"}), Keeps(t, u, {"F"})
      PROVE  Keeps(s, u, {"F"})
  BY <1>1 DEF Keeps
<1>2. ASSUME NEW s, DOMAIN s = Register, NEW flag, NEW v
      PROVE  Keeps(s, setFlag(s, flag, v), {"F"})
  BY <1>2, SetKeeps
<1>3. ASSUME NEW s, DOMAIN s = Register, NEW value
      PROVE  Keeps(s, manageResultFlags(s, value), {"F"})
  <2> DEFINE zero == manageZeroFlag(s, value)
             even == manageParityFlag(zero, value)
  <2>1. Keeps(s, zero, {"F"})
    BY <1>2, <1>3, Zenon DEF manageZeroFlag
  <2>2. Keeps(zero, even, {"F"})
    <3>1. DOMAIN zero = Register
      BY <2>1 DEF Keeps
    <3> HIDE DEF zero
    <3>2. QED
      BY <1>2, <3>1, Zenon DEF manageParityFlag
  <2>3. Keeps(even, manageSignedFlag(even, value), {"F"})
    <3>1. DOMAIN even = Register
      BY <2>2 DEF Keeps
    <3> HIDE DEF even
    <3>2. QED
      BY <1>2, <3>1, Zenon DEF manageSignedFlag
  <2>4. QED
    BY <1>1, <2>1, <2>2, <2>3, Zenon DEF manageResultFlags
<1>4. ASSUME NEW first, NEW second, NEW op, NEW useCarry, NEW modifyCarry
      PROVE  Keeps(r, aritmeticFlags(r, first, second, op, useCarry, modifyCarry), {"F"})
  <2> DEFINE half == manageAuxilaryCarryFlag(r, first, second, op, useCarry)
             full == manageCarryFlag(half, first, second, op, useCarry)
             carried == IF modifyCarry THEN full ELSE half
             result == aritmeticResult(r, first, second, op, useCarry)
  <2>1. Keeps(r, half, {"F"})
    BY <1>2, Zenon DEF manageAuxilaryCarryFlag
  <2>2. DOMAIN half = Register
    BY <2>1 DEF Keeps
  <2>3. Keeps(half, full, {"F"})
    <3> HIDE DEF half
    <3>1. QED
      BY <1>2, <2>2, Zenon DEF manageCarryFlag
  <2> HIDE DEF full
  <2>4. Keeps(r, full, {"F"})
    BY <1>1, <2>1, <2>3, Zenon
  <2>5. carried = half \/ carried = full
    BY Zenon
  <2>6. Keeps(r, carried, {"F"})
    BY <2>1, <2>4, <2>5, Zenon
  <2>7. aritmeticFlags(r, first, second, op, useCarry, modifyCarry)
          = manageResultFlags(carried, result)
    BY Zenon DEF aritmeticFlags, full
  <2> HIDE DEF carried, result
  <2>8. DOMAIN carried = Register
    BY <2>6 DEF Keeps
  <2>9. QED
    BY <1>1, <1>3, <2>6, <2>7, <2>8, Zenon
<1>5. QED
  BY <1>3, <1>4, Zenon

\* What each operation of the arithmetic and logic unit changes.
LEMMA OperationsKeep ==
  ASSUME NEW r, DOMAIN r = Register, NEW reg
  PROVE  /\ \A op, useCarry, storeResult :
              Keeps(r, AccumulatorArithmetic(r, reg, op, useCarry, storeResult),
                    IF storeResult THEN {"A", "F"} ELSE {"F"})
         /\ \A op : Keeps(r, Increment(r, reg, op), {reg, "F"})
         /\ \A op : Keeps(r, AccumulatorLogic(r, reg, op), {"A", "F"})
         /\ \A direction, rotateThrough :
              Keeps(r, Rotate(r, reg, direction, rotateThrough), {reg, "F"})
<1>1. ASSUME NEW s, Keeps(r, s, {"F"}), NEW target, NEW value
      PROVE  Keeps(r, setRegister(s, target, value), {target, "F"})
  <2>1. Keeps(s, setRegister(s, target, value), {target})
    BY <1>1, SetKeeps DEF Keeps
  <2>2. QED
    BY <1>1, <2>1 DEF Keeps
<1>2. ASSUME NEW op, NEW useCarry, NEW storeResult
      PROVE  Keeps(r, AccumulatorArithmetic(r, reg, op, useCarry, storeResult),
                   IF storeResult THEN {"A", "F"} ELSE {"F"})
  <2> DEFINE a == getRegister(r, "A")
             b == getRegister(r, reg)
             flags == aritmeticFlags(r, a, b, op, useCarry, TRUE)
             result == aritmeticResult(r, a, b, op, useCarry)
  <2>1. Keeps(r, flags, {"F"})
    BY FlagsKeep, Zenon
  <2>2. AccumulatorArithmetic(r, reg, op, useCarry, storeResult)
          = IF storeResult THEN setRegister(flags, "A", result) ELSE flags
    BY Zenon DEF AccumulatorArithmetic
  <2> HIDE DEF flags, result
  <2>3. Keeps(r, setRegister(flags, "A", result), {"A", "F"})
    BY <1>1, <2>1
  <2>4. QED
    BY <2>1, <2>2, <2>3, Zenon
<1>3. ASSUME NEW op PROVE Keeps(r, Increment(r, reg, op), {reg, "F"})
  <2> DEFINE v == getRegister(r, reg)
             flags == aritmeticFlags(r, v, 1, op, FALSE, FALSE)
             result == aritmeticResult(r, v, 1, op, FALSE)
  <2>1. Keeps(r, flags, {"F"})
    BY FlagsKeep, Zenon
  <2>2. Increment(r, reg, op) = setRegister(flags, reg, result)
    BY Zenon DEF Increment
  <2> HIDE DEF flags, result
  <2>3. QED
    BY <1>1, <2>1, <2>2
<1>4. ASSUME NEW op PROVE Keeps(r, AccumulatorLogic(r, reg, op), {"A", "F"})
  <2> DEFINE result  == logicResult(getRegister(r, "A"), getRegister(r, reg), op)
             flags   == manageResultFlags(r, result)
             cleared == setFlag(flags, "CY", FALSE)
             marked  == setFlag(cleared, "AC", op = "AND")
  <2>1. AccumulatorLogic(r, reg, op) = setRegister(marked, "A", result)
    BY Zenon DEF AccumulatorLogic
  <2> HIDE DEF result
  <2>2. Keeps(r, flags, {"F"})
    BY FlagsKeep
  <2>3. ASSUME NEW s, Keeps(r, s, {"F"}), NEW flag, NEW v
        PROVE  Keeps(r, setFlag(s, flag, v), {"F"})
    <3>1. Keeps(s, setFlag(s, flag, v), {"F"})
      BY <2>3, SetKeeps DEF Keeps
    <3>2. QED
      BY <2>3, <3>1 DEF Keeps
  <2> HIDE DEF flags
  <2>4. Keeps(r, cleared, {"F"})
    BY <2>2, <2>3, Zenon
  <2> HIDE DEF cleared
  <2>5. Keeps(r, marked, {"F"})
    BY <2>3, <2>4, Zenon
  <2> HIDE DEF marked
  <2>6. QED
    BY <1>1, <2>1, <2>5
<1>5. ASSUME NEW direction, NEW rotateThrough
      PROVE  Keeps(r, Rotate(r, reg, direction, rotateThrough), {reg, "F"})
  <2> DEFINE value    == getRegister(r, reg)
             exitBit  == getBit(value, exitBitPosition(direction))
             shifted  == IF direction = "RIGHT" THEN value \div 2 ELSE ToByte(2 * value)
             entryBit == IF rotateThrough THEN getFlag(r, "CY") ELSE exitBit
             turned   == setBit(shifted, entryBitPosition(direction), entryBit)
             file     == setFlag(r, "CY", exitBit)
  <2>1. Keeps(r, file, {"F"})
    BY SetKeeps, Zenon
  <2>2. Rotate(r, reg, direction, rotateThrough) = setRegister(file, reg, turned)
    BY Zenon DEF Rotate
  <2> HIDE DEF file, turned
  <2>3. QED
    BY <1>1, <2>1, <2>2
<1>6. QED
  BY <1>2, <1>3, <1>4, <1>5, Zenon

\* DAA (Fake8080.cpp:191-216).
LEMMA AdjustKeeps ==
  ASSUME NEW r, DOMAIN r = Register
  PROVE  Keeps(r, DecimalAdjust(r), {"A", "F"})
<1> DEFINE carry  == DaaCarry(r)
           result == IF carry THEN ToByte(DaaLow(r) + 96) ELSE DaaLow(r)
           stored == setRegister(r, "A", result)
           carried == setFlag(stored, "CY", carry)
<1>1. DecimalAdjust(r) = manageResultFlags(carried, result)
  BY Zenon DEF DecimalAdjust
<1> HIDE DEF carry, result
<1>2. Keeps(r, stored, {"A"})
  BY SetKeeps
<1>3. Keeps(stored, carried, {"F"})
  <2>1. DOMAIN stored = Register
    BY <1>2 DEF Keeps
  <2> HIDE DEF stored
  <2>2. QED
    BY <2>1, SetKeeps, Zenon
<1>4. Keeps(carried, manageResultFlags(carried, result), {"F"})
  BY <1>3, FlagsKeep DEF Keeps
<1> HIDE DEF stored, carried
<1>5. QED
  BY <1>1, <1>2, <1>3, <1>4 DEF Keeps

\* DAD (Fake8080.hpp:544-561).
LEMMA DoubleAddKeeps ==
  ASSUME NEW r, DOMAIN r = Register, NEW rr
  PROVE  Keeps(r, DoubleAdd(r, rr), {"H", "L", "F"})
<1> DEFINE high == getCombinedRegister(r, "HL")
           sum  == ToWord(high + getCombinedRegister(r, rr))
           carried == setFlag(r, "CY", sum < high)
<1>1. DoubleAdd(r, rr) = setCombinedRegister(carried, "HL", sum)
  BY Zenon DEF DoubleAdd
<1>2. Keeps(r, carried, {"F"})
  BY SetKeeps, Zenon
<1> HIDE DEF sum, carried
<1>3. RegisterPairs["HL"] = <<"H", "L">> /\ "HL" \in CombinedRegister
  BY DEF RegisterPairs, CombinedRegister
<1>4. Keeps(carried, setCombinedRegister(carried, "HL", sum), {"H", "L"})
  BY <1>2, <1>3, SetKeeps DEF Keeps
<1>5. QED
  BY <1>1, <1>2, <1>4 DEF Keeps
=============================================================================
