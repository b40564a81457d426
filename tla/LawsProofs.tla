----------------------------- MODULE LawsProofs -----------------------------
(***************************************************************************)
(* The laws of the arithmetic, for every register file the CPU can have,   *)
(* and the table as the encoding, as theorems of the specifications the    *)
(* runs check.  The bits of F first: a flag reads back what was written to *)
(* it and no other flag moves.  Then the numbers: a wrapped byte and its   *)
(* carry hold the exact sum.  The laws put the two together.  Logic is     *)
(* argued bit by bit; rotations as steps of a ring of eight or nine bits;  *)
(* decimals digit by digit; the counts of the table by the same groups of  *)
(* opcodes as its entries.                                                 *)
(***************************************************************************)
EXTENDS AluLaws, OpcodeEncoding, OpcodeTableProofs

\* The bits of a byte, read off its weights.
BitsOf(value) == [q \in BitPosition |-> Bit(value, q)]

\* The bits of a byte are zeros and ones.
LEMMA BitsOfType ==
  ASSUME NEW value \in Byte
  PROVE  BitsOf(value) \in [BitPosition -> {0, 1}]
BY BitType DEF BitsOf

\* A byte is the number its bits write.
LEMMA ByteIsBits ==
  ASSUME NEW value \in Byte
  PROVE  FromBits(BitsOf(value)) = value
<1>1. value \in Int /\ 0 <= value /\ value <= 255
  BY ByteRange
<1>2. /\ value = 2 * (value \div 2) + (value % 2)
      /\ value \div 2 = 2 * (value \div 4) + ((value \div 2) % 2)
      /\ value \div 4 = 2 * (value \div 8) + ((value \div 4) % 2)
      /\ value \div 8 = 2 * (value \div 16) + ((value \div 8) % 2)
  BY <1>1
<1>3. /\ value \div 16 = 2 * (value \div 32) + ((value \div 16) % 2)
      /\ value \div 32 = 2 * (value \div 64) + ((value \div 32) % 2)
      /\ value \div 64 = 2 * (value \div 128) + ((value \div 64) % 2)
      /\ value \div 128 = (value \div 128) % 2
  BY <1>1
<1> DEFINE d == BitsOf(value)
<1>4. /\ d[0] = value % 2 /\ d[1] = (value \div 2) % 2
      /\ d[2] = (value \div 4) % 2 /\ d[3] = (value \div 8) % 2
      /\ d[4] = (value \div 16) % 2 /\ d[5] = (value \div 32) % 2
      /\ d[6] = (value \div 64) % 2 /\ d[7] = (value \div 128) % 2
  BY <1>1, WeightValues DEF BitsOf, Bit, BitPosition
<1> HIDE DEF d
<1>5. QED
  BY <1>1, <1>2, <1>3, <1>4 DEF FromBits, d

\* The bits of a number written in binary are its digits.
LEMMA BitsOfNumber ==
  ASSUME NEW f \in [BitPosition -> {0, 1}], NEW q \in BitPosition
  PROVE  Bit(FromBits(f), q) = f[q]
<1>1. /\ f[0] \in {0, 1} /\ f[1] \in {0, 1} /\ f[2] \in {0, 1} /\ f[3] \in {0, 1}
      /\ f[4] \in {0, 1} /\ f[5] \in {0, 1} /\ f[6] \in {0, 1} /\ f[7] \in {0, 1}
  BY DEF BitPosition
<1>2. q = 0 => (FromBits(f) \div 1) % 2 = f[0]
  BY <1>1 DEF FromBits
<1>3. (FromBits(f) \div 2) % 2 = f[1]
  BY <1>1 DEF FromBits
<1>4. (FromBits(f) \div 4) % 2 = f[2]
  BY <1>1 DEF FromBits
<1>5. (FromBits(f) \div 8) % 2 = f[3]
  BY <1>1 DEF FromBits
<1>6. (FromBits(f) \div 16) % 2 = f[4]
  BY <1>1 DEF FromBits
<1>7. (FromBits(f) \div 32) % 2 = f[5]
  BY <1>1 DEF FromBits
<1>8. (FromBits(f) \div 64) % 2 = f[6]
  BY <1>1 DEF FromBits
<1>9. (FromBits(f) \div 128) % 2 = f[7]
  BY <1>1 DEF FromBits
<1>10. QED
  BY <1>2, <1>3, <1>4, <1>5, <1>6, <1>7, <1>8, <1>9, WeightValues DEF Bit

\* Writing a bit writes that bit alone (BitsUtilities.hpp:28-42).
LEMMA BitAfterSet ==
  ASSUME NEW value \in Byte, NEW p \in BitPosition, NEW state \in BOOLEAN,
         NEW q \in BitPosition
  PROVE  /\ q = p => (getBit(setBit(value, p, state), q) <=> state)
         /\ q # p => (getBit(setBit(value, p, state), q) <=> getBit(value, q))
<1> DEFINE cleared(w) == value - w * ((value \div w) % 2)
           Read(n, x) == (n \div x) % 2
           Writes(w, x) ==
             /\ cleared(w) \in Int
             /\ Read(cleared(w), x) = IF x = w THEN 0 ELSE Read(value, x)
             /\ Read(cleared(w) + w, x) = IF x = w THEN 1 ELSE Read(value, x)
<1>0. value \in Int /\ 0 <= value /\ value <= 255
  BY ByteRange
<1>1. /\ Writes(1, 1) /\ Writes(1, 2) /\ Writes(1, 4) /\ Writes(1, 8)
      /\ Writes(1, 16) /\ Writes(1, 32) /\ Writes(1, 64) /\ Writes(1, 128)
  <2>1. /\ value \div 1 = value
        /\ (value - (value % 2)) \div 1 = value - (value % 2)
        /\ (value - (value % 2) + 1) \div 1 = value - (value % 2) + 1
    BY <1>0
  <2>2. Writes(1, 1)
    BY <1>0, <2>1
  <2>3. Writes(1, 2) /\ Writes(1, 4) /\ Writes(1, 8)
    BY <1>0, <2>1
  <2>4. Writes(1, 16) /\ Writes(1, 32) /\ Writes(1, 64) /\ Writes(1, 128)
    BY <1>0, <2>1
  <2>5. QED
    BY <2>2, <2>3, <2>4
<1>2. /\ Writes(2, 1) /\ Writes(2, 2) /\ Writes(2, 4) /\ Writes(2, 8)
      /\ Writes(2, 16) /\ Writes(2, 32) /\ Writes(2, 64) /\ Writes(2, 128)
  BY <1>0, SMTT(40)
<1>3. /\ Writes(4, 1) /\ Writes(4, 2) /\ Writes(4, 4) /\ Writes(4, 8)
      /\ Writes(4, 16) /\ Writes(4, 32) /\ Writes(4, 64) /\ Writes(4, 128)
  BY <1>0, SMTT(40)
<1>4. /\ Writes(8, 1) /\ Writes(8, 2) /\ Writes(8, 4) /\ Writes(8, 8)
      /\ Writes(8, 16) /\ Writes(8, 32) /\ Writes(8, 64) /\ Writes(8, 128)
  BY <1>0
<1>5. /\ Writes(16, 1) /\ Writes(16, 2) /\ Writes(16, 4) /\ Writes(16, 8)
      /\ Writes(16, 16) /\ Writes(16, 32) /\ Writes(16, 64) /\ Writes(16, 128)
  BY <1>0
<1>6. /\ Writes(32, 1) /\ Writes(32, 2) /\ Writes(32, 4) /\ Writes(32, 8)
      /\ Writes(32, 16) /\ Writes(32, 32) /\ Writes(32, 64) /\ Writes(32, 128)
  BY <1>0
<1>7. /\ Writes(64, 1) /\ Writes(64, 2) /\ Writes(64, 4) /\ Writes(64, 8)
      /\ Writes(64, 16) /\ Writes(64, 32) /\ Writes(64, 64) /\ Writes(64, 128)
  BY <1>0
<1>8. /\ Writes(128, 1) /\ Writes(128, 2) /\ Writes(128, 4) /\ Writes(128, 8)
      /\ Writes(128, 16) /\ Writes(128, 32) /\ Writes(128, 64) /\ Writes(128, 128)
  BY <1>0
<1> HIDE DEF cleared, Read, Writes
<1>9. \A w, x \in {1, 2, 4, 8, 16, 32, 64, 128} : Writes(w, x)
  <2> TAKE w, x \in {1, 2, 4, 8, 16, 32, 64, 128}
  <2>1. w \in {1, 2, 4, 8} => Writes(w, x)
    BY <1>1, <1>2, <1>3, <1>4
  <2>2. w \in {16, 32, 64, 128} => Writes(w, x)
    BY <1>5, <1>6, <1>7, <1>8
  <2>3. QED
    BY <2>1, <2>2
<1>10. Writes(Weight(p), Weight(q))
  BY <1>9, WeightValues
<1>11. Weight(p) = Weight(q) <=> p = q
  BY WeightValues
<1>12. /\ Bit(value, q) = Read(value, Weight(q))
       /\ Bit(setBit(value, p, state), q) = Read(setBit(value, p, state), Weight(q))
       /\ state => setBit(value, p, state) = cleared(Weight(p)) + Weight(p)
       /\ ~state => setBit(value, p, state) = cleared(Weight(p)) + 0
  BY DEF Bit, setBit, Read, cleared
<1>13. CASE state
  BY <1>10, <1>11, <1>12, <1>13 DEF Writes, getBit
<1>14. CASE ~state
  BY <1>10, <1>11, <1>12, <1>14 DEF Writes, getBit
<1>15. QED
  BY <1>13, <1>14

\* Writing a flag writes its bit of F, and sets bit 1 (Registers.cpp:35-38).
LEMMA BitsAfterFlag ==
  ASSUME NEW file \in File, NEW flag \in Flags, NEW value \in BOOLEAN,
         NEW q \in BitPosition
  PROVE  LET after == setFlag(file, flag, value)["F"]
         IN  /\ q = 1 => getBit(after, q)
             /\ q = FlagsShifts[flag] => (getBit(after, q) <=> value)
             /\ q # 1 /\ q # FlagsShifts[flag] =>
                  (getBit(after, q) <=> getBit(file["F"], q))
<1> DEFINE shift == FlagsShifts[flag]
           once  == setBit(file["F"], shift, value)
           after == setFlag(file, flag, value)["F"]
<1>1. file["F"] \in Byte /\ shift \in BitPosition /\ shift # 1 /\ 1 \in BitPosition
  BY ReadersType, PairsAndShifts DEF Register, BitPosition
<1>2. once \in Byte
  BY <1>1, SetBitType
<1>3. /\ q = shift => (getBit(once, q) <=> value)
      /\ q # shift => (getBit(once, q) <=> getBit(file["F"], q))
  BY <1>1, BitAfterSet
<1>4. after = setBit(once, 1, TRUE)
  BY DEF setFlag, File, RegisterFile, Register
<1> HIDE DEF once, shift, after
<1>5. /\ q = 1 => getBit(after, q)
      /\ q # 1 => (getBit(after, q) <=> getBit(once, q))
  <2> DEFINE yes == TRUE
  <2>1. yes \in BOOLEAN /\ yes /\ after = setBit(once, 1, yes)
    BY <1>4
  <2> HIDE DEF yes
  <2>2. QED
    BY <1>1, <1>2, <2>1, BitAfterSet
<1>6. QED
  BY <1>1, <1>3, <1>5 DEF shift, after

\* A flag reads back what was written to it, and no other flag moves.
LEMMA FlagAfterSet ==
  ASSUME NEW file \in File, NEW flag \in Flags, NEW value \in BOOLEAN,
         NEW other \in Flags
  PROVE  /\ getFlag(setFlag(file, flag, value), flag) <=> value
         /\ other # flag =>
              (getFlag(setFlag(file, flag, value), other) <=> getFlag(file, other))
<1>1. /\ FlagsShifts[other] \in BitPosition /\ FlagsShifts[other] # 1
      /\ FlagsShifts[flag] \in BitPosition
  BY PairsAndShifts
<1>2. other # flag => FlagsShifts[other] # FlagsShifts[flag]
  BY DEF Flags, FlagsShifts
<1>3. QED
  BY <1>1, <1>2, BitsAfterFlag DEF getFlag, getRegister

\* Setting another register than F moves no flag (Registers.cpp:16-23).
LEMMA FlagsElsewhere ==
  ASSUME NEW file \in File, NEW reg \in Register \ {"F"}, NEW value
  PROVE  \A flag : getFlag(setRegister(file, reg, value), flag) <=> getFlag(file, flag)
<1>1. setRegister(file, reg, value)["F"] = file["F"]
  BY DEF setRegister, File, RegisterFile, Register
<1>2. QED
  BY <1>1, Zenon DEF getFlag, getRegister

\* Z, P and S describe the result; CY and AC stay (Fake8080.cpp:90-105).
LEMMA ResultFlagValues ==
  ASSUME NEW file \in File, NEW value \in Byte
  PROVE  LET after == manageResultFlags(file, value)
         IN  /\ getFlag(after, "Z") <=> (value = 0)
             /\ getFlag(after, "P") <=> BitCount(value) % 2 = 0
             /\ getFlag(after, "S") <=> value \div 128 # 0
             /\ getFlag(after, "CY") <=> getFlag(file, "CY")
             /\ getFlag(after, "AC") <=> getFlag(file, "AC")
<1> DEFINE zero == value = 0
           even == BitCount(value) % 2 = 0
           sign == value \div 128 # 0
           one  == setFlag(file, "Z", zero)
           two  == setFlag(one, "P", even)
           after == setFlag(two, "S", sign)
<1>1. zero \in BOOLEAN /\ even \in BOOLEAN /\ sign \in BOOLEAN
  OBVIOUS
<1>2. manageResultFlags(file, value) = after
  BY Zenon DEF manageResultFlags, manageZeroFlag, manageParityFlag, manageSignedFlag
<1> HIDE DEF zero, even, sign
<1>3. /\ "Z" \in Flags /\ "P" \in Flags /\ "S" \in Flags
      /\ "CY" \in Flags /\ "AC" \in Flags
  BY DEF Flags
<1>4. one \in File
  BY <1>1, <1>3, SetFlagType
<1> HIDE DEF one
<1>5. two \in File
  BY <1>1, <1>3, <1>4, SetFlagType
<1> HIDE DEF two
<1>6. /\ getFlag(one, "Z") <=> zero
      /\ getFlag(one, "CY") <=> getFlag(file, "CY")
      /\ getFlag(one, "AC") <=> getFlag(file, "AC")
  BY <1>1, <1>3, FlagAfterSet DEF one
<1>7. /\ getFlag(two, "P") <=> even
      /\ getFlag(two, "Z") <=> getFlag(one, "Z")
      /\ getFlag(two, "CY") <=> getFlag(one, "CY")
      /\ getFlag(two, "AC") <=> getFlag(one, "AC")
  BY <1>1, <1>3, <1>4, FlagAfterSet DEF two
<1>8. /\ getFlag(after, "S") <=> sign
      /\ getFlag(after, "P") <=> getFlag(two, "P")
      /\ getFlag(after, "Z") <=> getFlag(two, "Z")
      /\ getFlag(after, "CY") <=> getFlag(two, "CY")
      /\ getFlag(after, "AC") <=> getFlag(two, "AC")
  BY <1>1, <1>3, <1>5, FlagAfterSet
<1> HIDE DEF after
<1>9. QED
  BY <1>2, <1>6, <1>7, <1>8 DEF zero, even, sign

\* The carry, or borrow, out of bit 7 and out of bit 3.
CarryOut(op, x, y, c) == IF op = "ADD" THEN x + y + c > 255 ELSE x < y + c

HalfCarryOut(op, x, y, c) ==
  IF op = "ADD" THEN (x % 16) + (y % 16) + c > 15 ELSE x % 16 < (y % 16) + c

\* The flags after an 8-bit operation.
FlagsTell(after, file, first, second, op, useCarry, modifyCarry) ==
  LET c     == carryValue(file, useCarry)
      value == aritmeticResult(file, first, second, op, useCarry)
  IN  /\ getFlag(after, "AC") <=> HalfCarryOut(op, first, second, c)
      /\ modifyCarry => (getFlag(after, "CY") <=> CarryOut(op, first, second, c))
      /\ ~modifyCarry => (getFlag(after, "CY") <=> getFlag(file, "CY"))
      /\ getFlag(after, "Z") <=> value = 0
      /\ getFlag(after, "P") <=> BitCount(value) % 2 = 0
      /\ getFlag(after, "S") <=> value \div 128 # 0

\* The flags of an 8-bit operation: both carries are computed from the CY that
\* comes in (Fake8080.cpp:107-155).
LEMMA ArithmeticFlagValues ==
  ASSUME NEW file \in File, NEW first \in Byte, NEW second \in Byte,
         NEW op, NEW useCarry, NEW modifyCarry \in BOOLEAN
  PROVE  FlagsTell(aritmeticFlags(file, first, second, op, useCarry, modifyCarry),
                   file, first, second, op, useCarry, modifyCarry)
<1> DEFINE c     == carryValue(file, useCarry)
           value == aritmeticResult(file, first, second, op, useCarry)
           after == aritmeticFlags(file, first, second, op, useCarry, modifyCarry)
           half  == HalfCarryOut(op, first, second, c)
           carry == CarryOut(op, first, second, c)
           one   == setFlag(file, "AC", half)
           two   == IF modifyCarry THEN setFlag(one, "CY", carry) ELSE one
<1>1. half \in BOOLEAN /\ carry \in BOOLEAN
  <2>1. /\ (first + second + c > 255) \in BOOLEAN
        /\ (first < second + c) \in BOOLEAN
        /\ ((first % 16) + (second % 16) + c > 15) \in BOOLEAN
        /\ (first % 16 < (second % 16) + c) \in BOOLEAN
    OBVIOUS
  <2>2. QED
    BY <2>1, Zenon DEF HalfCarryOut, CarryOut
<1>2. "CY" \in Flags /\ "AC" \in Flags /\ value \in Byte
  BY ArithmeticType DEF Flags
<1>3. manageAuxilaryCarryFlag(file, first, second, op, useCarry) = one
  BY Zenon DEF manageAuxilaryCarryFlag, HalfCarryOut
<1> HIDE DEF half
<1>4. /\ one \in File
      /\ getFlag(one, "AC") <=> half
      /\ getFlag(one, "CY") <=> getFlag(file, "CY")
  BY <1>1, <1>2, SetFlagType, FlagAfterSet
<1> HIDE DEF one
<1>5. carryValue(one, useCarry) = c
  BY <1>4 DEF carryValue
<1>6. manageCarryFlag(one, first, second, op, useCarry) = setFlag(one, "CY", carry)
  BY <1>5, Zenon DEF manageCarryFlag, CarryOut
<1>7. after = manageResultFlags(two, value)
  BY <1>3, <1>6, Zenon DEF aritmeticFlags
<1> HIDE DEF carry, value, after
<1>8. /\ two \in File
      /\ getFlag(two, "AC") <=> half
      /\ modifyCarry => (getFlag(two, "CY") <=> carry)
      /\ ~modifyCarry => (getFlag(two, "CY") <=> getFlag(file, "CY"))
  BY <1>1, <1>2, <1>4, SetFlagType, FlagAfterSet
<1> HIDE DEF two
<1>9. /\ getFlag(after, "AC") <=> half
      /\ modifyCarry => (getFlag(after, "CY") <=> carry)
      /\ ~modifyCarry => (getFlag(after, "CY") <=> getFlag(file, "CY"))
      /\ getFlag(after, "Z") <=> (value = 0)
      /\ getFlag(after, "P") <=> BitCount(value) % 2 = 0
      /\ getFlag(after, "S") <=> value \div 128 # 0
  BY <1>2, <1>7, <1>8, ResultFlagValues
<1>10. QED
  BY <1>9, Zenon DEF half, carry, value, after, FlagsTell

-----------------------------------------------------------------------------
\* The parity of a sum of three numbers, and of what is left of it.
LEMMA ThirdParity ==
  ASSUME NEW x \in Int, NEW y \in Int, NEW h \in {0, 1}
  PROVE  /\ h = ((x % 2) + (y % 2) + ((x + y + h) % 2)) % 2
         /\ h = ((x % 2) + (y % 2) + ((x - (y + h)) % 2)) % 2
<1>1. x = 2 * (x \div 2) + (x % 2) /\ x \div 2 \in Int /\ x % 2 \in {0, 1}
  OBVIOUS
<1>2. y = 2 * (y \div 2) + (y % 2) /\ y \div 2 \in Int /\ y % 2 \in {0, 1}
  OBVIOUS
<1>3. QED
  BY <1>1, <1>2

\* The fifth bit of a wrapped sum or difference of nibbles and their carry.
LEMMA FifthBit ==
  ASSUME NEW high \in Int, NEW low \in 0 .. 15
  PROVE  (ToByte(16 * high + low) \div 16) % 2 = high % 2
<1>1. high = 16 * (high \div 16) + (high % 16) /\ high \div 16 \in Int
        /\ high % 16 \in 0 .. 15
  OBVIOUS
<1>2. ToByte(16 * high + low) = 16 * (high % 16) + low
  BY <1>1 DEF ToByte
<1>3. ToByte(16 * high + low) \div 16 = high % 16
  BY <1>1, <1>2
<1>4. (high % 16) % 2 = high % 2
  BY <1>1
<1>5. QED
  BY <1>3, <1>4

\* A wrapped sum or difference of bytes and its carry or borrow, as numbers.
ExactSum(x, y, c, carry, value) == 256 * carry + value = x + y + c

ExactDifference(x, y, c, borrow, value) == value - 256 * borrow = x - y - c

\* A carry as a number.
Number(condition) == IF condition THEN 1 ELSE 0

\* A byte and its carry together are exact.
LEMMA WrapExact ==
  ASSUME NEW x \in Byte, NEW y \in Byte, NEW c \in {0, 1}
  PROVE  /\ ExactSum(x, y, c, Number(CarryOut("ADD", x, y, c)), ToByte(x + (y + c)))
         /\ ExactDifference(x, y, c, Number(CarryOut("SUB", x, y, c)),
                            ToByte(x - (y + c)))
<1>1. \A n \in Int :
        /\ (0 <= n /\ n <= 255) => n % 256 = n
        /\ (256 <= n /\ n <= 511) => n % 256 = n - 256
        /\ (-256 <= n /\ n < 0) => n % 256 = n + 256
  OBVIOUS
<1>2. /\ x \in Int /\ 0 <= x /\ x <= 255
      /\ y \in Int /\ 0 <= y /\ y <= 255
  BY ByteRange
<1>3. 256 * (IF x + y + c > 255 THEN 1 ELSE 0) + ((x + (y + c)) % 256) = x + y + c
  BY <1>1, <1>2
<1>4. ((x - (y + c)) % 256) - 256 * (IF x < y + c THEN 1 ELSE 0) = x - y - c
  BY <1>1, <1>2
<1>5. QED
  BY <1>3, <1>4 DEF ToByte, ExactSum, ExactDifference, Number, CarryOut

\* The half carry of a sum is the carry into bit 4, of a difference the borrow
\* from it.
LEMMA HalfCarries ==
  ASSUME NEW x \in Byte, NEW y \in Byte, NEW c \in {0, 1}
  PROVE  LET sum == ToByte(x + (y + c))
             difference == ToByte(x - (y + c))
         IN  /\ Number(HalfCarryOut("ADD", x, y, c))
                  = (Bit(x, 4) + Bit(y, 4) + Bit(sum, 4)) % 2
             /\ Number(HalfCarryOut("SUB", x, y, c))
                  = (Bit(x, 4) + Bit(y, 4) + Bit(difference, 4)) % 2
<1> DEFINE xh == x \div 16
           xl == x % 16
           yh == y \div 16
           yl == y % 16
           over  == Number(HalfCarryOut("ADD", x, y, c))
           under == Number(HalfCarryOut("SUB", x, y, c))
           sum == ToByte(x + (y + c))
           difference == ToByte(x - (y + c))
<1>1. /\ x = 16 * xh + xl /\ xh \in Int /\ xl \in 0 .. 15
      /\ y = 16 * yh + yl /\ yh \in Int /\ yl \in 0 .. 15
  <2>1. x \in Int /\ y \in Int
    BY ByteRange
  <2>2. x = 16 * xh + xl /\ xh \in Int /\ xl \in 0 .. 15
    BY <2>1
  <2>3. y = 16 * yh + yl /\ yh \in Int /\ yl \in 0 .. 15
    BY <2>1
  <2>4. QED
    BY <2>2, <2>3
<1>2. /\ over = IF xl + yl + c > 15 THEN 1 ELSE 0
      /\ under = IF xl < yl + c THEN 1 ELSE 0
  BY DEF Number, HalfCarryOut
<1>3. Weight(4) = 16
  BY DEF Weight
<1> HIDE DEF xh, xl, yh, yl, over, under
<1>4. /\ over \in {0, 1} /\ xl + yl + c - 16 * over \in 0 .. 15
      /\ x + (y + c) = 16 * (xh + yh + over) + (xl + yl + c - 16 * over)
  BY <1>1, <1>2
<1>5. /\ under \in {0, 1} /\ xl - (yl + c) + 16 * under \in 0 .. 15
      /\ x - (y + c) = 16 * (xh - (yh + under)) + (xl - (yl + c) + 16 * under)
  BY <1>1, <1>2
<1>6. (sum \div 16) % 2 = (xh + yh + over) % 2
  <2> DEFINE high == xh + yh + over
             low  == xl + yl + c - 16 * over
  <2>1. high \in Int /\ low \in 0 .. 15 /\ sum = ToByte(16 * high + low)
    BY <1>1, <1>4
  <2> HIDE DEF high, low, sum
  <2>2. (sum \div 16) % 2 = high % 2
    BY <2>1, FifthBit
  <2>3. QED
    BY <2>2 DEF high
<1>7. (difference \div 16) % 2 = (xh - (yh + under)) % 2
  <2> DEFINE high == xh - (yh + under)
             low  == xl - (yl + c) + 16 * under
  <2>1. high \in Int /\ low \in 0 .. 15 /\ difference = ToByte(16 * high + low)
    BY <1>1, <1>5
  <2> HIDE DEF high, low, difference
  <2>2. (difference \div 16) % 2 = high % 2
    BY <2>1, FifthBit
  <2>3. QED
    BY <2>2 DEF high
<1> HIDE DEF sum, difference
<1>8. over = (Bit(x, 4) + Bit(y, 4) + Bit(sum, 4)) % 2
  <2>1. over = ((xh % 2) + (yh % 2) + ((xh + yh + over) % 2)) % 2
    BY <1>1, <1>4, ThirdParity
  <2>2. Bit(x, 4) + Bit(y, 4) + Bit(sum, 4) = (xh % 2) + (yh % 2) + ((sum \div 16) % 2)
    BY <1>3 DEF Bit, xh, yh
  <2>3. Bit(x, 4) + Bit(y, 4) + Bit(sum, 4) = (xh % 2) + (yh % 2) + ((xh + yh + over) % 2)
    BY <1>6, <2>2, Zenon
  <2>4. QED
    BY <2>1, <2>3, Zenon
<1>9. under = (Bit(x, 4) + Bit(y, 4) + Bit(difference, 4)) % 2
  <2>1. under = ((xh % 2) + (yh % 2) + ((xh - (yh + under)) % 2)) % 2
    BY <1>1, <1>5, ThirdParity
  <2>2. Bit(x, 4) + Bit(y, 4) + Bit(difference, 4)
          = (xh % 2) + (yh % 2) + ((difference \div 16) % 2)
    BY <1>3 DEF Bit, xh, yh
  <2>3. Bit(x, 4) + Bit(y, 4) + Bit(difference, 4)
          = (xh % 2) + (yh % 2) + ((xh - (yh + under)) % 2)
    BY <1>7, <2>2, Zenon
  <2>4. QED
    BY <2>1, <2>3, Zenon
<1>10. QED
  BY <1>8, <1>9 DEF over, under, sum, difference

-----------------------------------------------------------------------------
\* What an arithmetic instruction leaves, with its result stored and without.
ArithmeticDone(file, reg, op, useCarry, stored, tested) ==
  LET a     == file["A"]
      b     == file[reg]
      c     == carryValue(file, useCarry)
      value == aritmeticResult(file, a, b, op, useCarry)
  IN  /\ value \in Byte
      /\ stored \in File
      /\ tested \in File
      /\ stored = setRegister(tested, "A", value)
      /\ stored["A"] = value
      /\ \A other \in Register \ {"F"} : tested[other] = file[other]
      /\ \A flag : getFlag(stored, flag) <=> getFlag(tested, flag)
      /\ getFlag(tested, "Z") <=> value = 0
      /\ getFlag(tested, "AC") <=> HalfCarryOut(op, a, b, c)
      /\ getFlag(tested, "CY") <=> CarryOut(op, a, b, c)

\* An arithmetic instruction on the accumulator: the carries are those of the
\* exact sum or difference, and the result goes to A or nowhere
\* (Fake8080.hpp:570-583).
LEMMA AccumulatorValues ==
  ASSUME NEW file \in File, NEW reg \in Register, NEW op, NEW useCarry
  PROVE  ArithmeticDone(file, reg, op, useCarry,
                        AccumulatorArithmetic(file, reg, op, useCarry, TRUE),
                        AccumulatorArithmetic(file, reg, op, useCarry, FALSE))
<1> DEFINE a     == file["A"]
           b     == file[reg]
           c     == carryValue(file, useCarry)
           value == aritmeticResult(file, a, b, op, useCarry)
           yes == TRUE
           flags == aritmeticFlags(file, a, b, op, useCarry, yes)
           stored == AccumulatorArithmetic(file, reg, op, useCarry, TRUE)
           tested == AccumulatorArithmetic(file, reg, op, useCarry, FALSE)
<1>1. a \in Byte /\ b \in Byte
  BY ReadersType DEF Register
<1>2. tested = flags /\ stored = setRegister(flags, "A", value)
  BY Zenon DEF AccumulatorArithmetic, getRegister
<1>3. yes \in BOOLEAN /\ yes
  OBVIOUS
<1>4. DOMAIN file = Register
  BY DEF File, RegisterFile
<1> HIDE DEF a, b, yes
<1>5. Keeps(file, flags, {"F"})
  BY <1>4, FlagsKeep, Zenon
<1>6. value \in Byte /\ flags \in File
  BY <1>1, <1>3, ArithmeticType
<1>7. /\ getFlag(flags, "AC") <=> HalfCarryOut(op, a, b, c)
      /\ yes => (getFlag(flags, "CY") <=> CarryOut(op, a, b, c))
      /\ getFlag(flags, "Z") <=> value = 0
  <2>1. FlagsTell(flags, file, a, b, op, useCarry, yes)
    BY <1>1, <1>3, ArithmeticFlagValues, Zenon
  <2> HIDE DEF flags
  <2>2. QED
    BY <2>1, Zenon DEF FlagsTell
<1> HIDE DEF value, flags, stored, tested
<1>8. "A" \in Register \ {"F"}
  BY DEF Register
<1>9. stored \in File /\ stored["A"] = value
  <2>1. stored = [flags EXCEPT !["A"] = value]
    BY <1>2 DEF setRegister
  <2>2. QED
    BY <1>2, <1>6, <1>8, <2>1, SetRegisterType DEF File, RegisterFile
<1>10. \A flag : getFlag(stored, flag) <=> getFlag(flags, flag)
  BY <1>2, <1>6, <1>8, FlagsElsewhere, Zenon
<1>11. \A other \in Register \ {"F"} : tested[other] = file[other]
  BY <1>2, <1>5 DEF Keeps
<1>12. /\ getFlag(tested, "AC") <=> HalfCarryOut(op, a, b, c)
       /\ getFlag(tested, "CY") <=> CarryOut(op, a, b, c)
       /\ getFlag(tested, "Z") <=> value = 0
  BY <1>2, <1>3, <1>7, Zenon
<1>13. QED
  BY <1>2, <1>6, <1>9, <1>10, <1>11, <1>12, Zenon DEF a, b, value, stored, tested, ArithmeticDone

\* The operands considered are files the CPU can have.
LEMMA OperandIsFile ==
  ASSUME r \in Operands
  PROVE  r \in File
BY OperandsAssumption DEF File

\* The register file looked at is one of the operands.
LEMMA OperandsKept == LawsSpec => [](r \in Operands)
<1>1. LawsInit => r \in Operands
  BY DEF LawsInit
<1>2. r \in Operands /\ [LawsNext]_r => (r \in Operands)'
  BY DEF LawsNext
<1>3. QED
  BY <1>1, <1>2, PTL DEF LawsSpec

\* Sums and differences of A and B, in numbers.
LEMMA ExactCarry ==
  ASSUME r \in File, NEW useCarry
  PROVE  LET a == r["A"]
             b == r["B"]
             c == carryValue(r, useCarry)
             sum == AccumulatorArithmetic(r, "B", "ADD", useCarry, TRUE)
             difference == AccumulatorArithmetic(r, "B", "SUB", useCarry, TRUE)
         IN /\ 256 * FlagBit(sum, "CY") + sum["A"] = a + b + c
            /\ difference["A"] - 256 * FlagBit(difference, "CY") = a - b - c
            /\ FlagBit(sum, "AC") = (Bit(a, 4) + Bit(b, 4) + Bit(sum["A"], 4)) % 2
            /\ FlagBit(difference, "AC")
                 = (Bit(a, 4) + Bit(b, 4) + Bit(difference["A"], 4)) % 2
<1> DEFINE a == r["A"]
           b == r["B"]
           c == carryValue(r, useCarry)
           sum == AccumulatorArithmetic(r, "B", "ADD", useCarry, TRUE)
           difference == AccumulatorArithmetic(r, "B", "SUB", useCarry, TRUE)
<1>1. "B" \in Register /\ a \in Byte /\ b \in Byte /\ c \in {0, 1}
  BY ReadersType, CarryValueType DEF Register
<1>2. /\ getFlag(sum, "AC") <=> HalfCarryOut("ADD", a, b, c)
      /\ getFlag(sum, "CY") <=> CarryOut("ADD", a, b, c)
      /\ sum["A"] = aritmeticResult(r, a, b, "ADD", useCarry)
  <2> DEFINE tested == AccumulatorArithmetic(r, "B", "ADD", useCarry, FALSE)
  <2>1. ArithmeticDone(r, "B", "ADD", useCarry, sum, tested)
    BY <1>1, AccumulatorValues, Zenon
  <2> HIDE DEF sum, tested
  <2>2. QED
    BY <2>1, Zenon DEF ArithmeticDone
<1>3. /\ getFlag(difference, "AC") <=> HalfCarryOut("SUB", a, b, c)
      /\ getFlag(difference, "CY") <=> CarryOut("SUB", a, b, c)
      /\ difference["A"] = aritmeticResult(r, a, b, "SUB", useCarry)
  <2> DEFINE tested == AccumulatorArithmetic(r, "B", "SUB", useCarry, FALSE)
  <2>1. ArithmeticDone(r, "B", "SUB", useCarry, difference, tested)
    BY <1>1, AccumulatorValues, Zenon
  <2> HIDE DEF difference, tested
  <2>2. QED
    BY <2>1, Zenon DEF ArithmeticDone
<1>4. sum["A"] = ToByte(a + (b + c)) /\ difference["A"] = ToByte(a - (b + c))
  BY <1>2, <1>3 DEF aritmeticResult
<1> HIDE DEF a, b, c, sum, difference
<1>5. /\ FlagBit(sum, "CY") = Number(CarryOut("ADD", a, b, c))
      /\ FlagBit(sum, "AC") = Number(HalfCarryOut("ADD", a, b, c))
      /\ FlagBit(difference, "CY") = Number(CarryOut("SUB", a, b, c))
      /\ FlagBit(difference, "AC") = Number(HalfCarryOut("SUB", a, b, c))
  BY <1>2, <1>3, Zenon DEF FlagBit, Number
<1>6. /\ 256 * FlagBit(sum, "CY") + sum["A"] = a + b + c
      /\ difference["A"] - 256 * FlagBit(difference, "CY") = a - b - c
  <2>1. /\ ExactSum(a, b, c, FlagBit(sum, "CY"), sum["A"])
        /\ ExactDifference(a, b, c, FlagBit(difference, "CY"), difference["A"])
    BY <1>1, <1>4, <1>5, WrapExact
  <2>2. QED
    BY <2>1, Zenon DEF ExactSum, ExactDifference
<1>7. /\ FlagBit(sum, "AC") = (Bit(a, 4) + Bit(b, 4) + Bit(sum["A"], 4)) % 2
      /\ FlagBit(difference, "AC")
           = (Bit(a, 4) + Bit(b, 4) + Bit(difference["A"], 4)) % 2
  BY <1>1, <1>4, <1>5, HalfCarries, ZenonT(40)
<1>8. QED
  BY <1>6, <1>7, Zenon DEF a, b, c, sum, difference

\* CY and the accumulator hold the exact sum or difference, and AC the carry
\* into bit 4, for all operands and flags (Fake8080.cpp:107-155).
THEOREM SumsAreExact == LawsSpec => []ArithmeticIsExact
<1>1. r \in Operands => ArithmeticIsExact
  <2> SUFFICES ASSUME r \in Operands PROVE ArithmeticIsExact
    OBVIOUS
  <2>1. r \in File
    BY OperandIsFile
  <2>2. QED
    BY <2>1, ExactCarry, Zenon DEF ArithmeticIsExact, getRegister
<1>2. QED
  BY <1>1, OperandsKept, PTL

\* A comparison subtracts without storing.
LEMMA CompareByFlags ==
  ASSUME r \in File
  PROVE  CompareOrders
<1> DEFINE a == r["A"]
           b == r["B"]
           value == aritmeticResult(r, a, b, "SUB", FALSE)
           compared == AccumulatorArithmetic(r, "B", "SUB", FALSE, FALSE)
           stored   == AccumulatorArithmetic(r, "B", "SUB", FALSE, TRUE)
<1>1. "B" \in Register /\ "A" \in Register \ {"F"} /\ a \in Byte /\ b \in Byte
  BY ReadersType DEF Register
<1>2. ArithmeticDone(r, "B", "SUB", FALSE, stored, compared)
  BY <1>1, AccumulatorValues, Zenon
<1>3. carryValue(r, FALSE) = 0
  BY DEF carryValue
<1> HIDE DEF compared, stored
<1>4. /\ getFlag(compared, "CY") <=> CarryOut("SUB", a, b, 0)
      /\ getFlag(compared, "Z") <=> value = 0
      /\ compared["A"] = a
      /\ compared \in File
      /\ stored = setRegister(compared, "A", value)
  BY <1>1, <1>2, <1>3, Zenon DEF ArithmeticDone
<1>5. CarryOut("SUB", a, b, 0) <=> a < b
  BY <1>1, ByteRange DEF CarryOut
<1>6. value = 0 <=> a = b
  <2>1. value = (a - (b + 0)) % 256
    BY <1>3 DEF aritmeticResult, ToByte
  <2> HIDE DEF value
  <2>2. QED
    BY <1>1, <2>1, ByteRange
<1>7. compared = [stored EXCEPT !["A"] = a]
  <2>1. stored = [compared EXCEPT !["A"] = value]
    BY <1>4 DEF setRegister
  <2> HIDE DEF value
  <2>2. QED
    BY <1>1, <1>4, <2>1 DEF File, RegisterFile
<1>8. QED
  BY <1>4, <1>5, <1>6, <1>7, Zenon DEF CompareOrders, Cmp, Sub, compared, stored

\* CMP tells the unsigned order of all bytes by CY and Z, and changes F only
\* (Fake8080.hpp:570-583).
THEOREM ComparisonOrders == LawsSpec => []CompareOrders
<1>1. r \in Operands => CompareOrders
  BY OperandIsFile, CompareByFlags
<1>2. QED
  BY <1>1, OperandsKept, PTL

\* Two files that agree on every bit are the same.
LEMMA SameFile ==
  ASSUME NEW f \in File, NEW g \in File,
         \A reg \in Register \ {"F"} : f[reg] = g[reg],
         \A q \in BitPosition : getBit(f["F"], q) <=> getBit(g["F"], q)
  PROVE  f = g
<1>1. f["F"] \in Byte /\ g["F"] \in Byte
  BY ReadersType DEF Register
<1>2. \A q \in BitPosition : Bit(f["F"], q) = Bit(g["F"], q)
  <2> SUFFICES ASSUME NEW q \in BitPosition PROVE Bit(f["F"], q) = Bit(g["F"], q)
    OBVIOUS
  <2>1. Bit(f["F"], q) \in {0, 1} /\ Bit(g["F"], q) \in {0, 1}
    BY <1>1, BitType
  <2>2. QED
    BY <2>1 DEF getBit
<1>3. BitsOf(f["F"]) = BitsOf(g["F"])
  BY <1>2 DEF BitsOf
<1>4. f["F"] = g["F"]
  BY <1>1, <1>3, ByteIsBits
<1>5. QED
  BY <1>4 DEF File, RegisterFile

\* Flags are written independently of each other.
LEMMA FlagsCommute ==
  ASSUME NEW file \in File, NEW one \in Flags, NEW two \in Flags,
         NEW v \in BOOLEAN, NEW w \in BOOLEAN
  PROVE  /\ one # two => setFlag(setFlag(file, one, v), two, w)
                           = setFlag(setFlag(file, two, w), one, v)
         /\ setFlag(setFlag(file, one, v), one, w) = setFlag(file, one, w)
<1> DEFINE f1 == setFlag(file, one, v)
           f2 == setFlag(file, two, w)
           f3 == setFlag(file, one, w)
           f12 == setFlag(f1, two, w)
           f21 == setFlag(f2, one, v)
           f13 == setFlag(f1, one, w)
<1>1. f1 \in File /\ f2 \in File /\ f3 \in File
  BY SetFlagType
<1>2. f12 \in File /\ f21 \in File /\ f13 \in File
  BY <1>1, SetFlagType
<1>3. /\ \A reg \in Register \ {"F"} : f12[reg] = file[reg] /\ f21[reg] = file[reg]
      /\ \A reg \in Register \ {"F"} : f13[reg] = file[reg] /\ f3[reg] = file[reg]
  BY DEF setFlag, File, RegisterFile
<1>4. one # two => FlagsShifts[one] # FlagsShifts[two]
  BY DEF Flags, FlagsShifts
<1> HIDE DEF f12, f21, f13
<1>5. ASSUME one # two, NEW q \in BitPosition
      PROVE  getBit(f12["F"], q) <=> getBit(f21["F"], q)
  <2>1. /\ q = 1 => getBit(f12["F"], q)
        /\ q = FlagsShifts[two] => (getBit(f12["F"], q) <=> w)
        /\ q # 1 /\ q # FlagsShifts[two] => (getBit(f12["F"], q) <=> getBit(f1["F"], q))
    BY <1>1, BitsAfterFlag DEF f12
  <2>2. /\ q = 1 => getBit(f1["F"], q)
        /\ q = FlagsShifts[one] => (getBit(f1["F"], q) <=> v)
        /\ q # 1 /\ q # FlagsShifts[one] => (getBit(f1["F"], q) <=> getBit(file["F"], q))
    BY BitsAfterFlag
  <2>3. /\ q = 1 => getBit(f21["F"], q)
        /\ q = FlagsShifts[one] => (getBit(f21["F"], q) <=> v)
        /\ q # 1 /\ q # FlagsShifts[one] => (getBit(f21["F"], q) <=> getBit(f2["F"], q))
    BY <1>1, BitsAfterFlag DEF f21
  <2>4. /\ q = 1 => getBit(f2["F"], q)
        /\ q = FlagsShifts[two] => (getBit(f2["F"], q) <=> w)
        /\ q # 1 /\ q # FlagsShifts[two] => (getBit(f2["F"], q) <=> getBit(file["F"], q))
    BY BitsAfterFlag
  <2> HIDE DEF f1, f2
  <2>5. QED
    BY <1>4, <1>5, <2>1, <2>2, <2>3, <2>4
<1>6. ASSUME NEW q \in BitPosition
      PROVE  getBit(f13["F"], q) <=> getBit(f3["F"], q)
  <2>1. /\ q = 1 => getBit(f13["F"], q)
        /\ q = FlagsShifts[one] => (getBit(f13["F"], q) <=> w)
        /\ q # 1 /\ q # FlagsShifts[one] => (getBit(f13["F"], q) <=> getBit(f1["F"], q))
    BY <1>1, BitsAfterFlag DEF f13
  <2>2. q # 1 /\ q # FlagsShifts[one] => (getBit(f1["F"], q) <=> getBit(file["F"], q))
    BY BitsAfterFlag
  <2>3. /\ q = 1 => getBit(f3["F"], q)
        /\ q = FlagsShifts[one] => (getBit(f3["F"], q) <=> w)
        /\ q # 1 /\ q # FlagsShifts[one] => (getBit(f3["F"], q) <=> getBit(file["F"], q))
    BY BitsAfterFlag
  <2> HIDE DEF f1, f3
  <2>4. QED
    BY <2>1, <2>2, <2>3
<1> HIDE DEF f1, f2, f3
<1>7. one # two => f12 = f21
  BY <1>2, <1>3, <1>5, SameFile
<1>8. f13 = f3
  BY <1>1, <1>2, <1>3, <1>6, SameFile
<1>9. QED
  BY <1>7, <1>8 DEF f1, f2, f3, f12, f21, f13

\* Writing CY before or after the flags of a result is the same.
LEMMA ResultThenCarry ==
  ASSUME NEW file \in File, NEW value \in Byte, NEW v \in BOOLEAN
  PROVE  setFlag(manageResultFlags(file, value), "CY", v)
           = manageResultFlags(setFlag(file, "CY", v), value)
<1> DEFINE zero == value = 0
           even == BitCount(value) % 2 = 0
           sign == value \div 128 # 0
           z == setFlag(file, "Z", zero)
           p == setFlag(z, "P", even)
           carried == setFlag(file, "CY", v)
           cz == setFlag(carried, "Z", zero)
           cp == setFlag(cz, "P", even)
<1>1. zero \in BOOLEAN /\ even \in BOOLEAN /\ sign \in BOOLEAN
  OBVIOUS
<1>2. /\ manageResultFlags(file, value) = setFlag(p, "S", sign)
      /\ manageResultFlags(carried, value) = setFlag(cp, "S", sign)
  BY Zenon DEF manageResultFlags, manageZeroFlag, manageParityFlag, manageSignedFlag
<1> HIDE DEF zero, even, sign
<1>3. /\ "Z" \in Flags /\ "P" \in Flags /\ "S" \in Flags /\ "CY" \in Flags
      /\ "Z" # "CY" /\ "P" # "CY" /\ "S" # "CY"
  BY DEF Flags
<1>4. z \in File /\ p \in File
  BY <1>1, <1>3, SetFlagType
<1>5. cz = setFlag(z, "CY", v)
  BY <1>1, <1>3, FlagsCommute
<1> HIDE DEF z, cz
<1>6. cp = setFlag(p, "CY", v)
  BY <1>1, <1>3, <1>4, <1>5, FlagsCommute
<1> HIDE DEF p, cp
<1>7. setFlag(cp, "S", sign) = setFlag(setFlag(p, "S", sign), "CY", v)
  BY <1>1, <1>3, <1>4, <1>6, FlagsCommute
<1>8. QED
  BY <1>2, <1>7

\* A flag and another register are written independently.
LEMMA RegisterThenFlag ==
  ASSUME NEW file \in File, NEW reg \in Register \ {"F"}, NEW value \in Byte,
         NEW flag, NEW v
  PROVE  setFlag(setRegister(file, reg, value), flag, v)
           = setRegister(setFlag(file, flag, v), reg, value)
BY DEF setFlag, setRegister, File, RegisterFile, Register

\* A count by one computes what the arithmetic on 1 computes, CY apart.
LEMMA CountIsArithmetic ==
  ASSUME NEW file \in File, file["B"] = 1, NEW op
  PROVE  LET counted == Increment(file, "A", op)
             added == AccumulatorArithmetic(file, "B", op, FALSE, TRUE)
         IN  /\ getFlag(counted, "CY") <=> getFlag(file, "CY")
             /\ counted["A"] = aritmeticResult(file, file["A"], 1, op, FALSE)
             /\ counted \in File
             /\ setFlag(counted, "CY", FALSE) = setFlag(added, "CY", FALSE)
<1> DEFINE a == file["A"]
           no == FALSE
           yes == TRUE
           value == aritmeticResult(file, a, 1, op, no)
           half == manageAuxilaryCarryFlag(file, a, 1, op, no)
           both == manageCarryFlag(half, a, 1, op, no)
           carry == CarryOut(op, a, 1, carryValue(half, no))
           kept == aritmeticFlags(file, a, 1, op, no, no)
           moved == aritmeticFlags(file, a, 1, op, no, yes)
           counted == Increment(file, "A", op)
           added == AccumulatorArithmetic(file, "B", op, FALSE, TRUE)
<1>1. a \in Byte /\ 1 \in Byte /\ "A" \in Register \ {"F"} /\ "CY" \in Flags
  BY ReadersType, ByteRange DEF Register, Flags
<1>2. /\ counted = setRegister(kept, "A", value)
      /\ added = setRegister(moved, "A", value)
  BY Zenon DEF Increment, AccumulatorArithmetic, getRegister
<1>3. /\ kept = manageResultFlags(half, value)
      /\ moved = manageResultFlags(both, value)
  BY Zenon DEF aritmeticFlags
<1>4. both = setFlag(half, "CY", carry)
  BY Zenon DEF manageCarryFlag, CarryOut
<1>5. no \in BOOLEAN /\ yes \in BOOLEAN /\ ~no /\ yes
  OBVIOUS
<1>6. carry \in BOOLEAN
  <2>1. /\ (a + 1 + carryValue(half, no) > 255) \in BOOLEAN
        /\ (a < 1 + carryValue(half, no)) \in BOOLEAN
    OBVIOUS
  <2>2. QED
    BY <2>1, Zenon DEF CarryOut
<1>7. value \in Byte /\ kept \in File /\ moved \in File
  <2> HIDE DEF a, no, yes
  <2>1. QED
    BY <1>1, <1>5, ArithmeticType
<1>8. half \in File /\ both \in File
  <2> HIDE DEF a, no
  <2>1. half \in File
    BY CarryFlagsType
  <2> HIDE DEF half, carry
  <2>2. QED
    BY <1>1, <1>4, <1>6, <2>1, SetFlagType
<1>9. FlagsTell(kept, file, a, 1, op, no, no)
  <2> HIDE DEF a, no
  <2>1. QED
    BY <1>1, <1>5, ArithmeticFlagValues, Zenon
<1>10. /\ counted = Increment(file, "A", op)
       /\ added = AccumulatorArithmetic(file, "B", op, FALSE, TRUE)
  OBVIOUS
<1> HIDE DEF a, yes, value, half, both, carry, kept, moved, counted, added
<1>11. getFlag(kept, "CY") <=> getFlag(file, "CY")
  BY <1>5, <1>9, Zenon DEF FlagsTell
<1>12. setFlag(kept, "CY", no) = setFlag(moved, "CY", no)
  <2>1. setFlag(kept, "CY", no) = manageResultFlags(setFlag(half, "CY", no), value)
    BY <1>3, <1>5, <1>7, <1>8, ResultThenCarry
  <2>2. setFlag(moved, "CY", no) = manageResultFlags(setFlag(both, "CY", no), value)
    BY <1>3, <1>5, <1>7, <1>8, ResultThenCarry
  <2>3. setFlag(both, "CY", no) = setFlag(half, "CY", no)
    BY <1>1, <1>4, <1>5, <1>6, <1>8, FlagsCommute, ZenonT(40)
  <2>4. QED
    BY <2>1, <2>2, <2>3
<1>13. setFlag(counted, "CY", no) = setFlag(added, "CY", no)
  <2> HIDE DEF no
  <2>1. QED
    BY <1>1, <1>2, <1>7, <1>12, RegisterThenFlag
<1>14. getFlag(counted, "CY") <=> getFlag(file, "CY")
  BY <1>1, <1>2, <1>7, <1>11, FlagsElsewhere
<1>15. counted \in File /\ counted["A"] = value
  <2>1. counted = [kept EXCEPT !["A"] = value]
    BY <1>1, <1>2 DEF setRegister
  <2>2. QED
    BY <1>1, <1>2, <1>7, <2>1, SetRegisterType, ZenonT(40) DEF File, RegisterFile
<1>16. QED
  BY <1>10, <1>13, <1>14, <1>15, Zenon DEF value, a, counted, added

\* Counting up and down, on any accumulator.
LEMMA CountLaws ==
  ASSUME r \in File
  PROVE  CountingKeepsCarry
<1> DEFINE one == setRegister(r, "B", 1)
           up   == Increment(one, "A", "ADD")
           down == Increment(one, "A", "SUB")
           a == r["A"]
           no == FALSE
<1>1. "B" \in Register \ {"F"} /\ "A" \in Register \ {"F"} /\ 1 \in Byte /\ a \in Byte
  BY ReadersType, ByteRange DEF Register
<1>2. one \in File /\ one["B"] = 1 /\ one["A"] = a
  BY <1>1, SetRegisterType DEF setRegister, File, RegisterFile
<1>3. getFlag(one, "CY") <=> getFlag(r, "CY")
  BY <1>1, FlagsElsewhere
<1> HIDE DEF one
<1>4. /\ getFlag(up, "CY") <=> getFlag(one, "CY")
      /\ up["A"] = aritmeticResult(one, one["A"], 1, "ADD", FALSE)
      /\ up \in File
      /\ setFlag(up, "CY", FALSE)
           = setFlag(AccumulatorArithmetic(one, "B", "ADD", FALSE, TRUE), "CY", FALSE)
  BY <1>2, CountIsArithmetic, Zenon
<1>5. /\ getFlag(down, "CY") <=> getFlag(one, "CY")
      /\ setFlag(down, "CY", FALSE)
           = setFlag(AccumulatorArithmetic(one, "B", "SUB", FALSE, TRUE), "CY", FALSE)
  BY <1>2, CountIsArithmetic, Zenon
<1> HIDE DEF up, down
<1>6. carryValue(one, FALSE) = 0 /\ carryValue(up, FALSE) = 0
  BY DEF carryValue
<1>7. up["A"] = ToByte(a + (1 + 0))
  BY <1>2, <1>4, <1>6 DEF aritmeticResult
<1>8. Increment(up, "A", "SUB")["A"] = ToByte(up["A"] - (1 + 0))
  <2> DEFINE x == up["A"]
             value == aritmeticResult(up, x, 1, "SUB", FALSE)
             flags == aritmeticFlags(up, x, 1, "SUB", FALSE, no)
  <2>1. no \in BOOLEAN /\ x \in Byte
    BY <1>1, <1>4, ReadersType
  <2>2. Increment(up, "A", "SUB") = setRegister(flags, "A", value)
    BY Zenon DEF Increment, getRegister
  <2>3. value = ToByte(x - (1 + 0))
    BY <1>6 DEF aritmeticResult
  <2> HIDE DEF x, no
  <2>4. flags \in File
    BY <1>1, <1>4, <2>1, ArithmeticType
  <2> HIDE DEF flags, value
  <2>5. Increment(up, "A", "SUB") = [flags EXCEPT !["A"] = value]
    BY <2>2 DEF setRegister
  <2>6. QED
    BY <1>1, <2>3, <2>4, <2>5 DEF File, RegisterFile, x
<1>9. Increment(up, "A", "SUB")["A"] = a
  BY <1>1, <1>7, <1>8, ByteRange DEF ToByte
<1>10. (getFlag(up, "CY") = getFlag(r, "CY")) /\ (getFlag(down, "CY") = getFlag(r, "CY"))
  BY <1>3, <1>4, <1>5 DEF getFlag, getBit
<1>11. QED
  BY <1>4, <1>5, <1>9, <1>10, Zenon DEF CountingKeepsCarry, Add, Sub, one, up, down

\* INR and DCR keep CY, undo each other, and otherwise agree with ADD and SUB
\* of 1 (Fake8080.hpp:593-600).
THEOREM CountersLeaveCarry == LawsSpec => []CountingKeepsCarry
<1>1. r \in Operands => CountingKeepsCarry
  BY OperandIsFile, CountLaws
<1>2. QED
  BY <1>1, OperandsKept, PTL

-----------------------------------------------------------------------------
\* The byte an addition or subtraction leaves.
Wrapped(op, x, y, c) == ToByte(IF op = "ADD" THEN x + (y + c) ELSE x - (y + c))

\* HL and DE combined byte by byte: the low bytes without carry, the high ones
\* with the carry of the low ones.
WordsByBytes(file, op) ==
  LET first  == AccumulatorArithmetic(Mov(file, "A", "L"), "E", op, FALSE, TRUE)
      low    == Mov(first, "L", "A")
      second == AccumulatorArithmetic(Mov(low, "A", "H"), "D", op, TRUE, TRUE)
  IN  Mov(second, "H", "A")

\* A move copies a byte and touches nothing else (Fake8080.hpp:506-511).
Moved(file, s, to, from) ==
  /\ s \in File
  /\ s[to] = file[from]
  /\ \A reg \in Register \ {to} : s[reg] = file[reg]
  /\ \A flag : getFlag(s, flag) <=> getFlag(file, flag)

\* Any move between registers does that.
LEMMA MoveDone ==
  ASSUME NEW file \in File, NEW to \in Register \ {"F"}, NEW from \in Register
  PROVE  Moved(file, Mov(file, to, from), to, from)
<1> DEFINE s == Mov(file, to, from)
<1>1. file[from] \in Byte
  BY ReadersType
<1>2. s = setRegister(file, to, file[from])
  BY DEF Mov, getRegister
<1>3. s = [file EXCEPT ![to] = file[from]]
  BY <1>2 DEF setRegister
<1>4. s \in File /\ \A flag : getFlag(s, flag) <=> getFlag(file, flag)
  BY <1>1, <1>2, SetRegisterType, FlagsElsewhere
<1>5. QED
  BY <1>3, <1>4 DEF Moved, File, RegisterFile

\* An arithmetic instruction, seen from the registers and CY.
Combined(file, s, reg, op, c) ==
  /\ s \in File
  /\ s["A"] = Wrapped(op, file["A"], file[reg], c)
  /\ getFlag(s, "CY") <=> CarryOut(op, file["A"], file[reg], c)
  /\ \A other \in Register \ {"A", "F"} : s[other] = file[other]

\* Any arithmetic instruction that stores its result does that.
LEMMA CombineDone ==
  ASSUME NEW file \in File, NEW reg \in Register, NEW op, NEW useCarry
  PROVE  Combined(file, AccumulatorArithmetic(file, reg, op, useCarry, TRUE), reg, op,
                  carryValue(file, useCarry))
<1> DEFINE stored == AccumulatorArithmetic(file, reg, op, useCarry, TRUE)
           tested == AccumulatorArithmetic(file, reg, op, useCarry, FALSE)
           c == carryValue(file, useCarry)
           value == aritmeticResult(file, file["A"], file[reg], op, useCarry)
<1>1. ArithmeticDone(file, reg, op, useCarry, stored, tested)
  BY AccumulatorValues, Zenon
<1> HIDE DEF stored, tested
<1>2. /\ stored \in File
      /\ tested \in File
      /\ stored = setRegister(tested, "A", value)
      /\ stored["A"] = value
      /\ \A other \in Register \ {"F"} : tested[other] = file[other]
      /\ \A flag : getFlag(stored, flag) <=> getFlag(tested, flag)
      /\ getFlag(tested, "CY") <=> CarryOut(op, file["A"], file[reg], c)
  BY <1>1, Zenon DEF ArithmeticDone
<1>3. value = Wrapped(op, file["A"], file[reg], c)
  BY Zenon DEF aritmeticResult, Wrapped
<1> HIDE DEF c, value
<1>4. stored = [tested EXCEPT !["A"] = value]
  BY <1>2 DEF setRegister
<1>5. \A other \in Register \ {"A", "F"} : stored[other] = file[other]
  BY <1>2, <1>4 DEF File, RegisterFile
<1>6. Combined(file, stored, reg, op, c)
  BY <1>2, <1>3, <1>5, Zenon DEF Combined
<1>7. QED
  BY <1>6 DEF stored, c

\* Both bytes in turn.
WordsCombined(file, s, op) ==
  LET c == Number(CarryOut(op, file["L"], file["E"], 0))
  IN  /\ s \in File
      /\ s["L"] = Wrapped(op, file["L"], file["E"], 0)
      /\ s["H"] = Wrapped(op, file["H"], file["D"], c)
      /\ getFlag(s, "CY") <=> CarryOut(op, file["H"], file["D"], c)
      /\ s["D"] = file["D"]
      /\ s["E"] = file["E"]

\* The six instructions in a row do that.
LEMMA BytesInTurn ==
  ASSUME NEW file \in File, NEW op
  PROVE  WordsCombined(file, WordsByBytes(file, op), op)
<1> DEFINE f1 == Mov(file, "A", "L")
           f2 == AccumulatorArithmetic(f1, "E", op, FALSE, TRUE)
           f3 == Mov(f2, "L", "A")
           f4 == Mov(f3, "A", "H")
           f5 == AccumulatorArithmetic(f4, "D", op, TRUE, TRUE)
           f6 == Mov(f5, "H", "A")
           c == Number(CarryOut(op, file["L"], file["E"], 0))
<1>1. /\ "A" \in Register \ {"F"} /\ "L" \in Register \ {"F"} /\ "H" \in Register \ {"F"}
      /\ "D" \in Register \ {"A", "F", "H", "L"} /\ "E" \in Register \ {"A", "F", "H", "L"}
      /\ "A" # "L" /\ "A" # "H" /\ "H" # "L"
  BY DEF Register
<1>2. WordsByBytes(file, op) = f6
  BY Zenon DEF WordsByBytes
<1>3. Moved(file, f1, "A", "L")
  BY <1>1, MoveDone
<1> HIDE DEF f1
<1>4. Combined(f1, f2, "E", op, carryValue(f1, FALSE))
  BY <1>1, <1>3, CombineDone, Zenon DEF Moved
<1> HIDE DEF f2
<1>5. Moved(f2, f3, "L", "A")
  BY <1>1, <1>4, MoveDone DEF Combined
<1> HIDE DEF f3
<1>6. Moved(f3, f4, "A", "H")
  BY <1>1, <1>5, MoveDone DEF Moved
<1> HIDE DEF f4
<1>7. Combined(f4, f5, "D", op, carryValue(f4, TRUE))
  BY <1>1, <1>6, CombineDone, Zenon DEF Moved
<1> HIDE DEF f5
<1>8. Moved(f5, f6, "H", "A")
  BY <1>1, <1>7, MoveDone DEF Combined
<1> HIDE DEF f6
<1>9. carryValue(f1, FALSE) = 0
  BY DEF carryValue
<1>10. /\ f2["A"] = Wrapped(op, file["L"], file["E"], 0)
       /\ getFlag(f2, "CY") <=> CarryOut(op, file["L"], file["E"], 0)
       /\ f2["H"] = file["H"] /\ f2["D"] = file["D"] /\ f2["E"] = file["E"]
  <2>1. /\ f1["A"] = file["L"] /\ f1["E"] = file["E"]
        /\ f1["H"] = file["H"] /\ f1["D"] = file["D"]
    BY <1>1, <1>3 DEF Moved
  <2>2. /\ f2["A"] = Wrapped(op, f1["A"], f1["E"], 0)
        /\ getFlag(f2, "CY") <=> CarryOut(op, f1["A"], f1["E"], 0)
    BY <1>4, <1>9, Zenon DEF Combined
  <2>3. f2["H"] = f1["H"] /\ f2["D"] = f1["D"] /\ f2["E"] = f1["E"]
    BY <1>1, <1>4 DEF Combined
  <2>4. QED
    BY <2>1, <2>2, <2>3, Zenon
<1>11. /\ f4["A"] = file["H"] /\ f4["D"] = file["D"] /\ f4["E"] = file["E"]
       /\ f4["L"] = f2["A"]
       /\ getFlag(f4, "CY") <=> getFlag(f2, "CY")
  <2>1. /\ f3["L"] = f2["A"] /\ f3["H"] = f2["H"] /\ f3["D"] = f2["D"] /\ f3["E"] = f2["E"]
        /\ getFlag(f3, "CY") <=> getFlag(f2, "CY")
    BY <1>1, <1>5 DEF Moved
  <2>2. /\ f4["A"] = f3["H"] /\ f4["D"] = f3["D"] /\ f4["E"] = f3["E"] /\ f4["L"] = f3["L"]
        /\ getFlag(f4, "CY") <=> getFlag(f3, "CY")
    BY <1>1, <1>6 DEF Moved
  <2>3. QED
    BY <1>10, <2>1, <2>2
<1>12. carryValue(f4, TRUE) = c
  BY <1>10, <1>11, Zenon DEF carryValue, Number
<1> HIDE DEF c
<1>13. /\ f5["A"] = Wrapped(op, file["H"], file["D"], c)
       /\ getFlag(f5, "CY") <=> CarryOut(op, file["H"], file["D"], c)
       /\ f5["D"] = file["D"] /\ f5["E"] = file["E"] /\ f5["L"] = f2["A"]
  <2>1. /\ f5["A"] = Wrapped(op, f4["A"], f4["D"], c)
        /\ getFlag(f5, "CY") <=> CarryOut(op, f4["A"], f4["D"], c)
    BY <1>7, <1>12, Zenon DEF Combined
  <2>2. f5["D"] = f4["D"] /\ f5["E"] = f4["E"] /\ f5["L"] = f4["L"]
    BY <1>1, <1>7 DEF Combined
  <2>3. QED
    BY <1>11, <2>1, <2>2, Zenon
<1>14. /\ f6 \in File
       /\ f6["H"] = f5["A"] /\ f6["D"] = f5["D"] /\ f6["E"] = f5["E"] /\ f6["L"] = f5["L"]
       /\ getFlag(f6, "CY") <=> getFlag(f5, "CY")
  BY <1>1, <1>8 DEF Moved
<1>15. WordsCombined(file, f6, op)
  BY <1>10, <1>13, <1>14, Zenon DEF WordsCombined, c
<1>16. QED
  BY <1>2, <1>15

\* The bytes of a 16-bit sum are the sum, wrapped, and its carry is the carry out
\* of the word.
LEMMA SumOfWords ==
  ASSUME NEW h \in Byte, NEW l \in Byte, NEW d \in Byte, NEW e \in Byte
  PROVE  LET c    == Number(CarryOut("ADD", l, e, 0))
             low  == Wrapped("ADD", l, e, 0)
             high == Wrapped("ADD", h, d, c)
             sum  == Combine(h, l) + Combine(d, e)
         IN  /\ Combine(high, low) = ToWord(sum)
             /\ CarryOut("ADD", h, d, c) <=> sum > MaxWord
<1> DEFINE c    == Number(CarryOut("ADD", l, e, 0))
           low  == Wrapped("ADD", l, e, 0)
           high == Wrapped("ADD", h, d, c)
           sum  == Combine(h, l) + Combine(d, e)
           over == Number(CarryOut("ADD", h, d, c))
<1>1. c \in {0, 1} /\ over \in {0, 1} /\ (CarryOut("ADD", h, d, c) <=> over = 1)
  BY DEF Number
<1>2. low = ToByte(l + (e + 0)) /\ high = ToByte(h + (d + c))
  BY DEF Wrapped
<1> HIDE DEF over, high, low, sum
<1>3. low \in Byte /\ high \in Byte
  <2>1. l + (e + 0) \in Int /\ h + (d + c) \in Int
    BY <1>1, ByteRange
  <2>2. QED
    BY <1>2, <2>1, Converted
<1>4. 256 * c + low = l + e + 0
  <2>1. ExactSum(l, e, 0, c, low)
    BY <1>2, WrapExact
  <2>2. QED
    BY <2>1 DEF ExactSum
<1> HIDE DEF c
<1>5. 256 * over + high = h + d + c
  <2>1. ExactSum(h, d, c, over, high)
    BY <1>1, <1>2, WrapExact DEF over
  <2>2. QED
    BY <2>1 DEF ExactSum
<1>6. /\ h \in Int /\ l \in Int /\ d \in Int /\ e \in Int
      /\ 0 <= low /\ low <= 255 /\ low \in Int
      /\ 0 <= high /\ high <= 255 /\ high \in Int
  BY <1>3, ByteRange
<1>7. sum = 65536 * over + (256 * high + low)
  BY <1>1, <1>4, <1>5, <1>6 DEF sum, Combine
<1>8. 256 * high + low \in Int /\ 0 <= 256 * high + low /\ 256 * high + low <= 65535
  BY <1>6
<1> DEFINE word == 256 * high + low
<1> HIDE DEF word
<1>9. sum % 65536 = word /\ (sum > 65535 <=> over = 1)
  BY <1>1, <1>7, <1>8 DEF word
<1>10. MaxWord = 65535
  BY DEF MaxWord
<1>11. /\ Combine(high, low) = ToWord(sum)
       /\ CarryOut("ADD", h, d, c) <=> sum > MaxWord
  BY <1>1, <1>9, <1>10 DEF Combine, ToWord, word
<1>12. QED
  BY <1>11 DEF high, low, sum, c

\* The same for a difference.
LEMMA DifferenceOfWords ==
  ASSUME NEW h \in Byte, NEW l \in Byte, NEW d \in Byte, NEW e \in Byte
  PROVE  LET c    == Number(CarryOut("SUB", l, e, 0))
             low  == Wrapped("SUB", l, e, 0)
             high == Wrapped("SUB", h, d, c)
         IN  /\ Combine(high, low) = ToWord(Combine(h, l) - Combine(d, e))
             /\ CarryOut("SUB", h, d, c) <=> Combine(h, l) < Combine(d, e)
<1> DEFINE c    == Number(CarryOut("SUB", l, e, 0))
           low  == Wrapped("SUB", l, e, 0)
           high == Wrapped("SUB", h, d, c)
           left == Combine(h, l)
           right == Combine(d, e)
           under == Number(CarryOut("SUB", h, d, c))
<1>1. c \in {0, 1} /\ under \in {0, 1} /\ (CarryOut("SUB", h, d, c) <=> under = 1)
  BY DEF Number
<1>2. low = ToByte(l - (e + 0)) /\ high = ToByte(h - (d + c))
  BY DEF Wrapped
<1> HIDE DEF under, high, low, left, right
<1>3. low \in Byte /\ high \in Byte
  <2>1. l - (e + 0) \in Int /\ h - (d + c) \in Int
    BY <1>1, ByteRange
  <2>2. QED
    BY <1>2, <2>1, Converted
<1>4. low - 256 * c = l - e - 0
  <2>1. ExactDifference(l, e, 0, c, low)
    BY <1>2, WrapExact
  <2>2. QED
    BY <2>1 DEF ExactDifference
<1> HIDE DEF c
<1>5. high - 256 * under = h - d - c
  <2>1. ExactDifference(h, d, c, under, high)
    BY <1>1, <1>2, WrapExact DEF under
  <2>2. QED
    BY <2>1 DEF ExactDifference
<1>6. /\ h \in Int /\ l \in Int /\ d \in Int /\ e \in Int
      /\ 0 <= low /\ low <= 255 /\ low \in Int
      /\ 0 <= high /\ high <= 255 /\ high \in Int
  BY <1>3, ByteRange
<1>7. left - right = (256 * high + low) - 65536 * under /\ left \in Int /\ right \in Int
  BY <1>1, <1>4, <1>5, <1>6 DEF left, right, Combine
<1>8. 256 * high + low \in Int /\ 0 <= 256 * high + low /\ 256 * high + low <= 65535
  BY <1>6
<1> DEFINE word == 256 * high + low
<1> HIDE DEF word
<1>9. (left - right) % 65536 = word /\ (left < right <=> under = 1)
  BY <1>1, <1>7, <1>8 DEF word
<1>10. /\ Combine(high, low) = ToWord(left - right)
       /\ CarryOut("SUB", h, d, c) <=> left < right
  BY <1>1, <1>9 DEF Combine, ToWord, word
<1>11. QED
  BY <1>10 DEF high, low, left, right, c

\* The byte-by-byte sum against DAD, and the difference that takes it back.
LEMMA WordLaws ==
  ASSUME r \in File
  PROVE  WordsAddByBytes
<1> DEFINE a == r["A"]
           b == r["B"]
           words == [r EXCEPT !["H"] = a, !["L"] = b, !["D"] = b, !["E"] = a]
           sum   == WordsByBytes(words, "ADD")
           back  == WordsByBytes(sum, "SUB")
           dad   == DoubleAdd(words, "DE")
           HL == Combine(words["H"], words["L"])
           DE == Combine(words["D"], words["E"])
<1>1. a \in Byte /\ b \in Byte
  BY ReadersType DEF Register
<1>2. words \in File /\ words["D"] \in Byte /\ words["E"] \in Byte
        /\ words["H"] \in Byte /\ words["L"] \in Byte
  <2>1. words \in RegisterFile /\ words["F"] = r["F"]
    BY <1>1 DEF File, RegisterFile, Register
  <2>2. words \in File
    BY <2>1 DEF File
  <2> HIDE DEF words
  <2>3. QED
    BY <2>2, ReadersType DEF Register
<1>3. AddWords(words) = sum /\ SubWords(sum) = back
  BY Zenon DEF AddWords, SubWords, WordsByBytes, Add, Adc, Sub, Sbb
<1>4. \A file : /\ getCombinedRegister(file, "HL") = Combine(file["H"], file["L"])
                /\ getCombinedRegister(file, "DE") = Combine(file["D"], file["E"])
  BY DEF getCombinedRegister, RegisterPairs, getRegister
<1> HIDE DEF words
<1>5. WordsCombined(words, sum, "ADD")
  BY <1>2, BytesInTurn
<1> HIDE DEF sum
<1>6. /\ Combine(sum["H"], sum["L"]) = ToWord(HL + DE)
      /\ getFlag(sum, "CY") <=> HL + DE > MaxWord
      /\ sum \in File
      /\ Combine(sum["D"], sum["E"]) = DE
  <2>1. LET c == Number(CarryOut("ADD", words["L"], words["E"], 0))
        IN  /\ Combine(Wrapped("ADD", words["H"], words["D"], c),
                       Wrapped("ADD", words["L"], words["E"], 0)) = ToWord(HL + DE)
            /\ CarryOut("ADD", words["H"], words["D"], c) <=> HL + DE > MaxWord
    BY <1>2, SumOfWords, Zenon
  <2>2. QED
    BY <1>5, <2>1, Zenon DEF WordsCombined
<1>7. WordsCombined(sum, back, "SUB")
  BY <1>6, BytesInTurn
<1> HIDE DEF back
<1>8. /\ Combine(back["H"], back["L"]) = ToWord(ToWord(HL + DE) - DE)
      /\ getFlag(back, "CY") <=> ToWord(HL + DE) < DE
  <2>1. sum["H"] \in Byte /\ sum["L"] \in Byte /\ sum["D"] \in Byte /\ sum["E"] \in Byte
    BY <1>6, ReadersType DEF Register
  <2>2. LET c == Number(CarryOut("SUB", sum["L"], sum["E"], 0))
        IN  /\ Combine(Wrapped("SUB", sum["H"], sum["D"], c),
                       Wrapped("SUB", sum["L"], sum["E"], 0))
                 = ToWord(Combine(sum["H"], sum["L"]) - Combine(sum["D"], sum["E"]))
            /\ CarryOut("SUB", sum["H"], sum["D"], c)
                 <=> Combine(sum["H"], sum["L"]) < Combine(sum["D"], sum["E"])
    BY <2>1, DifferenceOfWords, Zenon
  <2>3. QED
    BY <1>6, <1>7, <2>2, Zenon DEF WordsCombined
<1> DEFINE result == ToWord(HL + DE)
           over == result < HL
           carried == setFlag(words, "CY", over)
<1>9. dad = setCombinedRegister(carried, "HL", result)
  BY <1>4, Zenon DEF DoubleAdd
<1>10. HL \in Word /\ DE \in Word
  BY <1>2, CombineType
<1> HIDE DEF HL, DE
<1>11. result \in Word /\ over \in BOOLEAN
  BY <1>10, WordRange, Converted
<1>12. /\ over <=> HL + DE > MaxWord
       /\ ToWord(HL + DE) < DE <=> HL + DE > MaxWord
       /\ ToWord(ToWord(HL + DE) - DE) = HL
  <2>1. /\ HL \in Int /\ 0 <= HL /\ HL <= 65535
        /\ DE \in Int /\ 0 <= DE /\ DE <= 65535
    BY <1>10, WordRange
  <2>2. HL + DE <= 65535 => (HL + DE) % 65536 = HL + DE
    BY <2>1
  <2>3. HL + DE > 65535 => (HL + DE) % 65536 = HL + DE - 65536
    BY <2>1
  <2>4. HL % 65536 = HL /\ (HL - 65536) % 65536 = HL
    BY <2>1
  <2>5. MaxWord = 65535
    BY DEF MaxWord
  <2>6. CASE HL + DE <= 65535
    BY <2>1, <2>2, <2>4, <2>5, <2>6 DEF ToWord
  <2>7. CASE HL + DE > 65535
    BY <2>1, <2>3, <2>4, <2>5, <2>7 DEF ToWord
  <2>8. QED
    BY <2>1, <2>6, <2>7
<1> HIDE DEF result, over, carried, dad
<1>13. /\ carried \in File
       /\ getFlag(carried, "CY") <=> over
  BY <1>2, <1>11, SetFlagType, FlagAfterSet DEF carried, Flags
<1>14. /\ Combine(dad["H"], dad["L"]) = result
       /\ getFlag(dad, "CY") <=> over
  <2>1. "HL" \in CombinedRegister \ {"PSW"}
    BY DEF CombinedRegister
  <2>2. getCombinedRegister(dad, "HL") = result
    BY <1>9, <1>11, <1>13, <2>1, PairHoldsWord
  <2>3. dad = setRegister(setRegister(carried, "H", getHighByte(result)),
                          "L", getLowByte(result))
    BY <1>9 DEF setCombinedRegister, RegisterPairs
  <2>4. dad["F"] = carried["F"]
    BY <1>13, <2>3 DEF setRegister, File, RegisterFile, Register
  <2>5. QED
    BY <1>4, <1>13, <2>2, <2>4 DEF getFlag, getRegister
<1>15. /\ Combine(sum["H"], sum["L"]) = Combine(dad["H"], dad["L"])
       /\ getFlag(sum, "CY") <=> getFlag(dad, "CY")
       /\ Combine(back["H"], back["L"]) = Combine(words["H"], words["L"])
       /\ getFlag(back, "CY") <=> getFlag(sum, "CY")
  BY <1>6, <1>8, <1>12, <1>14 DEF result, HL
<1>16. /\ getFlag(sum, "CY") = getFlag(dad, "CY")
       /\ getFlag(back, "CY") = getFlag(sum, "CY")
  BY <1>15 DEF getFlag, getBit
<1>17. QED
  BY <1>3, <1>4, <1>15, <1>16, Zenon
     DEF WordsAddByBytes, words, sum, back, dad, getRegister

\* ADD then ADC adds words as DAD does, and SUB then SBB takes the addend away
\* again (Fake8080.cpp:107-155, Fake8080.hpp:544-583).
THEOREM WordsByBytesExact == LawsSpec => []WordsAddByBytes
<1>1. r \in Operands => WordsAddByBytes
  BY OperandIsFile, WordLaws
<1>2. QED
  BY <1>1, OperandsKept, PTL

-----------------------------------------------------------------------------
\* Two bytes that agree on every bit are the same.
LEMMA SameByte ==
  ASSUME NEW x \in Byte, NEW y \in Byte,
         \A q \in BitPosition : getBit(x, q) <=> getBit(y, q)
  PROVE  x = y
<1>1. \A q \in BitPosition : Bit(x, q) = Bit(y, q)
  <2> SUFFICES ASSUME NEW q \in BitPosition PROVE Bit(x, q) = Bit(y, q)
    OBVIOUS
  <2>1. Bit(x, q) \in {0, 1} /\ Bit(y, q) \in {0, 1}
    BY BitType
  <2>2. QED
    BY <2>1 DEF getBit
<1>2. BitsOf(x) = BitsOf(y)
  BY <1>1 DEF BitsOf
<1>3. QED
  BY <1>2, ByteIsBits

\* The operators & | ^ ~ work bit by bit (Fake8080.hpp:620-634, 177-181).
LEMMA LogicBits ==
  ASSUME NEW x \in Byte, NEW y \in Byte, NEW q \in BitPosition
  PROVE  /\ getBit(BitAnd(x, y), q) <=> (getBit(x, q) /\ getBit(y, q))
         /\ getBit(BitOr(x, y), q) <=> (getBit(x, q) \/ getBit(y, q))
         /\ getBit(BitXor(x, y), q) <=> ~ (getBit(x, q) <=> getBit(y, q))
         /\ getBit(BitNot(x), q) <=> ~ getBit(x, q)
<1> DEFINE u == Bit(x, q)
           v == Bit(y, q)
<1>1. \A i \in BitPosition : Bit(x, i) \in {0, 1} /\ Bit(y, i) \in {0, 1}
  BY BitType
<1>2. Bit(BitAnd(x, y), q) = u * v
  <2> DEFINE f == [i \in BitPosition |-> Bit(x, i) * Bit(y, i)]
  <2>1. f \in [BitPosition -> {0, 1}]
    BY <1>1
  <2>2. f[q] = u * v
    OBVIOUS
  <2>3. BitAnd(x, y) = FromBits(f)
    BY Zenon DEF BitAnd
  <2> HIDE DEF f, u, v
  <2>4. QED
    BY <2>1, <2>2, <2>3, BitsOfNumber
<1>3. Bit(BitOr(x, y), q) = u + v - u * v
  <2> DEFINE f == [i \in BitPosition |-> Bit(x, i) + Bit(y, i) - Bit(x, i) * Bit(y, i)]
  <2>1. f \in [BitPosition -> {0, 1}]
    BY <1>1
  <2>2. f[q] = u + v - u * v
    OBVIOUS
  <2>3. BitOr(x, y) = FromBits(f)
    BY Zenon DEF BitOr
  <2> HIDE DEF f, u, v
  <2>4. QED
    BY <2>1, <2>2, <2>3, BitsOfNumber
<1>4. Bit(BitXor(x, y), q) = (u + v) % 2
  <2> DEFINE f == [i \in BitPosition |-> (Bit(x, i) + Bit(y, i)) % 2]
  <2>1. f \in [BitPosition -> {0, 1}]
    BY <1>1
  <2>2. f[q] = (u + v) % 2
    OBVIOUS
  <2>3. BitXor(x, y) = FromBits(f)
    BY Zenon DEF BitXor
  <2> HIDE DEF f, u, v
  <2>4. QED
    BY <2>1, <2>2, <2>3, BitsOfNumber
<1>5. Bit(BitNot(x), q) = 1 - u
  <2>0. x \in Int /\ 0 <= x /\ x <= 255
    BY ByteRange
  <2>1. /\ ((255 - x) \div 1) % 2 = 1 - ((x \div 1) % 2)
        /\ ((255 - x) \div 2) % 2 = 1 - ((x \div 2) % 2)
        /\ ((255 - x) \div 4) % 2 = 1 - ((x \div 4) % 2)
        /\ ((255 - x) \div 8) % 2 = 1 - ((x \div 8) % 2)
    <3>1. (255 - x) \div 1 = 255 - x /\ x \div 1 = x
      BY <2>0
    <3>2. QED
      BY <2>0, <3>1
  <2>2. /\ ((255 - x) \div 16) % 2 = 1 - ((x \div 16) % 2)
        /\ ((255 - x) \div 32) % 2 = 1 - ((x \div 32) % 2)
        /\ ((255 - x) \div 64) % 2 = 1 - ((x \div 64) % 2)
        /\ ((255 - x) \div 128) % 2 = 1 - ((x \div 128) % 2)
    BY <2>0
  <2> DEFINE Flips(w) == ((255 - x) \div w) % 2 = 1 - ((x \div w) % 2)
  <2>3. /\ Flips(1) /\ Flips(2) /\ Flips(4) /\ Flips(8)
        /\ Flips(16) /\ Flips(32) /\ Flips(64) /\ Flips(128)
    BY <2>1, <2>2
  <2> HIDE DEF Flips
  <2>4. Flips(Weight(q))
    BY <2>3, WeightValues
  <2>5. QED
    BY <2>4, Zenon DEF Flips, Bit, BitNot
<1>6. u \in {0, 1} /\ v \in {0, 1}
  BY <1>1
<1>7. (getBit(x, q) <=> u = 1) /\ (getBit(y, q) <=> v = 1)
  BY DEF getBit
<1> HIDE DEF u, v
<1>8. /\ u * v = 1 <=> u = 1 /\ v = 1
      /\ u + v - u * v = 1 <=> u = 1 \/ v = 1
      /\ (u + v) % 2 = 1 <=> u # v
      /\ 1 - u = 1 <=> u # 1
  BY <1>6
<1>9. QED
  BY <1>2, <1>3, <1>4, <1>5, <1>6, <1>7, <1>8 DEF getBit

\* The Boolean algebra of bytes.
LEMMA ByteAlgebra ==
  ASSUME NEW x \in Byte, NEW y \in Byte
  PROVE  /\ BitNot(BitAnd(x, y)) = BitOr(BitNot(x), BitNot(y))
         /\ BitAnd(BitOr(x, y), BitNot(BitAnd(x, y))) = BitXor(x, y)
         /\ BitXor(BitXor(x, y), y) = x
         /\ BitXor(x, x) = 0
<1>1. /\ BitAnd(x, y) \in Byte /\ BitOr(x, y) \in Byte /\ BitXor(x, y) \in Byte
      /\ BitNot(x) \in Byte /\ BitNot(y) \in Byte /\ BitXor(x, x) \in Byte
  BY LogicType
<1>2. /\ BitNot(BitAnd(x, y)) \in Byte /\ BitOr(BitNot(x), BitNot(y)) \in Byte
      /\ BitXor(BitXor(x, y), y) \in Byte
  BY <1>1, LogicType
<1>3. BitAnd(BitOr(x, y), BitNot(BitAnd(x, y))) \in Byte
  BY <1>1, <1>2, LogicType
<1>4. BitNot(BitAnd(x, y)) = BitOr(BitNot(x), BitNot(y))
  <2>1. ASSUME NEW q \in BitPosition
        PROVE  getBit(BitNot(BitAnd(x, y)), q) <=> getBit(BitOr(BitNot(x), BitNot(y)), q)
    <3>1. getBit(BitNot(BitAnd(x, y)), q) <=> ~ (getBit(x, q) /\ getBit(y, q))
      BY <1>1, LogicBits
    <3>2. getBit(BitOr(BitNot(x), BitNot(y)), q)
            <=> (getBit(BitNot(x), q) \/ getBit(BitNot(y), q))
      BY <1>1, LogicBits
    <3>3. /\ getBit(BitNot(x), q) <=> ~ getBit(x, q)
          /\ getBit(BitNot(y), q) <=> ~ getBit(y, q)
      BY LogicBits
    <3>4. QED
      BY <3>1, <3>2, <3>3
  <2>2. QED
    BY <1>2, <2>1, SameByte
<1>5. BitAnd(BitOr(x, y), BitNot(BitAnd(x, y))) = BitXor(x, y)
  <2>1. ASSUME NEW q \in BitPosition
        PROVE  getBit(BitAnd(BitOr(x, y), BitNot(BitAnd(x, y))), q)
                 <=> getBit(BitXor(x, y), q)
    <3>1. getBit(BitAnd(BitOr(x, y), BitNot(BitAnd(x, y))), q)
            <=> (getBit(BitOr(x, y), q) /\ getBit(BitNot(BitAnd(x, y)), q))
      BY <1>1, <1>2, LogicBits
    <3>2. getBit(BitNot(BitAnd(x, y)), q) <=> ~ getBit(BitAnd(x, y), q)
      BY <1>1, LogicBits
    <3>3. /\ getBit(BitAnd(x, y), q) <=> (getBit(x, q) /\ getBit(y, q))
          /\ getBit(BitOr(x, y), q) <=> (getBit(x, q) \/ getBit(y, q))
          /\ getBit(BitXor(x, y), q) <=> ~ (getBit(x, q) <=> getBit(y, q))
      BY LogicBits
    <3>4. QED
      BY <3>1, <3>2, <3>3
  <2>2. QED
    BY <1>1, <1>3, <2>1, SameByte
<1>6. BitXor(BitXor(x, y), y) = x
  <2>1. ASSUME NEW q \in BitPosition
        PROVE  getBit(BitXor(BitXor(x, y), y), q) <=> getBit(x, q)
    <3>1. getBit(BitXor(BitXor(x, y), y), q)
            <=> ~ (getBit(BitXor(x, y), q) <=> getBit(y, q))
      BY <1>1, LogicBits
    <3>2. getBit(BitXor(x, y), q) <=> ~ (getBit(x, q) <=> getBit(y, q))
      BY LogicBits
    <3>3. QED
      BY <3>1, <3>2
  <2>2. QED
    BY <1>2, <2>1, SameByte
<1>7. BitXor(x, x) = 0
  <2>0. 0 \in Byte
    BY ByteRange
  <2>1. ASSUME NEW q \in BitPosition
        PROVE  getBit(BitXor(x, x), q) <=> getBit(0, q)
    <3>1. ~ getBit(BitXor(x, x), q)
      BY LogicBits
    <3>2. ~ getBit(0, q)
      BY WeightValues DEF getBit, Bit
    <3>3. QED
      BY <3>1, <3>2
  <2>2. QED
    BY <1>1, <2>0, <2>1, SameByte
<1>8. QED
  BY <1>4, <1>5, <1>6, <1>7

\* Setting a register other than F sets it alone (Registers.cpp:16-23).
LEMMA RegisterAfterSet ==
  ASSUME NEW file \in File, NEW reg \in Register \ {"F"}, NEW value \in Byte
  PROVE  LET s == setRegister(file, reg, value)
         IN  /\ s \in File
             /\ s[reg] = value
             /\ \A other \in Register \ {reg} : s[other] = file[other]
<1>1. setRegister(file, reg, value) = [file EXCEPT ![reg] = value]
  BY DEF setRegister
<1>2. setRegister(file, reg, value) \in File
  BY SetRegisterType
<1>3. QED
  BY <1>1, <1>2 DEF File, RegisterFile

\* A logic instruction, seen from the registers, Z and CY.
Combines(file, s, reg, op) ==
  /\ s \in File
  /\ s["A"] = logicResult(file["A"], file[reg], op)
  /\ \A other \in Register \ {"A", "F"} : s[other] = file[other]
  /\ getFlag(s, "Z") <=> s["A"] = 0
  /\ ~ getFlag(s, "CY")

\* Any of ANA, ORA and XRA does that (Fake8080.hpp:611-640).
LEMMA LogicDone ==
  ASSUME NEW file \in File, NEW reg \in Register, NEW op \in LogicOperation
  PROVE  Combines(file, AccumulatorLogic(file, reg, op), reg, op)
<1> DEFINE no == FALSE
           and == op = "AND"
           result  == logicResult(file["A"], file[reg], op)
           shown   == manageResultFlags(file, result)
           cleared == setFlag(shown, "CY", no)
           marked  == setFlag(cleared, "AC", and)
           s == AccumulatorLogic(file, reg, op)
<1>1. /\ "A" \in Register \ {"F"} /\ no \in BOOLEAN /\ ~no /\ and \in BOOLEAN
      /\ "CY" \in Flags /\ "AC" \in Flags /\ "Z" \in Flags
  BY DEF Register, Flags
<1>2. file["A"] \in Byte /\ file[reg] \in Byte
  BY <1>1, ReadersType
<1>3. result \in Byte
  <2>1. op = "AND" \/ op = "OR" \/ op = "XOR"
    BY DEF LogicOperation
  <2>2. QED
    BY <1>2, <2>1, LogicType DEF logicResult
<1>4. s = setRegister(marked, "A", result)
  BY Zenon DEF AccumulatorLogic, getRegister
<1>5. s \in File
  BY AccumulatorLogicType
<1> HIDE DEF no, and, result, s
<1>6. shown \in File /\ Keeps(file, shown, {"F"}) /\ (getFlag(shown, "Z") <=> result = 0)
  <2>1. DOMAIN file = Register
    BY DEF File, RegisterFile
  <2>2. Keeps(file, shown, {"F"})
    BY <2>1, FlagsKeep, Zenon
  <2>3. getFlag(shown, "Z") <=> result = 0
    BY <1>3, ResultFlagValues
  <2>4. QED
    BY <1>3, <2>2, <2>3, ResultFlagsType
<1> HIDE DEF shown
<1>7. /\ cleared \in File
      /\ ~ getFlag(cleared, "CY")
      /\ getFlag(cleared, "Z") <=> getFlag(shown, "Z")
  BY <1>1, <1>6, SetFlagType, FlagAfterSet
<1>8. \A other \in Register \ {"F"} : cleared[other] = file[other]
  BY <1>6 DEF setFlag, Keeps
<1> HIDE DEF cleared
<1>9. /\ marked \in File
      /\ ~ getFlag(marked, "CY")
      /\ getFlag(marked, "Z") <=> getFlag(shown, "Z")
  BY <1>1, <1>7, SetFlagType, FlagAfterSet
<1>10. \A other \in Register \ {"F"} : marked[other] = file[other]
  BY <1>7, <1>8 DEF setFlag, File, RegisterFile
<1> HIDE DEF marked
<1>11. s["A"] = result /\ \A other \in Register \ {"A"} : s[other] = marked[other]
  BY <1>1, <1>3, <1>4, <1>9, RegisterAfterSet
<1>12. \A other \in Register \ {"A", "F"} : s[other] = file[other]
  BY <1>10, <1>11
<1>13. /\ getFlag(s, "CY") <=> getFlag(marked, "CY")
       /\ getFlag(s, "Z") <=> getFlag(marked, "Z")
  BY <1>1, <1>3, <1>4, <1>9, FlagsElsewhere
<1>14. QED
  BY <1>5, <1>6, <1>9, <1>11, <1>12, <1>13 DEF Combines, result, s

\* The laws of logic, on any operands.
LEMMA LogicLaws ==
  ASSUME r \in File
  PROVE  LogicIsBoolean
<1> DEFINE a == r["A"]
           b == r["B"]
           both   == AccumulatorLogic(r, "B", "AND")
           either == AccumulatorLogic(r, "B", "OR")
           differ == AccumulatorLogic(r, "B", "XOR")
           inverted == Cma(r)
           complemented == setRegister(inverted, "B", BitNot(b))
           masked == setRegister(either, "C", Cma(both)["A"])
           zero == AccumulatorLogic(r, "A", "XOR")
<1>1. /\ "A" \in Register \ {"F"} /\ "B" \in Register \ {"F"} /\ "C" \in Register \ {"F"}
      /\ "AND" \in LogicOperation /\ "OR" \in LogicOperation /\ "XOR" \in LogicOperation
      /\ a \in Byte /\ b \in Byte
  BY ReadersType DEF Register, LogicOperation
<1>2. \A x, y : /\ logicResult(x, y, "AND") = BitAnd(x, y)
                /\ logicResult(x, y, "OR") = BitOr(x, y)
                /\ logicResult(x, y, "XOR") = BitXor(x, y)
  BY DEF logicResult
<1>3. \A file \in File : Cma(file) \in File /\ Cma(file)["A"] = BitNot(file["A"])
  <2> SUFFICES ASSUME NEW file \in File
               PROVE  Cma(file) \in File /\ Cma(file)["A"] = BitNot(file["A"])
    OBVIOUS
  <2>1. file["A"] \in Byte
    BY <1>1, ReadersType
  <2>2. BitNot(file["A"]) \in Byte
    BY <2>1, LogicType
  <2>3. QED
    BY <1>1, <2>2, RegisterAfterSet DEF Cma, getRegister
<1>4. /\ Combines(r, both, "B", "AND")
      /\ Combines(r, either, "B", "OR")
      /\ Combines(r, differ, "B", "XOR")
      /\ Combines(r, zero, "A", "XOR")
  BY <1>1, LogicDone
<1> HIDE DEF a, b, both, either, differ, zero
<1>5. /\ both \in File /\ both["A"] = BitAnd(a, b)
      /\ either \in File /\ either["A"] = BitOr(a, b)
      /\ differ \in File /\ differ["A"] = BitXor(a, b) /\ differ["B"] = b
      /\ zero["A"] = BitXor(a, a)
      /\ getFlag(zero, "Z") <=> zero["A"] = 0
      /\ ~ getFlag(zero, "CY")
  BY <1>1, <1>2, <1>4 DEF Combines, a, b, Register
<1>6. /\ BitNot(a) \in Byte /\ BitNot(b) \in Byte /\ BitAnd(a, b) \in Byte
      /\ BitNot(BitAnd(a, b)) \in Byte
  BY <1>1, LogicType
<1>7. Cma(both)["A"] = BitNot(BitAnd(a, b))
  BY <1>3, <1>5
<1>8. complemented \in File /\ complemented["A"] = BitNot(a)
      /\ complemented["B"] = BitNot(b)
  <2>1. inverted \in File /\ inverted["A"] = BitNot(a)
    BY <1>3 DEF a
  <2> HIDE DEF inverted
  <2>2. "A" \in Register \ {"B"}
    BY DEF Register
  <2> DEFINE value == BitNot(b)
  <2>3. value \in Byte
    BY <1>6
  <2>4. complemented = setRegister(inverted, "B", value)
    OBVIOUS
  <2> HIDE DEF value, complemented
  <2>5. /\ complemented \in File /\ complemented["B"] = value
        /\ \A other \in Register \ {"B"} : complemented[other] = inverted[other]
    BY <1>1, <2>1, <2>3, <2>4, RegisterAfterSet
  <2>6. QED
    BY <2>1, <2>2, <2>5 DEF value
<1>9. masked \in File /\ masked["A"] = BitOr(a, b)
      /\ masked["C"] = BitNot(BitAnd(a, b))
  <2> DEFINE value == BitNot(BitAnd(a, b))
  <2>1. value \in Byte /\ masked = setRegister(either, "C", value)
    BY <1>6, <1>7
  <2>2. "A" \in Register \ {"C"}
    BY DEF Register
  <2> HIDE DEF value, masked
  <2>3. /\ masked \in File /\ masked["C"] = value
        /\ \A other \in Register \ {"C"} : masked[other] = either[other]
    BY <1>1, <1>5, <2>1, RegisterAfterSet
  <2>4. QED
    BY <1>5, <2>2, <2>3 DEF value
<1> HIDE DEF complemented, masked
<1>10. AccumulatorLogic(complemented, "B", "OR")["A"] = BitOr(BitNot(a), BitNot(b))
  <2>1. Combines(complemented, AccumulatorLogic(complemented, "B", "OR"), "B", "OR")
    BY <1>1, <1>8, LogicDone
  <2>2. QED
    BY <1>2, <1>8, <2>1, Zenon DEF Combines
<1>11. AccumulatorLogic(masked, "C", "AND")["A"]
         = BitAnd(BitOr(a, b), BitNot(BitAnd(a, b)))
  <2>1. Combines(masked, AccumulatorLogic(masked, "C", "AND"), "C", "AND")
    BY <1>1, <1>9, LogicDone
  <2>2. QED
    BY <1>2, <1>9, <2>1, Zenon DEF Combines
<1>12. AccumulatorLogic(differ, "B", "XOR")["A"] = BitXor(BitXor(a, b), b)
  <2>1. Combines(differ, AccumulatorLogic(differ, "B", "XOR"), "B", "XOR")
    BY <1>1, <1>5, LogicDone
  <2>2. QED
    BY <1>2, <1>5, <2>1, ZenonT(40) DEF Combines
<1>13. /\ Cma(both)["A"] = AccumulatorLogic(complemented, "B", "OR")["A"]
       /\ AccumulatorLogic(masked, "C", "AND")["A"] = differ["A"]
       /\ AccumulatorLogic(differ, "B", "XOR")["A"] = a
       /\ zero["A"] = 0 /\ getFlag(zero, "Z") /\ ~getFlag(zero, "CY")
  BY <1>1, <1>5, <1>7, <1>10, <1>11, <1>12, ByteAlgebra
<1>14. QED
  BY <1>13, Zenon
     DEF LogicIsBoolean, getRegister, a, b, both, either, differ, inverted,
         complemented, masked, zero

\* ANA, ORA, XRA and CMA are the Boolean algebra of bytes
\* (Fake8080.cpp:177-181, Fake8080.hpp:611-640).
THEOREM LogicFollowsBoole == LawsSpec => []LogicIsBoolean
<1>1. r \in Operands => LogicIsBoolean
  BY OperandIsFile, LogicLaws
<1>2. QED
  BY <1>1, OperandsKept, PTL

-----------------------------------------------------------------------------
\* CY and the accumulator as one ring of nine bits, CY the last.
Held(file, k) == IF k = 8 THEN getFlag(file, "CY") ELSE getBit(file["A"], k)

\* A byte shifted one place.
LEMMA ShiftedBits ==
  ASSUME NEW x \in Byte
  PROVE  /\ x \div 2 \in Byte /\ ToByte(2 * x) \in Byte
         /\ \A q \in 0 .. 6 : /\ getBit(x \div 2, q) <=> getBit(x, q + 1)
                              /\ getBit(ToByte(2 * x), q + 1) <=> getBit(x, q)
<1>0. x \in Int /\ 0 <= x /\ x <= 255
  BY ByteRange
<1>1. x \div 2 \in Byte /\ ToByte(2 * x) \in Byte
  <2>1. x \div 2 \in Byte
    BY <1>0, ByteRange
  <2>2. QED
    BY <1>0, <2>1, Converted
<1> DEFINE half == x \div 2
           twice == (2 * x) % 256
<1>2. half \in Int /\ 2 * half <= x /\ x <= 2 * half + 1
  BY <1>0
<1>3. /\ half \div 2 = x \div 4 /\ half \div 4 = x \div 8 /\ half \div 8 = x \div 16
      /\ half \div 16 = x \div 32 /\ half \div 32 = x \div 64 /\ half \div 64 = x \div 128
  BY <1>0
<1>4. /\ (twice \div 2) % 2 = x % 2
      /\ (twice \div 4) % 2 = (x \div 2) % 2
      /\ (twice \div 8) % 2 = (x \div 4) % 2
      /\ (twice \div 16) % 2 = (x \div 8) % 2
  BY <1>0
<1>5. /\ (twice \div 32) % 2 = (x \div 16) % 2
      /\ (twice \div 64) % 2 = (x \div 32) % 2
      /\ (twice \div 128) % 2 = (x \div 64) % 2
  BY <1>0
<1>6. half \div 1 = half /\ x \div 1 = x
  BY <1>0, <1>2
<1>7. half = x \div 2 /\ twice = ToByte(2 * x)
  BY DEF ToByte
<1> HIDE DEF half, twice
<1>8. ASSUME NEW q \in 0 .. 6
      PROVE  /\ Bit(half, q) = Bit(x, q + 1)
             /\ Bit(twice, q + 1) = Bit(x, q)
  <2>1. q = 0 \/ q = 1 \/ q = 2 \/ q = 3 \/ q = 4 \/ q = 5 \/ q = 6
    OBVIOUS
  <2>2. /\ Weight(0) = 1 /\ Weight(1) = 2 /\ Weight(2) = 4 /\ Weight(3) = 8
        /\ Weight(4) = 16 /\ Weight(5) = 32 /\ Weight(6) = 64 /\ Weight(7) = 128
    BY DEF Weight
  <2>3. Bit(half, q) = Bit(x, q + 1)
    BY <1>3, <1>6, <1>7, <2>1, <2>2 DEF Bit
  <2>4. Bit(twice, q + 1) = Bit(x, q)
    BY <1>4, <1>5, <1>6, <2>1, <2>2 DEF Bit
  <2>5. QED
    BY <2>3, <2>4
<1>9. QED
  BY <1>1, <1>7, <1>8 DEF getBit

\* A rotation of the accumulator, bit by bit: through the carry it turns the
\* ring of nine, around it the ring of eight, and CY gets the bit that leaves.
Turned(file, s, direction, rotateThrough) ==
  /\ s \in File
  /\ \A other \in Register \ {"A", "F"} : s[other] = file[other]
  /\ \A q \in BitPosition \ {0} : getBit(s["F"], q) <=> getBit(file["F"], q)
  /\ direction = "LEFT" =>
       /\ \A k \in 1 .. 7 : Held(s, k) <=> Held(file, k - 1)
       /\ Held(s, 8) <=> Held(file, 7)
       /\ Held(s, 0) <=> (IF rotateThrough THEN Held(file, 8) ELSE Held(file, 7))
  /\ direction = "RIGHT" =>
       /\ \A k \in 0 .. 6 : Held(s, k) <=> Held(file, k + 1)
       /\ Held(s, 8) <=> Held(file, 0)
       /\ Held(s, 7) <=> (IF rotateThrough THEN Held(file, 8) ELSE Held(file, 0))

\* Any of RLC, RRC, RAL and RAR does that (Fake8080.hpp:650-677).
LEMMA RotateDone ==
  ASSUME NEW file \in File, NEW direction \in ShiftDirection, NEW rotateThrough \in BOOLEAN
  PROVE  Turned(file, Rotate(file, "A", direction, rotateThrough), direction, rotateThrough)
<1> DEFINE value    == file["A"]
           exitBit  == getBit(value, exitBitPosition(direction))
           shifted  == IF direction = "RIGHT" THEN value \div 2 ELSE ToByte(2 * value)
           entryBit == IF rotateThrough THEN getFlag(file, "CY") ELSE exitBit
           position == entryBitPosition(direction)
           written  == setBit(shifted, position, entryBit)
           flagged  == setFlag(file, "CY", exitBit)
           s == Rotate(file, "A", direction, rotateThrough)
<1>1. /\ "A" \in Register \ {"F"} /\ "CY" \in Flags /\ FlagsShifts["CY"] = 0
      /\ direction = "LEFT" \/ direction = "RIGHT"
  BY DEF Register, Flags, FlagsShifts, ShiftDirection
<1>2. value \in Byte
  BY <1>1, ReadersType
<1>3. exitBit \in BOOLEAN /\ entryBit \in BOOLEAN /\ position \in BitPosition
  <2>1. exitBit \in BOOLEAN
    BY DEF getBit
  <2>2. entryBit \in BOOLEAN
    BY <1>1, <2>1, ReadersType, Zenon
  <2>3. position \in BitPosition
    BY DEF entryBitPosition, BitPosition
  <2>4. QED
    BY <2>1, <2>2, <2>3
<1>4. shifted \in Byte
  BY <1>2, ShiftedBits
<1>5. s = setRegister(flagged, "A", written)
  BY Zenon DEF Rotate, getRegister
<1>6. /\ direction = "LEFT" => /\ position = 0 /\ shifted = ToByte(2 * value)
                               /\ exitBit <=> getBit(value, 7)
      /\ direction = "RIGHT" => /\ position = 7 /\ shifted = value \div 2
                                /\ exitBit <=> getBit(value, 0)
  BY DEF entryBitPosition, exitBitPosition
<1>7. entryBit <=> IF rotateThrough THEN getFlag(file, "CY") ELSE exitBit
  OBVIOUS
<1> HIDE DEF exitBit, shifted, entryBit, position
<1>8. /\ flagged \in File
      /\ \A q \in BitPosition : /\ q = 1 => getBit(flagged["F"], q)
                                /\ q = 0 => (getBit(flagged["F"], q) <=> exitBit)
                                /\ q # 1 /\ q # 0 =>
                                     (getBit(flagged["F"], q) <=> getBit(file["F"], q))
  BY <1>1, <1>3, SetFlagType, BitsAfterFlag
<1>9. \A other \in Register \ {"F"} : flagged[other] = file[other]
  BY DEF setFlag, File, RegisterFile
<1> HIDE DEF flagged
<1>10. /\ written \in Byte
       /\ \A q \in BitPosition : /\ q = position => (getBit(written, q) <=> entryBit)
                                 /\ q # position => (getBit(written, q) <=> getBit(shifted, q))
  BY <1>3, <1>4, SetBitType, BitAfterSet
<1> HIDE DEF written
<1>11. /\ s \in File /\ s["A"] = written
       /\ \A other \in Register \ {"A"} : s[other] = flagged[other]
  BY <1>1, <1>5, <1>8, <1>10, RegisterAfterSet
<1>12. getFlag(s, "CY") <=> exitBit
  <2>1. s["F"] = flagged["F"] /\ 0 \in BitPosition
    BY <1>11 DEF Register, BitPosition
  <2>2. QED
    BY <1>1, <1>8, <2>1 DEF getFlag, getRegister
<1>13. file \in File /\ getBit(file["F"], 1)
  BY DEF File
<1> HIDE DEF s
<1>14. \A q \in BitPosition \ {0} : getBit(s["F"], q) <=> getBit(file["F"], q)
  <2>1. s["F"] = flagged["F"]
    BY <1>11 DEF Register
  <2>2. QED
    BY <1>8, <1>13, <2>1
<1>15. \A other \in Register \ {"A", "F"} : s[other] = file[other]
  BY <1>9, <1>11
<1>16. /\ \A k \in 0 .. 7 : /\ Held(s, k) <=> getBit(written, k)
                            /\ Held(file, k) <=> getBit(value, k)
       /\ Held(s, 8) <=> exitBit
       /\ Held(file, 8) <=> getFlag(file, "CY")
  BY <1>11, <1>12 DEF Held
<1> HIDE DEF value
<1>17. CASE direction = "LEFT"
  <2>1. \A k \in 1 .. 7 : getBit(written, k) <=> getBit(value, k - 1)
    <3> SUFFICES ASSUME NEW k \in 1 .. 7 PROVE getBit(written, k) <=> getBit(value, k - 1)
      OBVIOUS
    <3> DEFINE j == k - 1
    <3>1. j \in 0 .. 6 /\ k = j + 1 /\ k \in BitPosition /\ k # 0
      BY DEF BitPosition
    <3> HIDE DEF j
    <3>2. getBit(ToByte(2 * value), j + 1) <=> getBit(value, j)
      BY <1>2, <3>1, ShiftedBits
    <3>3. getBit(written, k) <=> getBit(shifted, k)
      BY <1>6, <1>10, <1>17, <3>1
    <3>4. QED
      BY <1>6, <1>17, <3>1, <3>2, <3>3 DEF j
  <2>2. getBit(written, 0) <=> entryBit
    BY <1>3, <1>6, <1>10, <1>17
  <2>3. \A k \in 1 .. 7 : Held(s, k) <=> Held(file, k - 1)
    <3> SUFFICES ASSUME NEW k \in 1 .. 7 PROVE Held(s, k) <=> Held(file, k - 1)
      OBVIOUS
    <3>1. k \in 0 .. 7 /\ k - 1 \in 0 .. 7
      OBVIOUS
    <3>2. QED
      BY <1>16, <2>1, <3>1
  <2>4. /\ Held(s, 8) <=> Held(file, 7)
        /\ Held(s, 0) <=> (IF rotateThrough THEN Held(file, 8) ELSE Held(file, 7))
    BY <1>6, <1>7, <1>16, <1>17, <2>2
  <2>5. QED
    BY <1>11, <1>14, <1>15, <1>17, <2>3, <2>4 DEF Turned, s
<1>18. CASE direction = "RIGHT"
  <2>1. \A k \in 0 .. 6 : getBit(written, k) <=> getBit(value, k + 1)
    <3> SUFFICES ASSUME NEW k \in 0 .. 6 PROVE getBit(written, k) <=> getBit(value, k + 1)
      OBVIOUS
    <3>1. k \in BitPosition /\ k # 7
      BY DEF BitPosition
    <3>2. getBit(value \div 2, k) <=> getBit(value, k + 1)
      BY <1>2, ShiftedBits
    <3>3. getBit(written, k) <=> getBit(shifted, k)
      BY <1>6, <1>10, <1>18, <3>1
    <3>4. QED
      BY <1>6, <1>18, <3>2, <3>3
  <2>2. getBit(written, 7) <=> entryBit
    BY <1>3, <1>6, <1>10, <1>18
  <2>3. \A k \in 0 .. 6 : Held(s, k) <=> Held(file, k + 1)
    <3> SUFFICES ASSUME NEW k \in 0 .. 6 PROVE Held(s, k) <=> Held(file, k + 1)
      OBVIOUS
    <3>1. k \in 0 .. 7 /\ k + 1 \in 0 .. 7
      OBVIOUS
    <3>2. QED
      BY <1>16, <2>1, <3>1
  <2>4. /\ Held(s, 8) <=> Held(file, 0)
        /\ Held(s, 7) <=> (IF rotateThrough THEN Held(file, 8) ELSE Held(file, 0))
    BY <1>6, <1>7, <1>16, <1>18, <2>2
  <2>5. QED
    BY <1>11, <1>14, <1>15, <1>18, <2>3, <2>4 DEF Turned, s
<1>19. QED
  BY <1>1, <1>17, <1>18

\* What CY and the accumulator hold, with the other bits of F, is the file.
LEMMA SameRing ==
  ASSUME NEW f \in File, NEW g \in File,
         \A other \in Register \ {"A", "F"} : f[other] = g[other],
         \A q \in BitPosition \ {0} : getBit(f["F"], q) <=> getBit(g["F"], q),
         \A k \in 0 .. 8 : Held(f, k) <=> Held(g, k)
  PROVE  f = g
<1>1. f["A"] \in Byte /\ g["A"] \in Byte /\ FlagsShifts["CY"] = 0
  BY ReadersType DEF Register, FlagsShifts
<1>2. f["A"] = g["A"]
  <2>1. \A q \in BitPosition : getBit(f["A"], q) <=> getBit(g["A"], q)
    BY DEF Held, BitPosition
  <2>2. QED
    BY <1>1, <2>1, SameByte
<1>3. getBit(f["F"], 0) <=> getBit(g["F"], 0)
  <2>1. Held(f, 8) <=> Held(g, 8)
    OBVIOUS
  <2>2. QED
    BY <1>1, <2>1 DEF Held, getFlag, getRegister
<1>4. \A q \in BitPosition : getBit(f["F"], q) <=> getBit(g["F"], q)
  BY <1>3
<1>5. \A reg \in Register \ {"F"} : f[reg] = g[reg]
  BY <1>2
<1>6. QED
  BY <1>4, <1>5, SameFile

\* RAR after RAL, and RAL after RAR, leave the file as it was.
LEMMA TurnsCancel ==
  ASSUME NEW file \in File
  PROVE  /\ Rotate(Rotate(file, "A", "LEFT", TRUE), "A", "RIGHT", TRUE) = file
         /\ Rotate(Rotate(file, "A", "RIGHT", TRUE), "A", "LEFT", TRUE) = file
<1> DEFINE yes == TRUE
           left == Rotate(file, "A", "LEFT", yes)
           right == Rotate(file, "A", "RIGHT", yes)
           back == Rotate(left, "A", "RIGHT", yes)
           forth == Rotate(right, "A", "LEFT", yes)
<1>1. yes \in BOOLEAN /\ yes /\ "LEFT" \in ShiftDirection /\ "RIGHT" \in ShiftDirection
  BY DEF ShiftDirection
<1> HIDE DEF yes
<1>2. Turned(file, left, "LEFT", yes) /\ Turned(file, right, "RIGHT", yes)
  BY <1>1, RotateDone
<1> HIDE DEF left, right
<1>3. left \in File /\ right \in File
  BY <1>2 DEF Turned
<1>4. Turned(left, back, "RIGHT", yes) /\ Turned(right, forth, "LEFT", yes)
  BY <1>1, <1>3, RotateDone
<1> HIDE DEF back, forth
<1>5. back = file
  <2>1. /\ back \in File
        /\ \A other \in Register \ {"A", "F"} : back[other] = file[other]
        /\ \A q \in BitPosition \ {0} : getBit(back["F"], q) <=> getBit(file["F"], q)
    BY <1>2, <1>4 DEF Turned
  <2>2. /\ \A k \in 1 .. 7 : Held(left, k) <=> Held(file, k - 1)
        /\ Held(left, 8) <=> Held(file, 7)
        /\ Held(left, 0) <=> Held(file, 8)
        /\ \A k \in 0 .. 6 : Held(back, k) <=> Held(left, k + 1)
        /\ Held(back, 8) <=> Held(left, 0)
        /\ Held(back, 7) <=> Held(left, 8)
    BY <1>1, <1>2, <1>4 DEF Turned
  <2>3. \A k \in 0 .. 8 : Held(back, k) <=> Held(file, k)
    BY <2>2
  <2>4. QED
    BY <2>1, <2>3, SameRing
<1>6. forth = file
  <2>1. /\ forth \in File
        /\ \A other \in Register \ {"A", "F"} : forth[other] = file[other]
        /\ \A q \in BitPosition \ {0} : getBit(forth["F"], q) <=> getBit(file["F"], q)
    BY <1>2, <1>4 DEF Turned
  <2>2. /\ \A k \in 0 .. 6 : Held(right, k) <=> Held(file, k + 1)
        /\ Held(right, 8) <=> Held(file, 0)
        /\ Held(right, 7) <=> Held(file, 8)
        /\ \A k \in 1 .. 7 : Held(forth, k) <=> Held(right, k - 1)
        /\ Held(forth, 8) <=> Held(right, 7)
        /\ Held(forth, 0) <=> Held(right, 8)
    BY <1>1, <1>2, <1>4 DEF Turned
  <2>3. \A k \in 0 .. 8 : Held(forth, k) <=> Held(file, k)
    BY <2>2
  <2>4. QED
    BY <2>1, <2>3, SameRing
<1>7. QED
  BY <1>5, <1>6 DEF back, forth, left, right, yes

\* The files of up to nine turns, one after the other.
Turns(file, direction, rotateThrough, t) ==
  /\ t[0] = file
  /\ \A i \in 1 .. 9 : t[i] = Rotate(t[i - 1], "A", direction, rotateThrough)

\* The same rotation n times, for the numbers of turns the laws count.
LEMMA RotatedIsTurns ==
  ASSUME NEW file, NEW direction, NEW rotateThrough, NEW t,
         Turns(file, direction, rotateThrough, t), NEW n \in 0 .. 9
  PROVE  Rotated(file, direction, rotateThrough, n) = t[n]
<1> DEFINE Next(x) == Rotate(x, "A", direction, rotateThrough)
           Is(f) == f = [i \in 0 .. n |-> IF i = 0 THEN file ELSE Next(f[i - 1])]
           turn == CHOOSE f : Is(f)
           some == [i \in 0 .. n |-> t[i]]
<1>1. Rotated(file, direction, rotateThrough, n) = turn[n]
  BY DEF Rotated
<1> HIDE DEF Next
<1>2. t[0] = file /\ \A i \in 1 .. 9 : t[i] = Next(t[i - 1])
  BY DEF Turns, Next
<1>3. Is(some)
  <2>1. \A i \in 0 .. n : t[i] = IF i = 0 THEN file ELSE Next(some[i - 1])
    BY <1>2
  <2>2. QED
    BY <2>1
<1>4. Is(turn)
  <2> HIDE DEF Is, some
  <2>1. QED
    BY <1>3, Zenon
<1> HIDE DEF turn
<1>5. turn[0] = file /\ \A i \in 1 .. n : turn[i] = Next(turn[i - 1])
  <2>1. \A i \in 0 .. n : turn[i] = IF i = 0 THEN file ELSE Next(turn[i - 1])
    BY <1>4
  <2>2. QED
    BY <2>1
<1> HIDE DEF Is
<1>6. \A i \in 0 .. 8 : i + 1 <= n /\ turn[i] = t[i] => turn[i + 1] = t[i + 1]
  <2> SUFFICES ASSUME NEW i \in 0 .. 8, i + 1 <= n, turn[i] = t[i]
               PROVE  turn[i + 1] = t[i + 1]
    OBVIOUS
  <2>1. i + 1 \in 1 .. n /\ i + 1 \in 1 .. 9 /\ (i + 1) - 1 = i
    OBVIOUS
  <2>2. QED
    BY <1>2, <1>5, <2>1
<1>7. turn[0] = t[0]
  BY <1>2, <1>5
<1>8. (1 <= n => turn[1] = t[1]) /\ (2 <= n => turn[2] = t[2]) /\ (3 <= n => turn[3] = t[3])
  BY <1>6, <1>7
<1>9. (4 <= n => turn[4] = t[4]) /\ (5 <= n => turn[5] = t[5]) /\ (6 <= n => turn[6] = t[6])
  BY <1>6, <1>8
<1>10. (7 <= n => turn[7] = t[7]) /\ (8 <= n => turn[8] = t[8]) /\ (9 <= n => turn[9] = t[9])
  BY <1>6, <1>9
<1>11. turn[n] = t[n]
  BY <1>7, <1>8, <1>9, <1>10
<1>12. QED
  BY <1>1, <1>11

\* There are such files.
LEMMA TurnsExist ==
  ASSUME NEW file, NEW direction, NEW rotateThrough
  PROVE  \E t : Turns(file, direction, rotateThrough, t)
<1> DEFINE Next(x) == Rotate(x, "A", direction, rotateThrough)
           t1 == Next(file)
           t2 == Next(t1)
           t3 == Next(t2)
           t4 == Next(t3)
           t5 == Next(t4)
           t6 == Next(t5)
           t7 == Next(t6)
           t8 == Next(t7)
           t9 == Next(t8)
           list == <<file, t1, t2, t3, t4, t5, t6, t7, t8, t9>>
           t == [i \in 0 .. 9 |-> list[i + 1]]
<1> HIDE DEF Next
<1>1. /\ t1 = Next(file) /\ t2 = Next(t1) /\ t3 = Next(t2) /\ t4 = Next(t3)
      /\ t5 = Next(t4) /\ t6 = Next(t5) /\ t7 = Next(t6) /\ t8 = Next(t7)
      /\ t9 = Next(t8)
  OBVIOUS
<1> HIDE DEF t1, t2, t3, t4, t5, t6, t7, t8, t9
<1>2. /\ t[0] = file /\ t[1] = t1 /\ t[2] = t2 /\ t[3] = t3 /\ t[4] = t4
      /\ t[5] = t5 /\ t[6] = t6 /\ t[7] = t7 /\ t[8] = t8 /\ t[9] = t9
  OBVIOUS
<1> HIDE DEF t
<1>3. \A i \in 1 .. 9 : t[i] = Next(t[i - 1])
  <2> SUFFICES ASSUME NEW i \in 1 .. 9 PROVE t[i] = Next(t[i - 1])
    OBVIOUS
  <2>1. \/ i = 1 \/ i = 2 \/ i = 3 \/ i = 4 \/ i = 5 \/ i = 6 \/ i = 7 \/ i = 8 \/ i = 9
    OBVIOUS
  <2>2. QED
    BY <1>1, <1>2, <2>1
<1>4. Turns(file, direction, rotateThrough, t)
  BY <1>2, <1>3 DEF Turns, Next
<1>5. QED
  BY <1>4

\* The ring of so many bits of f, n places on, in g.
Ring(size, f, g, n) == \A k \in 0 .. size - 1 : Held(g, (k + n) % size) <=> Held(f, k)

\* Two turns are one longer turn.
LEMMA RingThrough ==
  ASSUME NEW size \in {8, 9}, NEW f, NEW g, NEW h,
         NEW m \in 0 .. size - 1, NEW n \in 0 .. size - 1,
         Ring(size, f, g, m), Ring(size, g, h, n)
  PROVE  Ring(size, f, h, (m + n) % size)
<1> SUFFICES ASSUME NEW k \in 0 .. size - 1
             PROVE  Held(h, (k + ((m + n) % size)) % size) <=> Held(f, k)
  BY DEF Ring
<1>1. /\ (k + m) % size \in 0 .. size - 1
      /\ (((k + m) % size) + n) % size = (k + ((m + n) % size)) % size
  <2>1. CASE size = 8
    <3>1. k \in Int /\ m \in Int /\ n \in Int
      BY <2>1
    <3>2. ((k + m) % 8) \in 0 .. 7 /\ (((k + m) % 8) + n) % 8 = (k + ((m + n) % 8)) % 8
      BY <3>1
    <3>3. QED
      BY <2>1, <3>2
  <2>2. CASE size = 9
    <3>1. k \in Int /\ m \in Int /\ n \in Int
      BY <2>2
    <3>2. ((k + m) % 9) \in 0 .. 8 /\ (((k + m) % 9) + n) % 9 = (k + ((m + n) % 9)) % 9
      BY <3>1
    <3>3. QED
      BY <2>2, <3>2
  <2>3. QED
    BY <2>1, <2>2
<1>2. Held(g, (k + m) % size) <=> Held(f, k)
  BY DEF Ring
<1>3. Held(h, (((k + m) % size) + n) % size) <=> Held(g, (k + m) % size)
  BY <1>1 DEF Ring
<1>4. QED
  BY <1>1, <1>2, <1>3, Zenon

\* A turn moves its ring one place, and the files it passes through are files
\* whose other registers and flags are the first one's.
LEMMA TurnByTurn ==
  ASSUME NEW file \in File, NEW direction \in ShiftDirection, NEW rotateThrough \in BOOLEAN,
         NEW t, Turns(file, direction, rotateThrough, t)
  PROVE  \A i \in 1 .. 9 : t[i - 1] \in File /\ Turned(t[i - 1], t[i], direction, rotateThrough)
<1>1. t[0] \in File /\ \A i \in 1 .. 9 : t[i] = Rotate(t[i - 1], "A", direction, rotateThrough)
  BY DEF Turns
<1> DEFINE Step(i) == Turned(t[i - 1], t[i], direction, rotateThrough)
<1>2. \A i \in 1 .. 9 : t[i - 1] \in File => Step(i) /\ t[i] \in File
  <2> SUFFICES ASSUME NEW i \in 1 .. 9, t[i - 1] \in File PROVE Step(i) /\ t[i] \in File
    OBVIOUS
  <2>1. Turned(t[i - 1], Rotate(t[i - 1], "A", direction, rotateThrough), direction,
               rotateThrough)
    BY RotateDone
  <2>2. Step(i)
    BY <1>1, <2>1, Zenon
  <2>3. t[i] \in File
    BY <2>2 DEF Turned
  <2>4. QED
    BY <2>2, <2>3
<1> HIDE DEF Step
<1>3. t[1] \in File /\ t[2] \in File /\ t[3] \in File
  BY <1>1, <1>2
<1>4. t[4] \in File /\ t[5] \in File /\ t[6] \in File
  BY <1>2, <1>3
<1>5. t[7] \in File /\ t[8] \in File /\ t[9] \in File
  BY <1>2, <1>4
<1>6. \A i \in 1 .. 9 : t[i - 1] \in File
  <2> SUFFICES ASSUME NEW i \in 1 .. 9 PROVE t[i - 1] \in File
    OBVIOUS
  <2>1. \/ i = 1 \/ i = 2 \/ i = 3 \/ i = 4 \/ i = 5 \/ i = 6 \/ i = 7 \/ i = 8 \/ i = 9
    OBVIOUS
  <2>2. QED
    BY <1>1, <1>3, <1>4, <1>5, <2>1
<1>7. QED
  BY <1>2, <1>6 DEF Step

\* What a rotation never touches, however often it is repeated.
Beside(f, g) ==
  /\ \A other \in Register \ {"A", "F"} : g[other] = f[other]
  /\ \A q \in BitPosition \ {0} : getBit(g["F"], q) <=> getBit(f["F"], q)

\* Nine turns leave the rest of the file.
LEMMA BesideTurns ==
  ASSUME NEW t, NEW direction, NEW rotateThrough,
         \A i \in 1 .. 9 : Turned(t[i - 1], t[i], direction, rotateThrough)
  PROVE  Beside(t[0], t[9])
<1>1. \A i \in 1 .. 9 : Beside(t[i - 1], t[i])
  BY DEF Turned, Beside
<1>2. \A f, g, h : Beside(f, g) /\ Beside(g, h) => Beside(f, h)
  BY DEF Beside
<1>3. /\ Beside(t[0], t[1]) /\ Beside(t[1], t[2]) /\ Beside(t[2], t[3])
      /\ Beside(t[3], t[4]) /\ Beside(t[4], t[5]) /\ Beside(t[5], t[6])
      /\ Beside(t[6], t[7]) /\ Beside(t[7], t[8]) /\ Beside(t[8], t[9])
  BY <1>1
<1>4. Beside(t[0], t[3]) /\ Beside(t[3], t[6]) /\ Beside(t[6], t[9])
  BY <1>2, <1>3, Zenon
<1>5. QED
  BY <1>2, <1>4, Zenon

\* The places on, turn by turn, of a ring that moves n places at a time.
LEMMA RingTurns ==
  ASSUME NEW size \in {8, 9}, NEW t, NEW n \in {1, size - 1},
         \A i \in 1 .. size : Ring(size, t[i - 1], t[i], n)
  PROVE  /\ Ring(size, t[0], t[size - 1], IF n = 1 THEN size - 1 ELSE 1)
         /\ Ring(size, t[0], t[size], 0)
<1> DEFINE place(i) == IF n = 1 THEN i % size ELSE (size - i) % size
           At(i) == Ring(size, t[0], t[i], place(i))
<1>1. At(1)
  <2>1. Ring(size, t[0], t[1], n) /\ place(1) = n
    BY SMT
  <2> HIDE DEF place
  <2>2. QED
    BY <2>1
<1>2. ASSUME NEW i \in 1 .. size - 1, At(i)
      PROVE  At(i + 1)
  <2>1. Ring(size, t[i], t[i + 1], n)
    BY SMT
  <2>2. /\ place(i) \in 0 .. size - 1 /\ n \in 0 .. size - 1
        /\ (place(i) + n) % size = place(i + 1)
    BY SMT
  <2> HIDE DEF place
  <2>3. Ring(size, t[0], t[i + 1], (place(i) + n) % size)
    BY <1>2, <2>1, <2>2, RingThrough
  <2>4. QED
    BY <2>2, <2>3
<1> HIDE DEF At
<1>3. At(2) /\ At(3) /\ At(4)
  BY <1>1, <1>2
<1>4. At(5) /\ At(6) /\ At(7)
  BY <1>2, <1>3
<1>5. At(8) /\ (size = 9 => At(9))
  BY <1>2, <1>4
<1>6. At(size - 1) /\ At(size)
  BY <1>4, <1>5
<1>7. place(size - 1) = (IF n = 1 THEN size - 1 ELSE 1) /\ place(size) = 0
  BY SMT
<1> HIDE DEF place
<1>8. QED
  BY <1>6, <1>7 DEF At

\* Nine turns through the carry bring the ring of nine home.
LEMMA NineTurns ==
  ASSUME NEW file \in File
  PROVE  Rotated(file, "LEFT", TRUE, 9) = file
<1> DEFINE yes == TRUE
<1>1. yes \in BOOLEAN /\ yes /\ "LEFT" \in ShiftDirection
  BY DEF ShiftDirection
<1> HIDE DEF yes
<1>2. PICK t : Turns(file, "LEFT", yes, t)
  BY TurnsExist
<1>3. t[0] = file
  BY <1>2 DEF Turns
<1>4. \A i \in 1 .. 9 : t[i - 1] \in File /\ Turned(t[i - 1], t[i], "LEFT", yes)
  BY <1>1, <1>2, TurnByTurn
<1>5. Beside(t[0], t[9])
  BY <1>4, BesideTurns
<1>6. \A i \in 1 .. 9 : Ring(9, t[i - 1], t[i], 1)
  <2> SUFFICES ASSUME NEW i \in 1 .. 9, NEW k \in 0 .. 8
               PROVE  Held(t[i], (k + 1) % 9) <=> Held(t[i - 1], k)
    BY DEF Ring
  <2>1. /\ \A j \in 1 .. 7 : Held(t[i], j) <=> Held(t[i - 1], j - 1)
        /\ Held(t[i], 8) <=> Held(t[i - 1], 7)
        /\ Held(t[i], 0) <=> Held(t[i - 1], 8)
    BY <1>1, <1>4 DEF Turned
  <2>2. k \in 0 .. 6 => (k + 1) % 9 \in 1 .. 7 /\ ((k + 1) % 9) - 1 = k
    OBVIOUS
  <2>3. k = 7 => (k + 1) % 9 = 8
    OBVIOUS
  <2>4. k = 8 => (k + 1) % 9 = 0
    OBVIOUS
  <2>5. QED
    BY <2>1, <2>2, <2>3, <2>4
<1>7. Ring(9, t[0], t[9], 0)
  BY <1>6, RingTurns
<1>8. \A k \in 0 .. 8 : Held(t[9], k) <=> Held(t[0], k)
  <2>1. \A k \in 0 .. 8 : (k + 0) % 9 = k
    OBVIOUS
  <2>2. QED
    BY <1>7, <2>1 DEF Ring
<1>9. t[9] \in File
  BY <1>4 DEF Turned
<1>10. t[9] = file
  BY <1>3, <1>5, <1>8, <1>9, SameRing DEF Beside
<1>11. Rotated(file, "LEFT", yes, 9) = t[9]
  BY <1>2, RotatedIsTurns
<1>12. QED
  BY <1>10, <1>11 DEF yes

\* Eight turns around the carry bring the accumulator home, and CY holds the
\* bit that left last.
LEMMA EightTurns ==
  ASSUME NEW file \in File, NEW direction \in ShiftDirection
  PROVE  LET turned == Rotated(file, direction, FALSE, 8)
         IN  /\ turned["A"] = file["A"]
             /\ getFlag(turned, "CY")
                  <=> getBit(file["A"], IF direction = "LEFT" THEN 0 ELSE 7)
<1> DEFINE no == FALSE
<1>1. no \in BOOLEAN /\ ~no /\ (direction = "LEFT" \/ direction = "RIGHT")
  BY DEF ShiftDirection
<1>2. Rotated(file, direction, FALSE, 8) = Rotated(file, direction, no, 8)
  OBVIOUS
<1> HIDE DEF no
<1>3. PICK t : Turns(file, direction, no, t)
  BY TurnsExist
<1>4. t[0] = file
  BY <1>3 DEF Turns
<1>5. \A i \in 1 .. 9 : t[i - 1] \in File /\ Turned(t[i - 1], t[i], direction, no)
  BY <1>1, <1>3, TurnByTurn
<1> DEFINE n == IF direction = "LEFT" THEN 1 ELSE 7
<1>6. \A i \in 1 .. 8 : Ring(8, t[i - 1], t[i], n)
  <2> SUFFICES ASSUME NEW i \in 1 .. 8, NEW k \in 0 .. 7
               PROVE  Held(t[i], (k + n) % 8) <=> Held(t[i - 1], k)
    BY DEF Ring
  <2>0. i \in 1 .. 9
    OBVIOUS
  <2>1. CASE direction = "LEFT"
    <3>1. /\ \A j \in 1 .. 7 : Held(t[i], j) <=> Held(t[i - 1], j - 1)
          /\ Held(t[i], 0) <=> Held(t[i - 1], 7)
      BY <1>1, <1>5, <2>0, <2>1 DEF Turned
    <3>2. k \in 0 .. 6 => (k + 1) % 8 \in 1 .. 7 /\ ((k + 1) % 8) - 1 = k
      OBVIOUS
    <3>3. k = 7 => (k + 1) % 8 = 0
      OBVIOUS
    <3>4. n = 1
      BY <2>1
    <3> HIDE DEF n
    <3>5. QED
      BY <3>1, <3>2, <3>3, <3>4
  <2>2. CASE direction = "RIGHT"
    <3>1. /\ \A j \in 0 .. 6 : Held(t[i], j) <=> Held(t[i - 1], j + 1)
          /\ Held(t[i], 7) <=> Held(t[i - 1], 0)
      BY <1>1, <1>5, <2>0, <2>2 DEF Turned
    <3>2. k \in 1 .. 7 => (k + 7) % 8 \in 0 .. 6 /\ ((k + 7) % 8) + 1 = k
      OBVIOUS
    <3>3. k = 0 => (k + 7) % 8 = 7
      OBVIOUS
    <3>4. n = 7
      BY <2>2
    <3> HIDE DEF n
    <3>5. QED
      BY <3>1, <3>2, <3>3, <3>4
  <2>3. QED
    BY <1>1, <2>1, <2>2
<1>7. /\ Ring(8, t[0], t[7], IF n = 1 THEN 7 ELSE 1)
      /\ Ring(8, t[0], t[8], 0)
  <2>1. n \in {1, 8 - 1}
    OBVIOUS
  <2> HIDE DEF n
  <2>2. /\ Ring(8, t[0], t[8 - 1], IF n = 1 THEN 8 - 1 ELSE 1)
        /\ Ring(8, t[0], t[8], 0)
    BY <1>6, <2>1, RingTurns
  <2>3. QED
    BY <2>2
<1>8. \A k \in 0 .. 7 : getBit(t[8]["A"], k) <=> getBit(t[0]["A"], k)
  <2>1. \A k \in 0 .. 7 : (k + 0) % 8 = k
    OBVIOUS
  <2>2. \A k \in 0 .. 7 : Held(t[8], k) <=> Held(t[0], k)
    BY <1>7, <2>1 DEF Ring
  <2>3. QED
    BY <2>2 DEF Held
<1>9. t[0] \in File /\ t[8] \in File
  BY <1>5
<1>10. t[8]["A"] = file["A"]
  <2>1. t[8]["A"] \in Byte /\ t[0]["A"] \in Byte
    BY <1>9, ReadersType DEF Register
  <2>2. QED
    BY <1>4, <1>8, <2>1, SameByte DEF BitPosition
<1>11. getFlag(t[8], "CY") <=> getBit(file["A"], IF direction = "LEFT" THEN 0 ELSE 7)
  <2>1. CASE direction = "LEFT"
    <3>1. Held(t[8], 8) <=> Held(t[7], 7)
      BY <1>5, <2>1 DEF Turned
    <3>2. Ring(8, t[0], t[7], 7) /\ (0 + 7) % 8 = 7
      BY <1>7, <2>1
    <3>3. Held(t[7], 7) <=> Held(t[0], 0)
      BY <3>2 DEF Ring
    <3>4. QED
      BY <1>4, <2>1, <3>1, <3>3 DEF Held
  <2>2. CASE direction = "RIGHT"
    <3>1. Held(t[8], 8) <=> Held(t[7], 0)
      BY <1>5, <2>2 DEF Turned
    <3>2. Ring(8, t[0], t[7], 1) /\ (7 + 1) % 8 = 0
      BY <1>7, <2>2
    <3>3. Held(t[7], 0) <=> Held(t[0], 7)
      BY <3>2 DEF Ring
    <3>4. QED
      BY <1>4, <2>2, <3>1, <3>3 DEF Held
  <2>3. QED
    BY <1>1, <2>1, <2>2
<1>12. Rotated(file, direction, no, 8) = t[8]
  BY <1>3, RotatedIsTurns
<1>13. QED
  BY <1>2, <1>10, <1>11, <1>12

\* No bit is lost in a rotation, through the carry or around it
\* (Fake8080.hpp:650-677).
THEOREM RotationsKeepBits == LawsSpec => []RotationsLoseNothing
<1>1. r \in Operands => RotationsLoseNothing
  <2> SUFFICES ASSUME r \in Operands PROVE RotationsLoseNothing
    OBVIOUS
  <2>1. r \in File
    BY OperandIsFile
  <2>2. ASSUME NEW direction \in ShiftDirection
        PROVE  LET turned == Rotated(r, direction, FALSE, 8)
               IN  /\ turned["A"] = r["A"]
                   /\ getFlag(turned, "CY")
                        = getBit(r["A"], IF direction = "LEFT" THEN 0 ELSE 7)
    <3> DEFINE turned == Rotated(r, direction, FALSE, 8)
               last == IF direction = "LEFT" THEN 0 ELSE 7
    <3>1. turned["A"] = r["A"] /\ (getFlag(turned, "CY") <=> getBit(r["A"], last))
      BY <2>1, EightTurns
    <3> HIDE DEF turned, last
    <3>2. getFlag(turned, "CY") = getBit(r["A"], last)
      BY <3>1 DEF getFlag, getBit
    <3>3. QED
      BY <3>1, <3>2 DEF turned, last
  <2>3. QED
    BY <2>1, <2>2, TurnsCancel, NineTurns, Zenon DEF RotationsLoseNothing
<1>2. QED
  BY <1>1, OperandsKept, PTL

-----------------------------------------------------------------------------
\* Two corrections of a wrapped sum, in numbers: low is the accumulator after the
\* first, high after the second.
Corrected(sum, wrapped, half, low, carry, high) ==
  /\ low = IF half \/ sum % 16 > 9 THEN (sum + 6) % 256 ELSE sum
  /\ carry <=> wrapped \/ low \div 16 > 9
  /\ high = IF carry THEN (low + 96) % 256 ELSE low

\* The binary sum of two numbers of two decimal digits and a carry, its carries
\* beside it, when the first correction does not wrap.
SumOfDigits(ah, al, bh, bl, c, sum, wrapped, half) ==
  /\ ah \in 0 .. 9 /\ al \in 0 .. 9 /\ bh \in 0 .. 9 /\ bl \in 0 .. 9 /\ c \in {0, 1}
  /\ sum = (16 * (ah + bh) + (al + bl + c)) % 256
  /\ wrapped <=> 16 * (ah + bh) + (al + bl + c) > 255
  /\ half <=> al + bl + c > 15
  /\ ~ (16 * (ah + bh) + (al + bl + c) \in 250 .. 255)

\* A decimal result with its hundred in carry.
DigitsAreRight(ah, al, bh, bl, c, carry, result) ==
  /\ result \div 16 \in 0 .. 9
  /\ result % 16 \in 0 .. 9
  /\ 100 * Number(carry) + 10 * (result \div 16) + (result % 16)
       = 10 * (ah + bh) + (al + bl + c)

\* The corrections make the digits right.
LEMMA CorrectedDigits ==
  ASSUME NEW ah, NEW al, NEW bh, NEW bl, NEW c, NEW sum, NEW wrapped \in BOOLEAN,
         NEW half \in BOOLEAN, NEW low, NEW carry \in BOOLEAN, NEW high,
         SumOfDigits(ah, al, bh, bl, c, sum, wrapped, half),
         Corrected(sum, wrapped, half, low, carry, high)
  PROVE  DigitsAreRight(ah, al, bh, bl, c, carry, high)
<1> DEFINE tens == ah + bh
           ones == al + bl + c
<1>1. tens \in 0 .. 18 /\ ones \in 0 .. 19
  BY DEF SumOfDigits
<1>2. /\ sum = (16 * tens + ones) % 256
      /\ wrapped <=> 16 * tens + ones > 255
      /\ half <=> ones > 15
      /\ ~ (16 * tens + ones \in 250 .. 255)
  BY DEF SumOfDigits
<1>3. /\ low = IF half \/ sum % 16 > 9 THEN (sum + 6) % 256 ELSE sum
      /\ carry <=> (wrapped \/ low \div 16 > 9)
      /\ high = IF carry THEN (low + 96) % 256 ELSE low
  BY DEF Corrected
<1> DEFINE unit == IF ones > 9 THEN ones - 10 ELSE ones
           ten  == IF ones > 9 THEN tens + 1 ELSE tens
<1> HIDE DEF tens, ones
<1>4. unit \in 0 .. 9 /\ ten \in 0 .. 19 /\ 10 * ten + unit = 10 * tens + ones
  BY <1>1
<1>5. low = (16 * ten + unit) % 256
  <2>1. CASE ones <= 9
    <3>1. ~half /\ sum % 16 = ones
      BY <1>1, <1>2, <2>1
    <3>2. QED
      BY <1>1, <1>2, <1>3, <2>1, <3>1
  <2>2. CASE ones > 9 /\ ones <= 15
    <3>1. sum % 16 = ones
      BY <1>1, <1>2, <2>2
    <3>2. low = (sum + 6) % 256
      BY <1>3, <2>2, <3>1
    <3>3. QED
      BY <1>1, <1>2, <2>2, <3>2
  <2>3. CASE ones > 15
    <3>1. low = (sum + 6) % 256
      BY <1>2, <1>3, <2>3
    <3>2. QED
      BY <1>1, <1>2, <2>3, <3>1
  <2>4. QED
    BY <1>1, <2>1, <2>2, <2>3
<1>6. carry <=> ten > 9
  <2>1. CASE wrapped
    BY <1>1, <1>2, <1>3, <2>1
  <2>2. CASE ~wrapped
    <3>1. 16 * tens + ones < 250
      BY <1>1, <1>2, <2>2
    <3>2. 16 * ten + unit <= 255
      BY <1>1, <3>1
    <3>3. low = 16 * ten + unit
      BY <1>4, <1>5, <3>2
    <3>4. low \div 16 = ten
      BY <1>4, <3>3
    <3>5. QED
      BY <1>3, <2>2, <3>4
  <2>3. QED
    BY <2>1, <2>2
<1> HIDE DEF unit, ten
<1>7. CASE carry
  <2>1. ten \in 10 .. 19
    BY <1>4, <1>6, <1>7
  <2>2. high = (low + 96) % 256
    BY <1>3, <1>7
  <2>3. high = 16 * (ten - 10) + unit
    BY <1>4, <1>5, <2>1, <2>2
  <2>4. high \div 16 = ten - 10 /\ high % 16 = unit
    BY <1>4, <2>1, <2>3
  <2>5. 100 * 1 + 10 * (ten - 10) + unit = 10 * tens + ones
    BY <1>1, <1>4, <2>1
  <2>6. Number(carry) = 1
    BY <1>7 DEF Number
  <2>7. ten - 10 \in 0 .. 9
    BY <2>1
  <2>8. QED
    BY <1>4, <2>4, <2>5, <2>6, <2>7, Zenon DEF tens, ones, DigitsAreRight
<1>8. CASE ~carry
  <2>1. ten \in 0 .. 9
    BY <1>4, <1>6, <1>8
  <2>2. high = 16 * ten + unit
    BY <1>3, <1>4, <1>5, <1>8, <2>1
  <2>3. high \div 16 = ten /\ high % 16 = unit
    BY <1>4, <2>1, <2>2
  <2>4. 100 * 0 + 10 * ten + unit = 10 * tens + ones
    BY <1>1, <1>4, <2>1
  <2>5. Number(carry) = 0
    BY <1>8 DEF Number
  <2>6. QED
    BY <1>4, <2>1, <2>3, <2>4, <2>5, Zenon DEF tens, ones, DigitsAreRight
<1>9. QED
  BY <1>7, <1>8

\* DAA, seen from the accumulator and CY (Fake8080.cpp:189-216).
LEMMA AdjustDone ==
  ASSUME NEW file \in File
  PROVE  LET s == DecimalAdjust(file)
         IN  /\ Corrected(file["A"], getFlag(file, "CY"), getFlag(file, "AC"), DaaLow(file),
                          DaaCarry(file), s["A"])
             /\ getFlag(s, "CY") <=> DaaCarry(file)
<1> DEFINE a == file["A"]
           low == DaaLow(file)
           carry  == DaaCarry(file)
           result == IF carry THEN ToByte(low + 96) ELSE low
           stored == setRegister(file, "A", result)
           carried == setFlag(stored, "CY", carry)
           s == DecimalAdjust(file)
<1>1. "A" \in Register \ {"F"} /\ "CY" \in Flags
  BY DEF Register, Flags
<1>2. a \in Byte
  BY <1>1, ReadersType
<1>3. low = IF getFlag(file, "AC") \/ a % 16 > 9 THEN ToByte(a + 6) ELSE a
  BY Zenon DEF DaaLow, getRegister
<1>4. carry <=> getFlag(file, "CY") \/ low \div 16 > 9
  BY DEF DaaCarry
<1>5. carry \in BOOLEAN
  BY Zenon DEF DaaCarry
<1>6. s = manageResultFlags(carried, result)
  BY Zenon DEF DecimalAdjust
<1> HIDE DEF a, low, carry, s
<1>7. low \in Byte
  <2>1. a + 6 \in Int
    BY <1>2, ByteRange
  <2>2. QED
    BY <1>2, <1>3, <2>1, Converted, Zenon
<1>8. result \in Byte
  <2>1. low + 96 \in Int
    BY <1>7, ByteRange
  <2>2. QED
    BY <1>5, <1>7, <2>1, Converted, Zenon
<1>9. result = IF carry THEN ToByte(low + 96) ELSE low
  OBVIOUS
<1> HIDE DEF result
<1>10. stored \in File /\ stored["A"] = result
  BY <1>1, <1>8, RegisterAfterSet
<1> HIDE DEF stored
<1>11. carried \in File /\ (getFlag(carried, "CY") <=> carry)
  BY <1>1, <1>5, <1>10, SetFlagType, FlagAfterSet
<1>12. carried["A"] = result
  BY <1>1, <1>10 DEF setFlag, File, RegisterFile
<1> HIDE DEF carried
<1>13. s["A"] = result
  <2>1. DOMAIN carried = Register
    BY <1>11 DEF File, RegisterFile
  <2>2. Keeps(carried, manageResultFlags(carried, result), {"F"})
    BY <2>1, FlagsKeep, Zenon
  <2>3. QED
    BY <1>1, <1>6, <1>12, <2>2 DEF Keeps
<1>14. getFlag(s, "CY") <=> carry
  BY <1>6, <1>8, <1>11, ResultFlagValues
<1>15. Corrected(a, getFlag(file, "CY"), getFlag(file, "AC"), low, carry, result)
  BY <1>3, <1>4, <1>9, Zenon DEF Corrected, ToByte
<1>16. QED
  BY <1>13, <1>14, <1>15, Zenon DEF a, low, carry, s

\* ADC then DAA, on any two decimal operands.
LEMMA DecimalLaw ==
  ASSUME r \in File
  PROVE  DecimalSumIsExactBelowWrap
<1> DEFINE a == r["A"]
           b == r["B"]
           c == carryValue(r, TRUE)
           sum == Adc(r, "B")
           s == DecimalSum
           ah == a \div 16
           al == a % 16
           bh == b \div 16
           bl == b % 16
           low == DaaLow(sum)
           carry == DaaCarry(sum)
           wrapped == getFlag(sum, "CY")
           half == getFlag(sum, "AC")
<1>1. "B" \in Register /\ a \in Byte /\ b \in Byte /\ c \in {0, 1}
  BY ReadersType, CarryValueType DEF Register
<1>2. c = FlagBit(r, "CY")
  BY Zenon DEF carryValue, FlagBit
<1>3. SUFFICES ASSUME IsDecimal(a), IsDecimal(b), ~ (a + b + c \in 250 .. 255)
               PROVE  /\ IsDecimal(s["A"])
                      /\ 100 * FlagBit(s, "CY") + Decimal(s["A"]) = Decimal(a) + Decimal(b) + c
  BY <1>2, Zenon DEF DecimalSumIsExactBelowWrap, IsExactDecimalSum
<1>4. /\ sum \in File
      /\ getFlag(sum, "AC") <=> HalfCarryOut("ADD", a, b, c)
      /\ getFlag(sum, "CY") <=> CarryOut("ADD", a, b, c)
      /\ sum["A"] = aritmeticResult(r, a, b, "ADD", TRUE)
  <2> DEFINE tested == AccumulatorArithmetic(r, "B", "ADD", TRUE, FALSE)
             stored == AccumulatorArithmetic(r, "B", "ADD", TRUE, TRUE)
  <2>1. ArithmeticDone(r, "B", "ADD", TRUE, stored, tested)
    BY <1>1, AccumulatorValues, Zenon
  <2>2. sum = stored
    BY Zenon DEF Adc
  <2> HIDE DEF sum, stored, tested
  <2>3. QED
    BY <2>1, <2>2, Zenon DEF ArithmeticDone
<1>5. sum["A"] = ToByte(a + (b + c))
  BY <1>4 DEF aritmeticResult
<1>6. s = DecimalAdjust(sum)
  BY DEF DecimalSum
<1> HIDE DEF sum, s
<1>7. /\ Corrected(sum["A"], wrapped, half, low, carry, s["A"])
      /\ getFlag(s, "CY") <=> carry
  BY <1>4, <1>6, AdjustDone
<1>8. wrapped \in BOOLEAN /\ half \in BOOLEAN /\ carry \in BOOLEAN
  <2>1. wrapped \in BOOLEAN /\ half \in BOOLEAN
    BY DEF getFlag, getBit
  <2>2. carry \in BOOLEAN
    BY Zenon DEF DaaCarry
  <2>3. QED
    BY <2>1, <2>2
<1>9. /\ wrapped <=> a + b + c > 255
      /\ half <=> al + bl + c > 15
  BY <1>4 DEF CarryOut, HalfCarryOut
<1> HIDE DEF a, b, c, low, carry, wrapped, half
<1>10. /\ a = 16 * ah + al /\ ah \in 0 .. 15 /\ al \in 0 .. 15
       /\ b = 16 * bh + bl /\ bh \in 0 .. 15 /\ bl \in 0 .. 15
  <2>1. a \in Int /\ 0 <= a /\ a <= 255 /\ b \in Int /\ 0 <= b /\ b <= 255
    BY <1>1, ByteRange
  <2>2. QED
    BY <2>1
<1>11. ah \in 0 .. 9 /\ al \in 0 .. 9 /\ bh \in 0 .. 9 /\ bl \in 0 .. 9
  BY <1>3, <1>10 DEF IsDecimal
<1>12. Decimal(a) = 10 * ah + al /\ Decimal(b) = 10 * bh + bl
  BY DEF Decimal
<1> HIDE DEF ah, al, bh, bl
<1>13. /\ a + b + c = 16 * (ah + bh) + (al + bl + c)
       /\ a + (b + c) = 16 * (ah + bh) + (al + bl + c)
  BY <1>1, <1>10
<1>14. sum["A"] = (16 * (ah + bh) + (al + bl + c)) % 256
  BY <1>5, <1>13 DEF ToByte
<1>15. /\ wrapped <=> 16 * (ah + bh) + (al + bl + c) > 255
       /\ ~ (16 * (ah + bh) + (al + bl + c) \in 250 .. 255)
  BY <1>3, <1>9, <1>13
<1>16. DigitsAreRight(ah, al, bh, bl, c, carry, s["A"])
  <2>1. SumOfDigits(ah, al, bh, bl, c, sum["A"], wrapped, half)
    BY <1>1, <1>9, <1>11, <1>14, <1>15, Zenon DEF SumOfDigits
  <2>2. QED
    BY <1>7, <1>8, <2>1, CorrectedDigits, Zenon
<1>17. FlagBit(s, "CY") = Number(carry)
  BY <1>7, Zenon DEF FlagBit, Number
<1>18. Number(carry) \in {0, 1}
  BY DEF Number
<1>19. IsDecimal(s["A"])
  BY <1>16 DEF IsDecimal, DigitsAreRight
<1>20. 100 * FlagBit(s, "CY") + Decimal(s["A"]) = Decimal(a) + Decimal(b) + c
  <2> DEFINE high == s["A"] \div 16
             unit == s["A"] % 16
             hundred == Number(carry)
  <2>1. /\ high \in 0 .. 9 /\ unit \in 0 .. 9 /\ hundred \in {0, 1}
        /\ 100 * hundred + 10 * high + unit = 10 * (ah + bh) + (al + bl + c)
    BY <1>16, <1>18 DEF DigitsAreRight
  <2>2. Decimal(s["A"]) = 10 * high + unit /\ FlagBit(s, "CY") = hundred
    BY <1>17 DEF Decimal
  <2> HIDE DEF high, unit, hundred
  <2>3. QED
    BY <1>1, <1>11, <1>12, <2>1, <2>2
<1>21. QED
  BY <1>19, <1>20

\* ADC then DAA adds two-digit decimal numbers, while the first correction does
\* not wrap the accumulator (Fake8080.cpp:189-216).
THEOREM DecimalSumsExact == LawsSpec => []DecimalSumIsExactBelowWrap
<1>1. r \in Operands => DecimalSumIsExactBelowWrap
  BY OperandIsFile, DecimalLaw
<1>2. QED
  BY <1>1, OperandsKept, PTL

-----------------------------------------------------------------------------
\* The table is read at bytes only.
LEMMA OpcodeIsByte == EncodingSpec => [](opcode \in Byte)
<1>1. EncodingInit => opcode \in Byte
  BY ByteRange DEF EncodingInit
<1>2. opcode \in Byte /\ [EncodingNext]_opcode => (opcode \in Byte)'
  <2> SUFFICES ASSUME opcode \in Byte, [EncodingNext]_opcode
               PROVE  opcode' \in Byte
    OBVIOUS
  <2>1. QED
    BY ByteRange DEF EncodingNext
<1>3. QED
  BY <1>1, <1>2, PTL DEF EncodingSpec

\* Every entry of the hand-written table is the instruction its opcode's bit
\* fields encode, undocumented opcodes included (Fake8080.hpp:790-1078).
THEOREM EncodingFollowed == EncodingSpec => []TableFollowsEncoding
<1>1. opcode \in Byte => TableFollowsEncoding
  BY TableIsEncoding DEF TableFollowsEncoding
<1>2. QED
  BY <1>1, OpcodeIsByte, PTL

\* The count of each handler.
LEMMA CountOf ==
  ASSUME NEW i, NEW taken
  PROVE  /\ i.op \in {"NOP", "STC", "CMA", "CMC", "DAA", "EI", "DI", "RLC_RRC_RAL_RAR_R",
                      "ADD_ADC_SUB_SBB_CMP_R", "ANA_ORA_XRA_R"} => Cycles(i, taken) = 4
         /\ i.op \in {"MOV_R_R", "INR_DCR_R", "INX_DCX_RR", "XCHG", "SPHL", "PCHL"} =>
              Cycles(i, taken) = 5
         /\ i.op \in {"MOV_M_R", "MOV_R_M", "MVI_R_d8", "STAX_RR", "LDAX_RR", "HLT",
                      "ADD_ADC_SUB_SBB_CMP_M", "ADI_ACI_SUI_SBI_CPI_d8",
                      "ANA_ORA_XRA_M", "ANI_ORI_XRI_d8"} => Cycles(i, taken) = 7
         /\ i.op \in {"INR_DCR_M", "MVI_M_d8", "LXI_RR_d16", "DAD_RR", "POP_RR", "JMP_a16",
                      "conditionalJMP_a16", "RET", "IN_d8", "OUT_d8"} =>
              Cycles(i, taken) = 10
         /\ i.op \in {"PUSH_RR", "RST_N"} => Cycles(i, taken) = 11
         /\ i.op \in {"STA_a16", "LDA_a16"} => Cycles(i, taken) = 13
         /\ i.op \in {"SHLD_a16", "LHLD_a16"} => Cycles(i, taken) = 16
         /\ i.op = "CALL_a16" => Cycles(i, taken) = 17
         /\ i.op = "XTHL" => Cycles(i, taken) = 18
         /\ i.op = "conditionalRet" => Cycles(i, taken) = IF taken THEN 11 ELSE 5
         /\ i.op = "conditionalCall_a16" => Cycles(i, taken) = IF taken THEN 17 ELSE 11
BY DEF Cycles, ReturnCycles, CallCycles

\* The counts of the rows 0x00 to 0x3F (Fake8080.hpp:792-861).
LEMMA Group0Counts ==
  ASSUME NEW code \in Byte, Group(code) = 0, NEW taken
  PROVE  Cycles(Group0(code), taken) = States(code, taken)
<1> DEFINE i == Group0(code)
           y == Y(code)
           z == Z(code)
           odd == Selected(code)
<1>1. y \in 0 .. 7 /\ z \in 0 .. 7 /\ code = 8 * y + z
  BY Fields
<1>2. odd <=> y % 2 = 1
  BY DEF Selected
<1>3. Length(code) = IF (z = 1 /\ ~odd) \/ (z = 2 /\ y >= 4) THEN 3
                     ELSE IF z = 6 THEN 2 ELSE 1
  BY DEF Length, HasWord, HasByte
<1>4. FetchStates(code) = IF z = 3 \/ (z \in {4, 5} /\ y # 6) THEN 5 ELSE 4
  BY DEF FetchStates
<1>5. InternalStates(code) = IF z = 1 /\ odd THEN 6 ELSE 0
  BY <1>1 DEF InternalStates
<1>6. DataAccesses(code, taken)
        = CASE z = 2 -> IF y \in {4, 5} THEN 2 ELSE 1
            [] z \in {4, 5} /\ y = 6 -> 2
            [] z = 6 /\ y = 6 -> 1
            [] OTHER -> 0
  BY DEF DataAccesses
<1>7. /\ z = 0 => i.op = "NOP"
      /\ z = 1 => i.op = IF odd THEN "DAD_RR" ELSE "LXI_RR_d16"
      /\ z = 2 /\ y < 4 => i.op = IF odd THEN "LDAX_RR" ELSE "STAX_RR"
      /\ z = 2 /\ y >= 4 =>
           i.op = <<"SHLD_a16", "LHLD_a16", "STA_a16", "LDA_a16">>[y - 3]
      /\ z = 3 => i.op = "INX_DCX_RR"
      /\ z \in {4, 5} => i.op = IF y = 6 THEN "INR_DCR_M" ELSE "INR_DCR_R"
      /\ z = 6 => i.op = IF y = 6 THEN "MVI_M_d8" ELSE "MVI_R_d8"
      /\ z = 7 /\ y < 4 => i.op = "RLC_RRC_RAL_RAR_R"
      /\ z = 7 /\ y >= 4 => i.op = <<"DAA", "CMA", "STC", "CMC">>[y - 3]
  BY Group0Ops
<1>8. States(code, taken)
        = FetchStates(code) + InternalStates(code)
            + 3 * (Length(code) - 1 + DataAccesses(code, taken))
  BY DEF States
<1> HIDE DEF i, y, z, odd
<1>9. CASE z \in {0, 1}
  BY <1>1, <1>3, <1>4, <1>5, <1>6, <1>7, <1>8, <1>9, CountOf DEF i
<1>10. CASE z = 2
  <2>1. CASE y < 4
    BY <1>1, <1>3, <1>4, <1>5, <1>6, <1>7, <1>8, <1>10, <2>1, CountOf DEF i
  <2>2. CASE y >= 4
    <3>1. i.op = IF y = 4 THEN "SHLD_a16" ELSE IF y = 5 THEN "LHLD_a16"
                 ELSE IF y = 6 THEN "STA_a16" ELSE "LDA_a16"
      BY <1>1, <1>7, <1>10, <2>2
    <3>2. QED
      BY <1>1, <1>3, <1>4, <1>5, <1>6, <1>8, <1>10, <2>2, <3>1, CountOf DEF i
  <2>3. QED
    BY <1>1, <2>1, <2>2
<1>11. CASE z \in {3, 4, 5}
  BY <1>1, <1>3, <1>4, <1>5, <1>6, <1>7, <1>8, <1>11, CountOf DEF i
<1>12. CASE z = 6
  BY <1>1, <1>3, <1>4, <1>5, <1>6, <1>7, <1>8, <1>12, CountOf DEF i
<1>13. CASE z = 7
  <2>1. i.op \in {"RLC_RRC_RAL_RAR_R", "DAA", "CMA", "STC", "CMC"}
    BY <1>1, <1>7, <1>13
  <2>2. QED
    BY <1>1, <1>3, <1>4, <1>5, <1>6, <1>8, <1>13, <2>1, CountOf DEF i
<1>14. QED
  BY <1>1, <1>9, <1>10, <1>11, <1>12, <1>13 DEF i

\* The counts of the moves and of the operations between registers, 0x40 to 0xBF
\* (Fake8080.hpp:864-1005).
LEMMA Group1Counts ==
  ASSUME NEW code \in Byte, Group(code) = 1, NEW taken
  PROVE  Cycles(Group1(code), taken) = States(code, taken)
<1> DEFINE i == Group1(code)
           y == Y(code)
           z == Z(code)
<1>1. y \in 0 .. 7 /\ z \in 0 .. 7 /\ code = 64 + 8 * y + z
  BY Fields
<1>2. /\ Length(code) = 1
      /\ FetchStates(code) = IF y # 6 /\ z # 6 THEN 5 ELSE 4
      /\ DataAccesses(code, taken) = IF (y = 6) # (z = 6) THEN 1 ELSE 0
      /\ InternalStates(code) = IF y = 6 /\ z = 6 THEN 3 ELSE 0
  <2>1. Length(code) = 1
    BY DEF Length, HasWord, HasByte
  <2>2. FetchStates(code) = IF y # 6 /\ z # 6 THEN 5 ELSE 4
    BY DEF FetchStates
  <2>3. DataAccesses(code, taken) = IF (y = 6) # (z = 6) THEN 1 ELSE 0
    BY DEF DataAccesses
  <2>4. code = 118 <=> y = 6 /\ z = 6
    BY <1>1
  <2>5. InternalStates(code) = IF y = 6 /\ z = 6 THEN 3 ELSE 0
    BY <1>1, <2>4 DEF InternalStates
  <2>6. QED
    BY <2>1, <2>2, <2>3, <2>5
<1>3. i.op = IF y = 6 THEN (IF z = 6 THEN "HLT" ELSE "MOV_M_R")
             ELSE IF z = 6 THEN "MOV_R_M" ELSE "MOV_R_R"
  <2>1. (Destination(code) = "M" <=> y = 6) /\ (Operand(code) = "M" <=> z = 6)
    BY <1>1 DEF Destination, Operand, RegisterCode
  <2> HIDE DEF y, z
  <2>2. QED
    BY <2>1, OpNames DEF Group1
<1>4. States(code, taken)
        = FetchStates(code) + InternalStates(code)
            + 3 * (Length(code) - 1 + DataAccesses(code, taken))
  BY DEF States
<1> HIDE DEF i, y, z
<1>5. QED
  BY <1>2, <1>3, <1>4, CountOf DEF i

LEMMA Group2Counts ==
  ASSUME NEW code \in Byte, Group(code) = 2, NEW taken
  PROVE  Cycles(Group2(code), taken) = States(code, taken)
<1>1. Y(code) \in 0 .. 7 /\ Z(code) \in 0 .. 7 /\ code = 128 + 8 * Y(code) + Z(code)
  BY Fields
<1>2. /\ Length(code) = 1
      /\ FetchStates(code) = 4
      /\ DataAccesses(code, taken) = IF Z(code) = 6 THEN 1 ELSE 0
  BY DEF Length, HasWord, HasByte, FetchStates, DataAccesses
<1>3. InternalStates(code) = 0
  BY <1>1 DEF InternalStates
<1>4. Cycles(Group2(code), taken) = IF Z(code) = 6 THEN 7 ELSE 4
  BY Group2Ops, CountOf
<1>5. QED
  BY <1>2, <1>3, <1>4 DEF States

\* The counts of the rows 0xC0 to 0xFF (Fake8080.hpp:1008-1077).
LEMMA Group3Counts ==
  ASSUME NEW code \in Byte, Group(code) = 3, NEW taken
  PROVE  Cycles(Group3(code), taken) = States(code, taken)
<1> DEFINE i == Group3(code)
           y == Y(code)
           z == Z(code)
           odd == Selected(code)
<1>1. y \in 0 .. 7 /\ z \in 0 .. 7 /\ code = 192 + 8 * y + z
  BY Fields
<1>2. (odd <=> y % 2 = 1) /\ PairNumber(code) = y \div 2
  BY DEF Selected, PairNumber
<1>3. Length(code) = IF z \in {2, 4} \/ (z = 3 /\ y \in {0, 1}) \/ (z = 5 /\ odd) THEN 3
                     ELSE IF z = 6 \/ (z = 3 /\ y \in {2, 3}) THEN 2 ELSE 1
  BY DEF Length, HasWord, HasByte
<1>4. FetchStates(code)
        = IF z \in {0, 4, 5, 7} \/ (z = 1 /\ y \in {5, 7}) \/ (z = 3 /\ y = 5)
            THEN 5 ELSE 4
  BY DEF FetchStates
<1>5. InternalStates(code) = IF z = 3 /\ y = 4 THEN 2 ELSE 0
  BY <1>1 DEF InternalStates
<1> DEFINE stacked == IF taken THEN 2 ELSE 0
           accesses == CASE z \in {0, 4} -> stacked
                         [] z = 1 -> IF y \in {5, 7} THEN 0 ELSE 2
                         [] z = 3 -> IF y = 4 THEN 4 ELSE IF y \in {2, 3} THEN 1 ELSE 0
                         [] z \in {5, 7} -> 2
                         [] z \in {2, 6} -> 0
           short == CASE z = 2 -> IF y \in {4, 5} THEN 2 ELSE 1
                      [] z \in {4, 5} /\ y = 6 -> 2
                      [] z = 6 /\ y = 6 -> 1
                      [] OTHER -> 0
           moved == IF (y = 6) # (z = 6) THEN 1 ELSE 0
           read == IF z = 6 THEN 1 ELSE 0
<1>6. DataAccesses(code, taken) = accesses
  <2>1. DataAccesses(code, taken) = CASE Group(code) = 0 -> short
                                      [] Group(code) = 1 -> moved
                                      [] Group(code) = 2 -> read
                                      [] Group(code) = 3 -> accesses
    BY Zenon DEF DataAccesses
  <2> HIDE DEF short, moved, read, accesses
  <2>2. QED
    BY <2>1
<1>7. stacked = IF taken THEN 2 ELSE 0
  OBVIOUS
<1> HIDE DEF stacked
<1>8. /\ z = 0 => i.op = "conditionalRet"
      /\ z = 1 => i.op = IF odd THEN <<"RET", "RET", "PCHL", "SPHL">>[(y \div 2) + 1]
                                ELSE "POP_RR"
      /\ z = 2 => i.op = "conditionalJMP_a16"
      /\ z = 3 => i.op = <<"JMP_a16", "JMP_a16", "OUT_d8", "IN_d8",
                           "XTHL", "XCHG", "DI", "EI">>[y + 1]
      /\ z = 4 => i.op = "conditionalCall_a16"
      /\ z = 5 => i.op = IF odd THEN "CALL_a16" ELSE "PUSH_RR"
      /\ z = 6 => i.op \in {"ADI_ACI_SUI_SBI_CPI_d8", "ANI_ORI_XRI_d8"}
      /\ z = 7 => i.op = "RST_N"
  BY <1>2, Group3Ops
<1>9. States(code, taken)
        = FetchStates(code) + InternalStates(code)
            + 3 * (Length(code) - 1 + DataAccesses(code, taken))
  BY DEF States
<1> HIDE DEF i, y, z, odd
<1>10. CASE z \in {0, 2, 4, 5, 6, 7}
  BY <1>1, <1>3, <1>4, <1>5, <1>6, <1>8, <1>9, <1>10, <1>7, CountOf DEF i
<1>11. CASE z = 1
  <2>1. i.op = IF y \in {1, 3} THEN "RET" ELSE IF y = 5 THEN "PCHL"
               ELSE IF y = 7 THEN "SPHL" ELSE "POP_RR"
    BY <1>1, <1>2, <1>8, <1>11
  <2>2. QED
    BY <1>1, <1>3, <1>4, <1>5, <1>6, <1>9, <1>11, <2>1, CountOf DEF i
<1>12. CASE z = 3
  <2>1. i.op = IF y \in {0, 1} THEN "JMP_a16" ELSE IF y = 2 THEN "OUT_d8"
               ELSE IF y = 3 THEN "IN_d8" ELSE IF y = 4 THEN "XTHL"
               ELSE IF y = 5 THEN "XCHG" ELSE IF y = 6 THEN "DI" ELSE "EI"
    BY <1>1, <1>8, <1>12
  <2>2. QED
    BY <1>1, <1>3, <1>4, <1>5, <1>6, <1>9, <1>12, <2>1, CountOf DEF i
<1>13. QED
  BY <1>1, <1>10, <1>11, <1>12 DEF i

\* Every count is the time its opcode takes on the bus, taken or not
\* (OpcodesCycles.hpp:6-88, Fake8080.hpp:703-735).
LEMMA CountIsTime ==
  ASSUME NEW code \in Byte, NEW taken
  PROVE  Cycles(opcodes_m[code], taken) = States(code, taken)
<1>1. Group(code) \in 0 .. 3
  BY Fields
<1>2. CASE Group(code) = 0
  BY <1>2, Group0Follows, Group0Counts, Zenon
<1>3. CASE Group(code) = 1
  BY <1>3, Group1Follows, Group1Counts, Zenon
<1>4. CASE Group(code) = 2
  BY <1>4, Group2Follows, Group2Counts, Zenon
<1>5. CASE Group(code) = 3
  BY <1>5, Group3Follows, Group3Counts, Zenon
<1>6. QED
  BY <1>1, <1>2, <1>3, <1>4, <1>5

\* The count of every entry is the time its opcode needs on the bus
\* (OpcodesCycles.hpp:6-88, Fake8080.hpp:703-735).
THEOREM CountsAreTimes == EncodingSpec => []CountsFollowAccesses
<1>1. opcode \in Byte => CountsFollowAccesses
  BY CountIsTime DEF CountsFollowAccesses
<1>2. QED
  BY <1>1, OpcodeIsByte, PTL

-----------------------------------------------------------------------------
\* An assembler: the numbers of registers, pairs, conditions and operations in
\* an opcode, and the first opcode of an instruction.
NumberOf(name) ==
  CASE name \in {"B", "BC", "Z"} -> 0
    [] name \in {"C", "DE", "CY"} -> 1
    [] name \in {"D", "HL", "P"} -> 2
    [] name \in {"E", "SP", "PSW", "S"} -> 3
    [] name \in {"H", "AND"} -> 4
    [] name \in {"L", "XOR"} -> 5
    [] name = "OR" -> 6
    [] name = "A" -> 7

\* The field of an addition, a subtraction or a comparison.
NumberOfArithmetic(kind, useCarry, storeResult) ==
  IF storeResult
  THEN (IF kind = "ADD" THEN 0 ELSE 2) + (IF useCarry THEN 1 ELSE 0)
  ELSE 7

\* The bit that tells a condition from its negation.
NumberOfSense(negate) == IF negate THEN 0 ELSE 8

\* The opcode of an instruction without operands.
PlainHome(op) ==
  CASE op = "NOP" -> 0
    [] op = "SHLD_a16" -> 34
    [] op = "DAA" -> 39
    [] op = "LHLD_a16" -> 42
    [] op = "CMA" -> 47
    [] op = "STA_a16" -> 50
    [] op = "MVI_M_d8" -> 54
    [] op = "STC" -> 55
    [] op = "LDA_a16" -> 58
    [] op = "CMC" -> 63
    [] op = "HLT" -> 118
    [] op = "JMP_a16" -> 195
    [] op = "RET" -> 201
    [] op = "CALL_a16" -> 205
    [] op = "OUT_d8" -> 211
    [] op = "IN_d8" -> 219
    [] op = "XTHL" -> 227
    [] op = "PCHL" -> 233
    [] op = "XCHG" -> 235
    [] op = "DI" -> 243
    [] op = "SPHL" -> 249
    [] op = "EI" -> 251

\* The first opcode of the instruction `i`: its group and its fields, put together.
Home(i) ==
  CASE i.op \in PlainOp -> PlainHome(i.op)
    [] i.op = "LXI_RR_d16" -> 1 + 16 * NumberOf(i.rr)
    [] i.op = "STAX_RR" -> 2 + 16 * NumberOf(i.rr)
    [] i.op = "DAD_RR" -> 9 + 16 * NumberOf(i.rr)
    [] i.op = "LDAX_RR" -> 10 + 16 * NumberOf(i.rr)
    [] i.op = "POP_RR" -> 193 + 16 * NumberOf(i.rr)
    [] i.op = "PUSH_RR" -> 197 + 16 * NumberOf(i.rr)
    [] i.op = "INX_DCX_RR" -> (IF i.kind = "ADD" THEN 3 ELSE 11) + 16 * NumberOf(i.rr)
    [] i.op = "INR_DCR_R" -> (IF i.kind = "ADD" THEN 4 ELSE 5) + 8 * NumberOf(i.reg)
    [] i.op = "INR_DCR_M" -> IF i.kind = "ADD" THEN 52 ELSE 53
    [] i.op = "MVI_R_d8" -> 6 + 8 * NumberOf(i.reg)
    [] i.op = "RLC_RRC_RAL_RAR_R" ->
         7 + (IF i.direction = "LEFT" THEN 0 ELSE 8) + (IF i.rotateThrough THEN 16 ELSE 0)
    [] i.op = "MOV_R_R" -> 64 + 8 * NumberOf(i.destination) + NumberOf(i.source)
    [] i.op = "MOV_R_M" -> 70 + 8 * NumberOf(i.reg)
    [] i.op = "MOV_M_R" -> 112 + NumberOf(i.reg)
    [] i.op = "ADD_ADC_SUB_SBB_CMP_R" ->
         128 + 8 * NumberOfArithmetic(i.kind, i.useCarry, i.storeResult) + NumberOf(i.reg)
    [] i.op = "ADD_ADC_SUB_SBB_CMP_M" ->
         134 + 8 * NumberOfArithmetic(i.kind, i.useCarry, i.storeResult)
    [] i.op = "ADI_ACI_SUI_SBI_CPI_d8" ->
         198 + 8 * NumberOfArithmetic(i.kind, i.useCarry, i.storeResult)
    [] i.op = "ANA_ORA_XRA_R" -> 128 + 8 * NumberOf(i.logic) + NumberOf(i.reg)
    [] i.op = "ANA_ORA_XRA_M" -> 134 + 8 * NumberOf(i.logic)
    [] i.op = "ANI_ORI_XRI_d8" -> 198 + 8 * NumberOf(i.logic)
    [] i.op = "conditionalRet" ->
         192 + 16 * NumberOf(i.flag) + NumberOfSense(i.negate)
    [] i.op = "conditionalJMP_a16" ->
         194 + 16 * NumberOf(i.flag) + NumberOfSense(i.negate)
    [] i.op = "conditionalCall_a16" ->
         196 + 16 * NumberOf(i.flag) + NumberOfSense(i.negate)
    [] i.op = "RST_N" -> 199 + 8 * i.vector

\* An opcode the table marks as an alternative comes after the one it repeats.
AtHome(i, code) ==
  \/ Home(i) = code
  \/ Home(i) < code /\ i.op \in DOMAIN Alternative /\ code \in Alternative[i.op]

\* Decoding a pair or a condition and numbering it gives the field again.
LEMMA PairNumbers ==
  ASSUME NEW code \in Byte
  PROVE  /\ PairNumber(code) \in 0 .. 3
         /\ Y(code) = 2 * PairNumber(code) + (IF Selected(code) THEN 1 ELSE 0)
         /\ NumberOf(Pair(code)) = PairNumber(code)
         /\ NumberOf(StackPair(code)) = PairNumber(code)
         /\ NumberOf(Condition(code)) = PairNumber(code)
<1>1. Y(code) \in 0 .. 7
  BY Fields
<1>2. /\ PairNumber(code) \in 0 .. 3
      /\ Y(code) = 2 * PairNumber(code) + (IF Selected(code) THEN 1 ELSE 0)
  BY <1>1 DEF PairNumber, Selected
<1>3. QED
  BY <1>2 DEF NumberOf, Pair, StackPair, Condition

\* Decoding a register and numbering it gives the field again.
LEMMA RegisterNumbers ==
  ASSUME NEW code \in Byte
  PROVE  /\ Destination(code) = "M" <=> Y(code) = 6
         /\ Y(code) # 6 => NumberOf(Destination(code)) = Y(code)
         /\ Operand(code) = "M" <=> Z(code) = 6
         /\ Z(code) # 6 => NumberOf(Operand(code)) = Z(code)
<1>1. Y(code) \in 0 .. 7 /\ Z(code) \in 0 .. 7
  BY Fields
<1>2. QED
  BY <1>1 DEF NumberOf, Destination, Operand, RegisterCode

\* The assembler on each form of an instruction.
LEMMA HomeOfPlain ==
  ASSUME NEW op \in PlainOp
  PROVE  Home(Plain(op)) = PlainHome(op) /\ Plain(op).op = op
BY OpNames DEF Home, PlainOp

\* ... with a pair,
LEMMA HomeOfPair ==
  ASSUME NEW rr
  PROVE  /\ Home(OnPair("LXI_RR_d16", rr)) = 1 + 16 * NumberOf(rr)
         /\ Home(OnPair("STAX_RR", rr)) = 2 + 16 * NumberOf(rr)
         /\ Home(OnPair("DAD_RR", rr)) = 9 + 16 * NumberOf(rr)
         /\ Home(OnPair("LDAX_RR", rr)) = 10 + 16 * NumberOf(rr)
         /\ Home(OnPair("POP_RR", rr)) = 193 + 16 * NumberOf(rr)
         /\ Home(OnPair("PUSH_RR", rr)) = 197 + 16 * NumberOf(rr)
         /\ Home(StepPair(rr, "ADD")) = 3 + 16 * NumberOf(rr)
         /\ Home(StepPair(rr, "SUB")) = 11 + 16 * NumberOf(rr)
BY DEF Home, OnPair, StepPair, PlainOp

\* ... with a register or memory,
LEMMA HomeOfRegister ==
  ASSUME NEW reg
  PROVE  /\ Home(StepRegister(reg, "ADD")) = 4 + 8 * NumberOf(reg)
         /\ Home(StepRegister(reg, "SUB")) = 5 + 8 * NumberOf(reg)
         /\ Home(StepM("ADD")) = 52 /\ Home(StepM("SUB")) = 53
         /\ Home(OnRegister("MVI_R_d8", reg)) = 6 + 8 * NumberOf(reg)
         /\ Home(OnRegister("MOV_R_M", reg)) = 70 + 8 * NumberOf(reg)
         /\ Home(OnRegister("MOV_M_R", reg)) = 112 + NumberOf(reg)
         /\ \A from : Home(Move(reg, from)) = 64 + 8 * NumberOf(reg) + NumberOf(from)
BY DEF Home, StepRegister, StepM, OnRegister, Move, PlainOp

\* ... with a rotation,
LEMMA HomeOfRotate ==
  /\ Home(RotateA("LEFT", FALSE)) = 7
  /\ Home(RotateA("RIGHT", FALSE)) = 15
  /\ Home(RotateA("LEFT", TRUE)) = 23
  /\ Home(RotateA("RIGHT", TRUE)) = 31
BY DEF Home, RotateA, PlainOp

\* ... with an addition, a subtraction or a comparison,
LEMMA HomeOfArithmetic ==
  ASSUME NEW reg, NEW kind, NEW useCarry \in BOOLEAN, NEW storeResult \in BOOLEAN
  PROVE  LET number == NumberOfArithmetic(kind, useCarry, storeResult)
         IN  /\ Home(ArithmeticR(reg, kind, useCarry, storeResult))
                  = 128 + 8 * number + NumberOf(reg)
             /\ Home(ArithmeticM(kind, useCarry, storeResult)) = 134 + 8 * number
             /\ Home(Immediate(kind, useCarry, storeResult)) = 198 + 8 * number
BY DEF Home, ArithmeticR, ArithmeticM, Immediate, PlainOp

\* ... with a bitwise operation,
LEMMA HomeOfLogic ==
  ASSUME NEW reg, NEW logic
  PROVE  /\ Home(LogicR(reg, logic)) = 128 + 8 * NumberOf(logic) + NumberOf(reg)
         /\ Home(LogicM(logic)) = 134 + 8 * NumberOf(logic)
         /\ Home(LogicImmediate(logic)) = 198 + 8 * NumberOf(logic)
BY DEF Home, LogicR, LogicM, LogicImmediate, PlainOp

\* ... with a condition,
LEMMA HomeOfConditional ==
  ASSUME NEW flag, NEW negate
  PROVE  /\ Home(ConditionalRet(flag, negate))
                  = 192 + 16 * NumberOf(flag) + NumberOfSense(negate)
         /\ Home(ConditionalJump(flag, negate))
                  = 194 + 16 * NumberOf(flag) + NumberOfSense(negate)
         /\ Home(ConditionalCall(flag, negate))
                  = 196 + 16 * NumberOf(flag) + NumberOfSense(negate)
BY DEF Home, ConditionalRet, ConditionalJump, ConditionalCall, PlainOp

\* ... and with a vector.
LEMMA HomeOfRestart ==
  ASSUME NEW vector
  PROVE  Home(Restart(vector)) = 199 + 8 * vector
BY DEF Home, Restart, PlainOp

\* The rows 0x00 to 0x3F.
LEMMA Group0Home ==
  ASSUME NEW code \in Byte, Group(code) = 0
  PROVE  AtHome(Group0(code), code)
<1> DEFINE i == Group0(code)
           y == Y(code)
           z == Z(code)
           p == PairNumber(code)
           rr == Pair(code)
           reg == Destination(code)
           odd == Selected(code)
<1>1. y \in 0 .. 7 /\ z \in 0 .. 7 /\ code = 8 * y + z
  BY Fields
<1>2. /\ p \in 0 .. 3 /\ y = 2 * p + (IF odd THEN 1 ELSE 0)
      /\ NumberOf(rr) = p
  BY PairNumbers
<1>3. (reg = "M" <=> y = 6) /\ (y # 6 => NumberOf(reg) = y)
  BY RegisterNumbers
<1>4. CASE z = 0
  <2>1. i = Plain("NOP")
    BY <1>4 DEF Group0
  <2>2. Home(i) = 0 /\ i.op = "NOP"
    BY <2>1, HomeOfPlain DEF PlainOp, PlainHome
  <2> HIDE DEF i, y, z
  <2>3. y = 0 \/ (i.op \in DOMAIN Alternative /\ code \in Alternative[i.op] /\ 0 < code)
    BY <1>1, <1>4, <2>2 DEF Alternative
  <2>4. QED
    BY <1>1, <1>4, <2>2, <2>3 DEF AtHome, i
<1>5. CASE z = 1
  <2>1. i = OnPair(IF odd THEN "DAD_RR" ELSE "LXI_RR_d16", rr)
    BY <1>5 DEF Group0
  <2> HIDE DEF i, y, z, p, odd, rr
  <2>2. Home(i) = (IF odd THEN 9 ELSE 1) + 16 * p
    BY <1>2, <2>1, HomeOfPair
  <2>3. QED
    BY <1>1, <1>2, <1>5, <2>2 DEF AtHome, i
<1>6. CASE z = 2 /\ y < 4
  <2>1. i = OnPair(IF odd THEN "LDAX_RR" ELSE "STAX_RR", rr)
    BY <1>1, <1>6 DEF Group0
  <2> HIDE DEF i, y, z, p, odd, rr
  <2>2. Home(i) = (IF odd THEN 10 ELSE 2) + 16 * p
    BY <1>2, <2>1, HomeOfPair
  <2>3. QED
    BY <1>1, <1>2, <1>6, <2>2 DEF AtHome, i
<1>7. CASE z = 2 /\ y >= 4
  <2>1. i = Plain(<<"SHLD_a16", "LHLD_a16", "STA_a16", "LDA_a16">>[y - 3])
    BY <1>1, <1>7 DEF Group0
  <2>2. i = Plain(IF y = 4 THEN "SHLD_a16" ELSE IF y = 5 THEN "LHLD_a16"
                  ELSE IF y = 6 THEN "STA_a16" ELSE "LDA_a16")
    BY <1>1, <1>7, <2>1
  <2> HIDE DEF i, y, z
  <2>3. Home(i) = 34 + 8 * (y - 4)
    BY <1>1, <1>7, <2>2, HomeOfPlain DEF PlainOp, PlainHome
  <2>4. QED
    BY <1>1, <1>7, <2>3 DEF AtHome, i
<1>8. CASE z = 3
  <2>1. i = StepPair(rr, IF odd THEN "SUB" ELSE "ADD")
    BY <1>8 DEF Group0
  <2> HIDE DEF i, y, z, p, odd, rr
  <2>2. Home(i) = (IF odd THEN 11 ELSE 3) + 16 * p
    BY <1>2, <2>1, HomeOfPair
  <2>3. QED
    BY <1>1, <1>2, <1>8, <2>2 DEF AtHome, i
<1>9. CASE z \in {4, 5}
  <2>1. i = IF reg = "M" THEN StepM(IF z = 4 THEN "ADD" ELSE "SUB")
            ELSE StepRegister(reg, IF z = 4 THEN "ADD" ELSE "SUB")
    BY <1>9 DEF Group0
  <2> HIDE DEF i, y, z, reg
  <2>2. Home(i) = z + 8 * y
    BY <1>1, <1>3, <1>9, <2>1, HomeOfRegister
  <2>3. QED
    BY <1>1, <2>2 DEF AtHome, i
<1>10. CASE z = 6
  <2>1. i = IF reg = "M" THEN Plain("MVI_M_d8") ELSE OnRegister("MVI_R_d8", reg)
    BY <1>10 DEF Group0
  <2> HIDE DEF i, y, z, reg
  <2>2. Home(i) = 6 + 8 * y
    BY <1>1, <1>3, <1>10, <2>1, HomeOfRegister, HomeOfPlain DEF PlainOp, PlainHome
  <2>3. QED
    BY <1>1, <1>10, <2>2 DEF AtHome, i
<1>11. CASE z = 7 /\ y < 4
  <2> DEFINE through == y >= 2
  <2>1. i = RotateA(IF odd THEN "RIGHT" ELSE "LEFT", through)
    BY <1>1, <1>11 DEF Group0
  <2>2. CASE through
    <3>1. through = TRUE
      BY <2>2
    <3>2. i = RotateA(IF odd THEN "RIGHT" ELSE "LEFT", TRUE)
      BY <2>1, <3>1, Zenon
    <3> HIDE DEF i, y, z, p, odd
    <3>3. Home(i) = IF odd THEN 31 ELSE 23
      BY <3>2, HomeOfRotate
    <3>4. QED
      BY <1>1, <1>2, <1>11, <2>2, <3>3 DEF AtHome, i
  <2>3. CASE ~through
    <3>1. through = FALSE
      BY <2>3
    <3>2. i = RotateA(IF odd THEN "RIGHT" ELSE "LEFT", FALSE)
      BY <2>1, <3>1, Zenon
    <3> HIDE DEF i, y, z, p, odd
    <3>3. Home(i) = IF odd THEN 15 ELSE 7
      BY <3>2, HomeOfRotate
    <3>4. QED
      BY <1>1, <1>2, <1>11, <2>3, <3>3 DEF AtHome, i
  <2>4. QED
    BY <2>2, <2>3
<1>12. CASE z = 7 /\ y >= 4
  <2>1. i = Plain(<<"DAA", "CMA", "STC", "CMC">>[y - 3])
    BY <1>1, <1>12 DEF Group0
  <2>2. i = Plain(IF y = 4 THEN "DAA" ELSE IF y = 5 THEN "CMA"
                  ELSE IF y = 6 THEN "STC" ELSE "CMC")
    BY <1>1, <1>12, <2>1
  <2> HIDE DEF i, y, z
  <2>3. Home(i) = 39 + 8 * (y - 4)
    BY <1>1, <1>12, <2>2, HomeOfPlain DEF PlainOp, PlainHome
  <2>4. QED
    BY <1>1, <1>12, <2>3 DEF AtHome, i
<1>13. QED
  BY <1>1, <1>4, <1>5, <1>6, <1>7, <1>8, <1>9, <1>10, <1>11, <1>12

\* The moves, 0x40 to 0x7F.
LEMMA Group1Home ==
  ASSUME NEW code \in Byte, Group(code) = 1
  PROVE  AtHome(Group1(code), code)
<1> DEFINE i == Group1(code)
           y == Y(code)
           z == Z(code)
           to == Destination(code)
           from == Operand(code)
<1>1. y \in 0 .. 7 /\ z \in 0 .. 7 /\ code = 64 + 8 * y + z
  BY Fields
<1>2. /\ (to = "M" <=> y = 6) /\ (y # 6 => NumberOf(to) = y)
      /\ (from = "M" <=> z = 6) /\ (z # 6 => NumberOf(from) = z)
  BY RegisterNumbers
<1>3. i = IF to = "M" THEN IF from = "M" THEN Plain("HLT") ELSE OnRegister("MOV_M_R", from)
          ELSE IF from = "M" THEN OnRegister("MOV_R_M", to) ELSE Move(to, from)
  BY DEF Group1
<1> HIDE DEF i, y, z, to, from
<1>4. Home(Plain("HLT")) = 118
  BY HomeOfPlain DEF PlainOp, PlainHome
<1>5. Home(i) = 64 + 8 * y + z
  BY <1>1, <1>2, <1>3, <1>4, HomeOfRegister
<1>6. QED
  BY <1>1, <1>5 DEF AtHome, i

\* The numbers of the eight operations.
LEMMA OperationNumbers ==
  /\ NumberOfArithmetic("ADD", FALSE, TRUE) = 0
  /\ NumberOfArithmetic("ADD", TRUE, TRUE) = 1
  /\ NumberOfArithmetic("SUB", FALSE, TRUE) = 2
  /\ NumberOfArithmetic("SUB", TRUE, TRUE) = 3
  /\ NumberOf("AND") = 4 /\ NumberOf("XOR") = 5 /\ NumberOf("OR") = 6
  /\ NumberOfArithmetic("SUB", FALSE, FALSE) = 7
BY DEF NumberOfArithmetic, NumberOf

\* The operations between registers, 0x80 to 0xBF.
LEMMA Group2Home ==
  ASSUME NEW code \in Byte, Group(code) = 2
  PROVE  AtHome(Group2(code), code)
<1> DEFINE y == Y(code)
           z == Z(code)
           from == Operand(code)
           Ar(kind, useCarry, storeResult) ==
             IF from = "M" THEN ArithmeticM(kind, useCarry, storeResult)
                           ELSE ArithmeticR(from, kind, useCarry, storeResult)
           Lo(logic) == IF from = "M" THEN LogicM(logic) ELSE LogicR(from, logic)
           base == 128 + z
<1>1. y \in 0 .. 7 /\ z \in 0 .. 7 /\ code = 128 + 8 * y + z /\ base \in Nat
  BY Fields
<1>2. (from = "M" <=> z = 6) /\ (z # 6 => NumberOf(from) = z)
  BY RegisterNumbers
<1>3. ASSUME NEW kind, NEW useCarry \in BOOLEAN, NEW storeResult \in BOOLEAN,
             NumberOfArithmetic(kind, useCarry, storeResult) \in Nat
      PROVE  Home(Ar(kind, useCarry, storeResult))
               = base + 8 * NumberOfArithmetic(kind, useCarry, storeResult)
  <2> DEFINE number == NumberOfArithmetic(kind, useCarry, storeResult)
             m == ArithmeticM(kind, useCarry, storeResult)
             s == ArithmeticR(from, kind, useCarry, storeResult)
  <2>1. Home(s) = 128 + 8 * number + NumberOf(from) /\ Home(m) = 134 + 8 * number
    BY HomeOfArithmetic
  <2>2. Ar(kind, useCarry, storeResult) = IF from = "M" THEN m ELSE s
    BY Zenon
  <2> HIDE DEF number, m, s, z, from, Ar
  <2>3. number \in Nat
    BY <1>3 DEF number
  <2>4. Home(Ar(kind, useCarry, storeResult)) = base + 8 * number
    BY <1>1, <1>2, <2>1, <2>2, <2>3
  <2>5. QED
    BY <2>4 DEF number
<1>4. ASSUME NEW logic, NumberOf(logic) \in Nat
      PROVE  Home(Lo(logic)) = base + 8 * NumberOf(logic)
  <2>1. Home(LogicR(from, logic)) = 128 + 8 * NumberOf(logic) + NumberOf(from)
        /\ Home(LogicM(logic)) = 134 + 8 * NumberOf(logic)
    BY HomeOfLogic
  <2> HIDE DEF z, from
  <2>2. QED
    BY <1>1, <1>2, <1>4, <2>1
<1>6. Group2(code) = ByOperation(y, Ar, Lo)
  BY Zenon DEF Group2
<1> DEFINE add == Ar("ADD", FALSE, TRUE)
           adc == Ar("ADD", TRUE, TRUE)
           sub == Ar("SUB", FALSE, TRUE)
           sbb == Ar("SUB", TRUE, TRUE)
           cmp == Ar("SUB", FALSE, FALSE)
           ana == Lo("AND")
           xra == Lo("XOR")
           ora == Lo("OR")
<1>7. ByOperation(y, Ar, Lo)
        = CASE y = 0 -> add [] y = 1 -> adc [] y = 2 -> sub [] y = 3 -> sbb
            [] y = 4 -> ana [] y = 5 -> xra [] y = 6 -> ora [] y = 7 -> cmp
  BY Zenon DEF ByOperation
<1> HIDE DEF Ar, Lo, base
<1>8. /\ Home(add) = base + 8 * 0 /\ Home(adc) = base + 8 * 1
      /\ Home(sub) = base + 8 * 2 /\ Home(sbb) = base + 8 * 3
      /\ Home(cmp) = base + 8 * 7
  <2>1. ASSUME NEW kind, NEW useCarry \in BOOLEAN, NEW storeResult \in BOOLEAN,
               NEW n \in Nat, NumberOfArithmetic(kind, useCarry, storeResult) = n
        PROVE  Home(Ar(kind, useCarry, storeResult)) = base + 8 * n
    BY <1>3, <2>1, Zenon
  <2>2. 0 \in Nat /\ 1 \in Nat /\ 2 \in Nat /\ 3 \in Nat /\ 7 \in Nat
    OBVIOUS
  <2>3. TRUE \in BOOLEAN /\ FALSE \in BOOLEAN
    BY Zenon
  <2>4. QED
    BY <2>1, <2>2, <2>3, OperationNumbers, ZenonT(40)
<1>9. /\ Home(ana) = base + 8 * 4 /\ Home(xra) = base + 8 * 5
      /\ Home(ora) = base + 8 * 6
  <2>1. 4 \in Nat /\ 5 \in Nat /\ 6 \in Nat
    OBVIOUS
  <2>2. QED
    BY <1>4, <2>1, OperationNumbers, Zenon
<1> HIDE DEF add, adc, sub, sbb, ana, xra, ora, cmp, y, z
<1>10. Home(Group2(code)) = base + 8 * y
  BY <1>1, <1>6, <1>7, <1>8, <1>9
<1>11. QED
  BY <1>1, <1>10 DEF AtHome, base

\* The rows 0xC0 to 0xFF.
LEMMA Group3Home ==
  ASSUME NEW code \in Byte, Group(code) = 3
  PROVE  AtHome(Group3(code), code)
<1> DEFINE i == Group3(code)
           y == Y(code)
           z == Z(code)
           p == PairNumber(code)
           rr == StackPair(code)
           flag == Condition(code)
           odd == Selected(code)
           negate == ~odd
<1>1. y \in 0 .. 7 /\ z \in 0 .. 7 /\ code = 192 + 8 * y + z
  BY Fields
<1>2. /\ p \in 0 .. 3 /\ y = 2 * p + (IF odd THEN 1 ELSE 0)
      /\ NumberOf(rr) = p /\ NumberOf(flag) = p
  BY PairNumbers
<1>3. NumberOfSense(negate) = IF odd THEN 8 ELSE 0
  BY DEF NumberOfSense
<1>4. CASE z \in {0, 2, 4}
  <2>1. i = IF z = 0 THEN ConditionalRet(flag, negate)
            ELSE IF z = 2 THEN ConditionalJump(flag, negate)
            ELSE ConditionalCall(flag, negate)
    BY <1>4 DEF Group3
  <2> HIDE DEF i, y, z, p, odd, flag, negate
  <2>2. Home(i) = 192 + z + 16 * p + (IF odd THEN 8 ELSE 0)
    BY <1>2, <1>3, <1>4, <2>1, HomeOfConditional
  <2>3. Home(i) = code
    <3> HIDE DEF rr
    <3>1. CASE odd
      BY <1>1, <1>2, <1>4, <2>2, <3>1
    <3>2. CASE ~odd
      BY <1>1, <1>2, <1>4, <2>2, <3>2
    <3>3. QED
      BY <3>1, <3>2
  <2>4. QED
    BY <2>3 DEF AtHome, i
<1>5. CASE z = 1
  <2>1. i = IF odd THEN Plain(<<"RET", "RET", "PCHL", "SPHL">>[p + 1])
            ELSE OnPair("POP_RR", rr)
    BY <1>5 DEF Group3
  <2>2. CASE odd
    <3>1. i = Plain(IF p \in {0, 1} THEN "RET" ELSE IF p = 2 THEN "PCHL" ELSE "SPHL")
      BY <1>2, <2>1, <2>2
    <3> HIDE DEF i, y, z, p, odd
    <3>2. Home(i) = (IF p \in {0, 1} THEN 201 ELSE IF p = 2 THEN 233 ELSE 249)
      BY <1>2, <3>1, HomeOfPlain DEF PlainOp, PlainHome
    <3>3. p = 1 => i.op = "RET"
      BY <1>2, <3>1, OpNames
    <3>4. QED
      BY <1>1, <1>2, <1>5, <2>2, <3>2, <3>3 DEF AtHome, Alternative, i
  <2>3. CASE ~odd
    <3> HIDE DEF i, y, z, p, odd, rr
    <3>1. Home(i) = 193 + 16 * p
      BY <1>2, <2>1, <2>3, HomeOfPair
    <3>2. QED
      BY <1>1, <1>2, <1>5, <2>3, <3>1 DEF AtHome, i
  <2>4. QED
    BY <2>2, <2>3
<1>6. CASE z = 3
  <2>1. i = Plain(<<"JMP_a16", "JMP_a16", "OUT_d8", "IN_d8",
                    "XTHL", "XCHG", "DI", "EI">>[y + 1])
    BY <1>6 DEF Group3
  <2>2. i = Plain(IF y \in {0, 1} THEN "JMP_a16" ELSE IF y = 2 THEN "OUT_d8"
                  ELSE IF y = 3 THEN "IN_d8" ELSE IF y = 4 THEN "XTHL"
                  ELSE IF y = 5 THEN "XCHG" ELSE IF y = 6 THEN "DI" ELSE "EI")
    BY <1>1, <2>1
  <2> HIDE DEF i, y, z
  <2>3. Home(i) = IF y = 1 THEN 195 ELSE 195 + 8 * y
    BY <1>1, <2>2, HomeOfPlain DEF PlainOp, PlainHome
  <2>4. y = 1 => i.op = "JMP_a16"
    BY <2>2, OpNames
  <2>5. QED
    BY <1>1, <1>6, <2>3, <2>4 DEF AtHome, Alternative, i
<1>7. CASE z = 5
  <2>1. i = IF odd THEN Plain("CALL_a16") ELSE OnPair("PUSH_RR", rr)
    BY <1>7 DEF Group3
  <2> HIDE DEF i, y, z, p, odd, rr
  <2>2. /\ odd => Home(i) = 205 /\ i.op = "CALL_a16"
        /\ ~odd => Home(i) = 197 + 16 * p
    BY <1>2, <2>1, HomeOfPlain, HomeOfPair DEF PlainOp, PlainHome
  <2>3. CASE odd
    BY <1>1, <1>2, <1>7, <2>2, <2>3 DEF AtHome, Alternative, i
  <2>4. CASE ~odd
    BY <1>1, <1>2, <1>7, <2>2, <2>4 DEF AtHome, i
  <2>5. QED
    BY <2>3, <2>4
<1>8. CASE z = 6
  <2>1. i = ByOperation(y, Immediate, LogicImmediate)
    BY <1>8 DEF Group3
  <2> DEFINE add == Immediate("ADD", FALSE, TRUE)
             adc == Immediate("ADD", TRUE, TRUE)
             sub == Immediate("SUB", FALSE, TRUE)
             sbb == Immediate("SUB", TRUE, TRUE)
             cmp == Immediate("SUB", FALSE, FALSE)
             ana == LogicImmediate("AND")
             xra == LogicImmediate("XOR")
             ora == LogicImmediate("OR")
  <2>2. ByOperation(y, Immediate, LogicImmediate)
          = CASE y = 0 -> add [] y = 1 -> adc [] y = 2 -> sub [] y = 3 -> sbb
              [] y = 4 -> ana [] y = 5 -> xra [] y = 6 -> ora [] y = 7 -> cmp
    BY Zenon DEF ByOperation
  <2>3. /\ Home(add) = 198 + 8 * 0 /\ Home(adc) = 198 + 8 * 1
        /\ Home(sub) = 198 + 8 * 2 /\ Home(sbb) = 198 + 8 * 3
        /\ Home(ana) = 198 + 8 * 4 /\ Home(xra) = 198 + 8 * 5
        /\ Home(ora) = 198 + 8 * 6 /\ Home(cmp) = 198 + 8 * 7
    <3>1. Home(add) = 198 + 8 * 0
      BY DEF Home, Immediate, PlainOp, NumberOfArithmetic
    <3>2. Home(adc) = 198 + 8 * 1
      BY DEF Home, Immediate, PlainOp, NumberOfArithmetic
    <3>3. Home(sub) = 198 + 8 * 2
      BY DEF Home, Immediate, PlainOp, NumberOfArithmetic
    <3>4. Home(sbb) = 198 + 8 * 3
      BY DEF Home, Immediate, PlainOp, NumberOfArithmetic
    <3>5. Home(ana) = 198 + 8 * 4 /\ Home(xra) = 198 + 8 * 5 /\ Home(ora) = 198 + 8 * 6
      BY DEF Home, LogicImmediate, PlainOp, NumberOf
    <3>6. Home(cmp) = 198 + 8 * 7
      BY DEF Home, Immediate, PlainOp, NumberOfArithmetic
    <3> HIDE DEF add, adc, sub, sbb, cmp, ana, xra, ora
    <3>7. QED
      BY <3>1, <3>2, <3>3, <3>4, <3>5, <3>6, Zenon
  <2> HIDE DEF add, adc, sub, sbb, ana, xra, ora, cmp, i, y, z
  <2>4. Home(i) = 198 + 8 * y
    BY <1>1, <2>1, <2>2, <2>3
  <2>5. QED
    BY <1>1, <1>8, <2>4 DEF AtHome, i
<1>9. CASE z = 7
  <2>1. i = Restart(y)
    BY <1>9 DEF Group3
  <2> HIDE DEF i, y, z
  <2>2. Home(i) = 199 + 8 * y
    BY <2>1, HomeOfRestart
  <2>3. QED
    BY <1>1, <1>9, <2>2 DEF AtHome, i
<1>10. QED
  BY <1>1, <1>4, <1>5, <1>6, <1>7, <1>8, <1>9

\* Every entry of the table is at the opcode the assembler gives it, or is one
\* of the alternatives.
LEMMA EveryOpcodeAtHome ==
  ASSUME NEW code \in Byte
  PROVE  AtHome(opcodes_m[code], code)
<1>1. Group(code) \in 0 .. 3
  BY Fields
<1>2. CASE Group(code) = 0
  BY <1>2, Group0Follows, Group0Home, Zenon
<1>3. CASE Group(code) = 1
  BY <1>3, Group1Follows, Group1Home, Zenon
<1>4. CASE Group(code) = 2
  BY <1>4, Group2Follows, Group2Home, Zenon
<1>5. CASE Group(code) = 3
  BY <1>5, Group3Follows, Group3Home, Zenon
<1>6. QED
  BY <1>1, <1>2, <1>3, <1>4, <1>5

\* No entry was copied and left unedited: an opcode shares its handler and
\* arguments with an earlier one only if the table marks it "(alternativo)"
\* (Fake8080.hpp:800-858, 1019, 1035, 1039, 1057, 1075).
THEOREM EntriesAreDistinct == EncodingSpec => []OnlyAlternativesRepeat
<1>1. opcode \in Byte => OnlyAlternativesRepeat
  <2> SUFFICES ASSUME opcode \in Byte, NEW earlier \in 0 .. opcode - 1,
                      opcodes_m[earlier] = opcodes_m[opcode]
               PROVE  LET op == opcodes_m[opcode].op
                      IN  op \in DOMAIN Alternative /\ opcode \in Alternative[op]
    BY DEF OnlyAlternativesRepeat
  <2>1. earlier \in Byte /\ earlier < opcode
    BY ByteRange
  <2>2. AtHome(opcodes_m[earlier], earlier) /\ AtHome(opcodes_m[opcode], opcode)
    BY <2>1, EveryOpcodeAtHome
  <2> DEFINE i == opcodes_m[opcode]
  <2>3. Home(i) = earlier \/ Home(i) < earlier
    BY <2>2, Zenon DEF AtHome
  <2>4. Home(i) # opcode
    <3> HIDE DEF i
    <3>1. opcode \in Int /\ earlier \in Int
      BY <2>1, ByteRange
    <3>2. QED
      BY <2>1, <2>3, <3>1
  <2>5. QED
    BY <2>2, <2>4, Zenon DEF AtHome
<1>2. QED
  BY <1>1, OpcodeIsByte, PTL
=============================================================================
