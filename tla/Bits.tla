-------------------------------- MODULE Bits --------------------------------
(***************************************************************************)
(* Fixed-width integers of the emulator: uint8_t is Byte, uint16_t is      *)
(* Word, and every assignment to one of them wraps (% 2^8, % 2^16).        *)
(* Models include/BitsUtilities.hpp and the C++ bit operators the CPU uses *)
(* on bytes.                                                               *)
(***************************************************************************)
EXTENDS Integers

\* UINT8_MAX and UINT16_MAX.
MaxByte == 255

MaxWord == 65535

Byte == 0 .. MaxByte

Word == 0 .. MaxWord

\* The value an int takes when it is stored in a uint8_t or a uint16_t.
ToByte(n) == n % 256

ToWord(n) == n % 65536

getHighByte(value) == value \div 256

getLowByte(value) == value % 256

\* (high << 8) | low, the two operands having no bit in common.
Combine(high, low) == 256 * high + low

BitPosition == 0 .. 7

\* 1 << position
Weight(position) == <<1, 2, 4, 8, 16, 32, 64, 128>>[position + 1]

\* The bit as a number, 0 or 1.
Bit(value, position) == (value \div Weight(position)) % 2

getBit(value, position) == Bit(value, position) = 1

setBit(value, position, state) ==
  value - Weight(position) * Bit(value, position)
        + (IF state THEN Weight(position) ELSE 0)

\* The byte whose bit i is f[i].
FromBits(f) ==
  f[0] + 2 * f[1] + 4 * f[2] + 8 * f[3]
       + 16 * f[4] + 32 * f[5] + 64 * f[6] + 128 * f[7]

\* The operators & | ^ ~ on bytes.
BitAnd(a, b) == FromBits([i \in BitPosition |-> Bit(a, i) * Bit(b, i)])

BitOr(a, b) ==
  FromBits([i \in BitPosition |->
              Bit(a, i) + Bit(b, i) - Bit(a, i) * Bit(b, i)])

BitXor(a, b) == FromBits([i \in BitPosition |-> (Bit(a, i) + Bit(b, i)) % 2])

BitNot(a) == 255 - a

\* How many bits of a byte are 1.
BitCount(value) ==
  Bit(value, 0) + Bit(value, 1) + Bit(value, 2) + Bit(value, 3)
    + Bit(value, 4) + Bit(value, 5) + Bit(value, 6) + Bit(value, 7)
=============================================================================
