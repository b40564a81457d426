----------------------------- MODULE Registers -----------------------------
(***************************************************************************)
(* The register file of the CPU (include/Registers.hpp,                    *)
(* src/Registers.cpp): twelve 8-bit registers, six 16-bit names that pair  *)
(* them, and the five condition flags kept in register F.                  *)
(*                                                                         *)
(* A register file is a function r from Register to Byte, the array        *)
(* registers_m.  Every method is an operator on r; a setter returns the    *)
(* file it leaves behind.                                                  *)
(***************************************************************************)
EXTENDS Bits

Register ==
  {"A", "B", "C", "D", "E", "H", "L", "F", "SP_high", "SP_low", "W", "Z"}

CombinedRegister == {"BC", "DE", "HL", "SP", "WZ", "PSW"}

Flags == {"S", "Z", "AC", "P", "CY"}

RegisterFile == [Register -> Byte]

RegisterPairs ==
  [BC |-> <<"B", "C">>, DE |-> <<"D", "E">>, HL |-> <<"H", "L">>,
   SP |-> <<"SP_high", "SP_low">>, WZ |-> <<"W", "Z">>, PSW |-> <<"A", "F">>]

FlagsShifts == [S |-> 7, Z |-> 6, AC |-> 4, P |-> 2, CY |-> 0]

Initial_Flags_Register_Value == 2

getRegister(r, reg) == r[reg]

\* Seeded fault: F is stored as it comes, without its bit 1 forced to 1.
setRegister_Plain(r, reg, value) == [r EXCEPT ![reg] = value]

\* Bit 1 of F always reads 1 (value | 0x2); F's other bits are stored as
\* they come.
setRegister(r, reg, value) ==
  [r EXCEPT ![reg] = IF reg = "F" THEN setBit(value, 1, TRUE) ELSE value]

getCombinedRegister(r, reg) ==
  Combine(getRegister(r, RegisterPairs[reg][1]),
          getRegister(r, RegisterPairs[reg][2]))

setCombinedRegister(r, reg, value) ==
  setRegister(setRegister(r, RegisterPairs[reg][1], getHighByte(value)),
              RegisterPairs[reg][2], getLowByte(value))

getFlag(r, flag) == getBit(getRegister(r, "F"), FlagsShifts[flag])

\* setRegister(F, setBit(F, shift, value))
setFlag(r, flag, value) ==
  [r EXCEPT !["F"] = setBit(setBit(@, FlagsShifts[flag], value), 1, TRUE)]

\* The constructor: the array is zeroed, then F gets its initial value.
RegistersInit ==
  setRegister([reg \in Register |-> 0], "F", Initial_Flags_Register_Value)
=============================================================================
