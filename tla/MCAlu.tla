------------------------------- MODULE MCAlu -------------------------------
(***************************************************************************)
(* The laws of the ALU over every accumulator, a choice of second operands *)
(* on the boundaries of digits, signs and bytes, and both carries.         *)
(***************************************************************************)
EXTENDS AluLaws

CONSTANT SecondOperands

\* F with CY and AC clear, set one at a time, and with every flag set.
MCFlags == {2, 3, 18, 215}

MCOperands ==
  {[RegistersInit EXCEPT !["A"] = a, !["B"] = b, !["F"] = f] :
     a \in Byte, b \in SecondOperands, f \in MCFlags}

\* Every pair of two-digit decimal numbers, without and with a carry in.
MCDecimalOperands ==
  {[RegistersInit EXCEPT !["A"] = a, !["B"] = b, !["F"] = f] :
     a \in {x \in Byte : IsDecimal(x)}, b \in {x \in Byte : IsDecimal(x)},
     f \in {2, 3}}

MCAllOperands == MCOperands \cup MCDecimalOperands
=============================================================================
