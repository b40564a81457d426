------------------------------ MODULE Encoding ------------------------------
(***************************************************************************)
(* The 8080's instruction encoding, read from the bit fields of an opcode  *)
(* rather than from a table: an opcode is three octal digits, the group    *)
(* (its two high bits), y and z, and y is also a pair number and a bit.    *)
(*                                                                         *)
(* It is a reference for the hand-written table and handlers: which        *)
(* instruction an opcode is, how long it is, and which registers it may    *)
(* change.                                                                 *)
(***************************************************************************)
EXTENDS OpcodeTable

Group(opcode) == opcode \div 64
Y(opcode)     == (opcode \div 8) % 8
Z(opcode)     == opcode % 8

\* Y as a pair number (its two high bits) and a selector (its low bit).
PairNumber(opcode) == Y(opcode) \div 2
Selected(opcode)   == Y(opcode) % 2 = 1

RegisterCode == <<"B", "C", "D", "E", "H", "L", "M", "A">>

Destination(opcode) == RegisterCode[Y(opcode) + 1]
Operand(opcode)     == RegisterCode[Z(opcode) + 1]
Pair(opcode)        == <<"BC", "DE", "HL", "SP">>[PairNumber(opcode) + 1]
StackPair(opcode)   == <<"BC", "DE", "HL", "PSW">>[PairNumber(opcode) + 1]
Condition(opcode)   == <<"Z", "CY", "P", "S">>[PairNumber(opcode) + 1]

Group0(opcode) ==
  LET y    == Y(opcode)
      z    == Z(opcode)
      rr   == Pair(opcode)
      reg  == Destination(opcode)
      kind == IF z = 4 THEN "ADD" ELSE "SUB"
      Either(odd, even) == IF Selected(opcode) THEN odd ELSE even
  IN  CASE z = 0 -> Plain("NOP")
        [] z = 1 -> OnPair(Either("DAD_RR", "LXI_RR_d16"), rr)
        [] z = 2 /\ y < 4 -> OnPair(Either("LDAX_RR", "STAX_RR"), rr)
        [] z = 2 /\ y >= 4 ->
             Plain(<<"SHLD_a16", "LHLD_a16", "STA_a16", "LDA_a16">>[y - 3])
        [] z = 3 -> StepPair(rr, Either("SUB", "ADD"))
        [] z \in {4, 5} -> IF reg = "M" THEN StepM(kind) ELSE StepRegister(reg, kind)
        [] z = 6 -> IF reg = "M" THEN Plain("MVI_M_d8") ELSE OnRegister("MVI_R_d8", reg)
        [] z = 7 /\ y < 4 -> RotateA(Either("RIGHT", "LEFT"), y >= 2)
        [] z = 7 /\ y >= 4 -> Plain(<<"DAA", "CMA", "STC", "CMC">>[y - 3])

\* Move the operand to the destination; M to M is HLT.
Group1(opcode) ==
  LET from == Operand(opcode)
      to   == Destination(opcode)
  IN  CASE to = "M" /\ from = "M" -> Plain("HLT")
        [] to = "M" /\ from # "M" -> OnRegister("MOV_M_R", from)
        [] to # "M" /\ from = "M" -> OnRegister("MOV_R_M", to)
        [] OTHER -> Move(to, from)

\* The eight arithmetic and logic operations, by y.
ByOperation(y, Ar(_, _, _), Lo(_)) ==
  CASE y = 0 -> Ar("ADD", FALSE, TRUE)
    [] y = 1 -> Ar("ADD", TRUE, TRUE)
    [] y = 2 -> Ar("SUB", FALSE, TRUE)
    [] y = 3 -> Ar("SUB", TRUE, TRUE)
    [] y = 4 -> Lo("AND")
    [] y = 5 -> Lo("XOR")
    [] y = 6 -> Lo("OR")
    [] y = 7 -> Ar("SUB", FALSE, FALSE)

Group2(opcode) ==
  LET from == Operand(opcode)
      Ar(kind, useCarry, storeResult) ==
        IF from = "M" THEN ArithmeticM(kind, useCarry, storeResult)
                      ELSE ArithmeticR(from, kind, useCarry, storeResult)
      Lo(logic) == IF from = "M" THEN LogicM(logic) ELSE LogicR(from, logic)
  IN  ByOperation(Y(opcode), Ar, Lo)

Group3(opcode) ==
  LET y  == Y(opcode)
      z  == Z(opcode)
      rr == StackPair(opcode)
      flag   == Condition(opcode)
      negate == ~Selected(opcode)
  IN  CASE z = 0 -> ConditionalRet(flag, negate)
        [] z = 1 -> IF Selected(opcode)
                      THEN Plain(<<"RET", "RET", "PCHL", "SPHL">>[PairNumber(opcode) + 1])
                      ELSE OnPair("POP_RR", rr)
        [] z = 2 -> ConditionalJump(flag, negate)
        [] z = 3 -> Plain(<<"JMP_a16", "JMP_a16", "OUT_d8", "IN_d8",
                            "XTHL", "XCHG", "DI", "EI">>[y + 1])
        [] z = 4 -> ConditionalCall(flag, negate)
        [] z = 5 -> IF Selected(opcode) THEN Plain("CALL_a16") ELSE OnPair("PUSH_RR", rr)
        [] z = 6 -> ByOperation(y, Immediate, LogicImmediate)
        [] z = 7 -> Restart(y)

Decode(opcode) ==
  CASE Group(opcode) = 0 -> Group0(opcode)
    [] Group(opcode) = 1 -> Group1(opcode)
    [] Group(opcode) = 2 -> Group2(opcode)
    [] Group(opcode) = 3 -> Group3(opcode)

\* The undocumented opcodes, by the instruction they repeat.
Alternative ==
  [NOP      |-> {8, 16, 24, 32, 40, 48, 56},
   JMP_a16  |-> {203},
   RET      |-> {217},
   CALL_a16 |-> {221, 237, 253}]
-----------------------------------------------------------------------------
\* Opcodes followed by a 16-bit operand: LXI and the direct loads and stores;
\* JMP, CALL and their conditional forms.
HasWord(opcode) ==
  \/ /\ Group(opcode) = 0
     /\ \/ Z(opcode) = 1 /\ ~Selected(opcode)
        \/ Z(opcode) = 2 /\ Y(opcode) >= 4
  \/ /\ Group(opcode) = 3
     /\ \/ Z(opcode) \in {2, 4}
        \/ Z(opcode) = 3 /\ Y(opcode) \in {0, 1}
        \/ Z(opcode) = 5 /\ Selected(opcode)

\* Opcodes followed by one byte: MVI, the immediate operations, IN and OUT.
HasByte(opcode) ==
  \/ Group(opcode) \in {0, 3} /\ Z(opcode) = 6
  \/ Group(opcode) = 3 /\ Z(opcode) = 3 /\ Y(opcode) \in {2, 3}

Length(opcode) == IF HasWord(opcode) THEN 3 ELSE IF HasByte(opcode) THEN 2 ELSE 1

\* Opcodes that call (RST included), that return, and that only jump.
IsCall(opcode) ==
  Group(opcode) = 3 /\ (Z(opcode) \in {4, 7} \/ (Z(opcode) = 5 /\ Selected(opcode)))

IsReturn(opcode) ==
  Group(opcode) = 3 /\ (Z(opcode) = 0 \/ (Z(opcode) = 1 /\ Y(opcode) \in {1, 3}))

IsJump(opcode) ==
  Group(opcode) = 3 /\ (Z(opcode) = 2 \/ (Z(opcode) = 3 /\ Y(opcode) \in {0, 1}))

IsPCHL(opcode) == opcode = 233

Halves(rr) == {RegisterPairs[rr][1], RegisterPairs[rr][2]}

\* The registers a program must expect an opcode to change.
Destinations(opcode) ==
  LET y  == Y(opcode)
      z  == Z(opcode)
      to == {Destination(opcode)} \ {"M"}
      accumulator == IF y = 7 THEN {"F"} ELSE {"A", "F"}
  IN  CASE Group(opcode) = 0 ->
             (CASE z = 0 -> {}
                [] z = 1 -> IF Selected(opcode) THEN {"H", "L", "F"} ELSE Halves(Pair(opcode))
                [] z = 2 -> IF y = 5 THEN {"H", "L"} ELSE IF y \in {1, 3, 7} THEN {"A"} ELSE {}
                [] z = 3 -> Halves(Pair(opcode))
                [] z \in {4, 5} -> to \cup {"F"}
                [] z = 6 -> to
                [] z = 7 -> IF y = 5 THEN {"A"} ELSE IF y > 5 THEN {"F"} ELSE {"A", "F"})
        [] Group(opcode) = 1 -> to
        [] Group(opcode) = 2 -> accumulator
        [] Group(opcode) = 3 ->
             (CASE z \in {0, 4, 5, 7} -> Halves("SP")
                [] z = 1 -> IF Selected(opcode)
                              THEN IF IsPCHL(opcode) THEN {} ELSE Halves("SP")
                              ELSE Halves("SP") \cup Halves(StackPair(opcode))
                [] z = 2 -> {}
                [] z = 3 -> IF y = 3 THEN {"A"} ELSE IF y = 4 THEN Halves("HL")
                            ELSE IF y = 5 THEN Halves("HL") \cup Halves("DE") ELSE {}
                [] z = 6 -> accumulator)
-----------------------------------------------------------------------------
\* How long an opcode takes on the 8080's bus.  The fetch takes four states, or
\* five when the CPU also moves a register pair or a register inside itself.
FetchStates(opcode) ==
  LET y == Y(opcode)
      z == Z(opcode)
      long == CASE Group(opcode) = 0 -> z = 3 \/ (z \in {4, 5} /\ y # 6)
                [] Group(opcode) = 1 -> y # 6 /\ z # 6
                [] Group(opcode) = 2 -> FALSE
                [] Group(opcode) = 3 -> \/ z \in {0, 4, 5, 7}
                                        \/ z = 1 /\ y \in {5, 7}
                                        \/ z = 3 /\ y = 5
  IN  IF long THEN 5 ELSE 4

\* Bytes of memory or of a port an opcode reads and writes, besides itself and
\* its operand.
DataAccesses(opcode, taken) ==
  LET y == Y(opcode)
      z == Z(opcode)
  IN  CASE Group(opcode) = 0 ->
             (CASE z = 2 -> IF y \in {4, 5} THEN 2 ELSE 1
                [] z \in {4, 5} /\ y = 6 -> 2
                [] z = 6 /\ y = 6 -> 1
                [] OTHER -> 0)
        [] Group(opcode) = 1 -> IF (y = 6) # (z = 6) THEN 1 ELSE 0
        [] Group(opcode) = 2 -> IF z = 6 THEN 1 ELSE 0
        [] Group(opcode) = 3 ->
             (CASE z \in {0, 4} -> IF taken THEN 2 ELSE 0
                [] z = 1 -> IF y \in {5, 7} THEN 0 ELSE 2
                [] z = 3 -> IF y = 4 THEN 4 ELSE IF y \in {2, 3} THEN 1 ELSE 0
                [] z \in {5, 7} -> 2
                [] z \in {2, 6} -> 0)

\* States spent without the bus: DAD adds twice, XTHL moves WZ to HL, HLT waits.
InternalStates(opcode) ==
  CASE Group(opcode) = 0 /\ Z(opcode) = 1 /\ Selected(opcode) -> 6
    [] opcode = 118 -> 3
    [] opcode = 227 -> 2
    [] OTHER -> 0

\* Three states for each byte on the bus.
States(opcode, taken) ==
  FetchStates(opcode) + InternalStates(opcode)
    + 3 * (Length(opcode) - 1 + DataAccesses(opcode, taken))
=============================================================================
