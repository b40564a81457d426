------------------------- MODULE OpcodeTableProofs -------------------------
(***************************************************************************)
(* The 256 entries of opcodes_m are instructions whose template arguments  *)
(* are of the right kind, and each is the one that the bit fields of its   *)
(* opcode stand for.                                                       *)
(***************************************************************************)
EXTENDS Encoding, AluProofs

\* The template arguments of each handler (Fake8080.hpp:506-787).
LEMMA OperandTypes ==
  ASSUME NEW i \in Instruction
  PROVE  /\ i.op \in {"MVI_R_d8", "MOV_M_R", "MOV_R_M", "INR_DCR_R",
                      "ADD_ADC_SUB_SBB_CMP_R", "ANA_ORA_XRA_R",
                      "RLC_RRC_RAL_RAR_R"} => i.reg \in OperandRegister
         /\ i.op = "MOV_R_R" =>
              i.source \in OperandRegister /\ i.destination \in OperandRegister
         /\ i.op \in PairOp \cup {"INX_DCX_RR"} => i.rr \in OperandPair
         /\ i.op \in {"ANA_ORA_XRA_R", "ANA_ORA_XRA_M", "ANI_ORI_XRI_d8"} =>
              i.logic \in LogicOperation
         /\ i.op \in ConditionalOp => i.flag \in Flags /\ i.negate \in BOOLEAN
         /\ i.op = "RST_N" => i.vector \in 0 .. 7
BY DEF Instruction, PlainOp, RegisterOp, PairOp, ConditionalOp

\* Every way to write an entry makes an instruction.
LEMMA Constructors ==
  /\ \A op \in PlainOp : Plain(op) \in Instruction
  /\ \A op \in PairOp, rr \in OperandPair : OnPair(op, rr) \in Instruction
  /\ \A op \in RegisterOp, reg \in OperandRegister : OnRegister(op, reg) \in Instruction
  /\ \A rr \in OperandPair, kind \in AritmeticOperation : StepPair(rr, kind) \in Instruction
  /\ \A reg \in OperandRegister, kind \in AritmeticOperation :
       StepRegister(reg, kind) \in Instruction
  /\ \A kind \in AritmeticOperation : StepM(kind) \in Instruction
  /\ \A direction \in ShiftDirection, rotateThrough \in BOOLEAN :
       RotateA(direction, rotateThrough) \in Instruction
  /\ \A flag \in Flags, negate \in BOOLEAN :
       /\ ConditionalJump(flag, negate) \in Instruction
       /\ ConditionalCall(flag, negate) \in Instruction
       /\ ConditionalRet(flag, negate) \in Instruction
  /\ \A kind \in AritmeticOperation, useCarry \in BOOLEAN, storeResult \in BOOLEAN :
       /\ Immediate(kind, useCarry, storeResult) \in Instruction
       /\ ArithmeticM(kind, useCarry, storeResult) \in Instruction
       /\ \A reg \in OperandRegister :
            ArithmeticR(reg, kind, useCarry, storeResult) \in Instruction
  /\ \A logic \in LogicOperation :
       /\ LogicImmediate(logic) \in Instruction
       /\ LogicM(logic) \in Instruction
       /\ \A reg \in OperandRegister : LogicR(reg, logic) \in Instruction
  /\ \A vector \in 0 .. 7 : Restart(vector) \in Instruction
  /\ \A to, from \in OperandRegister : Move(to, from) \in Instruction
<1> USE DEF Instruction
<1>1. \A op \in PlainOp : Plain(op) \in Instruction
  BY DEF Plain
<1>2. \A op \in PairOp, rr \in OperandPair : OnPair(op, rr) \in Instruction
  BY DEF OnPair
<1>3. \A op \in RegisterOp, reg \in OperandRegister : OnRegister(op, reg) \in Instruction
  BY DEF OnRegister
<1>4. \A rr \in OperandPair, kind \in AritmeticOperation : StepPair(rr, kind) \in Instruction
  BY DEF StepPair
<1>5. \A reg \in OperandRegister, kind \in AritmeticOperation :
        StepRegister(reg, kind) \in Instruction
  BY DEF StepRegister
<1>6. \A kind \in AritmeticOperation : StepM(kind) \in Instruction
  BY DEF StepM
<1>7. \A direction \in ShiftDirection, rotateThrough \in BOOLEAN :
        RotateA(direction, rotateThrough) \in Instruction
  BY "A" \in OperandRegister DEF RotateA, OperandRegister
<1>8. \A flag \in Flags, negate \in BOOLEAN :
        /\ ConditionalJump(flag, negate) \in Instruction
        /\ ConditionalCall(flag, negate) \in Instruction
        /\ ConditionalRet(flag, negate) \in Instruction
  BY DEF ConditionalJump, ConditionalCall, ConditionalRet, ConditionalOp
<1>9. \A kind \in AritmeticOperation, useCarry \in BOOLEAN, storeResult \in BOOLEAN :
        /\ Immediate(kind, useCarry, storeResult) \in Instruction
        /\ ArithmeticM(kind, useCarry, storeResult) \in Instruction
        /\ \A reg \in OperandRegister :
             ArithmeticR(reg, kind, useCarry, storeResult) \in Instruction
  BY DEF Immediate, ArithmeticM, ArithmeticR
<1>10. \A logic \in LogicOperation :
        /\ LogicImmediate(logic) \in Instruction
        /\ LogicM(logic) \in Instruction
        /\ \A reg \in OperandRegister : LogicR(reg, logic) \in Instruction
  BY DEF LogicImmediate, LogicM, LogicR
<1>11. \A vector \in 0 .. 7 : Restart(vector) \in Instruction
  BY DEF Restart
<1>12. \A to, from \in OperandRegister : Move(to, from) \in Instruction
  BY DEF Move
<1>13. QED
  BY <1>1, <1>2, <1>3, <1>4, <1>5, <1>6, <1>7, <1>8, <1>9, <1>10, <1>11, <1>12, Zenon

-----------------------------------------------------------------------------
\* The blocks of eight entries, 0x40 to 0xBF (Fake8080.hpp:864-1005).
LEMMA MovesType ==
  ASSUME NEW to \in OperandRegister, NEW k \in 1 .. 8
  PROVE  Moves(to)[k] \in Instruction
<1>1. \A from \in OperandRegister : Move(to, from) \in Instruction
  BY Constructors
<1>2. OnRegister("MOV_R_M", to) \in Instruction
  BY Constructors, "MOV_R_M" \in RegisterOp, Zenon DEF RegisterOp
<1>3. QED
  BY <1>1, <1>2 DEF Moves, Block, OperandRegister

LEMMA MovesToMType ==
  ASSUME NEW k \in 1 .. 8
  PROVE  MovesToM[k] \in Instruction
<1>1. \A from \in OperandRegister : OnRegister("MOV_M_R", from) \in Instruction
  BY Constructors, "MOV_M_R" \in RegisterOp, Zenon DEF RegisterOp
<1>2. Plain("HLT") \in Instruction
  BY Constructors, "HLT" \in PlainOp, Zenon DEF PlainOp
<1>3. QED
  BY <1>1, <1>2 DEF MovesToM, Block, OperandRegister

LEMMA ArithmeticBlockType ==
  ASSUME NEW kind \in AritmeticOperation, NEW useCarry \in BOOLEAN,
         NEW storeResult \in BOOLEAN, NEW k \in 1 .. 8
  PROVE  Arithmetic(kind, useCarry, storeResult)[k] \in Instruction
<1> DEFINE ofR(reg) == ArithmeticR(reg, kind, useCarry, storeResult)
           ofM == ArithmeticM(kind, useCarry, storeResult)
<1>1. \A reg \in OperandRegister : ofR(reg) \in Instruction
  BY Constructors, Zenon
<1>2. ofM \in Instruction
  BY Constructors, Zenon
<1>3. Arithmetic(kind, useCarry, storeResult)
        = <<ofR("B"), ofR("C"), ofR("D"), ofR("E"), ofR("H"), ofR("L"), ofM, ofR("A")>>
  BY DEF Arithmetic, Block
<1> HIDE DEF ofR, ofM
<1>4. QED
  BY <1>1, <1>2, <1>3 DEF OperandRegister

LEMMA LogicBlockType ==
  ASSUME NEW logic \in LogicOperation, NEW k \in 1 .. 8
  PROVE  Logic(logic)[k] \in Instruction
<1> DEFINE ofR(reg) == LogicR(reg, logic)
           ofM == LogicM(logic)
<1>1. \A reg \in OperandRegister : ofR(reg) \in Instruction
  BY Constructors
<1>2. ofM \in Instruction
  BY Constructors
<1>3. Logic(logic)
        = <<ofR("B"), ofR("C"), ofR("D"), ofR("E"), ofR("H"), ofR("L"), ofM, ofR("A")>>
  BY DEF Logic, Block
<1> HIDE DEF ofR, ofM
<1>4. QED
  BY <1>1, <1>2, <1>3 DEF OperandRegister

\* The rows of sixteen entries, 0x00 to 0x3F (Fake8080.hpp:792-861).
LEMMA LowType ==
  ASSUME NEW rr \in OperandPair, NEW high \in OperandRegister, NEW low \in OperandRegister,
         NEW rotateLeft \in Instruction, NEW rotateRight \in Instruction, NEW k \in 1 .. 16
  PROVE  Low(rr, high, low, rotateLeft, rotateRight)[k] \in Instruction
<1>1. Plain("NOP") \in Instruction
  BY Constructors, "NOP" \in PlainOp, Zenon DEF PlainOp
<1>2. \A op \in {"LXI_RR_d16", "STAX_RR", "DAD_RR", "LDAX_RR"} : OnPair(op, rr) \in Instruction
  BY Constructors DEF PairOp
<1>3. \A kind \in {"ADD", "SUB"} :
        /\ StepPair(rr, kind) \in Instruction
        /\ StepRegister(high, kind) \in Instruction
        /\ StepRegister(low, kind) \in Instruction
  BY Constructors, Zenon DEF AritmeticOperation
<1>4. /\ OnRegister("MVI_R_d8", high) \in Instruction
      /\ OnRegister("MVI_R_d8", low) \in Instruction
  BY Constructors, "MVI_R_d8" \in RegisterOp, Zenon DEF RegisterOp
<1>5. QED
  BY <1>1, <1>2, <1>3, <1>4 DEF Low

LEMMA Row20Type ==
  ASSUME NEW k \in 1 .. 16
  PROVE  Row20[k] \in Instruction
<1>1. \A op \in {"NOP", "SHLD_a16", "DAA", "LHLD_a16", "CMA"} : Plain(op) \in Instruction
  BY Constructors DEF PlainOp
<1>2. \A op \in {"LXI_RR_d16", "DAD_RR"} : OnPair(op, "HL") \in Instruction
  BY Constructors DEF PairOp, OperandPair
<1>3. \A kind \in {"ADD", "SUB"} :
        /\ StepPair("HL", kind) \in Instruction
        /\ StepRegister("H", kind) \in Instruction
        /\ StepRegister("L", kind) \in Instruction
  BY Constructors DEF AritmeticOperation, OperandPair, OperandRegister
<1>4. \A reg \in {"H", "L"} : OnRegister("MVI_R_d8", reg) \in Instruction
  BY Constructors DEF RegisterOp, OperandRegister
<1>5. QED
  BY <1>1, <1>2, <1>3, <1>4 DEF Row20

LEMMA Row30Type ==
  ASSUME NEW k \in 1 .. 16
  PROVE  Row30[k] \in Instruction
<1>1. \A op \in {"NOP", "STA_a16", "MVI_M_d8", "STC", "LDA_a16", "CMC"} :
        Plain(op) \in Instruction
  BY Constructors DEF PlainOp
<1>2. \A op \in {"LXI_RR_d16", "DAD_RR"} : OnPair(op, "SP") \in Instruction
  BY Constructors DEF PairOp, OperandPair
<1>3. \A kind \in {"ADD", "SUB"} :
        /\ StepPair("SP", kind) \in Instruction
        /\ StepM(kind) \in Instruction
        /\ StepRegister("A", kind) \in Instruction
  BY Constructors DEF AritmeticOperation, OperandPair, OperandRegister
<1>4. OnRegister("MVI_R_d8", "A") \in Instruction
  BY Constructors DEF RegisterOp, OperandRegister
<1>5. QED
  BY <1>1, <1>2, <1>3, <1>4 DEF Row30

\* The rows of sixteen entries, 0xC0 to 0xFF (Fake8080.hpp:1008-1077).
LEMMA HighType ==
  ASSUME NEW flag \in Flags, NEW rr \in OperandPair, NEW port3 \in Instruction,
         NEW first \in Instruction, NEW firstRst \in 0 .. 6,
         NEW return9 \in Instruction, NEW portB \in Instruction,
         NEW callD \in Instruction, NEW second \in Instruction, NEW k \in 1 .. 16
  PROVE  High(flag, rr, port3, first, firstRst, return9, portB, callD, second)[k]
           \in Instruction
<1>1. \A op \in {"POP_RR", "PUSH_RR"} : OnPair(op, rr) \in Instruction
  BY Constructors DEF PairOp
<1>2. firstRst \in 0 .. 7 /\ firstRst + 1 \in 0 .. 7
  OBVIOUS
<1>3. Restart(firstRst) \in Instruction /\ Restart(firstRst + 1) \in Instruction
  BY <1>2, Constructors, Zenon
<1>4. OnPair("POP_RR", rr) \in Instruction /\ OnPair("PUSH_RR", rr) \in Instruction
  BY <1>1, Zenon
<1> DEFINE
      c1  == ConditionalRet(flag, TRUE)
      c3  == ConditionalJump(flag, TRUE)
      c5  == ConditionalCall(flag, TRUE)
      c9  == ConditionalRet(flag, FALSE)
      c11 == ConditionalJump(flag, FALSE)
      c13 == ConditionalCall(flag, FALSE)
<1>5. High(flag, rr, port3, first, firstRst, return9, portB, callD, second)
        = <<c1, OnPair("POP_RR", rr), c3, port3, c5, OnPair("PUSH_RR", rr), first,
            Restart(firstRst), c9, return9, c11, portB, c13, callD, second,
            Restart(firstRst + 1)>>
  BY Zenon DEF High
<1>6. /\ c1 \in Instruction /\ c3 \in Instruction /\ c5 \in Instruction
      /\ c9 \in Instruction /\ c11 \in Instruction /\ c13 \in Instruction
  BY Constructors, Zenon
<1> HIDE DEF c1, c3, c5, c9, c11, c13
<1>7. QED
  BY <1>3, <1>4, <1>5, <1>6

-----------------------------------------------------------------------------
LEMMA LowRowsType ==
  ASSUME NEW row \in 1 .. 4, NEW k \in 1 .. 16
  PROVE  LowRows[row][k] \in Instruction
<1>1. \A direction \in {"LEFT", "RIGHT"}, through \in BOOLEAN :
        RotateA(direction, through) \in Instruction
  BY Constructors DEF ShiftDirection
<1>2. CASE row = 1
  <2>1. LowRows[row] = Low("BC", "B", "C", RotateA("LEFT", FALSE), RotateA("RIGHT", FALSE))
    BY <1>2 DEF LowRows
  <2>2. QED
    BY <1>1, <2>1, LowType DEF OperandPair, OperandRegister
<1>3. CASE row = 2
  <2>1. LowRows[row] = Low("DE", "D", "E", RotateA("LEFT", TRUE), RotateA("RIGHT", TRUE))
    BY <1>3 DEF LowRows
  <2>2. QED
    BY <1>1, <2>1, LowType DEF OperandPair, OperandRegister
<1>4. CASE row = 3
  BY <1>4, Row20Type DEF LowRows
<1>5. CASE row = 4
  BY <1>5, Row30Type DEF LowRows
<1>6. QED
  BY <1>2, <1>3, <1>4, <1>5

LEMMA BlocksType ==
  ASSUME NEW block \in 1 .. 16, NEW k \in 1 .. 8
  PROVE  Blocks[block][k] \in Instruction
<1>1. \A to \in {"B", "C", "D", "E", "H", "L", "A"} : Moves(to)[k] \in Instruction
  BY MovesType DEF OperandRegister
<1>2. MovesToM[k] \in Instruction
  BY MovesToMType
<1>3. \A kind \in {"ADD", "SUB"}, useCarry \in BOOLEAN, storeResult \in BOOLEAN :
        Arithmetic(kind, useCarry, storeResult)[k] \in Instruction
  BY ArithmeticBlockType DEF AritmeticOperation
<1>4. \A logic \in {"AND", "XOR", "OR"} : Logic(logic)[k] \in Instruction
  BY LogicBlockType DEF LogicOperation
<1>5. /\ Arithmetic("ADD", FALSE, TRUE)[k] \in Instruction
      /\ Arithmetic("ADD", TRUE, TRUE)[k] \in Instruction
      /\ Arithmetic("SUB", FALSE, TRUE)[k] \in Instruction
      /\ Arithmetic("SUB", TRUE, TRUE)[k] \in Instruction
      /\ Arithmetic("SUB", FALSE, FALSE)[k] \in Instruction
  BY <1>3, Zenon
<1> DEFINE
      add == Arithmetic("ADD", FALSE, TRUE)
      adc == Arithmetic("ADD", TRUE, TRUE)
      sub == Arithmetic("SUB", FALSE, TRUE)
      sbb == Arithmetic("SUB", TRUE, TRUE)
      cmp == Arithmetic("SUB", FALSE, FALSE)
<1>6. Blocks = <<Moves("B"), Moves("C"), Moves("D"), Moves("E"), Moves("H"), Moves("L"),
                 MovesToM, Moves("A"), add, adc, sub, sbb,
                 Logic("AND"), Logic("XOR"), Logic("OR"), cmp>>
  BY Zenon DEF Blocks
<1> HIDE DEF add, adc, sub, sbb, cmp
<1>7. /\ add[k] \in Instruction /\ adc[k] \in Instruction /\ sub[k] \in Instruction
      /\ sbb[k] \in Instruction /\ cmp[k] \in Instruction
  BY <1>5, Zenon DEF add, adc, sub, sbb, cmp
<1>8. QED
  BY <1>1, <1>2, <1>4, <1>6, <1>7

LEMMA HighRowsType ==
  ASSUME NEW row \in 1 .. 4, NEW k \in 1 .. 16
  PROVE  HighRows[row][k] \in Instruction
<1>0. 0 \in 0 .. 6 /\ 2 \in 0 .. 6 /\ 4 \in 0 .. 6 /\ 6 \in 0 .. 6
  OBVIOUS
<1>1. \A op \in {"JMP_a16", "RET", "CALL_a16", "OUT_d8", "IN_d8", "XTHL", "PCHL",
                 "XCHG", "DI", "SPHL", "EI"} : Plain(op) \in Instruction
  BY Constructors DEF PlainOp
<1>2. /\ Immediate("ADD", FALSE, TRUE) \in Instruction
      /\ Immediate("ADD", TRUE, TRUE) \in Instruction
      /\ Immediate("SUB", FALSE, TRUE) \in Instruction
      /\ Immediate("SUB", TRUE, TRUE) \in Instruction
      /\ Immediate("SUB", FALSE, FALSE) \in Instruction
      /\ LogicImmediate("AND") \in Instruction
      /\ LogicImmediate("XOR") \in Instruction
      /\ LogicImmediate("OR") \in Instruction
  BY Constructors, "ADD" \in AritmeticOperation, "SUB" \in AritmeticOperation,
     "AND" \in LogicOperation, "XOR" \in LogicOperation, "OR" \in LogicOperation, Zenon
     DEF AritmeticOperation, LogicOperation
<1>3. \A flag \in {"Z", "CY", "P", "S"} : flag \in Flags
  BY DEF Flags
<1>4. \A rr \in {"BC", "DE", "HL", "PSW"} : rr \in OperandPair
  BY DEF OperandPair
<1>5. CASE row = 1
  <2> DEFINE entries ==
          High("Z", "BC", Plain("JMP_a16"), Immediate("ADD", FALSE, TRUE), 0,
               Plain("RET"), Plain("JMP_a16"), Plain("CALL_a16"),
               Immediate("ADD", TRUE, TRUE))
  <2>1. entries[k] \in Instruction
    BY <1>1, <1>2, <1>3, <1>4, <1>0, HighType, Zenon
  <2>2. HighRows[row] = entries
    BY <1>5 DEF HighRows
  <2>3. QED
    BY <2>1, <2>2, Zenon
<1>6. CASE row = 2
  <2> DEFINE entries ==
          High("CY", "DE", Plain("OUT_d8"), Immediate("SUB", FALSE, TRUE), 2,
               Plain("RET"), Plain("IN_d8"), Plain("CALL_a16"),
               Immediate("SUB", TRUE, TRUE))
  <2>1. entries[k] \in Instruction
    BY <1>1, <1>2, <1>3, <1>4, <1>0, HighType, Zenon
  <2>2. HighRows[row] = entries
    BY <1>6 DEF HighRows
  <2>3. QED
    BY <2>1, <2>2, Zenon
<1>7. CASE row = 3
  <2> DEFINE entries ==
          High("P", "HL", Plain("XTHL"), LogicImmediate("AND"), 4,
               Plain("PCHL"), Plain("XCHG"), Plain("CALL_a16"), LogicImmediate("XOR"))
  <2>1. entries[k] \in Instruction
    BY <1>1, <1>2, <1>3, <1>4, <1>0, HighType, Zenon
  <2>2. HighRows[row] = entries
    BY <1>7 DEF HighRows, RowE0
  <2>3. QED
    BY <2>1, <2>2, Zenon
<1>8. CASE row = 4
  <2> DEFINE entries ==
          High("S", "PSW", Plain("DI"), LogicImmediate("OR"), 6,
               Plain("SPHL"), Plain("EI"), Plain("CALL_a16"),
               Immediate("SUB", FALSE, FALSE))
  <2>1. entries[k] \in Instruction
    BY <1>1, <1>2, <1>3, <1>4, <1>0, HighType, Zenon
  <2>2. HighRows[row] = entries
    BY <1>8 DEF HighRows
  <2>3. QED
    BY <2>1, <2>2, Zenon
<1>9. QED
  BY <1>5, <1>6, <1>7, <1>8

\* Whatever byte is fetched, the table holds an instruction for it, with
\* template arguments of the right kind (Fake8080.hpp:790-1078).
THEOREM EveryOpcodeIsInstruction ==
  \A code \in Byte : opcodes_m[code] \in Instruction
<1> SUFFICES ASSUME NEW code \in Byte
             PROVE  opcodes_m[code] \in Instruction
  OBVIOUS
<1>1. code \in Int /\ 0 <= code /\ code <= 255
  BY ByteRange
<1>2. CASE code < 64
  <2>1. /\ (code \div 16) + 1 \in 1 .. 4
        /\ (code % 16) + 1 \in 1 .. 16
    BY <1>1, <1>2
  <2>2. opcodes_m[code] = LowRows[(code \div 16) + 1][(code % 16) + 1]
    BY <1>2 DEF opcodes_m
  <2>3. QED
    BY <2>1, <2>2, LowRowsType
<1>3. CASE ~(code < 64) /\ code < 192
  <2>1. /\ ((code - 64) \div 8) + 1 \in 1 .. 16
        /\ (code % 8) + 1 \in 1 .. 8
    BY <1>1, <1>3
  <2>2. opcodes_m[code] = Blocks[((code - 64) \div 8) + 1][(code % 8) + 1]
    BY <1>3 DEF opcodes_m
  <2>3. QED
    BY <2>1, <2>2, BlocksType
<1>4. CASE ~(code < 64) /\ ~(code < 192)
  <2>1. /\ ((code - 192) \div 16) + 1 \in 1 .. 4
        /\ (code % 16) + 1 \in 1 .. 16
    BY <1>1, <1>4
  <2>2. opcodes_m[code] = HighRows[((code - 192) \div 16) + 1][(code % 16) + 1]
    BY <1>4 DEF opcodes_m
  <2>3. QED
    BY <2>1, <2>2, HighRowsType
<1>5. QED
  BY <1>2, <1>3, <1>4

-----------------------------------------------------------------------------
\* A byte is three octal digits.
LEMMA Digits ==
  \A n \in Int : 0 <= n /\ n <= 255 =>
     \E g \in 0 .. 3, y \in 0 .. 7, z \in 0 .. 7 :
       /\ n = 64 * g + 8 * y + z
       /\ n \div 64 = g
       /\ (n \div 8) % 8 = y
       /\ n % 8 = z
<1> SUFFICES ASSUME NEW n \in Int, 0 <= n, n <= 255
             PROVE  \E g \in 0 .. 3, y \in 0 .. 7, z \in 0 .. 7 :
       /\ n = 64 * g + 8 * y + z
       /\ n \div 64 = g
       /\ (n \div 8) % 8 = y
       /\ n % 8 = z
  OBVIOUS
<1> DEFINE q == n \div 8
           z == n % 8
           g == q \div 8
           y == q % 8
<1>1. q \in 0 .. 31 /\ z \in 0 .. 7 /\ n = 8 * q + z
  OBVIOUS
<1> HIDE DEF q
<1>2. g \in 0 .. 3 /\ y \in 0 .. 7 /\ q = 8 * g + y
  BY <1>1
<1> HIDE DEF g, y, z
<1>3. n = 64 * g + 8 * y + z
  BY <1>1, <1>2
<1>4. n \div 64 = g
  BY <1>1, <1>2, <1>3
<1>5. (n \div 8) % 8 = y /\ n % 8 = z
  BY DEF q, y, z
<1>6. QED
  BY <1>1, <1>2, <1>3, <1>4, <1>5

\* The bit fields of an opcode.
LEMMA Fields ==
  ASSUME NEW code \in Byte
  PROVE  /\ Group(code) \in 0 .. 3
         /\ Y(code) \in 0 .. 7
         /\ Z(code) \in 0 .. 7
         /\ code = 64 * Group(code) + 8 * Y(code) + Z(code)
<1>1. code \in Int /\ 0 <= code /\ code <= 255
  BY ByteRange
<1>2. QED
  BY <1>1, Digits DEF Group, Y, Z

\* Where the entry of an opcode is, by its bit fields: a row of sixteen holds the
\* opcodes of one pair, a block of eight those of one destination or operation.
LEMMA LowIndex ==
  ASSUME NEW code \in Byte, Group(code) = 0
  PROVE  opcodes_m[code] = LowRows[PairNumber(code) + 1][8 * (Y(code) % 2) + Z(code) + 1]
<1> DEFINE y == Y(code)
           z == Z(code)
<1>1. code = 8 * y + z /\ y \in 0 .. 7 /\ z \in 0 .. 7
  BY Fields
<1>2. opcodes_m[code] = IF code < 64 THEN LowRows[(code \div 16) + 1][(code % 16) + 1]
     ELSE IF code < 192 THEN Blocks[((code - 64) \div 8) + 1][(code % 8) + 1]
     ELSE HighRows[((code - 192) \div 16) + 1][(code % 16) + 1]
  BY DEF opcodes_m
<1> HIDE DEF y, z
<1>3. code < 64 /\ code \div 16 = y \div 2 /\ code % 16 = 8 * (y % 2) + z
  BY <1>1
<1>4. QED
  BY <1>2, <1>3 DEF y, z, PairNumber


\* The rows 0x00 to 0x3F by column, but for the rotations
\* (Fake8080.hpp:792-861).
LEMMA LowEntries ==
  ASSUME NEW p \in 0 .. 3, NEW s \in 0 .. 1, NEW k \in 1 .. 8
  PROVE  LET entry == LowRows[p + 1][8 * s + k]
             rr    == <<"BC", "DE", "HL", "SP">>[p + 1]
             reg   == RegisterCode[2 * p + s + 1]
         IN  /\ k = 1 => entry = Plain("NOP")
             /\ k = 2 => entry = OnPair(IF s = 1 THEN "DAD_RR" ELSE "LXI_RR_d16", rr)
             /\ k = 3 /\ p < 2 => entry = OnPair(IF s = 1 THEN "LDAX_RR" ELSE "STAX_RR", rr)
             /\ k = 3 /\ p >= 2 =>
                  entry = Plain(<<"SHLD_a16", "LHLD_a16", "STA_a16",
                                  "LDA_a16">>[2 * p + s - 3])
             /\ k = 4 => entry = StepPair(rr, IF s = 1 THEN "SUB" ELSE "ADD")
             /\ k = 5 => entry = IF reg = "M" THEN StepM("ADD") ELSE StepRegister(reg, "ADD")
             /\ k = 6 => entry = IF reg = "M" THEN StepM("SUB") ELSE StepRegister(reg, "SUB")
             /\ k = 7 => entry = IF reg = "M" THEN Plain("MVI_M_d8")
                                              ELSE OnRegister("MVI_R_d8", reg)
             /\ k = 8 /\ p >= 2 => entry = Plain(<<"DAA", "CMA", "STC", "CMC">>[2 * p + s - 3])
<1> DEFINE left0 == RotateA("LEFT", FALSE)
           right0 == RotateA("RIGHT", FALSE)
           left1 == RotateA("LEFT", TRUE)
           right1 == RotateA("RIGHT", TRUE)
<1>1. LowRows = <<Low("BC", "B", "C", left0, right0), Low("DE", "D", "E", left1, right1),
                  Row20, Row30>>
  BY Zenon DEF LowRows
<1> HIDE DEF left0, right0, left1, right1
<1>2. QED
  BY <1>1 DEF Low, Row20, Row30, RegisterCode

\* The four rotations.
LEMMA Rotations ==
  /\ LowRows[1][8] = RotateA("LEFT", FALSE)
  /\ LowRows[1][16] = RotateA("RIGHT", FALSE)
  /\ LowRows[2][8] = RotateA("LEFT", TRUE)
  /\ LowRows[2][16] = RotateA("RIGHT", TRUE)
<1> DEFINE left0 == RotateA("LEFT", FALSE)
           right0 == RotateA("RIGHT", FALSE)
           left1 == RotateA("LEFT", TRUE)
           right1 == RotateA("RIGHT", TRUE)
<1>1. LowRows = <<Low("BC", "B", "C", left0, right0), Low("DE", "D", "E", left1, right1),
                  Row20, Row30>>
  BY Zenon DEF LowRows
<1> HIDE DEF left0, right0, left1, right1
<1>2. /\ LowRows[1][8] = left0
  /\ LowRows[1][16] = right0
  /\ LowRows[2][8] = left1
  /\ LowRows[2][16] = right1
  BY <1>1 DEF Low
<1>3. QED
  BY <1>2, Zenon DEF left0, right0, left1, right1

\* The entries 0x00 to 0x3F are what their bit fields encode.
LEMMA Group0Follows ==
  ASSUME NEW code \in Byte, Group(code) = 0
  PROVE  opcodes_m[code] = Group0(code)
<1> DEFINE p == PairNumber(code)
           s == Y(code) % 2
           z == Z(code)
<1>1. /\ p \in 0 .. 3 /\ s \in 0 .. 1 /\ z \in 0 .. 7
      /\ Y(code) = 2 * p + s
      /\ z + 1 \in 1 .. 8
  BY Fields DEF PairNumber
<1>2. opcodes_m[code] = LowRows[p + 1][8 * s + (z + 1)]
  <2>1. 8 * s + z + 1 = 8 * s + (z + 1)
    BY <1>1
  <2>2. QED
    BY <2>1, LowIndex
<1>3. Selected(code) <=> s = 1
  BY DEF Selected
<1>4. /\ Pair(code) = <<"BC", "DE", "HL", "SP">>[p + 1]
      /\ Destination(code) = RegisterCode[2 * p + s + 1]
  BY <1>1 DEF Pair, Destination
<1> HIDE DEF p, s
<1>5. CASE z = 0
  BY <1>1, <1>2, <1>5, LowEntries DEF Group0
<1>6. CASE z = 1
  BY <1>1, <1>2, <1>3, <1>4, <1>6, LowEntries DEF Group0
<1>7. CASE z = 2
  <2>1. CASE p < 2
    <3>1. Group0(code) = OnPair(IF Selected(code) THEN "LDAX_RR" ELSE "STAX_RR", Pair(code))
      BY <1>1, <1>7, <2>1 DEF Group0
    <3>2. QED
      BY <1>1, <1>2, <1>3, <1>4, <1>7, <2>1, <3>1, LowEntries
  <2>2. CASE p >= 2
    <3>1. Group0(code)
            = Plain(<<"SHLD_a16", "LHLD_a16", "STA_a16", "LDA_a16">>[2 * p + s - 3])
      BY <1>1, <1>7, <2>2 DEF Group0
    <3>2. QED
      BY <1>1, <1>2, <1>7, <2>2, <3>1, LowEntries
  <2>3. QED
    BY <1>1, <2>1, <2>2
<1>8. CASE z = 3
  BY <1>1, <1>2, <1>3, <1>4, <1>8, LowEntries DEF Group0
<1>9. CASE z = 4
  BY <1>1, <1>2, <1>3, <1>4, <1>9, LowEntries DEF Group0
<1>10. CASE z = 5
  BY <1>1, <1>2, <1>3, <1>4, <1>10, LowEntries DEF Group0
<1>11. CASE z = 6
  BY <1>1, <1>2, <1>3, <1>4, <1>11, LowEntries DEF Group0
<1>12. CASE z = 7 /\ p >= 2
  <2>1. Group0(code) = Plain(<<"DAA", "CMA", "STC", "CMC">>[2 * p + s - 3])
    BY <1>1, <1>12 DEF Group0
  <2>2. QED
    BY <1>1, <1>2, <1>12, <2>1, LowEntries
<1>13. CASE z = 7 /\ p < 2
  <2> DEFINE through == Y(code) >= 2
  <2>1. Group0(code) = RotateA(IF Selected(code) THEN "RIGHT" ELSE "LEFT", through)
    BY <1>1, <1>13 DEF Group0
  <2>2. /\ p = 0 => through = FALSE
        /\ p = 1 => through = TRUE
    BY <1>1
  <2> HIDE DEF through
  <2>3. opcodes_m[code] = LowRows[p + 1][8 * s + 8]
    BY <1>2, <1>13
  <2>4. CASE p = 0 /\ s = 0
    <3>1. opcodes_m[code] = LowRows[1][8] /\ ~Selected(code)
      BY <1>3, <2>3, <2>4
    <3>2. through = FALSE
      BY <2>2, <2>4
    <3>3. QED
      BY <2>1, <3>1, <3>2, Rotations, Zenon
  <2>5. CASE p = 0 /\ s = 1
    <3>1. opcodes_m[code] = LowRows[1][16] /\ Selected(code)
      BY <1>3, <2>3, <2>5
    <3>2. through = FALSE
      BY <2>2, <2>5
    <3>3. QED
      BY <2>1, <3>1, <3>2, Rotations, Zenon
  <2>6. CASE p = 1 /\ s = 0
    <3>1. opcodes_m[code] = LowRows[2][8] /\ ~Selected(code)
      BY <1>3, <2>3, <2>6
    <3>2. through = TRUE
      BY <2>2, <2>6
    <3>3. QED
      BY <2>1, <3>1, <3>2, Rotations, Zenon
  <2>7. CASE p = 1 /\ s = 1
    <3>1. opcodes_m[code] = LowRows[2][16] /\ Selected(code)
      BY <1>3, <2>3, <2>7
    <3>2. through = TRUE
      BY <2>2, <2>7
    <3>3. QED
      BY <2>1, <3>1, <3>2, Rotations, Zenon
  <2>8. QED
    BY <1>1, <1>13, <2>4, <2>5, <2>6, <2>7
<1>14. QED
  BY <1>1, <1>5, <1>6, <1>7, <1>8, <1>9, <1>10, <1>11, <1>12, <1>13

\* An opcode's place in its block of eight.
LEMMA BlockIndex ==
  ASSUME NEW code \in Byte, Group(code) \in {1, 2}
  PROVE  opcodes_m[code] = Blocks[8 * (Group(code) - 1) + Y(code) + 1][Z(code) + 1]
<1> DEFINE g == Group(code)
           y == Y(code)
           z == Z(code)
<1>1. code = 64 * g + 8 * y + z /\ y \in 0 .. 7 /\ z \in 0 .. 7 /\ g \in {1, 2}
  BY Fields
<1>2. opcodes_m[code] = IF code < 64 THEN LowRows[(code \div 16) + 1][(code % 16) + 1]
     ELSE IF code < 192 THEN Blocks[((code - 64) \div 8) + 1][(code % 8) + 1]
     ELSE HighRows[((code - 192) \div 16) + 1][(code % 16) + 1]
  BY DEF opcodes_m
<1> HIDE DEF g, y, z
<1>3. ~(code < 64) /\ code < 192 /\ (code - 64) \div 8 = 8 * (g - 1) + y /\ code % 8 = z
  BY <1>1
<1>4. QED
  BY <1>2, <1>3 DEF g, y, z

\* The place of an opcode of 0xC0 to 0xFF in its row.
LEMMA HighIndex ==
  ASSUME NEW code \in Byte, Group(code) = 3
  PROVE  opcodes_m[code] = HighRows[PairNumber(code) + 1][8 * (Y(code) % 2) + Z(code) + 1]
<1> DEFINE y == Y(code)
           z == Z(code)
<1>1. code = 192 + 8 * y + z /\ y \in 0 .. 7 /\ z \in 0 .. 7
  BY Fields
<1>2. opcodes_m[code] = IF code < 64 THEN LowRows[(code \div 16) + 1][(code % 16) + 1]
     ELSE IF code < 192 THEN Blocks[((code - 64) \div 8) + 1][(code % 8) + 1]
     ELSE HighRows[((code - 192) \div 16) + 1][(code % 16) + 1]
  BY DEF opcodes_m
<1> HIDE DEF y, z
<1>3. ~(code < 64) /\ ~(code < 192) /\ (code - 192) \div 16 = y \div 2
      /\ code % 16 = 8 * (y % 2) + z
  BY <1>1
<1>4. QED
  BY <1>2, <1>3 DEF y, z, PairNumber

\* The moves, 0x40 to 0x7F (Fake8080.hpp:864-933).
LEMMA Group1Follows ==
  ASSUME NEW code \in Byte, Group(code) = 1
  PROVE  opcodes_m[code] = Group1(code)
<1> DEFINE y == Y(code)
           z == Z(code)
<1>1. y \in 0 .. 7 /\ z \in 0 .. 7
  BY Fields
<1>2. opcodes_m[code] = Blocks[y + 1][z + 1]
  BY <1>1, BlockIndex
<1>3. Destination(code) = RegisterCode[y + 1] /\ Operand(code) = RegisterCode[z + 1]
  BY DEF Destination, Operand
<1> HIDE DEF y, z
<1>4. y # 6 => Blocks[y + 1] = Moves(RegisterCode[y + 1])
  BY <1>1 DEF Blocks, RegisterCode
<1>5. y = 6 => Blocks[y + 1] = MovesToM
  BY <1>1 DEF Blocks
<1>6. CASE y # 6
  BY <1>1, <1>2, <1>3, <1>4, <1>6 DEF Group1, Moves, Block, RegisterCode
<1>7. CASE y = 6
  BY <1>1, <1>2, <1>3, <1>5, <1>7 DEF Group1, MovesToM, Block, RegisterCode
<1>8. QED
  BY <1>6, <1>7

\* The blocks of arithmetic and logic by column.
LEMMA ArithmeticEntries ==
  ASSUME NEW kind, NEW useCarry, NEW storeResult, NEW k \in 1 .. 8
  PROVE  Arithmetic(kind, useCarry, storeResult)[k]
           = IF RegisterCode[k] = "M" THEN ArithmeticM(kind, useCarry, storeResult)
             ELSE ArithmeticR(RegisterCode[k], kind, useCarry, storeResult)
<1> DEFINE Of(reg) == ArithmeticR(reg, kind, useCarry, storeResult)
           ofM == ArithmeticM(kind, useCarry, storeResult)
<1>1. Arithmetic(kind, useCarry, storeResult)
        = <<Of("B"), Of("C"), Of("D"), Of("E"), Of("H"), Of("L"), ofM, Of("A")>>
  BY DEF Arithmetic, Block
<1> HIDE DEF Of, ofM
<1>2. Arithmetic(kind, useCarry, storeResult)[k]
        = IF RegisterCode[k] = "M" THEN ofM ELSE Of(RegisterCode[k])
  BY <1>1 DEF RegisterCode
<1>3. QED
  BY <1>2 DEF Of, ofM

\* The entries of the logic operations (Fake8080.hpp:955-996).
LEMMA LogicEntries ==
  ASSUME NEW logic, NEW k \in 1 .. 8
  PROVE  Logic(logic)[k]
           = IF RegisterCode[k] = "M" THEN LogicM(logic) ELSE LogicR(RegisterCode[k], logic)
BY DEF Logic, Block, RegisterCode

\* The operations between registers, 0x80 to 0xBF (Fake8080.hpp:936-1005).
LEMMA Group2Follows ==
  ASSUME NEW code \in Byte, Group(code) = 2
  PROVE  opcodes_m[code] = Group2(code)
<1> DEFINE y == Y(code)
           k == Z(code) + 1
           from == Operand(code)
           Ar(kind, useCarry, storeResult) ==
             IF from = "M" THEN ArithmeticM(kind, useCarry, storeResult)
                           ELSE ArithmeticR(from, kind, useCarry, storeResult)
           Lo(logic) == IF from = "M" THEN LogicM(logic) ELSE LogicR(from, logic)
           add == Arithmetic("ADD", FALSE, TRUE)
           adc == Arithmetic("ADD", TRUE, TRUE)
           sub == Arithmetic("SUB", FALSE, TRUE)
           sbb == Arithmetic("SUB", TRUE, TRUE)
           cmp == Arithmetic("SUB", FALSE, FALSE)
<1>1. y \in 0 .. 7 /\ k \in 1 .. 8
  BY Fields
<1>2. opcodes_m[code] = Blocks[8 + y + 1][k]
  BY <1>1, BlockIndex
<1>3. from = RegisterCode[k]
  BY DEF Operand
<1>4. Blocks = <<Moves("B"), Moves("C"), Moves("D"), Moves("E"), Moves("H"), Moves("L"),
                 MovesToM, Moves("A"), add, adc, sub, sbb,
                 Logic("AND"), Logic("XOR"), Logic("OR"), cmp>>
  BY Zenon DEF Blocks
<1> HIDE DEF k, from, add, adc, sub, sbb, cmp
<1>5. /\ y = 0 => Blocks[8 + y + 1] = add
      /\ y = 1 => Blocks[8 + y + 1] = adc
      /\ y = 2 => Blocks[8 + y + 1] = sub
      /\ y = 3 => Blocks[8 + y + 1] = sbb
      /\ y = 4 => Blocks[8 + y + 1] = Logic("AND")
      /\ y = 5 => Blocks[8 + y + 1] = Logic("XOR")
      /\ y = 6 => Blocks[8 + y + 1] = Logic("OR")
      /\ y = 7 => Blocks[8 + y + 1] = cmp
  BY <1>4
<1>6. ASSUME NEW kind, NEW useCarry, NEW storeResult
      PROVE  Arithmetic(kind, useCarry, storeResult)[k] = Ar(kind, useCarry, storeResult)
  BY <1>1, <1>3, ArithmeticEntries
<1>7. \A logic : Logic(logic)[k] = Lo(logic)
  BY <1>1, <1>3, LogicEntries, Zenon
<1>8. Group2(code) = ByOperation(y, Ar, Lo)
  BY Zenon DEF Group2, from
<1> HIDE DEF Ar, Lo
<1>9. CASE y = 0
  <2>1. ByOperation(y, Ar, Lo) = Ar("ADD", FALSE, TRUE)
    BY <1>9 DEF ByOperation
  <2>2. QED
    BY <1>2, <1>5, <1>6, <1>8, <1>9, <2>1, Zenon DEF add
<1>10. CASE y = 1
  <2>1. ByOperation(y, Ar, Lo) = Ar("ADD", TRUE, TRUE)
    BY <1>10 DEF ByOperation
  <2>2. QED
    BY <1>2, <1>5, <1>6, <1>8, <1>10, <2>1, Zenon DEF adc
<1>11. CASE y = 2
  <2>1. ByOperation(y, Ar, Lo) = Ar("SUB", FALSE, TRUE)
    BY <1>11 DEF ByOperation
  <2>2. QED
    BY <1>2, <1>5, <1>6, <1>8, <1>11, <2>1, Zenon DEF sub
<1>12. CASE y = 3
  <2>1. ByOperation(y, Ar, Lo) = Ar("SUB", TRUE, TRUE)
    BY <1>12 DEF ByOperation
  <2>2. QED
    BY <1>2, <1>5, <1>6, <1>8, <1>12, <2>1, Zenon DEF sbb
<1>13. CASE y = 4
  <2>1. ByOperation(y, Ar, Lo) = Lo("AND")
    BY <1>13 DEF ByOperation
  <2>2. QED
    BY <1>2, <1>5, <1>7, <1>8, <1>13, <2>1, Zenon
<1>14. CASE y = 5
  <2>1. ByOperation(y, Ar, Lo) = Lo("XOR")
    BY <1>14 DEF ByOperation
  <2>2. QED
    BY <1>2, <1>5, <1>7, <1>8, <1>14, <2>1, Zenon
<1>15. CASE y = 6
  <2>1. ByOperation(y, Ar, Lo) = Lo("OR")
    BY <1>15 DEF ByOperation
  <2>2. QED
    BY <1>2, <1>5, <1>7, <1>8, <1>15, <2>1, Zenon
<1>16. CASE y = 7
  <2>1. ByOperation(y, Ar, Lo) = Ar("SUB", FALSE, FALSE)
    BY <1>16 DEF ByOperation
  <2>2. QED
    BY <1>2, <1>5, <1>6, <1>8, <1>16, <2>1, Zenon DEF cmp
<1>17. QED
  BY <1>1, <1>9, <1>10, <1>11, <1>12, <1>13, <1>14, <1>15, <1>16

\* The eight immediate operations.
LEMMA OperationEntries ==
  /\ ByOperation(0, Immediate, LogicImmediate) = Immediate("ADD", FALSE, TRUE)
  /\ ByOperation(1, Immediate, LogicImmediate) = Immediate("ADD", TRUE, TRUE)
  /\ ByOperation(2, Immediate, LogicImmediate) = Immediate("SUB", FALSE, TRUE)
  /\ ByOperation(3, Immediate, LogicImmediate) = Immediate("SUB", TRUE, TRUE)
  /\ ByOperation(4, Immediate, LogicImmediate) = LogicImmediate("AND")
  /\ ByOperation(5, Immediate, LogicImmediate) = LogicImmediate("XOR")
  /\ ByOperation(6, Immediate, LogicImmediate) = LogicImmediate("OR")
  /\ ByOperation(7, Immediate, LogicImmediate) = Immediate("SUB", FALSE, FALSE)
BY DEF ByOperation

\* The rows 0xC0 to 0xFF (Fake8080.hpp:1008-1077).
LEMMA HighRowsEntries ==
  ASSUME NEW p \in 0 .. 3
  PROVE  HighRows[p + 1]
           = High(<<"Z", "CY", "P", "S">>[p + 1], <<"BC", "DE", "HL", "PSW">>[p + 1],
                  Plain(<<"JMP_a16", "OUT_d8", "XTHL", "DI">>[p + 1]),
                  ByOperation(2 * p, Immediate, LogicImmediate), 2 * p,
                  Plain(<<"RET", "RET", "PCHL", "SPHL">>[p + 1]),
                  Plain(<<"JMP_a16", "IN_d8", "XCHG", "EI">>[p + 1]),
                  Plain("CALL_a16"),
                  ByOperation(2 * p + 1, Immediate, LogicImmediate))
<1> DEFINE first(q) == ByOperation(2 * q, Immediate, LogicImmediate)
           second(q) == ByOperation(2 * q + 1, Immediate, LogicImmediate)
<1>1. /\ first(0) = Immediate("ADD", FALSE, TRUE) /\ second(0) = Immediate("ADD", TRUE, TRUE)
      /\ first(1) = Immediate("SUB", FALSE, TRUE) /\ second(1) = Immediate("SUB", TRUE, TRUE)
      /\ first(2) = LogicImmediate("AND") /\ second(2) = LogicImmediate("XOR")
      /\ first(3) = LogicImmediate("OR") /\ second(3) = Immediate("SUB", FALSE, FALSE)
  <2>1. /\ 2 * 0 = 0 /\ 2 * 0 + 1 = 1 /\ 2 * 1 = 2 /\ 2 * 1 + 1 = 3
        /\ 2 * 2 = 4 /\ 2 * 2 + 1 = 5 /\ 2 * 3 = 6 /\ 2 * 3 + 1 = 7
    OBVIOUS
  <2>2. QED
    BY <2>1, OperationEntries, Zenon
<1> HIDE DEF first, second
<1>2. HighRows =
  <<High("Z", "BC", Plain("JMP_a16"), first(0), 0,
         Plain("RET"), Plain("JMP_a16"), Plain("CALL_a16"), second(0)),
    High("CY", "DE", Plain("OUT_d8"), first(1), 2,
         Plain("RET"), Plain("IN_d8"), Plain("CALL_a16"), second(1)),
    High("P", "HL", Plain("XTHL"), first(2), 4,
         Plain("PCHL"), Plain("XCHG"), Plain("CALL_a16"), second(2)),
    High("S", "PSW", Plain("DI"), first(3), 6,
         Plain("SPHL"), Plain("EI"), Plain("CALL_a16"), second(3))>>
  BY <1>1, Zenon DEF HighRows, RowE0
<1>3. HighRows[p + 1]
        = High(<<"Z", "CY", "P", "S">>[p + 1], <<"BC", "DE", "HL", "PSW">>[p + 1],
               Plain(<<"JMP_a16", "OUT_d8", "XTHL", "DI">>[p + 1]), first(p), 2 * p,
               Plain(<<"RET", "RET", "PCHL", "SPHL">>[p + 1]),
               Plain(<<"JMP_a16", "IN_d8", "XCHG", "EI">>[p + 1]),
               Plain("CALL_a16"), second(p))
  <2>1. CASE p = 0
    BY <1>2, <2>1
  <2>2. CASE p = 1
    BY <1>2, <2>2
  <2>3. CASE p = 2
    BY <1>2, <2>3
  <2>4. CASE p = 3
    BY <1>2, <2>4
  <2>5. QED
    BY <2>1, <2>2, <2>3, <2>4
<1>4. QED
  BY <1>3, Zenon DEF first, second

\* The entries 0xC0 to 0xFF are what their bit fields encode.
LEMMA Group3Follows ==
  ASSUME NEW code \in Byte, Group(code) = 3
  PROVE  opcodes_m[code] = Group3(code)
<1> DEFINE p == PairNumber(code)
           s == Y(code) % 2
           z == Z(code)
           flag == Condition(code)
           rr   == StackPair(code)
           port3 == Plain(<<"JMP_a16", "OUT_d8", "XTHL", "DI">>[p + 1])
           return9 == Plain(<<"RET", "RET", "PCHL", "SPHL">>[p + 1])
           portB == Plain(<<"JMP_a16", "IN_d8", "XCHG", "EI">>[p + 1])
           first == ByOperation(2 * p, Immediate, LogicImmediate)
           second == ByOperation(2 * p + 1, Immediate, LogicImmediate)
           ret(negate) == ConditionalRet(flag, negate)
           jump(negate) == ConditionalJump(flag, negate)
           call(negate) == ConditionalCall(flag, negate)
           row == High(flag, rr, port3, first, 2 * p, return9, portB,
                       Plain("CALL_a16"), second)
<1>1. /\ p \in 0 .. 3 /\ s \in 0 .. 1 /\ z \in 0 .. 7
      /\ Y(code) = 2 * p + s
  BY Fields DEF PairNumber
<1>2. opcodes_m[code] = HighRows[p + 1][8 * s + z + 1]
  BY HighIndex
<1>3. HighRows[p + 1] = row
  BY <1>1, HighRowsEntries, Zenon DEF Condition, StackPair
<1>5. /\ s = 0 => ~Selected(code)
      /\ s = 1 => Selected(code)
  BY DEF Selected
<1>6. /\ first = ByOperation(2 * p, Immediate, LogicImmediate)
      /\ second = ByOperation(2 * p + 1, Immediate, LogicImmediate)
  OBVIOUS
<1> HIDE DEF p, s, flag, rr, port3, return9, portB, first, second, row
<1>4. /\ row[1] = ret(TRUE) /\ row[9] = ret(FALSE)
      /\ row[2] = OnPair("POP_RR", rr) /\ row[10] = return9
      /\ row[3] = jump(TRUE) /\ row[11] = jump(FALSE)
      /\ row[4] = port3 /\ row[12] = portB
      /\ row[5] = call(TRUE) /\ row[13] = call(FALSE)
      /\ row[6] = OnPair("PUSH_RR", rr) /\ row[14] = Plain("CALL_a16")
      /\ row[7] = first /\ row[15] = second
      /\ row[8] = Restart(2 * p) /\ row[16] = Restart(2 * p + 1)
  <2> DEFINE c1 == ret(TRUE)
             c3 == jump(TRUE)
             c5 == call(TRUE)
             c9 == ret(FALSE)
             c11 == jump(FALSE)
             c13 == call(FALSE)
  <2>1. row = <<c1, OnPair("POP_RR", rr), c3, port3, c5, OnPair("PUSH_RR", rr), first,
                Restart(2 * p), c9, return9, c11, portB, c13, Plain("CALL_a16"), second,
                Restart(2 * p + 1)>>
    BY Zenon DEF row, High
  <2> HIDE DEF c1, c3, c5, c9, c11, c13, ret, jump, call
  <2>2. /\ row[1] = c1 /\ row[9] = c9
        /\ row[2] = OnPair("POP_RR", rr) /\ row[10] = return9
        /\ row[3] = c3 /\ row[11] = c11
        /\ row[4] = port3 /\ row[12] = portB
        /\ row[5] = c5 /\ row[13] = c13
        /\ row[6] = OnPair("PUSH_RR", rr) /\ row[14] = Plain("CALL_a16")
        /\ row[7] = first /\ row[15] = second
        /\ row[8] = Restart(2 * p) /\ row[16] = Restart(2 * p + 1)
    BY <2>1
  <2>3. QED
    BY <2>2, Zenon DEF c1, c3, c5, c9, c11, c13
<1>7. /\ s = 0 => opcodes_m[code] = row[z + 1]
      /\ s = 1 => opcodes_m[code] = row[z + 9]
  BY <1>1, <1>2, <1>3
<1>10. CASE z = 0
  <2>1. Group3(code) = ret(~Selected(code))
    BY <1>10 DEF Group3, flag
  <2>2. CASE s = 0
    <3>1. opcodes_m[code] = row[1] /\ ~Selected(code)
      BY <1>5, <1>7, <1>10, <2>2
    <3>2. (~Selected(code)) = TRUE
      BY <3>1, Zenon
    <3>3. QED
      BY <1>4, <2>1, <3>1, <3>2, Zenon
  <2>3. CASE s = 1
    <3>1. opcodes_m[code] = row[9] /\ Selected(code)
      BY <1>5, <1>7, <1>10, <2>3
    <3>2. (~Selected(code)) = FALSE
      BY <3>1, Zenon
    <3>3. QED
      BY <1>4, <2>1, <3>1, <3>2, Zenon
  <2>4. QED
    BY <1>1, <2>2, <2>3
<1>11. CASE z = 1
  BY <1>1, <1>4, <1>5, <1>7, <1>11 DEF Group3, rr, p, return9
<1>12. CASE z = 2
  <2>1. Group3(code) = jump(~Selected(code))
    BY <1>12 DEF Group3, flag
  <2>2. CASE s = 0
    <3>1. opcodes_m[code] = row[3] /\ ~Selected(code)
      BY <1>5, <1>7, <1>12, <2>2
    <3>2. (~Selected(code)) = TRUE
      BY <3>1, Zenon
    <3>3. QED
      BY <1>4, <2>1, <3>1, <3>2, Zenon
  <2>3. CASE s = 1
    <3>1. opcodes_m[code] = row[11] /\ Selected(code)
      BY <1>5, <1>7, <1>12, <2>3
    <3>2. (~Selected(code)) = FALSE
      BY <3>1, Zenon
    <3>3. QED
      BY <1>4, <2>1, <3>1, <3>2, Zenon
  <2>4. QED
    BY <1>1, <2>2, <2>3
<1>13. CASE z = 3
  <2>1. Group3(code) = Plain(<<"JMP_a16", "JMP_a16", "OUT_d8", "IN_d8",
                            "XTHL", "XCHG", "DI", "EI">>[2 * p + s + 1])
    BY <1>1, <1>13 DEF Group3
  <2>2. QED
    BY <1>1, <1>4, <1>7, <1>13, <2>1 DEF port3, portB
<1>14. CASE z = 4
  <2>1. Group3(code) = call(~Selected(code))
    BY <1>14 DEF Group3, flag
  <2>2. CASE s = 0
    <3>1. opcodes_m[code] = row[5] /\ ~Selected(code)
      BY <1>5, <1>7, <1>14, <2>2
    <3>2. (~Selected(code)) = TRUE
      BY <3>1, Zenon
    <3>3. QED
      BY <1>4, <2>1, <3>1, <3>2, Zenon
  <2>3. CASE s = 1
    <3>1. opcodes_m[code] = row[13] /\ Selected(code)
      BY <1>5, <1>7, <1>14, <2>3
    <3>2. (~Selected(code)) = FALSE
      BY <3>1, Zenon
    <3>3. QED
      BY <1>4, <2>1, <3>1, <3>2, Zenon
  <2>4. QED
    BY <1>1, <2>2, <2>3
<1>15. CASE z = 5
  BY <1>1, <1>4, <1>5, <1>7, <1>15 DEF Group3, rr
<1>16. CASE z = 6
  <2>1. Group3(code) = ByOperation(Y(code), Immediate, LogicImmediate)
    BY <1>16 DEF Group3
  <2>2. QED
    BY <1>1, <1>4, <1>6, <1>7, <1>16, <2>1
<1>17. CASE z = 7
  <2>1. Group3(code) = Restart(2 * p + s)
    BY <1>1, <1>17 DEF Group3
  <2>2. QED
    BY <1>1, <1>4, <1>7, <1>17, <2>1
<1>18. QED
  BY <1>1, <1>10, <1>11, <1>12, <1>13, <1>14, <1>15, <1>16, <1>17

\* Every entry of the hand-written table is the instruction its opcode's bit
\* fields encode, undocumented opcodes included (Fake8080.hpp:790-1078).
THEOREM TableIsEncoding ==
  \A code \in Byte : opcodes_m[code] = Decode(code)
<1> SUFFICES ASSUME NEW code \in Byte
             PROVE  opcodes_m[code] = Decode(code)
  OBVIOUS
<1>1. Group(code) \in 0 .. 3
  BY Fields
<1>2. CASE Group(code) = 0
  BY <1>2, Group0Follows DEF Decode
<1>3. CASE Group(code) = 1
  BY <1>3, Group1Follows DEF Decode
<1>4. CASE Group(code) = 2
  BY <1>4, Group2Follows DEF Decode
<1>5. CASE Group(code) = 3
  BY <1>5, Group3Follows DEF Decode
<1>6. QED
  BY <1>1, <1>2, <1>3, <1>4, <1>5

\* The handler each way to write an entry names.
LEMMA OpNames ==
  /\ \A op : Plain(op).op = op
  /\ \A op, rr : OnPair(op, rr).op = op
  /\ \A op, reg : OnRegister(op, reg).op = op
  /\ \A rr, kind : StepPair(rr, kind).op = "INX_DCX_RR"
  /\ \A reg, kind : StepRegister(reg, kind).op = "INR_DCR_R"
  /\ \A kind : StepM(kind).op = "INR_DCR_M"
  /\ \A logic : /\ LogicImmediate(logic).op = "ANI_ORI_XRI_d8"
                /\ LogicM(logic).op = "ANA_ORA_XRA_M"
  /\ \A reg, logic : LogicR(reg, logic).op = "ANA_ORA_XRA_R"
  /\ \A vector : Restart(vector).op = "RST_N" /\ Restart(vector).vector = vector
  /\ \A to, from : Move(to, from).op = "MOV_R_R"
BY DEF Plain, OnPair, OnRegister, StepPair, StepRegister, StepM, LogicImmediate, LogicM,
       LogicR, Restart, Move

LEMMA RotationNames ==
  ASSUME NEW direction, NEW rotateThrough
  PROVE  RotateA(direction, rotateThrough).op = "RLC_RRC_RAL_RAR_R"
BY DEF RotateA

LEMMA ConditionalNames ==
  ASSUME NEW flag, NEW negate
  PROVE  /\ ConditionalJump(flag, negate).op = "conditionalJMP_a16"
         /\ ConditionalCall(flag, negate).op = "conditionalCall_a16"
         /\ ConditionalRet(flag, negate).op = "conditionalRet"
BY DEF ConditionalJump, ConditionalCall, ConditionalRet

LEMMA ArithmeticNames ==
  ASSUME NEW kind, NEW useCarry, NEW storeResult
  PROVE  /\ Immediate(kind, useCarry, storeResult).op = "ADI_ACI_SUI_SBI_CPI_d8"
         /\ ArithmeticM(kind, useCarry, storeResult).op = "ADD_ADC_SUB_SBB_CMP_M"
         /\ \A reg :
              ArithmeticR(reg, kind, useCarry, storeResult).op = "ADD_ADC_SUB_SBB_CMP_R"
BY DEF Immediate, ArithmeticM, ArithmeticR

\* The handlers of each group, by bit field.
LEMMA Group0Ops ==
  ASSUME NEW code \in Byte, Group(code) = 0
  PROVE  LET op == Group0(code).op
             y  == Y(code)
             z  == Z(code)
         IN  /\ z = 0 => op = "NOP"
             /\ z = 1 => op = IF Selected(code) THEN "DAD_RR" ELSE "LXI_RR_d16"
             /\ z = 2 /\ y < 4 => op = IF Selected(code) THEN "LDAX_RR" ELSE "STAX_RR"
             /\ z = 2 /\ y >= 4 =>
                  op = <<"SHLD_a16", "LHLD_a16", "STA_a16", "LDA_a16">>[y - 3]
             /\ z = 3 => op = "INX_DCX_RR"
             /\ z \in {4, 5} => op = IF y = 6 THEN "INR_DCR_M" ELSE "INR_DCR_R"
             /\ z = 6 => op = IF y = 6 THEN "MVI_M_d8" ELSE "MVI_R_d8"
             /\ z = 7 /\ y < 4 => op = "RLC_RRC_RAL_RAR_R"
             /\ z = 7 /\ y >= 4 => op = <<"DAA", "CMA", "STC", "CMC">>[y - 3]
<1>1. Y(code) \in 0 .. 7 /\ Z(code) \in 0 .. 7
  BY Fields
<1>2. Destination(code) = "M" <=> Y(code) = 6
  BY <1>1 DEF Destination, RegisterCode
<1>3. CASE Z(code) \in {0, 1, 3}
  BY <1>3, OpNames DEF Group0
<1>4. CASE Z(code) = 2
  <2>1. CASE Y(code) < 4
    BY <1>1, <1>4, <2>1, OpNames DEF Group0
  <2>2. CASE Y(code) >= 4
    BY <1>1, <1>4, <2>2, OpNames DEF Group0
  <2>3. QED
    BY <1>1, <2>1, <2>2
<1>5. CASE Z(code) \in {4, 5, 6}
  BY <1>1, <1>2, <1>5, OpNames DEF Group0
<1>6. CASE Z(code) = 7
  <2>1. CASE Y(code) < 4
    <3> DEFINE through == Y(code) >= 2
    <3>1. Group0(code) = RotateA(IF Selected(code) THEN "RIGHT" ELSE "LEFT", through)
      BY <1>1, <1>6, <2>1 DEF Group0
    <3> HIDE DEF through
    <3>2. Group0(code).op = "RLC_RRC_RAL_RAR_R"
      BY <3>1, RotationNames, Zenon
    <3>3. QED
      BY <1>1, <1>6, <2>1, <3>2
  <2>2. CASE Y(code) >= 4
    BY <1>1, <1>6, <2>2, OpNames DEF Group0
  <2>3. QED
    BY <1>1, <2>1, <2>2
<1>7. QED
  BY <1>1, <1>3, <1>4, <1>5, <1>6

LEMMA Group1Ops ==
  ASSUME NEW code \in Byte, Group(code) = 1
  PROVE  Group1(code).op \in {"HLT", "MOV_M_R", "MOV_R_M", "MOV_R_R"}
BY OpNames DEF Group1

LEMMA Group2Ops ==
  ASSUME NEW code \in Byte, Group(code) = 2
  PROVE  Group2(code).op \in
           IF Z(code) = 6 THEN {"ADD_ADC_SUB_SBB_CMP_M", "ANA_ORA_XRA_M"}
                          ELSE {"ADD_ADC_SUB_SBB_CMP_R", "ANA_ORA_XRA_R"}
<1> DEFINE from == Operand(code)
           Ar(kind, useCarry, storeResult) ==
             IF from = "M" THEN ArithmeticM(kind, useCarry, storeResult)
                           ELSE ArithmeticR(from, kind, useCarry, storeResult)
           Lo(logic) == IF from = "M" THEN LogicM(logic) ELSE LogicR(from, logic)
           arith == IF from = "M" THEN "ADD_ADC_SUB_SBB_CMP_M" ELSE "ADD_ADC_SUB_SBB_CMP_R"
           logical == IF from = "M" THEN "ANA_ORA_XRA_M" ELSE "ANA_ORA_XRA_R"
<1>1. Y(code) \in 0 .. 7
  BY Fields
<1>2. ASSUME NEW kind, NEW useCarry, NEW storeResult
      PROVE  Ar(kind, useCarry, storeResult).op = arith
  <2>1. CASE from = "M"
    BY <2>1, ArithmeticNames
  <2>2. CASE from # "M"
    BY <2>2, ArithmeticNames
  <2>3. QED
    BY <2>1, <2>2
<1>3. \A logic : Lo(logic).op = logical
  BY OpNames
<1>4. Group2(code) = ByOperation(Y(code), Ar, Lo)
  BY Zenon DEF Group2
<1>5. {arith, logical} = IF Z(code) = 6 THEN {"ADD_ADC_SUB_SBB_CMP_M", "ANA_ORA_XRA_M"}
                                        ELSE {"ADD_ADC_SUB_SBB_CMP_R", "ANA_ORA_XRA_R"}
  <2>1. from = "M" <=> Z(code) = 6
    BY Fields DEF Operand, RegisterCode
  <2> HIDE DEF from
  <2>2. QED
    BY <2>1
<1> HIDE DEF Ar, Lo, arith, logical
<1> DEFINE add == Ar("ADD", FALSE, TRUE)
           adc == Ar("ADD", TRUE, TRUE)
           sub == Ar("SUB", FALSE, TRUE)
           sbb == Ar("SUB", TRUE, TRUE)
           cmp == Ar("SUB", FALSE, FALSE)
<1>6. /\ add.op = arith /\ adc.op = arith /\ sub.op = arith /\ sbb.op = arith
      /\ cmp.op = arith
  BY <1>2, Zenon
<1>7. ByOperation(Y(code), Ar, Lo)
        = CASE Y(code) = 0 -> add
            [] Y(code) = 1 -> adc
            [] Y(code) = 2 -> sub
            [] Y(code) = 3 -> sbb
            [] Y(code) = 4 -> Lo("AND")
            [] Y(code) = 5 -> Lo("XOR")
            [] Y(code) = 6 -> Lo("OR")
            [] Y(code) = 7 -> cmp
  BY Zenon DEF ByOperation
<1> HIDE DEF add, adc, sub, sbb, cmp
<1>8. Group2(code).op \in {arith, logical}
  BY <1>1, <1>3, <1>4, <1>6, <1>7
<1>9. QED
  BY <1>5, <1>8

LEMMA Group3Ops ==
  ASSUME NEW code \in Byte, Group(code) = 3
  PROVE  LET op == Group3(code).op
             y  == Y(code)
             z  == Z(code)
         IN  /\ z = 0 => op = "conditionalRet"
             /\ z = 1 => op = IF Selected(code)
                                THEN <<"RET", "RET", "PCHL", "SPHL">>[PairNumber(code) + 1]
                                ELSE "POP_RR"
             /\ z = 2 => op = "conditionalJMP_a16"
             /\ z = 3 => op = <<"JMP_a16", "JMP_a16", "OUT_d8", "IN_d8",
                                "XTHL", "XCHG", "DI", "EI">>[y + 1]
             /\ z = 4 => op = "conditionalCall_a16"
             /\ z = 5 => op = IF Selected(code) THEN "CALL_a16" ELSE "PUSH_RR"
             /\ z = 6 => op \in {"ADI_ACI_SUI_SBI_CPI_d8", "ANI_ORI_XRI_d8"}
             /\ z = 7 => op = "RST_N" /\ Group3(code).vector = y
<1>1. Y(code) \in 0 .. 7 /\ Z(code) \in 0 .. 7
  BY Fields
<1> DEFINE negate == ~Selected(code)
<1>2. CASE Z(code) = 0
  <2>1. Group3(code) = ConditionalRet(Condition(code), negate)
    BY <1>2 DEF Group3
  <2> HIDE DEF negate
  <2>2. QED
    BY <1>2, <2>1, ConditionalNames
<1>3. CASE Z(code) = 2
  <2>1. Group3(code) = ConditionalJump(Condition(code), negate)
    BY <1>3 DEF Group3
  <2> HIDE DEF negate
  <2>2. QED
    BY <1>3, <2>1, ConditionalNames
<1>4. CASE Z(code) = 4
  <2>1. Group3(code) = ConditionalCall(Condition(code), negate)
    BY <1>4 DEF Group3
  <2> HIDE DEF negate
  <2>2. QED
    BY <1>4, <2>1, ConditionalNames
<1>5. CASE Z(code) = 1
  <2>1. Group3(code) = IF Selected(code)
                      THEN Plain(<<"RET", "RET", "PCHL", "SPHL">>[PairNumber(code) + 1])
                      ELSE OnPair("POP_RR", StackPair(code))
    BY <1>5 DEF Group3
  <2>2. QED
    BY <1>5, <2>1, OpNames
<1>6. CASE Z(code) = 3
  <2>1. Group3(code) = Plain(<<"JMP_a16", "JMP_a16", "OUT_d8", "IN_d8",
                            "XTHL", "XCHG", "DI", "EI">>[Y(code) + 1])
    BY <1>6 DEF Group3
  <2>2. QED
    BY <1>6, <2>1, OpNames
<1>7. CASE Z(code) = 5
  <2>1. Group3(code) = IF Selected(code) THEN Plain("CALL_a16")
                                         ELSE OnPair("PUSH_RR", StackPair(code))
    BY <1>7 DEF Group3
  <2>2. QED
    BY <1>7, <2>1, OpNames
<1>8. CASE Z(code) = 6
  <2>1. Group3(code) = ByOperation(Y(code), Immediate, LogicImmediate)
    BY <1>8 DEF Group3
  <2> DEFINE entry(y) == ByOperation(y, Immediate, LogicImmediate)
             both  == {"ADI_ACI_SUI_SBI_CPI_d8", "ANI_ORI_XRI_d8"}
  <2>2. /\ entry(0).op = "ADI_ACI_SUI_SBI_CPI_d8" /\ entry(1).op = "ADI_ACI_SUI_SBI_CPI_d8"
        /\ entry(2).op = "ADI_ACI_SUI_SBI_CPI_d8" /\ entry(3).op = "ADI_ACI_SUI_SBI_CPI_d8"
        /\ entry(7).op = "ADI_ACI_SUI_SBI_CPI_d8"
    BY OperationEntries, ArithmeticNames, ZenonT(40)
  <2>3. /\ entry(4).op = "ANI_ORI_XRI_d8" /\ entry(5).op = "ANI_ORI_XRI_d8"
        /\ entry(6).op = "ANI_ORI_XRI_d8"
    <3>1. \A logic : LogicImmediate(logic).op = "ANI_ORI_XRI_d8"
      BY OpNames
    <3>2. QED
      BY <3>1, OperationEntries, Zenon
  <2> HIDE DEF entry
  <2>4. entry(Y(code)).op \in both
    BY <1>1, <2>2, <2>3
  <2>5. QED
    BY <1>8, <2>1, <2>4 DEF entry
<1>9. CASE Z(code) = 7
  <2>1. Group3(code) = Restart(Y(code))
    BY <1>9 DEF Group3
  <2>2. QED
    BY <1>9, <2>1, OpNames
<1>10. QED
  BY <1>1, <1>2, <1>3, <1>4, <1>5, <1>6, <1>7, <1>8, <1>9

\* The handlers that read one or two operand bytes.
ByteOp == {"MVI_R_d8", "MVI_M_d8", "ADI_ACI_SUI_SBI_CPI_d8", "ANI_ORI_XRI_d8", "IN_d8",
           "OUT_d8"}

WordOp == {"LXI_RR_d16", "SHLD_a16", "LHLD_a16", "STA_a16", "LDA_a16", "JMP_a16", "CALL_a16",
           "conditionalJMP_a16", "conditionalCall_a16"}

\* What the handler of an opcode has to do with the place of the next instruction.
FlowFollows(code) ==
  LET i == opcodes_m[code]
  IN  /\ i.op \in WordOp <=> HasWord(code)
      /\ i.op \in ByteOp <=> HasByte(code)
      /\ i.op \in {"JMP_a16", "conditionalJMP_a16"} <=> IsJump(code)
      /\ i.op \in {"CALL_a16", "conditionalCall_a16"} <=> IsCall(code) /\ Z(code) # 7
      /\ i.op = "RST_N" <=> IsCall(code) /\ Z(code) = 7
      /\ i.op = "RST_N" => i.vector = Y(code)
      /\ i.op \in {"RET", "conditionalRet"} <=> IsReturn(code)
      /\ i.op = "PCHL" <=> IsPCHL(code)

\* A handler that takes operand bytes, jumps, calls or returns is in the table at
\* the opcodes whose encoding says so, and at no other.
LEMMA InstructionFlow ==
  ASSUME NEW code \in Byte
  PROVE  FlowFollows(code)
<1> USE DEF FlowFollows, WordOp, ByteOp
<1>1. /\ Group(code) \in 0 .. 3 /\ Y(code) \in 0 .. 7 /\ Z(code) \in 0 .. 7
      /\ code = 64 * Group(code) + 8 * Y(code) + Z(code)
  BY Fields
<1>2. Selected(code) <=> Y(code) % 2 = 1
  BY DEF Selected
<1>3. CASE Group(code) = 0
  <2>1. opcodes_m[code] = Group0(code)
    BY <1>3, Group0Follows
  <2> DEFINE i == Group0(code)
  <2>2. CASE Z(code) \in {0, 1, 3}
    BY <1>1, <1>2, <1>3, <2>1, <2>2, Group0Ops
       DEF HasWord, HasByte, IsJump, IsCall, IsReturn, IsPCHL
  <2>3. CASE Z(code) \in {2, 7}
    BY <1>1, <1>2, <1>3, <2>1, <2>3, Group0Ops
       DEF HasWord, HasByte, IsJump, IsCall, IsReturn, IsPCHL
  <2>4. CASE Z(code) \in {4, 5, 6}
    BY <1>1, <1>2, <1>3, <2>1, <2>4, Group0Ops
       DEF HasWord, HasByte, IsJump, IsCall, IsReturn, IsPCHL
  <2>5. QED
    BY <1>1, <2>2, <2>3, <2>4
<1>4. CASE Group(code) = 1
  BY <1>1, <1>2, <1>4, Group1Follows, Group1Ops
       DEF HasWord, HasByte, IsJump, IsCall, IsReturn, IsPCHL
<1>5. CASE Group(code) = 2
  BY <1>1, <1>2, <1>5, Group2Follows, Group2Ops
       DEF HasWord, HasByte, IsJump, IsCall, IsReturn, IsPCHL
<1>6. CASE Group(code) = 3
  <2>1. opcodes_m[code] = Group3(code)
    BY <1>6, Group3Follows
  <2>2. CASE Z(code) \in {0, 2, 4, 6, 7}
    BY <1>1, <1>2, <1>6, <2>1, <2>2, Group3Ops
       DEF HasWord, HasByte, IsJump, IsCall, IsReturn, IsPCHL
  <2>3. CASE Z(code) = 1
    BY <1>1, <1>2, <1>6, <2>1, <2>3, Group3Ops
       DEF HasWord, HasByte, IsJump, IsCall, IsReturn, IsPCHL, PairNumber
  <2>4. CASE Z(code) = 3
    BY <1>1, <1>2, <1>6, <2>1, <2>4, Group3Ops
       DEF HasWord, HasByte, IsJump, IsCall, IsReturn, IsPCHL
  <2>5. CASE Z(code) = 5
    BY <1>1, <1>2, <1>6, <2>1, <2>5, Group3Ops
       DEF HasWord, HasByte, IsJump, IsCall, IsReturn, IsPCHL
  <2>6. QED
    BY <1>1, <2>2, <2>3, <2>4, <2>5
<1>7. QED
  BY <1>1, <1>3, <1>4, <1>5, <1>6
=============================================================================
