---------------------------- MODULE OpcodeTable ----------------------------
(***************************************************************************)
(* The dispatch table opcodes_m of include/Fake8080.hpp: which handler,    *)
(* with which template arguments, runs for each of the 256 opcodes.        *)
(*                                                                         *)
(* An entry is a record: op names the handler (the "superfunction" when    *)
(* the table's member only forwards its arguments to one), the other       *)
(* fields are its template arguments.  The table is written row by row,    *)
(* sixteen entries each, as in the source.                                 *)
(***************************************************************************)
EXTENDS Alu

\* Registers and pairs that template arguments name.
OperandRegister == {"A", "B", "C", "D", "E", "H", "L"}

OperandPair == {"BC", "DE", "HL", "SP", "PSW"}

PlainOp ==
  {"NOP", "STC", "CMA", "CMC", "DAA", "MVI_M_d8", "SHLD_a16", "LHLD_a16",
   "STA_a16", "LDA_a16", "XTHL", "XCHG", "SPHL", "PCHL", "JMP_a16", "CALL_a16",
   "RET", "EI", "DI", "IN_d8", "OUT_d8", "HLT"}

RegisterOp == {"MVI_R_d8", "MOV_M_R", "MOV_R_M"}

PairOp == {"LXI_RR_d16", "STAX_RR", "LDAX_RR", "DAD_RR", "PUSH_RR", "POP_RR"}

ConditionalOp == {"conditionalJMP_a16", "conditionalCall_a16", "conditionalRet"}

Instruction ==
  [op : PlainOp]
    \cup [op : RegisterOp, reg : OperandRegister]
    \cup [op : PairOp, rr : OperandPair]
    \cup [op : {"MOV_R_R"}, source : OperandRegister, destination : OperandRegister]
    \cup [op : {"INX_DCX_RR"}, rr : OperandPair, kind : AritmeticOperation]
    \cup [op : {"INR_DCR_R"}, reg : OperandRegister, kind : AritmeticOperation]
    \cup [op : {"INR_DCR_M"}, kind : AritmeticOperation]
    \cup [op : {"ADD_ADC_SUB_SBB_CMP_R"}, reg : OperandRegister,
          kind : AritmeticOperation, useCarry : BOOLEAN, storeResult : BOOLEAN]
    \cup [op : {"ADD_ADC_SUB_SBB_CMP_M", "ADI_ACI_SUI_SBI_CPI_d8"},
          kind : AritmeticOperation, useCarry : BOOLEAN, storeResult : BOOLEAN]
    \cup [op : {"ANA_ORA_XRA_R"}, reg : OperandRegister, logic : LogicOperation]
    \cup [op : {"ANA_ORA_XRA_M", "ANI_ORI_XRI_d8"}, logic : LogicOperation]
    \cup [op : {"RLC_RRC_RAL_RAR_R"}, reg : OperandRegister,
          direction : ShiftDirection, rotateThrough : BOOLEAN]
    \cup [op : ConditionalOp, flag : Flags, negate : BOOLEAN]
    \cup [op : {"RST_N"}, vector : 0 .. 7]

Plain(op) == [op |-> op]

OnPair(op, rr) == [op |-> op, rr |-> rr]

OnRegister(op, reg) == [op |-> op, reg |-> reg]

StepPair(rr, kind) == [op |-> "INX_DCX_RR", rr |-> rr, kind |-> kind]

StepRegister(reg, kind) == [op |-> "INR_DCR_R", reg |-> reg, kind |-> kind]

StepM(kind) == [op |-> "INR_DCR_M", kind |-> kind]

RotateA(direction, rotateThrough) ==
  [op |-> "RLC_RRC_RAL_RAR_R", reg |-> "A",
   direction |-> direction, rotateThrough |-> rotateThrough]

ConditionalJump(flag, negate) ==
  [op |-> "conditionalJMP_a16", flag |-> flag, negate |-> negate]

ConditionalCall(flag, negate) ==
  [op |-> "conditionalCall_a16", flag |-> flag, negate |-> negate]

ConditionalRet(flag, negate) ==
  [op |-> "conditionalRet", flag |-> flag, negate |-> negate]

ArithmeticR(reg, kind, useCarry, storeResult) ==
  [op |-> "ADD_ADC_SUB_SBB_CMP_R", reg |-> reg,
   kind |-> kind, useCarry |-> useCarry, storeResult |-> storeResult]

ArithmeticM(kind, useCarry, storeResult) ==
  [op |-> "ADD_ADC_SUB_SBB_CMP_M",
   kind |-> kind, useCarry |-> useCarry, storeResult |-> storeResult]

LogicR(reg, logic) == [op |-> "ANA_ORA_XRA_R", reg |-> reg, logic |-> logic]

LogicM(logic) == [op |-> "ANA_ORA_XRA_M", logic |-> logic]

Immediate(kind, useCarry, storeResult) ==
  [op |-> "ADI_ACI_SUI_SBI_CPI_d8",
   kind |-> kind, useCarry |-> useCarry, storeResult |-> storeResult]

LogicImmediate(logic) == [op |-> "ANI_ORI_XRI_d8", logic |-> logic]

Restart(vector) == [op |-> "RST_N", vector |-> vector]

Move(destination, source) ==
  [op |-> "MOV_R_R", source |-> source, destination |-> destination]

\* The eight entries of a block whose operand runs over B C D E H L M A.
Block(Of(_), ofM) ==
  <<Of("B"), Of("C"), Of("D"), Of("E"), Of("H"), Of("L"), ofM, Of("A")>>

Moves(destination) ==
  LET Of(source) == Move(destination, source)
  IN  Block(Of, OnRegister("MOV_R_M", destination))

MovesToM == LET Of(source) == OnRegister("MOV_M_R", source)
            IN  Block(Of, Plain("HLT"))

Arithmetic(kind, useCarry, storeResult) ==
  LET Of(reg) == ArithmeticR(reg, kind, useCarry, storeResult)
  IN  Block(Of, ArithmeticM(kind, useCarry, storeResult))

Logic(logic) ==
  LET Of(reg) == LogicR(reg, logic)
  IN  Block(Of, LogicM(logic))

\* 0x00 .. 0x1F: NOP, LXI, STAX, INX, INR, DCR, MVI, a rotation; then the
\* alternative NOP, DAD, LDAX, DCX, INR, DCR, MVI, a rotation.
Low(rr, high, low, rotateLeft, rotateRight) ==
  <<Plain("NOP"), OnPair("LXI_RR_d16", rr), OnPair("STAX_RR", rr),
    StepPair(rr, "ADD"), StepRegister(high, "ADD"), StepRegister(high, "SUB"),
    OnRegister("MVI_R_d8", high), rotateLeft,
    Plain("NOP"), OnPair("DAD_RR", rr), OnPair("LDAX_RR", rr),
    StepPair(rr, "SUB"), StepRegister(low, "ADD"), StepRegister(low, "SUB"),
    OnRegister("MVI_R_d8", low), rotateRight>>

Row20 ==
  <<Plain("NOP"), OnPair("LXI_RR_d16", "HL"), Plain("SHLD_a16"),
    StepPair("HL", "ADD"), StepRegister("H", "ADD"), StepRegister("H", "SUB"),
    OnRegister("MVI_R_d8", "H"), Plain("DAA"),
    Plain("NOP"), OnPair("DAD_RR", "HL"), Plain("LHLD_a16"),
    StepPair("HL", "SUB"), StepRegister("L", "ADD"), StepRegister("L", "SUB"),
    OnRegister("MVI_R_d8", "L"), Plain("CMA")>>

Row30 ==
  <<Plain("NOP"), OnPair("LXI_RR_d16", "SP"), Plain("STA_a16"),
    StepPair("SP", "ADD"), StepM("ADD"), StepM("SUB"),
    Plain("MVI_M_d8"), Plain("STC"),
    Plain("NOP"), OnPair("DAD_RR", "SP"), Plain("LDA_a16"),
    StepPair("SP", "SUB"), StepRegister("A", "ADD"), StepRegister("A", "SUB"),
    OnRegister("MVI_R_d8", "A"), Plain("CMC")>>

\* 0xC0 .. 0xFF: the conditional return, jump and call on one flag, false in
\* the first half of the row and true in the second, around the entries that
\* differ from row to row.
High(flag, rr, port3, first, firstRst, return9, portB, callD, second) ==
  <<ConditionalRet(flag, TRUE), OnPair("POP_RR", rr),
    ConditionalJump(flag, TRUE), port3,
    ConditionalCall(flag, TRUE), OnPair("PUSH_RR", rr), first, Restart(firstRst),
    ConditionalRet(flag, FALSE), return9,
    ConditionalJump(flag, FALSE), portB,
    ConditionalCall(flag, FALSE), callD, second, Restart(firstRst + 1)>>

\* Seeded fault: the 0xE0 row is a copy of the 0xD0 row whose conditions
\* still test CY.
RowE0_CopyOfD0 ==
  High("CY", "HL", Plain("XTHL"), LogicImmediate("AND"), 4,
       Plain("PCHL"), Plain("XCHG"), Plain("CALL_a16"), LogicImmediate("XOR"))

RowE0 ==
  High("P", "HL", Plain("XTHL"), LogicImmediate("AND"), 4,
       Plain("PCHL"), Plain("XCHG"), Plain("CALL_a16"), LogicImmediate("XOR"))

\* 0x00 .. 0x3F, sixteen entries to a row.
LowRows ==
  <<Low("BC", "B", "C", RotateA("LEFT", FALSE), RotateA("RIGHT", FALSE)),
    Low("DE", "D", "E", RotateA("LEFT", TRUE), RotateA("RIGHT", TRUE)),
    Row20, Row30>>

\* 0x40 .. 0xBF, eight entries to a block.
Blocks ==
  <<Moves("B"), Moves("C"), Moves("D"), Moves("E"),
    Moves("H"), Moves("L"), MovesToM, Moves("A"),
    Arithmetic("ADD", FALSE, TRUE), Arithmetic("ADD", TRUE, TRUE),
    Arithmetic("SUB", FALSE, TRUE), Arithmetic("SUB", TRUE, TRUE),
    Logic("AND"), Logic("XOR"), Logic("OR"), Arithmetic("SUB", FALSE, FALSE)>>

\* 0xC0 .. 0xFF, sixteen entries to a row.
HighRows ==
  <<High("Z", "BC", Plain("JMP_a16"), Immediate("ADD", FALSE, TRUE), 0,
         Plain("RET"), Plain("JMP_a16"), Plain("CALL_a16"),
         Immediate("ADD", TRUE, TRUE)),
    High("CY", "DE", Plain("OUT_d8"), Immediate("SUB", FALSE, TRUE), 2,
         Plain("RET"), Plain("IN_d8"), Plain("CALL_a16"),
         Immediate("SUB", TRUE, TRUE)),
    RowE0,
    High("S", "PSW", Plain("DI"), LogicImmediate("OR"), 6,
         Plain("SPHL"), Plain("EI"), Plain("CALL_a16"),
         Immediate("SUB", FALSE, FALSE))>>

opcodes_m ==
  [code \in Byte |->
     IF code < 64 THEN LowRows[(code \div 16) + 1][(code % 16) + 1]
     ELSE IF code < 192 THEN Blocks[((code - 64) \div 8) + 1][(code % 8) + 1]
     ELSE HighRows[((code - 192) \div 16) + 1][(code % 16) + 1]]
=============================================================================
