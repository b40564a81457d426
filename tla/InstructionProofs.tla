-------------------------- MODULE InstructionProofs --------------------------
(***************************************************************************)
(* What one instruction or one interrupt may do, on any board and for any  *)
(* program: where it goes on, which registers it changes, which cells of   *)
(* memory, and what a call leaves on the stack.                            *)
(*                                                                         *)
(* Each result has two halves.  One is about the handlers: what the        *)
(* handler of a table entry may touch, by the entry's fields.  The other   *)
(* is about the table: an entry names no more than the bit fields of its   *)
(* opcode do.                                                              *)
(***************************************************************************)
EXTENDS Fake8080Proofs

\* Where the three shapes of handlers go on.
LEMMA EffectCounter ==
  /\ \A pc, file, c : Effect(pc, file, c) => pc_m' = pc
  /\ \A length, file : Compute(length, file) => pc_m' = After(length)
  /\ \A length, c : Store(length, c) => pc_m' = After(length)
BY Zenon DEF Effect, Compute, Store

\* A handler that reads no operand and does not jump goes on with the byte after
\* its opcode.
LEMMA OneByteCounter ==
  ASSUME NEW i, DataHandler(i), i.op \notin WordOp \cup ByteOp,
         i.op \notin {"RET", "conditionalRet", "PCHL", "RST_N"}
  PROVE  pc_m' = After(1)
<1>1. CASE i.op \in {"NOP", "STC", "CMC", "CMA", "DAA", "XCHG", "SPHL", "XTHL"}
  <2>1. NOP \/ STC \/ CMC \/ CMA \/ DAA \/ XCHG \/ SPHL \/ XTHL
    BY <1>1 DEF DataHandler
  <2>2. QED
    BY <2>1, EffectCounter, Zenon DEF NOP, STC, CMC, CMA, DAA, XCHG, SPHL, XTHL
<1>2. CASE i.op \in {"MOV_R_R", "MOV_R_M", "MOV_M_R", "LDAX_RR", "STAX_RR", "INX_DCX_RR",
                     "INR_DCR_R", "INR_DCR_M", "DAD_RR", "PUSH_RR", "POP_RR"}
  <2>1. \/ MOV_R_R(i.source, i.destination) \/ MOV_R_M(i.reg) \/ MOV_M_R(i.reg)
        \/ LDAX_RR(i.rr) \/ STAX_RR(i.rr) \/ INX_DCX_RR(i.rr, i.kind)
        \/ INR_DCR_R(i.reg, i.kind) \/ INR_DCR_M(i.kind) \/ DAD_RR(i.rr)
        \/ PUSH_RR(i.rr) \/ POP_RR(i.rr)
    BY <1>2 DEF DataHandler
  <2>2. QED
    BY <2>1, EffectCounter, Zenon
       DEF MOV_R_R, MOV_R_M, MOV_M_R, LDAX_RR, STAX_RR, INX_DCX_RR, INR_DCR_R, INR_DCR_M,
           DAD_RR, PUSH_RR, POP_RR
<1>3. CASE i.op \in {"RLC_RRC_RAL_RAR_R", "ADD_ADC_SUB_SBB_CMP_R", "ADD_ADC_SUB_SBB_CMP_M",
                     "ANA_ORA_XRA_R", "ANA_ORA_XRA_M"}
  <2>1. \/ RLC_RRC_RAL_RAR_R(i.reg, i.direction, i.rotateThrough)
        \/ ADD_ADC_SUB_SBB_CMP_R(i.reg, i.kind, i.useCarry, i.storeResult)
        \/ ADD_ADC_SUB_SBB_CMP_M(i.kind, i.useCarry, i.storeResult)
        \/ ANA_ORA_XRA_R(i.reg, i.logic) \/ ANA_ORA_XRA_M(i.logic)
    BY <1>3 DEF DataHandler
  <2>2. QED
    BY <2>1, EffectCounter, Zenon
       DEF RLC_RRC_RAL_RAR_R, ADD_ADC_SUB_SBB_CMP_R, ADD_ADC_SUB_SBB_CMP_M,
           ANA_ORA_XRA_R, ANA_ORA_XRA_M
<1>4. QED
  BY <1>1, <1>2, <1>3 DEF DataHandler, WordOp, ByteOp

\* A handler with an operand goes on behind it, on every branch, or, if it
\* jumps or calls, at the address the operand gives.
LEMMA OperandCounter ==
  ASSUME NEW i, DataHandler(i)
  PROVE  /\ i.op \in ByteOp => pc_m' = After(2)
         /\ i.op \in WordOp =>
              \/ pc_m' = After(3)
              \/ pc_m' = readNextTwoBytes /\ i.op \in {"JMP_a16", "conditionalJMP_a16",
                                                       "CALL_a16", "conditionalCall_a16"}
<1>1. CASE i.op \in ByteOp
  <2>1. \/ MVI_R_d8(i.reg) \/ MVI_M_d8 \/ ANI_ORI_XRI_d8(i.logic) \/ IN_d8
        \/ ADI_ACI_SUI_SBI_CPI_d8(i.kind, i.useCarry, i.storeResult)
    BY <1>1 DEF DataHandler, ByteOp
  <2>2. pc_m' = After(2)
    BY <2>1, EffectCounter, Zenon
       DEF MVI_R_d8, MVI_M_d8, ANI_ORI_XRI_d8, IN_d8, ADI_ACI_SUI_SBI_CPI_d8
  <2>3. QED
    BY <1>1, <2>2 DEF ByteOp, WordOp
<1>2. CASE i.op \in {"LXI_RR_d16", "SHLD_a16", "LHLD_a16", "STA_a16", "LDA_a16"}
  <2>1. LXI_RR_d16(i.rr) \/ SHLD_a16 \/ LHLD_a16 \/ STA_a16 \/ LDA_a16
    BY <1>2 DEF DataHandler
  <2>2. pc_m' = After(3)
    BY <2>1, EffectCounter, Zenon DEF LXI_RR_d16, SHLD_a16, LHLD_a16, STA_a16, LDA_a16
  <2>3. QED
    BY <1>2, <2>2 DEF ByteOp
<1>3. CASE i.op \in {"JMP_a16", "conditionalJMP_a16", "CALL_a16", "conditionalCall_a16"}
  <2>1. \/ JMP_a16 \/ conditionalJMP_a16(i.flag, i.negate)
        \/ CALL_a16 \/ conditionalCall_a16(i.flag, i.negate)
    BY <1>3 DEF DataHandler
  <2>2. pc_m' = After(3) \/ pc_m' = readNextTwoBytes
    BY <2>1, EffectCounter, Zenon
       DEF JMP_a16, conditionalJMP_a16, CALL_a16, conditionalCall_a16, callAddress
  <2>3. QED
    BY <1>3, <2>2 DEF ByteOp
<1>4. QED
  BY <1>1, <1>2, <1>3 DEF ByteOp, WordOp

\* Returns go where the two bytes on top of the stack say, through WZ; PCHL and
\* RST take their address from HL and from the opcode.
LEMMA ReturnCounter ==
  ASSUME MachineOK, NEW i, DataHandler(i)
  PROVE  /\ i.op \in {"RET", "conditionalRet"} => pc_m' \in {After(1), readTwoBytes(SP)}
         /\ i.op = "PCHL" => pc_m' = HL
         /\ i.op = "RST_N" => pc_m' = 8 * i.vector
<1>1. ASSUME RET PROVE pc_m' = readTwoBytes(SP)
  <2> DEFINE moved == setCombinedRegister(registers_m, "SP", ToWord(SP + 2))
  <2>1. moved \in File /\ readTwoBytes(SP) \in Word
    BY OperandsRead, StackAndWords DEF CombinedRegister
  <2>2. Popped("WZ") = setCombinedRegister(moved, "WZ", readTwoBytes(SP))
    BY DEF Popped
  <2> HIDE DEF moved
  <2>3. getCombinedRegister(Popped("WZ"), "WZ") = readTwoBytes(SP)
    BY <2>1, <2>2, PairHoldsWord DEF CombinedRegister
  <2>4. QED
    BY <1>1, <2>3, EffectCounter DEF RET
<1>2. i.op \in {"RET", "conditionalRet"} => pc_m' \in {After(1), readTwoBytes(SP)}
  <2>1. CASE i.op \in {"RET", "conditionalRet"}
    <3>1. RET \/ Compute(1, registers_m)
      BY <2>1 DEF DataHandler, conditionalRet
    <3>2. QED
      BY <1>1, <3>1, EffectCounter
  <2>2. QED
    BY <2>1
<1>3. i.op = "PCHL" => pc_m' = HL
  BY EffectCounter DEF DataHandler, PCHL
<1>4. i.op = "RST_N" => pc_m' = 8 * i.vector
  <2>1. i.op = "RST_N" => RST_N(i.vector)
    BY DEF DataHandler
  <2>2. QED
    BY <2>1, EffectCounter, Zenon DEF RST_N, callAddress
<1>5. QED
  BY <1>2, <1>3, <1>4

\* The counter after an instruction: its handler and the encoding agree.
LEMMA DataHandlerFlow ==
  ASSUME MachineOK, NEW i, i = opcodes_m[Fetched], DataHandler(i)
  PROVE  pc_m' = Sequel \/ pc_m' \in Targets
<1>1. Fetched \in Byte
  BY OperandsRead DEF Fetched, MachineOK
<1>2. FlowFollows(Fetched)
  BY <1>1, InstructionFlow
<1>3. Sequel = After(Length(Fetched))
  BY Zenon DEF Sequel, After
<1>4. CASE i.op \in WordOp
  <2>1. HasWord(Fetched) /\ Sequel = After(3)
    BY <1>2, <1>3, <1>4 DEF FlowFollows, Length
  <2>2. CASE pc_m' = readNextTwoBytes /\ i.op \in {"JMP_a16", "conditionalJMP_a16"}
    <3>1. IsJump(Fetched)
      BY <1>2, <2>2 DEF FlowFollows
    <3>2. Targets = {readNextTwoBytes}
      BY <3>1 DEF Targets, IsCall, IsJump, IsReturn, IsPCHL, Group, Z, Y
    <3>3. QED
      BY <2>2, <3>2
  <2>3. CASE pc_m' = readNextTwoBytes /\ i.op \in {"CALL_a16", "conditionalCall_a16"}
    <3>1. IsCall(Fetched) /\ Z(Fetched) # 7
      BY <1>2, <2>3 DEF FlowFollows
    <3>2. Targets = {readNextTwoBytes}
      BY <3>1 DEF Targets, IsCall, IsJump, IsReturn, IsPCHL, Group, Z, Y
    <3>3. QED
      BY <2>3, <3>2
  <2>4. QED
    BY <1>4, <2>1, <2>2, <2>3, OperandCounter
<1>5. CASE i.op \in ByteOp
  BY <1>2, <1>3, <1>5, OperandCounter DEF FlowFollows, Length, WordOp, ByteOp
<1>6. CASE i.op \notin WordOp \cup ByteOp
  <2>1. Sequel = After(1)
    BY <1>2, <1>3, <1>6 DEF FlowFollows, Length
  <2>2. CASE i.op \in {"RET", "conditionalRet"}
    <3>1. IsReturn(Fetched)
      BY <1>2, <2>2 DEF FlowFollows
    <3>2. Targets = {readTwoBytes(SP)}
      BY <3>1 DEF Targets, IsCall, IsJump, IsReturn, IsPCHL, Group, Z, Y
    <3>3. QED
      BY <2>1, <2>2, <3>2, ReturnCounter
  <2>3. CASE i.op = "PCHL"
    <3>1. IsPCHL(Fetched)
      BY <1>2, <2>3 DEF FlowFollows
    <3>2. Targets = {HL}
      BY <3>1 DEF Targets, IsCall, IsJump, IsReturn, IsPCHL, Group, Z, Y, Selected
    <3>3. QED
      BY <2>3, <3>2, ReturnCounter
  <2>4. CASE i.op = "RST_N"
    <3>1. IsCall(Fetched) /\ Z(Fetched) = 7 /\ i.vector = Y(Fetched)
      BY <1>2, <2>4 DEF FlowFollows
    <3>2. Targets = {8 * Y(Fetched)}
      BY <3>1 DEF Targets, IsCall, IsJump, IsReturn, IsPCHL, Group, Z, Y
    <3>3. QED
      BY <2>4, <3>1, <3>2, ReturnCounter
  <2>5. CASE i.op \notin {"RET", "conditionalRet", "PCHL", "RST_N"}
    BY <1>6, <2>1, <2>5, OneByteCounter
  <2>6. QED
    BY <2>2, <2>3, <2>4, <2>5
<1>7. QED
  BY <1>4, <1>5, <1>6

\* The same for every instruction.
LEMMA StepFlow ==
  ASSUME MachineOK, Execute
  PROVE  pc_m' = Sequel \/ pc_m' \in Targets
<1>1. Fetched \in Byte /\ instruction = opcodes_m[Fetched]
  BY OperandsRead DEF Fetched, MachineOK, instruction
<1>2. FlowFollows(Fetched)
  BY <1>1, InstructionFlow
<1>3. Sequel = After(Length(Fetched))
  BY Zenon DEF Sequel, After
<1>4. CASE DataHandler(instruction)
  BY <1>1, <1>4, DataHandlerFlow
<1>5. CASE instruction.op \in {"EI", "DI", "HLT"} /\ NOP
  <2>1. Sequel = After(1)
    BY <1>1, <1>2, <1>3, <1>5 DEF FlowFollows, Length, WordOp, ByteOp
  <2>2. QED
    BY <1>5, <2>1, EffectCounter, Zenon DEF NOP
<1>6. CASE instruction.op = "OUT_d8" /\ OUT_d8
  <2>1. Sequel = After(2)
    BY <1>1, <1>2, <1>3, <1>6 DEF FlowFollows, Length, WordOp, ByteOp
  <2>2. QED
    BY <1>6, <2>1 DEF OUT_d8
<1>7. QED
  BY <1>4, <1>5, <1>6 DEF Execute, EI, DI, HLT

\* Instructions never get out of step, for any program in any memory: a handler
\* reads exactly the operand bytes its opcode has, when a condition fails too,
\* and goes elsewhere only by a jump, a call or a return (Fake8080.hpp:703-735,
\* Fake8080.cpp:45-55, 343-470).
THEOREM InstructionsStayInStep == Spec => StaysInStep
<1> DEFINE Flows == Execute => pc_m' = Sequel \/ pc_m' \in Targets
<1>1. CpuInv /\ [Next]_vars => [Flows]_vars
  BY StepFlow DEF CpuInv
<1> HIDE DEF Flows
<1>2. Spec => [][Flows]_vars
  BY <1>1, CpuInvariant, PTL DEF Spec
<1>3. QED
  BY <1>2, PTL DEF StaysInStep, Flows

-----------------------------------------------------------------------------
Scratch == Halves("WZ")

\* The registers a handler may change besides the scratch pair WZ.
Written(i) ==
  CASE i.op = "MOV_R_R" -> {i.destination}
    [] i.op \in {"MOV_R_M", "MVI_R_d8"} -> {i.reg}
    [] i.op \in {"INR_DCR_R", "RLC_RRC_RAL_RAR_R"} -> {i.reg, "F"}
    [] i.op \in {"LXI_RR_d16", "INX_DCX_RR"} -> Halves(i.rr)
    [] i.op = "POP_RR" -> Halves("SP") \cup Halves(i.rr)
    [] i.op \in {"LDAX_RR", "LDA_a16", "CMA", "IN_d8"} -> {"A"}
    [] i.op \in {"LHLD_a16", "XTHL"} -> Halves("HL")
    [] i.op = "XCHG" -> Halves("HL") \cup Halves("DE")
    [] i.op = "DAD_RR" -> {"H", "L", "F"}
    [] i.op \in {"STC", "CMC", "INR_DCR_M"} -> {"F"}
    [] i.op \in {"DAA", "ANA_ORA_XRA_R", "ANA_ORA_XRA_M", "ANI_ORI_XRI_d8"} -> {"A", "F"}
    [] i.op \in {"ADD_ADC_SUB_SBB_CMP_R", "ADD_ADC_SUB_SBB_CMP_M",
                 "ADI_ACI_SUI_SBI_CPI_d8"} -> IF i.storeResult THEN {"A", "F"} ELSE {"F"}
    [] i.op \in {"SPHL", "PUSH_RR", "CALL_a16", "conditionalCall_a16", "RST_N",
                 "RET", "conditionalRet"} -> Halves("SP")
    [] OTHER -> {}

KeepsOthers(changed) == Keeps(registers_m, registers_m', changed \cup Scratch)

\* The registers that the three shapes of handlers leave.
LEMMA EffectFile ==
  /\ \A pc, file, c : Effect(pc, file, c) => registers_m' = file
  /\ \A length, file : Compute(length, file) => registers_m' = file
  /\ \A length, c : Store(length, c) => registers_m' = registers_m
BY Zenon DEF Effect, Compute, Store

\* A frame may be widened.
LEMMA KeepsMore ==
  ASSUME NEW r, NEW s, NEW few, NEW many, Keeps(r, s, few), few \subseteq many
  PROVE  Keeps(r, s, many)
BY DEF Keeps

\* The registers of each pair (Registers.hpp:57-64).
LEMMA PairHalves ==
  /\ Halves("WZ") = {"W", "Z"} /\ Halves("HL") = {"H", "L"} /\ Halves("DE") = {"D", "E"}
  /\ Halves("BC") = {"B", "C"} /\ Halves("PSW") = {"A", "F"}
  /\ Halves("SP") = {"SP_high", "SP_low"}
BY DEF Halves, RegisterPairs

\* What one or two changes of the registers leave alone.
LEMMA FileChanges ==
  ASSUME NEW r, DOMAIN r = Register
  PROVE  /\ \A reg, value : Keeps(r, setRegister(r, reg, value), {reg} \cup Scratch)
         /\ \A flag, value : Keeps(r, setFlag(r, flag, value), {"F"} \cup Scratch)
         /\ \A rr \in CombinedRegister : \A value :
              Keeps(r, setCombinedRegister(r, rr, value), Halves(rr) \cup Scratch)
         /\ Keeps(r, r, Scratch)
<1>1. ASSUME NEW s, NEW few, Keeps(r, s, few) PROVE Keeps(r, s, few \cup Scratch)
  BY <1>1, KeepsMore
<1>2. ASSUME NEW value
      PROVE  /\ \A reg : Keeps(r, setRegister(r, reg, value), {reg} \cup Scratch)
             /\ \A flag : Keeps(r, setFlag(r, flag, value), {"F"} \cup Scratch)
  BY <1>1, SetKeeps, Zenon
<1>3. ASSUME NEW rr \in CombinedRegister, NEW value
      PROVE  Keeps(r, setCombinedRegister(r, rr, value), Halves(rr) \cup Scratch)
  BY <1>1, SetKeeps, Zenon DEF Halves
<1>4. Keeps(r, r, Scratch)
  BY DEF Keeps
<1>5. QED
  BY <1>2, <1>3, <1>4, Zenon

\* A change after the operand was loaded into WZ.
LEMMA ThenScratch ==
  ASSUME NEW r, NEW s, NEW t, NEW few, Keeps(r, s, Scratch), Keeps(s, t, few)
  PROVE  Keeps(r, t, few \cup Scratch)
BY DEF Keeps

\* Loading an operand into W or WZ changes the scratch pair alone.
LEMMA OperandLoaded ==
  ASSUME DOMAIN registers_m = Register
  PROVE  /\ Keeps(registers_m, loadMtoW, Scratch)
         /\ \A value : Keeps(registers_m, setRegister(registers_m, "W", value), Scratch)
         /\ \A value :
              Keeps(registers_m, setCombinedRegister(registers_m, "WZ", value), Scratch)
<1>1. {"W"} \cup Scratch = Scratch /\ Halves("WZ") \cup Scratch = Scratch
  BY PairHalves DEF Scratch
<1>2. ASSUME NEW value
      PROVE  Keeps(registers_m, setRegister(registers_m, "W", value), Scratch)
  <2>1. Keeps(registers_m, setRegister(registers_m, "W", value), {"W"} \cup Scratch)
    BY FileChanges, Zenon
  <2>2. QED
    BY <1>1, <2>1
<1>3. ASSUME NEW value
      PROVE  Keeps(registers_m, setCombinedRegister(registers_m, "WZ", value), Scratch)
  <2>1. "WZ" \in CombinedRegister
    BY DEF CombinedRegister
  <2>2. Keeps(registers_m, setCombinedRegister(registers_m, "WZ", value),
              Halves("WZ") \cup Scratch)
    BY <2>1, FileChanges, Zenon
  <2>3. QED
    BY <1>1, <2>2
<1>4. QED
  BY <1>2, <1>3, Zenon DEF loadMtoW

\* Handlers that set one register, or one flag, or one pair.
LEMMA SetHandlersKeep ==
  ASSUME DOMAIN registers_m = Register, NEW i \in Instruction, DataHandler(i)
  PROVE  /\ i.op \in {"MOV_R_R", "MOV_R_M", "MVI_R_d8", "LDAX_RR", "CMA", "IN_d8",
                      "STC", "CMC"} => KeepsOthers(Written(i))
         /\ i.op \in {"LXI_RR_d16", "INX_DCX_RR", "LHLD_a16", "XTHL", "SPHL", "PUSH_RR"} =>
              KeepsOthers(Written(i))
<1>1. ASSUME NEW reg, NEW value, registers_m' = setRegister(registers_m, reg, value)
      PROVE  KeepsOthers({reg})
  BY <1>1, FileChanges, Zenon DEF KeepsOthers
<1>2. ASSUME NEW flag, NEW value, registers_m' = setFlag(registers_m, flag, value)
      PROVE  KeepsOthers({"F"})
  BY <1>2, FileChanges, Zenon DEF KeepsOthers
<1>3. ASSUME NEW rr \in CombinedRegister, NEW value,
             registers_m' = setCombinedRegister(registers_m, rr, value)
      PROVE  KeepsOthers(Halves(rr))
  BY <1>3, FileChanges, Zenon DEF KeepsOthers
<1>4. CASE i.op \in {"MOV_R_R", "MOV_R_M", "MVI_R_d8"}
  <2>1. MOV_R_R(i.source, i.destination) \/ MOV_R_M(i.reg) \/ MVI_R_d8(i.reg)
    BY <1>4 DEF DataHandler
  <2>2. /\ i.op = "MOV_R_R" => MOV_R_R(i.source, i.destination)
        /\ i.op = "MOV_R_M" => MOV_R_M(i.reg)
        /\ i.op = "MVI_R_d8" => MVI_R_d8(i.reg)
    BY DEF DataHandler
  <2>3. CASE i.op = "MOV_R_R"
    <3>1. registers_m' = setRegister(registers_m, i.destination,
                                     getRegister(registers_m, i.source))
      BY <2>2, <2>3, EffectFile, Zenon DEF MOV_R_R
    <3>2. Written(i) = {i.destination}
      BY <2>3 DEF Written
    <3>3. QED
      BY <1>1, <2>3, <3>1, <3>2
  <2>4. CASE i.op \in {"MOV_R_M", "MVI_R_d8"}
    <3>1. MOV_R_M(i.reg) \/ MVI_R_d8(i.reg)
      BY <2>2, <2>4
    <3>2. \/ registers_m' = setRegister(registers_m, i.reg, getM)
          \/ registers_m' = setRegister(registers_m, i.reg, readNextByte)
      BY <3>1, EffectFile, Zenon DEF MOV_R_M, MVI_R_d8
    <3>3. Written(i) = {i.reg}
      BY <2>4 DEF Written
    <3>4. QED
      BY <1>1, <2>4, <3>2, <3>3
  <2>5. QED
    BY <1>4, <2>3, <2>4
<1>5. CASE i.op \in {"LDAX_RR", "CMA", "IN_d8"}
  <2>1. LDAX_RR(i.rr) \/ CMA \/ IN_d8
    BY <1>5 DEF DataHandler
  <2>2. \E value : registers_m' = setRegister(registers_m, "A", value)
    BY <2>1, EffectFile, Zenon DEF LDAX_RR, CMA, IN_d8
  <2>3. Written(i) = {"A"}
    BY <1>5 DEF Written
  <2>4. QED
    BY <1>1, <1>5, <2>2, <2>3
<1>6. CASE i.op \in {"STC", "CMC"}
  <2>1. STC \/ CMC
    BY <1>6 DEF DataHandler
  <2>2. KeepsOthers({"F"})
    <3>1. CASE STC
      BY <1>2, <3>1, EffectFile, Zenon DEF STC
    <3>2. CASE CMC
      BY <1>2, <3>2, EffectFile, Zenon DEF CMC
    <3>3. QED
      BY <2>1, <3>1, <3>2
  <2>3. Written(i) = {"F"}
    BY <1>6 DEF Written
  <2>4. QED
    BY <1>6, <2>2, <2>3
<1>7. CASE i.op \in {"LXI_RR_d16", "INX_DCX_RR"}
  <2>1. i.rr \in CombinedRegister
    BY <1>7, OperandTypes, OperandsNamed DEF PairOp
  <2>2. LXI_RR_d16(i.rr) \/ INX_DCX_RR(i.rr, i.kind)
    BY <1>7 DEF DataHandler
  <2>3. \E value : registers_m' = setCombinedRegister(registers_m, i.rr, value)
    BY <2>2, EffectFile, Zenon DEF LXI_RR_d16, INX_DCX_RR
  <2>4. Written(i) = Halves(i.rr)
    BY <1>7 DEF Written
  <2>5. QED
    BY <1>3, <1>7, <2>1, <2>3, <2>4
<1>8. CASE i.op \in {"LHLD_a16", "XTHL"}
  <2>1. LHLD_a16 \/ XTHL
    BY <1>8 DEF DataHandler
  <2>2. \E value : registers_m' = setCombinedRegister(registers_m, "HL", value)
    BY <2>1, EffectFile, Zenon DEF LHLD_a16, XTHL
  <2>3. Written(i) = Halves("HL") /\ "HL" \in CombinedRegister
    BY <1>8 DEF Written, CombinedRegister
  <2>4. QED
    BY <1>3, <1>8, <2>2, <2>3
<1>9. CASE i.op \in {"SPHL", "PUSH_RR"}
  <2>1. SPHL \/ PUSH_RR(i.rr)
    BY <1>9 DEF DataHandler
  <2>2. \E value : registers_m' = setCombinedRegister(registers_m, "SP", value)
    BY <2>1, EffectFile, Zenon DEF SPHL, PUSH_RR
  <2>3. Written(i) = Halves("SP") /\ "SP" \in CombinedRegister
    BY <1>9 DEF Written, CombinedRegister
  <2>4. QED
    BY <1>3, <1>9, <2>2, <2>3
<1>10. QED
  BY <1>4, <1>5, <1>6, <1>7, <1>8, <1>9

\* Handlers that compute in the arithmetic and logic unit.
LEMMA ComputeHandlersKeep ==
  ASSUME DOMAIN registers_m = Register, NEW i \in Instruction, DataHandler(i)
  PROVE  /\ i.op \in {"INR_DCR_R", "INR_DCR_M", "DAD_RR", "RLC_RRC_RAL_RAR_R", "DAA"} =>
              KeepsOthers(Written(i))
         /\ i.op \in {"ADD_ADC_SUB_SBB_CMP_R", "ADD_ADC_SUB_SBB_CMP_M",
                      "ADI_ACI_SUI_SBI_CPI_d8"} => KeepsOthers(Written(i))
         /\ i.op \in {"ANA_ORA_XRA_R", "ANA_ORA_XRA_M", "ANI_ORI_XRI_d8"} =>
              KeepsOthers(Written(i))
<1> DEFINE immediate == setRegister(registers_m, "W", readNextByte)
<1>0. Keeps(registers_m, registers_m, Scratch)
  BY FileChanges
<1>1. /\ Keeps(registers_m, loadMtoW, Scratch)
      /\ Keeps(registers_m, immediate, Scratch)
  BY OperandLoaded
<1>2. DOMAIN loadMtoW = Register /\ DOMAIN immediate = Register
  BY <1>1 DEF Keeps
<1>3. ASSUME NEW s, NEW few, Keeps(registers_m, s, Scratch), Keeps(s, registers_m', few)
      PROVE  KeepsOthers(few)
  BY <1>3, ThenScratch, Zenon DEF KeepsOthers
<1> HIDE DEF immediate
<1>4. CASE i.op \in {"INR_DCR_R", "RLC_RRC_RAL_RAR_R"}
  <2>1. \/ INR_DCR_R(i.reg, i.kind)
        \/ RLC_RRC_RAL_RAR_R(i.reg, i.direction, i.rotateThrough)
    BY <1>4 DEF DataHandler
  <2>2. Keeps(registers_m, registers_m', {i.reg, "F"})
    <3>1. CASE INR_DCR_R(i.reg, i.kind)
      BY <3>1, EffectFile, OperationsKeep, ZenonT(40) DEF INR_DCR_R
    <3>2. CASE RLC_RRC_RAL_RAR_R(i.reg, i.direction, i.rotateThrough)
      BY <3>2, EffectFile, OperationsKeep, ZenonT(40) DEF RLC_RRC_RAL_RAR_R
    <3>3. QED
      BY <2>1, <3>1, <3>2
  <2>3. Written(i) = {i.reg, "F"}
    BY <1>4 DEF Written
  <2>4. QED
    BY <1>0, <1>3, <1>4, <2>2, <2>3
<1>5. CASE i.op = "INR_DCR_M"
  <2>1. INR_DCR_M(i.kind)
    BY <1>5 DEF DataHandler
  <2>2. Keeps(loadMtoW, registers_m', {"W", "F"})
    BY <1>2, <2>1, EffectFile, OperationsKeep, ZenonT(40) DEF INR_DCR_M
  <2>3. Written(i) = {"F"} /\ "W" \in Scratch
    BY <1>5, PairHalves DEF Written, Scratch
  <2>4. Keeps(registers_m, registers_m', {"F"} \cup Scratch)
    BY <1>1, <2>2, <2>3 DEF Keeps
  <2>5. QED
    BY <1>5, <2>3, <2>4 DEF KeepsOthers
<1>6. CASE i.op \in {"DAD_RR", "DAA"}
  <2>1. CASE i.op = "DAD_RR"
    <3>1. DAD_RR(i.rr)
      BY <2>1 DEF DataHandler
    <3>2. Keeps(registers_m, registers_m', {"H", "L", "F"})
      BY <3>1, EffectFile, DoubleAddKeeps, Zenon DEF DAD_RR
    <3>3. Written(i) = {"H", "L", "F"}
      BY <2>1 DEF Written
    <3>4. QED
      BY <1>0, <1>3, <2>1, <3>2, <3>3
  <2>2. CASE i.op = "DAA"
    <3>1. DAA
      BY <2>2 DEF DataHandler
    <3>2. Keeps(registers_m, registers_m', {"A", "F"})
      BY <3>1, EffectFile, AdjustKeeps, Zenon DEF DAA
    <3>3. Written(i) = {"A", "F"}
      BY <2>2 DEF Written
    <3>4. QED
      BY <1>0, <1>3, <2>2, <3>2, <3>3
  <2>3. QED
    BY <1>6, <2>1, <2>2
<1>7. CASE i.op \in {"ADD_ADC_SUB_SBB_CMP_R", "ADD_ADC_SUB_SBB_CMP_M",
                     "ADI_ACI_SUI_SBI_CPI_d8"}
  <2> DEFINE changed == IF i.storeResult THEN {"A", "F"} ELSE {"F"}
  <2>1. \/ ADD_ADC_SUB_SBB_CMP_R(i.reg, i.kind, i.useCarry, i.storeResult)
        \/ ADD_ADC_SUB_SBB_CMP_M(i.kind, i.useCarry, i.storeResult)
        \/ ADI_ACI_SUI_SBI_CPI_d8(i.kind, i.useCarry, i.storeResult)
    BY <1>7 DEF DataHandler
  <2>2. Written(i) = changed
    BY <1>7 DEF Written
  <2>3. CASE ADD_ADC_SUB_SBB_CMP_R(i.reg, i.kind, i.useCarry, i.storeResult)
    <3>1. Keeps(registers_m, registers_m', changed)
      BY <2>3, EffectFile, OperationsKeep, ZenonT(40) DEF ADD_ADC_SUB_SBB_CMP_R
    <3> HIDE DEF changed
    <3>2. QED
      BY <1>0, <1>3, <1>7, <2>2, <3>1
  <2>4. CASE ADD_ADC_SUB_SBB_CMP_M(i.kind, i.useCarry, i.storeResult)
    <3>1. registers_m' = AccumulatorArithmetic(loadMtoW, "W", i.kind, i.useCarry,
                                               i.storeResult)
      BY <2>4, EffectFile, Zenon DEF ADD_ADC_SUB_SBB_CMP_M
    <3>2. Keeps(loadMtoW, registers_m', changed)
      BY <1>2, <3>1, OperationsKeep, Zenon
    <3> HIDE DEF changed
    <3>3. QED
      BY <1>1, <1>3, <1>7, <2>2, <3>2
  <2>5. CASE ADI_ACI_SUI_SBI_CPI_d8(i.kind, i.useCarry, i.storeResult)
    <3>1. registers_m' = AccumulatorArithmetic(immediate, "W", i.kind, i.useCarry,
                                               i.storeResult)
      BY <2>5, EffectFile, Zenon DEF ADI_ACI_SUI_SBI_CPI_d8, immediate
    <3>2. Keeps(immediate, registers_m', changed)
      BY <1>2, <3>1, OperationsKeep, Zenon
    <3> HIDE DEF changed
    <3>3. QED
      BY <1>1, <1>3, <1>7, <2>2, <3>2
  <2>6. QED
    BY <2>1, <2>3, <2>4, <2>5
<1>8. CASE i.op \in {"ANA_ORA_XRA_R", "ANA_ORA_XRA_M", "ANI_ORI_XRI_d8"}
  <2>1. ANA_ORA_XRA_R(i.reg, i.logic) \/ ANA_ORA_XRA_M(i.logic) \/ ANI_ORI_XRI_d8(i.logic)
    BY <1>8 DEF DataHandler
  <2>2. Written(i) = {"A", "F"}
    BY <1>8 DEF Written
  <2>3. CASE ANA_ORA_XRA_R(i.reg, i.logic)
    <3>1. Keeps(registers_m, registers_m', {"A", "F"})
      BY <2>3, EffectFile, OperationsKeep, ZenonT(40) DEF ANA_ORA_XRA_R
    <3>2. QED
      BY <1>0, <1>3, <1>8, <2>2, <3>1
  <2>4. CASE ANA_ORA_XRA_M(i.logic)
    <3>1. Keeps(loadMtoW, registers_m', {"A", "F"})
      BY <1>2, <2>4, EffectFile, OperationsKeep, ZenonT(40) DEF ANA_ORA_XRA_M
    <3>2. QED
      BY <1>1, <1>3, <1>8, <2>2, <3>1
  <2>5. CASE ANI_ORI_XRI_d8(i.logic)
    <3>1. registers_m' = AccumulatorLogic(immediate, "W", i.logic)
      BY <2>5, EffectFile, Zenon DEF ANI_ORI_XRI_d8, immediate
    <3>2. Keeps(immediate, registers_m', {"A", "F"})
      BY <1>2, <3>1, OperationsKeep, Zenon
    <3>3. QED
      BY <1>1, <1>3, <1>8, <2>2, <3>2
  <2>6. QED
    BY <2>1, <2>3, <2>4, <2>5
<1>9. QED
  BY <1>4, <1>5, <1>6, <1>7, <1>8

\* Calls move SP and leave the return address in WZ.
LEMMA CallKeeps ==
  ASSUME DOMAIN registers_m = Register, NEW address, NEW returnAddress,
         callAddress(address, returnAddress)
  PROVE  KeepsOthers(Halves("SP"))
<1> DEFINE saved == setCombinedRegister(registers_m, "WZ", returnAddress)
<1>1. registers_m' = setCombinedRegister(saved, "SP", ToWord(SP - 2))
  BY EffectFile, Zenon DEF callAddress
<1>2. Keeps(registers_m, saved, Scratch)
  BY OperandLoaded
<1> HIDE DEF saved
<1>3. Keeps(saved, registers_m', Halves("SP") \cup Scratch)
  <2>1. "SP" \in CombinedRegister /\ DOMAIN saved = Register
    BY <1>2 DEF CombinedRegister, Keeps
  <2>2. QED
    BY <1>1, <2>1, FileChanges, Zenon
<1>4. Keeps(registers_m, registers_m', (Halves("SP") \cup Scratch) \cup Scratch)
  BY <1>2, <1>3, ThenScratch, Zenon
<1>5. QED
  BY <1>4 DEF KeepsOthers, Keeps

\* Pops move SP and fill a pair.
LEMMA PopKeeps ==
  ASSUME DOMAIN registers_m = Register, NEW rr \in CombinedRegister
  PROVE  Keeps(registers_m, Popped(rr), Halves("SP") \cup Halves(rr) \cup Scratch)
<1> DEFINE moved == setCombinedRegister(registers_m, "SP", ToWord(SP + 2))
<1>1. Popped(rr) = setCombinedRegister(moved, rr, readTwoBytes(SP))
  BY Zenon DEF Popped
<1>2. Keeps(registers_m, moved, Halves("SP") \cup Scratch)
  <2>1. "SP" \in CombinedRegister
    BY DEF CombinedRegister
  <2>2. QED
    BY <2>1, FileChanges, Zenon
<1>3. DOMAIN moved = Register
  BY <1>2 DEF Keeps
<1> HIDE DEF moved
<1>4. Keeps(moved, Popped(rr), Halves(rr) \cup Scratch)
  BY <1>1, <1>3, FileChanges, Zenon
<1>5. QED
  BY <1>2, <1>4 DEF Keeps

\* Handlers of two pairs, of the stack and of WZ, and those that change no register.
LEMMA StackHandlersKeep ==
  ASSUME DOMAIN registers_m = Register, NEW i \in Instruction, DataHandler(i)
  PROVE  /\ i.op \in {"XCHG", "POP_RR", "LDA_a16", "STA_a16"} => KeepsOthers(Written(i))
         /\ i.op \in {"CALL_a16", "conditionalCall_a16", "RST_N", "RET", "conditionalRet"} =>
              KeepsOthers(Written(i))
         /\ i.op \in {"NOP", "MOV_M_R", "MVI_M_d8", "STAX_RR", "SHLD_a16", "PCHL",
                      "JMP_a16", "conditionalJMP_a16"} => KeepsOthers(Written(i))
<1>1. ASSUME registers_m' = registers_m, NEW changed PROVE KeepsOthers(changed)
  BY <1>1 DEF KeepsOthers, Keeps
<1>2. CASE i.op = "XCHG"
  <2> DEFINE exchanged == setCombinedRegister(registers_m, "HL",
                                              getCombinedRegister(registers_m, "DE"))
  <2>1. registers_m' = setCombinedRegister(exchanged, "DE", HL)
    <3>1. XCHG
      BY <1>2 DEF DataHandler
    <3>2. QED
      BY <3>1, EffectFile, Zenon DEF XCHG
  <2>2. "HL" \in CombinedRegister /\ "DE" \in CombinedRegister
    BY DEF CombinedRegister
  <2>3. Keeps(registers_m, exchanged, Halves("HL") \cup Scratch)
    BY <2>2, FileChanges, Zenon
  <2>4. DOMAIN exchanged = Register
    BY <2>3 DEF Keeps
  <2> HIDE DEF exchanged
  <2>5. Keeps(exchanged, registers_m', Halves("DE") \cup Scratch)
    BY <2>1, <2>2, <2>4, FileChanges, Zenon
  <2>6. Written(i) = Halves("HL") \cup Halves("DE")
    BY <1>2 DEF Written
  <2>7. KeepsOthers(Halves("HL") \cup Halves("DE"))
    BY <2>3, <2>5 DEF Keeps, KeepsOthers
  <2>8. QED
    BY <1>2, <2>6, <2>7
<1>3. CASE i.op = "POP_RR"
  <2>1. POP_RR(i.rr)
    BY <1>3 DEF DataHandler
  <2>2. registers_m' = Popped(i.rr)
    BY <2>1, EffectFile, Zenon DEF POP_RR
  <2>3. i.rr \in CombinedRegister
    BY <1>3, OperandTypes, OperandsNamed DEF PairOp
  <2>4. Written(i) = Halves("SP") \cup Halves(i.rr)
    BY <1>3 DEF Written
  <2>5. QED
    BY <1>3, <2>2, <2>3, <2>4, PopKeeps DEF KeepsOthers
<1>4. CASE i.op \in {"LDA_a16", "STA_a16"}
  <2> DEFINE loaded == setCombinedRegister(registers_m, "WZ", readNextTwoBytes)
  <2>1. Keeps(registers_m, loaded, Scratch)
    BY OperandLoaded
  <2>2. DOMAIN loaded = Register
    BY <2>1 DEF Keeps
  <2>3. CASE i.op = "LDA_a16"
    <3>0. LDA_a16 /\ Written(i) = {"A"}
      BY <2>3 DEF DataHandler, Written
    <3>1. registers_m' = setRegister(loaded, "A", memoryRead(readNextTwoBytes))
      BY <3>0, EffectFile, Zenon DEF LDA_a16
    <3> HIDE DEF loaded
    <3>2. Keeps(loaded, registers_m', {"A"} \cup Scratch)
      BY <2>2, <3>1, FileChanges, Zenon
    <3>3. KeepsOthers({"A"})
      BY <2>1, <3>2 DEF Keeps, KeepsOthers
    <3>4. QED
      BY <2>3, <3>0, <3>3
  <2>4. CASE i.op = "STA_a16"
    <3>0. STA_a16 /\ Written(i) = {}
      BY <2>4 DEF DataHandler, Written
    <3>1. registers_m' = loaded
      BY <3>0, EffectFile, Zenon DEF STA_a16
    <3> HIDE DEF loaded
    <3>2. KeepsOthers({})
      BY <2>1, <3>1 DEF Keeps, KeepsOthers
    <3>3. QED
      BY <2>4, <3>0, <3>2
  <2>5. QED
    BY <1>4, <2>3, <2>4
<1>5. CASE i.op \in {"CALL_a16", "conditionalCall_a16", "RST_N"}
  <2>1. Written(i) = Halves("SP")
    BY <1>5 DEF Written
  <2>2. CALL_a16 \/ conditionalCall_a16(i.flag, i.negate) \/ RST_N(i.vector)
    BY <1>5 DEF DataHandler
  <2>3. \/ \E address, returnAddress : callAddress(address, returnAddress)
        \/ registers_m' = registers_m
    BY <2>2, EffectFile, Zenon DEF CALL_a16, conditionalCall_a16, RST_N
  <2>4. KeepsOthers(Halves("SP"))
    BY <1>1, <2>3, CallKeeps, Zenon
  <2>5. QED
    BY <1>5, <2>1, <2>4
<1>6. CASE i.op \in {"RET", "conditionalRet"}
  <2>1. Written(i) = Halves("SP")
    BY <1>6 DEF Written
  <2>2. RET \/ conditionalRet(i.flag, i.negate)
    BY <1>6 DEF DataHandler
  <2>3. registers_m' = Popped("WZ") \/ registers_m' = registers_m
    BY <2>2, EffectFile, Zenon DEF RET, conditionalRet
  <2>4. Keeps(registers_m, Popped("WZ"), Halves("SP") \cup Halves("WZ") \cup Scratch)
    BY PopKeeps DEF CombinedRegister
  <2>5. KeepsOthers(Halves("SP"))
    BY <1>1, <2>3, <2>4 DEF KeepsOthers, Keeps, Scratch
  <2>6. QED
    BY <1>6, <2>1, <2>5
<1>7. CASE i.op \in {"NOP", "MOV_M_R", "MVI_M_d8", "STAX_RR", "SHLD_a16", "PCHL",
                     "JMP_a16", "conditionalJMP_a16"}
  <2>1. \/ NOP \/ MOV_M_R(i.reg) \/ MVI_M_d8 \/ STAX_RR(i.rr) \/ SHLD_a16 \/ PCHL
        \/ JMP_a16 \/ conditionalJMP_a16(i.flag, i.negate)
    BY <1>7 DEF DataHandler
  <2>2. registers_m' = registers_m
    BY <2>1, EffectFile, Zenon
       DEF NOP, MOV_M_R, MVI_M_d8, STAX_RR, SHLD_a16, PCHL, JMP_a16, conditionalJMP_a16
  <2>3. QED
    BY <1>1, <1>7, <2>2
<1>8. QED
  BY <1>2, <1>3, <1>4, <1>5, <1>6, <1>7

\* No handler changes a register it does not write.
LEMMA DataHandlerKeeps ==
  ASSUME MachineOK, NEW i \in Instruction, DataHandler(i)
  PROVE  KeepsOthers(Written(i))
<1>1. DOMAIN registers_m = Register
  BY DEF MachineOK, File, RegisterFile
<1>2. CASE i.op \in {"MOV_R_R", "MOV_R_M", "MVI_R_d8", "LDAX_RR", "CMA", "IN_d8", "STC", "CMC",
                     "LXI_RR_d16", "INX_DCX_RR", "LHLD_a16", "XTHL", "SPHL", "PUSH_RR"}
  BY <1>1, <1>2, SetHandlersKeep
<1>3. CASE i.op \in {"INR_DCR_R", "INR_DCR_M", "DAD_RR", "RLC_RRC_RAL_RAR_R", "DAA",
                     "ADD_ADC_SUB_SBB_CMP_R", "ADD_ADC_SUB_SBB_CMP_M",
                     "ADI_ACI_SUI_SBI_CPI_d8", "ANA_ORA_XRA_R", "ANA_ORA_XRA_M",
                     "ANI_ORI_XRI_d8"}
  BY <1>1, <1>3, ComputeHandlersKeep
<1>4. CASE i.op \in {"XCHG", "POP_RR", "LDA_a16", "STA_a16", "CALL_a16", "conditionalCall_a16",
                     "RST_N", "RET", "conditionalRet", "NOP", "MOV_M_R", "MVI_M_d8",
                     "STAX_RR", "SHLD_a16", "PCHL", "JMP_a16", "conditionalJMP_a16"}
  BY <1>1, <1>4, StackHandlersKeep
<1>5. QED
  BY <1>2, <1>3, <1>4 DEF DataHandler

\* What Written says of the entries, by the way they are written.
LEMMA PlainWritten ==
  /\ \A op \in {"NOP", "MVI_M_d8", "SHLD_a16", "STA_a16", "PCHL", "JMP_a16", "EI", "DI",
                "OUT_d8", "HLT"} : Written(Plain(op)) = {}
  /\ \A op \in {"LDA_a16", "CMA", "IN_d8"} : Written(Plain(op)) = {"A"}
  /\ \A op \in {"STC", "CMC"} : Written(Plain(op)) = {"F"}
  /\ \A op \in {"LHLD_a16", "XTHL"} : Written(Plain(op)) = Halves("HL")
  /\ \A op \in {"SPHL", "CALL_a16", "RET"} : Written(Plain(op)) = Halves("SP")
  /\ Written(Plain("XCHG")) = Halves("HL") \cup Halves("DE")
  /\ Written(Plain("DAA")) = {"A", "F"}
BY DEF Plain, Written

LEMMA PairWritten ==
  ASSUME NEW rr
  PROVE  /\ Written(OnPair("LXI_RR_d16", rr)) = Halves(rr)
         /\ Written(OnPair("DAD_RR", rr)) = {"H", "L", "F"}
         /\ Written(OnPair("STAX_RR", rr)) = {}
         /\ Written(OnPair("LDAX_RR", rr)) = {"A"}
         /\ Written(OnPair("PUSH_RR", rr)) = Halves("SP")
         /\ Written(OnPair("POP_RR", rr)) = Halves("SP") \cup Halves(rr)
         /\ \A kind : Written(StepPair(rr, kind)) = Halves(rr)
BY DEF OnPair, StepPair, Written

LEMMA LogicWritten ==
  ASSUME NEW logic
  PROVE  Written(LogicM(logic)) = {"A", "F"} /\ \A reg : Written(LogicR(reg, logic)) = {"A", "F"}
BY DEF LogicR, LogicM, Written

LEMMA RegisterWritten ==
  ASSUME NEW reg
  PROVE  /\ Written(OnRegister("MVI_R_d8", reg)) = {reg}
         /\ Written(OnRegister("MOV_R_M", reg)) = {reg}
         /\ Written(OnRegister("MOV_M_R", reg)) = {}
         /\ \A kind : Written(StepRegister(reg, kind)) = {reg, "F"}
         /\ \A kind : Written(StepM(kind)) = {"F"}
         /\ \A from : Written(Move(reg, from)) = {reg}
         /\ \A logic : Written(LogicR(reg, logic)) = {"A", "F"}
         /\ \A logic : Written(LogicM(logic)) = {"A", "F"}
         /\ \A logic : Written(LogicImmediate(logic)) = {"A", "F"}
         /\ \A vector : Written(Restart(vector)) = Halves("SP")
BY DEF OnRegister, StepRegister, StepM, Move, LogicR, LogicM, LogicImmediate, Restart, Written

LEMMA RotationWritten ==
  ASSUME NEW direction, NEW rotateThrough
  PROVE  Written(RotateA(direction, rotateThrough)) = {"A", "F"}
<1>1. ASSUME NEW i, i.op = "RLC_RRC_RAL_RAR_R", i.reg = "A"
      PROVE  Written(i) = {"A", "F"}
  BY <1>1 DEF Written
<1>2. RotateA(direction, rotateThrough).reg = "A"
  BY DEF RotateA
<1>3. QED
  BY <1>1, <1>2, RotationNames, Zenon

LEMMA ConditionalWritten ==
  ASSUME NEW flag, NEW negate
  PROVE  /\ Written(ConditionalJump(flag, negate)) = {}
         /\ Written(ConditionalCall(flag, negate)) = Halves("SP")
         /\ Written(ConditionalRet(flag, negate)) = Halves("SP")
<1>1. ASSUME NEW i
      PROVE  /\ i.op = "conditionalJMP_a16" => Written(i) = {}
             /\ i.op = "conditionalCall_a16" => Written(i) = Halves("SP")
             /\ i.op = "conditionalRet" => Written(i) = Halves("SP")
  BY DEF Written
<1>2. QED
  BY <1>1, ConditionalNames, Zenon

\* With a Boolean argument: whether the result is stored.
LEMMA ArithmeticWritten ==
  ASSUME NEW kind, NEW useCarry
  PROVE  /\ Written(Immediate(kind, useCarry, TRUE)) = {"A", "F"}
         /\ Written(Immediate(kind, useCarry, FALSE)) = {"F"}
         /\ Written(ArithmeticM(kind, useCarry, TRUE)) = {"A", "F"}
         /\ Written(ArithmeticM(kind, useCarry, FALSE)) = {"F"}
         /\ \A reg : /\ Written(ArithmeticR(reg, kind, useCarry, TRUE)) = {"A", "F"}
                     /\ Written(ArithmeticR(reg, kind, useCarry, FALSE)) = {"F"}
<1> DEFINE ops == {"ADD_ADC_SUB_SBB_CMP_R", "ADD_ADC_SUB_SBB_CMP_M", "ADI_ACI_SUI_SBI_CPI_d8"}
<1>1. ASSUME NEW i, i.op \in ops
      PROVE  /\ i.storeResult => Written(i) = {"A", "F"}
             /\ ~i.storeResult => Written(i) = {"F"}
  BY <1>1 DEF Written
<1>2. ASSUME NEW storeResult
      PROVE  /\ Immediate(kind, useCarry, storeResult).op \in ops
             /\ ArithmeticM(kind, useCarry, storeResult).op \in ops
             /\ \A reg : ArithmeticR(reg, kind, useCarry, storeResult).op \in ops
  BY ArithmeticNames, Zenon
<1>3. ASSUME NEW storeResult
      PROVE  /\ Immediate(kind, useCarry, storeResult).storeResult = storeResult
             /\ ArithmeticM(kind, useCarry, storeResult).storeResult = storeResult
             /\ \A reg :
                  ArithmeticR(reg, kind, useCarry, storeResult).storeResult = storeResult
  BY DEF Immediate, ArithmeticM, ArithmeticR
<1> HIDE DEF ops
<1>4. /\ Written(Immediate(kind, useCarry, TRUE)) = {"A", "F"}
      /\ Written(ArithmeticM(kind, useCarry, TRUE)) = {"A", "F"}
      /\ \A reg : Written(ArithmeticR(reg, kind, useCarry, TRUE)) = {"A", "F"}
  BY <1>1, <1>2, <1>3, Zenon
<1>5. /\ Written(Immediate(kind, useCarry, FALSE)) = {"F"}
      /\ Written(ArithmeticM(kind, useCarry, FALSE)) = {"F"}
      /\ \A reg : Written(ArithmeticR(reg, kind, useCarry, FALSE)) = {"F"}
  BY <1>1, <1>2, <1>3, Zenon
<1>6. QED
  BY <1>4, <1>5, Zenon

\* Group by group, the entries write no more than their opcodes name
\* (Fake8080.hpp:789-1077).
LEMMA Group0Written ==
  ASSUME NEW code \in Byte, Group(code) = 0
  PROVE  Written(Group0(code)) \subseteq Destinations(code)
<1> DEFINE y == Y(code)
           z == Z(code)
<1>1. y \in 0 .. 7 /\ z \in 0 .. 7 /\ (Selected(code) <=> y % 2 = 1)
  BY Fields DEF Selected
<1>2. (Destination(code) = "M" <=> y = 6) /\ (y = 7 => Destination(code) = "A")
  BY <1>1 DEF Destination, RegisterCode
<1>3. CASE z = 0
  BY <1>3, PlainWritten DEF Group0
<1>4. CASE z \in {1, 3}
  BY <1>4, PairWritten DEF Group0, Destinations
<1>5. CASE z = 2
  <2>1. CASE y < 4
    BY <1>1, <1>5, <2>1, PairWritten DEF Group0, Destinations
  <2>2. CASE y >= 4
    BY <1>1, <1>5, <2>2, PlainWritten, PairHalves DEF Group0, Destinations
  <2>3. QED
    BY <1>1, <2>1, <2>2
<1>6. CASE z \in {4, 5}
  <2> DEFINE kind == IF z = 4 THEN "ADD" ELSE "SUB"
  <2>1. Destinations(code) = ({Destination(code)} \ {"M"}) \cup {"F"}
    BY <1>6 DEF Destinations
  <2>2. Group0(code) = IF Destination(code) = "M" THEN StepM(kind)
                                                 ELSE StepRegister(Destination(code), kind)
    BY <1>6 DEF Group0
  <2> HIDE DEF kind
  <2>3. CASE Destination(code) = "M"
    <3>1. Written(Group0(code)) = {"F"}
      BY <2>2, <2>3, RegisterWritten, Zenon
    <3>2. QED
      BY <2>1, <3>1
  <2>4. CASE Destination(code) # "M"
    <3>1. Group0(code) = StepRegister(Destination(code), kind)
      BY <2>2, <2>4, Zenon
    <3>2. Written(StepRegister(Destination(code), kind)) = {Destination(code), "F"}
      BY RegisterWritten, Zenon
    <3>3. QED
      BY <2>1, <2>4, <3>1, <3>2
  <2>5. QED
    BY <2>3, <2>4
<1>7. CASE z = 6
  <2>1. Destinations(code) = {Destination(code)} \ {"M"}
    BY <1>7 DEF Destinations
  <2>2. CASE Destination(code) = "M"
    <3>1. Group0(code) = Plain("MVI_M_d8")
      BY <1>7, <2>2 DEF Group0
    <3>2. QED
      BY <3>1, PlainWritten
  <2>3. CASE Destination(code) # "M"
    <3>1. Group0(code) = OnRegister("MVI_R_d8", Destination(code))
      BY <1>7, <2>3 DEF Group0
    <3>2. QED
      BY <2>1, <2>3, <3>1, RegisterWritten
  <2>4. QED
    BY <2>2, <2>3
<1>8. CASE z = 7
  <2>1. CASE y < 4
    <3> DEFINE through == y >= 2
    <3>1. Group0(code) = RotateA(IF Selected(code) THEN "RIGHT" ELSE "LEFT", through)
      BY <1>1, <1>8, <2>1 DEF Group0
    <3> HIDE DEF through
    <3>2. Written(Group0(code)) = {"A", "F"}
      BY <3>1, RotationWritten, Zenon
    <3>3. Destinations(code) = {"A", "F"}
      BY <1>1, <1>8, <2>1 DEF Destinations
    <3>4. QED
      BY <3>2, <3>3
  <2>2. CASE y >= 4
    BY <1>1, <1>8, <2>2, PlainWritten DEF Group0, Destinations
  <2>3. QED
    BY <1>1, <2>1, <2>2
<1>9. QED
  BY <1>1, <1>3, <1>4, <1>5, <1>6, <1>7, <1>8

LEMMA Group1Written ==
  ASSUME NEW code \in Byte, Group(code) = 1
  PROVE  Written(Group1(code)) \subseteq Destinations(code)
<1> DEFINE from == Operand(code)
           to   == Destination(code)
<1>1. Destinations(code) = {to} \ {"M"}
  BY DEF Destinations
<1>2. CASE to = "M"
  <2>1. Group1(code) = Plain("HLT") \/ Group1(code) = OnRegister("MOV_M_R", from)
    BY <1>2 DEF Group1
  <2>2. Written(Group1(code)) = {}
    BY <2>1, PlainWritten, RegisterWritten
  <2>3. QED
    BY <2>2
<1>3. CASE to # "M"
  <2>1. Group1(code) = OnRegister("MOV_R_M", to) \/ Group1(code) = Move(to, from)
    BY <1>3 DEF Group1
  <2>2. Written(OnRegister("MOV_R_M", to)) = {to} /\ Written(Move(to, from)) = {to}
    BY RegisterWritten, Zenon
  <2> HIDE DEF from, to
  <2>3. QED
    BY <1>1, <1>3, <2>1, <2>2
<1>4. QED
  BY <1>2, <1>3

LEMMA Group2Written ==
  ASSUME NEW code \in Byte, Group(code) = 2
  PROVE  Written(Group2(code)) \subseteq Destinations(code)
<1> DEFINE from == Operand(code)
           Ar(kind, useCarry, storeResult) ==
             IF from = "M" THEN ArithmeticM(kind, useCarry, storeResult)
                           ELSE ArithmeticR(from, kind, useCarry, storeResult)
           Lo(logic) == IF from = "M" THEN LogicM(logic) ELSE LogicR(from, logic)
           add == Ar("ADD", FALSE, TRUE)
           adc == Ar("ADD", TRUE, TRUE)
           sub == Ar("SUB", FALSE, TRUE)
           sbb == Ar("SUB", TRUE, TRUE)
           cmp == Ar("SUB", FALSE, FALSE)
           op(logic) == Lo(logic)
<1>1. Y(code) \in 0 .. 7
  BY Fields
<1>2. ASSUME NEW kind, NEW useCarry
      PROVE  /\ Written(Ar(kind, useCarry, TRUE)) = {"A", "F"}
             /\ Written(Ar(kind, useCarry, FALSE)) = {"F"}
  <2>1. /\ Written(ArithmeticM(kind, useCarry, TRUE)) = {"A", "F"}
        /\ Written(ArithmeticR(from, kind, useCarry, TRUE)) = {"A", "F"}
    BY ArithmeticWritten, Zenon
  <2>2. /\ Written(ArithmeticM(kind, useCarry, FALSE)) = {"F"}
        /\ Written(ArithmeticR(from, kind, useCarry, FALSE)) = {"F"}
    BY ArithmeticWritten, Zenon
  <2>3. QED
    BY <2>1, <2>2, Zenon
<1>3. ASSUME NEW logic PROVE Written(op(logic)) = {"A", "F"}
  <2>1. Written(LogicM(logic)) = {"A", "F"} /\ Written(LogicR(from, logic)) = {"A", "F"}
    BY LogicWritten, Zenon
  <2>2. QED
    BY <2>1, Zenon
<1>4. /\ Written(add) = {"A", "F"} /\ Written(adc) = {"A", "F"} /\ Written(sub) = {"A", "F"}
      /\ Written(sbb) = {"A", "F"} /\ Written(cmp) = {"F"}
  BY <1>2, Zenon
<1>5. Group2(code) = CASE Y(code) = 0 -> add
                       [] Y(code) = 1 -> adc
                       [] Y(code) = 2 -> sub
                       [] Y(code) = 3 -> sbb
                       [] Y(code) = 4 -> op("AND")
                       [] Y(code) = 5 -> op("XOR")
                       [] Y(code) = 6 -> op("OR")
                       [] Y(code) = 7 -> cmp
  BY Zenon DEF Group2, ByOperation
<1> HIDE DEF add, adc, sub, sbb, cmp, op
<1>6. Written(Group2(code)) = IF Y(code) = 7 THEN {"F"} ELSE {"A", "F"}
  BY <1>1, <1>3, <1>4, <1>5
<1>7. Destinations(code) = IF Y(code) = 7 THEN {"F"} ELSE {"A", "F"}
  BY <1>1 DEF Destinations
<1>8. QED
  BY <1>6, <1>7

LEMMA Group3Written ==
  ASSUME NEW code \in Byte, Group(code) = 3
  PROVE  Written(Group3(code)) \subseteq Destinations(code)
<1> DEFINE y == Y(code)
           z == Z(code)
           flag == Condition(code)
           negate == ~Selected(code)
<1>1. /\ y \in 0 .. 7 /\ z \in 0 .. 7 /\ (Selected(code) <=> y % 2 = 1)
      /\ PairNumber(code) = y \div 2
      /\ code = 64 * Group(code) + 8 * Y(code) + Z(code)
  BY Fields DEF Selected, PairNumber
<1> HIDE DEF negate
<1>2. CASE z \in {0, 2, 4}
  <2>1. Group3(code) = CASE z = 0 -> ConditionalRet(flag, negate)
                         [] z = 2 -> ConditionalJump(flag, negate)
                         [] z = 4 -> ConditionalCall(flag, negate)
    BY <1>2 DEF Group3, negate
  <2>2. QED
    BY <1>2, <2>1, ConditionalWritten DEF Destinations
<1>3. CASE z = 1
  <2>1. CASE Selected(code)
    <3>1. Group3(code) = Plain(<<"RET", "RET", "PCHL", "SPHL">>[PairNumber(code) + 1])
      BY <1>3, <2>1 DEF Group3
    <3>2. IsPCHL(code) <=> PairNumber(code) = 2
      BY <1>1, <1>3, <2>1 DEF IsPCHL
    <3>3. Destinations(code) = IF PairNumber(code) = 2 THEN {} ELSE Halves("SP")
      BY <1>3, <2>1, <3>2 DEF Destinations
    <3>4. PairNumber(code) \in 0 .. 3
      BY <1>1
    <3>5. QED
      BY <3>1, <3>3, <3>4, PlainWritten
  <2>2. CASE ~Selected(code)
    <3>1. Group3(code) = OnPair("POP_RR", StackPair(code))
      BY <1>3, <2>2 DEF Group3
    <3>2. Destinations(code) = Halves("SP") \cup Halves(StackPair(code))
      BY <1>3, <2>2 DEF Destinations
    <3>3. QED
      BY <3>1, <3>2, PairWritten
  <2>3. QED
    BY <2>1, <2>2
<1>4. CASE z = 3
  <2>1. Group3(code) = Plain(<<"JMP_a16", "JMP_a16", "OUT_d8", "IN_d8",
                               "XTHL", "XCHG", "DI", "EI">>[y + 1])
    BY <1>4 DEF Group3
  <2>2. CASE y \in {3, 4, 5}
    BY <1>4, <2>1, <2>2, PlainWritten DEF Destinations
  <2>3. CASE y \in {0, 1, 2, 6, 7}
    <3>1. Written(Group3(code)) = {}
      BY <2>1, <2>3, PlainWritten
    <3>2. QED
      BY <3>1
  <2>4. QED
    BY <1>1, <2>2, <2>3
<1>5. CASE z = 5
  <2>1. CASE Selected(code)
    BY <1>5, <2>1, PlainWritten DEF Group3, Destinations
  <2>2. CASE ~Selected(code)
    BY <1>5, <2>2, PairWritten DEF Group3, Destinations
  <2>3. QED
    BY <2>1, <2>2
<1>6. CASE z = 6
  <2> DEFINE entry(n) == ByOperation(n, Immediate, LogicImmediate)
  <2>1. /\ Written(entry(0)) = {"A", "F"} /\ Written(entry(1)) = {"A", "F"}
        /\ Written(entry(2)) = {"A", "F"} /\ Written(entry(3)) = {"A", "F"}
        /\ Written(entry(7)) = {"F"}
    <3>1. ASSUME NEW kind, NEW useCarry
          PROVE  Written(Immediate(kind, useCarry, TRUE)) = {"A", "F"}
      BY ArithmeticWritten, Zenon
    <3>2. Written(Immediate("SUB", FALSE, FALSE)) = {"F"}
      BY ArithmeticWritten, Zenon
    <3>3. /\ Written(entry(0)) = {"A", "F"} /\ Written(entry(1)) = {"A", "F"}
          /\ Written(entry(2)) = {"A", "F"} /\ Written(entry(3)) = {"A", "F"}
      BY <3>1, OperationEntries, Zenon
    <3>4. Written(entry(7)) = {"F"}
      BY <3>2, OperationEntries, Zenon
    <3>5. QED
      BY <3>3, <3>4, Zenon
  <2>2. /\ Written(entry(4)) = {"A", "F"} /\ Written(entry(5)) = {"A", "F"}
        /\ Written(entry(6)) = {"A", "F"}
    <3>1. ASSUME NEW logic PROVE Written(LogicImmediate(logic)) = {"A", "F"}
      BY RegisterWritten, Zenon
    <3>2. QED
      BY <3>1, OperationEntries, Zenon
  <2>3. Group3(code) = entry(y)
    BY <1>6 DEF Group3
  <2> HIDE DEF entry
  <2>4. Destinations(code) = IF y = 7 THEN {"F"} ELSE {"A", "F"}
    BY <1>6 DEF Destinations
  <2>5. QED
    BY <1>1, <2>1, <2>2, <2>3, <2>4
<1>7. CASE z = 7
  <2>1. Group3(code) = Restart(y)
    BY <1>7 DEF Group3
  <2>2. Written(Group3(code)) = Halves("SP")
    BY <2>1, RegisterWritten, Zenon
  <2>3. QED
    BY <1>7, <2>2 DEF Destinations
<1>8. QED
  BY <1>1, <1>2, <1>3, <1>4, <1>5, <1>6, <1>7

\* The registers a handler may change are those its opcode's encoding names.
LEMMA WrittenFollows ==
  ASSUME NEW code \in Byte
  PROVE  Written(opcodes_m[code]) \subseteq Destinations(code)
<1>1. CASE Group(code) = 0
  BY <1>1, Group0Follows, Group0Written
<1>2. CASE Group(code) = 1
  BY <1>2, Group1Follows, Group1Written
<1>3. CASE Group(code) = 2
  BY <1>3, Group2Follows, Group2Written
<1>4. CASE Group(code) = 3
  BY <1>4, Group3Follows, Group3Written
<1>5. QED
  BY <1>1, <1>2, <1>3, <1>4, Fields

\* One instruction.
LEMMA StepKeeps ==
  ASSUME MachineOK, Execute,
         NEW reg \in Register \ (Destinations(Fetched) \cup Halves("WZ"))
  PROVE  registers_m'[reg] = registers_m[reg]
<1>1. Fetched \in Byte /\ instruction = opcodes_m[Fetched]
  BY OperandsRead DEF Fetched, MachineOK, instruction
<1>2. instruction \in Instruction
  BY <1>1, EveryOpcodeIsInstruction
<1>3. CASE DataHandler(instruction)
  <2>1. KeepsOthers(Written(instruction))
    BY <1>2, <1>3, DataHandlerKeeps
  <2>2. Written(instruction) \subseteq Destinations(Fetched)
    BY <1>1, WrittenFollows
  <2>3. QED
    BY <2>1, <2>2 DEF KeepsOthers, Keeps, Scratch
<1>4. CASE NOP
  BY <1>4, EffectFile DEF NOP
<1>5. CASE OUT_d8
  BY <1>5 DEF OUT_d8
<1>6. QED
  BY <1>3, <1>4, <1>5 DEF Execute, EI, DI, HLT

\* An instruction changes the registers its opcode's bit fields name, and the
\* scratch pair WZ: no handler of 256 spoils another register, and the table
\* gives no opcode the arguments of another (Fake8080.hpp:506-787, 789-1077).
THEOREM HandlersChangeOnlyDestinations == Spec => OnlyDestinationsChange
<1> DEFINE Kept ==
      Execute =>
        \A reg \in Register \ (Destinations(Fetched) \cup Halves("WZ")) :
          registers_m'[reg] = registers_m[reg]
<1>1. CpuInv /\ [Next]_vars => [Kept]_vars
  BY StepKeeps DEF CpuInv
<1> HIDE DEF Kept
<1>2. Spec => [][Kept]_vars
  BY <1>1, CpuInvariant, PTL DEF Spec
<1>3. QED
  BY <1>2, PTL DEF OnlyDestinationsChange, Kept

-----------------------------------------------------------------------------
\* The region and the offset that serve an address on this board.
RegionOf(address) == findRegion(Mapping, address).region
OffsetOf(address) == offsetOf(findRegion(Mapping, address), address)

\* A byte written to RAM is read back, and no other cell changes.
LEMMA WriteOneCell ==
  ASSUME NEW c, IsContents(c), NEW address \in Word, NEW value \in Byte
  PROVE  LET d == busWrite(Mapping, c, address, value)
         IN  /\ IsContents(d)
             /\ Kind[RegionOf(address)] = "ram" =>
                  d[RegionOf(address)][OffsetOf(address)] = value
             /\ \A region \in Region : \A offset \in Offset(region) :
                  d[region][offset] # c[region][offset] =>
                    region = RegionOf(address) /\ offset = OffsetOf(address)
             /\ Kind[RegionOf(address)] # "ram" => d = c
<1> DEFINE d == busWrite(Mapping, c, address, value)
           home == RegionOf(address)
           cell == OffsetOf(address)
<1>1. IsContents(d)
  BY WriteType, BoardAssumption
<1>2. d = IF Kind[home] = "ram" THEN [c EXCEPT ![home][cell] = value] ELSE c
  BY DEF busWrite, regionWrite, RegionOf, OffsetOf
<1>3. CASE Kind[home] = "ram"
  <2>1. home \in Region /\ cell \in Offset(home)
    BY <1>3, InSpan DEF RegionOf, OffsetOf
  <2> HIDE DEF home, cell, d
  <2>2. /\ DOMAIN c = Region
        /\ \A region \in Region : DOMAIN c[region] = Offset(region)
    BY DEF IsContents
  <2>3. d = [c EXCEPT ![home][cell] = value]
    BY <1>2, <1>3
  <2>4. d[home][cell] = value
    BY <2>1, <2>2, <2>3
  <2>5. \A region \in Region : \A offset \in Offset(region) :
          d[region][offset] # c[region][offset] => region = home /\ offset = cell
    BY <2>1, <2>2, <2>3
  <2>6. QED
    BY <1>1, <1>3, <2>4, <2>5 DEF home, cell, d
<1>4. CASE Kind[home] # "ram"
  <2> HIDE DEF d
  <2>1. d = c
    BY <1>2, <1>4
  <2>2. QED
    BY <1>1, <1>4, <2>1 DEF d
<1>5. QED
  BY <1>3, <1>4

\* The addresses that two words in different cells of RAM hold.
LEMMA RamHoldsTwo ==
  ASSUME MachineOK, NEW high \in Word, NEW low \in Word, StackCells(high, low),
         NEW first \in Byte, NEW second \in Byte
  PROVE  LET d == memoryWrite(memoryWrite(contents, high, first), low, second)
         IN  busRead(Mapping, d, high) = first /\ busRead(Mapping, d, low) = second
<1> DEFINE c == busWrite(Mapping, contents, high, first)
           d == busWrite(Mapping, c, low, second)
<1>1. regions_m = Mapping /\ IsContents(contents)
  BY DEF MachineOK
<1>2. /\ Kind[RegionOf(high)] = "ram" /\ Kind[RegionOf(low)] = "ram"
      /\ ~ (RegionOf(high) = RegionOf(low) /\ OffsetOf(high) = OffsetOf(low))
  BY <1>1, InSpan DEF StackCells, IsRam, WiredTo, RegionOf, OffsetOf
<1>3. RegionOf(high) \in Region /\ OffsetOf(high) \in Offset(RegionOf(high))
  BY <1>2, InSpan DEF RegionOf, OffsetOf
<1>4. IsContents(c) /\ c[RegionOf(high)][OffsetOf(high)] = first
  BY <1>1, <1>2, WriteOneCell
<1> HIDE DEF c
<1>5. /\ d[RegionOf(low)][OffsetOf(low)] = second
      /\ d[RegionOf(high)][OffsetOf(high)] = c[RegionOf(high)][OffsetOf(high)]
  BY <1>2, <1>3, <1>4, WriteOneCell
<1> HIDE DEF d
<1>6. busRead(Mapping, d, high) = first /\ busRead(Mapping, d, low) = second
  BY <1>2, <1>4, <1>5 DEF busRead, regionRead, RegionOf, OffsetOf
<1>7. QED
  BY <1>1, <1>6 DEF c, d, memoryWrite

\* Where a call leaves the stack, and what it leaves there.
LEMMA CallLeaves ==
  ASSUME MachineOK, regions_m' = regions_m, NEW address, NEW returnAddress \in Word,
         callAddress(address, returnAddress)
  PROVE  /\ SP' = ToWord(SP - 2)
         /\ StackCells(ToWord(SP - 1), ToWord(SP - 2)) => readTwoBytes(SP)' = returnAddress
<1> DEFINE saved == setCombinedRegister(registers_m, "WZ", returnAddress)
           high  == ToWord(SP - 1)
           low   == ToWord(SP - 2)
<1>1. /\ registers_m' = setCombinedRegister(saved, "SP", ToWord(SP - 2))
      /\ contents' = Pushed(contents, SP, returnAddress)
  BY Zenon DEF callAddress, Effect
<1>2. SP \in Word /\ high \in Word /\ low \in Word /\ ToWord(low + 1) = high
  <2>1. SP \in Word
    BY OperandsRead
  <2>2. QED
    BY <2>1, WordRange DEF ToWord
<1>3. saved \in File
  BY StackAndWords DEF CombinedRegister
<1>4. SP' = low
  <2>1. SP' = getCombinedRegister(registers_m', "SP")
    BY DEF SP
  <2> HIDE DEF saved
  <2>2. QED
    BY <1>1, <1>2, <1>3, <2>1, PairHoldsWord DEF CombinedRegister
<1>5. ASSUME StackCells(high, low)
      PROVE  readTwoBytes(SP)' = returnAddress
  <2>1. /\ getHighByte(returnAddress) \in Byte /\ getLowByte(returnAddress) \in Byte
    BY HalvesType
  <2>2. contents' = memoryWrite(memoryWrite(contents, high, getHighByte(returnAddress)),
                                low, getLowByte(returnAddress))
    BY <1>1 DEF Pushed
  <2>3. regions_m' = Mapping
    BY DEF MachineOK
  <2> HIDE DEF high, low
  <2>4. /\ busRead(Mapping, contents', high) = getHighByte(returnAddress)
        /\ busRead(Mapping, contents', low) = getLowByte(returnAddress)
    BY <1>2, <1>5, <2>1, <2>2, RamHoldsTwo
  <2>5. readTwoBytes(SP)' = Combine(busRead(regions_m', contents', ToWord(SP' + 1)),
                                    busRead(regions_m', contents', SP'))
    BY DEF readTwoBytes, memoryRead
  <2>6. readTwoBytes(SP)' = Combine(getHighByte(returnAddress), getLowByte(returnAddress))
    BY <1>2, <1>4, <2>3, <2>4, <2>5
  <2>7. QED
    BY <2>6, WordHalves
<1>6. QED
  BY <1>4, <1>5

\* A call instruction that is taken.
LEMMA CallTaken ==
  ASSUME MachineOK, Execute, IsCall(Fetched)
  PROVE  (\E address : callAddress(address, Sequel)) \/ registers_m' = registers_m
<1> DEFINE i == instruction
<1>1. Fetched \in Byte /\ i = opcodes_m[Fetched]
  BY OperandsRead DEF Fetched, MachineOK, instruction
<1>2. FlowFollows(Fetched)
  BY <1>1, InstructionFlow
<1>3. i.op \in {"CALL_a16", "conditionalCall_a16", "RST_N"}
  BY <1>1, <1>2 DEF FlowFollows
<1>4. DataHandler(i)
  BY <1>3 DEF Execute
<1>5. Sequel = After(Length(Fetched))
  BY Zenon DEF Sequel, After
<1>6. CASE i.op = "RST_N"
  <2>1. Sequel = After(1)
    BY <1>1, <1>2, <1>5, <1>6 DEF FlowFollows, Length, WordOp, ByteOp
  <2>2. RST_N(i.vector)
    BY <1>4, <1>6 DEF DataHandler
  <2>3. QED
    BY <2>1, <2>2, Zenon DEF RST_N
<1>7. CASE i.op \in {"CALL_a16", "conditionalCall_a16"}
  <2>1. Sequel = After(3)
    BY <1>1, <1>2, <1>5, <1>7 DEF FlowFollows, Length, WordOp
  <2>2. CALL_a16 \/ Compute(3, registers_m)
    BY <1>4, <1>7 DEF DataHandler, conditionalCall_a16
  <2>3. QED
    BY <2>1, <2>2, Zenon DEF CALL_a16, Compute, Effect
<1>8. QED
  BY <1>3, <1>6, <1>7

\* Every call, RST and interrupt leaves on the stack the address of the
\* instruction that would have come next, wherever the stack wraps, if its two
\* bytes are cells of RAM (Fake8080.cpp:15-21, 157-165, 382-386,
\* Fake8080.hpp:715-724, 737-764, 781-787).
THEOREM ReturnAddressesLeft == Spec => CallsLeaveReturnAddress
<1> DEFINE called == Execute /\ IsCall(Fetched) /\ SP' # SP
           next   == IF Accepts THEN pc_m ELSE Sequel
           Left   == AcceptInterrupt \/ called =>
                       /\ SP' = ToWord(SP - 2)
                       /\ StackCells(ToWord(SP - 1), ToWord(SP - 2)) =>
                            readTwoBytes(SP)' = next
<1>1. ASSUME CpuInv PROVE Left
  <2>1. MachineOK /\ pc_m \in Word
    BY <1>1 DEF CpuInv, MachineOK
  <2>2. Sequel \in Word
    <3>1. pc_m + Length(Fetched) \in Int
      BY <2>1, WordRange DEF Length
    <3>2. QED
      BY <3>1, Converted DEF Sequel
  <2>3. CASE AcceptInterrupt
    <3>1. /\ Accepts
          /\ callAddress(8 * interruptVectorRequested_m, pc_m)
          /\ regions_m' = regions_m
      BY <2>3 DEF AcceptInterrupt, Taken
    <3>2. QED
      BY <2>1, <3>1, CallLeaves
  <2>4. CASE called
    <3>1. ~Accepts /\ regions_m' = regions_m
      BY <2>4 DEF Execute
    <3>2. registers_m' # registers_m
      BY <2>4 DEF SP
    <3>3. \E address : callAddress(address, Sequel)
      BY <2>1, <2>4, <3>2, CallTaken
    <3>4. QED
      BY <2>1, <2>2, <3>1, <3>3, CallLeaves
  <2>5. QED
    BY <2>3, <2>4
<1> HIDE DEF Left
<1>2. CpuInv /\ [Next]_vars => [Left]_vars
  BY <1>1
<1>3. Spec => [][Left]_vars
  BY <1>2, CpuInvariant, PTL DEF Spec
<1>4. QED
  BY <1>3, PTL DEF CallsLeaveReturnAddress, Left

\* The memory d is c except in cells of RAM wired to the addresses.
Touches(c, d, addresses) ==
  /\ IsContents(c)
  /\ IsContents(d)
  /\ \A region \in Region : \A offset \in Offset(region) :
       d[region][offset] # c[region][offset] =>
         \E address \in addresses :
           /\ Kind[RegionOf(address)] = "ram"
           /\ region = RegionOf(address)
           /\ offset = OffsetOf(address)

\* What two writes one after the other touch.
LEMMA TouchesThrough ==
  ASSUME NEW c, NEW d, NEW e, NEW first, NEW second,
         Touches(c, d, first), Touches(d, e, second)
  PROVE  Touches(c, e, first \cup second)
<1> SUFFICES ASSUME NEW region \in Region, NEW offset \in Offset(region),
                    e[region][offset] # c[region][offset]
             PROVE  \E address \in first \cup second :
                      /\ Kind[RegionOf(address)] = "ram"
                      /\ region = RegionOf(address)
                      /\ offset = OffsetOf(address)
  BY DEF Touches
<1>1. e[region][offset] # d[region][offset] \/ d[region][offset] # c[region][offset]
  OBVIOUS
<1>2. QED
  BY <1>1 DEF Touches

\* Writing through the bus touches the addresses given.
LEMMA WritesTouch ==
  ASSUME MachineOK
  PROVE  /\ \A address \in Word, value \in Byte :
              Touches(contents, memoryWrite(contents, address, value), {address})
         /\ \A address, value \in Word :
              Touches(contents, writeTwoBytes(contents, address, value),
                      {address, ToWord(address + 1)})
         /\ \A value \in Word :
              Touches(contents, Pushed(contents, SP, value),
                      {ToWord(SP - 1), ToWord(SP - 2)})
<1>1. ASSUME NEW c, IsContents(c), NEW address \in Word, NEW value \in Byte
      PROVE  Touches(c, memoryWrite(c, address, value), {address})
  <2>1. memoryWrite(c, address, value) = busWrite(Mapping, c, address, value)
    BY DEF memoryWrite, MachineOK
  <2> DEFINE d == busWrite(Mapping, c, address, value)
  <2>2. /\ IsContents(d)
        /\ Kind[RegionOf(address)] # "ram" => d = c
        /\ \A region \in Region : \A offset \in Offset(region) :
             d[region][offset] # c[region][offset] =>
               region = RegionOf(address) /\ offset = OffsetOf(address)
    BY <1>1, WriteOneCell, Zenon
  <2> HIDE DEF d
  <2>3. Touches(c, d, {address})
    BY <1>1, <2>2 DEF Touches
  <2>4. QED
    BY <2>1, <2>3 DEF d
<1>2. ASSUME NEW first \in Word, NEW second \in Word, NEW one \in Byte, NEW two \in Byte
      PROVE  Touches(contents, memoryWrite(memoryWrite(contents, first, one), second, two),
                     {first, second})
  <2> DEFINE d == memoryWrite(contents, first, one)
             e == memoryWrite(d, second, two)
  <2>1. Touches(contents, d, {first})
    BY <1>1 DEF MachineOK
  <2>2. IsContents(d)
    BY <2>1 DEF Touches
  <2> HIDE DEF d
  <2>3. Touches(d, e, {second})
    BY <1>1, <2>2
  <2> HIDE DEF e
  <2>4. Touches(contents, e, {first} \cup {second})
    BY <2>1, <2>3, TouchesThrough
  <2>5. {first} \cup {second} = {first, second}
    OBVIOUS
  <2>6. QED
    BY <2>4, <2>5 DEF d, e
<1>3. ASSUME NEW address \in Word, NEW value \in Word
      PROVE  Touches(contents, writeTwoBytes(contents, address, value),
                     {address, ToWord(address + 1)})
  <2>1. ToWord(address + 1) \in Word
    BY Converted, WordRange
  <2>2. QED
    BY <1>2, <2>1, HalvesType DEF writeTwoBytes
<1>4. ASSUME NEW value \in Word
      PROVE  Touches(contents, Pushed(contents, SP, value), {ToWord(SP - 1), ToWord(SP - 2)})
  <2>1. ToWord(SP - 1) \in Word /\ ToWord(SP - 2) \in Word
    BY OperandsRead, Converted, WordRange
  <2>2. QED
    BY <1>2, <2>1, HalvesType DEF Pushed
<1>5. contents \in {contents} /\ IsContents(contents)
  BY DEF MachineOK
<1>6. QED
  BY <1>1, <1>3, <1>4, <1>5

\* The addresses a handler stores at.
Stores(i) ==
  CASE i.op \in {"MOV_M_R", "MVI_M_d8", "INR_DCR_M"} -> {HL}
    [] i.op = "STAX_RR" -> {getCombinedRegister(registers_m, i.rr)}
    [] i.op = "STA_a16" -> {readNextTwoBytes}
    [] i.op = "SHLD_a16" -> {readNextTwoBytes, ToWord(readNextTwoBytes + 1)}
    [] i.op = "XTHL" -> {SP, ToWord(SP + 1)}
    [] i.op \in {"PUSH_RR", "CALL_a16", "conditionalCall_a16", "RST_N"} ->
         {ToWord(SP - 1), ToWord(SP - 2)}
    [] OTHER -> {}

\* The memory that the three shapes of handlers leave.
LEMMA EffectMemory ==
  /\ \A pc, file, c : Effect(pc, file, c) => contents' = c
  /\ \A length, file : Compute(length, file) => contents' = contents
  /\ \A length, c : Store(length, c) => contents' = c
BY Zenon DEF Effect, Compute, Store

\* The handlers that store touch the addresses they name
\* (Fake8080.cpp:57-84, 258-333, Fake8080.hpp:520-525, 602-609, 737-764).
LEMMA StoringHandlersTouch ==
  ASSUME MachineOK, NEW i \in Instruction, DataHandler(i),
         i.op \in {"MOV_M_R", "MVI_M_d8", "INR_DCR_M", "STAX_RR", "STA_a16", "SHLD_a16",
                   "XTHL", "PUSH_RR", "CALL_a16", "conditionalCall_a16", "RST_N"}
  PROVE  Touches(contents, contents', Stores(i))
<1>0. Touches(contents, contents, {})
  BY DEF Touches, MachineOK
<1>1. CASE i.op \in {"MOV_M_R", "MVI_M_d8", "INR_DCR_M"}
  <2>1. MOV_M_R(i.reg) \/ MVI_M_d8 \/ INR_DCR_M(i.kind)
    BY <1>1 DEF DataHandler
  <2> DEFINE stepped == Increment(loadMtoW, "W", i.kind)
  <2>2. /\ i.op = "MOV_M_R" => getRegister(registers_m, i.reg) \in Byte
        /\ readNextByte \in Byte
        /\ getRegister(stepped, "W") \in Byte
    <3>1. stepped \in File /\ registers_m \in File
      BY OperandsRead, IncrementType DEF Register, MachineOK
    <3> HIDE DEF stepped
    <3>2. getRegister(stepped, "W") \in Byte
      BY <3>1, ReadersType DEF Register
    <3>3. i.op = "MOV_M_R" => i.reg \in Register
      BY OperandTypes, OperandsNamed
    <3>4. i.op = "MOV_M_R" => getRegister(registers_m, i.reg) \in Byte
      BY <3>1, <3>3, ReadersType
    <3>5. QED
      BY <3>2, <3>4, OperandsRead
  <2> HIDE DEF stepped
  <2>3. /\ i.op = "MOV_M_R" => MOV_M_R(i.reg)
        /\ i.op = "MVI_M_d8" => MVI_M_d8
        /\ i.op = "INR_DCR_M" => INR_DCR_M(i.kind)
    BY DEF DataHandler
  <2>4. \E value \in Byte : contents' = memoryWrite(contents, HL, value)
    <3>1. CASE i.op = "MOV_M_R"
      BY <2>2, <2>3, <3>1, EffectMemory, Zenon DEF MOV_M_R
    <3>2. CASE i.op = "MVI_M_d8"
      BY <2>2, <2>3, <3>2, EffectMemory, Zenon DEF MVI_M_d8
    <3>3. CASE i.op = "INR_DCR_M"
      BY <2>2, <2>3, <3>3, EffectMemory, Zenon DEF INR_DCR_M, stepped
    <3>4. QED
      BY <1>1, <3>1, <3>2, <3>3
  <2>5. Stores(i) = {HL} /\ HL \in Word
    BY <1>1, OperandsRead DEF Stores
  <2>6. QED
    BY <2>4, <2>5, WritesTouch
<1>2. CASE i.op = "STAX_RR"
  <2>1. STAX_RR(i.rr)
    BY <1>2 DEF DataHandler
  <2>2. contents' = memoryWrite(contents, getCombinedRegister(registers_m, i.rr), A)
    BY <2>1, EffectMemory, Zenon DEF STAX_RR
  <2>3. i.rr \in CombinedRegister
    BY <1>2, OperandTypes, OperandsNamed DEF PairOp
  <2>4. getCombinedRegister(registers_m, i.rr) \in Word /\ A \in Byte
    BY <2>3, ReadersType, OperandsRead DEF MachineOK
  <2>5. Stores(i) = {getCombinedRegister(registers_m, i.rr)}
    BY <1>2 DEF Stores
  <2>6. QED
    BY <2>2, <2>4, <2>5, WritesTouch
<1>3. CASE i.op = "STA_a16"
  <2>1. STA_a16 /\ Stores(i) = {readNextTwoBytes}
    BY <1>3 DEF DataHandler, Stores
  <2>2. contents' = memoryWrite(contents, readNextTwoBytes, A)
    BY <2>1, EffectMemory, Zenon DEF STA_a16
  <2>3. QED
    BY <2>1, <2>2, WritesTouch, OperandsRead
<1>4. CASE i.op = "SHLD_a16"
  <2>1. SHLD_a16 /\ Stores(i) = {readNextTwoBytes, ToWord(readNextTwoBytes + 1)}
    BY <1>4 DEF DataHandler, Stores
  <2>2. contents' = writeTwoBytes(contents, readNextTwoBytes, HL)
    BY <2>1, EffectMemory, Zenon DEF SHLD_a16
  <2>3. QED
    BY <2>1, <2>2, WritesTouch, OperandsRead
<1>5. CASE i.op = "XTHL"
  <2>1. XTHL /\ Stores(i) = {SP, ToWord(SP + 1)}
    BY <1>5 DEF DataHandler, Stores
  <2>2. contents' = writeTwoBytes(contents, SP, HL)
    BY <2>1, EffectMemory, Zenon DEF XTHL
  <2>3. QED
    BY <2>1, <2>2, WritesTouch, OperandsRead
<1>6. CASE i.op \in {"PUSH_RR", "CALL_a16", "conditionalCall_a16", "RST_N"}
  <2> DEFINE top == {ToWord(SP - 1), ToWord(SP - 2)}
  <2>1. Stores(i) = top
    BY <1>6 DEF Stores
  <2>2. /\ i.op = "PUSH_RR" => getCombinedRegister(registers_m, i.rr) \in Word
        /\ After(1) \in Word /\ After(3) \in Word
    <3>1. i.op = "PUSH_RR" => i.rr \in CombinedRegister
      BY OperandTypes, OperandsNamed DEF PairOp
    <3>2. QED
      BY <3>1, ReadersType, OperandsRead DEF MachineOK
  <2>3. /\ i.op = "PUSH_RR" => PUSH_RR(i.rr)
        /\ i.op # "PUSH_RR" =>
             CALL_a16 \/ conditionalCall_a16(i.flag, i.negate) \/ RST_N(i.vector)
    BY <1>6 DEF DataHandler
  <2>4. \/ \E value \in Word : contents' = Pushed(contents, SP, value)
        \/ contents' = contents
    <3>1. CASE i.op = "PUSH_RR"
      BY <2>2, <2>3, <3>1, EffectMemory, Zenon DEF PUSH_RR
    <3>2. CASE i.op # "PUSH_RR"
      BY <2>2, <2>3, <3>2, EffectMemory, Zenon
         DEF CALL_a16, conditionalCall_a16, RST_N, callAddress
    <3>3. QED
      BY <3>1, <3>2
  <2> HIDE DEF top
  <2>5. Touches(contents, contents, top)
    BY <1>0 DEF Touches
  <2>6. \A value \in Word : Touches(contents, Pushed(contents, SP, value), top)
    BY WritesTouch, Zenon DEF top
  <2>7. QED
    BY <2>1, <2>4, <2>5, <2>6
<1>7. QED
  BY <1>1, <1>2, <1>3, <1>4, <1>5, <1>6

\* The other handlers leave memory alone.
LEMMA OtherHandlersTouchNothing ==
  ASSUME MachineOK, NEW i \in Instruction, DataHandler(i),
         i.op \notin {"MOV_M_R", "MVI_M_d8", "INR_DCR_M", "STAX_RR", "STA_a16", "SHLD_a16",
                      "XTHL", "PUSH_RR", "CALL_a16", "conditionalCall_a16", "RST_N"}
  PROVE  contents' = contents
<1>1. CASE i.op \in {"NOP", "STC", "CMC", "CMA", "DAA", "MOV_R_R", "MOV_R_M", "MVI_R_d8",
                     "LXI_RR_d16", "LDAX_RR", "LDA_a16", "LHLD_a16", "XCHG", "SPHL"}
  <2>1. \/ NOP \/ STC \/ CMC \/ CMA \/ DAA \/ MOV_R_R(i.source, i.destination)
        \/ MOV_R_M(i.reg) \/ MVI_R_d8(i.reg) \/ LXI_RR_d16(i.rr) \/ LDAX_RR(i.rr)
        \/ LDA_a16 \/ LHLD_a16 \/ XCHG \/ SPHL
    BY <1>1 DEF DataHandler
  <2>2. QED
    BY <2>1, EffectMemory, Zenon
       DEF NOP, STC, CMC, CMA, DAA, MOV_R_R, MOV_R_M, MVI_R_d8, LXI_RR_d16, LDAX_RR, LDA_a16,
           LHLD_a16, XCHG, SPHL
<1>2. CASE i.op \in {"INX_DCX_RR", "INR_DCR_R", "DAD_RR", "RLC_RRC_RAL_RAR_R",
                     "ADD_ADC_SUB_SBB_CMP_R", "ADD_ADC_SUB_SBB_CMP_M",
                     "ADI_ACI_SUI_SBI_CPI_d8", "ANA_ORA_XRA_R", "ANA_ORA_XRA_M",
                     "ANI_ORI_XRI_d8"}
  <2>1. \/ INX_DCX_RR(i.rr, i.kind) \/ INR_DCR_R(i.reg, i.kind) \/ DAD_RR(i.rr)
        \/ RLC_RRC_RAL_RAR_R(i.reg, i.direction, i.rotateThrough)
        \/ ADD_ADC_SUB_SBB_CMP_R(i.reg, i.kind, i.useCarry, i.storeResult)
        \/ ADD_ADC_SUB_SBB_CMP_M(i.kind, i.useCarry, i.storeResult)
        \/ ADI_ACI_SUI_SBI_CPI_d8(i.kind, i.useCarry, i.storeResult)
        \/ ANA_ORA_XRA_R(i.reg, i.logic) \/ ANA_ORA_XRA_M(i.logic) \/ ANI_ORI_XRI_d8(i.logic)
    BY <1>2 DEF DataHandler
  <2>2. QED
    BY <2>1, EffectMemory, Zenon
       DEF INX_DCX_RR, INR_DCR_R, DAD_RR, RLC_RRC_RAL_RAR_R, ADD_ADC_SUB_SBB_CMP_R,
           ADD_ADC_SUB_SBB_CMP_M, ADI_ACI_SUI_SBI_CPI_d8, ANA_ORA_XRA_R, ANA_ORA_XRA_M,
           ANI_ORI_XRI_d8
<1>3. CASE i.op \in {"POP_RR", "JMP_a16", "conditionalJMP_a16", "PCHL", "RET",
                     "conditionalRet", "IN_d8"}
  <2>1. \/ POP_RR(i.rr) \/ JMP_a16 \/ conditionalJMP_a16(i.flag, i.negate) \/ PCHL
        \/ RET \/ conditionalRet(i.flag, i.negate) \/ IN_d8
    BY <1>3 DEF DataHandler
  <2>2. QED
    BY <2>1, EffectMemory, Zenon
       DEF POP_RR, JMP_a16, conditionalJMP_a16, PCHL, RET, conditionalRet, IN_d8
<1>4. QED
  BY <1>1, <1>2, <1>3 DEF DataHandler

\* Which opcodes' handlers store, and where the table sends STAX.
StoreFollows(code) ==
  LET i == opcodes_m[code]
      g == Group(code)
      y == Y(code)
      z == Z(code)
  IN  /\ i.op \in {"MVI_M_d8", "INR_DCR_M"} => g = 0 /\ z \in {4, 5, 6} /\ y = 6
      /\ i.op = "MOV_M_R" => g = 1 /\ y = 6
      /\ i.op = "STAX_RR" => g = 0 /\ z = 2 /\ y \in {0, 2} /\ i.rr = Pair(code)
      /\ i.op = "SHLD_a16" => g = 0 /\ z = 2 /\ y = 4
      /\ i.op = "STA_a16" => g = 0 /\ z = 2 /\ y = 6
      /\ i.op = "XTHL" => g = 3 /\ z = 3 /\ y = 4
      /\ i.op \in {"PUSH_RR", "CALL_a16", "conditionalCall_a16", "RST_N"} =>
           g = 3 /\ z \in {4, 5, 7}

\* The table sends to a storing handler the opcodes that store, and no other.
LEMMA InstructionStores ==
  ASSUME NEW code \in Byte
  PROVE  StoreFollows(code)
<1> DEFINE y == Y(code)
           z == Z(code)
<1>1. /\ Group(code) \in 0 .. 3 /\ y \in 0 .. 7 /\ z \in 0 .. 7
      /\ Selected(code) <=> y % 2 = 1
  BY Fields DEF Selected
<1>2. Destination(code) = "M" <=> y = 6
  BY <1>1 DEF Destination, RegisterCode
<1>3. CASE Group(code) = 0
  <2>1. opcodes_m[code] = Group0(code)
    BY <1>3, Group0Follows
  <2>2. CASE z \in {0, 1, 3}
    BY <1>3, <2>1, <2>2, Group0Ops DEF StoreFollows
  <2>3. CASE z = 2
    <3>1. CASE y < 4
      <4>1. Group0(code) = OnPair(IF Selected(code) THEN "LDAX_RR" ELSE "STAX_RR", Pair(code))
        BY <1>1, <2>3, <3>1 DEF Group0
      <4>2. Group0(code).rr = Pair(code)
        BY <4>1 DEF OnPair
      <4>3. QED
        BY <1>1, <1>3, <2>1, <2>3, <3>1, <4>2, Group0Ops DEF StoreFollows
    <3>2. CASE y >= 4
      BY <1>1, <1>3, <2>1, <2>3, <3>2, Group0Ops DEF StoreFollows
    <3>3. QED
      BY <1>1, <3>1, <3>2
  <2>4. CASE z \in {4, 5, 6}
    BY <1>1, <1>3, <2>1, <2>4, Group0Ops DEF StoreFollows
  <2>5. CASE z = 7
    BY <1>1, <1>3, <2>1, <2>5, Group0Ops DEF StoreFollows
  <2>6. QED
    BY <1>1, <2>2, <2>3, <2>4, <2>5
<1>4. CASE Group(code) = 1
  <2>1. opcodes_m[code] = Group1(code)
    BY <1>4, Group1Follows
  <2>2. Group1(code).op = "MOV_M_R" => y = 6
    BY <1>2, OpNames DEF Group1
  <2>3. QED
    BY <1>4, <2>1, <2>2, Group1Ops DEF StoreFollows
<1>5. CASE Group(code) = 2
  BY <1>5, Group2Follows, Group2Ops DEF StoreFollows
<1>6. CASE Group(code) = 3
  <2>1. opcodes_m[code] = Group3(code)
    BY <1>6, Group3Follows
  <2>2. CASE z \in {0, 2, 4, 6, 7}
    BY <1>6, <2>1, <2>2, Group3Ops DEF StoreFollows
  <2>3. CASE z = 5
    BY <1>1, <1>6, <2>1, <2>3, Group3Ops DEF StoreFollows
  <2>4. CASE z = 3
    BY <1>1, <1>6, <2>1, <2>4, Group3Ops DEF StoreFollows
  <2>5. CASE z = 1
    <3>1. PairNumber(code) \in 0 .. 3
      BY <1>1 DEF PairNumber
    <3>2. opcodes_m[code].op \in {"RET", "PCHL", "SPHL", "POP_RR"}
      BY <1>6, <2>1, <2>5, <3>1, Group3Ops
    <3>3. QED
      BY <3>2 DEF StoreFollows
  <2>6. QED
    BY <1>1, <2>2, <2>3, <2>4, <2>5
<1>7. QED
  BY <1>1, <1>3, <1>4, <1>5, <1>6

\* A handler stores where its opcode's encoding says.
LEMMA StoresAreNamed ==
  ASSUME NEW i, i = opcodes_m[Fetched], Fetched \in Byte
  PROVE  Stores(i) \subseteq StoredAt
<1>1. StoreFollows(Fetched)
  BY InstructionStores
<1>2. CASE i.op \in {"MVI_M_d8", "INR_DCR_M", "MOV_M_R"}
  BY <1>1, <1>2 DEF StoreFollows, Stores, StoredAt
<1>3. CASE i.op \in {"STAX_RR", "STA_a16", "SHLD_a16"}
  BY <1>1, <1>3 DEF StoreFollows, Stores, StoredAt
<1>4. CASE i.op = "XTHL"
  BY <1>1, <1>4 DEF StoreFollows, Stores, StoredAt
<1>5. CASE i.op \in {"PUSH_RR", "CALL_a16", "conditionalCall_a16", "RST_N"}
  BY <1>1, <1>5 DEF StoreFollows, Stores, StoredAt
<1>6. CASE i.op \notin {"MOV_M_R", "MVI_M_d8", "INR_DCR_M", "STAX_RR", "STA_a16", "SHLD_a16",
                        "XTHL", "PUSH_RR", "CALL_a16", "conditionalCall_a16", "RST_N"}
  BY <1>6 DEF Stores
<1>7. QED
  BY <1>2, <1>3, <1>4, <1>5, <1>6

\* What an instruction stores at are addresses.
LEMMA StoresAtWords ==
  ASSUME MachineOK
  PROVE  StoredAt \subseteq Word
<1>1. /\ HL \in Word /\ SP \in Word /\ readNextTwoBytes \in Word
      /\ ToWord(SP - 1) \in Word /\ ToWord(SP - 2) \in Word /\ ToWord(SP + 1) \in Word
      /\ ToWord(readNextTwoBytes + 1) \in Word
  BY OperandsRead, Converted, WordRange
<1>2. CASE Group(Fetched) = 0 /\ Z(Fetched) = 2 /\ Y(Fetched) \in {0, 2}
  <2>1. Pair(Fetched) \in CombinedRegister
    BY <1>2 DEF Pair, PairNumber, CombinedRegister
  <2>2. QED
    BY <1>2, <2>1, ReadersType DEF StoredAt, MachineOK
<1>3. CASE ~ (Group(Fetched) = 0 /\ Z(Fetched) = 2 /\ Y(Fetched) \in {0, 2})
  BY <1>1, <1>3 DEF StoredAt
<1>4. QED
  BY <1>2, <1>3

\* One instruction.
LEMMA StepTouches ==
  ASSUME MachineOK, Execute
  PROVE  Touches(contents, contents', StoredAt)
<1>1. Fetched \in Byte /\ instruction = opcodes_m[Fetched]
  BY OperandsRead DEF Fetched, MachineOK, instruction
<1>2. ASSUME contents' = contents PROVE Touches(contents, contents', StoredAt)
  BY <1>2 DEF Touches, MachineOK
<1>3. CASE DataHandler(instruction)
  <2>1. instruction \in Instruction
    BY <1>1, EveryOpcodeIsInstruction
  <2>2. \/ Touches(contents, contents', Stores(instruction))
        \/ contents' = contents
    BY <1>3, <2>1, StoringHandlersTouch, OtherHandlersTouchNothing
  <2>3. Stores(instruction) \subseteq StoredAt
    BY <1>1, StoresAreNamed
  <2>4. QED
    BY <1>2, <2>2, <2>3 DEF Touches
<1>4. CASE NOP \/ OUT_d8
  <2>1. contents' = contents
    BY <1>4, EffectMemory DEF NOP, OUT_d8
  <2>2. QED
    BY <1>2, <2>1
<1>5. QED
  BY <1>3, <1>4 DEF Execute, EI, DI, HLT

\* A cycle changes only cells that its instruction, or the interrupt it takes,
\* stores at: no pointer that wraps, no open bus and no region mapped under
\* another lets a byte reach a second cell (Fake8080.cpp:57-84, 157-165,
\* 258-333, MemoryBus.cpp:23-45).
THEOREM StepsChangeNamedCells == Spec => OnlyNamedCellsChange
<1> DEFINE addresses == IF Accepts THEN {ToWord(SP - 1), ToWord(SP - 2)} ELSE StoredAt
           Named == cycle =>
             \A region \in Region : \A offset \in DOMAIN contents[region] :
               contents'[region][offset] # contents[region][offset] =>
                 <<region, offset>> \in {WiredTo(address) : address \in addresses}
<1>1. ASSUME CpuInv PROVE Named
  <2>1. MachineOK /\ IsContents(contents) /\ regions_m = Mapping
    BY <1>1 DEF CpuInv, MachineOK
  <2>2. ASSUME NEW named, Touches(contents, contents', named), named \subseteq Word
        PROVE  \A region \in Region : \A offset \in DOMAIN contents[region] :
                 contents'[region][offset] # contents[region][offset] =>
                   <<region, offset>> \in {WiredTo(address) : address \in named}
    <3>1. ASSUME NEW address \in named, Kind[RegionOf(address)] = "ram"
          PROVE  WiredTo(address) = <<RegionOf(address), OffsetOf(address)>>
      BY <2>1, <2>2, <3>1, InSpan DEF WiredTo, RegionOf, OffsetOf
    <3>2. \A region \in Region : DOMAIN contents[region] = Offset(region)
      BY <2>1 DEF IsContents
    <3>3. QED
      BY <2>2, <3>1, <3>2 DEF Touches
  <2>3. ToWord(SP - 1) \in Word /\ ToWord(SP - 2) \in Word
    BY <2>1, OperandsRead, Converted, WordRange
  <2>4. StoredAt \subseteq Word
    BY <2>1, StoresAtWords
  <2>5. CASE AcceptInterrupt
    <3>1. /\ Accepts
          /\ callAddress(8 * interruptVectorRequested_m, pc_m)
      BY <2>5 DEF AcceptInterrupt, Taken
    <3>2. contents' = Pushed(contents, SP, pc_m)
      BY <3>1, EffectMemory, Zenon DEF callAddress
    <3>3. Touches(contents, contents', {ToWord(SP - 1), ToWord(SP - 2)})
      BY <2>1, <3>2, WritesTouch DEF MachineOK
    <3>4. {ToWord(SP - 1), ToWord(SP - 2)} \subseteq Word
      BY <2>3
    <3>5. addresses = {ToWord(SP - 1), ToWord(SP - 2)}
      BY <3>1
    <3> HIDE DEF addresses
    <3>6. QED
      BY <2>2, <3>3, <3>4, <3>5
  <2>6. CASE Execute
    <3>1. Touches(contents, contents', StoredAt)
      BY <2>1, <2>6, StepTouches
    <3>2. addresses = StoredAt
      BY <2>6 DEF Execute
    <3> HIDE DEF addresses
    <3>3. QED
      BY <2>2, <2>4, <3>1, <3>2
  <2>7. CASE StayHalted
    BY <2>7 DEF StayHalted, busVars
  <2>8. QED
    BY <2>5, <2>6, <2>7 DEF cycle
<1> HIDE DEF Named
<1>2. CpuInv /\ [Next]_vars => [Named]_vars
  BY <1>1
<1>3. Spec => [][Named]_vars
  BY <1>2, CpuInvariant, PTL DEF Spec
<1>4. QED
  BY <1>3, PTL DEF OnlyNamedCellsChange, Named
=============================================================================
