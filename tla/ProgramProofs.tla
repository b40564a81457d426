---------------------------- MODULE ProgramProofs ----------------------------
(***************************************************************************)
(* The program of MCInterrupts, for any number of requests for which the   *)
(* RAM has room: interrupts, wherever they fall and however deep they      *)
(* nest, neither disturb its result nor lose a count nor leave a byte on   *)
(* the stack.                                                              *)
(***************************************************************************)
EXTENDS MCInterrupts, HistoryProofs, SequenceTheorems

\* The accumulator and flags, and the two cells of data.
Psw == getCombinedRegister(registers_m, "PSW")

CountByte == memoryRead(CountCell)

ResultByte == memoryRead(ResultCell)

DataCells == {CountCell, ResultCell}

-----------------------------------------------------------------------------
\* The two regions of the board, by address.
LEMMA BoardRegions ==
  /\ Kind[rom] = "rom" /\ Kind[ram] = "ram" /\ rom \in Region /\ ram \in Region /\ rom # ram
  /\ RamStart \in Int /\ 128 <= RamStart /\ RamStart <= 65524
  /\ \A address \in Word : address <= 127 =>
       RegionOf(address) = rom /\ OffsetOf(address) = address
  /\ \A address \in Word : RamStart <= address =>
       RegionOf(address) = ram /\ OffsetOf(address) = address - RamStart
<1>1. /\ rom # ram /\ Kind = MCKind /\ Mapping = MCMapping
      /\ Region = {rom, ram, OpenBus} /\ AddressSpace = 65536
      /\ RamStart \in Int /\ 128 <= RamStart /\ RamStart <= 65524
  BY ProgramAssumption, BoardAssumption DEF RamStart
<1>2. Kind[rom] = "rom" /\ Kind[ram] = "ram"
  BY <1>1 DEF MCKind
<1>3. /\ Mapping \in Seq(RegionEntry) /\ DOMAIN Mapping = {1, 2}
      /\ Mapping[1] = [start |-> 0, end |-> 127, region |-> rom]
      /\ Mapping[2] = [start |-> RamStart, end |-> 65535, region |-> ram]
  BY <1>1, BoardAssumption DEF MCMapping
<1>4. ASSUME NEW address \in Word, address <= 127
      PROVE  RegionOf(address) = rom /\ OffsetOf(address) = address
  <2>1. address \in Int /\ 0 <= address
    BY WordRange
  <2>2. Matches(Mapping, address) = {1}
    BY <1>1, <1>3, <1>4, <2>1 DEF Matches, Covers
  <2>3. findRegion(Mapping, address) = Mapping[1]
    <3>1. Mapping \in Seq(RegionEntry) /\ address \in Address /\ Matches(Mapping, address) # {}
      BY <1>3, <2>2, WordIsAddress
    <3>2. PICK i \in Matches(Mapping, address) : findRegion(Mapping, address) = Mapping[i]
      BY <3>1, FindFirst
    <3>3. QED
      BY <2>2, <3>2
  <2>4. (address - 0) % 65536 = address
    BY <1>4, <2>1
  <2>5. QED
    BY <1>1, <1>3, <2>3, <2>4 DEF RegionOf, OffsetOf, offsetOf
<1>5. ASSUME NEW address \in Word, RamStart <= address
      PROVE  RegionOf(address) = ram /\ OffsetOf(address) = address - RamStart
  <2>1. address \in Int /\ address <= 65535
    BY WordRange
  <2>2. Matches(Mapping, address) = {2}
    BY <1>1, <1>3, <1>5, <2>1 DEF Matches, Covers
  <2>3. findRegion(Mapping, address) = Mapping[2]
    <3>1. Mapping \in Seq(RegionEntry) /\ address \in Address /\ Matches(Mapping, address) # {}
      BY <1>3, <2>2, WordIsAddress
    <3>2. PICK i \in Matches(Mapping, address) : findRegion(Mapping, address) = Mapping[i]
      BY <3>1, FindFirst
    <3>3. QED
      BY <2>2, <3>2
  <2>4. (address - RamStart) % 65536 = address - RamStart
    BY <1>1, <1>5, <2>1
  <2>5. QED
    BY <1>1, <1>3, <2>3, <2>4 DEF RegionOf, OffsetOf, offsetOf
<1>6. QED
  BY <1>1, <1>2, <1>4, <1>5

\* A byte of the code, and a byte of the RAM, as the CPU reads and writes them.
LEMMA BoardAccess ==
  ASSUME regions_m = Mapping
  PROVE  /\ \A address \in Word : address <= 127 =>
              \A c : busRead(Mapping, c, address) = c[rom][address]
         /\ \A address \in Word : RamStart <= address =>
              /\ \A c : busRead(Mapping, c, address) = c[ram][address - RamStart]
              /\ InRam(address) /\ IsRam(address)
              /\ WiredTo(address) = <<ram, address - RamStart>>
<1>1. ASSUME NEW address \in Word, address <= 127, NEW c
      PROVE  busRead(Mapping, c, address) = c[rom][address]
  BY <1>1, BoardRegions DEF busRead, regionRead, RegionOf, OffsetOf
<1>2. ASSUME NEW address \in Word, RamStart <= address
      PROVE  /\ \A c : busRead(Mapping, c, address) = c[ram][address - RamStart]
             /\ InRam(address) /\ IsRam(address)
             /\ WiredTo(address) = <<ram, address - RamStart>>
  <2>1. RegionOf(address) = ram /\ OffsetOf(address) = address - RamStart /\ Kind[ram] = "ram"
    BY <1>2, BoardRegions
  <2>2. \A c : busRead(Mapping, c, address) = c[ram][address - RamStart]
    BY <2>1 DEF busRead, regionRead, RegionOf, OffsetOf
  <2>3. InRam(address) /\ IsRam(address)
    BY <2>1, RamIsWired DEF InRam
  <2>4. QED
    BY <2>1, <2>2, <2>3, RamIsWired DEF CellOf
<1>3. QED
  BY <1>1, <1>2

\* The data cells.
LEMMA DataInRam ==
  /\ CountCell \in Word /\ ResultCell \in Word
  /\ CountCell = RamStart /\ ResultCell = RamStart + 2 /\ CountCell # ResultCell
  /\ RamStart + 4 <= 65535
BY BoardRegions, WordRange DEF CountCell, ResultCell

\* Stores at other addresses of the RAM leave the data cells as they are.
LEMMA DataKept ==
  ASSUME MachineOK, regions_m' = regions_m, NEW addresses \in SUBSET Word,
         Touches(contents, contents', addresses),
         \A address \in addresses : RamStart <= address,
         NEW cell \in DataCells, cell \notin addresses
  PROVE  memoryRead(cell)' = memoryRead(cell)
<1>1. regions_m = Mapping /\ regions_m' = Mapping
  BY DEF MachineOK
<1>2. cell \in Word /\ RamStart <= cell /\ cell \in Int /\ RamStart \in Int
  BY DataInRam, BoardRegions, WordRange DEF DataCells
<1>3. \A address \in addresses : CellOf(address) # CellOf(cell)
  <2> SUFFICES ASSUME NEW address \in addresses, CellOf(address) = CellOf(cell)
               PROVE  FALSE
    OBVIOUS
  <2>1. address \in Word /\ RamStart <= address /\ address \in Int
    BY WordRange
  <2>2. OffsetOf(address) = address - RamStart /\ OffsetOf(cell) = cell - RamStart
    BY <1>2, <2>1, BoardRegions
  <2>3. OffsetOf(address) = OffsetOf(cell)
    BY DEF CellOf
  <2>4. address = cell
    BY <1>2, <2>1, <2>2, <2>3
  <2>5. QED
    BY <2>4
<1>4. InRam(cell)
  BY <1>1, <1>2, BoardAccess
<1>5. busRead(Mapping, contents', cell) = busRead(Mapping, contents, cell)
  BY <1>2, <1>3, <1>4, ByteKept
<1>6. memoryRead(cell) = busRead(Mapping, contents, cell)
  BY <1>1 DEF memoryRead
<1>7. memoryRead(cell)' = busRead(Mapping, contents', cell)
  BY <1>1 DEF memoryRead, DataCells, CountCell, ResultCell, RamStart
<1>8. QED
  BY <1>5, <1>6, <1>7

-----------------------------------------------------------------------------
\* The code, byte by byte.
LEMMA CodeLengths ==
  /\ Len(MainCode) = 31 /\ Len(SubroutineCode) = 11 /\ Len(Routine1Code) = 11
<1>1. Len(MainCode) = 31
  BY DEF MainCode
<1>2. Len(SubroutineCode) = 11
  BY DEF SubroutineCode
<1>3. Len(Routine1Code) = 11
  BY DEF Routine1Code
<1>4. QED
  BY <1>1, <1>2, <1>3

LEMMA VectorBytes ==
  /\ ROM[0] = 195 /\ ROM[1] = 64 /\ ROM[2] = 0
  /\ ROM[8] = 195 /\ ROM[9] = 32 /\ ROM[10] = 0
  /\ ROM[16] = 251 /\ ROM[17] = 201
BY CodeLengths DEF ROM

LEMMA MainBytes ==
  /\ ROM[64] = 49 /\ ROM[65] = 0 /\ ROM[66] = 0
  /\ ROM[67] = 251
  /\ ROM[68] = 62 /\ ROM[69] = 88
  /\ ROM[70] = 198 /\ ROM[71] = 103
  /\ ROM[72] = 39 /\ ROM[73] = 245 /\ ROM[74] = 227 /\ ROM[75] = 227
  /\ ROM[76] = 220 /\ ROM[77] = 96 /\ ROM[78] = 0
  /\ ROM[79] = 241
  /\ ROM[80] = 206 /\ ROM[81] = 0
  /\ ROM[82] = 23
  /\ ROM[83] = 50 /\ ROM[84] = getLowByte(ResultCell) /\ ROM[85] = getHighByte(ResultCell)
  /\ ROM[86] = 33 /\ ROM[87] = getLowByte(ResultCell) /\ ROM[88] = getHighByte(ResultCell)
  /\ ROM[89] = 52 /\ ROM[90] = 251 /\ ROM[91] = 118
  /\ ROM[92] = 195 /\ ROM[93] = 90 /\ ROM[94] = 0
BY CodeLengths DEF ROM, MainCode

LEMMA SubroutineBytes ==
  /\ ROM[96] = 208 /\ ROM[97] = 243
  /\ ROM[98] = 58 /\ ROM[99] = getLowByte(CountCell) /\ ROM[100] = getHighByte(CountCell)
  /\ ROM[101] = 60
  /\ ROM[102] = 50 /\ ROM[103] = getLowByte(CountCell) /\ ROM[104] = getHighByte(CountCell)
  /\ ROM[105] = 251 /\ ROM[106] = 201
BY CodeLengths DEF ROM, SubroutineCode

LEMMA RoutineBytes ==
  /\ ROM[32] = 245 /\ ROM[33] = 229
  /\ ROM[34] = 33 /\ ROM[35] = getLowByte(CountCell) /\ ROM[36] = getHighByte(CountCell)
  /\ ROM[37] = 52 /\ ROM[38] = 175 /\ ROM[39] = 225 /\ ROM[40] = 241
  /\ ROM[41] = 251 /\ ROM[42] = 201
BY CodeLengths DEF ROM, Routine1Code

\* An instruction of the program runs.
Runs ==
  /\ MachineOK /\ StackInv
  /\ contents[rom] = ROM
  /\ Execute
  /\ frames' = FramesAfterInstruction

\* The opcode and the operand at an address of the code.
LEMMA ReadCode ==
  ASSUME Runs, pc_m <= 120
  PROVE  /\ Fetched = ROM[pc_m] /\ instruction = opcodes_m[ROM[pc_m]]
         /\ readNextByte = ROM[pc_m + 1]
         /\ readNextTwoBytes = Combine(ROM[pc_m + 2], ROM[pc_m + 1])
         /\ \A n \in {1, 2, 3} : After(n) = pc_m + n
<1>1. /\ regions_m = Mapping /\ contents[rom] = ROM
      /\ pc_m \in Word /\ pc_m \in Int /\ 0 <= pc_m
  BY WordRange DEF Runs, MachineOK
<1>2. \A n \in {1, 2, 3} : After(n) = pc_m + n /\ pc_m + n \in Word /\ pc_m + n <= 127
  BY <1>1, WordRange DEF After, ToWord
<1>3. \A address \in Word : address <= 127 => memoryRead(address) = ROM[address]
  BY <1>1, BoardAccess DEF memoryRead
<1>4. memoryRead(pc_m) = ROM[pc_m]
  BY <1>1, <1>3
<1>5. memoryRead(After(1)) = ROM[pc_m + 1] /\ memoryRead(After(2)) = ROM[pc_m + 2]
  BY <1>2, <1>3
<1>6. QED
  BY <1>2, <1>4, <1>5 DEF Fetched, instruction, readNextByte, readNextTwoBytes

-----------------------------------------------------------------------------
\* The bit fields of an opcode.
Digits3(code, group, y, z) ==
  code \in Byte /\ Group(code) = group /\ Y(code) = y /\ Z(code) = z

LEMMA OpcodeDigits ==
  /\ Digits3(49, 0, 6, 1)  /\ Digits3(62, 0, 7, 6)  /\ Digits3(39, 0, 4, 7)
  /\ Digits3(23, 0, 2, 7)  /\ Digits3(50, 0, 6, 2)  /\ Digits3(58, 0, 7, 2)
  /\ Digits3(33, 0, 4, 1)  /\ Digits3(52, 0, 6, 4)  /\ Digits3(60, 0, 7, 4)
  /\ Digits3(118, 1, 6, 6) /\ Digits3(175, 2, 5, 7)
  /\ Digits3(195, 3, 0, 3) /\ Digits3(251, 3, 7, 3) /\ Digits3(243, 3, 6, 3)
  /\ Digits3(198, 3, 0, 6) /\ Digits3(206, 3, 1, 6) /\ Digits3(227, 3, 4, 3)
  /\ Digits3(245, 3, 6, 5) /\ Digits3(229, 3, 4, 5)
  /\ Digits3(241, 3, 6, 1) /\ Digits3(225, 3, 4, 1)
  /\ Digits3(220, 3, 3, 4) /\ Digits3(208, 3, 2, 0) /\ Digits3(201, 3, 1, 1)
BY ByteRange DEF Digits3, Group, Y, Z

\* The handlers of the opcodes of the program.
LEMMA DataEntries ==
  /\ opcodes_m[49] = OnPair("LXI_RR_d16", "SP")
  /\ opcodes_m[33] = OnPair("LXI_RR_d16", "HL")
  /\ opcodes_m[62] = OnRegister("MVI_R_d8", "A")
  /\ opcodes_m[39] = Plain("DAA")
  /\ opcodes_m[23] = RotateA("LEFT", TRUE)
  /\ opcodes_m[50] = Plain("STA_a16")
  /\ opcodes_m[58] = Plain("LDA_a16")
  /\ opcodes_m[52] = StepM("ADD")
  /\ opcodes_m[60] = StepRegister("A", "ADD")
  /\ opcodes_m[118] = Plain("HLT")
  /\ opcodes_m[175] = LogicR("A", "XOR")
<1> USE DEF Digits3
<1>1. /\ opcodes_m[49] = OnPair("LXI_RR_d16", "SP")
      /\ opcodes_m[33] = OnPair("LXI_RR_d16", "HL")
  <2>1. ~Selected(49) /\ ~Selected(33) /\ PairNumber(49) = 3 /\ PairNumber(33) = 2
    BY OpcodeDigits DEF Selected, PairNumber
  <2>2. Pair(49) = "SP" /\ Pair(33) = "HL"
    BY <2>1 DEF Pair
  <2>3. QED
    BY <2>1, <2>2, OpcodeDigits, Group0Follows DEF Group0
<1>2. opcodes_m[62] = OnRegister("MVI_R_d8", "A")
  BY OpcodeDigits, Group0Follows DEF Group0, Destination, RegisterCode
<1>3. opcodes_m[39] = Plain("DAA")
  BY OpcodeDigits, Group0Follows DEF Group0
<1>4. opcodes_m[23] = RotateA("LEFT", TRUE)
  <2> DEFINE through   == Y(23) >= 2
             direction == IF Selected(23) THEN "RIGHT" ELSE "LEFT"
  <2>1. Group(23) = 0 /\ Y(23) = 2 /\ Z(23) = 7 /\ 23 \in Byte
    BY OpcodeDigits
  <2>2. /\ Z(23) = 7 /\ Y(23) < 4
        /\ ~ (Z(23) = 0) /\ ~ (Z(23) = 1) /\ ~ (Z(23) = 2) /\ ~ (Z(23) = 3)
        /\ ~ (Z(23) \in {4, 5}) /\ ~ (Z(23) = 6) /\ ~ (Y(23) >= 4)
    BY <2>1
  <2>3. Group0(23) = RotateA(direction, through)
    BY <2>2, Zenon DEF Group0
  <2>4. direction = "LEFT" /\ through = TRUE
    BY <2>1 DEF Selected
  <2> HIDE DEF direction, through
  <2>5. Group0(23) = RotateA("LEFT", TRUE)
    BY <2>3, <2>4, Zenon
  <2>6. QED
    BY <2>1, <2>5, Group0Follows
<1>5. opcodes_m[50] = Plain("STA_a16") /\ opcodes_m[58] = Plain("LDA_a16")
  BY OpcodeDigits, Group0Follows DEF Group0
<1>6. opcodes_m[52] = StepM("ADD") /\ opcodes_m[60] = StepRegister("A", "ADD")
  BY OpcodeDigits, Group0Follows DEF Group0, Destination, RegisterCode
<1>7. opcodes_m[118] = Plain("HLT")
  BY OpcodeDigits, Group1Follows DEF Group1, Destination, Operand, RegisterCode
<1>8. opcodes_m[175] = LogicR("A", "XOR")
  <2>1. Operand(175) = "A" /\ Y(175) = 5 /\ Group(175) = 2 /\ 175 \in Byte
    BY OpcodeDigits DEF Operand, RegisterCode
  <2> DEFINE from == Operand(175)
             Ar(kind, useCarry, storeResult) ==
               IF from = "M" THEN ArithmeticM(kind, useCarry, storeResult)
                             ELSE ArithmeticR(from, kind, useCarry, storeResult)
             Lo(logic) == IF from = "M" THEN LogicM(logic) ELSE LogicR(from, logic)
  <2>2. Group2(175) = ByOperation(Y(175), Ar, Lo)
    BY Zenon DEF Group2
  <2>3. Lo("XOR") = LogicR("A", "XOR")
    BY <2>1
  <2> HIDE DEF Ar, Lo
  <2>4. ByOperation(Y(175), Ar, Lo) = Lo("XOR")
    <3>1. Y(175) = 5
      BY <2>1
    <3>2. ByOperation(5, Ar, Lo) = Lo("XOR")
      BY DEF ByOperation
    <3>3. QED
      BY <3>1, <3>2, Zenon
  <2>5. opcodes_m[175] = Group2(175)
    BY <2>1, Group2Follows
  <2>6. QED
    BY <2>2, <2>3, <2>4, <2>5, Zenon
<1>9. QED
  BY <1>1, <1>2, <1>3, <1>4, <1>5, <1>6, <1>7, <1>8

LEMMA FlowEntries ==
  /\ opcodes_m[195] = Plain("JMP_a16")
  /\ opcodes_m[251] = Plain("EI")
  /\ opcodes_m[243] = Plain("DI")
  /\ opcodes_m[198] = Immediate("ADD", FALSE, TRUE)
  /\ opcodes_m[206] = Immediate("ADD", TRUE, TRUE)
  /\ opcodes_m[220].op = "conditionalCall_a16"
<1> USE DEF Digits3
<1>1. /\ opcodes_m[195] = Plain("JMP_a16") /\ opcodes_m[251] = Plain("EI")
      /\ opcodes_m[243] = Plain("DI")
  BY OpcodeDigits, Group3Follows DEF Group3
<1>2. /\ opcodes_m[198] = Immediate("ADD", FALSE, TRUE)
      /\ opcodes_m[206] = Immediate("ADD", TRUE, TRUE)
  <2>1. Group3(198) = ByOperation(Y(198), Immediate, LogicImmediate)
    BY OpcodeDigits DEF Group3
  <2>2. Group3(206) = ByOperation(Y(206), Immediate, LogicImmediate)
    BY OpcodeDigits DEF Group3
  <2>3. Y(198) = 0 /\ Y(206) = 1
    BY OpcodeDigits
  <2>4. Group3(198) = Immediate("ADD", FALSE, TRUE)
    BY <2>1, <2>3, OperationEntries, Zenon
  <2>5. Group3(206) = Immediate("ADD", TRUE, TRUE)
    BY <2>2, <2>3, OperationEntries, Zenon
  <2>6. opcodes_m[198] = Group3(198) /\ opcodes_m[206] = Group3(206)
    BY OpcodeDigits, Group3Follows
  <2>7. QED
    BY <2>4, <2>5, <2>6, Zenon
<1>3. opcodes_m[220].op = "conditionalCall_a16"
  BY OpcodeDigits, Group3Follows, Group3Ops
<1>4. QED
  BY <1>1, <1>2, <1>3

-----------------------------------------------------------------------------
\* The opcodes of the program that do not work on the stack, the stack pointer
\* set up by LXI SP included.
Ordinary == {195, 251, 118, 243, 50, 52, 33, 62, 58, 198, 206, 39, 23, 60, 175, 49}

LEMMA OrdinaryOpcodes ==
  ASSUME NEW code \in Ordinary
  PROVE  ~IsCall(code) /\ ~IsReturn(code) /\ ~IsPush(code) /\ ~IsPop(code) /\ ~IsExchange(code)
<1>1. Group(code) = 3 => code \in {195, 251, 243, 198, 206} /\ Z(code) \in {3, 6}
  BY OpcodeDigits DEF Ordinary, Digits3
<1>2. code # 227
  BY DEF Ordinary
<1>3. QED
  BY <1>1, <1>2 DEF IsCall, IsReturn, IsPush, IsPop, IsExchange

\* The registers each opcode may change.
LEMMA OrdinaryDestinations ==
  /\ \A code \in {195, 251, 118, 243, 50} : Destinations(code) = {}
  /\ Destinations(52) = {"F"}
  /\ Destinations(33) = {"H", "L"}
  /\ \A code \in {62, 58} : Destinations(code) = {"A"}
  /\ \A code \in {198, 206, 39, 23, 60, 175} : Destinations(code) = {"A", "F"}
<1> USE DEF Digits3
<1>1. \A code \in {195, 251, 118, 243, 50} : Destinations(code) = {}
  BY OpcodeDigits DEF Destinations, Destination, RegisterCode
<1>2. Destinations(52) = {"F"}
  BY OpcodeDigits DEF Destinations, Destination, RegisterCode
<1>3. Destinations(33) = {"H", "L"}
  <2>1. ~Selected(33) /\ Pair(33) = "HL"
    BY OpcodeDigits DEF Selected, Pair, PairNumber
  <2>2. QED
    BY <2>1, OpcodeDigits, PairHalves DEF Destinations
<1>4. \A code \in {62, 58} : Destinations(code) = {"A"}
  BY OpcodeDigits DEF Destinations, Destination, RegisterCode
<1>5. \A code \in {198, 206, 39, 23, 60, 175} : Destinations(code) = {"A", "F"}
  BY OpcodeDigits DEF Destinations, Destination, RegisterCode
<1>6. QED
  BY <1>1, <1>2, <1>3, <1>4, <1>5

LEMMA StackDestinations ==
  /\ Destinations(49) = Halves("SP")
  /\ \A code \in {245, 229, 220, 208, 201} : Destinations(code) = Halves("SP")
  /\ Destinations(241) = Halves("SP") \cup Halves("PSW")
  /\ Destinations(225) = Halves("SP") \cup Halves("HL")
  /\ Destinations(227) = Halves("HL")
<1> USE DEF Digits3
<1>1. Destinations(49) = Halves("SP")
  <2>1. ~Selected(49) /\ Pair(49) = "SP"
    BY OpcodeDigits DEF Selected, Pair, PairNumber
  <2>2. QED
    BY <2>1, OpcodeDigits DEF Destinations
<1>2. \A code \in {245, 229, 220, 208} : Destinations(code) = Halves("SP")
  BY OpcodeDigits DEF Destinations
<1>3. Destinations(201) = Halves("SP")
  BY OpcodeDigits DEF Destinations, Selected, IsPCHL
<1>4. /\ Destinations(241) = Halves("SP") \cup Halves("PSW")
      /\ Destinations(225) = Halves("SP") \cup Halves("HL")
  <2>1. ~Selected(241) /\ ~Selected(225) /\ PairNumber(241) = 3 /\ PairNumber(225) = 2
    BY OpcodeDigits DEF Selected, PairNumber
  <2>2. StackPair(241) = "PSW" /\ StackPair(225) = "HL"
    BY <2>1 DEF StackPair
  <2>3. QED
    BY <2>1, <2>2, OpcodeDigits DEF Destinations
<1>5. Destinations(227) = Halves("HL")
  BY OpcodeDigits DEF Destinations
<1>6. QED
  BY <1>1, <1>2, <1>3, <1>4, <1>5

\* What each opcode of the stack does.
LEMMA StackOpcodesOfProgram ==
  /\ IsPush(245) /\ StackPair(245) = "PSW" /\ IsPush(229) /\ StackPair(229) = "HL"
  /\ IsPop(241) /\ StackPair(241) = "PSW" /\ IsPop(225) /\ StackPair(225) = "HL"
  /\ IsExchange(227)
  /\ IsCall(220) /\ Length(220) = 3 /\ Z(220) = 4 /\ Condition(220) = "CY" /\ Selected(220)
  /\ IsReturn(208) /\ Z(208) = 0 /\ Condition(208) = "CY" /\ ~Selected(208)
  /\ IsReturn(201) /\ Z(201) = 1
<1> USE DEF Digits3
<1>1. /\ IsPush(245) /\ StackPair(245) = "PSW" /\ IsPush(229) /\ StackPair(229) = "HL"
      /\ IsPop(241) /\ StackPair(241) = "PSW" /\ IsPop(225) /\ StackPair(225) = "HL"
  <2>1. \A code \in {245, 229, 241, 225} : ~Selected(code)
    BY OpcodeDigits DEF Selected
  <2>2. /\ PairNumber(245) = 3 /\ PairNumber(229) = 2
        /\ PairNumber(241) = 3 /\ PairNumber(225) = 2
    BY OpcodeDigits DEF PairNumber
  <2>3. /\ StackPair(245) = "PSW" /\ StackPair(229) = "HL"
        /\ StackPair(241) = "PSW" /\ StackPair(225) = "HL"
    BY <2>2 DEF StackPair
  <2>4. IsPush(245) /\ IsPush(229) /\ IsPop(241) /\ IsPop(225)
    BY <2>1, OpcodeDigits DEF IsPush, IsPop
  <2>5. QED
    BY <2>3, <2>4
<1>2. IsExchange(227)
  BY DEF IsExchange
<1>3. IsCall(220) /\ Length(220) = 3 /\ Z(220) = 4 /\ Condition(220) = "CY" /\ Selected(220)
  BY OpcodeDigits DEF IsCall, Length, HasWord, Condition, PairNumber, Selected
<1>4. IsReturn(208) /\ Z(208) = 0 /\ Condition(208) = "CY" /\ ~Selected(208)
  <2>1. IsReturn(208) /\ Z(208) = 0 /\ ~Selected(208) /\ PairNumber(208) = 1
    BY OpcodeDigits DEF IsReturn, PairNumber, Selected
  <2>2. QED
    BY <2>1 DEF Condition
<1>5. IsReturn(201) /\ Z(201) = 1
  BY OpcodeDigits DEF IsReturn
<1>6. QED
  BY <1>1, <1>2, <1>3, <1>4, <1>5

\* Where each opcode stores.
LEMMA StoresOfProgram ==
  /\ Fetched = 50 => StoredAt = {readNextTwoBytes}
  /\ Fetched = 52 => StoredAt = {HL}
  /\ Fetched = 227 => StoredAt = {SP, ToWord(SP + 1)}
  /\ Fetched \in {245, 229, 220} => StoredAt = {ToWord(SP - 1), ToWord(SP - 2)}
  /\ Fetched \in (Ordinary \ {50, 52, 118}) \cup {241, 225, 208, 201} => StoredAt = {}
<1> USE DEF Digits3
<1>1. Fetched = 50 => StoredAt = {readNextTwoBytes}
  BY OpcodeDigits DEF StoredAt
<1>2. Fetched = 52 => StoredAt = {HL}
  BY OpcodeDigits DEF StoredAt
<1>3. Fetched = 227 => StoredAt = {SP, ToWord(SP + 1)}
  BY OpcodeDigits DEF StoredAt
<1>4. Fetched \in {245, 229, 220} => StoredAt = {ToWord(SP - 1), ToWord(SP - 2)}
  BY OpcodeDigits DEF StoredAt
<1>5. Fetched \in (Ordinary \ {50, 52, 118}) \cup {241, 225, 208, 201} => StoredAt = {}
  BY OpcodeDigits DEF StoredAt, Ordinary
<1>6. QED
  BY <1>1, <1>2, <1>3, <1>4, <1>5

-----------------------------------------------------------------------------
\* What an instruction of the program leaves alone.
LEMMA FileKept ==
  ASSUME Runs
  PROVE  /\ Destinations(Fetched) \cap {"H", "L"} = {} => HL' = HL
         /\ Destinations(Fetched) \cap {"A", "F"} = {} => Psw' = Psw
         /\ Destinations(Fetched) \cap {"SP_high", "SP_low"} = {} => SP' = SP
<1>1. \A reg \in Register \ {"W", "Z"} :
        reg \notin Destinations(Fetched) => registers_m'[reg] = registers_m[reg]
  BY StepKeeps, PairHalves DEF Runs
<1>2. {"H", "L", "A", "F", "SP_high", "SP_low"} \subseteq Register \ {"W", "Z"}
  BY DEF Register
<1>3. /\ RegisterPairs["HL"] = <<"H", "L">> /\ RegisterPairs["PSW"] = <<"A", "F">>
      /\ RegisterPairs["SP"] = <<"SP_high", "SP_low">>
  BY DEF RegisterPairs
<1>4. ASSUME Destinations(Fetched) \cap {"H", "L"} = {}
      PROVE  HL' = HL
  <2>1. registers_m'["H"] = registers_m["H"] /\ registers_m'["L"] = registers_m["L"]
    BY <1>1, <1>2, <1>4
  <2>2. QED
    BY <1>3, <2>1 DEF HL, getCombinedRegister, getRegister
<1>5. ASSUME Destinations(Fetched) \cap {"A", "F"} = {}
      PROVE  Psw' = Psw
  <2>1. registers_m'["A"] = registers_m["A"] /\ registers_m'["F"] = registers_m["F"]
    BY <1>1, <1>2, <1>5
  <2>2. QED
    BY <1>3, <2>1 DEF Psw, getCombinedRegister, getRegister
<1>6. ASSUME Destinations(Fetched) \cap {"SP_high", "SP_low"} = {}
      PROVE  SP' = SP
  <2>1. /\ registers_m'["SP_high"] = registers_m["SP_high"]
        /\ registers_m'["SP_low"] = registers_m["SP_low"]
    BY <1>1, <1>2, <1>6
  <2>2. QED
    BY <1>3, <2>1 DEF SP, getCombinedRegister, getRegister
<1>7. QED
  BY <1>4, <1>5, <1>6

LEMMA DataUntouched ==
  ASSUME Runs, \A address \in StoredAt : RamStart <= address
  PROVE  /\ CountCell \notin StoredAt => CountByte' = CountByte
         /\ ResultCell \notin StoredAt => ResultByte' = ResultByte
<1>1. /\ MachineOK /\ regions_m' = regions_m /\ StoredAt \in SUBSET Word
      /\ Touches(contents, contents', StoredAt)
  BY StepTouches, StoresAtWords DEF Runs, Execute
<1>2. ASSUME NEW cell \in DataCells, cell \notin StoredAt
      PROVE  memoryRead(cell)' = memoryRead(cell)
  BY <1>1, <1>2, DataKept
<1>3. QED
  BY <1>2 DEF DataCells, CountByte, ResultByte

\* The stack of the program comes down from the end of the RAM and leaves the
\* data alone.
StackAtTop ==
  /\ MachineOK /\ StackInv
  /\ SP = ToWord(0 - 2 * Len(frames))
  /\ 2 * Len(frames) + 4 <= RamSize

LEMMA StackPlace ==
  ASSUME StackAtTop
  PROVE  /\ frames \in Seq(Word) /\ Len(frames) \in Nat
         /\ \A k \in 0 .. 2 * Len(frames) - 1 :
              /\ ToWord(SP + k) = 65536 - 2 * Len(frames) + k
              /\ ToWord(SP + k) \in Word
              /\ RamStart + 4 <= ToWord(SP + k)
              /\ WiredTo(ToWord(SP + k)) = <<ram, ToWord(SP + k) - RamStart>>
         /\ WiredTo(CountCell) \notin Held /\ WiredTo(ResultCell) \notin Held
<1>1. frames \in Seq(Word) /\ Len(frames) \in Nat
  BY DEF StackAtTop, StackInv, StackHolds
<1>2. RamSize \in Nat /\ RamStart = 65536 - RamSize /\ RamSize <= 65408
  BY ProgramAssumption DEF RamStart
<1>3. ASSUME NEW k \in 0 .. 2 * Len(frames) - 1
      PROVE  /\ ToWord(SP + k) = 65536 - 2 * Len(frames) + k
             /\ ToWord(SP + k) \in Word
             /\ RamStart + 4 <= ToWord(SP + k)
             /\ WiredTo(ToWord(SP + k)) = <<ram, ToWord(SP + k) - RamStart>>
  <2>1. k \in Int /\ 0 <= k /\ k < 2 * Len(frames)
    BY <1>1
  <2>2. ToWord(SP + k) = ToWord(0 - 2 * Len(frames) + k)
    BY <1>1, <2>1, WrapsOnce DEF StackAtTop
  <2>3. ToWord(0 - 2 * Len(frames) + k) = 65536 - 2 * Len(frames) + k
    BY <1>1, <1>2, <2>1 DEF StackAtTop, ToWord
  <2>4. /\ ToWord(SP + k) = 65536 - 2 * Len(frames) + k
        /\ RamStart + 4 <= ToWord(SP + k)
        /\ ToWord(SP + k) \in Word
    BY <1>1, <1>2, <2>1, <2>2, <2>3, WordRange DEF StackAtTop
  <2>5. RamStart <= ToWord(SP + k)
    BY <1>2, <2>4, WordRange
  <2>6. WiredTo(ToWord(SP + k)) = <<ram, ToWord(SP + k) - RamStart>>
    BY <2>4, <2>5, BoardAccess DEF StackAtTop, MachineOK
  <2>7. QED
    BY <2>4, <2>6
<1>4. /\ WiredTo(CountCell) = <<ram, 0>> /\ WiredTo(ResultCell) = <<ram, 2>>
  <2>1. /\ WiredTo(CountCell) = <<ram, CountCell - RamStart>>
        /\ WiredTo(ResultCell) = <<ram, ResultCell - RamStart>>
    <3>1. RamStart <= CountCell /\ RamStart <= ResultCell
      BY <1>2, DataInRam
    <3>2. QED
      BY <3>1, DataInRam, BoardAccess DEF StackAtTop, MachineOK
  <2>2. QED
    BY <1>2, <2>1, DataInRam
<1>5. ASSUME NEW k \in 0 .. 2 * Len(frames) - 1
      PROVE  /\ WiredTo(ToWord(SP + k)) # <<ram, 0>>
             /\ WiredTo(ToWord(SP + k)) # <<ram, 2>>
  <2>1. /\ WiredTo(ToWord(SP + k)) = <<ram, ToWord(SP + k) - RamStart>>
        /\ ToWord(SP + k) - RamStart # 0 /\ ToWord(SP + k) - RamStart # 2
    BY <1>1, <1>2, <1>3
  <2>2. QED
    BY <2>1
<1>6. WiredTo(CountCell) \notin Held /\ WiredTo(ResultCell) \notin Held
  BY <1>4, <1>5 DEF Held
<1>7. QED
  BY <1>1, <1>3, <1>6

LEMMA RoomToPush ==
  ASSUME StackAtTop, 2 * Len(frames) + 6 <= RamSize
  PROVE  /\ RamStart + 4 <= ToWord(SP - 1) /\ RamStart + 4 <= ToWord(SP - 2)
         /\ CountCell \notin {ToWord(SP - 1), ToWord(SP - 2)}
         /\ ResultCell \notin {ToWord(SP - 1), ToWord(SP - 2)}
         /\ \A word : Grown(word) = <<word>> \o frames
         /\ ToWord(SP - 2) = ToWord(0 - 2 * (Len(frames) + 1))
<1> DEFINE high == ToWord(SP - 1)
           low  == ToWord(SP - 2)
           n    == Len(frames)
<1>1. n \in Nat
  BY StackPlace
<1>2. RamSize \in Nat /\ RamStart = 65536 - RamSize /\ RamSize <= 65408
  BY ProgramAssumption DEF RamStart
<1>3. /\ high = ToWord(0 - 2 * n - 1) /\ low = ToWord(0 - 2 * n - 2)
  <2>1. \A m \in Int : ToWord(SP + m) = ToWord(0 - 2 * n + m)
    BY <1>1, WrapsOnce DEF StackAtTop
  <2>2. SP \in Int
    BY OperandsRead, WordRange DEF StackAtTop
  <2> HIDE DEF n
  <2>3. ToWord(SP + (-1)) = ToWord(0 - 2 * n + (-1)) /\ ToWord(SP + (-2)) = ToWord(0 - 2 * n + (-2))
    BY <2>1
  <2>4. QED
    BY <1>1, <2>2, <2>3
<1>4. high = 65535 - 2 * n /\ low = 65534 - 2 * n
  <2>1. 2 * n + 6 <= RamSize
    OBVIOUS
  <2> HIDE DEF n
  <2>2. (0 - 2 * n - 1) % 65536 = 65535 - 2 * n /\ (0 - 2 * n - 2) % 65536 = 65534 - 2 * n
    BY <1>1, <1>2, <2>1
  <2>3. QED
    BY <1>3, <2>2 DEF ToWord
<1>5. RamStart + 4 <= high /\ RamStart + 4 <= low /\ high \in Word /\ low \in Word /\ high # low
  BY <1>1, <1>2, <1>4, WordRange
<1>6. CountCell \notin {high, low} /\ ResultCell \notin {high, low}
  BY <1>2, <1>5, DataInRam, WordRange
<1>7. /\ WiredTo(high) = <<ram, 65535 - 2 * n - RamStart>> /\ IsRam(high)
      /\ WiredTo(low) = <<ram, 65534 - 2 * n - RamStart>> /\ IsRam(low)
  <2>1. RamStart <= high /\ RamStart <= low
    BY <1>2, <1>5, WordRange
  <2>2. /\ WiredTo(high) = <<ram, high - RamStart>> /\ IsRam(high)
        /\ WiredTo(low) = <<ram, low - RamStart>> /\ IsRam(low)
    BY <1>5, <2>1, BoardAccess DEF StackAtTop, MachineOK
  <2>3. QED
    BY <1>4, <2>2
<1>8. StackCells(high, low)
  <2>1. 65535 - 2 * n - RamStart # 65534 - 2 * n - RamStart
    BY <1>1, <1>2
  <2>2. QED
    BY <1>7, <2>1 DEF StackCells
<1>9. WiredTo(high) \notin Held /\ WiredTo(low) \notin Held
  <2> SUFFICES ASSUME NEW k \in 0 .. 2 * n - 1
               PROVE  /\ WiredTo(ToWord(SP + k)) # WiredTo(high)
                      /\ WiredTo(ToWord(SP + k)) # WiredTo(low)
    BY DEF Held
  <2>1. WiredTo(ToWord(SP + k)) = <<ram, ToWord(SP + k) - RamStart>>
    BY StackPlace
  <2>2. ToWord(SP + k) = 65536 - 2 * n + k
    BY StackPlace
  <2>3. /\ ToWord(SP + k) - RamStart # 65535 - 2 * n - RamStart
        /\ ToWord(SP + k) - RamStart # 65534 - 2 * n - RamStart
    BY <1>1, <1>2, <2>2
  <2>4. QED
    BY <1>7, <2>1, <2>3
<1>10. \A word : Grown(word) = <<word>> \o frames
  BY <1>8, <1>9 DEF Grown
<1>11. low = ToWord(0 - 2 * (n + 1))
  BY <1>1, <1>3
<1>12. QED
  BY <1>5, <1>6, <1>10, <1>11

-----------------------------------------------------------------------------
\* The handlers of the stack.
LEMMA StackEntries ==
  /\ opcodes_m[245].op = "PUSH_RR" /\ opcodes_m[229].op = "PUSH_RR"
  /\ opcodes_m[241].op = "POP_RR" /\ opcodes_m[225].op = "POP_RR"
  /\ opcodes_m[227].op = "XTHL"
  /\ opcodes_m[208].op = "conditionalRet" /\ opcodes_m[201].op = "RET"
<1> USE DEF Digits3
<1>1. opcodes_m[245].op = "PUSH_RR" /\ opcodes_m[229].op = "PUSH_RR"
  BY OpcodeDigits, Group3Follows, Group3Ops, StackOpcodesOfProgram DEF IsPush
<1>2. opcodes_m[241].op = "POP_RR" /\ opcodes_m[225].op = "POP_RR"
  BY OpcodeDigits, Group3Follows, Group3Ops, StackOpcodesOfProgram DEF IsPop
<1>3. opcodes_m[227].op = "XTHL"
  BY OpcodeDigits, Group3Follows, Group3Ops
<1>4. opcodes_m[208].op = "conditionalRet"
  BY OpcodeDigits, Group3Follows, Group3Ops
<1>5. opcodes_m[201].op = "RET"
  <2>1. Selected(201) /\ PairNumber(201) = 0
    BY OpcodeDigits DEF Selected, PairNumber
  <2>2. QED
    BY <2>1, OpcodeDigits, Group3Follows, Group3Ops
<1>6. QED
  BY <1>1, <1>2, <1>3, <1>4, <1>5

\* The opcodes whose handlers leave the interrupt state and halted_m alone.
Working == (Ordinary \ {251, 243, 118}) \cup {245, 229, 241, 225, 227, 220, 208, 201}

LEMMA WorkingOps ==
  ASSUME NEW code \in Working
  PROVE  opcodes_m[code].op \notin {"EI", "DI", "HLT", "OUT_d8"}
<1>1. code \in {195, 50, 52, 33, 62, 58, 198, 206, 39, 23, 60, 175, 49} =>
        opcodes_m[code].op \notin {"EI", "DI", "HLT", "OUT_d8"}
  <2>1. /\ opcodes_m[195].op = "JMP_a16" /\ opcodes_m[50].op = "STA_a16"
        /\ opcodes_m[58].op = "LDA_a16" /\ opcodes_m[39].op = "DAA"
        /\ opcodes_m[33].op = "LXI_RR_d16" /\ opcodes_m[49].op = "LXI_RR_d16"
        /\ opcodes_m[62].op = "MVI_R_d8"
        /\ opcodes_m[52].op = "INR_DCR_M" /\ opcodes_m[60].op = "INR_DCR_R"
        /\ opcodes_m[175].op = "ANA_ORA_XRA_R"
    BY DataEntries, FlowEntries, OpNames
  <2>2. opcodes_m[23].op = "RLC_RRC_RAL_RAR_R"
    <3>1. opcodes_m[23] = RotateA("LEFT", TRUE)
      BY DataEntries, Zenon
    <3>2. QED
      BY <3>1 DEF RotateA
  <2>3. opcodes_m[198].op = "ADI_ACI_SUI_SBI_CPI_d8"
    <3>1. opcodes_m[198] = Immediate("ADD", FALSE, TRUE)
      BY FlowEntries, Zenon
    <3>2. QED
      BY <3>1 DEF Immediate
  <2>5. opcodes_m[206].op = "ADI_ACI_SUI_SBI_CPI_d8"
    <3>1. opcodes_m[206] = Immediate("ADD", TRUE, TRUE)
      BY FlowEntries, Zenon
    <3>2. QED
      BY <3>1 DEF Immediate
  <2>4. QED
    BY <2>1, <2>2, <2>3, <2>5
<1>2. code \in {245, 229, 241, 225, 227, 220, 208, 201} =>
        opcodes_m[code].op \notin {"EI", "DI", "HLT", "OUT_d8"}
  BY StackEntries, FlowEntries
<1>3. QED
  BY <1>1, <1>2 DEF Working, Ordinary

\* The interrupt state after an instruction of the program.
LEMMA ProgramControl ==
  ASSUME Runs, Fetched \in Working \cup {251, 243, 118}, instruction = opcodes_m[Fetched]
  PROVE  /\ interruptRequested_m' = interruptRequested_m
         /\ interruptVectorRequested_m' = interruptVectorRequested_m
         /\ Fetched \notin {251, 243} => (enabledNow' <=> enabledNow)
         /\ Fetched = 251 => enabledNow'
         /\ Fetched = 243 => ~enabledNow'
         /\ halted_m' <=> Fetched = 118
         /\ Fetched \in {251, 243, 118} =>
              pc_m' = After(1) /\ registers_m' = registers_m /\ contents' = contents
<1>1. CASE Fetched \in Working
  <2>1. instruction.op \notin {"EI", "DI", "HLT", "OUT_d8"}
    BY <1>1, WorkingOps
  <2>2. Control(FALSE, enabledNow, FALSE)
    BY <2>1 DEF Runs, Execute
  <2>3. Fetched \notin {251, 243, 118}
    BY <1>1 DEF Working, Ordinary
  <2>4. QED
    BY <2>2, <2>3 DEF Control, Settle, enabledNow
<1>2. CASE Fetched = 251
  <2>1. instruction.op = "EI"
    BY <1>2, FlowEntries, OpNames
  <2>2. EI
    BY <2>1 DEF Runs, Execute, DataHandler
  <2>3. QED
    BY <1>2, <2>2 DEF EI, NOP, Compute, Effect, Control, Settle, enabledNow
<1>3. CASE Fetched = 243
  <2>1. instruction.op = "DI"
    BY <1>3, FlowEntries, OpNames
  <2>2. DI
    BY <2>1 DEF Runs, Execute, DataHandler
  <2>3. QED
    BY <1>3, <2>2 DEF DI, NOP, Compute, Effect, Control, Settle, enabledNow
<1>4. CASE Fetched = 118
  <2>1. instruction.op = "HLT"
    BY <1>4, DataEntries, OpNames
  <2>2. HLT
    BY <2>1 DEF Runs, Execute, DataHandler
  <2>3. QED
    <3>1. NOP /\ Control(FALSE, enabledNow, TRUE)
      BY <2>2 DEF HLT
    <3>2. halted_m' /\ (enabledNow' <=> enabledNow)
      BY <3>1 DEF Control, Settle, enabledNow
    <3>3. QED
      BY <1>4, <3>1, <3>2 DEF NOP, Compute, Effect, Control
<1>5. QED
  BY <1>1, <1>2, <1>3, <1>4

-----------------------------------------------------------------------------
\* An instruction of the program runs, with its stack where it belongs.
Works == Runs /\ StackAtTop /\ pc_m <= 120

\* SP is where the list of words ends.
StackLinked == SP = ToWord(0 - 2 * Len(frames))

\* An instruction that does not work on the stack leaves it alone.
LEMMA OrdinaryFrames ==
  ASSUME Works, Fetched \in Ordinary \ {49},
         Fetched = 118 => frames = <<>>,
         Fetched \in {50, 52} => StoredAt \subseteq DataCells
  PROVE  frames' = frames /\ StackLinked'
<1>1. ~MovesStack /\ Destinations(Fetched) \cap {"SP_high", "SP_low"} = {}
  BY OrdinaryDestinations DEF MovesStack, Ordinary
<1>2. ~StoresIntoStack
  <2>1. CASE Fetched = 118
    <3>1. Held = {}
      <4>1. 0 .. 2 * Len(frames) - 1 = {}
        BY <2>1
      <4>2. QED
        BY <4>1 DEF Held
    <3>2. QED
      BY <3>1 DEF StoresIntoStack
  <2>2. CASE Fetched \in {50, 52}
    <3>1. \A address \in StoredAt : WiredTo(address) \notin Held
      BY <2>2, StackPlace DEF DataCells, Works
    <3>2. QED
      BY <3>1 DEF StoresIntoStack
  <2>3. CASE Fetched \notin {50, 52, 118}
    <3>1. StoredAt = {}
      BY <2>3, StoresOfProgram
    <3>2. QED
      BY <3>1 DEF StoresIntoStack
  <2>4. QED
    BY <2>1, <2>2, <2>3
<1>3. FramesAfterInstruction = frames
  <2>1. /\ ~IsCall(Fetched) /\ ~IsReturn(Fetched) /\ ~IsPush(Fetched)
        /\ ~IsPop(Fetched) /\ ~IsExchange(Fetched)
    BY OrdinaryOpcodes
  <2>2. QED
    BY <1>1, <1>2, <2>1, Zenon DEF FramesAfterInstruction
<1>4. frames' = frames /\ SP' = SP
  BY <1>1, <1>3, FileKept DEF Works, Runs
<1>5. QED
  BY <1>4 DEF StackLinked, Works, StackAtTop

\* What depends on the registers and on the memory.
LEMMA SameRegisters ==
  ASSUME registers_m' = registers_m
  PROVE  Psw' = Psw /\ HL' = HL /\ SP' = SP /\ A' = A
BY DEF Psw, HL, SP, A

LEMMA SameMemory ==
  ASSUME contents' = contents, regions_m' = regions_m
  PROVE  CountByte' = CountByte /\ ResultByte' = ResultByte
<1>1. CountCell' = CountCell /\ ResultCell' = ResultCell
  BY DEF CountCell, ResultCell, RamStart
<1>2. QED
  BY <1>1 DEF CountByte, ResultByte, memoryRead

\* JMP, EI, DI and HLT.
LEMMA ControlStep ==
  ASSUME Works, Fetched \in {195, 251, 243, 118}, Fetched = 118 => frames = <<>>,
         instruction = opcodes_m[Fetched]
  PROVE  /\ frames' = frames /\ StackLinked'
         /\ Psw' = Psw /\ HL' = HL
         /\ CountByte' = CountByte /\ ResultByte' = ResultByte
         /\ pc_m' = IF Fetched = 195 THEN readNextTwoBytes ELSE After(1)
<1>1. Fetched \in Ordinary \ {49} /\ Fetched \notin {50, 52}
  BY DEF Ordinary
<1>2. frames' = frames /\ StackLinked'
  BY <1>1, OrdinaryFrames
<1>3. /\ pc_m' = IF Fetched = 195 THEN readNextTwoBytes ELSE After(1)
      /\ registers_m' = registers_m /\ contents' = contents
  <2>1. CASE Fetched = 195
    <3>1. instruction.op = "JMP_a16"
      BY <2>1, FlowEntries, OpNames
    <3>2. JMP_a16
      BY <3>1 DEF Works, Runs, Execute, DataHandler
    <3>3. QED
      BY <2>1, <3>2 DEF JMP_a16, Effect
  <2>2. CASE Fetched # 195
    BY <2>2, ProgramControl DEF Works
  <2>3. QED
    BY <2>1, <2>2
<1>4. regions_m' = regions_m
  BY DEF Works, Runs, Execute
<1>5. QED
  BY <1>2, <1>3, <1>4, SameRegisters, SameMemory

\* The flags as a byte.
Status == registers_m["F"]

\* What an instruction that leaves the stack and the memory alone keeps.
LEMMA QuietMemory ==
  ASSUME Works, StoredAt = {}
  PROVE  CountByte' = CountByte /\ ResultByte' = ResultByte
BY DataUntouched DEF Works

\* MVI A, LDA and LXI H.
LEMMA LoadStep ==
  ASSUME Works, Fetched \in {62, 58, 33}, instruction = opcodes_m[Fetched]
  PROVE  /\ frames' = frames /\ StackLinked'
         /\ CountByte' = CountByte /\ ResultByte' = ResultByte
         /\ Fetched \in {62, 58} => HL' = HL /\ Status' = Status
         /\ Fetched = 62 => pc_m' = After(2) /\ A' = readNextByte
         /\ Fetched = 58 => pc_m' = After(3) /\ A' = memoryRead(readNextTwoBytes)
         /\ Fetched = 33 => pc_m' = After(3) /\ HL' = readNextTwoBytes /\ Psw' = Psw
<1>1. Fetched \in Ordinary \ {49} /\ Fetched \notin {50, 52, 118}
  BY DEF Ordinary
<1>2. frames' = frames /\ StackLinked'
  BY <1>1, OrdinaryFrames
<1>3. StoredAt = {}
  BY <1>1, StoresOfProgram
<1>4. CountByte' = CountByte /\ ResultByte' = ResultByte
  BY <1>3, QuietMemory
<1>5. ASSUME Fetched \in {62, 58}
      PROVE  HL' = HL /\ Status' = Status
  <2>1. Destinations(Fetched) = {"A"}
    BY <1>5, OrdinaryDestinations
  <2>2. HL' = HL
    BY <2>1, FileKept DEF Works
  <2>3. "F" \in Register \ ({"A"} \cup Halves("WZ"))
    BY PairHalves DEF Register
  <2>4. Status' = Status
    BY <2>1, <2>3, StepKeeps DEF Works, Runs, Status
  <2>5. QED
    BY <2>2, <2>4
<1>6. DOMAIN registers_m = Register /\ registers_m \in File /\ "A" \in Register /\ "HL" \in CombinedRegister \ {"PSW"}
  BY DEF Works, Runs, MachineOK, File, RegisterFile, Register, CombinedRegister
<1>7. CASE Fetched = 62
  <2>1. instruction.op = "MVI_R_d8" /\ instruction.reg = "A"
    BY <1>7, DataEntries DEF OnRegister
  <2>2. MVI_R_d8("A")
    BY <2>1 DEF Works, Runs, Execute, DataHandler
  <2>3. pc_m' = After(2) /\ registers_m' = setRegister(registers_m, "A", readNextByte)
    BY <2>2, EffectCounter, EffectFile DEF MVI_R_d8
  <2>4. A' = readNextByte
    BY <1>6, <2>3 DEF A, getRegister, setRegister
  <2>5. QED
    BY <1>2, <1>4, <1>5, <1>7, <2>3, <2>4
<1>8. CASE Fetched = 58
  <2>1. instruction.op = "LDA_a16"
    BY <1>8, DataEntries DEF Plain
  <2>2. LDA_a16
    BY <2>1 DEF Works, Runs, Execute, DataHandler
  <2> DEFINE loaded == setCombinedRegister(registers_m, "WZ", readNextTwoBytes)
  <2>3. /\ pc_m' = After(3)
        /\ registers_m' = setRegister(loaded, "A", memoryRead(readNextTwoBytes))
    BY <2>2, EffectCounter, EffectFile DEF LDA_a16
  <2>4. DOMAIN loaded = Register
    BY <1>6 DEF setCombinedRegister, setRegister
  <2> HIDE DEF loaded
  <2>5. A' = memoryRead(readNextTwoBytes)
    BY <1>6, <2>3, <2>4 DEF A, getRegister, setRegister
  <2>6. QED
    BY <1>2, <1>4, <1>5, <1>8, <2>3, <2>5
<1>9. CASE Fetched = 33
  <2>1. instruction.op = "LXI_RR_d16" /\ instruction.rr = "HL"
    BY <1>9, DataEntries DEF OnPair
  <2>2. LXI_RR_d16("HL")
    BY <2>1 DEF Works, Runs, Execute, DataHandler
  <2>3. pc_m' = After(3) /\ registers_m' = setCombinedRegister(registers_m, "HL", readNextTwoBytes)
    BY <2>2, EffectCounter, EffectFile DEF LXI_RR_d16
  <2>4. readNextTwoBytes \in Word
    BY OperandsRead DEF Works, Runs
  <2>5. HL' = readNextTwoBytes
    BY <1>6, <2>3, <2>4, PairHoldsWord DEF HL
  <2>6. Destinations(Fetched) \cap {"A", "F"} = {}
    BY <1>9, OrdinaryDestinations
  <2>7. Psw' = Psw
    BY <2>6, FileKept DEF Works
  <2>8. QED
    BY <1>2, <1>4, <1>9, <2>3, <2>5, <2>7
<1>10. QED
  BY <1>7, <1>8, <1>9

\* A byte stored in a cell of data.
LEMMA StoredInData ==
  ASSUME MachineOK, regions_m' = regions_m, NEW cell \in DataCells, NEW value \in Byte,
         contents' = memoryWrite(contents, cell, value)
  PROVE  memoryRead(cell)' = value
<1>1. /\ regions_m = Mapping /\ regions_m' = Mapping /\ IsContents(contents)
      /\ cell \in Word /\ RamStart <= cell
  BY DataInRam, BoardRegions DEF MachineOK, DataCells
<1>2. RegionOf(cell) = ram /\ OffsetOf(cell) = cell - RamStart /\ Kind[ram] = "ram"
  BY <1>1, BoardRegions
<1>3. contents' = busWrite(Mapping, contents, cell, value)
  BY <1>1 DEF memoryWrite
<1>4. contents'[ram][cell - RamStart] = value
  BY <1>1, <1>2, <1>3, WriteOneCell
<1>5. busRead(Mapping, contents', cell) = value
  BY <1>1, <1>4, BoardAccess
<1>6. memoryRead(cell)' = busRead(Mapping, contents', cell)
  BY <1>1 DEF memoryRead, DataCells, CountCell, ResultCell, RamStart
<1>7. QED
  BY <1>5, <1>6

\* STA into a cell of data.
LEMMA StoreStep ==
  ASSUME Works, Fetched = 50, instruction = opcodes_m[Fetched], readNextTwoBytes \in DataCells
  PROVE  /\ frames' = frames /\ StackLinked'
         /\ Psw' = Psw /\ HL' = HL /\ pc_m' = After(3)
         /\ readNextTwoBytes = CountCell => CountByte' = A /\ ResultByte' = ResultByte
         /\ readNextTwoBytes = ResultCell => ResultByte' = A /\ CountByte' = CountByte
<1>1. Fetched \in Ordinary \ {49}
  BY DEF Ordinary
<1>2. StoredAt = {readNextTwoBytes}
  BY StoresOfProgram
<1>3. frames' = frames /\ StackLinked'
  BY <1>1, <1>2, OrdinaryFrames
<1>4. Destinations(Fetched) = {}
  BY OrdinaryDestinations
<1>5. Psw' = Psw /\ HL' = HL
  BY <1>4, FileKept DEF Works
<1>6. instruction.op = "STA_a16"
  BY DataEntries, OpNames
<1>7. STA_a16
  BY <1>6 DEF Works, Runs, Execute, DataHandler
<1>8. pc_m' = After(3) /\ contents' = memoryWrite(contents, readNextTwoBytes, A)
  BY <1>7 DEF STA_a16, Effect
<1>9. MachineOK /\ regions_m' = regions_m /\ A \in Byte
  BY OperandsRead DEF Works, Runs, Execute
<1>10. \A address \in StoredAt : RamStart <= address
  BY <1>2, DataInRam, BoardRegions DEF DataCells
<1>11. /\ CountCell \notin StoredAt => CountByte' = CountByte
       /\ ResultCell \notin StoredAt => ResultByte' = ResultByte
  BY <1>10, DataUntouched DEF Works
<1>12. \A cell \in DataCells : readNextTwoBytes = cell => memoryRead(cell)' = A
  <2> SUFFICES ASSUME NEW cell \in DataCells, readNextTwoBytes = cell
               PROVE  memoryRead(cell)' = A
    OBVIOUS
  <2>1. contents' = memoryWrite(contents, cell, A)
    BY <1>8
  <2>2. QED
    BY <1>9, <2>1, StoredInData
<1>13. CASE readNextTwoBytes = CountCell
  <2>1. CountByte' = A
    BY <1>12, <1>13 DEF DataCells, CountByte
  <2>2. ResultByte' = ResultByte
    BY <1>2, <1>11, <1>13, DataInRam
  <2>3. QED
    BY <1>3, <1>5, <1>8, <1>13, <2>1, <2>2, DataInRam
<1>14. CASE readNextTwoBytes = ResultCell
  <2>1. ResultByte' = A
    BY <1>12, <1>14 DEF DataCells, ResultByte
  <2>2. CountByte' = CountByte
    BY <1>2, <1>11, <1>14, DataInRam
  <2>3. QED
    BY <1>3, <1>5, <1>8, <1>14, <2>1, <2>2, DataInRam
<1>15. QED
  BY <1>13, <1>14 DEF DataCells

\* INR: one more.
LEMMA Incremented ==
  ASSUME NEW r \in File, NEW reg \in Register \ {"F"}
  PROVE  getRegister(Increment(r, reg, "ADD"), reg) = ToByte(r[reg] + 1)
<1>1. DOMAIN r = Register /\ r[reg] \in Byte /\ r[reg] \in Int
  BY ReadersType, ByteRange DEF File, RegisterFile
<1> DEFINE flags == aritmeticFlags(r, r[reg], 1, "ADD", FALSE, FALSE)
           sum   == aritmeticResult(r, r[reg], 1, "ADD", FALSE)
<1>2. DOMAIN flags = Register
  BY <1>1, FlagsKeep DEF Keeps
<1>3. sum = ToByte(r[reg] + 1)
  <2>1. carryValue(r, FALSE) = 0
    BY DEF carryValue
  <2>2. sum = ToByte(r[reg] + (1 + carryValue(r, FALSE)))
    BY DEF aritmeticResult
  <2> HIDE DEF sum
  <2>3. sum = ToByte(r[reg] + (1 + 0))
    BY <2>1, <2>2
  <2>4. QED
    BY <1>1, <2>3
<1>4. Increment(r, reg, "ADD") = setRegister(flags, reg, sum)
  BY DEF Increment, getRegister
<1> HIDE DEF flags, sum
<1>5. setRegister(flags, reg, sum)[reg] = sum
  BY <1>2 DEF setRegister
<1>6. QED
  BY <1>3, <1>4, <1>5 DEF getRegister

\* INR M on a cell of data.
LEMMA CountStep ==
  ASSUME Works, Fetched = 52, instruction = opcodes_m[Fetched], HL \in DataCells
  PROVE  /\ frames' = frames /\ StackLinked'
         /\ HL' = HL /\ pc_m' = After(1)
         /\ HL = CountCell => CountByte' = ToByte(CountByte + 1) /\ ResultByte' = ResultByte
         /\ HL = ResultCell => ResultByte' = ToByte(ResultByte + 1) /\ CountByte' = CountByte
<1>1. Fetched \in Ordinary \ {49}
  BY DEF Ordinary
<1>2. StoredAt = {HL}
  BY StoresOfProgram
<1>3. frames' = frames /\ StackLinked'
  BY <1>1, <1>2, OrdinaryFrames
<1>4. Destinations(Fetched) \cap {"H", "L"} = {}
  BY OrdinaryDestinations
<1>5. HL' = HL
  BY <1>4, FileKept DEF Works
<1>6. instruction.op = "INR_DCR_M" /\ instruction.kind = "ADD"
  BY DataEntries DEF StepM
<1>7. INR_DCR_M("ADD")
  BY <1>6 DEF Works, Runs, Execute, DataHandler
<1>8. /\ pc_m' = After(1)
      /\ contents' = memoryWrite(contents, HL, getRegister(Increment(loadMtoW, "W", "ADD"), "W"))
  BY <1>7 DEF INR_DCR_M, Effect
<1>9. /\ MachineOK /\ regions_m' = regions_m /\ getM \in Byte /\ loadMtoW \in File
      /\ DOMAIN registers_m = Register
  BY OperandsRead DEF Works, Runs, Execute, MachineOK, File, RegisterFile
<1>10. loadMtoW["W"] = getM /\ "W" \in Register \ {"F"}
  BY <1>9 DEF loadMtoW, setRegister, Register
<1>11. getRegister(Increment(loadMtoW, "W", "ADD"), "W") = ToByte(getM + 1)
  BY <1>9, <1>10, Incremented
<1>12. ToByte(getM + 1) \in Byte
  BY <1>9, ByteRange, Converted
<1>13. \A address \in StoredAt : RamStart <= address
  BY <1>2, DataInRam, BoardRegions DEF DataCells
<1>14. /\ CountCell \notin StoredAt => CountByte' = CountByte
       /\ ResultCell \notin StoredAt => ResultByte' = ResultByte
  BY <1>13, DataUntouched DEF Works
<1>15. \A cell \in DataCells : HL = cell => memoryRead(cell)' = ToByte(memoryRead(cell) + 1)
  <2> SUFFICES ASSUME NEW cell \in DataCells, HL = cell
               PROVE  memoryRead(cell)' = ToByte(memoryRead(cell) + 1)
    OBVIOUS
  <2>1. contents' = memoryWrite(contents, cell, ToByte(getM + 1))
    BY <1>8, <1>11
  <2>2. memoryRead(cell)' = ToByte(getM + 1)
    BY <1>9, <1>12, <2>1, StoredInData
  <2>3. QED
    BY <2>2 DEF getM
<1>16. CASE HL = CountCell
  <2>1. CountByte' = ToByte(CountByte + 1)
    BY <1>15, <1>16 DEF DataCells, CountByte
  <2>2. ResultByte' = ResultByte
    BY <1>2, <1>14, <1>16, DataInRam
  <2>3. QED
    BY <1>3, <1>5, <1>8, <1>16, <2>1, <2>2, DataInRam
<1>17. CASE HL = ResultCell
  <2>1. ResultByte' = ToByte(ResultByte + 1)
    BY <1>15, <1>17 DEF DataCells, ResultByte
  <2>2. CountByte' = CountByte
    BY <1>2, <1>14, <1>17, DataInRam
  <2>3. QED
    BY <1>3, <1>5, <1>8, <1>17, <2>1, <2>2, DataInRam
<1>18. QED
  BY <1>16, <1>17 DEF DataCells

\* An instruction that computes on the accumulator.
LEMMA ComputeStep ==
  ASSUME Works, Fetched \in {198, 206, 39, 23, 60, 175}, instruction = opcodes_m[Fetched]
  PROVE  /\ frames' = frames /\ StackLinked' /\ HL' = HL
         /\ CountByte' = CountByte /\ ResultByte' = ResultByte
         /\ pc_m' = IF Fetched \in {198, 206} THEN After(2) ELSE After(1)
<1>1. Fetched \in Ordinary \ {49} /\ Fetched \notin {50, 52, 118}
  BY DEF Ordinary
<1>2. frames' = frames /\ StackLinked'
  BY <1>1, OrdinaryFrames
<1>3. StoredAt = {}
  BY <1>1, StoresOfProgram
<1>4. CountByte' = CountByte /\ ResultByte' = ResultByte
  BY <1>3, QuietMemory
<1>5. Destinations(Fetched) \cap {"H", "L"} = {}
  BY OrdinaryDestinations
<1>6. HL' = HL
  BY <1>5, FileKept DEF Works
<1>7. CASE Fetched \in {198, 206}
  <2>1. instruction.op = "ADI_ACI_SUI_SBI_CPI_d8"
    BY <1>7, FlowEntries DEF Immediate
  <2>2. ADI_ACI_SUI_SBI_CPI_d8(instruction.kind, instruction.useCarry, instruction.storeResult)
    BY <2>1 DEF Works, Runs, Execute, DataHandler
  <2>3. pc_m' = After(2)
    BY <2>2, EffectCounter DEF ADI_ACI_SUI_SBI_CPI_d8
  <2>4. QED
    BY <1>2, <1>4, <1>6, <1>7, <2>3
<1>8. CASE Fetched \in {39, 23, 60, 175}
  <2>1. instruction.op \in {"DAA", "RLC_RRC_RAL_RAR_R", "INR_DCR_R", "ANA_ORA_XRA_R"}
    BY <1>8, DataEntries DEF Plain, RotateA, StepRegister, LogicR
  <2>2. DataHandler(instruction)
    BY <2>1 DEF Works, Runs, Execute
  <2>3. pc_m' = After(1)
    BY <2>1, <2>2, OneByteCounter DEF WordOp, ByteOp
  <2>4. QED
    BY <1>2, <1>4, <1>6, <1>8, <2>3
<1>9. QED
  BY <1>7, <1>8

-----------------------------------------------------------------------------
\* A byte of flags whose bit at shift is set, or cleared; bit 1 stays 1.
Reserved(f) == f - 2 * Bit(f, 1) + 2

On(f, shift) == Reserved(f - Weight(shift) * Bit(f, shift) + Weight(shift))

Off(f, shift) == Reserved(f - Weight(shift) * Bit(f, shift) + 0)

LEMMA BitWeights ==
  /\ Weight(0) = 1 /\ Weight(1) = 2 /\ Weight(2) = 4 /\ Weight(4) = 16
  /\ Weight(6) = 64 /\ Weight(7) = 128
BY DEF Weight

\* The bytes the program's flags go through.
LEMMA FlagBytes ==
  /\ \A shift \in {0, 2, 4, 6, 7} : Off(2, shift) = 2
  /\ On(2, 7) = 130 /\ On(130, 0) = 131
  /\ Off(131, 6) = 131 /\ Off(131, 2) = 131 /\ Off(131, 7) = 3
  /\ Off(3, 4) = 3 /\ Off(3, 0) = 2
BY BitWeights DEF On, Off, Reserved, Bit

LEMMA Shifts ==
  /\ FlagsShifts["S"] = 7 /\ FlagsShifts["Z"] = 6 /\ FlagsShifts["AC"] = 4
  /\ FlagsShifts["P"] = 2 /\ FlagsShifts["CY"] = 0
BY DEF FlagsShifts

\* Setting one flag.
LEMMA OneFlag ==
  ASSUME NEW r, DOMAIN r = Register, NEW flag, NEW value
  PROVE  /\ DOMAIN setFlag(r, flag, value) = Register
         /\ setFlag(r, flag, value)["A"] = r["A"]
         /\ value => setFlag(r, flag, value)["F"] = On(r["F"], FlagsShifts[flag])
         /\ ~value => setFlag(r, flag, value)["F"] = Off(r["F"], FlagsShifts[flag])
<1>1. DOMAIN setFlag(r, flag, value) = Register /\ setFlag(r, flag, value)["A"] = r["A"]
  BY DEF setFlag, Register
<1>2. setFlag(r, flag, value)["F"] = setBit(setBit(r["F"], FlagsShifts[flag], value), 1, TRUE)
  BY DEF setFlag, Register
<1>3. \A f : setBit(f, 1, TRUE) = Reserved(f)
  BY BitWeights DEF setBit, Reserved
<1>4. value => setBit(r["F"], FlagsShifts[flag], value)
               = r["F"] - Weight(FlagsShifts[flag]) * Bit(r["F"], FlagsShifts[flag])
                   + Weight(FlagsShifts[flag])
  BY Zenon DEF setBit
<1>5. ~value => setBit(r["F"], FlagsShifts[flag], value)
               = r["F"] - Weight(FlagsShifts[flag]) * Bit(r["F"], FlagsShifts[flag]) + 0
  BY Zenon DEF setBit
<1>6. QED
  BY <1>1, <1>2, <1>3, <1>4, <1>5, Zenon DEF On, Off

\* CY and AC in those bytes.
LEMMA FlagReads ==
  ASSUME NEW r
  PROVE  /\ r["F"] \in {2, 130} => ~getFlag(r, "CY")
         /\ r["F"] = 3 => getFlag(r, "CY")
         /\ r["F"] = 130 => ~getFlag(r, "AC")
<1>1. FlagsShifts["AC"] = 4 /\ FlagsShifts["CY"] = 0
  BY DEF FlagsShifts
<1>2. ~getBit(2, 0) /\ ~getBit(130, 0) /\ getBit(3, 0) /\ ~getBit(130, 4)
  BY BitWeights DEF getBit, Bit
<1>3. QED
  BY <1>1, <1>2 DEF getFlag, getRegister

\* The flags of the three results.
LEMMA ResultFlags ==
  ASSUME NEW r, DOMAIN r = Register, NEW value, value # 0, BitCount(value) % 2 # 0
  PROVE  /\ manageResultFlags(r, value)["A"] = r["A"]
         /\ DOMAIN manageResultFlags(r, value) = Register
         /\ value \div 128 # 0 =>
              manageResultFlags(r, value)["F"] = On(Off(Off(r["F"], 6), 2), 7)
         /\ value \div 128 = 0 =>
              manageResultFlags(r, value)["F"] = Off(Off(Off(r["F"], 6), 2), 7)
<1> DEFINE isZero == value = 0
           isEven == BitCount(value) % 2 = 0
           isHigh == value \div 128 # 0
           zero   == setFlag(r, "Z", isZero)
           even   == setFlag(zero, "P", isEven)
           result == setFlag(even, "S", isHigh)
<1>1. manageResultFlags(r, value) = result
  BY Zenon DEF manageResultFlags, manageSignedFlag, manageParityFlag, manageZeroFlag
<1>2. ~isZero /\ ~isEven
  OBVIOUS
<1>3. value \div 128 # 0 => isHigh
  OBVIOUS
<1>4. value \div 128 = 0 => ~isHigh
  OBVIOUS
<1> HIDE DEF isZero, isEven, isHigh
<1>5. /\ DOMAIN zero = Register /\ zero["A"] = r["A"]
      /\ zero["F"] = Off(r["F"], FlagsShifts["Z"])
  <2>1. /\ DOMAIN setFlag(r, "Z", isZero) = Register
        /\ setFlag(r, "Z", isZero)["A"] = r["A"]
        /\ ~isZero => setFlag(r, "Z", isZero)["F"] = Off(r["F"], FlagsShifts["Z"])
    BY OneFlag, Zenon
  <2>2. QED
    BY <2>1, <1>2, Zenon
<1> HIDE DEF zero
<1>6. /\ DOMAIN even = Register /\ even["A"] = zero["A"]
      /\ even["F"] = Off(zero["F"], FlagsShifts["P"])
  <2>1. /\ DOMAIN setFlag(zero, "P", isEven) = Register
        /\ setFlag(zero, "P", isEven)["A"] = zero["A"]
        /\ ~isEven => setFlag(zero, "P", isEven)["F"] = Off(zero["F"], FlagsShifts["P"])
    BY <1>5, OneFlag, ZenonT(40)
  <2>2. QED
    BY <2>1, <1>2, Zenon
<1> HIDE DEF even
<1>7. /\ DOMAIN result = Register /\ result["A"] = even["A"]
      /\ isHigh => result["F"] = On(even["F"], FlagsShifts["S"])
      /\ ~isHigh => result["F"] = Off(even["F"], FlagsShifts["S"])
  <2>1. DOMAIN setFlag(even, "S", isHigh) = Register
    BY <1>6, OneFlag, Zenon
  <2>2. setFlag(even, "S", isHigh)["A"] = even["A"]
    BY <1>6, OneFlag, ZenonT(40)
  <2>3. isHigh => setFlag(even, "S", isHigh)["F"] = On(even["F"], FlagsShifts["S"])
    BY <1>6, OneFlag, Zenon
  <2>4. ~isHigh => setFlag(even, "S", isHigh)["F"] = Off(even["F"], FlagsShifts["S"])
    BY <1>6, OneFlag, Zenon
  <2>5. QED
    BY <2>1, <2>2, <2>3, <2>4, Zenon
<1> HIDE DEF result
<1>8. QED
  BY <1>1, <1>3, <1>4, <1>5, <1>6, <1>7, Shifts

LEMMA ResultBytes ==
  ASSUME NEW r, DOMAIN r = Register
  PROVE  /\ r["F"] = 2 => manageResultFlags(r, 191)["F"] = 130
         /\ r["F"] = 131 => manageResultFlags(r, 37)["F"] = 3
         /\ r["F"] = 2 => manageResultFlags(r, 38)["F"] = 2
         /\ \A value \in {191, 37, 38} : /\ manageResultFlags(r, value)["A"] = r["A"]
                                         /\ DOMAIN manageResultFlags(r, value) = Register
<1>1. BitCount(191) = 7 /\ BitCount(37) = 3 /\ BitCount(38) = 3
  BY DEF BitCount, Bit, Weight
<1>2. /\ 191 \div 128 # 0 /\ 37 \div 128 = 0 /\ 38 \div 128 = 0
      /\ 191 # 0 /\ 37 # 0 /\ 38 # 0
      /\ 7 % 2 # 0 /\ 3 % 2 # 0
  OBVIOUS
<1>3. /\ manageResultFlags(r, 191)["F"] = On(Off(Off(r["F"], 6), 2), 7)
      /\ manageResultFlags(r, 191)["A"] = r["A"]
      /\ DOMAIN manageResultFlags(r, 191) = Register
  BY <1>1, <1>2, ResultFlags
<1>4. /\ manageResultFlags(r, 37)["F"] = Off(Off(Off(r["F"], 6), 2), 7)
      /\ manageResultFlags(r, 37)["A"] = r["A"]
      /\ DOMAIN manageResultFlags(r, 37) = Register
  BY <1>1, <1>2, ResultFlags
<1>5. /\ manageResultFlags(r, 38)["F"] = Off(Off(Off(r["F"], 6), 2), 7)
      /\ manageResultFlags(r, 38)["A"] = r["A"]
      /\ DOMAIN manageResultFlags(r, 38) = Register
  BY <1>1, <1>2, ResultFlags
<1>6. QED
  BY <1>3, <1>4, <1>5, FlagBytes
\* The carry that goes in.
LEMMA CarryIn ==
  ASSUME NEW r
  PROVE  /\ carryValue(r, FALSE) = 0
         /\ getFlag(r, "CY") => carryValue(r, TRUE) = 1
BY Zenon DEF carryValue

\* The two carries of an addition that carries nothing.
LEMMA NoHalfCarry ==
  ASSUME NEW r, DOMAIN r = Register, NEW first, NEW second, NEW useCarry,
         ~((first % 16) + (second % 16) + carryValue(r, useCarry) > 15)
  PROVE  /\ DOMAIN manageAuxilaryCarryFlag(r, first, second, "ADD", useCarry) = Register
         /\ manageAuxilaryCarryFlag(r, first, second, "ADD", useCarry)["F"] = Off(r["F"], 4)
<1> DEFINE isHalf == IF "ADD" = "ADD"
                       THEN (first % 16) + (second % 16) + carryValue(r, useCarry) > 15
                       ELSE first % 16 < (second % 16) + carryValue(r, useCarry)
<1>1. manageAuxilaryCarryFlag(r, first, second, "ADD", useCarry) = setFlag(r, "AC", isHalf)
  BY Zenon DEF manageAuxilaryCarryFlag
<1>2. ~isHalf
  OBVIOUS
<1> HIDE DEF isHalf
<1>3. /\ DOMAIN setFlag(r, "AC", isHalf) = Register
      /\ ~isHalf => setFlag(r, "AC", isHalf)["F"] = Off(r["F"], FlagsShifts["AC"])
  BY OneFlag, Zenon
<1>4. FlagsShifts["AC"] = 4
  BY Shifts
<1>5. QED
  BY <1>1, <1>2, <1>3, <1>4, Zenon

LEMMA NoCarry ==
  ASSUME NEW r, DOMAIN r = Register, NEW first, NEW second, NEW useCarry,
         ~(first + second + carryValue(r, useCarry) > 255)
  PROVE  /\ DOMAIN manageCarryFlag(r, first, second, "ADD", useCarry) = Register
         /\ manageCarryFlag(r, first, second, "ADD", useCarry)["F"] = Off(r["F"], 0)
<1> DEFINE isCarry == IF "ADD" = "ADD"
                        THEN first + second + carryValue(r, useCarry) > 255
                        ELSE first < second + carryValue(r, useCarry)
<1>1. manageCarryFlag(r, first, second, "ADD", useCarry) = setFlag(r, "CY", isCarry)
  BY Zenon DEF manageCarryFlag
<1>2. ~isCarry
  OBVIOUS
<1> HIDE DEF isCarry
<1>3. /\ DOMAIN setFlag(r, "CY", isCarry) = Register
      /\ ~isCarry => setFlag(r, "CY", isCarry)["F"] = Off(r["F"], FlagsShifts["CY"])
  BY OneFlag, Zenon
<1>4. FlagsShifts["CY"] = 0
  BY Shifts
<1>5. QED
  BY <1>1, <1>2, <1>3, <1>4, Zenon

\* The values the accumulator and the flags take in the main program.
Acc1 == 88
Acc2 == 191
Acc3 == 37
Acc4 == 38
Acc5 == 76
Flags1 == 2
Flags2 == 130
Flags3 == 3
Addend == 103
Nothing == 0

\* ADI 67h and ACI 0, on the flags they find.
LEMMA Added ==
  ASSUME NEW r, DOMAIN r = Register, NEW reg, NEW useCarry, NEW storeResult, storeResult
  PROVE  /\ r["A"] = Acc1 /\ r[reg] = Addend /\ r["F"] = Flags1 /\ ~useCarry =>
              LET s == AccumulatorArithmetic(r, reg, "ADD", useCarry, storeResult)
              IN  s["A"] = Acc2 /\ s["F"] = Flags2
         /\ r["A"] = Acc3 /\ r[reg] = Nothing /\ r["F"] = Flags3 /\ useCarry =>
              LET s == AccumulatorArithmetic(r, reg, "ADD", useCarry, storeResult)
              IN  s["A"] = Acc4 /\ s["F"] = Flags1
<1> DEFINE a   == getRegister(r, "A")
           b   == getRegister(r, reg)
           yes == TRUE
           f   == aritmeticFlags(r, a, b, "ADD", useCarry, yes)
           sum == aritmeticResult(r, a, b, "ADD", useCarry)
           s   == AccumulatorArithmetic(r, reg, "ADD", useCarry, storeResult)
           h   == manageAuxilaryCarryFlag(r, a, b, "ADD", useCarry)
<1>1. s = setRegister(f, "A", sum)
  BY Zenon DEF AccumulatorArithmetic
<1>2. yes
  OBVIOUS
<1> HIDE DEF s, yes
<1>3. DOMAIN f = Register => s["A"] = sum /\ s["F"] = f["F"]
  BY <1>1 DEF setRegister, Register
<1>4. ASSUME NEW c, carryValue(r, useCarry) = c,
             DOMAIN h = Register => carryValue(h, useCarry) = c,
             ~((a % 16) + (b % 16) + c > 15), ~(a + b + c > 255)
      PROVE  \E t : /\ DOMAIN t = Register /\ t["F"] = Off(Off(r["F"], 4), 0)
                    /\ f = manageResultFlags(t, ToByte(a + (b + c)))
                    /\ sum = ToByte(a + (b + c))
  <2> HIDE DEF a, b
  <2> DEFINE t == manageCarryFlag(h, a, b, "ADD", useCarry)
  <2>1. sum = ToByte(a + (b + c))
    BY <1>4, Zenon DEF aritmeticResult
  <2>2. f = manageResultFlags(t, sum)
    BY <1>2, Zenon DEF aritmeticFlags
  <2>3. DOMAIN h = Register /\ h["F"] = Off(r["F"], 4)
    <3>1. ~((a % 16) + (b % 16) + carryValue(r, useCarry) > 15)
      BY <1>4, Zenon
    <3>2. QED
      BY <3>1, NoHalfCarry, Zenon
  <2> HIDE DEF h
  <2>4. DOMAIN t = Register /\ t["F"] = Off(h["F"], 0)
    <3>1. ~(a + b + carryValue(h, useCarry) > 255)
      BY <1>4, <2>3, Zenon
    <3>2. QED
      BY <2>3, <3>1, NoCarry, Zenon
  <2> HIDE DEF t, f, sum
  <2>5. QED
    BY <2>1, <2>2, <2>3, <2>4, Zenon
<1>5. ASSUME r["A"] = 88, r[reg] = 103, r["F"] = 2, ~useCarry
      PROVE  s["A"] = 191 /\ s["F"] = 130
  <2>1. carryValue(r, useCarry) = 0 /\ carryValue(h, useCarry) = 0
    BY <1>5, Zenon DEF carryValue
  <2>2. a = 88 /\ b = 103
    BY <1>5, Zenon DEF getRegister
  <2>3. ~((a % 16) + (b % 16) + 0 > 15) /\ ~(a + b + 0 > 255) /\ ToByte(a + (b + 0)) = 191
    BY <2>2 DEF ToByte
  <2> HIDE DEF f, sum, h, a, b
  <2>4. PICK t : /\ DOMAIN t = Register /\ t["F"] = Off(Off(r["F"], 4), 0)
                 /\ f = manageResultFlags(t, ToByte(a + (b + 0)))
                 /\ sum = ToByte(a + (b + 0))
    BY <1>4, <2>1, <2>3, Zenon
  <2>5. t["F"] = 2
    BY <1>5, <2>4, FlagBytes
  <2>6. f["F"] = 130 /\ DOMAIN f = Register
    BY <2>3, <2>4, <2>5, ResultBytes
  <2>7. QED
    BY <1>3, <2>3, <2>4, <2>6, Zenon
<1>6. ASSUME r["A"] = 37, r[reg] = 0, r["F"] = 3, useCarry
      PROVE  s["A"] = 38 /\ s["F"] = 2
  <2>1. carryValue(r, useCarry) = 1
    BY <1>6, FlagReads, Zenon DEF carryValue
  <2>2. a = 37 /\ b = 0
    BY <1>6, Zenon DEF getRegister
  <2>3. ~((a % 16) + (b % 16) + 1 > 15) /\ ~(a + b + 1 > 255) /\ ToByte(a + (b + 1)) = 38
    BY <2>2 DEF ToByte
  <2> HIDE DEF f, sum, a, b
  <2>4. h["F"] = Off(r["F"], 4)
    <3>1. ~((a % 16) + (b % 16) + carryValue(r, useCarry) > 15)
      BY <2>1, <2>3, Zenon
    <3>2. QED
      BY <3>1, NoHalfCarry, Zenon
  <2>5. h["F"] = 3
    <3>1. Off(3, 4) = 3
      BY FlagBytes, Zenon
    <3>2. QED
      BY <1>6, <2>4, <3>1, Zenon
  <2>6. carryValue(h, useCarry) = 1
    BY <1>6, <2>5, FlagReads, Zenon DEF carryValue
  <2> HIDE DEF h
  <2>7. PICK t : /\ DOMAIN t = Register /\ t["F"] = Off(Off(r["F"], 4), 0)
                 /\ f = manageResultFlags(t, ToByte(a + (b + 1)))
                 /\ sum = ToByte(a + (b + 1))
    BY <1>4, <2>1, <2>3, <2>6, Zenon
  <2>8. t["F"] = 2
    BY <1>6, <2>7, FlagBytes
  <2>9. f["F"] = 2 /\ DOMAIN f = Register
    BY <2>3, <2>7, <2>8, ResultBytes
  <2>10. QED
    BY <1>3, <2>3, <2>7, <2>9, Zenon
<1>7. QED
  BY <1>5, <1>6, Zenon
       DEF s, Acc1, Acc2, Acc3, Acc4, Flags1, Flags2, Flags3, Addend, Nothing

LEMMA AddedPlain ==
  ASSUME NEW r, DOMAIN r = Register, NEW reg, NEW useCarry, NEW storeResult, storeResult,
         r["A"] = Acc1, r[reg] = Addend, r["F"] = Flags1, ~useCarry
  PROVE  /\ AccumulatorArithmetic(r, reg, "ADD", useCarry, storeResult)["A"] = Acc2
         /\ AccumulatorArithmetic(r, reg, "ADD", useCarry, storeResult)["F"] = Flags2
BY Added, Zenon

LEMMA AddedCarry ==
  ASSUME NEW r, DOMAIN r = Register, NEW reg, NEW useCarry, NEW storeResult, storeResult,
         r["A"] = Acc3, r[reg] = Nothing, r["F"] = Flags3, useCarry
  PROVE  /\ AccumulatorArithmetic(r, reg, "ADD", useCarry, storeResult)["A"] = Acc4
         /\ AccumulatorArithmetic(r, reg, "ADD", useCarry, storeResult)["F"] = Flags1
BY Added, Zenon

\* Setting CY.
LEMMA CarrySet ==
  \A r, value : DOMAIN r = Register =>
    /\ DOMAIN setFlag(r, "CY", value) = Register
    /\ setFlag(r, "CY", value)["A"] = r["A"]
    /\ value => setFlag(r, "CY", value)["F"] = On(r["F"], 0)
    /\ ~value => setFlag(r, "CY", value)["F"] = Off(r["F"], 0)
<1> TAKE r, value
<1> HAVE DOMAIN r = Register
<1>1. /\ DOMAIN setFlag(r, "CY", value) = Register
      /\ setFlag(r, "CY", value)["A"] = r["A"]
      /\ value => setFlag(r, "CY", value)["F"] = On(r["F"], FlagsShifts["CY"])
      /\ ~value => setFlag(r, "CY", value)["F"] = Off(r["F"], FlagsShifts["CY"])
  BY OneFlag, Zenon
<1>2. FlagsShifts["CY"] = 0
  BY Shifts
<1>3. QED
  BY <1>1, <1>2, Zenon

\* A file with its carry set.
Carried(r) == setFlag(r, "CY", TRUE)

LEMMA CarriedFlag ==
  ASSUME NEW r, DOMAIN r = Register
  PROVE  DOMAIN Carried(r) = Register /\ Carried(r)["A"] = r["A"] /\ Carried(r)["F"] = On(r["F"], 0)
BY CarrySet, Zenon DEF Carried

\* DAA on what ADI 67h left.
LEMMA Adjusted ==
  ASSUME NEW r, DOMAIN r = Register, r["A"] = 191, r["F"] = 130
  PROVE  DecimalAdjust(r)["A"] = 37 /\ DecimalAdjust(r)["F"] = 3
<1> DEFINE t == setRegister(r, "A", 37)
<1>1. DOMAIN t = Register /\ t["A"] = 37 /\ t["F"] = 130
  BY DEF setRegister, Register
<1>2. 191 % 16 > 9 /\ ToByte(191 + 6) = 197 /\ 197 \div 16 > 9 /\ ToByte(197 + 96) = 37
  BY DEF ToByte
<1>3. DaaLow(r) = 197
  BY <1>2, Zenon DEF DaaLow, getRegister
<1>4. DaaCarry(r) = TRUE
  BY <1>2, <1>3 DEF DaaCarry
<1>5. DecimalAdjust(r) = manageResultFlags(Carried(t), 37)
  BY <1>2, <1>3, <1>4, ZenonT(40) DEF DecimalAdjust, Carried
<1> HIDE DEF t
<1>6. /\ DOMAIN Carried(t) = Register /\ Carried(t)["A"] = 37
      /\ Carried(t)["F"] = On(130, 0)
  BY <1>1, CarriedFlag
<1>7. Carried(t)["F"] = 131
  BY <1>6, FlagBytes
<1>8. manageResultFlags(Carried(t), 37)["A"] = 37 /\ manageResultFlags(Carried(t), 37)["F"] = 3
  BY <1>6, <1>7, ResultBytes
<1>9. QED
  BY <1>5, <1>8

\* RAL on what ACI 0 left.
LEMMA Rotated ==
  ASSUME NEW r, DOMAIN r = Register, r["A"] = Acc4, r["F"] = Flags1,
         NEW rotateThrough, rotateThrough
  PROVE  /\ Rotate(r, "A", "LEFT", rotateThrough)["A"] = Acc5
         /\ Rotate(r, "A", "LEFT", rotateThrough)["F"] = Flags1
<1> DEFINE exitBit  == getBit(38, 7)
           entryBit == getFlag(r, "CY")
           t        == setFlag(r, "CY", exitBit)
<1>1. getRegister(r, "A") = 38 /\ r["F"] = 2
  BY DEF getRegister, Acc4, Flags1
<1>2. exitBitPosition("LEFT") = 7 /\ entryBitPosition("LEFT") = 0
  BY Zenon DEF exitBitPosition, entryBitPosition
<1>3. ToByte(2 * 38) = 76
  BY DEF ToByte
<1>4. Rotate(r, "A", "LEFT", rotateThrough) = setRegister(t, "A", setBit(76, 0, entryBit))
  BY <1>1, <1>2, <1>3, Zenon DEF Rotate
<1>5. ~exitBit
  BY BitWeights DEF getBit, Bit
<1>6. ~entryBit
  BY <1>1, FlagReads
<1> HIDE DEF exitBit, entryBit
<1>7. setBit(76, 0, entryBit) = 76 - Weight(0) * Bit(76, 0) + 0
  BY <1>6, Zenon DEF setBit
<1>8. setBit(76, 0, entryBit) = 76
  BY <1>7, BitWeights DEF Bit
<1>9. DOMAIN t = Register /\ t["F"] = Off(r["F"], 0)
  BY <1>5, CarrySet
<1>10. t["F"] = 2
  BY <1>1, <1>9, FlagBytes
<1> HIDE DEF t
<1>11. setRegister(t, "A", 76)["A"] = 76 /\ setRegister(t, "A", 76)["F"] = t["F"]
  BY <1>9 DEF setRegister, Register
<1>12. QED
  BY <1>4, <1>8, <1>10, <1>11, Zenon DEF Acc5, Flags1

-----------------------------------------------------------------------------
\* The accumulator and the flags, apart and together.
LEMMA PswHalves ==
  ASSUME MachineOK
  PROVE  /\ Psw = Combine(A, Status) /\ A \in Byte /\ Status \in Byte
         /\ \A a, f \in Byte : Psw = Combine(a, f) => A = a /\ Status = f
<1>1. A \in Byte /\ Status \in Byte
  BY ReadersType DEF MachineOK, A, Status, Register
<1>2. Psw = Combine(A, Status)
  BY DEF Psw, A, Status, getCombinedRegister, getRegister, RegisterPairs
<1>3. \A a, f, b, g \in Byte : Combine(a, f) = Combine(b, g) => a = b /\ f = g
  BY ByteRange DEF Combine
<1>4. QED
  BY <1>1, <1>2, <1>3, Zenon

\* The same after a step.
LEMMA NextPsw == Psw' = Combine(A', Status')
BY DEF Psw, A, Status, getCombinedRegister, getRegister, RegisterPairs

\* What the program's instructions compute, on the values they find: ADI 67h
\* and ACI 0.
LEMMA AddStep ==
  ASSUME Works, instruction = opcodes_m[Fetched]
  PROVE  /\ Fetched = 198 /\ Psw = Combine(88, 2) /\ readNextByte = 103 =>
              Psw' = Combine(191, 130)
         /\ Fetched = 206 /\ Psw = Combine(37, 3) /\ readNextByte = 0 =>
              Psw' = Combine(38, 2)
<1> DEFINE r == setRegister(registers_m, "W", readNextByte)
<1>1. MachineOK /\ DOMAIN registers_m = Register
  BY DEF Works, Runs, MachineOK, File, RegisterFile
<1>2. DOMAIN r = Register /\ r["A"] = A /\ r["F"] = Status /\ r["W"] = readNextByte
  BY <1>1 DEF setRegister, Register, A, getRegister, Status
<1>3. instruction.op = "ADI_ACI_SUI_SBI_CPI_d8" =>
        ADI_ACI_SUI_SBI_CPI_d8(instruction.kind, instruction.useCarry, instruction.storeResult)
  BY DEF Works, Runs, Execute, DataHandler
<1>4. instruction.op = "ADI_ACI_SUI_SBI_CPI_d8" =>
        registers_m' = AccumulatorArithmetic(r, "W", instruction.kind, instruction.useCarry,
                                             instruction.storeResult)
  BY <1>3 DEF ADI_ACI_SUI_SBI_CPI_d8, Compute, Effect
<1> HIDE DEF r
<1>5. 88 \in Byte /\ 2 \in Byte /\ 37 \in Byte /\ 3 \in Byte
  BY ByteRange
<1>6. ASSUME Fetched = 198, Psw = Combine(88, 2), readNextByte = 103
      PROVE  Psw' = Combine(191, 130)
  <2>1. r["A"] = Acc1 /\ r["F"] = Flags1 /\ r["W"] = Addend
    BY <1>1, <1>2, <1>5, <1>6, PswHalves DEF Acc1, Flags1, Addend
  <2>2. instruction = Immediate("ADD", FALSE, TRUE)
    BY <1>6, FlowEntries, Zenon
  <2>3. /\ instruction.op = "ADI_ACI_SUI_SBI_CPI_d8" /\ instruction.kind = "ADD"
        /\ ~instruction.useCarry /\ instruction.storeResult
    BY <2>2 DEF Immediate
  <2>4. \E f, u, t : /\ f = r /\ t /\ ~u
                     /\ registers_m' = AccumulatorArithmetic(f, "W", "ADD", u, t)
    BY <1>4, <2>3, Zenon
  <2>5. PICK f, u, t : /\ f = r /\ t /\ ~u
                       /\ registers_m' = AccumulatorArithmetic(f, "W", "ADD", u, t)
    BY <2>4, Zenon
  <2>6. DOMAIN f = Register /\ f["A"] = Acc1 /\ f["F"] = Flags1 /\ f["W"] = Addend
    BY <1>2, <2>1, <2>5, Zenon
  <2>7. registers_m'["A"] = Acc2 /\ registers_m'["F"] = Flags2
    BY <2>5, <2>6, AddedPlain, Zenon
  <2>8. A' = 191 /\ Status' = 130
    BY <2>7 DEF A, Status, getRegister, Acc2, Flags2
  <2>9. QED
    BY <2>8, NextPsw
<1>7. ASSUME Fetched = 206, Psw = Combine(37, 3), readNextByte = 0
      PROVE  Psw' = Combine(38, 2)
  <2>1. r["A"] = Acc3 /\ r["F"] = Flags3 /\ r["W"] = Nothing
    BY <1>1, <1>2, <1>5, <1>7, PswHalves DEF Acc3, Flags3, Nothing
  <2>2. instruction = Immediate("ADD", TRUE, TRUE)
    BY <1>7, FlowEntries, Zenon
  <2>3. /\ instruction.op = "ADI_ACI_SUI_SBI_CPI_d8" /\ instruction.kind = "ADD"
        /\ instruction.useCarry /\ instruction.storeResult
    BY <2>2 DEF Immediate
  <2>4. \E f, u, t : /\ f = r /\ t /\ u
                     /\ registers_m' = AccumulatorArithmetic(f, "W", "ADD", u, t)
    BY <1>4, <2>3, Zenon
  <2>5. PICK f, u, t : /\ f = r /\ t /\ u
                       /\ registers_m' = AccumulatorArithmetic(f, "W", "ADD", u, t)
    BY <2>4, Zenon
  <2>6. DOMAIN f = Register /\ f["A"] = Acc3 /\ f["F"] = Flags3 /\ f["W"] = Nothing
    BY <1>2, <2>1, <2>5, Zenon
  <2>7. registers_m'["A"] = Acc4 /\ registers_m'["F"] = Flags1
    BY <2>5, <2>6, AddedCarry, Zenon
  <2>8. A' = 38 /\ Status' = 2
    BY <2>7 DEF A, Status, getRegister, Acc4, Flags1
  <2>9. QED
    BY <2>8, NextPsw
<1>8. QED
  BY <1>6, <1>7

\* DAA, RAL and INR A.
LEMMA AdjustStep ==
  ASSUME Works, Fetched = 39, instruction = opcodes_m[Fetched], Psw = Combine(191, 130)
  PROVE  Psw' = Combine(37, 3)
<1>1. MachineOK /\ DOMAIN registers_m = Register
  BY DEF Works, Runs, MachineOK, File, RegisterFile
<1>2. 191 \in Byte /\ 130 \in Byte
  BY ByteRange
<1>3. registers_m["A"] = 191 /\ registers_m["F"] = 130
  BY <1>1, <1>2, PswHalves DEF A, Status, getRegister
<1>4. instruction.op = "DAA"
  BY DataEntries DEF Plain
<1>5. DAA
  BY <1>4 DEF Works, Runs, Execute, DataHandler
<1>6. registers_m' = DecimalAdjust(registers_m)
  BY <1>5, EffectFile DEF DAA
<1>7. registers_m'["A"] = 37 /\ registers_m'["F"] = 3
  BY <1>1, <1>3, <1>6, Adjusted
<1>8. A' = 37 /\ Status' = 3
  BY <1>7 DEF A, Status, getRegister
<1>9. QED
  BY <1>8, NextPsw

LEMMA RotateStep ==
  ASSUME Works, Fetched = 23, instruction = opcodes_m[Fetched], Psw = Combine(38, 2)
  PROVE  Psw' = Combine(76, 2)
<1> DEFINE i == instruction
<1>1. MachineOK /\ DOMAIN registers_m = Register
  BY DEF Works, Runs, MachineOK, File, RegisterFile
<1>2. 38 \in Byte /\ 2 \in Byte
  BY ByteRange
<1>3. registers_m["A"] = 38 /\ registers_m["F"] = 2
  BY <1>1, <1>2, PswHalves DEF A, Status, getRegister
<1>4. /\ i.op = "RLC_RRC_RAL_RAR_R" /\ i.reg = "A" /\ i.direction = "LEFT"
      /\ i.rotateThrough
  <2>1. i = RotateA("LEFT", TRUE)
    BY DataEntries, Zenon
  <2>2. QED
    BY <2>1 DEF RotateA
<1>5. RLC_RRC_RAL_RAR_R("A", "LEFT", i.rotateThrough)
  BY <1>4 DEF Works, Runs, Execute, DataHandler
<1>6. registers_m' = Rotate(registers_m, "A", "LEFT", i.rotateThrough)
  BY <1>5 DEF RLC_RRC_RAL_RAR_R, Compute, Effect
<1> HIDE DEF i
<1>7. registers_m'["A"] = Acc5 /\ registers_m'["F"] = Flags1
  <2>1. registers_m["A"] = Acc4 /\ registers_m["F"] = Flags1
    BY <1>3 DEF Acc4, Flags1
  <2>2. QED
    BY <1>1, <1>4, <1>6, <2>1, Rotated, Zenon
<1>8. A' = 76 /\ Status' = 2
  BY <1>7 DEF A, Status, getRegister, Acc5, Flags1
<1>9. QED
  BY <1>8, NextPsw

LEMMA OneMoreStep ==
  ASSUME Works, Fetched = 60, instruction = opcodes_m[Fetched]
  PROVE  A' = ToByte(A + 1)
<1>1. registers_m \in File /\ "A" \in Register \ {"F"}
  BY DEF Works, Runs, MachineOK, Register
<1>2. instruction.op = "INR_DCR_R" /\ instruction.reg = "A" /\ instruction.kind = "ADD"
  BY DataEntries DEF StepRegister
<1>3. INR_DCR_R("A", "ADD")
  BY <1>2 DEF Works, Runs, Execute, DataHandler
<1>4. registers_m' = Increment(registers_m, "A", "ADD")
  BY <1>3, EffectFile DEF INR_DCR_R
<1>5. getRegister(Increment(registers_m, "A", "ADD"), "A") = ToByte(registers_m["A"] + 1)
  BY <1>1, Incremented
<1>6. QED
  BY <1>4, <1>5 DEF A, getRegister

-----------------------------------------------------------------------------
\* Stores in the cells a word is pushed on.
LEMMA RoomKeepsData ==
  ASSUME Works, 2 * Len(frames) + 6 <= RamSize,
         StoredAt = {ToWord(SP - 1), ToWord(SP - 2)}
  PROVE  CountByte' = CountByte /\ ResultByte' = ResultByte
<1>1. /\ RamStart + 4 <= ToWord(SP - 1) /\ RamStart + 4 <= ToWord(SP - 2)
      /\ CountCell \notin StoredAt /\ ResultCell \notin StoredAt
  BY RoomToPush DEF Works
<1>2. \A address \in StoredAt : RamStart <= address
  <2>1. ToWord(SP - 1) \in Int /\ ToWord(SP - 2) \in Int /\ RamStart \in Int
    <3>1. SP \in Int
      BY OperandsRead, WordRange DEF Works, Runs
    <3>2. QED
      BY <3>1, BoardRegions, WordRange DEF ToWord
  <2>2. QED
    BY <1>1, <2>1
<1>3. QED
  BY <1>1, <1>2, DataUntouched DEF Works

\* One word more on the list.
LEMMA OneLonger ==
  ASSUME StackAtTop, 2 * Len(frames) + 6 <= RamSize, NEW word, SP' = ToWord(SP - 2),
         frames' = Grown(word)
  PROVE  frames' = <<word>> \o frames /\ StackLinked' /\ Len(frames') = Len(frames) + 1
<1>1. frames' = <<word>> \o frames
  BY RoomToPush
<1>2. Len(frames') = Len(frames) + 1
  <2>1. frames \in Seq(Word)
    BY StackPlace
  <2>2. QED
    BY <1>1, <2>1
<1>3. SP' = ToWord(0 - 2 * (Len(frames) + 1))
  BY RoomToPush
<1>4. QED
  BY <1>1, <1>2, <1>3 DEF StackLinked

\* PUSH.
LEMMA PushStep ==
  ASSUME Works, Fetched \in {245, 229}, instruction = opcodes_m[Fetched],
         2 * Len(frames) + 6 <= RamSize
  PROVE  /\ Fetched = 245 => frames' = <<Psw>> \o frames
         /\ Fetched = 229 => frames' = <<HL>> \o frames
         /\ StackLinked' /\ Psw' = Psw /\ HL' = HL /\ pc_m' = After(1)
         /\ CountByte' = CountByte /\ ResultByte' = ResultByte
<1>1. IsPush(Fetched) /\ Fetched \in Byte
  <2>1. CASE Fetched = 245
    BY <2>1, StackOpcodesOfProgram, ByteRange
  <2>2. CASE Fetched = 229
    BY <2>2, StackOpcodesOfProgram, ByteRange
  <2>3. QED
    BY <2>1, <2>2
<1>2. PUSH_RR(StackPair(Fetched))
  BY <1>1, StackInstruction DEF Works, Runs
<1>3. registers_m' = setCombinedRegister(registers_m, "SP", ToWord(SP - 2)) /\ pc_m' = After(1)
  <2>1. registers_m' = setCombinedRegister(registers_m, "SP", ToWord(SP - 2))
    BY <1>2, EffectFile, Zenon DEF PUSH_RR
  <2>2. pc_m' = After(1)
    BY <1>2, Zenon DEF PUSH_RR, Effect
  <2>3. QED
    BY <2>1, <2>2
<1>4. SP' = ToWord(SP - 2)
  <2>1. ToWord(SP - 2) \in Word
    <3>1. SP \in Int
      BY OperandsRead, WordRange DEF Works, Runs
    <3>2. SP - 2 \in Int
      BY <3>1
    <3>3. QED
      BY <3>2, WrapsOnce
  <2>2. "SP" \in CombinedRegister \ {"PSW"} /\ registers_m \in File
    BY DEF Works, Runs, MachineOK, CombinedRegister
  <2>3. getCombinedRegister(registers_m', "SP") = ToWord(SP - 2)
    BY <1>3, <2>1, <2>2, PairHoldsWord
  <2>4. QED
    BY <2>3 DEF SP
<1>5. frames' = Grown(getCombinedRegister(registers_m, StackPair(Fetched)))
  BY <1>1, StackOpcodes, ZenonT(40) DEF Works, Runs, FramesAfterInstruction
<1>6. frames' = <<getCombinedRegister(registers_m, StackPair(Fetched))>> \o frames /\ StackLinked'
  BY <1>4, <1>5, OneLonger DEF Works
<1>7. /\ Fetched = 245 => frames' = <<Psw>> \o frames
      /\ Fetched = 229 => frames' = <<HL>> \o frames
  BY <1>6, StackOpcodesOfProgram DEF Psw, HL
<1>8. Psw' = Psw /\ HL' = HL
  <2>1. Destinations(Fetched) = {"SP_high", "SP_low"}
    BY StackDestinations, PairHalves
  <2>2. QED
    BY <2>1, FileKept DEF Works
<1>9. CountByte' = CountByte /\ ResultByte' = ResultByte
  BY StoresOfProgram, RoomKeepsData
<1>10. QED
  BY <1>3, <1>6, <1>7, <1>8, <1>9

\* A word that is taken off the list.
LEMMA OneShorter ==
  ASSUME StackAtTop, frames # <<>>, SP' = ToWord(SP + 2), frames' = Tail(frames)
  PROVE  StackLinked' /\ Len(frames') = Len(frames) - 1
<1>1. frames \in Seq(Word) /\ Len(frames) \in Nat
  BY StackPlace
<1>2. Len(frames') = Len(frames) - 1
  BY <1>1
<1>3. ToWord(SP + 2) = ToWord(0 - 2 * Len(frames) + 2)
  <2>1. 0 - 2 * Len(frames) \in Int
    BY <1>1
  <2>2. QED
    BY <2>1, WrapsOnce DEF StackAtTop
<1>4. 0 - 2 * (Len(frames) - 1) = 0 - 2 * Len(frames) + 2
  BY <1>1
<1>5. QED
  BY <1>2, <1>3, <1>4 DEF StackLinked

\* What comes back from the stack into the accumulator and the flags is what
\* went there: bit 1 was set.
LEMMA FlagsComeBack ==
  ASSUME NEW word \in Word, getBit(word, 1)
  PROVE  Filled("PSW", word) = word
BY WordRange DEF Filled, setBit, getBit, Bit, Weight

\* POP.
LEMMA PopStep ==
  ASSUME Works, Fetched \in {241, 225}, instruction = opcodes_m[Fetched], frames # <<>>
  PROVE  /\ frames' = Tail(frames) /\ StackLinked' /\ pc_m' = After(1)
         /\ Fetched = 241 => HL' = HL /\ (getBit(Head(frames), 1) => Psw' = Head(frames))
         /\ Fetched = 225 => Psw' = Psw /\ HL' = Head(frames)
         /\ CountByte' = CountByte /\ ResultByte' = ResultByte
<1>1. IsPop(Fetched) /\ Fetched \in Byte
  <2>1. CASE Fetched = 241
    BY <2>1, StackOpcodesOfProgram, ByteRange
  <2>2. CASE Fetched = 225
    BY <2>2, StackOpcodesOfProgram, ByteRange
  <2>3. QED
    BY <2>1, <2>2
<1>2. MachineOK /\ Execute /\ StackInv /\ readTwoBytes(SP) = Head(frames)
  BY TopRead DEF Works, Runs
<1>3. POP_RR(StackPair(Fetched))
  BY <1>1, <1>2, StackInstruction
<1>4. StackPair(Fetched) \in CombinedRegister \ {"SP"}
  BY <1>1, <1>2, StackInstruction DEF IsPop
<1>5. registers_m' = Popped(StackPair(Fetched))
  BY <1>3, Zenon DEF POP_RR, Compute, Effect
<1>6. pc_m' = After(1)
  BY <1>3, Zenon DEF POP_RR, Compute, Effect
<1>7. /\ SP' = ToWord(SP + 2)
      /\ getCombinedRegister(registers_m', StackPair(Fetched))
           = Filled(StackPair(Fetched), Head(frames))
  BY <1>2, <1>4, <1>5, PopFills DEF SP
<1>8. frames' = Tail(frames)
  BY <1>1, StackOpcodes, ZenonT(40) DEF Works, Runs, FramesAfterInstruction, Shrunk
<1>9. StackLinked'
  BY <1>7, <1>8, OneShorter DEF Works
<1>10. CountByte' = CountByte /\ ResultByte' = ResultByte
  BY StoresOfProgram, QuietMemory
<1>11. CASE Fetched = 241
  <2>1. Destinations(Fetched) = {"SP_high", "SP_low", "A", "F"}
    BY <1>11, StackDestinations, PairHalves
  <2>2. HL' = HL
    BY <2>1, FileKept DEF Works
  <2>3. Psw' = Filled("PSW", Head(frames))
    BY <1>7, <1>11, StackOpcodesOfProgram DEF Psw
  <2>4. Head(frames) \in Word
    BY StackPlace DEF Works
  <2>5. getBit(Head(frames), 1) => Psw' = Head(frames)
    BY <2>3, <2>4, FlagsComeBack
  <2>6. QED
    BY <1>6, <1>8, <1>9, <1>10, <1>11, <2>2, <2>5
<1>12. CASE Fetched = 225
  <2>1. Destinations(Fetched) = {"SP_high", "SP_low", "H", "L"}
    BY <1>12, StackDestinations, PairHalves
  <2>2. Psw' = Psw
    BY <2>1, FileKept DEF Works
  <2>3. HL' = Head(frames)
    <3>1. StackPair(Fetched) = "HL"
      BY <1>12, StackOpcodesOfProgram
    <3>2. getCombinedRegister(registers_m', "HL") = Filled("HL", Head(frames))
      BY <1>7, <3>1
    <3>3. QED
      BY <3>2 DEF HL, Filled
  <2>4. QED
    BY <1>6, <1>8, <1>9, <1>10, <1>12, <2>2, <2>3
<1>13. QED
  BY <1>11, <1>12

\* LXI SP,0: the stack is set up, and the list begins.
LEMMA SetUpStep ==
  ASSUME Works, Fetched = 49, instruction = opcodes_m[Fetched], readNextTwoBytes = 0
  PROVE  /\ frames' = <<>> /\ StackLinked' /\ pc_m' = After(3)
         /\ Psw' = Psw /\ HL' = HL
         /\ CountByte' = CountByte /\ ResultByte' = ResultByte
<1>1. Destinations(Fetched) = {"SP_high", "SP_low"}
  BY StackDestinations, PairHalves
<1>2. Psw' = Psw /\ HL' = HL
  BY <1>1, FileKept DEF Works
<1>3. StoredAt = {} /\ Fetched \in Ordinary
  BY StoresOfProgram DEF Ordinary
<1>4. CountByte' = CountByte /\ ResultByte' = ResultByte
  BY <1>3, QuietMemory
<1>5. MovesStack
  BY <1>1 DEF MovesStack
<1>6. frames' = <<>>
  BY <1>3, <1>5, OrdinaryOpcodes, Zenon DEF Works, Runs, FramesAfterInstruction
<1>7. instruction = OnPair("LXI_RR_d16", "SP")
  BY DataEntries, Zenon
<1>8. instruction.op = "LXI_RR_d16" /\ instruction.rr = "SP"
  BY <1>7 DEF OnPair
<1>9. LXI_RR_d16("SP")
  BY <1>8 DEF Works, Runs, Execute, DataHandler
<1>10. registers_m' = setCombinedRegister(registers_m, "SP", readNextTwoBytes) /\ pc_m' = After(3)
  BY <1>9, EffectFile, EffectCounter DEF LXI_RR_d16
<1>11. SP' = 0
  <2>1. readNextTwoBytes \in Word
    BY WordRange
  <2>2. "SP" \in CombinedRegister \ {"PSW"} /\ registers_m \in File
    BY DEF Works, Runs, MachineOK, CombinedRegister
  <2>3. getCombinedRegister(registers_m', "SP") = readNextTwoBytes
    BY <1>10, <2>1, <2>2, PairHoldsWord
  <2>4. QED
    BY <2>3 DEF SP
<1>12. StackLinked'
  BY <1>6, <1>11 DEF StackLinked, ToWord
<1>13. QED
  BY <1>2, <1>4, <1>6, <1>10, <1>12

\* XTHL.
LEMMA ExchangeStep ==
  ASSUME Works, Fetched = 227, instruction = opcodes_m[Fetched], frames # <<>>
  PROVE  /\ frames' = <<HL>> \o Tail(frames) /\ StackLinked' /\ pc_m' = After(1)
         /\ HL' = Head(frames) /\ Psw' = Psw
         /\ CountByte' = CountByte /\ ResultByte' = ResultByte
<1>1. IsExchange(Fetched) /\ Fetched \in Byte
  BY StackOpcodesOfProgram, ByteRange
<1>2. MachineOK /\ Execute /\ StackInv /\ readTwoBytes(SP) = Head(frames)
  BY TopRead DEF Works, Runs
<1>3. XTHL
  BY <1>1, <1>2, StackInstruction
<1>4. registers_m' = setCombinedRegister(registers_m, "HL", readTwoBytes(SP))
  BY <1>3, Zenon DEF XTHL, Effect
<1>5. pc_m' = After(1)
  BY <1>3, Zenon DEF XTHL, Effect
<1>6. HL' = Head(frames)
  <2>1. readTwoBytes(SP) \in Word
    BY <1>2, OperandsRead
  <2>2. "HL" \in CombinedRegister \ {"PSW"} /\ registers_m \in File
    BY <1>2 DEF MachineOK, CombinedRegister
  <2>3. getCombinedRegister(registers_m', "HL") = readTwoBytes(SP)
    BY <1>4, <2>1, <2>2, PairHoldsWord
  <2>4. QED
    BY <1>2, <2>3 DEF HL
<1>7. Destinations(Fetched) = {"H", "L"}
  BY StackDestinations, PairHalves
<1>8. Psw' = Psw /\ SP' = SP
  BY <1>7, FileKept DEF Works
<1>9. frames' = <<HL>> \o Tail(frames)
  BY <1>1, StackOpcodes, ZenonT(40) DEF Works, Runs, FramesAfterInstruction, Topped
<1>10. frames \in Seq(Word) /\ Len(frames) \in Nat /\ Len(frames) >= 1
  BY StackPlace DEF Works
<1>11. Len(frames') = Len(frames)
  BY <1>9, <1>10
<1>12. StackLinked'
  BY <1>8, <1>11 DEF StackLinked, Works, StackAtTop
<1>13. CountByte' = CountByte /\ ResultByte' = ResultByte
  <2>1. StoredAt = {SP, ToWord(SP + 1)}
    BY StoresOfProgram
  <2>2. SP \in Word /\ ToWord(SP + 0) = SP
    <3>1. SP \in Word
      BY <1>2, OperandsRead
    <3>2. QED
      BY <3>1, WordRange DEF ToWord
  <2>3. 0 \in 0 .. 2 * Len(frames) - 1 /\ 1 \in 0 .. 2 * Len(frames) - 1
    BY <1>10
  <2>4. /\ RamStart + 4 <= ToWord(SP + 0) /\ RamStart + 4 <= ToWord(SP + 1)
        /\ ToWord(SP + 0) \in Word /\ ToWord(SP + 1) \in Word
    BY <2>3, StackPlace DEF Works
  <2>5. RamStart + 4 <= SP /\ RamStart + 4 <= ToWord(SP + 1) /\ ToWord(SP + 1) \in Word
    BY <2>2, <2>4
  <2>6. RamStart \in Int /\ CountCell = RamStart /\ ResultCell = RamStart + 2
    BY BoardRegions, DataInRam
  <2>7. \A address \in StoredAt : RamStart <= address
    BY <2>1, <2>2, <2>5, <2>6, WordRange
  <2>8. CountCell \notin StoredAt /\ ResultCell \notin StoredAt
    BY <2>1, <2>2, <2>5, <2>6, WordRange
  <2>9. QED
    BY <2>7, <2>8, DataUntouched DEF Works
<1>14. QED
  BY <1>5, <1>6, <1>8, <1>9, <1>12, <1>13

\* The flag that CC and RNC look at is set.
LEMMA CarryDecides ==
  ASSUME Works, Psw = Combine(37, 3)
  PROVE  /\ Fetched = 220 => Goes
         /\ Fetched = 208 => ~Goes
<1>1. MachineOK
  BY DEF Works, Runs
<1>2. 37 \in Byte /\ 3 \in Byte
  BY ByteRange
<1>3. registers_m["F"] = 3
  BY <1>1, <1>2, PswHalves DEF Status
<1>4. getFlag(registers_m, "CY")
  BY <1>3, FlagReads
<1>5. ASSUME Fetched = 220 PROVE Goes
  <2>1. Z(Fetched) = 4 /\ Condition(Fetched) = "CY" /\ Selected(Fetched)
    BY <1>5, StackOpcodesOfProgram
  <2>2. QED
    BY <1>4, <2>1, Zenon DEF Goes
<1>6. ASSUME Fetched = 208 PROVE ~Goes
  <2>1. Z(Fetched) = 0 /\ Condition(Fetched) = "CY" /\ ~Selected(Fetched)
    BY <1>6, StackOpcodesOfProgram
  <2>2. Z(Fetched) \in {0, 4}
    BY <2>1
  <2>3. QED
    BY <1>4, <2>1, <2>2, Zenon DEF Goes
<1>7. QED
  BY <1>5, <1>6

\* CC, taken.
LEMMA CallStep ==
  ASSUME Works, Fetched = 220, instruction = opcodes_m[Fetched], Psw = Combine(37, 3),
         2 * Len(frames) + 6 <= RamSize
  PROVE  /\ frames' = <<After(3)>> \o frames /\ StackLinked' /\ pc_m' = readNextTwoBytes
         /\ Psw' = Psw /\ HL' = HL
         /\ CountByte' = CountByte /\ ResultByte' = ResultByte
<1>1. IsCall(Fetched) /\ Length(Fetched) = 3 /\ Group(Fetched) = 3 /\ Z(Fetched) \in {0, 4}
      /\ Fetched \in Byte
  BY StackOpcodesOfProgram, OpcodeDigits DEF Digits3
<1>2. MachineOK /\ Execute /\ StackInv /\ Goes
  BY CarryDecides DEF Works, Runs
<1>3. Holds(instruction.flag, instruction.negate)
  BY <1>1, <1>2, ConditionDecides
<1>4. instruction.op = "conditionalCall_a16"
  BY FlowEntries
<1>5. conditionalCall_a16(instruction.flag, instruction.negate)
  BY <1>2, <1>4 DEF Execute, DataHandler
<1>6. callAddress(readNextTwoBytes, After(3))
  BY <1>3, <1>5, Zenon DEF conditionalCall_a16, CALL_a16
<1>7. pc_m' = readNextTwoBytes
  BY <1>6, EffectCounter, Zenon DEF callAddress
<1>8. regions_m' = regions_m /\ After(3) \in Word /\ Sequel = After(3)
  <2>1. pc_m \in Int
    BY <1>2, WordRange DEF MachineOK
  <2>2. After(3) \in Word
    BY <2>1, WrapsOnce DEF After
  <2>3. QED
    BY <1>1, <1>2, <2>2 DEF Execute, Sequel, After
<1>9. SP' = ToWord(SP - 2)
  BY <1>2, <1>6, <1>8, CallLeaves
<1>10. frames' = Grown(After(3))
  <2>1. frames' = FramesAfterInstruction
    BY DEF Works, Runs
  <2>2. FramesAfterInstruction = Grown(Sequel)
    <3>1. IsCall(Fetched) /\ Goes
      BY <1>1, <1>2
    <3>2. ~IsReturn(Fetched) /\ ~IsPush(Fetched) /\ ~IsPop(Fetched) /\ ~IsExchange(Fetched)
      BY <1>1, StackOpcodes
    <3>3. QED
      BY <3>1, <3>2, Zenon DEF FramesAfterInstruction
  <2>3. QED
    BY <1>8, <2>1, <2>2
<1>11. frames' = <<After(3)>> \o frames /\ StackLinked'
  BY <1>9, <1>10, OneLonger DEF Works
<1>12. Psw' = Psw /\ HL' = HL
  <2>1. Destinations(Fetched) = {"SP_high", "SP_low"}
    BY StackDestinations, PairHalves
  <2>2. QED
    BY <2>1, FileKept DEF Works
<1>13. CountByte' = CountByte /\ ResultByte' = ResultByte
  BY StoresOfProgram, RoomKeepsData
<1>14. QED
  BY <1>7, <1>11, <1>12, <1>13

\* RNC, not taken.
LEMMA StayStep ==
  ASSUME Works, Fetched = 208, instruction = opcodes_m[Fetched], Psw = Combine(37, 3)
  PROVE  /\ frames' = frames /\ StackLinked' /\ pc_m' = After(1)
         /\ Psw' = Psw /\ HL' = HL
         /\ CountByte' = CountByte /\ ResultByte' = ResultByte
<1>1. IsReturn(Fetched) /\ Group(Fetched) = 3 /\ Z(Fetched) \in {0, 4} /\ Fetched \in Byte
  BY StackOpcodesOfProgram, OpcodeDigits DEF Digits3
<1>2. MachineOK /\ Execute /\ StackInv /\ ~Goes
  BY CarryDecides DEF Works, Runs
<1>3. registers_m' = registers_m /\ contents' = contents
  BY <1>1, <1>2, ReturnDecided
<1>4. ~Holds(instruction.flag, instruction.negate)
  BY <1>1, <1>2, ConditionDecides
<1>5. instruction.op = "conditionalRet"
  BY StackEntries
<1>6. conditionalRet(instruction.flag, instruction.negate)
  BY <1>2, <1>5 DEF Execute, DataHandler
<1>7. Compute(1, registers_m)
  BY <1>4, <1>6, Zenon DEF conditionalRet
<1>8. pc_m' = After(1)
  BY <1>7, EffectCounter
<1>9. frames' = frames
  BY <1>1, <1>2, StackOpcodes, ZenonT(40) DEF Works, Runs, FramesAfterInstruction
<1>10. Psw' = Psw /\ HL' = HL /\ SP' = SP
  BY <1>3, SameRegisters
<1>11. StackLinked'
  BY <1>9, <1>10 DEF StackLinked, Works, StackAtTop
<1>12. CountByte' = CountByte /\ ResultByte' = ResultByte
  BY <1>2, <1>3, SameMemory DEF Execute
<1>13. QED
  BY <1>8, <1>9, <1>10, <1>11, <1>12

\* RET.
LEMMA ReturnStep ==
  ASSUME Works, Fetched = 201, instruction = opcodes_m[Fetched], frames # <<>>
  PROVE  /\ frames' = Tail(frames) /\ StackLinked' /\ pc_m' = Head(frames)
         /\ Psw' = Psw /\ HL' = HL
         /\ CountByte' = CountByte /\ ResultByte' = ResultByte
<1>1. IsReturn(Fetched) /\ Z(Fetched) = 1 /\ Fetched \in Byte
  BY StackOpcodesOfProgram, ByteRange
<1>2. MachineOK /\ Execute /\ StackInv /\ readTwoBytes(SP) = Head(frames)
  BY TopRead DEF Works, Runs
<1>3. Goes
  BY <1>1 DEF Goes
<1>4. RET
  BY <1>1, <1>2, <1>3, ReturnDecided
<1>5. /\ pc_m' = getCombinedRegister(Popped("WZ"), "WZ")
      /\ registers_m' = Popped("WZ")
  BY <1>4, Zenon DEF RET, Effect
<1>6. "WZ" \in CombinedRegister \ {"SP"}
  BY DEF CombinedRegister
<1>7. SP' = ToWord(SP + 2)
  BY <1>2, <1>5, <1>6, PopFills DEF SP
<1>8. pc_m' = Head(frames)
  BY <1>2, <1>5, <1>6, PopFills DEF Filled
<1>9. frames' = Tail(frames)
  BY <1>1, <1>3, StackOpcodes, ZenonT(40) DEF Works, Runs, FramesAfterInstruction, Shrunk
<1>10. StackLinked'
  BY <1>7, <1>9, OneShorter DEF Works
<1>11. Psw' = Psw /\ HL' = HL
  <2>1. Destinations(Fetched) = {"SP_high", "SP_low"}
    BY StackDestinations, PairHalves
  <2>2. QED
    BY <2>1, FileKept DEF Works
<1>12. CountByte' = CountByte /\ ResultByte' = ResultByte
  BY StoresOfProgram, QuietMemory
<1>13. QED
  BY <1>8, <1>9, <1>10, <1>11, <1>12

-----------------------------------------------------------------------------
\* An interrupt is taken.
LEMMA InterruptStep ==
  ASSUME StackAtTop, interruptVectorRequested_m \in Byte, AcceptInterrupt,
         frames' = Grown(pc_m), 2 * Len(frames) + 6 <= RamSize
  PROVE  /\ frames' = <<pc_m>> \o frames /\ StackLinked'
         /\ pc_m' = 8 * interruptVectorRequested_m
         /\ Psw' = Psw /\ HL' = HL
         /\ CountByte' = CountByte /\ ResultByte' = ResultByte
         /\ ~enabledNow' /\ ~halted_m' /\ ~interruptRequested_m'
<1>1. MachineOK /\ regions_m' = regions_m /\ callAddress(8 * interruptVectorRequested_m, pc_m)
  BY DEF StackAtTop, AcceptInterrupt, Taken
<1>2. ~enabledNow' /\ ~halted_m' /\ ~interruptRequested_m'
  BY DEF AcceptInterrupt, Taken, enabledNow
<1>3. pc_m \in Word /\ DOMAIN registers_m = Register
  BY <1>1 DEF MachineOK, File, RegisterFile
<1>4. pc_m' = 8 * interruptVectorRequested_m
  BY <1>1, EffectCounter, Zenon DEF callAddress
<1>5. SP' = ToWord(SP - 2)
  BY <1>1, <1>3, CallLeaves
<1>6. frames' = <<pc_m>> \o frames /\ StackLinked'
  BY <1>5, OneLonger
<1>7. Psw' = Psw /\ HL' = HL
  <2>1. KeepsOthers(Halves("SP"))
    BY <1>1, <1>3, CallKeeps
  <2>2. \A reg \in {"A", "F", "H", "L"} : registers_m'[reg] = registers_m[reg]
    BY <2>1, PairHalves DEF KeepsOthers, Keeps, Scratch, Register
  <2>3. RegisterPairs["HL"] = <<"H", "L">> /\ RegisterPairs["PSW"] = <<"A", "F">>
    BY DEF RegisterPairs
  <2>4. QED
    BY <2>2, <2>3 DEF HL, Psw, getCombinedRegister, getRegister
<1>8. CountByte' = CountByte /\ ResultByte' = ResultByte
  <2>1. contents' = Pushed(contents, SP, pc_m)
    BY <1>1, EffectMemory, Zenon DEF callAddress
  <2>2. Touches(contents, contents', {ToWord(SP - 1), ToWord(SP - 2)})
    BY <1>1, <1>3, <2>1, WritesTouch
  <2>3. ToWord(SP - 1) \in Word /\ ToWord(SP - 2) \in Word
    <3>1. SP \in Int
      BY <1>1, OperandsRead, WordRange
    <3>2. SP - 1 \in Int /\ SP - 2 \in Int
      BY <3>1
    <3>3. QED
      BY <3>2, WrapsOnce
  <2>4. /\ CountCell \notin {ToWord(SP - 1), ToWord(SP - 2)}
        /\ ResultCell \notin {ToWord(SP - 1), ToWord(SP - 2)}
        /\ RamStart + 4 <= ToWord(SP - 1) /\ RamStart + 4 <= ToWord(SP - 2)
    BY RoomToPush
  <2>5. \A address \in {ToWord(SP - 1), ToWord(SP - 2)} : RamStart <= address
    BY <2>3, <2>4, BoardRegions, WordRange
  <2>6. \A cell \in DataCells : memoryRead(cell)' = memoryRead(cell)
    <3>1. {ToWord(SP - 1), ToWord(SP - 2)} \in SUBSET Word
      BY <2>3
    <3> DEFINE addresses == {ToWord(SP - 1), ToWord(SP - 2)}
    <3>2. \A cell \in DataCells : cell \notin addresses
      BY <2>4 DEF DataCells
    <3> HIDE DEF addresses
    <3>3. QED
      BY <1>1, <2>2, <2>5, <3>1, <3>2, DataKept DEF addresses
  <2>7. QED
    BY <2>6 DEF DataCells, CountByte, ResultByte
<1>9. QED
  BY <1>2, <1>4, <1>6, <1>7, <1>8

-----------------------------------------------------------------------------
\* What the main program holds once ADI and DAA have run: 25h, and the carry.
Carrying == Combine(37, 3)

\* What the main program has computed when it is at p: the accumulator and
\* flags, HL and the result, as far as it goes on to use them, the words it has
\* on the stack, and how many counts of its own it has made.
Computed(p, psw, hl, result, list, own) ==
  \/ p \in {0, 64, 67, 68} /\ psw = Combine(0, 2) /\ list = <<>> /\ own = 0
  \/ p = 70 /\ psw = Combine(88, 2) /\ list = <<>> /\ own = 0
  \/ p = 72 /\ psw = Combine(191, 130) /\ list = <<>> /\ own = 0
  \/ p = 73 /\ psw = Carrying /\ list = <<>> /\ own = 0
  \/ p \in {74, 76} /\ psw = Carrying /\ list = <<Carrying>> /\ own = 0
  \/ p = 75 /\ psw = Carrying /\ hl = Carrying /\ Len(list) = 1 /\ own = 0
  \/ p = 96 /\ psw = Carrying /\ list = <<79, Carrying>> /\ own = 0
  \/ p \in {97, 98, 101, 102} /\ list = <<79, Carrying>> /\ own = 0
  \/ p \in {105, 106} /\ list = <<79, Carrying>> /\ own = 1
  \/ p = 79 /\ list = <<Carrying>> /\ own = 1
  \/ p = 80 /\ psw = Carrying /\ list = <<>> /\ own = 1
  \/ p = 82 /\ psw = Combine(38, 2) /\ list = <<>> /\ own = 1
  \/ p = 83 /\ psw = Combine(76, 2) /\ list = <<>> /\ own = 1
  \/ p = 86 /\ result = 76 /\ list = <<>> /\ own = 1
  \/ p = 89 /\ result = 76 /\ hl = ResultCell /\ list = <<>> /\ own = 1
  \/ p \in {90, 91, 92} /\ result = Expected /\ list = <<>> /\ own = 1

\* Where the main program and the routines may be interrupted.
OpenMain ==
  {68, 70, 72, 73, 74, 75, 76, 79, 80, 82, 83, 86, 89, 90, 91, 92, 96, 97, 106}

OpenRoutine == {17, 42}

Open(p) == p \in OpenMain \cup OpenRoutine

\* The list of a main program interrupted at p: its own words at the bottom,
\* and above them where it and the routines that were interrupted go on.
Nested(s, depth, p, list) ==
  /\ list \in Seq(Word) /\ Len(list) <= 2
  /\ Len(s) = depth + Len(list)
  /\ s[depth] = p
  /\ \A i \in 1 .. depth - 1 : s[i] \in OpenRoutine
  /\ \A i \in 1 .. Len(list) : s[depth + i] = list[i]

\* What the main program finds again once depth routines have returned: what it
\* had computed, and its count and those of the count interrupts in total.
Suspended(s, depth, psw, hl, result, total, count) ==
  \E p \in OpenMain, list \in Seq(Word), own \in {0, 1} :
    /\ Computed(p, psw, hl, result, list, own)
    /\ getBit(psw, 1)
    /\ total = ToByte(count + own)
    /\ Nested(s, depth, p, list)

\* A request that waits, and an interrupt whose count is still to come.
Pending == IF interruptRequested_m THEN 1 ELSE 0

Due == IF pc_m \in {8, 32, 33, 34, 37} THEN 1 ELSE 0

Total == ToByte(CountByte + Due)

\* The main program runs, with own counts of its own made.
Main(own) ==
  /\ Computed(pc_m, Psw, HL, ResultByte, frames, own)
  /\ CountByte = ToByte(counted + own)
  /\ pc_m = 101 => A = CountByte
  /\ pc_m = 102 => A = ToByte(CountByte + 1)
  /\ Pending <= asked

InMain == \E own \in {0, 1} : Main(own)

\* A routine runs, above depth - 1 others: before it saves the registers or
\* after it has restored them, with one word saved, or with both.
Bare(depth) ==
  /\ pc_m \in {8, 16, 17, 32, 41, 42}
  /\ Suspended(frames, depth, Psw, HL, ResultByte, Total, counted)

SavedPsw(depth) ==
  /\ pc_m \in {33, 40}
  /\ frames # <<>>
  /\ Suspended(Tail(frames), depth, Head(frames), HL, ResultByte, Total, counted)

SavedBoth(depth) ==
  /\ pc_m \in {34, 37, 38, 39}
  /\ pc_m = 37 => HL = CountCell
  /\ frames # <<>> /\ Tail(frames) # <<>>
  /\ Suspended(Tail(Tail(frames)), depth, Head(Tail(frames)), Head(frames),
               ResultByte, Total, counted)

Routine(depth) ==
  /\ 1 <= depth /\ depth + Pending <= asked
  /\ Bare(depth) \/ SavedPsw(depth) \/ SavedBoth(depth)

InRoutine == \E depth \in Nat : Routine(depth)

\* The program is where it may be, with what it needs.
ProgramInv ==
  /\ contents[rom] = ROM
  /\ enabledNow <=> Open(pc_m)
  /\ halted_m => pc_m = 92
  /\ interruptRequested_m => interruptVectorRequested_m \in {1, 2}
  /\ StackLinked
  /\ asked \in Nat /\ asked <= MaxRequests /\ counted \in Nat /\ resets \in Nat
  /\ InMain \/ InRoutine

-----------------------------------------------------------------------------
\* The main program is interrupted.
LEMMA FirstNested ==
  ASSUME NEW p \in Word, NEW list \in Seq(Word), Len(list) <= 2
  PROVE  Nested(<<p>> \o list, 1, p, list)
<1> DEFINE s == <<p>> \o list
<1>1. Len(s) = 1 + Len(list) /\ s[1] = p /\ \A i \in 1 .. Len(list) : s[1 + i] = list[i]
  OBVIOUS
<1> HIDE DEF s
<1>2. \A i \in 1 .. 1 - 1 : s[i] \in OpenRoutine
  OBVIOUS
<1>3. Nested(s, 1, p, list)
  BY <1>1, <1>2 DEF Nested
<1>4. QED
  BY <1>3 DEF s

\* A routine is interrupted.
LEMMA MoreNested ==
  ASSUME NEW s \in Seq(Word), NEW depth \in Nat, 1 <= depth, NEW p, NEW list,
         Nested(s, depth, p, list), NEW q \in OpenRoutine, q \in Word
  PROVE  Nested(<<q>> \o s, depth + 1, p, list)
<1> DEFINE t == <<q>> \o s
<1>1. list \in Seq(Word) /\ Len(list) <= 2 /\ Len(list) \in Nat /\ Len(s) = depth + Len(list)
  BY DEF Nested
<1>2. Len(t) = 1 + Len(s) /\ t[1] = q /\ \A i \in 1 .. Len(s) : t[1 + i] = s[i]
  OBVIOUS
<1> HIDE DEF t
<1>3. Len(t) = depth + 1 + Len(list)
  BY <1>1, <1>2
<1>4. t[depth + 1] = p
  <2>1. depth \in 1 .. Len(s) /\ 1 + depth = depth + 1
    BY <1>1
  <2>2. t[1 + depth] = s[depth]
    BY <1>2, <2>1
  <2>3. QED
    BY <2>1, <2>2 DEF Nested
<1>5. ASSUME NEW i \in 1 .. depth + 1 - 1
      PROVE  t[i] \in OpenRoutine
  <2>1. CASE i = 1
    BY <1>2, <2>1
  <2>2. CASE i # 1
    <3>1. i - 1 \in 1 .. depth - 1 /\ i - 1 \in 1 .. Len(s) /\ 1 + (i - 1) = i
      BY <1>1, <2>2
    <3>2. t[i] = s[i - 1]
      BY <1>2, <3>1
    <3>3. QED
      BY <3>1, <3>2 DEF Nested
  <2>3. QED
    BY <2>1, <2>2
<1>6. ASSUME NEW i \in 1 .. Len(list)
      PROVE  t[depth + 1 + i] = list[i]
  <2>1. depth + i \in 1 .. Len(s) /\ 1 + (depth + i) = depth + 1 + i
    BY <1>1
  <2>2. t[depth + 1 + i] = s[depth + i]
    BY <1>2, <2>1
  <2>3. QED
    BY <2>2 DEF Nested
<1>7. Nested(t, depth + 1, p, list)
  BY <1>1, <1>3, <1>4, <1>5, <1>6 DEF Nested
<1>8. QED
  BY <1>7 DEF t

\* A routine returns.
LEMMA NestedTop ==
  ASSUME NEW s \in Seq(Word), NEW depth \in Nat, 1 <= depth, NEW p, NEW list,
         Nested(s, depth, p, list)
  PROVE  /\ s # <<>> /\ Len(s) <= depth + 2
         /\ depth = 1 => Head(s) = p /\ Tail(s) = list
         /\ depth # 1 => Head(s) \in OpenRoutine /\ Nested(Tail(s), depth - 1, p, list)
<1>1. list \in Seq(Word) /\ Len(list) <= 2 /\ Len(list) \in Nat /\ Len(s) = depth + Len(list)
  BY DEF Nested
<1>2. s # <<>> /\ Len(s) <= depth + 2
  BY <1>1
<1>3. /\ Head(s) = s[1] /\ Tail(s) \in Seq(Word) /\ Len(Tail(s)) = Len(s) - 1
      /\ \A i \in 1 .. Len(s) - 1 : Tail(s)[i] = s[i + 1]
  BY <1>2
<1>4. CASE depth = 1
  <2>1. Head(s) = p
    BY <1>3, <1>4 DEF Nested
  <2>2. Len(Tail(s)) = Len(list)
    BY <1>1, <1>3, <1>4
  <2>3. \A i \in 1 .. Len(list) : Tail(s)[i] = list[i]
    <3>1. SUFFICES ASSUME NEW i \in 1 .. Len(list) PROVE Tail(s)[i] = list[i]
      OBVIOUS
    <3>2. i \in 1 .. Len(s) - 1 /\ i + 1 = depth + i
      BY <1>1, <1>4
    <3>3. Tail(s)[i] = s[depth + i]
      BY <1>3, <3>2
    <3>4. QED
      BY <3>3 DEF Nested
  <2>4. Tail(s) = list
    BY <1>1, <1>3, <2>2, <2>3
  <2>5. QED
    BY <1>2, <1>4, <2>1, <2>4
<1>5. CASE depth # 1
  <2>1. Head(s) \in OpenRoutine
    <3>1. 1 \in 1 .. depth - 1
      BY <1>5
    <3>2. QED
      BY <1>3, <3>1 DEF Nested
  <2>2. Len(Tail(s)) = depth - 1 + Len(list)
    BY <1>1, <1>3
  <2>3. Tail(s)[depth - 1] = p
    <3>1. depth - 1 \in 1 .. Len(s) - 1 /\ depth - 1 + 1 = depth
      BY <1>1, <1>5
    <3>2. Tail(s)[depth - 1] = s[depth]
      BY <1>3, <3>1
    <3>3. QED
      BY <3>2 DEF Nested
  <2>4. ASSUME NEW i \in 1 .. depth - 1 - 1
        PROVE  Tail(s)[i] \in OpenRoutine
    <3>1. i + 1 \in 1 .. depth - 1 /\ i \in 1 .. Len(s) - 1
      BY <1>1, <1>5
    <3>2. Tail(s)[i] = s[i + 1]
      BY <1>3, <3>1
    <3>3. QED
      BY <3>1, <3>2 DEF Nested
  <2>5. ASSUME NEW i \in 1 .. Len(list)
        PROVE  Tail(s)[depth - 1 + i] = list[i]
    <3>1. depth - 1 + i \in 1 .. Len(s) - 1 /\ depth - 1 + i + 1 = depth + i
      BY <1>1, <1>5
    <3>2. Tail(s)[depth - 1 + i] = s[depth + i]
      BY <1>3, <3>1
    <3>3. QED
      BY <3>2 DEF Nested
  <2>6. Nested(Tail(s), depth - 1, p, list)
    BY <1>1, <2>2, <2>3, <2>4, <2>5 DEF Nested
  <2>7. QED
    BY <1>2, <1>5, <2>1, <2>6
<1>6. QED
  BY <1>4, <1>5

-----------------------------------------------------------------------------
\* Where the main program is, and how many words it has on the stack.
MainPoints == OpenMain \cup {0, 64, 67, 98, 101, 102, 105}

LEMMA MainPlaces ==
  ASSUME NEW p, NEW psw, NEW hl, NEW result, NEW list, NEW own,
         Computed(p, psw, hl, result, list, own)
  PROVE  p \in MainPoints /\ Len(list) <= 2
<1>1. Len(<<>>) = 0 /\ Len(<<Carrying>>) = 1 /\ Len(<<79, Carrying>>) = 2
  OBVIOUS
<1>2. list = <<>> \/ list = <<Carrying>> \/ list = <<79, Carrying>> \/ Len(list) = 1
  BY Zenon DEF Computed
<1>3. Len(list) <= 2
  <2>1. Len(list) = 0 \/ Len(list) = 1 \/ Len(list) = 2
    BY <1>1, <1>2, Zenon
  <2>2. \A n : n = 0 \/ n = 1 \/ n = 2 => n <= 2
    OBVIOUS
  <2>3. QED
    BY <2>1, <2>2, Zenon
<1>4. p \in MainPoints
  BY DEF Computed, MainPoints, OpenMain
<1>5. QED
  BY <1>3, <1>4

\* The stack has room for what the program pushes.
LEMMA Sizes ==
  ASSUME CpuInv, StackInv, ProgramInv
  PROVE  /\ frames \in Seq(Word) /\ Len(frames) \in Nat /\ Pending \in {0, 1}
         /\ InMain => Len(frames) <= 2
         /\ \A depth \in Nat : 1 <= depth =>
              /\ Bare(depth) => Len(frames) <= depth + 2
              /\ SavedPsw(depth) => Len(frames) <= depth + 3
              /\ SavedBoth(depth) => Len(frames) <= depth + 4
         /\ Len(frames) <= asked + 4
         /\ Len(frames) <= asked + 3 => 2 * Len(frames) + 6 <= RamSize
         /\ StackAtTop
<1>1. frames \in Seq(Word) /\ Len(frames) \in Nat /\ Pending \in {0, 1}
  BY DEF StackInv, StackHolds, Pending
<1>2. InMain => Len(frames) <= 2
  <2>1. ASSUME NEW own, Computed(pc_m, Psw, HL, ResultByte, frames, own)
        PROVE  Len(frames) <= 2
    BY <2>1, MainPlaces
  <2>2. QED
    BY <2>1 DEF InMain, Main
<1>3. ASSUME NEW depth \in Nat, 1 <= depth
      PROVE  /\ Bare(depth) => Len(frames) <= depth + 2
             /\ SavedPsw(depth) => Len(frames) <= depth + 3
             /\ SavedBoth(depth) => Len(frames) <= depth + 4
  <2>1. ASSUME NEW s \in Seq(Word), NEW psw, NEW hl,
               Suspended(s, depth, psw, hl, ResultByte, Total, counted)
        PROVE  Len(s) <= depth + 2
    <3>1. PICK p \in OpenMain, list \in Seq(Word), own \in {0, 1} : Nested(s, depth, p, list)
      BY <2>1 DEF Suspended
    <3>2. QED
      BY <1>3, <3>1, NestedTop
  <2>2. Bare(depth) => Len(frames) <= depth + 2
    BY <1>1, <2>1 DEF Bare
  <2>3. ASSUME frames # <<>>
        PROVE  Tail(frames) \in Seq(Word) /\ Len(Tail(frames)) = Len(frames) - 1
    BY <1>1, <2>3
  <2>4. SavedPsw(depth) => Len(frames) <= depth + 3
    <3>1. HAVE SavedPsw(depth)
    <3>2. Tail(frames) \in Seq(Word) /\ Len(Tail(frames)) = Len(frames) - 1
      BY <2>3, <3>1 DEF SavedPsw
    <3>3. Len(Tail(frames)) <= depth + 2
      BY <2>1, <3>1, <3>2 DEF SavedPsw
    <3>4. QED
      BY <1>1, <3>2, <3>3
  <2>5. SavedBoth(depth) => Len(frames) <= depth + 4
    <3>1. HAVE SavedBoth(depth)
    <3>2. Tail(frames) \in Seq(Word) /\ Len(Tail(frames)) = Len(frames) - 1
      BY <2>3, <3>1 DEF SavedBoth
    <3>3. Tail(frames) # <<>>
      BY <3>1 DEF SavedBoth
    <3>4. Tail(Tail(frames)) \in Seq(Word) /\ Len(Tail(Tail(frames))) = Len(Tail(frames)) - 1
      BY <3>2, <3>3
    <3>5. Len(Tail(Tail(frames))) <= depth + 2
      BY <2>1, <3>1, <3>4 DEF SavedBoth
    <3>6. QED
      BY <1>1, <3>2, <3>4, <3>5
  <2>6. QED
    BY <2>2, <2>4, <2>5
<1>4. Len(frames) <= asked + 4
  <2>1. asked \in Nat
    BY DEF ProgramInv
  <2>2. CASE InMain
    BY <1>1, <1>2, <2>1, <2>2
  <2>3. CASE InRoutine
    <3>1. PICK depth \in Nat : Routine(depth)
      BY <2>3 DEF InRoutine
    <3>2. 1 <= depth /\ depth <= asked
      BY <1>1, <2>1, <3>1 DEF Routine
    <3>3. Len(frames) <= depth + 4
      BY <1>1, <1>3, <3>1, <3>2 DEF Routine
    <3>4. QED
      BY <1>1, <2>1, <3>2, <3>3
  <2>4. QED
    BY <2>2, <2>3 DEF ProgramInv
<1>5. /\ asked \in Nat /\ asked <= MaxRequests /\ MaxRequests \in Nat /\ RamSize \in Nat
      /\ 12 + 2 * MaxRequests <= RamSize
  BY ProgramAssumption DEF ProgramInv
<1>6. 2 * Len(frames) + 4 <= RamSize
  BY <1>1, <1>4, <1>5
<1>7. Len(frames) <= asked + 3 => 2 * Len(frames) + 6 <= RamSize
  BY <1>1, <1>5
<1>8. StackAtTop
  BY <1>6 DEF StackAtTop, CpuInv, ProgramInv, StackLinked
<1>9. QED
  BY <1>1, <1>2, <1>3, <1>4, <1>7, <1>8

\* The program goes on with an instruction.
Going == CpuInv /\ StackInv /\ ProgramInv /\ Cycle /\ Execute

\* What the counter reaches is code.
LEMMA GoingWorks ==
  ASSUME Going
  PROVE  /\ Works /\ pc_m \in Nat /\ pc_m <= 106
         /\ Fetched = ROM[pc_m] /\ instruction = opcodes_m[Fetched]
         /\ readNextByte = ROM[pc_m + 1]
         /\ readNextTwoBytes = Combine(ROM[pc_m + 2], ROM[pc_m + 1])
         /\ \A n \in {1, 2, 3} : After(n) = pc_m + n
<1>1. StackAtTop
  BY Sizes DEF Going
<1>2. pc_m \in Nat /\ pc_m <= 106
  <2>1. pc_m \in Nat
    BY WordRange DEF Going, CpuInv, MachineOK
  <2>2. CASE InMain
    <3>1. pc_m \in MainPoints
      BY <2>2, MainPlaces DEF InMain, Main
    <3>2. QED
      BY <2>1, <3>1 DEF MainPoints, OpenMain
  <2>3. CASE InRoutine
    BY <2>1, <2>3 DEF InRoutine, Routine, Bare, SavedPsw, SavedBoth
  <2>4. QED
    BY <2>2, <2>3 DEF Going, ProgramInv
<1>3. frames' = FramesAfterInstruction
  <2>1. frames' = FramesAfterCycle
    BY DEF Going, Cycle, CycleH
  <2>2. ~Accepts /\ ~halted_m
    BY DEF Going, Execute
  <2>3. QED
    BY <2>1, <2>2, Zenon DEF FramesAfterCycle
<1>4. Runs
  BY <1>1, <1>3 DEF Runs, Going, StackAtTop, ProgramInv
<1>5. pc_m <= 120
  BY <1>2
<1>6. Works
  BY <1>1, <1>4, <1>5 DEF Works
<1>7. Fetched = ROM[pc_m] /\ instruction = opcodes_m[ROM[pc_m]]
  BY <1>4, <1>5, ReadCode
<1>8. QED
  BY <1>2, <1>4, <1>5, <1>6, <1>7, ReadCode

\* The operands of the program.
LEMMA OperandValues ==
  /\ Combine(0, 64) = 64 /\ Combine(0, 32) = 32 /\ Combine(0, 90) = 90 /\ Combine(0, 96) = 96
  /\ Combine(0, 0) = 0
  /\ Combine(getHighByte(CountCell), getLowByte(CountCell)) = CountCell
  /\ Combine(getHighByte(ResultCell), getLowByte(ResultCell)) = ResultCell
<1>1. \A word \in Word : Combine(getHighByte(word), getLowByte(word)) = word
  BY WordRange DEF Combine, getHighByte, getLowByte
<1>2. CountCell \in Word /\ ResultCell \in Word
  BY DataInRam
<1>3. QED
  BY <1>1, <1>2 DEF Combine

\* The instruction at each address of the program, with its operand.
LEMMA VectorCode ==
  ASSUME Going
  PROVE  /\ pc_m = 0 => Fetched = 195 /\ readNextTwoBytes = 64
         /\ pc_m = 8 => Fetched = 195 /\ readNextTwoBytes = 32
         /\ pc_m = 16 => Fetched = 251
         /\ pc_m = 17 => Fetched = 201
BY GoingWorks, VectorBytes, OperandValues

LEMMA RoutineCode ==
  ASSUME Going
  PROVE  /\ pc_m = 32 => Fetched = 245
         /\ pc_m = 33 => Fetched = 229
         /\ pc_m = 34 => Fetched = 33 /\ readNextTwoBytes = CountCell
         /\ pc_m = 37 => Fetched = 52
         /\ pc_m = 38 => Fetched = 175
         /\ pc_m = 39 => Fetched = 225
         /\ pc_m = 40 => Fetched = 241
         /\ pc_m = 41 => Fetched = 251
         /\ pc_m = 42 => Fetched = 201
BY GoingWorks, RoutineBytes, OperandValues

LEMMA SubroutineCodeRead ==
  ASSUME Going
  PROVE  /\ pc_m = 96 => Fetched = 208
         /\ pc_m = 97 => Fetched = 243
         /\ pc_m = 98 => Fetched = 58 /\ readNextTwoBytes = CountCell
         /\ pc_m = 101 => Fetched = 60
         /\ pc_m = 102 => Fetched = 50 /\ readNextTwoBytes = CountCell
         /\ pc_m = 105 => Fetched = 251
         /\ pc_m = 106 => Fetched = 201
BY GoingWorks, SubroutineBytes, OperandValues

LEMMA MainCodeRead ==
  ASSUME Going
  PROVE  /\ pc_m = 64 => Fetched = 49 /\ readNextTwoBytes = 0
         /\ pc_m = 67 => Fetched = 251
         /\ pc_m = 68 => Fetched = 62 /\ readNextByte = 88
         /\ pc_m = 70 => Fetched = 198 /\ readNextByte = 103
         /\ pc_m = 72 => Fetched = 39
         /\ pc_m = 73 => Fetched = 245
         /\ pc_m \in {74, 75} => Fetched = 227
         /\ pc_m = 76 => Fetched = 220 /\ readNextTwoBytes = 96
         /\ pc_m = 79 => Fetched = 241
         /\ pc_m = 80 => Fetched = 206 /\ readNextByte = 0
         /\ pc_m = 82 => Fetched = 23
         /\ pc_m = 83 => Fetched = 50 /\ readNextTwoBytes = ResultCell
         /\ pc_m = 86 => Fetched = 33 /\ readNextTwoBytes = ResultCell
         /\ pc_m = 89 => Fetched = 52
         /\ pc_m = 90 => Fetched = 251
         /\ pc_m = 91 => Fetched = 118
         /\ pc_m = 92 => Fetched = 195 /\ readNextTwoBytes = 90
BY GoingWorks, MainBytes, OperandValues

-----------------------------------------------------------------------------
\* The enable follows the program: EI opens it, DI closes it, and no other
\* instruction leads from one side to the other; HLT is where it belongs.
EnableFollows ==
  /\ Fetched \notin {251, 243} => (Open(pc_m') <=> Open(pc_m))
  /\ Fetched = 251 => Open(pc_m')
  /\ Fetched = 243 => ~Open(pc_m')
  /\ Fetched = 118 => pc_m' = 92

\* An instruction that leads to a place where the program may be.
LEMMA InstructionKeeps ==
  ASSUME Going, Fetched \in Working \cup {251, 243, 118}, EnableFollows, StackLinked',
         InMain' \/ InRoutine'
  PROVE  ProgramInv'
<1>1. Works /\ instruction = opcodes_m[Fetched]
  BY GoingWorks
<1>2. /\ interruptRequested_m' = interruptRequested_m
      /\ interruptVectorRequested_m' = interruptVectorRequested_m
      /\ Fetched \notin {251, 243} => (enabledNow' <=> enabledNow)
      /\ Fetched = 251 => enabledNow'
      /\ Fetched = 243 => ~enabledNow'
      /\ halted_m' <=> Fetched = 118
  BY <1>1, ProgramControl DEF Works
<1>3. enabledNow' <=> Open(pc_m')
  <2>1. CASE Fetched = 251
    BY <1>2, <2>1 DEF EnableFollows
  <2>2. CASE Fetched = 243
    BY <1>2, <2>2 DEF EnableFollows
  <2>3. CASE Fetched \notin {251, 243}
    BY <1>2, <2>3 DEF EnableFollows, Going, ProgramInv
  <2>4. QED
    BY <2>1, <2>2, <2>3
<1>4. contents'[rom] = ROM
  <2>1. Stored(contents')
    BY CycleLegal DEF Going, Handled, LegalStep
  <2>2. QED
    BY <2>1, BoardRegions DEF Stored, Going, ProgramInv
<1>5. asked' = asked /\ counted' = counted /\ resets' = resets
  BY DEF Going, Cycle, Execute
<1>6. halted_m' => pc_m' = 92
  BY <1>2 DEF EnableFollows
<1>7. interruptRequested_m' => interruptVectorRequested_m' \in {1, 2}
  BY <1>2 DEF Going, ProgramInv
<1>8. QED
  BY <1>3, <1>4, <1>5, <1>6, <1>7 DEF Going, ProgramInv

\* The main program goes on.
LEMMA MainGoesOn ==
  ASSUME Going, Fetched \in Working \cup {251, 243, 118}, EnableFollows, StackLinked',
         InMain, NEW own \in {0, 1},
         Computed(pc_m', Psw', HL', ResultByte', frames', own),
         CountByte' = ToByte(counted + own),
         pc_m' = 101 => A' = CountByte',
         pc_m' = 102 => A' = ToByte(CountByte' + 1)
  PROVE  ProgramInv'
<1>1. Works /\ instruction = opcodes_m[Fetched]
  BY GoingWorks
<1>2. interruptRequested_m' = interruptRequested_m
  BY <1>1, ProgramControl DEF Works
<1>3. asked' = asked /\ counted' = counted
  BY DEF Going, Cycle, Execute
<1>4. Pending' <= asked'
  BY <1>2, <1>3 DEF InMain, Main, Pending
<1>5. Main(own)'
  BY <1>3, <1>4 DEF Main
<1>6. InMain'
  BY <1>5 DEF InMain
<1>7. QED
  BY <1>6, InstructionKeeps

-----------------------------------------------------------------------------
\* What has been computed, point by point.
LEMMA ComputedFirst ==
  ASSUME NEW psw, NEW hl, NEW result, NEW list, NEW own
  PROVE  /\ \A p \in {0, 64, 67, 68} : Computed(p, psw, hl, result, list, own) <=>
              psw = Combine(0, 2) /\ list = <<>> /\ own = 0
         /\ Computed(70, psw, hl, result, list, own) <=>
              psw = Combine(88, 2) /\ list = <<>> /\ own = 0
         /\ Computed(72, psw, hl, result, list, own) <=>
              psw = Combine(191, 130) /\ list = <<>> /\ own = 0
         /\ Computed(73, psw, hl, result, list, own) <=>
              psw = Carrying /\ list = <<>> /\ own = 0
         /\ \A p \in {74, 76} : Computed(p, psw, hl, result, list, own) <=>
              psw = Carrying /\ list = <<Carrying>> /\ own = 0
         /\ Computed(75, psw, hl, result, list, own) <=>
              psw = Carrying /\ hl = Carrying /\ Len(list) = 1 /\ own = 0
         /\ Computed(96, psw, hl, result, list, own) <=>
              psw = Carrying /\ list = <<79, Carrying>> /\ own = 0
         /\ \A p \in {97, 98, 101, 102} : Computed(p, psw, hl, result, list, own) <=>
              list = <<79, Carrying>> /\ own = 0
<1>1. \A p \in {0, 64, 67, 68} : Computed(p, psw, hl, result, list, own) <=>
        psw = Combine(0, 2) /\ list = <<>> /\ own = 0
  BY DEF Computed
<1>2. Computed(70, psw, hl, result, list, own) <=>
        psw = Combine(88, 2) /\ list = <<>> /\ own = 0
  BY DEF Computed
<1>3. Computed(72, psw, hl, result, list, own) <=>
        psw = Combine(191, 130) /\ list = <<>> /\ own = 0
  BY DEF Computed
<1>4. Computed(73, psw, hl, result, list, own) <=>
        psw = Carrying /\ list = <<>> /\ own = 0
  BY DEF Computed
<1>5. \A p \in {74, 76} : Computed(p, psw, hl, result, list, own) <=>
        psw = Carrying /\ list = <<Carrying>> /\ own = 0
  BY DEF Computed
<1>6. Computed(75, psw, hl, result, list, own) <=>
        psw = Carrying /\ hl = Carrying /\ Len(list) = 1 /\ own = 0
  BY DEF Computed
<1>7. Computed(96, psw, hl, result, list, own) <=>
        psw = Carrying /\ list = <<79, Carrying>> /\ own = 0
  BY DEF Computed
<1>8. \A p \in {97, 98, 101, 102} : Computed(p, psw, hl, result, list, own) <=>
        list = <<79, Carrying>> /\ own = 0
  BY DEF Computed
<1>9. QED
  BY <1>1, <1>2, <1>3, <1>4, <1>5, <1>6, <1>7, <1>8, Zenon

LEMMA ComputedLast ==
  ASSUME NEW psw, NEW hl, NEW result, NEW list, NEW own
  PROVE  /\ \A p \in {105, 106} : Computed(p, psw, hl, result, list, own) <=>
              list = <<79, Carrying>> /\ own = 1
         /\ Computed(79, psw, hl, result, list, own) <=> list = <<Carrying>> /\ own = 1
         /\ Computed(80, psw, hl, result, list, own) <=>
              psw = Carrying /\ list = <<>> /\ own = 1
         /\ Computed(82, psw, hl, result, list, own) <=>
              psw = Combine(38, 2) /\ list = <<>> /\ own = 1
         /\ Computed(83, psw, hl, result, list, own) <=>
              psw = Combine(76, 2) /\ list = <<>> /\ own = 1
         /\ Computed(86, psw, hl, result, list, own) <=>
              result = 76 /\ list = <<>> /\ own = 1
         /\ Computed(89, psw, hl, result, list, own) <=>
              result = 76 /\ hl = ResultCell /\ list = <<>> /\ own = 1
         /\ \A p \in {90, 91, 92} : Computed(p, psw, hl, result, list, own) <=>
              result = Expected /\ list = <<>> /\ own = 1
<1>1. \A p \in {105, 106} : Computed(p, psw, hl, result, list, own) <=>
        list = <<79, Carrying>> /\ own = 1
  BY DEF Computed
<1>2. Computed(79, psw, hl, result, list, own) <=> list = <<Carrying>> /\ own = 1
  BY DEF Computed
<1>3. Computed(80, psw, hl, result, list, own) <=>
        psw = Carrying /\ list = <<>> /\ own = 1
  BY DEF Computed
<1>4. Computed(82, psw, hl, result, list, own) <=>
        psw = Combine(38, 2) /\ list = <<>> /\ own = 1
  BY DEF Computed
<1>5. Computed(83, psw, hl, result, list, own) <=>
        psw = Combine(76, 2) /\ list = <<>> /\ own = 1
  BY DEF Computed
<1>6. Computed(86, psw, hl, result, list, own) <=>
        result = 76 /\ list = <<>> /\ own = 1
  BY DEF Computed
<1>7. Computed(89, psw, hl, result, list, own) <=>
        result = 76 /\ hl = ResultCell /\ list = <<>> /\ own = 1
  BY DEF Computed
<1>8. \A p \in {90, 91, 92} : Computed(p, psw, hl, result, list, own) <=>
        result = Expected /\ list = <<>> /\ own = 1
  BY DEF Computed
<1>9. QED
  BY <1>1, <1>2, <1>3, <1>4, <1>5, <1>6, <1>7, <1>8, Zenon

\* JMP, EI, DI and HLT in the main program.
LEMMA MainControl ==
  ASSUME Going, NEW own \in {0, 1}, Main(own), pc_m \in {0, 67, 90, 91, 92, 97, 105}
  PROVE  ProgramInv'
<1>1. Works /\ instruction = opcodes_m[Fetched] /\ After(1) = pc_m + 1
  BY GoingWorks
<1>2. Fetched \in {195, 251, 243, 118} /\ Fetched \in Working \cup {251, 243, 118}
  BY VectorCode, MainCodeRead, SubroutineCodeRead DEF Working, Ordinary
<1>3. Fetched = 118 => frames = <<>>
  <2>1. HAVE Fetched = 118
  <2>2. pc_m = 91
    BY <2>1, VectorCode, MainCodeRead, SubroutineCodeRead
  <2>3. QED
    BY <2>2, ComputedLast DEF Main
<1>4. /\ frames' = frames /\ StackLinked'
      /\ Psw' = Psw /\ HL' = HL
      /\ CountByte' = CountByte /\ ResultByte' = ResultByte
      /\ pc_m' = IF Fetched = 195 THEN readNextTwoBytes ELSE After(1)
  BY <1>1, <1>2, <1>3, ControlStep
<1>5. /\ pc_m = 0 => pc_m' = 64
      /\ pc_m = 67 => pc_m' = 68
      /\ pc_m = 90 => pc_m' = 91
      /\ pc_m = 91 => pc_m' = 92
      /\ pc_m = 92 => pc_m' = 90
      /\ pc_m = 97 => pc_m' = 98
      /\ pc_m = 105 => pc_m' = 106
  BY <1>1, <1>4, VectorCode, MainCodeRead, SubroutineCodeRead
<1>6. Computed(pc_m', Psw, HL, ResultByte, frames, own)
  <2>1. Computed(pc_m, Psw, HL, ResultByte, frames, own)
    BY DEF Main
  <2>2. QED
    BY <1>5, <2>1, ComputedFirst, ComputedLast
<1>7. EnableFollows
  BY <1>5, VectorCode, MainCodeRead, SubroutineCodeRead
     DEF EnableFollows, Open, OpenMain, OpenRoutine
<1>8. pc_m' \notin {101, 102}
  BY <1>5
<1>9. QED
  BY <1>2, <1>4, <1>6, <1>7, <1>8, MainGoesOn DEF Main, InMain

\* LXI SP and MVI A.
LEMMA MainSetsUp ==
  ASSUME Going, NEW own \in {0, 1}, Main(own), pc_m \in {64, 68}
  PROVE  ProgramInv'
<1>1. /\ Works /\ instruction = opcodes_m[Fetched]
      /\ \A n \in {1, 2, 3} : After(n) = pc_m + n
  BY GoingWorks
<1>2. Psw = Combine(0, 2) /\ frames = <<>> /\ own = 0
  BY ComputedFirst DEF Main
<1>3. CASE pc_m = 64
  <2>1. Fetched = 49 /\ readNextTwoBytes = 0
    BY <1>3, MainCodeRead
  <2>2. /\ frames' = <<>> /\ StackLinked' /\ pc_m' = 67
        /\ Psw' = Psw /\ CountByte' = CountByte
    BY <1>1, <1>3, <2>1, SetUpStep
  <2>3. Computed(pc_m', Psw', HL', ResultByte', frames', own)
    BY <1>2, <2>2, ComputedFirst
  <2>4. EnableFollows /\ Fetched \in Working \cup {251, 243, 118}
    BY <1>3, <2>1, <2>2 DEF EnableFollows, Open, OpenMain, OpenRoutine, Working, Ordinary
  <2>5. pc_m' \notin {101, 102}
    BY <2>2
  <2>6. QED
    BY <2>2, <2>3, <2>4, <2>5, MainGoesOn DEF Main, InMain
<1>4. CASE pc_m = 68
  <2>1. Fetched = 62 /\ readNextByte = 88
    BY <1>4, MainCodeRead
  <2>2. /\ frames' = frames /\ StackLinked' /\ pc_m' = 70
        /\ Status' = Status /\ A' = 88 /\ CountByte' = CountByte
    BY <1>1, <1>4, <2>1, LoadStep
  <2>3. Psw' = Combine(88, 2)
    <3>1. 0 \in Byte /\ 2 \in Byte
      BY ByteRange
    <3>2. Status = 2
      BY <1>1, <1>2, <3>1, PswHalves DEF Works, Runs
    <3>3. QED
      BY <2>2, <3>2, NextPsw
  <2>4. Computed(pc_m', Psw', HL', ResultByte', frames', own)
    BY <1>2, <2>2, <2>3, ComputedFirst
  <2>5. EnableFollows /\ Fetched \in Working \cup {251, 243, 118}
    BY <1>4, <2>1, <2>2 DEF EnableFollows, Open, OpenMain, OpenRoutine, Working, Ordinary
  <2>6. pc_m' \notin {101, 102}
    BY <2>2
  <2>7. QED
    BY <2>2, <2>4, <2>5, <2>6, MainGoesOn DEF Main, InMain
<1>5. QED
  BY <1>3, <1>4

\* ADI, DAA, ACI and RAL.
LEMMA MainComputes ==
  ASSUME Going, NEW own \in {0, 1}, Main(own), pc_m \in {70, 72, 80, 82}
  PROVE  ProgramInv'
<1>1. /\ Works /\ instruction = opcodes_m[Fetched]
      /\ \A n \in {1, 2, 3} : After(n) = pc_m + n
  BY GoingWorks
<1>2. /\ pc_m = 70 => Fetched = 198 /\ readNextByte = 103
      /\ pc_m = 72 => Fetched = 39
      /\ pc_m = 80 => Fetched = 206 /\ readNextByte = 0
      /\ pc_m = 82 => Fetched = 23
  BY MainCodeRead
<1>3. Fetched \in {198, 206, 39, 23, 60, 175} /\ Fetched \in Working \cup {251, 243, 118}
  BY <1>2 DEF Working, Ordinary
<1>4. /\ frames' = frames /\ StackLinked' /\ CountByte' = CountByte
      /\ pc_m' = IF Fetched \in {198, 206} THEN After(2) ELSE After(1)
  BY <1>1, <1>3, ComputeStep
<1>5. /\ pc_m = 70 => pc_m' = 72 /\ Psw' = Combine(191, 130)
      /\ pc_m = 72 => pc_m' = 73 /\ Psw' = Carrying
      /\ pc_m = 80 => pc_m' = 82 /\ Psw' = Combine(38, 2)
      /\ pc_m = 82 => pc_m' = 83 /\ Psw' = Combine(76, 2)
  <2>1. /\ pc_m = 70 => pc_m' = 72
        /\ pc_m = 72 => pc_m' = 73
        /\ pc_m = 80 => pc_m' = 82
        /\ pc_m = 82 => pc_m' = 83
    BY <1>1, <1>2, <1>4
  <2>2. ASSUME pc_m = 70 PROVE Psw' = Combine(191, 130)
    <3>1. Psw = Combine(88, 2)
      BY <2>2, ComputedFirst DEF Main
    <3>2. QED
      BY <1>1, <1>2, <2>2, <3>1, AddStep
  <2>3. ASSUME pc_m = 72 PROVE Psw' = Carrying
    <3>1. Psw = Combine(191, 130)
      BY <2>3, ComputedFirst DEF Main
    <3>2. QED
      BY <1>1, <1>2, <2>3, <3>1, AdjustStep DEF Carrying
  <2>4. ASSUME pc_m = 80 PROVE Psw' = Combine(38, 2)
    <3>1. Psw = Combine(37, 3)
      BY <2>4, ComputedLast DEF Main, Carrying
    <3>2. QED
      BY <1>1, <1>2, <2>4, <3>1, AddStep
  <2>5. ASSUME pc_m = 82 PROVE Psw' = Combine(76, 2)
    <3>1. Psw = Combine(38, 2)
      BY <2>5, ComputedLast DEF Main
    <3>2. QED
      BY <1>1, <1>2, <2>5, <3>1, RotateStep
  <2>6. QED
    BY <2>1, <2>2, <2>3, <2>4, <2>5
<1>6. Computed(pc_m', Psw', HL', ResultByte', frames', own)
  <2>1. frames = <<>> /\ (pc_m \in {70, 72} => own = 0) /\ (pc_m \in {80, 82} => own = 1)
    BY ComputedFirst, ComputedLast DEF Main
  <2>2. CASE pc_m \in {70, 72}
    BY <1>4, <1>5, <2>1, <2>2, ComputedFirst
  <2>3. CASE pc_m \in {80, 82}
    BY <1>4, <1>5, <2>1, <2>3, ComputedLast
  <2>4. QED
    BY <2>2, <2>3
<1>7. EnableFollows
  BY <1>2, <1>5 DEF EnableFollows, Open, OpenMain, OpenRoutine
<1>8. pc_m' \notin {101, 102}
  BY <1>5
<1>9. QED
  BY <1>3, <1>4, <1>6, <1>7, <1>8, MainGoesOn DEF Main, InMain

\* The lists of one and two words.
LEMMA ShortLists ==
  ASSUME NEW first \in Word, NEW second \in Word
  PROVE  /\ <<first>> \o <<>> = <<first>>
         /\ <<first>> \o <<second>> = <<first, second>>
         /\ <<first>> # <<>> /\ Head(<<first>>) = first /\ Tail(<<first>>) = <<>>
         /\ <<first, second>> # <<>> /\ Head(<<first, second>>) = first
         /\ Tail(<<first, second>>) = <<second>>
         /\ Len(<<first>>) = 1
         /\ \A s \in Seq(Word) : Len(s) = 1 => s # <<>> /\ Tail(s) = <<>>
<1>1. <<first>> \o <<>> = <<first>> /\ <<first>> \o <<second>> = <<first, second>>
  <2>1. <<first>> \in Seq(Word) /\ <<second>> \in Seq(Word) /\ <<>> \in Seq(Word)
    OBVIOUS
  <2>2. <<first>> \o <<>> = <<first>>
    BY <2>1
  <2>3. <<first>> \o <<second>> = <<first, second>>
    <3> DEFINE s == <<first>> \o <<second>>
               t == <<first, second>>
    <3>1. s \in Seq(Word) /\ Len(s) = 2 /\ s[1] = first /\ s[2] = second
      BY <2>1
    <3>2. t \in Seq(Word) /\ Len(t) = 2 /\ t[1] = first /\ t[2] = second
      OBVIOUS
    <3> HIDE DEF s, t
    <3>3. \A i \in 1 .. Len(s) : s[i] = t[i]
      BY <3>1, <3>2
    <3>4. s = t
      BY <3>1, <3>2, <3>3, SeqEqual
    <3>5. QED
      BY <3>4 DEF s, t
  <2>4. QED
    BY <2>2, <2>3
<1>2. <<first>> # <<>> /\ Head(<<first>>) = first /\ Tail(<<first>>) = <<>>
  OBVIOUS
<1>3. /\ <<first, second>> # <<>> /\ Head(<<first, second>>) = first
      /\ Tail(<<first, second>>) = <<second>>
  OBVIOUS
<1>4. Len(<<first>>) = 1
  OBVIOUS
<1>5. \A s \in Seq(Word) : Len(s) = 1 => s # <<>> /\ Tail(s) = <<>>
  <2>1. SUFFICES ASSUME NEW s \in Seq(Word), Len(s) = 1
                 PROVE  s # <<>> /\ Tail(s) = <<>>
    OBVIOUS
  <2>2. s # <<>>
    BY <2>1
  <2>3. Tail(s) \in Seq(Word) /\ Len(Tail(s)) = 0
    BY <2>1, <2>2
  <2>4. QED
    BY <2>2, <2>3, EmptySeq
<1>6. QED
  BY <1>1, <1>2, <1>3, <1>4, <1>5, Zenon

LEMMA CarryingWord == Carrying \in Word /\ getBit(Carrying, 1) /\ 79 \in Word
BY WordRange DEF Carrying, Combine, getBit, Bit, Weight

\* PUSH PSW, the two XTHL and POP PSW.
LEMMA MainSaves ==
  ASSUME Going, NEW own \in {0, 1}, Main(own), pc_m \in {73, 74, 75, 79}
  PROVE  ProgramInv'
<1>1. /\ Works /\ instruction = opcodes_m[Fetched]
      /\ \A n \in {1, 2, 3} : After(n) = pc_m + n
  BY GoingWorks
<1>2. /\ pc_m = 73 => Fetched = 245
      /\ pc_m \in {74, 75} => Fetched = 227
      /\ pc_m = 79 => Fetched = 241
  BY MainCodeRead
<1>3. Fetched \in Working \cup {251, 243, 118}
  BY <1>2 DEF Working
<1>4. frames \in Seq(Word) /\ HL \in Word
  BY Sizes, OperandsRead DEF Going, CpuInv
<1>5. CASE pc_m = 73
  <2>1. Psw = Carrying /\ frames = <<>> /\ own = 0
    BY <1>5, ComputedFirst DEF Main
  <2>2. 2 * Len(frames) + 6 <= RamSize
    <3>1. Len(frames) <= asked + 3
      BY <2>1 DEF Going, ProgramInv
    <3>2. QED
      BY <3>1, Sizes DEF Going
  <2>3. /\ frames' = <<Psw>> \o frames /\ StackLinked' /\ pc_m' = 74
        /\ Psw' = Psw /\ CountByte' = CountByte
    BY <1>1, <1>2, <1>5, <2>2, PushStep
  <2>4. frames' = <<Carrying>>
    BY <2>1, <2>3, ShortLists, CarryingWord
  <2>5. Computed(pc_m', Psw', HL', ResultByte', frames', own)
    BY <2>1, <2>3, <2>4, ComputedFirst
  <2>6. EnableFollows /\ pc_m' \notin {101, 102}
    BY <1>2, <1>5, <2>3 DEF EnableFollows, Open, OpenMain, OpenRoutine
  <2>7. QED
    BY <1>3, <2>3, <2>5, <2>6, MainGoesOn DEF Main, InMain
<1>6. CASE pc_m = 74
  <2>1. Psw = Carrying /\ frames = <<Carrying>> /\ own = 0
    BY <1>6, ComputedFirst DEF Main
  <2>2. frames # <<>> /\ Head(frames) = Carrying /\ Tail(frames) = <<>>
    BY <2>1, ShortLists, CarryingWord
  <2>3. /\ frames' = <<HL>> \o Tail(frames) /\ StackLinked' /\ pc_m' = 75
        /\ HL' = Head(frames) /\ Psw' = Psw /\ CountByte' = CountByte
    BY <1>1, <1>2, <1>6, <2>2, ExchangeStep
  <2>4. Len(frames') = 1
    <3>1. frames' = <<HL>> \o <<>>
      BY <2>2, <2>3, Zenon
    <3>2. <<HL>> \o <<>> = <<HL>> /\ Len(<<HL>>) = 1
      BY <1>4, ShortLists
    <3>3. QED
      BY <3>1, <3>2, Zenon
  <2>5. Computed(pc_m', Psw', HL', ResultByte', frames', own)
    BY <2>1, <2>2, <2>3, <2>4, ComputedFirst
  <2>6. EnableFollows /\ pc_m' \notin {101, 102}
    BY <1>2, <1>6, <2>3 DEF EnableFollows, Open, OpenMain, OpenRoutine
  <2>7. QED
    BY <1>3, <2>3, <2>5, <2>6, MainGoesOn DEF Main, InMain
<1>7. CASE pc_m = 75
  <2>1. Psw = Carrying /\ HL = Carrying /\ Len(frames) = 1 /\ own = 0
    BY <1>7, ComputedFirst DEF Main
  <2>2. frames # <<>> /\ Tail(frames) = <<>>
    BY <1>4, <2>1, ShortLists
  <2>3. /\ frames' = <<HL>> \o Tail(frames) /\ StackLinked' /\ pc_m' = 76
        /\ Psw' = Psw /\ CountByte' = CountByte
    BY <1>1, <1>2, <1>7, <2>2, ExchangeStep
  <2>4. frames' = <<Carrying>>
    BY <2>1, <2>2, <2>3, ShortLists, CarryingWord
  <2>5. Computed(pc_m', Psw', HL', ResultByte', frames', own)
    <3>1. Psw' = Carrying /\ pc_m' = 76
      BY <2>1, <2>3
    <3>2. Computed(76, Psw', HL', ResultByte', frames', own)
      BY <2>1, <2>4, <3>1, ComputedFirst
    <3>3. QED
      BY <3>1, <3>2
  <2>6. EnableFollows /\ pc_m' \notin {101, 102}
    BY <1>2, <1>7, <2>3 DEF EnableFollows, Open, OpenMain, OpenRoutine
  <2>7. QED
    BY <1>3, <2>3, <2>5, <2>6, MainGoesOn DEF Main, InMain
<1>8. CASE pc_m = 79
  <2>1. frames = <<Carrying>> /\ own = 1
    BY <1>8, ComputedLast DEF Main
  <2>2. frames # <<>> /\ Head(frames) = Carrying /\ Tail(frames) = <<>>
    BY <2>1, ShortLists, CarryingWord
  <2>3. getBit(Carrying, 1)
    BY CarryingWord
  <2>4. /\ frames' = <<>> /\ StackLinked' /\ pc_m' = 80
        /\ Psw' = Carrying /\ CountByte' = CountByte
    <3>1. Fetched = 241 /\ getBit(Head(frames), 1) /\ After(1) = 80
      BY <1>1, <1>2, <1>8, <2>2, <2>3
    <3>2. /\ frames' = Tail(frames) /\ StackLinked' /\ pc_m' = After(1)
          /\ Psw' = Head(frames) /\ CountByte' = CountByte
      BY <1>1, <2>2, <3>1, PopStep
    <3>3. QED
      BY <2>2, <3>1, <3>2
  <2>5. Computed(pc_m', Psw', HL', ResultByte', frames', own)
    BY <2>1, <2>4, ComputedLast
  <2>6. EnableFollows /\ pc_m' \notin {101, 102}
    BY <1>2, <1>8, <2>4 DEF EnableFollows, Open, OpenMain, OpenRoutine
  <2>7. QED
    BY <1>3, <2>4, <2>5, <2>6, MainGoesOn DEF Main, InMain
<1>9. QED
  BY <1>5, <1>6, <1>7, <1>8

\* CC, taken, and RNC, not taken.
LEMMA MainBranches ==
  ASSUME Going, NEW own \in {0, 1}, Main(own), pc_m \in {76, 96}
  PROVE  ProgramInv'
<1>1. /\ Works /\ instruction = opcodes_m[Fetched]
      /\ \A n \in {1, 2, 3} : After(n) = pc_m + n
  BY GoingWorks
<1>2. CASE pc_m = 76
  <2>1. Psw = Carrying /\ frames = <<Carrying>> /\ own = 0
    BY <1>2, ComputedFirst DEF Main
  <2>2. Fetched = 220 /\ readNextTwoBytes = 96 /\ After(3) = 79
    BY <1>1, <1>2, MainCodeRead
  <2>3. 2 * Len(frames) + 6 <= RamSize
    <3>1. Len(frames) = 1
      BY <2>1, ShortLists, CarryingWord
    <3>2. Len(frames) <= asked + 3
      BY <3>1 DEF Going, ProgramInv
    <3>3. QED
      BY <3>2, Sizes DEF Going
  <2>4. /\ frames' = <<After(3)>> \o frames /\ StackLinked' /\ pc_m' = 96
        /\ Psw' = Psw /\ CountByte' = CountByte
    BY <1>1, <2>1, <2>2, <2>3, CallStep DEF Carrying
  <2>5. frames' = <<79, Carrying>>
    BY <2>1, <2>2, <2>4, ShortLists, CarryingWord
  <2>6. Computed(pc_m', Psw', HL', ResultByte', frames', own)
    <3>1. Psw' = Carrying /\ pc_m' = 96
      BY <2>1, <2>4
    <3>2. Computed(96, Psw', HL', ResultByte', frames', own)
      BY <2>1, <2>5, <3>1, ComputedFirst
    <3>3. QED
      BY <3>1, <3>2
  <2>7. /\ EnableFollows /\ pc_m' \notin {101, 102}
        /\ Fetched \in Working \cup {251, 243, 118}
    BY <1>2, <2>2, <2>4 DEF EnableFollows, Open, OpenMain, OpenRoutine, Working
  <2>8. QED
    BY <2>4, <2>6, <2>7, MainGoesOn DEF Main, InMain
<1>3. CASE pc_m = 96
  <2>1. Psw = Carrying /\ frames = <<79, Carrying>> /\ own = 0
    BY <1>3, ComputedFirst DEF Main
  <2>2. Fetched = 208 /\ After(1) = 97
    BY <1>1, <1>3, SubroutineCodeRead
  <2>3. /\ frames' = frames /\ StackLinked' /\ pc_m' = 97 /\ CountByte' = CountByte
    BY <1>1, <2>1, <2>2, StayStep DEF Carrying
  <2>4. Computed(pc_m', Psw', HL', ResultByte', frames', own)
    BY <2>1, <2>3, ComputedFirst
  <2>5. /\ EnableFollows /\ pc_m' \notin {101, 102}
        /\ Fetched \in Working \cup {251, 243, 118}
    BY <1>3, <2>2, <2>3 DEF EnableFollows, Open, OpenMain, OpenRoutine, Working
  <2>6. QED
    BY <2>3, <2>4, <2>5, MainGoesOn DEF Main, InMain
<1>4. QED
  BY <1>2, <1>3

\* A count and one more, modulo 256.
LEMMA OneMoreCount ==
  ASSUME NEW n \in Nat, NEW own \in {0, 1}
  PROVE  /\ ToByte(ToByte(n) + 1) = ToByte(n + 1)
         /\ ToByte(ToByte(n + own) + 1) = ToByte(n + 1 + own)
         /\ ToByte(ToByte(n + own)) = ToByte(n + own)
         /\ ToByte(ToByte(n + own) + 0) = ToByte(n + own)
BY DEF ToByte

\* STA, LXI H and INR M on the result.
LEMMA MainStores ==
  ASSUME Going, NEW own \in {0, 1}, Main(own), pc_m \in {83, 86, 89}
  PROVE  ProgramInv'
<1>1. /\ Works /\ instruction = opcodes_m[Fetched] /\ MachineOK
      /\ \A n \in {1, 2, 3} : After(n) = pc_m + n
  BY GoingWorks DEF Going, CpuInv
<1>2. ResultCell \in DataCells /\ ResultCell # CountCell
  BY DataInRam DEF DataCells
<1>3. CASE pc_m = 83
  <2>1. Psw = Combine(76, 2) /\ frames = <<>> /\ own = 1
    BY <1>3, ComputedLast DEF Main
  <2>2. Fetched = 50 /\ readNextTwoBytes = ResultCell /\ After(3) = 86
    BY <1>1, <1>3, MainCodeRead
  <2>3. A = 76
    <3>1. 76 \in Byte /\ 2 \in Byte
      BY ByteRange
    <3>2. QED
      BY <1>1, <2>1, <3>1, PswHalves
  <2>4. /\ frames' = frames /\ StackLinked' /\ pc_m' = 86
        /\ ResultByte' = 76 /\ CountByte' = CountByte
    BY <1>1, <1>2, <2>2, <2>3, StoreStep
  <2>5. Computed(pc_m', Psw', HL', ResultByte', frames', own)
    BY <2>1, <2>4, ComputedLast
  <2>6. /\ EnableFollows /\ pc_m' \notin {101, 102}
        /\ Fetched \in Working \cup {251, 243, 118}
    BY <1>3, <2>2, <2>4 DEF EnableFollows, Open, OpenMain, OpenRoutine, Working, Ordinary
  <2>7. QED
    BY <2>4, <2>5, <2>6, MainGoesOn DEF Main, InMain
<1>4. CASE pc_m = 86
  <2>1. ResultByte = 76 /\ frames = <<>> /\ own = 1
    BY <1>4, ComputedLast DEF Main
  <2>2. Fetched = 33 /\ readNextTwoBytes = ResultCell /\ After(3) = 89
    BY <1>1, <1>4, MainCodeRead
  <2>3. /\ frames' = frames /\ StackLinked' /\ pc_m' = 89 /\ HL' = ResultCell
        /\ ResultByte' = ResultByte /\ CountByte' = CountByte
    BY <1>1, <2>2, LoadStep
  <2>4. Computed(pc_m', Psw', HL', ResultByte', frames', own)
    BY <2>1, <2>3, ComputedLast
  <2>5. /\ EnableFollows /\ pc_m' \notin {101, 102}
        /\ Fetched \in Working \cup {251, 243, 118}
    BY <1>4, <2>2, <2>3 DEF EnableFollows, Open, OpenMain, OpenRoutine, Working, Ordinary
  <2>6. QED
    BY <2>3, <2>4, <2>5, MainGoesOn DEF Main, InMain
<1>5. CASE pc_m = 89
  <2>1. ResultByte = 76 /\ HL = ResultCell /\ frames = <<>> /\ own = 1
    BY <1>5, ComputedLast DEF Main
  <2>2. Fetched = 52 /\ After(1) = 90
    BY <1>1, <1>5, MainCodeRead
  <2>3. /\ frames' = frames /\ StackLinked' /\ pc_m' = 90
        /\ ResultByte' = ToByte(ResultByte + 1) /\ CountByte' = CountByte
    BY <1>1, <1>2, <2>1, <2>2, CountStep
  <2>4. ResultByte' = Expected
    BY <2>1, <2>3 DEF Expected, ToByte
  <2>5. Computed(pc_m', Psw', HL', ResultByte', frames', own)
    BY <2>1, <2>3, <2>4, ComputedLast
  <2>6. /\ EnableFollows /\ pc_m' \notin {101, 102}
        /\ Fetched \in Working \cup {251, 243, 118}
    BY <1>5, <2>2, <2>3 DEF EnableFollows, Open, OpenMain, OpenRoutine, Working, Ordinary
  <2>7. QED
    BY <2>3, <2>5, <2>6, MainGoesOn DEF Main, InMain
<1>6. QED
  BY <1>3, <1>4, <1>5

\* The count of the main program, which no routine can come between.
LEMMA MainCounts ==
  ASSUME Going, NEW own \in {0, 1}, Main(own), pc_m \in {98, 101, 102}
  PROVE  ProgramInv'
<1>1. /\ Works /\ instruction = opcodes_m[Fetched] /\ MachineOK
      /\ \A n \in {1, 2, 3} : After(n) = pc_m + n
  BY GoingWorks DEF Going, CpuInv
<1>2. CountCell \in DataCells /\ ResultCell # CountCell
  BY DataInRam DEF DataCells
<1>3. frames = <<79, Carrying>> /\ own = 0
  BY ComputedFirst DEF Main
<1>4. CASE pc_m = 98
  <2>1. Fetched = 58 /\ readNextTwoBytes = CountCell /\ After(3) = 101
    BY <1>1, <1>4, SubroutineCodeRead
  <2>2. /\ frames' = frames /\ StackLinked' /\ pc_m' = 101
        /\ CountByte' = CountByte /\ A' = memoryRead(CountCell)
    BY <1>1, <2>1, LoadStep
  <2>3. A' = CountByte'
    BY <2>2 DEF CountByte
  <2>4. Computed(pc_m', Psw', HL', ResultByte', frames', own)
    BY <1>3, <2>2, ComputedFirst
  <2>5. /\ EnableFollows /\ pc_m' # 102
        /\ Fetched \in Working \cup {251, 243, 118}
    BY <1>4, <2>1, <2>2 DEF EnableFollows, Open, OpenMain, OpenRoutine, Working, Ordinary
  <2>6. QED
    BY <2>2, <2>3, <2>4, <2>5, MainGoesOn DEF Main, InMain
<1>5. CASE pc_m = 101
  <2>1. Fetched = 60 /\ After(1) = 102
    BY <1>1, <1>5, SubroutineCodeRead
  <2>2. /\ frames' = frames /\ StackLinked' /\ pc_m' = 102 /\ CountByte' = CountByte
    BY <1>1, <2>1, ComputeStep
  <2>3. A' = ToByte(CountByte' + 1)
    BY <1>1, <1>5, <2>1, <2>2, OneMoreStep DEF Main
  <2>4. Computed(pc_m', Psw', HL', ResultByte', frames', own)
    BY <1>3, <2>2, ComputedFirst
  <2>5. /\ EnableFollows /\ pc_m' # 101
        /\ Fetched \in Working \cup {251, 243, 118}
    BY <1>5, <2>1, <2>2 DEF EnableFollows, Open, OpenMain, OpenRoutine, Working, Ordinary
  <2>6. QED
    BY <2>2, <2>3, <2>4, <2>5, MainGoesOn DEF Main, InMain
<1>6. CASE pc_m = 102
  <2>1. Fetched = 50 /\ readNextTwoBytes = CountCell /\ After(3) = 105
    BY <1>1, <1>6, SubroutineCodeRead
  <2>2. /\ frames' = frames /\ StackLinked' /\ pc_m' = 105 /\ CountByte' = A
    BY <1>1, <1>2, <2>1, StoreStep
  <2>3. CountByte' = ToByte(counted + 1)
    <3>1. A = ToByte(CountByte + 1) /\ CountByte = ToByte(counted + 0)
      BY <1>3, <1>6 DEF Main
    <3>2. counted \in Nat /\ counted + 0 = counted
      BY DEF Going, ProgramInv
    <3>3. ToByte(ToByte(counted) + 1) = ToByte(counted + 1)
      BY <3>2, OneMoreCount
    <3>4. QED
      BY <2>2, <3>1, <3>2, <3>3
  <2>4. Computed(pc_m', Psw', HL', ResultByte', frames', 1)
    BY <1>3, <2>2, ComputedLast
  <2>5. /\ EnableFollows /\ pc_m' \notin {101, 102}
        /\ Fetched \in Working \cup {251, 243, 118}
    BY <1>6, <2>1, <2>2 DEF EnableFollows, Open, OpenMain, OpenRoutine, Working, Ordinary
  <2>6. QED
    BY <2>2, <2>3, <2>4, <2>5, MainGoesOn DEF Main, InMain
<1>7. QED
  BY <1>4, <1>5, <1>6

\* The subroutine returns.
LEMMA MainReturns ==
  ASSUME Going, NEW own \in {0, 1}, Main(own), pc_m = 106
  PROVE  ProgramInv'
<1>1. Works /\ instruction = opcodes_m[Fetched]
  BY GoingWorks
<1>2. Fetched = 201
  BY SubroutineCodeRead
<1>3. frames = <<79, Carrying>> /\ own = 1
  BY ComputedLast DEF Main
<1>4. frames # <<>> /\ Head(frames) = 79 /\ Tail(frames) = <<Carrying>>
  BY <1>3, ShortLists, CarryingWord
<1>5. /\ frames' = <<Carrying>> /\ StackLinked' /\ pc_m' = 79 /\ CountByte' = CountByte
  BY <1>1, <1>2, <1>4, ReturnStep
<1>6. Computed(pc_m', Psw', HL', ResultByte', frames', own)
  <2>1. Computed(79, Psw', HL', ResultByte', frames', own)
    BY <1>3, <1>5, ComputedLast
  <2>2. QED
    BY <1>5, <2>1
<1>7. /\ EnableFollows /\ pc_m' \notin {101, 102}
      /\ Fetched \in Working \cup {251, 243, 118}
  BY <1>2, <1>5 DEF EnableFollows, Open, OpenMain, OpenRoutine, Working
<1>8. QED
  BY <1>5, <1>6, <1>7, MainGoesOn DEF Main, InMain

-----------------------------------------------------------------------------
\* A routine goes on.
LEMMA RoutineGoesOn ==
  ASSUME Going, Fetched \in Working \cup {251, 243, 118}, EnableFollows, StackLinked',
         NEW depth \in Nat, Routine(depth),
         Bare(depth)' \/ SavedPsw(depth)' \/ SavedBoth(depth)'
  PROVE  ProgramInv'
<1>1. Works /\ instruction = opcodes_m[Fetched]
  BY GoingWorks
<1>2. interruptRequested_m' = interruptRequested_m
  BY <1>1, ProgramControl DEF Works
<1>3. asked' = asked
  BY DEF Going, Cycle
<1>4. Pending' = Pending
  BY <1>2 DEF Pending
<1>5. Routine(depth)'
  BY <1>3, <1>4 DEF Routine
<1>6. InRoutine'
  BY <1>5 DEF InRoutine
<1>7. QED
  BY <1>6, InstructionKeeps

\* A word on top of a list.
LEMMA OnTop ==
  ASSUME NEW word \in Word, NEW s \in Seq(Word)
  PROVE  LET t == <<word>> \o s
         IN  t # <<>> /\ Head(t) = word /\ Tail(t) = s
<1> DEFINE t == <<word>> \o s
<1>1. t # <<>> /\ Head(t) = word
  OBVIOUS
<1>2. Tail(t) = s
  <2>1. t \in Seq(Word) /\ Len(t) = 1 + Len(s) /\ Len(s) \in Nat
    OBVIOUS
  <2>2. \A i \in 1 .. Len(s) : t[1 + i] = s[i]
    OBVIOUS
  <2> HIDE DEF t
  <2>3. Tail(t) \in Seq(Word) /\ Len(Tail(t)) = Len(s)
        /\ \A i \in 1 .. Len(s) : Tail(t)[i] = t[i + 1]
    BY <1>1, <2>1
  <2>4. \A i \in 1 .. Len(Tail(t)) : Tail(t)[i] = s[i]
    BY <2>1, <2>2, <2>3
  <2>5. QED
    BY <2>3, <2>4, SeqEqual
<1>3. QED
  BY <1>1, <1>2

\* The way to a routine, and EI at its end.
LEMMA RoutineControl ==
  ASSUME Going, NEW depth \in Nat, Routine(depth), pc_m \in {8, 16, 41}
  PROVE  ProgramInv'
<1>1. Works /\ instruction = opcodes_m[Fetched] /\ After(1) = pc_m + 1
  BY GoingWorks
<1>2. /\ pc_m = 8 => Fetched = 195 /\ readNextTwoBytes = 32
      /\ pc_m \in {16, 41} => Fetched = 251
  BY VectorCode, RoutineCode
<1>3. Fetched \in {195, 251, 243, 118} /\ Fetched \in Working \cup {251, 243, 118}
      /\ Fetched # 118
  BY <1>2 DEF Working, Ordinary
<1>4. /\ frames' = frames /\ StackLinked'
      /\ Psw' = Psw /\ HL' = HL
      /\ CountByte' = CountByte /\ ResultByte' = ResultByte
      /\ pc_m' = IF Fetched = 195 THEN readNextTwoBytes ELSE After(1)
  BY <1>1, <1>3, ControlStep
<1>5. /\ pc_m = 8 => pc_m' = 32
      /\ pc_m = 16 => pc_m' = 17
      /\ pc_m = 41 => pc_m' = 42
  BY <1>1, <1>2, <1>4
<1>6. Suspended(frames, depth, Psw, HL, ResultByte, Total, counted)
  BY DEF Routine, Bare, SavedPsw, SavedBoth
<1>7. counted' = counted /\ Total' = Total
  <2>1. Due' = Due
    BY <1>5 DEF Due
  <2>2. QED
    BY <1>4, <2>1 DEF Total, Going, Cycle, Execute
<1>8. Bare(depth)'
  BY <1>4, <1>5, <1>6, <1>7 DEF Bare
<1>9. EnableFollows
  BY <1>2, <1>5 DEF EnableFollows, Open, OpenMain, OpenRoutine
<1>10. QED
  BY <1>3, <1>4, <1>8, <1>9, RoutineGoesOn

\* PUSH PSW and PUSH H.
LEMMA RoutineSaves ==
  ASSUME Going, NEW depth \in Nat, Routine(depth), pc_m \in {32, 33}
  PROVE  ProgramInv'
<1>1. Works /\ instruction = opcodes_m[Fetched] /\ After(1) = pc_m + 1
  BY GoingWorks
<1>2. /\ pc_m = 32 => Fetched = 245
      /\ pc_m = 33 => Fetched = 229
  BY RoutineCode
<1>3. Fetched \in {245, 229} /\ Fetched \in Working \cup {251, 243, 118}
  BY <1>2 DEF Working
<1>4. frames \in Seq(Word) /\ HL \in Word /\ Psw \in Word
  <2>1. frames \in Seq(Word) /\ MachineOK /\ HL \in Word
    BY Sizes, OperandsRead DEF Going, CpuInv
  <2>2. Psw = Combine(A, Status) /\ A \in Byte /\ Status \in Byte
    BY <2>1, PswHalves
  <2>3. Psw \in Word
    BY <2>2, ByteRange, WordRange DEF Combine
  <2>4. QED
    BY <2>1, <2>3
<1>5. /\ pc_m = 32 => Bare(depth)
      /\ pc_m = 33 => SavedPsw(depth)
  BY DEF Routine, Bare, SavedPsw, SavedBoth
<1>6. 2 * Len(frames) + 6 <= RamSize
  <2>1. Len(frames) <= depth + 3
    BY <1>5, Sizes DEF Going, Routine
  <2>2. depth <= asked /\ asked \in Nat /\ Len(frames) \in Nat
    BY Sizes DEF Going, Routine, ProgramInv
  <2>3. Len(frames) <= asked + 3
    BY <2>1, <2>2
  <2>4. QED
    BY <2>3, Sizes DEF Going
<1>7. /\ pc_m = 32 => frames' = <<Psw>> \o frames
      /\ pc_m = 33 => frames' = <<HL>> \o frames
      /\ StackLinked' /\ HL' = HL /\ pc_m' = pc_m + 1
      /\ CountByte' = CountByte /\ ResultByte' = ResultByte
  BY <1>1, <1>2, <1>3, <1>6, PushStep
<1>8. counted' = counted /\ Total' = Total
  <2>1. Due' = Due
    BY <1>7 DEF Due
  <2>2. QED
    BY <1>7, <2>1 DEF Total, Going, Cycle, Execute
<1>9. EnableFollows
  BY <1>2, <1>7 DEF EnableFollows, Open, OpenMain, OpenRoutine
<1>10. CASE pc_m = 32
  <2>1. frames' # <<>> /\ Head(frames') = Psw /\ Tail(frames') = frames
    BY <1>4, <1>7, <1>10, OnTop
  <2>2. Suspended(frames, depth, Psw, HL, ResultByte, Total, counted)
    BY <1>5, <1>10 DEF Bare
  <2>3. pc_m' \in {33, 40}
    BY <1>7, <1>10
  <2>4. Suspended(Tail(frames'), depth, Head(frames'), HL', ResultByte', Total', counted')
    BY <1>7, <1>8, <2>1, <2>2
  <2>5. SavedPsw(depth)'
    BY <2>1, <2>3, <2>4 DEF SavedPsw
  <2>6. QED
    BY <1>3, <1>7, <1>9, <2>5, RoutineGoesOn
<1>11. CASE pc_m = 33
  <2>1. frames' # <<>> /\ Head(frames') = HL /\ Tail(frames') = frames
    BY <1>4, <1>7, <1>11, OnTop
  <2>2. /\ frames # <<>>
        /\ Suspended(Tail(frames), depth, Head(frames), HL, ResultByte, Total, counted)
    BY <1>5, <1>11 DEF SavedPsw
  <2>3. pc_m' = 34
    BY <1>7, <1>11
  <2>4. Suspended(Tail(Tail(frames')), depth, Head(Tail(frames')), Head(frames'),
                  ResultByte', Total', counted')
    BY <1>7, <1>8, <2>1, <2>2
  <2>5. SavedBoth(depth)'
    BY <2>1, <2>2, <2>3, <2>4 DEF SavedBoth
  <2>6. QED
    BY <1>3, <1>7, <1>9, <2>5, RoutineGoesOn
<1>12. QED
  BY <1>10, <1>11

\* LXI H, INR M and XRA A: the count of the routine.
LEMMA RoutineCounts ==
  ASSUME Going, NEW depth \in Nat, Routine(depth), pc_m \in {34, 37, 38}
  PROVE  ProgramInv'
<1>1. /\ Works /\ instruction = opcodes_m[Fetched] /\ MachineOK
      /\ \A n \in {1, 2, 3} : After(n) = pc_m + n
  BY GoingWorks DEF Going, CpuInv
<1>2. CountCell \in DataCells /\ ResultCell # CountCell /\ CountByte \in Byte
  <2>1. CountCell \in DataCells /\ ResultCell # CountCell /\ CountCell \in Word
    BY DataInRam DEF DataCells
  <2>2. QED
    BY <1>1, <2>1, OperandsRead DEF CountByte
<1>3. /\ pc_m = 34 => Fetched = 33 /\ readNextTwoBytes = CountCell
      /\ pc_m = 37 => Fetched = 52
      /\ pc_m = 38 => Fetched = 175
  BY RoutineCode
<1>4. Fetched \in Working \cup {251, 243, 118}
  BY <1>3 DEF Working, Ordinary
<1>5. /\ SavedBoth(depth)
      /\ frames # <<>> /\ Tail(frames) # <<>>
      /\ Suspended(Tail(Tail(frames)), depth, Head(Tail(frames)), Head(frames),
                   ResultByte, Total, counted)
  BY DEF Routine, Bare, SavedPsw, SavedBoth
<1>6. /\ frames' = frames /\ StackLinked' /\ ResultByte' = ResultByte
      /\ pc_m = 34 => pc_m' = 37 /\ HL' = CountCell /\ CountByte' = CountByte
      /\ pc_m = 37 => pc_m' = 38 /\ CountByte' = ToByte(CountByte + 1)
      /\ pc_m = 38 => pc_m' = 39 /\ CountByte' = CountByte
  <2>1. CASE pc_m = 34
    BY <1>1, <1>3, <2>1, LoadStep
  <2>2. CASE pc_m = 37
    <3>1. HL = CountCell
      BY <1>5, <2>2 DEF SavedBoth
    <3>2. QED
      BY <1>1, <1>2, <1>3, <2>2, <3>1, CountStep
  <2>3. CASE pc_m = 38
    BY <1>1, <1>3, <2>3, ComputeStep
  <2>4. QED
    BY <2>1, <2>2, <2>3
<1>7. Total' = Total
  <2>1. CASE pc_m = 34
    <3>1. Due' = Due
      BY <1>6, <2>1 DEF Due
    <3>2. QED
      BY <1>6, <2>1, <3>1 DEF Total
  <2>2. CASE pc_m = 37
    <3>1. Due' = 0 /\ Due = 1
      BY <1>6, <2>2 DEF Due
    <3>2. ToByte(ToByte(CountByte + 1) + 0) = ToByte(CountByte + 1)
      BY <1>2, ByteRange DEF ToByte
    <3>3. QED
      BY <1>6, <2>2, <3>1, <3>2 DEF Total
  <2>3. CASE pc_m = 38
    <3>1. Due' = Due
      BY <1>6, <2>3 DEF Due
    <3>2. QED
      BY <1>6, <2>3, <3>1 DEF Total
  <2>4. QED
    BY <2>1, <2>2, <2>3
<1>8. counted' = counted
  BY DEF Going, Cycle, Execute
<1>9. SavedBoth(depth)'
  <2>1. pc_m' \in {34, 37, 38, 39} /\ (pc_m' = 37 => HL' = CountCell)
    BY <1>6
  <2>2. Suspended(Tail(Tail(frames')), depth, Head(Tail(frames')), Head(frames'),
                  ResultByte', Total', counted')
    BY <1>5, <1>6, <1>7, <1>8
  <2>3. QED
    BY <1>5, <1>6, <2>1, <2>2 DEF SavedBoth
<1>10. EnableFollows
  BY <1>3, <1>6 DEF EnableFollows, Open, OpenMain, OpenRoutine
<1>11. QED
  BY <1>4, <1>6, <1>9, <1>10, RoutineGoesOn

\* POP H and POP PSW.
LEMMA RoutineRestores ==
  ASSUME Going, NEW depth \in Nat, Routine(depth), pc_m \in {39, 40}
  PROVE  ProgramInv'
<1>1. Works /\ instruction = opcodes_m[Fetched] /\ After(1) = pc_m + 1
  BY GoingWorks
<1>2. /\ pc_m = 39 => Fetched = 225
      /\ pc_m = 40 => Fetched = 241
  BY RoutineCode
<1>3. Fetched \in {241, 225} /\ Fetched \in Working \cup {251, 243, 118}
  BY <1>2 DEF Working
<1>4. frames # <<>>
  BY DEF Routine, Bare, SavedPsw, SavedBoth
<1>5. /\ frames' = Tail(frames) /\ StackLinked' /\ pc_m' = pc_m + 1
      /\ pc_m = 40 => HL' = HL /\ (getBit(Head(frames), 1) => Psw' = Head(frames))
      /\ pc_m = 39 => HL' = Head(frames)
      /\ CountByte' = CountByte /\ ResultByte' = ResultByte
  BY <1>1, <1>2, <1>3, <1>4, PopStep
<1>6. counted' = counted /\ Total' = Total
  <2>1. Due' = Due
    BY <1>5 DEF Due
  <2>2. QED
    BY <1>5, <2>1 DEF Total, Going, Cycle, Execute
<1>7. EnableFollows
  BY <1>2, <1>5 DEF EnableFollows, Open, OpenMain, OpenRoutine
<1>8. CASE pc_m = 39
  <2>1. /\ Tail(frames) # <<>>
        /\ Suspended(Tail(Tail(frames)), depth, Head(Tail(frames)), Head(frames),
                     ResultByte, Total, counted)
    BY <1>8 DEF Routine, Bare, SavedPsw, SavedBoth
  <2>2. pc_m' \in {33, 40}
    BY <1>5, <1>8
  <2>3. HL' = Head(frames)
    BY <1>5, <1>8
  <2>4. Suspended(Tail(frames'), depth, Head(frames'), HL', ResultByte', Total', counted')
    BY <1>5, <1>6, <2>1, <2>3
  <2>5. SavedPsw(depth)'
    BY <1>5, <2>1, <2>2, <2>4 DEF SavedPsw
  <2>6. QED
    BY <1>3, <1>5, <1>7, <2>5, RoutineGoesOn
<1>9. CASE pc_m = 40
  <2>1. Suspended(Tail(frames), depth, Head(frames), HL, ResultByte, Total, counted)
    BY <1>9 DEF Routine, Bare, SavedPsw, SavedBoth
  <2>2. getBit(Head(frames), 1)
    BY <2>1 DEF Suspended
  <2>3. Psw' = Head(frames) /\ HL' = HL
    BY <1>5, <1>9, <2>2
  <2>4. pc_m' = 41
    BY <1>5, <1>9
  <2>5. Suspended(frames', depth, Psw', HL', ResultByte', Total', counted')
    BY <1>5, <1>6, <2>1, <2>3
  <2>6. Bare(depth)'
    BY <2>4, <2>5 DEF Bare
  <2>7. QED
    BY <1>3, <1>5, <1>7, <2>6, RoutineGoesOn
<1>10. QED
  BY <1>8, <1>9

\* A routine returns, to the main program or to a routine that it interrupted.
LEMMA RoutineReturns ==
  ASSUME Going, NEW depth \in Nat, Routine(depth), pc_m \in {17, 42}
  PROVE  ProgramInv'
<1>1. Works /\ instruction = opcodes_m[Fetched]
  BY GoingWorks
<1>2. Fetched = 201 /\ Fetched \in Working \cup {251, 243, 118}
  <2>1. Fetched = 201
    BY VectorCode, RoutineCode
  <2>2. QED
    BY <2>1 DEF Working
<1>3. /\ 1 <= depth /\ depth + Pending <= asked
      /\ Suspended(frames, depth, Psw, HL, ResultByte, Total, counted)
  BY DEF Routine, Bare, SavedPsw, SavedBoth
<1>4. PICK p \in OpenMain, list \in Seq(Word), own \in {0, 1} :
        /\ Computed(p, Psw, HL, ResultByte, list, own)
        /\ getBit(Psw, 1)
        /\ Total = ToByte(counted + own)
        /\ Nested(frames, depth, p, list)
  BY <1>3 DEF Suspended
<1>5. frames \in Seq(Word) /\ Pending \in {0, 1} /\ asked \in Nat
  BY Sizes DEF Going, ProgramInv
<1>6. /\ frames # <<>>
      /\ depth = 1 => Head(frames) = p /\ Tail(frames) = list
      /\ depth # 1 => Head(frames) \in OpenRoutine /\ Nested(Tail(frames), depth - 1, p, list)
  BY <1>3, <1>4, <1>5, NestedTop
<1>7. /\ frames' = Tail(frames) /\ StackLinked' /\ pc_m' = Head(frames)
      /\ Psw' = Psw /\ HL' = HL
      /\ CountByte' = CountByte /\ ResultByte' = ResultByte
  BY <1>1, <1>2, <1>6, ReturnStep
<1>8. Open(pc_m') /\ Open(pc_m)
  <2>1. CASE depth = 1
    BY <1>4, <1>6, <1>7, <2>1 DEF Open, OpenRoutine
  <2>2. CASE depth # 1
    BY <1>6, <1>7, <2>2 DEF Open, OpenRoutine
  <2>3. QED
    BY <2>1, <2>2
<1>9. EnableFollows
  BY <1>2, <1>8 DEF EnableFollows
<1>10. /\ interruptRequested_m' = interruptRequested_m
       /\ asked' = asked /\ counted' = counted
  <2>1. interruptRequested_m' = interruptRequested_m
    BY <1>1, <1>2, ProgramControl DEF Works
  <2>2. QED
    BY <2>1 DEF Going, Cycle, Execute
<1>11. CountByte = ToByte(counted + own) /\ Total = CountByte
  <2>1. Due = 0
    BY DEF Due
  <2>2. CountByte \in Byte
    <3>1. CountCell \in Word /\ MachineOK
      BY DataInRam DEF Going, CpuInv
    <3>2. QED
      BY <3>1, OperandsRead DEF CountByte
  <2>3. ToByte(CountByte + 0) = CountByte
    BY <2>2, ByteRange DEF ToByte
  <2>4. QED
    BY <1>4, <2>1, <2>3 DEF Total
<1>12. CASE depth = 1
  <2>1. pc_m' = p /\ frames' = list
    BY <1>6, <1>7, <1>12
  <2>2. Computed(pc_m', Psw', HL', ResultByte', frames', own)
    BY <1>4, <1>7, <2>1
  <2>3. pc_m' \notin {101, 102}
    BY <2>1 DEF OpenMain
  <2>4. Pending' <= asked'
    BY <1>3, <1>5, <1>10 DEF Pending
  <2>5. CountByte' = ToByte(counted' + own)
    BY <1>7, <1>10, <1>11
  <2>6. Main(own)'
    BY <2>2, <2>3, <2>4, <2>5 DEF Main
  <2>7. InMain'
    BY <2>6 DEF InMain
  <2>8. QED
    BY <1>2, <1>7, <1>9, <2>7, InstructionKeeps
<1>13. CASE depth # 1
  <2>1. pc_m' \in {17, 42} /\ Nested(frames', depth - 1, p, list)
    BY <1>6, <1>7, <1>13 DEF OpenRoutine
  <2>2. Total' = Total
    <3>1. Due' = 0 /\ Due = 0
      BY <2>1 DEF Due
    <3>2. QED
      BY <1>7, <3>1 DEF Total
  <2>3. Suspended(frames', depth - 1, Psw', HL', ResultByte', Total', counted')
    BY <1>4, <1>7, <1>10, <2>1, <2>2 DEF Suspended
  <2>4. Bare(depth - 1)'
    BY <2>1, <2>3 DEF Bare
  <2>5. depth - 1 \in Nat /\ 1 <= depth - 1
    BY <1>3, <1>13
  <2>6. depth - 1 + Pending' <= asked'
    <3>1. Pending' = Pending
      BY <1>10 DEF Pending
    <3>2. QED
      BY <1>3, <1>5, <1>10, <3>1
  <2>7. Routine(depth - 1)'
    BY <2>4, <2>5, <2>6 DEF Routine
  <2>8. InRoutine'
    BY <2>5, <2>7 DEF InRoutine
  <2>9. QED
    BY <1>2, <1>7, <1>9, <2>8, InstructionKeeps
<1>14. QED
  BY <1>12, <1>13

-----------------------------------------------------------------------------
\* One instruction of the program, wherever it is.
LEMMA ExecuteKeeps ==
  ASSUME Going
  PROVE  ProgramInv'
<1>1. CASE InMain
  <2>1. PICK own \in {0, 1} : Main(own)
    BY <1>1 DEF InMain
  <2>2. pc_m \in MainPoints
    BY <2>1, MainPlaces DEF Main
  <2>3. \/ pc_m \in {0, 67, 90, 91, 92, 97, 105}
        \/ pc_m \in {64, 68}
        \/ pc_m \in {70, 72, 80, 82}
        \/ pc_m \in {73, 74, 75, 79}
        \/ pc_m \in {76, 96}
        \/ pc_m \in {83, 86, 89}
        \/ pc_m \in {98, 101, 102}
        \/ pc_m = 106
    BY <2>2 DEF MainPoints, OpenMain
  <2>4. QED
    BY <2>1, <2>3, MainControl, MainSetsUp, MainComputes, MainSaves, MainBranches,
       MainStores, MainCounts, MainReturns
<1>2. CASE InRoutine
  <2>1. PICK depth \in Nat : Routine(depth)
    BY <1>2 DEF InRoutine
  <2>2. pc_m \in {8, 16, 17, 32, 41, 42} \cup {33, 40} \cup {34, 37, 38, 39}
    BY <2>1 DEF Routine, Bare, SavedPsw, SavedBoth
  <2>3. \/ pc_m \in {8, 16, 41}
        \/ pc_m \in {32, 33}
        \/ pc_m \in {34, 37, 38}
        \/ pc_m \in {39, 40}
        \/ pc_m \in {17, 42}
    BY <2>2
  <2>4. QED
    BY <2>1, <2>3, RoutineControl, RoutineSaves, RoutineCounts, RoutineRestores,
       RoutineReturns
<1>3. QED
  BY <1>1, <1>2 DEF Going, ProgramInv

\* A step that moves neither the program nor what it has computed.
LEMMA SamePlace ==
  ASSUME InMain \/ InRoutine, asked \in Nat, Pending \in {0, 1},
         pc_m' = pc_m, registers_m' = registers_m, contents' = contents,
         regions_m' = regions_m, frames' = frames, counted' = counted,
         asked' \in Nat,
         \A n \in Nat : n + Pending <= asked => n + Pending' <= asked'
  PROVE  InMain' \/ InRoutine'
<1>1. Psw' = Psw /\ HL' = HL /\ A' = A
  BY SameRegisters
<1>2. CountByte' = CountByte /\ ResultByte' = ResultByte
  BY SameMemory
<1>3. Total' = Total
  <2>1. Due' = Due
    BY DEF Due
  <2>2. QED
    BY <1>2, <2>1 DEF Total
<1>4. CASE InMain
  <2>1. PICK own \in {0, 1} : Main(own)
    BY <1>4 DEF InMain
  <2>2. Computed(pc_m', Psw', HL', ResultByte', frames', own)
    BY <1>1, <1>2, <2>1 DEF Main
  <2>3. CountByte' = ToByte(counted' + own)
    BY <1>2, <2>1 DEF Main
  <2>4. (pc_m' = 101 => A' = CountByte') /\ (pc_m' = 102 => A' = ToByte(CountByte' + 1))
    BY <1>1, <1>2, <2>1 DEF Main
  <2>5. Pending' <= asked'
    <3>1. Pending <= asked
      BY <2>1 DEF Main
    <3> DEFINE now == Pending
               next == Pending'
    <3>2. next \in {0, 1}
      BY DEF Pending
    <3>3. 0 + now <= asked => 0 + next <= asked'
      BY 0 \in Nat, Zenon
    <3> HIDE DEF now, next
    <3>4. now \in {0, 1}
      BY DEF now
    <3>5. now <= asked
      BY <3>1, Zenon DEF now
    <3>6. next <= asked'
      BY <3>2, <3>3, <3>4, <3>5
    <3>7. QED
      BY <3>6, Zenon DEF next
  <2>6. Main(own)'
    BY <2>2, <2>3, <2>4, <2>5 DEF Main
  <2>7. QED
    BY <2>6 DEF InMain
<1>5. CASE InRoutine
  <2>1. PICK depth \in Nat : Routine(depth)
    BY <1>5 DEF InRoutine
  <2>2. Bare(depth) => Bare(depth)'
    BY <1>1, <1>2, <1>3 DEF Bare
  <2>3. SavedPsw(depth) => SavedPsw(depth)'
    BY <1>1, <1>2, <1>3 DEF SavedPsw
  <2>4. SavedBoth(depth) => SavedBoth(depth)'
    BY <1>1, <1>2, <1>3 DEF SavedBoth
  <2>5. 1 <= depth /\ depth + Pending' <= asked'
    <3>1. 1 <= depth /\ depth + Pending <= asked
      BY <2>1 DEF Routine
    <3> DEFINE now == Pending
               next == Pending'
    <3>2. depth + now <= asked => depth + next <= asked'
      BY Zenon
    <3> HIDE DEF now, next
    <3>3. depth + next <= asked'
      BY <3>1, <3>2, Zenon DEF now
    <3>4. QED
      BY <3>1, <3>3, Zenon DEF next
  <2>6. Routine(depth)'
    BY <2>1, <2>2, <2>3, <2>4, <2>5 DEF Routine
  <2>7. QED
    BY <2>6 DEF InRoutine
<1>6. QED
  BY <1>4, <1>5

\* A cycle that takes an interrupt: the main program, or a routine that has
\* run EI, is left where it is, with what it has computed.
LEMMA InterruptKeeps ==
  ASSUME CpuInv, StackInv, ProgramInv, Cycle, AcceptInterrupt
  PROVE  ProgramInv'
<1>1. Accepts /\ enabledNow /\ interruptRequested_m
  BY DEF AcceptInterrupt, Taken, Accepts
<1>2. Open(pc_m) /\ interruptVectorRequested_m \in {1, 2} /\ Pending = 1
  BY <1>1 DEF ProgramInv, Pending
<1>3. frames \in Seq(Word) /\ Len(frames) \in Nat /\ StackAtTop /\ asked \in Nat
  BY Sizes DEF ProgramInv
<1>4. Len(frames) <= asked + 3
  <2>1. CASE InMain
    <3>1. Len(frames) <= 2
      BY <2>1, Sizes
    <3>2. QED
      BY <1>3, <3>1
  <2>2. CASE InRoutine
    <3>1. PICK depth \in Nat : Routine(depth)
      BY <2>2 DEF InRoutine
    <3>2. 1 <= depth /\ depth + 1 <= asked
      BY <1>2, <3>1 DEF Routine
    <3>3. Len(frames) <= depth + 4
      <4>1. /\ Bare(depth) => Len(frames) <= depth + 2
            /\ SavedPsw(depth) => Len(frames) <= depth + 3
            /\ SavedBoth(depth) => Len(frames) <= depth + 4
        BY <3>2, Sizes
      <4>2. QED
        BY <1>3, <3>1, <4>1 DEF Routine
    <3>4. QED
      BY <1>3, <3>2, <3>3
  <2>3. QED
    BY <2>1, <2>2 DEF ProgramInv
<1>5. frames' = Grown(pc_m)
  BY <1>1 DEF Cycle, CycleH, FramesAfterCycle
<1>6. interruptVectorRequested_m \in Byte /\ 2 * Len(frames) + 6 <= RamSize
  BY <1>4, Sizes DEF CpuInv
<1>7. /\ frames' = <<pc_m>> \o frames /\ StackLinked'
      /\ pc_m' = 8 * interruptVectorRequested_m
      /\ Psw' = Psw /\ HL' = HL
      /\ CountByte' = CountByte /\ ResultByte' = ResultByte
      /\ ~enabledNow' /\ ~halted_m' /\ ~interruptRequested_m'
  BY <1>3, <1>5, <1>6, InterruptStep
<1>8. /\ pc_m' \in {8, 16} /\ Pending' = 0
      /\ pc_m' = 8 <=> interruptVectorRequested_m = 1
  <2>1. pc_m' \in {8, 16} /\ (pc_m' = 8 <=> interruptVectorRequested_m = 1)
    BY <1>2, <1>7
  <2>2. QED
    BY <1>7, <2>1 DEF Pending
<1>9. /\ counted' = IF pc_m' = 8 THEN counted + 1 ELSE counted
      /\ asked' = asked /\ resets' = resets
  BY <1>1, <1>8 DEF Cycle
<1>10. contents'[rom] = ROM
  <2>1. Stored(contents')
    BY CycleLegal DEF Cycle, CycleH, Handled, LegalStep
  <2>2. QED
    BY <2>1, BoardRegions DEF Stored, ProgramInv
<1>11. pc_m \in Word /\ counted \in Nat
  BY DEF CpuInv, MachineOK, ProgramInv
<1>12. MachineOK
  BY DEF CpuInv
<1>13. getBit(Psw, 1)
  <2>1. Psw = Combine(A, Status) /\ A \in Byte /\ Status \in Byte
    BY <1>12, PswHalves
  <2>2. getBit(Status, 1)
    BY <1>12 DEF MachineOK, File, Status
  <2>3. QED
    BY <2>1, <2>2, ByteRange DEF getBit, Bit, Weight, Combine
<1>14. ASSUME InRoutine'
       PROVE  ProgramInv'
  <2>1. enabledNow' <=> Open(pc_m')
    <3>1. 8 \notin OpenMain \cup OpenRoutine /\ 16 \notin OpenMain \cup OpenRoutine
      BY DEF OpenMain, OpenRoutine
    <3>2. ~Open(pc_m')
      BY <1>8, <3>1, Zenon DEF Open
    <3>3. QED
      BY <1>7, <3>2, Zenon
  <2>2. asked' \in Nat /\ asked' <= MaxRequests /\ counted' \in Nat /\ resets' \in Nat
    BY <1>8, <1>9 DEF ProgramInv
  <2>3. QED
    BY <1>7, <1>10, <1>14, <2>1, <2>2 DEF ProgramInv
<1>15. CASE InMain
  <2>1. PICK own \in {0, 1} : Main(own)
    BY <1>15 DEF InMain
  <2>2. pc_m \in MainPoints /\ Len(frames) <= 2
    BY <2>1, MainPlaces DEF Main
  <2>3. pc_m \in OpenMain
    BY <1>2, <2>2 DEF MainPoints, Open, OpenMain, OpenRoutine
  <2>4. Nested(frames', 1, pc_m, frames)
    BY <1>3, <1>7, <1>11, <2>2, FirstNested
  <2>5. Computed(pc_m, Psw', HL', ResultByte', frames, own)
    BY <1>7, <2>1 DEF Main
  <2>6. Total' = ToByte(counted' + own)
    <3>1. CountByte' = ToByte(counted + own)
      BY <1>7, <2>1 DEF Main
    <3>2. CASE pc_m' = 8
      <4>1. Due' = 1 /\ counted' = counted + 1
        BY <1>9, <3>2 DEF Due
      <4>2. QED
        BY <1>11, <3>1, <4>1, OneMoreCount DEF Total
    <3>3. CASE pc_m' # 8
      <4>1. Due' = 0 /\ counted' = counted
        BY <1>8, <1>9, <3>3 DEF Due
      <4>2. QED
        BY <1>11, <3>1, <4>1, OneMoreCount DEF Total
    <3>4. QED
      BY <3>2, <3>3
  <2>7. getBit(Psw', 1)
    BY <1>7, <1>13
  <2>8. Suspended(frames', 1, Psw', HL', ResultByte', Total', counted')
    BY <1>3, <2>3, <2>4, <2>5, <2>6, <2>7 DEF Suspended
  <2>9. Bare(1)'
    BY <1>8, <2>8 DEF Bare
  <2>10. 1 + Pending' <= asked'
    BY <1>2, <1>3, <1>8, <1>9, <2>1 DEF Main
  <2>11. Routine(1)'
    BY <2>9, <2>10 DEF Routine
  <2>12. InRoutine'
    BY <2>11 DEF InRoutine
  <2>13. QED
    BY <1>14, <2>12
<1>16. CASE InRoutine
  <2>1. PICK depth \in Nat : Routine(depth)
    BY <1>16 DEF InRoutine
  <2>2. 1 <= depth /\ depth + 1 <= asked
    BY <1>2, <2>1 DEF Routine
  <2>3. pc_m \in OpenRoutine
    <3>1. pc_m \in {8, 16, 17, 32, 41, 42} \cup {33, 40} \cup {34, 37, 38, 39}
      BY <2>1 DEF Routine, Bare, SavedPsw, SavedBoth
    <3>2. QED
      BY <1>2, <3>1 DEF Open, OpenMain, OpenRoutine
  <2>4. Suspended(frames, depth, Psw, HL, ResultByte, Total, counted)
    BY <2>1, <2>3 DEF Routine, Bare, SavedPsw, SavedBoth, OpenRoutine
  <2>5. PICK p \in OpenMain, list \in Seq(Word), own \in {0, 1} :
          /\ Computed(p, Psw, HL, ResultByte, list, own)
          /\ Total = ToByte(counted + own)
          /\ Nested(frames, depth, p, list)
    BY <2>4 DEF Suspended
  <2>6. Nested(frames', depth + 1, p, list)
    BY <1>3, <1>7, <1>11, <2>2, <2>3, <2>5, MoreNested
  <2>7. Computed(p, Psw', HL', ResultByte', list, own)
    BY <1>7, <2>5
  <2>8. CountByte = ToByte(counted + own)
    <3>1. Due = 0
      BY <2>3 DEF Due, OpenRoutine
    <3>2. CountByte \in Byte
      BY <1>12, DataInRam, OperandsRead DEF CountByte
    <3>3. ToByte(CountByte + 0) = CountByte
      BY <3>2, ByteRange DEF ToByte
    <3>4. QED
      BY <2>5, <3>1, <3>3 DEF Total
  <2>9. Total' = ToByte(counted' + own)
    <3>1. CountByte' = ToByte(counted + own)
      BY <1>7, <2>8
    <3>2. CASE pc_m' = 8
      <4>1. Due' = 1 /\ counted' = counted + 1
        BY <1>9, <3>2 DEF Due
      <4>2. QED
        BY <1>11, <3>1, <4>1, OneMoreCount DEF Total
    <3>3. CASE pc_m' # 8
      <4>1. Due' = 0 /\ counted' = counted
        BY <1>8, <1>9, <3>3 DEF Due
      <4>2. QED
        BY <1>11, <3>1, <4>1, OneMoreCount DEF Total
    <3>4. QED
      BY <3>2, <3>3
  <2>10. getBit(Psw', 1)
    BY <1>7, <1>13
  <2>11. Suspended(frames', depth + 1, Psw', HL', ResultByte', Total', counted')
    BY <2>5, <2>6, <2>7, <2>9, <2>10 DEF Suspended
  <2>12. Bare(depth + 1)'
    BY <1>8, <2>11 DEF Bare
  <2>13. depth + 1 \in Nat /\ 1 <= depth + 1 /\ depth + 1 + Pending' <= asked'
    BY <1>3, <1>8, <1>9, <2>2
  <2>14. Routine(depth + 1)'
    BY <2>12, <2>13 DEF Routine
  <2>15. InRoutine'
    BY <2>13, <2>14 DEF InRoutine
  <2>16. QED
    BY <1>14, <2>15
<1>17. QED
  BY <1>15, <1>16 DEF ProgramInv

-----------------------------------------------------------------------------
\* A halted program waits at the instruction behind HLT.
LEMMA WaitingKeeps ==
  ASSUME CpuInv, StackInv, ProgramInv, Cycle, StayHalted
  PROVE  ProgramInv'
<1>1. /\ ~Accepts /\ halted_m /\ halted_m' /\ enabledNow' = enabledNow
      /\ interruptRequested_m' = interruptRequested_m
      /\ interruptVectorRequested_m' = interruptVectorRequested_m
      /\ pc_m' = pc_m /\ registers_m' = registers_m
      /\ contents' = contents /\ regions_m' = regions_m
  BY DEF StayHalted, Control, Settle, busVars, enabledNow
<1>2. frames' = frames /\ asked' = asked /\ counted' = counted /\ resets' = resets
  BY <1>1 DEF Cycle, CycleH, FramesAfterCycle
<1>3. asked \in Nat /\ Pending \in {0, 1} /\ Pending' = Pending
  BY <1>1 DEF ProgramInv, Pending
<1>4. InMain' \/ InRoutine'
  BY <1>1, <1>2, <1>3, SamePlace DEF ProgramInv
<1>5. SP' = SP
  BY <1>1, SameRegisters
<1>6. QED
  BY <1>1, <1>2, <1>4, <1>5 DEF ProgramInv, Open, StackLinked

\* The host asks for an interrupt.
LEMMA AskKeeps ==
  ASSUME CpuInv, StackInv, ProgramInv, Ask
  PROVE  ProgramInv'
<1>1. PICK interruptNum \in Vectors : requestInterrupt(interruptNum)
  BY DEF Ask, AskH
<1>2. /\ enabledNow' = enabledNow /\ halted_m' = halted_m
      /\ interruptRequested_m' = TRUE
      /\ interruptVectorRequested_m' \in {1, 2}
      /\ pc_m' = pc_m /\ registers_m' = registers_m
      /\ contents' = contents /\ regions_m' = regions_m
  BY <1>1, ProgramAssumption DEF requestInterrupt, Requested, cpuVars, busVars, enabledNow
<1>3. frames' = frames /\ asked' = asked + 1 /\ counted' = counted /\ resets' = resets
  BY DEF Ask, AskH
<1>4. /\ asked \in Nat /\ asked' \in Nat /\ asked' <= MaxRequests
      /\ Pending \in {0, 1} /\ Pending' = 1
  BY <1>2, <1>3, ProgramAssumption DEF ProgramInv, Pending, Ask
<1>5. \A n \in Nat : n + Pending <= asked => n + Pending' <= asked'
  BY <1>3, <1>4
<1>6. InMain' \/ InRoutine'
  BY <1>2, <1>3, <1>4, <1>5, SamePlace DEF ProgramInv
<1>7. SP' = SP
  BY <1>2, SameRegisters
<1>8. QED
  BY <1>2, <1>3, <1>4, <1>6, <1>7 DEF ProgramInv, Open, StackLinked

\* Nothing happens.
LEMMA StutterKeeps ==
  ASSUME CpuInv, StackInv, ProgramInv, UNCHANGED <<vars, history>>
  PROVE  ProgramInv'
<1>1. /\ enabledNow' = enabledNow /\ halted_m' = halted_m
      /\ interruptRequested_m' = interruptRequested_m
      /\ interruptVectorRequested_m' = interruptVectorRequested_m
      /\ pc_m' = pc_m /\ registers_m' = registers_m
      /\ contents' = contents /\ regions_m' = regions_m
      /\ frames' = frames /\ asked' = asked /\ counted' = counted /\ resets' = resets
  BY DEF vars, history, histories, cpuVars, interruptVars, busVars, enabledNow
<1>2. asked \in Nat /\ Pending \in {0, 1} /\ Pending' = Pending
  BY <1>1 DEF ProgramInv, Pending
<1>3. InMain' \/ InRoutine'
  BY <1>1, <1>2, SamePlace DEF ProgramInv
<1>4. SP' = SP
  BY <1>1, SameRegisters
<1>5. QED
  BY <1>1, <1>3, <1>4 DEF ProgramInv, Open, StackLinked

\* The CPU as it was built, before the first instruction.
LEMMA ProgramStarts ==
  ASSUME MCInit
  PROVE  ProgramInv
<1>1. /\ pc_m = 0 /\ registers_m = RegistersInit /\ regions_m = Mapping
      /\ contents \in Images /\ frames = <<>>
      /\ ~enabledNow /\ ~interruptRequested_m /\ ~halted_m
      /\ asked = 0 /\ counted = 0 /\ resets = 0
  BY DEF MCInit, HistoryInit, Init, enabledNow
<1>2. contents[rom] = ROM /\ contents[ram] = [offset \in 0 .. RamSize - 1 |-> 0]
  <2>1. rom # ram /\ Images = MCImages
    BY ProgramAssumption
  <2>2. contents = [region \in {rom, ram, OpenBus} |->
                      CASE region = rom -> ROM
                        [] region = ram -> [offset \in 0 .. RamSize - 1 |-> 0]
                        [] OTHER -> <<>>]
    BY <1>1, <2>1 DEF MCImages
  <2> DEFINE image == [offset \in 0 .. RamSize - 1 |-> 0]
  <2> HIDE DEF image
  <2>3. QED
    BY <2>1, <2>2 DEF image
<1>3. /\ registers_m["A"] = 0 /\ registers_m["F"] = 2
      /\ registers_m["SP_high"] = 0 /\ registers_m["SP_low"] = 0
  <2>1. RegistersInit = [[reg \in Register |-> 0] EXCEPT !["F"] = setBit(2, 1, TRUE)]
    BY DEF RegistersInit, setRegister, Initial_Flags_Register_Value
  <2>2. setBit(2, 1, TRUE) = 2
    BY DEF setBit, Bit, Weight
  <2>3. registers_m = [[reg \in Register |-> 0] EXCEPT !["F"] = 2]
    BY <1>1, <2>1, <2>2
  <2>4. QED
    BY <2>3 DEF Register
<1>4. Psw = Combine(0, 2) /\ SP = 0
  <2>1. RegisterPairs["SP"] = <<"SP_high", "SP_low">> /\ RegisterPairs["PSW"] = <<"A", "F">>
    BY DEF RegisterPairs
  <2>2. QED
    BY <1>3, <2>1 DEF SP, Psw, getCombinedRegister, getRegister, Combine
<1>5. CountByte = 0
  <2>1. CountByte = contents[ram][CountCell - RamStart] /\ CountCell - RamStart = 0
    BY <1>1, DataInRam, BoardAccess, BoardRegions, WordRange DEF CountByte, memoryRead
  <2>2. 0 \in 0 .. RamSize - 1
    BY ProgramAssumption
  <2>3. QED
    BY <1>2, <2>1, <2>2
<1>6. StackLinked
  BY <1>1, <1>4 DEF StackLinked, ToWord
<1>7. InMain
  <2>1. Computed(pc_m, Psw, HL, ResultByte, frames, 0)
    BY <1>1, <1>4 DEF Computed
  <2>2. CountByte = ToByte(counted + 0)
    BY <1>1, <1>5 DEF ToByte
  <2>3. Pending <= asked
    BY <1>1 DEF Pending
  <2>4. Main(0)
    BY <1>1, <2>1, <2>2, <2>3 DEF Main
  <2>5. QED
    BY <2>4 DEF InMain
<1>8. ~Open(pc_m)
  BY <1>1 DEF Open, OpenMain, OpenRoutine
<1>9. QED
  BY <1>1, <1>2, <1>6, <1>7, <1>8, ProgramAssumption DEF ProgramInv

\* The program with its requests is the CPU with its histories.
LEMMA ProgramOnlyRuns == MCSpec => HistorySpec
<1>1. MCInit => HistoryInit
  BY DEF MCInit
<1>2. [MCNext]_<<vars, history>> => [HistoryNext]_<<vars, histories>>
  <2>1. Cycle => HistoryNext
    BY DEF Cycle, HistoryNext
  <2>2. Ask => HistoryNext
    BY DEF Ask, HistoryNext
  <2>3. Restart0 => HistoryNext
    BY DEF Restart0, HistoryNext
  <2>4. UNCHANGED <<vars, history>> => UNCHANGED <<vars, histories>>
    BY DEF history
  <2>5. QED
    BY <2>1, <2>2, <2>3, <2>4 DEF MCNext
<1>3. QED
  BY <1>1, <1>2, PTL DEF MCSpec, HistorySpec

\* Without resets the program is always where it may be, with what it needs.
LEMMA ProgramInvariant ==
  ASSUME MaxResets = 0
  PROVE  MCSpec => [](CpuInv /\ StackInv /\ ProgramInv)
<1>1. MCInit => ProgramInv
  BY ProgramStarts
<1>2. CpuInv /\ StackInv /\ ProgramInv /\ [MCNext]_<<vars, history>> => ProgramInv'
  <2> SUFFICES ASSUME CpuInv, StackInv, ProgramInv, [MCNext]_<<vars, history>>
               PROVE  ProgramInv'
    OBVIOUS
  <2>1. CASE Cycle
    <3>1. AcceptInterrupt \/ StayHalted \/ Execute
      BY <2>1 DEF Cycle, CycleH, cycle
    <3>2. QED
      BY <2>1, <3>1, InterruptKeeps, WaitingKeeps, ExecuteKeeps DEF Going
  <2>2. CASE Ask
    BY <2>2, AskKeeps
  <2>3. CASE Restart0
    <3>1. resets \in Nat /\ resets < 0
      BY <2>3 DEF Restart0, ProgramInv
    <3>2. QED
      BY <3>1
  <2>4. CASE UNCHANGED <<vars, history>>
    BY <2>4, StutterKeeps
  <2>5. QED
    BY <2>1, <2>2, <2>3, <2>4 DEF MCNext
<1>3. QED
  BY <1>1, <1>2, ProgramOnlyRuns, HistoryKeepsInvariants, StackInvariant, PTL DEF MCSpec

-----------------------------------------------------------------------------
\* Bytes on the stack.
LEMMA DepthKnown ==
  ASSUME CpuInv, StackInv, ProgramInv
  PROVE  Depth = 2 * Len(frames)
<1>1. /\ Len(frames) \in Nat /\ Len(frames) <= asked + 4 /\ asked \in Nat
      /\ asked <= MaxRequests /\ MaxRequests \in Nat /\ RamSize \in Nat
      /\ 12 + 2 * MaxRequests <= RamSize /\ RamSize <= 65408
  BY Sizes, ProgramAssumption DEF ProgramInv
<1>2. SP = ToWord(0 - 2 * Len(frames))
  BY DEF ProgramInv, StackLinked
<1>3. QED
  BY <1>1, <1>2 DEF Depth, ToWord

\* Interrupts do not disturb the program they interrupt: for any number of
\* requests for which the RAM has room, made between any two instructions and
\* however the routines nest, when the program halts its result is the one it
\* computes alone and the stack is empty (Fake8080.cpp:15-21, 157-165,
\* 388-394, Fake8080.hpp:751-779).
THEOREM ProgramUndisturbed ==
  ASSUME MaxResets = 0
  PROVE  MCSpec => []ResultUndisturbed
<1>1. CpuInv /\ StackInv /\ ProgramInv => ResultUndisturbed
  <2> SUFFICES ASSUME CpuInv, StackInv, ProgramInv, halted_m
               PROVE  ResultByte = Expected /\ SP = 0
    BY DEF ResultUndisturbed, ResultByte
  <2>1. PICK own \in {0, 1} : Main(own)
    BY DEF ProgramInv, InMain, InRoutine, Routine, Bare, SavedPsw, SavedBoth
  <2>2. ResultByte = Expected /\ frames = <<>>
    BY <2>1, ComputedLast DEF ProgramInv, Main
  <2>3. SP = 0
    BY <2>2 DEF ProgramInv, StackLinked, ToWord
  <2>4. QED
    BY <2>2, <2>3
<1>2. QED
  BY <1>1, ProgramInvariant, PTL

\* No count is lost: the program and its routines read, change and write the
\* same cell, and DI and EI keep them apart, for any number of requests for
\* which the RAM has room (Fake8080.cpp:9-21, 472-482).
THEOREM NoCountLost ==
  ASSUME MaxResets = 0
  PROVE  MCSpec => []CountExact
<1>1. CpuInv /\ StackInv /\ ProgramInv => CountExact
  <2> SUFFICES ASSUME CpuInv, StackInv, ProgramInv, halted_m
               PROVE  CountByte = ToByte(counted + 1)
    BY DEF CountExact, CountByte
  <2>1. PICK own \in {0, 1} : Main(own)
    BY DEF ProgramInv, InMain, InRoutine, Routine, Bare, SavedPsw, SavedBoth
  <2>2. own = 1
    BY <2>1, ComputedLast DEF ProgramInv, Main
  <2>3. QED
    BY <2>1, <2>2 DEF Main
<1>2. QED
  BY <1>1, ProgramInvariant, PTL

\* Nested interrupts leave at most a return address each on the stack: the
\* registers of one routine only are there at any time, over the four bytes of
\* the program and its subroutine (Fake8080.cpp:10-21, 472-476).
THEOREM StackStaysBounded ==
  ASSUME MaxResets = 0
  PROVE  MCSpec => []StackBounded
<1>1. CpuInv /\ StackInv /\ ProgramInv => StackBounded
  <2> SUFFICES ASSUME CpuInv, StackInv, ProgramInv
               PROVE  Depth <= 4 + 4 + 2 * asked
    BY DEF StackBounded
  <2>1. Depth = 2 * Len(frames) /\ Len(frames) \in Nat /\ Len(frames) <= asked + 4
    BY DepthKnown, Sizes
  <2>2. asked \in Nat
    BY DEF ProgramInv
  <2>3. QED
    BY <2>1, <2>2
<1>2. QED
  BY <1>1, ProgramInvariant, PTL

\* The stack is accounted for: at any moment its bytes are those of the words
\* pushed and not popped since it was set up, so that no path through the
\* routines leaves a byte behind (Fake8080.cpp:157-165, Fake8080.hpp:737-764).
THEOREM NoByteLeftBehind ==
  ASSUME MaxResets = 0
  PROVE  MCSpec => []StackAccountedFor
<1>1. CpuInv /\ StackInv /\ ProgramInv => StackAccountedFor
  BY DepthKnown DEF StackAccountedFor
<1>2. QED
  BY <1>1, ProgramInvariant, PTL

=============================================================================
