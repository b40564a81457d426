------------------------------ MODULE Fake8080 ------------------------------
(***************************************************************************)
(* The CPU (include/Fake8080.hpp, src/Fake8080.cpp) on its two buses.  The *)
(* host assembles a board, then calls cycle, requestInterrupt, reset and   *)
(* attach in any order; every call runs to its end before the next one,    *)
(* except that a device may call requestInterrupt from inside out.         *)
(*                                                                         *)
(* One call of cycle is one step: it consumes the enable latch EI left,    *)
(* then takes a pending interrupt, or stays halted, or fetches an opcode   *)
(* and runs its handler.                                                   *)
(***************************************************************************)
EXTENDS OpcodeTable, MemoryBus, IOBus

CONSTANTS
  Mapping,        \* the list of regions the host mapped
  Images,         \* what the memory may hold when the CPU is built
  Wiring,         \* the devices attached before the first cycle
  Sockets,        \* <<port, device>> that the host may attach later
  Vectors,        \* the arguments the host gives requestInterrupt
  Alarm,          \* for the devices whose out calls requestInterrupt, with what
  Inputs          \* the bytes the outside world puts in a device

\* An entry is as wide as its region, or its region is open.
IsMapped(entry) ==
  /\ entry \in RegionEntry
  /\ entry.start <= entry.end
  /\ Kind[entry.region] # "open" => SpanSize[entry.region] = entry.end - entry.start + 1

ASSUME BoardAssumption ==
  /\ AddressSpace = 65536 /\ Value = Byte /\ OpenValue = 255
  /\ Port = Byte /\ PortValue = Byte
  /\ Mapping \in Seq(RegionEntry)
  /\ \A i \in DOMAIN Mapping : IsMapped(Mapping[i])
  /\ \A image \in Images : IsContents(image)
  /\ Wiring \in [Port -> Device \cup {NoDevice}]
  /\ Sockets \subseteq Port \X Device
  /\ Vectors \subseteq Byte
  /\ \E devices \in SUBSET Device : Alarm \in [devices -> Byte]
  /\ Inputs \subseteq Byte

VARIABLES
  pc_m,
  registers_m,
  interruptsEnableRequested_m,   \* EI ran in the last cycle
  interruptsEnabled_m,
  interruptRequested_m,
  interruptVectorRequested_m,
  halted_m

cpuVars == <<pc_m, registers_m, halted_m>>
interruptVars ==
  <<interruptsEnableRequested_m, interruptsEnabled_m,
    interruptRequested_m, interruptVectorRequested_m>>

vars == <<cpuVars, interruptVars, busVars, ioVars>>

Init ==
  /\ pc_m = 0
  /\ registers_m = RegistersInit
  /\ interruptsEnableRequested_m = FALSE
  /\ interruptsEnabled_m = FALSE
  /\ interruptRequested_m = FALSE
  /\ interruptVectorRequested_m = 0
  /\ halted_m = FALSE
  /\ regions_m = Mapping
  /\ contents \in Images
  /\ ports_m = Wiring
  /\ latch = [device \in Device |-> 0]
-----------------------------------------------------------------------------
\* Access to the registers and the memory.

memoryRead(address) == busRead(regions_m, contents, address)

memoryWrite(c, address, value) == busWrite(regions_m, c, address, value)

A  == getRegister(registers_m, "A")
HL == getCombinedRegister(registers_m, "HL")
SP == getCombinedRegister(registers_m, "SP")

\* Seeded fault: the program counter does not wrap.
After_Unwrapped(length) == pc_m + length

\* The program counter once an instruction of that many bytes is read.
After(length) == ToWord(pc_m + length)

\* The operand bytes; the opcode is at pc_m.
readNextByte == memoryRead(After(1))

readNextTwoBytes == Combine(memoryRead(After(2)), memoryRead(After(1)))

getM == memoryRead(HL)

loadMtoW == setRegister(registers_m, "W", getM)

readTwoBytes(address) ==
  Combine(memoryRead(ToWord(address + 1)), memoryRead(address))

writeTwoBytes(c, address, value) ==
  memoryWrite(memoryWrite(c, address, getLowByte(value)),
              ToWord(address + 1), getHighByte(value))

\* Seeded fault: the bytes are stored before the stack pointer moves.
Pushed_StoreFirst(c, sp, value) ==
  memoryWrite(memoryWrite(c, sp, getHighByte(value)),
              ToWord(sp - 1), getLowByte(value))

\* The memory once value is pushed on the stack whose top is sp.
Pushed(c, sp, value) ==
  memoryWrite(memoryWrite(c, ToWord(sp - 1), getHighByte(value)),
              ToWord(sp - 2), getLowByte(value))

\* Seeded fault: the stack pointer moves before the bytes are read.
Popped_MoveFirst(rr) ==
  setCombinedRegister(setCombinedRegister(registers_m, "SP", ToWord(SP + 2)),
                      rr, readTwoBytes(ToWord(SP + 2)))

\* The registers once the top of the stack is popped into rr.
Popped(rr) ==
  setCombinedRegister(setCombinedRegister(registers_m, "SP", ToWord(SP + 2)),
                      rr, readTwoBytes(SP))

\* Whether a conditional instruction goes ahead.
Holds(flag, negate) == getFlag(registers_m, flag) # negate
-----------------------------------------------------------------------------
\* The handlers.  Each one gives the next program counter, registers and
\* memory; a handler that reaches a device says so itself.

Effect(pc, file, c) ==
  /\ pc_m' = pc
  /\ registers_m' = file
  /\ contents' = c
  /\ UNCHANGED latch

\* A handler that only computes on registers, and one that only writes memory.
Compute(length, file) == Effect(After(length), file, contents)

Store(length, c) == Effect(After(length), registers_m, c)

\* Seeded fault: the low byte of the return address is pushed first.
callAddress_LowFirst(address, returnAddress) ==
  LET saved == setCombinedRegister(registers_m, "WZ", returnAddress)
  IN  Effect(address, setCombinedRegister(saved, "SP", ToWord(SP - 2)),
             Pushed(contents, SP,
                    Combine(getLowByte(returnAddress), getHighByte(returnAddress))))

callAddress(address, returnAddress) ==
  LET saved == setCombinedRegister(registers_m, "WZ", returnAddress)
  IN  Effect(address, setCombinedRegister(saved, "SP", ToWord(SP - 2)),
             Pushed(contents, SP, returnAddress))

NOP == Compute(1, registers_m)

STC == Compute(1, setFlag(registers_m, "CY", TRUE))

CMC == Compute(1, setFlag(registers_m, "CY", ~getFlag(registers_m, "CY")))

CMA == Compute(1, setRegister(registers_m, "A", BitNot(A)))

DAA == Compute(1, DecimalAdjust(registers_m))

MOV_R_R(source, destination) ==
  Compute(1, setRegister(registers_m, destination, getRegister(registers_m, source)))

MOV_R_M(reg) == Compute(1, setRegister(registers_m, reg, getM))

MVI_R_d8(reg) == Compute(2, setRegister(registers_m, reg, readNextByte))

LXI_RR_d16(rr) == Compute(3, setCombinedRegister(registers_m, rr, readNextTwoBytes))

LDAX_RR(rr) ==
  Compute(1, setRegister(registers_m, "A",
                         memoryRead(getCombinedRegister(registers_m, rr))))

LDA_a16 ==
  Compute(3, setRegister(setCombinedRegister(registers_m, "WZ", readNextTwoBytes),
                         "A", memoryRead(readNextTwoBytes)))

LHLD_a16 ==
  Compute(3, setCombinedRegister(registers_m, "HL", readTwoBytes(readNextTwoBytes)))

\* Seeded fault: DE is loaded with the HL that was just overwritten, through
\* the stack pointer's bytes.
XCHG_ThroughSP ==
  LET saved     == setCombinedRegister(registers_m, "SP", HL)
      exchanged == setCombinedRegister(saved, "HL", getCombinedRegister(saved, "DE"))
  IN  Compute(1, setCombinedRegister(exchanged, "DE", getCombinedRegister(exchanged, "SP")))

XCHG ==
  LET exchanged == setCombinedRegister(registers_m, "HL",
                                       getCombinedRegister(registers_m, "DE"))
  IN  Compute(1, setCombinedRegister(exchanged, "DE", HL))

SPHL == Compute(1, setCombinedRegister(registers_m, "SP", HL))

INX_DCX_RR(rr, kind) ==
  LET value == getCombinedRegister(registers_m, rr)
  IN  Compute(1, setCombinedRegister(registers_m, rr,
                                     ToWord(IF kind = "ADD" THEN value + 1 ELSE value - 1)))

INR_DCR_R(reg, kind) == Compute(1, Increment(registers_m, reg, kind))

DAD_RR(rr) == Compute(1, DoubleAdd(registers_m, rr))

RLC_RRC_RAL_RAR_R(reg, direction, rotateThrough) ==
  Compute(1, Rotate(registers_m, reg, direction, rotateThrough))

ADD_ADC_SUB_SBB_CMP_R(reg, kind, useCarry, storeResult) ==
  Compute(1, AccumulatorArithmetic(registers_m, reg, kind, useCarry, storeResult))

ADD_ADC_SUB_SBB_CMP_M(kind, useCarry, storeResult) ==
  Compute(1, AccumulatorArithmetic(loadMtoW, "W", kind, useCarry, storeResult))

ADI_ACI_SUI_SBI_CPI_d8(kind, useCarry, storeResult) ==
  Compute(2, AccumulatorArithmetic(setRegister(registers_m, "W", readNextByte),
                                   "W", kind, useCarry, storeResult))

ANA_ORA_XRA_R(reg, logic) == Compute(1, AccumulatorLogic(registers_m, reg, logic))

ANA_ORA_XRA_M(logic) == Compute(1, AccumulatorLogic(loadMtoW, "W", logic))

ANI_ORI_XRI_d8(logic) ==
  Compute(2, AccumulatorLogic(setRegister(registers_m, "W", readNextByte), "W", logic))

MOV_M_R(reg) == Store(1, memoryWrite(contents, HL, getRegister(registers_m, reg)))

MVI_M_d8 == Store(2, memoryWrite(contents, HL, readNextByte))

STAX_RR(rr) ==
  Store(1, memoryWrite(contents, getCombinedRegister(registers_m, rr), A))

SHLD_a16 == Store(3, writeTwoBytes(contents, readNextTwoBytes, HL))

STA_a16 ==
  Effect(After(3), setCombinedRegister(registers_m, "WZ", readNextTwoBytes),
         memoryWrite(contents, readNextTwoBytes, A))

INR_DCR_M(kind) ==
  LET file == Increment(loadMtoW, "W", kind)
  IN  Effect(After(1), file, memoryWrite(contents, HL, getRegister(file, "W")))

XTHL ==
  Effect(After(1), setCombinedRegister(registers_m, "HL", readTwoBytes(SP)),
         writeTwoBytes(contents, SP, HL))

PUSH_RR(rr) ==
  Effect(After(1), setCombinedRegister(registers_m, "SP", ToWord(SP - 2)),
         Pushed(contents, SP, getCombinedRegister(registers_m, rr)))

POP_RR(rr) == Compute(1, Popped(rr))

JMP_a16 == Effect(readNextTwoBytes, registers_m, contents)

PCHL == Effect(HL, registers_m, contents)

CALL_a16 == callAddress(readNextTwoBytes, After(3))

RET == Effect(getCombinedRegister(Popped("WZ"), "WZ"), Popped("WZ"), contents)

RST_N(vector) == callAddress(8 * vector, After(1))

\* Seeded fault: the condition of a jump is not looked at.
conditionalJMP_a16_Always(flag, negate) == JMP_a16

\* A conditional instruction whose condition fails still reads its operand.
conditionalJMP_a16(flag, negate) ==
  IF Holds(flag, negate) THEN JMP_a16 ELSE Compute(3, registers_m)

\* Seeded fault: a call that is not taken leaves its operand unread.
conditionalCall_a16_Unread(flag, negate) ==
  IF Holds(flag, negate) THEN CALL_a16 ELSE Compute(1, registers_m)

conditionalCall_a16(flag, negate) ==
  IF Holds(flag, negate) THEN CALL_a16 ELSE Compute(3, registers_m)

\* Seeded fault: a return that is not taken drops its address.
conditionalRet_Drops(flag, negate) ==
  IF Holds(flag, negate) THEN RET ELSE Compute(1, Popped("WZ"))

conditionalRet(flag, negate) ==
  IF Holds(flag, negate) THEN RET ELSE Compute(1, registers_m)

IN_d8 == Compute(2, setRegister(registers_m, "A", in(ports_m, latch, readNextByte)))

\* The handlers that leave the interrupt state and halted_m alone.
DataHandler(i) ==
  \/ i.op = "NOP" /\ NOP
  \/ i.op = "STC" /\ STC
  \/ i.op = "CMC" /\ CMC
  \/ i.op = "CMA" /\ CMA
  \/ i.op = "DAA" /\ DAA
  \/ i.op = "MOV_R_R" /\ MOV_R_R(i.source, i.destination)
  \/ i.op = "MOV_R_M" /\ MOV_R_M(i.reg)
  \/ i.op = "MOV_M_R" /\ MOV_M_R(i.reg)
  \/ i.op = "MVI_R_d8" /\ MVI_R_d8(i.reg)
  \/ i.op = "MVI_M_d8" /\ MVI_M_d8
  \/ i.op = "LXI_RR_d16" /\ LXI_RR_d16(i.rr)
  \/ i.op = "LDAX_RR" /\ LDAX_RR(i.rr)
  \/ i.op = "STAX_RR" /\ STAX_RR(i.rr)
  \/ i.op = "LDA_a16" /\ LDA_a16
  \/ i.op = "STA_a16" /\ STA_a16
  \/ i.op = "LHLD_a16" /\ LHLD_a16
  \/ i.op = "SHLD_a16" /\ SHLD_a16
  \/ i.op = "XCHG" /\ XCHG
  \/ i.op = "XTHL" /\ XTHL
  \/ i.op = "SPHL" /\ SPHL
  \/ i.op = "PCHL" /\ PCHL
  \/ i.op = "INX_DCX_RR" /\ INX_DCX_RR(i.rr, i.kind)
  \/ i.op = "INR_DCR_R" /\ INR_DCR_R(i.reg, i.kind)
  \/ i.op = "INR_DCR_M" /\ INR_DCR_M(i.kind)
  \/ i.op = "DAD_RR" /\ DAD_RR(i.rr)
  \/ /\ i.op = "RLC_RRC_RAL_RAR_R"
     /\ RLC_RRC_RAL_RAR_R(i.reg, i.direction, i.rotateThrough)
  \/ /\ i.op = "ADD_ADC_SUB_SBB_CMP_R"
     /\ ADD_ADC_SUB_SBB_CMP_R(i.reg, i.kind, i.useCarry, i.storeResult)
  \/ /\ i.op = "ADD_ADC_SUB_SBB_CMP_M"
     /\ ADD_ADC_SUB_SBB_CMP_M(i.kind, i.useCarry, i.storeResult)
  \/ /\ i.op = "ADI_ACI_SUI_SBI_CPI_d8"
     /\ ADI_ACI_SUI_SBI_CPI_d8(i.kind, i.useCarry, i.storeResult)
  \/ i.op = "ANA_ORA_XRA_R" /\ ANA_ORA_XRA_R(i.reg, i.logic)
  \/ i.op = "ANA_ORA_XRA_M" /\ ANA_ORA_XRA_M(i.logic)
  \/ i.op = "ANI_ORI_XRI_d8" /\ ANI_ORI_XRI_d8(i.logic)
  \/ i.op = "PUSH_RR" /\ PUSH_RR(i.rr)
  \/ i.op = "POP_RR" /\ POP_RR(i.rr)
  \/ i.op = "JMP_a16" /\ JMP_a16
  \/ i.op = "conditionalJMP_a16" /\ conditionalJMP_a16(i.flag, i.negate)
  \/ i.op = "CALL_a16" /\ CALL_a16
  \/ i.op = "conditionalCall_a16" /\ conditionalCall_a16(i.flag, i.negate)
  \/ i.op = "RET" /\ RET
  \/ i.op = "conditionalRet" /\ conditionalRet(i.flag, i.negate)
  \/ i.op = "RST_N" /\ RST_N(i.vector)
  \/ i.op = "IN_d8" /\ IN_d8
-----------------------------------------------------------------------------
\* One call of cycle.

\* The interrupt enable once the latch of EI is consumed.
enabledNow == interruptsEnabled_m \/ interruptsEnableRequested_m

Accepts == interruptRequested_m /\ enabledNow

\* A request is taken: returnAddress is where the routine returns to.
Taken(returnAddress, enabled, halted) ==
  /\ Accepts
  /\ callAddress(8 * interruptVectorRequested_m, returnAddress)
  /\ interruptsEnableRequested_m' = FALSE
  /\ interruptsEnabled_m' = enabled
  /\ interruptRequested_m' = FALSE
  /\ halted_m' = halted
  /\ UNCHANGED <<interruptVectorRequested_m, regions_m, ports_m>>

\* Seeded faults: the return address skips a byte, as if an opcode was fetched;
\* the routine runs with interrupts on; a halted CPU goes on sleeping.
AcceptInterrupt_SkipsOne      == Taken(After(1), FALSE, FALSE)
AcceptInterrupt_StaysEnabled  == Taken(pc_m, TRUE, FALSE)
AcceptInterrupt_StaysHalted   == Taken(pc_m, FALSE, halted_m)

AcceptInterrupt == Taken(pc_m, FALSE, FALSE)

\* The enable and halted_m after a cycle that takes no interrupt.
Settle(arming, enabled, halted) ==
  /\ interruptsEnableRequested_m' = arming
  /\ interruptsEnabled_m' = enabled
  /\ halted_m' = halted

Control(arming, enabled, halted) ==
  /\ Settle(arming, enabled, halted)
  /\ UNCHANGED <<interruptRequested_m, interruptVectorRequested_m>>

StayHalted ==
  /\ ~Accepts
  /\ halted_m
  /\ Control(FALSE, enabledNow, TRUE)
  /\ UNCHANGED <<pc_m, registers_m, busVars, ioVars>>

\* Seeded fault: EI does not set the latch.
EI_NoLatch == NOP /\ Control(FALSE, enabledNow, FALSE)

EI == NOP /\ Control(TRUE, enabledNow, FALSE)

\* Seeded fault: DI only undoes an EI that has not taken effect.
DI_KeepsEnabled == NOP /\ Control(FALSE, interruptsEnabled_m, FALSE)

DI == NOP /\ Control(FALSE, FALSE, FALSE)

\* Seeded fault: the latch is not consumed by a cycle that halts.
HLT_KeepsLatch ==
  NOP /\ Control(interruptsEnableRequested_m, interruptsEnabled_m, TRUE)

HLT == NOP /\ Control(FALSE, enabledNow, TRUE)

\* Seeded fault: a request made while interrupts are off is dropped.
Requested_IfEnabled(interruptNum) ==
  IF interruptsEnabled_m
    THEN interruptRequested_m' = TRUE /\ interruptVectorRequested_m' = interruptNum
    ELSE UNCHANGED <<interruptRequested_m, interruptVectorRequested_m>>

\* Seeded fault: a request that is pending keeps its vector.
Requested_KeepsFirst(interruptNum) ==
  /\ interruptRequested_m' = TRUE
  /\ interruptVectorRequested_m' =
       IF interruptRequested_m THEN interruptVectorRequested_m ELSE interruptNum

\* A request that is still pending is overwritten.
Requested(interruptNum) ==
  /\ interruptRequested_m' = TRUE
  /\ interruptVectorRequested_m' = interruptNum

\* A device that takes a byte may call requestInterrupt at once, inside the
\* cycle that runs OUT.
Rings(device) ==
  IF device \in DOMAIN Alarm
    THEN Requested(Alarm[device])
    ELSE UNCHANGED <<interruptRequested_m, interruptVectorRequested_m>>

OUT_d8 ==
  /\ pc_m' = After(2)
  /\ latch' = out(ports_m, latch, readNextByte, A)
  /\ UNCHANGED <<registers_m, contents>>
  /\ Settle(FALSE, enabledNow, FALSE)
  /\ Rings(ports_m[readNextByte])

\* The table's entry for the opcode at pc_m.
instruction == opcodes_m[memoryRead(pc_m)]

Execute ==
  /\ ~Accepts
  /\ ~halted_m
  /\ \/ instruction.op = "EI" /\ EI
     \/ instruction.op = "DI" /\ DI
     \/ instruction.op = "HLT" /\ HLT
     \/ instruction.op = "OUT_d8" /\ OUT_d8
     \/ DataHandler(instruction) /\ Control(FALSE, enabledNow, FALSE)
  /\ UNCHANGED <<regions_m, ports_m>>

cycle == AcceptInterrupt \/ StayHalted \/ Execute

requestInterrupt(interruptNum) ==
  /\ Requested(interruptNum)
  /\ UNCHANGED <<cpuVars, interruptsEnableRequested_m, interruptsEnabled_m,
                 busVars, ioVars>>

\* The registers, the vector and the latch of EI are left as they are.
reset ==
  /\ interruptRequested_m' = FALSE
  /\ interruptsEnabled_m' = FALSE
  /\ pc_m' = 0
  /\ halted_m' = FALSE
  /\ UNCHANGED <<registers_m, interruptsEnableRequested_m,
                 interruptVectorRequested_m, busVars, ioVars>>

\* The outside world reaches a device between two calls.
OutsideInput ==
  /\ \E device \in Device, value \in Inputs : DeviceInput(device, value)
  /\ UNCHANGED <<cpuVars, interruptVars, busVars>>

\* The host plugs a device in while the program runs.
Plug ==
  /\ \E socket \in Sockets : attach(socket[1], socket[2])
  /\ UNCHANGED <<cpuVars, interruptVars, busVars>>

Next ==
  \/ cycle
  \/ \E interruptNum \in Vectors : requestInterrupt(interruptNum)
  \/ reset
  \/ OutsideInput
  \/ Plug

Spec == Init /\ [][Next]_vars

\* The host's main loop never stops calling cycle.
FairSpec == Spec /\ WF_vars(cycle)
=============================================================================
