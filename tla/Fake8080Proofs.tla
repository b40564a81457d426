--------------------------- MODULE Fake8080Proofs ---------------------------
(***************************************************************************)
(* The CPU on its buses, for any board whose regions are as wide as their  *)
(* ranges, any contents of memory, any requests and any input.  First the  *)
(* interrupt state, which does not depend on what a handler computes: only *)
(* on the order in which cycle looks at its flags and on which handlers    *)
(* write them.  Then the registers and the memory.                         *)
(***************************************************************************)
EXTENDS Fake8080Properties, OpcodeTableProofs, AluProofs, BusProofs

\* What each step of the CPU may do to the interrupt state, to halted_m and to
\* the program counter.
Took ==
  /\ Accepts
  /\ pc_m' = 8 * interruptVectorRequested_m
  /\ interruptsEnableRequested_m' = FALSE /\ interruptsEnabled_m' = FALSE
  /\ interruptRequested_m' = FALSE /\ halted_m' = FALSE

Ran(arming, enabled, halted) ==
  /\ ~Accepts /\ ~halted_m
  /\ Control(arming, enabled, halted)

\* An OUT whose device asked for an interrupt.
Rang ==
  /\ ~Accepts /\ ~halted_m
  /\ Settle(FALSE, enabledNow, FALSE)
  /\ interruptRequested_m' = TRUE /\ interruptVectorRequested_m' \in Byte

Slept ==
  /\ ~Accepts /\ halted_m
  /\ Control(FALSE, enabledNow, TRUE)
  /\ UNCHANGED pc_m

Asked ==
  /\ interruptRequested_m' = TRUE /\ interruptVectorRequested_m' \in Byte
  /\ UNCHANGED <<pc_m, interruptsEnableRequested_m, interruptsEnabled_m, halted_m>>

Cleared ==
  /\ pc_m' = 0
  /\ interruptRequested_m' = FALSE /\ interruptsEnabled_m' = FALSE
  /\ halted_m' = FALSE
  /\ UNCHANGED interruptsEnableRequested_m

Untouched ==
  UNCHANGED <<pc_m, interruptsEnableRequested_m, interruptsEnabled_m,
              interruptRequested_m, interruptVectorRequested_m, halted_m>>

\* A device that calls requestInterrupt from out does it with a byte.
LEMMA RingsByte ==
  ASSUME NEW device, Rings(device)
  PROVE  \/ interruptRequested_m' = TRUE /\ interruptVectorRequested_m' \in Byte
         \/ UNCHANGED <<interruptRequested_m, interruptVectorRequested_m>>
<1>1. PICK devices \in SUBSET Device : Alarm \in [devices -> Byte]
  BY BoardAssumption
<1>2. CASE device \in DOMAIN Alarm
  <2>1. Alarm[device] \in Byte
    BY <1>1, <1>2
  <2>2. interruptRequested_m' = TRUE /\ interruptVectorRequested_m' = Alarm[device]
    BY <1>2, Zenon DEF Rings, Requested
  <2>3. QED
    BY <2>1, <2>2
<1>3. QED
  BY <1>2, Zenon DEF Rings

\* Every step is one of these, whichever handler runs (Fake8080.cpp:9-43,
\* 472-482, 492-504).
LEMMA StepKinds ==
  ASSUME [Next]_vars
  PROVE  \/ Took \/ Slept \/ Asked \/ Cleared \/ Untouched \/ Rang
         \/ Ran(FALSE, enabledNow, FALSE) \/ Ran(FALSE, enabledNow, TRUE)
         \/ Ran(TRUE, enabledNow, FALSE) \/ Ran(FALSE, FALSE, FALSE)
<1>1. CASE AcceptInterrupt
  BY <1>1, Zenon DEF AcceptInterrupt, Taken, callAddress, Effect, Took
<1>2. CASE StayHalted
  BY <1>2, Zenon DEF StayHalted, Slept
<1>3. CASE Execute
  <2>1. CASE OUT_d8
    <3>1. Settle(FALSE, enabledNow, FALSE) /\ Rings(ports_m[readNextByte])
      BY <2>1, Zenon DEF OUT_d8
    <3>2. CASE UNCHANGED <<interruptRequested_m, interruptVectorRequested_m>>
      BY <1>3, <3>1, <3>2, Zenon DEF Execute, Ran, Control
    <3>3. CASE interruptRequested_m' = TRUE /\ interruptVectorRequested_m' \in Byte
      BY <1>3, <3>1, <3>3, Zenon DEF Execute, Rang
    <3>4. QED
      BY <3>1, <3>2, <3>3, RingsByte, Zenon
  <2>2. QED
    BY <1>3, <2>1, Zenon DEF Execute, EI, DI, HLT, Ran
<1>4. ASSUME NEW interruptNum \in Vectors, requestInterrupt(interruptNum)
      PROVE  Asked
  BY <1>4, BoardAssumption DEF requestInterrupt, Requested, Asked, cpuVars
<1>5. CASE reset
  BY <1>5 DEF reset, Cleared
<1>6. CASE OutsideInput \/ Plug
  BY <1>6 DEF OutsideInput, Plug, Untouched, cpuVars, interruptVars
<1>7. CASE UNCHANGED vars
  BY <1>7 DEF vars, Untouched, cpuVars, interruptVars
<1>8. QED
  BY <1>1, <1>2, <1>3, <1>4, <1>5, <1>6, <1>7, Zenon DEF Next, cycle

\* The latch of EI, the enable, the request and halted_m are booleans.
InterruptTypeOK ==
  /\ interruptsEnableRequested_m \in BOOLEAN
  /\ interruptsEnabled_m \in BOOLEAN
  /\ interruptRequested_m \in BOOLEAN
  /\ halted_m \in BOOLEAN

\* A halted CPU has no EI half-way, and the flags are booleans.
InterruptInv == InterruptTypeOK /\ HaltedNotArming

\* Every step keeps the invariant.
LEMMA InterruptInvariant == Spec => []InterruptInv
<1>1. Init => InterruptInv
  BY DEF Init, InterruptInv, InterruptTypeOK, HaltedNotArming
<1>2. InterruptInv /\ [Next]_vars => InterruptInv'
  <2> SUFFICES ASSUME InterruptInv, [Next]_vars
               PROVE  InterruptInv'
    OBVIOUS
  <2> USE DEF InterruptInv, InterruptTypeOK, HaltedNotArming
  <2>1. CASE Took
    BY <2>1 DEF Took
  <2>2. CASE Slept
    BY <2>2 DEF Slept, Control, Settle, enabledNow
  <2>3. CASE Asked
    BY <2>3 DEF Asked
  <2>4. CASE Cleared
    BY <2>4 DEF Cleared
  <2>5. CASE Untouched
    BY <2>5 DEF Untouched
  <2>6. CASE Ran(FALSE, enabledNow, FALSE) \/ Ran(FALSE, enabledNow, TRUE)
    BY <2>6 DEF Ran, Control, Settle, enabledNow
  <2>7. CASE Ran(TRUE, enabledNow, FALSE) \/ Ran(FALSE, FALSE, FALSE)
    BY <2>7 DEF Ran, Control, Settle, enabledNow
  <2>8. CASE Rang
    BY <2>8 DEF Rang, Settle, enabledNow
  <2>9. QED
    BY <2>1, <2>2, <2>3, <2>4, <2>5, <2>6, <2>7, <2>8, StepKinds
<1>3. QED
  BY <1>1, <1>2, PTL DEF Spec

\* A CPU that sleeps has no EI half-way, for any program (Fake8080.cpp:10-13,
\* 472-476, 500-504).
THEOREM NeverHaltedArming == Spec => []HaltedNotArming
BY InterruptInvariant, PTL DEF InterruptInv

\* The CPU implements the safety part of the interrupt contract: any program
\* on any board serves the last request before any further instruction as soon
\* as it can be served, once, at the routine of its vector, and wakes from HLT
\* to do it; a request that a device makes inside OUT included
\* (Fake8080.cpp:9-43, 492-498).
THEOREM InterruptControlImplemented == Spec => Interrupts!ControlSafety
<1>1. Init => Interrupts!ControlInit
  BY DEF Init, Interrupts!ControlInit
<1>2. InterruptInv /\ [Next]_vars => [Interrupts!ControlNext]_(Interrupts!controlVars)
  <2> SUFFICES ASSUME InterruptInv, [Next]_vars
               PROVE  Interrupts!ControlNext \/ UNCHANGED Interrupts!controlVars
    OBVIOUS
  <2> USE DEF InterruptInv, InterruptTypeOK
  <2>1. CASE Took
    BY <2>1 DEF Took, Accepts, enabledNow, Interrupts!ControlNext,
                Interrupts!Serve, Interrupts!Servable
  <2>2. CASE Slept
    BY <2>2 DEF Slept, Control, Settle, enabledNow, HaltedNotArming,
                Interrupts!controlVars
  <2>3. CASE Asked
    BY <2>3 DEF Asked, Interrupts!ControlNext, Interrupts!Request, Interrupts!Requests
  <2>4. CASE Cleared
    BY <2>4 DEF Cleared, Interrupts!ControlNext, Interrupts!Reset
  <2>5. CASE Untouched
    BY <2>5 DEF Untouched, Interrupts!controlVars
  <2>6. CASE Ran(FALSE, enabledNow, FALSE) \/ Ran(FALSE, enabledNow, TRUE)
    <3>1. /\ ~Accepts /\ ~halted_m /\ halted_m' \in BOOLEAN
          /\ interruptRequested_m' = interruptRequested_m
          /\ interruptVectorRequested_m' = interruptVectorRequested_m
          /\ interruptsEnableRequested_m' = FALSE /\ interruptsEnabled_m' = enabledNow
      BY <2>6, TRUE \in BOOLEAN, FALSE \in BOOLEAN, Zenon DEF Ran, Control, Settle
    <3>2. ~Interrupts!Servable
      BY <3>1 DEF Accepts, enabledNow, Interrupts!Servable
    <3>3. QED
      BY <3>1, <3>2 DEF enabledNow, Interrupts!ControlNext, Interrupts!Instruction,
                        Interrupts!Settled
  <2>7. CASE Ran(TRUE, enabledNow, FALSE) \/ Ran(FALSE, FALSE, FALSE)
    <3>1. /\ ~Accepts /\ ~halted_m /\ halted_m' = FALSE
          /\ interruptRequested_m' = interruptRequested_m
          /\ interruptVectorRequested_m' = interruptVectorRequested_m
          /\ \/ interruptsEnableRequested_m' = TRUE
             \/ interruptsEnableRequested_m' = FALSE /\ interruptsEnabled_m' = FALSE
      BY <2>7, Zenon DEF Ran, Control, Settle
    <3>2. ~Interrupts!Servable
      BY <3>1 DEF Accepts, enabledNow, Interrupts!Servable
    <3>3. QED
      BY <3>1, <3>2 DEF Interrupts!ControlNext, Interrupts!Instruction
  <2>8. CASE Rang
    BY <2>8 DEF Rang, Settle, Accepts, enabledNow, Interrupts!ControlNext,
                Interrupts!Instruction, Interrupts!Servable, Interrupts!Settled,
                Interrupts!Requests
  <2>9. QED
    BY <2>1, <2>2, <2>3, <2>4, <2>5, <2>6, <2>7, <2>8, StepKinds
<1>3. QED
  BY <1>1, <1>2, InterruptInvariant, PTL DEF Spec, Interrupts!ControlSafety

-----------------------------------------------------------------------------

\* The registers, the memory and the devices hold values of their types, and
\* bit 1 of F is set.
MachineOK ==
  /\ pc_m \in Word
  /\ registers_m \in File
  /\ regions_m = Mapping
  /\ ports_m \in [Port -> Device \cup {NoDevice}]
  /\ IsContents(contents)
  /\ latch \in [Device -> Byte]

\* A memory that differs from the present one at most in RAM.
Stored(c) ==
  /\ IsContents(c)
  /\ \A region \in Region : Kind[region] # "ram" => c[region] = contents[region]

\* What every handler must leave.
LegalStep ==
  /\ pc_m' \in Word
  /\ registers_m' \in File
  /\ Stored(contents')
  /\ latch' \in [Device -> Byte]

-----------------------------------------------------------------------------
\* The bus has as many addresses as uint16_t has values.
LEMMA WordIsAddress == Word = Address
<1>1. AddressSpace = 65536 /\ AddressSpace - 1 = 65535 /\ AddressSpace \in Int
  BY BoardAssumption
<1>2. \A n : n \in Address <=> n \in Int /\ 0 <= n /\ n <= AddressSpace - 1
  BY MemoryAssumption DEF Address
<1>3. \A n : n \in Address <=> n \in Word
  BY <1>1, <1>2, WordRange
<1>4. QED
  BY <1>3

\* The cell of the first region mapped over an address, and that it exists.
LEMMA InSpan ==
  ASSUME NEW address \in Word, Kind[findRegion(Mapping, address).region] # "open"
  PROVE  LET entry == findRegion(Mapping, address)
         IN  /\ Matches(Mapping, address) # {}
             /\ entry.region \in Region
             /\ offsetOf(entry, address) \in Offset(entry.region)
<1> DEFINE entry == findRegion(Mapping, address)
<1>1. /\ Mapping \in Seq(RegionEntry)
      /\ address \in Address
  BY WordIsAddress, BoardAssumption
<1>2. Matches(Mapping, address) # {}
  BY <1>1, FindType, MemoryAssumption DEF Open_Memory
<1>3. PICK i \in Matches(Mapping, address) : entry = Mapping[i]
  BY <1>1, <1>2, FindFirst
<1>4. /\ entry \in RegionEntry
      /\ IsMapped(entry)
      /\ Covers(entry, address)
  BY <1>1, <1>3, BoardAssumption DEF Matches
<1> HIDE DEF entry
<1>5. /\ address - entry.start \in 0 .. AddressSpace - 1
      /\ address - entry.start \in 0 .. SpanSize[entry.region] - 1
  BY <1>1, <1>4, MemoryAssumption DEF entry, IsMapped, RegionEntry, Covers, Address
<1>6. offsetOf(entry, address) \in Offset(entry.region)
  BY <1>5, Truncation DEF entry, offsetOf, Offset
<1>7. QED
  BY <1>2, <1>4, <1>6 DEF entry, RegionEntry

\* A read of any address gives a byte: on this board no region is read
\* outside its span (MemoryBus.cpp:23-38, 52-54, 69-71).
LEMMA BusReadType ==
  ASSUME NEW c, IsContents(c), NEW address \in Word
  PROVE  busRead(Mapping, c, address) \in Byte
<1> DEFINE entry == findRegion(Mapping, address)
<1>1. /\ Mapping \in Seq(RegionEntry)
      /\ address \in Address
      /\ OpenValue \in Byte
  BY WordIsAddress, BoardAssumption, MemoryAssumption
<1>2. busRead(Mapping, c, address) = regionRead(c, entry.region, offsetOf(entry, address))
  BY DEF busRead
<1>3. CASE Kind[entry.region] = "open"
  BY <1>1, <1>2, <1>3 DEF regionRead
<1>4. CASE Kind[entry.region] # "open"
  <2>1. entry.region \in Region /\ offsetOf(entry, address) \in Offset(entry.region)
    BY <1>4, InSpan
  <2> HIDE DEF entry
  <2>2. c[entry.region] \in [Offset(entry.region) -> Byte]
    BY <2>1, BoardAssumption DEF IsContents
  <2>3. QED
    BY <1>2, <1>4, <2>1, <2>2 DEF regionRead
<1>5. QED
  BY <1>3, <1>4

\* A write keeps the memory a memory and every ROM as it is.
LEMMA MemoryWriteStored ==
  ASSUME NEW c, Stored(c), NEW address, NEW value \in Byte
  PROVE  Stored(memoryWrite(c, address, value))
BY WriteType, BoardAssumption DEF Stored, memoryWrite

\* What the handlers read: operands, the stack, M and the registers.
LEMMA OperandsRead ==
  ASSUME MachineOK
  PROVE  /\ \A length \in Int : After(length) \in Word
         /\ readNextByte \in Byte
         /\ readNextTwoBytes \in Word
         /\ A \in Byte /\ HL \in Word /\ SP \in Word
         /\ getM \in Byte
         /\ loadMtoW \in File
         /\ \A address \in Word : memoryRead(address) \in Byte
         /\ \A address \in Word : readTwoBytes(address) \in Word
         /\ ToWord(SP - 2) \in Word /\ ToWord(SP + 2) \in Word
<1>1. \A address \in Word : memoryRead(address) \in Byte
  BY BusReadType DEF MachineOK, memoryRead
<1>2. \A length \in Int : After(length) \in Word
  BY Converted, WordRange DEF MachineOK, After
<1>3. A \in Byte /\ HL \in Word /\ SP \in Word
  BY ReadersType DEF MachineOK, A, HL, SP, Register, CombinedRegister
<1>4. readNextByte \in Byte
  BY <1>1, <1>2 DEF readNextByte
<1>5. readNextTwoBytes \in Word
  BY <1>1, <1>2, CombineType DEF readNextTwoBytes
<1>6. getM \in Byte
  BY <1>1, <1>3 DEF getM
<1>7. loadMtoW \in File
  BY <1>6, SetRegisterType DEF loadMtoW, MachineOK, Register
<1>8. ASSUME NEW address \in Word PROVE readTwoBytes(address) \in Word
  <2>1. ToWord(address + 1) \in Word
    BY Converted, WordRange
  <2>2. QED
    BY <1>1, <2>1, CombineType DEF readTwoBytes
<1>9. ToWord(SP - 2) \in Word /\ ToWord(SP + 2) \in Word
  BY <1>3, Converted, WordRange
<1>10. QED
  BY <1>1, <1>2, <1>3, <1>4, <1>5, <1>6, <1>7, <1>8, <1>9

\* What the handlers write through the stack and in two bytes.
LEMMA StackAndWords ==
  ASSUME MachineOK
  PROVE  /\ Stored(contents)
         /\ \A address, value \in Word : Stored(writeTwoBytes(contents, address, value))
         /\ \A sp, value \in Word : Stored(Pushed(contents, sp, value))
         /\ \A rr \in CombinedRegister : Popped(rr) \in File
         /\ \A reg \in Register, value \in Byte : setRegister(registers_m, reg, value) \in File
         /\ \A rr \in CombinedRegister, value \in Word :
              setCombinedRegister(registers_m, rr, value) \in File
<1>1. Stored(contents)
  BY DEF MachineOK, Stored
<1>2. \A address, value \in Word : Stored(writeTwoBytes(contents, address, value))
  BY <1>1, MemoryWriteStored, HalvesType DEF writeTwoBytes
<1>3. \A sp, value \in Word : Stored(Pushed(contents, sp, value))
  BY <1>1, MemoryWriteStored, HalvesType DEF Pushed
<1>4. ASSUME NEW rr \in CombinedRegister PROVE Popped(rr) \in File
  <2>1. setCombinedRegister(registers_m, "SP", ToWord(SP + 2)) \in File
    BY OperandsRead, SetCombinedType DEF MachineOK, CombinedRegister
  <2>2. readTwoBytes(SP) \in Word
    BY OperandsRead
  <2>3. QED
    BY <2>1, <2>2, SetCombinedType DEF Popped
<1>5. QED
  BY <1>1, <1>2, <1>3, <1>4, SetRegisterType, SetCombinedType DEF MachineOK

-----------------------------------------------------------------------------
\* A handler that leaves a legal counter, file and memory is legal.
LEMMA EffectLegal ==
  ASSUME MachineOK, NEW pc \in Word, NEW file \in File, NEW c, Stored(c),
         Effect(pc, file, c)
  PROVE  LegalStep
BY DEF MachineOK, Effect, LegalStep

LEMMA ComputeLegal ==
  ASSUME MachineOK, NEW length \in Int, NEW file \in File, Compute(length, file)
  PROVE  LegalStep
BY EffectLegal, OperandsRead, StackAndWords DEF Compute

LEMMA StoreLegal ==
  ASSUME MachineOK, NEW length \in Int, NEW c, Stored(c), Store(length, c)
  PROVE  LegalStep
BY EffectLegal, OperandsRead DEF Store, MachineOK

\* A call: CALL, RST and an interrupt (Fake8080.cpp:157-165).
LEMMA CallLegal ==
  ASSUME MachineOK, NEW address \in Word, NEW returnAddress \in Word,
         callAddress(address, returnAddress)
  PROVE  LegalStep
<1> DEFINE saved == setCombinedRegister(registers_m, "WZ", returnAddress)
           file  == setCombinedRegister(saved, "SP", ToWord(SP - 2))
<1>1. saved \in File
  BY StackAndWords DEF CombinedRegister
<1>2. file \in File
  <2> HIDE DEF saved
  <2>1. QED
    BY <1>1, OperandsRead, SetCombinedType DEF CombinedRegister
<1>3. Stored(Pushed(contents, SP, returnAddress))
  BY OperandsRead, StackAndWords
<1>4. Effect(address, file, Pushed(contents, SP, returnAddress))
  BY DEF callAddress
<1> HIDE DEF file
<1>5. QED
  BY <1>2, <1>3, <1>4, EffectLegal

LEMMA ReturnLegal ==
  ASSUME MachineOK, RET
  PROVE  LegalStep
<1>1. Popped("WZ") \in File
  BY StackAndWords DEF CombinedRegister
<1>2. getCombinedRegister(Popped("WZ"), "WZ") \in Word
  BY <1>1, ReadersType DEF CombinedRegister
<1>3. QED
  BY <1>1, <1>2, EffectLegal, StackAndWords DEF RET

-----------------------------------------------------------------------------
\* The operands a table entry names are registers and pairs of the file.
LEMMA OperandsNamed ==
  /\ OperandRegister \subseteq Register
  /\ OperandPair \subseteq CombinedRegister
BY DEF OperandRegister, Register, OperandPair, CombinedRegister

\* Handlers of the flags and of A (Fake8080.cpp:167-216).
LEMMA FlagHandlersLegal ==
  ASSUME MachineOK, NOP \/ STC \/ CMC \/ CMA \/ DAA
  PROVE  LegalStep
<1>1. CASE NOP
  BY <1>1, ComputeLegal DEF NOP, MachineOK
<1>2. CASE STC
  <2>1. setFlag(registers_m, "CY", TRUE) \in File
    BY SetFlagType, Zenon DEF MachineOK, Flags
  <2>2. QED
    BY <1>2, <2>1, ComputeLegal, 1 \in Int, Zenon DEF STC
<1>3. CASE CMC
  <2>1. (~getFlag(registers_m, "CY")) \in BOOLEAN
    BY Zenon
  <2>2. setFlag(registers_m, "CY", ~getFlag(registers_m, "CY")) \in File
    BY <2>1, SetFlagType, Zenon DEF MachineOK, Flags
  <2>3. QED
    BY <1>3, <2>2, ComputeLegal, 1 \in Int, Zenon DEF CMC
<1>4. CASE CMA
  <2>1. setRegister(registers_m, "A", BitNot(A)) \in File
    BY OperandsRead, LogicType, StackAndWords DEF Register
  <2>2. QED
    BY <1>4, <2>1, ComputeLegal DEF CMA
<1>5. CASE DAA
  BY <1>5, ComputeLegal, DecimalAdjustType DEF DAA, MachineOK
<1>6. QED
  BY <1>1, <1>2, <1>3, <1>4, <1>5

\* Handlers that load a register or a pair.
LEMMA LoadHandlersLegal ==
  ASSUME MachineOK,
         NEW reg \in OperandRegister, NEW source \in OperandRegister,
         NEW rr \in OperandPair,
         \/ MOV_R_R(source, reg) \/ MOV_R_M(reg) \/ MVI_R_d8(reg)
         \/ LXI_RR_d16(rr) \/ LDAX_RR(rr) \/ LDA_a16 \/ LHLD_a16
         \/ XCHG \/ SPHL \/ POP_RR(rr)
  PROVE  LegalStep
<1>1. /\ reg \in Register /\ source \in Register /\ rr \in CombinedRegister
      /\ "A" \in Register
      /\ {"HL", "DE", "SP", "WZ"} \subseteq CombinedRegister
      /\ registers_m \in File
  BY OperandsNamed DEF MachineOK, Register, CombinedRegister
<1>2. CASE MOV_R_R(source, reg)
  <2>1. setRegister(registers_m, reg, getRegister(registers_m, source)) \in File
    BY <1>1, ReadersType, SetRegisterType
  <2>2. QED
    BY <1>2, <2>1, ComputeLegal DEF MOV_R_R
<1>3. CASE MOV_R_M(reg)
  BY <1>1, <1>3, ComputeLegal, OperandsRead, StackAndWords DEF MOV_R_M
<1>4. CASE MVI_R_d8(reg)
  BY <1>1, <1>4, ComputeLegal, OperandsRead, StackAndWords DEF MVI_R_d8
<1>5. CASE LXI_RR_d16(rr)
  BY <1>1, <1>5, ComputeLegal, OperandsRead, StackAndWords DEF LXI_RR_d16
<1>6. CASE LDAX_RR(rr)
  <2>1. memoryRead(getCombinedRegister(registers_m, rr)) \in Byte
    BY <1>1, OperandsRead, ReadersType
  <2>2. QED
    BY <1>1, <1>6, <2>1, ComputeLegal, StackAndWords DEF LDAX_RR
<1>7. CASE LDA_a16
  <2>1. setCombinedRegister(registers_m, "WZ", readNextTwoBytes) \in File
    BY <1>1, OperandsRead, StackAndWords
  <2>2. memoryRead(readNextTwoBytes) \in Byte
    BY OperandsRead
  <2>3. QED
    BY <1>1, <1>7, <2>1, <2>2, ComputeLegal, SetRegisterType DEF LDA_a16
<1>8. CASE LHLD_a16
  <2>1. setCombinedRegister(registers_m, "HL", readTwoBytes(readNextTwoBytes)) \in File
    BY <1>1, OperandsRead, StackAndWords
  <2>2. QED
    BY <1>8, <2>1, ComputeLegal DEF LHLD_a16
<1>9. CASE XCHG
  <2> DEFINE exchanged == setCombinedRegister(registers_m, "HL",
                                              getCombinedRegister(registers_m, "DE"))
  <2>1. exchanged \in File
    BY <1>1, ReadersType, StackAndWords
  <2>2. Compute(1, setCombinedRegister(exchanged, "DE", HL))
    BY <1>9 DEF XCHG
  <2> HIDE DEF exchanged
  <2>3. setCombinedRegister(exchanged, "DE", HL) \in File
    BY <1>1, <2>1, OperandsRead, SetCombinedType
  <2>4. QED
    BY <2>2, <2>3, ComputeLegal
<1>10. CASE SPHL
  BY <1>1, <1>10, ComputeLegal, OperandsRead, StackAndWords DEF SPHL
<1>11. CASE POP_RR(rr)
  BY <1>1, <1>11, ComputeLegal, StackAndWords DEF POP_RR
<1>12. QED
  BY <1>2, <1>3, <1>4, <1>5, <1>6, <1>7, <1>8, <1>9, <1>10, <1>11

\* Handlers that compute (Fake8080.hpp:534-609, 611-701, Fake8080.cpp:218-308).
LEMMA ComputeHandlersLegal ==
  ASSUME MachineOK,
         NEW reg \in OperandRegister, NEW rr \in OperandPair,
         NEW kind, NEW useCarry, NEW storeResult, NEW direction, NEW rotateThrough,
         \/ INX_DCX_RR(rr, kind) \/ INR_DCR_R(reg, kind) \/ INR_DCR_M(kind)
         \/ DAD_RR(rr) \/ RLC_RRC_RAL_RAR_R(reg, direction, rotateThrough)
         \/ ADD_ADC_SUB_SBB_CMP_R(reg, kind, useCarry, storeResult)
         \/ ADD_ADC_SUB_SBB_CMP_M(kind, useCarry, storeResult)
         \/ ADI_ACI_SUI_SBI_CPI_d8(kind, useCarry, storeResult)
  PROVE  LegalStep
<1>1. /\ reg \in Register /\ rr \in CombinedRegister /\ "W" \in Register
      /\ registers_m \in File
  BY OperandsNamed DEF MachineOK, Register
<1>2. /\ loadMtoW \in File
      /\ setRegister(registers_m, "W", readNextByte) \in File
  BY <1>1, OperandsRead, StackAndWords
<1>3. CASE INX_DCX_RR(rr, kind)
  <2> DEFINE value == getCombinedRegister(registers_m, rr)
             next  == ToWord(IF kind = "ADD" THEN value + 1 ELSE value - 1)
  <2>1. value \in Int
    BY <1>1, ReadersType, WordRange
  <2>2. next \in Word
    BY <2>1, Converted
  <2>3. Compute(1, setCombinedRegister(registers_m, rr, next))
    BY <1>3 DEF INX_DCX_RR
  <2> HIDE DEF next
  <2>4. QED
    BY <1>1, <2>2, <2>3, ComputeLegal, StackAndWords
<1>4. CASE INR_DCR_R(reg, kind)
  BY <1>1, <1>4, ComputeLegal, IncrementType DEF INR_DCR_R
<1>5. CASE INR_DCR_M(kind)
  <2> DEFINE file == Increment(loadMtoW, "W", kind)
  <2>1. file \in File
    BY <1>1, <1>2, IncrementType
  <2>2. Effect(After(1), file, memoryWrite(contents, HL, getRegister(file, "W")))
    BY <1>5 DEF INR_DCR_M
  <2> HIDE DEF file
  <2>3. getRegister(file, "W") \in Byte
    BY <1>1, <2>1, ReadersType
  <2>4. Stored(memoryWrite(contents, HL, getRegister(file, "W")))
    BY <2>3, MemoryWriteStored, StackAndWords
  <2>5. After(1) \in Word
    BY OperandsRead
  <2>6. QED
    BY <2>1, <2>2, <2>4, <2>5, EffectLegal
<1>6. CASE DAD_RR(rr)
  BY <1>1, <1>6, ComputeLegal, DoubleAddType DEF DAD_RR
<1>7. CASE RLC_RRC_RAL_RAR_R(reg, direction, rotateThrough)
  BY <1>1, <1>7, ComputeLegal, RotateType DEF RLC_RRC_RAL_RAR_R
<1>8. CASE ADD_ADC_SUB_SBB_CMP_R(reg, kind, useCarry, storeResult)
  BY <1>1, <1>8, ComputeLegal, AccumulatorArithmeticType DEF ADD_ADC_SUB_SBB_CMP_R
<1>9. CASE ADD_ADC_SUB_SBB_CMP_M(kind, useCarry, storeResult)
  BY <1>1, <1>2, <1>9, ComputeLegal, AccumulatorArithmeticType
     DEF ADD_ADC_SUB_SBB_CMP_M
<1>10. CASE ADI_ACI_SUI_SBI_CPI_d8(kind, useCarry, storeResult)
  BY <1>1, <1>2, <1>10, ComputeLegal, AccumulatorArithmeticType
     DEF ADI_ACI_SUI_SBI_CPI_d8
<1>11. QED
  BY <1>3, <1>4, <1>5, <1>6, <1>7, <1>8, <1>9, <1>10

LEMMA LogicHandlersLegal ==
  ASSUME MachineOK, NEW reg \in OperandRegister, NEW logic \in LogicOperation,
         ANA_ORA_XRA_R(reg, logic) \/ ANA_ORA_XRA_M(logic) \/ ANI_ORI_XRI_d8(logic)
  PROVE  LegalStep
<1>1. reg \in Register /\ "W" \in Register /\ registers_m \in File
  BY OperandsNamed DEF MachineOK, Register
<1>2. /\ loadMtoW \in File
      /\ setRegister(registers_m, "W", readNextByte) \in File
  BY <1>1, OperandsRead, StackAndWords
<1>3. CASE ANA_ORA_XRA_R(reg, logic)
  BY <1>1, <1>3, ComputeLegal, AccumulatorLogicType DEF ANA_ORA_XRA_R
<1>4. CASE ANA_ORA_XRA_M(logic)
  BY <1>1, <1>2, <1>4, ComputeLegal, AccumulatorLogicType DEF ANA_ORA_XRA_M
<1>5. CASE ANI_ORI_XRI_d8(logic)
  BY <1>1, <1>2, <1>5, ComputeLegal, AccumulatorLogicType DEF ANI_ORI_XRI_d8
<1>6. QED
  BY <1>3, <1>4, <1>5

\* Handlers that write memory (Fake8080.cpp:258-269, 310-315, 324-333,
\* Fake8080.hpp:520-525, 737-764).
LEMMA StoreHandlersLegal ==
  ASSUME MachineOK, NEW reg \in OperandRegister, NEW rr \in OperandPair,
         \/ MOV_M_R(reg) \/ MVI_M_d8 \/ STAX_RR(rr) \/ SHLD_a16 \/ STA_a16
         \/ XTHL \/ PUSH_RR(rr)
  PROVE  LegalStep
<1>1. /\ reg \in Register /\ rr \in CombinedRegister
      /\ {"HL", "SP", "WZ"} \subseteq CombinedRegister
      /\ registers_m \in File
  BY OperandsNamed DEF MachineOK, Register, CombinedRegister
<1>2. \A address, value : value \in Byte => Stored(memoryWrite(contents, address, value))
  BY MemoryWriteStored, StackAndWords
<1>3. /\ After(1) \in Word /\ After(2) \in Word /\ After(3) \in Word
      /\ A \in Byte /\ HL \in Word /\ SP \in Word
      /\ readNextByte \in Byte /\ readNextTwoBytes \in Word
  BY OperandsRead
<1>4. CASE MOV_M_R(reg)
  <2>1. getRegister(registers_m, reg) \in Byte
    BY <1>1, ReadersType
  <2>2. QED
    BY <1>2, <1>4, <2>1, StoreLegal DEF MOV_M_R
<1>5. CASE MVI_M_d8
  BY <1>2, <1>3, <1>5, StoreLegal DEF MVI_M_d8
<1>6. CASE STAX_RR(rr)
  BY <1>2, <1>3, <1>6, StoreLegal DEF STAX_RR
<1>7. CASE SHLD_a16
  <2>1. Stored(writeTwoBytes(contents, readNextTwoBytes, HL))
    BY <1>3, StackAndWords
  <2>2. QED
    BY <1>7, <2>1, StoreLegal DEF SHLD_a16
<1>8. CASE STA_a16
  <2>1. setCombinedRegister(registers_m, "WZ", readNextTwoBytes) \in File
    BY <1>1, <1>3, StackAndWords
  <2>2. QED
    BY <1>2, <1>3, <1>8, <2>1, EffectLegal DEF STA_a16
<1>9. CASE XTHL
  <2>1. setCombinedRegister(registers_m, "HL", readTwoBytes(SP)) \in File
    BY <1>1, <1>3, OperandsRead, StackAndWords
  <2>2. Stored(writeTwoBytes(contents, SP, HL))
    BY <1>3, StackAndWords
  <2>3. QED
    BY <1>3, <1>9, <2>1, <2>2, EffectLegal DEF XTHL
<1>10. CASE PUSH_RR(rr)
  <2>1. setCombinedRegister(registers_m, "SP", ToWord(SP - 2)) \in File
    BY <1>1, OperandsRead, StackAndWords
  <2>2. Stored(Pushed(contents, SP, getCombinedRegister(registers_m, rr)))
    BY <1>1, <1>3, ReadersType, StackAndWords
  <2>3. QED
    BY <1>3, <1>10, <2>1, <2>2, EffectLegal DEF PUSH_RR
<1>11. QED
  BY <1>4, <1>5, <1>6, <1>7, <1>8, <1>9, <1>10

\* Jumps, calls and returns, taken or not (Fake8080.hpp:703-735, 781-787,
\* Fake8080.cpp:344-470).
LEMMA JumpHandlersLegal ==
  ASSUME MachineOK, NEW flag, NEW negate, NEW vector \in Byte,
         \/ JMP_a16 \/ PCHL \/ CALL_a16 \/ RET
         \/ conditionalJMP_a16(flag, negate) \/ conditionalCall_a16(flag, negate)
         \/ conditionalRet(flag, negate)
         \/ vector \in 0 .. 7 /\ RST_N(vector)
  PROVE  LegalStep
<1>1. /\ registers_m \in File /\ Stored(contents)
      /\ readNextTwoBytes \in Word /\ HL \in Word
      /\ After(1) \in Word /\ After(3) \in Word
  BY OperandsRead, StackAndWords DEF MachineOK
<1>2. ASSUME JMP_a16 PROVE LegalStep
  BY <1>1, <1>2, EffectLegal DEF JMP_a16
<1>3. CASE PCHL
  BY <1>1, <1>3, EffectLegal DEF PCHL
<1>4. ASSUME CALL_a16 PROVE LegalStep
  BY <1>1, <1>4, CallLegal DEF CALL_a16
<1>5. ASSUME Compute(1, registers_m) \/ Compute(3, registers_m) PROVE LegalStep
  BY <1>1, <1>5, ComputeLegal
<1>6. CASE conditionalJMP_a16(flag, negate)
  BY <1>2, <1>5, <1>6 DEF conditionalJMP_a16
<1>7. CASE conditionalCall_a16(flag, negate)
  BY <1>4, <1>5, <1>7 DEF conditionalCall_a16
<1>8. CASE RET \/ conditionalRet(flag, negate)
  BY <1>5, <1>8, ReturnLegal DEF conditionalRet
<1>9. CASE vector \in 0 .. 7 /\ RST_N(vector)
  <2>1. 8 * vector \in Word
    BY <1>9, WordRange
  <2>2. QED
    BY <1>1, <1>9, <2>1, CallLegal DEF RST_N
<1>10. QED
  BY <1>2, <1>3, <1>4, <1>6, <1>7, <1>8, <1>9

\* IN and OUT (Fake8080.cpp:484-498).
LEMMA DeviceHandlersLegal ==
  ASSUME MachineOK, IN_d8 \/ OUT_d8
  PROVE  LegalStep
<1>1. /\ ports_m \in [Port -> Device \cup {NoDevice}]
      /\ latch \in [Device -> PortValue]
      /\ readNextByte \in Port /\ A \in PortValue
      /\ Port = Byte /\ PortValue = Byte
  BY OperandsRead, BoardAssumption DEF MachineOK
<1>2. CASE IN_d8
  <2>1. in(ports_m, latch, readNextByte) \in Byte
    BY <1>1, InType
  <2>2. setRegister(registers_m, "A", in(ports_m, latch, readNextByte)) \in File
    BY <2>1, StackAndWords DEF Register
  <2>3. QED
    BY <1>2, <2>2, ComputeLegal DEF IN_d8
<1>3. CASE OUT_d8
  <2>1. latch' \in [Device -> Byte]
    BY <1>1, <1>3, OutType DEF OUT_d8
  <2>2. pc_m' \in Word
    BY <1>3, OperandsRead DEF OUT_d8
  <2>3. registers_m' \in File /\ contents' = contents
    BY <1>3 DEF OUT_d8, MachineOK
  <2>4. QED
    BY <2>1, <2>2, <2>3, StackAndWords DEF LegalStep
<1>4. QED
  BY <1>2, <1>3

\* Whatever the table holds at the opcode fetched, its handler is legal.
LEMMA DataHandlerLegal ==
  ASSUME MachineOK, NEW i \in Instruction, DataHandler(i)
  PROVE  LegalStep
<1>1. CASE i.op \in {"NOP", "STC", "CMC", "CMA", "DAA"}
  BY <1>1, FlagHandlersLegal DEF DataHandler
<1>2. CASE i.op \in {"MOV_R_R", "MOV_R_M", "MVI_R_d8", "LXI_RR_d16", "LDAX_RR",
                     "LDA_a16", "LHLD_a16", "XCHG", "SPHL", "POP_RR"}
  BY <1>2, LoadHandlersLegal, OperandTypes
     DEF DataHandler, PairOp, OperandRegister, OperandPair
<1>3. CASE i.op \in {"INX_DCX_RR", "INR_DCR_R", "INR_DCR_M", "DAD_RR",
                     "RLC_RRC_RAL_RAR_R", "ADD_ADC_SUB_SBB_CMP_R",
                     "ADD_ADC_SUB_SBB_CMP_M", "ADI_ACI_SUI_SBI_CPI_d8"}
  BY <1>3, ComputeHandlersLegal, OperandTypes
     DEF DataHandler, PairOp, OperandRegister, OperandPair
<1>4. CASE i.op \in {"ANA_ORA_XRA_R", "ANA_ORA_XRA_M", "ANI_ORI_XRI_d8"}
  BY <1>4, LogicHandlersLegal, OperandTypes DEF DataHandler, OperandRegister
<1>5. CASE i.op \in {"MOV_M_R", "MVI_M_d8", "STAX_RR", "SHLD_a16", "STA_a16",
                     "XTHL", "PUSH_RR"}
  BY <1>5, StoreHandlersLegal, OperandTypes
     DEF DataHandler, PairOp, OperandRegister, OperandPair
<1>6. CASE i.op \in {"JMP_a16", "PCHL", "CALL_a16", "RET", "conditionalJMP_a16",
                     "conditionalCall_a16", "conditionalRet", "RST_N"}
  BY <1>6, JumpHandlersLegal, OperandTypes, ByteRange DEF DataHandler
<1>7. CASE i.op = "IN_d8"
  BY <1>7, DeviceHandlersLegal DEF DataHandler
<1>8. QED
  BY <1>1, <1>2, <1>3, <1>4, <1>5, <1>6, <1>7 DEF DataHandler

-----------------------------------------------------------------------------
\* The invariant: every handler relies on the types of the others' results,
\* and an interrupt on the vector of the last request.
CpuInv == MachineOK /\ interruptVectorRequested_m \in Byte

\* A step either runs a handler, which obeys LegalStep and keeps the wiring, or
\* leaves registers and memory alone.
Handled ==
  /\ LegalStep
  /\ interruptVectorRequested_m' \in Byte
  /\ UNCHANGED <<regions_m, ports_m>>

Quiet ==
  /\ pc_m' \in {pc_m, 0}
  /\ latch' \in [Device -> Byte]
  /\ ports_m' \in [Port -> Device \cup {NoDevice}]
  /\ interruptVectorRequested_m' \in Byte
  /\ UNCHANGED <<registers_m, busVars>>

\* One cycle that takes an interrupt or runs an instruction
\* (Fake8080.cpp:9-31).
LEMMA CycleLegal ==
  ASSUME CpuInv, AcceptInterrupt \/ Execute
  PROVE  Handled
<1>1. MachineOK /\ pc_m \in Word
  BY DEF CpuInv, MachineOK
<1>2. CASE AcceptInterrupt
  <2>1. 8 * interruptVectorRequested_m \in Word
    BY ByteRange, WordRange DEF CpuInv
  <2>2. callAddress(8 * interruptVectorRequested_m, pc_m)
    BY <1>2 DEF AcceptInterrupt, Taken
  <2>3. LegalStep
    BY <1>1, <2>1, <2>2, CallLegal
  <2>4. QED
    BY <1>2, <2>3 DEF AcceptInterrupt, Taken, Handled, CpuInv
<1>3. CASE Execute
  <2>1. instruction \in Instruction
    BY <1>1, OperandsRead, EveryOpcodeIsInstruction DEF instruction
  <2>2. ASSUME NOP PROVE LegalStep
    BY <1>1, <2>2, FlagHandlersLegal
  <2>3. ASSUME DataHandler(instruction) PROVE LegalStep
    BY <1>1, <2>1, <2>3, DataHandlerLegal
  <2>4. ASSUME OUT_d8 PROVE LegalStep
    BY <1>1, <2>4, DeviceHandlersLegal
  <2>5. /\ UNCHANGED <<regions_m, ports_m>>
        /\ NOP \/ OUT_d8 \/ DataHandler(instruction)
    BY <1>3 DEF Execute, EI, DI, HLT
  <2>6. interruptVectorRequested_m' \in Byte
    <3>1. CASE OUT_d8
      BY <3>1, RingsByte DEF OUT_d8, CpuInv
    <3>2. CASE UNCHANGED interruptVectorRequested_m
      BY <3>2 DEF CpuInv
    <3>3. QED
      BY <1>3, <3>1, <3>2, Zenon DEF Execute, EI, DI, HLT, Control
  <2>7. QED
    BY <2>2, <2>3, <2>4, <2>5, <2>6 DEF Handled
<1>4. QED
  BY <1>2, <1>3

\* Every other step.
LEMMA OtherSteps ==
  ASSUME CpuInv, [Next]_vars
  PROVE  AcceptInterrupt \/ Execute \/ Quiet
<1> USE DEF CpuInv, MachineOK
<1>1. CASE StayHalted
  BY <1>1 DEF StayHalted, Control, Quiet, ioVars
<1>2. ASSUME NEW interruptNum \in Vectors, requestInterrupt(interruptNum)
      PROVE  Quiet
  BY <1>2, BoardAssumption DEF requestInterrupt, Requested, Quiet, cpuVars, ioVars
<1>3. CASE reset
  BY <1>3 DEF reset, Quiet, ioVars
<1>4. CASE OutsideInput
  <2>1. PICK device \in Device, value \in Inputs : DeviceInput(device, value)
    BY <1>4 DEF OutsideInput
  <2>2. latch' \in [Device -> Byte] /\ ports_m' = ports_m
    BY <2>1, BoardAssumption DEF DeviceInput
  <2>3. QED
    BY <1>4, <2>2 DEF OutsideInput, Quiet, cpuVars, interruptVars
<1>5. CASE Plug
  <2>1. PICK socket \in Sockets : attach(socket[1], socket[2])
    BY <1>5 DEF Plug
  <2>2. socket[2] \in Device
    BY BoardAssumption
  <2>3. ports_m' \in [Port -> Device \cup {NoDevice}] /\ latch' = latch
    BY <2>1, <2>2 DEF attach
  <2>4. QED
    BY <1>5, <2>3 DEF Plug, Quiet, cpuVars, interruptVars
<1>6. CASE UNCHANGED vars
  BY <1>6 DEF vars, Quiet, cpuVars, interruptVars, ioVars
<1>7. QED
  BY <1>1, <1>2, <1>3, <1>4, <1>5, <1>6 DEF Next, cycle

\* The invariant holds when the CPU is built on its board.
LEMMA CpuInitial == Init => CpuInv
<1> SUFFICES ASSUME Init PROVE CpuInv
  OBVIOUS
<1>1. 0 \in Byte /\ 0 \in Word
  BY ByteRange, WordRange
<1>2. registers_m \in File
  BY InitialFile DEF Init
<1>3. IsContents(contents)
  BY BoardAssumption DEF Init
<1>4. latch \in [Device -> Byte]
  BY <1>1 DEF Init
<1>5. ports_m \in [Port -> Device \cup {NoDevice}]
  BY BoardAssumption DEF Init
<1>6. QED
  BY <1>1, <1>2, <1>3, <1>4, <1>5 DEF Init, CpuInv, MachineOK

\* Every step keeps the invariant.
LEMMA CpuInvariant == Spec => []CpuInv
<1>1. CpuInv /\ [Next]_vars => CpuInv'
  <2> SUFFICES ASSUME CpuInv, [Next]_vars
               PROVE  CpuInv'
    OBVIOUS
  <2>1. CASE Handled
    BY <2>1 DEF Handled, LegalStep, Stored, CpuInv, MachineOK
  <2>2. CASE Quiet
    <3>1. pc_m' \in Word
      BY <2>2, WordRange DEF Quiet, CpuInv, MachineOK
    <3>2. QED
      BY <2>2, <3>1 DEF Quiet, CpuInv, MachineOK, busVars
  <2>3. QED
    BY <2>1, <2>2, CycleLegal, OtherSteps
<1>2. QED
  BY <1>1, CpuInitial, PTL DEF Spec

\* Every variable of the CPU keeps the type the code declares for it, the
\* program counter and the stack pointer wrap at sixteen bits, and no read
\* leaves the span behind a region, whatever the program, the requests and
\* the inputs are (Fake8080.hpp:37-49).
THEOREM TypeCorrect == Spec => []TypeOK
<1>1. CpuInv /\ InterruptInv => TypeOK
  BY DEF CpuInv, MachineOK, File, InterruptInv, InterruptTypeOK, TypeOK
<1>2. QED
  BY <1>1, CpuInvariant, InterruptInvariant, PTL

\* Bit 1 of F reads 1 in every state, after any POP PSW (Registers.cpp:16-23).
THEOREM ReservedFlagAlwaysSet == Spec => []ReservedFlagSet
<1>1. CpuInv => ReservedFlagSet
  BY DEF CpuInv, MachineOK, File, ReservedFlagSet
<1>2. QED
  BY <1>1, CpuInvariant, PTL

\* No instruction and no interrupt changes a byte of ROM, wherever the stack
\* or a pointer leads (MemoryBus.cpp:40-45, 73-77).
THEOREM RomKept == Spec => RomUnchanged
<1> DEFINE Kept == \A region \in Region :
                     Kind[region] = "rom" => contents'[region] = contents[region]
<1>1. CpuInv /\ [Next]_vars => Kept
  <2> SUFFICES ASSUME CpuInv, [Next]_vars
               PROVE  Kept
    OBVIOUS
  <2>1. CASE Handled
    BY <2>1 DEF Handled, LegalStep, Stored
  <2>2. CASE Quiet
    BY <2>2 DEF Quiet, busVars
  <2>3. QED
    BY <2>1, <2>2, CycleLegal, OtherSteps
<1>2. CpuInv /\ [Next]_vars => [Kept]_vars
  BY <1>1
<1> HIDE DEF Kept
<1>3. Spec => [][Kept]_vars
  BY <1>2, CpuInvariant, PTL DEF Spec
<1>4. QED
  BY <1>3, PTL DEF RomUnchanged, Kept
=============================================================================
