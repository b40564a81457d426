------------------------- MODULE Fake8080Properties -------------------------
(***************************************************************************)
(* The properties of the CPU on its buses.                                 *)
(***************************************************************************)
EXTENDS Fake8080, Encoding

\* Every variable has the type the code declares for it.
TypeOK ==
  /\ pc_m \in Word
  /\ registers_m \in RegisterFile
  /\ interruptsEnableRequested_m \in BOOLEAN
  /\ interruptsEnabled_m \in BOOLEAN
  /\ interruptRequested_m \in BOOLEAN
  /\ interruptVectorRequested_m \in Byte
  /\ halted_m \in BOOLEAN
  /\ regions_m = Mapping
  /\ ports_m \in [Port -> Device \cup {NoDevice}]
  /\ IsContents(contents)
  /\ latch \in [Device -> Byte]

\* Bit 1 of F reads 1 whatever a program pops into it: a saved PSW always
\* carries the bit (Registers.cpp:16-23).
ReservedFlagSet == getBit(registers_m["F"], 1)

\* No EI is left half-way when the CPU halts: the latch is consumed by the
\* cycle that runs HLT, so a CPU that sleeps with interrupts on can be woken
\* by the next request (Fake8080.cpp:10-13, 472-476, 500-504).
HaltedNotArming == halted_m => ~interruptsEnableRequested_m

\* The opcode at pc_m.
Fetched == memoryRead(pc_m)

\* Where the program may go after the opcode at pc_m.
Sequel == ToWord(pc_m + Length(Fetched))

Targets ==
  CASE IsCall(Fetched) /\ Z(Fetched) = 7 -> {8 * Y(Fetched)}
    [] IsCall(Fetched) /\ Z(Fetched) # 7 -> {readNextTwoBytes}
    [] IsJump(Fetched) -> {readNextTwoBytes}
    [] IsReturn(Fetched) -> {readTwoBytes(SP)}
    [] IsPCHL(Fetched) -> {HL}
    [] OTHER -> {}

\* Instructions never get out of step: a handler reads exactly the operand
\* bytes its opcode has, on the branch that ignores them too, and leaves for
\* another address only if it is a jump, a call or a return
\* (Fake8080.hpp:703-735, Fake8080.cpp:45-55).
StaysInStep ==
  [][Execute => pc_m' = Sequel \/ pc_m' \in Targets]_vars

\* A handler changes the registers its instruction names and the scratch pair
\* WZ, and nothing else.
OnlyDestinationsChange ==
  [][Execute =>
       \A reg \in Register \ (Destinations(Fetched) \cup Halves("WZ")) :
         registers_m'[reg] = registers_m[reg]]_vars

IsRam(address) == Kind[findRegion(regions_m, address).region] = "ram"

\* Two addresses of distinct cells of RAM.
StackCells(high, low) ==
  /\ IsRam(high) /\ IsRam(low)
  /\ WiredTo(high) # WiredTo(low)

\* A call, an RST or an interrupt that is taken leaves on the stack the
\* address of the instruction that would have come next, wherever the stack
\* wraps, as long as the stack is in RAM (Fake8080.cpp:15-21, 157-165,
\* 382-386, Fake8080.hpp:715-764, 781-787).
CallsLeaveReturnAddress ==
  [][LET called == Execute /\ IsCall(Fetched) /\ SP' # SP
         next   == IF Accepts THEN pc_m ELSE Sequel
     IN  AcceptInterrupt \/ called =>
           /\ SP' = ToWord(SP - 2)
           /\ StackCells(ToWord(SP - 1), ToWord(SP - 2)) =>
                readTwoBytes(SP)' = next]_vars

\* Nothing a program does changes a byte of ROM, stores below a stack that
\* overlaps it included (MemoryBus.cpp:73-77).
RomUnchanged ==
  [][\A region \in Region :
       Kind[region] = "rom" => contents'[region] = contents[region]]_vars

\* The addresses the opcode at pc_m stores at.
StoredAt ==
  LET y    == Y(Fetched)
      z    == Z(Fetched)
      word == readNextTwoBytes
      Group0Stores == CASE z = 2 /\ y \in {0, 2} ->
                             {getCombinedRegister(registers_m, Pair(Fetched))}
                        [] z = 2 /\ y = 4 -> {word, ToWord(word + 1)}
                        [] z = 2 /\ y = 6 -> {word}
                        [] z \in {4, 5, 6} /\ y = 6 -> {HL}
                        [] OTHER -> {}
  IN  CASE Group(Fetched) = 0 -> Group0Stores
        [] Group(Fetched) = 1 /\ y = 6 -> {HL}
        [] Group(Fetched) = 3 /\ z \in {4, 5, 7} -> {ToWord(SP - 1), ToWord(SP - 2)}
        [] Group(Fetched) = 3 /\ z = 3 /\ y = 4 -> {SP, ToWord(SP + 1)}
        [] OTHER -> {}

\* A step changes only cells wired to an address its instruction stores at, or
\* to the two below the stack pointer when it takes an interrupt, wherever
\* pointers and the stack wrap or meet ROM and the open bus
\* (Fake8080.cpp:57-84, 157-165, 258-269, 310-333, Fake8080.hpp:520-525,
\* 602-609, 737-764).
OnlyNamedCellsChange ==
  [][LET addresses == IF Accepts THEN {ToWord(SP - 1), ToWord(SP - 2)} ELSE StoredAt
     IN  cycle =>
           \A region \in Region : \A offset \in DOMAIN contents[region] :
             contents'[region][offset] # contents[region][offset] =>
               <<region, offset>> \in {WiredTo(address) : address \in addresses}]_vars

\* The interrupt state of the CPU, seen from outside.
Interrupts == INSTANCE InterruptControl
                WITH Vector  <- Byte,
                     pc      <- pc_m,
                     enable  <- IF interruptsEnableRequested_m THEN "arming"
                                ELSE IF interruptsEnabled_m THEN "on" ELSE "off",
                     pending <- IF interruptRequested_m
                                  THEN <<interruptVectorRequested_m>> ELSE <<>>,
                     halted  <- halted_m

\* The CPU implements the interrupt contract: a request that can be served is
\* served before any further instruction, by one call at a time, wakes a
\* halted CPU, and is served for certain if the host keeps calling cycle.
ImplementsInterruptControl == Interrupts!ControlSpec
=============================================================================
