# Verification of Fake8080

Fake8080 is a C++ library that emulates the Intel 8080: a CPU class, a memory bus
the host assembles from regions, and an I/O bus the host attaches devices to.
This directory holds TLA+ models of all three, TLC configurations that check them
on small instances, and proofs that TLAPS checks for every program, board,
request and input.

Paths below are relative to the repository (`src/Fake8080.cpp`,
`include/Fake8080.hpp`); when a path starts the repository's own `src/`
directory, PROJECT.json writes it `src/src/...`.

## 1. Inventory

| Component | State | Operations | Interacts with |
|---|---|---|---|
| CPU core (`Fake8080.cpp:9-43`) | `pc_m`, `registers_m`, `halted_m`, the interrupt flags and vector | `cycle`, `requestInterrupt`, `reset` | calls the handler the table names; reads and writes the memory bus |
| Instruction handlers (`Fake8080.cpp:45-504`, `Fake8080.hpp:436-787`) | none of their own | 256 opcodes through about forty parameterised "superfunctions" | register file, memory bus, I/O bus |
| Arithmetic and flags (`Fake8080.cpp:90-155, 189-216`, `Fake8080.hpp:544-677`) | the condition flags in register F | sums, differences, logic, rotations, DAA, DAD | register file |
| Opcode table (`Fake8080.hpp:789-1078`) | constant | lookup by opcode | selects the handlers |
| Register file (`Registers.hpp`, `Registers.cpp`) | twelve bytes | 8-bit, paired and flag accessors | used by every handler |
| Bit helpers (`BitsUtilities.hpp`) | none | halves, bits | used by the register file and the flags |
| Memory bus (`MemoryBus.hpp`, `MemoryBus.cpp`) | ordered list of ranges; the spans behind RAM and ROM regions | `map`, `read`, `write` | host maps, CPU reads and writes |
| I/O bus (`IOBus.hpp`, `IOBus.cpp`) | 256 pointers | `attach`, `in`, `out` | host attaches, CPU reads and writes, devices change by themselves |
| Cycle counts (`OpcodesCycles.hpp`) | constants | one count per handler, two for a conditional call or return | returned by the handlers, discarded by `cycle` |

The library is single-threaded: every public call runs to its end before the next
one. What makes it hard is not threads but the freedom of its callers and of the
program it runs.

* **Interleaving.** The host may call `requestInterrupt`, `reset` and `attach`
  between any two calls of `cycle`; devices change between any two calls. A request
  falls inside arithmetic that carries CY, between PUSH and POP, between EI and HLT.
* **Call-backs.** A device's `out` runs inside `cycle` and may call
  `requestInterrupt` there, after that cycle has looked for a request, with
  interrupts on or off, from the routine that serves the previous one.
* **One slot.** A request that is not served yet is overwritten by the next.
* **Protocol.** EI sets a latch (`interruptsEnableRequested_m`) that the next
  `cycle` turns into the enable before it looks for a request; DI, HLT, an
  accepted interrupt and `reset` all meet that latch.
* **Numeric edges.** Program counter, stack pointer and addresses wrap at 16
  bits, results at 8; `map` compares sizes in `uint16_t`, where a full range and an
  empty span look alike; DAA corrects in a `uint8_t`.
* **Order inside a step.** AC and CY both depend on the incoming CY; a rotation
  reads CY and writes it; a call pushes two bytes that may fall in different
  regions, one of which drops writes.
* **Order of set-up.** Ranges may overlap, and the first mapping wins.
* **A hand-written table** of 256 entries made by copying rows.

What makes each component correct:

* CPU core: a request that can be served is served before any further
  instruction, by one call, wakes a halted CPU, and cannot wait for ever while the
  program enables interrupts; interrupts are invisible to the program they
  interrupt; nothing is served without a request.
* Handlers: the program counter never gets out of step with the instructions;
  only the named registers and the named cells of memory change; calls leave the right return address at any
  stack position; ROM never changes.
* Arithmetic: results and flags together are exact, so that sequences of
  instructions compute on words, decimals and loops.
* Table and cycle counts: each entry is what the bit fields of its opcode say, and
  its count is that of the accesses to memory it makes.
* Memory bus: behaves as a flat memory, and never indexes a span out of bounds.
* I/O bus: a write reaches one device, an empty port reads 0xFF.

## 2. Modules

| Module | Role |
|---|---|
| `Bits` | `uint8_t`, `uint16_t`, their wrap-around and the bit operators |
| `Registers` | the register file as a function `Register -> Byte`; every accessor is an operator |
| `Alu` | the operations that compute a result and flags, on a register file |
| `AluLaws` | laws of sequences of such operations; `MCAlu` gives the operands |
| `MemoryBus` | list of ranges, regions and their spans; `map` and `write` as actions, `busRead` and `busWrite` as the operators the CPU uses |
| `FlatMemory` | abstract: every address is wired to one cell or to nothing |
| `IOBus` | the slots and the devices |
| `OpcodeTable` | `opcodes_m`, row by row: which superfunction with which template arguments |
| `OpcodesCycles` | the count each handler returns, taken or not |
| `Encoding` | reference: which instruction the bit fields of an opcode encode, its length, what it may change, how long it takes |
| `OpcodeEncoding` | table and counts against the encoding, entry by entry |
| `Fake8080` | composes the table, the memory bus and the I/O bus with the CPU: all handlers, `cycle`, `requestInterrupt`, `reset`, devices attached while it runs, input from outside |
| `InterruptControl` | abstract: what the CPU promises about interrupts, down to the vector served and where the program goes |
| `Fake8080Properties` | properties of the composed system and the refinement mapping to `InterruptControl` |
| `Fake8080History` | the CPU with two histories beside it: the request wanted last, and the words on the stack |
| `MCMemoryBus`, `MCAlu`, `MCOpcodes`, `MCInterrupts`, `MCDevices` | instances for TLC |
| `AluProofs`, `LawsProofs` | bits, register file and operations (lemmas); the laws of arithmetic, logic, rotations and decimals, and the table and its counts as invariants of their run |
| `OpcodeTableProofs` | every entry is an instruction, and the one of its bit fields |
| `BusProofs` | the two buses |
| `Fake8080Proofs`, `InstructionProofs` | the contract of interrupts, types and ROM; what one instruction may do |
| `HistoryProofs` | the request served and the stack, over whole runs |
| `ProgramProofs` | the program of `MCInterrupts` among its interrupts, point by point |

**How state and actions correspond to the code.** The variables of `Fake8080` are
the members of the class, under their names, and the state of the two buses it
refers to. One call of `cycle` is one step, since nothing can observe the CPU
inside it; `AcceptInterrupt`, `StayHalted` and `Execute` are its three outcomes
(lines 15-21, 23-25, 27-30), all of which first consume the latch of EI
(lines 10-13, `enabledNow`). A handler is an operator of the same name that gives
the next program counter, registers and memory (`Effect`); a table member that only
forwards template arguments is folded into its table entry. `After(n)` is the
program counter after the opcode and `n - 1` operand bytes are read. Scratch
writes to W and WZ are kept: they are register state.

OUT is the one handler that may change the interrupt flags without being EI, DI or
HLT: when the device at the port is one of `Alarm`, its `out` calls
`requestInterrupt` before the handler returns (`Rings`). It is therefore a disjunct
of `Execute` of its own. `Plug` is an `attach` by the host between two cycles;
`Sockets` says what it may attach where.

A `map` that throws changes nothing and is not a step. A device is a latch: it
reads as the last byte written to it or put there by the outside world, like
`MockIOPort` of `test/IN_OUT_Test.cpp`, and may request an interrupt when it is
written to. This is the one part modelled from how the code uses it.

`Fake8080History` adds two variables that only watch. `wanted` is the vector asked
for last (by the host or by a device inside OUT) that nobody has served. `frames`
lists the words pushed and not popped, the top first, as an onlooker who knows the
8080 would note them down from opcodes and flags: it does not look at what the
handlers do to the stack pointer or to memory. The list is given up (made empty)
when the program does what no stack survives: it sets the stack pointer, stores
into a byte of the list, or pushes where there are not two free bytes of RAM.

The boards of `Fake8080` are those whose regions are as wide as their ranges
(`BoardAssumption`). That `map` lets no other board through, with the one
exception of empty spans, is what `MemoryBus` checks and proves.

Operators named `X_Something` under a comment "Seeded fault" are mutated forms of
`X`, used to confirm that a property can fail.

## 3. Runs

| Run | Instance | Shows |
|---|---|---|
| `memory_bus` | 2-bit addresses, two RAM, one ROM as wide as the address space, one open region, three mappings | `MappedSizesMatch`, `InBounds`; the list implements `FlatMemory` |
| `empty_span` (violation) | the same, one span empty | `map` accepts an empty span for the whole address space |
| `default_open_bus` (violation) | the same | the default `OpenBusRegion` fits no address |
| `io_bus` | three ports, two devices, two bytes | ports whose readings change together name one device |
| `opcode_table` | all 256 opcodes | the table is the encoding; no entry repeats another unless marked as an alternative; each count follows from the accesses the encoding implies, on both branches |
| `alu` | all 256 accumulators, 15 second operands, both CY and AC; all pairs of two-digit decimals with both carries | exact sums and differences, order by CMP, words by bytes, reversible rotations, counters that keep CY, Boolean laws; ADC and DAA exact below the wrap |
| `decimal_wrap` (violation) | the pairs of decimals | ADC and DAA are not exact at binary sums 0xFA to 0xFF |
| `opcodes` | 256 opcodes in four scenes, eight cycles | handlers stay in step, change only their destinations and the cells they name, leave return addresses, keep ROM |
| `interrupts` | a program with two routines, three requests, two vectors | the result and the shared counter are right wherever requests fall; the one served is the last, once, at its vector; nested routines do not eat the stack, which holds exactly what was pushed and not popped; every word comes back to the return or POP it was saved for; requests are served |
| `resets` | the same program, two requests, one reset | the CPU implements `InterruptControl`, liveness included |
| `reset_state` (violation) | the same | `reset` is not a return to the initial state |
| `devices` | a program that polls a keyboard (on two ports), shows on whichever of two screens is plugged in, and prints labels on a printer that requests an interrupt from inside OUT; an empty port | only what was typed is shown, and only on a screen; what is typed is noticed; labels come out whole and in order |

**Bounds and why they are enough.** *Memory bus*: three mappings give every way
two ranges can overlap a third, a mirror (one region mapped twice) and a hole; the
address type is narrow so that the wrap of sizes and a range that ends at the last
address both occur. The theorems then hold for any width and any number of
mappings. *ALU*: the accumulator and the incoming flags are exhaustive; the second
operands hold every boundary of a nibble, a byte and a sign, and both checker
patterns. *Opcodes*: the scenes put the stack pointer where a push wraps below 0,
half in ROM, half below RAM, and where a pop passes 0xFFFF, and pointers in RAM,
ROM, the open bus and at 0xFFFF; `MaxCycles` is five set-up instructions, the
opcode, and two instructions of whatever it leads to. *Interrupts*: three
requests (`MaxRequests`) allow an overwritten request and a nested routine; the
program has each sequence the protocol is delicate about (EI then HLT, DI after
EI, EI then RET, PUSH PSW around flags, XTHL, a call taken and a return not taken); it never ends, so that a request may
come in any state of it. The RAM of the instance (`RamSize`, 32 cells) has room for
the data and the deepest stack, which `ProgramAssumption` states; the shared cell is
a byte, so counts agree modulo 256. One reset (`MaxResets`) may fall between any two of its
steps. *Devices*: the keyboard types 0, 1 or 0xC0 (nothing, and two keys whose
flags differ); a label has three lines, so that the printer's requests are made
once from the main loop, with interrupts on, and then from the routine that serves
the one before, with interrupts off; two screens are enough to change the plug
between the test and the OUT. The run starts no host request: the printer's are the
only ones, and none may be lost.

**Fairness.** `WF(cycle)`, or of `Cycle` in the instances: the host calls `cycle`
in a loop, which is the only way to use the library (the example in the
repository's `README.md`). Nothing else is assumed: requests, resets and input
may come or not. `cycle` is always enabled, so weak fairness is enough. Deadlock
checking is off only where the instance stops by its bound (`opcodes`,
`opcode_table`).

## 4. What the violation runs show

1. **DAA loses a carry** (`Fake8080.cpp:196-205`). 60 + 99 with a carry in is
   0xFA; the first correction wraps the `uint8_t` to 0, the test of the high digit
   sees 0, and the result is 00 without CY instead of 60 with CY. The comment of
   lines 200-201 and the example of `STC_CMA_CMC_DAA_Test.cpp:286` say otherwise.
2. **`reset` keeps the registers and the latch of EI** (`Fake8080.cpp:38-43`):
   the README says it returns the CPU to its initial state.
3. **`map` accepts an empty span for 0x0000-0xFFFF** (`MemoryBus.cpp:15-16`):
   the range size wraps to 0.
4. **An `OpenBusRegion` has size 0 by default** (`MemoryBus.hpp:24`), the comment
   above says 1.

## 5. What is proved

TLAPS checks the following for every value of the constants: any board, any
program, any devices, any requests.

* **Register file and arithmetic** (`AluProofs`, lemmas). Each accessor and each
  operation of `Alu` takes a register file whose bytes are bytes and whose F has
  bit 1 set to another such file. This set of files, `File`, is the strengthening
  that everything below relies on.
* **Laws of the arithmetic** (`SumsAreExact`, `ComparisonOrders`,
  `CountersLeaveCarry`, `WordsByBytesExact`, `LogicFollowsBoole`,
  `RotationsKeepBits`, `DecimalSumsExact`), for every register file the CPU can
  have and not only the operands of the run. The bits of F come first: a byte is
  the number its bits write, so that a flag reads back what was written to it and
  no other flag moves. Then the numbers: a wrapped byte and its carry hold the
  exact sum. A law puts the two together, along the order in which the code writes
  the flags. That bit 1 of F is set is a hypothesis the laws need
  (`OperandsAssumption`), and one the CPU keeps (`ReservedFlagAlwaysSet`).
  Logic is argued bit by bit: two bytes with the same bits are the same
  (`SameByte`), and each bit of a result is the Boolean one. For rotations, A and
  CY are a ring of nine bits (or A alone one of eight) and a rotation turns the ring
  by one place; the fold that repeats a rotation is unfolded turn by turn, so no
  induction is needed. For decimals, DAA is characterised digit by digit as the
  code corrects them, and the hypothesis of the law is where the high digit cannot
  have wrapped.
* **Opcode table** (`EveryOpcodeIsInstruction`, `TableIsEncoding`,
  `EncodingFollowed`, `EntriesAreDistinct`, `CountsAreTimes`). Each of the 256 entries is a handler with template arguments
  of the right kind; hence any byte fetched selects a handler with defined
  operands. Each is moreover the instruction of its bit fields: the opcodes are
  split by group and by field, and the row the field selects is compared with the
  table. The counts follow along the same split: one lemma per group computes what
  the group's handlers return and what their accesses take, on both branches. That
  no entry repeats another is argued with an assembler (`Home`): it gives the opcode
  of an instruction from the row of the table alone, and every entry is at home or
  a marked alternative, so two entries that are equal are at the same opcode.
* **Memory bus** (`BusTypeCorrect`, `SizesMatch`, `NeverOutOfBounds`,
  `FlatMemoryImplemented`). The invariant is that `map` accepted every entry of the
  list (`AllAccepted`). Equality of two sizes modulo the address space then gives
  equality of the widths when spans are not empty and not larger than the address
  space, and bounds when they are not empty. Both hypotheses are needed:
  `empty_span` shows what happens without them. The refinement proof shows that
  appending an entry wires exactly the free addresses of its range.
* **I/O bus** (`PortsTypeCorrect`, `OneDeviceAnswers`).
* **Interrupts** (`NeverHaltedArming`, `InterruptControlImplemented`). Every step
  is of one of ten kinds as far as the interrupt flags go (`StepKinds`), whatever
  handler runs; the tenth is an OUT whose device rings. The invariant adds to the
  types that a halted CPU has no EI half-way; without it, `StayHalted` would not
  map to a stutter of `InterruptControl`.
* **CPU on its buses** (`TypeCorrect`, `ReservedFlagAlwaysSet`, `RomKept`). The
  invariant `CpuInv` says that the registers are a `File`, the program counter a
  word, the memory a contents of the spans, the devices hold bytes, and the vector
  of the last request is a byte. One lemma per group of handlers shows that a
  handler leaves a `LegalStep` (types kept, and memory changed in RAM only);
  `CycleLegal` and `OtherSteps` put them together.
* **What one instruction may do** (`InstructionsStayInStep`,
  `HandlersChangeOnlyDestinations`, `ReturnAddressesLeft`, `StepsChangeNamedCells`).
  Each has two halves. One is about the handlers: where a handler goes on, which
  registers and cells it touches, by the fields of its table entry and on every
  branch. The other is about the table: an entry names no more than the bit fields
  of its opcode do. `CpuInv` supplies the types in between. For return addresses
  the bus comes in as well: two stores to distinct cells of RAM are read back,
  whatever ranges overlap.

* **Histories** (`LastRequestServed`, `FramesStayOnStack`, `StackIsAStack`). For the
  first the invariant is that `wanted` is the vector the CPU keeps while it keeps one
  (`WantedIsPending`); an OUT that rings is the step where the two could part.
  For the stack, `FramesOnStack` alone is not inductive: that the words are in
  memory today does not say that the next push leaves them there. `StackInv` adds
  that the bytes of the list lie in RAM, and in cells all distinct: two addresses may
  be one byte of one region (a mirror), the list may reach around the address space
  to its own end, and a push onto ROM is lost. Given that, a push writes two new
  cells and a handler that stores writes only where its opcode says
  (`StepsChangeNamedCells`), so nothing listed changes; a pop reads the two bytes
  the list says. One lemma about lists in memory per operation (push, pop, exchange,
  a store elsewhere) is used by one lemma per kind of handler. POP PSW is where the
  register file matters: a PSW that was pushed has bit 1 of F set, so setting it on
  the way back changes nothing.

* **A program among interrupts** (`ProgramUndisturbed`, `NoCountLost`,
  `StackStaysBounded`, `NoByteLeftBehind`): the program of `MCInterrupts`, for any
  number of requests, where TLC checks three. None of the four is inductive, nor are
  they together: they speak of the moment the program halts, or of the length of the
  stack alone. `ProgramInv` is the annotation of the program in the manner of Floyd,
  one assertion per instruction. Where the main program is (`InMain`), `Computed` says
  what it goes on to use of A and the flags, HL and the result cell, which words it
  has on the stack, and whether it has counted; the count in memory is then that of
  the interrupts so far plus its own. Where a routine runs (`InRoutine`), its
  registers, or the words it saved them in, and the return addresses below are those
  of a program interrupted at an open point (`Suspended`), so that popping and
  returning lead back to `Computed` there; routines interrupted between EI and RET
  lie in between, each one return address (`Nested`). A routine that has still to
  count is one ahead (`Due`). That interrupts are enabled exactly at the open points
  is part of the invariant, and it is what closes the critical section of the
  subroutine and keeps the registers of two routines from the stack. The number of
  nested routines is bounded by the requests made, one less while a request is
  pending; hence the bound, and hence room in the RAM, so that no push reaches the
  data. One lemma per group of instructions executes it on what it finds: the
  arithmetic of ADI, DAA, ACI and RAL is computed, flags included. Pushes, pops and
  returns come from `StackInv`, registers left alone from the table's destinations.
  TLC checked `ProgramInv` on the instance of `interrupts` before it was proved.

The assumptions are the named ones of the modules: `MemoryAssumption`,
`IOAssumption`, `BoardAssumption`, `OperandsAssumption`, and for the last group
`ProgramAssumption`: the board is that of the instance, the host asks for vectors 1
and 2, and the RAM, of any size up to the end of the address space, has room for the
data and the deepest stack. TLC evaluates each on the instances. The four theorems
of the last group also suppose that the host does not call `reset`
(`MaxResets = 0`), as the run they generalise does: after a reset the program starts
again and counts once more, so `CountExact` as it is stated is not to be expected.

## 6. What is only model-checked

* Liveness (`RequestServed`, `KeyIsServed`, the liveness part of
  `InterruptControl`): out of the prover's reach.
* Properties of the program of `MCDevices` (`ShownWasTyped`, `LabelsAreWhole`): the
  run goes through every interleaving of its devices. What they rest on is proved for
  every program (`InterruptControlImplemented`, `LastRequestServed`, `StackIsAStack`,
  `OneDeviceAnswers`, and what one instruction may do).

## 7. What is not modelled

* Regions a host derives from `IMemRegion`; the library's three never throw, a
  derived one could do so in the middle of an instruction, with the program counter
  or the stack pointer already moved. Devices that throw: `IOBus::out` is
  `noexcept`, so the program ends there.
* A board that changes while the CPU runs. `MemoryBus.hpp:98` says the bus is
  assembled before it is given to the CPU, so `Mapping` is fixed in `Fake8080`;
  `map` in any order is the subject of `MemoryBus`. Devices, which no comment fixes,
  may be attached at any time (`Plug`).
* A device that calls `requestInterrupt` from `in`, or `cycle` or `reset` from
  either: the repository has no device that does.
* Reads outside a span (undefined behaviour in the code): shown unreachable on
  boards without empty spans, so no outcome is chosen for them.
* The build and the tests. The tests were read for what they say of the program.

## 8. Plan

Done: the buses, register file, arithmetic, table, CPU, interrupts and devices,
each with its runs; the cycle counts; devices that request interrupts and that are
attached while the CPU runs; then the proofs from the bottom up: single
instructions, all the laws of the arithmetic, the counts, and over whole runs the
request served and the stack, and a program with its interrupt routines for any
number of requests.

Left, in this order:

1. Proofs: the same annotation for the program of `MCDevices` (`LabelsAreWhole`,
   then `ShownWasTyped`), for any keys and any plugging.
2. Modelling: a device that requests an interrupt from `in`, should the library
   gain one; the counts as state, should `cycle` come to return them.
