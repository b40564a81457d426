---------------------------- MODULE MCInterrupts ----------------------------
(***************************************************************************)
(* A program and its interrupt routines, with requests (and resets) of the *)
(* host between any two instructions.                                      *)
(*                                                                         *)
(* The main program computes a result through the flags, the stack and a   *)
(* subroutine, counts one in a cell it shares with a routine, and halts.   *)
(* Routine 1 counts one in the shared cell and saves what it uses; routine *)
(* 2 does nothing.  Both end with EI and RET.  The subroutine counts with  *)
(* LDA, INR and STA, between DI and EI.                                    *)
(***************************************************************************)
EXTENDS Fake8080History

CONSTANTS
  rom, ram,
  RamSize,        \* cells of the RAM, which ends where the addresses end
  MaxRequests,    \* bound: calls of requestInterrupt
  MaxResets       \* bound: calls of reset

VARIABLES
  asked,          \* calls of requestInterrupt so far
  counted,        \* interrupts that went to routine 1
  resets          \* calls of reset so far

history == <<histories, asked, counted, resets>>

\* Data, at the bottom of the RAM; the stack comes down from 0.
RamStart   == 65536 - RamSize
CountCell  == RamStart
ResultCell == RamStart + 2

MainCode ==
  <<49, 0, 0,          \* LXI SP,0
    251,               \* EI
    62, 88,            \* MVI A,58h
    198, 103,          \* ADI 67h
    39,                \* DAA         A = 25h, CY
    245,               \* PUSH PSW
    227, 227,          \* XTHL; XTHL
    220, 96, 0,        \* CC 60h      taken
    241,               \* POP PSW
    206, 0,            \* ACI 0       A = 26h
    23,                \* RAL         A = 4Ch
    50, getLowByte(ResultCell), getHighByte(ResultCell),   \* STA result
    33, getLowByte(ResultCell), getHighByte(ResultCell),   \* LXI H,result
    52,                \* INR M       4Dh
    251, 118,          \* EI; HLT
    195, 90, 0>>       \* JMP to EI

Expected == 77

SubroutineCode ==
  <<208,               \* RNC         not taken
    243,               \* DI
    58, getLowByte(CountCell), getHighByte(CountCell),     \* LDA count
    60,                \* INR A
    50, getLowByte(CountCell), getHighByte(CountCell),     \* STA count
    251, 201>>         \* EI; RET

Routine1Code ==
  <<245, 229,          \* PUSH PSW; PUSH H
    33, getLowByte(CountCell), getHighByte(CountCell),     \* LXI H,count
    52,                \* INR M
    175,               \* XRA A
    225, 241,          \* POP H; POP PSW
    251, 201>>         \* EI; RET

\* The code by address: the reset and interrupt vectors, then the routines.
ROM ==
  LET In(address, start, code) == address \in start .. start + Len(code) - 1
      toMain     == <<195, 64, 0>>
      toRoutine1 == <<195, 32, 0>>
      routine2   == <<251, 201>>
  IN  [address \in 0 .. 127 |->
         CASE In(address, 0, toMain)          -> toMain[address + 1]
           [] In(address, 8, toRoutine1)      -> toRoutine1[address - 7]
           [] In(address, 16, routine2)       -> routine2[address - 15]
           [] In(address, 32, Routine1Code)   -> Routine1Code[address - 31]
           [] In(address, 64, MainCode)       -> MainCode[address - 63]
           [] In(address, 96, SubroutineCode) -> SubroutineCode[address - 95]
           [] OTHER                           -> 0]

MCImages ==
  {[region \in {rom, ram, OpenBus} |->
      CASE region = rom -> ROM
        [] region = ram -> [offset \in 0 .. RamSize - 1 |-> 0]
        [] OTHER -> <<>>]}

MCMapping ==
  <<[start |-> 0, end |-> 127, region |-> rom],
    [start |-> RamStart, end |-> 65535, region |-> ram]>>

MCKind == [region \in {rom, ram, OpenBus} |->
             CASE region = rom -> "rom" [] region = ram -> "ram" [] OTHER -> "open"]

MCSpanSize == [region \in {rom, ram, OpenBus} |->
                 CASE region = rom -> 128 [] region = ram -> RamSize [] OTHER -> 0]

MCWiring == [port \in Byte |-> NoDevice]

MCAlarm == <<>>

\* The board the program runs on: the RAM has room for the data and for the
\* deepest stack.
ASSUME ProgramAssumption ==
  /\ rom # ram /\ OpenBus \notin {rom, ram}
  /\ Region = {rom, ram, OpenBus} /\ Kind = MCKind /\ SpanSize = MCSpanSize
  /\ Mapping = MCMapping /\ Images = MCImages
  /\ Vectors \subseteq {1, 2}
  /\ MaxRequests \in Nat /\ MaxResets \in Nat /\ RamSize \in Nat
  /\ 12 + 2 * MaxRequests <= RamSize /\ RamSize <= 65408

MCInit == HistoryInit /\ asked = 0 /\ counted = 0 /\ resets = 0

Cycle ==
  /\ CycleH
  /\ counted' = IF Accepts /\ interruptVectorRequested_m = 1 THEN counted + 1 ELSE counted
  /\ UNCHANGED <<asked, resets>>

Ask ==
  /\ asked < MaxRequests
  /\ AskH
  /\ asked' = asked + 1
  /\ UNCHANGED <<counted, resets>>

Restart0 ==
  /\ resets < MaxResets
  /\ ResetH
  /\ resets' = resets + 1
  /\ UNCHANGED <<asked, counted>>

MCNext == Cycle \/ Ask \/ Restart0

MCSpec == MCInit /\ [][MCNext]_<<vars, history>> /\ WF_<<vars, history>>(Cycle)
-----------------------------------------------------------------------------
\* Interrupts do not disturb the program they interrupt: wherever they fall,
\* when the program halts its result is the one it computes alone and the
\* stack is empty (Fake8080.cpp:15-21, 157-165, 388-394,
\* Fake8080.hpp:751-779).
ResultUndisturbed ==
  halted_m => memoryRead(ResultCell) = Expected /\ SP = 0

\* DI and EI make a critical section: no count of the main program or of a
\* routine is lost although both read, change and write the same cell
\* (Fake8080.cpp:9-21, 472-482).
CountExact ==
  halted_m => memoryRead(CountCell) = ToByte(counted + 1)

\* Bytes on the stack, which comes down from 0.
Depth == ToWord(0 - SP)

\* Nested interrupts do not eat the stack: EI lets the next request in before
\* the routine's RET, so return addresses pile up, but the registers of one
\* routine only are on the stack at any time, over the four bytes the program
\* and its subroutine may have pushed (Fake8080.cpp:10-21, 472-476).
StackBounded == Depth <= 4 + 4 + 2 * asked

\* The stack is accounted for: at any moment it holds the words that were
\* pushed and not popped since it was set up, and nothing else, so that no
\* path through the routines leaves a byte behind (Fake8080.cpp:157-165,
\* Fake8080.hpp:737-764).
StackAccountedFor == Depth = 2 * Len(frames)

\* A request is not forgotten: the program enables interrupts again and
\* again, if only between EI and the next instruction, and a request that is
\* pending is then taken (or a reset drops it) (Fake8080.cpp:9-21, 33-43).
RequestServed == interruptRequested_m ~> ~interruptRequested_m

\* A reset "Reinicia la CPU al estado inicial" (README.md:41): the CPU is as
\* it was built.
ResetRestoresInitialState ==
  [][reset =>
       /\ pc_m' = 0
       /\ registers_m' = RegistersInit
       /\ ~interruptsEnableRequested_m'
       /\ ~interruptsEnabled_m'
       /\ ~interruptRequested_m'
       /\ ~halted_m']_vars
=============================================================================
