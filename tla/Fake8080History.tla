-------------------------- MODULE Fake8080History --------------------------
(***************************************************************************)
(* The CPU with two histories beside it, kept from what an onlooker sees:  *)
(* the calls of the host, the opcodes fetched, and the flags a conditional *)
(* instruction looks at.                                                   *)
(*                                                                         *)
(*  - wanted: the vector asked for last, while nobody has served it;       *)
(*  - frames: the words on the stack, the top first, as a list of words.   *)
(*    PUSH, calls, RST and interrupts put a word on it, POP and returns    *)
(*    take one off.  The list is given up when the program moves the stack *)
(*    pointer by other means, stores into the bytes of the list, or pushes *)
(*    where no two free bytes of RAM are.                                  *)
(***************************************************************************)
EXTENDS Fake8080Properties, Sequences

VARIABLES wanted, frames

histories == <<wanted, frames>>

HistoryInit == Init /\ wanted = <<>> /\ frames = <<>>
-----------------------------------------------------------------------------
IsPush(opcode) == Group(opcode) = 3 /\ Z(opcode) = 5 /\ ~Selected(opcode)

IsPop(opcode) == Group(opcode) = 3 /\ Z(opcode) = 1 /\ ~Selected(opcode)

IsExchange(opcode) == opcode = 227

\* The call or return at pc_m goes ahead: it has no condition, or its flag is
\* as its opcode asks.
Goes ==
  Z(Fetched) \in {0, 4} =>
    (getFlag(registers_m, Condition(Fetched)) <=> Selected(Fetched))

\* The cells that hold the words of the list.
Held == {WiredTo(ToWord(SP + k)) : k \in 0 .. 2 * Len(frames) - 1}

\* The list once a word is pushed.
Grown(word) ==
  LET high == ToWord(SP - 1)
      low  == ToWord(SP - 2)
  IN  IF StackCells(high, low) /\ WiredTo(high) \notin Held /\ WiredTo(low) \notin Held
        THEN <<word>> \o frames
        ELSE <<>>

Shrunk == IF frames = <<>> THEN <<>> ELSE Tail(frames)

\* The list once the word at its top is replaced.
Topped(word) == IF frames = <<>> THEN <<>> ELSE <<word>> \o Tail(frames)

MovesStack == "SP_low" \in Destinations(Fetched)

StoresIntoStack == \E address \in StoredAt : WiredTo(address) \in Held

FramesAfterInstruction ==
  CASE IsCall(Fetched)     -> IF Goes THEN Grown(Sequel) ELSE frames
    [] IsReturn(Fetched)   -> IF Goes THEN Shrunk ELSE frames
    [] IsPush(Fetched)     -> Grown(getCombinedRegister(registers_m, StackPair(Fetched)))
    [] IsPop(Fetched)      -> Shrunk
    [] IsExchange(Fetched) -> Topped(HL)
    [] OTHER               -> IF MovesStack \/ StoresIntoStack THEN <<>> ELSE frames

FramesAfterCycle ==
  CASE Accepts              -> Grown(pc_m)
    [] ~Accepts /\ halted_m -> frames
    [] OTHER                -> FramesAfterInstruction

\* The device that the OUT at pc_m reaches, if it requests an interrupt.
Ringing ==
  IF ~halted_m /\ Fetched = 211 THEN {ports_m[readNextByte]} \cap DOMAIN Alarm ELSE {}

WantedAfterCycle ==
  IF Accepts THEN <<>>
  ELSE IF Ringing # {} THEN <<Alarm[ports_m[readNextByte]]>> ELSE wanted

CycleH == cycle /\ wanted' = WantedAfterCycle /\ frames' = FramesAfterCycle

AskH ==
  \E interruptNum \in Vectors :
    requestInterrupt(interruptNum) /\ wanted' = <<interruptNum>> /\ UNCHANGED frames

\* The stack pointer and the memory survive a reset.
ResetH == reset /\ wanted' = <<>> /\ UNCHANGED frames

WorldH == (OutsideInput \/ Plug) /\ UNCHANGED histories

HistoryNext == CycleH \/ AskH \/ ResetH \/ WorldH

HistorySpec == HistoryInit /\ [][HistoryNext]_<<vars, histories>>
-----------------------------------------------------------------------------
\* An interrupt is never taken twice or out of nothing, and goes where the
\* last of the requests since the previous one asked: a request that is not
\* served yet is replaced, not mixed with the new one (Fake8080.cpp:15-21,
\* 33-43).
ServesLastRequest ==
  [][AcceptInterrupt =>
       wanted # <<>> /\ pc_m' = 8 * Head(wanted)]_<<vars, histories>>

\* Every word pushed is where the stack pointer says, whatever came in between:
\* interrupts with their routines, calls not taken, stores elsewhere, a reset
\* (Fake8080.cpp:57-84, 157-165, Fake8080.hpp:737-764).
FramesOnStack ==
  \A i \in DOMAIN frames : readTwoBytes(ToWord(SP + 2 * (i - 1))) = frames[i]

\* What a pair holds once a word is popped into it: bit 1 of F reads 1, so a
\* word that PUSH PSW saved comes back as it was.
Filled(rr, word) == IF rr = "PSW" THEN setBit(word, 1, TRUE) ELSE word

\* The stack is a stack: a return goes to the address its call or interrupt
\* left, POP gives the register pair the word the matching PUSH saved, flags
\* included, and XTHL swaps HL with it, for any nesting of calls, interrupts
\* and saved registers and any wrap of the stack pointer
\* (Fake8080.cpp:15-21, 157-165, 310-333, 382-394, 440-470,
\* Fake8080.hpp:715-787).
PopsWhatWasPushed ==
  [][Execute /\ frames # <<>> =>
       /\ IsReturn(Fetched) /\ Goes => pc_m' = Head(frames)
       /\ IsPop(Fetched) =>
            getCombinedRegister(registers_m', StackPair(Fetched))
              = Filled(StackPair(Fetched), Head(frames))
       /\ IsExchange(Fetched) => HL' = Head(frames)]_<<vars, histories>>
=============================================================================
