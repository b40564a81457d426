----------------------------- MODULE MCOpcodes -----------------------------
(***************************************************************************)
(* Every opcode on a board of 64 bytes of ROM at address 0 and 16 bytes of *)
(* RAM at the top of the address space.  The ROM loads the registers as a  *)
(* scene says, then holds the opcode and its operand, then HLT.  Reads     *)
(* elsewhere find an open bus, which executes as RST 7.                    *)
(***************************************************************************)
EXTENDS Fake8080Properties

CONSTANTS
  rom, ram, device,
  MaxCycles       \* bound: calls of cycle, five of them before the opcode

VARIABLE cycles   \* calls of cycle so far

\* The stack pointer: wrapping below 0, half in ROM, half below the RAM, and
\* popping past 0xFFFF.  HL and the operand: RAM, ROM, open bus, the last
\* address.  The sum a + b sets each flag both ways.
Scenes ==
  {[sp |-> 0, hl |-> 65524, operand |-> 65522, a |-> 88, b |-> 103],
   [sp |-> 1, hl |-> 5, operand |-> 48, a |-> 128, b |-> 128],
   [sp |-> 65521, hl |-> 36864, operand |-> 36865, a |-> 255, b |-> 2],
   [sp |-> 65534, hl |-> 65535, operand |-> 65535, a |-> 0, b |-> 144]}

Lo(word) == getLowByte(word)
Hi(word) == getHighByte(word)

\* LXI SP; LXI H; LXI D; MVI A; ADI; the opcode and its operand.
Code(scene, opcode) ==
  <<49, Lo(scene.sp), Hi(scene.sp), 33, Lo(scene.hl), Hi(scene.hl),
    17, 248, 255, 62, scene.a, 198, scene.b,
    opcode, Lo(scene.operand), Hi(scene.operand)>>

HaltOpcode == 118

Image(code) ==
  [region \in {rom, ram, OpenBus} |->
     CASE region = rom -> [offset \in 0 .. 63 |->
                             IF offset < Len(code) THEN code[offset + 1] ELSE HaltOpcode]
       [] region = ram -> [offset \in 0 .. 15 |-> (37 * offset + 11) % 256]
       [] OTHER -> <<>>]

MCImages == {Image(Code(scene, opcode)) : scene \in Scenes, opcode \in Byte}

MCMapping ==
  <<[start |-> 0, end |-> 63, region |-> rom],
    [start |-> 65520, end |-> 65535, region |-> ram]>>

MCKind == [region \in {rom, ram, OpenBus} |->
             CASE region = rom -> "rom" [] region = ram -> "ram" [] OTHER -> "open"]

MCSpanSize == [region \in {rom, ram, OpenBus} |->
                 CASE region = rom -> 64 [] region = ram -> 16 [] OTHER -> 0]

\* The device answers on the port two of the scenes address.
MCWiring == [port \in Byte |-> IF port \in {48, 242} THEN device ELSE NoDevice]

MCAlarm == <<>>

MCInit == Init /\ cycles = 0

MCNext == cycle /\ cycles < MaxCycles /\ cycles' = cycles + 1

MCSpec == MCInit /\ [][MCNext]_<<vars, cycles>>
=============================================================================
