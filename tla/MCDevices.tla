----------------------------- MODULE MCDevices -----------------------------
(***************************************************************************)
(* A program between four devices, while the outside world types and the   *)
(* host plugs devices at any moment.                                       *)
(*                                                                         *)
(* The main loop polls a keyboard, shows each byte it finds on the screen  *)
(* that is plugged into port 2, clears the keyboard, and prints a label of *)
(* three lines for it.  It prints the first line; the printer asks for an  *)
(* interrupt from inside OUT whenever it has printed one, and the routine  *)
(* prints the next, itself with interrupts off.                            *)
(***************************************************************************)
EXTENDS Fake8080Properties

CONSTANTS rom, ram, keyboard, screen, spare, printer

\* The keyboard answers on two ports.
MCWiring == [port \in Byte |-> CASE port \in {1, 129} -> keyboard
                                 [] port = 2 -> screen
                                 [] port = 3 -> printer
                                 [] OTHER -> NoDevice]

\* Either screen may be plugged into port 2.
MCSockets == {<<2, screen>>, <<2, spare>>}

\* The printer calls requestInterrupt(1).
MCAlarm == [device \in {printer} |-> 1]

\* At 0, routine 1 at 8, the main loop at 32.
ResetCode == <<49, 0, 0,     \* LXI SP,0
               251,          \* EI
               195, 32, 0,   \* JMP 32
               0>>

PrintCode ==
  <<245,               \* PUSH PSW
    58, 240, 255,      \* LDA line
    61,                \* DCR A
    50, 240, 255,      \* STA line
    202, 21, 0,        \* JZ 21
    211, 3,            \* OUT 3
    241, 251, 201>>    \* POP PSW; EI; RET

MainCode ==
  <<219, 1,            \* IN 1
    183,               \* ORA A
    202, 32, 0,        \* JZ 32
    211, 2,            \* OUT 2
    175,               \* XRA A
    211, 129,          \* OUT 129
    62, 3,             \* MVI A,3
    50, 240, 255,      \* STA line
    211, 3,            \* OUT 3
    211, 4,            \* OUT 4       nobody there
    195, 32, 0>>       \* JMP 32

Loop == 32

ROM ==
  LET code == ResetCode \o PrintCode
  IN  [i \in 0 .. 63 |->
         IF i < Len(code) THEN code[i + 1]
         ELSE IF i - Loop \in 0 .. Len(MainCode) - 1 THEN MainCode[i - Loop + 1] ELSE 0]

MCImages ==
  {[region \in {rom, ram, OpenBus} |->
      CASE region = rom -> ROM
        [] region = ram -> [offset \in 0 .. 15 |-> 0]
        [] OTHER -> <<>>]}

MCMapping ==
  <<[start |-> 0, end |-> 63, region |-> rom],
    [start |-> 65520, end |-> 65535, region |-> ram]>>

MCKind == [region \in {rom, ram, OpenBus} |->
             CASE region = rom -> "rom" [] region = ram -> "ram" [] OTHER -> "open"]

MCSpanSize == [region \in {rom, ram, OpenBus} |->
                 CASE region = rom -> 64 [] region = ram -> 16 [] OTHER -> 0]

VARIABLES
  typed,     \* bytes other than 0 that the keyboard has held
  printed    \* the lines printed since the last byte was shown

history == <<typed, printed>>

MCInit == Init /\ typed = {} /\ printed = <<>>

\* The port a cycle writes to, or 256.
PortWritten ==
  IF ~Accepts /\ ~halted_m /\ instruction.op = "OUT_d8" THEN readNextByte ELSE 256

Cycle ==
  /\ cycle
  /\ printed' = CASE PortWritten = 2 -> <<>>
                  [] PortWritten = 3 -> Append(printed, A)
                  [] OTHER -> printed
  /\ UNCHANGED typed

Type ==
  /\ OutsideInput
  /\ \A device \in Device \ {keyboard} : latch'[device] = latch[device]
  /\ typed' = (typed \cup {latch'[keyboard]}) \ {0}
  /\ UNCHANGED printed

PlugScreen == Plug /\ UNCHANGED history

\* The host neither interrupts nor resets.
MCNext == Cycle \/ Type \/ PlugScreen

MCSpec == MCInit /\ [][MCNext]_<<vars, history>> /\ WF_<<vars, history>>(Cycle)
-----------------------------------------------------------------------------
\* What the program shows was typed: a byte goes to a screen only if the
\* keyboard held it at some time, never the empty byte although the keyboard
\* and the plug may change between the test and OUT, and neither clearing the
\* keyboard nor printing reaches a screen (IOBus.cpp:7-23,
\* Fake8080.cpp:484-498).
ShownWasTyped ==
  [][Cycle => \A device \in {screen, spare} :
                latch'[device] \in {latch[device]} \cup typed]_<<vars, history>>

\* Whatever is typed is noticed and cleared, at whatever point of the loop it
\* comes (Fake8080.cpp:9-31, 484-498, Fake8080.hpp:703-713).
KeyIsServed == latch[keyboard] # 0 ~> latch[keyboard] = 0

\* Every label comes out whole: a request that the printer makes from inside
\* OUT, with interrupts on or off, is neither lost nor served twice, so that
\* the lines come in order and the main loop starts again only after the last
\* (Fake8080.cpp:15-36, 492-498).
LabelsAreWhole ==
  LET label == <<3, 2, 1>>
  IN  /\ printed \in {SubSeq(label, 1, n) : n \in 0 .. 3}
      /\ pc_m = Loop => printed \in {<<>>, label}
=============================================================================
