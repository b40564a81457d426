--------------------------- MODULE OpcodeEncoding ---------------------------
(***************************************************************************)
(* The table opcodes_m compared with the instruction encoding, entry by    *)
(* entry.  The state is the opcode being looked at.                        *)
(***************************************************************************)
EXTENDS Encoding, OpcodesCycles

VARIABLE opcode

EncodingInit == opcode = 0

EncodingNext == opcode < 255 /\ opcode' = opcode + 1

EncodingSpec == EncodingInit /\ [][EncodingNext]_opcode
-----------------------------------------------------------------------------
\* Every entry of the hand-written table is the instruction its opcode's bit
\* fields encode, undocumented opcodes included (Fake8080.hpp:790-1078).
TableFollowsEncoding == opcodes_m[opcode] = Decode(opcode)

\* No entry was copied and left unedited: an opcode shares its handler and
\* arguments with an earlier one only if the table marks it "(alternativo)"
\* (Fake8080.hpp:800-858, 1019, 1035, 1039, 1057, 1075).
OnlyAlternativesRepeat ==
  \A earlier \in 0 .. opcode - 1 :
    opcodes_m[earlier] = opcodes_m[opcode] =>
      LET op == opcodes_m[opcode].op
      IN  op \in DOMAIN Alternative /\ opcode \in Alternative[op]

\* The count a handler returns is the time its opcode needs on the bus: the
\* fetch, its operand, every byte it moves, on both branches of a conditional
\* instruction.  The counts are written one by one, away from the handlers that
\* return them (OpcodesCycles.hpp:6-88, Fake8080.hpp:703-735).
CountsFollowAccesses ==
  \A taken \in BOOLEAN : Cycles(opcodes_m[opcode], taken) = States(opcode, taken)
=============================================================================
