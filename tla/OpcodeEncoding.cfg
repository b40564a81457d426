SPECIFICATION EncodingSpec
\* The walk over the opcodes ends at 0xFF.
CHECK_DEADLOCK FALSE
INVARIANTS
  TableFollowsEncoding
  OnlyAlternativesRepeat
  CountsFollowAccesses
