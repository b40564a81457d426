----------------------------- MODULE FlatMemory -----------------------------
(***************************************************************************)
(* What the memory bus promises to a program: every address is wired to    *)
(* one cell of one region, or to nothing.  Wires are laid once and never   *)
(* moved; a later region gets the addresses that are still free.           *)
(***************************************************************************)
EXTENDS Integers

CONSTANTS AddressSpace, Value, Region, Kind

VARIABLES
  wiring,         \* [0 .. AddressSpace - 1 -> <<region, offset>> or <<>>]
  cells           \* [Region -> [offsets -> Value]]

Unwired == <<>>

FlatInit == \A address \in 0 .. AddressSpace - 1 : wiring[address] = Unwired

\* A region takes the free addresses of a range.
Attach(start, end, region) ==
  /\ UNCHANGED cells
  /\ LET old == wiring
     IN  wiring' = [address \in 0 .. AddressSpace - 1 |->
                      IF old[address] = Unwired /\ address \in start .. end
                        THEN <<region, address - start>>
                        ELSE old[address]]

\* Only RAM remembers a byte.
Store(address, value) ==
  /\ wiring[address] # Unwired
  /\ LET region == wiring[address][1]
         offset == wiring[address][2]
     IN  /\ Kind[region] = "ram"
         /\ cells' = [cells EXCEPT ![region][offset] = value]
  /\ UNCHANGED wiring

FlatNext ==
  \/ \E address \in 0 .. AddressSpace - 1, value \in Value : Store(address, value)
  \/ \E start, end \in 0 .. AddressSpace - 1, region \in Region :
       Attach(start, end, region)

FlatSpec == FlatInit /\ [][FlatNext]_<<wiring, cells>>
=============================================================================
