----------------------------- MODULE MemoryBus -----------------------------
(***************************************************************************)
(* The memory bus (include/MemoryBus.hpp, src/MemoryBus.cpp): a list of    *)
(* address ranges, each served by a region object, searched in the order   *)
(* they were mapped.                                                       *)
(*                                                                         *)
(* Addresses and sizes are uint16_t in the code: AddressSpace is the       *)
(* number of values of that type, so that the model keeps its wrap-around  *)
(* when it is checked with a narrow type.                                  *)
(***************************************************************************)
EXTENDS Integers, Sequences

CONSTANTS
  AddressSpace,   \* number of values of uint16_t
  Value,          \* values of uint8_t
  OpenValue,      \* what a disconnected address reads (0xFF)
  Region,         \* the region objects
  OpenBus,        \* the static Open_Bus region, served when nothing matches
  Kind,           \* [Region -> {"ram", "rom", "open"}]: the object's class
  SpanSize        \* [Region -> Nat]: elements of its span (or its size_m)

\* The default argument of OpenBusRegion's constructor; Open_Bus is built
\* with it.
DefaultOpenBusSize == 0

ASSUME MemoryAssumption ==
  /\ AddressSpace \in Nat \ {0, 1}
  /\ OpenValue \in Value
  /\ OpenBus \in Region
  /\ Kind \in [Region -> {"ram", "rom", "open"}]
  /\ SpanSize \in [Region -> Nat]
  /\ Kind[OpenBus] = "open"
  /\ SpanSize[OpenBus] = DefaultOpenBusSize

VARIABLES
  regions_m,      \* sequence of [start, end, region], oldest mapping first
  contents        \* [Region -> bytes of its span, by offset]

Address == 0 .. AddressSpace - 1

\* The elements of the span behind a region; an open region has no span.
Offset(region) ==
  IF Kind[region] = "open" THEN {} ELSE 0 .. SpanSize[region] - 1

RegionEntry == [start : Address, end : Address, region : Region]

\* What the memory behind the spans can hold.
IsContents(c) ==
  /\ c = [region \in Region |-> c[region]]
  /\ \A region \in Region : c[region] \in [Offset(region) -> Value]

\* region.size(): the span's size converted to uint16_t.
size(region) == SpanSize[region] % AddressSpace

\* The range size that map compares it with, stored in a uint16_t: 0 for
\* the whole address space.
rangeSize(start, end) == (end - start + 1) % AddressSpace

Open_Memory == [start |-> 0, end |-> 0, region |-> OpenBus]

Covers(entry, address) == entry.start <= address /\ address <= entry.end

Matches(regions, address) == {i \in DOMAIN regions : Covers(regions[i], address)}

\* Seeded fault: the latest mapping wins.
findRegion_LastWins(regions, address) ==
  IF Matches(regions, address) = {}
    THEN Open_Memory
    ELSE regions[CHOOSE i \in Matches(regions, address) :
                   \A j \in Matches(regions, address) : j <= i]

\* The first entry whose range holds the address, or open memory.
findRegion(regions, address) ==
  IF Matches(regions, address) = {}
    THEN Open_Memory
    ELSE regions[CHOOSE i \in Matches(regions, address) :
                   \A j \in Matches(regions, address) : i <= j]

\* Seeded fault: regions are addressed from the start of the bus.
offsetOf_Absolute(entry, address) == address

offsetOf(entry, address) == (address - entry.start) % AddressSpace

regionRead(c, region, offset) ==
  IF Kind[region] = "open" THEN OpenValue ELSE c[region][offset]

\* Seeded fault: a ROM region takes writes.
regionWrite_AnyKind(c, region, offset, value) ==
  IF Kind[region] = "open" THEN c ELSE [c EXCEPT ![region][offset] = value]

\* Only RAM stores; ROM and open regions drop the byte.
regionWrite(c, region, offset, value) ==
  IF Kind[region] = "ram" THEN [c EXCEPT ![region][offset] = value] ELSE c

busRead(regions, c, address) ==
  LET entry == findRegion(regions, address)
  IN  regionRead(c, entry.region, offsetOf(entry, address))

busWrite(regions, c, address, value) ==
  LET entry == findRegion(regions, address)
  IN  regionWrite(c, entry.region, offsetOf(entry, address), value)
-----------------------------------------------------------------------------
\* The bus on its own: the host maps regions and the CPU writes, in any order.

busVars == <<regions_m, contents>>

\* The memory behind a region holds whatever the host put there.
BusInit ==
  /\ regions_m = <<>>
  /\ \E fill \in [Region -> Value] :
       contents = [region \in Region |-> [offset \in Offset(region) |-> fill[region]]]

\* Seeded fault: the end of the range is stored exclusive.
map_ExclusiveEnd(start, end, region) ==
  /\ start <= end
  /\ size(region) = rangeSize(start, end)
  /\ regions_m' = Append(regions_m, [start |-> start, end |-> end + 1, region |-> region])
  /\ UNCHANGED contents

\* Seeded fault: the range is only checked to be ordered.
map_AnySize(start, end, region) ==
  /\ start <= end
  /\ regions_m' = Append(regions_m, [start |-> start, end |-> end, region |-> region])
  /\ UNCHANGED contents

\* map returns: the range is ordered and as wide as the region says it is.
\* Otherwise map throws and changes nothing.
map(start, end, region) ==
  /\ start <= end
  /\ size(region) = rangeSize(start, end)
  /\ regions_m' = Append(regions_m, [start |-> start, end |-> end, region |-> region])
  /\ UNCHANGED contents

write(address, value) ==
  /\ contents' = busWrite(regions_m, contents, address, value)
  /\ UNCHANGED regions_m

\* Open_Bus is private to the bus: the host maps other regions.
BusNext ==
  \/ \E start, end \in Address, region \in Region \ {OpenBus} : map(start, end, region)
  \/ \E address \in Address, value \in Value : write(address, value)

BusSpec == BusInit /\ [][BusNext]_busVars
-----------------------------------------------------------------------------
\* The list holds address ranges and regions, the regions hold bytes.
BusTypeOK ==
  /\ regions_m \in Seq(RegionEntry)
  /\ IsContents(contents)

\* Every mapped range is as wide as the memory behind it, in elements and not
\* modulo 2^16: what map means to check (MemoryBus.cpp:15-18).
MappedSizesMatch ==
  \A i \in DOMAIN regions_m :
    LET entry == regions_m[i]
    IN  /\ entry.start <= entry.end
        /\ SpanSize[entry.region] = entry.end - entry.start + 1

\* Whatever was mapped, in whatever order and however the ranges overlap, no
\* address reaches a span outside its bounds: read and write index memory_m
\* without a check (MemoryBus.cpp:33-45, 52-58, 69-71).
InBounds ==
  \A address \in Address :
    LET entry == findRegion(regions_m, address)
    IN  Kind[entry.region] # "open" =>
          offsetOf(entry, address) \in Offset(entry.region)

\* A default-constructed OpenBusRegion can be mapped over any one address: its
\* size is "Por defecto 1" (MemoryBus.hpp:23).
DefaultOpenBusFitsOneAddress ==
  \A address \in Address : ENABLED map(address, address, OpenBus)
-----------------------------------------------------------------------------
\* The cell an address is wired to: the first region mapped over it.
WiredTo(address) ==
  IF Matches(regions_m, address) = {}
    THEN <<>>
    ELSE LET entry == findRegion(regions_m, address)
         IN  <<entry.region, offsetOf(entry, address)>>

Flat == INSTANCE FlatMemory
          WITH wiring <- [address \in Address |-> WiredTo(address)],
               cells  <- contents

\* The list of ranges behaves as the flat memory a program sees: a mapping
\* takes only the addresses nobody has, a write changes one cell of RAM and
\* shows at every address wired to it.
ImplementsFlatMemory == Flat!FlatSpec
=============================================================================
