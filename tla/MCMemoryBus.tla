---------------------------- MODULE MCMemoryBus ----------------------------
(***************************************************************************)
(* The memory bus with a 2-bit address type.  The regions are two of RAM,  *)
(* one of ROM and two open ones: enough for ranges that overlap, nest,     *)
(* repeat a region (a mirror), leave holes and touch the last address.     *)
(***************************************************************************)
EXTENDS MemoryBus

CONSTANTS
  ram, mirror, rom, gap,
  MaxMappings     \* bound: mappings the host makes

MCRegion == {ram, mirror, rom, gap, OpenBus}

MCKind == [region \in MCRegion |->
             CASE region \in {ram, mirror} -> "ram"
               [] region = rom -> "rom"
               [] OTHER -> "open"]

\* One region spans the whole address space.
MCSpanSize == [region \in MCRegion |->
                 CASE region = ram -> 2
                   [] region = mirror -> 1
                   [] region = rom -> AddressSpace
                   [] region = gap -> 2
                   [] OTHER -> DefaultOpenBusSize]

\* The same board with an array of no elements given to a RamRegion.
EmptySpanSize == [MCSpanSize EXCEPT ![mirror] = 0]

\* The host maps the regions it builds; the bus's own Open_Bus is private.
MCNext ==
  \/ /\ Len(regions_m) < MaxMappings
     /\ \E start, end \in Address, region \in Region \ {OpenBus} :
          map(start, end, region)
  \/ \E address \in Address, value \in Value : write(address, value)

MCSpec == BusInit /\ [][MCNext]_busVars
=============================================================================
