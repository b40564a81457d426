----------------------------- MODULE BusProofs -----------------------------
(***************************************************************************)
(* The two buses, each on its own: the memory bus, for any width of        *)
(* addresses, any regions and any number of mappings; the I/O bus, for any *)
(* ports, devices and bytes.                                               *)
(***************************************************************************)
EXTENDS MemoryBus, IOBus, WellFoundedInduction, TLAPS

\* The least element of a set of naturals, as findRegion chooses it.
LEMMA LeastElement ==
  ASSUME NEW S \in SUBSET Nat, S # {}
  PROVE  LET least == CHOOSE i \in S : \A j \in S : i <= j
         IN  least \in S /\ \A j \in S : least <= j
<1>1. \E i \in S : \A j \in S : ~ (<<j, i>> \in OpToRel(<, Nat))
  BY NatLessThanWellFounded, WFMin
<1>2. PICK i \in S : \A j \in S : ~ (<<j, i>> \in OpToRel(<, Nat))
  BY <1>1
<1>3. \A j \in S : ~ (j < i)
  BY <1>2 DEF OpToRel
<1>4. \A j \in S : i <= j
  BY <1>3
<1>5. QED
  BY <1>4

-----------------------------------------------------------------------------
\* findRegion, when an entry matches: that entry is in the list, holds the
\* address, and no older entry does (MemoryBus.cpp:23-31).
LEMMA FindFirst ==
  ASSUME NEW regions \in Seq(RegionEntry), NEW address \in Address,
         Matches(regions, address) # {}
  PROVE  \E i \in Matches(regions, address) :
           /\ findRegion(regions, address) = regions[i]
           /\ \A j \in Matches(regions, address) : i <= j
<1> DEFINE S == Matches(regions, address)
           first == CHOOSE i \in S : \A j \in S : i <= j
<1>1. S \in SUBSET Nat
  BY DEF Matches
<1>2. first \in S /\ \A j \in S : first <= j
  BY <1>1, LeastElement
<1>3. findRegion(regions, address) = regions[first]
  BY DEF findRegion
<1> HIDE DEF first
<1>4. QED
  BY <1>2, <1>3

\* findRegion always gives an entry, open memory if none matches.
LEMMA FindType ==
  ASSUME NEW regions \in Seq(RegionEntry), NEW address \in Address
  PROVE  /\ findRegion(regions, address) \in RegionEntry
         /\ Matches(regions, address) = {} =>
              findRegion(regions, address) = Open_Memory
<1>1. Open_Memory \in RegionEntry
  BY MemoryAssumption DEF Open_Memory, RegionEntry, Address
<1>2. CASE Matches(regions, address) = {}
  BY <1>1, <1>2 DEF findRegion
<1>3. CASE Matches(regions, address) # {}
  <2>1. \A i \in DOMAIN regions : regions[i] \in RegionEntry
    OBVIOUS
  <2>2. Matches(regions, address) \subseteq DOMAIN regions
    BY DEF Matches
  <2>3. QED
    BY <1>3, <2>1, <2>2, FindFirst
<1>4. QED
  BY <1>2, <1>3

\* A region that is mapped later leaves the addresses that were served alone,
\* and takes those of its range that were not (MemoryBus.cpp:20-31).
LEMMA FindAfterAppend ==
  ASSUME NEW regions \in Seq(RegionEntry), NEW entry \in RegionEntry,
         NEW address \in Address
  PROVE  LET longer == Append(regions, entry)
         IN  /\ Matches(regions, address) # {} =>
                  /\ Matches(longer, address) # {}
                  /\ findRegion(longer, address) = findRegion(regions, address)
             /\ Matches(regions, address) = {} /\ Covers(entry, address) =>
                  /\ Matches(longer, address) # {}
                  /\ findRegion(longer, address) = entry
             /\ Matches(regions, address) = {} /\ ~Covers(entry, address) =>
                  Matches(longer, address) = {}
<1> DEFINE longer == Append(regions, entry)
           n == Len(regions)
<1>1. /\ longer \in Seq(RegionEntry)
      /\ n \in Nat
      /\ DOMAIN regions = 1 .. n
      /\ DOMAIN longer = 1 .. n + 1
      /\ \A i \in 1 .. n : longer[i] = regions[i]
      /\ longer[n + 1] = entry
  OBVIOUS
<1> HIDE DEF longer, n
<1>2. Matches(longer, address)
        = Matches(regions, address) \cup (IF Covers(entry, address) THEN {n + 1} ELSE {})
  BY <1>1 DEF Matches
<1>3. \A i \in Matches(regions, address) : i \in 1 .. n
  BY <1>1 DEF Matches
<1>4. CASE Matches(regions, address) # {}
  <2>1. PICK i \in Matches(regions, address) :
          /\ findRegion(regions, address) = regions[i]
          /\ \A j \in Matches(regions, address) : i <= j
    BY <1>4, FindFirst
  <2>2. PICK k \in Matches(longer, address) :
          /\ findRegion(longer, address) = longer[k]
          /\ \A j \in Matches(longer, address) : k <= j
    BY <1>1, <1>2, <1>4, FindFirst
  <2>3. k <= i
    BY <1>2, <2>1, <2>2
  <2>4. k # n + 1 /\ k \in Matches(regions, address)
    BY <1>1, <1>2, <1>3, <2>1, <2>2, <2>3
  <2>5. k = i
    BY <1>1, <1>3, <2>1, <2>3, <2>4
  <2>6. QED
    BY <1>1, <1>2, <1>3, <1>4, <2>1, <2>2, <2>5 DEF longer
<1>5. CASE Matches(regions, address) = {} /\ Covers(entry, address)
  <2>1. Matches(longer, address) = {n + 1}
    BY <1>2, <1>5
  <2>2. findRegion(longer, address) = longer[n + 1]
    BY <1>1, <2>1, FindFirst
  <2>3. QED
    BY <1>1, <1>5, <2>1, <2>2 DEF longer
<1>6. CASE Matches(regions, address) = {} /\ ~Covers(entry, address)
  BY <1>2, <1>6 DEF longer
<1>7. QED
  BY <1>4, <1>5, <1>6

\* A write leaves bytes behind the spans, and changes one of a RAM region
\* (MemoryBus.cpp:40-45, 56-58, 73-77).
LEMMA WriteType ==
  ASSUME NEW c, IsContents(c), NEW regions, NEW address, NEW value \in Value
  PROVE  /\ IsContents(busWrite(regions, c, address, value))
         /\ \A region \in Region :
              Kind[region] # "ram" =>
                busWrite(regions, c, address, value)[region] = c[region]
<1> DEFINE region == findRegion(regions, address).region
           offset == offsetOf(findRegion(regions, address), address)
           written == [c EXCEPT ![region][offset] = value]
<1>1. busWrite(regions, c, address, value)
        = IF Kind[region] = "ram" THEN written ELSE c
  BY DEF busWrite, regionWrite
<1> HIDE DEF region, offset
<1>2. IsContents(written)
  BY DEF IsContents
<1>3. \A other \in Region : other # region => written[other] = c[other]
  BY DEF IsContents
<1> HIDE DEF written
<1>4. QED
  BY <1>1, <1>2, <1>3

\* The bus keeps a list of ranges and regions of bytes (MemoryBus.hpp:121-130).
THEOREM BusTypeCorrect == BusSpec => []BusTypeOK
<1>1. BusInit => BusTypeOK
  BY DEF BusInit, BusTypeOK, IsContents
<1>2. BusTypeOK /\ [BusNext]_busVars => BusTypeOK'
  <2> SUFFICES ASSUME BusTypeOK, [BusNext]_busVars
               PROVE  BusTypeOK'
    OBVIOUS
  <2>1. ASSUME NEW start \in Address, NEW end \in Address, NEW region \in Region,
               map(start, end, region)
        PROVE  BusTypeOK'
    BY <2>1 DEF BusTypeOK, map, RegionEntry, IsContents
  <2>2. ASSUME NEW address \in Address, NEW value \in Value, write(address, value)
        PROVE  BusTypeOK'
    <3>1. IsContents(contents)'
      BY <2>2, WriteType DEF BusTypeOK, write, IsContents
    <3>2. QED
      BY <2>2, <3>1 DEF BusTypeOK, write
  <2>3. CASE UNCHANGED busVars
    BY <2>3 DEF busVars, BusTypeOK, IsContents
  <2>4. QED
    BY <2>1, <2>2, <2>3 DEF BusNext
<1>3. QED
  BY <1>1, <1>2, PTL DEF BusSpec

-----------------------------------------------------------------------------
\* Conversion to uint16_t of the numbers that map and findRegion handle.
LEMMA Truncation ==
  /\ \A x \in 0 .. AddressSpace - 1 : x % AddressSpace = x
  /\ AddressSpace % AddressSpace = 0
  /\ \A x \in Nat : x % AddressSpace <= x
BY MemoryAssumption

\* What map checks of an entry (MemoryBus.cpp:11-18), which the host made.
Accepted(entry) ==
  /\ entry.region # OpenBus
  /\ entry.start <= entry.end
  /\ size(entry.region) = rangeSize(entry.start, entry.end)

\* The check of map is exact for a span that fits the address space: such a
\* region is as wide as its range.  For a longer span it is not, but a span
\* that has any element has at least as many as the range has addresses.
LEMMA AcceptedWidth ==
  ASSUME NEW entry \in RegionEntry, Accepted(entry)
  PROVE  LET width == entry.end - entry.start + 1
         IN  /\ SpanSize[entry.region] \in 1 .. AddressSpace =>
                  SpanSize[entry.region] = width
             /\ SpanSize[entry.region] > 0 => SpanSize[entry.region] >= width
<1> DEFINE span  == SpanSize[entry.region]
           width == entry.end - entry.start + 1
<1>1. span \in Nat /\ AddressSpace \in Nat
  BY MemoryAssumption DEF RegionEntry
<1>2. width \in 1 .. AddressSpace
  BY MemoryAssumption DEF Accepted, RegionEntry, Address
<1>3. span % AddressSpace = width % AddressSpace
  BY DEF Accepted, size, rangeSize
<1> HIDE DEF span, width
<1>4. span \in 1 .. AddressSpace => span = width
  BY <1>1, <1>2, <1>3, Truncation
<1>5. span > 0 => span >= width
  BY <1>1, <1>2, <1>3, Truncation
<1>6. QED
  BY <1>4, <1>5 DEF span, width

\* Every entry of the list passed the check of map.
AllAccepted == \A i \in DOMAIN regions_m : Accepted(regions_m[i])

\* The list holds only entries that map accepts (MemoryBus.cpp:11-21).
THEOREM OnlyAcceptedEntries == BusSpec => []AllAccepted
<1>1. BusInit => AllAccepted
  BY DEF BusInit, AllAccepted
<1>2. BusTypeOK /\ AllAccepted /\ [BusNext]_busVars => AllAccepted'
  <2> SUFFICES ASSUME BusTypeOK, AllAccepted, [BusNext]_busVars
               PROVE  AllAccepted'
    OBVIOUS
  <2>1. ASSUME NEW start \in Address, NEW end \in Address,
               NEW region \in Region \ {OpenBus}, map(start, end, region)
        PROVE  AllAccepted'
    <3> DEFINE entry == [start |-> start, end |-> end, region |-> region]
    <3>1. Accepted(entry)
      BY <2>1 DEF map, Accepted
    <3>2. regions_m' = Append(regions_m, entry)
      BY <2>1 DEF map
    <3> HIDE DEF entry
    <3>3. \A i \in DOMAIN regions_m' :
            regions_m'[i] = entry \/ (i \in DOMAIN regions_m /\ regions_m'[i] = regions_m[i])
      BY <3>2 DEF BusTypeOK
    <3>4. QED
      BY <3>1, <3>3 DEF AllAccepted, Accepted
  <2>2. CASE UNCHANGED regions_m
    BY <2>2 DEF AllAccepted, Accepted
  <2>3. QED
    BY <2>1, <2>2 DEF BusNext, busVars, write
<1>3. QED
  BY <1>1, <1>2, BusTypeCorrect, PTL DEF BusSpec

\* If every region the host maps has a span of 1 to 2^16 elements, every
\* mapped range is exactly as wide as the memory behind it
\* (MemoryBus.cpp:15-18): the empty span is the only hole in the check.
THEOREM SizesMatch ==
  ASSUME \A region \in Region \ {OpenBus} : SpanSize[region] \in 1 .. AddressSpace
  PROVE  BusSpec => []MappedSizesMatch
<1>1. BusTypeOK /\ AllAccepted => MappedSizesMatch
  <2> SUFFICES ASSUME BusTypeOK, AllAccepted, NEW i \in DOMAIN regions_m
               PROVE  /\ regions_m[i].start <= regions_m[i].end
                      /\ SpanSize[regions_m[i].region]
                           = regions_m[i].end - regions_m[i].start + 1
    BY DEF MappedSizesMatch
  <2>1. regions_m[i] \in RegionEntry /\ Accepted(regions_m[i])
    BY DEF BusTypeOK, AllAccepted
  <2>2. regions_m[i].region \in Region \ {OpenBus}
    BY <2>1 DEF Accepted, RegionEntry
  <2>3. QED
    BY <2>1, <2>2, AcceptedWidth DEF Accepted
<1>2. QED
  BY <1>1, BusTypeCorrect, OnlyAcceptedEntries, PTL

\* If every region that has a span has at least one element in it, no address
\* reaches a span outside its bounds, whatever is mapped in whatever order
\* (MemoryBus.cpp:23-45, 52-58, 69-71).
THEOREM NeverOutOfBounds ==
  ASSUME \A region \in Region : Kind[region] # "open" => SpanSize[region] > 0
  PROVE  BusSpec => []InBounds
<1>1. BusTypeOK /\ AllAccepted => InBounds
  <2> SUFFICES ASSUME BusTypeOK, AllAccepted, NEW address \in Address,
                      Kind[findRegion(regions_m, address).region] # "open"
               PROVE  offsetOf(findRegion(regions_m, address), address)
                        \in Offset(findRegion(regions_m, address).region)
    BY DEF InBounds
  <2>1. Matches(regions_m, address) # {}
    BY FindType, MemoryAssumption DEF BusTypeOK, Open_Memory
  <2>2. PICK i \in Matches(regions_m, address) :
          findRegion(regions_m, address) = regions_m[i]
    BY <2>1, FindFirst DEF BusTypeOK
  <2> DEFINE entry == regions_m[i]
  <2>3. /\ entry \in RegionEntry
        /\ Accepted(entry)
        /\ Covers(entry, address)
    BY DEF BusTypeOK, AllAccepted, Matches
  <2> HIDE DEF entry
  <2>4. SpanSize[entry.region] >= entry.end - entry.start + 1
    BY <2>2, <2>3, AcceptedWidth DEF RegionEntry, entry
  <2>5. SpanSize[entry.region] \in Nat
    BY <2>3, MemoryAssumption DEF RegionEntry
  <2>6. /\ address - entry.start \in 0 .. AddressSpace - 1
        /\ address - entry.start <= entry.end - entry.start
    BY <2>3, MemoryAssumption DEF RegionEntry, Covers, Address
  <2>7. offsetOf(entry, address) = address - entry.start
    BY <2>6, Truncation DEF offsetOf
  <2>8. offsetOf(entry, address) \in 0 .. SpanSize[entry.region] - 1
    BY <2>3, <2>4, <2>5, <2>6, <2>7 DEF RegionEntry, Address
  <2>9. QED
    BY <2>2, <2>8 DEF Offset, entry
<1>2. QED
  BY <1>1, BusTypeCorrect, OnlyAcceptedEntries, PTL

-----------------------------------------------------------------------------
\* An address is unwired exactly when no entry of the list holds it.
LEMMA WiredIffMatched ==
  ASSUME NEW address \in Address
  PROVE  WiredTo(address) = <<>> <=> Matches(regions_m, address) = {}
<1> DEFINE entry == findRegion(regions_m, address)
<1>1. <<entry.region, offsetOf(entry, address)>> # <<>>
  OBVIOUS
<1>2. QED
  BY <1>1 DEF WiredTo

\* One call of map lays the wires of the free addresses of its range.
LEMMA MapAttaches ==
  ASSUME BusTypeOK,
         NEW start \in Address, NEW end \in Address, NEW region \in Region,
         map(start, end, region)
  PROVE  Flat!Attach(start, end, region)
<1> DEFINE entry == [start |-> start, end |-> end, region |-> region]
<1>1. regions_m \in Seq(RegionEntry) /\ entry \in RegionEntry
  BY DEF BusTypeOK, RegionEntry
<1>2. regions_m' = Append(regions_m, entry) /\ UNCHANGED contents
  BY DEF map
<1>3. ASSUME NEW address \in Address
      PROVE  WiredTo(address)' =
               IF WiredTo(address) = <<>> /\ address \in start .. end
                 THEN <<region, address - start>> ELSE WiredTo(address)
  <2>1. Covers(entry, address) <=> address \in start .. end
    BY DEF Covers, Address
  <2>2. CASE Matches(regions_m, address) # {}
    <3>1. /\ Matches(regions_m', address) # {}
          /\ findRegion(regions_m', address) = findRegion(regions_m, address)
      BY <1>1, <1>2, <2>2, FindAfterAppend
    <3>2. WiredTo(address)' = WiredTo(address)
      BY <2>2, <3>1 DEF WiredTo
    <3>3. QED
      BY <2>2, <3>2, WiredIffMatched
  <2>3. CASE Matches(regions_m, address) = {} /\ Covers(entry, address)
    <3>1. /\ Matches(regions_m', address) # {}
          /\ findRegion(regions_m', address) = entry
      BY <1>1, <1>2, <2>3, FindAfterAppend
    <3>2. address - start \in 0 .. AddressSpace - 1
      BY <2>3, MemoryAssumption DEF Covers, Address
    <3>3. offsetOf(entry, address) = address - start
      BY <3>2, Truncation DEF offsetOf
    <3>4. WiredTo(address)' = <<region, address - start>>
      BY <3>1, <3>3 DEF WiredTo
    <3>5. QED
      BY <2>1, <2>3, <3>4, WiredIffMatched
  <2>4. CASE Matches(regions_m, address) = {} /\ ~Covers(entry, address)
    <3>1. Matches(regions_m', address) = {}
      BY <1>1, <1>2, <2>4, FindAfterAppend
    <3>2. WiredTo(address)' = <<>> /\ WiredTo(address) = <<>>
      BY <2>4, <3>1 DEF WiredTo
    <3>3. QED
      BY <2>1, <2>4, <3>2
  <2>5. QED
    BY <2>2, <2>3, <2>4
<1>4. QED
  BY <1>2, <1>3, Zenon DEF Flat!Attach, Flat!Unwired, Address

\* One write stores in the cell its address is wired to, if that is RAM, and
\* changes nothing otherwise.
LEMMA WriteStores ==
  ASSUME BusTypeOK, NEW address \in Address, NEW value \in Value,
         write(address, value)
  PROVE  Flat!Store(address, value) \/ UNCHANGED <<regions_m, contents>>
<1> DEFINE entry == findRegion(regions_m, address)
<1>1. UNCHANGED regions_m
  BY DEF write
<1>2. contents' = regionWrite(contents, entry.region, offsetOf(entry, address), value)
  BY DEF write, busWrite
<1>3. CASE Kind[entry.region] # "ram"
  BY <1>1, <1>2, <1>3 DEF regionWrite
<1>4. CASE Kind[entry.region] = "ram"
  <2>1. Matches(regions_m, address) # {}
    BY <1>4, FindType, MemoryAssumption DEF BusTypeOK, Open_Memory
  <2>2. WiredTo(address) = <<entry.region, offsetOf(entry, address)>>
    BY <2>1 DEF WiredTo
  <2>3. contents' = [contents EXCEPT ![entry.region][offsetOf(entry, address)] = value]
    BY <1>2, <1>4 DEF regionWrite
  <2>4. [a \in Address |-> WiredTo(a)]' = [a \in Address |-> WiredTo(a)]
    BY <1>1 DEF WiredTo
  <2>5. WiredTo(address) # <<>>
    BY <2>1, WiredIffMatched
  <2> DEFINE cell == [a \in Address |-> WiredTo(a)][address]
  <2>6. /\ cell # <<>>
        /\ cell[1] = entry.region
        /\ cell[2] = offsetOf(entry, address)
    BY <2>2, <2>5
  <2>7. /\ Kind[cell[1]] = "ram"
        /\ contents' = [contents EXCEPT ![cell[1]][cell[2]] = value]
    BY <1>4, <2>3, <2>6
  <2>8. QED
    BY <2>4, <2>6, <2>7, Zenon DEF Flat!Store, Flat!Unwired
<1>5. QED
  BY <1>3, <1>4

\* The list of ranges implements the flat memory, for any address width, any
\* regions and any order of mappings and writes (MemoryBus.cpp:10-45).
THEOREM FlatMemoryImplemented == BusSpec => ImplementsFlatMemory
<1> DEFINE wires == [address \in Address |-> WiredTo(address)]
<1>1. BusInit => Flat!FlatInit
  BY DEF BusInit, Flat!FlatInit, Flat!Unwired, WiredTo, Matches, Address
<1>2. BusTypeOK /\ [BusNext]_busVars => [Flat!FlatNext]_<<wires, contents>>
  <2> SUFFICES ASSUME BusTypeOK, [BusNext]_busVars
               PROVE  Flat!FlatNext \/ UNCHANGED <<wires, contents>>
    OBVIOUS
  <2>0. UNCHANGED <<regions_m, contents>> => UNCHANGED <<wires, contents>>
    BY DEF WiredTo
  <2>1. ASSUME NEW start \in Address, NEW end \in Address, NEW region \in Region,
               map(start, end, region)
        PROVE  Flat!FlatNext
    BY <2>1, MapAttaches DEF Flat!FlatNext, Address
  <2>2. ASSUME NEW address \in Address, NEW value \in Value, write(address, value)
        PROVE  Flat!FlatNext \/ UNCHANGED <<wires, contents>>
    BY <2>0, <2>2, WriteStores DEF Flat!FlatNext, Address
  <2>3. CASE UNCHANGED busVars
    BY <2>0, <2>3 DEF busVars
  <2>4. QED
    BY <2>1, <2>2, <2>3 DEF BusNext
<1>3. QED
  BY <1>1, <1>2, BusTypeCorrect, PTL DEF BusSpec, ImplementsFlatMemory, Flat!FlatSpec

-----------------------------------------------------------------------------
\* The I/O bus.

\* What IOBus::in gives the CPU is a byte (IOBus.cpp:11-17).
LEMMA InType ==
  ASSUME NEW ports \in [Port -> Device \cup {NoDevice}],
         NEW held \in [Device -> PortValue],
         NEW port \in Port
  PROVE  in(ports, held, port) \in PortValue
BY IOAssumption DEF in

\* A write leaves bytes in the devices (IOBus.cpp:19-23).
LEMMA OutType ==
  ASSUME NEW ports \in [Port -> Device \cup {NoDevice}],
         NEW held \in [Device -> PortValue],
         NEW port \in Port, NEW value \in PortValue
  PROVE  out(ports, held, port, value) \in [Device -> PortValue]
BY IOAssumption DEF out

\* Every slot of the bus is empty or holds a device, whatever is attached,
\* written or typed (IOBus.hpp:39, IOBus.cpp:3-23).
THEOREM PortsTypeCorrect == PortsSpec => []PortsTypeOK
<1>1. PortsInit => PortsTypeOK
  BY DEF PortsInit, PortsTypeOK
<1>2. PortsTypeOK /\ [PortsNext]_ioVars => PortsTypeOK'
  <2> SUFFICES ASSUME PortsTypeOK, [PortsNext]_ioVars
               PROVE  PortsTypeOK'
    OBVIOUS
  <2> USE DEF PortsTypeOK
  <2>1. ASSUME NEW port \in Port, NEW device \in Device, attach(port, device)
        PROVE  PortsTypeOK'
    BY <2>1 DEF attach
  <2>2. ASSUME NEW port \in Port, NEW value \in PortValue, Output(port, value)
        PROVE  PortsTypeOK'
    BY <2>2, OutType DEF Output
  <2>3. ASSUME NEW device \in Device, NEW value \in PortValue, DeviceInput(device, value)
        PROVE  PortsTypeOK'
    BY <2>3 DEF DeviceInput
  <2>4. CASE UNCHANGED ioVars
    BY <2>4 DEF ioVars
  <2>5. QED
    BY <2>1, <2>2, <2>3, <2>4 DEF PortsNext
<1>3. QED
  BY <1>1, <1>2, PTL DEF PortsSpec

\* Two ports whose readings change in one step name the same device, whatever
\* the ports and devices are: no attach and no write reaches another slot or
\* another device (IOBus.cpp:7-23).
THEOREM OneDeviceAnswers == PortsSpec => OnlyOneDeviceAnswers
<1> DEFINE Apart ==
      \A p, q \in Port :
        Readings[p] # Readings'[p] /\ Readings[q] # Readings'[q] /\ p # q
          => ports_m[p] = ports_m[q] /\ Readings'[p] = Readings'[q]
<1>1. PortsTypeOK /\ [PortsNext]_ioVars => [Apart]_ioVars
  <2> SUFFICES ASSUME PortsTypeOK, PortsNext,
                      NEW p \in Port, NEW q \in Port,
                      Readings[p] # Readings'[p], Readings[q] # Readings'[q], p # q
               PROVE  ports_m[p] = ports_m[q] /\ Readings'[p] = Readings'[q]
    BY DEF ioVars, Apart
  <2> USE DEF PortsTypeOK
  <2>0. \A s \in Port : /\ Readings[s] = in(ports_m, latch, s)
                        /\ Readings'[s] = in(ports_m, latch, s)'
    BY DEF Readings
  <2>1. ASSUME NEW port \in Port, NEW device \in Device, attach(port, device)
        PROVE  FALSE
    BY <2>0, <2>1 DEF attach, in
  <2>2. ASSUME NEW device \in Device, NEW value \in PortValue,
               UNCHANGED ports_m, latch' = [latch EXCEPT ![device] = value]
        PROVE  ports_m[p] = ports_m[q] /\ Readings'[p] = Readings'[q]
    <3>1. ASSUME NEW s \in Port, Readings[s] # Readings'[s]
          PROVE  ports_m[s] = device /\ Readings'[s] = value
      BY <2>0, <2>2, <3>1, IOAssumption DEF in
    <3>2. QED
      BY <3>1
  <2>3. ASSUME NEW port \in Port, NEW value \in PortValue, Output(port, value)
        PROVE  ports_m[p] = ports_m[q] /\ Readings'[p] = Readings'[q]
    <3>1. CASE ports_m[port] = NoDevice
      <4>1. UNCHANGED <<ports_m, latch>>
        BY <2>3, <3>1 DEF Output, out
      <4>2. QED
        BY <4>1, <2>0 DEF in
    <3>2. CASE ports_m[port] # NoDevice
      BY <2>2, <2>3, <3>2 DEF Output, out
    <3>3. QED
      BY <3>1, <3>2
  <2>4. QED
    BY <2>1, <2>2, <2>3 DEF PortsNext, DeviceInput
<1>2. QED
  BY <1>1, PortsTypeCorrect, PTL DEF PortsSpec, OnlyOneDeviceAnswers
=============================================================================
