---------------------------- MODULE HistoryProofs ----------------------------
(***************************************************************************)
(* The histories of Fake8080History, for any board, program, requests and  *)
(* input: the vector served is the last one asked for, and what a program  *)
(* pops is what was pushed.                                                *)
(***************************************************************************)
EXTENDS Fake8080History, InstructionProofs

\* The CPU with its histories is the CPU: they only look on.
LEMMA HistoriesOnlyWatch == HistorySpec => Spec
<1>1. HistoryInit => Init
  BY DEF HistoryInit
<1>2. [HistoryNext]_<<vars, histories>> => [Next]_vars
  <2>1. CycleH => Next
    BY DEF CycleH, Next
  <2>2. AskH => Next
    BY DEF AskH, Next
  <2>3. ResetH \/ WorldH => Next
    BY DEF ResetH, WorldH, Next
  <2>4. UNCHANGED <<vars, histories>> => UNCHANGED vars
    OBVIOUS
  <2>5. QED
    BY <2>1, <2>2, <2>3, <2>4 DEF HistoryNext
<1>3. QED
  BY <1>1, <1>2, PTL DEF HistorySpec, Spec

\* What the CPU's own invariants say, with the histories beside it.
LEMMA HistoryKeepsInvariants == HistorySpec => [](CpuInv /\ InterruptInv)
BY HistoriesOnlyWatch, CpuInvariant, InterruptInvariant, PTL

-----------------------------------------------------------------------------
\* The vector asked for last is the one the CPU keeps, while it keeps one.
WantedIsPending ==
  wanted = IF interruptRequested_m THEN <<interruptVectorRequested_m>> ELSE <<>>

\* The table sends opcode 211, and no other, to the handler of OUT.
LEMMA OnlyOneOut ==
  ASSUME NEW code \in Byte
  PROVE  opcodes_m[code].op = "OUT_d8" <=> code = 211
<1>1. /\ Group(code) \in 0 .. 3 /\ Y(code) \in 0 .. 7 /\ Z(code) \in 0 .. 7
      /\ code = 64 * Group(code) + 8 * Y(code) + Z(code)
  BY Fields
<1>2. code = 211 <=> Group(code) = 3 /\ Z(code) = 3 /\ Y(code) = 2
  BY <1>1
<1>3. FlowFollows(code)
  BY InstructionFlow
<1>4. opcodes_m[code].op = "OUT_d8" => HasByte(code)
  BY <1>3 DEF FlowFollows, ByteOp
<1>5. CASE Group(code) = 0
  <2>1. opcodes_m[code] = Group0(code)
    BY <1>5, Group0Follows
  <2>2. Z(code) = 6 => opcodes_m[code].op # "OUT_d8"
    BY <1>5, <2>1, Group0Ops
  <2>3. QED
    BY <1>2, <1>4, <1>5, <2>2 DEF HasByte
<1>6. CASE Group(code) \in {1, 2}
  BY <1>2, <1>4, <1>6 DEF HasByte
<1>7. CASE Group(code) = 3
  <2>1. opcodes_m[code] = Group3(code)
    BY <1>7, Group3Follows
  <2>2. Z(code) = 6 => opcodes_m[code].op # "OUT_d8"
    BY <1>7, <2>1, Group3Ops
  <2>3. Z(code) = 3 /\ Y(code) \in {2, 3} =>
          opcodes_m[code].op = IF Y(code) = 2 THEN "OUT_d8" ELSE "IN_d8"
    BY <1>7, <2>1, Group3Ops
  <2>4. QED
    BY <1>2, <1>4, <1>7, <2>2, <2>3 DEF HasByte
<1>8. QED
  BY <1>1, <1>5, <1>6, <1>7

\* A cycle writes down the request that a device makes inside OUT, and strikes
\* out the one it serves (Fake8080.cpp:15-21, 33-37, 492-498).
LEMMA CycleKeepsWanted ==
  ASSUME CpuInv, InterruptInv, WantedIsPending, CycleH
  PROVE  WantedIsPending'
<1>1. wanted' = WantedAfterCycle /\ cycle
  BY DEF CycleH
<1>2. CASE AcceptInterrupt
  <2>1. wanted' = <<>> /\ interruptRequested_m' = FALSE
    BY <1>1, <1>2 DEF WantedAfterCycle, AcceptInterrupt, Taken
  <2>2. QED
    BY <2>1 DEF WantedIsPending
<1>3. ASSUME UNCHANGED <<wanted, interruptRequested_m, interruptVectorRequested_m>>
      PROVE  WantedIsPending'
  BY <1>3 DEF WantedIsPending
<1>4. CASE StayHalted
  <2>1. Ringing = {} /\ ~Accepts
    BY <1>4 DEF StayHalted, Ringing
  <2>2. wanted' = wanted
    BY <1>1, <2>1 DEF WantedAfterCycle
  <2>3. QED
    BY <1>3, <1>4, <2>2 DEF StayHalted, Control
<1>5. CASE Execute
  <2>1. Fetched \in Byte /\ instruction = opcodes_m[Fetched]
    BY OperandsRead DEF Fetched, CpuInv, MachineOK, instruction
  <2>2. instruction.op = "OUT_d8" <=> Fetched = 211
    BY <2>1, OnlyOneOut
  <2>3. ~Accepts /\ ~halted_m
    BY <1>5 DEF Execute
  <2>4. CASE Fetched = 211
    <3> DEFINE device == ports_m[readNextByte]
    <3>1. OUT_d8
      BY <1>5, <2>2, <2>4 DEF Execute, DataHandler
    <3>2. Rings(device)
      BY <3>1 DEF OUT_d8
    <3>3. Ringing = {device} \cap DOMAIN Alarm
      BY <2>3, <2>4 DEF Ringing
    <3>4. CASE device \in DOMAIN Alarm
      <4>1. Ringing # {}
        BY <3>3, <3>4
      <4>2. wanted' = <<Alarm[device]>>
        BY <1>1, <2>3, <4>1, Zenon DEF WantedAfterCycle
      <4>3. interruptRequested_m' = TRUE /\ interruptVectorRequested_m' = Alarm[device]
        BY <3>2, <3>4, Zenon DEF Rings, Requested
      <4>4. QED
        BY <4>2, <4>3, Zenon DEF WantedIsPending
    <3>5. CASE device \notin DOMAIN Alarm
      <4>1. Ringing = {}
        BY <3>3, <3>5
      <4>2. wanted' = wanted
        BY <1>1, <2>3, <4>1, Zenon DEF WantedAfterCycle
      <4>3. QED
        BY <1>3, <3>2, <3>5, <4>2, Zenon DEF Rings
    <3>6. QED
      BY <3>4, <3>5
  <2>5. CASE Fetched # 211
    <3>1. Ringing = {}
      BY <2>5 DEF Ringing
    <3>2. wanted' = wanted
      BY <1>1, <2>3, <3>1, Zenon DEF WantedAfterCycle
    <3>3. UNCHANGED <<interruptRequested_m, interruptVectorRequested_m>>
      BY <1>5, <2>2, <2>5, Zenon DEF Execute, EI, DI, HLT, Control
    <3>4. QED
      BY <1>3, <3>2, <3>3
  <2>6. QED
    BY <2>4, <2>5
<1>6. QED
  BY <1>1, <1>2, <1>4, <1>5 DEF cycle

LEMMA WantedInvariant == HistorySpec => []WantedIsPending
<1>1. HistoryInit => WantedIsPending
  BY DEF HistoryInit, Init, WantedIsPending
<1>2. CpuInv /\ InterruptInv /\ WantedIsPending /\ [HistoryNext]_<<vars, histories>>
        => WantedIsPending'
  <2> SUFFICES ASSUME CpuInv, InterruptInv, WantedIsPending,
                      [HistoryNext]_<<vars, histories>>
               PROVE  WantedIsPending'
    OBVIOUS
  <2>1. CASE CycleH
    BY <2>1, CycleKeepsWanted
  <2>2. CASE AskH
    <3>1. PICK interruptNum \in Vectors :
            requestInterrupt(interruptNum) /\ wanted' = <<interruptNum>>
      BY <2>2 DEF AskH
    <3>2. QED
      BY <3>1 DEF requestInterrupt, Requested, WantedIsPending
  <2>3. CASE ResetH
    BY <2>3 DEF ResetH, reset, WantedIsPending
  <2>4. CASE WorldH \/ UNCHANGED <<vars, histories>>
    <3>1. UNCHANGED <<wanted, interruptRequested_m, interruptVectorRequested_m>>
      BY <2>4 DEF WorldH, OutsideInput, Plug, interruptVars, vars, histories
    <3>2. QED
      BY <3>1 DEF WantedIsPending
  <2>5. QED
    BY <2>1, <2>2, <2>3, <2>4 DEF HistoryNext
<1>3. QED
  BY <1>1, <1>2, HistoryKeepsInvariants, PTL DEF HistorySpec

\* An interrupt goes where the last request since the previous one asked, and
\* no interrupt is taken without a request, for any host, device and program
\* (Fake8080.cpp:15-21, 33-43).
THEOREM LastRequestServed == HistorySpec => ServesLastRequest
<1> DEFINE Served == AcceptInterrupt => wanted # <<>> /\ pc_m' = 8 * Head(wanted)
<1>1. WantedIsPending /\ [HistoryNext]_<<vars, histories>> => [Served]_<<vars, histories>>
  <2> SUFFICES ASSUME WantedIsPending, AcceptInterrupt
               PROVE  wanted # <<>> /\ pc_m' = 8 * Head(wanted)
    OBVIOUS
  <2>1. interruptRequested_m /\ pc_m' = 8 * interruptVectorRequested_m
    BY Zenon DEF AcceptInterrupt, Taken, Accepts, callAddress, Effect
  <2>2. wanted = <<interruptVectorRequested_m>>
    BY <2>1 DEF WantedIsPending
  <2>3. QED
    BY <2>1, <2>2
<1> HIDE DEF Served
<1>2. HistorySpec => [][Served]_<<vars, histories>>
  BY <1>1, WantedInvariant, PTL DEF HistorySpec
<1>3. QED
  BY <1>2, PTL DEF ServesLastRequest, Served

-----------------------------------------------------------------------------
\* The cell of the memory that serves an address, and the word at an address.
CellOf(address) == <<RegionOf(address), OffsetOf(address)>>

InRam(address) == Kind[RegionOf(address)] = "ram"

WordAt(c, address) ==
  Combine(busRead(Mapping, c, ToWord(address + 1)), busRead(Mapping, c, address))

\* A memory holds a list of words from sp on, in distinct cells of RAM.  That
\* the cells are distinct is what makes the list survive: a push or a store
\* elsewhere cannot reach a word through a second address of its bytes.
StackHolds(c, sp, list) ==
  /\ list \in Seq(Word)
  /\ \A k \in 0 .. 2 * Len(list) - 1 : InRam(ToWord(sp + k))
  /\ \A j, k \in 0 .. 2 * Len(list) - 1 :
       CellOf(ToWord(sp + j)) = CellOf(ToWord(sp + k)) => j = k
  /\ \A i \in 1 .. Len(list) : WordAt(c, ToWord(sp + 2 * (i - 1))) = list[i]

\* An offset from a wrapped address is an offset from the address.
LEMMA WrapsOnce ==
  ASSUME NEW n \in Int, NEW m \in Int
  PROVE  /\ ToWord(n) \in Word
         /\ ToWord(ToWord(n) + m) = ToWord(n + m)
BY WordRange DEF ToWord

\* An address of RAM is wired to its cell.
LEMMA RamIsWired ==
  ASSUME regions_m = Mapping, NEW address \in Word
  PROVE  /\ IsRam(address) <=> InRam(address)
         /\ InRam(address) => WiredTo(address) = CellOf(address)
<1>1. IsRam(address) <=> InRam(address)
  BY DEF IsRam, InRam, RegionOf
<1>2. InRam(address) => Matches(Mapping, address) # {}
  BY InSpan DEF InRam, RegionOf
<1>3. QED
  BY <1>1, <1>2 DEF WiredTo, CellOf, RegionOf, OffsetOf

\* A byte of RAM is kept by stores at addresses of other cells.
LEMMA ByteKept ==
  ASSUME NEW c, NEW d, NEW addresses, Touches(c, d, addresses),
         NEW here \in Word, InRam(here),
         \A address \in addresses : InRam(address) => CellOf(address) # CellOf(here)
  PROVE  busRead(Mapping, d, here) = busRead(Mapping, c, here)
<1> DEFINE region == RegionOf(here)
           offset == OffsetOf(here)
<1>1. region \in Region /\ offset \in Offset(region) /\ Kind[region] = "ram"
  BY InSpan DEF InRam, RegionOf, OffsetOf
<1>2. d[region][offset] = c[region][offset]
  <2>1. ASSUME d[region][offset] # c[region][offset] PROVE FALSE
    <3>1. PICK address \in addresses :
            /\ Kind[RegionOf(address)] = "ram"
            /\ region = RegionOf(address)
            /\ offset = OffsetOf(address)
      BY <1>1, <2>1 DEF Touches
    <3>2. CellOf(address) = CellOf(here)
      BY <3>1 DEF CellOf
    <3>3. QED
      BY <3>1, <3>2 DEF InRam
  <2>2. QED
    BY <2>1
<1>3. \A e : busRead(Mapping, e, here) = e[region][offset]
  BY <1>1 DEF busRead, regionRead, RegionOf, OffsetOf
<1>4. QED
  BY <1>2, <1>3

\* An empty list is held by any memory.
LEMMA NothingHeld ==
  ASSUME NEW c, NEW sp
  PROVE  StackHolds(c, sp, <<>>)
BY DEF StackHolds

\* The two bytes of a word of the list.
LEMMA WordBytes ==
  ASSUME NEW c, NEW sp \in Word, NEW list, StackHolds(c, sp, list), NEW i \in 1 .. Len(list)
  PROVE  /\ 2 * (i - 1) \in 0 .. 2 * Len(list) - 1
         /\ 2 * i - 1 \in 0 .. 2 * Len(list) - 1
         /\ \A e : WordAt(e, ToWord(sp + 2 * (i - 1)))
                     = Combine(busRead(Mapping, e, ToWord(sp + (2 * i - 1))),
                               busRead(Mapping, e, ToWord(sp + 2 * (i - 1))))
<1>1. Len(list) \in Nat /\ sp \in Int
  BY WordRange DEF StackHolds
<1>2. /\ 2 * (i - 1) \in 0 .. 2 * Len(list) - 1
      /\ 2 * i - 1 \in 0 .. 2 * Len(list) - 1
  BY <1>1
<1>3. ToWord(ToWord(sp + 2 * (i - 1)) + 1) = ToWord(sp + (2 * i - 1))
  <2>1. ToWord(ToWord(sp + 2 * (i - 1)) + 1) = ToWord((sp + 2 * (i - 1)) + 1)
    BY <1>1, WrapsOnce
  <2>2. (sp + 2 * (i - 1)) + 1 = sp + (2 * i - 1)
    BY <1>1
  <2>3. QED
    BY <2>1, <2>2
<1>4. QED
  BY <1>2, <1>3 DEF WordAt

\* The list survives stores outside its cells.
LEMMA ListKept ==
  ASSUME NEW c, NEW d, NEW sp \in Word, NEW list, StackHolds(c, sp, list),
         NEW addresses, Touches(c, d, addresses),
         \A address \in addresses : \A k \in 0 .. 2 * Len(list) - 1 :
           InRam(address) => CellOf(address) # CellOf(ToWord(sp + k))
  PROVE  StackHolds(d, sp, list)
<1>1. ASSUME NEW k \in 0 .. 2 * Len(list) - 1
      PROVE  busRead(Mapping, d, ToWord(sp + k)) = busRead(Mapping, c, ToWord(sp + k))
  <2>1. ToWord(sp + k) \in Word
    <3>1. sp \in Int /\ k \in Int
      BY WordRange
    <3>2. sp + k \in Int
      BY <3>1
    <3>3. QED
      BY <3>2, WrapsOnce, 0 \in Int
  <2>2. InRam(ToWord(sp + k))
    BY DEF StackHolds
  <2>3. QED
    BY <2>1, <2>2, ByteKept
<1>2. ASSUME NEW i \in 1 .. Len(list)
      PROVE  WordAt(d, ToWord(sp + 2 * (i - 1))) = list[i]
  <2>1. WordAt(d, ToWord(sp + 2 * (i - 1))) = WordAt(c, ToWord(sp + 2 * (i - 1)))
    BY <1>1, WordBytes, Zenon
  <2>2. QED
    BY <2>1 DEF StackHolds
<1>3. QED
  BY <1>2 DEF StackHolds

\* A pop takes the word at the top and leaves the rest of the list.
LEMMA ListPopped ==
  ASSUME NEW c, NEW sp \in Word, NEW list, StackHolds(c, sp, list), list # <<>>
  PROVE  /\ WordAt(c, sp) = Head(list)
         /\ StackHolds(c, ToWord(sp + 2), Tail(list))
<1> DEFINE rest == Tail(list)
           next == ToWord(sp + 2)
<1>1. /\ list \in Seq(Word) /\ Len(list) \in Nat \ {0} /\ sp \in Int
      /\ rest \in Seq(Word) /\ Len(rest) = Len(list) - 1
      /\ \A i \in 1 .. Len(rest) : rest[i] = list[i + 1]
  BY WordRange DEF StackHolds
<1>2. \A k \in Int : ToWord(next + k) = ToWord(sp + (k + 2))
  <2> SUFFICES ASSUME NEW k \in Int
               PROVE  ToWord(next + k) = ToWord(sp + (k + 2))
    OBVIOUS
  <2>1. ToWord(next + k) = ToWord((sp + 2) + k)
    BY <1>1, WrapsOnce
  <2>2. (sp + 2) + k = sp + (k + 2)
    BY <1>1
  <2>3. QED
    BY <2>1, <2>2
<1>3. WordAt(c, sp) = Head(list)
  <2>1. ToWord(sp + 2 * (1 - 1)) = sp
    BY WordRange DEF ToWord
  <2>2. 1 \in 1 .. Len(list) /\ Head(list) = list[1]
    BY <1>1
  <2>3. QED
    BY <2>1, <2>2 DEF StackHolds
<1> HIDE DEF rest, next
<1>4. \A k \in 0 .. 2 * Len(rest) - 1 : k + 2 \in 0 .. 2 * Len(list) - 1 /\ k \in Int
  BY <1>1
<1>5. \A k \in 0 .. 2 * Len(rest) - 1 : InRam(ToWord(next + k))
  BY <1>2, <1>4 DEF StackHolds
<1>6. ASSUME NEW j \in 0 .. 2 * Len(rest) - 1, NEW k \in 0 .. 2 * Len(rest) - 1,
             CellOf(ToWord(next + j)) = CellOf(ToWord(next + k))
      PROVE  j = k
  <2>1. j + 2 = k + 2
    BY <1>2, <1>4, <1>6, ZenonT(40) DEF StackHolds
  <2>2. QED
    BY <1>4, <2>1
<1>7. ASSUME NEW i \in 1 .. Len(rest)
      PROVE  WordAt(c, ToWord(next + 2 * (i - 1))) = rest[i]
  <2>1. i \in Int /\ i + 1 \in 1 .. Len(list)
    BY <1>1
  <2>2. ToWord(next + 2 * (i - 1)) = ToWord(sp + (2 * (i - 1) + 2))
    BY <1>2, <2>1
  <2>3. 2 * (i - 1) + 2 = 2 * ((i + 1) - 1)
    BY <2>1
  <2>4. QED
    BY <1>1, <2>1, <2>2, <2>3 DEF StackHolds
<1>8. QED
  BY <1>1, <1>3, <1>5, <1>6, <1>7 DEF StackHolds, rest, next

\* A word pushed on two free cells of RAM becomes the top of the list.
LEMMA ListGrown ==
  ASSUME NEW c, NEW d, NEW sp \in Word, NEW list, NEW word \in Word,
         StackHolds(c, sp, list),
         Touches(c, d, {ToWord(sp - 1), ToWord(sp - 2)}),
         WordAt(d, ToWord(sp - 2)) = word,
         InRam(ToWord(sp - 1)), InRam(ToWord(sp - 2)),
         CellOf(ToWord(sp - 1)) # CellOf(ToWord(sp - 2)),
         \A k \in 0 .. 2 * Len(list) - 1 :
           /\ CellOf(ToWord(sp + k)) # CellOf(ToWord(sp - 1))
           /\ CellOf(ToWord(sp + k)) # CellOf(ToWord(sp - 2))
  PROVE  StackHolds(d, ToWord(sp - 2), <<word>> \o list)
<1> DEFINE grown == <<word>> \o list
           next  == ToWord(sp - 2)
           At(k) == CellOf(ToWord(sp + k))
<1>1. /\ list \in Seq(Word) /\ Len(list) \in Nat /\ sp \in Int
      /\ grown \in Seq(Word) /\ Len(grown) = Len(list) + 1
      /\ grown[1] = word /\ \A i \in 2 .. Len(grown) : grown[i] = list[i - 1]
  BY WordRange DEF StackHolds
<1>2. \A k \in Int : ToWord(next + k) = ToWord(sp + (k - 2))
  <2> SUFFICES ASSUME NEW k \in Int
               PROVE  ToWord(next + k) = ToWord(sp + (k - 2))
    OBVIOUS
  <2>1. ToWord(next + k) = ToWord((sp - 2) + k)
    BY <1>1, WrapsOnce
  <2>2. (sp - 2) + k = sp + (k - 2)
    BY <1>1
  <2>3. QED
    BY <2>1, <2>2
<1>3. ToWord(sp + (-2)) = ToWord(sp - 2) /\ ToWord(sp + (-1)) = ToWord(sp - 1)
  <2>1. sp + (-2) = sp - 2 /\ sp + (-1) = sp - 1
    BY <1>1
  <2>2. QED
    BY <2>1
<1>4. StackHolds(d, sp, list)
  BY ListKept
<1> HIDE DEF grown, next
<1>5. ASSUME NEW k \in 0 .. 2 * Len(grown) - 1
      PROVE  /\ k - 2 \in (-2) .. 2 * Len(list) - 1 /\ k \in Int
             /\ ToWord(next + k) = ToWord(sp + (k - 2))
             /\ InRam(ToWord(next + k))
             /\ CellOf(ToWord(next + k)) = At(k - 2)
  <2>1. k - 2 \in (-2) .. 2 * Len(list) - 1 /\ k \in Int
    BY <1>1
  <2>2. ToWord(next + k) = ToWord(sp + (k - 2))
    BY <1>2, <2>1
  <2>3. k - 2 = -2 \/ k - 2 = -1 \/ k - 2 \in 0 .. 2 * Len(list) - 1
    BY <1>1, <2>1
  <2>4. InRam(ToWord(sp + (k - 2)))
    BY <1>3, <2>3 DEF StackHolds
  <2>5. QED
    BY <2>1, <2>2, <2>4
<1>6. \A j, k \in (-2) .. 2 * Len(list) - 1 : At(j) = At(k) => j = k
  <2> SUFFICES ASSUME NEW j \in (-2) .. 2 * Len(list) - 1,
                      NEW k \in (-2) .. 2 * Len(list) - 1, At(j) = At(k)
               PROVE  j = k
    OBVIOUS
  <2>1. /\ j = -2 \/ j = -1 \/ j \in 0 .. 2 * Len(list) - 1
        /\ k = -2 \/ k = -1 \/ k \in 0 .. 2 * Len(list) - 1
    BY <1>1
  <2>2. /\ At(-2) # At(-1)
        /\ \A n \in 0 .. 2 * Len(list) - 1 : At(n) # At(-2) /\ At(n) # At(-1)
    BY <1>3
  <2>3. \A m, n \in 0 .. 2 * Len(list) - 1 : At(m) = At(n) => m = n
    BY DEF StackHolds
  <2> HIDE DEF At
  <2>4. QED
    BY <2>1, <2>2, <2>3
<1> HIDE DEF At
<1>7. ASSUME NEW j \in 0 .. 2 * Len(grown) - 1, NEW k \in 0 .. 2 * Len(grown) - 1,
             CellOf(ToWord(next + j)) = CellOf(ToWord(next + k))
      PROVE  j = k
  <2>1. j - 2 = k - 2
    BY <1>5, <1>6, <1>7
  <2>2. QED
    BY <1>5, <2>1
<1>8. ASSUME NEW i \in 1 .. Len(grown)
      PROVE  WordAt(d, ToWord(next + 2 * (i - 1))) = grown[i]
  <2>1. 2 * (i - 1) \in Int /\ i \in Int
    BY <1>1
  <2>2. ToWord(next + 2 * (i - 1)) = ToWord(sp + (2 * (i - 1) - 2))
    BY <1>2, <2>1
  <2>3. CASE i = 1
    <3>1. 2 * (i - 1) - 2 = -2
      BY <2>3
    <3>2. QED
      BY <1>1, <1>3, <2>2, <2>3, <3>1
  <2>4. CASE i # 1
    <3>1. i \in 2 .. Len(grown) /\ i - 1 \in 1 .. Len(list)
      BY <1>1, <2>4
    <3>2. 2 * (i - 1) - 2 = 2 * ((i - 1) - 1)
      BY <2>1
    <3>3. WordAt(d, ToWord(sp + 2 * ((i - 1) - 1))) = list[i - 1]
      BY <1>4, <3>1 DEF StackHolds
    <3>4. QED
      BY <1>1, <2>2, <3>1, <3>2, <3>3
  <2>5. QED
    BY <2>3, <2>4
<1>9. StackHolds(d, next, grown)
  BY <1>1, <1>5, <1>7, <1>8 DEF StackHolds
<1>10. QED
  BY <1>9 DEF next, grown

\* The word at the top is replaced where it is.
LEMMA ListTopped ==
  ASSUME NEW c, NEW d, NEW sp \in Word, NEW list, NEW word \in Word,
         StackHolds(c, sp, list), list # <<>>,
         Touches(c, d, {sp, ToWord(sp + 1)}),
         WordAt(d, sp) = word
  PROVE  StackHolds(d, sp, <<word>> \o Tail(list))
<1> DEFINE topped == <<word>> \o Tail(list)
<1>1. /\ list \in Seq(Word) /\ Len(list) \in Nat \ {0} /\ sp \in Int
      /\ topped \in Seq(Word) /\ Len(topped) = Len(list)
      /\ topped[1] = word /\ \A i \in 2 .. Len(list) : topped[i] = list[i]
  BY WordRange DEF StackHolds
<1>2. ToWord(sp + 0) = sp
  BY WordRange DEF ToWord
<1> HIDE DEF topped
<1>3. ASSUME NEW k \in 2 .. 2 * Len(list) - 1
      PROVE  busRead(Mapping, d, ToWord(sp + k)) = busRead(Mapping, c, ToWord(sp + k))
  <2>1. k \in 0 .. 2 * Len(list) - 1 /\ 0 \in 0 .. 2 * Len(list) - 1
        /\ 1 \in 0 .. 2 * Len(list) - 1 /\ k # 0 /\ k # 1
    BY <1>1
  <2>2. /\ CellOf(ToWord(sp + k)) # CellOf(ToWord(sp + 0))
        /\ CellOf(ToWord(sp + k)) # CellOf(ToWord(sp + 1))
        /\ InRam(ToWord(sp + k))
    BY <2>1 DEF StackHolds
  <2>3. ToWord(sp + k) \in Word
    <3>1. sp + k \in Int
      BY <1>1
    <3>2. QED
      BY <3>1, WrapsOnce, 0 \in Int
  <2>4. \A address \in {sp, ToWord(sp + 1)} : CellOf(address) # CellOf(ToWord(sp + k))
    BY <1>2, <2>2
  <2>5. QED
    BY <2>2, <2>3, <2>4, ByteKept
<1>4. ASSUME NEW i \in 1 .. Len(list)
      PROVE  WordAt(d, ToWord(sp + 2 * (i - 1))) = topped[i]
  <2>1. CASE i = 1
    <3>1. ToWord(sp + 2 * (i - 1)) = sp
      BY <1>2, <2>1
    <3>2. QED
      BY <1>1, <2>1, <3>1
  <2>2. CASE i # 1
    <3>1. i \in 2 .. Len(list) /\ 2 * (i - 1) \in 2 .. 2 * Len(list) - 1
          /\ 2 * i - 1 \in 2 .. 2 * Len(list) - 1
      BY <1>1, <2>2
    <3>2. WordAt(d, ToWord(sp + 2 * (i - 1))) = WordAt(c, ToWord(sp + 2 * (i - 1)))
      <4>1. /\ busRead(Mapping, d, ToWord(sp + 2 * (i - 1)))
                 = busRead(Mapping, c, ToWord(sp + 2 * (i - 1)))
            /\ busRead(Mapping, d, ToWord(sp + (2 * i - 1)))
                 = busRead(Mapping, c, ToWord(sp + (2 * i - 1)))
        BY <1>3, <3>1
      <4>2. \A e : WordAt(e, ToWord(sp + 2 * (i - 1)))
                     = Combine(busRead(Mapping, e, ToWord(sp + (2 * i - 1))),
                               busRead(Mapping, e, ToWord(sp + 2 * (i - 1))))
        BY WordBytes
      <4>3. QED
        BY <4>1, <4>2
    <3>3. QED
      BY <1>1, <3>1, <3>2 DEF StackHolds
  <2>3. QED
    BY <2>1, <2>2
<1>5. StackHolds(d, sp, topped)
  BY <1>1, <1>4 DEF StackHolds
<1>6. QED
  BY <1>5 DEF topped

-----------------------------------------------------------------------------
\* The memory holds the list of the words pushed and not popped.
StackInv == StackHolds(contents, SP, frames)

\* What the handlers read and write, as words of the memory.
LEMMA StackWords ==
  ASSUME MachineOK
  PROVE  /\ \A address : readTwoBytes(address) = WordAt(contents, address)
         /\ \A word \in Word : StackCells(ToWord(SP - 1), ToWord(SP - 2)) =>
              WordAt(Pushed(contents, SP, word), ToWord(SP - 2)) = word
         /\ \A word \in Word : StackCells(SP, ToWord(SP + 1)) =>
              WordAt(writeTwoBytes(contents, SP, word), SP) = word
<1>1. regions_m = Mapping /\ SP \in Word /\ SP \in Int
  BY OperandsRead, WordRange DEF MachineOK
<1>2. /\ ToWord(SP - 1) \in Word /\ ToWord(SP - 2) \in Word /\ ToWord(SP + 1) \in Word
      /\ ToWord(ToWord(SP - 2) + 1) = ToWord(SP - 1)
  <2>1. /\ SP - 1 \in Int /\ SP - 2 \in Int /\ SP + 1 \in Int /\ (SP - 2) + 1 = SP - 1
    BY <1>1
  <2>2. QED
    BY <2>1, WrapsOnce, 1 \in Int, 0 \in Int
<1>3. \A address : readTwoBytes(address) = WordAt(contents, address)
  BY <1>1 DEF readTwoBytes, WordAt, memoryRead
<1>4. ASSUME NEW word \in Word, StackCells(ToWord(SP - 1), ToWord(SP - 2))
      PROVE  WordAt(Pushed(contents, SP, word), ToWord(SP - 2)) = word
  <2> DEFINE d == Pushed(contents, SP, word)
  <2>1. /\ busRead(Mapping, d, ToWord(SP - 1)) = getHighByte(word)
        /\ busRead(Mapping, d, ToWord(SP - 2)) = getLowByte(word)
    BY <1>2, <1>4, HalvesType, RamHoldsTwo DEF Pushed
  <2> HIDE DEF d
  <2>2. WordAt(d, ToWord(SP - 2)) = Combine(getHighByte(word), getLowByte(word))
    BY <1>2, <2>1 DEF WordAt
  <2>3. QED
    BY <2>2, WordHalves DEF d
<1>5. ASSUME NEW word \in Word, StackCells(SP, ToWord(SP + 1))
      PROVE  WordAt(writeTwoBytes(contents, SP, word), SP) = word
  <2> DEFINE d == writeTwoBytes(contents, SP, word)
  <2>1. /\ busRead(Mapping, d, SP) = getLowByte(word)
        /\ busRead(Mapping, d, ToWord(SP + 1)) = getHighByte(word)
    <3>1. getLowByte(word) \in Byte /\ getHighByte(word) \in Byte
      BY HalvesType
    <3>2. d = memoryWrite(memoryWrite(contents, SP, getLowByte(word)), ToWord(SP + 1),
                          getHighByte(word))
      BY Zenon DEF writeTwoBytes
    <3> DEFINE e == memoryWrite(memoryWrite(contents, SP, getLowByte(word)), ToWord(SP + 1),
                                getHighByte(word))
    <3> HIDE DEF d
    <3>3. SP \in Word /\ ToWord(SP + 1) \in Word
      BY <1>1, <1>2
    <3>4. /\ busRead(Mapping, e, SP) = getLowByte(word)
          /\ busRead(Mapping, e, ToWord(SP + 1)) = getHighByte(word)
      BY <1>5, <3>1, <3>3, RamHoldsTwo
    <3>5. QED
      BY <3>2, <3>4
  <2> HIDE DEF d
  <2>2. WordAt(d, SP) = Combine(getHighByte(word), getLowByte(word))
    BY <2>1 DEF WordAt
  <2>3. QED
    BY <2>2, WordHalves DEF d
<1>6. QED
  BY <1>3, <1>4, <1>5

\* A step that pushes a word.
LEMMA PushKeepsStack ==
  ASSUME MachineOK, StackInv, NEW word \in Word,
         contents' = Pushed(contents, SP, word), SP' = ToWord(SP - 2),
         frames' = Grown(word)
  PROVE  StackInv'
<1> DEFINE high == ToWord(SP - 1)
           low  == ToWord(SP - 2)
<1>1. /\ regions_m = Mapping /\ SP \in Word /\ SP \in Int
      /\ high \in Word /\ low \in Word
  BY OperandsRead, WordRange, Converted DEF MachineOK
<1>2. Touches(contents, contents', {high, low})
  BY WritesTouch
<1>3. CASE ~ (StackCells(high, low) /\ WiredTo(high) \notin Held /\ WiredTo(low) \notin Held)
  <2>1. frames' = <<>>
    BY <1>3 DEF Grown
  <2>2. QED
    BY <2>1, NothingHeld DEF StackInv
<1>4. CASE StackCells(high, low) /\ WiredTo(high) \notin Held /\ WiredTo(low) \notin Held
  <2>1. frames' = <<word>> \o frames
    BY <1>4 DEF Grown
  <2>2. /\ InRam(high) /\ InRam(low)
        /\ WiredTo(high) = CellOf(high) /\ WiredTo(low) = CellOf(low)
    BY <1>1, <1>4, RamIsWired DEF StackCells
  <2>3. CellOf(high) # CellOf(low)
    BY <1>4, <2>2 DEF StackCells
  <2>4. \A k \in 0 .. 2 * Len(frames) - 1 :
          /\ CellOf(ToWord(SP + k)) # CellOf(high)
          /\ CellOf(ToWord(SP + k)) # CellOf(low)
    <3> SUFFICES ASSUME NEW k \in 0 .. 2 * Len(frames) - 1
                 PROVE  /\ CellOf(ToWord(SP + k)) # CellOf(high)
                        /\ CellOf(ToWord(SP + k)) # CellOf(low)
      OBVIOUS
    <3>1. ToWord(SP + k) \in Word /\ InRam(ToWord(SP + k))
      <4>1. SP + k \in Int
        BY <1>1
      <4>2. QED
        BY <4>1, Converted DEF StackInv, StackHolds
    <3>2. WiredTo(ToWord(SP + k)) = CellOf(ToWord(SP + k)) /\ WiredTo(ToWord(SP + k)) \in Held
      BY <1>1, <3>1, RamIsWired DEF Held
    <3>3. QED
      BY <1>4, <2>2, <3>2
  <2>5. WordAt(contents', low) = word
    BY <1>4, StackWords
  <2> HIDE DEF high, low
  <2>6. StackHolds(contents', low, <<word>> \o frames)
    BY <1>1, <1>2, <2>2, <2>3, <2>4, <2>5, ListGrown DEF StackInv, high, low
  <2>7. QED
    BY <2>1, <2>6 DEF StackInv, low
<1>5. QED
  BY <1>3, <1>4

\* A step that pops a word.
LEMMA PopKeepsStack ==
  ASSUME MachineOK, StackInv, contents' = contents, SP' = ToWord(SP + 2), frames' = Shrunk
  PROVE  StackInv'
<1>1. CASE frames = <<>>
  <2>1. frames' = <<>>
    BY <1>1 DEF Shrunk
  <2>2. QED
    BY <2>1, NothingHeld DEF StackInv
<1>2. CASE frames # <<>>
  <2>1. frames' = Tail(frames) /\ SP \in Word
    BY <1>2, OperandsRead DEF Shrunk
  <2>2. StackHolds(contents, ToWord(SP + 2), Tail(frames))
    BY <1>2, <2>1, ListPopped DEF StackInv
  <2>3. QED
    BY <2>1, <2>2 DEF StackInv
<1>3. QED
  BY <1>1, <1>2

\* XTHL.
LEMMA ExchangeKeepsStack ==
  ASSUME MachineOK, StackInv, contents' = writeTwoBytes(contents, SP, HL), SP' = SP,
         frames' = Topped(HL)
  PROVE  StackInv'
<1>1. SP \in Word /\ HL \in Word /\ regions_m = Mapping
  BY OperandsRead DEF MachineOK
<1>2. CASE frames = <<>>
  <2>1. frames' = <<>>
    BY <1>2 DEF Topped
  <2>2. QED
    BY <2>1, NothingHeld DEF StackInv
<1>3. CASE frames # <<>>
  <2>1. frames' = <<HL>> \o Tail(frames)
    BY <1>3 DEF Topped
  <2>2. 0 \in 0 .. 2 * Len(frames) - 1 /\ 1 \in 0 .. 2 * Len(frames) - 1
    BY <1>3 DEF StackInv, StackHolds
  <2>3. ToWord(SP + 0) = SP /\ ToWord(SP + 1) \in Word
    BY <1>1, WordRange DEF ToWord
  <2>4. /\ InRam(SP) /\ InRam(ToWord(SP + 1))
        /\ CellOf(SP) # CellOf(ToWord(SP + 1))
    BY <2>2, <2>3 DEF StackInv, StackHolds
  <2>5. StackCells(SP, ToWord(SP + 1))
    BY <1>1, <2>3, <2>4, RamIsWired DEF StackCells
  <2>6. WordAt(contents', SP) = HL
    BY <1>1, <2>5, StackWords
  <2>7. Touches(contents, contents', {SP, ToWord(SP + 1)})
    BY <1>1, WritesTouch
  <2>8. StackHolds(contents', SP, <<HL>> \o Tail(frames))
    BY <1>1, <1>3, <2>6, <2>7, ListTopped DEF StackInv
  <2>9. QED
    BY <2>1, <2>8 DEF StackInv
<1>4. QED
  BY <1>2, <1>3

-----------------------------------------------------------------------------
\* A pop moves SP past the word and fills the pair with it; bit 1 of F reads 1
\* whatever the word is (Registers.cpp:16-23, Fake8080.hpp:766-779).
LEMMA PopFills ==
  ASSUME MachineOK, NEW rr \in CombinedRegister \ {"SP"}
  PROVE  /\ getCombinedRegister(Popped(rr), "SP") = ToWord(SP + 2)
         /\ getCombinedRegister(Popped(rr), rr) = Filled(rr, readTwoBytes(SP))
<1> DEFINE moved == setCombinedRegister(registers_m, "SP", ToWord(SP + 2))
           word  == readTwoBytes(SP)
           high  == RegisterPairs[rr][1]
           low   == RegisterPairs[rr][2]
<1>1. /\ moved \in File /\ registers_m \in File /\ word \in Word
      /\ ToWord(SP + 2) \in Word /\ "SP" \in CombinedRegister \ {"PSW"}
  BY StackAndWords, OperandsRead DEF CombinedRegister, MachineOK
<1>2. /\ high \in Register \ {"F", "SP_high", "SP_low"}
      /\ low \in Register \ {"SP_high", "SP_low"}
      /\ high # low /\ (low = "F" <=> rr = "PSW")
      /\ RegisterPairs["SP"] = <<"SP_high", "SP_low">>
  BY DEF RegisterPairs, Register, CombinedRegister
<1>3. Popped(rr) = setCombinedRegister(moved, rr, word)
  BY Zenon DEF Popped
<1>4. getCombinedRegister(moved, "SP") = ToWord(SP + 2)
  BY <1>1, PairHoldsWord
<1>5. DOMAIN moved = Register
  BY <1>1 DEF File, RegisterFile
<1> HIDE DEF moved, word
<1>6. /\ Popped(rr)["SP_high"] = moved["SP_high"] /\ Popped(rr)["SP_low"] = moved["SP_low"]
  <2>1. Keeps(moved, setCombinedRegister(moved, rr, word), Halves(rr) \cup Scratch)
    <3>1. rr \in CombinedRegister
      OBVIOUS
    <3>2. QED
      BY <1>5, <3>1, FileChanges, Zenon
  <2>2. /\ "SP_high" \in Register \ (Halves(rr) \cup Scratch)
        /\ "SP_low" \in Register \ (Halves(rr) \cup Scratch)
    BY <1>2, PairHalves DEF Halves, Register, Scratch
  <2>3. QED
    BY <1>3, <2>1, <2>2 DEF Keeps
<1>7. getCombinedRegister(Popped(rr), "SP") = ToWord(SP + 2)
  BY <1>2, <1>4, <1>6 DEF getCombinedRegister, getRegister
<1>8. CASE rr # "PSW"
  BY <1>1, <1>3, <1>7, <1>8, PairHoldsWord DEF Filled, word
<1>9. CASE rr = "PSW"
  <2>1. high = "A" /\ low = "F"
    BY <1>9 DEF RegisterPairs
  <2>2. getHighByte(word) \in Byte /\ getLowByte(word) \in Byte
    BY <1>1, HalvesType
  <2>3. Popped(rr) = setRegister(setRegister(moved, "A", getHighByte(word)),
                                 "F", getLowByte(word))
    BY <1>3, <2>1 DEF setCombinedRegister
  <2>4. /\ Popped(rr)["A"] = getHighByte(word)
        /\ Popped(rr)["F"] = setBit(getLowByte(word), 1, TRUE)
    BY <1>5, <2>3 DEF setRegister, Register
  <2>5. getCombinedRegister(Popped(rr), rr)
          = Combine(getHighByte(word), setBit(getLowByte(word), 1, TRUE))
    BY <2>1, <2>4 DEF getCombinedRegister, getRegister
  <2>6. \A n : setBit(n, 1, TRUE) = (n - 2 * ((n \div 2) % 2)) + 2
    <3>1. Weight(1) = 2
      BY DEF Weight
    <3>2. QED
      BY <3>1 DEF setBit, Bit
  <2>7. Combine(getHighByte(word), setBit(getLowByte(word), 1, TRUE)) = setBit(word, 1, TRUE)
    <3> DEFINE upper == word \div 256
               lower == word % 256
               bit   == (word \div 2) % 2
    <3>1. word \in Nat
      BY <1>1, WordRange
    <3>2. (lower \div 2) % 2 = bit
      BY <3>1
    <3>3. word = 256 * upper + lower /\ upper \in Int /\ lower \in Int /\ bit \in Int
      BY <3>1
    <3>4. setBit(lower, 1, TRUE) = (lower - 2 * bit) + 2
      BY <2>6, <3>2, ZenonT(40)
    <3>5. setBit(word, 1, TRUE) = (word - 2 * bit) + 2
      BY <2>6
    <3>6. Combine(upper, setBit(lower, 1, TRUE)) = 256 * upper + setBit(lower, 1, TRUE)
      BY DEF Combine
    <3>7. getHighByte(word) = upper /\ getLowByte(word) = lower
      BY DEF getHighByte, getLowByte
    <3> HIDE DEF upper, lower, bit
    <3>8. 256 * upper + ((lower - 2 * bit) + 2) = (word - 2 * bit) + 2
      BY <3>1, <3>3
    <3>9. QED
      BY <3>4, <3>5, <3>6, <3>7, <3>8, Zenon
  <2>8. QED
    BY <1>7, <1>9, <2>5, <2>7 DEF Filled, word
<1>10. QED
  BY <1>8, <1>9

\* The fields of the conditional entries.
LEMMA ConditionFields ==
  ASSUME NEW flag, NEW negate
  PROVE  /\ ConditionalRet(flag, negate).flag = flag
         /\ ConditionalRet(flag, negate).negate = negate
         /\ ConditionalCall(flag, negate).flag = flag
         /\ ConditionalCall(flag, negate).negate = negate
BY DEF ConditionalRet, ConditionalCall

\* What a conditional entry of the table looks at, and for which value.
LEMMA ConditionFollows ==
  ASSUME NEW code \in Byte, Group(code) = 3, Z(code) \in {0, 4}
  PROVE  /\ opcodes_m[code].flag = Condition(code)
         /\ opcodes_m[code].negate <=> ~Selected(code)
         /\ Condition(code) \in Flags
<1> DEFINE negate == ~Selected(code)
<1>1. opcodes_m[code] = IF Z(code) = 0 THEN ConditionalRet(Condition(code), negate)
                                       ELSE ConditionalCall(Condition(code), negate)
  BY Group3Follows DEF Group3
<1>3. Condition(code) \in Flags
  <2>1. PairNumber(code) \in 0 .. 3
    BY Fields DEF PairNumber
  <2>2. QED
    BY <2>1 DEF Condition, Flags
<1> HIDE DEF negate
<1>4. opcodes_m[code].flag = Condition(code) /\ opcodes_m[code].negate = negate
  <2>1. CASE Z(code) = 0
    <3>1. opcodes_m[code] = ConditionalRet(Condition(code), negate)
      BY <1>1, <2>1
    <3>2. QED
      BY <3>1, ConditionFields
  <2>2. CASE Z(code) = 4
    <3>1. opcodes_m[code] = ConditionalCall(Condition(code), negate)
      BY <1>1, <2>2
    <3>2. QED
      BY <3>1, ConditionFields
  <2>3. QED
    BY <2>1, <2>2
<1>5. QED
  BY <1>3, <1>4, Zenon DEF negate

\* A call or a return goes ahead exactly when its opcode's condition holds.
LEMMA ConditionDecides ==
  ASSUME MachineOK, Fetched \in Byte, Group(Fetched) = 3, Z(Fetched) \in {0, 4}
  PROVE  Holds(opcodes_m[Fetched].flag, opcodes_m[Fetched].negate) <=> Goes
<1> DEFINE set == getFlag(registers_m, Condition(Fetched))
           negate == opcodes_m[Fetched].negate
<1>1. opcodes_m[Fetched].flag = Condition(Fetched) /\ (negate <=> ~Selected(Fetched))
  BY ConditionFollows
<1>2. set \in BOOLEAN /\ negate \in BOOLEAN
  <2>1. set \in BOOLEAN
    BY ConditionFollows, ReadersType DEF MachineOK
  <2>2. opcodes_m[Fetched].op \in ConditionalOp /\ opcodes_m[Fetched] \in Instruction
    <3>1. FlowFollows(Fetched)
      BY InstructionFlow
    <3>2. opcodes_m[Fetched].op \in ConditionalOp
      BY <3>1, Group3Follows, Group3Ops DEF ConditionalOp
    <3>3. QED
      BY <3>2, EveryOpcodeIsInstruction
  <2>3. negate \in BOOLEAN
    BY <2>2, OperandTypes DEF ConditionalOp
  <2>4. QED
    BY <2>1, <2>3
<1>3. Goes <=> (set <=> Selected(Fetched))
  BY Zenon DEF Goes
<1>4. Holds(opcodes_m[Fetched].flag, negate) <=> set # negate
  BY <1>1, Zenon DEF Holds
<1> HIDE DEF set, negate
<1>5. set # negate <=> (set <=> ~negate)
  BY <1>2
<1>6. Holds(opcodes_m[Fetched].flag, negate) <=> (set <=> Selected(Fetched))
  BY <1>1, <1>4, <1>5, Zenon
<1>7. QED
  BY <1>3, <1>6, Zenon DEF negate

\* No opcode moves the stack in two ways.
LEMMA StackOpcodes ==
  ASSUME NEW code \in Byte
  PROVE  /\ IsCall(code) => ~IsReturn(code) /\ ~IsPush(code) /\ ~IsPop(code)
         /\ IsReturn(code) => ~IsPush(code) /\ ~IsPop(code)
         /\ IsPush(code) => ~IsPop(code)
         /\ IsExchange(code) => /\ Group(code) = 3 /\ Z(code) = 3 /\ Y(code) = 4
                                /\ ~IsCall(code) /\ ~IsReturn(code)
                                /\ ~IsPush(code) /\ ~IsPop(code)
<1>1. /\ Y(code) \in 0 .. 7 /\ Z(code) \in 0 .. 7
      /\ Selected(code) <=> Y(code) % 2 = 1
  BY Fields DEF Selected
<1>2. IsExchange(code) => Group(code) = 3 /\ Z(code) = 3 /\ Y(code) = 4
  BY DEF IsExchange, Group, Y, Z
<1>3. QED
  BY <1>1, <1>2 DEF IsCall, IsReturn, IsPush, IsPop

\* The handlers of PUSH, POP and XTHL run with the pair of the bit field.
LEMMA StackInstruction ==
  ASSUME MachineOK, Execute
  PROVE  /\ IsPush(Fetched) => PUSH_RR(StackPair(Fetched))
         /\ IsPop(Fetched) => POP_RR(StackPair(Fetched))
         /\ IsExchange(Fetched) => XTHL
         /\ Group(Fetched) = 3 => StackPair(Fetched) \in CombinedRegister \ {"SP"}
<1>1. Fetched \in Byte /\ instruction = opcodes_m[Fetched]
  BY OperandsRead DEF Fetched, MachineOK, instruction
<1>2. PairNumber(Fetched) \in 0 .. 3
  BY <1>1, Fields DEF PairNumber
<1>3. StackPair(Fetched) \in CombinedRegister \ {"SP"}
  BY <1>2 DEF StackPair, CombinedRegister
<1>4. CASE IsPush(Fetched) \/ IsPop(Fetched)
  <2> DEFINE op == IF IsPush(Fetched) THEN "PUSH_RR" ELSE "POP_RR"
  <2>1. opcodes_m[Fetched] = OnPair(op, StackPair(Fetched))
    BY <1>1, <1>4, Group3Follows DEF Group3, IsPush, IsPop
  <2>2. instruction.op = op /\ instruction.rr = StackPair(Fetched)
    BY <1>1, <2>1 DEF OnPair
  <2>3. DataHandler(instruction)
    BY <2>2 DEF Execute
  <2>4. IsPush(Fetched) => ~IsPop(Fetched)
    BY <1>1, StackOpcodes
  <2>5. ~IsExchange(Fetched)
    BY <1>1, <1>4, StackOpcodes
  <2>6. QED
    BY <1>3, <1>4, <2>2, <2>3, <2>4, <2>5 DEF DataHandler
<1>5. CASE IsExchange(Fetched)
  <2>1. Group(Fetched) = 3 /\ Z(Fetched) = 3 /\ Y(Fetched) = 4
    BY <1>1, <1>5, StackOpcodes
  <2>2. instruction.op = "XTHL"
    BY <1>1, <2>1, Group3Follows, Group3Ops
  <2>3. XTHL
    BY <2>2 DEF Execute, DataHandler
  <2>4. QED
    BY <1>1, <1>3, <1>5, <2>3, StackOpcodes
<1>6. QED
  BY <1>3, <1>4, <1>5

\* A return is made exactly when its condition says so.
LEMMA ReturnDecided ==
  ASSUME MachineOK, Execute, IsReturn(Fetched)
  PROVE  /\ Goes => RET
         /\ ~Goes => registers_m' = registers_m /\ contents' = contents
<1>1. Fetched \in Byte /\ instruction = opcodes_m[Fetched] /\ Group(Fetched) = 3
  BY OperandsRead DEF Fetched, MachineOK, instruction, IsReturn
<1>2. FlowFollows(Fetched)
  BY <1>1, InstructionFlow
<1>3. instruction.op \in {"RET", "conditionalRet"}
  BY <1>1, <1>2 DEF FlowFollows
<1>4. DataHandler(instruction)
  BY <1>3 DEF Execute
<1>5. CASE Z(Fetched) = 0
  <2>1. instruction.op = "conditionalRet"
    BY <1>1, <1>5, Group3Follows, Group3Ops
  <2>2. conditionalRet(instruction.flag, instruction.negate)
    BY <1>4, <2>1 DEF DataHandler
  <2>3. Holds(opcodes_m[Fetched].flag, opcodes_m[Fetched].negate) <=> Goes
    BY <1>1, <1>5, ConditionDecides
  <2>4. Holds(instruction.flag, instruction.negate) <=> Goes
    BY <1>1, <2>3
  <2>5. QED
    BY <2>2, <2>4, EffectFile, EffectMemory, Zenon DEF conditionalRet
<1>6. CASE Z(Fetched) = 1
  <2>1. Goes
    BY <1>6 DEF Goes
  <2>2. instruction.op # "conditionalRet"
    <3>1. PairNumber(Fetched) \in 0 .. 3
      BY <1>1, Fields DEF PairNumber
    <3>2. instruction.op \in {"RET", "PCHL", "SPHL", "POP_RR"}
      BY <1>1, <1>6, <3>1, Group3Follows, Group3Ops
    <3>3. QED
      BY <3>2
  <2>3. RET
    BY <1>3, <1>4, <2>2 DEF DataHandler
  <2>4. QED
    BY <2>1, <2>3
<1>7. QED
  BY <1>5, <1>6 DEF IsReturn

\* A call is made exactly when its condition says so.
LEMMA CallDecided ==
  ASSUME MachineOK, Execute, IsCall(Fetched)
  PROVE  /\ Goes => \E address : callAddress(address, Sequel)
         /\ ~Goes => registers_m' = registers_m /\ contents' = contents
<1>1. Fetched \in Byte /\ instruction = opcodes_m[Fetched] /\ Group(Fetched) = 3
  BY OperandsRead DEF Fetched, MachineOK, instruction, IsCall
<1>2. FlowFollows(Fetched) /\ Sequel = After(Length(Fetched))
  BY <1>1, InstructionFlow, Zenon DEF Sequel, After
<1>3. CASE Z(Fetched) = 7
  <2>1. instruction.op = "RST_N" /\ Goes
    BY <1>1, <1>2, <1>3 DEF FlowFollows, Goes
  <2>2. Sequel = After(1) /\ RST_N(instruction.vector)
    BY <1>1, <1>2, <2>1 DEF FlowFollows, Length, WordOp, ByteOp, Execute, DataHandler
  <2>3. QED
    BY <2>1, <2>2, Zenon DEF RST_N
<1>4. CASE Z(Fetched) # 7
  <2>1. instruction.op \in {"CALL_a16", "conditionalCall_a16"}
    BY <1>1, <1>2, <1>4 DEF FlowFollows
  <2>2. Sequel = After(3) /\ DataHandler(instruction)
    BY <1>1, <1>2, <2>1 DEF FlowFollows, Length, WordOp, Execute
  <2>3. CASE Z(Fetched) = 4
    <3>1. instruction.op = "conditionalCall_a16"
      BY <1>1, <2>3, Group3Follows, Group3Ops
    <3>2. conditionalCall_a16(instruction.flag, instruction.negate)
      BY <2>2, <3>1 DEF DataHandler
    <3>3. Holds(opcodes_m[Fetched].flag, opcodes_m[Fetched].negate) <=> Goes
      BY <1>1, <2>3, ConditionDecides
    <3>4. Holds(instruction.flag, instruction.negate) <=> Goes
      BY <1>1, <3>3
    <3>5. CASE Goes
      BY <2>2, <3>2, <3>4, <3>5, Zenon DEF conditionalCall_a16, CALL_a16
    <3>6. CASE ~Goes
      BY <3>2, <3>4, <3>6, EffectFile, EffectMemory, Zenon DEF conditionalCall_a16
    <3>7. QED
      BY <3>5, <3>6
  <2>4. CASE Z(Fetched) = 5
    <3>1. instruction.op # "conditionalCall_a16" /\ Goes
      BY <1>1, <2>4, Group3Follows, Group3Ops DEF Goes
    <3>2. CALL_a16
      BY <2>1, <2>2, <3>1 DEF DataHandler
    <3>3. QED
      BY <2>2, <3>1, <3>2, Zenon DEF CALL_a16
  <2>5. QED
    BY <1>4, <2>3, <2>4 DEF IsCall
<1>5. QED
  BY <1>3, <1>4

-----------------------------------------------------------------------------
\* A call, or an interrupt, pushes the address to return to.
LEMMA CallKeepsStack ==
  ASSUME MachineOK, StackInv, regions_m' = regions_m, NEW address,
         NEW returnAddress \in Word, callAddress(address, returnAddress),
         frames' = Grown(returnAddress)
  PROVE  StackInv'
<1>1. SP' = ToWord(SP - 2)
  BY CallLeaves
<1>2. contents' = Pushed(contents, SP, returnAddress)
  BY EffectMemory, Zenon DEF callAddress
<1>3. QED
  BY <1>1, <1>2, PushKeepsStack

\* A step that moves nothing.
LEMMA StillKeepsStack ==
  ASSUME StackInv, registers_m' = registers_m, contents' = contents, frames' = frames
  PROVE  StackInv'
<1>1. SP' = SP
  BY DEF SP
<1>2. QED
  BY <1>1 DEF StackInv

\* An opcode that changes one half of the stack pointer changes both.
LEMMA StackMovesWhole ==
  ASSUME NEW code \in Byte, "SP_low" \notin Destinations(code)
  PROVE  "SP_high" \notin Destinations(code)
<1>1. Y(code) \in 0 .. 7 /\ Z(code) \in 0 .. 7 /\ Group(code) \in 0 .. 3
  BY Fields
<1>2. PairNumber(code) \in 0 .. 3
  BY <1>1 DEF PairNumber
<1>3. Destination(code) \notin {"SP_high", "SP_low"}
  BY <1>1 DEF Destination, RegisterCode
<1>4. /\ "SP_high" \in Halves(Pair(code)) => "SP_low" \in Halves(Pair(code))
      /\ "SP_high" \notin Halves(StackPair(code))
      /\ "SP_low" \in Halves("SP")
      /\ "SP_high" \notin Halves("HL") \cup Halves("DE")
  BY <1>2, PairHalves DEF Pair, StackPair
<1>5. CASE Group(code) = 0
  BY <1>1, <1>3, <1>4, <1>5 DEF Destinations
<1>6. CASE Group(code) \in {1, 2}
  BY <1>1, <1>3, <1>6 DEF Destinations
<1>7. CASE Group(code) = 3
  BY <1>1, <1>4, <1>7 DEF Destinations
<1>8. QED
  BY <1>1, <1>5, <1>6, <1>7

\* An instruction that neither moves the stack nor stores into it.
LEMMA OtherKeepsStack ==
  ASSUME MachineOK, StackInv, Execute, ~MovesStack, ~StoresIntoStack, frames' = frames
  PROVE  StackInv'
<1>1. Fetched \in Byte /\ regions_m = Mapping /\ SP \in Word /\ SP \in Int
  BY OperandsRead, WordRange DEF Fetched, MachineOK
<1>2. SP' = SP
  <2>1. "SP_low" \notin Destinations(Fetched) /\ "SP_high" \notin Destinations(Fetched)
    BY <1>1, StackMovesWhole DEF MovesStack
  <2>2. /\ "SP_low" \in Register \ (Destinations(Fetched) \cup Halves("WZ"))
        /\ "SP_high" \in Register \ (Destinations(Fetched) \cup Halves("WZ"))
    BY <2>1, PairHalves DEF Register
  <2>3. registers_m'["SP_low"] = registers_m["SP_low"]
    BY <2>2, StepKeeps
  <2>4. registers_m'["SP_high"] = registers_m["SP_high"]
    BY <2>2, StepKeeps
  <2>5. RegisterPairs["SP"] = <<"SP_high", "SP_low">>
    BY DEF RegisterPairs
  <2>6. QED
    BY <2>3, <2>4, <2>5 DEF SP, getCombinedRegister, getRegister
<1>3. Touches(contents, contents', StoredAt) /\ StoredAt \subseteq Word
  BY StepTouches, StoresAtWords
<1>4. ASSUME NEW address \in StoredAt, NEW k \in 0 .. 2 * Len(frames) - 1, InRam(address)
      PROVE  CellOf(address) # CellOf(ToWord(SP + k))
  <2>1. ToWord(SP + k) \in Word /\ InRam(ToWord(SP + k))
    <3>1. SP + k \in Int
      BY <1>1
    <3>2. QED
      BY <3>1, Converted DEF StackInv, StackHolds
  <2>2. WiredTo(ToWord(SP + k)) = CellOf(ToWord(SP + k)) /\ WiredTo(ToWord(SP + k)) \in Held
    BY <1>1, <2>1, RamIsWired DEF Held
  <2>3. WiredTo(address) = CellOf(address) /\ WiredTo(address) \notin Held
    BY <1>1, <1>3, <1>4, RamIsWired DEF StoresIntoStack
  <2>4. QED
    BY <2>2, <2>3
<1>5. StackHolds(contents', SP, frames)
  BY <1>1, <1>3, <1>4, ListKept DEF StackInv
<1>6. QED
  BY <1>2, <1>5 DEF StackInv

\* One instruction.
LEMMA InstructionKeepsStack ==
  ASSUME MachineOK, StackInv, Execute, frames' = FramesAfterInstruction
  PROVE  StackInv'
<1>1. Fetched \in Byte /\ regions_m' = regions_m
  BY OperandsRead DEF Fetched, MachineOK, Execute
<1>2. Sequel \in Word
  <2>1. pc_m + Length(Fetched) \in Int
    BY WordRange DEF MachineOK, Length
  <2>2. QED
    BY <2>1, Converted DEF Sequel
<1>3. CASE IsCall(Fetched)
  <2>1. frames' = IF Goes THEN Grown(Sequel) ELSE frames
    BY <1>1, <1>3, StackOpcodes DEF FramesAfterInstruction
  <2>2. CASE Goes
    <3>1. PICK address : callAddress(address, Sequel)
      BY <1>3, <2>2, CallDecided
    <3>2. QED
      BY <1>1, <1>2, <2>1, <2>2, <3>1, CallKeepsStack
  <2>3. CASE ~Goes
    BY <1>3, <2>1, <2>3, CallDecided, StillKeepsStack
  <2>4. QED
    BY <2>2, <2>3
<1>4. CASE IsReturn(Fetched)
  <2>1. frames' = IF Goes THEN Shrunk ELSE frames
    BY <1>1, <1>4, StackOpcodes DEF FramesAfterInstruction
  <2>2. CASE Goes
    <3>1. registers_m' = Popped("WZ") /\ contents' = contents
      BY <1>4, <2>2, ReturnDecided, EffectFile, EffectMemory, Zenon DEF RET
    <3>2. getCombinedRegister(Popped("WZ"), "SP") = ToWord(SP + 2)
      BY PopFills DEF CombinedRegister
    <3>3. SP' = ToWord(SP + 2)
      BY <3>1, <3>2 DEF SP
    <3>4. QED
      BY <2>1, <2>2, <3>1, <3>3, PopKeepsStack
  <2>3. CASE ~Goes
    BY <1>4, <2>1, <2>3, ReturnDecided, StillKeepsStack
  <2>4. QED
    BY <2>2, <2>3
<1>5. CASE IsPush(Fetched)
  <2> DEFINE word == getCombinedRegister(registers_m, StackPair(Fetched))
  <2>1. frames' = Grown(word)
    BY <1>1, <1>5, StackOpcodes DEF FramesAfterInstruction
  <2>2. StackPair(Fetched) \in CombinedRegister
    BY <1>5, StackInstruction DEF IsPush
  <2>3. word \in Word
    BY <2>2, ReadersType DEF MachineOK
  <2>4. /\ contents' = Pushed(contents, SP, word)
        /\ registers_m' = setCombinedRegister(registers_m, "SP", ToWord(SP - 2))
    BY <1>5, StackInstruction, EffectFile, EffectMemory, Zenon DEF PUSH_RR
  <2>5. SP' = ToWord(SP - 2)
    <3>1. ToWord(SP - 2) \in Word /\ "SP" \in CombinedRegister \ {"PSW"}
      BY OperandsRead DEF CombinedRegister
    <3>2. getCombinedRegister(registers_m', "SP") = ToWord(SP - 2)
      BY <2>4, <3>1, PairHoldsWord DEF MachineOK
    <3>3. QED
      BY <3>2 DEF SP
  <2>6. QED
    BY <2>1, <2>3, <2>4, <2>5, PushKeepsStack
<1>6. CASE IsPop(Fetched)
  <2> DEFINE rr == StackPair(Fetched)
  <2>1. frames' = Shrunk
    BY <1>1, <1>6, StackOpcodes DEF FramesAfterInstruction
  <2>2. rr \in CombinedRegister \ {"SP"}
    BY <1>6, StackInstruction DEF IsPop
  <2>3. registers_m' = Popped(rr) /\ contents' = contents
    BY <1>6, StackInstruction, EffectFile, EffectMemory, Zenon DEF POP_RR
  <2>4. SP' = ToWord(SP + 2)
    BY <2>2, <2>3, PopFills DEF SP
  <2>5. QED
    BY <2>1, <2>3, <2>4, PopKeepsStack
<1>7. CASE IsExchange(Fetched)
  <2>1. frames' = Topped(HL) /\ Z(Fetched) = 3 /\ Y(Fetched) = 4 /\ Group(Fetched) = 3
    BY <1>1, <1>7, StackOpcodes DEF FramesAfterInstruction
  <2>2. contents' = writeTwoBytes(contents, SP, HL)
    BY <1>7, StackInstruction, EffectMemory, Zenon DEF XTHL
  <2>3. SP' = SP
    <3>1. registers_m' = setCombinedRegister(registers_m, "HL", readTwoBytes(SP))
      BY <1>7, StackInstruction, EffectFile, Zenon DEF XTHL
    <3>2. Keeps(registers_m, registers_m', Halves("HL") \cup Scratch)
      <4>1. DOMAIN registers_m = Register /\ "HL" \in CombinedRegister
        BY DEF MachineOK, File, RegisterFile, CombinedRegister
      <4>2. QED
        BY <3>1, <4>1, FileChanges, Zenon
    <3>3. /\ registers_m'["SP_high"] = registers_m["SP_high"]
          /\ registers_m'["SP_low"] = registers_m["SP_low"]
      BY <3>2, PairHalves DEF Keeps, Scratch, Register
    <3>4. RegisterPairs["SP"] = <<"SP_high", "SP_low">>
      BY DEF RegisterPairs
    <3>5. QED
      BY <3>3, <3>4 DEF SP, getCombinedRegister, getRegister
  <2>4. QED
    BY <2>1, <2>2, <2>3, ExchangeKeepsStack
<1>8. CASE /\ ~IsCall(Fetched) /\ ~IsReturn(Fetched) /\ ~IsPush(Fetched)
           /\ ~IsPop(Fetched) /\ ~IsExchange(Fetched)
  <2>1. frames' = IF MovesStack \/ StoresIntoStack THEN <<>> ELSE frames
    BY <1>8 DEF FramesAfterInstruction
  <2>2. CASE MovesStack \/ StoresIntoStack
    BY <2>1, <2>2, NothingHeld DEF StackInv
  <2>3. CASE ~ (MovesStack \/ StoresIntoStack)
    BY <2>1, <2>3, OtherKeepsStack
  <2>4. QED
    BY <2>2, <2>3
<1>9. QED
  BY <1>3, <1>4, <1>5, <1>6, <1>7, <1>8

\* One call of cycle.
LEMMA CycleKeepsStack ==
  ASSUME CpuInv, StackInv, CycleH
  PROVE  StackInv'
<1>1. MachineOK /\ pc_m \in Word /\ cycle /\ frames' = FramesAfterCycle
  BY DEF CpuInv, MachineOK, CycleH
<1>2. CASE AcceptInterrupt
  <2>1. Accepts /\ regions_m' = regions_m /\ callAddress(8 * interruptVectorRequested_m, pc_m)
    BY <1>2 DEF AcceptInterrupt, Taken
  <2>2. frames' = Grown(pc_m)
    BY <1>1, <2>1 DEF FramesAfterCycle
  <2>3. QED
    BY <1>1, <2>1, <2>2, CallKeepsStack
<1>3. CASE StayHalted
  <2>1. frames' = frames
    BY <1>1, <1>3 DEF StayHalted, FramesAfterCycle
  <2>2. registers_m' = registers_m /\ contents' = contents
    BY <1>3 DEF StayHalted, busVars
  <2>3. QED
    BY <2>1, <2>2, StillKeepsStack
<1>4. CASE Execute
  <2>1. frames' = FramesAfterInstruction
    BY <1>1, <1>4 DEF Execute, FramesAfterCycle
  <2>2. QED
    BY <1>1, <1>4, <2>1, InstructionKeepsStack
<1>5. QED
  BY <1>1, <1>2, <1>3, <1>4 DEF cycle

\* The calls of the host and of the outside world leave the stack where it is.
LEMMA StackInvariant == HistorySpec => []StackInv
<1>1. HistoryInit => StackInv
  BY NothingHeld DEF HistoryInit, StackInv
<1>2. CpuInv /\ InterruptInv /\ StackInv /\ [HistoryNext]_<<vars, histories>> => StackInv'
  <2> SUFFICES ASSUME CpuInv, StackInv, [HistoryNext]_<<vars, histories>>
               PROVE  StackInv'
    OBVIOUS
  <2>1. CASE CycleH
    BY <2>1, CycleKeepsStack
  <2>2. CASE AskH
    <3>1. UNCHANGED <<registers_m, contents, frames>>
      BY <2>2 DEF AskH, requestInterrupt, cpuVars, busVars
    <3>2. QED
      BY <3>1, StillKeepsStack
  <2>3. CASE ResetH
    <3>1. UNCHANGED <<registers_m, contents, frames>>
      BY <2>3 DEF ResetH, reset, busVars
    <3>2. QED
      BY <3>1, StillKeepsStack
  <2>4. CASE WorldH \/ UNCHANGED <<vars, histories>>
    <3>1. UNCHANGED <<registers_m, contents, frames>>
      BY <2>4 DEF WorldH, OutsideInput, Plug, histories, vars, cpuVars, busVars
    <3>2. QED
      BY <3>1, StillKeepsStack
  <2>5. QED
    BY <2>1, <2>2, <2>3, <2>4 DEF HistoryNext
<1>3. QED
  BY <1>1, <1>2, HistoryKeepsInvariants, PTL DEF HistorySpec

\* Every word pushed and not yet popped is where the stack pointer says, for any
\* board, program, host and device (Fake8080.cpp:57-84, 157-165,
\* Fake8080.hpp:737-764).
THEOREM FramesStayOnStack == HistorySpec => []FramesOnStack
<1>1. CpuInv /\ InterruptInv /\ StackInv => FramesOnStack
  <2> SUFFICES ASSUME CpuInv, StackInv PROVE FramesOnStack
    OBVIOUS
  <2>1. \A address : readTwoBytes(address) = WordAt(contents, address)
    BY StackWords DEF CpuInv
  <2>2. DOMAIN frames = 1 .. Len(frames)
    BY DEF StackInv, StackHolds
  <2>3. QED
    BY <2>1, <2>2 DEF FramesOnStack, StackInv, StackHolds
<1>2. QED
  BY <1>1, HistoryKeepsInvariants, StackInvariant, PTL

\* The word a return, a POP or an XTHL reads is the top of the list.
LEMMA TopRead ==
  ASSUME MachineOK, StackInv, frames # <<>>
  PROVE  readTwoBytes(SP) = Head(frames)
<1>1. SP \in Word /\ readTwoBytes(SP) = WordAt(contents, SP)
  BY OperandsRead, StackWords
<1>2. QED
  BY <1>1, ListPopped DEF StackInv

\* A return goes to the address its call or interrupt left, POP gives back the
\* word its PUSH saved and XTHL swaps it with HL, however calls, interrupts and
\* saved registers are nested (Fake8080.cpp:15-21, 157-165, 310-333, 382-394,
\* 440-470, Fake8080.hpp:715-787).
THEOREM StackIsAStack == HistorySpec => PopsWhatWasPushed
<1> DEFINE Restores ==
      Execute /\ frames # <<>> =>
        /\ IsReturn(Fetched) /\ Goes => pc_m' = Head(frames)
        /\ IsPop(Fetched) =>
             getCombinedRegister(registers_m', StackPair(Fetched))
               = Filled(StackPair(Fetched), Head(frames))
        /\ IsExchange(Fetched) => HL' = Head(frames)
<1>1. ASSUME CpuInv, StackInv, Execute, frames # <<>>
      PROVE  /\ IsReturn(Fetched) /\ Goes => pc_m' = Head(frames)
             /\ IsPop(Fetched) =>
                  getCombinedRegister(registers_m', StackPair(Fetched))
                    = Filled(StackPair(Fetched), Head(frames))
             /\ IsExchange(Fetched) => HL' = Head(frames)
  <2>1. MachineOK /\ readTwoBytes(SP) = Head(frames)
    BY <1>1, TopRead DEF CpuInv
  <2>2. ASSUME IsReturn(Fetched), Goes PROVE pc_m' = Head(frames)
    <3>1. pc_m' = getCombinedRegister(Popped("WZ"), "WZ")
      BY <1>1, <2>1, <2>2, ReturnDecided, EffectCounter, Zenon DEF RET
    <3>2. getCombinedRegister(Popped("WZ"), "WZ") = Filled("WZ", readTwoBytes(SP))
      BY <2>1, PopFills DEF CombinedRegister
    <3>3. QED
      BY <2>1, <3>1, <3>2 DEF Filled
  <2>3. ASSUME IsPop(Fetched)
        PROVE  getCombinedRegister(registers_m', StackPair(Fetched))
                 = Filled(StackPair(Fetched), Head(frames))
    <3>1. /\ registers_m' = Popped(StackPair(Fetched))
          /\ StackPair(Fetched) \in CombinedRegister \ {"SP"}
      <4>1. POP_RR(StackPair(Fetched)) /\ Group(Fetched) = 3
        BY <1>1, <2>1, <2>3, StackInstruction DEF IsPop
      <4>2. StackPair(Fetched) \in CombinedRegister \ {"SP"}
        BY <1>1, <2>1, <4>1, StackInstruction
      <4>3. QED
        BY <4>1, <4>2, EffectFile, Zenon DEF POP_RR
    <3>2. QED
      BY <2>1, <3>1, PopFills
  <2>4. ASSUME IsExchange(Fetched) PROVE HL' = Head(frames)
    <3>1. registers_m' = setCombinedRegister(registers_m, "HL", readTwoBytes(SP))
      BY <1>1, <2>1, <2>4, StackInstruction, EffectFile, Zenon DEF XTHL
    <3>2. readTwoBytes(SP) \in Word /\ "HL" \in CombinedRegister \ {"PSW"}
      BY <2>1, OperandsRead DEF CombinedRegister
    <3>3. getCombinedRegister(registers_m', "HL") = readTwoBytes(SP)
      BY <2>1, <3>1, <3>2, PairHoldsWord DEF MachineOK
    <3>4. QED
      BY <2>1, <3>3 DEF HL
  <2>5. QED
    BY <2>2, <2>3, <2>4
<1>2. CpuInv /\ InterruptInv /\ StackInv /\ [HistoryNext]_<<vars, histories>>
        => [Restores]_<<vars, histories>>
  BY <1>1
<1> HIDE DEF Restores
<1>3. HistorySpec => [][Restores]_<<vars, histories>>
  BY <1>2, HistoryKeepsInvariants, StackInvariant, PTL DEF HistorySpec
<1>4. QED
  BY <1>3, PTL DEF PopsWhatWasPushed, Restores
=============================================================================
