SPECIFICATION MCSpec
\* The host stops after MaxCycles calls.
CHECK_DEADLOCK FALSE
CONSTANTS
  AddressSpace = 65536
  OpenValue = 255
  OpenBus = OpenBus
  rom = rom
  ram = ram
  device = device
  NoDevice = NoDevice
  Disconnected_Port_Return_Value = 255
  Vectors = {}
  Inputs = {}
  Sockets = {}
  MaxCycles = 8
  Region = {rom, ram, OpenBus}
  Device = {device}
  Value <- Byte
  Port <- Byte
  PortValue <- Byte
  Kind <- MCKind
  SpanSize <- MCSpanSize
  Mapping <- MCMapping
  Images <- MCImages
  Wiring <- MCWiring
  Alarm <- MCAlarm
INVARIANTS
  TypeOK
  ReservedFlagSet
PROPERTIES
  StaysInStep
  OnlyDestinationsChange
  CallsLeaveReturnAddress
  RomUnchanged
  OnlyNamedCellsChange
