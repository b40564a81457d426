SPECIFICATION MCSpec
CONSTANTS
  AddressSpace = 65536
  OpenValue = 255
  OpenBus = OpenBus
  rom = rom
  ram = ram
  RamSize = 32
  NoDevice = NoDevice
  Disconnected_Port_Return_Value = 255
  Inputs = {}
  Sockets = {}
  Region = {rom, ram, OpenBus}
  Device = {}
  Value <- Byte
  Port <- Byte
  PortValue <- Byte
  Kind <- MCKind
  SpanSize <- MCSpanSize
  Mapping <- MCMapping
  Images <- MCImages
  Wiring <- MCWiring
  Alarm <- MCAlarm
  Vectors = {1}
  MaxRequests = 1
  MaxResets = 1
PROPERTY ResetRestoresInitialState
