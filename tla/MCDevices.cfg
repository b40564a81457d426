SPECIFICATION MCSpec
CONSTANTS
  AddressSpace = 65536
  OpenValue = 255
  OpenBus = OpenBus
  rom = rom
  ram = ram
  keyboard = keyboard
  screen = screen
  spare = spare
  printer = printer
  NoDevice = NoDevice
  Disconnected_Port_Return_Value = 255
  Vectors = {}
  Inputs = {0, 1, 192}
  Region = {rom, ram, OpenBus}
  Device = {keyboard, screen, spare, printer}
  Value <- Byte
  Port <- Byte
  PortValue <- Byte
  Kind <- MCKind
  SpanSize <- MCSpanSize
  Mapping <- MCMapping
  Images <- MCImages
  Wiring <- MCWiring
  Sockets <- MCSockets
  Alarm <- MCAlarm
INVARIANT LabelsAreWhole
PROPERTIES
  ShownWasTyped
  KeyIsServed
