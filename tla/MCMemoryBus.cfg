SPECIFICATION MCSpec
CONSTANTS
  AddressSpace = 4
  Value = {0, 255}
  OpenValue = 255
  OpenBus = OpenBus
  ram = ram
  mirror = mirror
  rom = rom
  gap = gap
  MaxMappings = 3
  Region <- MCRegion
  Kind <- MCKind
  SpanSize <- MCSpanSize
INVARIANTS
  BusTypeOK
  MappedSizesMatch
  InBounds
PROPERTY
  ImplementsFlatMemory
