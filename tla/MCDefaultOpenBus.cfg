SPECIFICATION MCSpec
CONSTANTS
  AddressSpace = 4
  Value = {0, 255}
  OpenValue = 255
  OpenBus = OpenBus
  ram = ram
  mirror = mirror
  rom = rom
  gap = gap
  MaxMappings = 2
  Region <- MCRegion
  Kind <- MCKind
  SpanSize <- MCSpanSize
INVARIANT DefaultOpenBusFitsOneAddress
