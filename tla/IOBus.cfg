SPECIFICATION PortsSpec
CONSTANTS
  Port = {0, 1, 2}
  PortValue = {0, 255}
  Device = {keyboard, screen}
  NoDevice = NoDevice
  Disconnected_Port_Return_Value = 255
INVARIANT PortsTypeOK
PROPERTY
  OnlyOneDeviceAnswers
