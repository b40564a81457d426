------------------------------- MODULE IOBus -------------------------------
(***************************************************************************)
(* The I/O bus (include/IOBus.hpp, src/IOBus.cpp): one slot per port, each *)
(* empty or holding a pointer to a device.  The same device may be         *)
(* attached to several ports.                                              *)
(*                                                                         *)
(* Devices are the host's classes derived from IOPort.  The model's device *)
(* is a latch, like MockIOPort in test/IN_OUT_Test.cpp: it reads as the    *)
(* last byte written to it, or as any byte the outside world put there     *)
(* since.                                                                  *)
(***************************************************************************)
EXTENDS Naturals

CONSTANTS
  Port,           \* the port numbers
  PortValue,      \* values of uint8_t
  Device,         \* the device objects
  NoDevice,       \* the null pointer
  Disconnected_Port_Return_Value   \* what an empty slot reads (0xFF)

ASSUME IOAssumption ==
  /\ NoDevice \notin Device
  /\ Disconnected_Port_Return_Value \in PortValue

VARIABLES
  ports_m,        \* [Port -> Device \cup {NoDevice}]
  latch           \* [Device -> PortValue]: what each device holds

ioVars == <<ports_m, latch>>

\* Seeded fault: the constructor fills only the slot of port 0.
PortsInit_OneSlot ==
  /\ ports_m = [port \in {0} |-> NoDevice]
  /\ latch \in [Device -> PortValue]

PortsInit ==
  /\ ports_m = [port \in Port |-> NoDevice]
  /\ latch \in [Device -> PortValue]

attach(port, device) ==
  /\ ports_m' = [ports_m EXCEPT ![port] = device]
  /\ UNCHANGED latch

\* IOBus::in, the byte the CPU reads; in() of a device changes nothing.
in(ports, held, port) ==
  IF ports[port] = NoDevice
    THEN Disconnected_Port_Return_Value
    ELSE held[ports[port]]

\* Seeded fault: every attached device takes the byte.
out_Broadcast(ports, held, port, value) ==
  [device \in Device |->
     IF \E p \in Port : ports[p] = device THEN value ELSE held[device]]

\* IOBus::out, the bytes the devices hold afterwards; an empty slot drops
\* the byte.
out(ports, held, port, value) ==
  IF ports[port] = NoDevice THEN held ELSE [held EXCEPT ![ports[port]] = value]

Output(port, value) ==
  /\ latch' = out(ports_m, latch, port, value)
  /\ UNCHANGED ports_m

\* The outside world puts a byte in a device.
DeviceInput(device, value) ==
  /\ latch' = [latch EXCEPT ![device] = value]
  /\ UNCHANGED ports_m

PortsNext ==
  \/ \E port \in Port, device \in Device : attach(port, device)
  \/ \E port \in Port, value \in PortValue : Output(port, value)
  \/ \E device \in Device, value \in PortValue : DeviceInput(device, value)

PortsSpec == PortsInit /\ [][PortsNext]_ioVars
-----------------------------------------------------------------------------
\* Every slot is empty or holds a device, every device holds a byte.
PortsTypeOK ==
  /\ ports_m \in [Port -> Device \cup {NoDevice}]
  /\ latch \in [Device -> PortValue]

\* What a program can read on the bus now.
Readings == [port \in Port |-> in(ports_m, latch, port)]

\* Each step of the bus is heard on the ports of one device only: when the
\* readings of two ports change together, the two ports name the same device
\* and go on reading alike.  An attach that touched another slot, or a write
\* that reached a device of another port, would break it (IOBus.cpp:7-23).
OnlyOneDeviceAnswers ==
  [][\A p, q \in Port :
       Readings[p] # Readings'[p] /\ Readings[q] # Readings'[q] /\ p # q
         => ports_m[p] = ports_m[q] /\ Readings'[p] = Readings'[q]]_ioVars
=============================================================================
