SPECIFICATION SetupSpec
CONSTANTS
  Addrs <- MCAddrs
  Family <- MCFamily
  AdapterOf <- MCAdapterOf
  Bounded = {"cqe"}
  CapOnly = {"reads"}
  Inline = "inline"
  Free = {"batch"}
  Cap <- MCCap
  Default <- MCDefault
  MaxConfig = 2
  MaxProtos = 2
  MaxList = 3
  None = None
CHECK_DEADLOCK FALSE
INVARIANTS OneDevicePerAdapter AddressesAreOwn SelectionIsUsable RegistrationIsWhole
