SPECIFICATION Spec
CONSTANTS
  Capacity = 84
  Addresses <- OneAddress
  AddressLength <- OneLength
  Arguments <- TagAndWord
  MaxArguments = 3
  WordSize = 8
  OnePacket = TRUE
INVARIANTS PointerStaysInBuffer
