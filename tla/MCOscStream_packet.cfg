SPECIFICATION Spec
CONSTANTS
  Capacity = 84
  Addresses <- OneAddress
  AddressLength <- OneLength
  Arguments <- TagAndWord
  MaxArguments = 3
  WordSize = 4
  OnePacket = TRUE
PROPERTIES ImplementsPacket
