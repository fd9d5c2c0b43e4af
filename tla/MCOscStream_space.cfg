SPECIFICATION Spec
CONSTANTS
  Capacity = 38
  Addresses <- MCAddresses
  AddressLength <- MCAddressLength
  Arguments <- MCArguments
  MaxArguments = 5
  WordSize = 8
  OnePacket = FALSE
INVARIANTS TypeOK FinishedMessageFits
PROPERTIES SizeIsValid
