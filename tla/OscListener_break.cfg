SPECIFICATION FairSpec
CONSTANTS
  MaxSetups = 1
  MaxDatagrams = 1
  MaxMessages = 1
PROPERTIES ShutdownReturns
CHECK_DEADLOCK FALSE
