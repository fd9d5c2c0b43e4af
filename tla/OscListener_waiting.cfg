SPECIFICATION Spec
CONSTANTS
  MaxSetups = 1
  MaxDatagrams = 1
  MaxMessages = 1
INVARIANTS NoWaitingMessagesWithCallback
CHECK_DEADLOCK FALSE
