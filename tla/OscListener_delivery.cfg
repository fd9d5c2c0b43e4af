SPECIFICATION FairSpec
CONSTANTS
  MaxSetups = 2
  MaxDatagrams = 3
  MaxMessages = 2
INVARIANTS TypeOK HandedOverOnce SocketOutlivesRun
PROPERTIES LateShutdownReturns
CHECK_DEADLOCK FALSE
