\* PluginInterface.h:157 against a map that only a login fills.
SPECIFICATION Spec
CONSTANTS
  NumUsers = 2
  Resources = {"r1", "r2"}
  IsDocent = FALSE
  MaxLogins = 2
  MaxChanges = 3
  MaxMessages = 1
INVARIANTS BroadcastReachesConnected
CHECK_DEADLOCK FALSE
