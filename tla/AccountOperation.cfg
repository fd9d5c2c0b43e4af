\* Two devices and an eraser on one account, three requests.
SPECIFICATION FairSpec
CONSTANTS
  Registrations = {r1, r2}
  Erasers = {e1}
  MaxClients = 3
INVARIANTS TypeOK
PROPERTIES ImplementsPromise InitReturns
CHECK_DEADLOCK FALSE
