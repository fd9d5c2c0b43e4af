\* AccountRegistration.h:48 against a server that answers with a form only, or a name
\* that XMPP does not allow.
SPECIFICATION FairSpec
CONSTANTS
  Registrations = {r1}
  Erasers = {e1}
  MaxClients = 2
PROPERTIES InitAlwaysReturns
CHECK_DEADLOCK FALSE
