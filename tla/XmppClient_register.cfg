\* XmppClient.h:159-161 against onDisconnect, which calls connect() again.
CONSTANT MaxConnects = 3
CONSTANT MayOverlap = FALSE
SPECIFICATION Spec
INVARIANT OneTimeRegistration
