\* One startInterface per Client; logins may fail and register new accounts.
CONSTANT MaxConnects = 4
CONSTANT MayOverlap = FALSE
SPECIFICATION FairSpec
INVARIANT TypeOK
INVARIANT ConnectedMeansCurrent
INVARIANT EndIsReported
PROPERTY CleanStop
PROPERTY StopReturns
