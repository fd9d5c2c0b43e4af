\* PluginInterface.h:120 against a stopInterface that races with a registration.
CONSTANT MaxConnects = 2
CONSTANT MayOverlap = FALSE
SPECIFICATION FairSpec
PROPERTY StopDisconnects
