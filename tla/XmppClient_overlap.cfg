\* startInterface again and again on the same Client, as a retry timer does.
CONSTANT MaxConnects = 2
CONSTANT MayOverlap = TRUE
SPECIFICATION Spec
INVARIANT ConnectedMeansLive
