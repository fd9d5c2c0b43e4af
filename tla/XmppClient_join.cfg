\* XmppClient.h:153 against the destructor, which joins nothing.
CONSTANT MaxConnects = 2
CONSTANT MayOverlap = FALSE
SPECIFICATION Spec
INVARIANT DestructorJoinsThread
