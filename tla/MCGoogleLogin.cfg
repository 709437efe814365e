SPECIFICATION FairSpec
CONSTANT MaxRedirects = 2
INVARIANTS TypeOK ReturnsAuthenticated EventFits
PROPERTY LoginEnds
\* The login stops when it is over.
CHECK_DEADLOCK FALSE
