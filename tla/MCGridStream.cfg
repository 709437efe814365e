SPECIFICATION GridSpec
CONSTANTS
    Blocks <- MCBlocks
    max_retries = 3
INVARIANTS GridTypeOK AcceptedIsWhole SkippedIsGone
PROPERTIES StreamEnds ConnectionsEnd LoopFollowsServer
\* The transfer stops when it is over.
CHECK_DEADLOCK FALSE
