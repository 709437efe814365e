SPECIFICATION FairSpec
CONSTANTS
    Archive = {1, 2, 3}
    Parts <- MCParts
    DOWNLOAD_ATTEMPTS = 3
    NoArchive = NoArchive
    NoStamp = NoStamp
INVARIANTS TypeOK AllOrNothing TargetIsNewest RequestOnlyIfNeeded SavedWhenSettled
PROPERTY RunTerminates
\* A run stops when it is over.
CHECK_DEADLOCK FALSE
