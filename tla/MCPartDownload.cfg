SPECIFICATION FairSpec
CONSTANTS
    NParts = 3
    DOWNLOAD_ATTEMPTS = 3
    NoPart = NoPart
INVARIANTS TypeOK RightParts
PROPERTY Promise
\* The loop stops when it is over.
CHECK_DEADLOCK FALSE
