SPECIFICATION Spec
CONSTANTS
    NParts = 3
    DOWNLOAD_ATTEMPTS = 3
    NoPart = NoPart
INVARIANT EmptyIsSkipped
\* The loop stops when it is over.
CHECK_DEADLOCK FALSE
