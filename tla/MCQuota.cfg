SPECIFICATION Spec
CONSTANTS
    Archive = {1, 2}
    Parts <- MCParts
    DOWNLOAD_ATTEMPTS = 2
    NoArchive = NoArchive
    NoStamp = NoStamp
INVARIANT FinalIsFinal
CHECK_DEADLOCK FALSE
