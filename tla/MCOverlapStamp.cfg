SPECIFICATION Spec
CONSTANTS
    Slot = {s1, s2}
    Archive = {1}
    Path <- MCSmallPath
    Content <- MCContent
    Export <- MCSmallExport
    MaxFaults = 0
    NoSlot = NoSlot
    NoArchive = NoArchive
    NoStamp = NoStamp
    TornStamp = TornStamp
    TornFile = TornFile
    Leaked = Leaked
INVARIANT StampMeansStored
CHECK_DEADLOCK FALSE
