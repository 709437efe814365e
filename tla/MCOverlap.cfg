SPECIFICATION FairSpec
CONSTANTS
    Slot = {s1, s2}
    Archive = {1}
    Path <- MCTinyPath
    Content <- MCContent
    Export <- MCTinyExport
    MaxFaults = 2
    NoSlot = NoSlot
    NoArchive = NoArchive
    NoStamp = NoStamp
    TornStamp = TornStamp
    TornFile = TornFile
    Leaked = Leaked
PROPERTIES RunEnds SessionIsFreed
CHECK_DEADLOCK FALSE
