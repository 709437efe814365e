\* Runs follow one another: one slot, two archives, two faults.
SPECIFICATION FairSpec
CONSTANTS
    Slot = {s1}
    Archive = {1, 2}
    Path <- MCPath
    Content <- MCContent
    Export <- MCExport
    MaxFaults = 2
    NoSlot = NoSlot
    NoArchive = NoArchive
    NoStamp = NoStamp
    TornStamp = TornStamp
    TornFile = TornFile
    Leaked = Leaked
INVARIANTS TypeOK StampMeansStored CopiesDiffer
PROPERTIES NothingForgotten Promise EventuallyBackedUp
\* With everything expired and the marker torn, nothing is left to do.
CHECK_DEADLOCK FALSE
