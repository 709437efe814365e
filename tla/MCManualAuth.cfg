SPECIFICATION FairSpec
CONSTANTS
    Cookie = {"SID", "PSIDTS"}
    MaxVersion = 3
    NoJar = NoJar
INVARIANTS TypeOK SavedAfterTakeout SessionIsFreed
PROPERTIES JarIsFresh MainEnds
\* The script ends.
CHECK_DEADLOCK FALSE
