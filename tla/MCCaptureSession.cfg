\* Three entries, so that two checkpoints and the artifact can differ.
SPECIFICATION FairSpec
CONSTANTS
    DisconnectEvents = TRUE
    MaxEntries = 3
    MaxFaults = 2
INVARIANTS
    StoredIsWhole
    CleanExitLeavesNoCheckpoint
    DeathLosesOnlyInWindow
PROPERTIES
    SessionEnds
\* A session that has ended does nothing more.
CHECK_DEADLOCK FALSE
