SPECIFICATION Spec
CONSTANTS
    Key = {1, 2}
    NumLevels = 3
    L0Trigger = 2
    LevelRecs = 1
    OutputRecs = 1
    MaxTableId = 3
    MaxWalId = 3
    MaxSeq = 5
    MaxWrites = 2
    SyncOnWrite = TRUE
    BackgroundCompaction = TRUE
    Ranges <- NoRanges
    Faults = {"manifest_sync"}
    MaxCrashes = 0
INVARIANT NamedWalExists

