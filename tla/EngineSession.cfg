SPECIFICATION Spec
CONSTANTS
    Key = {1, 2}
    NumLevels = 3
    L0Trigger = 2
    LevelRecs = 1
    OutputRecs = 1
    MaxTableId = 4
    MaxWalId = 3
    MaxSeq = 5
    MaxWrites = 2
    SyncOnWrite = TRUE
    BackgroundCompaction = TRUE
    Ranges <- ReversedAndAll
    Faults = {"wal_write", "wal_sync", "sst_write", "manifest_append", "manifest_sync", "remove"}
    MaxCrashes = 0
INVARIANTS TypeOK CatalogIntact SearchOrder EditsStage

