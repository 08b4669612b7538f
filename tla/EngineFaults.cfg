SPECIFICATION Spec
CONSTANTS
    Key = {1, 2}
    NumLevels = 3
    L0Trigger = 2
    LevelRecs = 1
    OutputRecs = 1
    MaxTableId = 4
    MaxWalId = 4
    MaxSeq = 5
    MaxWrites = 2
    SyncOnWrite = TRUE
    BackgroundCompaction = TRUE
    Ranges <- NoRanges
    Faults = {"sst_write", "wal_close", "remove", "manifest_append"}
    MaxCrashes = 2
INVARIANTS ReadsSeeAcked RecoveryKeepsPromises NamedWalExists WalReplays TablesIntact
PROPERTY NeverTouchesLiveTable
