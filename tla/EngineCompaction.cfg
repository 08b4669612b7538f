SPECIFICATION Spec
CONSTANTS
    Key = {1, 2}
    NumLevels = 3
    L0Trigger = 2
    LevelRecs = 1
    OutputRecs = 1
    MaxTableId = 6
    MaxWalId = 3
    MaxSeq = 5
    MaxWrites = 4
    SyncOnWrite = TRUE
    BackgroundCompaction = TRUE
    Ranges <- UpperRange
    Faults = {}
    MaxCrashes = 0
INVARIANTS ReadsSeeAcked RecoveryKeepsPromises NamedWalExists WalReplays SearchOrder EditsStage TablesIntact
PROPERTY NeverTouchesLiveTable
