SPECIFICATION FairSpec
CONSTANTS
    Key = {1, 2}
    NumLevels = 3
    L0Trigger = 2
    LevelRecs = 1
    OutputRecs = 1
    MaxTableId = 5
    MaxWalId = 3
    MaxSeq = 5
    MaxWrites = 2
    SyncOnWrite = FALSE
    BackgroundCompaction = TRUE
    Ranges <- ReversedAndAll
    Faults = {}
    MaxCrashes = 1
INVARIANTS ReadsSeeAcked RecoveryKeepsPromises
PROPERTY CallsReturn

