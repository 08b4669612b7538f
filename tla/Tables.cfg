SPECIFICATION Spec
CONSTANTS
    Block = 15
    SectionHdr = 1
    RecordFixed = 5
    IndexFixed = 1
    MetaFixed = 3
    BloomBits = 5
    Fnv <- SmallFnv
    Inputs = {1, 2}
    Outputs = {3, 4, 5}
    Dumps <- TwoDumps
    TargetSize = 14
    Fixed = 0
    Bottommost = TRUE
    MaxFaults = 1
INVARIANTS TypeOK PublishedWhole GetsNewest HealthyTablesAnswer FilterCovers CompactionComplete
PROPERTY CompactionConsumes
