SPECIFICATION Spec
CONSTANTS
    MaxSeq = 3
    MaxLevel = 2
    PageSize = 4
    LargeThreshold = 5
    MaxPage = 8
    MaxAlign = 2
    DriverClasses = {"SplayTree"}
    Key = {1, 2, 3}
    KeySize <- KeySizes
    ValueSize <- ValueSizes
    Objects = {}
    MaxCalls <- Calls
    Tallest <- Heights
    Serialized = {}
    MaxShared = 3
    Readers = {r1, r2}
    Flushers = {f1}
INVARIANT GetSeesNewest
SYMMETRY ThreadSymmetry
