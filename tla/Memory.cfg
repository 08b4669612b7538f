SPECIFICATION Spec
CONSTANTS
    MaxSeq = 8
    MaxLevel = 2
    PageSize = 4
    LargeThreshold = 5
    MaxPage = 8
    MaxAlign = 2
    DriverClasses = {"RBTree", "Treap", "SplayTree", "SkipList"}
    Key = {1, 2, 3}
    KeySize <- KeySizes
    ValueSize <- ValueSizes
    Objects <- ObjectSet
    MaxCalls <- Calls
    Tallest <- Heights
    Serialized = {"SplayTree"}
    MaxShared = 3
    Readers = {r1, r2}
    Flushers = {f1, f2}
INVARIANTS TypeOK DriversValid GetSeesNewest NothingLost BytesBacked
SYMMETRY ThreadSymmetry
