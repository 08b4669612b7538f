SPECIFICATION Spec
CONSTANTS
    WalBlock = 6
    WalHdr = 2
    FragHdr = 2
    ManifestBlock = 63
    RecordSize = {1, 5}
    PathSize = {1}
    MaxEvents = 3
    MaxWalId = 3
    Unreadable = Unreadable
INVARIANT EditsLoad


