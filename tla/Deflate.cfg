SPECIFICATION Spec
CONSTANTS
    Length = 4
    BlockSize = 2
    HeaderSize = 8
    FieldsAt = 2
    Reserve = 7
    MaxPacked = 2
    Capacity = 1
    Client = {c1, c2}
    None = None
INVARIANTS ReadsExact CacheCoherent FinishedReadable
PROPERTIES CallerCellsKept ReadsAdvance
CHECK_DEADLOCK FALSE
