SPECIFICATION Spec
CONSTANTS
    Path = {p, q}
    Blob = {a, b}
    Room = 2
    Starts <- OneList
    Slot = {s1, s2}
    Faults = {"call"}
    Error = Error
    None = None
INVARIANTS ListTrue BlobIsMarked ActsOnSeen
SYMMETRY WindowSymmetry
