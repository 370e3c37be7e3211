SPECIFICATION Spec
CONSTANTS
    Byte = {0, 1}
    BlockSize = 2
    ChunkSize = 1
    Object = {w1, r1}
    Writer = {w1}
    Capacity = 1
    Sizes = {2}
    Faults = {"write"}
    MaxLength = 3
    Closed = Closed
INVARIANTS WindowExact SizeExact CopyExact
PROPERTY RefinesBytes
