SPECIFICATION Spec
CONSTANTS
    Byte <- MCByte
    Blobs <- MCBlobs
    MaxSize = 3
    SchemaSize = 4
    MaxOffset = 19
    Readers = {r1}
    NoBlob = NoBlob
INVARIANTS TypeOK OffsetsOrdered OffsetsFit AckedDurable NoOverlap ViewsExact
PROPERTIES ViewsStable LockReleased RefinesLog
