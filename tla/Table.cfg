SPECIFICATION Spec
CONSTANTS
    Layouts <- BothLayouts
    Byte = {0, 1}
    User = {u1, u2}
    Faults = {"write", "crash"}
    None = None
INVARIANTS HeadersAgree SearchExact
PROPERTY RefinesCellStore
SYMMETRY UserSymmetry
