SPECIFICATION Spec
CONSTANTS
    Name = {x, y}
    Texts = {t}
    Starts <- Links
    Proc = {p, q}
    Files = 4
    Runs = 2
    Faults = {"io", "crash"}
    Torn = Torn
    None = None
INVARIANTS InputKept ExitTellsTruth NoPartialLeft
SYMMETRY ProcSymmetry
CHECK_DEADLOCK FALSE
