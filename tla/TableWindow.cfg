SPECIFICATION Spec
CONSTANTS
    Path = {p, q}
    Shapes <- TwoAndOne
    Value = {0, 1}
    PageSizes = {1, 2}
    Limit = 1
    Slot = {s1, s2}
    Faults = {"call"}
    Error = Error
    None = None
INVARIANTS ScreenTrue EditsOnPage NotStuck
SYMMETRY WindowSymmetry
